CONSTANTS
    Arrivals <- SmallArrivals
    Messages = {0, 1, 12, 1000}
SPECIFICATION Spec
INVARIANTS
    EbpfInBounds
    EbpfIsSource
    FiltersAgree
    MessageFound
