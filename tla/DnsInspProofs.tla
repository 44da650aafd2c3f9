--------------------------- MODULE DnsInspProofs ---------------------------
(***************************************************************************)
(* Proofs about dns-insp from main to exit, for any number of starts of    *)
(* the program, each of which may be killed anywhere.                      *)
(***************************************************************************)
EXTENDS DnsInsp, TLAPS

\* The machines the commands and the program can leave behind.
Machines == [veth : BOOLEAN, clsact : SUBSET {"qdisc", "ingress", "egress"}, prog : BOOLEAN]

\* The stages of main outside the setup.
Stages == {"argv", "signals", "init", "read", "free", "close", "exit", "dead"} \union Teardown

\* The steps of the setup in front of the n-th, and what they have acquired.
Before(n)   == {Steps[type][k] : k \in 1..(n - 1)}
Acquired(n) == Before(n) \intersect Resources

\* The types the arguments rest on.
InspTypes ==
    /\ kern \in Machines /\ was \in Machines
    /\ orphans \subseteq Commands \union Teardown
    /\ mode \in Modes /\ type \in Types /\ dev \in BOOLEAN
    /\ held \subseteq Resources \union {"pcap", "filename"}
    /\ use_mirror \in BOOLEAN /\ smooth \in BOOLEAN
    /\ pc \in AllSteps \union Stages

\* Nothing is open before insp_init; then the file, if one was named.
FileOpened ==
    /\ pc \in {"argv", "signals", "init"} => held \subseteq {"filename"} /\ ~use_mirror
    /\ pc \in {"signals", "init"} => OptionsSuffice
    /\ pc = "read" => held = {"filename", "pcap"} /\ rc = "zero" /\ ~use_mirror
    /\ pc \in Teardown \union {"close"} => held \subseteq {"filename", "pcap"}
    /\ pc = "exit" => held = {}

\* The n-th step of the setup is next: the ones before it have acquired what
\* they acquire, and of XDP made what they make.
InSetup(n) ==
    /\ pc = Steps[type][n]
    /\ held \ {"filename", "pcap"} = Acquired(n)
    /\ n > 1 /\ type = "xdp" <=> use_mirror
    /\ type = "xdp" /\ smooth =>
          /\ n > 2 => kern.veth
          /\ n > 7 => "ingress" \in kern.clsact
          /\ n > 8 => "egress" \in kern.clsact

SetupInOrder ==
    pc \in AllSteps =>
        /\ mode = "capture" /\ dev
        /\ "filename" \in held <=> "pcap" \in held
        /\ \E n \in 1..Len(Steps[type]) : InSetup(n)

\* While nothing is interrupted only the program changes the machine, and it
\* does so once the mirror is its own to remove.
MachineKept ==
    /\ kern.prog => kern.veth
    /\ "bpf_fd" \in held => use_mirror
    /\ smooth /\ pc # "dead" =>
          /\ orphans = {}
          /\ ~use_mirror => kern = was
          /\ use_mirror /\ pc = "veth_gone" => kern.clsact = {}
          /\ use_mirror /\ pc \in {"close", "exit"} => kern = Nothing
    /\ pc \in Teardown => use_mirror

\* The inductive invariant.
InspInv == InspTypes /\ FileOpened /\ SetupInOrder /\ MachineKept

----------------------------------------------------------------------------
\* The three setups have 5, 7 and 22 steps.
LEMMA StepCount ==
    /\ Len(Steps["raw"]) = 5 /\ Len(Steps["mmap"]) = 7 /\ Len(Steps["xdp"]) = 22
  BY DEF Steps

\* Each setup has a first step.
LEMMA FirstStep == ASSUME NEW t \in Types PROVE 1 \in 1..Len(Steps[t])
  <1>1. CASE t = "raw"
    BY <1>1, StepCount
  <1>2. CASE t = "mmap"
    BY <1>2, StepCount
  <1>3. CASE t = "xdp"
    BY <1>3, StepCount
  <1>4. QED
    BY <1>1, <1>2, <1>3 DEF Types

\* The calls of setup_raw in order,
LEMMA StepsRaw ==
    /\ Steps["raw"][1] = "sock" /\ Steps["raw"][2] = "bind" /\ Steps["raw"][3] = "filter"
    /\ Steps["raw"][4] = "promisc" /\ Steps["raw"][5] = "capture"
  BY DEF Steps

\* of setup_mmap,
LEMMA StepsMmap ==
    /\ Steps["mmap"][1] = "sock" /\ Steps["mmap"][2] = "bind"
    /\ Steps["mmap"][3] = "filter" /\ Steps["mmap"][4] = "version"
    /\ Steps["mmap"][5] = "rx_ring" /\ Steps["mmap"][6] = "umem"
    /\ Steps["mmap"][7] = "capture"
  BY DEF Steps

\* and of setup_mirror and setup_xdp.
LEMMA StepsXdp ==
    /\ Steps["xdp"][1] = "veth" /\ Steps["xdp"][2] = "index" /\ Steps["xdp"][3] = "tap_up"
    /\ Steps["xdp"][4] = "sink_up" /\ Steps["xdp"][5] = "qdisc_del"
    /\ Steps["xdp"][6] = "qdisc_add" /\ Steps["xdp"][7] = "ingress"
    /\ Steps["xdp"][8] = "egress" /\ Steps["xdp"][9] = "umem" /\ Steps["xdp"][10] = "sock"
    /\ Steps["xdp"][11] = "umem_reg" /\ Steps["xdp"][12] = "rings"
    /\ Steps["xdp"][13] = "offsets" /\ Steps["xdp"][14] = "fill_map"
    /\ Steps["xdp"][15] = "rx_map" /\ Steps["xdp"][16] = "map_fd"
    /\ Steps["xdp"][17] = "patch" /\ Steps["xdp"][18] = "bpf_fd"
    /\ Steps["xdp"][19] = "attach" /\ Steps["xdp"][20] = "bind"
    /\ Steps["xdp"][21] = "map_update" /\ Steps["xdp"][22] = "capture"
  BY DEF Steps

\* No call is made twice in a setup, and it ends with the capture.
LEMMA StepsDistinct ==
    ASSUME NEW t \in Types, NEW m \in 1..Len(Steps[t]), NEW n \in 1..Len(Steps[t]),
           Steps[t][m] = Steps[t][n]
    PROVE  m = n
  <1>1. CASE t = "raw"
    BY <1>1, StepCount, StepsRaw
  <1>2. CASE t = "mmap"
    BY <1>2, StepCount, StepsMmap
  <1>3. CASE t = "xdp"
    BY <1>3, StepCount, StepsXdp
  <1>4. QED
    BY <1>1, <1>2, <1>3 DEF Types

\* Only setup_xdp runs commands and loads a program, and only the last step
\* captures.
LEMMA StepNames ==
    ASSUME NEW t \in Types, NEW n \in 1..Len(Steps[t])
    PROVE  /\ Steps[t][n] \in AllSteps /\ Steps[t][n] \notin Stages
           /\ Len(Steps[t]) \in Nat /\ Len(Steps[t]) > 1
           /\ Steps[t][n] # "capture" <=> n < Len(Steps[t])
           /\ Steps[t][n] \in Commands \union {"attach", "bpf_fd", "index"} => t = "xdp"
  <1>1. Steps[t][n] \in AllSteps
    BY DEF AllSteps
  <1>2. CASE t = "raw"
    BY <1>1, <1>2, StepCount, StepsRaw DEF Stages, Teardown, Commands
  <1>3. CASE t = "mmap"
    BY <1>1, <1>3, StepCount, StepsMmap DEF Stages, Teardown, Commands
  <1>4. CASE t = "xdp"
    BY <1>1, <1>4, StepCount, StepsXdp DEF Stages, Teardown, Commands
  <1>5. QED
    BY <1>2, <1>3, <1>4 DEF Types

\* A step of a setup is no stage of main.
LEMMA StagesApart == AllSteps \intersect Stages = {}
  BY StepNames DEF AllSteps

\* After the n-th step comes the next one.
LEMMA FollowingStep ==
    ASSUME type \in Types, NEW n \in 1..Len(Steps[type]), Steps[type][n] # "capture"
    PROVE  /\ n + 1 \in 1..Len(Steps[type])
           /\ Following(Steps[type][n]) = Steps[type][n + 1]
  <1>1. n + 1 \in 1..Len(Steps[type])
    BY StepNames
  <1>2. \A m \in 1..Len(Steps[type]) : Steps[type][m] = Steps[type][n] => m = n
    BY StepsDistinct
  <1>3. (CHOOSE m \in 1..Len(Steps[type]) : Steps[type][m] = Steps[type][n]) = n
    BY <1>2
  <1>4. QED
    BY <1>1, <1>3 DEF Following

----------------------------------------------------------------------------
\* What a command makes of a machine.
LEMMA CommandMakes ==
    ASSUME NEW k \in Machines, k.prog => k.veth, NEW cmd \in Commands \union Teardown
    PROVE  /\ Does(cmd, k) \in Machines
           /\ Does(cmd, k).prog => Does(cmd, k).veth
           /\ cmd \notin {"veth", "veth_gone"} => Does(cmd, k).veth = k.veth
  <1>1. CASE cmd = "veth"
    BY <1>1, Zenon DEF Does, Machines
  <1>2. CASE cmd \in {"tap_up", "sink_up"}
    BY <1>2, Zenon DEF Does, Machines
  <1>3. CASE cmd = "veth_gone"
    BY <1>3, Zenon DEF Does, Machines
  <1>4. CASE cmd \in {"qdisc_del", "qdisc_gone"}
    BY <1>4 DEF Does, Machines
  <1>5. CASE cmd = "qdisc_add"
    BY <1>5 DEF Does, Machines
  <1>6. CASE cmd \in {"ingress", "egress"}
    BY <1>6 DEF Does, Machines
  <1>7. QED
    BY <1>1, <1>2, <1>3, <1>4, <1>5, <1>6 DEF Commands, Teardown

\* The program goes to insp_free.
LEMMA ToFree ==
    ASSUME InspInv, InspTypes', pc' = "free", UNCHANGED was,
           kern'.prog => kern'.veth,
           "bpf_fd" \in held' => use_mirror',
           smooth' => orphans' = {} /\ (~use_mirror' => kern' = was)
    PROVE  InspInv'
  <1>1. pc' \notin AllSteps /\ pc' \notin Teardown
    BY StagesApart DEF Stages, Teardown
  <1>2. FileOpened' /\ SetupInOrder' /\ MachineKept'
    BY <1>1 DEF FileOpened, SetupInOrder, MachineKept, Teardown
  <1>3. QED
    BY <1>2 DEF InspInv

\* dns-insp starts in the invariant.
LEMMA InitHolds == Init => InspInv
  <1> SUFFICES ASSUME Init PROVE InspInv
    OBVIOUS
  <1>1. Nothing \in Machines /\ ~Nothing.prog
    BY DEF Nothing, Machines
  <1>2. InspTypes
    BY <1>1 DEF Init, InspTypes, Modes, Types, Stages
  <1>3. pc \notin AllSteps /\ pc \notin Teardown
    BY StagesApart DEF Init, Stages, Teardown
  <1>4. FileOpened /\ SetupInOrder /\ MachineKept
    BY <1>1, <1>3 DEF Init, FileOpened, SetupInOrder, MachineKept
  <1>5. QED
    BY <1>2, <1>4 DEF InspInv

\* insp_parse_argv
LEMMA OptionInv == ASSUME InspInv, Option PROVE InspInv'
  <1>1. /\ pc = "argv" /\ held \subseteq {"filename"} /\ ~use_mirror
        /\ UNCHANGED <<kern, orphans, mode, use_mirror, rc, run, starts, was, smooth>>
    BY DEF Option, SetInterface, SetType, SetFile, BadOption, Parsing, InspInv, FileOpened,
           history
  <1>2. pc' \in {"argv", "free"} /\ held' \subseteq {"filename"}
    BY <1>1 DEF Option, SetInterface, SetType, SetFile, BadOption, Fail
  <1>3. type' \in Types /\ dev' \in BOOLEAN
    BY Zenon DEF Option, SetInterface, SetType, SetFile, BadOption, InspInv, InspTypes
  <1>4. InspTypes'
    BY <1>1, <1>2, <1>3 DEF InspInv, InspTypes, Stages
  <1>5. CASE pc' = "free"
    BY <1>1, <1>2, <1>4, <1>5, ToFree DEF InspInv, MachineKept
  <1>6. CASE pc' = "argv"
    <2>1. pc' \notin AllSteps /\ pc' \notin Teardown
      BY <1>6, StagesApart DEF Stages, Teardown
    <2>2. FileOpened' /\ SetupInOrder' /\ MachineKept'
      BY <1>1, <1>2, <1>6, <2>1 DEF InspInv, FileOpened, SetupInOrder, MachineKept
    <2>3. QED
      BY <1>4, <2>2 DEF InspInv
  <1>7. QED
    BY <1>2, <1>5, <1>6

\* The options are complete, or main ends.
LEMMA EndOfOptionsInv == ASSUME InspInv, EndOfOptions PROVE InspInv'
  <1>1. /\ pc = "argv" /\ held \subseteq {"filename"} /\ ~use_mirror
        /\ UNCHANGED <<kern, orphans, mode, type, dev, held, use_mirror, rc, was, smooth>>
    BY DEF EndOfOptions, InspInv, FileOpened, options, history
  <1>2. \/ pc' = "free"
        \/ pc' = "signals" /\ OptionsSuffice
    BY DEF EndOfOptions, Fail
  <1>3. InspTypes'
    BY <1>1, <1>2 DEF InspInv, InspTypes, Stages
  <1>4. CASE pc' = "free"
    BY <1>1, <1>3, <1>4, ToFree DEF InspInv, MachineKept
  <1>5. CASE pc' = "signals" /\ OptionsSuffice
    <2>1. pc' \notin AllSteps /\ pc' \notin Teardown
      BY <1>5, StagesApart DEF Stages, Teardown
    <2>2. FileOpened' /\ SetupInOrder' /\ MachineKept'
      BY <1>1, <1>5, <2>1 DEF InspInv, FileOpened, SetupInOrder, MachineKept, OptionsSuffice
    <2>3. QED
      BY <1>3, <2>2 DEF InspInv
  <1>6. QED
    BY <1>2, <1>4, <1>5

\* setup_signals.
LEMMA SetupSignalsInv == ASSUME InspInv, SetupSignals PROVE InspInv'
  <1>1. /\ pc = "signals" /\ held \subseteq {"filename"} /\ ~use_mirror /\ OptionsSuffice
        /\ UNCHANGED <<kern, orphans, mode, type, dev, held, use_mirror, rc, was, smooth>>
    BY DEF SetupSignals, InspInv, FileOpened, options, history
  <1>2. pc' \in {"free", "init"}
    BY DEF SetupSignals, Fail
  <1>3. InspTypes'
    BY <1>1, <1>2 DEF InspInv, InspTypes, Stages
  <1>4. CASE pc' = "free"
    BY <1>1, <1>3, <1>4, ToFree DEF InspInv, MachineKept
  <1>5. CASE pc' = "init"
    <2>1. pc' \notin AllSteps /\ pc' \notin Teardown
      BY <1>5, StagesApart DEF Stages, Teardown
    <2>2. FileOpened' /\ SetupInOrder' /\ MachineKept'
      BY <1>1, <1>5, <2>1 DEF InspInv, FileOpened, SetupInOrder, MachineKept, OptionsSuffice
    <2>3. QED
      BY <1>3, <2>2 DEF InspInv
  <1>6. QED
    BY <1>2, <1>4, <1>5

\* insp_init opens the file and turns to the setup's first step.
LEMMA OpenFileInv == ASSUME InspInv, OpenFile PROVE InspInv'
  <1>1. /\ pc = "init" /\ held \subseteq {"filename"} /\ ~use_mirror /\ OptionsSuffice
        /\ UNCHANGED <<kern, orphans, mode, type, dev, use_mirror, was, smooth>>
        /\ type \in Types
    BY DEF OpenFile, InspInv, InspTypes, FileOpened, options, history
  <1> DEFINE go == IF mode = "capture" THEN Steps[type][1] ELSE "read"
  <1>2. \/ pc' = "free" /\ held' = held
        \/ /\ pc' = go
           /\ \/ "filename" \in held /\ held' = held \union {"pcap"} /\ rc' = "zero"
              \/ "filename" \notin held /\ held' = held /\ rc' = rc
    BY DEF OpenFile, Fail
  <1>3. go \in AllSteps \union Stages
    BY <1>1, StepNames, FirstStep DEF Stages
  <1>4. InspTypes'
    BY <1>1, <1>2, <1>3, Zenon DEF InspInv, InspTypes, Stages
  <1>5. CASE pc' = "free" /\ held' = held
    BY <1>1, <1>4, <1>5, ToFree DEF InspInv, MachineKept
  <1>6. CASE pc' = go /\ mode = "capture"
    <2>1. 1 \in 1..Len(Steps[type])
      BY <1>1, FirstStep
    <2>2. pc' = Steps[type][1] /\ pc' \in AllSteps /\ pc' \notin Stages
      BY <1>1, <1>6, <2>1, StepNames
    <2>3. dev /\ ("filename" \in held' <=> "pcap" \in held')
      BY <1>1, <1>2, <1>6, <2>2 DEF OptionsSuffice, Stages
    <2>4. held' \ {"filename", "pcap"} = {} /\ "bpf_fd" \notin held'
      BY <1>1, <1>2
    <2>5. Acquired(1)' = {}
      BY DEF Acquired, Before
    <2>6. InSetup(1)'
      BY <1>1, <2>2, <2>4, <2>5 DEF InSetup
    <2>7. SetupInOrder'
      BY <1>1, <1>6, <2>1, <2>3, <2>6 DEF SetupInOrder
    <2>8. FileOpened' /\ MachineKept'
      BY <1>1, <2>2, <2>4 DEF InspInv, FileOpened, MachineKept, Stages, Teardown
    <2>9. QED
      BY <1>4, <2>7, <2>8 DEF InspInv
  <1>7. CASE pc' = go /\ mode # "capture"
    <2>1. pc' = "read" /\ "filename" \in held /\ held' = {"filename", "pcap"} /\ rc' = "zero"
      BY <1>1, <1>2, <1>7, Zenon DEF OptionsSuffice, InspInv, InspTypes, Modes
    <2>2. pc' \notin AllSteps /\ pc' \notin Teardown
      BY <2>1, StagesApart DEF Stages, Teardown
    <2>3. FileOpened' /\ SetupInOrder' /\ MachineKept'
      BY <1>1, <2>1, <2>2 DEF InspInv, FileOpened, SetupInOrder, MachineKept
    <2>4. QED
      BY <1>4, <2>3 DEF InspInv
  <1>8. QED
    BY <1>2, <1>5, <1>6, <1>7

\* A step of the setup that succeeds is followed by the next one, and leaves what
\* it acquires; XDP's keep and add to what they made.
LEMMA NextStep ==
    ASSUME InspInv, InspTypes', pc \in AllSteps, pc # "capture",
           NEW n \in 1..Len(Steps[type]), InSetup(n), pc' = Following(pc),
           held' = held \union Gains(pc),
           UNCHANGED <<mode, type, dev, was>>,
           n + 1 > 1 /\ type = "xdp" <=> use_mirror',
           type = "xdp" /\ smooth' =>
              /\ n + 1 > 2 => kern'.veth
              /\ n + 1 > 7 => "ingress" \in kern'.clsact
              /\ n + 1 > 8 => "egress" \in kern'.clsact,
           kern'.prog => kern'.veth,
           smooth' => orphans' = {} /\ (~use_mirror' => kern' = was)
    PROVE  InspInv'
  <1>1. type \in Types /\ pc = Steps[type][n]
    BY DEF InspInv, InspTypes, InSetup
  <1>2. n + 1 \in 1..Len(Steps[type]) /\ pc' = Steps[type][n + 1]
    BY <1>1, FollowingStep
  <1>3. pc' \in AllSteps /\ pc' \notin Stages
    BY <1>1, <1>2, StepNames
  <1>4. Acquired(n + 1)' = Acquired(n) \union Gains(pc)
    <2>1. Before(n + 1) = Before(n) \union {pc}
      BY <1>1 DEF Before
    <2>2. Acquired(n + 1)' = Acquired(n + 1)
      BY DEF Acquired, Before
    <2>3. QED
      BY <2>1, <2>2 DEF Acquired, Gains
  <1>5. Gains(pc) \subseteq Resources
    BY DEF Gains
  <1>6. /\ held' \ {"filename", "pcap"} = Acquired(n + 1)'
        /\ "filename" \in held' <=> "pcap" \in held'
    BY <1>4, <1>5 DEF InSetup, InspInv, SetupInOrder, Resources
  <1>7. InSetup(n + 1)'
    BY <1>2, <1>6 DEF InSetup
  <1>8. SetupInOrder'
    BY <1>2, <1>6, <1>7 DEF InspInv, SetupInOrder
  <1>9. "bpf_fd" \in held' => use_mirror'
    <2>1. "bpf_fd" \in held => use_mirror /\ type = "xdp"
      BY DEF InspInv, MachineKept, InSetup
    <2>2. "bpf_fd" \in Gains(pc) => type = "xdp"
      BY <1>1, StepNames DEF Gains
    <2>3. QED
      BY <2>1, <2>2
  <1>10. FileOpened' /\ MachineKept'
    BY <1>3, <1>9 DEF FileOpened, MachineKept, Stages, Teardown
  <1>11. QED
    BY <1>8, <1>10 DEF InspInv

\* A call of the setup succeeds or ends it.
LEMMA CallInv == ASSUME InspInv, Call PROVE InspInv'
  <1>1. /\ pc \in AllSteps /\ pc \notin Commands /\ pc # "attach" /\ pc # "capture"
        /\ UNCHANGED <<kern, orphans, mode, type, dev, use_mirror, was, smooth>>
        /\ type \in Types
    BY DEF Call, Calls, options, history, InspInv, InspTypes
  <1>2. PICK n \in 1..Len(Steps[type]) : InSetup(n)
    BY <1>1 DEF InspInv, SetupInOrder
  <1>3. CASE /\ pc = "index" => kern.veth
             /\ held' = held \union Gains(pc)
             /\ pc' = Following(pc)
    <2>1. n + 1 \in 1..Len(Steps[type]) /\ pc' = Steps[type][n + 1]
      BY <1>1, <1>2, <1>3, FollowingStep DEF InSetup
    <2>2. InspTypes'
      <3>1. pc' \in AllSteps
        BY <1>1, <2>1, StepNames
      <3>2. QED
        BY <1>1, <1>3, <3>1 DEF InspInv, InspTypes, Gains
    <2>3. type = "xdp" => n # 1 /\ n # 3 /\ n # 4 /\ n # 5 /\ n # 6 /\ n # 7 /\ n # 8
      BY <1>1, <1>2, StepsXdp, ZenonT(30) DEF InSetup, Commands
    <2>4. type = "xdp" /\ n = 2 => kern.veth
      BY <1>2, <1>3, StepsXdp DEF InSetup
    <2>5. n + 1 > 1 /\ type = "xdp" <=> use_mirror'
      BY <1>1, <1>2, <2>3 DEF InSetup
    <2>6. type = "xdp" /\ smooth' =>
              /\ n + 1 > 2 => kern'.veth
              /\ n + 1 > 7 => "ingress" \in kern'.clsact
              /\ n + 1 > 8 => "egress" \in kern'.clsact
      BY <1>1, <1>2, <2>3, <2>4 DEF InSetup
    <2>7. /\ kern'.prog => kern'.veth
          /\ smooth' => orphans' = {} /\ (~use_mirror' => kern' = was)
      BY <1>1, StagesApart DEF InspInv, MachineKept, Stages
    <2>8. QED
      BY <1>1, <1>2, <1>3, <2>2, <2>5, <2>6, <2>7, NextStep
  <1>4. CASE pc' = "free" /\ held' = held
    <2>1. InspTypes'
      BY <1>1, <1>4 DEF InspInv, InspTypes, Stages
    <2>2. QED
      BY <1>1, <1>4, <2>1, ToFree, StagesApart DEF InspInv, MachineKept, Stages
  <1>5. QED
    BY <1>3, <1>4 DEF Call, Fail

\* run_cmd, whatever becomes of the command.
LEMMA CommandRuns ==
    ASSUME InspInv, NEW cmd \in Commands \union Teardown,
           CmdOk(cmd) \/ CmdFails \/ CmdInterrupted(cmd)
    PROVE  /\ kern' \in Machines /\ (kern'.prog => kern'.veth)
           /\ orphans' \subseteq Commands \union Teardown /\ smooth' \in BOOLEAN
           /\ smooth' => smooth /\ orphans' = orphans /\ kern' \in {kern, Does(cmd, kern)}
  <1>1. kern \in Machines /\ (kern.prog => kern.veth) /\ orphans \subseteq Commands \union Teardown
        /\ smooth \in BOOLEAN
    BY DEF InspInv, InspTypes, MachineKept
  <1>2. Does(cmd, kern) \in Machines /\ (Does(cmd, kern).prog => Does(cmd, kern).veth)
    BY <1>1, CommandMakes
  <1>3. kern' = kern \/ kern' = Does(cmd, kern)
    BY DEF CmdOk, CmdFails, CmdInterrupted
  <1>4. orphans' = orphans \/ orphans' = orphans \union {cmd}
    BY DEF CmdOk, CmdFails, CmdInterrupted
  <1>5. (smooth' = smooth /\ orphans' = orphans) \/ smooth' = FALSE
    BY DEF CmdOk, CmdFails, CmdInterrupted
  <1>6. kern' \in Machines /\ (kern'.prog => kern'.veth)
    BY <1>1, <1>2, <1>3
  <1>7. orphans' \subseteq Commands \union Teardown
    BY <1>1, <1>4
  <1>8. smooth' \in BOOLEAN /\ (smooth' => smooth /\ orphans' = orphans)
    <2>1. CASE smooth' = smooth /\ orphans' = orphans
      BY <1>1, <2>1
    <2>2. CASE smooth' = FALSE
      BY <2>2, Zenon
    <2>3. QED
      BY <1>5, <2>1, <2>2
  <1>9. QED
    BY <1>3, <1>6, <1>7, <1>8

\* A command of xdp_mirror_init.
LEMMA CommandInv == ASSUME InspInv, Command PROVE InspInv'
  <1>1. pc \in Commands /\ UNCHANGED <<mode, type, dev, held, was>>
    BY DEF Command, options, history
  <1>2. pc \notin Stages /\ pc # "capture" /\ pc \notin Resources
    BY <1>1 DEF Commands, Stages, Teardown, Resources
  <1>3. pc \in AllSteps /\ type \in Types
    BY <1>2 DEF InspInv, InspTypes
  <1>4. PICK n \in 1..Len(Steps[type]) : InSetup(n)
    BY <1>3 DEF InspInv, SetupInOrder
  <1>5. pc = Steps[type][n] /\ type = "xdp"
    BY <1>1, <1>3, <1>4, StepNames DEF InSetup
  <1>6. /\ n = 1 <=> pc = "veth"
        /\ n = 5 <=> pc = "qdisc_del"
        /\ n = 7 <=> pc = "ingress"
        /\ n = 8 <=> pc = "egress"
        /\ n # 2 /\ n <= 8
    BY <1>1, <1>4, <1>5, StepsXdp, StepCount DEF Commands
  <1>7. /\ kern' \in Machines /\ (kern'.prog => kern'.veth)
        /\ orphans' \subseteq Commands \union Teardown /\ smooth' \in BOOLEAN
        /\ smooth' => smooth /\ orphans' = orphans /\ kern' \in {kern, Does(pc, kern)}
    BY <1>1, CommandRuns DEF Command
  <1>8. smooth => orphans = {} /\ (~use_mirror => kern = was)
    BY <1>2 DEF InspInv, MachineKept, Stages
  <1>9. CASE /\ Proceed(pc)
             /\ \/ CmdOk(pc)
                \/ CmdFails /\ Tolerates(pc)
                \/ CmdInterrupted(pc)
    <2>1. CmdOk(pc) \/ (CmdFails /\ pc \in {"veth", "qdisc_del"}) \/ smooth' = FALSE
      BY <1>9 DEF Tolerates, CmdInterrupted
    <2>2. smooth' => kern' = Does(pc, kern) \/ (kern' = kern /\ n \in {1, 5})
      BY <1>6, <2>1, Zenon DEF CmdOk, CmdFails
    <2>3. use_mirror'
      <3>1. n > 1 => use_mirror
        BY <1>4, <1>5 DEF InSetup
      <3>2. n > 1 \/ pc = "veth"
        BY <1>4, <1>6
      <3>3. QED
        BY <1>9, <3>1, <3>2, Zenon DEF Proceed, MarksMirror
    <2>4. smooth' /\ n + 1 > 2 => kern'.veth
      <3>1. ASSUME smooth', n + 1 > 2 PROVE kern.veth
        BY <1>4, <1>5, <1>6, <1>7, <3>1 DEF InSetup
      <3>2. n + 1 > 2 => Does(pc, kern).veth = kern.veth
        BY <1>1, <1>6, CommandMakes DEF Commands, InspInv, InspTypes, MachineKept
      <3>3. QED
        BY <2>2, <3>1, <3>2
    <2>5. smooth' /\ n + 1 > 7 => "ingress" \in kern'.clsact
      <3>1. ASSUME smooth', n = 7 PROVE "ingress" \in kern'.clsact
        BY <1>6, <2>2, <3>1 DEF Does, InspInv, InspTypes, Machines
      <3>2. ASSUME smooth', n = 8 PROVE "ingress" \in kern'.clsact
        <4>1. "ingress" \in kern.clsact
          BY <1>4, <1>5, <1>7, <3>2 DEF InSetup
        <4>2. QED
          BY <1>6, <2>2, <3>2, <4>1 DEF Does, InspInv, InspTypes, Machines
      <3>3. QED
        BY <1>6, <3>1, <3>2
    <2>6. smooth' /\ n + 1 > 8 => "egress" \in kern'.clsact
      BY <1>6, <2>2 DEF Does, InspInv, InspTypes, Machines
    <2>7. pc' = Following(pc) /\ Following(pc) \in AllSteps
      BY <1>2, <1>3, <1>5, <1>9, FollowingStep, StepNames DEF Proceed
    <2>8. held' = held \union Gains(pc)
      BY <1>1, <1>2 DEF Gains
    <2>9. InspTypes'
      BY <1>1, <1>7, <2>3, <2>7 DEF InspInv, InspTypes
    <2>10. n + 1 > 1 /\ type = "xdp" <=> use_mirror'
      BY <1>5, <2>3
    <2>11. QED
      BY <1>1, <1>2, <1>3, <1>4, <1>7, <1>8, <2>3, <2>4, <2>5, <2>6, <2>7, <2>8, <2>9, <2>10,
         NextStep
  <1>10. CASE /\ pc' = "free" /\ use_mirror' = use_mirror
              /\ CmdFails \/ CmdInterrupted(pc)
    <2>1. smooth' => kern' = kern
      BY <1>10 DEF CmdFails, CmdInterrupted
    <2>2. InspTypes'
      BY <1>1, <1>7, <1>10 DEF InspInv, InspTypes, Stages
    <2>3. "bpf_fd" \in held' => use_mirror'
      BY <1>1, <1>10 DEF InspInv, MachineKept
    <2>4. QED
      BY <1>1, <1>7, <1>8, <1>10, <2>1, <2>2, <2>3, ToFree
  <1>11. QED
    BY <1>9, <1>10 DEF Command, Fail

\* bpf_attach_dev
LEMMA AttachInv == ASSUME InspInv, Attach PROVE InspInv'
  <1>1. pc = "attach" /\ UNCHANGED <<orphans, mode, type, dev, held, use_mirror, was, smooth>>
    BY DEF Attach, options, history
  <1>2. pc \notin Stages /\ pc # "capture" /\ pc \notin Resources
    BY <1>1 DEF Stages, Teardown, Resources
  <1>3. pc \in AllSteps /\ type \in Types
    BY <1>2 DEF InspInv, InspTypes
  <1>4. PICK n \in 1..Len(Steps[type]) : InSetup(n)
    BY <1>3 DEF InspInv, SetupInOrder
  <1>5. pc = Steps[type][n] /\ type = "xdp"
    BY <1>1, <1>3, <1>4, StepNames DEF InSetup
  <1>6. n = 19
    BY <1>1, <1>4, <1>5, StepsXdp, StepCount
  <1>7. use_mirror /\ kern \in Machines /\ (kern.prog => kern.veth)
    BY <1>4, <1>5, <1>6 DEF InSetup, InspInv, InspTypes, MachineKept
  <1>8. smooth => orphans = {}
    BY <1>1 DEF InspInv, MachineKept
  <1>9. kern' = kern \/ kern' = [kern EXCEPT !.prog = kern.veth]
    BY DEF Attach
  <1>10. /\ kern' \in Machines /\ (kern'.prog => kern'.veth)
         /\ kern'.veth = kern.veth /\ kern'.clsact = kern.clsact
    BY <1>7, <1>9 DEF Machines
  <1>11. CASE pc' = Following(pc)
    <2>1. Following(pc) \in AllSteps
      BY <1>2, <1>3, <1>5, FollowingStep, StepNames
    <2>2. InspTypes'
      BY <1>1, <1>10, <1>11, <2>1 DEF InspInv, InspTypes
    <2>3. smooth => kern.veth /\ "ingress" \in kern.clsact /\ "egress" \in kern.clsact
      BY <1>4, <1>5, <1>6 DEF InSetup
    <2>4. held' = held \union Gains(pc)
      BY <1>1, <1>2 DEF Gains
    <2>5. n + 1 > 1 /\ type = "xdp" <=> use_mirror'
      BY <1>1, <1>5, <1>6, <1>7
    <2>6. QED
      BY <1>1, <1>2, <1>3, <1>4, <1>7, <1>8, <1>10, <1>11, <2>2, <2>3, <2>4, <2>5, NextStep
  <1>12. CASE pc' = "free"
    <2>1. InspTypes'
      BY <1>1, <1>10, <1>12 DEF InspInv, InspTypes, Stages
    <2>2. QED
      BY <1>1, <1>7, <1>8, <1>10, <1>12, <2>1, ToFree
  <1>13. QED
    BY <1>11, <1>12 DEF Attach, Fail

\* run_capture, run_readpcap or run_tracepcap returns.
LEMMA RunInv == ASSUME InspInv, Capture \/ ReadFile PROVE InspInv'
  <1>1. /\ pc \in {"capture", "read"} /\ pc' = "free"
        /\ UNCHANGED <<kern, orphans, mode, type, dev, held, use_mirror, was, smooth>>
    BY Zenon DEF Capture, ReadFile, Fail, options, history
  <1>2. InspTypes'
    BY <1>1 DEF InspInv, InspTypes, Stages
  <1>3. QED
    BY <1>1, <1>2, ToFree DEF InspInv, MachineKept

----------------------------------------------------------------------------
\* insp_free up to the mirror.
LEMMA FreeInv == ASSUME InspInv, Free PROVE InspInv'
  <1>1. /\ pc = "free" /\ held' = held \ Resources
        /\ pc' = IF use_mirror THEN "qdisc_gone" ELSE "close"
        /\ UNCHANGED <<orphans, mode, type, dev, use_mirror, was>>
    BY DEF Free, options, history
  <1>2. /\ kern' = kern \/ ("bpf_fd" \in held /\ kern' = [kern EXCEPT !.prog = FALSE])
        /\ smooth' = smooth \/ smooth' = FALSE
    BY DEF Free
  <1>3. /\ kern \in Machines /\ (kern.prog => kern.veth) /\ use_mirror \in BOOLEAN
        /\ "bpf_fd" \in held => use_mirror
        /\ smooth => orphans = {} /\ (~use_mirror => kern = was)
    BY <1>1 DEF InspInv, InspTypes, MachineKept
  <1>4. /\ kern' \in Machines /\ (kern'.prog => kern'.veth)
        /\ ~use_mirror => kern' = kern
    BY <1>2, <1>3, Zenon DEF Machines
  <1>5. held' \subseteq {"filename", "pcap"} /\ "bpf_fd" \notin held'
    BY <1>1 DEF InspInv, InspTypes, Resources
  <1>6. pc' \in Stages /\ pc' \notin AllSteps
    BY <1>1, StagesApart DEF Stages, Teardown
  <1>7. InspTypes'
    BY <1>1, <1>2, <1>4, <1>5, <1>6, Zenon DEF InspInv, InspTypes
  <1>8. FileOpened' /\ SetupInOrder'
    BY <1>1, <1>5, <1>6 DEF FileOpened, SetupInOrder, Teardown
  <1>9. MachineKept'
    BY <1>1, <1>2, <1>3, <1>4, <1>5 DEF MachineKept, Teardown
  <1>10. QED
    BY <1>7, <1>8, <1>9 DEF InspInv

\* xdp_mirror_deinit
LEMMA MirrorDeinitInv == ASSUME InspInv, MirrorDeinit PROVE InspInv'
  <1>1. /\ pc \in Teardown /\ pc' = IF pc = "qdisc_gone" THEN "veth_gone" ELSE "close"
        /\ UNCHANGED <<mode, type, dev, held, use_mirror, rc, was>>
    BY DEF MirrorDeinit, process, options, history
  <1>2. /\ use_mirror /\ held \subseteq {"filename", "pcap"}
        /\ kern \in Machines /\ (kern.prog => kern.veth)
        /\ orphans \subseteq Commands \union Teardown
        /\ smooth => orphans = {}
        /\ smooth /\ pc = "veth_gone" => kern.clsact = {}
    BY <1>1 DEF InspInv, InspTypes, FileOpened, MachineKept, Teardown
  <1>3. \/ CmdOk(pc) \/ CmdInterrupted(pc) \/ CmdFails
        \/ smooth' = FALSE /\ UNCHANGED <<kern, orphans>>
    BY DEF MirrorDeinit
  <1>4. /\ kern' \in Machines /\ (kern'.prog => kern'.veth)
        /\ orphans' \subseteq Commands \union Teardown /\ smooth' \in BOOLEAN
        /\ smooth' => smooth /\ orphans' = orphans
    BY <1>1, <1>2, <1>3, CommandRuns, Zenon
  <1>5. smooth' => \/ kern' = Does(pc, kern)
                   \/ ~Can(pc, kern) /\ kern' = kern
    BY Zenon DEF MirrorDeinit, CmdOk, CmdFails, CmdInterrupted
  <1>6. smooth' /\ pc = "qdisc_gone" => kern'.clsact = {}
    BY <1>2, <1>5 DEF Does, Can, Machines
  <1>7. smooth' /\ pc = "veth_gone" => kern' = Nothing
    <2> SUFFICES ASSUME smooth', pc = "veth_gone" PROVE kern' = Nothing
      OBVIOUS
    <2>1. kern.clsact = {}
      BY <1>2, <1>4
    <2>2. kern'.veth = FALSE /\ kern'.prog = FALSE /\ kern'.clsact = {}
      BY <1>2, <1>5, <2>1, Zenon DEF Does, Can, Machines
    <2>3. QED
      BY <1>4, <2>2 DEF Machines, Nothing
  <1>8. pc' \in Stages /\ pc' \notin AllSteps
    BY <1>1, StagesApart DEF Stages, Teardown
  <1>9. InspTypes'
    BY <1>1, <1>4, <1>8 DEF InspInv, InspTypes
  <1>10. FileOpened' /\ SetupInOrder'
    BY <1>1, <1>2, <1>8 DEF FileOpened, SetupInOrder, Teardown
  <1>11. "bpf_fd" \notin held'
    BY <1>1, <1>2
  <1>12. MachineKept'
    BY <1>1, <1>2, <1>4, <1>6, <1>7, <1>11 DEF MachineKept, Teardown
  <1>13. QED
    BY <1>9, <1>10, <1>12 DEF InspInv

\* The capture file is closed and main ends.
LEMMA CloseFileInv == ASSUME InspInv, CloseFile PROVE InspInv'
  <1>1. /\ pc = "close" /\ pc' = "exit" /\ held' = held \ {"pcap", "filename"}
        /\ UNCHANGED <<kern, orphans, mode, type, dev, use_mirror, was, smooth>>
    BY DEF CloseFile, options, history
  <1>2. held' = {}
    BY <1>1 DEF InspInv, FileOpened
  <1>3. pc' \in Stages /\ pc' \notin AllSteps /\ pc' \notin Teardown
    BY <1>1, StagesApart DEF Stages, Teardown
  <1>4. InspTypes'
    BY <1>1, <1>2, <1>3 DEF InspInv, InspTypes
  <1>5. FileOpened' /\ SetupInOrder' /\ MachineKept'
    BY <1>1, <1>2, <1>3 DEF InspInv, FileOpened, SetupInOrder, MachineKept
  <1>6. QED
    BY <1>4, <1>5 DEF InspInv

----------------------------------------------------------------------------
\* A signal between two calls changes nothing the invariant speaks of.
LEMMA SignalInv == ASSUME InspInv, Signal PROVE InspInv'
  BY DEF Signal, process, options, history, InspInv, InspTypes, FileOpened, SetupInOrder,
         InSetup, Acquired, Before, MachineKept, OptionsSuffice

\* The process is killed.
LEMMA CrashInv == ASSUME InspInv, Crash PROVE InspInv'
  <1>1. /\ pc' = "dead" /\ held' = {}
        /\ UNCHANGED <<kern, mode, type, dev, use_mirror, was, smooth>>
    BY DEF Crash, options, history
  <1>2. orphans' \subseteq Commands \union Teardown
    BY DEF Crash, InspInv, InspTypes
  <1>3. pc' \in Stages /\ pc' \notin AllSteps /\ pc' \notin Teardown
    BY <1>1, StagesApart DEF Stages, Teardown
  <1>4. InspTypes'
    BY <1>1, <1>2, <1>3 DEF InspInv, InspTypes
  <1>5. FileOpened' /\ SetupInOrder' /\ MachineKept'
    BY <1>1, <1>3 DEF InspInv, FileOpened, SetupInOrder, MachineKept
  <1>6. QED
    BY <1>4, <1>5 DEF InspInv

\* A command that goes on by itself: there is none while all went smoothly.
LEMMA OrphanRunsInv == ASSUME InspInv, OrphanRuns PROVE InspInv'
  <1>1. PICK cmd \in orphans :
          /\ orphans' = orphans \ {cmd}
          /\ kern' = IF Can(cmd, kern) THEN Does(cmd, kern) ELSE kern
    BY DEF OrphanRuns
  <1>2. UNCHANGED <<mode, type, dev, held, use_mirror, rc, pc, was, smooth>>
    BY DEF OrphanRuns, process, options, history
  <1>3. /\ kern \in Machines /\ (kern.prog => kern.veth)
        /\ orphans \subseteq Commands \union Teardown
        /\ smooth => pc = "dead"
    BY DEF InspInv, InspTypes, MachineKept, OrphanRuns
  <1>4. kern' \in Machines /\ (kern'.prog => kern'.veth)
    BY <1>1, <1>3, CommandMakes
  <1>5. InspTypes'
    BY <1>1, <1>2, <1>3, <1>4, SMTT(30) DEF InspInv, InspTypes
  <1>6. FileOpened' /\ MachineKept'
    BY <1>2, <1>3, <1>4 DEF InspInv, FileOpened, MachineKept, OptionsSuffice
  <1>7. SetupInOrder'
    <2>1. pc \in AllSteps => ~smooth
      BY <1>3, StagesApart DEF Stages
    <2>2. QED
      BY <1>2, <2>1 DEF InspInv, SetupInOrder, InSetup, Acquired, Before
  <1>8. QED
    BY <1>5, <1>6, <1>7 DEF InspInv

\* The program is started again on the machine its predecessor left.
LEMMA StartInv == ASSUME InspInv, Start PROVE InspInv'
  <1>1. /\ pc' = "argv" /\ held' = {} /\ use_mirror' = FALSE /\ was' = kern
        /\ mode' \in Modes /\ type' = "raw" /\ dev' = FALSE /\ smooth' = (orphans = {})
        /\ UNCHANGED <<kern, orphans>>
    BY DEF Start
  <1>2. pc' \in Stages /\ pc' \notin AllSteps /\ pc' \notin Teardown
    BY <1>1, StagesApart DEF Stages, Teardown
  <1>3. smooth' \in BOOLEAN
    BY <1>1
  <1>4. InspTypes'
    BY <1>1, <1>2, <1>3 DEF InspInv, InspTypes, Types
  <1>5. FileOpened' /\ SetupInOrder' /\ MachineKept'
    BY <1>1, <1>2, Zenon DEF InspInv, FileOpened, SetupInOrder, MachineKept
  <1>6. QED
    BY <1>4, <1>5 DEF InspInv

----------------------------------------------------------------------------
\* The invariant holds however often the program is started, wherever it fails
\* or is killed, and whatever a command does that goes on without it.
THEOREM InspInvariant == Spec => []InspInv
  <1>1. InspInv /\ [Next]_vars => InspInv'
    <2> SUFFICES ASSUME InspInv, [Next]_vars PROVE InspInv'
      OBVIOUS
    <2>1. CASE Option \/ EndOfOptions \/ SetupSignals \/ OpenFile
      BY <2>1, OptionInv, EndOfOptionsInv, SetupSignalsInv, OpenFileInv
    <2>2. CASE Command \/ Call \/ Attach \/ Capture \/ ReadFile
      BY <2>2, CommandInv, CallInv, AttachInv, RunInv
    <2>3. CASE Free \/ MirrorDeinit \/ CloseFile
      BY <2>3, FreeInv, MirrorDeinitInv, CloseFileInv, SMTT(30)
    <2>4. CASE Signal \/ Crash \/ OrphanRuns \/ Start
      BY <2>4, SignalInv, CrashInv, OrphanRunsInv, StartInv
    <2>5. CASE UNCHANGED vars
      BY <2>5 DEF vars, process, options, history, InspInv, InspTypes, FileOpened,
                  SetupInOrder, InSetup, Acquired, Before, MachineKept, OptionsSuffice
    <2>6. QED
      BY <2>1, <2>2, <2>3, <2>4, <2>5 DEF Next
  <1>2. QED
    BY InitHolds, <1>1, PTL DEF Spec

\* Whatever option, stage or step fails, everything acquired is released and the
\* machine is left as CleanExit says (dns_insp.c:635-644, 1170-1188).
THEOREM ExitsClean == Spec => []CleanExit
  <1>1. InspInv => CleanExit
    <2> SUFFICES ASSUME InspInv, pc = "exit", smooth
                 PROVE  held = {} /\ kern = IF use_mirror THEN Nothing ELSE was
      BY DEF CleanExit
    <2>1. held = {}
      BY DEF InspInv, FileOpened
    <2>2. (use_mirror => kern = Nothing) /\ (~use_mirror => kern = was)
      BY DEF InspInv, MachineKept
    <2>3. QED
      BY <2>1, <2>2
  <1>2. QED
    BY <1>1, InspInvariant, PTL

\* What each setup has acquired when the capture begins.
LEMMA AllAcquired ==
    /\ type = "raw" => Acquired(5) = {"sock"}
    /\ type = "mmap" => Acquired(7) = {"sock", "umem"}
    /\ type = "xdp" => Acquired(22) = Resources
  <1>1. CASE type = "raw"
    <2>1. Before(5) = {Steps["raw"][k] : k \in {1, 2, 3, 4}}
      BY <1>1 DEF Before
    <2>2. QED
      BY <1>1, <2>1, StepsRaw DEF Acquired, Resources
  <1>2. CASE type = "mmap"
    <2>1. Before(7) = {Steps["mmap"][k] : k \in {1, 2, 3, 4, 5, 6}}
      BY <1>2 DEF Before
    <2>2. QED
      BY <1>2, <2>1, StepsMmap DEF Acquired, Resources
  <1>3. CASE type = "xdp"
    <2>1. /\ Steps["xdp"][9] \in Before(22) /\ Steps["xdp"][10] \in Before(22)
          /\ Steps["xdp"][14] \in Before(22) /\ Steps["xdp"][15] \in Before(22)
          /\ Steps["xdp"][16] \in Before(22) /\ Steps["xdp"][18] \in Before(22)
      BY <1>3 DEF Before
    <2>2. QED
      BY <1>3, <2>1, StepsXdp DEF Acquired, Resources
  <1>4. QED
    BY <1>1, <1>2, <1>3

\* What runs has what it works on, and an XDP capture both mirrors
\* (dns_insp.c:605-628, 1114-1127, 1148-1167).
THEOREM RunsReady == Spec => []ReadyToRun
  <1>1. InspInv => ReadyToRun
    <2> SUFFICES ASSUME InspInv PROVE ReadyToRun
      OBVIOUS
    <2>1. pc = "read" => "pcap" \in held /\ rc = "zero"
      BY DEF InspInv, FileOpened
    <2>2. ASSUME pc = "capture"
          PROVE  /\ dev /\ ("filename" \in held <=> "pcap" \in held)
                 /\ held \ {"filename", "pcap"} =
                       CASE type = "raw" -> {"sock"} [] type = "mmap" -> {"sock", "umem"}
                         [] type = "xdp" -> Resources
                 /\ type = "xdp" /\ smooth =>
                       kern.veth /\ {"ingress", "egress"} \subseteq kern.clsact
      <3>1. pc \in AllSteps /\ type \in Types
        BY <2>2 DEF InspInv, InspTypes, Stages, Teardown
      <3>2. PICK n \in 1..Len(Steps[type]) : InSetup(n)
        BY <3>1 DEF InspInv, SetupInOrder
      <3>3. n = Len(Steps[type])
        BY <2>2, <3>1, <3>2, StepNames DEF InSetup
      <3>4. CASE type = "raw"
        BY <3>1, <3>2, <3>3, <3>4, StepCount, AllAcquired DEF InSetup, InspInv, SetupInOrder
      <3>5. CASE type = "mmap"
        BY <3>1, <3>2, <3>3, <3>5, StepCount, AllAcquired DEF InSetup, InspInv, SetupInOrder
      <3>6. CASE type = "xdp"
        BY <3>1, <3>2, <3>3, <3>6, StepCount, AllAcquired DEF InSetup, InspInv, SetupInOrder
      <3>7. QED
        BY <3>1, <3>4, <3>5, <3>6 DEF Types
    <2>3. QED
      BY <2>1, <2>2, Zenon DEF ReadyToRun
  <1>2. QED
    BY <1>1, InspInvariant, PTL
=============================================================================
