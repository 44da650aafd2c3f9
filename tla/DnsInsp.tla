------------------------------ MODULE DnsInsp ------------------------------
(***************************************************************************)
(* dns-insp from main to exit (dns_insp.c): the options, the signal        *)
(* handler, insp_init with the file and the setup of each capture type,    *)
(* the run, and insp_free; with run_cmd, cmd_argv_next and the signal      *)
(* handler of util.c.  What the captures do while they run is in Capture,  *)
(* reading a file in PcapTools.                                            *)
(*                                                                         *)
(* An XDP capture changes the machine: the veth pair, the clsact queueing  *)
(* discipline with its two mirrors and the attached eBPF program outlive a *)
(* process that is killed, and the next one meets them.  A signal that     *)
(* arrives while run_cmd waits makes waitpid fail, and the command may go  *)
(* on behind the program's back.                                           *)
(***************************************************************************)
EXTENDS Integers, Sequences, FiniteSets

CONSTANT MaxStarts    \* bound: how often the program is started
ASSUME StartsAssumption == MaxStarts \in Nat \ {0}

\* The calls of setup_raw, setup_mmap and setup_xdp, which starts with those of
\* xdp_mirror_init, in their order.
Steps == [
    raw  |-> <<"sock", "bind", "filter", "promisc", "capture">>,
    mmap |-> <<"sock", "bind", "filter", "version", "rx_ring", "umem", "capture">>,
    xdp  |-> <<"veth", "index", "tap_up", "sink_up", "qdisc_del", "qdisc_add", "ingress",
               "egress", "umem", "sock", "umem_reg", "rings", "offsets", "fill_map",
               "rx_map", "map_fd", "patch", "bpf_fd", "attach", "bind", "map_update",
               "capture">>]
Types == {"raw", "mmap", "xdp"}
Modes == {"capture", "readpcap", "tracepcap"}
AllSteps == UNION {{Steps[t][n] : n \in 1..Len(Steps[t])} : t \in Types}
Commands == {"veth", "tap_up", "sink_up", "qdisc_del", "qdisc_add", "ingress", "egress"}
Calls == AllSteps \ (Commands \union {"attach", "capture"})
Resources == {"umem", "sock", "fill_map", "rx_map", "map_fd", "bpf_fd"}
Teardown == {"qdisc_gone", "veth_gone"}

VARIABLES
    kern,         \* the machine: veth pair, clsact with its mirrors, program
    orphans,      \* commands that go on without the program
    mode, type,   \* insp->cmd and insp->type
    dev,          \* insp->dev_name is set
    held,         \* memory, descriptors, the file and its name
    rc,           \* of insp_init: "unset" or "zero"
    ec,           \* exit code
    use_mirror,   \* insp->use_mirror
    run,          \* insp->sig.run
    pc,           \* a stage of main, a step of the setup, a stage of insp_free,
                  \* "exit" or "dead"
    starts,       \* processes started
    was,          \* the machine when the process started
    smooth        \* nothing was interrupted and no clean-up command failed

options == <<mode, type, dev>>
process == <<options, held, use_mirror, rc, ec>>
history == <<starts, was>>
vars == <<kern, orphans, process, run, pc, history, smooth>>

Nothing == [veth |-> FALSE, clsact |-> {}, prog |-> FALSE]

\* insp_create, and insp_parse_argv once it has the mode.
Init ==
    /\ kern = Nothing /\ orphans = {}
    /\ mode \in Modes /\ type = "raw" /\ dev = FALSE
    /\ held = {} /\ use_mirror = FALSE /\ run = FALSE
    /\ rc = "unset" /\ ec = 0 /\ pc = "argv"
    /\ starts = 1 /\ was = Nothing /\ smooth = TRUE

----------------------------------------------------------------------------
\* Plausible slips of the code, each substituted for the definition after it.

\* use_mirror is set at the end of xdp_mirror_init
MarksMirrorLast(cmd) == cmd = "egress"
\* the result of adding the ingress mirror is not looked at
ToleratesMirror(cmd) == cmd \in {"veth", "qdisc_del", "ingress"}
----------------------------------------------------------------------------

\* What a command needs of the machine, and what it does to it.
Can(cmd, k) ==
    CASE cmd = "veth" -> ~k.veth
      [] cmd \in {"tap_up", "sink_up", "veth_gone"} -> k.veth
      [] cmd \in {"qdisc_del", "qdisc_gone"} -> k.clsact # {}
      [] cmd = "qdisc_add" -> k.clsact = {}
      [] cmd \in {"ingress", "egress"} -> k.veth /\ k.clsact # {}

Does(cmd, k) ==
    CASE cmd = "veth" -> [k EXCEPT !.veth = TRUE]
      [] cmd \in {"tap_up", "sink_up"} -> k
      [] cmd = "veth_gone" -> [k EXCEPT !.veth = FALSE, !.prog = FALSE]
      [] cmd \in {"qdisc_del", "qdisc_gone"} -> [k EXCEPT !.clsact = {}]
      [] cmd = "qdisc_add" -> [k EXCEPT !.clsact = {"qdisc"}]
      [] cmd \in {"ingress", "egress"} -> [k EXCEPT !.clsact = @ \union {cmd}]

Following(step) ==
    LET steps == Steps[type] IN steps[(CHOOSE n \in 1..Len(steps) : steps[n] = step) + 1]

\* The final checks of insp_parse_argv.
OptionsSuffice ==
    /\ mode = "capture" => dev
    /\ mode \in {"readpcap", "tracepcap"} => "filename" \in held

\* Commands whose failure does not end the setup: exit code 2 of the first, any
\* of the one that clears old rules.
Tolerates(cmd) == cmd \in {"veth", "qdisc_del"}
\* The command after which the mirror is the program's to remove.
MarksMirror(cmd) == cmd = "veth"
\* What a call that succeeds leaves in the state of the process.
Gains(call) == {call} \intersect Resources

\* run_cmd: the command succeeds, fails, or the wait for it is interrupted and
\* it has run, runs on or is killed.
CmdOk(cmd)   == Can(cmd, kern) /\ kern' = Does(cmd, kern) /\ UNCHANGED <<orphans, run, smooth>>
CmdFails     == UNCHANGED <<kern, orphans, run, smooth>>
CmdInterrupted(cmd) ==
    /\ run' = FALSE /\ smooth' = FALSE
    /\ \/ Can(cmd, kern) /\ kern' = Does(cmd, kern) /\ UNCHANGED orphans
       \/ orphans' = orphans \union {cmd} /\ UNCHANGED kern
       \/ UNCHANGED <<kern, orphans>>

Proceed(cmd) ==
    /\ pc' = Following(cmd)
    /\ use_mirror' = (use_mirror \/ MarksMirror(cmd))
    /\ UNCHANGED ec

----------------------------------------------------------------------------
\* A stage fails: main frees what there is and exits with the stage's code.
Fail(code) == pc' = "free" /\ ec' = code
EARGV == 2
ESIGNAL == 3
EINIT == 4
ERUN == 5

\* insp_parse_argv: cmd_argv_next gives the next option of the mode.
Parsing(modes) ==
    /\ pc = "argv" /\ mode \in modes
    /\ UNCHANGED <<kern, orphans, mode, use_mirror, rc, run, history, smooth>>

\* set_interface
SetInterface ==
    /\ Parsing({"capture"})
    /\ \/ dev' = TRUE /\ UNCHANGED <<ec, pc>>
       \/ dev' \in {dev, TRUE} /\ Fail(EARGV)      \* too long, or no such device
    /\ UNCHANGED <<type, held>>

\* set_type
SetType ==
    /\ Parsing({"capture"})
    /\ type' \in Types
    /\ UNCHANGED <<dev, held, ec, pc>>

\* opt_setstr of --file: a name that is given again replaces the first.
SetFile ==
    /\ Parsing(Modes)
    /\ \/ held' = held \union {"filename"} /\ UNCHANGED <<ec, pc>>
       \/ held' = held \ {"filename"} /\ Fail(EARGV)
    /\ UNCHANGED <<type, dev>>

\* The option or its value is missing, or the value is refused.
BadOption ==
    /\ Parsing(Modes)
    /\ Fail(EARGV)
    /\ UNCHANGED <<type, dev, held>>

Option == SetInterface \/ SetType \/ SetFile \/ BadOption

\* No option is left.
EndOfOptions ==
    /\ pc = "argv"
    /\ IF OptionsSuffice THEN pc' = "signals" /\ UNCHANGED ec ELSE Fail(EARGV)
    /\ UNCHANGED <<kern, orphans, options, held, use_mirror, rc, run, history, smooth>>

\* setup_signals
SetupSignals ==
    /\ pc = "signals"
    /\ \/ run' = TRUE /\ pc' = "init" /\ UNCHANGED ec
       \/ Fail(ESIGNAL) /\ UNCHANGED run
    /\ UNCHANGED <<kern, orphans, options, held, use_mirror, rc, history, smooth>>

\* insp_init: the file is opened first, then the capture set up.  Without a file
\* a mode that is not a capture would return a value never assigned.
OpenFile ==
    /\ pc = "init"
    /\ LET go == IF mode = "capture" THEN Steps[type][1] ELSE "read" IN
          \/ /\ "filename" \in held
             /\ held' = held \union {"pcap"} /\ rc' = "zero" /\ pc' = go /\ UNCHANGED ec
          \/ "filename" \in held /\ Fail(EINIT) /\ UNCHANGED <<held, rc>>
          \/ "filename" \notin held /\ pc' = go /\ UNCHANGED <<held, rc, ec>>
          \/ /\ "filename" \notin held /\ mode # "capture"
             /\ Fail(EINIT) /\ UNCHANGED <<held, rc>>
    /\ UNCHANGED <<kern, orphans, options, use_mirror, run, history, smooth>>

\* A command of xdp_mirror_init.  An interruption is the result -1, which only
\* the command that clears old rules survives.
Command ==
    /\ pc \in Commands
    /\ \/ CmdOk(pc) /\ Proceed(pc)
       \/ CmdFails /\ Tolerates(pc) /\ Proceed(pc)
       \/ CmdFails /\ pc # "qdisc_del" /\ Fail(EINIT) /\ UNCHANGED use_mirror
       \/ CmdInterrupted(pc) /\ pc = "qdisc_del" /\ Proceed(pc)
       \/ CmdInterrupted(pc) /\ pc # "qdisc_del" /\ Fail(EINIT) /\ UNCHANGED use_mirror
    /\ UNCHANGED <<options, held, rc, history>>

\* Another call of the setup.
Call ==
    /\ pc \in Calls
    /\ \/ /\ pc = "index" => kern.veth
          /\ held' = held \union Gains(pc)
          /\ pc' = Following(pc)
          /\ UNCHANGED ec
       \/ Fail(EINIT) /\ UNCHANGED held
    /\ UNCHANGED <<kern, orphans, options, use_mirror, rc, run, history, smooth>>

\* bpf_attach_dev sends the request and does not read the kernel's answer, so a
\* refusal goes unnoticed.
Attach ==
    /\ pc = "attach"
    /\ \/ kern' = [kern EXCEPT !.prog = kern.veth] /\ pc' = Following(pc) /\ UNCHANGED ec
       \/ pc' = Following(pc) /\ UNCHANGED <<kern, ec>>
       \/ Fail(EINIT) /\ UNCHANGED kern
    /\ UNCHANGED <<orphans, options, held, use_mirror, rc, run, history, smooth>>

\* run_capture ends on a signal or an error; only capture_raw reports the error.
Capture ==
    /\ pc = "capture"
    /\ run' \in {run, FALSE}
    /\ \/ pc' = "free" /\ UNCHANGED ec
       \/ type = "raw" /\ Fail(ERUN)
    /\ UNCHANGED <<kern, orphans, options, held, use_mirror, rc, history, smooth>>

\* run_readpcap and run_tracepcap; the first may meet a message it refuses.
ReadFile ==
    /\ pc = "read"
    /\ \/ pc' = "free" /\ UNCHANGED ec
       \/ mode = "readpcap" /\ Fail(ERUN)
    /\ UNCHANGED <<kern, orphans, options, held, use_mirror, rc, run, history, smooth>>

----------------------------------------------------------------------------
\* insp_free: the program is detached if it was loaded, the descriptors are
\* closed and the memory is unmapped, then the mirror is removed and the file closed.
Free ==
    /\ pc = "free"
    /\ \/ "bpf_fd" \in held /\ kern' = [kern EXCEPT !.prog = FALSE] /\ UNCHANGED smooth
       \/ "bpf_fd" \in held /\ smooth' = FALSE /\ UNCHANGED kern
       \/ "bpf_fd" \notin held /\ UNCHANGED <<kern, smooth>>
    /\ held' = held \ Resources
    /\ pc' = IF use_mirror THEN "qdisc_gone" ELSE "close"
    /\ UNCHANGED <<orphans, options, use_mirror, rc, ec, run, history>>

\* The commands of xdp_mirror_deinit, whose results are ignored.
MirrorDeinit ==
    /\ pc \in Teardown
    /\ \/ CmdOk(pc)
       \/ CmdInterrupted(pc)
       \/ ~Can(pc, kern) /\ CmdFails
       \/ Can(pc, kern) /\ smooth' = FALSE /\ UNCHANGED <<kern, orphans, run>>
    /\ pc' = IF pc = "qdisc_gone" THEN "veth_gone" ELSE "close"
    /\ UNCHANGED <<process, history>>

CloseFile ==
    /\ pc = "close"
    /\ held' = held \ {"pcap", "filename"}
    /\ pc' = "exit"
    /\ UNCHANGED <<kern, orphans, options, use_mirror, rc, ec, run, history, smooth>>

\* A signal between two calls is only noted.
Signal ==
    /\ run /\ pc \notin {"exit", "dead"}
    /\ run' = FALSE
    /\ UNCHANGED <<kern, orphans, process, pc, history, smooth>>

\* The process is killed: its memory and descriptors go, the machine stays, and
\* so does a command under way.
Crash ==
    /\ pc \notin {"exit", "dead"}
    /\ orphans' \in {orphans, orphans \union ({pc} \intersect (Commands \union Teardown))}
    /\ held' = {} /\ pc' = "dead"
    /\ UNCHANGED <<kern, options, use_mirror, rc, ec, run, history, smooth>>

OrphanRuns ==
    /\ \E cmd \in orphans :
          /\ orphans' = orphans \ {cmd}
          /\ kern' = IF Can(cmd, kern) THEN Does(cmd, kern) ELSE kern
    /\ UNCHANGED <<process, run, pc, history, smooth>>

\* The program is started again.
Start ==
    /\ pc \in {"exit", "dead"} /\ starts < MaxStarts
    /\ starts' = starts + 1
    /\ mode' \in Modes /\ type' = "raw" /\ dev' = FALSE
    /\ held' = {} /\ use_mirror' = FALSE /\ run' = FALSE
    /\ rc' = "unset" /\ ec' = 0 /\ pc' = "argv"
    /\ was' = kern /\ smooth' = (orphans = {})
    /\ UNCHANGED <<kern, orphans>>

Next ==
    \/ Option \/ EndOfOptions \/ SetupSignals \/ OpenFile
    \/ Command \/ Call \/ Attach \/ Capture \/ ReadFile
    \/ Free \/ MirrorDeinit \/ CloseFile
    \/ Signal \/ Crash \/ OrphanRuns \/ Start

Spec == Init /\ [][Next]_vars

----------------------------------------------------------------------------
\* The variables keep their types.
TypeOK ==
    /\ kern \in [veth : BOOLEAN, clsact : SUBSET {"qdisc", "ingress", "egress"},
                 prog : BOOLEAN]
    /\ was \in [veth : BOOLEAN, clsact : SUBSET {"qdisc", "ingress", "egress"},
                prog : BOOLEAN]
    /\ orphans \subseteq Commands \union Teardown
    /\ mode \in Modes /\ type \in Types /\ dev \in BOOLEAN
    /\ held \subseteq Resources \union {"pcap", "filename"}
    /\ use_mirror \in BOOLEAN /\ run \in BOOLEAN /\ smooth \in BOOLEAN
    /\ rc \in {"unset", "zero"} /\ ec \in 0..ERUN
    /\ pc \in AllSteps \union Teardown
              \union {"argv", "signals", "init", "read", "free", "close", "exit", "dead"}
    /\ starts \in 1..MaxStarts

\* What runs has what it works on: a mode that reads has its file open, so that
\* insp_init never returns a value it has not assigned, and a capture the socket,
\* the memory and the programs of its type, and its file if one was named; an XDP
\* capture sees both directions of the device's traffic, also after a predecessor
\* was killed half-way (dns_insp.c:605-628, 1114-1127, 1148-1167).
ReadyToRun ==
    /\ pc = "read" => "pcap" \in held /\ rc = "zero"
    /\ pc = "capture" =>
          /\ dev /\ ("filename" \in held <=> "pcap" \in held)
          /\ held \ {"filename", "pcap"} =
                CASE type = "raw" -> {"sock"} [] type = "mmap" -> {"sock", "umem"}
                  [] type = "xdp" -> Resources
          /\ type = "xdp" /\ smooth =>
                kern.veth /\ {"ingress", "egress"} \subseteq kern.clsact

\* Whatever option, stage or step fails, everything acquired is released; the
\* program takes the mirror and the eBPF program off the machine, also those a
\* killed predecessor left, if it came as far as the veth pair, and otherwise
\* leaves the machine as it met it; unless a command was interrupted or a
\* clean-up command failed (dns_insp.c:635-644, 1170-1188).
CleanExit ==
    pc = "exit" /\ smooth =>
        held = {} /\ kern = IF use_mirror THEN Nothing ELSE was

\* dns_insp.c:940-942 reports "attach eBPF to %s" and ends the setup if the
\* program cannot be attached: an XDP capture that runs has it attached.
AttachedWhenActive == pc = "capture" /\ type = "xdp" /\ smooth => kern.prog
=============================================================================
