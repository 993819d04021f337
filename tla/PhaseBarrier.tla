----------------------------- MODULE PhaseBarrier -----------------------------
(***************************************************************************)
(* The phase barrier of the resource-controlled benchmark.                 *)
(*                                                                         *)
(* scripts/bench_index_resources.py (run_constrained, "the controller")    *)
(* starts a worker as a transient systemd unit and reads its stdout.       *)
(* scripts/native/bench_index_sift_capi.cpp (Phase, "the worker") prints a *)
(* line at every phase boundary and blocks on stdin until the controller   *)
(* has captured /proc and cgroup counters and answered "continue".  A      *)
(* result is marked verified only when every check of the controller held. *)
(*                                                                         *)
(* Three actors interleave: the controller, the worker, and systemd with   *)
(* its client (systemd-run --wait --pipe), which start the unit, enforce   *)
(* RuntimeMaxSec, kill on memory pressure and report the exit status.      *)
(***************************************************************************)
EXTENDS Naturals, Sequences

CONSTANTS
  Phase,           \* names of phase boundaries
  Expected,        \* phases(warmup, rounds): what the controller waits for
  Process,         \* processes: a pid together with its start_ticks
  Confined,        \* those whose live limits and cgroup are the requested ones
  Programs,        \* what a worker may execute: sequences of steps
  Intervals,       \* pairs of phase indexes whose counters phase_deltas subtracts
  PinController,   \* controller_cpu is given
  StopMayFail      \* "systemctl stop" may fail, which check=False ignores

Announce == [kind : {"phase"}, name : Phase, by : Process]
Work     == [kind : {"work"}, by : Process]

ASSUME Shape ==
  /\ Expected \in Seq(Phase)
  /\ Confined \subseteq Process
  /\ Programs \subseteq Seq(Announce \cup Work)
  /\ Intervals \subseteq (1 .. Len(Expected)) \X (1 .. Len(Expected))
  /\ PinController \in BOOLEAN
  /\ StopMayFail \in BOOLEAN

VARIABLES
  (* the controller: locals of run_constrained                             *)
  pc,              \* where it is
  raised,          \* an exception is propagating through the finally block
  line,            \* the phase line it is handling
  snapshots,       \* result["snapshots"]
  verified,        \* result["verified"]
  deltas,          \* result["phase_deltas"], << >> before
  affinity,        \* CPUs the controller thread runs on
  unflushed,       \* "continue" left in the stdin buffer by a failed flush
  disk,            \* constraints.json
  (* the pipes between them                                                *)
  out,             \* phase lines on stdout not read yet
  inp,             \* "continue" lines on stdin not read yet
  (* the worker, its unit and the systemd-run client                       *)
  program,         \* the program this run executes
  at,              \* index of the worker's next step
  waiting,         \* blocked in getline at the phase boundary program[at]
  used,            \* resource counters of every process
  oom,             \* memory.events of the unit's cgroup counts an OOM
  unit,            \* the transient unit: "absent", "active", "gone"
  status,          \* its exit status: "none", "ok", "failed"
  client,          \* systemd-run: "none", "running", "ok", "failed"
  (* observability                                                         *)
  announced,       \* for every phase line ever printed, the boundary it names
                   \* and the counters of its process when it got there
  oomAt,           \* phase lines printed when the first OOM was counted
  contended        \* work was done while the controller was not pinned

result     == <<snapshots, verified, deltas>>
controller == <<pc, raised, line, result, affinity, unflushed, disk>>
pipes      == <<out, inp>>
worker     == <<program, at, waiting, used, oom, unit, status>>
observed   == <<announced, oomAt, contended>>
system     == <<worker, client, observed>>
vars       == <<controller, pipes, system>>

(* The counters of the announcing process at the boundary l names.         *)
Boundary(l) == [phase |-> l.name, of |-> l.by, used |-> used[l.by]]

NoLine == [kind |-> "none"]
Snapshot == [phase : Phase, of : Process, used : Nat]

(* States of constraints.json: not written, truncated by a crash, or the   *)
(* verified flag together with the number of snapshots in it (the mutant   *)
(* claims success as soon as there are snapshots).                         *)
Absent == [verified |-> FALSE, count |-> 0, whole |-> FALSE]
Document_optimistic(v, n) == [verified |-> n > 0, count |-> n, whole |-> TRUE]
Document(v, n) == [verified |-> v, count |-> n, whole |-> TRUE]

TryBody  == {"pin", "spawn", "read", "capture", "record", "ack", "qualify"}
Cleanup  == {"restore", "stop", "close", "reap", "save", "reset"}
Finished == {"returned", "raised", "killed"}

(* stdin and stdout are open as long as run_constrained has not closed its *)
(* ends and its process is alive.                                          *)
PipesOpen == pc \in {"read", "capture", "record", "ack", "qualify",
                     "restore", "stop", "close"}

Init ==
  /\ pc = "pin" /\ raised = FALSE /\ line = NoLine /\ snapshots = << >>
  /\ verified = FALSE /\ deltas = << >> /\ affinity = "original"
  /\ unflushed = FALSE /\ disk = Absent
  /\ out = << >> /\ inp = 0
  /\ program \in Programs /\ at = 1 /\ waiting = FALSE
  /\ used = [p \in Process |-> 0] /\ oom = FALSE
  /\ unit = "absent" /\ status = "none" /\ client = "none"
  /\ announced = << >> /\ oomAt = 0 /\ contended = FALSE
-----------------------------------------------------------------------------
(***************************************************************************)
(* The controller.                                                         *)
(***************************************************************************)
Goto(p) == pc' = p

(* An exception leaves the try block for the finally block.                *)
Raise == Goto("restore") /\ raised' = TRUE

(* Away from the worker, where that was asked for.                         *)
PinnedAffinity == IF PinController THEN "controller" ELSE "original"

(* sched_setaffinity, the first statement of the try block.                *)
Pin ==
  /\ pc = "pin"
  /\ affinity' = PinnedAffinity
  /\ Goto("spawn")
  /\ UNCHANGED <<raised, line, unflushed, disk, system, result, pipes>>

(* Popen of systemd-run; opening a log that exists or a missing executable *)
(* raises instead.                                                         *)
Spawn ==
  /\ pc = "spawn"
  /\ \/ client' = "running" /\ Goto("read") /\ UNCHANGED raised
     \/ UNCHANGED client /\ Raise
  /\ UNCHANGED <<line, affinity, unflushed, disk, result, pipes, worker,
                 observed>>

(* Mutant: any phase line is accepted.                                     *)
InOrder_any(l) == TRUE

(* The next phase line must be the next expected one.                      *)
InOrder(l) ==
  /\ Len(snapshots) < Len(Expected)
  /\ l.name = Expected[Len(snapshots) + 1]

ReadPhase ==
  /\ pc = "read"
  /\ out # << >>
  /\ line' = Head(out)
  /\ out' = Tail(out)
  /\ IF InOrder(Head(out)) THEN Goto("capture") /\ UNCHANGED raised ELSE Raise
  /\ UNCHANGED <<affinity, unflushed, disk, inp, system, result>>

(* End of file: every process holding the write end of stdout has ended.   *)
ReadEof ==
  /\ pc = "read"
  /\ out = << >>
  /\ client \in {"ok", "failed"}
  /\ unit # "active"
  /\ Goto("qualify")
  /\ UNCHANGED <<raised, line, affinity, unflushed, disk, system, result,
                 pipes>>

SameProcess(p) == snapshots = << >> \/ p = snapshots[1].of

(* Mutant: the OOM counters are recorded but not checked.                  *)
Acceptable_ignoring_oom(p) == unit = "active" /\ p \in Confined /\ SameProcess(p)

(* verify_limits and the checks after it: live limits and cgroup, no OOM,  *)
(* the process of the first snapshot.  A dead process has no /proc entry.  *)
Acceptable(p) == unit = "active" /\ p \in Confined /\ ~oom /\ SameProcess(p)

(* capture reads the live counters of the announced process; they are kept *)
(* only when they may be used.                                             *)
Capture ==
  /\ pc = "capture"
  /\ IF Acceptable(line.by)
     THEN /\ snapshots' = Append(snapshots, Boundary(line))
          /\ Goto("record")
          /\ UNCHANGED raised
     ELSE Raise /\ UNCHANGED snapshots
  /\ UNCHANGED <<line, verified, deltas, affinity, unflushed, disk, system,
                 pipes>>

(* constraints.json is rewritten after every snapshot.                     *)
Record ==
  /\ pc = "record"
  /\ disk' = Document(verified, Len(snapshots))
  /\ Goto("ack")
  /\ UNCHANGED <<raised, line, affinity, unflushed, system, result, pipes>>

(* The read end of stdin is held by the unit and by the client.            *)
StdinHasReader == unit = "active" \/ client = "running"

(* Mutant: "continue" is written and never flushed.                        *)
Acknowledge_unflushed ==
  /\ pc = "ack"
  /\ line' = NoLine
  /\ Goto("read")
  /\ unflushed' = TRUE
  /\ UNCHANGED <<raised, affinity, disk, system, result, pipes>>

(* write and flush of "continue\n".  With no reader left the flush raises  *)
(* and the bytes stay in the buffer of stdin.                              *)
Acknowledge ==
  /\ pc = "ack"
  /\ line' = NoLine
  /\ IF StdinHasReader
     THEN inp' = inp + 1 /\ Goto("read") /\ UNCHANGED <<raised, unflushed>>
     ELSE unflushed' = TRUE /\ Raise /\ UNCHANGED inp
  /\ UNCHANGED <<affinity, disk, out, system, result>>

(* phase_deltas: a counter may not decrease over an interval.              *)
Monotone(s) == \A i \in Intervals : s[i[1]].used <= s[i[2]].used
PhaseDeltas(s) == [i \in Intervals |-> s[i[2]].used - s[i[1]].used]

(* Mutant: one missing phase is tolerated.                                 *)
Complete_but_one ==
  client = "ok" /\ Len(snapshots) >= Len(Expected) - 1 /\ Monotone(snapshots)

Complete ==
  client = "ok" /\ Len(snapshots) = Len(Expected) /\ Monotone(snapshots)

(* After end of file: exit status, number of phases, counters; verified is *)
(* set only after all three.                                               *)
Qualify ==
  /\ pc = "qualify"
  /\ IF Complete
     THEN /\ verified' = TRUE
          /\ deltas' = PhaseDeltas(snapshots)
          /\ Goto("restore")
          /\ UNCHANGED raised
     ELSE Raise /\ UNCHANGED <<verified, deltas>>
  /\ UNCHANGED <<line, snapshots, affinity, unflushed, disk, system, pipes>>

(* KeyboardInterrupt, or an operating-system error of a call above.  It    *)
(* may come between the write of "continue\n" and its flush.               *)
Interrupt ==
  /\ pc \in TryBody
  /\ Raise
  /\ unflushed' \in {FALSE, pc = "ack"}
  /\ UNCHANGED <<line, affinity, disk, system, result, pipes>>

(* The finally block, in the order of its statements.                      *)
RestoreAffinity ==
  /\ pc = "restore"
  /\ affinity' = "original"
  /\ Goto("stop")
  /\ UNCHANGED <<raised, line, unflushed, disk, system, result, pipes>>

(* Mutant: the unit is not stopped when an exception is propagating.       *)
Stoppable_on_success == unit = "active" /\ ~raised

(* A unit systemd has not created yet cannot be stopped.                   *)
Stoppable == unit = "active"

(* systemctl stop waits for the stop job; its failure is ignored.          *)
StopUnit ==
  /\ pc = "stop"
  /\ Goto(IF client = "none" THEN "save" ELSE "close")
  /\ \/ /\ Stoppable
        /\ unit' = "gone" /\ status' = "failed" /\ waiting' = FALSE
     \/ /\ ~Stoppable \/ StopMayFail
        /\ UNCHANGED <<waiting, unit, status>>
  /\ UNCHANGED <<raised, line, affinity, unflushed, disk, program, at, used,
                 oom, client, result, pipes, observed>>

(* stdin.close flushes what is left in its buffer: the worker gets it if   *)
(* it is still there, otherwise close raises (once more) and the rest of   *)
(* the finally block is skipped.                                           *)
ClosePipes ==
  /\ pc = "close"
  /\ \/ /\ unflushed /\ ~StdinHasReader
        /\ Goto("raised") /\ raised' = TRUE
        /\ UNCHANGED <<unflushed, inp>>
     \/ /\ unflushed /\ StdinHasReader
        /\ inp' = inp + 1 /\ unflushed' = FALSE
        /\ Goto("reap") /\ UNCHANGED raised
     \/ /\ ~unflushed
        /\ Goto("reap") /\ UNCHANGED <<raised, unflushed, inp>>
  /\ UNCHANGED <<line, affinity, disk, out, system, result>>

(* wait(timeout=15): the client has exited, or TimeoutExpired leaves the   *)
(* finally block before constraints.json is written.                       *)
Reap ==
  /\ pc = "reap"
  /\ IF client = "running" THEN Goto("raised") /\ raised' = TRUE
                           ELSE Goto("save") /\ UNCHANGED raised
  /\ UNCHANGED <<line, affinity, unflushed, disk, system, result, pipes>>

Save ==
  /\ pc = "save"
  /\ disk' = Document(verified, Len(snapshots))
  /\ Goto("reset")
  /\ UNCHANGED <<raised, line, affinity, unflushed, system, result, pipes>>

(* systemctl reset-failed, whose failure is ignored, and the way out.      *)
ResetFailed ==
  /\ pc = "reset"
  /\ Goto(IF raised THEN "raised" ELSE "returned")
  /\ UNCHANGED <<raised, line, affinity, unflushed, disk, system, result,
                 pipes>>

(* The controller is killed: no finally block runs, the kernel closes its  *)
(* pipes, and a write_json in progress leaves a truncated file.            *)
Kill ==
  /\ pc \notin Finished
  /\ Goto("killed")
  /\ IF pc \in {"record", "save"} THEN disk' \in {disk, Absent} ELSE UNCHANGED disk
  /\ UNCHANGED <<raised, line, affinity, unflushed, system, result, pipes>>
-----------------------------------------------------------------------------
(***************************************************************************)
(* The worker.                                                             *)
(***************************************************************************)
Running == unit = "active" /\ ~waiting

Step(kind) == at <= Len(program) /\ program[at].kind = kind

(* memory.events of the cgroup counts an OOM.                              *)
CountOom == oom' = TRUE /\ oomAt' = IF oom THEN oomAt ELSE Len(announced)

(* A step of the benchmark proper; it may be what drives the cgroup into   *)
(* its memory limit without being killed for it.                           *)
DoWork ==
  /\ Running
  /\ Step("work")
  /\ used' = [used EXCEPT ![program[at].by] = @ + 1]
  /\ at' = at + 1
  /\ CountOom \/ UNCHANGED <<oom, oomAt>>
  /\ contended' = (contended \/ (PinController /\ affinity = "original"))
  /\ UNCHANGED <<program, waiting, unit, status, client, announced, controller,
                 pipes>>

(* Mutant: Phase does not wait for the answer.                             *)
AnnouncePhase_nowait ==
  /\ Running
  /\ Step("phase")
  /\ PipesOpen
  /\ out' = Append(out, program[at])
  /\ announced' = Append(announced, Boundary(program[at]))
  /\ at' = at + 1
  /\ UNCHANGED <<inp, program, waiting, used, oom, unit, status, client, oomAt,
                 contended, controller>>

(* Phase: print and flush the line, then block in getline.                 *)
AnnouncePhase ==
  /\ Running
  /\ Step("phase")
  /\ PipesOpen
  /\ out' = Append(out, program[at])
  /\ announced' = Append(announced, Boundary(program[at]))
  /\ waiting' = TRUE
  /\ UNCHANGED <<inp, program, at, used, oom, unit, status, client, oomAt,
                 contended, controller>>

(* Mutant: the result of getline is not awaited.                           *)
Resume_early ==
  /\ unit = "active" /\ waiting
  /\ inp' = inp - 1
  /\ at' = at + 1
  /\ waiting' = FALSE
  /\ UNCHANGED <<out, program, used, oom, unit, status, client, controller,
                 observed>>

(* getline returned "continue".                                            *)
Resume ==
  /\ unit = "active" /\ waiting
  /\ inp > 0
  /\ inp' = inp - 1
  /\ at' = at + 1
  /\ waiting' = FALSE
  /\ UNCHANGED <<out, program, used, oom, unit, status, client, controller,
                 observed>>

End(outcome) ==
  /\ unit' = "gone" /\ status' = outcome /\ waiting' = FALSE
  /\ UNCHANGED <<program, at, used, oom, client, controller, pipes, observed>>

(* main returned 0, or it returned 1 because a query or a write failed, or *)
(* the controller is no longer at the other end of a pipe.                 *)
ExitOk     == Running /\ at > Len(program) /\ End("ok")
ExitError  == Running /\ Step("work") /\ End("failed")
Disconnect ==
  /\ ~PipesOpen
  /\ \/ Running /\ Step("phase")
     \/ unit = "active" /\ waiting /\ inp = 0
  /\ End("failed")
-----------------------------------------------------------------------------
(***************************************************************************)
(* systemd and systemd-run.                                                *)
(***************************************************************************)
StartUnit ==
  /\ client = "running" /\ unit = "absent"
  /\ unit' = "active"
  /\ UNCHANGED <<program, at, waiting, used, oom, status, client, controller,
                 pipes, observed>>

(* Mutant: the unit has no RuntimeMaxSec.                                  *)
RuntimeLimit_none == FALSE /\ End("failed")

(* RuntimeMaxSec, whatever the worker does.                                *)
RuntimeLimit == unit = "active" /\ End("failed")

(* The kernel's OOM killer; memory.events counts it.                       *)
OomKill ==
  /\ unit = "active"
  /\ unit' = "gone" /\ status' = "failed" /\ waiting' = FALSE
  /\ CountOom
  /\ UNCHANGED <<program, at, used, client, announced, contended, controller,
                 pipes>>

(* systemd-run --wait returns the status of the unit.                      *)
ClientReturns ==
  /\ client = "running" /\ unit = "gone"
  /\ client' = status
  /\ UNCHANGED <<controller, pipes, worker, observed>>

(* systemd-run cannot create the unit, or dies (Ctrl-C reaches it too).    *)
ClientFails ==
  /\ client = "running" /\ unit # "gone"
  /\ client' = "failed"
  /\ UNCHANGED <<controller, pipes, worker, observed>>

Controller ==
  \/ Pin \/ Spawn \/ ReadPhase \/ ReadEof \/ Capture \/ Record \/ Acknowledge
  \/ Qualify \/ RestoreAffinity \/ StopUnit \/ ClosePipes \/ Reap \/ Save
  \/ ResetFailed

Worker == DoWork \/ AnnouncePhase \/ Resume \/ ExitOk \/ ExitError \/ Disconnect

Systemd == StartUnit \/ RuntimeLimit \/ OomKill \/ ClientReturns \/ ClientFails

Next == Controller \/ Interrupt \/ Kill \/ Worker \/ Systemd

Spec == Init /\ [][Next]_vars

(* Every call of the controller returns except the read, which waits for   *)
(* the worker; systemd starts the unit, and its client notices its end.    *)
Progress == WF_vars(Controller) /\ WF_vars(StartUnit) /\ WF_vars(ClientReturns)

(* RuntimeMaxSec, which systemd enforces from the start of the unit.       *)
Timer == WF_vars(RuntimeLimit)

(* A worker that keeps going instead of hanging in a query.                *)
Responsive == WF_vars(Worker)
-----------------------------------------------------------------------------
(***************************************************************************)
(* Properties.                                                             *)
(***************************************************************************)
(* The state of run_constrained, its worker and its unit has its type.     *)
FlagTypes ==
  /\ raised \in BOOLEAN /\ verified \in BOOLEAN /\ unflushed \in BOOLEAN
  /\ waiting \in BOOLEAN /\ oom \in BOOLEAN /\ contended \in BOOLEAN
  /\ disk \in [verified : BOOLEAN, count : Nat, whole : BOOLEAN]

ValueTypes ==
  /\ pc \in TryBody \cup Cleanup \cup Finished
  /\ line \in Announce \cup {NoLine} /\ (pc = "capture" => line \in Announce)
  /\ snapshots \in Seq(Snapshot) /\ announced \in Seq(Snapshot)
  /\ affinity \in {"original", "controller"}
  /\ out \in Seq(Announce) /\ inp \in Nat
  /\ program \in Programs /\ at \in Nat \ {0}
  /\ used \in [Process -> Nat] /\ oomAt \in Nat
  /\ unit \in {"absent", "active", "gone"}
  /\ status \in {"none", "ok", "failed"}
  /\ client \in {"none", "running", "ok", "failed"}

TypeOK == FlagTypes /\ ValueTypes

(* Every snapshot holds exactly the counters the worker had when it reached *)
(* that boundary: the controller never measures a worker that runs on.     *)
SnapshotsAreExact ==
  /\ Len(snapshots) \in {Len(announced) - 1, Len(announced)}
  /\ \A k \in 1 .. Len(snapshots) : snapshots[k] = announced[k]

(* A verified result (run_constrained's require calls) means: the worker   *)
(* exited with 0, reached the expected boundaries, all of them, in order,  *)
(* every one was measured, always in the same confined process, and the    *)
(* reported deltas are the counters it consumed between the boundaries;    *)
(* and where the controller is to have a CPU of its own, no work was done  *)
(* while it could still run on the worker's.                               *)
VerifiedMeansMeasured ==
  verified =>
    /\ status = "ok"
    /\ snapshots = announced
    /\ Len(snapshots) = Len(Expected)
    /\ \A k \in 1 .. Len(snapshots) :
         /\ snapshots[k].phase = Expected[k]
         /\ snapshots[k].of = snapshots[1].of
         /\ snapshots[k].of \in Confined
    /\ \A i \in Intervals :
         announced[i[1]].used + deltas[i] = announced[i[2]].used
    /\ PinController => ~contended

(* An OOM counted before the last boundary disqualifies the run            *)
(* (verify_limits and the exit status, together).                          *)
NoOomWhileMeasured == verified /\ oom => oomAt = Len(Expected)

(* constraints.json says verified only of a verified result, whatever is   *)
(* killed in between, and a call that returns has left the final document. *)
DiskMatchesOutcome ==
  /\ disk.verified => verified /\ disk.count = Len(Expected)
  /\ pc = "returned" => disk = Document(TRUE, Len(Expected))

(* Whether run_constrained returns or raises, the calling thread gets its  *)
(* CPU affinity back (the benchmark drivers continue on it); and the unit, *)
(* once a boundary was measured, is stopped, if systemctl stop works.      *)
NothingLeftBehind ==
  /\ pc \in {"returned", "raised"} => affinity = "original"
  /\ pc = "returned" => unit = "gone"
  /\ pc \in {"returned", "raised"} /\ ~StopMayFail /\ snapshots # << >>
       => unit = "gone"

(* From reading a phase line to answering it, no counter moves.            *)
NoWorkDuringCapture ==
  [][(pc \in {"capture", "record", "ack"}) => UNCHANGED used]_vars

(* The barrier implements the abstract measured run.                       *)
M == INSTANCE MeasuredRun WITH
       N <- Len(Expected),
       arrived <- Len(announced),
       taken <- Len(snapshots),
       verdict <- IF verified THEN "qualified"
                  ELSE IF raised THEN "rejected" ELSE "pending"

ImplementsMeasuredRun == M!Spec

(* run_constrained has ended and no unit is left running.                  *)
Ends == <>(pc \in Finished) /\ <>[](unit # "active")

(* run_constrained always ends, even if the worker hangs, and leaves no    *)
(* unit running: RuntimeMaxSec and end of file on stdout see to it.        *)
Terminates == Progress /\ Timer => Ends

(* The same without the timer: the loop of run_constrained and Phase never *)
(* wait for each other, and a worker whose controller is gone notices.     *)
RunsToItsEnd == Progress /\ Responsive => Ends
=============================================================================
