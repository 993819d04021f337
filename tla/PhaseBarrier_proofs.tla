------------------------- MODULE PhaseBarrier_proofs -------------------------
(***************************************************************************)
(* Proofs about PhaseBarrier, for every expected sequence of phases, every *)
(* set of worker programs and every number of processes.                   *)
(***************************************************************************)
EXTENDS PhaseBarrier, TLAPS

(* A boundary taken from a phase step is a well-formed snapshot.           *)
LEMMA BoundaryType ==
  ASSUME ValueTypes, NEW l \in Announce
  PROVE  Boundary(l) \in Snapshot
BY DEF Boundary, Announce, Snapshot, ValueTypes

(* The step a worker announces is one of the phase steps of its program.   *)
LEMMA StepType ==
  ASSUME ValueTypes
  PROVE  /\ Step("phase") => program[at] \in Announce
         /\ Step("work") => program[at] \in Work
<1>1. program \in Seq(Announce \cup Work)
  BY Shape DEF ValueTypes
<1>2. ASSUME at <= Len(program)
      PROVE  program[at] \in Announce \cup Work
  BY <1>1, <1>2 DEF ValueTypes
<1>3. QED
  BY <1>2 DEF Step, Announce, Work

USE DEF Goto, Raise, End, controller, pipes, result, worker, observed, system

(* The flags stay Boolean: no step gives them another value.               *)
LEMMA FlagsStep == TypeOK /\ [Next]_vars => FlagTypes'
<1> SUFFICES ASSUME TypeOK, [Next]_vars
             PROVE  FlagTypes'
  OBVIOUS
<1> USE DEF TypeOK, FlagTypes
<1>1. CASE Controller
  <2>1. CASE Pin \/ ReadEof \/ RestoreAffinity
    BY <2>1, Zenon DEF Pin, ReadEof, RestoreAffinity
  <2>2. CASE Spawn
    BY <2>2, Zenon DEF Spawn
  <2>3. CASE ReadPhase
    BY <2>3, Zenon DEF ReadPhase
  <2>4. CASE Capture
    BY <2>4, Zenon DEF Capture
  <2>5. CASE Record
    <3>1. Len(snapshots) \in Nat
      BY DEF ValueTypes
    <3>2. disk' \in [verified : BOOLEAN, count : Nat, whole : BOOLEAN]
      BY <2>5, <3>1 DEF Record, Document
    <3>3. QED
      BY <2>5, <3>2, Zenon DEF Record
  <2>6. CASE Acknowledge
    BY <2>6, Zenon DEF Acknowledge
  <2>7. CASE Qualify
    BY <2>7, Zenon DEF Qualify
  <2>8. CASE StopUnit
    BY <2>8, Zenon DEF StopUnit
  <2>9. CASE ClosePipes
    BY <2>9, Zenon DEF ClosePipes
  <2>10. CASE Reap
    BY <2>10, Zenon DEF Reap
  <2>11. CASE Save
    <3>1. Len(snapshots) \in Nat
      BY DEF ValueTypes
    <3>2. disk' \in [verified : BOOLEAN, count : Nat, whole : BOOLEAN]
      BY <2>11, <3>1 DEF Save, Document
    <3>3. QED
      BY <2>11, <3>2, Zenon DEF Save
  <2>12. CASE ResetFailed
    BY <2>12, Zenon DEF ResetFailed
  <2>13. QED
    BY <1>1, <2>1, <2>2, <2>3, <2>4, <2>5, <2>6, <2>7, <2>8, <2>9, <2>10,
       <2>11, <2>12, Zenon DEF Controller
<1>2. CASE Interrupt
  BY <1>2, Zenon DEF Interrupt
<1>3. CASE Kill
  <2>1. Absent \in [verified : BOOLEAN, count : Nat, whole : BOOLEAN]
    BY DEF Absent
  <2>2. QED
    BY <1>3, <2>1, Zenon DEF Kill
<1>4. CASE Worker
  <2>1. CASE DoWork
    BY <1>4, <2>1, Zenon DEF DoWork, CountOom
  <2>2. CASE AnnouncePhase \/ Resume
    BY <1>4, <2>2, Zenon DEF AnnouncePhase, Resume
  <2>3. CASE ExitOk \/ ExitError \/ Disconnect
    BY <1>4, <2>3, Zenon DEF ExitOk, ExitError, Disconnect
  <2>4. QED
    BY <1>4, <2>1, <2>2, <2>3, Zenon DEF Worker
<1>5. CASE Systemd
  BY <1>5, Zenon DEF Systemd, StartUnit, RuntimeLimit, OomKill, CountOom,
                     ClientReturns, ClientFails
<1>6. CASE UNCHANGED vars
  BY <1>6, Zenon DEF vars
<1>7. QED
  BY <1>1, <1>2, <1>3, <1>4, <1>5, <1>6, Zenon DEF Next

(* The two outcomes of a capture.                                          *)
LEMMA CaptureCases ==
  ASSUME Capture
  PROVE  \/ /\ snapshots' = Append(snapshots, Boundary(line))
            /\ pc' = "record"
            /\ unit = "active" /\ line.by \in Confined /\ ~oom
            /\ SameProcess(line.by)
            /\ UNCHANGED raised
         \/ /\ snapshots' = snapshots
            /\ pc' = "restore" /\ raised' = TRUE
BY Zenon DEF Capture, Acceptable

(* Everything else keeps its type as well.                                 *)
LEMMA ValuesStep == TypeOK /\ [Next]_vars => ValueTypes'
<1> SUFFICES ASSUME ValueTypes, [Next]_vars
             PROVE  ValueTypes'
  BY DEF TypeOK
<1> USE DEF ValueTypes, TryBody, Cleanup, Finished
<1>1. CASE Controller
  <2>1. CASE Pin \/ ReadEof
    BY <2>1 DEF Pin, PinnedAffinity, ReadEof
  <2>2. CASE Spawn
    BY <2>2 DEF Spawn
  <2>3. CASE ReadPhase
    BY <2>3 DEF ReadPhase
  <2>4. CASE Capture
    <3>1. Boundary(line) \in Snapshot
      BY <2>4, BoundaryType DEF Capture
    <3>2. \/ snapshots' = Append(snapshots, Boundary(line))
          \/ snapshots' = snapshots
      BY <2>4, CaptureCases
    <3>3. UNCHANGED <<line, affinity, out, inp, worker, client, observed>>
      BY <2>4 DEF Capture
    <3>4. pc' \in {"record", "restore"}
      BY <2>4, CaptureCases
    <3>5. snapshots' \in Seq(Snapshot)
      BY <3>1, <3>2
    <3>6. QED
      BY <3>3, <3>4, <3>5
  <2>5. CASE Record \/ Save
    BY <2>5 DEF Record, Save
  <2>6. CASE Acknowledge
    BY <2>6 DEF Acknowledge
  <2>7. CASE Qualify
    BY <2>7 DEF Qualify
  <2>8. CASE RestoreAffinity \/ ResetFailed
    BY <2>8 DEF RestoreAffinity, ResetFailed
  <2>9. CASE StopUnit
    BY <2>9 DEF StopUnit
  <2>10. CASE ClosePipes \/ Reap
    BY <2>10 DEF ClosePipes, Reap
  <2>11. QED
    BY <1>1, <2>1, <2>2, <2>3, <2>4, <2>5, <2>6, <2>7, <2>8, <2>9, <2>10
    DEF Controller
<1>2. CASE Interrupt
  BY <1>2 DEF Interrupt
<1>3. CASE Kill
  BY <1>3 DEF Kill
<1>4. CASE Worker
  <2>1. CASE DoWork
    <3>1. program[at] \in Work
      BY <2>1, StepType DEF DoWork
    <3>2. used' \in [Process -> Nat]
      BY <2>1, <3>1 DEF DoWork, Work
    <3>3. oomAt' \in Nat
      BY <2>1 DEF DoWork, CountOom
    <3>4. QED
      BY <2>1, <3>2, <3>3 DEF DoWork
  <2>2. CASE AnnouncePhase
    <3>1. program[at] \in Announce
      BY <2>2, StepType DEF AnnouncePhase
    <3>2. Boundary(program[at]) \in Snapshot
      BY <3>1, BoundaryType
    <3>3. QED
      BY <2>2, <3>1, <3>2 DEF AnnouncePhase
  <2>3. CASE Resume
    BY <2>3 DEF Resume
  <2>4. CASE ExitOk \/ ExitError \/ Disconnect
    BY <2>4 DEF ExitOk, ExitError, Disconnect
  <2>5. QED
    BY <1>4, <2>1, <2>2, <2>3, <2>4 DEF Worker
<1>5. CASE Systemd
  <2>1. CASE StartUnit \/ ClientReturns \/ ClientFails
    BY <2>1 DEF StartUnit, ClientReturns, ClientFails
  <2>2. CASE RuntimeLimit
    BY <2>2 DEF RuntimeLimit
  <2>3. CASE OomKill
    <3>1. oomAt' \in Nat
      BY <2>3 DEF OomKill, CountOom
    <3>2. QED
      BY <2>3, <3>1 DEF OomKill
  <2>4. QED
    BY <1>5, <2>1, <2>2, <2>3 DEF Systemd
<1>6. CASE UNCHANGED vars
  BY <1>6 DEF vars
<1>7. QED
  BY <1>1, <1>2, <1>3, <1>4, <1>5, <1>6 DEF Next

(* Type correctness: whatever the worker prints, whatever is interrupted   *)
(* or killed, the state of run_constrained and of its unit has its type.   *)
THEOREM TypeCorrect == Spec => []TypeOK
<1>1. Init => TypeOK
  <2> SUFFICES ASSUME Init
               PROVE  TypeOK
    OBVIOUS
  <2>1. ValueTypes
    BY DEF Init, ValueTypes, TryBody
  <2>2. Absent \in [verified : BOOLEAN, count : Nat, whole : BOOLEAN]
    BY DEF Absent
  <2>3. FlagTypes
    BY <2>2, Zenon DEF Init, FlagTypes
  <2>4. QED
    BY <2>1, <2>3 DEF TypeOK
<1>2. TypeOK /\ [Next]_vars => TypeOK'
  BY FlagsStep, ValuesStep DEF TypeOK
<1>3. QED
  BY <1>1, <1>2, PTL DEF Spec

-----------------------------------------------------------------------------
(***************************************************************************)
(* The inductive invariant, in named parts.  None of the safety properties *)
(* is inductive alone: that a snapshot is exact, for instance, rests on    *)
(* the handshake, which rests on the life of the unit and of its client.   *)
(***************************************************************************)
(* The worker may move on only when the controller has answered everything *)
(* it was told: an answer or a line under way, or a line being handled,    *)
(* each exclude the others and a worker that is not waiting.               *)
Free == unit # "gone" /\ ~waiting
Handling == pc \in {"capture", "record", "ack"}

Handshake ==
  /\ waiting => unit = "active" /\ Step("phase")
  /\ Free => inp = 0 /\ out = << >> /\ ~Handling /\ ~unflushed
             /\ Len(announced) = Len(snapshots)
  /\ inp \in {0, 1}
  /\ inp = 1 => out = << >> /\ ~Handling /\ Len(announced) = Len(snapshots)
  /\ Len(out) \in {0, 1}
  /\ out # << >> => ~Handling /\ Len(announced) = Len(snapshots) + 1
  /\ pc = "capture" => Len(announced) = Len(snapshots) + 1
  /\ pc \in {"record", "ack"} => Len(announced) = Len(snapshots)
  /\ unflushed => inp = 0 /\ out = << >> /\ pc \notin TryBody
                  /\ Len(announced) = Len(snapshots)

(* A line that was announced and not yet measured still tells the truth:   *)
(* the counters of its process are those it had at the boundary.           *)
Pending ==
  /\ out # << >> => announced[Len(announced)] = Boundary(out[1])
  /\ pc = "capture" => /\ announced[Len(announced)] = Boundary(line)
                       /\ InOrder(line)

(* The life of the unit and of its client.                                 *)
Lifecycle ==
  /\ client = "none" => unit = "absent"
  /\ pc \in {"pin", "spawn"} => client = "none"
  /\ unit = "absent" => announced = << >> /\ snapshots = << >>
  /\ client = "ok" => unit = "gone" /\ status = "ok"
  /\ pc = "read" /\ out = << >> => Len(announced) = Len(snapshots)
  /\ unit = "gone" => status # "none"
  /\ pc = "qualify" => /\ client \in {"ok", "failed"} /\ unit # "active"
                       /\ Len(announced) = Len(snapshots)

(* What has been measured so far is a prefix of what was expected.         *)
Prefix ==
  /\ Len(snapshots) <= Len(Expected)
  /\ \A k \in 1 .. Len(snapshots) :
       /\ snapshots[k].phase = Expected[k]
       /\ snapshots[k].of = snapshots[1].of
       /\ snapshots[k].of \in Confined

(* What the verdict rests on, and that it is never given twice.            *)
Verdict ==
  /\ verified => /\ client = "ok"
                 /\ Len(snapshots) = Len(Expected)
                 /\ Len(announced) = Len(snapshots)
                 /\ Monotone(snapshots)
                 /\ deltas = PhaseDeltas(snapshots)
                 /\ pc \notin TryBody
  /\ raised => pc \notin TryBody
  /\ pc \in Cleanup \cup {"returned"} /\ ~raised => verified
  /\ raised /\ verified => pc \in {"raised", "killed"}

(* No boundary is measured after the first OOM was counted.                *)
OomHistory ==
  oom => oomAt <= Len(announced) /\ Len(snapshots) <= oomAt

(* Work is done beside an unpinned controller only after the try block.    *)
Isolation ==
  /\ PinController /\ pc \in TryBody \ {"pin"} => affinity = "controller"
  /\ contended => pc \notin TryBody /\ ~verified

(* What the file holds at the points where it has just been written.       *)
Documents ==
  /\ disk.verified => verified /\ disk.count = Len(Expected)
  /\ pc = "reset" => disk = Document(verified, Len(snapshots))
  /\ pc = "returned" => verified /\ disk = Document(verified, Len(snapshots))

(* What each statement of the finally block has achieved.                  *)
Cleaned ==
  /\ pc \in {"stop", "close", "reap", "save", "reset", "returned", "raised"}
       => affinity = "original"
  /\ pc \in {"close", "reap", "save", "reset", "raised"} /\ ~StopMayFail
     /\ snapshots # << >> => unit = "gone"

IInv ==
  /\ SnapshotsAreExact
  /\ Handshake /\ Pending /\ Lifecycle /\ Prefix /\ Verdict
  /\ OomHistory /\ Isolation /\ Documents /\ Cleaned

(* What a successful capture takes: the boundary announced last, which is   *)
(* the next expected one, of the process measured so far.                  *)
LEMMA CaptureMore ==
  ASSUME TypeOK, IInv, Capture
  PROVE  \/ /\ snapshots' = Append(snapshots, Boundary(line))
            /\ Boundary(line) \in Snapshot
            /\ Boundary(line) = announced[Len(snapshots) + 1]
            /\ Len(announced) = Len(snapshots) + 1
            /\ Boundary(line).phase = Expected[Len(snapshots) + 1]
            /\ Len(snapshots) + 1 <= Len(Expected)
            /\ Boundary(line).of \in Confined
            /\ snapshots # << >> => Boundary(line).of = snapshots[1].of
            /\ ~oom
         \/ snapshots' = snapshots
<1>1. pc = "capture" /\ line \in Announce
  BY DEF Capture, TypeOK, ValueTypes
<1>2. /\ Boundary(line) \in Snapshot
      /\ Boundary(line).phase = line.name
      /\ Boundary(line).of = line.by
  BY <1>1 DEF Boundary, Announce, Snapshot, TypeOK, ValueTypes
<1>3. /\ Boundary(line) = announced[Len(snapshots) + 1]
      /\ Len(announced) = Len(snapshots) + 1
  BY <1>1 DEF IInv, Pending, Handshake
<1>4. /\ line.name = Expected[Len(snapshots) + 1]
      /\ Len(snapshots) + 1 <= Len(Expected)
  BY <1>1, Shape DEF IInv, Pending, InOrder, TypeOK, ValueTypes
<1>5. QED
  BY <1>2, <1>3, <1>4, CaptureCases DEF SameProcess

(* It extends the expected prefix by one boundary of the same process.     *)
LEMMA CapturePrefix ==
  ASSUME TypeOK, IInv, Capture
  PROVE  Prefix'
<1>1. CASE snapshots' = snapshots
  BY <1>1 DEF Prefix, IInv
<1>2. CASE snapshots' # snapshots
  <2> DEFINE n == Len(snapshots) + 1
  <2>1. /\ snapshots' = Append(snapshots, Boundary(line))
        /\ snapshots \in Seq(Snapshot)
    BY <1>2, CaptureMore DEF TypeOK, ValueTypes
  <2>2. n \in Nat \ {0} /\ Len(snapshots') = n /\ snapshots'[n] = Boundary(line)
        /\ \A k \in 1 .. Len(snapshots) : snapshots'[k] = snapshots[k]
    BY <2>1
  <2>3. \A k \in 1 .. n : /\ snapshots'[k].phase = Expected[k]
                          /\ snapshots'[k].of \in Confined
    BY <1>2, <2>1, <2>2, CaptureMore DEF IInv, Prefix
  <2>4. \A k \in 1 .. n : snapshots'[k].of = snapshots'[1].of
    <3>1. CASE snapshots = << >>
      BY <3>1, <2>2
    <3>2. CASE snapshots # << >>
      <4>1. Len(snapshots) # 0
        BY <3>2, <2>1
      <4>2. Boundary(line).of = snapshots[1].of /\ snapshots'[1] = snapshots[1]
        BY <4>1, <1>2, <3>2, <2>2, CaptureMore
      <4>3. QED
        BY <4>1, <4>2, <2>2 DEF IInv, Prefix
    <3>3. QED
      BY <3>1, <3>2
  <2>5. QED
    BY <1>2, <2>2, <2>3, <2>4, CaptureMore DEF Prefix
<1>3. QED
  BY <1>1, <1>2

(* It is what the worker announced.                                        *)
LEMMA CaptureExact ==
  ASSUME TypeOK, IInv, Capture
  PROVE  SnapshotsAreExact'
<1>1. UNCHANGED announced
  BY DEF Capture
<1>2. CASE snapshots' = snapshots
  BY <1>1, <1>2 DEF SnapshotsAreExact, IInv
<1>3. CASE snapshots' # snapshots
  <2> DEFINE n == Len(snapshots)
  <2>1. /\ snapshots' = Append(snapshots, announced[n + 1])
        /\ announced[n + 1] \in Snapshot /\ Len(announced) = n + 1
    BY <1>3, CaptureMore
  <2>2. /\ n \in Nat /\ Len(snapshots') = n + 1
        /\ snapshots'[n + 1] = announced[n + 1]
        /\ \A k \in 1 .. n : snapshots'[k] = snapshots[k]
    BY <2>1 DEF TypeOK, ValueTypes
  <2>3. QED
    BY <1>1, <2>1, <2>2 DEF SnapshotsAreExact, IInv
<1>4. QED
  BY <1>2, <1>3

(* It is taken only when no OOM was counted.                               *)
LEMMA CaptureOom ==
  ASSUME TypeOK, IInv, Capture
  PROVE  OomHistory'
<1>1. UNCHANGED <<announced, oom, oomAt>>
  BY DEF Capture
<1>2. CASE snapshots' = snapshots
  BY <1>1, <1>2 DEF OomHistory, IInv
<1>3. CASE snapshots' # snapshots
  <2>1. oom = FALSE /\ ~oom
    BY <1>3, CaptureMore, Zenon DEF TypeOK, FlagTypes
  <2>2. ~oom'
   BY <2>1, <1>1
  <2>3. QED
   BY <2>2 DEF OomHistory
<1>4. QED
  BY <1>2, <1>3

(* An OOM of the worker is dated by the boundary it last announced, which  *)
(* has been measured when it works on.                                     *)
LEMMA WorkOom ==
  ASSUME TypeOK, IInv, DoWork
  PROVE  OomHistory'
<1>1. Len(announced) = Len(snapshots) /\ UNCHANGED <<announced, snapshots>>
  BY DEF DoWork, IInv, Handshake, Running, Free, Step
<1>2. CASE oom' = oom /\ oomAt' = oomAt
  BY <1>1, <1>2 DEF OomHistory, IInv
<1>3. CASE CountOom /\ oom
  BY <1>1, <1>3 DEF OomHistory, IInv, CountOom
<1>4. CASE CountOom /\ ~oom
  <2>1. oomAt' = Len(announced)
    BY <1>4 DEF CountOom
  <2>2. QED
    BY <2>1, <1>1 DEF OomHistory, TypeOK, ValueTypes
<1>5. QED
  BY <1>2, <1>3, <1>4, Zenon DEF DoWork

(* A worker announces only when everything before it has been measured.    *)
LEMMA AnnounceExact ==
  ASSUME TypeOK, IInv, AnnouncePhase
  PROVE  SnapshotsAreExact'
<1> DEFINE n == Len(announced)
<1>1. n = Len(snapshots) /\ snapshots' = snapshots
  BY DEF AnnouncePhase, IInv, Handshake, Running, Free
<1>2. /\ n \in Nat /\ announced \in Seq(Snapshot)
      /\ announced' = Append(announced, Boundary(program[at]))
  BY DEF AnnouncePhase, TypeOK, ValueTypes
<1>3. Len(announced') = n + 1 /\ \A k \in 1 .. n : announced'[k] = announced[k]
  BY <1>2
<1>4. QED
  BY <1>1, <1>2, <1>3 DEF SnapshotsAreExact, IInv

(* Worker and controller never move on together.                           *)
LEMMA HandshakeStep == TypeOK /\ IInv /\ [Next]_vars => Handshake'
<1> SUFFICES ASSUME TypeOK, IInv, [Next]_vars
             PROVE  Handshake'
  OBVIOUS
<1> USE DEF TypeOK, ValueTypes, FlagTypes, IInv, TryBody, Cleanup, Finished,
            Lifecycle, Verdict, Handshake, Free, Handling, Running, Step
<1>1. CASE Pin
  BY <1>1 DEF Pin
<1>2. CASE Spawn
  BY <1>2 DEF Spawn
<1>3. CASE Interrupt
  BY <1>3 DEF Interrupt
<1>4. CASE Kill
  BY <1>4 DEF Kill
<1>5. CASE ReadPhase \/ ReadEof
  BY <1>5 DEF ReadPhase, ReadEof
<1>6. CASE Capture
  BY <1>6 DEF Capture
<1>7. CASE Record \/ Save
  BY <1>7 DEF Record, Save
<1>8. CASE RestoreAffinity \/ ResetFailed
  BY <1>8 DEF RestoreAffinity, ResetFailed
<1>9. CASE Acknowledge \/ ClosePipes \/ Reap
  BY <1>9 DEF Acknowledge, ClosePipes, Reap, StdinHasReader
<1>10. CASE Qualify
  BY <1>10 DEF Qualify
<1>11. CASE StopUnit
  BY <1>11 DEF StopUnit
<1>12. CASE DoWork
  BY <1>12 DEF DoWork
<1>13. CASE AnnouncePhase
  BY <1>13 DEF AnnouncePhase, PipesOpen
<1>14. CASE Resume
  BY <1>14 DEF Resume
<1>15. CASE ExitOk \/ ExitError \/ Disconnect
  BY <1>15 DEF ExitOk, ExitError, Disconnect, PipesOpen
<1>16. CASE StartUnit \/ ClientReturns \/ ClientFails
  BY <1>16 DEF StartUnit, ClientReturns, ClientFails
<1>17. CASE RuntimeLimit
  BY <1>17 DEF RuntimeLimit
<1>18. CASE OomKill
  BY <1>18 DEF OomKill
<1>19. CASE UNCHANGED vars
  BY <1>19 DEF vars
<1>20. QED
  BY <1>1, <1>2, <1>3, <1>4, <1>5, <1>6, <1>7, <1>8, <1>9, <1>10, <1>11, <1>12,
     <1>13, <1>14, <1>15, <1>16, <1>17, <1>18, <1>19
  DEF Next, Controller, Worker, Systemd

(* A line under way stays truthful until it is measured.                   *)
LEMMA PendingStep == TypeOK /\ IInv /\ [Next]_vars => Pending'
<1> SUFFICES ASSUME TypeOK, IInv, [Next]_vars
             PROVE  Pending'
  OBVIOUS
<1> USE DEF TypeOK, ValueTypes, FlagTypes, IInv, TryBody, Cleanup, Finished,
            Handshake, Pending, Boundary, InOrder, Free, Handling, Running
<1>1. CASE Pin
  BY <1>1 DEF Pin
<1>2. CASE Spawn
  BY <1>2 DEF Spawn
<1>3. CASE Interrupt
  BY <1>3 DEF Interrupt
<1>4. CASE Kill
  BY <1>4 DEF Kill
<1>5. CASE ReadPhase \/ ReadEof
  BY <1>5 DEF ReadPhase, ReadEof
<1>6. CASE Capture
  BY <1>6 DEF Capture
<1>7. CASE Record \/ Save
  BY <1>7 DEF Record, Save
<1>8. CASE RestoreAffinity \/ ResetFailed
  BY <1>8 DEF RestoreAffinity, ResetFailed
<1>9. CASE Acknowledge \/ ClosePipes \/ Reap
  BY <1>9 DEF Acknowledge, ClosePipes, Reap
<1>10. CASE Qualify
  BY <1>10 DEF Qualify
<1>11. CASE StopUnit
  BY <1>11 DEF StopUnit
<1>12. CASE DoWork
  BY <1>12 DEF DoWork
<1>13. CASE AnnouncePhase
  BY <1>13 DEF AnnouncePhase
<1>14. CASE Resume
  BY <1>14 DEF Resume
<1>15. CASE ExitOk \/ ExitError \/ Disconnect
  BY <1>15 DEF ExitOk, ExitError, Disconnect
<1>16. CASE StartUnit \/ ClientReturns \/ ClientFails
  BY <1>16 DEF StartUnit, ClientReturns, ClientFails
<1>17. CASE RuntimeLimit
  BY <1>17 DEF RuntimeLimit
<1>18. CASE OomKill
  BY <1>18 DEF OomKill
<1>19. CASE UNCHANGED vars
  BY <1>19 DEF vars
<1>20. QED
  BY <1>1, <1>2, <1>3, <1>4, <1>5, <1>6, <1>7, <1>8, <1>9, <1>10, <1>11, <1>12,
     <1>13, <1>14, <1>15, <1>16, <1>17, <1>18, <1>19
  DEF Next, Controller, Worker, Systemd

(* The unit and its client live as systemd-run makes them.                 *)
LEMMA LifecycleStep == TypeOK /\ IInv /\ [Next]_vars => Lifecycle'
<1> SUFFICES ASSUME TypeOK, IInv, [Next]_vars
             PROVE  Lifecycle'
  OBVIOUS
<1> USE DEF TypeOK, ValueTypes, FlagTypes, IInv, TryBody, Cleanup, Finished,
            Lifecycle, Handshake, Free, Running, Step
<1>1. CASE Pin
  BY <1>1 DEF Pin
<1>2. CASE Spawn
  BY <1>2 DEF Spawn
<1>3. CASE Interrupt
  BY <1>3 DEF Interrupt
<1>4. CASE Kill
  BY <1>4 DEF Kill
<1>5. CASE ReadPhase \/ ReadEof
  BY <1>5 DEF ReadPhase, ReadEof
<1>6. CASE Capture
  BY <1>6 DEF Capture
<1>7. CASE Record \/ Save
  BY <1>7 DEF Record, Save
<1>8. CASE RestoreAffinity \/ ResetFailed
  BY <1>8 DEF RestoreAffinity, ResetFailed
<1>9. CASE Acknowledge \/ ClosePipes \/ Reap
  BY <1>9 DEF Acknowledge, ClosePipes, Reap
<1>10. CASE Qualify
  BY <1>10 DEF Qualify
<1>11. CASE StopUnit
  BY <1>11 DEF StopUnit, Stoppable
<1>12. CASE DoWork
  BY <1>12 DEF DoWork
<1>13. CASE AnnouncePhase
  BY <1>13 DEF AnnouncePhase, PipesOpen
<1>14. CASE Resume
  BY <1>14 DEF Resume
<1>15. CASE ExitOk \/ ExitError \/ Disconnect
  BY <1>15 DEF ExitOk, ExitError, Disconnect, PipesOpen
<1>16. CASE StartUnit \/ ClientReturns \/ ClientFails
  BY <1>16 DEF StartUnit, ClientReturns, ClientFails
<1>17. CASE RuntimeLimit
  BY <1>17 DEF RuntimeLimit
<1>18. CASE OomKill
  BY <1>18 DEF OomKill
<1>19. CASE UNCHANGED vars
  BY <1>19 DEF vars
<1>20. QED
  BY <1>1, <1>2, <1>3, <1>4, <1>5, <1>6, <1>7, <1>8, <1>9, <1>10, <1>11, <1>12,
     <1>13, <1>14, <1>15, <1>16, <1>17, <1>18, <1>19
  DEF Next, Controller, Worker, Systemd

(* The verdict is given once, and on what was checked.                     *)
LEMMA VerdictStep == TypeOK /\ IInv /\ [Next]_vars => Verdict'
<1> SUFFICES ASSUME TypeOK, IInv, [Next]_vars
             PROVE  Verdict'
  OBVIOUS
<1> USE DEF TypeOK, ValueTypes, FlagTypes, IInv, TryBody, Cleanup, Finished,
            Lifecycle, Verdict, Running
<1>1. CASE Pin
  BY <1>1 DEF Pin
<1>2. CASE Spawn
  BY <1>2 DEF Spawn
<1>3. CASE Interrupt
  BY <1>3 DEF Interrupt
<1>4. CASE Kill
  BY <1>4 DEF Kill
<1>5. CASE ReadPhase \/ ReadEof
  BY <1>5 DEF ReadPhase, ReadEof
<1>6. CASE Capture
  BY <1>6 DEF Capture
<1>7. CASE Record \/ Save
  BY <1>7 DEF Record, Save
<1>8. CASE RestoreAffinity \/ ResetFailed
  BY <1>8 DEF RestoreAffinity, ResetFailed
<1>9. CASE Acknowledge \/ ClosePipes \/ Reap
  BY <1>9 DEF Acknowledge, ClosePipes, Reap
<1>10. CASE Qualify
  BY <1>10 DEF Qualify, Complete, Monotone, PhaseDeltas
<1>11. CASE StopUnit
  BY <1>11 DEF StopUnit
<1>12. CASE DoWork
  BY <1>12 DEF DoWork
<1>13. CASE AnnouncePhase
  BY <1>13 DEF AnnouncePhase
<1>14. CASE Resume
  BY <1>14 DEF Resume
<1>15. CASE ExitOk \/ ExitError \/ Disconnect
  BY <1>15 DEF ExitOk, ExitError, Disconnect
<1>16. CASE StartUnit \/ ClientReturns \/ ClientFails
  BY <1>16 DEF StartUnit, ClientReturns, ClientFails
<1>17. CASE RuntimeLimit
  BY <1>17 DEF RuntimeLimit
<1>18. CASE OomKill
  BY <1>18 DEF OomKill
<1>19. CASE UNCHANGED vars
  BY <1>19 DEF vars
<1>20. QED
  BY <1>1, <1>2, <1>3, <1>4, <1>5, <1>6, <1>7, <1>8, <1>9, <1>10, <1>11, <1>12,
     <1>13, <1>14, <1>15, <1>16, <1>17, <1>18, <1>19
  DEF Next, Controller, Worker, Systemd

(* No work goes on beside an unpinned controller.                          *)
LEMMA IsolationStep == TypeOK /\ IInv /\ [Next]_vars => Isolation'
<1> SUFFICES ASSUME TypeOK, IInv, [Next]_vars
             PROVE  Isolation'
  OBVIOUS
<1> USE DEF TypeOK, ValueTypes, FlagTypes, IInv, TryBody, Cleanup, Finished,
            Lifecycle, Verdict, Isolation, Running
<1>1. CASE Pin
  BY <1>1 DEF Pin, PinnedAffinity
<1>2. CASE Spawn
  BY <1>2 DEF Spawn
<1>3. CASE Interrupt
  BY <1>3 DEF Interrupt
<1>4. CASE Kill
  BY <1>4 DEF Kill
<1>5. CASE ReadPhase \/ ReadEof
  BY <1>5 DEF ReadPhase, ReadEof
<1>6. CASE Capture
  BY <1>6 DEF Capture
<1>7. CASE Record \/ Save
  BY <1>7 DEF Record, Save
<1>8. CASE RestoreAffinity \/ ResetFailed
  BY <1>8 DEF RestoreAffinity, ResetFailed
<1>9. CASE Acknowledge \/ ClosePipes \/ Reap
  BY <1>9 DEF Acknowledge, ClosePipes, Reap
<1>10. CASE Qualify
  BY <1>10 DEF Qualify
<1>11. CASE StopUnit
  BY <1>11 DEF StopUnit
<1>12. CASE DoWork
  BY <1>12 DEF DoWork
<1>13. CASE AnnouncePhase
  BY <1>13 DEF AnnouncePhase
<1>14. CASE Resume
  BY <1>14 DEF Resume
<1>15. CASE ExitOk \/ ExitError \/ Disconnect
  BY <1>15 DEF ExitOk, ExitError, Disconnect
<1>16. CASE StartUnit \/ ClientReturns \/ ClientFails
  BY <1>16 DEF StartUnit, ClientReturns, ClientFails
<1>17. CASE RuntimeLimit
  BY <1>17 DEF RuntimeLimit
<1>18. CASE OomKill
  BY <1>18 DEF OomKill
<1>19. CASE UNCHANGED vars
  BY <1>19 DEF vars
<1>20. QED
  BY <1>1, <1>2, <1>3, <1>4, <1>5, <1>6, <1>7, <1>8, <1>9, <1>10, <1>11, <1>12,
     <1>13, <1>14, <1>15, <1>16, <1>17, <1>18, <1>19
  DEF Next, Controller, Worker, Systemd

(* The file on disk follows the verdict.                                   *)
LEMMA DocumentsStep == TypeOK /\ IInv /\ [Next]_vars => Documents'
<1> SUFFICES ASSUME TypeOK, IInv, [Next]_vars
             PROVE  Documents'
  OBVIOUS
<1> USE DEF TypeOK, ValueTypes, FlagTypes, IInv, TryBody, Cleanup, Finished,
            Verdict, Documents, Document
<1>1. CASE Pin
  BY <1>1 DEF Pin
<1>2. CASE Spawn
  BY <1>2 DEF Spawn
<1>3. CASE Interrupt
  BY <1>3 DEF Interrupt
<1>4. CASE Kill
  BY <1>4 DEF Kill, Absent
<1>5. CASE ReadPhase \/ ReadEof
  BY <1>5 DEF ReadPhase, ReadEof
<1>6. CASE Capture
  BY <1>6 DEF Capture
<1>7. CASE Record \/ Save
  BY <1>7 DEF Record, Save
<1>8. CASE RestoreAffinity \/ ResetFailed
  BY <1>8 DEF RestoreAffinity, ResetFailed
<1>9. CASE Acknowledge \/ ClosePipes \/ Reap
  BY <1>9 DEF Acknowledge, ClosePipes, Reap
<1>10. CASE Qualify
  BY <1>10 DEF Qualify
<1>11. CASE StopUnit
  BY <1>11 DEF StopUnit
<1>12. CASE DoWork
  BY <1>12 DEF DoWork
<1>13. CASE AnnouncePhase
  BY <1>13 DEF AnnouncePhase
<1>14. CASE Resume
  BY <1>14 DEF Resume
<1>15. CASE ExitOk \/ ExitError \/ Disconnect
  BY <1>15 DEF ExitOk, ExitError, Disconnect
<1>16. CASE StartUnit \/ ClientReturns \/ ClientFails
  BY <1>16 DEF StartUnit, ClientReturns, ClientFails
<1>17. CASE RuntimeLimit
  BY <1>17 DEF RuntimeLimit
<1>18. CASE OomKill
  BY <1>18 DEF OomKill
<1>19. CASE UNCHANGED vars
  BY <1>19 DEF vars
<1>20. QED
  BY <1>1, <1>2, <1>3, <1>4, <1>5, <1>6, <1>7, <1>8, <1>9, <1>10, <1>11, <1>12,
     <1>13, <1>14, <1>15, <1>16, <1>17, <1>18, <1>19
  DEF Next, Controller, Worker, Systemd

(* The finally block undoes what the try block did.                        *)
LEMMA CleanedStep == TypeOK /\ IInv /\ [Next]_vars => Cleaned'
<1> SUFFICES ASSUME TypeOK, IInv, [Next]_vars
             PROVE  Cleaned'
  OBVIOUS
<1> USE DEF TypeOK, ValueTypes, FlagTypes, IInv, TryBody, Cleanup, Finished,
            Lifecycle, Cleaned
<1>1. CASE Pin
  BY <1>1 DEF Pin
<1>2. CASE Spawn
  BY <1>2 DEF Spawn
<1>3. CASE Interrupt
  BY <1>3 DEF Interrupt
<1>4. CASE Kill
  BY <1>4 DEF Kill
<1>5. CASE ReadPhase \/ ReadEof
  BY <1>5 DEF ReadPhase, ReadEof
<1>6. CASE Capture
  BY <1>6 DEF Capture
<1>7. CASE Record \/ Save
  BY <1>7 DEF Record, Save
<1>8. CASE RestoreAffinity \/ ResetFailed
  BY <1>8 DEF RestoreAffinity, ResetFailed
<1>9. CASE Acknowledge \/ ClosePipes \/ Reap
  BY <1>9 DEF Acknowledge, ClosePipes, Reap
<1>10. CASE Qualify
  BY <1>10 DEF Qualify
<1>11. CASE StopUnit
  BY <1>11 DEF StopUnit, Stoppable
<1>12. CASE DoWork
  BY <1>12 DEF DoWork
<1>13. CASE AnnouncePhase
  BY <1>13 DEF AnnouncePhase
<1>14. CASE Resume
  BY <1>14 DEF Resume
<1>15. CASE ExitOk \/ ExitError \/ Disconnect
  BY <1>15 DEF ExitOk, ExitError, Disconnect
<1>16. CASE StartUnit \/ ClientReturns \/ ClientFails
  BY <1>16 DEF StartUnit, ClientReturns, ClientFails
<1>17. CASE RuntimeLimit
  BY <1>17 DEF RuntimeLimit
<1>18. CASE OomKill
  BY <1>18 DEF OomKill
<1>19. CASE UNCHANGED vars
  BY <1>19 DEF vars
<1>20. QED
  BY <1>1, <1>2, <1>3, <1>4, <1>5, <1>6, <1>7, <1>8, <1>9, <1>10, <1>11, <1>12,
     <1>13, <1>14, <1>15, <1>16, <1>17, <1>18, <1>19
  DEF Next, Controller, Worker, Systemd

(* The variables the invariant is about have few writers.                  *)
LEMMA OnlyCapture == ASSUME [Next]_vars, ~Capture
                     PROVE  UNCHANGED snapshots
BY Zenon DEF Next, Controller, Worker, Systemd, vars, Pin, Spawn, ReadPhase,
   ReadEof, Record, Acknowledge, Qualify, RestoreAffinity, StopUnit, ClosePipes,
   Reap, Save, ResetFailed, Interrupt, Kill, DoWork, AnnouncePhase, Resume,
   ExitOk, ExitError, Disconnect, StartUnit, RuntimeLimit, OomKill,
   ClientReturns, ClientFails

LEMMA OnlyAnnounce == ASSUME [Next]_vars, ~AnnouncePhase
                      PROVE  UNCHANGED announced
BY Zenon DEF Next, Controller, Worker, Systemd, vars, Pin, Spawn, ReadPhase,
   ReadEof, Capture, Record, Acknowledge, Qualify, RestoreAffinity, StopUnit,
   ClosePipes, Reap, Save, ResetFailed, Interrupt, Kill, DoWork, Resume,
   ExitOk, ExitError, Disconnect, StartUnit, RuntimeLimit, OomKill,
   ClientReturns, ClientFails

LEMMA OnlyCountOom == ASSUME [Next]_vars, ~DoWork, ~OomKill
                      PROVE  UNCHANGED <<oom, oomAt>>
BY Zenon DEF Next, Controller, Worker, Systemd, vars, Pin, Spawn, ReadPhase,
   ReadEof, Capture, Record, Acknowledge, Qualify, RestoreAffinity, StopUnit,
   ClosePipes, Reap, Save, ResetFailed, Interrupt, Kill, AnnouncePhase, Resume,
   ExitOk, ExitError, Disconnect, StartUnit, RuntimeLimit, ClientReturns,
   ClientFails

(* A measurement extends the expected prefix.                              *)
LEMMA PrefixStep == TypeOK /\ IInv /\ [Next]_vars => Prefix'
<1>1. ASSUME [Next]_vars, IInv, ~Capture
      PROVE  Prefix'
  BY <1>1, OnlyCapture DEF Prefix, IInv
<1>2. QED
  BY <1>1, CapturePrefix

(* A measurement equals what the worker announced.                         *)
LEMMA ExactStep == TypeOK /\ IInv /\ [Next]_vars => SnapshotsAreExact'
<1>1. ASSUME [Next]_vars, IInv, ~Capture, ~AnnouncePhase
      PROVE  SnapshotsAreExact'
  BY <1>1, OnlyCapture, OnlyAnnounce DEF SnapshotsAreExact, IInv
<1>2. QED
  BY <1>1, CaptureExact, AnnounceExact

(* An OOM is dated no earlier than the last measurement.                   *)
LEMMA OomStep == TypeOK /\ IInv /\ [Next]_vars => OomHistory'
<1>1. ASSUME [Next]_vars, IInv, ~Capture, ~AnnouncePhase, ~DoWork, ~OomKill
      PROVE  OomHistory'
  BY <1>1, OnlyCapture, OnlyAnnounce, OnlyCountOom DEF OomHistory, IInv
<1>2. ASSUME TypeOK, IInv, AnnouncePhase
      PROVE  OomHistory'
  BY <1>2 DEF AnnouncePhase, OomHistory, IInv, TypeOK, ValueTypes
<1>3. ASSUME TypeOK, IInv, OomKill
      PROVE  OomHistory'
  BY <1>3 DEF OomKill, CountOom, OomHistory, SnapshotsAreExact, IInv, TypeOK,
     ValueTypes
<1>4. QED
  BY <1>1, <1>2, <1>3, CaptureOom, WorkOom

(* The invariant holds initially.                                          *)
LEMMA InvariantInit == Init => IInv
<1> SUFFICES ASSUME Init
             PROVE  IInv
  OBVIOUS
<1> USE DEF Init, TryBody, Cleanup
<1>1. Len(Expected) \in Nat
  BY Shape
<1>2. Handshake /\ Pending /\ Lifecycle /\ OomHistory
  BY DEF Handshake, Pending, Lifecycle, OomHistory, Handling
<1>3. Prefix /\ SnapshotsAreExact
  BY <1>1 DEF Prefix, SnapshotsAreExact
<1>4. Verdict /\ Isolation /\ Documents /\ Cleaned
  BY Zenon DEF Verdict, Isolation, Documents, Cleaned, Absent
<1>5. QED
  BY <1>2, <1>3, <1>4 DEF IInv

(* The inductive invariant holds in every state of run_constrained, of its *)
(* worker and of its unit.                                                 *)
THEOREM Invariant == Spec => [](TypeOK /\ IInv)
<1>1. TypeOK /\ IInv /\ [Next]_vars => IInv'
  BY HandshakeStep, PendingStep, LifecycleStep, VerdictStep, IsolationStep,
     DocumentsStep, CleanedStep, PrefixStep, ExactStep, OomStep DEF IInv
<1>2. QED
  BY <1>1, InvariantInit, TypeCorrect, PTL DEF Spec
-----------------------------------------------------------------------------
(***************************************************************************)
(* What the parts of the invariant add up to.                              *)
(***************************************************************************)
(* run_constrained never measures a worker that runs on: each snapshot is  *)
(* what the worker had consumed at that boundary.                          *)
THEOREM Exact == Spec => []SnapshotsAreExact
<1>1. IInv => SnapshotsAreExact
  BY DEF IInv
<1>2. QED
  BY <1>1, Invariant, PTL

(* A verified result rests on a complete, ordered, exact measurement of    *)
(* one confined process that exited with 0 and shared no CPU with the      *)
(* controller.                                                             *)
THEOREM VerdictIsEarned == Spec => []VerifiedMeansMeasured
<1>1. ASSUME TypeOK, IInv, verified
      PROVE  /\ status = "ok"
             /\ snapshots = announced
             /\ Len(snapshots) = Len(Expected)
             /\ \A k \in 1 .. Len(snapshots) :
                  /\ snapshots[k].phase = Expected[k]
                  /\ snapshots[k].of = snapshots[1].of
                  /\ snapshots[k].of \in Confined
             /\ \A i \in Intervals :
                  announced[i[1]].used + deltas[i] = announced[i[2]].used
  <2>1. /\ client = "ok" /\ Len(snapshots) = Len(Expected)
        /\ Len(announced) = Len(snapshots)
        /\ Monotone(snapshots) /\ deltas = PhaseDeltas(snapshots)
    BY <1>1 DEF IInv, Verdict
  <2>2. status = "ok"
    BY <1>1, <2>1 DEF IInv, Lifecycle
  <2>3. snapshots \in Seq(Snapshot) /\ announced \in Seq(Snapshot)
    BY <1>1 DEF TypeOK, ValueTypes
  <2>4. snapshots = announced
    BY <1>1, <2>1, <2>3 DEF IInv, SnapshotsAreExact
  <2>5. ASSUME NEW i \in Intervals
        PROVE  announced[i[1]].used + deltas[i] = announced[i[2]].used
    <3>1. /\ i[1] \in 1 .. Len(snapshots) /\ i[2] \in 1 .. Len(snapshots)
      BY <2>1, <2>5, Shape
    <3>2. snapshots[i[1]].used \in Nat /\ snapshots[i[2]].used \in Nat
      <4>1. snapshots[i[1]] \in Snapshot /\ snapshots[i[2]] \in Snapshot
        BY <2>3, <3>1
      <4>2. QED
        BY <4>1 DEF Snapshot
    <3>3. deltas[i] = snapshots[i[2]].used - snapshots[i[1]].used
      BY <2>1, <2>5 DEF PhaseDeltas
    <3>4. QED
      BY <2>4, <3>2, <3>3
  <2>6. QED
    BY <1>1, <2>1, <2>2, <2>4, <2>5 DEF IInv, Prefix
<1>2. IInv => (verified /\ PinController => ~contended)
  BY Zenon DEF IInv, Isolation
<1>3. TypeOK /\ IInv => VerifiedMeansMeasured
  BY <1>1, <1>2 DEF VerifiedMeansMeasured, TypeOK, FlagTypes
<1>4. QED
  BY <1>3, Invariant, PTL

(* An OOM that was counted before the last boundary disqualifies the run.  *)
THEOREM OomDisqualifies == Spec => []NoOomWhileMeasured
<1>1. TypeOK /\ IInv => NoOomWhileMeasured
  BY DEF NoOomWhileMeasured, IInv, Verdict, OomHistory, TypeOK, FlagTypes,
         ValueTypes
<1>2. QED
  BY <1>1, Invariant, PTL

(* constraints.json never claims what the verdict does not.                *)
THEOREM DiskIsTruthful == Spec => []DiskMatchesOutcome
<1>1. ASSUME TypeOK, IInv
      PROVE  DiskMatchesOutcome
  <2>1. disk.verified => verified /\ disk.count = Len(Expected)
    BY <1>1 DEF IInv, Documents
  <2>2. ASSUME pc = "returned"
        PROVE  disk = Document(TRUE, Len(Expected))
    <3>1. verified /\ verified \in BOOLEAN
          /\ disk = Document(verified, Len(snapshots))
          /\ Len(snapshots) = Len(Expected)
      BY <1>1, <2>2 DEF IInv, Documents, Verdict, TypeOK, FlagTypes
    <3>2. QED
      BY <3>1 DEF Document
  <2>3. QED
    BY <2>1, <2>2, Zenon DEF DiskMatchesOutcome
<1>2. QED
  BY <1>1, Invariant, PTL

(* The calling thread gets its affinity back, and no measured unit is left *)
(* behind when systemctl stop works.                                       *)
THEOREM CleansUp == Spec => []NothingLeftBehind
<1>1. ASSUME TypeOK, IInv
      PROVE  NothingLeftBehind
  <2>1. pc = "returned" => unit = "gone"
    BY <1>1 DEF IInv, Documents, Verdict, Lifecycle
  <2>2. pc = "raised" /\ ~StopMayFail /\ snapshots # << >> => unit = "gone"
    BY <1>1 DEF IInv, Cleaned
  <2>3. pc \in {"returned", "raised"} => affinity = "original"
    BY <1>1 DEF IInv, Cleaned
  <2>4. QED
    BY <2>1, <2>2, <2>3, Zenon DEF NothingLeftBehind
<1>2. QED
  BY <1>1, Invariant, PTL

(* While a phase line is being handled no step moves a counter.            *)
THEOREM BarrierHolds == Spec => NoWorkDuringCapture
<1>1. TypeOK /\ IInv /\ [Next]_vars
        => [(pc \in {"capture", "record", "ack"}) => UNCHANGED used]_vars
  <2> SUFFICES ASSUME TypeOK, IInv, [Next]_vars,
                      pc \in {"capture", "record", "ack"}
               PROVE  UNCHANGED used
    OBVIOUS
  <2>1. ~DoWork
    BY DEF DoWork, Running, IInv, Handshake, Free, Handling
  <2>2. CASE Controller
    BY <2>2 DEF Controller, Pin, Spawn, ReadPhase, ReadEof, Capture, Record,
       Acknowledge, Qualify, RestoreAffinity, StopUnit, ClosePipes, Reap, Save,
       ResetFailed
  <2>3. CASE Interrupt \/ Kill \/ UNCHANGED vars
    BY <2>3 DEF Interrupt, Kill, vars
  <2>4. CASE Worker
    BY <2>1, <2>4 DEF Worker, AnnouncePhase, Resume, ExitOk, ExitError,
       Disconnect
  <2>5. CASE Systemd
    BY <2>5 DEF Systemd, StartUnit, RuntimeLimit, OomKill, ClientReturns,
       ClientFails
  <2>6. QED
    BY <2>2, <2>3, <2>4, <2>5 DEF Next
<1>2. QED
  BY <1>1, Invariant, PTL DEF Spec, NoWorkDuringCapture
-----------------------------------------------------------------------------
(***************************************************************************)
(* The barrier implements MeasuredRun.                                     *)
(***************************************************************************)
Judgement == IF verified THEN "qualified"
             ELSE IF raised THEN "rejected" ELSE "pending"

(* A step that leaves the judgement and both counts alone is a stutter.    *)
LEMMA Stutters ==
  ASSUME UNCHANGED <<announced, snapshots, verified, raised>>
  PROVE  UNCHANGED M!mvars
BY DEF M!mvars

(* An exception on the way out of the try block is a rejection.            *)
LEMMA Rejects ==
  ASSUME TypeOK, IInv, pc \in TryBody, raised' = TRUE,
         UNCHANGED <<announced, snapshots, verified>>
  PROVE  M!Reject
<1>1. ~verified /\ ~raised
  BY Zenon DEF IInv, Verdict
<1>2. QED
  BY <1>1, Zenon DEF M!Reject

(* Whatever happens, the abstract run sees one of its own steps.           *)
LEMMA StepSimulation == TypeOK /\ IInv /\ [Next]_vars => [M!Next]_(M!mvars)
<1> SUFFICES ASSUME TypeOK, IInv, [Next]_vars
             PROVE  M!Next \/ UNCHANGED M!mvars
  BY DEF M!mvars
<1>1. CASE Pin \/ ReadEof \/ Record \/ RestoreAffinity \/ StopUnit \/ Save
           \/ ResetFailed \/ Kill
  BY <1>1, Stutters, Zenon
  DEF Pin, ReadEof, Record, RestoreAffinity, StopUnit, Save, ResetFailed, Kill
<1>2. CASE Spawn \/ ReadPhase \/ Acknowledge \/ Interrupt
  <2>1. pc \in TryBody /\ UNCHANGED <<announced, snapshots, verified>>
    BY <1>2, Zenon DEF Spawn, ReadPhase, Acknowledge, Interrupt, TryBody
  <2>2. UNCHANGED raised \/ raised' = TRUE
    BY <1>2, Zenon DEF Spawn, ReadPhase, Acknowledge, Interrupt
  <2>3. QED
    BY <2>1, <2>2, Stutters, Rejects, Zenon DEF M!Next
<1>3. CASE Capture
  <2>1. pc \in TryBody /\ UNCHANGED <<announced, verified>>
    BY <1>3, Zenon DEF Capture, TryBody
  <2>2. CASE snapshots' = snapshots
    <3>1. UNCHANGED raised \/ raised' = TRUE
      BY <1>3, CaptureCases, Zenon
    <3>2. QED
      BY <2>1, <2>2, <3>1, Stutters, Rejects, Zenon DEF M!Next
  <2>3. CASE snapshots' # snapshots
    <3>1. /\ Len(snapshots') = Len(snapshots) + 1
          /\ Len(snapshots) \in Nat
          /\ Len(snapshots) + 1 <= Len(Expected)
          /\ Len(announced) = Len(snapshots) + 1
      BY <1>3, <2>3, CaptureMore DEF TypeOK, ValueTypes
    <3>2. ~verified /\ ~raised
      BY <2>1, Zenon DEF IInv, Verdict
    <3>3. raised' = raised
      BY <1>3, <2>3, CaptureCases, Zenon
    <3>4. Len(snapshots) < Len(Expected) /\ Len(snapshots) < Len(announced)
      BY <3>1, Shape
    <3>5. M!Measure
      BY <2>1, <3>1, <3>2, <3>3, <3>4, Zenon DEF M!Measure
    <3>6. QED
      BY <3>5 DEF M!Next
  <2>4. QED
    BY <2>2, <2>3
<1>4. CASE Qualify
  <2>1. pc \in TryBody /\ UNCHANGED <<announced, snapshots>>
    BY <1>4, Zenon DEF Qualify, TryBody
  <2>2. ~verified /\ ~raised
    BY <2>1, Zenon DEF IInv, Verdict
  <2>3. CASE Complete
    <3>1. Len(snapshots) = Len(Expected) /\ Len(announced) = Len(snapshots)
      BY <1>4, <2>3 DEF Qualify, Complete, IInv, Lifecycle
    <3>2. verified' = TRUE
      BY <1>4, <2>3, Zenon DEF Qualify
    <3>3. M!Qualify
      BY <2>1, <2>2, <3>1, <3>2, Zenon DEF M!Qualify
    <3>4. QED
      BY <3>3 DEF M!Next
  <2>4. CASE ~Complete
    <3>1. raised' = TRUE /\ UNCHANGED verified
      BY <1>4, <2>4, Zenon DEF Qualify
    <3>2. QED
      BY <2>1, <3>1, Rejects, Zenon DEF M!Next
  <2>5. QED
    BY <2>3, <2>4
<1>5. CASE ClosePipes \/ Reap
  <2>1. UNCHANGED <<announced, snapshots, verified>>
    BY <1>5, Zenon DEF ClosePipes, Reap
  <2>2. raised \/ verified
    BY <1>5, Zenon DEF ClosePipes, Reap, IInv, Verdict, Cleanup
  <2>3. UNCHANGED raised \/ raised' = TRUE
    BY <1>5, Zenon DEF ClosePipes, Reap
  <2>4. QED
    BY <2>1, <2>2, <2>3, Zenon DEF M!mvars
<1>6. CASE AnnouncePhase
  <2>1. /\ Len(announced') = Len(announced) + 1
        /\ Len(announced) = Len(snapshots)
    BY <1>6 DEF AnnouncePhase, TypeOK, ValueTypes, IInv, Handshake, Running,
       Free
  <2>2. ~verified
    BY <1>6 DEF AnnouncePhase, Running, IInv, Verdict, Lifecycle
  <2>3. UNCHANGED <<snapshots, verified, raised>>
    BY <1>6, Zenon DEF AnnouncePhase
  <2>4. M!Arrive
    BY <2>1, <2>2, <2>3, Zenon DEF M!Arrive
  <2>5. QED
    BY <2>4 DEF M!Next
<1>7. CASE DoWork \/ Resume \/ ExitOk \/ ExitError \/ Disconnect \/ Systemd
  BY <1>7, Stutters, Zenon
  DEF DoWork, Resume, ExitOk, ExitError, Disconnect, Systemd, StartUnit,
      RuntimeLimit, OomKill, ClientReturns, ClientFails
<1>8. CASE UNCHANGED vars
  BY <1>8, Stutters, Zenon DEF vars
<1>9. QED
  BY <1>1, <1>2, <1>3, <1>4, <1>5, <1>6, <1>7, <1>8, Zenon
  DEF Next, Controller, Worker

(* Pipes, signals, kills and time limits included, run_constrained and its *)
(* worker do what MeasuredRun promises.                                    *)
THEOREM Implements == Spec => ImplementsMeasuredRun
<1>1. Init => M!Init
  BY DEF Init, M!Init
<1>2. QED
  BY <1>1, StepSimulation, Invariant, PTL
  DEF Spec, ImplementsMeasuredRun, M!Spec
====
