------------------------ MODULE ProcessManagerProofs ------------------------
(* Nothing in a command's process group outlives its supervision, for any    *)
(* number of commands and stop calls and any limits of the output.          *)
EXTENDS ProcessManager, TLAPS

(* The part of the state that supervision is about.                         *)
groupVars == <<entries, sup, verdict, status, shell, kids, down>>

GroupTypes ==
    /\ sup \in [Procs -> {"none", "select", "cleanup", "terminate", "reap", "stdout",
                          "stderr", "publish", "retain", "gone"}]
    /\ verdict \in [Procs -> Statuses] /\ status \in [Procs -> Statuses]
    /\ shell \in [Procs -> {"none", "alive", "dead", "seen"}]
    /\ kids \in [Procs -> SUBSET {"inside", "outside"}]

(* A supervisor that has not sent SIGKILL yet is the only one with a live    *)
(* group, and a process whose guard is armed is retained and running.       *)
GroupInv ==
    \A p \in Procs :
        /\ sup[p] = "none" => shell[p] = "none" /\ kids[p] = {} /\ status[p] = "running"
        /\ GroupAlive(p) => sup[p] \in {"select", "cleanup", "terminate"}
        /\ Armed(p) => p \in entries /\ status[p] = "running"

IInv == GroupTypes /\ GroupInv

(* The actions of output, polls, stop calls, leases and time leave all of it *)
(* alone.                                                                   *)
LEMMA Frame ==
    ASSUME \/ \E p \in Procs : \/ LoseAuthority(p) \/ TimePasses(p) \/ Poll(p)
                               \/ \E s \in Streams : Write(p, s) \/ ReaderStep(p, s)
                               \/ \E c \in Stops : StopLookup(c, p)
           \/ \E c \in Stops : StopCall(c)
           \/ UNCHANGED vars
    PROVE  UNCHANGED groupVars
<1> USE DEF groupVars, supVars, osVars
<1>1. ASSUME NEW p \in Procs, LoseAuthority(p) \/ TimePasses(p) \/ Poll(p) PROVE UNCHANGED groupVars
  BY <1>1 DEF LoseAuthority, TimePasses, Poll
<1>2. ASSUME NEW p \in Procs, NEW s \in Streams, Write(p, s) PROVE UNCHANGED groupVars
  BY <1>2 DEF Write, OsStep
<1>3. ASSUME NEW p \in Procs, NEW s \in Streams, ReaderStep(p, s) PROVE UNCHANGED groupVars
  BY <1>3 DEF ReaderStep, Read, ReadEnds
<1>4. ASSUME NEW p \in Procs, NEW c \in Stops, StopLookup(c, p) PROVE UNCHANGED groupVars
  BY <1>4 DEF StopLookup, StopUnchanged
<1>5. ASSUME NEW c \in Stops, StopCall(c) PROVE UNCHANGED groupVars
  BY <1>5 DEF StopCall, StopSend, StopReturn, StopUnchanged
<1>6. CASE UNCHANGED vars
  BY <1>6 DEF vars
<1> QED
  BY <1>1, <1>2, <1>3, <1>4, <1>5, <1>6

(* A step that leaves it alone keeps the invariant.                          *)
LEMMA FrameKeeps == IInv /\ UNCHANGED groupVars => IInv'
  BY DEF IInv, GroupTypes, GroupInv, GroupAlive, Armed, groupVars

(* What the operating system does: a group that is dead stays dead.         *)
LEMMA OsKeeps ==
    ASSUME IInv, NEW p \in Procs,
           \/ Fork(p) \/ ShellExit(p) \/ Notice(p)
           \/ \E k \in {"inside", "outside"} : KidsExit(p, k)
    PROVE  IInv'
<1> USE DEF IInv, GroupTypes, GroupInv, GroupAlive, Armed, OsStep, supVars
<1>1. CASE Fork(p)
  BY <1>1 DEF Fork
<1>2. CASE ShellExit(p)
  BY <1>2 DEF ShellExit
<1>3. CASE Notice(p)
  BY <1>3 DEF Notice
<1>4. ASSUME NEW k \in {"inside", "outside"}, KidsExit(p, k) PROVE IInv'
  BY <1>4 DEF KidsExit
<1> QED
  BY <1>1, <1>2, <1>3, <1>4

(* What the supervisor does: it leaves the states with a live group only by  *)
(* killing the group, and the registry only after that.                     *)
LEMMA SupervisorKeeps ==
    ASSUME IInv, NEW p \in Procs, Supervise(p) PROVE IInv'
<1> USE DEF IInv, GroupTypes, GroupInv, GroupAlive, Armed, osVars, outVars
<1>1. CASE Select(p)
  BY <1>1 DEF Select, SelectExited, SelectStop, SelectAuthority, SelectTimeout, Decide, Statuses
<1>2. CASE Cleanup(p)
  BY <1>2 DEF Cleanup, SupStep, KillGroup
<1>3. CASE Terminate(p)
  BY <1>3 DEF Terminate, SupStep, KillGroup
<1>4. CASE Reap(p)
  BY <1>4 DEF Reap, SupStep
<1>5. ASSUME NEW s \in Streams, FinishReader(p, s) PROVE IInv'
  BY <1>5 DEF FinishReader, SupStep, Following, Streams
<1>6. CASE Publish(p)
  BY <1>6 DEF Publish, SupStep
<1>7. CASE Forget(p)
  BY <1>7 DEF Forget, SupStep
<1> QED
  BY <1>1, <1>2, <1>3, <1>4, <1>5, <1>6, <1>7 DEF Supervise

(* Every step keeps the invariant.                                          *)
LEMMA StepKeeps == IInv /\ [Next]_vars => IInv'
<1> SUFFICES ASSUME IInv, [Next]_vars PROVE IInv'
  OBVIOUS
<1>1. ASSUME NEW p \in Procs, Start(p) PROVE IInv'
  BY <1>1 DEF Start, IInv, GroupTypes, GroupInv, GroupAlive, Armed
<1>2. CASE Shutdown
  <2>1. \A p \in Procs : sup'[p] = "gone" /\ ~GroupAlive(p)'
    BY <1>2 DEF Shutdown, IInv, GroupTypes, GroupInv, GroupAlive, Armed
  <2>2. GroupTypes'
    BY <1>2 DEF Shutdown, IInv, GroupTypes
  <2> QED
    BY <2>1, <2>2 DEF IInv, GroupInv, Armed
<1>3. ASSUME NEW p \in Procs, Os(p) \/ Notice(p) PROVE IInv'
  BY <1>3, OsKeeps, Frame, FrameKeeps DEF Os
<1>4. ASSUME NEW p \in Procs, Supervise(p) PROVE IInv'
  BY <1>4, SupervisorKeeps
<1>5. CASE UNCHANGED groupVars
  BY <1>5, FrameKeeps
<1> QED
  BY <1>1, <1>2, <1>3, <1>4, <1>5, Frame DEF Next

(* However a command ends, by its own exit, a stop, its timeout, a lost      *)
(* lease or the end of the runtime, nothing of its process group is left     *)
(* when it is reported as ended or forgotten.  (supervise, ProcessGroupGuard) *)
THEOREM GroupsCleanedUp == Spec => []NoSurvivors
<1>1. Init => IInv
  BY DEF Init, IInv, GroupTypes, GroupInv, GroupAlive, Armed, Statuses
<1>2. IInv => NoSurvivors
  BY DEF IInv, GroupInv, NoSurvivors, Armed
<1> QED
  BY <1>1, <1>2, StepKeeps, PTL DEF Spec
=============================================================================
