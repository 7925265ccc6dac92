--------------------------- MODULE OwnershipTypes ----------------------------
(* Type correctness of Ownership, for any cluster, number of sessions and  *)
(* bounds.                                                                 *)
EXTENDS Ownership, FiniteSetTheorems, TLAPS

-----------------------------------------------------------------------------
(* Type correctness.                                                       *)

(* Every coordinator process belongs to a session and a node.              *)
LEMMA ProcSession == \A p \in Procs : Sess(p) \in Sessions /\ Node(p) \in Nodes
BY DEF Procs, Sess, Node

(* The empty token is a token.                                             *)
LEMMA NoTokenType == NoToken \in Token
BY DEF NoToken, Token

(* A process that is not idle runs for a boot.                             *)
CoordinatorTypes ==
    /\ pc \in [Procs -> Pcs]
    /\ boot \in [Procs -> Boots \cup {NoBoot}]
    /\ tok \in [Procs -> Nat]
    /\ prev \in [Procs -> Token]
    /\ job \in [Procs -> Jobs]
    /\ via \in [Procs -> {"start", "restart"}]
    /\ \A p \in Procs : pc[p] # "none" => boot[p] \in Boots

LockTypes ==
    /\ slock \in [Sessions -> Procs \cup {Free}]
    /\ ilock \in [Boots -> Procs \cup {Free}]

TypeInv ==
    /\ InstanceTypes /\ RowTypes /\ RunnerTypes
    /\ CoordinatorTypes /\ LockTypes
    /\ placed \subseteq StartRequest /\ lost \subseteq Procs
    /\ faults \in 0 .. MaxFaults

(* The proof's type invariant, which adds that a running coordinator has a *)
(* boot, implies TypeOK.                                                   *)
LEMMA TypeInvTypeOK == TypeInv => TypeOK
BY DEF TypeInv, TypeOK, ProcessTypes, CoordinatorTypes, LockTypes

(* Unlocking (with_locks) leaves well-formed locks.                        *)
LEMMA ReleaseTypes ==
    ASSUME LockTypes, NEW p, Release(p) PROVE LockTypes'
BY DEF LockTypes, Release

(* Stopping every coordinator of a node leaves well-formed processes and   *)
(* locks.                                                                  *)
LEMMA KillTypes ==
    ASSUME CoordinatorTypes, LockTypes, NEW n, KillCoordinators(n)
    PROVE  CoordinatorTypes' /\ LockTypes'
BY NoTokenType DEF CoordinatorTypes, LockTypes, KillCoordinators, Pcs, Jobs

(* Moving a running coordinator to another step keeps it well formed.      *)
LEMMA StepTypes ==
    ASSUME CoordinatorTypes, NEW p \in Procs, pc[p] # "none", NEW l \in Pcs, Step(p, l)
    PROVE  CoordinatorTypes'
BY DEF CoordinatorTypes, Step

(* A coordinator that ends leaves a well-formed idle process.              *)
LEMMA GoIdleTypes ==
    ASSUME CoordinatorTypes, NEW p \in Procs, GoIdle(p) PROVE CoordinatorTypes'
BY NoTokenType DEF CoordinatorTypes, GoIdle, Pcs, Jobs

(* A coordinator restarted by its supervisor is well formed.               *)
LEMMA RetryTypes ==
    ASSUME CoordinatorTypes, NEW p \in Procs, pc[p] # "none", Retry(p)
    PROVE  CoordinatorTypes'
BY DEF CoordinatorTypes, Retry, Pcs, Jobs

(* So is one whose init_session failed.                                    *)
LEMMA FailInitTypes ==
    ASSUME CoordinatorTypes, NEW p \in Procs, pc[p] # "none", FailInit(p)
    PROVE  CoordinatorTypes'
BY GoIdleTypes, RetryTypes DEF FailInit

(* So is one whose dispatch_if_owner failed.                               *)
LEMMA AfterFailureTypes ==
    ASSUME CoordinatorTypes, NEW p \in Procs, pc[p] # "none",
           NEW orderly, AfterFailure(p, orderly)
    PROVE  CoordinatorTypes'
<1>1. CASE job[p] = "join" /\ FailInit(p)
      BY <1>1, FailInitTypes
<1>2. CASE GoIdle(p) \/ Retry(p)
      BY <1>2, GoIdleTypes, RetryTypes
<1>3. CASE /\ pc' = [pc EXCEPT ![p] = "failing"]
           /\ job' = [job EXCEPT ![p] = "none"]
           /\ UNCHANGED <<boot, tok, prev, via>>
      BY <1>3 DEF CoordinatorTypes, Pcs, Jobs
<1> QED BY <1>1, <1>2, <1>3 DEF AfterFailure

(* The fault count stays within its bound.                                 *)
LEMMA FaultTypes ==
    ASSUME faults \in 0 .. MaxFaults, Fault PROVE faults' \in 0 .. MaxFaults
BY BoundsAssumption DEF Fault

(* The initial state is well typed.                                        *)
LEMMA InitTypes == Init => TypeInv
BY BootsAssumption, DeployedAssumption, SessionsAssumption, BoundsAssumption,
   LockAssumption, NoTokenType
   DEF Init, TypeInv, InstanceTypes, RowTypes, RunnerTypes, CoordinatorTypes,
       LockTypes, Pcs, Jobs

(* Registration, readiness, heartbeats, drains and node failures keep the  *)
(* types; in particular mark_ready never makes a draining row ready.       *)
LEMMA InstanceStepTypes ==
    ASSUME TypeInv, NEW b \in Boots, InstanceStep(b) PROVE TypeInv'
<1> USE DEF TypeInv, rowVars, lockVars, wireVars, procVars
<1>1. CASE Register(b)
      BY <1>1 DEF Register, RegisterRow, SameNode, InstanceTypes, RowTypes,
                  RunnerTypes, CoordinatorTypes, LockTypes
<1>2. CASE RestartManager(b)
  <2>1. CoordinatorTypes' /\ LockTypes'
        BY <1>2, KillTypes DEF RestartManager
  <2>2. faults' \in 0 .. MaxFaults
        BY <1>2, FaultTypes DEF RestartManager
  <2> QED
        BY <1>2, <2>1, <2>2 DEF RestartManager, RegisterRow, SameNode,
                                InstanceTypes, RowTypes, RunnerTypes
<1>3. CASE MarkReady(b)
      BY <1>3 DEF MarkReady, InstanceTypes, RowTypes, RunnerTypes, CoordinatorTypes, LockTypes
<1>4. CASE Heartbeat(b)
      BY <1>4 DEF Heartbeat, InstanceTypes, RowTypes, RunnerTypes, CoordinatorTypes, LockTypes
<1>5. CASE GoStale(b)
      BY <1>5, FaultTypes DEF GoStale, InstanceTypes, RowTypes, RunnerTypes,
                              CoordinatorTypes, LockTypes
<1>6. CASE BeginDrain(b)
      BY <1>6, FaultTypes DEF BeginDrain, InstanceTypes, RowTypes, RunnerTypes,
                              CoordinatorTypes, LockTypes
<1>7. CASE NodeDown(b)
  <2>1. CoordinatorTypes' /\ LockTypes'
        BY <1>7, KillTypes DEF NodeDown
  <2>2. faults' \in 0 .. MaxFaults
        BY <1>7, FaultTypes DEF NodeDown
  <2> QED
        BY <1>7, <2>1, <2>2 DEF NodeDown, InstanceTypes, RowTypes, RunnerTypes
<1> QED BY <1>1, <1>2, <1>3, <1>4, <1>5, <1>6, <1>7 DEF InstanceStep

(* A transaction that has passed its checks still sees an epoch below the  *)
(* bound, and is the only one on its row.                                  *)
RowInv ==
    \A p \in Procs : pc[p] = "checked" =>
        /\ epoch[Sess(p)] < MaxEpoch
        /\ \A q \in Procs : pc[q] = "checked" /\ Sess(q) = Sess(p) => q = p

(* The steps of claim_ownership and transfer_ownership keep the types; a   *)
(* checked claim is still below the epoch bound when it commits.           *)
LEMMA ClaimStepTypes ==
    ASSUME TypeInv, RowInv, NEW p \in Procs,
           \/ AcquirePlacementLocks(p) \/ ClaimAdmit(p)
           \/ ClaimReject(p) \/ ClaimCommit(p)
    PROVE  TypeInv'
<1> USE ProcSession DEF TypeInv, instVars, rowVars, lockVars, wireVars, procVars
<1>1. CASE AcquirePlacementLocks(p)
  <2>1. CoordinatorTypes'
        BY <1>1, StepTypes DEF AcquirePlacementLocks, Pcs
  <2> QED
        BY <1>1, <2>1 DEF AcquirePlacementLocks, InstanceTypes, RowTypes, RunnerTypes, LockTypes
<1>2. CASE ClaimAdmit(p)
  <2>1. CoordinatorTypes'
        BY <1>2, StepTypes DEF ClaimAdmit, Pcs
  <2> QED
        BY <1>2, <2>1 DEF ClaimAdmit, InstanceTypes, RowTypes, RunnerTypes, LockTypes
<1>3. CASE ClaimReject(p)
  <2>1. CoordinatorTypes' /\ LockTypes'
        BY <1>3, FailInitTypes, ReleaseTypes DEF ClaimReject
  <2> QED
        BY <1>3, <2>1 DEF ClaimReject, InstanceTypes, RowTypes, RunnerTypes
<1>4. CASE ClaimCommit(p)
  <2>1. LockTypes'
        BY <1>4, ReleaseTypes DEF ClaimCommit
  <2>2. CoordinatorTypes'
    <3>1. CASE Holding(p)
          BY <1>4, <3>1 DEF ClaimCommit, CoordinatorTypes, Pcs, Jobs, RowTypes
    <3>2. CASE ~Holding(p)
          BY <1>4, <3>2, FailInitTypes DEF ClaimCommit
    <3> QED BY <3>1, <3>2
  <2>3. RowTypes'
        BY <1>4, BoundsAssumption DEF ClaimCommit, RowTypes, RowInv, CoordinatorTypes
  <2> QED
        BY <1>4, <2>1, <2>2, <2>3 DEF ClaimCommit, InstanceTypes, RunnerTypes
<1> QED BY <1>1, <1>2, <1>3, <1>4

(* The steps of dispatch_if_owner keep the types.                          *)
LEMMA DispatchStepTypes ==
    ASSUME TypeInv, NEW p \in Procs,
           \/ \E j \in {"lease", "tool"} : WantDispatch(p, j)
           \/ AcquireSessionLock(p) \/ AssertOwner(p) \/ AssertFail(p)
           \/ Send(p) \/ LoseLock(p)
    PROVE  TypeInv'
<1> USE ProcSession DEF TypeInv, instVars, rowVars, lockVars, wireVars, procVars
<1>1. CASE \E j \in {"lease", "tool"} : WantDispatch(p, j)
      BY <1>1 DEF WantDispatch, CoordinatorTypes, InstanceTypes, RowTypes,
                  RunnerTypes, LockTypes, Pcs, Jobs
<1>2. CASE AcquireSessionLock(p)
  <2>1. CoordinatorTypes'
        BY <1>2, StepTypes DEF AcquireSessionLock, Pcs
  <2> QED
        BY <1>2, <2>1 DEF AcquireSessionLock, InstanceTypes, RowTypes, RunnerTypes, LockTypes
<1>3. CASE AssertOwner(p)
  <2>1. CoordinatorTypes'
        BY <1>3, StepTypes DEF AssertOwner, Pcs
  <2> QED
        BY <1>3, <2>1 DEF AssertOwner, InstanceTypes, RowTypes, RunnerTypes, LockTypes
<1>4. CASE AssertFail(p)
  <2>1. CoordinatorTypes' /\ LockTypes'
        BY <1>4, AfterFailureTypes, ReleaseTypes DEF AssertFail
  <2> QED
        BY <1>4, <2>1 DEF AssertFail, InstanceTypes, RowTypes, RunnerTypes
<1>5. CASE Send(p)
  <2>1. LockTypes'
        BY <1>5, ReleaseTypes DEF Send
  <2>2. CoordinatorTypes'
    <3>1. CASE Holding(p)
          BY <1>5, <3>1 DEF Send, CoordinatorTypes, Pcs, Jobs
    <3>2. CASE ~Holding(p)
          BY <1>5, <3>2, AfterFailureTypes DEF Send
    <3> QED BY <3>1, <3>2
  <2>3. RunnerTypes'
        BY <1>5 DEF Send, RunnerTypes, Message, CoordinatorTypes
  <2> QED
        BY <1>5, <2>1, <2>2, <2>3 DEF Send, InstanceTypes, RowTypes
<1>6. CASE LoseLock(p)
  <2>1. LockTypes' /\ faults' \in 0 .. MaxFaults
        BY <1>6, ReleaseTypes, FaultTypes DEF LoseLock
  <2> QED
        BY <1>6, <2>1 DEF LoseLock, InstanceTypes, RowTypes, RunnerTypes, CoordinatorTypes
<1> QED BY <1>1, <1>2, <1>3, <1>4, <1>5, <1>6

(* Durable writes keep the types.                                          *)
LEMMA WriteStepTypes ==
    ASSUME TypeInv, NEW p \in Procs,
           Append(p) \/ BeginTurn(p) \/ Finish(p) \/ StaleStop(p) \/ Stop(p)
    PROVE  TypeInv'
<1> USE ProcSession DEF TypeInv, instVars, rowVars, lockVars, wireVars, procVars
<1>1. CASE Append(p)
      BY <1>1 DEF Append, FencedWrite, CoordinatorTypes, InstanceTypes, RowTypes,
                  RunnerTypes, LockTypes
<1>2. CASE BeginTurn(p)
      BY <1>2 DEF BeginTurn, FencedWrite, CoordinatorTypes, InstanceTypes, RowTypes,
                  RunnerTypes, LockTypes
<1>3. CASE Finish(p)
  <2>1. CoordinatorTypes'
        BY <1>3, GoIdleTypes DEF Finish
  <2>2. RowTypes'
        BY <1>3 DEF Finish, FencedWrite, RowTypes, CoordinatorTypes
  <2> QED
        BY <1>3, <2>1, <2>2 DEF Finish, InstanceTypes, RunnerTypes, LockTypes
<1>4. CASE StaleStop(p)
  <2>1. CoordinatorTypes' /\ LockTypes'
        BY <1>4, GoIdleTypes, ReleaseTypes DEF StaleStop
  <2> QED
        BY <1>4, <2>1 DEF StaleStop, InstanceTypes, RowTypes, RunnerTypes
<1>5. CASE Stop(p)
  <2>1. CoordinatorTypes'
        BY <1>5, GoIdleTypes DEF Stop
  <2> QED
        BY <1>5, <2>1 DEF Stop, InstanceTypes, RowTypes, RunnerTypes, LockTypes
<1> QED BY <1>1, <1>2, <1>3, <1>4, <1>5

(* Stops, crashes, restarts and rehoming keep the types.                   *)
LEMMA LifeStepTypes ==
    ASSUME TypeInv, NEW p \in Procs,
           \/ Crash(p) \/ SupervisorGivesUp(p)
           \/ \E b \in Boots : Rehome(p, b)
           \/ RehomeDone(p) \/ RehomeFailed(p)
    PROVE  TypeInv'
<1> USE ProcSession DEF TypeInv, instVars, rowVars, lockVars, wireVars, procVars
<1>1. CASE Crash(p)
  <2>1. CoordinatorTypes'
        BY <1>1, FailInitTypes, RetryTypes DEF Crash
  <2>2. LockTypes' /\ faults' \in 0 .. MaxFaults
        BY <1>1, ReleaseTypes, FaultTypes DEF Crash
  <2> QED
        BY <1>1, <2>1, <2>2 DEF Crash, InstanceTypes, RowTypes, RunnerTypes
<1>2. CASE SupervisorGivesUp(p)
  <2>1. CoordinatorTypes' /\ LockTypes'
        BY <1>2, KillTypes DEF SupervisorGivesUp
  <2> QED
        BY <1>2, <2>1 DEF SupervisorGivesUp, InstanceTypes, RowTypes, RunnerTypes
<1>3. ASSUME NEW b \in Boots, Rehome(p, b) PROVE TypeInv'
  <2>1. CoordinatorTypes'
        BY <1>3, StepTypes DEF Rehome, Pcs
  <2>2. placed' \subseteq StartRequest
        BY <1>3 DEF Rehome, RequestStart, StartRequest, TokenOf, Token, CoordinatorTypes
  <2> QED
        BY <1>3, <2>1, <2>2 DEF Rehome, InstanceTypes, RowTypes, RunnerTypes, LockTypes
<1>4. CASE RehomeDone(p)
  <2>1. CoordinatorTypes'
        BY <1>4, GoIdleTypes DEF RehomeDone
  <2> QED
        BY <1>4, <2>1 DEF RehomeDone, InstanceTypes, RowTypes, RunnerTypes, LockTypes
<1>5. CASE RehomeFailed(p)
  <2>1. CoordinatorTypes'
        BY <1>5, StepTypes DEF RehomeFailed, Pcs
  <2> QED
        BY <1>5, <2>1 DEF RehomeFailed, InstanceTypes, RowTypes, RunnerTypes, LockTypes
<1> QED BY <1>1, <1>2, <1>3, <1>4, <1>5

(* Placement and coordinator starts keep the types.                        *)
LEMMA PlacementStepTypes ==
    ASSUME TypeInv, PlacementStep PROVE TypeInv'
<1> USE DEF TypeInv, instVars, rowVars, lockVars, wireVars, procVars
<1>1. ASSUME NEW s \in Sessions, NEW b \in Boots, Place(s, b) PROVE TypeInv'
  <2>1. placed' \subseteq StartRequest
        BY <1>1, NoTokenType DEF Place, RequestStart, StartRequest
  <2> QED
        BY <1>1, <2>1 DEF Place, InstanceTypes, RowTypes, RunnerTypes, LockTypes, CoordinatorTypes
<1>2. ASSUME NEW s \in Sessions, NEW b \in Boots, LegacyRehome(s, b) PROVE TypeInv'
  <2>1. placed' \subseteq StartRequest
        BY <1>2, BoundsAssumption DEF LegacyRehome, RequestStart, StartRequest, Token, RowTypes
  <2> QED
        BY <1>2, <2>1 DEF LegacyRehome, InstanceTypes, RowTypes, RunnerTypes, LockTypes,
                          CoordinatorTypes
<1>3. ASSUME NEW r \in placed, StartChild(r) PROVE TypeInv'
  <2>1. r.boot \in Boots /\ r.prev \in Token /\ <<NodeOf[r.boot], r.session>> \in Procs
        BY BootsAssumption DEF StartRequest, Procs
  <2>2. CoordinatorTypes'
        BY <1>3, <2>1 DEF StartChild, CoordinatorTypes, Pcs
  <2> QED
        BY <1>3, <2>2 DEF StartChild, InstanceTypes, RowTypes, RunnerTypes, LockTypes
<1>4. ASSUME NEW r \in placed, LoseStart(r) PROVE TypeInv'
      BY <1>4, FaultTypes DEF LoseStart, InstanceTypes, RowTypes, RunnerTypes, LockTypes,
                              CoordinatorTypes
<1> QED BY <1>1, <1>2, <1>3, <1>4 DEF PlacementStep

(* Deliveries and runner restarts keep the types.                          *)
LEMMA RunnerStepTypes ==
    ASSUME TypeInv, RunnerStep PROVE TypeInv'
<1> USE DEF TypeInv, instVars, rowVars, lockVars, wireVars, procVars
<1>1. ASSUME NEW m \in wire, Deliver(m) PROVE TypeInv'
      BY <1>1 DEF Deliver, InstanceTypes, RowTypes, RunnerTypes, Message, LockTypes,
                  CoordinatorTypes
<1>2. ASSUME NEW s \in Sessions, RunnerRestart(s) PROVE TypeInv'
      BY <1>2, FaultTypes DEF RunnerRestart, InstanceTypes, RowTypes, RunnerTypes,
                              LockTypes, CoordinatorTypes
<1> QED BY <1>1, <1>2 DEF RunnerStep

(* Every step keeps the types.                                             *)
LEMMA NextTypes ==
    ASSUME TypeInv, RowInv, [Next]_vars PROVE TypeInv'
<1>1. CASE \E b \in Boots : InstanceStep(b)
      BY <1>1, InstanceStepTypes
<1>2. ASSUME NEW p \in Procs, CoordinatorStep(p) PROVE TypeInv'
      BY <1>2, ClaimStepTypes, DispatchStepTypes, WriteStepTypes, LifeStepTypes
         DEF CoordinatorStep
<1>3. CASE PlacementStep
      BY <1>3, PlacementStepTypes
<1>4. CASE RunnerStep
      BY <1>4, RunnerStepTypes
<1>5. CASE UNCHANGED vars
      BY <1>5 DEF vars, instVars, rowVars, lockVars, wireVars, procVars, TypeInv,
                  InstanceTypes, RowTypes, RunnerTypes, CoordinatorTypes, LockTypes
<1> QED BY <1>1, <1>2, <1>3, <1>4, <1>5 DEF Next

=============================================================================
