--------------------------- MODULE OwnershipSteps ----------------------------
(* What a step of Ownership leaves alone; every step keeps tokens unique,  *)
(* locks with their holders and dispatch fenced.                           *)
EXTENDS OwnershipTypes

-----------------------------------------------------------------------------
(* Most steps give no process a token, let none into a critical section    *)
(* and take no lock away from a process that stays in one.                 *)

Critical == {"locked", "checked", "assert", "send"}

ProcFrame ==
    \A q \in Procs :
        /\ HasToken(q)' => HasToken(q) /\ tok'[q] = tok[q] /\ boot'[q] = boot[q]
        /\ pc'[q] \in Critical => pc'[q] = pc[q] /\ boot'[q] = boot[q]

LockFrame ==
    \A q \in Procs : pc'[q] \in Critical =>
        /\ slock[Sess(q)] = q => slock'[Sess(q)] = q
        /\ boot[q] \in Boots /\ ilock[boot[q]] = q => ilock'[boot[q]] = q

Frame ==
    /\ UNCHANGED <<owner, epoch>>
    /\ ProcFrame
    /\ LockFrame \/ lost' # {}

(* A coordinator that ends or is restarted gives up its token and its      *)
(* critical section; nobody else is touched.                               *)
LEMMA LeaveFrame ==
    ASSUME TypeInv, NEW p \in Procs, GoIdle(p) \/ Retry(p) \/ FailInit(p)
    PROVE  ProcFrame /\ pc'[p] \notin Critical
BY DEF TypeInv, CoordinatorTypes, GoIdle, Retry, FailInit, ProcFrame, HasToken, Critical

(* The same for one whose dispatch failed; a failing turn keeps its token. *)
LEMMA FailureFrame ==
    ASSUME TypeInv, NEW p \in Procs, HasToken(p),
           NEW orderly, AfterFailure(p, orderly)
    PROVE  ProcFrame /\ pc'[p] \notin Critical
<1>1. CASE GoIdle(p) \/ Retry(p) \/ FailInit(p)
      BY <1>1, LeaveFrame, Zenon
<1>2. CASE pc' = [pc EXCEPT ![p] = "failing"] /\ UNCHANGED <<boot, tok, prev, via>>
      BY <1>2, Zenon DEF TypeInv, CoordinatorTypes, ProcFrame, HasToken, Critical
<1> QED BY <1>1, <1>2, Zenon DEF AfterFailure

(* Stopping a node's coordinators takes locks only from processes that are *)
(* stopped.                                                                *)
LEMMA KillFrame ==
    ASSUME TypeInv, NEW n, KillCoordinators(n)
    PROVE  ProcFrame /\ LockFrame
<1>1. ProcFrame
      BY Zenon DEF TypeInv, CoordinatorTypes, KillCoordinators, ProcFrame, HasToken, Critical
<1>2. LockFrame
      BY ProcSession, Zenon DEF TypeInv, CoordinatorTypes, LockTypes, KillCoordinators, LockFrame, Critical
<1> QED BY <1>1, <1>2, Zenon

(* A process outside its critical section unlocks nobody else's locks.     *)
LEMMA ReleaseFrame ==
    ASSUME TypeInv, NEW p \in Procs, Release(p), pc'[p] \notin Critical
    PROVE  LockFrame
BY ProcSession, Zenon DEF TypeInv, CoordinatorTypes, LockTypes, Release, LockFrame

(* Steps that touch no lock respect the lock frame.                        *)
LEMMA StillFrame ==
    ASSUME TypeInv, UNCHANGED <<slock, ilock>> PROVE LockFrame
BY Zenon DEF LockFrame

Entering(p) ==
    \/ AcquirePlacementLocks(p) \/ ClaimAdmit(p) \/ ClaimCommit(p)
    \/ AcquireSessionLock(p) \/ AssertOwner(p)

(* Every coordinator step that enters no critical section and commits no   *)
(* claim is framed.                                                        *)
LEMMA CoordinatorFrame ==
    ASSUME TypeInv, NEW p \in Procs, CoordinatorStep(p), ~Entering(p)
    PROVE  Frame
<1> USE DEF instVars, rowVars, lockVars, wireVars, procVars
<1>1. CASE ClaimReject(p)
      BY <1>1, LeaveFrame, ReleaseFrame, Zenon DEF ClaimReject, Frame
<1>2. ASSUME NEW j \in {"lease", "tool"}, WantDispatch(p, j) PROVE Frame
  <2>1. ProcFrame
        BY <1>2, Zenon DEF WantDispatch, TypeInv, CoordinatorTypes, ProcFrame, HasToken, Critical
  <2> QED BY <1>2, <2>1, StillFrame, Zenon DEF WantDispatch, Frame
<1>3. CASE AssertFail(p)
      BY <1>3, FailureFrame, ReleaseFrame, Zenon DEF AssertFail, Frame, HasToken
<1>4. CASE Send(p)
  <2>1. CASE Holding(p)
    <3>1. ProcFrame /\ pc'[p] \notin Critical
          BY <1>4, <2>1 DEF Send, TypeInv, CoordinatorTypes, ProcFrame, HasToken, Critical
    <3> QED BY <1>4, <3>1, ReleaseFrame, Zenon DEF Send, Frame
  <2>2. CASE ~Holding(p)
        BY <1>4, <2>2, FailureFrame, ReleaseFrame, Zenon DEF Send, Frame, HasToken
  <2> QED BY <2>1, <2>2, Zenon
<1>5. CASE LoseLock(p)
  <2>1. ProcFrame
        BY <1>5, Zenon DEF LoseLock, ProcFrame, HasToken
  <2> QED BY <1>5, <2>1, Zenon DEF LoseLock, Frame
<1>6. CASE Append(p) \/ BeginTurn(p)
  <2>1. ProcFrame
        BY <1>6, Zenon DEF Append, BeginTurn, ProcFrame, HasToken
  <2> QED BY <1>6, <2>1, StillFrame, Zenon DEF Append, BeginTurn, Frame
<1>7. CASE Finish(p) \/ Stop(p) \/ RehomeDone(p)
      BY <1>7, LeaveFrame, StillFrame, Zenon DEF Finish, Stop, RehomeDone, Frame
<1>8. CASE StaleStop(p)
      BY <1>8, LeaveFrame, ReleaseFrame, Zenon DEF StaleStop, Frame
<1>9. CASE Crash(p)
      BY <1>9, LeaveFrame, ReleaseFrame, Zenon DEF Crash, Frame
<1>10. CASE SupervisorGivesUp(p)
      BY <1>10, KillFrame, Zenon DEF SupervisorGivesUp, Frame
<1>11. ASSUME Step(p, "rehoming") \/ Step(p, "live"), pc[p] \in {"live", "rehoming"}
       PROVE  ProcFrame
      BY <1>11, Zenon DEF Step, TypeInv, CoordinatorTypes, ProcFrame, HasToken, Critical
<1>12. ASSUME NEW b \in Boots, Rehome(p, b) PROVE Frame
      BY <1>11, <1>12, StillFrame, Zenon DEF Rehome, Frame
<1>13. CASE RehomeFailed(p)
      BY <1>11, <1>13, StillFrame, Zenon DEF RehomeFailed, Frame
<1> QED BY <1>1, <1>2, <1>3, <1>4, <1>5, <1>6, <1>7, <1>8, <1>9, <1>10, <1>12, <1>13, Zenon
        DEF CoordinatorStep, Entering

(* Every step either frames tokens and critical sections, or is one of the *)
(* five that enter one or commit a claim.                                  *)
LEMMA NextFrame ==
    ASSUME TypeInv, [Next]_vars PROVE Frame \/ \E p \in Procs : Entering(p)
<1> USE DEF instVars, rowVars, lockVars, wireVars, procVars
<1>1. ASSUME UNCHANGED procVars, UNCHANGED <<owner, epoch, slock, ilock>> PROVE Frame
  <2>1. ProcFrame
        BY <1>1, Zenon DEF ProcFrame, HasToken
  <2> QED BY <1>1, <2>1, StillFrame, Zenon DEF Frame
<1>2. ASSUME NEW b \in Boots, InstanceStep(b) PROVE Frame
  <2>1. CASE RestartManager(b) \/ NodeDown(b)
        BY <2>1, KillFrame, Zenon DEF RestartManager, NodeDown, Frame
  <2>2. CASE Register(b) \/ MarkReady(b) \/ Heartbeat(b) \/ GoStale(b) \/ BeginDrain(b)
        BY <2>2, <1>1, Zenon DEF Register, MarkReady, Heartbeat, GoStale, BeginDrain
  <2> QED BY <1>2, <2>1, <2>2, Zenon DEF InstanceStep
<1>3. CASE PlacementStep
  <2>1. ASSUME NEW s \in Sessions, NEW b \in Boots, Place(s, b) \/ LegacyRehome(s, b)
        PROVE  Frame
        BY <2>1, <1>1, Zenon DEF Place, LegacyRehome
  <2>2. ASSUME NEW r \in placed, LoseStart(r) PROVE Frame
        BY <2>2, <1>1, Zenon DEF LoseStart
  <2>3. ASSUME NEW r \in placed, StartChild(r) PROVE Frame
    <3>1. <<NodeOf[r.boot], r.session>> \in Procs
          BY BootsAssumption, Zenon DEF TypeInv, StartRequest, Procs
    <3>2. ProcFrame
          BY <2>3, <3>1 DEF StartChild, TypeInv, CoordinatorTypes, ProcFrame, HasToken, Critical
    <3> QED BY <2>3, <3>2, StillFrame, Zenon DEF StartChild, Frame
  <2> QED BY <1>3, <2>1, <2>2, <2>3, Zenon DEF PlacementStep
<1>4. CASE RunnerStep
      BY <1>4, <1>1, Zenon DEF RunnerStep, Deliver, RunnerRestart
<1>5. CASE UNCHANGED vars
      BY <1>5, <1>1, Zenon DEF vars
<1> QED BY <1>1, <1>2, <1>3, <1>4, <1>5, CoordinatorFrame, Zenon DEF Next

-----------------------------------------------------------------------------
(* Tokens, the row lock and the advisory locks.                            *)

(* While no lock connection has been lost, a process in a critical section *)
(* holds the locks it took on entry.                                       *)
LockInv ==
    lost = {} => \A p \in Procs :
        /\ pc[p] \in Critical => slock[Sess(p)] = p
        /\ pc[p] \in {"locked", "checked"} => ilock[boot[p]] = p

(* A lost lock connection is never forgotten.                              *)
LEMMA LostGrows == [Next]_vars => lost \subseteq lost'
<1> USE DEF instVars, rowVars, lockVars, wireVars, procVars, vars
<1>1. ASSUME NEW b \in Boots, InstanceStep(b) PROVE lost' = lost
      BY <1>1, Zenon DEF InstanceStep, Register, RestartManager, MarkReady, Heartbeat, GoStale,
                  BeginDrain, NodeDown
<1>2. ASSUME NEW p \in Procs, CoordinatorStep(p) PROVE lost \subseteq lost'
      BY <1>2, Zenon DEF CoordinatorStep, AcquirePlacementLocks, ClaimAdmit, ClaimReject, ClaimCommit,
                  WantDispatch, AcquireSessionLock, AssertOwner, AssertFail, Send, LoseLock,
                  Append, BeginTurn, Finish, StaleStop, Stop, Crash, SupervisorGivesUp,
                  Rehome, RehomeDone, RehomeFailed
<1>3. CASE PlacementStep \/ RunnerStep
      BY <1>3, Zenon DEF PlacementStep, Place, LegacyRehome, StartChild, LoseStart,
                  RunnerStep, Deliver, RunnerRestart
<1> QED BY <1>1, <1>2, <1>3, Zenon DEF Next

(* A commit takes its process out of the critical section with, at most, a *)
(* token of the new epoch, and leaves all others alone.                    *)
LEMMA CommitEffect ==
    ASSUME TypeInv, NEW p \in Procs, ClaimCommit(p)
    PROVE  /\ pc[p] = "checked" /\ pc'[p] \notin Critical
           /\ HasToken(p)' => tok'[p] = epoch[Sess(p)] + 1 /\ boot'[p] = boot[p]
           /\ \A q \in Procs \ {p} :
                 pc'[q] = pc[q] /\ boot'[q] = boot[q] /\ tok'[q] = tok[q]
<1>1. CASE Holding(p)
      BY <1>1, Zenon DEF ClaimCommit, TypeInv, CoordinatorTypes, HasToken, Critical
<1>2. CASE ~Holding(p)
      BY <1>2 DEF ClaimCommit, TypeInv, CoordinatorTypes, HasToken, Critical,
                  FailInit, GoIdle, Retry
<1> QED BY <1>1, <1>2, Zenon

(* At most one claim at a time has passed its checks on a row              *)
(* (lock_session! reads it FOR UPDATE), and its epoch is below the bound.  *)
LEMMA NextRow ==
    ASSUME TypeInv, RowInv, [Next]_vars PROVE RowInv'
<1> USE ProcSession DEF instVars, rowVars, procVars
<1>1. CASE Frame
      BY <1>1, Zenon DEF Frame, ProcFrame, RowInv, Critical
<1>2. ASSUME NEW p \in Procs, Step(p, "locked") \/ Step(p, "assert") \/ Step(p, "send"),
             UNCHANGED <<owner, epoch>>
      PROVE  RowInv'
      BY <1>2, Zenon DEF Step, RowInv, TypeInv, CoordinatorTypes
<1>3. ASSUME NEW p \in Procs, ClaimAdmit(p) PROVE RowInv'
      BY <1>3, Zenon DEF ClaimAdmit, Step, RowLocked, RowInv, TypeInv, CoordinatorTypes
<1>4. ASSUME NEW p \in Procs, ClaimCommit(p) PROVE RowInv'
  <2>1. \A q \in Procs : pc'[q] = "checked" => q # p /\ pc[q] = "checked" /\ Sess(q) # Sess(p)
        BY <1>4, CommitEffect, Zenon DEF RowInv, Critical
  <2>2. \A q \in Procs : Sess(q) # Sess(p) => epoch'[Sess(q)] = epoch[Sess(q)]
        BY <1>4, Zenon DEF ClaimCommit, TypeInv, RowTypes
  <2> QED BY <2>1, <2>2, Zenon DEF RowInv
<1> QED BY <1>1, <1>2, <1>3, <1>4, NextFrame, Zenon
        DEF Entering, AcquirePlacementLocks, AcquireSessionLock, AssertOwner

(* Every step keeps tokens unique: only a commit hands one out, and its    *)
(* epoch is new.                                                           *)
LEMMA NextTokens ==
    ASSUME TypeInv, TokensUnique, [Next]_vars PROVE TokensUnique'
<1> USE ProcSession
<1>1. CASE Frame
      BY <1>1, Zenon DEF Frame, ProcFrame, TokensUnique
<1>2. ASSUME NEW p \in Procs, ClaimCommit(p) PROVE TokensUnique'
  <2>1. \A q \in Procs : HasToken(q)' =>
           \/ q = p /\ tok'[q] = epoch[Sess(p)] + 1 /\ boot'[q] = boot[p]
           \/ q # p /\ HasToken(q) /\ tok'[q] = tok[q] /\ boot'[q] = boot[q]
        BY <1>2, CommitEffect, Zenon DEF HasToken
  <2>2. /\ epoch'[Sess(p)] = epoch[Sess(p)] + 1 /\ owner'[Sess(p)] = boot[p]
        /\ \A q \in Procs : Sess(q) # Sess(p) =>
              epoch'[Sess(q)] = epoch[Sess(q)] /\ owner'[Sess(q)] = owner[Sess(q)]
        BY <1>2, Zenon DEF ClaimCommit, TypeInv, RowTypes
  <2>3. \A q \in Procs : epoch[Sess(q)] \in Nat /\ tok[q] \in Nat
        BY BoundsAssumption DEF TypeInv, RowTypes, CoordinatorTypes
  <2> QED BY <2>1, <2>2, <2>3 DEF TokensUnique
<1>3. ASSUME NEW p \in Procs,
             \/ AcquirePlacementLocks(p) \/ ClaimAdmit(p)
             \/ AcquireSessionLock(p) \/ AssertOwner(p)
      PROVE  TokensUnique'
  <2>1. UNCHANGED <<owner, epoch, boot, tok>>
        BY <1>3, Zenon DEF AcquirePlacementLocks, ClaimAdmit, AcquireSessionLock, AssertOwner, Step, rowVars
  <2>2. \A q \in Procs : HasToken(q)' => HasToken(q)
        BY <1>3, Zenon DEF AcquirePlacementLocks, ClaimAdmit, AcquireSessionLock, AssertOwner, Step,
                    HasToken, TypeInv, CoordinatorTypes
  <2> QED BY <2>1, <2>2, Zenon DEF TokensUnique
<1> QED BY <1>1, <1>2, <1>3, NextFrame, Zenon DEF Entering

(* Taking a free session lock takes it from no process that relies on one. *)
LEMMA LockTaken ==
    ASSUME TypeInv, LockInv, lost = {}, NEW p \in Procs,
           slock[Sess(p)] = Free, slock' = [slock EXCEPT ![Sess(p)] = p]
    PROVE  \A q \in Procs \ {p} : pc[q] \in Critical =>
              Sess(q) # Sess(p) /\ slock'[Sess(q)] = slock[Sess(q)]
<1>1. \A q \in Procs : pc[q] \in Critical => slock[Sess(q)] = q /\ q # Free
      BY LockAssumption, Zenon DEF LockInv
<1>2. \A q \in Procs : Sess(q) # Sess(p) => slock'[Sess(q)] = slock[Sess(q)]
      BY ProcSession, Zenon DEF TypeInv, LockTypes
<1> QED BY <1>1, <1>2, Zenon

(* Every step keeps locks with the processes that rely on them.            *)
LEMMA NextLocks ==
    ASSUME TypeInv, LockInv, [Next]_vars PROVE LockInv'
<1> SUFFICES ASSUME lost' = {}
             PROVE  \A p \in Procs :
                       /\ pc'[p] \in Critical => slock'[Sess(p)] = p
                       /\ pc'[p] \in {"locked", "checked"} => ilock'[boot'[p]] = p
    BY Zenon DEF LockInv
<1>0. lost = {}
      BY LostGrows, Zenon
<1> USE <1>0, ProcSession, LockAssumption
<1>1. CASE Frame
  <2>1. \A q \in Procs : pc[q] \in {"locked", "checked"} => boot[q] \in Boots
        BY Zenon DEF TypeInv, CoordinatorTypes
  <2> QED BY <1>1, <2>1, Zenon DEF Frame, ProcFrame, LockFrame, LockInv, Critical
<1>2. ASSUME NEW p \in Procs, AcquirePlacementLocks(p) PROVE LockInv'
  <2>1. boot[p] \in Boots
        BY <1>2, Zenon DEF AcquirePlacementLocks, TypeInv, CoordinatorTypes
  <2>2. /\ slock'[Sess(p)] = p /\ ilock'[boot[p]] = p /\ boot' = boot
        /\ \A q \in Procs \ {p} : pc'[q] = pc[q]
        BY <1>2, <2>1, Zenon DEF AcquirePlacementLocks, Step, TypeInv, CoordinatorTypes, LockTypes
  <2>3. \A q \in Procs \ {p} : pc[q] \in Critical =>
           Sess(q) # Sess(p) /\ slock'[Sess(q)] = slock[Sess(q)]
        BY <1>2, LockTaken, Zenon DEF AcquirePlacementLocks
  <2>4. \A q \in Procs \ {p} : pc[q] \in {"locked", "checked"} =>
           ilock'[boot[q]] = ilock[boot[q]]
        BY <1>2, Zenon DEF AcquirePlacementLocks, LockInv, TypeInv, LockTypes, CoordinatorTypes
  <2> QED BY <2>2, <2>3, <2>4, Zenon DEF LockInv, Critical
<1>3. ASSUME NEW p \in Procs, AcquireSessionLock(p) PROVE LockInv'
  <2>1. /\ slock'[Sess(p)] = p /\ boot' = boot /\ ilock' = ilock /\ pc'[p] = "assert"
        /\ \A q \in Procs \ {p} : pc'[q] = pc[q]
        BY <1>3, Zenon DEF AcquireSessionLock, Step, TypeInv, CoordinatorTypes, LockTypes
  <2>2. \A q \in Procs \ {p} : pc[q] \in Critical =>
           Sess(q) # Sess(p) /\ slock'[Sess(q)] = slock[Sess(q)]
        BY <1>3, LockTaken, Zenon DEF AcquireSessionLock
  <2> QED BY <2>1, <2>2, Zenon DEF LockInv, Critical
<1>4. ASSUME NEW p \in Procs, ClaimAdmit(p) \/ AssertOwner(p) PROVE LockInv'
      BY <1>4, Zenon DEF ClaimAdmit, AssertOwner, Step, lockVars, LockInv, TypeInv,
                  CoordinatorTypes, Critical
<1>5. ASSUME NEW p \in Procs, ClaimCommit(p) PROVE LockInv'
  <2>1. \A q \in Procs : pc'[q] \in Critical =>
           q # p /\ pc'[q] = pc[q] /\ boot'[q] = boot[q]
        BY <1>5, CommitEffect, Zenon
  <2>2. \A q \in Procs \ {p} :
           /\ slock[Sess(q)] = q => slock'[Sess(q)] = q
           /\ boot[q] \in Boots /\ ilock[boot[q]] = q => ilock'[boot[q]] = q
        BY <1>5 DEF ClaimCommit, Release, TypeInv, LockTypes
  <2>3. \A q \in Procs : pc[q] \in {"locked", "checked"} => boot[q] \in Boots
        BY Zenon DEF TypeInv, CoordinatorTypes
  <2> QED BY <2>1, <2>2, <2>3, Zenon DEF LockInv, Critical
<1> QED BY <1>1, <1>2, <1>3, <1>4, <1>5, NextFrame, Zenon DEF Entering, LockInv

(* Every step keeps dispatch fenced: a commit needs the session lock that  *)
(* the dispatching process holds.                                          *)
LEMMA NextDispatch ==
    ASSUME TypeInv, LockInv, DispatchFenced, [Next]_vars PROVE DispatchFenced'
<1> SUFFICES ASSUME lost' = {}, NEW q \in Procs, pc'[q] = "send"
             PROVE  owner'[Sess(q)] = boot'[q] /\ epoch'[Sess(q)] = tok'[q]
    BY Zenon DEF DispatchFenced, Matches
<1>0. lost = {}
      BY LostGrows, Zenon
<1> USE <1>0, ProcSession
<1>1. CASE Frame
      BY <1>1, Zenon DEF Frame, ProcFrame, DispatchFenced, Matches, Critical, HasToken
<1>2. ASSUME NEW p \in Procs, AssertOwner(p) PROVE DispatchFenced'
      BY <1>2, Zenon DEF AssertOwner, Current, Step, DispatchFenced, Matches, rowVars, lockVars,
                  TypeInv, CoordinatorTypes
<1>3. ASSUME NEW p \in Procs, AcquirePlacementLocks(p) \/ ClaimAdmit(p) \/ AcquireSessionLock(p)
      PROVE  DispatchFenced'
      BY <1>3, Zenon DEF AcquirePlacementLocks, ClaimAdmit, AcquireSessionLock, Step, DispatchFenced,
                  Matches, rowVars, lockVars, TypeInv, CoordinatorTypes
<1>4. ASSUME NEW p \in Procs, ClaimCommit(p)
      PROVE  owner'[Sess(q)] = boot'[q] /\ epoch'[Sess(q)] = tok'[q]
  <2>1. q # p /\ pc[q] = "send" /\ boot'[q] = boot[q] /\ tok'[q] = tok[q] /\ pc[p] = "checked"
        BY <1>4, CommitEffect, Zenon DEF Critical
  <2>2. Sess(q) # Sess(p)
        BY <2>1, Zenon DEF LockInv, Critical
  <2> QED BY <1>4, <2>1, <2>2, Zenon DEF ClaimCommit, DispatchFenced, Matches, TypeInv, RowTypes
<1> QED BY <1>1, <1>2, <1>3, <1>4, NextFrame, Zenon DEF Entering, DispatchFenced, Matches

=============================================================================
