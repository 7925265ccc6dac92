--------------------------- MODULE OwnershipProofs ---------------------------
(* Theorems about Ownership: the runner and the capacity of an instance,   *)
(* the abstract fence, and the inductive invariant put together.           *)
EXTENDS OwnershipSteps

-----------------------------------------------------------------------------
(* Which steps touch messages, events and the capacity bookkeeping.        *)

(* Only Send, Deliver and RunnerRestart touch messages and registries;     *)
(* only commits and durable writes touch events and capacity bookkeeping.  *)
LEMMA SideFrame ==
    ASSUME [Next]_vars
    PROVE  /\ \/ UNCHANGED <<wire, runner, effect>>
              \/ \E p \in Procs : Send(p)
              \/ \E m \in wire : Deliver(m)
              \/ \E s \in Sessions : RunnerRestart(s)
           /\ \/ UNCHANGED <<counted, over, writer>>
              \/ \E p \in Procs : ClaimCommit(p) \/ Append(p) \/ BeginTurn(p) \/ Finish(p)
<1> USE DEF instVars, rowVars, lockVars, wireVars, procVars, vars
<1>1. ASSUME NEW b \in Boots, InstanceStep(b)
      PROVE  UNCHANGED <<wire, runner, effect, counted, over, writer>>
      BY <1>1 DEF InstanceStep, Register, RestartManager, MarkReady, Heartbeat, GoStale,
                  BeginDrain, NodeDown
<1>2. ASSUME NEW p \in Procs, CoordinatorStep(p)
      PROVE  /\ UNCHANGED <<wire, runner, effect>> \/ Send(p)
             /\ \/ UNCHANGED <<counted, over, writer>>
                \/ ClaimCommit(p) \/ Append(p) \/ BeginTurn(p) \/ Finish(p)
      BY <1>2 DEF CoordinatorStep, AcquirePlacementLocks, ClaimAdmit, ClaimReject, ClaimCommit,
                  WantDispatch, AcquireSessionLock, AssertOwner, AssertFail, Send, LoseLock,
                  Append, BeginTurn, Finish, StaleStop, Stop, Crash, SupervisorGivesUp,
                  Rehome, RehomeDone, RehomeFailed
<1>3. CASE PlacementStep
      BY <1>3 DEF PlacementStep, Place, LegacyRehome, StartChild, LoseStart
<1>4. CASE RunnerStep
      BY <1>4 DEF RunnerStep, Deliver, RunnerRestart
<1> QED BY <1>1, <1>2, <1>3, <1>4 DEF Next

(* The epoch of a row never decreases (claim_ownership,                    *)
(* transfer_ownership).                                                    *)
LEMMA EpochGrows ==
    ASSUME TypeInv, [Next]_vars
    PROVE  \A s \in Sessions : epoch[s] \in Nat /\ epoch'[s] \in Int /\ epoch'[s] >= epoch[s]
<1> USE ProcSession, BoundsAssumption DEF TypeInv, RowTypes
<1>1. CASE UNCHANGED epoch
      BY <1>1
<1>2. ASSUME NEW p \in Procs, ClaimCommit(p)
      PROVE  \A s \in Sessions : epoch[s] \in Nat /\ epoch'[s] \in Int /\ epoch'[s] >= epoch[s]
      BY <1>2 DEF ClaimCommit
<1> QED BY <1>1, <1>2, NextFrame
        DEF Frame, Entering, AcquirePlacementLocks, ClaimAdmit, AcquireSessionLock,
            AssertOwner, rowVars

-----------------------------------------------------------------------------
(* The runner is never ahead of the row; while no lock was lost, a message *)
(* older than what the runner has accepted still meets a registry that     *)
(* remembers.                                                              *)
RunnerInv ==
    /\ \A m \in wire : m.epoch <= epoch[m.session]
    /\ \A s \in Sessions : runner[s] <= epoch[s] /\ effect[s] <= epoch[s]
    /\ lost = {} => \A m \in wire :
          m.epoch >= effect[m.session] \/ runner[m.session] >= effect[m.session]

(* Every step keeps the runner behind the row.                             *)
LEMMA NextRunner ==
    ASSUME TypeInv, TokensUnique, DispatchFenced, RunnerInv, [Next]_vars
    PROVE  RunnerInv'
<1>0. lost' = {} => lost = {}
      BY LostGrows
<1>1. \A m \in wire : m.session \in Sessions /\ m.epoch \in Nat
      BY DEF TypeInv, RunnerTypes, Message
<1>2. \A s \in Sessions : runner[s] \in Nat /\ effect[s] \in Nat
      BY DEF TypeInv, RunnerTypes
<1>3. CASE UNCHANGED <<wire, runner, effect>>
      BY <1>0, <1>1, <1>2, <1>3, EpochGrows DEF RunnerInv
<1>4. ASSUME NEW p \in Procs, Send(p) PROVE RunnerInv'
  <2>1. UNCHANGED <<epoch, runner, effect, lost>>
        BY <1>4 DEF Send, rowVars
  <2>2. Sess(p) \in Sessions /\ tok[p] <= epoch[Sess(p)]
        BY <1>4, ProcSession DEF Send, TokensUnique, HasToken
  <2>3. lost = {} => tok[p] >= effect[Sess(p)]
        BY <1>4, <1>2, <2>2, EpochGrows DEF Send, DispatchFenced, Matches, RunnerInv
  <2>4. \A m \in wire' : m \in wire \/ (m.session = Sess(p) /\ m.epoch = tok[p])
        BY <1>4 DEF Send
  <2> QED BY <2>1, <2>2, <2>3, <2>4 DEF RunnerInv
<1>5. ASSUME NEW m \in wire, Deliver(m) PROVE RunnerInv'
  <2>1. UNCHANGED <<epoch, lost>> /\ wire' \subseteq wire
        BY <1>5 DEF Deliver, rowVars, lockVars
  <2>2. CASE m.epoch < runner[m.session]
        BY <1>5, <2>1, <2>2 DEF Deliver, RunnerInv
  <2>3. CASE ~(m.epoch < runner[m.session])
    <3>1. /\ runner'[m.session] = m.epoch /\ effect'[m.session] = m.epoch
          /\ \A s \in Sessions \ {m.session} : runner'[s] = runner[s] /\ effect'[s] = effect[s]
          BY <1>1, <1>5, <2>3 DEF Deliver, TypeInv, RunnerTypes
    <3> QED BY <1>1, <1>2, <2>1, <3>1 DEF RunnerInv
  <2> QED BY <2>2, <2>3
<1>6. ASSUME NEW s \in Sessions, RunnerRestart(s) PROVE RunnerInv'
  <2>1. UNCHANGED <<epoch, lost, effect>>
        BY <1>6 DEF RunnerRestart, rowVars, lockVars
  <2>2. /\ runner'[s] = 0
        /\ \A u \in Sessions \ {s} : runner'[u] = runner[u]
        /\ wire' = {m \in wire : m.session # s}
        BY <1>6 DEF RunnerRestart, TypeInv, RunnerTypes
  <2> QED BY <1>1, <2>1, <2>2, EpochGrows DEF RunnerInv
<1> QED BY <1>3, <1>4, <1>5, <1>6, SideFrame

(* Given that, no accepted epoch ever turns back.                          *)
LEMMA EffectsStep ==
    ASSUME TypeInv, RunnerInv, [Next]_vars, lost' = {}
    PROVE  \A s \in Sessions : effect'[s] >= effect[s]
<1>0. lost = {}
      BY LostGrows
<1>1. \A m \in wire : m.session \in Sessions /\ m.epoch \in Nat
      BY DEF TypeInv, RunnerTypes, Message
<1>2. \A s \in Sessions : runner[s] \in Nat /\ effect[s] \in Nat
      BY DEF TypeInv, RunnerTypes
<1>3. CASE UNCHANGED effect
      BY <1>2, <1>3
<1>4. ASSUME NEW m \in wire, Deliver(m)
      PROVE  \A s \in Sessions : effect'[s] >= effect[s]
      BY <1>0, <1>1, <1>2, <1>4 DEF Deliver, RunnerInv, TypeInv, RunnerTypes
<1> QED BY <1>3, <1>4, SideFrame DEF Send, RunnerRestart

-----------------------------------------------------------------------------
(* Capacity.                                                               *)

Given(ow, cnt, ov, b) == {s \in cnt : ow[s] = b} \ ov
Admitted(b) == Given(owner, counted, over, b)
AdmittedNext(b) == Given(owner', counted', over', b)

(* A claim that has passed its checks still has room when it commits: the  *)
(* instance lock keeps every other claim for that instance out.            *)
CapInv ==
    lost = {} =>
        /\ \A b \in Boots : Cardinality(Admitted(b)) <= Capacity[b]
        /\ \A p \in Procs : pc[p] = "checked" /\ owner[Sess(p)] # boot[p]
              => Cardinality(Admitted(boot[p])) < Capacity[boot[p]]

(* The sessions an instance was given are finitely many.                   *)
LEMMA AdmittedCard ==
    ASSUME TypeInv, NEW b
    PROVE  /\ IsFiniteSet(Admitted(b)) /\ Cardinality(Admitted(b)) \in Nat
           /\ \A S : S \subseteq Admitted(b) =>
                IsFiniteSet(S) /\ Cardinality(S) \in Nat
                /\ Cardinality(S) <= Cardinality(Admitted(b))
<1>1. Admitted(b) \subseteq Sessions
      BY DEF Admitted, AdmittedNext, Given, OwnedBy, TypeInv, RowTypes
<1>2. IsFiniteSet(Admitted(b))
      BY <1>1, SessionsAssumption, FS_Subset
<1> QED BY <1>2, FS_Subset, FS_CardinalityType

(* Adding an element to a finite set adds at most one to its size.         *)
LEMMA AddOne ==
    ASSUME NEW S, IsFiniteSet(S), NEW x
    PROVE  /\ IsFiniteSet(S \cup {x})
           /\ Cardinality(S \cup {x}) \in Nat
           /\ Cardinality(S \cup {x}) <= Cardinality(S) + 1
<1>1. Cardinality(S) \in Nat
      BY FS_CardinalityType
<1>2. /\ IsFiniteSet(S \cup {x})
      /\ Cardinality(S \cup {x}) = IF x \in S THEN Cardinality(S) ELSE Cardinality(S) + 1
      BY FS_AddElement
<1> QED BY <1>1, <1>2

(* Apart from a commit, no step adds to the sessions an instance was given:*)
(* a follow-up turn counts its session as reactivated, not as admitted.    *)
LEMMA AdmittedShrinks ==
    ASSUME TypeInv, [Next]_vars, \A p \in Procs : ~ClaimCommit(p), NEW b \in Boots
    PROVE  AdmittedNext(b) \subseteq Admitted(b) /\ owner' = owner
<1> USE ProcSession
<1>1. owner' = owner
      BY NextFrame DEF Frame, Entering, AcquirePlacementLocks, ClaimAdmit, AcquireSessionLock,
                       AssertOwner, rowVars
<1>2. CASE UNCHANGED <<counted, over, writer>>
      BY <1>1, <1>2 DEF Admitted, AdmittedNext, Given, OwnedBy
<1>3. ASSUME NEW p \in Procs, Append(p) \/ BeginTurn(p) \/ Finish(p)
      PROVE  AdmittedNext(b) \subseteq Admitted(b)
      BY <1>1, <1>3 DEF Admitted, AdmittedNext, Given, OwnedBy, Append, BeginTurn, Finish
<1> QED BY <1>1, <1>2, <1>3, SideFrame

(* Every step keeps each instance within its capacity (validate_capacity!  *)
(* under the instance lock).                                               *)
LEMMA NextCapacity ==
    ASSUME TypeInv, RowInv, LockInv, CapInv, [Next]_vars
    PROVE  CapInv'
<1> SUFFICES ASSUME lost' = {}
             PROVE  /\ \A b \in Boots : Cardinality(AdmittedNext(b)) <= Capacity[b]
                    /\ \A p \in Procs : pc'[p] = "checked" /\ owner'[Sess(p)] # boot'[p]
                          => Cardinality(AdmittedNext(boot'[p])) < Capacity[boot'[p]]
    BY DEF CapInv, Admitted, AdmittedNext
<1>0. lost = {}
      BY LostGrows
<1>1. \A b \in Boots : Capacity[b] \in Nat
      BY CapacityAssumption
<1>2. \A p \in Procs : pc[p] = "checked" => boot[p] \in Boots
      BY DEF TypeInv, CoordinatorTypes
<1>3. CASE \A p \in Procs : ~ClaimCommit(p)
  <2>1. owner' = owner
        BY <1>3, AdmittedShrinks, NextFrame
        DEF Frame, Entering, AcquirePlacementLocks, ClaimAdmit, AcquireSessionLock,
            AssertOwner, rowVars
  <2>2. \A b \in Boots : /\ Cardinality(AdmittedNext(b)) \in Nat
                         /\ Cardinality(Admitted(b)) \in Nat
                         /\ Cardinality(AdmittedNext(b)) <= Cardinality(Admitted(b))
        BY <1>3, AdmittedShrinks, AdmittedCard
  <2>3. \A p \in Procs : pc'[p] = "checked" =>
           \/ pc[p] = "checked" /\ boot'[p] = boot[p]
           \/ ClaimAdmit(p) /\ boot' = boot
    <3>1. CASE Frame
          BY <3>1 DEF Frame, ProcFrame, Critical
    <3>2. ASSUME NEW q \in Procs, \/ AcquirePlacementLocks(q) \/ ClaimAdmit(q)
                                  \/ AcquireSessionLock(q) \/ AssertOwner(q)
          PROVE  \A p \in Procs : pc'[p] = "checked" =>
                    \/ pc[p] = "checked" /\ boot'[p] = boot[p]
                    \/ ClaimAdmit(p) /\ boot' = boot
          BY <3>2 DEF AcquirePlacementLocks, ClaimAdmit, AcquireSessionLock, AssertOwner,
                      Step, TypeInv, CoordinatorTypes
    <3> QED BY <1>3, <3>1, <3>2, NextFrame DEF Entering
  <2>4. ASSUME NEW p \in Procs, ClaimAdmit(p), owner[Sess(p)] # boot[p]
        PROVE  boot[p] \in Boots /\ Cardinality(Admitted(boot[p])) < Capacity[boot[p]]
    <3>1. boot[p] \in Boots
          BY <2>4 DEF ClaimAdmit, TypeInv, CoordinatorTypes
    <3>2. Cardinality(OwnedBy(boot[p])) < Capacity[boot[p]]
          BY <2>4 DEF ClaimAdmit, Admissible, HasRoom
    <3>3. IsFiniteSet(OwnedBy(boot[p]))
          BY SessionsAssumption, FS_Subset DEF OwnedBy, TypeInv, RowTypes
    <3>4. /\ Cardinality(Admitted(boot[p])) <= Cardinality(OwnedBy(boot[p]))
          /\ Cardinality(Admitted(boot[p])) \in Nat /\ Cardinality(OwnedBy(boot[p])) \in Nat
          BY <3>3, FS_Subset, FS_CardinalityType DEF Admitted, Given, OwnedBy
    <3> QED BY <1>1, <3>1, <3>2, <3>4
  <2> QED BY <1>0, <1>1, <1>2, <2>1, <2>2, <2>3, <2>4 DEF CapInv
<1>4. ASSUME NEW p \in Procs, ClaimCommit(p)
      PROVE  /\ \A b \in Boots : Cardinality(AdmittedNext(b)) <= Capacity[b]
             /\ \A q \in Procs : pc'[q] = "checked" /\ owner'[Sess(q)] # boot'[q]
                   => Cardinality(AdmittedNext(boot'[q])) < Capacity[boot'[q]]
  <2> DEFINE s == Sess(p)
             c == boot[p]
  <2>1. pc[p] = "checked" /\ s \in Sessions /\ c \in Boots
        BY <1>2, <1>4, ProcSession DEF ClaimCommit
  <2>2. /\ owner' = [owner EXCEPT ![s] = c] /\ counted' = counted
        /\ over' = IF owner[s] = c THEN over ELSE over \ {s}
        BY <1>4 DEF ClaimCommit
  <2>3. \A b \in Boots \ {c} : AdmittedNext(b) \subseteq Admitted(b)
        BY <2>1, <2>2 DEF Admitted, AdmittedNext, Given, OwnedBy, TypeInv, RowTypes
  <2>4. owner[s] = c => AdmittedNext(c) \subseteq Admitted(c)
        BY <2>1, <2>2 DEF Admitted, AdmittedNext, Given, OwnedBy, TypeInv, RowTypes
  <2>5. owner[s] # c => AdmittedNext(c) \subseteq Admitted(c) \cup {s}
        BY <2>1, <2>2 DEF Admitted, AdmittedNext, Given, OwnedBy, TypeInv, RowTypes
  <2>6. \A b \in Boots : /\ IsFiniteSet(Admitted(b)) /\ Cardinality(Admitted(b)) \in Nat
        BY AdmittedCard
  <2>7. \A b \in Boots : AdmittedNext(b) \subseteq Admitted(b) =>
           Cardinality(AdmittedNext(b)) \in Nat /\ Cardinality(AdmittedNext(b)) <= Cardinality(Admitted(b))
        BY AdmittedCard
  <2>8. Cardinality(AdmittedNext(c)) <= Capacity[c]
    <3>1. CASE owner[s] = c
          BY <1>0, <1>1, <2>1, <2>4, <2>6, <2>7, <3>1 DEF CapInv
    <3>2. CASE owner[s] # c
      <4>1. /\ IsFiniteSet(Admitted(c) \cup {s})
            /\ Cardinality(Admitted(c) \cup {s}) \in Nat
            /\ Cardinality(Admitted(c) \cup {s}) <= Cardinality(Admitted(c)) + 1
            BY <2>1, <2>6, AddOne
      <4>2. Cardinality(AdmittedNext(c)) \in Nat
            /\ Cardinality(AdmittedNext(c)) <= Cardinality(Admitted(c) \cup {s})
            BY <2>5, <3>2, <4>1, FS_Subset, FS_CardinalityType
      <4>3. Cardinality(Admitted(c)) < Capacity[c]
            BY <1>0, <2>1, <3>2 DEF CapInv
      <4> QED BY <1>1, <2>1, <2>6, <4>1, <4>2, <4>3
    <3> QED BY <3>1, <3>2
  <2>9. \A q \in Procs : pc'[q] = "checked" =>
           /\ q # p /\ pc[q] = "checked" /\ boot'[q] = boot[q]
           /\ boot[q] # c /\ Sess(q) # s
    <3>1. \A q \in Procs : pc'[q] = "checked" => q # p /\ pc[q] = "checked" /\ boot'[q] = boot[q]
          BY <1>4, CommitEffect DEF Critical
    <3>2. \A q \in Procs : pc[q] = "checked" => ilock[boot[q]] = q /\ slock[Sess(q)] = q
          BY <1>0 DEF LockInv, Critical
    <3> QED BY <2>1, <3>1, <3>2
  <2>10. \A q \in Procs : Sess(q) # s => owner'[Sess(q)] = owner[Sess(q)]
        BY <2>1, <2>2, ProcSession DEF TypeInv, RowTypes
  <2> QED BY <1>0, <1>1, <1>2, <2>3, <2>6, <2>7, <2>8, <2>9, <2>10 DEF CapInv
<1> QED BY <1>3, <1>4

-----------------------------------------------------------------------------
(* The abstract fence.                                                     *)

(* Every step is a step of the abstract fence, or leaves epochs, events    *)
(* and registries alone.                                                   *)
LEMMA FenceStep ==
    ASSUME TypeInv, RunnerInv, [Next]_vars
    PROVE  [Fence!Next]_<<epoch, writer, runner>>
<1> USE ProcSession
<1>1. ASSUME NEW p \in Procs, ClaimCommit(p) PROVE Fence!Next
  <2>1. Fence!Advance(Sess(p))
        BY <1>1 DEF ClaimCommit, wireVars, Fence!Advance
  <2> QED BY <2>1 DEF Fence!Next
<1>2. ASSUME NEW p \in Procs, Append(p) \/ BeginTurn(p) \/ Finish(p) PROVE Fence!Next
  <2>1. writer' = [writer EXCEPT ![Sess(p)] = epoch[Sess(p)]]
        BY <1>2 DEF Append, BeginTurn, Finish, FencedWrite, Current, Matches
  <2>2. UNCHANGED <<epoch, runner>>
        BY <1>2 DEF Append, BeginTurn, Finish, wireVars
  <2>3. Fence!Write(Sess(p))
        BY <2>1, <2>2 DEF Fence!Write
  <2> QED BY <2>3 DEF Fence!Next
<1>3. ASSUME NEW m \in wire, Deliver(m)
      PROVE  Fence!Next \/ UNCHANGED <<epoch, writer, runner>>
  <2>1. UNCHANGED <<epoch, writer>>
        BY <1>3 DEF Deliver, rowVars
  <2>2. /\ m.session \in Sessions /\ m.epoch \in Nat /\ runner[m.session] \in Nat
        /\ epoch[m.session] \in Nat /\ m.epoch <= epoch[m.session]
        BY BoundsAssumption DEF TypeInv, RunnerTypes, RowTypes, Message, RunnerInv
  <2>3. CASE m.epoch < runner[m.session]
        BY <1>3, <2>1, <2>3 DEF Deliver
  <2>4. CASE ~(m.epoch < runner[m.session])
    <3>1. m.epoch \in runner[m.session] .. epoch[m.session]
          BY <2>2, <2>4
    <3>2. runner' = [runner EXCEPT ![m.session] = m.epoch]
          BY <1>3, <2>4 DEF Deliver
    <3>3. Fence!Accept(m.session)
          BY <2>1, <3>1, <3>2 DEF Fence!Accept
    <3> QED BY <2>2, <3>3 DEF Fence!Next
  <2> QED BY <2>3, <2>4
<1>4. ASSUME NEW s \in Sessions, RunnerRestart(s) PROVE Fence!Next
  <2>1. Fence!Restart(s)
        BY <1>4 DEF RunnerRestart, rowVars, Fence!Restart
  <2> QED BY <2>1 DEF Fence!Next
<1>5. CASE /\ \A p \in Procs : ~ClaimCommit(p) /\ ~(Append(p) \/ BeginTurn(p) \/ Finish(p))
           /\ \A m \in wire : ~Deliver(m)
           /\ \A s \in Sessions : ~RunnerRestart(s)
  <2>1. UNCHANGED writer
        BY <1>5, SideFrame
  <2>2. UNCHANGED runner
        BY <1>5, SideFrame DEF Send
  <2>3. UNCHANGED epoch
        BY <1>5, NextFrame DEF Frame, Entering, AcquirePlacementLocks, ClaimAdmit,
                               AcquireSessionLock, AssertOwner, rowVars
  <2> QED BY <2>1, <2>2, <2>3
<1> QED BY <1>1, <1>2, <1>3, <1>4, <1>5

-----------------------------------------------------------------------------
(* The inductive invariant and what follows from it.                       *)

IInv ==
    /\ TypeInv /\ RowInv
    /\ TokensUnique /\ LockInv /\ DispatchFenced
    /\ RunnerInv /\ CapInv

(* The invariant holds initially.                                          *)
LEMMA InitInv == Init => IInv
<1> SUFFICES ASSUME Init PROVE IInv
    OBVIOUS
<1>1. TypeInv
      BY InitTypes
<1>2. \A p \in Procs : pc[p] = "none"
      BY DEF Init
<1>3. RowInv /\ TokensUnique /\ LockInv /\ DispatchFenced
      BY <1>2 DEF RowInv, TokensUnique, LockInv, DispatchFenced, HasToken, Critical
<1>4. RunnerInv
      BY DEF Init, RunnerInv
<1>5. CapInv
  <2>1. \A b \in Boots : Admitted(b) = {}
        BY BootsAssumption DEF Init, Admitted, Given
  <2> QED BY <1>2, <2>1, FS_EmptySet, CapacityAssumption DEF CapInv
<1> QED BY <1>1, <1>3, <1>4, <1>5 DEF IInv

(* Every step preserves the invariant.                                     *)
LEMMA NextInv ==
    ASSUME IInv, [Next]_vars PROVE IInv'
BY NextTypes, NextRow, NextTokens, NextLocks, NextDispatch, NextRunner, NextCapacity DEF IInv

(* The inductive invariant holds in every reachable state of the ownership *)
(* protocol.                                                               *)
THEOREM Inductive == Spec => []IInv
<1>1. IInv /\ [Next]_vars => IInv'
      BY NextInv
<1> QED BY InitInv, <1>1, PTL DEF Spec

(* Rows, processes and messages keep their types, and no draining row is   *)
(* ever ready (begin_drain, mark_ready).                                   *)
THEOREM TypesCorrect == Spec => []TypeOK
<1>1. IInv => TypeOK
      BY TypeInvTypeOK DEF IInv
<1> QED BY Inductive, <1>1, PTL

(* Whatever crashes, drains, heartbeats and lost connections happen, no    *)
(* two coordinators of a session hold the same epoch, and the holder of    *)
(* the row's epoch is the row's owner (claim_ownership,                    *)
(* transfer_ownership).                                                    *)
THEOREM OneTokenPerEpoch == Spec => []TokensUnique
<1>1. IInv => TokensUnique
      BY DEF IInv
<1> QED BY Inductive, <1>1, PTL

(* While no lock connection was lost, a process about to send to the       *)
(* runner is the owner in the row (dispatch_if_owner).                     *)
THEOREM DispatchIsFenced == Spec => []DispatchFenced
<1>1. IInv => DispatchFenced
      BY DEF IInv
<1> QED BY Inductive, <1>1, PTL

(* While no lock connection was lost, claims and transfers never load an   *)
(* instance beyond its capacity (validate_capacity!).                      *)
THEOREM CapacityRespected == Spec => []CapacityAdmission
<1>1. IInv => CapacityAdmission
      BY DEF IInv, CapInv, CapacityAdmission, Admitted, Given, OwnedBy
<1> QED BY Inductive, <1>1, PTL

(* While no lock connection was lost, the runner never accepts an epoch    *)
(* older than one it has accepted, restarts of the runner included         *)
(* (dispatch_if_owner with AuthorityRegistry.grant).                       *)
THEOREM EffectsOrdered == Spec => EffectsInEpochOrder
<1>1. IInv /\ [Next]_vars => [lost' = {} => \A s \in Sessions : effect'[s] >= effect[s]]_vars
      BY EffectsStep DEF IInv
<1> QED BY Inductive, <1>1, PTL DEF Spec, EffectsInEpochOrder

(* The ownership protocol implements the abstract fence, lost lock         *)
(* connections included: durable events carry the current epoch            *)
(* (lock_session!) and the runner never turns back                         *)
(* (AuthorityRegistry.grant).                                              *)
THEOREM ImplementsFence == Spec => FenceSpec
<1>1. Init => Fence!Init
      BY DEF Init, Fence!Init
<1>2. IInv /\ [Next]_vars => [Fence!Next]_<<epoch, writer, runner>>
      BY FenceStep DEF IInv
<1> QED BY Inductive, <1>1, <1>2, PTL DEF Spec, FenceSpec, Fence!Spec

=============================================================================
