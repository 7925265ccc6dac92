------------------------ MODULE RunnerDispatchProofs -------------------------
(* Theorems about RunnerDispatch, for any ids, sessions, contents, calls   *)
(* and limits.                                                             *)
EXTENDS RunnerDispatchSteps

-----------------------------------------------------------------------------
(* The mutation lock, watchers and the order of changes.                   *)

(* Who may change the workspace holds the mutation lock; only a running    *)
(* change is watched, and a watcher that looks at the lease or sleeps is   *)
(* registered.                                                             *)
LockInv ==
    \A r \in Ids :
        /\ exec[r] = "apply" \/ (exec[r] = "check" /\ Kind[print[r]] # "read") => mutex = r
        /\ watch[r] # "off" => exec[r] = "apply"
        /\ watch[r] \in {"look", "sleep"} => r \in reg

(* A step of an execution keeps it.                                        *)
LEMMA ExecLocks ==
    ASSUME TypeInv, LockInv, NEW r \in Ids, ExecStep(r) PROVE LockInv'
<1> USE DEF TypeInv, ExecTypes, WatchTypes
<1>1. print' = print
      BY ExecFrame, Zenon
<1>2. ASSUME Return(r) PROVE LockInv'
      BY <1>1, <1>2, Zenon DEF Return, LockInv
<1>3. ASSUME NEW l \in Phases \ {"check", "apply"}, exec[r] # "apply",
             exec' = [exec EXCEPT ![r] = l], UNCHANGED <<mutex, watch, reg>>
      PROVE  LockInv'
      BY <1>1, <1>3, Zenon DEF LockInv
<1>4. CASE Start(r)
      BY <1>2, <1>3, <1>4, Zenon DEF Start, Goto, lockVars, watchVars, Phases
<1>5. CASE AcquirePermit(r)
  <2>1. CASE Kind[print[r]] = "read"
        BY <1>1, <1>5, <2>1, Zenon DEF AcquirePermit, Goto, LockInv, watchVars
  <2>2. CASE Kind[print[r]] # "read"
        BY <1>3, <1>5, <2>2, Zenon DEF AcquirePermit, Goto, watchVars, Phases
  <2> QED BY <2>1, <2>2, Zenon
<1>6. CASE AcquireMutationLock(r)
      BY <1>1, <1>6, ContentsAssumption, Zenon DEF AcquireMutationLock, Goto, LockInv, watchVars
<1>7. CASE Check(r)
  <2>1. CASE Kind[print[r]] # "read" /\ Goto(r, "apply") /\ UNCHANGED <<lockVars, reg, woken>>
             /\ watch' = [watch EXCEPT ![r] = IF Kind[print[r]] = "patch" THEN "arm" ELSE "off"]
        BY <1>1, <1>7, <2>1, Zenon DEF Check, Goto, LockInv, lockVars
  <2> QED BY <1>2, <1>7, <2>1, Zenon DEF Check
<1>8. CASE Land(r)
      BY <1>8, Zenon DEF Land, LockInv, cacheVars, execVars, lockVars, watchVars
<1>9. CASE Exit(r) \/ Kill(r)
      BY <1>2, <1>9, Zenon DEF Exit, Kill
<1>10. CASE Reply(r)
      BY <1>3, <1>10, Zenon DEF Reply, Store, NotifyCalls, Record, Goto, lockVars, watchVars, Phases
<1> QED BY <1>4, <1>5, <1>6, <1>7, <1>8, <1>9, <1>10, Zenon DEF ExecStep

(* Every step does.                                                        *)
LEMMA NextLock ==
    ASSUME TypeInv, OnceInv, LockInv, [Next]_vars PROVE LockInv'
<1>1. CASE UNCHANGED <<exec, print, mutex, watch, reg>>
      BY <1>1, Zenon DEF LockInv
<1>2. CASE Calm \/ LeaseStep
      BY <1>1, <1>2, Zenon DEF Calm, LeaseStep, NotifyWatchers, Expire, Asking, Granting, Refusing,
                  OnlyLeases, cacheVars, execVars, lockVars, watchVars
<1>3. ASSUME NEW c \in Calls, ElectNew(c) PROVE LockInv'
  <2>1. PICK r \in Ids : /\ exec[r] = "none" /\ exec' = [exec EXCEPT ![r] = "start"]
                         /\ print' = [print EXCEPT ![r] = req[c].content]
                         /\ UNCHANGED <<mutex, watchVars>>
        BY <1>3, ElectEffect, Zenon
  <2> QED BY <2>1, Zenon DEF LockInv, TypeInv, CacheTypes, ExecTypes, watchVars
<1>4. ASSUME NEW r \in Ids, WatcherStep(r) PROVE LockInv'
  <2>1. UNCHANGED <<exec, print, mutex>>
        BY <1>4, Zenon DEF WatcherStep, WatchArm, WatchLook, WatchStep, cacheVars, execVars, lockVars
  <2>2. PICK l \in {"look", "sleep", "fired"} :
            /\ watch' = [watch EXCEPT ![r] = l] /\ watch[r] # "off"
            /\ reg \subseteq reg' /\ (l \in {"look", "sleep"} => r \in reg')
        BY <1>4, Zenon DEF WatcherStep, WatchArm, WatchLook, WatchStep, LockInv
  <2> QED BY <2>1, <2>2, Zenon DEF LockInv, TypeInv, WatchTypes
<1> QED BY <1>2, <1>3, <1>4, ExecLocks, Steps, Zenon

(* The last change of a session was made under an epoch no newer than its  *)
(* lease, and whoever may make the next one has an epoch no older.         *)
EffectInv ==
    /\ \A s \in Sessions : effect[s] <= lepoch[s]
    /\ \A r \in Ids : exec[r] = "apply" => gepoch[r] >= effect[Session(r)]

(* Every step keeps it: who enters "apply" has just found the guard valid, *)
(* and who is there when a change lands is the one that made it.           *)
LEMMA NextEffect ==
    ASSUME TypeInv, TypeInv', OnceInv, GuardInv, LockInv, EffectInv, [Next]_vars
    PROVE  EffectInv' /\ \A s \in Sessions : effect'[s] >= effect[s]
<1>0. ASSUME NEW r \in Ids, exec[r] # "none" PROVE Session(r) \in Sessions
      BY <1>0, ContentsAssumption, Zenon DEF GuardInv, Session
<1>1. ASSUME effect' = effect PROVE \A s \in Sessions : effect'[s] <= lepoch'[s] /\ effect'[s] >= effect[s]
  <2> SUFFICES ASSUME NEW s \in Sessions PROVE effect[s] <= lepoch'[s] /\ effect[s] >= effect[s]
      BY <1>1, Zenon
  <2>1. effect[s] \in Nat /\ lepoch[s] \in Nat /\ lepoch'[s] \in Nat
        BY DEF TypeInv, HistTypes, LeaseTypes
  <2>2. effect[s] <= lepoch[s] /\ lepoch'[s] >= lepoch[s]
        BY LeasesGrow, Zenon DEF EffectInv
  <2> QED BY <2>1, <2>2
<1>2. ASSUME effect' = effect, NEW r \in Ids, exec'[r] = "apply", exec[r] = "apply"
      PROVE  gepoch'[r] >= effect'[Session(r)']
  <2>1. print'[r] = print[r] /\ gepoch'[r] = gepoch[r]
        BY <1>2, GuardsStay, Zenon
  <2>2. Session(r)' = Session(r)
        BY <2>1, Zenon DEF Session
  <2> QED BY <1>2, <2>1, <2>2, Zenon DEF EffectInv
<1>3. ASSUME effect' = effect, NEW r \in Ids, Check(r), exec'[r] = "apply"
      PROVE  gepoch'[r] >= effect'[Session(r)']
  <2>1. Valid(r) /\ exec[r] # "none" /\ UNCHANGED <<print, gepoch>>
        BY <1>3, Zenon DEF Check, Return, Goto, TypeInv, ExecTypes, cacheVars
  <2>2. Session(r)' = Session(r)
        BY <2>1, Zenon DEF Session
  <2>3. Session(r) \in Sessions /\ gepoch[r] = lepoch[Session(r)]
        BY <1>0, <2>1, Zenon DEF Valid, Held
  <2>4. effect[Session(r)] <= lepoch[Session(r)]
        BY <2>3, Zenon DEF EffectInv
  <2>5. effect[Session(r)] \in Nat /\ lepoch[Session(r)] \in Nat
        BY <2>3 DEF TypeInv, HistTypes, LeaseTypes
  <2> QED BY <1>3, <2>1, <2>2, <2>3, <2>4, <2>5, Zenon
<1>4. ASSUME NEW r \in Ids, Land(r)
      PROVE  EffectInv' /\ \A s \in Sessions : effect'[s] >= effect[s]
  <2>1. /\ exec[r] = "apply" /\ exec' = exec /\ print' = print /\ gepoch' = gepoch
        /\ lepoch' = lepoch /\ effect' = [effect EXCEPT ![Session(r)] = gepoch[r]]
        BY <1>4, Zenon DEF Land, leaseVars, cacheVars, execVars
  <2>2. /\ Session(r) \in Sessions /\ gepoch[r] <= lepoch[Session(r)]
        /\ gepoch[r] >= effect[Session(r)]
        BY <1>0, <2>1, Zenon DEF GuardInv, EffectInv
  <2>3. \A q \in Ids : exec[q] = "apply" => q = r
        BY <2>1, Zenon DEF LockInv
  <2>4. \A s \in Sessions : effect'[s] <= lepoch'[s] /\ effect'[s] >= effect[s]
        BY <2>1, <2>2 DEF EffectInv, TypeInv, HistTypes, LeaseTypes
  <2>5. ASSUME NEW q \in Ids, exec'[q] = "apply" PROVE gepoch'[q] >= effect'[Session(q)']
    <3>1. q = r
          BY <2>1, <2>3, <2>5, Zenon
    <3>2. Session(r)' = Session(r)
          BY <2>1, Zenon DEF Session
    <3>3. effect'[Session(r)] = gepoch[r] /\ gepoch[r] \in Nat
          BY <2>1, <2>2, Zenon DEF TypeInv, HistTypes, ExecTypes
    <3> QED BY <2>1, <3>1, <3>2, <3>3
  <2> QED BY <2>4, <2>5, Zenon DEF EffectInv
<1>5. \/ effect' = effect /\ \A r \in Ids : exec'[r] = "apply" => exec[r] = "apply" \/ Check(r)
      \/ \E r \in Ids : Land(r)
  <2>1. CASE Calm \/ LeaseStep
        BY <2>1, Zenon DEF Calm, LeaseStep, NotifyWatchers, Expire, Asking, Granting, Refusing,
                    OnlyLeases, execVars, histVars
  <2>2. ASSUME NEW c \in Calls, ElectNew(c)
        PROVE  effect' = effect /\ \A r \in Ids : exec'[r] = "apply" => exec[r] = "apply"
        BY <2>2, ElectEffect DEF TypeInv, ExecTypes
  <2>3. ASSUME NEW r \in Ids, WatcherStep(r) PROVE effect' = effect /\ exec' = exec
        BY <2>3, Zenon DEF WatcherStep, WatchArm, WatchLook, WatchStep, execVars, histVars
  <2>4. ASSUME NEW r \in Ids, ExecStep(r)
        PROVE  \/ exec'[r] = "apply" => exec[r] = "apply" \/ Check(r)
               \/ Land(r)
        BY <2>4, Zenon DEF ExecStep, Start, AcquirePermit, AcquireMutationLock, Exit, Kill,
                    Reply, Store, NotifyCalls, Record, Return, Goto, TypeInv, ExecTypes
  <2>5. ASSUME NEW r \in Ids, ExecStep(r)
        PROVE  (effect' = effect /\ \A q \in Ids \ {r} : exec'[q] = exec[q]) \/ Land(r)
        BY <2>5, ExecFrame, Zenon
  <2> QED BY <2>1, <2>2, <2>3, <2>4, <2>5, Steps, Zenon
<1> QED BY <1>1, <1>2, <1>3, <1>4, <1>5, Zenon DEF EffectInv

-----------------------------------------------------------------------------
(* Waiting calls and sleeping watchers.                                    *)

(* A call comes to wait only by finding its own request under its id or by *)
(* starting its execution.                                                 *)
LEMMA NextShared ==
    ASSUME TypeInv, OnceInv, CallsShareOnlyEqualRequests, [Next]_vars
    PROVE  CallsShareOnlyEqualRequests'
<1> SUFFICES ASSUME NEW c \in Calls, call'[c] \in {"look", "sleep"}
             PROVE  print'[req'[c].id] = req'[c].content /\ exec'[req'[c].id] # "none"
    BY Zenon DEF CallsShareOnlyEqualRequests
<1>1. CASE call[c] \in {"look", "sleep"} /\ req'[c] = req[c]
  <2>1. req[c].id \in Ids
        BY <1>1, CallRequest, Zenon
  <2> QED BY <1>1, <2>1, GuardsStay DEF CallsShareOnlyEqualRequests
<1>2. CASE ElectKnown(c)
  <2>1. req[c].id \in Ids
        BY <1>2, CallRequest, Zenon DEF ElectKnown
  <2>2. /\ req[c].id \in slots /\ print[req[c].id] = req[c].content
        /\ UNCHANGED <<req, print, exec>>
        BY <1>2, Zenon DEF ElectKnown, Answer, Listen, TypeInv, CallTypes, cacheVars, execVars
  <2> QED BY <2>1, <2>2, Zenon DEF OnceInv
<1>3. CASE ElectNew(c)
  <2>1. req' = req
        BY <1>3, Zenon DEF ElectNew, Listen
  <2>2. /\ req[c].id \in Ids /\ exec' = [exec EXCEPT ![req[c].id] = "start"]
        /\ print' = [print EXCEPT ![req[c].id] = req[c].content]
        BY <1>3, ElectEffect, Zenon
  <2> QED BY <2>1, <2>2, Zenon DEF TypeInv, CacheTypes, ExecTypes
<1>4. ASSUME DispatchConnected(c) \/ DispatchGranted(c) PROVE FALSE
      BY <1>4, Zenon DEF DispatchConnected, DispatchGranted, Answer, TypeInv, CallTypes
<1> QED BY <1>1, <1>2, <1>3, <1>4, CallSteps, Zenon

(* No wake-up is lost: a grant that takes a lease from a sleeping watcher  *)
(* sets notify, and whoever sleeps is registered when it is called.        *)
LEMMA NextWoken ==
    ASSUME TypeInv, OnceInv, GuardInv, LockInv, SupersededIsWoken, [Next]_vars
    PROVE  SupersededIsWoken'
<1> SUFFICES ASSUME NEW r \in Ids, watch'[r] = "sleep", ~Valid(r)', llive'[Session(r)']
             PROVE  r \in woken' \/ notify'
    BY Zenon DEF SupersededIsWoken
<1>1. CASE /\ watch[r] = "sleep" /\ UNCHANGED <<lepoch, lgen, gepoch, ggen, print>>
           /\ llive[Session(r)] /\ (r \in woken => r \in woken') /\ (notify => notify')
  <2>1. Session(r)' = Session(r)
        BY <1>1, Zenon DEF Session
  <2>2. ~Valid(r)
        BY <1>1, <2>1, Zenon DEF Valid, Held
  <2> QED BY <1>1, <2>2, Zenon DEF SupersededIsWoken
<1>2. CASE Calm
  <2>1. UNCHANGED <<lepoch, lgen, llive, notify, gepoch, ggen, print, watch, woken>>
        BY <1>2, Zenon DEF Calm, leaseVars, watchVars
  <2> QED BY <1>1, <2>1, Zenon DEF Session
<1>3. CASE NotifyWatchers
  <2>1. watch[r] = "sleep" /\ woken' = woken \cup reg
        BY <1>3, Zenon DEF NotifyWatchers
  <2> QED BY <2>1, Zenon DEF LockInv
<1>4. ASSUME NEW s \in Sessions, Expire(s) PROVE r \in woken' \/ notify'
  <2>1. /\ UNCHANGED <<lepoch, lgen, notify, gepoch, ggen, print, watch, woken>>
        /\ llive' = [llive EXCEPT ![s] = FALSE]
        BY <1>4, Zenon DEF Expire, cacheVars, execVars, watchVars
  <2>2. Session(r)' = Session(r) /\ Session(r) # s
        BY <2>1, Zenon DEF Session, TypeInv, LeaseTypes
  <2>3. llive[Session(r)]
        BY <2>1, <2>2 DEF TypeInv, LeaseTypes
  <2> QED BY <1>1, <2>1, <2>3, Zenon
<1>5. CASE Granting
      BY <1>5, Zenon DEF Granting, Grant
<1>9. CASE Asking \/ Refusing
  <2>1. UNCHANGED <<lepoch, lgen, llive, notify, gepoch, ggen, print, watch, woken>>
        BY <1>9, Zenon DEF Asking, Refusing, Refuse, OnlyLeases, cacheVars, execVars, watchVars
  <2> QED BY <1>1, <2>1, Zenon DEF Session
<1>6. ASSUME NEW c \in Calls, ElectNew(c) PROVE r \in woken' \/ notify'
  <2>1. watch[r] = "sleep" /\ UNCHANGED <<lepoch, lgen, llive, notify, woken>>
        BY <1>6, Zenon DEF ElectNew, leaseVars, watchVars
  <2>2. exec[r] # "none"
        BY <2>1, Zenon DEF LockInv
  <2>3. print'[r] = print[r] /\ gepoch'[r] = gepoch[r] /\ ggen'[r] = ggen[r]
        BY <2>2, GuardsStay, Zenon
  <2>4. Session(r)' = Session(r)
        BY <2>3, Zenon DEF Session
  <2>5. ~Valid(r) /\ llive[Session(r)]
        BY <2>1, <2>3, <2>4 DEF Valid, Held
  <2> QED BY <2>1, <2>5, Zenon DEF SupersededIsWoken
<1>7. ASSUME NEW q \in Ids, WatcherStep(q) PROVE r \in woken' \/ notify'
  <2>1. UNCHANGED <<lepoch, lgen, llive, notify, gepoch, ggen, print>>
        BY <1>7, Zenon DEF WatcherStep, WatchArm, WatchLook, WatchStep, leaseVars, cacheVars, execVars
  <2>2. llive[Session(r)] /\ ~Valid(r)
        BY <2>1, Zenon DEF Session, Valid, Held
  <2>3. q # r
    <3>1. CASE q = r /\ WatchArm(q)
          BY <3>1, Zenon DEF WatchArm, WatchStep, TypeInv, WatchTypes
    <3>2. CASE q = r /\ WatchLook(q)
          BY <2>2, <3>2, Zenon DEF WatchLook, WatchStep, TypeInv, WatchTypes
    <3> QED BY <1>7, <3>1, <3>2, Zenon DEF WatcherStep
  <2>4. watch[r] = "sleep" /\ (r \in woken => r \in woken')
        BY <1>7, <2>3, Zenon DEF WatcherStep, WatchArm, WatchLook, WatchStep, TypeInv, WatchTypes
  <2> QED BY <1>1, <2>1, <2>2, <2>4, Zenon
<1>8. ASSUME NEW q \in Ids, ExecStep(q) PROVE r \in woken' \/ notify'
  <2>1. UNCHANGED <<lepoch, lgen, llive, notify, gepoch, ggen, print>>
        BY <1>8, ExecFrame, Zenon DEF leaseVars
  <2>2. /\ watch[r] = "sleep"
        /\ r \in woken => r \in woken'
    <3>1. CASE UNCHANGED <<watch, woken>>
          BY <3>1, Zenon
    <3>2. CASE Return(q)
          BY <3>2, Zenon DEF Return, TypeInv, WatchTypes
    <3>3. CASE Check(q)
          BY <3>2, <3>3, Zenon DEF Check, TypeInv, WatchTypes
    <3> QED BY <1>8, <3>1, <3>2, <3>3, Zenon
            DEF ExecStep, Start, AcquirePermit, AcquireMutationLock, Land, Exit, Kill, Reply,
                Store, NotifyCalls, Record, watchVars
  <2> QED BY <1>1, <2>1, <2>2, Zenon DEF Session
<1> QED BY <1>2, <1>3, <1>4, <1>5, <1>6, <1>7, <1>8, <1>9, Steps, Zenon DEF LeaseStep

-----------------------------------------------------------------------------
(* The inductive invariant and what follows from it.                       *)

IInv ==
    /\ TypeInv /\ OnceInv /\ GuardInv /\ AskedInv /\ LockInv /\ EffectInv
    /\ CallsShareOnlyEqualRequests /\ SupersededIsWoken

(* It holds when the runner starts.                                        *)
LEMMA InitInv == Init => IInv
<1> SUFFICES ASSUME Init PROVE IInv
    OBVIOUS
<1>1. OnceInv
      BY DEF Init, OnceInv
<1>2. GuardInv /\ AskedInv /\ LockInv /\ CallsShareOnlyEqualRequests /\ SupersededIsWoken
      BY Zenon DEF Init, GuardInv, AskedInv, LockInv, CallsShareOnlyEqualRequests, SupersededIsWoken
<1>3. EffectInv
      BY DEF Init, EffectInv
<1> QED BY <1>1, <1>2, <1>3, InitTypes, Zenon DEF IInv

(* Every step of the runner keeps it.                                      *)
LEMMA NextInv == IInv /\ [Next]_vars => IInv'
<1> SUFFICES ASSUME IInv, [Next]_vars PROVE IInv'
    OBVIOUS
<1>1. TypeInv'
      BY NextTypes, Zenon DEF IInv
<1>2. OnceInv' /\ GuardInv' /\ AskedInv'
      BY <1>1, NextOnce, NextGuard, NextAsked, Zenon DEF IInv
<1>3. LockInv' /\ EffectInv'
      BY <1>1, NextLock, NextEffect, Zenon DEF IInv
<1>4. CallsShareOnlyEqualRequests' /\ SupersededIsWoken'
      BY NextShared, NextWoken, Zenon DEF IInv
<1> QED BY <1>1, <1>2, <1>3, <1>4, Zenon DEF IInv

(* The inductive invariant holds throughout.                               *)
THEOREM Inductive == Spec => []IInv
BY InitInv, NextInv, PTL DEF Spec

(* Leases, cache, executions, watchers and calls are well typed, and no id *)
(* has both a slot and a tombstone.                                        *)
THEOREM TypesCorrect == Spec => []TypeOK
<1>1. IInv => TypeOK
      BY TypeInvTypeOK, Zenon DEF IInv
<1> QED BY <1>1, Inductive, PTL

(* Dispatcher executes a request at most once, and it changes the          *)
(* workspace at most once.                                                 *)
THEOREM ExecutedAtMostOnce == Spec => []AtMostOnce
<1>1. IInv => AtMostOnce
      BY DEF IInv, TypeInv, HistTypes, OnceInv, AtMostOnce
<1> QED BY <1>1, Inductive, PTL

(* A call waits only for the response of its own request.                  *)
THEOREM SharedOnlyWithEquals == Spec => []CallsShareOnlyEqualRequests
<1>1. IInv => CallsShareOnlyEqualRequests
      BY Zenon DEF IInv
<1> QED BY <1>1, Inductive, PTL

(* A watcher asleep over a superseded lease has been or will be notified.  *)
THEOREM NoLostWakeup == Spec => []SupersededIsWoken
<1>1. IInv => SupersededIsWoken
      BY Zenon DEF IInv
<1> QED BY <1>1, Inductive, PTL

(* An authority guard that is invalid stays so, for ever, unless a renewal *)
(* that read the clock while its lease ran is under way.                   *)
THEOREM InvalidForEver == Spec => GuardsNeverRevive
<1>1. IInv /\ [Next]_vars =>
        [\A r \in Ids : exec[r] \in Active /\ ~Valid(r) /\ ~Renewing(r)
            => ~Valid(r)' /\ ~Renewing(r)']_vars
  <2> SUFFICES ASSUME IInv, [Next]_vars, NEW r \in Ids, exec[r] \in Active, ~Valid(r), ~Renewing(r)
               PROVE  ~Valid(r)' /\ ~Renewing(r)'
      OBVIOUS
  <2>1. TypeInv' /\ exec[r] # "none"
        BY NextInv, Zenon DEF IInv, Active
  <2> QED BY <2>1, GuardStep, Zenon DEF IInv
<1> QED BY <1>1, Inductive, PTL DEF Spec, GuardsNeverRevive

(* Changes reach the workspace in the order of the epochs of their owners. *)
THEOREM EpochOrder == Spec => MutationsInEpochOrder
<1>1. IInv /\ [Next]_vars => [\A s \in Sessions : effect'[s] >= effect[s]]_vars
  <2> SUFFICES ASSUME IInv, [Next]_vars PROVE \A s \in Sessions : effect'[s] >= effect[s]
      OBVIOUS
  <2>1. TypeInv'
        BY NextInv, Zenon DEF IInv
  <2> QED BY <2>1, NextEffect, Zenon DEF IInv
<1> QED BY <1>1, Inductive, PTL DEF Spec, MutationsInEpochOrder

=============================================================================
