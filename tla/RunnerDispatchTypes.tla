------------------------- MODULE RunnerDispatchTypes -------------------------
(* Type correctness of RunnerDispatch, for any ids, sessions, contents,    *)
(* calls and limits.                                                       *)
EXTENDS RunnerDispatch, TLAPS

WatchStates == {"off", "arm", "look", "sleep", "fired"}
CallStates == {"free", "queued", "grant", "elect", "look", "sleep"}

LeaseTypes ==
    /\ lepoch \in [Sessions -> 0 .. MaxEpoch] /\ lgen \in [Sessions -> Nat]
    /\ llive \in [Sessions -> BOOLEAN] /\ asked \in Grants \cup {None} /\ notify \in BOOLEAN

CacheTypes ==
    /\ slots \subseteq Ids /\ expired \subseteq Ids /\ slots \cap expired = {}
    /\ print \in [Ids -> Contents \cup {None}] /\ size \in [Ids -> Nat]

ExecTypes ==
    /\ exec \in [Ids -> Phases]
    /\ gepoch \in [Ids -> 0 .. MaxEpoch] /\ ggen \in [Ids -> Nat]
    /\ stored \subseteq Ids /\ permits \subseteq Ids /\ mutex \in Ids \cup {None}

WatchTypes ==
    /\ watch \in [Ids -> WatchStates]
    /\ reg \subseteq Ids /\ woken \subseteq reg

(* A call in flight has a request.                                         *)
CallTypes ==
    /\ call \in [Calls -> CallStates]
    /\ req \in [Calls -> Request \cup {None}]
    /\ creg \subseteq Calls /\ cwoken \subseteq creg /\ frames \in 0 .. MaxFrames
    /\ \A c \in Calls : call[c] # "free" => req[c] \in Request

HistTypes ==
    elected \in [Ids -> Nat] /\ landed \in [Ids -> Nat] /\ effect \in [Sessions -> Nat]

TypeInv ==
    LeaseTypes /\ CacheTypes /\ ExecTypes /\ WatchTypes /\ CallTypes /\ HistTypes

(* The proof's type invariant implies TypeOK.                              *)
LEMMA TypeInvTypeOK == TypeInv => TypeOK
BY DEF TypeInv, TypeOK, LeaseTypes, CacheTypes, ExecTypes, WatchTypes, CallTypes,
       HistTypes, WatchStates, CallStates

(* A request names an id, a content and an epoch.                          *)
LEMMA RequestFields ==
    \A m \in Request : m.id \in Ids /\ m.content \in Contents /\ m.epoch \in 0 .. MaxEpoch
BY DEF Request

(* So does the request of every call in flight, and its content has a      *)
(* session.                                                                *)
LEMMA CallRequest ==
    ASSUME TypeInv, NEW c \in Calls, call[c] # "free"
    PROVE  /\ req[c].id \in Ids /\ req[c].content \in Contents
           /\ req[c].epoch \in 0 .. MaxEpoch
           /\ SessionOf[req[c].content] \in Sessions
<1>1. req[c] \in Request
      BY DEF TypeInv, CallTypes
<1>2. req[c].id \in Ids /\ req[c].content \in Contents /\ req[c].epoch \in 0 .. MaxEpoch
      BY <1>1, RequestFields
<1> QED BY <1>2, ContentsAssumption

(* The initial state is well typed.                                        *)
LEMMA InitTypes == Init => TypeInv
<1> SUFFICES ASSUME Init PROVE TypeInv
    OBVIOUS
<1>1. 0 \in 0 .. MaxEpoch /\ 0 \in 0 .. MaxFrames
      BY LimitsAssumption
<1>2. LeaseTypes /\ HistTypes
      BY <1>1 DEF Init, LeaseTypes, HistTypes
<1>3. CacheTypes /\ WatchTypes
      BY DEF Init, CacheTypes, WatchTypes, WatchStates
<1>4. ExecTypes /\ CallTypes
      BY <1>1 DEF Init, ExecTypes, CallTypes, CallStates, Phases
<1> QED BY <1>2, <1>3, <1>4 DEF TypeInv

(* A grant names a session, a positive epoch and what the clock said.      *)
LEMMA GrantFields ==
    \A g \in Grants : g.session \in Sessions /\ g.epoch \in 1 .. MaxEpoch /\ g.live \in BOOLEAN
BY DEF Grants

(* What grant asks for once it has read the clock.                         *)
LEMMA ClockRead ==
    ASSUME LeaseTypes, NEW s \in Sessions, NEW e \in 0 .. MaxEpoch, e # 0, ReadClock(s, e)
    PROVE  asked' \in Grants /\ asked' # None
<1>1. e \in 1 .. MaxEpoch /\ llive[s] \in BOOLEAN
      BY DEF LeaseTypes
<1> QED BY <1>1, GrantsAssumption DEF ReadClock, Grants

(* AuthorityRegistry::grant keeps leases well typed: reading the clock,    *)
(* refusing and storing.                                                   *)
LEMMA GrantTypes ==
    ASSUME LeaseTypes,
           \/ /\ \E s \in Sessions, e \in 0 .. MaxEpoch : e # 0 /\ ReadClock(s, e)
              /\ UNCHANGED <<lepoch, lgen, llive, notify>>
           \/ asked # None /\ (Refuse \/ Grant)
    PROVE  LeaseTypes'
<1>1. CASE asked # None /\ Grant
  <2>1. asked.session \in Sessions /\ asked.epoch \in 0 .. MaxEpoch
        BY <1>1, GrantFields DEF LeaseTypes
  <2>2. NextGeneration \in Nat
        BY <2>1 DEF NextGeneration, LeaseTypes
  <2> QED BY <1>1, <2>1, <2>2, Zenon DEF LeaseTypes, Grant
<1> QED BY <1>1, ClockRead, Zenon DEF LeaseTypes, Refuse

(* remove_cached_response gives an id a tombstone or a slot, never both.   *)
LEMMA EvictTypes ==
    ASSUME NEW o, NEW k, NEW total, NEW kept, kept \subseteq Ids, kept \cap expired = {},
           CacheTypes, Evict(o, k, kept, total)
    PROVE  /\ slots' \subseteq Ids /\ expired' \subseteq Ids /\ slots' \cap expired' = {}
           /\ slots' \cup expired' = kept \cup expired
BY DEF Evict, CacheTypes

(* An answered or listening call is well typed.                            *)
LEMMA AnswerTypes ==
    ASSUME CallTypes, NEW c \in Calls, Answer(c) \/ (call[c] # "free" /\ Listen(c)),
           frames' \in 0 .. MaxFrames
    PROVE  CallTypes'
BY DEF CallTypes, Answer, Listen, CallStates

(* So is an execution that goes on to its next step.                       *)
LEMMA GotoTypes ==
    ASSUME ExecTypes, NEW r \in Ids, NEW l \in Phases, Goto(r, l),
           permits' \subseteq Ids, mutex' \in Ids \cup {None}
    PROVE  ExecTypes'
BY DEF ExecTypes, Goto

(* A tool that returns leaves its execution and its watcher well typed.    *)
LEMMA ReturnTypes ==
    ASSUME ExecTypes, WatchTypes, NEW r \in Ids, Return(r)
    PROVE  ExecTypes' /\ WatchTypes'
BY DEF ExecTypes, WatchTypes, Return, Phases, WatchStates

(* Reading frames, granting and dispatching keep the types.                *)
LEMMA ChannelStepTypes ==
    ASSUME TypeInv, ChannelStep PROVE TypeInv'
<1> USE DEF TypeInv
<1>1. CASE NotifyWatchers
      BY <1>1 DEF NotifyWatchers, LeaseTypes, CacheTypes, ExecTypes, WatchTypes, CallTypes,
                  HistTypes, cacheVars, execVars, lockVars, callVars, histVars
<1>2. ASSUME ReadFrame PROVE frames' \in 0 .. MaxFrames
      BY <1>2, LimitsAssumption DEF ReadFrame, CallTypes
<1>3. ASSUME NEW s \in Sessions, NEW e \in 0 .. MaxEpoch, RenewAuthority(s, e) PROVE TypeInv'
  <2>1. LeaseTypes'
        BY <1>3, GrantTypes, Zenon DEF RenewAuthority, LeaseTypes
  <2>2. CallTypes'
        BY <1>2, <1>3 DEF RenewAuthority, CallTypes
  <2>3. CacheTypes' /\ ExecTypes' /\ WatchTypes' /\ HistTypes'
        BY <1>3 DEF RenewAuthority, CacheTypes, ExecTypes, WatchTypes, HistTypes,
                    cacheVars, execVars, lockVars, watchVars, histVars
  <2> QED BY <2>1, <2>2, <2>3
<1>4. ASSUME NEW c \in Calls, NEW m \in Request, ReceiveRequest(c, m) PROVE TypeInv'
  <2>1. CallTypes'
        BY <1>2, <1>4 DEF ReceiveRequest, CallTypes, CallStates
  <2> QED BY <1>4, <2>1 DEF ReceiveRequest, LeaseTypes, CacheTypes, ExecTypes, WatchTypes,
              HistTypes, leaseVars, cacheVars, execVars, lockVars, watchVars, histVars
<1>5. ASSUME NEW c \in Calls, DispatchConnected(c) \/ DispatchGranted(c) PROVE TypeInv'
  <2>1. call[c] # "free" /\ frames' \in 0 .. MaxFrames
        BY <1>5 DEF DispatchConnected, DispatchGranted, CallTypes
  <2>2. LeaseTypes'
    <3>1. SessionOf[req[c].content] \in Sessions /\ req[c].epoch \in 0 .. MaxEpoch
          BY <2>1, CallRequest, Zenon
    <3> QED BY <1>5, <3>1, GrantTypes, Zenon DEF DispatchConnected, DispatchGranted, LeaseTypes
  <2>3. CallTypes'
    <3>1. CASE Answer(c)
          BY <2>1, <3>1, AnswerTypes, Zenon
    <3>2. ASSUME NEW l \in {"grant", "elect"}, call' = [call EXCEPT ![c] = l],
                 UNCHANGED <<req, creg, cwoken>>
          PROVE  CallTypes'
          BY <2>1, <3>2 DEF CallTypes, CallStates
    <3> QED BY <1>5, <3>1, <3>2, Zenon DEF DispatchConnected, DispatchGranted
  <2> QED BY <1>5, <2>2, <2>3, Zenon DEF DispatchConnected, DispatchGranted, CacheTypes, ExecTypes,
              WatchTypes, HistTypes, cacheVars, execVars, lockVars, watchVars, histVars
<1>6. ASSUME NEW c \in Calls, ElectKnown(c) \/ ElectRefused(c) PROVE TypeInv'
  <2>1. CallTypes'
        BY <1>6, AnswerTypes DEF ElectKnown, ElectRefused, CallTypes
  <2> QED BY <1>6, <2>1 DEF ElectKnown, ElectRefused, LeaseTypes, CacheTypes, ExecTypes,
              WatchTypes, HistTypes, leaseVars, cacheVars, execVars, lockVars, watchVars, histVars
<1>7. ASSUME NEW c \in Calls, ElectNew(c) PROVE TypeInv'
  <2> DEFINE r == req[c].id
             s == SessionOf[req[c].content]
  <2>1. r \in Ids /\ req[c].content \in Contents /\ s \in Sessions
        BY <1>7, CallRequest DEF ElectNew
  <2>2. CacheTypes'
    <3>1. slots \cup {r} \subseteq Ids /\ (slots \cup {r}) \cap expired = {}
          BY <1>7, <2>1 DEF ElectNew, CacheTypes
    <3>2. slots' \subseteq Ids /\ expired' \subseteq Ids /\ slots' \cap expired' = {}
          BY <1>7, <3>1, EvictTypes DEF ElectNew
    <3> QED BY <1>7, <2>1, <3>2 DEF ElectNew, CacheTypes
  <2>3. CallTypes'
        BY <1>7, AnswerTypes DEF ElectNew, CallTypes
  <2>4. ExecTypes'
        BY <1>7, <2>1 DEF ElectNew, ExecTypes, LeaseTypes, Phases, lockVars
  <2>5. HistTypes'
        BY <1>7, <2>1 DEF ElectNew, HistTypes
  <2> QED BY <1>7, <2>2, <2>3, <2>4, <2>5 DEF ElectNew, LeaseTypes, WatchTypes, leaseVars, watchVars
<1>8. CASE Disconnect
  <2>1. CallTypes'
        BY <1>8 DEF Disconnect, CallTypes, CallStates
  <2> QED BY <1>8, <2>1 DEF Disconnect, LeaseTypes, CacheTypes, ExecTypes, WatchTypes,
              HistTypes, leaseVars, cacheVars, execVars, lockVars, watchVars, histVars
<1>9. CASE AuthorityRenewed
  <2>1. LeaseTypes'
        BY <1>9, GrantTypes, Zenon DEF AuthorityRenewed
  <2> QED BY <1>9, <2>1, Zenon DEF AuthorityRenewed, CacheTypes, ExecTypes, WatchTypes, CallTypes,
              HistTypes, cacheVars, execVars, lockVars, watchVars, callVars, histVars
<1> QED BY <1>1, <1>3, <1>4, <1>5, <1>6, <1>7, <1>8, <1>9, Zenon DEF ChannelStep, Dispatch

(* A call that looks at its slot, or wakes up, stays well typed.           *)
LEMMA CallStepTypes ==
    ASSUME TypeInv, NEW c \in Calls, CallStep(c) PROVE TypeInv'
<1> USE DEF TypeInv
<1>1. CallTypes'
  <2>1. CASE CallLook(c)
        BY <2>1, AnswerTypes DEF CallLook, CallTypes, CallStates
  <2>2. CASE CallWake(c)
        BY <2>2, AnswerTypes DEF CallWake, CallTypes
  <2> QED BY <2>1, <2>2 DEF CallStep
<1> QED BY <1>1 DEF CallStep, CallLook, CallWake, LeaseTypes, CacheTypes, ExecTypes, WatchTypes,
           HistTypes, leaseVars, cacheVars, execVars, lockVars, watchVars, histVars

(* An execution's steps keep the types.                                    *)
LEMMA ExecStepTypes ==
    ASSUME TypeInv, NEW r \in Ids, ExecStep(r) PROVE TypeInv'
<1> USE DEF TypeInv
<1>1. CASE Start(r) \/ Check(r)
  <2>1. LeaseTypes' /\ CacheTypes' /\ CallTypes' /\ HistTypes'
        BY <1>1 DEF Start, Check, LeaseTypes, CacheTypes, CallTypes, HistTypes,
                    leaseVars, cacheVars, callVars, histVars
  <2>2. CASE Return(r)
        BY <2>1, <2>2, ReturnTypes
  <2>3. CASE Goto(r, "permit") /\ UNCHANGED <<lockVars, watchVars>>
        BY <2>1, <2>3, GotoTypes DEF Phases, lockVars, watchVars, ExecTypes, WatchTypes
  <2>4. CASE /\ Goto(r, "apply") /\ UNCHANGED <<lockVars, reg, woken>>
             /\ watch' = [watch EXCEPT ![r] = IF Kind[print[r]] = "patch" THEN "arm" ELSE "off"]
    <3>1. ExecTypes'
          BY <2>4, GotoTypes DEF Phases, lockVars, ExecTypes
    <3>2. WatchTypes'
          BY <2>4 DEF WatchTypes, WatchStates
    <3> QED BY <2>1, <3>1, <3>2
  <2> QED BY <1>1, <2>2, <2>3, <2>4 DEF Start, Check
<1>2. CASE AcquirePermit(r) \/ AcquireMutationLock(r)
  <2>1. \E l \in Phases : Goto(r, l)
        BY <1>2 DEF AcquirePermit, AcquireMutationLock, Phases
  <2>2. permits' \subseteq Ids /\ mutex' \in Ids \cup {None}
        BY <1>2 DEF AcquirePermit, AcquireMutationLock, ExecTypes
  <2>3. ExecTypes'
        BY <2>1, <2>2, GotoTypes
  <2> QED BY <1>2, <2>3 DEF AcquirePermit, AcquireMutationLock, LeaseTypes, CacheTypes,
              WatchTypes, CallTypes, HistTypes, leaseVars, cacheVars, watchVars, callVars, histVars
<1>3. CASE Land(r)
  <2>1. gepoch[r] \in Nat
        BY LimitsAssumption DEF ExecTypes
  <2>2. landed' \in [Ids -> Nat] /\ elected' \in [Ids -> Nat]
        BY <1>3 DEF Land, HistTypes
  <2>3. effect' \in [Sessions -> Nat]
        BY <1>3, <2>1 DEF Land, HistTypes
  <2> QED BY <1>3, <2>2, <2>3 DEF Land, HistTypes, LeaseTypes, CacheTypes, ExecTypes, WatchTypes, CallTypes,
              leaseVars, cacheVars, execVars, lockVars, watchVars, callVars
<1>4. CASE Exit(r) \/ Kill(r)
  <2>1. ExecTypes' /\ WatchTypes'
        BY <1>4, ReturnTypes DEF Exit, Kill
  <2> QED BY <1>4, <2>1 DEF Exit, Kill, LeaseTypes, CacheTypes, CallTypes, HistTypes,
              leaseVars, cacheVars, callVars, histVars
<1>5. CASE Store(r, "store", "notify")
  <2>1. CacheTypes'
        BY <1>5, LimitsAssumption DEF Store, CacheTypes
  <2>2. ExecTypes'
        BY <1>5 DEF Store, ExecTypes, Phases, lockVars
  <2> QED BY <1>5, <2>1, <2>2 DEF Store, LeaseTypes, WatchTypes, CallTypes, HistTypes,
              leaseVars, watchVars, callVars, histVars
<1>6. CASE NotifyCalls(r, "notify", "order")
  <2>1. ExecTypes'
        BY <1>6, GotoTypes DEF NotifyCalls, Phases, lockVars, ExecTypes
  <2>2. CallTypes'
        BY <1>6 DEF NotifyCalls, CallTypes
  <2> QED BY <1>6, <2>1, <2>2 DEF NotifyCalls, LeaseTypes, CacheTypes, WatchTypes, HistTypes,
              leaseVars, cacheVars, watchVars, histVars
<1>7. CASE Record(r)
  <2>1. ExecTypes'
        BY <1>7, GotoTypes DEF Record, Phases, lockVars, ExecTypes
  <2>2. slots' \subseteq Ids /\ expired' \subseteq Ids /\ slots' \cap expired' = {}
        BY <1>7, EvictTypes DEF Record, CacheTypes
  <2>3. CacheTypes'
        BY <1>7, <2>2 DEF Record, CacheTypes
  <2> QED BY <1>7, <2>1, <2>3 DEF Record, LeaseTypes, WatchTypes, CallTypes, HistTypes,
              leaseVars, watchVars, callVars, histVars
<1> QED BY <1>1, <1>2, <1>3, <1>4, <1>5, <1>6, <1>7 DEF ExecStep, Reply

(* So do its watcher's.                                                    *)
LEMMA WatcherStepTypes ==
    ASSUME TypeInv, NEW r \in Ids, WatcherStep(r) PROVE TypeInv'
<1>1. WatchTypes'
      BY DEF TypeInv, WatcherStep, WatchArm, WatchLook, WatchStep, WatchTypes, WatchStates
<1> QED BY <1>1 DEF TypeInv, WatcherStep, WatchArm, WatchLook, WatchStep, LeaseTypes, CacheTypes,
           ExecTypes, CallTypes, HistTypes, leaseVars, cacheVars, execVars, lockVars,
           callVars, histVars

(* Every step keeps the types.                                             *)
LEMMA NextTypes ==
    ASSUME TypeInv, [Next]_vars PROVE TypeInv'
<1>1. ASSUME NEW s \in Sessions, Expire(s) PROVE TypeInv'
      BY <1>1 DEF Expire, TypeInv, LeaseTypes, CacheTypes, ExecTypes, WatchTypes, CallTypes,
                  HistTypes, cacheVars, execVars, lockVars, watchVars, callVars, histVars
<1>2. CASE UNCHANGED vars
      BY <1>2 DEF vars, TypeInv, LeaseTypes, CacheTypes, ExecTypes, WatchTypes, CallTypes,
                  HistTypes, leaseVars, cacheVars, execVars, lockVars, watchVars, callVars, histVars
<1> QED BY <1>1, <1>2, ChannelStepTypes, CallStepTypes, ExecStepTypes, WatcherStepTypes DEF Next

=============================================================================
