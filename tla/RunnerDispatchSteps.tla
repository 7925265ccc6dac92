------------------------- MODULE RunnerDispatchSteps -------------------------
(* What the steps of RunnerDispatch do to executions, leases and guards.   *)
EXTENDS RunnerDispatchTypes

-----------------------------------------------------------------------------
(* What the steps leave alone.                                             *)

(* Leases, guards, executions, locks and watchers stay as they are.        *)
Calm ==
    UNCHANGED <<leaseVars, slots, expired, print, exec, gepoch, ggen, mutex, watchVars, histVars>>

(* Nothing but leases and calls changes.                                   *)
OnlyLeases == UNCHANGED <<cacheVars, execVars, lockVars, watchVars, histVars>>

(* A grant reads the clock.                                                *)
Asking ==
    /\ \E s \in Sessions, e \in 1 .. MaxEpoch : ReadClock(s, e)
    /\ asked = None /\ OnlyLeases
    /\ UNCHANGED <<lepoch, lgen, llive, notify>>

(* A lease is granted, or refused to an owner that has been replaced.      *)
Granting == asked # None /\ ~Stale /\ Grant /\ OnlyLeases
Refusing == asked # None /\ Refuse /\ OnlyLeases

LeaseStep ==
    \/ NotifyWatchers
    \/ \E s \in Sessions : Expire(s)
    \/ Asking \/ Granting \/ Refusing

(* The channel task asks for a lease, or the lease is missing or invalid.  *)
LEMMA AskingSteps ==
    ASSUME TypeInv,
           \/ \E s \in Sessions, e \in 0 .. MaxEpoch : RenewAuthority(s, e)
           \/ \E c \in Calls : DispatchConnected(c)
    PROVE  Calm \/ Asking
<1> USE DEF leaseVars, cacheVars, execVars, lockVars, watchVars, histVars
<1>1. \A e \in 0 .. MaxEpoch : e # 0 => e \in 1 .. MaxEpoch
      OBVIOUS
<1>2. ASSUME NEW s \in Sessions, NEW e \in 0 .. MaxEpoch, RenewAuthority(s, e)
      PROVE  Calm \/ Asking
      BY <1>1, <1>2, Zenon DEF RenewAuthority, ReadFrame, Reading, Calm, Asking, OnlyLeases
<1>3. ASSUME NEW c \in Calls, DispatchConnected(c) PROVE Calm \/ Asking
  <2>1. SessionOf[req[c].content] \in Sessions /\ req[c].epoch \in 0 .. MaxEpoch
        BY <1>3, CallRequest, Zenon DEF DispatchConnected
  <2> QED BY <1>1, <1>3, <2>1, Zenon DEF DispatchConnected, Reading, Calm, Asking, OnlyLeases
<1> QED BY <1>2, <1>3, Zenon

(* Reading a request, finding its response, waiting for it and losing the  *)
(* connection are calm.                                                    *)
LEMMA CalmSteps ==
    ASSUME \/ \E c \in Calls, m \in Request : ReceiveRequest(c, m)
           \/ \E c \in Calls : ElectKnown(c) \/ ElectRefused(c) \/ CallStep(c)
           \/ Disconnect
    PROVE  Calm
BY Zenon DEF ReceiveRequest, ElectKnown, ElectRefused, CallStep, CallLook, CallWake, Disconnect,
             Calm, leaseVars, cacheVars, execVars, lockVars, watchVars, histVars

(* The steps of the channel task and of calls, apart from an election, are *)
(* calm, step towards a grant or notify the watchers.                      *)
LEMMA ChannelSteps ==
    ASSUME TypeInv, ChannelStep \/ \E c \in Calls : CallStep(c)
    PROVE  \/ Calm \/ LeaseStep
           \/ \E c \in Calls : ElectNew(c)
<1>1. ASSUME AuthorityRenewed \/ \E c \in Calls : DispatchGranted(c)
      PROVE  Granting \/ Refusing
      BY <1>1, Zenon DEF AuthorityRenewed, DispatchGranted, Granting, Refusing, OnlyLeases
<1> QED BY <1>1, AskingSteps, CalmSteps, Zenon DEF ChannelStep, Dispatch, LeaseStep

(* Every step, by what it disturbs.                                        *)
LEMMA Steps ==
    ASSUME TypeInv, [Next]_vars
    PROVE  \/ Calm \/ LeaseStep
           \/ \E c \in Calls : ElectNew(c)
           \/ \E r \in Ids : ExecStep(r) \/ WatcherStep(r)
<1>1. CASE UNCHANGED vars
      BY <1>1, Zenon DEF vars, Calm, cacheVars, execVars, lockVars
<1> QED BY <1>1, ChannelSteps, Zenon DEF Next, LeaseStep

(* A step of an execution changes no lease, guard or fingerprint, no slot  *)
(* or tombstone except from one to the other, and starts none.             *)
LEMMA ExecFrame ==
    ASSUME TypeInv, NEW r \in Ids, ExecStep(r)
    PROVE  /\ UNCHANGED <<leaseVars, print, gepoch, ggen, elected>>
           /\ slots' \cup expired' = slots \cup expired
           /\ exec[r] # "none" /\ exec'[r] # "none"
           /\ \A q \in Ids \ {r} : exec'[q] = exec[q]
           /\ UNCHANGED <<landed, effect>> \/ Land(r)
<1> USE DEF leaseVars, cacheVars, execVars, histVars
<1>1. CASE Start(r) \/ Check(r) \/ Exit(r) \/ Kill(r)
      BY <1>1, Zenon DEF Start, Check, Exit, Kill, Return, Goto, TypeInv, ExecTypes
<1>2. CASE AcquirePermit(r) \/ AcquireMutationLock(r) \/ Land(r)
      BY <1>2, Zenon DEF AcquirePermit, AcquireMutationLock, Land, Goto, TypeInv, ExecTypes
<1>3. CASE Store(r, "store", "notify") \/ NotifyCalls(r, "notify", "order")
      BY <1>3, Zenon DEF Store, NotifyCalls, Goto, TypeInv, ExecTypes
<1>4. CASE Record(r)
  <2>1. slots' \cup expired' = slots \cup expired
        BY <1>4, EvictTypes, Zenon DEF Record, TypeInv, CacheTypes
  <2> QED BY <1>4, <2>1, Zenon DEF Record, Goto, TypeInv, ExecTypes
<1> QED BY <1>1, <1>2, <1>3, <1>4, Zenon DEF ExecStep, Reply

-----------------------------------------------------------------------------
(* At most one execution.                                                  *)

(* An id has been executed exactly when it has a slot or a tombstone.      *)
OnceInv ==
    \A r \in Ids :
        /\ exec[r] # "none" <=> r \in slots \cup expired
        /\ elected[r] = (IF exec[r] = "none" THEN 0 ELSE 1)
        /\ landed[r] <= elected[r]

(* What an election does.                                                  *)
LEMMA ElectEffect ==
    ASSUME TypeInv, OnceInv, NEW c \in Calls, ElectNew(c)
    PROVE  \E r \in Ids, s \in Sessions :
              /\ r = req[c].id /\ s = SessionOf[req[c].content] /\ req[c].content \in Contents
              /\ exec[r] = "none" /\ exec' = [exec EXCEPT ![r] = "start"]
              /\ print' = [print EXCEPT ![r] = req[c].content]
              /\ gepoch' = [gepoch EXCEPT ![r] = lepoch[s]]
              /\ ggen' = [ggen EXCEPT ![r] = lgen[s]]
              /\ elected' = [elected EXCEPT ![r] = @ + 1]
              /\ slots' \cup expired' = slots \cup expired \cup {r}
              /\ UNCHANGED <<leaseVars, mutex, watchVars, landed, effect>>
<1> DEFINE r == req[c].id
           s == SessionOf[req[c].content]
<1>1. r \in Ids /\ req[c].content \in Contents /\ s \in Sessions
      BY CallRequest, Zenon DEF ElectNew
<1>2. r \notin slots \cup expired
      BY Zenon DEF ElectNew
<1>3. slots \cup {r} \subseteq Ids /\ (slots \cup {r}) \cap expired = {}
      BY <1>1, <1>2, Zenon DEF TypeInv, CacheTypes
<1>4. slots' \cup expired' = (slots \cup {r}) \cup expired
      BY <1>3, EvictTypes DEF ElectNew, TypeInv
<1>5. exec[r] = "none"
      BY <1>1, <1>2, Zenon DEF OnceInv
<1>6. /\ exec' = [exec EXCEPT ![r] = "start"]
      /\ print' = [print EXCEPT ![r] = req[c].content]
      /\ gepoch' = [gepoch EXCEPT ![r] = lepoch[s]]
      /\ ggen' = [ggen EXCEPT ![r] = lgen[s]]
      /\ elected' = [elected EXCEPT ![r] = @ + 1]
      /\ UNCHANGED <<leaseVars, mutex, watchVars, landed, effect>>
      BY Zenon DEF ElectNew, lockVars
<1> QED BY <1>1, <1>4, <1>5, <1>6, Zenon

(* Every step keeps it so.                                                 *)
LEMMA NextOnce ==
    ASSUME TypeInv, OnceInv, [Next]_vars PROVE OnceInv'
<1>1. CASE Calm \/ LeaseStep
  <2>1. UNCHANGED <<exec, slots, expired, elected, landed>>
        BY <1>1, Zenon DEF Calm, LeaseStep, NotifyWatchers, Expire, Asking, Granting, Refusing,
                    OnlyLeases, cacheVars, execVars, histVars
  <2> QED BY <2>1, Zenon DEF OnceInv
<1>2. ASSUME NEW r \in Ids, WatcherStep(r) PROVE OnceInv'
  <2>1. UNCHANGED <<exec, slots, expired, elected, landed>>
        BY <1>2, Zenon DEF WatcherStep, WatchArm, WatchLook, WatchStep, cacheVars, execVars, histVars
  <2> QED BY <2>1, Zenon DEF OnceInv
<1>3. ASSUME NEW r \in Ids, ExecStep(r) PROVE OnceInv'
  <2>1. /\ elected' = elected /\ slots' \cup expired' = slots \cup expired
        /\ \A q \in Ids : exec'[q] = "none" <=> exec[q] = "none"
        BY <1>3, ExecFrame, Zenon
  <2>2. \A q \in Ids : landed'[q] <= elected[q]
    <3>1. CASE landed' = landed
          BY <3>1, Zenon DEF OnceInv
    <3>2. CASE Land(r)
          BY <3>2 DEF Land, OnceInv, TypeInv, HistTypes
    <3> QED BY <1>3, <3>1, <3>2, ExecFrame, Zenon
  <2> QED BY <2>1, <2>2, Zenon DEF OnceInv
<1>4. ASSUME NEW c \in Calls, ElectNew(c) PROVE OnceInv'
  <2>1. PICK r \in Ids : /\ exec[r] = "none" /\ exec' = [exec EXCEPT ![r] = "start"]
                         /\ elected' = [elected EXCEPT ![r] = @ + 1] /\ landed' = landed
                         /\ slots' \cup expired' = slots \cup expired \cup {r}
        BY <1>4, ElectEffect, Zenon
  <2>2. \A q \in Ids : exec'[q] # "none" <=> q \in slots' \cup expired'
        BY <2>1, Zenon DEF OnceInv, TypeInv, ExecTypes
  <2>3. \A q \in Ids : /\ elected'[q] = (IF exec'[q] = "none" THEN 0 ELSE 1)
                       /\ landed'[q] <= elected'[q]
        BY <2>1 DEF OnceInv, TypeInv, ExecTypes, HistTypes
  <2> QED BY <2>2, <2>3, Zenon DEF OnceInv
<1> QED BY <1>1, <1>2, <1>3, <1>4, Steps, Zenon

-----------------------------------------------------------------------------
(* Guards.                                                                 *)

(* The guard of an execution is no newer than its session's lease, and one *)
(* of the lease's generation has the lease's epoch; an election follows a  *)
(* grant.                                                                  *)
GuardInv ==
    /\ \A r \in Ids : exec[r] # "none" =>
          /\ print[r] \in Contents /\ lepoch[Session(r)] > 0
          /\ gepoch[r] <= lepoch[Session(r)] /\ ggen[r] <= lgen[Session(r)]
          /\ ggen[r] = lgen[Session(r)] => gepoch[r] = lepoch[Session(r)]
    /\ \A c \in Calls : call[c] = "elect" => lepoch[SessionOf[req[c].content]] > 0

(* The grant under way is for the one request whose call waits for it.     *)
AskedInv ==
    \A c \in Calls : call[c] = "grant" =>
        /\ asked # None /\ asked.session = SessionOf[req[c].content]
        /\ \A d \in Calls : call[d] = "grant" => d = c

(* A grant never lowers an epoch or a generation, and keeps the generation *)
(* of a lease only with its epoch and if the clock was read while it ran.  *)
LEMMA GrantGrows ==
    ASSUME TypeInv, asked # None, ~Stale, Grant
    PROVE  /\ \A t \in Sessions : lepoch'[t] >= lepoch[t] /\ lgen'[t] >= lgen[t]
           /\ \A t \in Sessions : lgen'[t] = lgen[t] /\ lepoch[t] > 0 =>
                 /\ lepoch'[t] = lepoch[t]
                 /\ llive'[t] => \/ llive[t]
                                 \/ asked.session = t /\ asked.epoch = lepoch[t] /\ asked.live
           /\ lepoch'[asked.session] > 0
<1>1. asked.session \in Sessions /\ asked.epoch \in 1 .. MaxEpoch /\ asked.live \in BOOLEAN
      BY GrantFields, Zenon DEF TypeInv, LeaseTypes
<1>2. asked.epoch \in Nat \ {0} /\ lepoch \in [Sessions -> Nat] /\ asked.epoch >= lepoch[asked.session]
      BY <1>1, LimitsAssumption DEF TypeInv, LeaseTypes, Stale
<1>3. \A t \in Sessions \ {asked.session} :
          lepoch'[t] = lepoch[t] /\ lgen'[t] = lgen[t] /\ llive'[t] = llive[t]
      BY Zenon DEF Grant, TypeInv, LeaseTypes
<1>4. lepoch'[asked.session] = asked.epoch /\ lgen'[asked.session] = NextGeneration
      BY <1>1, Zenon DEF Grant, TypeInv, LeaseTypes
<1>5. lgen \in [Sessions -> Nat]
      BY Zenon DEF TypeInv, LeaseTypes
<1>6. /\ NextGeneration \in Nat /\ NextGeneration >= lgen[asked.session]
      /\ NextGeneration = lgen[asked.session] /\ lepoch[asked.session] > 0 =>
            asked.epoch = lepoch[asked.session] /\ asked.live
      BY <1>1, <1>2, <1>5 DEF NextGeneration
<1>7. \A t \in Sessions : lepoch'[t] >= lepoch[t] /\ lgen'[t] >= lgen[t]
      BY <1>2, <1>3, <1>4, <1>5, <1>6
<1>8. \A t \in Sessions : lgen'[t] = lgen[t] /\ lepoch[t] > 0 =>
          /\ lepoch'[t] = lepoch[t]
          /\ llive'[t] => \/ llive[t]
                          \/ asked.session = t /\ asked.epoch = lepoch[t] /\ asked.live
      BY <1>3, <1>4, <1>6, Zenon
<1>9. lepoch'[asked.session] > 0
      BY <1>2, <1>4
<1> QED BY <1>7, <1>8, <1>9, Zenon

(* No step lowers one, and only such a grant makes a lease run again       *)
(* without a new generation.                                               *)
LEMMA LeasesGrow ==
    ASSUME TypeInv, OnceInv, [Next]_vars
    PROVE  /\ \A t \in Sessions : lepoch'[t] >= lepoch[t] /\ lgen'[t] >= lgen[t]
           /\ \A t \in Sessions : lgen'[t] = lgen[t] /\ lepoch[t] > 0 =>
                 /\ lepoch'[t] = lepoch[t]
                 /\ llive'[t] => \/ llive[t]
                                 \/ /\ asked # None /\ asked.session = t
                                    /\ asked.epoch = lepoch[t] /\ asked.live
<1>1. ASSUME lepoch' = lepoch, lgen' = lgen, \A t \in Sessions : llive'[t] => llive[t]
      PROVE  /\ \A t \in Sessions : lepoch'[t] >= lepoch[t] /\ lgen'[t] >= lgen[t]
             /\ \A t \in Sessions : lepoch'[t] = lepoch[t] /\ (llive'[t] => llive[t])
  <2>1. \A t \in Sessions : lepoch[t] \in Nat /\ lgen[t] \in Nat
        BY LimitsAssumption DEF TypeInv, LeaseTypes
  <2>2. \A n \in Nat : n >= n
        OBVIOUS
  <2> QED BY <1>1, <2>1, <2>2, Zenon
<1>2. ASSUME NEW s \in Sessions, Expire(s)
      PROVE  /\ lepoch' = lepoch /\ lgen' = lgen
             /\ \A t \in Sessions : llive'[t] => llive[t]
      BY <1>2, Zenon DEF Expire, TypeInv, LeaseTypes
<1>3. CASE \E s \in Sessions : Expire(s)
      BY <1>1, <1>2, <1>3, Zenon
<1>4. CASE Granting
      BY <1>4, GrantGrows, Zenon DEF Granting
<1>5. CASE Calm \/ NotifyWatchers \/ Asking \/ Refusing
      BY <1>1, <1>5, Zenon DEF Calm, NotifyWatchers, Asking, Refusing, Refuse, leaseVars
<1>6. CASE \E c \in Calls : ElectNew(c)
      BY <1>1, <1>6, Zenon DEF ElectNew, leaseVars
<1>7. CASE \E r \in Ids : ExecStep(r) \/ WatcherStep(r)
  <2>1. ASSUME NEW r \in Ids, WatcherStep(r) PROVE UNCHANGED <<lepoch, lgen, llive>>
        BY <2>1, Zenon DEF WatcherStep, WatchArm, WatchLook, WatchStep, leaseVars
  <2>2. ASSUME NEW r \in Ids, ExecStep(r) PROVE UNCHANGED <<lepoch, lgen, llive>>
        BY <2>2, ExecFrame, Zenon DEF leaseVars
  <2> QED BY <1>1, <1>7, <2>1, <2>2, Zenon
<1> QED BY <1>3, <1>4, <1>5, <1>6, <1>7, Steps, Zenon DEF LeaseStep

(* The fingerprint and the guard of an id that has been executed stay.     *)
LEMMA GuardsStay ==
    ASSUME TypeInv, OnceInv, [Next]_vars
    PROVE  /\ \/ UNCHANGED <<print, gepoch, ggen>> /\ \A r \in Ids : exec'[r] # "none" => exec[r] # "none"
              \/ \E c \in Calls : ElectNew(c)
           /\ \A r \in Ids : exec[r] # "none" =>
                 /\ exec'[r] # "none" /\ print'[r] = print[r]
                 /\ gepoch'[r] = gepoch[r] /\ ggen'[r] = ggen[r]
<1>1. CASE UNCHANGED <<exec, print, gepoch, ggen>>
      BY <1>1, Zenon
<1>2. CASE Calm \/ LeaseStep
      BY <1>1, <1>2, Zenon DEF Calm, LeaseStep, NotifyWatchers, Expire, Asking, Granting, Refusing,
                    OnlyLeases, cacheVars, execVars
<1>3. ASSUME NEW c \in Calls, ElectNew(c)
      PROVE  \A r \in Ids : exec[r] # "none" =>
                 /\ exec'[r] # "none" /\ print'[r] = print[r]
                 /\ gepoch'[r] = gepoch[r] /\ ggen'[r] = ggen[r]
      BY <1>3, ElectEffect DEF TypeInv, CacheTypes, ExecTypes
<1>4. ASSUME NEW r \in Ids, WatcherStep(r) PROVE UNCHANGED <<exec, print, gepoch, ggen>>
      BY <1>4, Zenon DEF WatcherStep, WatchArm, WatchLook, WatchStep, cacheVars, execVars
<1>5. ASSUME NEW r \in Ids, ExecStep(r)
      PROVE  /\ UNCHANGED <<print, gepoch, ggen>>
             /\ \A q \in Ids : exec[q] # "none" <=> exec'[q] # "none"
      BY <1>5, ExecFrame, Zenon
<1> QED BY <1>1, <1>2, <1>3, <1>4, <1>5, Steps, Zenon

(* What a step does to a call.                                             *)
LEMMA CallSteps ==
    ASSUME TypeInv, [Next]_vars, NEW c \in Calls
    PROVE  \/ call'[c] = call[c] /\ req'[c] = req[c]
           \/ call'[c] \in {"free", "queued"}
           \/ DispatchConnected(c) \/ DispatchGranted(c) \/ ElectKnown(c) \/ ElectNew(c)
           \/ {call[c], call'[c]} \subseteq {"look", "sleep"} /\ req'[c] = req[c]
<1>1. ASSUME NEW d \in Calls, Dispatch(d), d # c
      PROVE  call'[c] = call[c] /\ req'[c] = req[c]
      BY <1>1, Zenon DEF Dispatch, DispatchConnected, DispatchGranted, ElectKnown, ElectRefused,
                  ElectNew, Answer, Listen, TypeInv, CallTypes
<1>2. ASSUME ElectRefused(c) PROVE call'[c] = "free"
      BY <1>2, Zenon DEF ElectRefused, Answer, TypeInv, CallTypes
<1>3. ASSUME NEW d \in Calls, NEW m \in Request, ReceiveRequest(d, m)
      PROVE  call'[c] = "queued" \/ (call'[c] = call[c] /\ req'[c] = req[c])
      BY <1>3, Zenon DEF ReceiveRequest, TypeInv, CallTypes
<1>4. CASE NotifyWatchers \/ AuthorityRenewed
         \/ \E s \in Sessions, e \in 0 .. MaxEpoch : RenewAuthority(s, e)
      BY <1>4, Zenon DEF NotifyWatchers, AuthorityRenewed, RenewAuthority, callVars
<1>5. CASE Disconnect
      BY <1>5, Zenon DEF Disconnect
<1>6. ASSUME NEW d \in Calls, CallStep(d)
      PROVE  \/ call'[c] = call[c] /\ req'[c] = req[c]
             \/ call'[c] = "free"
             \/ {call[c], call'[c]} \subseteq {"look", "sleep"} /\ req'[c] = req[c]
      BY <1>6, Zenon DEF CallStep, CallLook, CallWake, Answer, Listen, TypeInv, CallTypes
<1>7. CASE UNCHANGED vars \/ \E s \in Sessions : Expire(s)
      BY <1>7, Zenon DEF vars, Expire, callVars
<1>8. ASSUME NEW r \in Ids, ExecStep(r) \/ WatcherStep(r)
      PROVE  call' = call /\ req' = req
      BY <1>8, Zenon DEF ExecStep, Start, AcquirePermit, AcquireMutationLock, Check, Land, Exit, Kill,
                  Reply, Store, NotifyCalls, Record, WatcherStep, WatchArm, WatchLook,
                  WatchStep, callVars
<1> QED BY <1>1, <1>2, <1>3, <1>4, <1>5, <1>6, <1>7, <1>8, Zenon DEF Next, ChannelStep, Dispatch

(* Who changes the grant under way.                                        *)
LEMMA AskedSteps ==
    ASSUME TypeInv, [Next]_vars
    PROVE  \/ asked' = asked
           \/ Asking
           \/ AuthorityRenewed /\ asked' = None
           \/ \E c \in Calls : DispatchGranted(c) /\ asked' = None
<1>1. ASSUME Calm \/ NotifyWatchers \/ \E s \in Sessions : Expire(s) PROVE asked' = asked
      BY <1>1, Zenon DEF Calm, NotifyWatchers, Expire, leaseVars
<1>2. ASSUME NEW r \in Ids, ExecStep(r) \/ WatcherStep(r) PROVE asked' = asked
      BY <1>2, ExecFrame, Zenon DEF WatcherStep, WatchArm, WatchLook, WatchStep, leaseVars
<1>3. ASSUME AuthorityRenewed \/ \E c \in Calls : DispatchGranted(c) PROVE asked' = None
      BY <1>3, Zenon DEF AuthorityRenewed, DispatchGranted, Grant, Refuse
<1>4. ASSUME NEW c \in Calls, ElectNew(c) PROVE asked' = asked
      BY <1>4, Zenon DEF ElectNew, leaseVars
<1>5. CASE UNCHANGED vars
      BY <1>5, Zenon DEF vars, leaseVars
<1> QED BY <1>1, <1>2, <1>3, <1>4, <1>5, AskingSteps, CalmSteps, Zenon DEF Next, ChannelStep, Dispatch

(* While a call waits for its grant, nobody else asks for one.             *)
LEMMA NextAsked ==
    ASSUME TypeInv, AskedInv, [Next]_vars PROVE AskedInv'
<1> USE DEF AskedInv
<1>1. ASSUME NEW c \in Calls, call'[c] = "grant"
      PROVE  DispatchConnected(c) \/ (call[c] = "grant" /\ req'[c] = req[c])
  <2>1. ASSUME DispatchGranted(c) \/ ElectKnown(c) \/ ElectNew(c) PROVE FALSE
        BY <1>1, <2>1, Zenon DEF DispatchGranted, ElectKnown, ElectNew, Answer, Listen, TypeInv, CallTypes
  <2> QED BY <1>1, <2>1, CallSteps, Zenon
<1>2. ASSUME NEW c \in Calls, DispatchConnected(c), call'[c] = "grant"
      PROVE  /\ asked' # None /\ asked'.session = SessionOf[req'[c].content]
             /\ \A d \in Calls : call[d] # "grant" /\ (call'[d] = "grant" => d = c)
  <2>1. ReadClock(SessionOf[req[c].content], req[c].epoch) /\ req[c].epoch # 0 /\ req' = req
        BY <1>2, Zenon DEF DispatchConnected, Answer, TypeInv, CallTypes
  <2>2. asked' # None
        BY <1>2, <2>1, CallRequest, ClockRead, Zenon DEF DispatchConnected, TypeInv
  <2>3. asked'.session = SessionOf[req[c].content]
        BY <2>1 DEF ReadClock
  <2>4. asked = None /\ \A d \in Calls : call[d] # "grant"
        BY <1>2, Zenon DEF DispatchConnected, Reading
  <2>5. \A d \in Calls : d # c => call'[d] = call[d]
        BY <1>2, Zenon DEF DispatchConnected, Answer, TypeInv, CallTypes
  <2> QED BY <2>1, <2>2, <2>3, <2>4, <2>5, Zenon
<1>3. ASSUME NEW c \in Calls, call[c] = "grant", call'[c] = "grant" PROVE asked' = asked
  <2>1. asked # None
        BY <1>3, Zenon
  <2>2. ~Asking
        BY <2>1, Zenon DEF Asking
  <2>3. ASSUME NEW d \in Calls, DispatchGranted(d) PROVE FALSE
        BY <1>3, <2>3, Zenon DEF DispatchGranted, Answer, TypeInv, CallTypes
  <2> QED BY <1>3, <2>2, <2>3, AskedSteps, Zenon DEF AuthorityRenewed
<1>4. ASSUME NEW c \in Calls, call'[c] = "grant"
      PROVE  /\ asked' # None /\ asked'.session = SessionOf[req'[c].content]
             /\ \A d \in Calls : call'[d] = "grant" => d = c
      BY <1>1, <1>2, <1>3, <1>4, Zenon
<1> QED BY <1>4, Zenon

(* A call reaches its election only through a grant to its session.        *)
LEMMA ElectingGranted ==
    ASSUME TypeInv, TypeInv', OnceInv, GuardInv, AskedInv, [Next]_vars,
           NEW c \in Calls, call'[c] = "elect"
    PROVE  lepoch'[SessionOf[req'[c].content]] > 0
<1>1. CASE call[c] = "elect" /\ req'[c] = req[c]
  <2>1. SessionOf[req[c].content] \in Sessions
        BY <1>1, CallRequest, Zenon
  <2>2. lepoch[SessionOf[req[c].content]] > 0
        BY <1>1, Zenon DEF GuardInv
  <2>3. lepoch'[SessionOf[req[c].content]] >= lepoch[SessionOf[req[c].content]]
        BY <2>1, LeasesGrow, Zenon
  <2>4. lepoch[SessionOf[req[c].content]] \in Nat
        BY <2>1 DEF TypeInv, LeaseTypes
  <2>5. lepoch'[SessionOf[req[c].content]] \in Nat
        BY <2>1 DEF TypeInv, LeaseTypes
  <2> QED BY <1>1, <2>2, <2>3, <2>4, <2>5
<1>2. CASE DispatchGranted(c)
  <2>1. asked # None /\ ~Stale /\ Grant /\ req' = req
        BY <1>2, Zenon DEF DispatchGranted, Answer, TypeInv, CallTypes
  <2>2. asked.session = SessionOf[req[c].content]
        BY <1>2, Zenon DEF DispatchGranted, AskedInv
  <2> QED BY <2>1, <2>2, GrantGrows, Zenon
<1>3. ASSUME DispatchConnected(c) \/ ElectKnown(c) \/ ElectNew(c) PROVE FALSE
      BY <1>3, Zenon DEF DispatchConnected, ElectKnown, ElectNew, Answer, Listen, TypeInv, CallTypes
<1> QED BY <1>1, <1>2, <1>3, CallSteps, Zenon

(* Every step keeps it so.                                                 *)
LEMMA NextGuard ==
    ASSUME TypeInv, TypeInv', OnceInv, GuardInv, AskedInv, [Next]_vars PROVE GuardInv'
<1>1. ASSUME NEW r \in Ids, exec[r] # "none"
      PROVE  /\ print'[r] \in Contents /\ lepoch'[Session(r)'] > 0
             /\ gepoch'[r] <= lepoch'[Session(r)'] /\ ggen'[r] <= lgen'[Session(r)']
             /\ ggen'[r] = lgen'[Session(r)'] => gepoch'[r] = lepoch'[Session(r)']
  <2> DEFINE s == SessionOf[print[r]]
  <2>1. /\ print'[r] = print[r] /\ gepoch'[r] = gepoch[r] /\ ggen'[r] = ggen[r]
        BY <1>1, GuardsStay, Zenon
  <2>2. print[r] \in Contents /\ s \in Sessions
        BY <1>1, ContentsAssumption, Zenon DEF GuardInv
  <2>3. /\ lepoch[s] > 0 /\ gepoch[r] <= lepoch[s] /\ ggen[r] <= lgen[s]
        /\ ggen[r] = lgen[s] => gepoch[r] = lepoch[s]
        BY <1>1, Zenon DEF GuardInv, Session
  <2>4. /\ lepoch'[s] >= lepoch[s] /\ lgen'[s] >= lgen[s]
        /\ lgen'[s] = lgen[s] => lepoch'[s] = lepoch[s]
        BY <2>2, <2>3, LeasesGrow, Zenon
  <2>5. /\ lepoch[s] \in Nat /\ lgen[s] \in Nat /\ gepoch[r] \in Nat /\ ggen[r] \in Nat
        /\ lepoch'[s] \in Nat /\ lgen'[s] \in Nat
        BY <2>2 DEF TypeInv, LeaseTypes, ExecTypes
  <2>6. Session(r)' = s
        BY <2>1, Zenon DEF Session
  <2>7. /\ lepoch'[s] > 0 /\ gepoch[r] <= lepoch'[s] /\ ggen[r] <= lgen'[s]
        /\ ggen[r] = lgen'[s] => gepoch[r] = lepoch'[s]
        BY <2>3, <2>4, <2>5
  <2> HIDE DEF s
  <2> QED BY <2>1, <2>2, <2>6, <2>7, Zenon
<1>2. ASSUME NEW r \in Ids, exec[r] = "none", exec'[r] # "none"
      PROVE  /\ print'[r] \in Contents /\ lepoch'[Session(r)'] > 0
             /\ gepoch'[r] <= lepoch'[Session(r)'] /\ ggen'[r] <= lgen'[Session(r)']
             /\ ggen'[r] = lgen'[Session(r)'] => gepoch'[r] = lepoch'[Session(r)']
  <2>1. PICK c \in Calls : ElectNew(c)
        BY <1>2, GuardsStay, Zenon
  <2> DEFINE s == SessionOf[req[c].content]
  <2>2. /\ r = req[c].id /\ req[c].content \in Contents /\ s \in Sessions
        /\ print' = [print EXCEPT ![r] = req[c].content]
        /\ gepoch' = [gepoch EXCEPT ![r] = lepoch[s]] /\ ggen' = [ggen EXCEPT ![r] = lgen[s]]
        /\ lepoch' = lepoch /\ lgen' = lgen
        BY <1>2, <2>1, ElectEffect DEF TypeInv, ExecTypes, leaseVars
  <2>3. print'[r] = req[c].content /\ gepoch'[r] = lepoch[s] /\ ggen'[r] = lgen[s]
        BY <2>2, Zenon DEF TypeInv, CacheTypes, ExecTypes
  <2>4. lepoch[s] > 0 /\ lepoch[s] \in Nat /\ lgen[s] \in Nat
        BY <2>1, <2>2 DEF ElectNew, GuardInv, TypeInv, LeaseTypes
  <2>5. Session(r)' = s
        BY <2>3, Zenon DEF Session
  <2> HIDE DEF s
  <2> QED BY <2>2, <2>3, <2>4, <2>5
<1> QED BY <1>1, <1>2, ElectingGranted, Zenon DEF GuardInv

(* A guard that is neither valid nor being renewed stays so: a generation  *)
(* that is over is over, and who reads the clock now finds the lease       *)
(* expired.                                                                *)
LEMMA GuardStep ==
    ASSUME TypeInv, TypeInv', OnceInv, GuardInv, [Next]_vars,
           NEW r \in Ids, exec[r] # "none", ~Valid(r), ~Renewing(r)
    PROVE  ~Valid(r)' /\ ~Renewing(r)'
<1> DEFINE s == SessionOf[print[r]]
<1>1. print'[r] = print[r] /\ gepoch'[r] = gepoch[r] /\ ggen'[r] = ggen[r]
      BY GuardsStay, Zenon
<1>2. s \in Sessions /\ lepoch[s] > 0 /\ ggen[r] <= lgen[s]
      BY ContentsAssumption, Zenon DEF GuardInv, Session
<1>3. /\ lgen'[s] >= lgen[s]
      /\ lgen'[s] = lgen[s] =>
            /\ lepoch'[s] = lepoch[s]
            /\ llive'[s] => \/ llive[s]
                            \/ /\ asked # None /\ asked.session = s
                               /\ asked.epoch = lepoch[s] /\ asked.live
      BY <1>2, LeasesGrow, Zenon
<1>4. lgen[s] \in Nat /\ lgen'[s] \in Nat /\ ggen[r] \in Nat
      BY <1>2, Zenon DEF TypeInv, LeaseTypes, ExecTypes
<1>5. lgen'[s] = ggen[r] => lgen[s] = ggen[r] /\ lgen'[s] = lgen[s]
      BY <1>2, <1>3, <1>4
<1>6. Session(r) = s /\ Session(r)' = s
      BY <1>1, Zenon DEF Session
<1>7. Held(r)' => Held(r)
      BY <1>1, <1>3, <1>5, <1>6, Zenon DEF Held
<1>8. ~Valid(r)'
      BY <1>1, <1>3, <1>5, <1>6, <1>7, Zenon DEF Valid, Held, Renewing
<1>9. ~Renewing(r)'
  <2>1. CASE asked' = asked \/ asked' = None
        BY <1>1, <1>6, <1>7, <2>1, Zenon DEF Renewing
  <2>2. CASE Asking
    <3>1. PICK t \in Sessions, e \in 1 .. MaxEpoch : ReadClock(t, e)
          BY <2>2, Zenon DEF Asking
    <3>2. asked'.session = t /\ asked'.live = llive[t]
          BY <3>1 DEF ReadClock
    <3>3. ASSUME Renewing(r)' PROVE FALSE
      <4>1. asked'.session = s /\ Held(r) /\ asked'.live
            BY <1>6, <1>7, <3>3, Zenon DEF Renewing
      <4> QED BY <1>6, <3>2, <4>1, Zenon DEF Valid
    <3> QED BY <3>3, Zenon
  <2> QED BY <2>1, <2>2, AskedSteps, Zenon DEF Grant, Refuse
<1> QED BY <1>8, <1>9, Zenon

=============================================================================
