--------------------------- MODULE RunnerDispatch ---------------------------
(***************************************************************************)
(* Tool requests on the runner: AuthorityRegistry, Dispatcher and the      *)
(* authority checks around the tools that change the workspace.            *)
(*                                                                         *)
(* One task reads the channel; it grants leases and looks requests up in   *)
(* the response cache.  The first request with an id elects an execution   *)
(* task that outlives the channel; later ones wait for the same response.  *)
(* Executions, their lease watchers and the waiting calls interleave.      *)
(*                                                                         *)
(* A lease is an epoch, a generation and one bit for its expiry time being *)
(* in the future.  A grant reads the clock before it takes the registry's  *)
(* lock and decides by that reading.  A request's fingerprint is its       *)
(* content, which includes its session.  Epoch 0 stands for a missing or   *)
(* invalid lease.                                                          *)
(***************************************************************************)
EXTENDS Integers, FiniteSets, Sequences, SequencesExt

CONSTANTS
    Ids,        \* request ids
    Sessions,   \* sessions with this runner
    Contents,   \* what a request can ask for
    SessionOf,  \* the session of a content
    Kind,       \* "patch", "replace" or "read"
    Calls,      \* calls the channel task can have in flight
    Sizes,      \* lengths of a serialized response
    MaxCached,  \* max_cached_requests
    MaxBytes,   \* max_cached_response_bytes
    Permits,    \* max_blocking_tools
    None,       \* no content, no holder
    MaxEpoch,   \* bound: ownership epochs
    MaxFrames   \* bound: frames read from the channel

ASSUME ContentsAssumption ==
    /\ SessionOf \in [Contents -> Sessions]
    /\ Kind \in [Contents -> {"patch", "replace", "read"}]
    /\ None \notin Contents \cup Ids
ASSUME LimitsAssumption ==
    /\ {MaxCached, Permits} \subseteq Nat \ {0}
    /\ {MaxBytes, MaxEpoch, MaxFrames} \subseteq Nat
    /\ Sizes \subseteq Nat
ASSUME FiniteAssumption == IsFiniteSet(Ids) /\ IsFiniteSet(Calls)

VARIABLES
    \* authority registry, per session:
    lepoch, lgen, llive,
    asked,      \* the grant that has read the clock and not yet the lease
    notify,     \* a grant has been stored and its waiters not yet notified
    \* response cache:
    slots,      \* ids with a slot
    expired,    \* tombstones
    print,      \* fingerprint of a slot or tombstone
    order,      \* completed ids, oldest first
    size,       \* length of a completed response
    bytes,      \* response_bytes
    \* execution task of an id:
    exec,       \* what it is doing
    gepoch,     \* epoch and generation of its authority guard
    ggen,
    stored,     \* ids whose slot holds the response
    permits,    \* holders of a blocking-tool permit
    mutex,      \* holder of the mutation lock
    watch,      \* what its lease watcher (wait_until_invalid) is doing
    reg,        \* watchers registered with the registry's Notify
    woken,      \* registered watchers that were notified
    \* calls of the channel task:
    call,       \* what the call is doing
    req,        \* its request
    creg,       \* calls registered with their slot's Notify
    cwoken,     \* registered calls that were notified
    frames,     \* frames read so far
    \* history, read by the properties only:
    elected,    \* executions started for an id
    landed,     \* workspace changes made for an id
    effect      \* epoch of the session's last workspace change

leaseVars == <<lepoch, lgen, llive, asked, notify>>
cacheVars == <<slots, expired, print, order, size, bytes>>
execVars  == <<exec, gepoch, ggen, stored>>
lockVars  == <<permits, mutex>>
watchVars == <<watch, reg, woken>>
callVars  == <<call, req, creg, cwoken, frames>>
histVars  == <<elected, landed, effect>>
vars == <<leaseVars, cacheVars, execVars, lockVars, watchVars, callVars, histVars>>

-----------------------------------------------------------------------------
Request == [id : Ids, content : Contents, epoch : 0 .. MaxEpoch]
Grants == [session : Sessions, epoch : 1 .. MaxEpoch, live : BOOLEAN]
ASSUME GrantsAssumption == None \notin Grants

Phases == {"none", "start", "permit", "lock", "check", "apply",
           "store", "notify", "order", "done"}
Active == {"start", "permit", "lock", "check", "apply"}

Session(r) == SessionOf[print[r]]

(* AuthorityGuard::ensure_valid, which reads the clock under the lock.     *)
Held(r) == lepoch[Session(r)] = gepoch[r] /\ lgen[Session(r)] = ggen[r]
Valid(r) == Held(r) /\ llive[Session(r)]

(* The channel task does not read between a grant and the next await of   *)
(* the request it was for.                                                 *)
Reading == asked = None /\ ~notify /\ \A c \in Calls : call[c] # "elect"

Init ==
    /\ lepoch = [s \in Sessions |-> 0] /\ lgen = [s \in Sessions |-> 0]
    /\ llive = [s \in Sessions |-> FALSE] /\ asked = None /\ notify = FALSE
    /\ slots = {} /\ expired = {} /\ order = <<>> /\ bytes = 0
    /\ print = [r \in Ids |-> None] /\ size = [r \in Ids |-> 0]
    /\ exec = [r \in Ids |-> "none"]
    /\ gepoch = [r \in Ids |-> 0] /\ ggen = [r \in Ids |-> 0]
    /\ stored = {} /\ permits = {} /\ mutex = None
    /\ watch = [r \in Ids |-> "off"] /\ reg = {} /\ woken = {}
    /\ call = [c \in Calls |-> "free"] /\ req = [c \in Calls |-> None]
    /\ creg = {} /\ cwoken = {} /\ frames = 0
    /\ elected = [r \in Ids |-> 0] /\ landed = [r \in Ids |-> 0]
    /\ effect = [s \in Sessions |-> 0]

-----------------------------------------------------------------------------
(* AuthorityRegistry::grant: the clock is read, then the lease is decided  *)
(* on and stored under the lock, then the watchers are notified.           *)

ReadClock(s, e) == asked' = [session |-> s, epoch |-> e, live |-> llive[s]]

Stale == asked.epoch < lepoch[asked.session]

(* Mutant: a lease that ran out is taken up again by a renewal.            *)
NextGenerationKept ==
    LET s == asked.session
    IN  IF lepoch[s] \in {0, asked.epoch} THEN lgen[s] ELSE lgen[s] + 1

(* Whether the lease still runs is decided by the clock as it was read; it *)
(* may have run out since.                                                 *)
NextGeneration ==
    LET s == asked.session
    IN  IF lepoch[s] = 0 \/ (lepoch[s] = asked.epoch /\ asked.live)
        THEN lgen[s] ELSE lgen[s] + 1

(* Mutant: a grant tells nobody.                                           *)
GrantSilently ==
    /\ lepoch' = [lepoch EXCEPT ![asked.session] = asked.epoch]
    /\ lgen' = [lgen EXCEPT ![asked.session] = NextGeneration]
    /\ llive' = [llive EXCEPT ![asked.session] = TRUE]
    /\ asked' = None /\ notify' = FALSE

Grant ==
    /\ lepoch' = [lepoch EXCEPT ![asked.session] = asked.epoch]
    /\ lgen' = [lgen EXCEPT ![asked.session] = NextGeneration]
    /\ llive' = [llive EXCEPT ![asked.session] = TRUE]
    /\ asked' = None /\ notify' = TRUE

(* An owner that has been replaced gets an error.                          *)
Refuse == asked' = None /\ UNCHANGED <<lepoch, lgen, llive, notify>>

NotifyWatchers ==
    /\ notify
    /\ notify' = FALSE
    /\ woken' = woken \cup reg
    /\ UNCHANGED <<lepoch, lgen, llive, asked, cacheVars, execVars, lockVars, watch, reg, callVars, histVars>>

Expire(s) ==
    /\ llive[s]
    /\ llive' = [llive EXCEPT ![s] = FALSE]
    /\ UNCHANGED <<lepoch, lgen, asked, notify, cacheVars, execVars, lockVars, watchVars, callVars, histVars>>

-----------------------------------------------------------------------------
(* Frames: authority_lease and tool_request.                               *)

(* At capacity no frame is read, not even a lease renewal.                 *)
ReadFrame ==
    /\ Reading
    /\ \E c \in Calls : call[c] = "free"
    /\ frames < MaxFrames /\ frames' = frames + 1

RenewAuthority(s, e) ==
    /\ ReadFrame
    /\ IF e = 0 THEN UNCHANGED asked ELSE ReadClock(s, e)
    /\ UNCHANGED <<lepoch, lgen, llive, notify, cacheVars, execVars, lockVars, watchVars,
                   call, req, creg, cwoken, histVars>>

AuthorityRenewed ==
    /\ asked # None /\ \A c \in Calls : call[c] # "grant"
    /\ IF Stale THEN Refuse ELSE Grant
    /\ UNCHANGED <<cacheVars, execVars, lockVars, watchVars, callVars, histVars>>

(* The request's future is queued; it starts when it is first polled.      *)
ReceiveRequest(c, m) ==
    /\ call[c] = "free"
    /\ ReadFrame
    /\ call' = [call EXCEPT ![c] = "queued"]
    /\ req' = [req EXCEPT ![c] = m]
    /\ UNCHANGED <<leaseVars, cacheVars, execVars, lockVars, watchVars, creg, cwoken, histVars>>

Answer(c) ==
    /\ call' = [call EXCEPT ![c] = "free"]
    /\ req' = [req EXCEPT ![c] = None]
    /\ creg' = creg \ {c} /\ cwoken' = cwoken \ {c}

(* dispatch_connected: a request that is refused its lease is answered.    *)
DispatchConnected(c) ==
    /\ call[c] = "queued" /\ Reading
    /\ IF req[c].epoch = 0
       THEN Answer(c) /\ UNCHANGED asked
       ELSE /\ ReadClock(SessionOf[req[c].content], req[c].epoch)
            /\ call' = [call EXCEPT ![c] = "grant"]
            /\ UNCHANGED <<req, creg, cwoken>>
    /\ UNCHANGED <<lepoch, lgen, llive, notify, cacheVars, execVars, lockVars, watchVars,
                   frames, histVars>>

DispatchGranted(c) ==
    /\ call[c] = "grant" /\ asked # None
    /\ IF Stale
       THEN Refuse /\ Answer(c)
       ELSE /\ Grant
            /\ call' = [call EXCEPT ![c] = "elect"]
            /\ UNCHANGED <<req, creg, cwoken>>
    /\ UNCHANGED <<cacheVars, execVars, lockVars, watchVars, frames, histVars>>

(* wait_for_response, up to the look at the response: the Notified hears   *)
(* of every notification from its creation on.                             *)
Listen(c) ==
    /\ call' = [call EXCEPT ![c] = "look"]
    /\ creg' = creg \cup {c} /\ cwoken' = cwoken \ {c}
    /\ UNCHANGED req

(* Mutant: the id alone decides which response is waited for.              *)
ElectKnownById(c) ==
    /\ call[c] = "elect" /\ ~notify
    /\ req[c].id \in slots \cup expired
    /\ IF req[c].id \in slots THEN Listen(c) ELSE Answer(c)
    /\ UNCHANGED <<leaseVars, cacheVars, execVars, lockVars, watchVars, frames, histVars>>

(* dispatch_with_authority, the section under the cache lock: a known id.  *)
ElectKnown(c) ==
    LET r == req[c].id IN
    /\ call[c] = "elect" /\ ~notify
    /\ r \in slots \cup expired
    /\ IF r \in slots /\ print[r] = req[c].content THEN Listen(c) ELSE Answer(c)
    /\ UNCHANGED <<leaseVars, cacheVars, execVars, lockVars, watchVars, frames, histVars>>

(* No completed response can make room.                                    *)
ElectRefused(c) ==
    LET r == req[c].id IN
    /\ call[c] = "elect" /\ ~notify
    /\ r \notin slots \cup expired
    /\ Cardinality(slots) >= MaxCached /\ order = <<>>
    /\ Answer(c)
    /\ UNCHANGED <<leaseVars, cacheVars, execVars, lockVars, watchVars, frames, histVars>>

Oldest(o, k) == {o[i] : i \in 1 .. k}
Weight(ids) == MapThenSumSet(LAMBDA r : size[r], ids)

(* Mutant: an evicted id leaves no tombstone.                              *)
EvictForgetting(o, k, kept, total) ==
    /\ order' = SubSeq(o, k + 1, Len(o))
    /\ slots' = kept \ Oldest(o, k)
    /\ UNCHANGED expired
    /\ bytes' = total - Weight(Oldest(o, k))

(* Mutant: an evicted response stays in its slot.                          *)
EvictKeeping(o, k, kept, total) ==
    /\ order' = SubSeq(o, k + 1, Len(o))
    /\ slots' = kept
    /\ expired' = expired \cup (kept \cap Oldest(o, k))
    /\ bytes' = total - Weight(Oldest(o, k))

(* Mutant: the cached length is not given back.                            *)
EvictLeaking(o, k, kept, total) ==
    /\ order' = SubSeq(o, k + 1, Len(o))
    /\ slots' = kept \ Oldest(o, k)
    /\ expired' = expired \cup (kept \cap Oldest(o, k))
    /\ bytes' = total

(* remove_cached_response for the k oldest of the completed responses.     *)
Evict(o, k, kept, total) ==
    /\ order' = SubSeq(o, k + 1, Len(o))
    /\ slots' = kept \ Oldest(o, k)
    /\ expired' = expired \cup (kept \cap Oldest(o, k))
    /\ bytes' = total - Weight(Oldest(o, k))

(* A new id: one eviction makes room, for every completed id has a slot    *)
(* and there are never more slots than MaxCached.                          *)
ElectNew(c) ==
    LET r == req[c].id
        s == SessionOf[req[c].content]
        k == IF Cardinality(slots) >= MaxCached THEN 1 ELSE 0
    IN  /\ call[c] = "elect" /\ ~notify
        /\ r \notin slots \cup expired
        /\ k <= Len(order)
        /\ Evict(order, k, slots \cup {r}, bytes)
        /\ print' = [print EXCEPT ![r] = req[c].content]
        /\ exec' = [exec EXCEPT ![r] = "start"]
        /\ gepoch' = [gepoch EXCEPT ![r] = lepoch[s]]
        /\ ggen' = [ggen EXCEPT ![r] = lgen[s]]
        /\ elected' = [elected EXCEPT ![r] = @ + 1]
        /\ Listen(c)
        /\ UNCHANGED <<leaseVars, size, stored, lockVars, watchVars, frames, landed, effect>>

-----------------------------------------------------------------------------
(* wait_for_response.                                                      *)

CallLook(c) ==
    /\ call[c] = "look"
    /\ IF req[c].id \in stored
       THEN Answer(c)
       ELSE call' = [call EXCEPT ![c] = "sleep"] /\ UNCHANGED <<req, creg, cwoken>>
    /\ UNCHANGED <<leaseVars, cacheVars, execVars, lockVars, watchVars, frames, histVars>>

CallWake(c) ==
    /\ call[c] = "sleep" /\ c \in cwoken
    /\ Listen(c)
    /\ UNCHANGED <<leaseVars, cacheVars, execVars, lockVars, watchVars, frames, histVars>>

(* The connection is lost: its calls are dropped, executions go on.        *)
Disconnect ==
    /\ Reading
    /\ \E c \in Calls : call[c] # "free"
    /\ call' = [c \in Calls |-> "free"] /\ req' = [c \in Calls |-> None]
    /\ creg' = {} /\ cwoken' = {}
    /\ UNCHANGED <<leaseVars, cacheVars, execVars, lockVars, watchVars, frames, histVars>>

-----------------------------------------------------------------------------
(* spawn_execution and Runner::execute_authorized.                         *)

Goto(r, l) == exec' = [exec EXCEPT ![r] = l] /\ UNCHANGED <<gepoch, ggen, stored>>

(* The tool returns: permit and mutation lock are given back.              *)
Return(r) ==
    /\ exec' = [exec EXCEPT ![r] = "store"]
    /\ permits' = permits \ {r}
    /\ mutex' = IF mutex = r THEN None ELSE mutex
    /\ watch' = [watch EXCEPT ![r] = "off"]
    /\ reg' = reg \ {r} /\ woken' = woken \ {r}
    /\ UNCHANGED <<gepoch, ggen, stored>>

(* The first check.  A request over its size limits is refused, and one    *)
(* for the process manager needs no permit.                                *)
Start(r) ==
    /\ exec[r] = "start"
    /\ \/ Valid(r) /\ Goto(r, "permit") /\ UNCHANGED <<lockVars, watchVars>>
       \/ Return(r)
    /\ UNCHANGED <<leaseVars, cacheVars, callVars, histVars>>

AcquirePermit(r) ==
    /\ exec[r] = "permit"
    /\ Cardinality(permits) < Permits
    /\ permits' = permits \cup {r}
    /\ Goto(r, IF Kind[print[r]] = "read" THEN "check" ELSE "lock")
    /\ UNCHANGED <<leaseVars, cacheVars, mutex, watchVars, callVars, histVars>>

AcquireMutationLock(r) ==
    /\ exec[r] = "lock"
    /\ mutex = None
    /\ mutex' = r
    /\ Goto(r, "check")
    /\ UNCHANGED <<leaseVars, cacheVars, permits, watchVars, callVars, histVars>>

(* Mutant: the lease is not checked again once the lock is held.           *)
CheckNothing(r) ==
    /\ exec[r] = "check"
    /\ Kind[print[r]] # "read" /\ Goto(r, "apply")
    /\ watch' = [watch EXCEPT ![r] = IF Kind[print[r]] = "patch" THEN "arm" ELSE "off"]
    /\ UNCHANGED <<leaseVars, cacheVars, lockVars, reg, woken, callVars, histVars>>

(* The last check before the change.  A patch is also tried out with       *)
(* git apply --check, which may reject it; a read is over after this.      *)
Check(r) ==
    /\ exec[r] = "check"
    /\ \/ /\ Valid(r) /\ Kind[print[r]] # "read" /\ Goto(r, "apply")
          /\ watch' = [watch EXCEPT ![r] = IF Kind[print[r]] = "patch" THEN "arm" ELSE "off"]
          /\ UNCHANGED <<lockVars, reg, woken>>
       \/ (~Valid(r) \/ Kind[print[r]] # "replace") /\ Return(r)
    /\ UNCHANGED <<leaseVars, cacheVars, callVars, histVars>>

(* The workspace changes: git apply or the atomic file replacement.        *)
Land(r) ==
    /\ exec[r] = "apply"
    /\ landed[r] < elected[r]
    /\ landed' = [landed EXCEPT ![r] = @ + 1]
    /\ effect' = [effect EXCEPT ![Session(r)] = gepoch[r]]
    /\ UNCHANGED <<leaseVars, cacheVars, execVars, lockVars, watchVars, callVars, elected>>

(* git exits by itself while its watcher, which is polled first, has       *)
(* nothing to say; or the replacement returns.                             *)
Exit(r) ==
    /\ exec[r] = "apply" /\ watch[r] \in {"off", "sleep"}
    /\ Return(r)
    /\ UNCHANGED <<leaseVars, cacheVars, callVars, histVars>>

(* git is terminated and reaped before the lock is given back.             *)
Kill(r) ==
    /\ exec[r] = "apply" /\ watch[r] = "fired"
    /\ Return(r)
    /\ UNCHANGED <<leaseVars, cacheVars, callVars, histVars>>

-----------------------------------------------------------------------------
(* wait_until_invalid, beside a running git apply.  It is woken by a       *)
(* notification or when the expiry time it has read comes.                 *)

WatchStep(r, l) ==
    /\ watch' = [watch EXCEPT ![r] = l]
    /\ UNCHANGED <<leaseVars, cacheVars, execVars, lockVars, callVars, histVars>>

WatchArm(r) ==
    /\ \/ watch[r] = "arm"
       \/ watch[r] = "sleep" /\ (r \in woken \/ ~llive[Session(r)])
    /\ reg' = reg \cup {r} /\ woken' = woken \ {r}
    /\ WatchStep(r, "look")

WatchLook(r) ==
    /\ watch[r] = "look"
    /\ UNCHANGED <<reg, woken>>
    /\ WatchStep(r, IF Valid(r) THEN "sleep" ELSE "fired")

-----------------------------------------------------------------------------
(* The response: into the slot, to the waiting calls, into the cache.      *)

Store(r, at, next) ==
    /\ exec[r] = at
    /\ stored' = stored \cup {r}
    /\ \E n \in Sizes : size' = [size EXCEPT ![r] = n]
    /\ exec' = [exec EXCEPT ![r] = next]
    /\ UNCHANGED <<leaseVars, slots, expired, print, order, bytes, gepoch, ggen,
                   lockVars, watchVars, callVars, histVars>>

NotifyCalls(r, at, next) ==
    /\ exec[r] = at
    /\ cwoken' = cwoken \cup {c \in creg : req[c].id = r}
    /\ Goto(r, next)
    /\ UNCHANGED <<leaseVars, cacheVars, lockVars, watchVars, call, req, creg, frames, histVars>>

(* How many of the oldest go until the rest fits, the newest included.     *)
Excess(o, total) ==
    CHOOSE k \in 0 .. Len(o) :
        /\ total - Weight(Oldest(o, k)) <= MaxBytes \/ k = Len(o)
        /\ \A j \in 0 .. k - 1 : total - Weight(Oldest(o, j)) > MaxBytes

Record(r) ==
    LET o == Append(order, r) IN
    /\ exec[r] = "order"
    /\ IF r \in slots
       THEN Evict(o, Excess(o, bytes + size[r]), slots, bytes + size[r])
       ELSE UNCHANGED <<slots, expired, order, bytes>>
    /\ Goto(r, "done")
    /\ UNCHANGED <<leaseVars, print, size, lockVars, watchVars, callVars, histVars>>

(* Mutant: the calls are notified before the response is there.            *)
ReplyNotifyFirst(r) ==
    NotifyCalls(r, "store", "notify") \/ Store(r, "notify", "order") \/ Record(r)

Reply(r) ==
    Store(r, "store", "notify") \/ NotifyCalls(r, "notify", "order") \/ Record(r)

-----------------------------------------------------------------------------
Dispatch(c) ==
    \/ DispatchConnected(c) \/ DispatchGranted(c)
    \/ ElectKnown(c) \/ ElectRefused(c) \/ ElectNew(c)

ChannelStep ==
    \/ AuthorityRenewed \/ NotifyWatchers
    \/ \E s \in Sessions, e \in 0 .. MaxEpoch : RenewAuthority(s, e)
    \/ \E c \in Calls : \/ \E m \in Request : ReceiveRequest(c, m)
                        \/ Dispatch(c)
    \/ Disconnect

CallStep(c) == CallLook(c) \/ CallWake(c)
WatcherStep(r) == WatchArm(r) \/ WatchLook(r)
ExecStep(r) ==
    \/ Start(r) \/ AcquirePermit(r) \/ AcquireMutationLock(r) \/ Check(r)
    \/ Land(r) \/ Exit(r) \/ Kill(r) \/ Reply(r)

Next ==
    \/ ChannelStep
    \/ \E s \in Sessions : Expire(s)
    \/ \E c \in Calls : CallStep(c)
    \/ \E r \in Ids : ExecStep(r) \/ WatcherStep(r)

Spec == Init /\ [][Next]_vars

(* Every ready task is scheduled, and Tokio's semaphore and mutex are      *)
(* queues.  Leases run out: the bounded number of frames stands for one    *)
(* not being renewed for ever.  The blocking tools and the preflight come  *)
(* to an end; git apply itself may hang.                                   *)
Fairness ==
    /\ WF_vars(AuthorityRenewed) /\ WF_vars(NotifyWatchers)
    /\ \A s \in Sessions : WF_vars(Expire(s))
    /\ \A c \in Calls : WF_vars(CallStep(c)) /\ WF_vars(Dispatch(c))
    /\ \A r \in Ids :
          /\ WF_vars(WatcherStep(r)) /\ WF_vars(Reply(r))
          /\ WF_vars(Start(r)) /\ WF_vars(AcquirePermit(r)) /\ WF_vars(AcquireMutationLock(r))
          /\ WF_vars(Check(r)) /\ WF_vars(Kill(r)) /\ WF_vars(watch[r] = "off" /\ Exit(r))

FairSpec == Spec /\ Fairness

-----------------------------------------------------------------------------
(* Properties.                                                             *)

(* Types; moreover an id never has both a slot and a tombstone             *)
(* (remove_cached_response), and only registered waiters are notified.     *)
TypeOK ==
    /\ lepoch \in [Sessions -> 0 .. MaxEpoch] /\ lgen \in [Sessions -> Nat]
    /\ llive \in [Sessions -> BOOLEAN] /\ asked \in Grants \cup {None} /\ notify \in BOOLEAN
    /\ slots \subseteq Ids /\ expired \subseteq Ids /\ slots \cap expired = {}
    /\ print \in [Ids -> Contents \cup {None}] /\ size \in [Ids -> Nat]
    /\ exec \in [Ids -> Phases]
    /\ gepoch \in [Ids -> 0 .. MaxEpoch] /\ ggen \in [Ids -> Nat]
    /\ stored \subseteq Ids /\ permits \subseteq Ids /\ mutex \in Ids \cup {None}
    /\ watch \in [Ids -> {"off", "arm", "look", "sleep", "fired"}]
    /\ reg \subseteq Ids /\ woken \subseteq reg
    /\ call \in [Calls -> {"free", "queued", "grant", "elect", "look", "sleep"}]
    /\ req \in [Calls -> Request \cup {None}]
    /\ creg \subseteq Calls /\ cwoken \subseteq creg /\ frames \in 0 .. MaxFrames
    /\ elected \in [Ids -> Nat] /\ landed \in [Ids -> Nat] /\ effect \in [Sessions -> Nat]

(* However often a request is sent, under whatever leases and over however *)
(* many connections, a runner process executes it at most once: eviction   *)
(* leaves a tombstone.  (Dispatcher, "a stale retry can never execute the  *)
(* same mutation again")                                                   *)
AtMostOnce == \A r \in Ids : elected[r] <= 1 /\ landed[r] <= 1

(* The cache's books balance: exactly the completed slots are queued for   *)
(* eviction, once each, response_bytes is their total length and within    *)
(* its limit, and so is the number of slots.                               *)
CacheAccounting ==
    /\ IsInjective(order)
    /\ ToSet(order) = {r \in slots : exec[r] = "done"}
    /\ bytes = Weight(ToSet(order)) /\ bytes <= MaxBytes
    /\ Cardinality(slots) <= MaxCached

(* A call that waits for a response waits for that of its own request,     *)
(* which has been computed or is being executed.  (fingerprint check)      *)
CallsShareOnlyEqualRequests ==
    \A c \in Calls : call[c] \in {"look", "sleep"} =>
        /\ print[req[c].id] = req[c].content
        /\ exec[req[c].id] # "none"

(* A renewal of the guard's own lease is under way that read the clock     *)
(* while the lease still ran.                                              *)
Renewing(r) ==
    /\ asked # None /\ asked.session = Session(r)
    /\ Held(r) /\ asked.epoch = gepoch[r] /\ asked.live

(* A guard that is invalid is so for ever, unless such a renewal is under  *)
(* way: grant reads the clock before it takes the lock, so a lease that    *)
(* runs out in between is taken up again.  Neither a renewal that began    *)
(* after the lease ran out nor an older owner's late lease revives one.    *)
(* (generation in AuthorityRegistry::grant)                                *)
GuardsNeverRevive ==
    [][\A r \in Ids : exec[r] \in Active /\ ~Valid(r) /\ ~Renewing(r)
            => ~Valid(r)' /\ ~Renewing(r)']_vars

(* Once a change of a newer owner has reached the workspace, none of an    *)
(* older owner does.  (checks under the mutation lock)                     *)
MutationsInEpochOrder ==
    [][\A s \in Sessions : effect'[s] >= effect[s]]_vars

(* A watcher that sleeps while its lease has been superseded has been      *)
(* notified or is about to be: no wake-up is lost.  (enable before the     *)
(* lookup in wait_until_invalid)                                           *)
SupersededIsWoken ==
    \A r \in Ids : watch[r] = "sleep" /\ ~Valid(r) /\ llive[Session(r)]
        => r \in woken \/ notify

(* Every call is answered unless its connection is lost, even if git hangs,*)
(* provided its lease is not renewed for ever.  (wait_for_response)        *)
CallsAnswered ==
    \A c \in Calls : call[c] # "free" ~> call[c] = "free"

=============================================================================
