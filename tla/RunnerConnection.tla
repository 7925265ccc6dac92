-------------------------- MODULE RunnerConnection --------------------------
(***************************************************************************)
(* Runner processes of one workspace and their way to the control plane:    *)
(* the workspace lock, registration, the socket and its token, the channel  *)
(* join that brings the execution limits, serving, and the retries after    *)
(* every failure (crates/kodo/src/control_plane.rs, lock_runner in          *)
(* workspace.rs, ExecutionLimits in protocol.rs).  The control plane        *)
(* restarts, rejects tokens, publishes other limits, and learns late that   *)
(* a channel is dead (lib/kodo_web/channels/runner_channel.ex).  How long    *)
(* a retry waits is left out: time passes by the order of steps.            *)
(***************************************************************************)
EXTENDS Naturals, FiniteSets

CONSTANTS Hosts,           \* runner processes started on the workspace
          Policies,        \* limits the control plane may publish
          None,
          MaxPayload,      \* MAX_CONNECTED_PAYLOAD_BYTES
          EscapeExpansion, \* JSON_ESCAPE_EXPANSION
          EnvelopeBytes,   \* RESPONSE_ENVELOPE_BYTES
          MetadataBytes,   \* RESULT_METADATA_BYTES
          MaxLimitValue,   \* MAX_LIMIT_VALUE
          MaxBlockingTools,
          MaxFaults        \* bound: failures, restarts, rotations and kills

Quotas == {"output", "results", "patch", "file", "blocking", "retained",
           "chunks", "cached", "cachedBytes"}

ASSUME ConnectionAssumption ==
  /\ None \notin Hosts \cup Policies \cup [host: Hosts, live: BOOLEAN]
  /\ Policies \subseteq [Quotas -> Nat]
  /\ {MaxPayload, EscapeExpansion, EnvelopeBytes, MetadataBytes} \subseteq Nat
  /\ {MaxLimitValue, MaxBlockingTools, MaxFaults} \subseteq Nat

VARIABLES pc,            \* where each process is in serve_inner
          registration,  \* the token it holds
          runtime,       \* the limits its dispatcher was made with
          sock,          \* its socket is open
          offer,         \* the limits in a join reply on its way
          lock,          \* the holder of the workspace lock
          up, policy,    \* the control plane runs, and publishes these limits
          secret,        \* tokens issued before this are rejected
          registry,      \* the registered channel, and whether its peer is there
          faults

hostVars == <<pc, registration, runtime, offer>>
serverVars == <<up, policy, secret>>
vars == <<hostVars, sock, lock, serverVars, registry, faults>>

(* ExecutionLimits::maximum_encoded_response_bytes and validate.            *)
MaximumEncodedResponse(l) ==
  l["output"] * EscapeExpansion + (l["results"] + l["chunks"]) * MetadataBytes + EnvelopeBytes
Valid(l) ==
  /\ \A q \in Quotas : l[q] \in 1 .. MaxLimitValue
  /\ l["blocking"] <= MaxBlockingTools
  /\ MaximumEncodedResponse(l) <= MaxPayload
  /\ MaximumEncodedResponse(l) <= l["cachedBytes"]
  /\ l["patch"] * EscapeExpansion + EnvelopeBytes <= MaxPayload

Channel(h, live) == [host |-> h, live |-> live]
Holding == {"register", "connect", "join", "serve", "sleep"}
Serving(h) == pc[h] = "serve" /\ sock[h]

Init ==
  /\ pc = [h \in Hosts |-> "exited"]
  /\ registration = [h \in Hosts |-> None]
  /\ runtime = [h \in Hosts |-> None]
  /\ sock = [h \in Hosts |-> FALSE]
  /\ offer = [h \in Hosts |-> None]
  /\ lock = None
  /\ up = TRUE /\ policy \in {l \in Policies : Valid(l)} /\ secret = 0
  /\ registry = None
  /\ faults = 0

Goto(h, p) == pc' = [pc EXCEPT ![h] = p]
Fault == faults < MaxFaults /\ faults' = faults + 1

(* The mutant of Drop that keeps the reply of the socket it drops.          *)
DropKeepsOffer(h) ==
  /\ sock' = [sock EXCEPT ![h] = FALSE]
  /\ UNCHANGED offer
  /\ registry' = IF registry = Channel(h, TRUE) THEN Channel(h, FALSE) ELSE registry

(* The process drops its socket; the channel at the other end finds out later. *)
Drop(h) ==
  /\ sock' = [sock EXCEPT ![h] = FALSE]
  /\ offer' = [offer EXCEPT ![h] = None]
  /\ registry' = IF registry = Channel(h, TRUE) THEN Channel(h, FALSE) ELSE registry

(* serve_inner returns, or the process dies: nothing of it is kept.         *)
Leave(h, p) ==
  /\ Goto(h, p) /\ Drop(h)
  /\ registration' = [registration EXCEPT ![h] = None]
  /\ runtime' = [runtime EXCEPT ![h] = None]
  /\ lock' = IF lock = h THEN None ELSE lock

(* The mutant of LockRunner that does not ask for the lock exclusively.     *)
LockShared(h) ==
  /\ pc[h] = "lock"
  /\ Goto(h, "register") /\ lock' = h
  /\ UNCHANGED <<registration, runtime, offer, sock, serverVars, registry, faults>>

(* lock_runner: taken at once or the process gives up; it also gives up when *)
(* the lock file cannot be opened.                                          *)
LockRunner(h) ==
  /\ pc[h] = "lock"
  /\ \/ lock = None /\ Goto(h, "register") /\ lock' = h
     \/ Goto(h, "exited") /\ UNCHANGED lock
  /\ UNCHANGED <<registration, runtime, offer, sock, serverVars, registry, faults>>

(* A program starts in the workspace: discover finds the worktree root, and  *)
(* the base URL is accepted, or it ends.                                    *)
Discover(h) ==
  /\ pc[h] = "exited"
  /\ Goto(h, "url")
  /\ UNCHANGED <<registration, runtime, offer, sock, lock, serverVars, registry, faults>>

ValidateBaseUrl(h) ==
  /\ pc[h] = "url"
  /\ Goto(h, "lock") \/ Goto(h, "exited")
  /\ UNCHANGED <<registration, runtime, offer, sock, lock, serverVars, registry, faults>>

(* register and validate_registration; a held registration is used again.   *)
Register(h) ==
  /\ pc[h] = "register" /\ (registration[h] # None \/ up)
  /\ Goto(h, "connect")
  /\ registration' = [registration EXCEPT ![h] = IF @ = None THEN secret ELSE @]
  /\ UNCHANGED <<runtime, offer, sock, lock, serverVars, registry, faults>>

RegisterFails(h) ==
  /\ pc[h] = "register" /\ registration[h] = None
  /\ \/ up /\ Fault
     \/ ~up /\ UNCHANGED faults
  /\ Goto(h, "sleep")
  /\ UNCHANGED <<registration, runtime, offer, sock, lock, serverVars, registry>>

(* connect_and_join up to the socket.                                       *)
Connect(h) ==
  /\ pc[h] = "connect" /\ up /\ registration[h] = secret
  /\ Goto(h, "join") /\ sock' = [sock EXCEPT ![h] = TRUE]
  /\ UNCHANGED <<registration, runtime, offer, lock, serverVars, registry, faults>>

ConnectFails(h) ==
  /\ pc[h] = "connect"
  /\ \/ up /\ Fault
     \/ ~up /\ UNCHANGED faults
  /\ Goto(h, "sleep")
  /\ UNCHANGED <<registration, runtime, offer, sock, lock, serverVars, registry>>

(* The mutants of AuthRejected that keep the token, and that begin anew.    *)
RejectedKeepsToken(h) ==
  /\ pc[h] = "connect" /\ up /\ registration[h] # secret
  /\ Goto(h, "sleep")
  /\ UNCHANGED <<registration, runtime, offer, sock, lock, serverVars, registry, faults>>
RejectedStartsAfresh(h) ==
  /\ pc[h] = "connect" /\ up /\ registration[h] # secret
  /\ Goto(h, "sleep")
  /\ registration' = [registration EXCEPT ![h] = None]
  /\ runtime' = [runtime EXCEPT ![h] = None]
  /\ UNCHANGED <<offer, sock, lock, serverVars, registry, faults>>

(* 401 or 403: the registration is given up, the dispatcher is not.         *)
AuthRejected(h) ==
  /\ pc[h] = "connect" /\ up /\ registration[h] # secret
  /\ Goto(h, "sleep")
  /\ registration' = [registration EXCEPT ![h] = None]
  /\ UNCHANGED <<runtime, offer, sock, lock, serverVars, registry, faults>>

(* RunnerChannel.join: one registered channel for the runner.               *)
ServerJoin(h) ==
  /\ up /\ pc[h] = "join" /\ sock[h] /\ registry = None /\ offer[h] = None
  /\ registry' = Channel(h, TRUE)
  /\ offer' = [offer EXCEPT ![h] = policy]
  /\ UNCHANGED <<pc, registration, runtime, sock, lock, serverVars, faults>>

(* join is refused (another channel is registered, the runner's row cannot   *)
(* be updated), closed or breaks off: a transport error, tried again.       *)
JoinFails(h) ==
  /\ pc[h] = "join" /\ offer[h] = None
  /\ \/ (~sock[h] \/ registry # None) /\ UNCHANGED faults
     \/ Fault
  /\ Goto(h, "sleep") /\ Drop(h)
  /\ UNCHANGED <<registration, runtime, lock, serverVars>>

(* The mutant of JoinReply that serves on with the dispatcher it has.       *)
JoinKeepsRuntime(h) ==
  /\ pc[h] = "join" /\ sock[h] /\ offer[h] # None
  /\ Goto(h, "serve")
  /\ runtime' = [runtime EXCEPT ![h] = IF @ = None THEN offer[h] ELSE @]
  /\ offer' = [offer EXCEPT ![h] = None]
  /\ UNCHANGED <<registration, sock, lock, serverVars, registry, faults>>

(* parse_join_limits and the choice of the dispatcher: invalid limits and   *)
(* limits other than those of the running dispatcher end serve_inner.       *)
JoinReply(h) ==
  /\ pc[h] = "join" /\ sock[h] /\ offer[h] # None
  /\ LET usable == Valid(offer[h]) /\ runtime[h] \in {None, offer[h]}
     IN \/ /\ usable
           /\ Goto(h, "serve")
           /\ runtime' = [runtime EXCEPT ![h] = offer[h]]
           /\ offer' = [offer EXCEPT ![h] = None]
           /\ UNCHANGED <<registration, sock, lock, registry>>
        \/ ~usable /\ Leave(h, "exited")
  /\ UNCHANGED <<serverVars, faults>>

(* channel_loop returns: the peer or the network closed, a heartbeat or a    *)
(* response cannot be sent, or a frame does not parse.                      *)
ChannelEnds(h) ==
  /\ pc[h] = "serve"
  /\ \/ ~sock[h] /\ UNCHANGED faults
     \/ sock[h] /\ Fault
  /\ Goto(h, "sleep") /\ Drop(h)
  /\ UNCHANGED <<registration, runtime, lock, serverVars>>

Wake(h) ==
  /\ pc[h] = "sleep"
  /\ Goto(h, "register")
  /\ UNCHANGED <<registration, runtime, offer, sock, lock, serverVars, registry, faults>>

Kill(h) ==
  /\ pc[h] \in Holding /\ Fault
  /\ Leave(h, "exited")
  /\ UNCHANGED serverVars

(* The network fails under a served connection; neither end knows yet.      *)
Cut(h) ==
  /\ Serving(h) /\ Fault
  /\ Drop(h)
  /\ UNCHANGED <<pc, registration, runtime, lock, serverVars>>

(* The control plane.                                                       *)
NoticeDead ==
  /\ registry # None /\ ~registry.live
  /\ registry' = None
  /\ UNCHANGED <<hostVars, sock, lock, serverVars, faults>>

ServerStops ==
  /\ up /\ Fault
  /\ up' = FALSE /\ registry' = None
  /\ sock' = [h \in Hosts |-> FALSE]
  /\ offer' = [h \in Hosts |-> None]
  /\ UNCHANGED <<pc, registration, runtime, lock, policy, secret>>

ServerStarts ==
  /\ ~up /\ up' = TRUE
  /\ policy' \in Policies
  /\ UNCHANGED <<hostVars, sock, lock, secret, registry, faults>>

RotateSecret ==
  /\ up /\ Fault
  /\ secret' = secret + 1
  /\ UNCHANGED <<hostVars, sock, lock, up, policy, registry>>

HostStep(h) ==
  \/ Register(h) \/ RegisterFails(h) \/ Connect(h) \/ ConnectFails(h) \/ AuthRejected(h)
  \/ JoinFails(h) \/ JoinReply(h) \/ ChannelEnds(h) \/ Wake(h)

Next ==
  \/ \E h \in Hosts : Discover(h) \/ ValidateBaseUrl(h) \/ LockRunner(h) \/ HostStep(h)
                      \/ ServerJoin(h) \/ Cut(h) \/ Kill(h)
  \/ NoticeDead \/ ServerStops \/ ServerStarts \/ RotateSecret

(* serve_inner keeps running, the control plane answers, restarts when it is *)
(* down, and drops the channel of a peer that is gone.                      *)
Fairness ==
  /\ \A h \in Hosts : WF_vars(HostStep(h)) /\ WF_vars(ServerJoin(h))
  /\ WF_vars(NoticeDead) /\ WF_vars(ServerStarts)

Spec == Init /\ [][Next]_vars
FairSpec == Spec /\ Fairness

(* The types, and where replies and sockets can be: a join reply is on its   *)
(* way only over an open socket whose join waits for it.                    *)
TypeOK ==
  /\ pc \in [Hosts -> {"exited", "url", "lock"} \cup Holding]
  /\ registration \in [Hosts -> {None} \cup 0 .. secret]
  /\ runtime \in [Hosts -> {None} \cup Policies] /\ offer \in [Hosts -> {None} \cup Policies]
  /\ sock \in [Hosts -> BOOLEAN] /\ lock \in {None} \cup Hosts
  /\ up \in BOOLEAN /\ policy \in Policies /\ secret \in 0 .. MaxFaults
  /\ registry \in {None} \cup [host: Hosts, live: BOOLEAN]
  /\ faults \in 0 .. MaxFaults
  /\ \A h \in Hosts : /\ sock[h] => pc[h] \in {"join", "serve"}
                      /\ offer[h] # None => sock[h] /\ pc[h] = "join"

(* Two programs on one workspace, restarts and channels that die late: only  *)
(* the holder of the workspace lock works towards a connection, and a runner *)
(* that serves over an open socket is the one the control plane dispatches   *)
(* to.  (lock_runner, RunnerChannel.join)                                   *)
OneRunnerServes ==
  \A h \in Hosts :
    /\ pc[h] \in Holding <=> lock = h
    /\ Serving(h) => registry = Channel(h, TRUE)

(* Across restarts of the control plane with other limits a runner that      *)
(* serves enforces the limits its control plane publishes, and they are      *)
(* limits under which no response outgrows a frame or the cache.             *)
(* (serve_inner, ExecutionLimits::validate)                                 *)
ServesPublishedLimits ==
  \A h \in Hosts : Serving(h) =>
    /\ runtime[h] = policy
    /\ \A n \in 0 .. policy["output"], k \in 0 .. policy["results"] + policy["chunks"] :
         n * EscapeExpansion + k * MetadataBytes + EnvelopeBytes
           <= IF MaxPayload < policy["cachedBytes"] THEN MaxPayload ELSE policy["cachedBytes"]

(* "credentials may refresh without discarding running commands, request     *)
(* elections, or cached mutation responses from the current policy epoch":   *)
(* while a process hosts the workspace its dispatcher is never replaced,     *)
(* whatever connections, tokens and control planes come and go.             *)
PolicyEpochKept ==
  [][\A h \in Hosts : runtime[h] # None /\ runtime'[h] # runtime[h] => pc'[h] \notin Holding]_vars

(* A runner that has the workspace serves again, or gives up because of the  *)
(* limits: no order of rejected tokens, refused joins, lingering channels    *)
(* and restarts leaves it retrying for ever.  (serve_inner)                 *)
ServesAgain ==
  \A h \in Hosts : pc[h] \in Holding ~> Serving(h) \/ pc[h] = "exited"
=============================================================================
