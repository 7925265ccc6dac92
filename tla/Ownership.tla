------------------------------ MODULE Ownership ------------------------------
(***************************************************************************)
(* Durable session ownership in the control plane.                         *)
(*                                                                         *)
(* A session row carries (owner_boot_id, ownership_epoch).  A coordinator  *)
(* (ActiveSession) claims the row, or has it transferred, under PostgreSQL *)
(* advisory locks; every durable write re-checks its token under the row   *)
(* lock, and every message to the runner is sent while the session's       *)
(* advisory lock is held.  The runner rejects an epoch lower than the one  *)
(* it has already accepted.                                                *)
(*                                                                         *)
(* Whether a heartbeat is recent enough is one bit per instance row        *)
(* (fresh); time passing is the action GoStale.  The coordinator process   *)
(* and its loop task share one token and are modelled as one process.      *)
(***************************************************************************)
EXTENDS Integers, FiniteSets

CONSTANTS
    Nodes,      \* distributed Erlang nodes
    Boots,      \* boot incarnations (instance rows)
    Sessions,   \* session rows
    NodeOf,     \* the node of each boot
    Capacity,   \* declared capacity of each boot
    Capable,    \* boots that advertise "session-ownership-v1"
    Rehoming,   \* boots that also advertise "session-rehoming-v1"
    Deployed,   \* boots already up and ready in the initial state
    Online,     \* sessions whose runner has a live channel
    Busy,       \* bound: sessions that append and dispatch within a turn
    NoBoot,     \* the null owner_boot_id
    Free,       \* an advisory lock nobody holds
    MaxEpoch,   \* bound: claims and transfers stop at this epoch
    MaxPlaced,  \* bound: outstanding requests to start a coordinator
    MaxFaults   \* bound: missed heartbeats, crashes, losses and drains

(* A coordinator is registered under its session on its node, so there is  *)
(* at most one per node and session.                                       *)
Procs == Nodes \X Sessions
Node(p) == p[1]
Sess(p) == p[2]

ASSUME BootsAssumption == NodeOf \in [Boots -> Nodes] /\ NoBoot \notin Boots
ASSUME DeployedAssumption ==
    Deployed \subseteq Boots
    /\ \A b, c \in Deployed : NodeOf[b] = NodeOf[c] => b = c
ASSUME CapacityAssumption == Capacity \in [Boots -> Nat \ {0}]
ASSUME CapabilityAssumption == Capable \subseteq Boots /\ Rehoming \subseteq Capable
ASSUME LockAssumption == Free \notin Procs
ASSUME SessionsAssumption == IsFiniteSet(Sessions) /\ Online \cup Busy \subseteq Sessions
ASSUME BoundsAssumption == {MaxEpoch, MaxPlaced, MaxFaults} \subseteq Nat

VARIABLES
    registered, \* boots with an instance row
    up,         \* boots whose supervision tree runs
    ready,      \* rows with ready = true
    draining,   \* rows with draining = true
    fresh,      \* rows whose last_seen_at is within the stale bound
    owner,      \* session row: owner_boot_id
    epoch,      \* session row: ownership_epoch
    counted,    \* sessions in a status that counts against capacity
    \* coordinator processes:
    pc,         \* what the process is doing
    boot,       \* the boot it was started for
    tok,        \* the epoch of its ownership token, 0 while it has none
    prev,       \* the token it takes over (a rehoming start), or NoToken
    job,        \* what it is dispatching
    via,        \* first start, or restart by its supervisor
    \* advisory locks and messages:
    slock,      \* holder of the session's advisory lock
    ilock,      \* holder of the instance's advisory lock
    placed,     \* requests to start a coordinator, not yet handled
    wire,       \* messages on their way to the runner
    runner,     \* highest epoch the runner process has accepted, per session
    faults,     \* faults so far
    \* history, read by the properties only:
    writer,     \* epoch of the last durable event of each session
    effect,     \* epoch of the last message any runner process accepted
    over,       \* sessions reactivated on their owner without admission
    lost        \* processes whose lock connection dropped under them

instVars == <<registered, up, ready, draining, fresh>>
rowVars  == <<owner, epoch, counted, writer, over>>
lockVars == <<slock, ilock, lost>>
wireVars == <<wire, runner, effect>>
procVars == <<pc, boot, tok, prev, job, via>>
vars == <<instVars, rowVars, lockVars, wireVars, procVars, placed, faults>>

-----------------------------------------------------------------------------
Pcs == {"none", "claim", "locked", "checked", "live", "wait", "assert",
        "send", "failing", "rehoming"}
Jobs == {"none", "join", "lease", "tool"}
Token == [boot : Boots \cup {NoBoot}, epoch : Nat]
NoToken == [boot |-> NoBoot, epoch |-> 0]
StartRequest == [session : Sessions, boot : Boots, prev : Token]
Message == [session : Sessions, epoch : Nat]

(* What a step makes of a coordinator process.                             *)
Step(p, l) == pc' = [pc EXCEPT ![p] = l] /\ UNCHANGED <<boot, tok, prev, job, via>>

GoIdle(p) ==
    /\ pc' = [pc EXCEPT ![p] = "none"]
    /\ boot' = [boot EXCEPT ![p] = NoBoot]
    /\ tok' = [tok EXCEPT ![p] = 0]
    /\ prev' = [prev EXCEPT ![p] = NoToken]
    /\ job' = [job EXCEPT ![p] = "none"]
    /\ via' = [via EXCEPT ![p] = "start"]

(* The supervisor starts it again with the arguments of its child          *)
(* specification, the previous token included.                             *)
Retry(p) ==
    /\ pc' = [pc EXCEPT ![p] = "claim"]
    /\ tok' = [tok EXCEPT ![p] = 0]
    /\ job' = [job EXCEPT ![p] = "none"]
    /\ via' = [via EXCEPT ![p] = "restart"]
    /\ UNCHANGED <<boot, prev>>

(* An init that fails ends a first start; a restart is tried again.        *)
FailInit(p) == IF via[p] = "start" THEN GoIdle(p) ELSE Retry(p)

(* Instances.list_eligible, alive?, ownership_supported_cluster_wide?.     *)
Eligible == {b \in ready : b \notin draining /\ b \in fresh}
Alive(b) == b \in fresh
Supported(b) == b \in Eligible /\ Eligible \subseteq Capable

(* Sessions.ownership_matches?, claimable?, validate_capacity!.            *)
Matches(s, b, e) == owner[s] = b /\ epoch[s] = e
Claimable(s, b) ==
    \/ owner[s] = NoBoot
    \/ owner[s] = b
    \/ owner[s] \in Boots /\ NodeOf[owner[s]] = NodeOf[b]
    \/ owner[s] \in Boots /\ ~Alive(owner[s])
OwnedBy(b) == {s \in counted : owner[s] = b}
HasRoom(s, b) == owner[s] = b \/ Cardinality(OwnedBy(b)) < Capacity[b]

(* A transaction that has read the session FOR UPDATE blocks other writers *)
(* of that row until it commits.                                           *)
RowLocked(s) == \E p \in Procs : Sess(p) = s /\ pc[p] = "checked"

Holding(p) == slock[Sess(p)] = p
Release(p) ==
    /\ slock' = [s \in Sessions |-> IF slock[s] = p THEN Free ELSE slock[s]]
    /\ ilock' = [b \in Boots |-> IF ilock[b] = p THEN Free ELSE ilock[b]]

(* The supervisor stops every coordinator of a node; the processes holding *)
(* their locks see them go DOWN and release.                               *)
KillCoordinators(n) ==
    /\ pc' = [p \in Procs |-> IF Node(p) = n THEN "none" ELSE pc[p]]
    /\ boot' = [p \in Procs |-> IF Node(p) = n THEN NoBoot ELSE boot[p]]
    /\ tok' = [p \in Procs |-> IF Node(p) = n THEN 0 ELSE tok[p]]
    /\ prev' = [p \in Procs |-> IF Node(p) = n THEN NoToken ELSE prev[p]]
    /\ job' = [p \in Procs |-> IF Node(p) = n THEN "none" ELSE job[p]]
    /\ via' = [p \in Procs |-> IF Node(p) = n THEN "start" ELSE via[p]]
    /\ slock' = [s \in Sessions |->
          IF slock[s] \in Procs /\ Node(slock[s]) = n THEN Free ELSE slock[s]]
    /\ ilock' = [b \in Boots |->
          IF ilock[b] \in Procs /\ Node(ilock[b]) = n THEN Free ELSE ilock[b]]

Init ==
    /\ registered = Deployed /\ up = Deployed /\ ready = Deployed
    /\ fresh = Deployed /\ draining = {}
    /\ owner = [s \in Sessions |-> NoBoot]
    /\ epoch = [s \in Sessions |-> 0]
    /\ counted = Sessions
    /\ pc = [p \in Procs |-> "none"]
    /\ boot = [p \in Procs |-> NoBoot]
    /\ tok = [p \in Procs |-> 0]
    /\ prev = [p \in Procs |-> NoToken]
    /\ job = [p \in Procs |-> "none"]
    /\ via = [p \in Procs |-> "start"]
    /\ slock = [s \in Sessions |-> Free]
    /\ ilock = [b \in Boots |-> Free]
    /\ placed = {} /\ wire = {}
    /\ runner = [s \in Sessions |-> 0]
    /\ writer = [s \in Sessions |-> 0]
    /\ effect = [s \in Sessions |-> 0]
    /\ over = {} /\ lost = {} /\ faults = 0

Fault == faults < MaxFaults /\ faults' = faults + 1

-----------------------------------------------------------------------------
(* Instance rows: InstanceManager and Kodo.Cluster.Instances.              *)

(* register_current: a new boot, or the same boot after its manager was    *)
(* restarted; it starts not ready and retires the node's other boots.      *)
SameNode(b) == {c \in Boots : NodeOf[c] = NodeOf[b]}

RegisterRow(b) ==
    /\ registered' = registered \cup {b}
    /\ ready' = ready \ SameNode(b)
    /\ fresh' = fresh \cup {b}
    /\ UNCHANGED draining

Register(b) ==
    /\ b \notin registered
    /\ SameNode(b) \cap up = {}
    /\ RegisterRow(b)
    /\ up' = up \cup {b}
    /\ UNCHANGED <<rowVars, lockVars, wireVars, procVars, placed, faults>>

RestartManager(b) ==
    /\ b \in up
    /\ RegisterRow(b)
    /\ KillCoordinators(NodeOf[b])
    /\ Fault
    /\ UNCHANGED <<up, rowVars, lost, wireVars, placed>>

(* Mutant: readiness is restored while draining.                           *)
MarkReadyDraining(b) ==
    /\ b \in up
    /\ ready' = ready \cup {b}
    /\ fresh' = fresh \cup {b}
    /\ UNCHANGED <<registered, up, draining, rowVars, lockVars, wireVars, procVars, placed, faults>>

MarkReady(b) ==
    /\ b \in up /\ b \notin draining
    /\ ready' = ready \cup {b}
    /\ fresh' = fresh \cup {b}
    /\ UNCHANGED <<registered, up, draining, rowVars, lockVars, wireVars, procVars, placed, faults>>

Heartbeat(b) ==
    /\ b \in up
    /\ fresh' = fresh \cup {b}
    /\ UNCHANGED <<registered, up, ready, draining, rowVars, lockVars, wireVars, procVars, placed, faults>>

GoStale(b) ==
    /\ b \in fresh
    /\ fresh' = fresh \ {b}
    /\ Fault
    /\ UNCHANGED <<registered, up, ready, draining, rowVars, lockVars, wireVars, procVars, placed>>

BeginDrain(b) ==
    /\ b \in up
    /\ ready' = ready \ {b}
    /\ draining' = draining \cup {b}
    /\ fresh' = fresh \cup {b}
    /\ Fault
    /\ UNCHANGED <<registered, up, rowVars, lockVars, wireVars, procVars, placed>>

NodeDown(b) ==
    /\ b \in up
    /\ up' = up \ {b}
    /\ KillCoordinators(NodeOf[b])
    /\ Fault
    /\ UNCHANGED <<registered, ready, draining, fresh, rowVars, lost, wireVars, placed>>

-----------------------------------------------------------------------------
(* Placement and the start of a coordinator.                               *)

RequestStart(s, b, t) ==
    /\ Cardinality(placed) < MaxPlaced
    /\ placed' = placed \cup {[session |-> s, boot |-> b, prev |-> t]}

(* Placement.select: a compatible, eligible instance; the durable owner    *)
(* even when full, any other only below its capacity.  Which of them wins  *)
(* (reachability, generation, load ratio) is left open.                    *)
Selectable(s, b, caps) == b \in Eligible \cap caps /\ HasRoom(s, b)

Place(s, b) ==
    /\ Selectable(s, b, Capable)
    /\ RequestStart(s, b, NoToken)
    /\ UNCHANGED <<instVars, rowVars, lockVars, wireVars, procVars, faults>>

(* A draining owner too old to hand its sessions over is relieved by the   *)
(* recovery sweep of another node.                                         *)
LegacyRehome(s, b) ==
    /\ owner[s] \in draining \ Rehoming
    /\ Selectable(s, b, Rehoming)
    /\ RequestStart(s, b, [boot |-> owner[s], epoch |-> epoch[s]])
    /\ UNCHANGED <<instVars, rowVars, lockVars, wireVars, procVars, faults>>

(* start_child on the target: a coordinator already registered there, or a *)
(* boot that is gone, leaves things as they are.                           *)
StartChild(r) ==
    LET p == <<NodeOf[r.boot], r.session>> IN
    /\ r \in placed
    /\ placed' = placed \ {r}
    /\ IF r.boot \in up /\ pc[p] = "none"
       THEN /\ pc' = [pc EXCEPT ![p] = "claim"]
            /\ boot' = [boot EXCEPT ![p] = r.boot]
            /\ prev' = [prev EXCEPT ![p] = r.prev]
            /\ UNCHANGED <<tok, job, via>>
       ELSE UNCHANGED procVars
    /\ UNCHANGED <<instVars, rowVars, lockVars, wireVars, faults>>

LoseStart(r) ==
    /\ r \in placed
    /\ placed' = placed \ {r}
    /\ Fault
    /\ UNCHANGED <<instVars, rowVars, lockVars, wireVars, procVars>>

-----------------------------------------------------------------------------
(* claim_ownership and transfer_ownership.                                 *)

(* Mutant: a claim takes the session's lock and not the instance's.        *)
AcquireSessionOnly(p) ==
    /\ pc[p] = "claim"
    /\ slock[Sess(p)] = Free
    /\ slock' = [slock EXCEPT ![Sess(p)] = p]
    /\ Step(p, "locked")
    /\ UNCHANGED <<instVars, rowVars, ilock, lost, wireVars, placed, faults>>

AcquirePlacementLocks(p) ==
    /\ pc[p] = "claim"
    /\ slock[Sess(p)] = Free
    /\ ilock[boot[p]] = Free
    /\ slock' = [slock EXCEPT ![Sess(p)] = p]
    /\ ilock' = [ilock EXCEPT ![boot[p]] = p]
    /\ Step(p, "locked")
    /\ UNCHANGED <<instVars, rowVars, lost, wireVars, placed, faults>>

Admissible(p) ==
    LET s == Sess(p)
        b == boot[p]
    IN  /\ Supported(b)
        /\ HasRoom(s, b)
        /\ IF prev[p] = NoToken
           THEN Claimable(s, b)
           ELSE Matches(s, prev[p].boot, prev[p].epoch) /\ Alive(prev[p].boot)

ClaimAdmit(p) ==
    /\ pc[p] = "locked"
    /\ ~RowLocked(Sess(p))
    /\ Admissible(p)
    /\ epoch[Sess(p)] < MaxEpoch
    /\ Step(p, "checked")
    /\ UNCHANGED <<instVars, rowVars, lockVars, wireVars, placed, faults>>

ClaimReject(p) ==
    /\ pc[p] = "locked"
    /\ ~RowLocked(Sess(p))
    /\ ~Admissible(p)
    /\ FailInit(p)
    /\ Release(p)
    /\ UNCHANGED <<instVars, rowVars, lost, wireVars, placed, faults>>

(* Mutant: the owner changes under an unchanged epoch.                     *)
ClaimCommitSameEpoch(p) ==
    LET s == Sess(p)
        b == boot[p]
    IN  /\ pc[p] = "checked"
        /\ owner' = [owner EXCEPT ![s] = b]
        /\ epoch' = [epoch EXCEPT ![s] = IF @ = 0 THEN 1 ELSE @]
        /\ over' = IF owner[s] = b THEN over ELSE over \ {s}
        /\ pc' = [pc EXCEPT ![p] = "wait"]
        /\ job' = [job EXCEPT ![p] = "join"]
        /\ tok' = [tok EXCEPT ![p] = epoch'[s]]
        /\ Release(p)
        /\ UNCHANGED <<instVars, counted, writer, lost, wireVars, boot, prev, via, placed, faults>>

(* The commit: the epoch advances and the caller learns its token.  When   *)
(* the lock holder died meanwhile, the caller exits after the commit.      *)
ClaimCommit(p) ==
    LET s == Sess(p)
        b == boot[p]
    IN  /\ pc[p] = "checked"
        /\ owner' = [owner EXCEPT ![s] = b]
        /\ epoch' = [epoch EXCEPT ![s] = @ + 1]
        /\ over' = IF owner[s] = b THEN over ELSE over \ {s}
        /\ IF Holding(p)
           THEN /\ pc' = [pc EXCEPT ![p] = "wait"]
                /\ job' = [job EXCEPT ![p] = "join"]
                /\ tok' = [tok EXCEPT ![p] = epoch[s] + 1]
                /\ UNCHANGED <<boot, prev, via>>
           ELSE FailInit(p)
        /\ Release(p)
        /\ UNCHANGED <<instVars, counted, writer, lost, wireVars, placed, faults>>

-----------------------------------------------------------------------------
(* dispatch_if_owner: the first lease of a new coordinator ("join"), its   *)
(* periodic renewal ("lease") and tool requests ("tool").                  *)

TokenOf(p) == [boot |-> boot[p], epoch |-> tok[p]]
Current(p) == Matches(Sess(p), boot[p], tok[p]) /\ Alive(boot[p])

(* What becomes of the caller when dispatch_if_owner raises or fails.      *)
AfterFailure(p, orderly) ==
    \/ job[p] = "join" /\ FailInit(p)
    \/ job[p] = "lease" /\ IF orderly THEN GoIdle(p) ELSE Retry(p)
    \/ /\ job[p] = "tool"
       /\ pc' = [pc EXCEPT ![p] = "failing"]
       /\ job' = [job EXCEPT ![p] = "none"]
       /\ UNCHANGED <<boot, tok, prev, via>>

WantDispatch(p, j) ==
    /\ pc[p] = "live" /\ Sess(p) \in Busy
    /\ pc' = [pc EXCEPT ![p] = "wait"]
    /\ job' = [job EXCEPT ![p] = j]
    /\ UNCHANGED <<boot, tok, prev, via>>
    /\ UNCHANGED <<instVars, rowVars, lockVars, wireVars, placed, faults>>

(* Mutant: the owner is checked and the dispatch made without the lock.    *)
AcquireNothing(p) ==
    /\ pc[p] = "wait"
    /\ Step(p, "assert")
    /\ UNCHANGED <<instVars, rowVars, lockVars, wireVars, placed, faults>>

AcquireSessionLock(p) ==
    /\ pc[p] = "wait"
    /\ slock[Sess(p)] = Free
    /\ slock' = [slock EXCEPT ![Sess(p)] = p]
    /\ Step(p, "assert")
    /\ UNCHANGED <<instVars, rowVars, ilock, lost, wireVars, placed, faults>>

AssertOwner(p) ==
    /\ pc[p] = "assert"
    /\ Current(p)
    /\ Step(p, "send")
    /\ UNCHANGED <<instVars, rowVars, lockVars, wireVars, placed, faults>>

AssertFail(p) ==
    /\ pc[p] = "assert"
    /\ ~Current(p)
    /\ AfterFailure(p, Holding(p))
    /\ Release(p)
    /\ UNCHANGED <<instVars, rowVars, lost, wireVars, placed, faults>>

(* Runners.dispatch and renew_authority: nothing is sent to a runner that  *)
(* is offline; a tool request is then tried again later.                   *)
Send(p) ==
    /\ pc[p] = "send"
    /\ wire' = IF Sess(p) \in Online
               THEN wire \cup {[session |-> Sess(p), epoch |-> tok[p]]}
               ELSE wire
    /\ IF Holding(p)
       THEN /\ pc' = [pc EXCEPT ![p] = "live"]
            /\ job' = [job EXCEPT ![p] = "none"]
            /\ via' = [via EXCEPT ![p] = "start"]
            /\ UNCHANGED <<boot, tok, prev>>
       ELSE AfterFailure(p, FALSE)
    /\ Release(p)
    /\ UNCHANGED <<instVars, rowVars, lost, runner, effect, placed, faults>>

(* The connection that holds a process's locks drops: PostgreSQL frees     *)
(* them while the process carries on until its function returns.           *)
LoseLock(p) ==
    /\ Holding(p)
    /\ Release(p)
    /\ lost' = lost \cup {p}
    /\ Fault
    /\ UNCHANGED <<instVars, rowVars, wireVars, procVars, placed>>

-----------------------------------------------------------------------------
(* Durable writes under lock_session!: the token must match the locked row *)
(* and the owner's heartbeat must be fresh.                                *)

Writing(p) ==
    \/ pc[p] \in {"live", "failing"}
    \/ pc[p] \in {"wait", "assert", "send"} /\ job[p] # "join"

(* Mutant: a write asks only whether the writer's boot is alive.           *)
LiveWrite(p) ==
    /\ ~RowLocked(Sess(p))
    /\ Alive(boot[p])
    /\ writer' = [writer EXCEPT ![Sess(p)] = tok[p]]

FencedWrite(p) ==
    /\ ~RowLocked(Sess(p))
    /\ Current(p)
    /\ writer' = [writer EXCEPT ![Sess(p)] = tok[p]]

Append(p) ==
    /\ Writing(p) /\ pc[p] # "failing" /\ Sess(p) \in Busy
    /\ FencedWrite(p)
    /\ UNCHANGED <<instVars, owner, epoch, counted, over, lockVars, wireVars, procVars, placed, faults>>

(* begin_turn: a follow-up on a finished session makes it count again, and *)
(* nothing re-checks the owner's capacity.                                 *)
BeginTurn(p) ==
    /\ pc[p] = "live"
    /\ Sess(p) \notin counted
    /\ FencedWrite(p)
    /\ counted' = counted \cup {Sess(p)}
    /\ over' = over \cup {Sess(p)}
    /\ UNCHANGED <<instVars, owner, epoch, lockVars, wireVars, procVars, placed, faults>>

(* complete, fail or cancel the session, or pause it for its provider: a   *)
(* paused session is idle and goes on counting.  The coordinator stops.    *)
Finish(p) ==
    /\ pc[p] \in {"live", "failing"}
    /\ Sess(p) \in counted
    /\ FencedWrite(p)
    /\ \/ counted' = counted \ {Sess(p)} /\ over' = over \ {Sess(p)}
       \/ UNCHANGED <<counted, over>>
    /\ GoIdle(p)
    /\ UNCHANGED <<instVars, owner, epoch, lockVars, wireVars, placed, faults>>

(* {:error, :stale_ownership}: the coordinator stops and kills its task.   *)
StaleStop(p) ==
    /\ Writing(p)
    /\ ~RowLocked(Sess(p))
    /\ ~Current(p)
    /\ GoIdle(p)
    /\ Release(p)
    /\ UNCHANGED <<instVars, rowVars, lost, wireVars, placed, faults>>

(* A terminal or idle coordinator stops without a write.                   *)
Stop(p) ==
    /\ pc[p] = "live" \/ (pc[p] = "failing" /\ Sess(p) \notin counted)
    /\ GoIdle(p)
    /\ UNCHANGED <<instVars, rowVars, lockVars, wireVars, placed, faults>>

(* The process dies abnormally, in init or later.                          *)
Crash(p) ==
    /\ pc[p] # "none"
    /\ IF pc[p] \in {"claim", "locked", "checked"} \/ job[p] = "join"
       THEN FailInit(p)
       ELSE Retry(p)
    /\ Release(p)
    /\ Fault
    /\ UNCHANGED <<instVars, rowVars, lost, wireVars, placed>>

(* Restarts that keep failing exceed the supervisor's intensity; it stops  *)
(* with every coordinator of the node.                                     *)
SupervisorGivesUp(p) ==
    /\ pc[p] = "claim" /\ via[p] = "restart"
    /\ KillCoordinators(Node(p))
    /\ UNCHANGED <<instVars, rowVars, lost, wireVars, placed, faults>>

-----------------------------------------------------------------------------
(* rehome_active_session: a coordinator of a draining boot, its loop at a  *)
(* durable boundary, asks another instance to take the session over.       *)

Rehome(p, b) ==
    /\ pc[p] = "live"
    /\ boot[p] \in draining
    /\ Selectable(Sess(p), b, Rehoming)
    /\ RequestStart(Sess(p), b, TokenOf(p))
    /\ Step(p, "rehoming")
    /\ UNCHANGED <<instVars, rowVars, lockVars, wireVars, faults>>

RehomePending(p) ==
    \/ \E r \in placed : r.session = Sess(p) /\ r.prev = TokenOf(p)
    \/ \E q \in Procs : /\ Sess(q) = Sess(p) /\ prev[q] = TokenOf(p)
                        /\ \/ pc[q] \in {"claim", "locked", "checked"}
                           \/ job[q] = "join"

(* The answer arrives: a coordinator runs at the target.                   *)
RehomeDone(p) ==
    /\ pc[p] = "rehoming"
    /\ ~RehomePending(p)
    /\ GoIdle(p)
    /\ UNCHANGED <<instVars, rowVars, lockVars, wireVars, placed, faults>>

(* The start failed, or the call to the target node broke off whatever it  *)
(* achieved there: the loop is started again under the old token.          *)
RehomeFailed(p) ==
    /\ pc[p] = "rehoming"
    /\ Step(p, "live")
    /\ UNCHANGED <<instVars, rowVars, lockVars, wireVars, placed, faults>>

-----------------------------------------------------------------------------
(* The runner's end: AuthorityRegistry.grant on every lease and request.   *)
(* A lease and a request are alike to it: both carry the sender's epoch.   *)
(* Messages arrive in any order; a lost one is never delivered.            *)

(* Mutant: the registry takes whatever comes last.                         *)
DeliverAny(m) ==
    /\ m \in wire
    /\ wire' = wire \ {m}
    /\ runner' = [runner EXCEPT ![m.session] = m.epoch]
    /\ effect' = [effect EXCEPT ![m.session] = m.epoch]
    /\ UNCHANGED <<instVars, rowVars, lockVars, procVars, placed, faults>>

Deliver(m) ==
    /\ m \in wire
    /\ wire' = wire \ {m}
    /\ IF m.epoch < runner[m.session]
       THEN UNCHANGED <<runner, effect>>
       ELSE /\ runner' = [runner EXCEPT ![m.session] = m.epoch]
            /\ effect' = [effect EXCEPT ![m.session] = m.epoch]
    /\ UNCHANGED <<instVars, rowVars, lockVars, procVars, placed, faults>>

(* A new runner process starts with an empty registry; what was addressed  *)
(* to the channel of the old one is gone.                                  *)
RunnerRestart(s) ==
    /\ s \in Online
    /\ wire' = {m \in wire : m.session # s}
    /\ runner' = [runner EXCEPT ![s] = 0]
    /\ Fault
    /\ UNCHANGED <<instVars, rowVars, lockVars, effect, procVars, placed>>

-----------------------------------------------------------------------------
InstanceStep(b) ==
    \/ Register(b) \/ RestartManager(b) \/ MarkReady(b) \/ Heartbeat(b)
    \/ GoStale(b) \/ BeginDrain(b) \/ NodeDown(b)

CoordinatorStep(p) ==
    \/ AcquirePlacementLocks(p) \/ ClaimAdmit(p) \/ ClaimReject(p) \/ ClaimCommit(p)
    \/ \E j \in {"lease", "tool"} : WantDispatch(p, j)
    \/ AcquireSessionLock(p) \/ AssertOwner(p) \/ AssertFail(p) \/ Send(p) \/ LoseLock(p)
    \/ Append(p) \/ BeginTurn(p) \/ Finish(p) \/ StaleStop(p) \/ Stop(p)
    \/ Crash(p) \/ SupervisorGivesUp(p)
    \/ \E b \in Boots : Rehome(p, b)
    \/ RehomeDone(p) \/ RehomeFailed(p)

PlacementStep ==
    \/ \E s \in Sessions, b \in Boots : Place(s, b) \/ LegacyRehome(s, b)
    \/ \E r \in placed : StartChild(r) \/ LoseStart(r)

RunnerStep ==
    \/ \E m \in wire : Deliver(m)
    \/ \E s \in Sessions : RunnerRestart(s)

Next ==
    \/ \E b \in Boots : InstanceStep(b)
    \/ \E p \in Procs : CoordinatorStep(p)
    \/ PlacementStep
    \/ RunnerStep

Spec == Init /\ [][Next]_vars

-----------------------------------------------------------------------------
(* Properties.                                                             *)

HasToken(p) == pc[p] \in {"live", "wait", "assert", "send", "failing", "rehoming"}

InstanceTypes ==
    /\ registered \subseteq Boots /\ up \subseteq registered
    /\ ready \subseteq registered /\ draining \subseteq registered
    /\ fresh \subseteq registered
    /\ ready \cap draining = {}

RowTypes ==
    /\ owner \in [Sessions -> Boots \cup {NoBoot}]
    /\ epoch \in [Sessions -> 0 .. MaxEpoch]
    /\ writer \in [Sessions -> Nat]
    /\ counted \subseteq Sessions /\ over \subseteq counted

ProcessTypes ==
    /\ pc \in [Procs -> Pcs]
    /\ boot \in [Procs -> Boots \cup {NoBoot}]
    /\ tok \in [Procs -> Nat]
    /\ prev \in [Procs -> Token]
    /\ job \in [Procs -> Jobs]
    /\ via \in [Procs -> {"start", "restart"}]
    /\ slock \in [Sessions -> Procs \cup {Free}]
    /\ ilock \in [Boots -> Procs \cup {Free}]
    /\ placed \subseteq StartRequest
    /\ lost \subseteq Procs

RunnerTypes ==
    /\ wire \subseteq Message
    /\ runner \in [Sessions -> Nat]
    /\ effect \in [Sessions -> Nat]

(* Types of the rows, processes and messages; moreover a draining row is   *)
(* never ready (begin_drain clears the flag, mark_ready refuses to set it).*)
TypeOK ==
    InstanceTypes /\ RowTypes /\ ProcessTypes /\ RunnerTypes /\ faults \in 0 .. MaxFaults

(* Two coordinators of one session, on whatever nodes, never hold the same *)
(* epoch, and none holds an epoch above the row's; a holder of the row's   *)
(* epoch is the row's owner.  (claim_ownership, transfer_ownership)        *)
TokensUnique ==
    \A p \in Procs : HasToken(p) =>
        /\ tok[p] <= epoch[Sess(p)]
        /\ tok[p] = epoch[Sess(p)] => boot[p] = owner[Sess(p)]
        /\ \A q \in Procs :
              HasToken(q) /\ Sess(q) = Sess(p) /\ tok[q] = tok[p] => q = p

(* Unless a lock connection was lost, a process about to hand a message to *)
(* the runner's channel is still the owner: dispatch_if_owner shuts out a  *)
(* claim or a transfer between assert_owner and the dispatch.              *)
DispatchFenced ==
    lost = {} => \A p \in Procs :
        pc[p] = "send" => Matches(Sess(p), boot[p], tok[p])

(* Unless a lock connection was lost, the sessions an instance was given   *)
(* by claim or transfer never exceed its capacity: only follow-up turns on *)
(* sessions it already owned can load it further.  (validate_capacity!)    *)
CapacityAdmission ==
    lost = {} => \A b \in Boots :
        Cardinality(OwnedBy(b) \ over) <= Capacity[b]

(* Unless a lock connection was lost, the runner never accepts a lease or  *)
(* request of an epoch older than one it has accepted, even though a       *)
(* restart empties its registry.  (dispatch_if_owner, AuthorityRegistry)   *)
EffectsInEpochOrder ==
    [][lost' = {} => \A s \in Sessions : effect'[s] >= effect[s]]_vars

(* Instances, locks, messages and coordinators together implement the      *)
(* abstract fence.                                                         *)
Fence == INSTANCE Fencing WITH cur <- epoch, wrote <- writer, seen <- runner
FenceSpec == Fence!Spec

=============================================================================
