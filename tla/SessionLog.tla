----------------------------- MODULE SessionLog -----------------------------
(***************************************************************************)
(* One durable session as the control plane keeps it: the append-only      *)
(* event log, the status column of the session row, and whether a          *)
(* coordinator is running the agent loop for it (lib/kodo/sessions.ex,     *)
(* sessions/active_session.ex, sessions/projection.ex).  Each operation    *)
(* below is one database transaction or one call the coordinator serves;   *)
(* an operation a client calls carries its HTTP outcome in `res`.  Who owns *)
(* the coordinator is the subject of Ownership; here there is one.         *)
(***************************************************************************)
EXTENDS Naturals, Sequences, FiniteSets, FiniteSetsExt

CONSTANTS Requests,   \* client request ids of user messages
          Approvals,  \* approval ids
          NoId,       \* neither
          PageSize,   \* @event_page_size
          MaxAsks     \* bound: approvals the loop asks for in one turn

ASSUME SessionAssumption ==
  /\ NoId \notin Requests \cup Approvals
  /\ PageSize \in Nat \ {0} /\ MaxAsks \in Nat

VARIABLES log,    \* the session's events, sequence number = index
          row,    \* sessions.status
          loop    \* the coordinator's task: none, at work, or with its answer logged

logVars == <<log, row, loop>>

Decisions == {"approved", "denied"}
Outcomes == {"ok", "error"}
Active == {"running", "awaiting_approval"}
Settled == {"idle", "completed", "failed", "cancelled"}
Kinds == {"created", "snapshot", "message", "status", "requested", "resolved",
          "answer", "terminal", "cancelled"}

(* An event: its kind, the id it is about, the status or decision it sets.  *)
Event(kind, id, val) == [kind |-> kind, id |-> id, val |-> val]
StatusChanged(s) == Event("status", NoId, s)
EventType == [kind: Kinds, id: Requests \cup Approvals \cup {NoId},
              val: {""} \cup Decisions \cup Active \cup Settled]

Indices(kind) == {i \in DOMAIN log : log[i].kind = kind}

(* Projection.from_events on the first n events: status and pending id.     *)
StatusAt(n) ==
  LET setters == {i \in 1..n : log[i].kind \in {"created", "status", "cancelled"}}
  IN IF setters = {} THEN "idle" ELSE log[Max(setters)].val
PendingAt(n) ==
  LET asked == {i \in 1..n : log[i].kind = "requested"}
      last == Max(asked)
      answered == \E j \in 1..n : log[j].kind = "resolved" /\ log[j].id = log[last].id
  IN IF asked = {} \/ answered THEN NoId ELSE log[last].id

(* The mutant of PageEnd that does not stop at the last event.              *)
PageEndUnclipped(n, cursor) == cursor + PageSize

(* The page GET /api/sessions/:id serves after a cursor, from n events.     *)
PageEnd(n, cursor) == Min({n, cursor + PageSize})

Recorded(r) == \E i \in Indices("message") : log[i].id = r
DecisionsOf(a) == {log[i].val : i \in {j \in Indices("resolved") : log[j].id = a}}
CurrentApproval ==
  IF Indices("requested") = {} THEN NoId ELSE log[Max(Indices("requested"))].id

Init ==
  /\ log = <<>>
  /\ row = "none"
  /\ loop = "none"

(* create_session: a repeated client_request_id finds the session made.     *)
CreateSession(res) ==
  /\ res = "ok"
  /\ \/ log = <<>> /\ log' = <<Event("created", NoId, "idle")>> /\ row' = "idle"
     \/ log # <<>> /\ UNCHANGED <<log, row>>
  /\ UNCHANGED loop

TurnEvents(r) ==
  <<Event("snapshot", NoId, ""), Event("message", r, ""), StatusChanged("running")>>

(* The mutant of StartTurn without the look-up under the row lock.           *)
StartTurnUnchecked(r, res) ==
  /\ row \notin Active
  /\ log' = log \o TurnEvents(r)
  /\ row' = "running" /\ loop' = "working" /\ res = "ok"

(* ActiveSession {:start_turn, ...} with begin_turn_locked.  A request that *)
(* is already recorded appends nothing, yet the clause for a coordinator    *)
(* without a task starts the loop whatever begin_turn returned; the other   *)
(* clause has no case for a turn that did begin, so the coordinator         *)
(* crashes after the commit and its successor resumes the turn.             *)
StartTurn(r, res) ==
  \/ /\ Recorded(r)
     /\ res = "ok" /\ loop' = IF loop = "none" THEN "working" ELSE loop
     /\ UNCHANGED <<log, row>>
  \/ /\ ~Recorded(r) /\ row \in Active
     /\ res = "error"
     /\ UNCHANGED logVars
  \/ /\ ~Recorded(r) /\ row \notin Active
     /\ log' = log \o TurnEvents(r)
     /\ row' = "running" /\ loop' = "working"
     /\ res = IF loop = "none" THEN "ok" ELSE "error"

(* Loop.run logs its final answer: append_event checks only the ownership,   *)
(* not the status.  Its other model and tool events set no status either    *)
(* and are left out.                                                        *)
LogAnswer ==
  /\ loop = "working" /\ row # "awaiting_approval"
  /\ log' = Append(log, Event("answer", NoId, ""))
  /\ loop' = "answered"
  /\ UNCHANGED row

Unused == {a \in Approvals : \A i \in Indices("requested") : log[i].id # a}

(* request_approval_locked, for a tool call that has a new id.              *)
RequestApproval ==
  /\ loop = "working" /\ row = "running" /\ Unused # {}
  /\ Cardinality({i \in Indices("requested") : i > Max(Indices("message"))}) < MaxAsks
  /\ LET a == CHOOSE b \in Unused : TRUE
     IN log' = log \o <<Event("requested", a, ""), StatusChanged("awaiting_approval")>>
  /\ row' = "awaiting_approval"
  /\ UNCHANGED loop

(* The mutant of ResolveApproval that takes a decision on an earlier        *)
(* approval for one on the approval the session waits for.                  *)
ResolveUnasked(a, d, res) ==
  LET pending == row = "awaiting_approval" /\ DecisionsOf(a) = {}
  IN \/ /\ pending
        /\ log' = log \o <<Event("resolved", a, d), StatusChanged("running")>>
        /\ row' = "running" /\ res = "ok"
        /\ UNCHANGED loop
     \/ /\ ~pending
        /\ res = IF DecisionsOf(a) = {d} THEN "ok" ELSE "error"
        /\ UNCHANGED logVars

(* The mutant of ResolveApproval that takes any earlier decision for its own. *)
ResolveAnyway(a, d, res) ==
  LET pending == row = "awaiting_approval" /\ CurrentApproval = a /\ DecisionsOf(a) = {}
  IN \/ /\ pending
        /\ log' = log \o <<Event("resolved", a, d), StatusChanged("running")>>
        /\ row' = "running" /\ res = "ok" /\ UNCHANGED loop
     \/ /\ ~pending
        /\ res = IF DecisionsOf(a) # {} THEN "ok" ELSE "error"
        /\ UNCHANGED logVars

(* resolve_approval_locked: idempotent for the decision taken, refused for  *)
(* the other one and for an approval that no longer waits.                  *)
ResolveApproval(a, d, res) ==
  LET pending == row = "awaiting_approval" /\ CurrentApproval = a /\ DecisionsOf(a) = {}
  IN \/ /\ pending
        /\ log' = log \o <<Event("resolved", a, d), StatusChanged("running")>>
        /\ row' = "running" /\ res = "ok"
        /\ UNCHANGED loop
     \/ /\ ~pending
        /\ res = IF DecisionsOf(a) = {d} THEN "ok" ELSE "error"
        /\ UNCHANGED logVars

(* The mutant of Finish that forgets the status event of the projection.    *)
FinishRowOnly(s) ==
  /\ loop # "none" /\ loop' = "none"
  /\ row' = IF row \in Active THEN s ELSE row
  /\ s = "completed" <=> loop = "answered"
  /\ row = "awaiting_approval" => s = "failed"
  /\ UNCHANGED log

(* finish_task: complete_session, pause_for_provider or fail_session.  A    *)
(* loop that waits for an approval can only end by its task going down.     *)
Finish(s) ==
  /\ loop # "none" /\ loop' = "none"
  /\ s = "completed" <=> loop = "answered"
  /\ row = "awaiting_approval" => s = "failed"
  /\ \/ /\ row \in Active
        /\ log' = log \o (IF s = "completed" THEN <<>> ELSE <<Event("terminal", NoId, "")>>)
                      \o <<StatusChanged(s)>>
        /\ row' = s
     \/ /\ row \notin Active
        /\ UNCHANGED <<log, row>>

(* ActiveSession :cancel, reconciled by Sessions.cancel when no task runs.  *)
Cancel(res) ==
  \/ /\ loop # "none"
     /\ log' = Append(log, Event("cancelled", NoId, "cancelled"))
     /\ row' = "cancelled" /\ loop' = "none" /\ res = "ok"
  \/ /\ loop = "none"
     /\ res = IF row = "cancelled" THEN "ok" ELSE "error"
     /\ UNCHANGED logVars

LoopStep ==
  \/ LogAnswer
  \/ RequestApproval
  \/ \E s \in {"completed", "idle", "failed"} : Finish(s)

(* The types of the session's state.                                        *)
LogTypeOK ==
  /\ log \in Seq(EventType)
  /\ row \in {"none"} \cup Active \cup Settled
  /\ loop \in {"none", "working", "answered"}

(* The status column and the event log are two records of one fact, written *)
(* by every transaction of sessions.ex: whatever clients, retries and the   *)
(* loop do, the projection replayed from the events is the row's status,    *)
(* and a session that is active has a loop working on it.                   *)
RowMatchesLog ==
  /\ log # <<>> => StatusAt(Len(log)) = row
  /\ row \in Active => loop # "none"

(* A client retries a request it got no answer to, and the first copy may   *)
(* still arrive (start_turn, begin_turn_locked): the log never holds a      *)
(* message twice, nor a second creation, nor two turns at once.             *)
OneTurnPerRequest ==
  /\ Cardinality(Indices("created")) <= 1
  /\ \A i, j \in Indices("message") : log[i].id = log[j].id => i = j
  /\ \A i \in Indices("message") : StatusAt(i) \notin Active

(* Two clients answer approvals while the session may be cancelled, fail or *)
(* take up another turn, and an answer may arrive when the session already  *)
(* waits for a later approval (resolve_approval_locked): an approval is     *)
(* decided at most once, and only while the session was waiting for exactly *)
(* that decision.                                                           *)
DecidedOnceWhileWaiting ==
  \A i \in Indices("resolved") :
    /\ \A j \in Indices("resolved") : log[j].id = log[i].id => i = j
    /\ StatusAt(i) = "awaiting_approval"
    /\ PendingAt(i - 1) = log[i].id
=============================================================================
