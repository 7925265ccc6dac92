----------------------------- MODULE SessionCli -----------------------------
(***************************************************************************)
(* `kodo start` and `kodo resume` against the session API: the CLI hosts a  *)
(* runner, creates the session, submits the task, then polls the event log  *)
(* and answers approvals (crates/kodo/src/session_cli.rs, main.rs), while a *)
(* browser acts on the same session.  A request whose answer does not come  *)
(* in time may still be on its way, or being served.                        *)
(***************************************************************************)
EXTENDS SessionLog, Functions

CONSTANTS TaskOf,       \* the message id each launch submits; NoId: none
          MaxFaults,    \* bound: timeouts, losses, kills, runner exits
          MaxBrowser    \* bound: requests the browser makes

Launches == DOMAIN TaskOf

ASSUME CliAssumption ==
  /\ Launches \subseteq Nat \ {0} /\ 1 \in Launches
  /\ TaskOf \in [Launches -> Requests \cup {NoId}] /\ TaskOf[1] # NoId
  /\ MaxFaults \in Nat /\ MaxBrowser \in Nat

VARIABLES pc,       \* where the CLI is
          launch,   \* which run of the program this is: 1 starts, others resume
          cursor,   \* drive's cursor
          page,     \* the replay being rendered: log length seen, last event
          printed,  \* the events on the terminal
          hosted,   \* runner_task is still running
          wire,     \* requests sent and not yet answered
          reply,    \* the answer to the request the CLI waits for
          faults, browsed

cliVars == <<pc, launch, cursor, page, printed, hosted>>
netVars == <<wire, reply>>
vars == <<logVars, cliVars, netVars, faults, browsed>>

Ops == {"create", "message", "resolve", "cancel", "fetch"}
Ended == {"done", "cancelled", "failed"}
Retrying == {"create", "message", "replay", "cancel"}       \* inside retry_api
Calling == Retrying \cup {"fetch"} \cup Decisions         \* a decision: being posted
PCs == {"off", "boot", "sleep", "render", "prompt"} \cup Calling \cup Ended

NoReply == [res |-> "none", upto |-> 0]
NoPage == [upto |-> 0, last |-> 0]

(* A request: `checked` once the server has read the row and not yet called  *)
(* the coordinator, `live` while the CLI still waits for its answer.        *)
Request(op, id, val) == [op |-> op, id |-> id, val |-> val, checked |-> FALSE, live |-> TRUE]

Requested(p) ==
  CASE p = "create"  -> Request("create", NoId, "")
    [] p = "message" -> Request("message", TaskOf[launch], "")
    [] p = "cancel"  -> Request("cancel", NoId, "")
    [] p \in Decisions -> Request("resolve", log[cursor + 1].id, p)
    [] OTHER         -> Request("fetch", NoId, "")

(* The copies still under way when the CLI stops waiting; a GET changes      *)
(* nothing and is forgotten.                                                *)
Orphaned(sent) == {[q EXCEPT !.live = FALSE] : q \in {w \in sent : w.op # "fetch"}}

(* The program moves on: it sends what the new place waits for, and `replay` *)
(* lives as long as the iteration of drive that fetched it.                 *)
EnterWith(sent, p) ==
  /\ pc' = p
  /\ wire' = Orphaned(sent) \cup (IF p \in Calling THEN {Requested(p)} ELSE {})
  /\ reply' = NoReply
  /\ page' = CASE p = "render" /\ pc = "fetch" ->
                     [upto |-> reply.upto, last |-> PageEnd(reply.upto, cursor)]
             [] p \in {"render", "prompt", "done"} \cup Decisions -> page
             [] OTHER -> NoPage
Enter(p) == EnterWith(wire, p)

CliInit ==
  /\ Init
  /\ pc = "off" /\ launch = 0 /\ cursor = 0 /\ page = NoPage
  /\ printed = {} /\ hosted = FALSE
  /\ wire = {} /\ reply = NoReply /\ faults = 0 /\ browsed = 0

(* The program is started: `start` first, later `resume` of the session.    *)
Launch ==
  /\ pc \in {"off"} \cup Ended
  /\ launch + 1 \in Launches
  /\ launch > 0 => log # <<>>
  /\ launch' = launch + 1
  /\ Enter("boot")
  /\ cursor' = 0 /\ printed' = {} /\ hosted' = TRUE
  /\ UNCHANGED <<logVars, faults, browsed>>

(* host_runner: the runner comes up, or the bootstrap fails or times out.   *)
Hosted ==
  /\ pc = "boot"
  /\ Enter(IF launch = 1 THEN "create" ELSE "replay")
  /\ UNCHANGED <<launch, cursor, printed, hosted, logVars, faults, browsed>>

BootFails ==
  /\ pc = "boot" /\ faults < MaxFaults
  /\ Enter("failed") /\ hosted' = FALSE /\ faults' = faults + 1
  /\ UNCHANGED <<launch, cursor, printed, logVars, browsed>>

(* resume gives up in a workspace whose runner is not the session's.        *)
AfterReplay == {"failed", IF TaskOf[launch] = NoId THEN "sleep" ELSE "message"}

(* Where a successful answer to a call inside retry_api leads; an HTTP error *)
(* ends the program.                                                        *)
After(p) ==
  CASE reply.res = "error" -> {"failed"}
    [] p = "create"  -> {"message"}
    [] p = "replay"  -> AfterReplay
    [] p = "message" -> {"sleep"}
    [] p = "cancel"  -> {"cancelled"}

CallReturns ==
  /\ pc \in Retrying /\ reply # NoReply
  /\ \E p \in After(pc) : Enter(p) /\ hosted' = (hosted /\ p \notin Ended)
  /\ UNCHANGED <<launch, cursor, printed, logVars, faults, browsed>>

(* drive: the poll timer.                                                   *)
Poll ==
  /\ pc = "sleep" /\ hosted
  /\ Enter("fetch")
  /\ UNCHANGED <<launch, cursor, printed, hosted, logVars, faults, browsed>>

FetchReturns ==
  /\ pc = "fetch" /\ reply # NoReply
  /\ Enter(IF reply.res = "ok" THEN "render" ELSE "failed")
  /\ hosted' = (hosted /\ reply.res = "ok")
  /\ UNCHANGED <<launch, cursor, printed, logVars, faults, browsed>>

(* The events of the page that ask: requested, pending, not resolved in it.  *)
Asks(i) ==
  /\ log[i].kind = "requested" /\ log[i].id = PendingAt(page.upto)
  /\ ~\E j \in cursor + 1 .. page.last : log[j].kind = "resolved" /\ log[j].id = log[i].id

(* The mutant of AtEnd that takes a settled status for the whole story.     *)
AtEndOfPage(n) == StatusAt(n) \in Settled

(* The mutant of AtEnd that does not know the status of a cancelled session. *)
AtEndUncancelled(n) == page.last = n /\ StatusAt(n) \in Settled \ {"cancelled"}

(* !replay.has_more and a status no turn is running in.                     *)
AtEnd(n) == page.last = n /\ StatusAt(n) \in Settled

(* The event loop of drive: print up to the first event that asks.          *)
Render ==
  /\ pc = "render"
  /\ LET asking == {i \in cursor + 1 .. page.last : Asks(i)}
     IN \/ /\ asking # {}
           /\ printed' = printed \cup (cursor + 1 .. Min(asking))
           /\ cursor' = Min(asking) - 1
           /\ Enter("prompt") /\ UNCHANGED hosted
        \/ /\ asking = {}
           /\ printed' = printed \cup (cursor + 1 .. page.last)
           /\ cursor' = page.last
           /\ Enter(IF AtEnd(page.upto) THEN "done" ELSE "sleep")
           /\ hosted' = (hosted /\ ~AtEnd(page.upto))
  /\ UNCHANGED <<launch, logVars, faults, browsed>>

(* resolve_approval: the person answers and the decision is posted.         *)
Answer(d) ==
  /\ pc = "prompt"
  /\ Enter(d)
  /\ UNCHANGED <<launch, cursor, printed, hosted, logVars, faults, browsed>>

DecideReturns ==
  /\ pc \in Decisions /\ reply # NoReply
  /\ Enter(IF reply.res = "ok" THEN "render" ELSE "failed")
  /\ cursor' = IF reply.res = "ok" THEN cursor + 1 ELSE cursor
  /\ hosted' = (hosted /\ reply.res = "ok")
  /\ UNCHANGED <<launch, printed, logVars, faults, browsed>>

(* Ctrl-C where drive and resolve_approval listen for it.                   *)
Interrupt ==
  /\ pc \in {"sleep", "fetch", "prompt"}
  /\ Enter("cancel")
  /\ UNCHANGED <<launch, cursor, printed, hosted, logVars, faults, browsed>>

(* ApiUnavailable: the request was lost, or is late, or its answer is.       *)
(* retry_api sends the call again, drive polls again, and a decision that    *)
(* may have been taken is looked up by polling from before its event.       *)
Unavailable ==
  /\ pc \in Calling /\ faults < MaxFaults /\ faults' = faults + 1
  /\ \E sent \in {wire, {q \in wire : ~q.live}} :
       EnterWith(sent, IF pc \in Retrying THEN pc ELSE "sleep")
  /\ UNCHANGED <<launch, cursor, printed, hosted, logVars, browsed>>

(* runner_task ends; drive's poll wait and retry_api notice.                *)
RunnerExits ==
  /\ pc \notin {"off", "boot"} \cup Ended /\ hosted /\ faults < MaxFaults
  /\ hosted' = FALSE /\ faults' = faults + 1
  /\ UNCHANGED <<pc, launch, cursor, page, printed, netVars, logVars, browsed>>

NoticeExit ==
  /\ pc \in {"sleep"} \cup Retrying /\ ~hosted
  /\ Enter("failed")
  /\ UNCHANGED <<launch, cursor, printed, hosted, logVars, faults, browsed>>

(* The process is killed anywhere.                                          *)
Kill ==
  /\ pc \notin {"off"} \cup Ended /\ faults < MaxFaults
  /\ Enter("failed") /\ hosted' = FALSE /\ faults' = faults + 1
  /\ UNCHANGED <<launch, cursor, printed, logVars, browsed>>

(* The browser decides, cancels or submits through the same functions.      *)
Browse(op, id, d) ==
  /\ browsed < MaxBrowser /\ log # <<>>
  /\ op = "resolve" => id \in {log[i].id : i \in Indices("requested")}
  /\ wire' = wire \cup {[Request(op, id, d) EXCEPT !.live = FALSE]}
  /\ browsed' = browsed + 1
  /\ UNCHANGED <<reply, cliVars, logVars, faults>>

Respond(q, res) ==
  /\ wire' = wire \ {q}
  /\ reply' = IF q.live THEN [res |-> res, upto |-> Len(log)] ELSE reply

(* The server answers with an error status instead: a token it no longer     *)
(* accepts, a database that is down, a body over the CLI's limit.           *)
HttpError(q) ==
  /\ q.live /\ faults < MaxFaults /\ faults' = faults + 1
  /\ Respond(q, "error")
  /\ UNCHANGED <<logVars, cliVars, browsed>>

PassOn(q) == wire' = (wire \ {q}) \cup {[q EXCEPT !.checked = TRUE]} /\ UNCHANGED reply

(* start_scoped_turn answers a recorded request before it calls the          *)
(* coordinator.                                                             *)
CheckTurn(q) ==
  /\ q.op = "message" /\ ~q.checked
  /\ IF Recorded(q.id) THEN Respond(q, "ok") ELSE PassOn(q)

(* Sessions.cancel answers for a session that is not active.                *)
CheckCancel(q) ==
  /\ q.op = "cancel" /\ ~q.checked
  /\ IF row \in Active THEN PassOn(q)
     ELSE Respond(q, IF row = "cancelled" THEN "ok" ELSE "error")

CheckFirst(q) ==
  /\ CheckTurn(q) \/ CheckCancel(q)
  /\ UNCHANGED <<logVars, cliVars, faults, browsed>>

Serve(q) ==
  /\ q.op \in {"message", "cancel"} => q.checked
  /\ \E res \in Outcomes :
       /\ CASE q.op = "create"  -> CreateSession(res)
            [] q.op = "message" -> StartTurn(q.id, res)
            [] q.op = "cancel"  -> Cancel(res)
            [] q.op = "resolve" -> ResolveApproval(q.id, q.val, res)
            [] q.op = "fetch"   -> res = "ok" /\ UNCHANGED logVars
       /\ Respond(q, res)
  /\ UNCHANGED <<cliVars, faults, browsed>>

Server ==
  \/ \E q \in wire : CheckFirst(q) \/ Serve(q)
  \/ LoopStep /\ UNCHANGED <<cliVars, netVars, faults, browsed>>

Client ==
  \/ Hosted \/ CallReturns \/ Poll \/ FetchReturns \/ Render \/ DecideReturns \/ NoticeExit
  \/ \E d \in Decisions : Answer(d)

Environment ==
  \/ Launch \/ Interrupt \/ BootFails \/ Unavailable \/ RunnerExits \/ Kill
  \/ \E a \in Approvals : Browse("resolve", a, "denied")
  \/ Browse("cancel", NoId, "")
  \/ \E q \in wire : HttpError(q)
  \/ \E r \in Requests \ Range(TaskOf) : Browse("message", r, "")

CliNext == Server \/ Client \/ Environment

Handle == \E q \in wire : CheckFirst(q) \/ Serve(q)
LoopAnswers == (LogAnswer \/ Finish("completed")) /\ UNCHANGED <<cliVars, netVars, faults, browsed>>

(* The exchange of CLI and server goes on, the person answers a prompt, and  *)
(* a loop that may go on comes to its answer.  A request the CLI no longer   *)
(* waits for may stay under way.                                            *)
Fairness == WF_vars(Client \/ Handle) /\ WF_vars(LoopAnswers)

(* A program that ended by itself showed every event there was when it last  *)
(* looked, in order and over all pages, its own message and the end of that  *)
(* turn among them: drive neither skips a page nor leaves before the turn    *)
(* it submitted has begun and settled.                                      *)
DoneSawItsTurn ==
  pc = "done" =>
    /\ printed = 1 .. page.upto
    /\ TaskOf[launch] # NoId =>
         \E i, j \in printed : /\ i < j /\ log[i].kind = "message" /\ log[i].id = TaskOf[launch]
                               /\ log[j].val \in Settled

(* A decision typed at the prompt and acknowledged is the decision on        *)
(* record, however often it was sent again and whatever the browser chose:   *)
(* resolve_approval returns Ok(true) only for the answer that counts.       *)
AcknowledgedDecisionCounts ==
  pc \in Decisions /\ reply.res = "ok" => DecisionsOf(log[cursor + 1].id) = {pc}

(* The CLI always comes back to the shell: through retries, lost answers,    *)
(* a runner that exits, and approvals decided elsewhere, neither drive nor   *)
(* retry_api goes round for ever once the faults are over.                  *)
CliEnds == (pc \notin {"off"} \cup Ended) ~> (pc \in Ended)

(* docs/mvp.org: "Refreshing the browser or restarting the CLI replays the   *)
(* session without data loss or duplicate execution."  With no fault, no     *)
(* other client and no interrupt, a resume ends with every event shown.     *)
ResumeReplaysAll ==
  [][launch > 1 /\ faults = 0 /\ browsed = 0 /\ pc \in {"render"} \cup Decisions /\ pc' \in Ended
       => printed' = DOMAIN log']_vars

(* The types; cursor, page and what was printed never run ahead of the log.  *)
(* (drive, GET /api/sessions/:id)                                            *)
CliTypeOK ==
  /\ LogTypeOK
  /\ pc \in PCs /\ launch \in {0} \cup Launches
  /\ cursor \in 0 .. Len(log) /\ page \in [upto: 0 .. Len(log), last: 0 .. Len(log)]
  /\ printed \subseteq DOMAIN log /\ hosted \in BOOLEAN
  /\ wire \subseteq [op: Ops, id: Requests \cup Approvals \cup {NoId}, val: {""} \cup Decisions,
                     checked: BOOLEAN, live: BOOLEAN]
  /\ reply \in [res: Outcomes \cup {"none"}, upto: 0 .. Len(log)]
  /\ faults \in 0 .. MaxFaults /\ browsed \in 0 .. MaxBrowser

CliSpec == CliInit /\ [][CliNext]_vars
FairCliSpec == CliSpec /\ Fairness
=============================================================================
