--------------------------- MODULE ProcessManager ---------------------------
(***************************************************************************)
(* Supervised shell commands on the runner (process.rs): the registry of   *)
(* processes, one supervisor task and two output readers per process, the  *)
(* stop calls, and a client that polls with a cursor.  The operating       *)
(* system's part is the shell, its descendants inside and outside the      *)
(* shell's process group, and the two pipes.                               *)
(*                                                                         *)
(* Output is counted in bytes of its stream; every character written to    *)
(* stream s has CharBytes[s] bytes, and a retained chunk covers the bytes  *)
(* from+1 to upto of its stream with a text of len bytes.                  *)
(***************************************************************************)
EXTENDS Integers, FiniteSets, Sequences, SequencesExt

CONSTANTS
    Procs,        \* process ids
    Stops,        \* calls of stop
    MaxRetained,  \* max_retained_processes
    MaxBytes,     \* max_pending_output_bytes
    MaxChunks,    \* max_output_chunks
    CharBytes,    \* bytes of a stream's characters
    KeepsNext,    \* the client's cursor: next_sequence, or its last chunk's number
    MaxWritten    \* bound: bytes a command writes, per stream

ASSUME ProcessAssumption ==
    /\ {MaxRetained, MaxBytes, MaxChunks} \subseteq Nat \ {0}
    /\ CharBytes \in [{"stdout", "stderr"} -> Nat \ {0}]
    /\ MaxWritten \in [{"stdout", "stderr"} -> Nat]
    /\ KeepsNext \in BOOLEAN

VARIABLES
    entries,    \* retained processes
    sup,        \* what the supervisor is doing
    verdict,    \* the status it has decided on
    status,     \* the status a poll sees
    stopq,      \* a message is in the stop channel
    lost,       \* the authority guard has been found invalid
    due,        \* the timeout: "never", "later" or "now"
    shell,      \* "none", "alive", "dead" or "seen" (dead and noticed)
    kids,       \* live descendants, "inside" and "outside" the group
    wrote,      \* bytes written to a pipe
    got,        \* bytes its reader has read
    reader,     \* "open", "eof", "failed" or "aborted"
    chunks,     \* retained output
    held,       \* OutputBuffer.bytes
    next,       \* next_sequence
    cut,        \* a reader was aborted
    clipped,    \* terminal_truncated
    stop,       \* stop calls
    target,     \* their processes
    cursor,     \* the client's after_sequence
    seen,       \* bytes of a stream the client has got; -1: with a gap or twice
    told,       \* a poll was flagged as truncated
    final,      \* a poll showed a terminal status
    down        \* the runtime has been dropped

osVars     == <<shell, kids, wrote>>
supVars    == <<entries, sup, verdict, status, stopq, cut>>
outVars    == <<got, reader, chunks, held, next, clipped>>
envVars    == <<lost, due>>
stopVars   == <<stop, target>>
clientVars == <<cursor, seen, told, final>>
vars == <<supVars, envVars, osVars, outVars, stopVars, clientVars, down>>

Streams == {"stdout", "stderr"}
Alive(p) == shell[p] = "alive" \/ kids[p] # {}
GroupAlive(p) == shell[p] = "alive" \/ "inside" \in kids[p]

Init ==
    /\ entries = {} /\ down = FALSE
    /\ sup = [p \in Procs |-> "none"] /\ verdict = [p \in Procs |-> "running"]
    /\ status = [p \in Procs |-> "running"] /\ stopq = [p \in Procs |-> FALSE]
    /\ lost = [p \in Procs |-> FALSE] /\ due = [p \in Procs |-> "never"]
    /\ shell = [p \in Procs |-> "none"] /\ kids = [p \in Procs |-> {}]
    /\ wrote = [p \in Procs |-> [s \in Streams |-> 0]]
    /\ got = [p \in Procs |-> [s \in Streams |-> 0]]
    /\ reader = [p \in Procs |-> [s \in Streams |-> "open"]]
    /\ chunks = [p \in Procs |-> <<>>] /\ held = [p \in Procs |-> 0]
    /\ next = [p \in Procs |-> 1]
    /\ cut = [p \in Procs |-> FALSE] /\ clipped = [p \in Procs |-> FALSE]
    /\ stop = [c \in Stops |-> "idle"] /\ target = [c \in Stops |-> CHOOSE p \in Procs : TRUE]
    /\ cursor = [p \in Procs |-> 0] /\ seen = [p \in Procs |-> [s \in Streams |-> 0]]
    /\ told = [p \in Procs |-> FALSE] /\ final = [p \in Procs |-> FALSE]

-----------------------------------------------------------------------------
(* start_authorized, all of it under the lock of the registry.             *)
Start(p) ==
    /\ sup[p] = "none" /\ ~lost[p]
    /\ Cardinality(entries) < MaxRetained
    /\ entries' = entries \cup {p}
    /\ sup' = [sup EXCEPT ![p] = "select"]
    /\ shell' = [shell EXCEPT ![p] = "alive"]
    /\ \E d \in {"never", "later"} : due' = [due EXCEPT ![p] = d]
    /\ UNCHANGED <<verdict, status, stopq, cut, lost, kids, wrote, outVars, stopVars, clientVars, down>>

-----------------------------------------------------------------------------
(* The operating system: commands run, write, fork and exit as they like.  *)
(* SIGTERM obliges nobody, so sending it changes nothing here.  What is    *)
(* left when the runtime is dropped is of no interest.                     *)

OsStep == ~down /\ UNCHANGED <<supVars, envVars, outVars, stopVars, clientVars, down>>

(* Without a reader the pipe is closed and a write fails.                  *)
Write(p, s) ==
    /\ Alive(p) /\ reader[p][s] = "open"
    /\ wrote[p][s] < MaxWritten[s]
    /\ wrote' = [wrote EXCEPT ![p][s] = @ + 1]
    /\ UNCHANGED <<shell, kids>> /\ OsStep

Fork(p) ==
    /\ GroupAlive(p)
    /\ \E k \in {"inside", "outside"} : kids' = [kids EXCEPT ![p] = @ \cup {k}]
    /\ UNCHANGED <<shell, wrote>> /\ OsStep

ShellExit(p) ==
    /\ shell[p] = "alive"
    /\ shell' = [shell EXCEPT ![p] = "dead"]
    /\ UNCHANGED <<kids, wrote>> /\ OsStep

KidsExit(p, k) ==
    /\ k \in kids[p]
    /\ kids' = [kids EXCEPT ![p] = @ \ {k}]
    /\ UNCHANGED <<shell, wrote>> /\ OsStep

(* The runtime learns that the shell has exited.                           *)
Notice(p) ==
    /\ shell[p] = "dead"
    /\ shell' = [shell EXCEPT ![p] = "seen"]
    /\ UNCHANGED <<kids, wrote>> /\ OsStep

(* SIGKILL to the process group.                                           *)
KillGroup(p) ==
    /\ shell' = [shell EXCEPT ![p] = IF @ = "alive" THEN "dead" ELSE @]
    /\ kids' = [kids EXCEPT ![p] = @ \ {"inside"}]

(* ensure_valid or wait_until_invalid finds the lease of the process lost; *)
(* the clock reaches its timeout.  Once the supervisor has decided neither *)
(* matters any more.                                                       *)
LoseAuthority(p) ==
    /\ sup[p] \in {"none", "select"} /\ ~lost[p] /\ lost' = [lost EXCEPT ![p] = TRUE]
    /\ UNCHANGED <<due, supVars, osVars, outVars, stopVars, clientVars, down>>

TimePasses(p) ==
    /\ sup[p] = "select" /\ due[p] = "later" /\ due' = [due EXCEPT ![p] = "now"]
    /\ UNCHANGED <<lost, supVars, osVars, outVars, stopVars, clientVars, down>>

-----------------------------------------------------------------------------
(* append_output: what fits of a text of n bytes covering the stream from  *)
(* from + 1 to upto is retained, and the oldest chunks make room for it.   *)

(* truncate_utf8: whole characters only.                                   *)
Fit(n, width) == IF n <= MaxBytes THEN n ELSE MaxBytes - (MaxBytes % width)

Total(c) ==
    LET upTo[i \in 0 .. Len(c)] == IF i = 0 THEN 0 ELSE upTo[i - 1] + c[i].len
    IN  upTo[Len(c)]

(* Mutant: the limit may be exceeded by one byte.                          *)
EvictLate(c, n) ==
    CHOOSE k \in 0 .. Len(c) :
        /\ Total(SubSeq(c, k + 1, Len(c))) + n <= MaxBytes + 1 /\ Len(c) - k < MaxChunks
        /\ \A j \in 0 .. k - 1 : Total(SubSeq(c, j + 1, Len(c))) + n > MaxBytes + 1 \/ Len(c) - j >= MaxChunks

Evict(c, n) ==
    CHOOSE k \in 0 .. Len(c) :
        /\ Total(SubSeq(c, k + 1, Len(c))) + n <= MaxBytes /\ Len(c) - k < MaxChunks
        /\ \A j \in 0 .. k - 1 : Total(SubSeq(c, j + 1, Len(c))) + n > MaxBytes \/ Len(c) - j >= MaxChunks

(* Mutant: the length of an evicted chunk is not taken off.                *)
HeldAfterGrows(p, k, n) == held[p] + n

HeldAfter(p, k, n) == held[p] - Total(SubSeq(chunks[p], 1, k)) + n

AppendOutput(p, s, from, upto, n, width) ==
    LET m == Fit(n, width)
        k == Evict(chunks[p], m)
        chunk == [sequence |-> next[p], stream |-> s, from |-> from, len |-> m,
                  upto |-> IF m < n THEN from + m ELSE upto, truncated |-> m < n]
    IN  IF m = 0
        THEN /\ clipped' = [clipped EXCEPT ![p] = @ \/ m < n]
             /\ UNCHANGED <<chunks, held, next>>
        ELSE /\ chunks' = [chunks EXCEPT ![p] = Append(SubSeq(@, k + 1, Len(@)), chunk)]
             /\ held' = [held EXCEPT ![p] = HeldAfter(p, k, m)]
             /\ next' = [next EXCEPT ![p] = @ + 1]
             /\ UNCHANGED clipped

(* spawn_reader: got % CharBytes[s] bytes of a character are pending.      *)
Read(p, s, n) ==
    LET from == got[p][s] - (got[p][s] % CharBytes[s])
        upto == got[p][s] + n - ((got[p][s] + n) % CharBytes[s])
    IN  /\ reader[p][s] = "open" /\ sup[p] # "none" /\ ~down
        /\ got[p][s] + n <= wrote[p][s]
        /\ got' = [got EXCEPT ![p][s] = @ + n]
        /\ AppendOutput(p, s, from, upto, upto - from, CharBytes[s])
        /\ UNCHANGED <<reader, supVars, envVars, osVars, stopVars, clientVars, down>>

(* The reader ends: what is pending becomes a replacement character, three *)
(* bytes long.  That is at the end of the file, once nobody holds the      *)
(* pipe, or at any time with an error, which leaves no other trace.        *)
ReadEnds(p, s, how) ==
    /\ reader[p][s] = "open" /\ sup[p] # "none" /\ ~down
    /\ how = "eof" => got[p][s] = wrote[p][s] /\ ~Alive(p)
    /\ reader' = [reader EXCEPT ![p][s] = how]
    /\ LET pending == got[p][s] % CharBytes[s]
       IN  AppendOutput(p, s, got[p][s] - pending, got[p][s], IF pending = 0 THEN 0 ELSE 3, 3)
    /\ UNCHANGED <<got, supVars, envVars, osVars, stopVars, clientVars, down>>

-----------------------------------------------------------------------------
(* supervise.  The select is biased: the exit of the shell, then a stop,   *)
(* then the loss of authority, then the timeout.                           *)

Decide(p, v, at) ==
    /\ sup[p] = "select"
    /\ verdict' = [verdict EXCEPT ![p] = v]
    /\ sup' = [sup EXCEPT ![p] = at]
    /\ UNCHANGED <<entries, status, cut, envVars, osVars, outVars, stopVars, clientVars, down>>

SelectExited(p) ==
    /\ shell[p] = "seen"
    /\ Decide(p, "exited", "cleanup") /\ UNCHANGED stopq

SelectStop(p) ==
    /\ shell[p] # "seen" /\ stopq[p]
    /\ Decide(p, "stopped", "terminate") /\ stopq' = [stopq EXCEPT ![p] = FALSE]

(* Mutant: a command outlives the lease it was started under.              *)
SelectAuthorityNever(p) ==
    /\ shell[p] # "seen" /\ ~stopq[p] /\ FALSE
    /\ Decide(p, "stopped", "terminate") /\ UNCHANGED stopq

SelectAuthority(p) ==
    /\ shell[p] # "seen" /\ ~stopq[p] /\ lost[p]
    /\ Decide(p, "stopped", "terminate") /\ UNCHANGED stopq

SelectTimeout(p) ==
    /\ shell[p] # "seen" /\ ~stopq[p] /\ ~lost[p] /\ due[p] = "now"
    /\ Decide(p, "timed_out", "terminate") /\ UNCHANGED stopq

SupStep(p, at, goto) ==
    /\ sup[p] = at
    /\ sup' = [sup EXCEPT ![p] = goto]
    /\ UNCHANGED <<verdict, stopq, envVars, wrote, stopVars, clientVars, down>>

(* Mutant: the group of a shell that exited by itself is only asked to end.*)
CleanupTermOnly(p) ==
    /\ SupStep(p, "cleanup", "stdout")
    /\ UNCHANGED <<shell, kids, entries, status, cut, outVars>>

(* cleanup_process_group: SIGTERM, 100 ms, SIGKILL.                        *)
Cleanup(p) ==
    /\ SupStep(p, "cleanup", "stdout")
    /\ KillGroup(p)
    /\ UNCHANGED <<entries, status, cut, outVars>>

(* terminate_process_group: SIGTERM, at most 100 ms for the shell, SIGKILL,*)
(* and the shell is waited for.                                            *)
Terminate(p) ==
    /\ SupStep(p, "terminate", IF shell[p] = "seen" THEN "stdout" ELSE "reap")
    /\ KillGroup(p)
    /\ UNCHANGED <<entries, status, cut, outVars>>

Reap(p) ==
    /\ shell[p] = "seen"
    /\ SupStep(p, "reap", "stdout")
    /\ UNCHANGED <<shell, kids, entries, status, cut, outVars>>

Following(s) == IF s = "stdout" THEN "stderr" ELSE "publish"

(* Mutant: the supervisor waits for a reader as long as it takes.          *)
FinishReaderPatiently(p, s) ==
    /\ SupStep(p, s, Following(s))
    /\ reader[p][s] \in {"eof", "failed"}
    /\ UNCHANGED <<reader, cut, got, chunks, held, next, clipped, shell, kids, entries, status>>

(* Mutant: an aborted reader goes unreported.                              *)
FinishReaderQuietly(p, s) ==
    /\ SupStep(p, s, Following(s))
    /\ reader' = [reader EXCEPT ![p][s] = IF @ = "open" THEN "aborted" ELSE @]
    /\ UNCHANGED <<cut, got, chunks, held, next, clipped, shell, kids, entries, status>>

(* finish_reader: a reader still at work after 25 ms is aborted.           *)
FinishReader(p, s) ==
    /\ SupStep(p, s, Following(s))
    /\ reader' = [reader EXCEPT ![p][s] = IF @ = "open" THEN "aborted" ELSE @]
    /\ cut' = [cut EXCEPT ![p] = @ \/ reader[p][s] = "open"]
    /\ UNCHANGED <<got, chunks, held, next, clipped, shell, kids, entries, status>>

Publish(p) ==
    /\ SupStep(p, "publish", "retain")
    /\ status' = [status EXCEPT ![p] = verdict[p]]
    /\ clipped' = [clipped EXCEPT ![p] = @ \/ cut[p]]
    /\ UNCHANGED <<cut, got, reader, chunks, held, next, shell, kids, entries>>

(* After PROCESS_RETENTION the process is forgotten.                       *)
Forget(p) ==
    /\ SupStep(p, "retain", "gone")
    /\ entries' = entries \ {p}
    /\ UNCHANGED <<shell, kids, status, cut, outVars>>

(* The runtime is dropped and every task with it; the guard of a group     *)
(* that is not disarmed kills it.                                          *)
Armed(p) == sup[p] \notin {"none", "retain", "gone"}

Shutdown ==
    /\ ~down /\ down' = TRUE
    /\ shell' = [p \in Procs |-> IF Armed(p) /\ shell[p] = "alive" THEN "dead" ELSE shell[p]]
    /\ kids' = [p \in Procs |-> IF Armed(p) THEN kids[p] \ {"inside"} ELSE kids[p]]
    /\ entries' = {} /\ sup' = [p \in Procs |-> "gone"]
    /\ stop' = [c \in Stops |-> "done"]
    /\ UNCHANGED <<verdict, status, stopq, cut, envVars, wrote, outVars, target, clientVars>>

-----------------------------------------------------------------------------
(* stop: look up, send to a running process, poll until it is terminal.    *)

StopUnchanged == UNCHANGED <<envVars, osVars, outVars, clientVars, down>>

StopLookup(c, p) ==
    /\ stop[c] = "idle" /\ sup[p] # "none" /\ ~down
    /\ target' = [target EXCEPT ![c] = p]
    /\ stop' = [stop EXCEPT ![c] = IF p \notin entries THEN "done"
                                   ELSE IF status[p] = "running" THEN "send" ELSE "wait"]
    /\ UNCHANGED supVars /\ StopUnchanged

(* try_send: a full channel holds such a message already, a closed one     *)
(* belongs to a supervisor that has ended.                                 *)
StopSend(c) ==
    /\ stop[c] = "send"
    /\ stopq' = [stopq EXCEPT ![target[c]] = @ \/ sup[target[c]] # "gone"]
    /\ stop' = [stop EXCEPT ![c] = "wait"]
    /\ UNCHANGED <<entries, sup, verdict, status, cut, target>> /\ StopUnchanged

StopReturn(c) ==
    /\ stop[c] = "wait"
    /\ target[c] \notin entries \/ status[target[c]] # "running"
    /\ stop' = [stop EXCEPT ![c] = "done"]
    /\ UNCHANGED <<supVars, target>> /\ StopUnchanged

-----------------------------------------------------------------------------
(* poll, and what the client makes of the answer.                          *)

Earliest(p) == IF chunks[p] = <<>> THEN next[p] ELSE Head(chunks[p]).sequence
Output(p, after) == SelectSeq(chunks[p], LAMBDA c : c.sequence > after)

Truncated(p, after) ==
    \/ clipped[p]
    \/ after + 1 < Earliest(p)
    \/ \E c \in Range(Output(p, after)) : c.truncated

Joined(s, output, start) ==
    LET mine == SelectSeq(output, LAMBDA c : c.stream = s)
        upTo[i \in 0 .. Len(mine)] ==
            IF i = 0 THEN start
            ELSE IF mine[i].from = upTo[i - 1] THEN mine[i].upto ELSE -1
    IN  upTo[Len(mine)]

(* What a client asks for next: what follows the last chunk it has got, or *)
(* what follows next_sequence if it keeps that.  The last chunk is always  *)
(* retained, and every poll returns it unless the client has it already.   *)
Cursor(p) == IF KeepsNext THEN next[p] ELSE next[p] - 1

Poll(p) ==
    /\ p \in entries /\ ~final[p]
    /\ seen' = [seen EXCEPT ![p] = [s \in Streams |-> Joined(s, Output(p, cursor[p]), @[s])]]
    /\ told' = [told EXCEPT ![p] = @ \/ Truncated(p, cursor[p])]
    /\ cursor' = [cursor EXCEPT ![p] = Cursor(p)]
    /\ final' = [final EXCEPT ![p] = status[p] # "running"]
    /\ UNCHANGED <<supVars, envVars, osVars, outVars, stopVars, down>>

-----------------------------------------------------------------------------
Select(p) == SelectExited(p) \/ SelectStop(p) \/ SelectAuthority(p) \/ SelectTimeout(p)
Supervise(p) ==
    \/ Select(p) \/ Cleanup(p) \/ Terminate(p) \/ Reap(p)
    \/ \E s \in Streams : FinishReader(p, s)
    \/ Publish(p) \/ Forget(p)
ReaderStep(p, s) ==
    \/ \E how \in {"eof", "failed"} : ReadEnds(p, s, how)
    \/ \E n \in 1 .. MaxWritten[s] : Read(p, s, n)
Os(p) ==
    \/ \E s \in Streams : Write(p, s)
    \/ Fork(p) \/ ShellExit(p) \/ \E k \in {"inside", "outside"} : KidsExit(p, k)
StopCall(c) == StopSend(c) \/ StopReturn(c)

Next ==
    \/ \E p \in Procs :
          \/ Start(p) \/ Os(p) \/ Notice(p) \/ LoseAuthority(p) \/ TimePasses(p)
          \/ Supervise(p) \/ Poll(p)
          \/ \E s \in Streams : ReaderStep(p, s)
          \/ \E c \in Stops : StopLookup(c, p)
    \/ \E c \in Stops : StopCall(c)
    \/ Shutdown

Spec == Init /\ [][Next]_vars

(* Tokio runs every ready task and timer, and the kernel reports exits;    *)
(* commands need not do anything, and a lease need not be lost.            *)
Fairness ==
    /\ \A p \in Procs : WF_vars(Supervise(p)) /\ WF_vars(Notice(p)) /\ WF_vars(TimePasses(p))
    /\ \A c \in Stops : WF_vars(StopCall(c))

FairSpec == Spec /\ Fairness

-----------------------------------------------------------------------------
(* Properties.                                                             *)

Statuses == {"running", "exited", "stopped", "timed_out"}

(* Types.                                                                  *)
TypeOK ==
    /\ entries \subseteq Procs /\ down \in BOOLEAN
    /\ sup \in [Procs -> {"none", "select", "cleanup", "terminate", "reap", "stdout",
                          "stderr", "publish", "retain", "gone"}]
    /\ verdict \in [Procs -> Statuses] /\ status \in [Procs -> Statuses]
    /\ {stopq, lost, cut, clipped, told, final} \subseteq [Procs -> BOOLEAN]
    /\ due \in [Procs -> {"never", "later", "now"}]
    /\ shell \in [Procs -> {"none", "alive", "dead", "seen"}]
    /\ kids \in [Procs -> SUBSET {"inside", "outside"}]
    /\ {wrote, got} \subseteq [Procs -> [Streams -> Nat]]
    /\ reader \in [Procs -> [Streams -> {"open", "eof", "failed", "aborted"}]]
    /\ held \in [Procs -> 0 .. MaxBytes] /\ next \in [Procs -> Nat \ {0}]
    /\ stop \in [Stops -> {"idle", "send", "wait", "done"}] /\ target \in [Stops -> Procs]
    /\ cursor \in [Procs -> Nat] /\ seen \in [Procs -> [Streams -> Nat \cup {-1}]]

(* The retained output is a run of consecutive chunks ending with the last *)
(* one, within both limits, and the byte count kept beside it is right.    *)
(* (append_output)                                                         *)
OutputAccounting ==
    \A p \in Procs :
        /\ held[p] = Total(chunks[p]) /\ held[p] <= MaxBytes
        /\ Len(chunks[p]) <= MaxChunks
        /\ \A i \in DOMAIN chunks[p] :
              chunks[p][i].sequence = next[p] - Len(chunks[p]) + i - 1

(* A client that asks for what follows the last chunk it has got, that has *)
(* polled a terminal status and was never told of truncation, has received *)
(* all that was read from the pipes, in order and once, and that is every  *)
(* byte the command and its descendants wrote, unless reading failed:      *)
(* whatever was evicted, clipped, cut off with an aborted reader or killed *)
(* in the middle of a character.  (poll, finish_reader, append_output)     *)
CompleteUnlessTold ==
    \A p \in Procs : final[p] /\ ~told[p] =>
        /\ seen[p] = got[p]
        /\ \A s \in Streams : reader[p][s] # "failed" => got[p][s] = wrote[p][s]

(* So has a client that keeps next_sequence, the "cursor to persist for    *)
(* the next poll" of protocol.rs.  It has not: poll returns what follows   *)
(* the cursor, and the chunk with that very number is never returned.      *)
PersistedCursorSuffices ==
    \A p \in Procs : final[p] /\ ~told[p] => seen[p] = got[p]

(* Whatever lives in a command's process group can be stopped: its process *)
(* is retained and not reported as terminal, so that after an exit, a      *)
(* stop, a timeout, a lost lease or the end of the runtime nothing is left.*)
(* ("stop, timeout, normal shell exit, and runner teardown all clean up    *)
(* descendants", process.rs)                                               *)
NoSurvivors ==
    \A p \in Procs : GroupAlive(p) => p \in entries /\ status[p] = "running"

(* A command whose shell has exited, whose lease was lost, whose time is   *)
(* up or which a call wants stopped gives its place in the registry back,  *)
(* and no call is left waiting for it: also when it ignores SIGTERM or     *)
(* leaves a descendant that keeps the pipes open.                          *)
(* (supervise, wait_until_terminal)                                        *)
Asked(p) == \E c \in Stops : target[c] = p /\ stop[c] \in {"send", "wait"}
PlaceGivenBack ==
    \A p \in Procs :
        p \in entries /\ (shell[p] \in {"dead", "seen"} \/ lost[p] \/ due[p] = "now" \/ Asked(p))
            ~> p \notin entries /\ ~Asked(p)

=============================================================================
