--------------------------- MODULE WorkspaceTools ---------------------------
(***************************************************************************)
(* What the runner's tools do to the files of the workspace, and what they  *)
(* see of them (crates/kodo/src/runner.rs, workspace.rs): replace_text      *)
(* through a temporary file, apply_patch through git, search_code, git_diff *)
(* and the pages of read_file, with the semaphore of blocking tools, the    *)
(* mutation lock and the loss of the lease, while commands change files     *)
(* outside the lock.  A file is the sequence of its lines, a path or a line *)
(* is a value without inner structure.  A runner that is killed leaves the  *)
(* files of the state it is in.                                             *)
(***************************************************************************)
EXTENDS Naturals, FiniteSets, Sequences, Functions, FiniteSetsExt

CONSTANTS Paths,      \* of the workspace's files
          Tracked,    \* the paths in git's index
          Initial,    \* the content of every path to begin with, HEAD's for tracked ones
          Gone,       \* of a path: no such file
          Jobs,       \* requests
          Asks,       \* what each may ask for
          ShellLine,  \* a line commands write
          Permits,    \* max_blocking_tools
          MaxLines,   \* max_file_input_bytes, in lines
          LineBytes,  \* the length of each line
          PathBytes,  \* the length of a path
          DiffBytes,  \* the length of each file's diff
          Stub,       \* a path name that was cut short
          Sorted,     \* the paths, those of temporary files included, in order
          MaxResults, \* max_results
          MaxOutput,  \* max_output_bytes
          PageLimit,  \* the client's limit for read_file
          MaxShell    \* bound: changes by commands

ASSUME ToolsAssumption ==
  /\ Tracked \subseteq Paths /\ Gone \notin Paths \cup Jobs /\ Paths \cap Jobs = {}
  /\ Stub \notin Paths \cup Jobs /\ Range(Sorted) = Paths \cup Jobs \cup {Stub}
  /\ {Permits, MaxLines, MaxResults, MaxOutput, PageLimit, PathBytes} \subseteq Nat \ {0}
  /\ Range(LineBytes) \cup Range(DiffBytes) \subseteq Nat \ {0} /\ MaxShell \in Nat
  /\ \A j \in Jobs : \A r \in Asks[j] :
       /\ r.tool \in {"replace", "patch", "search", "diff", "read"}
       /\ r.tool \in {"replace", "patch"} => DOMAIN r.edits \subseteq Paths
       /\ r.tool = "replace" => Cardinality(DOMAIN r.edits) = 1

VARIABLES request, \* what each job asks for
          files,   \* the content of each path
          text,    \* the same, but for a file git has removed in order to rewrite it
          tmp,     \* the temporary file of each job
          lock,    \* the holder of mutation_lock
          job,     \* where each job is, what it has read, and whether its lease is lost
          result,  \* what it answered
          dirty,   \* paths changed since a job read them, other than under the lock
          wrote,   \* paths a job has changed
          shell    \* changes by commands so far

vars == <<request, files, text, tmp, lock, job, result, dirty, wrote, shell>>

Tool(j) == request[j].tool
Edits(j) == request[j].edits
Mutators == {j \in Jobs : Tool(j) \in {"replace", "patch"}}
Walkers == {j \in Jobs : Tool(j) \in {"search", "diff"}}
Lines(c) == IF c = Gone THEN {} ELSE Range(c)

(* Where a line occurs, and what replacen and git make of a content: a patch *)
(* may also create a file and remove one.                                   *)
Occurrences(c, line) == {i \in DOMAIN c : c[i] = line}
Applies(c, e) == IF e.old = Gone THEN c = Gone ELSE e.old \in Lines(c)
Edited(c, e) ==
  IF e.new = Gone THEN Gone
  ELSE IF c = Gone THEN <<e.new>>
  ELSE LET first == {i \in Occurrences(c, e.old) : \A k \in Occurrences(c, e.old) : i <= k}
       IN [i \in DOMAIN c |-> IF i \in first THEN e.new ELSE c[i]]

Idle == [pc |-> "new", lost |-> FALSE, snap |-> <<>>, todo |-> {}, at |-> Gone, found |-> {},
         bytes |-> 0, truncated |-> FALSE, offset |-> 0, got |-> <<>>]

Init ==
  /\ request \in {r \in [Jobs -> UNION {Asks[j] : j \in Jobs}] : \A j \in Jobs : r[j] \in Asks[j]}
  /\ files = Initial /\ text = Initial
  /\ tmp = [j \in Jobs |-> Gone]
  /\ lock = Gone
  /\ job = [j \in Jobs |-> Idle]
  /\ result = [j \in Jobs |-> "none"]
  /\ dirty = [j \in Jobs |-> {}]
  /\ wrote = [j \in Jobs |-> {}]
  /\ shell = 0

Working == {"lock", "locked", "temp", "write", "rename", "spawn", "git", "create", "exit", "fail", "track", "list",
            "visit", "scan", "page"}
At(j, p) == job[j].pc = p
Go(j, p) == job' = [job EXCEPT ![j].pc = p]

(* The answer; permit and lock are released with the frame that held them.  *)
Answer(j, r) ==
  /\ job' = [job EXCEPT ![j] = IF r = "ok"
       THEN [Idle EXCEPT !.pc = "done", !.found = job[j].found, !.truncated = job[j].truncated]
       ELSE [Idle EXCEPT !.pc = "done"]]
  /\ result' = [result EXCEPT ![j] = r]
  /\ lock' = IF lock = j THEN Gone ELSE lock

(* An answer that leaves something out and says so.                         *)
AnswerCut(j, found) ==
  /\ job' = [job EXCEPT ![j] = [Idle EXCEPT !.pc = "done", !.found = found, !.truncated = TRUE]]
  /\ result' = [result EXCEPT ![j] = "ok"]
  /\ UNCHANGED lock

Reading(j) == job[j].pc \notin {"new", "permit"} \/ job[j].offset > 0

(* A change of a path, by a job or by a command (who = Gone).               *)
Put(f, c, who) ==
  /\ files' = [files EXCEPT ![f] = c]
  /\ dirty' = [k \in Jobs |->
       IF (k \in Mutators /\ job[k].snap # <<>> /\ who = Gone) \/ (k \notin Mutators /\ Reading(k))
       THEN dirty[k] \cup {f} ELSE dirty[k]]
Change(f, c, who) == Put(f, c, who) /\ text' = [text EXCEPT ![f] = c]

(* The first k of a set of numbers, and the first of a set of paths.        *)
First(s, k) == {i \in s : Cardinality({h \in s : h < i}) < k}
Places(names) == {i \in DOMAIN Sorted : Sorted[i] \in names}
NextOf(names) == Sorted[Min(Places(names))]

-----------------------------------------------------------------------------
(* execute_authorized: the lease is checked, replace_text resolves its path, *)
(* and the request waits for a permit.                                      *)
Start(j) ==
  /\ At(j, "new")
  /\ \/ job[j].lost /\ Answer(j, "lost")
     \/ /\ ~job[j].lost
        /\ LET resolved == Tool(j) = "replace" => \A f \in DOMAIN Edits(j) : files[f] # Gone
           IN \/ resolved /\ Go(j, "permit") /\ UNCHANGED <<result, lock>>
              \/ ~resolved /\ Answer(j, "failed")
  /\ UNCHANGED <<files, text, tmp, dirty, wrote, shell>>

Busy == Cardinality({k \in Jobs : job[k].pc \in Working})

(* A permit is free, and the mutant that gives out one too many.            *)
PermitOver == Busy <= Permits
PermitFree == Busy < Permits

AcquirePermit(j) ==
  /\ At(j, "permit") /\ PermitFree
  /\ \/ j \in Mutators /\ Go(j, "lock") /\ UNCHANGED <<result, lock>>
     \/ /\ j \notin Mutators /\ ~job[j].lost
        /\ Go(j, CASE Tool(j) = "search" -> "list" [] Tool(j) = "diff" -> "track" [] Tool(j) = "read" -> "page")
        /\ UNCHANGED <<result, lock>>
     \/ j \notin Mutators /\ job[j].lost /\ Answer(j, "lost")
  /\ UNCHANGED <<files, text, tmp, dirty, wrote, shell>>

(* The mutant of AcquireLock that goes ahead beside another mutation.       *)
AcquireNothing(j) ==
  /\ At(j, "lock")
  /\ lock' = j /\ Go(j, "locked")
  /\ UNCHANGED <<files, text, tmp, result, dirty, wrote, shell>>

AcquireLock(j) ==
  /\ At(j, "lock") /\ lock = Gone
  /\ lock' = j /\ Go(j, "locked")
  /\ UNCHANGED <<files, text, tmp, result, dirty, wrote, shell>>

-----------------------------------------------------------------------------
(* replace_text_if_unique: the content is read and changed in memory.       *)
ReadTarget(j) ==
  /\ At(j, "locked") /\ Tool(j) = "replace"
  /\ LET f == CHOOSE f \in DOMAIN Edits(j) : TRUE
         e == Edits(j)[f]
         unique == files[f] # Gone /\ Cardinality(Occurrences(files[f], e.old)) = 1
         fits == files[f] # Gone /\ Len(files[f]) <= MaxLines
     IN \/ job[j].lost /\ Answer(j, "lost")
        \/ ~job[j].lost /\ ~(unique /\ fits) /\ Answer(j, "failed")
        \/ /\ ~job[j].lost /\ unique /\ fits
           /\ job' = [job EXCEPT ![j] = [@ EXCEPT !.pc = "temp", !.snap = [x \in {f} |-> Edited(files[f], e)]]]
           /\ UNCHANGED <<result, lock>>
  /\ UNCHANGED <<files, text, tmp, dirty, wrote, shell>>

Target(j) == CHOOSE f \in DOMAIN job[j].snap : TRUE

CreateTemporary(j) ==
  /\ At(j, "temp")
  /\ Go(j, "write") /\ tmp' = [tmp EXCEPT ![j] = <<>>]
  /\ UNCHANGED <<files, text, lock, result, dirty, wrote, shell>>


WriteTemporary(j) ==
  /\ At(j, "write")
  /\ Go(j, "rename") /\ tmp' = [tmp EXCEPT ![j] = job[j].snap[Target(j)]]
  /\ UNCHANGED <<files, text, lock, result, dirty, wrote, shell>>

(* Creating, writing, syncing or renaming fails: the temporary file is      *)
(* removed, or stays if that fails too, which nobody is told.               *)
AbandonTemporary(j) ==
  /\ \E p \in {"temp", "write", "rename"} : At(j, p)
  /\ tmp' \in {tmp, [tmp EXCEPT ![j] = Gone]}
  /\ Answer(j, "failed")
  /\ UNCHANGED <<files, text, dirty, wrote, shell>>

Rename(j) ==
  /\ At(j, "rename")
  /\ Change(Target(j), tmp[j], j)
  /\ tmp' = [tmp EXCEPT ![j] = Gone]
  /\ wrote' = [wrote EXCEPT ![j] = {Target(j)}]
  /\ Answer(j, "ok")
  /\ UNCHANGED <<shell>>

-----------------------------------------------------------------------------
(* patch_paths: all confined, at least one, and not too many to name.        *)
PatchPaths(j) ==
  LET named == Cardinality(DOMAIN Edits(j))
  IN named \in 1 .. MaxResults /\ named * PathBytes <= MaxOutput

(* What git apply asks of the files.                                        *)
AllApply(j) == \A f \in DOMAIN Edits(j) : Applies(files[f], Edits(j)[f])

(* preflight_patch: git apply --check accepts the patch.                    *)
Preflight(j) ==
  /\ At(j, "locked") /\ Tool(j) = "patch"
  /\ LET accepted == PatchPaths(j) /\ AllApply(j)
     IN \/ job[j].lost /\ Answer(j, "lost")
        \/ ~job[j].lost /\ ~accepted /\ Answer(j, "failed")
        \/ ~job[j].lost /\ accepted /\ Go(j, "spawn") /\ UNCHANGED <<result, lock>>
  /\ UNCHANGED <<files, text, tmp, dirty, wrote, shell>>

(* git apply reads and checks every file before it touches the first.       *)
SpawnGit(j) ==
  /\ At(j, "spawn")
  /\ \/ job[j].lost /\ Answer(j, "lost")
     \/ /\ ~job[j].lost
        /\ job' = [job EXCEPT ![j] = IF AllApply(j)
             THEN [@ EXCEPT !.pc = "git", !.todo = {f \in DOMAIN Edits(j) : files[f] # Gone},
                            !.snap = [f \in DOMAIN Edits(j) |-> Edited(files[f], Edits(j)[f])]]
             ELSE [@ EXCEPT !.pc = "fail"]]
        /\ UNCHANGED <<result, lock>>
  /\ UNCHANGED <<files, text, tmp, dirty, wrote, shell>>

(* It removes the old files, then creates the new ones, in the order of the *)
(* patch.                                                                   *)
GitRemoves(j) ==
  /\ At(j, "git")
  /\ \/ /\ job[j].todo # {}
        /\ LET f == NextOf(job[j].todo)
           IN /\ Put(f, Gone, j)
              /\ text' = [text EXCEPT ![f] = IF job[j].snap[f] = Gone THEN Gone ELSE @]
              /\ wrote' = [wrote EXCEPT ![j] = @ \cup {f}]
              /\ job' = [job EXCEPT ![j].todo = @ \ {f}]
     \/ /\ job[j].todo = {}
        /\ job' = [job EXCEPT ![j].pc = "create",
                              ![j].todo = {f \in DOMAIN Edits(j) : job[j].snap[f] # Gone}]
        /\ UNCHANGED <<files, text, dirty, wrote>>
  /\ UNCHANGED <<tmp, lock, result, shell>>

GitCreates(j) ==
  /\ At(j, "create")
  /\ \/ /\ job[j].todo # {}
        /\ LET f == NextOf(job[j].todo)
           IN /\ Change(f, job[j].snap[f], j)
              /\ wrote' = [wrote EXCEPT ![j] = @ \cup {f}]
              /\ job' = [job EXCEPT ![j].todo = @ \ {f}]
     \/ /\ job[j].todo = {}
        /\ Go(j, "exit")
        /\ UNCHANGED <<files, text, dirty, wrote>>
  /\ UNCHANGED <<tmp, lock, result, shell>>

(* It cannot remove or write a file and gives up, between any two of them:  *)
(* the disk is full, a directory cannot be written.                         *)
GitFails(j) ==
  /\ \E p \in {"git", "create"} : At(j, p)
  /\ Go(j, "fail")
  /\ UNCHANGED <<files, text, tmp, lock, result, dirty, wrote, shell>>

(* The mutant of GitExits that answers before it looks at git's status.     *)
GitExitsUnread(j) ==
  /\ \E p \in {"exit", "fail"} : At(j, p)
  /\ ~job[j].lost
  /\ Answer(j, "ok")
  /\ UNCHANGED <<files, text, tmp, dirty, wrote, shell>>

(* The biased select sees git's exit only while the lease is valid; the     *)
(* exit status decides.                                                     *)
GitExits(j) ==
  /\ \E p \in {"exit", "fail"} : At(j, p)
  /\ ~job[j].lost
  /\ Answer(j, IF At(j, "exit") THEN "ok" ELSE "failed")
  /\ UNCHANGED <<files, text, tmp, dirty, wrote, shell>>

(* terminate_process_group: git is killed wherever it is.                   *)
GitKilled(j) ==
  /\ \E p \in {"git", "create", "exit", "fail"} : At(j, p)
  /\ job[j].lost
  /\ Answer(j, "lost")
  /\ UNCHANGED <<files, text, tmp, dirty, wrote, shell>>

-----------------------------------------------------------------------------
Exists(x) == IF x \in Paths THEN files[x] # Gone ELSE x \in Jobs /\ tmp[x] # Gone
Content(x) == IF x \in Paths THEN files[x] ELSE tmp[x]

(* git ls-files: the index, whether or not a file is there, and the files   *)
(* that are there and not in the index, temporary ones included.            *)
Untracked == {x \in (Paths \ Tracked) \cup Jobs : Exists(x)}
Listed == Tracked \cup Untracked

(* What the runner keeps of a listing, a path and a newline for each file:  *)
(* max_output_bytes, the last name cut where that falls inside it.          *)
Captured(all) ==
  LET room == MaxOutput \div (PathBytes + 1)
      cut == IF MaxOutput % (PathBytes + 1) = 0 THEN {} ELSE {Stub}
  IN IF Cardinality(all) <= room THEN {all}
     ELSE {kept \cup cut : kept \in {s \in SUBSET all : Cardinality(s) = room}}

(* list_files, called by search_code: the names captured, sorted and cut to *)
(* max_results. They are no longer than what was captured, so the sum of    *)
(* their lengths, which is also limited to max_output_bytes, drops none.    *)
ListFiles(j) ==
  /\ At(j, "list") /\ Tool(j) = "search"
  /\ \E names \in Captured(Listed) :
       LET listed == {Sorted[i] : i \in First(Places(names), MaxResults)}
       IN job' = [job EXCEPT ![j].pc = "visit", ![j].todo = listed, ![j].truncated = listed # Listed]
  /\ UNCHANGED <<files, text, tmp, lock, result, dirty, wrote, shell>>

(* The next listed path, handed to what reads it.                           *)
Take(j) ==
  /\ job' = [job EXCEPT ![j].pc = "scan", ![j].at = NextOf(job[j].todo), ![j].todo = @ \ {NextOf(@)}]
  /\ UNCHANGED <<result, lock>>

(* is_file fails for a path that is gone.                                   *)
VisitFile(j) ==
  /\ At(j, "visit") /\ Tool(j) = "search"
  /\ \/ job[j].todo = {} /\ Answer(j, "ok")
     \/ job[j].todo # {} /\ ~Exists(NextOf(job[j].todo)) /\ Answer(j, "failed")
     \/ job[j].todo # {} /\ Exists(NextOf(job[j].todo)) /\ Take(j)
  /\ UNCHANGED <<files, text, tmp, dirty, wrote, shell>>

(* The length of some matches in a content.                                 *)
Length(c, lines) == MapThenSumSet(LAMBDA i : PathBytes + LineBytes[c[i]], lines)

(* The mutant of SearchCut that does not say so.                            *)
SearchCutQuietly(j, found) ==
  /\ job' = [job EXCEPT ![j] = [Idle EXCEPT !.pc = "done", !.found = found]]
  /\ result' = [result EXCEPT ![j] = "ok"]
  /\ UNCHANGED lock

SearchCut(j, found) == AnswerCut(j, found)

(* search_code reads a file; one that cannot be read or is too long is      *)
(* passed over. The first match that is one too many, or that does not fit  *)
(* into the output, ends the search; what fits of it is still shown.        *)
Search(j) ==
  /\ At(j, "scan") /\ Tool(j) = "search"
  /\ LET x == job[j].at
         c == Content(x)
         readable == Exists(x) /\ Len(c) <= MaxLines
         matching == IF readable THEN {i \in DOMAIN c : c[i] \in request[j].query} ELSE {}
         room == MaxResults - Cardinality(job[j].found)
         whole == Max({k \in 0 .. Min({room, Cardinality(matching)}) :
                         job[j].bytes + Length(c, First(matching, k)) <= MaxOutput})
         used == job[j].bytes + Length(c, First(matching, whole))
         begun == IF whole < room /\ used + PathBytes < MaxOutput THEN whole + 1 ELSE whole
         Found(k) == job[j].found \cup {<<x, i>> : i \in First(matching, k)}
     IN IF whole = Cardinality(matching)
        THEN /\ job' = [job EXCEPT ![j].pc = "visit", ![j].found = Found(whole), ![j].bytes = used]
             /\ UNCHANGED <<result, lock>>
        ELSE SearchCut(j, Found(begun))
  /\ UNCHANGED <<files, text, tmp, dirty, wrote, shell>>

Differing == {f \in Tracked : files[f] # Initial[f]}
DiffLength(s) == MapThenSumSet(LAMBDA x : DiffBytes[x], s)

(* git_diff begins with the tracked files, as far as the output holds them.  *)
DiffTracked(j) ==
  /\ At(j, "track")
  /\ \E shown \in SUBSET Differing :
       LET fits == DiffLength(Differing) <= MaxOutput
       IN /\ IF fits THEN shown = Differing ELSE DiffLength(shown) <= MaxOutput
          /\ job' = [job EXCEPT ![j].pc = "list", ![j].found = shown, ![j].truncated = ~fits,
                                ![j].bytes = IF fits THEN DiffLength(shown) ELSE MaxOutput]
  /\ UNCHANGED <<files, text, tmp, lock, result, dirty, wrote, shell>>

(* The untracked ones, listed without a limit that matters here.            *)
ListUntracked(j) ==
  /\ At(j, "list") /\ Tool(j) = "diff"
  /\ job' = [job EXCEPT ![j].pc = "visit", ![j].todo = Untracked]
  /\ UNCHANGED <<files, text, tmp, lock, result, dirty, wrote, shell>>

(* A diff stops when its output is full; resolve fails for a path that is   *)
(* gone.                                                                    *)
VisitUntracked(j) ==
  /\ At(j, "visit") /\ Tool(j) = "diff"
  /\ LET full == job[j].bytes >= MaxOutput
     IN \/ job[j].todo = {} /\ Answer(j, "ok")
        \/ job[j].todo # {} /\ full /\ AnswerCut(j, job[j].found)
        \/ job[j].todo # {} /\ ~full /\ ~Exists(NextOf(job[j].todo)) /\ Answer(j, "failed")
        \/ job[j].todo # {} /\ ~full /\ Exists(NextOf(job[j].todo)) /\ Take(j)
  /\ UNCHANGED <<files, text, tmp, dirty, wrote, shell>>

(* git diff --no-index of an untracked path, cut where the output is full.  *)
DiffUntracked(j) ==
  /\ At(j, "scan") /\ Tool(j) = "diff"
  /\ LET x == job[j].at
         used == job[j].bytes + DiffBytes[x]
     IN \/ ~Exists(x) /\ Answer(j, "failed")
        \/ Exists(x) /\ used > MaxOutput /\ AnswerCut(j, job[j].found)
        \/ /\ Exists(x) /\ used <= MaxOutput
           /\ job' = [job EXCEPT ![j].pc = "visit", ![j].found = @ \cup {x}, ![j].bytes = used]
           /\ UNCHANGED <<result, lock>>
  /\ UNCHANGED <<files, text, tmp, dirty, wrote, shell>>

-----------------------------------------------------------------------------
(* next_offset, and its mutant that stops a line early.                     *)
MorePagesShort(next, lines) == next + 1 < lines
MorePages(next, lines) == next < lines

(* read_file: one page; the client asks for the next while there is one.    *)
ReadFile(j) ==
  /\ At(j, "page")
  /\ LET c == files[request[j].path]
         from == job[j].offset
         next == from + PageLimit
         page == SubSeq(c, from + 1, IF next < Len(c) THEN next ELSE Len(c))
     IN IF c = Gone \/ Len(c) > MaxLines THEN Answer(j, "failed")
        ELSE IF MapThenSumSet(LAMBDA i : LineBytes[page[i]], DOMAIN page) > MaxOutput
        THEN Answer(j, "failed")
        ELSE IF MorePages(next, Len(c))
        THEN /\ job' = [job EXCEPT ![j] = [@ EXCEPT !.pc = "new", !.offset = next, !.got = @ \o page]]
             /\ UNCHANGED <<result, lock>>
        ELSE /\ job' = [job EXCEPT ![j] = [@ EXCEPT !.pc = "done", !.lost = FALSE, !.got = @ \o page]]
             /\ result' = [result EXCEPT ![j] = "ok"]
             /\ UNCHANGED lock
  /\ UNCHANGED <<files, text, tmp, dirty, wrote, shell>>

-----------------------------------------------------------------------------
(* The rest of the world: commands, leases, and the end of the runner.      *)
Command(f) ==
  /\ shell < MaxShell /\ shell' = shell + 1 /\ files[f] # Gone
  /\ Change(f, Append(files[f], ShellLine), Gone) \/ Change(f, Gone, Gone)
  /\ UNCHANGED <<tmp, lock, job, result, wrote>>

(* Only where the lease is still looked at.                                 *)
LoseLease(j) ==
  /\ job[j].pc \in {"new", "permit", "lock", "locked", "spawn", "git", "create", "exit", "fail"}
  /\ ~job[j].lost
  /\ job' = [job EXCEPT ![j].lost = TRUE]
  /\ UNCHANGED <<files, text, tmp, lock, result, dirty, wrote, shell>>

Execute(j) == Start(j) \/ AcquirePermit(j) \/ AcquireLock(j)
Replace(j) == ReadTarget(j) \/ CreateTemporary(j) \/ WriteTemporary(j) \/ AbandonTemporary(j) \/ Rename(j)
Patch(j) == Preflight(j) \/ SpawnGit(j) \/ GitRemoves(j) \/ GitCreates(j) \/ GitFails(j) \/ GitExits(j)
  \/ GitKilled(j)
Walk(j) ==
  \/ ListFiles(j) \/ VisitFile(j) \/ Search(j)
  \/ DiffTracked(j) \/ ListUntracked(j) \/ VisitUntracked(j) \/ DiffUntracked(j)

Next ==
  /\ \/ \E j \in Jobs : Execute(j) \/ Replace(j) \/ Patch(j) \/ Walk(j) \/ ReadFile(j) \/ LoseLease(j)
     \/ \E f \in Paths : Command(f)
  /\ UNCHANGED request

Spec == Init /\ [][Next]_vars

-----------------------------------------------------------------------------
Contents == {Gone} \cup Seq({ShellLine} \cup UNION {Lines(Initial[f]) : f \in Paths}
                            \cup UNION {{Edits(j)[f].new : f \in DOMAIN Edits(j)} : j \in Mutators})

(* The types; a job has answered when it is done, and no more tools work     *)
(* than there are permits.                                                  *)
TypeOK ==
  /\ {files, text} \subseteq [Paths -> Contents] /\ tmp \in [Jobs -> Contents]
  /\ result \in [Jobs -> {"none", "ok", "failed", "lost"}]
  /\ shell \in 0 .. MaxShell
  /\ \A j \in Jobs : job[j].pc = "done" <=> result[j] # "none"
  /\ Busy <= Permits

(* No mutation undoes another: whatever requests overlap, a step that        *)
(* changes what a file holds turns it into the edit of just that. Only a     *)
(* change that a command made after the request read the file can be lost.   *)
(* ("Keep patch validation and application atomic with respect to other      *)
(* runner patch requests.", mutation_lock; replace_text_if_unique)           *)
EditsCompose ==
  [][\A f \in Paths : text'[f] # text[f] /\ shell' = shell =>
       \E j \in Mutators :
          /\ f \in wrote'[j] /\ job'[j] # job[j]
          /\ f \notin dirty[j] => text'[f] = Edited(text[f], Edits(j)[f])]_vars

(* The change a request is to make to a file is there, or was superseded:    *)
(* the file was removed since, or another request was to change that line.   *)
Made(j, f) ==
  LET e == Edits(j)[f]
  IN \/ text[f] = Gone
     \/ e.new \in Lines(text[f])
     \/ \E k \in Mutators \ {j} : f \in DOMAIN Edits(k) /\ Edits(k)[f].old = e.new

(* The answer tells what happened, and stays true: every change of a patch   *)
(* or replacement that was reported as made is in its file, whatever other   *)
(* requests do at the same time and whichever way git ends; a replacement    *)
(* that was not has changed nothing. A file is missing that was only to be   *)
(* rewritten while git is at work or where git failed or was killed, never   *)
(* behind an answer that says the patch was applied.                         *)
(* (apply_patch_authorized, git_apply_authorized, replace_text_authorized)   *)
AnswersTell ==
  /\ \A j \in Mutators : result[j] = "ok" => \A f \in DOMAIN Edits(j) : Made(j, f)
  /\ \A j \in Mutators : Tool(j) = "replace" /\ result[j] \in {"failed", "lost"} => wrote[j] = {}
  /\ \A f \in Paths : files[f] # text[f] =>
       \E j \in Mutators : Tool(j) = "patch" /\ f \in wrote[j] /\ result[j] # "ok"

(* "Failed patches are recorded as `tool_failed` events with Git's error     *)
(* and leave the failed patch unapplied." (README.md), for the patches that  *)
(* fail because the runner gives them up: one whose lease was lost has       *)
(* changed no file.  (git_apply_authorized)                                  *)
GivenUpUnapplied ==
  \A j \in Mutators : Tool(j) = "patch" /\ result[j] = "lost" => wrote[j] = {}


(* What a search or a diff reports of a file that stayed as it was meanwhile *)
(* is so, and one that says nothing was left out reports all of it: the      *)
(* matches of every such file, every tracked file that differs from HEAD,    *)
(* every untracked one. A file too long to read is left out of a search      *)
(* without being mentioned.  (search_code, git_diff, list_files)             *)
WalksComplete ==
  \A j \in Walkers : result[j] = "ok" => \A f \in Paths \ dirty[j] :
    LET diff == Tool(j) = "diff"
        readable == files[f] # Gone /\ Len(files[f]) <= MaxLines
        matches == IF readable THEN {<<f, i>> : i \in {k \in DOMAIN files[f] : files[f][k] \in request[j].query}}
                   ELSE {}
        there == IF diff THEN {f} \cap (Differing \cup Untracked) ELSE matches
        reported == {x \in job[j].found : IF diff THEN x = f ELSE x[1] = f}
    IN reported \subseteq there /\ (~job[j].truncated => reported = there)

(* The pages of a file that does not change meanwhile are the file.          *)
(* (read_file's next_offset)                                                 *)
PagesTile ==
  \A j \in Jobs : Tool(j) = "read" /\ result[j] = "ok" /\ request[j].path \notin dirty[j] =>
    job[j].got = files[request[j].path]

(* "Search is best-effort across repository files; binary and unreadable     *)
(* files should not prevent useful matches from other files."                *)
(* (runner.rs:338): no file makes a search fail.                             *)
SearchBestEffort == \A j \in Walkers : Tool(j) = "search" => result[j] # "failed"
=============================================================================
