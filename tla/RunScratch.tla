----------------------------- MODULE RunScratch -----------------------------
(***************************************************************************)
(* The scratch files of one logical run: RunScratchStore                   *)
(* (src/src/supervisor/storage/run-files.ts) with the guarded write of     *)
(* private-root.ts beneath it, and above it the engine's host, which hands *)
(* over one call of the script at a time.  The store outlives the attempts *)
(* of its run: a pause aborts the call under way wherever it stands, and   *)
(* the resumed script repeats every call whose commit did not reach the    *)
(* journal, in whatever order its branches come to them.                   *)
(*                                                                         *)
(* A file is abstracted to its size.  The pending quota is left out, which *)
(* one call at a time does not reach, and so are the inventory's limits: a *)
(* run's directory is empty when its store is opened.                      *)
(***************************************************************************)
EXTENDS Integers, Sequences, FiniteSets, SequencesExt, FiniteSetsExt

CONSTANTS
  FileNames,
  MaxFiles, MaxFileBytes, MaxTotalBytes, MaxOperations, \* ScratchStoreOptions
  MaxSize,      \* bound: the size of a file
  MaxCalls,     \* bound: scratch calls of the script
  MaxResumes    \* bound: resumes of the run

ASSUME ScratchAssumption ==
  /\ {MaxFiles, MaxFileBytes, MaxTotalBytes, MaxOperations, MaxSize} \subseteq Nat \ {0}
  /\ MaxFileBytes <= MaxTotalBytes
  /\ {MaxCalls, MaxResumes} \subseteq Nat

VARIABLES
  calls,       \* the script's calls
  mode,        \* the attempt: running, ending, failed, pausing; or paused, closed
  resumes,     \* attempts after the first
  issued,      \* the calls this attempt's script has made
  waiting,     \* host: scratchTail
  op,          \* the call in the store, where it stands and what it captured
  answers,     \* answers and their journal commits between host and worker
  committed,   \* the journal: the calls a resumed attempt does not repeat
  disk,        \* the size of each file in the directory, 0 when there is none
  sizes, total, inventoried, operations, \* files, total, initialized, operations
  torn,         \* history: names published by a write that was aborted before it was accounted
  refusal      \* history: the call the store refused, and why

scriptVars == <<calls, mode, resumes, issued, waiting, answers, committed>>
filesVars  == <<disk, sizes, total, inventoried>>
pastVars   == <<torn, refusal>>
scratchVars == <<scriptVars, op, filesVars, operations, pastVars>>

WriteCall(n, s) == [do |-> "write", name |-> n, size |-> s]
Call == {WriteCall(n, s) : n \in FileNames, s \in 1 .. MaxSize}
        \cup {[do |-> "read", name |-> n, size |-> 0] : n \in FileNames}

NoFiles == [n \in FileNames |-> 0]
SumOf(f) == MapThenSumSet(LAMBDA n : f[n], FileNames)
Files(f) == {n \in FileNames : f[n] # 0}

NoCall == [call |-> 0, pc |-> "idle", seen |-> NoFiles, next |-> 0]
Here == calls[op.call]

(* The host's scratchController is aborted. *)
Aborted == mode \in {"pausing", "failed"}
Drained == op.pc = "idle" /\ waiting = <<>>

-----------------------------------------------------------------------------
(* The script, its worker and the host. *)

(* write_scratch_file, read_scratch_file: a call in the journal returns at once. *)
Issue(c) ==
  /\ mode = "running" /\ c \in DOMAIN calls \ issued
  /\ issued' = issued \cup {c}
  /\ waiting' = IF c \in committed THEN waiting ELSE Append(waiting, c)
  /\ UNCHANGED <<calls, mode, resumes, answers, committed, op, filesVars, operations, pastVars>>

(* The worker's commit reaches the host, which drops it after a cancellation  *)
(* or a claimed result.                                                       *)
Committed(c) == IF mode = "running" THEN committed \cup {c} ELSE committed
JournalCommit ==
  /\ answers # <<>>
  /\ answers' = Tail(answers)
  /\ committed' = Committed(Head(answers))
  /\ UNCHANGED <<calls, mode, resumes, issued, waiting, op, filesVars, operations, pastVars>>

Becomes(m) ==
  /\ mode' = m
  /\ UNCHANGED <<calls, resumes, issued, waiting, answers, committed, op, filesVars, operations, pastVars>>

(* The script's result, which waits for the calls it left behind.             *)
ResultArrives == mode = "running" /\ Becomes("ending")
WorkerDies == mode = "running" /\ Becomes("failed")
PauseRequested == (mode = "running" \/ (mode = "ending" /\ ~Drained)) /\ Becomes("pausing")

(* Each call still behind an aborted one is refused by throwIfAborted.        *)
DropWaiting ==
  /\ Aborted /\ op.pc = "idle" /\ waiting # <<>>
  /\ waiting' = <<>>
  /\ UNCHANGED <<calls, mode, resumes, issued, answers, committed, op, filesVars, operations, pastVars>>

(* scratchQuiescence of the paused attempt, and the supervisor's resume.      *)
PauseDone ==
  /\ mode = "pausing" /\ Drained
  /\ mode' = "paused" /\ answers' = <<>> /\ issued' = {}
  /\ UNCHANGED <<calls, resumes, waiting, committed, op, filesVars, operations, pastVars>>
ResumeAttempt ==
  /\ mode = "paused" /\ resumes < MaxResumes
  /\ mode' = "running" /\ resumes' = resumes + 1
  /\ UNCHANGED <<calls, issued, waiting, answers, committed, op, filesVars, operations, pastVars>>

(* terminalize: list(), the report and dispose(); a stop comes here, too.     *)
CloseStore ==
  /\ mode \notin {"running", "closed"} /\ Drained
  /\ mode' = "closed"
  /\ UNCHANGED <<calls, resumes, issued, waiting, answers, committed, op, filesVars, operations, pastVars>>
-----------------------------------------------------------------------------
(* A call in the store. *)

Moves(next) ==
  /\ op' = next
  /\ UNCHANGED <<calls, mode, resumes, issued, committed>>

(* onScratchFailure: the run fails unless it was cancelled. *)
Refuse(c, why) ==
  /\ mode' = "failed"
  /\ refusal' = [call |-> c, why |-> why]
  /\ op' = NoCall
  /\ UNCHANGED <<calls, resumes, issued, committed, answers, filesVars, torn>>

BeginCall ==
  /\ op.pc = "idle" /\ waiting # <<>> /\ ~Aborted
  /\ waiting' = Tail(waiting)
  /\ LET c == Head(waiting) IN
     \/ /\ operations < MaxOperations
        /\ operations' = operations + 1
        /\ Moves([NoCall EXCEPT !.call = c, !.pc = IF inventoried THEN "ready" ELSE "inventory"])
        /\ UNCHANGED <<answers, filesVars, torn, refusal>>
     \/ /\ operations >= MaxOperations
        /\ Refuse(c, "operations")
        /\ UNCHANGED operations

Unspent == UNCHANGED <<waiting, operations>>

(* inventory(): the directory is listed, and later its sizes are taken over.  *)
Inventory ==
  /\ op.pc = "inventory" /\ ~Aborted
  /\ Moves([op EXCEPT !.pc = "listed", !.seen = disk])
  /\ Unspent /\ UNCHANGED <<answers, filesVars, torn, refusal>>
Inventoried ==
  /\ op.pc = "listed" /\ ~Aborted
  /\ sizes' = op.seen
  /\ total' = SumOf(op.seen)
  /\ inventoried' = TRUE
  /\ Moves([op EXCEPT !.pc = "ready", !.seen = NoFiles])
  /\ Unspent /\ UNCHANGED <<answers, disk, torn, refusal>>

AnswerSent == answers' = Append(answers, op.call)
ReadFile ==
  /\ op.pc = "ready" /\ ~Aborted /\ Here.do = "read"
  /\ AnswerSent
  /\ Moves(NoCall)
  /\ Unspent /\ UNCHANGED <<filesVars, torn, refusal>>

(* Mutant: what the write replaces is not subtracted. *)
TotalGrows(n, s) == total + s
NextTotal(n, s) == total - sizes[n] + s
OverQuota(n, s) ==
  \/ s > MaxFileBytes
  \/ sizes[n] = 0 /\ Cardinality(Files(sizes)) >= MaxFiles
  \/ NextTotal(n, s) > MaxTotalBytes
(* createIfAbsent finds a file, or replaceIfVersion finds none. *)
Changed(n) == (sizes[n] = 0) # (disk[n] = 0)

(* write() up to the staged temporary file: the quotas, and what writeText    *)
(* finds at the destination.                                                  *)
CheckWrite ==
  /\ op.pc = "ready" /\ ~Aborted /\ Here.do = "write"
  /\ Unspent
  /\ LET n == Here.name  s == Here.size IN
     \/ OverQuota(n, s) /\ Refuse(op.call, "quota")
     \/ ~OverQuota(n, s) /\ Changed(n) /\ Refuse(op.call, "changed")
     \/ /\ ~OverQuota(n, s) /\ ~Changed(n)
        /\ Moves([op EXCEPT !.pc = "publish", !.next = NextTotal(n, s)])
        /\ UNCHANGED <<answers, filesVars, torn, refusal>>

(* The link or the rename; an abort may have come after the last check of it. *)
PublishFile ==
  /\ op.pc = "publish"
  /\ disk' = [disk EXCEPT ![Here.name] = Here.size]
  /\ Moves([op EXCEPT !.pc = "account"])
  /\ Unspent /\ UNCHANGED <<answers, sizes, total, inventoried, torn, refusal>>

(* The identity checks behind the publication notice an abort; else the file  *)
(* is accounted and the call answered.                                        *)
Account ==
  /\ op.pc = "account"
  /\ Moves(NoCall)
  /\ Unspent /\ UNCHANGED <<disk, inventoried, refusal>>
  /\ IF Aborted
     THEN torn' = torn \cup {Here.name} /\ UNCHANGED <<answers, sizes, total>>
     ELSE /\ torn' = torn \ {Here.name}
          /\ sizes' = [sizes EXCEPT ![Here.name] = Here.size]
          /\ total' = op.next
          /\ AnswerSent

(* Any check before the publication notices an abort. *)
Abandon ==
  /\ Aborted /\ op.pc \notin {"idle", "account"}
  /\ Moves(NoCall)
  /\ Unspent /\ UNCHANGED <<answers, filesVars, torn, refusal>>

-----------------------------------------------------------------------------
ScratchInit ==
  /\ calls \in [1 .. MaxCalls -> Call]
  /\ mode = "running" /\ resumes = 0
  /\ issued = {} /\ waiting = <<>> /\ answers = <<>> /\ committed = {}
  /\ op = NoCall
  /\ disk = NoFiles /\ sizes = NoFiles /\ total = 0 /\ inventoried = FALSE /\ operations = 0
  /\ torn = {} /\ refusal = [call |-> 0, why |-> "none"]

ScratchNext ==
  \/ \E c \in 1 .. MaxCalls : Issue(c)
  \/ JournalCommit \/ ResultArrives \/ WorkerDies
  \/ PauseRequested \/ DropWaiting \/ PauseDone \/ ResumeAttempt \/ CloseStore
  \/ BeginCall \/ Inventory \/ Inventoried \/ ReadFile \/ CheckWrite \/ PublishFile \/ Account \/ Abandon
ScratchSpec == ScratchInit /\ [][ScratchNext]_scratchVars

-----------------------------------------------------------------------------
(* Between two calls the store's accounts are those of the directory, ... *)
AccountsAgree ==
  op.pc = "idle" =>
    /\ total = SumOf(sizes)
    /\ \A n \in FileNames \ torn : sizes[n] = disk[n]

(* ... what is on the disk is within the limits, ... *)
DiskWithinQuota == torn = {} =>
  SumOf(disk) <= MaxTotalBytes /\ Cardinality(Files(disk)) <= MaxFiles

(* ... a resumed attempt skips no write that had no effect, ... *)
JournalledIsWritten ==
  \A c \in committed : calls[c].do = "write" => disk[calls[c].name] # 0

(* ... and a call is refused, which fails the run, for a reason that the      *)
(* script would have met without pauses, but for what its repeats spend.      *)
RefusedForCause ==
  LET c == calls[refusal.call] IN
  /\ refusal.why = "changed" => c.name \in torn
  /\ refusal.why = "operations" => resumes > 0
  /\ refusal.why = "quota" /\ torn = {} =>
       \/ c.size > MaxFileBytes
       \/ disk[c.name] = 0 /\ Cardinality(Files(disk)) >= MaxFiles
       \/ SumOf(disk) - disk[c.name] + c.size > MaxTotalBytes

(* Whatever is paused, resumed or dies in the middle of a write, the accounts *)
(* agree with the directory, the quotas hold on the disk, the journal tells   *)
(* the truth, and no call is refused without cause.  What is excepted, writes *)
(* cut off behind their publication, is a finding (README, section 10).       *)
ScratchHolds == AccountsAgree /\ DiskWithinQuota /\ JournalledIsWritten /\ RefusedForCause

(* Two claims without the exception.  Neither holds (README, section 10). *)
RepeatsAreAccepted == refusal.why # "changed"
QuotaHolds == SumOf(disk) <= MaxTotalBytes
=============================================================================
