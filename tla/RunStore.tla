------------------------------ MODULE RunStore ------------------------------
(***************************************************************************)
(* The durable run store (src/src/supervisor/storage/manifest-store.ts)    *)
(* over its private directories (private-root.ts): admission of a run,     *)
(* commits of its row, retention, and the recovery of the whole store at   *)
(* the next boot.  The store is one writer: `mutate` chains its operations *)
(* on a promise, so at most one transaction `tx` is in progress.  Between  *)
(* any two file-system steps of it the process may die, an unrelated       *)
(* scratch write may start or end, and a step may fail.                    *)
(***************************************************************************)
EXTENDS Integers, FiniteSets

CONSTANTS
  Sessions, Runs, NoSession, NoRun,
  MaxRetained,    \* options.maxRetainedRunsPerSession
  MaxBytes,       \* options.maxRunStoreBytes; a details or scratch file weighs 1
  MaxRunDetails,  \* options.maxRunDetailsBytes, in details files of one run
  Writers,        \* runs whose script writes scratch files
  MaxDetails,     \* bound: details snapshots of one run
  MaxRev,         \* bound: revisions of one row
  MaxCrashes,     \* bound: deaths of the process
  MaxFaults,      \* bound: failing file-system steps
  Faults,         \* how a step may fail in this instance
  TornWrites      \* may the process die while a temporary file exists?

AllFaults == {"early",    \* it throws and has no effect
              "late",     \* it throws after its effect
              "remove"}   \* a removal throws and has no effect

ASSUME RunStoreAssumption ==
  /\ IsFiniteSet(Runs) /\ IsFiniteSet(Sessions)
  /\ NoRun \notin Runs /\ NoSession \notin Sessions
  /\ Writers \subseteq Runs
  /\ {MaxRetained, MaxBytes, MaxRunDetails, MaxDetails, MaxRev, MaxCrashes, MaxFaults} \subseteq Nat
  /\ Faults \subseteq AllFaults
  /\ TornWrites \in BOOLEAN

VARIABLES
  manifest,    \* on disk: each Session's manifest.json (Empty when it has none)
  sessionDir,  \* on disk: Sessions that have a directory
  place,       \* on disk: the category that holds each run's directory
  files,       \* on disk: details files in each run's directory
  scratch,     \* on disk: runs with a scratch file
  temps,       \* on disk: temporary files, each named by the file it will replace
  proc,        \* the process: "down", "boot" or "up"
  cache,       \* in memory: this.sessions
  tx,          \* in memory: the transaction in progress
  victim,      \* in memory: the row being evicted by it
  client,      \* in memory: what the supervisor does with each run
  known,       \* in memory: the revision the supervisor holds of it
  minted,      \* details identifiers issued for each run
  admitted,    \* <<s, ordinal, r>> of every run whose onDurable was called
  sent,        \* runs whose completion message reached the owner's queue
  verdict,     \* what the last boot said of the store
  crashes, faults

disk   == <<manifest, sessionDir, place, files, scratch, temps>>
memory == <<proc, cache, tx, victim, client, known>>
ghosts == <<minted, admitted, sent, verdict, crashes, faults>>
vars   == <<disk, memory, ghosts>>
-----------------------------------------------------------------------------
NoRow == [status |-> "none", notice |-> "none", rev |-> 0, detail |-> 0, ordinal |-> 0]
Empty == [next |-> 1, heads |-> [r \in Runs |-> NoRow]]

Rows(m)       == {r \in Runs : m.heads[r].status # "none"}
Without(m, r) == [m EXCEPT !.heads[r] = NoRow]
Final(row)    == row.status = "terminal" /\ row.notice \in {"delivered", "abandoned"}

Idle == [op |-> "none", pc |-> "idle", s |-> NoSession, r |-> NoRun, cand |-> Empty,
         dets |-> {}, written |-> {}, old |-> [r \in Runs |-> 0], todo |-> {}]

Holds(s, r) == r \in Rows(cache[s])
Bytes == Cardinality(UNION {{<<r, d>> : d \in files[r]} : r \in Runs}) + Cardinality(scratch)
(* Mutant: a claimed row may be evicted. *)
EvictableClaimed ==
  {r \in Runs : \E s \in Sessions : Holds(s, r) /\ cache[s].heads[r].status = "terminal"}
Evictable == {r \in Runs : \E s \in Sessions : Holds(s, r) /\ Final(cache[s].heads[r])}

Unused(r) == /\ place[r] = "none" /\ ~\E a \in admitted : a[3] = r
             /\ \A s \in Sessions : r \notin Rows(cache[s]) \cup Rows(manifest[s])

(* commitRun, commitTerminalAndClaimNotice and finalizeCompletionNotice:
   the row they would commit. *)
Updated(row, detail)  == [row EXCEPT !.rev = @ + 1, !.detail = detail]
Claimed(row, detail)  == [Updated(row, detail) EXCEPT !.status = "terminal", !.notice = "claimed"]
Finalized(row, state) == [row EXCEPT !.rev = @ + 1, !.notice = state]

(* insertWithNextDisplayName: the ordinal is taken from the manifest, and
   the manifest's next ordinal moves past it. *)
WithRow(m, r, detail, ordinal, next) ==
  [next  |-> next,
   heads |-> [m.heads EXCEPT ![r] = [status |-> "active", notice |-> "none", rev |-> 1,
                                     detail |-> detail, ordinal |-> ordinal]]]
(* Mutant: the ordinal counts the rows retained. *)
InsertedByCount(m, r, detail) == WithRow(m, r, detail, Cardinality(Rows(m)) + 1, m.next + 1)
Inserted(m, r, detail)        == WithRow(m, r, detail, m.next, m.next + 1)

(* initializeUnlocked: what recovery makes of one row. *)
Interrupted(row, detail) == [Updated(row, detail) EXCEPT !.status = "terminal", !.notice = "abandoned"]
(* Mutant: a claim survives its process. *)
RecoveredActive(row, detail) ==
  IF row.status = "active" THEN Interrupted(row, detail) ELSE row
(* Mutant: a claim left behind counts as delivered. *)
RecoveredDelivered(row, detail) ==
  IF row.status = "active" THEN Interrupted(row, detail)
  ELSE IF row.notice = "claimed" THEN Finalized(row, "delivered") ELSE row
Recovered(row, detail) ==
  IF row.status = "active" THEN Interrupted(row, detail)
  ELSE IF row.notice = "claimed" THEN Finalized(row, "abandoned") ELSE row
RecoveredManifest(m) ==
  [m EXCEPT !.heads = [r \in Runs |-> Recovered(m.heads[r], minted[r] + 1)]]
-----------------------------------------------------------------------------
Init ==
  /\ manifest = [s \in Sessions |-> Empty] /\ sessionDir = {}
  /\ place = [r \in Runs |-> "none"] /\ files = [r \in Runs |-> {}]
  /\ scratch = {} /\ temps = {}
  /\ proc = "down" /\ cache = [s \in Sessions |-> Empty]
  /\ tx = Idle /\ victim = NoRun
  /\ client = [r \in Runs |-> "none"] /\ known = [r \in Runs |-> 0]
  /\ minted = [r \in Runs |-> 0] /\ admitted = {} /\ sent = {}
  /\ verdict = "ok" /\ crashes = 0 /\ faults = [f \in AllFaults |-> 0]

At(pc)    == tx.pc = pc /\ victim = NoRun
Goto(pc)  == tx' = [tx EXCEPT !.pc = pc]
Ready     == proc = "up" /\ tx = Idle
Fault(f)  == /\ f \in Faults /\ faults["early"] + faults["late"] + faults["remove"] < MaxFaults
             /\ faults' = [faults EXCEPT ![f] = @ + 1]

(* Mutant: a failed boot keeps the store, and nothing opens it again. *)
ThrowOpen ==
  /\ victim' = NoRun /\ tx' = Idle /\ UNCHANGED <<proc, cache>>
(* What a throwing step leads to: a boot closes the store again; a
   transaction inside its try block undoes it; otherwise the call rejects. *)
Throw ==
  /\ victim' = NoRun
  /\ IF tx.op = "boot"
     THEN /\ proc' = "down" /\ tx' = Idle /\ cache' = [s \in Sessions |-> Empty]
     ELSE /\ IF victim = NoRun /\ tx.pc \in {"stage", "publish", "detail", "persist"}
             THEN Goto("undo") ELSE tx' = Idle
          /\ UNCHANGED <<proc, cache>>
-----------------------------------------------------------------------------
(* The operations of the supervisor. *)

InsertWithNextDisplayName(s, r) ==
  /\ Ready /\ Unused(r) /\ minted[r] < MaxDetails
  /\ tx' = [Idle EXCEPT !.op = "insert", !.pc = "evict", !.s = s, !.r = r]
  /\ UNCHANGED <<disk, proc, cache, victim, client, known, ghosts>>

(* A commit of the row whose revision the caller holds; `new` says whether
   it replaces the details. *)
BeginCommit(op, s, r, row, new) ==
  /\ Ready /\ Holds(s, r) /\ cache[s].heads[r].rev = known[r] /\ known[r] < MaxRev
  /\ tx' = [Idle EXCEPT !.op = op, !.pc = "preflight", !.s = s, !.r = r,
                        !.cand = [cache[s] EXCEPT !.heads[r] = row],
                        !.dets = IF new THEN {r} ELSE {},
                        !.old = [@ EXCEPT ![r] = cache[s].heads[r].detail]]
  /\ minted' = [minted EXCEPT ![r] = IF new THEN @ + 1 ELSE @]
  /\ UNCHANGED <<disk, proc, cache, victim, client, known, admitted, sent, verdict, crashes, faults>>

CommitRun(s, r, new) ==
  /\ client[r] = "running" /\ (new => minted[r] < MaxDetails)
  /\ LET row == cache[s].heads[r]
     IN  BeginCommit("update", s, r, Updated(row, IF new THEN minted[r] + 1 ELSE row.detail), new)

(* The supervisor has drained the run's scratch before it ends it. *)
CommitTerminalAndClaimNotice(s, r) ==
  /\ client[r] = "running" /\ <<"scratch", r>> \notin temps /\ minted[r] < MaxDetails
  /\ BeginCommit("terminal", s, r, Claimed(cache[s].heads[r], minted[r] + 1), TRUE)

FinalizeCompletionNotice(s, r) ==
  /\ client[r] \in {"claimed", "enqueued"} /\ cache[s].heads[r].notice = "claimed"
  /\ BeginCommit("finalize", s, r,
       Finalized(cache[s].heads[r], IF client[r] = "enqueued" THEN "delivered" ELSE "abandoned"), FALSE)

(* The outbox puts the message of a claimed notice on the owner's queue. *)
Enqueue(r) ==
  /\ proc = "up" /\ client[r] = "claimed"
  /\ client' = [client EXCEPT ![r] = "enqueued"] /\ sent' = sent \cup {r}
  /\ UNCHANGED <<disk, proc, cache, tx, victim, known, minted, admitted, verdict, crashes, faults>>

(* A script's scratch write, which the store does not order with its own
   transactions. *)
ScratchWrite(r) ==
  /\ r \in Writers /\ proc = "up" /\ client[r] = "running"
  /\ ~(tx.op = "terminal" /\ tx.r = r) /\ <<"scratch", r>> \notin temps
  /\ temps' = temps \cup {<<"scratch", r>>}
  /\ UNCHANGED <<manifest, sessionDir, place, files, scratch, memory, ghosts>>

ScratchWritten(r) ==
  /\ proc = "up" /\ <<"scratch", r>> \in temps
  /\ temps' = temps \ {<<"scratch", r>>} /\ scratch' = scratch \cup {r}
  /\ UNCHANGED <<manifest, sessionDir, place, files, memory, ghosts>>
-----------------------------------------------------------------------------
(* Room for the transaction.  Three loops evict rows one at a time: the
   Session's retention ("evict"), the reservation before anything is
   written ("preflight"), and the whole store's limit ("fit" before
   recovery plans its rewrites, "enforce" after a commit). *)

(* Mutant: only an insert reserves room. *)
CostOfInsert == IF tx.op = "insert" THEN 1 ELSE 0
Cost == IF tx.op = "insert" THEN 1 ELSE Cardinality(tx.dets)

(* Accounting lists every directory, and a listing refuses the name of a
   temporary file. *)
Countable == temps = {}

Crowded ==
  CASE tx.pc = "evict"              -> Cardinality(Rows(cache[tx.s])) + 1 > MaxRetained
    [] tx.pc = "preflight"          -> Bytes + Cost > MaxBytes
    [] tx.pc \in {"fit", "enforce"} -> Bytes > MaxBytes

Candidates == {v \in Evictable : tx.pc = "evict" => Holds(tx.s, v)}

Counting == victim = NoRun /\ tx.pc \in {"evict", "preflight", "fit", "enforce"}
Counted  == Counting /\ (tx.pc # "evict" => Countable)

ChooseVictim(v) ==
  /\ Counted /\ Crowded /\ v \in Candidates
  /\ victim' = v
  /\ UNCHANGED <<disk, proc, cache, tx, client, known, ghosts>>

NoRoom ==
  /\ Counting
  /\ \/ ~Counted
     \/ Counted /\ Crowded /\ Candidates = {}
  /\ Throw
  /\ verdict' = IF tx.op = "boot" THEN "refused" ELSE verdict
  /\ UNCHANGED <<disk, client, known, minted, admitted, sent, crashes, faults>>

(* Accounting fails, or the caller of an insert has aborted. *)
CountFails ==
  /\ Counting /\ Fault("early") /\ Throw
  /\ UNCHANGED <<disk, client, known, minted, admitted, sent, verdict, crashes>>

(* The rest of a victim's eviction, once its manifest no longer holds it. *)
(* Mutant: the victim's directory does not wait for its manifest. *)
EvictingFirst == victim # NoRun
Evicting == victim # NoRun /\ \A s \in Sessions : ~Holds(s, victim)

(* quarantineThenRemove of the victim, or of the run an insert abandons. *)
Removing(r) == \/ Evicting /\ r = victim
               \/ At("undo") /\ tx.op = "insert" /\ r = tx.r /\ ~Holds(tx.s, r)

Quarantine(r) ==
  /\ Removing(r) /\ place[r] \in {"staging", "runs"}
  /\ place' = [place EXCEPT ![r] = "quarantine"]
  /\ UNCHANGED <<manifest, sessionDir, files, scratch, temps, memory, ghosts>>

DeleteTree(r) ==
  /\ place[r] = "quarantine"
  /\ place' = [place EXCEPT ![r] = "none"] /\ files' = [files EXCEPT ![r] = {}]
  /\ scratch' = scratch \ {r}

Remove(r) ==
  /\ Removing(r) /\ DeleteTree(r)
  /\ UNCHANGED <<manifest, sessionDir, temps, memory, ghosts>>

Evicted ==
  /\ Evicting /\ place[victim] = "none"
  /\ victim' = NoRun
  /\ UNCHANGED <<disk, proc, cache, tx, client, known, ghosts>>

(* A victim's removal fails: its row is gone and its directory stays. *)
RemoveFails ==
  /\ Evicting /\ place[victim] # "none" /\ Fault("remove") /\ Throw
  /\ UNCHANGED <<disk, client, known, minted, admitted, sent, verdict, crashes>>
-----------------------------------------------------------------------------
(* The stages of a transaction. *)

Retained ==
  /\ At("evict") /\ ~Crowded
  /\ minted' = [minted EXCEPT ![tx.r] = @ + 1]
  /\ tx' = [tx EXCEPT !.pc = "preflight", !.cand = Inserted(cache[tx.s], tx.r, minted[tx.r] + 1)]
  /\ UNCHANGED <<disk, proc, cache, victim, client, known, admitted, sent, verdict, crashes, faults>>

Fits ==
  /\ At("preflight") /\ Countable /\ ~Crowded
  /\ Goto(IF tx.op = "insert" THEN "stage" ELSE IF tx.dets # {} THEN "detail" ELSE "persist")
  /\ UNCHANGED <<disk, proc, cache, victim, client, known, ghosts>>

(* The staged directory and its files: script.js and the first details. *)
Stage ==
  /\ At("stage") /\ place[tx.r] = "none"
  /\ place' = [place EXCEPT ![tx.r] = "staging"] /\ temps' = temps \cup {<<"run", tx.r>>}
  /\ UNCHANGED <<manifest, sessionDir, files, scratch, memory, ghosts>>

Staged ==
  /\ At("stage") /\ place[tx.r] = "staging"
  /\ files' = [files EXCEPT ![tx.r] = {tx.cand.heads[tx.r].detail}]
  /\ temps' = temps \ {<<"run", tx.r>>} /\ Goto("publish")
  /\ UNCHANGED <<manifest, sessionDir, place, scratch, proc, cache, victim, client, known, ghosts>>

StageFails ==
  /\ At("stage") /\ place[tx.r] = "staging" /\ Fault("early") /\ Throw
  /\ temps' = temps \ {<<"run", tx.r>>}
  /\ UNCHANGED <<manifest, sessionDir, place, files, scratch, client, known,
                 minted, admitted, sent, verdict, crashes>>

(* publishDirectory renames staging/<id> to runs/<id>; a caller's abort may
   be noticed before or after the rename. *)
PublishDirectory ==
  /\ At("publish")
  /\ \/ /\ Goto("persist") /\ place' = [place EXCEPT ![tx.r] = "runs"]
        /\ UNCHANGED <<proc, cache, victim, faults>>
     \/ /\ Fault("early") /\ Throw /\ UNCHANGED place
     \/ /\ Fault("late") /\ Throw /\ place' = [place EXCEPT ![tx.r] = "runs"]
  /\ UNCHANGED <<manifest, sessionDir, files, scratch, temps, client, known,
                 minted, admitted, sent, verdict, crashes>>

(* A replacement details file is created beside the old one: written and
   synchronised under a temporary name, then linked to its own. *)
WriteDetail(r) ==
  /\ At("detail") /\ r \in tx.dets /\ ~\E q \in Runs : <<"run", q>> \in temps
  /\ temps' = temps \cup {<<"run", r>>}
  /\ UNCHANGED <<manifest, sessionDir, place, files, scratch, memory, ghosts>>

LinkDetail(r) ==
  /\ At("detail") /\ r \in tx.dets /\ <<"run", r>> \in temps
  /\ temps' = temps \ {<<"run", r>>}
  /\ LET file == tx.cand.heads[r].detail
     IN  \/ /\ files' = [files EXCEPT ![r] = @ \cup {file}]
            /\ tx' = [tx EXCEPT !.dets = @ \ {r}, !.written = @ \cup {r},
                                !.pc = IF tx.dets = {r} THEN "persist" ELSE @]
            /\ UNCHANGED <<proc, cache, victim, faults>>
         \/ /\ Fault("early") /\ Throw /\ UNCHANGED files
         \/ /\ Fault("late") /\ Throw /\ files' = [files EXCEPT ![r] = @ \cup {file}]
  /\ UNCHANGED <<manifest, sessionDir, place, scratch, client, known,
                 minted, admitted, sent, verdict, crashes>>

(* persist: the manifest being written is the victim's Session without the
   victim, or the transaction's own candidate. *)
Persisting(s) == \/ victim # NoRun /\ Holds(s, victim)
                 \/ At("persist") /\ s = tx.s
NewManifest(s) == IF victim # NoRun THEN Without(cache[s], victim) ELSE tx.cand

WriteManifest(s) ==
  /\ Persisting(s) /\ <<"manifest", s>> \notin temps
  /\ temps' = temps \cup {<<"manifest", s>>} /\ sessionDir' = sessionDir \cup {s}
  /\ UNCHANGED <<manifest, place, files, scratch, memory, ghosts>>

(* After the manifest is replaced: an eviction goes on to the victim's
   directory, and a candidate of the same Session loses the victim too; an
   insert is durable and tells its caller; a commit drops the old details. *)
(* Mutant: the candidate keeps the row whose run was evicted meanwhile. *)
PersistedStale(s) ==
  /\ UNCHANGED <<proc, victim>>
  /\ IF victim # NoRun THEN UNCHANGED <<tx, client, known, admitted>>
     ELSE IF tx.op = "insert"
     THEN /\ tx' = Idle
          /\ client' = [client EXCEPT ![tx.r] = "running"] /\ known' = [known EXCEPT ![tx.r] = 1]
          /\ admitted' = admitted \cup {<<s, tx.cand.heads[tx.r].ordinal, tx.r>>}
     ELSE Goto("drop") /\ UNCHANGED <<client, known, admitted>>
Persisted(s) ==
  /\ UNCHANGED <<proc, victim>>
  /\ IF victim # NoRun
     THEN /\ tx' = [tx EXCEPT !.cand = IF s = tx.s THEN Without(@, victim) ELSE @]
          /\ UNCHANGED <<client, known, admitted>>
     ELSE IF tx.op = "insert"
     THEN /\ tx' = Idle
          /\ client' = [client EXCEPT ![tx.r] = "running"] /\ known' = [known EXCEPT ![tx.r] = 1]
          /\ admitted' = admitted \cup {<<s, tx.cand.heads[tx.r].ordinal, tx.r>>}
     ELSE /\ Goto("drop")
          /\ UNCHANGED <<client, known, admitted>>

ReplaceManifest(s) ==
  /\ Persisting(s) /\ <<"manifest", s>> \in temps
  /\ temps' = temps \ {<<"manifest", s>>}
  /\ \/ /\ manifest' = [manifest EXCEPT ![s] = NewManifest(s)]
        /\ cache' = [cache EXCEPT ![s] = NewManifest(s)]
        /\ Persisted(s) /\ UNCHANGED faults
     \/ /\ Fault("early") /\ Throw /\ UNCHANGED <<manifest, client, known, admitted>>
     \/ /\ Fault("late") /\ Throw /\ manifest' = [manifest EXCEPT ![s] = NewManifest(s)]
        /\ UNCHANGED <<client, known, admitted>>
  /\ UNCHANGED <<sessionDir, place, files, scratch, minted, sent, verdict, crashes>>

(* The details the commit replaced are removed; a running store ignores a
   removal that fails, a recovery does not. *)
DropOld(r) ==
  /\ At("drop") /\ r \in tx.written
  /\ \/ /\ files' = [files EXCEPT ![r] = @ \ {tx.old[r]}]
        /\ tx' = [tx EXCEPT !.written = @ \ {r}] /\ UNCHANGED <<proc, cache, victim, faults>>
     \/ /\ Fault("remove") /\ UNCHANGED files
        /\ IF tx.op = "boot" THEN Throw
           ELSE /\ tx' = [tx EXCEPT !.written = @ \ {r}] /\ UNCHANGED <<proc, cache, victim>>
  /\ UNCHANGED <<manifest, sessionDir, place, scratch, temps, client, known,
                 minted, admitted, sent, verdict, crashes>>

Dropped ==
  /\ At("drop") /\ tx.written = {}
  /\ Goto(IF tx.op = "boot" THEN "plan" ELSE "enforce")
  /\ UNCHANGED <<disk, proc, cache, victim, client, known, ghosts>>

(* The call resolves and the supervisor learns the new revision. *)
Committed ==
  /\ At("enforce") /\ tx.op # "boot" /\ Countable /\ ~Crowded
  /\ tx' = Idle
  /\ known' = [known EXCEPT ![tx.r] = @ + 1]
  /\ client' = [client EXCEPT ![tx.r] =
                  CASE tx.op = "terminal" -> "claimed"
                    [] tx.op = "finalize" -> "done"
                    [] OTHER              -> @]
  /\ UNCHANGED <<disk, proc, cache, victim, ghosts>>

(* The catch blocks: an insert removes the directory its cached manifest
   does not hold, a commit removes the replacement it wrote; a removal that
   fails here is ignored. *)
Undo ==
  /\ At("undo")
  /\ \/ /\ tx.op # "insert" /\ tx.written # {}
        /\ files' = [r \in Runs |-> IF r \in tx.written THEN files[r] \ {tx.cand.heads[r].detail}
                                    ELSE files[r]]
        /\ tx' = Idle /\ UNCHANGED faults
     \/ /\ IF tx.op = "insert" THEN place[tx.r] = "none" \/ Holds(tx.s, tx.r) ELSE tx.written = {}
        /\ tx' = Idle /\ UNCHANGED <<files, faults>>
     \/ /\ Fault("remove") /\ tx' = Idle /\ UNCHANGED files
  /\ UNCHANGED <<manifest, sessionDir, place, scratch, temps, proc, cache, victim, client, known,
                 minted, admitted, sent, verdict, crashes>>
-----------------------------------------------------------------------------
(* The boot: validate everything, remove what nothing refers to, then end
   the runs the dead process left active. *)

Boot ==
  /\ proc = "down"
  /\ proc' = "boot" /\ tx' = [Idle EXCEPT !.op = "boot", !.pc = "validate"]
  /\ UNCHANGED <<disk, cache, victim, client, known, ghosts>>

Referenced(r)       == \E s \in Sessions : r \in Rows(manifest[s])
ReferencedDetail(r, d) == \E s \in Sessions : r \in Rows(manifest[s]) /\ manifest[s].heads[r].detail = d

(* validateRecoveryInventory accepts a store with no temporary file, whose
   run directories hold no more details than one run may have, whose Session
   directories hold a manifest and whose rows all have their directory and
   their details. *)
Sound ==
  /\ temps = {}
  /\ \A r \in Runs : place[r] = "runs" => Cardinality(files[r]) <= MaxRunDetails
  /\ \A s \in sessionDir : manifest[s] # Empty
  /\ \A s \in Sessions : \A r \in Rows(manifest[s]) :
       place[r] = "runs" /\ manifest[s].heads[r].detail \in files[r]

ValidateRecoveryInventory ==
  /\ At("validate")
  /\ IF Sound THEN /\ verdict' = "ok" /\ Goto("reconcile") /\ UNCHANGED <<proc, cache, victim>>
              ELSE /\ verdict' = "refused" /\ Throw
  /\ UNCHANGED <<disk, client, known, minted, admitted, sent, crashes, faults>>

Residue(r) == place[r] \in {"staging", "quarantine"} \/ (place[r] = "runs" /\ ~Referenced(r))
(* Mutant: replaced details are left in place. *)
NoOldDetails(r) == {}
OldDetails(r) == {d \in files[r] : place[r] = "runs" /\ Referenced(r) /\ ~ReferencedDetail(r, d)}

ReconcileRecoveryResidue(r) ==
  /\ At("reconcile")
  /\ \/ /\ Residue(r) /\ place[r] # "quarantine"
        /\ place' = [place EXCEPT ![r] = "quarantine"] /\ UNCHANGED <<files, scratch>>
     \/ DeleteTree(r)
     \/ \E d \in OldDetails(r) : /\ files' = [files EXCEPT ![r] = @ \ {d}]
                                 /\ UNCHANGED <<place, scratch>>
  /\ UNCHANGED <<manifest, sessionDir, temps, memory, ghosts>>

ReconcileFails(r) ==
  /\ At("reconcile") /\ (Residue(r) \/ OldDetails(r) # {})
  /\ Fault("remove") /\ Throw
  /\ UNCHANGED <<disk, client, known, minted, admitted, sent, verdict, crashes>>

Reconciled ==
  /\ At("reconcile") /\ \A r \in Runs : ~Residue(r) /\ OldDetails(r) = {}
  /\ cache' = manifest
  /\ tx' = [tx EXCEPT !.pc = "fit", !.todo = {s \in Sessions : manifest[s] # Empty}]
  /\ UNCHANGED <<disk, proc, victim, client, known, ghosts>>

Fitted ==
  /\ At("fit") /\ Countable /\ ~Crowded /\ Goto("plan")
  /\ UNCHANGED <<disk, proc, cache, victim, client, known, ghosts>>

(* One Session's rewrite: new details for each active row, then the
   manifest, then the old details go. *)
Plan(s) ==
  /\ At("plan") /\ s \in tx.todo
  /\ LET active == {r \in Rows(cache[s]) : cache[s].heads[r].status = "active"}
         cand   == RecoveredManifest(cache[s])
     IN  /\ tx' = [tx EXCEPT !.s = s, !.cand = cand, !.dets = active, !.todo = @ \ {s},
                             !.old = [r \in Runs |-> cache[s].heads[r].detail],
                             !.pc = IF active # {} THEN "detail"
                                    ELSE IF cand # cache[s] THEN "persist" ELSE "plan"]
         /\ minted' = [r \in Runs |-> minted[r] + (IF r \in active THEN 1 ELSE 0)]
  /\ UNCHANGED <<disk, proc, cache, victim, client, known, admitted, sent, verdict, crashes, faults>>

Planned ==
  /\ At("plan") /\ tx.todo = {} /\ Goto("enforce")
  /\ UNCHANGED <<disk, proc, cache, victim, client, known, ghosts>>

Booted ==
  /\ At("enforce") /\ tx.op = "boot" /\ Countable /\ ~Crowded
  /\ proc' = "up" /\ tx' = Idle
  /\ UNCHANGED <<disk, cache, victim, client, known, ghosts>>

(* The process dies: everything in memory is lost. *)
Crash ==
  /\ proc # "down" /\ crashes < MaxCrashes /\ (temps = {} \/ TornWrites)
  /\ crashes' = crashes + 1
  /\ proc' = "down" /\ cache' = [s \in Sessions |-> Empty] /\ tx' = Idle /\ victim' = NoRun
  /\ client' = [r \in Runs |-> "none"] /\ known' = [r \in Runs |-> 0]
  /\ UNCHANGED <<disk, minted, admitted, sent, verdict, faults>>
-----------------------------------------------------------------------------
Call ==
  \/ \E r \in Runs : \/ Enqueue(r) \/ ScratchWrite(r)
  \/ \E s \in Sessions, r \in Runs :
       \/ InsertWithNextDisplayName(s, r)
       \/ \E new \in BOOLEAN : CommitRun(s, r, new)
       \/ CommitTerminalAndClaimNotice(s, r) \/ FinalizeCompletionNotice(s, r)

Step ==
  \/ \E r \in Runs : \/ ChooseVictim(r) \/ Quarantine(r) \/ Remove(r) \/ WriteDetail(r) \/ LinkDetail(r)
                     \/ DropOld(r) \/ ReconcileRecoveryResidue(r) \/ ReconcileFails(r)
  \/ \E s \in Sessions : WriteManifest(s) \/ ReplaceManifest(s) \/ Plan(s)
  \/ NoRoom \/ CountFails \/ Evicted \/ RemoveFails \/ Retained \/ Fits \/ Stage \/ Staged \/ StageFails
  \/ PublishDirectory \/ Dropped \/ Committed \/ Undo
  \/ ValidateRecoveryInventory \/ Reconciled \/ Fitted \/ Planned \/ Booted

ScratchStep == \E r \in Runs : ScratchWritten(r)

Next == Call \/ Step \/ ScratchStep \/ Boot \/ Crash

Spec     == Init /\ [][Next]_vars
(* A transaction that can go on does, a scratch write ends, and a dead
   process is started again. *)
FairSpec == Spec /\ WF_vars(Step) /\ WF_vars(ScratchStep) /\ WF_vars(Boot)
-----------------------------------------------------------------------------
RowType == [status : {"none", "active", "terminal"},
            notice : {"none", "claimed", "delivered", "abandoned"},
            rev : Nat, detail : Nat, ordinal : Nat]
ManifestType == [next : Nat, heads : [Runs -> RowType]]
TempType == ({"manifest"} \X Sessions) \cup ({"run", "scratch"} \X Runs)
TxType == [op : {"none", "insert", "update", "terminal", "finalize", "boot"},
           pc : {"idle", "evict", "preflight", "stage", "publish", "detail", "persist", "drop",
                 "enforce", "undo", "validate", "reconcile", "fit", "plan"},
           s : Sessions \cup {NoSession}, r : Runs \cup {NoRun}, cand : ManifestType,
           dets : SUBSET Runs, written : SUBSET Runs, old : [Runs -> Nat], todo : SUBSET Sessions]

(* Every variable has its type. *)
TypeOK ==
  /\ manifest \in [Sessions -> ManifestType] /\ sessionDir \subseteq Sessions
  /\ place \in [Runs -> {"none", "staging", "runs", "quarantine"}]
  /\ files \in [Runs -> SUBSET Nat] /\ scratch \subseteq Runs /\ temps \subseteq TempType
  /\ proc \in {"down", "boot", "up"} /\ cache \in [Sessions -> ManifestType]
  /\ tx \in TxType /\ victim \in Runs \cup {NoRun}
  /\ client \in [Runs -> {"none", "running", "claimed", "enqueued", "done"}]
  /\ known \in [Runs -> Nat] /\ minted \in [Runs -> Nat]
  /\ admitted \subseteq Sessions \X Nat \X Runs /\ sent \subseteq Runs
  /\ verdict \in {"ok", "refused"} /\ crashes \in Nat /\ faults \in [AllFaults -> Nat]

(* A manifest on disk never points to a deleted directory or details file,
   at any moment, so that a crash would find each row with its files
   (manifest-store.ts: details before manifest before removal). *)
NeverDangles ==
  \A s \in Sessions : \A r \in Rows(manifest[s]) :
    place[r] = "runs" /\ manifest[s].heads[r].detail \in files[r]

(* The same, as long as no step threw after its effect: every other failure,
   in a transaction, its catch block or a recovery, keeps the files of each
   row (commitRun, insertWithNextDisplayName: the catch blocks). *)
NoDanglingHead == faults["late"] = 0 => NeverDangles

(* A row still active or claimed belongs to the living process, unless a
   step threw after its effect: recovery has ended every row the dead
   process left (initializeUnlocked). *)
LiveRowsAreOwned ==
  Ready /\ faults["late"] = 0 => \A s \in Sessions : \A r \in Rows(manifest[s]) :
    ~Final(manifest[s].heads[r]) => client[r] \in {"running", "claimed", "enqueued"}

(* Between calls the supervisor holds the revision on disk of each run it
   has not finished: a call that rejects has changed nothing it was not told
   of (commitRun, commitTerminalAndClaimNotice: the revision check). *)
HandleStaysCurrent ==
  Ready => \A r \in Runs : client[r] \in {"running", "claimed", "enqueued"} =>
    \E s \in Sessions : r \in Rows(manifest[s]) /\ manifest[s].heads[r].rev = known[r]

(* Two admitted runs of a Session never had the same ordinal, whatever was
   evicted, rejected or lost between them (allocateDisplayIdentity). *)
NameNeverReused ==
  \A a, b \in admitted : a[1] = b[1] /\ a[2] = b[2] => a = b

(* A message reaches the owner only when its claim is on disk, and a notice
   is on disk as delivered only when its message was sent: a crash can lose
   a message, never repeat or invent it (finalizeCompletionNotice,
   initializeUnlocked). *)
NoticeTruth ==
  \A s \in Sessions : \A r \in Rows(manifest[s]) :
    /\ r \in sent => manifest[s].heads[r].notice # "none"
    /\ manifest[s].heads[r].notice = "delivered" => r \in sent

(* Between calls nothing is left behind: each run directory belongs to a
   row and holds exactly the row's details (the catch blocks of the
   transactions, reconcileRecoveryResidue). *)
NoResidue ==
  Ready => \A r \in Runs :
    \/ place[r] = "none"
    \/ /\ place[r] = "runs"
       /\ \E s \in Sessions : r \in Rows(manifest[s]) /\ files[r] = {manifest[s].heads[r].detail}

(* A running store is within its limits at every moment, the peak of a
   transaction included (evictForSession, preflightTransactionCapacity). *)
WithinLimits ==
  proc = "up" => /\ Bytes <= MaxBytes
                 /\ \A s \in Sessions : Cardinality(Rows(manifest[s])) <= MaxRetained

(* Unless a step threw after its effect, a row leaves the disk only when it
   is terminal with a final notice; until then it changes by one revision at
   a time, a terminal row is never reopened and a final one never changes,
   across failures, crashes and recoveries. *)
RowsOnlyAdvance ==
  [][faults["late"] = 0 => \A s \in Sessions : \A r \in Rows(manifest[s]) :
       LET old == manifest[s].heads[r]
           new == manifest'[s].heads[r]
       IN  new # old =>
             IF new.status = "none" THEN Final(old)
             ELSE /\ new.rev = old.rev + 1 /\ new.ordinal = old.ordinal
                  /\ old.status = "terminal" => old.notice = "claimed" /\ Final(new)]_vars

(* No boot refuses the store: whatever an earlier process left is recovered
   (validateRecoveryInventory, enforceGlobalLimit). *)
NeverRefused == verdict = "ok"

(* The store comes back, however often the process dies, and every
   transaction ends. *)
StoreComesBack == []<>Ready
=============================================================================
