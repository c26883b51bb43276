--------------------------- MODULE RunStoreProofs ---------------------------
(***************************************************************************)
(* What is proved of the store beyond its types, for every value of the    *)
(* constants: a manifest on disk never names a missing directory or        *)
(* details file (StoreInv); two admitted runs of a Session never had the   *)
(* same ordinal (NamesInv); what a notice says is true (NoticeInv); a row  *)
(* only advances, and is owned until it has ended (RowInv); a running      *)
(* store is within its limits (RetainInv, SizeInv); its one temporary file *)
(* is the transaction's (TempsInv); the supervisor holds the revision on   *)
(* disk of each run it owns (CurrentInv); nothing is left behind           *)
(* (NeatInv); and no boot refuses what a dead process left (AcceptInv).    *)
(***************************************************************************)
EXTENDS RunStoreTypes, FiniteSetTheorems

(* The cache is the disk once a boot has read it, and while a store is open. *)
Loaded   == proc = "up" \/ (proc = "boot" /\ tx.pc \notin {"validate", "reconcile"})
CacheInv == Loaded => cache = manifest

(* A run has one Session, and its details were issued for it. *)
OneHome == \A s, t \in Sessions : \A r \in Rows(manifest[s]) : r \in Rows(manifest[t]) => s = t
DetailBound == \A s \in Sessions : \A r \in Rows(manifest[s]) : manifest[s].heads[r].detail <= minted[r]

(* No manifest names the run being inserted until its files are in place. *)
InsertInv ==
  tx.op = "insert" =>
    /\ \A s \in Sessions : tx.r \notin Rows(manifest[s])
    /\ victim # tx.r
    /\ tx.dets = {} /\ tx.written = {}
    /\ tx.pc \in {"publish", "persist"} => tx.cand.heads[tx.r].detail \in files[tx.r]
    /\ tx.pc = "persist" => place[tx.r] = "runs"

(* Each row of a candidate is in the manifest it replaces, with details that
   stay, are still to be written, or have been. *)
Backed(q) ==
  \/ q \in tx.dets
  \/ q \in tx.written /\ tx.cand.heads[q].detail \in files[q]
  \/ tx.cand.heads[q].detail = manifest[tx.s].heads[q].detail
CandInv ==
  tx.pc \in {"preflight", "stage", "publish", "detail", "persist"} =>
    /\ tx.pc = "persist" => tx.dets = {}
    /\ \A q \in Rows(tx.cand) :
         /\ tx.cand.heads[q].detail <= minted[q]
         /\ \/ tx.op = "insert" /\ q = tx.r
            \/ q \in Rows(manifest[tx.s]) /\ Backed(q)

(* What is written, removed by an undo, or dropped after the replacement is
   never what a manifest names then. *)
Replacing(r) ==
  /\ \A s \in Sessions \ {tx.s} : r \notin Rows(manifest[s])
  /\ r \in Rows(manifest[tx.s]) => /\ manifest[tx.s].heads[r].detail = tx.old[r]
                                   /\ tx.cand.heads[r].detail # tx.old[r]
DetailInv ==
  tx.pc \in {"preflight", "detail", "persist", "undo"} =>
    \A r \in tx.dets \cup tx.written : Replacing(r)
DropInv ==
  /\ tx.pc = "drop" => \A r \in tx.written, s \in Sessions :
       r \in Rows(manifest[s]) => manifest[s].heads[r].detail # tx.old[r]
  /\ tx.pc \in {"idle", "validate", "reconcile", "fit", "plan", "evict", "preflight"} => tx.written = {}

Safe == /\ CacheInv /\ OneHome /\ DetailBound /\ NeverDangles
        /\ InsertInv /\ CandInv /\ DetailInv /\ DropInv
StoreInv == faults["late"] = 0 => Safe
-----------------------------------------------------------------------------
(* Frames. *)

LEMMA RowsAre ==
  ASSUME NEW m, NEW q
  PROVE  q \in Rows(m) <=> q \in Runs /\ m.heads[q].status # "none"
BY DEF Rows

LEMMA WithoutRows ==
  ASSUME NEW m \in ManifestType, NEW v
  PROVE  /\ \A q \in Runs \ {v} : Without(m, v).heads[q] = m.heads[q]
         /\ Rows(Without(m, v)) = Rows(m) \ {v}
<1>1. Without(m, v).heads = [m.heads EXCEPT ![v] = NoRow] /\ m.heads \in [Runs -> RowType]
  BY DEF Without, ManifestType
<1>2. \A q \in Runs \ {v} : Without(m, v).heads[q] = m.heads[q]
  BY <1>1
<1>3. v \in Runs => Without(m, v).heads[v].status = "none"
  BY <1>1 DEF NoRow
<1> QED
  BY <1>2, <1>3 DEF Rows

(* Between calls, and in every operation past a boot's reading, the cache is the disk. *)
LEMMA CacheIsDisk ==
  ASSUME TypeOK, TxShape, CacheInv,
         Ready \/ (tx.op # "none" /\ tx.pc \notin {"validate", "reconcile"})
  PROVE  cache = manifest
BY DEF TypeOK, TxShape, CacheInv, Loaded, Ready

(* While the manifests stay and identifiers are only issued. *)
LEMMA ManifestsKept ==
  ASSUME OneHome, DetailBound, TypeOK, manifest' = manifest,
         \A r \in Runs : minted'[r] \in Nat /\ minted'[r] >= minted[r]
  PROVE  OneHome' /\ DetailBound'
<1>1. OneHome'
  BY DEF OneHome
<1>2. \A s \in Sessions : \A r \in Rows(manifest[s]) :
        r \in Runs /\ manifest[s].heads[r].detail \in Nat /\ minted[r] \in Nat
  BY DEF Rows, TypeOK, ManifestType, RowType
<1>3. DetailBound'
  BY <1>2 DEF DetailBound
<1> QED
  BY <1>1, <1>3

(* A step that leaves the transaction, and removes no file that a row or the
   candidate relies on. *)
LEMMA FileFrame ==
  ASSUME Safe, TypeOK, UNCHANGED <<manifest, cache, proc, tx, minted>>, NeverDangles',
         tx.op = "insert" => victim' # tx.r,
         tx.op = "insert" /\ tx.pc \in {"publish", "persist"} =>
           place'[tx.r] = place[tx.r] /\ files[tx.r] \subseteq files'[tx.r],
         tx.pc \in {"preflight", "stage", "publish", "detail", "persist"} =>
           \A q \in tx.written : files[q] \subseteq files'[q]
  PROVE  Safe'
<1>1. CacheInv' /\ OneHome' /\ DetailBound'
  BY DEF Safe, CacheInv, Loaded, OneHome, DetailBound
<1>2. InsertInv'
  BY DEF Safe, InsertInv
<1>3. CandInv'
  BY DEF Safe, CandInv, Backed
<1>4. DetailInv' /\ DropInv'
  BY DEF Safe, DetailInv, Replacing, DropInv
<1> QED
  BY <1>1, <1>2, <1>3, <1>4 DEF Safe

(* A step to a stage in which nothing is prepared. *)
LEMMA QuietFrame ==
  ASSUME Safe, TypeOK, UNCHANGED <<manifest, minted>>, NeverDangles', CacheInv',
         tx'.op # "insert", tx'.pc \in {"idle", "validate", "reconcile", "fit", "plan", "enforce"},
         tx'.pc # "enforce" => tx'.written = {}
  PROVE  Safe'
<1>1. OneHome' /\ DetailBound'
  BY ManifestsKept DEF Safe, TypeOK
<1>2. InsertInv' /\ CandInv' /\ DetailInv' /\ DropInv'
  BY DEF InsertInv, CandInv, DetailInv, DropInv
<1> QED
  BY <1>1, <1>2 DEF Safe

LEMMA ThrowSafe ==
  ASSUME Safe, TypeOK, TxShape, tx.op # "none", Throw, UNCHANGED <<manifest, minted>>, NeverDangles'
  PROVE  Safe'
<1>1. CASE tx.op = "boot"
  <2>1. proc' = "down" /\ tx' = Idle
    BY <1>1 DEF Throw
  <2>2. CacheInv'
    BY <2>1 DEF CacheInv, Loaded
  <2> QED
    BY <2>1, <2>2, QuietFrame DEF Idle
<1>2. CASE tx.op # "boot" /\ tx' = Idle
  <2>1. UNCHANGED <<proc, cache>> /\ proc # "boot"
    BY <1>2 DEF Throw, TxShape
  <2>2. CacheInv'
    BY <2>1 DEF Safe, CacheInv, Loaded
  <2> QED
    BY <1>2, <2>2, QuietFrame DEF Idle
<1>3. CASE /\ tx.op # "boot" /\ victim = NoRun /\ tx.pc \in {"stage", "publish", "detail", "persist"}
           /\ Goto("undo")
  <2>1. UNCHANGED <<proc, cache>> /\ proc # "boot" /\ victim' = NoRun
    BY <1>3 DEF Throw, TxShape
  <2>2. tx' = [tx EXCEPT !.pc = "undo"] /\ tx'.pc = "undo"
    BY <1>3 DEF Goto, TypeOK, TxType
  <2>3. CacheInv'
    BY <2>1 DEF Safe, CacheInv, Loaded
  <2>4. OneHome' /\ DetailBound'
    BY ManifestsKept DEF Safe, TypeOK
  <2>5. InsertInv'
    BY <2>1, <2>2, RunStoreAssumption DEF Safe, InsertInv, TxShape
  <2>6. \A r \in tx.dets \cup tx.written : Replacing(r)
    BY <1>3 DEF Safe, InsertInv, DetailInv, TxShape, Stages, Commits, CommitStages, TypeOK, TxType
  <2>7. DetailInv'
    BY <2>2, <2>6 DEF DetailInv, Replacing
  <2>8. CandInv' /\ DropInv'
    BY <2>2 DEF CandInv, DropInv
  <2> QED
    BY <2>3, <2>4, <2>5, <2>7, <2>8 DEF Safe
<1> QED
  BY <1>1, <1>2, <1>3 DEF Throw
-----------------------------------------------------------------------------
(* The calls. *)

LEMMA BeginCommitSafe ==
  ASSUME TypeOK, TxShape, Safe, NEW op \in Commits, NEW s \in Sessions, NEW r \in Runs,
         NEW row \in RowType, NEW new \in BOOLEAN, BeginCommit(op, s, r, row, new),
         row.status # "none",
         row.detail = IF new THEN minted[r] + 1 ELSE cache[s].heads[r].detail
  PROVE  Safe'
<1> DEFINE T == [Idle EXCEPT !.op = op, !.pc = "preflight", !.s = s, !.r = r,
                            !.cand = [cache[s] EXCEPT !.heads[r] = row],
                            !.dets = IF new THEN {r} ELSE {},
                            !.old = [@ EXCEPT ![r] = cache[s].heads[r].detail]]
<1>1. /\ tx' = T /\ minted' = [minted EXCEPT ![r] = IF new THEN @ + 1 ELSE @]
      /\ UNCHANGED <<disk, proc, cache, victim>> /\ Ready /\ Holds(s, r)
  BY DEF BeginCommit
<1>2. cache = manifest /\ proc = "up"
  BY <1>1, CacheIsDisk DEF Safe, Ready
<1>3. /\ r \in Rows(manifest[s]) /\ manifest[s].heads \in [Runs -> RowType]
      /\ manifest[s].heads[r].detail \in Nat /\ minted[r] \in Nat
      /\ manifest[s].heads[r].detail <= minted[r]
  BY <1>1, <1>2 DEF Holds, TypeOK, ManifestType, RowType, Safe, DetailBound
<1>4. /\ T.op = op /\ T.pc = "preflight" /\ T.s = s /\ T.written = {}
      /\ T.dets = (IF new THEN {r} ELSE {}) /\ T.old[r] = manifest[s].heads[r].detail
      /\ T.cand.heads = [manifest[s].heads EXCEPT ![r] = row]
  BY <1>2 DEF Idle, TypeOK, ManifestType
<1> HIDE DEF T
<1>5. CacheInv'
  BY <1>1, <1>2 DEF CacheInv, disk
<1>6. \A q \in Runs : minted'[q] \in Nat /\ minted'[q] >= minted[q]
  BY <1>1 DEF TypeOK
<1>7. OneHome' /\ DetailBound' /\ NeverDangles'
  BY <1>1, <1>6, ManifestsKept DEF Safe, disk, NeverDangles
<1>8. InsertInv'
  BY <1>1, <1>4 DEF InsertInv, Commits
<1>9. CandInv'
  <2> SUFFICES ASSUME NEW q \in Rows(T.cand)
               PROVE  /\ T.cand.heads[q].detail <= minted'[q]
                      /\ q \in Rows(manifest'[s])
                      /\ q \in T.dets \/ T.cand.heads[q].detail = manifest'[s].heads[q].detail
    BY <1>1, <1>4 DEF CandInv, Backed
  <2>1. q \in Runs /\ T.cand.heads[q].status # "none"
    BY DEF Rows
  <2>2. CASE q = r
    BY <1>1, <1>2, <1>3, <1>4, <2>2 DEF disk, TypeOK
  <2>3. CASE q # r
    <3>1. T.cand.heads[q] = manifest[s].heads[q]
      BY <1>3, <1>4, <2>1, <2>3
    <3>2. q \in Rows(manifest[s]) /\ manifest[s].heads[q].detail <= minted[q] /\ minted'[q] = minted[q]
      BY <1>1, <2>1, <2>3, <3>1 DEF Rows, Safe, DetailBound, TypeOK
    <3> QED
      BY <1>1, <3>1, <3>2 DEF disk
  <2> QED
    BY <2>2, <2>3
<1>10. DetailInv'
  <2> SUFFICES ASSUME new
               PROVE  /\ \A t \in Sessions \ {s} : r \notin Rows(manifest[t])
                      /\ T.cand.heads[r].detail # T.old[r]
    BY <1>1, <1>4 DEF DetailInv, Replacing, disk
  <2>1. T.cand.heads[r].detail = minted[r] + 1
    BY <1>3, <1>4
  <2> QED
    BY <1>3, <1>4, <2>1 DEF Safe, OneHome
<1>11. DropInv'
  BY <1>1, <1>4 DEF DropInv
<1> QED
  BY <1>5, <1>7, <1>8, <1>9, <1>10, <1>11 DEF Safe

LEMMA CallSafe ==
  ASSUME TypeOK, TxShape, Safe, Call
  PROVE  Safe'
<1>1. ASSUME NEW r \in Runs, Enqueue(r) \/ ScratchWrite(r)
      PROVE  Safe'
  <2>1. UNCHANGED <<manifest, cache, proc, tx, minted, victim, place, files>>
    BY <1>1 DEF Enqueue, ScratchWrite, memory, ghosts, disk
  <2> QED
    BY <2>1, FileFrame DEF Safe, InsertInv, NeverDangles
<1>2. ASSUME NEW s \in Sessions, NEW r \in Runs, InsertWithNextDisplayName(s, r)
      PROVE  Safe'
  <2>1. /\ tx' = [Idle EXCEPT !.op = "insert", !.pc = "evict", !.s = s, !.r = r]
        /\ UNCHANGED <<manifest, minted, place, files, proc, cache, victim>>
        /\ Ready /\ \A t \in Sessions : r \notin Rows(manifest[t])
    BY <1>2 DEF InsertWithNextDisplayName, disk, ghosts, Unused
  <2>2. victim = NoRun /\ cache = manifest
    BY <2>1, CacheIsDisk DEF Safe, Ready, TxShape, Idle
  <2>3. OneHome' /\ DetailBound' /\ NeverDangles' /\ CacheInv'
    BY <2>1, <2>2 DEF Safe, OneHome, DetailBound, NeverDangles, CacheInv
  <2>4. InsertInv'
    BY <2>1, <2>2, RunStoreAssumption DEF InsertInv, Idle
  <2>5. CandInv' /\ DetailInv' /\ DropInv'
    BY <2>1 DEF CandInv, DetailInv, DropInv, Idle
  <2> QED
    BY <2>3, <2>4, <2>5 DEF Safe
<1>3. ASSUME NEW s \in Sessions, NEW r \in Runs,
             \/ \E new \in BOOLEAN : CommitRun(s, r, new)
             \/ CommitTerminalAndClaimNotice(s, r) \/ FinalizeCompletionNotice(s, r)
      PROVE  Safe'
  <2> DEFINE row == cache[s].heads[r]
  <2>1. row \in RowType /\ row.detail \in Nat /\ minted[r] + 1 \in Nat
    BY DEF TypeOK, ManifestType, RowType
  <2>2. Holds(s, r) => row.status # "none"
    BY DEF Holds, Rows
  <2> HIDE DEF row
  <2>3. CASE \E new \in BOOLEAN : CommitRun(s, r, new)
    <3>1. PICK new \in BOOLEAN : CommitRun(s, r, new)
      BY <2>3
    <3> DEFINE d == IF new THEN minted[r] + 1 ELSE row.detail
    <3>2. d \in Nat
      BY <2>1
    <3>3. BeginCommit("update", s, r, Updated(row, d), new)
      BY <3>1 DEF CommitRun, row
    <3>4. /\ Updated(row, d) \in RowType
          /\ Updated(row, d).status = row.status /\ Updated(row, d).detail = d
      BY <2>1, <3>2, RowTypes DEF Updated, RowType
    <3> QED
      BY <2>2, <3>3, <3>4, BeginCommitSafe DEF Commits, BeginCommit, row
  <2>4. CASE CommitTerminalAndClaimNotice(s, r)
    <3>1. /\ Claimed(row, minted[r] + 1) \in RowType
          /\ Claimed(row, minted[r] + 1).status = "terminal"
          /\ Claimed(row, minted[r] + 1).detail = minted[r] + 1
      BY <2>1, RowTypes DEF Claimed, Updated, RowType
    <3>2. BeginCommit("terminal", s, r, Claimed(row, minted[r] + 1), TRUE)
      BY <2>4 DEF CommitTerminalAndClaimNotice, row
    <3> QED
      BY <3>1, <3>2, BeginCommitSafe DEF Commits
  <2>5. CASE FinalizeCompletionNotice(s, r)
    <3> DEFINE n == IF client[r] = "enqueued" THEN "delivered" ELSE "abandoned"
    <3>1. /\ Finalized(row, n) \in RowType
          /\ Finalized(row, n).status = row.status /\ Finalized(row, n).detail = row.detail
      BY <2>1, RowTypes DEF Finalized, RowType
    <3>2. BeginCommit("finalize", s, r, Finalized(row, n), FALSE)
      BY <2>5 DEF FinalizeCompletionNotice, row
    <3> HIDE DEF n
    <3>3. Holds(s, r)
      BY <3>2 DEF BeginCommit
    <3> QED
      BY <2>2, <3>1, <3>2, <3>3, BeginCommitSafe DEF Commits, row
  <2> QED
    BY <1>3, <2>3, <2>4, <2>5
<1> QED
  BY <1>1, <1>2, <1>3 DEF Call
-----------------------------------------------------------------------------
(* Room for the transaction. *)

(* A directory that no manifest names may go. *)
LEMMA UnnamedGoes ==
  ASSUME TypeOK, NeverDangles, manifest' = manifest, NEW r \in Runs,
         \A s \in Sessions : r \notin Rows(manifest[s]),
         place' \in {[place EXCEPT ![r] = "quarantine"], [place EXCEPT ![r] = "none"], [place EXCEPT ![r] = "staging"]},
         \A q \in Runs \ {r} : files'[q] = files[q]
  PROVE  NeverDangles'
<1>1. ASSUME NEW s \in Sessions, NEW q \in Rows(manifest[s])
      PROVE  place'[q] = "runs" /\ manifest[s].heads[q].detail \in files'[q]
  <2>1. q \in Runs /\ q # r
    BY <1>1 DEF Rows
  <2>2. place[q] = "runs" /\ manifest[s].heads[q].detail \in files[q]
    BY <1>1 DEF NeverDangles
  <2> QED
    BY <2>1, <2>2 DEF TypeOK
<1> QED
  BY <1>1 DEF NeverDangles

LEMMA EvictionSafe ==
  ASSUME TypeOK, TxShape, Safe,
         \/ \E r \in Runs : ChooseVictim(r) \/ Quarantine(r) \/ Remove(r)
         \/ NoRoom \/ CountFails \/ Evicted \/ RemoveFails
  PROVE  Safe'
<1>0. tx.op = "none" => tx.pc = "idle" /\ victim = NoRun
  BY DEF TxShape, Idle
<1>1. ASSUME NEW r \in Runs, ChooseVictim(r)
      PROVE  Safe'
  <2>1. /\ UNCHANGED <<manifest, cache, proc, tx, minted, place, files>> /\ victim' = r
        /\ Counting /\ r \in Evictable
    BY <1>1 DEF ChooseVictim, disk, ghosts, Counted, Candidates
  <2>2. cache = manifest
    BY <2>1, <1>0, CacheIsDisk DEF Safe, Counting
  <2>3. \E s \in Sessions : r \in Rows(manifest[s])
    BY <2>1, <2>2 DEF Evictable, Holds
  <2>4. tx.op = "insert" => victim' # tx.r
    BY <2>1, <2>3 DEF Safe, InsertInv
  <2> QED
    BY <2>1, <2>4, FileFrame DEF Safe, NeverDangles
<1>2. ASSUME NEW r \in Runs, Quarantine(r) \/ Remove(r)
      PROVE  Safe'
  <2>1. /\ UNCHANGED <<manifest, cache, proc, tx, minted, victim>>
        /\ Removing(r)
        /\ place' \in {[place EXCEPT ![r] = "quarantine"], [place EXCEPT ![r] = "none"]}
        /\ \A q \in Runs \ {r} : files'[q] = files[q]
    BY <1>2 DEF Quarantine, Remove, DeleteTree, memory, ghosts, TypeOK
  <2>2. tx.op # "none" /\ tx.pc \in {"evict", "preflight", "fit", "enforce", "undo"}
    BY <1>0, <2>1, RunStoreAssumption DEF Removing, Evicting, At, TxShape
  <2>3. cache = manifest
    BY <2>2, CacheIsDisk DEF Safe
  <2>4. \A s \in Sessions : r \notin Rows(manifest[s])
    BY <2>1, <2>3 DEF Removing, Evicting, Holds, Safe, InsertInv
  <2>5. NeverDangles'
    BY <2>1, <2>4, UnnamedGoes DEF Safe
  <2>6. tx.pc = "preflight" => tx.written = {}
    BY DEF Safe, DropInv
  <2> QED
    BY <2>1, <2>2, <2>5, <2>6, FileFrame DEF Safe, InsertInv
<1>3. CASE Evicted
  <2>1. UNCHANGED <<manifest, cache, proc, tx, minted, place, files>> /\ victim' = NoRun
    BY <1>3 DEF Evicted, disk, ghosts
  <2>2. tx.op = "insert" => victim' # tx.r
    BY <2>1, RunStoreAssumption DEF TxShape
  <2> QED
    BY <2>1, <2>2, FileFrame DEF Safe, NeverDangles
<1>4. CASE NoRoom \/ CountFails \/ RemoveFails
  <2>1. tx.op # "none"
    BY <1>0, <1>4 DEF NoRoom, CountFails, RemoveFails, Counting, Evicting
  <2>2. UNCHANGED <<manifest, minted, place, files>> /\ Throw
    BY <1>4 DEF NoRoom, CountFails, RemoveFails, disk
  <2> QED
    BY <2>1, <2>2, ThrowSafe DEF Safe, NeverDangles
<1> QED
  BY <1>1, <1>2, <1>3, <1>4
-----------------------------------------------------------------------------
(* The stages of an insert. *)

(* A stage that prepares nothing: the same candidate at a later stage. *)
LEMMA StageFrame ==
  ASSUME TypeOK, TxShape, Safe, UNCHANGED <<manifest, cache, proc, minted, victim, place>>,
         NEW pc \in {"preflight", "stage", "publish", "detail", "persist"}, Goto(pc),
         tx.pc \in {"preflight", "stage", "publish"}, NeverDangles',
         pc = "persist" => tx.dets = {},
         tx.written = {} /\ (pc = "preflight" => tx.pc = "preflight"),
         tx.op = "insert" => /\ pc \in {"publish", "persist"} =>
                                   tx.cand.heads[tx.r].detail \in files'[tx.r]
                             /\ pc = "persist" => place[tx.r] = "runs",
         tx.op # "insert" => tx.pc = "preflight"
  PROVE  Safe'
<1>1. tx' = [tx EXCEPT !.pc = pc] /\ tx'.pc = pc
  BY DEF Goto, TypeOK, TxType
<1>2. OneHome' /\ DetailBound'
  BY DEF Safe, OneHome, DetailBound
<1>3. CacheInv'
  BY <1>1 DEF Safe, CacheInv, Loaded, TypeOK, TxType
<1>4. InsertInv'
  BY <1>1 DEF Safe, InsertInv, TypeOK, TxType
<1>5. CandInv'
  BY <1>1 DEF Safe, CandInv, Backed, TypeOK, TxType
<1>6. DetailInv'
  BY <1>1 DEF Safe, InsertInv, DetailInv, Replacing, TypeOK, TxType
<1>7. DropInv'
  BY <1>1 DEF DropInv, TypeOK, TxType
<1> QED
  BY <1>2, <1>3, <1>4, <1>5, <1>6, <1>7 DEF Safe

(* A step that threw after its effect is counted. *)
LEMMA LateIsCounted ==
  ASSUME TypeOK, NEW f, Fault(f)
  PROVE  /\ faults'["late"] = 0 => faults["late"] = 0
         /\ f = "late" => faults'["late"] # 0
<1>1. f \in AllFaults /\ "late" \in AllFaults
  BY RunStoreAssumption DEF Fault, AllFaults
<1>2. faults \in [AllFaults -> Nat]
  BY DEF TypeOK
<1> QED
  BY <1>1, <1>2 DEF Fault

LEMMA InsertSafe ==
  ASSUME TypeOK, TxShape, Safe, faults'["late"] = 0,
         Retained \/ Fits \/ Stage \/ Staged \/ StageFails \/ PublishDirectory
  PROVE  Safe'
<1>0. /\ tx.pc # "idle" => tx.op # "none"
      /\ tx.pc \in {"evict", "stage", "publish"} => tx.op = "insert"
      /\ tx.op = "insert" => /\ tx.s \in Sessions /\ tx.r \in Runs
                             /\ \A s \in Sessions : tx.r \notin Rows(manifest[s])
                             /\ tx.dets = {} /\ tx.written = {}
      /\ tx.pc = "preflight" => tx.op \in Commits \cup {"insert"} /\ tx.written = {}
  BY DEF TypeOK, TxType, TxShape, Stages, Commits, CommitStages, Safe, InsertInv, DropInv
<1>1. CASE Retained
  <2>1. /\ tx' = [tx EXCEPT !.pc = "preflight", !.cand = Inserted(cache[tx.s], tx.r, minted[tx.r] + 1)]
        /\ minted' = [minted EXCEPT ![tx.r] = @ + 1] /\ tx.pc = "evict"
        /\ UNCHANGED <<manifest, place, files, proc, cache, victim>>
    BY <1>1 DEF Retained, At, disk
  <2>2. tx.op = "insert" /\ tx.s \in Sessions /\ tx.r \in Runs /\ tx.dets = {} /\ tx.written = {}
    BY <1>0, <2>1
  <2>3. cache = manifest /\ proc = "up"
    BY <2>1, <2>2, CacheIsDisk DEF Safe, TxShape, TypeOK
  <2>4. \A q \in Runs : minted'[q] \in Nat /\ minted'[q] >= minted[q]
    BY <2>1 DEF TypeOK
  <2>5. OneHome' /\ DetailBound' /\ NeverDangles' /\ CacheInv'
    BY <2>1, <2>3, <2>4, ManifestsKept DEF Safe, NeverDangles, CacheInv
  <2> DEFINE C == Inserted(manifest[tx.s], tx.r, minted[tx.r] + 1)
  <2>6. /\ tx'.pc = "preflight" /\ tx'.op = "insert" /\ tx'.s = tx.s /\ tx'.r = tx.r
        /\ tx'.dets = {} /\ tx'.written = {} /\ tx'.cand = C
    BY <2>1, <2>2, <2>3 DEF TypeOK, TxType
  <2>7. /\ \A q \in Runs \ {tx.r} : C.heads[q] = manifest[tx.s].heads[q]
        /\ C.heads[tx.r].detail = minted'[tx.r]
    BY <2>1, <2>2 DEF Inserted, WithRow, TypeOK, ManifestType
  <2> HIDE DEF C
  <2>8. InsertInv'
    BY <2>1, <2>2, <2>6 DEF Safe, InsertInv
  <2>9. CandInv'
    <3>1. ASSUME NEW q \in Rows(C), q # tx.r
          PROVE  /\ C.heads[q].detail <= minted'[q] /\ q \in Rows(manifest[tx.s])
                 /\ C.heads[q].detail = manifest[tx.s].heads[q].detail
      <4>1. q \in Runs /\ C.heads[q] = manifest[tx.s].heads[q]
        BY <2>7, <3>1 DEF Rows
      <4>2. q \in Rows(manifest[tx.s])
        BY <3>1, <4>1 DEF Rows
      <4>3. manifest[tx.s].heads[q].detail <= minted[q] /\ minted'[q] = minted[q]
        BY <2>1, <2>2, <3>1, <4>1, <4>2 DEF Safe, DetailBound, TypeOK
      <4> QED
        BY <4>1, <4>2, <4>3
    <3>2. C.heads[tx.r].detail <= minted'[tx.r]
      BY <2>2, <2>4, <2>7
    <3>4. /\ manifest' = manifest
          /\ tx'.pc # "persist" /\ tx'.op = "insert" /\ tx'.s = tx.s /\ tx'.r = tx.r /\ tx'.cand = C
      BY <2>1, <2>6
    <3> QED
      BY <3>1, <3>2, <3>4 DEF CandInv, Backed
  <2>10. DetailInv' /\ DropInv'
    BY <2>6 DEF DetailInv, DropInv
  <2> QED
    BY <2>5, <2>8, <2>9, <2>10 DEF Safe
<1>2. CASE Fits
  <2>1. /\ UNCHANGED <<manifest, cache, proc, minted, victim, place, files>> /\ tx.pc = "preflight"
        /\ Goto(IF tx.op = "insert" THEN "stage" ELSE IF tx.dets # {} THEN "detail" ELSE "persist")
    BY <1>2 DEF Fits, At, disk, ghosts
  <2>2. NeverDangles'
    BY <2>1 DEF Safe, NeverDangles
  <2>3. CASE tx.op = "insert"
    BY <1>0, <2>1, <2>2, <2>3, StageFrame
  <2>4. CASE tx.op # "insert" /\ tx.dets # {}
    BY <1>0, <2>1, <2>2, <2>4, StageFrame
  <2>5. CASE tx.op # "insert" /\ tx.dets = {}
    BY <1>0, <2>1, <2>2, <2>5, StageFrame
  <2> QED
    BY <2>3, <2>4, <2>5
<1>3. CASE Stage
  <2>1. /\ UNCHANGED <<manifest, cache, proc, tx, minted, victim, files>> /\ tx.pc = "stage"
        /\ place' = [place EXCEPT ![tx.r] = "staging"]
    BY <1>3 DEF Stage, At, memory, ghosts
  <2>2. NeverDangles'
    BY <1>0, <2>1, UnnamedGoes DEF Safe
  <2> QED
    BY <2>1, <2>2, FileFrame DEF Safe, InsertInv
<1>4. CASE Staged
  <2>1. /\ UNCHANGED <<manifest, cache, proc, minted, victim, place>> /\ tx.pc = "stage"
        /\ files' = [files EXCEPT ![tx.r] = {tx.cand.heads[tx.r].detail}] /\ Goto("publish")
    BY <1>4 DEF Staged, At, ghosts
  <2>2. tx.op = "insert" /\ tx.r \in Runs /\ \A s \in Sessions : tx.r \notin Rows(manifest[s])
    BY <1>0, <2>1
  <2>3. \A q \in Runs : q # tx.r => files'[q] = files[q]
    BY <2>1 DEF TypeOK
  <2>4. NeverDangles'
    BY <2>1, <2>2, <2>3, RowsAre DEF Safe, NeverDangles
  <2>5. tx.cand.heads[tx.r].detail \in files'[tx.r]
    BY <2>1, <2>2 DEF TypeOK
  <2> QED
    BY <1>0, <2>1, <2>2, <2>4, <2>5, StageFrame
<1>5. CASE StageFails
  <2>1. tx.op # "none" /\ UNCHANGED <<manifest, minted, place, files>> /\ Throw
    BY <1>0, <1>5 DEF StageFails, At
  <2> QED
    BY <2>1, ThrowSafe DEF Safe, NeverDangles
<1>6. CASE PublishDirectory
  <2>1. tx.pc = "publish" /\ tx.op = "insert" /\ UNCHANGED <<manifest, files, minted>>
    BY <1>0, <1>6 DEF PublishDirectory, At
  <2>2. CASE /\ Goto("persist") /\ place' = [place EXCEPT ![tx.r] = "runs"]
             /\ UNCHANGED <<proc, cache, victim, faults>>
    <3>1. tx' = [tx EXCEPT !.pc = "persist"] /\ place'[tx.r] = "runs" /\ tx.r \in Runs
      BY <1>0, <2>1, <2>2 DEF Goto, TypeOK
    <3>2. NeverDangles'
      BY <2>1, <2>2, <3>1, RowsAre DEF Safe, NeverDangles, TypeOK
    <3>3. OneHome' /\ DetailBound'
      BY <2>1 DEF Safe, OneHome, DetailBound
    <3>4. CacheInv'
      BY <2>1, <2>2, <3>1 DEF Safe, CacheInv, Loaded, TypeOK, TxType
    <3>5. InsertInv'
      BY <2>1, <2>2, <3>1 DEF Safe, InsertInv, TypeOK, TxType
    <3>6. CandInv'
      BY <1>0, <2>1, <2>2, <3>1 DEF Safe, CandInv, Backed, TypeOK, TxType
    <3>7. DetailInv' /\ DropInv'
      BY <1>0, <2>1, <3>1 DEF DetailInv, DropInv, TypeOK, TxType
    <3> QED
      BY <3>2, <3>3, <3>4, <3>5, <3>6, <3>7 DEF Safe
  <2>3. CASE Throw /\ UNCHANGED place
    BY <2>1, <2>3, ThrowSafe DEF Safe, NeverDangles
  <2>4. CASE Fault("late")
    BY <2>4, LateIsCounted
  <2> QED
    BY <1>6, <2>2, <2>3, <2>4 DEF PublishDirectory
<1> QED
  BY <1>1, <1>2, <1>3, <1>4, <1>5, <1>6
-----------------------------------------------------------------------------
(* The stages of a commit, which a recovery passes too. *)

LEMMA DetailSafe ==
  ASSUME TypeOK, TxShape, Safe, faults'["late"] = 0,
         NEW r \in Runs, WriteDetail(r) \/ LinkDetail(r) \/ DropOld(r)
  PROVE  Safe'
<1>1. CASE WriteDetail(r)
  <2>1. UNCHANGED <<manifest, cache, proc, tx, minted, victim, place, files>>
    BY <1>1 DEF WriteDetail, memory, ghosts
  <2> QED
    BY <2>1, FileFrame DEF Safe, InsertInv, NeverDangles
<1>2. CASE LinkDetail(r)
  <2> DEFINE file == tx.cand.heads[r].detail
  <2>1. /\ tx.pc = "detail" /\ tx.op # "insert" /\ tx.op # "none" /\ tx.s \in Sessions
        /\ r \in tx.dets /\ UNCHANGED <<manifest, place, minted>>
    BY <1>2, WorkingStages DEF LinkDetail, At, Commits
  <2>2. CASE /\ files' = [files EXCEPT ![r] = @ \cup {file}]
             /\ tx' = [tx EXCEPT !.dets = @ \ {r}, !.written = @ \cup {r},
                                !.pc = IF tx.dets = {r} THEN "persist" ELSE @]
             /\ UNCHANGED <<proc, cache, victim, faults>>
    <3>1. /\ tx'.op = tx.op /\ tx'.s = tx.s /\ tx'.r = tx.r /\ tx'.cand = tx.cand /\ tx'.old = tx.old
          /\ tx'.dets = tx.dets \ {r} /\ tx'.written = tx.written \cup {r}
          /\ tx'.pc = (IF tx.dets = {r} THEN "persist" ELSE "detail")
      BY <2>1, <2>2 DEF TypeOK, TxType
    <3>2. \A q \in Runs : files[q] \subseteq files'[q]
      BY <2>2 DEF TypeOK
    <3>3. file \in files'[r]
      BY <2>2 DEF TypeOK
    <3>4. OneHome' /\ DetailBound'
      BY <2>1 DEF Safe, OneHome, DetailBound
    <3>5. NeverDangles'
      BY <2>1, <3>2, RowsAre DEF Safe, NeverDangles
    <3>6. CacheInv'
      BY <2>1, <2>2, <3>1 DEF Safe, CacheInv, Loaded
    <3>7. InsertInv' /\ DropInv'
      BY <2>1, <3>1 DEF InsertInv, DropInv
    <3>8. CandInv'
      <4>1. ASSUME NEW q \in Rows(tx.cand)
            PROVE  /\ tx.cand.heads[q].detail <= minted[q] /\ q \in Rows(manifest[tx.s])
                   /\ \/ q \in tx.dets \ {r}
                      \/ q \in tx.written \cup {r} /\ tx.cand.heads[q].detail \in files'[q]
                      \/ tx.cand.heads[q].detail = manifest[tx.s].heads[q].detail
        <5>1. q \in Runs
          BY <4>1 DEF Rows
        <5>2. /\ tx.cand.heads[q].detail <= minted[q] /\ q \in Rows(manifest[tx.s]) /\ Backed(q)
          BY <2>1, <4>1 DEF Safe, CandInv
        <5> QED
          BY <3>2, <3>3, <5>1, <5>2 DEF Backed
      <4> HIDE DEF file
      <4> QED
        BY <2>1, <3>1, <4>1 DEF CandInv, Backed
    <3>9. DetailInv'
      <4>1. \A q \in tx.dets \cup tx.written : Replacing(q)
        BY <2>1 DEF Safe, DetailInv
      <4>2. \A q \in tx'.dets \cup tx'.written : q \in tx.dets \cup tx.written
        BY <2>1, <3>1
      <4> QED
        BY <2>1, <3>1, <4>1, <4>2 DEF DetailInv, Replacing
    <3> QED
      BY <3>4, <3>5, <3>6, <3>7, <3>8, <3>9 DEF Safe
  <2>3. CASE Throw /\ UNCHANGED files
    BY <2>1, <2>3, ThrowSafe DEF Safe, NeverDangles
  <2>4. CASE Fault("late")
    BY <2>4, LateIsCounted
  <2> QED
    BY <1>2, <2>2, <2>3, <2>4 DEF LinkDetail
<1>3. CASE DropOld(r)
  <2>1. /\ tx.pc = "drop" /\ tx.op # "insert" /\ tx.op # "none" /\ r \in tx.written
        /\ UNCHANGED <<manifest, place, minted>>
    BY <1>3, WorkingStages DEF DropOld, At, Commits
  <2>2. CASE Throw /\ UNCHANGED files
    BY <2>1, <2>2, ThrowSafe DEF Safe, NeverDangles
  <2>3. CASE /\ tx' = [tx EXCEPT !.written = @ \ {r}] /\ UNCHANGED <<proc, cache, victim>>
             /\ files' \in {files, [files EXCEPT ![r] = @ \ {tx.old[r]}]}
    <3>1. /\ tx'.op = tx.op /\ tx'.pc = "drop" /\ tx'.old = tx.old /\ tx'.written = tx.written \ {r}
      BY <2>1, <2>3 DEF TypeOK, TxType
    <3>2. \A s \in Sessions : r \in Rows(manifest[s]) => manifest[s].heads[r].detail # tx.old[r]
      BY <2>1 DEF Safe, DropInv
    <3>3. /\ \A q \in Runs \ {r} : files'[q] = files[q]
          /\ \A d \in files[r] : d # tx.old[r] => d \in files'[r]
      BY <2>3 DEF TypeOK
    <3>4. NeverDangles'
      BY <2>1, <3>2, <3>3, RowsAre DEF Safe, NeverDangles
    <3>5. OneHome' /\ DetailBound'
      BY <2>1 DEF Safe, OneHome, DetailBound
    <3>6. CacheInv'
      BY <2>1, <2>3, <3>1 DEF Safe, CacheInv, Loaded
    <3>7. InsertInv' /\ CandInv' /\ DetailInv'
      BY <2>1, <3>1 DEF InsertInv, CandInv, DetailInv
    <3>8. DropInv'
      BY <2>1, <3>1 DEF Safe, DropInv
    <3> QED
      BY <3>4, <3>5, <3>6, <3>7, <3>8 DEF Safe
  <2> QED
    BY <1>3, <2>2, <2>3 DEF DropOld
<1> QED
  BY <1>1, <1>2, <1>3

(* The victim's manifest is replaced by one without it. *)
LEMMA VictimSafe ==
  ASSUME TypeOK, TxShape, Safe, NEW s \in Sessions, victim # NoRun, Holds(s, victim),
         manifest' = [manifest EXCEPT ![s] = Without(cache[s], victim)],
         cache' = [cache EXCEPT ![s] = Without(cache[s], victim)],
         tx' = [tx EXCEPT !.cand = IF s = tx.s THEN Without(@, victim) ELSE @],
         UNCHANGED <<proc, victim, minted, place, files>>
  PROVE  Safe'
<1>1. tx.op # "none" /\ tx.pc \in {"evict", "preflight", "fit", "enforce"}
  BY DEF TxShape, Idle
<1>2. cache = manifest /\ cache' = manifest'
  BY <1>1, CacheIsDisk DEF Safe
<1>3. /\ Rows(manifest'[s]) = Rows(manifest[s]) \ {victim}
      /\ \A q \in Runs \ {victim} : manifest'[s].heads[q] = manifest[s].heads[q]
      /\ \A t \in Sessions \ {s} : manifest'[t] = manifest[t]
  BY <1>2, WithoutRows DEF TypeOK
<1>4. \A t \in Sessions : /\ Rows(manifest'[t]) \subseteq Rows(manifest[t])
                         /\ \A q \in Rows(manifest'[t]) : manifest'[t].heads[q] = manifest[t].heads[q]
  BY <1>3, RowsAre
<1>5. /\ tx'.op = tx.op /\ tx'.pc = tx.pc /\ tx'.s = tx.s /\ tx'.r = tx.r /\ tx'.dets = tx.dets
      /\ tx'.written = tx.written /\ tx'.old = tx.old
      /\ tx'.cand = (IF s = tx.s THEN Without(tx.cand, victim) ELSE tx.cand)
  BY DEF TypeOK, TxType
<1>6. /\ Rows(Without(tx.cand, victim)) = Rows(tx.cand) \ {victim}
      /\ \A q \in Runs \ {victim} : Without(tx.cand, victim).heads[q] = tx.cand.heads[q]
  BY WithoutRows DEF TypeOK, TxType
<1>7. OneHome' /\ DetailBound' /\ NeverDangles'
  <2>1. OneHome'
    BY <1>4 DEF Safe, OneHome
  <2>2. DetailBound'
    BY <1>4 DEF Safe, DetailBound
  <2>3. NeverDangles'
    BY <1>4 DEF Safe, NeverDangles
  <2> QED
    BY <2>1, <2>2, <2>3
<1>8. CacheInv'
  BY <1>2 DEF CacheInv
<1>9. InsertInv'
  BY <1>1, <1>4, <1>5 DEF Safe, InsertInv
<1>10. CandInv'
  <2> SUFFICES ASSUME tx.pc = "preflight", NEW q \in Rows(tx'.cand)
               PROVE  /\ tx'.cand.heads[q].detail <= minted[q]
                      /\ \/ tx.op = "insert" /\ q = tx.r
                         \/ /\ q \in Rows(manifest'[tx.s])
                            /\ \/ q \in tx.dets
                               \/ q \in tx.written /\ tx'.cand.heads[q].detail \in files[q]
                               \/ tx'.cand.heads[q].detail = manifest'[tx.s].heads[q].detail
    BY <1>1, <1>5 DEF CandInv, Backed
  <2>1. q \in Runs /\ q \in Rows(tx.cand) /\ tx'.cand.heads[q] = tx.cand.heads[q]
        /\ (s = tx.s => q # victim)
    BY <1>5, <1>6, RowsAre
  <2>2. /\ tx.cand.heads[q].detail <= minted[q]
        /\ \/ tx.op = "insert" /\ q = tx.r
           \/ q \in Rows(manifest[tx.s]) /\ Backed(q)
    BY <2>1 DEF Safe, CandInv
  <2>3. /\ tx.s \in Sessions
        /\ q \in Rows(manifest[tx.s]) =>
              q \in Rows(manifest'[tx.s]) /\ manifest'[tx.s].heads[q] = manifest[tx.s].heads[q]
    BY <1>3, <2>1 DEF TxShape, TypeOK, TxType, Stages, Commits, CommitStages
  <2> QED
    BY <2>1, <2>2, <2>3 DEF Backed
<1>11. DetailInv'
  <2> SUFFICES ASSUME tx.pc = "preflight", NEW q \in tx.dets \cup tx.written
               PROVE  Replacing(q)'
    BY <1>1, <1>5 DEF DetailInv
  <2>1. Replacing(q) /\ q \in Runs /\ tx.s \in Sessions
    BY DEF Safe, DetailInv, TypeOK, TxType, TxShape, Stages, Commits, CommitStages
  <2>2. q \in Rows(manifest'[tx.s]) => tx'.cand.heads[q] = tx.cand.heads[q]
    BY <1>3, <1>5, <1>6, <2>1
  <2> QED
    BY <1>4, <1>5, <2>1, <2>2 DEF Replacing
<1>12. DropInv'
  BY <1>1, <1>5 DEF Safe, DropInv
<1> QED
  BY <1>7, <1>8, <1>9, <1>10, <1>11, <1>12 DEF Safe

(* The transaction's candidate replaces the manifest. *)
LEMMA CandidateSafe ==
  ASSUME TypeOK, TxShape, Safe, tx.s \in Sessions, tx.pc = "persist", victim = NoRun,
         manifest' = [manifest EXCEPT ![tx.s] = tx.cand],
         cache' = [cache EXCEPT ![tx.s] = tx.cand],
         UNCHANGED <<proc, victim, minted, place, files>>,
         IF tx.op = "insert" THEN tx' = Idle ELSE Goto("drop")
  PROVE  Safe'
<1>1. tx.op # "none"
  BY DEF TxShape, Idle
<1>2. cache = manifest /\ cache' = manifest'
  BY <1>1, CacheIsDisk DEF Safe
<1>3. manifest'[tx.s] = tx.cand /\ \A t \in Sessions \ {tx.s} : manifest'[t] = manifest[t]
  BY DEF TypeOK
<1>4. ASSUME NEW q \in Rows(tx.cand)
      PROVE  /\ tx.cand.heads[q].detail <= minted[q]
             /\ \A t \in Sessions \ {tx.s} : q \notin Rows(manifest[t])
             /\ place[q] = "runs" /\ tx.cand.heads[q].detail \in files[q]
  <2>1. /\ tx.dets = {} /\ tx.cand.heads[q].detail <= minted[q]
        /\ \/ tx.op = "insert" /\ q = tx.r
           \/ q \in Rows(manifest[tx.s]) /\ Backed(q)
    BY <1>4 DEF Safe, CandInv
  <2>2. CASE tx.op = "insert" /\ q = tx.r
    BY <2>1, <2>2 DEF Safe, InsertInv
  <2>3. CASE q \in Rows(manifest[tx.s]) /\ Backed(q)
    BY <2>1, <2>3 DEF Safe, OneHome, NeverDangles, Backed
  <2> QED
    BY <2>1, <2>2, <2>3
<1>5. OneHome' /\ DetailBound' /\ NeverDangles'
  <2>1. OneHome'
    BY <1>3, <1>4 DEF Safe, OneHome
  <2>2. DetailBound'
    BY <1>3, <1>4 DEF Safe, DetailBound
  <2>3. NeverDangles'
    BY <1>3, <1>4 DEF Safe, NeverDangles
  <2> QED
    BY <2>1, <2>2, <2>3
<1>6. CacheInv'
  BY <1>2 DEF CacheInv
<1>7. CASE tx.op = "insert"
  BY <1>5, <1>6, <1>7 DEF Safe, Idle, InsertInv, CandInv, DetailInv, DropInv
<1>8. CASE tx.op # "insert"
  <2>1. /\ tx'.op = tx.op /\ tx'.pc = "drop" /\ tx'.written = tx.written /\ tx'.old = tx.old
    BY <1>8 DEF Goto, TypeOK, TxType
  <2>2. ASSUME NEW q \in tx.written, NEW t \in Sessions, q \in Rows(manifest'[t])
        PROVE  manifest'[t].heads[q].detail # tx.old[q]
    <3>1. Replacing(q)
      BY DEF Safe, DetailInv
    <3>2. t = tx.s /\ q \in Rows(tx.cand)
      BY <1>3, <2>2, <3>1 DEF Replacing
    <3>3. q \in Rows(manifest[tx.s])
      BY <1>8, <3>2 DEF Safe, CandInv
    <3> QED
      BY <1>3, <3>1, <3>2, <3>3 DEF Replacing
  <2>3. DropInv'
    BY <2>1, <2>2 DEF DropInv
  <2> QED
    BY <1>5, <1>6, <1>8, <2>1, <2>3 DEF Safe, InsertInv, CandInv, DetailInv
<1> QED
  BY <1>7, <1>8

LEMMA ManifestSafe ==
  ASSUME TypeOK, TxShape, Safe, faults'["late"] = 0,
         NEW s \in Sessions, WriteManifest(s) \/ ReplaceManifest(s)
  PROVE  Safe'
<1>1. CASE WriteManifest(s)
  <2>1. UNCHANGED <<manifest, cache, proc, tx, minted, victim, place, files>>
    BY <1>1 DEF WriteManifest, memory, ghosts
  <2> QED
    BY <2>1, FileFrame DEF Safe, InsertInv, NeverDangles
<1>2. CASE ReplaceManifest(s)
  <2>1. UNCHANGED <<place, files, minted>> /\ Persisting(s)
    BY <1>2 DEF ReplaceManifest
  <2>2. tx.op # "none"
    BY <2>1 DEF Persisting, At, TxShape, Idle
  <2>3. CASE /\ manifest' = [manifest EXCEPT ![s] = NewManifest(s)]
             /\ cache' = [cache EXCEPT ![s] = NewManifest(s)]
             /\ Persisted(s)
    <3>1. CASE victim # NoRun
      <4>1. Holds(s, victim)
        BY <2>1, <3>1 DEF Persisting, At
      <4> QED
        BY <2>1, <2>3, <3>1, <4>1, VictimSafe DEF NewManifest, Persisted
    <3>2. CASE victim = NoRun
      <4>1. s = tx.s /\ tx.pc = "persist"
        BY <2>1, <3>2 DEF Persisting, At
      <4>2. IF tx.op = "insert" THEN tx' = Idle ELSE Goto("drop")
        BY <2>3, <3>2 DEF Persisted
      <4>3. UNCHANGED <<proc, victim>>
        BY <2>3 DEF Persisted
      <4> QED
        BY <2>1, <2>3, <3>2, <4>1, <4>2, <4>3, CandidateSafe DEF NewManifest
    <3> QED
      BY <3>1, <3>2
  <2>4. CASE Throw /\ UNCHANGED manifest
    BY <2>1, <2>2, <2>4, ThrowSafe DEF Safe, NeverDangles
  <2>5. CASE Fault("late")
    BY <2>5, LateIsCounted
  <2> QED
    BY <1>2, <2>3, <2>4, <2>5 DEF ReplaceManifest
<1> QED
  BY <1>1, <1>2

LEMMA CommitSafe ==
  ASSUME TypeOK, TxShape, Safe, Dropped \/ Committed \/ Undo
  PROVE  Safe'
<1>1. CASE Dropped
  <2>1. /\ tx.pc = "drop" /\ tx.op # "none" /\ tx.op # "insert" /\ tx.written = {}
        /\ UNCHANGED <<manifest, minted, place, files, proc, cache>>
    BY <1>1, WorkingStages DEF Dropped, At, disk, ghosts, Commits
  <2>2. /\ tx'.op = tx.op /\ tx'.pc \in {"plan", "enforce"} /\ tx'.written = {}
    BY <1>1, <2>1 DEF Dropped, Goto, TypeOK, TxType
  <2>3. CacheInv'
    BY <2>1, <2>2 DEF Safe, CacheInv, Loaded
  <2> QED
    BY <2>1, <2>2, <2>3, QuietFrame DEF Safe, NeverDangles
<1>2. CASE Committed
  <2>1. /\ tx' = Idle /\ UNCHANGED <<manifest, minted, place, files, proc, cache>>
        /\ tx.op # "boot"
    BY <1>2 DEF Committed, At, disk, ghosts
  <2>2. CacheInv'
    BY <2>1 DEF Safe, CacheInv, Loaded, TxShape
  <2> QED
    BY <2>1, <2>2, QuietFrame DEF Safe, NeverDangles, Idle
<1>3. CASE Undo
  <2>1. /\ tx' = Idle /\ UNCHANGED <<manifest, minted, place, proc, cache>>
        /\ tx.pc = "undo" /\ tx.op # "boot"
    BY <1>3 DEF Undo, At, TxShape, TypeOK, TxType, Stages, Commits
  <2>2. CacheInv'
    BY <2>1 DEF Safe, CacheInv, Loaded, TxShape
  <2>3. ASSUME NEW s \in Sessions, NEW q \in Rows(manifest[s])
        PROVE  manifest[s].heads[q].detail \in files'[q]
    <3>1. q \in Runs /\ manifest[s].heads[q].detail \in files[q]
      BY <2>3 DEF Safe, NeverDangles, Rows
    <3>2. CASE q \in tx.written
      <4>1. Replacing(q)
        BY <2>1, <3>2 DEF Safe, DetailInv
      <4>2. manifest[s].heads[q].detail # tx.cand.heads[q].detail
        BY <2>3, <4>1 DEF Replacing
      <4> QED
        BY <1>3, <3>1, <4>2 DEF Undo, TypeOK
    <3>3. CASE q \notin tx.written
      BY <1>3, <3>1, <3>3 DEF Undo, TypeOK
    <3> QED
      BY <3>2, <3>3
  <2>4. NeverDangles'
    BY <2>1, <2>3 DEF Safe, NeverDangles
  <2> QED
    BY <2>1, <2>2, <2>4, QuietFrame DEF Idle
<1> QED
  BY <1>1, <1>2, <1>3
-----------------------------------------------------------------------------
(* The boot, and the death of the process. *)

(* What a recovery makes of a row is a row of the same run, with the details
   it issues for an active one. *)
LEMMA RecoveredRows ==
  ASSUME NEW m \in ManifestType, NEW q \in Runs
  PROVE  /\ (q \in Rows(RecoveredManifest(m)) <=> q \in Rows(m))
         /\ RecoveredManifest(m).heads[q].detail =
              IF m.heads[q].status = "active" THEN minted[q] + 1 ELSE m.heads[q].detail
<1>1. RecoveredManifest(m).heads[q] = Recovered(m.heads[q], minted[q] + 1)
  BY DEF RecoveredManifest, ManifestType
<1>2. m.heads[q] \in RowType
  BY DEF ManifestType
<1> DEFINE row == m.heads[q]
           d   == minted[q] + 1
<1>3. CASE row.status = "active"
  <2>1. Recovered(row, d) = Interrupted(row, d)
    BY <1>3 DEF Recovered
  <2>2. Interrupted(row, d).status = "terminal" /\ Interrupted(row, d).detail = d
    BY <1>2 DEF Interrupted, Updated, RowType
  <2> QED
    BY <1>1, <1>3, <2>1, <2>2, RowsAre
<1>4. CASE row.status # "active" /\ row.notice = "claimed"
  <2>1. Recovered(row, d) = Finalized(row, "abandoned")
    BY <1>4 DEF Recovered
  <2>2. Finalized(row, "abandoned").status = row.status /\ Finalized(row, "abandoned").detail = row.detail
    BY <1>2 DEF Finalized, RowType
  <2> QED
    BY <1>1, <1>4, <2>1, <2>2, RowsAre
<1>5. CASE row.status # "active" /\ row.notice # "claimed"
  <2>1. Recovered(row, d) = row
    BY <1>5 DEF Recovered
  <2> QED
    BY <1>1, <1>5, <2>1, RowsAre
<1> QED
  BY <1>3, <1>4, <1>5

LEMMA PlanSafe ==
  ASSUME TypeOK, TxShape, Safe, NEW s \in Sessions, Plan(s)
  PROVE  Safe'
<1> DEFINE active == {q \in Rows(cache[s]) : cache[s].heads[q].status = "active"}
           cand   == RecoveredManifest(cache[s])
           old    == [q \in Runs |-> cache[s].heads[q].detail]
           pc     == IF active # {} THEN "detail" ELSE IF cand # cache[s] THEN "persist" ELSE "plan"
<1>1. /\ tx' = [tx EXCEPT !.s = s, !.cand = cand, !.dets = active, !.todo = @ \ {s},
                          !.old = old, !.pc = pc]
      /\ minted' = [q \in Runs |-> minted[q] + (IF q \in active THEN 1 ELSE 0)]
      /\ tx.pc = "plan" /\ UNCHANGED <<manifest, place, files, proc, cache, victim>>
  BY DEF Plan, At, disk
<1>2. tx.op = "boot" /\ proc = "boot" /\ tx.written = {}
  BY <1>1 DEF Safe, DropInv, TxShape, TypeOK, TxType, Stages, Commits, CommitStages
<1>3. cache = manifest
  BY <1>1, <1>2, CacheIsDisk DEF Safe
<1>4. /\ pc \in {"detail", "persist", "plan"} /\ pc = "persist" => active = {}
  OBVIOUS
<1>5. \A q \in active : q \in Rows(manifest[s]) /\ q \in Runs
  BY <1>3 DEF Rows
<1>6. \A q \in Runs : q \in Rows(cand) =>
        /\ q \in Rows(manifest[s])
        /\ cand.heads[q].detail = IF q \in active THEN minted[q] + 1 ELSE manifest[s].heads[q].detail
  BY <1>3, RecoveredRows, RowsAre DEF TypeOK
<1>7. \A q \in Runs : old[q] = manifest[s].heads[q].detail
  BY <1>3
<1> HIDE DEF active, cand, old, pc
<1>8. /\ tx'.op = "boot" /\ tx'.pc = pc /\ tx'.s = s /\ tx'.dets = active /\ tx'.written = {}
      /\ tx'.cand = cand /\ tx'.old = old
  BY <1>1, <1>2 DEF TypeOK, TxType
<1>9. \A q \in Runs : /\ minted[q] \in Nat /\ minted'[q] = minted[q] + (IF q \in active THEN 1 ELSE 0)
                     /\ minted'[q] \in Nat /\ minted'[q] >= minted[q]
  BY <1>1 DEF TypeOK
<1>10. \A q \in Rows(manifest[s]) : /\ q \in Runs /\ manifest[s].heads[q].detail \in Nat
                                  /\ manifest[s].heads[q].detail <= minted[q]
  BY DEF Safe, DetailBound, Rows, TypeOK, ManifestType, RowType
<1>11. OneHome' /\ DetailBound' /\ NeverDangles' /\ CacheInv'
  BY <1>1, <1>3, <1>9, ManifestsKept DEF Safe, NeverDangles, CacheInv
<1>12. InsertInv' /\ DropInv'
  BY <1>4, <1>8 DEF InsertInv, DropInv
<1>13. CandInv'
  <2>1. ASSUME NEW q \in Rows(cand)
        PROVE  /\ cand.heads[q].detail <= minted'[q] /\ q \in Rows(manifest[s])
               /\ q \in active \/ cand.heads[q].detail = manifest[s].heads[q].detail
    <3>1. q \in Runs
      BY <2>1 DEF Rows
    <3> QED
      BY <1>6, <1>9, <1>10, <2>1, <3>1
  <2> QED
    BY <1>1, <1>4, <1>8, <2>1 DEF CandInv, Backed
<1>14. DetailInv'
  <2>1. ASSUME NEW q \in active
        PROVE  /\ \A t \in Sessions \ {s} : q \notin Rows(manifest[t])
               /\ manifest[s].heads[q].detail = old[q] /\ cand.heads[q].detail # old[q]
    <3>1. q \in Rows(cand)
      BY <1>3, <1>5, RecoveredRows DEF cand, TypeOK
    <3> QED
      BY <1>5, <1>6, <1>7, <1>9, <1>10, <3>1 DEF Safe, OneHome
  <2>2. manifest' = manifest
    BY <1>1
  <2> QED
    BY <1>8, <2>1, <2>2 DEF DetailInv, Replacing
<1> QED
  BY <1>11, <1>12, <1>13, <1>14 DEF Safe

LEMMA BootSafe ==
  ASSUME TypeOK, TxShape, Safe,
         \/ Boot \/ ValidateRecoveryInventory \/ Reconciled \/ Fitted \/ Planned \/ Booted
         \/ \E r \in Runs : ReconcileRecoveryResidue(r) \/ ReconcileFails(r)
         \/ \E s \in Sessions : Plan(s)
  PROVE  Safe'
<1>0. tx.pc \in {"validate", "reconcile", "fit", "plan"} =>
        tx.op = "boot" /\ proc = "boot" /\ tx.written = {}
  BY DEF TypeOK, TxType, TxShape, Stages, Commits, CommitStages, Safe, DropInv
<1>1. CASE Boot
  <2>1. /\ tx' = [Idle EXCEPT !.op = "boot", !.pc = "validate"] /\ proc' = "boot"
        /\ UNCHANGED <<manifest, minted, place, files>>
    BY <1>1 DEF Boot, disk, ghosts
  <2>2. CacheInv'
    BY <2>1 DEF CacheInv, Loaded, Idle
  <2> QED
    BY <2>1, <2>2, QuietFrame DEF Safe, NeverDangles, Idle
<1>2. CASE ValidateRecoveryInventory
  <2>1. tx.pc = "validate" /\ UNCHANGED <<manifest, minted, place, files>>
    BY <1>2 DEF ValidateRecoveryInventory, At, disk
  <2>2. CASE Sound
    <3>1. /\ tx'.op = "boot" /\ tx'.pc = "reconcile" /\ tx'.written = {} /\ proc' = "boot"
      BY <1>0, <1>2, <2>1, <2>2 DEF ValidateRecoveryInventory, Goto, TypeOK, TxType
    <3>2. CacheInv'
      BY <3>1 DEF CacheInv, Loaded
    <3> QED
      BY <2>1, <3>1, <3>2, QuietFrame DEF Safe, NeverDangles
  <2>3. CASE ~Sound
    <3>1. Throw /\ tx.op # "none"
      BY <1>0, <1>2, <2>1, <2>3 DEF ValidateRecoveryInventory
    <3> QED
      BY <2>1, <3>1, ThrowSafe DEF Safe, NeverDangles
  <2> QED
    BY <2>2, <2>3
<1>3. ASSUME NEW r \in Runs, ReconcileRecoveryResidue(r)
      PROVE  Safe'
  <2>1. /\ tx.pc = "reconcile" /\ UNCHANGED <<manifest, cache, proc, tx, minted, victim>>
    BY <1>3 DEF ReconcileRecoveryResidue, At, memory, ghosts
  <2>2. CASE /\ Residue(r) /\ place' = [place EXCEPT ![r] = "quarantine"] /\ UNCHANGED files
    <3>1. \A s \in Sessions : r \notin Rows(manifest[s])
      BY <2>2 DEF Residue, Referenced, Safe, NeverDangles
    <3> QED
      BY <2>1, <2>2, <3>1, UnnamedGoes, FileFrame DEF Safe, InsertInv
  <2>3. CASE DeleteTree(r)
    <3>1. \A s \in Sessions : r \notin Rows(manifest[s])
      BY <2>3 DEF DeleteTree, Safe, NeverDangles
    <3>2. /\ place' = [place EXCEPT ![r] = "none"] /\ \A q \in Runs \ {r} : files'[q] = files[q]
      BY <2>3 DEF DeleteTree, TypeOK
    <3>3. NeverDangles'
      BY <2>1, <3>1, <3>2, UnnamedGoes DEF Safe
    <3> QED
      BY <2>1, <3>3, FileFrame DEF Safe, InsertInv
  <2>4. ASSUME NEW d \in OldDetails(r), files' = [files EXCEPT ![r] = @ \ {d}], UNCHANGED place
        PROVE  Safe'
    <3>1. \A s \in Sessions : r \in Rows(manifest[s]) => manifest[s].heads[r].detail # d
      BY <2>4 DEF OldDetails, ReferencedDetail
    <3>2. /\ \A q \in Runs \ {r} : files'[q] = files[q]
          /\ \A e \in files[r] : e # d => e \in files'[r]
      BY <2>4 DEF TypeOK
    <3>3. NeverDangles'
      BY <2>1, <2>4, <3>1, <3>2, RowsAre DEF Safe, NeverDangles
    <3> QED
      BY <2>1, <3>3, FileFrame DEF Safe, InsertInv
  <2> QED
    BY <1>3, <2>2, <2>3, <2>4 DEF ReconcileRecoveryResidue
<1>4. ASSUME NEW r \in Runs, ReconcileFails(r)
      PROVE  Safe'
  <2>1. tx.op # "none" /\ UNCHANGED <<manifest, minted, place, files>> /\ Throw
    BY <1>0, <1>4 DEF ReconcileFails, At, disk
  <2> QED
    BY <2>1, ThrowSafe DEF Safe, NeverDangles
<1>5. CASE Reconciled
  <2>1. /\ tx.pc = "reconcile" /\ cache' = manifest /\ UNCHANGED <<manifest, minted, place, files>>
    BY <1>5 DEF Reconciled, At, disk, ghosts
  <2>2. tx'.op = "boot" /\ tx'.pc = "fit" /\ tx'.written = {}
    BY <1>0, <1>5, <2>1 DEF Reconciled, TypeOK, TxType
  <2>3. CacheInv'
    BY <2>1 DEF CacheInv
  <2> QED
    BY <2>1, <2>2, <2>3, QuietFrame DEF Safe, NeverDangles
<1>6. CASE Fitted \/ Planned
  <2>1. /\ tx.pc \in {"fit", "plan"} /\ UNCHANGED <<manifest, minted, place, files, proc, cache>>
    BY <1>6 DEF Fitted, Planned, At, disk, ghosts
  <2>2. tx'.op = "boot" /\ tx'.pc \in {"plan", "enforce"} /\ tx'.written = {}
    BY <1>0, <1>6, <2>1 DEF Fitted, Planned, Goto, TypeOK, TxType
  <2>3. CacheInv'
    BY <1>0, <2>1 DEF Safe, CacheInv, Loaded
  <2> QED
    BY <2>1, <2>2, <2>3, QuietFrame DEF Safe, NeverDangles
<1>7. ASSUME NEW s \in Sessions, Plan(s)
      PROVE  Safe'
  BY <1>7, PlanSafe
<1>8. CASE Booted
  <2>1. /\ tx.op = "boot" /\ tx.pc = "enforce" /\ tx' = Idle
        /\ UNCHANGED <<manifest, minted, place, files, cache>>
    BY <1>8 DEF Booted, At, disk, ghosts
  <2>2. CacheInv'
    BY <2>1, CacheIsDisk DEF Safe, CacheInv
  <2> QED
    BY <2>1, <2>2, QuietFrame DEF Safe, NeverDangles, Idle
<1> QED
  BY <1>1, <1>2, <1>3, <1>4, <1>5, <1>6, <1>7, <1>8

LEMMA CrashSafe ==
  ASSUME TypeOK, Safe, Crash
  PROVE  Safe'
<1>1. proc' = "down" /\ tx' = Idle /\ UNCHANGED <<manifest, minted, place, files>>
  BY DEF Crash, disk
<1>2. CacheInv'
  BY <1>1 DEF CacheInv, Loaded
<1> QED
  BY <1>1, <1>2, QuietFrame DEF Safe, NeverDangles, Idle
-----------------------------------------------------------------------------
(* The invariant. *)

LEMMA FaultMoves ==
  ASSUME [Next]_vars
  PROVE  UNCHANGED faults \/ \E f \in {"early", "late", "remove"} : Fault(f)
<1>1. CASE Call
  <2>1. ASSUME NEW op, NEW s, NEW r, NEW row, NEW new, BeginCommit(op, s, r, row, new)
        PROVE  UNCHANGED faults
    BY <2>1 DEF BeginCommit
  <2>2. ASSUME NEW r, Enqueue(r) \/ ScratchWrite(r)
        PROVE  UNCHANGED faults
    BY <2>2 DEF Enqueue, ScratchWrite, ghosts
  <2>3. ASSUME NEW s, NEW r, InsertWithNextDisplayName(s, r)
        PROVE  UNCHANGED faults
    BY <2>3 DEF InsertWithNextDisplayName, ghosts
  <2>4. ASSUME NEW s, NEW r, NEW new, CommitRun(s, r, new)
        PROVE  UNCHANGED faults
    BY <2>1, <2>4 DEF CommitRun
  <2>5. ASSUME NEW s, NEW r, CommitTerminalAndClaimNotice(s, r) \/ FinalizeCompletionNotice(s, r)
        PROVE  UNCHANGED faults
    BY <2>1, <2>5 DEF CommitTerminalAndClaimNotice, FinalizeCompletionNotice
  <2> QED
    BY <1>1, <2>2, <2>3, <2>4, <2>5 DEF Call
<1>2. CASE \/ \E r \in Runs : ChooseVictim(r) \/ Quarantine(r) \/ Remove(r)
           \/ NoRoom \/ CountFails \/ Evicted \/ RemoveFails
  BY <1>2 DEF ChooseVictim, Quarantine, Remove, NoRoom, CountFails, Evicted, RemoveFails, ghosts
<1>3. CASE \/ ValidateRecoveryInventory \/ Reconciled \/ Fitted \/ Planned \/ Booted \/ Boot \/ Crash
           \/ \E r \in Runs : ReconcileRecoveryResidue(r) \/ ReconcileFails(r)
           \/ \E s \in Sessions : Plan(s)
  BY <1>3 DEF ValidateRecoveryInventory, Reconciled, Fitted, Planned, Booted, Boot, Crash,
              ReconcileRecoveryResidue, ReconcileFails, Plan, ghosts
<1>4. CASE \E r \in Runs : WriteDetail(r) \/ LinkDetail(r) \/ DropOld(r)
  BY <1>4 DEF WriteDetail, LinkDetail, DropOld, ghosts
<1>5. CASE \E s \in Sessions : WriteManifest(s) \/ ReplaceManifest(s)
  BY <1>5 DEF WriteManifest, ReplaceManifest, ghosts
<1>6. CASE Retained \/ Fits \/ Stage \/ Staged \/ StageFails \/ PublishDirectory
  BY <1>6 DEF Retained, Fits, Stage, Staged, StageFails, PublishDirectory, ghosts
<1>7. CASE Dropped \/ Committed \/ Undo
  BY <1>7 DEF Dropped, Committed, Undo, ghosts
<1>8. CASE ScratchStep
  BY <1>8 DEF ScratchStep, ScratchWritten, ghosts
<1>9. CASE UNCHANGED vars
  BY <1>9 DEF vars, ghosts
<1>10. CASE Step
  BY <1>2, <1>3, <1>4, <1>5, <1>6, <1>7, <1>10, Zenon DEF Step
<1> QED
  BY <1>1, <1>3, <1>8, <1>9, <1>10 DEF Next

LEMMA LateStep ==
  ASSUME TypeOK, [Next]_vars, faults'["late"] = 0
  PROVE  faults["late"] = 0
BY FaultMoves, LateIsCounted

LEMMA SafeStep ==
  ASSUME TypeOK, TxShape, StoreInv, [Next]_vars
  PROVE  StoreInv'
<1> SUFFICES ASSUME faults'["late"] = 0
             PROVE  Safe'
  BY DEF StoreInv
<1>0. Safe
  BY LateStep DEF StoreInv
<1>1. CASE Call
  BY <1>0, <1>1, CallSafe
<1>2. CASE Step
  <2>1. CASE \/ \E r \in Runs : ChooseVictim(r) \/ Quarantine(r) \/ Remove(r)
             \/ NoRoom \/ CountFails \/ Evicted \/ RemoveFails
    BY <1>0, <2>1, EvictionSafe
  <2>2. CASE \/ ValidateRecoveryInventory \/ Reconciled \/ Fitted \/ Planned \/ Booted
             \/ \E r \in Runs : ReconcileRecoveryResidue(r) \/ ReconcileFails(r)
             \/ \E s \in Sessions : Plan(s)
    BY <1>0, <2>2, BootSafe
  <2>3. CASE \E r \in Runs : WriteDetail(r) \/ LinkDetail(r) \/ DropOld(r)
    BY <1>0, <2>3, DetailSafe
  <2>4. CASE \E s \in Sessions : WriteManifest(s) \/ ReplaceManifest(s)
    BY <1>0, <2>4, ManifestSafe
  <2>5. CASE Retained \/ Fits \/ Stage \/ Staged \/ StageFails \/ PublishDirectory
    BY <1>0, <2>5, InsertSafe
  <2>6. CASE Dropped \/ Committed \/ Undo
    BY <1>0, <2>6, CommitSafe
  <2> QED
    BY <1>2, <2>1, <2>2, <2>3, <2>4, <2>5, <2>6, Zenon DEF Step
<1>3. CASE ScratchStep \/ UNCHANGED vars
  <2>1. UNCHANGED <<manifest, cache, proc, tx, minted, victim, place, files>>
    BY <1>3 DEF ScratchStep, ScratchWritten, vars, disk, memory, ghosts
  <2> QED
    BY <1>0, <2>1, FileFrame DEF Safe, InsertInv, NeverDangles
<1>4. CASE Boot
  BY <1>0, <1>4, BootSafe
<1>5. CASE Crash
  BY <1>0, <1>5, CrashSafe
<1> QED
  BY <1>1, <1>2, <1>3, <1>4, <1>5 DEF Next

LEMMA SafeInit == Init => StoreInv
<1> SUFFICES ASSUME Init PROVE Safe
  BY DEF StoreInv
<1>1. \A s \in Sessions : Rows(manifest[s]) = {}
  BY DEF Init, Rows, Empty, NoRow
<1>2. OneHome /\ DetailBound /\ NeverDangles
  BY <1>1 DEF OneHome, DetailBound, NeverDangles
<1>3. CacheInv /\ InsertInv /\ CandInv /\ DetailInv /\ DropInv
  BY DEF Init, Idle, CacheInv, Loaded, InsertInv, CandInv, DetailInv, DropInv
<1> QED
  BY <1>2, <1>3 DEF Safe

(* A manifest on disk never names a deleted directory or details file, at any
   moment of any transaction, eviction or recovery, whatever else fails and
   whenever the process dies, as long as no step threw after its effect
   (commitRun, insertWithNextDisplayName, reconcileRecoveryResidue). *)
THEOREM HeadsAreBacked == Spec => []NoDanglingHead
<1>1. TypeOK /\ TxShape /\ StoreInv /\ [Next]_vars => StoreInv'
  BY SafeStep
<1>2. StoreInv => NoDanglingHead
  BY DEF StoreInv, Safe, NoDanglingHead
<1>3. Init => StoreInv
  BY SafeInit
<1> QED
  BY <1>1, <1>2, <1>3, TypeCorrect, PTL DEF Spec
-----------------------------------------------------------------------------
(* Ordinals are never handed out twice: NamesInv. *)
Preparing == {"preflight", "stage", "publish", "detail", "persist"}

(* Every ordinal handed out is below the next one, on disk and in a cache
   that was read; the candidate goes on from the cache; and the run being
   inserted is in no cache, so no eviction takes it. *)
BelowNext ==
  \A a \in admitted : a[2] < manifest[a[1]].next /\ (Loaded => a[2] < cache[a[1]].next)
Unlisted ==
  tx.op = "insert" => victim # tx.r /\ \A s \in Sessions : tx.r \notin Rows(cache[s])
CandidateNext ==
  tx.pc \in Preparing =>
    IF tx.op = "insert"
    THEN tx.cand.heads[tx.r].ordinal = cache[tx.s].next /\ tx.cand.next = cache[tx.s].next + 1
    ELSE tx.cand.next = cache[tx.s].next
NamesInv == BelowNext /\ Unlisted /\ CandidateNext /\ NameNeverReused
-----------------------------------------------------------------------------
LEMMA AdmittedType ==
  ASSUME TypeOK, NEW a \in admitted
  PROVE  /\ a[1] \in Sessions /\ a[2] \in Nat /\ a[3] \in Runs /\ a = <<a[1], a[2], a[3]>>
         /\ manifest[a[1]].next \in Nat /\ cache[a[1]].next \in Nat
<1>1. a[1] \in Sessions /\ a[2] \in Nat /\ a[3] \in Runs /\ a = <<a[1], a[2], a[3]>>
  BY DEF TypeOK
<1> QED
  BY <1>1 DEF TypeOK, ManifestType

LEMMA OpenNow ==
  ASSUME TypeOK, TxShape, Ready \/ (tx.op # "none" /\ tx.pc \notin {"validate", "reconcile"})
  PROVE  Loaded
BY DEF TypeOK, TxShape, Ready, Loaded

(* The transaction goes on with the same candidate. *)
LEMMA NamesFrame ==
  ASSUME NamesInv, UNCHANGED <<manifest, cache, admitted>>, Loaded' => Loaded,
         tx'.op = tx.op, tx'.s = tx.s, tx'.r = tx.r, tx'.cand = tx.cand,
         tx'.pc \in Preparing => tx.pc \in Preparing,
         tx.op = "insert" => victim' # tx.r
  PROVE  NamesInv'
BY DEF NamesInv, BelowNext, Unlisted, CandidateNext, NameNeverReused

(* There is no candidate any more, or not yet. *)
LEMMA NamesQuiet ==
  ASSUME NamesInv, UNCHANGED <<manifest, admitted>>, tx'.op # "insert", tx'.pc \notin Preparing,
         Loaded' => \/ cache' = manifest
                    \/ Loaded /\ cache' = cache
  PROVE  NamesInv'
BY DEF NamesInv, BelowNext, Unlisted, CandidateNext, NameNeverReused

LEMMA NamesThrow ==
  ASSUME TypeOK, TxShape, NamesInv, tx.op # "none", Throw, UNCHANGED <<manifest, admitted>>
  PROVE  NamesInv'
<1>1. CASE tx.op = "boot"
  BY <1>1, NamesQuiet DEF Throw, Idle, Loaded, Preparing
<1>2. CASE tx.op # "boot" /\ tx' = Idle
  <2>1. UNCHANGED <<proc, cache>> /\ proc = "up"
    BY <1>2 DEF Throw, TxShape, TypeOK
  <2> QED
    BY <1>2, <2>1, NamesQuiet DEF Idle, Loaded, Preparing
<1>3. CASE tx.op # "boot" /\ Goto("undo")
  <2>1. UNCHANGED <<proc, cache>> /\ proc = "up" /\ victim' = NoRun
    BY <1>3 DEF Throw, TxShape, TypeOK
  <2>2. /\ tx'.op = tx.op /\ tx'.s = tx.s /\ tx'.r = tx.r /\ tx'.cand = tx.cand /\ tx'.pc = "undo"
    BY <1>3 DEF Goto, TypeOK, TxType
  <2>3. tx.op = "insert" => victim' # tx.r
    BY <2>1, RunStoreAssumption DEF TxShape
  <2> QED
    BY <2>1, <2>2, <2>3, NamesFrame DEF Loaded, Preparing
<1> QED
  BY <1>1, <1>2, <1>3 DEF Throw

(* What replaces a manifest does not hand out an ordinal again. *)
LEMMA NewManifestNext ==
  ASSUME TypeOK, TxShape, NamesInv, NEW s \in Sessions, Persisting(s)
  PROVE  /\ Loaded /\ tx.op # "none"
         /\ NewManifest(s).next \in Nat /\ cache[s].next \in Nat /\ NewManifest(s).next >= cache[s].next
<1>1. tx.op # "none" /\ tx.pc \in {"evict", "preflight", "fit", "enforce", "persist"}
  BY DEF Persisting, At, TxShape, Idle
<1>2. Loaded
  BY <1>1, OpenNow
<1>3. cache[s].next \in Nat
  BY DEF TypeOK, ManifestType
<1>4. CASE victim # NoRun
  <2>1. NewManifest(s) = Without(cache[s], victim)
    BY <1>4 DEF NewManifest
  <2>2. Without(cache[s], victim).next = cache[s].next
    BY DEF Without, TypeOK, ManifestType
  <2> QED
    BY <1>1, <1>2, <1>3, <2>1, <2>2
<1>5. CASE victim = NoRun
  <2>1. s = tx.s /\ tx.pc = "persist" /\ NewManifest(s) = tx.cand
    BY <1>5 DEF Persisting, At, NewManifest
  <2>2. tx.cand.next = cache[s].next + 1 \/ tx.cand.next = cache[s].next
    BY <2>1 DEF NamesInv, CandidateNext, Preparing
  <2> QED
    BY <1>1, <1>2, <1>3, <2>1, <2>2
<1> QED
  BY <1>1, <1>2, <1>3, <1>4, <1>5

LEMMA NamesReplace ==
  ASSUME TypeOK, TxShape, NamesInv, NEW s \in Sessions, ReplaceManifest(s)
  PROVE  NamesInv'
<1>1. /\ Persisting(s) /\ Loaded /\ tx.op # "none"
      /\ NewManifest(s).next \in Nat /\ cache[s].next \in Nat /\ NewManifest(s).next >= cache[s].next
  BY NewManifestNext DEF ReplaceManifest
<1>2. ASSUME manifest' = [manifest EXCEPT ![s] = NewManifest(s)], NEW a \in admitted
      PROVE  a[2] < manifest'[a[1]].next
  <2>1. CASE a[1] = s
    BY <1>1, <1>2, <2>1, AdmittedType DEF TypeOK, NamesInv, BelowNext
  <2>2. CASE a[1] # s
    BY <1>2, <2>2, AdmittedType DEF TypeOK, NamesInv, BelowNext
  <2> QED
    BY <2>1, <2>2
<1>3. CASE /\ manifest' = [manifest EXCEPT ![s] = NewManifest(s)]
           /\ cache' = [cache EXCEPT ![s] = NewManifest(s)]
           /\ Persisted(s)
  <2>1. ASSUME NEW a \in admitted
        PROVE  a[2] < cache'[a[1]].next
    <3>1. CASE a[1] = s
      BY <1>1, <1>3, <3>1, AdmittedType DEF TypeOK, NamesInv, BelowNext
    <3>2. CASE a[1] # s
      BY <1>1, <1>3, <3>2, AdmittedType DEF TypeOK, NamesInv, BelowNext
    <3> QED
      BY <3>1, <3>2
  <2>2. CASE victim # NoRun
    <3>1. /\ tx' = [tx EXCEPT !.cand = IF s = tx.s THEN Without(@, victim) ELSE @]
          /\ UNCHANGED <<proc, victim, admitted>> /\ NewManifest(s) = Without(cache[s], victim)
      BY <1>3, <2>2 DEF Persisted, NewManifest
    <3>2. /\ tx'.op = tx.op /\ tx'.s = tx.s /\ tx'.r = tx.r /\ tx'.pc = tx.pc
          /\ tx'.cand = (IF s = tx.s THEN Without(tx.cand, victim) ELSE tx.cand)
      BY <3>1 DEF TypeOK, TxType
    <3>3. /\ cache'[s].next = cache[s].next /\ \A t \in Sessions \ {s} : cache'[t] = cache[t]
          /\ \A t \in Sessions : Rows(cache'[t]) \subseteq Rows(cache[t])
      <4>1. cache'[s].next = cache[s].next /\ \A t \in Sessions \ {s} : cache'[t] = cache[t]
        BY <1>3, <3>1 DEF TypeOK, ManifestType, Without
      <4>2. Rows(cache'[s]) \subseteq Rows(cache[s])
        BY <1>3, <3>1 DEF TypeOK, ManifestType, Without, Rows, NoRow
      <4> QED
        BY <4>1, <4>2
    <3>4. BelowNext'
      BY <1>2, <1>3, <2>1, <3>1 DEF BelowNext
    <3>5. Unlisted'
      BY <3>1, <3>2, <3>3 DEF NamesInv, Unlisted
    <3>6. CandidateNext'
      <4>1. tx.cand.next \in Nat /\ Without(tx.cand, victim).next = tx.cand.next
        BY DEF TypeOK, TxType, ManifestType, Without
      <4>2. tx.op = "insert" => /\ tx.r \in Runs /\ tx.r # victim
                               /\ Without(tx.cand, victim).heads[tx.r] = tx.cand.heads[tx.r]
        BY DEF NamesInv, Unlisted, TxShape, TypeOK, TxType, ManifestType, Without
      <4>3. tx.pc \in Preparing => cache'[tx.s].next = cache[tx.s].next
        <5>1. tx.pc \in Preparing => tx.s \in Sessions
          BY DEF Preparing, TxShape, TypeOK, TxType, Stages, Commits, CommitStages
        <5> QED
          BY <3>3, <5>1
      <4> QED
        BY <3>2, <4>1, <4>2, <4>3 DEF NamesInv, CandidateNext
    <3>7. NameNeverReused'
      BY <3>1 DEF NamesInv, NameNeverReused
    <3> QED
      BY <3>4, <3>5, <3>6, <3>7 DEF NamesInv
  <2>3. CASE victim = NoRun /\ tx.op # "insert"
    <3>1. Goto("drop") /\ UNCHANGED <<proc, victim, admitted>>
      BY <1>3, <2>3 DEF Persisted
    <3>2. tx'.op # "insert" /\ tx'.pc = "drop"
      BY <2>3, <3>1 DEF Goto, TypeOK, TxType
    <3>3. BelowNext'
      BY <1>2, <1>3, <2>1, <3>1 DEF BelowNext
    <3> QED
      BY <3>1, <3>2, <3>3 DEF NamesInv, Unlisted, CandidateNext, NameNeverReused, Preparing
  <2>4. CASE victim = NoRun /\ tx.op = "insert"
    <3> DEFINE new == <<s, tx.cand.heads[tx.r].ordinal, tx.r>>
    <3>1. /\ tx' = Idle /\ UNCHANGED proc /\ admitted' = admitted \cup {new}
          /\ s = tx.s /\ tx.pc = "persist" /\ NewManifest(s) = tx.cand
      BY <1>1, <1>3, <2>4 DEF Persisted, Persisting, At, NewManifest
    <3>2. new[1] = s /\ new[2] = cache[s].next /\ tx.cand.next = cache[s].next + 1
      BY <2>4, <3>1 DEF NamesInv, CandidateNext, Preparing
    <3>3. new[2] < manifest'[s].next /\ new[2] < cache'[s].next
      BY <1>1, <1>3, <3>1, <3>2 DEF TypeOK
    <3>4. \A a \in admitted : a[1] = s => a[2] # new[2]
      BY <1>1, <3>2, AdmittedType DEF NamesInv, BelowNext
    <3> HIDE DEF new
    <3>5. BelowNext'
      BY <1>2, <1>3, <2>1, <3>1, <3>2, <3>3 DEF BelowNext
    <3>6. NameNeverReused'
      BY <3>1, <3>2, <3>4 DEF NamesInv, NameNeverReused
    <3> QED
      BY <3>1, <3>5, <3>6 DEF NamesInv, Unlisted, CandidateNext, Preparing, Idle
  <2> QED
    BY <2>2, <2>3, <2>4
<1>4. CASE /\ Throw /\ UNCHANGED admitted
           /\ manifest' = [manifest EXCEPT ![s] = NewManifest(s)]
  <2>1. CASE tx' = Idle
    <3>1. Loaded' => cache' = cache
      BY <1>4, <2>1 DEF Throw, Loaded, Idle
    <3>2. BelowNext'
      BY <1>1, <1>2, <1>4, <3>1 DEF BelowNext, NamesInv
    <3> QED
      BY <1>4, <2>1, <3>2 DEF NamesInv, Unlisted, CandidateNext, NameNeverReused, Preparing, Idle
  <2>2. CASE tx.op # "boot" /\ Goto("undo") /\ UNCHANGED <<proc, cache>> /\ victim' = NoRun
    <3>1. tx'.op = tx.op /\ tx'.r = tx.r /\ tx'.pc = "undo"
      BY <2>2 DEF Goto, TypeOK, TxType
    <3>2. tx.op = "insert" => victim' # tx.r
      BY <2>2, RunStoreAssumption DEF TxShape
    <3>3. BelowNext'
      BY <1>1, <1>2, <1>4, <2>2 DEF BelowNext, NamesInv
    <3> QED
      BY <1>4, <2>2, <3>1, <3>2, <3>3 DEF NamesInv, Unlisted, CandidateNext, NameNeverReused, Preparing
  <2> QED
    BY <1>4, <2>1, <2>2 DEF Throw
<1>5. CASE Throw /\ UNCHANGED <<manifest, admitted>>
  BY <1>1, <1>5, NamesThrow
<1> QED
  BY <1>3, <1>4, <1>5 DEF ReplaceManifest
-----------------------------------------------------------------------------
LEMMA NamesCall ==
  ASSUME TypeOK, TxShape, NamesInv, Call
  PROVE  NamesInv'
<1>1. ASSUME NEW op \in Commits, NEW s \in Sessions, NEW r \in Runs, NEW row, NEW new,
             BeginCommit(op, s, r, row, new)
      PROVE  NamesInv'
  <2>1. Ready /\ UNCHANGED <<manifest, proc, cache, victim, admitted>>
    BY <1>1 DEF BeginCommit, disk
  <2>2. tx' = [Idle EXCEPT !.op = op, !.pc = "preflight", !.s = s, !.r = r,
                           !.cand = [cache[s] EXCEPT !.heads[r] = row],
                           !.dets = IF new THEN {r} ELSE {},
                           !.old = [@ EXCEPT ![r] = cache[s].heads[r].detail]]
    BY <1>1 DEF BeginCommit
  <2>3. tx'.op = op /\ tx'.s = s /\ tx'.cand = [cache[s] EXCEPT !.heads[r] = row]
    BY <2>2 DEF Idle
  <2>4. tx'.cand.next = cache[s].next
    BY <2>3 DEF TypeOK, ManifestType
  <2>5. op # "insert" /\ Loaded /\ Loaded'
    BY <2>1 DEF Commits, Ready, Loaded
  <2> QED
    BY <2>1, <2>3, <2>4, <2>5 DEF NamesInv, BelowNext, Unlisted, CandidateNext, NameNeverReused
<1>2. ASSUME NEW s \in Sessions, NEW r \in Runs, InsertWithNextDisplayName(s, r)
      PROVE  NamesInv'
  <2>1. /\ Ready /\ Unused(r) /\ UNCHANGED <<manifest, proc, cache, victim, admitted>>
        /\ tx'.op = "insert" /\ tx'.pc = "evict" /\ tx'.r = r
    BY <1>2 DEF InsertWithNextDisplayName, disk, ghosts, Idle
  <2>2. victim = NoRun
    BY <2>1 DEF Ready, Idle, TxShape
  <2>3. Unlisted'
    BY <2>1, <2>2, RunStoreAssumption DEF Unused, Unlisted
  <2>4. Loaded
    BY <2>1 DEF Ready, Loaded
  <2> QED
    BY <2>1, <2>3, <2>4 DEF NamesInv, BelowNext, CandidateNext, NameNeverReused, Preparing
<1>3. ASSUME NEW r \in Runs, Enqueue(r) \/ ScratchWrite(r)
      PROVE  NamesInv'
  <2>1. UNCHANGED <<manifest, proc, cache, tx, victim, admitted>>
    BY <1>3 DEF Enqueue, ScratchWrite, disk, memory, ghosts
  <2> QED
    BY <2>1 DEF NamesInv, BelowNext, Loaded, Unlisted, CandidateNext, NameNeverReused
<1>4. ASSUME NEW s \in Sessions, NEW r \in Runs, NEW new \in BOOLEAN, CommitRun(s, r, new)
      PROVE  NamesInv'
  BY <1>1, <1>4 DEF CommitRun, Commits
<1>5. ASSUME NEW s \in Sessions, NEW r \in Runs,
             CommitTerminalAndClaimNotice(s, r) \/ FinalizeCompletionNotice(s, r)
      PROVE  NamesInv'
  BY <1>1, <1>5 DEF CommitTerminalAndClaimNotice, FinalizeCompletionNotice, Commits
<1> QED
  BY <1>2, <1>3, <1>4, <1>5 DEF Call

LEMMA NamesEviction ==
  ASSUME TypeOK, TxShape, NamesInv,
         \/ \E r \in Runs : ChooseVictim(r) \/ Quarantine(r) \/ Remove(r)
         \/ NoRoom \/ CountFails \/ Evicted \/ RemoveFails
  PROVE  NamesInv'
<1>1. ASSUME NEW v \in Runs, ChooseVictim(v)
      PROVE  NamesInv'
  <2>1. v \in Evictable /\ victim' = v /\ UNCHANGED <<manifest, proc, cache, tx, admitted>>
    BY <1>1 DEF ChooseVictim, Candidates, disk, ghosts
  <2>2. tx.op = "insert" => v # tx.r
    BY <2>1 DEF Evictable, Holds, NamesInv, Unlisted
  <2> QED
    BY <2>1, <2>2, NamesFrame DEF Loaded
<1>2. ASSUME NEW r \in Runs, Quarantine(r) \/ Remove(r)
      PROVE  NamesInv'
  <2>1. UNCHANGED <<manifest, proc, cache, tx, victim, admitted>>
    BY <1>2 DEF Quarantine, Remove, memory, ghosts
  <2> QED
    BY <2>1 DEF NamesInv, BelowNext, Loaded, Unlisted, CandidateNext, NameNeverReused
<1>3. CASE NoRoom \/ CountFails \/ RemoveFails
  <2>1. Throw /\ UNCHANGED <<manifest, admitted>>
    BY <1>3 DEF NoRoom, CountFails, RemoveFails, disk
  <2>2. tx.pc # "idle"
    BY <1>3 DEF NoRoom, CountFails, RemoveFails, Counting, Evicting, TxShape
  <2> QED
    BY <2>1, <2>2, NamesThrow DEF TxShape, Idle
<1>4. CASE Evicted
  <2>1. victim' = NoRun /\ UNCHANGED <<manifest, proc, cache, tx, admitted>>
    BY <1>4 DEF Evicted, disk, ghosts
  <2>2. tx.op = "insert" => victim' # tx.r
    BY <2>1, RunStoreAssumption DEF TxShape
  <2> QED
    BY <2>1, <2>2, NamesFrame DEF Loaded
<1> QED
  BY <1>1, <1>2, <1>3, <1>4

LEMMA NamesRetained ==
  ASSUME TypeOK, TxShape, NamesInv, Retained
  PROVE  NamesInv'
<1> DEFINE cand == Inserted(cache[tx.s], tx.r, minted[tx.r] + 1)
<1>1. /\ tx.pc = "evict" /\ tx' = [tx EXCEPT !.pc = "preflight", !.cand = cand]
      /\ UNCHANGED <<manifest, proc, cache, victim, admitted>>
  BY DEF Retained, At, disk
<1>2. tx.op = "insert" /\ tx.r \in Runs /\ tx.s \in Sessions
  BY <1>1 DEF TxShape, TypeOK, TxType, Stages, Commits, CommitStages
<1>3. cand.next = cache[tx.s].next + 1 /\ cand.heads[tx.r].ordinal = cache[tx.s].next
  BY <1>2 DEF Inserted, WithRow, TypeOK, ManifestType
<1> HIDE DEF cand
<1>4. tx'.op = "insert" /\ tx'.s = tx.s /\ tx'.r = tx.r /\ tx'.cand = cand /\ tx'.pc = "preflight"
  BY <1>1, <1>2 DEF TypeOK, TxType
<1>5. Loaded' => Loaded
  BY <1>1, <1>4 DEF Loaded
<1> QED
  BY <1>1, <1>2, <1>3, <1>4, <1>5 DEF NamesInv, BelowNext, Unlisted, CandidateNext, NameNeverReused

(* The steps that go on from one stage to the next. *)
LEMMA NamesStages ==
  ASSUME TypeOK, TxShape, NamesInv,
         \/ Fits \/ Stage \/ Staged \/ Dropped \/ Fitted \/ Planned
         \/ \E r \in Runs : WriteDetail(r) \/ ReconcileRecoveryResidue(r)
         \/ \E s \in Sessions : WriteManifest(s)
  PROVE  NamesInv'
<1>1. UNCHANGED <<manifest, proc, cache, victim, admitted>>
  BY DEF Fits, Stage, Staged, Dropped, Fitted, Planned, WriteDetail, ReconcileRecoveryResidue,
         WriteManifest, disk, memory, ghosts
<1>2. CASE UNCHANGED tx
  BY <1>1, <1>2 DEF NamesInv, BelowNext, Loaded, Unlisted, CandidateNext, NameNeverReused
<1>3. ASSUME NEW pc, Goto(pc), pc \in Preparing => tx.pc \in Preparing,
             tx.pc \notin {"validate", "reconcile"}
      PROVE  NamesInv'
  <2>1. tx'.pc = pc /\ tx'.op = tx.op /\ tx'.s = tx.s /\ tx'.r = tx.r /\ tx'.cand = tx.cand
    BY <1>3 DEF Goto, TypeOK, TxType
  <2>2. Loaded' => Loaded
    BY <1>1, <1>3 DEF Loaded
  <2>3. tx.op = "insert" => victim' # tx.r
    BY <1>1 DEF NamesInv, Unlisted
  <2> QED
    BY <1>1, <1>3, <2>1, <2>2, <2>3, NamesFrame
<1>4. CASE Fits
  BY <1>3, <1>4 DEF Fits, At, Preparing
<1>5. CASE Staged
  BY <1>3, <1>5 DEF Staged, At, Preparing
<1>6. CASE Dropped
  <2>1. PICK pc \in {"plan", "enforce"} : Goto(pc)
    BY <1>6 DEF Dropped
  <2> QED
    BY <1>3, <1>6, <2>1 DEF Dropped, At, Preparing
<1>7. CASE Fitted \/ Planned
  <2>1. PICK pc \in {"plan", "enforce"} : Goto(pc)
    BY <1>7 DEF Fitted, Planned
  <2> QED
    BY <1>3, <1>7, <2>1 DEF Fitted, Planned, At, Preparing
<1>8. CASE \/ Stage
           \/ \E r \in Runs : WriteDetail(r) \/ ReconcileRecoveryResidue(r)
           \/ \E s \in Sessions : WriteManifest(s)
  BY <1>2, <1>8 DEF Stage, WriteDetail, ReconcileRecoveryResidue, WriteManifest, memory
<1> QED
  BY <1>4, <1>5, <1>6, <1>7, <1>8

(* The steps that may throw. *)
LEMMA NamesWork ==
  ASSUME TypeOK, TxShape, NamesInv,
         \/ StageFails \/ PublishDirectory \/ ValidateRecoveryInventory
         \/ \E r \in Runs : LinkDetail(r) \/ DropOld(r) \/ ReconcileFails(r)
  PROVE  NamesInv'
<1>1. UNCHANGED <<manifest, admitted>> /\ tx.pc # "idle"
  BY DEF StageFails, PublishDirectory, ValidateRecoveryInventory, LinkDetail, DropOld,
         ReconcileFails, At, disk
<1>2. tx.op # "none"
  BY <1>1 DEF TxShape, Idle
<1>3. CASE Throw
  BY <1>1, <1>2, <1>3, NamesThrow
<1>4. ASSUME UNCHANGED <<proc, cache, victim>>, tx'.op = tx.op, tx'.s = tx.s, tx'.r = tx.r,
             tx'.cand = tx.cand, tx'.pc \in Preparing => tx.pc \in Preparing, Loaded' => Loaded
      PROVE  NamesInv'
  <2>1. tx.op = "insert" => victim' # tx.r
    BY <1>4 DEF NamesInv, Unlisted
  <2> QED
    BY <1>1, <1>4, <2>1, NamesFrame
<1>5. CASE PublishDirectory /\ ~Throw
  <2>1. tx.pc = "publish" /\ tx' = [tx EXCEPT !.pc = "persist"] /\ UNCHANGED <<proc, cache, victim>>
    BY <1>5 DEF PublishDirectory, At, Goto
  <2> QED
    BY <1>4, <2>1 DEF TypeOK, TxType, Preparing, Loaded
<1>6. CASE ValidateRecoveryInventory /\ ~Throw
  <2>1. /\ tx.pc = "validate" /\ tx' = [tx EXCEPT !.pc = "reconcile"]
        /\ UNCHANGED <<proc, cache, victim>>
    BY <1>6 DEF ValidateRecoveryInventory, At, Goto
  <2>2. /\ tx'.pc = "reconcile" /\ tx'.op = tx.op /\ tx'.s = tx.s /\ tx'.r = tx.r
        /\ tx'.cand = tx.cand
    BY <2>1 DEF TypeOK, TxType
  <2>3. proc # "up"
    BY <2>1 DEF TxShape, TypeOK, TxType, Stages, Commits, CommitStages
  <2> QED
    BY <1>4, <2>1, <2>2, <2>3 DEF Preparing, Loaded
<1>7. ASSUME NEW r \in Runs, LinkDetail(r), ~Throw
      PROVE  NamesInv'
  <2>1. /\ tx.pc = "detail" /\ UNCHANGED <<proc, cache, victim>>
        /\ tx' = [tx EXCEPT !.dets = @ \ {r}, !.written = @ \cup {r},
                            !.pc = IF tx.dets = {r} THEN "persist" ELSE @]
    BY <1>7 DEF LinkDetail, At
  <2>2. /\ tx'.pc \in {"detail", "persist"} /\ tx'.op = tx.op /\ tx'.s = tx.s /\ tx'.r = tx.r
        /\ tx'.cand = tx.cand
    BY <2>1 DEF TypeOK, TxType
  <2> QED
    BY <1>4, <2>1, <2>2 DEF Preparing, Loaded
<1>8. ASSUME NEW r \in Runs, DropOld(r), ~Throw
      PROVE  NamesInv'
  <2>1. /\ tx.pc = "drop" /\ UNCHANGED <<proc, cache, victim>>
        /\ tx' = [tx EXCEPT !.written = @ \ {r}]
    BY <1>8 DEF DropOld, At
  <2>2. /\ tx'.pc = "drop" /\ tx'.op = tx.op /\ tx'.s = tx.s /\ tx'.r = tx.r /\ tx'.cand = tx.cand
    BY <2>1 DEF TypeOK, TxType
  <2> QED
    BY <1>4, <2>1, <2>2 DEF Preparing, Loaded
<1> QED
  BY <1>3, <1>5, <1>6, <1>7, <1>8 DEF StageFails, ReconcileFails

(* The steps that end a transaction, open the store or lose it. *)
LEMMA NamesEnds ==
  ASSUME TypeOK, TxShape, NamesInv,
         \/ Committed \/ Undo \/ Reconciled \/ Booted \/ Boot \/ Crash
         \/ \E s \in Sessions : Plan(s)
  PROVE  NamesInv'
<1>1. UNCHANGED <<manifest, admitted>>
  BY DEF Committed, Undo, Reconciled, Booted, Boot, Crash, Plan, disk, ghosts
<1>2. CASE Committed \/ Undo \/ Booted
  <2>1. tx' = Idle /\ cache' = cache /\ tx.pc \in {"enforce", "undo"}
    BY <1>2 DEF Committed, Undo, Booted, At
  <2>2. Loaded
    BY <2>1, OpenNow DEF TxShape, Idle
  <2> QED
    BY <1>1, <2>1, <2>2, NamesQuiet DEF Idle, Preparing
<1>3. CASE Reconciled
  <2>1. tx.pc = "reconcile" /\ cache' = manifest
        /\ tx' = [tx EXCEPT !.pc = "fit", !.todo = {s \in Sessions : manifest[s] # Empty}]
    BY <1>3 DEF Reconciled, At
  <2>2. tx.op = "boot"
    BY <2>1 DEF TxShape, TypeOK, TxType, Stages, Commits, CommitStages
  <2>3. tx'.op = "boot" /\ tx'.pc = "fit"
    BY <2>1, <2>2 DEF TypeOK, TxType
  <2> QED
    BY <1>1, <2>1, <2>3, NamesQuiet DEF Preparing
<1>4. CASE Boot \/ Crash
  <2>1. tx'.op # "insert" /\ tx'.pc \notin Preparing /\ ~Loaded'
    <3>1. CASE Boot
      <4>1. proc' = "boot" /\ tx'.op = "boot" /\ tx'.pc = "validate"
        BY <3>1 DEF Boot, Idle
      <4> QED
        BY <4>1 DEF Preparing, Loaded
    <3>2. CASE Crash
      <4>1. proc' = "down" /\ tx'.op = "none" /\ tx'.pc = "idle"
        BY <3>2 DEF Crash, Idle
      <4> QED
        BY <4>1 DEF Preparing, Loaded
    <3> QED
      BY <1>4, <3>1, <3>2
  <2> QED
    BY <1>1, <2>1, NamesQuiet
<1>5. ASSUME NEW s \in Sessions, Plan(s)
      PROVE  NamesInv'
  <2>1. tx.pc = "plan" /\ UNCHANGED <<proc, cache, victim>>
    BY <1>5 DEF Plan, At
  <2>2. tx.op = "boot" /\ Loaded
    BY <2>1, OpenNow DEF TxShape, TypeOK, TxType, Stages, Commits, CommitStages
  <2>3. tx'.op = "boot" /\ tx'.s = s /\ tx'.cand = RecoveredManifest(cache[s])
    BY <1>5, <2>2 DEF Plan, TypeOK, TxType
  <2>4. tx'.cand.next = cache[s].next
    BY <2>3 DEF RecoveredManifest, TypeOK, ManifestType
  <2> QED
    BY <1>1, <2>1, <2>2, <2>3, <2>4 DEF NamesInv, BelowNext, Unlisted, CandidateNext, NameNeverReused
<1> QED
  BY <1>2, <1>3, <1>4, <1>5
-----------------------------------------------------------------------------
LEMMA NamesStep ==
  ASSUME TypeOK, TxShape, NamesInv, [Next]_vars
  PROVE  NamesInv'
<1>1. CASE Step
  <2>1. CASE \/ \E r \in Runs : ChooseVictim(r) \/ Quarantine(r) \/ Remove(r)
             \/ NoRoom \/ CountFails \/ Evicted \/ RemoveFails
    BY <2>1, NamesEviction
  <2>2. CASE \/ Fits \/ Stage \/ Staged \/ Dropped \/ Fitted \/ Planned
             \/ \E r \in Runs : WriteDetail(r) \/ ReconcileRecoveryResidue(r)
             \/ \E s \in Sessions : WriteManifest(s)
    BY <2>2, NamesStages
  <2>3. CASE \/ StageFails \/ PublishDirectory \/ ValidateRecoveryInventory
             \/ \E r \in Runs : LinkDetail(r) \/ DropOld(r) \/ ReconcileFails(r)
    BY <2>3, NamesWork
  <2>4. CASE \/ Committed \/ Undo \/ Reconciled \/ Booted
             \/ \E s \in Sessions : Plan(s)
    BY <2>4, NamesEnds
  <2>5. CASE Retained \/ \E s \in Sessions : ReplaceManifest(s)
    BY <2>5, NamesRetained, NamesReplace
  <2> QED
    BY <1>1, <2>1, <2>2, <2>3, <2>4, <2>5, Zenon DEF Step
<1>2. CASE ScratchStep \/ UNCHANGED vars
  <2>1. UNCHANGED <<manifest, proc, cache, tx, victim, admitted>>
    BY <1>2 DEF ScratchStep, ScratchWritten, vars, disk, memory, ghosts
  <2> QED
    BY <2>1 DEF NamesInv, BelowNext, Loaded, Unlisted, CandidateNext, NameNeverReused
<1> QED
  BY <1>1, <1>2, NamesCall, NamesEnds DEF Next

LEMMA NamesInit == Init => NamesInv
BY DEF Init, Idle, NamesInv, BelowNext, Unlisted, CandidateNext, NameNeverReused, Preparing

(* Two admitted runs of a Session never had the same ordinal, whatever was
   evicted, rejected or lost between them, and however a step failed
   (allocateDisplayIdentity). *)
THEOREM NamesAreFresh == Spec => []NameNeverReused
<1>1. TypeOK /\ TxShape /\ NamesInv /\ [Next]_vars => NamesInv'
  BY NamesStep
<1>2. NamesInv => NameNeverReused
  BY DEF NamesInv
<1>3. Init => NamesInv
  BY NamesInit
<1> QED
  BY <1>1, <1>2, <1>3, TypeCorrect, PTL DEF Spec
-----------------------------------------------------------------------------
(***************************************************************************)
(* How any step moves the manifests and the transaction.  What the rest    *)
(* proves of rows and notices looks at a step only in this way.            *)
(***************************************************************************)
(* The stages a step may go to without touching a manifest or a candidate.   *)
Onward(pc, next) ==
  \/ next = pc
  \/ pc = "preflight" /\ next \in {"stage", "detail", "persist"}
  \/ pc = "stage" /\ next = "publish"
  \/ pc \in {"publish", "detail"} /\ next = "persist"
  \/ pc = "drop" /\ next \in {"plan", "enforce"}
  \/ pc = "fit" /\ next = "plan"
  \/ pc = "plan" /\ next = "enforce"
  \/ pc = "validate" /\ next = "reconcile"
GoesOn ==
  /\ UNCHANGED <<manifest, cache, proc, client, known, admitted, sent>>
  /\ tx'.op = tx.op /\ tx'.s = tx.s /\ tx'.r = tx.r /\ tx'.cand = tx.cand /\ tx'.todo = tx.todo
  /\ victim' = victim \/ victim' = NoRun \/ (victim = NoRun /\ victim' \in Evictable /\ Counting /\ Crowded)
  /\ Onward(tx.pc, tx'.pc)
  /\ tx.pc = "plan" /\ tx'.pc = "enforce" => tx.todo = {}
  /\ tx.pc = "drop" /\ tx'.pc # "drop" => (tx'.pc = "plan" <=> tx.op = "boot")
(* A step throws, and what was prepared is abandoned. *)
Abandons ==
  /\ UNCHANGED <<client, known, admitted, sent>>
  /\ tx.op # "none" /\ victim' = NoRun
  /\ \/ tx.op = "boot" /\ proc' = "down" /\ tx' = Idle /\ cache' = [s \in Sessions |-> Empty]
     \/ tx.op # "boot" /\ UNCHANGED <<proc, cache>> /\ tx' = Idle
     \/ tx.op # "boot" /\ UNCHANGED <<proc, cache>> /\ tx' = [tx EXCEPT !.pc = "undo"]
Throws == Abandons /\ UNCHANGED manifest
(* A manifest is replaced: behind a throw, by an eviction, by an insert, or by *)
(* a commit.                                                                   *)
Swaps(s, m) == manifest' = [manifest EXCEPT ![s] = m]
Lands(s, m) == Swaps(s, m) /\ cache' = [cache EXCEPT ![s] = m]
ThrowsLate(s) == /\ Abandons /\ Persisting(s) /\ Swaps(s, NewManifest(s)) /\ faults'["late"] # 0
Evicts(s) ==
  /\ victim # NoRun /\ Holds(s, victim) /\ Lands(s, Without(cache[s], victim))
  /\ tx' = [tx EXCEPT !.cand = IF s = tx.s THEN Without(@, victim) ELSE @]
  /\ UNCHANGED <<proc, victim, client, known, admitted, sent>>
Admits ==
  /\ tx.op = "insert" /\ tx.pc = "persist" /\ victim = NoRun /\ Lands(tx.s, tx.cand) /\ tx' = Idle
  /\ client' = [client EXCEPT ![tx.r] = "running"] /\ known' = [known EXCEPT ![tx.r] = 1]
  /\ admitted' = admitted \cup {<<tx.s, tx.cand.heads[tx.r].ordinal, tx.r>>}
  /\ UNCHANGED <<proc, victim, sent>>
Rewrites ==
  /\ tx.op # "insert" /\ tx.pc = "persist" /\ victim = NoRun /\ Lands(tx.s, tx.cand) /\ Goto("drop")
  /\ UNCHANGED <<proc, victim, client, known, admitted, sent>>
Returns ==
  /\ tx' = Idle /\ UNCHANGED <<manifest, cache, victim, admitted, sent>>
  /\ tx.pc \in {"enforce", "undo"} /\ victim = NoRun
  /\ \/ Committed \/ (tx.op = "boot" /\ Booted)
     \/ tx.pc = "undo" /\ UNCHANGED <<proc, client, known>>

LEMMA GotoGoes ==
  ASSUME TypeOK, NEW pc, Goto(pc), Onward(tx.pc, pc),
         UNCHANGED <<manifest, cache, proc, victim, client, known, admitted, sent>>,
         tx.pc = "plan" /\ pc = "enforce" => tx.todo = {},
         tx.pc = "drop" => (pc = "plan" <=> tx.op = "boot")
  PROVE  GoesOn
BY DEF Goto, GoesOn, TypeOK, TxType

LEMMA SameGoes ==
  ASSUME UNCHANGED <<manifest, cache, proc, tx, victim, client, known, admitted, sent>>
  PROVE  GoesOn
BY DEF GoesOn, Onward

LEMMA ThrowAbandons ==
  ASSUME Throw, tx.op # "none", UNCHANGED <<client, known, admitted, sent>>
  PROVE  Abandons
BY DEF Throw, Abandons, Goto

LEMMA BusyHasAnOperation ==
  ASSUME TxShape, tx.pc # "idle" \/ victim # NoRun
  PROVE  tx.op # "none"
BY DEF TxShape, Idle

LEMMA ReplaceLands ==
  ASSUME TypeOK, TxShape, NEW s \in Sessions, ReplaceManifest(s), Lands(s, NewManifest(s)), Persisted(s)
  PROVE  Evicts(s) \/ (s = tx.s /\ Admits) \/ (s = tx.s /\ Rewrites)
<1>1. Persisting(s) /\ UNCHANGED sent
  BY DEF ReplaceManifest
<1>2. CASE victim # NoRun
  <2>1. NewManifest(s) = Without(cache[s], victim) /\ Holds(s, victim)
    BY <1>1, <1>2 DEF NewManifest, Persisting, At
  <2> QED
    BY <1>1, <1>2, <2>1 DEF Persisted, Evicts
<1>3. CASE victim = NoRun
  <2>1. NewManifest(s) = tx.cand /\ s = tx.s /\ tx.pc = "persist"
    BY <1>1, <1>3 DEF NewManifest, Persisting, At
  <2> QED
    BY <1>1, <1>3, <2>1 DEF Persisted, Admits, Rewrites
<1> QED
  BY <1>2, <1>3

LEMMA ReplaceMoves ==
  ASSUME TypeOK, TxShape, NEW s \in Sessions, ReplaceManifest(s)
  PROVE  Throws \/ ThrowsLate(s) \/ Evicts(s) \/ (s = tx.s /\ Admits) \/ (s = tx.s /\ Rewrites)
<1>1. tx.op # "none" /\ Persisting(s) /\ UNCHANGED sent
  BY BusyHasAnOperation DEF ReplaceManifest, Persisting, At
<1>2. CASE Throw /\ UNCHANGED <<manifest, client, known, admitted>>
  BY <1>1, <1>2, ThrowAbandons DEF Throws
<1>3. CASE Fault("late") /\ Throw /\ Swaps(s, NewManifest(s)) /\ UNCHANGED <<client, known, admitted>>
  BY <1>1, <1>3, ThrowAbandons, LateIsCounted DEF ThrowsLate
<1>4. CASE Lands(s, NewManifest(s)) /\ Persisted(s)
  BY <1>4, ReplaceLands
<1> QED
  BY <1>2, <1>3, <1>4 DEF ReplaceManifest, Swaps, Lands

(* The steps of a transaction that read or replace no manifest. *)
LEMMA QuietMoves ==
  ASSUME TypeOK, TxShape,
         \/ \E r \in Runs : ChooseVictim(r) \/ Quarantine(r) \/ Remove(r)
         \/ Evicted \/ Fits \/ Stage \/ Staged \/ Dropped \/ Fitted \/ Planned
         \/ \E r \in Runs : WriteDetail(r) \/ ReconcileRecoveryResidue(r)
         \/ \E s \in Sessions : WriteManifest(s)
  PROVE  GoesOn
<1>1. UNCHANGED <<manifest, cache, proc, client, known, admitted, sent>>
  BY DEF ChooseVictim, Quarantine, Remove, Evicted, Fits, Stage, Staged, Dropped, Fitted, Planned,
         WriteDetail, ReconcileRecoveryResidue, WriteManifest, disk, memory, ghosts
<1>2. CASE UNCHANGED <<tx, victim>>
  BY <1>1, <1>2, SameGoes
<1>3. ASSUME NEW v \in Runs, ChooseVictim(v)
      PROVE  GoesOn
  <2>1. UNCHANGED tx /\ victim' = v /\ v \in Evictable /\ victim = NoRun /\ Counting /\ Crowded
    BY <1>3 DEF ChooseVictim, Candidates, Counted, Counting
  <2> QED
    BY <1>1, <2>1 DEF GoesOn, Onward
<1>4. CASE Evicted
  BY <1>1, <1>4 DEF Evicted, GoesOn, Onward
<1>5. CASE Fits
  BY <1>1, <1>5, GotoGoes DEF Fits, At, Onward
<1>6. CASE Staged
  BY <1>1, <1>6, GotoGoes DEF Staged, At, Onward
<1>7. CASE Dropped
  BY <1>1, <1>7, GotoGoes DEF Dropped, At, Onward
<1>8. CASE Fitted
  BY <1>1, <1>8, GotoGoes DEF Fitted, At, Onward
<1>9. CASE Planned
  BY <1>1, <1>9, GotoGoes DEF Planned, At, Onward
<1>10. CASE \/ \E r \in Runs : Quarantine(r) \/ Remove(r) \/ WriteDetail(r) \/ ReconcileRecoveryResidue(r)
            \/ Stage \/ \E s \in Sessions : WriteManifest(s)
  BY <1>2, <1>10 DEF Quarantine, Remove, Stage, WriteDetail, ReconcileRecoveryResidue, WriteManifest, memory
<1> QED
  BY <1>3, <1>4, <1>5, <1>6, <1>7, <1>8, <1>9, <1>10

(* The steps that may throw. *)
LEMMA WorkMoves ==
  ASSUME TypeOK, TxShape,
         \/ NoRoom \/ CountFails \/ RemoveFails
         \/ StageFails \/ PublishDirectory \/ ValidateRecoveryInventory
         \/ \E r \in Runs : LinkDetail(r) \/ DropOld(r) \/ ReconcileFails(r)
  PROVE  GoesOn \/ Throws
<1>1. UNCHANGED <<manifest, client, known, admitted, sent>> /\ tx.op # "none"
  BY BusyHasAnOperation
     DEF NoRoom, CountFails, RemoveFails, StageFails, PublishDirectory, ValidateRecoveryInventory,
         LinkDetail, DropOld, ReconcileFails, At, disk, Counting, Evicting
<1>2. CASE Throw
  BY <1>1, <1>2, ThrowAbandons DEF Throws
<1>3. CASE PublishDirectory /\ ~Throw
  BY <1>1, <1>3, GotoGoes DEF PublishDirectory, At, Onward
<1>4. CASE ValidateRecoveryInventory /\ ~Throw
  BY <1>1, <1>4, GotoGoes DEF ValidateRecoveryInventory, At, Onward
<1>5. ASSUME NEW r \in Runs, LinkDetail(r), ~Throw
      PROVE  GoesOn
  <2>1. /\ tx.pc = "detail" /\ UNCHANGED <<proc, cache, victim>>
        /\ tx' = [tx EXCEPT !.dets = @ \ {r}, !.written = @ \cup {r},
                            !.pc = IF tx.dets = {r} THEN "persist" ELSE @]
    BY <1>5 DEF LinkDetail, At
  <2>2. /\ tx'.pc \in {"detail", "persist"} /\ tx'.op = tx.op /\ tx'.s = tx.s /\ tx'.r = tx.r
        /\ tx'.cand = tx.cand /\ tx'.todo = tx.todo
    BY <2>1 DEF TypeOK, TxType
  <2> QED
    BY <1>1, <2>1, <2>2 DEF GoesOn, Onward
<1>6. ASSUME NEW r \in Runs, DropOld(r), ~Throw
      PROVE  GoesOn
  <2>1. /\ tx.pc = "drop" /\ UNCHANGED <<proc, cache, victim>>
        /\ tx' = [tx EXCEPT !.written = @ \ {r}]
    BY <1>6 DEF DropOld, At
  <2>2. /\ tx'.pc = "drop" /\ tx'.op = tx.op /\ tx'.s = tx.s /\ tx'.r = tx.r
        /\ tx'.cand = tx.cand /\ tx'.todo = tx.todo
    BY <2>1 DEF TypeOK, TxType
  <2> QED
    BY <1>1, <2>1, <2>2 DEF GoesOn, Onward
<1> QED
  BY <1>2, <1>3, <1>4, <1>5, <1>6 DEF NoRoom, CountFails, RemoveFails, StageFails, ReconcileFails

LEMMA ReturnMoves ==
  ASSUME TypeOK, TxShape, Committed \/ Undo \/ Booted
  PROVE  Returns
<1>1. tx' = Idle /\ UNCHANGED <<manifest, cache, victim, admitted, sent>> /\ victim = NoRun
  BY DEF Committed, Undo, Booted, At, disk, ghosts
<1>2. CASE Undo
  BY <1>1, <1>2 DEF Undo, At, Returns
<1>3. CASE Committed \/ Booted
  BY <1>1, <1>3 DEF Committed, Booted, At, Returns
<1> QED
  BY <1>2, <1>3

LEMMA StoreMoves ==
  ASSUME TypeOK, TxShape, [Next]_vars
  PROVE  \/ GoesOn \/ Throws \/ Returns \/ Call \/ Retained \/ Reconciled \/ Boot \/ Crash
         \/ \E s \in Sessions : Plan(s)
         \/ \E s \in Sessions : ThrowsLate(s) \/ Evicts(s)
         \/ Admits \/ Rewrites
<1>1. CASE Step
  <2>1. CASE \/ \E r \in Runs : ChooseVictim(r) \/ Quarantine(r) \/ Remove(r)
             \/ Evicted \/ Fits \/ Stage \/ Staged \/ Dropped \/ Fitted \/ Planned
             \/ \E r \in Runs : WriteDetail(r) \/ ReconcileRecoveryResidue(r)
             \/ \E s \in Sessions : WriteManifest(s)
    BY <2>1, QuietMoves
  <2>2. CASE \/ NoRoom \/ CountFails \/ RemoveFails
             \/ StageFails \/ PublishDirectory \/ ValidateRecoveryInventory
             \/ \E r \in Runs : LinkDetail(r) \/ DropOld(r) \/ ReconcileFails(r)
    BY <2>2, WorkMoves
  <2>3. CASE Committed \/ Undo \/ Booted
    BY <2>3, ReturnMoves
  <2>4. CASE \E s \in Sessions : ReplaceManifest(s)
    BY <2>4, ReplaceMoves
  <2>5. CASE Retained \/ Reconciled \/ \E s \in Sessions : Plan(s)
    BY <2>5
  <2> QED
    BY <1>1, <2>1, <2>2, <2>3, <2>4, <2>5, Zenon DEF Step
<1>2. CASE ScratchStep \/ UNCHANGED vars
  BY <1>2, SameGoes DEF ScratchStep, ScratchWritten, vars, disk, memory, ghosts
<1> QED
  BY <1>1, <1>2 DEF Next
-----------------------------------------------------------------------------
(***************************************************************************)
(* NoticeInv: what a notice says is true in every copy of a row, on disk,  *)
(* in the cache and in a candidate, however a step failed.                 *)
(***************************************************************************)
Shaped(m) == \A r \in Runs : m.heads[r].notice = "none" <=> m.heads[r].status # "terminal"
Told(m) ==
  \A r \in Rows(m) :
    /\ r \in sent \/ client[r] \in {"claimed", "enqueued"} => m.heads[r].notice # "none"
    /\ m.heads[r].notice = "delivered" => r \in sent
Listed(s) == Rows(manifest[s]) \cup Rows(cache[s])

(* Terminal rows, and they alone, have a notice. *)
ShapeInv == Shaped(tx.cand) /\ \A s \in Sessions : Shaped(manifest[s]) /\ Shaped(cache[s])
ToldInv  == Told(tx.cand) /\ \A s \in Sessions : Told(manifest[s]) /\ Told(cache[s])
(* All copies of a run's row belong to one Session. *)
HomeInv ==
  /\ \A s, t \in Sessions : \A r \in Listed(s) : r \in Listed(t) => s = t
  /\ \A t \in Sessions : \A r \in Rows(tx.cand) : r \in Listed(t) => t = tx.s
  /\ tx.op = "terminal" => \A t \in Sessions : tx.r \in Listed(t) => t = tx.s
(* Only admitted runs have an owner or a message. *)
OwnerInv ==
  /\ \A r \in Runs : client[r] = "enqueued" => r \in sent
  /\ \A r \in Runs : r \in sent \/ client[r] # "none" => \E a \in admitted : a[3] = r
  /\ tx.op = "insert" => ~\E a \in admitted : a[3] = tx.r
  /\ tx.op \in Commits => \E a \in admitted : a[3] = tx.r
(* A terminal commit claims the notice before its caller is told. *)
ClaimInv ==
  tx.op = "terminal" =>
    /\ tx.pc \in Preparing /\ tx.r \in Rows(tx.cand) => tx.cand.heads[tx.r].notice = "claimed"
    /\ tx.pc \in {"drop", "enforce"} => \A s \in Sessions :
         /\ tx.r \in Rows(manifest[s]) => manifest[s].heads[tx.r].notice # "none"
         /\ tx.r \in Rows(cache[s]) => cache[s].heads[tx.r].notice # "none"
(* No copy names the run being inserted until its manifest is written. *)
FreshInv ==
  tx.op = "insert" /\ tx.pc # "undo" => \A s \in Sessions : tx.r \notin Listed(s)
NoticeInv == ShapeInv /\ ToldInv /\ HomeInv /\ OwnerInv /\ ClaimInv /\ FreshInv

(* Each row of m is a copy of one that the store had of this Session. *)
Taken(m, s) ==
  \A r \in Runs :
    \/ m.heads[r] \in {NoRow, manifest[s].heads[r], cache[s].heads[r]} /\ (s \in Sessions \/ m.heads[r] = NoRow)
    \/ s = tx.s /\ m.heads[r] = tx.cand.heads[r]
AllTaken ==
  /\ \A s \in Sessions : Taken(manifest'[s], s) /\ Taken(cache'[s], s)
  /\ Taken(tx'.cand, tx'.s) /\ (tx'.s = tx.s \/ tx'.cand = Empty)

LEMMA EmptyRows == Rows(Empty) = {} /\ \A r \in Runs : Empty.heads[r] = NoRow
BY DEF Rows, Empty, NoRow

LEMMA TakenListed ==
  ASSUME NEW s, NEW m, Taken(m, s), NEW r \in Rows(m)
  PROVE  (s \in Sessions /\ r \in Listed(s)) \/ (s = tx.s /\ r \in Rows(tx.cand))
BY DEF Taken, Rows, Listed, NoRow

LEMMA TakenShaped ==
  ASSUME ShapeInv, NEW s, NEW m, Taken(m, s)
  PROVE  Shaped(m)
BY DEF Taken, ShapeInv, Shaped, NoRow

LEMMA TakenTold ==
  ASSUME ToldInv, NEW s, NEW m, Taken(m, s),
         NEW r \in Rows(m)
  PROVE  /\ r \in sent \/ client[r] \in {"claimed", "enqueued"} => m.heads[r].notice # "none"
         /\ m.heads[r].notice = "delivered" => r \in sent
<1>1. r \in Runs /\ m.heads[r].status # "none"
  BY DEF Rows
<1>2. CASE m.heads[r] \in {NoRow, manifest[s].heads[r], cache[s].heads[r]} /\ s \in Sessions
  <2>1. \/ r \in Rows(manifest[s]) /\ m.heads[r] = manifest[s].heads[r]
        \/ r \in Rows(cache[s]) /\ m.heads[r] = cache[s].heads[r]
    BY <1>1, <1>2 DEF Rows, NoRow
  <2> QED
    BY <1>2, <2>1 DEF ToldInv, Told
<1>3. CASE m.heads[r] = tx.cand.heads[r]
  BY <1>1, <1>3 DEF ToldInv, Told, Rows
<1> QED
  BY <1>1, <1>2, <1>3 DEF Taken, NoRow

(* The copies are copied, and owners hear nothing new of a notice. *)
LEMMA TakenFrame ==
  ASSUME ShapeInv, ToldInv, HomeInv, AllTaken, sent' = sent,
         \A r \in Runs : client'[r] \in {client[r], "none", "running"},
         tx'.op = "terminal" => tx.op = "terminal" /\ tx'.r = tx.r /\ tx'.s = tx.s
  PROVE  ShapeInv' /\ ToldInv' /\ HomeInv'
<1>1. ShapeInv'
  BY TakenShaped DEF AllTaken, ShapeInv, Shaped
<1>2. ASSUME NEW s, NEW m, Taken(m, s)
      PROVE  \A r \in Rows(m) :
               /\ r \in sent' \/ client'[r] \in {"claimed", "enqueued"} => m.heads[r].notice # "none"
               /\ m.heads[r].notice = "delivered" => r \in sent'
  BY <1>2, TakenTold DEF Rows
<1>3. ToldInv'
  BY <1>2 DEF AllTaken, ToldInv, Told, Rows
<1>4. ASSUME NEW t \in Sessions, NEW r \in Listed(t)'
      PROVE  r \in Listed(t) \/ (t = tx.s /\ r \in Rows(tx.cand))
  BY <1>4, TakenListed DEF AllTaken, Listed, Rows
<1>5. \A s, t \in Sessions : \A r \in Listed(s)' : r \in Listed(t)' => s = t
  BY <1>4 DEF HomeInv
<1>6. ASSUME NEW t \in Sessions, NEW r \in Rows(tx'.cand), r \in Listed(t)'
      PROVE  t = tx'.s
  <2>1. tx'.s = tx.s
    BY <1>6, EmptyRows DEF AllTaken
  <2>2. (tx.s \in Sessions /\ r \in Listed(tx.s)) \/ r \in Rows(tx.cand)
    BY <1>6, <2>1, TakenListed DEF AllTaken
  <2> QED
    BY <1>4, <1>6, <2>1, <2>2 DEF HomeInv
<1>7. tx'.op = "terminal" => \A t \in Sessions : tx'.r \in Listed(t)' => t = tx'.s
  BY <1>4 DEF HomeInv
<1>8. HomeInv'
  BY <1>5, <1>6, <1>7 DEF HomeInv, Rows
<1> QED
  BY <1>1, <1>3, <1>8

LEMMA SameTaken ==
  ASSUME NEW s \in Sessions
  PROVE  Taken(manifest[s], s) /\ Taken(cache[s], s) /\ Taken(tx.cand, tx.s)
         /\ Taken(Empty, s) /\ (s = tx.s => Taken(tx.cand, s))
         /\ \A t : Taken(Empty, t)
BY EmptyRows DEF Taken

LEMMA WithoutTaken ==
  ASSUME TypeOK, NEW s \in Sessions, NEW v
  PROVE  Taken(Without(cache[s], v), s) /\ Taken(Without(tx.cand, v), tx.s)
<1>1. ASSUME NEW m \in ManifestType, NEW r \in Runs
      PROVE  Without(m, v).heads[r] \in {NoRow, m.heads[r]}
  BY DEF Without, ManifestType
<1>2. cache[s] \in ManifestType /\ tx.cand \in ManifestType
  BY DEF TypeOK, TxType
<1>3. Taken(Without(cache[s], v), s)
  BY <1>1, <1>2 DEF Taken
<1>4. ASSUME NEW r \in Runs
      PROVE  Without(tx.cand, v).heads[r] \in {NoRow, tx.cand.heads[r]}
  BY <1>1, <1>2
<1>5. Taken(Without(tx.cand, v), tx.s)
  BY <1>4 DEF Taken
<1> QED
  BY <1>3, <1>5

(* A manifest of one Session is replaced by a copy. *)
LEMMA SwapTaken ==
  ASSUME TypeOK, NEW s \in Sessions, NEW m, Taken(m, s), NEW t \in Sessions
  PROVE  /\ Swaps(s, m) => Taken(manifest'[t], t)
         /\ Lands(s, m) => Taken(manifest'[t], t) /\ Taken(cache'[t], t)
<1>1. [manifest EXCEPT ![s] = m][t] = (IF t = s THEN m ELSE manifest[t])
      /\ [cache EXCEPT ![s] = m][t] = (IF t = s THEN m ELSE cache[t])
  BY DEF TypeOK
<1>2. CASE t = s
  BY <1>1, <1>2 DEF Swaps, Lands
<1>3. CASE t # s
  BY <1>1, <1>3, SameTaken DEF Swaps, Lands
<1> QED
  BY <1>2, <1>3
-----------------------------------------------------------------------------
(* The steps that only move copies. *)
LEMMA AbandonsTx ==
  ASSUME TypeOK, Abandons
  PROVE  /\ tx' = Idle \/ (/\ tx'.op = tx.op /\ tx'.s = tx.s /\ tx'.r = tx.r
                          /\ tx'.cand = tx.cand /\ tx'.pc = "undo")
         /\ cache' = cache \/ cache' = [s \in Sessions |-> Empty]
BY DEF Abandons, TypeOK, TxType

LEMMA IdleTaken ==
  ASSUME tx' = Idle
  PROVE  /\ Taken(tx'.cand, tx'.s) /\ tx'.cand = Empty
         /\ tx'.op = "none" /\ tx'.pc = "idle"
BY SameTaken, EmptyRows DEF Idle, Taken

LEMMA NoticeGoesOn ==
  ASSUME TypeOK, TxShape, NoticeInv, GoesOn
  PROVE  NoticeInv'
<1>1. AllTaken
  BY SameTaken DEF GoesOn, AllTaken, Taken
<1>2. ShapeInv' /\ ToldInv' /\ HomeInv'
  BY <1>1, TakenFrame DEF GoesOn, NoticeInv
<1>3. OwnerInv'
  BY DEF GoesOn, NoticeInv, OwnerInv
<1>4. ClaimInv'
  <2>1. tx.op = "terminal" => tx.pc # "plan"
    BY DEF TxShape, Stages, Commits, CommitStages
  <2>2. /\ tx'.pc \in Preparing => tx.pc \in Preparing
        /\ tx'.pc \in {"drop", "enforce"} => tx.pc \in {"drop", "enforce", "plan"}
    BY DEF GoesOn, Onward, Preparing
  <2>3. UNCHANGED <<manifest, cache>> /\ tx'.op = tx.op /\ tx'.s = tx.s /\ tx'.r = tx.r /\ tx'.cand = tx.cand
    BY DEF GoesOn
  <2> QED
    BY <2>1, <2>2, <2>3 DEF NoticeInv, ClaimInv
<1>5. FreshInv'
  BY DEF GoesOn, Onward, NoticeInv, FreshInv, Listed
<1> QED
  BY <1>2, <1>3, <1>4, <1>5 DEF NoticeInv

LEMMA NoticeAbandons ==
  ASSUME TypeOK, NoticeInv, Abandons,
         \A s \in Sessions : Taken(manifest'[s], s)
  PROVE  NoticeInv'
<1>1. \A s \in Sessions : Taken(cache'[s], s)
  BY AbandonsTx, SameTaken
<1>2. AllTaken
  BY <1>1, AbandonsTx, IdleTaken, SameTaken DEF AllTaken, Taken
<1>3. tx'.op = "terminal" => tx.op = "terminal" /\ tx'.r = tx.r /\ tx'.s = tx.s
  BY AbandonsTx, IdleTaken
<1>4. ShapeInv' /\ ToldInv' /\ HomeInv'
  BY <1>2, <1>3, TakenFrame DEF Abandons, NoticeInv
<1>5. OwnerInv'
  BY AbandonsTx, IdleTaken DEF Abandons, NoticeInv, OwnerInv, Commits
<1>6. ClaimInv' /\ FreshInv'
  BY AbandonsTx, IdleTaken DEF ClaimInv, FreshInv, Preparing
<1> QED
  BY <1>4, <1>5, <1>6 DEF NoticeInv

LEMMA NoticeThrows ==
  ASSUME TypeOK, NoticeInv, Throws \/ \E s \in Sessions : ThrowsLate(s)
  PROVE  NoticeInv'
<1>1. CASE Throws
  BY <1>1, NoticeAbandons, SameTaken DEF Throws
<1>2. ASSUME NEW s \in Sessions, ThrowsLate(s)
      PROVE  NoticeInv'
  <2>1. NewManifest(s) = Without(cache[s], victim) \/ (s = tx.s /\ NewManifest(s) = tx.cand)
    BY <1>2 DEF ThrowsLate, NewManifest, Persisting, At
  <2>2. Taken(NewManifest(s), s)
    BY <2>1, WithoutTaken, SameTaken
  <2>3. \A t \in Sessions : Taken(manifest'[t], t)
    BY <1>2, <2>2, SwapTaken DEF ThrowsLate
  <2> QED
    BY <1>2, <2>3, NoticeAbandons DEF ThrowsLate
<1> QED
  BY <1>1, <1>2

LEMMA NoticeEvicts ==
  ASSUME TypeOK, NoticeInv, NEW s \in Sessions, Evicts(s)
  PROVE  NoticeInv'
<1>1. /\ tx'.op = tx.op /\ tx'.s = tx.s /\ tx'.r = tx.r /\ tx'.pc = tx.pc
      /\ tx'.cand = (IF s = tx.s THEN Without(tx.cand, victim) ELSE tx.cand)
  BY DEF Evicts, TypeOK, TxType
<1>2. AllTaken
  BY <1>1, SwapTaken, SameTaken, WithoutTaken DEF Evicts, AllTaken
<1>3. ShapeInv' /\ ToldInv' /\ HomeInv'
  BY <1>1, <1>2, TakenFrame DEF Evicts, NoticeInv
<1>4. OwnerInv'
  BY <1>1 DEF Evicts, NoticeInv, OwnerInv
<1>5. ClaimInv' /\ FreshInv'
  <2>1. \A q \in Rows(tx'.cand) : q \in Rows(tx.cand) /\ tx'.cand.heads[q] = tx.cand.heads[q]
    BY <1>1, WithoutRows DEF TypeOK, TxType, Rows
  <2>2. \A t \in Sessions : cache[t] \in ManifestType
    BY DEF TypeOK
  <2>3. \A t \in Sessions :
          /\ manifest'[t] = (IF t = s THEN Without(cache[s], victim) ELSE manifest[t])
          /\ cache'[t] = (IF t = s THEN Without(cache[s], victim) ELSE cache[t])
    BY DEF Evicts, Lands, Swaps, TypeOK
  <2>4. \A q \in Rows(Without(cache[s], victim)) :
          q \in Rows(cache[s]) /\ Without(cache[s], victim).heads[q] = cache[s].heads[q]
    BY <2>2, WithoutRows DEF Rows
  <2>5. FreshInv'
    BY <1>1, <2>3, <2>4 DEF NoticeInv, FreshInv, Listed
  <2> QED
    BY <1>1, <2>1, <2>3, <2>4, <2>5 DEF NoticeInv, ClaimInv, Rows
<1> QED
  BY <1>3, <1>4, <1>5 DEF NoticeInv

LEMMA NoticeRewrites ==
  ASSUME TypeOK, TxShape, NoticeInv, Rewrites
  PROVE  NoticeInv'
<1>1. /\ tx'.op = tx.op /\ tx'.s = tx.s /\ tx'.r = tx.r /\ tx'.pc = "drop" /\ tx'.cand = tx.cand
      /\ tx.s \in Sessions
  BY DEF Rewrites, Goto, TypeOK, TxType, TxShape
<1>2. AllTaken
  BY <1>1, SwapTaken, SameTaken DEF Rewrites, AllTaken, Taken
<1>3. ShapeInv' /\ ToldInv' /\ HomeInv'
  BY <1>1, <1>2, TakenFrame DEF Rewrites, NoticeInv
<1>4. OwnerInv'
  BY <1>1 DEF Rewrites, NoticeInv, OwnerInv
<1>5. ClaimInv' /\ FreshInv'
  <2>1. \A t \in Sessions :
          /\ manifest'[t] = (IF t = tx.s THEN tx.cand ELSE manifest[t])
          /\ cache'[t] = (IF t = tx.s THEN tx.cand ELSE cache[t])
    BY <1>1 DEF Rewrites, Lands, Swaps, TypeOK
  <2>2. tx.op = "terminal" => \A t \in Sessions : tx.r \in Listed(t) => t = tx.s
    BY DEF NoticeInv, HomeInv
  <2>3. tx.op = "terminal" /\ tx.r \in Rows(tx.cand) => tx.cand.heads[tx.r].notice = "claimed"
    BY DEF NoticeInv, ClaimInv, Preparing, Rewrites
  <2> QED
    BY <1>1, <2>1, <2>2, <2>3 DEF ClaimInv, FreshInv, Rewrites, Preparing, Listed
<1> QED
  BY <1>3, <1>4, <1>5 DEF NoticeInv

LEMMA NoticeAdmits ==
  ASSUME TypeOK, TxShape, NoticeInv, Admits
  PROVE  NoticeInv'
<1>1. tx.s \in Sessions /\ tx.r \in Runs /\ tx.op = "insert"
  BY DEF Admits, TxShape
<1>2. \A t \in Sessions : Taken(manifest'[t], t) /\ Taken(cache'[t], t)
  BY <1>1, SwapTaken, SameTaken DEF Admits
<1>3. AllTaken
  BY <1>2, IdleTaken DEF Admits, AllTaken
<1>4. \A r \in Runs : client'[r] = IF r = tx.r THEN "running" ELSE client[r]
  BY <1>1 DEF Admits, TypeOK
<1>5. ShapeInv' /\ ToldInv' /\ HomeInv'
  BY <1>3, <1>4, IdleTaken, TakenFrame DEF Admits, NoticeInv
<1>6. OwnerInv'
  <2>1. admitted \subseteq admitted' /\ <<tx.s, tx.cand.heads[tx.r].ordinal, tx.r>> \in admitted'
    BY DEF Admits
  <2>2. \A r \in Runs : r # tx.r => (r \in sent' \/ client'[r] # "none" => \E a \in admitted' : a[3] = r)
    BY <1>4, <2>1 DEF NoticeInv, OwnerInv, Admits
  <2>3. \E a \in admitted' : a[3] = tx.r
    BY <2>1
  <2>4. \A r \in Runs : client'[r] = "enqueued" => r \in sent'
    BY <1>4 DEF NoticeInv, OwnerInv, Admits
  <2> QED
    BY <2>2, <2>3, <2>4, IdleTaken DEF OwnerInv, Admits, Commits
<1>7. ClaimInv' /\ FreshInv'
  BY IdleTaken DEF Admits, ClaimInv, FreshInv
<1> QED
  BY <1>5, <1>6, <1>7 DEF NoticeInv

LEMMA NoticeOpens ==
  ASSUME TypeOK, TxShape, NoticeInv, Reconciled \/ Boot \/ Crash
  PROVE  NoticeInv'
<1>1. UNCHANGED <<manifest, sent, admitted>>
  BY DEF Reconciled, Boot, Crash, disk, ghosts
<1>2. /\ \A s \in Sessions : cache'[s] \in {cache[s], manifest[s], Empty}
      /\ \A r \in Runs : client'[r] \in {client[r], "none"}
  BY DEF Reconciled, Boot, Crash
<1>3. \/ tx'.op \in {"none", "boot"} /\ tx'.cand = Empty
      \/ tx'.op = "boot" /\ tx'.cand = tx.cand /\ tx'.s = tx.s
  <2>1. CASE Reconciled
    <3>1. tx.op = "boot"
      BY <2>1 DEF Reconciled, At, TxShape, TypeOK, TxType, Stages, Commits, CommitStages
    <3> QED
      BY <2>1, <3>1 DEF Reconciled, TypeOK, TxType
  <2>2. CASE Boot
    <3>1. tx' = [Idle EXCEPT !.op = "boot", !.pc = "validate"]
      BY <2>2 DEF Boot
    <3> QED
      BY <3>1 DEF Idle
  <2>3. CASE Crash
    BY <2>3, IdleTaken DEF Crash
  <2> QED
    BY <2>1, <2>2, <2>3
<1>4. AllTaken
  BY <1>1, <1>2, <1>3, SameTaken, EmptyRows DEF AllTaken, Taken
<1>5. ShapeInv' /\ ToldInv' /\ HomeInv'
  BY <1>1, <1>2, <1>3, <1>4, TakenFrame DEF NoticeInv
<1>6. OwnerInv' /\ ClaimInv' /\ FreshInv'
  BY <1>1, <1>2, <1>3 DEF NoticeInv, OwnerInv, ClaimInv, FreshInv, Commits
<1> QED
  BY <1>5, <1>6 DEF NoticeInv

(* A terminal commit that returns makes its caller the owner of the claim. *)
LEMMA NoticeReturns ==
  ASSUME TypeOK, TxShape, NoticeInv, Returns
  PROVE  NoticeInv'
<1>1. tx' = Idle /\ UNCHANGED <<manifest, cache, admitted, sent>>
  BY DEF Returns
<1>2. AllTaken
  BY <1>1, IdleTaken, SameTaken DEF AllTaken
<1>3. CASE UNCHANGED client
  <2>1. ShapeInv' /\ ToldInv' /\ HomeInv'
    BY <1>1, <1>2, <1>3, IdleTaken, TakenFrame DEF NoticeInv
  <2>2. OwnerInv' /\ ClaimInv' /\ FreshInv'
    BY <1>1, <1>3, IdleTaken DEF NoticeInv, OwnerInv, ClaimInv, FreshInv, Commits
  <2> QED
    BY <2>1, <2>2 DEF NoticeInv
<1>4. CASE Committed
  <2>1. /\ tx.pc = "enforce" /\ tx.op \in Commits /\ tx.r \in Runs
        /\ client' = [client EXCEPT ![tx.r] = CASE tx.op = "terminal" -> "claimed"
                                                [] tx.op = "finalize" -> "done"
                                                [] OTHER              -> @]
    BY <1>4 DEF Committed, At, TxShape, TypeOK, TxType, Stages, Commits, CommitStages
  <2>2. /\ \A r \in Runs \ {tx.r} : client'[r] = client[r]
        /\ client'[tx.r] = IF tx.op = "terminal" THEN "claimed"
                           ELSE IF tx.op = "finalize" THEN "done" ELSE client[tx.r]
    BY <2>1 DEF TypeOK
  <2>3. \E a \in admitted : a[3] = tx.r
    BY <2>1 DEF NoticeInv, OwnerInv
  <2>4. ShapeInv' /\ HomeInv'
    BY <1>1, IdleTaken, EmptyRows DEF NoticeInv, ShapeInv, Shaped, HomeInv, Listed, Rows, NoRow
  <2>5. ASSUME NEW m \in {manifest[s] : s \in Sessions} \cup {cache[s] : s \in Sessions}, NEW q \in Rows(m)
        PROVE  /\ q \in sent \/ client'[q] \in {"claimed", "enqueued"} => m.heads[q].notice # "none"
               /\ m.heads[q].notice = "delivered" => q \in sent
    <3>1. Told(m) /\ q \in Runs
      BY <2>5 DEF NoticeInv, ToldInv, Rows
    <3>2. tx.op = "terminal" /\ q = tx.r => m.heads[q].notice # "none"
      BY <2>1, <2>5 DEF NoticeInv, ClaimInv
    <3> QED
      BY <2>2, <3>1, <3>2 DEF Told
  <2>6. ToldInv'
    <3>1. Told(Empty)'
      BY EmptyRows DEF Told, Rows
    <3> QED
      BY <1>1, <2>5, <3>1, IdleTaken DEF ToldInv, Told, Rows
  <2>7. OwnerInv'
    BY <1>1, <2>1, <2>2, <2>3, IdleTaken DEF NoticeInv, OwnerInv, Commits
  <2>8. ClaimInv' /\ FreshInv'
    BY IdleTaken, <1>1 DEF ClaimInv, FreshInv
  <2> QED
    BY <2>4, <2>6, <2>7, <2>8 DEF NoticeInv
<1> QED
  BY <1>3, <1>4 DEF Returns, Booted
-----------------------------------------------------------------------------
(* The steps that prepare a candidate. *)
Consistent(row) == row.notice = "none" <=> row.status # "terminal"
Truthful(row, q) ==
  row.status # "none" =>
    /\ q \in sent \/ client[q] \in {"claimed", "enqueued"} => row.notice # "none"
    /\ row.notice = "delivered" => q \in sent

LEMMA NoticePrepares ==
  ASSUME NoticeInv, UNCHANGED <<manifest, cache, client, sent, admitted>>,
         NEW s \in Sessions, tx'.s = s,
         \A q \in Runs : Consistent(tx'.cand.heads[q]) /\ Truthful(tx'.cand.heads[q], q),
         \A q \in Rows(tx'.cand) : q \in Listed(s) \/ \A t \in Sessions : q \notin Listed(t),
         tx'.op = "terminal" => /\ tx'.r \in Listed(s) /\ tx'.pc = "preflight"
                                /\ tx'.cand.heads[tx'.r].notice = "claimed",
         tx'.op = "insert" => /\ ~\E a \in admitted : a[3] = tx'.r
                              /\ \A t \in Sessions : tx'.r \notin Listed(t),
         tx'.op \in Commits => \E a \in admitted : a[3] = tx'.r
  PROVE  NoticeInv'
<1>1. ShapeInv'
  BY DEF NoticeInv, ShapeInv, Shaped, Consistent
<1>2. ToldInv'
  BY DEF NoticeInv, ToldInv, Told, Truthful, Rows
<1>3. HomeInv'
  BY DEF NoticeInv, HomeInv, Listed
<1>4. OwnerInv' /\ ClaimInv' /\ FreshInv'
  BY DEF NoticeInv, OwnerInv, ClaimInv, FreshInv, Listed
<1> QED
  BY <1>1, <1>2, <1>3, <1>4 DEF NoticeInv

LEMMA CachedTruth ==
  ASSUME NoticeInv, NEW s \in Sessions, NEW q \in Runs
  PROVE  Consistent(cache[s].heads[q]) /\ Truthful(cache[s].heads[q], q)
BY DEF NoticeInv, ShapeInv, ToldInv, Shaped, Told, Consistent, Truthful, Rows

LEMMA NoticeBegins ==
  ASSUME TypeOK, TxShape, NoticeInv, NEW op \in Commits, NEW s \in Sessions, NEW r \in Runs,
         NEW row, NEW new, BeginCommit(op, s, r, row, new),
         Consistent(row), Truthful(row, r), row.status # "none",
         op = "terminal" => row.notice = "claimed",
         client[r] # "none"
  PROVE  NoticeInv'
<1>1. /\ UNCHANGED <<manifest, cache, client, sent, admitted>> /\ r \in Rows(cache[s])
      /\ tx'.op = op /\ tx'.s = s /\ tx'.r = r /\ tx'.pc = "preflight"
      /\ tx'.cand = [cache[s] EXCEPT !.heads[r] = row]
  BY DEF BeginCommit, Idle, disk, Holds
<1>2. tx'.cand.heads[r] = row /\ \A q \in Runs \ {r} : tx'.cand.heads[q] = cache[s].heads[q]
  BY <1>1 DEF TypeOK, ManifestType
<1>3. \A q \in Runs : Consistent(tx'.cand.heads[q]) /\ Truthful(tx'.cand.heads[q], q)
  BY <1>2, CachedTruth
<1>4. \A q \in Rows(tx'.cand) : q \in Listed(s)
  BY <1>1, <1>2 DEF Rows, Listed
<1>5. r \in Listed(s)
  BY <1>1 DEF Listed
<1>6. \E a \in admitted : a[3] = r
  BY DEF NoticeInv, OwnerInv
<1>7. op # "insert"
  BY DEF Commits
<1> QED
  BY <1>1, <1>2, <1>3, <1>4, <1>5, <1>6, <1>7, NoticePrepares

LEMMA NoticeCall ==
  ASSUME TypeOK, TxShape, NoticeInv, Call
  PROVE  NoticeInv'
<1>1. ASSUME NEW r \in Runs, ScratchWrite(r)
      PROVE  NoticeInv'
  BY <1>1, SameGoes, NoticeGoesOn DEF ScratchWrite, memory, ghosts
<1>2. ASSUME NEW r \in Runs, Enqueue(r)
      PROVE  NoticeInv'
  <2>1. /\ UNCHANGED <<manifest, cache, tx, admitted>> /\ client[r] = "claimed" /\ sent' = sent \cup {r}
        /\ \A q \in Runs : client'[q] = IF q = r THEN "enqueued" ELSE client[q]
    BY <1>2 DEF Enqueue, disk, TypeOK
  <2>2. ShapeInv' /\ HomeInv'
    BY <2>1 DEF NoticeInv, ShapeInv, Shaped, HomeInv, Listed
  <2>3. ToldInv'
    <3>1. ASSUME NEW m, Told(m)
          PROVE  \A q \in Rows(m) :
                   /\ q \in sent' \/ client'[q] \in {"claimed", "enqueued"} => m.heads[q].notice # "none"
                   /\ m.heads[q].notice = "delivered" => q \in sent'
      BY <2>1, <3>1 DEF Told, Rows
    <3> QED
      BY <2>1, <3>1 DEF NoticeInv, ToldInv, Told, Rows
  <2>4. OwnerInv' /\ ClaimInv' /\ FreshInv'
    BY <2>1 DEF NoticeInv, OwnerInv, ClaimInv, FreshInv, Listed
  <2> QED
    BY <2>2, <2>3, <2>4 DEF NoticeInv
<1>3. ASSUME NEW s \in Sessions, NEW r \in Runs, InsertWithNextDisplayName(s, r)
      PROVE  NoticeInv'
  <2>1. /\ UNCHANGED <<manifest, cache, client, sent, admitted>> /\ Unused(r)
        /\ tx' = [Idle EXCEPT !.op = "insert", !.pc = "evict", !.s = s, !.r = r]
    BY <1>3 DEF InsertWithNextDisplayName, disk, ghosts
  <2>2. tx'.op = "insert" /\ tx'.s = s /\ tx'.r = r /\ tx'.cand = Empty
    BY <2>1 DEF Idle
  <2>3. ~(\E a \in admitted : a[3] = r) /\ \A t \in Sessions : r \notin Listed(t)
    BY <2>1 DEF Unused, Listed
  <2> QED
    BY <2>1, <2>2, <2>3, EmptyRows, NoticePrepares DEF Consistent, Truthful, NoRow, Commits
<1>4. ASSUME NEW s \in Sessions, NEW r \in Runs,
             \/ \E new \in BOOLEAN : CommitRun(s, r, new)
             \/ CommitTerminalAndClaimNotice(s, r) \/ FinalizeCompletionNotice(s, r)
      PROVE  NoticeInv'
  <2> DEFINE row == cache[s].heads[r]
  <2>1. row \in RowType /\ Consistent(row) /\ Truthful(row, r)
    BY CachedTruth DEF TypeOK, ManifestType
  <2>2. Holds(s, r) => row.status # "none"
    BY DEF Holds, Rows
  <2> HIDE DEF row
  <2>3. CASE \E new \in BOOLEAN : CommitRun(s, r, new)
    <3>1. PICK new \in BOOLEAN : CommitRun(s, r, new)
      BY <2>3
    <3> DEFINE d == IF new THEN minted[r] + 1 ELSE row.detail
    <3>2. BeginCommit("update", s, r, Updated(row, d), new) /\ client[r] = "running" /\ Holds(s, r)
      BY <3>1 DEF CommitRun, BeginCommit, row
    <3>3. Updated(row, d).status = row.status /\ Updated(row, d).notice = row.notice
      BY <2>1 DEF Updated, RowType
    <3> HIDE DEF d
    <3> QED
      BY <2>1, <2>2, <3>2, <3>3, NoticeBegins DEF Commits, Consistent, Truthful
  <2>4. CASE CommitTerminalAndClaimNotice(s, r)
    <3>1. /\ BeginCommit("terminal", s, r, Claimed(row, minted[r] + 1), TRUE)
          /\ client[r] = "running"
      BY <2>4 DEF CommitTerminalAndClaimNotice, row
    <3>2. Claimed(row, minted[r] + 1).status = "terminal" /\ Claimed(row, minted[r] + 1).notice = "claimed"
      BY <2>1 DEF Claimed, Updated, RowType
    <3> QED
      BY <3>1, <3>2, NoticeBegins DEF Commits, Consistent, Truthful
  <2>5. CASE FinalizeCompletionNotice(s, r)
    <3> DEFINE n == IF client[r] = "enqueued" THEN "delivered" ELSE "abandoned"
    <3>1. /\ BeginCommit("finalize", s, r, Finalized(row, n), FALSE) /\ row.notice = "claimed"
          /\ client[r] \in {"claimed", "enqueued"}
      BY <2>5 DEF FinalizeCompletionNotice, row
    <3>2. Finalized(row, n).status = row.status /\ Finalized(row, n).notice = n
      BY <2>1 DEF Finalized, RowType
    <3>3. n = "delivered" => r \in sent
      BY DEF NoticeInv, OwnerInv
    <3>4. n \in {"delivered", "abandoned"} /\ row.status = "terminal"
      BY <2>1, <3>1 DEF Consistent
    <3> HIDE DEF n
    <3> QED
      BY <3>1, <3>2, <3>3, <3>4, NoticeBegins DEF Commits, Consistent, Truthful
  <2> QED
    BY <1>4, <2>3, <2>4, <2>5
<1> QED
  BY <1>1, <1>2, <1>3, <1>4 DEF Call

LEMMA NoticeRetained ==
  ASSUME TypeOK, TxShape, NoticeInv, Retained
  PROVE  NoticeInv'
<1> DEFINE cand == Inserted(cache[tx.s], tx.r, minted[tx.r] + 1)
<1>1. /\ tx.pc = "evict" /\ tx' = [tx EXCEPT !.pc = "preflight", !.cand = cand]
      /\ UNCHANGED <<manifest, cache, client, sent, admitted>>
  BY DEF Retained, At, disk
<1>2. tx.op = "insert" /\ tx.r \in Runs /\ tx.s \in Sessions
  BY <1>1 DEF TxShape, TypeOK, TxType, Stages, Commits, CommitStages
<1>3. /\ cand.heads[tx.r].notice = "none" /\ cand.heads[tx.r].status = "active"
      /\ \A q \in Runs \ {tx.r} : cand.heads[q] = cache[tx.s].heads[q]
  BY <1>2 DEF Inserted, WithRow, TypeOK, ManifestType
<1> HIDE DEF cand
<1>4. tx'.op = "insert" /\ tx'.s = tx.s /\ tx'.r = tx.r /\ tx'.cand = cand
  BY <1>1, <1>2 DEF TypeOK, TxType
<1>5. /\ tx.r \notin sent /\ client[tx.r] = "none" /\ ~\E a \in admitted : a[3] = tx.r
      /\ \A t \in Sessions : tx.r \notin Listed(t)
  BY <1>1, <1>2 DEF NoticeInv, OwnerInv, FreshInv
<1>6. \A q \in Runs : Consistent(cand.heads[q]) /\ Truthful(cand.heads[q], q)
  BY <1>2, <1>3, <1>5, CachedTruth DEF Consistent, Truthful
<1>7. \A q \in Rows(cand) : q \in Listed(tx.s) \/ \A t \in Sessions : q \notin Listed(t)
  BY <1>3, <1>5 DEF Rows, Listed
<1> QED
  BY <1>1, <1>2, <1>4, <1>5, <1>6, <1>7, NoticePrepares DEF Commits

LEMMA NoticePlan ==
  ASSUME TypeOK, TxShape, NoticeInv, NEW s \in Sessions, Plan(s)
  PROVE  NoticeInv'
<1> DEFINE cand == RecoveredManifest(cache[s])
<1>1. /\ tx.pc = "plan" /\ UNCHANGED <<manifest, cache, client, sent, admitted>>
      /\ tx'.op = "boot" /\ tx'.s = s /\ tx'.cand = cand
  <2>1. tx.pc = "plan" /\ UNCHANGED <<manifest, cache, client, sent, admitted>>
    BY DEF Plan, At, disk
  <2>2. tx.op = "boot"
    BY <2>1 DEF TxShape, TypeOK, TxType, Stages, Commits, CommitStages
  <2> QED
    BY <2>1, <2>2 DEF Plan, TypeOK, TxType
<1>2. ASSUME NEW q \in Runs
      PROVE  /\ Consistent(cand.heads[q]) /\ Truthful(cand.heads[q], q)
             /\ cand.heads[q].status # "none" => cache[s].heads[q].status # "none"
  <2> DEFINE row == cache[s].heads[q]
             d == minted[q] + 1
  <2>1. row \in RowType /\ Consistent(row) /\ Truthful(row, q) /\ cand.heads[q] = Recovered(row, d)
    BY CachedTruth DEF TypeOK, ManifestType, RecoveredManifest
  <2> HIDE DEF row, d
  <2>2. /\ Interrupted(row, d).status = "terminal" /\ Interrupted(row, d).notice = "abandoned"
        /\ Finalized(row, "abandoned").status = row.status /\ Finalized(row, "abandoned").notice = "abandoned"
    BY <2>1 DEF RowType, Interrupted, Finalized, Updated
  <2> QED
    BY <2>1, <2>2 DEF Recovered, Consistent, Truthful, row
<1> HIDE DEF cand
<1>3. \A q \in Rows(cand) : q \in Listed(s)
  BY <1>2 DEF Rows, Listed
<1> QED
  BY <1>1, <1>2, <1>3, NoticePrepares DEF Commits
-----------------------------------------------------------------------------
LEMMA NoticeStep ==
  ASSUME TypeOK, TxShape, NoticeInv, [Next]_vars
  PROVE  NoticeInv'
BY StoreMoves, NoticeGoesOn, NoticeThrows, NoticeReturns, NoticeCall, NoticeRetained, NoticeOpens,
   NoticePlan, NoticeEvicts, NoticeAdmits, NoticeRewrites

LEMMA NoticeInit == Init => NoticeInv
<1> SUFFICES ASSUME Init PROVE NoticeInv
  OBVIOUS
<1>1. /\ \A s \in Sessions : manifest[s] = Empty /\ cache[s] = Empty
      /\ tx.cand = Empty /\ tx.op = "none" /\ sent = {} /\ \A r \in Runs : client[r] = "none"
  BY DEF Init, Idle
<1>2. ShapeInv /\ ToldInv /\ HomeInv
  BY <1>1, EmptyRows DEF ShapeInv, Shaped, NoRow, ToldInv, Told, HomeInv, Listed
<1>3. OwnerInv /\ ClaimInv /\ FreshInv
  BY <1>1 DEF OwnerInv, ClaimInv, FreshInv, Commits
<1> QED
  BY <1>2, <1>3 DEF NoticeInv

(* A message reaches the owner only when its claim is on disk, and a notice is *)
(* on disk as delivered only when its message was sent, however the process    *)
(* dies and any step fails, behind its effect included (finalizeCompletionNotice, *)
(* initializeUnlocked).                                                        *)
THEOREM NoticesTellTheTruth == Spec => []NoticeTruth
<1>1. TypeOK /\ TxShape /\ NoticeInv /\ [Next]_vars => NoticeInv'
  BY NoticeStep
<1>2. NoticeInv => NoticeTruth
  BY DEF NoticeInv, ToldInv, Told, NoticeTruth
<1>3. Init => NoticeInv
  BY NoticeInit
<1> QED
  BY <1>1, <1>2, <1>3, TypeCorrect, PTL DEF Spec
-----------------------------------------------------------------------------
(***************************************************************************)
(* RowInv: how the rows of a manifest, the candidate that replaces it and  *)
(* the revisions the supervisor holds go together.  Like Safe it is about  *)
(* a store in which no step threw behind its effect.                       *)
(***************************************************************************)
(* The row a step may make of an old one. *)
Advance(old, new) ==
  /\ new.status # "none" /\ new.rev = old.rev + 1 /\ new.ordinal = old.ordinal
  /\ old.status = "terminal" => old.notice = "claimed" /\ Final(new)
(* The row an operation commits. *)
Outcome(op, row) ==
  /\ op = "update"   => row.status = "active"
  /\ op = "terminal" => row.status = "terminal" /\ row.notice = "claimed"
  /\ op = "finalize" => Final(row)
(* What a caller may believe of the row whose revision it holds. *)
Handle(row, c) ==
  /\ c = "running" => row.status = "active"
  /\ c \in {"claimed", "enqueued"} => row.status = "terminal" /\ row.notice = "claimed"
Owning == {"running", "claimed", "enqueued"}
Ended(m) == \A r \in Rows(m) : Final(m.heads[r])

VictimInv ==
  victim # NoRun => \A s \in Sessions : victim \in Rows(manifest[s]) => Final(manifest[s].heads[victim])
CandidateRows ==
  tx.pc \in Preparing =>
    /\ \A q \in Rows(manifest[tx.s]) :
         \/ tx.cand.heads[q] = manifest[tx.s].heads[q]
         \/ /\ Advance(manifest[tx.s].heads[q], tx.cand.heads[q])
            /\ tx.op # "insert" /\ (tx.op \in Commits => q = tx.r)
    /\ tx.op = "insert" => tx.cand.heads[tx.r].status = "active" /\ tx.cand.heads[tx.r].rev = 1
(* A caller that holds the row's revision knows where the run stands. *)
HandleInv ==
  \A s \in Sessions : \A r \in Rows(manifest[s]) :
    manifest[s].heads[r].rev = known[r] => Handle(manifest[s].heads[r], client[r])
CommitInv ==
  tx.op \in Commits =>
    /\ client[tx.r] \in IF tx.op = "finalize" THEN {"claimed", "enqueued"} ELSE {"running"}
    /\ tx.pc \in Preparing =>
         /\ tx.r \in Rows(manifest[tx.s]) /\ manifest[tx.s].heads[tx.r].rev = known[tx.r]
         /\ tx.cand.heads[tx.r].rev = known[tx.r] + 1 /\ Outcome(tx.op, tx.cand.heads[tx.r])
    /\ tx.pc \in {"drop", "enforce"} => \A s \in Sessions :
         tx.r \in Rows(manifest[s]) => /\ manifest[s].heads[tx.r].rev = known[tx.r] + 1
                                       /\ Outcome(tx.op, manifest[s].heads[tx.r])
LiveInv ==
  /\ proc = "up" => \A s \in Sessions : \A r \in Rows(manifest[s]) :
       ~Final(manifest[s].heads[r]) => client[r] \in Owning
  /\ proc # "up" => \A r \in Runs : client[r] = "none"
(* A recovery has ended every row of the Sessions it is done with. *)
BootInv ==
  proc = "boot" =>
    /\ tx.pc \in {"fit", "plan", "drop", "enforce"} =>
         \A s \in Sessions \ tx.todo : Ended(manifest[s])
    /\ tx.pc \in {"detail", "persist"} =>
         Ended(tx.cand) /\ \A s \in Sessions \ (tx.todo \cup {tx.s}) : Ended(manifest[s])
    /\ tx.pc = "enforce" => tx.todo = {}
RowInv == VictimInv /\ CandidateRows /\ HandleInv /\ CommitInv /\ LiveInv /\ BootInv
OwnedInv == faults["late"] = 0 => RowInv
-----------------------------------------------------------------------------
LEMMA RowTyped ==
  ASSUME TypeOK, NEW s \in Sessions, NEW r \in Runs
  PROVE  /\ manifest[s].heads[r] \in RowType /\ manifest[s].heads[r].rev \in Nat
         /\ manifest[s].heads[r].detail \in Nat /\ known[r] \in Nat /\ minted[r] \in Nat
         /\ manifest[s] \in ManifestType
BY DEF TypeOK, ManifestType, RowType

LEMMA BootStages ==
  ASSUME TypeOK, TxShape
  PROVE  /\ tx.op = "boot" <=> proc = "boot"
         /\ tx.op \in Commits \cup {"insert"} => proc = "up"
         /\ tx.op \in Commits => tx.op # "insert" /\ tx.op # "boot" /\ tx.op # "none"
         /\ tx.pc \in Preparing \cup {"drop"} => tx.s \in Sessions
         /\ tx.pc \in {"plan", "fit", "validate", "reconcile"} => tx.op = "boot"
         /\ tx.pc \in {"evict", "stage", "publish"} => tx.op = "insert"
         /\ tx.op = "boot" => tx.pc \notin {"preflight", "undo", "stage", "publish", "evict"}
BY DEF TypeOK, TxType, TxShape, Stages, Commits, CommitStages, Preparing

LEMMA RowGoesOn ==
  ASSUME TypeOK, TxShape, Safe, RowInv, GoesOn
  PROVE  RowInv'
<1>1. /\ UNCHANGED <<manifest, cache, proc, client, known>>
      /\ tx'.op = tx.op /\ tx'.s = tx.s /\ tx'.r = tx.r /\ tx'.cand = tx.cand /\ tx'.todo = tx.todo
  BY DEF GoesOn
<1>2. VictimInv'
  <2>1. CASE victim' \in {victim, NoRun}
    BY <1>1, <2>1 DEF RowInv, VictimInv
  <2>2. CASE victim' \in Evictable /\ Counting
    <3>1. cache = manifest
      BY <2>2, BusyHasAnOperation, CacheIsDisk DEF Counting, Safe
    <3>2. PICK s \in Sessions : Holds(s, victim') /\ Final(cache[s].heads[victim'])
      BY <2>2 DEF Evictable
    <3> QED
      BY <1>1, <3>1, <3>2 DEF VictimInv, Holds, Safe, OneHome
  <2> QED
    BY <2>1, <2>2 DEF GoesOn
<1>3. /\ tx'.pc \in Preparing => tx.pc \in Preparing
      /\ tx'.pc \in {"drop", "enforce"} => tx.pc \in {"drop", "enforce", "plan"}
  BY DEF GoesOn, Onward, Preparing
<1>4. CandidateRows'
  BY <1>1, <1>3 DEF RowInv, CandidateRows
<1>5. HandleInv' /\ LiveInv'
  BY <1>1 DEF RowInv, HandleInv, LiveInv
<1>6. CommitInv'
  BY <1>1, <1>3, BootStages DEF RowInv, CommitInv
<1>7. BootInv'
  <2>1. CASE proc = "boot"
    <3>1. tx.op = "boot" /\ tx.pc \notin {"preflight", "stage", "publish"}
      BY <2>1, BootStages
    <3> QED
      BY <1>1, <2>1, <3>1 DEF RowInv, BootInv, GoesOn, Onward
  <2> QED
    BY <1>1, <2>1 DEF BootInv
<1> QED
  BY <1>2, <1>4, <1>5, <1>6, <1>7 DEF RowInv

LEMMA RowThrows ==
  ASSUME TypeOK, TxShape, RowInv, Throws
  PROVE  RowInv'
<1>1. UNCHANGED <<manifest, client, known>> /\ victim' = NoRun
  BY DEF Throws, Abandons
<1>2. \/ tx'.op = "none" /\ tx'.pc = "idle"
      \/ tx'.op = tx.op /\ tx'.r = tx.r /\ tx'.pc = "undo"
  BY AbandonsTx, IdleTaken DEF Throws
<1>3. \/ tx.op = "boot" /\ proc' = "down"
      \/ tx.op # "boot" /\ proc' = proc
  BY DEF Throws, Abandons
<1>4. VictimInv' /\ CandidateRows' /\ HandleInv'
  BY <1>1, <1>2 DEF RowInv, VictimInv, CandidateRows, HandleInv, Preparing
<1>5. CommitInv'
  BY <1>1, <1>2 DEF RowInv, CommitInv, Commits, Preparing
<1>6. LiveInv' /\ BootInv'
  BY <1>1, <1>3, BootStages DEF RowInv, LiveInv, BootInv
<1> QED
  BY <1>4, <1>5, <1>6 DEF RowInv

LEMMA RowEvicts ==
  ASSUME TypeOK, TxShape, Safe, RowInv, NEW s \in Sessions, Evicts(s)
  PROVE  RowInv'
<1>1. /\ tx'.op = tx.op /\ tx'.s = tx.s /\ tx'.r = tx.r /\ tx'.pc = tx.pc /\ tx'.todo = tx.todo
      /\ tx'.cand = (IF s = tx.s THEN Without(tx.cand, victim) ELSE tx.cand)
      /\ UNCHANGED <<proc, victim, client, known>> /\ victim # NoRun
  BY DEF Evicts, TypeOK, TxType
<1>2. cache = manifest /\ tx.pc \in {"evict", "preflight", "fit", "enforce"}
  BY <1>1, BusyHasAnOperation, CacheIsDisk DEF Safe, TxShape
<1>3. /\ Rows(manifest'[s]) = Rows(manifest[s]) \ {victim}
      /\ \A q \in Runs \ {victim} : manifest'[s].heads[q] = manifest[s].heads[q]
      /\ \A t \in Sessions \ {s} : manifest'[t] = manifest[t]
  BY <1>2, WithoutRows DEF TypeOK, Evicts, Lands, Swaps
<1>4. \A t \in Sessions : \A q \in Rows(manifest'[t]) :
        q \in Rows(manifest[t]) /\ manifest'[t].heads[q] = manifest[t].heads[q]
  BY <1>3, RowsAre
<1>5. \A q \in Runs \ {victim} : tx'.cand.heads[q] = tx.cand.heads[q]
  BY <1>1, WithoutRows DEF TypeOK, TxType
<1>6. VictimInv' /\ HandleInv'
  BY <1>1, <1>4 DEF RowInv, VictimInv, HandleInv
<1>7. CandidateRows'
  <2>1. ASSUME tx.pc \in Preparing, NEW q \in Rows(manifest'[tx.s])
        PROVE  tx'.cand.heads[q] = tx.cand.heads[q]
    <3>1. tx.s \in Sessions /\ q \in Runs
      BY <2>1, BootStages DEF Rows
    <3>2. CASE s = tx.s
      BY <1>3, <1>5, <2>1, <3>1, <3>2
    <3>3. CASE s # tx.s
      BY <1>1, <3>3
    <3> QED
      BY <3>2, <3>3
  <2>2. tx.op = "insert" => tx.r # victim /\ tx.r \in Runs
    BY <1>2 DEF Safe, InsertInv, TxShape
  <2>3. tx.pc \in Preparing => tx.s \in Sessions
    BY BootStages
  <2> QED
    BY <1>1, <1>4, <1>5, <2>1, <2>2, <2>3 DEF RowInv, CandidateRows
<1>8. CommitInv'
  <2>1. ASSUME tx.op \in Commits, tx.pc \in Preparing
        PROVE  /\ tx.r \in Rows(manifest'[tx.s]) /\ manifest'[tx.s].heads[tx.r] = manifest[tx.s].heads[tx.r]
               /\ tx'.cand.heads[tx.r] = tx.cand.heads[tx.r]
    <3>1. tx.s \in Sessions /\ tx.r \in Rows(manifest[tx.s]) /\ tx.r \in Runs
      BY <2>1, BootStages DEF RowInv, CommitInv, Rows
    <3>2. Handle(manifest[tx.s].heads[tx.r], client[tx.r]) /\ client[tx.r] \in Owning
      BY <2>1, <3>1 DEF RowInv, CommitInv, HandleInv, Owning
    <3>3. tx.r # victim
      BY <1>1, <3>1, <3>2 DEF RowInv, VictimInv, Handle, Final, Owning
    <3> QED
      BY <1>3, <1>5, <3>1, <3>3
  <2> QED
    BY <1>1, <1>4, <2>1 DEF RowInv, CommitInv
<1>9. LiveInv'
  BY <1>1, <1>4 DEF RowInv, LiveInv
<1>10. BootInv'
  <2>1. tx.pc \notin {"detail", "persist"}
    BY <1>2
  <2> QED
    BY <1>1, <1>4, <2>1 DEF RowInv, BootInv, Ended
<1> QED
  BY <1>6, <1>7, <1>8, <1>9, <1>10 DEF RowInv
-----------------------------------------------------------------------------
LEMMA LandsCandidate ==
  ASSUME TypeOK, tx.s \in Sessions, Lands(tx.s, tx.cand), NEW t \in Sessions
  PROVE  /\ manifest'[t] = (IF t = tx.s THEN tx.cand ELSE manifest[t])
         /\ cache'[t] = (IF t = tx.s THEN tx.cand ELSE cache[t])
BY DEF Lands, Swaps, TypeOK

(* A row of the candidate is the manifest's, its successor, or the inserted one. *)
LEMMA CandidateRow ==
  ASSUME Safe, RowInv, tx.pc = "persist", NEW q \in Rows(tx.cand)
  PROVE  \/ tx.op = "insert" /\ q = tx.r
         \/ /\ q \in Rows(manifest[tx.s])
            /\ \/ tx.cand.heads[q] = manifest[tx.s].heads[q]
               \/ /\ Advance(manifest[tx.s].heads[q], tx.cand.heads[q])
                  /\ tx.op # "insert" /\ (tx.op \in Commits => q = tx.r)
BY DEF Safe, CandInv, RowInv, CandidateRows, Preparing

LEMMA RowAdmits ==
  ASSUME TypeOK, TxShape, Safe, RowInv, Admits
  PROVE  RowInv'
<1>1. tx.s \in Sessions /\ tx.r \in Runs /\ proc = "up" /\ proc' = "up"
      /\ tx'.op = "none" /\ tx'.pc = "idle" /\ victim' = NoRun
  BY IdleTaken, BootStages DEF Admits, TxShape
<1>2. /\ \A q \in Runs : client'[q] = IF q = tx.r THEN "running" ELSE client[q]
      /\ \A q \in Runs : known'[q] = IF q = tx.r THEN 1 ELSE known[q]
  BY <1>1 DEF Admits, TypeOK
<1>3. \A t \in Sessions : manifest'[t] = IF t = tx.s THEN tx.cand ELSE manifest[t]
  BY <1>1, LandsCandidate DEF Admits
<1>4. \A t \in Sessions : tx.r \notin Rows(manifest[t])
  BY DEF Admits, Safe, InsertInv
<1>5. tx.cand.heads[tx.r].status = "active"
  BY DEF Admits, RowInv, CandidateRows, Preparing
<1>6. ASSUME NEW t \in Sessions, NEW q \in Rows(manifest'[t])
      PROVE  \/ q = tx.r /\ manifest'[t].heads[q].status = "active"
             \/ q # tx.r /\ q \in Rows(manifest[t]) /\ manifest'[t].heads[q] = manifest[t].heads[q]
  <2>1. CASE t = tx.s
    BY <1>3, <1>4, <1>5, <1>6, <2>1, CandidateRow DEF Admits
  <2>2. CASE t # tx.s
    BY <1>3, <1>4, <1>6, <2>2
  <2> QED
    BY <2>1, <2>2
<1>7. HandleInv'
  <2> SUFFICES ASSUME NEW t \in Sessions, NEW q \in Rows(manifest'[t]), manifest'[t].heads[q].rev = known'[q]
               PROVE  Handle(manifest'[t].heads[q], client'[q])
    BY DEF HandleInv
  <2>1. q \in Runs
    BY DEF Rows
  <2> QED
    BY <1>2, <1>6, <2>1 DEF RowInv, HandleInv, Handle
<1>8. LiveInv'
  <2> SUFFICES ASSUME NEW t \in Sessions, NEW q \in Rows(manifest'[t]), ~Final(manifest'[t].heads[q])
               PROVE  client'[q] \in Owning
    BY <1>1 DEF LiveInv
  <2>1. q \in Runs
    BY DEF Rows
  <2> QED
    BY <1>1, <1>2, <1>6, <2>1 DEF RowInv, LiveInv, Owning
<1>9. VictimInv' /\ CandidateRows' /\ CommitInv' /\ BootInv'
  BY <1>1 DEF VictimInv, CandidateRows, CommitInv, BootInv, Preparing, Commits
<1> QED
  BY <1>7, <1>8, <1>9 DEF RowInv

LEMMA RowRewrites ==
  ASSUME TypeOK, TxShape, Safe, RowInv, Rewrites
  PROVE  RowInv'
<1>1. /\ tx'.op = tx.op /\ tx'.s = tx.s /\ tx'.r = tx.r /\ tx'.pc = "drop" /\ tx'.todo = tx.todo
      /\ tx.pc = "persist" /\ tx.s \in Sessions /\ tx.op \in Commits \cup {"boot"}
      /\ UNCHANGED <<proc, victim, client, known>> /\ victim = NoRun
  BY DEF Rewrites, Goto, TypeOK, TxType, TxShape, Stages, Commits
<1>2. \A t \in Sessions : manifest'[t] = IF t = tx.s THEN tx.cand ELSE manifest[t]
  BY <1>1, LandsCandidate DEF Rewrites
<1>3. ASSUME NEW q \in Rows(tx.cand)
      PROVE  /\ q \in Rows(manifest[tx.s]) /\ q \in Runs
             /\ tx.op \in Commits /\ q # tx.r => tx.cand.heads[q] = manifest[tx.s].heads[q]
  BY <1>1, CandidateRow DEF Rows, Commits
<1>4. tx.op \in Commits =>
        /\ tx.r \in Runs /\ tx.cand.heads[tx.r].rev = known[tx.r] + 1 /\ Outcome(tx.op, tx.cand.heads[tx.r])
        /\ client[tx.r] \in Owning /\ known[tx.r] \in Nat
        /\ \A t \in Sessions \ {tx.s} : tx.r \notin Rows(manifest[t])
  BY <1>1 DEF RowInv, CommitInv, Preparing, Owning, Safe, OneHome, TypeOK, Rows
<1>5. VictimInv' /\ CandidateRows'
  BY <1>1 DEF VictimInv, CandidateRows, Preparing
<1>6. HandleInv'
  <2> SUFFICES ASSUME NEW t \in Sessions, NEW q \in Rows(manifest'[t]), manifest'[t].heads[q].rev = known[q]
               PROVE  Handle(manifest'[t].heads[q], client[q])
    BY <1>1 DEF HandleInv
  <2>1. CASE t # tx.s
    BY <1>2, <2>1 DEF RowInv, HandleInv
  <2>2. CASE t = tx.s /\ tx.op = "boot"
    <3>1. client[q] = "none"
      BY <1>1, <1>2, <1>3, <2>2, BootStages DEF RowInv, LiveInv
    <3> QED
      BY <3>1 DEF Handle
  <2>3. CASE t = tx.s /\ tx.op \in Commits /\ q = tx.r
    BY <1>2, <1>4, <2>3
  <2>4. CASE t = tx.s /\ tx.op \in Commits /\ q # tx.r
    BY <1>2, <1>3, <2>4 DEF RowInv, HandleInv
  <2> QED
    BY <1>1, <2>1, <2>2, <2>3, <2>4
<1>7. CommitInv'
  <2>1. ASSUME tx.op \in Commits, NEW t \in Sessions, tx.r \in Rows(manifest'[t])
        PROVE  /\ manifest'[t].heads[tx.r].rev = known[tx.r] + 1
               /\ Outcome(tx.op, manifest'[t].heads[tx.r])
    BY <1>2, <1>4, <2>1
  <2> QED
    BY <1>1, <2>1 DEF RowInv, CommitInv, Preparing
<1>8. LiveInv'
  <2>1. ASSUME proc = "up", NEW t \in Sessions, NEW q \in Rows(manifest'[t]), ~Final(manifest'[t].heads[q])
        PROVE  client[q] \in Owning
    <3>1. tx.op \in Commits
      BY <1>1, <2>1, BootStages
    <3>2. CASE t = tx.s /\ q = tx.r
      BY <1>4, <3>1, <3>2
    <3>3. CASE t = tx.s /\ q # tx.r
      BY <1>2, <1>3, <2>1, <3>1, <3>3 DEF RowInv, LiveInv
    <3>4. CASE t # tx.s
      BY <1>2, <2>1, <3>4 DEF RowInv, LiveInv
    <3> QED
      BY <3>2, <3>3, <3>4
  <2> QED
    BY <1>1, <2>1 DEF RowInv, LiveInv
<1>9. BootInv'
  BY <1>1, <1>2 DEF RowInv, BootInv
<1> QED
  BY <1>5, <1>6, <1>7, <1>8, <1>9 DEF RowInv

LEMMA RowReturns ==
  ASSUME TypeOK, TxShape, RowInv, Returns
  PROVE  RowInv'
<1>1. tx'.op = "none" /\ tx'.pc = "idle" /\ victim' = NoRun /\ UNCHANGED manifest
  BY IdleTaken DEF Returns
<1>2. VictimInv' /\ CandidateRows' /\ CommitInv'
  BY <1>1 DEF VictimInv, CandidateRows, CommitInv, Preparing, Commits
<1>3. CASE tx.pc = "undo" /\ UNCHANGED <<proc, client, known>>
  <2>1. proc # "boot"
    BY <1>3, BootStages
  <2> QED
    BY <1>1, <1>2, <1>3, <2>1 DEF RowInv, HandleInv, LiveInv, BootInv
<1>4. CASE tx.op = "boot" /\ Booted
  <2>1. /\ tx.pc = "enforce" /\ proc = "boot" /\ proc' = "up" /\ UNCHANGED <<client, known>>
    BY <1>4, BootStages DEF Booted, At
  <2>2. \A s \in Sessions : Ended(manifest[s])
    BY <2>1 DEF RowInv, BootInv
  <2> QED
    BY <1>1, <1>2, <2>1, <2>2 DEF RowInv, HandleInv, LiveInv, BootInv, Ended
<1>5. CASE Committed
  <2>1. /\ tx.pc = "enforce" /\ tx.op \in Commits /\ tx.r \in Runs /\ proc = "up" /\ proc' = "up"
    BY <1>5, BootStages DEF Committed, At, TxShape, TypeOK, TxType, Stages, Commits
  <2>2. /\ \A q \in Runs : client'[q] = IF q # tx.r THEN client[q]
                                       ELSE IF tx.op = "terminal" THEN "claimed"
                                       ELSE IF tx.op = "finalize" THEN "done" ELSE client[tx.r]
        /\ \A q \in Runs : known'[q] = IF q = tx.r THEN known[q] + 1 ELSE known[q]
    BY <1>5, <2>1 DEF Committed, TypeOK
  <2>3. \A s \in Sessions : tx.r \in Rows(manifest[s]) =>
           manifest[s].heads[tx.r].rev = known[tx.r] + 1 /\ Outcome(tx.op, manifest[s].heads[tx.r])
    BY <2>1 DEF RowInv, CommitInv
  <2>4. tx.op = "update" => client[tx.r] = "running"
    BY <2>1 DEF RowInv, CommitInv
  <2>5. HandleInv'
    <3> SUFFICES ASSUME NEW s \in Sessions, NEW q \in Rows(manifest[s]), manifest[s].heads[q].rev = known'[q]
                 PROVE  Handle(manifest[s].heads[q], client'[q])
      BY <1>1 DEF HandleInv
    <3>1. q \in Runs
      BY DEF Rows
    <3>2. CASE q # tx.r
      BY <2>2, <3>1, <3>2 DEF RowInv, HandleInv
    <3>3. CASE q = tx.r
      BY <2>1, <2>2, <2>3, <2>4, <3>3 DEF Handle, Outcome, Commits
    <3> QED
      BY <3>2, <3>3
  <2>6. LiveInv'
    <3> SUFFICES ASSUME NEW s \in Sessions, NEW q \in Rows(manifest[s]), ~Final(manifest[s].heads[q])
                 PROVE  client'[q] \in Owning
      BY <1>1, <2>1 DEF LiveInv
    <3>1. q \in Runs /\ client[q] \in Owning
      BY <2>1 DEF Rows, RowInv, LiveInv
    <3>2. q = tx.r => tx.op # "finalize"
      BY <2>3 DEF Outcome
    <3> QED
      BY <2>2, <3>1, <3>2 DEF Owning
  <2>7. BootInv'
    BY <2>1 DEF BootInv
  <2> QED
    BY <1>2, <2>5, <2>6, <2>7 DEF RowInv
<1> QED
  BY <1>3, <1>4, <1>5 DEF Returns
-----------------------------------------------------------------------------
(* The calls: a commit starts from the row whose revision its caller holds. *)
LEMMA RowBegins ==
  ASSUME TypeOK, TxShape, Safe, RowInv, NEW op \in Commits, NEW s \in Sessions, NEW r \in Runs,
         NEW row, NEW new, BeginCommit(op, s, r, row, new),
         Advance(manifest[s].heads[r], row), Outcome(op, row),
         client[r] \in IF op = "finalize" THEN {"claimed", "enqueued"} ELSE {"running"}
  PROVE  RowInv'
<1>1. Ready /\ cache = manifest
  BY CacheIsDisk DEF BeginCommit, Safe
<1>2. /\ UNCHANGED <<manifest, cache, client, known, proc, victim>>
      /\ r \in Rows(manifest[s]) /\ manifest[s].heads[r].rev = known[r]
      /\ tx'.op = op /\ tx'.s = s /\ tx'.r = r /\ tx'.pc = "preflight"
      /\ tx'.cand = [manifest[s] EXCEPT !.heads[r] = row]
  BY <1>1 DEF BeginCommit, Idle, disk, Holds
<1>3. tx'.cand.heads[r] = row /\ \A q \in Runs \ {r} : tx'.cand.heads[q] = manifest[s].heads[q]
  BY <1>2 DEF TypeOK, ManifestType
<1>4. op # "insert"
  BY DEF Commits
<1>5. VictimInv' /\ HandleInv' /\ LiveInv'
  BY <1>2 DEF RowInv, VictimInv, HandleInv, LiveInv
<1>6. CandidateRows'
  <2>1. ASSUME NEW q \in Rows(manifest[s])
        PROVE  \/ tx'.cand.heads[q] = manifest[s].heads[q]
               \/ Advance(manifest[s].heads[q], tx'.cand.heads[q]) /\ q = r
    BY <1>3 DEF Rows
  <2> QED
    BY <1>2, <1>4, <2>1 DEF CandidateRows
<1>7. CommitInv'
  BY <1>2, <1>3 DEF CommitInv, Advance
<1>8. BootInv'
  BY <1>1, <1>2 DEF Ready, BootInv
<1> QED
  BY <1>5, <1>6, <1>7, <1>8 DEF RowInv

LEMMA RowCall ==
  ASSUME TypeOK, TxShape, Safe, RowInv, Call
  PROVE  RowInv'
<1>1. ASSUME NEW r \in Runs, ScratchWrite(r)
      PROVE  RowInv'
  BY <1>1, SameGoes, RowGoesOn DEF ScratchWrite, memory, ghosts
<1>2. ASSUME NEW r \in Runs, Enqueue(r)
      PROVE  RowInv'
  <2>1. /\ UNCHANGED <<manifest, cache, tx, victim, known, proc>> /\ client[r] = "claimed" /\ proc = "up"
        /\ \A q \in Runs : client'[q] = IF q = r THEN "enqueued" ELSE client[q]
    BY <1>2 DEF Enqueue, disk, TypeOK
  <2>2. VictimInv' /\ CandidateRows' /\ BootInv'
    BY <2>1 DEF RowInv, VictimInv, CandidateRows, BootInv
  <2>3. HandleInv'
    BY <2>1 DEF RowInv, HandleInv, Handle, Rows
  <2>4. CommitInv'
    <3>1. tx.op \in Commits => tx.r \in Runs
      BY DEF TxShape
    <3> QED
      BY <2>1, <3>1 DEF RowInv, CommitInv
  <2>5. LiveInv'
    BY <2>1 DEF RowInv, LiveInv, Owning, Rows
  <2> QED
    BY <2>2, <2>3, <2>4, <2>5 DEF RowInv
<1>3. ASSUME NEW s \in Sessions, NEW r \in Runs, InsertWithNextDisplayName(s, r)
      PROVE  RowInv'
  <2>1. /\ UNCHANGED <<manifest, client, known, proc, victim>> /\ proc = "up"
        /\ tx' = [Idle EXCEPT !.op = "insert", !.pc = "evict", !.s = s, !.r = r]
    BY <1>3 DEF InsertWithNextDisplayName, disk, Ready
  <2>2. tx'.op = "insert" /\ tx'.pc = "evict"
    BY <2>1 DEF Idle
  <2> QED
    BY <2>1, <2>2 DEF RowInv, VictimInv, CandidateRows, HandleInv, CommitInv, LiveInv, BootInv, Preparing, Commits
<1>4. ASSUME NEW s \in Sessions, NEW r \in Runs,
             \/ \E new \in BOOLEAN : CommitRun(s, r, new)
             \/ CommitTerminalAndClaimNotice(s, r) \/ FinalizeCompletionNotice(s, r)
      PROVE  RowInv'
  <2> DEFINE row == manifest[s].heads[r]
  <2>1. row \in RowType /\ minted[r] \in Nat
    BY RowTyped
  <2>2. ASSUME NEW op, NEW next, NEW new, BeginCommit(op, s, r, next, new)
        PROVE  cache = manifest /\ r \in Rows(manifest[s]) /\ Handle(row, client[r])
    <3>1. cache = manifest /\ r \in Rows(manifest[s]) /\ row.rev = known[r]
      BY <2>2, CacheIsDisk DEF BeginCommit, Safe, Holds
    <3> QED
      BY <3>1 DEF RowInv, HandleInv
  <2>3. cache = manifest
    BY <1>4, <2>2 DEF CommitRun, CommitTerminalAndClaimNotice, FinalizeCompletionNotice
  <2> HIDE DEF row
  <2>4. CASE \E new \in BOOLEAN : CommitRun(s, r, new)
    <3>1. PICK new \in BOOLEAN : CommitRun(s, r, new)
      BY <2>4
    <3> DEFINE d == IF new THEN minted[r] + 1 ELSE row.detail
    <3>2. BeginCommit("update", s, r, Updated(row, d), new) /\ client[r] = "running"
      BY <2>3, <3>1 DEF CommitRun, row
    <3>3. row.status = "active"
      BY <2>2, <3>2 DEF Handle
    <3>4. /\ Updated(row, d).status = row.status /\ Updated(row, d).rev = row.rev + 1
          /\ Updated(row, d).ordinal = row.ordinal
      BY <2>1 DEF Updated, RowType
    <3> HIDE DEF d
    <3>5. Advance(row, Updated(row, d)) /\ Outcome("update", Updated(row, d))
      BY <3>3, <3>4 DEF Advance, Outcome
    <3> QED
      BY <3>2, <3>5, RowBegins DEF Commits, row
  <2>5. CASE CommitTerminalAndClaimNotice(s, r)
    <3> DEFINE next == Claimed(row, minted[r] + 1)
    <3>1. BeginCommit("terminal", s, r, next, TRUE) /\ client[r] = "running"
      BY <2>3, <2>5 DEF CommitTerminalAndClaimNotice, row
    <3>2. row.status = "active"
      BY <2>2, <3>1 DEF Handle
    <3>3. next.status = "terminal" /\ next.notice = "claimed" /\ next.rev = row.rev + 1 /\ next.ordinal = row.ordinal
      BY <2>1 DEF Claimed, Updated, RowType
    <3> HIDE DEF next
    <3>4. Advance(row, next) /\ Outcome("terminal", next)
      BY <3>2, <3>3 DEF Advance, Outcome
    <3> QED
      BY <3>1, <3>4, RowBegins DEF Commits, row
  <2>6. CASE FinalizeCompletionNotice(s, r)
    <3> DEFINE n    == IF client[r] = "enqueued" THEN "delivered" ELSE "abandoned"
               next == Finalized(row, n)
    <3>1. BeginCommit("finalize", s, r, next, FALSE) /\ client[r] \in {"claimed", "enqueued"}
      BY <2>3, <2>6 DEF FinalizeCompletionNotice, row
    <3>2. row.status = "terminal" /\ row.notice = "claimed"
      BY <2>2, <3>1 DEF Handle
    <3>3. next.status = row.status /\ next.notice \in {"delivered", "abandoned"}
          /\ next.rev = row.rev + 1 /\ next.ordinal = row.ordinal
      BY <2>1 DEF Finalized, RowType
    <3> HIDE DEF next
    <3>4. Advance(row, next) /\ Outcome("finalize", next)
      BY <3>2, <3>3 DEF Advance, Outcome, Final
    <3> QED
      BY <3>1, <3>4, RowBegins DEF Commits, row
  <2> QED
    BY <1>4, <2>4, <2>5, <2>6
<1> QED
  BY <1>1, <1>2, <1>3, <1>4 DEF Call
-----------------------------------------------------------------------------
(* The steps that prepare a candidate, and the boot. *)
LEMMA RowRetained ==
  ASSUME TypeOK, TxShape, Safe, RowInv, Retained
  PROVE  RowInv'
<1> DEFINE cand == Inserted(cache[tx.s], tx.r, minted[tx.r] + 1)
<1>1. /\ tx.pc = "evict" /\ tx' = [tx EXCEPT !.pc = "preflight", !.cand = cand]
      /\ UNCHANGED <<manifest, client, known, proc, victim>>
  BY DEF Retained, At, disk
<1>2. tx.op = "insert" /\ tx.r \in Runs /\ tx.s \in Sessions /\ proc = "up"
  BY <1>1, BootStages DEF TxShape
<1>3. cache = manifest
  BY <1>1, <1>2, CacheIsDisk DEF Safe
<1>4. /\ cand.heads[tx.r].status = "active" /\ cand.heads[tx.r].rev = 1
      /\ \A q \in Runs \ {tx.r} : cand.heads[q] = manifest[tx.s].heads[q]
  BY <1>2, <1>3 DEF Inserted, WithRow, TypeOK, ManifestType
<1> HIDE DEF cand
<1>5. tx'.op = "insert" /\ tx'.s = tx.s /\ tx'.r = tx.r /\ tx'.cand = cand
  BY <1>1, <1>2 DEF TypeOK, TxType
<1>6. CandidateRows'
  <2>1. \A q \in Rows(manifest[tx.s]) : cand.heads[q] = manifest[tx.s].heads[q]
    BY <1>2, <1>4 DEF Rows, Safe, InsertInv
  <2> QED
    BY <1>1, <1>4, <1>5, <2>1 DEF CandidateRows
<1>7. VictimInv' /\ HandleInv' /\ CommitInv' /\ LiveInv' /\ BootInv'
  BY <1>1, <1>2, <1>5 DEF RowInv, VictimInv, HandleInv, CommitInv, LiveInv, BootInv, Commits
<1> QED
  BY <1>6, <1>7 DEF RowInv

(* A recovery ends each row, or leaves one that had ended. *)
LEMMA RecoveryEnds ==
  ASSUME NEW m \in ManifestType, Shaped(m), NEW q \in Rows(m)
  PROVE  LET next == RecoveredManifest(m).heads[q]
         IN  Final(next) /\ (next = m.heads[q] \/ Advance(m.heads[q], next))
<1> DEFINE row == m.heads[q]
           d   == minted[q] + 1
<1>1. /\ row \in RowType /\ row.status # "none" /\ (row.notice = "none" <=> row.status # "terminal")
      /\ RecoveredManifest(m).heads[q] = Recovered(row, d)
  BY DEF RecoveredManifest, ManifestType, Rows, Shaped
<1> HIDE DEF row, d
<1>2. CASE row.status = "active"
  <2>1. /\ Interrupted(row, d).status = "terminal" /\ Interrupted(row, d).notice = "abandoned"
        /\ Interrupted(row, d).rev = row.rev + 1 /\ Interrupted(row, d).ordinal = row.ordinal
    BY <1>1 DEF Interrupted, Updated, RowType
  <2>2. Final(Interrupted(row, d)) /\ Advance(row, Interrupted(row, d))
    BY <1>2, <2>1 DEF Final, Advance
  <2> QED
    BY <1>1, <1>2, <2>2 DEF Recovered, row
<1>3. CASE row.status = "terminal" /\ row.notice = "claimed"
  <2>1. /\ Finalized(row, "abandoned").status = "terminal" /\ Finalized(row, "abandoned").notice = "abandoned"
        /\ Finalized(row, "abandoned").rev = row.rev + 1 /\ Finalized(row, "abandoned").ordinal = row.ordinal
    BY <1>1, <1>3 DEF Finalized, RowType
  <2>2. Final(Finalized(row, "abandoned")) /\ Advance(row, Finalized(row, "abandoned"))
    BY <1>3, <2>1 DEF Final, Advance
  <2> QED
    BY <1>1, <1>3, <2>2 DEF Recovered, row
<1>4. CASE row.status = "terminal" /\ row.notice # "claimed"
  <2>1. Final(row) /\ Recovered(row, d) = row
    BY <1>1, <1>4 DEF Final, Recovered, RowType
  <2> QED
    BY <1>1, <2>1 DEF row
<1> QED
  BY <1>1, <1>2, <1>3, <1>4 DEF RowType

LEMMA RowPlan ==
  ASSUME TypeOK, TxShape, Safe, ShapeInv, RowInv, NEW s \in Sessions, Plan(s)
  PROVE  RowInv'
<1> DEFINE active == {q \in Rows(cache[s]) : cache[s].heads[q].status = "active"}
           cand   == RecoveredManifest(cache[s])
           pc     == IF active # {} THEN "detail" ELSE IF cand # cache[s] THEN "persist" ELSE "plan"
<1>1. /\ tx.pc = "plan" /\ UNCHANGED <<manifest, client, known, proc, victim>>
      /\ tx.op = "boot" /\ proc = "boot"
      /\ tx'.op = "boot" /\ tx'.s = s /\ tx'.cand = cand /\ tx'.pc = pc /\ tx'.todo = tx.todo \ {s}
  <2>1. tx.pc = "plan" /\ UNCHANGED <<manifest, client, known, proc, victim>>
    BY DEF Plan, At, disk
  <2>2. tx.op = "boot" /\ proc = "boot"
    BY <2>1, BootStages
  <2> QED
    BY <2>1, <2>2 DEF Plan, TypeOK, TxType
<1>2. cache = manifest
  BY <1>1, CacheIsDisk DEF Safe
<1>3. \A q \in Rows(manifest[s]) :
        Final(cand.heads[q]) /\ (cand.heads[q] = manifest[s].heads[q] \/ Advance(manifest[s].heads[q], cand.heads[q]))
  BY <1>2, RecoveryEnds DEF ShapeInv, TypeOK
<1>4. \A q \in Rows(cand) : q \in Rows(manifest[s])
  <2>1. manifest[s] \in ManifestType /\ cand = RecoveredManifest(manifest[s])
    BY <1>2 DEF TypeOK
  <2> QED
    BY <2>1, RecoveredRows, RowsAre
<1>5. pc \in {"detail", "persist", "plan"} /\ (pc = "plan" => cand = manifest[s])
  BY <1>2
<1> HIDE DEF active, cand, pc
<1>6. Ended(cand) /\ (pc = "plan" => Ended(manifest[s]))
  BY <1>3, <1>4, <1>5 DEF Ended
<1>7. CandidateRows'
  BY <1>1, <1>3 DEF CandidateRows, Commits
<1>8. VictimInv' /\ HandleInv' /\ LiveInv' /\ CommitInv'
  BY <1>1 DEF RowInv, VictimInv, HandleInv, LiveInv, CommitInv, Commits
<1>9. BootInv'
  BY <1>1, <1>5, <1>6 DEF RowInv, BootInv
<1> QED
  BY <1>7, <1>8, <1>9 DEF RowInv

LEMMA RowOpens ==
  ASSUME TypeOK, TxShape, RowInv, Reconciled \/ Boot \/ Crash
  PROVE  RowInv'
<1>1. CASE Reconciled
  <2>1. /\ UNCHANGED <<manifest, client, known, proc, victim>> /\ tx.pc = "reconcile"
        /\ tx' = [tx EXCEPT !.pc = "fit", !.todo = {s \in Sessions : manifest[s] # Empty}]
    BY <1>1 DEF Reconciled, At, disk
  <2>2. tx.op = "boot"
    BY <2>1, BootStages
  <2>3. tx'.op = "boot" /\ tx'.pc = "fit" /\ tx'.todo = {s \in Sessions : manifest[s] # Empty}
    BY <2>1, <2>2 DEF TypeOK, TxType
  <2>4. Ended(Empty)
    BY EmptyRows DEF Ended
  <2>5. BootInv'
    BY <2>1, <2>3, <2>4 DEF BootInv
  <2> QED
    BY <2>1, <2>3, <2>5 DEF RowInv, VictimInv, CandidateRows, HandleInv, CommitInv, LiveInv, Preparing, Commits
<1>2. CASE Boot
  <2>1. /\ UNCHANGED <<manifest, client, known, victim>> /\ proc = "down" /\ proc' = "boot"
        /\ tx' = [Idle EXCEPT !.op = "boot", !.pc = "validate"]
    BY <1>2 DEF Boot, disk
  <2>2. tx'.op = "boot" /\ tx'.pc = "validate"
    BY <2>1 DEF Idle
  <2> QED
    BY <2>1, <2>2
       DEF RowInv, VictimInv, CandidateRows, HandleInv, CommitInv, LiveInv, BootInv, Preparing, Commits
<1>3. CASE Crash
  <2>1. /\ manifest' = manifest /\ proc' = "down" /\ victim' = NoRun /\ tx'.op = "none" /\ tx'.pc = "idle"
        /\ \A r \in Runs : client'[r] = "none"
    BY <1>3, IdleTaken DEF Crash, disk
  <2> QED
    BY <2>1 DEF VictimInv, CandidateRows, HandleInv, Handle, CommitInv, LiveInv, BootInv, RowInv, Rows,
                Preparing, Commits
<1> QED
  BY <1>1, <1>2, <1>3

LEMMA RowStep ==
  ASSUME TypeOK, TxShape, StoreInv, ShapeInv, OwnedInv, [Next]_vars
  PROVE  OwnedInv'
<1> SUFFICES ASSUME faults'["late"] = 0
             PROVE  RowInv'
  BY DEF OwnedInv
<1>1. Safe /\ RowInv
  BY LateStep DEF StoreInv, OwnedInv
<1>2. ~\E s \in Sessions : ThrowsLate(s)
  BY DEF ThrowsLate
<1> QED
  BY <1>1, <1>2, StoreMoves, RowGoesOn, RowThrows, RowReturns, RowCall, RowRetained, RowOpens,
     RowPlan, RowEvicts, RowAdmits, RowRewrites

LEMMA RowInit == Init => OwnedInv
<1> SUFFICES ASSUME Init PROVE RowInv
  BY DEF OwnedInv
<1>1. /\ \A s \in Sessions : Rows(manifest[s]) = {}
      /\ tx.op = "none" /\ tx.pc = "idle" /\ victim = NoRun /\ proc = "down"
      /\ \A r \in Runs : client[r] = "none"
  BY EmptyRows DEF Init, Idle
<1> QED
  BY <1>1 DEF RowInv, VictimInv, CandidateRows, HandleInv, CommitInv, LiveInv, BootInv, Preparing, Commits

LEMMA RowsAreSound == Spec => []OwnedInv
<1>1. TypeOK /\ TxShape /\ StoreInv /\ [Next]_vars => StoreInv'
  BY SafeStep
<1>2. TypeOK /\ TxShape /\ NoticeInv /\ [Next]_vars => NoticeInv'
  BY NoticeStep
<1>3. TypeOK /\ TxShape /\ StoreInv /\ NoticeInv /\ OwnedInv /\ [Next]_vars => OwnedInv'
  BY RowStep DEF NoticeInv
<1>4. Init => StoreInv /\ NoticeInv /\ OwnedInv
  BY SafeInit, NoticeInit, RowInit
<1> QED
  BY <1>1, <1>2, <1>3, <1>4, TypeCorrect, PTL DEF Spec

(* In a running store a row that is active or claimed belongs to the living *)
(* process: every recovery ends what a dead one left, whenever it died and  *)
(* whatever failed, unless a step threw after its effect (initializeUnlocked). *)
THEOREM LiveRowsHaveOwners == Spec => []LiveRowsAreOwned
<1>1. OwnedInv => LiveRowsAreOwned
  BY DEF OwnedInv, RowInv, LiveInv, LiveRowsAreOwned, Ready, Owning
<1> QED
  BY <1>1, RowsAreSound, PTL

LEMMA CallKeepsTheStore ==
  ASSUME Call
  PROVE  UNCHANGED <<manifest, cache, place, files>>
<1>1. ASSUME NEW op, NEW s, NEW r, NEW row, NEW new, BeginCommit(op, s, r, row, new)
      PROVE  UNCHANGED <<manifest, cache, place, files>>
  BY <1>1 DEF BeginCommit, disk
<1>2. ASSUME NEW s, NEW r,
             \/ Enqueue(r) \/ ScratchWrite(r) \/ InsertWithNextDisplayName(s, r)
             \/ \E new \in BOOLEAN : CommitRun(s, r, new)
             \/ CommitTerminalAndClaimNotice(s, r) \/ FinalizeCompletionNotice(s, r)
      PROVE  UNCHANGED <<manifest, cache, place, files>>
  BY <1>1, <1>2 DEF Enqueue, ScratchWrite, InsertWithNextDisplayName, CommitRun,
                    CommitTerminalAndClaimNotice, FinalizeCompletionNotice, disk, memory
<1> QED
  BY <1>2 DEF Call

(* What a step makes of the rows on disk. *)
LEMMA RowChanges ==
  ASSUME TypeOK, TxShape, Safe, RowInv, [Next]_vars, NEW s \in Sessions, NEW r \in Rows(manifest[s])
  PROVE  LET old == manifest[s].heads[r]
             new == manifest'[s].heads[r]
         IN  \/ new = old \/ Advance(old, new)
             \/ new.status = "none" /\ Final(old)
<1> DEFINE old == manifest[s].heads[r]
           new == manifest'[s].heads[r]
           Allowed == new = old \/ Advance(old, new) \/ (new.status = "none" /\ Final(old))
<1>1. CASE UNCHANGED manifest
  BY <1>1
<1>2. r \in Runs
  BY DEF Rows
(* The victim's manifest loses the victim, and nothing else. *)
<1>3. ASSUME victim # NoRun, Holds(s, victim), manifest'[s] = Without(cache[s], victim)
      PROVE  Allowed
  <2>1. cache = manifest /\ victim \in Rows(manifest[s]) /\ manifest[s] \in ManifestType
    BY <1>3, BusyHasAnOperation, CacheIsDisk DEF Safe, TxShape, Holds, TypeOK
  <2>2. CASE r = victim
    <3>1. Final(old)
      BY <1>3, <2>1, <2>2 DEF RowInv, VictimInv
    <3>2. new.status = "none"
      BY <1>2, <1>3, <2>1, <2>2, WithoutRows, RowsAre
    <3> QED
      BY <3>1, <3>2
  <2>3. CASE r # victim
    BY <1>2, <1>3, <2>1, <2>3, WithoutRows
  <2> QED
    BY <2>2, <2>3
(* The transaction's manifest is its candidate. *)
<1>4. ASSUME tx.pc = "persist", s = tx.s, manifest'[s] = tx.cand
      PROVE  Allowed
  BY <1>4 DEF RowInv, CandidateRows, Preparing
<1>5. ASSUME NEW t \in Sessions, NEW m, Swaps(t, m)
      PROVE  manifest'[s] = IF s = t THEN m ELSE manifest[s]
  BY <1>5 DEF Swaps, TypeOK
<1> HIDE DEF old, new
<1>6. ASSUME NEW t \in Sessions, ThrowsLate(t)
      PROVE  Allowed
  <2>1. manifest'[s] = IF s = t THEN NewManifest(t) ELSE manifest[s]
    BY <1>5, <1>6 DEF ThrowsLate
  <2>2. CASE s = t /\ victim # NoRun
    BY <1>3, <1>6, <2>1, <2>2 DEF ThrowsLate, Persisting, NewManifest, At
  <2>3. CASE s = t /\ victim = NoRun
    BY <1>4, <1>6, <2>1, <2>3 DEF ThrowsLate, Persisting, NewManifest, At
  <2> QED
    BY <2>1, <2>2, <2>3 DEF old, new
<1>7. ASSUME NEW t \in Sessions, Evicts(t)
      PROVE  Allowed
  <2>1. manifest'[s] = IF s = t THEN Without(cache[t], victim) ELSE manifest[s]
    BY <1>5, <1>7 DEF Evicts, Lands
  <2> QED
    BY <1>3, <1>7, <2>1 DEF Evicts, old, new
<1>8. CASE Admits \/ Rewrites
  <2>1. tx.pc = "persist" /\ tx.s \in Sessions
    BY <1>8, BootStages DEF Admits, Rewrites, Preparing
  <2>2. manifest'[s] = IF s = tx.s THEN tx.cand ELSE manifest[s]
    BY <1>5, <1>8, <2>1 DEF Admits, Rewrites, Lands
  <2> QED
    BY <1>4, <2>1, <2>2 DEF old, new
<1>9. CASE \/ Throws \/ GoesOn \/ Returns \/ Call \/ Retained \/ Reconciled \/ Boot \/ Crash
           \/ \E t \in Sessions : Plan(t)
  <2>1. UNCHANGED manifest
    BY <1>9, CallKeepsTheStore DEF Throws, GoesOn, Returns, Retained, Reconciled, Boot, Crash, Plan, disk
  <2> QED
    BY <1>1, <2>1 DEF old, new
<1> QED
  BY <1>6, <1>7, <1>8, <1>9, StoreMoves DEF old, new

(* As long as no step threw after its effect, a row leaves the disk only when *)
(* its run has ended and its notice is final; until then each step takes it   *)
(* one revision further, a terminal row is never reopened and a final one     *)
(* never changes, across failures, crashes and recoveries (commitRun,         *)
(* commitTerminalAndClaimNotice, finalizeCompletionNotice, evictForSession,   *)
(* initializeUnlocked).                                                       *)
THEOREM RowsNeverGoBack == Spec => RowsOnlyAdvance
<1> DEFINE A == faults["late"] = 0 => \A s \in Sessions : \A r \in Rows(manifest[s]) :
                  LET old == manifest[s].heads[r]
                      new == manifest'[s].heads[r]
                  IN  new # old =>
                        IF new.status = "none" THEN Final(old)
                        ELSE /\ new.rev = old.rev + 1 /\ new.ordinal = old.ordinal
                             /\ old.status = "terminal" => old.notice = "claimed" /\ Final(new)
<1>1. TypeOK /\ TxShape /\ StoreInv /\ OwnedInv /\ [Next]_vars => A
  BY RowChanges DEF StoreInv, OwnedInv, Advance
<1>2. TypeOK /\ TxShape /\ StoreInv /\ [Next]_vars => StoreInv'
  BY SafeStep
<1>3. Init => StoreInv
  BY SafeInit
<1>4. A => [A]_vars
  OBVIOUS
<1> HIDE DEF A
<1>5. Spec => [][A]_vars
  BY <1>1, <1>2, <1>3, <1>4, TypeCorrect, RowsAreSound, PTL DEF Spec
<1> QED
  BY <1>5, PTL DEF RowsOnlyAdvance, A
-----------------------------------------------------------------------------
(***************************************************************************)
(* RetainInv: no copy of a manifest ever holds more rows than a Session    *)
(* retains, whatever fails.                                                *)
(***************************************************************************)
Within(m) == Cardinality(Rows(m)) <= MaxRetained
RetainInv ==
  /\ \A s \in Sessions : Within(manifest[s]) /\ Within(cache[s])
  /\ tx.pc \in Preparing => Within(tx.cand)

LEMMA FewerRows ==
  ASSUME NEW m, NEW n, Within(n), Rows(m) \subseteq Rows(n)
  PROVE  Within(m)
<1>1. IsFiniteSet(Rows(n))
  BY RunStoreAssumption, FS_Subset DEF Rows
<1>2. Cardinality(Rows(m)) <= Cardinality(Rows(n)) /\ Cardinality(Rows(n)) \in Nat
      /\ Cardinality(Rows(m)) \in Nat /\ MaxRetained \in Nat
  BY <1>1, FS_Subset, FS_CardinalityType, RunStoreAssumption
<1> QED
  BY <1>2 DEF Within

LEMMA EmptyWithin == Within(Empty)
BY EmptyRows, FS_EmptySet, RunStoreAssumption DEF Within

LEMMA RetainSwap ==
  ASSUME TypeOK, RetainInv, NEW s \in Sessions, NEW m, Within(m)
  PROVE  /\ Swaps(s, m) => \A t \in Sessions : Within(manifest'[t])
         /\ Lands(s, m) => \A t \in Sessions : Within(manifest'[t]) /\ Within(cache'[t])
<1>1. \A t \in Sessions : /\ [manifest EXCEPT ![s] = m][t] \in {m, manifest[t]}
                          /\ [cache EXCEPT ![s] = m][t] \in {m, cache[t]}
  BY DEF TypeOK
<1> QED
  BY <1>1 DEF Swaps, Lands, RetainInv

LEMMA RetainWithout ==
  ASSUME NEW m \in ManifestType, NEW v, Within(m)
  PROVE  Within(Without(m, v))
BY WithoutRows, FewerRows

LEMMA RetainKeeps ==
  ASSUME TypeOK, TxShape, RetainInv, GoesOn \/ Throws \/ Returns \/ Reconciled \/ Boot \/ Crash
  PROVE  RetainInv'
<1>1. manifest' = manifest
  BY DEF GoesOn, Throws, Returns, Reconciled, Boot, Crash, disk
<1>2. \A s \in Sessions : cache'[s] \in {cache[s], manifest[s], Empty}
  BY AbandonsTx DEF GoesOn, Throws, Returns, Reconciled, Boot, Crash
<1>3. \A s \in Sessions : Within(manifest'[s]) /\ Within(cache'[s])
  BY <1>1, <1>2, EmptyWithin DEF RetainInv
<1>4. tx'.pc \in Preparing => tx.pc \in Preparing /\ tx'.cand = tx.cand
  <2>1. CASE GoesOn
    BY <2>1 DEF GoesOn, Onward, Preparing
  <2>2. CASE Throws
    BY <2>2, AbandonsTx, IdleTaken DEF Throws, Preparing
  <2>3. CASE Returns \/ Crash
    BY <2>3, IdleTaken DEF Returns, Crash, Preparing
  <2>4. CASE Reconciled
    <3>1. tx' = [tx EXCEPT !.pc = "fit", !.todo = {s \in Sessions : manifest[s] # Empty}]
      BY <2>4 DEF Reconciled
    <3>2. tx'.pc = "fit"
      BY <3>1 DEF TypeOK, TxType
    <3> QED
      BY <3>2 DEF Preparing
  <2>5. CASE Boot
    <3>1. tx' = [Idle EXCEPT !.op = "boot", !.pc = "validate"]
      BY <2>5 DEF Boot
    <3>2. tx'.pc = "validate"
      BY <3>1 DEF Idle
    <3> QED
      BY <3>2 DEF Preparing
  <2> QED
    BY <2>1, <2>2, <2>3, <2>4, <2>5
<1> QED
  BY <1>3, <1>4 DEF RetainInv

LEMMA RetainReplaces ==
  ASSUME TypeOK, TxShape, RetainInv,
         Admits \/ Rewrites \/ \E s \in Sessions : ThrowsLate(s) \/ Evicts(s)
  PROVE  RetainInv'
<1>1. CASE Admits \/ Rewrites
  <2>1. tx.s \in Sessions /\ Within(tx.cand)
    BY <1>1, BootStages DEF Admits, Rewrites, RetainInv, Preparing
  <2>2. \A t \in Sessions : Within(manifest'[t]) /\ Within(cache'[t])
    BY <1>1, <2>1, RetainSwap DEF Admits, Rewrites
  <2>3. tx'.pc \in {"idle", "drop"}
    BY <1>1, IdleTaken DEF Admits, Rewrites, Goto, TypeOK, TxType
  <2> QED
    BY <2>2, <2>3 DEF RetainInv, Preparing
<1>2. ASSUME NEW s \in Sessions, ThrowsLate(s)
      PROVE  RetainInv'
  <2>1. CASE victim # NoRun
    <3>1. NewManifest(s) = Without(cache[s], victim)
      BY <2>1 DEF NewManifest
    <3> QED
      BY <3>1, RetainWithout, RetainSwap, <1>2, AbandonsTx, IdleTaken, EmptyWithin
         DEF RetainInv, ThrowsLate, TypeOK, Preparing
  <2>2. CASE victim = NoRun
    <3>1. NewManifest(s) = tx.cand /\ tx.pc = "persist"
      BY <1>2, <2>2 DEF NewManifest, ThrowsLate, Persisting, At
    <3> QED
      BY <3>1, RetainSwap, <1>2, AbandonsTx, IdleTaken, EmptyWithin DEF RetainInv, ThrowsLate, Preparing
  <2> QED
    BY <2>1, <2>2
<1>3. ASSUME NEW s \in Sessions, Evicts(s)
      PROVE  RetainInv'
  <2>1. Within(Without(cache[s], victim)) /\ (tx.pc \in Preparing => Within(Without(tx.cand, victim)))
    BY RetainWithout DEF RetainInv, TypeOK, TxType
  <2>2. /\ tx'.pc = tx.pc
        /\ tx'.cand = (IF s = tx.s THEN Without(tx.cand, victim) ELSE tx.cand)
    BY <1>3 DEF Evicts, TypeOK, TxType
  <2>3. \A t \in Sessions : Within(manifest'[t]) /\ Within(cache'[t])
    BY <1>3, <2>1, RetainSwap DEF Evicts
  <2> QED
    BY <2>1, <2>2, <2>3 DEF RetainInv
<1> QED
  BY <1>1, <1>2, <1>3

LEMMA RetainPrepares ==
  ASSUME TypeOK, TxShape, RetainInv, Call \/ Retained \/ \E s \in Sessions : Plan(s)
  PROVE  RetainInv'
<1>1. manifest' = manifest /\ cache' = cache
  BY CallKeepsTheStore DEF Retained, Plan, disk
<1> SUFFICES ASSUME tx'.pc \in Preparing
             PROVE  Within(tx'.cand)
  BY <1>1 DEF RetainInv
<1>2. CASE Call
  <2>1. ASSUME NEW r \in Runs, Enqueue(r) \/ ScratchWrite(r)
        PROVE  Within(tx'.cand)
    BY <2>1 DEF Enqueue, ScratchWrite, memory, RetainInv
  <2>2. ASSUME NEW s \in Sessions, NEW r \in Runs, InsertWithNextDisplayName(s, r)
        PROVE  FALSE
    <3>1. tx' = [Idle EXCEPT !.op = "insert", !.pc = "evict", !.s = s, !.r = r]
      BY <2>2 DEF InsertWithNextDisplayName
    <3>2. tx'.pc = "evict"
      BY <3>1 DEF Idle
    <3> QED
      BY <3>2 DEF Preparing
  <2>3. ASSUME NEW op, NEW s \in Sessions, NEW r \in Runs, NEW row, NEW new, BeginCommit(op, s, r, row, new)
        PROVE  Within(tx'.cand)
    <3>1. r \in Rows(cache[s]) /\ tx'.cand = [cache[s] EXCEPT !.heads[r] = row]
      BY <2>3 DEF BeginCommit, Holds, Idle
    <3>2. \A q \in Runs \ {r} : tx'.cand.heads[q] = cache[s].heads[q]
      BY <3>1 DEF TypeOK, ManifestType
    <3>3. Rows(tx'.cand) \subseteq Rows(cache[s])
      BY <3>1, <3>2 DEF Rows
    <3> QED
      BY <3>3, FewerRows DEF RetainInv
  <2> QED
    BY <1>2, <2>1, <2>2, <2>3
       DEF Call, CommitRun, CommitTerminalAndClaimNotice, FinalizeCompletionNotice
<1>3. CASE Retained
  <2> DEFINE cand == Inserted(cache[tx.s], tx.r, minted[tx.r] + 1)
             rows == Rows(cache[tx.s])
  <2>1. /\ tx.pc = "evict" /\ ~Crowded /\ tx' = [tx EXCEPT !.pc = "preflight", !.cand = cand]
    BY <1>3 DEF Retained, At
  <2>2. tx.r \in Runs /\ tx.s \in Sessions
    BY <2>1, BootStages DEF TxShape
  <2>3. \A q \in Runs \ {tx.r} : cand.heads[q] = cache[tx.s].heads[q]
    BY <2>2 DEF Inserted, WithRow, TypeOK, ManifestType
  <2> HIDE DEF cand
  <2>4. Rows(cand) \subseteq rows \cup {tx.r}
    BY <2>3 DEF Rows
  <2>5. ~(Cardinality(rows) + 1 > MaxRetained)
    BY <2>1 DEF Crowded
  <2> HIDE DEF rows
  <2>6. IsFiniteSet(rows)
    BY RunStoreAssumption, FS_Subset DEF Rows, rows
  <2>7. /\ Cardinality(rows) \in Nat /\ IsFiniteSet(rows \cup {tx.r})
        /\ Cardinality(rows \cup {tx.r}) <= Cardinality(rows) + 1
    <3>1. Cardinality(rows) \in Nat
      BY <2>6, FS_CardinalityType
    <3>2. /\ IsFiniteSet(rows \cup {tx.r})
          /\ Cardinality(rows \cup {tx.r}) = IF tx.r \in rows THEN Cardinality(rows) ELSE Cardinality(rows) + 1
      BY <2>6, FS_AddElement
    <3> QED
      BY <3>1, <3>2
  <2>8. Cardinality(Rows(cand)) <= Cardinality(rows \cup {tx.r})
        /\ Cardinality(Rows(cand)) \in Nat /\ Cardinality(rows \cup {tx.r}) \in Nat
    BY <2>4, <2>7, FS_Subset, FS_CardinalityType
  <2>9. Within(cand)
    BY <2>5, <2>7, <2>8, RunStoreAssumption DEF Within
  <2>10. tx'.cand = cand
    BY <2>1 DEF TypeOK, TxType
  <2> QED
    BY <2>9, <2>10
<1>4. ASSUME NEW s \in Sessions, Plan(s)
      PROVE  Within(tx'.cand)
  <2>1. tx'.cand = RecoveredManifest(cache[s]) /\ cache[s] \in ManifestType
    BY <1>4 DEF Plan, TypeOK, TxType
  <2>2. Rows(RecoveredManifest(cache[s])) \subseteq Rows(cache[s])
    BY <2>1, RecoveredRows, RowsAre
  <2> QED
    BY <2>1, <2>2, FewerRows DEF RetainInv
<1> QED
  BY <1>2, <1>3, <1>4

LEMMA RetainStep ==
  ASSUME TypeOK, TxShape, RetainInv, [Next]_vars
  PROVE  RetainInv'
BY StoreMoves, RetainKeeps, RetainReplaces, RetainPrepares

LEMMA RetainInit == Init => RetainInv
BY EmptyWithin DEF Init, Idle, RetainInv, Preparing
-----------------------------------------------------------------------------
(***************************************************************************)
(* SizeInv: a running store stays within its bytes, because a transaction  *)
(* has reserved what it is about to write.  It is about a store whose      *)
(* scripts write no scratch file, which nothing reserves.                  *)
(***************************************************************************)
Pairs == UNION {{<<r, d>> : d \in files[r]} : r \in Runs}
NoScratch == scratch = {} /\ \A r \in Runs : <<"scratch", r>> \notin temps
Reserved ==
  /\ tx.op = "insert" /\ tx.pc = "stage" => Bytes + 1 <= MaxBytes
  /\ tx.op \in Commits /\ tx.pc = "detail" => Bytes + Cardinality(tx.dets) <= MaxBytes
  /\ tx.op \in Commits => tx.dets \subseteq {tx.r}
SizeInv ==
  /\ NoScratch /\ IsFiniteSet(Pairs) /\ Reserved
  /\ proc = "up" => Bytes <= MaxBytes

LEMMA BytesAre ==
  ASSUME IsFiniteSet(Pairs), scratch = {}
  PROVE  Bytes = Cardinality(Pairs) /\ Bytes \in Nat
<1>1. Cardinality(Pairs) \in Nat /\ Cardinality(scratch) = 0
  BY FS_CardinalityType, FS_EmptySet
<1> QED
  BY <1>1 DEF Bytes, Pairs

LEMMA BytesShrink ==
  ASSUME IsFiniteSet(Pairs), scratch = {}, scratch' \subseteq scratch,
         \A r \in Runs : files'[r] \subseteq files[r]
  PROVE  IsFiniteSet(Pairs)' /\ Bytes' <= Bytes /\ Bytes \in Nat /\ Bytes' \in Nat
<1>1. Pairs' \subseteq Pairs
  BY DEF Pairs
<1>2. IsFiniteSet(Pairs)' /\ Cardinality(Pairs') <= Cardinality(Pairs)
  BY <1>1, FS_Subset
<1>3. Bytes = Cardinality(Pairs) /\ Bytes \in Nat
  BY BytesAre
<1>4. Cardinality(Pairs)' \in Nat /\ Cardinality(scratch') = 0
  BY <1>2, FS_CardinalityType, FS_EmptySet
<1>5. Bytes' = Cardinality(Pairs)'
  BY <1>4 DEF Bytes, Pairs
<1> QED
  BY <1>2, <1>3, <1>4, <1>5

LEMMA BytesGrow ==
  ASSUME IsFiniteSet(Pairs), scratch = {}, scratch' = scratch, NEW r \in Runs, NEW d,
         files'[r] \subseteq files[r] \cup {d}, \A q \in Runs \ {r} : files'[q] \subseteq files[q]
  PROVE  IsFiniteSet(Pairs)' /\ Bytes' <= Bytes + 1 /\ Bytes \in Nat /\ Bytes' \in Nat
<1>1. Pairs' \subseteq Pairs \cup {<<r, d>>}
  BY DEF Pairs
<1>2. Bytes = Cardinality(Pairs) /\ Bytes \in Nat
  BY BytesAre
<1>3. /\ IsFiniteSet(Pairs \cup {<<r, d>>})
      /\ Cardinality(Pairs \cup {<<r, d>>})
           = IF <<r, d>> \in Pairs THEN Cardinality(Pairs) ELSE Cardinality(Pairs) + 1
  BY FS_AddElement
<1>4. IsFiniteSet(Pairs)' /\ Cardinality(Pairs') <= Cardinality(Pairs \cup {<<r, d>>})
  BY <1>1, <1>3, FS_Subset
<1>5. Cardinality(Pairs)' \in Nat /\ Cardinality(scratch') = 0
  BY <1>4, FS_CardinalityType, FS_EmptySet
<1>6. Bytes' = Cardinality(Pairs)'
  BY <1>5 DEF Bytes, Pairs
<1> QED
  BY <1>2, <1>3, <1>4, <1>5, <1>6

(* A step that writes no file and reserves no room. *)
Thrifty ==
  /\ \A r \in Runs : files'[r] \subseteq files[r]
  /\ scratch' \subseteq scratch
  /\ \A r \in Runs : <<"scratch", r>> \in temps' => <<"scratch", r>> \in temps
  /\ proc' = "up" => proc = "up" \/ Bytes <= MaxBytes
  /\ tx'.pc \in {"stage", "detail"} /\ tx'.op # "boot" =>
       tx'.pc = tx.pc /\ tx'.op = tx.op /\ tx'.dets = tx.dets
  /\ tx'.op \in Commits => tx'.dets \subseteq {tx'.r}

LEMMA RoomStays ==
  ASSUME NEW a \in Nat, NEW b \in Nat, NEW c \in Nat, NEW m \in Nat, b <= a, a + c <= m
  PROVE  b + c <= m
OBVIOUS

LEMMA ThriftySize ==
  ASSUME SizeInv, Thrifty
  PROVE  SizeInv'
<1>1. IsFiniteSet(Pairs)' /\ Bytes' <= Bytes /\ Bytes \in Nat /\ Bytes' \in Nat /\ MaxBytes \in Nat
  BY BytesShrink, RunStoreAssumption DEF SizeInv, NoScratch, Thrifty
<1>2. NoScratch'
  BY DEF SizeInv, NoScratch, Thrifty
<1>3. proc' = "up" => Bytes' <= MaxBytes
  BY <1>1 DEF SizeInv, Thrifty
<1>4. ASSUME tx'.op = "insert", tx'.pc = "stage"
      PROVE  Bytes' + 1 <= MaxBytes
  <2>1. Bytes + 1 <= MaxBytes
    BY <1>4 DEF SizeInv, Reserved, Thrifty
  <2> QED
    BY <1>1, <2>1, RoomStays
<1>5. ASSUME tx'.op \in Commits, tx'.pc = "detail"
      PROVE  Bytes' + Cardinality(tx'.dets) <= MaxBytes
  <2>1. /\ tx'.dets = tx.dets /\ Bytes + Cardinality(tx.dets) <= MaxBytes /\ tx.dets \subseteq {tx.r}
    BY <1>5 DEF SizeInv, Reserved, Thrifty, Commits
  <2>2. Cardinality(tx.dets) \in Nat
    BY <2>1, FS_Singleton, FS_Subset, FS_CardinalityType
  <2> QED
    BY <1>1, <2>1, <2>2, RoomStays
<1>6. Reserved'
  BY <1>4, <1>5 DEF Reserved, Thrifty
<1> QED
  BY <1>1, <1>2, <1>3, <1>6 DEF SizeInv

(* What a step does to the transaction in Thrifty. *)
Settles ==
  /\ proc' = "up" => proc = "up" \/ Bytes <= MaxBytes
  /\ tx'.pc \in {"stage", "detail"} /\ tx'.op # "boot" =>
       tx'.pc = tx.pc /\ tx'.op = tx.op /\ tx'.dets = tx.dets
  /\ tx'.op \in Commits => tx'.dets \subseteq {tx'.r}

LEMMA ThrowSettles ==
  ASSUME TypeOK, SizeInv, Throw
  PROVE  Settles
<1>1. proc' = "up" => proc = "up"
  BY DEF Throw
<1>2. tx' = Idle \/ Goto("undo")
  BY DEF Throw
<1>3. CASE tx' = Idle
  BY <1>1, <1>3, IdleTaken DEF Settles, Commits
<1>4. CASE Goto("undo")
  <2>1. tx'.pc = "undo" /\ tx'.op = tx.op /\ tx'.dets = tx.dets /\ tx'.r = tx.r
    BY <1>4 DEF Goto, TypeOK, TxType
  <2> QED
    BY <1>1, <2>1 DEF Settles, SizeInv, Reserved
<1> QED
  BY <1>2, <1>3, <1>4

LEMMA GotoSettles ==
  ASSUME TypeOK, SizeInv, NEW pc, Goto(pc), proc' = proc, pc \notin {"stage", "detail"}
  PROVE  Settles
<1>1. tx'.pc = pc /\ tx'.op = tx.op /\ tx'.dets = tx.dets /\ tx'.r = tx.r
  BY DEF Goto, TypeOK, TxType
<1> QED
  BY <1>1 DEF Settles, SizeInv, Reserved

LEMMA SameSettles ==
  ASSUME SizeInv, UNCHANGED <<tx, proc>>
  PROVE  Settles
BY DEF Settles, SizeInv, Reserved

LEMMA SettledIsThrifty ==
  ASSUME TypeOK, Settles, scratch' \subseteq scratch,
         \A r \in Runs : files'[r] \subseteq files[r],
         \A r : <<"scratch", r>> \in temps' => <<"scratch", r>> \in temps
  PROVE  Thrifty
BY DEF Settles, Thrifty

LEMMA ThriftyCall ==
  ASSUME TypeOK, SizeInv, Writers = {}, Call
  PROVE  Thrifty
<1>1. UNCHANGED <<files, scratch, temps, proc>>
  <2>1. ASSUME NEW op, NEW s, NEW r, NEW row, NEW new, BeginCommit(op, s, r, row, new)
        PROVE  UNCHANGED <<files, scratch, temps, proc>>
    BY <2>1 DEF BeginCommit, disk
  <2>2. ASSUME NEW s, NEW r,
               \/ Enqueue(r) \/ ScratchWrite(r) \/ InsertWithNextDisplayName(s, r)
               \/ \E new \in BOOLEAN : CommitRun(s, r, new)
               \/ CommitTerminalAndClaimNotice(s, r) \/ FinalizeCompletionNotice(s, r)
        PROVE  UNCHANGED <<files, scratch, temps, proc>>
    BY <2>1, <2>2 DEF Enqueue, ScratchWrite, InsertWithNextDisplayName, CommitRun,
                      CommitTerminalAndClaimNotice, FinalizeCompletionNotice, disk
  <2> QED
    BY <2>2 DEF Call
<1>2. Settles
  <2>1. ASSUME NEW r, Enqueue(r) \/ ScratchWrite(r)
        PROVE  Settles
    BY <2>1, SameSettles DEF Enqueue, ScratchWrite, memory
  <2>2. ASSUME NEW s, NEW r, InsertWithNextDisplayName(s, r)
        PROVE  Settles
    <3>1. tx' = [Idle EXCEPT !.op = "insert", !.pc = "evict", !.s = s, !.r = r]
      BY <2>2 DEF InsertWithNextDisplayName
    <3>2. tx'.op = "insert" /\ tx'.pc = "evict"
      BY <3>1 DEF Idle
    <3> QED
      BY <1>1, <3>2 DEF Settles, Commits
  <2>3. ASSUME NEW op, NEW s, NEW r, NEW row, NEW new, BeginCommit(op, s, r, row, new)
        PROVE  Settles
    <3>1. tx'.pc = "preflight" /\ tx'.dets \subseteq {tx'.r}
      BY <2>3 DEF BeginCommit, Idle
    <3> QED
      BY <1>1, <3>1 DEF Settles
  <2> QED
    BY <2>1, <2>2, <2>3 DEF Call, CommitRun, CommitTerminalAndClaimNotice, FinalizeCompletionNotice
<1> QED
  BY <1>1, <1>2, SettledIsThrifty

(* Evictions and everything that only counts or removes. *)
LEMMA ThriftyEviction ==
  ASSUME TypeOK, SizeInv,
         \/ \E r \in Runs : ChooseVictim(r) \/ Quarantine(r) \/ Remove(r)
         \/ NoRoom \/ CountFails \/ Evicted \/ RemoveFails
  PROVE  Thrifty
<1>1. UNCHANGED temps
  BY DEF ChooseVictim, Quarantine, Remove, NoRoom, CountFails, Evicted, RemoveFails, disk
<1>2. scratch' \subseteq scratch /\ \A r \in Runs : files'[r] \subseteq files[r]
  BY DEF ChooseVictim, Quarantine, Remove, DeleteTree, NoRoom, CountFails, Evicted, RemoveFails, disk, TypeOK
<1>3. Settles
  BY ThrowSettles, SameSettles
     DEF ChooseVictim, Quarantine, Remove, NoRoom, CountFails, Evicted, RemoveFails, memory
<1> QED
  BY <1>1, <1>2, <1>3, SettledIsThrifty

LEMMA ThriftyInsert ==
  ASSUME TypeOK, SizeInv, Stage \/ StageFails \/ PublishDirectory \/ Retained
  PROVE  Thrifty
<1>1. \A r : <<"scratch", r>> \in temps' => <<"scratch", r>> \in temps
  BY DEF Stage, StageFails, PublishDirectory, Retained, disk
<1>2. UNCHANGED <<scratch, files>>
  BY DEF Stage, StageFails, PublishDirectory, Retained, disk
<1>3. CASE Stage \/ StageFails \/ PublishDirectory
  <2>1. Settles
    BY <1>3, ThrowSettles, SameSettles, GotoSettles DEF Stage, StageFails, PublishDirectory, memory
  <2> QED
    BY <1>1, <1>2, <2>1, SettledIsThrifty
<1>4. CASE Retained
  <2> DEFINE cand == Inserted(cache[tx.s], tx.r, minted[tx.r] + 1)
  <2>1. tx' = [tx EXCEPT !.pc = "preflight", !.cand = cand] /\ proc' = proc
    BY <1>4 DEF Retained
  <2> HIDE DEF cand
  <2>2. tx'.pc = "preflight" /\ tx'.op = tx.op /\ tx'.dets = tx.dets /\ tx'.r = tx.r
    BY <2>1 DEF TypeOK, TxType
  <2>3. Settles
    BY <2>1, <2>2 DEF Settles, SizeInv, Reserved
  <2> QED
    BY <1>1, <1>2, <2>3, SettledIsThrifty
<1> QED
  BY <1>3, <1>4

LEMMA ThriftyCommit ==
  ASSUME TypeOK, TxShape, SizeInv,
         \/ Dropped \/ Committed \/ Undo
         \/ \E r \in Runs : WriteDetail(r) \/ DropOld(r)
         \/ \E s \in Sessions : WriteManifest(s) \/ ReplaceManifest(s)
  PROVE  Thrifty
<1>1. \A r : <<"scratch", r>> \in temps' => <<"scratch", r>> \in temps
  <2>1. CASE Dropped \/ Committed \/ Undo \/ \E r \in Runs : DropOld(r)
    BY <2>1 DEF Dropped, Committed, Undo, DropOld, disk
  <2>2. ASSUME NEW q, WriteDetail(q) \/ WriteManifest(q) \/ ReplaceManifest(q)
        PROVE  \A r : <<"scratch", r>> \in temps' => <<"scratch", r>> \in temps
    BY <2>2 DEF WriteDetail, WriteManifest, ReplaceManifest
  <2> QED
    BY <2>1, <2>2
<1>2. scratch' = scratch /\ \A r \in Runs : files'[r] \subseteq files[r]
  <2>1. CASE Dropped \/ Committed
    BY <2>1 DEF Dropped, Committed, disk
  <2>2. CASE Undo
    BY <2>2 DEF Undo
  <2>3. ASSUME NEW q \in Runs, DropOld(q)
        PROVE  scratch' = scratch /\ \A r \in Runs : files'[r] \subseteq files[r]
    BY <2>3 DEF DropOld, TypeOK
  <2>4. ASSUME NEW q, WriteDetail(q) \/ WriteManifest(q) \/ ReplaceManifest(q)
        PROVE  scratch' = scratch /\ \A r \in Runs : files'[r] \subseteq files[r]
    BY <2>4 DEF WriteDetail, WriteManifest, ReplaceManifest
  <2> QED
    BY <2>1, <2>2, <2>3, <2>4
<1>3. CASE Dropped
  <2>1. proc' = proc /\ \E pc \in {"plan", "enforce"} : Goto(pc)
    BY <1>3 DEF Dropped
  <2> QED
    BY <1>1, <1>2, <2>1, GotoSettles, SettledIsThrifty
<1>4. CASE Committed \/ Undo
  <2>1. tx' = Idle /\ proc' = proc
    BY <1>4 DEF Committed, Undo
  <2>2. Settles
    BY <2>1, IdleTaken DEF Settles, Commits
  <2> QED
    BY <1>1, <1>2, <2>2, SettledIsThrifty
<1>5. ASSUME NEW r \in Runs, DropOld(r)
      PROVE  Thrifty
  <2>1. CASE Throw
    BY <1>1, <1>2, <2>1, ThrowSettles, SettledIsThrifty
  <2>2. CASE ~Throw
    <3>1. tx' = [tx EXCEPT !.written = @ \ {r}] /\ proc' = proc /\ tx.pc = "drop"
      BY <1>5, <2>2 DEF DropOld, At
    <3>2. tx'.pc = "drop" /\ tx'.op = tx.op /\ tx'.dets = tx.dets /\ tx'.r = tx.r
      BY <3>1 DEF TypeOK, TxType
    <3>3. Settles
      BY <3>1, <3>2 DEF Settles, SizeInv, Reserved
    <3> QED
      BY <1>1, <1>2, <3>3, SettledIsThrifty
  <2> QED
    BY <2>1, <2>2
<1>6. ASSUME NEW s \in Sessions, ReplaceManifest(s)
      PROVE  Thrifty
  <2>1. CASE Throw
    BY <1>1, <1>2, <2>1, ThrowSettles, SettledIsThrifty
  <2>2. CASE ~Throw
    <3>1. Persisted(s) /\ Persisting(s)
      BY <1>6, <2>2 DEF ReplaceManifest
    <3>2. /\ proc' = proc
          /\ \/ tx' = Idle \/ Goto("drop")
             \/ victim # NoRun /\ tx' = [tx EXCEPT !.cand = IF s = tx.s THEN Without(@, victim) ELSE @]
      BY <3>1 DEF Persisted
    <3>3. CASE tx' = Idle
      <4>1. Settles
        BY <3>2, <3>3, IdleTaken DEF Settles, Commits
      <4> QED
        BY <1>1, <1>2, <4>1, SettledIsThrifty
    <3>4. CASE Goto("drop")
      BY <1>1, <1>2, <3>2, <3>4, GotoSettles, SettledIsThrifty
    <3>5. CASE victim # NoRun /\ tx' = [tx EXCEPT !.cand = IF s = tx.s THEN Without(@, victim) ELSE @]
      <4>1. tx'.pc = tx.pc /\ tx'.op = tx.op /\ tx'.dets = tx.dets /\ tx'.r = tx.r
        BY <3>5 DEF TypeOK, TxType
      <4>2. Settles
        BY <3>2, <4>1 DEF Settles, SizeInv, Reserved
      <4> QED
        BY <1>1, <1>2, <4>2, SettledIsThrifty
    <3> QED
      BY <3>2, <3>3, <3>4, <3>5
  <2> QED
    BY <2>1, <2>2
<1>7. CASE \/ \E r \in Runs : WriteDetail(r)
           \/ \E s \in Sessions : WriteManifest(s)
  BY <1>1, <1>2, <1>7, SameSettles, SettledIsThrifty DEF WriteDetail, WriteManifest, memory
<1> QED
  BY <1>3, <1>4, <1>5, <1>6, <1>7

LEMMA ThriftyBoot ==
  ASSUME TypeOK, TxShape, SizeInv,
         \/ ValidateRecoveryInventory \/ Reconciled \/ Fitted \/ Planned \/ Booted \/ Boot \/ Crash
         \/ \E r \in Runs : ReconcileRecoveryResidue(r) \/ ReconcileFails(r)
         \/ \E s \in Sessions : Plan(s)
  PROVE  Thrifty
<1>1. UNCHANGED temps
  BY DEF ValidateRecoveryInventory, Reconciled, Fitted, Planned, Booted, Boot, Crash,
         ReconcileRecoveryResidue, ReconcileFails, Plan, disk
<1>2. scratch' \subseteq scratch /\ \A r \in Runs : files'[r] \subseteq files[r]
  BY DEF ValidateRecoveryInventory, Reconciled, Fitted, Planned, Booted, Boot, Crash,
         ReconcileRecoveryResidue, DeleteTree, ReconcileFails, Plan, disk, TypeOK
<1>3. CASE \/ ValidateRecoveryInventory \/ Fitted \/ Planned
           \/ \E r \in Runs : ReconcileRecoveryResidue(r) \/ ReconcileFails(r)
  <2>1. Settles
    BY <1>3, ThrowSettles, SameSettles, GotoSettles
       DEF ValidateRecoveryInventory, Fitted, Planned, ReconcileRecoveryResidue, ReconcileFails, memory
  <2> QED
    BY <1>1, <1>2, <2>1, SettledIsThrifty
<1>4. CASE Crash
  <2>1. Settles
    BY <1>4, IdleTaken DEF Crash, Settles, Commits
  <2> QED
    BY <1>1, <1>2, <2>1, SettledIsThrifty
<1>5. CASE Booted
  <2>1. tx' = Idle /\ tx.pc = "enforce" /\ ~Crowded
    BY <1>5 DEF Booted, At
  <2>2. Bytes \in Nat /\ MaxBytes \in Nat
    BY BytesAre, RunStoreAssumption DEF SizeInv, NoScratch
  <2>3. Bytes <= MaxBytes
    BY <2>1, <2>2 DEF Crowded
  <2>4. Settles
    BY <2>1, <2>3, IdleTaken DEF Settles, Commits
  <2> QED
    BY <1>1, <1>2, <2>4, SettledIsThrifty
<1>6. CASE Boot
  <2>1. tx' = [Idle EXCEPT !.op = "boot", !.pc = "validate"] /\ proc' = "boot"
    BY <1>6 DEF Boot
  <2>2. tx'.op = "boot"
    BY <2>1 DEF Idle
  <2>3. Settles
    BY <2>1, <2>2 DEF Settles, Commits
  <2> QED
    BY <1>1, <1>2, <2>3, SettledIsThrifty
<1>7. CASE Reconciled \/ \E s \in Sessions : Plan(s)
  <2>1. tx.op = "boot" /\ proc' = proc
    BY <1>7, BootStages DEF Reconciled, Plan, At
  <2>2. tx'.op = tx.op
    BY <1>7 DEF Reconciled, Plan, TypeOK, TxType
  <2>3. Settles
    BY <2>1, <2>2 DEF Settles, Commits
  <2> QED
    BY <1>1, <1>2, <2>3, SettledIsThrifty
<1> QED
  BY <1>3, <1>4, <1>5, <1>6, <1>7
-----------------------------------------------------------------------------
(* The steps that use what was reserved. *)
LEMMA ScratchFrame ==
  ASSUME SizeInv, scratch' = scratch,
         \A r : <<"scratch", r>> \in temps' => <<"scratch", r>> \in temps
  PROVE  NoScratch'
BY DEF SizeInv, NoScratch

(* The preflight reserves one file for an insert, and one for the details a *)
(* commit replaces.                                                         *)
LEMMA SizeFits ==
  ASSUME TypeOK, TxShape, SizeInv, Fits
  PROVE  SizeInv'
<1> DEFINE pc == IF tx.op = "insert" THEN "stage" ELSE IF tx.dets # {} THEN "detail" ELSE "persist"
<1>1. /\ tx.pc = "preflight" /\ ~Crowded /\ Goto(pc) /\ UNCHANGED <<files, scratch, temps, proc>>
  BY DEF Fits, At, disk
<1>2. pc \in {"stage", "detail", "persist"} /\ (pc = "stage" => tx.op = "insert") /\ (pc = "detail" => tx.op # "insert")
  OBVIOUS
<1> HIDE DEF pc
<1>3. tx'.pc = pc /\ tx'.op = tx.op /\ tx'.dets = tx.dets /\ tx'.r = tx.r
  BY <1>1 DEF Goto, TypeOK, TxType
<1>4. IsFiniteSet(Pairs)' /\ Bytes' <= Bytes /\ Bytes \in Nat /\ Bytes' \in Nat /\ MaxBytes \in Nat
  BY <1>1, BytesShrink, RunStoreAssumption DEF SizeInv, NoScratch
<1>5. ~(Bytes + Cost > MaxBytes)
  BY <1>1 DEF Crowded
<1>6. ASSUME tx'.op = "insert"
      PROVE  Bytes' + 1 <= MaxBytes
  <2>1. Cost = 1
    BY <1>3, <1>6 DEF Cost
  <2>2. Bytes + 1 <= MaxBytes
    BY <1>4, <1>5, <2>1
  <2> QED
    BY <1>4, <2>2, RoomStays
<1>7. ASSUME tx'.op \in Commits, tx'.pc = "detail"
      PROVE  Bytes' + Cardinality(tx'.dets) <= MaxBytes
  <2>1. tx.op \in Commits /\ tx.dets \subseteq {tx.r} /\ Cost = Cardinality(tx.dets)
    BY <1>2, <1>3, <1>7 DEF SizeInv, Reserved, Cost
  <2>2. Cardinality(tx.dets) \in Nat
    BY <2>1, FS_Singleton, FS_Subset, FS_CardinalityType
  <2> QED
    BY <1>3, <1>4, <1>5, <2>1, <2>2
<1>8. Reserved'
  BY <1>3, <1>6, <1>7 DEF Reserved, SizeInv
<1>9. proc' = "up" => Bytes' <= MaxBytes
  BY <1>1, <1>4 DEF SizeInv
<1>10. NoScratch'
  BY <1>1, ScratchFrame
<1> QED
  BY <1>4, <1>8, <1>9, <1>10 DEF SizeInv

LEMMA SizeStaged ==
  ASSUME TypeOK, TxShape, SizeInv, Staged
  PROVE  SizeInv'
<1> DEFINE d == tx.cand.heads[tx.r].detail
<1>1. /\ tx.pc = "stage" /\ Goto("publish") /\ UNCHANGED <<scratch, proc>>
      /\ files' = [files EXCEPT ![tx.r] = {d}] /\ temps' = temps \ {<<"run", tx.r>>}
  BY DEF Staged, At
<1> HIDE DEF d
<1>2. tx.op = "insert" /\ tx.r \in Runs
  BY <1>1, BootStages DEF TxShape
<1>3. tx'.pc = "publish" /\ tx'.op = "insert"
  BY <1>1, <1>2 DEF Goto, TypeOK, TxType
<1>4. files'[tx.r] \subseteq files[tx.r] \cup {d} /\ \A q \in Runs \ {tx.r} : files'[q] \subseteq files[q]
  BY <1>1, <1>2 DEF TypeOK
<1>5. IsFiniteSet(Pairs)' /\ Bytes' <= Bytes + 1 /\ Bytes \in Nat /\ Bytes' \in Nat
  BY <1>1, <1>2, <1>4, BytesGrow DEF SizeInv, NoScratch
<1>6. Bytes + 1 <= MaxBytes /\ MaxBytes \in Nat
  BY <1>1, <1>2, RunStoreAssumption DEF SizeInv, Reserved
<1>7. Bytes' <= MaxBytes
  BY <1>5, <1>6
<1>8. Reserved'
  BY <1>3 DEF Reserved, Commits
<1>9. NoScratch'
  BY <1>1, ScratchFrame
<1> QED
  BY <1>5, <1>7, <1>8, <1>9 DEF SizeInv

LEMMA SizeLink ==
  ASSUME TypeOK, TxShape, SizeInv, NEW r \in Runs, LinkDetail(r)
  PROVE  SizeInv'
<1> DEFINE d == tx.cand.heads[r].detail
<1>1. /\ tx.pc = "detail" /\ r \in tx.dets /\ scratch' = scratch /\ temps' = temps \ {<<"run", r>>}
      /\ files' \in {files, [files EXCEPT ![r] = @ \cup {d}]}
  BY DEF LinkDetail, At
<1>2. files'[r] \subseteq files[r] \cup {d} /\ \A q \in Runs \ {r} : files'[q] \subseteq files[q]
  BY <1>1 DEF TypeOK
<1> HIDE DEF d
<1>3. IsFiniteSet(Pairs)' /\ Bytes' <= Bytes + 1 /\ Bytes \in Nat /\ Bytes' \in Nat /\ MaxBytes \in Nat
  BY <1>1, <1>2, BytesGrow, RunStoreAssumption DEF SizeInv, NoScratch
<1>4. NoScratch'
  BY <1>1, ScratchFrame
<1>5. tx.op \in Commits => /\ tx.dets = {r} /\ r = tx.r /\ Bytes' <= MaxBytes
                           /\ Bytes + 1 <= MaxBytes
  <2>1. tx.op \in Commits => tx.dets = {r} /\ r = tx.r
    BY <1>1 DEF SizeInv, Reserved
  <2>2. tx.op \in Commits => Bytes + Cardinality(tx.dets) <= MaxBytes
    BY <1>1 DEF SizeInv, Reserved
  <2>3. Cardinality({r}) = 1
    BY FS_Singleton
  <2> QED
    BY <1>3, <2>1, <2>2, <2>3
<1>6. tx.op \in Commits \/ tx.op = "boot"
  BY <1>1 DEF TxShape, TypeOK, TxType, Stages, Commits
<1>7. CASE Throw
  <2>1. proc' = "up" => proc = "up" /\ tx.op \in Commits
    BY <1>6, <1>7, BootStages DEF Throw
  <2>2. proc' = "up" => Bytes' <= MaxBytes
    BY <1>5, <2>1
  <2>3. tx' = Idle \/ Goto("undo")
    BY <1>7 DEF Throw
  <2>4. Reserved'
    <3>1. CASE tx' = Idle
      BY <3>1, IdleTaken DEF Reserved, Commits
    <3>2. CASE Goto("undo")
      <4>1. tx'.pc = "undo" /\ tx'.op = tx.op /\ tx'.dets = tx.dets /\ tx'.r = tx.r
        BY <3>2 DEF Goto, TypeOK, TxType
      <4> QED
        BY <4>1 DEF Reserved, SizeInv
    <3> QED
      BY <2>3, <3>1, <3>2
  <2> QED
    BY <1>3, <1>4, <2>2, <2>4 DEF SizeInv
<1>8. CASE ~Throw
  <2>1. /\ proc' = proc
        /\ tx' = [tx EXCEPT !.dets = @ \ {r}, !.written = @ \cup {r},
                            !.pc = IF tx.dets = {r} THEN "persist" ELSE @]
    BY <1>8 DEF LinkDetail
  <2>2. /\ tx'.op = tx.op /\ tx'.r = tx.r /\ tx'.dets = tx.dets \ {r}
        /\ tx'.pc = IF tx.dets = {r} THEN "persist" ELSE tx.pc
    BY <2>1 DEF TypeOK, TxType
  <2>3. tx.op \in Commits => tx'.pc = "persist" /\ tx'.dets = {}
    BY <1>5, <2>2
  <2>4. Reserved'
    BY <1>1, <2>2, <2>3, <1>6 DEF Reserved, Commits
  <2>5. proc = "up" => tx.op \in Commits
    BY <1>6, BootStages
  <2> QED
    BY <1>3, <1>4, <1>5, <2>1, <2>4, <2>5 DEF SizeInv
<1> QED
  BY <1>7, <1>8

SizeBound == Writers = {} => SizeInv

LEMMA SizeStep ==
  ASSUME TypeOK, TxShape, SizeBound, [Next]_vars
  PROVE  SizeBound'
<1> SUFFICES ASSUME Writers = {}
             PROVE  SizeInv'
  BY DEF SizeBound
<1>0. SizeInv
  BY DEF SizeBound
<1>1. CASE Call
  BY <1>0, <1>1, ThriftyCall, ThriftySize
<1>2. CASE Step
  <2>1. CASE \/ \E r \in Runs : ChooseVictim(r) \/ Quarantine(r) \/ Remove(r)
             \/ NoRoom \/ CountFails \/ Evicted \/ RemoveFails
    BY <1>0, <2>1, ThriftyEviction, ThriftySize
  <2>2. CASE \/ ValidateRecoveryInventory \/ Reconciled \/ Fitted \/ Planned \/ Booted
             \/ \E r \in Runs : ReconcileRecoveryResidue(r) \/ ReconcileFails(r)
             \/ \E s \in Sessions : Plan(s)
    BY <1>0, <2>2, ThriftyBoot, ThriftySize
  <2>3. CASE \/ Dropped \/ Committed \/ Undo
             \/ \E r \in Runs : WriteDetail(r) \/ DropOld(r)
             \/ \E s \in Sessions : WriteManifest(s) \/ ReplaceManifest(s)
    BY <1>0, <2>3, ThriftyCommit, ThriftySize
  <2>4. CASE Stage \/ StageFails \/ PublishDirectory \/ Retained
    BY <1>0, <2>4, ThriftyInsert, ThriftySize
  <2>5. CASE Fits \/ Staged \/ \E r \in Runs : LinkDetail(r)
    BY <1>0, <2>5, SizeFits, SizeStaged, SizeLink
  <2> QED
    BY <1>2, <2>1, <2>2, <2>3, <2>4, <2>5, Zenon DEF Step
<1>3. CASE ScratchStep
  BY <1>0, <1>3 DEF ScratchStep, ScratchWritten, SizeInv, NoScratch
<1>4. CASE UNCHANGED vars
  <2>1. UNCHANGED <<files, scratch, temps, tx, proc>>
    BY <1>4 DEF vars, disk, memory
  <2>2. Thrifty
    BY <1>0, <2>1 DEF Thrifty, SizeInv, Reserved
  <2> QED
    BY <1>0, <2>2, ThriftySize
<1>5. CASE Boot \/ Crash
  BY <1>0, <1>5, ThriftyBoot, ThriftySize
<1> QED
  BY <1>1, <1>2, <1>3, <1>4, <1>5 DEF Next

LEMMA SizeInit == Init => SizeBound
<1> SUFFICES ASSUME Init PROVE SizeInv
  BY DEF SizeBound
<1>1. scratch = {} /\ temps = {} /\ tx.op = "none" /\ proc = "down" /\ \A r \in Runs : files[r] = {}
  BY DEF Init, Idle
<1>2. Pairs = {}
  BY <1>1 DEF Pairs
<1> QED
  BY <1>1, <1>2, FS_EmptySet DEF SizeInv, NoScratch, Reserved, Commits

(* A running store is within its bytes and its retention at every moment, the *)
(* peak of a transaction included, whatever fails: a transaction reserves     *)
(* what it writes before it writes it (evictForSession,                       *)
(* preflightTransactionCapacity).  Scratch files, which no transaction        *)
(* reserves, are left out.                                                    *)
THEOREM StoreStaysWithinLimits == Spec => [](Writers = {} => WithinLimits)
<1>1. TypeOK /\ TxShape /\ RetainInv /\ [Next]_vars => RetainInv'
  BY RetainStep
<1>2. TypeOK /\ TxShape /\ SizeBound /\ [Next]_vars => SizeBound'
  BY SizeStep
<1>3. RetainInv /\ SizeBound => (Writers = {} => WithinLimits)
  BY DEF RetainInv, Within, SizeBound, SizeInv, WithinLimits
<1>4. Init => RetainInv /\ SizeBound
  BY RetainInit, SizeInit
<1> QED
  BY <1>1, <1>2, <1>3, <1>4, TypeCorrect, PTL DEF Spec
-----------------------------------------------------------------------------
(***************************************************************************)
(* TempsInv: an open store has at most one temporary file, that of the     *)
(* file the transaction is writing, when no script writes scratch files.   *)
(***************************************************************************)
Opened == proc = "up" \/ (proc = "boot" /\ tx.pc # "validate")
Writing ==
  \/ tx.pc = "stage" /\ place[tx.r] = "staging" /\ temps = {<<"run", tx.r>>}
  \/ tx.pc = "detail" /\ \E r \in tx.dets : temps = {<<"run", r>>}
  \/ \E s \in Sessions : Persisting(s) /\ temps = {<<"manifest", s>>}
TempsInv == Opened => temps = {} \/ Writing

LEMMA NoTemps ==
  ASSUME TxShape, TempsInv, Opened,
         \/ victim = NoRun /\ tx.pc \notin {"stage", "detail", "persist"}
         \/ victim # NoRun /\ \A s \in Sessions : ~Holds(s, victim)
  PROVE  temps = {}
BY DEF TxShape, TempsInv, Writing, Persisting, At

LEMMA OpenBefore ==
  ASSUME TypeOK, TxShape, tx.op # "none", tx.pc # "validate"
  PROVE  Opened
BY DEF TxShape, Opened, Idle, TypeOK, TxType

(* A step between files leaves none behind. *)
LEMMA TempsBetween ==
  ASSUME TypeOK, TxShape, TempsInv, UNCHANGED temps,
         \/ \E r \in Runs : ChooseVictim(r) \/ DropOld(r) \/ ReconcileFails(r)
         \/ NoRoom \/ CountFails \/ Evicted \/ RemoveFails \/ Retained \/ Fits \/ PublishDirectory
         \/ Dropped \/ Committed \/ Undo \/ Reconciled \/ Fitted \/ Planned \/ Booted
         \/ \E s \in Sessions : Plan(s)
  PROVE  TempsInv'
<1> DEFINE Between == /\ tx.pc \notin {"validate", "idle"}
                      /\ \/ tx.pc \notin {"stage", "detail", "persist"} /\ victim = NoRun
                         \/ victim # NoRun /\ \A s \in Sessions : ~Holds(s, victim)
<1>a. ASSUME Evicted \/ RemoveFails
      PROVE  Between
  BY <1>a DEF Evicted, RemoveFails, Evicting, TxShape
<1>b. ASSUME NoRoom \/ CountFails \/ \E r \in Runs : ChooseVictim(r)
      PROVE  Between
  <2>1. Counting
    BY <1>b DEF NoRoom, CountFails, ChooseVictim, Counted
  <2> QED
    BY <2>1 DEF Counting
<1>c. ASSUME Retained \/ Fits \/ PublishDirectory \/ Dropped \/ Committed \/ Undo
      PROVE  Between
  BY <1>c DEF Retained, Fits, PublishDirectory, Dropped, Committed, Undo, At
<1>d. ASSUME Reconciled \/ Fitted \/ Planned \/ Booted
      PROVE  Between
  BY <1>d DEF Reconciled, Fitted, Planned, Booted, At
<1>e. ASSUME \E r \in Runs : DropOld(r) \/ ReconcileFails(r)
      PROVE  Between
  BY <1>e DEF DropOld, ReconcileFails, At
<1>f. ASSUME \E s \in Sessions : Plan(s)
      PROVE  Between
  BY <1>f DEF Plan, At
<1>1. Between
  <2> HIDE DEF Between
  <2> QED
    BY <1>a, <1>b, <1>c, <1>d, <1>e, <1>f, Zenon
<1>2. tx.op # "none" /\ tx.pc # "validate"
  BY <1>1, BusyHasAnOperation DEF TxShape
<1>3. temps = {}
  BY <1>1, <1>2, OpenBefore, NoTemps
<1> QED
  BY <1>3 DEF TempsInv

LEMMA TempsCall ==
  ASSUME TypeOK, TxShape, Writers = {}, TempsInv, Call
  PROVE  TempsInv'
<1>1. ASSUME NEW r, Enqueue(r)
      PROVE  TempsInv'
  BY <1>1 DEF Enqueue, disk, TempsInv, Opened, Writing, Persisting, At, Holds
<1>2. ASSUME NEW r, ScratchWrite(r)
      PROVE  FALSE
  BY <1>2 DEF ScratchWrite
<1>3. ASSUME Ready, UNCHANGED temps
      PROVE  TempsInv'
  <2>1. Opened /\ victim = NoRun /\ tx.pc = "idle"
    BY <1>3 DEF Ready, Opened, TxShape, Idle
  <2>2. temps = {}
    BY <2>1, NoTemps
  <2> QED
    BY <1>3, <2>2 DEF TempsInv
<1>4. ASSUME NEW s, NEW r, InsertWithNextDisplayName(s, r)
      PROVE  TempsInv'
  BY <1>3, <1>4 DEF InsertWithNextDisplayName, disk
<1>5. ASSUME NEW op, NEW s, NEW r, NEW row, NEW new, BeginCommit(op, s, r, row, new)
      PROVE  TempsInv'
  BY <1>3, <1>5 DEF BeginCommit, disk
<1> QED
  BY <1>1, <1>2, <1>4, <1>5 DEF Call, CommitRun, CommitTerminalAndClaimNotice, FinalizeCompletionNotice

LEMMA TempsInsert ==
  ASSUME TypeOK, TxShape, TempsInv, Stage \/ Staged \/ StageFails
  PROVE  TempsInv'
<1>1. tx.pc = "stage" /\ victim = NoRun /\ tx.op = "insert" /\ tx.r \in Runs
  BY BootStages DEF Stage, Staged, StageFails, At, TxShape
<1>2. Opened /\ \A s \in Sessions : ~Persisting(s)
  BY <1>1, OpenBefore DEF Persisting, At
<1>3. temps = {} \/ (place[tx.r] = "staging" /\ temps = {<<"run", tx.r>>})
  BY <1>1, <1>2 DEF TempsInv, Writing
<1>4. CASE Stage
  <2>1. place'[tx.r] = "staging" /\ temps' = {<<"run", tx.r>>} /\ tx' = tx
    BY <1>1, <1>3, <1>4 DEF Stage, memory, TypeOK
  <2> QED
    BY <1>1, <2>1 DEF TempsInv, Writing
<1>5. CASE Staged \/ StageFails
  <2>1. temps' = {}
    BY <1>3, <1>5 DEF Staged, StageFails
  <2> QED
    BY <2>1 DEF TempsInv
<1> QED
  BY <1>4, <1>5

LEMMA TempsDetail ==
  ASSUME TypeOK, TxShape, TempsInv, NEW r \in Runs, WriteDetail(r) \/ LinkDetail(r)
  PROVE  TempsInv'
<1>1. tx.pc = "detail" /\ victim = NoRun /\ r \in tx.dets
  BY DEF WriteDetail, LinkDetail, At
<1>2. Opened /\ \A s \in Sessions : ~Persisting(s)
  BY <1>1, OpenBefore, BusyHasAnOperation DEF Persisting, At
<1>3. temps = {} \/ \E q \in tx.dets : temps = {<<"run", q>>}
  BY <1>1, <1>2 DEF TempsInv, Writing
<1>4. CASE WriteDetail(r)
  <2>1. tx.dets \subseteq Runs
    BY DEF TypeOK, TxType
  <2>2. temps' = {<<"run", r>>} /\ tx' = tx
    BY <1>3, <1>4, <2>1 DEF WriteDetail, memory
  <2> QED
    BY <1>1, <2>2 DEF TempsInv, Writing
<1>5. CASE LinkDetail(r)
  <2>1. temps' = {}
    BY <1>3, <1>5 DEF LinkDetail
  <2> QED
    BY <2>1 DEF TempsInv
<1> QED
  BY <1>4, <1>5

LEMMA TempsManifest ==
  ASSUME TypeOK, TxShape, HomeInv, TempsInv, NEW s \in Sessions, WriteManifest(s) \/ ReplaceManifest(s)
  PROVE  TempsInv'
<1>1. Persisting(s) /\ tx.pc \notin {"stage", "detail", "validate"} /\ tx.op # "none"
  BY BusyHasAnOperation DEF WriteManifest, ReplaceManifest, Persisting, At, TxShape
<1>2. ASSUME NEW t \in Sessions, Persisting(t)
      PROVE  t = s
  BY <1>1, <1>2 DEF Persisting, At, HomeInv, Listed, Holds
<1>3. temps = {} \/ temps = {<<"manifest", s>>}
  BY <1>1, <1>2, OpenBefore DEF TempsInv, Writing
<1>4. CASE WriteManifest(s)
  <2>1. temps' = {<<"manifest", s>>} /\ Persisting(s)'
    BY <1>1, <1>3, <1>4 DEF WriteManifest, memory, Persisting, At, Holds
  <2> QED
    BY <2>1 DEF TempsInv, Writing
<1>5. CASE ReplaceManifest(s)
  <2>1. temps' = {}
    BY <1>3, <1>5 DEF ReplaceManifest
  <2> QED
    BY <2>1 DEF TempsInv
<1> QED
  BY <1>4, <1>5

LEMMA TempsKept ==
  ASSUME TypeOK, TxShape, TempsInv, UNCHANGED <<temps, tx, victim, cache, proc>>,
         tx.pc = "stage" => UNCHANGED place
  PROVE  TempsInv'
BY DEF TempsInv, Opened, Writing, Persisting, At, Holds

LEMMA TempsRemoval ==
  ASSUME TypeOK, TxShape, TempsInv,
         \E r \in Runs : Quarantine(r) \/ Remove(r) \/ ReconcileRecoveryResidue(r)
  PROVE  TempsInv'
<1>1. UNCHANGED <<temps, tx, victim, cache, proc>>
  BY DEF Quarantine, Remove, ReconcileRecoveryResidue, memory
<1>2. tx.pc # "stage"
  BY DEF Quarantine, Remove, ReconcileRecoveryResidue, Removing, Evicting, At, TxShape
<1> QED
  BY <1>1, <1>2, TempsKept

LEMMA TempsBoot ==
  ASSUME TypeOK, TxShape, TempsInv, ValidateRecoveryInventory \/ Boot \/ Crash
  PROVE  TempsInv'
<1>1. CASE ValidateRecoveryInventory
  <2>1. tx.op = "boot" /\ UNCHANGED temps
    BY <1>1, BootStages DEF ValidateRecoveryInventory, At, disk
  <2>2. CASE Sound
    BY <2>1, <2>2 DEF Sound, TempsInv
  <2>3. CASE ~Sound
    <3>1. proc' = "down"
      BY <1>1, <2>1, <2>3 DEF ValidateRecoveryInventory, Throw
    <3> QED
      BY <3>1 DEF TempsInv, Opened
  <2> QED
    BY <2>2, <2>3
<1>2. CASE Boot
  <2>1. tx' = [Idle EXCEPT !.op = "boot", !.pc = "validate"] /\ proc' = "boot"
    BY <1>2 DEF Boot
  <2>2. tx'.pc = "validate"
    BY <2>1 DEF Idle
  <2> QED
    BY <2>1, <2>2 DEF TempsInv, Opened
<1>3. CASE Crash
  BY <1>3 DEF Crash, TempsInv, Opened
<1> QED
  BY <1>1, <1>2, <1>3

TempsBound == Writers = {} => TempsInv

LEMMA TempsStep ==
  ASSUME TypeOK, TxShape, HomeInv, SizeBound, TempsBound, [Next]_vars
  PROVE  TempsBound'
<1> SUFFICES ASSUME Writers = {}
             PROVE  TempsInv'
  BY DEF TempsBound
<1>0. TempsInv
  BY DEF TempsBound
<1>1. CASE Call
  BY <1>0, <1>1, TempsCall
<1>2. CASE Step
  <2>1. CASE \/ \E r \in Runs : ChooseVictim(r) \/ DropOld(r) \/ ReconcileFails(r)
             \/ NoRoom \/ CountFails \/ Evicted \/ RemoveFails \/ Retained \/ Fits \/ PublishDirectory
             \/ Dropped \/ Committed \/ Undo \/ Reconciled \/ Fitted \/ Planned \/ Booted
             \/ \E s \in Sessions : Plan(s)
    <3>1. UNCHANGED temps
      BY <2>1 DEF ChooseVictim, DropOld, ReconcileFails, NoRoom, CountFails, Evicted, RemoveFails, Retained,
                  Fits, PublishDirectory, Dropped, Committed, Undo, Reconciled, Fitted, Planned, Booted, Plan, disk
    <3> QED
      BY <1>0, <2>1, <3>1, TempsBetween
  <2>2. CASE Stage \/ Staged \/ StageFails
    BY <1>0, <2>2, TempsInsert
  <2>3. CASE \E r \in Runs : WriteDetail(r) \/ LinkDetail(r)
    BY <1>0, <2>3, TempsDetail
  <2>4. CASE \E s \in Sessions : WriteManifest(s) \/ ReplaceManifest(s)
    BY <1>0, <2>4, TempsManifest
  <2>5. CASE \E r \in Runs : Quarantine(r) \/ Remove(r) \/ ReconcileRecoveryResidue(r)
    BY <1>0, <2>5, TempsRemoval
  <2>6. CASE ValidateRecoveryInventory
    BY <1>0, <2>6, TempsBoot
  <2> QED
    BY <1>2, <2>1, <2>2, <2>3, <2>4, <2>5, <2>6, Zenon DEF Step
<1>3. CASE ScratchStep
  BY <1>3 DEF ScratchStep, ScratchWritten, SizeBound, SizeInv, NoScratch
<1>4. CASE UNCHANGED vars
  BY <1>0, <1>4, TempsKept DEF vars, disk, memory
<1>5. CASE Boot \/ Crash
  BY <1>0, <1>5, TempsBoot
<1> QED
  BY <1>1, <1>2, <1>3, <1>4, <1>5 DEF Next

LEMMA TempsInit == Init => TempsBound
BY DEF Init, TempsBound, TempsInv, Opened
-----------------------------------------------------------------------------
(***************************************************************************)
(* CurrentInv: the supervisor holds the revision on disk of every run it   *)
(* owns, or, while a commit that is on disk returns to it, the one before. *)
(* It is about a store where nothing fails but a removal: a commit whose   *)
(* accounting fails once it is on disk rejects all the same.               *)
(***************************************************************************)
Landed(r) == tx.op \in Commits /\ tx.r = r /\ tx.pc \in {"drop", "enforce"}
Current(r, rev) == \E s \in Sessions : r \in Rows(manifest[s]) /\ manifest[s].heads[r].rev = rev
CurrentInv ==
  proc = "up" => \A r \in Runs : client[r] \in Owning =>
    Current(r, IF Landed(r) THEN known[r] + 1 ELSE known[r])
(* A running store within its limits has nothing to evict after a commit. *)
NoEnforce == proc = "up" /\ tx.pc = "enforce" => victim = NoRun
Steady == Writers = {} /\ Faults \subseteq {"remove"}
OnlyRemovals == Steady => faults["late"] = 0
CurrentBound == Steady => NoEnforce /\ CurrentInv

LEMMA FaultsAreSteady ==
  ASSUME TypeOK, Steady, faults["late"] = 0, [Next]_vars
  PROVE  faults'["late"] = 0
<1>1. ASSUME NEW f \in {"early", "late", "remove"}, Fault(f)
      PROVE  faults'["late"] = 0
  <2>1. f # "late" /\ faults' = [faults EXCEPT ![f] = @ + 1]
    BY <1>1 DEF Steady, Fault
  <2> QED
    BY <2>1 DEF TypeOK, AllFaults
<1> QED
  BY <1>1, FaultMoves

LEMMA NoEnforceStep ==
  ASSUME TypeOK, TxShape, SizeInv, NoEnforce, [Next]_vars
  PROVE  NoEnforce'
<1>1. CASE GoesOn
  <2> SUFFICES ASSUME proc = "up", tx'.pc = "enforce", victim' # NoRun
               PROVE  FALSE
    BY <1>1 DEF GoesOn, NoEnforce
  <2>1. tx.pc \in {"drop", "plan", "enforce"}
    BY <1>1 DEF GoesOn, Onward
  <2>2. victim = NoRun
    BY <2>1 DEF TxShape, NoEnforce
  <2>3. Counting /\ Crowded
    BY <1>1, <2>2 DEF GoesOn
  <2>4. tx.pc = "enforce"
    BY <2>1, <2>3 DEF Counting
  <2>5. Bytes > MaxBytes
    BY <2>3, <2>4 DEF Crowded
  <2>6. Bytes <= MaxBytes /\ Bytes \in Nat /\ MaxBytes \in Nat
    BY BytesAre, RunStoreAssumption DEF SizeInv, NoScratch
  <2> QED
    BY <2>5, <2>6
<1>2. CASE Throws \/ \E s \in Sessions : ThrowsLate(s)
  BY <1>2 DEF Throws, ThrowsLate, Abandons, NoEnforce
<1>3. CASE Returns \/ Admits \/ Crash
  BY <1>3, IdleTaken DEF Returns, Admits, Crash, NoEnforce
<1>4. CASE \E s \in Sessions : Evicts(s)
  BY <1>4 DEF Evicts, NoEnforce, TypeOK, TxType
<1>5. CASE Rewrites
  BY <1>5 DEF Rewrites, NoEnforce
<1>6. CASE Boot
  <2>1. proc' = "boot"
    BY <1>6 DEF Boot
  <2> QED
    BY <2>1 DEF NoEnforce
<1>7. CASE Reconciled \/ \E s \in Sessions : Plan(s)
  <2>1. victim' = NoRun
    BY <1>7 DEF Reconciled, Plan, At
  <2> QED
    BY <2>1 DEF NoEnforce
<1>8. CASE Call \/ Retained
  <2>1. ASSUME UNCHANGED <<tx, victim, proc>>
        PROVE  NoEnforce'
    BY <2>1 DEF NoEnforce
  <2>2. ASSUME NEW s, NEW r, InsertWithNextDisplayName(s, r)
        PROVE  victim' = NoRun
    BY <2>2 DEF InsertWithNextDisplayName, Ready, TxShape, Idle
  <2>3. ASSUME NEW op, NEW s, NEW r, NEW row, NEW new, BeginCommit(op, s, r, row, new)
        PROVE  victim' = NoRun
    BY <2>3 DEF BeginCommit, Ready, TxShape, Idle
  <2>4. CASE Retained
    BY <2>4 DEF Retained, At, NoEnforce
  <2>5. ASSUME NEW r, Enqueue(r) \/ ScratchWrite(r)
        PROVE  UNCHANGED <<tx, victim, proc>>
    BY <2>5 DEF Enqueue, ScratchWrite, memory
  <2>6. CASE Call
    BY <2>1, <2>2, <2>3, <2>5, <2>6
       DEF Call, CommitRun, CommitTerminalAndClaimNotice, FinalizeCompletionNotice, NoEnforce
  <2> QED
    BY <1>8, <2>4, <2>6
<1> QED
  BY <1>1, <1>2, <1>3, <1>4, <1>5, <1>6, <1>7, <1>8, StoreMoves

(* A commit on disk does not reject. *)
LEMMA LandedReturns ==
  ASSUME TypeOK, TxShape, SizeInv, TempsInv, NoEnforce, Faults \subseteq {"remove"}, [Next]_vars,
         tx.op \in Commits, tx.pc \in {"drop", "enforce"}
  PROVE  GoesOn \/ Committed \/ Call \/ Crash
<1>1. /\ victim = NoRun /\ tx.op \notin {"boot", "insert", "none"} /\ proc = "up"
      /\ \A s \in Sessions : ~Persisting(s)
  BY BootStages DEF TxShape, NoEnforce, Persisting, At
<1>2. temps = {} /\ Bytes <= MaxBytes
  BY <1>1, NoTemps DEF Opened, SizeInv
<1>3. ~Crowded \/ tx.pc = "drop"
  <2>1. ASSUME tx.pc = "enforce", Crowded
        PROVE  FALSE
    <3>1. Bytes > MaxBytes
      BY <2>1 DEF Crowded
    <3>2. Bytes \in Nat /\ MaxBytes \in Nat
      BY BytesAre, RunStoreAssumption DEF SizeInv, NoScratch
    <3> QED
      BY <1>2, <3>1, <3>2
  <2> QED
    BY <2>1
<1>4. CASE Step
  <2>1. CASE \/ \E r \in Runs : ChooseVictim(r) \/ Quarantine(r) \/ Remove(r)
             \/ Evicted \/ Fits \/ Stage \/ Staged \/ Dropped \/ Fitted \/ Planned
             \/ \E r \in Runs : WriteDetail(r) \/ ReconcileRecoveryResidue(r)
             \/ \E s \in Sessions : WriteManifest(s)
    BY <2>1, QuietMoves
  <2>2. ASSUME NEW r \in Runs, DropOld(r)
        PROVE  GoesOn
    <3>1. /\ tx.pc = "drop" /\ UNCHANGED <<proc, cache, victim, manifest, client, known, admitted, sent>>
          /\ tx' = [tx EXCEPT !.written = @ \ {r}]
      BY <1>1, <2>2 DEF DropOld, At
    <3>2. /\ tx'.pc = "drop" /\ tx'.op = tx.op /\ tx'.s = tx.s /\ tx'.r = tx.r
          /\ tx'.cand = tx.cand /\ tx'.todo = tx.todo
      BY <3>1 DEF TypeOK, TxType
    <3> QED
      BY <3>1, <3>2 DEF GoesOn, Onward
  <2>3. ~NoRoom
    BY <1>1, <1>2, <1>3 DEF NoRoom, Counted, Counting, Countable
  <2>4. ~CountFails /\ ~RemoveFails
    BY <1>1 DEF CountFails, RemoveFails, Evicting, Fault
  <2>5. /\ ~StageFails /\ ~PublishDirectory /\ ~ValidateRecoveryInventory /\ ~Undo /\ ~Booted
        /\ ~Retained /\ ~Reconciled
    BY <1>1 DEF StageFails, PublishDirectory, ValidateRecoveryInventory, Undo, Booted, Retained, Reconciled, At
  <2>6. /\ \A r \in Runs : ~LinkDetail(r) /\ ~ReconcileFails(r)
        /\ \A s \in Sessions : ~ReplaceManifest(s) /\ ~Plan(s)
    BY <1>1 DEF LinkDetail, ReconcileFails, ReplaceManifest, Plan, At
  <2> QED
    BY <1>4, <2>1, <2>2, <2>3, <2>4, <2>5, <2>6, Zenon DEF Step
<1>5. CASE ScratchStep \/ UNCHANGED vars
  BY <1>5, SameGoes DEF ScratchStep, ScratchWritten, vars, disk, memory, ghosts
<1>6. ~Boot
  BY <1>1 DEF Boot
<1> QED
  BY <1>4, <1>5, <1>6 DEF Next

(* The rows of the runs the supervisor owns stay, at the same revision. *)
LEMMA CurrentFrame ==
  ASSUME CurrentInv, proc' = "up" => proc = "up", known' = known,
         \A r \in Runs : client'[r] \in Owning => client[r] \in Owning,
         \A r \in Runs : Landed(r)' <=> Landed(r),
         \A r \in Runs, s \in Sessions : proc = "up" /\ client[r] \in Owning /\ r \in Rows(manifest[s]) =>
           r \in Rows(manifest'[s]) /\ manifest'[s].heads[r] = manifest[s].heads[r]
  PROVE  CurrentInv'
<1> SUFFICES ASSUME proc' = "up", NEW r \in Runs, client'[r] \in Owning
             PROVE  Current(r, IF Landed(r) THEN known[r] + 1 ELSE known[r])'
  BY DEF CurrentInv
<1>1. Current(r, IF Landed(r) THEN known[r] + 1 ELSE known[r])
  BY DEF CurrentInv
<1>2. PICK s \in Sessions : /\ r \in Rows(manifest[s])
                            /\ manifest[s].heads[r].rev = IF Landed(r) THEN known[r] + 1 ELSE known[r]
  BY <1>1 DEF Current
<1> QED
  BY <1>2 DEF Current

LEMMA CurrentGoesOn ==
  ASSUME TypeOK, TxShape, CurrentInv, GoesOn
  PROVE  CurrentInv'
<1>1. UNCHANGED <<manifest, proc, client, known>> /\ tx'.op = tx.op /\ tx'.r = tx.r
  BY DEF GoesOn
<1>2. tx.op \in Commits => (tx'.pc \in {"drop", "enforce"} <=> tx.pc \in {"drop", "enforce"})
  <2>1. ASSUME tx.op \in Commits
        PROVE  tx.pc \notin {"plan", "fit", "validate"} /\ tx.op # "boot"
    BY <2>1, BootStages DEF Commits
  <2> QED
    BY <2>1 DEF GoesOn, Onward
<1>3. \A r \in Runs : Landed(r)' <=> Landed(r)
  BY <1>1, <1>2 DEF Landed
<1> QED
  BY <1>1, <1>3, CurrentFrame

LEMMA CurrentThrows ==
  ASSUME TypeOK, TxShape, CurrentInv, Throws, ~(tx.op \in Commits /\ tx.pc \in {"drop", "enforce"})
  PROVE  CurrentInv'
<1>1. UNCHANGED <<manifest, client, known>> /\ (proc' = "up" => proc = "up")
  BY DEF Throws, Abandons
<1>2. tx'.op = "none" \/ tx'.pc = "undo"
  BY DEF Throws, Abandons, Idle, TypeOK, TxType
<1>3. \A r \in Runs : ~Landed(r) /\ ~Landed(r)'
  BY <1>2 DEF Landed, Commits
<1> QED
  BY <1>1, <1>3, CurrentFrame

LEMMA CurrentEvicts ==
  ASSUME TypeOK, TxShape, Safe, RowInv, NoEnforce, CurrentInv, NEW s \in Sessions, Evicts(s)
  PROVE  CurrentInv'
<1>1. /\ tx'.op = tx.op /\ tx'.r = tx.r /\ tx'.pc = tx.pc
      /\ UNCHANGED <<proc, victim, client, known>> /\ victim # NoRun
  BY DEF Evicts, TypeOK, TxType
<1>2. cache = manifest /\ tx.pc \in {"evict", "preflight", "fit", "enforce"}
  BY <1>1, BusyHasAnOperation, CacheIsDisk DEF Safe, TxShape
<1>3. /\ Rows(manifest'[s]) = Rows(manifest[s]) \ {victim}
      /\ \A q \in Runs \ {victim} : manifest'[s].heads[q] = manifest[s].heads[q]
      /\ \A t \in Sessions \ {s} : manifest'[t] = manifest[t]
  BY <1>2, WithoutRows DEF TypeOK, Evicts, Lands, Swaps
<1>4. proc = "up" => \A r \in Runs : ~Landed(r)
  BY <1>1, <1>2 DEF Landed, NoEnforce
<1>5. ASSUME proc = "up", client[victim] \in Owning, NEW t \in Sessions, victim \in Rows(manifest[t])
      PROVE  FALSE
  <2>1. victim \in Runs
    BY <1>5 DEF Rows
  <2>2. PICK u \in Sessions : victim \in Rows(manifest[u]) /\ manifest[u].heads[victim].rev = known[victim]
    BY <1>4, <1>5, <2>1 DEF CurrentInv, Current
  <2>3. Handle(manifest[u].heads[victim], client[victim]) /\ Final(manifest[u].heads[victim])
    BY <1>1, <2>2 DEF RowInv, HandleInv, VictimInv
  <2> QED
    BY <1>5, <2>3 DEF Handle, Final, Owning
<1>6. ASSUME NEW r \in Runs, NEW t \in Sessions, proc = "up", client[r] \in Owning, r \in Rows(manifest[t])
      PROVE  r \in Rows(manifest'[t]) /\ manifest'[t].heads[r] = manifest[t].heads[r]
  <2>1. r # victim
    BY <1>5, <1>6
  <2> QED
    BY <1>3, <1>6, <2>1
<1>7. \A r \in Runs : Landed(r)' <=> Landed(r)
  BY <1>1 DEF Landed
<1> QED
  BY <1>1, <1>6, <1>7, CurrentFrame

LEMMA CurrentAdmits ==
  ASSUME TypeOK, TxShape, Safe, RowInv, CurrentInv, Admits
  PROVE  CurrentInv'
<1>1. tx.s \in Sessions /\ tx.r \in Runs /\ proc = "up" /\ tx'.op = "none" /\ tx.op = "insert"
  BY IdleTaken, BootStages DEF Admits, TxShape
<1>2. /\ \A q \in Runs : client'[q] = IF q = tx.r THEN "running" ELSE client[q]
      /\ \A q \in Runs : known'[q] = IF q = tx.r THEN 1 ELSE known[q]
  BY <1>1 DEF Admits, TypeOK
<1>3. \A t \in Sessions : manifest'[t] = IF t = tx.s THEN tx.cand ELSE manifest[t]
  BY <1>1, LandsCandidate DEF Admits
<1>4. tx.cand.heads[tx.r].status = "active" /\ tx.cand.heads[tx.r].rev = 1
  BY DEF Admits, RowInv, CandidateRows, Preparing
<1>5. \A r \in Runs : ~Landed(r) /\ ~Landed(r)'
  BY <1>1 DEF Landed, Commits
<1> SUFFICES ASSUME NEW r \in Runs, client'[r] \in Owning
             PROVE  Current(r, known[r])'
  BY <1>5 DEF CurrentInv
<1>6. CASE r = tx.r
  <2>1. r \in Rows(manifest'[tx.s]) /\ manifest'[tx.s].heads[r].rev = known'[r]
    BY <1>1, <1>2, <1>3, <1>4, <1>6 DEF Rows
  <2> QED
    BY <1>1, <2>1 DEF Current
<1>7. CASE r # tx.r
  <2>1. PICK t \in Sessions : r \in Rows(manifest[t]) /\ manifest[t].heads[r].rev = known[r]
    BY <1>1, <1>2, <1>5, <1>7 DEF CurrentInv, Current
  <2>2. t = tx.s => tx.cand.heads[r] = manifest[t].heads[r]
    BY <1>1, <2>1 DEF RowInv, CandidateRows, Preparing, Admits
  <2>3. r \in Rows(manifest'[t]) /\ manifest'[t].heads[r].rev = known'[r]
    BY <1>2, <1>3, <1>7, <2>1, <2>2 DEF Rows
  <2> QED
    BY <2>3 DEF Current
<1> QED
  BY <1>6, <1>7

LEMMA CurrentRewrites ==
  ASSUME TypeOK, TxShape, Safe, RowInv, CurrentInv, Rewrites
  PROVE  CurrentInv'
<1>1. /\ tx'.op = tx.op /\ tx'.s = tx.s /\ tx'.r = tx.r /\ tx'.pc = "drop"
      /\ tx.pc = "persist" /\ tx.s \in Sessions /\ tx.op \in Commits \cup {"boot"}
      /\ UNCHANGED <<proc, victim, client, known>> /\ victim = NoRun
  BY DEF Rewrites, Goto, TypeOK, TxType, TxShape, Stages, Commits
<1>2. \A t \in Sessions : manifest'[t] = IF t = tx.s THEN tx.cand ELSE manifest[t]
  BY <1>1, LandsCandidate DEF Rewrites
<1> SUFFICES ASSUME proc = "up", NEW r \in Runs, client[r] \in Owning
             PROVE  Current(r, IF Landed(r) THEN known[r] + 1 ELSE known[r])'
  BY <1>1 DEF CurrentInv
<1>3. tx.op \in Commits
  BY <1>1, BootStages
<1>4. ~Landed(r) /\ (Landed(r)' <=> r = tx.r)
  BY <1>1, <1>3 DEF Landed
<1>5. CASE r = tx.r
  <2>1. tx.cand.heads[r].rev = known[r] + 1 /\ Outcome(tx.op, tx.cand.heads[r])
    BY <1>1, <1>3, <1>5 DEF RowInv, CommitInv, Preparing
  <2>2. r \in Rows(manifest'[tx.s]) /\ manifest'[tx.s].heads[r].rev = known'[r] + 1
    BY <1>1, <1>2, <1>3, <2>1 DEF Rows, Outcome, Final, Commits
  <2> QED
    BY <1>1, <1>4, <1>5, <2>2 DEF Current
<1>6. CASE r # tx.r
  <2>1. PICK t \in Sessions : r \in Rows(manifest[t]) /\ manifest[t].heads[r].rev = known[r]
    BY <1>4 DEF CurrentInv, Current
  <2>2. t = tx.s => tx.cand.heads[r] = manifest[t].heads[r]
    BY <1>1, <1>3, <1>6, <2>1 DEF RowInv, CandidateRows, Preparing
  <2>3. r \in Rows(manifest'[t]) /\ manifest'[t].heads[r].rev = known'[r]
    BY <1>1, <1>2, <2>1, <2>2 DEF Rows
  <2> QED
    BY <1>4, <1>6, <2>3 DEF Current
<1> QED
  BY <1>5, <1>6

LEMMA CurrentReturns ==
  ASSUME TypeOK, TxShape, RowInv, CurrentInv, Returns
  PROVE  CurrentInv'
<1>1. tx'.op = "none" /\ UNCHANGED manifest /\ \A r \in Runs : ~Landed(r)'
  BY IdleTaken DEF Returns, Landed, Commits
<1>2. CASE tx.pc = "undo" /\ UNCHANGED <<proc, client, known>>
  <2>1. \A r \in Runs : ~Landed(r)
    BY <1>2 DEF Landed
  <2> QED
    BY <1>1, <1>2, <2>1, CurrentFrame
<1>3. CASE tx.op = "boot" /\ Booted
  <2>1. proc = "boot" /\ UNCHANGED client
    BY <1>3, BootStages DEF Booted
  <2>2. \A r \in Runs : client'[r] = "none"
    BY <2>1 DEF RowInv, LiveInv
  <2> QED
    BY <2>2 DEF CurrentInv, Owning
<1>4. CASE Committed
  <2>1. tx.pc = "enforce" /\ tx.op \in Commits /\ tx.r \in Runs /\ proc = "up" /\ proc' = "up"
    BY <1>4, BootStages DEF Committed, At, TxShape, TypeOK, TxType, Stages, Commits
  <2>2. /\ \A q \in Runs : q # tx.r => client'[q] = client[q]
        /\ \A q \in Runs : known'[q] = IF q = tx.r THEN known[q] + 1 ELSE known[q]
    BY <1>4, <2>1 DEF Committed, TypeOK
  <2>3. client[tx.r] \in Owning
    BY <2>1 DEF RowInv, CommitInv, Owning
  <2> SUFFICES ASSUME NEW r \in Runs, client'[r] \in Owning
               PROVE  Current(r, known[r])'
    BY <1>1 DEF CurrentInv
  <2>4. Landed(r) <=> r = tx.r
    BY <2>1 DEF Landed
  <2>5. Current(r, known'[r])
    BY <2>1, <2>2, <2>3, <2>4 DEF CurrentInv
  <2> QED
    BY <1>1, <2>5 DEF Current
<1> QED
  BY <1>2, <1>3, <1>4 DEF Returns

LEMMA CurrentCall ==
  ASSUME TypeOK, TxShape, CurrentInv, Call
  PROVE  CurrentInv'
<1>1. ASSUME UNCHANGED <<manifest, proc, known, client>>, Ready, tx'.pc \in {"evict", "preflight"}
      PROVE  CurrentInv'
  <2>1. \A r \in Runs : ~Landed(r) /\ ~Landed(r)'
    BY <1>1 DEF Landed, Ready, Idle
  <2> QED
    BY <1>1, <2>1, CurrentFrame
<1>2. ASSUME NEW s, NEW r, InsertWithNextDisplayName(s, r)
      PROVE  CurrentInv'
  BY <1>1, <1>2 DEF InsertWithNextDisplayName, disk, Idle
<1>3. ASSUME NEW op, NEW s, NEW r, NEW row, NEW new, BeginCommit(op, s, r, row, new)
      PROVE  CurrentInv'
  BY <1>1, <1>3 DEF BeginCommit, disk, Idle
<1>4. ASSUME NEW r \in Runs, Enqueue(r) \/ ScratchWrite(r)
      PROVE  CurrentInv'
  <2>1. UNCHANGED <<manifest, proc, known, tx>>
    BY <1>4 DEF Enqueue, ScratchWrite, disk, memory
  <2>2. \A q \in Runs : client'[q] \in Owning => client[q] \in Owning
    BY <1>4 DEF Enqueue, ScratchWrite, memory, TypeOK, Owning
  <2>3. \A q \in Runs : Landed(q)' <=> Landed(q)
    BY <2>1 DEF Landed
  <2> QED
    BY <2>1, <2>2, <2>3, CurrentFrame
<1> QED
  BY <1>2, <1>3, <1>4 DEF Call, CommitRun, CommitTerminalAndClaimNotice, FinalizeCompletionNotice

LEMMA CurrentStep ==
  ASSUME TypeOK, TxShape, StoreInv, OwnedInv, SizeBound, TempsBound, OnlyRemovals, CurrentBound, [Next]_vars
  PROVE  OnlyRemovals' /\ CurrentBound'
<1> SUFFICES ASSUME Steady
             PROVE  faults'["late"] = 0 /\ NoEnforce' /\ CurrentInv'
  BY DEF OnlyRemovals, CurrentBound, Steady
<1>1. Safe /\ RowInv /\ SizeInv /\ TempsInv /\ NoEnforce /\ CurrentInv /\ faults["late"] = 0
      /\ Faults \subseteq {"remove"}
  BY DEF OnlyRemovals, CurrentBound, StoreInv, OwnedInv, SizeBound, TempsBound, Steady
<1>2. faults'["late"] = 0 /\ NoEnforce'
  BY <1>1, FaultsAreSteady, NoEnforceStep
<1>3. ~\E s \in Sessions : ThrowsLate(s)
  BY <1>2 DEF ThrowsLate
<1>4. CASE Retained
  <2>1. UNCHANGED <<manifest, proc, client, known>> /\ tx.pc = "evict" /\ tx'.pc = "preflight"
    BY <1>4 DEF Retained, At, disk, TypeOK, TxType
  <2>2. \A r \in Runs : ~Landed(r) /\ ~Landed(r)'
    BY <2>1 DEF Landed
  <2> QED
    BY <1>1, <1>2, <2>1, <2>2, CurrentFrame
<1>5. CASE Reconciled \/ Boot \/ Crash \/ \E s \in Sessions : Plan(s)
  <2>1. proc' # "up"
    BY <1>5, BootStages DEF Reconciled, Boot, Crash, Plan, At
  <2> QED
    BY <1>2, <2>1 DEF CurrentInv
<1>6. CASE Throws
  <2>1. CASE tx.op \in Commits /\ tx.pc \in {"drop", "enforce"}
    <3>1. GoesOn \/ Committed \/ Call \/ Crash
      BY <1>1, <2>1, LandedReturns
    <3> QED
      BY <1>1, <1>2, <1>5, <3>1, ReturnMoves, CurrentGoesOn, CurrentReturns, CurrentCall
  <2>2. CASE ~(tx.op \in Commits /\ tx.pc \in {"drop", "enforce"})
    BY <1>1, <1>2, <1>6, <2>2, CurrentThrows
  <2> QED
    BY <2>1, <2>2
<1> QED
  BY <1>1, <1>2, <1>3, <1>4, <1>5, <1>6, StoreMoves, CurrentGoesOn, CurrentReturns, CurrentCall,
     CurrentEvicts, CurrentAdmits, CurrentRewrites

(* Between calls the supervisor holds the revision on disk of every run it *)
(* still owns, however often the process dies: a call that rejects has      *)
(* changed no row, and a row it owns is never evicted (commitRun,           *)
(* commitTerminalAndClaimNotice).  It is so as long as nothing fails but a  *)
(* removal and no script writes scratch files: a commit whose accounting    *)
(* fails once its manifest is on disk rejects, and its caller keeps the     *)
(* revision before.                                                         *)
THEOREM OwnedRevisionsAreCurrent ==
  Spec => [](Writers = {} /\ Faults \subseteq {"remove"} => HandleStaysCurrent)
<1>1. CurrentBound => (Writers = {} /\ Faults \subseteq {"remove"} => HandleStaysCurrent)
  BY DEF CurrentBound, Steady, CurrentInv, Current, Landed, HandleStaysCurrent, Ready, Idle, Owning, Commits
<1>2. TypeOK /\ TxShape /\ StoreInv /\ [Next]_vars => StoreInv'
  BY SafeStep
<1>3. TypeOK /\ TxShape /\ NoticeInv /\ [Next]_vars => NoticeInv'
  BY NoticeStep
<1>4. TypeOK /\ TxShape /\ SizeBound /\ [Next]_vars => SizeBound'
  BY SizeStep
<1>5. TypeOK /\ TxShape /\ NoticeInv /\ SizeBound /\ TempsBound /\ [Next]_vars => TempsBound'
  BY TempsStep DEF NoticeInv
<1>6. TypeOK /\ TxShape /\ StoreInv /\ OwnedInv /\ SizeBound /\ TempsBound /\ OnlyRemovals /\ CurrentBound
        /\ [Next]_vars => OnlyRemovals' /\ CurrentBound'
  BY CurrentStep
<1>7. Init => StoreInv /\ NoticeInv /\ SizeBound /\ TempsBound /\ OnlyRemovals /\ CurrentBound
  <2>1. Init => OnlyRemovals /\ CurrentBound
    BY DEF Init, OnlyRemovals, CurrentBound, NoEnforce, CurrentInv, AllFaults
  <2> QED
    BY <2>1, SafeInit, NoticeInit, SizeInit, TempsInit
<1> QED
  BY <1>1, <1>2, <1>3, <1>4, <1>5, <1>6, <1>7, TypeCorrect, RowsAreSound, PTL DEF Spec
-----------------------------------------------------------------------------
(***************************************************************************)
(* NeatInv: each run directory belongs to a row and holds its details and  *)
(* nothing else, or it is what the transaction is making or removing.  It  *)
(* is about a store where no removal fails and no step throws behind its   *)
(* effect: either leaves files that wait for the next boot.                *)
(***************************************************************************)
Tidy(r) ==
  \/ place[r] = "none" /\ files[r] = {} /\ ~Referenced(r)
  \/ place[r] = "runs" /\ \E s \in Sessions : r \in Rows(manifest[s]) /\ files[r] = {manifest[s].heads[r].detail}
Going(r) == r = victim /\ ~Referenced(r)
Coming(r) ==
  /\ tx.op = "insert" /\ r = tx.r /\ tx.pc \in {"stage", "publish", "persist", "undo"}
  /\ tx.pc = "stage" => files[r] = {}
  /\ tx.pc \in {"publish", "persist"} => files[r] = {tx.cand.heads[r].detail}
Swapping(r) ==
  /\ r \in tx.written /\ place[r] = "runs" /\ tx.pc \in {"detail", "persist", "undo", "drop"}
  /\ r \in Rows(manifest[tx.s])
  /\ files[r] = {manifest[tx.s].heads[r].detail, IF tx.pc = "drop" THEN tx.old[r] ELSE tx.cand.heads[r].detail}
Neat(r) == Tidy(r) \/ Going(r) \/ Coming(r) \/ Swapping(r)
NeatInv == Loaded => \A r \in Runs : Neat(r)
(* A directory that is gone holds nothing, and only a row's details are replaced. *)
GoneInv == \A r \in Runs : place[r] = "none" => files[r] = {}
DetsInv ==
  /\ tx.op \in Commits => tx.dets \subseteq {tx.r}
  /\ tx.op = "boot" /\ tx.pc = "detail" => tx.dets \subseteq Rows(manifest[tx.s])
Lasting == {"late", "remove"} \cap Faults = {}
CleanInv == GoneInv /\ DetsInv /\ NeatInv
CleanBound == Lasting => faults["late"] = 0 /\ CleanInv

LEMMA FaultsAreLasting ==
  ASSUME TypeOK, Lasting, faults["late"] = 0, [Next]_vars
  PROVE  faults'["late"] = 0
<1>1. ASSUME NEW f \in {"early", "late", "remove"}, Fault(f)
      PROVE  faults'["late"] = 0
  <2>1. f # "late" /\ faults' = [faults EXCEPT ![f] = @ + 1]
    BY <1>1 DEF Lasting, Fault
  <2> QED
    BY <2>1 DEF TypeOK, AllFaults
<1> QED
  BY <1>1, FaultMoves

LEMMA LinkedRow ==
  ASSUME TypeOK, TxShape, RowInv, DetsInv, Safe, tx.pc = "detail", NEW r \in tx.dets
  PROVE  r \in Rows(manifest[tx.s]) /\ tx.s \in Sessions /\ place[r] = "runs"
<1>1. tx.s \in Sessions /\ tx.op \in Commits \cup {"boot"}
  BY DEF TxShape, Stages, Commits, TypeOK, TxType
<1>2. r \in Rows(manifest[tx.s])
  BY <1>1 DEF DetsInv, RowInv, CommitInv, Preparing
<1> QED
  BY <1>1, <1>2 DEF Safe, NeverDangles

(* Only a directory that exists gets files. *)
LEMMA GoneStep ==
  ASSUME TypeOK, TxShape, RowInv, DetsInv, Safe, GoneInv, [Next]_vars
  PROVE  GoneInv'
<1>1. ASSUME \A r \in Runs : /\ place'[r] = "none" => place[r] = "none"
                             /\ place'[r] = "none" => files'[r] \subseteq files[r]
      PROVE  GoneInv'
  BY <1>1 DEF GoneInv
<1>2. CASE UNCHANGED <<place, files>>
  BY <1>1, <1>2
<1>3. ASSUME NEW r \in Runs, DeleteTree(r)
      PROVE  GoneInv'
  BY <1>3 DEF DeleteTree, GoneInv, TypeOK
<1>4. CASE Step
  <2>1. CASE \/ \E r \in Runs : ChooseVictim(r) \/ WriteDetail(r) \/ ReconcileFails(r)
             \/ \E s \in Sessions : WriteManifest(s) \/ ReplaceManifest(s) \/ Plan(s)
    BY <1>2, <2>1 DEF ChooseVictim, WriteDetail, ReconcileFails, WriteManifest, ReplaceManifest, Plan, disk
  <2>2. CASE NoRoom \/ CountFails \/ Evicted \/ RemoveFails \/ Retained \/ Fits \/ StageFails
    BY <1>2, <2>2 DEF NoRoom, CountFails, Evicted, RemoveFails, Retained, Fits, StageFails, disk
  <2>3. CASE Dropped \/ Committed \/ ValidateRecoveryInventory \/ Reconciled \/ Fitted \/ Planned \/ Booted
    BY <1>2, <2>3 DEF Dropped, Committed, ValidateRecoveryInventory, Reconciled, Fitted, Planned, Booted, disk
  <2>4. CASE Stage
    BY <2>4 DEF Stage, GoneInv, TypeOK
  <2>5. CASE Staged
    <3>1. tx.r \in Runs /\ place[tx.r] = "staging" /\ UNCHANGED place
          /\ \A q \in Runs \ {tx.r} : files'[q] = files[q]
      BY <2>5, BootStages DEF Staged, At, TxShape, TypeOK
    <3> QED
      BY <3>1 DEF GoneInv
  <2>6. CASE PublishDirectory
    <3>1. UNCHANGED files /\ \A q \in Runs : place'[q] = "none" => place[q] = "none"
      BY <2>6 DEF PublishDirectory, TypeOK
    <3> QED
      BY <1>1, <3>1
  <2>7. CASE Undo
    <3>1. UNCHANGED place /\ \A q \in Runs : files'[q] \subseteq files[q]
      BY <2>7 DEF Undo
    <3> QED
      BY <1>1, <3>1
  <2>8. ASSUME NEW r \in Runs, LinkDetail(r)
        PROVE  GoneInv'
    <3>1. tx.pc = "detail" /\ r \in tx.dets /\ UNCHANGED place
      BY <2>8 DEF LinkDetail, At
    <3>2. place[r] = "runs"
      BY <3>1, LinkedRow
    <3>3. \A q \in Runs \ {r} : files'[q] = files[q]
      BY <2>8 DEF LinkDetail, TypeOK
    <3> QED
      BY <3>1, <3>2, <3>3 DEF GoneInv
  <2>9. ASSUME NEW r \in Runs, DropOld(r)
        PROVE  GoneInv'
    <3>1. UNCHANGED place /\ \A q \in Runs : files'[q] \subseteq files[q]
      BY <2>9 DEF DropOld, TypeOK
    <3> QED
      BY <1>1, <3>1
  <2>10. ASSUME NEW r \in Runs, Quarantine(r)
         PROVE  GoneInv'
    <3>1. UNCHANGED files /\ \A q \in Runs : place'[q] = "none" => place[q] = "none"
      BY <2>10 DEF Quarantine, TypeOK
    <3> QED
      BY <1>1, <3>1
  <2>11. ASSUME NEW r \in Runs, ReconcileRecoveryResidue(r), ~DeleteTree(r)
         PROVE  GoneInv'
    <3>1. \A q \in Runs : (place'[q] = "none" => place[q] = "none") /\ files'[q] \subseteq files[q]
      BY <2>11 DEF ReconcileRecoveryResidue, TypeOK
    <3> QED
      BY <1>1, <3>1
  <2>12. CASE \E r \in Runs : Remove(r)
    BY <1>3, <2>12 DEF Remove
  <2> QED
    BY <1>3, <1>4, <2>1, <2>2, <2>3, <2>4, <2>5, <2>6, <2>7, <2>8, <2>9, <2>10, <2>11, <2>12, Zenon DEF Step
<1>5. CASE ScratchStep \/ Boot \/ Crash \/ UNCHANGED vars
  BY <1>2, <1>5 DEF ScratchStep, ScratchWritten, Boot, Crash, vars, disk
<1>6. CASE Call
  BY <1>2, <1>6, CallKeepsTheStore
<1> QED
  BY <1>4, <1>5, <1>6 DEF Next

LEMMA DetsStep ==
  ASSUME TypeOK, TxShape, Safe, DetsInv, [Next]_vars
  PROVE  DetsInv'
<1>1. ASSUME tx'.op = tx.op, tx'.r = tx.r, tx'.dets \subseteq tx.dets, tx'.s = tx.s, UNCHANGED manifest,
             tx'.pc = "detail" /\ tx.op = "boot" => tx.pc = "detail"
      PROVE  DetsInv'
  BY <1>1 DEF DetsInv
<1>2. ASSUME tx' = Idle
      PROVE  DetsInv'
  BY <1>2, IdleTaken DEF DetsInv, Commits
<1>3. CASE UNCHANGED <<tx, manifest>>
  BY <1>1, <1>3
<1>4. ASSUME Throw, UNCHANGED manifest
      PROVE  DetsInv'
  <2>1. CASE tx' = Idle
    BY <1>2, <2>1
  <2>2. CASE Goto("undo")
    <3>1. tx'.op = tx.op /\ tx'.r = tx.r /\ tx'.dets = tx.dets /\ tx'.s = tx.s /\ tx'.pc = "undo"
      BY <2>2 DEF Goto, TypeOK, TxType
    <3> QED
      BY <1>1, <1>4, <3>1
  <2> QED
    BY <1>4, <2>1, <2>2 DEF Throw
<1>5. ASSUME NEW pc, Goto(pc), UNCHANGED manifest, pc = "detail" => tx.op # "boot"
      PROVE  DetsInv'
  <2>1. tx'.op = tx.op /\ tx'.r = tx.r /\ tx'.dets = tx.dets /\ tx'.s = tx.s /\ tx'.pc = pc
    BY <1>5 DEF Goto, TypeOK, TxType
  <2> QED
    BY <1>1, <1>5, <2>1
<1>6. CASE Step
  <2>1. CASE \E r \in Runs : ChooseVictim(r) \/ WriteDetail(r) \/ Quarantine(r) \/ Remove(r) \/ ReconcileRecoveryResidue(r)
    BY <1>3, <2>1 DEF ChooseVictim, WriteDetail, Quarantine, Remove, ReconcileRecoveryResidue, disk, memory
  <2>2. CASE Evicted \/ Stage \/ \E s \in Sessions : WriteManifest(s)
    BY <1>3, <2>2 DEF Evicted, Stage, WriteManifest, disk, memory
  <2>3. CASE NoRoom \/ CountFails \/ RemoveFails \/ StageFails \/ \E r \in Runs : ReconcileFails(r)
    BY <1>4, <2>3 DEF NoRoom, CountFails, RemoveFails, StageFails, ReconcileFails, disk
  <2>4. CASE Staged \/ PublishDirectory \/ Dropped
    BY <1>4, <1>5, <2>4 DEF Staged, PublishDirectory, Dropped, disk
  <2>5. CASE Fitted \/ Planned \/ ValidateRecoveryInventory
    BY <1>4, <1>5, <2>5 DEF Fitted, Planned, ValidateRecoveryInventory, disk
  <2>6. CASE Fits
    <3>1. tx.op # "boot"
      BY <2>6, BootStages DEF Fits, At
    <3> QED
      BY <1>5, <2>6, <3>1 DEF Fits, disk
  <2>7. CASE Committed \/ Undo \/ Booted
    BY <1>2, <2>7 DEF Committed, Undo, Booted
  <2>8. CASE Retained \/ Reconciled
    <3>1. tx'.op = tx.op /\ tx'.r = tx.r /\ tx'.dets = tx.dets /\ tx'.s = tx.s /\ tx'.pc \in {"preflight", "fit"}
          /\ UNCHANGED manifest
      BY <2>8 DEF Retained, Reconciled, disk, TypeOK, TxType
    <3> QED
      BY <1>1, <3>1
  <2>9. ASSUME NEW r \in Runs, LinkDetail(r) \/ DropOld(r)
        PROVE  DetsInv'
    <3>1. CASE Throw
      BY <1>4, <2>9, <3>1 DEF LinkDetail, DropOld
    <3>2. CASE LinkDetail(r) /\ ~Throw
      <4>1. tx' = [tx EXCEPT !.dets = @ \ {r}, !.written = @ \cup {r},
                             !.pc = IF tx.dets = {r} THEN "persist" ELSE @]
            /\ UNCHANGED manifest /\ tx.pc = "detail"
        BY <3>2 DEF LinkDetail, At
      <4>2. tx'.op = tx.op /\ tx'.r = tx.r /\ tx'.dets \subseteq tx.dets /\ tx'.s = tx.s
        BY <4>1 DEF TypeOK, TxType
      <4> QED
        BY <1>1, <4>1, <4>2
    <3>3. CASE DropOld(r) /\ ~Throw
      <4>1. tx' = [tx EXCEPT !.written = @ \ {r}] /\ UNCHANGED manifest
        BY <3>3 DEF DropOld
      <4>2. tx'.op = tx.op /\ tx'.r = tx.r /\ tx'.dets = tx.dets /\ tx'.s = tx.s /\ tx'.pc = tx.pc
        BY <4>1 DEF TypeOK, TxType
      <4> QED
        BY <1>1, <4>1, <4>2
    <3> QED
      BY <2>9, <3>1, <3>2, <3>3
  <2>10. ASSUME NEW s \in Sessions, Plan(s)
         PROVE  DetsInv'
    <3>1. cache = manifest /\ tx.op = "boot"
      BY <2>10, BootStages, CacheIsDisk DEF Plan, At, Safe
    <3>2. /\ tx'.op = tx.op /\ tx'.s = s /\ UNCHANGED manifest
          /\ tx'.dets = {r \in Rows(cache[s]) : cache[s].heads[r].status = "active"}
      BY <2>10 DEF Plan, disk, TypeOK, TxType
    <3> QED
      BY <3>1, <3>2, BootStages DEF DetsInv
  <2>11. ASSUME NEW s \in Sessions, ReplaceManifest(s)
         PROVE  DetsInv'
    <3>1. Throws \/ ThrowsLate(s) \/ Evicts(s) \/ Admits \/ Rewrites
      BY <2>11, ReplaceMoves
    <3>2. CASE Throws \/ ThrowsLate(s)
      <4>1. tx'.op = "none" \/ (tx'.pc = "undo" /\ tx'.op = tx.op /\ tx'.r = tx.r /\ tx'.dets = tx.dets)
        BY <3>2, IdleTaken DEF Throws, ThrowsLate, Abandons, TypeOK, TxType
      <4> QED
        BY <4>1 DEF DetsInv, Commits
    <3>3. CASE Evicts(s)
      <4>1. tx'.op = tx.op /\ tx'.r = tx.r /\ tx'.dets = tx.dets /\ tx'.pc = tx.pc /\ tx.pc # "detail"
        BY <3>3 DEF Evicts, TypeOK, TxType, TxShape
      <4> QED
        BY <4>1 DEF DetsInv
    <3>4. CASE Admits
      BY <1>2, <3>4 DEF Admits
    <3>5. CASE Rewrites
      <4>1. tx'.op = tx.op /\ tx'.r = tx.r /\ tx'.dets = tx.dets /\ tx'.pc = "drop"
        BY <3>5 DEF Rewrites, Goto, TypeOK, TxType
      <4> QED
        BY <4>1 DEF DetsInv
    <3> QED
      BY <3>1, <3>2, <3>3, <3>4, <3>5
  <2> QED
    BY <1>6, <2>1, <2>2, <2>3, <2>4, <2>5, <2>6, <2>7, <2>8, <2>9, <2>10, <2>11, Zenon DEF Step
<1>7. CASE ScratchStep \/ UNCHANGED vars
  BY <1>3, <1>7 DEF ScratchStep, ScratchWritten, vars, disk, memory
<1>8. CASE Boot
  <2>1. tx' = [Idle EXCEPT !.op = "boot", !.pc = "validate"]
    BY <1>8 DEF Boot
  <2> QED
    BY <2>1 DEF DetsInv, Idle, Commits
<1>9. CASE Crash
  BY <1>2, <1>9 DEF Crash
<1>10. CASE Call
  <2>1. ASSUME NEW r \in Runs, Enqueue(r) \/ ScratchWrite(r)
        PROVE  DetsInv'
    BY <1>3, <2>1 DEF Enqueue, ScratchWrite, disk, memory
  <2>2. ASSUME NEW s, NEW r, InsertWithNextDisplayName(s, r)
        PROVE  DetsInv'
    BY <2>2 DEF InsertWithNextDisplayName, Idle, DetsInv, Commits
  <2>3. ASSUME NEW op \in Commits, NEW s, NEW r, NEW row, NEW new, BeginCommit(op, s, r, row, new)
        PROVE  DetsInv'
    <3>1. tx'.op = op /\ tx'.r = r /\ tx'.dets \subseteq {r}
      BY <2>3 DEF BeginCommit, Idle
    <3> QED
      BY <3>1 DEF DetsInv, Commits
  <2> QED
    BY <1>10, <2>1, <2>2, <2>3 DEF Call, CommitRun, CommitTerminalAndClaimNotice, FinalizeCompletionNotice, Commits
<1> QED
  BY <1>6, <1>7, <1>8, <1>9, <1>10 DEF Next

LEMMA TidyKept ==
  ASSUME NEW r, Tidy(r), UNCHANGED manifest, place'[r] = place[r], files'[r] = files[r]
  PROVE  Tidy(r)'
BY DEF Tidy, Referenced

(* Outside a transaction's writing every directory is tidy. *)
Settled == tx.pc \in {"idle", "evict", "preflight", "fit", "plan", "enforce"} \/ (tx.pc = "drop" /\ tx.written = {})
LEMMA AllTidy ==
  ASSUME NeatInv, Loaded, Settled, NEW r \in Runs, r # victim \/ Referenced(r)
  PROVE  Tidy(r)
BY DEF NeatInv, Neat, Going, Coming, Swapping, Settled

LEMMA NeatQuiet ==
  ASSUME NeatInv, Settled, Loaded' => Loaded, UNCHANGED <<manifest, place, files>>,
         \A r \in Runs : r # victim \/ Referenced(r) \/ (victim' = victim)
  PROVE  NeatInv'
<1> SUFFICES ASSUME Loaded', NEW r \in Runs
             PROVE  Neat(r)'
  BY DEF NeatInv
<1>1. CASE r # victim \/ Referenced(r)
  BY <1>1, AllTidy, TidyKept DEF Neat
<1>2. CASE ~(r # victim \/ Referenced(r))
  BY <1>2 DEF Neat, Going, Referenced
<1> QED
  BY <1>1, <1>2

LEMMA NeatSame ==
  ASSUME NeatInv, Loaded' => Loaded, UNCHANGED <<manifest, place, files, victim, tx>>
  PROVE  NeatInv'
<1> SUFFICES ASSUME Loaded', NEW r \in Runs
             PROVE  Neat(r)'
  BY DEF NeatInv
<1>1. Neat(r)
  BY DEF NeatInv
<1>2. Tidy(r) => Tidy(r)'
  BY TidyKept
<1>3. (Going(r) => Going(r)') /\ (Coming(r) => Coming(r)') /\ (Swapping(r) => Swapping(r)')
  BY DEF Going, Coming, Swapping, Referenced
<1> QED
  BY <1>1, <1>2, <1>3 DEF Neat

LEMMA NeatThrows ==
  ASSUME TypeOK, TxShape, Safe, NeatInv, Throw, tx.op # "none", Loaded \/ tx.op = "boot",
         UNCHANGED <<manifest, place, files>>, tx.pc \notin {"undo", "drop"},
         victim = NoRun \/ Referenced(victim)
  PROVE  NeatInv'
<1>1. CASE tx.op = "boot"
  BY <1>1 DEF Throw, NeatInv, Loaded
<1>2. CASE tx.op # "boot" /\ tx.pc \notin {"stage", "publish", "detail", "persist"}
  <2>1. Settled
    BY <1>2 DEF Settled, TxShape, Stages, Commits, TypeOK, TxType, CommitStages
  <2> QED
    BY <1>2, <2>1, NeatQuiet, RunStoreAssumption
<1>3. CASE tx.op # "boot" /\ tx.pc \in {"stage", "publish", "detail", "persist"}
  <2>1. victim = NoRun /\ victim' = NoRun /\ tx' = [tx EXCEPT !.pc = "undo"]
    BY <1>3 DEF Throw, Goto, TxShape
  <2>2. /\ tx'.op = tx.op /\ tx'.pc = "undo" /\ tx'.r = tx.r /\ tx'.s = tx.s
        /\ tx'.cand = tx.cand /\ tx'.written = tx.written /\ tx'.old = tx.old
    BY <2>1 DEF TypeOK, TxType
  <2> SUFFICES ASSUME NEW r \in Runs
               PROVE  Neat(r)'
    BY DEF NeatInv
  <2>3. Neat(r) /\ ~Going(r)
    BY <1>3, <2>1, RunStoreAssumption DEF NeatInv, Going
  <2>4. Tidy(r) => Tidy(r)'
    BY TidyKept
  <2>5. (Coming(r) => Coming(r)') /\ (Swapping(r) => Swapping(r)')
    BY <1>3, <2>2 DEF Coming, Swapping
  <2> QED
    BY <2>3, <2>4, <2>5 DEF Neat
<1> QED
  BY <1>1, <1>2, <1>3

(* The steps that move no file. *)
LEMMA NeatMemory ==
  ASSUME TypeOK, TxShape, Safe, NeatInv,
         \/ \E r \in Runs : ChooseVictim(r)
         \/ NoRoom \/ CountFails \/ Retained \/ Fits \/ Dropped \/ Committed \/ Fitted \/ Planned \/ Booted
         \/ \E s \in Sessions : Plan(s)
  PROVE  NeatInv'
<1>1. UNCHANGED <<manifest, place, files>> /\ victim = NoRun
  BY DEF ChooseVictim, NoRoom, CountFails, Retained, Fits, Dropped, Committed, Fitted, Planned, Booted, Plan,
         At, Counted, Counting, disk
<1>2. Settled /\ tx.pc \notin {"idle", "validate", "reconcile"}
  <2>1. CASE NoRoom \/ CountFails \/ \E r \in Runs : ChooseVictim(r)
    <3>1. Counting
      BY <2>1 DEF ChooseVictim, NoRoom, CountFails, Counted
    <3> QED
      BY <3>1 DEF Settled, Counting
  <2>2. CASE Retained \/ Fits \/ Dropped \/ Committed
    BY <2>2 DEF Retained, Fits, Dropped, Committed, At, Settled
  <2>3. CASE Fitted \/ Planned \/ Booted \/ \E s \in Sessions : Plan(s)
    BY <2>3 DEF Fitted, Planned, Booted, Plan, At, Settled
  <2> QED
    BY <2>1, <2>2, <2>3
<1>3. Loaded
  BY <1>2, BusyHasAnOperation, OpenNow
<1> QED
  BY <1>1, <1>2, <1>3, NeatQuiet, RunStoreAssumption

LEMMA NeatCall ==
  ASSUME TypeOK, TxShape, Safe, NeatInv, Call
  PROVE  NeatInv'
<1>1. UNCHANGED <<manifest, place, files>>
  BY CallKeepsTheStore
<1>2. ASSUME Ready
      PROVE  NeatInv'
  <2>1. Loaded /\ Settled /\ victim = NoRun
    BY <1>2, OpenNow DEF Ready, Settled, Idle, TxShape
  <2> QED
    BY <1>1, <2>1, NeatQuiet, RunStoreAssumption
<1>3. ASSUME NEW r \in Runs, Enqueue(r) \/ ScratchWrite(r)
      PROVE  NeatInv'
  <2>1. UNCHANGED <<victim, tx, proc>>
    BY <1>3 DEF Enqueue, ScratchWrite, memory
  <2> QED
    BY <1>1, <2>1, NeatSame DEF Loaded
<1>4. ASSUME NEW op, NEW s, NEW r, NEW row, NEW new,
             BeginCommit(op, s, r, row, new) \/ InsertWithNextDisplayName(s, r)
      PROVE  Ready
  BY <1>4 DEF BeginCommit, InsertWithNextDisplayName
<1>5. ASSUME NEW s, NEW r,
             \/ InsertWithNextDisplayName(s, r) \/ \E new \in BOOLEAN : CommitRun(s, r, new)
             \/ CommitTerminalAndClaimNotice(s, r) \/ FinalizeCompletionNotice(s, r)
      PROVE  Ready
  BY <1>4, <1>5 DEF CommitRun, CommitTerminalAndClaimNotice, FinalizeCompletionNotice
<1> QED
  BY <1>2, <1>3, <1>5 DEF Call

(* The steps that only write a temporary file, or none at all. *)
LEMMA NeatWaits ==
  ASSUME NeatInv,
         \/ \E r \in Runs : WriteDetail(r)
         \/ \E s \in Sessions : WriteManifest(s)
         \/ ScratchStep \/ UNCHANGED vars
  PROVE  NeatInv'
<1>1. UNCHANGED <<manifest, place, files, victim, tx, proc>>
  BY DEF WriteDetail, WriteManifest, ScratchStep, ScratchWritten, vars, disk, memory
<1> QED
  BY <1>1, NeatSame DEF Loaded

(* A victim's directory goes, and so does that of an insert that failed. *)
LEMMA NeatRemoval ==
  ASSUME TypeOK, TxShape, Safe, GoneInv, NeatInv,
         Evicted \/ \E r \in Runs : Quarantine(r) \/ Remove(r)
  PROVE  NeatInv'
<1>1. CASE Evicted
  <2>1. /\ UNCHANGED <<manifest, place, files, tx, proc>> /\ victim' = NoRun
        /\ victim # NoRun /\ place[victim] = "none" /\ \A s \in Sessions : ~Holds(s, victim)
    BY <1>1 DEF Evicted, Evicting, disk
  <2>2. tx.op # "none" /\ tx.pc \in {"evict", "preflight", "fit", "enforce"}
    BY <2>1, BusyHasAnOperation DEF TxShape
  <2>3. Loaded /\ cache = manifest /\ Settled
    BY <2>2, OpenNow, CacheIsDisk DEF Safe, Settled
  <2>4. Tidy(victim)
    BY <2>1, <2>3 DEF Tidy, Referenced, Holds, GoneInv, TypeOK
  <2>5. \A r \in Runs : Tidy(r)
    BY <2>3, <2>4, AllTidy
  <2> QED
    BY <2>1, <2>5, TidyKept DEF NeatInv, Neat
<1>2. ASSUME NEW r \in Runs, Quarantine(r) \/ Remove(r)
      PROVE  NeatInv'
  <2>1. /\ UNCHANGED <<manifest, tx, victim, proc>> /\ Removing(r)
        /\ \A q \in Runs \ {r} : place'[q] = place[q] /\ files'[q] = files[q]
        /\ (place'[r] = "quarantine" \/ (place'[r] = "none" /\ files'[r] = {}))
    BY <1>2 DEF Quarantine, Remove, DeleteTree, memory, TypeOK
  <2>2. tx.op # "none" /\ tx.pc \notin {"validate", "reconcile", "idle"}
    BY <2>1, BusyHasAnOperation DEF Removing, Evicting, At, TxShape
  <2>3. Loaded /\ cache = manifest
    BY <2>2, OpenNow, CacheIsDisk DEF Safe
  <2>4. ~Referenced(r) /\ ~Referenced(r)' /\ (Going(r)' \/ Coming(r)')
    <3>1. CASE Evicting /\ r = victim
      BY <2>1, <2>3, <3>1 DEF Evicting, Referenced, Holds, Going
    <3>2. CASE At("undo") /\ tx.op = "insert" /\ r = tx.r
      BY <2>1, <3>2 DEF At, Safe, InsertInv, Referenced, Coming
    <3> QED
      BY <2>1, <3>1, <3>2 DEF Removing
  <2>5. ASSUME NEW q \in Runs, q # r
        PROVE  Neat(q)'
    <3>1. Neat(q)
      BY <2>3 DEF NeatInv
    <3>2. Tidy(q) => Tidy(q)'
      BY <2>1, <2>5, TidyKept
    <3>3. (Going(q) => Going(q)') /\ (Coming(q) => Coming(q)') /\ (Swapping(q) => Swapping(q)')
      BY <2>1, <2>5 DEF Going, Coming, Swapping, Referenced
    <3> QED
      BY <3>1, <3>2, <3>3 DEF Neat
  <2> QED
    BY <2>4, <2>5 DEF NeatInv, Neat
<1> QED
  BY <1>1, <1>2

(* An insert stages its directory, then publishes it. *)
LEMMA NeatInsert ==
  ASSUME TypeOK, TxShape, Safe, NeatInv, faults'["late"] = 0,
         Stage \/ Staged \/ StageFails \/ PublishDirectory
  PROVE  NeatInv'
<1>1. /\ tx.op = "insert" /\ tx.r \in Runs /\ Loaded /\ victim = NoRun /\ tx.written = {}
      /\ tx.pc \in {"stage", "publish"} /\ ~Referenced(tx.r) /\ UNCHANGED manifest
  <2>1. tx.pc \in {"stage", "publish"} /\ victim = NoRun /\ UNCHANGED manifest
    BY DEF Stage, Staged, StageFails, PublishDirectory, At
  <2>2. tx.op = "insert" /\ tx.r \in Runs /\ Loaded
    BY <2>1, BootStages, BusyHasAnOperation, OpenNow DEF TxShape
  <2> QED
    BY <2>1, <2>2 DEF Safe, InsertInv, Referenced
<1>2. \A q \in Runs \ {tx.r} : Tidy(q)
  BY <1>1, RunStoreAssumption DEF NeatInv, Neat, Going, Coming, Swapping
<1>3. ASSUME \A q \in Runs \ {tx.r} : place'[q] = place[q] /\ files'[q] = files[q],
             tx'.r = tx.r, Coming(tx.r)'
      PROVE  NeatInv'
  <2>1. \A q \in Runs \ {tx.r} : Tidy(q)'
    BY <1>1, <1>2, <1>3, TidyKept
  <2> QED
    BY <1>3, <2>1 DEF NeatInv, Neat
<1>4. Neat(tx.r)
  BY <1>1 DEF NeatInv
<1>5. CASE Stage
  <2>1. tx.pc = "stage" /\ place[tx.r] = "none" /\ UNCHANGED <<tx, files>>
        /\ \A q \in Runs \ {tx.r} : place'[q] = place[q]
    BY <1>5 DEF Stage, At, memory, TypeOK
  <2>2. files[tx.r] = {}
    BY <1>1, <1>4, <2>1, RunStoreAssumption DEF Neat, Tidy, Going, Coming, Swapping
  <2> QED
    BY <1>1, <1>3, <2>1, <2>2 DEF Coming
<1>6. CASE Staged
  <2>1. /\ UNCHANGED place /\ files'[tx.r] = {tx.cand.heads[tx.r].detail}
        /\ \A q \in Runs \ {tx.r} : files'[q] = files[q]
        /\ tx' = [tx EXCEPT !.pc = "publish"]
    BY <1>1, <1>6 DEF Staged, Goto, TypeOK
  <2>2. tx'.op = tx.op /\ tx'.pc = "publish" /\ tx'.r = tx.r /\ tx'.cand = tx.cand
    BY <2>1 DEF TypeOK, TxType
  <2> QED
    BY <1>1, <1>3, <2>1, <2>2 DEF Coming
<1>7. CASE StageFails
  BY <1>1, <1>7, NeatThrows DEF StageFails
<1>8. CASE PublishDirectory /\ ~Goto("persist")
  <2>1. Throw /\ (UNCHANGED place \/ Fault("late")) /\ UNCHANGED files
    BY <1>8 DEF PublishDirectory
  <2>2. UNCHANGED place
    BY <2>1, LateIsCounted
  <2> QED
    BY <1>1, <2>1, <2>2, NeatThrows
<1>9. CASE PublishDirectory /\ Goto("persist")
  <2>1. /\ tx.pc = "publish" /\ tx' = [tx EXCEPT !.pc = "persist"] /\ UNCHANGED files
        /\ \A q \in Runs \ {tx.r} : place'[q] = place[q]
    BY <1>1, <1>9 DEF PublishDirectory, Goto, At, TypeOK
  <2>2. tx'.op = tx.op /\ tx'.pc = "persist" /\ tx'.r = tx.r /\ tx'.cand = tx.cand
    BY <2>1 DEF TypeOK, TxType
  <2>3. files[tx.r] = {tx.cand.heads[tx.r].detail}
    <3>1. tx.cand.heads[tx.r].detail \in files[tx.r]
      BY <1>1, <2>1 DEF Safe, InsertInv
    <3> QED
      BY <1>1, <1>4, <2>1, <3>1, RunStoreAssumption DEF Neat, Tidy, Going, Coming, Swapping, Referenced
  <2> QED
    BY <1>1, <1>3, <2>1, <2>2, <2>3 DEF Coming
<1> QED
  BY <1>5, <1>6, <1>7, <1>8, <1>9

(* A commit links its new details beside the old ones. *)
LEMMA NeatLink ==
  ASSUME TypeOK, TxShape, Safe, RowInv, DetsInv, NeatInv, faults'["late"] = 0, NEW r \in Runs, LinkDetail(r)
  PROVE  NeatInv'
<1>1. /\ tx.pc = "detail" /\ r \in tx.dets /\ victim = NoRun /\ UNCHANGED <<manifest, place>> /\ tx.op # "none"
      /\ Loaded
  BY BusyHasAnOperation, OpenNow DEF LinkDetail, At
<1>2. r \in Rows(manifest[tx.s]) /\ tx.s \in Sessions /\ place[r] = "runs" /\ tx.op # "insert"
  BY <1>1, LinkedRow DEF Safe, InsertInv
<1> DEFINE file == tx.cand.heads[r].detail
<1>3. CASE /\ files' = [files EXCEPT ![r] = @ \cup {file}]
           /\ tx' = [tx EXCEPT !.dets = @ \ {r}, !.written = @ \cup {r},
                               !.pc = IF tx.dets = {r} THEN "persist" ELSE @]
           /\ UNCHANGED victim
  <2>1. /\ tx'.pc \in {"detail", "persist"} /\ tx'.op = tx.op /\ tx'.s = tx.s /\ tx'.r = tx.r
        /\ tx'.cand = tx.cand /\ tx'.written = tx.written \cup {r}
    BY <1>1, <1>3 DEF TypeOK, TxType
  <2>2. files'[r] = files[r] \cup {file} /\ \A q \in Runs \ {r} : files'[q] = files[q]
    BY <1>3 DEF TypeOK
  <2>3. ASSUME NEW q \in Runs, q # r
        PROVE  Neat(q)'
    <3>1. Neat(q)
      BY <1>1 DEF NeatInv
    <3>2. Tidy(q) => Tidy(q)'
      BY <1>1, <2>2, <2>3, TidyKept
    <3>3. ~Going(q) /\ ~Coming(q)
      BY <1>1, <1>2, RunStoreAssumption DEF Going, Coming
    <3>4. Swapping(q) => Swapping(q)'
      BY <1>1, <2>1, <2>2, <2>3 DEF Swapping
    <3> QED
      BY <3>1, <3>2, <3>3, <3>4 DEF Neat
  <2>4. Swapping(r)'
    <3>1. Tidy(r) \/ Swapping(r)
      BY <1>1, <1>2, RunStoreAssumption DEF NeatInv, Neat, Going, Coming
    <3>2. CASE Swapping(r)
      BY <1>1, <1>2, <2>1, <2>2, <3>2 DEF Swapping
    <3>3. CASE Tidy(r)
      <4>1. files[r] = {manifest[tx.s].heads[r].detail}
        BY <1>2, <3>3 DEF Tidy, Safe, OneHome
      <4>2. files'[r] = {manifest[tx.s].heads[r].detail, file}
        BY <2>2, <4>1
      <4> QED
        BY <1>1, <1>2, <2>1, <4>2 DEF Swapping
    <3> QED
      BY <3>1, <3>2, <3>3
  <2> QED
    BY <2>3, <2>4 DEF NeatInv, Neat
<1>4. CASE Throw /\ (UNCHANGED files \/ Fault("late"))
  <2>1. UNCHANGED files
    BY <1>4, LateIsCounted
  <2> QED
    BY <1>1, <1>4, <2>1, NeatThrows
<1> QED
  BY <1>3, <1>4 DEF LinkDetail

LEMMA NeatDrop ==
  ASSUME TypeOK, TxShape, Safe, NeatInv, "remove" \notin Faults, NEW r \in Runs, DropOld(r)
  PROVE  NeatInv'
<1>1. /\ tx.pc = "drop" /\ r \in tx.written /\ victim = NoRun /\ Loaded
      /\ UNCHANGED <<manifest, place, victim, proc>>
      /\ files' = [files EXCEPT ![r] = @ \ {tx.old[r]}] /\ tx' = [tx EXCEPT !.written = @ \ {r}]
  BY BusyHasAnOperation, OpenNow DEF DropOld, At, Fault
<1>2. /\ tx'.pc = "drop" /\ tx'.op = tx.op /\ tx'.s = tx.s /\ tx'.r = tx.r
      /\ tx'.cand = tx.cand /\ tx'.old = tx.old /\ tx'.written = tx.written \ {r}
  BY <1>1 DEF TypeOK, TxType
<1>3. files'[r] = files[r] \ {tx.old[r]} /\ \A q \in Runs \ {r} : files'[q] = files[q]
  BY <1>1 DEF TypeOK
<1>4. \A q \in Runs : ~Going(q) /\ ~Coming(q)
  BY <1>1, RunStoreAssumption DEF Going, Coming
<1>5. ASSUME NEW q \in Runs, q # r
      PROVE  Neat(q)'
  <2>1. Neat(q)
    BY <1>1 DEF NeatInv
  <2>2. Tidy(q) => Tidy(q)'
    BY <1>1, <1>3, <1>5, TidyKept
  <2>3. Swapping(q) => Swapping(q)'
    BY <1>1, <1>2, <1>3, <1>5 DEF Swapping
  <2> QED
    BY <1>4, <2>1, <2>2, <2>3 DEF Neat
<1>6. Tidy(r)'
  <2>1. ASSUME NEW s \in Sessions, r \in Rows(manifest[s])
        PROVE  manifest[s].heads[r].detail # tx.old[r]
    BY <1>1, <2>1 DEF Safe, DropInv
  <2>2. Tidy(r) \/ Swapping(r)
    BY <1>1, <1>4 DEF NeatInv, Neat
  <2>3. CASE Tidy(r)
    <3>1. files'[r] = files[r]
      BY <1>3, <2>1, <2>3 DEF Tidy
    <3> QED
      BY <1>1, <2>3, <3>1, TidyKept
  <2>4. CASE Swapping(r)
    <3>1. place[r] = "runs" /\ r \in Rows(manifest[tx.s]) /\ tx.s \in Sessions
          /\ files[r] = {manifest[tx.s].heads[r].detail, tx.old[r]}
      BY <1>1, <2>4, BootStages DEF Swapping
    <3>2. files'[r] = {manifest[tx.s].heads[r].detail}
      BY <1>3, <2>1, <3>1
    <3> QED
      BY <1>1, <3>1, <3>2 DEF Tidy
  <2> QED
    BY <2>2, <2>3, <2>4
<1> QED
  BY <1>5, <1>6 DEF NeatInv, Neat

LEMMA NeatUndo ==
  ASSUME TypeOK, TxShape, Safe, NeatInv, GoneInv, "remove" \notin Faults, Undo
  PROVE  NeatInv'
<1>1. /\ tx.pc = "undo" /\ victim = NoRun /\ victim' = NoRun /\ Loaded /\ tx.op # "none" /\ cache = manifest
      /\ UNCHANGED <<manifest, place>>
  BY BusyHasAnOperation, OpenNow, CacheIsDisk DEF Undo, At, Safe
<1> SUFFICES ASSUME NEW r \in Runs
             PROVE  Tidy(r)'
  BY DEF NeatInv, Neat
<1>2. Neat(r) /\ ~Going(r)
  BY <1>1, RunStoreAssumption DEF NeatInv, Going
<1>3. CASE tx.op = "insert"
  <2>1. /\ UNCHANGED files /\ ~Referenced(tx.r) /\ tx.written = {}
        /\ place[tx.r] = "none" \/ Holds(tx.s, tx.r)
    BY <1>1, <1>3 DEF Undo, Fault, Safe, InsertInv, Referenced
  <2>2. place[tx.r] = "none"
    BY <1>1, <1>3, <2>1 DEF Holds, Referenced, TxShape
  <2>3. CASE r = tx.r
    BY <1>1, <2>1, <2>2, <2>3 DEF GoneInv, Tidy, Referenced
  <2>4. CASE r # tx.r
    BY <1>1, <1>2, <2>1, <2>4, TidyKept DEF Neat, Coming, Swapping
  <2> QED
    BY <2>3, <2>4
<1>4. CASE tx.op # "insert"
  <2>1. \/ tx.written = {} /\ UNCHANGED files
        \/ /\ files' = [q \in Runs |-> IF q \in tx.written THEN files[q] \ {tx.cand.heads[q].detail}
                                       ELSE files[q]]
    BY <1>4 DEF Undo, Fault
  <2>2. r \notin tx.written => files'[r] = files[r]
    BY <2>1
  <2>3. r \in tx.written => files'[r] = files[r] \ {tx.cand.heads[r].detail}
    BY <2>1
  <2>4. Tidy(r) \/ Swapping(r)
    BY <1>2, <1>4 DEF Neat, Coming
  <2>5. CASE r \notin tx.written
    BY <1>1, <2>2, <2>4, <2>5, TidyKept DEF Swapping
  <2>6. CASE r \in tx.written
    <3>1. Replacing(r)
      BY <1>1, <2>6 DEF Safe, DetailInv
    <3>2. CASE Swapping(r)
      <4>1. place[r] = "runs" /\ r \in Rows(manifest[tx.s]) /\ tx.s \in Sessions
            /\ files[r] = {manifest[tx.s].heads[r].detail, tx.cand.heads[r].detail}
        BY <1>1, <1>4, <3>2 DEF Swapping, TxShape, TypeOK, TxType, Stages, Commits
      <4>2. files'[r] = {manifest[tx.s].heads[r].detail}
        BY <2>3, <2>6, <3>1, <4>1 DEF Replacing
      <4> QED
        BY <1>1, <4>1, <4>2 DEF Tidy
    <3>3. CASE Tidy(r)
      <4>1. files'[r] = files[r]
        BY <2>3, <2>6, <3>1, <3>3 DEF Tidy, Replacing
      <4> QED
        BY <1>1, <3>3, <4>1, TidyKept
    <3> QED
      BY <2>4, <3>2, <3>3
  <2> QED
    BY <2>5, <2>6
<1> QED
  BY <1>3, <1>4

LEMMA NeatEvicts ==
  ASSUME TypeOK, TxShape, Safe, NeatInv, NEW s \in Sessions, Evicts(s), UNCHANGED <<place, files>>
  PROVE  NeatInv'
<1>1. /\ tx'.op = tx.op /\ tx'.r = tx.r /\ tx'.pc = tx.pc
      /\ UNCHANGED <<proc, victim>> /\ victim # NoRun
  BY DEF Evicts, TypeOK, TxType
<1>2. cache = manifest /\ tx.pc \in {"evict", "preflight", "fit", "enforce"} /\ Loaded
  BY <1>1, BusyHasAnOperation, CacheIsDisk, OpenNow DEF Safe, TxShape
<1>3. /\ Rows(manifest'[s]) = Rows(manifest[s]) \ {victim}
      /\ \A q \in Runs \ {victim} : manifest'[s].heads[q] = manifest[s].heads[q]
      /\ \A t \in Sessions \ {s} : manifest'[t] = manifest[t]
  BY <1>2, WithoutRows DEF TypeOK, Evicts, Lands, Swaps
<1>4. victim \in Rows(manifest[s])
  BY <1>2 DEF Evicts, Holds
<1>5. ~Referenced(victim)'
  <2>1. \A t \in Sessions : victim \notin Rows(manifest'[t])
    BY <1>3, <1>4 DEF Safe, OneHome
  <2> QED
    BY <1>1, <2>1 DEF Referenced
<1>6. ASSUME NEW r \in Runs, r # victim
      PROVE  Tidy(r)'
  <2>1. Tidy(r)
    BY <1>2, <1>6, AllTidy DEF Settled
  <2>2. \A t \in Sessions : /\ r \in Rows(manifest'[t]) <=> r \in Rows(manifest[t])
                            /\ manifest'[t].heads[r] = manifest[t].heads[r]
    BY <1>3, <1>6
  <2> QED
    BY <2>1, <2>2 DEF Tidy, Referenced
<1>7. \A r \in Runs : r = victim => Going(r)'
  BY <1>1, <1>5 DEF Going
<1> QED
  BY <1>6, <1>7 DEF NeatInv, Neat

LEMMA NeatAdmits ==
  ASSUME TypeOK, TxShape, Safe, RowInv, NeatInv, Admits, UNCHANGED <<place, files>>
  PROVE  NeatInv'
<1>1. tx.s \in Sessions /\ tx.r \in Runs /\ tx.op = "insert" /\ tx.pc = "persist" /\ victim = NoRun /\ Loaded
      /\ place[tx.r] = "runs" /\ tx.written = {} /\ ~Referenced(tx.r)
  BY BootStages, OpenNow DEF Admits, TxShape, Safe, InsertInv, Referenced
<1>2. \A t \in Sessions : manifest'[t] = IF t = tx.s THEN tx.cand ELSE manifest[t]
  BY <1>1, LandsCandidate DEF Admits
<1>3. ASSUME NEW r \in Runs, r = tx.r
      PROVE  Tidy(r)'
  <2>1. files[r] = {tx.cand.heads[r].detail}
    BY <1>1, <1>3, RunStoreAssumption DEF NeatInv, Neat, Tidy, Going, Coming, Swapping, Referenced
  <2>2. r \in Rows(manifest'[tx.s]) /\ manifest'[tx.s].heads[r].detail = tx.cand.heads[r].detail
    BY <1>1, <1>2, <1>3 DEF RowInv, CandidateRows, Preparing, Rows
  <2> QED
    BY <1>1, <1>3, <2>1, <2>2 DEF Tidy
<1>4. ASSUME NEW r \in Runs, r # tx.r
      PROVE  Tidy(r)'
  <2>1. Tidy(r)
    BY <1>1, <1>4, RunStoreAssumption DEF NeatInv, Neat, Going, Coming, Swapping
  <2>2. ASSUME NEW t \in Sessions, r \in Rows(manifest[t])
        PROVE  r \in Rows(manifest'[t]) /\ manifest'[t].heads[r] = manifest[t].heads[r]
    <3>1. t = tx.s => tx.cand.heads[r] = manifest[t].heads[r]
      BY <1>1, <2>2 DEF RowInv, CandidateRows, Preparing
    <3> QED
      BY <1>2, <2>2, <3>1 DEF Rows
  <2>3. ASSUME NEW t \in Sessions, r \in Rows(manifest'[t])
        PROVE  r \in Rows(manifest[t])
    BY <1>1, <1>2, <1>4, <2>3, CandidateRow
  <2> QED
    BY <2>1, <2>2, <2>3 DEF Tidy, Referenced
<1> QED
  BY <1>3, <1>4 DEF NeatInv, Neat

LEMMA NeatRewrites ==
  ASSUME TypeOK, TxShape, Safe, RowInv, NeatInv, Rewrites, UNCHANGED <<place, files>>
  PROVE  NeatInv'
<1>1. /\ tx'.op = tx.op /\ tx'.s = tx.s /\ tx'.r = tx.r /\ tx'.pc = "drop"
      /\ tx'.written = tx.written /\ tx'.old = tx.old
      /\ tx.pc = "persist" /\ tx.s \in Sessions /\ tx.op # "insert" /\ tx.op # "none"
      /\ UNCHANGED <<proc, victim>> /\ victim = NoRun
  BY BusyHasAnOperation DEF Rewrites, Goto, TypeOK, TxType, TxShape
<1>2. \A t \in Sessions : manifest'[t] = IF t = tx.s THEN tx.cand ELSE manifest[t]
  BY <1>1, LandsCandidate DEF Rewrites
<1>3. Loaded
  BY <1>1, OpenNow
<1> SUFFICES ASSUME NEW r \in Runs
             PROVE  Neat(r)'
  BY DEF NeatInv
<1>4. Tidy(r) \/ Swapping(r)
  BY <1>1, <1>3, RunStoreAssumption DEF NeatInv, Neat, Going, Coming
<1>5. \A t \in Sessions : r \in Rows(manifest'[t]) <=> r \in Rows(manifest[t])
  <2>1. r \in Rows(tx.cand) => r \in Rows(manifest[tx.s])
    BY <1>1, CandidateRow
  <2>2. r \in Rows(manifest[tx.s]) => r \in Rows(tx.cand)
    BY <1>1 DEF RowInv, CandidateRows, Preparing, Advance, Rows
  <2> QED
    BY <1>2, <2>1, <2>2
<1>6. CASE r \in tx.written
  <2>1. Replacing(r)
    BY <1>1, <1>6 DEF Safe, DetailInv
  <2>2. CASE Swapping(r)
    <3>1. /\ place[r] = "runs" /\ r \in Rows(manifest[tx.s])
          /\ files[r] = {manifest[tx.s].heads[r].detail, tx.cand.heads[r].detail}
      BY <1>1, <2>2 DEF Swapping
    <3>2. manifest[tx.s].heads[r].detail = tx.old[r] /\ manifest'[tx.s] = tx.cand
      BY <1>1, <1>2, <2>1, <3>1 DEF Replacing
    <3>3. files'[r] = {manifest'[tx.s].heads[r].detail, tx.old[r]}
      BY <3>1, <3>2
    <3>4. Swapping(r)'
      BY <1>1, <1>5, <1>6, <3>1, <3>3 DEF Swapping
    <3> QED
      BY <3>4 DEF Neat
  <2>3. CASE Tidy(r) /\ r \in Rows(manifest[tx.s])
    <3>1. files[r] = {manifest[tx.s].heads[r].detail} /\ r \in Rows(tx.cand)
      BY <1>1, <1>2, <1>5, <2>3 DEF Tidy, Referenced, Safe, OneHome
    <3>2. tx.cand.heads[r].detail \in files[r]
      <4>1. Backed(r)
        BY <1>1, <3>1 DEF Safe, CandInv
      <4> QED
        BY <1>1, <3>1, <4>1 DEF Backed, Safe, CandInv
    <3> QED
      BY <2>1, <2>3, <3>1, <3>2 DEF Replacing
  <2>4. CASE Tidy(r) /\ r \notin Rows(manifest[tx.s])
    BY <1>2, <1>5, <2>4 DEF Neat, Tidy, Referenced
  <2> QED
    BY <1>4, <2>2, <2>3, <2>4
<1>7. CASE r \notin tx.written
  <2>1. Tidy(r)
    BY <1>4, <1>7 DEF Swapping
  <2>2. ASSUME NEW t \in Sessions, r \in Rows(manifest[t])
        PROVE  manifest'[t].heads[r].detail = manifest[t].heads[r].detail
    <3>1. ASSUME t = tx.s
          PROVE  tx.cand.heads[r].detail = manifest[t].heads[r].detail
      <4>1. r \in Rows(tx.cand)
        BY <1>2, <1>5, <2>2, <3>1
      <4>2. Backed(r) /\ tx.dets = {}
        BY <1>1, <4>1 DEF Safe, CandInv
      <4> QED
        BY <1>7, <3>1, <4>2 DEF Backed
    <3> QED
      BY <1>2, <3>1
  <2>3. Tidy(r)'
    BY <1>5, <2>1, <2>2 DEF Tidy, Referenced
  <2> QED
    BY <2>3 DEF Neat
<1> QED
  BY <1>6, <1>7

LEMMA NeatReplace ==
  ASSUME TypeOK, TxShape, Safe, RowInv, NeatInv, faults'["late"] = 0, NEW s \in Sessions, ReplaceManifest(s)
  PROVE  NeatInv'
<1>1. UNCHANGED <<place, files>>
  BY DEF ReplaceManifest
<1>2. CASE Throw /\ UNCHANGED manifest
  <2>1. tx.op # "none" /\ tx.pc \notin {"undo", "drop"} /\ Loaded
    BY BusyHasAnOperation, OpenNow DEF ReplaceManifest, Persisting, At, TxShape
  <2>2. cache = manifest
    BY <2>1, BusyHasAnOperation, CacheIsDisk DEF Safe, CacheInv
  <2>3. victim = NoRun \/ Referenced(victim)
    BY <2>2 DEF ReplaceManifest, Persisting, At, Holds, Referenced
  <2> QED
    BY <1>1, <1>2, <2>1, <2>3, NeatThrows
<1>3. CASE Lands(s, NewManifest(s)) /\ Persisted(s)
  BY <1>1, <1>3, ReplaceLands, NeatEvicts, NeatAdmits, NeatRewrites
<1>4. ~Fault("late")
  BY LateIsCounted
<1> QED
  BY <1>2, <1>3, <1>4 DEF ReplaceManifest, Lands, Swaps

(* A recovery starts from directories it has cleaned, and every row with its own. *)
LEMMA NeatReconciled ==
  ASSUME TypeOK, Safe, GoneInv, Reconciled
  PROVE  NeatInv'
<1> SUFFICES ASSUME NEW r \in Runs
             PROVE  Tidy(r)'
  BY DEF NeatInv, Neat
<1>1. UNCHANGED <<manifest, place, files>> /\ ~Residue(r) /\ OldDetails(r) = {}
  BY DEF Reconciled, disk
<1>2. place[r] = "none" \/ (place[r] = "runs" /\ Referenced(r))
  BY <1>1 DEF Residue, TypeOK
<1>3. CASE place[r] = "none"
  BY <1>1, <1>3 DEF Safe, NeverDangles, GoneInv, Tidy, Referenced
<1>4. CASE place[r] = "runs" /\ Referenced(r)
  <2>1. PICK s \in Sessions : r \in Rows(manifest[s])
    BY <1>4 DEF Referenced
  <2>2. manifest[s].heads[r].detail \in files[r]
    BY <2>1 DEF Safe, NeverDangles
  <2>3. ASSUME NEW d \in files[r]
        PROVE  d = manifest[s].heads[r].detail
    <3>1. ReferencedDetail(r, d)
      BY <1>1, <1>4, <2>3 DEF OldDetails
    <3> QED
      BY <2>1, <3>1 DEF ReferencedDetail, Safe, OneHome
  <2>4. files[r] = {manifest[s].heads[r].detail}
    BY <2>2, <2>3
  <2> QED
    BY <1>1, <1>4, <2>1, <2>4 DEF Tidy
<1> QED
  BY <1>2, <1>3, <1>4

LEMMA NeatBoot ==
  ASSUME TypeOK, TxShape,
         \/ Boot \/ Crash \/ ValidateRecoveryInventory
         \/ \E r \in Runs : ReconcileRecoveryResidue(r) \/ ReconcileFails(r)
  PROVE  NeatInv'
<1>1. CASE Boot
  <2>1. tx' = [Idle EXCEPT !.op = "boot", !.pc = "validate"] /\ proc' = "boot"
    BY <1>1 DEF Boot
  <2> QED
    BY <2>1 DEF NeatInv, Loaded, Idle
<1>2. CASE Crash
  BY <1>2 DEF Crash, NeatInv, Loaded
<1>3. CASE ValidateRecoveryInventory
  <2>1. tx.op = "boot" /\ proc = "boot" /\ tx.pc = "validate"
    BY <1>3, BootStages DEF ValidateRecoveryInventory, At
  <2>2. CASE Sound
    <3>1. proc' = "boot" /\ tx'.pc = "reconcile"
      BY <1>3, <2>1, <2>2 DEF ValidateRecoveryInventory, Goto, TypeOK, TxType
    <3> QED
      BY <3>1 DEF NeatInv, Loaded
  <2>3. CASE ~Sound
    <3>1. proc' = "down"
      BY <1>3, <2>1, <2>3 DEF ValidateRecoveryInventory, Throw
    <3> QED
      BY <3>1 DEF NeatInv, Loaded
  <2> QED
    BY <2>2, <2>3
<1>4. ASSUME NEW r \in Runs, ReconcileRecoveryResidue(r) \/ ReconcileFails(r)
      PROVE  NeatInv'
  <2>1. tx.op = "boot" /\ proc = "boot" /\ tx.pc = "reconcile"
    BY <1>4, BootStages DEF ReconcileRecoveryResidue, ReconcileFails, At
  <2>2. CASE ReconcileRecoveryResidue(r)
    BY <2>1, <2>2 DEF ReconcileRecoveryResidue, memory, NeatInv, Loaded
  <2>3. CASE ReconcileFails(r)
    BY <2>1, <2>3 DEF ReconcileFails, Throw, NeatInv, Loaded
  <2> QED
    BY <1>4, <2>2, <2>3
<1> QED
  BY <1>1, <1>2, <1>3, <1>4

LEMMA CleanStep ==
  ASSUME TypeOK, TxShape, StoreInv, OwnedInv, CleanBound, [Next]_vars
  PROVE  CleanBound'
<1> SUFFICES ASSUME Lasting
             PROVE  faults'["late"] = 0 /\ CleanInv'
  BY DEF CleanBound, Lasting
<1>1. Safe /\ RowInv /\ GoneInv /\ DetsInv /\ NeatInv /\ faults["late"] = 0
  BY DEF CleanBound, CleanInv, StoreInv, OwnedInv
<1>2. faults'["late"] = 0 /\ GoneInv' /\ DetsInv' /\ "remove" \notin Faults
  BY <1>1, FaultsAreLasting, GoneStep, DetsStep DEF Lasting
<1> SUFFICES NeatInv'
  BY <1>2 DEF CleanInv
<1>3. CASE Step
  <2>1. CASE \/ \E r \in Runs : ChooseVictim(r)
             \/ NoRoom \/ CountFails \/ Retained \/ Fits \/ Dropped \/ Committed \/ Fitted \/ Planned \/ Booted
             \/ \E s \in Sessions : Plan(s)
    BY <1>1, <2>1, NeatMemory
  <2>2. CASE \/ \E r \in Runs : WriteDetail(r)
             \/ \E s \in Sessions : WriteManifest(s)
    BY <1>1, <2>2, NeatWaits
  <2>3. CASE Evicted \/ \E r \in Runs : Quarantine(r) \/ Remove(r)
    BY <1>1, <2>3, NeatRemoval
  <2>4. CASE Stage \/ Staged \/ StageFails \/ PublishDirectory
    BY <1>1, <1>2, <2>4, NeatInsert
  <2>5. CASE \E r \in Runs : LinkDetail(r) \/ DropOld(r)
    BY <1>1, <1>2, <2>5, NeatLink, NeatDrop
  <2>6. CASE Undo
    BY <1>1, <1>2, <2>6, NeatUndo
  <2>7. CASE \E s \in Sessions : ReplaceManifest(s)
    BY <1>1, <1>2, <2>7, NeatReplace
  <2>8. CASE Reconciled
    BY <1>1, <2>8, NeatReconciled
  <2>9. CASE ValidateRecoveryInventory \/ \E r \in Runs : ReconcileRecoveryResidue(r) \/ ReconcileFails(r)
    BY <2>9, NeatBoot
  <2>10. ~RemoveFails
    BY <1>2 DEF RemoveFails, Fault
  <2> QED
    BY <1>3, <2>1, <2>2, <2>3, <2>4, <2>5, <2>6, <2>7, <2>8, <2>9, <2>10, Zenon DEF Step
<1>4. CASE Call
  BY <1>1, <1>4, NeatCall
<1>5. CASE Boot \/ Crash
  BY <1>5, NeatBoot
<1>6. CASE ScratchStep \/ UNCHANGED vars
  BY <1>1, <1>6, NeatWaits
<1> QED
  BY <1>3, <1>4, <1>5, <1>6 DEF Next

LEMMA CleanInit == Init => CleanBound
BY DEF Init, CleanBound, CleanInv, GoneInv, DetsInv, NeatInv, Loaded, Idle, AllFaults, Commits

(* Between calls nothing is left behind, however often the process dies and  *)
(* whatever fails, unless a removal does or a step threw behind its effect:  *)
(* an insert or a commit that rejects takes its files with it, and a boot    *)
(* removes what a dead process left (the catch blocks of the transactions,   *)
(* reconcileRecoveryResidue).                                                *)
THEOREM NothingIsLeftBehind == Spec => []({"late", "remove"} \cap Faults = {} => NoResidue)
<1>1. TypeOK /\ TxShape /\ StoreInv /\ OwnedInv /\ CleanBound /\ [Next]_vars => CleanBound'
  BY CleanStep
<1>2. TypeOK /\ TxShape /\ StoreInv /\ [Next]_vars => StoreInv'
  BY SafeStep
<1>3. TxShape /\ CleanBound => ({"late", "remove"} \cap Faults = {} => NoResidue)
  <2> SUFFICES ASSUME TxShape, Lasting, CleanBound, Ready, NEW r \in Runs
               PROVE  Tidy(r)
    BY DEF NoResidue, Lasting, Tidy
  <2>1. Loaded /\ victim = NoRun /\ Settled /\ NeatInv
    BY DEF Ready, Loaded, TxShape, Idle, Settled, CleanBound, CleanInv
  <2> QED
    BY <2>1, AllTidy, RunStoreAssumption
<1>4. Init => StoreInv /\ CleanBound
  BY SafeInit, CleanInit
<1> QED
  BY <1>1, <1>2, <1>3, <1>4, TypeCorrect, RowsAreSound, PTL DEF Spec
-----------------------------------------------------------------------------
(***************************************************************************)
(* AcceptInv: what a dead process leaves, the next boot accepts.  It is    *)
(* about a store in which no step fails, no script writes scratch files    *)
(* and the process does not die with a temporary file, where a run may     *)
(* have the two details files a replacement needs.                         *)
(***************************************************************************)
Named == {r \in Runs : Referenced(r)}
TwoFiles == \A r \in Runs : \E a, b \in Nat : files[r] \subseteq {a, b}
RowsFit == Cardinality(Named) <= MaxBytes
(* A Session whose manifest was ever written has handed out an ordinal. *)
WrittenInv ==
  /\ \A s \in Sessions : manifest[s] = Empty \/ manifest[s].next >= 2
  /\ \A s \in tx.todo : manifest[s].next >= 2
  /\ tx.pc \in Preparing => tx.cand.next >= 2
DirInv == \A s \in sessionDir : manifest[s].next >= 2 \/ <<"manifest", s>> \in temps
TornInv == ~Opened => temps = {}
Gentle == Faults = {} /\ Writers = {} /\ ~TornWrites /\ MaxRunDetails >= 2
AcceptInv == TwoFiles /\ RowsFit /\ WrittenInv /\ DirInv /\ TornInv /\ verdict = "ok"
AcceptBound == Gentle => AcceptInv

LEMMA NamedFinite == IsFiniteSet(Named)
BY RunStoreAssumption, FS_Subset DEF Named

(* Each row has a file of its own. *)
LEMMA RowsTakeRoom ==
  ASSUME TypeOK, Safe, IsFiniteSet(Pairs)
  PROVE  Cardinality(Named) <= Cardinality(Pairs)
<1> DEFINE home(r) == CHOOSE s \in Sessions : r \in Rows(manifest[s])
           f == [r \in Named |-> <<r, manifest[home(r)].heads[r].detail>>]
<1>1. ASSUME NEW r \in Named
      PROVE  f[r] \in Pairs
  <2>1. home(r) \in Sessions /\ r \in Rows(manifest[home(r)]) /\ r \in Runs
    BY DEF Named, Referenced
  <2>2. manifest[home(r)].heads[r].detail \in files[r]
    BY <2>1 DEF Safe, NeverDangles
  <2>3. f[r] = <<r, manifest[home(r)].heads[r].detail>>
    OBVIOUS
  <2> HIDE DEF f, home
  <2>4. f[r] \in {<<r, d>> : d \in files[r]}
    BY <2>2, <2>3
  <2> QED
    BY <2>1, <2>4 DEF Pairs
<1>2. \A q, r \in Named : f[q] = f[r] => q = r
  OBVIOUS
<1>3. f \in Injection(Named, Pairs)
  BY <1>1, <1>2 DEF Injection, IsInjective
<1> HIDE DEF f
<1> QED
  BY <1>3, FS_Injection

(* What is tidy takes no more than the rows do. *)
LEMMA TidyTakesNoMore ==
  ASSUME TypeOK, \A r \in Runs : Tidy(r)
  PROVE  Cardinality(Pairs) <= Cardinality(Named)
<1> DEFINE f == [p \in Pairs |-> p[1]]
<1>1. ASSUME NEW p \in Pairs
      PROVE  /\ p = <<p[1], p[2]>> /\ p[1] \in Named /\ p[2] \in files[p[1]]
             /\ \E d : files[p[1]] = {d}
  <2>1. PICK r \in Runs : p \in {<<r, d>> : d \in files[r]}
    BY DEF Pairs
  <2>2. PICK d \in files[r] : p = <<r, d>>
    BY <2>1
  <2>3. Tidy(r)
    OBVIOUS
  <2>4. Referenced(r) /\ \E e : files[r] = {e}
    BY <2>2, <2>3 DEF Tidy, Referenced
  <2> QED
    BY <2>2, <2>4 DEF Named
<1>2. ASSUME NEW p \in Pairs, NEW q \in Pairs, p[1] = q[1]
      PROVE  p = q
  <2>1. p[2] = q[2]
    BY <1>1, <1>2
  <2> QED
    BY <1>1, <1>2, <2>1
<1>3. f \in Injection(Pairs, Named)
  BY <1>1, <1>2 DEF Injection, IsInjective
<1> HIDE DEF f
<1> QED
  BY <1>3, NamedFinite, FS_Injection

LEMMA BootFits ==
  ASSUME TypeOK, TxShape, SizeInv, NeatInv, RowsFit, tx.op = "boot", tx.pc \in {"fit", "enforce"}, victim = NoRun
  PROVE  ~Crowded
<1>1. Loaded
  BY OpenNow
<1>2. \A r \in Runs : Tidy(r)
  BY <1>1, AllTidy, RunStoreAssumption DEF Settled
<1>3. Cardinality(Pairs) <= Cardinality(Named)
  BY <1>2, TidyTakesNoMore
<1>4. Bytes = Cardinality(Pairs) /\ Bytes \in Nat
  BY BytesAre DEF SizeInv, NoScratch
<1>5. Cardinality(Named) \in Nat /\ MaxBytes \in Nat
  BY NamedFinite, FS_CardinalityType, RunStoreAssumption
<1>6. Crowded => Bytes > MaxBytes
  BY DEF Crowded
<1> QED
  BY <1>3, <1>4, <1>5, <1>6 DEF RowsFit

LEMMA BootIsSound ==
  ASSUME TypeOK, TxShape, Safe, AcceptInv, Gentle, tx.pc = "validate"
  PROVE  Sound
<1>1. temps = {}
  BY BootStages DEF AcceptInv, TornInv, Opened, TxShape
<1>2. ASSUME NEW r \in Runs
      PROVE  Cardinality(files[r]) <= MaxRunDetails
  <2>1. PICK a \in Nat, b \in Nat : files[r] \subseteq {a, b}
    BY DEF AcceptInv, TwoFiles
  <2>2. IsFiniteSet({a, b}) /\ Cardinality({a, b}) <= 2
    <3>1. IsFiniteSet({a}) /\ Cardinality({a}) = 1
      BY FS_Singleton
    <3>2. {a, b} = {a} \cup {b}
      OBVIOUS
    <3> QED
      BY <3>1, <3>2, FS_AddElement
  <2>3. IsFiniteSet(files[r]) /\ Cardinality(files[r]) <= Cardinality({a, b})
    BY <2>1, <2>2, FS_Subset
  <2>4. Cardinality(files[r]) \in Nat /\ Cardinality({a, b}) \in Nat /\ MaxRunDetails \in Nat
    BY <2>2, <2>3, FS_CardinalityType, RunStoreAssumption
  <2> QED
    BY <2>2, <2>3, <2>4 DEF Gentle
<1>3. ASSUME NEW s \in sessionDir
      PROVE  manifest[s] # Empty
  <2>1. manifest[s].next >= 2
    BY <1>1, <1>3 DEF AcceptInv, DirInv
  <2> QED
    BY <2>1 DEF Empty
<1> QED
  BY <1>1, <1>2, <1>3 DEF Sound, Safe, NeverDangles

(* A boot goes through, and only a death closes the store. *)
LEMMA StaysOpen ==
  ASSUME TypeOK, TxShape, Safe, SizeInv, TempsInv, NeatInv, AcceptInv, Gentle, [Next]_vars
  PROVE  verdict' = "ok" /\ (Crash \/ (proc' = "down" => proc = "down"))
<1>1. \A f : ~Fault(f)
  BY DEF Gentle, Fault
<1>2. verdict = "ok"
  BY DEF AcceptInv
<1>3. CASE UNCHANGED <<verdict, proc>>
  BY <1>2, <1>3
<1>4. CASE Step
  <2>1. CASE \/ \E r \in Runs : ChooseVictim(r) \/ Quarantine(r) \/ Remove(r) \/ WriteDetail(r)
             \/ Evicted \/ Retained \/ Fits \/ Stage \/ Staged
    BY <1>3, <2>1 DEF ChooseVictim, Quarantine, Remove, WriteDetail, Evicted, Retained, Fits, Stage, Staged,
         memory, ghosts
  <2>2. CASE \/ Dropped \/ Committed \/ Undo \/ Reconciled \/ Fitted \/ Planned
             \/ \E r \in Runs : ReconcileRecoveryResidue(r)
             \/ \E s \in Sessions : WriteManifest(s) \/ Plan(s)
    BY <1>3, <2>2 DEF Dropped, Committed, Undo, Reconciled, Fitted, Planned, ReconcileRecoveryResidue,
         WriteManifest, Plan, memory, ghosts
  <2>3. CASE Booted
    BY <1>2, <2>3 DEF Booted, ghosts
  <2>4. ~CountFails /\ ~RemoveFails /\ ~StageFails /\ \A r \in Runs : ~ReconcileFails(r)
    BY <1>1 DEF CountFails, RemoveFails, StageFails, ReconcileFails
  <2>5. CASE \/ PublishDirectory \/ \E r \in Runs : LinkDetail(r) \/ DropOld(r)
    BY <1>1, <1>3, <2>5 DEF PublishDirectory, LinkDetail, DropOld
  <2>6. CASE \E s \in Sessions : ReplaceManifest(s)
    BY <1>1, <1>3, <2>6 DEF ReplaceManifest, Persisted
  <2>7. CASE ValidateRecoveryInventory
    <3>1. Sound
      BY <2>7, BootIsSound DEF ValidateRecoveryInventory, At
    <3> QED
      BY <2>7, <3>1 DEF ValidateRecoveryInventory
  <2>8. CASE NoRoom
    <3>1. CASE tx.op = "boot"
      <4>1. victim = NoRun /\ tx.pc \in {"fit", "enforce"}
        BY <2>8, <3>1, BootStages DEF NoRoom, Counting
      <4>2. ~Crowded
        BY <3>1, <4>1, BootFits DEF AcceptInv
      <4>3. temps = {}
        BY <3>1, <4>1, OpenBefore, NoTemps
      <4> QED
        BY <2>8, <4>1, <4>2, <4>3 DEF NoRoom, Counted, Countable
    <3>2. CASE tx.op # "boot"
      BY <1>2, <2>8, <3>2 DEF NoRoom, Throw
    <3> QED
      BY <3>1, <3>2
  <2> QED
    BY <1>4, <2>1, <2>2, <2>3, <2>4, <2>5, <2>6, <2>7, <2>8, Zenon DEF Step
<1>5. CASE Call
  <2>1. ASSUME NEW op, NEW s, NEW r, NEW row, NEW new, BeginCommit(op, s, r, row, new)
        PROVE  UNCHANGED <<verdict, proc>>
    BY <2>1 DEF BeginCommit
  <2>2. ASSUME NEW s, NEW r,
               \/ Enqueue(r) \/ ScratchWrite(r) \/ InsertWithNextDisplayName(s, r)
               \/ \E new \in BOOLEAN : CommitRun(s, r, new)
               \/ CommitTerminalAndClaimNotice(s, r) \/ FinalizeCompletionNotice(s, r)
        PROVE  UNCHANGED <<verdict, proc>>
    BY <2>1, <2>2 DEF Enqueue, ScratchWrite, InsertWithNextDisplayName, CommitRun,
                      CommitTerminalAndClaimNotice, FinalizeCompletionNotice, memory, ghosts
  <2> QED
    BY <1>3, <1>5, <2>2 DEF Call
<1>6. CASE ScratchStep \/ UNCHANGED vars
  BY <1>3, <1>6 DEF ScratchStep, ScratchWritten, vars, memory, ghosts
<1>7. CASE Boot
  BY <1>2, <1>7 DEF Boot, ghosts
<1>8. CASE Crash
  BY <1>2, <1>8 DEF Crash
<1> QED
  BY <1>4, <1>5, <1>6, <1>7, <1>8 DEF Next

(* A manifest that was written keeps having been written. *)
LEMMA WrittenStep ==
  ASSUME TypeOK, TxShape, Safe, WrittenInv, [Next]_vars, faults'["late"] = 0
  PROVE  WrittenInv' /\ \A s \in Sessions : manifest[s].next >= 2 => manifest'[s].next >= 2
<1>1. ASSUME UNCHANGED <<manifest, tx>> \/ (UNCHANGED manifest /\ tx'.todo = tx.todo /\ tx'.cand = tx.cand
                                            /\ (tx'.pc \in Preparing => tx.pc \in Preparing))
      PROVE  WrittenInv'
  BY <1>1 DEF WrittenInv
<1>2. ASSUME UNCHANGED manifest, tx'.todo = {}, tx'.pc \notin Preparing
      PROVE  WrittenInv'
  BY <1>2 DEF WrittenInv
<1>3. \A s \in Sessions : manifest[s].next \in Nat /\ manifest[s].next >= 1
  BY DEF TypeOK, ManifestType, WrittenInv, Empty
<1>4. \A s \in Sessions, r \in Runs : r \in Rows(manifest[s]) => manifest[s].next >= 2
  BY EmptyRows DEF WrittenInv
<1>5. tx'= Idle => tx'.todo = {} /\ tx'.pc \notin Preparing
  BY DEF Idle, Preparing
<1>6. CASE GoesOn
  BY <1>1, <1>6 DEF GoesOn, Onward, Preparing
<1>7. CASE Throws
  <2>1. CASE tx' = Idle
    BY <1>2, <1>5, <1>7, <2>1 DEF Throws
  <2>2. CASE tx' = [tx EXCEPT !.pc = "undo"]
    <3>1. tx'.todo = tx.todo /\ tx'.cand = tx.cand /\ tx'.pc = "undo"
      BY <2>2 DEF TypeOK, TxType
    <3> QED
      BY <1>1, <1>7, <3>1 DEF Throws, Preparing
  <2> QED
    BY <1>7, <2>1, <2>2 DEF Throws, Abandons
<1>8. CASE Returns \/ Boot \/ Crash
  <2>1. CASE Boot
    <3>1. tx' = [Idle EXCEPT !.op = "boot", !.pc = "validate"] /\ UNCHANGED manifest
      BY <2>1 DEF Boot, disk
    <3>2. tx'.todo = {} /\ tx'.pc = "validate"
      BY <3>1 DEF Idle
    <3> QED
      BY <1>2, <3>1, <3>2 DEF Preparing
  <2>2. CASE Returns \/ Crash
    BY <1>2, <1>5, <2>2 DEF Returns, Crash, disk
  <2> QED
    BY <1>8, <2>1, <2>2
<1>9. CASE Call
  <2>0. UNCHANGED manifest
    BY <1>9, CallKeepsTheStore
  <2>1. ASSUME NEW op, NEW s \in Sessions, NEW r \in Runs, NEW row, NEW new, BeginCommit(op, s, r, row, new)
        PROVE  WrittenInv'
    <3>1. tx'.todo = {} /\ tx'.cand.next = cache[s].next
      BY <2>1 DEF BeginCommit, Idle, TypeOK, ManifestType
    <3>2. cache = manifest /\ r \in Rows(cache[s])
      BY <2>1, CacheIsDisk DEF BeginCommit, Holds, Safe
    <3> QED
      BY <1>4, <2>0, <3>1, <3>2 DEF WrittenInv
  <2>2. ASSUME NEW s \in Sessions, NEW r \in Runs,
               \/ CommitTerminalAndClaimNotice(s, r) \/ FinalizeCompletionNotice(s, r)
               \/ \E new \in BOOLEAN : CommitRun(s, r, new)
        PROVE  WrittenInv'
    BY <2>1, <2>2 DEF CommitRun, CommitTerminalAndClaimNotice, FinalizeCompletionNotice
  <2>3. ASSUME NEW s \in Sessions, NEW r \in Runs, InsertWithNextDisplayName(s, r)
        PROVE  WrittenInv'
    <3>1. tx'.todo = {} /\ tx'.pc = "evict"
      BY <2>3 DEF InsertWithNextDisplayName, Idle
    <3> QED
      BY <1>2, <2>0, <3>1 DEF Preparing
  <2>4. ASSUME NEW r \in Runs, Enqueue(r) \/ ScratchWrite(r)
        PROVE  WrittenInv'
    BY <1>1, <2>4 DEF Enqueue, ScratchWrite, memory, disk
  <2> QED
    BY <1>9, <2>0, <2>2, <2>3, <2>4, Zenon DEF Call
<1>10. CASE Retained
  <2>1. tx.op = "insert" /\ tx.s \in Sessions
    BY <1>10, BootStages DEF Retained, At, TxShape
  <2>2. UNCHANGED manifest /\ cache = manifest
    BY <1>10, <2>1, CacheIsDisk DEF Retained, At, Safe, disk
  <2>3. tx'.todo = tx.todo /\ tx'.cand.next = cache[tx.s].next + 1
    BY <1>10, <2>1 DEF Retained, Inserted, WithRow, TypeOK, TxType
  <2>4. tx'.cand.next >= 2
    BY <1>3, <2>1, <2>2, <2>3
  <2> QED
    BY <2>2, <2>3, <2>4 DEF WrittenInv
<1>11. CASE Reconciled
  <2>1. UNCHANGED manifest /\ tx'.pc = "fit" /\ tx'.todo = {s \in Sessions : manifest[s] # Empty}
    BY <1>11 DEF Reconciled, disk, TypeOK, TxType
  <2> QED
    BY <2>1 DEF WrittenInv, Preparing
<1>12. ASSUME NEW s \in Sessions, Plan(s)
       PROVE  WrittenInv'
  <2>1. UNCHANGED manifest /\ tx.op = "boot" /\ s \in tx.todo /\ cache = manifest
    BY <1>12, BootStages, CacheIsDisk DEF Plan, At, disk, Safe
  <2>2. tx'.todo = tx.todo \ {s} /\ tx'.cand = RecoveredManifest(cache[s])
    BY <1>12 DEF Plan, TypeOK, TxType
  <2>3. tx'.cand.next = cache[s].next
    BY <2>2 DEF RecoveredManifest, TypeOK, ManifestType
  <2> QED
    BY <2>1, <2>2, <2>3 DEF WrittenInv
<1>13. ASSUME NEW s \in Sessions, Evicts(s)
       PROVE  WrittenInv' /\ \A t \in Sessions : manifest'[t].next >= 2 \/ manifest'[t] = manifest[t]
  <2>1. cache = manifest /\ victim \in Rows(manifest[s])
    <3>1. tx.op # "none" /\ tx.pc \notin {"validate", "reconcile"}
      BY <1>13 DEF Evicts, TxShape, Idle
    <3> QED
      BY <1>13, <3>1, CacheIsDisk DEF Evicts, Holds, Safe
  <2>2. manifest[s].next >= 2
    BY <1>4, <2>1 DEF Rows
  <2>3. manifest' = [manifest EXCEPT ![s] = Without(manifest[s], victim)]
    BY <1>13, <2>1 DEF Evicts, Lands, Swaps
  <2>4. Without(manifest[s], victim).next = manifest[s].next
    BY DEF Without, TypeOK, ManifestType
  <2>5. \A t \in Sessions : manifest'[t] = IF t = s THEN Without(manifest[s], victim) ELSE manifest[t]
    BY <2>3 DEF TypeOK
  <2>6. tx'.pc = tx.pc /\ tx'.todo = tx.todo /\ tx'.cand.next = tx.cand.next
    BY <1>13 DEF Evicts, Without, TypeOK, TxType, ManifestType
  <2>7. \A t \in Sessions : manifest'[t].next >= 2 \/ manifest'[t] = manifest[t]
    BY <2>2, <2>4, <2>5
  <2>8. tx.todo \subseteq Sessions
    BY DEF TypeOK, TxType
  <2> QED
    BY <2>6, <2>7, <2>8 DEF WrittenInv
<1>14. ASSUME Admits \/ Rewrites
       PROVE  WrittenInv' /\ \A t \in Sessions : manifest'[t].next >= 2 \/ manifest'[t] = manifest[t]
  <2>1. tx.pc = "persist" /\ tx.s \in Sessions /\ tx.todo \subseteq Sessions
    BY <1>14 DEF Admits, Rewrites, TxShape, TypeOK, TxType
  <2>2. tx.cand.next >= 2
    BY <2>1 DEF WrittenInv, Preparing
  <2>3. \A t \in Sessions : manifest'[t] = IF t = tx.s THEN tx.cand ELSE manifest[t]
    BY <1>14, <2>1, LandsCandidate DEF Admits, Rewrites
  <2>4. tx'.todo \subseteq tx.todo /\ tx'.pc \notin Preparing
    BY <1>5, <1>14 DEF Admits, Rewrites, Goto, Preparing, TypeOK, TxType
  <2> QED
    BY <2>1, <2>2, <2>3, <2>4 DEF WrittenInv
<1>15. ~\E s \in Sessions : ThrowsLate(s)
  BY DEF ThrowsLate
<1>16. CASE UNCHANGED manifest
  BY <1>6, <1>7, <1>8, <1>9, <1>10, <1>11, <1>12, <1>13, <1>14, <1>15, <1>16, StoreMoves
<1>17. CASE ~UNCHANGED manifest
  <2>1. Admits \/ Rewrites \/ \E s \in Sessions : Evicts(s)
    BY <1>15, <1>17, StoreMoves, CallKeepsTheStore
       DEF GoesOn, Throws, Returns, Retained, Reconciled, Boot, Crash, Plan, disk
  <2> QED
    BY <1>13, <1>14, <2>1
<1> QED
  BY <1>16, <1>17

(* Files a step may create: temporary ones, and a Session's directory. *)
LEMMA TempsMoves ==
  ASSUME TypeOK, TxShape, [Next]_vars, Writers = {}
  PROVE  \/ sessionDir' = sessionDir
            /\ \/ temps' = temps
               \/ \E r \in Runs : temps' = temps \ {<<"run", r>>} \/ temps' = temps \ {<<"scratch", r>>}
               \/ tx.pc \in {"stage", "detail"} /\ \E r \in Runs : temps' = temps \cup {<<"run", r>>}
         \/ \E s \in Sessions : WriteManifest(s) \/ ReplaceManifest(s)
<1>1. CASE Step
  <2>1. CASE \/ \E r \in Runs : ChooseVictim(r) \/ Quarantine(r) \/ Remove(r) \/ DropOld(r)
             \/ NoRoom \/ CountFails \/ Evicted \/ RemoveFails \/ Retained \/ Fits
    BY <2>1 DEF ChooseVictim, Quarantine, Remove, DropOld, NoRoom, CountFails, Evicted, RemoveFails,
                Retained, Fits, disk
  <2>2. CASE \/ PublishDirectory \/ Dropped \/ Committed \/ Undo
             \/ ValidateRecoveryInventory \/ Reconciled \/ Fitted \/ Planned \/ Booted
             \/ \E r \in Runs : ReconcileRecoveryResidue(r) \/ ReconcileFails(r)
             \/ \E s \in Sessions : Plan(s)
    BY <2>2 DEF PublishDirectory, Dropped, Committed, Undo, ValidateRecoveryInventory, Reconciled, Fitted,
                Planned, Booted, ReconcileRecoveryResidue, ReconcileFails, Plan, disk
  <2>3. CASE Stage \/ Staged \/ StageFails
    <3>1. tx.pc = "stage" /\ tx.r \in Runs
      BY <2>3, BootStages DEF Stage, Staged, StageFails, At, TxShape
    <3> QED
      BY <2>3, <3>1 DEF Stage, Staged, StageFails
  <2>4. CASE \E r \in Runs : WriteDetail(r) \/ LinkDetail(r)
    BY <2>4 DEF WriteDetail, LinkDetail, At
  <2>5. CASE \E s \in Sessions : WriteManifest(s) \/ ReplaceManifest(s)
    BY <2>5
  <2> QED
    BY <1>1, <2>1, <2>2, <2>3, <2>4, <2>5, Zenon DEF Step
<1>2. CASE Call
  <2>1. ASSUME NEW op, NEW s, NEW r, NEW row, NEW new, BeginCommit(op, s, r, row, new)
        PROVE  UNCHANGED <<temps, sessionDir>>
    BY <2>1 DEF BeginCommit, disk
  <2>2. ASSUME NEW s, NEW r,
               \/ Enqueue(r) \/ ScratchWrite(r) \/ InsertWithNextDisplayName(s, r)
               \/ \E new \in BOOLEAN : CommitRun(s, r, new)
               \/ CommitTerminalAndClaimNotice(s, r) \/ FinalizeCompletionNotice(s, r)
        PROVE  UNCHANGED <<temps, sessionDir>>
    BY <2>1, <2>2 DEF Enqueue, ScratchWrite, InsertWithNextDisplayName, CommitRun,
                      CommitTerminalAndClaimNotice, FinalizeCompletionNotice, disk
  <2> QED
    BY <1>2, <2>2 DEF Call
<1>3. CASE ScratchStep \/ Boot \/ Crash \/ UNCHANGED vars
  BY <1>3 DEF ScratchStep, ScratchWritten, Boot, Crash, vars, disk
<1> QED
  BY <1>1, <1>2, <1>3 DEF Next

(* A boot begins with its validation, and no other step leads to it. *)
LEMMA ValidatesFirst ==
  ASSUME TypeOK, TxShape, [Next]_vars, tx'.pc = "validate"
  PROVE  Boot \/ tx.pc = "validate"
<1>1. tx' # Idle
  BY DEF Idle
<1>2. CASE GoesOn
  BY <1>2 DEF GoesOn, Onward
<1>3. CASE Throws \/ Returns \/ Crash \/ Admits \/ Rewrites \/ Retained \/ Reconciled
  BY <1>1, <1>3 DEF Throws, Abandons, Returns, Crash, Admits, Rewrites, Retained, Reconciled, Goto, TypeOK, TxType
<1>4. CASE Call
  <2>1. ASSUME NEW op, NEW s, NEW r, NEW row, NEW new, BeginCommit(op, s, r, row, new)
        PROVE  FALSE
    BY <2>1 DEF BeginCommit, Idle
  <2>2. ASSUME NEW s \in Sessions, NEW r \in Runs,
               \/ CommitTerminalAndClaimNotice(s, r) \/ FinalizeCompletionNotice(s, r)
               \/ \E new \in BOOLEAN : CommitRun(s, r, new)
        PROVE  FALSE
    BY <2>1, <2>2 DEF CommitRun, CommitTerminalAndClaimNotice, FinalizeCompletionNotice
  <2>3. ASSUME NEW s \in Sessions, NEW r \in Runs, InsertWithNextDisplayName(s, r)
        PROVE  FALSE
    BY <2>3 DEF InsertWithNextDisplayName, Idle
  <2>4. ASSUME NEW r \in Runs, Enqueue(r) \/ ScratchWrite(r)
        PROVE  tx.pc = "validate"
    BY <2>4 DEF Enqueue, ScratchWrite, memory
  <2> QED
    BY <1>4, <2>2, <2>3, <2>4, Zenon DEF Call
<1>5. ASSUME NEW s \in Sessions, Plan(s)
      PROVE  FALSE
  BY <1>5 DEF Plan, TypeOK, TxType
<1>6. ASSUME NEW s \in Sessions, ThrowsLate(s)
      PROVE  tx.pc = "validate"
  BY <1>1, <1>6 DEF ThrowsLate, Abandons, TypeOK, TxType
<1>7. ASSUME NEW s \in Sessions, Evicts(s)
      PROVE  tx.pc = "validate"
  BY <1>7 DEF Evicts, TypeOK, TxType
<1> QED
  BY <1>2, <1>3, <1>4, <1>5, <1>6, <1>7, StoreMoves

(* The manifest being written is one that was written before, or has a row. *)
LEMMA NewManifestWritten ==
  ASSUME TypeOK, TxShape, NamesInv, Safe, WrittenInv, NEW s \in Sessions, Persisting(s)
  PROVE  NewManifest(s).next >= 2
<1>1. CASE victim # NoRun
  <2>1. Holds(s, victim) /\ NewManifest(s).next >= cache[s].next
    BY <1>1, NewManifestNext DEF Persisting, At
  <2>2. tx.op # "none" /\ tx.pc \notin {"validate", "reconcile"}
    BY <1>1 DEF TxShape, Idle
  <2>3. cache = manifest /\ victim \in Runs /\ manifest[s] # Empty
    BY <2>1, <2>2, CacheIsDisk, EmptyRows DEF Holds, Safe, Rows
  <2>4. cache[s].next >= 2 /\ cache[s].next \in Nat /\ NewManifest(s).next \in Nat
    BY <2>3, NewManifestNext DEF WrittenInv
  <2> QED
    BY <2>1, <2>4
<1>2. CASE victim = NoRun
  BY <1>2 DEF Persisting, At, NewManifest, WrittenInv, Preparing
<1> QED
  BY <1>1, <1>2

LEMMA DirStep ==
  ASSUME TypeOK, TxShape, Safe, NamesInv, WrittenInv, DirInv, Gentle, [Next]_vars, faults'["late"] = 0
  PROVE  DirInv'
<1>1. \A s \in Sessions : manifest[s].next >= 2 => manifest'[s].next >= 2
  BY WrittenStep
<1>2. sessionDir \subseteq Sessions
  BY DEF TypeOK
<1>3. ASSUME sessionDir' = sessionDir,
             \/ temps' = temps
             \/ \E r \in Runs : temps' = temps \ {<<"run", r>>} \/ temps' = temps \ {<<"scratch", r>>}
             \/ \E r \in Runs : temps' = temps \cup {<<"run", r>>}
      PROVE  DirInv'
  <2>1. \A s \in Sessions : <<"manifest", s>> \in temps => <<"manifest", s>> \in temps'
    BY <1>3
  <2> QED
    BY <1>1, <1>2, <1>3, <2>1 DEF DirInv
<1>4. ASSUME NEW s \in Sessions, WriteManifest(s)
      PROVE  DirInv'
  BY <1>1, <1>2, <1>4 DEF WriteManifest, DirInv
<1>5. ASSUME NEW s \in Sessions, ReplaceManifest(s)
      PROVE  DirInv'
  <2>1. manifest' = [manifest EXCEPT ![s] = NewManifest(s)]
    BY <1>5 DEF ReplaceManifest, Fault, Gentle
  <2>2. manifest'[s].next >= 2
    BY <1>5, <2>1, NewManifestWritten DEF ReplaceManifest, TypeOK
  <2>3. sessionDir' = sessionDir /\ temps' = temps \ {<<"manifest", s>>}
    BY <1>5 DEF ReplaceManifest
  <2> QED
    BY <1>1, <1>2, <2>2, <2>3 DEF DirInv
<1> QED
  BY <1>3, <1>4, <1>5, TempsMoves DEF Gentle

(* Only a death with a temporary file would leave one to a boot. *)
LEMMA TornStep ==
  ASSUME TypeOK, TxShape, Safe, SizeInv, TempsInv, NeatInv, AcceptInv, Gentle, [Next]_vars, TypeOK'
  PROVE  TornInv'
<1> SUFFICES ASSUME ~Opened'
             PROVE  temps' = {}
  BY DEF TornInv
<1>1. CASE Crash
  BY <1>1 DEF Crash, Gentle, disk
<1>2. CASE ~Crash
  <2>1. proc' = "down" \/ (proc' # "up" /\ tx'.pc = "validate")
    BY DEF Opened, TypeOK
  <2>2. ~Opened
    <3>1. CASE proc' = "down"
      BY <1>2, <3>1, StaysOpen DEF Opened
    <3>2. CASE tx'.pc = "validate"
      <4>1. Boot \/ tx.pc = "validate"
        BY <3>2, ValidatesFirst
      <4> QED
        BY <4>1, BootStages DEF Boot, Opened
    <3> QED
      BY <2>1, <3>1, <3>2
  <2>3. tx.pc \notin {"stage", "detail", "persist"} /\ victim = NoRun
    BY <2>2 DEF Opened, TxShape, Idle, TypeOK, Stages
  <2>4. temps = {}
    BY <2>2 DEF AcceptInv, TornInv
  <2>5. ASSUME NEW s \in Sessions
        PROVE  ~Persisting(s)
    BY <2>3 DEF Persisting, At
  <2> QED
    BY <2>3, <2>4, <2>5, TempsMoves DEF WriteManifest, ReplaceManifest, Gentle
<1> QED
  BY <1>1, <1>2

(* How a step changes the details files of a run. *)
LEMMA FilesMove ==
  ASSUME TypeOK, TxShape, Safe, Gentle, [Next]_vars, NEW q \in Runs
  PROVE  \/ files'[q] \subseteq files[q]
         \/ \E d \in Nat : files'[q] = {d}
         \/ /\ LinkDetail(q) /\ tx.cand.heads[q].detail \in Nat
            /\ files'[q] = files[q] \cup {tx.cand.heads[q].detail}
<1>1. CASE UNCHANGED files
  BY <1>1
<1>2. tx.cand.heads[q].detail \in Nat
  BY DEF TypeOK, TxType, ManifestType, RowType
<1>3. CASE Step
  <2>1. CASE \/ \E r \in Runs : ChooseVictim(r) \/ Quarantine(r) \/ WriteDetail(r) \/ ReconcileFails(r)
             \/ NoRoom \/ CountFails \/ Evicted \/ RemoveFails \/ Retained \/ Fits \/ Stage \/ StageFails
    BY <1>1, <2>1 DEF ChooseVictim, Quarantine, WriteDetail, ReconcileFails, NoRoom, CountFails, Evicted,
                      RemoveFails, Retained, Fits, Stage, StageFails, disk
  <2>2. CASE \/ PublishDirectory \/ Dropped \/ Committed
             \/ ValidateRecoveryInventory \/ Reconciled \/ Fitted \/ Planned \/ Booted
             \/ \E s \in Sessions : WriteManifest(s) \/ ReplaceManifest(s) \/ Plan(s)
    BY <1>1, <2>2 DEF PublishDirectory, Dropped, Committed, ValidateRecoveryInventory, Reconciled, Fitted,
                      Planned, Booted, WriteManifest, ReplaceManifest, Plan, disk
  <2>3. CASE \E r \in Runs : Remove(r)
    BY <2>3 DEF Remove, DeleteTree, TypeOK
  <2>4. CASE \E r \in Runs : ReconcileRecoveryResidue(r)
    BY <2>4 DEF ReconcileRecoveryResidue, DeleteTree, TypeOK
  <2>5. CASE \E r \in Runs : DropOld(r)
    BY <2>5 DEF DropOld, TypeOK
  <2>6. CASE Undo
    BY <1>1, <2>6 DEF Undo, TypeOK
  <2>7. CASE Staged
    <3>1. tx.cand.heads[tx.r].detail \in Nat
      BY <2>7, BootStages DEF Staged, At, TxShape, TypeOK, TxType, ManifestType, RowType
    <3> QED
      BY <2>7, <3>1 DEF Staged, TypeOK
  <2>8. ASSUME NEW r \in Runs, LinkDetail(r)
        PROVE  \/ files'[q] \subseteq files[q]
               \/ LinkDetail(q) /\ files'[q] = files[q] \cup {tx.cand.heads[q].detail}
    <3>1. files' = [files EXCEPT ![r] = @ \cup {tx.cand.heads[r].detail}]
      BY <2>8 DEF LinkDetail, Fault, Gentle
    <3> QED
      BY <2>8, <3>1 DEF TypeOK
  <2> QED
    BY <1>2, <1>3, <2>1, <2>2, <2>3, <2>4, <2>5, <2>6, <2>7, <2>8, Zenon DEF Step
<1>4. CASE Call
  BY <1>1, <1>4, CallKeepsTheStore
<1>5. CASE ScratchStep \/ Boot \/ Crash \/ UNCHANGED vars
  BY <1>1, <1>5 DEF ScratchStep, ScratchWritten, Boot, Crash, vars, disk
<1> QED
  BY <1>3, <1>4, <1>5 DEF Next

LEMMA DetailOps ==
  ASSUME TxShape, tx.pc = "detail"
  PROVE  tx.op # "insert"
BY DEF TxShape, Stages, Commits

LEMMA TwoFilesStep ==
  ASSUME TypeOK, TxShape, Safe, NeatInv, TwoFiles, Gentle, [Next]_vars
  PROVE  TwoFiles'
<1> SUFFICES ASSUME NEW q \in Runs
             PROVE  \E a, b \in Nat : files'[q] \subseteq {a, b}
  BY DEF TwoFiles
<1>1. CASE files'[q] \subseteq files[q]
  BY <1>1 DEF TwoFiles
<1>2. CASE \E d \in Nat : files'[q] = {d}
  BY <1>2
<1>3. CASE LinkDetail(q) /\ files'[q] = files[q] \cup {tx.cand.heads[q].detail} /\ tx.cand.heads[q].detail \in Nat
  <2>1. tx.pc = "detail" /\ victim = NoRun /\ q # NoRun
    BY <1>3, RunStoreAssumption DEF LinkDetail, At
  <2>2. tx.op # "insert" /\ Neat(q)
    <3>1. tx.op # "none" /\ Loaded
      BY <2>1, OpenNow DEF TxShape, Idle
    <3>2. tx.op # "insert"
      BY <2>1, DetailOps
    <3> QED
      BY <3>1, <3>2 DEF NeatInv
  <2>3. ~Going(q) /\ ~Coming(q)
    BY <2>1, <2>2 DEF Going, Coming
  <2>4. CASE Tidy(q)
    <3>1. \A s \in Sessions : manifest[s].heads[q].detail \in Nat
      BY DEF TypeOK, ManifestType, RowType
    <3>2. files[q] = {} \/ \E d \in Nat : files[q] = {d}
      BY <2>4, <3>1 DEF Tidy
    <3> QED
      BY <1>3, <3>2
  <2>5. CASE Swapping(q)
    <3>1. tx.s \in Sessions
      BY <2>1 DEF TxShape
    <3>2. manifest[tx.s].heads[q].detail \in Nat
      BY <3>1 DEF TypeOK, ManifestType, RowType
    <3>3. files[q] = {manifest[tx.s].heads[q].detail, tx.cand.heads[q].detail}
      BY <2>1, <2>5 DEF Swapping
    <3> QED
      BY <1>3, <3>2, <3>3
  <2> QED
    BY <2>2, <2>3, <2>4, <2>5 DEF Neat
<1> QED
  BY <1>1, <1>2, <1>3, FilesMove

(* A running store has room for a file of each row. *)
LEMMA RunningFits ==
  ASSUME TypeOK, Safe, SizeInv, proc = "up"
  PROVE  RowsFit
<1>1. Cardinality(Named) <= Cardinality(Pairs)
  BY RowsTakeRoom DEF SizeInv
<1>2. Bytes = Cardinality(Pairs) /\ Bytes <= MaxBytes
  BY BytesAre DEF SizeInv, NoScratch
<1>3. Cardinality(Named) \in Nat /\ Cardinality(Pairs) \in Nat /\ MaxBytes \in Nat
  BY NamedFinite, FS_CardinalityType, RunStoreAssumption DEF SizeInv
<1> QED
  BY <1>1, <1>2, <1>3 DEF RowsFit

LEMMA RunningWillFit == (TypeOK /\ Safe /\ SizeInv /\ proc = "up")' => RowsFit'
<1>1. TypeOK /\ Safe /\ SizeInv /\ proc = "up" => RowsFit
  BY RunningFits
<1> QED
  BY <1>1, PTL

LEMMA RowsFitStep ==
  ASSUME TypeOK, TxShape, Safe, RowInv, RowsFit, [Next]_vars, faults'["late"] = 0,
         TypeOK', Safe', SizeInv'
  PROVE  RowsFit'
<1>1. CASE proc' = "up"
  BY <1>1, RunningWillFit
<1>2. CASE proc' # "up"
  <2>1. \A s \in Sessions : Rows(manifest'[s]) \subseteq Rows(manifest[s])
    <3>1. CASE UNCHANGED manifest
      BY <3>1
    <3>2. CASE ~UNCHANGED manifest
      <4>1. Admits \/ Rewrites \/ \E s \in Sessions : Evicts(s)
        BY <3>2, StoreMoves, CallKeepsTheStore
           DEF GoesOn, Throws, ThrowsLate, Returns, Retained, Reconciled, Boot, Crash, Plan, disk
      <4>2. ASSUME NEW s \in Sessions, Evicts(s)
            PROVE  \A t \in Sessions : Rows(manifest'[t]) \subseteq Rows(manifest[t])
        <5>1. cache = manifest
          <6>1. tx.op # "none" /\ tx.pc \notin {"validate", "reconcile"}
            BY <4>2 DEF Evicts, TxShape, Idle
          <6> QED
            BY <6>1, CacheIsDisk DEF Safe
        <5>2. \A t \in Sessions : manifest'[t] = IF t = s THEN Without(manifest[s], victim) ELSE manifest[t]
          BY <4>2, <5>1 DEF Evicts, Lands, Swaps, TypeOK
        <5>3. Rows(Without(manifest[s], victim)) = Rows(manifest[s]) \ {victim}
          BY WithoutRows DEF TypeOK
        <5> QED
          BY <5>2, <5>3
      <4>3. ASSUME Admits
            PROVE  FALSE
        BY <1>2, <4>3, BootStages DEF Admits
      <4>4. ASSUME Rewrites
            PROVE  \A t \in Sessions : Rows(manifest'[t]) \subseteq Rows(manifest[t])
        <5>1. tx.pc = "persist" /\ tx.op # "insert" /\ tx.s \in Sessions
          BY <4>4 DEF Rewrites, TxShape
        <5>2. \A t \in Sessions : manifest'[t] = IF t = tx.s THEN tx.cand ELSE manifest[t]
          BY <4>4, <5>1, LandsCandidate DEF Rewrites
        <5>3. Rows(tx.cand) \subseteq Rows(manifest[tx.s])
          BY <5>1, CandidateRow
        <5> QED
          BY <5>2, <5>3
      <4> QED
        BY <4>1, <4>2, <4>3, <4>4
    <3> QED
      BY <3>1, <3>2
  <2>2. Named' \subseteq Named
    BY <2>1 DEF Named, Referenced
  <2>3. Cardinality(Named') <= Cardinality(Named) /\ Cardinality(Named') \in Nat
        /\ Cardinality(Named) \in Nat /\ MaxBytes \in Nat
    BY <2>2, NamedFinite, FS_Subset, FS_CardinalityType, RunStoreAssumption
  <2> QED
    BY <2>3 DEF RowsFit
<1> QED
  BY <1>1, <1>2

LEMMA AcceptStep ==
  ASSUME TypeOK, TxShape, StoreInv, OwnedInv, NamesInv, SizeBound, TempsBound, CleanBound, AcceptBound,
         [Next]_vars, TypeOK', StoreInv', SizeBound', CleanBound'
  PROVE  AcceptBound'
<1> SUFFICES ASSUME Gentle
             PROVE  AcceptInv'
  BY DEF AcceptBound, Gentle
<1>1. Lasting /\ Writers = {}
  BY DEF Gentle, Lasting
<1>2. /\ faults["late"] = 0 /\ faults'["late"] = 0
      /\ Safe /\ RowInv /\ SizeInv /\ TempsInv /\ NeatInv /\ AcceptInv
  BY <1>1 DEF StoreInv, OwnedInv, SizeBound, TempsBound, CleanBound, CleanInv, AcceptBound, Lasting
<1>3. Safe' /\ SizeInv'
  BY <1>1, <1>2 DEF StoreInv, SizeBound
<1>4. verdict' = "ok" /\ TornInv'
  BY <1>2, StaysOpen, TornStep
<1>5. TwoFiles /\ RowsFit /\ WrittenInv /\ DirInv
  BY <1>2 DEF AcceptInv
<1>6. TwoFiles' /\ RowsFit'
  BY <1>2, <1>3, <1>5, TwoFilesStep, RowsFitStep
<1>7. WrittenInv' /\ DirInv'
  BY <1>2, <1>5, WrittenStep, DirStep
<1> QED
  BY <1>4, <1>6, <1>7 DEF AcceptInv

LEMMA AcceptInit == Init => AcceptBound
<1> SUFFICES ASSUME Init
             PROVE  AcceptInv
  BY DEF AcceptBound
<1>1. TwoFiles /\ WrittenInv /\ DirInv /\ TornInv /\ verdict = "ok"
  BY DEF Init, TwoFiles, WrittenInv, DirInv, TornInv, Idle, Preparing
<1>2. Named = {}
  BY EmptyRows DEF Init, Named, Referenced
<1>3. RowsFit
  BY <1>2, FS_EmptySet, RunStoreAssumption DEF RowsFit
<1> QED
  BY <1>1, <1>3 DEF AcceptInv

(* No boot refuses the store, however often the process dies and between     *)
(* whichever steps: what it left is recovered within the limits it was       *)
(* written under.  It is about a store in which no step fails, no script     *)
(* writes scratch files, a run may have the two details files a replacement  *)
(* needs, and no death leaves a temporary file, which a boot refuses         *)
(* (validateRecoveryInventory, enforceGlobalLimit).                          *)
THEOREM BootsAreAccepted ==
  Spec => [](Faults = {} /\ Writers = {} /\ ~TornWrites /\ MaxRunDetails >= 2 => NeverRefused)
<1>1. /\ TypeOK /\ TxShape /\ StoreInv /\ OwnedInv /\ NamesInv /\ NoticeInv /\ SizeBound /\ TempsBound
      /\ CleanBound /\ AcceptBound /\ [Next]_vars /\ TypeOK' /\ TxShape'
      => AcceptBound'
  BY AcceptStep, SafeStep, SizeStep, CleanStep
<1>2. TypeOK /\ TxShape /\ StoreInv /\ [Next]_vars => StoreInv'
  BY SafeStep
<1>3. TypeOK /\ TxShape /\ NamesInv /\ [Next]_vars => NamesInv'
  BY NamesStep
<1>4. TypeOK /\ TxShape /\ NoticeInv /\ [Next]_vars => NoticeInv'
  BY NoticeStep
<1>5. TypeOK /\ TxShape /\ SizeBound /\ [Next]_vars => SizeBound'
  BY SizeStep
<1>6. TypeOK /\ TxShape /\ NoticeInv /\ SizeBound /\ TempsBound /\ [Next]_vars => TempsBound'
  BY TempsStep DEF NoticeInv
<1>7. TypeOK /\ TxShape /\ StoreInv /\ OwnedInv /\ CleanBound /\ [Next]_vars => CleanBound'
  BY CleanStep
<1>8. AcceptBound => (Faults = {} /\ Writers = {} /\ ~TornWrites /\ MaxRunDetails >= 2 => NeverRefused)
  BY DEF AcceptBound, AcceptInv, Gentle, NeverRefused
<1>9. Init => StoreInv /\ NamesInv /\ NoticeInv /\ SizeBound /\ TempsBound /\ CleanBound /\ AcceptBound
  BY SafeInit, NamesInit, NoticeInit, SizeInit, TempsInit, CleanInit, AcceptInit
<1> QED
  BY <1>1, <1>2, <1>3, <1>4, <1>5, <1>6, <1>7, <1>8, <1>9, TypeCorrect, RowsAreSound, PTL DEF Spec
=============================================================================
