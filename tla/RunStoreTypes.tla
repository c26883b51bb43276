---------------------------- MODULE RunStoreTypes ----------------------------
(***************************************************************************)
(* Type correctness of the run store: Spec => []TypeOK, for every value of *)
(* the constants.  It needs TxShape, the stages each operation has.        *)
(***************************************************************************)
EXTENDS RunStore, TLAPS

Commits == {"update", "terminal", "finalize"}
CommitStages == {"preflight", "detail", "persist", "drop", "enforce", "undo"}
Stages(op) ==
  CASE op = "none"     -> {"idle"}
    [] op = "insert"   -> {"evict", "preflight", "stage", "publish", "persist", "undo"}
    [] op = "boot"     -> {"validate", "reconcile", "fit", "plan", "detail", "persist", "drop", "enforce"}
    [] op \in Commits  -> CommitStages

(* Which stages an operation passes, and what they work on. *)
TxShape ==
  /\ tx.pc \in Stages(tx.op)
  /\ tx.op = "none" => tx = Idle
  /\ tx.op = "boot" <=> proc = "boot"
  /\ proc = "down" => tx.op = "none"
  /\ tx.op \in Commits \cup {"insert"} => tx.s \in Sessions /\ tx.r \in Runs
  /\ tx.pc \in {"detail", "persist", "drop"} => tx.s \in Sessions
  /\ victim # NoRun => tx.pc \in {"evict", "preflight", "fit", "enforce"}
-----------------------------------------------------------------------------
(* What the helpers build. *)

LEMMA RowTypes ==
  ASSUME NEW row \in RowType, NEW d \in Nat, NEW n \in {"delivered", "abandoned"}
  PROVE  /\ NoRow \in RowType /\ Updated(row, d) \in RowType /\ Claimed(row, d) \in RowType
         /\ Interrupted(row, d) \in RowType /\ Finalized(row, n) \in RowType
<1>0. row.rev + 1 \in Nat
  BY DEF RowType
<1>1. Updated(row, d) \in RowType
  BY <1>0 DEF RowType, Updated
<1>2. Claimed(row, d) \in RowType /\ Interrupted(row, d) \in RowType
  BY <1>1 DEF RowType, Claimed, Interrupted
<1>3. Finalized(row, n) \in RowType
  BY <1>0 DEF RowType, Finalized
<1> QED
  BY <1>1, <1>2, <1>3 DEF RowType, NoRow

LEMMA RowWritten ==
  ASSUME NEW m \in ManifestType, NEW r, NEW row \in RowType
  PROVE  [m EXCEPT !.heads[r] = row] \in ManifestType
BY DEF ManifestType

LEMMA WithoutType ==
  ASSUME NEW m \in ManifestType, NEW r
  PROVE  Empty \in ManifestType /\ Without(m, r) \in ManifestType
<1>1. NoRow \in RowType
  BY DEF RowType, NoRow
<1> QED
  BY <1>1, RowWritten DEF ManifestType, Empty, Without

LEMMA InsertedType ==
  ASSUME NEW m \in ManifestType, NEW r, NEW d \in Nat
  PROVE  Inserted(m, r, d) \in ManifestType
<1>1. m.next \in Nat /\ m.next + 1 \in Nat
  BY DEF ManifestType
<1>2. [status |-> "active", notice |-> "none", rev |-> 1, detail |-> d, ordinal |-> m.next] \in RowType
  BY <1>1 DEF RowType
<1> QED
  BY <1>1, <1>2 DEF ManifestType, Inserted, WithRow

LEMMA RecoveredType ==
  ASSUME NEW m \in ManifestType, minted \in [Runs -> Nat]
  PROVE  RecoveredManifest(m) \in ManifestType
<1>1. ASSUME NEW r \in Runs
      PROVE  Recovered(m.heads[r], minted[r] + 1) \in RowType
  <2>1. m.heads[r] \in RowType /\ minted[r] + 1 \in Nat
    BY DEF ManifestType
  <2> QED
    BY <2>1, RowTypes DEF Recovered
<1> QED
  BY <1>1 DEF ManifestType, RecoveredManifest

LEMMA IdleType == Idle \in TxType
<1>1. Empty \in ManifestType
  BY DEF Empty, ManifestType, NoRow, RowType
<1> QED
  BY <1>1 DEF Idle, TxType

(* A step of a transaction that only moves on. *)
LEMMA GotoType ==
  ASSUME tx \in TxType,
         NEW pc \in {"idle", "evict", "preflight", "stage", "publish", "detail", "persist", "drop",
                     "enforce", "undo", "validate", "reconcile", "fit", "plan"},
         Goto(pc)
  PROVE  /\ tx' \in TxType /\ tx'.pc = pc
         /\ tx'.op = tx.op /\ tx'.s = tx.s /\ tx'.r = tx.r
BY DEF Goto, TxType

(* A failing step leaves the store typed. *)
LEMMA ThrowType ==
  ASSUME TypeOK, TxShape, tx.op # "none", Throw
  PROVE  /\ proc' \in {"down", "boot", "up"} /\ cache' \in [Sessions -> ManifestType]
         /\ tx' \in TxType /\ victim' = NoRun /\ TxShape'
<1>1. Empty \in ManifestType
  BY DEF Empty, ManifestType, NoRow, RowType
<1>2. CASE tx.op = "boot"
  <2>1. proc' = "down" /\ tx' = Idle /\ victim' = NoRun /\ cache' = [s \in Sessions |-> Empty]
    BY <1>2 DEF Throw
  <2> QED
    BY <2>1, <1>1, IdleType DEF TxShape, Idle, Stages, Commits
<1>3. CASE tx.op # "boot" /\ tx' = Idle
  <2>1. proc' = proc /\ cache' = cache /\ victim' = NoRun
    BY <1>3 DEF Throw
  <2> QED
    BY <1>3, <2>1, IdleType DEF TypeOK, TxShape, Idle, Stages, Commits
<1>4. CASE tx.op # "boot" /\ victim = NoRun /\ tx.pc \in {"stage", "publish", "detail", "persist"} /\ Goto("undo")
  <2>1. proc' = proc /\ cache' = cache /\ victim' = NoRun
    BY <1>4 DEF Throw
  <2>2. /\ tx' \in TxType /\ tx'.pc = "undo"
        /\ tx'.op = tx.op /\ tx'.s = tx.s /\ tx'.r = tx.r
    BY <1>4, GotoType DEF TypeOK
  <2>3. tx.op \in Commits \cup {"insert"}
    BY <1>4 DEF TypeOK, TxType, Commits
  <2> QED
    BY <1>4, <2>1, <2>2, <2>3 DEF TypeOK, TxShape, Stages, Commits, CommitStages
<1> QED
  BY <1>2, <1>3, <1>4 DEF Throw
-----------------------------------------------------------------------------
(* The calls. *)

LEMMA BeginCommitType ==
  ASSUME TypeOK, TxShape, NEW op \in Commits, NEW s \in Sessions, NEW r \in Runs,
         NEW row \in RowType, NEW new \in BOOLEAN, BeginCommit(op, s, r, row, new)
  PROVE  TypeOK' /\ TxShape'
<1> DEFINE T == [Idle EXCEPT !.op = op, !.pc = "preflight", !.s = s, !.r = r,
                            !.cand = [cache[s] EXCEPT !.heads[r] = row],
                            !.dets = IF new THEN {r} ELSE {},
                            !.old = [@ EXCEPT ![r] = cache[s].heads[r].detail]]
<1>1. tx' = T
  BY DEF BeginCommit
<1>2. cache[s] \in ManifestType
  BY DEF TypeOK
<1>3. [cache[s] EXCEPT !.heads[r] = row] \in ManifestType
  BY <1>2, RowWritten
<1>4. cache[s].heads[r].detail \in Nat
  BY <1>2 DEF ManifestType, RowType
<1>5. [Idle.old EXCEPT ![r] = cache[s].heads[r].detail] \in [Runs -> Nat]
  BY <1>4, IdleType DEF TxType
<1>6. T \in TxType /\ T.op = op /\ T.pc = "preflight" /\ T.s = s /\ T.r = r
  BY <1>3, <1>5, IdleType DEF TxType, Commits
<1>7. minted' \in [Runs -> Nat]
  BY DEF BeginCommit, TypeOK
<1>8. /\ UNCHANGED <<disk, proc, cache, victim, client, known, admitted, sent, verdict, crashes, faults>>
      /\ tx = Idle /\ proc = "up"
  BY DEF BeginCommit, Ready
<1> HIDE DEF T
<1>9. TypeOK'
  BY <1>1, <1>6, <1>7, <1>8 DEF TypeOK, disk
<1>10. victim = NoRun
  BY <1>8 DEF TxShape, Idle
<1>11. TxShape'
  BY <1>1, <1>6, <1>8, <1>10 DEF TxShape, Commits, CommitStages, Stages
<1> QED
  BY <1>9, <1>11

LEMMA CallTypes ==
  ASSUME TypeOK, TxShape, Call
  PROVE  TypeOK' /\ TxShape'
<1>1. ASSUME NEW r \in Runs, Enqueue(r) \/ ScratchWrite(r)
      PROVE  TypeOK' /\ TxShape'
  <2>1. UNCHANGED <<tx, victim, proc>>
    BY <1>1 DEF Enqueue, ScratchWrite, memory
  <2>2. TxShape'
    BY <2>1 DEF TxShape, Idle
  <2>3. CASE Enqueue(r)
    BY <2>2, <2>3 DEF Enqueue, TypeOK, disk
  <2>4. CASE ScratchWrite(r)
    <3>1. <<"scratch", r>> \in TempType
      BY DEF TempType
    <3> QED
      BY <2>2, <2>4, <3>1 DEF ScratchWrite, TypeOK, memory, ghosts
  <2> QED
    BY <1>1, <2>3, <2>4
<1>2. ASSUME NEW s \in Sessions, NEW r \in Runs, InsertWithNextDisplayName(s, r)
      PROVE  TypeOK' /\ TxShape'
  <2> DEFINE T == [Idle EXCEPT !.op = "insert", !.pc = "evict", !.s = s, !.r = r]
  <2>1. T \in TxType /\ T.op = "insert" /\ T.pc = "evict" /\ T.s = s /\ T.r = r
    BY IdleType DEF TxType
  <2>2. /\ tx' = T /\ UNCHANGED <<disk, proc, cache, victim, client, known, ghosts>>
        /\ tx = Idle /\ proc = "up"
    BY <1>2 DEF InsertWithNextDisplayName, Ready
  <2> HIDE DEF T
  <2>3. victim = NoRun
    BY <2>2 DEF TxShape, Idle
  <2>4. TypeOK'
    BY <2>1, <2>2 DEF TypeOK, disk, ghosts
  <2>5. TxShape'
    BY <2>1, <2>2, <2>3 DEF TxShape, Commits, Stages
  <2> QED
    BY <2>4, <2>5
<1>3. ASSUME NEW s \in Sessions, NEW r \in Runs,
             \/ \E new \in BOOLEAN : CommitRun(s, r, new)
             \/ CommitTerminalAndClaimNotice(s, r) \/ FinalizeCompletionNotice(s, r)
      PROVE  TypeOK' /\ TxShape'
  <2>1. cache[s].heads[r] \in RowType /\ cache[s].heads[r].detail \in Nat /\ minted[r] + 1 \in Nat
    BY DEF TypeOK, ManifestType, RowType
  <2>2. CASE \E new \in BOOLEAN : CommitRun(s, r, new)
    <3>1. PICK new \in BOOLEAN : CommitRun(s, r, new)
      BY <2>2
    <3> DEFINE d == IF new THEN minted[r] + 1 ELSE cache[s].heads[r].detail
    <3>2. d \in Nat
      BY <2>1
    <3>3. BeginCommit("update", s, r, Updated(cache[s].heads[r], d), new)
      BY <3>1 DEF CommitRun
    <3>4. Updated(cache[s].heads[r], d) \in RowType
      BY <2>1, <3>2, RowTypes
    <3> QED
      BY <3>3, <3>4, BeginCommitType DEF Commits
  <2>3. CASE CommitTerminalAndClaimNotice(s, r)
    <3>1. Claimed(cache[s].heads[r], minted[r] + 1) \in RowType
      BY <2>1, RowTypes
    <3> QED
      BY <2>3, <3>1, BeginCommitType DEF Commits, CommitTerminalAndClaimNotice
  <2>4. CASE FinalizeCompletionNotice(s, r)
    <3> DEFINE n == IF client[r] = "enqueued" THEN "delivered" ELSE "abandoned"
    <3>1. Finalized(cache[s].heads[r], n) \in RowType
      BY <2>1, RowTypes
    <3> QED
      BY <2>4, <3>1, BeginCommitType DEF Commits, FinalizeCompletionNotice
  <2> QED
    BY <1>3, <2>2, <2>3, <2>4
<1> QED
  BY <1>1, <1>2, <1>3 DEF Call
-----------------------------------------------------------------------------
(* Steps that leave the transaction where it is, throw or move on. *)

(* tx, proc and victim stay, or the victim goes. *)
LEMMA ShapeKept ==
  ASSUME TxShape, UNCHANGED <<tx, proc>>, victim' \in {victim, NoRun}
  PROVE  TxShape'
BY DEF TxShape, Idle

(* A throwing step that touches disk and bounds only in a typed way. *)
LEMMA ThrowStep ==
  ASSUME TypeOK, TxShape, tx.op # "none", Throw,
         UNCHANGED <<sessionDir, client, known, minted, admitted, sent, crashes>>,
         manifest' \in [Sessions -> ManifestType],
         place' \in [Runs -> {"none", "staging", "runs", "quarantine"}],
         files' \in [Runs -> SUBSET Nat], scratch' \subseteq Runs, temps' \subseteq TempType,
         verdict' \in {"ok", "refused"}, faults' \in [AllFaults -> Nat]
  PROVE  TypeOK' /\ TxShape'
<1>1. /\ proc' \in {"down", "boot", "up"} /\ cache' \in [Sessions -> ManifestType]
      /\ tx' \in TxType /\ victim' = NoRun /\ TxShape'
  BY ThrowType
<1> QED
  BY <1>1 DEF TypeOK

LEMMA FaultType ==
  ASSUME TypeOK, NEW f, Fault(f)
  PROVE  faults' \in [AllFaults -> Nat]
<1>1. f \in AllFaults
  BY RunStoreAssumption DEF Fault
<1>2. faults[f] + 1 \in Nat
  BY <1>1 DEF TypeOK
<1> QED
  BY <1>1, <1>2 DEF TypeOK, Fault

(* A stage that ends in another of the same operation. *)
LEMMA GotoStep ==
  ASSUME TypeOK, TxShape, NEW pc \in Stages(tx.op), Goto(pc), victim = NoRun, tx.op # "none",
         pc \in {"detail", "persist", "drop"} => tx.s \in Sessions,
         UNCHANGED <<proc, victim>>
  PROVE  tx' \in TxType /\ TxShape'
<1>1. pc \in {"evict", "preflight", "stage", "publish", "detail", "persist", "drop",
              "enforce", "undo", "validate", "reconcile", "fit", "plan"}
  BY DEF TypeOK, TxType, Stages, Commits, CommitStages
<1>2. /\ tx' \in TxType /\ tx'.pc = pc
      /\ tx'.op = tx.op /\ tx'.s = tx.s /\ tx'.r = tx.r
  BY <1>1, GotoType DEF TypeOK
<1> QED
  BY <1>2 DEF TxShape, Stages, Commits
-----------------------------------------------------------------------------
(* Room for the transaction. *)

LEMMA EvictionTypes ==
  ASSUME TypeOK, TxShape,
         \/ \E r \in Runs : ChooseVictim(r) \/ Quarantine(r) \/ Remove(r)
         \/ NoRoom \/ CountFails \/ Evicted \/ RemoveFails
  PROVE  TypeOK' /\ TxShape'
<1>1. ASSUME NEW r \in Runs, ChooseVictim(r)
      PROVE  TypeOK' /\ TxShape'
  <2>1. TypeOK'
    BY <1>1 DEF ChooseVictim, TypeOK, disk, ghosts
  <2>2. TxShape'
    BY <1>1 DEF ChooseVictim, Counted, Counting, TxShape, Idle
  <2> QED
    BY <2>1, <2>2
<1>2. ASSUME NEW r \in Runs, Quarantine(r)
      PROVE  TypeOK' /\ TxShape'
  <2>1. TypeOK'
    BY <1>2 DEF Quarantine, TypeOK, memory, ghosts
  <2> QED
    BY <1>2, <2>1, ShapeKept DEF Quarantine, memory
<1>3. ASSUME NEW r \in Runs, Remove(r)
      PROVE  TypeOK' /\ TxShape'
  <2>1. TypeOK'
    BY <1>3 DEF Remove, DeleteTree, TypeOK, memory, ghosts
  <2> QED
    BY <1>3, <2>1, ShapeKept DEF Remove, memory
<1>4. CASE Evicted
  <2>1. TypeOK'
    BY <1>4 DEF Evicted, TypeOK, disk, ghosts
  <2> QED
    BY <1>4, <2>1, ShapeKept DEF Evicted
<1>5. ASSUME tx.op = "none"
      PROVE  tx.pc = "idle" /\ victim = NoRun
  BY <1>5 DEF TxShape, Idle
<1>6. CASE NoRoom
  <2>1. tx.op # "none"
    BY <1>5, <1>6 DEF NoRoom, Counting
  <2> QED
    BY <1>6, <2>1, ThrowStep DEF NoRoom, TypeOK, disk
<1>7. CASE CountFails
  <2>1. tx.op # "none"
    BY <1>5, <1>7 DEF CountFails, Counting
  <2> QED
    BY <1>7, <2>1, FaultType, ThrowStep DEF CountFails, TypeOK, disk
<1>8. CASE RemoveFails
  <2>1. tx.op # "none"
    BY <1>5, <1>8 DEF RemoveFails, Evicting
  <2> QED
    BY <1>8, <2>1, FaultType, ThrowStep DEF RemoveFails, TypeOK, disk
<1> QED
  BY <1>1, <1>2, <1>3, <1>4, <1>6, <1>7, <1>8
-----------------------------------------------------------------------------
(* The stages of an insert. *)

LEMMA InsertTypes ==
  ASSUME TypeOK, TxShape,
         Retained \/ Fits \/ Stage \/ Staged \/ StageFails \/ PublishDirectory
  PROVE  TypeOK' /\ TxShape'
<1>0. /\ tx.pc # "idle" => tx.op # "none"
      /\ tx.pc \in {"evict", "stage", "publish"} => tx.op = "insert"
      /\ tx.op = "insert" => tx.s \in Sessions /\ tx.r \in Runs
  BY DEF TypeOK, TxType, TxShape, Stages, Commits, CommitStages
<1>1. CASE Retained
  <2>1. tx.s \in Sessions /\ tx.r \in Runs /\ tx.op = "insert"
    BY <1>0, <1>1 DEF Retained, At
  <2>2. Inserted(cache[tx.s], tx.r, minted[tx.r] + 1) \in ManifestType
    BY <2>1, InsertedType DEF TypeOK
  <2>3. /\ tx' \in TxType /\ tx'.pc = "preflight"
        /\ tx'.op = tx.op /\ tx'.s = tx.s /\ tx'.r = tx.r
    BY <1>1, <2>2 DEF Retained, TypeOK, TxType
  <2>6. minted' \in [Runs -> Nat]
    BY <1>1, <2>1 DEF Retained, TypeOK
  <2>4. TypeOK'
    BY <1>1, <2>3, <2>6 DEF Retained, TypeOK, disk
  <2>5. TxShape'
    BY <1>1, <2>1, <2>3 DEF Retained, At, TxShape, Stages, Commits
  <2> QED
    BY <2>4, <2>5
<1>2. CASE Fits
  <2>1. tx.op \in Commits \cup {"insert"} /\ tx.s \in Sessions
    BY <1>2 DEF Fits, At, TypeOK, TxType, TxShape, Stages, Commits
  <2>2. PICK pc \in Stages(tx.op) : Goto(pc)
    BY <1>2, <2>1 DEF Fits, Stages, Commits, CommitStages
  <2>3. tx' \in TxType /\ TxShape'
    BY <1>2, <2>1, <2>2, GotoStep DEF Fits, At, Commits
  <2> QED
    BY <1>2, <2>3 DEF Fits, TypeOK, disk, ghosts
<1>3. CASE Stage
  <2>1. <<"run", tx.r>> \in TempType
    BY <1>0, <1>3 DEF Stage, At, TempType
  <2>2. TypeOK'
    BY <1>3, <2>1 DEF Stage, TypeOK, memory, ghosts
  <2> QED
    BY <1>3, <2>2, ShapeKept DEF Stage, memory
<1>4. CASE Staged
  <2>1. tx.op = "insert" /\ tx.r \in Runs
    BY <1>0, <1>4 DEF Staged, At
  <2>4. "publish" \in Stages(tx.op)
    BY <2>1 DEF Stages, Commits
  <2>2. tx' \in TxType /\ TxShape'
    BY <1>4, <2>1, <2>4, GotoStep DEF Staged, At
  <2>3. tx.cand.heads[tx.r].detail \in Nat
    BY <2>1 DEF TypeOK, TxType, ManifestType, RowType
  <2> QED
    BY <1>4, <2>2, <2>3 DEF Staged, TypeOK, ghosts
<1>5. CASE StageFails
  <2>1. tx.op # "none"
    BY <1>0, <1>5 DEF StageFails, At
  <2> QED
    BY <1>5, <2>1, FaultType, ThrowStep DEF StageFails, TypeOK
<1>6. CASE PublishDirectory
  <2>1. tx.op = "insert" /\ tx.r \in Runs /\ tx.s \in Sessions /\ victim = NoRun
    BY <1>0, <1>6 DEF PublishDirectory, At
  <2>2. place' \in [Runs -> {"none", "staging", "runs", "quarantine"}]
    BY <1>6 DEF PublishDirectory, TypeOK
  <2>3. CASE Goto("persist") /\ UNCHANGED <<proc, cache, victim, faults>>
    <3>2. "persist" \in Stages(tx.op)
      BY <2>1 DEF Stages, Commits
    <3>1. tx' \in TxType /\ TxShape'
      BY <2>1, <2>3, <3>2, GotoStep
    <3> QED
      BY <1>6, <2>2, <2>3, <3>1 DEF PublishDirectory, TypeOK
  <2>4. CASE Throw /\ \E f \in {"early", "late"} : Fault(f)
    <3>1. faults' \in [AllFaults -> Nat]
      BY <2>4, FaultType
    <3> QED
      BY <1>6, <2>1, <2>2, <2>4, <3>1, ThrowStep DEF PublishDirectory, TypeOK
  <2> QED
    BY <1>6, <2>3, <2>4 DEF PublishDirectory
<1> QED
  BY <1>1, <1>2, <1>3, <1>4, <1>5, <1>6
-----------------------------------------------------------------------------
(* The stages of a commit, which a recovery passes too. *)

(* A stage that changes what is left to do, and nothing of the shape. *)
LEMMA TodoStep ==
  ASSUME TypeOK, TxShape, NEW dets \in SUBSET Runs, NEW written \in SUBSET Runs,
         NEW pc \in Stages(tx.op), tx.op # "none", tx.s \in Sessions, victim = NoRun,
         tx' = [tx EXCEPT !.dets = dets, !.written = written, !.pc = pc],
         UNCHANGED <<proc, victim>>
  PROVE  tx' \in TxType /\ TxShape'
<1>1. pc \in {"evict", "preflight", "stage", "publish", "detail", "persist", "drop",
              "enforce", "undo", "validate", "reconcile", "fit", "plan"}
  BY DEF TypeOK, TxType, Stages, Commits, CommitStages
<1>2. /\ tx' \in TxType /\ tx'.pc = pc
      /\ tx'.op = tx.op /\ tx'.s = tx.s /\ tx'.r = tx.r
  BY <1>1 DEF TypeOK, TxType
<1> QED
  BY <1>2 DEF TxShape, Stages, Commits

LEMMA WorkingStages ==
  ASSUME TypeOK, TxShape
  PROVE  /\ tx.pc \in {"detail", "persist", "drop"} =>
              tx.s \in Sessions /\ tx.op # "none"
         /\ tx.pc \in {"detail", "drop"} =>
              tx.op \in Commits \cup {"boot"} /\ {"detail", "persist", "drop", "enforce"} \subseteq Stages(tx.op)
         /\ tx.pc = "persist" => tx.op \in Commits \cup {"boot", "insert"}
BY DEF TypeOK, TxType, TxShape, Stages, Commits, CommitStages

LEMMA DetailTypes ==
  ASSUME TypeOK, TxShape, NEW r \in Runs, WriteDetail(r) \/ LinkDetail(r) \/ DropOld(r)
  PROVE  TypeOK' /\ TxShape'
<1>0. <<"run", r>> \in TempType
  BY DEF TempType
<1>1. CASE WriteDetail(r)
  <2>1. TypeOK'
    BY <1>0, <1>1 DEF WriteDetail, TypeOK, memory, ghosts
  <2> QED
    BY <1>1, <2>1, ShapeKept DEF WriteDetail, memory
<1>2. CASE LinkDetail(r)
  <2>1. /\ tx.pc = "detail" /\ victim = NoRun /\ tx.s \in Sessions /\ tx.op # "none"
        /\ {"detail", "persist"} \subseteq Stages(tx.op)
        /\ tx.cand.heads[r].detail \in Nat
    BY <1>2, WorkingStages DEF LinkDetail, At, TypeOK, TxType, ManifestType, RowType
  <2>2. /\ temps' \subseteq TempType
        /\ files' \in [Runs -> SUBSET Nat]
    BY <1>2, <2>1 DEF LinkDetail, TypeOK
  <2>3. CASE /\ tx' = [tx EXCEPT !.dets = @ \ {r}, !.written = @ \cup {r},
                                !.pc = IF tx.dets = {r} THEN "persist" ELSE @]
             /\ UNCHANGED <<proc, cache, victim, faults>>
    <3> DEFINE pc == IF tx.dets = {r} THEN "persist" ELSE tx.pc
    <3>1. /\ pc \in Stages(tx.op)
          /\ tx.dets \ {r} \in SUBSET Runs /\ tx.written \cup {r} \in SUBSET Runs
      BY <2>1 DEF TypeOK, TxType
    <3>2. tx' \in TxType /\ TxShape'
      BY <2>1, <2>3, <3>1, TodoStep
    <3> QED
      BY <1>2, <2>2, <2>3, <3>2 DEF LinkDetail, TypeOK
  <2>4. CASE Throw /\ \E f \in {"early", "late"} : Fault(f)
    <3>1. faults' \in [AllFaults -> Nat]
      BY <2>4, FaultType
    <3> QED
      BY <1>2, <2>1, <2>2, <2>4, <3>1, ThrowStep DEF LinkDetail, TypeOK
  <2> QED
    BY <1>2, <2>3, <2>4 DEF LinkDetail
<1>3. CASE DropOld(r)
  <2>1. /\ tx.pc = "drop" /\ victim = NoRun /\ tx.s \in Sessions /\ tx.op # "none"
        /\ "drop" \in Stages(tx.op)
    BY <1>3, WorkingStages DEF DropOld, At
  <2>2. files' \in [Runs -> SUBSET Nat]
    BY <1>3 DEF DropOld, TypeOK
  <2>3. faults' \in [AllFaults -> Nat]
    BY <1>3, FaultType DEF DropOld, TypeOK
  <2>4. CASE tx' = [tx EXCEPT !.written = @ \ {r}] /\ UNCHANGED <<proc, cache, victim>>
    <3>1. /\ tx' = [tx EXCEPT !.dets = tx.dets, !.written = @ \ {r}, !.pc = "drop"]
          /\ tx.written \ {r} \in SUBSET Runs /\ tx.dets \in SUBSET Runs
      BY <2>1, <2>4 DEF TypeOK, TxType
    <3>2. tx' \in TxType /\ TxShape'
      BY <2>1, <2>4, <3>1, TodoStep
    <3> QED
      BY <1>3, <2>2, <2>3, <2>4, <3>2 DEF DropOld, TypeOK
  <2>5. CASE Throw
    BY <1>3, <2>1, <2>2, <2>3, <2>5, ThrowStep DEF DropOld, TypeOK
  <2> QED
    BY <1>3, <2>4, <2>5 DEF DropOld
<1> QED
  BY <1>1, <1>2, <1>3

LEMMA ManifestSteps ==
  ASSUME TypeOK, TxShape, NEW s \in Sessions, WriteManifest(s) \/ ReplaceManifest(s)
  PROVE  TypeOK' /\ TxShape'
<1>0. <<"manifest", s>> \in TempType
  BY DEF TempType
<1>1. CASE WriteManifest(s)
  <2>1. TypeOK'
    BY <1>0, <1>1 DEF WriteManifest, TypeOK, memory, ghosts
  <2> QED
    BY <1>1, <2>1, ShapeKept DEF WriteManifest, memory
<1>2. CASE ReplaceManifest(s)
  <2>0. NewManifest(s) \in ManifestType
    BY WithoutType DEF NewManifest, TypeOK, TxType
  <2>1. manifest' \in [Sessions -> ManifestType] /\ temps' \subseteq TempType
    BY <1>2, <2>0 DEF ReplaceManifest, TypeOK
  <2>2. victim # NoRun \/ (victim = NoRun /\ tx.pc = "persist" /\ s = tx.s)
    BY <1>2 DEF ReplaceManifest, Persisting, At
  <2>3. tx.op # "none"
    BY <2>2 DEF TxShape, Idle
  <2>4. CASE /\ cache' = [cache EXCEPT ![s] = NewManifest(s)]
             /\ Persisted(s) /\ UNCHANGED faults
    <3>1. cache' \in [Sessions -> ManifestType]
      BY <2>0, <2>4 DEF TypeOK
    <3>2. CASE victim # NoRun
      <4>1. Without(tx.cand, victim) \in ManifestType /\ tx.cand \in ManifestType
        BY WithoutType DEF TypeOK, TxType
      <4>2. /\ tx' = [tx EXCEPT !.cand = IF s = tx.s THEN Without(@, victim) ELSE @]
            /\ UNCHANGED <<proc, victim, client, known, admitted>>
        BY <2>4, <3>2 DEF Persisted
      <4>3. /\ tx' \in TxType /\ tx'.pc = tx.pc
            /\ tx'.op = tx.op /\ tx'.s = tx.s /\ tx'.r = tx.r
        BY <4>1, <4>2 DEF TypeOK, TxType
      <4>4. TxShape'
        BY <2>3, <4>2, <4>3 DEF TxShape
      <4> QED
        BY <1>2, <2>1, <2>4, <3>1, <4>2, <4>3, <4>4 DEF ReplaceManifest, TypeOK
    <3>3. CASE victim = NoRun /\ tx.op = "insert"
      <4>1. tx.r \in Runs /\ tx.cand.heads[tx.r].ordinal \in Nat
        BY <3>3 DEF TxShape, TypeOK, TxType, ManifestType, RowType
      <4>2. /\ tx' = Idle /\ UNCHANGED <<proc, victim>>
            /\ client' = [client EXCEPT ![tx.r] = "running"] /\ known' = [known EXCEPT ![tx.r] = 1]
            /\ admitted' = admitted \cup {<<s, tx.cand.heads[tx.r].ordinal, tx.r>>}
        BY <2>4, <3>3 DEF Persisted
      <4>3. admitted' \subseteq Sessions \X Nat \X Runs
        BY <4>1, <4>2 DEF TypeOK
      <4>4. TxShape'
        BY <3>3, <4>2 DEF TxShape, Idle, Stages, Commits, TypeOK
      <4> QED
        BY <1>2, <2>1, <2>4, <3>1, <4>2, <4>3, <4>4, IdleType DEF ReplaceManifest, TypeOK
    <3>4. CASE victim = NoRun /\ tx.op # "insert"
      <4>1. Goto("drop") /\ UNCHANGED <<proc, victim, client, known, admitted>>
        BY <2>4, <3>4 DEF Persisted
      <4>2. "drop" \in Stages(tx.op) /\ tx.s \in Sessions
        BY <2>2, <3>4, WorkingStages DEF Stages, Commits, CommitStages
      <4>3. tx' \in TxType /\ TxShape'
        BY <2>3, <3>4, <4>1, <4>2, GotoStep
      <4> QED
        BY <1>2, <2>1, <2>4, <3>1, <4>1, <4>3 DEF ReplaceManifest, TypeOK
    <3> QED
      BY <3>2, <3>3, <3>4
  <2>5. CASE /\ Throw /\ \E f \in {"early", "late"} : Fault(f)
             /\ UNCHANGED <<client, known, admitted>>
    <3>1. faults' \in [AllFaults -> Nat]
      BY <2>5, FaultType
    <3> QED
      BY <1>2, <2>1, <2>3, <2>5, <3>1, ThrowStep DEF ReplaceManifest, TypeOK
  <2> QED
    BY <1>2, <2>4, <2>5 DEF ReplaceManifest
<1> QED
  BY <1>1, <1>2

LEMMA CommitTypes ==
  ASSUME TypeOK, TxShape, Dropped \/ Committed \/ Undo
  PROVE  TypeOK' /\ TxShape'
<1>1. CASE Dropped
  <2>1. tx.pc = "drop" /\ victim = NoRun /\ tx.op # "none"
    BY <1>1, WorkingStages DEF Dropped, At
  <2>2. PICK pc \in {"plan", "enforce"} : Goto(pc) /\ pc \in Stages(tx.op)
    BY <1>1, <2>1, WorkingStages DEF Dropped, Stages, Commits, CommitStages
  <2>3. tx' \in TxType /\ TxShape'
    BY <1>1, <2>1, <2>2, GotoStep DEF Dropped
  <2> QED
    BY <1>1, <2>3 DEF Dropped, TypeOK, disk, ghosts
<1>2. CASE Committed
  <2>1. tx.pc = "enforce" /\ victim = NoRun /\ tx.op # "boot" /\ tx' = Idle
        /\ UNCHANGED <<disk, proc, cache, victim, ghosts>>
    BY <1>2 DEF Committed, At
  <2>2. tx.op \in Commits /\ tx.r \in Runs
    BY <2>1 DEF TypeOK, TxType, TxShape, Stages, Commits, CommitStages
  <2>3. known[tx.r] + 1 \in Nat
    BY <2>2 DEF TypeOK
  <2>4. known' \in [Runs -> Nat]
    BY <1>2, <2>2, <2>3 DEF Committed, TypeOK
  <2>5. client' \in [Runs -> {"none", "running", "claimed", "enqueued", "done"}]
    BY <1>2, <2>2 DEF Committed, TypeOK
  <2>6. TxShape'
    BY <2>1, <2>2 DEF TxShape, Idle, Stages, Commits, TypeOK
  <2> QED
    BY <2>1, <2>4, <2>5, <2>6, IdleType DEF TypeOK, disk, ghosts
<1>3. CASE Undo
  <2>1. /\ tx.pc = "undo" /\ victim = NoRun /\ tx' = Idle
        /\ UNCHANGED <<manifest, sessionDir, place, scratch, temps, proc, cache, victim, client, known,
                       minted, admitted, sent, verdict, crashes>>
    BY <1>3 DEF Undo, At
  <2>2. tx.op \in Commits \cup {"insert"}
    BY <2>1 DEF TypeOK, TxType, TxShape, Stages, Commits, CommitStages
  <2>3. files' \in [Runs -> SUBSET Nat]
    BY <1>3 DEF Undo, TypeOK
  <2>4. faults' \in [AllFaults -> Nat]
    BY <1>3, FaultType DEF Undo, TypeOK
  <2>5. TxShape'
    BY <2>1, <2>2 DEF TxShape, Idle, Stages, Commits, TypeOK
  <2> QED
    BY <2>1, <2>3, <2>4, <2>5, IdleType DEF TypeOK
<1> QED
  BY <1>1, <1>2, <1>3
-----------------------------------------------------------------------------
(* The boot, and the death of the process. *)

LEMMA BootTypes ==
  ASSUME TypeOK, TxShape,
         \/ Boot \/ ValidateRecoveryInventory \/ Reconciled \/ Fitted \/ Planned \/ Booted
         \/ \E r \in Runs : ReconcileRecoveryResidue(r) \/ ReconcileFails(r)
         \/ \E s \in Sessions : Plan(s)
  PROVE  TypeOK' /\ TxShape'
<1>0. tx.pc \in {"validate", "reconcile", "fit", "plan"} =>
        tx.op = "boot" /\ {"reconcile", "fit", "plan", "enforce", "detail", "persist"} \subseteq Stages(tx.op)
  BY DEF TypeOK, TxType, TxShape, Stages, Commits, CommitStages
<1>1. CASE Boot
  <2> DEFINE T == [Idle EXCEPT !.op = "boot", !.pc = "validate"]
  <2>1. T \in TxType /\ T.op = "boot" /\ T.pc = "validate"
    BY IdleType DEF TxType
  <2>2. /\ tx' = T /\ proc = "down" /\ proc' = "boot"
        /\ UNCHANGED <<disk, cache, victim, client, known, ghosts>>
    BY <1>1 DEF Boot
  <2> HIDE DEF T
  <2>3. victim = NoRun
    BY <2>2 DEF TxShape, Idle
  <2>4. TypeOK'
    BY <2>1, <2>2 DEF TypeOK, disk, ghosts
  <2>5. TxShape'
    BY <2>1, <2>2, <2>3 DEF TxShape, Stages, Commits
  <2> QED
    BY <2>4, <2>5
<1>2. CASE ValidateRecoveryInventory
  <2>1. tx.op # "none" /\ "reconcile" \in Stages(tx.op) /\ victim = NoRun
    BY <1>0, <1>2 DEF ValidateRecoveryInventory, At
  <2>2. CASE Sound
    <3>1. tx' \in TxType /\ TxShape'
      BY <1>2, <2>1, <2>2, GotoStep DEF ValidateRecoveryInventory
    <3> QED
      BY <1>2, <2>2, <3>1 DEF ValidateRecoveryInventory, TypeOK, disk
  <2>3. CASE ~Sound
    BY <1>2, <2>1, <2>3, ThrowStep DEF ValidateRecoveryInventory, TypeOK, disk
  <2> QED
    BY <2>2, <2>3
<1>3. ASSUME NEW r \in Runs, ReconcileRecoveryResidue(r)
      PROVE  TypeOK' /\ TxShape'
  <2>1. TypeOK'
    BY <1>3 DEF ReconcileRecoveryResidue, DeleteTree, TypeOK, memory, ghosts
  <2> QED
    BY <1>3, <2>1, ShapeKept DEF ReconcileRecoveryResidue, memory
<1>4. ASSUME NEW r \in Runs, ReconcileFails(r)
      PROVE  TypeOK' /\ TxShape'
  <2>1. tx.op # "none"
    BY <1>0, <1>4 DEF ReconcileFails, At
  <2> QED
    BY <1>4, <2>1, FaultType, ThrowStep DEF ReconcileFails, TypeOK, disk
<1>5. CASE Reconciled
  <2>1. tx.pc = "reconcile" /\ tx.op = "boot" /\ victim = NoRun /\ "fit" \in Stages(tx.op)
    BY <1>0, <1>5 DEF Reconciled, At
  <2>2. /\ tx' \in TxType /\ tx'.pc = "fit"
        /\ tx'.op = tx.op /\ tx'.s = tx.s /\ tx'.r = tx.r
    BY <1>5 DEF Reconciled, TypeOK, TxType
  <2>3. TypeOK'
    BY <1>5, <2>2 DEF Reconciled, TypeOK, disk, ghosts
  <2>4. TxShape'
    BY <1>5, <2>1, <2>2 DEF Reconciled, TxShape, Commits
  <2> QED
    BY <2>3, <2>4
<1>6. CASE Fitted \/ Planned
  <2>1. tx.op = "boot" /\ victim = NoRun /\ UNCHANGED <<disk, proc, cache, victim, client, known, ghosts>>
    BY <1>0, <1>6 DEF Fitted, Planned, At
  <2>2. PICK pc \in {"plan", "enforce"} : Goto(pc)
    BY <1>6 DEF Fitted, Planned
  <2>3. tx' \in TxType /\ TxShape'
    <3>1. pc \in Stages(tx.op)
      BY <1>0, <1>6 DEF Fitted, Planned, At
    <3> QED
      BY <2>1, <2>2, <3>1, GotoStep
  <2> QED
    BY <2>1, <2>3 DEF TypeOK, disk, ghosts
<1>7. ASSUME NEW s \in Sessions, Plan(s)
      PROVE  TypeOK' /\ TxShape'
  <2> DEFINE active == {q \in Rows(cache[s]) : cache[s].heads[q].status = "active"}
             cand   == RecoveredManifest(cache[s])
             old    == [q \in Runs |-> cache[s].heads[q].detail]
             pc     == IF active # {} THEN "detail" ELSE IF cand # cache[s] THEN "persist" ELSE "plan"
  <2>1. cand \in ManifestType /\ cache[s] \in ManifestType
    BY RecoveredType DEF TypeOK
  <2>2. old \in [Runs -> Nat] /\ active \in SUBSET Runs
    BY <2>1 DEF ManifestType, RowType, Rows
  <2>3. /\ tx' = [tx EXCEPT !.s = s, !.cand = cand, !.dets = active, !.todo = @ \ {s},
                            !.old = old, !.pc = pc]
        /\ minted' = [q \in Runs |-> minted[q] + (IF q \in active THEN 1 ELSE 0)]
        /\ tx.pc = "plan" /\ victim = NoRun
        /\ UNCHANGED <<disk, proc, cache, victim, client, known, admitted, sent, verdict, crashes, faults>>
    BY <1>7 DEF Plan, At
  <2>4. pc \in {"detail", "persist", "plan"}
    OBVIOUS
  <2> HIDE DEF active, cand, old, pc
  <2>5. /\ tx' \in TxType /\ tx'.pc = pc /\ tx'.op = tx.op /\ tx'.s = s /\ tx'.r = tx.r
    BY <2>1, <2>2, <2>3, <2>4 DEF TypeOK, TxType
  <2>6. minted' \in [Runs -> Nat]
    BY <2>3 DEF TypeOK
  <2>7. TypeOK'
    BY <2>3, <2>5, <2>6 DEF TypeOK, disk
  <2>8. TxShape'
    BY <1>0, <2>3, <2>4, <2>5 DEF TxShape, Commits
  <2> QED
    BY <2>7, <2>8
<1>8. CASE Booted
  <2>1. /\ tx.op = "boot" /\ victim = NoRun /\ tx' = Idle /\ proc' = "up"
        /\ UNCHANGED <<disk, cache, victim, client, known, ghosts>>
    BY <1>8 DEF Booted, At
  <2>2. TypeOK'
    BY <2>1, IdleType DEF TypeOK, disk, ghosts
  <2>3. TxShape'
    BY <2>1 DEF TxShape, Idle, Stages, Commits
  <2> QED
    BY <2>2, <2>3
<1> QED
  BY <1>1, <1>2, <1>3, <1>4, <1>5, <1>6, <1>7, <1>8

LEMMA CrashTypes ==
  ASSUME TypeOK, TxShape, Crash
  PROVE  TypeOK' /\ TxShape'
<1>1. /\ proc' = "down" /\ cache' = [s \in Sessions |-> Empty] /\ tx' = Idle /\ victim' = NoRun
      /\ client' = [r \in Runs |-> "none"] /\ known' = [r \in Runs |-> 0] /\ crashes' = crashes + 1
      /\ UNCHANGED <<disk, minted, admitted, sent, verdict, faults>>
  BY DEF Crash
<1>2. cache' \in [Sessions -> ManifestType]
  BY <1>1, WithoutType DEF TypeOK
<1>3. TypeOK'
  BY <1>1, <1>2, IdleType DEF TypeOK, disk
<1>4. TxShape'
  BY <1>1 DEF TxShape, Idle, Stages, Commits
<1> QED
  BY <1>3, <1>4

LEMMA TypeInit == Init => TypeOK /\ TxShape
<1> SUFFICES ASSUME Init PROVE TypeOK /\ TxShape
  OBVIOUS
<1>1. Empty \in ManifestType
  BY DEF Empty, ManifestType, NoRow, RowType
<1>2. TypeOK
  BY <1>1, IdleType DEF Init, TypeOK
<1>3. TxShape
  BY DEF Init, TxShape, Idle, Stages, Commits
<1> QED
  BY <1>2, <1>3

LEMMA TypeStep == TypeOK /\ TxShape /\ [Next]_vars => TypeOK' /\ TxShape'
<1> SUFFICES ASSUME TypeOK, TxShape, [Next]_vars
             PROVE  TypeOK' /\ TxShape'
  OBVIOUS
<1>1. CASE Call
  BY <1>1, CallTypes
<1>2. CASE Step
  <2>1. CASE \/ \E r \in Runs : ChooseVictim(r) \/ Quarantine(r) \/ Remove(r)
             \/ NoRoom \/ CountFails \/ Evicted \/ RemoveFails
    BY <2>1, EvictionTypes
  <2>2. CASE \/ ValidateRecoveryInventory \/ Reconciled \/ Fitted \/ Planned \/ Booted
             \/ \E r \in Runs : ReconcileRecoveryResidue(r) \/ ReconcileFails(r)
             \/ \E s \in Sessions : Plan(s)
    BY <2>2, BootTypes
  <2>3. CASE \E r \in Runs : WriteDetail(r) \/ LinkDetail(r) \/ DropOld(r)
    BY <2>3, DetailTypes
  <2>4. CASE \E s \in Sessions : WriteManifest(s) \/ ReplaceManifest(s)
    BY <2>4, ManifestSteps
  <2>5. CASE Retained \/ Fits \/ Stage \/ Staged \/ StageFails \/ PublishDirectory
    BY <2>5, InsertTypes
  <2>6. CASE Dropped \/ Committed \/ Undo
    BY <2>6, CommitTypes
  <2> QED
    BY <1>2, <2>1, <2>2, <2>3, <2>4, <2>5, <2>6, Zenon DEF Step
<1>3. CASE ScratchStep
  <2>1. PICK r \in Runs : ScratchWritten(r)
    BY <1>3 DEF ScratchStep
  <2>2. TypeOK'
    BY <2>1 DEF ScratchWritten, TypeOK, memory, ghosts
  <2> QED
    BY <2>1, <2>2, ShapeKept DEF ScratchWritten, memory
<1>4. CASE Boot
  BY <1>4, BootTypes
<1>5. CASE Crash
  BY <1>5, CrashTypes
<1>6. CASE UNCHANGED vars
  <2>1. TypeOK'
    BY <1>6 DEF TypeOK, vars, disk, memory, ghosts
  <2> QED
    BY <1>6, <2>1, ShapeKept DEF vars, memory
<1> QED
  BY <1>1, <1>2, <1>3, <1>4, <1>5, <1>6 DEF Next

(* Every variable of the store, on disk, in memory and of the transaction in
   progress, keeps its type, and an operation passes the stages of its kind
   (mutate: one transaction at a time). *)
THEOREM TypeCorrect == Spec => [](TypeOK /\ TxShape)
<1>1. Init => TypeOK /\ TxShape
  BY TypeInit
<1>2. (TypeOK /\ TxShape) /\ [Next]_vars => (TypeOK /\ TxShape)'
  BY TypeStep
<1> QED
  BY <1>1, <1>2, PTL DEF Spec
=============================================================================
