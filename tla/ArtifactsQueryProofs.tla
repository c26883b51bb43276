------------------------ MODULE ArtifactsQueryProofs ------------------------
(***************************************************************************)
(* What artifacts() may and may not do to a run, whatever its operations   *)
(* are at: its commit never changes a status, and a run keeps at most one  *)
(* live attempt.  A read's commit succeeds only while the row has the      *)
(* revision the read captured; LookInv says that the run's status is then  *)
(* still the captured one.  Then what dispose leaves behind, and the only  *)
(* two ways in which a run can be left with nothing to happen to it.       *)
(***************************************************************************)
EXTENDS ArtifactsQuery, RunSupervisorProofs

(* The commit of a read that lists changed files leaves the status as it is,  *)
(* in the Session's row and in the supervisor's head.                         *)
ReadsKeepStatus ==
  [][\A r \in Runs : Looking(r) /\ look'[r] # look[r] =>
       row'[r].status = row[r].status /\ head'[r].status = head[r].status]_allVars

LookType == look \in [Runs -> [rev : Nat, status : StatusOrAbsent]]

(* The supervisor never holds a later revision than the row, nor another      *)
(* status at the same one, and a read in flight whose revision is the row's   *)
(* holds the status the run still has.                                        *)
LookInv ==
  \A r \in Runs :
    /\ head[r].rev <= row[r].rev
    /\ head[r].rev = row[r].rev => head[r].status = row[r].status
    /\ Looking(r) =>
         /\ start[r] \notin Early
         /\ look[r].status \notin TERMINAL
         /\ look[r].rev <= row[r].rev
         /\ look[r].rev = row[r].rev => /\ head[r].rev = row[r].rev
                                        /\ head[r].status = look[r].status

ReadInv == TypeOK /\ AttemptInv /\ LookType /\ LookInv

-----------------------------------------------------------------------------
(* What one step of the supervisor can do to a run's row and head.            *)

Level(r) == head[r].rev = row[r].rev /\ head[r].status = row[r].status
Kept(r) == row'[r] = row[r] /\ head'[r] = head[r]
RowStep(r) ==
  \/ Kept(r)
  \/ start[r] = "insert" /\ Level(r)'
  \/ row'[r].rev = row[r].rev + 1 /\ (head'[r] = head[r] \/ Level(r)')
  \/ row'[r] = row[r] /\ head[r].rev < row[r].rev /\ Level(r)'
LaunchGoesOn == \A r \in Runs : start[r] \notin Early => start'[r] \notin Early

LEMMA LaunchRows ==
  ASSUME TypeOK, NEW r \in Runs, LaunchStep(r) \/ Reserve(r)
  PROVE  LaunchGoesOn /\ \A q \in Runs : RowStep(q)
<1>1. CASE \/ Reserve(r) \/ InsertRejected(r) \/ Inserted(r) \/ ScratchOpened(r) \/ ReleaseStart(r)
           \/ UnreleasedQuiesced(r) \/ LaunchFailureSettled(r) \/ LaunchDrained(r)
  <2>1. UNCHANGED <<row, head>>
    BY <1>1 DEF Reserve, InsertRejected, Inserted, ScratchOpened, ReleaseStart,
                UnreleasedQuiesced, LaunchFailureSettled, LaunchDrained, durableVars
  <2>2. LaunchGoesOn
    BY <1>1 DEF Reserve, InsertRejected, Inserted, ScratchOpened, ReleaseStart, LaunchFails,
                UnreleasedQuiesced, LaunchFailureSettled, LaunchDrained, LaunchGoesOn, Early,
                TypeOK, TypeLaunch
  <2> QED
    BY <2>1, <2>2 DEF RowStep, Kept, Level
<1>2. CASE InsertDurable(r)
  <2>1. LaunchGoesOn
    BY <1>2 DEF InsertDurable, LaunchGoesOn, Early, TypeOK, TypeLaunch
  <2>2. \A q \in Runs : RowStep(q)
    BY <1>2 DEF InsertDurable, RowStep, Kept, Level, TypeOK, TypeDurable
  <2> QED
    BY <2>1, <2>2
<1>3. CASE LaunchSettled(r)
  <2>1. LaunchGoesOn
    BY <1>3 DEF LaunchSettled, LaunchGoesOn, Early, TypeOK, TypeLaunch
  <2>2. startRev[r] = row[r].rev \/ UNCHANGED <<row, head>>
    BY <1>3 DEF LaunchSettled, TerminalSettles, Results, Write
  <2>3. \A q \in Runs : RowStep(q)
    BY <1>3, <2>2 DEF LaunchSettled, TerminalSettles, Results, Write, RowStep, Kept, Level, TypeOK, TypeDurable
  <2> QED
    BY <2>1, <2>3
<1> QED
  BY <1>1, <1>2, <1>3 DEF LaunchStep

LEMMA BeginRows ==
  ASSUME NEW r \in Runs,
         \/ BeginPause(r) \/ BeginStop(r) \/ BeginResume(r, "resume") \/ BeginResume(r, "raise")
         \/ BeginAnswer(r) \/ BeginGate(r) \/ BeginEvent(r) \/ BeginSettle(r) \/ BeginTerminal(r)
         \/ AttemptQuiesced(r) \/ RollbackQuiesced(r) \/ Drained(r)
  PROVE  UNCHANGED <<start, row, head>>
<1>1. CASE \/ BeginPause(r) \/ BeginStop(r) \/ BeginResume(r, "resume") \/ BeginResume(r, "raise")
           \/ BeginAnswer(r) \/ BeginGate(r)
  BY <1>1 DEF BeginPause, BeginStop, BeginResume, BeginAnswer, BeginGate, launchVars, durableVars
<1>2. CASE \/ BeginEvent(r) \/ BeginSettle(r) \/ BeginTerminal(r)
           \/ AttemptQuiesced(r) \/ RollbackQuiesced(r) \/ Drained(r)
  BY <1>2 DEF BeginEvent, BeginSettle, BeginTerminal, AttemptQuiesced, RollbackQuiesced, Drained,
              launchVars, durableVars
<1> QED
  BY <1>1, <1>2

LEMMA QueueRows ==
  ASSUME TypeOK, NEW r \in Runs, QueueStep(r)
  PROVE  UNCHANGED start /\ \A q \in Runs : RowStep(q)
<1>1. CASE UNCHANGED <<start, row, head>>
  BY <1>1 DEF RowStep, Kept, Level
<1>2. CASE CommitSettles(r)
  <2>1. UNCHANGED start
    BY <1>2 DEF CommitSettles, launchVars
  <2>2. job[r].rev \in Nat /\ row[r].rev \in Nat
    BY DEF TypeOK, TypeJob, JobRecord, TypeDurable
  <2>3. \/ UNCHANGED <<row, head>>
        \/ /\ row[r].rev = job[r].rev
           /\ row' = [row EXCEPT ![r].status = job[r].to, ![r].rev = job[r].rev + 1]
           /\ head' = [head EXCEPT ![r] = [status |-> job[r].to, rev |-> job[r].rev + 1]]
        \/ /\ UNCHANGED head
           /\ \E res \in Results(r, job[r].rev) \ {"ok"} : Write(r, res, job[r].to, row[r].notice)
    BY <1>2 DEF CommitSettles
  <2>4. \A q \in Runs : RowStep(q)
    BY <2>2, <2>3 DEF Results, Write, RowStep, Kept, Level, TypeOK, TypeDurable
  <2> QED
    BY <2>1, <2>4
<1>3. CASE TerminalSettled(r)
  <2>1. UNCHANGED start
    BY <1>3 DEF TerminalSettled, launchVars
  <2>2. job[r].rev = row[r].rev \/ UNCHANGED <<row, head>>
    BY <1>3 DEF TerminalSettled, TerminalSettles, Results, Write
  <2>3. \A q \in Runs : RowStep(q)
    BY <1>3, <2>2 DEF TerminalSettled, TerminalSettles, Results, Write, RowStep, Kept, Level, TypeOK, TypeDurable
  <2> QED
    BY <2>1, <2>3
<1> QED
  BY <1>1, <1>2, <1>3, BeginRows DEF QueueStep

LEMMA EngineRows ==
  ASSUME TypeOK, NEW r \in Runs,
         \/ Ask(r) \/ EngineEvent(r) \/ EngineGate(r) \/ NoticeSettles(r)
         \/ \E g \in Gens : EngineQuiesces(r, g)
  PROVE  UNCHANGED start /\ \A q \in Runs : RowStep(q)
<1>1. CASE Ask(r) \/ EngineEvent(r) \/ EngineGate(r) \/ \E g \in Gens : EngineQuiesces(r, g)
  BY <1>1 DEF Ask, EngineEvent, EngineGate, EngineQuiesces, launchVars, durableVars, RowStep, Kept, Level
<1>2. CASE NoticeSettles(r)
  <2>1. UNCHANGED start
    BY <1>2 DEF NoticeSettles, launchVars
  <2>2. \/ row' = [row EXCEPT ![r].rev = @ + 1, ![r].notice = "final"]
        \/ row' = row
    BY <1>2 DEF NoticeSettles
  <2>3. \/ head' = head
        \/ /\ row'[r].rev > head[r].rev
           /\ head' = [head EXCEPT ![r] = [status |-> row'[r].status, rev |-> row'[r].rev]]
    BY <1>2 DEF NoticeSettles
  <2>4. \A q \in Runs : RowStep(q)
    BY <2>2, <2>3 DEF RowStep, Kept, Level, TypeOK, TypeDurable
  <2> QED
    BY <2>1, <2>4
<1> QED
  BY <1>1, <1>2

LEMMA TeardownRows ==
  ASSUME \/ \E a \in Agents : OwnerDisposed(a) \/ OwnerStep(a)
         \/ Dispose \/ DisposeStep
  PROVE  UNCHANGED <<start, row, head>>
<1>1. CASE \E a \in Agents : OwnerDisposed(a) \/ OwnerStep(a)
  BY <1>1 DEF OwnerDisposed, OwnerStep, OwnerStartsSettled, OwnerNextRun, OwnerAwaitsTail,
              OwnerRunDrained, OwnerQuiesces, launchVars, durableVars
<1>2. CASE Dispose \/ DisposeStep
  BY <1>2 DEF Dispose, DisposeStep, DisposeCancels, DisposeDrains, DisposeRetries,
              DisposeFinalDrain, Disposed, launchVars, durableVars
<1> QED
  BY <1>1, <1>2

LEMMA StepRows ==
  ASSUME TypeOK, [Next]_vars
  PROVE  LaunchGoesOn /\ \A q \in Runs : RowStep(q)
<1>1. CASE UNCHANGED vars
  BY <1>1 DEF vars, launchVars, durableVars, LaunchGoesOn, RowStep, Kept, Level
<1>2. CASE \E r \in Runs : LaunchStep(r) \/ Reserve(r)
  BY <1>2, LaunchRows
<1>3. CASE \E r \in Runs : QueueStep(r)
  BY <1>3, QueueRows DEF LaunchGoesOn
<1>4. CASE \E r \in Runs : \/ Ask(r) \/ EngineEvent(r) \/ EngineGate(r) \/ NoticeSettles(r)
                           \/ \E g \in Gens : EngineQuiesces(r, g)
  BY <1>4, EngineRows DEF LaunchGoesOn
<1>5. CASE (\E a \in Agents : OwnerDisposed(a) \/ OwnerStep(a)) \/ Dispose \/ DisposeStep
  BY <1>5, TeardownRows DEF LaunchGoesOn, RowStep, Kept, Level
<1> QED
  BY <1>1, <1>2, <1>3, <1>4, <1>5 DEF Next

(* A step of the supervisor keeps the invariant of the reads in flight.       *)
LEMMA SupervisorKeepsLook ==
  ASSUME ReadInv, TypeOK', [Next]_vars, UNCHANGED readVars
  PROVE  LookType' /\ LookInv'
<1>1. LookType'
  BY DEF ReadInv, LookType, readVars
<1>2. ASSUME NEW r \in Runs
      PROVE  LookInv!(r)'
  <2>1. RowStep(r) /\ LaunchGoesOn
    BY StepRows DEF ReadInv
  <2>2. LookInv!(r)
    BY DEF ReadInv, LookInv
  <2>3. look' = look
    BY DEF readVars
  <2>4. /\ {row[r].rev, head[r].rev, look[r].rev, row'[r].rev, head'[r].rev} \subseteq Nat
    BY DEF ReadInv, TypeOK, TypeDurable, LookType
  <2>5. start[r] = "insert" => ~Looking(r)
    BY <2>2 DEF Early
  <2> QED
    BY <2>1, <2>2, <2>3, <2>4, <2>5 DEF RowStep, Kept, Level, LaunchGoesOn, Looking
<1> QED
  BY <1>1, <1>2 DEF LookInv

-----------------------------------------------------------------------------
LEMMA ScriptKeeps ==
  ASSUME ReadInv, NEW r \in Runs, ScriptWrites(r)
  PROVE  ReadInv'
<1>1. UNCHANGED vars /\ UNCHANGED look
  BY DEF ScriptWrites
<1>2. TypeOK' /\ AttemptInv'
  BY <1>1, StepTypes, StepAttempts DEF ReadInv
<1>3. LookType' /\ LookInv'
  BY <1>1 DEF ReadInv, LookType, LookInv, Looking, vars, launchVars, durableVars
<1> QED
  BY <1>2, <1>3 DEF ReadInv

LEMMA ArtifactsKeeps ==
  ASSUME ReadInv, NEW r \in Runs, Artifacts(r)
  PROVE  ReadInv'
<1>1. UNCHANGED vars
  BY DEF Artifacts
<1>2. TypeOK' /\ AttemptInv'
  BY <1>1, StepTypes, StepAttempts DEF ReadInv
<1>3. UNCHANGED <<start, row, head>>
  BY <1>1 DEF vars, launchVars, durableVars
<1>4. look' = [look EXCEPT ![r] = [rev |-> head[r].rev, status |-> head[r].status]]
  BY DEF Artifacts
<1>5. LookType'
  BY <1>4 DEF ReadInv, LookType, TypeOK, TypeDurable
<1>6. start[r] \notin Early /\ head[r].status \notin TERMINAL
  <2>1. start[r] # "idle"
    <3>1. row[r].status # "absent"
      BY DEF Artifacts, Known, Durable
    <3> QED
      BY <3>1 DEF ReadInv, AttemptInv, LaunchInv
  <2> QED
    BY <2>1 DEF Artifacts, Known, Terminal, Early
<1>7. LookInv'
  <2> SUFFICES ASSUME NEW q \in Runs PROVE LookInv!(q)'
    BY DEF LookInv
  <2>1. LookInv!(q)
    BY DEF ReadInv, LookInv
  <2>2. CASE q = r
    <3>1. look'[r] = [rev |-> head[r].rev, status |-> head[r].status]
      BY <1>4 DEF ReadInv, LookType
    <3> QED
      BY <2>1, <2>2, <3>1, <1>3, <1>6
  <2>3. CASE q # r
    <3>1. look'[q] = look[q]
      BY <2>3, <1>4 DEF ReadInv, LookType
    <3> QED
      BY <2>1, <3>1, <1>3 DEF Looking
  <2> QED
    BY <2>2, <2>3
<1> QED
  BY <1>2, <1>5, <1>7 DEF ReadInv

(* What the settling of a read's commit changes: a revision, never a status. *)
LEMMA SettleStep ==
  ASSUME ReadInv, NEW r \in Runs, ArtifactsSettle(r)
  PROVE  /\ look' = [look EXCEPT ![r] = NoLook]
         /\ UNCHANGED <<launchVars, delivery, told, failure, attemptVars, gateVars,
                        queueVars, capacityVars, closeVars, waitVars, drainVars, ops, events>>
         /\ faults' \in Nat
         /\ \/ UNCHANGED <<row, head>>
            \/ /\ start[r] \notin Early
               /\ head[r].status \notin TERMINAL
               /\ row[r].rev = head[r].rev
               /\ row' = [row EXCEPT ![r] = [status |-> head[r].status, rev |-> @.rev + 1,
                                             notice |-> @.notice]]
               /\ \/ UNCHANGED head
                  \/ head' = [head EXCEPT ![r] = [status |-> head[r].status, rev |-> row'[r].rev]]
<1>1. PICK res \in LookResults(r) :
        /\ Write(r, res, look[r].status, row[r].notice)
        /\ head' = IF res = "ok"
                   THEN [head EXCEPT ![r] = [status |-> look[r].status, rev |-> row'[r].rev]]
                   ELSE head
  BY DEF ArtifactsSettle
<1>2. faults' \in Nat
  BY <1>1 DEF Write, Blame, ReadInv, TypeOK, TypeBounds
<1>3. CASE row[r].rev # look[r].rev
  <2>1. UNCHANGED <<row, head>>
    BY <1>1, <1>3 DEF LookResults, Results, Write
  <2> QED
    BY <1>2, <2>1 DEF ArtifactsSettle
<1>4. CASE row[r].rev = look[r].rev
  <2>1. /\ start[r] \notin Early /\ look[r].status \notin TERMINAL
        /\ head[r].rev = row[r].rev /\ head[r].status = look[r].status
    BY <1>4 DEF ReadInv, LookInv, ArtifactsSettle
  <2>2. \/ UNCHANGED <<row, head>>
        \/ /\ row' = [row EXCEPT ![r] = [status |-> look[r].status, rev |-> @.rev + 1,
                                         notice |-> row[r].notice]]
           /\ \/ UNCHANGED head
              \/ head' = [head EXCEPT ![r] = [status |-> look[r].status, rev |-> row'[r].rev]]
    BY <1>1, <1>4 DEF LookResults, Results, Write
  <2> QED
    BY <1>2, <2>1, <2>2 DEF ArtifactsSettle
<1> QED
  BY <1>3, <1>4

LEMMA SettleKeepsStatus ==
  ASSUME ReadInv, NEW r \in Runs, ArtifactsSettle(r), NEW q \in Runs
  PROVE  /\ row'[q].status = row[q].status /\ head'[q].status = head[q].status
         /\ row'[q].rev \in {row[q].rev, row[q].rev + 1}
         /\ row'[q] # row[q] => start[q] \notin Early /\ ~Terminal(q)
BY SettleStep DEF ReadInv, LookInv, TypeOK, TypeDurable, Terminal

LEMMA SettleKeeps ==
  ASSUME ReadInv, NEW r \in Runs, ArtifactsSettle(r)
  PROVE  ReadInv'
<1>1. UNCHANGED <<launchVars, delivery, told, failure, attemptVars, gateVars, queueVars,
                  capacityVars, closeVars, waitVars, drainVars, ops, events>>
  BY SettleStep
<1>2. TypeOK'
  <2>1. TypeDurable'
    <3>1. head' \in [Runs -> [status : StatusOrAbsent, rev : Nat]]
          /\ row' \in [Runs -> [status : StatusOrAbsent, rev : Nat, notice : {"none", "claimed", "final"}]]
      <4> DEFINE newRow == [status |-> head[r].status, rev |-> row[r].rev + 1, notice |-> row[r].notice]
                 newHead(rev) == [status |-> head[r].status, rev |-> rev]
      <4>1. /\ head \in [Runs -> [status : StatusOrAbsent, rev : Nat]]
            /\ row \in [Runs -> [status : StatusOrAbsent, rev : Nat, notice : {"none", "claimed", "final"}]]
        BY DEF ReadInv, TypeOK, TypeDurable
      <4>2. /\ newRow \in [status : StatusOrAbsent, rev : Nat, notice : {"none", "claimed", "final"}]
            /\ newHead(row[r].rev + 1) \in [status : StatusOrAbsent, rev : Nat]
        BY <4>1
      <4>3. \/ UNCHANGED <<row, head>>
            \/ /\ row' = [row EXCEPT ![r] = newRow]
               /\ UNCHANGED head \/ head' = [head EXCEPT ![r] = newHead(row[r].rev + 1)]
        BY <4>1, SettleStep
      <4> HIDE DEF newRow, newHead
      <4>4. row' \in [Runs -> [status : StatusOrAbsent, rev : Nat, notice : {"none", "claimed", "final"}]]
        BY <4>1, <4>2, <4>3
      <4>5. head' \in [Runs -> [status : StatusOrAbsent, rev : Nat]]
        BY <4>1, <4>2, <4>3
      <4> QED
        BY <4>4, <4>5
    <3> QED
      BY <1>1, <3>1 DEF ReadInv, TypeOK, TypeDurable
  <2>2. TypeBounds'
    BY <1>1, SettleStep DEF ReadInv, TypeOK, TypeBounds
  <2>3. TypeLaunch' /\ TypeCapacity' /\ TypeClose' /\ TypeDrain'
    BY <1>1 DEF ReadInv, TypeOK, TypeLaunch, TypeCapacity, TypeClose, TypeDrain,
                launchVars, capacityVars, closeVars, drainVars
  <2>4. TypeAttempts' /\ TypeGates' /\ TypeQueue' /\ TypeJob'
    BY <1>1 DEF ReadInv, TypeOK, TypeAttempts, TypeGates, TypeQueue, TypeJob,
                attemptVars, gateVars, queueVars, waitVars
  <2> QED
    BY <2>1, <2>2, <2>3, <2>4 DEF TypeOK
<1>3. UNCHANGED <<start, delivery, gen, cur, engine, job, queue, drain>>
  BY <1>1 DEF launchVars, attemptVars, queueVars, drainVars
<1>4. AttemptInv'
  <2>1. LaunchInv'
    BY <1>3, SettleKeepsStatus DEF ReadInv, AttemptInv, LaunchInv, Early
  <2>2. GenerationInv' /\ DroppedInv' /\ QueueInv'
    BY <1>3 DEF ReadInv, AttemptInv, GenerationInv, DroppedInv, QueueInv, Live
  <2>3. ParkedInv'
    BY <1>3, SettleKeepsStatus DEF ReadInv, AttemptInv, ParkedInv, Terminal
  <2> QED
    BY <2>1, <2>2, <2>3 DEF AttemptInv
<1>5. LookType'
  BY SettleStep DEF ReadInv, LookType, NoLook, StatusOrAbsent
<1>6. LookInv'
  <2> SUFFICES ASSUME NEW q \in Runs PROVE LookInv!(q)'
    BY DEF LookInv
  <2>1. LookInv!(q)
    BY DEF ReadInv, LookInv
  <2>2. {row[q].rev, head[q].rev, look[q].rev} \subseteq Nat
    BY DEF ReadInv, TypeOK, TypeDurable, LookType
  <2>3. CASE q = r
    <3>1. ~Looking(r)'
      BY SettleStep DEF ReadInv, LookType, Looking, NoLook
    <3>2. /\ head'[q].rev <= row'[q].rev
          /\ head'[q].rev = row'[q].rev => head'[q].status = row'[q].status
      BY <2>1, <2>2, <2>3, SettleStep DEF ReadInv, TypeOK, TypeDurable
    <3> QED
      BY <2>3, <3>1, <3>2
  <2>4. CASE q # r
    <3>1. look'[q] = look[q] /\ row'[q] = row[q] /\ head'[q] = head[q]
      BY <2>4, SettleStep DEF ReadInv, LookType, TypeOK, TypeDurable
    <3> QED
      BY <2>1, <3>1, <1>3 DEF Looking
  <2> QED
    BY <2>3, <2>4
<1> QED
  BY <1>2, <1>4, <1>5, <1>6 DEF ReadInv

-----------------------------------------------------------------------------
LEMMA ReadStep ==
  ASSUME ReadInv, [ReadNext]_allVars
  PROVE  ReadInv'
<1>1. CASE [Next]_vars /\ UNCHANGED readVars
  BY <1>1, StepTypes, StepAttempts, SupervisorKeepsLook DEF ReadInv
<1>2. CASE \E r \in Runs : ScriptWrites(r) \/ Artifacts(r) \/ ArtifactsSettle(r)
  BY <1>2, ScriptKeeps, ArtifactsKeeps, SettleKeeps
<1> QED
  BY <1>1, <1>2 DEF ReadNext, allVars

(* With artifacts() called at any moment, every variable keeps its type, the   *)
(* attempts stay in order and a read in flight never holds a stale status at   *)
(* the row's revision.                                                         *)
THEOREM ReadsInOrder == ReadSpec => []ReadInv
<1>1. ReadInit => ReadInv
  <2> SUFFICES ASSUME ReadInit PROVE ReadInv
    OBVIOUS
  <2>1. TypeOK /\ AttemptInv
    BY InitTypes, InitAttempts DEF ReadInit
  <2>2. LookType
    BY DEF ReadInit, LookType, NoLook, StatusOrAbsent
  <2>3. LookInv
    BY DEF ReadInit, Init, LookInv, Looking, NoLook
  <2> QED
    BY <2>1, <2>2, <2>3 DEF ReadInv
<1>2. ReadInv /\ [ReadNext]_allVars => ReadInv'
  BY ReadStep
<1> QED
  BY <1>1, <1>2, PTL DEF ReadSpec

(* No call of artifacts(), whatever commit it overtakes, gives a run a second *)
(* live attempt.                                                              *)
THEOREM OneLiveAttemptWithReads == ReadSpec => []AtMostOneLiveAttempt
<1>1. ReadInv => AtMostOneLiveAttempt
  BY OrderedIsUnique DEF ReadInv
<1> QED
  BY <1>1, ReadsInOrder, PTL

(* The commit of artifacts() changes no status, neither in the row nor in the *)
(* supervisor: it may make another commit fail, but never undoes one.         *)
THEOREM ReadsChangeNoStatus == ReadSpec => ReadsKeepStatus
<1> DEFINE Keeps == \A r \in Runs : Looking(r) /\ look'[r] # look[r] =>
                      row'[r].status = row[r].status /\ head'[r].status = head[r].status
<1>1. ASSUME ReadInv, [ReadNext]_allVars
      PROVE  [Keeps]_allVars
  <2>1. CASE UNCHANGED readVars \/ UNCHANGED allVars
    BY <2>1 DEF readVars, allVars
  <2>2. ASSUME NEW r \in Runs, ScriptWrites(r) \/ Artifacts(r)
        PROVE  Keeps
    BY <2>2 DEF ScriptWrites, Artifacts, vars, durableVars
  <2>3. ASSUME NEW r \in Runs, ArtifactsSettle(r)
        PROVE  Keeps
    BY <1>1, <2>3, SettleKeepsStatus
  <2> QED
    BY <1>1, <2>1, <2>2, <2>3 DEF ReadNext
<1>2. ReadInv /\ [ReadNext]_allVars => [Keeps]_allVars
  BY <1>1
<1> HIDE DEF Keeps
<1>3. ReadSpec => [][Keeps]_allVars
  BY <1>2, ReadsInOrder, PTL DEF ReadSpec
<1> QED
  BY <1>3 DEF Keeps, ReadsKeepStatus
-----------------------------------------------------------------------------
(***************************************************************************)
(* What reads may do to dispose, and what keeps a run from being stranded. *)
(* SoundInv speaks of the runs nothing disturbed: no commit failed, and no *)
(* read took the revision one of their own commits waits for.  Such a run  *)
(* is settled, or whoever commits next expects the row's revision (Fresh)  *)
(* and it is parked or something of it goes on (Held).                     *)
(***************************************************************************)
(* The operation whose commit is in flight has an attempt to go on with, or    *)
(* parks the run.                                                              *)
Carries(r) ==
  LET j == job[r] IN
  \/ j.op \in {"pause", "stop", "replace"} /\ j.to \in {"pausing", "stopping"} /\ cur[r] = j.g
  \/ j.op \in {"pause", "replace"} /\ j.to = "paused"
  \/ j.op \in {"unpark", "gate", "event", "resume"} /\ cur[r] = j.g /\ j.g # 0
  \/ j.op = "settle" /\ j.to \in Parked
(* Whoever commits next expects the revision of the row, and none has failed.  *)
Fresh(r) ==
  /\ ~failure[r] /\ ~delivery[r]
  /\ head[r].rev = row[r].rev
  /\ job[r].pc \in {"commit", "claim"} => job[r].rev = row[r].rev
  /\ start[r] = "claim" => startRev[r] = row[r].rev
Unpublished == {"insert", "durable", "scratch"}
Failing     == {"drain", "claim"}
(* A run that has not settled is parked, or something of it goes on.           *)
Held(r) ==
  /\ job[r].pc # "rollback"
  /\ job[r].pc = "quiesce" => job[r].op \in {"pause", "stop", "replace"} /\ cur[r] = job[r].g
  /\ job[r].pc = "commit" => Carries(r)
  /\ start[r] \in Failing => /\ gen[r] = 0 /\ head[r].status = "running"
                             /\ job[r].pc \in {"idle", "drain", "claim"}
  /\ /\ Durable(r) /\ start[r] \notin Unpublished \cup Failing
     /\ cur[r] = 0 /\ job[r].pc = "idle"
     => head[r].status \in Parked
Sound(r) == Terminal(r) \/ (Fresh(r) /\ Held(r))
SoundInv == \A r \in Runs : faults = 0 /\ r \notin overtaken => Sound(r)
-----------------------------------------------------------------------------
(* dispose, with the reads beside it. *)

LEMMA ReadSettlesTeardown ==
  ASSUME ReadInv, TeardownInv, NEW r \in Runs, ArtifactsSettle(r)
  PROVE  TeardownInv'
<1>1. UNCHANGED <<start, delivery, failure, gen, cur, engine, job, queue, drain, ahead, awaited>>
      /\ UNCHANGED <<disposal, direct, firstError, disposed, admission>>
  BY SettleStep DEF launchVars, attemptVars, queueVars, closeVars, waitVars, drainVars
<1>2. \A q \in Runs : row'[q].status = row[q].status /\ head'[q].status = head[q].status
  BY SettleKeepsStatus
<1>3. \A q \in Runs : /\ Durable(q)' <=> Durable(q)
                      /\ Terminal(q)' <=> Terminal(q)
                      /\ Pending(q)' <=> Pending(q)
                      /\ Reported(q)' <=> Reported(q)
                      /\ Waiting(q)' <=> Waiting(q)
  BY <1>1, <1>2 DEF Durable, Terminal, Pending, Reported, Waiting, Awaits
<1>4. KnownRuns' = KnownRuns /\ KnownRuns \subseteq Runs
  BY <1>1, <1>3 DEF KnownRuns, Known
<1>5. RowInv'
  BY <1>1, <1>2, <1>3 DEF TeardownInv, RowInv
<1>6. AbsentInv'
  BY <1>1, <1>3 DEF TeardownInv, AbsentInv, ReadInv, TypeOK, TypeDrain
<1>7. SettleInv'
  BY <1>1 DEF TeardownInv, SettleInv
<1>8. DisposeInv'
  BY <1>1, <1>3, <1>4 DEF TeardownInv, DisposeInv, ReadInv, TypeOK, TypeDrain
<1> QED
  BY <1>5, <1>6, <1>7, <1>8 DEF TeardownInv

LEMMA ReadTeardown ==
  ASSUME ReadInv, ReadInv', TeardownInv, [ReadNext]_allVars
  PROVE  TeardownInv'
<1>1. CASE [Next]_vars
  BY <1>1, StepTeardown DEF ReadInv
<1>2. ASSUME NEW r \in Runs, ScriptWrites(r) \/ Artifacts(r)
      PROVE  [Next]_vars
  BY <1>2 DEF ScriptWrites, Artifacts
<1>3. ASSUME NEW r \in Runs, ArtifactsSettle(r)
      PROVE  TeardownInv'
  BY <1>3, ReadSettlesTeardown
<1> QED
  BY <1>1, <1>2, <1>3 DEF ReadNext, allVars
-----------------------------------------------------------------------------
(* A step of the supervisor in which nothing fails keeps every run sound. *)

SameRun(q) ==
  /\ start'[q] = start[q] /\ startRev'[q] = startRev[q]
  /\ gen'[q] = gen[q] /\ cur'[q] = cur[q] /\ job'[q] = job[q]
  /\ head'[q] = head[q] /\ row'[q] = row[q]
  /\ failure'[q] = failure[q] /\ delivery'[q] = delivery[q]

LEMMA SameIsSound ==
  ASSUME NEW q \in Runs, SameRun(q), Sound(q)
  PROVE  Sound(q)'
<1>1. CASE Terminal(q)
  BY <1>1 DEF SameRun, Sound, Terminal
<1>2. CASE Fresh(q) /\ Held(q)
  <2>1. Fresh(q)'
    BY <1>2 DEF SameRun, Fresh
  <2>2. Held(q)'
    BY <1>2 DEF SameRun, Held, Carries, Durable
  <2> QED
    BY <2>1, <2>2 DEF Sound
<1> QED
  BY <1>1, <1>2 DEF Sound

(* What the queue of r does next, of a run that has not settled. *)
Goes(r) ==
  \/ job'[r] = Idle
  \/ /\ job'[r].pc = "commit" /\ job'[r].rev = row'[r].rev
     /\ Carries(r)'
  \/ job'[r].pc = "quiesce" /\ job'[r].op \in {"pause", "stop", "replace"} /\ cur'[r] = job'[r].g
  \/ job'[r].pc = "drain"
  \/ job'[r].pc = "claim" /\ job'[r].rev = row'[r].rev

LEMMA GoesIsSound ==
  ASSUME NEW r \in Runs, Fresh(r), Held(r), Goes(r), UNCHANGED <<start, startRev, durableVars>>,
         start[r] \in Failing => gen'[r] = 0 /\ job'[r].pc \in {"idle", "drain", "claim"},
         start[r] \notin Unpublished \cup Failing /\ cur'[r] = 0 /\ job'[r] = Idle => head[r].status \in Parked
  PROVE  Sound(r)'
<1>1. UNCHANGED <<head, row, failure, delivery>>
  BY DEF durableVars
<1>2. Idle.pc = "idle"
  BY DEF Idle
<1>3. Fresh(r)'
  BY <1>1, <1>2 DEF Fresh, Goes
<1>4. Held(r)'
  <2>1. job'[r].pc # "rollback"
    BY <1>2 DEF Goes
  <2>2. job'[r].pc = "quiesce" => job'[r].op \in {"pause", "stop", "replace"} /\ cur'[r] = job'[r].g
    BY <1>2 DEF Goes
  <2>3. job'[r].pc = "commit" => Carries(r)'
    BY <1>2 DEF Goes
  <2>4. job'[r].pc = "idle" => job'[r] = Idle
    BY DEF Goes
  <2> QED
    BY <1>1, <2>1, <2>2, <2>3, <2>4 DEF Held, Durable
<1> QED
  BY <1>3, <1>4 DEF Sound

(* A run whose next operation starts. *)
Standing(r) ==
  /\ start[r] \notin Failing /\ cur[r] = 0 => head[r].status \in Parked
  /\ start[r] \in Failing => gen[r] = 0 /\ cur[r] = 0 /\ head[r].status = "running"

LEMMA NextStands ==
  ASSUME TypeOK, AttemptInv, RowInv, AbsentInv, NEW r \in Runs, Held(r), NEW op, Ready(r, op)
  PROVE  Standing(r)
<1>1. job[r].pc = "idle" /\ queue[r] # <<>> /\ Durable(r)
  BY DurableJob DEF Ready
<1>2. start[r] \notin Unpublished
  BY <1>1 DEF AttemptInv, LaunchInv, Early, Unpublished
<1>3. gen[r] = 0 => cur[r] = 0
  BY DEF AttemptInv, GenerationInv
<1> QED
  BY <1>1, <1>2, <1>3 DEF Held, Standing

(* The shapes an operation has when it starts, with the attempt unchanged. *)
LEMMA StartsSound ==
  ASSUME TypeOK, NEW r \in Runs, Fresh(r), Held(r), Standing(r), ~Terminal(r),
         UNCHANGED <<start, startRev, durableVars, gen, cur>>,
         \/ Done(r)
         \/ \E op, to, g : Terminalize(r, op, to, g)
         \/ \E op, to, g, id : /\ Commit(r, op, to, g, id)
                               /\ cur[r] # 0 /\ cur[r] = g
                               /\ \/ op \in {"pause", "stop", "replace"} /\ to \in {"pausing", "stopping"}
                                  \/ op \in {"unpark", "gate", "event", "resume"}
  PROVE  Sound(r)'
<1>1. UNCHANGED <<head, row>> /\ head[r].rev = row[r].rev
  BY DEF durableVars, Fresh
<1>2. CASE Done(r)
  <2>1. job'[r] = Idle /\ Idle.pc = "idle"
    BY <1>2, DoneGoesOn DEF Idle
  <2> QED
    BY <2>1, GoesIsSound DEF Goes, Standing
<1>3. CASE \E op, to, g : Terminalize(r, op, to, g)
  <2>1. job'[r].pc = "drain"
    BY <1>3, TerminalizeGoesOn
  <2>2. Idle.pc = "idle"
    BY DEF Idle
  <2> QED
    BY <2>1, <2>2, GoesIsSound DEF Goes, Standing
<1>4. ASSUME NEW op, NEW to, NEW g, NEW id, Commit(r, op, to, g, id), cur[r] # 0, cur[r] = g,
             \/ op \in {"pause", "stop", "replace"} /\ to \in {"pausing", "stopping"}
             \/ op \in {"unpark", "gate", "event", "resume"}
      PROVE  Sound(r)'
  <2>1. job'[r].op = op /\ job'[r].pc = "commit" /\ job'[r].to = to /\ job'[r].g = g /\ job'[r].rev = head[r].rev
    BY <1>4, CommitGoesOn
  <2>2. Carries(r)'
    BY <1>4, <2>1 DEF Carries
  <2>3. Goes(r)
    BY <1>1, <2>1, <2>2 DEF Goes
  <2>4. cur'[r] # 0 /\ start[r] \notin Failing
    BY <1>4 DEF Standing
  <2> QED
    BY <2>3, <2>4, GoesIsSound
<1> QED
  BY <1>2, <1>3, <1>4

LEMMA ReattachSound ==
  ASSUME TypeOK, NEW r \in Runs, Fresh(r), Held(r), ~Terminal(r), UNCHANGED <<start, startRev, durableVars>>,
         start[r] \notin Failing, head[r].status \in Parked,
         NEW old, Reattach(r, head[r].rev, old)
  PROVE  Sound(r)'
<1>1. UNCHANGED <<head, row>> /\ head[r].rev = row[r].rev
  BY DEF durableVars, Fresh
<1>2. CASE Done(r) /\ UNCHANGED attemptVars
  <2>1. job'[r] = Idle
    BY <1>2, DoneGoesOn
  <2> QED
    BY <2>1, GoesIsSound DEF Goes
<1>3. CASE /\ NewAttempt(r)
           /\ Suspend(r, [op |-> "resume", pc |-> "commit", to |-> "running", rev |-> head[r].rev,
                          g |-> gen[r] + 1, id |-> 0, old |-> old])
  <2>1. job'[r] = [op |-> "resume", pc |-> "commit", to |-> "running", rev |-> head[r].rev,
                   g |-> gen[r] + 1, id |-> 0, old |-> old]
    BY <1>3, SuspendGoesOn
  <2>2. cur'[r] = gen[r] + 1 /\ gen[r] \in Nat
    BY <1>3 DEF NewAttempt, TypeOK, TypeAttempts
  <2>3. Carries(r)'
    BY <2>1, <2>2 DEF Carries
  <2>4. Goes(r)
    BY <1>1, <2>1, <2>3 DEF Goes
  <2>5. cur'[r] # 0
    BY <2>2
  <2> QED
    BY <2>4, <2>5, GoesIsSound
<1> QED
  BY <1>2, <1>3 DEF Reattach

LEMMA BeginSound ==
  ASSUME TypeOK, AttemptInv, RowInv, AbsentInv, NEW r \in Runs, Fresh(r), Held(r), ~Terminal(r), faults' = 0,
         \/ BeginPause(r) \/ BeginStop(r) \/ BeginResume(r, "resume") \/ BeginResume(r, "raise")
         \/ BeginAnswer(r) \/ BeginGate(r) \/ BeginEvent(r) \/ BeginTerminal(r)
  PROVE  Sound(r)'
<1>1. CASE BeginPause(r) \/ BeginStop(r)
  <2>1. Standing(r)
    BY <1>1, NextStands DEF BeginPause, BeginStop
  <2>2. UNCHANGED <<start, startRev, durableVars, gen, cur>>
    BY <1>1 DEF BeginPause, BeginStop, launchVars
  <2> QED
    BY <1>1, <2>1, <2>2, StartsSound DEF BeginPause, BeginStop
<1>2. CASE BeginAnswer(r)
  <2>1. Standing(r)
    BY <1>2, NextStands DEF BeginAnswer
  <2>2. UNCHANGED <<start, startRev, durableVars, gen, cur>>
    BY <1>2 DEF BeginAnswer, launchVars
  <2>3. Done(r) \/ (Acknowledge(r) /\ cur[r] # 0)
    BY <1>2 DEF BeginAnswer, Fenced
  <2> QED
    BY <2>1, <2>2, <2>3, StartsSound DEF Acknowledge
<1>3. ASSUME NEW op \in {"resume", "raise"}, BeginResume(r, op)
      PROVE  Sound(r)'
  <2>1. Standing(r)
    BY <1>3, NextStands DEF BeginResume
  <2>2. UNCHANGED <<start, startRev, durableVars>>
    BY <1>3 DEF BeginResume, launchVars
  <2>3. CASE Done(r) /\ UNCHANGED attemptVars
    BY <2>1, <2>2, <2>3, StartsSound DEF attemptVars
  <2>4. CASE Acknowledge(r) /\ cur[r] # 0 /\ UNCHANGED <<gen, cur>>
    BY <2>1, <2>2, <2>4, StartsSound DEF Acknowledge
  <2>5. CASE head[r].status \in Resumable(r, op) /\ Reattach(r, head[r].rev, head[r].status)
    <3>1. head[r].status \in Parked /\ start[r] \notin Failing
      BY <2>1, <2>5 DEF Resumable, Parked, Standing
    <3> QED
      BY <2>2, <2>5, <3>1, ReattachSound
  <2> QED
    BY <1>3, <2>3, <2>4, <2>5 DEF BeginResume
<1>4. CASE BeginGate(r) \/ BeginEvent(r)
  <2> DEFINE g == Head(queue[r]).g
  <2>1. Standing(r)
    BY <1>4, NextStands DEF BeginGate, BeginEvent
  <2>2. UNCHANGED <<start, startRev, durableVars, gen, cur>>
    BY <1>4 DEF BeginGate, BeginEvent, launchVars, attemptVars
  <2>3. g # 0
    <3>1. queue[r] \in Seq(OpRecord) /\ queue[r] # <<>> /\ Head(queue[r]).op \in {"gate", "event"}
      BY <1>4 DEF BeginGate, BeginEvent, Ready, TypeOK, TypeQueue
    <3>2. 1 \in 1 .. Len(queue[r]) /\ queue[r][1] = Head(queue[r])
      BY <3>1
    <3> QED
      BY <3>1, <3>2 DEF AttemptInv, QueueInv
  <2>4. \/ Done(r)
        \/ cur[r] = g /\ Commit(r, "gate", "needs-input", g, Head(queue[r]).id)
        \/ cur[r] = g /\ Commit(r, "event", head[r].status, g, 0)
    BY <1>4 DEF BeginGate, BeginEvent, Current
  <2> HIDE DEF g
  <2> QED
    BY <2>1, <2>2, <2>3, <2>4, StartsSound
<1>5. CASE BeginTerminal(r)
  <2>1. Standing(r)
    BY <1>5, NextStands DEF BeginTerminal
  <2>2. UNCHANGED <<start, startRev, durableVars, gen, cur>>
    BY <1>5 DEF BeginTerminal, launchVars, attemptVars
  <2> QED
    BY <1>5, <2>1, <2>2, StartsSound DEF BeginTerminal
<1> QED
  BY <1>1, <1>2, <1>3, <1>4, <1>5

LEMMA SettledParksOrEnds ==
  ASSUME NEW out, NEW intent
  PROVE  SettledAs(out, intent) \in TERMINAL \/ SettledAs(out, intent) \in Parked
<1> DEFINE to == SettledAs(out, intent)
<1>1. to \in {"failed", "paused", "cancelled", "interrupted", "budget-limited", "completed"}
  BY DEF SettledAs
<1> HIDE DEF to
<1>2. to \in TERMINAL \/ to \in Parked
  BY <1>1 DEF TERMINAL, Parked
<1> QED
  BY <1>2 DEF to

LEMMA SettleSound ==
  ASSUME TypeOK, AttemptInv, RowInv, AbsentInv, NEW r \in Runs, Fresh(r), Held(r), ~Terminal(r), BeginSettle(r)
  PROVE  Sound(r)'
<1> DEFINE g  == Head(queue[r]).g
           to == SettledAs(engine[r][g].out, engine[r][g].intent)
<1>1. Standing(r) /\ UNCHANGED <<start, startRev, durableVars, gen>>
  BY NextStands DEF BeginSettle, launchVars
<1>2. CASE Done(r) /\ UNCHANGED cur
  BY <1>1, <1>2, StartsSound
<1>3. CASE /\ cur[r] = g /\ cur' = [cur EXCEPT ![r] = 0]
           /\ IF to \in TERMINAL THEN Terminalize(r, "settle", to, g) ELSE Commit(r, "settle", to, g, 0)
  <2>1. queue[r] \in Seq(OpRecord) /\ queue[r] # <<>> /\ Head(queue[r]).op = "settle"
    BY DEF BeginSettle, Ready, TypeOK, TypeQueue
  <2>2. g # 0
    <3>1. 1 \in 1 .. Len(queue[r]) /\ queue[r][1] = Head(queue[r])
      BY <2>1
    <3> QED
      BY <2>1, <3>1 DEF AttemptInv, QueueInv
  <2>3. start[r] \notin Failing
    BY <1>1, <1>3, <2>2 DEF Standing
  <2>4. to \in TERMINAL \/ to \in Parked
    BY SettledParksOrEnds
  <2> HIDE DEF to, g
  <2>5. job'[r].pc = "drain" \/ (/\ job'[r].pc = "commit" /\ job'[r].op = "settle" /\ job'[r].to = to
                                 /\ to \in Parked /\ job'[r].rev = head[r].rev)
    BY <1>3, <2>4, TerminalizeGoesOn, CommitGoesOn
  <2>6. Goes(r)
    BY <1>1, <2>5 DEF Goes, Carries, Fresh, durableVars
  <2>7. job'[r] # Idle
    BY <2>5 DEF Idle
  <2> QED
    BY <1>1, <2>3, <2>6, <2>7, GoesIsSound
<1> QED
  BY <1>2, <1>3 DEF BeginSettle, Current

LEMMA QuiescedSound ==
  ASSUME TypeOK, AttemptInv, NEW r \in Runs, Fresh(r), Held(r), ~Terminal(r), AttemptQuiesced(r)
  PROVE  Sound(r)'
<1> DEFINE j == job[r]
<1>1. /\ j.pc = "quiesce" /\ j.op \in {"pause", "stop", "replace"} /\ cur[r] = j.g /\ j.g # 0
      /\ start[r] \notin Failing
  BY DEF AttemptQuiesced, Held, AttemptInv, DroppedInv
<1>2. UNCHANGED <<start, startRev, durableVars, gen>>
  BY DEF AttemptQuiesced, launchVars
<1>3. CASE Done(r) /\ UNCHANGED cur
  <2>1. job'[r] = Idle /\ cur'[r] # 0
    BY <1>1, <1>3, DoneGoesOn
  <2> QED
    BY <1>1, <1>2, <2>1, GoesIsSound DEF Goes
<1>4. CASE \/ \E to : Terminalize(r, j.op, to, 0) \/ Terminalize(r, "stop", to, 0)
           \/ j.op # "stop" /\ Commit(r, j.op, "paused", 0, 0)
  <2>1. job'[r].pc = "drain" \/ (/\ job'[r].pc = "commit" /\ job'[r].op = j.op /\ job'[r].to = "paused"
                                 /\ j.op # "stop" /\ job'[r].rev = head[r].rev)
    BY <1>4, TerminalizeGoesOn, CommitGoesOn
  <2>2. Goes(r)
    BY <1>1, <1>2, <2>1 DEF Goes, Carries, Fresh, durableVars
  <2>3. job'[r] # Idle
    BY <2>1 DEF Idle
  <2> QED
    BY <1>1, <1>2, <2>2, <2>3, GoesIsSound
<1> QED
  BY <1>1, <1>3, <1>4 DEF AttemptQuiesced, Current

LEMMA DrainedSound ==
  ASSUME TypeOK, NEW r \in Runs, Fresh(r), Held(r), ~Terminal(r), Drained(r)
  PROVE  Sound(r)'
<1>1. UNCHANGED <<start, startRev, durableVars, gen, cur>>
  BY DEF Drained, launchVars, attemptVars
<1> DEFINE step == [job[r] EXCEPT !.pc = "claim", !.rev = head[r].rev]
<1>2. step.pc = "claim" /\ step.rev = head[r].rev
  BY DEF TypeOK, TypeJob, JobRecord
<1>3. Suspend(r, step)
  BY DEF Drained
<1> HIDE DEF step
<1>4. job'[r].pc = "claim" /\ job'[r].rev = head[r].rev
  BY <1>2, <1>3, SuspendGoesOn
<1>5. Goes(r) /\ job'[r] # Idle
  BY <1>1, <1>4 DEF Goes, Fresh, durableVars, Idle
<1>6. start[r] \in Failing => gen[r] = 0
  BY DEF Held
<1> QED
  BY <1>1, <1>4, <1>5, <1>6, GoesIsSound

(* A terminal commit at the row's revision in which nothing fails settles. *)
LEMMA ClaimSettles ==
  ASSUME TypeOK, NEW r \in Runs, NEW rev, NEW to \in TERMINAL, TerminalSettles(r, rev, to),
         rev = row[r].rev, faults' = 0
  PROVE  Terminal(r)'
<1>1. PICK res \in Results(r, rev) :
        /\ Write(r, res, to, "claimed")
        /\ \/ res = "ok" /\ head' = [head EXCEPT ![r] = [status |-> to, rev |-> rev + 1]]
           \/ res # "ok"
  BY DEF TerminalSettles
<1>2. faults \in Nat /\ faults + 1 # 0
  BY DEF TypeOK, TypeBounds
<1>3. res = "ok"
  BY <1>1, <1>2 DEF Results, Write, Blame
<1> QED
  BY <1>1, <1>3 DEF Terminal, TypeOK, TypeDurable

LEMMA SettledSound ==
  ASSUME TypeOK, AttemptInv, NEW r \in Runs, Fresh(r), TerminalSettled(r), faults' = 0
  PROVE  Sound(r)'
<1>1. job[r].rev = row[r].rev /\ job[r].to \in TERMINAL
  BY DEF TerminalSettled, Fresh, AttemptInv, ParkedInv
<1> QED
  BY <1>1, ClaimSettles DEF TerminalSettled, Sound

(* The continuation of a commit that succeeded. *)
LEMMA CommittedSound ==
  ASSUME TypeOK, AttemptInv, NEW r \in Runs, Held(r), job[r].pc = "commit", Committed(r), faults' = 0,
         UNCHANGED <<start, startRev>>, ~failure'[r], ~delivery'[r],
         head'[r] = [status |-> job[r].to, rev |-> job[r].rev + 1], row'[r].rev = job[r].rev + 1
  PROVE  Sound(r)'
<1> DEFINE j == job[r]
<1>1. Carries(r) /\ start[r] \notin Failing
  BY DEF Held
<1>2. faults \in Nat /\ faults + 1 # 0 /\ job[r] \in JobRecord
  BY JobFields DEF TypeOK, TypeBounds
<1>3. \/ job'[r].pc \in {"idle", "quiesce", "commit"} /\ cur'[r] # 0
         /\ (job'[r].pc = "quiesce" => job'[r].op \in {"pause", "stop", "replace"} /\ cur'[r] = job'[r].g)
         /\ (job'[r].pc = "commit" => job'[r].rev = row'[r].rev /\ Carries(r)')
      \/ job'[r].pc = "idle" /\ j.to \in Parked
  <2>1. CASE /\ j.to \in {"pausing", "stopping"} /\ j.op \in {"pause", "stop", "replace"}
             /\ Suspend(r, [j EXCEPT !.pc = "quiesce"]) /\ UNCHANGED cur
    <3>1. [j EXCEPT !.pc = "quiesce"].pc = "quiesce" /\ [j EXCEPT !.pc = "quiesce"].op = j.op /\ [j EXCEPT !.pc = "quiesce"].g = j.g
      BY <1>2 DEF JobRecord
    <3>2. cur[r] = j.g /\ j.g # 0
      BY <1>1, <2>1 DEF Carries, AttemptInv, DroppedInv, Parked
    <3> HIDE DEF j
    <3>3. job'[r] = [j EXCEPT !.pc = "quiesce"]
      BY <2>1, <3>1, SuspendGoesOn
    <3> QED
      BY <2>1, <3>1, <3>2, <3>3
  <2>2. CASE Done(r) /\ UNCHANGED cur /\ j.op \in {"unpark", "gate", "event", "resume"}
    <3>1. cur[r] # 0 /\ job'[r] = Idle /\ Idle.pc = "idle"
      BY <1>1, <2>2, DoneGoesOn DEF Carries, Idle
    <3> QED
      BY <2>2, <3>1
  <2>3. CASE j.op = "replace" /\ j.to = "paused" /\ Reattach(r, j.rev + 1, "paused")
    <3>1. CASE Done(r)
      BY <2>3, <3>1, DoneGoesOn DEF Parked, Idle
    <3>2. CASE /\ NewAttempt(r)
               /\ Suspend(r, [op |-> "resume", pc |-> "commit", to |-> "running", rev |-> j.rev + 1,
                              g |-> gen[r] + 1, id |-> 0, old |-> "paused"])
      <4>1. job'[r] = [op |-> "resume", pc |-> "commit", to |-> "running", rev |-> j.rev + 1,
                       g |-> gen[r] + 1, id |-> 0, old |-> "paused"]
        BY <3>2, SuspendGoesOn
      <4>2. cur'[r] = gen[r] + 1 /\ gen[r] \in Nat
        BY <3>2 DEF NewAttempt, TypeOK, TypeAttempts
      <4>3. cur'[r] # 0
        BY <4>2
      <4> QED
        BY <4>1, <4>2, <4>3 DEF Carries
    <3> QED
      BY <2>3, <3>1, <3>2 DEF Reattach
  <2>4. CASE Done(r) /\ (j.op \in {"settle", "restore"} \/ (j.op = "pause" /\ j.to = "paused"))
    <3>1. j.to \in Parked /\ job'[r] = Idle /\ Idle.pc = "idle"
      BY <1>1, <2>4, DoneGoesOn DEF Carries, Parked, Idle
    <3> QED
      BY <3>1
  <2> QED
    BY <1>2, <2>1, <2>2, <2>3, <2>4 DEF Committed, Blame, attemptVars
<1>4. Fresh(r)'
  BY <1>1, <1>3 DEF Fresh, Failing
<1>5. Held(r)'
  BY <1>1, <1>3 DEF Held
<1> QED
  BY <1>4, <1>5 DEF Sound

LEMMA CommitSound ==
  ASSUME TypeOK, AttemptInv, NEW r \in Runs, Fresh(r), Held(r), ~Terminal(r), CommitSettles(r), faults' = 0
  PROVE  Sound(r)'
<1>1. job[r].pc = "commit" /\ job[r].rev = row[r].rev /\ UNCHANGED <<start, startRev, delivery>>
  BY DEF CommitSettles, Fresh, launchVars
<1>2. faults \in Nat /\ faults + 1 # 0
  BY DEF TypeOK, TypeBounds
<1>3. ASSUME NEW res \in Results(r, job[r].rev) \ {"ok"}, Write(r, res, job[r].to, row[r].notice)
      PROVE  FALSE
  BY <1>1, <1>2, <1>3 DEF Results, Write, Blame
<1>4. /\ Committed(r) /\ UNCHANGED failure
      /\ row'  = [row  EXCEPT ![r].status = job[r].to, ![r].rev = job[r].rev + 1]
      /\ head' = [head EXCEPT ![r] = [status |-> job[r].to, rev |-> job[r].rev + 1]]
  BY <1>3 DEF CommitSettles
<1>5. head'[r] = [status |-> job[r].to, rev |-> job[r].rev + 1] /\ row'[r].rev = job[r].rev + 1
  BY <1>4 DEF TypeOK, TypeDurable
<1>6. ~failure'[r] /\ ~delivery'[r]
  BY <1>1, <1>4 DEF Fresh
<1> QED
  BY <1>1, <1>4, <1>5, <1>6, CommittedSound

LEMMA QueueSound ==
  ASSUME TypeOK, TypeOK', AttemptInv, TeardownInv, NEW r \in Runs, QueueStep(r), faults' = 0, Sound(r)
  PROVE  Sound(r)'
<1>1. CASE Terminal(r)
  BY <1>1, QueueAdvances DEF TeardownInv, Advances, Steady, Sound
<1>2. CASE ~Terminal(r)
  <2>1. Fresh(r) /\ Held(r) /\ RowInv /\ AbsentInv
    BY <1>2 DEF Sound, TeardownInv
  <2>2. ~RollbackQuiesced(r)
    BY <2>1 DEF Held, RollbackQuiesced
  <2> QED
    BY <1>2, <2>1, <2>2, BeginSound, SettleSound, QuiescedSound, DrainedSound, SettledSound, CommitSound DEF QueueStep
<1> QED
  BY <1>1, <1>2

LEMMA QueueAside ==
  ASSUME TypeOK, AttemptInv, TeardownInv, NEW r \in Runs, QueueStep(r), NEW q \in Runs \ {r}
  PROVE  SameRun(q)
<1>1. Advances(r)
  BY QueueAdvances DEF TeardownInv
<1>2. Renews(r)
  BY BeginRenews, ContinueRenews DEF QueueStep
<1>3. gen'[q] = gen[q]
  BY <1>2 DEF Renews
<1>4. UNCHANGED startRev
  <2>1. CASE BeginPause(r) \/ BeginStop(r) \/ BeginResume(r, "resume") \/ BeginResume(r, "raise")
             \/ BeginAnswer(r) \/ BeginGate(r) \/ BeginEvent(r) \/ BeginSettle(r) \/ BeginTerminal(r)
    BY <2>1 DEF BeginPause, BeginStop, BeginResume, BeginAnswer, BeginGate, BeginEvent, BeginSettle,
                BeginTerminal, launchVars
  <2>2. CASE AttemptQuiesced(r) \/ CommitSettles(r) \/ RollbackQuiesced(r) \/ Drained(r) \/ TerminalSettled(r)
    BY <2>2 DEF AttemptQuiesced, CommitSettles, RollbackQuiesced, Drained, TerminalSettled, launchVars
  <2> QED
    BY <2>1, <2>2 DEF QueueStep
<1> QED
  BY <1>1, <1>3, <1>4 DEF Advances, Onward, GoesOn, Aside, SameRun

LEMMA LaunchSound ==
  ASSUME TypeOK, AttemptInv, TeardownInv, NEW r \in Runs, LaunchStep(r) \/ Reserve(r), faults' = 0, Sound(r)
  PROVE  Sound(r)'
<1> USE DEF TypeOK
<1>a. faults \in Nat /\ faults + 1 # 0
  BY DEF TypeBounds
<1>b. start[r] \notin {"idle", "insert", "done"} => Durable(r)
  BY DEF TeardownInv, AbsentInv
<1>c. start[r] \in Early => /\ gen[r] = 0 /\ job[r].pc = "idle" /\ ~Terminal(r)
  BY DEF AttemptInv, LaunchInv, Terminal, TERMINAL
<1>d. Durable(r) /\ start[r] \in Early => head[r].status = "running"
  BY DEF AttemptInv, LaunchInv, TeardownInv, RowInv
<1>1. CASE Reserve(r) \/ InsertRejected(r)
  <2>1. /\ start'[r] \in {"insert", "done"} /\ start[r] \in {"idle", "insert"}
        /\ UNCHANGED <<startRev, row, head, failure, delivery, gen, cur, job>>
    BY <1>1 DEF Reserve, InsertRejected, durableVars, attemptVars, queueVars, TypeLaunch
  <2>2. ~Durable(r)
    BY <2>1 DEF AttemptInv, LaunchInv, Durable
  <2>3. Fresh(r) /\ Held(r)
    BY <1>c, <2>1 DEF Sound, Early
  <2>4. Fresh(r)' /\ Held(r)'
    BY <2>1, <2>2, <2>3 DEF Fresh, Held, Carries, Durable, Failing, Unpublished
  <2> QED
    BY <2>4 DEF Sound
<1>2. CASE InsertDurable(r)
  <2>1. /\ start'[r] = "durable" /\ start[r] = "insert"
        /\ row'[r].rev = 1 /\ head'[r] = [status |-> "running", rev |-> 1]
        /\ UNCHANGED <<failure, delivery, gen, cur, job>>
    BY <1>2 DEF InsertDurable, attemptVars, queueVars, TypeLaunch, TypeDurable
  <2>2. Fresh(r) /\ Held(r) /\ job[r].pc = "idle"
    BY <1>c, <2>1 DEF Sound, Early
  <2>3. Fresh(r)' /\ Held(r)'
    BY <2>1, <2>2 DEF Fresh, Held, Failing, Unpublished
  <2> QED
    BY <2>3 DEF Sound
<1>3. CASE Inserted(r) \/ ScratchOpened(r)
  <2>1. /\ start[r] \in {"durable", "scratch"} /\ UNCHANGED <<startRev, row, head, failure, delivery, job>>
        /\ \/ start'[r] = "scratch" /\ UNCHANGED <<gen, cur>>
           \/ start'[r] = "drain" /\ UNCHANGED <<gen, cur>>
           \/ start'[r] = "publish" /\ NewAttempt(r)
    BY <1>3 DEF Inserted, ScratchOpened, LaunchFails, durableVars, attemptVars, queueVars, TypeLaunch
  <2>2. NewAttempt(r) => cur'[r] # 0
    <3>1. NewAttempt(r) => cur'[r] = gen[r] + 1
      BY DEF NewAttempt, TypeAttempts
    <3>2. gen[r] + 1 # 0
      BY DEF TypeAttempts
    <3> QED
      BY <3>1, <3>2
  <2>3. Fresh(r) /\ Held(r) /\ job[r].pc = "idle" /\ gen[r] = 0 /\ head[r].status = "running"
    BY <1>b, <1>c, <1>d, <2>1 DEF Sound, Early
  <2>4. Fresh(r)'
    BY <2>1, <2>3 DEF Fresh
  <2>5. Held(r)'
    BY <2>1, <2>2, <2>3 DEF Held, Failing, Unpublished
  <2> QED
    BY <2>4, <2>5 DEF Sound
<1>4. CASE ReleaseStart(r) \/ UnreleasedQuiesced(r) \/ LaunchFailureSettled(r)
  <2>1. /\ start[r] \in {"publish", "unreleased", "failQueued"}
        /\ start'[r] \in {"unreleased", "failQueued", "done"}
        /\ UNCHANGED <<startRev, row, head, failure, delivery, gen, cur, job>>
    BY <1>4 DEF ReleaseStart, UnreleasedQuiesced, LaunchFailureSettled, durableVars, attemptVars, queueVars, TypeLaunch
  <2>2. CASE Terminal(r)
    BY <2>1, <2>2 DEF Sound, Terminal
  <2>3. CASE Fresh(r) /\ Held(r)
    <3>1. Fresh(r)' /\ Held(r)'
      BY <2>1, <2>3 DEF Fresh, Held, Carries, Durable, Failing, Unpublished
    <3> QED
      BY <3>1 DEF Sound
  <2> QED
    BY <2>2, <2>3 DEF Sound
<1>5. CASE LaunchDrained(r)
  <2>1. /\ start[r] = "drain" /\ start'[r] = "claim" /\ startRev'[r] = head[r].rev
        /\ UNCHANGED <<row, head, failure, delivery, gen, cur, job>>
    BY <1>5 DEF LaunchDrained, durableVars, attemptVars, queueVars, TypeLaunch
  <2>2. CASE Terminal(r)
    BY <2>1, <2>2 DEF Sound, Terminal
  <2>3. CASE Fresh(r) /\ Held(r)
    <3>1. Fresh(r)' /\ Held(r)'
      BY <2>1, <2>3 DEF Fresh, Held, Carries, Durable, Failing, Unpublished
    <3> QED
      BY <3>1 DEF Sound
  <2> QED
    BY <2>2, <2>3 DEF Sound
<1>6. CASE LaunchSettled(r)
  <2>1. start[r] = "claim" /\ TerminalSettles(r, startRev[r], "failed") /\ "failed" \in TERMINAL
    BY <1>6 DEF LaunchSettled, TERMINAL
  <2>2. CASE Terminal(r)
    <3>1. head[r].status # "absent" /\ UNCHANGED job
      BY <2>2, <1>6 DEF LaunchSettled, Terminal, TERMINAL, queueVars
    <3>2. Steady(r)
      BY <2>1, <3>1, TerminalizeReports DEF TeardownInv
    <3> QED
      BY <2>2, <3>2 DEF Steady, Sound
  <2>3. CASE Fresh(r)
    BY <2>1, <2>3, ClaimSettles DEF Fresh, Sound
  <2> QED
    BY <2>2, <2>3 DEF Sound
<1> QED
  BY <1>1, <1>2, <1>3, <1>4, <1>5, <1>6 DEF LaunchStep

LEMMA LaunchAside ==
  ASSUME TypeOK, TeardownInv, NEW r \in Runs, LaunchStep(r) \/ Reserve(r), NEW q \in Runs \ {r}
  PROVE  SameRun(q)
<1> USE DEF TypeOK
<1>1. LaunchMoves(r)
  BY LaunchChanges DEF TeardownInv
<1>2. startRev'[q] = startRev[q]
  BY DEF LaunchStep, Reserve, InsertRejected, InsertDurable, Inserted, ScratchOpened, ReleaseStart,
         UnreleasedQuiesced, LaunchFailureSettled, LaunchDrained, LaunchSettled, TypeLaunch
<1>3. cur'[q] = cur[q]
  BY <1>1 DEF LaunchMoves, NewAttempt, TypeAttempts
<1>4. failure'[q] = failure[q]
  <2>1. CASE LaunchSettled(r)
    BY <2>1 DEF LaunchSettled, TerminalSettles, TypeDurable
  <2>2. CASE ~LaunchSettled(r)
    BY <2>2 DEF LaunchStep, Reserve, InsertRejected, InsertDurable, Inserted, ScratchOpened, ReleaseStart,
           UnreleasedQuiesced, LaunchFailureSettled, LaunchDrained, durableVars
  <2> QED
    BY <2>1, <2>2
<1>5. UNCHANGED job /\ start'[q] = start[q] /\ row'[q] = row[q] /\ head'[q] = head[q]
      /\ delivery'[q] = delivery[q] /\ gen'[q] = gen[q]
  BY <1>1 DEF LaunchMoves
<1> QED
  BY <1>2, <1>3, <1>4, <1>5 DEF SameRun

LEMMA NoticeSound ==
  ASSUME TypeOK, TeardownInv, NEW r \in Runs, NoticeSettles(r), NEW q \in Runs, Sound(q)
  PROVE  Sound(q)'
<1> USE DEF TypeOK, TypeDurable
<1>1. /\ UNCHANGED <<start, startRev, failure, gen, cur, job>> /\ delivery[r]
      /\ delivery' = [delivery EXCEPT ![r] = FALSE]
      /\ \/ row' = [row EXCEPT ![r].rev = @ + 1, ![r].notice = "final"]
         \/ row' = row
      /\ \/ head' = head
         \/ head' = [head EXCEPT ![r] = [status |-> row'[r].status, rev |-> row'[r].rev]]
  BY DEF NoticeSettles, launchVars, attemptVars, queueVars
<1>2. CASE q = r
  <2>1. Terminal(r) /\ row[r].status \in TERMINAL
    BY <1>1, <1>2 DEF Sound, Fresh, TeardownInv, RowInv
  <2>2. row'[r].status = row[r].status
    BY <1>1
  <2>3. Terminal(r)'
    BY <1>1, <2>1, <2>2 DEF Terminal
  <2> QED
    BY <1>2, <2>3 DEF Sound
<1>3. CASE q # r
  <2>1. SameRun(q)
    BY <1>1, <1>3 DEF SameRun
  <2> QED
    BY <2>1, SameIsSound
<1> QED
  BY <1>2, <1>3

LEMMA OthersSame ==
  ASSUME \/ UNCHANGED vars
         \/ \E r \in Runs : \/ Ask(r) \/ EngineEvent(r) \/ EngineGate(r)
                            \/ \E g \in Gens : EngineQuiesces(r, g)
         \/ \E a \in Agents : OwnerDisposed(a) \/ OwnerStep(a)
         \/ Dispose \/ DisposeStep
  PROVE  \A q \in Runs : SameRun(q)
<1>1. UNCHANGED <<start, startRev, gen, cur, job, head, row, failure, delivery>>
  <2>1. CASE UNCHANGED vars
    BY <2>1 DEF vars, launchVars, durableVars, attemptVars, queueVars
  <2>2. ASSUME NEW r \in Runs, Ask(r) \/ EngineEvent(r) \/ EngineGate(r) \/ \E g \in Gens : EngineQuiesces(r, g)
        PROVE  UNCHANGED <<start, startRev, gen, cur, job, head, row, failure, delivery>>
    BY <2>2 DEF Ask, EngineEvent, EngineGate, EngineQuiesces, launchVars, durableVars, attemptVars
  <2>3. ASSUME NEW a \in Agents, OwnerDisposed(a) \/ OwnerStep(a)
        PROVE  UNCHANGED <<start, startRev, gen, cur, job, head, row, failure, delivery>>
    BY <2>3 DEF OwnerDisposed, OwnerStep, OwnerStartsSettled, OwnerNextRun, OwnerAwaitsTail, OwnerRunDrained,
                OwnerQuiesces, launchVars, durableVars, attemptVars, queueVars
  <2>4. CASE Dispose \/ DisposeStep
    BY <2>4 DEF Dispose, DisposeStep, DisposeCancels, DisposeDrains, DisposeRetries, DisposeFinalDrain, Disposed,
                launchVars, durableVars, attemptVars, queueVars
  <2> QED
    BY <2>1, <2>2, <2>3, <2>4
<1> QED
  BY <1>1 DEF SameRun

LEMMA SupervisorSound ==
  ASSUME TypeOK, TypeOK', AttemptInv, TeardownInv, [Next]_vars, faults' = 0, NEW q \in Runs, Sound(q)
  PROVE  Sound(q)'
<1>1. ASSUME NEW r \in Runs, LaunchStep(r) \/ Reserve(r)
      PROVE  Sound(q)'
  BY <1>1, LaunchSound, LaunchAside, SameIsSound
<1>2. ASSUME NEW r \in Runs, QueueStep(r)
      PROVE  Sound(q)'
  BY <1>2, QueueSound, QueueAside, SameIsSound
<1>3. ASSUME NEW r \in Runs, NoticeSettles(r)
      PROVE  Sound(q)'
  BY <1>3, NoticeSound
<1>4. CASE \/ UNCHANGED vars
           \/ \E r \in Runs : \/ Ask(r) \/ EngineEvent(r) \/ EngineGate(r)
                              \/ \E g \in Gens : EngineQuiesces(r, g)
           \/ \E a \in Agents : OwnerDisposed(a) \/ OwnerStep(a)
           \/ Dispose \/ DisposeStep
  BY <1>4, OthersSame, SameIsSound
<1> QED
  BY <1>1, <1>2, <1>3, <1>4 DEF Next

(* No step takes a failure back. *)
LEMMA FaultsStay ==
  ASSUME TypeOK, [Next]_vars, faults' = 0
  PROVE  faults = 0
<1>0. faults \in Nat
  BY DEF TypeOK, TypeBounds
<1>1. faults' \in {faults, faults + 1}
  <2>1. ASSUME NEW r \in Runs, LaunchStep(r) \/ Reserve(r)
        PROVE  faults' \in {faults, faults + 1}
    <3>1. CASE LaunchSettled(r)
      BY <3>1 DEF LaunchSettled, TerminalSettles, Write, Blame
    <3>2. CASE Inserted(r) \/ ScratchOpened(r) \/ ReleaseStart(r)
      BY <3>2 DEF Inserted, ScratchOpened, ReleaseStart, Blame
    <3>3. CASE \/ Reserve(r) \/ InsertRejected(r) \/ InsertDurable(r) \/ UnreleasedQuiesced(r)
               \/ LaunchFailureSettled(r) \/ LaunchDrained(r)
      BY <3>3 DEF Reserve, InsertRejected, InsertDurable, UnreleasedQuiesced, LaunchFailureSettled,
                  LaunchDrained, boundVars
    <3> QED
      BY <2>1, <3>1, <3>2, <3>3 DEF LaunchStep
  <2>2. ASSUME NEW r \in Runs, QueueStep(r)
        PROVE  faults' \in {faults, faults + 1}
    <3>1. CASE BeginPause(r) \/ BeginStop(r) \/ BeginResume(r, "resume") \/ BeginResume(r, "raise")
               \/ BeginAnswer(r) \/ BeginGate(r) \/ BeginSettle(r) \/ BeginTerminal(r)
      BY <3>1 DEF BeginPause, BeginStop, BeginResume, BeginAnswer, BeginGate, BeginSettle, BeginTerminal, boundVars
    <3>2. CASE AttemptQuiesced(r) \/ RollbackQuiesced(r) \/ Drained(r)
      BY <3>2 DEF AttemptQuiesced, RollbackQuiesced, Drained, boundVars
    <3>3. CASE BeginEvent(r)
      BY <3>3 DEF BeginEvent, Blame
    <3>4. CASE TerminalSettled(r)
      BY <3>4 DEF TerminalSettled, TerminalSettles, Write, Blame
    <3>5. CASE CommitSettles(r)
      <4>1. Committed(r) \/ \E res \in Results(r, job[r].rev) \ {"ok"} : Write(r, res, job[r].to, row[r].notice)
        BY <3>5 DEF CommitSettles
      <4>2. Committed(r) => faults' \in {faults, faults + 1}
        BY DEF Committed, Blame
      <4> QED
        BY <4>1, <4>2 DEF Write, Blame
    <3> QED
      BY <2>2, <3>1, <3>2, <3>3, <3>4, <3>5 DEF QueueStep
  <2>3. ASSUME NEW r \in Runs, \/ Ask(r) \/ EngineEvent(r) \/ EngineGate(r) \/ NoticeSettles(r)
                               \/ \E g \in Gens : EngineQuiesces(r, g)
        PROVE  faults' \in {faults, faults + 1}
    BY <2>3 DEF Ask, EngineEvent, EngineGate, EngineQuiesces, NoticeSettles, boundVars, Blame
  <2>4. ASSUME NEW a \in Agents, OwnerDisposed(a) \/ OwnerStep(a)
        PROVE  faults' \in {faults, faults + 1}
    BY <2>4 DEF OwnerDisposed, OwnerStep, OwnerStartsSettled, OwnerNextRun, OwnerAwaitsTail, OwnerRunDrained,
                OwnerQuiesces, boundVars
  <2>5. CASE UNCHANGED vars \/ Dispose \/ DisposeStep
    BY <2>5 DEF vars, Dispose, DisposeStep, DisposeCancels, DisposeDrains, DisposeRetries,
                DisposeFinalDrain, Disposed, boundVars
  <2> QED
    BY <2>1, <2>2, <2>3, <2>4, <2>5 DEF Next
<1>2. faults + 1 # 0
  BY <1>0
<1> QED
  BY <1>1, <1>2


(* The commit of a read is sound beside a run's own unless it took the revision *)
(* that one waits for.                                                          *)
LEMMA ReadSettlesSound ==
  ASSUME ReadInv, NEW r \in Runs, ArtifactsSettle(r), faults' = 0, NEW q \in Runs, q \notin overtaken', Sound(q)
  PROVE  Sound(q)'
<1>1. UNCHANGED <<start, startRev, delivery, failure, gen, cur, job>>
  BY SettleStep DEF launchVars, attemptVars, queueVars
<1>2. row'[q].status = row[q].status /\ head'[q].status = head[q].status
  BY SettleKeepsStatus
<1>3. PICK res \in LookResults(r) :
        /\ Write(r, res, look[r].status, row[r].notice)
        /\ head' = IF res = "ok"
                   THEN [head EXCEPT ![r] = [status |-> look[r].status, rev |-> row'[r].rev]]
                   ELSE head
        /\ overtaken' = IF res \in {"ok", "late"} /\ InFlight(r)
                        THEN overtaken \cup {r} ELSE overtaken
  BY DEF ArtifactsSettle
<1>4. faults + 1 # 0
  BY DEF ReadInv, TypeOK, TypeBounds
<1>5. res \in {"ok", "stale"}
  BY <1>3, <1>4 DEF LookResults, Results, Write, Blame
<1>6. CASE Terminal(q)
  BY <1>2, <1>6 DEF Sound, Terminal
<1>7. CASE Fresh(q) /\ Held(q)
  <2>1. Held(q)'
    BY <1>1, <1>2, <1>7 DEF Held, Carries, Durable
  <2>2. \/ row'[q] = row[q] /\ head'[q] = head[q]
        \/ res = "ok" /\ q = r /\ head'[q].rev = row'[q].rev
    BY <1>3, <1>5 DEF Write, ReadInv, TypeOK, TypeDurable
  <2>3. CASE row'[q] = row[q] /\ head'[q] = head[q]
    BY <1>1, <1>7, <2>1, <2>3 DEF Fresh, Sound
  <2>4. CASE res = "ok" /\ q = r /\ head'[q].rev = row'[q].rev
    <3>1. ~InFlight(q)
      BY <1>3, <2>4
    <3>2. job[q].pc \notin {"commit", "claim"} /\ start[q] # "claim"
      BY <1>7, <3>1 DEF InFlight, Fresh
    <3> QED
      BY <1>1, <1>7, <2>1, <2>4, <3>2 DEF Fresh, Sound
  <2> QED
    BY <2>2, <2>3, <2>4
<1> QED
  BY <1>6, <1>7 DEF Sound

LEMMA SoundStep ==
  ASSUME ReadInv, ReadInv', TeardownInv, SoundInv, [ReadNext]_allVars
  PROVE  SoundInv'
<1> SUFFICES ASSUME NEW q \in Runs, faults' = 0, q \notin overtaken'
             PROVE  Sound(q)'
  BY DEF SoundInv
<1>1. CASE [Next]_vars /\ UNCHANGED overtaken
  <2>1. faults = 0
    BY <1>1, FaultsStay DEF ReadInv
  <2> QED
    BY <1>1, <2>1, SupervisorSound DEF ReadInv, SoundInv
<1>2. ASSUME NEW r \in Runs, ScriptWrites(r) \/ Artifacts(r)
      PROVE  [Next]_vars /\ UNCHANGED overtaken
  BY <1>2 DEF ScriptWrites, Artifacts
<1>3. ASSUME NEW r \in Runs, ArtifactsSettle(r)
      PROVE  Sound(q)'
  <2>1. PICK res : Write(r, res, look[r].status, row[r].notice) /\ overtaken \subseteq overtaken'
    BY <1>3 DEF ArtifactsSettle
  <2>2. faults \in Nat /\ faults + 1 # 0
    BY DEF ReadInv, TypeOK, TypeBounds
  <2>3. faults = 0
    BY <2>1, <2>2 DEF Write, Blame
  <2>4. Sound(q)
    BY <2>1, <2>3 DEF SoundInv
  <2> QED
    BY <1>3, <2>4, ReadSettlesSound
<1> QED
  BY <1>1, <1>2, <1>3 DEF ReadNext, allVars, readVars

LEMMA InitSound == Init => \A r \in Runs : Sound(r)
<1> SUFFICES ASSUME Init, NEW r \in Runs PROVE Sound(r)
  OBVIOUS
<1>1. Fresh(r)
  BY DEF Init, Fresh, Idle
<1>2. Held(r)
  BY DEF Init, Held, Idle, Durable, Failing
<1> QED
  BY <1>1, <1>2 DEF Sound

-----------------------------------------------------------------------------
ReadTeardownInv == ReadInv /\ TeardownInv /\ SoundInv

(* With artifacts() called at any moment, dispose still accounts for every run;*)
(* and as long as no commit failed and no read's commit took the revision of   *)
(* one of its own, a run that has not settled is parked or something of it     *)
(* goes on: a current attempt, a suspended operation or its launch.            *)
THEOREM ReadsSound == ReadSpec => []ReadTeardownInv
<1>1. ReadInit => TeardownInv /\ SoundInv
  BY InitTeardown, InitSound DEF ReadInit, SoundInv
<1>2. ReadInv /\ ReadInv' /\ TeardownInv /\ SoundInv /\ [ReadNext]_allVars => (TeardownInv /\ SoundInv)'
  BY ReadTeardown, SoundStep
<1> QED
  BY <1>1, <1>2, ReadsInOrder, PTL DEF ReadSpec, ReadTeardownInv

(* dispose reports every run it could not settle, reads included.             *)
THEOREM DisposalReportsWithReads == ReadSpec => []DisposeReportsLoss
<1>1. ReadTeardownInv => DisposeReportsLoss
  BY AccountsReport DEF ReadTeardownInv
<1> QED
  BY <1>1, ReadsSound, PTL

LEMMA SoundIsDisposed == ReadTeardownInv => DisposeLeavesNothingOpen
<1> SUFFICES ASSUME ReadTeardownInv, disposal = "done", faults = 0,
                    NEW r \in Runs, Durable(r), r \notin overtaken
             PROVE  row[r].status \in TERMINAL /\ \A g \in Gens : ~Live(r, g)
  BY DEF DisposeLeavesNothingOpen
<1> USE DEF ReadTeardownInv, ReadInv, TeardownInv
<1>1. Known(r)
  BY DEF DisposeInv, Pending, Known
<1>2. r \in KnownRuns
  BY <1>1 DEF KnownRuns
<1>3. Reported(r) /\ cur[r] = 0 /\ ~Attaching(job[r])
  BY <1>2 DEF DisposeInv, Detached
<1>4. Terminal(r)
  BY <1>3 DEF Reported, SoundInv, Sound, Fresh
<1>5. row[r].status \in TERMINAL
  BY <1>4 DEF RowInv
<1>6. \A g \in Gens : ~Live(r, g)
  BY <1>3, NoneLive DEF AttemptInv, Attaching
<1> QED
  BY <1>5, <1>6

(* When dispose resolves, every durable run is terminal and none of its        *)
(* attempts runs, whatever was launching, queued or parked when it was called: *)
(* only a failed commit or a read's overtaking one leaves a run open.          *)
THEOREM DisposalIsComplete == ReadSpec => []DisposeLeavesNothingOpen
BY ReadsSound, SoundIsDisposed, PTL

LEMMA SoundIsHeld == ReadTeardownInv => OnlyReadersStrand
<1> SUFFICES ASSUME ReadTeardownInv, NEW r \in Runs, Stranded(r), r \notin overtaken, ~(faults > 0)
             PROVE  FALSE
  BY DEF OnlyReadersStrand
<1> USE DEF ReadTeardownInv, ReadInv
<1>1. faults = 0
  BY DEF TypeOK, TypeBounds
<1>2. Held(r)
  BY <1>1 DEF SoundInv, Sound, Stranded, Terminal
<1>3. CASE cur[r] = 0
  <2>1. start[r] \notin Unpublished \cup Failing /\ Durable(r)
    BY DEF Stranded, Known, Pending, Unpublished, Failing
  <2> QED
    BY <1>2, <1>3, <2>1 DEF Held, Stranded, Parked
<1>4. CASE cur[r] # 0
  <2>1. cur[r] \in Gens
    BY <1>4, Bounds DEF TypeOK, TypeAttempts, Gens
  <2>2. engine[r][cur[r]].st = "quiescent"
    <3>1. engine[r][cur[r]].st # "unborn" /\ engine[r][cur[r]] \in AttemptRecord
      BY <1>4, <2>1 DEF TeardownInv, SettleInv, TypeOK, TypeAttempts
    <3> QED
      BY <2>1, <3>1 DEF Stranded, Live, AttemptRecord
  <2>3. HasSettle(queue[r], cur[r])
    BY <1>4, <2>2 DEF TeardownInv, SettleInv
  <2> QED
    BY <2>3 DEF HasSettle, Stranded
<1> QED
  BY <1>3, <1>4

(* No order of controls, gates, events, settlements, teardowns and reads leaves*)
(* a run that is neither settled nor parked with nothing left to happen to it, *)
(* except a failed commit and a read that overtakes one of the run's own.      *)
THEOREM NoOtherWayToStrand == ReadSpec => []OnlyReadersStrand
BY ReadsSound, SoundIsHeld, PTL
=============================================================================
