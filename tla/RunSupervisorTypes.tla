------------------------- MODULE RunSupervisorTypes -------------------------
(***************************************************************************)
(* Type correctness of the run supervisor: Spec => []TypeOK, for every     *)
(* value of the constants.  The lemmas give the type of what each helper   *)
(* writes; TypeStep then has one step per action.                          *)
(***************************************************************************)
EXTENDS RunSupervisor, TLAPS, SequenceTheorems

(* The bounds the constants' assumption gives. *)
LEMMA Bounds == MaxAttempts \in Nat \ {0} /\ 0 \in 0 .. MaxAttempts /\ 1 \in Gens
BY ConstantsAssumption DEF Gens

(* A part of the type invariant is kept by a step that leaves its variables alone. *)
LEMMA Unchanged ==
  ASSUME TypeOK
  PROVE  /\ UNCHANGED launchVars => TypeLaunch'
         /\ UNCHANGED durableVars => TypeDurable'
         /\ UNCHANGED attemptVars => TypeAttempts'
         /\ UNCHANGED gateVars => TypeGates'
         /\ UNCHANGED queue => TypeQueue'
         /\ UNCHANGED <<job, waitVars>> => TypeJob'
         /\ UNCHANGED capacityVars => TypeCapacity'
         /\ UNCHANGED closeVars => TypeClose'
         /\ UNCHANGED drainVars => TypeDrain'
         /\ UNCHANGED boundVars => TypeBounds'
<1>1. UNCHANGED launchVars => TypeLaunch'
  BY DEF TypeOK, TypeLaunch, launchVars
<1>2. UNCHANGED durableVars => TypeDurable'
  BY DEF TypeOK, TypeDurable, durableVars
<1>3. UNCHANGED attemptVars => TypeAttempts'
  BY DEF TypeOK, TypeAttempts, attemptVars
<1>4. UNCHANGED gateVars => TypeGates'
  BY DEF TypeOK, TypeGates, gateVars
<1>5. UNCHANGED queue => TypeQueue'
  BY DEF TypeOK, TypeQueue
<1>6. UNCHANGED <<job, waitVars>> => TypeJob'
  BY DEF TypeOK, TypeJob, waitVars
<1>7. UNCHANGED capacityVars => TypeCapacity'
  BY DEF TypeOK, TypeCapacity, capacityVars
<1>8. UNCHANGED closeVars => TypeClose'
  BY DEF TypeOK, TypeClose, closeVars
<1>9. UNCHANGED drainVars => TypeDrain'
  BY DEF TypeOK, TypeDrain, drainVars
<1>10. UNCHANGED boundVars => TypeBounds'
  BY DEF TypeOK, TypeBounds, boundVars
<1> QED
  BY <1>1, <1>2, <1>3, <1>4, <1>5, <1>6, <1>7, <1>8, <1>9, <1>10

-----------------------------------------------------------------------------
(* What the helpers write. *)

(* cancel(), a teardown and release() make an attempt of an attempt. *)
LEMMA CancelledType ==
  ASSUME NEW att \in AttemptRecord
  PROVE  /\ Cancelled(att) \in AttemptRecord
         /\ Torn(att) \in AttemptRecord
         /\ Released(att) \in AttemptRecord
BY DEF Cancelled, Torn, Released, AttemptRecord

(* An operation that ends leaves an idle queue and fewer promises ahead. *)
LEMMA DoneType ==
  ASSUME TypeJob, NEW r \in Runs, Done(r)
  PROVE  TypeJob'
<1>1. Idle \in JobRecord
  BY Bounds DEF Idle, JobRecord, StatusOrAbsent
<1>2. job' \in [Runs -> JobRecord]
  BY <1>1 DEF TypeJob, Done
<1> DEFINE W(w) == [ahead[w] EXCEPT ![r] = Less(@)]
<1>3. \A w \in Waiters : W(w) \in [Runs -> Nat]
  BY DEF TypeJob, Less
<1>4. ahead' = [w \in Waiters |-> W(w)] /\ awaited' = awaited
  BY DEF Done
<1> HIDE DEF W
<1>5. ahead' \in [Waiters -> [Runs -> Nat]]
  BY <1>3, <1>4
<1> QED
  BY <1>2, <1>4, <1>5 DEF TypeJob

(* An operation that suspends remembers a well-typed step. *)
LEMMA SuspendType ==
  ASSUME TypeJob, NEW r \in Runs, NEW step \in JobRecord, Suspend(r, step)
  PROVE  TypeJob'
BY DEF TypeJob, Suspend, waitVars

LEMMA CommitType ==
  ASSUME TypeJob, TypeDurable, NEW r \in Runs, NEW op \in OpNames \cup {"none", "unpark", "replace", "restore"},
         NEW to \in StatusOrAbsent, NEW g \in 0 .. MaxAttempts, NEW id \in Nat,
         Commit(r, op, to, g, id)
  PROVE  TypeJob'
<1>1. [op |-> op, pc |-> "commit", to |-> to, rev |-> head[r].rev, g |-> g, id |-> id,
       old |-> head[r].status] \in JobRecord
  BY DEF TypeDurable, JobRecord
<1> QED
  BY <1>1, SuspendType DEF Commit

LEMMA TerminalizeType ==
  ASSUME TypeJob, NEW r \in Runs, NEW op \in OpNames \cup {"none", "unpark", "replace", "restore"},
         NEW to \in StatusOrAbsent, NEW g \in 0 .. MaxAttempts,
         Terminalize(r, op, to, g)
  PROVE  TypeJob'
<1>1. [Idle EXCEPT !.op = op, !.pc = "drain", !.to = to, !.g = g] \in JobRecord
  BY Bounds DEF Idle, JobRecord, StatusOrAbsent
<1> QED
  BY <1>1, DoneType, SuspendType DEF Terminalize

(* The queue keeps operation records, and its head is one. *)
LEMMA EnqueueType ==
  ASSUME TypeQueue, NEW r \in Runs, NEW op \in OpRecord, Enqueue(r, op)
  PROVE  TypeQueue'
BY AppendProperties DEF TypeQueue, Enqueue

LEMMA DequeueType ==
  ASSUME TypeQueue, NEW r \in Runs, queue[r] # <<>>, Dequeue(r)
  PROVE  TypeQueue' /\ Head(queue[r]) \in OpRecord
BY HeadTailProperties DEF TypeQueue, Dequeue

(* createAttempt stays within the bound on generations. *)
LEMMA NewAttemptType ==
  ASSUME TypeAttempts, NEW r \in Runs, NewAttempt(r)
  PROVE  TypeAttempts' /\ gen[r] + 1 \in 0 .. MaxAttempts
<1>1. gen[r] + 1 \in Gens /\ gen[r] + 1 \in 0 .. MaxAttempts
  BY Bounds DEF NewAttempt, TypeAttempts, Gens
<1>2. gen' \in [Runs -> 0 .. MaxAttempts] /\ cur' \in [Runs -> 0 .. MaxAttempts] /\ ckpt' \in [Runs -> BOOLEAN]
  BY <1>1 DEF NewAttempt, TypeAttempts
<1>3. [st |-> IF aborted[r] THEN "withdrawn" ELSE "inert", intent |-> "running", out |-> "none"] \in AttemptRecord
  BY DEF AttemptRecord
<1>4. engine' \in [Runs -> [Gens -> AttemptRecord]]
  BY <1>1, <1>3 DEF NewAttempt, TypeAttempts
<1> QED
  BY <1>1, <1>2, <1>4 DEF TypeAttempts

(* An update of one attempt of one run keeps the type of `engine`. *)
LEMMA EngineType ==
  ASSUME TypeAttempts, NEW r \in Runs, NEW g, NEW att,
         g \in Gens => att \in AttemptRecord,
         engine' = [engine EXCEPT ![r][g] = att]
  PROVE  engine' \in [Runs -> [Gens -> AttemptRecord]]
<1>1. [engine[r] EXCEPT ![g] = att] \in [Gens -> AttemptRecord]
  BY DEF TypeAttempts
<1> QED
  BY <1>1 DEF TypeAttempts

LEMMA BlameType ==
  ASSUME TypeBounds, NEW failed \in BOOLEAN, Blame(failed)
  PROVE  faults' \in Nat
BY DEF TypeBounds, Blame

(* Publishing a run counts it. *)
LEMMA PublishType ==
  ASSUME TypeClose, TypeCapacity, NEW r \in Runs, Publish(r)
  PROVE  TypeClose' /\ TypeCapacity'
<1>1. Owner[r] \in Agents
  BY ConstantsAssumption
<1> QED
  BY <1>1 DEF Publish, TypeClose, TypeCapacity

(* A store write leaves a row. *)
LEMMA WriteType ==
  ASSUME TypeDurable, TypeBounds, NEW r \in Runs, NEW res, NEW status \in StatusOrAbsent,
         NEW notice \in {"none", "claimed", "final"}, Write(r, res, status, notice)
  PROVE  /\ row' \in [Runs -> [status : StatusOrAbsent, rev : Nat, notice : {"none", "claimed", "final"}]]
         /\ faults' \in Nat
<1>1. [status |-> status, rev |-> row[r].rev + 1, notice |-> notice]
        \in [status : StatusOrAbsent, rev : Nat, notice : {"none", "claimed", "final"}]
  BY DEF TypeDurable
<1> QED
  BY <1>1 DEF Write, Blame, TypeDurable, TypeBounds

LEMMA NoGateType == NoGate \in GateRecord
BY Bounds DEF NoGate, GateRecord

(* commitTerminalAndClaimNotice, whether it succeeds or throws. *)
LEMMA TerminalSettlesType ==
  ASSUME TypeOK, NEW r \in Runs, NEW rev \in Nat, NEW to \in StatusOrAbsent,
         TerminalSettles(r, rev, to), UNCHANGED <<parked, asked, shown, ops, events>>
  PROVE  TypeDurable' /\ TypeGates' /\ TypeCapacity' /\ TypeBounds'
<1> USE DEF TypeOK
<1>1. row' \in [Runs -> [status : StatusOrAbsent, rev : Nat, notice : {"none", "claimed", "final"}]]
      /\ faults' \in Nat
  BY WriteType DEF TerminalSettles
<1>2. TypeDurable'
  <2>1. head' \in [Runs -> [status : StatusOrAbsent, rev : Nat]]
    BY DEF TerminalSettles, TypeDurable
  <2>2. delivery' \in [Runs -> BOOLEAN] /\ failure' \in [Runs -> BOOLEAN] /\ told' \in [Runs -> BOOLEAN]
    BY DEF TerminalSettles, TypeDurable
  <2> QED
    BY <1>1, <2>1, <2>2 DEF TypeDurable
<1>3. TypeGates'
  BY NoGateType DEF TerminalSettles, TypeGates, ClearGate
<1>4. Less(activeTotal) \in Nat /\ \A a \in Agents : Less(activeSession[a]) \in Nat
  BY DEF TypeCapacity, Less
<1>5. TypeCapacity'
  BY <1>4 DEF TerminalSettles, TypeCapacity, capacityVars
<1> QED
  BY <1>1, <1>2, <1>3, <1>5 DEF TypeBounds

-----------------------------------------------------------------------------
(* The launching call. *)
LEMMA LaunchTypes ==
  ASSUME TypeOK, NEW r \in Runs, Reserve(r) \/ LaunchStep(r)
  PROVE  TypeOK'
<1> USE Unchanged DEF TypeOK
<1>1. CASE Reserve(r)
  <2>1. TypeLaunch'
    BY <1>1 DEF Reserve, TypeLaunch, StartPositions
  <2> QED
    BY <1>1, <2>1 DEF Reserve, queueVars
<1>2. CASE InsertRejected(r)
  <2>1. TypeLaunch'
    BY <1>2 DEF InsertRejected, TypeLaunch, StartPositions
  <2> QED
    BY <1>2, <2>1 DEF InsertRejected, queueVars
<1>3. CASE InsertDurable(r)
  <2>1. TypeLaunch'
    BY <1>3 DEF InsertDurable, TypeLaunch, StartPositions
  <2>2. TypeDurable'
    BY <1>3 DEF InsertDurable, TypeDurable, StatusOrAbsent, ACTIVE
  <2> QED
    BY <1>3, <2>1, <2>2 DEF InsertDurable, queueVars
<1>4. CASE Inserted(r)
  <2>1. TypeLaunch'
    BY <1>4 DEF Inserted, LaunchFails, TypeLaunch, StartPositions
  <2>2. TypeAttempts' /\ TypeCapacity' /\ TypeClose'
    BY <1>4, PublishType DEF Inserted, LaunchFails
  <2>3. TypeBounds'
    BY <1>4 DEF Inserted, Blame, TypeBounds
  <2> QED
    BY <1>4, <2>1, <2>2, <2>3 DEF Inserted, queueVars
<1>5. CASE ScratchOpened(r)
  <2>1. TypeLaunch'
    BY <1>5 DEF ScratchOpened, LaunchFails, TypeLaunch, StartPositions
  <2>2. TypeAttempts' /\ TypeCapacity' /\ TypeClose'
    BY <1>5, PublishType, NewAttemptType DEF ScratchOpened, LaunchFails
  <2>3. TypeBounds'
    BY <1>5 DEF ScratchOpened, Blame, TypeBounds
  <2> QED
    BY <1>5, <2>1, <2>2, <2>3 DEF ScratchOpened, queueVars
<1>6. CASE ReleaseStart(r)
  <2>1. TypeLaunch'
    BY <1>6 DEF ReleaseStart, TypeLaunch, StartPositions
  <2>2. engine[r][1] \in AttemptRecord
    BY Bounds DEF TypeAttempts
  <2>3. engine' \in [Runs -> [Gens -> AttemptRecord]]
    BY <1>6, <2>2, CancelledType, EngineType DEF ReleaseStart, TypeAttempts
  <2>4. TypeAttempts'
    BY <1>6, <2>3 DEF ReleaseStart, TypeAttempts
  <2>5. TypeBounds'
    BY <1>6 DEF ReleaseStart, Blame, TypeBounds
  <2> QED
    BY <1>6, <2>1, <2>4, <2>5 DEF ReleaseStart, queueVars
<1>7. CASE UnreleasedQuiesced(r)
  <2>1. TypeLaunch'
    BY <1>7 DEF UnreleasedQuiesced, TypeLaunch, StartPositions
  <2>2. Op("failStart", 0, 0, "none") \in OpRecord
    BY Bounds DEF Op, OpRecord, OpNames
  <2>3. TypeQueue'
    BY <1>7, <2>2, EnqueueType DEF UnreleasedQuiesced
  <2> QED
    BY <1>7, <2>1, <2>3 DEF UnreleasedQuiesced
<1>8. CASE LaunchFailureSettled(r)
  <2>1. TypeLaunch'
    BY <1>8 DEF LaunchFailureSettled, TypeLaunch, StartPositions
  <2> QED
    BY <1>8, <2>1 DEF LaunchFailureSettled, queueVars
<1>9. CASE LaunchDrained(r)
  <2>1. TypeLaunch'
    BY <1>9 DEF LaunchDrained, TypeLaunch, TypeDurable, StartPositions
  <2> QED
    BY <1>9, <2>1 DEF LaunchDrained, queueVars
<1>10. CASE LaunchSettled(r)
  <2>1. TypeLaunch'
    BY <1>10 DEF LaunchSettled, TypeLaunch, StartPositions
  <2>2. TypeDurable' /\ TypeGates' /\ TypeCapacity' /\ TypeBounds'
    <3>1. "failed" \in StatusOrAbsent /\ startRev[r] \in Nat
      BY DEF StatusOrAbsent, TERMINAL, TypeLaunch
    <3> QED
      BY <1>10, <3>1, TerminalSettlesType DEF LaunchSettled
  <2> QED
    BY <1>10, <2>1, <2>2 DEF LaunchSettled, queueVars
<1> QED
  BY <1>1, <1>2, <1>3, <1>4, <1>5, <1>6, <1>7, <1>8, <1>9, <1>10 DEF LaunchStep

-----------------------------------------------------------------------------
(* The engine, the controls and the notifier. *)
LEMMA EngineTypes ==
  ASSUME TypeOK, NEW r \in Runs,
         \/ EngineEvent(r) \/ EngineGate(r) \/ Ask(r) \/ NoticeSettles(r)
         \/ \E g \in Gens : EngineQuiesces(r, g)
  PROVE  TypeOK'
<1> USE Unchanged DEF TypeOK
<1>1. CASE EngineEvent(r)
  <2>1. Op("event", cur[r], 0, "none") \in OpRecord
    BY DEF Op, OpRecord, OpNames, TypeAttempts
  <2>2. TypeQueue'
    BY <1>1, <2>1, EnqueueType DEF EngineEvent
  <2>3. TypeBounds'
    BY <1>1 DEF EngineEvent, TypeBounds
  <2> QED
    BY <1>1, <2>2, <2>3 DEF EngineEvent
<1>2. CASE EngineGate(r)
  <2>1. \A kind \in GateKinds : Op("gate", cur[r], asked[r] + 1, kind) \in OpRecord
    BY DEF Op, OpRecord, OpNames, TypeAttempts, TypeGates
  <2>2. TypeQueue'
    BY <1>2, <2>1, EnqueueType DEF EngineGate
  <2>3. TypeGates'
    BY <1>2 DEF EngineGate, TypeGates
  <2> QED
    BY <1>2, <2>2, <2>3 DEF EngineGate
<1>3. CASE Ask(r)
  <2>1. \A op \in Controls \ {"answer"} : Op(op, 0, 0, "none") \in OpRecord
    BY ConstantsAssumption, Bounds DEF Op, OpRecord, OpNames
  <2>2. \A id \in shown[r] : Op("answer", 0, id, "none") \in OpRecord
    BY Bounds DEF Op, OpRecord, OpNames, AllControls, TypeGates
  <2>3. TypeQueue'
    BY <1>3, <2>1, <2>2, EnqueueType DEF Ask
  <2>4. TypeBounds'
    BY <1>3 DEF Ask, TypeBounds
  <2> QED
    BY <1>3, <2>3, <2>4 DEF Ask
<1>4. CASE NoticeSettles(r)
  <2>1. row' \in [Runs -> [status : StatusOrAbsent, rev : Nat, notice : {"none", "claimed", "final"}]]
    <3>1. row' = row \/ row' = [row EXCEPT ![r].rev = @ + 1, ![r].notice = "final"]
      BY <1>4 DEF NoticeSettles
    <3>2. row[r] \in [status : StatusOrAbsent, rev : Nat, notice : {"none", "claimed", "final"}]
      BY DEF TypeDurable
    <3>3. row[r].rev + 1 \in Nat
      BY <3>2
    <3> QED
      BY <3>1, <3>2, <3>3 DEF TypeDurable
  <2>2. head' \in [Runs -> [status : StatusOrAbsent, rev : Nat]]
    BY <1>4, <2>1 DEF NoticeSettles, TypeDurable
  <2>3. TypeDurable'
    BY <1>4, <2>1, <2>2 DEF NoticeSettles, TypeDurable
  <2>4. TypeBounds'
    BY <1>4 DEF NoticeSettles, Blame, TypeBounds
  <2> QED
    BY <1>4, <2>3, <2>4 DEF NoticeSettles, queueVars
<1>5. CASE \E g \in Gens : EngineQuiesces(r, g)
  <2>1. PICK g \in Gens : EngineQuiesces(r, g)
    BY <1>5
  <2>2. PICK out \in Outcomes :
          /\ engine' = [engine EXCEPT ![r][g].st = "quiescent", ![r][g].out = out]
          /\ Enqueue(r, Op("settle", g, 0, "none"))
    BY <2>1 DEF EngineQuiesces
  <2>3. engine[r][g] \in AttemptRecord
    BY DEF TypeAttempts
  <2>4. engine' \in [Runs -> [Gens -> AttemptRecord]]
    BY <2>2, <2>3 DEF AttemptRecord, TypeAttempts
  <2>5. TypeAttempts'
    BY <2>1, <2>4 DEF EngineQuiesces, TypeAttempts
  <2>6. Op("settle", g, 0, "none") \in OpRecord
    BY Bounds DEF Op, OpRecord, OpNames, Gens
  <2>7. TypeQueue'
    BY <2>2, <2>6, EnqueueType
  <2>8. TypeGates'
    BY <2>1 DEF EngineQuiesces, TypeGates
  <2> QED
    BY <2>1, <2>5, <2>7, <2>8 DEF EngineQuiesces
<1> QED
  BY <1>1, <1>2, <1>3, <1>4, <1>5

-----------------------------------------------------------------------------
(* Operations as they begin. *)

(* A queued operation that is taken leaves a queue, and is an operation. *)
LEMMA ReadyType ==
  ASSUME TypeQueue, NEW r \in Runs, NEW op, Ready(r, op), Dequeue(r)
  PROVE  TypeQueue' /\ Head(queue[r]) \in OpRecord
BY DequeueType DEF Ready

(* A new intent is an attempt's. *)
LEMMA IntentType ==
  ASSUME TypeAttempts, NEW r \in Runs, NEW g, NEW intent \in {"running", "pause", "stop", "teardown"},
         engine' = WithIntent(r, g, intent)
  PROVE  engine' \in [Runs -> [Gens -> AttemptRecord]]
<1>1. g \in Gens => engine[r][g] \in AttemptRecord
  BY DEF TypeAttempts
<1>2. g \in Gens => [engine[r][g] EXCEPT !.intent = intent] \in AttemptRecord
  BY <1>1 DEF AttemptRecord
<1> QED
  BY <1>2, EngineType DEF WithIntent

LEMMA ClearGateType ==
  ASSUME TypeGates, NEW r \in Runs, ClearGate(r)
  PROVE  gate' \in [Runs -> GateRecord]
BY NoGateType DEF ClearGate, TypeGates

LEMMA AcknowledgeType ==
  ASSUME TypeOK, NEW r \in Runs, Acknowledge(r), UNCHANGED <<gen, cur, ckpt>>
  PROVE  TypeJob' /\ TypeAttempts' /\ gate' \in [Runs -> GateRecord]
<1> USE DEF TypeOK
<1>1. cur[r] \in 0 .. MaxAttempts /\ gate[r].id \in Nat
  BY DEF TypeAttempts, TypeGates, GateRecord
<1>2. "running" \in StatusOrAbsent /\ "pausing" \in StatusOrAbsent
  BY DEF StatusOrAbsent, ACTIVE
<1>3. TypeJob'
  BY <1>1, <1>2, CommitType DEF Acknowledge
<1>4. engine' \in [Runs -> [Gens -> AttemptRecord]]
  BY IntentType DEF Acknowledge, TypeAttempts
<1>5. gate' \in [Runs -> GateRecord]
  BY ClearGateType DEF Acknowledge
<1> QED
  BY <1>3, <1>4, <1>5 DEF TypeAttempts

LEMMA ReattachType ==
  ASSUME TypeOK, NEW r \in Runs, NEW rev \in Nat, NEW old \in StatusOrAbsent, Reattach(r, rev, old)
  PROVE  TypeJob' /\ TypeAttempts'
<1> USE Unchanged DEF TypeOK
<1>1. CASE NewAttempt(r) /\ Suspend(r, [op |-> "resume", pc |-> "commit", to |-> "running",
                             rev |-> rev, g |-> gen[r] + 1, id |-> 0, old |-> old])
  <2>1. gen[r] + 1 \in 0 .. MaxAttempts /\ TypeAttempts'
    BY <1>1, NewAttemptType
  <2>2. [op |-> "resume", pc |-> "commit", to |-> "running",
         rev |-> rev, g |-> gen[r] + 1, id |-> 0, old |-> old] \in JobRecord
    BY <2>1 DEF JobRecord, OpNames, AllControls, StatusOrAbsent, ACTIVE
  <2> QED
    BY <1>1, <2>1, <2>2, SuspendType
<1>2. CASE Done(r) /\ UNCHANGED attemptVars
  BY <1>2, DoneType
<1> QED
  BY <1>1, <1>2 DEF Reattach

LEMMA BeginTypes ==
  ASSUME TypeOK, NEW r \in Runs,
         \/ BeginPause(r) \/ BeginStop(r) \/ BeginResume(r, "resume") \/ BeginResume(r, "raise")
         \/ BeginAnswer(r) \/ BeginGate(r) \/ BeginEvent(r) \/ BeginSettle(r) \/ BeginTerminal(r)
  PROVE  TypeOK'
<1> USE Unchanged DEF TypeOK
<1>a. /\ cur[r] \in 0 .. MaxAttempts /\ 0 \in 0 .. MaxAttempts /\ 0 \in Nat
      /\ head[r].status \in StatusOrAbsent /\ head[r].rev \in Nat
  BY Bounds DEF TypeAttempts, TypeDurable
<1>b. /\ {"pausing", "stopping", "cancelled", "interrupted", "failed", "needs-input"} \subseteq StatusOrAbsent
      /\ {"pause", "stop", "settle", "event", "gate", "teardown", "failStart"} \subseteq OpNames
  BY DEF StatusOrAbsent, ACTIVE, TERMINAL, OpNames, AllControls
<1>1. CASE BeginPause(r)
  <2>1. TypeQueue'
    BY <1>1, ReadyType DEF BeginPause
  <2>2. TypeJob'
    BY <1>1, <1>a, <1>b, DoneType, CommitType DEF BeginPause
  <2>3. engine' \in [Runs -> [Gens -> AttemptRecord]]
    BY <1>1, IntentType DEF BeginPause, TypeAttempts
  <2>4. gate' \in [Runs -> GateRecord]
    BY <1>1, ClearGateType DEF BeginPause, TypeGates
  <2>5. TypeAttempts' /\ TypeGates'
    BY <1>1, <2>3, <2>4 DEF BeginPause, TypeAttempts, TypeGates
  <2> QED
    BY <1>1, <2>1, <2>2, <2>5 DEF BeginPause
<1>2. CASE BeginStop(r)
  <2>1. TypeQueue'
    BY <1>2, ReadyType DEF BeginStop
  <2>2. TypeJob'
    BY <1>2, <1>a, <1>b, DoneType, CommitType, TerminalizeType DEF BeginStop
  <2>3. engine' \in [Runs -> [Gens -> AttemptRecord]]
    BY <1>2, IntentType DEF BeginStop, TypeAttempts
  <2>4. gate' \in [Runs -> GateRecord]
    BY <1>2, ClearGateType DEF BeginStop, TypeGates
  <2>5. TypeAttempts' /\ TypeGates'
    BY <1>2, <2>3, <2>4 DEF BeginStop, TypeAttempts, TypeGates
  <2> QED
    BY <1>2, <2>1, <2>2, <2>5 DEF BeginStop
<1>3. ASSUME NEW op, BeginResume(r, op)
      PROVE  TypeOK'
  <2>1. TypeQueue'
    BY <1>3, ReadyType DEF BeginResume
  <2>2. CASE Done(r) /\ UNCHANGED <<attemptVars, gate>>
    <3>1. TypeJob' /\ TypeAttempts'
      BY <2>2, DoneType
    <3>2. TypeGates'
      BY <1>3, <2>2 DEF BeginResume, TypeGates
    <3> QED
      BY <1>3, <2>1, <3>1, <3>2 DEF BeginResume
  <2>3. CASE Acknowledge(r) /\ UNCHANGED <<gen, cur, ckpt>>
    <3>1. TypeJob' /\ TypeAttempts' /\ gate' \in [Runs -> GateRecord]
      BY <2>3, AcknowledgeType
    <3>2. TypeGates'
      BY <1>3, <3>1 DEF BeginResume, TypeGates
    <3> QED
      BY <1>3, <2>1, <3>1, <3>2 DEF BeginResume
  <2>4. CASE Reattach(r, head[r].rev, head[r].status) /\ UNCHANGED gate
    <3>1. TypeJob' /\ TypeAttempts'
      BY <2>4, <1>a, ReattachType
    <3>2. TypeGates'
      BY <1>3, <2>4 DEF BeginResume, TypeGates
    <3> QED
      BY <1>3, <2>1, <3>1, <3>2 DEF BeginResume
  <2> QED
    BY <1>3, <2>2, <2>3, <2>4 DEF BeginResume
<1>4. CASE BeginAnswer(r)
  <2>1. TypeQueue'
    BY <1>4, ReadyType DEF BeginAnswer
  <2>2. CASE Done(r) /\ UNCHANGED <<engine, gate>>
    <3>1. TypeJob'
      BY <2>2, DoneType
    <3>2. TypeGates' /\ TypeAttempts'
      BY <1>4, <2>2 DEF BeginAnswer, TypeGates, TypeAttempts
    <3> QED
      BY <1>4, <2>1, <3>1, <3>2 DEF BeginAnswer
  <2>3. CASE Acknowledge(r)
    <3>1. TypeJob' /\ TypeAttempts' /\ gate' \in [Runs -> GateRecord]
      BY <1>4, <2>3, AcknowledgeType DEF BeginAnswer
    <3>2. TypeGates'
      BY <1>4, <3>1 DEF BeginAnswer, TypeGates
    <3> QED
      BY <1>4, <2>1, <3>1, <3>2 DEF BeginAnswer
  <2> QED
    BY <1>4, <2>2, <2>3 DEF BeginAnswer
<1>5. CASE BeginGate(r)
  <2>1. TypeQueue' /\ Head(queue[r]) \in OpRecord
    BY <1>5, ReadyType DEF BeginGate
  <2>2. Head(queue[r]).g \in 0 .. MaxAttempts /\ Head(queue[r]).id \in Nat
        /\ Head(queue[r]).kind \in GateKinds \cup {"none"}
    BY <2>1 DEF OpRecord
  <2>3. TypeJob'
    BY <1>5, <1>b, <2>2, DoneType, CommitType DEF BeginGate
  <2>4. TypeGates'
    BY <1>5, <2>2 DEF BeginGate, TypeGates, GateRecord
  <2> QED
    BY <1>5, <2>1, <2>3, <2>4 DEF BeginGate
<1>6. CASE BeginEvent(r)
  <2> DEFINE g == Head(queue[r]).g
  <2>1. TypeQueue' /\ Head(queue[r]) \in OpRecord
    BY <1>6, ReadyType DEF BeginEvent
  <2>2. g \in 0 .. MaxAttempts
    BY <2>1 DEF OpRecord
  <2>3. TypeJob'
    BY <1>6, <1>a, <1>b, <2>2, DoneType, CommitType DEF BeginEvent
  <2>4. g \in Gens => [Cancelled(engine[r][g]) EXCEPT !.intent = "stop"] \in AttemptRecord
    <3>1. g \in Gens => Cancelled(engine[r][g]) \in AttemptRecord
      BY CancelledType DEF TypeAttempts
    <3> QED
      BY <3>1 DEF AttemptRecord
  <2>5. \/ engine' = engine
        \/ engine' = [engine EXCEPT ![r][g] = [Cancelled(@) EXCEPT !.intent = "stop"]]
    BY <1>6 DEF BeginEvent
  <2> HIDE DEF g
  <2>6. engine' \in [Runs -> [Gens -> AttemptRecord]]
    BY <2>4, <2>5, EngineType DEF TypeAttempts
  <2>7. TypeAttempts'
    BY <1>6, <2>6 DEF BeginEvent, TypeAttempts
  <2>8. TypeBounds'
    BY <1>6 DEF BeginEvent, Blame, TypeBounds
  <2> QED
    BY <1>6, <2>1, <2>3, <2>7, <2>8 DEF BeginEvent
<1>7. CASE BeginSettle(r)
  <2> DEFINE g == Head(queue[r]).g
             to == SettledAs(engine[r][g].out, engine[r][g].intent)
  <2>1. TypeQueue' /\ Head(queue[r]) \in OpRecord
    BY <1>7, ReadyType DEF BeginSettle
  <2>2. g \in 0 .. MaxAttempts
    BY <2>1 DEF OpRecord
  <2>3. to \in StatusOrAbsent
    BY DEF SettledAs, StatusOrAbsent, ACTIVE, TERMINAL
  <2>4. \/ Done(r) \/ Terminalize(r, "settle", to, g) \/ Commit(r, "settle", to, g, 0)
    BY <1>7 DEF BeginSettle
  <2>5. /\ cur' \in [Runs -> 0 .. MaxAttempts]
        /\ ckpt' \in [Runs -> BOOLEAN]
    BY <1>7, <1>a DEF BeginSettle, HasCheckpoint, TypeAttempts
  <2>6. gate' \in [Runs -> GateRecord]
    BY <1>7, ClearGateType DEF BeginSettle, TypeGates
  <2> HIDE DEF g, to
  <2>7. TypeJob'
    BY <1>a, <1>b, <2>2, <2>3, <2>4, DoneType, CommitType, TerminalizeType
  <2>8. TypeAttempts' /\ TypeGates'
    BY <1>7, <2>5, <2>6 DEF BeginSettle, TypeAttempts, TypeGates
  <2> QED
    BY <1>7, <2>1, <2>7, <2>8 DEF BeginSettle
<1>8. CASE BeginTerminal(r)
  <2>1. TypeQueue'
    BY <1>8, ReadyType DEF BeginTerminal
  <2>2. TypeJob'
    BY <1>8, <1>a, <1>b, TerminalizeType DEF BeginTerminal
  <2> QED
    BY <1>8, <2>1, <2>2 DEF BeginTerminal
<1> QED
  BY <1>1, <1>2, <1>3, <1>4, <1>5, <1>6, <1>7, <1>8

-----------------------------------------------------------------------------
(* Operations as they continue. *)

LEMMA JobFields ==
  ASSUME TypeJob, NEW r \in Runs
  PROVE  /\ job[r] \in JobRecord
         /\ job[r].op \in OpNames \cup {"none", "unpark", "replace", "restore"}
         /\ job[r].to \in StatusOrAbsent /\ job[r].old \in StatusOrAbsent
         /\ job[r].rev \in Nat /\ job[r].g \in 0 .. MaxAttempts /\ job[r].id \in Nat
BY DEF TypeJob, JobRecord

LEMMA CommittedTypes ==
  ASSUME TypeOK, NEW r \in Runs, Committed(r)
  PROVE  /\ TypeJob' /\ TypeAttempts' /\ faults' \in Nat
         /\ parked' \in [Runs -> Nat] /\ shown' \in [Runs -> SUBSET Nat]
<1> USE Unchanged, JobFields DEF TypeOK
<1> DEFINE j == job[r]
<1>1. faults' \in Nat
  BY DEF Committed, Blame, TypeBounds
<1>2. parked' \in [Runs -> Nat]
  <2>1. \/ parked' = parked
        \/ parked' = [parked EXCEPT ![r] = IF engine[r][j.g].st = "running" THEN 0 ELSE @]
    BY DEF Committed
  <2> QED
    BY <2>1 DEF TypeGates
<1>3. shown' \in [Runs -> SUBSET Nat]
  <2>1. shown' = shown \/ shown' = [shown EXCEPT ![r] = @ \cup {j.id}]
    BY DEF Committed
  <2>2. j.id \in Nat
    OBVIOUS
  <2> QED
    BY <2>1, <2>2 DEF TypeGates
<1>4. /\ j.g \in Gens => Cancelled(engine[r][j.g]) \in AttemptRecord
      /\ j.g \in Gens => Released(engine[r][j.g]) \in AttemptRecord
  BY CancelledType DEF TypeAttempts
<1>5. /\ [j EXCEPT !.pc = "quiesce"] \in JobRecord
      /\ [j EXCEPT !.op = "restore", !.pc = "rollback"] \in JobRecord
  BY DEF JobRecord
<1>6. j.rev + 1 \in Nat /\ "paused" \in StatusOrAbsent
  BY DEF StatusOrAbsent, ACTIVE
<1>7. \/ Suspend(r, [j EXCEPT !.pc = "quiesce"]) \/ Suspend(r, [j EXCEPT !.op = "restore", !.pc = "rollback"])
      \/ Done(r) \/ Reattach(r, j.rev + 1, "paused")
  BY DEF Committed
<1>8. \/ Reattach(r, j.rev + 1, "paused")
      \/ /\ \/ engine' = engine
            \/ engine' = [engine EXCEPT ![r][j.g] = Cancelled(@)]
            \/ engine' = [engine EXCEPT ![r][j.g] = Released(@)]
         /\ gen' = gen /\ ckpt' = ckpt
         /\ cur' = cur \/ cur' = [cur EXCEPT ![r] = 0]
  BY DEF Committed, attemptVars
<1> HIDE DEF j
<1>9. TypeJob'
  BY <1>5, <1>6, <1>7, SuspendType, DoneType, ReattachType
<1>10. ASSUME /\ \/ engine' = engine
                 \/ engine' = [engine EXCEPT ![r][j.g] = Cancelled(@)]
                 \/ engine' = [engine EXCEPT ![r][j.g] = Released(@)]
              /\ gen' = gen /\ ckpt' = ckpt
              /\ cur' = cur \/ cur' = [cur EXCEPT ![r] = 0]
       PROVE  TypeAttempts'
  <2>1. engine' \in [Runs -> [Gens -> AttemptRecord]]
    BY <1>10, <1>4, EngineType DEF TypeAttempts
  <2> QED
    BY <2>1, <1>10, Bounds DEF TypeAttempts
<1>11. TypeAttempts'
  BY <1>6, <1>8, <1>10, ReattachType
<1> QED
  BY <1>1, <1>2, <1>3, <1>9, <1>11

LEMMA NotCommittedTypes ==
  ASSUME TypeOK, NEW r \in Runs, NotCommitted(r)
  PROVE  TypeJob' /\ TypeAttempts' /\ failure' \in [Runs -> BOOLEAN]
<1> USE Unchanged, JobFields DEF TypeOK
<1> DEFINE j == job[r]
<1>1. failure' \in [Runs -> BOOLEAN]
  BY DEF NotCommitted, TypeDurable
<1>2. j.g \in Gens => Cancelled(engine[r][j.g]) \in AttemptRecord
  BY CancelledType DEF TypeAttempts
<1>3. [j EXCEPT !.pc = "rollback"] \in JobRecord
  BY DEF JobRecord
<1>4. 0 \in 0 .. MaxAttempts /\ "failed" \in StatusOrAbsent /\ "restore" \in OpNames \cup {"none", "unpark", "replace", "restore"}
  BY Bounds DEF StatusOrAbsent, TERMINAL
<1>5. \/ Suspend(r, [j EXCEPT !.pc = "rollback"]) \/ Done(r) \/ Terminalize(r, "restore", "failed", 0)
  BY DEF NotCommitted
<1>6. \/ UNCHANGED attemptVars
      \/ /\ engine' = [engine EXCEPT ![r][j.g] = Cancelled(@)]
         /\ gen' = gen /\ ckpt' = ckpt /\ cur' = [cur EXCEPT ![r] = 0]
  BY DEF NotCommitted
<1> HIDE DEF j
<1>7. TypeJob'
  BY <1>3, <1>4, <1>5, SuspendType, DoneType, TerminalizeType
<1>8. ASSUME /\ engine' = [engine EXCEPT ![r][j.g] = Cancelled(@)]
             /\ gen' = gen /\ ckpt' = ckpt /\ cur' = [cur EXCEPT ![r] = 0]
      PROVE  TypeAttempts'
  <2>1. engine' \in [Runs -> [Gens -> AttemptRecord]]
    BY <1>8, <1>2, EngineType DEF TypeAttempts
  <2> QED
    BY <2>1, <1>8, Bounds DEF TypeAttempts
<1> QED
  BY <1>1, <1>6, <1>7, <1>8

LEMMA ContinueTypes ==
  ASSUME TypeOK, NEW r \in Runs,
         \/ AttemptQuiesced(r) \/ CommitSettles(r) \/ RollbackQuiesced(r)
         \/ Drained(r) \/ TerminalSettled(r)
  PROVE  TypeOK'
<1> USE Unchanged, JobFields DEF TypeOK
<1> DEFINE j == job[r]
<1>a. 0 \in 0 .. MaxAttempts /\ 0 \in Nat /\ {"failed", "cancelled", "paused"} \subseteq StatusOrAbsent
  BY Bounds DEF StatusOrAbsent, TERMINAL, ACTIVE
<1>b. {"stop", "restore"} \subseteq OpNames \cup {"none", "unpark", "replace", "restore"}
  BY DEF OpNames, AllControls
<1>1. CASE AttemptQuiesced(r)
  <2>1. \/ Done(r) \/ Terminalize(r, j.op, "failed", 0) \/ Terminalize(r, "stop", "cancelled", 0)
        \/ Commit(r, j.op, "paused", 0, 0)
    BY <1>1 DEF AttemptQuiesced
  <2>2. TypeJob'
    BY <1>a, <1>b, <2>1, DoneType, TerminalizeType, CommitType
  <2>3. cur' \in [Runs -> 0 .. MaxAttempts] /\ ckpt' \in [Runs -> BOOLEAN]
    BY <1>1, <1>a DEF AttemptQuiesced, HasCheckpoint, TypeAttempts
  <2>4. TypeAttempts'
    BY <1>1, <2>3 DEF AttemptQuiesced, TypeAttempts
  <2> QED
    BY <1>1, <2>2, <2>4 DEF AttemptQuiesced
<1>2. CASE CommitSettles(r)
  <2>1. j.rev + 1 \in Nat
    OBVIOUS
  <2>2. CASE /\ row'  = [row  EXCEPT ![r].status = j.to, ![r].rev = j.rev + 1]
             /\ head' = [head EXCEPT ![r] = [status |-> j.to, rev |-> j.rev + 1]]
             /\ Committed(r)
             /\ UNCHANGED failure
    <3>1. row[r] \in [status : StatusOrAbsent, rev : Nat, notice : {"none", "claimed", "final"}]
      BY DEF TypeDurable
    <3>2. TypeDurable'
      BY <1>2, <2>1, <2>2, <3>1 DEF CommitSettles, TypeDurable
    <3>3. TypeGates' /\ TypeBounds' /\ TypeJob' /\ TypeAttempts'
      BY <1>2, <2>2, CommittedTypes DEF CommitSettles, TypeGates, TypeBounds
    <3> QED
      BY <1>2, <3>2, <3>3 DEF CommitSettles
  <2>3. CASE Committed(r) /\ UNCHANGED <<head, row, failure>>
    <3>1. TypeDurable'
      BY <1>2, <2>3 DEF CommitSettles, TypeDurable
    <3>2. TypeGates' /\ TypeBounds' /\ TypeJob' /\ TypeAttempts'
      BY <1>2, <2>3, CommittedTypes DEF CommitSettles, TypeGates, TypeBounds
    <3> QED
      BY <1>2, <3>1, <3>2 DEF CommitSettles
  <2>4. CASE /\ \E res \in Results(r, j.rev) \ {"ok"} : Write(r, res, j.to, row[r].notice)
             /\ NotCommitted(r)
             /\ UNCHANGED <<head, parked, shown>>
    <3>1. row[r].notice \in {"none", "claimed", "final"}
      BY DEF TypeDurable
    <3>2. /\ row' \in [Runs -> [status : StatusOrAbsent, rev : Nat, notice : {"none", "claimed", "final"}]]
          /\ faults' \in Nat
      BY <2>4, <3>1, WriteType
    <3>3. TypeDurable' /\ TypeJob' /\ TypeAttempts'
      BY <1>2, <2>4, <3>2, NotCommittedTypes DEF CommitSettles, TypeDurable
    <3>4. TypeGates' /\ TypeBounds'
      BY <1>2, <2>4, <3>2 DEF CommitSettles, TypeGates, TypeBounds
    <3> QED
      BY <1>2, <3>3, <3>4 DEF CommitSettles
  <2> QED
    BY <1>2, <2>2, <2>3, <2>4 DEF CommitSettles
<1>3. CASE RollbackQuiesced(r)
  <2>1. Done(r) \/ Commit(r, "restore", j.old, 0, 0)
    BY <1>3 DEF RollbackQuiesced
  <2>2. TypeJob'
    BY <1>a, <1>b, <2>1, DoneType, CommitType
  <2> QED
    BY <1>3, <2>2 DEF RollbackQuiesced
<1>4. CASE Drained(r)
  <2>1. j \in JobRecord /\ head[r].rev \in Nat
    BY DEF TypeDurable
  <2>2. [j EXCEPT !.pc = "claim", !.rev = head[r].rev] \in JobRecord
    BY <2>1 DEF JobRecord
  <2>3. TypeJob'
    BY <1>4, <2>2, SuspendType DEF Drained
  <2> QED
    BY <1>4, <2>3 DEF Drained
<1>5. CASE TerminalSettled(r)
  <2>1. TypeDurable' /\ TypeGates' /\ TypeCapacity' /\ TypeBounds'
    BY <1>5, TerminalSettlesType DEF TerminalSettled
  <2>2. TypeJob'
    BY <1>5, DoneType DEF TerminalSettled
  <2> QED
    BY <1>5, <2>1, <2>2 DEF TerminalSettled
<1> QED
  BY <1>1, <1>2, <1>3, <1>4, <1>5

-----------------------------------------------------------------------------
(* Teardown. *)

LEMMA AheadType ==
  ASSUME TypeQueue
  PROVE  \A r \in Runs : Ahead(r) \in Nat /\ Ahead(r) + 1 \in Nat
BY LenProperties DEF TypeQueue, Ahead

LEMMA CaptureType ==
  ASSUME TypeJob, NEW w \in Waiters, NEW tails \in [Runs -> Nat],
         NEW observations \in [Runs -> 0 .. MaxAttempts],
         Capture(w, tails, observations), job' = job
  PROVE  TypeJob'
BY DEF TypeJob, Capture

LEMMA TailsType ==
  ASSUME TypeOK, NEW S
  PROVE  /\ Tails(S) \in [Runs -> Nat]
         /\ QueuedTails(S) \in [Runs -> Nat]
         /\ Observations(S) \in [Runs -> 0 .. MaxAttempts]
BY AheadType, Bounds DEF TypeOK, Tails, QueuedTails, Observations, TypeAttempts

(* Aborting a launch and cancelling every attempt of it keep the types. *)
LEMMA AbortType ==
  ASSUME TypeOK, NEW S, AbortPending(S), UNCHANGED <<start, startRev, gen, cur, ckpt>>
  PROVE  TypeLaunch' /\ TypeAttempts'
<1> USE DEF TypeOK
<1>1. TypeLaunch'
  BY DEF AbortPending, TypeLaunch
<1>2. \A r \in Runs : \A g \in Gens : Cancelled(engine[r][g]) \in AttemptRecord
  BY CancelledType DEF TypeAttempts
<1> DEFINE C(r) == [g \in Gens |-> Cancelled(engine[r][g])]
<1>3. \A r \in Runs : C(r) \in [Gens -> AttemptRecord]
  BY <1>2
<1>4. engine' = [r \in Runs |-> IF r \in PendingOf(S) THEN C(r) ELSE engine[r]]
  BY DEF AbortPending
<1> HIDE DEF C
<1>5. engine' \in [Runs -> [Gens -> AttemptRecord]]
  BY <1>3, <1>4 DEF TypeAttempts
<1> QED
  BY <1>1, <1>5 DEF TypeAttempts

LEMMA OwnerTypes ==
  ASSUME TypeOK, NEW a \in Agents, OwnerDisposed(a) \/ OwnerStep(a)
  PROVE  TypeOK'
<1> USE Unchanged DEF TypeOK
<1>a. a \in Waiters
  BY DEF Waiters
<1>b. drain[a].run \subseteq Runs /\ drain[a].todo \subseteq Runs
  BY DEF TypeDrain
<1>1. CASE OwnerDisposed(a)
  <2>1. TypeLaunch' /\ TypeAttempts'
    BY <1>1, AbortType DEF OwnerDisposed
  <2>2. TypeClose'
    BY <1>1 DEF OwnerDisposed, CloseRuns, TypeClose
  <2>3. TypeDrain'
    BY <1>1 DEF OwnerDisposed, TypeDrain
  <2> QED
    BY <1>1, <2>1, <2>2, <2>3 DEF OwnerDisposed, queueVars
<1>2. CASE OwnerStartsSettled(a)
  <2>1. ToDispose(a) \subseteq Runs
    BY DEF ToDispose, Owned
  <2>2. TypeDrain'
    BY <1>2, <2>1 DEF OwnerStartsSettled, TypeDrain
  <2> QED
    BY <1>2, <2>2 DEF OwnerStartsSettled, queueVars
<1>3. CASE OwnerNextRun(a)
  <2>1. PICK r \in drain[a].todo :
          /\ drain' = [drain EXCEPT ![a] = [pc |-> "op", run |-> {r}, todo |-> @.todo \ {r}]]
          /\ ClearGate(r)
          /\ \/ /\ cur[r] # 0
                /\ engine' = [engine EXCEPT ![r][cur[r]] = Torn(@)]
                /\ Capture(a, Tails({}), Observations({r}))
                /\ UNCHANGED queue
             \/ /\ cur[r] = 0
                /\ Enqueue(r, Op("teardown", 0, 0, "none"))
                /\ Capture(a, [Tails({}) EXCEPT ![r] = Ahead(r) + 1], Observations({}))
                /\ UNCHANGED engine
          /\ UNCHANGED <<gen, cur, ckpt, parked, asked, shown, job, disposal, direct, firstError>>
    BY <1>3 DEF OwnerNextRun
  <2>2. r \in Runs
    BY <1>b, <2>1
  <2>3. TypeDrain'
    BY <1>b, <2>1, <2>2 DEF TypeDrain
  <2>4. TypeGates'
    BY <2>1, <2>2, ClearGateType DEF TypeGates
  <2>5. cur[r] \in Gens => Torn(engine[r][cur[r]]) \in AttemptRecord
    BY <2>2, CancelledType DEF TypeAttempts
  <2>6. engine' \in [Runs -> [Gens -> AttemptRecord]]
    BY <2>1, <2>2, <2>5, EngineType DEF TypeAttempts
  <2>7. TypeAttempts'
    BY <2>1, <2>6 DEF TypeAttempts
  <2>8. Op("teardown", 0, 0, "none") \in OpRecord
    BY Bounds DEF Op, OpRecord, OpNames
  <2>9. TypeQueue'
    BY <2>1, <2>2, <2>8, EnqueueType
  <2>10. /\ [Tails({}) EXCEPT ![r] = Ahead(r) + 1] \in [Runs -> Nat]
         /\ Tails({}) \in [Runs -> Nat]
         /\ Observations({r}) \in [Runs -> 0 .. MaxAttempts]
         /\ Observations({}) \in [Runs -> 0 .. MaxAttempts]
    BY <2>2, TailsType, AheadType
  <2>11. TypeJob'
    BY <1>a, <2>1, <2>10, CaptureType
  <2> QED
    BY <1>3, <2>3, <2>4, <2>7, <2>9, <2>11 DEF OwnerNextRun
<1>4. CASE OwnerAwaitsTail(a)
  <2>1. TypeJob'
    BY <1>4, <1>a, TailsType, CaptureType DEF OwnerAwaitsTail, queueVars
  <2>2. TypeDrain'
    BY <1>4 DEF OwnerAwaitsTail, TypeDrain
  <2> QED
    BY <1>4, <2>1, <2>2 DEF OwnerAwaitsTail, queueVars
<1>5. CASE OwnerRunDrained(a)
  <2>1. TypeDrain'
    BY <1>5 DEF OwnerRunDrained, TypeDrain
  <2> QED
    BY <1>5, <2>1 DEF OwnerRunDrained, queueVars
<1>6. CASE OwnerQuiesces(a)
  <2>1. TypeDrain'
    BY <1>6 DEF OwnerQuiesces, TypeDrain
  <2>2. OwnerCaptures(a) /\ job' = job => TypeJob'
    BY <1>a, TailsType, CaptureType DEF OwnerCaptures
  <2>3. TypeJob'
    BY <1>6, <2>2 DEF OwnerQuiesces, queueVars
  <2> QED
    BY <1>6, <2>1, <2>3 DEF OwnerQuiesces, queueVars
<1> QED
  BY <1>1, <1>2, <1>3, <1>4, <1>5, <1>6 DEF OwnerStep

LEMMA QueueTeardownType ==
  ASSUME TypeQueue, NEW S, QueueTeardown(S)
  PROVE  TypeQueue'
<1>1. Op("teardown", 0, 0, "none") \in OpRecord
  BY Bounds DEF Op, OpRecord, OpNames
<1>2. \A r \in Runs : Append(queue[r], Op("teardown", 0, 0, "none")) \in Seq(OpRecord)
  BY <1>1, AppendProperties DEF TypeQueue
<1> QED
  BY <1>2 DEF QueueTeardown, TypeQueue

LEMMA DisposeTypes ==
  ASSUME TypeOK, Dispose \/ DisposeStep
  PROVE  TypeOK'
<1> USE Unchanged DEF TypeOK
<1>a. Sup \in Waiters
  BY DEF Waiters
<1>b. Remember => firstError' \in BOOLEAN
  BY DEF Remember, TypeDrain
<1>1. CASE Dispose
  <2>1. CASE /\ admission' = FALSE /\ AbortPending(Runs)
             /\ CloseRuns(Runs, "supervisor")
    <3>1. TypeLaunch' /\ TypeAttempts'
      BY <1>1, <2>1, AbortType DEF Dispose
    <3>2. TypeClose'
      BY <1>1, <2>1 DEF Dispose, CloseRuns, TypeClose
    <3>3. TypeDrain'
      BY <1>1 DEF Dispose, TypeDrain
    <3> QED
      BY <1>1, <3>1, <3>2, <3>3 DEF Dispose, queueVars
  <2>2. CASE UNCHANGED <<admission, aborted, engine, closing>>
    <3>1. TypeLaunch' /\ TypeAttempts'
      BY <1>1, <2>2 DEF Dispose, TypeLaunch, TypeAttempts
    <3>2. TypeClose'
      BY <1>1, <2>2 DEF Dispose, TypeClose
    <3>3. TypeDrain'
      BY <1>1 DEF Dispose, TypeDrain
    <3> QED
      BY <1>1, <3>1, <3>2, <3>3 DEF Dispose, queueVars
  <2> QED
    BY <1>1, <2>1, <2>2 DEF Dispose, CloseAdmission
<1>2. CASE DisposeCancels
  <2> DEFINE open == {r \in KnownRuns : ~Terminal(r)}
  <2>1. TypeDrain'
    BY <1>2, <1>b DEF DisposeCancels, TypeDrain, KnownRuns
  <2>2. TypeGates'
    BY <1>2, NoGateType DEF DisposeCancels, TypeGates
  <2>3. \A r \in Runs : [engine[r] EXCEPT ![cur[r]] = Torn(@)] \in [Gens -> AttemptRecord]
    <3>1. \A r \in Runs : \A g \in Gens : Torn(engine[r][g]) \in AttemptRecord
      BY CancelledType DEF TypeAttempts
    <3> QED
      BY <3>1 DEF TypeAttempts
  <2>4. engine' = [r \in Runs |-> IF r \in open /\ cur[r] # 0
                                 THEN [engine[r] EXCEPT ![cur[r]] = Torn(@)] ELSE engine[r]]
    BY <1>2 DEF DisposeCancels
  <2>5. TypeQueue'
    BY <1>2, QueueTeardownType DEF DisposeCancels
  <2>6. TypeJob'
    BY <1>2, <1>a, TailsType, CaptureType DEF DisposeCancels
  <2> HIDE DEF open
  <2>7. engine' \in [Runs -> [Gens -> AttemptRecord]]
    BY <2>3, <2>4 DEF TypeAttempts
  <2>8. TypeAttempts'
    BY <1>2, <2>7 DEF DisposeCancels, TypeAttempts
  <2> QED
    BY <1>2, <2>1, <2>2, <2>5, <2>6, <2>8 DEF DisposeCancels
<1>3. CASE DisposeDrains
  <2>1. TypeDrain'
    BY <1>3, <1>b DEF DisposeDrains, TypeDrain
  <2>2. TypeJob'
    BY <1>3, <1>a, TailsType, CaptureType DEF DisposeDrains, queueVars
  <2> QED
    BY <1>3, <2>1, <2>2 DEF DisposeDrains, queueVars
<1>4. CASE DisposeRetries
  <2>1. TypeDrain'
    BY <1>4, <1>b DEF DisposeRetries, TypeDrain
  <2>2. TypeQueue'
    BY <1>4, QueueTeardownType DEF DisposeRetries
  <2>3. TypeJob'
    BY <1>4, <1>a, TailsType, CaptureType DEF DisposeRetries
  <2> QED
    BY <1>4, <2>1, <2>2, <2>3 DEF DisposeRetries
<1>5. CASE DisposeFinalDrain
  <2>1. TypeDrain'
    BY <1>5, <1>b DEF DisposeFinalDrain, TypeDrain
  <2>2. TypeJob'
    BY <1>5, <1>a, TailsType, CaptureType DEF DisposeFinalDrain, queueVars
  <2> QED
    BY <1>5, <2>1, <2>2 DEF DisposeFinalDrain, queueVars
<1>6. CASE Disposed
  <2>1. TypeDrain'
    BY <1>6 DEF Disposed, TypeDrain
  <2> QED
    BY <1>6, <2>1 DEF Disposed, queueVars
<1> QED
  BY <1>1, <1>2, <1>3, <1>4, <1>5, <1>6 DEF DisposeStep

-----------------------------------------------------------------------------
LEMMA InitTypes == Init => TypeOK
<1> SUFFICES ASSUME Init PROVE TypeOK
  OBVIOUS
<1>1. 0 \in 0 .. MaxAttempts
  BY Bounds
<1>2. TypeLaunch /\ TypeDurable
  BY DEF Init, TypeLaunch, TypeDurable, StartPositions, StatusOrAbsent
<1>3. [st |-> "unborn", intent |-> "running", out |-> "none"] \in AttemptRecord
  BY DEF AttemptRecord
<1>4. TypeAttempts
  BY <1>1, <1>3 DEF Init, TypeAttempts
<1>5. TypeGates
  BY NoGateType DEF Init, TypeGates
<1>6. TypeQueue
  BY EmptySeq DEF Init, TypeQueue
<1>7. Idle \in JobRecord
  BY <1>1 DEF Idle, JobRecord, StatusOrAbsent
<1>8. TypeJob
  BY <1>1, <1>7 DEF Init, TypeJob
<1>9. TypeCapacity /\ TypeClose /\ TypeDrain /\ TypeBounds
  BY DEF Init, TypeCapacity, TypeClose, TypeDrain, TypeBounds
<1> QED
  BY <1>2, <1>4, <1>5, <1>6, <1>8, <1>9 DEF TypeOK

LEMMA StepTypes == TypeOK /\ [Next]_vars => TypeOK'
<1> SUFFICES ASSUME TypeOK, [Next]_vars PROVE TypeOK'
  OBVIOUS
<1>1. CASE UNCHANGED vars
  BY <1>1, Unchanged DEF vars, queueVars, TypeOK
<1>2. ASSUME NEW r \in Runs, LaunchStep(r) \/ Reserve(r)
      PROVE  TypeOK'
  BY <1>2, LaunchTypes
<1>3. ASSUME NEW r \in Runs, QueueStep(r)
      PROVE  TypeOK'
  BY <1>3, BeginTypes, ContinueTypes DEF QueueStep
<1>4. ASSUME NEW r \in Runs,
             \/ Ask(r) \/ EngineEvent(r) \/ EngineGate(r) \/ NoticeSettles(r)
             \/ \E g \in Gens : EngineQuiesces(r, g)
      PROVE  TypeOK'
  BY <1>4, EngineTypes
<1>5. ASSUME NEW a \in Agents, OwnerDisposed(a) \/ OwnerStep(a)
      PROVE  TypeOK'
  BY <1>5, OwnerTypes
<1>6. CASE Dispose \/ DisposeStep
  BY <1>6, DisposeTypes
<1> QED
  BY <1>1, <1>2, <1>3, <1>4, <1>5, <1>6 DEF Next

(* Every variable of the supervisor keeps its type in every reachable state, *)
(* for any number of runs, Agents and attempts.                              *)
THEOREM TypeCorrect == Spec => []TypeOK
<1>1. Init => TypeOK
  BY InitTypes
<1>2. TypeOK /\ [Next]_vars => TypeOK'
  BY StepTypes
<1> QED
  BY <1>1, <1>2, PTL DEF Spec
=============================================================================
