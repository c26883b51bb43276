--------------------------- MODULE RunSupervisor ---------------------------
(***************************************************************************)
(* The logical-run supervisor (src/src/supervisor/index.ts): admission of  *)
(* runs, replaceable engine attempts, the per-run queue of operations,     *)
(* human controls, gates, settlement, and the teardown of one owner Agent  *)
(* or of the whole supervisor.                                             *)
(*                                                                         *)
(* JavaScript runs each stretch between two awaits atomically, so one      *)
(* action below is one such stretch.  A run's operations are chained on    *)
(* run.tail: `queue[r]` holds those waiting and `job[r]` the one executing,*)
(* suspended at the await named by its pc.  The launching call is a second *)
(* thread of the run, whose position is `start[r]`.                        *)
(***************************************************************************)
EXTENDS Integers, Sequences, FiniteSets

CONSTANTS
  Runs,                \* runs that may be launched
  Agents,              \* owner Agents; each has one Session
  Owner,               \* the Agent that launches each run
  Sup,                 \* the supervisor itself, as a waiter of Dispose
  MaxRunsPerSession,   \* config.maxActiveRunsPerSession
  MaxRunsGlobal,       \* config.maxActiveRunsGlobal
  MaxAttempts,         \* bound: engine attempts of one run
  MaxGates,            \* bound: gates one run's scripts raise
  MaxOps,              \* bound: human controls per run
  MaxEvents,           \* bound: phase, log and member events per run
  MaxFaults,           \* bound: injected failures
  Controls,            \* the human controls of this instance
  Outcomes,            \* how an attempt may end in this instance
  GateKinds,           \* the gates its scripts use
  Faults,              \* the failures injected in this instance
  Teardown             \* the teardowns that may happen: "owner", "supervisor"

AllControls == {"pause", "stop", "resume", "raise", "answer"}
AllOutcomes == {"completed", "error", "cap", "dirty", "nocheckpoint", "diverged", "rejected"}
AllFaults   == {"lost", "late", "setup", "release", "notice", "limit"}

ASSUME ConstantsAssumption ==
  /\ Owner \in [Runs -> Agents]
  /\ IsFiniteSet(Runs)
  /\ Sup \notin Agents
  /\ MaxRunsPerSession \in Nat \ {0}
  /\ MaxRunsGlobal \in Nat \ {0}
  /\ MaxAttempts \in Nat \ {0}
  /\ {MaxGates, MaxOps, MaxEvents, MaxFaults} \subseteq Nat
  /\ Controls \subseteq AllControls
  /\ Outcomes \subseteq AllOutcomes
  /\ "error" \in Outcomes
  /\ GateKinds \subseteq {"await_user", "pause"}
  /\ Faults \subseteq AllFaults
  /\ Teardown \subseteq {"owner", "supervisor"}

VARIABLES
  start,          \* where the launching call stands
  aborted,        \* its ownerController's signal is aborted
  startRev,       \* the revision its direct terminal commit expects
  head,           \* run.head: the status and revision the supervisor holds
  row,            \* the Session manifest's row of the run
  delivery,       \* a completion notice is being delivered
  told,           \* the notifier has attempted this run's notice
  failure,        \* run.settlementFailure is set
  gen,            \* run.generation
  cur,            \* generation of run.attempt, 0 when it is undefined
  engine,         \* the engine attempts, by generation
  ckpt,           \* run.checkpoint is set
  gate,           \* run.gate
  parked,         \* the gate the script is parked on, 0 for none
  asked,          \* gates raised so far, which also names them
  shown,          \* gates whose request was emitted
  queue, job,     \* run.tail
  activeTotal, activeSession,
  admission, disposed, closedOwners, closing,
  ahead, awaited, \* the promises each teardown has captured
  drain,          \* disposeOwner, by Agent
  disposal, direct, firstError,       \* dispose
  ops, events, faults                 \* counters of the bounds

launchVars   == <<start, aborted, startRev>>
durableVars  == <<head, row, delivery, told, failure>>
attemptVars  == <<gen, cur, engine, ckpt>>
gateVars     == <<gate, parked, asked, shown>>
queueVars    == <<queue, job>>
capacityVars == <<activeTotal, activeSession>>
closeVars    == <<admission, disposed, closedOwners, closing>>
waitVars     == <<ahead, awaited>>
drainVars    == <<drain, disposal, direct, firstError>>
boundVars    == <<ops, events, faults>>
vars == <<launchVars, durableVars, attemptVars, gateVars, queueVars, capacityVars,
          closeVars, waitVars, drainVars, boundVars>>

-----------------------------------------------------------------------------
ACTIVE   == {"running", "pausing", "stopping", "needs-input", "paused", "budget-limited"}
TERMINAL == {"completed", "failed", "cancelled", "interrupted"}
(* Mutant: every active run is awaited. *)
AllActive == ACTIVE
Busy == {"running", "pausing", "stopping"}   \* what whenOwnerQuiescent waits for
Waiters  == Agents \cup {Sup}
Gens     == 1 .. MaxAttempts

NoGate == [id |-> 0, kind |-> "none", g |-> 0]
Idle   == [op |-> "none", pc |-> "idle", to |-> "absent", rev |-> 0, g |-> 0, id |-> 0, old |-> "absent"]
Op(op, g, id, kind) == [op |-> op, g |-> g, id |-> id, kind |-> kind]

Terminal(r) == head[r].status \in TERMINAL
Durable(r)  == row[r].status # "absent"
(* this.pendingStarts and this.runs *)
Pending(r)  == start[r] \notin {"idle", "done"}
Known(r)    == Durable(r) /\ start[r] \notin {"insert", "durable", "scratch"}
Owned(a)    == {r \in Runs : Owner[r] = a}
PendingOf(S) == {r \in S : Pending(r)}
KnownRuns   == {r \in Runs : Known(r)}

(* Mutant: cancel() is forgotten. *)
CancelForgotten(att) == att
(* An attempt after handle.cancel(): one not yet released never runs its script. *)
Cancelled(att) ==
  [att EXCEPT !.st = CASE @ = "inert" -> "withdrawn" [] @ = "running" -> "cancelling" [] OTHER -> @]
(* Mutant: teardown marks its intent and waits for the script to end by itself. *)
OnlyMarked(att) == [att EXCEPT !.intent = "teardown"]
Torn(att) == [Cancelled(att) EXCEPT !.intent = "teardown"]
(* Mutant: a control goes on without awaiting the attempt it cancelled. *)
NotAwaited(r, g) == engine[r][g].st # "unborn"
Quiesced(r, g) == engine[r][g].st = "quiescent"
(* Mutant: an event is applied whichever attempt is current. *)
AnyAttempt(r, g) == TRUE
(* currentAttempt *)
Current(r, g) == cur[r] = g
Live(r, g) == engine[r][g].st \in {"inert", "withdrawn", "running", "cancelling"}
WithIntent(r, g, intent) == [engine EXCEPT ![r][g].intent = intent]
HasCheckpoint(out) == out \in {"completed", "error", "cap", "dirty"}

-----------------------------------------------------------------------------
(* The queue.  A waiter of run.tail captured so many operations ahead of it. *)

Enqueue(r, op) == queue' = [queue EXCEPT ![r] = Append(@, op)]
Ready(r, op) == /\ job[r].pc = "idle"
                /\ queue[r] # <<>>
                /\ Head(queue[r]).op = op
Dequeue(r) == queue' = [queue EXCEPT ![r] = Tail(@)]

Ahead(r) == Len(queue[r]) + (IF job[r].pc = "idle" THEN 0 ELSE 1)
Less(n) == IF n = 0 THEN 0 ELSE n - 1
Done(r) ==
  /\ job' = [job EXCEPT ![r] = Idle]
  /\ ahead' = [w \in Waiters |-> [ahead[w] EXCEPT ![r] = Less(@)]]
  /\ UNCHANGED awaited
Suspend(r, step) ==
  /\ job' = [job EXCEPT ![r] = step]
  /\ UNCHANGED waitVars

(* commitActive, up to the await of store.commitRun. *)
Commit(r, op, to, g, id) ==
  Suspend(r, [op |-> op, pc |-> "commit", to |-> to, rev |-> head[r].rev, g |-> g, id |-> id,
              old |-> head[r].status])
(* Mutant: terminalize does not look whether the run has settled already. *)
TerminalizeAgain(r, op, to, g) ==
  Suspend(r, [Idle EXCEPT !.op = op, !.pc = "drain", !.to = to, !.g = g])
(* terminalize, up to the scratch drain: only its entry looks at the status. *)
Terminalize(r, op, to, g) ==
  IF Terminal(r) THEN Done(r)
  ELSE Suspend(r, [Idle EXCEPT !.op = op, !.pc = "drain", !.to = to, !.g = g])

Queued(r, op, g) ==
  \/ \E i \in 1 .. Len(queue[r]) : queue[r][i].op = op /\ queue[r][i].g = g
  \/ job[r].op = op /\ job[r].g = g
(* attempt.observation: the settleAttempt that quiescence queued has run. *)
Observed(r, g) == g # 0 => (Quiesced(r, g) /\ ~Queued(r, "settle", g))

-----------------------------------------------------------------------------
(* One store transaction: a compare-and-swap of the row's revision.  Injected *)
(* failures: "lost" throws before the manifest is replaced, "late" after it  *)
(* (enforceGlobalLimit runs behind the persist and may throw).               *)

MayFail(f) == f \in Faults /\ faults < MaxFaults
Blame(failed) == faults' = IF failed THEN faults + 1 ELSE faults
Results(r, rev) ==
  IF row[r].rev # rev THEN {"stale"} ELSE {"ok"} \cup {f \in {"lost", "late"} : MayFail(f)}
Write(r, res, status, notice) ==
  /\ row' = IF res \in {"ok", "late"}
            THEN [row EXCEPT ![r] = [status |-> status, rev |-> @.rev + 1, notice |-> notice]]
            ELSE row
  /\ Blame(res \in {"lost", "late"})

-----------------------------------------------------------------------------
(* Launch: start(), releaseStart(), createAttempt() *)

(* Mutant: only published runs are counted. *)
Unreserved(S) == 0
Reserved(S) == Cardinality(PendingOf(S))
Reserve(r) ==
  /\ start[r] = "idle"
  /\ admission /\ ~disposed
  /\ Owner[r] \notin closedOwners
  /\ activeSession[Owner[r]] + Reserved(Owned(Owner[r])) < MaxRunsPerSession
  /\ activeTotal + Reserved(Runs) < MaxRunsGlobal
  /\ start' = [start EXCEPT ![r] = "insert"]
  /\ UNCHANGED <<aborted, startRev, durableVars, attemptVars, gateVars, queueVars, capacityVars,
                 closeVars, waitVars, drainVars, boundVars>>

(* A caller abort, or any failure before the manifest commit, leaves no row. *)
InsertRejected(r) ==
  /\ start[r] = "insert"
  /\ start' = [start EXCEPT ![r] = "done"]
  /\ UNCHANGED <<aborted, startRev, durableVars, attemptVars, gateVars, queueVars, capacityVars,
                 closeVars, waitVars, drainVars, boundVars>>

InsertDurable(r) ==
  /\ start[r] = "insert"
  /\ start' = [start EXCEPT ![r] = "durable"]
  /\ row'  = [row EXCEPT ![r] = [status |-> "running", rev |-> 1, notice |-> "none"]]
  /\ head' = [head EXCEPT ![r] = [status |-> "running", rev |-> 1]]
  /\ UNCHANGED <<aborted, startRev, delivery, told, failure, attemptVars, gateVars, queueVars,
                 capacityVars, closeVars, waitVars, drainVars, boundVars>>

(* Mutant: a run is published without counting in its Session. *)
PublishUncounted(r) ==
  /\ closing' = closing
  /\ activeTotal' = activeTotal + 1
  /\ UNCHANGED <<activeSession, admission, disposed, closedOwners>>
(* The run enters this.runs and starts to count as active. *)
Publish(r) ==
  /\ closing' = IF ~admission /\ closing[r] = "none"
                THEN [closing EXCEPT ![r] = "supervisor"] ELSE closing
  /\ activeTotal' = activeTotal + 1
  /\ activeSession' = [activeSession EXCEPT ![Owner[r]] = @ + 1]
  /\ UNCHANGED <<admission, disposed, closedOwners>>

(* start's catch: the run is published and terminalized outside its queue. *)
LaunchFails(r) ==
  /\ start' = [start EXCEPT ![r] = "drain"]
  /\ Publish(r)
  /\ UNCHANGED attemptVars

NewAttempt(r) ==
  /\ gen[r] < MaxAttempts
  /\ gen' = [gen EXCEPT ![r] = @ + 1]
  /\ cur' = [cur EXCEPT ![r] = gen[r] + 1]
  /\ engine' = [engine EXCEPT ![r][gen[r] + 1] =
                  [st |-> IF aborted[r] THEN "withdrawn" ELSE "inert",
                   intent |-> "running", out |-> "none"]]
  /\ UNCHANGED ckpt

(* insertWithNextDisplayName returns, or throws after the row is durable. *)
Inserted(r) ==
  /\ start[r] = "durable"
  /\ \/ /\ ~aborted[r]
        /\ start' = [start EXCEPT ![r] = "scratch"]
        /\ Blame(FALSE)
        /\ UNCHANGED <<attemptVars, capacityVars, closeVars>>
     \/ /\ aborted[r] \/ MayFail("setup")
        /\ LaunchFails(r)
        /\ Blame(~aborted[r])
  /\ UNCHANGED <<aborted, startRev, durableVars, gateVars, queueVars, waitVars, drainVars, ops, events>>

(* createScratch returns: create the deferred attempt, publish, observe. *)
ScratchOpened(r) ==
  /\ start[r] = "scratch"
  /\ \/ /\ NewAttempt(r)
        /\ Publish(r)
        /\ start' = [start EXCEPT ![r] = "publish"]
        /\ Blame(FALSE)
     \/ /\ MayFail("setup")
        /\ LaunchFails(r)
        /\ Blame(TRUE)
  /\ UNCHANGED <<aborted, startRev, durableVars, gateVars, queueVars, waitVars, drainVars, ops, events>>

ShouldRelease(r, g) ==
  closing[r] = "none" /\ ~disposed /\ ~aborted[r] /\ engine[r][g].intent = "running"
Released(att) == [att EXCEPT !.st = IF @ = "inert" THEN "running" ELSE @]

(* workflows/run-start is published: release the deferred attempt, once. *)
ReleaseStart(r) ==
  /\ start[r] = "publish"
  /\ \/ /\ ~ShouldRelease(r, 1)
        /\ start' = [start EXCEPT ![r] = "done"]
        /\ Blame(FALSE)
        /\ UNCHANGED engine
     \/ /\ ShouldRelease(r, 1)
        /\ start' = [start EXCEPT ![r] = "done"]
        /\ engine' = [engine EXCEPT ![r][1] = Released(@)]
        /\ Blame(FALSE)
     \/ /\ ShouldRelease(r, 1) /\ MayFail("release")
        /\ start' = [start EXCEPT ![r] = "unreleased"]
        /\ engine' = [engine EXCEPT ![r][1] = Cancelled(@)]
        /\ Blame(TRUE)
  /\ UNCHANGED <<aborted, startRev, durableVars, gen, cur, ckpt, gateVars, queueVars,
                 capacityVars, closeVars, waitVars, drainVars, ops, events>>

UnreleasedQuiesced(r) ==
  /\ start[r] = "unreleased"
  /\ Quiesced(r, 1)
  /\ start' = [start EXCEPT ![r] = "failQueued"]
  /\ Enqueue(r, Op("failStart", 0, 0, "none"))
  /\ UNCHANGED <<aborted, startRev, durableVars, attemptVars, gateVars, job, capacityVars,
                 closeVars, waitVars, drainVars, boundVars>>

LaunchFailureSettled(r) ==
  /\ start[r] = "failQueued"
  /\ ~Queued(r, "failStart", 0)
  /\ start' = [start EXCEPT ![r] = "done"]
  /\ UNCHANGED <<aborted, startRev, durableVars, attemptVars, gateVars, queueVars, capacityVars,
                 closeVars, waitVars, drainVars, boundVars>>

-----------------------------------------------------------------------------
(* The engine, as the supervisor sees it through its handle and events.      *)

EngineEvent(r) ==
  /\ cur[r] # 0 /\ engine[r][cur[r]].st \in {"running", "cancelling"}
  /\ events[r] < MaxEvents
  /\ events' = [events EXCEPT ![r] = @ + 1]
  /\ Enqueue(r, Op("event", cur[r], 0, "none"))
  /\ UNCHANGED <<launchVars, durableVars, attemptVars, gateVars, job, capacityVars, closeVars,
                 waitVars, drainVars, ops, faults>>

(* A script parks on one gate at a time, until resume() or the attempt's end. *)
EngineGate(r) ==
  /\ cur[r] # 0 /\ engine[r][cur[r]].st = "running"
  /\ parked[r] = 0 /\ asked[r] < MaxGates
  /\ asked' = [asked EXCEPT ![r] = @ + 1]
  /\ parked' = [parked EXCEPT ![r] = asked[r] + 1]
  /\ \E kind \in GateKinds : Enqueue(r, Op("gate", cur[r], asked[r] + 1, kind))
  /\ UNCHANGED <<launchVars, durableVars, attemptVars, gate, shown, job, capacityVars, closeVars,
                 waitVars, drainVars, boundVars>>

(* attempt.quiescent settles, which queues settleAttempt. *)
EngineQuiesces(r, g) ==
  \E out \in Outcomes :
    /\ \/ engine[r][g].st = "running" /\ (parked[r] = 0 \/ out \in {"error", "dirty", "rejected"})
       \/ engine[r][g].st = "cancelling"
       \/ engine[r][g].st = "withdrawn" /\ out \in {"error", "dirty", "rejected"}
    /\ engine' = [engine EXCEPT ![r][g].st = "quiescent", ![r][g].out = out]
    /\ parked' = [parked EXCEPT ![r] = 0]
    /\ Enqueue(r, Op("settle", g, 0, "none"))
    /\ UNCHANGED <<launchVars, durableVars, gen, cur, ckpt, gate, asked, shown, job, capacityVars,
                   closeVars, waitVars, drainVars, boundVars>>

-----------------------------------------------------------------------------
(* Human and model controls: each call queues one operation on its run.      *)

Ask(r) ==
  /\ Known(r) /\ ops[r] < MaxOps /\ disposal # "done"
  /\ ops' = [ops EXCEPT ![r] = @ + 1]
  /\ \/ \E op \in Controls \ {"answer"} : Enqueue(r, Op(op, 0, 0, "none"))
     \/ "answer" \in Controls /\ \E id \in shown[r] : Enqueue(r, Op("answer", 0, id, "none"))
  /\ UNCHANGED <<launchVars, durableVars, attemptVars, gateVars, job, capacityVars, closeVars,
                 waitVars, drainVars, events, faults>>

ClearGate(r) == gate' = [gate EXCEPT ![r] = NoGate]

BeginPause(r) ==
  /\ Ready(r, "pause") /\ Dequeue(r)
  /\ \/ /\ head[r].status # "running" \/ cur[r] = 0
        /\ Done(r)
        /\ UNCHANGED <<engine, gate>>
     \/ /\ head[r].status = "running" /\ cur[r] # 0
        /\ engine' = WithIntent(r, cur[r], "pause")
        /\ ClearGate(r)
        /\ Commit(r, "pause", "pausing", cur[r], 0)
  /\ UNCHANGED <<launchVars, durableVars, gen, cur, ckpt, parked, asked, shown, capacityVars,
                 closeVars, drainVars, boundVars>>

BeginStop(r) ==
  /\ Ready(r, "stop") /\ Dequeue(r)
  /\ \/ /\ Terminal(r)
        /\ Done(r)
        /\ UNCHANGED <<engine, gate>>
     \/ /\ ~Terminal(r) /\ cur[r] = 0
        /\ ClearGate(r)
        /\ Terminalize(r, "stop", "cancelled", 0)
        /\ UNCHANGED engine
     \/ /\ ~Terminal(r) /\ cur[r] # 0
        /\ ClearGate(r)
        /\ engine' = WithIntent(r, cur[r], "stop")
        /\ Commit(r, "stop", "stopping", cur[r], 0)
  /\ UNCHANGED <<launchVars, durableVars, gen, cur, ckpt, parked, asked, shown, capacityVars,
                 closeVars, drainVars, boundVars>>

(* The live gate is answered: await_user continues, pause is replayed. *)
Acknowledge(r) ==
  /\ ClearGate(r)
  /\ \/ /\ gate[r].kind = "await_user"
        /\ Commit(r, "unpark", "running", cur[r], gate[r].id)
        /\ UNCHANGED engine
     \/ /\ gate[r].kind = "pause"
        /\ engine' = WithIntent(r, cur[r], "pause")
        /\ Commit(r, "replace", "pausing", cur[r], gate[r].id)

Closed(r) == disposed \/ ~admission \/ closing[r] # "none"
(* resumeRecord of a paused or budget-limited run whose stored revision is rev. *)
Reattach(r, rev, old) ==
  \/ /\ Closed(r) \/ ~ckpt[r] \/ gen[r] = MaxAttempts
     /\ Done(r)
     /\ UNCHANGED attemptVars
  \/ /\ ~Closed(r) /\ ckpt[r]
     /\ NewAttempt(r)
     /\ Suspend(r, [op |-> "resume", pc |-> "commit", to |-> "running", rev |-> rev,
                    g |-> gen[r] + 1, id |-> 0, old |-> old])

(* Mutant: an ordinary resume is accepted while the run still runs. *)
ResumableLive(r, op) == IF op = "raise" THEN {"budget-limited"} ELSE {"paused", "running"}
Resumable(r, op) == IF op = "raise" THEN {"budget-limited"} ELSE {"paused"}
BeginResume(r, op) ==
  /\ Ready(r, op) /\ Dequeue(r)
  /\ \/ /\ \/ Closed(r)
           \/ head[r].status \notin Resumable(r, op)
              /\ ~(op = "resume" /\ head[r].status = "needs-input" /\ gate[r] # NoGate /\ cur[r] # 0)
        /\ Done(r)
        /\ UNCHANGED <<attemptVars, gate>>
     \/ /\ ~Closed(r)
        /\ op = "resume" /\ head[r].status = "needs-input" /\ gate[r] # NoGate /\ cur[r] # 0
        /\ Acknowledge(r)
        /\ UNCHANGED <<gen, cur, ckpt>>
     \/ /\ ~Closed(r)
        /\ head[r].status \in Resumable(r, op)
        /\ Reattach(r, head[r].rev, head[r].status)
        /\ UNCHANGED gate
  /\ UNCHANGED <<launchVars, durableVars, parked, asked, shown, capacityVars, closeVars,
                 drainVars, boundVars>>

(* Mutant: the fence compares executions but not gates. *)
FencedByExecution(r, id) ==
  head[r].status = "needs-input" /\ gate[r] # NoGate /\ cur[r] # 0 /\ gate[r].g = cur[r]
(* resumeGate: only the exact gate that is still current may be acknowledged. *)
Fenced(r, id) ==
  /\ head[r].status = "needs-input"
  /\ gate[r] # NoGate /\ cur[r] # 0
  /\ gate[r].id = id /\ gate[r].g = cur[r]
BeginAnswer(r) ==
  /\ Ready(r, "answer") /\ Dequeue(r)
  /\ \/ ~Fenced(r, Head(queue[r]).id) /\ Done(r) /\ UNCHANGED <<engine, gate>>
     \/ Fenced(r, Head(queue[r]).id) /\ Acknowledge(r)
  /\ UNCHANGED <<launchVars, durableVars, gen, cur, ckpt, parked, asked, shown, capacityVars,
                 closeVars, drainVars, boundVars>>

-----------------------------------------------------------------------------
(* Operations queued by the engine's events and by its quiescence.           *)

BeginGate(r) ==
  LET op == Head(queue[r]) IN
  /\ Ready(r, "gate") /\ Dequeue(r)
  /\ \/ /\ ~Current(r, op.g) \/ head[r].status \in {"stopping", "pausing"}
        /\ Done(r)
        /\ UNCHANGED gate
     \/ /\ Current(r, op.g) /\ head[r].status \notin {"stopping", "pausing"}
        /\ gate' = [gate EXCEPT ![r] = [id |-> op.id, kind |-> op.kind, g |-> op.g]]
        /\ Commit(r, "gate", "needs-input", op.g, op.id)
  /\ UNCHANGED <<launchVars, durableVars, attemptVars, parked, asked, shown, capacityVars,
                 closeVars, drainVars, boundVars>>

(* A phase, log or member event; a start past maxMembersPerRun stops the attempt. *)
BeginEvent(r) ==
  LET g == Head(queue[r]).g IN
  /\ Ready(r, "event") /\ Dequeue(r)
  /\ \/ /\ ~Current(r, g)
        /\ Done(r) /\ Blame(FALSE)
        /\ UNCHANGED engine
     \/ /\ Current(r, g)
        /\ Commit(r, "event", head[r].status, g, 0) /\ Blame(FALSE)
        /\ UNCHANGED engine
     \/ /\ Current(r, g) /\ MayFail("limit")
        /\ engine' = [engine EXCEPT ![r][g] = [Cancelled(@) EXCEPT !.intent = "stop"]]
        /\ Done(r) /\ Blame(TRUE)
  /\ UNCHANGED <<launchVars, durableVars, gen, cur, ckpt, gateVars, capacityVars, closeVars,
                 drainVars, ops, events>>

(* Mutant: a paused attempt's checkpoint is not required. *)
SettledUnchecked(out, intent) ==
  CASE intent = "pause" -> "paused"
    [] intent = "stop" -> "cancelled"
    [] out = "cap" -> "budget-limited"
    [] out = "completed" -> "completed"
    [] OTHER -> "failed"
(* The status settleAttempt gives a run whose attempt ended so. *)
SettledAs(out, intent) ==
  CASE out = "diverged" /\ intent \in {"running", "pause"} -> "failed"
    [] out = "dirty" /\ intent # "teardown" -> "failed"
    [] intent = "pause" -> IF HasCheckpoint(out) THEN "paused" ELSE "failed"
    [] intent = "stop" -> "cancelled"
    [] intent = "teardown" -> "interrupted"
    [] out = "cap" -> "budget-limited"
    [] out \in {"completed", "nocheckpoint"} -> "completed"
    [] OTHER -> "failed"

BeginSettle(r) ==
  LET g  == Head(queue[r]).g
      to == SettledAs(engine[r][g].out, engine[r][g].intent)
  IN
  /\ Ready(r, "settle") /\ Dequeue(r)
  /\ \/ /\ ~Current(r, g)
        /\ Done(r)
        /\ UNCHANGED <<cur, ckpt, gate>>
     \/ /\ Current(r, g)
        /\ cur' = [cur EXCEPT ![r] = 0]
        /\ ckpt' = [ckpt EXCEPT ![r] = @ \/ HasCheckpoint(engine[r][g].out)]
        /\ ClearGate(r)
        /\ IF to \in TERMINAL THEN Terminalize(r, "settle", to, g)
           ELSE Commit(r, "settle", to, g, 0)
  /\ UNCHANGED <<launchVars, durableVars, gen, engine, parked, asked, shown, capacityVars,
                 closeVars, drainVars, boundVars>>

(* terminalize queued by a teardown, or by the failed release of a launch. *)
BeginTerminal(r) ==
  /\ \/ Ready(r, "teardown") /\ Terminalize(r, "teardown", "interrupted", 0)
     \/ Ready(r, "failStart") /\ Terminalize(r, "failStart", "failed", 0)
  /\ Dequeue(r)
  /\ UNCHANGED <<launchVars, durableVars, attemptVars, gateVars, capacityVars, closeVars,
                 drainVars, boundVars>>

-----------------------------------------------------------------------------
(* What an operation does when the promise it awaits settles.                *)

(* Pause, stop and a gate's replay have cancelled the attempt and await it. *)
AttemptQuiesced(r) ==
  LET j   == job[r]
      out == engine[r][j.g].out
      failing == IF j.op = "stop" THEN out \in {"rejected", "diverged", "dirty"}
                                  ELSE ~HasCheckpoint(out) \/ out = "dirty"
  IN
  /\ j.pc = "quiesce"
  /\ Quiesced(r, j.g)
  /\ \/ /\ ~Current(r, j.g) \/ (j.op = "replace" /\ out = "rejected")
        /\ Done(r)
        /\ UNCHANGED <<cur, ckpt>>
     \/ /\ Current(r, j.g) /\ ~(j.op = "replace" /\ out = "rejected")
        /\ cur' = [cur EXCEPT ![r] = 0]
        /\ ckpt' = [ckpt EXCEPT ![r] = @ \/ HasCheckpoint(out)]
        /\ IF failing THEN Terminalize(r, j.op, "failed", 0)
           ELSE IF j.op = "stop" THEN Terminalize(r, "stop", "cancelled", 0)
           ELSE Commit(r, j.op, "paused", 0, 0)
  /\ UNCHANGED <<launchVars, durableVars, gen, engine, gateVars, queue, capacityVars,
                 closeVars, drainVars, boundVars>>

(* The continuation of a commit that succeeded, or that commitActive skipped. *)
Committed(r) ==
  LET j == job[r] IN
  \/ /\ j.to \in {"pausing", "stopping"} /\ j.op \in {"pause", "stop", "replace"}
     /\ engine' = [engine EXCEPT ![r][j.g] = Cancelled(@)]
     /\ Suspend(r, [j EXCEPT !.pc = "quiesce"])
     /\ UNCHANGED <<gen, cur, ckpt, parked, shown, faults>>
  \/ /\ j.op = "replace" /\ j.to = "paused"
     /\ Reattach(r, j.rev + 1, "paused")
     /\ UNCHANGED <<parked, shown, faults>>
  \/ /\ j.op = "unpark"
     /\ parked' = [parked EXCEPT ![r] = IF engine[r][j.g].st = "running" THEN 0 ELSE @]
     /\ Done(r)
     /\ UNCHANGED <<attemptVars, shown, faults>>
  \/ /\ j.op = "gate"
     /\ shown' = [shown EXCEPT ![r] = @ \cup {j.id}]
     /\ Done(r)
     /\ UNCHANGED <<attemptVars, parked, faults>>
  \/ /\ j.op = "resume" /\ ~ShouldRelease(r, j.g)
     /\ Done(r)
     /\ UNCHANGED <<attemptVars, parked, shown, faults>>
  \/ /\ j.op = "resume" /\ ShouldRelease(r, j.g)
     /\ engine' = [engine EXCEPT ![r][j.g] = Released(@)]
     /\ Done(r)
     /\ UNCHANGED <<gen, cur, ckpt, parked, shown, faults>>
  \/ /\ j.op = "resume" /\ ShouldRelease(r, j.g) /\ MayFail("release")
     /\ cur' = [cur EXCEPT ![r] = 0]
     /\ engine' = [engine EXCEPT ![r][j.g] = Cancelled(@)]
     /\ Suspend(r, [j EXCEPT !.op = "restore", !.pc = "rollback"])
     /\ Blame(TRUE)
     /\ UNCHANGED <<gen, ckpt, parked, shown>>
  \/ /\ \/ j.op \in {"event", "settle", "restore"}
        \/ j.op = "pause" /\ j.to = "paused"
     /\ Done(r)
     /\ UNCHANGED <<attemptVars, parked, shown, faults>>

(* The continuation of a commit that threw: resume rolls its attempt back, a *)
(* failed rollback terminalizes, any other operation just rejects.           *)
NotCommitted(r) ==
  LET j == job[r] IN
  \/ /\ j.op = "resume"
     /\ cur' = [cur EXCEPT ![r] = 0]
     /\ engine' = [engine EXCEPT ![r][j.g] = Cancelled(@)]
     /\ Suspend(r, [j EXCEPT !.pc = "rollback"])
     /\ UNCHANGED <<gen, ckpt, failure>>
  \/ /\ j.op = "restore"
     /\ Terminalize(r, "restore", "failed", 0)
     /\ UNCHANGED <<attemptVars, failure>>
  \/ /\ j.op \notin {"resume", "restore"}
     /\ failure' = [failure EXCEPT ![r] = @ \/ j.op = "settle"]
     /\ Done(r)
     /\ UNCHANGED attemptVars

CommitSettles(r) ==
  LET j == job[r] IN
  /\ j.pc = "commit"
  /\ \/ /\ Terminal(r)
        /\ Committed(r)
        /\ UNCHANGED <<head, row, failure>>
     \/ /\ ~Terminal(r) /\ row[r].rev = j.rev
        /\ row'  = [row  EXCEPT ![r].status = j.to, ![r].rev = j.rev + 1]
        /\ head' = [head EXCEPT ![r] = [status |-> j.to, rev |-> j.rev + 1]]
        /\ Committed(r)
        /\ UNCHANGED failure
     \/ /\ ~Terminal(r)
        /\ \E res \in Results(r, j.rev) \ {"ok"} : Write(r, res, j.to, row[r].notice)
        /\ NotCommitted(r)
        /\ UNCHANGED <<head, parked, shown>>
  /\ UNCHANGED <<launchVars, delivery, told, gate, asked, queue, capacityVars, closeVars,
                 drainVars, ops, events>>

(* A resume that failed waits for the attempt it cancelled, then restores the *)
(* previous status if its own commit had succeeded.                           *)
RollbackQuiesced(r) ==
  LET j == job[r] IN
  /\ j.pc = "rollback"
  /\ Quiesced(r, j.g)
  /\ IF j.op = "restore" /\ ~Terminal(r) THEN Commit(r, "restore", j.old, 0, 0) ELSE Done(r)
  /\ UNCHANGED <<launchVars, durableVars, attemptVars, gateVars, queue, capacityVars, closeVars,
                 drainVars, boundVars>>

-----------------------------------------------------------------------------
(* terminalize, from the scratch drain on.  The launching call runs it in its *)
(* own thread, beside the queue.                                              *)

TerminalSettles(r, rev, to) ==
  \E res \in Results(r, rev) :
    /\ Write(r, res, to, "claimed")
    /\ \/ /\ res = "ok"
          /\ head' = [head EXCEPT ![r] = [status |-> to, rev |-> rev + 1]]
          /\ activeTotal' = Less(activeTotal)
          /\ activeSession' = [activeSession EXCEPT ![Owner[r]] = Less(@)]
          /\ ClearGate(r)
          /\ delivery' = [delivery EXCEPT ![r] = TRUE]
          /\ failure' = [failure EXCEPT ![r] = FALSE]
       \/ /\ res # "ok"
          /\ failure' = [failure EXCEPT ![r] = TRUE]
          /\ UNCHANGED <<head, capacityVars, gate, delivery>>
    /\ UNCHANGED told

Drained(r) ==
  /\ job[r].pc = "drain"
  /\ Suspend(r, [job[r] EXCEPT !.pc = "claim", !.rev = head[r].rev])
  /\ UNCHANGED <<launchVars, durableVars, attemptVars, gateVars, queue, capacityVars, closeVars,
                 drainVars, boundVars>>

TerminalSettled(r) ==
  /\ job[r].pc = "claim"
  /\ TerminalSettles(r, job[r].rev, job[r].to)
  /\ Done(r)
  /\ UNCHANGED <<launchVars, attemptVars, parked, asked, shown, queue, closeVars, drainVars,
                 ops, events>>

LaunchDrained(r) ==
  /\ start[r] = "drain"
  /\ start' = [start EXCEPT ![r] = "claim"]
  /\ startRev' = [startRev EXCEPT ![r] = head[r].rev]
  /\ UNCHANGED <<aborted, durableVars, attemptVars, gateVars, queueVars, capacityVars, closeVars,
                 waitVars, drainVars, boundVars>>

LaunchSettled(r) ==
  /\ start[r] = "claim"
  /\ start' = [start EXCEPT ![r] = "done"]
  /\ TerminalSettles(r, startRev[r], "failed")
  /\ UNCHANGED <<aborted, startRev, attemptVars, parked, asked, shown, queueVars, closeVars,
                 waitVars, drainVars, ops, events>>

(* The notifier delivers a run's notice at most once, finalizes its claim in  *)
(* the row, and the supervisor then refreshes run.head from that row.         *)
NoticeSettles(r) ==
  /\ delivery[r]
  /\ delivery' = [delivery EXCEPT ![r] = FALSE]
  /\ told' = [told EXCEPT ![r] = TRUE]
  /\ \/ /\ ~told[r] /\ Blame(FALSE)
        /\ row' = [row EXCEPT ![r].rev = @ + 1, ![r].notice = "final"]
     \/ /\ told[r] \/ MayFail("notice")
        /\ Blame(~told[r])
        /\ UNCHANGED row
  /\ head' = IF row'[r].rev > head[r].rev
             THEN [head EXCEPT ![r] = [status |-> row'[r].status, rev |-> row'[r].rev]] ELSE head
  /\ UNCHANGED <<launchVars, failure, attemptVars, gateVars, queueVars, capacityVars, closeVars,
                 waitVars, drainVars, ops, events>>

-----------------------------------------------------------------------------
(* Teardown.  A waiter captures promises: the operations ahead of it on a    *)
(* run's tail, and the observation of the attempt it cancelled.              *)

WaitOver(w) == \A r \in Runs : ahead[w][r] = 0 /\ Observed(r, awaited[w][r])
Tails(S) == [r \in Runs |-> IF r \in S THEN Ahead(r) ELSE 0]
Observations(S) == [r \in Runs |-> IF r \in S THEN cur[r] ELSE 0]
Capture(w, tails, observations) ==
  /\ ahead' = [ahead EXCEPT ![w] = tails]
  /\ awaited' = [awaited EXCEPT ![w] = observations]

(* Abort the pending starts of S: their engines see the same signal. *)
AbortPending(S) ==
  /\ aborted' = [r \in Runs |-> aborted[r] \/ r \in PendingOf(S)]
  /\ engine' = [r \in Runs |-> IF r \in PendingOf(S)
                                THEN [g \in Gens |-> Cancelled(engine[r][g])] ELSE engine[r]]
CloseRuns(S, by) ==
  closing' = [r \in Runs |-> IF r \in S /\ Known(r) /\ closing[r] = "none" THEN by ELSE closing[r]]

(* disposeOwner, on agent/disposed *)
OwnerDisposed(a) ==
  /\ "owner" \in Teardown /\ drain[a].pc = "none"
  /\ closedOwners' = closedOwners \cup {a}
  /\ AbortPending(Owned(a))
  /\ CloseRuns(Owned(a), "owner")
  /\ drain' = [drain EXCEPT ![a].pc = "pending"]
  /\ UNCHANGED <<start, startRev, durableVars, gen, cur, ckpt, gateVars, queueVars, capacityVars,
                 admission, disposed, waitVars, disposal, direct, firstError, boundVars>>

(* Mutant: only runs with work in progress are disposed. *)
ToDisposeBusy(a) == {r \in Owned(a) : Known(r) /\ head[r].status \in Busy}
ToDispose(a) == {r \in Owned(a) : Known(r) /\ ~Terminal(r)}
OwnerStartsSettled(a) ==
  /\ drain[a].pc = "pending" /\ PendingOf(Owned(a)) = {}
  /\ drain' = [drain EXCEPT ![a] = [pc |-> "loop", run |-> @.run,
                  todo |-> ToDispose(a)]]
  /\ UNCHANGED <<launchVars, durableVars, attemptVars, gateVars, queueVars, capacityVars, closeVars,
                 waitVars, disposal, direct, firstError, boundVars>>

(* The loop's next run: cancel its attempt, or queue its interruption. *)
OwnerNextRun(a) == \E r \in drain[a].todo :
  /\ drain[a].pc = "loop"
  /\ drain' = [drain EXCEPT ![a] = [pc |-> "op", run |-> {r}, todo |-> @.todo \ {r}]]
  /\ ClearGate(r)
  /\ \/ /\ cur[r] # 0
        /\ engine' = [engine EXCEPT ![r][cur[r]] = Torn(@)]
        /\ Capture(a, Tails({}), Observations({r}))
        /\ UNCHANGED queue
     \/ /\ cur[r] = 0
        /\ Enqueue(r, Op("teardown", 0, 0, "none"))
        /\ Capture(a, [Tails({}) EXCEPT ![r] = Ahead(r) + 1], Observations({}))
        /\ UNCHANGED engine
  /\ UNCHANGED <<launchVars, durableVars, gen, cur, ckpt, parked, asked, shown, job, capacityVars,
                 closeVars, disposal, direct, firstError, boundVars>>

OwnerAwaitsTail(a) ==
  /\ drain[a].pc = "op" /\ WaitOver(a)
  /\ drain' = [drain EXCEPT ![a].pc = "tail"]
  /\ Capture(a, Tails(drain[a].run), Observations({}))
  /\ UNCHANGED <<launchVars, durableVars, attemptVars, gateVars, queueVars, capacityVars, closeVars,
                 disposal, direct, firstError, boundVars>>

OwnerRunDrained(a) ==
  /\ drain[a].pc = "tail" /\ WaitOver(a)
  /\ \A r \in drain[a].run : ~delivery[r]
  /\ drain' = [drain EXCEPT ![a].pc = "loop", ![a].run = {}]
  /\ UNCHANGED <<launchVars, durableVars, attemptVars, gateVars, queueVars, capacityVars, closeVars,
                 waitVars, disposal, direct, firstError, boundVars>>

(* whenOwnerQuiescent: capture every promise, await them, look again. *)
OwnerCaptures(a) ==
  Capture(a, Tails(Owned(a) \cap KnownRuns),
          Observations({r \in Owned(a) \cap KnownRuns : head[r].status \in Busy}))
OwnerUnquiet(a) == \/ PendingOf(Owned(a)) # {}
                   \/ \E r \in Owned(a) \cap KnownRuns : delivery[r] \/ head[r].status \in Busy
OwnerQuiesces(a) ==
  /\ \/ /\ drain[a].pc = "loop" /\ drain[a].todo = {}
        /\ OwnerCaptures(a)
        /\ drain' = [drain EXCEPT ![a].pc = "quiet"]
     \/ /\ drain[a].pc = "quiet" /\ WaitOver(a)
        /\ PendingOf(Owned(a)) = {} /\ \A r \in Owned(a) : ~delivery[r]
        /\ IF OwnerUnquiet(a)
           THEN OwnerCaptures(a) /\ UNCHANGED drain
           ELSE drain' = [drain EXCEPT ![a].pc = "done"] /\ UNCHANGED waitVars
  /\ UNCHANGED <<launchVars, durableVars, attemptVars, gateVars, queueVars, capacityVars, closeVars,
                 disposal, direct, firstError, boundVars>>

(* closeAdmissionSync *)
CloseAdmission ==
  IF admission THEN /\ admission' = FALSE
                    /\ AbortPending(Runs)
                    /\ CloseRuns(Runs, "supervisor")
  ELSE UNCHANGED <<admission, aborted, engine, closing>>

Dispose ==
  /\ "supervisor" \in Teardown /\ disposal = "none"
  /\ CloseAdmission
  /\ disposed' = TRUE
  /\ disposal' = "pending"
  /\ UNCHANGED <<start, startRev, durableVars, gen, cur, ckpt, gateVars, queueVars, capacityVars,
                 closedOwners, waitVars, drain, direct, firstError, boundVars>>

(* Mutant: only the failures known when dispose began are kept. *)
Forget == firstError' = firstError
Remember == firstError' = (firstError \/ \E r \in KnownRuns : failure[r])
Deliveries == \E r \in KnownRuns : delivery[r]
QueueTeardown(S) ==
  queue' = [r \in Runs |-> IF r \in S THEN Append(queue[r], Op("teardown", 0, 0, "none")) ELSE queue[r]]
QueuedTails(S) == [r \in Runs |-> IF r \in S THEN Ahead(r) + 1 ELSE 0]

(* Every pending start has settled: cancel the attempts, and queue the        *)
(* interruption of the runs that have none.                                   *)
DisposeCancels ==
  LET open == {r \in KnownRuns : ~Terminal(r)} IN
  /\ disposal = "pending" /\ PendingOf(Runs) = {}
  /\ disposal' = "direct"
  /\ direct' = {r \in open : cur[r] = 0}
  /\ gate' = [r \in Runs |-> IF r \in open THEN NoGate ELSE gate[r]]
  /\ engine' = [r \in Runs |-> IF r \in open /\ cur[r] # 0
        THEN [engine[r] EXCEPT ![cur[r]] = Torn(@)] ELSE engine[r]]
  /\ QueueTeardown({r \in open : cur[r] = 0})
  /\ Capture(Sup, QueuedTails({r \in open : cur[r] = 0}), Observations({}))
  /\ Remember
  /\ UNCHANGED <<launchVars, durableVars, gen, cur, ckpt, parked, asked, shown, job, capacityVars,
                 closeVars, drain, boundVars>>

DisposeDrains ==
  /\ disposal = "direct" /\ WaitOver(Sup)
  /\ disposal' = "drain"
  /\ Capture(Sup, Tails(KnownRuns), Observations(KnownRuns))
  /\ Remember
  /\ UNCHANGED <<launchVars, durableVars, attemptVars, gateVars, queueVars, capacityVars, closeVars,
                 drain, direct, boundVars>>

(* Mutant: nothing is tried again. *)
NoRetry == {}
Unsettled == {r \in KnownRuns \ direct : ~Terminal(r) /\ cur[r] = 0}
DisposeRetries ==
  /\ disposal = "drain" /\ WaitOver(Sup) /\ ~Deliveries
  /\ disposal' = "retry"
  /\ QueueTeardown(Unsettled)
  /\ Capture(Sup, QueuedTails(Unsettled), Observations({}))
  /\ Remember
  /\ UNCHANGED <<launchVars, durableVars, attemptVars, gateVars, job, capacityVars, closeVars,
                 drain, direct, boundVars>>

DisposeFinalDrain ==
  /\ disposal = "retry" /\ WaitOver(Sup)
  /\ disposal' = "final"
  /\ Capture(Sup, Tails(KnownRuns), Observations({}))
  /\ Remember
  /\ UNCHANGED <<launchVars, durableVars, attemptVars, gateVars, queueVars, capacityVars, closeVars,
                 drain, direct, boundVars>>

Disposed ==
  /\ disposal = "final" /\ WaitOver(Sup) /\ ~Deliveries
  /\ disposal' = "done"
  /\ UNCHANGED <<launchVars, durableVars, attemptVars, gateVars, queueVars, capacityVars, closeVars,
                 waitVars, drain, direct, firstError, boundVars>>

-----------------------------------------------------------------------------
Init ==
  /\ start = [r \in Runs |-> "idle"]
  /\ aborted = [r \in Runs |-> FALSE]
  /\ startRev = [r \in Runs |-> 0]
  /\ head = [r \in Runs |-> [status |-> "absent", rev |-> 0]]
  /\ row = [r \in Runs |-> [status |-> "absent", rev |-> 0, notice |-> "none"]]
  /\ delivery = [r \in Runs |-> FALSE]
  /\ told = [r \in Runs |-> FALSE]
  /\ failure = [r \in Runs |-> FALSE]
  /\ gen = [r \in Runs |-> 0]
  /\ cur = [r \in Runs |-> 0]
  /\ engine = [r \in Runs |-> [g \in Gens |-> [st |-> "unborn", intent |-> "running", out |-> "none"]]]
  /\ ckpt = [r \in Runs |-> FALSE]
  /\ gate = [r \in Runs |-> NoGate]
  /\ parked = [r \in Runs |-> 0]
  /\ asked = [r \in Runs |-> 0]
  /\ shown = [r \in Runs |-> {}]
  /\ queue = [r \in Runs |-> <<>>]
  /\ job = [r \in Runs |-> Idle]
  /\ activeTotal = 0
  /\ activeSession = [a \in Agents |-> 0]
  /\ admission = TRUE
  /\ disposed = FALSE
  /\ closedOwners = {}
  /\ closing = [r \in Runs |-> "none"]
  /\ ahead = [w \in Waiters |-> [r \in Runs |-> 0]]
  /\ awaited = [w \in Waiters |-> [r \in Runs |-> 0]]
  /\ drain = [a \in Agents |-> [pc |-> "none", run |-> {}, todo |-> {}]]
  /\ disposal = "none"
  /\ direct = {}
  /\ firstError = FALSE
  /\ ops = [r \in Runs |-> 0]
  /\ events = [r \in Runs |-> 0]
  /\ faults = 0

LaunchStep(r) ==
  \/ InsertRejected(r) \/ InsertDurable(r) \/ Inserted(r) \/ ScratchOpened(r)
  \/ ReleaseStart(r) \/ UnreleasedQuiesced(r) \/ LaunchFailureSettled(r)
  \/ LaunchDrained(r) \/ LaunchSettled(r)
QueueStep(r) ==
  \/ BeginPause(r) \/ BeginStop(r) \/ BeginResume(r, "resume") \/ BeginResume(r, "raise")
  \/ BeginAnswer(r) \/ BeginGate(r) \/ BeginEvent(r) \/ BeginSettle(r) \/ BeginTerminal(r)
  \/ AttemptQuiesced(r) \/ CommitSettles(r) \/ RollbackQuiesced(r)
  \/ Drained(r) \/ TerminalSettled(r)
OwnerStep(a) ==
  \/ OwnerStartsSettled(a) \/ OwnerNextRun(a) \/ OwnerAwaitsTail(a)
  \/ OwnerRunDrained(a) \/ OwnerQuiesces(a)
DisposeStep ==
  DisposeCancels \/ DisposeDrains \/ DisposeRetries \/ DisposeFinalDrain \/ Disposed

Next ==
  \/ \E r \in Runs : \/ Reserve(r) \/ LaunchStep(r) \/ QueueStep(r) \/ Ask(r)
                     \/ EngineEvent(r) \/ EngineGate(r) \/ NoticeSettles(r)
                     \/ \E g \in Gens : EngineQuiesces(r, g)
  \/ \E a \in Agents : OwnerDisposed(a) \/ OwnerStep(a)
  \/ Dispose \/ DisposeStep

(* The event loop runs every continuation whose promise has settled; store and *)
(* scratch I/O ends; a cancelled attempt quiesces within the engine's grace    *)
(* period.  Nothing makes a script end, a user act or an owner go away.        *)
Fairness ==
  /\ \A r \in Runs : /\ WF_vars(LaunchStep(r))
                     /\ WF_vars(QueueStep(r))
                     /\ WF_vars(NoticeSettles(r))
                     /\ \A g \in Gens : WF_vars(/\ engine[r][g].st \in {"cancelling", "withdrawn"}
                                                /\ EngineQuiesces(r, g))
  /\ \A a \in Agents : WF_vars(OwnerStep(a))
  /\ WF_vars(DisposeStep)

Spec == Init /\ [][Next]_vars
FairSpec == Spec /\ Fairness

-----------------------------------------------------------------------------
StatusOrAbsent == ACTIVE \cup TERMINAL \cup {"absent"}
OpNames == AllControls \cup {"gate", "event", "settle", "teardown", "failStart"}
OpRecord == [op : OpNames, g : 0 .. MaxAttempts, id : Nat, kind : GateKinds \cup {"none"}]
JobRecord == [op : OpNames \cup {"none", "unpark", "replace", "restore"},
              pc : {"idle", "commit", "quiesce", "rollback", "drain", "claim"},
              to : StatusOrAbsent, rev : Nat, g : 0 .. MaxAttempts, id : Nat, old : StatusOrAbsent]
AttemptRecord == [st : {"unborn", "inert", "withdrawn", "running", "cancelling", "quiescent"},
                  intent : {"running", "pause", "stop", "teardown"},
                  out : Outcomes \cup {"none"}]
GateRecord == [id : Nat, kind : GateKinds \cup {"none"}, g : 0 .. MaxAttempts]

StartPositions == {"idle", "insert", "durable", "scratch", "publish", "unreleased",
                   "failQueued", "drain", "claim", "done"}
TypeLaunch ==
  /\ start \in [Runs -> StartPositions]
  /\ aborted \in [Runs -> BOOLEAN]
  /\ startRev \in [Runs -> Nat]
TypeDurable ==
  /\ head \in [Runs -> [status : StatusOrAbsent, rev : Nat]]
  /\ row \in [Runs -> [status : StatusOrAbsent, rev : Nat,
                      notice : {"none", "claimed", "final"}]]
  /\ delivery \in [Runs -> BOOLEAN]
  /\ told \in [Runs -> BOOLEAN]
  /\ failure \in [Runs -> BOOLEAN]
TypeAttempts ==
  /\ gen \in [Runs -> 0 .. MaxAttempts]
  /\ cur \in [Runs -> 0 .. MaxAttempts]
  /\ engine \in [Runs -> [Gens -> AttemptRecord]]
  /\ ckpt \in [Runs -> BOOLEAN]
TypeGates ==
  /\ gate \in [Runs -> GateRecord]
  /\ parked \in [Runs -> Nat]
  /\ asked \in [Runs -> Nat]
  /\ shown \in [Runs -> SUBSET Nat]
TypeQueue ==
  queue \in [Runs -> Seq(OpRecord)]
TypeJob ==
  /\ job \in [Runs -> JobRecord]
  /\ ahead \in [Waiters -> [Runs -> Nat]]
  /\ awaited \in [Waiters -> [Runs -> 0 .. MaxAttempts]]
TypeCapacity ==
  /\ activeTotal \in Nat
  /\ activeSession \in [Agents -> Nat]
TypeClose ==
  /\ admission \in BOOLEAN /\ disposed \in BOOLEAN
  /\ closedOwners \subseteq Agents
  /\ closing \in [Runs -> {"none", "owner", "supervisor"}]
TypeDrain ==
  /\ drain \in [Agents -> [pc : {"none", "pending", "loop", "op", "tail", "quiet", "done"},
                           run : SUBSET Runs, todo : SUBSET Runs]]
  /\ disposal \in {"none", "pending", "direct", "drain", "retry", "final", "done"}
  /\ direct \subseteq Runs
  /\ firstError \in BOOLEAN
TypeBounds == ops \in [Runs -> Nat] /\ events \in [Runs -> Nat] /\ faults \in Nat
(* Every variable keeps its type: statuses, positions and generations stay in *)
(* the sets the code's unions and bounds give them.                           *)
TypeOK ==
  /\ TypeLaunch /\ TypeDurable /\ TypeAttempts /\ TypeGates
  /\ TypeQueue /\ TypeJob /\ TypeCapacity /\ TypeClose /\ TypeDrain /\ TypeBounds

(* A run never has two engine attempts that are not quiescent: pause, stop,   *)
(* gate replay, resume and a resume's rollback all await the old one before   *)
(* createAttempt can be reached again.                                        *)
AtMostOneLiveAttempt ==
  \A r \in Runs : \A g, h \in Gens : Live(r, g) /\ Live(r, h) => g = h

(* A run that looks settled is: its last attempt has quiesced, nothing of it  *)
(* stays current, and no gate of it can still be answered.                    *)
TerminalIsQuiescent ==
  \A r \in Runs : Terminal(r) => /\ \A g \in Gens : ~Live(r, g)
                                /\ cur[r] = 0 /\ gate[r] = NoGate

(* A parked run can be resumed: a replay checkpoint is held, and unless a     *)
(* resume is in progress no attempt of it is current or still running.        *)
PausedIsReplayable ==
  \A r \in Runs : head[r].status \in {"paused", "budget-limited"} =>
    /\ ckpt[r] /\ gate[r] = NoGate
    /\ job[r].op \notin {"resume", "restore"} => cur[r] = 0 /\ \A g \in Gens : ~Live(r, g)

(* A gate shown as needing input is the one the script is parked on, as long  *)
(* as its attempt runs and no operation or teardown is between the two.       *)
ShownGateIsParked ==
  \A r \in Runs :
    (/\ head[r].status = "needs-input" /\ job[r].pc = "idle" /\ closing[r] = "none"
     /\ cur[r] # 0 /\ engine[r][cur[r]].st = "running")
    => /\ gate[r].g = cur[r]
       /\ gate[r].id = parked[r] \/ Queued(r, "gate", cur[r])

(* An answer is accepted only for the gate the script is parked on, and releases *)
(* only that gate, whatever gates, attempts and answers were queued in between  *)
(* (resumeGate's fence).                                                        *)
AnswerReachesItsGate ==
  [][\A r \in Runs :
       /\ job[r].op = "unpark" /\ parked'[r] # parked[r] => parked[r] = job[r].id
       /\ /\ queue[r] # <<>> /\ queue'[r] = Tail(queue[r]) /\ Head(queue[r]).op = "answer"
          /\ job'[r].op \in {"unpark", "replace"}
          => /\ job'[r].id = Head(queue[r]).id
             /\ parked[r] \in {0, Head(queue[r]).id}]_vars

(* The live counters are the published runs that have not settled.            *)
CountersMatchRuns ==
  /\ activeTotal = Cardinality({r \in KnownRuns : ~Terminal(r)})
  /\ \A a \in Agents :
       activeSession[a] = Cardinality({r \in Owned(a) \cap KnownRuns : ~Terminal(r)})

(* Reservations and live runs together never exceed the configured limits,    *)
(* whatever launches interleave with settlements.                             *)
AdmissionWithinLimits ==
  LET Occupied == {r \in Runs : Pending(r) \/ (Durable(r) /\ row[r].status \notin TERMINAL)} IN
  /\ Cardinality(Occupied) <= MaxRunsGlobal
  /\ \A a \in Agents : Cardinality(Occupied \cap Owned(a)) <= MaxRunsPerSession

(* The supervisor implements RunLifecycle: whatever is queued, a run has one   *)
(* attempt at a time, its status moves along the table, and it is shown as     *)
(* parked or terminal only when its attempt has quiesced.  A teardown or a     *)
(* failure at the wrong moment breaks the last (README, section 10).           *)
Lifecycle == INSTANCE RunLifecycle WITH
  status <- [r \in Runs |-> head[r].status], generation <- gen,
  executing <- [r \in Runs |-> \E g \in Gens : Live(r, g)]
RefinesLifecycle == Lifecycle!Spec

(* A terminal row is final: no later commit of any thread changes its status. *)
TerminalIsFinal ==
  [][\A r \in Runs : row[r].status \in TERMINAL => row'[r].status = row[r].status]_vars

(* When dispose ends with a run whose row is not terminal, it rejects.        *)
DisposeReportsLoss ==
  disposal = "done" /\ (\E r \in KnownRuns : row[r].status \notin TERMINAL) => firstError

(* When the drain of an owner ends, its runs are terminal and nothing of them  *)
(* executes, except for a run whose terminal commit failed and which says so:  *)
(* "Teardown cancellation terminalizes already admitted rows".                 *)
OwnerDrainTerminalizes ==
  \A a \in Agents : drain[a].pc = "done" =>
    \A r \in Owned(a) \cap KnownRuns : /\ Terminal(r) \/ failure[r]
                                      /\ \A g \in Gens : ~Live(r, g)

(* Queued operations never wait on each other for ever: a run's tail settles. *)
TailSettles ==
  \A r \in Runs : (job[r].pc # "idle" \/ queue[r] # <<>>) ~> (job[r].pc = "idle" /\ queue[r] = <<>>)

(* dispose ends, whatever fails: it retries once and then fails forward.      *)
DisposeEnds == (disposal = "pending") ~> (disposal = "done")

(* The drain of a disposed owner reaches its fixed point and ends, unless a   *)
(* terminal commit was lost.                                                  *)
OwnerDrainEnds ==
  \A a \in Agents : (drain[a].pc = "pending") ~> (drain[a].pc = "done" \/ faults > 0)
-----------------------------------------------------------------------------
(* The inductive invariant behind AtMostOneLiveAttempt.                       *)

Early  == {"idle", "insert", "durable", "scratch"}
Parked == {"paused", "budget-limited"}

(* Before its run is published a launch has queued nothing, attached no       *)
(* attempt, and left a row that is at most "running".                         *)
LaunchInv ==
  /\ \A r \in Runs : start[r] \in Early =>
       /\ gen[r] = 0 /\ ~delivery[r]
       /\ job[r].pc = "idle" /\ queue[r] = <<>>
       /\ head[r].status \in {"absent", "running"}
  /\ \A r \in Runs : start[r] \in {"idle", "insert"} => row[r].status = "absent"
  /\ \A a \in Agents : \A r \in drain[a].todo : start[r] \notin Early

(* Generations are born in order, and only the newest may still be live.      *)
GenerationInv ==
  \A r \in Runs :
    /\ cur[r] = 0 \/ cur[r] = gen[r]
    /\ \A g \in Gens : g > gen[r] => engine[r][g].st = "unborn"
    /\ \A g \in Gens : g < gen[r] => ~Live(r, g)

(* An attempt is dropped only once it is quiescent, or by a resume that       *)
(* stays in its rollback until it is.                                         *)
DroppedInv ==
  \A r \in Runs :
    /\ \A g \in Gens : cur[r] = 0 /\ g = gen[r] /\ Live(r, g) => job[r].pc = "rollback"
    /\ job[r].pc = "rollback" => cur[r] = 0
    /\ job[r].op = "resume" => job[r].pc \in {"commit", "rollback"}
    /\ job[r].pc = "rollback" \/ job[r].op = "resume" => job[r].g = gen[r] /\ gen[r] # 0
    /\ \/ job[r].pc = "quiesce"
       \/ job[r].pc = "commit" /\ job[r].op \in {"pause", "stop", "replace"} /\ job[r].to # "paused"
       => job[r].g # 0

(* A parked run has no current attempt, and none becomes current before the   *)
(* commit of the resume that attaches it.                                     *)
ParkedInv ==
  \A r \in Runs :
    /\ head[r].status \in Parked =>
         cur[r] = 0 \/ (job[r].op = "resume" /\ job[r].pc = "commit" /\ job[r].to = "running")
    /\ job[r].pc = "commit" /\ job[r].to \in Parked => cur[r] = 0
    /\ job[r].pc \in {"drain", "claim"} => job[r].to \in TERMINAL
    /\ delivery[r] => Terminal(r) /\ row[r].status \in TERMINAL

(* An operation queued by an attempt names it, and settleAttempt is queued    *)
(* only by its quiescence.                                                    *)
QueueInv ==
  \A r \in Runs : \A i \in 1 .. Len(queue[r]) :
    /\ queue[r][i].op \in {"settle", "gate", "event"} => queue[r][i].g # 0
    /\ queue[r][i].op = "settle" => engine[r][queue[r][i].g].st = "quiescent"

AttemptInv == LaunchInv /\ GenerationInv /\ DroppedInv /\ ParkedInv /\ QueueInv
=============================================================================
