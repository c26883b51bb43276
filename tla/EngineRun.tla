----------------------------- MODULE EngineRun -----------------------------
(***************************************************************************)
(* One engine attempt (src/vendor/workflow-engine): WorkerRun on the host  *)
(* (host.ts), the worker thread that drives the script (session.ts,        *)
(* runtime.ts), and the two message ports between them.  A port is a FIFO  *)
(* channel of frames.  Each side handles one frame, promise callbacks      *)
(* included, before the next, so an action is one event of one side.       *)
(*                                                                         *)
(* The script is arbitrary: while it runs it may start the next agent,     *)
(* call another hook, return or throw at any moment, whatever it left      *)
(* unawaited.  An agent() call, its call id and its member sequence are    *)
(* one number, the order of the calls.                                     *)
(***************************************************************************)
EXTENDS Integers, Sequences, FiniteSets

CONSTANTS
  MaxAgents,     \* limits.maxTotalAgents
  MaxConcurrent, \* limits.maxConcurrentAgents
  MaxHooks,      \* bound: log, scratch and gate calls of the script
  Hooks,         \* those it uses in this instance
  Crashes        \* may the worker thread die by itself?

ASSUME EngineAssumption ==
  /\ MaxAgents \in Nat /\ MaxConcurrent \in Nat \ {0} /\ MaxHooks \in Nat
  /\ Hooks \subseteq {"log", "scratch", "await_user", "pause"}
  /\ Crashes \in BOOLEAN

VARIABLES
  toHost, toWorker, \* the ports
  alive,            \* the worker thread runs
  script,           \* worker: where drive() stands
  stopping,         \* worker: execution.cancel was called
  call,             \* worker: the agent() calls
  hook,             \* worker: the hook the script awaits
  hooks,            \* worker: hooks called
  ordinal,          \* worker: nextJournalOrdinal
  ready, released,  \* host: workerReady; released, or started without deferStart
  cancelled,        \* host: cancelReason is set
  claimed,          \* host: terminalClaimed
  death,            \* host: workerDeathObserved
  gone,             \* host: workerGone
  accused,          \* host: a frame was refused as a protocol violation
  outcome,          \* host: the settled result's stopReason
  pendingResult,    \* host: the Result that waits for scratch (drainingWorkerResult)
  grace,            \* host: graceTimer
  disposal,         \* host: dispose()
  child,            \* host: pendingStarts, children, reapedChildCallIds
  result,           \* host: resultState of the child record
  asked,            \* host: disposedChildCallIds
  announced, live,  \* host: announcedAgentSeqs, liveAgents
  ended,            \* the outcome of each agent-end the observer got
  journal,          \* host: journal entries, an agent's number or 0
  scratch,          \* host: pendingScratch
  broken,           \* host: scratchFailure
  shown             \* host: the observer was shown a gate it has not resumed

ports  == <<toHost, toWorker>>
worker == <<alive, script, stopping, call, hook, hooks, ordinal>>
status == <<ready, released, cancelled, claimed, death, gone, accused, outcome, pendingResult>>
timers == <<grace, disposal>>
kids   == <<child, result, asked>>
ledger == <<announced, live, ended, journal>>
effect == <<scratch, broken, shown>>
vars   == <<ports, worker, status, timers, kids, ledger, effect>>
-----------------------------------------------------------------------------
Agents == 1 .. MaxAgents

(* Frames.  `how` is an outcome, n a journal ordinal or the budget spent. *)
Message(type, a, how, n) == [type |-> type, agent |-> a, tell |-> how, n |-> n]
Frame(type)      == Message(type, 0, "none", 0)
Child(type, a)   == Message(type, a, "none", 0)
AgentEnd(a, how) == Message("agent-end", a, how, 0)
Commit(a, n)     == Message("journal-commit", a, "none", n)
Result(how, n)   == Message("result", 0, how, n)

(* Sets of calls, as the host counts them. *)
PendingStarts == {a \in Agents : child[a] \in {"starting", "refusing"}}
Children      == {a \in Agents : child[a] \in {"published", "disposing"}}
ActiveChildCallIds == PendingStarts \cup Children
HostStarted   == Cardinality({a \in Agents : child[a] # "none"})
Quiet         == ActiveChildCallIds = {} /\ scratch = 0

(* Sets of calls, as the worker counts them. *)
Slots   == {a \in Agents : call[a] \in {"starting", "running", "disposing"}}
Started == Cardinality({a \in Agents : call[a] # "idle"})
Queued  == {a \in Agents : call[a] = "queued"}

Init ==
  /\ toHost = <<Frame("ready")>> /\ toWorker = <<>>
  /\ alive = TRUE /\ script = "parked" /\ stopping = FALSE
  /\ call = [a \in Agents |-> "idle"] /\ hook = "none" /\ hooks = 0 /\ ordinal = 0
  /\ released \in BOOLEAN
  /\ ready = FALSE /\ cancelled = FALSE /\ claimed = FALSE
  /\ death = FALSE /\ gone = FALSE /\ accused = FALSE
  /\ outcome = "none" /\ pendingResult = "none" /\ grace = "off" /\ disposal = "none"
  /\ child = [a \in Agents |-> "none"] /\ result = [a \in Agents |-> "pending"] /\ asked = {}
  /\ announced = {} /\ live = {} /\ ended = [a \in Agents |-> "none"] /\ journal = <<>>
  /\ scratch = 0 /\ broken = FALSE /\ shown = FALSE
-----------------------------------------------------------------------------
(* The worker.  Frames posted together leave in one event. *)

Post(frames) == toHost' = toHost \o frames
Tell(a, state) == call' = [call EXCEPT ![a] = state]

(* releaseSlot: the agent that has waited longest takes the slot and starts. *)
ReleaseSlot(a) ==
  \/ Queued = {} /\ Tell(a, "done") /\ UNCHANGED toHost
  \/ \E b \in Queued :
       /\ \A d \in Queued : b <= d
       /\ call' = [call EXCEPT ![a] = "done", ![b] = "starting"]
       /\ Post(<<Child("child-start", b)>>)

Running == alive /\ script = "running" /\ ~stopping

SlotFree == Cardinality(Slots) < MaxConcurrent

(* agent(): it spends budget, then takes a slot or waits for one. *)
CallAgent(a) ==
  /\ Running /\ a = Started + 1
  /\ \/ SlotFree /\ Tell(a, "starting") /\ Post(<<Child("child-start", a)>>)
     \/ ~SlotFree /\ Tell(a, "queued") /\ UNCHANGED toHost
  /\ UNCHANGED <<toWorker, alive, script, stopping, hook, hooks, ordinal, status, timers, kids, ledger, effect>>

(* log() and phase() tell and commit at once. *)
CallLog ==
  /\ Running /\ hooks < MaxHooks /\ hooks' = hooks + 1
  /\ ordinal' = ordinal + 1 /\ Post(<<Frame("log"), Commit(0, ordinal + 1)>>)
  /\ UNCHANGED <<toWorker, alive, script, stopping, call, hook, status, timers, kids, ledger, effect>>
(* The scratch hooks, await_user() and pause() wait; one at a time. *)
CallHook(h) ==
  /\ Running /\ hooks < MaxHooks /\ hooks' = hooks + 1
  /\ hook = "none" /\ hook' = h
  /\ Post(<<Frame(IF h = "scratch" THEN "scratch-write" ELSE "gate")>>)
  /\ UNCHANGED <<toWorker, alive, script, stopping, call, ordinal, status, timers, kids, ledger, effect>>

(* drive() settles and the session posts its one Result. *)
ScriptEnds(how) ==
  /\ alive /\ script = "running"
  /\ script' = "ended"
  /\ Post(<<Result(IF stopping THEN "cancelled" ELSE how, Started)>>)
  /\ UNCHANGED <<toWorker, alive, stopping, call, hook, hooks, ordinal, status, timers, kids, ledger, effect>>

(* The port's handler for one frame of the host. *)
Go ==
  /\ script' = IF script = "parked" THEN "running" ELSE script
  /\ UNCHANGED <<toHost, stopping, call, hook, ordinal>>
(* execution.cancel: the body never runs when it had not begun. *)
CancelArrives ==
  /\ stopping' = TRUE
  /\ call' = [a \in Agents |-> IF call[a] = "queued" THEN "done" ELSE call[a]]
  /\ hook' = IF hook \in {"await_user", "pause"} THEN "none" ELSE hook
  /\ IF script = "parked" THEN script' = "ended" /\ Post(<<Result("cancelled", 0)>>)
     ELSE UNCHANGED <<script, toHost>>
  /\ UNCHANGED ordinal
ResumeArrives ==
  /\ \/ hook = "await_user" /\ hook' = "none" /\ ordinal' = ordinal + 1 /\ Post(<<Commit(0, ordinal + 1)>>)
     \/ hook = "pause" /\ UNCHANGED <<hook, ordinal>> /\ Post(<<Frame("gate")>>)
     \/ hook \notin {"await_user", "pause"} /\ UNCHANGED <<hook, ordinal, toHost>>
  /\ UNCHANGED <<script, stopping, call>>
ChildStarted(a) ==
  /\ IF stopping THEN Tell(a, "disposing") /\ Post(<<Child("child-dispose", a)>>)
     ELSE Tell(a, "running") /\ Post(<<Child("agent-start", a)>>)
  /\ UNCHANGED <<script, stopping, hook, ordinal>>
ChildStartError(a) ==
  /\ ReleaseSlot(a)
  /\ UNCHANGED <<script, stopping, hook, ordinal>>
(* Mutant: the end is posted ahead of the journal entry it must follow. *)
EndsThenCommits(a, how, n) == <<AgentEnd(a, how), Commit(a, n), Child("child-dispose", a)>>
CommitsThenEnds(a, how, n) == <<Commit(a, n), AgentEnd(a, how), Child("child-dispose", a)>>
ChildSettled(a) ==
  /\ IF call[a] # "running" THEN UNCHANGED <<call, toHost, ordinal>>
     ELSE /\ Tell(a, "disposing")
          /\ IF stopping
             THEN Post(<<AgentEnd(a, "cancelled"), Child("child-dispose", a)>>) /\ UNCHANGED ordinal
             ELSE /\ ordinal' = ordinal + 1
                  /\ \E how \in {"completed", "failed"} : Post(CommitsThenEnds(a, how, ordinal + 1))
  /\ UNCHANGED <<script, stopping, hook>>
ChildFailed(a) ==
  /\ IF call[a] # "running" THEN UNCHANGED <<call, toHost>>
     ELSE /\ Tell(a, "disposing")
          /\ Post(<<AgentEnd(a, IF stopping THEN "cancelled" ELSE "failed"), Child("child-dispose", a)>>)
  /\ UNCHANGED <<script, stopping, hook, ordinal>>
ChildDisposed(a) ==
  /\ ReleaseSlot(a)
  /\ UNCHANGED <<script, stopping, hook, ordinal>>
ScratchWritten ==
  /\ hook' = "none" /\ ordinal' = ordinal + 1 /\ Post(<<Commit(0, ordinal + 1)>>)
  /\ UNCHANGED <<script, stopping, call>>

(* What an ended script's leftovers still post is never looked at: every
   such frame follows the Result, which closes the host's admission. *)
WorkerReceives ==
  /\ alive /\ script # "ended" /\ toWorker # <<>>
  /\ toWorker' = Tail(toWorker)
  /\ LET m == Head(toWorker) IN
     \/ m.type = "go" /\ Go
     \/ m.type = "cancel" /\ CancelArrives
     \/ m.type = "resume" /\ ResumeArrives
     \/ m.type = "child-started" /\ ChildStarted(m.agent)
     \/ m.type = "child-start-error" /\ ChildStartError(m.agent)
     \/ m.type = "child-settled" /\ ChildSettled(m.agent)
     \/ m.type = "child-failed" /\ ChildFailed(m.agent)
     \/ m.type = "child-disposed" /\ ChildDisposed(m.agent)
     \/ m.type = "scratch-written" /\ ScratchWritten
  /\ UNCHANGED <<alive, hooks, status, timers, kids, ledger, effect>>

(* The thread dies; what it posted may still be delivered. *)
WorkerDies ==
  /\ Crashes /\ alive
  /\ alive' = FALSE /\ toWorker' = <<>>
  /\ UNCHANGED <<toHost, script, stopping, call, hook, hooks, ordinal, status, timers, kids, ledger, effect>>
-----------------------------------------------------------------------------
(* The host.  `post` drops what it cannot deliver. *)

Send(frames) == toWorker' = IF gone \/ death \/ ~alive THEN toWorker ELSE toWorker \o frames
Terminate    == alive' = FALSE /\ toWorker' = <<>>
Committed    == {journal[i] : i \in DOMAIN journal} \ {0}

(* reapChildren *)
Reaped == [a \in Agents |-> IF child[a] = "published" THEN "disposing" ELSE child[a]]

(* Mutant: agents that were started are left without an end. *)
LeaveStranded == UNCHANGED <<live, ended>>
(* endStrandedAgents *)
EndStranded ==
  /\ live' = {}
  /\ ended' = [a \in Agents |-> IF a \in live THEN "cancelled" ELSE ended[a]]

(* settleResult *)
Settle(how) == outcome' = how /\ grace' = "off"

(* onWorkerDeath *)
WorkerDeath ==
  /\ death' = TRUE /\ claimed' = TRUE
  /\ child' = Reaped /\ EndStranded
  /\ IF death \/ claimed THEN UNCHANGED <<outcome, grace>>
     ELSE Settle(IF cancelled THEN "cancelled" ELSE "error")

(* The checks of onMessage and of its handlers. *)
BadStart(a) == a > HostStarted \/ a \in announced \/ a \notin Children
BadEnd(a, how) ==
  \/ a \notin live
  \/ how = "cancelled"
  \/ how = "completed" /\ ~(a \in Committed /\ result[a] = "settled")
  \/ how = "failed" /\ result[a] # (IF a \in Committed THEN "settled" ELSE "failed")
BadCommit(a, n) ==
  \/ n # Len(journal) + 1
  \/ a # 0 /\ (a \notin live \/ result[a] # "settled" \/ a \in Committed)
BadChildStart(a) ==
  child[a] # "none" \/ HostStarted >= MaxAgents \/ Cardinality(ActiveChildCallIds) >= MaxConcurrent
BadDispose(a) == a \in asked \/ a \notin {b \in Agents : child[b] \in {"published", "disposing", "reaped"}}

Violation(m) ==
  \/ ready <=> m.type = "ready"
  \/ m.type = "agent-start" /\ ~cancelled /\ BadStart(m.agent)
  \/ m.type = "agent-end" /\ ~cancelled /\ BadEnd(m.agent, m.tell)
  \/ m.type = "journal-commit" /\ ~cancelled /\ BadCommit(m.agent, m.n)
  \/ m.type = "child-start" /\ BadChildStart(m.agent)
  \/ m.type = "child-dispose" /\ BadDispose(m.agent)
  \/ m.type = "scratch-write" /\ cancelled
  \/ m.type = "result" /\ m.n \notin HostStarted .. MaxAgents

OnReady ==
  /\ ready' = TRUE
  /\ IF released THEN Send(<<Frame("go")>>) ELSE UNCHANGED toWorker
  /\ UNCHANGED <<claimed, pendingResult, child, asked, ledger, scratch, shown>>
OnGate ==
  /\ shown' = (shown \/ ~cancelled)
  /\ UNCHANGED <<toWorker, ready, claimed, pendingResult, child, asked, ledger, scratch>>
OnAgentStart(a) ==
  /\ IF cancelled THEN UNCHANGED <<announced, live>>
     ELSE announced' = announced \cup {a} /\ live' = live \cup {a}
  /\ UNCHANGED <<toWorker, ready, claimed, pendingResult, child, asked, ended, journal, scratch, shown>>
OnAgentEnd(a, how) ==
  /\ live' = live \ {a}
  /\ ended' = IF a \notin live THEN ended
              ELSE [ended EXCEPT ![a] = IF cancelled THEN "cancelled" ELSE how]
  /\ UNCHANGED <<toWorker, ready, claimed, pendingResult, child, asked, announced, journal, scratch, shown>>
OnJournalCommit(a) ==
  /\ journal' = IF cancelled THEN journal ELSE Append(journal, a)
  /\ UNCHANGED <<toWorker, ready, claimed, pendingResult, child, asked, announced, live, ended, scratch, shown>>
OnScratchWrite ==
  /\ scratch' = scratch + 1
  /\ UNCHANGED <<toWorker, ready, claimed, pendingResult, child, asked, ledger, shown>>
(* childAdmissionFailure *)
Admitting == ~cancelled /\ ~death /\ ~claimed
OnChildStart(a) ==
  /\ IF Admitting THEN child' = [child EXCEPT ![a] = "starting"] /\ UNCHANGED toWorker
     ELSE Send(<<Child("child-start-error", a)>>) /\ UNCHANGED child
  /\ UNCHANGED <<ready, claimed, pendingResult, asked, ledger, scratch, shown>>
OnChildDispose(a) ==
  /\ asked' = asked \cup {a}
  /\ child' = [child EXCEPT ![a] = IF @ = "published" THEN "disposing" ELSE @]
  /\ IF child[a] = "reaped" THEN Send(<<Child("child-disposed", a)>>) ELSE UNCHANGED toWorker
  /\ UNCHANGED <<ready, claimed, pendingResult, ledger, scratch, shown>>
OnResult(how) ==
  /\ claimed' = TRUE /\ pendingResult' = how
  /\ child' = Reaped /\ EndStranded
  /\ UNCHANGED <<toWorker, ready, asked, announced, journal, scratch, shown>>

(* onRawMessage: nothing is admitted after a death or a terminal claim. *)
HostReceives ==
  /\ toHost # <<>> /\ toHost' = Tail(toHost)
  /\ LET m == Head(toHost) IN
     \/ /\ death \/ claimed
        /\ UNCHANGED <<toWorker, worker, status, timers, kids, ledger, effect>>
     \/ /\ ~death /\ ~claimed /\ Violation(m)
        /\ accused' = TRUE /\ WorkerDeath /\ Terminate
        /\ UNCHANGED <<script, stopping, call, hook, hooks, ordinal, ready, released, cancelled, gone,
                       pendingResult, disposal, result, asked, announced, journal, effect>>
     \/ /\ ~death /\ ~claimed /\ ~Violation(m)
        /\ \/ m.type = "ready" /\ OnReady
           \/ m.type = "log" /\ UNCHANGED <<toWorker, ready, claimed, pendingResult, child, asked, ledger, scratch, shown>>
           \/ m.type = "gate" /\ OnGate
           \/ m.type = "agent-start" /\ OnAgentStart(m.agent)
           \/ m.type = "agent-end" /\ OnAgentEnd(m.agent, m.tell)
           \/ m.type = "journal-commit" /\ OnJournalCommit(m.agent)
           \/ m.type = "scratch-write" /\ OnScratchWrite
           \/ m.type = "child-start" /\ OnChildStart(m.agent)
           \/ m.type = "child-dispose" /\ OnChildDispose(m.agent)
           \/ m.type = "result" /\ OnResult(m.tell)
        /\ UNCHANGED <<worker, released, cancelled, death, gone, accused, outcome, timers, result, broken>>

(* release() and resume() of the handle. *)
Release ==
  /\ ~released /\ outcome = "none" /\ ~cancelled
  /\ released' = TRUE
  /\ IF ready THEN Send(<<Frame("go")>>) ELSE UNCHANGED toWorker
  /\ UNCHANGED <<toHost, worker, ready, cancelled, claimed, death, gone, accused, outcome, pendingResult,
                 timers, kids, ledger, effect>>
Resume ==
  /\ shown /\ outcome = "none" /\ ~claimed /\ ~cancelled
  /\ shown' = FALSE /\ Send(<<Frame("resume")>>)
  /\ UNCHANGED <<toHost, worker, status, timers, kids, ledger, scratch, broken>>

(* Mutant: a cancellation after the Result is a no-op though scratch drains. *)
CancellableBeforeResult == outcome = "none" /\ ~claimed /\ ~cancelled
Cancellable == outcome = "none" /\ (claimed => pendingResult # "none") /\ ~cancelled
(* Mutant: the timer is not armed. *)
CancelUntimed == cancelled' = TRUE /\ UNCHANGED grace /\ Send(<<Frame("cancel")>>)
CancelRun == cancelled' = TRUE /\ grace' = "armed" /\ Send(<<Frame("cancel")>>)
Cancel ==
  /\ Cancellable /\ CancelRun
  /\ UNCHANGED <<toHost, worker, ready, released, claimed, death, gone, accused, outcome, pendingResult,
                 disposal, kids, ledger, effect>>
GraceExpires ==
  /\ grace = "armed"
  /\ claimed' = TRUE /\ EndStranded /\ outcome' = "cancelled" /\ grace' = "fired" /\ Terminate
  /\ UNCHANGED <<toHost, script, stopping, call, hook, hooks, ordinal, ready, released, cancelled, death, gone,
                 accused, pendingResult, disposal, kids, announced, journal, effect>>

Dispose ==
  /\ disposal = "none" /\ disposal' = "waiting"
  /\ child' = Reaped
  /\ IF Cancellable THEN CancelRun ELSE UNCHANGED <<cancelled, grace, toWorker>>
  /\ UNCHANGED <<toHost, worker, ready, released, claimed, death, gone, accused, outcome, pendingResult,
                 result, asked, ledger, effect>>
(* Quiescence, or a sleep that began when or after the grace timer did. *)
DisposeGoesOn ==
  /\ disposal = "waiting"
  /\ grace # "armed"
  /\ disposal' = "terminating" /\ Terminate
  /\ UNCHANGED <<toHost, script, stopping, call, hook, hooks, ordinal, status, grace, kids, ledger, effect>>
DisposeEnds ==
  /\ disposal = "terminating" /\ gone
  /\ disposal' = "done" /\ child' = Reaped
  /\ UNCHANGED <<ports, worker, status, grace, result, asked, ledger, effect>>

(* The events of the Worker object: error, and at last exit. *)
WorkerErrors ==
  /\ ~alive /\ ~death /\ WorkerDeath
  /\ UNCHANGED <<ports, worker, ready, released, cancelled, gone, accused, pendingResult, disposal, result,
                 asked, announced, journal, effect>>
WorkerExits ==
  /\ ~alive /\ ~gone
  /\ gone' = TRUE /\ WorkerDeath
  /\ UNCHANGED <<ports, worker, ready, released, cancelled, accused, pendingResult, disposal, result,
                 asked, announced, journal, effect>>

(* The provider (subagents.start) and its children. *)
StartResolves(a) ==
  /\ child[a] = "starting"
  /\ IF Admitting
     THEN child' = [child EXCEPT ![a] = "published"] /\ Send(<<Child("child-started", a)>>)
     ELSE child' = [child EXCEPT ![a] = "refusing"] /\ Send(<<Child("child-start-error", a)>>)
  /\ UNCHANGED <<toHost, worker, status, timers, result, asked, ledger, effect>>
StartRejects(a) ==
  /\ child[a] = "starting"
  /\ child' = [child EXCEPT ![a] = "failed"] /\ Send(<<Child("child-start-error", a)>>)
  /\ UNCHANGED <<toHost, worker, status, timers, result, asked, ledger, effect>>
ChildEnds(a, how) ==
  /\ a \in Children /\ result[a] = "pending"
  /\ result' = [result EXCEPT ![a] = how]
  /\ Send(<<Child(IF how = "settled" THEN "child-settled" ELSE "child-failed", a)>>)
  /\ UNCHANGED <<toHost, worker, status, timers, child, asked, ledger, effect>>
DisposalEnds(a) ==
  /\ child[a] \in {"disposing", "refusing"}
  /\ child' = [child EXCEPT ![a] = IF @ = "disposing" THEN "reaped" ELSE "failed"]
  /\ IF a \in asked THEN Send(<<Child("child-disposed", a)>>) ELSE UNCHANGED toWorker
  /\ UNCHANGED <<toHost, worker, status, timers, result, asked, ledger, effect>>

ScratchDone ==
  /\ scratch > 0 /\ scratch' = scratch - 1
  /\ Send(<<Frame("scratch-written")>>)
  /\ UNCHANGED <<toHost, worker, status, timers, kids, ledger, broken, shown>>
(* onScratchFailure: an operation that cancel() aborted only retires. *)
ScratchFails ==
  /\ scratch > 0 /\ scratch' = scratch - 1
  /\ IF cancelled THEN UNCHANGED <<alive, toWorker, status, timers, kids, ledger, broken>>
     ELSE /\ broken' = TRUE /\ WorkerDeath /\ Terminate
          /\ UNCHANGED <<ready, released, cancelled, gone, accused, pendingResult, disposal, result, asked,
                         announced, journal>>
  /\ UNCHANGED <<toHost, script, stopping, call, hook, hooks, ordinal, shown>>
(* Mutant: the Result is published as it came. *)
AsItCame == pendingResult
Drained == IF cancelled THEN "cancelled" ELSE IF broken THEN "error" ELSE pendingResult
SettleAfterScratch ==
  /\ pendingResult # "none" /\ scratch = 0 /\ outcome = "none"
  /\ Settle(Drained)
  /\ UNCHANGED <<ports, worker, ready, released, cancelled, claimed, death, gone, accused, pendingResult,
                 disposal, kids, ledger, effect>>
-----------------------------------------------------------------------------
Script == \/ \E a \in Agents : CallAgent(a)
          \/ "log" \in Hooks /\ CallLog
          \/ \E h \in Hooks \ {"log"} : CallHook(h)
          \/ \E how \in {"completed", "error"} : ScriptEnds(how)
Handle == Release \/ Resume \/ Cancel \/ Dispose
Provider == \E a \in Agents : \/ StartResolves(a) \/ StartRejects(a) \/ DisposalEnds(a)
                              \/ \E how \in {"settled", "failed"} : ChildEnds(a, how)
Timers == GraceExpires \/ DisposeGoesOn \/ DisposeEnds
Thread == WorkerDies \/ WorkerErrors \/ WorkerExits
Effects == ScratchDone \/ ScratchFails \/ SettleAfterScratch
Next == Script \/ WorkerReceives \/ HostReceives \/ Handle \/ Provider \/ Timers \/ Thread \/ Effects

Spec == Init /\ [][Next]_vars

(* The event loops turn, timers expire, a terminated thread exits, and the
   provider ends what it was asked to start or to dispose.  Neither a script
   nor a child need ever end by itself. *)
Fairness ==
  /\ WF_vars(HostReceives) /\ WF_vars(WorkerReceives)
  /\ WF_vars(GraceExpires) /\ WF_vars(DisposeGoesOn) /\ WF_vars(DisposeEnds)
  /\ WF_vars(WorkerExits) /\ WF_vars(ScratchDone \/ ScratchFails) /\ WF_vars(SettleAfterScratch)
  /\ \A a \in Agents : /\ WF_vars(StartResolves(a) \/ StartRejects(a))
                       /\ WF_vars(DisposalEnds(a))
FairSpec == Spec /\ Fairness
-----------------------------------------------------------------------------
States   == {"none", "starting", "refusing", "published", "disposing", "reaped", "failed"}
Outcomes == {"completed", "error", "cancelled"}
Ends     == {"completed", "failed", "cancelled"}
Types    == {"ready", "go", "log", "gate", "resume", "cancel", "result", "agent-start", "agent-end",
             "journal-commit", "scratch-write", "scratch-written", "child-start", "child-started",
             "child-start-error", "child-settled", "child-failed", "child-dispose", "child-disposed"}
Frames   == {m \in [type : Types, agent : 0 .. MaxAgents, tell : Outcomes \cup Ends \cup {"none"}, n : Nat] :
               /\ m.type = "agent-end" => m.tell \in Ends
               /\ m.type = "result" => m.tell \in Outcomes}

TypePorts  == toHost \in Seq(Frames) /\ toWorker \in Seq(Frames)
TypeWorker ==
  /\ call \in [Agents -> {"idle", "queued", "starting", "running", "disposing", "done"}]
  /\ script \in {"parked", "running", "ended"} /\ hook \in {"none", "scratch", "await_user", "pause"}
  /\ hooks \in 0 .. MaxHooks /\ ordinal \in Nat /\ {alive, stopping} \subseteq BOOLEAN
TypeStatus ==
  /\ {ready, released, cancelled, claimed, death, gone, accused} \subseteq BOOLEAN
  /\ outcome \in Outcomes \cup {"none"} /\ pendingResult \in Outcomes \cup {"none"}
  /\ grace \in {"off", "armed", "fired"} /\ disposal \in {"none", "waiting", "terminating", "done"}
TypeKids ==
  /\ child \in [Agents -> States] /\ result \in [Agents -> {"pending", "settled", "failed"}]
  /\ asked \subseteq Agents
TypeLedger ==
  /\ announced \subseteq Agents /\ live \subseteq Agents
  /\ ended \in [Agents -> Ends \cup {"none"}] /\ journal \in Seq(0 .. MaxAgents)
TypeEffect == scratch \in Nat /\ {broken, shown} \subseteq BOOLEAN
TypeOK == TypePorts /\ TypeWorker /\ TypeStatus /\ TypeKids /\ TypeLedger /\ TypeEffect

(* No interleaving makes the host accuse a worker that runs this session
   code, unless a cancellation crossed a scratch write on its way: counts,
   ranges and orders that the two sides keep apart agree. *)
NeverAccused == accused => cancelled

(* Every agent-start the observer got has exactly one agent-end by the time
   the result settles, and an end says what the journal says: a member shown
   as completed has its result in the journal. *)
Paired ==
  \A a \in Agents : /\ a \in announced <=> (a \in live \/ ended[a] # "none")
                    /\ a \in live => ended[a] = "none"
                    /\ ended[a] = "completed" => a \in Committed
PairedWhenSettled == Paired /\ (outcome # "none" => live = {})

(* A cancellation that was accepted decides the outcome. *)
CancelDecides == cancelled /\ outcome # "none" => outcome = "cancelled"

(* dispose() returns only after the result settled, the thread is gone, and
   every child is being disposed of or was refused. *)
DisposeIsComplete ==
  disposal = "done" => outcome # "none" /\ gone /\ \A a \in Agents : child[a] # "published"

(* A cancelled run settles, dispose() ends, and no child outlives a settled run. *)
WindsDown ==
  /\ cancelled ~> outcome # "none"
  /\ disposal = "waiting" ~> disposal = "done"
  /\ outcome # "none" ~> Quiet

(* The comment in onAgentEnd: cancellation owns the race with a child's
   completed end "and the journal frame is suppressed". *)
CancelledIsNotCommitted == \A a \in Agents : ended[a] = "cancelled" => a \notin Committed
=============================================================================
