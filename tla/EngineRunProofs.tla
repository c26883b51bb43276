-------------------------- MODULE EngineRunProofs --------------------------
(***************************************************************************)
(* What one engine attempt guarantees for every number of agents, slots    *)
(* and hook calls: the types, frames in flight included, and, on top of    *)
(* them, that a cancellation decides, that starts and ends pair up, that   *)
(* dispose() is complete, and that the host never accuses its worker: the  *)
(* second half shows how far the two sides may be apart on each agent.     *)
(***************************************************************************)
EXTENDS EngineRun, FiniteSetTheorems, SequenceTheorems, TLAPS

(* What a settled, dying or disposed run has gone through. *)
TerminalState ==
  /\ outcome # "none" => claimed
  /\ death => claimed
  /\ gone => death
  /\ pendingResult # "none" => claimed
  /\ claimed => live = {} /\ (outcome # "none" \/ pendingResult # "none")
CancelState == cancelled => grace = "armed" \/ outcome # "none"
DisposeState ==
  /\ disposal # "none" => cancelled \/ outcome # "none"
  /\ disposal \in {"terminating", "done"} => outcome # "none"
Control == TerminalState /\ CancelState /\ DisposeState /\ CancelDecides
-----------------------------------------------------------------------------
(* Frames and channels. *)

LEMMA Limits == MaxAgents \in Nat /\ Agents \subseteq 1 .. MaxAgents /\ 0 \in 0 .. MaxAgents
BY EngineAssumption DEF Agents

(* The calls the worker counts are a number. *)
LEMMA StartedType == Started \in Nat
<1>1. IsFiniteSet(Agents)
  BY Limits, FS_Interval DEF Agents
<1>2. IsFiniteSet({a \in Agents : call[a] # "idle"})
  BY <1>1, FS_Subset, Zenon
<1> QED
  BY <1>2, FS_CardinalityType DEF Started

(* Each way to build a frame builds a frame. *)
LEMMA FrameType ==
  ASSUME NEW t \in Types \ {"agent-end", "result"}, NEW a \in 0 .. MaxAgents
  PROVE  Frame(t) \in Frames /\ Child(t, a) \in Frames
BY Limits DEF Frame, Child, Message, Frames

LEMMA CommitType ==
  ASSUME NEW a \in 0 .. MaxAgents, NEW n \in Nat
  PROVE  Commit(a, n) \in Frames
BY DEF Commit, Message, Frames, Types

LEMMA AgentEndType ==
  ASSUME NEW a \in 0 .. MaxAgents, NEW how \in Ends
  PROVE  AgentEnd(a, how) \in Frames
BY DEF AgentEnd, Message, Frames, Types

LEMMA ResultType ==
  ASSUME NEW n \in Nat, NEW how \in Outcomes
  PROVE  Result(how, n) \in Frames
BY Limits DEF Result, Message, Frames, Types

(* Posting and sending frames keeps the channels typed, and so does taking one. *)
LEMMA Posting ==
  ASSUME NEW fs \in Seq(Frames), toHost \in Seq(Frames), Post(fs)
  PROVE  toHost' \in Seq(Frames)
BY DEF Post

LEMMA Sending ==
  ASSUME NEW fs \in Seq(Frames), toWorker \in Seq(Frames), Send(fs)
  PROVE  toWorker' \in Seq(Frames)
BY DEF Send

LEMMA Taking ==
  ASSUME NEW s \in Seq(Frames), s # <<>>
  PROVE  Head(s) \in Frames /\ Tail(s) \in Seq(Frames)
BY HeadTailProperties

LEMMA Reading ==
  ASSUME NEW m \in Frames
  PROVE  /\ m.agent \in 0 .. MaxAgents
         /\ m.type = "agent-end" => m.tell \in Ends
         /\ m.type = "result" => m.tell \in Outcomes
BY DEF Frames

LEMMA PostOne ==
  ASSUME NEW f \in Frames, toHost \in Seq(Frames), Post(<<f>>)
  PROVE  toHost' \in Seq(Frames)
<1>1. <<f>> \in Seq(Frames)
  OBVIOUS
<1> QED
  BY <1>1, Posting

LEMMA SendOne ==
  ASSUME NEW f \in Frames, toWorker \in Seq(Frames), Send(<<f>>)
  PROVE  toWorker' \in Seq(Frames)
<1>1. <<f>> \in Seq(Frames)
  OBVIOUS
<1> QED
  BY <1>1, Sending
-----------------------------------------------------------------------------
(* Types.  A part is kept by a step that leaves its variables alone. *)
LEMMA Kept ==
  ASSUME TypeOK
  PROVE  /\ UNCHANGED ports => TypePorts'
         /\ UNCHANGED worker => TypeWorker'
         /\ UNCHANGED <<status, timers>> => TypeStatus'
         /\ UNCHANGED kids => TypeKids'
         /\ UNCHANGED ledger => TypeLedger'
         /\ UNCHANGED effect => TypeEffect'
<1>1. UNCHANGED ports => TypePorts'
  BY DEF TypeOK, TypePorts, ports
<1>2. UNCHANGED worker => TypeWorker'
  BY DEF TypeOK, TypeWorker, worker
<1>3. UNCHANGED <<status, timers>> => TypeStatus'
  BY DEF TypeOK, TypeStatus, status, timers
<1>4. UNCHANGED kids => TypeKids'
  BY DEF TypeOK, TypeKids, kids
<1>5. UNCHANGED ledger => TypeLedger'
  BY DEF TypeOK, TypeLedger, ledger
<1>6. UNCHANGED effect => TypeEffect'
  BY DEF TypeOK, TypeEffect, effect
<1> QED
  BY <1>1, <1>2, <1>3, <1>4, <1>5, <1>6

LEMMA TypeInit == Init => TypeOK
<1> SUFFICES ASSUME Init PROVE TypeOK
  OBVIOUS
<1>1. TypePorts
  <2>1. Frame("ready") \in Frames
    BY FrameType, Limits DEF Types
  <2> QED
    BY <2>1 DEF Init, TypePorts
<1>2. TypeWorker /\ TypeEffect
  <2>1. 0 \in 0 .. MaxHooks
    BY EngineAssumption
  <2>2. TypeWorker
    BY <2>1 DEF Init, TypeWorker
  <2> QED
    BY <2>2 DEF Init, TypeEffect
<1>3. TypeStatus
  BY DEF Init, TypeStatus
<1>4. TypeKids /\ TypeLedger
  BY DEF Init, TypeKids, TypeLedger, States
<1> QED
  BY <1>1, <1>2, <1>3, <1>4 DEF TypeOK

(* The script's calls. *)
LEMMA ScriptTypes ==
  ASSUME TypeOK, Script
  PROVE  TypeOK'
<1>1. ASSUME NEW a \in Agents, CallAgent(a) PROVE TypeOK'
  <2>1. TypePorts'
    BY <1>1, PostOne, FrameType, Limits DEF CallAgent, TypeOK, TypePorts, Types
  <2>2. TypeWorker'
    BY <1>1 DEF CallAgent, Tell, TypeOK, TypeWorker
  <2> QED
    BY <1>1, <2>1, <2>2, Kept DEF CallAgent, TypeOK
<1>2. ASSUME CallLog PROVE TypeOK'
  <2>1. <<Frame("log"), Commit(0, ordinal + 1)>> \in Seq(Frames)
    BY FrameType, CommitType, Limits DEF TypeOK, TypeWorker, Types
  <2>2. TypePorts'
    BY <1>2, <2>1, Posting DEF CallLog, TypeOK, TypePorts
  <2>3. TypeWorker'
    BY <1>2, EngineAssumption DEF CallLog, TypeOK, TypeWorker
  <2> QED
    BY <1>2, <2>2, <2>3, Kept DEF CallLog, TypeOK
<1>3. ASSUME NEW h \in Hooks \ {"log"}, CallHook(h) PROVE TypeOK'
  <2>1. TypePorts'
    BY <1>3, PostOne, FrameType, Limits DEF CallHook, TypeOK, TypePorts, Types
  <2>2. TypeWorker'
    BY <1>3, EngineAssumption DEF CallHook, TypeOK, TypeWorker
  <2> QED
    BY <1>3, <2>1, <2>2, Kept DEF CallHook, TypeOK
<1>4. ASSUME NEW how \in {"completed", "error"}, ScriptEnds(how) PROVE TypeOK'
  <2>1. TypePorts'
    BY <1>4, PostOne, ResultType, StartedType DEF ScriptEnds, TypeOK, TypePorts, Outcomes
  <2>2. TypeWorker'
    BY <1>4 DEF ScriptEnds, TypeOK, TypeWorker
  <2> QED
    BY <1>4, <2>1, <2>2, Kept DEF ScriptEnds, TypeOK
<1> QED
  BY <1>1, <1>2, <1>3, <1>4 DEF Script

(* What a handler of the worker may write. *)
Handled ==
  /\ toHost' \in Seq(Frames)
  /\ call' \in [Agents -> {"idle", "queued", "starting", "running", "disposing", "done"}]
  /\ script' \in {"parked", "running", "ended"} /\ hook' \in {"none", "scratch", "await_user", "pause"}
  /\ ordinal' \in Nat /\ stopping' \in BOOLEAN

LEMMA ReleaseTypes ==
  ASSUME TypeOK, NEW a \in 0 .. MaxAgents, ReleaseSlot(a),
         UNCHANGED <<script, stopping, hook, ordinal>>
  PROVE  Handled
<1>1. CASE Tell(a, "done") /\ UNCHANGED toHost
  BY <1>1 DEF Tell, TypeOK, TypePorts, TypeWorker, Handled
<1>2. ASSUME NEW b \in Queued, call' = [call EXCEPT ![a] = "done", ![b] = "starting"],
             Post(<<Child("child-start", b)>>)
      PROVE  Handled
  <2>1. toHost' \in Seq(Frames)
    BY <1>2, PostOne, FrameType, Limits DEF Queued, TypeOK, TypePorts, Types
  <2>2. call' \in [Agents -> {"idle", "queued", "starting", "running", "disposing", "done"}]
    BY <1>2 DEF TypeOK, TypeWorker
  <2> QED
    BY <2>1, <2>2 DEF TypeOK, TypeWorker, Handled
<1> QED
  BY <1>1, <1>2 DEF ReleaseSlot

LEMMA CancelArrivesTypes ==
  ASSUME TypeOK, CancelArrives
  PROVE  Handled
<1>1. toHost' \in Seq(Frames)
  BY PostOne, ResultType DEF CancelArrives, TypeOK, TypePorts, Outcomes
<1>2. call' \in [Agents -> {"idle", "queued", "starting", "running", "disposing", "done"}]
  BY DEF CancelArrives, TypeOK, TypeWorker
<1> QED
  BY <1>1, <1>2 DEF CancelArrives, TypeOK, TypeWorker, Handled

LEMMA HookTypes ==
  ASSUME TypeOK, ResumeArrives \/ ScratchWritten \/ Go
  PROVE  Handled
<1>1. ordinal + 1 \in Nat /\ Commit(0, ordinal + 1) \in Frames /\ Frame("gate") \in Frames
  BY CommitType, FrameType, Limits DEF TypeOK, TypeWorker, Types
<1>2. toHost' \in Seq(Frames)
  BY <1>1, PostOne DEF ResumeArrives, ScratchWritten, Go, TypeOK, TypePorts
<1> QED
  BY <1>1, <1>2 DEF ResumeArrives, ScratchWritten, Go, TypeOK, TypeWorker, Handled

LEMMA ChildStartedTypes ==
  ASSUME TypeOK, NEW a \in 0 .. MaxAgents, ChildStarted(a)
  PROVE  Handled
<1>1. toHost' \in Seq(Frames)
  BY PostOne, FrameType DEF ChildStarted, TypeOK, TypePorts, Types
<1>2. call' \in [Agents -> {"idle", "queued", "starting", "running", "disposing", "done"}]
  BY DEF ChildStarted, Tell, TypeOK, TypeWorker
<1> QED
  BY <1>1, <1>2 DEF ChildStarted, TypeOK, TypeWorker, Handled

LEMMA ChildAnsweredTypes ==
  ASSUME TypeOK, NEW a \in 0 .. MaxAgents, ChildSettled(a) \/ ChildFailed(a)
  PROVE  Handled
<1>1. Child("child-dispose", a) \in Frames /\ ordinal + 1 \in Nat
  BY FrameType DEF TypeOK, TypeWorker, Types
<1>2. \A how \in Ends : <<AgentEnd(a, how), Child("child-dispose", a)>> \in Seq(Frames)
  BY <1>1, AgentEndType
<1>3. \A how \in Ends : CommitsThenEnds(a, how, ordinal + 1) \in Seq(Frames)
  BY <1>1, AgentEndType, CommitType DEF CommitsThenEnds
<1>4. {"completed", "failed", "cancelled"} \subseteq Ends
  BY DEF Ends
<1>5. ASSUME ChildSettled(a) PROVE Handled
  <2>1. toHost' \in Seq(Frames) /\ ordinal' \in Nat
    BY <1>1, <1>2, <1>3, <1>4, <1>5, Posting DEF ChildSettled, TypeOK, TypePorts, TypeWorker
  <2> QED
    BY <1>5, <2>1 DEF ChildSettled, Tell, TypeOK, TypeWorker, Handled
<1>6. ASSUME ChildFailed(a) PROVE Handled
  <2>1. toHost' \in Seq(Frames)
    BY <1>2, <1>4, <1>6, Posting DEF ChildFailed, TypeOK, TypePorts
  <2> QED
    BY <1>6, <2>1 DEF ChildFailed, Tell, TypeOK, TypeWorker, Handled
<1> QED
  BY <1>5, <1>6

LEMMA WorkerTypes ==
  ASSUME TypeOK, WorkerReceives
  PROVE  TypeOK'
<1> DEFINE m == Head(toWorker)
<1>1. m \in Frames /\ toWorker' \in Seq(Frames)
  BY Taking DEF WorkerReceives, TypeOK, TypePorts
<1>2. m.agent \in 0 .. MaxAgents
  BY <1>1, Reading
<1> HIDE DEF m
<1>3. \/ Go \/ CancelArrives \/ ResumeArrives \/ ScratchWritten
      \/ ChildStarted(m.agent) \/ ChildStartError(m.agent) \/ ChildSettled(m.agent)
      \/ ChildFailed(m.agent) \/ ChildDisposed(m.agent)
  BY DEF WorkerReceives, m
<1>4. Handled
  <2>1. CASE ChildStartError(m.agent) \/ ChildDisposed(m.agent)
    BY <1>2, <2>1, ReleaseTypes DEF ChildStartError, ChildDisposed
  <2>2. CASE ChildStarted(m.agent)
    BY <1>2, <2>2, ChildStartedTypes
  <2>3. CASE ChildSettled(m.agent) \/ ChildFailed(m.agent)
    BY <1>2, <2>3, ChildAnsweredTypes
  <2>4. CASE Go
    BY <2>4, HookTypes DEF Go
  <2> QED
    BY <1>3, <2>1, <2>2, <2>3, <2>4, CancelArrivesTypes, HookTypes
<1>5. TypePorts' /\ TypeWorker'
  BY <1>1, <1>4 DEF WorkerReceives, Handled, TypeOK, TypePorts, TypeWorker
<1> QED
  BY <1>5, Kept DEF WorkerReceives, TypeOK

(* What reapChildren and endStrandedAgents write. *)
LEMMA ReapedType == ASSUME TypeKids PROVE Reaped \in [Agents -> States]
BY DEF Reaped, TypeKids, States

LEMMA StrandedType ==
  ASSUME TypeLedger, EndStranded
  PROVE  live' \subseteq Agents /\ ended' \in [Agents -> Ends \cup {"none"}]
BY DEF EndStranded, TypeLedger, Ends

(* onWorkerDeath. *)
LEMMA DeathType ==
  ASSUME TypeOK, WorkerDeath
  PROVE  /\ child' \in [Agents -> States]
         /\ live' \subseteq Agents /\ ended' \in [Agents -> Ends \cup {"none"}]
         /\ death' \in BOOLEAN /\ claimed' \in BOOLEAN
         /\ outcome' \in Outcomes \cup {"none"} /\ grace' \in {"off", "armed", "fired"}
BY ReapedType, StrandedType DEF WorkerDeath, Settle, Outcomes, TypeOK, TypeStatus

(* What a handler of the host may write. *)
Received ==
  /\ toWorker' \in Seq(Frames)
  /\ ready' \in BOOLEAN /\ claimed' \in BOOLEAN /\ shown' \in BOOLEAN
  /\ pendingResult' \in Outcomes \cup {"none"} /\ scratch' \in Nat
  /\ child' \in [Agents -> States] /\ asked' \subseteq Agents /\ TypeLedger'

LEMMA LedgerTypes ==
  ASSUME TypeOK, NEW m \in Frames, ~Violation(m),
         \/ m.type = "agent-start" /\ OnAgentStart(m.agent)
         \/ m.type = "agent-end" /\ OnAgentEnd(m.agent, m.tell)
         \/ m.type = "journal-commit" /\ OnJournalCommit(m.agent)
  PROVE  Received
<1>1. m.agent \in 0 .. MaxAgents /\ (m.type = "agent-end" => m.tell \in Ends)
  BY Reading
<1>2. CASE m.type = "agent-start" /\ OnAgentStart(m.agent)
  <2>1. cancelled \/ m.agent \in Agents
    BY <1>2 DEF Violation, BadStart, Children
  <2>2. TypeLedger'
    BY <1>2, <2>1 DEF OnAgentStart, TypeOK, TypeLedger
  <2> QED
    BY <1>2, <2>2 DEF OnAgentStart, Received, TypeOK, TypePorts, TypeStatus, TypeKids, TypeEffect
<1>3. CASE m.type = "agent-end" /\ OnAgentEnd(m.agent, m.tell)
  <2>1. "cancelled" \in Ends
    BY DEF Ends
  <2>2. TypeLedger'
    BY <1>1, <1>3, <2>1 DEF OnAgentEnd, TypeOK, TypeLedger
  <2> QED
    BY <1>3, <2>2 DEF OnAgentEnd, Received, TypeOK, TypePorts, TypeStatus, TypeKids, TypeEffect
<1>4. CASE m.type = "journal-commit" /\ OnJournalCommit(m.agent)
  <2>1. journal \in Seq(0 .. MaxAgents) => Append(journal, m.agent) \in Seq(0 .. MaxAgents)
    BY <1>1
  <2>2. TypeLedger'
    BY <1>4, <2>1 DEF OnJournalCommit, TypeOK, TypeLedger
  <2> QED
    BY <1>4, <2>2 DEF OnJournalCommit, Received, TypeOK, TypePorts, TypeStatus, TypeKids, TypeEffect
<1> QED
  BY <1>2, <1>3, <1>4

LEMMA ReceiptTypes ==
  ASSUME TypeOK, NEW m \in Frames, ~Violation(m),
         \/ m.type = "ready" /\ OnReady
         \/ m.type = "gate" /\ OnGate
         \/ m.type = "scratch-write" /\ OnScratchWrite
         \/ m.type = "child-start" /\ OnChildStart(m.agent)
         \/ m.type = "child-dispose" /\ OnChildDispose(m.agent)
         \/ m.type = "result" /\ OnResult(m.tell)
  PROVE  Received
<1>1. m.agent \in 0 .. MaxAgents /\ (m.type = "result" => m.tell \in Outcomes)
  BY Reading
<1>2. UNCHANGED ledger => TypeLedger'
  BY Kept
<1>3. CASE OnReady \/ OnGate \/ OnScratchWrite
  <2>1. Frame("go") \in Frames
    BY FrameType, Limits DEF Types
  <2>2. toWorker' \in Seq(Frames)
    BY <1>3, <2>1, SendOne DEF OnReady, OnGate, OnScratchWrite, TypeOK, TypePorts
  <2>3. ready' \in BOOLEAN /\ shown' \in BOOLEAN /\ claimed' \in BOOLEAN
    BY <1>3 DEF OnReady, OnGate, OnScratchWrite, TypeOK, TypeStatus, TypeEffect
  <2>4. TypeLedger' /\ UNCHANGED <<child, asked, pendingResult>> /\ scratch' \in Nat
    BY <1>2, <1>3 DEF OnReady, OnGate, OnScratchWrite, TypeOK, TypeEffect
  <2> QED
    BY <2>2, <2>3, <2>4 DEF Received, TypeOK, TypeStatus, TypeKids
<1>4. CASE OnChildStart(m.agent)
  <2>1. toWorker' \in Seq(Frames)
    BY <1>1, <1>4, SendOne, FrameType DEF OnChildStart, TypeOK, TypePorts, Types
  <2>2. child' \in [Agents -> States]
    BY <1>4 DEF OnChildStart, TypeOK, TypeKids, States
  <2> QED
    BY <1>2, <1>4, <2>1, <2>2 DEF OnChildStart, Received, TypeOK, TypeStatus, TypeKids, TypeEffect
<1>5. CASE m.type = "child-dispose" /\ OnChildDispose(m.agent)
  <2>1. toWorker' \in Seq(Frames)
    BY <1>1, <1>5, SendOne, FrameType DEF OnChildDispose, TypeOK, TypePorts, Types
  <2>2. child' \in [Agents -> States]
    BY <1>5 DEF OnChildDispose, TypeOK, TypeKids, States
  <2>3. asked' \subseteq Agents
    BY <1>5 DEF OnChildDispose, Violation, BadDispose, TypeOK, TypeKids
  <2> QED
    BY <1>2, <1>5, <2>1, <2>2, <2>3 DEF OnChildDispose, Received, TypeOK, TypeStatus, TypeEffect
<1>6. CASE m.type = "result" /\ OnResult(m.tell)
  <2>1. TypeLedger'
    BY <1>6, StrandedType DEF OnResult, TypeOK, TypeLedger
  <2>2. child' \in [Agents -> States]
    BY <1>6, ReapedType DEF OnResult, TypeOK
  <2> QED
    BY <1>1, <1>6, <2>1, <2>2 DEF OnResult, Received, TypeOK, TypePorts, TypeStatus, TypeKids, TypeEffect
<1> QED
  BY <1>3, <1>4, <1>5, <1>6

LEMMA HostTypes ==
  ASSUME TypeOK, HostReceives
  PROVE  TypeOK'
<1> DEFINE m == Head(toHost)
<1>1. m \in Frames /\ toHost' \in Seq(Frames)
  BY Taking DEF HostReceives, TypeOK, TypePorts
<1>2. CASE UNCHANGED <<toWorker, worker, status, timers, kids, ledger, effect>>
  BY <1>1, <1>2, Kept DEF TypeOK, TypePorts
<1>3. CASE /\ accused' = TRUE /\ WorkerDeath /\ Terminate
           /\ UNCHANGED <<script, stopping, call, hook, hooks, ordinal, ready, released, cancelled, gone,
                          pendingResult, disposal, result, asked, announced, journal, effect>>
  <2>1. TypePorts'
    BY <1>1, <1>3 DEF Terminate, TypePorts
  <2>2. TypeWorker'
    BY <1>3 DEF Terminate, TypeOK, TypeWorker
  <2>3. TypeStatus'
    BY <1>3, DeathType DEF TypeOK, TypeStatus
  <2>4. TypeKids' /\ TypeLedger'
    BY <1>3, DeathType DEF TypeOK, TypeKids, TypeLedger
  <2> QED
    BY <1>3, <2>1, <2>2, <2>3, <2>4, Kept DEF TypeOK
<1>4. CASE /\ ~Violation(m)
           /\ \/ m.type = "ready" /\ OnReady
              \/ m.type = "log" /\ UNCHANGED <<toWorker, ready, claimed, pendingResult, child, asked, ledger, scratch, shown>>
              \/ m.type = "gate" /\ OnGate
              \/ m.type = "agent-start" /\ OnAgentStart(m.agent)
              \/ m.type = "agent-end" /\ OnAgentEnd(m.agent, m.tell)
              \/ m.type = "journal-commit" /\ OnJournalCommit(m.agent)
              \/ m.type = "scratch-write" /\ OnScratchWrite
              \/ m.type = "child-start" /\ OnChildStart(m.agent)
              \/ m.type = "child-dispose" /\ OnChildDispose(m.agent)
              \/ m.type = "result" /\ OnResult(m.tell)
           /\ UNCHANGED <<worker, released, cancelled, death, gone, accused, outcome, timers, result, broken>>
  <2> HIDE DEF m
  <2>1. Received
    <3>1. UNCHANGED <<toWorker, ready, claimed, pendingResult, child, asked, ledger, scratch, shown>> => Received
      BY Kept DEF Received, TypeOK, TypePorts, TypeStatus, TypeKids, TypeEffect
    <3> QED
      BY <1>1, <1>4, <3>1, LedgerTypes, ReceiptTypes
  <2>2. TypePorts' /\ TypeLedger'
    BY <1>1, <2>1 DEF Received, TypePorts
  <2>3. TypeStatus'
    BY <1>4, <2>1 DEF Received, TypeOK, TypeStatus, timers
  <2>4. TypeKids' /\ TypeEffect'
    BY <1>4, <2>1 DEF Received, TypeOK, TypeKids, TypeEffect
  <2> QED
    BY <1>4, <2>2, <2>3, <2>4, Kept DEF TypeOK
<1> QED
  BY <1>2, <1>3, <1>4 DEF HostReceives
-----------------------------------------------------------------------------
(* The thread ends, and with it the port to it. *)
LEMMA Terminated ==
  ASSUME TypeOK, Terminate, UNCHANGED <<toHost, script, stopping, call, hook, hooks, ordinal>>
  PROVE  TypePorts' /\ TypeWorker'
<1>1. TypePorts'
  BY DEF Terminate, TypeOK, TypePorts
<1>2. TypeWorker'
  BY DEF Terminate, TypeOK, TypeWorker
<1> QED
  BY <1>1, <1>2

(* Release, resume, cancel and dispose. *)
LEMMA CancelRunType ==
  ASSUME TypeOK, CancelRun
  PROVE  toWorker' \in Seq(Frames) /\ cancelled' \in BOOLEAN /\ grace' \in {"off", "armed", "fired"}
BY SendOne, FrameType, Limits DEF CancelRun, TypeOK, TypePorts, Types

LEMMA HandleTypes ==
  ASSUME TypeOK, Handle
  PROVE  TypeOK'
<1>1. Frame("go") \in Frames /\ Frame("resume") \in Frames
  BY FrameType, Limits DEF Types
<1>2. ASSUME Release PROVE TypeOK'
  <2>1. TypePorts'
    BY <1>1, <1>2, SendOne DEF Release, TypeOK, TypePorts
  <2>2. TypeStatus'
    BY <1>2 DEF Release, timers, TypeOK, TypeStatus
  <2> QED
    BY <1>2, <2>1, <2>2, Kept DEF Release, TypeOK
<1>3. ASSUME Resume PROVE TypeOK'
  <2>1. TypePorts'
    BY <1>1, <1>3, SendOne DEF Resume, TypeOK, TypePorts
  <2>2. TypeEffect'
    BY <1>3 DEF Resume, TypeOK, TypeEffect
  <2> QED
    BY <1>3, <2>1, <2>2, Kept DEF Resume, TypeOK
<1>4. ASSUME Cancel PROVE TypeOK'
  <2>1. TypePorts' /\ TypeStatus'
    BY <1>4, CancelRunType DEF Cancel, TypeOK, TypePorts, TypeStatus
  <2> QED
    BY <1>4, <2>1, Kept DEF Cancel, TypeOK
<1>5. ASSUME Dispose PROVE TypeOK'
  <2>1. TypePorts' /\ TypeStatus'
    BY <1>5, CancelRunType DEF Dispose, TypeOK, TypePorts, TypeStatus
  <2>2. TypeKids'
    BY <1>5, ReapedType DEF Dispose, TypeOK, TypeKids
  <2> QED
    BY <1>5, <2>1, <2>2, Kept DEF Dispose, TypeOK
<1> QED
  BY <1>2, <1>3, <1>4, <1>5 DEF Handle

(* The timers. *)
LEMMA TimerTypes ==
  ASSUME TypeOK, Timers
  PROVE  TypeOK'
<1>1. ASSUME GraceExpires PROVE TypeOK'
  <2>1. TypePorts' /\ TypeWorker'
    BY <1>1, Terminated DEF GraceExpires
  <2>2. TypeStatus'
    BY <1>1 DEF GraceExpires, TypeOK, TypeStatus, Outcomes
  <2>3. TypeLedger'
    BY <1>1, StrandedType DEF GraceExpires, TypeOK, TypeLedger
  <2> QED
    BY <1>1, <2>1, <2>2, <2>3, Kept DEF GraceExpires, TypeOK
<1>2. ASSUME DisposeGoesOn PROVE TypeOK'
  <2>1. TypePorts' /\ TypeWorker'
    BY <1>2, Terminated DEF DisposeGoesOn
  <2>2. TypeStatus'
    BY <1>2 DEF DisposeGoesOn, status, TypeOK, TypeStatus
  <2> QED
    BY <1>2, <2>1, <2>2, Kept DEF DisposeGoesOn, TypeOK
<1>3. ASSUME DisposeEnds PROVE TypeOK'
  <2>1. TypeStatus' /\ TypeKids'
    BY <1>3, ReapedType DEF DisposeEnds, status, TypeOK, TypeStatus, TypeKids
  <2> QED
    BY <1>3, <2>1, Kept DEF DisposeEnds, TypeOK
<1> QED
  BY <1>1, <1>2, <1>3 DEF Timers

(* The thread. *)
LEMMA ThreadTypes ==
  ASSUME TypeOK, Thread
  PROVE  TypeOK'
<1>1. ASSUME WorkerDies PROVE TypeOK'
  <2>1. TypePorts' /\ TypeWorker'
    BY <1>1, Terminated DEF WorkerDies, Terminate
  <2> QED
    BY <1>1, <2>1, Kept DEF WorkerDies, TypeOK
<1>2. ASSUME WorkerErrors \/ WorkerExits PROVE TypeOK'
  <2>1. TypeStatus'
    BY <1>2, DeathType DEF WorkerErrors, WorkerExits, TypeOK, TypeStatus
  <2>2. TypeKids' /\ TypeLedger'
    BY <1>2, DeathType DEF WorkerErrors, WorkerExits, TypeOK, TypeKids, TypeLedger
  <2> QED
    BY <1>2, <2>1, <2>2, Kept DEF WorkerErrors, WorkerExits, TypeOK
<1> QED
  BY <1>1, <1>2 DEF Thread

(* The provider. *)
LEMMA ProviderTypes ==
  ASSUME TypeOK, Provider
  PROVE  TypeOK'
<1> SUFFICES ASSUME NEW a \in Agents,
                    \/ StartResolves(a) \/ StartRejects(a) \/ DisposalEnds(a)
                    \/ \E how \in {"settled", "failed"} : ChildEnds(a, how)
             PROVE  TypeOK'
  BY DEF Provider
<1>1. \A t \in {"child-started", "child-start-error", "child-settled", "child-failed", "child-disposed"} :
        Child(t, a) \in Frames
  BY FrameType, Limits DEF Types
<1>2. ASSUME StartResolves(a) \/ StartRejects(a) \/ DisposalEnds(a) PROVE TypeOK'
  <2>1. TypePorts'
    BY <1>1, <1>2, SendOne DEF StartResolves, StartRejects, DisposalEnds, TypeOK, TypePorts
  <2>2. TypeKids'
    BY <1>2 DEF StartResolves, StartRejects, DisposalEnds, TypeOK, TypeKids, States
  <2> QED
    BY <1>2, <2>1, <2>2, Kept DEF StartResolves, StartRejects, DisposalEnds, TypeOK
<1>3. ASSUME NEW how \in {"settled", "failed"}, ChildEnds(a, how) PROVE TypeOK'
  <2>1. TypePorts'
    BY <1>1, <1>3, SendOne DEF ChildEnds, TypeOK, TypePorts
  <2>2. TypeKids'
    BY <1>3 DEF ChildEnds, TypeOK, TypeKids
  <2> QED
    BY <1>3, <2>1, <2>2, Kept DEF ChildEnds, TypeOK
<1> QED
  BY <1>2, <1>3

(* Scratch I/O. *)
LEMMA EffectTypes ==
  ASSUME TypeOK, Effects
  PROVE  TypeOK'
<1>1. scratch > 0 => scratch - 1 \in Nat
  BY DEF TypeOK, TypeEffect
<1>2. ASSUME ScratchDone PROVE TypeOK'
  <2>1. TypePorts'
    BY <1>2, SendOne, FrameType, Limits DEF ScratchDone, TypeOK, TypePorts, Types
  <2>2. TypeEffect'
    BY <1>1, <1>2 DEF ScratchDone, TypeOK, TypeEffect
  <2> QED
    BY <1>2, <2>1, <2>2, Kept DEF ScratchDone, TypeOK
<1>3. ASSUME ScratchFails PROVE TypeOK'
  <2>1. TypeEffect'
    BY <1>1, <1>3 DEF ScratchFails, TypeOK, TypeEffect
  <2>2. CASE cancelled
    <3>1. TypePorts' /\ TypeWorker'
      BY <1>3, <2>2 DEF ScratchFails, TypeOK, TypePorts, TypeWorker
    <3> QED
      BY <1>3, <2>1, <2>2, <3>1, Kept DEF ScratchFails, TypeOK
  <2>3. CASE ~cancelled
    <3>1. TypePorts' /\ TypeWorker'
      BY <1>3, <2>3, Terminated DEF ScratchFails
    <3>2. TypeStatus'
      BY <1>3, <2>3, DeathType DEF ScratchFails, TypeOK, TypeStatus
    <3>3. TypeKids' /\ TypeLedger'
      BY <1>3, <2>3, DeathType DEF ScratchFails, TypeOK, TypeKids, TypeLedger
    <3> QED
      BY <2>1, <3>1, <3>2, <3>3 DEF TypeOK
  <2> QED
    BY <2>2, <2>3
<1>4. ASSUME SettleAfterScratch PROVE TypeOK'
  <2>1. TypeStatus'
    BY <1>4 DEF SettleAfterScratch, Settle, Drained, TypeOK, TypeStatus, Outcomes
  <2> QED
    BY <1>4, <2>1, Kept DEF SettleAfterScratch, TypeOK
<1> QED
  BY <1>2, <1>3, <1>4 DEF Effects

LEMMA TypeStep == TypeOK /\ [Next]_vars => TypeOK'
<1> SUFFICES ASSUME TypeOK, [Next]_vars PROVE TypeOK'
  OBVIOUS
<1>1. CASE UNCHANGED vars
  BY <1>1, Kept DEF vars, TypeOK
<1> QED
  BY <1>1, ScriptTypes, WorkerTypes, HostTypes, HandleTypes, ProviderTypes, TimerTypes, ThreadTypes,
     EffectTypes DEF Next

(* Every frame in flight and every variable of the two sides keeps its type. *)
THEOREM TypeCorrect == Spec => []TypeOK
BY TypeInit, TypeStep, PTL DEF Spec
-----------------------------------------------------------------------------
(* Settling, cancelling and disposing.  A worker's death settles the run
   unless a terminal claim has done so or will. *)
LEMMA DeathControl ==
  ASSUME TypeOK, Control, WorkerDeath, UNCHANGED <<cancelled, pendingResult, disposal>>,
         gone' => death'
  PROVE  Control'
<1>1. outcome # "none" => outcome' = outcome
  BY DEF WorkerDeath, Control, TerminalState
<1>2. outcome' # "none" \/ pendingResult # "none"
  BY DEF WorkerDeath, Settle, Control, TerminalState
<1>3. outcome' # outcome => outcome' = IF cancelled THEN "cancelled" ELSE "error"
  BY DEF WorkerDeath, Settle
<1>4. outcome' = "none" => outcome = "none" /\ grace' = grace
  BY <1>1 DEF WorkerDeath, Settle
<1>5. TerminalState'
  BY <1>2 DEF WorkerDeath, EndStranded, TerminalState
<1>6. CancelState' /\ DisposeState' /\ CancelDecides'
  BY <1>1, <1>3, <1>4 DEF Control, CancelState, DisposeState, CancelDecides
<1> QED
  BY <1>5, <1>6 DEF Control

LEMMA ControlKept ==
  ASSUME Control, UNCHANGED <<outcome, claimed, death, gone, pendingResult, cancelled, grace, disposal, live>>
  PROVE  Control'
BY DEF Control, TerminalState, CancelState, DisposeState, CancelDecides

LEMMA HostControl ==
  ASSUME TypeOK, Control, HostReceives
  PROVE  Control'
<1> DEFINE m == Head(toHost)
<1>1. CASE UNCHANGED <<status, timers, ledger>>
  BY <1>1, ControlKept DEF status, timers, ledger
<1>2. CASE /\ WorkerDeath
           /\ UNCHANGED <<cancelled, gone, pendingResult, disposal>>
  BY <1>2, DeathControl DEF WorkerDeath
<1>3. CASE /\ ~death /\ ~claimed
           /\ \/ OnReady \/ OnGate \/ OnAgentStart(m.agent) \/ OnAgentEnd(m.agent, m.tell)
              \/ OnJournalCommit(m.agent) \/ OnScratchWrite \/ OnChildStart(m.agent)
              \/ OnChildDispose(m.agent) \/ UNCHANGED <<claimed, pendingResult>>
           /\ UNCHANGED <<cancelled, death, gone, outcome, timers>>
  <2> HIDE DEF m
  <2>1. UNCHANGED <<claimed, pendingResult>>
    BY <1>3 DEF OnReady, OnGate, OnAgentStart, OnAgentEnd, OnJournalCommit, OnScratchWrite, OnChildStart,
                OnChildDispose
  <2> QED
    BY <1>3, <2>1 DEF Control, TerminalState, CancelState, DisposeState, CancelDecides, timers
<1>4. CASE /\ m.type = "result" /\ OnResult(m.tell)
           /\ UNCHANGED <<cancelled, death, gone, outcome, timers>>
  <2>1. toHost # <<>> => m \in Frames
    BY Taking DEF TypeOK, TypePorts
  <2>2. toHost # <<>> /\ m.tell # "none"
    BY <1>4, <2>1, Reading DEF HostReceives, Outcomes
  <2> QED
    BY <1>4, <2>2
    DEF OnResult, EndStranded, Control, TerminalState, CancelState, DisposeState, CancelDecides, timers
<1> QED
  BY <1>1, <1>2, <1>3, <1>4 DEF HostReceives

LEMMA ControlStep == TypeOK /\ Control /\ [Next]_vars => Control'
<1> SUFFICES ASSUME TypeOK, Control, [Next]_vars PROVE Control'
  OBVIOUS
<1> USE DEF Control, TerminalState, CancelState, DisposeState, CancelDecides
<1>1. CASE UNCHANGED <<status, timers, ledger>>
  BY <1>1 DEF status, timers, ledger
<1>2. ASSUME Script \/ WorkerReceives \/ Provider PROVE UNCHANGED <<status, timers, ledger>>
  BY <1>2 DEF Script, CallAgent, CallLog, CallHook, ScriptEnds, WorkerReceives, Provider, StartResolves,
              StartRejects, DisposalEnds, ChildEnds
<1>3. ASSUME Release \/ Resume PROVE Control'
  BY <1>3 DEF Release, Resume, status, timers, ledger
<1>4. ASSUME Cancel PROVE Control'
  BY <1>4 DEF Cancel, CancelRun, Cancellable, ledger
<1>5. ASSUME Dispose PROVE Control'
  BY <1>5 DEF Dispose, CancelRun, Cancellable, ledger
<1>6. ASSUME GraceExpires PROVE Control'
  BY <1>6 DEF GraceExpires, EndStranded
<1>7. ASSUME DisposeGoesOn \/ DisposeEnds PROVE Control'
  BY <1>7 DEF DisposeGoesOn, DisposeEnds, status, ledger
<1>8. ASSUME WorkerDies \/ ScratchDone PROVE UNCHANGED <<status, timers, ledger>>
  BY <1>8 DEF WorkerDies, ScratchDone
<1>9. ASSUME WorkerErrors \/ WorkerExits PROVE Control'
  BY <1>9, DeathControl DEF WorkerErrors, WorkerExits, WorkerDeath
<1>10. ASSUME ScratchFails PROVE Control'
  <2>1. CASE cancelled
    BY <1>1, <1>10, <2>1 DEF ScratchFails
  <2>2. CASE ~cancelled
    BY <1>10, <2>2, DeathControl DEF ScratchFails, WorkerDeath
  <2> QED
    BY <2>1, <2>2
<1>11. ASSUME SettleAfterScratch PROVE Control'
  <2>1. outcome' = Drained /\ outcome' # "none"
    BY <1>11 DEF SettleAfterScratch, Settle, Drained
  <2> QED
    BY <1>11, <2>1 DEF SettleAfterScratch, Drained, ledger
<1> QED
  BY <1>1, <1>2, <1>3, <1>4, <1>5, <1>6, <1>7, <1>8, <1>9, <1>10, <1>11, HostControl
  DEF Next, Handle, Timers, Thread, Effects, vars
-----------------------------------------------------------------------------
(* Starts and ends. *)
LEMMA PairedKept ==
  ASSUME Paired, UNCHANGED ledger
  PROVE  Paired'
BY DEF Paired, Committed, ledger

(* Agents without an end are told "cancelled". *)
LEMMA PairedStranded ==
  ASSUME TypeOK, Paired, EndStranded, UNCHANGED <<announced, journal>>
  PROVE  Paired'
<1>1. Committed' = Committed
  BY DEF Committed
<1>2. \A a \in Agents : ended'[a] = IF a \in live THEN "cancelled" ELSE ended[a]
  BY DEF EndStranded
<1> QED
  BY <1>1, <1>2 DEF Paired, EndStranded

(* The journal only grows. *)
LEMMA CommittedGrows ==
  ASSUME TypeOK, NEW a \in 0 .. MaxAgents, OnJournalCommit(a)
  PROVE  Committed \subseteq Committed'
<1>1. CASE cancelled
  BY <1>1 DEF OnJournalCommit, Committed
<1>2. CASE ~cancelled
  <2>1. journal' = Append(journal, a) /\ journal \in Seq(0 .. MaxAgents)
    BY <1>2 DEF OnJournalCommit, TypeOK, TypeLedger
  <2>2. \A i \in DOMAIN journal : i \in DOMAIN journal' /\ journal'[i] = journal[i]
    BY <2>1
  <2> QED
    BY <2>2 DEF Committed
<1> QED
  BY <1>1, <1>2

LEMMA PairedLedger ==
  ASSUME TypeOK, Paired, NEW m \in Frames, ~Violation(m),
         \/ m.type = "agent-start" /\ OnAgentStart(m.agent)
         \/ m.type = "agent-end" /\ OnAgentEnd(m.agent, m.tell)
         \/ m.type = "journal-commit" /\ OnJournalCommit(m.agent)
  PROVE  Paired'
<1>1. m.agent \in 0 .. MaxAgents /\ (m.type = "agent-end" => m.tell \in Ends)
  BY Reading
<1>2. CASE m.type = "agent-start" /\ OnAgentStart(m.agent)
  <2>1. cancelled \/ m.agent \notin announced
    BY <1>2 DEF Violation, BadStart
  <2> QED
    BY <1>2, <2>1 DEF OnAgentStart, Paired, Committed
<1>3. CASE m.type = "agent-end" /\ OnAgentEnd(m.agent, m.tell)
  <2>1. Committed' = Committed /\ announced' = announced /\ live' = live \ {m.agent}
    BY <1>3 DEF OnAgentEnd, Committed
  <2>2. CASE m.agent \notin live
    BY <1>3, <2>1, <2>2 DEF OnAgentEnd, Paired
  <2>3. CASE m.agent \in live
    <3> DEFINE how == IF cancelled THEN "cancelled" ELSE m.tell
    <3>1. ended' = [ended EXCEPT ![m.agent] = how] /\ DOMAIN ended = Agents
      BY <1>3, <2>3 DEF OnAgentEnd, TypeOK, TypeLedger
    <3>2. how = "completed" => m.agent \in Committed
      <4>1. ~cancelled => ~BadEnd(m.agent, m.tell)
        BY <1>3, Zenon DEF Violation
      <4> QED
        BY <4>1 DEF BadEnd
    <3>3. how # "none"
      BY <1>1, <1>3 DEF Ends
    <3> HIDE DEF how
    <3>4. \A a \in Agents : ended'[a] = IF a = m.agent THEN how ELSE ended[a]
      BY <3>1
    <3> QED
      BY <2>1, <2>3, <3>2, <3>3, <3>4 DEF Paired
  <2> QED
    BY <2>2, <2>3
<1>4. CASE m.type = "journal-commit" /\ OnJournalCommit(m.agent)
  BY <1>1, <1>4, CommittedGrows DEF OnJournalCommit, Paired
<1> QED
  BY <1>2, <1>3, <1>4

LEMMA PairedStep == TypeOK /\ Paired /\ [Next]_vars => Paired'
<1> SUFFICES ASSUME TypeOK, Paired, [Next]_vars PROVE Paired'
  OBVIOUS
<1>1. CASE UNCHANGED ledger
  BY <1>1, PairedKept
<1>2. CASE EndStranded /\ UNCHANGED <<announced, journal>>
  BY <1>2, PairedStranded
<1>3. ASSUME Script \/ WorkerReceives \/ Provider \/ Handle PROVE UNCHANGED ledger
  BY <1>3 DEF Script, CallAgent, CallLog, CallHook, ScriptEnds, WorkerReceives, Provider, StartResolves,
              StartRejects, DisposalEnds, ChildEnds, Handle, Release, Resume, Cancel, Dispose
<1>4. ASSUME HostReceives PROVE Paired'
  <2> DEFINE m == Head(toHost)
  <2>1. m \in Frames
    BY <1>4, Taking DEF HostReceives, TypeOK, TypePorts
  <2>2. CASE /\ ~Violation(m)
             /\ \/ m.type = "agent-start" /\ OnAgentStart(m.agent)
                \/ m.type = "agent-end" /\ OnAgentEnd(m.agent, m.tell)
                \/ m.type = "journal-commit" /\ OnJournalCommit(m.agent)
    BY <2>1, <2>2, PairedLedger
  <2>3. CASE OnReady \/ OnGate \/ OnScratchWrite \/ OnChildStart(m.agent) \/ OnChildDispose(m.agent)
    BY <1>1, <2>3 DEF OnReady, OnGate, OnScratchWrite, OnChildStart, OnChildDispose
  <2>4. CASE OnResult(m.tell)
    BY <1>2, <2>4 DEF OnResult
  <2>5. CASE WorkerDeath /\ UNCHANGED <<announced, journal>>
    BY <1>2, <2>5 DEF WorkerDeath
  <2> HIDE DEF m
  <2> QED
    BY <1>1, <1>4, <2>2, <2>3, <2>4, <2>5 DEF HostReceives, m
<1>5. ASSUME Timers PROVE Paired'
  BY <1>1, <1>2, <1>5 DEF Timers, GraceExpires, DisposeGoesOn, DisposeEnds
<1>6. ASSUME Thread PROVE Paired'
  BY <1>1, <1>2, <1>6 DEF Thread, WorkerDies, WorkerErrors, WorkerExits, WorkerDeath
<1>7. ASSUME Effects PROVE Paired'
  BY <1>1, <1>2, <1>7 DEF Effects, ScratchDone, ScratchFails, SettleAfterScratch, WorkerDeath
<1> QED
  BY <1>1, <1>3, <1>4, <1>5, <1>6, <1>7 DEF Next, vars
-----------------------------------------------------------------------------
(* No child is published once the thread is gone. *)
LEMMA DisposedStep == TypeOK /\ Control /\ DisposeIsComplete /\ [Next]_vars => DisposeIsComplete'
<1> SUFFICES ASSUME TypeOK, Control, DisposeIsComplete, [Next]_vars, disposal' = "done"
             PROVE  outcome' # "none" /\ gone' /\ \A a \in Agents : child'[a] # "published"
  BY DEF DisposeIsComplete
<1>1. outcome' # "none"
  BY ControlStep DEF Control, DisposeState
<1>2. CASE disposal # "done"
  <2>1. DisposeEnds
    BY <1>2 DEF Next, vars, timers, Script, CallAgent, CallLog, CallHook, ScriptEnds, WorkerReceives, Provider,
                StartResolves, StartRejects, DisposalEnds, ChildEnds, Handle, Release, Resume, Cancel, Dispose,
                Timers, GraceExpires, DisposeGoesOn, Thread, WorkerDies, WorkerErrors, WorkerExits, Effects,
                ScratchDone, ScratchFails, SettleAfterScratch, HostReceives
  <2> QED
    BY <1>1, <2>1 DEF DisposeEnds, Reaped, status
<1>3. CASE disposal = "done"
  <2>1. gone /\ death /\ \A a \in Agents : child[a] # "published"
    BY <1>3 DEF DisposeIsComplete, Control, TerminalState
  <2>2. gone'
    BY <2>1 DEF Next, vars, status, Script, CallAgent, CallLog, CallHook, ScriptEnds, WorkerReceives, Provider,
                StartResolves, StartRejects, DisposalEnds, ChildEnds, Handle, Release, Resume, Cancel, Dispose,
                Timers, GraceExpires, DisposeGoesOn, DisposeEnds, Thread, WorkerDies, WorkerErrors, WorkerExits,
                Effects, ScratchDone, ScratchFails, SettleAfterScratch, HostReceives
  <2>3. \A a \in Agents : child'[a] # "published"
    <3>1. CASE UNCHANGED child \/ child' = Reaped
      BY <2>1, <3>1 DEF Reaped
    <3>2. CASE Provider
      BY <2>1, <3>2 DEF Provider, StartResolves, Admitting, StartRejects, DisposalEnds, ChildEnds, TypeOK, TypeKids
    <3>3. UNCHANGED child \/ child' = Reaped \/ Provider
      BY <2>1 DEF Next, vars, kids, Script, CallAgent, CallLog, CallHook, ScriptEnds, WorkerReceives, HostReceives,
                  Handle, Release, Resume, Cancel, Dispose, Timers, GraceExpires, DisposeGoesOn, DisposeEnds,
                  Thread, WorkerDies, WorkerErrors, WorkerExits, WorkerDeath, Effects, ScratchDone, ScratchFails,
                  SettleAfterScratch
    <3> QED
      BY <3>1, <3>2, <3>3
  <2> QED
    BY <1>1, <2>2, <2>3
<1> QED
  BY <1>2, <1>3
-----------------------------------------------------------------------------
LEMMA InvInit == Init => Control /\ Paired /\ DisposeIsComplete
BY DEF Init, Control, TerminalState, CancelState, DisposeState, CancelDecides, Paired, DisposeIsComplete

LEMMA Paired_Settled == Control /\ Paired => PairedWhenSettled
BY DEF Control, TerminalState, Paired, PairedWhenSettled

LEMMA Inductive == Spec => [](TypeOK /\ Control /\ Paired /\ DisposeIsComplete)
<1>1. Init => TypeOK /\ Control /\ Paired /\ DisposeIsComplete
  BY TypeInit, InvInit
<1>2. TypeOK /\ Control /\ Paired /\ DisposeIsComplete /\ [Next]_vars
        => (TypeOK /\ Control /\ Paired /\ DisposeIsComplete)'
  BY TypeStep, ControlStep, PairedStep, DisposedStep
<1> QED
  BY <1>1, <1>2, PTL DEF Spec

(* cancel() decides: whatever the worker reports, however its thread ends
   and whichever timer fires, an accepted cancellation settles "cancelled". *)
THEOREM CancellationDecides == Spec => []CancelDecides
<1>1. Control => CancelDecides
  BY DEF Control
<1> QED
  BY <1>1, Inductive, PTL

(* The observer's starts and ends pair up, and when the result settles no
   start lacks its end; an end that says "completed" is in the journal. *)
THEOREM StartsAndEndsPair == Spec => []PairedWhenSettled
BY Inductive, Paired_Settled, PTL

(* dispose() has returned only if the run settled, its thread is gone and no
   child is left to the provider alone. *)
THEOREM DisposalIsComplete == Spec => []DisposeIsComplete
BY Inductive, PTL
-----------------------------------------------------------------------------
(* While nothing was cancelled and the host still admits frames. *)
Open == ~cancelled /\ ~death /\ ~claimed

(* What is on its way about one agent, to the host and to the worker. *)
Posted(a) == {toHost[i].type : i \in {j \in DOMAIN toHost : toHost[j].agent = a}}
Sent(a)   == {toWorker[i].type : i \in {j \in DOMAIN toWorker : toWorker[j].agent = a}}

(* The order in which the worker speaks of one agent. *)
Rank(type) ==
  IF type = "child-start" THEN 1 ELSE IF type = "agent-start" THEN 2
  ELSE IF type = "journal-commit" THEN 3 ELSE IF type = "agent-end" THEN 4
  ELSE IF type = "child-dispose" THEN 5 ELSE 0
InOrder ==
  \A i, j \in DOMAIN toHost :
    i < j /\ toHost[i].agent = toHost[j].agent /\ toHost[i].agent # 0
      => Rank(toHost[i].type) < Rank(toHost[j].type)
StartsInOrder ==
  \A i, j \in DOMAIN toHost :
    i < j /\ toHost[i].type = "child-start" /\ toHost[j].type = "child-start"
      => toHost[i].agent < toHost[j].agent
OnlyOnce ==
  \A i, j \in DOMAIN toWorker :
    toWorker[i].type = toWorker[j].type /\ toWorker[i].agent = toWorker[j].agent /\ toWorker[i].agent # 0
      => i = j

(* Who a frame is about; the first frame is ready; nothing asks to stop. *)
FromWorker == {"child-start", "agent-start", "agent-end", "child-dispose"}
FromHost   == {"child-started", "child-start-error", "child-settled", "child-failed", "child-disposed"}
ReadyFirst ==
  /\ ~ready => toHost # <<>>
  /\ \A i \in DOMAIN toHost : toHost[i].type = "ready" <=> ~ready /\ i = 1
HostPort ==
  /\ \A i \in DOMAIN toHost : toHost[i].type \in FromWorker => toHost[i].agent # 0
  /\ ReadyFirst /\ InOrder /\ StartsInOrder
WorkerPort ==
  /\ ~stopping /\ \A i \in DOMAIN toWorker : toWorker[i].type # "cancel"
  /\ \A i \in DOMAIN toWorker : toWorker[i].type \in FromHost <=> toWorker[i].agent # 0
  /\ OnlyOnce

(* The commits on their way continue the journal up to the worker's ordinal. *)
CommitFrames == {i \in DOMAIN toHost : toHost[i].type = "journal-commit"}
CommitOrder ==
  /\ Len(journal) <= ordinal
  /\ \A i \in CommitFrames : toHost[i].n \in Len(journal) + 1 .. ordinal
  /\ \A i, j \in CommitFrames : i < j => toHost[i].n < toHost[j].n
  /\ \A n \in Len(journal) + 1 .. ordinal : \E i \in CommitFrames : toHost[i].n = n

(* Both sides count the same calls. *)
Counts ==
  /\ \A a \in Agents : call[a] # "idle" <=> a <= Started
  /\ \A a \in Agents : child[a] # "none" <=> a <= HostStarted
  /\ \A a, b \in Agents : a < b /\ call[a] = "queued" => call[b] \in {"idle", "queued"}
  /\ Cardinality(Slots) <= MaxConcurrent
  /\ Queued # {} => Cardinality(Slots) = MaxConcurrent
OnPort == {toHost[i] : i \in DOMAIN toHost}
ResultCounts == \A m \in OnPort : m.type = "result" => script = "ended" /\ m.n = Started

(* An end tells what its child did and what the journal has or is about to get. *)
HasCommit(a) == a \in Committed \/ "journal-commit" \in Posted(a)
EndTold(a, how) ==
  /\ how \in {"completed", "failed"}
  /\ result[a] = IF HasCommit(a) THEN "settled" ELSE "failed"
  /\ how = "completed" => HasCommit(a)
EndsTell == \A m \in OnPort : m.type = "agent-end" => EndTold(m.agent, m.tell)

(* Where the two sides stand with one agent. *)
Unheard(a) == a \notin announced /\ a \notin live /\ a \notin Committed /\ a \notin asked
Linked(a) ==
  /\ call[a] \in {"idle", "queued"} => child[a] = "none" /\ Posted(a) = {} /\ Sent(a) = {} /\ Unheard(a)
  /\ call[a] = "starting" =>
       /\ Unheard(a)
       /\ \/ child[a] = "none" /\ Posted(a) = {"child-start"} /\ Sent(a) = {}
          \/ child[a] = "starting" /\ Posted(a) = {} /\ Sent(a) = {}
          \/ /\ child[a] = "published" /\ Posted(a) = {}
             /\ Sent(a) \subseteq {"child-started", "child-settled", "child-failed"}
          \/ child[a] = "failed" /\ Posted(a) = {} /\ Sent(a) \subseteq {"child-start-error"}
  /\ call[a] = "running" =>
       /\ child[a] = "published" /\ a \notin Committed /\ a \notin asked
       /\ Sent(a) \subseteq {"child-settled", "child-failed"}
       /\ \/ Posted(a) = {"agent-start"} /\ Unheard(a)
          \/ Posted(a) = {} /\ a \in live
  /\ call[a] = "disposing" =>
       /\ Sent(a) \subseteq {"child-settled", "child-failed", "child-disposed"}
       /\ \/ /\ child[a] = "published" /\ a \notin asked /\ "child-disposed" \notin Sent(a)
             /\ Posted(a) \subseteq {"agent-start", "journal-commit", "agent-end", "child-dispose"}
             /\ "child-dispose" \in Posted(a)
             /\ "agent-start" \in Posted(a) => Unheard(a) /\ "agent-end" \in Posted(a)
             /\ "journal-commit" \in Posted(a) =>
                  a \notin Committed /\ result[a] = "settled" /\ "agent-end" \in Posted(a)
             /\ "agent-end" \in Posted(a) => "agent-start" \in Posted(a) \/ a \in live
          \/ child[a] = "disposing" /\ a \in asked /\ Posted(a) = {} /\ "child-disposed" \notin Sent(a)
          \/ child[a] = "reaped" /\ a \in asked /\ Posted(a) = {}
  /\ call[a] = "done" =>
       /\ child[a] \in {"failed", "reaped"} /\ Posted(a) = {} /\ Sent(a) \subseteq {"child-settled", "child-failed"}
  /\ child[a] \in {"none", "starting", "failed"} => result[a] = "pending"
  /\ "child-settled" \in Sent(a) => result[a] = "settled"
  /\ "child-failed" \in Sent(a) => result[a] = "failed"
Accord ==
  /\ HostPort /\ WorkerPort /\ CommitOrder /\ Counts /\ ResultCounts /\ EndsTell
  /\ \A a \in Agents : Linked(a)
AccordInv == NeverAccused /\ (Open => Accord)

-----------------------------------------------------------------------------
(* The two ports. *)

LEMMA Ranks ==
  /\ Rank("child-start") = 1 /\ Rank("agent-start") = 2 /\ Rank("journal-commit") = 3
  /\ Rank("agent-end") = 4 /\ Rank("child-dispose") = 5
BY DEF Rank

(* Frames that are posted come after those on their way. *)
LEMMA Appended ==
  ASSUME NEW s \in Seq(Frames), NEW t \in Seq(Frames)
  PROVE  /\ DOMAIN (s \o t) = 1 .. Len(s) + Len(t)
         /\ \A i \in DOMAIN s : i \in DOMAIN (s \o t) /\ (s \o t)[i] = s[i] /\ i <= Len(s)
         /\ \A j \in DOMAIN t : Len(s) + j \in DOMAIN (s \o t) /\ (s \o t)[Len(s) + j] = t[j]
         /\ \A i \in DOMAIN (s \o t) : i \in DOMAIN s \/ (i - Len(s) \in DOMAIN t /\ i > Len(s))
OBVIOUS

LEMMA Shifted ==
  ASSUME NEW s \in Seq(Frames), s # <<>>
  PROVE  /\ 1 \in DOMAIN s /\ Head(s) = s[1]
         /\ \A i \in DOMAIN Tail(s) : i + 1 \in DOMAIN s /\ Tail(s)[i] = s[i + 1] /\ i + 1 > 1
         /\ \A i \in DOMAIN s : i # 1 => i - 1 \in DOMAIN Tail(s) /\ Tail(s)[i - 1] = s[i]
OBVIOUS

LEMMA OnTheWay ==
  ASSUME NEW i \in DOMAIN toHost
  PROVE  toHost[i].type \in Posted(toHost[i].agent)
BY DEF Posted

LEMMA OnTheWayBack ==
  ASSUME NEW i \in DOMAIN toWorker
  PROVE  toWorker[i].type \in Sent(toWorker[i].agent)
BY DEF Sent

LEMMA PostedAdds ==
  ASSUME toHost \in Seq(Frames), NEW fs \in Seq(Frames), Post(fs), NEW a
  PROVE  Posted(a)' = Posted(a) \cup {fs[j].type : j \in {k \in DOMAIN fs : fs[k].agent = a}}
<1>1. toHost' = toHost \o fs
  BY DEF Post
<1>2. ASSUME NEW t \in Posted(a)' PROVE t \in Posted(a) \cup {fs[j].type : j \in {k \in DOMAIN fs : fs[k].agent = a}}
  <2>1. PICK i \in DOMAIN toHost' : toHost'[i].agent = a /\ toHost'[i].type = t
    BY <1>2 DEF Posted
  <2>2. CASE i \in DOMAIN toHost
    BY <1>1, <2>1, <2>2, Appended DEF Posted
  <2>3. CASE i \notin DOMAIN toHost
    <3>1. i - Len(toHost) \in DOMAIN fs /\ i = Len(toHost) + (i - Len(toHost))
      BY <1>1, <2>1, <2>3, Appended
    <3>2. toHost'[i] = fs[i - Len(toHost)]
      BY <1>1, <3>1, Appended
    <3> QED
      BY <2>1, <3>1, <3>2
  <2> QED
    BY <2>2, <2>3
<1>3. ASSUME NEW t \in Posted(a) PROVE t \in Posted(a)'
  <2>1. PICK i \in DOMAIN toHost : toHost[i].agent = a /\ toHost[i].type = t
    BY <1>3 DEF Posted
  <2>2. i \in DOMAIN toHost' /\ toHost'[i] = toHost[i]
    BY <1>1, Appended
  <2> QED
    BY <2>1, <2>2 DEF Posted
<1>4. ASSUME NEW j \in DOMAIN fs, fs[j].agent = a PROVE fs[j].type \in Posted(a)'
  <2>1. Len(toHost) + j \in DOMAIN toHost' /\ toHost'[Len(toHost) + j] = fs[j]
    BY <1>1, Appended
  <2> QED
    BY <1>4, <2>1 DEF Posted
<1> QED
  BY <1>2, <1>3, <1>4

LEMMA PostedLoses ==
  ASSUME toHost \in Seq(Frames), toHost # <<>>, toHost' = Tail(toHost), InOrder, NEW a, a # 0
  PROVE  Posted(a)' = IF a = Head(toHost).agent THEN Posted(a) \ {Head(toHost).type} ELSE Posted(a)
<1> DEFINE m == toHost[1]
<1>1. m = Head(toHost) /\ 1 \in DOMAIN toHost
  BY Shifted
<1>2. ASSUME NEW t \in Posted(a)' PROVE t \in Posted(a) /\ (a = m.agent => t # m.type)
  <2>1. PICK i \in DOMAIN toHost' : toHost'[i].agent = a /\ toHost'[i].type = t
    BY <1>2 DEF Posted
  <2>2. i + 1 \in DOMAIN toHost /\ toHost'[i] = toHost[i + 1] /\ 1 < i + 1
    BY <2>1, Shifted
  <2>3. t \in Posted(a)
    BY <2>1, <2>2 DEF Posted
  <2>4. a = m.agent => Rank(m.type) < Rank(t)
    BY <1>1, <2>1, <2>2 DEF InOrder
  <2>5. Rank(m.type) \in Nat
    BY DEF Rank
  <2> QED
    BY <2>3, <2>4, <2>5
<1>3. ASSUME NEW t \in Posted(a), a = m.agent => t # m.type PROVE t \in Posted(a)'
  <2>1. PICK i \in DOMAIN toHost : toHost[i].agent = a /\ toHost[i].type = t
    BY <1>3 DEF Posted
  <2>2. i # 1
    BY <1>3, <2>1
  <2>3. i - 1 \in DOMAIN toHost' /\ toHost'[i - 1] = toHost[i]
    BY <2>1, <2>2, Shifted
  <2> QED
    BY <2>1, <2>3 DEF Posted
<1> QED
  BY <1>1, <1>2, <1>3

LEMMA SentAdds ==
  ASSUME toWorker \in Seq(Frames), NEW f \in Frames, Send(<<f>>), NEW a
  PROVE  Sent(a)' \subseteq IF f.agent = a THEN Sent(a) \cup {f.type} ELSE Sent(a)
<1>1. CASE toWorker' = toWorker
  BY <1>1 DEF Sent
<1>2. CASE toWorker' = toWorker \o <<f>>
  <2> SUFFICES ASSUME NEW i \in DOMAIN toWorker', toWorker'[i].agent = a
               PROVE  toWorker'[i].type \in IF f.agent = a THEN Sent(a) \cup {f.type} ELSE Sent(a)
    BY DEF Sent
  <2>1. (i \in DOMAIN toWorker /\ toWorker'[i] = toWorker[i]) \/ toWorker'[i] = f
    BY <1>2
  <2> QED
    BY <2>1, OnTheWayBack
<1> QED
  BY <1>1, <1>2 DEF Send

LEMMA SentLoses ==
  ASSUME toWorker \in Seq(Frames), toWorker # <<>>, toWorker' = Tail(toWorker), OnlyOnce, NEW a, a # 0
  PROVE  /\ Sent(a)' \subseteq Sent(a)
         /\ a = Head(toWorker).agent => Head(toWorker).type \in Sent(a) \ Sent(a)'
<1> SUFFICES ASSUME NEW i \in DOMAIN toWorker', toWorker'[i].agent = a
             PROVE  /\ toWorker'[i].type \in Sent(a)
                    /\ a = Head(toWorker).agent => toWorker'[i].type # Head(toWorker).type
  <2>1. 1 \in DOMAIN toWorker /\ Head(toWorker) = toWorker[1]
    BY Shifted
  <2> QED
    BY <2>1 DEF Sent
<1>1. i + 1 \in DOMAIN toWorker /\ toWorker'[i] = toWorker[i + 1] /\ i + 1 > 1
  BY Shifted
<1>2. 1 \in DOMAIN toWorker /\ Head(toWorker) = toWorker[1]
  BY Shifted
<1> QED
  BY <1>1, <1>2, OnTheWayBack DEF OnlyOnce

-----------------------------------------------------------------------------
(* Counting the calls of either side. *)

LEMMA AgentSets == ASSUME NEW S, S \subseteq Agents
                   PROVE  IsFiniteSet(S) /\ Cardinality(S) \in Nat
<1>1. IsFiniteSet(Agents)
  BY Limits, FS_Interval DEF Agents
<1> QED
  BY <1>1, FS_Subset, FS_CardinalityType

LEMMA CountTypes == Started \in Nat /\ HostStarted \in Nat /\ Started <= MaxAgents /\ HostStarted <= MaxAgents
<1>1. IsFiniteSet(Agents) /\ Cardinality(Agents) = MaxAgents
  BY Limits, FS_Interval DEF Agents
<1> DEFINE C == {a \in Agents : call[a] # "idle"}
           H == {a \in Agents : child[a] # "none"}
<1>2. C \subseteq Agents /\ H \subseteq Agents
  OBVIOUS
<1> HIDE DEF C, H
<1>3. Cardinality(C) \in Nat /\ Cardinality(H) \in Nat
  BY <1>2, AgentSets
<1>4. Cardinality(C) <= MaxAgents /\ Cardinality(H) <= MaxAgents
  BY <1>1, <1>2, FS_Subset
<1> QED
  BY <1>3, <1>4 DEF C, H, Started, HostStarted

(* A set of agents that grows by one counts one more. *)
LEMMA OneMore ==
  ASSUME NEW S, NEW T, S \subseteq Agents, NEW a \in Agents \ S, T = S \cup {a}
  PROVE  Cardinality(T) = Cardinality(S) + 1
BY AgentSets, FS_AddElement

LEMMA OneLess ==
  ASSUME NEW S, NEW T, S \subseteq Agents, NEW a \in S, T = S \ {a}
  PROVE  Cardinality(T) = Cardinality(S) - 1
BY AgentSets, FS_RemoveElement

LEMMA NoMore ==
  ASSUME NEW S, NEW T, T \subseteq Agents, S \subseteq T
  PROVE  Cardinality(S) <= Cardinality(T)
BY AgentSets, FS_Subset

-----------------------------------------------------------------------------
(* What the host checks holds of the first frame. *)
Base == TypeOK /\ Control /\ Open /\ Accord

LEMMA HeadFrame ==
  ASSUME Base, toHost # <<>>
  PROVE  LET m == Head(toHost) IN
         /\ m \in Frames /\ 1 \in DOMAIN toHost /\ m = toHost[1] /\ m.type \in Posted(m.agent)
         /\ m.agent \in 0 .. MaxAgents /\ (m.agent # 0 => m.agent \in Agents)
         /\ m.type \in FromWorker => m.agent \in Agents
<1>1. toHost \in Seq(Frames)
  BY DEF Base, TypeOK, TypePorts
<1>2. Head(toHost) \in Frames /\ 1 \in DOMAIN toHost /\ Head(toHost) = toHost[1]
  BY <1>1, Taking, Shifted
<1>3. Head(toHost).agent \in 0 .. MaxAgents /\ MaxAgents \in Nat
  BY <1>2, Reading, Limits
<1>4. Head(toHost).type \in FromWorker => Head(toHost).agent # 0
  BY <1>2 DEF Base, Accord, HostPort
<1> QED
  BY <1>2, <1>3, <1>4, OnTheWay DEF Agents

(* What comes first is all that came before of its agent. *)
LEMMA FirstOfItsAgent ==
  ASSUME Base, toHost # <<>>, Head(toHost).agent # 0,
         NEW t \in Posted(Head(toHost).agent), t # Head(toHost).type
  PROVE  Rank(Head(toHost).type) < Rank(t)
<1>1. PICK i \in DOMAIN toHost : toHost[i].agent = Head(toHost).agent /\ toHost[i].type = t
  BY DEF Posted
<1>2. 1 \in DOMAIN toHost /\ Head(toHost) = toHost[1] /\ toHost \in Seq(Frames)
  BY HeadFrame DEF Base, TypeOK, TypePorts
<1>3. i > 1
  BY <1>1, <1>2
<1> QED
  BY <1>1, <1>2, <1>3 DEF Base, Accord, HostPort, InOrder

LEMMA StartAccepted ==
  ASSUME Base, toHost # <<>>, Head(toHost).type = "agent-start"
  PROVE  ~BadStart(Head(toHost).agent)
<1> DEFINE a == Head(toHost).agent
<1>1. a \in Agents /\ "agent-start" \in Posted(a)
  BY HeadFrame DEF FromWorker
<1> HIDE DEF a
<1>2. Linked(a) /\ (child[a] # "none" <=> a <= HostStarted)
  BY <1>1 DEF Base, Accord, Counts
<1>3. child[a] = "published" /\ a \notin announced
  BY <1>1, <1>2 DEF Linked, Unheard, Base, TypeOK, TypeWorker
<1>4. a <= HostStarted
  BY <1>2, <1>3
<1>5. ~(a > HostStarted)
  BY <1>1, <1>4, CountTypes DEF Agents
<1> QED
  BY <1>1, <1>3, <1>5 DEF a, BadStart, Children

LEMMA CommitAccepted ==
  ASSUME Base, toHost # <<>>, Head(toHost).type = "journal-commit"
  PROVE  ~BadCommit(Head(toHost).agent, Head(toHost).n)
<1> DEFINE a == Head(toHost).agent
<1>1. a \in 0 .. MaxAgents /\ (a # 0 => a \in Agents) /\ "journal-commit" \in Posted(a)
  BY HeadFrame
<1>2. Head(toHost).n = Len(journal) + 1
  <2>1. 1 \in DOMAIN toHost /\ Head(toHost) = toHost[1] /\ toHost \in Seq(Frames) /\ 1 \in CommitFrames
    BY HeadFrame DEF Base, TypeOK, TypePorts, CommitFrames
  <2>2. CommitOrder /\ Len(journal) \in Nat /\ ordinal \in Nat
    BY DEF Base, Accord, TypeOK, TypeLedger, TypeWorker
  <2>3. toHost[1].n \in Len(journal) + 1 .. ordinal
    BY <2>1, <2>2 DEF CommitOrder
  <2>4. PICK i \in CommitFrames : toHost[i].n = Len(journal) + 1
    BY <2>2, <2>3 DEF CommitOrder
  <2>5. i = 1 \/ i > 1
    BY <2>1, <2>4 DEF CommitFrames
  <2>6. i > 1 => toHost[1].n < toHost[i].n
    BY <2>1, <2>2, <2>4 DEF CommitOrder
  <2> QED
    BY <2>1, <2>2, <2>3, <2>4, <2>5, <2>6
<1>3. CASE a = 0
  BY <1>2, <1>3 DEF BadCommit
<1>4. CASE a # 0
  <2>1. a \in Agents /\ Linked(a)
    BY <1>1, <1>4 DEF Base, Accord
  <2>2. "agent-start" \notin Posted(a)
    BY <1>4, FirstOfItsAgent, Ranks
  <2> HIDE DEF a
  <2>3. /\ a \notin Committed /\ result[a] = "settled" /\ a \in live
    BY <1>1, <2>1, <2>2 DEF Linked, Base, TypeOK, TypeWorker
  <2> QED
    BY <1>2, <2>3 DEF a, BadCommit
<1> QED
  BY <1>3, <1>4

LEMMA EndAccepted ==
  ASSUME Base, toHost # <<>>, Head(toHost).type = "agent-end"
  PROVE  ~BadEnd(Head(toHost).agent, Head(toHost).tell)
<1> DEFINE a == Head(toHost).agent
<1>1. a \in Agents /\ "agent-end" \in Posted(a) /\ a # 0
  BY HeadFrame, Limits DEF FromWorker, Agents
<1>2. "agent-start" \notin Posted(a) /\ "journal-commit" \notin Posted(a)
  BY <1>1, FirstOfItsAgent, Ranks
<1>3. /\ Head(toHost).tell \in {"completed", "failed"}
      /\ result[a] = IF HasCommit(a) THEN "settled" ELSE "failed"
      /\ Head(toHost).tell = "completed" => HasCommit(a)
  BY HeadFrame DEF Base, Accord, EndsTell, EndTold, OnPort
<1>4. HasCommit(a) <=> a \in Committed
  BY <1>2 DEF HasCommit
<1> HIDE DEF a
<1>5. Linked(a)
  BY <1>1 DEF Base, Accord
<1>6. a \in live
  BY <1>1, <1>2, <1>5 DEF Linked, Base, TypeOK, TypeWorker
<1> QED
  BY <1>3, <1>4, <1>6 DEF a, BadEnd

LEMMA DisposeAccepted ==
  ASSUME Base, toHost # <<>>, Head(toHost).type = "child-dispose"
  PROVE  ~BadDispose(Head(toHost).agent)
<1> DEFINE a == Head(toHost).agent
<1>1. a \in Agents /\ "child-dispose" \in Posted(a)
  BY HeadFrame DEF FromWorker
<1> HIDE DEF a
<1>2. Linked(a)
  BY <1>1 DEF Base, Accord
<1>3. a \notin asked /\ child[a] = "published"
  BY <1>1, <1>2 DEF Linked, Base, TypeOK, TypeWorker
<1> QED
  BY <1>1, <1>3 DEF a, BadDispose

(* Each child the host has is in a slot of the worker. *)
LEMMA ChildStartAccepted ==
  ASSUME Base, toHost # <<>>, Head(toHost).type = "child-start"
  PROVE  LET a == Head(toHost).agent IN
         ~BadChildStart(a) /\ call[a] = "starting" /\ child[a] = "none" /\ a = HostStarted + 1
<1> DEFINE a == Head(toHost).agent
<1>1. a \in Agents /\ "child-start" \in Posted(a) /\ a # 0 /\ a \in Nat
  BY HeadFrame, Limits DEF FromWorker, Agents
<1>2. Counts /\ \A b \in Agents : Linked(b)
  BY DEF Base, Accord
<1>3. call[a] = "starting" /\ child[a] = "none"
  <2> HIDE DEF a
  <2> QED
    BY <1>1, <1>2 DEF Linked, Base, TypeOK, TypeWorker
<1>4. \A b \in Agents : b < a => child[b] # "none"
  <2> SUFFICES ASSUME NEW b \in Agents, b < a, child[b] = "none" PROVE FALSE
    OBVIOUS
  <2>1. call[b] \notin {"idle", "queued"}
    BY <1>1, <1>2, <1>3, CountTypes DEF Counts, Agents
  <2>2. "child-start" \in Posted(b)
    BY <1>2, <2>1 DEF Linked, Base, TypeOK, TypeWorker
  <2>3. PICK i \in DOMAIN toHost : toHost[i].agent = b /\ toHost[i].type = "child-start"
    BY <2>2 DEF Posted
  <2>4. 1 \in DOMAIN toHost /\ Head(toHost) = toHost[1] /\ toHost \in Seq(Frames)
    BY HeadFrame DEF Base, TypeOK, TypePorts
  <2>5. i > 1
    BY <2>3, <2>4, <1>1 DEF Agents
  <2>6. toHost[1].agent < toHost[i].agent
    BY <2>3, <2>4, <2>5 DEF Base, Accord, HostPort, StartsInOrder
  <2> QED
    BY <1>1, <2>3, <2>4, <2>6 DEF Agents
<1> HIDE DEF a
<1>5. a = HostStarted + 1
  <2>1. ~(a <= HostStarted)
    BY <1>1, <1>2, <1>3 DEF Counts
  <2>2. a > 1 => a - 1 \in Agents /\ a - 1 < a
    BY <1>1, Limits DEF Agents
  <2>3. a > 1 => a - 1 <= HostStarted
    BY <1>2, <1>4, <2>2 DEF Counts
  <2> QED
    BY <1>1, <2>1, <2>3, CountTypes DEF Agents
<1>6. HostStarted < MaxAgents
  BY <1>1, <1>5, CountTypes, Limits DEF Agents
<1>7. Cardinality(ActiveChildCallIds) < MaxConcurrent
  <2>1. ActiveChildCallIds \subseteq Slots \ {a}
    BY <1>2, <1>3 DEF ActiveChildCallIds, PendingStarts, Children, Slots, Linked, Base, TypeOK, TypeWorker
  <2>2. Slots \subseteq Agents /\ a \in Slots
    BY <1>1, <1>3 DEF Slots
  <2>3. Cardinality(ActiveChildCallIds) <= Cardinality(Slots \ {a})
    BY <2>1, <2>2, NoMore
  <2>4. Cardinality(Slots \ {a}) = Cardinality(Slots) - 1
    BY <2>2, OneLess
  <2>5. Cardinality(Slots) <= MaxConcurrent
    BY <1>2 DEF Counts
  <2>6. Cardinality(Slots) \in Nat /\ Cardinality(ActiveChildCallIds) \in Nat
    BY <2>1, <2>2, AgentSets
  <2> QED
    BY <2>3, <2>4, <2>5, <2>6, EngineAssumption
<1> QED
  <2>1. ~(HostStarted >= MaxAgents)
    BY <1>6, CountTypes, Limits
  <2>2. ~(Cardinality(ActiveChildCallIds) >= MaxConcurrent)
    <3>1. ActiveChildCallIds \subseteq Agents
      BY DEF ActiveChildCallIds, PendingStarts, Children
    <3> QED
      BY <1>7, <3>1, AgentSets, EngineAssumption
  <2> QED
    BY <1>3, <1>5, <2>1, <2>2 DEF a, BadChildStart

LEMMA NoViolation ==
  ASSUME Base, toHost # <<>>
  PROVE  ~Violation(Head(toHost))
<1> DEFINE m == Head(toHost)
<1>1. m.type = "ready" <=> ~ready
  BY HeadFrame DEF Base, Accord, HostPort, ReadyFirst
<1>2. m.type = "result" => m.n \in HostStarted .. MaxAgents
  <2>1. HostStarted <= Started
    <3>1. {a \in Agents : child[a] # "none"} \subseteq {a \in Agents : call[a] # "idle"}
      BY DEF Base, Accord, Linked
    <3>2. {a \in Agents : call[a] # "idle"} \subseteq Agents
      OBVIOUS
    <3> QED
      BY <3>1, <3>2, NoMore DEF Started, HostStarted
  <2>2. m.type = "result" => m.n = Started
    BY HeadFrame DEF Base, Accord, ResultCounts, OnPort
  <2> QED
    BY <2>1, <2>2, CountTypes, Limits
<1>3. ~cancelled
  BY DEF Base, Open
<1>4. ready \in BOOLEAN
  BY DEF Base, TypeOK, TypeStatus
<1> QED
  BY <1>1, <1>2, <1>3, <1>4, StartAccepted, CommitAccepted, EndAccepted, DisposeAccepted, ChildStartAccepted
  DEF Violation

-----------------------------------------------------------------------------
(* What posting and taking do to the ports. *)

LEMMA PostedPort ==
  ASSUME toHost \in Seq(Frames), HostPort, NEW fs \in Seq(Frames), Post(fs), UNCHANGED ready,
         \A j \in DOMAIN fs : fs[j].type # "ready" /\ (fs[j].type \in FromWorker => fs[j].agent # 0),
         \A j, k \in DOMAIN fs : j < k /\ fs[j].agent = fs[k].agent /\ fs[j].agent # 0
                                   => Rank(fs[j].type) < Rank(fs[k].type),
         \A j \in DOMAIN fs : fs[j].agent # 0 => \A t \in Posted(fs[j].agent) : Rank(t) < Rank(fs[j].type),
         \A j \in DOMAIN fs : fs[j].type = "child-start" =>
           /\ \A k \in DOMAIN fs : fs[k].type = "child-start" => k = j
           /\ \A i \in DOMAIN toHost : toHost[i].type = "child-start" => toHost[i].agent < fs[j].agent
  PROVE  HostPort'
<1> DEFINE n == Len(toHost)
<1>1. toHost' = toHost \o fs /\ n \in Nat
  BY DEF Post
<1>2. \A i \in DOMAIN toHost' : \/ i \in DOMAIN toHost /\ toHost'[i] = toHost[i] /\ i <= n
                                \/ i - n \in DOMAIN fs /\ toHost'[i] = fs[i - n] /\ i > n
  <2> SUFFICES ASSUME NEW i \in DOMAIN toHost' PROVE \/ i \in DOMAIN toHost /\ toHost'[i] = toHost[i] /\ i <= n
                                                     \/ i - n \in DOMAIN fs /\ toHost'[i] = fs[i - n] /\ i > n
    OBVIOUS
  <2>1. CASE i \in DOMAIN toHost
    BY <1>1, <2>1, Appended
  <2>2. CASE i \notin DOMAIN toHost
    <3>1. i - n \in DOMAIN fs /\ i > n
      BY <1>1, <2>2, Appended
    <3>2. toHost'[n + (i - n)] = fs[i - n]
      BY <1>1, <3>1, Appended
    <3>3. n + (i - n) = i
      BY <1>1, <3>1, Appended
    <3> QED
      BY <3>1, <3>2, <3>3
  <2> QED
    BY <2>1, <2>2
<1>3. DOMAIN toHost = 1 .. n /\ DOMAIN fs = 1 .. Len(fs) /\ DOMAIN toHost' = 1 .. n + Len(fs) /\ Len(fs) \in Nat
  BY <1>1, Appended
<1> HIDE DEF n
<1>4. \A i \in DOMAIN toHost' : toHost'[i].type \in FromWorker => toHost'[i].agent # 0
  BY <1>2 DEF HostPort
<1>5. ReadyFirst'
  <2>1. ~ready => n >= 1
    BY DEF HostPort, ReadyFirst, n
  <2>2. ~ready' => toHost' # <<>>
    BY <1>1, <1>3, <2>1
  <2>3. \A i \in DOMAIN toHost' : toHost'[i].type = "ready" <=> ~ready' /\ i = 1
    <3> SUFFICES ASSUME NEW i \in DOMAIN toHost' PROVE toHost'[i].type = "ready" <=> ~ready /\ i = 1
      OBVIOUS
    <3>1. CASE i \in DOMAIN toHost /\ toHost'[i] = toHost[i]
      BY <3>1 DEF HostPort, ReadyFirst
    <3>2. CASE i - n \in DOMAIN fs /\ toHost'[i] = fs[i - n] /\ i > n
      <4>1. toHost'[i].type # "ready"
        BY <3>2
      <4>2. ~ready => i # 1
        BY <1>1, <1>3, <2>1, <3>2
      <4> QED
        BY <4>1, <4>2
    <3> QED
      BY <1>2, <3>1, <3>2
  <2> QED
    BY <2>2, <2>3 DEF ReadyFirst
<1>6. InOrder'
  <2> SUFFICES ASSUME NEW i \in DOMAIN toHost', NEW j \in DOMAIN toHost', i < j,
                      toHost'[i].agent = toHost'[j].agent, toHost'[i].agent # 0
               PROVE  Rank(toHost'[i].type) < Rank(toHost'[j].type)
    BY DEF InOrder
  <2>1. CASE j \in DOMAIN toHost /\ toHost'[j] = toHost[j] /\ j <= n
    <3>1. i \in DOMAIN toHost /\ toHost'[i] = toHost[i]
      BY <1>1, <1>2, <1>3, <2>1
    <3> QED
      BY <2>1, <3>1 DEF HostPort, InOrder
  <2>2. CASE j - n \in DOMAIN fs /\ toHost'[j] = fs[j - n] /\ j > n
    <3>1. CASE i \in DOMAIN toHost /\ toHost'[i] = toHost[i]
      <4>1. toHost[i].type \in Posted(fs[j - n].agent)
        BY <2>2, <3>1, OnTheWay
      <4> QED
        BY <2>2, <3>1, <4>1
    <3>2. CASE i - n \in DOMAIN fs /\ toHost'[i] = fs[i - n]
      <4>1. i - n < j - n
        BY <1>1, <1>3
      <4> QED
        BY <2>2, <3>2, <4>1
    <3> QED
      BY <1>2, <3>1, <3>2
  <2> QED
    BY <1>2, <2>1, <2>2
<1>7. StartsInOrder'
  <2> SUFFICES ASSUME NEW i \in DOMAIN toHost', NEW j \in DOMAIN toHost', i < j,
                      toHost'[i].type = "child-start", toHost'[j].type = "child-start"
               PROVE  toHost'[i].agent < toHost'[j].agent
    BY DEF StartsInOrder
  <2>1. CASE j \in DOMAIN toHost /\ toHost'[j] = toHost[j] /\ j <= n
    <3>1. i \in DOMAIN toHost /\ toHost'[i] = toHost[i]
      BY <1>1, <1>2, <1>3, <2>1
    <3> QED
      BY <2>1, <3>1 DEF HostPort, StartsInOrder
  <2>2. CASE j - n \in DOMAIN fs /\ toHost'[j] = fs[j - n] /\ j > n
    <3>1. CASE i \in DOMAIN toHost /\ toHost'[i] = toHost[i]
      BY <2>2, <3>1
    <3>2. CASE i - n \in DOMAIN fs /\ toHost'[i] = fs[i - n]
      <4>1. i - n = j - n
        BY <2>2, <3>2
      <4> QED
        BY <1>1, <1>3, <4>1
    <3> QED
      BY <1>2, <3>1, <3>2
  <2> QED
    BY <1>2, <2>1, <2>2
<1> QED
  BY <1>4, <1>5, <1>6, <1>7 DEF HostPort

LEMMA TakenPort ==
  ASSUME toHost \in Seq(Frames), toHost # <<>>, HostPort, toHost' = Tail(toHost), ready'
  PROVE  HostPort'
<1>1. \A i \in DOMAIN toHost' : i + 1 \in DOMAIN toHost /\ toHost'[i] = toHost[i + 1] /\ i + 1 > 1 /\ i \in Nat
  BY Shifted
<1>2. \A i, j \in DOMAIN toHost' : i < j => i + 1 < j + 1
  BY <1>1
<1>3. ReadyFirst'
  BY <1>1 DEF HostPort, ReadyFirst
<1>4. InOrder' /\ StartsInOrder'
  BY <1>1, <1>2 DEF HostPort, InOrder, StartsInOrder
<1> QED
  BY <1>1, <1>3, <1>4 DEF HostPort

LEMMA ReadPort ==
  ASSUME toWorker \in Seq(Frames), toWorker # <<>>, WorkerPort, toWorker' = Tail(toWorker), UNCHANGED stopping
  PROVE  WorkerPort'
<1>1. \A i \in DOMAIN toWorker' : i + 1 \in DOMAIN toWorker /\ toWorker'[i] = toWorker[i + 1] /\ i \in Nat
  BY Shifted
<1>2. \A i, j \in DOMAIN toWorker' : i + 1 = j + 1 => i = j
  BY <1>1
<1>3. OnlyOnce'
  BY <1>1, <1>2 DEF WorkerPort, OnlyOnce
<1> QED
  BY <1>1, <1>3 DEF WorkerPort

LEMMA SentPort ==
  ASSUME toWorker \in Seq(Frames), WorkerPort, NEW f \in Frames, Send(<<f>>), UNCHANGED stopping,
         f.type # "cancel", f.type \in FromHost <=> f.agent # 0, f.agent # 0 => f.type \notin Sent(f.agent)
  PROVE  WorkerPort'
<1>1. CASE toWorker' = toWorker
  BY <1>1 DEF WorkerPort, OnlyOnce
<1>2. CASE toWorker' = toWorker \o <<f>>
  <2>1. \A i \in DOMAIN toWorker' : \/ i \in DOMAIN toWorker /\ toWorker'[i] = toWorker[i]
                                    \/ i = Len(toWorker) + 1 /\ toWorker'[i] = f
    BY <1>2
  <2>2. \A i \in DOMAIN toWorker : toWorker[i].agent = f.agent /\ f.agent # 0 => toWorker[i].type # f.type
    BY OnTheWayBack
  <2>3. OnlyOnce'
    BY <2>1, <2>2 DEF WorkerPort, OnlyOnce
  <2> QED
    BY <2>1, <2>3 DEF WorkerPort
<1> QED
  BY <1>1, <1>2 DEF Send

(* The commits posted take the next ordinal, and the host takes the first. *)
NoCommit(fs) == \A j \in DOMAIN fs : fs[j].type # "journal-commit"
NextCommit(fs) ==
  \E j \in DOMAIN fs : /\ fs[j].type = "journal-commit" /\ fs[j].n = ordinal + 1
                       /\ \A k \in DOMAIN fs \ {j} : fs[k].type # "journal-commit"

LEMMA CommitsPosted ==
  ASSUME toHost \in Seq(Frames), ordinal \in Nat, Len(journal) \in Nat, CommitOrder,
         NEW fs \in Seq(Frames), Post(fs), UNCHANGED journal,
         (NoCommit(fs) /\ ordinal' = ordinal) \/ (NextCommit(fs) /\ ordinal' = ordinal + 1)
  PROVE  CommitOrder'
<1>1. toHost' = toHost \o fs /\ Len(toHost) \in Nat
  BY DEF Post
<1>2. \A i \in CommitFrames : i \in CommitFrames' /\ toHost'[i] = toHost[i] /\ i \in 1 .. Len(toHost)
  BY <1>1, Appended DEF CommitFrames
<1>3. CASE NoCommit(fs) /\ ordinal' = ordinal
  <2>1. \A i \in CommitFrames' : i \in CommitFrames /\ toHost'[i] = toHost[i]
    <3> SUFFICES ASSUME NEW i \in CommitFrames' PROVE i \in CommitFrames /\ toHost'[i] = toHost[i]
      OBVIOUS
    <3>1. CASE i \in DOMAIN toHost
      BY <1>1, <3>1, Appended DEF CommitFrames
    <3>2. CASE i \notin DOMAIN toHost
      <4>1. i - Len(toHost) \in DOMAIN fs /\ i = Len(toHost) + (i - Len(toHost))
        BY <1>1, <3>2, Appended DEF CommitFrames
      <4>2. toHost'[i] = fs[i - Len(toHost)]
        BY <1>1, <4>1, Appended
      <4> QED
        BY <1>3, <4>1, <4>2 DEF CommitFrames, NoCommit
    <3> QED
      BY <3>1, <3>2
  <2>2. \A i \in CommitFrames' : toHost'[i].n \in Len(journal) + 1 .. ordinal
    BY <2>1 DEF CommitOrder
  <2>3. \A i, j \in CommitFrames' : i < j => toHost'[i].n < toHost'[j].n
    BY <2>1 DEF CommitOrder
  <2>4. \A k \in Len(journal) + 1 .. ordinal : \E i \in CommitFrames' : toHost'[i].n = k
    BY <1>2 DEF CommitOrder
  <2> QED
    BY <1>3, <2>2, <2>3, <2>4 DEF CommitOrder
<1>4. CASE NextCommit(fs) /\ ordinal' = ordinal + 1
  <2>1. PICK j \in DOMAIN fs : /\ fs[j].type = "journal-commit" /\ fs[j].n = ordinal + 1
                               /\ \A k \in DOMAIN fs \ {j} : fs[k].type # "journal-commit"
    BY <1>4 DEF NextCommit
  <2> DEFINE p == Len(toHost) + j
  <2>2. p \in CommitFrames' /\ toHost'[p] = fs[j] /\ p > Len(toHost) /\ p \in Nat
    BY <1>1, <2>1, Appended DEF CommitFrames
  <2>3. \A i \in CommitFrames' : (i \in CommitFrames /\ toHost'[i] = toHost[i]) \/ i = p
    <3> SUFFICES ASSUME NEW i \in CommitFrames', i # p PROVE i \in CommitFrames /\ toHost'[i] = toHost[i]
      OBVIOUS
    <3>1. CASE i \in DOMAIN toHost
      BY <1>1, <3>1, Appended DEF CommitFrames
    <3>2. CASE i \notin DOMAIN toHost
      <4>1. i - Len(toHost) \in DOMAIN fs /\ i = Len(toHost) + (i - Len(toHost))
        BY <1>1, <3>2, Appended DEF CommitFrames
      <4>2. toHost'[i] = fs[i - Len(toHost)]
        BY <1>1, <4>1, Appended
      <4>3. i - Len(toHost) # j
        BY <4>1
      <4> QED
        BY <2>1, <4>1, <4>2, <4>3 DEF CommitFrames
    <3> QED
      BY <3>1, <3>2
  <2> HIDE DEF p
  <2>4. \A i \in CommitFrames : toHost[i].n \in Len(journal) + 1 .. ordinal /\ i < p
    BY <1>1, <1>2, <2>2 DEF CommitOrder
  <2>5. toHost'[p].n = ordinal + 1 /\ Len(journal) <= ordinal
    BY <2>1, <2>2 DEF CommitOrder
  <2>6. \A i \in CommitFrames' : toHost'[i].n \in Len(journal) + 1 .. ordinal + 1
    BY <2>3, <2>4, <2>5
  <2>7. \A i, k \in CommitFrames' : i < k => toHost'[i].n < toHost'[k].n
    <3> SUFFICES ASSUME NEW i \in CommitFrames', NEW k \in CommitFrames', i < k
                 PROVE  toHost'[i].n < toHost'[k].n
      OBVIOUS
    <3>1. i # p
      <4>1. k = p \/ k < p
        BY <2>3, <2>4
      <4>2. i \in Nat /\ k \in Nat
        BY <1>2, <2>2, <2>3
      <4> QED
        BY <2>2, <4>1, <4>2
    <3>2. i \in CommitFrames /\ toHost'[i] = toHost[i]
      BY <2>3, <3>1
    <3>3. CASE k = p
      BY <2>4, <2>5, <3>2, <3>3
    <3>4. CASE k # p
      BY <2>3, <3>2, <3>4 DEF CommitOrder
    <3> QED
      BY <3>3, <3>4
  <2>8. ASSUME NEW k \in Len(journal) + 1 .. ordinal + 1
        PROVE  \E i \in CommitFrames' : toHost'[i].n = k
    <3>1. CASE k = ordinal + 1
      BY <2>2, <2>5, <3>1
    <3>2. CASE k # ordinal + 1
      <4>1. k \in Len(journal) + 1 .. ordinal
        BY <3>2
      <4> QED
        BY <1>2, <4>1 DEF CommitOrder
    <3> QED
      BY <3>1, <3>2
  <2> QED
    BY <1>4, <2>5, <2>6, <2>7, <2>8 DEF CommitOrder
<1> QED
  BY <1>3, <1>4

LEMMA CommitsTaken ==
  ASSUME toHost \in Seq(Frames), toHost # <<>>, toHost' = Tail(toHost), UNCHANGED ordinal,
         ordinal \in Nat, journal \in Seq(0 .. MaxAgents), CommitOrder,
         IF Head(toHost).type = "journal-commit"
         THEN Head(toHost).n = Len(journal) + 1 /\ journal' = Append(journal, Head(toHost).agent)
         ELSE UNCHANGED journal
  PROVE  CommitOrder'
<1> DEFINE n == Len(journal)
<1>1. n \in Nat
  OBVIOUS
<1>2. \A i \in CommitFrames' : i + 1 \in CommitFrames /\ toHost'[i] = toHost[i + 1] /\ i \in Nat /\ i + 1 > 1
  BY Shifted DEF CommitFrames
<1>3. \A i \in CommitFrames : i # 1 => i - 1 \in CommitFrames' /\ toHost'[i - 1] = toHost[i]
  BY Shifted DEF CommitFrames
<1>4. 1 \in DOMAIN toHost /\ Head(toHost) = toHost[1]
  BY Shifted
<1>5. ASSUME NEW i \in CommitFrames', NEW j \in CommitFrames', i < j
      PROVE  toHost'[i].n < toHost'[j].n
  <2>1. i + 1 < j + 1 /\ i + 1 \in CommitFrames /\ j + 1 \in CommitFrames
    BY <1>2, <1>5
  <2>2. toHost[i + 1].n < toHost[j + 1].n
    BY <2>1 DEF CommitOrder
  <2> QED
    BY <1>2, <2>2
<1>6. CASE Head(toHost).type # "journal-commit"
  <2>1. 1 \notin CommitFrames /\ journal' = journal
    BY <1>4, <1>6 DEF CommitFrames
  <2>2. \A i \in CommitFrames' : toHost'[i].n \in n + 1 .. ordinal
    BY <1>2 DEF CommitOrder
  <2>3. ASSUME NEW k \in n + 1 .. ordinal PROVE \E i \in CommitFrames' : toHost'[i].n = k
    <3>1. PICK i \in CommitFrames : toHost[i].n = k
      BY DEF CommitOrder
    <3>2. i - 1 \in CommitFrames' /\ toHost'[i - 1] = toHost[i]
      BY <1>3, <2>1
    <3> QED
      BY <3>1, <3>2
  <2> QED
    BY <1>5, <2>1, <2>2, <2>3 DEF CommitOrder
<1>7. CASE Head(toHost).type = "journal-commit"
  <2>1. 1 \in CommitFrames /\ toHost[1].n = n + 1 /\ Len(journal') = n + 1
    <3>1. Head(toHost) \in Frames /\ MaxAgents \in Nat
      BY Taking, Limits
    <3> QED
      BY <1>4, <1>7, <3>1, Reading DEF CommitFrames
  <2> HIDE DEF n
  <2>2. n + 1 \in n + 1 .. ordinal /\ \A i \in CommitFrames : toHost[i].n \in n + 1 .. ordinal
    BY <2>1 DEF CommitOrder, n
  <2>3. \A i \in CommitFrames' : toHost'[i].n \in n + 2 .. ordinal
    <3> SUFFICES ASSUME NEW i \in CommitFrames' PROVE toHost'[i].n \in n + 2 .. ordinal
      OBVIOUS
    <3>1. toHost[1].n < toHost[i + 1].n /\ toHost[i + 1].n \in n + 1 .. ordinal
      BY <1>2, <2>1, <2>2 DEF CommitOrder
    <3>2. toHost'[i].n = toHost[i + 1].n /\ toHost[1].n = n + 1
      BY <1>2, <2>1
    <3> DEFINE x == toHost[i + 1].n
    <3>3. n + 1 < x /\ x \in n + 1 .. ordinal
      BY <3>1, <3>2
    <3> HIDE DEF x
    <3>4. x \in n + 2 .. ordinal
      BY <1>1, <3>3
    <3> QED
      BY <3>2, <3>4 DEF x
  <2>4. ASSUME NEW k \in n + 2 .. ordinal PROVE \E i \in CommitFrames' : toHost'[i].n = k
    <3>1. k \in n + 1 .. ordinal /\ k # n + 1
      BY <1>1
    <3>2. PICK i \in CommitFrames : toHost[i].n = k
      BY <3>1 DEF CommitOrder, n
    <3> QED
      BY <1>3, <2>1, <3>1, <3>2
  <2>5. n + 1 <= ordinal /\ (n + 1) + 1 = n + 2
    BY <1>1, <2>2
  <2> QED
    BY <1>5, <2>1, <2>3, <2>4, <2>5 DEF CommitOrder
<1> QED
  BY <1>6, <1>7

-----------------------------------------------------------------------------
(* What the worker does.  An agent that neither side's step is about stays
   where it is. *)
HostSame == UNCHANGED <<ready, kids, ledger>>

LEMMA Relinked ==
  ASSUME NEW a, Linked(a), call'[a] = call[a], child'[a] = child[a], result'[a] = result[a],
         a \in asked' <=> a \in asked, a \in announced' <=> a \in announced, a \in live' <=> a \in live,
         a \in Committed' <=> a \in Committed, Posted(a)' = Posted(a), Sent(a)' \subseteq Sent(a)
  PROVE  Linked(a)'
<1>1. Unheard(a)' <=> Unheard(a)
  BY DEF Unheard
<1> HIDE DEF Unheard
<1>2. \A t : t \in Sent(a)' => t \in Sent(a)
  OBVIOUS
<1> DEFINE P == Posted(a)
           Q == Posted(a)'
           T == Sent(a)'
<1>3. P = Q
  OBVIOUS
<1> HIDE DEF P, Q, T
<1> QED
  BY <1>1, <1>2, <1>3 DEF Linked, P, Q, T

LEMMA SameHost ==
  ASSUME HostSame
  PROVE  /\ UNCHANGED <<ready, child, result, asked, announced, live, journal>>
         /\ Committed' = Committed /\ HostStarted' = HostStarted
         /\ \A a : (Posted(a)' = Posted(a)) => (HasCommit(a)' <=> HasCommit(a))
<1>1. UNCHANGED <<ready, child, result, asked, announced, live, journal>>
  BY DEF HostSame, kids, ledger
<1>2. Committed' = Committed /\ HostStarted' = HostStarted
  BY <1>1 DEF Committed, HostStarted
<1> QED
  BY <1>1, <1>2 DEF HasCommit

LEMMA PortGrows ==
  ASSUME toHost \in Seq(Frames), NEW fs \in Seq(Frames), Post(fs), NEW m \in OnPort'
  PROVE  m \in OnPort \/ \E j \in DOMAIN fs : m = fs[j]
<1>1. PICK i \in DOMAIN toHost' : m = toHost'[i]
  BY DEF OnPort
<1>2. CASE i \in DOMAIN toHost
  BY <1>1, <1>2, Appended DEF Post, OnPort
<1>3. CASE i \notin DOMAIN toHost
  <2>1. i - Len(toHost) \in DOMAIN fs /\ i = Len(toHost) + (i - Len(toHost))
    BY <1>1, <1>3, Appended DEF Post
  <2>2. toHost'[i] = fs[i - Len(toHost)]
    BY <2>1, Appended DEF Post
  <2> QED
    BY <1>1, <2>1, <2>2
<1> QED
  BY <1>2, <1>3

LEMMA PortShrinks ==
  ASSUME toHost \in Seq(Frames), toHost # <<>>, toHost' = Tail(toHost), NEW m \in OnPort'
  PROVE  m \in OnPort
BY Shifted DEF OnPort

LEMMA EndsPosted ==
  ASSUME toHost \in Seq(Frames), NEW fs \in Seq(Frames), Post(fs), EndsTell, UNCHANGED result,
         \A a : "agent-end" \in Posted(a) => (HasCommit(a)' <=> HasCommit(a)),
         \A j \in DOMAIN fs : fs[j].type = "agent-end" => EndTold(fs[j].agent, fs[j].tell)'
  PROVE  EndsTell'
<1> SUFFICES ASSUME NEW m \in OnPort', m.type = "agent-end" PROVE EndTold(m.agent, m.tell)'
  BY DEF EndsTell
<1>1. CASE m \in OnPort
  <2>1. "agent-end" \in Posted(m.agent)
    BY <1>1 DEF Posted, OnPort
  <2>2. HasCommit(m.agent)' <=> HasCommit(m.agent)
    BY <2>1
  <2>3. EndTold(m.agent, m.tell)
    BY <1>1 DEF EndsTell
  <2> QED
    BY <2>2, <2>3 DEF EndTold
<1> QED
  BY <1>1, PortGrows

LEMMA ResultsPosted ==
  ASSUME toHost \in Seq(Frames), NEW fs \in Seq(Frames), Post(fs), ResultCounts, script # "ended",
         \A j \in DOMAIN fs : fs[j].type = "result" => script' = "ended" /\ fs[j].n = Started'
  PROVE  ResultCounts'
<1> SUFFICES ASSUME NEW m \in OnPort', m.type = "result" PROVE script' = "ended" /\ m.n = Started'
  BY DEF ResultCounts
<1>1. m \notin OnPort
  BY DEF ResultCounts
<1> QED
  BY <1>1, PortGrows

LEMMA CountsKept == ASSUME Counts, UNCHANGED <<call, child>> PROVE Counts'
BY DEF Counts, Started, HostStarted, Slots, Queued

(* Frames about no agent change nothing between the two sides but the commits. *)
LEMMA PlainPost ==
  ASSUME Base, NEW fs \in Seq(Frames), Post(fs), HostSame, UNCHANGED call, script # "ended",
         \A j \in DOMAIN fs : fs[j].agent = 0 /\ fs[j].type \notin FromWorker \cup {"ready"},
         (NoCommit(fs) /\ ordinal' = ordinal) \/ (NextCommit(fs) /\ ordinal' = ordinal + 1),
         \A j \in DOMAIN fs : fs[j].type = "result" => script' = "ended" /\ fs[j].n = Started,
         WorkerPort', \A a \in Agents : Sent(a)' \subseteq Sent(a)
  PROVE  Accord'
<1>1. toHost \in Seq(Frames) /\ ordinal \in Nat /\ Len(journal) \in Nat /\ Accord
  BY DEF Base, TypeOK, TypePorts, TypeWorker, TypeLedger
<1>2. HostPort'
  BY <1>1, PostedPort, SameHost DEF Accord, FromWorker
<1>3. CommitOrder'
  BY <1>1, CommitsPosted, SameHost DEF Accord
<1>4. Counts' /\ Started' = Started
  BY <1>1, CountsKept, SameHost DEF Accord, Started
<1>5. ResultCounts'
  BY <1>1, <1>4, ResultsPosted DEF Accord
<1>6. ASSUME NEW a, a # 0 PROVE Posted(a)' = Posted(a)
  <2>1. Posted(a)' = Posted(a) \cup {fs[j].type : j \in {k \in DOMAIN fs : fs[k].agent = a}}
    BY <1>1, PostedAdds
  <2>2. {k \in DOMAIN fs : fs[k].agent = a} = {}
    BY <1>6
  <2> QED
    BY <2>1, <2>2
<1>7. EndsTell'
  <2>1. \A a : "agent-end" \in Posted(a) => a # 0
    BY <1>1 DEF Posted, Accord, HostPort, FromWorker
  <2>2. \A a : "agent-end" \in Posted(a) => (HasCommit(a)' <=> HasCommit(a))
    BY <1>6, <2>1, SameHost
  <2> QED
    BY <1>1, <2>2, EndsPosted, SameHost DEF Accord, FromWorker
<1>8. \A a \in Agents : Linked(a)'
  <2> SUFFICES ASSUME NEW a \in Agents PROVE Linked(a)'
    OBVIOUS
  <2>1. Posted(a)' = Posted(a) /\ Linked(a)
    BY <1>1, <1>6, Limits DEF Agents, Accord
  <2> QED
    BY <2>1, Relinked, SameHost
<1> QED
  BY <1>2, <1>3, <1>4, <1>5, <1>7, <1>8 DEF Accord

LEMMA Fields ==
  /\ \A t : Frame(t).type = t /\ Frame(t).agent = 0
  /\ \A t, a : Child(t, a).type = t /\ Child(t, a).agent = a
  /\ \A a, how : AgentEnd(a, how).type = "agent-end" /\ AgentEnd(a, how).agent = a /\ AgentEnd(a, how).tell = how
  /\ \A a, n : Commit(a, n).type = "journal-commit" /\ Commit(a, n).agent = a /\ Commit(a, n).n = n
  /\ \A how, n : Result(how, n).type = "result" /\ Result(how, n).agent = 0 /\ Result(how, n).n = n
BY DEF Frame, Child, AgentEnd, Commit, Result, Message

(* Frames about one agent, none of whose ends is on its way. *)
LEMMA AgentPost ==
  ASSUME Base, NEW a \in Agents, NEW fs \in Seq(Frames), Post(fs), HostSame, script # "ended",
         \A j \in DOMAIN fs : fs[j].agent = a /\ fs[j].type \in FromWorker \cup {"journal-commit"},
         \A j, k \in DOMAIN fs : j < k => Rank(fs[j].type) < Rank(fs[k].type),
         \A j \in DOMAIN fs : \A t \in Posted(a) : Rank(t) < Rank(fs[j].type),
         \A j \in DOMAIN fs : fs[j].type = "child-start" =>
           /\ \A k \in DOMAIN fs : fs[k].type = "child-start" => k = j
           /\ \A c \in Agents : "child-start" \in Posted(c) => c < a,
         (NoCommit(fs) /\ ordinal' = ordinal) \/ (NextCommit(fs) /\ ordinal' = ordinal + 1),
         "agent-end" \notin Posted(a),
         \A j \in DOMAIN fs : fs[j].type = "agent-end" => EndTold(a, fs[j].tell)'
  PROVE  /\ HostPort' /\ CommitOrder' /\ ResultCounts' /\ EndsTell'
         /\ Posted(a)' = Posted(a) \cup {fs[j].type : j \in DOMAIN fs}
         /\ \A b \in Agents \ {a} : Posted(b)' = Posted(b)
<1>1. toHost \in Seq(Frames) /\ ordinal \in Nat /\ Len(journal) \in Nat /\ Accord /\ a # 0
  BY Limits DEF Base, TypeOK, TypePorts, TypeWorker, TypeLedger, Agents
<1>2. \A i \in DOMAIN toHost : toHost[i].type = "child-start" =>
        toHost[i].agent \in Agents /\ "child-start" \in Posted(toHost[i].agent)
  <2> SUFFICES ASSUME NEW i \in DOMAIN toHost, toHost[i].type = "child-start"
               PROVE  toHost[i].agent \in Agents /\ "child-start" \in Posted(toHost[i].agent)
    OBVIOUS
  <2>1. toHost[i] \in Frames /\ toHost[i].agent # 0
    BY <1>1 DEF Accord, HostPort, FromWorker
  <2>2. toHost[i].agent \in 0 .. MaxAgents
    BY <2>1, Reading
  <2> QED
    BY <2>1, <2>2, Limits, OnTheWay DEF Agents
<1>3. HostPort'
  <2>1. \A j \in DOMAIN fs : fs[j].type # "ready" /\ (fs[j].type \in FromWorker => fs[j].agent # 0)
    BY <1>1 DEF FromWorker
  <2>2. \A j \in DOMAIN fs : fs[j].type = "child-start" =>
          /\ \A k \in DOMAIN fs : fs[k].type = "child-start" => k = j
          /\ \A i \in DOMAIN toHost : toHost[i].type = "child-start" => toHost[i].agent < fs[j].agent
    BY <1>2
  <2> QED
    BY <1>1, <2>1, <2>2, PostedPort, SameHost DEF Accord
<1>4. CommitOrder'
  BY <1>1, CommitsPosted, SameHost DEF Accord
<1>5. ResultCounts'
  BY <1>1, ResultsPosted DEF Accord, FromWorker
<1>6. ASSUME NEW b, b # a PROVE Posted(b)' = Posted(b)
  <2>1. Posted(b)' = Posted(b) \cup {fs[j].type : j \in {k \in DOMAIN fs : fs[k].agent = b}}
    BY <1>1, PostedAdds
  <2>2. {k \in DOMAIN fs : fs[k].agent = b} = {}
    BY <1>6
  <2> QED
    BY <2>1, <2>2
<1>7. Posted(a)' = Posted(a) \cup {fs[j].type : j \in DOMAIN fs}
  <2>1. Posted(a)' = Posted(a) \cup {fs[j].type : j \in {k \in DOMAIN fs : fs[k].agent = a}}
    BY <1>1, PostedAdds
  <2>2. {k \in DOMAIN fs : fs[k].agent = a} = DOMAIN fs
    OBVIOUS
  <2> QED
    BY <2>1, <2>2
<1>8. EndsTell'
  <2>1. \A c : "agent-end" \in Posted(c) => (HasCommit(c)' <=> HasCommit(c))
    BY <1>6, SameHost
  <2> QED
    BY <1>1, <2>1, EndsPosted, SameHost DEF Accord
<1> QED
  BY <1>3, <1>4, <1>5, <1>6, <1>7, <1>8

(* An agent takes a slot after all that took one before. *)
LEMMA StartPost ==
  ASSUME Base, NEW a \in Agents, call[a] \in {"idle", "queued"},
         \A c \in Agents : call[c] = "starting" => c < a,
         Post(<<Child("child-start", a)>>), HostSame, UNCHANGED <<ordinal, script>>, script # "ended"
  PROVE  /\ HostPort' /\ CommitOrder' /\ ResultCounts' /\ EndsTell'
         /\ Posted(a)' = {"child-start"}
         /\ \A b \in Agents \ {a} : Posted(b)' = Posted(b)
<1>1. /\ Child("child-start", a) \in Frames
      /\ Child("child-start", a).type = "child-start" /\ Child("child-start", a).agent = a
  BY Limits, FrameType, Fields DEF Types
<1>2. PICK fs \in Seq(Frames) : fs = <<Child("child-start", a)>>
  <2>1. <<Child("child-start", a)>> \in Seq(Frames)
    BY <1>1
  <2> QED
    BY <2>1
<1>3. \A c \in Agents : Linked(c)
  BY DEF Base, Accord
<1>4. Posted(a) = {}
  BY <1>3 DEF Linked
<1>5. \A c \in Agents : "child-start" \in Posted(c) => call[c] = "starting"
  BY <1>3 DEF Linked, Base, TypeOK, TypeWorker
<1>6. Post(fs)
  BY <1>2
<1>7. \A j \in DOMAIN fs : j = 1 /\ fs[j].type = "child-start" /\ fs[j].agent = a
  <2>1. DOMAIN fs = {1} /\ fs[1] = Child("child-start", a)
    BY <1>2
  <2> QED
    BY <1>1, <2>1
<1>8. NoCommit(fs) /\ {fs[j].type : j \in DOMAIN fs} = {"child-start"}
  <2>1. 1 \in DOMAIN fs
    BY <1>2
  <2> QED
    BY <1>7, <2>1 DEF NoCommit
<1>9. \A j, k \in DOMAIN fs : j < k => Rank(fs[j].type) < Rank(fs[k].type)
  BY <1>7
<1>10. /\ \A j \in DOMAIN fs : fs[j].agent = a /\ fs[j].type \in FromWorker \cup {"journal-commit"}
       /\ \A j \in DOMAIN fs : fs[j].type # "agent-end"
       /\ \A j \in DOMAIN fs : \A t \in Posted(a) : Rank(t) < Rank(fs[j].type)
       /\ \A j \in DOMAIN fs : fs[j].type = "child-start" =>
            /\ \A k \in DOMAIN fs : fs[k].type = "child-start" => k = j
            /\ \A c \in Agents : "child-start" \in Posted(c) => c < a
  BY <1>4, <1>5, <1>7 DEF FromWorker
<1> QED
  BY <1>4, <1>6, <1>8, <1>9, <1>10, AgentPost

(* agent(): the next call, in a slot or in the queue. *)
LEMMA CallAgentCounts ==
  ASSUME Base, NEW a \in Agents, a = Started + 1, UNCHANGED child,
         NEW s, call' = [call EXCEPT ![a] = s],
         (s = "starting" /\ SlotFree) \/ (s = "queued" /\ ~SlotFree)
  PROVE  /\ Counts' /\ call[a] = "idle" /\ Started' = Started + 1
         /\ s = "starting" => \A c \in Agents : call[c] = "starting" => c < a
<1>1. Counts /\ Started \in Nat /\ Agents \subseteq Nat /\ HostStarted' = HostStarted
  BY CountTypes DEF Base, Accord, Agents, HostStarted
<1>2. call[a] = "idle"
  BY <1>1 DEF Counts
<1>3. \A b \in Agents : call'[b] = IF b = a THEN s ELSE call[b]
  BY DEF Base, TypeOK, TypeWorker
<1>4. Started' = Started + 1
  <2>1. {b \in Agents : call'[b] # "idle"} = {b \in Agents : call[b] # "idle"} \cup {a}
    BY <1>3
  <2> QED
    BY <1>2, <2>1, OneMore DEF Started
<1>5. \A b \in Agents : call'[b] # "idle" <=> b <= Started'
  BY <1>1, <1>3, <1>4 DEF Counts
<1>6. ASSUME NEW b \in Agents, NEW c \in Agents, b < c, call'[b] = "queued"
      PROVE  call'[c] \in {"idle", "queued"}
  <2>1. CASE b = a
    BY <1>1, <1>3, <1>6, <2>1 DEF Counts
  <2>2. CASE b # a
    <3>1. call[b] = "queued"
      BY <1>3, <1>6, <2>2
    <3>2. Cardinality(Slots) = MaxConcurrent
      BY <1>1, <3>1 DEF Counts, Queued
    <3>3. ~SlotFree
      BY <3>2, EngineAssumption DEF SlotFree
    <3>4. s = "queued"
      BY <3>3
    <3>5. call[c] \in {"idle", "queued"}
      BY <1>1, <1>6, <3>1 DEF Counts
    <3> QED
      BY <1>3, <3>4, <3>5
  <2> QED
    BY <2>1, <2>2
<1>7. Slots \subseteq Agents /\ a \notin Slots /\ Cardinality(Slots) \in Nat /\ MaxConcurrent \in Nat
  BY <1>2, AgentSets, EngineAssumption DEF Slots
<1>8. CASE s = "starting"
  <2>1. Slots' = Slots \cup {a} /\ Queued' = Queued
    BY <1>2, <1>3, <1>8 DEF Slots, Queued
  <2>2. Cardinality(Slots') = Cardinality(Slots) + 1
    BY <1>7, <2>1, OneMore
  <2>3. Cardinality(Slots) < MaxConcurrent /\ Queued = {}
    BY <1>1, <1>7, <1>8 DEF SlotFree, Counts
  <2>4. Cardinality(Slots') <= MaxConcurrent
    BY <1>7, <2>2, <2>3
  <2>5. Counts'
    BY <1>1, <1>5, <1>6, <2>1, <2>3, <2>4 DEF Counts
  <2>6. \A c \in Agents : call[c] = "starting" => c < a
    BY <1>1 DEF Counts
  <2> QED
    BY <1>2, <1>4, <2>5, <2>6
<1>9. CASE s = "queued"
  <2>1. Slots' = Slots
    BY <1>2, <1>3, <1>9 DEF Slots
  <2>2. Cardinality(Slots) = MaxConcurrent
    BY <1>1, <1>7, <1>9 DEF SlotFree, Counts
  <2>3. Counts'
    BY <1>1, <1>5, <1>6, <1>7, <2>1, <2>2 DEF Counts
  <2> QED
    BY <1>2, <1>4, <1>9, <2>3
<1> QED
  BY <1>8, <1>9

LEMMA CallAgentAccord ==
  ASSUME Base, NEW a \in Agents, CallAgent(a)
  PROVE  Accord'
<1>1. /\ HostSame /\ UNCHANGED <<toWorker, stopping, ordinal, script, child>> /\ script # "ended"
      /\ a = Started + 1
  BY DEF CallAgent, HostSame, Running, kids, status
<1>2. WorkerPort' /\ \A b \in Agents : Sent(b)' = Sent(b)
  BY <1>1 DEF Base, Accord, WorkerPort, OnlyOnce, Sent
<1>3. Accord /\ \A b \in Agents : Linked(b)
  BY DEF Base, Accord
<1>4. CASE SlotFree /\ Tell(a, "starting") /\ Post(<<Child("child-start", a)>>)
  <2>1. call' = [call EXCEPT ![a] = "starting"]
    BY <1>4 DEF Tell
  <2>2. Counts' /\ call[a] = "idle" /\ \A c \in Agents : call[c] = "starting" => c < a
    <3>1. PICK s : s = "starting"
      OBVIOUS
    <3>2. call' = [call EXCEPT ![a] = s]
      BY <2>1, <3>1
    <3>3. (s = "starting" /\ SlotFree) \/ (s = "queued" /\ ~SlotFree)
      BY <1>4, <3>1
    <3> QED
      BY <1>1, <3>1, <3>2, <3>3, CallAgentCounts
  <2>3. /\ HostPort' /\ CommitOrder' /\ ResultCounts' /\ EndsTell'
        /\ Posted(a)' = {"child-start"}
        /\ \A b \in Agents \ {a} : Posted(b)' = Posted(b)
    BY <1>1, <1>4, <2>2, StartPost
  <2>4. call'[a] = "starting" /\ \A b \in Agents \ {a} : call'[b] = call[b]
    BY <2>1 DEF Base, TypeOK, TypeWorker
  <2>5. Linked(a)'
    BY <1>1, <1>2, <1>3, <2>2, <2>3, <2>4, SameHost DEF Linked, Unheard
  <2>6. \A b \in Agents \ {a} : Linked(b)'
    BY <1>2, <1>3, <2>3, <2>4, Relinked, SameHost, <1>1
  <2> QED
    BY <1>2, <2>2, <2>3, <2>5, <2>6 DEF Accord
<1>5. CASE ~SlotFree /\ Tell(a, "queued") /\ UNCHANGED toHost
  <2>1. call' = [call EXCEPT ![a] = "queued"]
    BY <1>5 DEF Tell
  <2>2. Counts' /\ call[a] = "idle"
    BY <1>1, <1>5, <2>1, CallAgentCounts
  <2>3. \A b \in Agents : Posted(b)' = Posted(b)
    BY <1>5 DEF Posted
  <2>4. call'[a] = "queued" /\ \A b \in Agents \ {a} : call'[b] = call[b]
    BY <2>1 DEF Base, TypeOK, TypeWorker
  <2>5. Linked(a)'
    BY <1>1, <1>2, <1>3, <2>2, <2>3, <2>4, SameHost DEF Linked, Unheard
  <2>6. \A b \in Agents \ {a} : Linked(b)'
    BY <1>2, <1>3, <2>3, <2>4, Relinked, SameHost, <1>1
  <2>7. HostPort' /\ CommitOrder'
    BY <1>1, <1>3, <1>5, SameHost
    DEF Accord, HostPort, ReadyFirst, InOrder, StartsInOrder, CommitOrder, CommitFrames
  <2>8. ResultCounts'
    BY <1>1, <1>3, <1>5 DEF Accord, ResultCounts, OnPort
  <2>9. EndsTell'
    <3>1. \A b, how : EndTold(b, how)' <=> EndTold(b, how)
      BY <1>1, <1>5, SameHost DEF EndTold, HasCommit, Posted
    <3> QED
      BY <1>3, <1>5, <3>1 DEF Accord, EndsTell, OnPort
  <2> QED
    BY <1>2, <2>2, <2>5, <2>6, <2>7, <2>8, <2>9 DEF Accord
<1> QED
  BY <1>4, <1>5 DEF CallAgent

(* The worker takes a frame of the host. *)
LEMMA ReadFrame ==
  ASSUME Base, WorkerReceives
  PROVE  LET m == Head(toWorker) IN
         /\ HostSame /\ script # "ended" /\ ~stopping /\ m.type # "cancel"
         /\ m.type \in FromHost => m.agent \in Agents
         /\ \A b \in Agents : Sent(b)' \subseteq Sent(b) /\ (b = m.agent => m.type \in Sent(b) \ Sent(b)')
         /\ UNCHANGED stopping => WorkerPort'
<1>1. /\ toWorker \in Seq(Frames) /\ toWorker # <<>> /\ toWorker' = Tail(toWorker) /\ HostSame
      /\ script # "ended" /\ WorkerPort
  BY DEF WorkerReceives, Base, TypeOK, TypePorts, HostSame, Accord, status
<1>2. Head(toWorker) \in Frames /\ 1 \in DOMAIN toWorker /\ Head(toWorker) = toWorker[1]
  BY <1>1, Taking, Shifted
<1>3. Head(toWorker).agent \in 0 .. MaxAgents
  BY <1>2, Reading
<1>4. ~stopping /\ Head(toWorker).type # "cancel" /\ (Head(toWorker).type \in FromHost => Head(toWorker).agent # 0)
  BY <1>1, <1>2 DEF WorkerPort
<1>5. Head(toWorker).agent # 0 => Head(toWorker).agent \in Agents
  BY <1>3, Limits DEF Agents
<1>6. \A b \in Agents : b # 0
  BY Limits DEF Agents
<1>7. \A b \in Agents : /\ Sent(b)' \subseteq Sent(b)
                        /\ b = Head(toWorker).agent => Head(toWorker).type \in Sent(b) \ Sent(b)'
  BY <1>1, <1>6, SentLoses DEF WorkerPort
<1>8. UNCHANGED stopping => WorkerPort'
  BY <1>1, ReadPort
<1> QED
  BY <1>1, <1>4, <1>5, <1>7, <1>8

(* Nothing is posted: what the host sends alone, and answers that come too late. *)
LEMMA QuietAccord ==
  ASSUME Base, HostSame, UNCHANGED <<call, toHost, ordinal>>, script = "ended" => script' = "ended",
         WorkerPort', \A a \in Agents : Sent(a)' \subseteq Sent(a)
  PROVE  Accord'
<1>1. Started' = Started /\ (\A b : Posted(b)' = Posted(b)) /\ UNCHANGED <<ready, child, result, journal>>
  BY SameHost DEF Started, Posted
<1>2. Counts'
  BY <1>1, CountsKept DEF Base, Accord
<1>3. HostPort' /\ CommitOrder'
  BY <1>1 DEF Base, Accord, HostPort, ReadyFirst, InOrder, StartsInOrder, CommitOrder, CommitFrames
<1>4. ResultCounts'
  BY <1>1 DEF Base, Accord, ResultCounts, OnPort
<1>5. EndsTell'
  <2>1. \A b, how : EndTold(b, how)' <=> EndTold(b, how)
    BY <1>1, SameHost DEF EndTold
  <2> QED
    BY <2>1 DEF Base, Accord, EndsTell, OnPort
<1>6. \A a \in Agents : Linked(a)'
  BY <1>1, Relinked, SameHost DEF Base, Accord
<1> QED
  BY <1>2, <1>3, <1>4, <1>5, <1>6 DEF Accord

LEMMA OnePlain ==
  ASSUME Base, HostSame, UNCHANGED call, script # "ended", WorkerPort',
         \A a \in Agents : Sent(a)' \subseteq Sent(a), NEW f \in Frames, Post(<<f>>), f.agent = 0,
         f.type \notin FromWorker \cup {"ready"},
         IF f.type = "journal-commit" THEN f.n = ordinal + 1 /\ ordinal' = ordinal + 1 ELSE UNCHANGED ordinal,
         f.type = "result" => script' = "ended" /\ f.n = Started
  PROVE  Accord'
<1>1. PICK fs \in Seq(Frames) : fs = <<f>>
  <2>1. <<f>> \in Seq(Frames)
    OBVIOUS
  <2> QED
    BY <2>1
<1>2. DOMAIN fs = {1} /\ fs[1] = f /\ Post(fs)
  BY <1>1
<1>3. (NoCommit(fs) /\ ordinal' = ordinal) \/ (NextCommit(fs) /\ ordinal' = ordinal + 1)
  BY <1>2 DEF NoCommit, NextCommit
<1> QED
  BY <1>2, <1>3, PlainPost

LEMMA HookAccord ==
  ASSUME Base, HostSame, script # "ended", WorkerPort', \A a \in Agents : Sent(a)' \subseteq Sent(a),
         Go \/ ResumeArrives \/ ScratchWritten
  PROVE  Accord'
<1>1. UNCHANGED call
  BY DEF Go, ResumeArrives, ScratchWritten
<1>2. CASE UNCHANGED <<toHost, ordinal>>
  BY <1>1, <1>2, QuietAccord
<1>3. CASE ordinal' = ordinal + 1 /\ Post(<<Commit(0, ordinal + 1)>>)
  <2>1. ordinal + 1 \in Nat
    BY DEF Base, TypeOK, TypeWorker
  <2>2. PICK f \in Frames : f = Commit(0, ordinal + 1)
    BY <2>1, CommitType, Limits
  <2>3. f.type = "journal-commit" /\ f.agent = 0 /\ f.n = ordinal + 1
    BY <2>2, Fields
  <2> QED
    BY <1>1, <1>3, <2>2, <2>3, OnePlain DEF FromWorker
<1>4. CASE UNCHANGED ordinal /\ Post(<<Frame("gate")>>)
  <2>1. PICK f \in Frames : f = Frame("gate")
    BY FrameType, Limits DEF Types
  <2>2. f.type = "gate" /\ f.agent = 0
    BY <2>1, Fields
  <2> QED
    BY <1>1, <1>4, <2>1, <2>2, OnePlain DEF FromWorker
<1> QED
  BY <1>2, <1>3, <1>4 DEF Go, ResumeArrives, ScratchWritten

(* An agent that keeps its slot. *)
Slotted == {"starting", "running", "disposing"}
LEMMA CountsMoved ==
  ASSUME Base, NEW a \in Agents, call[a] \in Slotted, UNCHANGED child,
         NEW s \in Slotted, call' = [call EXCEPT ![a] = s]
  PROVE  Counts' /\ Started' = Started
<1>1. \A b \in Agents : call'[b] = IF b = a THEN s ELSE call[b]
  BY DEF Base, TypeOK, TypeWorker
<1>2. Slots' = Slots /\ Queued' = Queued /\ Started' = Started
  BY <1>1 DEF Slots, Queued, Started, Slotted
<1>3. HostStarted' = HostStarted /\ Counts
  BY DEF HostStarted, Base, Accord
<1>4. \A b \in Agents : call[b] = "queued" <=> call'[b] = "queued"
  BY <1>1 DEF Slotted
<1>5. \A b \in Agents : call[b] = "idle" <=> call'[b] = "idle"
  BY <1>1 DEF Slotted
<1> HIDE DEF Slotted
<1>6. \A b, c \in Agents : b < c /\ call'[b] = "queued" => call'[c] \in {"idle", "queued"}
  BY <1>3, <1>4, <1>5 DEF Counts
<1> QED
  BY <1>2, <1>3, <1>5, <1>6 DEF Counts

(* releaseSlot: the agent that gives up its slot, and the one that gets it. *)
LEMMA ReleaseCounts ==
  ASSUME Base, NEW a \in Agents, call[a] \in Slotted, UNCHANGED child,
         Queued = {}, call' = [call EXCEPT ![a] = "done"]
  PROVE  Counts' /\ Started' = Started
<1>1. \A b \in Agents : call'[b] = IF b = a THEN "done" ELSE call[b]
  BY DEF Base, TypeOK, TypeWorker
<1>2. Slots' = Slots \ {a} /\ Queued' = {} /\ Started' = Started
  BY <1>1 DEF Slots, Queued, Started, Slotted
<1>3. HostStarted' = HostStarted /\ Counts
  BY DEF HostStarted, Base, Accord
<1>4. \A b \in Agents : call[b] = "idle" <=> call'[b] = "idle"
  BY <1>1 DEF Slotted
<1>5. \A b \in Agents : call'[b] # "queued"
  BY <1>1 DEF Queued
<1>6. Cardinality(Slots') <= MaxConcurrent
  <2>1. a \in Slots /\ Slots \subseteq Agents
    BY DEF Slots, Slotted
  <2>2. Cardinality(Slots') = Cardinality(Slots) - 1 /\ Cardinality(Slots) \in Nat
    BY <1>2, <2>1, OneLess, AgentSets
  <2> QED
    BY <1>3, <2>2, EngineAssumption DEF Counts
<1> QED
  BY <1>2, <1>3, <1>4, <1>5, <1>6 DEF Counts

LEMMA HandoverCounts ==
  ASSUME Base, NEW a \in Agents, call[a] \in Slotted, UNCHANGED child, NEW b \in Queued,
         \A d \in Queued : b <= d,
         \A c \in Agents : call'[c] = IF c = b THEN "starting" ELSE IF c = a THEN "done" ELSE call[c]
  PROVE  /\ Counts' /\ Started' = Started /\ b \in Agents \ {a}
         /\ \A c \in Agents : call[c] = "starting" => c < b
<1>1. b \in Agents \ {a} /\ call[b] = "queued"
  BY DEF Queued, Slotted
<1>2. \A c \in Agents : call'[c] = IF c = b THEN "starting" ELSE IF c = a THEN "done" ELSE call[c]
  OBVIOUS
<1>3. Slots' = (Slots \ {a}) \cup {b} /\ Queued' = Queued \ {b} /\ Started' = Started
  BY <1>1, <1>2 DEF Slots, Queued, Started, Slotted
<1>4. HostStarted' = HostStarted /\ Counts /\ Agents \subseteq Nat
  BY DEF HostStarted, Base, Accord, Agents
<1>5. Cardinality(Slots') = Cardinality(Slots) /\ Cardinality(Slots) \in Nat
  <2>1. a \in Slots /\ b \notin Slots /\ Slots \subseteq Agents
    BY <1>1 DEF Slots, Slotted
  <2>2. Cardinality(Slots \ {a}) = Cardinality(Slots) - 1 /\ Cardinality(Slots) \in Nat
    BY <2>1, OneLess, AgentSets
  <2>3. PICK T : T = Slots \ {a}
    OBVIOUS
  <2>4. T \subseteq Agents /\ b \in Agents \ T
    BY <1>1, <2>1, <2>3
  <2>5. Cardinality((Slots \ {a}) \cup {b}) = Cardinality(Slots \ {a}) + 1
    BY <2>3, <2>4, OneMore
  <2> QED
    BY <1>3, <2>2, <2>5
<1>6. Cardinality(Slots) = MaxConcurrent
  BY <1>4 DEF Counts
<1>7. \A c \in Agents : call[c] = "idle" <=> call'[c] = "idle"
  BY <1>1, <1>2 DEF Slotted
<1>8. ASSUME NEW c \in Agents, NEW d \in Agents, c < d, call'[c] = "queued"
      PROVE  call'[d] \in {"idle", "queued"}
  <2>1. c \in Queued /\ call[c] = "queued"
    BY <1>2, <1>8 DEF Queued
  <2>2. b <= c
    BY <2>1
  <2>3. d # b /\ call[d] \in {"idle", "queued"}
    BY <1>1, <1>4, <1>8, <2>1, <2>2 DEF Counts
  <2> QED
    BY <1>2, <2>3 DEF Slotted
<1>9. \A c \in Agents : call[c] = "starting" => c < b
  <2> SUFFICES ASSUME NEW c \in Agents, call[c] = "starting" PROVE c < b
    OBVIOUS
  <2>1. ~(b < c) /\ c # b
    BY <1>1, <1>4 DEF Counts
  <2> QED
    BY <1>1, <1>4, <2>1
<1>10. Cardinality(Slots') <= MaxConcurrent /\ Cardinality(Slots') = MaxConcurrent
  BY <1>5, <1>6, EngineAssumption
<1>11. Counts'
  BY <1>3, <1>4, <1>7, <1>8, <1>10 DEF Counts
<1> QED
  BY <1>1, <1>3, <1>9, <1>11

(* The worker hears of one agent; its other answers are where they were. *)
Heard(a, t) ==
  /\ Base /\ HostSame /\ UNCHANGED <<script, stopping>> /\ script # "ended" /\ ~stopping /\ WorkerPort'
  /\ a \in Agents /\ t \in Sent(a) \ Sent(a)'
  /\ \A b \in Agents : Sent(b)' \subseteq Sent(b)

LEMMA OthersLinked ==
  ASSUME Base, HostSame, NEW A, \A b \in Agents \ A : call'[b] = call[b] /\ Posted(b)' = Posted(b),
         \A b \in Agents : Sent(b)' \subseteq Sent(b), NEW b \in Agents \ A
  PROVE  Linked(b)'
<1>1. Linked(b)
  BY DEF Base, Accord
<1> QED
  BY <1>1, Relinked, SameHost

LEMMA ChildStartedAccord ==
  ASSUME NEW a, Heard(a, "child-started"), ChildStarted(a)
  PROVE  Accord'
<1> USE DEF Heard
<1>1. Linked(a) /\ \A b \in Agents : Linked(b)
  BY DEF Base, Accord
<1>2. call[a] = "starting" /\ child[a] = "published" /\ Posted(a) = {} /\ Unheard(a)
  BY <1>1 DEF Linked, Base, TypeOK, TypeWorker
<1>3. call' = [call EXCEPT ![a] = "running"] /\ Post(<<Child("agent-start", a)>>) /\ UNCHANGED ordinal
  BY DEF ChildStarted, Tell
<1>4. PICK fs \in Seq(Frames) : fs = <<Child("agent-start", a)>>
  <2>1. Child("agent-start", a) \in Frames
    BY Limits, FrameType DEF Types
  <2>2. <<Child("agent-start", a)>> \in Seq(Frames)
    BY <2>1
  <2> QED
    BY <2>2
<1>5. DOMAIN fs = {1} /\ fs[1].type = "agent-start" /\ fs[1].agent = a
  BY <1>4, Fields
<1>6. NoCommit(fs) /\ {fs[j].type : j \in DOMAIN fs} = {"agent-start"}
  BY <1>5 DEF NoCommit
<1>7. /\ \A j \in DOMAIN fs : fs[j].agent = a /\ fs[j].type \in FromWorker \cup {"journal-commit"}
      /\ \A j \in DOMAIN fs : fs[j].type # "agent-end" /\ fs[j].type # "child-start"
      /\ \A j, k \in DOMAIN fs : j < k => Rank(fs[j].type) < Rank(fs[k].type)
      /\ \A j \in DOMAIN fs : \A t \in Posted(a) : Rank(t) < Rank(fs[j].type)
  BY <1>2, <1>5 DEF FromWorker
<1>8. /\ HostPort' /\ CommitOrder' /\ ResultCounts' /\ EndsTell'
      /\ Posted(a)' = {"agent-start"}
      /\ \A b \in Agents \ {a} : Posted(b)' = Posted(b)
  BY <1>2, <1>3, <1>4, <1>6, <1>7, AgentPost
<1>9. call'[a] = "running" /\ \A b \in Agents \ {a} : call'[b] = call[b]
  BY <1>3 DEF Base, TypeOK, TypeWorker
<1>10. Counts'
  <2>1. "running" \in Slotted /\ call[a] \in Slotted
    BY <1>2 DEF Slotted
  <2> QED
    BY <1>3, <2>1, CountsMoved, SameHost
<1>11. Linked(a)'
  <2>1. /\ child'[a] = "published" /\ Unheard(a)' /\ result'[a] = result[a]
        /\ a \notin Committed' /\ a \notin asked'
    BY <1>2, SameHost DEF Unheard
  <2>2. Sent(a)' \subseteq {"child-settled", "child-failed"}
    BY <1>1, <1>2 DEF Linked
  <2> QED
    BY <1>1, <1>8, <1>9, <2>1, <2>2 DEF Linked
<1>12. \A b \in Agents \ {a} : Linked(b)'
  BY <1>8, <1>9, OthersLinked
<1> QED
  BY <1>8, <1>10, <1>11, <1>12 DEF Accord

(* An agent that failed to start or was disposed of gives up its slot. *)
LEMMA ReleaseAccord ==
  ASSUME NEW a, Heard(a, "child-start-error") \/ Heard(a, "child-disposed"), ReleaseSlot(a), UNCHANGED ordinal
  PROVE  Accord'
<1>1. Base /\ HostSame /\ UNCHANGED script /\ script # "ended" /\ WorkerPort' /\ a \in Agents
  BY DEF Heard
<1>2. \A b \in Agents : Sent(b)' \subseteq Sent(b)
  BY DEF Heard
<1>3. \A b \in Agents : Linked(b)
  BY <1>1 DEF Base, Accord
<1>4. /\ call[a] \in {"starting", "disposing"} /\ child[a] \in {"failed", "reaped"} /\ Posted(a) = {}
      /\ Sent(a)' \subseteq {"child-settled", "child-failed"}
  <2>1. Linked(a) /\ call[a] \in {"idle", "queued", "starting", "running", "disposing", "done"}
    BY <1>1, <1>3 DEF Base, TypeOK, TypeWorker
  <2>2. CASE Heard(a, "child-start-error")
    <3>1. "child-start-error" \in Sent(a) \ Sent(a)' /\ Sent(a)' \subseteq Sent(a)
      BY <2>2 DEF Heard
    <3> QED
      BY <2>1, <3>1 DEF Linked
  <2>3. CASE Heard(a, "child-disposed")
    <3>1. "child-disposed" \in Sent(a) \ Sent(a)' /\ Sent(a)' \subseteq Sent(a)
      BY <2>3 DEF Heard
    <3> QED
      BY <2>1, <3>1 DEF Linked
  <2> QED
    BY <2>2, <2>3
<1>5. call[a] \in Slotted /\ UNCHANGED <<child, result>>
  BY <1>1, <1>4, SameHost DEF Slotted
<1>6. ASSUME call'[a] = "done", Posted(a)' = {} PROVE Linked(a)'
  <2>1. Linked(a) /\ child'[a] = child[a] /\ result'[a] = result[a] /\ Sent(a)' \subseteq Sent(a)
    BY <1>1, <1>2, <1>3, <1>5
  <2> QED
    BY <1>4, <1>6, <2>1 DEF Linked
<1>7. CASE Queued = {} /\ Tell(a, "done") /\ UNCHANGED toHost
  <2>1. call' = [call EXCEPT ![a] = "done"]
    BY <1>7 DEF Tell
  <2>2. Counts' /\ Started' = Started
    BY <1>1, <1>5, <1>7, <2>1, ReleaseCounts
  <2>3. \A b \in Agents : Posted(b)' = Posted(b)
    BY <1>7 DEF Posted
  <2>4. call'[a] = "done" /\ \A b \in Agents \ {a} : call'[b] = call[b]
    BY <1>1, <2>1 DEF Base, TypeOK, TypeWorker
  <2>5. HostPort' /\ CommitOrder'
    BY <1>1, <1>7, SameHost
    DEF Base, Accord, HostPort, ReadyFirst, InOrder, StartsInOrder, CommitOrder, CommitFrames
  <2>6. ResultCounts'
    BY <1>1, <1>7, <2>2 DEF Base, Accord, ResultCounts, OnPort
  <2>7. EndsTell'
    <3>1. \A b, how : EndTold(b, how)' <=> EndTold(b, how)
      BY <1>1, <1>7, SameHost DEF EndTold, HasCommit, Posted
    <3> QED
      BY <1>1, <1>7, <3>1 DEF Base, Accord, EndsTell, OnPort
  <2>8. Linked(a)'
    BY <1>1, <1>4, <1>6, <2>3, <2>4
  <2>9. \A b \in Agents \ {a} : Linked(b)'
    BY <1>1, <1>2, <2>3, <2>4, OthersLinked
  <2> QED
    BY <1>1, <2>2, <2>5, <2>6, <2>7, <2>8, <2>9 DEF Accord
<1>8. ASSUME NEW b \in Queued, \A d \in Queued : b <= d,
             call' = [call EXCEPT ![a] = "done", ![b] = "starting"], Post(<<Child("child-start", b)>>)
      PROVE  Accord'
  <2>1. \A c \in Agents : call'[c] = IF c = b THEN "starting" ELSE IF c = a THEN "done" ELSE call[c]
    BY <1>1, <1>8 DEF Base, TypeOK, TypeWorker
  <2>2. Counts' /\ b \in Agents \ {a} /\ \A c \in Agents : call[c] = "starting" => c < b
    BY <1>1, <1>5, <1>8, <2>1, HandoverCounts
  <2>3. call[b] = "queued"
    BY DEF Queued
  <2>4. /\ HostPort' /\ CommitOrder' /\ ResultCounts' /\ EndsTell'
        /\ Posted(b)' = {"child-start"}
        /\ \A c \in Agents \ {b} : Posted(c)' = Posted(c)
    BY <1>1, <1>8, <2>2, <2>3, StartPost
  <2>5. call'[a] = "done" /\ call'[b] = "starting" /\ \A c \in Agents \ {a, b} : call'[c] = call[c]
    BY <1>1, <2>1, <2>2
  <2>6. Linked(a)'
    BY <1>1, <1>4, <1>6, <2>2, <2>4, <2>5
  <2>7. Linked(b)'
    <3>1. Linked(b) /\ Sent(b)' \subseteq Sent(b)
      BY <1>2, <1>3, <2>2
    <3>2. child[b] = "none" /\ Sent(b) = {} /\ Unheard(b)
      BY <2>3, <3>1 DEF Linked
    <3>3. child'[b] = "none" /\ Sent(b)' = {} /\ Unheard(b)' /\ result'[b] = result[b]
      BY <1>1, <3>1, <3>2, SameHost DEF Unheard
    <3> QED
      BY <2>4, <2>5, <3>1, <3>2, <3>3 DEF Linked
  <2>8. \A c \in Agents \ {a, b} : Linked(c)'
    BY <1>1, <1>2, <2>4, <2>5, OthersLinked
  <2> QED
    BY <1>1, <2>2, <2>4, <2>6, <2>7, <2>8 DEF Accord
<1> QED
  BY <1>7, <1>8 DEF ReleaseSlot

(* A child's result or failure ends its agent, in three frames or in two. *)
EndsWith(a, fs) ==
  /\ fs[Len(fs) - 1].type = "agent-end" /\ fs[Len(fs)].type = "child-dispose"
  /\ \A j \in DOMAIN fs : fs[j].agent = a
  /\ \/ Len(fs) = 2 /\ UNCHANGED ordinal
     \/ Len(fs) = 3 /\ fs[1].type = "journal-commit" /\ fs[1].n = ordinal + 1 /\ ordinal' = ordinal + 1

LEMMA EndingAccord ==
  ASSUME NEW a, Heard(a, "child-settled") \/ Heard(a, "child-failed"), call[a] = "running",
         Tell(a, "disposing"), NEW fs \in Seq(Frames), Post(fs), EndsWith(a, fs),
         fs[Len(fs) - 1].tell \in {"completed", "failed"},
         fs[Len(fs) - 1].tell = "completed" => Len(fs) = 3,
         result[a] = IF Len(fs) = 3 THEN "settled" ELSE "failed"
  PROVE  Accord'
<1>1. Base /\ HostSame /\ UNCHANGED script /\ script # "ended" /\ WorkerPort' /\ a \in Agents
  BY DEF Heard
<1>2. \A b \in Agents : Sent(b)' \subseteq Sent(b)
  BY DEF Heard
<1>3. Linked(a)
  BY <1>1 DEF Base, Accord
<1>4. /\ child[a] = "published" /\ a \notin Committed /\ a \notin asked
      /\ Sent(a) \subseteq {"child-settled", "child-failed"}
      /\ \/ Posted(a) = {"agent-start"} /\ Unheard(a)
         \/ Posted(a) = {} /\ a \in live
  BY <1>3 DEF Linked
<1>5. call'[a] = "disposing" /\ \A b \in Agents \ {a} : call'[b] = call[b]
  BY <1>1 DEF Tell, Base, TypeOK, TypeWorker
<1>6. Counts'
  <2>1. "disposing" \in Slotted /\ call[a] \in Slotted
    BY DEF Slotted
  <2> QED
    BY <1>1, <2>1, CountsMoved, SameHost DEF Tell
<1>7. DOMAIN fs = 1 .. Len(fs) /\ Len(fs) \in {2, 3}
  BY DEF EndsWith
<1>8. \A j \in DOMAIN fs : \/ j = Len(fs) /\ fs[j].type = "child-dispose"
                           \/ j = Len(fs) - 1 /\ fs[j].type = "agent-end"
                           \/ j = 1 /\ Len(fs) = 3 /\ fs[j].type = "journal-commit"
  BY <1>7 DEF EndsWith
<1>9. (NoCommit(fs) /\ ordinal' = ordinal) \/ (NextCommit(fs) /\ ordinal' = ordinal + 1)
  <2>1. CASE Len(fs) = 2
    BY <1>8, <2>1 DEF EndsWith, NoCommit
  <2>2. CASE Len(fs) = 3
    <3>1. 1 \in DOMAIN fs /\ fs[1].type = "journal-commit" /\ fs[1].n = ordinal + 1 /\ ordinal' = ordinal + 1
      BY <1>7, <2>2 DEF EndsWith
    <3>2. \A k \in DOMAIN fs \ {1} : fs[k].type # "journal-commit"
      BY <1>8
    <3> QED
      BY <3>1, <3>2 DEF NextCommit
  <2> QED
    BY <1>7, <2>1, <2>2
<1>10. {fs[j].type : j \in DOMAIN fs} =
         IF Len(fs) = 3 THEN {"journal-commit", "agent-end", "child-dispose"} ELSE {"agent-end", "child-dispose"}
  <2>1. Len(fs) \in DOMAIN fs /\ Len(fs) - 1 \in DOMAIN fs /\ 1 \in DOMAIN fs
    BY <1>7
  <2>2. Len(fs) = 3 => fs[1].type = "journal-commit"
    BY DEF EndsWith
  <2>3. fs[Len(fs) - 1].type = "agent-end" /\ fs[Len(fs)].type = "child-dispose"
    BY DEF EndsWith
  <2> QED
    BY <1>8, <2>1, <2>2, <2>3
<1>11. \A j, k \in DOMAIN fs : j < k => Rank(fs[j].type) < Rank(fs[k].type)
  BY <1>7, <1>8, Ranks
<1>12. \A j \in DOMAIN fs : \A t \in Posted(a) : Rank(t) < Rank(fs[j].type)
  BY <1>4, <1>8, Ranks
<1>13. \A j \in DOMAIN fs : /\ fs[j].agent = a /\ fs[j].type \in FromWorker \cup {"journal-commit"}
                            /\ fs[j].type # "child-start"
  BY <1>8 DEF EndsWith, FromWorker
<1>14. HasCommit(a)' <=> Len(fs) = 3
  <2>1. toHost \in Seq(Frames)
    BY <1>1 DEF Base, TypeOK, TypePorts
  <2>2. Posted(a)' = Posted(a) \cup {fs[j].type : j \in {k \in DOMAIN fs : fs[k].agent = a}}
    BY <2>1, PostedAdds
  <2>3. {k \in DOMAIN fs : fs[k].agent = a} = DOMAIN fs
    BY <1>13
  <2>4. "journal-commit" \in Posted(a)' <=> Len(fs) = 3
    BY <1>4, <1>10, <2>2, <2>3
  <2> QED
    BY <1>1, <1>4, <2>4, SameHost DEF HasCommit
<1>15. \A j \in DOMAIN fs : fs[j].type = "agent-end" => EndTold(a, fs[j].tell)'
  <2> SUFFICES ASSUME NEW j \in DOMAIN fs, fs[j].type = "agent-end" PROVE EndTold(a, fs[j].tell)'
    OBVIOUS
  <2>1. j = Len(fs) - 1
    BY <1>8
  <2>2. result'[a] = result[a]
    BY <1>1, SameHost
  <2> QED
    BY <1>14, <2>1, <2>2 DEF EndTold
<1>16. /\ HostPort' /\ CommitOrder' /\ ResultCounts' /\ EndsTell'
       /\ Posted(a)' = Posted(a) \cup {fs[j].type : j \in DOMAIN fs}
       /\ \A b \in Agents \ {a} : Posted(b)' = Posted(b)
  <2>1. "agent-end" \notin Posted(a)
    BY <1>4
  <2> QED
    BY <1>1, <1>9, <1>11, <1>12, <1>13, <1>15, <2>1, AgentPost
<1>17. Linked(a)'
  <2>1. /\ child'[a] = "published" /\ a \notin Committed' /\ a \notin asked' /\ result'[a] = result[a]
        /\ (Unheard(a)' <=> Unheard(a)) /\ (a \in live' <=> a \in live)
    BY <1>1, <1>4, SameHost DEF Unheard
  <2>2. Sent(a)' \subseteq {"child-settled", "child-failed"} /\ Sent(a)' \subseteq Sent(a)
    BY <1>1, <1>2, <1>4
  <2>3. /\ Posted(a)' \subseteq {"agent-start", "journal-commit", "agent-end", "child-dispose"}
        /\ {"agent-end", "child-dispose"} \subseteq Posted(a)'
        /\ "journal-commit" \in Posted(a)' => result[a] = "settled"
        /\ "agent-start" \in Posted(a)' => Unheard(a)
        /\ "agent-start" \in Posted(a)' \/ a \in live
    BY <1>4, <1>10, <1>16
  <2> QED
    BY <1>3, <1>5, <2>1, <2>2, <2>3 DEF Linked
<1>18. \A b \in Agents \ {a} : Linked(b)'
  BY <1>1, <1>2, <1>5, <1>16, OthersLinked
<1> QED
  BY <1>1, <1>6, <1>16, <1>17, <1>18 DEF Accord

LEMMA AnsweredAccord ==
  ASSUME NEW a, \/ Heard(a, "child-settled") /\ ChildSettled(a)
                \/ Heard(a, "child-failed") /\ ChildFailed(a)
  PROVE  Accord'
<1>1. Base /\ HostSame /\ UNCHANGED script /\ script # "ended" /\ WorkerPort' /\ a \in Agents /\ ~stopping
  BY DEF Heard
<1>2. \A b \in Agents : Sent(b)' \subseteq Sent(b)
  BY DEF Heard
<1>3. Linked(a) /\ ordinal + 1 \in Nat
  BY <1>1 DEF Base, Accord, TypeOK, TypeWorker
<1>4. CASE call[a] # "running"
  <2>1. UNCHANGED <<call, toHost, ordinal>>
    BY <1>4 DEF ChildSettled, ChildFailed
  <2> QED
    BY <1>1, <1>2, <2>1, QuietAccord
<1>5. CASE call[a] = "running" /\ Heard(a, "child-settled") /\ ChildSettled(a)
  <2>1. PICK how \in {"completed", "failed"} : Post(CommitsThenEnds(a, how, ordinal + 1))
    BY <1>1, <1>5 DEF ChildSettled
  <2>2. PICK fs \in Seq(Frames) : fs = CommitsThenEnds(a, how, ordinal + 1)
    <3>1. Child("child-dispose", a) \in Frames /\ how \in Ends /\ a \in 0 .. MaxAgents
      BY <1>1, Limits, FrameType DEF Types, Ends
    <3>2. AgentEnd(a, how) \in Frames /\ Commit(a, ordinal + 1) \in Frames
      BY <1>3, <3>1, AgentEndType, CommitType
    <3>3. CommitsThenEnds(a, how, ordinal + 1) \in Seq(Frames)
      BY <3>1, <3>2 DEF CommitsThenEnds
    <3> QED
      BY <3>3
  <2>3. Len(fs) = 3 /\ fs[1] = Commit(a, ordinal + 1) /\ fs[2] = AgentEnd(a, how) /\ fs[3] = Child("child-dispose", a)
    BY <2>2 DEF CommitsThenEnds
  <2>4. EndsWith(a, fs) /\ fs[2].tell = how
    BY <1>1, <1>5, <2>3, Fields DEF EndsWith, ChildSettled
  <2>5. result[a] = "settled"
    BY <1>3, <1>5 DEF Heard, Linked
  <2> QED
    <3>1. Tell(a, "disposing") /\ Post(fs)
      BY <1>5, <2>1, <2>2 DEF ChildSettled
    <3>2. /\ fs[Len(fs) - 1].tell \in {"completed", "failed"} /\ Len(fs) = 3
          /\ result[a] = IF Len(fs) = 3 THEN "settled" ELSE "failed"
      BY <2>3, <2>4, <2>5
    <3> QED
      BY <1>5, <2>4, <3>1, <3>2, EndingAccord
<1>6. CASE call[a] = "running" /\ Heard(a, "child-failed") /\ ChildFailed(a)
  <2>1. Post(<<AgentEnd(a, "failed"), Child("child-dispose", a)>>) /\ UNCHANGED ordinal
    BY <1>1, <1>6 DEF ChildFailed
  <2>2. PICK fs \in Seq(Frames) : fs = <<AgentEnd(a, "failed"), Child("child-dispose", a)>>
    <3>1. Child("child-dispose", a) \in Frames /\ "failed" \in Ends /\ a \in 0 .. MaxAgents
      BY <1>1, Limits, FrameType DEF Types, Ends
    <3>2. AgentEnd(a, "failed") \in Frames
      BY <3>1, AgentEndType
    <3>3. <<AgentEnd(a, "failed"), Child("child-dispose", a)>> \in Seq(Frames)
      BY <3>1, <3>2
    <3> QED
      BY <3>3
  <2>3. Len(fs) = 2 /\ fs[1] = AgentEnd(a, "failed") /\ fs[2] = Child("child-dispose", a)
    BY <2>2
  <2>4. EndsWith(a, fs) /\ fs[1].tell = "failed"
    BY <2>1, <2>3, Fields DEF EndsWith
  <2>5. result[a] = "failed"
    BY <1>3, <1>6 DEF Heard, Linked
  <2> QED
    <3>1. Tell(a, "disposing") /\ Post(fs)
      BY <1>6, <2>1, <2>2 DEF ChildFailed
    <3>2. /\ fs[Len(fs) - 1].tell = "failed" /\ Len(fs) = 2
          /\ result[a] = IF Len(fs) = 3 THEN "settled" ELSE "failed"
      BY <2>3, <2>4, <2>5
    <3> QED
      BY <1>6, <2>4, <3>1, <3>2, EndingAccord
<1> QED
  BY <1>4, <1>5, <1>6

LEMMA WorkerAccord ==
  ASSUME Base, WorkerReceives
  PROVE  Accord'
<1> DEFINE m == Head(toWorker)
<1>1. /\ HostSame /\ script # "ended" /\ ~stopping /\ m.type # "cancel"
      /\ m.type \in FromHost => m.agent \in Agents
      /\ \A b \in Agents : Sent(b)' \subseteq Sent(b) /\ (b = m.agent => m.type \in Sent(b) \ Sent(b)')
      /\ UNCHANGED stopping => WorkerPort'
  BY ReadFrame
<1>2. \/ Go \/ ResumeArrives \/ ScratchWritten
      \/ m.type = "child-started" /\ ChildStarted(m.agent)
      \/ m.type = "child-start-error" /\ ChildStartError(m.agent)
      \/ m.type = "child-settled" /\ ChildSettled(m.agent)
      \/ m.type = "child-failed" /\ ChildFailed(m.agent)
      \/ m.type = "child-disposed" /\ ChildDisposed(m.agent)
  BY <1>1 DEF WorkerReceives
<1>3. CASE Go \/ ResumeArrives \/ ScratchWritten
  <2>1. UNCHANGED stopping
    BY <1>3 DEF Go, ResumeArrives, ScratchWritten
  <2> QED
    BY <1>1, <1>3, <2>1, HookAccord
<1>4. CASE m.type \in FromHost
  <2>1. PICK a \in Agents : a = m.agent
    BY <1>1, <1>4
  <2>2. PICK t \in FromHost : t = m.type
    BY <1>4
  <2>3. UNCHANGED <<script, stopping>> => Heard(a, t)
    BY <1>1, <2>1, <2>2 DEF Heard
  <2>4. CASE t = "child-started" /\ ChildStarted(a)
    BY <2>3, <2>4, ChildStartedAccord DEF ChildStarted
  <2>5. CASE (t = "child-start-error" /\ ChildStartError(a)) \/ (t = "child-disposed" /\ ChildDisposed(a))
    BY <2>3, <2>5, ReleaseAccord DEF ChildStartError, ChildDisposed
  <2>6. CASE (t = "child-settled" /\ ChildSettled(a)) \/ (t = "child-failed" /\ ChildFailed(a))
    BY <2>3, <2>6, AnsweredAccord DEF ChildSettled, ChildFailed
  <2> HIDE DEF m
  <2> QED
    BY <1>2, <1>3, <2>1, <2>2, <2>4, <2>5, <2>6
<1> HIDE DEF m
<1> QED
  BY <1>2, <1>3, <1>4 DEF FromHost

LEMMA ScriptAccord ==
  ASSUME Base, Script
  PROVE  Accord'
<1>1. ASSUME NEW a \in Agents, CallAgent(a) PROVE Accord'
  BY <1>1, CallAgentAccord
<1>2. ASSUME UNCHANGED <<toWorker, stopping>>
      PROVE  WorkerPort' /\ \A b \in Agents : Sent(b)' \subseteq Sent(b)
  BY <1>2 DEF Base, Accord, WorkerPort, OnlyOnce, Sent
<1>3. ASSUME CallLog PROVE Accord'
  <2>1. /\ HostSame /\ UNCHANGED <<toWorker, stopping, call, script>> /\ script # "ended"
        /\ ordinal' = ordinal + 1 /\ Post(<<Frame("log"), Commit(0, ordinal + 1)>>)
    BY <1>3 DEF CallLog, HostSame, Running, status
  <2>2. PICK fs \in Seq(Frames) : fs = <<Frame("log"), Commit(0, ordinal + 1)>>
    <3>1. ordinal + 1 \in Nat
      BY DEF Base, TypeOK, TypeWorker
    <3>2. <<Frame("log"), Commit(0, ordinal + 1)>> \in Seq(Frames)
      BY <3>1, CommitType, FrameType, Limits DEF Types
    <3> QED
      BY <3>2
  <2>3. /\ DOMAIN fs = {1, 2} /\ fs[1].type = "log" /\ fs[1].agent = 0
        /\ fs[2].type = "journal-commit" /\ fs[2].agent = 0 /\ fs[2].n = ordinal + 1
    BY <2>2, Fields
  <2>4. NextCommit(fs)
    BY <2>3 DEF NextCommit
  <2>5. \A j \in DOMAIN fs : /\ fs[j].agent = 0 /\ fs[j].type \notin FromWorker \cup {"ready"}
                             /\ fs[j].type # "result"
    BY <2>3 DEF FromWorker
  <2>6. Post(fs)
    BY <2>1, <2>2
  <2>7. WorkerPort' /\ \A b \in Agents : Sent(b)' \subseteq Sent(b)
    BY <1>2, <2>1
  <2> QED
    BY <2>1, <2>4, <2>5, <2>6, <2>7, PlainPost
<1>4. ASSUME NEW h, CallHook(h) PROVE Accord'
  <2>1. /\ HostSame /\ UNCHANGED <<toWorker, stopping, call, script, ordinal>> /\ script # "ended"
    BY <1>4 DEF CallHook, HostSame, Running, status
  <2>2. PICK t \in {"scratch-write", "gate"} : Post(<<Frame(t)>>)
    BY <1>4 DEF CallHook
  <2>3. PICK f \in Frames : f = Frame(t)
    BY FrameType, Limits DEF Types
  <2>4. f.type = t /\ f.agent = 0 /\ Post(<<f>>)
    BY <2>2, <2>3, Fields
  <2>5. WorkerPort' /\ \A b \in Agents : Sent(b)' \subseteq Sent(b)
    BY <1>2, <2>1
  <2> QED
    BY <2>1, <2>4, <2>5, OnePlain DEF FromWorker
<1>5. ASSUME NEW how \in {"completed", "error"}, ScriptEnds(how) PROVE Accord'
  <2>1. /\ HostSame /\ UNCHANGED <<toWorker, stopping, call, ordinal>> /\ script # "ended"
        /\ script' = "ended" /\ ~stopping
    BY <1>5 DEF ScriptEnds, HostSame, status, Base, Accord, WorkerPort
  <2>2. Post(<<Result(how, Started)>>)
    BY <1>5, <2>1 DEF ScriptEnds
  <2>3. PICK f \in Frames : f = Result(how, Started)
    BY ResultType, CountTypes DEF Outcomes
  <2>4. f.type = "result" /\ f.agent = 0 /\ f.n = Started /\ Post(<<f>>)
    BY <2>2, <2>3, Fields
  <2>5. WorkerPort' /\ \A b \in Agents : Sent(b)' \subseteq Sent(b)
    BY <1>2, <2>1
  <2> QED
    BY <2>1, <2>4, <2>5, OnePlain DEF FromWorker
<1> QED
  BY <1>1, <1>3, <1>4, <1>5 DEF Script

-----------------------------------------------------------------------------
(* What the host does with the first frame. *)
Takes(m) ==
  /\ Base /\ toHost # <<>> /\ m = Head(toHost) /\ toHost' = Tail(toHost)
  /\ UNCHANGED <<call, script, stopping, ordinal, result>> /\ ready'
  /\ IF m.type = "journal-commit" THEN journal' = Append(journal, m.agent) ELSE UNCHANGED journal

LEMMA TakenFrame ==
  ASSUME NEW m, Takes(m)
  PROVE  /\ HostPort' /\ CommitOrder' /\ ResultCounts' /\ EndsTell'
         /\ \A a \in Agents : Posted(a)' = IF a = m.agent THEN Posted(a) \ {m.type} ELSE Posted(a)
         /\ \A a \in Agents : a \in Committed' <=> a \in Committed \/ (m.type = "journal-commit" /\ a = m.agent)
<1>1. /\ Accord /\ toHost \in Seq(Frames) /\ toHost # <<>> /\ toHost' = Tail(toHost)
      /\ ordinal \in Nat /\ journal \in Seq(0 .. MaxAgents)
  BY DEF Takes, Base, TypeOK, TypePorts, TypeWorker, TypeLedger
<1>2. m \in Frames /\ m.type \in Posted(m.agent) /\ m.agent \in 0 .. MaxAgents
  BY HeadFrame DEF Takes
<1>3. HostPort'
  BY <1>1, TakenPort DEF Takes, Accord
<1>4. m.type = "journal-commit" => m.n = Len(journal) + 1
  BY CommitAccepted DEF Takes, BadCommit
<1>5. CommitOrder'
  <2>1. UNCHANGED ordinal /\ m = Head(toHost)
    BY DEF Takes
  <2>2. IF m.type = "journal-commit" THEN m.n = Len(journal) + 1 /\ journal' = Append(journal, m.agent)
        ELSE UNCHANGED journal
    BY <1>4 DEF Takes
  <2> QED
    BY <1>1, <2>1, <2>2, CommitsTaken DEF Accord
<1>6. ASSUME NEW a \in Agents
      PROVE  Posted(a)' = IF a = m.agent THEN Posted(a) \ {m.type} ELSE Posted(a)
  <2>1. a # 0 /\ InOrder /\ m = Head(toHost)
    BY <1>1, Limits DEF Accord, HostPort, Takes
  <2> QED
    BY <1>1, <2>1, PostedLoses
<1>7. ASSUME NEW a \in Agents
      PROVE  a \in Committed' <=> a \in Committed \/ (m.type = "journal-commit" /\ a = m.agent)
  <2>1. CASE m.type # "journal-commit"
    BY <2>1 DEF Takes, Committed
  <2>2. CASE m.type = "journal-commit"
    <3>1. journal' = Append(journal, m.agent) /\ a # 0 /\ Len(journal) \in Nat
      BY <1>1, <2>2, Limits DEF Takes
    <3>2. /\ \A i \in DOMAIN journal : i \in DOMAIN journal' /\ journal'[i] = journal[i]
          /\ Len(journal) + 1 \in DOMAIN journal' /\ journal'[Len(journal) + 1] = m.agent
          /\ \A i \in DOMAIN journal' : i \in DOMAIN journal \/ i = Len(journal) + 1
      BY <1>1, <1>2, <3>1
    <3> QED
      BY <2>2, <3>1, <3>2 DEF Committed
  <2> QED
    BY <2>1, <2>2
<1>8. \A a \in Agents : HasCommit(a)' <=> HasCommit(a)
  BY <1>2, <1>6, <1>7 DEF HasCommit
<1>9. ResultCounts'
  BY <1>1, PortShrinks DEF Takes, Accord, ResultCounts, Started
<1>10. EndsTell'
  <2> SUFFICES ASSUME NEW f \in OnPort', f.type = "agent-end" PROVE EndTold(f.agent, f.tell)'
    BY DEF EndsTell
  <2>1. f \in OnPort
    BY <1>1, PortShrinks
  <2>2. f.agent \in Agents
    <3>1. PICK i \in DOMAIN toHost : f = toHost[i]
      BY <2>1 DEF OnPort
    <3>2. f \in Frames /\ f.agent # 0
      BY <1>1, <3>1 DEF Accord, HostPort, FromWorker
    <3> QED
      BY <3>2, Reading, Limits DEF Agents
  <2>3. EndTold(f.agent, f.tell)
    BY <1>1, <2>1 DEF Accord, EndsTell
  <2>4. UNCHANGED result
    BY DEF Takes
  <2> QED
    BY <1>8, <2>2, <2>3, <2>4 DEF EndTold
<1> QED
  BY <1>3, <1>5, <1>6, <1>7, <1>9, <1>10

(* A frame is about an agent exactly when its type says so. *)
LEMMA AboutNobody ==
  ASSUME NEW m, Takes(m), m.type \notin FromWorker \cup {"journal-commit"}
  PROVE  m.agent \notin Agents
<1>1. m.type \in Posted(m.agent)
  BY HeadFrame DEF Takes
<1> SUFFICES ASSUME m.agent \in Agents PROVE FALSE
  OBVIOUS
<1> DEFINE a == m.agent
           t == m.type
<1>2. Linked(a) /\ call[a] \in {"idle", "queued", "starting", "running", "disposing", "done"}
  BY DEF Takes, Base, Accord, TypeOK, TypeWorker
<1>3. t \in Posted(a) /\ t \notin {"child-start", "agent-start", "agent-end", "child-dispose", "journal-commit"}
  BY <1>1 DEF FromWorker
<1> HIDE DEF a, t
<1> QED
  BY <1>2, <1>3 DEF Linked

(* The agents a frame is not about stay where they are. *)
LEMMA OthersTaken ==
  ASSUME NEW m, Takes(m), NEW a \in Agents, a # m.agent, child'[a] = child[a], a \in asked' <=> a \in asked,
         a \in announced' <=> a \in announced, a \in live' <=> a \in live, Sent(a)' \subseteq Sent(a)
  PROVE  Linked(a)'
<1>1. Posted(a)' = Posted(a) /\ (a \in Committed' <=> a \in Committed)
  BY TakenFrame
<1>2. Linked(a) /\ call'[a] = call[a] /\ result'[a] = result[a]
  BY DEF Takes, Base, Accord
<1> QED
  BY <1>1, <1>2, Relinked

LEMMA PlainTaken ==
  ASSUME NEW m, Takes(m), m.agent \notin Agents, UNCHANGED <<child, asked, announced, live>>,
         WorkerPort', \A a \in Agents : Sent(a)' \subseteq Sent(a)
  PROVE  Accord'
<1>1. \A a \in Agents : Linked(a)'
  BY OthersTaken
<1>2. Counts'
  BY CountsKept DEF Takes, Base, Accord
<1> QED
  BY <1>1, <1>2, TakenFrame DEF Accord

(* The frame is about one agent, whose child neither starts nor is disposed of. *)
LEMMA AgentTaken ==
  ASSUME NEW m, Takes(m), m.agent \in Agents, UNCHANGED <<child, asked, toWorker>>,
         \A a \in Agents : a # m.agent => (a \in announced' <=> a \in announced) /\ (a \in live' <=> a \in live),
         Linked(m.agent)'
  PROVE  Accord'
<1>1. \A a \in Agents : Sent(a)' = Sent(a)
  BY DEF Sent
<1>2. ASSUME NEW a \in Agents PROVE Linked(a)'
  <2>1. CASE a = m.agent
    BY <2>1
  <2>2. CASE a # m.agent
    BY <1>1, <2>2, OthersTaken
  <2> QED
    BY <2>1, <2>2
<1>3. Counts' /\ WorkerPort'
  BY CountsKept DEF Takes, Base, Accord, WorkerPort, OnlyOnce
<1> QED
  BY <1>2, <1>3, TakenFrame DEF Accord

LEMMA LedgerAccord ==
  ASSUME NEW m, Takes(m), m.agent \in Agents, ~cancelled, UNCHANGED <<child, asked, toWorker>>,
         \/ m.type = "agent-start" /\ OnAgentStart(m.agent)
         \/ m.type = "agent-end" /\ OnAgentEnd(m.agent, m.tell)
         \/ m.type = "journal-commit" /\ OnJournalCommit(m.agent)
  PROVE  Accord'
<1>1. PICK a \in Agents : a = m.agent
  OBVIOUS
<1>2. /\ Linked(a) /\ call[a] \in {"idle", "queued", "starting", "running", "disposing", "done"}
      /\ m.type \in Posted(a)
  BY <1>1, HeadFrame DEF Takes, Base, Accord, TypeOK, TypeWorker
<1>3. /\ Posted(a)' = Posted(a) \ {m.type}
      /\ a \in Committed' <=> a \in Committed \/ m.type = "journal-commit"
  BY <1>1, TakenFrame
<1>4. /\ call'[a] = call[a] /\ result'[a] = result[a] /\ child'[a] = child[a]
      /\ (a \in asked' <=> a \in asked) /\ Sent(a)' = Sent(a)
  BY DEF Takes, Sent
<1>5. ASSUME NEW t \in Posted(a), t # m.type PROVE Rank(m.type) < Rank(t)
  <2>1. m = Head(toHost) /\ m.agent # 0
    BY <1>1, Limits DEF Takes
  <2> QED
    BY <1>1, <1>5, <2>1, FirstOfItsAgent DEF Takes
<1>6. CASE m.type = "agent-start" /\ OnAgentStart(a)
  <2>1. announced' = announced \cup {a} /\ live' = live \cup {a}
    BY <1>6 DEF OnAgentStart
  <2>2. a \in live' /\ a \in announced' /\ "agent-start" \notin Posted(a)' /\ a \in Committed' <=> a \in Committed
    BY <1>3, <1>6, <2>1
  <2>3. Linked(a)'
    BY <1>2, <1>3, <1>4, <1>6, <2>1 DEF Linked, Unheard
  <2> QED
    BY <1>1, <2>1, <2>3, AgentTaken
<1>7. CASE m.type = "agent-end" /\ OnAgentEnd(a, m.tell)
  <2>1. live' = live \ {a} /\ announced' = announced
    BY <1>7 DEF OnAgentEnd
  <2>2. "agent-start" \notin Posted(a) /\ "journal-commit" \notin Posted(a)
    BY <1>5, <1>7, Ranks
  <2>3. Linked(a)'
    BY <1>2, <1>3, <1>4, <1>7, <2>1, <2>2 DEF Linked, Unheard
  <2> QED
    BY <1>1, <2>1, <2>3, AgentTaken
<1>8. CASE m.type = "journal-commit" /\ OnJournalCommit(a)
  <2>1. live' = live /\ announced' = announced
    BY <1>8 DEF OnJournalCommit
  <2>2. "agent-start" \notin Posted(a)
    BY <1>5, <1>8, Ranks
  <2>3. Linked(a)'
    BY <1>2, <1>3, <1>4, <1>8, <2>1, <2>2 DEF Linked, Unheard
  <2> QED
    BY <1>1, <2>1, <2>3, AgentTaken
<1> QED
  BY <1>1, <1>6, <1>7, <1>8

LEMMA StartCounts ==
  ASSUME Base, NEW a \in Agents, a = HostStarted + 1, child[a] = "none", UNCHANGED call,
         child' = [child EXCEPT ![a] = "starting"]
  PROVE  Counts'
<1>1. Counts /\ HostStarted \in Nat /\ Agents \subseteq Nat
  BY CountTypes DEF Base, Accord, Agents
<1>2. \A b \in Agents : child'[b] = IF b = a THEN "starting" ELSE child[b]
  BY DEF Base, TypeOK, TypeKids
<1>3. HostStarted' = HostStarted + 1
  <2>1. {b \in Agents : child'[b] # "none"} = {b \in Agents : child[b] # "none"} \cup {a}
    BY <1>2
  <2> QED
    BY <2>1, OneMore DEF HostStarted
<1>4. \A b \in Agents : child'[b] # "none" <=> b <= HostStarted'
  BY <1>1, <1>2, <1>3 DEF Counts
<1>5. Started' = Started /\ Slots' = Slots /\ Queued' = Queued
  BY DEF Started, Slots, Queued
<1> QED
  BY <1>1, <1>4, <1>5 DEF Counts

LEMMA ChildStartAccord ==
  ASSUME NEW m, Takes(m), m.type = "child-start", OnChildStart(m.agent)
  PROVE  Accord'
<1>1. PICK a \in Agents : a = m.agent
  BY HeadFrame DEF Takes, FromWorker
<1>2. call[a] = "starting" /\ child[a] = "none" /\ a = HostStarted + 1 /\ Base
  BY <1>1, ChildStartAccepted DEF Takes
<1>3. /\ child' = [child EXCEPT ![a] = "starting"] /\ UNCHANGED toWorker
      /\ UNCHANGED <<asked, announced, live>>
  BY <1>1, <1>2 DEF OnChildStart, Admitting, Base, Open, ledger
<1>4. Counts' /\ WorkerPort'
  BY <1>2, <1>3, StartCounts DEF Takes, Base, Accord, WorkerPort, OnlyOnce
<1>5. \A b \in Agents : Sent(b)' = Sent(b) /\ child'[b] = IF b = a THEN "starting" ELSE child[b]
  BY <1>2, <1>3 DEF Sent, Base, TypeOK, TypeKids
<1>6. Linked(a)'
  <2>1. Linked(a) /\ Posted(a) = {"child-start"} /\ Sent(a) = {} /\ Unheard(a) /\ result[a] = "pending"
    BY <1>2 DEF Base, Accord, Linked
  <2>2. Posted(a)' = {} /\ (a \in Committed' <=> a \in Committed)
    BY <1>1, <2>1, TakenFrame
  <2>3. Unheard(a)' /\ result'[a] = "pending" /\ call'[a] = "starting" /\ child'[a] = "starting" /\ Sent(a)' = {}
    BY <1>2, <1>3, <1>5, <2>1, <2>2 DEF Unheard, Takes
  <2> QED
    BY <2>2, <2>3 DEF Linked
<1>7. \A b \in Agents \ {a} : Linked(b)'
  BY <1>1, <1>3, <1>5, OthersTaken
<1> QED
  BY <1>4, <1>6, <1>7, TakenFrame DEF Accord

LEMMA SameNone ==
  ASSUME Base, UNCHANGED call, \A a \in Agents : child'[a] = "none" <=> child[a] = "none"
  PROVE  Counts'
<1>1. HostStarted' = HostStarted
  BY DEF HostStarted
<1> QED
  BY <1>1 DEF Base, Accord, Counts, Started, Slots, Queued

LEMMA ChildDisposeAccord ==
  ASSUME NEW m, Takes(m), m.type = "child-dispose", OnChildDispose(m.agent)
  PROVE  Accord'
<1>1. PICK a \in Agents : a = m.agent
  BY HeadFrame DEF Takes, FromWorker
<1>2. /\ Linked(a) /\ call[a] \in {"idle", "queued", "starting", "running", "disposing", "done"}
      /\ "child-dispose" \in Posted(a)
  BY <1>1, HeadFrame DEF Takes, Base, Accord, TypeOK, TypeWorker
<1>3. /\ call[a] = "disposing" /\ child[a] = "published" /\ "child-disposed" \notin Sent(a)
      /\ Sent(a) \subseteq {"child-settled", "child-failed", "child-disposed"}
  BY <1>2 DEF Linked
<1>4. Posted(a) = {"child-dispose"}
  <2>1. m = Head(toHost) /\ m.agent # 0
    BY <1>1, Limits DEF Takes
  <2>2. \A t \in Posted(a) : t # "child-dispose" => Rank("child-dispose") < Rank(t)
    BY <1>1, <2>1, FirstOfItsAgent DEF Takes
  <2>3. Posted(a) \subseteq {"agent-start", "journal-commit", "agent-end", "child-dispose"}
    BY <1>2, <1>3 DEF Linked
  <2> QED
    BY <1>2, <2>2, <2>3, Ranks
<1>5. Posted(a)' = {} /\ asked' = asked \cup {a} /\ UNCHANGED <<toWorker, announced, live>>
  BY <1>1, <1>3, <1>4, TakenFrame DEF OnChildDispose, ledger
<1>6. \A b \in Agents : child'[b] = IF b = a THEN "disposing" ELSE child[b]
  BY <1>1, <1>3 DEF OnChildDispose, Takes, Base, TypeOK, TypeKids
<1>7. Counts'
  BY <1>3, <1>6, SameNone DEF Takes
<1>8. WorkerPort' /\ \A b \in Agents : Sent(b)' = Sent(b)
  BY <1>5 DEF Takes, Base, Accord, WorkerPort, OnlyOnce, Sent
<1>9. Linked(a)'
  <2>1. /\ call'[a] = "disposing" /\ child'[a] = "disposing" /\ a \in asked'
        /\ result'[a] = result[a] /\ Sent(a)' = Sent(a)
    BY <1>3, <1>5, <1>6, <1>8 DEF Takes
  <2> QED
    BY <1>2, <1>3, <1>5, <2>1 DEF Linked
<1>10. ASSUME NEW b \in Agents, b # a PROVE Linked(b)'
  BY <1>1, <1>5, <1>6, <1>8, <1>10, OthersTaken
<1> QED
  BY <1>7, <1>8, <1>9, <1>10, TakenFrame DEF Accord

LEMMA ReadyAccord ==
  ASSUME NEW m, Takes(m), m.type = "ready", UNCHANGED <<child, asked, announced, live>>,
         Send(<<Frame("go")>>) \/ UNCHANGED toWorker
  PROVE  Accord'
<1>1. m.agent \notin Agents
  BY AboutNobody DEF FromWorker
<1>2. CASE UNCHANGED toWorker
  <2>1. WorkerPort' /\ \A a \in Agents : Sent(a)' \subseteq Sent(a)
    BY <1>2 DEF Takes, Base, Accord, WorkerPort, OnlyOnce, Sent
  <2> QED
    BY <1>1, <2>1, PlainTaken
<1>3. CASE Send(<<Frame("go")>>)
  <2>1. PICK f \in Frames : f = Frame("go")
    BY FrameType, Limits DEF Types
  <2>2. f.type = "go" /\ f.agent = 0 /\ Send(<<f>>) /\ toWorker \in Seq(Frames) /\ WorkerPort /\ UNCHANGED stopping
    BY <1>3, <2>1, Fields DEF Takes, Base, Accord, TypeOK, TypePorts
  <2>3. WorkerPort'
    BY <2>2, SentPort DEF FromHost
  <2>4. \A a \in Agents : Sent(a)' \subseteq Sent(a)
    BY <2>2, SentAdds, Limits
  <2> QED
    BY <1>1, <2>3, <2>4, PlainTaken
<1> QED
  BY <1>2, <1>3

LEMMA HostAccord ==
  ASSUME Base, HostReceives
  PROVE  accused' = accused /\ (Open' => Accord')
<1>1. PICK m \in Frames : m = Head(toHost)
  BY HeadFrame DEF HostReceives
<1>2. toHost # <<>> /\ toHost' = Tail(toHost) /\ ~death /\ ~claimed /\ ~cancelled /\ ~Violation(m)
  BY <1>1, NoViolation DEF HostReceives, Base, Open
<1>3. /\ UNCHANGED <<worker, released, cancelled, death, gone, accused, outcome, timers, result, broken>>
      /\ \/ m.type = "ready" /\ OnReady
         \/ m.type = "log" /\ UNCHANGED <<toWorker, ready, claimed, pendingResult, child, asked, ledger, scratch, shown>>
         \/ m.type = "gate" /\ OnGate
         \/ m.type = "agent-start" /\ OnAgentStart(m.agent)
         \/ m.type = "agent-end" /\ OnAgentEnd(m.agent, m.tell)
         \/ m.type = "journal-commit" /\ OnJournalCommit(m.agent)
         \/ m.type = "scratch-write" /\ OnScratchWrite
         \/ m.type = "child-start" /\ OnChildStart(m.agent)
         \/ m.type = "child-dispose" /\ OnChildDispose(m.agent)
         \/ m.type = "result" /\ OnResult(m.tell)
  BY <1>1, <1>2 DEF HostReceives
<1>4. UNCHANGED <<call, script, stopping, ordinal, result, accused>>
  BY <1>3 DEF worker
<1>5. m.type # "ready" => ready
  BY <1>2 DEF Violation
<1>6. ASSUME ready', IF m.type = "journal-commit" THEN journal' = Append(journal, m.agent) ELSE UNCHANGED journal
      PROVE  Takes(m)
  BY <1>1, <1>2, <1>4, <1>6 DEF Takes
<1>7. CASE m.type = "ready" /\ OnReady
  <2>1. Takes(m) /\ UNCHANGED <<child, asked, announced, live>>
    BY <1>6, <1>7 DEF OnReady, ledger
  <2>2. Send(<<Frame("go")>>) \/ UNCHANGED toWorker
    BY <1>7 DEF OnReady
  <2> QED
    BY <1>4, <1>7, <2>1, <2>2, ReadyAccord
<1>8. CASE /\ m.type \in {"log", "gate", "scratch-write"}
           /\ UNCHANGED <<toWorker, ready, child, asked, ledger>>
  <2>1. Takes(m) /\ UNCHANGED <<child, asked, announced, live, toWorker>>
    BY <1>5, <1>6, <1>8 DEF ledger
  <2>2. m.agent \notin Agents
    BY <1>8, <2>1, AboutNobody DEF FromWorker
  <2>3. WorkerPort' /\ \A a \in Agents : Sent(a)' \subseteq Sent(a)
    BY <2>1 DEF Takes, Base, Accord, WorkerPort, OnlyOnce, Sent
  <2> QED
    BY <1>4, <2>1, <2>2, <2>3, PlainTaken
<1>9. CASE \/ m.type = "agent-start" /\ OnAgentStart(m.agent)
           \/ m.type = "agent-end" /\ OnAgentEnd(m.agent, m.tell)
           \/ m.type = "journal-commit" /\ OnJournalCommit(m.agent)
  <2>1. UNCHANGED <<toWorker, ready, child, asked>>
    BY <1>9 DEF OnAgentStart, OnAgentEnd, OnJournalCommit
  <2>2. IF m.type = "journal-commit" THEN journal' = Append(journal, m.agent) ELSE UNCHANGED journal
    BY <1>2, <1>9 DEF OnAgentStart, OnAgentEnd, OnJournalCommit
  <2>3. Takes(m) /\ UNCHANGED <<child, asked, toWorker>>
    BY <1>5, <1>6, <1>9, <2>1, <2>2
  <2>4. CASE m.agent \in Agents
    BY <1>2, <1>4, <1>9, <2>3, <2>4, LedgerAccord
  <2>5. CASE m.agent \notin Agents
    <3>1. m.type \notin FromWorker
      BY <2>3, <2>5, HeadFrame DEF Takes
    <3>2. UNCHANGED <<announced, live>>
      BY <1>9, <3>1 DEF OnJournalCommit, FromWorker
    <3>3. WorkerPort' /\ \A a \in Agents : Sent(a)' \subseteq Sent(a)
      BY <2>3 DEF Takes, Base, Accord, WorkerPort, OnlyOnce, Sent
    <3> QED
      BY <1>4, <2>3, <2>5, <3>2, <3>3, PlainTaken
  <2> QED
    BY <2>4, <2>5
<1>10. CASE m.type = "child-start" /\ OnChildStart(m.agent)
  <2>1. Takes(m)
    BY <1>5, <1>6, <1>10 DEF OnChildStart, ledger
  <2> QED
    BY <1>4, <1>10, <2>1, ChildStartAccord
<1>11. CASE m.type = "child-dispose" /\ OnChildDispose(m.agent)
  <2>1. Takes(m)
    BY <1>5, <1>6, <1>11 DEF OnChildDispose, ledger
  <2> QED
    BY <1>4, <1>11, <2>1, ChildDisposeAccord
<1>12. CASE m.type = "result" /\ OnResult(m.tell)
  BY <1>4, <1>12 DEF OnResult, Open
<1>13. \/ m.type = "log" /\ UNCHANGED <<toWorker, ready, claimed, pendingResult, child, asked, ledger, scratch, shown>>
       \/ m.type = "gate" /\ OnGate
       \/ m.type = "scratch-write" /\ OnScratchWrite
       => m.type \in {"log", "gate", "scratch-write"} /\ UNCHANGED <<toWorker, ready, child, asked, ledger>>
  BY DEF OnGate, OnScratchWrite
<1> QED
  BY <1>3, <1>7, <1>8, <1>9, <1>10, <1>11, <1>12, <1>13

-----------------------------------------------------------------------------
(* What the provider does with one child. *)
ProviderSays(a) ==
  /\ Base /\ UNCHANGED <<toHost, worker, ready, asked, ledger>>
  /\ a \in Agents /\ (child'[a] = "none" <=> child[a] = "none")
  /\ \A b \in Agents \ {a} : child'[b] = child[b] /\ result'[b] = result[b]

LEMMA ProviderAccord ==
  ASSUME NEW a, ProviderSays(a), NEW f \in Frames, Send(<<f>>), f.agent = a, f.type \in FromHost,
         f.type \notin Sent(a), f.type # "cancel",
         "agent-end" \in Posted(a) => result'[a] = result[a],
         Sent(a)' \subseteq Sent(a) \cup {f.type} => Linked(a)'
  PROVE  Accord'
<1>1. /\ Accord /\ toWorker \in Seq(Frames) /\ toHost \in Seq(Frames) /\ a \in Agents /\ a # 0
      /\ UNCHANGED <<call, ordinal, script, stopping, journal, announced, live, asked, toHost, ready>>
  BY Limits DEF ProviderSays, Base, TypeOK, TypePorts, worker, ledger
<1>2. WorkerPort'
  BY <1>1, SentPort DEF Accord
<1>3. \A b \in Agents : Sent(b)' \subseteq IF f.agent = b THEN Sent(b) \cup {f.type} ELSE Sent(b)
  BY <1>1, SentAdds
<1>4. Linked(a)'
  BY <1>1, <1>3
<1>5. /\ \A b : Posted(b)' = Posted(b)
      /\ Committed' = Committed
  BY <1>1 DEF Posted, Committed
<1>6. ASSUME NEW b \in Agents, b # a PROVE Linked(b)'
  <2>1. Linked(b) /\ child'[b] = child[b] /\ result'[b] = result[b] /\ Sent(b)' \subseteq Sent(b)
    BY <1>1, <1>3, <1>6 DEF ProviderSays, Accord
  <2> QED
    BY <1>1, <1>5, <2>1, Relinked
<1>7. HostPort' /\ CommitOrder'
  BY <1>1 DEF Accord, HostPort, ReadyFirst, InOrder, StartsInOrder, CommitOrder, CommitFrames
<1>8. Counts'
  <2>1. \A b \in Agents : child'[b] = "none" <=> child[b] = "none"
    BY DEF ProviderSays
  <2> QED
    BY <1>1, <2>1, SameNone DEF ProviderSays
<1>9. ResultCounts'
  BY <1>1 DEF Accord, ResultCounts, OnPort, Started
<1>10. EndsTell'
  <2> SUFFICES ASSUME NEW e \in OnPort, e.type = "agent-end" PROVE EndTold(e.agent, e.tell)'
    BY <1>1 DEF EndsTell, OnPort
  <2>1. EndTold(e.agent, e.tell)
    BY <1>1 DEF Accord, EndsTell
  <2>2. PICK i \in DOMAIN toHost : e = toHost[i]
    BY DEF OnPort
  <2>3. e.agent \in Agents /\ "agent-end" \in Posted(e.agent)
    <3>1. e \in Frames /\ e.agent # 0
      BY <1>1, <2>2 DEF Accord, HostPort, FromWorker
    <3>2. "agent-end" \in Posted(e.agent)
      BY <2>2 DEF Posted
    <3> QED
      BY <3>1, <3>2, Reading, Limits DEF Agents
  <2>4. result'[e.agent] = result[e.agent]
    BY <2>3 DEF ProviderSays
  <2>5. HasCommit(e.agent)' <=> HasCommit(e.agent)
    BY <1>5 DEF HasCommit
  <2> QED
    BY <2>1, <2>4, <2>5 DEF EndTold
<1> QED
  BY <1>2, <1>4, <1>6, <1>7, <1>8, <1>9, <1>10 DEF Accord

LEMMA ResolvesAccord ==
  ASSUME Base, NEW a \in Agents, StartResolves(a) \/ StartRejects(a)
  PROVE  Accord'
<1>1. /\ Linked(a) /\ call[a] \in {"idle", "queued", "starting", "running", "disposing", "done"}
      /\ child[a] = "starting"
  BY DEF Base, Accord, TypeOK, TypeWorker, StartResolves, StartRejects
<1>2. call[a] = "starting" /\ Unheard(a) /\ Posted(a) = {} /\ Sent(a) = {} /\ result[a] = "pending"
  BY <1>1 DEF Linked
<1>3. PICK s \in {"published", "failed"} :
        /\ child' = [child EXCEPT ![a] = s]
        /\ Send(<<Child(IF s = "published" THEN "child-started" ELSE "child-start-error", a)>>)
  BY DEF StartResolves, StartRejects, Admitting, Base, Open
<1>4. PICK t \in {"child-started", "child-start-error"} :
        t = IF s = "published" THEN "child-started" ELSE "child-start-error"
  OBVIOUS
<1>5. PICK f \in Frames : f = Child(t, a)
  BY FrameType, Limits DEF Types
<1>6. f.agent = a /\ f.type = t /\ Send(<<f>>)
  BY <1>3, <1>4, <1>5, Fields
<1>7. \A b \in Agents : child'[b] = IF b = a THEN s ELSE child[b]
  BY <1>3 DEF Base, TypeOK, TypeKids
<1>8. UNCHANGED <<toHost, worker, ready, result, asked, ledger, call, announced, live, journal>>
  BY DEF StartResolves, StartRejects, status, worker, ledger
<1>9. ProviderSays(a)
  BY <1>1, <1>7, <1>8 DEF ProviderSays
<1>10. ASSUME Sent(a)' \subseteq {t} PROVE Linked(a)'
  <2>1. Unheard(a)' /\ Posted(a)' = {} /\ child'[a] = s /\ result'[a] = "pending" /\ call'[a] = "starting"
    BY <1>2, <1>7, <1>8 DEF Unheard, Committed, Posted
  <2>2. "child-settled" \notin Sent(a)' /\ "child-failed" \notin Sent(a)'
    BY <1>10
  <2> QED
    BY <1>4, <1>10, <2>1, <2>2 DEF Linked
<1> QED
  BY <1>2, <1>6, <1>8, <1>9, <1>10, ProviderAccord DEF FromHost

LEMMA ChildEndsAccord ==
  ASSUME Base, NEW a \in Agents, NEW how \in {"settled", "failed"}, ChildEnds(a, how)
  PROVE  Accord'
<1>1. /\ Linked(a) /\ call[a] \in {"idle", "queued", "starting", "running", "disposing", "done"}
      /\ child[a] \in {"published", "disposing"} /\ result[a] = "pending"
  BY DEF Base, Accord, TypeOK, TypeWorker, ChildEnds, Children
<1>2. call[a] \in {"starting", "running", "disposing"}
  BY <1>1 DEF Linked
<1>3. PICK t \in {"child-settled", "child-failed"} : t = IF how = "settled" THEN "child-settled" ELSE "child-failed"
  OBVIOUS
<1>4. PICK f \in Frames : f = Child(t, a)
  BY FrameType, Limits DEF Types
<1>5. f.agent = a /\ f.type = t /\ Send(<<f>>)
  BY <1>3, <1>4, Fields DEF ChildEnds
<1>6. \A b \in Agents : result'[b] = IF b = a THEN how ELSE result[b]
  BY DEF ChildEnds, Base, TypeOK, TypeKids
<1>7. UNCHANGED <<toHost, worker, ready, child, asked, ledger, call, announced, live, journal>>
  BY DEF ChildEnds, status, worker, ledger
<1>8. ProviderSays(a)
  BY <1>6, <1>7 DEF ProviderSays
<1>9. "child-settled" \notin Sent(a) /\ "child-failed" \notin Sent(a)
  BY <1>1 DEF Linked
<1>10. "agent-end" \notin Posted(a)
  <2> SUFFICES ASSUME "agent-end" \in Posted(a) PROVE FALSE
    OBVIOUS
  <2>1. PICK i \in DOMAIN toHost : toHost[i].agent = a /\ toHost[i].type = "agent-end"
    BY DEF Posted
  <2>2. EndTold(a, toHost[i].tell)
    BY <2>1 DEF Base, Accord, EndsTell, OnPort
  <2> QED
    BY <1>1, <2>2 DEF EndTold
<1>11. ASSUME Sent(a)' \subseteq Sent(a) \cup {t} PROVE Linked(a)'
  <2>1. /\ (Unheard(a)' <=> Unheard(a)) /\ Posted(a)' = Posted(a) /\ Committed' = Committed
        /\ child'[a] = child[a] /\ result'[a] = how /\ call'[a] = call[a]
        /\ UNCHANGED <<asked, live>>
    BY <1>6, <1>7 DEF Unheard, Committed, Posted
  <2>2. /\ "child-settled" \in Sent(a)' => how = "settled"
        /\ "child-failed" \in Sent(a)' => how = "failed"
    BY <1>3, <1>9, <1>11
  <2>3. "child-disposed" \in Sent(a)' => "child-disposed" \in Sent(a)
    BY <1>11
  <2>4. CASE call[a] = "starting"
    BY <1>1, <1>11, <2>1, <2>2, <2>4 DEF Linked
  <2>5. CASE call[a] = "running"
    BY <1>1, <1>11, <2>1, <2>2, <2>5 DEF Linked
  <2>6. CASE call[a] = "disposing"
    BY <1>1, <1>10, <1>11, <2>1, <2>2, <2>3, <2>6 DEF Linked
  <2> QED
    BY <1>2, <2>4, <2>5, <2>6
<1> QED
  BY <1>5, <1>8, <1>9, <1>10, <1>11, ProviderAccord DEF FromHost

LEMMA DisposalAccord ==
  ASSUME Base, NEW a \in Agents, DisposalEnds(a)
  PROVE  Accord'
<1>1. /\ Linked(a) /\ call[a] \in {"idle", "queued", "starting", "running", "disposing", "done"}
      /\ child[a] \in {"disposing", "refusing"}
  BY DEF Base, Accord, TypeOK, TypeWorker, DisposalEnds
<1>2. /\ call[a] = "disposing" /\ child[a] = "disposing" /\ a \in asked /\ Posted(a) = {}
      /\ "child-disposed" \notin Sent(a) /\ Sent(a) \subseteq {"child-settled", "child-failed", "child-disposed"}
  BY <1>1 DEF Linked
<1>3. PICK f \in Frames : f = Child("child-disposed", a)
  BY FrameType, Limits DEF Types
<1>4. f.agent = a /\ f.type = "child-disposed" /\ Send(<<f>>)
  BY <1>2, <1>3, Fields DEF DisposalEnds
<1>5. \A b \in Agents : child'[b] = IF b = a THEN "reaped" ELSE child[b]
  BY <1>2 DEF DisposalEnds, Base, TypeOK, TypeKids
<1>6. UNCHANGED <<toHost, worker, ready, result, asked, ledger, call, announced, live, journal>>
  BY DEF DisposalEnds, status, worker, ledger
<1>7. ProviderSays(a)
  BY <1>2, <1>5, <1>6 DEF ProviderSays
<1>8. ASSUME Sent(a)' \subseteq Sent(a) \cup {"child-disposed"} PROVE Linked(a)'
  <2>1. /\ Posted(a)' = {} /\ child'[a] = "reaped" /\ result'[a] = result[a] /\ call'[a] = "disposing"
        /\ a \in asked'
    BY <1>2, <1>5, <1>6 DEF Posted
  <2>2. /\ "child-settled" \in Sent(a)' => result[a] = "settled"
        /\ "child-failed" \in Sent(a)' => result[a] = "failed"
        /\ Sent(a)' \subseteq {"child-settled", "child-failed", "child-disposed"}
    BY <1>1, <1>2, <1>8 DEF Linked
  <2> QED
    BY <2>1, <2>2 DEF Linked
<1> QED
  BY <1>2, <1>4, <1>6, <1>7, <1>8, ProviderAccord DEF FromHost

LEMMA ProviderKeepsAccord == ASSUME Base, Provider PROVE Accord'
BY ResolvesAccord, ChildEndsAccord, DisposalAccord DEF Provider

-----------------------------------------------------------------------------
(* The other steps say nothing about an agent, or close the host's admission. *)
LEMMA AloneAccord ==
  ASSUME Base, HostSame, UNCHANGED <<call, toHost, ordinal, script, stopping>>,
         \/ toWorker' \in {toWorker, <<>>}
         \/ \E t \in {"go", "resume", "scratch-written"} : Send(<<Frame(t)>>)
  PROVE  Accord'
<1>1. WorkerPort /\ toWorker \in Seq(Frames)
  BY DEF Base, Accord, TypeOK, TypePorts
<1>2. CASE toWorker' = toWorker
  <2>1. WorkerPort' /\ \A a \in Agents : Sent(a)' \subseteq Sent(a)
    BY <1>1, <1>2 DEF WorkerPort, OnlyOnce, Sent
  <2> QED
    BY <2>1, QuietAccord
<1>3. CASE toWorker' = <<>>
  <2>1. WorkerPort' /\ \A a \in Agents : Sent(a)' \subseteq Sent(a)
    BY <1>1, <1>3 DEF WorkerPort, OnlyOnce, Sent
  <2> QED
    BY <2>1, QuietAccord
<1>4. ASSUME NEW t \in {"go", "resume", "scratch-written"}, Send(<<Frame(t)>>) PROVE Accord'
  <2>1. PICK f \in Frames : f = Frame(t)
    BY FrameType, Limits DEF Types
  <2>2. f.type = t /\ f.agent = 0 /\ Send(<<f>>)
    BY <1>4, <2>1, Fields
  <2>3. WorkerPort'
    BY <1>1, <2>2, SentPort DEF FromHost
  <2>4. \A a \in Agents : Sent(a)' \subseteq Sent(a)
    BY <1>1, <2>2, SentAdds, Limits
  <2> QED
    BY <2>3, <2>4, QuietAccord
<1> QED
  BY <1>2, <1>3, <1>4

LEMMA AlonesAccord ==
  ASSUME Base, Release \/ Resume \/ ScratchDone \/ WorkerDies
  PROVE  Accord'
<1>1. HostSame /\ UNCHANGED <<call, toHost, ordinal, script, stopping>>
  BY DEF Release, Resume, ScratchDone, WorkerDies, HostSame, status, worker
<1>2. \/ toWorker' \in {toWorker, <<>>}
      \/ \E t \in {"go", "resume", "scratch-written"} : Send(<<Frame(t)>>)
  BY DEF Release, Resume, ScratchDone, WorkerDies
<1> QED
  BY <1>1, <1>2, AloneAccord

LEMMA ClosingSteps ==
  ASSUME TypeOK, Control, Open,
         \/ Cancel \/ Dispose \/ Timers
         \/ WorkerErrors \/ WorkerExits \/ ScratchFails \/ SettleAfterScratch
  PROVE  ~Open'
<1>1. /\ ~cancelled /\ ~claimed /\ ~death /\ outcome = "none" /\ ~gone /\ pendingResult = "none"
      /\ disposal = "none"
  BY DEF Open, Control, TerminalState, DisposeState, TypeOK, TypeStatus
<1>2. CASE Cancel \/ Dispose
  BY <1>1, <1>2 DEF Cancel, Dispose, CancelRun, Cancellable, Open
<1>3. CASE Timers
  BY <1>1, <1>3 DEF Timers, GraceExpires, DisposeGoesOn, DisposeEnds, Open
<1>4. CASE WorkerErrors \/ WorkerExits
  BY <1>4 DEF WorkerErrors, WorkerExits, WorkerDeath, Open
<1>5. CASE ScratchFails
  BY <1>1, <1>5 DEF ScratchFails, WorkerDeath, Open
<1>6. CASE SettleAfterScratch
  BY <1>1, <1>6 DEF SettleAfterScratch
<1> QED
  BY <1>2, <1>3, <1>4, <1>5, <1>6

(* What was cancelled, dead or claimed stays so, and only a frame accuses. *)
LEMMA Closed ==
  ASSUME TypeOK, [Next]_vars
  PROVE  /\ cancelled => cancelled'
         /\ ~Open => ~Open'
         /\ ~HostReceives => accused' = accused
<1> DEFINE Goal == /\ cancelled => cancelled'
                   /\ ~Open => ~Open'
                   /\ ~HostReceives => accused' = accused
<1>1. ASSUME UNCHANGED status PROVE Goal
  BY <1>1 DEF status, Open
<1>2. CASE UNCHANGED vars
  BY <1>1, <1>2 DEF vars
<1>3. CASE Script \/ WorkerReceives \/ Provider
  <2>1. UNCHANGED status
    BY <1>3 DEF Script, CallAgent, CallLog, CallHook, ScriptEnds, WorkerReceives, Provider, StartResolves,
                StartRejects, DisposalEnds, ChildEnds
  <2> QED
    BY <1>1, <2>1
<1>4. CASE HostReceives
  <2>1. (cancelled => cancelled') /\ (~Open => ~Open')
    BY <1>4 DEF HostReceives, status, WorkerDeath, OnReady, OnGate, OnAgentStart, OnAgentEnd,
                OnJournalCommit, OnScratchWrite, OnChildStart, OnChildDispose, OnResult, Open
  <2> QED
    BY <1>4, <2>1
<1>5. CASE Handle
  BY <1>5 DEF Handle, Release, Resume, Cancel, Dispose, CancelRun, status, Open
<1>6. CASE Timers \/ Thread
  BY <1>6 DEF Timers, GraceExpires, DisposeGoesOn, DisposeEnds, Thread, WorkerDies, WorkerErrors, WorkerExits,
              WorkerDeath, status, Open
<1>7. CASE Effects
  BY <1>7 DEF Effects, ScratchDone, ScratchFails, SettleAfterScratch, WorkerDeath, status, Open
<1> QED
  BY <1>2, <1>3, <1>4, <1>5, <1>6, <1>7 DEF Next

LEMMA AccordInit == Init => AccordInv
<1> SUFFICES ASSUME Init PROVE AccordInv
  OBVIOUS
<1>1. /\ toHost = <<Frame("ready")>> /\ toWorker = <<>> /\ journal = <<>> /\ ~ready /\ ~stopping
      /\ call = [a \in Agents |-> "idle"] /\ child = [a \in Agents |-> "none"]
      /\ result = [a \in Agents |-> "pending"] /\ asked = {} /\ announced = {} /\ live = {}
      /\ ordinal = 0 /\ ~accused
  BY DEF Init
<1>2. DOMAIN toHost = {1} /\ toHost[1].type = "ready" /\ toHost[1].agent = 0
  BY <1>1, Fields
<1>3. \A a \in Agents : Posted(a) = {} /\ Sent(a) = {} /\ a # 0
  BY <1>1, <1>2, Limits DEF Posted, Sent
<1>4. HostPort /\ WorkerPort
  BY <1>1, <1>2 DEF HostPort, ReadyFirst, InOrder, StartsInOrder, FromWorker, WorkerPort, OnlyOnce
<1>5. CommitOrder
  <2>1. CommitFrames = {}
    BY <1>2 DEF CommitFrames
  <2> QED
    BY <1>1, <2>1 DEF CommitOrder
<1>6. Counts
  <2>1. Slots = {} /\ Queued = {} /\ Started = 0 /\ HostStarted = 0
    <3>1. /\ {a \in Agents : call[a] # "idle"} = {} /\ {a \in Agents : child[a] # "none"} = {}
          /\ Slots = {} /\ Queued = {}
      BY <1>1 DEF Slots, Queued
    <3> QED
      BY <3>1, FS_EmptySet DEF Started, HostStarted
  <2>2. Cardinality(Slots) = 0 /\ MaxConcurrent \in Nat
    BY <2>1, FS_EmptySet, EngineAssumption
  <2>3. \A a \in Agents : ~(a <= 0)
    BY Limits DEF Agents
  <2> QED
    BY <1>1, <2>1, <2>2, <2>3 DEF Counts
<1>7. ResultCounts /\ EndsTell
  BY <1>2 DEF ResultCounts, EndsTell, OnPort
<1>8. \A a \in Agents : Linked(a)
  BY <1>1, <1>3 DEF Linked, Unheard, Committed
<1> QED
  BY <1>1, <1>4, <1>5, <1>6, <1>7, <1>8 DEF AccordInv, NeverAccused, Accord

LEMMA AccordStep == TypeOK /\ Control /\ AccordInv /\ [Next]_vars => AccordInv'
<1> SUFFICES ASSUME TypeOK, Control, AccordInv, [Next]_vars PROVE AccordInv'
  OBVIOUS
<1>1. CASE ~Open
  <2>1. ~Open' /\ (cancelled => cancelled')
    BY <1>1, Closed
  <2>2. accused' => accused \/ cancelled
    <3>1. CASE HostReceives
      BY <1>1, <3>1 DEF HostReceives, Open, status
    <3>2. CASE ~HostReceives
      BY <3>2, Closed
    <3> QED
      BY <3>1, <3>2
  <2> QED
    BY <2>1, <2>2 DEF AccordInv, NeverAccused
<1>2. CASE Open
  <2>1. Base
    BY <1>2 DEF Base, AccordInv
  <2>2. accused' = accused /\ (cancelled => cancelled')
    BY <2>1, HostAccord, Closed
  <2>3. Open' => Accord'
    <3>1. CASE UNCHANGED vars
      <4>1. HostSame /\ UNCHANGED <<call, toHost, ordinal, script, stopping, toWorker>>
        BY <3>1 DEF vars, ports, worker, status, HostSame
      <4> QED
        BY <2>1, <4>1, AloneAccord
    <3>2. CASE Script \/ WorkerReceives \/ HostReceives \/ Provider
      BY <2>1, <3>2, ScriptAccord, WorkerAccord, HostAccord, ProviderKeepsAccord
    <3>3. CASE Handle \/ Timers \/ Thread \/ Effects
      BY <1>2, <2>1, <3>3, AlonesAccord, ClosingSteps DEF Handle, Thread, Effects
    <3> QED
      BY <3>1, <3>2, <3>3 DEF Next
  <2> QED
    BY <2>2, <2>3 DEF AccordInv, NeverAccused
<1> QED
  BY <1>1, <1>2

(* For every number of agents, slots and hook calls, and wherever the worker
   dies: unless the run was cancelled, onRawMessage never finds a protocol
   violation in what a worker that runs this session code posts. *)
THEOREM HonestWorkersAreNeverAccused == Spec => []NeverAccused
<1>1. Init => Control
  BY InvInit
<1>2. Spec => [](TypeOK /\ Control /\ Paired /\ DisposeIsComplete)
  BY Inductive
<1>3. TypeOK /\ Control /\ AccordInv /\ [Next]_vars => AccordInv'
  BY AccordStep
<1>4. AccordInv => NeverAccused
  BY DEF AccordInv
<1> QED
  BY <1>2, <1>3, <1>4, AccordInit, PTL DEF Spec
=============================================================================
