------------------------------- MODULE Replay -------------------------------
(***************************************************************************)
(* Attempts of one logical run and the journal that carries a run from one *)
(* attempt to the next: the script's hooks (runtime.ts), the host's ledger *)
(* (host.ts), and the checkpoint the supervisor keeps between them.        *)
(*                                                                         *)
(* A program is a panel of branches.  Thunks are sequences of hook calls;  *)
(* with `panel` every branch is one declarative job, which is one agent    *)
(* call whose budget is reserved with the others.  A call's identity is    *)
(* its branch and its place there.  Calls are "agent", "note" (phase and   *)
(* log: no wait), "gate" (await_user, the scratch hooks: a wait and no     *)
(* budget) and "complete".                                                 *)
(***************************************************************************)
EXTENDS Integers, Sequences, FiniteSets, SequencesExt

CONSTANTS
  Branches,    \* branches of the panel, 1 .. n
  Programs,    \* the scripts of this instance
  MaxBudget,   \* the largest agent_budget
  MaxAttempts  \* bound: attempts of the run

ASSUME ReplayAssumption ==
  /\ IsFiniteSet(Branches) /\ Branches = 1 .. Cardinality(Branches)
  /\ MaxBudget \in Nat /\ MaxAttempts \in Nat \ {0}
  /\ \A p \in Programs :
       /\ p.panel \in BOOLEAN
       /\ \A b \in Branches : p.body[b] \in Seq({"agent", "note", "gate", "complete"})
       /\ p.panel => \A b \in Branches : p.body[b] = <<"agent">>

VARIABLES
  prog, attempt, budget, \* the immutable script; the attempt; its agent_budget
  status,                \* the run, as the supervisor shows it
  checkpoint,            \* what the last attempts left: journal, spend, seq
  \* the worker
  opened,                \* parallel() was called
  next,                  \* nextNode of each branch's scope
  turn,                  \* branches whose next microtask is queued
  call,                  \* what each branch awaits
  seq,                   \* the member sequence of its agent call
  reservation,           \* the branches whose reservation is available
  replayed,              \* replayedJournalCallIds
  started, nextSeq,      \* budget spent and sequences issued
  ordinal,               \* nextJournalOrdinal
  ended,                 \* drive() settled
  \* the port and the host
  wire,                  \* frames on their way to the host
  journal,               \* the journal with this attempt's commits
  cancelled,             \* cancelReason is set: a Pause
  hostStarted, children, \* accepted starts; branches whose child runs
  announced,             \* announcedAgentSeqs
  accused,               \* a frame was refused as a protocol violation
  \* history
  launched,              \* every child that was started: [id, seq]
  finished               \* this attempt called complete()

worker == <<opened, next, turn, call, seq, reservation, replayed, started, nextSeq, ordinal, ended>>
host   == <<journal, cancelled, hostStarted, children, announced, accused>>
run    == <<prog, attempt, budget, status, checkpoint>>
vars   == <<run, worker, wire, host, launched, finished>>
-----------------------------------------------------------------------------
Larger(m, n) == IF m > n THEN m ELSE n
Largest(S)   == CHOOSE n \in S : \A m \in S : m <= n
Ids(log)     == {e.id : e \in Range(log)}
AgentEntries(log) == {e \in Range(log) : e.seq > 0}

Id(b)   == <<b, next[b] + 1>>
Kind(b) == IF next[b] < Len(prog.body[b]) THEN prog.body[b][next[b] + 1] ELSE "return"

(* The constructor of WorkflowExecution and of WorkerRun. *)
Fresh(c) ==
  /\ opened' = FALSE /\ ended' = FALSE /\ finished' = FALSE /\ turn' = <<>> /\ wire' = <<>>
  /\ next' = [b \in Branches |-> 0] /\ seq' = [b \in Branches |-> 0]
  /\ call' = [b \in Branches |-> "none"] /\ reservation' = {} /\ replayed' = {}
  /\ started' = Larger(c.spend, Cardinality(AgentEntries(c.journal)))
  /\ nextSeq' = Largest({c.seq, started'} \cup {e.seq : e \in AgentEntries(c.journal)})
  /\ ordinal' = Len(c.journal)
  /\ journal' = c.journal /\ cancelled' = FALSE /\ hostStarted' = 0 /\ children' = {}
  /\ announced' = {} /\ accused' = FALSE

Init ==
  /\ prog \in Programs /\ attempt = 1 /\ budget \in 0 .. MaxBudget /\ status = "running"
  /\ checkpoint = [journal |-> <<>>, spend |-> 0, seq |-> 0]
  /\ opened = FALSE /\ ended = FALSE /\ finished = FALSE /\ turn = <<>> /\ wire = <<>>
  /\ next = [b \in Branches |-> 0] /\ seq = [b \in Branches |-> 0]
  /\ call = [b \in Branches |-> "none"] /\ reservation = {} /\ replayed = {}
  /\ started = 0 /\ nextSeq = 0 /\ ordinal = 0
  /\ journal = <<>> /\ cancelled = FALSE /\ hostStarted = 0 /\ children = {}
  /\ announced = {} /\ accused = FALSE
  /\ launched = {}
-----------------------------------------------------------------------------
(* The worker. *)

Frame(type, id, n, how) == [type |-> type, id |-> id, n |-> n, how |-> how, seq |-> 0]
Commit(id, n, s)  == [Frame("commit", id, n, "") EXCEPT !.seq = s]
Start(b, s)       == [Frame("child-start", Id(b), 0, "") EXCEPT !.seq = s]
Announce(b)       == [Frame("agent-start", <<b, next[b]>>, 0, "") EXCEPT !.seq = seq[b]]
Result(how, n)    == Frame("result", <<0, 0>>, n, how)

Working == status = "running" /\ ~ended
Drive(how, spent) == ended' = TRUE /\ turn' = <<>> /\ wire' = Append(wire, Result(how, spent))

(* unreplayedJournalError *)
Missed == Ids(checkpoint.journal) \ replayed
CompletedResult == IF Missed = {} THEN "completed" ELSE "diverged"

(* Mutant: the jobs of a panel are not counted ahead. *)
NoneCounted == {}
Unreplayed == {b \in Branches : <<b, 1>> \notin Ids(checkpoint.journal)}

(* parallel(): a panel of jobs is looked up and reserved as one. *)
OpenPanel ==
  /\ Working /\ ~opened /\ opened' = TRUE
  /\ LET jobs == IF prog.panel THEN Unreplayed ELSE {} IN
     /\ replayed' = IF prog.panel THEN {<<b, 1>> : b \in Branches \ Unreplayed} ELSE {}
     /\ \/ /\ started + Cardinality(jobs) > budget
           /\ Drive("cap", started) /\ UNCHANGED <<started, reservation>>
        \/ /\ started + Cardinality(jobs) <= budget
           /\ started' = started + Cardinality(jobs) /\ reservation' = jobs
           /\ turn' = [i \in 1 .. Cardinality(Branches) |-> i] /\ UNCHANGED <<ended, wire>>
  /\ UNCHANGED <<run, next, call, seq, nextSeq, ordinal, host, launched, finished>>

Claim(b) == next' = [next EXCEPT ![b] = @ + 1]

(* replayEntry *)
Replays(b) == Id(b) \in Ids(checkpoint.journal)

(* A committed call returns what the journal holds; its branch goes on in a
   later microtask, or at once after a phase() or log(). *)
ReplayCall(b) ==
  /\ Kind(b) \in {"agent", "note", "gate"} /\ Replays(b)
  /\ Claim(b) /\ replayed' = replayed \cup {Id(b)}
  /\ turn' = IF Kind(b) = "note" THEN turn ELSE Append(Tail(turn), b)
  /\ UNCHANGED <<call, seq, reservation, started, nextSeq, ordinal, ended, wire, finished>>
Note(b) ==
  /\ Kind(b) = "note" /\ ~Replays(b)
  /\ Claim(b) /\ ordinal' = ordinal + 1 /\ wire' = Append(wire, Commit(Id(b), ordinal + 1, 0))
  /\ UNCHANGED <<turn, call, seq, reservation, replayed, started, nextSeq, ended, finished>>
Gate(b) ==
  /\ Kind(b) = "gate" /\ ~Replays(b)
  /\ Claim(b) /\ call' = [call EXCEPT ![b] = "gate"] /\ turn' = Tail(turn)
  /\ UNCHANGED <<seq, reservation, replayed, started, nextSeq, ordinal, ended, wire, finished>>
(* spendAgentBudget, and the start that follows it. *)
Agent(b) ==
  /\ Kind(b) = "agent" /\ ~Replays(b)
  /\ b \in reservation \/ started < budget
  /\ Claim(b) /\ reservation' = reservation \ {b}
  /\ started' = IF b \in reservation THEN started ELSE started + 1
  /\ nextSeq' = nextSeq + 1 /\ seq' = [seq EXCEPT ![b] = nextSeq + 1]
  /\ call' = [call EXCEPT ![b] = "start"] /\ turn' = Tail(turn)
  /\ wire' = Append(wire, Start(b, nextSeq + 1))
  /\ UNCHANGED <<replayed, ordinal, ended, finished>>
(* AGENT_CAP is fatal: it ends the panel and with it the script. *)
AgentCap(b) ==
  /\ Kind(b) = "agent" /\ ~Replays(b) /\ b \notin reservation /\ started >= budget
  /\ Drive("cap", started)
  /\ UNCHANGED <<next, call, seq, reservation, replayed, started, nextSeq, ordinal, finished>>
Complete(b) ==
  /\ Kind(b) = "complete" /\ finished' = TRUE
  /\ Drive(CompletedResult, started)
  /\ UNCHANGED <<next, call, seq, reservation, replayed, started, nextSeq, ordinal>>
(* The branch returns; the last one ends the script. *)
Return(b) ==
  /\ Kind(b) = "return"
  /\ IF \A d \in Branches : d = b \/ call[d] = "returned"
     THEN Drive(CompletedResult, started) ELSE turn' = Tail(turn) /\ UNCHANGED <<ended, wire>>
  /\ call' = [call EXCEPT ![b] = "returned"]
  /\ UNCHANGED <<next, seq, reservation, replayed, started, nextSeq, ordinal, finished>>
Step ==
  /\ Working /\ turn # <<>>
  /\ LET b == Head(turn) IN
       ReplayCall(b) \/ Note(b) \/ Gate(b) \/ Agent(b) \/ AgentCap(b) \/ Complete(b) \/ Return(b)
  /\ UNCHANGED <<run, opened, host, launched>>

(* Answers of the host, each an event between microtasks. *)
Answered(b, from, to) == Working /\ turn = <<>> /\ call[b] = from /\ call' = [call EXCEPT ![b] = to]
ChildStarted(b) ==
  /\ Answered(b, "start", "child") /\ b \in children
  /\ wire' = Append(wire, Announce(b))
  /\ UNCHANGED <<run, opened, next, turn, seq, reservation, replayed, started, nextSeq, ordinal, ended,
                 host, launched, finished>>
ChildSettled(b) ==
  /\ Answered(b, "child", "dispose") /\ children' = children \ {b}
  /\ ordinal' = ordinal + 1 /\ wire' = Append(wire, Commit(<<b, next[b]>>, ordinal + 1, seq[b]))
  /\ UNCHANGED <<run, opened, next, turn, seq, reservation, replayed, started, nextSeq, ended,
                 journal, cancelled, hostStarted, announced, accused, launched, finished>>
ChildDisposed(b) ==
  /\ Answered(b, "dispose", "none") /\ turn' = <<b>>
  /\ UNCHANGED <<run, opened, next, seq, reservation, replayed, started, nextSeq, ordinal, ended, wire,
                 host, launched, finished>>
GateOpens(b) ==
  /\ Answered(b, "gate", "none") /\ turn' = <<b>>
  /\ ordinal' = ordinal + 1 /\ wire' = Append(wire, Commit(<<b, next[b]>>, ordinal + 1, 0))
  /\ UNCHANGED <<run, opened, next, seq, reservation, replayed, started, nextSeq, ended, host, launched, finished>>
(* The cancel frame: every hook throws from here on. *)
Cancelled ==
  /\ Working /\ turn = <<>> /\ cancelled
  /\ Drive("cancelled", started)
  /\ UNCHANGED <<run, opened, next, call, seq, reservation, replayed, started, nextSeq, ordinal, host, launched, finished>>
-----------------------------------------------------------------------------
(* The host. *)

InitialSeq == checkpoint.seq
Observed   == checkpoint.spend + hostStarted

Violation(m) ==
  \/ m.type = "child-start" /\ Observed >= budget
  \/ m.type = "agent-start" /\ ~cancelled /\ m.seq \notin InitialSeq + 1 .. InitialSeq + hostStarted
  \/ m.type = "commit" /\ ~cancelled /\ (m.n # Len(journal) + 1 \/ m.id \in Ids(journal))
  \/ m.type = "result" /\ m.n \notin Observed .. budget

OnChildStart(m) ==
  /\ IF cancelled THEN UNCHANGED <<hostStarted, children, launched>>
     ELSE /\ hostStarted' = hostStarted + 1 /\ children' = children \cup {m.id[1]}
          /\ launched' = launched \cup {[id |-> m.id, seq |-> m.seq]}
  /\ UNCHANGED <<journal, announced>>
OnAgentStart(m) ==
  /\ announced' = IF cancelled THEN announced ELSE announced \cup {m.seq}
  /\ UNCHANGED <<journal, hostStarted, children, launched>>
Entry(m) == [id |-> m.id, ordinal |-> m.n, seq |-> m.seq]
(* Mutant: only an agent's commit is dropped when a Pause overtook it. *)
OnCommitLoosely(m) ==
  /\ journal' = IF cancelled /\ m.seq > 0 THEN journal ELSE Append(journal, Entry(m))
  /\ UNCHANGED <<hostStarted, children, announced, launched>>
(* onJournalCommit *)
OnCommit(m) ==
  /\ journal' = IF cancelled THEN journal ELSE Append(journal, Entry(m))
  /\ UNCHANGED <<hostStarted, children, announced, launched>>

(* Mutant: the host's own count of accepted starts is left out. *)
SpentAsReported(reported) == Larger(checkpoint.spend, reported)
Spent(reported) == Larger(Observed, reported)
(* checkpoint() *)
Checkpoint(spend) ==
  [journal |-> journal, spend |-> spend,
   seq |-> Largest({spend, InitialSeq, InitialSeq + spend - checkpoint.spend} \cup announced
                   \cup {e.seq : e \in AgentEntries(journal)})]

(* acceptCheckpoint: a journal that grew, its calls and members distinct,
   and counters that cover it and never fall. *)
Acceptable(c) ==
  /\ IsPrefix(checkpoint.journal, c.journal) /\ IsInjective([i \in DOMAIN c.journal |-> c.journal[i].id])
  /\ \A i \in DOMAIN c.journal : c.journal[i].ordinal = i
  /\ \A d, e \in AgentEntries(c.journal) : d.seq = e.seq => d = e
  /\ c.spend >= Cardinality(AgentEntries(c.journal)) /\ \A e \in AgentEntries(c.journal) : c.seq >= e.seq
  /\ c.spend >= checkpoint.spend /\ c.seq >= checkpoint.seq

(* The attempt was disposed of; settleAttempt and pause() take what it left. *)
Settle(how, reported) ==
  LET c == Checkpoint(Spent(reported)) IN
  /\ checkpoint' = IF Acceptable(c) THEN c ELSE checkpoint
  /\ status' = CASE ~Acceptable(c) -> "failed"
                 [] Acceptable(c) /\ cancelled -> "paused"
                 [] Acceptable(c) /\ ~cancelled /\ how = "cap" -> "budget-limited"
                 [] Acceptable(c) /\ ~cancelled /\ how = "completed" -> "completed"
                 [] OTHER -> "failed"

Receive ==
  /\ status = "running" /\ wire # <<>> /\ wire' = Tail(wire)
  /\ LET m == Head(wire) IN
     \/ /\ Violation(m) /\ accused' = TRUE /\ Settle("error", 0)
        /\ UNCHANGED <<journal, hostStarted, children, announced, launched>>
     \/ /\ ~Violation(m)
        /\ \/ m.type = "result" /\ Settle(m.how, m.n)
              /\ UNCHANGED <<journal, hostStarted, children, announced, launched>>
           \/ /\ \/ m.type = "child-start" /\ OnChildStart(m)
                 \/ m.type = "agent-start" /\ OnAgentStart(m)
                 \/ m.type = "commit" /\ OnCommit(m)
              /\ UNCHANGED <<status, checkpoint>>
        /\ UNCHANGED accused
  /\ UNCHANGED <<prog, attempt, budget, worker, cancelled, finished>>

(* Pause: the attempt is cancelled; the grace timer bounds the wait. *)
Pause ==
  /\ status = "running" /\ ~cancelled /\ cancelled' = TRUE
  /\ UNCHANGED <<run, worker, wire, journal, hostStarted, children, announced, accused, launched, finished>>
GraceExpires ==
  /\ status = "running" /\ cancelled /\ Settle("cancelled", 0)
  /\ UNCHANGED <<prog, attempt, budget, worker, wire, host, launched, finished>>

(* Resume: createAttempt; past the budget only with a larger one. *)
Resume ==
  /\ attempt < MaxAttempts /\ attempt' = attempt + 1
  /\ \/ status = "paused" /\ UNCHANGED budget
     \/ status = "budget-limited" /\ budget' \in budget + 1 .. MaxBudget
  /\ status' = "running" /\ Fresh(checkpoint)
  /\ UNCHANGED <<prog, checkpoint, launched>>
-----------------------------------------------------------------------------
Answers(b) == ChildStarted(b) \/ ChildSettled(b) \/ ChildDisposed(b) \/ GateOpens(b)
Next == \/ OpenPanel \/ Step \/ Cancelled \/ Receive \/ Pause \/ GraceExpires \/ Resume
        \/ \E b \in Branches : Answers(b)

Spec == Init /\ [][Next]_vars
-----------------------------------------------------------------------------
(* Whatever was interrupted, a resumed attempt finds every call the journal
   holds, and the host finds the worker's counts and orders its own. *)
ReplayAgrees == status # "failed" /\ ~accused

(* A member sequence is given to one child of the run only, a call that the
   journal holds is not made again, and a run is charged for each child it
   started and for no more than its budget. *)
PaidOnce ==
  /\ \A l, m \in launched : l.seq = m.seq => l = m
  /\ \A l \in launched, e \in Range(journal) : l.id = e.id => l.seq <= e.seq
  /\ status # "running" => Cardinality(launched) <= checkpoint.spend /\ checkpoint.spend <= budget

(* Jobs of one panel are admitted together: none is started by an attempt
   that could not afford all it had to start. *)
PanelIsAtomic ==
  prog.panel /\ status = "budget-limited" => hostStarted = 0

(* Requirement 3.6: complete(value) "SHALL settle the run successfully". *)
CompleteSettles == finished => status # "failed"
=============================================================================
