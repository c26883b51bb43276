---------------------------- MODULE RunRecorder ----------------------------
(***************************************************************************)
(* The recorder (src/run-recorder.ts), which copies the lifecycle of a     *)
(* launched run into the transcript of its Session.  The supervisor        *)
(* (supervisor/index.ts) commits a change and then publishes its events,   *)
(* one operation of the run at a time; here its members start and end in   *)
(* any order.  The recorder may be reloaded at any moment, its process may *)
(* die, and an append to the Session may throw.                            *)
(***************************************************************************)
EXTENDS Integers, Sequences, FiniteSets, SequencesExt

CONSTANTS
  MaxMembers,
  MaxReloads,  \* bound: recorders and Agents started over the Session, crashes
  MaxFailures  \* bound: appends and commits that fail

VARIABLES
  row,         \* supervisor: the run is "none", "live" or "ended" in run.head
  details,     \* supervisor: the members of run.detail
  committed,   \* store: the members of the last commit
  operation,   \* supervisor: where the run's operation stands
  lifecycle,   \* supervisor: the events it has still to publish
  crashed,     \* the supervisor only knows the run from the store
  frame,       \* launch(): its attribution, "none", "waiting", "orphaned", "named"
  recorder,    \* its life: "up", "stopping", "down"
  record,      \* recorder: active.get(runId), [on, started, open]
  recovering,  \* recorder: record.recovering
  buffered,    \* recorder: record.pending
  recovery,    \* recorder: where reconcile() stands
  snapshot,    \* recorder: what recordingSnapshot answered
  recorded,    \* Session: the events of this run
  reloads, failures

supervisorVars == <<row, details, committed, operation, lifecycle, crashed>>
recorderVars   == <<recorder, record, recovering, buffered, recovery, snapshot>>
recordVars     == <<supervisorVars, frame, recorderVars, recorded, reloads, failures>>
-----------------------------------------------------------------------------
Members == 1 .. MaxMembers
Evt(kind, m) == [kind |-> kind, m |-> m]
RunStart == Evt("run-start", 0)
RunEnd   == Evt("run-end", 0)
InOrder(kind, S) == LET s == SetToSortSeq(S, <) IN [i \in DOMAIN s |-> Evt(kind, s[i])]
Told(kind) == {recorded[i].m : i \in {j \in DOMAIN recorded : recorded[j].kind = kind}}

NoRecord == [on |-> FALSE, started |-> {}, open |-> {}]

(* A record and the events it has come to append. *)
Bare(r) == [r |-> r, new |-> <<>>]
Disabled(acc) == [acc EXCEPT !.r = NoRecord]
(* Mutant: a second start of a member is not refused. *)
StartsAgain(acc, m) ==
  [r |-> [acc.r EXCEPT !.started = @ \cup {m}, !.open = @ \cup {m}], new |-> Append(acc.new, Evt("agent-start", m))]
AppendMemberStart(acc, m) ==
  IF m \in acc.r.started THEN Disabled(acc)
  ELSE [r |-> [acc.r EXCEPT !.started = @ \cup {m}, !.open = @ \cup {m}], new |-> Append(acc.new, Evt("agent-start", m))]
AppendMemberEnd(acc, m) ==
  IF m \notin acc.r.open THEN Disabled(acc)
  ELSE [r |-> [acc.r EXCEPT !.open = @ \ {m}], new |-> Append(acc.new, Evt("agent-end", m))]
AppendRunEnd(acc) ==
  IF acc.r.open # {} THEN Disabled(acc) ELSE [r |-> NoRecord, new |-> Append(acc.new, RunEnd)]

(* An event as it comes. *)
Live(acc, e) ==
  CASE ~acc.r.on -> acc
    [] acc.r.on /\ e.kind = "agent-start" -> AppendMemberStart(acc, e.m)
    [] acc.r.on /\ e.kind = "agent-end" -> AppendMemberEnd(acc, e.m)
    [] acc.r.on /\ e.kind = "run-end" -> AppendRunEnd(acc)
(* An event that the record may already have: activate, reconcileSnapshot. *)
Known(acc, e) ==
  CASE ~acc.r.on -> acc
    [] acc.r.on /\ e.kind = "agent-start" -> IF e.m \in acc.r.started THEN acc ELSE AppendMemberStart(acc, e.m)
    [] acc.r.on /\ e.kind = "agent-end" ->
         LET begun == IF e.m \in acc.r.started THEN acc ELSE AppendMemberStart(acc, e.m)
         IN  IF e.m \in begun.r.open THEN AppendMemberEnd(begun, e.m) ELSE begun
    [] acc.r.on /\ e.kind = "run-end" -> AppendRunEnd(acc)

(* append: the first that throws disables the record. *)
Write(acc) ==
  \E n \in 0 .. Len(acc.new) :
    /\ recorded' = recorded \o SubSeq(acc.new, 1, n)
    /\ IF n = Len(acc.new) THEN record' = acc.r /\ UNCHANGED failures
       ELSE record' = NoRecord /\ failures < MaxFailures /\ failures' = failures + 1
-----------------------------------------------------------------------------
(* The supervisor. *)

(* launch() calls start(), which publishes the run. *)
Launch ==
  /\ frame = "none" /\ recorder = "up" /\ ~crashed
  /\ frame' = "waiting"
  /\ UNCHANGED <<supervisorVars, recorderVars, recorded, reloads, failures>>
(* run-start is published in launch()'s frame: onRunStart. *)
RunStarts ==
  /\ frame \in {"waiting", "orphaned"} /\ row = "none" /\ row' = "live"
  /\ IF frame = "orphaned" THEN UNCHANGED <<frame, record, recorded, failures>>
     ELSE /\ frame' = "named"
          /\ Write([r |-> [NoRecord EXCEPT !.on = TRUE], new |-> <<RunStart>>])
  /\ UNCHANGED <<details, committed, operation, lifecycle, crashed, recorder, recovering, buffered, recovery,
                 snapshot, reloads>>
(* start() returns and no event came to the frame: its recorder, and so its record, is gone. *)
LaunchReturns ==
  /\ frame = "orphaned" /\ row # "none" /\ frame' = "named"
  /\ \/ recorded' = Append(recorded, RunStart) /\ UNCHANGED failures
     \/ failures < MaxFailures /\ failures' = failures + 1 /\ UNCHANGED recorded
  /\ UNCHANGED <<supervisorVars, recorderVars, reloads>>

(* One operation of the run's queue: it changes run.detail, commits, publishes. *)
Begin(members, events) ==
  /\ operation = "idle" /\ row = "live" /\ events # <<>>
  /\ operation' = "committing" /\ details' = members /\ lifecycle' = events
  /\ UNCHANGED <<row, committed, crashed, frame, recorderVars, recorded, reloads, failures>>
MemberStarts(m) ==
  /\ details[m] = "none"
  /\ Begin([details EXCEPT ![m] = "running"], <<Evt("agent-start", m)>>)
MemberEnds(m) ==
  /\ details[m] = "running"
  /\ Begin([details EXCEPT ![m] = "ended"], <<Evt("agent-end", m)>>)
Settled(members) == [m \in Members |-> IF members[m] = "running" THEN "ended" ELSE members[m]]
Ends == InOrder("agent-end", {m \in Members : details[m] = "running"})
(* pause and the budget's end settle the members that still run. *)
Parks == Begin(Settled(details), Ends)
Terminalize == Begin(Settled(details), Ends \o <<RunEnd>>)
Commits ==
  /\ operation = "committing"
  /\ \/ /\ operation' = "publishing" /\ committed' = details
        /\ row' = IF RunEnd \in ToSet(lifecycle) THEN "ended" ELSE row
        /\ UNCHANGED <<lifecycle, failures>>
     \/ /\ failures < MaxFailures /\ failures' = failures + 1
        /\ operation' = "idle" /\ lifecycle' = <<>> /\ UNCHANGED <<row, committed>>
  /\ UNCHANGED <<details, crashed, frame, recorderVars, recorded, reloads>>
(* publishLifecycle, and the recorder's listener. *)
Publish ==
  /\ operation = "publishing" /\ lifecycle # <<>>
  /\ lifecycle' = Tail(lifecycle)
  /\ operation' = IF Tail(lifecycle) = <<>> THEN "idle" ELSE operation
  /\ IF recorder = "up" /\ record.on
     THEN IF recovering THEN buffered' = Append(buffered, Head(lifecycle)) /\ UNCHANGED <<record, recorded, failures>>
          ELSE Write(Live(Bare(record), Head(lifecycle))) /\ UNCHANGED buffered
     ELSE UNCHANGED <<record, recorded, buffered, failures>>
  /\ UNCHANGED <<row, details, committed, crashed, frame, recorder, recovering, recovery, snapshot, reloads>>
-----------------------------------------------------------------------------
(* The recorder. *)

(* seed: the run is open in the Session and has no record. *)
Unfinished == RunStart \in ToSet(recorded) /\ RunEnd \notin ToSet(recorded)
Seed ==
  IF Unfinished
  THEN /\ record' = [on |-> TRUE, started |-> Told("agent-start"), open |-> Told("agent-start") \ Told("agent-end")]
       /\ recovering' = TRUE /\ buffered' = <<>> /\ recovery' = "asked"
  ELSE UNCHANGED <<record, recovering, buffered, recovery>>
Construct ==
  /\ recorder = "down" /\ recorder' = "up" /\ Seed
  /\ UNCHANGED <<supervisorVars, frame, snapshot, recorded, reloads, failures>>
(* Another Agent over the same Session. *)
AgentCreated ==
  /\ recorder = "up" /\ ~record.on /\ recovery = "none"
  /\ reloads < MaxReloads /\ reloads' = reloads + 1 /\ Seed
  /\ UNCHANGED <<supervisorVars, frame, recorder, snapshot, recorded, failures>>

(* recordingSnapshot: of the run in memory, or of its row after a restart,
   which recovery has ended or retention has removed since. *)
Ask ==
  /\ recovery = "asked"
  /\ IF recorder # "up" THEN recovery' = "none" /\ UNCHANGED <<snapshot, failures>>
     ELSE /\ recovery' = "answered"
          /\ \/ /\ ~crashed /\ UNCHANGED failures
                /\ snapshot' = [how |-> "found", members |-> details, ended |-> row = "ended"]
             \/ /\ crashed /\ UNCHANGED failures
                /\ \E how \in {"found", "missing"} :
                     snapshot' = [how |-> how, members |-> Settled(committed), ended |-> TRUE]
             \/ /\ crashed /\ failures < MaxFailures /\ failures' = failures + 1
                /\ snapshot' = [snapshot EXCEPT !.how = "failed"]
  /\ UNCHANGED <<supervisorVars, frame, recorder, record, recovering, buffered, recorded, reloads>>

(* reconcileSnapshot: what the record lacks of the snapshot's members. *)
Caught(members) ==
  FoldLeft(Known, Bare(record),
           InOrder("agent-start", {m \in Members : members[m] # "none"}) \o
           InOrder("agent-end", {m \in Members : members[m] = "ended"}))
(* closeOpenMembers, and the end. *)
Closed(acc) == FoldLeft(Known, acc, InOrder("agent-end", acc.r.open) \o <<RunEnd>>)
(* activate *)
Activated(acc) == FoldLeft(Known, acc, buffered)
Reconcile ==
  /\ recovery = "answered" /\ recovery' = "none"
  /\ recovering' = FALSE /\ buffered' = <<>>
  /\ Write(CASE snapshot.how = "missing" -> Closed(Bare(record))
             [] snapshot.how = "failed" -> Activated(Bare(record))
             [] snapshot.how = "found" -> LET acc == Caught(snapshot.members)
                                          IN  IF snapshot.ended THEN Closed(acc) ELSE Activated(acc))
  /\ UNCHANGED <<supervisorVars, frame, recorder, snapshot, reloads>>

(* dispose(): the listeners go at once, the records after the recoveries.  A
   launch's frame is this recorder's: the next one does not see it. *)
RecorderDispose ==
  /\ recorder = "up" /\ recorder' = "stopping"
  /\ reloads < MaxReloads /\ reloads' = reloads + 1
  /\ frame' = IF frame = "waiting" THEN "orphaned" ELSE frame
  /\ UNCHANGED <<supervisorVars, record, recovering, buffered, recovery, snapshot, recorded, failures>>
RecorderGone ==
  /\ recorder = "stopping" /\ recovery = "none"
  /\ recorder' = "down" /\ record' = NoRecord /\ recovering' = FALSE /\ buffered' = <<>>
  /\ UNCHANGED <<supervisorVars, frame, recovery, snapshot, recorded, reloads, failures>>

(* The process dies; the store's recovery ends the row before any plugin starts. *)
Crash ==
  /\ row # "none" /\ reloads < MaxReloads /\ reloads' = reloads + 1
  /\ crashed' = TRUE /\ row' = "ended" /\ operation' = "idle" /\ lifecycle' = <<>> /\ frame' = "named"
  /\ recorder' = "down" /\ record' = NoRecord /\ recovering' = FALSE /\ buffered' = <<>> /\ recovery' = "none"
  /\ UNCHANGED <<details, committed, snapshot, recorded, failures>>

RecordInit ==
  /\ row = "none" /\ details = [m \in Members |-> "none"] /\ committed = details
  /\ operation = "idle" /\ lifecycle = <<>> /\ crashed = FALSE /\ frame = "none"
  /\ recorder = "up" /\ record = NoRecord /\ recovering = FALSE /\ buffered = <<>>
  /\ recovery = "none" /\ snapshot = [how |-> "none", members |-> details, ended |-> FALSE]
  /\ recorded = <<>> /\ reloads = 0 /\ failures = 0
RecordNext ==
  \/ Launch \/ RunStarts \/ LaunchReturns \/ Parks \/ Terminalize \/ Commits \/ Publish
  \/ \E m \in Members : MemberStarts(m) \/ MemberEnds(m)
  \/ Construct \/ AgentCreated \/ Ask \/ Reconcile \/ RecorderDispose \/ RecorderGone \/ Crash
RecordSpec == RecordInit /\ [][RecordNext]_recordVars
-----------------------------------------------------------------------------
(* Whatever reloads, crashes and failures come between, the Session shows a
   legal prefix: one start of the run, first; each member started once and
   ended once, after its start; one end of the run, last, after every member
   has ended and the run's terminal row is committed. *)
LegalPrefix ==
  /\ \A i, j \in DOMAIN recorded : recorded[i] = recorded[j] => i = j
  /\ \A i \in DOMAIN recorded :
       LET e == recorded[i] IN
       /\ i = 1 <=> e = RunStart
       /\ e.kind = "agent-end" => \E j \in 1 .. i - 1 : recorded[j] = Evt("agent-start", e.m)
       /\ e = RunEnd => i = Len(recorded) /\ row = "ended" /\ Told("agent-start") = Told("agent-end")

(* An ended run whose recorder runs and has failed nowhere has its end in the
   Session.  It does not hold: a snapshot shows members, and ends of members,
   whose events are still to come, and the record is disabled when they do. *)
EndIsRecorded ==
  row = "ended" /\ operation = "idle" /\ frame = "named" /\ failures = 0 /\ recorder = "up" /\ recovery = "none"
    => RunEnd \in ToSet(recorded)
=============================================================================
