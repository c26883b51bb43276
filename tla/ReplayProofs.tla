---------------------------- MODULE ReplayProofs ----------------------------
(***************************************************************************)
(* What is proved of the replay of a run, for every program, budget and    *)
(* number of branches and attempts: an inductive invariant of an attempt   *)
(* and of what it leaves to the next (ReplayInv), and from it the three    *)
(* properties of Replay.  The commits of an attempt are its journal and    *)
(* the commit frames under way; most parts speak of both together, so that *)
(* the host's taking a frame changes nothing and its dropping one loses    *)
(* only what the next attempt makes again.                                 *)
(***************************************************************************)
EXTENDS Replay, FiniteSetTheorems, WellFoundedInduction, TLAPS

(* complete() never ends a branch while another has calls (README, section 10). *)
CompletesAlone ==
  \A p \in Programs : \A b \in Branches :
    "complete" \in Range(p.body[b]) => \A d \in Branches \ {b} : p.body[d] = <<>>

-----------------------------------------------------------------------------
Calls       == Branches \X Nat
EntryRecord == [id : Calls, ordinal : Nat, seq : Nat]
CallFrame   == [type : {"commit", "child-start", "agent-start"}, id : Calls, n : Nat, how : {""}, seq : Nat]
ResultFrame == [type : {"result"}, id : {<<0, 0>>}, n : Nat,
                how : {"cap", "completed", "diverged", "cancelled"}, seq : {0}]
FrameRecord == CallFrame \cup ResultFrame
CallStates  == {"none", "start", "child", "dispose", "gate", "returned"}
Statuses    == {"running", "paused", "budget-limited", "completed", "failed"}

TypeOK ==
  /\ prog \in Programs /\ attempt \in Nat /\ budget \in Nat /\ status \in Statuses
  /\ checkpoint \in [journal : Seq(EntryRecord), spend : Nat, seq : Nat]
  /\ opened \in BOOLEAN /\ ended \in BOOLEAN /\ cancelled \in BOOLEAN
  /\ accused \in BOOLEAN /\ finished \in BOOLEAN
  /\ next \in [Branches -> Nat] /\ seq \in [Branches -> Nat]
  /\ call \in [Branches -> CallStates] /\ turn \in Seq(Branches)
  /\ reservation \in SUBSET Branches /\ replayed \in SUBSET Calls
  /\ started \in Nat /\ nextSeq \in Nat /\ ordinal \in Nat /\ hostStarted \in Nat
  /\ wire \in Seq(FrameRecord) /\ journal \in Seq(EntryRecord)
  /\ children \in SUBSET Branches /\ announced \in SUBSET Nat
  /\ launched \in SUBSET [id : Calls, seq : Nat]

-----------------------------------------------------------------------------
Frames(type) == {i \in DOMAIN wire : wire[i].type = type}
KindOf(id)   == prog.body[id[1]][id[2]]
(* A call of the program that its branch can reach. *)
Reachable(id) ==
  /\ id[2] \in 1 .. Len(prog.body[id[1]])
  /\ \A k \in 1 .. id[2] : prog.body[id[1]][k] # "complete"
(* A call was committed, whether or not the host has heard of it. *)
Commits   == Range(journal) \cup {Entry(wire[i]) : i \in Frames("commit")}
Restored  == Range(checkpoint.journal)
Awaiting  == {"start", "child", "gate"}

(* What a journal says of the calls it holds. *)
EntriesInv ==
  /\ \A i \in DOMAIN journal : journal[i].ordinal = i
  /\ \A e \in Commits : Reachable(e.id) /\ (e.seq = 0 <=> KindOf(e.id) # "agent")
  /\ \A d, e \in Commits : d.id = e.id \/ (d.seq = e.seq /\ d.seq > 0) => d = e

(* The checkpoint covers what it holds and what was paid. *)
CheckpointInv ==
  /\ IsPrefix(checkpoint.journal, journal)
  /\ status # "running" => journal = checkpoint.journal
  /\ \A e \in Restored : e.seq <= checkpoint.seq
  /\ Cardinality(AgentEntries(checkpoint.journal)) <= checkpoint.spend
  /\ checkpoint.spend <= checkpoint.seq /\ checkpoint.spend <= budget

(* The frames of each kind arrive in the order of their numbers, without a gap. *)
CommitOrder ==
  /\ Len(journal) <= ordinal
  /\ \A i \in Frames("commit") : wire[i].n \in Len(journal) + 1 .. ordinal
  /\ \A i, j \in Frames("commit") : i < j => wire[i].n < wire[j].n
  /\ ~cancelled => \A n \in Len(journal) + 1 .. ordinal : \E i \in Frames("commit") : wire[i].n = n
Accepted == checkpoint.seq + hostStarted
StartOrder ==
  /\ Accepted <= nextSeq
  /\ \A i \in Frames("child-start") : wire[i].seq \in Accepted + 1 .. nextSeq
  /\ \A i, j \in Frames("child-start") : i < j => wire[i].seq < wire[j].seq
  /\ ~cancelled => \A s \in Accepted + 1 .. nextSeq : \E i \in Frames("child-start") : wire[i].seq = s
ResultInv ==
  \A i \in Frames("result") :
    /\ i = Len(wire) /\ ended /\ wire[i].n = started
    /\ wire[i].how = "cancelled" => cancelled
    /\ wire[i].how = "diverged" => ~CompletesAlone
    /\ wire[i].how = "cap" /\ prog.panel => nextSeq = checkpoint.seq
AnnounceInv ==
  /\ \A i \in Frames("agent-start") : wire[i].seq \in checkpoint.seq + 1 .. Accepted
  /\ \A s \in announced : s <= Accepted

(* What the worker has spent is what was started and what is reserved. *)
BudgetInv ==
  /\ started = checkpoint.spend + (nextSeq - checkpoint.seq) + Cardinality(reservation)
  /\ started <= budget
  /\ ~prog.panel => reservation = {}
  /\ \A b \in reservation : next[b] = 0 /\ <<b, 1>> \notin Ids(checkpoint.journal)
  /\ prog.panel /\ opened /\ ~ended =>
       \A b \in Branches \ reservation : next[b] > 0 \/ <<b, 1>> \in Ids(checkpoint.journal)
  /\ ~opened => /\ reservation = {} /\ nextSeq = checkpoint.seq /\ turn = <<>>
                /\ \A b \in Branches : next[b] = 0 /\ call[b] = "none"

(* Where each branch stands, and what of it is under way. *)
TurnInv ==
  /\ \A i \in DOMAIN turn : call[turn[i]] = "none"
  /\ \A i, j \in DOMAIN turn : turn[i] = turn[j] => i = j
PlaceOK(b) ==
  /\ next[b] <= Len(prog.body[b]) /\ \A k \in 1 .. next[b] : prog.body[b][k] # "complete"
  /\ call[b] = "returned" => next[b] = Len(prog.body[b])
  /\ b \in children => call[b] \in {"start", "child"} /\ seq[b] <= Accepted
  /\ call[b] = "child" => b \in children
AwaitOK(b) ==
  call[b] \in Awaiting => /\ next[b] > 0
                          /\ call[b] = "gate" <=> KindOf(<<b, next[b]>>) # "agent"
                          /\ \A e \in Commits : e.id # <<b, next[b]>>
MemberOK(b) ==
  call[b] \in {"start", "child"} =>
    /\ seq[b] \in checkpoint.seq + 1 .. nextSeq
    /\ \A e \in Commits : e.seq # seq[b]
    /\ \A d \in Branches \ {b} : call[d] \in {"start", "child"} => seq[d] # seq[b]
    /\ \A l \in launched : l.id = <<b, next[b]>> => l.seq <= seq[b]
BranchOK(b) == PlaceOK(b) /\ AwaitOK(b) /\ MemberOK(b)
StartsInv ==
  \A i \in Frames("child-start") :
    LET b == wire[i].id[1] IN
    /\ b \in Branches /\ wire[i].id = <<b, next[b]>> /\ wire[i].seq = seq[b]
    /\ call[b] = "start" /\ b \notin children
BranchInv == TurnInv /\ StartsInv /\ \A b \in Branches : BranchOK(b)

(* What this attempt has committed comes after what it restored. *)
NewCommits ==
  \A e \in Commits \ Restored :
    /\ e.id[2] <= next[e.id[1]]
    /\ e.seq > 0 => e.seq \in checkpoint.seq + 1 .. Accepted
ReplayedInv == \A id \in Ids(checkpoint.journal) : id[2] <= next[id[1]] => id \in replayed

LaunchedInv ==
  /\ \A l, m \in launched : l.seq = m.seq => l = m
  /\ \A l \in launched : KindOf(l.id) = "agent"
  /\ \A l \in launched, e \in Commits : l.id = e.id => l.seq <= e.seq
  /\ \A l \in launched : l.seq <= checkpoint.seq + (IF status = "running" THEN hostStarted ELSE 0)
  /\ IsFiniteSet(launched)
  /\ Cardinality(launched) <= checkpoint.spend + (IF status = "running" THEN hostStarted ELSE 0)

AttemptInv ==
  /\ CommitOrder /\ StartOrder /\ ResultInv /\ AnnounceInv
  /\ BudgetInv /\ BranchInv /\ NewCommits /\ ReplayedInv
ReplayInv ==
  /\ EntriesInv /\ CheckpointInv /\ LaunchedInv /\ PanelIsAtomic
  /\ status = "running" => AttemptInv
  /\ ~accused /\ (status = "failed" => ~CompletesAlone)

-----------------------------------------------------------------------------
(* Lemmas about sequences and the largest number of a set. *)

LEMMA LargestExists ==
  ASSUME NEW m \in Nat, NEW S, S \subseteq 0 .. m, S # {}
  PROVE  Largest(S) \in S /\ \A l \in S : l <= Largest(S)
<1> DEFINE T == {n \in Nat : \E k \in S : n = m - k}
<1>1. T \subseteq Nat /\ T # {}
  <2>1. PICK k \in S : TRUE
    OBVIOUS
  <2>2. m - k \in Nat
    OBVIOUS
  <2> QED
    BY <2>1, <2>2
<1>2. PICK n \in T : \A y \in T : ~(<<y, n>> \in OpToRel(<, Nat))
  BY <1>1, NatLessThanWellFounded, WFMin
<1>3. \A y \in T : ~(y < n)
  BY <1>1, <1>2 DEF OpToRel
<1>4. PICK k \in S : n = m - k
  BY <1>2
<1>5. \A l \in S : m - l \in T
  OBVIOUS
<1>6. \A l \in S : l <= k
  BY <1>3, <1>4, <1>5
<1> QED
  BY <1>4, <1>6 DEF Largest

LEMMA LargestIs ==
  ASSUME NEW S \in SUBSET Nat, NEW n \in S, \A m \in S : m <= n
  PROVE  Largest(S) = n
<1>1. \A k \in S : (\A m \in S : m <= k) => k = n
  OBVIOUS
<1> QED
  BY <1>1 DEF Largest

LEMMA RangeOf ==
  ASSUME NEW S, NEW s \in Seq(S)
  PROVE  /\ Range(s) \subseteq S /\ IsFiniteSet(Range(s))
         /\ \A x : x \in Range(s) <=> \E i \in 1 .. Len(s) : s[i] = x
<1>1. Range(s) = {s[i] : i \in 1 .. Len(s)} /\ Range(s) \subseteq S
  BY DEF Range
<1>2. s \in Surjection(1 .. Len(s), Range(s))
  BY <1>1 DEF Surjection
<1>3. IsFiniteSet(1 .. Len(s))
  BY FS_Interval
<1> QED
  BY <1>1, <1>2, <1>3, FS_Surjection

LEMMA RangeAppend ==
  ASSUME NEW S, NEW s \in Seq(S), NEW x \in S
  PROVE  Range(Append(s, x)) = Range(s) \cup {x}
<1>1. DOMAIN Append(s, x) = 1 .. Len(s) + 1 /\ DOMAIN s = 1 .. Len(s)
  OBVIOUS
<1>2. \A i \in 1 .. Len(s) : Append(s, x)[i] = s[i]
  OBVIOUS
<1>3. Append(s, x)[Len(s) + 1] = x
  OBVIOUS
<1> QED
  BY <1>1, <1>2, <1>3 DEF Range

LEMMA PrefixAppend ==
  ASSUME NEW S, NEW t \in Seq(S), NEW s \in Seq(S), IsPrefix(t, s), NEW x \in S
  PROVE  IsPrefix(t, Append(s, x))
<1>1. Len(t) <= Len(s) /\ SubSeq(t, 1, Len(t)) = SubSeq(s, 1, Len(t))
  BY DEF IsPrefix
<1>2. SubSeq(Append(s, x), 1, Len(t)) = SubSeq(s, 1, Len(t))
  BY <1>1
<1> QED
  BY <1>1, <1>2 DEF IsPrefix

LEMMA PrefixRange ==
  ASSUME NEW S, NEW t \in Seq(S), NEW s \in Seq(S), IsPrefix(t, s)
  PROVE  Range(t) \subseteq Range(s)
<1>1. Len(t) <= Len(s) /\ SubSeq(t, 1, Len(t)) = SubSeq(s, 1, Len(t))
  BY DEF IsPrefix
<1>2. \A i \in 1 .. Len(t) : SubSeq(t, 1, Len(t))[i] = t[i] /\ SubSeq(s, 1, Len(t))[i] = s[i]
  BY <1>1
<1>3. \A i \in 1 .. Len(t) : t[i] = s[i]
  BY <1>1, <1>2
<1> QED
  BY <1>1, <1>3 DEF Range

LEMMA PrefixSelf ==
  ASSUME NEW S, NEW s \in Seq(S)
  PROVE  IsPrefix(s, s)
BY DEF IsPrefix

(* The entries of agents: finitely many, and among those of a prefix. *)
LEMMA AgentsFinite ==
  ASSUME NEW s \in Seq(EntryRecord)
  PROVE  IsFiniteSet(AgentEntries(s)) /\ AgentEntries(s) \subseteq Range(s) /\ Cardinality(AgentEntries(s)) \in Nat
<1>1. AgentEntries(s) \subseteq Range(s)
  BY DEF AgentEntries
<1>2. IsFiniteSet(AgentEntries(s))
  BY <1>1, RangeOf, FS_Subset
<1> QED
  BY <1>1, <1>2, FS_CardinalityType

-----------------------------------------------------------------------------
(* Types. *)

LEMMA BodyTypes ==
  ASSUME TypeOK
  PROVE  /\ prog.panel \in BOOLEAN
         /\ \A b \in Branches : /\ prog.body[b] \in Seq({"agent", "note", "gate", "complete"})
                                /\ Len(prog.body[b]) \in Nat
                                /\ prog.panel => prog.body[b] = <<"agent">>
BY ReplayAssumption DEF TypeOK

LEMMA KindTypes ==
  ASSUME TypeOK, NEW b \in Branches
  PROVE  /\ Kind(b) = "return" => next[b] >= Len(prog.body[b])
         /\ Kind(b) # "return" => /\ next[b] + 1 \in 1 .. Len(prog.body[b])
                                  /\ Kind(b) = prog.body[b][next[b] + 1]
         /\ Kind(b) \in {"agent", "note", "gate", "complete", "return"}
<1>1. prog.body[b] \in Seq({"agent", "note", "gate", "complete"}) /\ next[b] \in Nat /\ Len(prog.body[b]) \in Nat
  BY BodyTypes DEF TypeOK
<1>2. CASE next[b] < Len(prog.body[b])
  <2>1. next[b] + 1 \in 1 .. Len(prog.body[b])
    BY <1>1, <1>2
  <2>2. prog.body[b][next[b] + 1] \in {"agent", "note", "gate", "complete"}
    BY <1>1, <2>1
  <2> QED
    BY <1>2, <2>1, <2>2 DEF Kind
<1>3. CASE ~(next[b] < Len(prog.body[b]))
  BY <1>1, <1>3 DEF Kind
<1> QED
  BY <1>2, <1>3

LEMMA FrameTypes ==
  ASSUME TypeOK
  PROVE  /\ \A id \in Calls, n \in Nat, s \in Nat :
              /\ Commit(id, n, s) \in FrameRecord /\ Commit(id, n, s).type = "commit"
              /\ Entry(Commit(id, n, s)) = [id |-> id, ordinal |-> n, seq |-> s]
              /\ Commit(id, n, s).n = n
         /\ \A b \in Branches, s \in Nat :
              /\ Start(b, s) \in FrameRecord /\ Start(b, s).type = "child-start"
              /\ Start(b, s).id = Id(b) /\ Start(b, s).seq = s
         /\ \A b \in Branches :
              /\ Announce(b) \in FrameRecord /\ Announce(b).type = "agent-start" /\ Announce(b).seq = seq[b]
         /\ \A how \in {"cap", "completed", "diverged", "cancelled"}, n \in Nat :
              /\ Result(how, n) \in FrameRecord /\ Result(how, n).type = "result"
              /\ Result(how, n).how = how /\ Result(how, n).n = n
<1>1. \A b \in Branches : Id(b) \in Calls /\ <<b, next[b]>> \in Calls
  BY DEF TypeOK, Calls, Id
<1>2. ASSUME NEW f \in CallFrame, NEW s \in Nat
      PROVE  LET g == [f EXCEPT !.seq = s] IN
             g \in CallFrame /\ g.type = f.type /\ g.id = f.id /\ g.n = f.n /\ g.seq = s
  BY DEF CallFrame
<1>3. ASSUME NEW id \in Calls, NEW n \in Nat, NEW s \in Nat
      PROVE  /\ Commit(id, n, s) \in FrameRecord /\ Commit(id, n, s).type = "commit"
             /\ Entry(Commit(id, n, s)) = [id |-> id, ordinal |-> n, seq |-> s]
             /\ Commit(id, n, s).n = n
  <2>1. Frame("commit", id, n, "") \in CallFrame
    BY DEF Frame, CallFrame
  <2> QED
    BY <1>2, <2>1 DEF FrameRecord, Entry, Commit, Frame
<1>4. ASSUME NEW b \in Branches, NEW s \in Nat
      PROVE  /\ Start(b, s) \in FrameRecord /\ Start(b, s).type = "child-start"
             /\ Start(b, s).id = Id(b) /\ Start(b, s).seq = s
  <2>1. Frame("child-start", Id(b), 0, "") \in CallFrame
    BY <1>1 DEF Frame, CallFrame
  <2> QED
    BY <1>2, <2>1 DEF FrameRecord, Start, Frame
<1>5. ASSUME NEW b \in Branches
      PROVE  Announce(b) \in FrameRecord /\ Announce(b).type = "agent-start" /\ Announce(b).seq = seq[b]
  <2>1. Frame("agent-start", <<b, next[b]>>, 0, "") \in CallFrame
    BY <1>1 DEF Frame, CallFrame
  <2>2. seq[b] \in Nat
    BY DEF TypeOK
  <2> QED
    BY <1>2, <2>1, <2>2 DEF FrameRecord, Announce, Frame
<1>6. ASSUME NEW how \in {"cap", "completed", "diverged", "cancelled"}, NEW n \in Nat
      PROVE  /\ Result(how, n) \in FrameRecord /\ Result(how, n).type = "result"
             /\ Result(how, n).how = how /\ Result(how, n).n = n
  BY DEF Result, Frame, FrameRecord, ResultFrame
<1> QED
  BY <1>3, <1>4, <1>5, <1>6

LEMMA SequenceTypes ==
  ASSUME TypeOK
  PROVE  /\ \A m \in FrameRecord : Append(wire, m) \in Seq(FrameRecord)
         /\ turn # <<>> => /\ Head(turn) \in Branches /\ Tail(turn) \in Seq(Branches)
                           /\ Append(Tail(turn), Head(turn)) \in Seq(Branches)
         /\ wire # <<>> => Head(wire) \in FrameRecord /\ Tail(wire) \in Seq(FrameRecord)
         /\ \A b \in Branches : <<b>> \in Seq(Branches)
         /\ <<>> \in Seq(Branches)
<1>1. wire \in Seq(FrameRecord) /\ turn \in Seq(Branches)
  BY DEF TypeOK
<1>2. turn # <<>> => Head(turn) \in Branches /\ Tail(turn) \in Seq(Branches)
  BY <1>1
<1>3. wire # <<>> => Head(wire) \in FrameRecord /\ Tail(wire) \in Seq(FrameRecord)
  BY <1>1
<1> QED
  BY <1>1, <1>2, <1>3

LEMMA EntryTypes ==
  ASSUME NEW m \in FrameRecord, m.type = "commit"
  PROVE  Entry(m) \in EntryRecord
BY DEF FrameRecord, CallFrame, ResultFrame, EntryRecord, Entry

(* Each action keeps the types. *)
LEMMA StepTypes == ASSUME TypeOK, Step PROVE TypeOK'
<1> DEFINE b == Head(turn)
<1>0. b \in Branches /\ Tail(turn) \in Seq(Branches) /\ Append(Tail(turn), b) \in Seq(Branches) /\ <<>> \in Seq(Branches)
  BY SequenceTypes DEF Step
<1>1. UNCHANGED <<prog, attempt, budget, status, checkpoint, opened, journal, cancelled,
                  hostStarted, children, announced, accused, launched>>
  BY DEF Step, run, host
<1> HIDE DEF b
<1>2. /\ Claim(b) => next' \in [Branches -> Nat]
      /\ \A how \in CallStates : call' = [call EXCEPT ![b] = how] => call' \in [Branches -> CallStates]
      /\ Id(b) \in Calls
  <2>1. Claim(b) => next' \in [Branches -> Nat]
    BY <1>0 DEF TypeOK, Claim
  <2>2. \A how \in CallStates : call' = [call EXCEPT ![b] = how] => call' \in [Branches -> CallStates]
    BY <1>0 DEF TypeOK
  <2>3. Id(b) \in Calls
    BY <1>0 DEF TypeOK, Id, Calls
  <2> QED
    BY <2>1, <2>2, <2>3
<1>3. CASE ReplayCall(b)
  BY <1>0, <1>1, <1>2, <1>3 DEF TypeOK, ReplayCall
<1>4. CASE Note(b)
  <2>1. wire' \in Seq(FrameRecord) /\ ordinal' \in Nat
    <3>1. ordinal + 1 \in Nat /\ 0 \in Nat
      BY DEF TypeOK
    <3>2. Commit(Id(b), ordinal + 1, 0) \in FrameRecord
      BY <1>2, <3>1, FrameTypes
    <3> QED
      BY <1>4, <3>1, <3>2, SequenceTypes DEF Note
  <2> QED
    BY <1>0, <1>1, <1>2, <1>4, <2>1 DEF TypeOK, Note
<1>5. CASE Gate(b)
  <2>1. call' \in [Branches -> CallStates]
    BY <1>2, <1>5 DEF Gate, CallStates
  <2> QED
    BY <1>0, <1>1, <1>2, <1>5, <2>1 DEF TypeOK, Gate
<1>6. CASE Agent(b)
  <2>1. nextSeq + 1 \in Nat
    BY DEF TypeOK
  <2>2. wire' \in Seq(FrameRecord)
    BY <1>0, <1>6, <2>1, FrameTypes, SequenceTypes DEF Agent
  <2>3. call' \in [Branches -> CallStates]
    BY <1>2, <1>6 DEF Agent, CallStates
  <2>4. /\ reservation' \in SUBSET Branches /\ started' \in Nat /\ nextSeq' \in Nat /\ seq' \in [Branches -> Nat]
        /\ UNCHANGED <<replayed, ordinal, ended, finished>>
    <3>1. reservation' \in SUBSET Branches /\ UNCHANGED <<replayed, ordinal, ended, finished>>
      BY <1>6 DEF Agent, TypeOK
    <3>2. started' \in Nat /\ nextSeq' \in Nat
      BY <1>6, <2>1 DEF Agent, TypeOK
    <3>3. seq' \in [Branches -> Nat]
      BY <1>0, <1>6, <2>1 DEF Agent, TypeOK
    <3> QED
      BY <3>1, <3>2, <3>3
  <2> QED
    BY <1>0, <1>1, <1>2, <1>6, <2>2, <2>3, <2>4 DEF TypeOK, Agent
<1>7. ASSUME NEW how \in {"cap", "completed", "diverged", "cancelled"}, Drive(how, started)
      PROVE  wire' \in Seq(FrameRecord) /\ turn' \in Seq(Branches) /\ ended' \in BOOLEAN
  BY <1>0, <1>7, FrameTypes, SequenceTypes DEF TypeOK, Drive
<1>8. CompletedResult \in {"cap", "completed", "diverged", "cancelled"}
  BY DEF CompletedResult
<1>9. CASE AgentCap(b)
  BY <1>1, <1>7, <1>9 DEF TypeOK, AgentCap
<1>10. CASE Complete(b)
  BY <1>1, <1>7, <1>8, <1>10 DEF TypeOK, Complete
<1>11. CASE Return(b)
  <2>1. call' \in [Branches -> CallStates]
    BY <1>2, <1>11 DEF Return, CallStates
  <2>2. wire' \in Seq(FrameRecord) /\ turn' \in Seq(Branches) /\ ended' \in BOOLEAN
    BY <1>0, <1>7, <1>8, <1>11 DEF Return, TypeOK
  <2> QED
    BY <1>1, <1>11, <2>1, <2>2 DEF TypeOK, Return
<1> QED
  BY <1>3, <1>4, <1>5, <1>6, <1>9, <1>10, <1>11 DEF Step, b

LEMMA OpenTypes == ASSUME TypeOK, OpenPanel PROVE TypeOK'
<1>1. UNCHANGED <<prog, attempt, budget, status, checkpoint, next, call, seq, nextSeq, ordinal, journal, cancelled,
                  hostStarted, children, announced, accused, launched, finished>> /\ opened' = TRUE
  BY DEF OpenPanel, run, host
<1>2. replayed' \in SUBSET Calls
  BY DEF OpenPanel, Calls
<1>3. /\ wire' \in Seq(FrameRecord) /\ turn' \in Seq(Branches) /\ ended' \in BOOLEAN
      /\ started' \in Nat /\ reservation' \in SUBSET Branches
  <2> DEFINE jobs == IF prog.panel THEN Unreplayed ELSE {}
  <2>1. jobs \in SUBSET Branches /\ Cardinality(jobs) \in Nat
    <3>1. jobs \in SUBSET Branches
      BY DEF Unreplayed
    <3> QED
      BY <3>1, ReplayAssumption, FS_Subset, FS_CardinalityType
  <2>2. \/ Drive("cap", started) /\ UNCHANGED <<started, reservation>>
        \/ /\ started' = started + Cardinality(jobs) /\ reservation' = jobs
           /\ turn' = [i \in 1 .. Cardinality(Branches) |-> i] /\ UNCHANGED <<ended, wire>>
    BY DEF OpenPanel
  <2> HIDE DEF jobs
  <2>3. Result("cap", started) \in FrameRecord
    BY FrameTypes DEF TypeOK
  <2>4. [i \in 1 .. Cardinality(Branches) |-> i] \in Seq(Branches)
    <3>1. Cardinality(Branches) \in Nat /\ Branches = 1 .. Cardinality(Branches)
      BY ReplayAssumption, FS_CardinalityType
    <3> QED
      BY <3>1
  <2> QED
    <3>1. CASE Drive("cap", started) /\ UNCHANGED <<started, reservation>>
      BY <2>3, <3>1, SequenceTypes DEF Drive, TypeOK
    <3>2. CASE /\ started' = started + Cardinality(jobs) /\ reservation' = jobs
               /\ turn' = [i \in 1 .. Cardinality(Branches) |-> i] /\ UNCHANGED <<ended, wire>>
      <4>1. started' \in Nat
        BY <2>1, <3>2 DEF TypeOK
      <4> QED
        BY <2>1, <2>4, <3>2, <4>1 DEF TypeOK
    <3> QED
      BY <2>2, <3>1, <3>2
<1> QED
  BY <1>1, <1>2, <1>3 DEF TypeOK

LEMMA AnswerTypes ==
  ASSUME TypeOK, NEW b \in Branches, Answers(b)
  PROVE  TypeOK'
<1>1. UNCHANGED <<prog, attempt, budget, status, checkpoint, opened, next, seq, reservation, replayed, started,
                  nextSeq, ended, journal, cancelled, hostStarted, announced, accused, launched, finished>>
  BY DEF Answers, ChildStarted, ChildSettled, ChildDisposed, GateOpens, run, host
<1>2. call' \in [Branches -> CallStates]
  <2>1. \E to \in CallStates : call' = [call EXCEPT ![b] = to]
    BY DEF Answers, ChildStarted, ChildSettled, ChildDisposed, GateOpens, Answered, CallStates
  <2> QED
    BY <2>1 DEF TypeOK
<1>3. children' \in SUBSET Branches
  BY DEF Answers, ChildStarted, ChildSettled, ChildDisposed, GateOpens, host, TypeOK
<1>4. turn' \in Seq(Branches)
  BY SequenceTypes DEF Answers, ChildStarted, ChildSettled, ChildDisposed, GateOpens, TypeOK
<1>5. wire' \in Seq(FrameRecord) /\ ordinal' \in Nat
  <2>1. <<b, next[b]>> \in Calls /\ seq[b] \in Nat /\ ordinal + 1 \in Nat /\ 0 \in Nat
    BY DEF TypeOK, Calls
  <2>2. /\ Announce(b) \in FrameRecord
        /\ \A s \in Nat : Commit(<<b, next[b]>>, ordinal + 1, s) \in FrameRecord
    BY <2>1, FrameTypes
  <2> QED
    BY <2>1, <2>2, SequenceTypes DEF Answers, ChildStarted, ChildSettled, ChildDisposed, GateOpens, TypeOK
<1> QED
  BY <1>1, <1>2, <1>3, <1>4, <1>5 DEF TypeOK

LEMMA CancelTypes == ASSUME TypeOK, Cancelled \/ Pause PROVE TypeOK'
<1>1. CASE Cancelled
  <2>1. Result("cancelled", started) \in FrameRecord
    BY FrameTypes DEF TypeOK
  <2>2. wire' \in Seq(FrameRecord) /\ turn' \in Seq(Branches) /\ ended' \in BOOLEAN
    BY <1>1, <2>1, SequenceTypes DEF Cancelled, Drive
  <2> QED
    BY <1>1, <2>2 DEF Cancelled, TypeOK, run, host
<1>2. CASE Pause
  BY <1>2 DEF Pause, TypeOK, run, worker
<1> QED
  BY <1>1, <1>2

(* A frame that the host takes without settling the attempt. *)
Taken(m) ==
  /\ ~Violation(m) /\ m.type # "result"
  /\ \/ m.type = "child-start" /\ OnChildStart(m)
     \/ m.type = "agent-start" /\ OnAgentStart(m)
     \/ m.type = "commit" /\ OnCommit(m)
  /\ UNCHANGED <<run, worker, cancelled, accused, finished>>

LEMMA TakenTypes ==
  ASSUME TypeOK, wire # <<>>, wire' = Tail(wire), Taken(Head(wire))
  PROVE  TypeOK'
<1> DEFINE m == Head(wire)
<1>1. m \in FrameRecord /\ wire' \in Seq(FrameRecord)
  BY SequenceTypes
<1>2. m.type # "result" => m.id \in Calls /\ m.seq \in Nat
  BY <1>1 DEF FrameRecord, CallFrame, ResultFrame
<1>3. Taken(m)
  OBVIOUS
<1> HIDE DEF m
<1>4. UNCHANGED <<prog, attempt, budget, status, checkpoint, opened, next, turn, call, seq, reservation, replayed,
                  started, nextSeq, ordinal, ended, cancelled, accused, finished>>
  BY <1>3 DEF Taken, run, worker
<1>5. journal' \in Seq(EntryRecord)
  <2>1. m.type = "commit" => Entry(m) \in EntryRecord
    BY <1>1, EntryTypes
  <2> QED
    <3>1. journal' = journal \/ (m.type = "commit" /\ journal' = Append(journal, Entry(m)))
      BY <1>3 DEF Taken, OnChildStart, OnAgentStart, OnCommit
    <3>2. journal \in Seq(EntryRecord)
      BY DEF TypeOK
    <3> QED
      BY <2>1, <3>1, <3>2
<1>6. hostStarted' \in Nat /\ children' \in SUBSET Branches /\ announced' \in SUBSET Nat
      /\ launched' \in SUBSET [id : Calls, seq : Nat]
  <2>1. CASE OnChildStart(m) /\ m.type = "child-start"
    <3>1. m.id[1] \in Branches /\ [id |-> m.id, seq |-> m.seq] \in [id : Calls, seq : Nat]
      BY <1>2, <2>1 DEF Calls
    <3> QED
      BY <2>1, <3>1 DEF OnChildStart, TypeOK
  <2>2. CASE OnAgentStart(m) /\ m.type = "agent-start"
    BY <1>2, <2>2 DEF OnAgentStart, TypeOK
  <2>3. CASE OnCommit(m)
    BY <2>3 DEF OnCommit, TypeOK
  <2> QED
    BY <1>3, <2>1, <2>2, <2>3 DEF Taken
<1> QED
  BY <1>1, <1>4, <1>5, <1>6 DEF TypeOK

-----------------------------------------------------------------------------
(* The port: a frame is sent, a frame is taken. *)

LEMMA SentFrame ==
  ASSUME TypeOK, NEW m \in FrameRecord, wire' = Append(wire, m)
  PROVE  /\ Len(wire) \in Nat /\ DOMAIN wire = 1 .. Len(wire)
         /\ Len(wire') = Len(wire) + 1 /\ DOMAIN wire' = 1 .. Len(wire) + 1
         /\ wire'[Len(wire) + 1] = m
         /\ \A i \in DOMAIN wire : wire'[i] = wire[i] /\ wire[i] \in FrameRecord
BY DEF TypeOK

LEMMA TookFrame ==
  ASSUME TypeOK, wire # <<>>, wire' = Tail(wire)
  PROVE  /\ Len(wire) \in Nat /\ DOMAIN wire = 1 .. Len(wire) /\ 1 \in DOMAIN wire
         /\ Len(wire') = Len(wire) - 1 /\ DOMAIN wire' = 1 .. Len(wire) - 1
         /\ wire[1] = Head(wire)
         /\ \A i \in DOMAIN wire : wire[i] \in FrameRecord /\ (i = 1 \/ (i - 1 \in DOMAIN wire' /\ wire'[i - 1] = wire[i]))
         /\ \A i \in DOMAIN wire' : i + 1 \in DOMAIN wire /\ i + 1 # 1 /\ wire'[i] = wire[i + 1]
<1>1. wire \in Seq(FrameRecord) /\ Len(wire) \in Nat /\ Len(wire) > 0 /\ DOMAIN wire = 1 .. Len(wire)
  BY DEF TypeOK
<1>2. Len(Tail(wire)) = Len(wire) - 1 /\ \A i \in 1 .. Len(wire) - 1 : Tail(wire)[i] = wire[i + 1]
  BY <1>1
<1>3. DOMAIN wire' = 1 .. Len(wire) - 1
  BY <1>1, <1>2
<1>4. \A i \in DOMAIN wire : i # 1 => i - 1 \in DOMAIN wire' /\ wire'[i - 1] = wire[i]
  BY <1>1, <1>2, <1>3
<1> QED
  BY <1>1, <1>2, <1>3, <1>4

LEMMA FrameFields ==
  ASSUME NEW m \in FrameRecord
  PROVE  m.n \in Nat /\ m.seq \in Nat
<1>1. CASE m \in CallFrame
  BY <1>1 DEF CallFrame
<1>2. CASE m \in ResultFrame
  <2>1. m.n \in Nat /\ m.seq = 0
    BY <1>2 DEF ResultFrame
  <2> QED
    BY <2>1
<1> QED
  BY <1>1, <1>2 DEF FrameRecord

LEMMA SentCommits ==
  ASSUME TypeOK, NEW m \in FrameRecord, wire' = Append(wire, m), journal' = journal
  PROVE  Commits' = Commits \cup (IF m.type = "commit" THEN {Entry(m)} ELSE {})
<1>1. {Entry(wire'[i]) : i \in Frames("commit")'}
        = {Entry(wire[i]) : i \in Frames("commit")} \cup (IF m.type = "commit" THEN {Entry(m)} ELSE {})
  BY SentFrame DEF Frames
<1> QED
  BY <1>1 DEF Commits

(* Sending a frame keeps the order of its kind. *)
LEMMA SentCommitOrder ==
  ASSUME TypeOK, NEW m \in FrameRecord, wire' = Append(wire, m), CommitOrder,
         UNCHANGED <<journal, cancelled>>,
         m.type = "commit" => m.n = ordinal + 1 /\ ordinal' = ordinal + 1,
         m.type # "commit" => ordinal' = ordinal
  PROVE  CommitOrder'
<1>1. Len(journal) \in Nat /\ ordinal \in Nat /\ ordinal' \in Nat /\ ordinal <= ordinal'
  BY DEF TypeOK
<1>2. \A i \in Frames("commit")' : \/ i \in Frames("commit") /\ wire'[i] = wire[i] /\ i < Len(wire) + 1
                                   \/ i = Len(wire) + 1 /\ wire'[i] = m /\ m.type = "commit"
  BY SentFrame DEF Frames
<1>3. \A i \in Frames("commit") : i \in Frames("commit")' /\ wire'[i] = wire[i]
  BY SentFrame DEF Frames
<1>4. Len(journal') <= ordinal' /\ \A i \in Frames("commit")' : wire'[i].n \in Len(journal') + 1 .. ordinal'
  <2>1. Len(journal) <= ordinal /\ Len(journal') = Len(journal)
    BY <1>1 DEF CommitOrder
  <2>2. ASSUME NEW i \in Frames("commit")' PROVE wire'[i].n \in Len(journal') + 1 .. ordinal'
    <3>1. CASE i \in Frames("commit") /\ wire'[i] = wire[i]
      <4>1. wire[i].n \in Len(journal) + 1 .. ordinal
        BY <3>1 DEF CommitOrder
      <4> QED
        BY <1>1, <2>1, <3>1, <4>1
    <3>2. CASE wire'[i] = m /\ m.type = "commit"
      BY <1>1, <2>1, <3>2
    <3> QED
      BY <1>2, <2>2, <3>1, <3>2
  <2>3. Len(journal') <= ordinal'
    BY <1>1, <2>1
  <2> QED
    BY <2>2, <2>3, Zenon
<1>5. \A i, j \in Frames("commit")' : i < j => wire'[i].n < wire'[j].n
  <2> SUFFICES ASSUME NEW i \in Frames("commit")', NEW j \in Frames("commit")', i < j
               PROVE  wire'[i].n < wire'[j].n
    OBVIOUS
  <2>1. i \in Frames("commit") /\ wire'[i] = wire[i] /\ wire[i].n \in Len(journal) + 1 .. ordinal
    <3>1. Frames("commit")' \subseteq 1 .. Len(wire) + 1 /\ Len(wire) \in Nat
      BY SentFrame DEF Frames
    <3> QED
      BY <1>2, <3>1 DEF CommitOrder
  <2>2. CASE j \in Frames("commit") /\ wire'[j] = wire[j]
    BY <2>1, <2>2 DEF CommitOrder
  <2>3. CASE wire'[j] = m /\ m.type = "commit"
    BY <1>1, <2>1, <2>3
  <2> QED
    BY <1>2, <2>2, <2>3
<1>6. ~cancelled' => \A n \in Len(journal') + 1 .. ordinal' : \E i \in Frames("commit")' : wire'[i].n = n
  <2> SUFFICES ASSUME ~cancelled, NEW n \in Len(journal) + 1 .. ordinal'
               PROVE  \E i \in Frames("commit")' : wire'[i].n = n
    OBVIOUS
  <2>1. CASE n \in Len(journal) + 1 .. ordinal
    BY <1>3, <2>1 DEF CommitOrder
  <2>2. CASE n = ordinal + 1 /\ m.type = "commit"
    <3>1. Len(wire) + 1 \in Frames("commit")' /\ wire'[Len(wire) + 1] = m
      BY <2>2, SentFrame DEF Frames
    <3> QED
      BY <2>2, <3>1
  <2>3. n \in Len(journal) + 1 .. ordinal \/ (n = ordinal + 1 /\ m.type = "commit")
    BY <1>1
  <2> QED
    BY <2>1, <2>2, <2>3
<1> QED
  BY <1>4, <1>5, <1>6 DEF CommitOrder

LEMMA SentStartOrder ==
  ASSUME TypeOK, NEW m \in FrameRecord, wire' = Append(wire, m), StartOrder,
         UNCHANGED <<checkpoint, hostStarted, cancelled>>,
         m.type = "child-start" => m.seq = nextSeq + 1 /\ nextSeq' = nextSeq + 1,
         m.type # "child-start" => nextSeq' = nextSeq
  PROVE  StartOrder'
<1>1. Accepted \in Nat /\ Accepted' = Accepted /\ nextSeq \in Nat /\ nextSeq' \in Nat /\ nextSeq <= nextSeq'
  BY DEF TypeOK, Accepted
<1>2. \A i \in Frames("child-start")' : \/ i \in Frames("child-start") /\ wire'[i] = wire[i] /\ i < Len(wire) + 1
                                        \/ i = Len(wire) + 1 /\ wire'[i] = m /\ m.type = "child-start"
  BY SentFrame DEF Frames
<1>3. \A i \in Frames("child-start") : i \in Frames("child-start")' /\ wire'[i] = wire[i]
  BY SentFrame DEF Frames
<1>4. Accepted' <= nextSeq' /\ \A i \in Frames("child-start")' : wire'[i].seq \in Accepted' + 1 .. nextSeq'
  <2>1. Accepted <= nextSeq /\ Accepted' = Accepted
    BY <1>1 DEF StartOrder
  <2>2. ASSUME NEW i \in Frames("child-start")' PROVE wire'[i].seq \in Accepted' + 1 .. nextSeq'
    <3>1. CASE i \in Frames("child-start") /\ wire'[i] = wire[i]
      <4>1. wire[i].seq \in Accepted + 1 .. nextSeq
        BY <3>1 DEF StartOrder
      <4> QED
        BY <1>1, <2>1, <3>1, <4>1
    <3>2. CASE wire'[i] = m /\ m.type = "child-start"
      BY <1>1, <2>1, <3>2
    <3> QED
      BY <1>2, <2>2, <3>1, <3>2
  <2>3. Accepted' <= nextSeq'
    BY <1>1, <2>1
  <2> QED
    BY <2>2, <2>3, Zenon
<1>5. \A i, j \in Frames("child-start")' : i < j => wire'[i].seq < wire'[j].seq
  <2> SUFFICES ASSUME NEW i \in Frames("child-start")', NEW j \in Frames("child-start")', i < j
               PROVE  wire'[i].seq < wire'[j].seq
    OBVIOUS
  <2>1. i \in Frames("child-start") /\ wire'[i] = wire[i] /\ wire[i].seq \in Accepted + 1 .. nextSeq
    <3>1. Frames("child-start")' \subseteq 1 .. Len(wire) + 1 /\ Len(wire) \in Nat
      BY SentFrame DEF Frames
    <3> QED
      BY <1>2, <3>1 DEF StartOrder
  <2>2. CASE j \in Frames("child-start") /\ wire'[j] = wire[j]
    BY <2>1, <2>2 DEF StartOrder
  <2>3. CASE wire'[j] = m /\ m.type = "child-start"
    BY <1>1, <2>1, <2>3
  <2> QED
    BY <1>2, <2>2, <2>3
<1>6. ~cancelled' => \A s \in Accepted' + 1 .. nextSeq' : \E i \in Frames("child-start")' : wire'[i].seq = s
  <2> SUFFICES ASSUME ~cancelled, NEW s \in Accepted + 1 .. nextSeq'
               PROVE  \E i \in Frames("child-start")' : wire'[i].seq = s
    BY <1>1
  <2>1. CASE s \in Accepted + 1 .. nextSeq
    BY <1>3, <2>1 DEF StartOrder
  <2>2. CASE s = nextSeq + 1 /\ m.type = "child-start"
    <3>1. Len(wire) + 1 \in Frames("child-start")' /\ wire'[Len(wire) + 1] = m
      BY <2>2, SentFrame DEF Frames
    <3> QED
      BY <2>2, <3>1
  <2>3. s \in Accepted + 1 .. nextSeq \/ (s = nextSeq + 1 /\ m.type = "child-start")
    BY <1>1
  <2> QED
    BY <2>1, <2>2, <2>3
<1> QED
  BY <1>4, <1>5, <1>6 DEF StartOrder

LEMMA SentAnnounce ==
  ASSUME TypeOK, NEW m \in FrameRecord, wire' = Append(wire, m), AnnounceInv,
         UNCHANGED <<checkpoint, hostStarted, announced>>,
         m.type = "agent-start" => m.seq \in checkpoint.seq + 1 .. Accepted
  PROVE  AnnounceInv'
<1>1. \A i \in Frames("agent-start")' : \/ i \in Frames("agent-start") /\ wire'[i] = wire[i]
                                        \/ wire'[i] = m /\ m.type = "agent-start"
  BY SentFrame DEF Frames
<1> QED
  BY <1>1 DEF AnnounceInv, Accepted

(* The result is the last frame. *)
LEMMA SentNoResult ==
  ASSUME TypeOK, NEW m \in FrameRecord, wire' = Append(wire, m), ResultInv, ~ended, m.type # "result"
  PROVE  ResultInv'
BY SentFrame DEF ResultInv, Frames

LEMMA SentResult ==
  ASSUME TypeOK, NEW how \in {"cap", "completed", "diverged", "cancelled"}, Drive(how, started),
         ResultInv, ~ended, UNCHANGED <<prog, started, nextSeq, checkpoint, cancelled>>,
         how = "cancelled" => cancelled, how = "diverged" => ~CompletesAlone,
         how = "cap" /\ prog.panel => nextSeq = checkpoint.seq
  PROVE  ResultInv'
<1> DEFINE m == Result(how, started)
<1>1. m \in FrameRecord /\ m.how = how /\ m.n = started /\ wire' = Append(wire, m) /\ ended'
  BY FrameTypes DEF Drive, TypeOK
<1> HIDE DEF m
<1>2. \A i \in Frames("result")' : i = Len(wire') /\ wire'[i] = m
  BY <1>1, SentFrame DEF ResultInv, Frames
<1> QED
  BY <1>1, <1>2 DEF ResultInv

(* While nothing is dropped, the next commit or start is the one the host awaits. *)
LEMMA HeadCommit ==
  ASSUME TypeOK, wire # <<>>, Head(wire).type = "commit", CommitOrder
  PROVE  /\ Head(wire).n \in Len(journal) + 1 .. ordinal
         /\ ~cancelled => Head(wire).n = Len(journal) + 1
<1>1. wire \in Seq(FrameRecord) /\ 1 \in Frames("commit") /\ wire[1] = Head(wire)
  BY DEF TypeOK, Frames
<1>2. Frames("commit") \subseteq 1 .. Len(wire) /\ Len(journal) \in Nat /\ ordinal \in Nat
  BY <1>1 DEF Frames, TypeOK
<1>3. Head(wire).n \in Len(journal) + 1 .. ordinal
  BY <1>1 DEF CommitOrder
<1>4. ASSUME ~cancelled PROVE Head(wire).n = Len(journal) + 1
  <2>1. PICK i \in Frames("commit") : wire[i].n = Len(journal) + 1
    BY <1>2, <1>3, <1>4 DEF CommitOrder
  <2>2. i = 1 \/ 1 < i
    BY <1>2
  <2>3. 1 < i => wire[1].n < wire[i].n
    BY <1>1 DEF CommitOrder
  <2> QED
    BY <1>1, <1>2, <1>3, <2>1, <2>2, <2>3
<1> QED
  BY <1>3, <1>4

LEMMA HeadStart ==
  ASSUME TypeOK, wire # <<>>, Head(wire).type = "child-start", StartOrder
  PROVE  /\ Head(wire).seq \in Accepted + 1 .. nextSeq
         /\ ~cancelled => Head(wire).seq = Accepted + 1
<1>1. wire \in Seq(FrameRecord) /\ 1 \in Frames("child-start") /\ wire[1] = Head(wire)
  BY DEF TypeOK, Frames
<1>2. Frames("child-start") \subseteq 1 .. Len(wire) /\ Accepted \in Nat /\ nextSeq \in Nat
  BY <1>1 DEF Frames, TypeOK, Accepted
<1>3. Head(wire).seq \in Accepted + 1 .. nextSeq
  BY <1>1 DEF StartOrder
<1>4. ASSUME ~cancelled PROVE Head(wire).seq = Accepted + 1
  <2>1. PICK i \in Frames("child-start") : wire[i].seq = Accepted + 1
    BY <1>2, <1>3, <1>4 DEF StartOrder
  <2>2. i = 1 \/ 1 < i
    BY <1>2
  <2>3. 1 < i => wire[1].seq < wire[i].seq
    BY <1>1 DEF StartOrder
  <2> QED
    BY <1>1, <1>2, <1>3, <2>1, <2>2, <2>3
<1> QED
  BY <1>3, <1>4

(* Taking a frame keeps the order of what is still under way. *)
LEMMA TookCommitOrder ==
  ASSUME TypeOK, wire # <<>>, wire' = Tail(wire), CommitOrder, UNCHANGED <<ordinal, cancelled>>,
         \/ journal' = journal /\ (cancelled \/ Head(wire).type # "commit")
         \/ /\ ~cancelled /\ Head(wire).type = "commit"
            /\ journal' = Append(journal, Entry(Head(wire)))
  PROVE  CommitOrder'
<1>1. Len(journal) \in Nat /\ ordinal \in Nat /\ ordinal' = ordinal /\ cancelled' = cancelled
  BY DEF TypeOK
<1>2. \A i \in Frames("commit")' : /\ i \in Nat /\ i + 1 \in Nat /\ 1 < i + 1
                            /\ i + 1 \in Frames("commit") /\ wire'[i] = wire[i + 1]
  BY TookFrame DEF Frames
<1>3. \A i \in Frames("commit") : i = 1 \/ (i - 1 \in Frames("commit")' /\ wire'[i - 1] = wire[i])
  BY TookFrame DEF Frames
<1>4. Frames("commit")' \subseteq Nat /\ Frames("commit") \subseteq Nat
  BY TookFrame DEF Frames
<1>5. \A i, j \in Frames("commit")' : i < j => wire'[i].n < wire'[j].n
  <2> SUFFICES ASSUME NEW i \in Frames("commit")', NEW j \in Frames("commit")', i < j PROVE wire'[i].n < wire'[j].n
    OBVIOUS
  <2>1. i + 1 \in Frames("commit") /\ j + 1 \in Frames("commit") /\ i + 1 < j + 1
    BY <1>2
  <2> QED
    BY <1>2, <2>1 DEF CommitOrder
<1>6. CASE journal' = journal /\ (cancelled \/ Head(wire).type # "commit")
  <2>1. Len(journal') = Len(journal)
    BY <1>6
  <2>2. \A i \in Frames("commit")' : wire'[i].n \in Len(journal') + 1 .. ordinal'
    BY <1>1, <1>2, <2>1 DEF CommitOrder
  <2>3. ASSUME ~cancelled, NEW n \in Len(journal') + 1 .. ordinal'
        PROVE  \E i \in Frames("commit")' : wire'[i].n = n
    <3>1. PICK i \in Frames("commit") : wire[i].n = n
      BY <1>1, <2>1, <2>3 DEF CommitOrder
    <3>2. i # 1
      BY <1>6, <2>3, TookFrame DEF Frames
    <3> QED
      BY <1>3, <3>1, <3>2
  <2>4. Len(journal') <= ordinal'
    BY <1>1, <2>1 DEF CommitOrder
  <2>5. ~cancelled' => \A n \in Len(journal') + 1 .. ordinal' : \E i \in Frames("commit")' : wire'[i].n = n
    <3>1. ~cancelled' => ~cancelled
      BY <1>1
    <3> QED
      BY <2>3, <3>1, Zenon
  <2> QED
    BY <1>5, <2>2, <2>4, <2>5, Zenon DEF CommitOrder
<1>7. CASE /\ ~cancelled /\ Head(wire).type = "commit"
           /\ journal' = Append(journal, Entry(Head(wire)))
  <2>1. wire[1] = Head(wire) /\ wire[1].n = Len(journal) + 1 /\ Len(journal) + 1 <= ordinal /\ 1 \in Frames("commit")
    BY <1>1, <1>7, HeadCommit, TookFrame DEF Frames
  <2>2. Len(journal') = Len(journal) + 1
    BY <1>7 DEF TypeOK
  <2>3. ASSUME NEW i \in Frames("commit")' PROVE wire'[i].n \in Len(journal') + 1 .. ordinal'
    <3>1. i + 1 \in Frames("commit") /\ wire'[i] = wire[i + 1] /\ 1 < i + 1
      BY <1>2
    <3>2. wire[1].n < wire[i + 1].n /\ wire[i + 1].n \in Len(journal) + 1 .. ordinal
      BY <2>1, <3>1 DEF CommitOrder
    <3>3. wire[i + 1].n \in Len(journal') + 1 .. ordinal'
      BY <1>1, <2>1, <2>2, <3>2
    <3> QED
      BY <3>1, <3>3, Zenon
  <2>4. ASSUME NEW n \in Len(journal') + 1 .. ordinal'
        PROVE  \E i \in Frames("commit")' : wire'[i].n = n
    <3>1. n \in Len(journal) + 1 .. ordinal /\ n # Len(journal) + 1
      BY <1>1, <2>2
    <3>2. PICK i \in Frames("commit") : wire[i].n = n
      BY <1>7, <3>1 DEF CommitOrder
    <3>3. i # 1
      BY <2>1, <3>1, <3>2
    <3> QED
      BY <1>3, <3>2, <3>3
  <2>5. Len(journal') <= ordinal'
    BY <1>1, <2>1, <2>2
  <2> QED
    BY <1>5, <2>3, <2>4, <2>5 DEF CommitOrder
<1> QED
  BY <1>6, <1>7

LEMMA TookStartOrder ==
  ASSUME TypeOK, wire # <<>>, wire' = Tail(wire), StartOrder, UNCHANGED <<checkpoint, nextSeq, cancelled>>,
         \/ hostStarted' = hostStarted /\ (cancelled \/ Head(wire).type # "child-start")
         \/ ~cancelled /\ Head(wire).type = "child-start" /\ hostStarted' = hostStarted + 1
  PROVE  StartOrder'
<1>1. Accepted \in Nat /\ nextSeq \in Nat /\ nextSeq' = nextSeq /\ cancelled' = cancelled
  BY DEF TypeOK, Accepted
<1>2. \A i \in Frames("child-start")' : /\ i \in Nat /\ i + 1 \in Nat /\ 1 < i + 1
                            /\ i + 1 \in Frames("child-start") /\ wire'[i] = wire[i + 1]
  BY TookFrame DEF Frames
<1>3. \A i \in Frames("child-start") : i = 1 \/ (i - 1 \in Frames("child-start")' /\ wire'[i - 1] = wire[i])
  BY TookFrame DEF Frames
<1>4. Frames("child-start")' \subseteq Nat /\ Frames("child-start") \subseteq Nat
  BY TookFrame DEF Frames
<1>5. \A i, j \in Frames("child-start")' : i < j => wire'[i].seq < wire'[j].seq
  <2> SUFFICES ASSUME NEW i \in Frames("child-start")', NEW j \in Frames("child-start")', i < j PROVE wire'[i].seq < wire'[j].seq
    OBVIOUS
  <2>1. i + 1 \in Frames("child-start") /\ j + 1 \in Frames("child-start") /\ i + 1 < j + 1
    BY <1>2
  <2> QED
    BY <1>2, <2>1 DEF StartOrder
<1>6. CASE hostStarted' = hostStarted /\ (cancelled \/ Head(wire).type # "child-start")
  <2>1. Accepted' = Accepted
    BY <1>6 DEF Accepted
  <2>2. \A i \in Frames("child-start")' : wire'[i].seq \in Accepted' + 1 .. nextSeq'
    BY <1>1, <1>2, <2>1 DEF StartOrder
  <2>3. ASSUME ~cancelled, NEW n \in Accepted' + 1 .. nextSeq'
        PROVE  \E i \in Frames("child-start")' : wire'[i].seq = n
    <3>1. PICK i \in Frames("child-start") : wire[i].seq = n
      BY <1>1, <2>1, <2>3 DEF StartOrder
    <3>2. i # 1
      BY <1>6, <2>3, TookFrame DEF Frames
    <3> QED
      BY <1>3, <3>1, <3>2
  <2>4. Accepted' <= nextSeq'
    BY <1>1, <2>1 DEF StartOrder
  <2>5. ~cancelled' => \A n \in Accepted' + 1 .. nextSeq' : \E i \in Frames("child-start")' : wire'[i].seq = n
    <3>1. ~cancelled' => ~cancelled
      BY <1>1
    <3> QED
      BY <2>3, <3>1, Zenon
  <2> QED
    BY <1>5, <2>2, <2>4, <2>5, Zenon DEF StartOrder
<1>7. CASE ~cancelled /\ Head(wire).type = "child-start" /\ hostStarted' = hostStarted + 1
  <2>1. wire[1] = Head(wire) /\ wire[1].seq = Accepted + 1 /\ Accepted + 1 <= nextSeq /\ 1 \in Frames("child-start")
    BY <1>1, <1>7, HeadStart, TookFrame DEF Frames
  <2>2. Accepted' = Accepted + 1
    BY <1>7 DEF TypeOK, Accepted
  <2>3. ASSUME NEW i \in Frames("child-start")' PROVE wire'[i].seq \in Accepted' + 1 .. nextSeq'
    <3>1. i + 1 \in Frames("child-start") /\ wire'[i] = wire[i + 1] /\ 1 < i + 1
      BY <1>2
    <3>2. wire[1].seq < wire[i + 1].seq /\ wire[i + 1].seq \in Accepted + 1 .. nextSeq
      BY <2>1, <3>1 DEF StartOrder
    <3>3. wire[i + 1].seq \in Accepted' + 1 .. nextSeq'
      BY <1>1, <2>1, <2>2, <3>2
    <3> QED
      BY <3>1, <3>3, Zenon
  <2>4. ASSUME NEW n \in Accepted' + 1 .. nextSeq'
        PROVE  \E i \in Frames("child-start")' : wire'[i].seq = n
    <3>1. n \in Accepted + 1 .. nextSeq /\ n # Accepted + 1
      BY <1>1, <2>2
    <3>2. PICK i \in Frames("child-start") : wire[i].seq = n
      BY <1>7, <3>1 DEF StartOrder
    <3>3. i # 1
      BY <2>1, <3>1, <3>2
    <3> QED
      BY <1>3, <3>2, <3>3
  <2>5. Accepted' <= nextSeq'
    BY <1>1, <2>1, <2>2
  <2> QED
    BY <1>5, <2>3, <2>4, <2>5 DEF StartOrder
<1> QED
  BY <1>6, <1>7

LEMMA TookCommits ==
  ASSUME TypeOK, wire # <<>>, wire' = Tail(wire),
         journal' = journal \/ (Head(wire).type = "commit" /\ journal' = Append(journal, Entry(Head(wire))))
  PROVE  Commits' \subseteq Commits
<1>1. \A i \in Frames("commit")' : i + 1 \in Frames("commit") /\ wire'[i] = wire[i + 1]
  BY TookFrame DEF Frames
<1>2. Range(journal') \subseteq Commits
  <2>1. CASE journal' = journal
    BY <2>1 DEF Commits
  <2>2. CASE Head(wire).type = "commit" /\ journal' = Append(journal, Entry(Head(wire)))
    <3>1. 1 \in Frames("commit") /\ wire[1] = Head(wire) /\ Head(wire) \in FrameRecord
      BY <2>2, TookFrame DEF Frames
    <3>2. Entry(Head(wire)) \in EntryRecord /\ journal \in Seq(EntryRecord)
      BY <2>2, <3>1, EntryTypes DEF TypeOK
    <3>3. Range(journal') = Range(journal) \cup {Entry(wire[1])}
      BY <2>2, <3>1, <3>2, RangeAppend
    <3> QED
      BY <3>1, <3>3 DEF Commits
  <2> QED
    BY <2>1, <2>2
<1> QED
  BY <1>1, <1>2 DEF Commits

LEMMA TookResult ==
  ASSUME TypeOK, wire # <<>>, wire' = Tail(wire), ResultInv,
         UNCHANGED <<ended, started, prog, nextSeq, checkpoint, cancelled>>
  PROVE  ResultInv'
<1>1. \A i \in Frames("result")' : /\ i + 1 \in Frames("result") /\ wire'[i] = wire[i + 1]
                                   /\ i + 1 = Len(wire) => i = Len(wire')
  BY TookFrame DEF Frames
<1> QED
  BY <1>1 DEF ResultInv

-----------------------------------------------------------------------------
(* What was committed, and what was launched. *)

LEMMA CommitTypes ==
  ASSUME TypeOK
  PROVE  /\ Commits \subseteq EntryRecord /\ Range(journal) \subseteq Commits
         /\ \A e \in Commits : e.id \in Calls /\ e.seq \in Nat /\ e.ordinal \in Nat
<1>1. Range(journal) \subseteq EntryRecord
  BY RangeOf DEF TypeOK
<1>2. \A i \in Frames("commit") : Entry(wire[i]) \in EntryRecord
  BY EntryTypes DEF Frames, TypeOK
<1>3. Commits \subseteq EntryRecord /\ Range(journal) \subseteq Commits
  BY <1>1, <1>2 DEF Commits
<1> QED
  BY <1>3 DEF EntryRecord

LEMMA RestoredTypes ==
  ASSUME TypeOK, CheckpointInv
  PROVE  /\ Restored \subseteq Commits /\ Restored \subseteq Range(journal)
         /\ Ids(checkpoint.journal) = {e.id : e \in Restored}
<1>1. checkpoint.journal \in Seq(EntryRecord) /\ journal \in Seq(EntryRecord)
  BY DEF TypeOK
<1>2. Restored \subseteq Range(journal)
  BY <1>1, PrefixRange DEF CheckpointInv, Restored
<1> QED
  BY <1>2, CommitTypes DEF Ids, Restored

(* No commit has a member the host did not accept, and a call that its branch has yet
   to make is in the journal only if it was restored. *)
LEMMA CommitSeqs ==
  ASSUME TypeOK, CheckpointInv, NewCommits
  PROVE  /\ \A e \in Commits : e.seq <= Accepted
         /\ \A b \in Branches, k \in Nat : k > next[b] =>
              \A e \in Commits : e.id = <<b, k>> => <<b, k>> \in Ids(checkpoint.journal)
<1>1. Accepted \in Nat /\ checkpoint.seq <= Accepted /\ checkpoint.seq \in Nat
  BY DEF TypeOK, Accepted
<1>2. ASSUME NEW e \in Commits PROVE e.seq <= Accepted
  <2>1. e.seq \in Nat
    BY CommitTypes
  <2>2. CASE e \in Restored
    BY <1>1, <2>1, <2>2 DEF CheckpointInv
  <2>3. CASE e \notin Restored
    BY <1>1, <2>1, <2>3 DEF NewCommits
  <2> QED
    BY <2>2, <2>3
<1>3. ASSUME NEW b \in Branches, NEW k \in Nat, k > next[b], NEW e \in Commits, e.id = <<b, k>>
      PROVE  <<b, k>> \in Ids(checkpoint.journal)
  <2>1. e \notin Restored => k <= next[b]
    BY <1>3 DEF NewCommits
  <2>2. next[b] \in Nat
    BY DEF TypeOK
  <2>3. e \in Restored
    BY <1>3, <2>1, <2>2
  <2> QED
    BY <1>3, <2>3, RestoredTypes
<1> QED
  BY <1>2, <1>3

(* The claims about commits survive the loss of one, and a new call of a new member. *)
LEMMA EntriesShrink ==
  ASSUME EntriesInv, Commits' \subseteq Commits, prog' = prog,
         \A i \in DOMAIN journal' : journal'[i].ordinal = i
  PROVE  EntriesInv'
BY DEF EntriesInv, Reachable, KindOf

LEMMA EntriesGrow ==
  ASSUME EntriesInv, NEW x, Commits' \subseteq Commits \cup {x}, UNCHANGED <<prog, journal>>,
         Reachable(x.id), x.seq = 0 <=> KindOf(x.id) # "agent",
         \A e \in Commits : e.id # x.id /\ (e.seq = x.seq => ~(e.seq > 0))
  PROVE  EntriesInv'
<1>1. \A e \in Commits' : e \in Commits \/ e = x
  OBVIOUS
<1>2. \A e \in Commits' : Reachable(e.id)' /\ (e.seq = 0 <=> KindOf(e.id)' # "agent")
  BY <1>1 DEF EntriesInv, Reachable, KindOf
<1>3. \A d, e \in Commits' : d.id = e.id \/ (d.seq = e.seq /\ d.seq > 0) => d = e
  BY <1>1 DEF EntriesInv
<1> QED
  BY <1>2, <1>3 DEF EntriesInv

(* What was launched stays below what is committed. *)
LEMMA LaunchedStay ==
  ASSUME LaunchedInv, UNCHANGED <<launched, prog, status, hostStarted, checkpoint>>,
         \A e \in Commits' : e \in Commits \/ \A l \in launched : l.id = e.id => l.seq <= e.seq
  PROVE  LaunchedInv'
BY DEF LaunchedInv, KindOf

(* What a branch does leaves the others where they are. *)
LEMMA OthersStay ==
  ASSUME TypeOK, TypeOK', BranchInv, NEW b \in Branches, NEW d \in Branches \ {b}, NEW X,
         UNCHANGED <<prog, checkpoint, launched, hostStarted>>, nextSeq <= nextSeq',
         next'[d] = next[d], call'[d] = call[d], seq'[d] = seq[d], d \in children' <=> d \in children,
         \A c \in Branches \ {b, d} : call'[c] = call[c] /\ seq'[c] = seq[c],
         Commits' \subseteq Commits \cup X,
         \A x \in X : x.id[1] = b /\ (x.seq = 0 \/ (x.seq = seq[b] /\ call[b] \in {"start", "child"})),
         call'[b] \in {"start", "child"} =>
           seq'[b] > nextSeq \/ (seq'[b] = seq[b] /\ call[b] \in {"start", "child"})
  PROVE  BranchOK(d)'
<1>0. PlaceOK(d) /\ AwaitOK(d) /\ MemberOK(d) /\ MemberOK(b)
  BY DEF BranchInv, BranchOK
<1>1. PlaceOK(d)'
  BY <1>0 DEF PlaceOK, Accepted
<1>2. AwaitOK(d)'
  <2>1. \A x \in X : x.id # <<d, next[d]>>
    OBVIOUS
  <2> QED
    BY <1>0, <2>1 DEF AwaitOK, KindOf
<1>3. ASSUME call[d] \in {"start", "child"} PROVE MemberOK(d)'
  <2>1. seq[d] \in checkpoint.seq + 1 .. nextSeq /\ checkpoint.seq \in Nat /\ nextSeq \in Nat /\ nextSeq' \in Nat
    BY <1>0, <1>3 DEF MemberOK, TypeOK
  <2>2. call[b] \in {"start", "child"} => seq[b] # seq[d]
    BY <1>0, <1>3 DEF MemberOK
  <2>3. \A e \in Commits' : e.seq # seq[d]
    <3>1. \A x \in X : x.seq # seq[d]
      BY <2>1, <2>2
    <3> QED
      BY <1>0, <1>3, <3>1 DEF MemberOK
  <2>4. \A c \in Branches \ {d} : call'[c] \in {"start", "child"} => seq'[c] # seq[d]
    <3>1. call'[b] \in {"start", "child"} => seq'[b] # seq[d]
      <4>1. seq'[b] \in Nat
        BY DEF TypeOK
      <4> QED
        BY <2>1, <2>2, <4>1
    <3>2. \A c \in Branches \ {b, d} : call'[c] \in {"start", "child"} => seq'[c] # seq[d]
      BY <1>0, <1>3 DEF MemberOK
    <3> QED
      BY <3>1, <3>2
  <2>5. seq'[d] \in checkpoint'.seq + 1 .. nextSeq'
    BY <2>1
  <2>6. \A l \in launched' : l.id = <<d, next'[d]>> => l.seq <= seq'[d]
    BY <1>0, <1>3 DEF MemberOK
  <2> QED
    BY <2>3, <2>4, <2>5, <2>6 DEF MemberOK
<1>4. MemberOK(d)'
  <2>1. call[d] \notin {"start", "child"} => MemberOK(d)'
    BY DEF MemberOK
  <2> QED
    BY <1>3, <2>1
<1> QED
  BY <1>1, <1>2, <1>4 DEF BranchOK

(* Frames that are no starts, of a branch whose start is not on the port. *)
LEMMA StartsStay ==
  ASSUME TypeOK, StartsInv, NEW b \in Branches, call[b] # "start" \/ b \in children,
         wire' = wire \/ \E m \in FrameRecord : m.type # "child-start" /\ wire' = Append(wire, m),
         \A d \in Branches \ {b} : next'[d] = next[d] /\ call'[d] = call[d] /\ seq'[d] = seq[d]
                                   /\ (d \in children' <=> d \in children)
  PROVE  StartsInv'
<1>1. \A i \in Frames("child-start")' : i \in Frames("child-start") /\ wire'[i] = wire[i]
  BY SentFrame DEF Frames
<1>2. \A i \in Frames("child-start") : wire[i].id[1] \in Branches \ {b}
  BY DEF StartsInv
<1> QED
  BY <1>1, <1>2 DEF StartsInv

(* The branch whose turn ends leaves the queue, or goes to its end. *)
LEMMA TurnMoves ==
  ASSUME TypeOK, TurnInv, turn # <<>>
  PROVE  /\ call[Head(turn)] = "none" /\ Head(turn) \in Branches
         /\ turn' = Tail(turn) /\ (\A d \in Branches \ {Head(turn)} : call'[d] = call[d]) => TurnInv'
         /\ turn' = Append(Tail(turn), Head(turn)) /\ call' = call => TurnInv'
<1>1. turn \in Seq(Branches) /\ Len(turn) \in Nat \ {0} /\ DOMAIN turn = 1 .. Len(turn) /\ Head(turn) = turn[1]
  BY DEF TypeOK
<1>2. /\ DOMAIN Tail(turn) = 1 .. Len(turn) - 1
      /\ \A i \in 1 .. Len(turn) - 1 : i + 1 \in DOMAIN turn /\ i + 1 # 1 /\ Tail(turn)[i] = turn[i + 1]
  BY <1>1
<1>3. call[Head(turn)] = "none" /\ Head(turn) \in Branches /\ \A i \in DOMAIN turn : turn[i] \in Branches
  BY <1>1 DEF TurnInv
<1>4. ASSUME turn' = Tail(turn), \A d \in Branches \ {Head(turn)} : call'[d] = call[d] PROVE TurnInv'
  <2>1. \A i \in 1 .. Len(turn) - 1 : turn[i + 1] \in Branches \ {Head(turn)} /\ call[turn[i + 1]] = "none"
    BY <1>1, <1>2, <1>3 DEF TurnInv
  <2>2. \A i, j \in 1 .. Len(turn) - 1 : turn[i + 1] = turn[j + 1] => i = j
    BY <1>1, <1>2 DEF TurnInv
  <2> QED
    BY <1>2, <1>4, <2>1, <2>2 DEF TurnInv
<1>5. ASSUME turn' = Append(Tail(turn), Head(turn)), call' = call PROVE TurnInv'
  <2>1. Tail(turn) \in Seq(Branches) /\ Len(Tail(turn)) = Len(turn) - 1
    BY <1>1
  <2>2. /\ DOMAIN turn' = 1 .. Len(turn) /\ turn'[Len(turn)] = turn[1]
        /\ \A i \in 1 .. Len(turn) - 1 : turn'[i] = turn[i + 1]
    BY <1>1, <1>2, <1>5, <2>1
  <2>3. \A i \in DOMAIN turn' : i = Len(turn) \/ i \in 1 .. Len(turn) - 1
    BY <1>1, <2>2
  <2>4. \A i \in DOMAIN turn' : call[turn'[i]] = "none"
    BY <1>1, <1>2, <2>2, <2>3 DEF TurnInv
  <2>5. \A i, j \in DOMAIN turn' : turn'[i] = turn'[j] => i = j
    <3>1. ASSUME NEW i \in DOMAIN turn' PROVE \E k \in DOMAIN turn : /\ turn'[i] = turn[k]
                                                                    /\ k = IF i = Len(turn) THEN 1 ELSE i + 1
      <4>1. CASE i = Len(turn)
        BY <1>1, <2>2, <4>1
      <4>2. CASE i \in 1 .. Len(turn) - 1
        <5>1. i # Len(turn) /\ i + 1 \in DOMAIN turn /\ turn'[i] = turn[i + 1]
          BY <1>1, <1>2, <2>2, <4>2
        <5> QED
          BY <5>1
      <4> QED
        BY <2>3, <4>1, <4>2
    <3>2. ASSUME NEW i \in DOMAIN turn', NEW j \in DOMAIN turn', turn'[i] = turn'[j] PROVE i = j
      <4>1. PICK k \in DOMAIN turn : turn'[i] = turn[k] /\ k = IF i = Len(turn) THEN 1 ELSE i + 1
        BY <3>1
      <4>2. PICK l \in DOMAIN turn : turn'[j] = turn[l] /\ l = IF j = Len(turn) THEN 1 ELSE j + 1
        BY <3>1
      <4>3. k = l
        BY <3>2, <4>1, <4>2 DEF TurnInv
      <4>4. i \in 1 .. Len(turn) /\ j \in 1 .. Len(turn)
        BY <2>2
      <4> QED
        BY <1>1, <4>1, <4>2, <4>3, <4>4
    <3> QED
      BY <3>2
  <2> QED
    BY <1>5, <2>4, <2>5 DEF TurnInv
<1> QED
  BY <1>3, <1>4, <1>5

-----------------------------------------------------------------------------
(* The steps of the worker. *)

(* The counters are numbers. *)
LEMMA NumberTypes ==
  ASSUME TypeOK
  PROVE  /\ checkpoint.seq \in Nat /\ checkpoint.spend \in Nat /\ nextSeq \in Nat /\ started \in Nat
         /\ budget \in Nat /\ hostStarted \in Nat /\ ordinal \in Nat
         /\ Accepted \in Nat /\ Accepted = checkpoint.seq + hostStarted /\ checkpoint.seq <= Accepted
         /\ Observed \in Nat /\ Observed = checkpoint.spend + hostStarted
         /\ \A b \in Branches : next[b] \in Nat /\ seq[b] \in Nat /\ Id(b) \in Calls /\ <<b, next[b]>> \in Calls
<1>1. /\ checkpoint.seq \in Nat /\ checkpoint.spend \in Nat /\ nextSeq \in Nat /\ started \in Nat
      /\ budget \in Nat /\ hostStarted \in Nat /\ ordinal \in Nat
  BY DEF TypeOK
<1>2. \A b \in Branches : next[b] \in Nat /\ seq[b] \in Nat
  BY DEF TypeOK
<1>3. \A b \in Branches : Id(b) \in Calls /\ <<b, next[b]>> \in Calls
  BY <1>2 DEF Id, Calls
<1> QED
  BY <1>1, <1>2, <1>3 DEF Accepted, Observed

(* A step of the worker leaves the journal and the checkpoint alone. *)
LEMMA WorkerKeeps ==
  ASSUME ReplayInv, status = "running",
         UNCHANGED <<run, journal, cancelled, hostStarted, accused>>,
         EntriesInv', LaunchedInv', CommitOrder', StartOrder', ResultInv', AnnounceInv',
         BudgetInv', BranchInv', NewCommits', ReplayedInv'
  PROVE  ReplayInv'
BY DEF ReplayInv, AttemptInv, CheckpointInv, PanelIsAtomic, run, Restored, AgentEntries

(* The port when nothing is sent. *)
LEMMA PortStays ==
  ASSUME UNCHANGED <<wire, journal, cancelled, ordinal, checkpoint, hostStarted, nextSeq, ended, started,
                     prog, announced>>
  PROVE  /\ Commits' = Commits
         /\ CommitOrder => CommitOrder'
         /\ StartOrder => StartOrder'
         /\ ResultInv => ResultInv'
         /\ AnnounceInv => AnnounceInv'
         /\ EntriesInv => EntriesInv'
<1>1. Commits' = Commits
  BY DEF Commits, Frames
<1>2. CommitOrder => CommitOrder'
  BY DEF CommitOrder, Frames
<1>3. StartOrder => StartOrder'
  BY DEF StartOrder, Frames, Accepted
<1>4. ResultInv => ResultInv'
  BY DEF ResultInv, Frames
<1>5. AnnounceInv => AnnounceInv'
  BY DEF AnnounceInv, Frames, Accepted
<1>6. EntriesInv => EntriesInv'
  BY <1>1 DEF EntriesInv, Reachable, KindOf
<1> QED
  BY <1>1, <1>2, <1>3, <1>4, <1>5, <1>6

(* A branch at its turn awaits nothing. *)
LEMMA StepStart ==
  ASSUME TypeOK, ReplayInv, Step
  PROVE  /\ Head(turn) \in Branches /\ call[Head(turn)] = "none" /\ Head(turn) \notin children
         /\ turn # <<>> /\ opened /\ ~ended /\ status = "running"
         /\ EntriesInv /\ CheckpointInv /\ LaunchedInv /\ CommitOrder /\ StartOrder /\ ResultInv /\ AnnounceInv
         /\ BudgetInv /\ TurnInv /\ StartsInv /\ (\A b \in Branches : BranchOK(b)) /\ NewCommits /\ ReplayedInv
         /\ UNCHANGED <<run, opened, journal, cancelled, hostStarted, children, announced, accused, launched>>
<1>1. turn # <<>> /\ ~ended /\ status = "running" /\ UNCHANGED <<run, opened, host, launched>>
  BY DEF Step, Working
<1>2. AttemptInv /\ EntriesInv /\ CheckpointInv /\ LaunchedInv
  BY <1>1 DEF ReplayInv
<1>3. opened
  BY <1>1, <1>2 DEF AttemptInv, BudgetInv, TypeOK
<1>4. Head(turn) \in Branches /\ call[Head(turn)] = "none"
  BY <1>1, <1>2, TurnMoves DEF AttemptInv, BranchInv
<1>5. Head(turn) \notin children
  BY <1>2, <1>4 DEF AttemptInv, BranchInv, BranchOK, PlaceOK
<1> QED
  BY <1>1, <1>2, <1>3, <1>4, <1>5 DEF AttemptInv, BranchInv, host

(* The call a branch makes next is one it can reach. *)
LEMMA ClaimReaches ==
  ASSUME TypeOK, NEW b \in Branches, PlaceOK(b), Kind(b) \in {"agent", "note", "gate"}
  PROVE  /\ Reachable(Id(b)) /\ KindOf(Id(b)) = Kind(b) /\ Id(b) = <<b, next[b] + 1>>
         /\ next[b] + 1 <= Len(prog.body[b]) /\ \A k \in 1 .. next[b] + 1 : prog.body[b][k] # "complete"
<1>1. next[b] \in Nat /\ next[b] + 1 \in 1 .. Len(prog.body[b]) /\ Kind(b) = prog.body[b][next[b] + 1]
  BY KindTypes DEF TypeOK
<1>2. \A k \in 1 .. next[b] + 1 : prog.body[b][k] # "complete"
  <2> SUFFICES ASSUME NEW k \in 1 .. next[b] + 1 PROVE prog.body[b][k] # "complete"
    OBVIOUS
  <2>1. k = next[b] + 1 \/ k \in 1 .. next[b]
    BY <1>1
  <2> QED
    BY <1>1, <2>1 DEF PlaceOK
<1>3. Id(b)[1] = b /\ Id(b)[2] = next[b] + 1 /\ Id(b) = <<b, next[b] + 1>>
  BY DEF Id
<1>4. Len(prog.body[b]) \in Nat
  BY BodyTypes
<1> QED
  BY <1>1, <1>2, <1>3, <1>4 DEF Reachable, KindOf

(* Nothing of the run has committed or launched it, unless the journal holds it. *)
LEMMA ClaimIsNew ==
  ASSUME TypeOK, CheckpointInv, NewCommits, LaunchedInv, NEW b \in Branches, ~Replays(b)
  PROVE  \A e \in Commits : e.id # Id(b)
<1>1. next[b] \in Nat /\ next[b] + 1 \in Nat /\ next[b] + 1 > next[b] /\ Id(b) = <<b, next[b] + 1>>
  BY DEF TypeOK, Id
<1> QED
  BY <1>1, CommitSeqs DEF Replays

(* The place of the branch behind a claim. *)
LEMMA ClaimPlace ==
  ASSUME TypeOK, NEW b \in Branches, PlaceOK(b), Kind(b) \in {"agent", "note", "gate"}, Claim(b), prog' = prog,
         b \notin children', call'[b] \notin {"returned", "child"}
  PROVE  PlaceOK(b)' /\ next'[b] = next[b] + 1 /\ \A d \in Branches \ {b} : next'[d] = next[d]
<1>1. next'[b] = next[b] + 1 /\ \A d \in Branches \ {b} : next'[d] = next[d]
  BY DEF Claim, TypeOK
<1> QED
  BY <1>1, ClaimReaches DEF PlaceOK

(* What a claim does to the scope of the branch. *)
LEMMA ClaimTypes ==
  ASSUME TypeOK, NEW b \in Branches, Claim(b)
  PROVE  /\ next'[b] = next[b] + 1 /\ next'[b] > 0 /\ Id(b) = <<b, next'[b]>>
         /\ \A d \in Branches : next[d] \in Nat /\ next'[d] \in Nat /\ next[d] <= next'[d]
         /\ \A d \in Branches \ {b} : next'[d] = next[d]
         /\ \A d \in Branches, k \in Nat : k <= next'[d] => k <= next[d] \/ <<d, k>> = Id(b)
<1>1. next \in [Branches -> Nat] /\ next' = [next EXCEPT ![b] = @ + 1]
  BY DEF TypeOK, Claim
<1>2. next'[b] = next[b] + 1 /\ \A d \in Branches \ {b} : next'[d] = next[d]
  BY <1>1
<1>3. \A d \in Branches : next[d] \in Nat
  BY <1>1
<1>4. next'[b] > 0 /\ next[b] <= next'[b] /\ next'[b] \in Nat
  BY <1>2, <1>3
<1>5. \A d \in Branches : next[d] \in Nat /\ next'[d] \in Nat /\ next[d] <= next'[d]
  BY <1>2, <1>3, <1>4
<1>6. ASSUME NEW d \in Branches, NEW k \in Nat, k <= next'[d] PROVE k <= next[d] \/ <<d, k>> = Id(b)
  <2>1. CASE d = b
    <3>1. k <= next[b] \/ k = next[b] + 1
      BY <1>2, <1>3, <1>6, <2>1
    <3> QED
      BY <2>1, <3>1 DEF Id
  <2>2. CASE d # b
    BY <1>2, <1>6, <2>2
  <2> QED
    BY <2>1, <2>2
<1> QED
  BY <1>2, <1>4, <1>5, <1>6 DEF Id

(* What is passed over was replayed. *)
LEMMA ReplayedStay ==
  ASSUME TypeOK, CheckpointInv, ReplayedInv, checkpoint' = checkpoint, replayed \subseteq replayed',
         \A d \in Branches, k \in Nat : k <= next'[d] =>
           \/ k <= next[d] \/ <<d, k>> \in replayed' \/ <<d, k>> \notin Ids(checkpoint.journal)
  PROVE  ReplayedInv'
<1> SUFFICES ASSUME NEW id \in Ids(checkpoint.journal), id[2] <= next'[id[1]] PROVE id \in replayed'
  BY DEF ReplayedInv
<1>1. id \in Calls
  BY CommitTypes, RestoredTypes
<1>2. PICK d \in Branches, k \in Nat : id = <<d, k>>
  BY <1>1 DEF Calls
<1>3. k <= next'[d]
  BY <1>2
<1>4. k <= next[d] \/ id \in replayed'
  BY <1>2, <1>3
<1> QED
  BY <1>2, <1>4 DEF ReplayedInv

(* A call is charged once: by its branch's reservation, or now. *)
LEMMA BudgetClaim ==
  ASSUME TypeOK, TypeOK', BudgetInv, NEW b \in Branches, Claim(b), opened, started' <= budget,
         UNCHANGED <<prog, budget, checkpoint, opened>>, ended' = ended,
         \/ /\ reservation' = reservation /\ b \notin reservation
            /\ \/ nextSeq' = nextSeq /\ started' = started
               \/ nextSeq' = nextSeq + 1 /\ started' = started + 1
         \/ /\ reservation' = reservation \ {b} /\ b \in reservation
            /\ nextSeq' = nextSeq + 1 /\ started' = started
  PROVE  BudgetInv'
<1>1. IsFiniteSet(reservation) /\ Cardinality(reservation) \in Nat
  BY ReplayAssumption, FS_Subset, FS_CardinalityType DEF TypeOK
<1> DEFINE n == Cardinality(reservation)
           m == Cardinality(reservation')
<1>2. m = IF b \in reservation THEN n - 1 ELSE n
  BY <1>1, FS_RemoveElement
<1>3. n \in Nat
  BY <1>1
<1>4. started = checkpoint.spend + (nextSeq - checkpoint.seq) + n /\ started <= budget
  BY DEF BudgetInv
<1>5. started \in Nat /\ nextSeq \in Nat /\ checkpoint.spend \in Nat /\ checkpoint.seq \in Nat
  BY DEF TypeOK
<1> HIDE DEF n, m
<1>6. started' = checkpoint.spend + (nextSeq' - checkpoint.seq) + m
  <2>1. CASE b \in reservation
    <3>1. nextSeq' = nextSeq + 1 /\ started' = started /\ m = n - 1
      BY <1>2, <2>1
    <3> QED
      BY <1>3, <1>4, <1>5, <3>1
  <2>2. CASE b \notin reservation
    <3>1. (nextSeq' = nextSeq /\ started' = started) \/ (nextSeq' = nextSeq + 1 /\ started' = started + 1)
      BY <2>2
    <3>2. m = n
      BY <1>2, <2>2
    <3> QED
      BY <1>3, <1>4, <1>5, <3>1, <3>2
  <2> QED
    BY <2>1, <2>2
<1>7. \A d \in Branches \ {b} : next'[d] = next[d]
  BY ClaimTypes
<1>8. next'[b] > 0
  BY ClaimTypes
<1>9. reservation' \subseteq reservation /\ b \notin reservation' /\ reservation \subseteq reservation' \cup {b}
      /\ reservation \subseteq Branches
  BY DEF TypeOK
<1>10. \A d \in reservation' : next'[d] = 0 /\ <<d, 1>> \notin Ids(checkpoint.journal)
  <2>1. \A d \in reservation : next[d] = 0 /\ <<d, 1>> \notin Ids(checkpoint.journal)
    BY DEF BudgetInv
  <2>2. \A d \in reservation' : d \in reservation /\ d \in Branches \ {b}
    BY <1>9
  <2> QED
    BY <1>7, <2>1, <2>2
<1>11. prog.panel /\ opened /\ ~ended =>
         \A d \in Branches \ reservation' : next'[d] > 0 \/ <<d, 1>> \in Ids(checkpoint.journal)
  BY <1>7, <1>8, <1>9 DEF BudgetInv
<1>12. ~prog.panel => reservation' = {}
  BY <1>9 DEF BudgetInv
<1> QED
  BY <1>6, <1>10, <1>11, <1>12 DEF BudgetInv, m

(* What the claims have in common. *)
LEMMA ClaimKeeps ==
  ASSUME TypeOK, TypeOK', ReplayInv, Step, NEW b \in Branches, b = Head(turn),
         Kind(b) \in {"agent", "note", "gate"}, Claim(b), call'[b] \in {"none", "start", "gate"},
         \A d \in Branches \ {b} : call'[d] = call[d] /\ seq'[d] = seq[d],
         NEW X, Commits' \subseteq Commits \cup X, \A x \in X : x.id = Id(b) /\ x.seq = 0,
         nextSeq <= nextSeq', call'[b] = "start" => seq'[b] > nextSeq,
         replayed \subseteq replayed', Replays(b) => Id(b) \in replayed'
  PROVE  /\ PlaceOK(b)' /\ \A d \in Branches \ {b} : BranchOK(d)'
         /\ NewCommits' /\ ReplayedInv'
<1>0. /\ call[b] = "none" /\ b \notin children
      /\ CheckpointInv /\ BranchInv /\ PlaceOK(b) /\ NewCommits /\ ReplayedInv
      /\ prog' = prog /\ checkpoint' = checkpoint
      /\ UNCHANGED <<run, opened, journal, cancelled, hostStarted, children, announced, accused, launched>>
  BY StepStart DEF BranchInv, BranchOK, run
<1>1. PlaceOK(b)'
  BY <1>0, ClaimPlace
<1>2. ASSUME NEW d \in Branches \ {b} PROVE BranchOK(d)'
  <2>1. next'[d] = next[d] /\ call'[d] = call[d] /\ seq'[d] = seq[d] /\ (d \in children' <=> d \in children)
    BY <1>0, ClaimTypes
  <2>2. \A c \in Branches \ {b, d} : call'[c] = call[c] /\ seq'[c] = seq[c]
    OBVIOUS
  <2>3. \A x \in X : x.id[1] = b /\ (x.seq = 0 \/ (x.seq = seq[b] /\ call[b] \in {"start", "child"}))
    BY DEF Id
  <2>4. call'[b] \in {"start", "child"} =>
          seq'[b] > nextSeq \/ (seq'[b] = seq[b] /\ call[b] \in {"start", "child"})
    OBVIOUS
  <2>5. UNCHANGED <<prog, checkpoint, launched, hostStarted>>
    BY <1>0
  <2> HIDE DEF BranchInv
  <2> QED
    BY <1>0, <2>1, <2>2, <2>3, <2>4, <2>5, OthersStay
<1>3. NewCommits'
  <2>1. checkpoint' = checkpoint /\ hostStarted' = hostStarted
    BY <1>0
  <2> SUFFICES ASSUME NEW e \in Commits', e \notin Restored
               PROVE  e.id[2] <= next'[e.id[1]] /\ (e.seq > 0 => e.seq \in checkpoint.seq + 1 .. Accepted)
    BY <2>1 DEF NewCommits, Restored, Accepted
  <2>2. CASE e \in X
    <3>1. e.id = <<b, next'[b]>> /\ e.seq = 0 /\ next'[b] \in Nat
      BY <2>2, ClaimTypes
    <3> QED
      BY <3>1
  <2>3. CASE e \in Commits
    <3>1. e.id[1] \in Branches /\ e.id[2] \in Nat
      BY <2>3, CommitTypes DEF Calls
    <3>2. next[e.id[1]] \in Nat /\ next'[e.id[1]] \in Nat /\ next[e.id[1]] <= next'[e.id[1]]
      BY <3>1, ClaimTypes
    <3>3. e.id[2] <= next[e.id[1]] /\ (e.seq > 0 => e.seq \in checkpoint.seq + 1 .. Accepted)
      BY <1>0, <2>3 DEF NewCommits
    <3> QED
      BY <3>1, <3>2, <3>3
  <2> QED
    BY <2>2, <2>3
<1>4. ReplayedInv'
  <2>1. ASSUME NEW d \in Branches, NEW k \in Nat, k <= next'[d]
        PROVE  k <= next[d] \/ <<d, k>> \in replayed' \/ <<d, k>> \notin Ids(checkpoint.journal)
    BY <2>1, ClaimTypes DEF Replays
  <2> QED
    BY <1>0, <2>1, ReplayedStay
<1> QED
  BY <1>1, <1>2, <1>3, <1>4

(* One lemma per action of a branch. *)
LEMMA ReplayCallKeeps ==
  ASSUME TypeOK, TypeOK', ReplayInv, Step, NEW b \in Branches, b = Head(turn), ReplayCall(b)
  PROVE  ReplayInv'
<1>0. /\ call[b] = "none" /\ b \notin children
      /\ turn # <<>> /\ opened /\ ~ended /\ status = "running"
      /\ EntriesInv /\ LaunchedInv /\ CommitOrder /\ StartOrder /\ ResultInv /\ AnnounceInv
      /\ BudgetInv /\ TurnInv /\ StartsInv
      /\ UNCHANGED <<run, opened, journal, cancelled, hostStarted, children, announced, accused, launched>>
      /\ UNCHANGED <<prog, attempt, budget, status, checkpoint>>
  BY StepStart DEF run
<1>1. /\ Kind(b) \in {"agent", "note", "gate"} /\ Replays(b) /\ Claim(b) /\ replayed' = replayed \cup {Id(b)}
      /\ turn' = turn \/ turn' = Append(Tail(turn), b)
      /\ UNCHANGED <<call, seq, reservation, started, nextSeq, ordinal, ended, wire, finished>>
  BY DEF ReplayCall
<1>2. Commits' = Commits /\ EntriesInv' /\ CommitOrder' /\ StartOrder' /\ ResultInv' /\ AnnounceInv'
  BY <1>0, <1>1, PortStays
<1>3. LaunchedInv'
  BY <1>0, <1>2, LaunchedStay
<1>4. /\ PlaceOK(b)' /\ \A d \in Branches \ {b} : BranchOK(d)'
      /\ NewCommits' /\ ReplayedInv'
  <2>1. call'[b] \in {"none", "start", "gate"} /\ (call'[b] = "start" => seq'[b] > nextSeq) /\ nextSeq <= nextSeq'
        /\ \A d \in Branches \ {b} : call'[d] = call[d] /\ seq'[d] = seq[d]
    BY <1>0, <1>1 DEF TypeOK
  <2> DEFINE X == {}
  <2>2. Commits' \subseteq Commits \cup X /\ \A x \in X : x.id = Id(b) /\ x.seq = 0
    BY <1>2
  <2> HIDE DEF X
  <2> QED
    BY <1>0, <1>1, <2>1, <2>2, ClaimKeeps
<1>5. BudgetInv'
  <2>1. b \notin reservation
    <3>1. b \in reservation => Id(b) = <<b, 1>> /\ <<b, 1>> \notin Ids(checkpoint.journal)
      BY <1>0 DEF BudgetInv, Id
    <3> QED
      BY <1>1, <3>1 DEF Replays
  <2>2. started' <= budget /\ ended' = ended
    BY <1>0, <1>1 DEF BudgetInv
  <2> QED
    BY <1>0, <1>1, <2>1, <2>2, BudgetClaim
<1>6. TurnInv'
  BY <1>0, <1>1, TurnMoves DEF TurnInv
<1>7. StartsInv'
  <2>1. \A d \in Branches \ {b} : next'[d] = next[d]
    BY <1>1, ClaimTypes
  <2> QED
    BY <1>0, <1>1, <2>1, StartsStay
<1>8. BranchInv'
  <2>1. call'[b] = "none"
    BY <1>0, <1>1
  <2>2. BranchOK(b)'
    BY <1>4, <2>1 DEF BranchOK, AwaitOK, MemberOK, Awaiting
  <2> QED
    BY <1>4, <1>6, <1>7, <2>2 DEF BranchInv
<1> QED
  BY <1>0, <1>1, <1>2, <1>3, <1>4, <1>5, <1>8, WorkerKeeps

LEMMA NoteKeeps ==
  ASSUME TypeOK, TypeOK', ReplayInv, Step, NEW b \in Branches, b = Head(turn), Note(b)
  PROVE  ReplayInv'
<1>0. /\ call[b] = "none" /\ b \notin children /\ PlaceOK(b)
      /\ turn # <<>> /\ opened /\ ~ended /\ status = "running"
      /\ EntriesInv /\ CheckpointInv /\ LaunchedInv /\ CommitOrder /\ StartOrder /\ ResultInv /\ AnnounceInv
      /\ BudgetInv /\ TurnInv /\ StartsInv /\ NewCommits
      /\ UNCHANGED <<run, opened, journal, cancelled, hostStarted, children, announced, accused, launched>>
      /\ UNCHANGED <<prog, attempt, budget, status, checkpoint>>
  BY StepStart DEF run, BranchOK
<1> DEFINE m == Commit(Id(b), ordinal + 1, 0)
<1>1. /\ Kind(b) = "note" /\ ~Replays(b) /\ Claim(b) /\ ordinal' = ordinal + 1 /\ wire' = Append(wire, m)
      /\ UNCHANGED <<turn, call, seq, reservation, replayed, started, nextSeq, ended, finished>>
  BY DEF Note
<1>2. /\ m \in FrameRecord /\ m.type = "commit" /\ m.n = ordinal + 1
      /\ Entry(m) = [id |-> Id(b), ordinal |-> ordinal + 1, seq |-> 0]
  <2>1. Id(b) \in Calls /\ ordinal \in Nat
    BY NumberTypes
  <2> QED
    BY <2>1, FrameTypes
<1> DEFINE x == [id |-> Id(b), ordinal |-> ordinal + 1, seq |-> 0]
<1> HIDE DEF m
<1>3. Commits' = Commits \cup {x} /\ CommitOrder' /\ StartOrder' /\ ResultInv' /\ AnnounceInv'
  BY <1>0, <1>1, <1>2, SentCommits, SentCommitOrder, SentStartOrder, SentNoResult, SentAnnounce
<1>4. x.id = Id(b) /\ x.seq = 0
  OBVIOUS
<1> HIDE DEF x
<1>5. Reachable(Id(b)) /\ KindOf(Id(b)) = "note"
  BY <1>0, <1>1, ClaimReaches
<1>6. \A e \in Commits : e.id # Id(b)
  BY <1>0, <1>1, ClaimIsNew
<1>7. EntriesInv'
  <2>1. \A e \in Commits : e.id # x.id /\ (e.seq = x.seq => ~(e.seq > 0))
    BY <1>4, <1>6
  <2>2. Commits' \subseteq Commits \cup {x} /\ UNCHANGED <<prog, journal>>
    BY <1>0, <1>3
  <2>3. Reachable(x.id) /\ (x.seq = 0 <=> KindOf(x.id) # "agent")
    BY <1>4, <1>5
  <2> QED
    BY <1>0, <2>1, <2>2, <2>3, EntriesGrow
<1>8. LaunchedInv'
  <2>1. \A l \in launched : l.id # x.id
    BY <1>0, <1>4, <1>5 DEF LaunchedInv
  <2> QED
    BY <1>0, <1>3, <2>1, LaunchedStay
<1>9. /\ PlaceOK(b)' /\ \A d \in Branches \ {b} : BranchOK(d)'
      /\ NewCommits' /\ ReplayedInv'
  <2>1. call'[b] \in {"none", "start", "gate"} /\ (call'[b] = "start" => seq'[b] > nextSeq) /\ nextSeq <= nextSeq'
        /\ replayed \subseteq replayed' /\ \A d \in Branches \ {b} : call'[d] = call[d] /\ seq'[d] = seq[d]
    BY <1>0, <1>1 DEF TypeOK
  <2>2. Commits' \subseteq Commits \cup {x} /\ \A y \in {x} : y.id = Id(b) /\ y.seq = 0
    BY <1>3, <1>4
  <2> QED
    BY <1>0, <1>1, <2>1, <2>2, ClaimKeeps
<1>10. BudgetInv'
  <2>1. ~prog.panel
    <3>1. prog.panel => prog.body[b] = <<"agent">>
      BY BodyTypes
    <3>2. next[b] + 1 \in 1 .. Len(prog.body[b]) /\ Kind(b) = prog.body[b][next[b] + 1]
      BY <1>1, KindTypes
    <3> QED
      BY <1>1, <3>1, <3>2
  <2>2. b \notin reservation /\ started' <= budget /\ ended' = ended
    BY <1>0, <1>1, <2>1 DEF BudgetInv
  <2> QED
    BY <1>0, <1>1, <2>2, BudgetClaim
<1>11. BranchInv'
  <2>1. call'[b] = "none"
    BY <1>0, <1>1
  <2>2. BranchOK(b)'
    BY <1>9, <2>1 DEF BranchOK, AwaitOK, MemberOK, Awaiting
  <2>3. TurnInv'
    BY <1>0, <1>1 DEF TurnInv
  <2>4. StartsInv'
    <3>1. \A d \in Branches \ {b} : next'[d] = next[d]
      BY <1>1, ClaimTypes
    <3>2. \E f \in FrameRecord : f.type # "child-start" /\ wire' = Append(wire, f)
      BY <1>1, <1>2
    <3> QED
      BY <1>0, <1>1, <3>1, <3>2, StartsStay
  <2> QED
    BY <1>9, <2>2, <2>3, <2>4 DEF BranchInv
<1> QED
  BY <1>0, <1>1, <1>3, <1>7, <1>8, <1>9, <1>10, <1>11, WorkerKeeps

LEMMA GateKeeps ==
  ASSUME TypeOK, TypeOK', ReplayInv, Step, NEW b \in Branches, b = Head(turn), Gate(b)
  PROVE  ReplayInv'
<1>0. /\ call[b] = "none" /\ b \notin children /\ PlaceOK(b)
      /\ turn # <<>> /\ opened /\ ~ended /\ status = "running"
      /\ EntriesInv /\ CheckpointInv /\ LaunchedInv /\ CommitOrder /\ StartOrder /\ ResultInv /\ AnnounceInv
      /\ BudgetInv /\ TurnInv /\ StartsInv /\ NewCommits
      /\ UNCHANGED <<run, opened, journal, cancelled, hostStarted, children, announced, accused, launched>>
      /\ UNCHANGED <<prog, attempt, budget, status, checkpoint>>
  BY StepStart DEF run, BranchOK
<1>1. /\ Kind(b) = "gate" /\ ~Replays(b) /\ Claim(b)
      /\ call' = [call EXCEPT ![b] = "gate"] /\ turn' = Tail(turn)
      /\ UNCHANGED <<seq, reservation, replayed, started, nextSeq, ordinal, ended, wire, finished>>
  BY DEF Gate
<1>2. call'[b] = "gate" /\ \A d \in Branches \ {b} : call'[d] = call[d]
  BY <1>1 DEF TypeOK
<1>3. Commits' = Commits /\ EntriesInv' /\ CommitOrder' /\ StartOrder' /\ ResultInv' /\ AnnounceInv'
  BY <1>0, <1>1, PortStays
<1>4. LaunchedInv'
  BY <1>0, <1>3, LaunchedStay
<1>5. /\ PlaceOK(b)' /\ \A d \in Branches \ {b} : BranchOK(d)'
      /\ NewCommits' /\ ReplayedInv'
  <2>1. call'[b] \in {"none", "start", "gate"} /\ (call'[b] = "start" => seq'[b] > nextSeq) /\ nextSeq <= nextSeq'
        /\ replayed \subseteq replayed' /\ \A d \in Branches \ {b} : call'[d] = call[d] /\ seq'[d] = seq[d]
    BY <1>0, <1>1, <1>2 DEF TypeOK
  <2> DEFINE X == {}
  <2>2. Commits' \subseteq Commits \cup X /\ \A y \in X : y.id = Id(b) /\ y.seq = 0
    BY <1>3
  <2> HIDE DEF X
  <2> QED
    BY <1>0, <1>1, <2>1, <2>2, ClaimKeeps
<1>6. BudgetInv'
  <2>1. ~prog.panel
    <3>1. prog.panel => prog.body[b] = <<"agent">>
      BY BodyTypes
    <3>2. next[b] + 1 \in 1 .. Len(prog.body[b]) /\ Kind(b) = prog.body[b][next[b] + 1]
      BY <1>1, KindTypes
    <3> QED
      BY <1>1, <3>1, <3>2
  <2>2. b \notin reservation /\ started' <= budget /\ ended' = ended
    BY <1>0, <1>1, <2>1 DEF BudgetInv
  <2> QED
    BY <1>0, <1>1, <2>2, BudgetClaim
<1>7. BranchInv'
  <2>1. AwaitOK(b)'
    <3>1. next'[b] > 0 /\ Id(b) = <<b, next'[b]>>
      BY <1>1, ClaimTypes
    <3>2. KindOf(Id(b)) = "gate"
      BY <1>0, <1>1, ClaimReaches
    <3>3. \A e \in Commits' : e.id # Id(b)
      BY <1>0, <1>1, <1>3, ClaimIsNew
    <3>4. KindOf(<<b, next[b]>>)' = "gate"
      BY <1>0, <3>1, <3>2 DEF KindOf
    <3> QED
      BY <1>2, <3>1, <3>3, <3>4 DEF AwaitOK
  <2>2. BranchOK(b)'
    BY <1>2, <1>5, <2>1 DEF BranchOK, MemberOK
  <2>3. TurnInv'
    BY <1>0, <1>1, <1>2, TurnMoves
  <2>4. StartsInv'
    <3>1. \A d \in Branches \ {b} : next'[d] = next[d]
      BY <1>1, ClaimTypes
    <3> QED
      BY <1>0, <1>1, <1>2, <3>1, StartsStay
  <2> QED
    BY <1>5, <2>2, <2>3, <2>4 DEF BranchInv
<1> QED
  BY <1>0, <1>1, <1>3, <1>4, <1>5, <1>6, <1>7, WorkerKeeps

LEMMA AgentKeeps ==
  ASSUME TypeOK, TypeOK', ReplayInv, Step, NEW b \in Branches, b = Head(turn), Agent(b)
  PROVE  ReplayInv'
<1>0. /\ call[b] = "none" /\ b \notin children /\ PlaceOK(b)
      /\ turn # <<>> /\ opened /\ ~ended /\ status = "running"
      /\ EntriesInv /\ CheckpointInv /\ LaunchedInv /\ CommitOrder /\ StartOrder /\ ResultInv /\ AnnounceInv
      /\ BudgetInv /\ TurnInv /\ StartsInv /\ NewCommits /\ \A d \in Branches : BranchOK(d)
      /\ UNCHANGED <<run, opened, journal, cancelled, hostStarted, children, announced, accused, launched>>
      /\ UNCHANGED <<prog, attempt, budget, status, checkpoint>>
  BY StepStart DEF run, BranchOK
<1> DEFINE m == Start(b, nextSeq + 1)
<1>1. /\ Kind(b) = "agent" /\ ~Replays(b) /\ Claim(b) /\ (b \in reservation \/ started < budget)
      /\ reservation' = reservation \ {b} /\ started' = IF b \in reservation THEN started ELSE started + 1
      /\ nextSeq' = nextSeq + 1 /\ seq' = [seq EXCEPT ![b] = nextSeq + 1]
      /\ call' = [call EXCEPT ![b] = "start"] /\ turn' = Tail(turn)
      /\ wire' = Append(wire, m)
      /\ UNCHANGED <<replayed, ordinal, ended, finished>>
  BY DEF Agent
<1>2. /\ call'[b] = "start" /\ seq'[b] = nextSeq + 1
      /\ \A d \in Branches \ {b} : call'[d] = call[d] /\ seq'[d] = seq[d]
  BY <1>1 DEF TypeOK
<1>3. m \in FrameRecord /\ m.type = "child-start" /\ m.id = Id(b) /\ m.seq = nextSeq + 1
  <2>1. nextSeq + 1 \in Nat
    BY DEF TypeOK
  <2> QED
    BY <2>1, FrameTypes
<1> HIDE DEF m
<1>4. CommitOrder' /\ StartOrder' /\ ResultInv' /\ AnnounceInv' /\ Commits' = Commits
  BY <1>0, <1>1, <1>3, SentCommits, SentCommitOrder, SentStartOrder, SentNoResult, SentAnnounce
<1>5. EntriesInv' /\ LaunchedInv'
  <2>1. \A i \in DOMAIN journal' : journal'[i].ordinal = i
    BY <1>0 DEF EntriesInv
  <2> QED
    BY <1>0, <1>4, <2>1, EntriesShrink, LaunchedStay
<1>6. /\ nextSeq \in Nat /\ nextSeq' \in Nat /\ started \in Nat /\ budget \in Nat
      /\ checkpoint.seq \in Nat /\ Accepted \in Nat
      /\ checkpoint.seq <= Accepted /\ Accepted <= nextSeq /\ Accepted = checkpoint.seq + hostStarted
  <2>1. Accepted <= nextSeq
    BY <1>0 DEF StartOrder
  <2>2. nextSeq' \in Nat
    BY <1>1, NumberTypes
  <2> QED
    BY <2>1, <2>2, NumberTypes
<1>7. /\ PlaceOK(b)' /\ \A d \in Branches \ {b} : BranchOK(d)'
      /\ NewCommits' /\ ReplayedInv'
  <2>1. call'[b] \in {"none", "start", "gate"} /\ (call'[b] = "start" => seq'[b] > nextSeq) /\ nextSeq <= nextSeq'
        /\ replayed \subseteq replayed'
    BY <1>1, <1>2, <1>6
  <2> DEFINE X == {}
  <2>2. Commits' \subseteq Commits \cup X /\ \A y \in X : y.id = Id(b) /\ y.seq = 0
    BY <1>4
  <2> HIDE DEF X
  <2> QED
    BY <1>0, <1>1, <1>2, <2>1, <2>2, ClaimKeeps
<1>8. BudgetInv'
  <2>1. started' <= budget
    BY <1>0, <1>1, <1>6 DEF BudgetInv
  <2>2. \/ /\ reservation' = reservation /\ b \notin reservation
           /\ \/ nextSeq' = nextSeq /\ started' = started
              \/ nextSeq' = nextSeq + 1 /\ started' = started + 1
        \/ /\ reservation' = reservation \ {b} /\ b \in reservation
           /\ nextSeq' = nextSeq + 1 /\ started' = started
    BY <1>1
  <2> QED
    BY <1>0, <1>1, <2>1, <2>2, BudgetClaim
<1>9. AwaitOK(b)'
  <2>1. next'[b] > 0 /\ Id(b) = <<b, next'[b]>>
    BY <1>1, ClaimTypes
  <2>2. KindOf(Id(b)) = "agent"
    BY <1>0, <1>1, ClaimReaches
  <2>3. \A e \in Commits' : e.id # Id(b)
    BY <1>0, <1>1, <1>4, ClaimIsNew
  <2>4. KindOf(<<b, next[b]>>)' = "agent"
    BY <1>0, <2>1, <2>2 DEF KindOf
  <2> QED
    BY <1>2, <2>1, <2>3, <2>4 DEF AwaitOK
<1>10. MemberOK(b)'
  <2>1. seq'[b] \in checkpoint'.seq + 1 .. nextSeq'
    BY <1>0, <1>1, <1>2, <1>6
  <2>2. \A e \in Commits' : e.seq # seq'[b]
    <3>1. \A e \in Commits : e.seq \in Nat /\ e.seq <= Accepted
      BY <1>0, CommitTypes, CommitSeqs
    <3> QED
      BY <1>2, <1>4, <1>6, <3>1
  <2>3. \A d \in Branches \ {b} : call'[d] \in {"start", "child"} => seq'[d] # seq'[b]
    <3>1. \A d \in Branches \ {b} : call[d] \in {"start", "child"} => seq[d] \in checkpoint.seq + 1 .. nextSeq
      BY <1>0 DEF BranchOK, MemberOK
    <3> QED
      BY <1>2, <1>6, <3>1
  <2>4. \A l \in launched' : l.seq <= seq'[b]
    <3>1. \A l \in launched : l.seq <= Accepted /\ l.seq \in Nat
      BY <1>0, <1>6 DEF LaunchedInv, TypeOK
    <3> QED
      BY <1>0, <1>2, <1>6, <3>1
  <2> QED
    BY <2>1, <2>2, <2>3, <2>4 DEF MemberOK
<1>11. StartsInv'
  <2>1. \A d \in Branches \ {b} : next'[d] = next[d]
    BY <1>1, ClaimTypes
  <2>2. next'[b] > 0 /\ Id(b) = <<b, next'[b]>>
    BY <1>1, ClaimTypes
  <2>3. \A i \in Frames("child-start")' : (i \in Frames("child-start") /\ wire'[i] = wire[i]) \/ wire'[i] = m
    BY <1>1, <1>3, SentFrame DEF Frames
  <2>4. \A i \in Frames("child-start") : wire[i].id[1] \in Branches \ {b}
    BY <1>0 DEF StartsInv
  <2> SUFFICES ASSUME NEW i \in Frames("child-start")'
               PROVE  LET d == wire'[i].id[1] IN
                      /\ d \in Branches /\ wire'[i].id = <<d, next'[d]>> /\ wire'[i].seq = seq'[d]
                      /\ call'[d] = "start" /\ d \notin children'
    BY DEF StartsInv
  <2>5. CASE wire'[i] = m
    BY <1>0, <1>2, <1>3, <2>2, <2>5
  <2>6. CASE i \in Frames("child-start") /\ wire'[i] = wire[i]
    BY <1>0, <1>2, <2>1, <2>4, <2>6 DEF StartsInv
  <2> QED
    BY <2>3, <2>5, <2>6
<1>12. BranchInv'
  <2>1. TurnInv'
    BY <1>0, <1>1, <1>2, TurnMoves
  <2> QED
    BY <1>7, <1>9, <1>10, <1>11, <2>1 DEF BranchInv, BranchOK
<1> QED
  BY <1>0, <1>1, <1>4, <1>5, <1>7, <1>8, <1>12, WorkerKeeps

-----------------------------------------------------------------------------
(* The end of drive(), and of a branch. *)

(* A branch that has made all its calls. *)
Exhausted(d) == call[d] = "none" /\ next[d] = Len(prog.body[d]) /\ d \notin children

(* A branch that returns had nothing under way. *)
LEMMA BranchesReturn ==
  ASSUME StartsInv, \A d \in Branches : BranchOK(d),
         UNCHANGED <<next, seq, nextSeq, prog, checkpoint, hostStarted, children, launched>>, Commits' = Commits,
         \A d \in Branches : call'[d] = call[d] \/ (call'[d] = "returned" /\ Exhausted(d)),
         \A i \in Frames("child-start")' : i \in Frames("child-start") /\ wire'[i] = wire[i]
  PROVE  StartsInv' /\ \A d \in Branches : BranchOK(d)'
<1>1. StartsInv'
  BY DEF StartsInv, Exhausted
<1>2. ASSUME NEW d \in Branches PROVE BranchOK(d)'
  <2>1. PlaceOK(d) /\ AwaitOK(d) /\ MemberOK(d)
    BY DEF BranchOK
  <2>2. next' = next /\ seq' = seq /\ prog' = prog /\ children' = children /\ Accepted' = Accepted
    BY DEF Accepted
  <2>3. PlaceOK(d)'
    <3>1. CASE call'[d] = call[d]
      BY <2>1, <2>2, <3>1 DEF PlaceOK
    <3>2. CASE call'[d] = "returned" /\ Exhausted(d)
      BY <2>1, <2>2, <3>2 DEF PlaceOK, Exhausted
    <3> QED
      BY <3>1, <3>2
  <2>4. AwaitOK(d)'
    <3>1. call'[d] \in Awaiting => call'[d] = call[d]
      BY DEF Awaiting
    <3> QED
      BY <2>1, <2>2, <3>1 DEF AwaitOK, KindOf, Awaiting
  <2>5. MemberOK(d)'
    <3>1. \A c \in Branches : call'[c] \in {"start", "child"} => call'[c] = call[c]
      OBVIOUS
    <3> QED
      BY <2>1, <2>2, <3>1 DEF MemberOK
  <2> QED
    BY <2>3, <2>4, <2>5 DEF BranchOK
<1> QED
  BY <1>1, <1>2

(* The result goes out when nothing the journal holds is left unread, or for a good reason. *)
LEMMA DriveKeeps ==
  ASSUME TypeOK, TypeOK', ReplayInv, status = "running", ~ended,
         NEW how \in {"cap", "completed", "diverged", "cancelled"}, Drive(how, started),
         how = "cancelled" => cancelled, how = "diverged" => ~CompletesAlone,
         how = "cap" /\ prog.panel => nextSeq = checkpoint.seq,
         UNCHANGED <<run, next, seq, reservation, started, nextSeq, ordinal>>,
         UNCHANGED <<host, launched>>,
         \A d \in Branches : call'[d] = call[d] \/ (call'[d] = "returned" /\ Exhausted(d)),
         (opened' = opened /\ call' = call) \/ opened' = TRUE,
         ReplayedInv'
  PROVE  ReplayInv'
<1>0. /\ EntriesInv /\ LaunchedInv /\ CommitOrder /\ StartOrder /\ ResultInv /\ AnnounceInv
      /\ BudgetInv /\ TurnInv /\ StartsInv /\ NewCommits /\ \A d \in Branches : BranchOK(d)
      /\ UNCHANGED <<prog, attempt, budget, status, checkpoint>>
      /\ UNCHANGED <<journal, cancelled, hostStarted, children, announced, accused>>
      /\ UNCHANGED <<next, seq, reservation, started, nextSeq, ordinal, launched>>
  BY DEF ReplayInv, AttemptInv, BranchInv, run, host
<1> DEFINE m == Result(how, started)
<1>1. /\ ended' = TRUE /\ turn' = <<>> /\ wire' = Append(wire, m)
      /\ m \in FrameRecord /\ m.type = "result"
  <2>1. m \in FrameRecord /\ m.type = "result"
    BY NumberTypes, FrameTypes
  <2> QED
    BY <2>1 DEF Drive
<1>2. ResultInv'
  BY <1>0, SentResult
<1> HIDE DEF m
<1>3. Commits' = Commits /\ CommitOrder' /\ StartOrder' /\ AnnounceInv'
  BY <1>0, <1>1, SentCommits, SentCommitOrder, SentStartOrder, SentAnnounce
<1>4. EntriesInv' /\ LaunchedInv'
  <2>1. \A i \in DOMAIN journal' : journal'[i].ordinal = i
    BY <1>0 DEF EntriesInv
  <2> QED
    BY <1>0, <1>3, <2>1, EntriesShrink, LaunchedStay
<1>5. BudgetInv'
  <2>1. \A d \in reservation' : next'[d] = 0 /\ <<d, 1>> \notin Ids(checkpoint'.journal)
    BY <1>0 DEF BudgetInv
  <2>2. ~opened' => /\ reservation' = {} /\ nextSeq' = checkpoint'.seq /\ turn' = <<>>
                    /\ \A d \in Branches : next'[d] = 0 /\ call'[d] = "none"
    BY <1>0, <1>1 DEF BudgetInv
  <2>3. /\ started' = checkpoint'.spend + (nextSeq' - checkpoint'.seq) + Cardinality(reservation')
        /\ started' <= budget' /\ (~prog'.panel => reservation' = {})
    BY <1>0 DEF BudgetInv
  <2> QED
    BY <1>1, <2>1, <2>2, <2>3 DEF BudgetInv
<1>6. BranchInv'
  <2>1. TurnInv'
    BY <1>1 DEF TurnInv
  <2>2. \A i \in Frames("child-start")' : i \in Frames("child-start") /\ wire'[i] = wire[i]
    BY <1>1, SentFrame DEF Frames
  <2> QED
    BY <1>0, <1>3, <2>1, <2>2, BranchesReturn DEF BranchInv
<1>7. NewCommits'
  BY <1>0, <1>3 DEF NewCommits, Restored, Accepted
<1> QED
  BY <1>0, <1>2, <1>3, <1>4, <1>5, <1>6, <1>7, WorkerKeeps

(* A script that ends has replayed all that the journal holds. *)
LEMMA NothingMissed ==
  ASSUME TypeOK, EntriesInv, CheckpointInv, ReplayedInv,
         \A d \in Branches, k \in Nat : Reachable(<<d, k>>) => k <= next[d]
  PROVE  CompletedResult = "completed"
<1>1. ASSUME NEW id \in Ids(checkpoint.journal) PROVE id \in replayed
  <2>1. PICK e \in Commits : e.id = id
    BY RestoredTypes
  <2>2. Reachable(id) /\ id \in Calls
    BY <2>1, CommitTypes DEF EntriesInv
  <2>3. PICK d \in Branches, k \in Nat : id = <<d, k>>
    BY <2>2 DEF Calls
  <2>4. id[2] <= next[id[1]]
    BY <2>2, <2>3
  <2> QED
    BY <2>4 DEF ReplayedInv
<1> QED
  BY <1>1 DEF CompletedResult, Missed

(* The agents of a panel were reserved, so none of them meets the cap. *)
LEMMA AgentCapKeeps ==
  ASSUME TypeOK, TypeOK', ReplayInv, Step, NEW b \in Branches, b = Head(turn), AgentCap(b)
  PROVE  ReplayInv'
<1>1. /\ Kind(b) = "agent" /\ ~Replays(b) /\ b \notin reservation /\ Drive("cap", started)
      /\ UNCHANGED <<next, call, seq, reservation, replayed, started, nextSeq, ordinal, finished>>
  BY DEF AgentCap
<1>2. /\ opened /\ ~ended /\ status = "running" /\ BudgetInv /\ ReplayedInv
      /\ UNCHANGED <<run, opened, host, launched>>
  BY StepStart DEF Step
<1>3. ~prog.panel
  <2>1. prog.panel => prog.body[b] = <<"agent">>
    BY BodyTypes
  <2>2. next[b] + 1 \in 1 .. Len(prog.body[b]) /\ next[b] \in Nat
    BY <1>1, KindTypes DEF TypeOK
  <2>3. prog.panel => next[b] = 0
    <3> SUFFICES ASSUME prog.panel PROVE next[b] = 0
      OBVIOUS
    <3>1. Len(prog.body[b]) = 1
      BY <2>1
    <3>2. next[b] + 1 \in 1 .. 1
      BY <2>2, <3>1
    <3> QED
      BY <2>2, <3>2
  <2>4. next[b] = 0 => <<b, 1>> \notin Ids(checkpoint.journal)
    BY <1>1 DEF Replays, Id
  <2> QED
    BY <1>1, <1>2, <2>3, <2>4 DEF BudgetInv
<1>4. ReplayedInv'
  BY <1>1, <1>2 DEF ReplayedInv, run
<1> QED
  BY <1>1, <1>2, <1>3, <1>4, DriveKeeps

LEMMA CompleteKeeps ==
  ASSUME TypeOK, TypeOK', ReplayInv, Step, NEW b \in Branches, b = Head(turn), Complete(b)
  PROVE  ReplayInv'
<1>1. /\ Kind(b) = "complete" /\ Drive(CompletedResult, started)
      /\ UNCHANGED <<next, call, seq, reservation, replayed, started, nextSeq, ordinal>>
  BY DEF Complete
<1>2. /\ opened /\ ~ended /\ status = "running" /\ EntriesInv /\ CheckpointInv /\ ReplayedInv
      /\ UNCHANGED <<run, opened, host, launched>>
  BY StepStart DEF Step
<1>3. CompletesAlone => CompletedResult = "completed"
  <2> SUFFICES ASSUME CompletesAlone, NEW d \in Branches, NEW k \in Nat, Reachable(<<d, k>>)
               PROVE  k <= next[d]
    BY <1>2, NothingMissed
  <2>1. /\ next[b] + 1 \in 1 .. Len(prog.body[b]) /\ prog.body[b][next[b] + 1] = "complete" /\ next[b] \in Nat
        /\ prog.body[b] \in Seq({"agent", "note", "gate", "complete"})
    BY <1>1, KindTypes, BodyTypes DEF TypeOK
  <2>2. "complete" \in Range(prog.body[b])
    BY <2>1, RangeOf
  <2>3. \A c \in Branches \ {b} : prog.body[c] = <<>>
    BY <2>2 DEF CompletesAlone, TypeOK
  <2>4. k \in 1 .. Len(prog.body[d]) /\ \A i \in 1 .. k : prog.body[d][i] # "complete"
    BY DEF Reachable
  <2>5. d = b
    BY <2>3, <2>4
  <2> QED
    BY <2>1, <2>4, <2>5
<1>4. ReplayedInv'
  BY <1>1, <1>2 DEF ReplayedInv, run
<1>5. CompletedResult \in {"completed", "diverged"}
  BY DEF CompletedResult
<1> QED
  BY <1>1, <1>2, <1>3, <1>4, <1>5, DriveKeeps

LEMMA ReturnKeeps ==
  ASSUME TypeOK, TypeOK', ReplayInv, Step, NEW b \in Branches, b = Head(turn), Return(b)
  PROVE  ReplayInv'
<1>1. /\ Kind(b) = "return" /\ call' = [call EXCEPT ![b] = "returned"]
      /\ UNCHANGED <<next, seq, reservation, replayed, started, nextSeq, ordinal, finished>>
  BY DEF Return
<1>2. /\ opened /\ ~ended /\ status = "running" /\ turn # <<>> /\ call[b] = "none" /\ b \notin children
      /\ EntriesInv /\ CheckpointInv /\ ReplayedInv /\ LaunchedInv /\ CommitOrder /\ StartOrder /\ ResultInv
      /\ AnnounceInv /\ BudgetInv /\ TurnInv /\ StartsInv /\ NewCommits /\ \A d \in Branches : BranchOK(d)
      /\ UNCHANGED <<prog, attempt, budget, status, checkpoint, opened>>
      /\ UNCHANGED <<run, journal, cancelled, hostStarted, children, announced, accused, launched>>
  BY StepStart DEF run
<1>3. call'[b] = "returned" /\ \A d \in Branches \ {b} : call'[d] = call[d]
  BY <1>1 DEF TypeOK
<1>4. next[b] = Len(prog.body[b])
  <2>1. next[b] \in Nat /\ Len(prog.body[b]) \in Nat
    BY BodyTypes DEF TypeOK
  <2>2. next[b] <= Len(prog.body[b]) /\ next[b] >= Len(prog.body[b])
    BY <1>1, <1>2, KindTypes DEF BranchOK, PlaceOK
  <2> QED
    BY <2>1, <2>2
<1>5. \A d \in Branches : call'[d] = call[d] \/ (call'[d] = "returned" /\ Exhausted(d))
  BY <1>2, <1>3, <1>4 DEF Exhausted
<1>6. ReplayedInv'
  BY <1>1, <1>2 DEF ReplayedInv
<1>7. CASE \A d \in Branches : d = b \/ call[d] = "returned"
  <2>1. Drive(CompletedResult, started)
    BY <1>7 DEF Return
  <2>2. CompletedResult = "completed"
    <3>1. \A d \in Branches : next[d] = Len(prog.body[d]) /\ next[d] \in Nat
      BY <1>2, <1>4, <1>7 DEF BranchOK, PlaceOK, TypeOK
    <3>2. \A d \in Branches, k \in Nat : Reachable(<<d, k>>) => k <= next[d]
      BY <3>1 DEF Reachable
    <3> QED
      BY <1>2, <3>2, NothingMissed
  <2>3. UNCHANGED <<host, launched>>
    BY <1>2 DEF host
  <2> QED
    BY <1>1, <1>2, <1>5, <1>6, <2>1, <2>2, <2>3, DriveKeeps
<1>8. CASE ~(\A d \in Branches : d = b \/ call[d] = "returned")
  <2>1. turn' = Tail(turn) /\ ended' = ended /\ wire' = wire
    BY <1>8 DEF Return
  <2>2. Commits' = Commits /\ EntriesInv' /\ CommitOrder' /\ StartOrder' /\ ResultInv' /\ AnnounceInv'
    BY <1>1, <1>2, <2>1, PortStays
  <2>3. LaunchedInv'
    BY <1>2, <2>2, LaunchedStay
  <2>4. BudgetInv'
    BY <1>1, <1>2, <2>1 DEF BudgetInv
  <2>5. BranchInv'
    <3>1. TurnInv'
      BY <1>2, <1>3, <2>1, TurnMoves
    <3>2. \A i \in Frames("child-start")' : i \in Frames("child-start") /\ wire'[i] = wire[i]
      BY <2>1 DEF Frames
    <3> QED
      BY <1>1, <1>2, <1>5, <2>2, <3>1, <3>2, BranchesReturn DEF BranchInv
  <2>6. NewCommits'
    BY <1>1, <1>2, <2>2 DEF NewCommits, Restored, Accepted
  <2> QED
    BY <1>2, <1>6, <2>2, <2>3, <2>4, <2>5, <2>6, WorkerKeeps
<1> QED
  BY <1>7, <1>8

LEMMA CancelKeeps ==
  ASSUME TypeOK, TypeOK', ReplayInv, Cancelled
  PROVE  ReplayInv'
<1>1. /\ status = "running" /\ ~ended /\ cancelled /\ Drive("cancelled", started)
      /\ UNCHANGED <<run, opened, next, call, seq, reservation, replayed, started, nextSeq, ordinal>>
      /\ UNCHANGED <<host, launched>>
  BY DEF Cancelled, Working
<1>2. ReplayedInv'
  BY <1>1 DEF ReplayInv, AttemptInv, ReplayedInv, run
<1> QED
  BY <1>1, <1>2, DriveKeeps

LEMMA StepKeeps ==
  ASSUME TypeOK, TypeOK', ReplayInv, Step
  PROVE  ReplayInv'
<1>1. Head(turn) \in Branches
  BY StepStart
<1> QED
  BY <1>1, ReplayCallKeeps, NoteKeeps, GateKeeps, AgentKeeps, AgentCapKeeps, CompleteKeeps, ReturnKeeps DEF Step

(* The panel is refused before anything of it was started, or reserved as one. *)
LEMMA OpenPanelKeeps ==
  ASSUME TypeOK, TypeOK', ReplayInv, OpenPanel
  PROVE  ReplayInv'
<1> DEFINE jobs == IF prog.panel THEN Unreplayed ELSE {}
<1>1. /\ status = "running" /\ ~ended /\ ~opened /\ opened' = TRUE
      /\ UNCHANGED <<run, next, call, seq, nextSeq, ordinal>> /\ UNCHANGED <<host, launched>>
      /\ UNCHANGED <<prog, attempt, budget, status, checkpoint>>
      /\ UNCHANGED <<journal, cancelled, hostStarted, children, announced, accused>>
  BY DEF OpenPanel, Working, run, host
<1>2. /\ EntriesInv /\ CheckpointInv /\ LaunchedInv /\ CommitOrder /\ StartOrder /\ ResultInv /\ AnnounceInv
      /\ BudgetInv /\ StartsInv /\ NewCommits /\ \A d \in Branches : BranchOK(d)
  BY <1>1 DEF ReplayInv, AttemptInv, BranchInv
<1>3. /\ reservation = {} /\ nextSeq = checkpoint.seq
      /\ \A d \in Branches : next[d] = 0 /\ call[d] = "none"
  BY <1>1, <1>2 DEF BudgetInv
<1>4. ReplayedInv'
  <2> SUFFICES ASSUME NEW id \in Ids(checkpoint.journal) PROVE ~(id[2] <= next[id[1]])
    BY <1>1 DEF ReplayedInv
  <2>1. PICK e \in Commits : e.id = id
    BY <1>2, RestoredTypes
  <2>2. Reachable(id) /\ id \in Calls
    BY <1>2, <2>1, CommitTypes DEF EntriesInv
  <2>3. id[1] \in Branches /\ id[2] \in Nat /\ id[2] > 0
    BY <2>2, BodyTypes DEF Reachable, Calls
  <2> QED
    BY <1>3, <2>3
<1>5. CASE Drive("cap", started) /\ UNCHANGED <<started, reservation>>
  BY <1>1, <1>3, <1>4, <1>5, DriveKeeps
<1>6. CASE /\ started + Cardinality(jobs) <= budget
           /\ started' = started + Cardinality(jobs) /\ reservation' = jobs
           /\ turn' = [i \in 1 .. Cardinality(Branches) |-> i] /\ UNCHANGED <<ended, wire>>
  <2>1. Commits' = Commits /\ CommitOrder' /\ StartOrder' /\ AnnounceInv' /\ EntriesInv'
    <3>1. Commits' = Commits
      BY <1>1, <1>6 DEF Commits, Frames
    <3>2. CommitOrder' /\ StartOrder' /\ AnnounceInv'
      BY <1>1, <1>2, <1>6 DEF CommitOrder, StartOrder, AnnounceInv, Frames, Accepted
    <3> QED
      BY <1>1, <1>2, <3>1, <3>2 DEF EntriesInv, Reachable, KindOf
  <2>2. ResultInv'
    BY <1>1, <1>2, <1>6 DEF ResultInv, Frames
  <2>3. LaunchedInv'
    BY <1>1, <1>2, <2>1, LaunchedStay
  <2>4. BudgetInv'
    <3>1. IsFiniteSet(jobs) /\ Cardinality(jobs) \in Nat
      BY <1>6, ReplayAssumption, FS_Subset, FS_CardinalityType, FS_EmptySet DEF Unreplayed
    <3>2. Cardinality(reservation) = 0
      BY <1>3, FS_EmptySet
    <3>3. /\ started = checkpoint.spend + (nextSeq - checkpoint.seq) + Cardinality(reservation)
          /\ started \in Nat /\ checkpoint.spend \in Nat /\ checkpoint.seq \in Nat /\ nextSeq \in Nat
      BY <1>2 DEF BudgetInv, TypeOK
    <3>4. started' = checkpoint'.spend + (nextSeq' - checkpoint'.seq) + Cardinality(reservation')
      <4>1. started' = started + Cardinality(reservation')
        BY <1>6
      <4>2. Cardinality(reservation') \in Nat
        BY <1>6, <3>1
      <4> HIDE DEF jobs
      <4> QED
        BY <1>1, <3>2, <3>3, <4>1, <4>2
    <3>5. \A d \in reservation' : next'[d] = 0 /\ <<d, 1>> \notin Ids(checkpoint'.journal)
      BY <1>1, <1>3, <1>6 DEF Unreplayed
    <3>6. prog'.panel => \A d \in Branches \ reservation' : <<d, 1>> \in Ids(checkpoint'.journal)
      BY <1>1, <1>6 DEF Unreplayed
    <3>7. started' <= budget' /\ (~prog'.panel => reservation' = {})
      BY <1>1, <1>6
    <3> QED
      BY <1>1, <3>4, <3>5, <3>6, <3>7 DEF BudgetInv
  <2>5. BranchInv'
    <3>1. TurnInv'
      BY <1>1, <1>3, <1>6, ReplayAssumption DEF TurnInv
    <3>2. \A i \in Frames("child-start")' : i \in Frames("child-start") /\ wire'[i] = wire[i]
      BY <1>6 DEF Frames
    <3> QED
      BY <1>1, <1>2, <2>1, <3>1, <3>2, BranchesReturn DEF BranchInv
  <2>6. NewCommits'
    BY <1>1, <1>2, <2>1 DEF NewCommits, Restored, Accepted
  <2> QED
    BY <1>1, <1>4, <2>1, <2>2, <2>3, <2>4, <2>5, <2>6, WorkerKeeps
<1> QED
  BY <1>5, <1>6 DEF OpenPanel

-----------------------------------------------------------------------------
(* The answers of the host. *)

(* What an answer does to its branch leaves the rest of the attempt alone. *)
LEMMA AnswerKeeps ==
  ASSUME TypeOK, TypeOK', ReplayInv, NEW b \in Branches, status = "running", call[b] # "none", turn = <<>>,
         UNCHANGED <<run, opened, next, seq, reservation, replayed, started, nextSeq, ended>>,
         UNCHANGED <<journal, cancelled, hostStarted, announced, accused, launched>>,
         \A d \in Branches \ {b} : call'[d] = call[d],
         children' = children \/ children' = children \ {b},
         turn' = <<>> \/ (turn' = <<b>> /\ call'[b] = "none"),
         call[b] # "start" \/ b \in children,
         call'[b] \in {"start", "child"} => call[b] \in {"start", "child"},
         wire' = wire \/ \E m \in FrameRecord : m.type # "child-start" /\ wire' = Append(wire, m),
         NEW X, Commits' \subseteq Commits \cup X,
         \A x \in X : /\ x.id = <<b, next[b]>>
                      /\ \/ x.seq = 0
                         \/ x.seq = seq[b] /\ call[b] \in {"start", "child"} /\ b \in children,
         BranchOK(b)', CommitOrder', StartOrder', ResultInv', AnnounceInv', EntriesInv', LaunchedInv'
  PROVE  ReplayInv'
<1>0. /\ BudgetInv /\ TurnInv /\ StartsInv /\ NewCommits /\ ReplayedInv /\ BranchInv
      /\ UNCHANGED <<prog, attempt, budget, status, checkpoint>>
      /\ \A d \in Branches : BranchOK(d)
  BY DEF ReplayInv, AttemptInv, BranchInv, run
<1>1. opened
  BY <1>0 DEF BudgetInv, TypeOK
<1>2. BudgetInv'
  BY <1>0, <1>1 DEF BudgetInv
<1>3. ReplayedInv'
  BY <1>0 DEF ReplayedInv
<1>4. BranchInv'
  <2>1. TurnInv'
    BY DEF TurnInv
  <2>2. \A d \in Branches \ {b} : /\ next'[d] = next[d] /\ call'[d] = call[d] /\ seq'[d] = seq[d]
                                  /\ (d \in children' <=> d \in children)
    OBVIOUS
  <2>3. StartsInv'
    BY <1>0, <2>2, StartsStay
  <2>4. ASSUME NEW d \in Branches \ {b} PROVE BranchOK(d)'
    <3>1. \A x \in X : x.id[1] = b /\ (x.seq = 0 \/ (x.seq = seq[b] /\ call[b] \in {"start", "child"}))
      OBVIOUS
    <3>2. call'[b] \in {"start", "child"} =>
            seq'[b] > nextSeq \/ (seq'[b] = seq[b] /\ call[b] \in {"start", "child"})
      OBVIOUS
    <3>3. nextSeq <= nextSeq'
      BY DEF TypeOK
    <3>4. \A c \in Branches \ {b, d} : call'[c] = call[c] /\ seq'[c] = seq[c]
      BY <2>2
    <3> HIDE DEF BranchInv
    <3> QED
      BY <1>0, <2>2, <3>1, <3>2, <3>3, <3>4, OthersStay
  <2> QED
    BY <2>1, <2>3, <2>4 DEF BranchInv
<1>5. NewCommits'
  <2> SUFFICES ASSUME NEW e \in Commits', e \notin Restored
               PROVE  e.id[2] <= next[e.id[1]] /\ (e.seq > 0 => e.seq \in checkpoint.seq + 1 .. Accepted)
    BY <1>0 DEF NewCommits, Restored, Accepted
  <2>1. CASE e \in Commits
    BY <1>0, <2>1 DEF NewCommits
  <2>2. CASE e \in X
    <3>1. e.id[2] = next[e.id[1]] /\ next[b] \in Nat
      BY <2>2 DEF TypeOK
    <3>2. CASE e.seq = 0
      BY <3>1, <3>2, <2>2
    <3>3. CASE e.seq = seq[b] /\ call[b] \in {"start", "child"} /\ b \in children
      <4>1. seq[b] \in checkpoint.seq + 1 .. nextSeq /\ seq[b] <= Accepted
        BY <1>0, <3>3 DEF BranchOK, PlaceOK, MemberOK
      <4>2. checkpoint.seq \in Nat /\ nextSeq \in Nat /\ Accepted \in Nat
        BY NumberTypes
      <4>3. seq[b] \in checkpoint.seq + 1 .. Accepted
        BY <4>1, <4>2
      <4> QED
        BY <2>2, <3>1, <3>3, <4>3
    <3> QED
      BY <2>2, <3>2, <3>3
  <2> QED
    BY <2>1, <2>2
<1> QED
  BY <1>2, <1>3, <1>4, <1>5, WorkerKeeps

LEMMA AnswerStart ==
  ASSUME ReplayInv, NEW b \in Branches, status = "running", ~ended
  PROVE  /\ EntriesInv /\ CheckpointInv /\ LaunchedInv /\ CommitOrder /\ StartOrder /\ ResultInv /\ AnnounceInv
         /\ PlaceOK(b) /\ AwaitOK(b) /\ MemberOK(b)
BY DEF ReplayInv, AttemptInv, BranchInv, BranchOK

LEMMA ChildStartedKeeps ==
  ASSUME TypeOK, TypeOK', ReplayInv, NEW b \in Branches, ChildStarted(b)
  PROVE  ReplayInv'
<1>1. /\ status = "running" /\ ~ended /\ turn = <<>> /\ call[b] = "start" /\ call' = [call EXCEPT ![b] = "child"]
      /\ b \in children /\ wire' = Append(wire, Announce(b)) /\ turn' = turn
      /\ UNCHANGED <<run, opened, next, seq, reservation, replayed, started, nextSeq, ended>>
      /\ UNCHANGED <<journal, cancelled, hostStarted, announced, accused, launched, children, ordinal>>
      /\ UNCHANGED <<prog, attempt, budget, status, checkpoint>>
  BY DEF ChildStarted, Answered, Working, host, run
<1>2. call'[b] = "child" /\ \A d \in Branches \ {b} : call'[d] = call[d]
  BY <1>1 DEF TypeOK
<1>3. /\ EntriesInv /\ CheckpointInv /\ LaunchedInv /\ CommitOrder /\ StartOrder /\ ResultInv /\ AnnounceInv
      /\ PlaceOK(b) /\ AwaitOK(b) /\ MemberOK(b)
  BY <1>1, AnswerStart
<1>4. Announce(b) \in FrameRecord /\ Announce(b).type = "agent-start" /\ Announce(b).seq = seq[b]
  BY FrameTypes
<1>5. seq[b] \in checkpoint.seq + 1 .. Accepted
  <2>1. seq[b] \in checkpoint.seq + 1 .. nextSeq /\ seq[b] <= Accepted
    BY <1>1, <1>3 DEF PlaceOK, MemberOK
  <2>2. checkpoint.seq \in Nat /\ nextSeq \in Nat /\ Accepted \in Nat
    BY NumberTypes
  <2> QED
    BY <2>1, <2>2
<1>6. Commits' = Commits /\ CommitOrder' /\ StartOrder' /\ ResultInv' /\ AnnounceInv'
  BY <1>1, <1>3, <1>4, <1>5, SentCommits, SentCommitOrder, SentStartOrder, SentNoResult, SentAnnounce
<1>7. EntriesInv' /\ LaunchedInv'
  <2>1. \A i \in DOMAIN journal' : journal'[i].ordinal = i
    BY <1>1, <1>3 DEF EntriesInv
  <2> QED
    BY <1>1, <1>3, <1>6, <2>1, EntriesShrink, LaunchedStay
<1>8. BranchOK(b)'
  <2>1. PlaceOK(b)'
    BY <1>1, <1>2, <1>3 DEF PlaceOK, Accepted
  <2>2. AwaitOK(b)'
    BY <1>1, <1>2, <1>3, <1>6 DEF AwaitOK, KindOf, Awaiting
  <2>3. MemberOK(b)'
    BY <1>1, <1>2, <1>3, <1>6 DEF MemberOK
  <2> QED
    BY <2>1, <2>2, <2>3 DEF BranchOK
<1> DEFINE X == {}
<1>9. Commits' \subseteq Commits \cup X /\ \E m \in FrameRecord : m.type # "child-start" /\ wire' = Append(wire, m)
  BY <1>1, <1>4, <1>6
<1>10. \A x \in X : /\ x.id = <<b, next[b]>>
                     /\ \/ x.seq = 0
                        \/ x.seq = seq[b] /\ call[b] \in {"start", "child"} /\ b \in children
  OBVIOUS
<1>11. turn' = <<>> /\ children' = children /\ call[b] \in {"start", "child"}
  BY <1>1
<1> HIDE DEF X
<1> QED
  BY <1>1, <1>2, <1>6, <1>7, <1>8, <1>9, <1>10, <1>11, AnswerKeeps

LEMMA ChildSettledKeeps ==
  ASSUME TypeOK, TypeOK', ReplayInv, NEW b \in Branches, ChildSettled(b)
  PROVE  ReplayInv'
<1> DEFINE m == Commit(<<b, next[b]>>, ordinal + 1, seq[b])
<1>1. /\ status = "running" /\ ~ended /\ turn = <<>> /\ call[b] = "child" /\ call' = [call EXCEPT ![b] = "dispose"]
      /\ children' = children \ {b} /\ ordinal' = ordinal + 1 /\ wire' = Append(wire, m) /\ turn' = turn
      /\ UNCHANGED <<run, opened, next, seq, reservation, replayed, started, nextSeq, ended>>
      /\ UNCHANGED <<journal, cancelled, hostStarted, announced, accused, launched>>
      /\ UNCHANGED <<prog, attempt, budget, status, checkpoint>>
  BY DEF ChildSettled, Answered, Working, run
<1>2. call'[b] = "dispose" /\ \A d \in Branches \ {b} : call'[d] = call[d]
  BY <1>1 DEF TypeOK
<1>3. /\ EntriesInv /\ CheckpointInv /\ LaunchedInv /\ CommitOrder /\ StartOrder /\ ResultInv /\ AnnounceInv
      /\ PlaceOK(b) /\ AwaitOK(b) /\ MemberOK(b)
  BY <1>1, AnswerStart
<1> DEFINE x == [id |-> <<b, next[b]>>, ordinal |-> ordinal + 1, seq |-> seq[b]]
<1>4. m \in FrameRecord /\ m.type = "commit" /\ m.n = ordinal + 1 /\ Entry(m) = x
  <2>1. <<b, next[b]>> \in Calls /\ ordinal + 1 \in Nat /\ seq[b] \in Nat
    BY DEF TypeOK, Calls
  <2> QED
    BY <2>1, FrameTypes
<1>5. x.id = <<b, next[b]>> /\ x.seq = seq[b]
  OBVIOUS
<1> HIDE DEF m, x
<1>6. Commits' = Commits \cup {x} /\ CommitOrder' /\ StartOrder' /\ ResultInv' /\ AnnounceInv'
  BY <1>1, <1>3, <1>4, SentCommits, SentCommitOrder, SentStartOrder, SentNoResult, SentAnnounce
<1>7. b \in children /\ seq[b] > 0
  <2>1. seq[b] \in checkpoint.seq + 1 .. nextSeq /\ checkpoint.seq \in Nat /\ nextSeq \in Nat
    BY <1>1, <1>3 DEF MemberOK, TypeOK
  <2> QED
    BY <1>1, <1>3, <2>1 DEF PlaceOK
<1>8. EntriesInv'
  <2>1. Reachable(x.id) /\ KindOf(x.id) = "agent"
    <3>1. next[b] \in Nat /\ Len(prog.body[b]) \in Nat /\ next[b] > 0
      BY <1>1, <1>3, BodyTypes DEF TypeOK, AwaitOK, Awaiting
    <3>2. Reachable(<<b, next[b]>>)
      BY <1>3, <3>1 DEF Reachable, PlaceOK
    <3>3. KindOf(<<b, next[b]>>) = "agent"
      BY <1>1, <1>3 DEF AwaitOK, Awaiting
    <3> QED
      BY <1>5, <3>2, <3>3
  <2>2. x.seq = 0 <=> KindOf(x.id) # "agent"
    BY <1>5, <1>7, <2>1 DEF TypeOK
  <2>3. \A e \in Commits : e.id # x.id /\ e.seq # x.seq
    BY <1>1, <1>3, <1>5 DEF AwaitOK, MemberOK, Awaiting
  <2>4. Commits' \subseteq Commits \cup {x} /\ UNCHANGED <<prog, journal>>
    BY <1>1, <1>6
  <2> QED
    BY <1>3, <2>1, <2>2, <2>3, <2>4, EntriesGrow
<1>9. LaunchedInv'
  <2>1. \A l \in launched : l.id = x.id => l.seq <= x.seq
    BY <1>1, <1>3, <1>5 DEF MemberOK
  <2> QED
    BY <1>1, <1>3, <1>6, <2>1, LaunchedStay
<1>10. BranchOK(b)'
  BY <1>1, <1>2, <1>3 DEF BranchOK, PlaceOK, AwaitOK, MemberOK, Awaiting
<1>11. Commits' \subseteq Commits \cup {x} /\ \E f \in FrameRecord : f.type # "child-start" /\ wire' = Append(wire, f)
  BY <1>1, <1>4, <1>6
<1>12. \A y \in {x} : /\ y.id = <<b, next[b]>>
                      /\ \/ y.seq = 0
                         \/ y.seq = seq[b] /\ call[b] \in {"start", "child"} /\ b \in children
  BY <1>1, <1>5, <1>7
<1>13. turn' = <<>> /\ call[b] # "start" /\ call'[b] \notin {"start", "child"} /\ call[b] # "none"
  BY <1>1, <1>2
<1> QED
  BY <1>1, <1>2, <1>6, <1>8, <1>9, <1>10, <1>11, <1>12, <1>13, AnswerKeeps

LEMMA ChildDisposedKeeps ==
  ASSUME TypeOK, TypeOK', ReplayInv, NEW b \in Branches, ChildDisposed(b)
  PROVE  ReplayInv'
<1>1. /\ status = "running" /\ ~ended /\ turn = <<>> /\ call[b] = "dispose" /\ call' = [call EXCEPT ![b] = "none"]
      /\ turn' = <<b>> /\ wire' = wire
      /\ UNCHANGED <<run, opened, next, seq, reservation, replayed, started, nextSeq, ended>>
      /\ UNCHANGED <<journal, cancelled, hostStarted, announced, accused, launched, children, ordinal>>
      /\ UNCHANGED <<prog, attempt, budget, status, checkpoint>>
  BY DEF ChildDisposed, Answered, Working, host, run
<1>2. call'[b] = "none" /\ \A d \in Branches \ {b} : call'[d] = call[d]
  BY <1>1 DEF TypeOK
<1>3. /\ EntriesInv /\ CheckpointInv /\ LaunchedInv /\ CommitOrder /\ StartOrder /\ ResultInv /\ AnnounceInv
      /\ PlaceOK(b) /\ AwaitOK(b) /\ MemberOK(b)
  BY <1>1, AnswerStart
<1>4. Commits' = Commits /\ EntriesInv' /\ CommitOrder' /\ StartOrder' /\ ResultInv' /\ AnnounceInv'
  BY <1>1, <1>3, PortStays
<1>5. LaunchedInv'
  BY <1>1, <1>3, <1>4, LaunchedStay
<1>6. BranchOK(b)'
  BY <1>1, <1>2, <1>3 DEF BranchOK, PlaceOK, AwaitOK, MemberOK, Awaiting
<1> DEFINE X == {}
<1>7. Commits' \subseteq Commits \cup X
  BY <1>4
<1>8. \A x \in X : /\ x.id = <<b, next[b]>>
                    /\ \/ x.seq = 0
                       \/ x.seq = seq[b] /\ call[b] \in {"start", "child"} /\ b \in children
  OBVIOUS
<1>9. call[b] # "start" /\ call'[b] \notin {"start", "child"} /\ call[b] # "none" /\ children' = children
  BY <1>1, <1>2
<1> HIDE DEF X
<1> QED
  BY <1>1, <1>2, <1>4, <1>5, <1>6, <1>7, <1>8, <1>9, AnswerKeeps

LEMMA GateOpensKeeps ==
  ASSUME TypeOK, TypeOK', ReplayInv, NEW b \in Branches, GateOpens(b)
  PROVE  ReplayInv'
<1> DEFINE m == Commit(<<b, next[b]>>, ordinal + 1, 0)
<1>1. /\ status = "running" /\ ~ended /\ turn = <<>> /\ call[b] = "gate" /\ call' = [call EXCEPT ![b] = "none"]
      /\ turn' = <<b>> /\ ordinal' = ordinal + 1 /\ wire' = Append(wire, m)
      /\ UNCHANGED <<run, opened, next, seq, reservation, replayed, started, nextSeq, ended>>
      /\ UNCHANGED <<journal, cancelled, hostStarted, announced, accused, launched, children>>
      /\ UNCHANGED <<prog, attempt, budget, status, checkpoint>>
  BY DEF GateOpens, Answered, Working, host, run
<1>2. call'[b] = "none" /\ \A d \in Branches \ {b} : call'[d] = call[d]
  BY <1>1 DEF TypeOK
<1>3. /\ EntriesInv /\ CheckpointInv /\ LaunchedInv /\ CommitOrder /\ StartOrder /\ ResultInv /\ AnnounceInv
      /\ PlaceOK(b) /\ AwaitOK(b) /\ MemberOK(b)
  BY <1>1, AnswerStart
<1> DEFINE x == [id |-> <<b, next[b]>>, ordinal |-> ordinal + 1, seq |-> 0]
<1>4. m \in FrameRecord /\ m.type = "commit" /\ m.n = ordinal + 1 /\ Entry(m) = x
  <2>1. <<b, next[b]>> \in Calls /\ ordinal + 1 \in Nat
    BY DEF TypeOK, Calls
  <2> QED
    BY <2>1, FrameTypes
<1>5. x.id = <<b, next[b]>> /\ x.seq = 0
  OBVIOUS
<1> HIDE DEF m, x
<1>6. Commits' = Commits \cup {x} /\ CommitOrder' /\ StartOrder' /\ ResultInv' /\ AnnounceInv'
  BY <1>1, <1>3, <1>4, SentCommits, SentCommitOrder, SentStartOrder, SentNoResult, SentAnnounce
<1>7. Reachable(x.id) /\ KindOf(x.id) # "agent"
  <2>1. next[b] \in Nat /\ Len(prog.body[b]) \in Nat /\ next[b] > 0
    BY <1>1, <1>3, BodyTypes DEF TypeOK, AwaitOK, Awaiting
  <2>2. Reachable(<<b, next[b]>>)
    BY <1>3, <2>1 DEF Reachable, PlaceOK
  <2>3. KindOf(<<b, next[b]>>) # "agent"
    BY <1>1, <1>3 DEF AwaitOK, Awaiting
  <2> QED
    BY <1>5, <2>2, <2>3
<1>8. EntriesInv'
  <2>1. \A e \in Commits : e.id # x.id /\ (e.seq = x.seq => ~(e.seq > 0))
    BY <1>1, <1>3, <1>5 DEF AwaitOK, Awaiting
  <2>2. Commits' \subseteq Commits \cup {x} /\ UNCHANGED <<prog, journal>>
    BY <1>1, <1>6
  <2>3. x.seq = 0 <=> KindOf(x.id) # "agent"
    BY <1>5, <1>7
  <2> QED
    BY <1>3, <1>7, <2>1, <2>2, <2>3, EntriesGrow
<1>9. LaunchedInv'
  <2>1. \A l \in launched : l.id # x.id
    BY <1>3, <1>7 DEF LaunchedInv
  <2> QED
    BY <1>1, <1>3, <1>6, <2>1, LaunchedStay
<1>10. BranchOK(b)'
  BY <1>1, <1>2, <1>3 DEF BranchOK, PlaceOK, AwaitOK, MemberOK, Awaiting
<1>11. Commits' \subseteq Commits \cup {x} /\ \E f \in FrameRecord : f.type # "child-start" /\ wire' = Append(wire, f)
  BY <1>1, <1>4, <1>6
<1>12. \A y \in {x} : /\ y.id = <<b, next[b]>>
                      /\ \/ y.seq = 0
                         \/ y.seq = seq[b] /\ call[b] \in {"start", "child"} /\ b \in children
  BY <1>5
<1>13. call[b] # "start" /\ call'[b] \notin {"start", "child"} /\ call[b] # "none" /\ children' = children
  BY <1>1, <1>2
<1> QED
  BY <1>1, <1>2, <1>6, <1>8, <1>9, <1>10, <1>11, <1>12, <1>13, AnswerKeeps

-----------------------------------------------------------------------------
(* The host. *)

LEMMA AnswersKeep ==
  ASSUME TypeOK, TypeOK', ReplayInv, NEW b \in Branches, Answers(b)
  PROVE  ReplayInv'
BY ChildStartedKeeps, ChildSettledKeeps, ChildDisposedKeeps, GateOpensKeeps DEF Answers

LEMMA PauseKeeps ==
  ASSUME TypeOK, TypeOK', ReplayInv, Pause
  PROVE  ReplayInv'
<1>1. /\ status = "running" /\ cancelled' = TRUE
      /\ UNCHANGED <<prog, attempt, budget, status, checkpoint>>
      /\ UNCHANGED <<opened, next, turn, call, seq, reservation, replayed, started, nextSeq, ordinal, ended>>
      /\ UNCHANGED <<wire, journal, hostStarted, children, announced, accused, launched, finished>>
  BY DEF Pause, run, worker
<1>2. EntriesInv /\ CheckpointInv /\ LaunchedInv /\ AttemptInv
  BY <1>1 DEF ReplayInv
<1>3. Commits' = Commits /\ Restored' = Restored
  BY <1>1 DEF Commits, Frames, Restored
<1>4. EntriesInv' /\ LaunchedInv'
  <2>1. \A i \in DOMAIN journal' : journal'[i].ordinal = i
    BY <1>1, <1>2 DEF EntriesInv
  <2> QED
    BY <1>1, <1>2, <1>3, <2>1, EntriesShrink, LaunchedStay
<1>5. CheckpointInv'
  BY <1>1, <1>2 DEF CheckpointInv, Restored, AgentEntries
<1>6. CommitOrder' /\ StartOrder' /\ ResultInv' /\ AnnounceInv'
  BY <1>1, <1>2 DEF AttemptInv, CommitOrder, StartOrder, ResultInv, AnnounceInv, Frames, Accepted
<1>7. BudgetInv'
  BY <1>1, <1>2 DEF AttemptInv, BudgetInv
<1>8. BranchInv'
  <2>1. TurnInv' /\ StartsInv'
    BY <1>1, <1>2 DEF AttemptInv, BranchInv, TurnInv, StartsInv, Frames
  <2>2. ASSUME NEW b \in Branches PROVE BranchOK(b)'
    BY <1>1, <1>2, <1>3 DEF AttemptInv, BranchInv, BranchOK, PlaceOK, AwaitOK, MemberOK, KindOf, Accepted
  <2> QED
    BY <2>1, <2>2 DEF BranchInv
<1>9. NewCommits' /\ ReplayedInv'
  BY <1>1, <1>2, <1>3 DEF AttemptInv, NewCommits, ReplayedInv, Accepted
<1> QED
  BY <1>1, <1>4, <1>5, <1>6, <1>7, <1>8, <1>9 DEF ReplayInv, AttemptInv, PanelIsAtomic

(* The host never finds the worker at fault. *)
LEMMA NeverAViolation ==
  ASSUME TypeOK, ReplayInv, status = "running", wire # <<>>
  PROVE  ~Violation(Head(wire))
<1> DEFINE m == Head(wire)
<1>1. wire[1] = m /\ 1 \in DOMAIN wire /\ m \in FrameRecord
  BY SequenceTypes, TookFrame DEF TypeOK
<1> HIDE DEF m
<1>2. /\ EntriesInv /\ CheckpointInv /\ CommitOrder /\ StartOrder /\ ResultInv /\ AnnounceInv /\ BudgetInv
  BY DEF ReplayInv, AttemptInv
<1>3. started <= budget /\ started >= checkpoint.spend + (nextSeq - checkpoint.seq)
  <2>1. Cardinality(reservation) \in Nat
    BY ReplayAssumption, FS_Subset, FS_CardinalityType DEF TypeOK
  <2>2. started = checkpoint.spend + (nextSeq - checkpoint.seq) + Cardinality(reservation) /\ started <= budget
    BY <1>2 DEF BudgetInv
  <2>3. started \in Nat /\ checkpoint.spend \in Nat /\ nextSeq \in Nat /\ checkpoint.seq \in Nat
    BY DEF TypeOK
  <2> QED
    BY <2>1, <2>2, <2>3
<1>4. /\ started \in Nat /\ budget \in Nat /\ checkpoint.spend \in Nat /\ nextSeq \in Nat /\ checkpoint.seq \in Nat
      /\ hostStarted \in Nat /\ Accepted = checkpoint.seq + hostStarted /\ Accepted <= nextSeq
      /\ Observed = checkpoint.spend + hostStarted
  BY <1>2 DEF TypeOK, Accepted, Observed, StartOrder
<1>5. m.type = "child-start" => ~(Observed >= budget)
  <2>1. m.type = "child-start" => Accepted + 1 <= nextSeq
    <3>1. m.type = "child-start" => m.seq \in Accepted + 1 .. nextSeq
      BY <1>2, HeadStart DEF m
    <3> QED
      BY <1>4, <3>1
  <2> QED
    BY <1>3, <1>4, <2>1
<1>6. m.type = "agent-start" => m.seq \in InitialSeq + 1 .. InitialSeq + hostStarted
  BY <1>1, <1>2 DEF AnnounceInv, Frames, Accepted, InitialSeq
<1>7. m.type = "commit" /\ ~cancelled => m.n = Len(journal) + 1 /\ m.id \notin Ids(journal)
  <2> SUFFICES ASSUME m.type = "commit", ~cancelled PROVE m.n = Len(journal) + 1 /\ m.id \notin Ids(journal)
    OBVIOUS
  <2>1. m.n = Len(journal) + 1
    BY <1>2, HeadCommit DEF m
  <2>2. Entry(m) \in Commits /\ Entry(m).id = m.id /\ Entry(m).ordinal = m.n
    BY <1>1 DEF Commits, Frames, Entry
  <2>3. ASSUME NEW e \in Range(journal) PROVE e.id # m.id
    <3>1. PICK i \in 1 .. Len(journal) : e = journal[i]
      BY RangeOf DEF TypeOK
    <3>2. e.ordinal = i /\ Len(journal) \in Nat
      BY <1>2, <3>1 DEF EntriesInv, TypeOK
    <3>3. e # Entry(m)
      BY <2>1, <2>2, <3>1, <3>2
    <3> QED
      BY <1>2, <2>2, <3>3, CommitTypes DEF EntriesInv
  <2> QED
    BY <2>1, <2>3 DEF Ids
<1>8. m.type = "result" => m.n \in Observed .. budget
  <2>1. m.type = "result" => m.n = started
    BY <1>1, <1>2 DEF ResultInv, Frames
  <2> QED
    BY <1>3, <1>4, <2>1
<1> QED
  BY <1>5, <1>6, <1>7, <1>8 DEF Violation, m

(* The frame at the head is of a branch whose start no other frame carries. *)
LEMMA HeadIsItsBranch ==
  ASSUME TypeOK, StartsInv, StartOrder, wire # <<>>, Head(wire).type = "child-start"
  PROVE  LET b == Head(wire).id[1] IN
         /\ b \in Branches /\ Head(wire).id = <<b, next[b]>> /\ Head(wire).seq = seq[b]
         /\ call[b] = "start" /\ b \notin children
         /\ \A i \in Frames("child-start") : i # 1 => wire[i].id[1] # b
<1>1. wire[1] = Head(wire) /\ 1 \in Frames("child-start")
  BY TookFrame DEF Frames
<1>2. ASSUME NEW i \in Frames("child-start"), i # 1 PROVE wire[i].id[1] # wire[1].id[1]
  <2>1. i \in Nat /\ i > 1
    BY <1>2, TookFrame DEF Frames
  <2>2. wire[1].seq < wire[i].seq
    BY <1>1, <2>1 DEF StartOrder
  <2>3. wire[1].seq \in Nat /\ wire[i].seq \in Nat
    <3>1. 1 \in DOMAIN wire /\ i \in DOMAIN wire /\ wire \in Seq(FrameRecord)
      BY <1>1 DEF Frames, TypeOK
    <3>2. wire[1] \in FrameRecord /\ wire[i] \in FrameRecord
      BY <3>1
    <3> QED
      BY <3>2, FrameFields
  <2>4. wire[1].seq # wire[i].seq
    BY <2>2, <2>3
  <2> QED
    BY <1>1, <2>4 DEF StartsInv
<1> QED
  BY <1>1, <1>2 DEF StartsInv

(* What taking a frame does to the host, by its kind. *)
LEMMA TakenFrame ==
  ASSUME TypeOK, ReplayInv, status = "running", wire # <<>>, wire' = Tail(wire), Taken(Head(wire))
  PROVE  LET m == Head(wire) IN
         \/ /\ m.type \in {"child-start", "agent-start", "commit"}
            /\ cancelled /\ UNCHANGED <<journal, hostStarted, children, announced, launched>>
         \/ /\ m.type = "child-start" /\ ~cancelled /\ hostStarted' = hostStarted + 1
            /\ children' = children \cup {m.id[1]} /\ launched' = launched \cup {[id |-> m.id, seq |-> m.seq]}
            /\ UNCHANGED <<journal, announced>>
         \/ /\ m.type = "agent-start" /\ ~cancelled /\ announced' = announced \cup {m.seq}
            /\ UNCHANGED <<journal, hostStarted, children, launched>>
         \/ /\ m.type = "commit" /\ ~cancelled /\ journal' = Append(journal, Entry(m))
            /\ UNCHANGED <<hostStarted, children, announced, launched>>
BY DEF Taken, OnChildStart, OnAgentStart, OnCommit

(* A frame that is taken keeps the ledgers of both sides in step. *)
LEMMA TakenKeeps ==
  ASSUME TypeOK, TypeOK', ReplayInv, status = "running", wire # <<>>, wire' = Tail(wire), Taken(Head(wire))
  PROVE  ReplayInv'
<1> DEFINE m == Head(wire)
<1>1. /\ UNCHANGED <<prog, attempt, budget, status, checkpoint, cancelled, accused, finished>>
      /\ UNCHANGED <<opened, next, turn, call, seq, reservation, replayed, started, nextSeq, ordinal, ended>>
  BY DEF Taken, run, worker
<1>2. /\ EntriesInv /\ CheckpointInv /\ LaunchedInv /\ CommitOrder /\ StartOrder /\ ResultInv /\ AnnounceInv
      /\ BudgetInv /\ TurnInv /\ StartsInv /\ NewCommits /\ ReplayedInv /\ \A d \in Branches : BranchOK(d)
  BY DEF ReplayInv, AttemptInv, BranchInv
<1>3. wire[1] = m /\ 1 \in DOMAIN wire /\ m \in FrameRecord /\ m.seq \in Nat
  BY SequenceTypes, TookFrame, FrameFields
<1>4. \/ journal' = journal /\ (cancelled \/ m.type # "commit")
      \/ ~cancelled /\ m.type = "commit" /\ journal' = Append(journal, Entry(m))
  BY TakenFrame
<1>5. \/ hostStarted' = hostStarted /\ launched' = launched /\ children' = children
         /\ (cancelled \/ m.type # "child-start")
      \/ /\ ~cancelled /\ m.type = "child-start" /\ hostStarted' = hostStarted + 1 /\ journal' = journal
         /\ children' = children \cup {m.id[1]} /\ launched' = launched \cup {[id |-> m.id, seq |-> m.seq]}
  BY TakenFrame
<1>6. announced' = announced \/ (m.type = "agent-start" /\ announced' = announced \cup {m.seq})
  BY TakenFrame
<1> HIDE DEF m
<1>7. CommitOrder' /\ StartOrder' /\ ResultInv' /\ Commits' \subseteq Commits
  <2>1. CommitOrder'
    BY <1>1, <1>2, <1>4, TookCommitOrder DEF m
  <2>2. StartOrder'
    BY <1>1, <1>2, <1>5, TookStartOrder DEF m
  <2>3. ResultInv'
    BY <1>1, <1>2, TookResult
  <2>4. Commits' \subseteq Commits
    BY <1>4, TookCommits DEF m
  <2> QED
    BY <2>1, <2>2, <2>3, <2>4
<1>8. /\ Accepted \in Nat /\ Accepted' \in Nat /\ Accepted <= Accepted' /\ checkpoint.seq \in Nat
      /\ Accepted = checkpoint.seq + hostStarted /\ Accepted' = checkpoint.seq + hostStarted'
      /\ hostStarted \in Nat /\ nextSeq \in Nat
  <2>1. hostStarted \in Nat /\ hostStarted' \in Nat /\ checkpoint.seq \in Nat /\ nextSeq \in Nat
    BY DEF TypeOK
  <2>2. hostStarted' = hostStarted \/ hostStarted' = hostStarted + 1
    BY <1>5
  <2>3. Accepted = checkpoint.seq + hostStarted /\ Accepted' = checkpoint.seq + hostStarted'
    BY <1>1 DEF Accepted
  <2> HIDE DEF Accepted
  <2> QED
    BY <2>1, <2>2, <2>3
<1>9. AnnounceInv'
  <2>1. \A i \in Frames("agent-start")' : i + 1 \in Frames("agent-start") /\ wire'[i] = wire[i + 1]
    BY TookFrame DEF Frames
  <2>2. ASSUME NEW i \in Frames("agent-start")' PROVE wire'[i].seq \in checkpoint'.seq + 1 .. Accepted'
    <3>1. wire'[i].seq \in checkpoint.seq + 1 .. Accepted
      BY <1>2, <2>1 DEF AnnounceInv
    <3>2. checkpoint'.seq = checkpoint.seq
      BY <1>1
    <3>3. \A s : s \in checkpoint.seq + 1 .. Accepted => s \in checkpoint.seq + 1 .. Accepted'
      BY <1>8
    <3> QED
      BY <3>1, <3>2, <3>3
  <2>3. m.type = "agent-start" => m.seq <= Accepted
    <3>1. m.type = "agent-start" => m.seq \in checkpoint.seq + 1 .. Accepted
      BY <1>2, <1>3 DEF AnnounceInv, Frames
    <3> QED
      BY <1>8, <3>1
  <2>4. ASSUME NEW s \in announced' PROVE s <= Accepted'
    <3>1. s \in Nat /\ s <= Accepted
      BY <1>2, <1>3, <1>6, <2>3, <2>4 DEF AnnounceInv, TypeOK
    <3> QED
      BY <1>8, <3>1
  <2> QED
    BY <2>2, <2>4 DEF AnnounceInv
<1>10. EntriesInv'
  <2>1. CASE journal' = journal
    BY <1>1, <1>2, <1>7, <2>1, EntriesShrink DEF EntriesInv
  <2>2. CASE ~cancelled /\ m.type = "commit" /\ journal' = Append(journal, Entry(m))
    <3>1. Entry(m).ordinal = Len(journal) + 1
      BY <1>2, <2>2, HeadCommit DEF Entry, m
    <3>2. \A i \in DOMAIN journal' : journal'[i].ordinal = i
      <4>1. journal \in Seq(EntryRecord) /\ Len(journal) \in Nat
        BY DEF TypeOK
      <4>2. /\ DOMAIN journal' = 1 .. Len(journal) + 1 /\ journal'[Len(journal) + 1] = Entry(m)
            /\ \A i \in 1 .. Len(journal) : journal'[i] = journal[i]
        BY <2>2, <4>1
      <4>3. \A i \in 1 .. Len(journal) + 1 : i = Len(journal) + 1 \/ i \in 1 .. Len(journal)
        BY <4>1
      <4>4. \A i \in 1 .. Len(journal) : journal[i].ordinal = i
        BY <1>2, <4>1 DEF EntriesInv
      <4> QED
        BY <3>1, <4>2, <4>3, <4>4
    <3> QED
      BY <1>1, <1>2, <1>7, <3>2, EntriesShrink
  <2> QED
    BY <1>4, <2>1, <2>2
<1>11. CheckpointInv'
  <2>1. IsPrefix(checkpoint.journal, journal')
    <3>1. checkpoint.journal \in Seq(EntryRecord) /\ journal \in Seq(EntryRecord) /\ IsPrefix(checkpoint.journal, journal)
      BY <1>2 DEF TypeOK, CheckpointInv
    <3>2. m.type = "commit" => Entry(m) \in EntryRecord
      BY <1>3, EntryTypes
    <3> QED
      BY <1>4, <3>1, <3>2, PrefixAppend
  <2> QED
    BY <1>1, <1>2, <2>1 DEF CheckpointInv, Restored, AgentEntries
<1>12. BudgetInv' /\ TurnInv' /\ ReplayedInv'
  <2>1. BudgetInv'
    BY <1>1, <1>2 DEF BudgetInv
  <2>2. TurnInv' /\ ReplayedInv'
    BY <1>1, <1>2 DEF TurnInv, ReplayedInv
  <2> QED
    BY <2>1, <2>2
<1>13. NewCommits'
  <2> SUFFICES ASSUME NEW e \in Commits', e \notin Restored
               PROVE  e.id[2] <= next[e.id[1]] /\ (e.seq > 0 => e.seq \in checkpoint.seq + 1 .. Accepted')
    BY <1>1 DEF NewCommits, Restored
  <2>1. e.id[2] <= next[e.id[1]] /\ (e.seq > 0 => e.seq \in checkpoint.seq + 1 .. Accepted)
    BY <1>2, <1>7 DEF NewCommits
  <2>2. e.seq \in checkpoint.seq + 1 .. Accepted => e.seq \in checkpoint.seq + 1 .. Accepted'
    BY <1>8
  <2> QED
    BY <2>1, <2>2
<1>14. CASE hostStarted' = hostStarted /\ launched' = launched /\ children' = children
            /\ (cancelled \/ m.type # "child-start")
  <2>1. LaunchedInv'
    BY <1>1, <1>2, <1>7, <1>14, LaunchedStay
  <2>2. StartsInv'
    <3>1. \A i \in Frames("child-start")' : i + 1 \in Frames("child-start") /\ wire'[i] = wire[i + 1]
      BY TookFrame DEF Frames
    <3> QED
      BY <1>1, <1>2, <1>14, <3>1 DEF StartsInv
  <2>3. ASSUME NEW d \in Branches PROVE BranchOK(d)'
    <3>1. PlaceOK(d) /\ AwaitOK(d) /\ MemberOK(d)
      BY <1>2 DEF BranchOK
    <3>2. PlaceOK(d)'
      BY <1>1, <1>14, <3>1 DEF PlaceOK, Accepted
    <3>3. AwaitOK(d)'
      BY <1>1, <1>7, <3>1 DEF AwaitOK, KindOf
    <3>4. MemberOK(d)'
      BY <1>1, <1>7, <1>14, <3>1 DEF MemberOK
    <3> QED
      BY <3>2, <3>3, <3>4 DEF BranchOK
  <2> QED
    BY <1>1, <1>7, <1>9, <1>10, <1>11, <1>12, <1>13, <2>1, <2>2, <2>3
    DEF ReplayInv, AttemptInv, BranchInv, PanelIsAtomic
<1>15. CASE /\ ~cancelled /\ m.type = "child-start" /\ hostStarted' = hostStarted + 1 /\ journal' = journal
            /\ children' = children \cup {m.id[1]} /\ launched' = launched \cup {[id |-> m.id, seq |-> m.seq]}
  <2> DEFINE b == m.id[1]
             l == [id |-> m.id, seq |-> m.seq]
  <2>1. /\ b \in Branches /\ m.id = <<b, next[b]>> /\ m.seq = seq[b] /\ call[b] = "start" /\ b \notin children
        /\ \A i \in Frames("child-start") : i # 1 => wire[i].id[1] # b
    BY <1>2, <1>15, HeadIsItsBranch DEF m
  <2>2. m.seq = Accepted + 1 /\ Accepted' = Accepted + 1
    BY <1>2, <1>8, <1>15, HeadStart DEF m
  <2>3. l.id = <<b, next[b]>> /\ l.seq = seq[b] /\ launched' = launched \cup {l} /\ children' = children \cup {b}
    BY <1>15, <2>1
  <2>4. PlaceOK(b) /\ AwaitOK(b) /\ MemberOK(b) /\ KindOf(<<b, next[b]>>) = "agent"
    BY <1>2, <2>1 DEF BranchOK, AwaitOK, Awaiting
  <2> HIDE DEF b, l
  <2>5. LaunchedInv'
    <3>1. \A k \in launched : k.seq \in Nat /\ k.seq <= Accepted
      BY <1>2, <1>8 DEF LaunchedInv, TypeOK
    <3>2. \A k \in launched : k.seq # l.seq
      <4>1. l.seq = Accepted + 1
        BY <2>1, <2>2, <2>3
      <4> QED
        BY <1>8, <3>1, <4>1
    <3>3. \A k, n \in launched' : k.seq = n.seq => k = n
      BY <1>2, <2>3, <3>2 DEF LaunchedInv
    <3>4. \A k \in launched' : KindOf(k.id)' = "agent"
      BY <1>1, <1>2, <2>3, <2>4 DEF LaunchedInv, KindOf
    <3>5. \A k \in launched', e \in Commits' : k.id = e.id => k.seq <= e.seq
      <4>1. \A e \in Commits : e.id # l.id
        BY <2>1, <2>3, <2>4 DEF AwaitOK, Awaiting
      <4> QED
        BY <1>2, <1>7, <2>3, <4>1 DEF LaunchedInv
    <3>6. \A k \in launched' : k.seq <= checkpoint'.seq + hostStarted'
      <4>1. \A k \in launched' : k.seq \in Nat /\ k.seq <= Accepted + 1
        BY <1>8, <2>1, <2>2, <2>3, <3>1
      <4> QED
        BY <1>1, <1>8, <2>2, <4>1
    <3>7. IsFiniteSet(launched') /\ Cardinality(launched') <= checkpoint'.spend + hostStarted'
      <4>1. IsFiniteSet(launched) /\ Cardinality(launched) <= checkpoint.spend + hostStarted
        BY <1>2 DEF LaunchedInv
      <4>2. /\ IsFiniteSet(launched') /\ Cardinality(launched) \in Nat /\ Cardinality(launched') \in Nat
            /\ Cardinality(launched') <= Cardinality(launched) + 1
        <5>1. /\ IsFiniteSet(launched \cup {l})
              /\ Cardinality(launched \cup {l}) =
                   IF l \in launched THEN Cardinality(launched) ELSE Cardinality(launched) + 1
          BY <4>1, FS_AddElement
        <5>2. Cardinality(launched) \in Nat
          BY <4>1, FS_CardinalityType
        <5> QED
          BY <2>3, <5>1, <5>2
      <4>3. checkpoint.spend \in Nat /\ hostStarted \in Nat /\ checkpoint'.spend = checkpoint.spend
            /\ hostStarted' = hostStarted + 1
        BY <1>1, <1>15 DEF TypeOK
      <4> QED
        BY <4>1, <4>2, <4>3
    <3> QED
      BY <1>1, <3>3, <3>4, <3>5, <3>6, <3>7 DEF LaunchedInv
  <2>6. StartsInv'
    <3>1. \A i \in Frames("child-start")' : /\ i + 1 \in Frames("child-start") /\ i + 1 # 1
                                            /\ wire'[i] = wire[i + 1]
      BY TookFrame DEF Frames
    <3>2. \A i \in Frames("child-start")' : wire'[i].id[1] # b
      BY <2>1, <3>1
    <3> QED
      BY <1>1, <1>2, <2>3, <3>1, <3>2 DEF StartsInv
  <2>7. ASSUME NEW d \in Branches PROVE BranchOK(d)'
    <3>1. PlaceOK(d) /\ AwaitOK(d) /\ MemberOK(d)
      BY <1>2 DEF BranchOK
    <3>2. PlaceOK(d)'
      <4>1. seq[d] \in Nat
        BY DEF TypeOK
      <4>2. d \in children' => call'[d] \in {"start", "child"} /\ seq'[d] <= Accepted'
        <5>1. CASE d = b
          <6>1. call'[d] = "start"
            BY <1>1, <2>1, <5>1
          <6>2. seq'[d] = Accepted' /\ Accepted' \in Nat
            BY <1>1, <1>8, <2>1, <2>2, <5>1
          <6> QED
            BY <6>1, <6>2
        <5>2. CASE d # b
          BY <1>1, <1>8, <2>3, <3>1, <4>1, <5>2 DEF PlaceOK
        <5> QED
          BY <5>1, <5>2
      <4>3. call'[d] = "child" => d \in children'
        BY <1>1, <2>3, <3>1 DEF PlaceOK
      <4> QED
        BY <1>1, <3>1, <4>2, <4>3 DEF PlaceOK
    <3>3. AwaitOK(d)'
      BY <1>1, <1>7, <3>1 DEF AwaitOK, KindOf
    <3>4. MemberOK(d)'
      <4>1. seq[d] \in Nat
        BY DEF TypeOK
      <4>2. l.id = <<d, next[d]>> => l.seq <= seq[d]
        BY <2>1, <2>3, <4>1
      <4> QED
        BY <1>1, <1>7, <2>3, <3>1, <4>2 DEF MemberOK
    <3> QED
      BY <3>2, <3>3, <3>4 DEF BranchOK
  <2> QED
    BY <1>1, <1>7, <1>9, <1>10, <1>11, <1>12, <1>13, <2>5, <2>6, <2>7
    DEF ReplayInv, AttemptInv, BranchInv, PanelIsAtomic
<1> QED
  BY <1>5, <1>14, <1>15

-----------------------------------------------------------------------------
(* What an attempt leaves is accepted. *)

(* The starts the host accepted are among those the worker paid for. *)
LEMMA PaidFits ==
  ASSUME TypeOK, BudgetInv, StartOrder
  PROVE  Observed <= started /\ started <= budget
<1>1. Cardinality(reservation) \in Nat
  BY ReplayAssumption, FS_Subset, FS_CardinalityType DEF TypeOK
<1>2. started = checkpoint.spend + (nextSeq - checkpoint.seq) + Cardinality(reservation) /\ started <= budget
  BY DEF BudgetInv
<1>3. Accepted <= nextSeq
  BY DEF StartOrder
<1> QED
  BY <1>1, <1>2, <1>3, NumberTypes

(* The journal's new entries of agents are fewer than the accepted starts. *)
LEMMA AgentsPaid ==
  ASSUME TypeOK, EntriesInv, CheckpointInv, NewCommits
  PROVE  Cardinality(AgentEntries(journal)) \in Nat /\ Cardinality(AgentEntries(journal)) <= Observed
<1> DEFINE A == AgentEntries(checkpoint.journal)
           J == AgentEntries(journal)
           f == [e \in J \ A |-> e.seq]
<1>1. /\ IsFiniteSet(A) /\ Cardinality(A) \in Nat
      /\ IsFiniteSet(J) /\ J \subseteq Range(journal) /\ Cardinality(J) \in Nat
  BY AgentsFinite DEF TypeOK
<1>2. ASSUME NEW e \in J \ A PROVE e \in Commits /\ e.seq \in checkpoint.seq + 1 .. Accepted /\ e.seq > 0
  <2>1. e \in Commits /\ e.seq > 0
    BY <1>1, CommitTypes DEF AgentEntries
  <2>2. e \notin Restored
    BY <2>1 DEF AgentEntries, Restored
  <2> QED
    BY <2>1, <2>2 DEF NewCommits
<1>3. f \in Injection(J \ A, checkpoint.seq + 1 .. Accepted)
  <2>1. f \in [J \ A -> checkpoint.seq + 1 .. Accepted]
    BY <1>2
  <2>2. ASSUME NEW d \in J \ A, NEW e \in J \ A, f[d] = f[e] PROVE d = e
    BY <1>2, <2>2 DEF EntriesInv
  <2> HIDE DEF f
  <2> QED
    BY <2>1, <2>2 DEF Injection, IsInjective
<1>4. /\ IsFiniteSet(checkpoint.seq + 1 .. Accepted)
      /\ Cardinality(checkpoint.seq + 1 .. Accepted) = hostStarted
  <2>1. checkpoint.seq + 1 \in Int /\ Accepted \in Int
    BY NumberTypes
  <2>2. Cardinality(checkpoint.seq + 1 .. Accepted) =
          IF checkpoint.seq + 1 > Accepted THEN 0 ELSE Accepted - (checkpoint.seq + 1) + 1
    BY <2>1, FS_Interval
  <2>3. IsFiniteSet(checkpoint.seq + 1 .. Accepted)
    BY <2>1, FS_Interval
  <2>4. Accepted = checkpoint.seq + hostStarted /\ checkpoint.seq \in Nat /\ hostStarted \in Nat
    BY NumberTypes
  <2> QED
    BY <2>2, <2>3, <2>4
<1>5. Cardinality(J \ A) <= hostStarted
  BY <1>3, <1>4, FS_Injection
<1>6. Cardinality(J \ A) = Cardinality(J) - Cardinality(J \cap A)
  BY <1>1, FS_Difference
<1>7. Cardinality(J \cap A) <= Cardinality(A) /\ Cardinality(J \cap A) \in Nat
  <2>1. J \cap A \in SUBSET A
    OBVIOUS
  <2> QED
    BY <1>1, <2>1, FS_Subset, FS_CardinalityType
<1>8. Cardinality(A) <= checkpoint.spend
  BY DEF CheckpointInv
<1>9. Cardinality(J) \in Nat /\ Cardinality(A) \in Nat
  BY <1>1
<1> HIDE DEF A, J
<1>10. Cardinality(J) <= Observed
  BY <1>5, <1>6, <1>7, <1>8, <1>9, NumberTypes
<1> QED
  BY <1>9, <1>10 DEF J

(* checkpoint() covers its journal, the accepted starts and what it covered before. *)
LEMMA CheckpointCovers ==
  ASSUME TypeOK, CheckpointInv, NewCommits, AnnounceInv, NEW s \in Nat, checkpoint.spend <= s
  PROVE  LET c == Checkpoint(s) IN
         /\ c.journal = journal /\ c.spend = s /\ c.seq \in Nat
         /\ c \in [journal : Seq(EntryRecord), spend : Nat, seq : Nat]
         /\ s <= c.seq /\ checkpoint.seq <= c.seq /\ checkpoint.seq + s - checkpoint.spend <= c.seq
         /\ \A e \in Range(journal) : e.seq <= c.seq
<1> DEFINE S == {s, InitialSeq, InitialSeq + s - checkpoint.spend} \cup announced
                  \cup {e.seq : e \in AgentEntries(journal)}
           c == Checkpoint(s)
           M == Accepted + s
<1>1. c.journal = journal /\ c.spend = s /\ c.seq = Largest(S)
  BY DEF Checkpoint
<1>2. InitialSeq = checkpoint.seq
  BY DEF InitialSeq
<1>3. checkpoint.seq + s - checkpoint.spend \in Nat
  BY NumberTypes
<1>4. M \in Nat /\ s <= M /\ checkpoint.seq <= M /\ checkpoint.seq + s - checkpoint.spend <= M /\ Accepted <= M
  BY NumberTypes
<1>5. AgentEntries(journal) \subseteq Range(journal) /\ Range(journal) \subseteq Commits
  BY CommitTypes DEF AgentEntries
<1>6. \A e \in Commits : e.seq \in Nat /\ e.seq <= Accepted
  BY CommitTypes, CommitSeqs
<1>7. \A a \in announced : a \in Nat /\ a <= Accepted
  BY DEF AnnounceInv, TypeOK
<1>8. S \subseteq 0 .. M
  <2>1. ASSUME NEW n \in S PROVE n \in Nat /\ n <= M
    <3>1. CASE n \in {s, InitialSeq, InitialSeq + s - checkpoint.spend}
      BY <1>2, <1>3, <1>4, <3>1, NumberTypes
    <3>2. CASE n \in announced
      <4>1. n \in Nat /\ n <= Accepted
        BY <1>7, <3>2
      <4> QED
        BY <1>4, <4>1, NumberTypes
    <3>3. CASE n \in {e.seq : e \in AgentEntries(journal)}
      <4>1. n \in Nat /\ n <= Accepted
        BY <1>5, <1>6, <3>3
      <4> QED
        BY <1>4, <4>1, NumberTypes
    <3> QED
      BY <3>1, <3>2, <3>3
  <2> HIDE DEF S, M
  <2> QED
    BY <1>4, <2>1
<1>9. S # {} /\ s \in S /\ checkpoint.seq \in S /\ checkpoint.seq + s - checkpoint.spend \in S
      /\ \A e \in AgentEntries(journal) : e.seq \in S
  BY <1>2
<1> HIDE DEF S, M, c
<1>10. Largest(S) \in S /\ \A l \in S : l <= Largest(S)
  BY <1>4, <1>8, <1>9, LargestExists
<1>11. c.seq \in Nat
  <2>1. Largest(S) \in 0 .. M
    BY <1>8, <1>10
  <2>2. c.seq = Largest(S)
    BY <1>1 DEF S, c
  <2> QED
    BY <1>4, <2>1, <2>2
<1>12. ASSUME NEW e \in Range(journal) PROVE e.seq <= c.seq
  <2>1. e.seq \in Nat
    BY <1>5, <1>6
  <2>2. CASE e.seq > 0
    BY <1>1, <1>9, <1>10, <2>2 DEF AgentEntries
  <2>3. CASE ~(e.seq > 0)
    BY <1>11, <2>1, <2>3
  <2> QED
    BY <2>2, <2>3
<1>13. c \in [journal : Seq(EntryRecord), spend : Nat, seq : Nat]
  <2>1. c = [journal |-> journal, spend |-> s, seq |-> Largest(S)]
    BY DEF c, S, Checkpoint
  <2> QED
    BY <1>1, <1>11, <2>1 DEF TypeOK
<1> QED
  BY <1>1, <1>9, <1>10, <1>11, <1>12, <1>13 DEF c

(* acceptCheckpoint has nothing to refuse. *)
LEMMA CheckpointAccepted ==
  ASSUME TypeOK, EntriesInv, CheckpointInv, NewCommits, AnnounceInv, NEW s \in Nat, Observed <= s
  PROVE  Acceptable(Checkpoint(s))
<1> DEFINE c == Checkpoint(s)
<1>1. checkpoint.spend <= s
  BY NumberTypes
<1>2. /\ c.journal = journal /\ c.spend = s /\ checkpoint.seq <= c.seq
      /\ \A e \in Range(journal) : e.seq <= c.seq /\ e.seq \in Nat /\ c.seq \in Nat
  BY <1>1, CheckpointCovers, CommitTypes
<1> HIDE DEF c
<1>3. journal \in Seq(EntryRecord) /\ DOMAIN journal = 1 .. Len(journal) /\ Len(journal) \in Nat
  BY DEF TypeOK
<1>4. \A i \in DOMAIN journal : journal[i] \in Commits /\ journal[i].ordinal = i
  BY <1>3, RangeOf, CommitTypes DEF EntriesInv
<1>5. IsInjective([i \in DOMAIN c.journal |-> c.journal[i].id])
  <2>1. ASSUME NEW i \in DOMAIN journal, NEW j \in DOMAIN journal, journal[i].id = journal[j].id PROVE i = j
    <3>1. journal[i] = journal[j]
      BY <1>4, <2>1 DEF EntriesInv
    <3> QED
      BY <1>4, <3>1
  <2> QED
    BY <1>2, <2>1 DEF IsInjective
<1>6. \A d, e \in AgentEntries(c.journal) : d.seq = e.seq => d = e
  BY <1>2, CommitTypes DEF AgentEntries, EntriesInv
<1>7. s >= Cardinality(AgentEntries(journal))
  BY AgentsPaid, NumberTypes
<1>8. \A e \in AgentEntries(journal) : c.seq >= e.seq
  BY <1>2 DEF AgentEntries
<1>9. IsPrefix(checkpoint.journal, journal)
  BY DEF CheckpointInv
<1>10. Acceptable(c)
  BY <1>1, <1>2, <1>4, <1>5, <1>6, <1>7, <1>8, <1>9, NumberTypes DEF Acceptable
<1> QED
  BY <1>10 DEF c

(* What taking the last frame, or none, leaves on the port. *)
LEMMA SettleKeeps ==
  ASSUME TypeOK, ReplayInv, status = "running", NEW how, NEW reported \in Nat, reported <= budget,
         Settle(how, reported), Commits' \subseteq Commits,
         UNCHANGED <<prog, attempt, budget, cancelled, journal, hostStarted, accused, launched>>,
         cancelled \/ how \in {"cap", "completed", "diverged"}, how = "diverged" => ~CompletesAlone,
         how = "cap" /\ prog.panel => nextSeq = checkpoint.seq
  PROVE  /\ ReplayInv' /\ status' \in Statuses
         /\ checkpoint' \in [journal : Seq(EntryRecord), spend : Nat, seq : Nat]
<1>1. /\ EntriesInv /\ CheckpointInv /\ LaunchedInv /\ StartOrder /\ AnnounceInv /\ BudgetInv /\ NewCommits
      /\ ~accused
  BY DEF ReplayInv, AttemptInv
<1> DEFINE s == Spent(reported)
           c == Checkpoint(s)
<1>2. s \in Nat /\ Observed <= s /\ s <= budget /\ checkpoint.spend <= s
  <2>1. Observed <= started /\ started <= budget
    BY <1>1, PaidFits
  <2>2. s = IF Observed > reported THEN Observed ELSE reported
    BY DEF Spent, Larger
  <2> HIDE DEF s
  <2> QED
    BY <2>1, <2>2, NumberTypes
<1> HIDE DEF s
<1>3. Acceptable(c)
  BY <1>1, <1>2, CheckpointAccepted
<1>4. /\ c.journal = journal /\ c.spend = s /\ c.seq \in Nat
      /\ c \in [journal : Seq(EntryRecord), spend : Nat, seq : Nat]
      /\ s <= c.seq /\ checkpoint.seq + s - checkpoint.spend <= c.seq
      /\ \A e \in Range(journal) : e.seq <= c.seq
  BY <1>1, <1>2, CheckpointCovers
<1>5. checkpoint' = c
  BY <1>3 DEF Settle, s
<1>6. /\ cancelled => status' = "paused"
      /\ ~cancelled /\ how = "cap" => status' = "budget-limited"
      /\ ~cancelled /\ how = "completed" => status' = "completed"
      /\ ~cancelled /\ how = "diverged" => status' = "failed"
  BY <1>3 DEF Settle, s
<1>7. status' \in Statuses \ {"running"} /\ (status' = "failed" => ~CompletesAlone)
      /\ (status' = "budget-limited" => how = "cap")
  BY <1>6 DEF Statuses
<1> HIDE DEF c
<1>8. EntriesInv'
  BY <1>1, EntriesShrink DEF EntriesInv
<1>9. CheckpointInv'
  <2>1. journal \in Seq(EntryRecord)
    BY DEF TypeOK
  <2>2. IsPrefix(journal, journal)
    BY <2>1, PrefixSelf
  <2>3. Cardinality(AgentEntries(journal)) <= s
    BY <1>1, <1>2, AgentsPaid, NumberTypes
  <2>4. Restored' = Range(journal) /\ AgentEntries(checkpoint'.journal) = AgentEntries(journal)
    BY <1>4, <1>5 DEF Restored
  <2>5. checkpoint'.journal = journal /\ checkpoint'.spend = s /\ checkpoint'.seq = c.seq /\ journal' = journal
        /\ budget' = budget
    BY <1>4, <1>5
  <2>6. \A e \in Restored' : e.seq <= checkpoint'.seq
    BY <1>4, <2>4, <2>5
  <2> QED
    BY <1>2, <1>4, <2>2, <2>3, <2>4, <2>5, <2>6 DEF CheckpointInv
<1>10. LaunchedInv'
  <2>1. Accepted <= c.seq
    <3>1. checkpoint.seq + s - checkpoint.spend <= c.seq /\ c.seq \in Nat
      BY <1>4
    <3>2. /\ Accepted = checkpoint.seq + hostStarted /\ checkpoint.spend + hostStarted <= s
          /\ checkpoint.seq \in Nat /\ checkpoint.spend \in Nat /\ hostStarted \in Nat
      BY <1>2, NumberTypes
    <3> QED
      BY <1>2, <3>1, <3>2
  <2>2. ASSUME NEW l \in launched PROVE l.seq <= c.seq
    <3>1. l.seq \in Nat /\ l.seq <= checkpoint.seq + hostStarted
      BY <1>1 DEF LaunchedInv, TypeOK
    <3> QED
      BY <1>4, <2>1, <3>1, NumberTypes
  <2>3. Cardinality(launched) <= s
    <3>1. Cardinality(launched) \in Nat /\ Cardinality(launched) <= checkpoint.spend + hostStarted
      BY <1>1, FS_CardinalityType DEF LaunchedInv
    <3> QED
      BY <1>2, <3>1, NumberTypes
  <2>4. checkpoint'.spend + (IF status' = "running" THEN hostStarted' ELSE 0) = s
    BY <1>2, <1>4, <1>5, <1>7
  <2>5. checkpoint'.seq + (IF status' = "running" THEN hostStarted' ELSE 0) = c.seq
    BY <1>4, <1>5, <1>7
  <2>6. /\ \A l, m \in launched' : l.seq = m.seq => l = m
        /\ \A l \in launched' : KindOf(l.id)' = "agent"
        /\ \A l \in launched', e \in Commits' : l.id = e.id => l.seq <= e.seq
        /\ IsFiniteSet(launched') /\ launched' = launched
    BY <1>1 DEF LaunchedInv, KindOf
  <2> QED
    BY <2>2, <2>3, <2>4, <2>5, <2>6 DEF LaunchedInv
<1>11. PanelIsAtomic'
  <2> SUFFICES ASSUME prog.panel, status' = "budget-limited" PROVE hostStarted = 0
    BY DEF PanelIsAtomic
  <2>1. nextSeq = checkpoint.seq
    BY <1>7
  <2>2. Accepted <= nextSeq
    BY <1>1 DEF StartOrder
  <2> QED
    BY <2>1, <2>2, NumberTypes
<1> QED
  BY <1>1, <1>4, <1>5, <1>7, <1>8, <1>9, <1>10, <1>11 DEF ReplayInv

LEMMA ReceiveKeeps ==
  ASSUME TypeOK, ReplayInv, Receive
  PROVE  TypeOK' /\ ReplayInv'
<1> DEFINE m == Head(wire)
<1>1. /\ status = "running" /\ wire # <<>> /\ wire' = Tail(wire)
      /\ UNCHANGED <<prog, attempt, budget, worker, cancelled, finished>>
  BY DEF Receive
<1>2. ~Violation(m)
  BY <1>1, NeverAViolation
<1>3. /\ accused' = accused
      /\ \/ /\ m.type = "result" /\ Settle(m.how, m.n)
            /\ UNCHANGED <<journal, hostStarted, children, announced, launched>>
         \/ /\ \/ m.type = "child-start" /\ OnChildStart(m)
               \/ m.type = "agent-start" /\ OnAgentStart(m)
               \/ m.type = "commit" /\ OnCommit(m)
            /\ UNCHANGED <<status, checkpoint>>
  BY <1>2 DEF Receive
<1>4. CASE m.type = "result" /\ Settle(m.how, m.n) /\ UNCHANGED <<journal, hostStarted, children, announced, launched>>
  <2>1. wire[1] = m /\ 1 \in Frames("result") /\ ResultInv /\ m \in FrameRecord
    BY <1>1, <1>4, SequenceTypes, TookFrame DEF Frames, ReplayInv, AttemptInv
  <2>2. m \in ResultFrame
    BY <1>4, <2>1 DEF FrameRecord, CallFrame
  <2>3. /\ m.how \in {"cap", "completed", "diverged", "cancelled"} /\ m.n = started
        /\ m.how = "cancelled" => cancelled
        /\ m.how = "diverged" => ~CompletesAlone
        /\ m.how = "cap" /\ prog.panel => nextSeq = checkpoint.seq
    BY <2>1, <2>2 DEF ResultInv, ResultFrame
  <2>4. started \in Nat /\ started <= budget
    BY <1>1, NumberTypes DEF ReplayInv, AttemptInv, BudgetInv
  <2>5. Commits' \subseteq Commits
    BY <1>1, <1>4, TookCommits
  <2> HIDE DEF m
  <2>6. /\ ReplayInv' /\ status' \in Statuses
        /\ checkpoint' \in [journal : Seq(EntryRecord), spend : Nat, seq : Nat]
    BY <1>1, <1>3, <1>4, <2>3, <2>4, <2>5, SettleKeeps
  <2>7. wire' \in Seq(FrameRecord)
    BY <1>1, SequenceTypes
  <2>8. TypeOK'
    BY <1>1, <1>3, <1>4, <2>6, <2>7 DEF TypeOK, worker
  <2> QED
    BY <2>6, <2>8
<1>5. CASE /\ \/ m.type = "child-start" /\ OnChildStart(m)
              \/ m.type = "agent-start" /\ OnAgentStart(m)
              \/ m.type = "commit" /\ OnCommit(m)
           /\ UNCHANGED <<status, checkpoint>>
  <2>1. Taken(m)
    BY <1>1, <1>2, <1>3, <1>5 DEF Taken, run
  <2>2. TypeOK'
    BY <1>1, <2>1, TakenTypes
  <2> QED
    BY <1>1, <2>1, <2>2, TakenKeeps
<1> QED
  BY <1>3, <1>4, <1>5

LEMMA GraceKeeps ==
  ASSUME TypeOK, ReplayInv, GraceExpires
  PROVE  TypeOK' /\ ReplayInv'
<1>1. /\ status = "running" /\ cancelled /\ Settle("cancelled", 0)
      /\ UNCHANGED <<prog, attempt, budget, worker, wire, host, launched, finished>>
      /\ UNCHANGED <<journal, cancelled, hostStarted, children, announced, accused>>
  BY DEF GraceExpires, host
<1>2. Commits' = Commits
  BY <1>1 DEF Commits, Frames
<1>3. 0 \in Nat /\ 0 <= budget
  BY NumberTypes
<1>4. /\ ReplayInv' /\ status' \in Statuses
      /\ checkpoint' \in [journal : Seq(EntryRecord), spend : Nat, seq : Nat]
  BY <1>1, <1>2, <1>3, SettleKeeps
<1>5. TypeOK'
  BY <1>1, <1>4 DEF TypeOK, worker
<1> QED
  BY <1>4, <1>5

-----------------------------------------------------------------------------
(* A new attempt. *)

LEMMA EmptyFrames ==
  ASSUME wire = <<>>
  PROVE  (\A type : Frames(type) = {}) /\ Commits = Range(journal)
<1>1. DOMAIN wire = {}
  OBVIOUS
<1> QED
  BY <1>1 DEF Frames, Commits

(* An attempt that has just begun, with the journal it was given. *)
Begun ==
  /\ opened = FALSE /\ ended = FALSE /\ turn = <<>> /\ wire = <<>>
  /\ next = [b \in Branches |-> 0] /\ seq = [b \in Branches |-> 0]
  /\ call = [b \in Branches |-> "none"] /\ reservation = {} /\ replayed = {}
  /\ started = checkpoint.spend /\ nextSeq = checkpoint.seq /\ ordinal = Len(journal)
  /\ journal = checkpoint.journal /\ hostStarted = 0 /\ children = {} /\ announced = {}

(* An attempt begins in step with what was restored. *)
LEMMA BegunIsSound ==
  ASSUME TypeOK, EntriesInv, CheckpointInv, Begun
  PROVE  AttemptInv
<1>1. wire = <<>> /\ (\A type : Frames(type) = {}) /\ Commits = Range(journal) /\ Restored = Range(journal)
  BY EmptyFrames DEF Begun, Restored
<1>2. Len(journal) \in Nat /\ checkpoint.seq \in Nat /\ checkpoint.spend \in Nat
      /\ Accepted = checkpoint.seq /\ nextSeq = checkpoint.seq /\ ordinal = Len(journal)
      /\ started = checkpoint.spend
  BY DEF TypeOK, Begun, Accepted
<1>3. CommitOrder /\ StartOrder
  BY <1>1, <1>2 DEF CommitOrder, StartOrder
<1>4. ResultInv /\ AnnounceInv
  BY <1>1 DEF ResultInv, AnnounceInv, Begun
<1>5. BudgetInv
  <2>1. Cardinality(reservation) = 0 /\ reservation = {}
    BY FS_EmptySet DEF Begun
  <2>2. started = checkpoint.spend + (nextSeq - checkpoint.seq) + Cardinality(reservation)
    BY <1>2, <2>1
  <2>3. started <= budget
    BY <1>2 DEF CheckpointInv
  <2>4. ~opened /\ turn = <<>> /\ \A b \in Branches : next[b] = 0 /\ call[b] = "none"
    BY DEF Begun
  <2> QED
    BY <1>2, <2>1, <2>2, <2>3, <2>4 DEF BudgetInv
<1>6. BranchInv
  <2>1. TurnInv /\ StartsInv
    BY <1>1 DEF TurnInv, StartsInv, Begun
  <2>2. ASSUME NEW b \in Branches PROVE BranchOK(b)
    <3>1. next[b] = 0 /\ call[b] = "none" /\ b \notin children
      BY DEF Begun
    <3>2. Len(prog.body[b]) \in Nat
      BY BodyTypes
    <3> QED
      BY <3>1, <3>2 DEF BranchOK, PlaceOK, AwaitOK, MemberOK, Awaiting
  <2> QED
    BY <2>1, <2>2 DEF BranchInv
<1>7. NewCommits
  BY <1>1 DEF NewCommits
<1>8. ReplayedInv
  <2> SUFFICES ASSUME NEW id \in Ids(checkpoint.journal) PROVE ~(id[2] <= next[id[1]])
    BY DEF ReplayedInv
  <2>1. PICK e \in Commits : e.id = id
    BY RestoredTypes
  <2>2. Reachable(id) /\ id \in Calls
    BY <2>1, CommitTypes DEF EntriesInv
  <2>3. id[1] \in Branches /\ id[2] \in Nat /\ id[2] > 0
    BY <2>2, BodyTypes DEF Reachable, Calls
  <2>4. next[id[1]] = 0
    BY <2>3 DEF Begun
  <2> QED
    BY <2>3, <2>4
<1> QED
  BY <1>3, <1>4, <1>5, <1>6, <1>7, <1>8 DEF AttemptInv

(* The constructors count what the checkpoint says, no more and no less. *)
LEMMA FreshCounts ==
  ASSUME TypeOK, CheckpointInv, journal = checkpoint.journal, Fresh(checkpoint)
  PROVE  started' = checkpoint.spend /\ nextSeq' = checkpoint.seq
<1> DEFINE n == Cardinality(AgentEntries(checkpoint.journal))
<1>1. n \in Nat /\ n <= checkpoint.spend
  BY AgentsFinite DEF TypeOK, CheckpointInv
<1>2. started' = IF checkpoint.spend > n THEN checkpoint.spend ELSE n
  BY DEF Fresh, Larger
<1> HIDE DEF n
<1>3. started' = checkpoint.spend
  BY <1>1, <1>2, NumberTypes
<1> DEFINE S == {checkpoint.seq, started'} \cup {e.seq : e \in AgentEntries(checkpoint.journal)}
<1>4. checkpoint.spend <= checkpoint.seq
  BY DEF CheckpointInv
<1>5. \A e \in AgentEntries(checkpoint.journal) : e.seq \in Nat /\ e.seq <= checkpoint.seq
  <2>1. AgentEntries(checkpoint.journal) \subseteq Restored
    BY DEF AgentEntries, Restored
  <2> QED
    BY <2>1, RestoredTypes, CommitTypes DEF CheckpointInv
<1>6. S \in SUBSET Nat /\ checkpoint.seq \in S /\ \A m \in S : m <= checkpoint.seq
  BY <1>3, <1>4, <1>5, NumberTypes
<1>7. nextSeq' = Largest(S)
  BY DEF Fresh
<1> HIDE DEF S
<1>8. nextSeq' = checkpoint.seq
  BY <1>6, <1>7, LargestIs
<1> QED
  BY <1>3, <1>8

LEMMA ResumeTypes ==
  ASSUME TypeOK, CheckpointInv, journal = checkpoint.journal, Resume
  PROVE  TypeOK'
<1>1. /\ attempt' = attempt + 1 /\ budget' \in Nat /\ status' = "running" /\ Fresh(checkpoint)
      /\ UNCHANGED <<prog, checkpoint, launched>>
  <2>1. budget \in Nat /\ MaxBudget \in Nat
    BY ReplayAssumption DEF TypeOK
  <2>2. budget' = budget \/ budget' \in budget + 1 .. MaxBudget
    BY DEF Resume
  <2> QED
    BY <2>1, <2>2 DEF Resume
<1>2. started' \in Nat /\ nextSeq' \in Nat
  BY <1>1, FreshCounts, NumberTypes
<1>3. /\ opened' = FALSE /\ ended' = FALSE /\ finished' = FALSE /\ turn' = <<>> /\ wire' = <<>>
      /\ next' = [b \in Branches |-> 0] /\ seq' = [b \in Branches |-> 0]
      /\ call' = [b \in Branches |-> "none"] /\ reservation' = {} /\ replayed' = {}
      /\ ordinal' = Len(checkpoint.journal) /\ journal' = checkpoint.journal
      /\ cancelled' = FALSE /\ hostStarted' = 0 /\ children' = {} /\ announced' = {} /\ accused' = FALSE
  BY <1>1 DEF Fresh
<1>4. checkpoint.journal \in Seq(EntryRecord) /\ Len(checkpoint.journal) \in Nat /\ attempt + 1 \in Nat
  BY DEF TypeOK
<1>5. <<>> \in Seq(Branches) /\ <<>> \in Seq(FrameRecord)
  OBVIOUS
<1>6. /\ [b \in Branches |-> 0] \in [Branches -> Nat]
      /\ [b \in Branches |-> "none"] \in [Branches -> CallStates]
  BY DEF CallStates
<1> QED
  BY <1>1, <1>2, <1>3, <1>4, <1>5, <1>6 DEF TypeOK, Statuses

LEMMA ResumeKeeps ==
  ASSUME TypeOK, ReplayInv, Resume
  PROVE  TypeOK' /\ ReplayInv'
<1>1. /\ status \in {"paused", "budget-limited"} /\ status' = "running" /\ Fresh(checkpoint)
      /\ UNCHANGED <<prog, checkpoint, launched>>
      /\ budget' = budget \/ budget' \in budget + 1 .. MaxBudget
  BY DEF Resume
<1>2. EntriesInv /\ CheckpointInv /\ LaunchedInv /\ ~accused /\ journal = checkpoint.journal
  BY <1>1 DEF ReplayInv, CheckpointInv
<1>3. TypeOK'
  BY <1>2, ResumeTypes
<1>4. journal' = journal /\ checkpoint' = checkpoint /\ hostStarted' = 0 /\ accused' = FALSE /\ wire' = <<>>
  BY <1>1, <1>2 DEF Fresh
<1>5. Commits' \subseteq Commits
  <2>1. DOMAIN wire' = {}
    BY <1>4
  <2>2. Frames("commit")' = {}
    BY <2>1 DEF Frames
  <2> QED
    BY <1>4, <2>2 DEF Commits
<1>6. EntriesInv'
  BY <1>1, <1>2, <1>4, <1>5, EntriesShrink DEF EntriesInv
<1>7. CheckpointInv'
  <2>1. checkpoint.spend <= budget'
    <3>1. checkpoint.spend <= budget
      BY <1>2 DEF CheckpointInv
    <3>2. budget' \in Nat /\ budget <= budget'
      BY <1>1, NumberTypes, ReplayAssumption
    <3> QED
      BY <3>1, <3>2, NumberTypes
  <2> QED
    BY <1>1, <1>2, <1>4, <2>1 DEF CheckpointInv, Restored
<1>8. LaunchedInv'
  <2>1. \A l \in launched : l.seq <= checkpoint.seq
    BY <1>1, <1>2, NumberTypes DEF LaunchedInv
  <2>2. Cardinality(launched) <= checkpoint.spend
    BY <1>1, <1>2, NumberTypes DEF LaunchedInv
  <2>3. checkpoint'.spend + (IF status' = "running" THEN hostStarted' ELSE 0) = checkpoint.spend
        /\ checkpoint'.seq + (IF status' = "running" THEN hostStarted' ELSE 0) = checkpoint.seq
    BY <1>1, <1>4, NumberTypes
  <2>4. /\ \A l, m \in launched' : l.seq = m.seq => l = m
        /\ \A l \in launched' : KindOf(l.id)' = "agent"
        /\ \A l \in launched', e \in Commits' : l.id = e.id => l.seq <= e.seq
        /\ IsFiniteSet(launched') /\ launched' = launched
    BY <1>1, <1>2, <1>5 DEF LaunchedInv, KindOf
  <2> QED
    BY <2>1, <2>2, <2>3, <2>4 DEF LaunchedInv
<1>9. AttemptInv'
  <2>1. started' = checkpoint.spend /\ nextSeq' = checkpoint.seq
    BY <1>1, <1>2, FreshCounts
  <2>2. Begun'
    BY <1>1, <1>2, <1>4, <2>1 DEF Begun, Fresh
  <2> QED
    BY <1>3, <1>6, <1>7, <2>2, BegunIsSound, PTL
<1>10. PanelIsAtomic'
  BY <1>1 DEF PanelIsAtomic
<1> QED
  BY <1>1, <1>3, <1>4, <1>6, <1>7, <1>8, <1>9, <1>10 DEF ReplayInv

LEMMA InitKeeps ==
  ASSUME Init
  PROVE  TypeOK /\ ReplayInv
<1>1. checkpoint.journal = <<>> /\ checkpoint.spend = 0 /\ checkpoint.seq = 0 /\ journal = <<>> /\ launched = {}
      /\ wire = <<>> /\ accused = FALSE /\ status = "running" /\ hostStarted = 0 /\ budget \in 0 .. MaxBudget
  BY DEF Init
<1>2. budget \in Nat
  BY <1>1, ReplayAssumption
<1>3. TypeOK
  <2>1. <<>> \in Seq(Branches) /\ <<>> \in Seq(FrameRecord) /\ <<>> \in Seq(EntryRecord)
    OBVIOUS
  <2>2. checkpoint \in [journal : Seq(EntryRecord), spend : Nat, seq : Nat]
    BY <2>1 DEF Init
  <2>3. /\ [b \in Branches |-> 0] \in [Branches -> Nat]
        /\ [b \in Branches |-> "none"] \in [Branches -> CallStates]
    BY DEF CallStates
  <2> QED
    BY <1>2, <2>1, <2>2, <2>3 DEF Init, TypeOK, Statuses
<1>4. Range(journal) = {} /\ AgentEntries(checkpoint.journal) = {} /\ Commits = {} /\ Restored = {}
  BY <1>1, EmptyFrames DEF Range, AgentEntries, Restored
<1>5. EntriesInv
  BY <1>1, <1>4 DEF EntriesInv
<1>6. CheckpointInv
  <2>1. IsPrefix(checkpoint.journal, journal)
    <3>1. journal \in Seq(EntryRecord) /\ checkpoint.journal = journal
      BY <1>1
    <3> QED
      BY <3>1, PrefixSelf
  <2>2. Cardinality(AgentEntries(checkpoint.journal)) = 0
    BY <1>4, FS_EmptySet
  <2> QED
    BY <1>1, <1>2, <1>4, <2>1, <2>2 DEF CheckpointInv
<1>7. LaunchedInv
  BY <1>1, FS_EmptySet DEF LaunchedInv
<1>8. AttemptInv
  <2>1. Begun
    BY <1>1 DEF Init, Begun
  <2> QED
    BY <1>3, <1>5, <1>6, <2>1, BegunIsSound
<1> QED
  BY <1>1, <1>3, <1>5, <1>6, <1>7, <1>8 DEF ReplayInv, PanelIsAtomic

-----------------------------------------------------------------------------
LEMMA NextKeeps ==
  ASSUME TypeOK, ReplayInv, [Next]_vars
  PROVE  TypeOK' /\ ReplayInv'
<1>1. CASE Next
  <2>1. CASE OpenPanel
    BY <2>1, OpenTypes, OpenPanelKeeps
  <2>2. CASE Step
    BY <2>2, StepTypes, StepKeeps
  <2>3. CASE Cancelled
    BY <2>3, CancelTypes, CancelKeeps
  <2>4. CASE Receive
    BY <2>4, ReceiveKeeps
  <2>5. CASE Pause
    BY <2>5, CancelTypes, PauseKeeps
  <2>6. CASE GraceExpires
    BY <2>6, GraceKeeps
  <2>7. CASE Resume
    BY <2>7, ResumeKeeps
  <2>8. CASE \E b \in Branches : Answers(b)
    BY <2>8, AnswerTypes, AnswersKeep
  <2> QED
    BY <1>1, <2>1, <2>2, <2>3, <2>4, <2>5, <2>6, <2>7, <2>8 DEF Next
<1>2. CASE UNCHANGED vars
  <2>1. /\ UNCHANGED <<prog, attempt, budget, status, checkpoint, wire, launched, finished>>
        /\ UNCHANGED <<opened, next, turn, call, seq, reservation, replayed, started, nextSeq, ordinal, ended>>
        /\ UNCHANGED <<journal, cancelled, hostStarted, children, announced, accused>>
    BY <1>2 DEF vars, run, worker, host
  <2>2. TypeOK'
    BY <2>1 DEF TypeOK
  <2>3. Commits' = Commits /\ Restored' = Restored /\ Accepted' = Accepted
    BY <2>1 DEF Commits, Frames, Restored, Accepted
  <2>4. EntriesInv' /\ CheckpointInv' /\ LaunchedInv' /\ PanelIsAtomic'
    <3>1. EntriesInv'
      BY <2>1, <2>3, EntriesShrink DEF ReplayInv, EntriesInv
    <3>2. LaunchedInv'
      BY <2>1, <2>3, LaunchedStay DEF ReplayInv
    <3>3. CheckpointInv'
      BY <2>1, <2>3 DEF ReplayInv, CheckpointInv
    <3> QED
      BY <2>1, <3>1, <3>2, <3>3 DEF ReplayInv, PanelIsAtomic
  <2>5. ASSUME AttemptInv PROVE AttemptInv'
    <3>1. CommitOrder' /\ StartOrder' /\ ResultInv' /\ AnnounceInv'
      BY <2>1, <2>5, PortStays DEF AttemptInv
    <3>2. BudgetInv' /\ ReplayedInv' /\ NewCommits'
      BY <2>1, <2>3, <2>5 DEF AttemptInv, BudgetInv, ReplayedInv, NewCommits
    <3>3. TurnInv' /\ StartsInv'
      BY <2>1, <2>5 DEF AttemptInv, BranchInv, TurnInv, StartsInv, Frames
    <3>4. ASSUME NEW b \in Branches PROVE BranchOK(b)'
      BY <2>1, <2>3, <2>5 DEF AttemptInv, BranchInv, BranchOK, PlaceOK, AwaitOK, MemberOK, KindOf
    <3> QED
      BY <3>1, <3>2, <3>3, <3>4 DEF AttemptInv, BranchInv
  <2> QED
    BY <2>1, <2>2, <2>4, <2>5 DEF ReplayInv
<1> QED
  BY <1>1, <1>2

(* At every moment the worker's claims, the frames under way, the host's ledger *)
(* and the checkpoint agree (ReplayInv): what was interrupted leaves a journal  *)
(* and counters that the next attempt can begin with.                           *)
THEOREM AttemptsReplay == Spec => [](TypeOK /\ ReplayInv)
<1>1. Init => TypeOK /\ ReplayInv
  BY InitKeeps
<1>2. TypeOK /\ ReplayInv /\ [Next]_vars => (TypeOK /\ ReplayInv)'
  BY NextKeeps
<1> QED
  BY <1>1, <1>2, PTL DEF Spec

LEMMA ReplayPays == TypeOK /\ ReplayInv => PaidOnce
<1> SUFFICES ASSUME TypeOK, ReplayInv PROVE PaidOnce
  OBVIOUS
<1>1. LaunchedInv /\ CheckpointInv
  BY DEF ReplayInv
<1>2. \A l \in launched, e \in Range(journal) : l.id = e.id => l.seq <= e.seq
  BY <1>1, CommitTypes DEF LaunchedInv
<1>3. status # "running" => Cardinality(launched) <= checkpoint.spend /\ checkpoint.spend <= budget
  <2>1. checkpoint.spend + 0 = checkpoint.spend
    BY NumberTypes
  <2> QED
    BY <1>1, <2>1 DEF LaunchedInv, CheckpointInv
<1> QED
  BY <1>1, <1>2, <1>3 DEF PaidOnce, LaunchedInv

LEMMA ReplayAdmits == TypeOK /\ ReplayInv => PanelIsAtomic
BY DEF ReplayInv

LEMMA ReplayRestores == TypeOK /\ ReplayInv => (CompletesAlone => ReplayAgrees)
BY DEF ReplayInv, ReplayAgrees

(* A member sequence is given to one child of the run, a committed call is not *)
(* made again, and whenever the run is at rest its checkpoint has charged each *)
(* child once and no more than the budget: whatever was paused, lost on the    *)
(* way to the host, or cut off by the grace timer (spendAgentBudget of         *)
(* runtime.ts, checkpoint() of host.ts).                                       *)
THEOREM PaidOnceInEachRun == Spec => []PaidOnce
BY AttemptsReplay, ReplayPays, PTL

(* A panel of jobs that does not fit in the budget starts none of them: what   *)
(* a run past its budget had started before its panel was refused is nothing.  *)
THEOREM PanelsAreAdmittedWhole == Spec => []PanelIsAtomic
BY AttemptsReplay, ReplayAdmits, PTL

(* The host refuses no frame of a worker that resumed from a checkpoint, the   *)
(* supervisor accepts what every attempt leaves, and a script that ends has    *)
(* replayed everything the journal holds; but a complete() that races other    *)
(* branches may end with entries unread (README, section 10).                  *)
THEOREM ResumedRunsAgree == Spec => [](CompletesAlone => ReplayAgrees)
BY AttemptsReplay, ReplayRestores, PTL
=============================================================================
