------------------------ MODULE RunSupervisorProofs ------------------------
(***************************************************************************)
(* What is proved of the supervisor beyond its types, for every value of   *)
(* the constants, all failures and teardowns included: a run never has two *)
(* live engine attempts (AttemptInv), a parked run can be resumed          *)
(* (ReplayInv), and dispose accounts for every run (TeardownInv).  While   *)
(* one thread of control terminalizes, the live counters are exact, the    *)
(* limits of admission are kept and a terminal row stays (SettlementInv).  *)
(* Frame lemmas say which changes leave a part of an invariant alone; then *)
(* there is one step per action.                                           *)
(***************************************************************************)
EXTENDS RunSupervisorTypes, FiniteSetTheorems

(* cancel(), release() and a new intent leave an attempt as live as it was. *)
Alike(att, next) ==
  LET LiveStates == {"inert", "withdrawn", "running", "cancelling"} IN
  /\ next.st \in LiveStates <=> att.st \in LiveStates
  /\ next.st = "unborn" <=> att.st = "unborn"
  /\ next.st = "quiescent" <=> att.st = "quiescent"
EngineAlike == \A r \in Runs : \A g \in Gens : Alike(engine[r][g], engine'[r][g])
QuietStays == \A r \in Runs : \A g \in Gens :
                engine[r][g].st = "quiescent" => engine'[r][g].st = "quiescent"

LEMMA AlikeCancelled ==
  ASSUME NEW att \in AttemptRecord
  PROVE  /\ Alike(att, att) /\ Alike(att, Cancelled(att)) /\ Alike(att, Released(att))
         /\ Alike(att, Torn(att))
         /\ \A intent : Alike(att, [att EXCEPT !.intent = intent])
         /\ Alike(att, [Cancelled(att) EXCEPT !.intent = "stop"])
BY DEF AttemptRecord, Alike, Cancelled, Released, Torn

LEMMA AlikeUnchanged ==
  ASSUME UNCHANGED engine
  PROVE  EngineAlike
BY DEF EngineAlike, Alike

LEMMA AlikeQuiet ==
  ASSUME EngineAlike
  PROVE  QuietStays
BY DEF EngineAlike, Alike, QuietStays

LEMMA AlikeUpdate ==
  ASSUME TypeAttempts, NEW r \in Runs, NEW g, NEW att,
         g \in Gens => Alike(engine[r][g], att),
         engine' = [engine EXCEPT ![r][g] = att]
  PROVE  EngineAlike
<1>1. ASSUME NEW q \in Runs, NEW h \in Gens
      PROVE  Alike(engine[q][h], engine'[q][h])
  <2>1. CASE q = r /\ h = g
    BY <2>1 DEF TypeAttempts
  <2>2. CASE ~(q = r /\ h = g)
    <3>1. engine'[q][h] = engine[q][h]
      BY <2>2 DEF TypeAttempts
    <3> QED
      BY <3>1 DEF Alike
  <2> QED
    BY <2>1, <2>2
<1> QED
  BY <1>1 DEF EngineAlike

LEMMA AlikeStep ==
  ASSUME TypeAttempts, NEW r \in Runs, NEW g,
         \/ engine' = [engine EXCEPT ![r][g] = Cancelled(@)]
         \/ engine' = [engine EXCEPT ![r][g] = Released(@)]
         \/ engine' = [engine EXCEPT ![r][g] = Torn(@)]
         \/ engine' = [engine EXCEPT ![r][g] = [Cancelled(@) EXCEPT !.intent = "stop"]]
         \/ \E intent : engine' = WithIntent(r, g, intent)
  PROVE  EngineAlike
<1>1. g \in Gens => engine[r][g] \in AttemptRecord
  BY DEF TypeAttempts
<1>2. PICK att : /\ g \in Gens => Alike(engine[r][g], att)
                 /\ engine' = [engine EXCEPT ![r][g] = att]
  BY <1>1, AlikeCancelled DEF WithIntent
<1> QED
  BY <1>2, AlikeUpdate

LEMMA AlikeAbort ==
  ASSUME TypeAttempts, NEW S, AbortPending(S)
  PROVE  EngineAlike
<1>1. ASSUME NEW r \in Runs, NEW g \in Gens
      PROVE  Alike(engine[r][g], engine'[r][g])
  <2>1. engine[r][g] \in AttemptRecord
    BY DEF TypeAttempts
  <2>2. engine'[r][g] = engine[r][g] \/ engine'[r][g] = Cancelled(engine[r][g])
    BY DEF AbortPending
  <2> QED
    BY <2>1, <2>2, AlikeCancelled
<1> QED
  BY <1>1 DEF EngineAlike

-----------------------------------------------------------------------------
(* Frames. *)

LEMMA LaunchFrame ==
  ASSUME LaunchInv, UNCHANGED <<row, head, delivery, gen, job, queue>>,
         \A r \in Runs : start'[r] = start[r] \/ start'[r] \notin Early,
         \A a \in Agents : drain'[a].todo \subseteq drain[a].todo, TypeDrain
  PROVE  LaunchInv'
BY DEF LaunchInv, Early, TypeDrain

(* A step of one run whose launch is past its early stretch. *)
LEMMA LaunchLate ==
  ASSUME TypeOK, LaunchInv, NEW r \in Runs, start[r] \notin Early,
         UNCHANGED start, UNCHANGED drain,
         \A q \in Runs \ {r} : /\ row'[q] = row[q] /\ head'[q] = head[q]
                               /\ delivery'[q] = delivery[q] /\ gen'[q] = gen[q]
                               /\ job'[q] = job[q] /\ queue'[q] = queue[q]
  PROVE  LaunchInv'
BY DEF LaunchInv, Early, TypeOK, TypeDrain

LEMMA AttemptFrame ==
  ASSUME TypeAttempts, EngineAlike, UNCHANGED <<gen, cur>>
  PROVE  GenerationInv => GenerationInv'
BY DEF GenerationInv, EngineAlike, Alike, Live

LEMMA DroppedFrame ==
  ASSUME TypeAttempts, EngineAlike, UNCHANGED <<gen, cur, job>>
  PROVE  DroppedInv => DroppedInv'
BY DEF DroppedInv, EngineAlike, Alike, Live

LEMMA ParkedFrame ==
  ASSUME UNCHANGED <<head, row, delivery, cur, job>>
  PROVE  ParkedInv => ParkedInv'
BY DEF ParkedInv, Terminal

LEMMA QueueKept ==
  ASSUME TypeOK, QueueInv, QuietStays,
         UNCHANGED queue \/ \E r \in Runs : queue[r] # <<>> /\ Dequeue(r)
  PROVE  QueueInv'
<1> SUFFICES ASSUME NEW q \in Runs, NEW i \in 1 .. Len(queue'[q])
             PROVE  /\ queue'[q][i].op \in {"settle", "gate", "event"} => queue'[q][i].g # 0
                    /\ queue'[q][i].op = "settle" => engine'[q][queue'[q][i].g].st = "quiescent"
  BY DEF QueueInv
<1>1. queue[q] \in Seq(OpRecord)
  BY DEF TypeOK, TypeQueue
<1>2. PICK k \in 1 .. Len(queue[q]) : queue'[q][i] = queue[q][k]
  <2>1. CASE queue'[q] = queue[q]
    BY <2>1
  <2>2. CASE queue[q] # <<>> /\ queue'[q] = Tail(queue[q])
    <3>1. Len(Tail(queue[q])) = Len(queue[q]) - 1 /\ Tail(queue[q])[i] = queue[q][i + 1]
      BY <1>1, <2>2, HeadTailProperties
    <3>2. i + 1 \in 1 .. Len(queue[q])
      BY <1>1, <2>2, <3>1, LenProperties
    <3> QED
      BY <2>2, <3>1, <3>2
  <2>3. queue'[q] = queue[q] \/ (queue[q] # <<>> /\ queue'[q] = Tail(queue[q]))
    BY DEF Dequeue, TypeOK, TypeQueue
  <2> QED
    BY <2>1, <2>2, <2>3
<1>3. queue[q][k] \in OpRecord
  BY <1>1, ElementOfSeq
<1>4. queue[q][k].g # 0 => queue[q][k].g \in Gens
  BY <1>3, Bounds DEF OpRecord, Gens
<1> QED
  BY <1>2, <1>4 DEF QueueInv, QuietStays

LEMMA QueueAppend ==
  ASSUME TypeOK, QueueInv, QuietStays, NEW r \in Runs, NEW op \in OpRecord, Enqueue(r, op),
         op.op \in {"settle", "gate", "event"} => op.g # 0,
         op.op = "settle" => engine'[r][op.g].st = "quiescent"
  PROVE  QueueInv'
<1> SUFFICES ASSUME NEW q \in Runs, NEW i \in 1 .. Len(queue'[q])
             PROVE  /\ queue'[q][i].op \in {"settle", "gate", "event"} => queue'[q][i].g # 0
                    /\ queue'[q][i].op = "settle" => engine'[q][queue'[q][i].g].st = "quiescent"
  BY DEF QueueInv
<1>1. queue[q] \in Seq(OpRecord)
  BY DEF TypeOK, TypeQueue
<1>2. CASE i \in 1 .. Len(queue[q]) /\ queue'[q][i] = queue[q][i]
  <2>1. queue[q][i] \in OpRecord
    BY <1>1, <1>2, ElementOfSeq
  <2>2. queue[q][i].g # 0 => queue[q][i].g \in Gens
    BY <2>1, Bounds DEF OpRecord, Gens
  <2> QED
    BY <1>2, <2>2 DEF QueueInv, QuietStays
<1>3. CASE q = r /\ queue'[q][i] = op
  BY <1>3
<1>4. \/ i \in 1 .. Len(queue[q]) /\ queue'[q][i] = queue[q][i]
      \/ q = r /\ queue'[q][i] = op
  <2>1. CASE q # r
    BY <2>1 DEF Enqueue, TypeOK, TypeQueue
  <2>2. CASE q = r
    BY <1>1, <2>2, AppendProperties DEF Enqueue, TypeOK, TypeQueue
  <2> QED
    BY <2>1, <2>2
<1> QED
  BY <1>2, <1>3, <1>4

(* createAttempt, called when the run has no live attempt. *)
LEMMA NewAttemptKeeps ==
  ASSUME TypeOK, GenerationInv, NEW r \in Runs, NewAttempt(r),
         \A g \in Gens : ~Live(r, g)
  PROVE  /\ GenerationInv'
         /\ gen'[r] = gen[r] + 1 /\ cur'[r] = gen[r] + 1 /\ gen[r] + 1 # 0
         /\ \A q \in Runs \ {r} : gen'[q] = gen[q] /\ cur'[q] = cur[q] /\ engine'[q] = engine[q]
         /\ \A q \in Runs : \A g \in Gens :
              engine[q][g].st # "unborn" /\ ~Live(q, g) => engine'[q][g] = engine[q][g]
<1> USE DEF TypeOK
<1> DEFINE n == gen[r] + 1
<1>1. n \in Gens /\ gen[r] \in Nat /\ n # 0
  BY Bounds DEF NewAttempt, TypeAttempts, Gens
<1>2. gen' = [gen EXCEPT ![r] = n] /\ cur' = [cur EXCEPT ![r] = n]
  BY DEF NewAttempt
<1>3. \A g \in Gens : g # n => engine'[r][g] = engine[r][g]
  BY DEF NewAttempt, TypeAttempts
<1>4. \A q \in Runs \ {r} : engine'[q] = engine[q]
  BY DEF NewAttempt, TypeAttempts
<1>5. engine[r][n].st = "unborn"
  BY <1>1 DEF GenerationInv
<1> HIDE DEF n
<1>6. gen'[r] = n /\ cur'[r] = n /\ \A q \in Runs \ {r} : gen'[q] = gen[q] /\ cur'[q] = cur[q]
  BY <1>2 DEF TypeAttempts
<1>7. ASSUME NEW q \in Runs
      PROVE  /\ cur'[q] = 0 \/ cur'[q] = gen'[q]
             /\ \A g \in Gens : g > gen'[q] => engine'[q][g].st = "unborn"
             /\ \A g \in Gens : g < gen'[q] => ~Live(q, g)'
  <2>1. CASE q # r
    BY <1>4, <1>6, <2>1 DEF GenerationInv, Live
  <2>2. CASE q = r
    <3>1. \A g \in Gens : g > n => g > gen[r] /\ g # n
      BY <1>1 DEF n, Gens
    <3>2. \A g \in Gens : g < n => g # n
      BY <1>1 DEF Gens
    <3> QED
      BY <1>3, <1>6, <2>2, <3>1, <3>2 DEF GenerationInv, Live
  <2> QED
    BY <2>1, <2>2
<1>8. GenerationInv'
  BY <1>7 DEF GenerationInv
<1> QED
  BY <1>1, <1>3, <1>4, <1>5, <1>6, <1>8 DEF n


-----------------------------------------------------------------------------
(* The terminal transaction touches one run, and leaves it terminal or as it was. *)
LEMMA SettledElsewhere ==
  ASSUME TypeOK, NEW r \in Runs, NEW rev, NEW to, TerminalSettles(r, rev, to)
  PROVE  \A q \in Runs \ {r} : row'[q] = row[q] /\ head'[q] = head[q] /\ delivery'[q] = delivery[q]
BY DEF TerminalSettles, Write, TypeOK, TypeDurable

LEMMA SettledHere ==
  ASSUME TypeOK, NEW r \in Runs, NEW rev, NEW to, TerminalSettles(r, rev, to)
  PROVE  /\ row'[r].status = to \/ row'[r] = row[r]
         /\ \/ head'[r].status = to /\ row'[r].status = to
            \/ head'[r] = head[r] /\ delivery'[r] = delivery[r]
<1>1. PICK res \in Results(r, rev) :
        /\ Write(r, res, to, "claimed")
        /\ \/ /\ res = "ok"
              /\ head' = [head EXCEPT ![r] = [status |-> to, rev |-> rev + 1]]
              /\ delivery' = [delivery EXCEPT ![r] = TRUE]
           \/ UNCHANGED <<head, delivery>>
  BY DEF TerminalSettles
<1>2. row'[r].status = to \/ row'[r] = row[r]
  BY <1>1 DEF Write, TypeOK, TypeDurable
<1>3. res = "ok" => row'[r].status = to
  BY <1>1 DEF Write, TypeOK, TypeDurable
<1> QED
  BY <1>1, <1>2, <1>3 DEF TypeOK, TypeDurable

LEMMA SettledParked ==
  ASSUME TypeOK, ParkedInv, NEW r \in Runs, NEW rev, NEW to \in TERMINAL, TerminalSettles(r, rev, to),
         UNCHANGED cur, \A q \in Runs \ {r} : job'[q] = job[q],
         job'[r] = job[r] \/ (job'[r] = Idle /\ job[r].pc = "claim")
  PROVE  ParkedInv'
<1>1. to \notin Parked
  BY DEF TERMINAL, Parked
<1>2. /\ \/ head'[r].status = to /\ row'[r].status = to
         \/ head'[r] = head[r] /\ delivery'[r] = delivery[r]
      /\ row'[r].status = to \/ row'[r] = row[r]
  BY SettledHere
<1>3. \A q \in Runs \ {r} : row'[q] = row[q] /\ head'[q] = head[q] /\ delivery'[q] = delivery[q]
  BY SettledElsewhere
<1> QED
  BY <1>1, <1>2, <1>3 DEF ParkedInv, Terminal, Idle

-----------------------------------------------------------------------------
(* The launching call. *)

(* A step of the launching call that touches nothing else of the invariant. *)
LEMMA QuietLaunch ==
  ASSUME TypeOK, AttemptInv, EngineAlike,
         UNCHANGED <<row, head, delivery, gen, cur, job, queue, drain>>,
         \A r \in Runs : start'[r] = start[r] \/ start'[r] \notin Early
  PROVE  AttemptInv'
<1>1. LaunchInv'
  BY LaunchFrame DEF AttemptInv, TypeOK
<1>2. GenerationInv' /\ DroppedInv' /\ ParkedInv'
  BY AttemptFrame, DroppedFrame, ParkedFrame DEF AttemptInv, TypeOK
<1>3. QueueInv'
  BY AlikeQuiet, QueueKept DEF AttemptInv
<1> QED
  BY <1>1, <1>2, <1>3 DEF AttemptInv

LEMMA LaunchKeeps ==
  ASSUME TypeOK, AttemptInv, NEW r \in Runs, Reserve(r) \/ LaunchStep(r)
  PROVE  AttemptInv'
<1> USE DEF TypeOK
<1>1. CASE Reserve(r) \/ InsertRejected(r)
  <2>1. \A q \in Runs : \/ start'[q] = start[q] \/ start'[q] \notin Early
                        \/ start[q] = "idle" /\ start'[q] = "insert"
    BY <1>1 DEF Reserve, InsertRejected, TypeLaunch, Early
  <2>2. EngineAlike /\ UNCHANGED <<gen, cur, job, queue, head, row, delivery, drain>>
    BY <1>1, AlikeUnchanged DEF Reserve, InsertRejected, durableVars, attemptVars, queueVars, drainVars
  <2>3. LaunchInv'
    BY <2>1, <2>2 DEF LaunchInv, AttemptInv, Early, TypeDrain
  <2>4. GenerationInv' /\ DroppedInv' /\ ParkedInv'
    BY <2>2, AttemptFrame, DroppedFrame, ParkedFrame DEF AttemptInv
  <2>5. QueueInv'
    BY <2>2, AlikeQuiet, QueueKept DEF AttemptInv
  <2> QED
    BY <2>3, <2>4, <2>5 DEF AttemptInv
<1>2. CASE InsertDurable(r)
  <2>1. LaunchInv'
    BY <1>2 DEF InsertDurable, LaunchInv, AttemptInv, Early, TypeLaunch, TypeDurable,
                attemptVars, queueVars, drainVars
  <2>2. EngineAlike /\ UNCHANGED <<gen, cur, job, queue>>
    BY <1>2, AlikeUnchanged DEF InsertDurable, attemptVars, queueVars
  <2>3. GenerationInv' /\ DroppedInv'
    BY <2>2, AttemptFrame, DroppedFrame DEF AttemptInv
  <2>4. ParkedInv'
    BY <1>2, <2>2 DEF InsertDurable, ParkedInv, LaunchInv, AttemptInv, Early, Parked, Terminal,
                TypeDurable
  <2>5. QueueInv'
    BY <2>2, AlikeQuiet, QueueKept DEF AttemptInv
  <2> QED
    BY <2>1, <2>3, <2>4, <2>5 DEF AttemptInv
<1>3. CASE Inserted(r)
  <2>1. \A q \in Runs : start'[q] = start[q] \/ start'[q] \notin Early \/ (q = r /\ start'[q] = "scratch")
    BY <1>3 DEF Inserted, LaunchFails, TypeLaunch, Early
  <2>2. EngineAlike /\ UNCHANGED <<gen, cur, job, queue, head, row, delivery, drain>>
    BY <1>3, AlikeUnchanged DEF Inserted, LaunchFails, durableVars, attemptVars, queueVars, drainVars
  <2>3. LaunchInv'
    BY <1>3, <2>1, <2>2 DEF Inserted, LaunchInv, AttemptInv, Early, TypeDrain
  <2>4. GenerationInv' /\ DroppedInv' /\ ParkedInv'
    BY <2>2, AttemptFrame, DroppedFrame, ParkedFrame DEF AttemptInv
  <2>5. QueueInv'
    BY <2>2, AlikeQuiet, QueueKept DEF AttemptInv
  <2> QED
    BY <2>3, <2>4, <2>5 DEF AttemptInv
<1>4. CASE ScratchOpened(r)
  <2>1. \A q \in Runs : start'[q] = start[q] \/ start'[q] \notin Early
    BY <1>4 DEF ScratchOpened, LaunchFails, TypeLaunch, Early
  <2>2. UNCHANGED <<job, queue, head, row, delivery, drain>>
    BY <1>4 DEF ScratchOpened, durableVars, queueVars, drainVars
  <2>3. CASE LaunchFails(r)
    <3>1. EngineAlike /\ UNCHANGED <<gen, cur>>
      BY <2>3, AlikeUnchanged DEF LaunchFails, attemptVars
    <3> QED
      BY <2>1, <2>2, <3>1, QuietLaunch
  <2>4. CASE NewAttempt(r) /\ start' = [start EXCEPT ![r] = "publish"]
    <3>1. start[r] = "scratch" /\ start[r] \in Early
      BY <1>4 DEF ScratchOpened, Early
    <3>2. gen[r] = 0 /\ job[r].pc = "idle" /\ head[r].status \in {"absent", "running"}
      BY <3>1 DEF LaunchInv, AttemptInv
    <3>3. \A g \in Gens : engine[r][g].st = "unborn" /\ ~Live(r, g)
      BY <3>2 DEF GenerationInv, AttemptInv, Gens, Live
    <3>4. /\ GenerationInv' /\ gen'[r] # 0 /\ cur'[r] # 0
          /\ \A q \in Runs \ {r} : gen'[q] = gen[q] /\ cur'[q] = cur[q] /\ engine'[q] = engine[q]
          /\ QuietStays
      BY <2>4, <3>2, <3>3, NewAttemptKeeps DEF AttemptInv, Live, QuietStays
    <3>5. LaunchInv'
      <4>1. start'[r] \notin Early
        BY <2>4 DEF TypeLaunch, Early
      <4> QED
        BY <2>1, <2>2, <3>4, <4>1 DEF LaunchInv, AttemptInv, Early, TypeDrain
    <3>6. job[r].op # "resume"
      BY <3>2 DEF DroppedInv, AttemptInv
    <3>7. DroppedInv'
      BY <2>2, <3>2, <3>4, <3>6 DEF DroppedInv, AttemptInv, Live
    <3>8. ParkedInv'
      BY <2>2, <3>2, <3>4 DEF ParkedInv, AttemptInv, Parked, Terminal
    <3>9. QueueInv'
      BY <2>2, <3>4, QueueKept DEF AttemptInv
    <3> QED
      BY <3>4, <3>5, <3>7, <3>8, <3>9 DEF AttemptInv
  <2> QED
    BY <1>4, <2>3, <2>4 DEF ScratchOpened
<1>5. CASE ReleaseStart(r)
  <2>1. /\ \A q \in Runs : start'[q] = start[q] \/ start'[q] \notin Early
        /\ UNCHANGED <<job, queue, head, row, delivery, drain, gen, cur>>
    BY <1>5 DEF ReleaseStart, TypeLaunch, Early, durableVars, queueVars, drainVars
  <2>2. EngineAlike
    BY <1>5, AlikeStep, AlikeUnchanged DEF ReleaseStart
  <2> QED
    BY <2>1, <2>2, QuietLaunch
<1>6. CASE UnreleasedQuiesced(r)
  <2>1. Op("failStart", 0, 0, "none") \in OpRecord
    BY Bounds DEF Op, OpRecord, OpNames
  <2>2. /\ UNCHANGED <<job, head, row, delivery, drain, gen, cur, engine>>
        /\ Enqueue(r, Op("failStart", 0, 0, "none"))
        /\ start[r] \notin Early /\ start'[r] \notin Early
        /\ \A q \in Runs \ {r} : start'[q] = start[q]
    BY <1>6 DEF UnreleasedQuiesced, durableVars, attemptVars, drainVars, TypeLaunch, Early
  <2>3. LaunchInv'
    BY <2>2 DEF LaunchInv, AttemptInv, Enqueue, Early, TypeDrain, TypeQueue
  <2>4. GenerationInv' /\ DroppedInv' /\ ParkedInv'
    BY <2>2, AlikeUnchanged, AttemptFrame, DroppedFrame, ParkedFrame DEF AttemptInv
  <2>5. QueueInv'
    BY <2>1, <2>2, AlikeUnchanged, AlikeQuiet, QueueAppend DEF AttemptInv, Op
  <2> QED
    BY <2>3, <2>4, <2>5 DEF AttemptInv
<1>7. CASE LaunchFailureSettled(r) \/ LaunchDrained(r)
  <2>1. /\ \A q \in Runs : start'[q] = start[q] \/ start'[q] \notin Early
        /\ UNCHANGED <<job, queue, head, row, delivery, drain, gen, cur, engine>>
    BY <1>7 DEF LaunchFailureSettled, LaunchDrained, TypeLaunch, Early,
                durableVars, attemptVars, queueVars, drainVars
  <2> QED
    BY <2>1, AlikeUnchanged, QuietLaunch
<1>8. CASE LaunchSettled(r)
  <2>1. /\ \A q \in Runs : start'[q] = start[q] \/ start'[q] \notin Early
        /\ start[r] \notin Early
        /\ UNCHANGED <<job, queue, drain, gen, cur, engine>>
        /\ TerminalSettles(r, startRev[r], "failed")
    BY <1>8 DEF LaunchSettled, TypeLaunch, Early, attemptVars, queueVars, drainVars
  <2>2. LaunchInv'
    BY <2>1, SettledElsewhere DEF LaunchInv, AttemptInv, Early, TypeDrain
  <2>3. "failed" \in TERMINAL
    BY DEF TERMINAL
  <2>4. ParkedInv'
    BY <2>1, <2>3, SettledParked DEF AttemptInv
  <2>5. GenerationInv' /\ DroppedInv'
    BY <2>1, AlikeUnchanged, AttemptFrame, DroppedFrame DEF AttemptInv
  <2>6. QueueInv'
    BY <2>1, AlikeUnchanged, AlikeQuiet, QueueKept DEF AttemptInv
  <2> QED
    BY <2>2, <2>4, <2>5, <2>6 DEF AttemptInv
<1> QED
  BY <1>1, <1>2, <1>3, <1>4, <1>5, <1>6, <1>7, <1>8 DEF LaunchStep

-----------------------------------------------------------------------------
(* The engine, the controls and the notifier. *)

LEMMA KnownIsLate ==
  ASSUME LaunchInv, NEW r \in Runs, Known(r)
  PROVE  start[r] \notin Early
BY DEF LaunchInv, Known, Durable, Early

LEMMA BornIsLate ==
  ASSUME TypeOK, LaunchInv, GenerationInv, NEW r \in Runs,
         cur[r] # 0 \/ \E g \in Gens : engine[r][g].st # "unborn"
  PROVE  start[r] \notin Early
BY DEF LaunchInv, GenerationInv, Gens, TypeOK, TypeAttempts

(* A step that only queues an operation. *)
LEMMA EnqueueKeeps ==
  ASSUME TypeOK, AttemptInv, EngineAlike, NEW r \in Runs, NEW op \in OpRecord, Enqueue(r, op),
         op.op \in {"gate", "event"} => op.g # 0, op.op # "settle", start[r] \notin Early,
         UNCHANGED <<start, row, head, delivery, gen, cur, job>>,
         \A a \in Agents : drain'[a].todo \subseteq drain[a].todo
  PROVE  AttemptInv'
<1>1. LaunchInv'
  BY DEF LaunchInv, AttemptInv, Enqueue, Early, TypeOK, TypeDrain, TypeQueue
<1>2. GenerationInv' /\ DroppedInv' /\ ParkedInv'
  BY AttemptFrame, DroppedFrame, ParkedFrame DEF AttemptInv, TypeOK
<1>3. QueueInv'
  BY AlikeQuiet, QueueAppend DEF AttemptInv
<1> QED
  BY <1>1, <1>2, <1>3 DEF AttemptInv

LEMMA EngineKeeps ==
  ASSUME TypeOK, AttemptInv, NEW r \in Runs,
         \/ EngineEvent(r) \/ EngineGate(r) \/ Ask(r) \/ NoticeSettles(r)
         \/ \E g \in Gens : EngineQuiesces(r, g)
  PROVE  AttemptInv'
<1> USE DEF TypeOK
<1>1. CASE EngineEvent(r)
  <2>1. Op("event", cur[r], 0, "none") \in OpRecord
    BY DEF Op, OpRecord, OpNames, TypeAttempts
  <2>2. start[r] \notin Early
    BY <1>1, BornIsLate DEF EngineEvent, AttemptInv
  <2>3. /\ UNCHANGED <<start, row, head, delivery, gen, cur, engine, job, drain>>
        /\ Enqueue(r, Op("event", cur[r], 0, "none")) /\ cur[r] # 0
    BY <1>1 DEF EngineEvent, launchVars, durableVars, attemptVars, drainVars
  <2> QED
    BY <2>1, <2>2, <2>3, AlikeUnchanged, EnqueueKeeps DEF Op
<1>2. CASE EngineGate(r)
  <2>1. \A kind \in GateKinds : Op("gate", cur[r], asked[r] + 1, kind) \in OpRecord
    BY DEF Op, OpRecord, OpNames, TypeAttempts, TypeGates
  <2>2. start[r] \notin Early
    BY <1>2, BornIsLate DEF EngineGate, AttemptInv
  <2>3. /\ UNCHANGED <<start, row, head, delivery, gen, cur, engine, job, drain>>
        /\ \E kind \in GateKinds : Enqueue(r, Op("gate", cur[r], asked[r] + 1, kind))
        /\ cur[r] # 0
    BY <1>2 DEF EngineGate, launchVars, durableVars, attemptVars, drainVars
  <2> QED
    BY <2>1, <2>2, <2>3, AlikeUnchanged, EnqueueKeeps DEF Op
<1>3. CASE Ask(r)
  <2>1. \A op \in Controls \ {"answer"} : Op(op, 0, 0, "none") \in OpRecord
    BY ConstantsAssumption, Bounds DEF Op, OpRecord, OpNames
  <2>2. \A id \in shown[r] : Op("answer", 0, id, "none") \in OpRecord
    BY Bounds DEF Op, OpRecord, OpNames, AllControls, TypeGates
  <2>3. start[r] \notin Early
    BY <1>3, KnownIsLate DEF Ask, AttemptInv
  <2>4. PICK op \in OpRecord : Enqueue(r, op) /\ op.op \in AllControls
    BY <1>3, <2>1, <2>2, ConstantsAssumption DEF Ask, Op, AllControls
  <2>5. UNCHANGED <<start, row, head, delivery, gen, cur, engine, job, drain>>
    BY <1>3 DEF Ask, launchVars, durableVars, attemptVars, drainVars
  <2>6. op.op \notin {"gate", "event", "settle"}
    BY <2>4 DEF AllControls
  <2> QED
    BY <2>3, <2>4, <2>5, <2>6, AlikeUnchanged, EnqueueKeeps
<1>4. CASE NoticeSettles(r)
  <2>1. Terminal(r) /\ row[r].status \in TERMINAL /\ start[r] \notin Early
    BY <1>4 DEF NoticeSettles, AttemptInv, ParkedInv, LaunchInv
  <2>2. UNCHANGED <<start, gen, cur, engine, job, queue, drain>>
    BY <1>4 DEF NoticeSettles, launchVars, attemptVars, queueVars, drainVars
  <2>3. \/ row' = row
        \/ row' = [row EXCEPT ![r].rev = @ + 1, ![r].notice = "final"]
    BY <1>4 DEF NoticeSettles
  <2>4. row'[r].status = row[r].status /\ \A q \in Runs \ {r} : row'[q] = row[q]
    BY <2>3 DEF TypeDurable
  <2>5. /\ head'[r].status \in {head[r].status, row[r].status}
        /\ \A q \in Runs \ {r} : head'[q] = head[q] /\ delivery'[q] = delivery[q]
        /\ ~delivery'[r]
    BY <1>4, <2>4 DEF NoticeSettles, TypeDurable
  <2>6. LaunchInv'
    BY <2>1, <2>2, <2>4, <2>5, LaunchLate DEF AttemptInv
  <2>7. GenerationInv' /\ DroppedInv'
    BY <2>2, AlikeUnchanged, AttemptFrame, DroppedFrame DEF AttemptInv
  <2>8. ParkedInv'
    BY <2>1, <2>2, <2>4, <2>5 DEF ParkedInv, AttemptInv, Terminal, TERMINAL, Parked
  <2>9. QueueInv'
    BY <2>2, AlikeUnchanged, AlikeQuiet, QueueKept DEF AttemptInv
  <2> QED
    BY <2>6, <2>7, <2>8, <2>9 DEF AttemptInv
<1>5. CASE \E g \in Gens : EngineQuiesces(r, g)
  <2>1. PICK g \in Gens : EngineQuiesces(r, g)
    BY <1>5
  <2>2. PICK out \in Outcomes :
          /\ engine' = [engine EXCEPT ![r][g].st = "quiescent", ![r][g].out = out]
          /\ Enqueue(r, Op("settle", g, 0, "none"))
          /\ Live(r, g)
          /\ UNCHANGED <<start, row, head, delivery, gen, cur, job, drain>>
    BY <2>1 DEF EngineQuiesces, Live, launchVars, durableVars, drainVars
  <2>3. engine'[r][g].st = "quiescent"
    BY <2>2 DEF TypeAttempts, AttemptRecord
  <2>4. \A q \in Runs : \A h \in Gens : engine'[q][h].st = engine[q][h].st \/ (q = r /\ h = g)
    BY <2>2 DEF TypeAttempts
  <2>5. engine[r][g].st # "unborn"
    BY <2>2 DEF Live
  <2>6. start[r] \notin Early
    BY <2>5, BornIsLate DEF AttemptInv
  <2>7. LaunchInv'
    BY <2>2, <2>6, LaunchLate DEF AttemptInv, Enqueue, TypeQueue
  <2>8. GenerationInv'
    <3>1. ~(g > gen[r])
      BY <2>5 DEF GenerationInv, AttemptInv
    <3>2. UNCHANGED <<gen, cur>>
      BY <2>2
    <3>3. ASSUME NEW q \in Runs, NEW h \in Gens
          PROVE  /\ h > gen[q] => engine'[q][h].st = "unborn"
                 /\ h < gen[q] => ~Live(q, h)'
      BY <2>3, <2>4, <3>1 DEF GenerationInv, AttemptInv, Live
    <3> QED
      BY <3>2, <3>3 DEF GenerationInv, AttemptInv
  <2>9. DroppedInv'
    BY <2>2, <2>3, <2>4 DEF DroppedInv, AttemptInv, Live
  <2>10. ParkedInv'
    BY <2>2, ParkedFrame DEF AttemptInv
  <2>11. Op("settle", g, 0, "none") \in OpRecord /\ g # 0
    BY Bounds DEF Op, OpRecord, OpNames, Gens
  <2>12. QuietStays
    BY <2>3, <2>4 DEF QuietStays
  <2>13. QueueInv'
    BY <2>2, <2>3, <2>11, <2>12, QueueAppend DEF AttemptInv, Op
  <2> QED
    BY <2>7, <2>8, <2>9, <2>10, <2>13 DEF AttemptInv
<1> QED
  BY <1>1, <1>2, <1>3, <1>4, <1>5

-----------------------------------------------------------------------------
(* Operations of a run's queue. *)

LEMMA NoneLive ==
  ASSUME TypeOK, GenerationInv, DroppedInv, NEW r \in Runs,
         \/ cur[r] = 0 /\ job[r].pc # "rollback"
         \/ cur[r] # 0 /\ engine[r][cur[r]].st = "quiescent"
         \/ job[r].pc = "rollback" /\ Quiesced(r, job[r].g)
  PROVE  \A g \in Gens : ~Live(r, g)
<1> SUFFICES ASSUME NEW g \in Gens PROVE ~Live(r, g)
  OBVIOUS
<1>1. gen[r] \in Nat /\ g \in Nat
  BY Bounds DEF TypeOK, TypeAttempts, Gens
<1>2. CASE g = gen[r]
  BY <1>2 DEF GenerationInv, DroppedInv, Live, Quiesced
<1>3. CASE g < gen[r]
  BY <1>3 DEF GenerationInv
<1>4. CASE g > gen[r]
  BY <1>4 DEF GenerationInv, Live
<1> QED
  BY <1>1, <1>2, <1>3, <1>4

(* What the invariant asks of a step that is neither a resume nor its rollback. *)
Ordinary(j, current) ==
  /\ j.pc # "rollback" /\ j.op # "resume"
  /\ \/ j.pc = "quiesce"
     \/ j.pc = "commit" /\ j.op \in {"pause", "stop", "replace"} /\ j.to # "paused"
     => j.g # 0
  /\ j.pc = "commit" /\ j.to \in Parked => current = 0
  /\ j.pc \in {"drain", "claim"} => j.to \in TERMINAL

LEMMA DoneJob ==
  ASSUME TypeOK, NEW r \in Runs, Done(r)
  PROVE  /\ \A q \in Runs \ {r} : job'[q] = job[q]
         /\ job'[r] = Idle /\ \A c : Ordinary(job'[r], c)
BY DEF TypeOK, TypeJob, Done, Idle, Ordinary

LEMMA SuspendJob ==
  ASSUME TypeOK, NEW r \in Runs, NEW step, Suspend(r, step)
  PROVE  job'[r] = step /\ \A q \in Runs \ {r} : job'[q] = job[q]
BY DEF TypeOK, TypeJob, Suspend

LEMMA CommitJob ==
  ASSUME TypeOK, NEW r \in Runs, NEW op, NEW to, NEW g, NEW id, Commit(r, op, to, g, id), NEW c,
         op # "resume", op \in {"pause", "stop", "replace"} /\ to # "paused" => g # 0,
         to \in Parked => c = 0
  PROVE  Ordinary(job'[r], c) /\ \A q \in Runs \ {r} : job'[q] = job[q]
BY SuspendJob DEF Commit, Ordinary

LEMMA TerminalizeJob ==
  ASSUME TypeOK, NEW r \in Runs, NEW op, NEW to \in TERMINAL, NEW g, Terminalize(r, op, to, g),
         op # "resume"
  PROVE  (\A c : Ordinary(job'[r], c)) /\ \A q \in Runs \ {r} : job'[q] = job[q]
<1>1. CASE Done(r)
  BY <1>1, DoneJob
<1>2. CASE Suspend(r, [Idle EXCEPT !.op = op, !.pc = "drain", !.to = to, !.g = g])
  <2>1. job'[r] = [Idle EXCEPT !.op = op, !.pc = "drain", !.to = to, !.g = g]
        /\ \A q \in Runs \ {r} : job'[q] = job[q]
    BY <1>2, SuspendJob
  <2> QED
    BY <2>1 DEF Idle, Ordinary
<1> QED
  BY <1>1, <1>2 DEF Terminalize

(* A step of one run's queue that attaches no attempt: it may drop the current *)
(* attempt only if none is live, and parks the run only when none is current.  *)
LEMMA OperationKeeps ==
  ASSUME TypeOK, AttemptInv, EngineAlike, NEW r \in Runs,
         UNCHANGED <<start, delivery, gen, drain>>,
         start[r] \notin Early,
         \A q \in Runs \ {r} : /\ job'[q] = job[q] /\ cur'[q] = cur[q] /\ queue'[q] = queue[q]
                               /\ head'[q] = head[q] /\ row'[q] = row[q],
         UNCHANGED queue \/ (queue[r] # <<>> /\ Dequeue(r)),
         cur'[r] \in {0, cur[r]},
         cur'[r] = 0 => \A g \in Gens : ~Live(r, g),
         head'[r].status \in Parked => cur'[r] = 0,
         delivery[r] => head'[r] = head[r] /\ row'[r] = row[r],
         Ordinary(job'[r], cur'[r])
  PROVE  AttemptInv'
<1>1. LaunchInv'
  BY LaunchLate DEF AttemptInv
<1>2. GenerationInv'
  BY DEF AttemptInv, GenerationInv, EngineAlike, Alike, Live
<1>3. DroppedInv'
  <2>1. ASSUME NEW q \in Runs \ {r}
        PROVE  /\ \A g \in Gens : cur'[q] = 0 /\ g = gen'[q] /\ Live(q, g)' => job'[q].pc = "rollback"
               /\ job'[q].pc = "rollback" => cur'[q] = 0
    BY DEF AttemptInv, DroppedInv, EngineAlike, Alike, Live
  <2>2. \A g \in Gens : ~(cur'[r] = 0 /\ Live(r, g)')
    BY DEF EngineAlike, Alike, Live
  <2> QED
    BY <2>1, <2>2 DEF AttemptInv, DroppedInv, Ordinary
<1>4. ParkedInv'
  BY DEF AttemptInv, ParkedInv, Ordinary, Terminal
<1>5. QueueInv'
  BY AlikeQuiet, QueueKept DEF AttemptInv
<1> QED
  BY <1>1, <1>2, <1>3, <1>4, <1>5 DEF AttemptInv

(* A step that attaches an attempt to a run that has none live. *)
LEMMA AttachKeeps ==
  ASSUME TypeOK, AttemptInv, NEW r \in Runs, NewAttempt(r), NEW rev, NEW old,
         Suspend(r, [op |-> "resume", pc |-> "commit", to |-> "running", rev |-> rev,
                     g |-> gen[r] + 1, id |-> 0, old |-> old]),
         UNCHANGED <<start, delivery, drain>>,
         start[r] \notin Early,
         \A q \in Runs \ {r} : queue'[q] = queue[q] /\ head'[q] = head[q] /\ row'[q] = row[q],
         UNCHANGED queue \/ (queue[r] # <<>> /\ Dequeue(r)),
         \A g \in Gens : ~Live(r, g),
         delivery[r] => head'[r] = head[r] /\ row'[r] = row[r]
  PROVE  AttemptInv'
<1>1. /\ \A q \in Runs \ {r} : job'[q] = job[q]
      /\ job'[r] = [op |-> "resume", pc |-> "commit", to |-> "running", rev |-> rev,
                    g |-> gen[r] + 1, id |-> 0, old |-> old]
  BY SuspendJob
<1>2. /\ GenerationInv'
      /\ gen'[r] = gen[r] + 1 /\ cur'[r] = gen[r] + 1 /\ gen[r] + 1 # 0
      /\ \A q \in Runs \ {r} : gen'[q] = gen[q] /\ cur'[q] = cur[q] /\ engine'[q] = engine[q]
      /\ QuietStays
  BY NewAttemptKeeps DEF AttemptInv, QuietStays, Live
<1>3. LaunchInv'
  BY <1>1, <1>2, LaunchLate DEF AttemptInv
<1>4. DroppedInv'
  BY <1>1, <1>2 DEF AttemptInv, DroppedInv, Live
<1>5. ParkedInv'
  BY <1>1, <1>2 DEF AttemptInv, ParkedInv, Parked, Terminal
<1>6. QueueInv'
  BY <1>2, QueueKept DEF AttemptInv
<1> QED
  BY <1>2, <1>3, <1>4, <1>5, <1>6 DEF AttemptInv

(* A resume that rolls back drops its attempt, and remembers which. *)
LEMMA RollbackKeeps ==
  ASSUME TypeOK, AttemptInv, EngineAlike, NEW r \in Runs, job[r].op = "resume",
         NEW step, Suspend(r, step), step.pc = "rollback", step.g = job[r].g,
         cur' = [cur EXCEPT ![r] = 0],
         UNCHANGED <<start, delivery, gen, drain, queue>>,
         start[r] \notin Early,
         \A q \in Runs \ {r} : head'[q] = head[q] /\ row'[q] = row[q],
         delivery[r] => head'[r] = head[r] /\ row'[r] = row[r]
  PROVE  AttemptInv'
<1>1. job'[r] = step /\ \A q \in Runs \ {r} : job'[q] = job[q]
  BY SuspendJob
<1>2. cur'[r] = 0 /\ \A q \in Runs \ {r} : cur'[q] = cur[q]
  BY DEF TypeOK, TypeAttempts
<1>3. LaunchInv'
  BY <1>1, LaunchLate DEF AttemptInv
<1>4. GenerationInv'
  BY <1>2 DEF AttemptInv, GenerationInv, EngineAlike, Alike, Live
<1>5. DroppedInv'
  BY <1>1, <1>2 DEF AttemptInv, DroppedInv, EngineAlike, Alike, Live
<1>6. ParkedInv'
  BY <1>1, <1>2 DEF AttemptInv, ParkedInv, Terminal
<1>7. QueueInv'
  BY AlikeQuiet, QueueKept DEF AttemptInv
<1> QED
  BY <1>3, <1>4, <1>5, <1>6, <1>7 DEF AttemptInv

(* The gate's answer: an await_user gate keeps the attempt, a pause gate asks it to pause. *)
LEMMA AcknowledgeStep ==
  ASSUME TypeOK, NEW r \in Runs, Acknowledge(r), cur[r] # 0
  PROVE  EngineAlike /\ Ordinary(job'[r], cur[r]) /\ \A q \in Runs \ {r} : job'[q] = job[q]
<1>1. EngineAlike
  BY AlikeUnchanged, AlikeStep DEF Acknowledge, TypeOK
<1>2. "running" \notin Parked /\ "pausing" \notin Parked
  BY DEF Parked
<1>3. CASE Commit(r, "unpark", "running", cur[r], gate[r].id)
  BY <1>1, <1>2, <1>3, CommitJob
<1>4. CASE Commit(r, "replace", "pausing", cur[r], gate[r].id)
  BY <1>1, <1>2, <1>4, CommitJob
<1> QED
  BY <1>3, <1>4 DEF Acknowledge

LEMMA BeginKeeps ==
  ASSUME TypeOK, AttemptInv, NEW r \in Runs,
         \/ BeginPause(r) \/ BeginStop(r) \/ BeginResume(r, "resume") \/ BeginResume(r, "raise")
         \/ BeginAnswer(r) \/ BeginGate(r) \/ BeginEvent(r) \/ BeginSettle(r) \/ BeginTerminal(r)
  PROVE  AttemptInv'
<1> USE DEF TypeOK
<1>a. /\ "cancelled" \in TERMINAL /\ "failed" \in TERMINAL /\ "interrupted" \in TERMINAL
      /\ "pausing" \notin Parked /\ "stopping" \notin Parked
  BY DEF TERMINAL, Parked
<1>b. ASSUME NEW op, Ready(r, op)
      PROVE  /\ job[r].pc = "idle" /\ queue[r] # <<>> /\ start[r] \notin Early
             /\ cur[r] = 0 => \A g \in Gens : ~Live(r, g)
             /\ head[r].status \in Parked => cur[r] = 0
             /\ Head(queue[r]).op = op
  BY <1>b, NoneLive DEF Ready, AttemptInv, LaunchInv, ParkedInv
<1>c. Dequeue(r) => \A q \in Runs \ {r} : queue'[q] = queue[q]
  BY DEF Dequeue, TypeQueue
<1>1. CASE BeginPause(r)
  <2>1. Ready(r, "pause") /\ Dequeue(r) /\ UNCHANGED <<start, head, row, delivery, gen, cur, drain>>
    BY <1>1 DEF BeginPause, launchVars, durableVars, drainVars
  <2>2. EngineAlike
    BY <1>1, AlikeUnchanged, AlikeStep DEF BeginPause
  <2>3. Ordinary(job'[r], cur[r]) /\ \A q \in Runs \ {r} : job'[q] = job[q]
    <3>1. CASE Done(r)
      BY <3>1, DoneJob
    <3>2. CASE cur[r] # 0 /\ Commit(r, "pause", "pausing", cur[r], 0)
      BY <1>a, <3>2, CommitJob
    <3> QED
      BY <1>1, <3>1, <3>2 DEF BeginPause
  <2> QED
    BY <1>b, <1>c, <2>1, <2>2, <2>3, OperationKeeps DEF AttemptInv, ParkedInv, Terminal
<1>2. CASE BeginStop(r)
  <2>1. Ready(r, "stop") /\ Dequeue(r) /\ UNCHANGED <<start, head, row, delivery, gen, cur, drain>>
    BY <1>2 DEF BeginStop, launchVars, durableVars, drainVars
  <2>2. EngineAlike
    BY <1>2, AlikeUnchanged, AlikeStep DEF BeginStop
  <2>3. Ordinary(job'[r], cur[r]) /\ \A q \in Runs \ {r} : job'[q] = job[q]
    <3>1. CASE Done(r)
      BY <3>1, DoneJob
    <3>2. CASE Terminalize(r, "stop", "cancelled", 0)
      BY <1>a, <3>2, TerminalizeJob
    <3>3. CASE cur[r] # 0 /\ Commit(r, "stop", "stopping", cur[r], 0)
      BY <1>a, <3>3, CommitJob
    <3> QED
      BY <1>2, <3>1, <3>2, <3>3 DEF BeginStop
  <2> QED
    BY <1>b, <1>c, <2>1, <2>2, <2>3, OperationKeeps
<1>3. ASSUME NEW op, BeginResume(r, op)
      PROVE  AttemptInv'
  <2>1. Ready(r, op) /\ Dequeue(r) /\ UNCHANGED <<start, head, row, delivery, drain>>
    BY <1>3 DEF BeginResume, launchVars, durableVars, drainVars
  <2>2. CASE Done(r) /\ UNCHANGED attemptVars
    <3>1. EngineAlike /\ UNCHANGED <<gen, cur>>
      BY <2>2, AlikeUnchanged DEF attemptVars
    <3>2. Ordinary(job'[r], cur[r]) /\ \A q \in Runs \ {r} : job'[q] = job[q]
      BY <2>2, DoneJob
    <3> QED
      BY <1>b, <1>c, <2>1, <3>1, <3>2, OperationKeeps
  <2>3. CASE Acknowledge(r) /\ cur[r] # 0 /\ UNCHANGED <<gen, cur, ckpt>>
    <3>1. EngineAlike /\ Ordinary(job'[r], cur[r]) /\ \A q \in Runs \ {r} : job'[q] = job[q]
      BY <2>3, AcknowledgeStep
    <3> QED
      BY <1>b, <1>c, <2>1, <2>3, <3>1, OperationKeeps
  <2>4. CASE /\ head[r].status \in Parked
             /\ NewAttempt(r)
             /\ Suspend(r, [op |-> "resume", pc |-> "commit", to |-> "running", rev |-> head[r].rev,
                            g |-> gen[r] + 1, id |-> 0, old |-> head[r].status])
    <3>1. \A g \in Gens : ~Live(r, g)
      BY <1>b, <2>1, <2>4
    <3> QED
      BY <1>b, <1>c, <2>1, <2>4, <3>1, AttachKeeps
  <2>5. Resumable(r, op) \subseteq Parked
    BY DEF Resumable, Parked
  <2> QED
    BY <1>3, <2>2, <2>3, <2>4, <2>5 DEF BeginResume, Reattach
<1>4. CASE BeginAnswer(r)
  <2>1. Ready(r, "answer") /\ Dequeue(r) /\ UNCHANGED <<start, head, row, delivery, gen, cur, drain>>
    BY <1>4 DEF BeginAnswer, launchVars, durableVars, drainVars
  <2>2. EngineAlike /\ Ordinary(job'[r], cur[r]) /\ \A q \in Runs \ {r} : job'[q] = job[q]
    BY <1>4, AlikeUnchanged, DoneJob, AcknowledgeStep DEF BeginAnswer, Fenced
  <2> QED
    BY <1>b, <1>c, <2>1, <2>2, OperationKeeps
<1>5. CASE BeginGate(r)
  <2>1. /\ Ready(r, "gate") /\ Dequeue(r)
        /\ UNCHANGED <<start, head, row, delivery, gen, cur, engine, drain>>
    BY <1>5 DEF BeginGate, launchVars, durableVars, attemptVars, drainVars
  <2>2. Ordinary(job'[r], cur[r]) /\ \A q \in Runs \ {r} : job'[q] = job[q]
    BY <1>5, DoneJob, CommitJob DEF BeginGate, Parked
  <2> QED
    BY <1>b, <1>c, <2>1, <2>2, AlikeUnchanged, OperationKeeps
<1>6. CASE BeginEvent(r)
  <2>1. Ready(r, "event") /\ Dequeue(r) /\ UNCHANGED <<start, head, row, delivery, gen, cur, drain>>
    BY <1>6 DEF BeginEvent, launchVars, durableVars, drainVars
  <2>2. EngineAlike
    BY <1>6, AlikeUnchanged, AlikeStep DEF BeginEvent
  <2>3. Ordinary(job'[r], cur[r]) /\ \A q \in Runs \ {r} : job'[q] = job[q]
    BY <1>6, <1>b, <2>1, DoneJob, CommitJob DEF BeginEvent
  <2> QED
    BY <1>b, <1>c, <2>1, <2>2, <2>3, OperationKeeps
<1>7. CASE BeginSettle(r)
  <2> DEFINE g == Head(queue[r]).g
             to == SettledAs(engine[r][g].out, engine[r][g].intent)
  <2>1. /\ Ready(r, "settle") /\ Dequeue(r)
        /\ UNCHANGED <<start, head, row, delivery, gen, engine, drain>>
    BY <1>7 DEF BeginSettle, launchVars, durableVars, drainVars
  <2>2. g # 0 /\ engine[r][g].st = "quiescent"
    <3>1. Head(queue[r]) = queue[r][1] /\ 1 \in 1 .. Len(queue[r]) /\ Head(queue[r]).op = "settle"
      BY <1>b, <2>1, HeadTailProperties, LenProperties, EmptySeq DEF TypeQueue
    <3> QED
      BY <3>1 DEF AttemptInv, QueueInv
  <2>3. \/ Done(r) /\ UNCHANGED cur
        \/ /\ Current(r, g) /\ cur' = [cur EXCEPT ![r] = 0]
           /\ IF to \in TERMINAL THEN Terminalize(r, "settle", to, g) ELSE Commit(r, "settle", to, g, 0)
    BY <1>7 DEF BeginSettle
  <2> HIDE DEF g, to
  <2>4. CASE Done(r) /\ UNCHANGED cur
    <3>1. Ordinary(job'[r], cur[r]) /\ \A q \in Runs \ {r} : job'[q] = job[q]
      BY <2>4, DoneJob
    <3> QED
      BY <1>b, <1>c, <2>1, <2>4, <3>1, AlikeUnchanged, OperationKeeps
  <2>5. CASE /\ Current(r, g) /\ cur' = [cur EXCEPT ![r] = 0]
             /\ IF to \in TERMINAL THEN Terminalize(r, "settle", to, g) ELSE Commit(r, "settle", to, g, 0)
    <3>1. Ordinary(job'[r], 0) /\ \A q \in Runs \ {r} : job'[q] = job[q]
      <4>1. CASE to \in TERMINAL /\ Terminalize(r, "settle", to, g)
        BY <4>1, TerminalizeJob
      <4>2. CASE Commit(r, "settle", to, g, 0)
        BY <4>2, CommitJob
      <4> QED
        BY <2>5, <4>1, <4>2
    <3>2. cur'[r] = 0 /\ \A q \in Runs \ {r} : cur'[q] = cur[q]
      BY <2>5 DEF TypeAttempts
    <3>3. \A h \in Gens : ~Live(r, h)
      BY <2>2, <2>5, NoneLive DEF AttemptInv, Current
    <3> QED
      BY <1>b, <1>c, <2>1, <3>1, <3>2, <3>3, AlikeUnchanged, OperationKeeps
  <2> QED
    BY <2>3, <2>4, <2>5
<1>8. CASE BeginTerminal(r)
  <2>1. /\ Ready(r, "teardown") \/ Ready(r, "failStart")
        /\ Dequeue(r) /\ UNCHANGED <<start, head, row, delivery, gen, cur, engine, drain>>
    BY <1>8 DEF BeginTerminal, launchVars, durableVars, attemptVars, drainVars
  <2>2. Ordinary(job'[r], cur[r]) /\ \A q \in Runs \ {r} : job'[q] = job[q]
    <3>1. CASE Terminalize(r, "teardown", "interrupted", 0)
      BY <1>a, <3>1, TerminalizeJob
    <3>2. CASE Terminalize(r, "failStart", "failed", 0)
      BY <1>a, <3>2, TerminalizeJob
    <3> QED
      BY <1>8, <3>1, <3>2 DEF BeginTerminal
  <2> QED
    BY <1>b, <1>c, <2>1, <2>2, AlikeUnchanged, OperationKeeps
<1> QED
  BY <1>1, <1>2, <1>3, <1>4, <1>5, <1>6, <1>7, <1>8

(* The continuation of a commit that succeeded, or that was skipped because the *)
(* run had become terminal.                                                     *)
LEMMA CommittedKeeps ==
  ASSUME TypeOK, AttemptInv, NEW r \in Runs, Committed(r), job[r].pc = "commit",
         UNCHANGED <<start, delivery, drain, queue>>,
         start[r] \notin Early,
         \A q \in Runs \ {r} : head'[q] = head[q] /\ row'[q] = row[q],
         delivery[r] => head'[r] = head[r] /\ row'[r] = row[r],
         head'[r].status \in Parked => cur[r] = 0
  PROVE  AttemptInv'
<1> USE DEF TypeOK
<1> DEFINE j == job[r]
<1>1. CASE /\ j.to \in {"pausing", "stopping"} /\ j.op \in {"pause", "stop", "replace"}
           /\ engine' = [engine EXCEPT ![r][j.g] = Cancelled(@)]
           /\ Suspend(r, [j EXCEPT !.pc = "quiesce"])
           /\ UNCHANGED <<gen, cur>>
  <2>1. EngineAlike
    BY <1>1, AlikeStep
  <2>2. job'[r] = [j EXCEPT !.pc = "quiesce"] /\ \A q \in Runs \ {r} : job'[q] = job[q]
    BY <1>1, SuspendJob
  <2>3. j.g # 0 /\ j \in JobRecord
    BY <1>1 DEF AttemptInv, DroppedInv, TypeJob
  <2>4. Ordinary(job'[r], cur[r])
    BY <1>1, <2>2, <2>3 DEF Ordinary, JobRecord
  <2>5. cur[r] = 0 => \A g \in Gens : ~Live(r, g)
    BY NoneLive DEF AttemptInv
  <2> QED
    BY <1>1, <2>1, <2>2, <2>4, <2>5, OperationKeeps
<1>2. CASE /\ j.op = "replace" /\ j.to = "paused"
           /\ NewAttempt(r)
           /\ Suspend(r, [op |-> "resume", pc |-> "commit", to |-> "running", rev |-> j.rev + 1,
                          g |-> gen[r] + 1, id |-> 0, old |-> "paused"])
  <2>1. cur[r] = 0
    BY <1>2 DEF AttemptInv, ParkedInv, Parked
  <2>2. \A g \in Gens : ~Live(r, g)
    BY <2>1, NoneLive DEF AttemptInv
  <2> QED
    BY <1>2, <2>2, AttachKeeps
<1>3. CASE Done(r) /\ UNCHANGED <<gen, cur>> /\ EngineAlike
  <2>1. Ordinary(job'[r], cur[r]) /\ \A q \in Runs \ {r} : job'[q] = job[q]
    BY <1>3, DoneJob
  <2>2. cur[r] = 0 => \A g \in Gens : ~Live(r, g)
    BY NoneLive DEF AttemptInv
  <2> QED
    BY <1>3, <2>1, <2>2, OperationKeeps
<1>4. CASE /\ j.op = "resume"
           /\ cur' = [cur EXCEPT ![r] = 0]
           /\ engine' = [engine EXCEPT ![r][j.g] = Cancelled(@)]
           /\ Suspend(r, [j EXCEPT !.op = "restore", !.pc = "rollback"])
           /\ UNCHANGED gen
  <2>1. EngineAlike
    BY <1>4, AlikeStep
  <2>2. LET step == [j EXCEPT !.op = "restore", !.pc = "rollback"]
        IN  step.pc = "rollback" /\ step.g = j.g
    BY DEF TypeJob, JobRecord
  <2> QED
    BY <1>4, <2>1, <2>2, RollbackKeeps
<1>5. engine' = [engine EXCEPT ![r][j.g] = Released(@)] => EngineAlike
  BY AlikeStep
<1>6. UNCHANGED attemptVars => EngineAlike /\ UNCHANGED <<gen, cur>>
  BY AlikeUnchanged DEF attemptVars
<1>7. \/ /\ j.to \in {"pausing", "stopping"} /\ j.op \in {"pause", "stop", "replace"}
         /\ engine' = [engine EXCEPT ![r][j.g] = Cancelled(@)]
         /\ Suspend(r, [j EXCEPT !.pc = "quiesce"])
         /\ UNCHANGED <<gen, cur>>
      \/ /\ j.op = "replace" /\ j.to = "paused"
         /\ NewAttempt(r)
         /\ Suspend(r, [op |-> "resume", pc |-> "commit", to |-> "running", rev |-> j.rev + 1,
                        g |-> gen[r] + 1, id |-> 0, old |-> "paused"])
      \/ Done(r) /\ UNCHANGED attemptVars
      \/ /\ Done(r) /\ UNCHANGED <<gen, cur>>
         /\ engine' = [engine EXCEPT ![r][j.g] = Released(@)]
      \/ /\ j.op = "resume"
         /\ cur' = [cur EXCEPT ![r] = 0]
         /\ engine' = [engine EXCEPT ![r][j.g] = Cancelled(@)]
         /\ Suspend(r, [j EXCEPT !.op = "restore", !.pc = "rollback"])
         /\ UNCHANGED gen
  BY DEF Committed, Reattach
<1> HIDE DEF j
<1> QED
  BY <1>1, <1>2, <1>3, <1>4, <1>5, <1>6, <1>7

LEMMA NotCommittedKeeps ==
  ASSUME TypeOK, AttemptInv, NEW r \in Runs, NotCommitted(r), job[r].pc = "commit",
         UNCHANGED <<start, head, delivery, drain, queue>>,
         start[r] \notin Early,
         \A q \in Runs \ {r} : row'[q] = row[q],
         delivery[r] => row'[r] = row[r]
  PROVE  AttemptInv'
<1> USE DEF TypeOK
<1> DEFINE j == job[r]
<1>a. cur[r] = 0 => \A g \in Gens : ~Live(r, g)
  BY NoneLive DEF AttemptInv
<1>1. CASE /\ j.op = "resume"
           /\ cur' = [cur EXCEPT ![r] = 0]
           /\ engine' = [engine EXCEPT ![r][j.g] = Cancelled(@)]
           /\ Suspend(r, [j EXCEPT !.pc = "rollback"])
           /\ UNCHANGED gen
  <2>1. EngineAlike
    BY <1>1, AlikeStep
  <2>2. LET step == [j EXCEPT !.pc = "rollback"] IN step.pc = "rollback" /\ step.g = j.g
    BY DEF TypeJob, JobRecord
  <2> QED
    BY <1>1, <2>1, <2>2, RollbackKeeps
<1>2. CASE /\ j.op # "resume" /\ UNCHANGED attemptVars
           /\ Terminalize(r, "restore", "failed", 0) \/ Done(r)
  <2>1. EngineAlike /\ UNCHANGED <<gen, cur>>
    BY <1>2, AlikeUnchanged DEF attemptVars
  <2>2. head[r].status \in Parked => cur[r] = 0
    BY <1>2 DEF AttemptInv, ParkedInv
  <2>3. "failed" \in TERMINAL
    BY DEF TERMINAL
  <2>4. Ordinary(job'[r], cur[r]) /\ \A q \in Runs \ {r} : job'[q] = job[q]
    <3>1. CASE Done(r)
      BY <3>1, DoneJob
    <3>2. CASE Terminalize(r, "restore", "failed", 0)
      BY <2>3, <3>2, TerminalizeJob
    <3> QED
      BY <1>2, <3>1, <3>2
  <2> QED
    BY <1>a, <2>1, <2>2, <2>4, OperationKeeps
<1>3. \/ /\ j.op = "resume"
         /\ cur' = [cur EXCEPT ![r] = 0]
         /\ engine' = [engine EXCEPT ![r][j.g] = Cancelled(@)]
         /\ Suspend(r, [j EXCEPT !.pc = "rollback"])
         /\ UNCHANGED gen
      \/ /\ j.op # "resume" /\ UNCHANGED attemptVars
         /\ Terminalize(r, "restore", "failed", 0) \/ Done(r)
  BY DEF NotCommitted
<1> QED
  BY <1>1, <1>2, <1>3

LEMMA ContinueKeeps ==
  ASSUME TypeOK, AttemptInv, NEW r \in Runs,
         \/ AttemptQuiesced(r) \/ CommitSettles(r) \/ RollbackQuiesced(r)
         \/ Drained(r) \/ TerminalSettled(r)
  PROVE  AttemptInv'
<1> USE DEF TypeOK
<1> DEFINE j == job[r]
<1>a. job[r].pc # "idle" => start[r] \notin Early
  BY DEF AttemptInv, LaunchInv
<1>b. "failed" \in TERMINAL /\ "cancelled" \in TERMINAL
  BY DEF TERMINAL
<1>c. job[r].pc # "commit" /\ head[r].status \in Parked => cur[r] = 0
  BY DEF AttemptInv, ParkedInv
<1>d. job[r].pc # "rollback" /\ cur[r] = 0 => \A g \in Gens : ~Live(r, g)
  BY NoneLive DEF AttemptInv
<1>1. CASE AttemptQuiesced(r)
  <2>1. /\ j.pc = "quiesce" /\ Quiesced(r, j.g)
        /\ UNCHANGED <<start, head, row, delivery, gen, engine, drain, queue>>
    BY <1>1 DEF AttemptQuiesced, launchVars, durableVars, drainVars
  <2>2. j.g # 0 /\ j.op # "resume"
    BY <2>1 DEF AttemptInv, DroppedInv
  <2>3. \/ Done(r) /\ UNCHANGED cur
        \/ /\ Current(r, j.g) /\ cur' = [cur EXCEPT ![r] = 0]
           /\ \/ Terminalize(r, j.op, "failed", 0) \/ Terminalize(r, "stop", "cancelled", 0)
              \/ Commit(r, j.op, "paused", 0, 0)
    BY <1>1 DEF AttemptQuiesced
  <2>4. CASE Done(r) /\ UNCHANGED cur
    <3>1. Ordinary(job'[r], cur[r]) /\ \A q \in Runs \ {r} : job'[q] = job[q]
      BY <2>4, DoneJob
    <3> QED
      BY <1>a, <1>c, <1>d, <2>1, <2>4, <3>1, AlikeUnchanged, OperationKeeps
  <2>5. CASE /\ Current(r, j.g) /\ cur' = [cur EXCEPT ![r] = 0]
             /\ \/ Terminalize(r, j.op, "failed", 0) \/ Terminalize(r, "stop", "cancelled", 0)
                \/ Commit(r, j.op, "paused", 0, 0)
    <3>1. Ordinary(job'[r], 0) /\ \A q \in Runs \ {r} : job'[q] = job[q]
      <4>1. CASE Terminalize(r, j.op, "failed", 0)
        BY <1>b, <2>2, <4>1, TerminalizeJob
      <4>2. CASE Terminalize(r, "stop", "cancelled", 0)
        BY <1>b, <4>2, TerminalizeJob
      <4>3. CASE Commit(r, j.op, "paused", 0, 0)
        BY <2>2, <4>3, CommitJob
      <4> QED
        BY <2>5, <4>1, <4>2, <4>3
    <3>2. cur'[r] = 0 /\ \A q \in Runs \ {r} : cur'[q] = cur[q]
      BY <2>5 DEF TypeAttempts
    <3>3. \A g \in Gens : ~Live(r, g)
      BY <2>1, <2>2, <2>5, NoneLive DEF AttemptInv, Current, Quiesced
    <3> QED
      BY <1>a, <2>1, <3>1, <3>2, <3>3, AlikeUnchanged, OperationKeeps
  <2> QED
    BY <2>3, <2>4, <2>5
<1>2. CASE CommitSettles(r)
  <2>1. j.pc = "commit" /\ UNCHANGED <<start, delivery, drain, queue>>
    BY <1>2 DEF CommitSettles, launchVars, drainVars
  <2>2. ~Terminal(r) => ~delivery[r]
    BY DEF AttemptInv, ParkedInv
  <2>3. CASE Terminal(r) /\ Committed(r) /\ UNCHANGED <<head, row>>
    <3>1. head[r].status \notin Parked
      BY <2>3 DEF Terminal, TERMINAL, Parked
    <3> QED
      BY <1>a, <2>1, <2>3, <3>1, CommittedKeeps
  <2>4. CASE /\ ~Terminal(r)
             /\ row'  = [row  EXCEPT ![r].status = j.to, ![r].rev = j.rev + 1]
             /\ head' = [head EXCEPT ![r] = [status |-> j.to, rev |-> j.rev + 1]]
             /\ Committed(r)
    <3>1. /\ head'[r].status = j.to
          /\ \A q \in Runs \ {r} : head'[q] = head[q] /\ row'[q] = row[q]
      BY <2>4 DEF TypeDurable
    <3>2. head'[r].status \in Parked => cur[r] = 0
      BY <2>1, <3>1 DEF AttemptInv, ParkedInv
    <3> QED
      BY <1>a, <2>1, <2>2, <2>4, <3>1, <3>2, CommittedKeeps
  <2>5. CASE /\ ~Terminal(r) /\ UNCHANGED head /\ NotCommitted(r)
             /\ \E res \in Results(r, j.rev) \ {"ok"} : Write(r, res, j.to, row[r].notice)
    <3>1. \A q \in Runs \ {r} : row'[q] = row[q]
      BY <2>5 DEF Write, TypeDurable
    <3> QED
      BY <1>a, <2>1, <2>2, <2>5, <3>1, NotCommittedKeeps
  <2> QED
    BY <1>2, <2>3, <2>4, <2>5 DEF CommitSettles
<1>3. CASE RollbackQuiesced(r)
  <2>1. /\ j.pc = "rollback" /\ Quiesced(r, j.g)
        /\ UNCHANGED <<start, head, row, delivery, gen, cur, engine, drain, queue>>
        /\ Done(r) \/ Commit(r, "restore", j.old, 0, 0)
    BY <1>3 DEF RollbackQuiesced, launchVars, durableVars, attemptVars, drainVars
  <2>2. cur[r] = 0 /\ \A g \in Gens : ~Live(r, g)
    BY <2>1, NoneLive DEF AttemptInv, DroppedInv
  <2>3. Ordinary(job'[r], cur[r]) /\ \A q \in Runs \ {r} : job'[q] = job[q]
    <3>1. CASE Done(r)
      BY <3>1, DoneJob
    <3>2. CASE Commit(r, "restore", j.old, 0, 0)
      BY <2>2, <3>2, CommitJob
    <3> QED
      BY <2>1, <3>1, <3>2
  <2> QED
    BY <1>a, <2>1, <2>2, <2>3, AlikeUnchanged, OperationKeeps
<1>4. CASE Drained(r)
  <2>1. /\ j.pc = "drain" /\ Suspend(r, [j EXCEPT !.pc = "claim", !.rev = head[r].rev])
        /\ UNCHANGED <<start, head, row, delivery, gen, cur, engine, drain, queue>>
    BY <1>4 DEF Drained, launchVars, durableVars, attemptVars, drainVars
  <2>2. j \in JobRecord /\ j.to \in TERMINAL /\ j.op # "resume"
    BY <2>1 DEF AttemptInv, ParkedInv, DroppedInv, TypeJob
  <2>3. job'[r] = [j EXCEPT !.pc = "claim", !.rev = head[r].rev]
        /\ \A q \in Runs \ {r} : job'[q] = job[q]
    BY <2>1, SuspendJob
  <2>4. Ordinary(job'[r], cur[r])
    BY <2>2, <2>3 DEF Ordinary, JobRecord
  <2> QED
    BY <1>a, <1>c, <1>d, <2>1, <2>3, <2>4, AlikeUnchanged, OperationKeeps
<1>5. CASE TerminalSettled(r)
  <2>1. /\ j.pc = "claim" /\ Done(r) /\ TerminalSettles(r, j.rev, j.to)
        /\ UNCHANGED <<start, gen, cur, engine, drain, queue>>
    BY <1>5 DEF TerminalSettled, launchVars, attemptVars, drainVars
  <2>2. j.to \in TERMINAL
    BY <2>1 DEF AttemptInv, ParkedInv
  <2>3. job'[r] = Idle /\ \A q \in Runs \ {r} : job'[q] = job[q]
    BY <2>1, DoneJob
  <2>4. LaunchInv'
    BY <1>a, <2>1, <2>3, SettledElsewhere, LaunchLate DEF AttemptInv
  <2>5. GenerationInv'
    BY <2>1, AlikeUnchanged, AttemptFrame DEF AttemptInv
  <2>6. DroppedInv'
    BY <2>1, <2>3 DEF AttemptInv, DroppedInv, Idle, Live
  <2>7. ParkedInv'
    BY <2>1, <2>2, <2>3, SettledParked DEF AttemptInv
  <2>8. QueueInv'
    BY <2>1, AlikeUnchanged, AlikeQuiet, QueueKept DEF AttemptInv
  <2> QED
    BY <2>4, <2>5, <2>6, <2>7, <2>8 DEF AttemptInv
<1> QED
  BY <1>1, <1>2, <1>3, <1>4, <1>5

-----------------------------------------------------------------------------
(* Teardown cancels attempts and queues interruptions, never more. *)

(* A teardown step that queues nothing. *)
LEMMA QuietTeardown ==
  ASSUME TypeOK, AttemptInv, EngineAlike,
         UNCHANGED <<start, row, head, delivery, gen, cur, job, queue>>,
         \A a \in Agents : \A r \in drain'[a].todo : r \in drain[a].todo \/ start[r] \notin Early
  PROVE  AttemptInv'
<1>1. LaunchInv'
  BY DEF LaunchInv, AttemptInv, Early
<1>2. GenerationInv' /\ DroppedInv' /\ ParkedInv'
  BY AttemptFrame, DroppedFrame, ParkedFrame DEF AttemptInv, TypeOK
<1>3. QueueInv'
  BY AlikeQuiet, QueueKept DEF AttemptInv
<1> QED
  BY <1>1, <1>2, <1>3 DEF AttemptInv

LEMMA OwnerKeeps ==
  ASSUME TypeOK, AttemptInv, NEW a \in Agents, OwnerDisposed(a) \/ OwnerStep(a)
  PROVE  AttemptInv'
<1> USE DEF TypeOK
<1>1. CASE OwnerDisposed(a)
  <2>1. /\ UNCHANGED <<start, row, head, delivery, gen, cur, job, queue>>
        /\ AbortPending(Owned(a)) /\ drain' = [drain EXCEPT ![a].pc = "pending"]
    BY <1>1 DEF OwnerDisposed, durableVars, queueVars
  <2>2. \A b \in Agents : drain'[b].todo = drain[b].todo
    BY <2>1 DEF TypeDrain
  <2> QED
    BY <2>1, <2>2, AlikeAbort, QuietTeardown
<1>2. CASE OwnerStartsSettled(a)
  <2>1. /\ UNCHANGED <<start, row, head, delivery, gen, cur, engine, job, queue>>
        /\ drain' = [drain EXCEPT ![a] = [pc |-> "loop", run |-> @.run, todo |-> ToDispose(a)]]
    BY <1>2 DEF OwnerStartsSettled, launchVars, durableVars, attemptVars, queueVars
  <2>2. drain'[a].todo = ToDispose(a) /\ \A b \in Agents \ {a} : drain'[b].todo = drain[b].todo
    BY <2>1 DEF TypeDrain
  <2>3. \A r \in ToDispose(a) : start[r] \notin Early
    BY KnownIsLate DEF ToDispose, Owned, AttemptInv
  <2> QED
    BY <2>1, <2>2, <2>3, AlikeUnchanged, QuietTeardown
<1>3. CASE OwnerNextRun(a)
  <2>1. PICK r \in drain[a].todo :
          /\ drain' = [drain EXCEPT ![a] = [pc |-> "op", run |-> {r}, todo |-> @.todo \ {r}]]
          /\ \/ engine' = [engine EXCEPT ![r][cur[r]] = Torn(@)] /\ UNCHANGED queue
             \/ Enqueue(r, Op("teardown", 0, 0, "none")) /\ UNCHANGED engine
          /\ UNCHANGED <<start, row, head, delivery, gen, cur, job>>
    BY <1>3 DEF OwnerNextRun, launchVars, durableVars
  <2>2. r \in Runs /\ start[r] \notin Early
    BY <2>1 DEF TypeDrain, AttemptInv, LaunchInv
  <2>3. \A b \in Agents : drain'[b].todo \subseteq drain[b].todo
    BY <2>1 DEF TypeDrain
  <2>4. CASE engine' = [engine EXCEPT ![r][cur[r]] = Torn(@)] /\ UNCHANGED queue
    BY <2>1, <2>2, <2>3, <2>4, AlikeStep, QuietTeardown
  <2>5. CASE Enqueue(r, Op("teardown", 0, 0, "none")) /\ UNCHANGED engine
    <3>1. Op("teardown", 0, 0, "none") \in OpRecord
      BY Bounds DEF Op, OpRecord, OpNames
    <3> QED
      BY <2>1, <2>2, <2>3, <2>5, <3>1, AlikeUnchanged, EnqueueKeeps DEF Op
  <2> QED
    BY <2>1, <2>4, <2>5
<1>4. CASE OwnerAwaitsTail(a) \/ OwnerRunDrained(a) \/ OwnerQuiesces(a)
  <2>1. UNCHANGED <<start, row, head, delivery, gen, cur, engine, job, queue>>
    BY <1>4 DEF OwnerAwaitsTail, OwnerRunDrained, OwnerQuiesces, launchVars, durableVars,
                attemptVars, queueVars
  <2>2. \A b \in Agents : drain'[b].todo = drain[b].todo
    BY <1>4 DEF OwnerAwaitsTail, OwnerRunDrained, OwnerQuiesces, TypeDrain
  <2> QED
    BY <2>1, <2>2, AlikeUnchanged, QuietTeardown
<1> QED
  BY <1>1, <1>2, <1>3, <1>4 DEF OwnerStep

(* Interruptions queued on several published runs at once. *)
LEMMA QueueTeardownKeeps ==
  ASSUME TypeOK, AttemptInv, EngineAlike, NEW S \in SUBSET KnownRuns, QueueTeardown(S),
         UNCHANGED <<start, row, head, delivery, gen, cur, job, drain>>
  PROVE  AttemptInv'
<1> DEFINE op == Op("teardown", 0, 0, "none")
<1>1. LaunchInv'
  <2>1. \A r \in Runs : start[r] \in Early => queue'[r] = queue[r]
    BY KnownIsLate DEF QueueTeardown, KnownRuns, AttemptInv
  <2> QED
    BY <2>1 DEF LaunchInv, AttemptInv, Early
<1>2. GenerationInv' /\ DroppedInv' /\ ParkedInv'
  BY AttemptFrame, DroppedFrame, ParkedFrame DEF AttemptInv, TypeOK
<1>3. op \in OpRecord /\ op.op = "teardown"
  BY Bounds DEF Op, OpRecord, OpNames
<1>4. QueueInv'
  <2> SUFFICES ASSUME NEW q \in Runs, NEW i \in 1 .. Len(queue'[q])
               PROVE  /\ queue'[q][i].op \in {"settle", "gate", "event"} => queue'[q][i].g # 0
                      /\ queue'[q][i].op = "settle" => engine'[q][queue'[q][i].g].st = "quiescent"
    BY DEF QueueInv
  <2>1. queue[q] \in Seq(OpRecord)
    BY DEF TypeOK, TypeQueue
  <2>2. queue'[q] = queue[q] \/ queue'[q] = Append(queue[q], op)
    BY DEF QueueTeardown
  <2> HIDE DEF op
  <2>3. \/ i \in 1 .. Len(queue[q]) /\ queue'[q][i] = queue[q][i]
        \/ queue'[q][i] = op
    BY <1>3, <2>1, <2>2, AppendProperties
  <2>4. CASE i \in 1 .. Len(queue[q]) /\ queue'[q][i] = queue[q][i]
    <3>1. queue[q][i] \in OpRecord
      BY <2>1, <2>4, ElementOfSeq
    <3>2. queue[q][i].g # 0 => queue[q][i].g \in Gens
      BY <3>1, Bounds DEF OpRecord, Gens
    <3> QED
      BY <2>4, <3>2, AlikeQuiet DEF AttemptInv, QueueInv, QuietStays
  <2> QED
    BY <1>3, <2>3, <2>4
<1> QED
  BY <1>1, <1>2, <1>4 DEF AttemptInv

LEMMA DisposeKeeps ==
  ASSUME TypeOK, AttemptInv, Dispose \/ DisposeStep
  PROVE  AttemptInv'
<1> USE DEF TypeOK
<1>1. CASE Dispose
  <2>1. /\ UNCHANGED <<start, row, head, delivery, gen, cur, job, queue, drain>>
        /\ AbortPending(Runs) \/ UNCHANGED engine
    BY <1>1 DEF Dispose, CloseAdmission, durableVars, queueVars
  <2> QED
    BY <2>1, AlikeAbort, AlikeUnchanged, QuietTeardown
<1>2. CASE DisposeCancels
  <2> DEFINE open == {r \in KnownRuns : ~Terminal(r)}
             idle == {r \in open : cur[r] = 0}
  <2>1. /\ UNCHANGED <<start, row, head, delivery, gen, cur, job, drain>>
        /\ QueueTeardown(idle)
        /\ engine' = [r \in Runs |-> IF r \in open /\ cur[r] # 0
                                     THEN [engine[r] EXCEPT ![cur[r]] = Torn(@)] ELSE engine[r]]
    BY <1>2 DEF DisposeCancels, launchVars, durableVars
  <2>2. idle \in SUBSET KnownRuns
    OBVIOUS
  <2>3. EngineAlike
    <3>1. ASSUME NEW r \in Runs, NEW g \in Gens
          PROVE  Alike(engine[r][g], engine'[r][g])
      <4>1. engine[r][g] \in AttemptRecord
        BY DEF TypeAttempts
      <4>2. engine'[r][g] = engine[r][g] \/ engine'[r][g] = Torn(engine[r][g])
        BY <2>1 DEF TypeAttempts
      <4> QED
        BY <4>1, <4>2, AlikeCancelled
    <3> QED
      BY <3>1 DEF EngineAlike
  <2> HIDE DEF open, idle
  <2> QED
    BY <2>1, <2>2, <2>3, QueueTeardownKeeps
<1>3. CASE DisposeRetries
  <2>1. /\ UNCHANGED <<start, row, head, delivery, gen, cur, engine, job, drain>>
        /\ QueueTeardown(Unsettled)
    BY <1>3 DEF DisposeRetries, launchVars, durableVars, attemptVars
  <2>2. Unsettled \in SUBSET KnownRuns
    BY DEF Unsettled
  <2> QED
    BY <2>1, <2>2, AlikeUnchanged, QueueTeardownKeeps
<1>4. CASE DisposeDrains \/ DisposeFinalDrain \/ Disposed
  <2>1. UNCHANGED <<start, row, head, delivery, gen, cur, engine, job, queue, drain>>
    BY <1>4 DEF DisposeDrains, DisposeFinalDrain, Disposed, launchVars, durableVars,
                attemptVars, queueVars
  <2> QED
    BY <2>1, AlikeUnchanged, QuietTeardown
<1> QED
  BY <1>1, <1>2, <1>3, <1>4 DEF DisposeStep

-----------------------------------------------------------------------------
LEMMA InitAttempts == Init => AttemptInv
<1> SUFFICES ASSUME Init PROVE AttemptInv
  OBVIOUS
<1>1. LaunchInv
  BY DEF Init, LaunchInv, Early, Idle
<1>2. GenerationInv
  BY DEF Init, GenerationInv, Live, Gens
<1>3. DroppedInv /\ ParkedInv
  BY DEF Init, DroppedInv, ParkedInv, Idle, Live, Parked
<1>4. QueueInv
  BY EmptySeq DEF Init, QueueInv
<1> QED
  BY <1>1, <1>2, <1>3, <1>4 DEF AttemptInv

LEMMA StepAttempts == TypeOK /\ AttemptInv /\ [Next]_vars => AttemptInv'
<1> SUFFICES ASSUME TypeOK, AttemptInv, [Next]_vars PROVE AttemptInv'
  OBVIOUS
<1>1. CASE UNCHANGED vars
  <2>1. UNCHANGED <<start, row, head, delivery, gen, cur, engine, job, queue, drain>>
    BY <1>1 DEF vars, launchVars, durableVars, attemptVars, queueVars, drainVars
  <2> QED
    BY <2>1, AlikeUnchanged, QuietTeardown
<1>2. ASSUME NEW r \in Runs, LaunchStep(r) \/ Reserve(r)
      PROVE  AttemptInv'
  BY <1>2, LaunchKeeps
<1>3. ASSUME NEW r \in Runs, QueueStep(r)
      PROVE  AttemptInv'
  BY <1>3, BeginKeeps, ContinueKeeps DEF QueueStep
<1>4. ASSUME NEW r \in Runs,
             \/ Ask(r) \/ EngineEvent(r) \/ EngineGate(r) \/ NoticeSettles(r)
             \/ \E g \in Gens : EngineQuiesces(r, g)
      PROVE  AttemptInv'
  BY <1>4, EngineKeeps
<1>5. ASSUME NEW a \in Agents, OwnerDisposed(a) \/ OwnerStep(a)
      PROVE  AttemptInv'
  BY <1>5, OwnerKeeps
<1>6. CASE Dispose \/ DisposeStep
  BY <1>6, DisposeKeeps
<1> QED
  BY <1>1, <1>2, <1>3, <1>4, <1>5, <1>6 DEF Next

(* The inductive invariant holds of every reachable state: generations are born *)
(* in order, only the newest may be live, and none is dropped while it lives.   *)
THEOREM AttemptsInOrder == Spec => []AttemptInv
<1>1. Init => TypeOK /\ AttemptInv
  BY InitTypes, InitAttempts
<1>2. TypeOK /\ AttemptInv /\ [Next]_vars => (TypeOK /\ AttemptInv)'
  BY StepTypes, StepAttempts
<1> QED
  BY <1>1, <1>2, PTL DEF Spec

(* Two live attempts would have two generations, and the smaller is not live. *)
LEMMA OrderedIsUnique == TypeOK /\ AttemptInv => AtMostOneLiveAttempt
<1> SUFFICES ASSUME TypeOK, AttemptInv, NEW r \in Runs, NEW g \in Gens, NEW h \in Gens,
                    Live(r, g), Live(r, h)
             PROVE  g = h
  BY DEF AtMostOneLiveAttempt
<1>1. ASSUME NEW k \in Gens, Live(r, k)
      PROVE  k = gen[r]
  <2>1. ~(k > gen[r]) /\ ~(k < gen[r])
    BY <1>1 DEF AttemptInv, GenerationInv, Live
  <2>2. k \in Nat /\ gen[r] \in Nat
    BY Bounds DEF TypeOK, TypeAttempts, Gens
  <2> QED
    BY <2>1, <2>2
<1> QED
  BY <1>1

(* No interleaving of launches, controls, gates, settlements, failures and     *)
(* teardowns gives a run two engine attempts that are not quiescent.           *)
THEOREM OneLiveAttempt == Spec => []AtMostOneLiveAttempt
BY TypeCorrect, AttemptsInOrder, OrderedIsUnique, PTL
-----------------------------------------------------------------------------
(* A parked run can be resumed: ReplayInv. *)
(* A run that is parked, about to be, or leaving that state holds a checkpoint
   and no gate; one that is asked to pause has given up its gate before. *)
Replayable(status, held, g, j) ==
  /\ status \in Parked => held /\ g = NoGate
  /\ j.pc = "commit" /\ j.to \in Parked => held /\ g = NoGate
  /\ j.pc \in {"commit", "rollback"} /\ j.op \in {"resume", "restore"} => held /\ g = NoGate
  /\ j.pc \in {"commit", "quiesce"} /\ j.op \in {"pause", "replace"} => g = NoGate
  /\ j.pc = "quiesce" => j.op \in {"pause", "stop", "replace"}
  /\ j.pc = "rollback" => j.op \in {"resume", "restore"}
ReplayInv == \A r \in Runs : Replayable(head[r].status, ckpt[r], gate[r], job[r])
-----------------------------------------------------------------------------
(* Frames. *)

(* A step outside of the queues parks no run, and gates only go. *)
LEMMA ReplayFrame ==
  ASSUME ReplayInv, UNCHANGED <<ckpt, job>>,
         \A r \in Runs : /\ gate'[r] \in {gate[r], NoGate}
                         /\ head'[r].status = head[r].status \/ head'[r].status \notin Parked
  PROVE  ReplayInv'
BY DEF ReplayInv, Replayable

(* A step of the queue of one run. *)
LEMMA ReplayHere ==
  ASSUME ReplayInv, NEW r \in Runs,
         \A q \in Runs \ {r} : /\ head'[q] = head[q] /\ ckpt'[q] = ckpt[q]
                               /\ gate'[q] = gate[q] /\ job'[q] = job[q],
         Replayable(head'[r].status, ckpt'[r], gate'[r], job'[r])
  PROVE  ReplayInv'
BY DEF ReplayInv

LEMMA ClearedGate ==
  ASSUME TypeGates, NEW r \in Runs, ClearGate(r)
  PROVE  gate'[r] = NoGate /\ \A q \in Runs \ {r} : gate'[q] = gate[q]
BY DEF TypeGates, ClearGate

(* The terminal transaction ends the run or leaves its head. *)
LEMMA SettledGate ==
  ASSUME TypeOK, NEW r \in Runs, NEW rev, NEW to \in TERMINAL, TerminalSettles(r, rev, to)
  PROVE  \A q \in Runs : /\ gate'[q] \in {gate[q], NoGate}
                         /\ head'[q].status = head[q].status \/ head'[q].status \notin Parked
<1>1. head'[r].status = to \/ head'[r] = head[r]
  BY SettledHere
<1>2. to \notin Parked
  BY DEF TERMINAL, Parked
<1>3. \A q \in Runs \ {r} : head'[q] = head[q]
  BY SettledElsewhere
<1>4. UNCHANGED gate \/ ClearGate(r)
  BY DEF TerminalSettles
<1>5. \A q \in Runs : gate'[q] \in {gate[q], NoGate}
  BY <1>4, ClearedGate DEF TypeOK
<1> QED
  BY <1>1, <1>2, <1>3, <1>5

(* What a step of the queue leaves when it ends or when it begins to end the run. *)
LEMMA ReplayDone ==
  ASSUME TypeOK, NEW r \in Runs, NEW to \in TERMINAL, NEW op, NEW g,
         NEW status, NEW held, NEW live, status \in Parked => held /\ live = NoGate,
         Done(r) \/ Terminalize(r, op, to, g)
  PROVE  /\ Replayable(status, held, live, job'[r])
         /\ \A q \in Runs \ {r} : job'[q] = job[q]
<1>1. CASE Done(r)
  BY <1>1, DoneJob DEF Replayable, Idle
<1>2. CASE Suspend(r, [Idle EXCEPT !.op = op, !.pc = "drain", !.to = to, !.g = g])
  <2>1. /\ job'[r] = [Idle EXCEPT !.op = op, !.pc = "drain", !.to = to, !.g = g]
        /\ \A q \in Runs \ {r} : job'[q] = job[q]
    BY <1>2, SuspendJob
  <2>2. job'[r].pc = "drain"
    BY <2>1 DEF Idle
  <2> QED
    BY <2>1, <2>2 DEF Replayable
<1> QED
  BY <1>1, <1>2 DEF Terminalize

(* What it leaves when it begins a commit. *)
LEMMA ReplayCommit ==
  ASSUME TypeOK, NEW r \in Runs, NEW op, NEW to, NEW g, NEW id,
         NEW status, NEW held, NEW live, status \in Parked => held /\ live = NoGate,
         Commit(r, op, to, g, id),
         to \in Parked => held /\ live = NoGate,
         op \in {"resume", "restore"} => held /\ live = NoGate,
         op \in {"pause", "replace"} => live = NoGate
  PROVE  /\ Replayable(status, held, live, job'[r])
         /\ \A q \in Runs \ {r} : job'[q] = job[q]
BY SuspendJob DEF Commit, Replayable

(* A resume attaches an attempt to a run that holds a checkpoint. *)
LEMMA ReplayAttach ==
  ASSUME TypeOK, NEW r \in Runs, NEW rev, NEW old, Reattach(r, rev, old),
         NEW status, NEW live, status \in Parked => ckpt[r] /\ live = NoGate, live = NoGate
  PROVE  /\ Replayable(status, ckpt[r], live, job'[r])
         /\ UNCHANGED ckpt /\ \A q \in Runs \ {r} : job'[q] = job[q]
<1>1. UNCHANGED ckpt
  BY DEF Reattach, NewAttempt, attemptVars
<1>2. CASE Done(r)
  BY <1>1, <1>2, DoneJob DEF Replayable, Idle
<1>3. CASE /\ ckpt[r]
           /\ Suspend(r, [op |-> "resume", pc |-> "commit", to |-> "running", rev |-> rev,
                          g |-> gen[r] + 1, id |-> 0, old |-> old])
  <2>1. "running" \notin Parked
    BY DEF Parked
  <2> QED
    BY <1>1, <1>3, <2>1, SuspendJob DEF Replayable
<1> QED
  BY <1>2, <1>3 DEF Reattach

-----------------------------------------------------------------------------
(* Everything but the queues. *)

LEMMA LaunchReplay ==
  ASSUME TypeOK, ReplayInv, NEW r \in Runs, Reserve(r) \/ LaunchStep(r)
  PROVE  ReplayInv'
<1> USE DEF TypeOK
<1>1. CASE \/ Reserve(r) \/ InsertRejected(r) \/ Inserted(r) \/ ScratchOpened(r) \/ ReleaseStart(r)
           \/ UnreleasedQuiesced(r) \/ LaunchFailureSettled(r) \/ LaunchDrained(r)
  <2>1. UNCHANGED <<ckpt, job, gate, head>>
    BY <1>1 DEF Reserve, InsertRejected, Inserted, ScratchOpened, ReleaseStart, UnreleasedQuiesced,
                LaunchFailureSettled, LaunchDrained, LaunchFails, NewAttempt, durableVars, attemptVars,
                gateVars, queueVars
  <2> QED
    BY <2>1, ReplayFrame
<1>2. CASE InsertDurable(r)
  <2>1. UNCHANGED <<ckpt, job, gate>>
    BY <1>2 DEF InsertDurable, attemptVars, gateVars, queueVars
  <2>2. head'[r].status = "running" /\ \A q \in Runs \ {r} : head'[q] = head[q]
    BY <1>2 DEF InsertDurable, TypeDurable
  <2>3. "running" \notin Parked
    BY DEF Parked
  <2> QED
    BY <2>1, <2>2, <2>3, ReplayFrame
<1>3. CASE LaunchSettled(r)
  <2>1. UNCHANGED <<ckpt, job>> /\ TerminalSettles(r, startRev[r], "failed")
    BY <1>3 DEF LaunchSettled, attemptVars, queueVars
  <2>2. "failed" \in TERMINAL
    BY DEF TERMINAL
  <2> QED
    BY <2>1, <2>2, SettledGate, ReplayFrame
<1> QED
  BY <1>1, <1>2, <1>3 DEF LaunchStep

LEMMA EngineReplay ==
  ASSUME TypeOK, AttemptInv, ReplayInv, NEW r \in Runs,
         \/ EngineEvent(r) \/ EngineGate(r) \/ Ask(r) \/ NoticeSettles(r)
         \/ \E g \in Gens : EngineQuiesces(r, g)
  PROVE  ReplayInv'
<1>1. CASE EngineEvent(r) \/ EngineGate(r) \/ Ask(r) \/ \E g \in Gens : EngineQuiesces(r, g)
  <2>1. UNCHANGED <<ckpt, job, gate, head>>
    BY <1>1 DEF EngineEvent, EngineGate, Ask, EngineQuiesces, durableVars, attemptVars, gateVars
  <2> QED
    BY <2>1, ReplayFrame
<1>2. CASE NoticeSettles(r)
  <2>1. UNCHANGED <<ckpt, job, gate>>
    BY <1>2 DEF NoticeSettles, attemptVars, gateVars, queueVars
  <2>2. Terminal(r) /\ row[r].status \in TERMINAL
    BY <1>2 DEF NoticeSettles, AttemptInv, ParkedInv
  <2>3. \/ row' = row
        \/ row' = [row EXCEPT ![r].rev = @ + 1, ![r].notice = "final"]
    BY <1>2 DEF NoticeSettles
  <2>4. row'[r].status = row[r].status
    BY <2>3 DEF TypeOK, TypeDurable
  <2>5. /\ head'[r].status \in {head[r].status, row[r].status}
        /\ \A q \in Runs \ {r} : head'[q] = head[q]
    BY <1>2, <2>4 DEF NoticeSettles, TypeOK, TypeDurable
  <2>6. row[r].status \notin Parked
    BY <2>2 DEF TERMINAL, Parked
  <2> QED
    BY <2>1, <2>5, <2>6, ReplayFrame
<1> QED
  BY <1>1, <1>2

LEMMA TeardownReplay ==
  ASSUME TypeOK, ReplayInv,
         (\E a \in Agents : OwnerDisposed(a) \/ OwnerStep(a)) \/ Dispose \/ DisposeStep
  PROVE  ReplayInv'
<1>1. UNCHANGED <<ckpt, job, head>>
  <2>1. ASSUME NEW a \in Agents, OwnerDisposed(a) \/ OwnerStep(a)
        PROVE  UNCHANGED <<ckpt, job, head>>
    BY <2>1 DEF OwnerDisposed, OwnerStep, OwnerStartsSettled, OwnerNextRun, OwnerAwaitsTail,
                OwnerRunDrained, OwnerQuiesces, durableVars, attemptVars, queueVars
  <2>2. CASE Dispose \/ DisposeStep
    BY <2>2 DEF Dispose, DisposeStep, DisposeCancels, DisposeDrains, DisposeRetries,
                DisposeFinalDrain, Disposed, durableVars, attemptVars, queueVars
  <2> QED
    BY <2>1, <2>2
<1>2. \A r \in Runs : gate'[r] \in {gate[r], NoGate}
  <2>1. ASSUME NEW a \in Agents, OwnerNextRun(a)
        PROVE  \A r \in Runs : gate'[r] \in {gate[r], NoGate}
    <3>1. PICK q \in drain[a].todo : ClearGate(q)
      BY <2>1 DEF OwnerNextRun
    <3>2. q \in Runs
      BY DEF TypeOK, TypeDrain
    <3> QED
      BY <3>1, <3>2, ClearedGate DEF TypeOK
  <2>2. CASE DisposeCancels
    BY <2>2 DEF DisposeCancels
  <2>3. ASSUME NEW a \in Agents, \/ OwnerDisposed(a) \/ OwnerStartsSettled(a) \/ OwnerAwaitsTail(a)
                                 \/ OwnerRunDrained(a) \/ OwnerQuiesces(a)
        PROVE  UNCHANGED gate
    BY <2>3 DEF OwnerDisposed, OwnerStartsSettled, OwnerAwaitsTail, OwnerRunDrained, OwnerQuiesces,
                gateVars
  <2>4. CASE Dispose \/ DisposeDrains \/ DisposeRetries \/ DisposeFinalDrain \/ Disposed
    BY <2>4 DEF Dispose, DisposeDrains, DisposeRetries, DisposeFinalDrain, Disposed, gateVars
  <2> QED
    BY <2>1, <2>2, <2>3, <2>4 DEF OwnerStep, DisposeStep
<1> QED
  BY <1>1, <1>2, ReplayFrame

-----------------------------------------------------------------------------
(* The queue of a run. *)

(* An operation that begins finds its run's queue idle. *)
LEMMA BeginState ==
  ASSUME TypeOK, AttemptInv, ReplayInv, NEW r \in Runs, job[r].pc = "idle"
  PROVE  /\ head[r].status \in Parked => ckpt[r] /\ gate[r] = NoGate /\ cur[r] = 0
         /\ ckpt[r] \in BOOLEAN
BY DEF ReplayInv, Replayable, AttemptInv, ParkedInv, TypeOK, TypeAttempts

LEMMA BeginReplay ==
  ASSUME TypeOK, AttemptInv, ReplayInv, NEW r \in Runs,
         \/ BeginPause(r) \/ BeginStop(r) \/ BeginResume(r, "resume") \/ BeginResume(r, "raise")
         \/ BeginAnswer(r) \/ BeginGate(r) \/ BeginEvent(r) \/ BeginSettle(r) \/ BeginTerminal(r)
  PROVE  ReplayInv'
<1> USE DEF TypeOK
<1>a. /\ "cancelled" \in TERMINAL /\ "failed" \in TERMINAL /\ "interrupted" \in TERMINAL
      /\ "pausing" \notin Parked /\ "stopping" \notin Parked /\ "running" \notin Parked
      /\ "needs-input" \notin Parked
  BY DEF TERMINAL, Parked
<1>b. ASSUME NEW op, Ready(r, op)
      PROVE  /\ job[r].pc = "idle" /\ queue[r] # <<>> /\ Head(queue[r]).op = op
             /\ head[r].status \in Parked => ckpt[r] /\ gate[r] = NoGate /\ cur[r] = 0
  BY <1>b, BeginState DEF Ready
<1>c. queue[r] # <<>> /\ Head(queue[r]).op \in {"settle", "gate", "event"} => Head(queue[r]).g # 0
  <2>1. queue[r] \in Seq(OpRecord)
    BY DEF TypeQueue
  <2>2. queue[r] # <<>> => Head(queue[r]) = queue[r][1] /\ 1 \in 1 .. Len(queue[r])
    BY <2>1
  <2> QED
    BY <2>2 DEF AttemptInv, QueueInv
(* Only the gate and the job of the run change. *)
<1>d. ASSUME UNCHANGED <<head, ckpt>>, \A q \in Runs \ {r} : gate'[q] = gate[q] /\ job'[q] = job[q],
             Replayable(head[r].status, ckpt[r], gate'[r], job'[r])
      PROVE  ReplayInv'
  BY <1>d, ReplayHere
<1>1. CASE BeginPause(r)
  <2>1. Ready(r, "pause") /\ UNCHANGED <<head, ckpt>>
    BY <1>1 DEF BeginPause, durableVars
  <2>2. CASE Done(r) /\ UNCHANGED gate
    BY <1>a, <1>b, <1>d, <2>1, <2>2, ReplayDone
  <2>3. CASE ClearGate(r) /\ Commit(r, "pause", "pausing", cur[r], 0)
    BY <1>a, <1>b, <1>d, <2>1, <2>3, ClearedGate, ReplayCommit
  <2> QED
    BY <1>1, <2>2, <2>3 DEF BeginPause
<1>2. CASE BeginStop(r)
  <2>1. Ready(r, "stop") /\ UNCHANGED <<head, ckpt>>
    BY <1>2 DEF BeginStop, durableVars
  <2>2. CASE Done(r) /\ UNCHANGED gate
    BY <1>a, <1>b, <1>d, <2>1, <2>2, ReplayDone
  <2>3. CASE ClearGate(r) /\ Terminalize(r, "stop", "cancelled", 0)
    BY <1>a, <1>b, <1>d, <2>1, <2>3, ClearedGate, ReplayDone
  <2>4. CASE ClearGate(r) /\ Commit(r, "stop", "stopping", cur[r], 0)
    BY <1>a, <1>b, <1>d, <2>1, <2>4, ClearedGate, ReplayCommit
  <2> QED
    BY <1>2, <2>2, <2>3, <2>4 DEF BeginStop
<1>e. ASSUME Acknowledge(r), job[r].pc = "idle", cur[r] # 0, UNCHANGED <<head, ckpt>>
      PROVE  ReplayInv'
  <2>1. head[r].status \notin Parked
    BY <1>e, BeginState
  <2>2. gate'[r] = NoGate /\ \A q \in Runs \ {r} : gate'[q] = gate[q]
    BY <1>e, ClearedGate DEF Acknowledge
  <2>3. CASE Commit(r, "unpark", "running", cur[r], gate[r].id)
    BY <1>a, <1>d, <1>e, <2>1, <2>2, <2>3, ReplayCommit
  <2>4. CASE Commit(r, "replace", "pausing", cur[r], gate[r].id)
    BY <1>a, <1>d, <1>e, <2>1, <2>2, <2>4, ReplayCommit
  <2> QED
    BY <1>e, <2>3, <2>4 DEF Acknowledge
<1>3. ASSUME NEW op \in {"resume", "raise"}, BeginResume(r, op)
      PROVE  ReplayInv'
  <2>1. Ready(r, op) /\ UNCHANGED head
    BY <1>3 DEF BeginResume, durableVars
  <2>2. CASE Done(r) /\ UNCHANGED <<attemptVars, gate>>
    BY <1>a, <1>b, <1>d, <2>1, <2>2, ReplayDone DEF attemptVars
  <2>3. CASE Acknowledge(r) /\ cur[r] # 0 /\ UNCHANGED ckpt
    BY <1>b, <1>e, <2>1, <2>3
  <2>4. CASE head[r].status \in Resumable(r, op) /\ Reattach(r, head[r].rev, head[r].status) /\ UNCHANGED gate
    <3>1. head[r].status \in Parked
      BY <2>4 DEF Resumable, Parked
    <3>2. gate[r] = NoGate /\ ckpt[r]
      BY <1>b, <2>1, <3>1
    <3>3. /\ Replayable(head[r].status, ckpt[r], gate[r], job'[r])
          /\ UNCHANGED ckpt /\ \A q \in Runs \ {r} : job'[q] = job[q]
      BY <2>4, <3>2, ReplayAttach
    <3> QED
      BY <1>d, <2>1, <2>4, <3>3
  <2> QED
    BY <1>3, <2>2, <2>3, <2>4 DEF BeginResume
<1>4. CASE BeginAnswer(r)
  <2>1. Ready(r, "answer") /\ UNCHANGED <<head, ckpt>>
    BY <1>4 DEF BeginAnswer, durableVars
  <2>2. CASE Done(r) /\ UNCHANGED gate
    BY <1>a, <1>b, <1>d, <2>1, <2>2, ReplayDone
  <2>3. CASE Fenced(r, Head(queue[r]).id) /\ Acknowledge(r)
    BY <1>b, <1>e, <2>1, <2>3 DEF Fenced
  <2> QED
    BY <1>4, <2>2, <2>3 DEF BeginAnswer
<1>5. CASE BeginGate(r)
  <2> DEFINE op == Head(queue[r])
  <2>1. Ready(r, "gate") /\ UNCHANGED <<head, ckpt>>
    BY <1>5 DEF BeginGate, durableVars, attemptVars
  <2>2. CASE Done(r) /\ UNCHANGED gate
    BY <1>a, <1>b, <1>d, <2>1, <2>2, ReplayDone
  <2>3. CASE /\ Current(r, op.g) /\ Commit(r, "gate", "needs-input", op.g, op.id)
             /\ gate' = [gate EXCEPT ![r] = [id |-> op.id, kind |-> op.kind, g |-> op.g]]
    <3>1. cur[r] # 0
      BY <1>b, <1>c, <2>1, <2>3 DEF Current
    <3>2. head[r].status \notin Parked
      BY <1>b, <2>1, <3>1
    <3>3. \A q \in Runs \ {r} : gate'[q] = gate[q]
      BY <2>3 DEF TypeGates
    <3> QED
      BY <1>a, <1>d, <2>1, <2>3, <3>2, <3>3, ReplayCommit
  <2> QED
    BY <1>5, <2>2, <2>3 DEF BeginGate
<1>6. CASE BeginEvent(r)
  <2> DEFINE g == Head(queue[r]).g
  <2>1. Ready(r, "event") /\ UNCHANGED <<head, ckpt, gate>>
    BY <1>6 DEF BeginEvent, durableVars, gateVars
  <2>2. CASE Done(r)
    BY <1>a, <1>b, <1>d, <2>1, <2>2, ReplayDone
  <2>3. CASE Current(r, g) /\ Commit(r, "event", head[r].status, g, 0)
    <3>1. head[r].status \notin Parked
      BY <1>b, <1>c, <2>1, <2>3 DEF Current
    <3> QED
      BY <1>d, <2>1, <2>3, <3>1, ReplayCommit
  <2> QED
    BY <1>6, <2>2, <2>3 DEF BeginEvent
<1>7. CASE BeginSettle(r)
  <2> DEFINE g   == Head(queue[r]).g
             out == engine[r][g].out
             to  == SettledAs(out, engine[r][g].intent)
  <2>1. Ready(r, "settle") /\ UNCHANGED head
    BY <1>7 DEF BeginSettle, durableVars
  <2>2. CASE Done(r) /\ UNCHANGED <<ckpt, gate>>
    BY <1>a, <1>b, <1>d, <2>1, <2>2, ReplayDone
  <2>3. CASE /\ ckpt' = [ckpt EXCEPT ![r] = @ \/ HasCheckpoint(out)]
             /\ ClearGate(r)
             /\ IF to \in TERMINAL THEN Terminalize(r, "settle", to, g) ELSE Commit(r, "settle", to, g, 0)
    <3>1. to \in Parked => HasCheckpoint(out)
      BY DEF SettledAs, Parked, HasCheckpoint
    <3>2. \A q \in Runs \ {r} : ckpt'[q] = ckpt[q]
      BY <2>3 DEF TypeAttempts
    <3>3. ckpt'[r] = (ckpt[r] \/ HasCheckpoint(out))
      BY <2>3 DEF TypeAttempts
    <3>4. gate'[r] = NoGate /\ \A q \in Runs \ {r} : gate'[q] = gate[q]
      BY <2>3, ClearedGate
    <3>5. head[r].status \in Parked => ckpt'[r]
      BY <1>b, <2>1, <3>3
    <3> HIDE DEF g, out, to
    <3>6. Replayable(head[r].status, ckpt'[r], gate'[r], job'[r]) /\ \A q \in Runs \ {r} : job'[q] = job[q]
      <4>1. CASE to \in TERMINAL /\ Terminalize(r, "settle", to, g)
        BY <3>4, <3>5, <4>1, ReplayDone
      <4>2. CASE Commit(r, "settle", to, g, 0)
        BY <3>1, <3>3, <3>4, <3>5, <4>2, ReplayCommit
      <4> QED
        BY <2>3, <4>1, <4>2
    <3> QED
      BY <2>1, <3>2, <3>4, <3>6, ReplayHere
  <2> QED
    BY <1>7, <2>2, <2>3 DEF BeginSettle
<1>8. CASE BeginTerminal(r)
  <2>1. UNCHANGED <<head, ckpt, gate>> /\ (Ready(r, "teardown") \/ Ready(r, "failStart"))
    BY <1>8 DEF BeginTerminal, durableVars, attemptVars, gateVars
  <2>2. head[r].status \in Parked => ckpt[r] /\ gate[r] = NoGate
    BY <1>b, <2>1
  <2>3. \/ Terminalize(r, "teardown", "interrupted", 0)
        \/ Terminalize(r, "failStart", "failed", 0)
    BY <1>8 DEF BeginTerminal
  <2> QED
    BY <1>a, <1>d, <2>1, <2>2, <2>3, ReplayDone
<1> QED
  BY <1>1, <1>2, <1>3, <1>4, <1>5, <1>6, <1>7, <1>8

LEMMA CommittedReplay ==
  ASSUME TypeOK, AttemptInv, ReplayInv, NEW r \in Runs, Committed(r), job[r].pc = "commit",
         UNCHANGED gate, \A q \in Runs \ {r} : head'[q] = head[q],
         head'[r].status \in Parked => ckpt[r] /\ gate[r] = NoGate
  PROVE  ReplayInv'
<1> DEFINE j == job[r]
<1>a. Replayable(head[r].status, ckpt[r], gate[r], j)
  BY DEF ReplayInv
(* Only the head and the job of the run change. *)
<1>b. ASSUME UNCHANGED ckpt, \A q \in Runs \ {r} : job'[q] = job[q],
             Replayable(head'[r].status, ckpt[r], gate[r], job'[r])
      PROVE  ReplayInv'
  BY <1>b, ReplayHere
<1>1. CASE /\ j.to \in {"pausing", "stopping"} /\ j.op \in {"pause", "stop", "replace"}
           /\ Suspend(r, [j EXCEPT !.pc = "quiesce"])
           /\ UNCHANGED ckpt
  <2>1. job'[r] = [j EXCEPT !.pc = "quiesce"] /\ \A q \in Runs \ {r} : job'[q] = job[q]
    BY <1>1, SuspendJob
  <2>2. job'[r].pc = "quiesce" /\ job'[r].op = j.op
    BY <2>1 DEF TypeOK, TypeJob, JobRecord
  <2>3. Replayable(head'[r].status, ckpt[r], gate[r], job'[r])
    BY <1>1, <1>a, <2>2 DEF Replayable
  <2> QED
    BY <1>1, <1>b, <2>1, <2>3
<1>2. CASE j.op = "replace" /\ j.to = "paused" /\ Reattach(r, j.rev + 1, "paused")
  <2>1. gate[r] = NoGate
    BY <1>2, <1>a DEF Replayable
  <2>2. /\ Replayable(head'[r].status, ckpt[r], gate[r], job'[r])
        /\ UNCHANGED ckpt /\ \A q \in Runs \ {r} : job'[q] = job[q]
    BY <1>2, <2>1, ReplayAttach
  <2> QED
    BY <1>b, <2>2
<1>3. CASE Done(r) /\ UNCHANGED ckpt
  <2>1. /\ Replayable(head'[r].status, ckpt[r], gate[r], job'[r])
        /\ \A q \in Runs \ {r} : job'[q] = job[q]
    BY <1>3, DoneJob DEF Replayable, Idle
  <2> QED
    BY <1>3, <1>b, <2>1
<1>4. CASE /\ j.op = "resume"
           /\ Suspend(r, [j EXCEPT !.op = "restore", !.pc = "rollback"])
           /\ UNCHANGED ckpt
  <2>1. /\ job'[r] = [j EXCEPT !.op = "restore", !.pc = "rollback"]
        /\ \A q \in Runs \ {r} : job'[q] = job[q]
    BY <1>4, SuspendJob
  <2>2. job'[r].pc = "rollback" /\ job'[r].op = "restore"
    BY <2>1 DEF TypeOK, TypeJob, JobRecord
  <2>3. Replayable(head'[r].status, ckpt[r], gate[r], job'[r])
    BY <1>4, <1>a, <2>2 DEF Replayable
  <2> QED
    BY <1>4, <1>b, <2>1, <2>3
<1>5. \/ /\ j.to \in {"pausing", "stopping"} /\ j.op \in {"pause", "stop", "replace"}
         /\ Suspend(r, [j EXCEPT !.pc = "quiesce"])
         /\ UNCHANGED ckpt
      \/ j.op = "replace" /\ j.to = "paused" /\ Reattach(r, j.rev + 1, "paused")
      \/ Done(r) /\ UNCHANGED ckpt
      \/ /\ j.op = "resume"
         /\ Suspend(r, [j EXCEPT !.op = "restore", !.pc = "rollback"])
         /\ UNCHANGED ckpt
  BY DEF Committed, attemptVars
<1> QED
  BY <1>1, <1>2, <1>3, <1>4, <1>5

LEMMA NotCommittedReplay ==
  ASSUME TypeOK, ReplayInv, NEW r \in Runs, NotCommitted(r), job[r].pc = "commit",
         UNCHANGED <<gate, head>>
  PROVE  ReplayInv'
<1> DEFINE j == job[r]
<1>a. Replayable(head[r].status, ckpt[r], gate[r], j)
  BY DEF ReplayInv
<1>b. "failed" \in TERMINAL
  BY DEF TERMINAL
<1>c. UNCHANGED ckpt
  BY DEF NotCommitted, attemptVars
<1>1. CASE j.op = "resume" /\ Suspend(r, [j EXCEPT !.pc = "rollback"])
  <2>1. job'[r] = [j EXCEPT !.pc = "rollback"] /\ \A q \in Runs \ {r} : job'[q] = job[q]
    BY <1>1, SuspendJob
  <2>2. job'[r].pc = "rollback" /\ job'[r].op = "resume"
    BY <1>1, <2>1 DEF TypeOK, TypeJob, JobRecord
  <2>3. Replayable(head[r].status, ckpt[r], gate[r], job'[r])
    BY <1>1, <1>a, <2>2 DEF Replayable
  <2> QED
    BY <1>c, <2>1, <2>3, ReplayHere
<1>2. CASE Done(r) \/ Terminalize(r, "restore", "failed", 0)
  <2>1. head[r].status \in Parked => ckpt[r] /\ gate[r] = NoGate
    BY <1>a DEF Replayable
  <2>2. /\ Replayable(head[r].status, ckpt[r], gate[r], job'[r])
        /\ \A q \in Runs \ {r} : job'[q] = job[q]
    BY <1>2, <1>b, <2>1, ReplayDone
  <2> QED
    BY <1>c, <2>2, ReplayHere
<1> QED
  BY <1>1, <1>2 DEF NotCommitted

LEMMA ContinueReplay ==
  ASSUME TypeOK, AttemptInv, ReplayInv, NEW r \in Runs,
         \/ AttemptQuiesced(r) \/ CommitSettles(r) \/ RollbackQuiesced(r)
         \/ Drained(r) \/ TerminalSettled(r)
  PROVE  ReplayInv'
<1> USE DEF TypeOK
<1> DEFINE j == job[r]
<1>a. Replayable(head[r].status, ckpt[r], gate[r], j)
  BY DEF ReplayInv
<1>b. "failed" \in TERMINAL /\ "cancelled" \in TERMINAL
  BY DEF TERMINAL
<1>c. head[r].status \in Parked => ckpt[r] /\ gate[r] = NoGate
  BY <1>a DEF Replayable
<1>1. CASE AttemptQuiesced(r)
  <2> DEFINE out == engine[r][j.g].out
  <2>1. j.pc = "quiesce" /\ UNCHANGED <<head, gate>>
    BY <1>1 DEF AttemptQuiesced, durableVars, gateVars
  <2>2. CASE Done(r) /\ UNCHANGED ckpt
    <3>1. /\ Replayable(head[r].status, ckpt[r], gate[r], job'[r])
          /\ \A q \in Runs \ {r} : job'[q] = job[q]
      BY <1>b, <1>c, <2>2, ReplayDone
    <3> QED
      BY <2>1, <2>2, <3>1, ReplayHere
  <2>3. CASE /\ ckpt' = [ckpt EXCEPT ![r] = @ \/ HasCheckpoint(out)]
             /\ \/ Terminalize(r, j.op, "failed", 0) \/ Terminalize(r, "stop", "cancelled", 0)
                \/ j.op # "stop" /\ HasCheckpoint(out) /\ Commit(r, j.op, "paused", 0, 0)
    <3>1. \A q \in Runs \ {r} : ckpt'[q] = ckpt[q]
      BY <2>3 DEF TypeAttempts
    <3>2. ckpt'[r] = (ckpt[r] \/ HasCheckpoint(out))
      BY <2>3 DEF TypeAttempts
    <3>3. head[r].status \in Parked => ckpt'[r] /\ gate[r] = NoGate
      BY <1>c, <3>2
    <3>4. /\ j.op \in {"pause", "stop", "replace"}
          /\ j.op \in {"pause", "replace"} => gate[r] = NoGate
      BY <1>a, <2>1 DEF Replayable
    <3> HIDE DEF out, j
    <3>5. /\ Replayable(head[r].status, ckpt'[r], gate[r], job'[r])
          /\ \A q \in Runs \ {r} : job'[q] = job[q]
      <4>1. CASE Terminalize(r, j.op, "failed", 0)
        BY <1>b, <3>3, <4>1, ReplayDone
      <4>2. CASE Terminalize(r, "stop", "cancelled", 0)
        BY <1>b, <3>3, <4>2, ReplayDone
      <4>3. CASE j.op # "stop" /\ HasCheckpoint(out) /\ Commit(r, j.op, "paused", 0, 0)
        BY <3>2, <3>3, <3>4, <4>3, ReplayCommit
      <4> QED
        BY <2>3, <4>1, <4>2, <4>3
    <3> QED
      BY <2>1, <3>1, <3>5, ReplayHere
  <2> QED
    BY <1>1, <2>2, <2>3 DEF AttemptQuiesced
<1>2. CASE CommitSettles(r)
  <2>1. j.pc = "commit" /\ UNCHANGED gate
    BY <1>2 DEF CommitSettles
  <2>2. CASE Committed(r) /\ UNCHANGED head
    BY <1>c, <2>1, <2>2, CommittedReplay
  <2>3. CASE Committed(r) /\ head' = [head EXCEPT ![r] = [status |-> j.to, rev |-> j.rev + 1]]
    <3>1. head'[r].status = j.to /\ \A q \in Runs \ {r} : head'[q] = head[q]
      BY <2>3 DEF TypeDurable
    <3>2. j.to \in Parked => ckpt[r] /\ gate[r] = NoGate
      BY <1>a, <2>1 DEF Replayable
    <3> QED
      BY <2>1, <2>3, <3>1, <3>2, CommittedReplay
  <2>4. CASE NotCommitted(r) /\ UNCHANGED head
    BY <2>1, <2>4, NotCommittedReplay
  <2> QED
    BY <1>2, <2>2, <2>3, <2>4 DEF CommitSettles
<1>3. CASE RollbackQuiesced(r)
  <2>1. /\ j.pc = "rollback" /\ UNCHANGED <<head, ckpt, gate>>
        /\ Done(r) \/ Commit(r, "restore", j.old, 0, 0)
    BY <1>3 DEF RollbackQuiesced, durableVars, attemptVars, gateVars
  <2>2. ckpt[r] /\ gate[r] = NoGate
    BY <1>a, <2>1 DEF Replayable
  <2>3. /\ Replayable(head[r].status, ckpt[r], gate[r], job'[r])
        /\ \A q \in Runs \ {r} : job'[q] = job[q]
    <3>1. CASE Done(r)
      BY <1>b, <2>2, <3>1, ReplayDone
    <3>2. CASE Commit(r, "restore", j.old, 0, 0)
      BY <2>2, <3>2, ReplayCommit
    <3> QED
      BY <2>1, <3>1, <3>2
  <2> QED
    BY <2>1, <2>3, ReplayHere
<1>4. CASE Drained(r)
  <2>1. UNCHANGED <<head, ckpt, gate>> /\ Suspend(r, [j EXCEPT !.pc = "claim", !.rev = head[r].rev])
    BY <1>4 DEF Drained, durableVars, attemptVars, gateVars
  <2>2. /\ job'[r] = [j EXCEPT !.pc = "claim", !.rev = head[r].rev]
        /\ \A q \in Runs \ {r} : job'[q] = job[q]
    BY <2>1, SuspendJob
  <2>3. job'[r].pc = "claim"
    BY <2>2 DEF TypeJob, JobRecord
  <2>4. Replayable(head[r].status, ckpt[r], gate[r], job'[r])
    BY <1>c, <2>3 DEF Replayable
  <2> QED
    BY <2>1, <2>2, <2>4, ReplayHere
<1>5. CASE TerminalSettled(r)
  <2>1. /\ UNCHANGED ckpt /\ Done(r) /\ TerminalSettles(r, j.rev, j.to)
        /\ j.to \in TERMINAL
    BY <1>5 DEF TerminalSettled, attemptVars, AttemptInv, ParkedInv
  <2>2. /\ gate'[r] \in {gate[r], NoGate}
        /\ head'[r].status = head[r].status \/ head'[r].status \notin Parked
    BY <2>1, SettledGate
  <2>3. \A q \in Runs \ {r} : head'[q] = head[q] /\ gate'[q] = gate[q]
    <3>1. UNCHANGED gate \/ ClearGate(r)
      BY <2>1 DEF TerminalSettles
    <3> QED
      BY <2>1, <3>1, ClearedGate, SettledElsewhere
  <2>4. head'[r].status \in Parked => ckpt[r] /\ gate'[r] = NoGate
    BY <1>c, <2>2
  <2>5. /\ Replayable(head'[r].status, ckpt[r], gate'[r], job'[r])
        /\ \A q \in Runs \ {r} : job'[q] = job[q]
    BY <2>1, <2>4, DoneJob DEF Replayable, Idle
  <2> QED
    BY <2>1, <2>3, <2>5, ReplayHere
<1> QED
  BY <1>1, <1>2, <1>3, <1>4, <1>5

-----------------------------------------------------------------------------
LEMMA InitReplay == Init => ReplayInv
BY DEF Init, ReplayInv, Replayable, Idle, Parked

LEMMA StepReplay == TypeOK /\ AttemptInv /\ ReplayInv /\ [Next]_vars => ReplayInv'
<1> SUFFICES ASSUME TypeOK, AttemptInv, ReplayInv, [Next]_vars PROVE ReplayInv'
  OBVIOUS
<1>1. CASE UNCHANGED vars
  BY <1>1, ReplayFrame DEF vars, durableVars, attemptVars, gateVars, queueVars
<1>2. ASSUME NEW r \in Runs, Reserve(r) \/ LaunchStep(r)
      PROVE  ReplayInv'
  BY <1>2, LaunchReplay
<1>3. ASSUME NEW r \in Runs, QueueStep(r)
      PROVE  ReplayInv'
  BY <1>3, BeginReplay, ContinueReplay DEF QueueStep
<1>4. ASSUME NEW r \in Runs,
             \/ EngineEvent(r) \/ EngineGate(r) \/ Ask(r) \/ NoticeSettles(r)
             \/ \E g \in Gens : EngineQuiesces(r, g)
      PROVE  ReplayInv'
  BY <1>4, EngineReplay
<1>5. CASE (\E a \in Agents : OwnerDisposed(a) \/ OwnerStep(a)) \/ Dispose \/ DisposeStep
  BY <1>5, TeardownReplay
<1> QED
  BY <1>1, <1>2, <1>3, <1>4, <1>5 DEF Next

(* A parked run has no current attempt unless a resume attached one, and an     *)
(* attempt that is not current lives only in a rollback (AttemptInv).           *)
LEMMA ReplayIsParked == TypeOK /\ AttemptInv /\ ReplayInv => PausedIsReplayable
<1> SUFFICES ASSUME TypeOK, AttemptInv, ReplayInv, NEW r \in Runs,
                    head[r].status \in {"paused", "budget-limited"}
             PROVE  /\ ckpt[r] /\ gate[r] = NoGate
                    /\ job[r].op \notin {"resume", "restore"} =>
                         cur[r] = 0 /\ \A g \in Gens : ~Live(r, g)
  BY DEF PausedIsReplayable
<1>1. head[r].status \in Parked
  BY DEF Parked
<1>2. ckpt[r] /\ gate[r] = NoGate
  BY <1>1 DEF ReplayInv, Replayable
<1>3. ASSUME job[r].op \notin {"resume", "restore"}
      PROVE  cur[r] = 0 /\ \A g \in Gens : ~Live(r, g)
  <2>1. cur[r] = 0
    BY <1>1, <1>3 DEF AttemptInv, ParkedInv
  <2>2. job[r].pc # "rollback"
    BY <1>3 DEF ReplayInv, Replayable
  <2> QED
    BY <2>1, <2>2, NoneLive DEF AttemptInv
<1> QED
  BY <1>2, <1>3

(* Whatever the launches, controls, gates, failures and teardowns before it, a *)
(* run that is paused or budget-limited holds a checkpoint to replay from and  *)
(* no gate, and no attempt of it runs unless a resume is attaching one.        *)
THEOREM ParkedIsReplayable == Spec => []PausedIsReplayable
<1>1. Init => TypeOK /\ AttemptInv /\ ReplayInv
  BY InitTypes, InitAttempts, InitReplay
<1>2. TypeOK /\ AttemptInv /\ ReplayInv /\ [Next]_vars => (TypeOK /\ AttemptInv /\ ReplayInv)'
  BY StepTypes, StepAttempts, StepReplay
<1> QED
  BY <1>1, <1>2, ReplayIsParked, PTL DEF Spec
-----------------------------------------------------------------------------
(***************************************************************************)
(* dispose (src/src/supervisor/index.ts) accounts for every run.  Its last *)
(* pass looks only at the runs known at that moment, and lets go of each   *)
(* by a commit that may fail.  TeardownInv says what the passes before it  *)
(* have already settled: which runs are terminal or have said why not,     *)
(* which interruption is queued within the awaited tail, and that nothing  *)
(* attaches an attempt behind the pass that looked for one.                *)
(***************************************************************************)

(* A terminal commit of r has succeeded, or it failed and says so. *)
Reported(r) == Terminal(r) \/ failure[r]
(* The interruption that dispose queued for r is among the operations it awaits. *)
Awaits(q, j, n) ==
  \/ j.op = "teardown" /\ n > 0
  \/ \E i \in DOMAIN q : q[i].op = "teardown" /\ i + (IF j.pc = "idle" THEN 0 ELSE 1) <= n
Waiting(r) == Awaits(queue[r], job[r], ahead[Sup][r])
Attaching(j) == j.op \in {"resume", "restore"} \/ j.pc = "rollback"

(* The head of a run and its row. *)
RowInv ==
  \A r \in Runs :
    /\ Terminal(r) => row[r].status \in TERMINAL
    /\ Durable(r) => head[r].status # "absent"
    /\ job[r].pc = "commit" => job[r].to # "absent"
    /\ job[r].pc \in {"commit", "rollback"} => job[r].old # "absent"
(* What is not in the store has no operation and no attempt. *)
AbsentInv ==
  /\ \A r \in Runs : ~Durable(r) =>
       queue[r] = <<>> /\ job[r].pc = "idle" /\ gen[r] = 0 /\ ~delivery[r]
  /\ \A r \in Runs : start[r] \notin {"idle", "insert", "done"} => Durable(r)
  /\ \A a \in Agents : \A r \in drain[a].todo : Durable(r)
(* A current attempt was born, and once it is over its settlement is queued. *)
HasSettle(q, g) == \E i \in DOMAIN q : q[i].op = "settle" /\ q[i].g = g
SettleInv ==
  \A r \in Runs :
    /\ cur[r] # 0 => /\ engine[r][cur[r]].st # "unborn"
                     /\ engine[r][cur[r]].st = "quiescent" => HasSettle(queue[r], cur[r])
    /\ job[r].op = "teardown" => job[r].pc \in {"drain", "claim"}
    /\ job[r].pc = "idle" => ~Attaching(job[r])

Swept    == {"drain", "retry", "final", "done"}
Detached == {"retry", "final", "done"}
DisposeInv ==
  /\ disposal # "none" => disposed /\ ~admission
  /\ disposal \notin {"none", "pending"} => \A r \in Runs : ~Pending(r)
  /\ disposal = "direct" => \A r \in direct : Reported(r) \/ Waiting(r)
  /\ disposal \in Swept => \A r \in direct : Reported(r)
  /\ disposal = "drain" => \A r \in KnownRuns :
       cur[r] \in {0, awaited[Sup][r]} /\ (Attaching(job[r]) => ahead[Sup][r] > 0)
  /\ disposal \in Detached => \A r \in KnownRuns : cur[r] = 0 /\ ~Attaching(job[r])
  /\ disposal = "retry" => \A r \in KnownRuns : Reported(r) \/ Waiting(r)
  /\ disposal \in {"final", "done"} =>
       /\ \A r \in KnownRuns : Reported(r)
       /\ firstError \/ \A r \in KnownRuns : Terminal(r)
TeardownInv == RowInv /\ AbsentInv /\ SettleInv /\ DisposeInv
-----------------------------------------------------------------------------
(* How a step moves the queue of a run, seen by the waiter Sup. *)

LEMMA SupWaits == Sup \in Waiters /\ \A a \in Agents : a # Sup
BY ConstantsAssumption DEF Waiters

GoesOn(r) ==
  /\ \/ job'[r] = Idle /\ ahead'[Sup][r] = Less(ahead[Sup][r])
     \/ job'[r].pc # "idle" /\ ahead'[Sup][r] = ahead[Sup][r]
  /\ awaited' = awaited
  /\ \A q \in Runs \ {r} : job'[q] = job[q] /\ ahead'[Sup][q] = ahead[Sup][q]

LEMMA DoneGoesOn ==
  ASSUME TypeOK, NEW r \in Runs, Done(r)
  PROVE  GoesOn(r) /\ job'[r] = Idle
BY SupWaits DEF TypeOK, TypeJob, Done, GoesOn

LEMMA SuspendGoesOn ==
  ASSUME TypeOK, NEW r \in Runs, NEW step, step.pc # "idle", Suspend(r, step)
  PROVE  GoesOn(r) /\ job'[r] = step
BY DEF TypeOK, TypeJob, Suspend, GoesOn, waitVars

LEMMA CommitGoesOn ==
  ASSUME TypeOK, NEW r \in Runs, NEW op, NEW to, NEW g, NEW id, Commit(r, op, to, g, id)
  PROVE  /\ GoesOn(r) /\ job'[r].op = op /\ job'[r].pc = "commit" /\ job'[r].to = to
         /\ job'[r].old = head[r].status /\ job'[r].rev = head[r].rev /\ job'[r].g = g
<1> DEFINE step == [op |-> op, pc |-> "commit", to |-> to, rev |-> head[r].rev, g |-> g, id |-> id,
                    old |-> head[r].status]
<1>1. Suspend(r, step) /\ step.pc # "idle"
  BY DEF Commit
<1> QED
  BY <1>1, SuspendGoesOn

LEMMA TerminalizeGoesOn ==
  ASSUME TypeOK, NEW r \in Runs, NEW op, NEW to, NEW g, Terminalize(r, op, to, g)
  PROVE  /\ GoesOn(r)
         /\ \/ Terminal(r) /\ job'[r] = Idle
            \/ /\ ~Terminal(r) /\ job'[r].op = op /\ job'[r].pc = "drain"
               /\ job'[r].to = to /\ job'[r].g = g
<1>1. CASE Terminal(r)
  BY <1>1, DoneGoesOn DEF Terminalize
<1>2. CASE ~Terminal(r)
  <2>1. Suspend(r, [Idle EXCEPT !.op = op, !.pc = "drain", !.to = to, !.g = g])
    BY <1>2 DEF Terminalize
  <2>2. /\ [Idle EXCEPT !.op = op, !.pc = "drain", !.to = to, !.g = g].pc = "drain"
        /\ [Idle EXCEPT !.op = op, !.pc = "drain", !.to = to, !.g = g].op = op
        /\ [Idle EXCEPT !.op = op, !.pc = "drain", !.to = to, !.g = g].to = to
        /\ [Idle EXCEPT !.op = op, !.pc = "drain", !.to = to, !.g = g].g = g
    BY DEF Idle
  <2> QED
    BY <1>2, <2>1, <2>2, SuspendGoesOn
<1> QED
  BY <1>1, <1>2

(* The operation r goes on to is an interruption only if it was one, or it was
   the next; it attaches an attempt only if it did, or dispose has not begun;
   and a settled run it leaves settled. *)
Onward(r) ==
  /\ GoesOn(r)
  /\ \/ /\ job[r].pc = "idle" /\ queue[r] # <<>> /\ queue' = [queue EXCEPT ![r] = Tail(@)]
        /\ Head(queue[r]).op = "teardown" => job'[r].op = "teardown" \/ Reported(r)'
     \/ /\ job[r].pc # "idle" /\ UNCHANGED queue
        /\ job[r].op = "teardown" => job'[r].op = "teardown" \/ Reported(r)'
  /\ job'[r].op = "teardown" => job'[r].pc \in {"drain", "claim"}
  /\ disposed /\ Attaching(job'[r]) => Attaching(job[r])
Aside(r) ==
  /\ \A q \in Runs \ {r} : /\ cur'[q] = cur[q] /\ head'[q] = head[q] /\ row'[q] = row[q]
                           /\ failure'[q] = failure[q] /\ delivery'[q] = delivery[q]
  /\ UNCHANGED <<start, disposal, direct, firstError, disposed, admission, drain>>
Steady(r) ==
  /\ Terminal(r) => Terminal(r)'
  /\ Reported(r) => Reported(r)'
  /\ Durable(r) => Durable(r)'
Advances(r) ==
  /\ Onward(r) /\ Aside(r) /\ Steady(r)
  /\ disposed => cur'[r] \in {0, cur[r]}
  /\ RowInv'

(* An interruption that is awaited stays so until it has run. *)
LEMMA WaitMoves ==
  ASSUME NEW q \in Seq(OpRecord), NEW j, NEW p, NEW n \in Nat, NEW m \in Nat, NEW rep \in BOOLEAN,
         Awaits(q, j, n), j.pc = "idle" => j.op # "teardown",
         \/ p = Idle /\ m = Less(n)
         \/ p.pc # "idle" /\ m = n,
         NEW u \in Seq(OpRecord),
         \/ /\ j.pc = "idle" /\ q # <<>> /\ u = Tail(q)
            /\ Head(q).op = "teardown" => p.op = "teardown" \/ rep
         \/ /\ j.pc # "idle" /\ u = q
            /\ j.op = "teardown" => p.op = "teardown" \/ rep
  PROVE  rep \/ Awaits(u, p, m)
<1>1. Idle.op # "teardown" /\ Idle.pc = "idle" /\ Less(n) = IF n = 0 THEN 0 ELSE n - 1
  BY DEF Idle, Less
<1>2. CASE j.op = "teardown"
  <2>1. n > 0 /\ j.pc # "idle"
    BY <1>2 DEF Awaits
  <2>2. p.op = "teardown" => p # Idle /\ m = n
    BY <1>1
  <2> QED
    BY <1>2, <2>1, <2>2 DEF Awaits
<1>3. ASSUME j.op # "teardown", NEW i \in DOMAIN q, q[i].op = "teardown",
             i + (IF j.pc = "idle" THEN 0 ELSE 1) <= n
      PROVE  rep \/ Awaits(u, p, m)
  <2>1. i \in Nat /\ i >= 1 /\ n >= 1
    BY <1>3
  <2>2. CASE j.pc # "idle" /\ u = q
    <3>1. i + 1 <= n
      BY <1>3, <2>2
    <3>2. i + (IF p.pc = "idle" THEN 0 ELSE 1) <= m
      BY <1>1, <2>1, <3>1
    <3> QED
      BY <1>3, <2>2, <3>2 DEF Awaits
  <2>3. CASE j.pc = "idle" /\ q # <<>> /\ u = Tail(q) /\ i = 1
    <3>1. Head(q).op = "teardown"
      BY <1>3, <2>3
    <3>2. p.op = "teardown" => p # Idle /\ m = n
      BY <1>1
    <3>3. p.op = "teardown" \/ rep
      BY <2>3, <3>1
    <3> QED
      BY <2>1, <3>2, <3>3 DEF Awaits
  <2>4. CASE j.pc = "idle" /\ q # <<>> /\ u = Tail(q) /\ i # 1
    <3>1. i - 1 \in DOMAIN u /\ u[i - 1] = q[i]
      BY <1>3, <2>1, <2>4
    <3>2. i <= n
      BY <1>3, <2>4
    <3>3. (i - 1) + (IF p.pc = "idle" THEN 0 ELSE 1) <= m
      BY <1>1, <2>1, <3>2
    <3> QED
      BY <1>3, <3>1, <3>3 DEF Awaits
  <2> QED
    BY <2>2, <2>3, <2>4
<1> QED
  BY <1>2, <1>3 DEF Awaits

LEMMA WaitAppended ==
  ASSUME NEW q \in Seq(OpRecord), NEW j, NEW n \in Nat, NEW op \in OpRecord, Awaits(q, j, n)
  PROVE  Awaits(Append(q, op), j, n)
<1>1. \A i \in DOMAIN q : i \in DOMAIN Append(q, op) /\ Append(q, op)[i] = q[i]
  OBVIOUS
<1> QED
  BY <1>1 DEF Awaits

LEMMA WaitAdvances ==
  ASSUME TypeOK, TypeOK', SettleInv, NEW r \in Runs, Advances(r)
  PROVE  \A q \in Runs : Reported(q) \/ Waiting(q) => (Reported(q) \/ Waiting(q))'
<1> SUFFICES ASSUME NEW q \in Runs, Reported(q) \/ Waiting(q) PROVE (Reported(q) \/ Waiting(q))'
  OBVIOUS
<1>1. /\ queue[r] \in Seq(OpRecord) /\ queue'[r] \in Seq(OpRecord)
      /\ ahead[Sup][r] \in Nat /\ ahead'[Sup][r] \in Nat
  BY SupWaits DEF TypeOK, TypeQueue, TypeJob
<1>2. CASE q # r
  <2>1. queue'[q] = queue[q]
    BY <1>2 DEF Advances, Onward, TypeOK, TypeQueue
  <2>2. job'[q] = job[q] /\ ahead'[Sup][q] = ahead[Sup][q] /\ head'[q] = head[q] /\ failure'[q] = failure[q]
    BY <1>2 DEF Advances, Onward, GoesOn, Aside
  <2> QED
    BY <2>1, <2>2 DEF Reported, Terminal, Waiting
<1>3. CASE q = r /\ Reported(r)
  BY <1>3 DEF Advances, Steady
<1>4. CASE q = r /\ Waiting(r)
  <2>1. job[r].pc = "idle" => job[r].op # "teardown"
    BY DEF SettleInv
  <2>2. PICK rep \in BOOLEAN : rep <=> Reported(r)'
    <3>1. CASE Reported(r)'
      BY <3>1
    <3>2. CASE ~Reported(r)'
      BY <3>2
    <3> QED
      BY <3>1, <3>2
  <2>3. \/ /\ job[r].pc = "idle" /\ queue[r] # <<>> /\ queue'[r] = Tail(queue[r])
           /\ Head(queue[r]).op = "teardown" => job'[r].op = "teardown" \/ rep
        \/ /\ job[r].pc # "idle" /\ queue'[r] = queue[r]
           /\ job[r].op = "teardown" => job'[r].op = "teardown" \/ rep
    BY <2>2 DEF Advances, Onward, TypeOK, TypeQueue
  <2>4. \/ job'[r] = Idle /\ ahead'[Sup][r] = Less(ahead[Sup][r])
        \/ job'[r].pc # "idle" /\ ahead'[Sup][r] = ahead[Sup][r]
    BY DEF Advances, Onward, GoesOn
  <2>5. rep \/ Awaits(queue'[r], job'[r], ahead'[Sup][r])
    BY <1>1, <1>4, <2>1, <2>3, <2>4, WaitMoves DEF Waiting
  <2> QED
    BY <1>4, <2>2, <2>5 DEF Waiting
<1> QED
  BY <1>2, <1>3, <1>4
-----------------------------------------------------------------------------
(* The operations of the queue. *)

LEMMA DequeueHere ==
  ASSUME TypeOK, NEW r \in Runs, NEW op, Ready(r, op), Dequeue(r)
  PROVE  /\ job[r].pc = "idle" /\ queue[r] # <<>> /\ queue' = [queue EXCEPT ![r] = Tail(@)]
         /\ Head(queue[r]).op = op
BY DEF Ready, Dequeue

(* An operation that leaves the store alone and is no interruption. *)
LEMMA QuietAdvance ==
  ASSUME TypeOK, RowInv, NEW r \in Runs, GoesOn(r), UNCHANGED <<start, durableVars, closeVars, drainVars>>,
         \A q \in Runs \ {r} : cur'[q] = cur[q],
         disposed => cur'[r] \in {0, cur[r]},
         \/ /\ job[r].pc = "idle" /\ queue[r] # <<>> /\ queue' = [queue EXCEPT ![r] = Tail(@)]
            /\ Head(queue[r]).op = "teardown" => job'[r].op = "teardown" \/ Terminal(r)
         \/ job[r].pc # "idle" /\ UNCHANGED queue /\ (job[r].op = "teardown" => job'[r].op = "teardown"),
         job'[r].op = "teardown" => job'[r].pc \in {"drain", "claim"},
         disposed /\ Attaching(job'[r]) => Attaching(job[r]),
         job'[r].pc = "commit" => job'[r].to # "absent",
         job'[r].pc \in {"commit", "rollback"} => job'[r].old # "absent"
  PROVE  Advances(r)
<1>1. Aside(r)
  BY DEF Aside, durableVars, closeVars, drainVars
<1>2. Steady(r) /\ (Terminal(r) => Reported(r)')
  BY DEF Steady, Terminal, Reported, Durable, durableVars
<1>3. Onward(r)
  BY <1>2 DEF Onward
<1>4. RowInv'
  BY DEF RowInv, Terminal, Durable, GoesOn, durableVars
<1> QED
  BY <1>1, <1>2, <1>3, <1>4 DEF Advances

LEMMA DurableJob ==
  ASSUME RowInv, AbsentInv, NEW r \in Runs, job[r].pc # "idle" \/ queue[r] # <<>>
  PROVE  head[r].status # "absent" /\ Durable(r)
BY DEF RowInv, AbsentInv

LEMMA IdleJob == Idle.op = "none" /\ Idle.pc = "idle" /\ ~Attaching(Idle)
BY DEF Idle, Attaching

LEMMA ControlAdvances ==
  ASSUME TypeOK, RowInv, AbsentInv, NEW r \in Runs, BeginPause(r) \/ BeginStop(r) \/ BeginGate(r)
  PROVE  Advances(r)
<1>1. CASE BeginPause(r)
  <2>1. /\ job[r].pc = "idle" /\ queue[r] # <<>> /\ queue' = [queue EXCEPT ![r] = Tail(@)]
        /\ Head(queue[r]).op = "pause"
    BY <1>1, DequeueHere DEF BeginPause
  <2>2. UNCHANGED <<start, durableVars, closeVars, drainVars, cur>>
    BY <1>1 DEF BeginPause, launchVars
  <2>3. GoesOn(r) /\ (job'[r] = Idle \/ (job'[r].op = "pause" /\ job'[r].pc = "commit" /\ job'[r].to = "pausing" /\ job'[r].old = head[r].status))
    BY <1>1, DoneGoesOn, CommitGoesOn DEF BeginPause
  <2> QED
    BY <2>1, <2>2, <2>3, QuietAdvance, DurableJob, IdleJob DEF Attaching
<1>2. CASE BeginStop(r)
  <2>1. /\ job[r].pc = "idle" /\ queue[r] # <<>> /\ queue' = [queue EXCEPT ![r] = Tail(@)]
        /\ Head(queue[r]).op = "stop"
    BY <1>2, DequeueHere DEF BeginStop
  <2>2. UNCHANGED <<start, durableVars, closeVars, drainVars, cur>>
    BY <1>2 DEF BeginStop, launchVars
  <2>3. GoesOn(r) /\ (job'[r] = Idle \/ (job'[r].op = "stop" /\ job'[r].pc = "drain")
                      \/ (job'[r].op = "stop" /\ job'[r].pc = "commit" /\ job'[r].to = "stopping" /\ job'[r].old = head[r].status))
    <3>1. CASE Done(r)
      BY <3>1, DoneGoesOn
    <3>2. CASE Terminalize(r, "stop", "cancelled", 0)
      BY <3>2, TerminalizeGoesOn
    <3>3. CASE Commit(r, "stop", "stopping", cur[r], 0)
      BY <3>3, CommitGoesOn
    <3> QED
      BY <1>2, <3>1, <3>2, <3>3 DEF BeginStop
  <2> QED
    BY <2>1, <2>2, <2>3, QuietAdvance, DurableJob, IdleJob DEF Attaching
<1>3. CASE BeginGate(r)
  <2>1. /\ job[r].pc = "idle" /\ queue[r] # <<>> /\ queue' = [queue EXCEPT ![r] = Tail(@)]
        /\ Head(queue[r]).op = "gate"
    BY <1>3, DequeueHere DEF BeginGate
  <2>2. UNCHANGED <<start, durableVars, closeVars, drainVars, cur>>
    BY <1>3 DEF BeginGate, launchVars, attemptVars
  <2>3. GoesOn(r) /\ (job'[r] = Idle \/ (job'[r].op = "gate" /\ job'[r].pc = "commit" /\ job'[r].to = "needs-input" /\ job'[r].old = head[r].status))
    BY <1>3, DoneGoesOn, CommitGoesOn DEF BeginGate
  <2> QED
    BY <2>1, <2>2, <2>3, QuietAdvance, DurableJob, IdleJob DEF Attaching
<1> QED
  BY <1>1, <1>2, <1>3

LEMMA AcknowledgeGoesOn ==
  ASSUME TypeOK, NEW r \in Runs, Acknowledge(r)
  PROVE  /\ GoesOn(r) /\ job'[r].op \in {"unpark", "replace"} /\ job'[r].pc = "commit"
         /\ job'[r].to \in {"running", "pausing"} /\ job'[r].old = head[r].status
<1>1. CASE Commit(r, "unpark", "running", cur[r], gate[r].id)
  BY <1>1, CommitGoesOn
<1>2. CASE Commit(r, "replace", "pausing", cur[r], gate[r].id)
  BY <1>2, CommitGoesOn
<1> QED
  BY <1>1, <1>2 DEF Acknowledge

(* While the supervisor is disposed nothing is attached. *)
LEMMA ReattachGoesOn ==
  ASSUME TypeOK, NEW r \in Runs, NEW rev, NEW old, Reattach(r, rev, old)
  PROVE  /\ GoesOn(r) /\ \A q \in Runs \ {r} : cur'[q] = cur[q]
         /\ \/ job'[r] = Idle /\ UNCHANGED cur
            \/ ~disposed /\ job'[r].op = "resume" /\ job'[r].pc = "commit" /\ job'[r].to = "running" /\ job'[r].old = old
<1>1. CASE Done(r) /\ UNCHANGED attemptVars
  BY <1>1, DoneGoesOn DEF attemptVars
<1>2. CASE ~Closed(r) /\ NewAttempt(r) /\ Suspend(r, [op |-> "resume", pc |-> "commit", to |-> "running",
                rev |-> rev, g |-> gen[r] + 1, id |-> 0, old |-> old])
  <2>1. /\ GoesOn(r) /\ job'[r] = [op |-> "resume", pc |-> "commit", to |-> "running",
                rev |-> rev, g |-> gen[r] + 1, id |-> 0, old |-> old]
    BY <1>2, SuspendGoesOn
  <2>2. cur' = [cur EXCEPT ![r] = gen[r] + 1] /\ ~disposed
    BY <1>2 DEF NewAttempt, Closed
  <2> QED
    BY <2>1, <2>2 DEF TypeOK, TypeAttempts
<1> QED
  BY <1>1, <1>2 DEF Reattach

LEMMA ResumeAdvances ==
  ASSUME TypeOK, RowInv, AbsentInv, NEW r \in Runs, NEW op \in {"resume", "raise"}, BeginResume(r, op)
  PROVE  Advances(r)
<1>1. /\ job[r].pc = "idle" /\ queue[r] # <<>> /\ queue' = [queue EXCEPT ![r] = Tail(@)]
      /\ Head(queue[r]).op # "teardown"
  BY DequeueHere DEF BeginResume
<1>2. UNCHANGED <<start, durableVars, closeVars, drainVars>>
  BY DEF BeginResume, launchVars
<1>3. CASE Done(r) /\ UNCHANGED attemptVars
  BY <1>1, <1>2, <1>3, DoneGoesOn, QuietAdvance, IdleJob DEF attemptVars
<1>4. CASE Acknowledge(r) /\ UNCHANGED cur
  <2>1. /\ GoesOn(r) /\ job'[r].op \in {"unpark", "replace"} /\ job'[r].pc = "commit"
        /\ job'[r].to \in {"running", "pausing"} /\ job'[r].old = head[r].status
    BY <1>4, AcknowledgeGoesOn
  <2> QED
    BY <1>1, <1>2, <1>4, <2>1, QuietAdvance, DurableJob DEF Attaching
<1>5. CASE Reattach(r, head[r].rev, head[r].status)
  <2>1. /\ GoesOn(r) /\ \A q \in Runs \ {r} : cur'[q] = cur[q]
        /\ \/ job'[r] = Idle /\ UNCHANGED cur
           \/ ~disposed /\ job'[r].op = "resume" /\ job'[r].pc = "commit" /\ job'[r].to = "running" /\ job'[r].old = head[r].status
    BY <1>5, ReattachGoesOn
  <2> QED
    BY <1>1, <1>2, <2>1, QuietAdvance, DurableJob, IdleJob
<1> QED
  BY <1>3, <1>4, <1>5 DEF BeginResume

LEMMA AnswerAdvances ==
  ASSUME TypeOK, RowInv, AbsentInv, NEW r \in Runs, BeginAnswer(r)
  PROVE  Advances(r)
<1>1. /\ job[r].pc = "idle" /\ queue[r] # <<>> /\ queue' = [queue EXCEPT ![r] = Tail(@)]
      /\ Head(queue[r]).op = "answer"
  BY DequeueHere DEF BeginAnswer
<1>2. UNCHANGED <<start, durableVars, closeVars, drainVars, cur>>
  BY DEF BeginAnswer, launchVars
<1>3. /\ GoesOn(r)
      /\ \/ job'[r] = Idle
         \/ /\ job'[r].op \in {"unpark", "replace"} /\ job'[r].pc = "commit"
            /\ job'[r].to \in {"running", "pausing"} /\ job'[r].old = head[r].status
  BY DoneGoesOn, AcknowledgeGoesOn DEF BeginAnswer
<1> QED
  BY <1>1, <1>2, <1>3, QuietAdvance, DurableJob, IdleJob DEF Attaching

LEMMA EventAdvances ==
  ASSUME TypeOK, RowInv, AbsentInv, NEW r \in Runs, BeginEvent(r)
  PROVE  Advances(r)
<1> DEFINE g == Head(queue[r]).g
<1>1. /\ job[r].pc = "idle" /\ queue[r] # <<>> /\ queue' = [queue EXCEPT ![r] = Tail(@)]
      /\ Head(queue[r]).op = "event"
  BY DequeueHere DEF BeginEvent
<1>2. UNCHANGED <<start, durableVars, closeVars, drainVars, cur>>
  BY DEF BeginEvent, launchVars
<1>3. /\ GoesOn(r)
      /\ \/ job'[r] = Idle
         \/ job'[r].op = "event" /\ job'[r].pc = "commit" /\ job'[r].to = head[r].status /\ job'[r].old = head[r].status
  <2>1. CASE Done(r)
    BY <2>1, DoneGoesOn
  <2>2. CASE Commit(r, "event", head[r].status, g, 0)
    BY <2>2, CommitGoesOn
  <2> QED
    BY <2>1, <2>2 DEF BeginEvent
<1> QED
  BY <1>1, <1>2, <1>3, QuietAdvance, DurableJob, IdleJob DEF Attaching

LEMMA SettleAdvances ==
  ASSUME TypeOK, RowInv, AbsentInv, NEW r \in Runs, BeginSettle(r)
  PROVE  Advances(r)
<1> DEFINE g  == Head(queue[r]).g
           to == SettledAs(engine[r][g].out, engine[r][g].intent)
<1>1. /\ job[r].pc = "idle" /\ queue[r] # <<>> /\ queue' = [queue EXCEPT ![r] = Tail(@)]
      /\ Head(queue[r]).op = "settle"
  BY DequeueHere DEF BeginSettle
<1>2. /\ UNCHANGED <<start, durableVars, closeVars, drainVars>>
      /\ cur' = cur \/ cur' = [cur EXCEPT ![r] = 0]
  BY DEF BeginSettle, launchVars
<1>3. to # "absent"
  BY DEF SettledAs
<1>4. /\ GoesOn(r)
      /\ \/ job'[r] = Idle
         \/ job'[r].op = "settle" /\ job'[r].pc = "drain"
         \/ job'[r].op = "settle" /\ job'[r].pc = "commit" /\ job'[r].to = to /\ job'[r].old = head[r].status
  <2>1. CASE Done(r)
    BY <2>1, DoneGoesOn
  <2>2. CASE Terminalize(r, "settle", to, g)
    BY <2>2, TerminalizeGoesOn
  <2>3. CASE Commit(r, "settle", to, g, 0)
    BY <2>3, CommitGoesOn
  <2> QED
    BY <2>1, <2>2, <2>3 DEF BeginSettle
<1>5. \A q \in Runs \ {r} : cur'[q] = cur[q]
  BY <1>2 DEF TypeOK, TypeAttempts
<1>6. cur'[r] \in {0, cur[r]}
  BY <1>2 DEF TypeOK, TypeAttempts
<1> HIDE DEF to
<1> QED
  BY <1>1, <1>2, <1>3, <1>4, <1>5, <1>6, QuietAdvance, DurableJob, IdleJob DEF Attaching

LEMMA TerminalAdvances ==
  ASSUME TypeOK, RowInv, AbsentInv, NEW r \in Runs, BeginTerminal(r)
  PROVE  Advances(r)
<1>1. /\ job[r].pc = "idle" /\ queue[r] # <<>> /\ queue' = [queue EXCEPT ![r] = Tail(@)]
  BY DequeueHere DEF BeginTerminal
<1>2. UNCHANGED <<start, durableVars, closeVars, drainVars, cur>>
  BY DEF BeginTerminal, launchVars, attemptVars
<1>3. CASE Terminalize(r, "teardown", "interrupted", 0)
  <2>1. GoesOn(r) /\ (\/ Terminal(r) /\ job'[r] = Idle
                      \/ job'[r].op = "teardown" /\ job'[r].pc = "drain")
    BY <1>3, TerminalizeGoesOn
  <2> QED
    BY <1>1, <1>2, <2>1, QuietAdvance, IdleJob DEF Attaching
<1>4. CASE Ready(r, "failStart") /\ Terminalize(r, "failStart", "failed", 0)
  <2>1. GoesOn(r) /\ (\/ Terminal(r) /\ job'[r] = Idle
                      \/ job'[r].op = "failStart" /\ job'[r].pc = "drain")
    BY <1>4, TerminalizeGoesOn
  <2>2. Head(queue[r]).op = "failStart"
    BY <1>4 DEF Ready
  <2> QED
    BY <1>1, <1>2, <2>1, <2>2, QuietAdvance, IdleJob DEF Attaching
<1> QED
  BY <1>3, <1>4 DEF BeginTerminal

LEMMA QuiescedAdvances ==
  ASSUME TypeOK, RowInv, AbsentInv, SettleInv, NEW r \in Runs, AttemptQuiesced(r)
  PROVE  Advances(r)
<1> DEFINE j == job[r]
<1>1. job[r].pc = "quiesce" /\ UNCHANGED queue
  BY DEF AttemptQuiesced
<1>2. /\ UNCHANGED <<start, durableVars, closeVars, drainVars>>
      /\ cur' = cur \/ cur' = [cur EXCEPT ![r] = 0]
  BY DEF AttemptQuiesced, launchVars
<1>3. /\ GoesOn(r)
      /\ \/ job'[r] = Idle
         \/ job'[r].op = j.op /\ job'[r].pc = "drain"
         \/ job'[r].op = j.op /\ job'[r].pc = "commit" /\ job'[r].to = "paused" /\ job'[r].old = head[r].status
  <2>1. CASE Done(r)
    BY <2>1, DoneGoesOn
  <2>2. CASE Terminalize(r, j.op, "failed", 0) \/ (j.op = "stop" /\ Terminalize(r, "stop", "cancelled", 0))
    BY <2>2, TerminalizeGoesOn
  <2>3. CASE Commit(r, j.op, "paused", 0, 0)
    BY <2>3, CommitGoesOn
  <2> QED
    BY <2>1, <2>2, <2>3 DEF AttemptQuiesced
<1>4. \A q \in Runs \ {r} : cur'[q] = cur[q]
  BY <1>2 DEF TypeOK, TypeAttempts
<1>5. cur'[r] \in {0, cur[r]}
  BY <1>2 DEF TypeOK, TypeAttempts
<1>6. job[r].op # "teardown"
  BY <1>1 DEF SettleInv
<1> QED
  BY <1>1, <1>2, <1>3, <1>4, <1>5, <1>6, QuietAdvance, DurableJob, IdleJob DEF Attaching

LEMMA RollbackAdvances ==
  ASSUME TypeOK, RowInv, AbsentInv, SettleInv, NEW r \in Runs, RollbackQuiesced(r)
  PROVE  Advances(r)
<1>1. job[r].pc = "rollback" /\ UNCHANGED queue
  BY DEF RollbackQuiesced
<1>2. UNCHANGED <<start, durableVars, closeVars, drainVars, cur>>
  BY DEF RollbackQuiesced, launchVars, attemptVars
<1>3. /\ GoesOn(r)
      /\ \/ job'[r] = Idle
         \/ job'[r].op = "restore" /\ job'[r].pc = "commit" /\ job'[r].to = job[r].old /\ job'[r].old = head[r].status
  <2>1. CASE Done(r)
    BY <2>1, DoneGoesOn
  <2>2. CASE Commit(r, "restore", job[r].old, 0, 0)
    BY <2>2, CommitGoesOn
  <2> QED
    BY <2>1, <2>2 DEF RollbackQuiesced
<1>4. job[r].op # "teardown" /\ Attaching(job[r]) /\ job[r].old # "absent"
  BY <1>1 DEF SettleInv, RowInv, Attaching
<1> QED
  BY <1>1, <1>2, <1>3, <1>4, QuietAdvance, DurableJob, IdleJob

LEMMA DrainedAdvances ==
  ASSUME TypeOK, RowInv, AbsentInv, NEW r \in Runs, Drained(r)
  PROVE  Advances(r)
<1>1. job[r].pc = "drain" /\ UNCHANGED queue
  BY DEF Drained
<1>2. UNCHANGED <<start, durableVars, closeVars, drainVars, cur>>
  BY DEF Drained, launchVars, attemptVars
<1> DEFINE step == [job[r] EXCEPT !.pc = "claim", !.rev = head[r].rev]
<1>3. step.pc = "claim" /\ step.op = job[r].op
  BY DEF TypeOK, TypeJob, JobRecord
<1>4. Suspend(r, step)
  BY DEF Drained
<1> HIDE DEF step
<1>5. GoesOn(r) /\ job'[r].pc = "claim" /\ job'[r].op = job[r].op
  BY <1>3, <1>4, SuspendGoesOn
<1> QED
  BY <1>1, <1>2, <1>5, QuietAdvance DEF Attaching

(* terminalize ends with the run settled or with its failure recorded. *)
LEMMA TerminalizeReports ==
  ASSUME TypeOK, RowInv, NEW r \in Runs, NEW rev, NEW to \in TERMINAL, TerminalSettles(r, rev, to),
         head[r].status # "absent", \A q \in Runs \ {r} : job'[q] = job[q],
         job'[r] = job[r] \/ job'[r] = Idle
  PROVE  /\ \A q \in Runs \ {r} : /\ head'[q] = head[q] /\ row'[q] = row[q]
                                  /\ failure'[q] = failure[q] /\ delivery'[q] = delivery[q]
         /\ Steady(r) /\ Reported(r)' /\ RowInv'
<1>0. to # "absent"
  BY DEF TERMINAL
<1>1. PICK res \in Results(r, rev) :
        /\ Write(r, res, to, "claimed")
        /\ \/ /\ res = "ok"
              /\ head' = [head EXCEPT ![r] = [status |-> to, rev |-> rev + 1]]
              /\ delivery' = [delivery EXCEPT ![r] = TRUE]
              /\ failure' = [failure EXCEPT ![r] = FALSE]
           \/ /\ res # "ok"
              /\ failure' = [failure EXCEPT ![r] = TRUE]
              /\ UNCHANGED <<head, delivery>>
  BY DEF TerminalSettles
<1>2. /\ \A q \in Runs \ {r} : /\ head'[q] = head[q] /\ row'[q] = row[q]
                               /\ failure'[q] = failure[q] /\ delivery'[q] = delivery[q]
      /\ row'[r].status = to \/ row'[r] = row[r]
      /\ \/ head'[r].status = to /\ row'[r].status = to
         \/ head'[r] = head[r] /\ failure'[r]
  BY <1>1 DEF Write, TypeOK, TypeDurable
<1>3. Steady(r) /\ Reported(r)'
  BY <1>0, <1>2 DEF Steady, Reported, Terminal, Durable
<1>4. RowInv'
  BY <1>0, <1>2, IdleJob DEF RowInv, Terminal, Durable
<1> QED
  BY <1>2, <1>3, <1>4

LEMMA SettledAdvances ==
  ASSUME TypeOK, AttemptInv, RowInv, AbsentInv, NEW r \in Runs, TerminalSettled(r)
  PROVE  Advances(r)
<1>1. /\ job[r].pc = "claim" /\ UNCHANGED queue /\ UNCHANGED <<start, closeVars, drainVars, cur>>
      /\ TerminalSettles(r, job[r].rev, job[r].to)
  BY DEF TerminalSettled, launchVars, attemptVars
<1>2. GoesOn(r) /\ job'[r] = Idle
  BY DoneGoesOn DEF TerminalSettled
<1>3. job[r].to \in TERMINAL /\ head[r].status # "absent"
  BY <1>1, DurableJob DEF AttemptInv, ParkedInv
<1>4. \A q \in Runs \ {r} : job'[q] = job[q]
  BY <1>2 DEF GoesOn
<1>5. /\ \A q \in Runs \ {r} : /\ head'[q] = head[q] /\ row'[q] = row[q]
                               /\ failure'[q] = failure[q] /\ delivery'[q] = delivery[q]
      /\ Steady(r) /\ Reported(r)' /\ RowInv'
  BY <1>1, <1>2, <1>3, <1>4, TerminalizeReports
<1>6. Aside(r)
  BY <1>1, <1>5 DEF Aside, closeVars, drainVars
<1>7. Onward(r)
  BY <1>1, <1>2, <1>5, IdleJob DEF Onward
<1> QED
  BY <1>1, <1>5, <1>6, <1>7 DEF Advances

(* The continuation of a commit: dispose finds nothing new attached. *)
Continued(r) ==
  /\ GoesOn(r)
  /\ \A q \in Runs \ {r} : cur'[q] = cur[q]
  /\ disposed => cur'[r] \in {0, cur[r]}
  /\ \/ job'[r] = Idle
     \/ job'[r].op = job[r].op /\ job'[r].pc \in {"quiesce", "drain"}
     \/ job'[r].op = job[r].op /\ job'[r].pc = "rollback" /\ job'[r].old = job[r].old /\ Attaching(job[r])
     \/ job'[r].op = "restore" /\ job'[r].pc = "rollback" /\ job'[r].old = job[r].old /\ Attaching(job[r])
     \/ ~disposed /\ job'[r].op = "resume" /\ job'[r].pc = "commit" /\ job'[r].to = "running" /\ job'[r].old = "paused"

LEMMA CommittedContinues ==
  ASSUME TypeOK, NEW r \in Runs, Committed(r), job[r].pc = "commit"
  PROVE  Continued(r)
<1> DEFINE j == job[r]
<1>1. job[r] \in JobRecord
  BY JobFields DEF TypeOK
<1>2. CASE Suspend(r, [j EXCEPT !.pc = "quiesce"]) /\ UNCHANGED cur
  <2>1. [j EXCEPT !.pc = "quiesce"].pc = "quiesce" /\ [j EXCEPT !.pc = "quiesce"].op = j.op
    BY <1>1 DEF JobRecord
  <2> HIDE DEF j
  <2>2. GoesOn(r) /\ job'[r] = [j EXCEPT !.pc = "quiesce"]
    BY <1>2, <2>1, SuspendGoesOn
  <2> QED
    BY <1>2, <2>1, <2>2 DEF Continued, j
<1>3. CASE Reattach(r, j.rev + 1, "paused")
  <2>1. /\ GoesOn(r) /\ \A q \in Runs \ {r} : cur'[q] = cur[q]
        /\ \/ job'[r] = Idle /\ UNCHANGED cur
           \/ ~disposed /\ job'[r].op = "resume" /\ job'[r].pc = "commit" /\ job'[r].to = "running" /\ job'[r].old = "paused"
    BY <1>3, ReattachGoesOn
  <2> QED
    BY <2>1 DEF Continued
<1>4. CASE Done(r) /\ UNCHANGED cur
  BY <1>4, DoneGoesOn DEF Continued
<1>5. CASE j.op = "resume" /\ cur' = [cur EXCEPT ![r] = 0] /\ Suspend(r, [j EXCEPT !.op = "restore", !.pc = "rollback"])
  <2>1. /\ [j EXCEPT !.op = "restore", !.pc = "rollback"].pc = "rollback"
        /\ [j EXCEPT !.op = "restore", !.pc = "rollback"].op = "restore"
        /\ [j EXCEPT !.op = "restore", !.pc = "rollback"].old = j.old
    BY <1>1 DEF JobRecord
  <2> HIDE DEF j
  <2>2. GoesOn(r) /\ job'[r] = [j EXCEPT !.op = "restore", !.pc = "rollback"]
    BY <1>5, <2>1, SuspendGoesOn
  <2>3. cur'[r] = 0 /\ \A q \in Runs \ {r} : cur'[q] = cur[q]
    BY <1>5 DEF TypeOK, TypeAttempts
  <2> QED
    BY <1>5, <2>1, <2>2, <2>3 DEF Continued, j, Attaching
<1> QED
  BY <1>2, <1>3, <1>4, <1>5 DEF Committed, attemptVars

LEMMA NotCommittedContinues ==
  ASSUME TypeOK, NEW r \in Runs, NotCommitted(r), job[r].pc = "commit"
  PROVE  Continued(r) /\ failure'[r] \in {failure[r], TRUE} /\ \A q \in Runs \ {r} : failure'[q] = failure[q]
<1> DEFINE j == job[r]
<1>1. job[r] \in JobRecord
  BY JobFields DEF TypeOK
<1>2. CASE /\ j.op = "resume" /\ cur' = [cur EXCEPT ![r] = 0]
           /\ Suspend(r, [j EXCEPT !.pc = "rollback"]) /\ UNCHANGED failure
  <2>1. /\ [j EXCEPT !.pc = "rollback"].pc = "rollback" /\ [j EXCEPT !.pc = "rollback"].op = j.op
        /\ [j EXCEPT !.pc = "rollback"].old = j.old
    BY <1>1 DEF JobRecord
  <2> HIDE DEF j
  <2>2. GoesOn(r) /\ job'[r] = [j EXCEPT !.pc = "rollback"]
    BY <1>2, <2>1, SuspendGoesOn
  <2>3. cur'[r] = 0 /\ \A q \in Runs \ {r} : cur'[q] = cur[q]
    BY <1>2 DEF TypeOK, TypeAttempts
  <2> QED
    BY <1>2, <2>1, <2>2, <2>3 DEF Continued, j, Attaching
<1>3. CASE j.op = "restore" /\ Terminalize(r, "restore", "failed", 0) /\ UNCHANGED <<attemptVars, failure>>
  <2>1. /\ GoesOn(r)
        /\ job'[r] = Idle \/ (job'[r].op = "restore" /\ job'[r].pc = "drain")
    BY <1>3, TerminalizeGoesOn
  <2> QED
    BY <1>3, <2>1 DEF Continued, attemptVars
<1>4. CASE failure' = [failure EXCEPT ![r] = @ \/ j.op = "settle"] /\ Done(r) /\ UNCHANGED attemptVars
  <2>1. Continued(r)
    BY <1>4, DoneGoesOn DEF Continued, attemptVars
  <2>2. failure'[r] = (failure[r] \/ j.op = "settle") /\ \A q \in Runs \ {r} : failure'[q] = failure[q]
    BY <1>4 DEF TypeOK, TypeDurable
  <2>3. failure[r] \in BOOLEAN
    BY DEF TypeOK, TypeDurable
  <2> QED
    BY <2>1, <2>2, <2>3
<1> QED
  BY <1>2, <1>3, <1>4 DEF NotCommitted

LEMMA CommitAdvances ==
  ASSUME TypeOK, RowInv, AbsentInv, SettleInv, NEW r \in Runs, CommitSettles(r)
  PROVE  Advances(r)
<1> DEFINE j == job[r]
<1>1. /\ j.pc = "commit" /\ UNCHANGED <<queue, start, closeVars, drainVars, delivery>>
      /\ j.op # "teardown" /\ j.to # "absent" /\ j.old # "absent" /\ head[r].status # "absent"
  BY DurableJob DEF CommitSettles, SettleInv, RowInv, launchVars
<1>2. /\ Continued(r)
      /\ failure'[r] \in {failure[r], TRUE} /\ \A q \in Runs \ {r} : failure'[q] = failure[q]
  <2>1. CASE Committed(r) /\ UNCHANGED failure
    BY <1>1, <2>1, CommittedContinues
  <2>2. CASE NotCommitted(r)
    BY <1>1, <2>2, NotCommittedContinues
  <2> QED
    BY <2>1, <2>2 DEF CommitSettles
<1>3. /\ \A q \in Runs \ {r} : head'[q] = head[q] /\ row'[q] = row[q]
      /\ \/ row'[r] = row[r] /\ head'[r] = head[r]
         \/ ~Terminal(r) /\ row'[r].status = j.to /\ (head'[r].status = j.to \/ head'[r] = head[r])
  <2>1. CASE UNCHANGED <<head, row>>
    BY <2>1
  <2>2. CASE /\ ~Terminal(r)
             /\ row'  = [row  EXCEPT ![r].status = j.to, ![r].rev = j.rev + 1]
             /\ head' = [head EXCEPT ![r] = [status |-> j.to, rev |-> j.rev + 1]]
    BY <2>2 DEF TypeOK, TypeDurable
  <2>3. CASE /\ ~Terminal(r) /\ UNCHANGED head
             /\ \E res \in Results(r, j.rev) \ {"ok"} : Write(r, res, j.to, row[r].notice)
    BY <2>3 DEF Write, TypeOK, TypeDurable
  <2> QED
    BY <2>1, <2>2, <2>3 DEF CommitSettles
<1> HIDE DEF j
<1>4. Steady(r)
  BY <1>1, <1>2, <1>3 DEF Steady, Terminal, Reported, Durable
<1>5. Aside(r)
  BY <1>1, <1>2, <1>3 DEF Aside, Continued, closeVars, drainVars
<1>6. Onward(r)
  BY <1>1, <1>2, IdleJob DEF Onward, Continued, Attaching, j
<1>7. RowInv'
  <2>1. \A q \in Runs \ {r} : job'[q] = job[q]
    BY <1>2 DEF Continued, GoesOn
  <2>2. job'[r].pc = "commit" => job'[r].to # "absent"
    BY <1>2, IdleJob DEF Continued
  <2>3. job'[r].pc \in {"commit", "rollback"} => job'[r].old # "absent"
    BY <1>1, <1>2, IdleJob DEF Continued, j
  <2> QED
    BY <1>1, <1>3, <2>1, <2>2, <2>3 DEF RowInv, Terminal, Durable
<1> QED
  BY <1>2, <1>4, <1>5, <1>6, <1>7 DEF Advances, Continued

LEMMA QueueAdvances ==
  ASSUME TypeOK, AttemptInv, RowInv, AbsentInv, SettleInv, NEW r \in Runs, QueueStep(r)
  PROVE  Advances(r)
BY ControlAdvances, ResumeAdvances, AnswerAdvances, EventAdvances, SettleAdvances, TerminalAdvances,
   QuiescedAdvances, RollbackAdvances, DrainedAdvances, SettledAdvances, CommitAdvances DEF QueueStep
-----------------------------------------------------------------------------
(* What an operation of the queue does to the attempts: it attaches one that has
   not ended, or leaves them as they were, and the settlement of the current one
   drops it. *)
SettlesCurrent(r) == Head(queue[r]).op = "settle" /\ Head(queue[r]).g = cur[r]
Renews(r) ==
  /\ \/ EngineAlike /\ UNCHANGED gen /\ cur'[r] \in {0, cur[r]}
     \/ /\ \A q \in Runs \ {r} : gen'[q] = gen[q] /\ engine'[q] = engine[q]
        /\ engine'[r][cur'[r]].st \in {"inert", "withdrawn"}
  /\ job[r].pc = "idle" /\ SettlesCurrent(r) => cur'[r] = 0 \/ engine'[r][cur'[r]].st \in {"inert", "withdrawn"}

LEMMA NewBorn ==
  ASSUME TypeOK, NEW r \in Runs, NewAttempt(r)
  PROVE  engine'[r][cur'[r]].st \in {"inert", "withdrawn"}
<1>1. gen[r] \in 0 .. MaxAttempts /\ gen[r] < MaxAttempts
  BY DEF NewAttempt, TypeOK, TypeAttempts
<1>2. gen[r] + 1 \in Gens
  BY <1>1, Bounds DEF Gens
<1>3. PICK st \in {"withdrawn", "inert"} :
        engine' = [engine EXCEPT ![r][gen[r] + 1] = [st |-> st, intent |-> "running", out |-> "none"]]
  BY DEF NewAttempt
<1>4. cur'[r] = gen[r] + 1
  BY DEF NewAttempt, TypeOK, TypeAttempts
<1>5. engine'[r][gen[r] + 1].st = st
  BY <1>2, <1>3 DEF TypeOK, TypeAttempts
<1> QED
  BY <1>4, <1>5

LEMMA NewAttemptRenews ==
  ASSUME TypeOK, NEW r \in Runs, NewAttempt(r)
  PROVE  Renews(r)
BY NewBorn DEF NewAttempt, Renews, TypeOK, TypeAttempts

LEMMA KeptRenews ==
  ASSUME TypeOK, NEW r \in Runs, EngineAlike, UNCHANGED gen,
         \/ UNCHANGED cur /\ ~(job[r].pc = "idle" /\ SettlesCurrent(r))
         \/ cur' = [cur EXCEPT ![r] = 0]
  PROVE  Renews(r)
BY DEF Renews, TypeOK, TypeAttempts

LEMMA BeginRenews ==
  ASSUME TypeOK, NEW r \in Runs,
         \/ BeginPause(r) \/ BeginStop(r) \/ BeginResume(r, "resume") \/ BeginResume(r, "raise")
         \/ BeginAnswer(r) \/ BeginGate(r) \/ BeginEvent(r) \/ BeginSettle(r) \/ BeginTerminal(r)
  PROVE  Renews(r)
<1> USE DEF TypeOK
<1>a. ASSUME NEW op, op # "settle", Ready(r, op) PROVE ~SettlesCurrent(r)
  BY <1>a DEF Ready, SettlesCurrent
<1>b. Acknowledge(r) => EngineAlike
  BY AlikeUnchanged, AlikeStep DEF Acknowledge
<1>1. CASE BeginPause(r)
  <2>1. EngineAlike
    BY <1>1, AlikeUnchanged, AlikeStep DEF BeginPause
  <2> QED
    BY <1>a, <1>1, <2>1, KeptRenews DEF BeginPause
<1>2. CASE BeginStop(r)
  <2>1. EngineAlike
    BY <1>2, AlikeUnchanged, AlikeStep DEF BeginStop
  <2> QED
    BY <1>a, <1>2, <2>1, KeptRenews DEF BeginStop
<1>3. ASSUME NEW op \in {"resume", "raise"}, BeginResume(r, op) PROVE Renews(r)
  <2>1. ~SettlesCurrent(r)
    BY <1>a, <1>3 DEF BeginResume
  <2>2. CASE UNCHANGED attemptVars
    BY <2>1, <2>2, AlikeUnchanged, KeptRenews DEF attemptVars
  <2>3. CASE Acknowledge(r) /\ UNCHANGED <<gen, cur>>
    BY <1>b, <2>1, <2>3, KeptRenews
  <2>4. CASE NewAttempt(r)
    BY <2>4, NewAttemptRenews
  <2> QED
    BY <1>3, <2>2, <2>3, <2>4 DEF BeginResume, Reattach
<1>4. CASE BeginAnswer(r)
  <2>1. EngineAlike
    BY <1>b, <1>4, AlikeUnchanged DEF BeginAnswer
  <2> QED
    BY <1>a, <1>4, <2>1, KeptRenews DEF BeginAnswer
<1>5. CASE BeginGate(r) \/ BeginTerminal(r)
  BY <1>a, <1>5, AlikeUnchanged, KeptRenews DEF BeginGate, BeginTerminal, attemptVars
<1>6. CASE BeginEvent(r)
  <2>1. EngineAlike
    BY <1>6, AlikeUnchanged, AlikeStep DEF BeginEvent
  <2> QED
    BY <1>a, <1>6, <2>1, KeptRenews DEF BeginEvent
<1>7. CASE BeginSettle(r)
  <2>1. UNCHANGED <<gen, engine>>
    BY <1>7 DEF BeginSettle
  <2>2. \/ UNCHANGED cur /\ ~SettlesCurrent(r)
        \/ cur' = [cur EXCEPT ![r] = 0]
    BY <1>7 DEF BeginSettle, SettlesCurrent, Current
  <2> QED
    BY <2>1, <2>2, AlikeUnchanged, KeptRenews
<1> QED
  BY <1>1, <1>2, <1>3, <1>4, <1>5, <1>6, <1>7

LEMMA ContinueRenews ==
  ASSUME TypeOK, NEW r \in Runs,
         \/ AttemptQuiesced(r) \/ CommitSettles(r) \/ RollbackQuiesced(r)
         \/ Drained(r) \/ TerminalSettled(r)
  PROVE  Renews(r)
<1> USE DEF TypeOK
<1>1. CASE AttemptQuiesced(r)
  <2>1. UNCHANGED <<gen, engine>> /\ (UNCHANGED cur \/ cur' = [cur EXCEPT ![r] = 0])
        /\ job[r].pc # "idle"
    BY <1>1 DEF AttemptQuiesced
  <2> QED
    BY <2>1, AlikeUnchanged, KeptRenews
<1>2. CASE CommitSettles(r)
  <2>1. job[r].pc # "idle"
    BY <1>2 DEF CommitSettles
  <2>2. CASE Committed(r)
    <3>1. \/ UNCHANGED attemptVars
          \/ NewAttempt(r)
          \/ /\ UNCHANGED gen /\ (UNCHANGED cur \/ cur' = [cur EXCEPT ![r] = 0])
             /\ \/ engine' = [engine EXCEPT ![r][job[r].g] = Cancelled(@)]
                \/ engine' = [engine EXCEPT ![r][job[r].g] = Released(@)]
      BY <2>2 DEF Committed, Reattach
    <3>2. CASE NewAttempt(r)
      BY <3>2, NewAttemptRenews
    <3>3. CASE ~NewAttempt(r)
      <4>1. /\ EngineAlike /\ UNCHANGED gen /\ (UNCHANGED cur \/ cur' = [cur EXCEPT ![r] = 0])
        BY <3>1, <3>3, AlikeUnchanged, AlikeStep DEF attemptVars
      <4> QED
        BY <2>1, <4>1, KeptRenews
    <3> QED
      BY <3>2, <3>3
  <2>3. CASE NotCommitted(r)
    <3>1. \/ UNCHANGED attemptVars
          \/ /\ UNCHANGED gen /\ cur' = [cur EXCEPT ![r] = 0]
             /\ engine' = [engine EXCEPT ![r][job[r].g] = Cancelled(@)]
      BY <2>3 DEF NotCommitted
    <3>2. /\ EngineAlike /\ UNCHANGED gen /\ (UNCHANGED cur \/ cur' = [cur EXCEPT ![r] = 0])
      BY <3>1, AlikeUnchanged, AlikeStep DEF attemptVars
    <3> QED
      BY <2>1, <3>2, KeptRenews
  <2> QED
    BY <1>2, <2>2, <2>3 DEF CommitSettles
<1>3. CASE RollbackQuiesced(r) \/ Drained(r) \/ TerminalSettled(r)
  <2>1. UNCHANGED <<gen, engine, cur>> /\ job[r].pc # "idle"
    BY <1>3 DEF RollbackQuiesced, Drained, TerminalSettled, attemptVars
  <2> QED
    BY <2>1, AlikeUnchanged, KeptRenews
<1> QED
  BY <1>1, <1>2, <1>3
-----------------------------------------------------------------------------
(* A step undoes nothing that dispose counts on. *)
Counted ==
  /\ UNCHANGED <<disposal, direct, firstError>>
  /\ disposal # "none" => UNCHANGED <<disposed, admission>>
  /\ disposal \notin {"none", "pending"} =>
       \A q \in Runs :
         /\ Pending(q)' => Pending(q)
         /\ Known(q)' => Known(q)
         /\ Terminal(q) => Terminal(q)'
         /\ Reported(q) => Reported(q)'
         /\ Reported(q) \/ Waiting(q) => (Reported(q) \/ Waiting(q))'
         /\ cur'[q] \in {0, cur[q]} /\ awaited'[Sup][q] = awaited[Sup][q]
         /\ Attaching(job'[q]) => Attaching(job[q]) /\ ahead'[Sup][q] = ahead[Sup][q]

LEMMA CountedKeeps ==
  ASSUME TypeOK, DisposeInv, Counted
  PROVE  DisposeInv'
<1>1. CASE disposal \in {"none", "pending"}
  BY <1>1 DEF DisposeInv, Counted, Swept, Detached
<1>2. CASE disposal \notin {"none", "pending"}
  <2>1. direct \subseteq Runs /\ disposed' /\ ~admission' /\ \A q \in Runs : ~Pending(q)'
    BY <1>2 DEF DisposeInv, Counted, TypeOK, TypeDrain
  <2>2. disposal = "direct" => \A q \in direct : (Reported(q) \/ Waiting(q))'
    BY <1>2, <2>1 DEF DisposeInv, Counted
  <2>3. disposal \in Swept => \A q \in direct : Reported(q)'
    BY <1>2, <2>1 DEF DisposeInv, Counted
  <2>4. KnownRuns' \subseteq KnownRuns /\ KnownRuns \subseteq Runs
    BY <1>2 DEF Counted, KnownRuns
  <2>5. disposal = "drain" => \A q \in KnownRuns' :
          cur'[q] \in {0, awaited'[Sup][q]} /\ (Attaching(job'[q]) => ahead'[Sup][q] > 0)
    BY <1>2, <2>4 DEF DisposeInv, Counted
  <2>6. disposal \in Detached => \A q \in KnownRuns' : cur'[q] = 0 /\ ~Attaching(job'[q])
    BY <1>2, <2>4 DEF DisposeInv, Counted
  <2>7. disposal = "retry" => \A q \in KnownRuns' : (Reported(q) \/ Waiting(q))'
    BY <1>2, <2>4 DEF DisposeInv, Counted
  <2>8. disposal \in {"final", "done"} => \A q \in KnownRuns' : Reported(q)'
    BY <1>2, <2>4 DEF DisposeInv, Counted
  <2>9. disposal \in {"final", "done"} => firstError' \/ \A q \in KnownRuns' : Terminal(q)'
    BY <1>2, <2>4 DEF DisposeInv, Counted
  <2>a. UNCHANGED <<disposal, direct>>
    BY DEF Counted
  <2> QED
    BY <1>2, <2>1, <2>2, <2>3, <2>5, <2>6, <2>7, <2>8, <2>9, <2>a DEF DisposeInv
<1> QED
  BY <1>1, <1>2

LEMMA AdvancesDurable ==
  ASSUME RowInv, AbsentInv, NEW r \in Runs, Advances(r)
  PROVE  Durable(r) /\ Durable(r)' /\ \A q \in Runs \ {r} : Durable(q)' <=> Durable(q)
<1>1. job[r].pc # "idle" \/ queue[r] # <<>>
  BY DEF Advances, Onward
<1>2. Durable(r)
  BY <1>1, DurableJob
<1>3. Durable(r) => Durable(r)'
  BY DEF Advances, Steady
<1>4. \A q \in Runs \ {r} : row'[q] = row[q]
  BY DEF Advances, Aside
<1> QED
  BY <1>2, <1>3, <1>4 DEF Durable

LEMMA AdvancesAbsent ==
  ASSUME TypeOK, RowInv, AbsentInv, NEW r \in Runs, Advances(r), Renews(r)
  PROVE  AbsentInv'
<1>1. Durable(r) /\ Durable(r)' /\ \A q \in Runs \ {r} : Durable(q)' <=> Durable(q)
  BY AdvancesDurable
<1>2. \A q \in Runs \ {r} : /\ queue'[q] = queue[q] /\ job'[q] = job[q]
                            /\ gen'[q] = gen[q] /\ delivery'[q] = delivery[q]
  <2>1. \A q \in Runs \ {r} : queue'[q] = queue[q]
    BY DEF Advances, Onward, TypeOK, TypeQueue
  <2>2. \A q \in Runs \ {r} : job'[q] = job[q] /\ delivery'[q] = delivery[q]
    BY DEF Advances, Onward, GoesOn, Aside
  <2>3. \A q \in Runs \ {r} : gen'[q] = gen[q]
    BY DEF Renews
  <2> QED
    BY <2>1, <2>2, <2>3
<1>3. UNCHANGED <<start, drain>>
  BY DEF Advances, Aside
<1>4. \A a \in Agents : drain[a].todo \subseteq Runs
  BY DEF TypeOK, TypeDrain
<1> QED
  BY <1>1, <1>2, <1>3, <1>4 DEF AbsentInv

LEMMA SettleStays ==
  ASSUME NEW q \in Seq(OpRecord), NEW g, HasSettle(q, g), q # <<>>,
         ~(Head(q).op = "settle" /\ Head(q).g = g)
  PROVE  HasSettle(Tail(q), g)
<1>1. PICK i \in DOMAIN q : q[i].op = "settle" /\ q[i].g = g
  BY DEF HasSettle
<1>2. i - 1 \in DOMAIN Tail(q) /\ Tail(q)[i - 1] = q[i]
  BY <1>1
<1> QED
  BY <1>1, <1>2 DEF HasSettle

LEMMA SettleAppended ==
  ASSUME NEW q \in Seq(OpRecord), NEW g, HasSettle(q, g), NEW op \in OpRecord
  PROVE  HasSettle(Append(q, op), g)
<1>1. \A i \in DOMAIN q : i \in DOMAIN Append(q, op) /\ Append(q, op)[i] = q[i]
  OBVIOUS
<1> QED
  BY <1>1 DEF HasSettle

(* The first part of SettleInv, of one run. *)
Announced(e, c, q) == c # 0 => e[c].st # "unborn" /\ (e[c].st = "quiescent" => HasSettle(q, c))

LEMMA AnnouncedAlike ==
  ASSUME TypeOK, TypeOK', NEW q \in Runs, EngineAlike, cur'[q] \in {0, cur[q]},
         Announced(engine[q], cur[q], queue[q]),
         cur'[q] # 0 => (HasSettle(queue[q], cur[q]) => HasSettle(queue'[q], cur[q]))
  PROVE  Announced(engine'[q], cur'[q], queue'[q])
<1>1. cur[q] # 0 => cur[q] \in Gens
  BY Bounds DEF TypeOK, TypeAttempts, Gens
<1>2. cur[q] # 0 => /\ engine'[q][cur[q]].st = "quiescent" <=> engine[q][cur[q]].st = "quiescent"
                    /\ engine'[q][cur[q]].st = "unborn" <=> engine[q][cur[q]].st = "unborn"
  BY <1>1 DEF EngineAlike, Alike
<1> QED
  BY <1>2 DEF Announced

LEMMA AdvancesSettle ==
  ASSUME TypeOK, TypeOK', SettleInv, NEW r \in Runs, Advances(r), Renews(r)
  PROVE  SettleInv'
<1>1. /\ \A q \in Runs \ {r} : queue'[q] = queue[q]
      /\ \/ job[r].pc = "idle" /\ queue[r] # <<>> /\ queue'[r] = Tail(queue[r])
         \/ job[r].pc # "idle" /\ queue'[r] = queue[r]
  BY DEF Advances, Onward, TypeOK, TypeQueue
<1>2. \A q \in Runs \ {r} : job'[q] = job[q] /\ cur'[q] = cur[q]
  BY DEF Advances, Onward, GoesOn, Aside
<1>3. \A q \in Runs : Announced(engine[q], cur[q], queue[q])
  BY DEF SettleInv, Announced
<1>4. \A q \in Runs : Announced(engine'[q], cur'[q], queue'[q])
  <2>1. CASE EngineAlike /\ cur'[r] \in {0, cur[r]}
    <3>1. ASSUME NEW q \in Runs \ {r} PROVE Announced(engine'[q], cur'[q], queue'[q])
      BY <1>1, <1>2, <1>3, <2>1, AnnouncedAlike
    <3>2. CASE cur'[r] = 0 \/ engine'[r][cur'[r]].st \in {"inert", "withdrawn"}
      BY <3>1, <3>2 DEF Announced
    <3>3. CASE ~(cur'[r] = 0 \/ engine'[r][cur'[r]].st \in {"inert", "withdrawn"})
      <4>1. ~(job[r].pc = "idle" /\ SettlesCurrent(r))
        BY <3>3 DEF Renews
      <4>2. HasSettle(queue[r], cur[r]) => HasSettle(queue'[r], cur[r])
        BY <1>1, <4>1, SettleStays DEF SettlesCurrent, TypeOK, TypeQueue
      <4>3. Announced(engine'[r], cur'[r], queue'[r])
        BY <1>3, <2>1, <4>2, AnnouncedAlike
      <4> QED
        BY <3>1, <4>3
    <3> QED
      BY <3>2, <3>3
  <2>2. CASE /\ \A q \in Runs \ {r} : gen'[q] = gen[q] /\ engine'[q] = engine[q]
             /\ engine'[r][cur'[r]].st \in {"inert", "withdrawn"}
    BY <1>1, <1>2, <1>3, <2>2 DEF Announced
  <2> QED
    BY <2>1, <2>2 DEF Renews
<1>5. \A q \in Runs : job'[q].op = "teardown" => job'[q].pc \in {"drain", "claim"}
  BY <1>2 DEF SettleInv, Advances, Onward
<1>6. \A q \in Runs : job'[q].pc = "idle" => ~Attaching(job'[q])
  <2>1. job'[r] = Idle \/ job'[r].pc # "idle"
    BY DEF Advances, Onward, GoesOn
  <2> QED
    BY <1>2, <2>1, IdleJob DEF SettleInv
<1> QED
  BY <1>4, <1>5, <1>6 DEF SettleInv, Announced

LEMMA AdvancesCounted ==
  ASSUME TypeOK, TypeOK', RowInv, AbsentInv, SettleInv, DisposeInv, NEW r \in Runs, Advances(r)
  PROVE  Counted
<1>1. UNCHANGED <<start, disposal, direct, firstError, disposed, admission, drain, awaited>>
  BY DEF Advances, Onward, GoesOn, Aside
<1>2. \A q \in Runs : (Pending(q)' => Pending(q)) /\ (Known(q)' => Known(q))
  BY <1>1, AdvancesDurable DEF Pending, Known
<1>3. \A q \in Runs : (Terminal(q) => Terminal(q)') /\ (Reported(q) => Reported(q)')
  BY DEF Advances, Steady, Aside, Terminal, Reported
<1>4. \A q \in Runs : Reported(q) \/ Waiting(q) => (Reported(q) \/ Waiting(q))'
  BY WaitAdvances
<1>5. ASSUME disposal # "none", NEW q \in Runs
      PROVE  /\ cur'[q] \in {0, cur[q]}
             /\ Attaching(job'[q]) => Attaching(job[q]) /\ ahead'[Sup][q] = ahead[Sup][q]
  <2>1. disposed
    BY <1>5 DEF DisposeInv
  <2>2. q # r => cur'[q] = cur[q] /\ job'[q] = job[q] /\ ahead'[Sup][q] = ahead[Sup][q]
    BY DEF Advances, Onward, GoesOn, Aside
  <2>3. /\ cur'[r] \in {0, cur[r]}
        /\ Attaching(job'[r]) => Attaching(job[r]) /\ ahead'[Sup][r] = ahead[Sup][r]
    BY <2>1, IdleJob DEF Advances, Onward, GoesOn
  <2> QED
    BY <2>2, <2>3
<1> QED
  BY <1>1, <1>2, <1>3, <1>4, <1>5 DEF Counted

LEMMA QueueTeardownInv ==
  ASSUME TypeOK, TypeOK', AttemptInv, TeardownInv, NEW r \in Runs, QueueStep(r)
  PROVE  TeardownInv'
<1>1. Advances(r)
  BY QueueAdvances DEF TeardownInv
<1>2. Renews(r)
  BY BeginRenews, ContinueRenews DEF QueueStep
<1> QED
  BY <1>1, <1>2, AdvancesAbsent, AdvancesSettle, AdvancesCounted, CountedKeeps DEF TeardownInv, Advances
-----------------------------------------------------------------------------
(* The launching call: it ends before dispose looks at the runs. *)

LEMMA LaunchCounted ==
  ASSUME TypeOK, DisposeInv, NEW r \in Runs, LaunchStep(r) \/ Reserve(r)
  PROVE  Counted
<1>1. UNCHANGED <<disposal, direct, firstError, disposed, admission>>
  BY DEF LaunchStep, Reserve, InsertRejected, InsertDurable, Inserted, ScratchOpened, ReleaseStart,
         UnreleasedQuiesced, LaunchFailureSettled, LaunchDrained, LaunchSettled, LaunchFails, Publish,
         closeVars, drainVars
<1>2. CASE Reserve(r)
  BY <1>1, <1>2 DEF Reserve, Counted, DisposeInv
<1>3. CASE LaunchStep(r)
  <2>1. Pending(r)
    BY <1>3 DEF LaunchStep, InsertRejected, InsertDurable, Inserted, ScratchOpened, ReleaseStart,
         UnreleasedQuiesced, LaunchFailureSettled, LaunchDrained, LaunchSettled, Pending
  <2> QED
    BY <1>1, <2>1 DEF Counted, DisposeInv
<1> QED
  BY <1>2, <1>3

(* What a launching step changes, of the store, the queue and the attempts. *)
LaunchMoves(r) ==
  /\ UNCHANGED <<job, drain>>
  /\ \A q \in Runs \ {r} : /\ start'[q] = start[q] /\ row'[q] = row[q] /\ head'[q] = head[q]
                           /\ delivery'[q] = delivery[q] /\ queue'[q] = queue[q]
                           /\ gen'[q] = gen[q]
  /\ \/ /\ start'[r] \in {"insert", "done"} /\ row'[r] = row[r] /\ head'[r] = head[r]
        /\ UNCHANGED <<delivery, queue, gen>>
     \/ Durable(r)' /\ head'[r].status # "absent" /\ (Terminal(r)' => row'[r].status \in TERMINAL)
  /\ UNCHANGED queue \/ \E op \in OpRecord : Enqueue(r, op)
  /\ NewAttempt(r) \/ (EngineAlike /\ UNCHANGED cur)

LEMMA SettlesWhole ==
  ASSUME TypeOK, RowInv, NEW r \in Runs, NEW rev, TerminalSettles(r, rev, "failed"), Durable(r)
  PROVE  /\ \A q \in Runs \ {r} : /\ row'[q] = row[q] /\ head'[q] = head[q]
                                  /\ delivery'[q] = delivery[q]
         /\ Durable(r)' /\ head'[r].status # "absent" /\ (Terminal(r)' => row'[r].status \in TERMINAL)
<1>1. PICK res \in Results(r, rev) :
        /\ Write(r, res, "failed", "claimed")
        /\ \/ /\ res = "ok"
              /\ head' = [head EXCEPT ![r] = [status |-> "failed", rev |-> rev + 1]]
              /\ delivery' = [delivery EXCEPT ![r] = TRUE]
           \/ /\ res # "ok"
              /\ UNCHANGED <<head, delivery>>
  BY DEF TerminalSettles
<1>2. /\ \A q \in Runs \ {r} : row'[q] = row[q] /\ head'[q] = head[q] /\ delivery'[q] = delivery[q]
      /\ row'[r].status = "failed" \/ row'[r] = row[r]
      /\ \/ head'[r].status = "failed" /\ row'[r].status = "failed"
         \/ head'[r] = head[r]
  BY <1>1 DEF Write, TypeOK, TypeDurable
<1> QED
  BY <1>2 DEF RowInv, Durable, Terminal, TERMINAL

LEMMA LaunchChanges ==
  ASSUME TypeOK, RowInv, AbsentInv, NEW r \in Runs, LaunchStep(r) \/ Reserve(r)
  PROVE  LaunchMoves(r)
<1> USE DEF TypeOK
<1>a. Durable(r) => head[r].status # "absent" /\ (Terminal(r) => row[r].status \in TERMINAL)
  BY DEF RowInv
<1>b. start[r] \notin {"idle", "insert", "done"} => Durable(r)
  BY DEF AbsentInv
<1>1. CASE Reserve(r) \/ InsertRejected(r)
  <2>1. /\ start' = [start EXCEPT ![r] = "insert"] \/ start' = [start EXCEPT ![r] = "done"]
        /\ UNCHANGED <<job, queue, drain, row, head, delivery, gen, cur, engine>>
    BY <1>1 DEF Reserve, InsertRejected, durableVars, attemptVars, queueVars, drainVars
  <2> QED
    BY <2>1, AlikeUnchanged DEF LaunchMoves, TypeLaunch
<1>2. CASE InsertDurable(r)
  <2>1. /\ start' = [start EXCEPT ![r] = "durable"]
        /\ row'  = [row EXCEPT ![r] = [status |-> "running", rev |-> 1, notice |-> "none"]]
        /\ head' = [head EXCEPT ![r] = [status |-> "running", rev |-> 1]]
        /\ UNCHANGED <<job, queue, drain, delivery, gen, cur, engine>>
    BY <1>2 DEF InsertDurable, attemptVars, queueVars, drainVars
  <2> QED
    BY <2>1, AlikeUnchanged DEF LaunchMoves, TypeLaunch, TypeDurable, Durable, Terminal, TERMINAL
<1>3. CASE Inserted(r) \/ ReleaseStart(r) \/ LaunchFailureSettled(r) \/ LaunchDrained(r)
  <2>1. /\ \A q \in Runs \ {r} : start'[q] = start[q]
        /\ UNCHANGED <<job, queue, drain, row, head, delivery, gen, cur>>
    BY <1>3 DEF Inserted, ReleaseStart, LaunchFailureSettled, LaunchDrained, LaunchFails,
                durableVars, attemptVars, queueVars, drainVars, TypeLaunch
  <2>2. EngineAlike
    BY <1>3, AlikeUnchanged, AlikeStep DEF Inserted, ReleaseStart, LaunchFailureSettled, LaunchDrained,
                LaunchFails, attemptVars
  <2>3. start[r] \notin {"idle", "insert", "done"}
    BY <1>3 DEF Inserted, ReleaseStart, LaunchFailureSettled, LaunchDrained
  <2> QED
    BY <1>a, <1>b, <2>1, <2>2, <2>3 DEF LaunchMoves, Durable, Terminal
<1>4. CASE ScratchOpened(r)
  <2>1. /\ \A q \in Runs \ {r} : start'[q] = start[q]
        /\ UNCHANGED <<job, queue, drain, row, head, delivery>>
        /\ NewAttempt(r) \/ UNCHANGED <<gen, cur, engine>>
    BY <1>4 DEF ScratchOpened, LaunchFails, durableVars, attemptVars, queueVars, drainVars, TypeLaunch
  <2>2. \A q \in Runs \ {r} : gen'[q] = gen[q]
    BY <2>1 DEF NewAttempt, TypeAttempts
  <2>3. start[r] \notin {"idle", "insert", "done"}
    BY <1>4 DEF ScratchOpened
  <2> QED
    BY <1>a, <1>b, <2>1, <2>2, <2>3, AlikeUnchanged DEF LaunchMoves, Durable, Terminal
<1>5. CASE UnreleasedQuiesced(r)
  <2>1. /\ \A q \in Runs \ {r} : start'[q] = start[q] /\ queue'[q] = queue[q]
        /\ UNCHANGED <<job, drain, row, head, delivery, gen, cur, engine>>
        /\ Enqueue(r, Op("failStart", 0, 0, "none"))
    BY <1>5 DEF UnreleasedQuiesced, Enqueue, durableVars, attemptVars, drainVars, TypeLaunch, TypeQueue
  <2>2. Op("failStart", 0, 0, "none") \in OpRecord
    BY Bounds DEF Op, OpRecord, OpNames
  <2>3. start[r] \notin {"idle", "insert", "done"}
    BY <1>5 DEF UnreleasedQuiesced
  <2> QED
    BY <1>a, <1>b, <2>1, <2>2, <2>3, AlikeUnchanged DEF LaunchMoves, Durable, Terminal
<1>6. CASE LaunchSettled(r)
  <2>1. /\ \A q \in Runs \ {r} : start'[q] = start[q]
        /\ UNCHANGED <<job, queue, drain, gen, cur, engine>>
        /\ TerminalSettles(r, startRev[r], "failed") /\ start[r] \notin {"idle", "insert", "done"}
    BY <1>6 DEF LaunchSettled, attemptVars, queueVars, drainVars, TypeLaunch
  <2>2. /\ \A q \in Runs \ {r} : row'[q] = row[q] /\ head'[q] = head[q] /\ delivery'[q] = delivery[q]
        /\ Durable(r)' /\ head'[r].status # "absent" /\ (Terminal(r)' => row'[r].status \in TERMINAL)
    BY <1>b, <2>1, SettlesWhole
  <2> QED
    BY <2>1, <2>2, AlikeUnchanged DEF LaunchMoves
<1> QED
  BY <1>1, <1>2, <1>3, <1>4, <1>5, <1>6 DEF LaunchStep

LEMMA LaunchTeardownInv ==
  ASSUME TypeOK, TypeOK', AttemptInv, TeardownInv, NEW r \in Runs, LaunchStep(r) \/ Reserve(r)
  PROVE  TeardownInv'
<1>1. LaunchMoves(r)
  BY LaunchChanges DEF TeardownInv
<1>2. RowInv'
  BY <1>1 DEF LaunchMoves, TeardownInv, RowInv, Durable, Terminal
<1>3. AbsentInv'
  BY <1>1 DEF LaunchMoves, TeardownInv, AbsentInv, Durable, TypeOK, TypeDrain
<1>4. SettleInv'
  <2>1. \A q \in Runs : Announced(engine[q], cur[q], queue[q])
    BY DEF TeardownInv, SettleInv, Announced
  <2>2. \A q \in Runs : Announced(engine'[q], cur'[q], queue'[q])
    <3>1. \A q \in Runs : HasSettle(queue[q], cur[q]) => HasSettle(queue'[q], cur[q])
      <4>1. CASE UNCHANGED queue
        BY <4>1
      <4>2. ASSUME NEW op \in OpRecord, Enqueue(r, op), NEW q \in Runs, HasSettle(queue[q], cur[q])
            PROVE  HasSettle(queue'[q], cur[q])
        BY <4>2, SettleAppended DEF Enqueue, TypeOK, TypeQueue
      <4> QED
        BY <1>1, <4>1, <4>2 DEF LaunchMoves
    <3>2. CASE EngineAlike /\ UNCHANGED cur
      BY <2>1, <3>1, <3>2, AnnouncedAlike
    <3>3. CASE NewAttempt(r)
      <4>1. engine'[r][cur'[r]].st \in {"inert", "withdrawn"}
        BY <3>3, NewBorn
      <4>2. \A q \in Runs \ {r} : engine'[q] = engine[q] /\ cur'[q] = cur[q]
        BY <3>3 DEF NewAttempt, TypeOK, TypeAttempts
      <4>3. \A q \in Runs \ {r} : queue'[q] = queue[q]
        BY <1>1 DEF LaunchMoves
      <4> QED
        BY <2>1, <4>1, <4>2, <4>3 DEF Announced
    <3> QED
      BY <1>1, <3>2, <3>3 DEF LaunchMoves
  <2> QED
    BY <1>1, <2>2 DEF LaunchMoves, TeardownInv, SettleInv, Announced
<1> QED
  BY <1>2, <1>3, <1>4, LaunchCounted, CountedKeeps DEF TeardownInv
-----------------------------------------------------------------------------
(* A step that queues an operation of a run in the store, or none at all. *)

StoreInv == RowInv /\ AbsentInv /\ SettleInv
StoreStays ==
  /\ UNCHANGED <<start, row, head, delivery, gen, cur, job>>
  /\ \A a \in Agents : \A r \in drain'[a].todo : Durable(r)
StayCounted ==
  /\ UNCHANGED <<disposal, direct, firstError, disposed, admission, failure>>
  /\ ahead'[Sup] = ahead[Sup] /\ awaited'[Sup] = awaited[Sup]

LEMMA EnqueueStays ==
  ASSUME TypeOK, TypeOK', StoreInv, StoreStays, NEW r \in Runs, NEW op \in OpRecord, Enqueue(r, op),
         Durable(r), \A q \in Runs : Announced(engine'[q], cur[q], queue'[q])
  PROVE  StoreInv'
<1>1. RowInv'
  BY DEF StoreStays, StoreInv, RowInv, Durable, Terminal
<1>2. AbsentInv'
  <2>1. \A q \in Runs \ {r} : queue'[q] = queue[q]
    BY DEF Enqueue, TypeOK, TypeQueue
  <2> QED
    BY <2>1 DEF StoreStays, StoreInv, AbsentInv, Durable
<1>3. SettleInv'
  BY DEF StoreStays, StoreInv, SettleInv, Announced
<1> QED
  BY <1>1, <1>2, <1>3 DEF StoreInv

LEMMA EnqueueAnnounced ==
  ASSUME TypeOK, TypeOK', SettleInv, EngineAlike, UNCHANGED cur, NEW r \in Runs, NEW op \in OpRecord,
         Enqueue(r, op)
  PROVE  \A q \in Runs : Announced(engine'[q], cur[q], queue'[q])
<1> SUFFICES ASSUME NEW q \in Runs PROVE Announced(engine'[q], cur[q], queue'[q])
  OBVIOUS
<1>1. Announced(engine[q], cur[q], queue[q])
  BY DEF SettleInv, Announced
<1>2. HasSettle(queue[q], cur[q]) => HasSettle(queue'[q], cur[q])
  BY SettleAppended DEF Enqueue, TypeOK, TypeQueue
<1> QED
  BY <1>1, <1>2, AnnouncedAlike

LEMMA QuietStore ==
  ASSUME TypeOK, TypeOK', StoreInv, StoreStays, EngineAlike, UNCHANGED queue
  PROVE  StoreInv'
<1>1. RowInv'
  BY DEF StoreStays, StoreInv, RowInv, Durable, Terminal
<1>2. AbsentInv'
  BY DEF StoreStays, StoreInv, AbsentInv, Durable
<1>3. \A q \in Runs : Announced(engine'[q], cur'[q], queue'[q])
  BY AnnouncedAlike DEF StoreStays, StoreInv, SettleInv, Announced
<1>4. SettleInv'
  BY <1>3 DEF StoreStays, StoreInv, SettleInv, Announced
<1> QED
  BY <1>1, <1>2, <1>4 DEF StoreInv

LEMMA StayKeeps ==
  ASSUME TypeOK, TypeOK', DisposeInv, StoreStays, StayCounted,
         \A q \in Runs : queue'[q] = queue[q] \/ \E op \in OpRecord : queue'[q] = Append(queue[q], op)
  PROVE  DisposeInv'
<1>1. ASSUME NEW q \in Runs, Waiting(q) PROVE Waiting(q)'
  <2>1. queue[q] \in Seq(OpRecord) /\ ahead[Sup][q] \in Nat
    BY SupWaits DEF TypeOK, TypeQueue, TypeJob
  <2>2. Awaits(queue'[q], job[q], ahead[Sup][q])
    BY <1>1, <2>1, WaitAppended DEF Waiting
  <2> QED
    BY <2>2 DEF Waiting, StoreStays, StayCounted
<1>2. Counted
  BY <1>1 DEF Counted, StoreStays, StayCounted, Pending, Known, Durable, Terminal, Reported
<1> QED
  BY <1>2, CountedKeeps

LEMMA EnqueueOne ==
  ASSUME TypeOK, NEW r \in Runs, NEW op \in OpRecord, Enqueue(r, op)
  PROVE  \A q \in Runs : queue'[q] = queue[q] \/ \E o \in OpRecord : queue'[q] = Append(queue[q], o)
<1>1. ASSUME NEW q \in Runs PROVE queue'[q] = queue[q] \/ queue'[q] = Append(queue[q], op)
  BY DEF Enqueue, TypeOK, TypeQueue
<1> QED
  BY <1>1

LEMMA BornDurable ==
  ASSUME TypeOK, AttemptInv, AbsentInv, NEW r \in Runs,
         cur[r] # 0 \/ \E g \in Gens : engine[r][g].st # "unborn"
  PROVE  Durable(r)
<1>1. gen[r] # 0
  BY DEF AttemptInv, GenerationInv, Gens, TypeOK, TypeAttempts
<1> QED
  BY <1>1 DEF AbsentInv

(* The engine's events and the human controls. *)
LEMMA EngineTeardownInv ==
  ASSUME TypeOK, TypeOK', AttemptInv, TeardownInv, NEW r \in Runs,
         Ask(r) \/ EngineEvent(r) \/ EngineGate(r) \/ \E g \in Gens : EngineQuiesces(r, g)
  PROVE  TeardownInv'
<1> USE DEF TypeOK
<1>a. StoreInv /\ DisposeInv /\ SettleInv
  BY DEF TeardownInv, StoreInv
<1>1. ASSUME Ask(r) \/ EngineEvent(r) \/ EngineGate(r)
      PROVE  TeardownInv'
  <2>1. /\ UNCHANGED <<start, row, head, delivery, gen, cur, engine, job, drain>>
        /\ UNCHANGED <<disposal, direct, firstError, disposed, admission, failure, ahead, awaited>>
    BY <1>1 DEF Ask, EngineEvent, EngineGate, launchVars, durableVars, attemptVars, waitVars,
                drainVars, closeVars
  <2>2. Durable(r)
    <3>1. CASE Ask(r)
      BY <3>1 DEF Ask, Known
    <3>2. CASE EngineEvent(r) \/ EngineGate(r)
      BY <3>2, BornDurable DEF EngineEvent, EngineGate, TeardownInv
    <3> QED
      BY <1>1, <3>1, <3>2
  <2>3. \E op : Enqueue(r, op)
    BY <1>1 DEF Ask, EngineEvent, EngineGate
  <2>4. PICK op : Enqueue(r, op)
    BY <2>3
  <2>5. op \in OpRecord
    <3>1. queue'[r] = Append(queue[r], op) /\ queue[r] \in Seq(OpRecord) /\ queue'[r] \in Seq(OpRecord)
      BY <2>4 DEF Enqueue, TypeQueue
    <3>2. Len(queue'[r]) \in DOMAIN queue'[r] /\ queue'[r][Len(queue'[r])] = op
      BY <3>1
    <3> QED
      BY <3>1, <3>2
  <2>6. EngineAlike
    BY <2>1, AlikeUnchanged
  <2>7. StoreStays /\ StayCounted
    BY <1>a, <2>1 DEF StoreStays, StayCounted, StoreInv, AbsentInv
  <2>8. \A q \in Runs : Announced(engine'[q], cur[q], queue'[q])
    BY <1>a, <2>1, <2>4, <2>5, <2>6, EnqueueAnnounced
  <2>9. StoreInv'
    BY <1>a, <2>2, <2>4, <2>5, <2>7, <2>8, EnqueueStays
  <2> QED
    BY <1>a, <2>4, <2>5, <2>7, <2>9, EnqueueOne, StayKeeps DEF StoreInv, TeardownInv
<1>2. ASSUME NEW g \in Gens, EngineQuiesces(r, g)
      PROVE  TeardownInv'
  <2> DEFINE op == Op("settle", g, 0, "none")
  <2>1. /\ UNCHANGED <<start, row, head, delivery, gen, cur, job, drain>>
        /\ UNCHANGED <<disposal, direct, firstError, disposed, admission, failure, ahead, awaited>>
        /\ Enqueue(r, op) /\ engine[r][g].st # "unborn"
        /\ \A q \in Runs : \A h \in Gens : engine'[q][h] = engine[q][h] \/ (q = r /\ h = g)
    BY <1>2 DEF EngineQuiesces, launchVars, durableVars, waitVars, drainVars, closeVars, TypeAttempts
  <2>2. op \in OpRecord /\ op.op = "settle" /\ op.g = g
    BY Bounds DEF Op, OpRecord, OpNames, Gens
  <2> HIDE DEF op
  <2>3. Durable(r)
    BY <2>1, BornDurable DEF TeardownInv
  <2>4. StoreStays /\ StayCounted
    BY <1>a, <2>1 DEF StoreStays, StayCounted, StoreInv, AbsentInv
  <2>5. ASSUME NEW q \in Runs PROVE Announced(engine'[q], cur[q], queue'[q])
    <3>1. Announced(engine[q], cur[q], queue[q])
      BY <1>a DEF SettleInv, Announced
    <3>2. CASE q = r /\ cur[q] = g
      <4>0. engine'[r][g].st = "quiescent"
        BY <1>2 DEF EngineQuiesces, TypeAttempts, AttemptRecord
      <4>1. queue'[r] = Append(queue[r], op) /\ queue[r] \in Seq(OpRecord)
        BY <2>1 DEF Enqueue, TypeQueue
      <4>2. Len(queue[r]) + 1 \in DOMAIN queue'[r] /\ queue'[r][Len(queue[r]) + 1] = op
        BY <4>1, <2>2
      <4>3. HasSettle(queue'[r], g)
        BY <2>2, <4>2 DEF HasSettle
      <4> QED
        BY <3>2, <4>0, <4>3 DEF Announced
    <3>3. CASE ~(q = r /\ cur[q] = g)
      <4>1. cur[q] # 0 => cur[q] \in Gens
        BY Bounds DEF TypeAttempts, Gens
      <4>2. cur[q] # 0 => engine'[q][cur[q]] = engine[q][cur[q]]
        BY <2>1, <3>3, <4>1
      <4>3. HasSettle(queue[q], cur[q]) => HasSettle(queue'[q], cur[q])
        BY <2>1, <2>2, SettleAppended DEF Enqueue, TypeQueue
      <4> QED
        BY <3>1, <4>2, <4>3 DEF Announced
    <3> QED
      BY <3>2, <3>3
  <2>6. StoreInv'
    BY <1>a, <2>1, <2>2, <2>3, <2>4, <2>5, EnqueueStays
  <2> QED
    BY <1>a, <2>1, <2>2, <2>4, <2>6, EnqueueOne, StayKeeps DEF StoreInv, TeardownInv
<1> QED
  BY <1>1, <1>2

(* A notice is delivered of a settled run, and leaves it settled. *)
LEMMA NoticeTeardownInv ==
  ASSUME TypeOK, TypeOK', AttemptInv, TeardownInv, NEW r \in Runs, NoticeSettles(r)
  PROVE  TeardownInv'
<1> USE DEF TypeOK
<1>1. /\ UNCHANGED <<start, gen, cur, engine, job, queue, drain>>
      /\ UNCHANGED <<disposal, direct, firstError, disposed, admission, failure, ahead, awaited>>
      /\ delivery' = [delivery EXCEPT ![r] = FALSE]
  BY DEF NoticeSettles, launchVars, attemptVars, queueVars, waitVars, drainVars, closeVars
<1>2. Terminal(r) /\ row[r].status \in TERMINAL
  BY DEF NoticeSettles, AttemptInv, ParkedInv
<1>3. \A q \in Runs : row'[q].status = row[q].status /\ (delivery'[q] => delivery[q])
  <2>1. row' = [row EXCEPT ![r].rev = @ + 1, ![r].notice = "final"] \/ row' = row
    BY DEF NoticeSettles
  <2>2. \A q \in Runs : row'[q].status = row[q].status
    BY <2>1 DEF TypeDurable
  <2> QED
    BY <1>1, <2>2 DEF TypeDurable
<1>4. /\ \A q \in Runs \ {r} : head'[q] = head[q]
      /\ head'[r].status \in {head[r].status, row'[r].status}
  BY DEF NoticeSettles, TypeDurable
<1>5. Terminal(r)' /\ \A q \in Runs \ {r} : Terminal(q)' <=> Terminal(q)
  BY <1>2, <1>3, <1>4 DEF Terminal
<1>6. "absent" \notin TERMINAL
  BY DEF TERMINAL
<1>7. RowInv'
  BY <1>1, <1>2, <1>3, <1>4, <1>5, <1>6 DEF TeardownInv, RowInv, Durable, Terminal
<1>8. AbsentInv'
  <2>1. \A q \in Runs : Durable(q)' <=> Durable(q)
    BY <1>3 DEF Durable
  <2>2. \A q \in Runs : ~Durable(q)' =>
          queue'[q] = <<>> /\ job'[q].pc = "idle" /\ gen'[q] = 0 /\ ~delivery'[q]
    BY <1>1, <1>3, <2>1 DEF TeardownInv, AbsentInv
  <2>3. \A a \in Agents : drain[a].todo \subseteq Runs
    BY DEF TypeDrain
  <2> QED
    BY <1>1, <2>1, <2>2, <2>3 DEF TeardownInv, AbsentInv
<1>9. SettleInv'
  BY <1>1 DEF TeardownInv, SettleInv
<1>10. Counted
  BY <1>1, <1>2, <1>3, <1>5 DEF Counted, Pending, Known, Durable, Reported, Waiting
<1> QED
  BY <1>7, <1>8, <1>9, <1>10, CountedKeeps DEF TeardownInv

(* The teardown of one owner: its waits are its own. *)
LEMMA CaptureOther ==
  ASSUME TypeOK, NEW a \in Agents, NEW tails, NEW observations,
         Capture(a, tails, observations) \/ UNCHANGED waitVars
  PROVE  ahead'[Sup] = ahead[Sup] /\ awaited'[Sup] = awaited[Sup]
BY SupWaits DEF TypeOK, TypeJob, Capture, waitVars

LEMMA OwnerTeardownInv ==
  ASSUME TypeOK, TypeOK', AttemptInv, TeardownInv, NEW a \in Agents, OwnerDisposed(a) \/ OwnerStep(a)
  PROVE  TeardownInv'
<1> USE DEF TypeOK
<1>a. StoreInv /\ DisposeInv
  BY DEF TeardownInv, StoreInv
<1>b. \A b \in Agents : \A r \in drain[b].todo : r \in Runs /\ Durable(r)
  BY <1>a DEF StoreInv, AbsentInv, TypeDrain
<1>1. /\ UNCHANGED <<start, row, head, delivery, gen, cur, job>>
      /\ UNCHANGED <<disposal, direct, firstError, disposed, admission, failure>>
  BY DEF OwnerDisposed, OwnerStep, OwnerStartsSettled, OwnerNextRun, OwnerAwaitsTail, OwnerRunDrained,
         OwnerQuiesces, launchVars, durableVars, attemptVars, queueVars, closeVars
<1>2. ahead'[Sup] = ahead[Sup] /\ awaited'[Sup] = awaited[Sup]
  BY CaptureOther DEF OwnerDisposed, OwnerStep, OwnerStartsSettled, OwnerNextRun, OwnerAwaitsTail,
         OwnerRunDrained, OwnerQuiesces, OwnerCaptures
<1>3. StayCounted
  BY <1>1, <1>2 DEF StayCounted
<1>4. \A b \in Agents : \A r \in drain'[b].todo : Durable(r)
  <2>1. CASE OwnerStartsSettled(a)
    <3>1. /\ drain'[a].todo = ToDispose(a)
          /\ \A b \in Agents \ {a} : drain'[b] = drain[b]
      BY <2>1 DEF OwnerStartsSettled, TypeDrain
    <3> QED
      BY <1>b, <3>1 DEF ToDispose, Known
  <2>2. CASE ~OwnerStartsSettled(a)
    <3>1. \/ UNCHANGED drain
          \/ \E pc : drain' = [drain EXCEPT ![a].pc = pc] \/ drain' = [drain EXCEPT ![a].pc = pc, ![a].run = {}]
          \/ \E r : drain' = [drain EXCEPT ![a] = [pc |-> "op", run |-> {r}, todo |-> @.todo \ {r}]]
      <4>1. CASE OwnerNextRun(a)
        BY <4>1 DEF OwnerNextRun
      <4>2. CASE ~OwnerNextRun(a)
        BY <2>2, <4>2 DEF OwnerDisposed, OwnerStep, OwnerAwaitsTail, OwnerRunDrained, OwnerQuiesces
      <4> QED
        BY <4>1, <4>2
    <3>2. \A b \in Agents : drain'[b].todo \subseteq drain[b].todo
      <4>1. ASSUME NEW pc, \/ drain' = [drain EXCEPT ![a].pc = pc]
                           \/ drain' = [drain EXCEPT ![a].pc = pc, ![a].run = {}]
            PROVE  \A b \in Agents : drain'[b].todo = drain[b].todo
        BY <4>1 DEF TypeDrain
      <4>2. ASSUME NEW r, drain' = [drain EXCEPT ![a] = [pc |-> "op", run |-> {r}, todo |-> @.todo \ {r}]]
            PROVE  \A b \in Agents : drain'[b].todo \subseteq drain[b].todo
        BY <4>2 DEF TypeDrain
      <4> QED
        BY <3>1, <4>1, <4>2
    <3> QED
      BY <1>b, <3>2
  <2> QED
    BY <2>1, <2>2
<1>5. StoreStays
  BY <1>1, <1>4 DEF StoreStays
<1>6. CASE EngineAlike /\ UNCHANGED queue
  BY <1>a, <1>3, <1>5, <1>6, QuietStore, StayKeeps DEF StoreInv, TeardownInv
<1>7. CASE OwnerNextRun(a)
  <2>1. PICK r \in drain[a].todo :
          \/ engine' = [engine EXCEPT ![r][cur[r]] = Torn(@)] /\ UNCHANGED queue
          \/ Enqueue(r, Op("teardown", 0, 0, "none")) /\ UNCHANGED engine
    BY <1>7 DEF OwnerNextRun
  <2>2. EngineAlike
    BY <1>b, <2>1, AlikeUnchanged, AlikeStep
  <2>3. CASE Enqueue(r, Op("teardown", 0, 0, "none"))
    <3>1. Op("teardown", 0, 0, "none") \in OpRecord
      BY Bounds DEF Op, OpRecord, OpNames
    <3>2. \A q \in Runs : Announced(engine'[q], cur[q], queue'[q])
      BY <1>a, <1>1, <1>b, <2>2, <2>3, <3>1, EnqueueAnnounced DEF StoreInv
    <3>3. StoreInv'
      BY <1>a, <1>5, <1>b, <2>3, <3>1, <3>2, EnqueueStays
    <3> QED
      BY <1>a, <1>3, <1>5, <1>b, <2>3, <3>1, <3>3, EnqueueOne, StayKeeps DEF StoreInv, TeardownInv
  <2> QED
    BY <1>6, <2>1, <2>2, <2>3
<1>8. CASE ~OwnerNextRun(a)
  <2>1. UNCHANGED queue
    BY <1>8 DEF OwnerDisposed, OwnerStep, OwnerStartsSettled, OwnerAwaitsTail, OwnerRunDrained,
                OwnerQuiesces, queueVars
  <2>2. EngineAlike
    <3>1. CASE OwnerDisposed(a)
      BY <3>1, AlikeAbort DEF OwnerDisposed
    <3>2. CASE ~OwnerDisposed(a)
      BY <1>8, <3>2, AlikeUnchanged DEF OwnerStep, OwnerStartsSettled, OwnerAwaitsTail,
                OwnerRunDrained, OwnerQuiesces, attemptVars
    <3> QED
      BY <3>1, <3>2
  <2> QED
    BY <1>6, <2>1, <2>2
<1> QED
  BY <1>7, <1>8
-----------------------------------------------------------------------------
(* dispose itself. *)

LEMMA QueueTeardownStays ==
  ASSUME TypeOK, TypeOK', StoreInv, StoreStays, EngineAlike, NEW S \in SUBSET KnownRuns, QueueTeardown(S)
  PROVE  StoreInv'
<1> DEFINE op == Op("teardown", 0, 0, "none")
<1>1. op \in OpRecord
  BY Bounds DEF Op, OpRecord, OpNames
<1>2. \A q \in Runs : queue'[q] = queue[q] \/ (queue'[q] = Append(queue[q], op) /\ Durable(q))
  BY DEF QueueTeardown, KnownRuns, Known
<1> HIDE DEF op
<1>3. RowInv'
  BY DEF StoreStays, StoreInv, RowInv, Durable, Terminal
<1>4. AbsentInv'
  BY <1>2 DEF StoreStays, StoreInv, AbsentInv, Durable
<1>5. \A q \in Runs : Announced(engine'[q], cur'[q], queue'[q])
  <2> SUFFICES ASSUME NEW q \in Runs PROVE Announced(engine'[q], cur'[q], queue'[q])
    OBVIOUS
  <2>1. Announced(engine[q], cur[q], queue[q])
    BY DEF StoreInv, SettleInv, Announced
  <2>2. HasSettle(queue[q], cur[q]) => HasSettle(queue'[q], cur[q])
    BY <1>1, <1>2, SettleAppended DEF TypeOK, TypeQueue
  <2> QED
    BY <2>1, <2>2, AnnouncedAlike DEF StoreStays
<1>6. SettleInv'
  BY <1>5 DEF StoreStays, StoreInv, SettleInv, Announced
<1> QED
  BY <1>3, <1>4, <1>6 DEF StoreInv

(* The interruption just queued is the last operation of the captured tail. *)
LEMMA WaitQueued ==
  ASSUME TypeOK, NEW q \in Runs, NEW S, q \in S, QueueTeardown(S),
         Capture(Sup, QueuedTails(S), Observations({})), UNCHANGED job
  PROVE  Waiting(q)'
<1> DEFINE op == Op("teardown", 0, 0, "none")
           n == Len(queue[q])
<1>1. queue'[q] = Append(queue[q], op) /\ op.op = "teardown" /\ queue[q] \in Seq(OpRecord)
  BY DEF QueueTeardown, Op, TypeOK, TypeQueue
<1> HIDE DEF op
<1>2. n \in Nat /\ n + 1 \in DOMAIN queue'[q] /\ queue'[q][n + 1] = op
  BY <1>1
<1>3. ahead'[Sup][q] = n + (IF job[q].pc = "idle" THEN 0 ELSE 1) + 1
  BY SupWaits DEF TypeOK, TypeJob, Capture, QueuedTails, Ahead
<1>4. (n + 1) + (IF job'[q].pc = "idle" THEN 0 ELSE 1) <= ahead'[Sup][q]
  <2>1. job'[q] = job[q]
    OBVIOUS
  <2> HIDE DEF n
  <2> QED
    BY <1>2, <1>3, <2>1
<1> HIDE DEF n
<1> QED
  BY <1>1, <1>2, <1>4 DEF Waiting, Awaits

(* When the wait is over the attempt that was observed has been dropped. *)
LEMMA WaitDropped ==
  ASSUME TypeOK, SettleInv, WaitOver(Sup), NEW q \in Runs, cur[q] \in {0, awaited[Sup][q]}
  PROVE  cur[q] = 0
<1> SUFFICES ASSUME cur[q] # 0 PROVE FALSE
  OBVIOUS
<1>1. Quiesced(q, cur[q]) /\ ~Queued(q, "settle", cur[q])
  BY DEF WaitOver, Observed
<1>2. HasSettle(queue[q], cur[q])
  BY <1>1 DEF SettleInv, Quiesced
<1>3. queue[q] \in Seq(OpRecord)
  BY DEF TypeOK, TypeQueue
<1> QED
  BY <1>1, <1>2, <1>3 DEF Queued, HasSettle

LEMMA WaitReported ==
  ASSUME TypeOK, WaitOver(Sup), NEW q \in Runs, Waiting(q)
  PROVE  FALSE
<1>1. ahead[Sup][q] = 0
  BY DEF WaitOver
<1>2. \A i \in DOMAIN queue[q] : i \in Nat /\ i >= 1
  BY DEF TypeOK, TypeQueue
<1> QED
  BY <1>1, <1>2 DEF Waiting, Awaits

LEMMA RunsStay ==
  ASSUME StoreStays, UNCHANGED failure
  PROVE  /\ KnownRuns' = KnownRuns
         /\ \A q \in Runs : /\ Known(q)' <=> Known(q)
                            /\ Pending(q)' <=> Pending(q)
                            /\ Terminal(q)' <=> Terminal(q)
                            /\ Reported(q)' <=> Reported(q)
BY DEF StoreStays, KnownRuns, Known, Durable, Pending, Terminal, Reported

LEMMA DisposeTeardownInv ==
  ASSUME TypeOK, TypeOK', AttemptInv, TeardownInv, Dispose \/ DisposeStep
  PROVE  TeardownInv'
<1> USE DEF TypeOK
<1>a. StoreInv /\ DisposeInv /\ SettleInv
  BY DEF TeardownInv, StoreInv
<1>b. StoreInv' /\ DisposeInv' => TeardownInv'
  BY DEF TeardownInv, StoreInv
<1>c. KnownRuns \subseteq Runs /\ direct \subseteq Runs
  BY DEF KnownRuns, TypeDrain
<1>d. UNCHANGED drain => \A a \in Agents : \A r \in drain'[a].todo : Durable(r)
  BY <1>a DEF StoreInv, AbsentInv
<1>1. CASE Dispose
  <2>1. /\ UNCHANGED <<start, row, head, failure, delivery, gen, cur, job, queue, drain>>
        /\ AbortPending(Runs) \/ UNCHANGED engine
        /\ disposed' /\ ~admission' /\ disposal' = "pending"
    BY <1>1 DEF Dispose, CloseAdmission, durableVars, queueVars, TypeClose
  <2>2. EngineAlike
    BY <2>1, AlikeAbort, AlikeUnchanged
  <2>3. StoreStays
    BY <1>d, <2>1 DEF StoreStays
  <2>4. StoreInv'
    BY <1>a, <2>1, <2>2, <2>3, QuietStore
  <2>5. DisposeInv'
    BY <2>1 DEF DisposeInv, Swept, Detached
  <2> QED
    BY <1>b, <2>4, <2>5
<1>2. CASE DisposeCancels
  <2> DEFINE open == {r \in KnownRuns : ~Terminal(r)}
             S == {r \in open : cur[r] = 0}
  <2>1. /\ UNCHANGED <<start, row, head, failure, delivery, gen, cur, job, drain, disposed, admission>>
        /\ disposal = "pending" /\ disposal' = "direct" /\ direct' = S /\ PendingOf(Runs) = {}
        /\ QueueTeardown(S) /\ Capture(Sup, QueuedTails(S), Observations({}))
        /\ engine' = [r \in Runs |-> IF r \in open /\ cur[r] # 0
                                     THEN [engine[r] EXCEPT ![cur[r]] = Torn(@)] ELSE engine[r]]
    BY <1>2 DEF DisposeCancels, launchVars, durableVars, closeVars
  <2>2. S \in SUBSET KnownRuns
    OBVIOUS
  <2>3. EngineAlike
    <3>1. ASSUME NEW r \in Runs, NEW g \in Gens
          PROVE  Alike(engine[r][g], engine'[r][g])
      <4>1. engine[r][g] \in AttemptRecord
        BY DEF TypeAttempts
      <4>2. engine'[r][g] = engine[r][g] \/ engine'[r][g] = Torn(engine[r][g])
        BY <2>1 DEF TypeAttempts
      <4> QED
        BY <4>1, <4>2, AlikeCancelled
    <3> QED
      BY <3>1 DEF EngineAlike
  <2> HIDE DEF open, S
  <2>4. StoreStays
    BY <1>d, <2>1 DEF StoreStays
  <2>5. StoreInv'
    BY <1>a, <2>1, <2>2, <2>3, <2>4, QueueTeardownStays
  <2>6. \A r \in S : Waiting(r)'
    BY <1>c, <2>1, <2>2, WaitQueued
  <2>7. \A r \in Runs : ~Pending(r)'
    BY <2>1 DEF PendingOf, Pending
  <2>8. DisposeInv'
    BY <1>a, <2>1, <2>6, <2>7 DEF DisposeInv, Swept, Detached
  <2> QED
    BY <1>b, <2>5, <2>8
<1>3. CASE DisposeDrains
  <2>1. /\ UNCHANGED <<start, row, head, failure, delivery, gen, cur, engine, job, queue, drain>>
        /\ UNCHANGED <<disposed, admission, direct>>
        /\ disposal = "direct" /\ disposal' = "drain" /\ WaitOver(Sup)
        /\ Capture(Sup, Tails(KnownRuns), Observations(KnownRuns))
    BY <1>3 DEF DisposeDrains, launchVars, durableVars, attemptVars, queueVars, closeVars
  <2>2. StoreStays
    BY <1>d, <2>1 DEF StoreStays
  <2>3. StoreInv'
    BY <1>a, <2>1, <2>2, AlikeUnchanged, QuietStore
  <2>4. \A r \in direct : Reported(r)
    BY <1>a, <1>c, <2>1, WaitReported DEF DisposeInv
  <2>5. ASSUME NEW r \in KnownRuns
        PROVE  cur[r] = awaited'[Sup][r] /\ (Attaching(job[r]) => ahead'[Sup][r] > 0)
    <3>1. ahead'[Sup][r] = Len(queue[r]) + (IF job[r].pc = "idle" THEN 0 ELSE 1) /\ awaited'[Sup][r] = cur[r]
      BY <1>c, <2>1, SupWaits DEF TypeJob, Capture, Tails, Observations, Ahead
    <3>2. Len(queue[r]) \in Nat
      BY <1>c DEF TypeQueue
    <3>3. Attaching(job[r]) => job[r].pc # "idle"
      BY <1>a, <1>c DEF SettleInv
    <3>4. job[r].pc # "idle" => ahead'[Sup][r] > 0
      BY <3>1, <3>2
    <3> QED
      BY <3>1, <3>3, <3>4
  <2>6. DisposeInv'
    BY <1>a, <1>c, <2>1, <2>2, <2>4, <2>5, RunsStay DEF DisposeInv, Swept, Detached
  <2> QED
    BY <1>b, <2>3, <2>6
<1>4. CASE DisposeRetries
  <2>1. /\ UNCHANGED <<start, row, head, failure, delivery, gen, cur, engine, job, drain>>
        /\ UNCHANGED <<disposed, admission, direct>>
        /\ disposal = "drain" /\ disposal' = "retry" /\ WaitOver(Sup)
        /\ QueueTeardown(Unsettled) /\ Capture(Sup, QueuedTails(Unsettled), Observations({}))
    BY <1>4 DEF DisposeRetries, launchVars, durableVars, attemptVars, closeVars
  <2>2. StoreStays
    BY <1>d, <2>1 DEF StoreStays
  <2>3. StoreInv'
    BY <1>a, <2>1, <2>2, AlikeUnchanged, QueueTeardownStays DEF Unsettled
  <2>4. \A r \in KnownRuns : cur[r] = 0 /\ ~Attaching(job[r])
    <3>1. \A r \in KnownRuns : cur[r] \in {0, awaited[Sup][r]} /\ (Attaching(job[r]) => ahead[Sup][r] > 0)
      BY <1>a, <2>1 DEF DisposeInv
    <3>2. \A r \in KnownRuns : cur[r] = 0
      BY <1>a, <1>c, <2>1, <3>1, WaitDropped
    <3>3. \A r \in KnownRuns : ahead[Sup][r] = 0
      BY <1>c, <2>1 DEF WaitOver
    <3>4. \A r \in KnownRuns : ~(ahead[Sup][r] > 0)
      BY <3>3
    <3> QED
      BY <3>1, <3>2, <3>4
  <2>5. ASSUME NEW r \in KnownRuns PROVE Reported(r) \/ Waiting(r)'
    <3>1. CASE r \in direct
      BY <1>a, <2>1, <3>1 DEF DisposeInv, Swept
    <3>2. CASE r \notin direct
      <4>1. Terminal(r) \/ r \in Unsettled
        BY <2>4, <3>2 DEF Unsettled
      <4> QED
        BY <1>c, <2>1, <4>1, WaitQueued DEF Reported
    <3> QED
      BY <3>1, <3>2
  <2>6. DisposeInv'
    BY <1>a, <1>c, <2>1, <2>2, <2>4, <2>5, RunsStay DEF DisposeInv, Swept, Detached
  <2> QED
    BY <1>b, <2>3, <2>6
<1>5. CASE DisposeFinalDrain
  <2>1. /\ UNCHANGED <<start, row, head, failure, delivery, gen, cur, engine, job, queue, drain>>
        /\ UNCHANGED <<disposed, admission, direct>>
        /\ disposal = "retry" /\ disposal' = "final" /\ WaitOver(Sup) /\ Remember
    BY <1>5 DEF DisposeFinalDrain, launchVars, durableVars, attemptVars, queueVars, closeVars
  <2>2. StoreStays
    BY <1>d, <2>1 DEF StoreStays
  <2>3. StoreInv'
    BY <1>a, <2>1, <2>2, AlikeUnchanged, QuietStore
  <2>4. \A r \in KnownRuns : Reported(r)
    BY <1>a, <1>c, <2>1, WaitReported DEF DisposeInv
  <2>5. firstError' \/ \A r \in KnownRuns : Terminal(r)
    BY <2>1, <2>4 DEF Remember, Reported
  <2>6. DisposeInv'
    BY <1>a, <1>c, <2>1, <2>2, <2>4, <2>5, RunsStay DEF DisposeInv, Swept, Detached
  <2> QED
    BY <1>b, <2>3, <2>6
<1>6. CASE Disposed
  <2>1. /\ UNCHANGED <<start, row, head, failure, delivery, gen, cur, engine, job, queue, drain>>
        /\ UNCHANGED <<disposed, admission, direct, firstError>>
        /\ disposal = "final" /\ disposal' = "done"
    BY <1>6 DEF Disposed, launchVars, durableVars, attemptVars, queueVars, closeVars
  <2>2. StoreStays
    BY <1>d, <2>1 DEF StoreStays
  <2>3. StoreInv'
    BY <1>a, <2>1, <2>2, AlikeUnchanged, QuietStore
  <2>4. DisposeInv'
    BY <1>a, <1>c, <2>1, <2>2, RunsStay DEF DisposeInv, Swept, Detached
  <2> QED
    BY <1>b, <2>3, <2>4
<1> QED
  BY <1>1, <1>2, <1>3, <1>4, <1>5, <1>6 DEF DisposeStep

-----------------------------------------------------------------------------
LEMMA InitTeardown == Init => TeardownInv
<1> SUFFICES ASSUME Init PROVE TeardownInv
  OBVIOUS
<1>1. RowInv /\ AbsentInv
  BY DEF Init, RowInv, AbsentInv, Terminal, TERMINAL, Durable, Idle
<1>2. SettleInv
  BY IdleJob DEF Init, SettleInv
<1>3. DisposeInv
  BY DEF Init, DisposeInv, Swept, Detached
<1> QED
  BY <1>1, <1>2, <1>3 DEF TeardownInv

LEMMA StepTeardown == TypeOK /\ TypeOK' /\ AttemptInv /\ TeardownInv /\ [Next]_vars => TeardownInv'
<1> SUFFICES ASSUME TypeOK, TypeOK', AttemptInv, TeardownInv, [Next]_vars PROVE TeardownInv'
  OBVIOUS
<1>1. CASE UNCHANGED vars
  <2>1. /\ UNCHANGED <<start, row, head, failure, delivery, gen, cur, engine, job, queue, drain>>
        /\ UNCHANGED <<disposal, direct, firstError, disposed, admission, ahead, awaited>>
    BY <1>1 DEF vars, launchVars, durableVars, attemptVars, queueVars, drainVars, closeVars, waitVars
  <2>2. StoreStays /\ StayCounted
    BY <2>1 DEF StoreStays, StayCounted, TeardownInv, AbsentInv
  <2> QED
    BY <2>1, <2>2, AlikeUnchanged, QuietStore, StayKeeps DEF TeardownInv, StoreInv
<1>2. ASSUME NEW r \in Runs, LaunchStep(r) \/ Reserve(r) PROVE TeardownInv'
  BY <1>2, LaunchTeardownInv
<1>3. ASSUME NEW r \in Runs, QueueStep(r) PROVE TeardownInv'
  BY <1>3, QueueTeardownInv
<1>4. ASSUME NEW r \in Runs,
             \/ Ask(r) \/ EngineEvent(r) \/ EngineGate(r) \/ NoticeSettles(r)
             \/ \E g \in Gens : EngineQuiesces(r, g)
      PROVE  TeardownInv'
  BY <1>4, EngineTeardownInv, NoticeTeardownInv
<1>5. ASSUME NEW a \in Agents, OwnerDisposed(a) \/ OwnerStep(a) PROVE TeardownInv'
  BY <1>5, OwnerTeardownInv
<1>6. CASE Dispose \/ DisposeStep
  BY <1>6, DisposeTeardownInv
<1> QED
  BY <1>1, <1>2, <1>3, <1>4, <1>5, <1>6 DEF Next

(* Whatever was queued, attached or failing when dispose was called: each of *)
(* its passes leaves every run terminal, reported as lost, or with the        *)
(* interruption it awaits still in the run's tail; and once it has drained,   *)
(* no run has a current attempt or an operation that may attach one.          *)
THEOREM TeardownAccounts == Spec => []TeardownInv
<1>1. Init => TypeOK /\ AttemptInv /\ TeardownInv
  BY InitTypes, InitAttempts, InitTeardown
<1>2. TypeOK /\ AttemptInv /\ TeardownInv /\ [Next]_vars => (TypeOK /\ AttemptInv /\ TeardownInv)'
  BY StepTypes, StepAttempts, StepTeardown
<1> QED
  BY <1>1, <1>2, PTL DEF Spec

LEMMA AccountsReport == TeardownInv => DisposeReportsLoss
BY DEF TeardownInv, RowInv, DisposeInv, DisposeReportsLoss, KnownRuns

(* dispose never resolves over a run whose row it could not make terminal:    *)
(* such a run has left an error behind, and dispose throws the first of them. *)
THEOREM DisposalReports == Spec => []DisposeReportsLoss
BY TeardownAccounts, AccountsReport, PTL

-----------------------------------------------------------------------------
(***************************************************************************)
(* The rows and the live counters.  terminalize (src/src/supervisor/       *)
(* index.ts) looks at the status of a run only at its entry, so both rest  *)
(* on a run being terminalized by one thread of control at a time.  They   *)
(* are stated for the instances where that is so: the launching call,      *)
(* whose catch terminalizes outside the queue, either cannot fail behind   *)
(* its commit or meets no stop (README, section 10, launch_stop).          *)
(***************************************************************************)
OneTerminalizer == "stop" \notin Controls \/ (Teardown = {} /\ "setup" \notin Faults)

(* start's catch, and terminalize in the queue, between entry and outcome. *)
LaunchFailing(r) == start[r] \in {"drain", "claim"}
Settling(j) == j.pc \in {"drain", "claim"}
Controlled == {"pause", "resume", "raise", "answer"}

(* Only terminalize makes a run terminal, and what a commit expects is at most
   the revision the supervisor knows. *)
JobOrder(j, h) ==
  /\ Settling(j) => h.status \notin TERMINAL
  /\ j.pc = "commit" /\ h.status \notin TERMINAL => j.to \notin TERMINAL
  /\ j.pc \in {"commit", "claim"} /\ h.status \notin TERMINAL => j.rev <= h.rev
  /\ j.op = "resume" \/ j.pc = "rollback" => j.old \in Parked
(* Beside a failing launch no operation of the queue does anything. *)
SoleInv ==
  \A r \in Runs :
    /\ JobOrder(job[r], head[r])
    /\ LaunchFailing(r) => /\ job[r].pc = "idle" /\ gen[r] = 0 /\ head[r].status = "running"
                           /\ \A i \in DOMAIN queue[r] : queue[r][i].op \in Controlled
(* Once a terminal commit was written and its answer lost, every later commit of
   the run is refused. *)
RevInv ==
  \A r \in Runs :
    /\ start[r] = "claim" => startRev[r] <= head[r].rev
    /\ head[r].rev <= row[r].rev
    /\ row[r].status \in TERMINAL /\ ~Terminal(r) => head[r].rev < row[r].rev
(* A teardown looks only at runs whose launching call has ended. *)
PlaceInv ==
  /\ \A a \in Agents : \A r \in drain[a].todo : start[r] = "done"
  /\ Teardown = {} /\ "setup" \notin Faults => \A r \in Runs : ~LaunchFailing(r) /\ ~aborted[r]
SettlementInv == SoleInv /\ RevInv /\ PlaceInv /\ CountersMatchRuns /\ AdmissionWithinLimits
Settlement == OneTerminalizer => SettlementInv

(* An operation that ends, commits, goes on to terminalize or attaches. *)
LEMMA IdleOrder == \A h : JobOrder(Idle, h)
BY DEF Idle, JobOrder, Settling

LEMMA DoneOrder ==
  ASSUME TypeOK, NEW r \in Runs, Done(r)
  PROVE  JobOrder(job'[r], head'[r])
BY DoneGoesOn, IdleOrder

LEMMA CommitOrder ==
  ASSUME TypeOK, NEW r \in Runs, NEW op, NEW to, NEW g, NEW id, Commit(r, op, to, g, id),
         op # "resume", Terminal(r) \/ to \notin TERMINAL, head'[r] = head[r]
  PROVE  JobOrder(job'[r], head'[r])
<1>1. job'[r].op = op /\ job'[r].pc = "commit" /\ job'[r].to = to /\ job'[r].rev = head[r].rev
  BY CommitGoesOn
<1>2. head[r].rev <= head[r].rev
  BY DEF TypeOK, TypeDurable
<1>3. ~Settling(job'[r]) /\ ~(job'[r].op = "resume" \/ job'[r].pc = "rollback")
  BY <1>1 DEF Settling
<1> QED
  BY <1>1, <1>2, <1>3 DEF JobOrder, Terminal

LEMMA TerminalizeOrder ==
  ASSUME TypeOK, NEW r \in Runs, NEW op, NEW to, NEW g, Terminalize(r, op, to, g),
         op # "resume", head'[r] = head[r]
  PROVE  JobOrder(job'[r], head'[r])
<1>1. \/ job'[r] = Idle
      \/ ~Terminal(r) /\ job'[r].op = op /\ job'[r].pc = "drain"
  BY TerminalizeGoesOn
<1> QED
  BY <1>1, IdleOrder DEF JobOrder, Settling, Terminal

LEMMA ReattachOrder ==
  ASSUME TypeOK, NEW r \in Runs, NEW rev \in Nat, NEW old \in Parked, Reattach(r, rev, old),
         head'[r].status \in TERMINAL \/ rev <= head'[r].rev
  PROVE  JobOrder(job'[r], head'[r])
<1>1. CASE Done(r)
  BY <1>1, DoneOrder
<1>2. CASE Suspend(r, [op |-> "resume", pc |-> "commit", to |-> "running",
                rev |-> rev, g |-> gen[r] + 1, id |-> 0, old |-> old])
  <2>1. job'[r] = [op |-> "resume", pc |-> "commit", to |-> "running",
                rev |-> rev, g |-> gen[r] + 1, id |-> 0, old |-> old]
    BY <1>2, SuspendGoesOn
  <2>2. job'[r].op = "resume" /\ job'[r].pc = "commit" /\ job'[r].to = "running" /\ job'[r].rev = rev /\ job'[r].old = old
    BY <2>1
  <2>3. "running" \notin TERMINAL
    BY DEF TERMINAL
  <2> QED
    BY <2>2, <2>3 DEF JobOrder, Settling
<1> QED
  BY <1>1, <1>2 DEF Reattach

-----------------------------------------------------------------------------
(* What the operations of the queue leave behind. *)
LEMMA HeadKept == ASSUME UNCHANGED durableVars PROVE UNCHANGED <<head, row, delivery>>
BY DEF durableVars

LEMMA AcknowledgeOrder ==
  ASSUME TypeOK, NEW r \in Runs, Acknowledge(r), head'[r] = head[r]
  PROVE  JobOrder(job'[r], head'[r])
<1>1. "running" \notin TERMINAL /\ "pausing" \notin TERMINAL
  BY DEF TERMINAL
<1>2. CASE Commit(r, "unpark", "running", cur[r], gate[r].id)
  BY <1>1, <1>2, CommitOrder
<1>3. CASE Commit(r, "replace", "pausing", cur[r], gate[r].id)
  BY <1>1, <1>3, CommitOrder
<1> QED
  BY <1>2, <1>3 DEF Acknowledge

LEMMA BeginOrder ==
  ASSUME TypeOK, NEW r \in Runs,
         \/ BeginPause(r) \/ BeginStop(r) \/ BeginResume(r, "resume") \/ BeginResume(r, "raise")
         \/ BeginAnswer(r) \/ BeginGate(r) \/ BeginEvent(r) \/ BeginSettle(r) \/ BeginTerminal(r)
  PROVE  /\ JobOrder(job'[r], head'[r])
         /\ UNCHANGED <<head, row, delivery, launchVars, capacityVars>>
<1>0. \A s \in {"pausing", "stopping", "needs-input", "running"} : s \notin TERMINAL
  BY DEF TERMINAL
<1>1. CASE BeginPause(r)
  <2>1. UNCHANGED <<head, row, delivery, launchVars, capacityVars>>
    BY <1>1, HeadKept DEF BeginPause
  <2>2. Done(r) \/ Commit(r, "pause", "pausing", cur[r], 0)
    BY <1>1 DEF BeginPause
  <2> QED
    BY <1>0, <2>1, <2>2, DoneOrder, CommitOrder
<1>2. CASE BeginStop(r)
  <2>1. UNCHANGED <<head, row, delivery, launchVars, capacityVars>>
    BY <1>2, HeadKept DEF BeginStop
  <2>2. Done(r) \/ Commit(r, "stop", "stopping", cur[r], 0) \/ Terminalize(r, "stop", "cancelled", 0)
    BY <1>2 DEF BeginStop
  <2> QED
    BY <1>0, <2>1, <2>2, DoneOrder, CommitOrder, TerminalizeOrder
<1>3. ASSUME NEW op \in {"resume", "raise"}, BeginResume(r, op)
      PROVE  /\ JobOrder(job'[r], head'[r])
             /\ UNCHANGED <<head, row, delivery, launchVars, capacityVars>>
  <2>1. UNCHANGED <<head, row, delivery, launchVars, capacityVars>>
    BY <1>3, HeadKept DEF BeginResume
  <2>2. \/ Done(r) \/ Acknowledge(r)
        \/ head[r].status \in Resumable(r, op) /\ Reattach(r, head[r].rev, head[r].status)
    BY <1>3 DEF BeginResume
  <2>3. head[r].rev \in Nat /\ head[r].rev <= head[r].rev /\ Resumable(r, op) \subseteq Parked
    BY DEF TypeOK, TypeDurable, Resumable, Parked
  <2> QED
    BY <2>1, <2>2, <2>3, DoneOrder, AcknowledgeOrder, ReattachOrder
<1>4. CASE BeginAnswer(r)
  <2>1. UNCHANGED <<head, row, delivery, launchVars, capacityVars>>
    BY <1>4, HeadKept DEF BeginAnswer
  <2>2. Done(r) \/ Acknowledge(r)
    BY <1>4 DEF BeginAnswer
  <2> QED
    BY <2>1, <2>2, DoneOrder, AcknowledgeOrder
<1>5. CASE BeginGate(r)
  <2>1. UNCHANGED <<head, row, delivery, launchVars, capacityVars>>
    BY <1>5, HeadKept DEF BeginGate
  <2>2. Done(r) \/ Commit(r, "gate", "needs-input", Head(queue[r]).g, Head(queue[r]).id)
    BY <1>5 DEF BeginGate
  <2> QED
    BY <1>0, <2>1, <2>2, DoneOrder, CommitOrder
<1>6. CASE BeginEvent(r)
  <2>1. UNCHANGED <<head, row, delivery, launchVars, capacityVars>>
    BY <1>6, HeadKept DEF BeginEvent
  <2>2. Done(r) \/ Commit(r, "event", head[r].status, Head(queue[r]).g, 0)
    BY <1>6 DEF BeginEvent
  <2>3. Terminal(r) \/ head[r].status \notin TERMINAL
    BY DEF Terminal
  <2> QED
    BY <2>1, <2>2, <2>3, DoneOrder, CommitOrder
<1>7. CASE BeginSettle(r)
  <2> DEFINE g  == Head(queue[r]).g
             to == SettledAs(engine[r][g].out, engine[r][g].intent)
  <2>1. UNCHANGED <<head, row, delivery, launchVars, capacityVars>>
    BY <1>7, HeadKept DEF BeginSettle
  <2>2. Done(r) \/ Terminalize(r, "settle", to, g) \/ (to \notin TERMINAL /\ Commit(r, "settle", to, g, 0))
    BY <1>7 DEF BeginSettle
  <2> HIDE DEF to, g
  <2> QED
    BY <2>1, <2>2, DoneOrder, CommitOrder, TerminalizeOrder
<1>8. CASE BeginTerminal(r)
  <2>1. UNCHANGED <<head, row, delivery, launchVars, capacityVars>>
    BY <1>8, HeadKept DEF BeginTerminal
  <2>2. Terminalize(r, "teardown", "interrupted", 0) \/ Terminalize(r, "failStart", "failed", 0)
    BY <1>8 DEF BeginTerminal
  <2> QED
    BY <2>1, <2>2, TerminalizeOrder
<1> QED
  BY <1>1, <1>2, <1>3, <1>4, <1>5, <1>6, <1>7, <1>8

LEMMA AwaitOrder ==
  ASSUME TypeOK, AttemptInv, SoleInv, NEW r \in Runs, AttemptQuiesced(r) \/ RollbackQuiesced(r) \/ Drained(r)
  PROVE  /\ JobOrder(job'[r], head'[r])
         /\ UNCHANGED <<head, row, delivery, launchVars, capacityVars>>
<1>0. JobOrder(job[r], head[r]) /\ job[r] \in JobRecord
  BY JobFields DEF SoleInv, TypeOK
<1>1. CASE AttemptQuiesced(r)
  <2>1. UNCHANGED <<head, row, delivery, launchVars, capacityVars>>
    BY <1>1, HeadKept DEF AttemptQuiesced
  <2>2. \/ Done(r) \/ Terminalize(r, job[r].op, "failed", 0) \/ Terminalize(r, "stop", "cancelled", 0)
        \/ Commit(r, job[r].op, "paused", 0, 0)
    BY <1>1 DEF AttemptQuiesced
  <2>3. job[r].op # "resume"
    BY <1>1 DEF AttemptQuiesced, AttemptInv, DroppedInv
  <2>4. "paused" \notin TERMINAL
    BY DEF TERMINAL
  <2> QED
    BY <2>1, <2>2, <2>3, <2>4, DoneOrder, CommitOrder, TerminalizeOrder
<1>2. CASE RollbackQuiesced(r)
  <2>1. UNCHANGED <<head, row, delivery, launchVars, capacityVars>>
    BY <1>2, HeadKept DEF RollbackQuiesced
  <2>2. Done(r) \/ Commit(r, "restore", job[r].old, 0, 0)
    BY <1>2 DEF RollbackQuiesced
  <2>3. job[r].old \notin TERMINAL
    BY <1>0, <1>2 DEF RollbackQuiesced, JobOrder, Parked, TERMINAL
  <2> QED
    BY <2>1, <2>2, <2>3, DoneOrder, CommitOrder
<1>3. CASE Drained(r)
  <2>1. UNCHANGED <<head, row, delivery, launchVars, capacityVars>>
    BY <1>3, HeadKept DEF Drained
  <2> DEFINE step == [job[r] EXCEPT !.pc = "claim", !.rev = head[r].rev]
  <2>2. step.pc = "claim" /\ step.op = job[r].op /\ step.rev = head[r].rev /\ step.old = job[r].old
    BY <1>0 DEF JobRecord
  <2>3. Suspend(r, step)
    BY <1>3 DEF Drained
  <2> HIDE DEF step
  <2>4. job'[r] = step
    BY <2>2, <2>3, SuspendGoesOn
  <2>5. job[r].pc = "drain" /\ head[r].rev <= head[r].rev
    BY <1>3 DEF Drained, TypeOK, TypeDurable
  <2> QED
    BY <1>0, <2>1, <2>2, <2>4, <2>5 DEF JobOrder, Settling
<1> QED
  BY <1>1, <1>2, <1>3

-----------------------------------------------------------------------------
(* One store transaction of a run that is not settled: refused, or it moves the row
   one revision on; the supervisor learns of it, or its answer is lost. *)
Uncounts(r) ==
  /\ activeTotal' = Less(activeTotal)
  /\ activeSession' = [activeSession EXCEPT ![Owner[r]] = Less(@)]
Elsewhere(r) == \A q \in Runs \ {r} : row'[q] = row[q] /\ head'[q] = head[q]
StoreMove(r) ==
  /\ Elsewhere(r)
  /\ \/ UNCHANGED capacityVars /\ row'[r] = row[r] /\ head'[r] = head[r]
     \/ /\ ~Terminal(r) /\ row[r].rev <= head[r].rev /\ row'[r].rev = row[r].rev + 1
        /\ \/ /\ UNCHANGED capacityVars
              /\ row'[r].status \notin TERMINAL /\ row'[r].status # "absent" /\ head'[r].status \notin TERMINAL
              /\ head'[r].rev \in {head[r].rev, row'[r].rev}
           \/ UNCHANGED capacityVars /\ row'[r].status \in TERMINAL /\ head'[r] = head[r]
           \/ /\ Uncounts(r)
              /\ row'[r].status \in TERMINAL /\ head'[r].status \in TERMINAL /\ head'[r].rev = row'[r].rev

(* The revisions a store function writes; nothing else of the other runs. *)
LEMMA WrittenRow ==
  ASSUME TypeOK, NEW r \in Runs, NEW rev \in Nat, NEW res \in Results(r, rev), NEW to, NEW notice,
         Write(r, res, to, notice)
  PROVE  /\ \A q \in Runs \ {r} : row'[q] = row[q]
         /\ \/ res \notin {"ok", "late"} /\ row'[r] = row[r]
            \/ /\ res \in {"ok", "late"} /\ row[r].rev = rev
               /\ row'[r].status = to /\ row'[r].rev = row[r].rev + 1
<1>1. CASE row[r].rev # rev
  <2>1. res = "stale"
    BY <1>1 DEF Results
  <2> QED
    BY <2>1 DEF Write
<1>2. CASE row[r].rev = rev
  BY <1>2 DEF Write, TypeOK, TypeDurable
<1> QED
  BY <1>1, <1>2

LEMMA SettleMove ==
  ASSUME TypeOK, NEW r \in Runs, NEW rev \in Nat, NEW to \in TERMINAL, ~Terminal(r), rev <= head[r].rev,
         TerminalSettles(r, rev, to)
  PROVE  StoreMove(r)
<1>1. PICK res \in Results(r, rev) :
        /\ Write(r, res, to, "claimed")
        /\ \/ /\ res = "ok"
              /\ head' = [head EXCEPT ![r] = [status |-> to, rev |-> rev + 1]]
              /\ Uncounts(r)
           \/ /\ res # "ok"
              /\ UNCHANGED <<head, capacityVars>>
  BY DEF TerminalSettles, Uncounts
<1>2. /\ \A q \in Runs \ {r} : row'[q] = row[q]
      /\ \/ res \notin {"ok", "late"} /\ row'[r] = row[r]
         \/ /\ res \in {"ok", "late"} /\ row[r].rev = rev
            /\ row'[r].status = to /\ row'[r].rev = row[r].rev + 1
  BY <1>1, WrittenRow
<1>3. CASE res = "ok"
  <2>1. /\ head'[r].status = to /\ head'[r].rev = rev + 1 /\ Uncounts(r)
        /\ \A q \in Runs \ {r} : head'[q] = head[q]
    BY <1>1, <1>3 DEF TypeOK, TypeDurable
  <2> QED
    BY <1>2, <1>3, <2>1 DEF StoreMove, Elsewhere
<1>4. CASE res # "ok"
  <2>1. UNCHANGED <<head, capacityVars>>
    BY <1>1, <1>4
  <2> QED
    BY <1>2, <2>1 DEF StoreMove, Elsewhere
<1> QED
  BY <1>3, <1>4

LEMMA SettledMove ==
  ASSUME TypeOK, AttemptInv, SoleInv, NEW r \in Runs, TerminalSettled(r)
  PROVE  StoreMove(r) /\ JobOrder(job'[r], head'[r]) /\ UNCHANGED launchVars
<1>1. job[r].pc = "claim" /\ TerminalSettles(r, job[r].rev, job[r].to) /\ Done(r) /\ UNCHANGED launchVars
  BY DEF TerminalSettled
<1>2. job[r].to \in TERMINAL /\ job[r].rev \in Nat
  BY <1>1, JobFields DEF AttemptInv, ParkedInv, TypeOK, JobRecord
<1>3. ~Terminal(r) /\ job[r].rev <= head[r].rev
  BY <1>1 DEF SoleInv, JobOrder, Settling, Terminal
<1> QED
  BY <1>1, <1>2, <1>3, SettleMove, DoneOrder

LEMMA CommittedOrder ==
  ASSUME TypeOK, SoleInv, NEW r \in Runs, job[r].pc = "commit", Committed(r),
         head'[r].status \in TERMINAL \/ job[r].rev + 1 <= head'[r].rev
  PROVE  JobOrder(job'[r], head'[r])
<1> DEFINE j == job[r]
<1>0. JobOrder(j, head[r]) /\ j \in JobRecord
  BY JobFields DEF SoleInv, TypeOK
<1>1. CASE j.op \in {"pause", "stop", "replace"} /\ Suspend(r, [j EXCEPT !.pc = "quiesce"])
  <2>1. [j EXCEPT !.pc = "quiesce"].pc = "quiesce" /\ [j EXCEPT !.pc = "quiesce"].op = j.op
    BY <1>0 DEF JobRecord
  <2> HIDE DEF j
  <2>2. job'[r] = [j EXCEPT !.pc = "quiesce"]
    BY <1>1, <2>1, SuspendGoesOn
  <2> QED
    BY <1>1, <2>1, <2>2 DEF JobOrder, Settling
<1>2. CASE Reattach(r, j.rev + 1, "paused")
  <2>1. j.rev + 1 \in Nat /\ "paused" \in Parked
    BY <1>0 DEF JobRecord, Parked
  <2> QED
    BY <1>2, <2>1, ReattachOrder
<1>3. CASE Done(r)
  BY <1>3, DoneOrder
<1>4. CASE j.op = "resume" /\ Suspend(r, [j EXCEPT !.op = "restore", !.pc = "rollback"])
  <2>1. /\ [j EXCEPT !.op = "restore", !.pc = "rollback"].pc = "rollback"
        /\ [j EXCEPT !.op = "restore", !.pc = "rollback"].op = "restore"
        /\ [j EXCEPT !.op = "restore", !.pc = "rollback"].old = j.old
    BY <1>0 DEF JobRecord
  <2>2. j.old \in Parked
    BY <1>0, <1>4 DEF JobOrder
  <2> HIDE DEF j
  <2>3. job'[r] = [j EXCEPT !.op = "restore", !.pc = "rollback"]
    BY <1>4, <2>1, SuspendGoesOn
  <2> QED
    BY <2>1, <2>2, <2>3 DEF JobOrder, Settling
<1> QED
  BY <1>1, <1>2, <1>3, <1>4 DEF Committed

LEMMA NotCommittedOrder ==
  ASSUME TypeOK, SoleInv, NEW r \in Runs, job[r].pc = "commit", NotCommitted(r), UNCHANGED head
  PROVE  JobOrder(job'[r], head'[r])
<1> DEFINE j == job[r]
<1>0. JobOrder(j, head[r]) /\ j \in JobRecord
  BY JobFields DEF SoleInv, TypeOK
<1>1. CASE j.op = "resume" /\ Suspend(r, [j EXCEPT !.pc = "rollback"])
  <2>1. [j EXCEPT !.pc = "rollback"].pc = "rollback" /\ [j EXCEPT !.pc = "rollback"].old = j.old
    BY <1>0 DEF JobRecord
  <2>2. j.old \in Parked
    BY <1>0, <1>1 DEF JobOrder
  <2> HIDE DEF j
  <2>3. job'[r] = [j EXCEPT !.pc = "rollback"]
    BY <1>1, <2>1, SuspendGoesOn
  <2> QED
    BY <2>1, <2>2, <2>3 DEF JobOrder, Settling
<1>2. CASE Terminalize(r, "restore", "failed", 0)
  BY <1>2, TerminalizeOrder
<1>3. CASE Done(r)
  BY <1>3, DoneOrder
<1> QED
  BY <1>1, <1>2, <1>3 DEF NotCommitted

LEMMA CommitMove ==
  ASSUME TypeOK, RowInv, SoleInv, NEW r \in Runs, CommitSettles(r)
  PROVE  StoreMove(r) /\ JobOrder(job'[r], head'[r]) /\ UNCHANGED launchVars
<1>1. /\ job[r].pc = "commit" /\ UNCHANGED <<launchVars, capacityVars>> /\ job[r] \in JobRecord
      /\ job[r].to # "absent"
  BY JobFields DEF CommitSettles, TypeOK, RowInv
<1>2. ~Terminal(r) => job[r].to \notin TERMINAL /\ job[r].rev <= head[r].rev
  BY <1>1 DEF SoleInv, JobOrder, Terminal
<1>3. CASE Terminal(r) /\ Committed(r) /\ UNCHANGED <<head, row>>
  <2>1. StoreMove(r)
    BY <1>1, <1>3 DEF StoreMove, Elsewhere
  <2> QED
    BY <1>1, <1>3, <2>1, CommittedOrder DEF Terminal
<1>4. CASE /\ ~Terminal(r) /\ row[r].rev = job[r].rev /\ Committed(r)
           /\ row'  = [row  EXCEPT ![r].status = job[r].to, ![r].rev = job[r].rev + 1]
           /\ head' = [head EXCEPT ![r] = [status |-> job[r].to, rev |-> job[r].rev + 1]]
  <2>1. /\ Elsewhere(r) /\ row'[r].status = job[r].to /\ row'[r].rev = row[r].rev + 1
        /\ head'[r].status = job[r].to /\ head'[r].rev = job[r].rev + 1
    BY <1>4 DEF Elsewhere, TypeOK, TypeDurable
  <2>2. StoreMove(r)
    BY <1>1, <1>2, <1>4, <2>1 DEF StoreMove
  <2>3. job[r].rev + 1 <= head'[r].rev
    BY <1>1, <2>1 DEF JobRecord
  <2> QED
    BY <1>1, <1>4, <2>2, <2>3, CommittedOrder
<1>5. CASE /\ ~Terminal(r) /\ NotCommitted(r) /\ UNCHANGED head
           /\ \E res \in Results(r, job[r].rev) \ {"ok"} : Write(r, res, job[r].to, row[r].notice)
  <2>1. PICK res \in Results(r, job[r].rev) \ {"ok"} : Write(r, res, job[r].to, row[r].notice)
    BY <1>5
  <2>2. /\ \A q \in Runs \ {r} : row'[q] = row[q]
        /\ \/ row'[r] = row[r]
           \/ row[r].rev = job[r].rev /\ row'[r].status = job[r].to /\ row'[r].rev = row[r].rev + 1
    BY <1>1, <2>1, WrittenRow DEF JobRecord
  <2>3. StoreMove(r)
    BY <1>1, <1>2, <1>5, <2>2 DEF StoreMove, Elsewhere, Terminal
  <2> QED
    BY <1>1, <1>5, <2>3, NotCommittedOrder
<1> QED
  BY <1>3, <1>4, <1>5 DEF CommitSettles

LEMMA QueueMove ==
  ASSUME TypeOK, AttemptInv, RowInv, SoleInv, NEW r \in Runs, QueueStep(r)
  PROVE  StoreMove(r) /\ JobOrder(job'[r], head'[r]) /\ UNCHANGED launchVars
<1>1. CASE TerminalSettled(r)
  BY <1>1, SettledMove
<1>2. CASE CommitSettles(r)
  BY <1>2, CommitMove
<1>3. CASE AttemptQuiesced(r) \/ RollbackQuiesced(r) \/ Drained(r)
  BY <1>3, AwaitOrder DEF StoreMove, Elsewhere
<1>4. CASE \/ BeginPause(r) \/ BeginStop(r) \/ BeginResume(r, "resume") \/ BeginResume(r, "raise")
           \/ BeginAnswer(r) \/ BeginGate(r) \/ BeginEvent(r) \/ BeginSettle(r) \/ BeginTerminal(r)
  BY <1>4, BeginOrder DEF StoreMove, Elsewhere
<1> QED
  BY <1>1, <1>2, <1>3, <1>4 DEF QueueStep

-----------------------------------------------------------------------------
(* The live counters, as sets. *)
Counting == {r \in KnownRuns : ~Terminal(r)}

LEMMA FiniteRuns ==
  ASSUME NEW S \in SUBSET Runs
  PROVE  IsFiniteSet(S) /\ Cardinality(S) \in Nat
BY ConstantsAssumption, FS_Subset, FS_CardinalityType

LEMMA CountedSets ==
  /\ Counting \subseteq Runs
  /\ \A a \in Agents : Owned(a) \subseteq Runs
  /\ CountersMatchRuns <=> /\ activeTotal = Cardinality(Counting)
                           /\ \A a \in Agents : activeSession[a] = Cardinality(Owned(a) \cap Counting)
<1>1. \A a \in Agents : {r \in Owned(a) \cap KnownRuns : ~Terminal(r)} = Owned(a) \cap Counting
  BY DEF Counting
<1>2. Counting \subseteq Runs /\ \A a \in Agents : Owned(a) \subseteq Runs
  BY DEF Counting, KnownRuns, Owned
<1> QED
  BY <1>1, <1>2 DEF CountersMatchRuns, Counting

LEMMA CountedSetsNext == TRUE =>
  (/\ Counting \subseteq Runs
   /\ \A a \in Agents : Owned(a) \subseteq Runs
   /\ CountersMatchRuns <=> /\ activeTotal = Cardinality(Counting)
                            /\ \A a \in Agents : activeSession[a] = Cardinality(Owned(a) \cap Counting))'
BY CountedSets, PTL

LEMMA CountStays ==
  ASSUME CountersMatchRuns, Counting' = Counting, UNCHANGED capacityVars
  PROVE  CountersMatchRuns'
BY CountedSets, CountedSetsNext DEF capacityVars

LEMMA CountDrops ==
  ASSUME TypeOK, CountersMatchRuns, NEW r \in Counting, Counting' = Counting \ {r}, Uncounts(r)
  PROVE  CountersMatchRuns'
<1>0. r \in Runs /\ Owner[r] \in Agents /\ \A a \in Agents : r \in Owned(a) <=> Owner[r] = a
  BY CountedSets, ConstantsAssumption DEF Owned
<1>1. activeTotal' = Cardinality(Counting')
  <2>1. IsFiniteSet(Counting) /\ Cardinality(Counting) \in Nat /\ Cardinality(Counting \ {r}) \in Nat
    BY CountedSets, FiniteRuns
  <2>2. Cardinality(Counting \ {r}) = Cardinality(Counting) - 1
    BY <2>1, FS_RemoveElement
  <2> QED
    BY <2>1, <2>2, CountedSets DEF Uncounts, Less
<1>2. ASSUME NEW a \in Agents PROVE activeSession'[a] = Cardinality(Owned(a) \cap Counting')
  <2> DEFINE S == Owned(a) \cap Counting
  <2>1. IsFiniteSet(S) /\ Cardinality(S) \in Nat /\ Cardinality(S \ {r}) \in Nat
    BY CountedSets, FiniteRuns
  <2>2. Owned(a) \cap Counting' = S \ {r} /\ (r \in S <=> Owner[r] = a)
    BY <1>0
  <2>3. Cardinality(S \ {r}) = IF r \in S THEN Cardinality(S) - 1 ELSE Cardinality(S)
    BY <2>1, FS_RemoveElement
  <2>4. activeSession[a] = Cardinality(S)
    BY CountedSets
  <2>5. activeSession'[a] = IF Owner[r] = a THEN Less(activeSession[a]) ELSE activeSession[a]
    BY <1>0 DEF Uncounts, TypeOK, TypeCapacity
  <2> HIDE DEF S
  <2>6. CASE Owner[r] = a
    <3>1. Cardinality(S \ {r}) = Cardinality(S) - 1 /\ activeSession'[a] = Less(Cardinality(S))
      BY <2>2, <2>3, <2>4, <2>5, <2>6
    <3>2. Less(Cardinality(S)) = Cardinality(S \ {r})
      BY <2>1, <3>1 DEF Less
    <3> QED
      BY <2>2, <3>1, <3>2
  <2>7. CASE Owner[r] # a
    BY <2>2, <2>3, <2>4, <2>5, <2>7
  <2> QED
    BY <2>6, <2>7
<1> QED
  BY <1>1, <1>2, CountedSetsNext

LEMMA CountGrows ==
  ASSUME TypeOK, CountersMatchRuns, NEW r \in Runs \ Counting, Counting' = Counting \cup {r}, Publish(r)
  PROVE  CountersMatchRuns'
<1>0. Owner[r] \in Agents /\ \A a \in Agents : r \in Owned(a) <=> Owner[r] = a
  BY ConstantsAssumption DEF Owned
<1>1. activeTotal' = Cardinality(Counting')
  <2>1. IsFiniteSet(Counting)
    BY CountedSets, FiniteRuns
  <2>2. Cardinality(Counting \cup {r}) = Cardinality(Counting) + 1
    BY <2>1, FS_AddElement
  <2> QED
    BY <2>2, CountedSets DEF Publish
<1>2. ASSUME NEW a \in Agents PROVE activeSession'[a] = Cardinality(Owned(a) \cap Counting')
  <2> DEFINE S == Owned(a) \cap Counting
  <2>1. IsFiniteSet(S) /\ r \notin S
    BY CountedSets, FiniteRuns
  <2>2. Owned(a) \cap Counting' = IF Owner[r] = a THEN S \cup {r} ELSE S
    BY <1>0
  <2>3. Cardinality(S \cup {r}) = Cardinality(S) + 1
    BY <2>1, FS_AddElement
  <2>4. activeSession[a] = Cardinality(S)
    BY CountedSets
  <2>5. activeSession'[a] = IF Owner[r] = a THEN activeSession[a] + 1 ELSE activeSession[a]
    BY <1>0 DEF Publish, TypeOK, TypeCapacity
  <2> HIDE DEF S
  <2> QED
    BY <2>2, <2>3, <2>4, <2>5
<1> QED
  BY <1>1, <1>2, CountedSetsNext

-----------------------------------------------------------------------------
(* The limits. *)
Occupies(r) == Pending(r) \/ (Durable(r) /\ row[r].status \notin TERMINAL)
Occupied == {r \in Runs : Occupies(r)}

LEMMA LimitSets ==
  AdmissionWithinLimits <=> /\ Cardinality(Occupied) <= MaxRunsGlobal
                            /\ \A a \in Agents : Cardinality(Occupied \cap Owned(a)) <= MaxRunsPerSession
BY DEF AdmissionWithinLimits, Occupied, Occupies

LEMMA LimitSetsNext == TRUE =>
  (AdmissionWithinLimits <=> /\ Cardinality(Occupied) <= MaxRunsGlobal
                             /\ \A a \in Agents : Cardinality(Occupied \cap Owned(a)) <= MaxRunsPerSession)'
BY LimitSets, PTL

LEMMA LimitsKept ==
  ASSUME AdmissionWithinLimits, \A r \in Runs : Occupies(r)' => Occupies(r)
  PROVE  AdmissionWithinLimits'
<1>1. Occupied' \subseteq Occupied /\ Occupied \subseteq Runs
  BY DEF Occupied
<1>2. /\ Cardinality(Occupied') <= Cardinality(Occupied)
      /\ \A a \in Agents : Cardinality(Occupied' \cap Owned(a)) <= Cardinality(Occupied \cap Owned(a))
  <2>1. IsFiniteSet(Occupied) /\ \A a \in Agents : IsFiniteSet(Occupied \cap Owned(a))
    BY <1>1, FiniteRuns
  <2>2. Cardinality(Occupied') <= Cardinality(Occupied)
    BY <1>1, <2>1, FS_Subset
  <2>3. ASSUME NEW a \in Agents PROVE Cardinality(Occupied' \cap Owned(a)) <= Cardinality(Occupied \cap Owned(a))
    <3>1. Occupied' \cap Owned(a) \in SUBSET (Occupied \cap Owned(a))
      BY <1>1
    <3> QED
      BY <2>1, <3>1, FS_Subset
  <2> QED
    BY <2>2, <2>3
<1>3. /\ Cardinality(Occupied') \in Nat /\ Cardinality(Occupied) \in Nat
      /\ \A a \in Agents : /\ Cardinality(Occupied' \cap Owned(a)) \in Nat
                           /\ Cardinality(Occupied \cap Owned(a)) \in Nat
  <2>1. \A a \in Agents : Occupied' \cap Owned(a) \in SUBSET Runs /\ Occupied \cap Owned(a) \in SUBSET Runs
    BY <1>1
  <2> QED
    BY <1>1, <2>1, FiniteRuns
<1>4. MaxRunsGlobal \in Nat /\ MaxRunsPerSession \in Nat
  BY ConstantsAssumption
<1>5. Cardinality(Occupied') <= MaxRunsGlobal
  BY <1>2, <1>3, <1>4, LimitSets
<1>6. ASSUME NEW a \in Agents PROVE Cardinality(Occupied' \cap Owned(a)) <= MaxRunsPerSession
  <2> DEFINE m == Cardinality(Occupied' \cap Owned(a))
             n == Cardinality(Occupied \cap Owned(a))
  <2>1. m \in Nat /\ n \in Nat /\ m <= n
    BY <1>2, <1>3
  <2>2. n <= MaxRunsPerSession
    BY LimitSets
  <2> HIDE DEF m, n
  <2>3. m <= MaxRunsPerSession
    BY <1>4, <2>1, <2>2
  <2> QED
    BY <2>3 DEF m
<1> QED
  BY <1>5, <1>6, LimitSetsNext

-----------------------------------------------------------------------------
(* What one store transaction keeps. *)
LEMMA MoveFinal ==
  ASSUME TypeOK, RevInv, NEW r \in Runs, StoreMove(r)
  PROVE  \A q \in Runs : row[q].status \in TERMINAL => row'[q].status = row[q].status
<1>1. \A q \in Runs \ {r} : row'[q] = row[q]
  BY DEF StoreMove, Elsewhere
<1>2. head[r].rev \in Nat /\ row[r].rev \in Nat
  BY DEF TypeOK, TypeDurable
<1>3. ~Terminal(r) /\ row[r].rev <= head[r].rev => row[r].status \notin TERMINAL
  BY <1>2 DEF RevInv
<1>4. row[r].status \in TERMINAL => row'[r] = row[r]
  BY <1>3 DEF StoreMove
<1> QED
  BY <1>1, <1>4

LEMMA MoveRev ==
  ASSUME TypeOK, RevInv, NEW r \in Runs, StoreMove(r),
         \A q \in Runs : start'[q] = "claim" => start[q] = "claim" /\ startRev'[q] = startRev[q],
         startRev \in [Runs -> Nat]
  PROVE  RevInv'
<1> SUFFICES ASSUME NEW q \in Runs
             PROVE  /\ start'[q] = "claim" => startRev'[q] <= head'[q].rev
                    /\ head'[q].rev <= row'[q].rev
                    /\ row'[q].status \in TERMINAL /\ ~Terminal(q)' => head'[q].rev < row'[q].rev
  BY DEF RevInv
<1>0. /\ start[q] = "claim" => startRev[q] <= head[q].rev
      /\ head[q].rev <= row[q].rev
      /\ row[q].status \in TERMINAL /\ ~Terminal(q) => head[q].rev < row[q].rev
  BY DEF RevInv
<1>1. head[q].rev \in Nat /\ row[q].rev \in Nat /\ startRev[q] \in Nat
  BY DEF TypeOK, TypeDurable
<1>2. CASE row'[q] = row[q] /\ head'[q] = head[q]
  BY <1>0, <1>2 DEF Terminal
<1>3. CASE q = r /\ ~(row'[r] = row[r] /\ head'[r] = head[r])
  <2>1. /\ ~Terminal(q) /\ row[q].rev <= head[q].rev /\ row'[q].rev = row[q].rev + 1
        /\ \/ /\ row'[q].status \notin TERMINAL
              /\ head'[q].rev \in {head[q].rev, row'[q].rev}
           \/ head'[q] = head[q]
           \/ head'[q].status \in TERMINAL /\ head'[q].rev = row'[q].rev
    BY <1>3 DEF StoreMove
  <2>2. head'[q].rev = head[q].rev \/ head'[q].rev = row[q].rev + 1
    BY <2>1
  <2>3. head'[q].rev <= row'[q].rev /\ head[q].rev <= head'[q].rev
    BY <1>0, <1>1, <2>1, <2>2
  <2>4. start'[q] = "claim" => startRev'[q] <= head'[q].rev
    <3>1. start'[q] = "claim" => startRev'[q] = startRev[q] /\ startRev[q] <= head[q].rev
      BY <1>0
    <3>2. head'[q].rev \in Nat
      BY <1>1, <2>2
    <3> QED
      BY <1>1, <2>3, <3>1, <3>2
  <2>5. row'[q].status \in TERMINAL /\ ~Terminal(q)' => head'[q].rev < row'[q].rev
    <3>1. row'[q].status \in TERMINAL /\ ~Terminal(q)' => head'[q] = head[q]
      BY <2>1 DEF Terminal
    <3>2. head[q].rev < row'[q].rev
      BY <1>0, <1>1, <2>1
    <3> QED
      BY <3>1, <3>2
  <2> QED
    BY <2>3, <2>4, <2>5
<1>4. q # r => row'[q] = row[q] /\ head'[q] = head[q]
  BY DEF StoreMove, Elsewhere
<1> QED
  BY <1>2, <1>3, <1>4

LEMMA MoveCount ==
  ASSUME TypeOK, CountersMatchRuns, NEW r \in KnownRuns, StoreMove(r), KnownRuns' = KnownRuns
  PROVE  CountersMatchRuns'
<1>0. r \in Runs /\ KnownRuns \subseteq Runs
  BY DEF KnownRuns
<1>1. \A q \in Runs \ {r} : Terminal(q)' <=> Terminal(q)
  BY DEF StoreMove, Elsewhere, Terminal
<1>2. CASE UNCHANGED capacityVars /\ (Terminal(r)' <=> Terminal(r))
  <2>1. Counting' = Counting
    BY <1>0, <1>1, <1>2 DEF Counting
  <2> QED
    BY <1>2, <2>1, CountStays
<1>3. CASE ~Terminal(r) /\ Terminal(r)' /\ Uncounts(r)
  <2>1. r \in Counting /\ Counting' = Counting \ {r}
    BY <1>0, <1>1, <1>3 DEF Counting
  <2> QED
    BY <1>3, <2>1, CountDrops
<1>4. \/ UNCHANGED capacityVars /\ (Terminal(r)' <=> Terminal(r))
      \/ ~Terminal(r) /\ Terminal(r)' /\ Uncounts(r)
  BY DEF StoreMove, Terminal
<1> QED
  BY <1>2, <1>3, <1>4

LEMMA MoveLimits ==
  ASSUME TypeOK, RevInv, AdmissionWithinLimits, NEW r \in Runs, StoreMove(r), Durable(r),
         \A q \in Runs : Pending(q)' => Pending(q)
  PROVE  AdmissionWithinLimits'
<1>1. \A q \in Runs : Durable(q)' => Durable(q)
  BY DEF StoreMove, Elsewhere, Durable
<1>2. \A q \in Runs : Occupies(q)' => Occupies(q)
  BY <1>1, MoveFinal DEF Occupies
<1> QED
  BY <1>2, LimitsKept

-----------------------------------------------------------------------------
(* While a launch is failing, what the queue holds does nothing. *)
LEMMA BesideLaunch ==
  ASSUME TypeOK, AttemptInv, SoleInv, NEW r \in Runs, LaunchFailing(r), QueueStep(r)
  PROVE  /\ job'[r] = Idle /\ gen'[r] = gen[r] /\ head'[r] = head[r]
         /\ queue[r] # <<>> /\ queue'[r] = Tail(queue[r])
<1>1. /\ job[r].pc = "idle" /\ gen[r] = 0 /\ head[r].status = "running"
      /\ \A i \in DOMAIN queue[r] : queue[r][i].op \in Controlled
  BY DEF SoleInv
<1>2. cur[r] = 0
  BY <1>1 DEF AttemptInv, GenerationInv
<1>3. queue[r] # <<>> => Head(queue[r]).op \in Controlled
  <2>1. queue[r] # <<>> => 1 \in DOMAIN queue[r]
    BY DEF TypeOK, TypeQueue
  <2> QED
    BY <1>1, <2>1
<1>4. \A op : Ready(r, op) => op \in Controlled
  BY <1>3 DEF Ready
<1>5. BeginPause(r) \/ BeginResume(r, "resume") \/ BeginResume(r, "raise") \/ BeginAnswer(r)
  <2>1. \A op \in {"stop", "gate", "event", "settle", "teardown", "failStart"} : ~Ready(r, op)
    BY <1>4 DEF Controlled
  <2>2. ~BeginStop(r) /\ ~BeginGate(r) /\ ~BeginEvent(r) /\ ~BeginSettle(r) /\ ~BeginTerminal(r)
    BY <2>1 DEF BeginStop, BeginGate, BeginEvent, BeginSettle, BeginTerminal
  <2>3. ~AttemptQuiesced(r) /\ ~CommitSettles(r) /\ ~RollbackQuiesced(r) /\ ~Drained(r) /\ ~TerminalSettled(r)
    BY <1>1 DEF AttemptQuiesced, CommitSettles, RollbackQuiesced, Drained, TerminalSettled
  <2> QED
    BY <2>2, <2>3 DEF QueueStep
<1>6. CASE BeginPause(r)
  <2>1. Done(r) /\ UNCHANGED <<gen, durableVars>> /\ queue[r] # <<>> /\ Dequeue(r)
    BY <1>2, <1>6 DEF BeginPause, Ready
  <2> QED
    BY <2>1, DoneGoesOn, HeadKept DEF Dequeue, TypeOK, TypeQueue
<1>7. ASSUME NEW op \in {"resume", "raise"}, BeginResume(r, op)
      PROVE  /\ job'[r] = Idle /\ gen'[r] = gen[r] /\ head'[r] = head[r]
             /\ queue[r] # <<>> /\ queue'[r] = Tail(queue[r])
  <2>0. head[r].status \notin Resumable(r, op) /\ head[r].status # "needs-input"
    BY <1>1 DEF Resumable
  <2>1. Done(r) /\ UNCHANGED <<attemptVars, durableVars>> /\ queue[r] # <<>> /\ Dequeue(r)
    BY <1>7, <2>0 DEF BeginResume, Ready
  <2> QED
    BY <2>1, DoneGoesOn, HeadKept DEF Dequeue, TypeOK, TypeQueue, attemptVars
<1>8. CASE BeginAnswer(r)
  <2>1. Done(r) /\ UNCHANGED <<gen, durableVars>> /\ queue[r] # <<>> /\ Dequeue(r)
    BY <1>1, <1>8 DEF BeginAnswer, Ready, Fenced
  <2> QED
    BY <2>1, DoneGoesOn, HeadKept DEF Dequeue, TypeOK, TypeQueue
<1> QED
  BY <1>5, <1>6, <1>7, <1>8

LEMMA QueueSettlement ==
  ASSUME TypeOK, TypeOK', AttemptInv, TeardownInv, SettlementInv, NEW r \in Runs, QueueStep(r)
  PROVE  SettlementInv' /\ \A q \in Runs : row[q].status \in TERMINAL => row'[q].status = row[q].status
<1>0. SoleInv /\ RevInv /\ PlaceInv /\ CountersMatchRuns /\ AdmissionWithinLimits /\ RowInv /\ AbsentInv
  BY DEF SettlementInv, TeardownInv
<1>1. Advances(r)
  BY QueueAdvances DEF TeardownInv
<1>2. Renews(r)
  BY BeginRenews, ContinueRenews DEF QueueStep
<1>3. StoreMove(r) /\ JobOrder(job'[r], head'[r]) /\ UNCHANGED launchVars
  BY <1>0, QueueMove
<1>4. Durable(r) /\ Durable(r)' /\ \A q \in Runs \ {r} : Durable(q)' <=> Durable(q)
  BY <1>0, <1>1, AdvancesDurable
<1>5. start[r] \notin Early
  BY <1>1 DEF AttemptInv, LaunchInv, Advances, Onward
<1>6. r \in KnownRuns /\ KnownRuns' = KnownRuns
  BY <1>3, <1>4, <1>5 DEF KnownRuns, Known, Early, launchVars
<1>7. \A q \in Runs \ {r} : job'[q] = job[q] /\ head'[q] = head[q] /\ gen'[q] = gen[q] /\ queue'[q] = queue[q]
  <2>1. \A q \in Runs \ {r} : job'[q] = job[q] /\ head'[q] = head[q]
    BY <1>1 DEF Advances, Onward, GoesOn, Aside
  <2>2. \A q \in Runs \ {r} : gen'[q] = gen[q]
    BY <1>2 DEF Renews
  <2>3. \A q \in Runs \ {r} : queue'[q] = queue[q]
    BY <1>1 DEF Advances, Onward, TypeOK, TypeQueue
  <2> QED
    BY <2>1, <2>2, <2>3
<1>8. SoleInv'
  <2>1. \A q \in Runs : JobOrder(job'[q], head'[q])
    BY <1>0, <1>3, <1>7 DEF SoleInv
  <2>2. ASSUME NEW q \in Runs, LaunchFailing(q)'
        PROVE  /\ job'[q].pc = "idle" /\ gen'[q] = 0 /\ head'[q].status = "running"
               /\ \A i \in DOMAIN queue'[q] : queue'[q][i].op \in Controlled
    <3>1. LaunchFailing(q)
      BY <1>3, <2>2 DEF LaunchFailing, launchVars
    <3>2. /\ job[q].pc = "idle" /\ gen[q] = 0 /\ head[q].status = "running"
          /\ \A i \in DOMAIN queue[q] : queue[q][i].op \in Controlled
      BY <1>0, <3>1 DEF SoleInv
    <3>3. CASE q = r
      <4>1. /\ job'[r] = Idle /\ gen'[r] = gen[r] /\ head'[r] = head[r]
            /\ queue[r] # <<>> /\ queue'[r] = Tail(queue[r])
        BY <1>0, <3>1, <3>3, BesideLaunch
      <4>2. \A i \in DOMAIN Tail(queue[r]) : i + 1 \in DOMAIN queue[r] /\ Tail(queue[r])[i] = queue[r][i + 1]
        BY <4>1 DEF TypeOK, TypeQueue
      <4> QED
        BY <3>2, <3>3, <4>1, <4>2, IdleJob
    <3>4. CASE q # r
      BY <1>7, <3>2, <3>4
    <3> QED
      BY <3>3, <3>4
  <2> QED
    BY <2>1, <2>2 DEF SoleInv
<1>9. UNCHANGED <<start, startRev, aborted, drain>>
  BY <1>1, <1>3 DEF launchVars, Advances, Aside
<1>10. RevInv'
  BY <1>0, <1>3, <1>9, MoveRev DEF TypeOK, TypeLaunch
<1>11. PlaceInv'
  BY <1>0, <1>9 DEF PlaceInv, LaunchFailing
<1>12. CountersMatchRuns'
  BY <1>0, <1>3, <1>6, MoveCount
<1>13. AdmissionWithinLimits'
  BY <1>0, <1>3, <1>4, <1>9, MoveLimits DEF Pending
<1> QED
  BY <1>0, <1>3, <1>8, <1>10, <1>11, <1>12, <1>13, MoveFinal DEF SettlementInv

-----------------------------------------------------------------------------
(* A step that leaves the store, the counters and the jobs alone, and queues behind a
   failing launch at most a control that will find nothing to do. *)
Harmless(q, u) == u = q \/ \E op \in OpRecord : op.op \in Controlled /\ u = Append(q, op)
Calm ==
  /\ UNCHANGED <<row, head, job, capacityVars, gen>>
  /\ KnownRuns' = KnownRuns
  /\ \A q \in Runs :
       /\ Pending(q)' => Pending(q)
       /\ LaunchFailing(q)' => LaunchFailing(q) /\ Harmless(queue[q], queue'[q])
       /\ start'[q] = "claim" => startRev'[q] <= head[q].rev
  /\ PlaceInv'

LEMMA HarmlessKeeps ==
  ASSUME NEW q \in Seq(OpRecord), NEW u, Harmless(q, u), \A i \in DOMAIN q : q[i].op \in Controlled
  PROVE  \A i \in DOMAIN u : u[i].op \in Controlled
<1>1. ASSUME NEW op \in OpRecord, op.op \in Controlled, u = Append(q, op), NEW i \in DOMAIN u
      PROVE  u[i].op \in Controlled
  <2>1. \/ i \in DOMAIN q /\ u[i] = q[i]
        \/ u[i] = op
    BY <1>1
  <2> QED
    BY <1>1, <2>1
<1> QED
  BY <1>1 DEF Harmless

LEMMA CalmKeeps ==
  ASSUME TypeOK, SettlementInv, Calm
  PROVE  SettlementInv' /\ \A q \in Runs : row[q].status \in TERMINAL => row'[q].status = row[q].status
<1>0. SoleInv /\ RevInv /\ CountersMatchRuns /\ AdmissionWithinLimits
  BY DEF SettlementInv
<1>1. SoleInv'
  <2>1. \A q \in Runs : JobOrder(job'[q], head'[q])
    BY <1>0 DEF SoleInv, Calm
  <2>2. ASSUME NEW q \in Runs, LaunchFailing(q)'
        PROVE  /\ job'[q].pc = "idle" /\ gen'[q] = 0 /\ head'[q].status = "running"
               /\ \A i \in DOMAIN queue'[q] : queue'[q][i].op \in Controlled
    <3>1. LaunchFailing(q) /\ Harmless(queue[q], queue'[q]) /\ UNCHANGED <<job, gen, head>>
      BY <2>2 DEF Calm
    <3>2. /\ job[q].pc = "idle" /\ gen[q] = 0 /\ head[q].status = "running"
          /\ \A i \in DOMAIN queue[q] : queue[q][i].op \in Controlled
      BY <1>0, <3>1 DEF SoleInv
    <3>3. \A i \in DOMAIN queue'[q] : queue'[q][i].op \in Controlled
      BY <3>1, <3>2, HarmlessKeeps DEF TypeOK, TypeQueue
    <3> QED
      BY <3>1, <3>2, <3>3
  <2> QED
    BY <2>1, <2>2 DEF SoleInv
<1>2. RevInv'
  BY <1>0 DEF RevInv, Calm, Terminal
<1>3. CountersMatchRuns'
  <2>1. Counting' = Counting
    BY DEF Counting, Calm, Terminal
  <2> QED
    BY <1>0, <2>1, CountStays DEF Calm
<1>4. AdmissionWithinLimits'
  BY <1>0, LimitsKept DEF Occupies, Calm, Durable
<1> QED
  BY <1>1, <1>2, <1>3, <1>4 DEF SettlementInv, Calm

-----------------------------------------------------------------------------
(* The launching call. *)

(* Whoever occupies a place is counted, or reserves one. *)
LEMMA OccupiedCounted ==
  ASSUME TypeOK, LaunchInv, RowInv
  PROVE  /\ Occupied \subseteq PendingOf(Runs) \cup Counting
         /\ \A a \in Agents : Occupied \cap Owned(a) \subseteq PendingOf(Owned(a)) \cup (Owned(a) \cap Counting)
<1>1. ASSUME NEW r \in Occupied, ~Pending(r) PROVE r \in Counting
  <2>1. r \in Runs /\ Durable(r) /\ row[r].status \notin TERMINAL
    BY <1>1 DEF Occupied, Occupies
  <2>2. start[r] = "done"
    BY <1>1, <2>1 DEF Pending, LaunchInv, Durable
  <2>3. ~Terminal(r)
    BY <2>1 DEF RowInv
  <2> QED
    BY <2>1, <2>2, <2>3 DEF Counting, KnownRuns, Known
<1> QED
  BY <1>1 DEF Occupied, PendingOf, Owned

(* One more place is taken: a sum of sizes bounds the union. *)
LEMMA OneMore ==
  ASSUME NEW S \in SUBSET Runs, NEW P \in SUBSET Runs, NEW C \in SUBSET Runs, S \subseteq P \cup C,
         NEW x, NEW n \in Nat, Cardinality(C) + Cardinality(P) < n
  PROVE  Cardinality(S \cup {x}) <= n
<1>1. /\ IsFiniteSet(S) /\ IsFiniteSet(P) /\ IsFiniteSet(C) /\ IsFiniteSet(P \cup C)
      /\ Cardinality(S) \in Nat /\ Cardinality(P) \in Nat /\ Cardinality(C) \in Nat
      /\ Cardinality(P \cap C) \in Nat
  <2>1. P \cup C \in SUBSET Runs /\ P \cap C \in SUBSET Runs
    OBVIOUS
  <2> QED
    BY <2>1, FiniteRuns
<1>2. Cardinality(P \cup C) = Cardinality(P) + Cardinality(C) - Cardinality(P \cap C)
  BY <1>1, FS_Union
<1>3. Cardinality(S) <= Cardinality(P \cup C)
  BY <1>1, FS_Subset
<1>4. Cardinality(S \cup {x}) = Cardinality(S) \/ Cardinality(S \cup {x}) = Cardinality(S) + 1
  BY <1>1, FS_AddElement
<1> QED
  BY <1>1, <1>2, <1>3, <1>4

LEMMA ReserveSettlement ==
  ASSUME TypeOK, LaunchInv, RowInv, SettlementInv, NEW r \in Runs, Reserve(r)
  PROVE  SettlementInv' /\ \A q \in Runs : row[q].status \in TERMINAL => row'[q].status = row[q].status
<1>0. SoleInv /\ RevInv /\ PlaceInv /\ CountersMatchRuns /\ AdmissionWithinLimits
  BY DEF SettlementInv
<1>1. /\ UNCHANGED <<row, head, job, capacityVars, gen, queue, startRev, aborted, drain>>
      /\ start[r] = "idle" /\ start' = [start EXCEPT ![r] = "insert"]
  BY DEF Reserve, durableVars, attemptVars, queueVars, drainVars
<1>2. \A q \in Runs \ {r} : start'[q] = start[q]
  BY <1>1 DEF TypeOK, TypeLaunch
<1>3. start'[r] = "insert" /\ row[r].status = "absent"
  BY <1>1 DEF TypeOK, TypeLaunch, LaunchInv
<1>4. SoleInv' /\ RevInv' /\ PlaceInv'
  <2>1. \A q \in Runs : LaunchFailing(q)' => LaunchFailing(q)
    BY <1>2, <1>3 DEF LaunchFailing
  <2>2. SoleInv'
    BY <1>0, <1>1, <2>1 DEF SoleInv
  <2>3. RevInv'
    BY <1>0, <1>1, <1>2, <1>3 DEF RevInv, Terminal
  <2>4. \A a \in Agents : drain[a].todo \subseteq Runs
    BY DEF TypeOK, TypeDrain
  <2>5. PlaceInv'
    BY <1>0, <1>1, <1>2, <2>1, <2>4 DEF PlaceInv
  <2> QED
    BY <2>2, <2>3, <2>5
<1>5. CountersMatchRuns'
  <2>1. Counting' = Counting
    BY <1>1, <1>2, <1>3 DEF Counting, KnownRuns, Known, Durable, Terminal
  <2> QED
    BY <1>0, <1>1, <2>1, CountStays
<1>6. AdmissionWithinLimits'
  <2>1. Occupied' \subseteq Occupied \cup {r}
    BY <1>1, <1>2 DEF Occupied, Occupies, Pending, Durable
  <2>2. Occupied \subseteq Runs /\ PendingOf(Runs) \subseteq Runs /\ Counting \subseteq Runs
    BY DEF Occupied, PendingOf, Counting, KnownRuns
  <2>3. /\ activeTotal = Cardinality(Counting)
        /\ \A a \in Agents : activeSession[a] = Cardinality(Owned(a) \cap Counting)
    BY <1>0, CountedSets
  <2>4. /\ activeTotal + Cardinality(PendingOf(Runs)) < MaxRunsGlobal
        /\ activeSession[Owner[r]] + Cardinality(PendingOf(Owned(Owner[r]))) < MaxRunsPerSession
    BY DEF Reserve, Reserved
  <2>5. /\ Owner[r] \in Agents /\ MaxRunsGlobal \in Nat /\ MaxRunsPerSession \in Nat
        /\ \A a \in Agents : r \in Owned(a) => a = Owner[r]
    BY ConstantsAssumption DEF Owned
  <2>6. Cardinality(Occupied') <= MaxRunsGlobal
    <3>1. Cardinality(Occupied \cup {r}) <= MaxRunsGlobal
      BY <2>2, <2>3, <2>4, <2>5, OccupiedCounted, OneMore
    <3>2. IsFiniteSet(Occupied \cup {r}) /\ Cardinality(Occupied \cup {r}) \in Nat /\ Cardinality(Occupied') \in Nat
      <4>1. Occupied \cup {r} \in SUBSET Runs /\ Occupied' \in SUBSET Runs
        BY <2>1, <2>2
      <4> QED
        BY <4>1, FiniteRuns
    <3>3. Cardinality(Occupied') <= Cardinality(Occupied \cup {r})
      BY <2>1, <3>2, FS_Subset
    <3> QED
      BY <2>5, <3>1, <3>2, <3>3
  <2>7. ASSUME NEW a \in Agents PROVE Cardinality(Occupied' \cap Owned(a)) <= MaxRunsPerSession
    <3> DEFINE S == Occupied \cap Owned(a)
               T == Occupied' \cap Owned(a)
    <3>1. T \in SUBSET Runs /\ S \cup {r} \in SUBSET Runs /\ S \in SUBSET Runs
      BY <2>1, <2>2 DEF Owned
    <3>2. IsFiniteSet(S) /\ IsFiniteSet(S \cup {r}) /\ Cardinality(S) \in Nat /\ Cardinality(T) \in Nat /\ Cardinality(S \cup {r}) \in Nat
      BY <3>1, FiniteRuns
    <3>3. CASE a = Owner[r]
      <4>1. PendingOf(Owned(a)) \in SUBSET Runs /\ Owned(a) \cap Counting \in SUBSET Runs
        BY <2>2 DEF PendingOf, Owned
      <4>2. Cardinality(Owned(a) \cap Counting) + Cardinality(PendingOf(Owned(a))) < MaxRunsPerSession
        BY <2>3, <2>4, <3>3
      <4>3. S \subseteq PendingOf(Owned(a)) \cup (Owned(a) \cap Counting)
        BY OccupiedCounted
      <4>4. Cardinality(S \cup {r}) <= MaxRunsPerSession
        BY <2>5, <3>1, <4>1, <4>2, <4>3, OneMore
      <4>5. T \in SUBSET (S \cup {r})
        BY <2>1
      <4>6. Cardinality(T) <= Cardinality(S \cup {r})
        BY <3>2, <4>5, FS_Subset
      <4> HIDE DEF S, T
      <4>7. Cardinality(T) <= MaxRunsPerSession
        BY <2>5, <3>2, <4>4, <4>6
      <4> QED
        BY <4>7 DEF T
    <3>4. CASE a # Owner[r]
      <4>1. T \in SUBSET S
        BY <2>1, <2>5, <3>4
      <4>2. Cardinality(T) <= Cardinality(S)
        BY <3>2, <4>1, FS_Subset
      <4>3. Cardinality(S) <= MaxRunsPerSession
        BY <1>0, LimitSets
      <4> HIDE DEF S, T
      <4>4. Cardinality(T) <= MaxRunsPerSession
        BY <2>5, <3>2, <4>2, <4>3
      <4> QED
        BY <4>4 DEF T
    <3> QED
      BY <3>3, <3>4
  <2> QED
    BY <2>6, <2>7, LimitSetsNext
<1> QED
  BY <1>1, <1>4, <1>5, <1>6 DEF SettlementInv

-----------------------------------------------------------------------------
LEMMA LaunchOwn ==
  ASSUME TypeOK, NEW r \in Runs, LaunchStep(r)
  PROVE  /\ UNCHANGED <<aborted, drain>> /\ start[r] \notin {"idle", "done"}
         /\ \A q \in Runs \ {r} : start'[q] = start[q] /\ startRev'[q] = startRev[q]
<1> USE DEF TypeOK, TypeLaunch
<1>1. CASE InsertRejected(r) \/ InsertDurable(r) \/ LaunchFailureSettled(r)
  BY <1>1 DEF InsertRejected, InsertDurable, LaunchFailureSettled, drainVars
<1>2. CASE Inserted(r)
  BY <1>2 DEF Inserted, LaunchFails, drainVars
<1>3. CASE ScratchOpened(r)
  BY <1>3 DEF ScratchOpened, LaunchFails, drainVars
<1>4. CASE ReleaseStart(r)
  BY <1>4 DEF ReleaseStart, drainVars
<1>5. CASE UnreleasedQuiesced(r)
  BY <1>5 DEF UnreleasedQuiesced, drainVars
<1>6. CASE LaunchDrained(r) \/ LaunchSettled(r)
  BY <1>6 DEF LaunchDrained, LaunchSettled, drainVars
<1> QED
  BY <1>1, <1>2, <1>3, <1>4, <1>5, <1>6 DEF LaunchStep

LEMMA LaunchPlace ==
  ASSUME TypeOK, PlaceInv, NEW r \in Runs, LaunchStep(r),
         LaunchFailing(r)' => LaunchFailing(r) \/ aborted[r] \/ MayFail("setup")
  PROVE  PlaceInv'
<1>1. /\ UNCHANGED <<aborted, drain>> /\ start[r] \notin {"idle", "done"}
      /\ \A q \in Runs \ {r} : start'[q] = start[q]
  BY LaunchOwn
<1>2. \A a \in Agents : \A q \in drain'[a].todo : start'[q] = "done"
  <2>1. \A a \in Agents : drain[a].todo \subseteq Runs
    BY DEF TypeOK, TypeDrain
  <2> QED
    BY <1>1, <2>1 DEF PlaceInv
<1>3. ASSUME Teardown = {} /\ "setup" \notin Faults, NEW q \in Runs
      PROVE  ~LaunchFailing(q)' /\ ~aborted'[q]
  <2>1. ~LaunchFailing(q) /\ ~aborted[q] /\ ~aborted[r] /\ ~LaunchFailing(r) /\ ~MayFail("setup")
    BY <1>3 DEF PlaceInv, MayFail
  <2>2. q # r => ~LaunchFailing(q)'
    BY <1>1, <2>1 DEF LaunchFailing
  <2> QED
    BY <1>1, <2>1, <2>2
<1> QED
  BY <1>2, <1>3 DEF PlaceInv

(* The steps of a launch before and after its run is published. *)
LEMMA LaunchCalm ==
  ASSUME TypeOK, LaunchInv, RevInv, PlaceInv, NEW r \in Runs, LaunchStep(r),
         \/ InsertRejected(r) \/ ReleaseStart(r) \/ UnreleasedQuiesced(r) \/ LaunchFailureSettled(r)
         \/ LaunchDrained(r) \/ (Inserted(r) /\ start'[r] = "scratch")
  PROVE  Calm
<1>0. \A q \in Runs \ {r} : start'[q] = start[q] /\ startRev'[q] = startRev[q]
  BY LaunchOwn
<1>r. \A q \in Runs : start[q] = "claim" => startRev[q] <= head[q].rev
  BY DEF RevInv
<1>1. CASE InsertRejected(r)
  <2>1. /\ UNCHANGED <<row, head, job, capacityVars, gen, queue>>
        /\ start[r] = "insert" /\ start'[r] = "done" /\ row[r].status = "absent"
    BY <1>1 DEF InsertRejected, durableVars, attemptVars, queueVars, TypeOK, TypeLaunch, LaunchInv
  <2>2. PlaceInv'
    BY <2>1, LaunchPlace DEF LaunchFailing
  <2> QED
    BY <1>0, <1>r, <2>1, <2>2 DEF Calm, KnownRuns, Known, Durable, Pending, LaunchFailing, Harmless
<1>2. CASE ReleaseStart(r) \/ LaunchFailureSettled(r)
  <2>1. /\ UNCHANGED <<row, head, job, capacityVars, gen, queue>>
        /\ start[r] \in {"publish", "failQueued"} /\ start'[r] \in {"done", "unreleased"}
    <3>1. CASE ReleaseStart(r)
      BY <3>1 DEF ReleaseStart, durableVars, queueVars, TypeOK, TypeLaunch
    <3>2. CASE LaunchFailureSettled(r)
      BY <3>2 DEF LaunchFailureSettled, durableVars, attemptVars, queueVars, TypeOK, TypeLaunch
    <3> QED
      BY <1>2, <3>1, <3>2
  <2>2. PlaceInv'
    BY <2>1, LaunchPlace DEF LaunchFailing
  <2> QED
    BY <1>0, <1>r, <2>1, <2>2 DEF Calm, KnownRuns, Known, Durable, Pending, LaunchFailing, Harmless
<1>3. CASE UnreleasedQuiesced(r)
  <2>1. /\ UNCHANGED <<row, head, job, capacityVars, gen>>
        /\ start[r] = "unreleased" /\ start'[r] = "failQueued"
        /\ \A q \in Runs \ {r} : queue'[q] = queue[q]
    BY <1>3 DEF UnreleasedQuiesced, Enqueue, durableVars, attemptVars, TypeOK, TypeLaunch, TypeQueue
  <2>2. PlaceInv'
    BY <2>1, LaunchPlace DEF LaunchFailing
  <2> QED
    BY <1>0, <1>r, <2>1, <2>2 DEF Calm, KnownRuns, Known, Durable, Pending, LaunchFailing, Harmless
<1>4. CASE LaunchDrained(r)
  <2>1. /\ UNCHANGED <<row, head, job, capacityVars, gen, queue>>
        /\ start[r] = "drain" /\ start'[r] = "claim" /\ startRev'[r] = head[r].rev
        /\ \A q \in Runs : head[q].rev <= head[q].rev
    BY <1>4 DEF LaunchDrained, durableVars, attemptVars, queueVars, TypeOK, TypeLaunch, TypeDurable
  <2>2. PlaceInv'
    BY <2>1, LaunchPlace DEF LaunchFailing
  <2>3. \A q \in Runs : LaunchFailing(q)' => LaunchFailing(q) /\ Harmless(queue[q], queue'[q])
    BY <1>0, <2>1 DEF LaunchFailing, Harmless
  <2> QED
    BY <1>0, <1>r, <2>1, <2>2, <2>3 DEF Calm, KnownRuns, Known, Durable, Pending
<1>5. CASE Inserted(r) /\ start'[r] = "scratch"
  <2>1. UNCHANGED <<row, head, job, capacityVars, gen, queue>> /\ start[r] = "durable"
    <3>1. ~LaunchFails(r)
      BY <1>5 DEF LaunchFails, TypeOK, TypeLaunch
    <3> QED
      BY <1>5, <3>1 DEF Inserted, durableVars, attemptVars, queueVars
  <2>2. PlaceInv'
    BY <1>5, LaunchPlace DEF LaunchFailing
  <2> QED
    BY <1>0, <1>r, <1>5, <2>1, <2>2 DEF Calm, KnownRuns, Known, Durable, Pending, LaunchFailing, Harmless
<1> QED
  BY <1>1, <1>2, <1>3, <1>4, <1>5

LEMMA PublishSettlement ==
  ASSUME TypeOK, LaunchInv, RowInv, AbsentInv, SettlementInv, NEW r \in Runs, LaunchStep(r), Publish(r),
         start[r] \in {"durable", "scratch"}, start'[r] \in {"drain", "publish"},
         UNCHANGED <<row, head, job, queue>>, \A q \in Runs \ {r} : gen'[q] = gen[q],
         start'[r] = "drain" => gen'[r] = gen[r] /\ (aborted[r] \/ MayFail("setup"))
  PROVE  SettlementInv' /\ \A q \in Runs : row[q].status \in TERMINAL => row'[q].status = row[q].status
<1>0. SoleInv /\ RevInv /\ PlaceInv /\ CountersMatchRuns /\ AdmissionWithinLimits
  BY DEF SettlementInv
<1>1. \A q \in Runs \ {r} : start'[q] = start[q] /\ startRev'[q] = startRev[q]
  BY LaunchOwn
<1>2. /\ gen[r] = 0 /\ job[r].pc = "idle" /\ queue[r] = <<>> /\ head[r].status = "running"
      /\ Durable(r) /\ ~Terminal(r)
  <2>1. /\ gen[r] = 0 /\ job[r].pc = "idle" /\ queue[r] = <<>> /\ head[r].status \in {"absent", "running"}
    BY DEF LaunchInv, Early
  <2>2. Durable(r) /\ head[r].status # "absent"
    BY DEF AbsentInv, RowInv
  <2> QED
    BY <2>1, <2>2 DEF Terminal, TERMINAL
<1>3. SoleInv'
  <2>1. \A q \in Runs : JobOrder(job'[q], head'[q])
    BY <1>0 DEF SoleInv
  <2>2. ASSUME NEW q \in Runs, LaunchFailing(q)'
        PROVE  /\ job'[q].pc = "idle" /\ gen'[q] = 0 /\ head'[q].status = "running"
               /\ \A i \in DOMAIN queue'[q] : queue'[q][i].op \in Controlled
    <3>1. CASE q = r
      <4>1. start'[r] = "drain"
        BY <2>2, <3>1 DEF LaunchFailing
      <4>2. DOMAIN queue'[r] = {}
        BY <1>2
      <4> QED
        BY <1>2, <3>1, <4>1, <4>2
    <3>2. CASE q # r
      BY <1>0, <1>1, <2>2, <3>2 DEF SoleInv, LaunchFailing
    <3> QED
      BY <3>1, <3>2
  <2> QED
    BY <2>1, <2>2 DEF SoleInv
<1>4. RevInv'
  BY <1>0, <1>1 DEF RevInv, Terminal
<1>5. PlaceInv'
  BY <1>0, LaunchPlace DEF LaunchFailing
<1>6. CountersMatchRuns'
  <2>1. r \notin Counting
    BY DEF Counting, KnownRuns, Known
  <2>2. Counting' = Counting \cup {r}
    <3>1. \A q \in Runs \ {r} : Known(q)' <=> Known(q)
      BY <1>1 DEF Known, Durable
    <3>2. Known(r)' /\ \A q \in Runs : Terminal(q)' <=> Terminal(q)
      BY <1>2 DEF Known, Durable, Terminal
    <3> QED
      BY <1>2, <3>1, <3>2 DEF Counting, KnownRuns
  <2> QED
    BY <1>0, <2>1, <2>2, CountGrows
<1>7. AdmissionWithinLimits'
  <2>1. \A q \in Runs : Occupies(q)' => Occupies(q)
    BY <1>1 DEF Occupies, Pending, Durable
  <2> QED
    BY <1>0, <2>1, LimitsKept
<1> QED
  BY <1>3, <1>4, <1>5, <1>6, <1>7 DEF SettlementInv

LEMMA DurableSettlement ==
  ASSUME TypeOK, AttemptInv, SettlementInv, NEW r \in Runs, InsertDurable(r), LaunchStep(r)
  PROVE  SettlementInv' /\ \A q \in Runs : row[q].status \in TERMINAL => row'[q].status = row[q].status
<1>0. SoleInv /\ RevInv /\ PlaceInv /\ CountersMatchRuns /\ AdmissionWithinLimits
  BY DEF SettlementInv
<1>1. \A q \in Runs \ {r} : start'[q] = start[q] /\ startRev'[q] = startRev[q]
  BY LaunchOwn
<1>2. /\ UNCHANGED <<job, queue, gen, capacityVars>>
      /\ start[r] = "insert" /\ start'[r] = "durable" /\ row[r].status = "absent"
      /\ job[r].pc = "idle"
      /\ row'[r].status = "running" /\ row'[r].rev = 1 /\ head'[r].status = "running" /\ head'[r].rev = 1
      /\ \A q \in Runs \ {r} : row'[q] = row[q] /\ head'[q] = head[q]
  BY DEF InsertDurable, attemptVars, queueVars, AttemptInv, LaunchInv, Early, TypeOK, TypeLaunch, TypeDurable
<1>3. "running" \notin TERMINAL /\ "absent" \notin TERMINAL
  BY DEF TERMINAL
<1>4. job[r].op # "resume"
  BY <1>2 DEF AttemptInv, DroppedInv
<1>5. SoleInv'
  <2>1. JobOrder(job'[r], head'[r])
    BY <1>2, <1>4 DEF JobOrder, Settling
  <2>2. \A q \in Runs : LaunchFailing(q)' => q # r /\ LaunchFailing(q)
    BY <1>1, <1>2 DEF LaunchFailing
  <2> QED
    BY <1>0, <1>2, <2>1, <2>2 DEF SoleInv
<1>6. RevInv'
  BY <1>0, <1>1, <1>2, <1>3 DEF RevInv, Terminal
<1>7. PlaceInv'
  BY <1>0, <1>2, LaunchPlace DEF LaunchFailing
<1>8. CountersMatchRuns'
  <2>1. Counting' = Counting
    BY <1>1, <1>2, <1>3 DEF Counting, KnownRuns, Known, Durable, Terminal
  <2> QED
    BY <1>0, <1>2, <2>1, CountStays
<1>9. AdmissionWithinLimits'
  <2>1. \A q \in Runs : Occupies(q)' => Occupies(q)
    BY <1>1, <1>2 DEF Occupies, Pending, Durable
  <2> QED
    BY <1>0, <2>1, LimitsKept
<1> QED
  BY <1>2, <1>3, <1>5, <1>6, <1>7, <1>8, <1>9 DEF SettlementInv

LEMMA LaunchSettledSettlement ==
  ASSUME TypeOK, AttemptInv, RowInv, AbsentInv, SettlementInv, NEW r \in Runs, LaunchSettled(r), LaunchStep(r)
  PROVE  SettlementInv' /\ \A q \in Runs : row[q].status \in TERMINAL => row'[q].status = row[q].status
<1>0. SoleInv /\ RevInv /\ PlaceInv /\ CountersMatchRuns /\ AdmissionWithinLimits
  BY DEF SettlementInv
<1>1. \A q \in Runs \ {r} : start'[q] = start[q] /\ startRev'[q] = startRev[q]
  BY LaunchOwn
<1>2. /\ UNCHANGED <<job, queue, gen, startRev>>
      /\ start[r] = "claim" /\ start'[r] = "done" /\ TerminalSettles(r, startRev[r], "failed")
  BY DEF LaunchSettled, attemptVars, queueVars, TypeOK, TypeLaunch
<1>3. job[r].pc = "idle" /\ head[r].status = "running" /\ startRev[r] <= head[r].rev /\ startRev[r] \in Nat
  BY <1>0, <1>2 DEF SoleInv, RevInv, LaunchFailing, TypeOK, TypeLaunch
<1>4. StoreMove(r)
  <2>1. "failed" \in TERMINAL /\ ~Terminal(r)
    BY <1>3 DEF Terminal, TERMINAL
  <2> QED
    BY <1>2, <1>3, <2>1, SettleMove
<1>5. SoleInv'
  <2>1. JobOrder(job'[r], head'[r])
    <3>1. job[r].op # "resume"
      BY <1>3 DEF AttemptInv, DroppedInv
    <3> QED
      BY <1>2, <1>3, <3>1 DEF JobOrder, Settling
  <2>2. \A q \in Runs : LaunchFailing(q)' => q # r /\ LaunchFailing(q)
    BY <1>1, <1>2 DEF LaunchFailing
  <2> QED
    BY <1>0, <1>2, <1>4, <2>1, <2>2 DEF SoleInv, StoreMove, Elsewhere
<1>6. RevInv'
  BY <1>0, <1>1, <1>2, <1>4, MoveRev DEF TypeOK, TypeLaunch
<1>7. PlaceInv'
  BY <1>0, <1>2, LaunchPlace DEF LaunchFailing
<1>8. Durable(r) /\ Durable(r)'
  <2>1. Durable(r)
    BY <1>2 DEF AbsentInv
  <2>2. "absent" \notin TERMINAL
    BY DEF TERMINAL
  <2> QED
    BY <1>4, <2>1, <2>2 DEF StoreMove, Durable
<1>9. CountersMatchRuns'
  <2>1. r \in KnownRuns /\ KnownRuns' = KnownRuns
    BY <1>1, <1>2, <1>4, <1>8 DEF KnownRuns, Known, Durable, StoreMove, Elsewhere
  <2> QED
    BY <1>0, <1>4, <2>1, MoveCount
<1>10. AdmissionWithinLimits'
  <2>1. \A q \in Runs : Pending(q)' => Pending(q)
    BY <1>1, <1>2 DEF Pending
  <2> QED
    BY <1>0, <1>4, <1>8, <2>1, MoveLimits
<1> QED
  BY <1>0, <1>4, <1>5, <1>6, <1>7, <1>9, <1>10, MoveFinal DEF SettlementInv

LEMMA LaunchSettlement ==
  ASSUME TypeOK, AttemptInv, TeardownInv, SettlementInv, NEW r \in Runs, LaunchStep(r) \/ Reserve(r)
  PROVE  SettlementInv' /\ \A q \in Runs : row[q].status \in TERMINAL => row'[q].status = row[q].status
<1>0. LaunchInv /\ RowInv /\ AbsentInv /\ RevInv /\ PlaceInv
  BY DEF AttemptInv, TeardownInv, SettlementInv
<1>1. CASE Reserve(r)
  BY <1>0, <1>1, ReserveSettlement
<1>2. CASE InsertDurable(r) \/ LaunchSettled(r)
  <2>1. LaunchStep(r)
    BY <1>2 DEF LaunchStep
  <2> QED
    BY <1>0, <1>2, <2>1, DurableSettlement, LaunchSettledSettlement
<1>3. CASE /\ LaunchStep(r)
           /\ \/ InsertRejected(r) \/ ReleaseStart(r) \/ UnreleasedQuiesced(r) \/ LaunchFailureSettled(r)
              \/ LaunchDrained(r) \/ (Inserted(r) /\ start'[r] = "scratch")
  BY <1>0, <1>3, LaunchCalm, CalmKeeps
<1>4. CASE Inserted(r) /\ start'[r] # "scratch"
  <2>1. LaunchStep(r)
    BY <1>4 DEF LaunchStep
  <2>2. LaunchFails(r) /\ (aborted[r] \/ MayFail("setup"))
    BY <1>4 DEF Inserted, TypeOK, TypeLaunch
  <2>3. /\ UNCHANGED <<row, head, job, queue, gen>> /\ start[r] = "durable" /\ start'[r] = "drain" /\ Publish(r)
    BY <1>4, <2>2 DEF Inserted, LaunchFails, durableVars, attemptVars, queueVars, TypeOK, TypeLaunch
  <2> QED
    BY <1>0, <2>1, <2>2, <2>3, PublishSettlement
<1>5. CASE ScratchOpened(r)
  <2>1. LaunchStep(r)
    BY <1>5 DEF LaunchStep
  <2>2. /\ UNCHANGED <<row, head, job, queue>> /\ start[r] = "scratch" /\ Publish(r)
        /\ \/ start'[r] = "publish" /\ NewAttempt(r)
           \/ start'[r] = "drain" /\ UNCHANGED gen /\ MayFail("setup")
    BY <1>5 DEF ScratchOpened, LaunchFails, durableVars, attemptVars, queueVars, TypeOK, TypeLaunch
  <2>3. \A q \in Runs \ {r} : gen'[q] = gen[q]
    BY <2>2 DEF NewAttempt, TypeOK, TypeAttempts
  <2> QED
    BY <1>0, <2>1, <2>2, <2>3, PublishSettlement
<1>6. CASE LaunchStep(r)
  BY <1>2, <1>3, <1>4, <1>5, <1>6 DEF LaunchStep
<1> QED
  BY <1>1, <1>6

-----------------------------------------------------------------------------
(* The engine, the users, the notifier. *)
LEMMA FailingLaunch ==
  ASSUME TypeOK, AttemptInv, SoleInv, NEW r \in Runs, LaunchFailing(r)
  PROVE  Pending(r) /\ cur[r] = 0 /\ ~Terminal(r) /\ \A g \in Gens : engine[r][g].st = "unborn"
<1>1. gen[r] = 0 /\ head[r].status = "running"
  BY DEF SoleInv
<1>2. \A g \in Gens : g > gen[r]
  BY <1>1 DEF Gens
<1> QED
  BY <1>1, <1>2 DEF LaunchFailing, Pending, AttemptInv, GenerationInv, Terminal, TERMINAL

LEMMA EngineSettlement ==
  ASSUME OneTerminalizer, TypeOK, TypeOK', AttemptInv, SettlementInv, NEW r \in Runs,
         Ask(r) \/ EngineEvent(r) \/ EngineGate(r) \/ \E g \in Gens : EngineQuiesces(r, g)
  PROVE  Calm
<1>0. SoleInv /\ PlaceInv /\ RevInv
  BY DEF SettlementInv
<1>1. /\ UNCHANGED <<start, startRev, aborted, row, head, job, capacityVars, gen, drain>>
      /\ \E op : Enqueue(r, op)
  <2>1. CASE Ask(r)
    BY <2>1 DEF Ask, launchVars, durableVars, attemptVars, drainVars
  <2>2. CASE EngineEvent(r)
    BY <2>2 DEF EngineEvent, launchVars, durableVars, attemptVars, drainVars
  <2>3. CASE EngineGate(r)
    BY <2>3 DEF EngineGate, launchVars, durableVars, attemptVars, drainVars
  <2>4. CASE \E g \in Gens : EngineQuiesces(r, g)
    BY <2>4 DEF EngineQuiesces, launchVars, durableVars, drainVars
  <2> QED
    BY <2>1, <2>2, <2>3, <2>4
<1>2. \A q \in Runs \ {r} : queue'[q] = queue[q]
  BY <1>1 DEF Enqueue, TypeOK, TypeQueue
<1>3. ASSUME LaunchFailing(r) PROVE Harmless(queue[r], queue'[r])
  <2>1. cur[r] = 0 /\ \A g \in Gens : engine[r][g].st = "unborn"
    BY <1>0, <1>3, FailingLaunch
  <2>2. Ask(r)
    BY <2>1 DEF EngineEvent, EngineGate, EngineQuiesces
  <2>3. "stop" \notin Controls
    BY <1>0, <1>3 DEF OneTerminalizer, PlaceInv
  <2>4. PICK op : Enqueue(r, op) /\ op.op \in Controlled
    <3>1. CASE \E o \in Controls \ {"answer"} : Enqueue(r, Op(o, 0, 0, "none"))
      <4>1. PICK o \in Controls \ {"answer"} : Enqueue(r, Op(o, 0, 0, "none"))
        BY <3>1
      <4>2. o \in Controlled
        BY <2>3, ConstantsAssumption DEF AllControls, Controlled
      <4>3. Op(o, 0, 0, "none").op = o
        BY DEF Op
      <4> QED
        BY <4>1, <4>2, <4>3
    <3>2. CASE \E id \in shown[r] : Enqueue(r, Op("answer", 0, id, "none"))
      BY <3>2 DEF Controlled, Op
    <3> QED
      BY <2>2, <3>1, <3>2 DEF Ask
  <2>5. queue'[r] = Append(queue[r], op) /\ queue[r] \in Seq(OpRecord) /\ queue'[r] \in Seq(OpRecord)
    BY <2>4 DEF Enqueue, TypeOK, TypeQueue
  <2>6. Len(queue'[r]) \in DOMAIN queue'[r] /\ queue'[r][Len(queue'[r])] = op
    BY <2>5
  <2>7. op \in OpRecord
    BY <2>5, <2>6
  <2> QED
    BY <2>4, <2>5, <2>7 DEF Harmless
<1>4. PlaceInv'
  BY <1>0, <1>1 DEF PlaceInv, LaunchFailing
<1>5. KnownRuns' = KnownRuns /\ \A q \in Runs : Pending(q)' => Pending(q)
  BY <1>1 DEF KnownRuns, Known, Durable, Pending
<1>6. \A q \in Runs : LaunchFailing(q)' => LaunchFailing(q) /\ Harmless(queue[q], queue'[q])
  BY <1>1, <1>2, <1>3 DEF LaunchFailing, Harmless
<1>7. \A q \in Runs : start'[q] = "claim" => startRev'[q] <= head[q].rev
  BY <1>0, <1>1 DEF RevInv
<1> QED
  BY <1>1, <1>4, <1>5, <1>6, <1>7 DEF Calm

LEMMA NoticeSettlement ==
  ASSUME TypeOK, AttemptInv, SettlementInv, NEW r \in Runs, NoticeSettles(r)
  PROVE  SettlementInv' /\ \A q \in Runs : row[q].status \in TERMINAL => row'[q].status = row[q].status
<1>0. SoleInv /\ RevInv /\ PlaceInv /\ CountersMatchRuns /\ AdmissionWithinLimits
  BY DEF SettlementInv
<1>1. UNCHANGED <<start, startRev, aborted, gen, job, queue, drain, capacityVars>>
  BY DEF NoticeSettles, launchVars, attemptVars, queueVars, drainVars
<1>2. Terminal(r) /\ row[r].status \in TERMINAL
  BY DEF NoticeSettles, AttemptInv, ParkedInv
<1>3. /\ \A q \in Runs : row'[q].status = row[q].status
      /\ \A q \in Runs \ {r} : row'[q] = row[q]
      /\ row'[r].rev \in {row[r].rev, row[r].rev + 1}
  <2>1. row' = [row EXCEPT ![r].rev = @ + 1, ![r].notice = "final"] \/ row' = row
    BY DEF NoticeSettles
  <2> QED
    BY <2>1 DEF TypeOK, TypeDurable
<1>4. /\ \A q \in Runs \ {r} : head'[q] = head[q]
      /\ \/ row'[r].rev > head[r].rev /\ head'[r].status = row'[r].status /\ head'[r].rev = row'[r].rev
         \/ ~(row'[r].rev > head[r].rev) /\ head'[r] = head[r]
  BY DEF NoticeSettles, TypeOK, TypeDurable
<1>5. Terminal(r)' /\ \A q \in Runs \ {r} : Terminal(q)' <=> Terminal(q)
  BY <1>2, <1>3, <1>4 DEF Terminal
<1>6. SoleInv'
  <2>1. ~LaunchFailing(r)
    BY <1>0, <1>2, FailingLaunch
  <2>2. JobOrder(job[r], head'[r])
    BY <1>0, <1>2, <1>5 DEF SoleInv, JobOrder, Terminal
  <2> QED
    BY <1>0, <1>1, <1>4, <2>1, <2>2 DEF SoleInv, LaunchFailing
<1>7. RevInv'
  <2>1. head[r].rev \in Nat /\ row[r].rev \in Nat /\ head[r].rev <= row[r].rev
    BY <1>0 DEF RevInv, TypeOK, TypeDurable
  <2>2. head'[r].rev <= row'[r].rev
    <3>1. CASE row'[r].rev > head[r].rev
      BY <1>3, <1>4, <2>1, <3>1
    <3>2. CASE ~(row'[r].rev > head[r].rev)
      BY <1>3, <1>4, <2>1, <3>2
    <3> QED
      BY <3>1, <3>2
  <2>3. start[r] # "claim"
    BY <1>0, <1>2, FailingLaunch DEF LaunchFailing
  <2> QED
    BY <1>0, <1>1, <1>3, <1>4, <1>5, <2>2, <2>3 DEF RevInv
<1>8. PlaceInv'
  BY <1>0, <1>1 DEF PlaceInv, LaunchFailing
<1>9. CountersMatchRuns'
  <2>1. Counting' = Counting
    BY <1>1, <1>2, <1>3, <1>5 DEF Counting, KnownRuns, Known, Durable
  <2> QED
    BY <1>0, <1>1, <2>1, CountStays
<1>10. AdmissionWithinLimits'
  <2>1. \A q \in Runs : Occupies(q)' => Occupies(q)
    BY <1>1, <1>3 DEF Occupies, Pending, Durable
  <2> QED
    BY <1>0, <2>1, LimitsKept
<1> QED
  BY <1>3, <1>6, <1>7, <1>8, <1>9, <1>10 DEF SettlementInv

-----------------------------------------------------------------------------
(* The teardowns. *)
LEMMA OwnerSettlement ==
  ASSUME TypeOK, AttemptInv, SettlementInv, NEW a \in Agents, OwnerDisposed(a) \/ OwnerStep(a)
  PROVE  Calm
<1>0. SoleInv /\ PlaceInv /\ RevInv
  BY DEF SettlementInv
<1>1. UNCHANGED <<start, startRev, row, head, job, capacityVars, gen>>
  BY DEF OwnerDisposed, OwnerStep, OwnerStartsSettled, OwnerNextRun, OwnerAwaitsTail, OwnerRunDrained,
         OwnerQuiesces, launchVars, durableVars, attemptVars, queueVars
<1>2. \A b \in Agents : drain[b].todo \subseteq Runs
  BY DEF TypeOK, TypeDrain
<1>3. \A q \in Runs : LaunchFailing(q) => queue'[q] = queue[q]
  <2>1. CASE OwnerNextRun(a)
    <3>1. PICK r \in drain[a].todo : UNCHANGED queue \/ Enqueue(r, Op("teardown", 0, 0, "none"))
      BY <2>1 DEF OwnerNextRun
    <3>2. start[r] = "done"
      BY <1>0, <3>1 DEF PlaceInv
    <3> QED
      BY <3>1, <3>2 DEF LaunchFailing, Enqueue, TypeOK, TypeQueue
  <2>2. CASE ~OwnerNextRun(a)
    BY <2>2 DEF OwnerDisposed, OwnerStep, OwnerStartsSettled, OwnerAwaitsTail, OwnerRunDrained,
                OwnerQuiesces, queueVars
  <2> QED
    BY <2>1, <2>2
<1>4. \A b \in Agents : \A q \in drain'[b].todo : start[q] = "done"
  <2>1. CASE OwnerStartsSettled(a)
    <3>1. /\ drain'[a].todo = ToDispose(a) /\ PendingOf(Owned(a)) = {}
          /\ \A b \in Agents \ {a} : drain'[b] = drain[b]
      BY <2>1 DEF OwnerStartsSettled, TypeOK, TypeDrain
    <3>2. ASSUME NEW q \in ToDispose(a) PROVE start[q] = "done"
      <4>1. q \in Owned(a) /\ q \in Runs /\ Durable(q)
        BY <3>2 DEF ToDispose, Known, Owned
      <4>2. ~Pending(q)
        BY <3>1, <4>1 DEF PendingOf
      <4> QED
        BY <4>1, <4>2 DEF Pending, Durable, AttemptInv, LaunchInv
    <3> QED
      BY <1>0, <3>1, <3>2 DEF PlaceInv
  <2>2. CASE ~OwnerStartsSettled(a)
    <3>1. \/ UNCHANGED drain
          \/ \E pc : drain' = [drain EXCEPT ![a].pc = pc] \/ drain' = [drain EXCEPT ![a].pc = pc, ![a].run = {}]
          \/ \E r : drain' = [drain EXCEPT ![a] = [pc |-> "op", run |-> {r}, todo |-> @.todo \ {r}]]
      <4>1. CASE OwnerNextRun(a)
        BY <4>1 DEF OwnerNextRun
      <4>2. CASE ~OwnerNextRun(a)
        BY <2>2, <4>2 DEF OwnerDisposed, OwnerStep, OwnerAwaitsTail, OwnerRunDrained, OwnerQuiesces
      <4> QED
        BY <4>1, <4>2
    <3>2. \A b \in Agents : drain'[b].todo \subseteq drain[b].todo
      <4>1. ASSUME NEW pc, \/ drain' = [drain EXCEPT ![a].pc = pc]
                           \/ drain' = [drain EXCEPT ![a].pc = pc, ![a].run = {}]
            PROVE  \A b \in Agents : drain'[b].todo = drain[b].todo
        BY <4>1 DEF TypeOK, TypeDrain
      <4>2. ASSUME NEW r, drain' = [drain EXCEPT ![a] = [pc |-> "op", run |-> {r}, todo |-> @.todo \ {r}]]
            PROVE  \A b \in Agents : drain'[b].todo \subseteq drain[b].todo
        BY <4>2 DEF TypeOK, TypeDrain
      <4> QED
        BY <3>1, <4>1, <4>2
    <3> QED
      BY <1>0, <3>2 DEF PlaceInv
  <2> QED
    BY <2>1, <2>2
<1>5. aborted' = aborted \/ Teardown # {}
  <2>1. CASE OwnerDisposed(a)
    BY <2>1 DEF OwnerDisposed
  <2>2. CASE ~OwnerDisposed(a)
    BY <2>2 DEF OwnerStep, OwnerStartsSettled, OwnerNextRun, OwnerAwaitsTail, OwnerRunDrained,
                OwnerQuiesces, launchVars
  <2> QED
    BY <2>1, <2>2
<1>6. PlaceInv'
  BY <1>0, <1>1, <1>4, <1>5 DEF PlaceInv, LaunchFailing
<1>7. KnownRuns' = KnownRuns /\ \A q \in Runs : Pending(q)' => Pending(q)
  BY <1>1 DEF KnownRuns, Known, Durable, Pending
<1>8. \A q \in Runs : LaunchFailing(q)' => LaunchFailing(q) /\ Harmless(queue[q], queue'[q])
  BY <1>1, <1>3 DEF LaunchFailing, Harmless
<1>9. \A q \in Runs : start'[q] = "claim" => startRev'[q] <= head[q].rev
  BY <1>0, <1>1 DEF RevInv
<1> QED
  BY <1>1, <1>6, <1>7, <1>8, <1>9 DEF Calm

LEMMA DisposeSettlement ==
  ASSUME TypeOK, DisposeInv, SettlementInv, Dispose \/ DisposeStep
  PROVE  Calm
<1>0. SoleInv /\ PlaceInv /\ RevInv
  BY DEF SettlementInv
<1>1. UNCHANGED <<start, startRev, row, head, job, capacityVars, gen, drain>>
  BY DEF Dispose, DisposeStep, DisposeCancels, DisposeDrains, DisposeRetries, DisposeFinalDrain, Disposed,
         launchVars, durableVars, attemptVars, queueVars
<1>2. \A q \in Runs : LaunchFailing(q) => queue'[q] = queue[q]
  <2>1. CASE DisposeCancels \/ DisposeRetries
    <3>1. \A q \in Runs : ~Pending(q)
      BY <2>1 DEF DisposeCancels, DisposeRetries, DisposeInv, PendingOf
    <3> QED
      BY <3>1 DEF Pending, LaunchFailing
  <2>2. CASE ~(DisposeCancels \/ DisposeRetries)
    BY <2>2 DEF Dispose, DisposeStep, DisposeDrains, DisposeFinalDrain, Disposed, queueVars
  <2> QED
    BY <2>1, <2>2
<1>3. aborted' = aborted \/ Teardown # {}
  <2>1. CASE Dispose
    BY <2>1 DEF Dispose
  <2>2. CASE DisposeStep
    BY <2>2 DEF DisposeStep, DisposeCancels, DisposeDrains, DisposeRetries, DisposeFinalDrain, Disposed, launchVars
  <2> QED
    BY <2>1, <2>2
<1>4. PlaceInv'
  BY <1>0, <1>1, <1>3 DEF PlaceInv, LaunchFailing
<1>5. KnownRuns' = KnownRuns /\ \A q \in Runs : Pending(q)' => Pending(q)
  BY <1>1 DEF KnownRuns, Known, Durable, Pending
<1>6. \A q \in Runs : LaunchFailing(q)' => LaunchFailing(q) /\ Harmless(queue[q], queue'[q])
  BY <1>1, <1>2 DEF LaunchFailing, Harmless
<1>7. \A q \in Runs : start'[q] = "claim" => startRev'[q] <= head[q].rev
  BY <1>0, <1>1 DEF RevInv
<1> QED
  BY <1>1, <1>4, <1>5, <1>6, <1>7 DEF Calm

LEMMA InitSettlement == Init => SettlementInv
<1> SUFFICES ASSUME Init PROVE SettlementInv
  OBVIOUS
<1>1. \A r \in Runs : /\ start[r] = "idle" /\ ~aborted[r] /\ job[r] = Idle
                      /\ head[r].status = "absent" /\ head[r].rev = 0
                      /\ row[r].status = "absent" /\ row[r].rev = 0
  BY DEF Init
<1>2. SoleInv
  BY <1>1, IdleOrder DEF SoleInv, LaunchFailing
<1>3. RevInv
  BY <1>1 DEF RevInv, TERMINAL
<1>4. PlaceInv
  <2>1. \A a \in Agents : drain[a].todo = {}
    BY DEF Init
  <2> QED
    BY <1>1, <2>1 DEF PlaceInv, LaunchFailing
<1>5. CountersMatchRuns
  <2>1. KnownRuns = {}
    BY <1>1 DEF KnownRuns, Known, Durable
  <2>2. {r \in KnownRuns : ~Terminal(r)} = {}
    BY <2>1
  <2>3. \A a \in Agents : {r \in Owned(a) \cap KnownRuns : ~Terminal(r)} = {}
    BY <2>1
  <2>4. activeTotal = 0 /\ \A a \in Agents : activeSession[a] = 0
    BY DEF Init
  <2> QED
    BY <2>2, <2>3, <2>4, FS_EmptySet DEF CountersMatchRuns
<1>6. AdmissionWithinLimits
  <2> DEFINE occupied == {r \in Runs : Pending(r) \/ (Durable(r) /\ row[r].status \notin TERMINAL)}
  <2>1. occupied = {}
    BY <1>1 DEF Pending, Durable
  <2>2. \A a \in Agents : occupied \cap Owned(a) = {}
    BY <2>1
  <2>3. Cardinality(occupied) = 0 /\ \A a \in Agents : Cardinality(occupied \cap Owned(a)) = 0
    BY <2>1, <2>2, FS_EmptySet
  <2> HIDE DEF occupied
  <2>4. Cardinality(occupied) <= MaxRunsGlobal /\ \A a \in Agents : Cardinality(occupied \cap Owned(a)) <= MaxRunsPerSession
    BY <2>3, ConstantsAssumption
  <2> QED
    BY <2>4 DEF AdmissionWithinLimits, occupied
<1> QED
  BY <1>2, <1>3, <1>4, <1>5, <1>6 DEF SettlementInv

LEMMA StepSettlement ==
  ASSUME OneTerminalizer, TypeOK, TypeOK', AttemptInv, TeardownInv, SettlementInv, [Next]_vars
  PROVE  SettlementInv' /\ \A q \in Runs : row[q].status \in TERMINAL => row'[q].status = row[q].status
<1>1. CASE UNCHANGED vars
  <2>1. UNCHANGED <<start, startRev, aborted, row, head, job, queue, capacityVars, gen, drain>>
    BY <1>1 DEF vars, launchVars, durableVars, attemptVars, queueVars, drainVars
  <2>2. KnownRuns' = KnownRuns /\ \A q \in Runs : Pending(q)' = Pending(q)
    BY <2>1 DEF KnownRuns, Known, Durable, Pending
  <2>3. \A q \in Runs : LaunchFailing(q)' => LaunchFailing(q) /\ Harmless(queue[q], queue'[q])
    BY <2>1 DEF LaunchFailing, Harmless
  <2>4. PlaceInv' /\ \A q \in Runs : start'[q] = "claim" => startRev'[q] <= head[q].rev
    BY <2>1 DEF SettlementInv, PlaceInv, LaunchFailing, RevInv
  <2>5. Calm
    BY <2>1, <2>2, <2>3, <2>4 DEF Calm
  <2> QED
    BY <2>5, CalmKeeps
<1>2. ASSUME NEW r \in Runs, LaunchStep(r) \/ Reserve(r)
      PROVE  SettlementInv' /\ \A q \in Runs : row[q].status \in TERMINAL => row'[q].status = row[q].status
  BY <1>2, LaunchSettlement
<1>3. ASSUME NEW r \in Runs, QueueStep(r)
      PROVE  SettlementInv' /\ \A q \in Runs : row[q].status \in TERMINAL => row'[q].status = row[q].status
  BY <1>3, QueueSettlement
<1>4. ASSUME NEW r \in Runs,
             Ask(r) \/ EngineEvent(r) \/ EngineGate(r) \/ \E g \in Gens : EngineQuiesces(r, g)
      PROVE  SettlementInv' /\ \A q \in Runs : row[q].status \in TERMINAL => row'[q].status = row[q].status
  BY <1>4, EngineSettlement, CalmKeeps
<1>5. ASSUME NEW r \in Runs, NoticeSettles(r)
      PROVE  SettlementInv' /\ \A q \in Runs : row[q].status \in TERMINAL => row'[q].status = row[q].status
  BY <1>5, NoticeSettlement
<1>6. ASSUME NEW a \in Agents, OwnerDisposed(a) \/ OwnerStep(a)
      PROVE  SettlementInv' /\ \A q \in Runs : row[q].status \in TERMINAL => row'[q].status = row[q].status
  BY <1>6, OwnerSettlement, CalmKeeps
<1>7. CASE Dispose \/ DisposeStep
  BY <1>7, DisposeSettlement, CalmKeeps DEF TeardownInv
<1> QED
  BY <1>1, <1>2, <1>3, <1>4, <1>5, <1>6, <1>7 DEF Next

THEOREM OneTerminalizerSettles == Spec => []Settlement
<1>1. Init => TypeOK /\ AttemptInv /\ TeardownInv /\ Settlement
  BY InitTypes, InitAttempts, InitTeardown, InitSettlement DEF Settlement
<1>2. TypeOK /\ AttemptInv /\ TeardownInv /\ Settlement /\ [Next]_vars
        => (TypeOK /\ AttemptInv /\ TeardownInv /\ Settlement)'
  <2> SUFFICES ASSUME TypeOK, AttemptInv, TeardownInv, Settlement, [Next]_vars
               PROVE  (TypeOK /\ AttemptInv /\ TeardownInv /\ Settlement)'
    OBVIOUS
  <2>1. (TypeOK /\ AttemptInv /\ TeardownInv)'
    BY StepTypes, StepAttempts, StepTeardown
  <2>2. Settlement'
    <3>1. ASSUME OneTerminalizer PROVE SettlementInv'
      BY <2>1, <3>1, StepSettlement DEF Settlement
    <3> QED
      BY <3>1 DEF Settlement, OneTerminalizer
  <2> QED
    BY <2>1, <2>2
<1> QED
  BY <1>1, <1>2, PTL DEF Spec

LEMMA SettlementCounts == Settlement => (OneTerminalizer => CountersMatchRuns)
BY DEF Settlement, SettlementInv

LEMMA SettlementAdmits == Settlement => (OneTerminalizer => AdmissionWithinLimits)
BY DEF Settlement, SettlementInv

(* The counters that admission compares with the limits count exactly the     *)
(* runs that the supervisor has published and not yet terminalized, whatever  *)
(* launches, controls, failures and teardowns are in progress:                *)
(* incrementActive of start and the decrement of terminalize                  *)
(* (src/src/supervisor/index.ts) happen once each for every run.              *)
THEOREM CountersAreExact == Spec => [](OneTerminalizer => CountersMatchRuns)
BY OneTerminalizerSettles, SettlementCounts, PTL

(* Runs that hold a reservation and runs whose durable row is live are        *)
(* together never more than the global limit, and for no Session more than    *)
(* its own: admission reserves before its first await, so no interleaving of  *)
(* launches lets one more in.                                                 *)
THEOREM LimitsAreKept == Spec => [](OneTerminalizer => AdmissionWithinLimits)
BY OneTerminalizerSettles, SettlementAdmits, PTL

(* A durable row that is terminal never takes another status: terminalize     *)
(* tests the run only at its entry, before the drain and the scratch claim,   *)
(* and still a second terminalization, a late commit or a launch that fails   *)
(* behind a settled run writes nothing over it.                               *)
THEOREM TerminalStays == ASSUME OneTerminalizer PROVE Spec => TerminalIsFinal
<1>1. TypeOK /\ TypeOK' /\ AttemptInv /\ TeardownInv /\ Settlement /\ [Next]_vars
        => [\A r \in Runs : row[r].status \in TERMINAL => row'[r].status = row[r].status]_vars
  BY StepSettlement DEF Settlement
<1>2. Spec => []TypeOK
  BY TypeCorrect
<1>3. Spec => []AttemptInv
  BY AttemptsInOrder
<1> QED
  BY <1>1, <1>2, <1>3, TeardownAccounts, OneTerminalizerSettles, PTL DEF Spec, TerminalIsFinal
=============================================================================
