--------------------------- MODULE ServicesProofs ---------------------------
(***************************************************************************)
(* What is proved of three components that share no state, for every value *)
(* of the constants: the completion notices of an owner are read in order  *)
(* and a quiet owner is settled (NoticeInv); the client honours the hints of*)
(* the host and keeps its poll armed (ClientInv); a save of a definition   *)
(* replaces only what it saw (SaveInv).                                    *)
(***************************************************************************)
EXTENDS CompletionNotice, ClientController, DefinitionSave,
        FiniteSetTheorems, SequenceTheorems, WellFoundedInduction, TLAPS
-----------------------------------------------------------------------------
(* CompletionNotice: types. *)
Claims == {"none", "claimed", "delivered", "abandoned"}
NoticeTypeOK ==
  /\ claim \in [Notices -> Claims] /\ attempted \in Seq(Notices)
  /\ known \in SUBSET Owners /\ pending \in [Owners -> Seq(Notices)] /\ scheduled \in [Owners -> BOOLEAN]
  /\ drain \in [Owners -> {"none", "append", "finalize", "ended"}]
  /\ cohort \in [Owners -> Seq(Notices)] /\ delivered \in [Owners -> BOOLEAN]
  /\ settled \in SUBSET Notices /\ direct \in SUBSET Notices /\ spliced \in SUBSET Notices
  /\ disposal \in {"no", "splicing", "done"} /\ quiet \in [Owners -> {"no", "waits", "quiet"}]
  /\ transcript \in [Owners -> Seq(Seq(Notices))] /\ lost \in SUBSET Notices

(* notify() is called once for a notice, and the queues hold an owner's own, of
   the calls q. *)
Within(c) == Len(c) <= MaxItems /\ MessageBytes(c) <= MaxCohortBytes
Has(q, n) == \E i \in DOMAIN q : q[i] = n
CalledOnce == \A i, j \in DOMAIN attempted : attempted[i] = attempted[j] => i = j
OfOwner(q, o, c) == \A a \in DOMAIN c : Has(q, c[a]) /\ OwnerOf[c[a]] = o
OwnQueues == \A o \in Owners :
  /\ OfOwner(attempted, o, pending[o]) /\ OfOwner(attempted, o, cohort[o])
  /\ \A i \in DOMAIN transcript[o] : OfOwner(attempted, o, transcript[o][i])

(* Where a notice whose call is open is waiting. *)
Held(n) == n \in direct \cup spliced \/ Has(pending[OwnerOf[n]], n) \/ Has(cohort[OwnerOf[n]], n)
OpenIsHeld == \A n \in Notices : Has(attempted, n) /\ n \notin settled => Held(n)
SettledIsFinal == \A n \in settled : claim[n] = "claimed" => n \in lost
CalledFirst == \A n \in settled \cup direct \cup spliced : Has(attempted, n)

(* The drain of an owner and its queue. *)
Drained == \A o \in Owners :
  /\ cohort[o] = <<>> <=> drain[o] \in {"none", "ended"}
  /\ scheduled[o] => drain[o] = "none"
  /\ o \in known => drain[o] # "none" \/ scheduled[o]
  /\ pending[o] # <<>> => o \in known
  /\ drain[o] \in {"append", "finalize"} => o \in known
  /\ disposal # "done" /\ (drain[o] = "ended" \/ scheduled[o]) => o \in known
  /\ disposal # "no" => pending[o] = <<>>
  /\ quiet[o] = "quiet" /\ disposal = "no" => o \notin known
Disposed ==
  /\ disposal = "no" => direct = {}
  /\ disposal # "splicing" => spliced = {}
  /\ disposal = "done" => known = {}

(* An owner's notices in the order of the calls: its messages, then what is to
   be appended, then its queue. *)
Before(q, m, n) == \E i, j \in DOMAIN q : i < j /\ q[i] = m /\ q[j] = n
Sorted(q, c) == \A a, b \in DOMAIN c : a < b => Before(q, c[a], c[b])
Precedes(q, c, d) == \A a \in DOMAIN c, b \in DOMAIN d : Before(q, c[a], d[b])
InOrder == \A o \in Owners :
  /\ Sorted(attempted, pending[o]) /\ Sorted(attempted, cohort[o]) /\ Precedes(attempted, cohort[o], pending[o])
  /\ \A i \in DOMAIN transcript[o] :
       /\ Sorted(attempted, transcript[o][i]) /\ Precedes(attempted, transcript[o][i], pending[o])
       /\ drain[o] = "append" => Precedes(attempted, transcript[o][i], cohort[o])
       /\ \A j \in DOMAIN transcript[o] : i < j => Precedes(attempted, transcript[o][i], transcript[o][j])
Sized == \A o \in Owners :
  /\ drain[o] = "append" => Within(cohort[o])
  /\ \A i \in DOMAIN transcript[o] : Within(transcript[o][i])

(* What is recorded as delivered was read. *)
Read(t, n) == \E i \in DOMAIN t : Has(t[i], n)
Delivered ==
  /\ \A n \in Notices : claim[n] = "delivered" => Read(transcript[OwnerOf[n]], n)
  /\ \A o \in Owners : drain[o] = "finalize" /\ delivered[o] =>
       \A a \in DOMAIN cohort[o] : Read(transcript[o], cohort[o][a])

OrderInv  == CalledOnce /\ OwnQueues /\ InOrder /\ Sized
NoticeInv == OrderInv /\ CalledFirst /\ OpenIsHeld /\ SettledIsFinal /\ Drained /\ Disposed /\ Delivered
-----------------------------------------------------------------------------
(* CompletionNotice: lemmas. *)

(* A nonempty set of numbers up to a bound has a largest one. *)
LEMMA LargestExists ==
  ASSUME NEW m \in Nat, NEW S, S \subseteq 0 .. m, S # {}
  PROVE  \E k \in S : \A l \in S : l <= k
<1> DEFINE T == {n \in Nat : \E k \in S : n = m - k}
<1>1. T \subseteq Nat /\ T # {}
  <2>1. PICK k \in S : TRUE
    OBVIOUS
  <2>2. m - k \in Nat
    OBVIOUS
  <2> QED
    BY <2>1, <2>2
<1>2. PICK n \in T : \A y \in T : ~(<<y, n>> \in OpToRel(<, Nat))
  BY <1>1, NatLessThanWellFounded, WFMin
<1>3. \A y \in T : ~(y < n)
  BY <1>1, <1>2 DEF OpToRel
<1>4. PICK k \in S : n = m - k
  BY <1>2
<1>5. \A l \in S : m - l \in T
  OBVIOUS
<1>6. \A l \in S : l <= k
  BY <1>3, <1>4, <1>5
<1> QED
  BY <1>6

(* The bytes of a message of one notice. *)
LEMMA MessageOfOne ==
  ASSUME NEW n \in Notices, NEW c, c = <<n>>
  PROVE  MessageBytes(c) = Bytes[n]
<1> DEFINE g == [s \in SUBSET {1} |-> IF s = {} THEN 0 ELSE 0 + Bytes[n] + Separator]
           F(h, s) == IF s = {} THEN 0 ELSE h[s \ {Max(s)}] + Bytes[c[Max(s)]] + Separator
           iter == CHOOSE h : h = [s \in SUBSET {1} |-> F(h, s)]
<1>1. DOMAIN c = {1} /\ c[1] = n
  OBVIOUS
<1>2. Max({1}) = 1
  BY DEF Max
<1>3. SUBSET {1} = {{}, {1}} /\ {1} \ {1} = {} /\ {1} # {}
  OBVIOUS
<1>4. g = [s \in SUBSET {1} |-> F(g, s)]
  <2>1. g[{}] = 0 /\ g[{1}] = 0 + Bytes[n] + Separator
    BY <1>3
  <2>2. F(g, {}) = g[{}] /\ F(g, {1}) = g[{1}]
    BY <1>1, <1>2, <1>3, <2>1
  <2> QED
    BY <1>3, <2>2
<1>5. iter = [s \in SUBSET {1} |-> F(iter, s)]
  BY <1>4
<1> HIDE DEF iter, g
<1>6. iter[{}] = 0 /\ iter[{1}] = iter[{}] + Bytes[n] + Separator
  <2>1. \A s \in SUBSET {1} : iter[s] = F(iter, s)
    BY <1>5
  <2>2. F(iter, {}) = 0 /\ F(iter, {1}) = iter[{}] + Bytes[n] + Separator
    BY <1>1, <1>2, <1>3
  <2> QED
    BY <1>3, <2>1, <2>2
<1>7. MessageBytes(c) = iter[{1}] - Separator
  BY <1>1 DEF MessageBytes, FoldLeft, MapThenFoldSet, iter
<1>8. Bytes[n] \in Nat /\ Separator \in Nat
  BY NoticeAssumption
<1> QED
  BY <1>6, <1>7, <1>8

LEMMA OneFits ==
  ASSUME NEW c \in Seq(Notices), Len(c) = 1
  PROVE  MessageBytes(c) <= MaxCohortBytes
<1>0. 1 \in 1 .. Len(c)
  OBVIOUS
<1>1. c[1] \in Notices
  BY <1>0, ElementOfSeq
<1>2. c = <<c[1]>>
  <2>1. <<c[1]>> \in Seq(Notices) /\ Len(<<c[1]>>) = 1 /\ <<c[1]>>[1] = c[1]
    BY <1>1
  <2> QED
    BY <2>1, SeqEqual
<1>3. MessageBytes(c) = Bytes[c[1]]
  BY <1>1, <1>2, MessageOfOne
<1> QED
  BY <1>1, <1>3, NoticeAssumption

(* takeCohort takes at least one notice, and what it takes fits. *)
LEMMA TakenFits ==
  ASSUME NEW p \in Seq(Notices), p # <<>>
  PROVE  /\ Taken(p) \in 1 .. Len(p) /\ SubSeq(p, 1, Taken(p)) \in Seq(Notices)
         /\ Within(SubSeq(p, 1, Taken(p)))
<1> DEFINE S == {k \in 1 .. Len(p) : k <= MaxItems /\ Fits(SubSeq(p, 1, k))}
<1>1. \A k \in 1 .. Len(p) : SubSeq(p, 1, k) \in Seq(Notices) /\ Len(SubSeq(p, 1, k)) = k
  OBVIOUS
<1>2. 1 \in S
  BY <1>1, NoticeAssumption DEF Fits
<1>3. PICK k \in S : \A l \in S : l <= k
  <2>1. S \subseteq 0 .. Len(p) /\ S # {} /\ Len(p) \in Nat
    BY <1>2
  <2> QED
    BY <2>1, LargestExists
<1>4. /\ k <= MaxItems /\ Fits(SubSeq(p, 1, k))
      /\ \A l \in k + 1 .. Len(p) : l > MaxItems \/ ~Fits(SubSeq(p, 1, l))
  <2>1. ASSUME NEW l \in k + 1 .. Len(p), l <= MaxItems, Fits(SubSeq(p, 1, l)) PROVE FALSE
    <3>1. l \in S
      BY <2>1
    <3> QED
      BY <1>3, <2>1, <3>1
  <2> QED
    BY <2>1, NoticeAssumption
<1> HIDE DEF S
<1>5. Taken(p) \in 1 .. Len(p) /\ Taken(p) <= MaxItems /\ Fits(SubSeq(p, 1, Taken(p)))
  BY <1>3, <1>4 DEF Taken, S
<1>6. \A c \in Seq(Notices) : Len(c) = 1 => MessageBytes(c) <= MaxCohortBytes
  BY OneFits
<1> QED
  BY <1>1, <1>5, <1>6 DEF Fits, Within

(* x is the front of the queue p, and y the rest. *)
Splits(p, x, y) == \E k \in 1 .. Len(p) :
  /\ Len(x) = k /\ Len(y) = Len(p) - k
  /\ \A a \in 1 .. k : x[a] = p[a]
  /\ \A a \in 1 .. Len(p) - k : y[a] = p[k + a]

(* What Drain does with the owner's queue. *)
LEMMA DrainTakes ==
  ASSUME NoticeTypeOK, NEW o \in Owners, Drain(o, pending[o])
  PROVE  /\ \A u \in Owners \ {o} : drain'[u] = drain[u] /\ pending'[u] = pending[u] /\ cohort'[u] = cohort[u]
         /\ pending' \in [Owners -> Seq(Notices)] /\ cohort' \in [Owners -> Seq(Notices)]
         /\ drain' \in [Owners -> {"none", "append", "finalize", "ended"}]
         /\ pending[o] = <<>> => drain'[o] = "ended" /\ pending'[o] = <<>> /\ cohort'[o] = <<>>
         /\ pending[o] # <<>> =>
              /\ drain'[o] = "append" /\ Within(cohort'[o]) /\ cohort'[o] # <<>>
              /\ Splits(pending[o], cohort'[o], pending'[o])
<1> DEFINE p == pending[o]
           k == Taken(p)
<1>0. p \in Seq(Notices)
  BY DEF NoticeTypeOK
<1>1. CASE p = <<>>
  BY <1>1 DEF Drain, NoticeTypeOK
<1>2. CASE p # <<>>
  <2>1. k \in 1 .. Len(p) /\ Within(SubSeq(p, 1, k))
    BY <1>0, <1>2, TakenFits
  <2>2. /\ SubSeq(p, 1, k) \in Seq(Notices) /\ Len(SubSeq(p, 1, k)) = k
        /\ SubSeq(p, k + 1, Len(p)) \in Seq(Notices) /\ Len(SubSeq(p, k + 1, Len(p))) = Len(p) - k
        /\ \A a \in 1 .. k : SubSeq(p, 1, k)[a] = p[a]
        /\ \A a \in 1 .. Len(p) - k : SubSeq(p, k + 1, Len(p))[a] = p[k + a]
    <3> HIDE DEF k, p
    <3> QED
      BY <1>0, <2>1
  <2>3. /\ drain' = [drain EXCEPT ![o] = "append"]
        /\ pending' = [pending EXCEPT ![o] = SubSeq(p, k + 1, Len(p))]
        /\ cohort' = [cohort EXCEPT ![o] = SubSeq(p, 1, k)]
    BY <1>2 DEF Drain
  <2>4. SubSeq(p, 1, k) # <<>>
    <3> HIDE DEF k, p
    <3> QED
      BY <2>1, <2>2
  <2>5. pending'[o] = SubSeq(p, k + 1, Len(p)) /\ cohort'[o] = SubSeq(p, 1, k) /\ drain'[o] = "append"
    BY <2>3 DEF NoticeTypeOK
  <2>6. /\ \A u \in Owners \ {o} : drain'[u] = drain[u] /\ pending'[u] = pending[u] /\ cohort'[u] = cohort[u]
        /\ pending' \in [Owners -> Seq(Notices)] /\ cohort' \in [Owners -> Seq(Notices)]
        /\ drain' \in [Owners -> {"none", "append", "finalize", "ended"}]
    BY <2>2, <2>3 DEF NoticeTypeOK
  <2>7. Splits(p, SubSeq(p, 1, k), SubSeq(p, k + 1, Len(p)))
    <3> HIDE DEF k, p
    <3> QED
      BY <2>1, <2>2 DEF Splits
  <2> HIDE DEF k
  <2> QED
    BY <1>2, <2>1, <2>4, <2>5, <2>6, <2>7
<1> QED
  BY <1>1, <1>2

(* Types. *)
LEMMA NoticeTypeStep == NoticeTypeOK /\ Drained /\ [NoticeNext]_noticeVars => NoticeTypeOK'
<1> SUFFICES ASSUME NoticeTypeOK, Drained, [NoticeNext]_noticeVars PROVE NoticeTypeOK'
  OBVIOUS
<1>1. ASSUME NEW n \in Notices, Notify(n) PROVE NoticeTypeOK'
  <2>1. OwnerOf[n] \in Owners
    BY NoticeAssumption
  <2>2. Append(attempted, n) \in Seq(Notices) /\ \A q \in Seq(Notices) : Append(q, n) \in Seq(Notices)
    BY DEF NoticeTypeOK
  <2>3. quiet' \in [Owners -> {"no", "waits", "quiet"}] /\ claim' \in [Notices -> Claims]
    BY <1>1, <2>1 DEF Notify, NoticeTypeOK, Claims
  <2>4. pending' \in [Owners -> Seq(Notices)] /\ known' \in SUBSET Owners
    <3>1. \/ UNCHANGED queues
          \/ /\ pending' = [pending EXCEPT ![OwnerOf[n]] = Append(pending[OwnerOf[n]], n)]
             /\ known' = known \cup {OwnerOf[n]}
      BY <1>1 DEF Notify
    <3>2. pending \in [Owners -> Seq(Notices)] /\ known \in SUBSET Owners
      BY DEF NoticeTypeOK
    <3>3. Append(pending[OwnerOf[n]], n) \in Seq(Notices)
      BY <2>1, <2>2, <3>2
    <3> QED
      BY <2>1, <3>1, <3>2, <3>3 DEF queues
  <2>5. scheduled' \in [Owners -> BOOLEAN]
    BY <1>1, <2>1 DEF Notify, NoticeTypeOK, queues
  <2> QED
    BY <1>1, <2>2, <2>3, <2>4, <2>5 DEF Notify, NoticeTypeOK, drains
<1>2. ASSUME NEW o \in Owners, StartDrain(o) PROVE NoticeTypeOK'
  BY <1>2, DrainTakes DEF StartDrain, teardown, NoticeTypeOK
<1>3. ASSUME NEW o \in Owners, AppendSettles(o) PROVE NoticeTypeOK'
  <2>1. \A q \in Seq(Seq(Notices)), c \in Seq(Notices) : Append(q, c) \in Seq(Seq(Notices))
    OBVIOUS
  <2>2. transcript' \in [Owners -> Seq(Seq(Notices))] /\ delivered' \in [Owners -> BOOLEAN]
    BY <1>3, <2>1 DEF AppendSettles, NoticeTypeOK
  <2> QED
    BY <1>3, <2>2 DEF AppendSettles, queues, teardown, NoticeTypeOK
<1>4. ASSUME NEW o \in Owners, FinalizeNext(o) PROVE NoticeTypeOK'
  <2>1. cohort[o] \in Seq(Notices) /\ cohort[o] # <<>>
    BY <1>4 DEF FinalizeNext, NoticeTypeOK, Drained
  <2>2. Head(cohort[o]) \in Notices /\ Tail(cohort[o]) \in Seq(Notices)
    BY <2>1
  <2>3. /\ pending' \in [Owners -> Seq(Notices)] /\ cohort' \in [Owners -> Seq(Notices)]
        /\ drain' \in [Owners -> {"none", "append", "finalize", "ended"}]
    BY <1>4, <2>2, DrainTakes DEF FinalizeNext, NoticeTypeOK
  <2>4. claim' \in [Notices -> Claims] /\ lost' \in SUBSET Notices
    BY <1>4, <2>2 DEF FinalizeNext, Finalize, NoticeTypeOK, Claims
  <2> QED
    BY <1>4, <2>2, <2>3, <2>4 DEF FinalizeNext, teardown, NoticeTypeOK
<1>5. ASSUME NEW o \in Owners, DrainEnds(o) PROVE NoticeTypeOK'
  BY <1>5 DEF DrainEnds, teardown, NoticeTypeOK
<1>6. ASSUME NEW o \in Owners, AskQuiet(o) \/ Quiesces(o) PROVE NoticeTypeOK'
  BY <1>6 DEF AskQuiet, Quiesces, queues, drains, teardown, NoticeTypeOK
<1>7. CASE FinalizeDirect
  BY <1>7 DEF FinalizeDirect, Finalize, queues, drains, NoticeTypeOK, Claims
<1>8. CASE DisposeFinalizes
  BY <1>8 DEF DisposeFinalizes, Finalize, queues, drains, NoticeTypeOK, Claims
<1>9. CASE Dispose
  <2>1. Queued \subseteq Notices
    BY DEF Queued, ToSet, NoticeTypeOK
  <2>2. <<>> \in Seq(Notices)
    OBVIOUS
  <2> QED
    BY <1>9, <2>1, <2>2 DEF Dispose, drains, NoticeTypeOK
<1>10. CASE DisposeEnds
  BY <1>10 DEF DisposeEnds, drains, NoticeTypeOK
<1>11. CASE UNCHANGED noticeVars
  BY <1>11 DEF noticeVars, queues, drains, teardown, NoticeTypeOK
<1> QED
  BY <1>1, <1>2, <1>3, <1>4, <1>5, <1>6, <1>7, <1>8, <1>9, <1>10, <1>11 DEF NoticeNext

(* What a new call does to the order of the calls. *)
LEMMA CallsGrow ==
  ASSUME NEW q \in Seq(Notices), NEW n \in Notices, ~Has(q, n), NEW r, r = Append(q, n)
  PROVE  /\ Has(r, n) /\ \A m : Has(r, m) => Has(q, m) \/ m = n
         /\ \A m : Has(q, m) => Has(r, m) /\ Before(r, m, n)
         /\ \A m, k : Before(q, m, k) => Before(r, m, k)
         /\ (\A i, j \in DOMAIN q : q[i] = q[j] => i = j) => (\A i, j \in DOMAIN r : r[i] = r[j] => i = j)
<1>1. /\ r \in Seq(Notices) /\ Len(r) = Len(q) + 1 /\ r[Len(q) + 1] = n
      /\ DOMAIN q = 1 .. Len(q) /\ DOMAIN r = 1 .. Len(q) + 1 /\ Len(q) \in Nat
      /\ \A i \in 1 .. Len(q) : r[i] = q[i]
  OBVIOUS
<1>2. \A i \in DOMAIN q : i \in DOMAIN r /\ r[i] = q[i] /\ i < Len(q) + 1
  BY <1>1
<1>3. \A i \in DOMAIN r : i \in DOMAIN q \/ i = Len(q) + 1
  BY <1>1
<1>4. Len(q) + 1 \in DOMAIN r
  BY <1>1
<1> QED
  BY <1>1, <1>2, <1>3, <1>4 DEF Has, Before

(* A queue keeps its order as calls come, and the newest call ends it. *)
LEMMA QueueGrows ==
  ASSUME NEW q \in Seq(Notices), NEW n \in Notices, ~Has(q, n), NEW r, r = Append(q, n),
         NEW o, NEW c \in Seq(Notices), OfOwner(q, o, c), Sorted(q, c)
  PROVE  /\ OfOwner(r, o, c) /\ Sorted(r, c)
         /\ o = OwnerOf[n] => OfOwner(r, o, Append(c, n))
         /\ Sorted(r, Append(c, n))
         /\ \A d \in Seq(Notices) : Precedes(q, d, c) => Precedes(r, d, c)
         /\ \A d \in Seq(Notices) : Precedes(q, d, c) /\ OfOwner(q, o, d) => Precedes(r, d, Append(c, n))
<1> DEFINE e == Append(c, n)
<1>1. /\ e \in Seq(Notices) /\ DOMAIN c = 1 .. Len(c) /\ DOMAIN e = 1 .. Len(c) + 1 /\ Len(c) \in Nat
      /\ e[Len(c) + 1] = n /\ \A i \in 1 .. Len(c) : e[i] = c[i]
  OBVIOUS
<1> HIDE DEF e
<1>2. \A i \in DOMAIN e : (i \in DOMAIN c /\ e[i] = c[i]) \/ (i = Len(c) + 1 /\ e[i] = n)
  BY <1>1
<1>3. \A i, j \in DOMAIN e : i < j => i \in DOMAIN c
  BY <1>1
<1>4. /\ Has(r, n) /\ \A m : Has(q, m) => Has(r, m) /\ Before(r, m, n)
      /\ \A m, k : Before(q, m, k) => Before(r, m, k)
  BY CallsGrow
<1>5. OfOwner(r, o, c) /\ Sorted(r, c) /\ \A d \in Seq(Notices) : Precedes(q, d, c) => Precedes(r, d, c)
  <2>1. OfOwner(r, o, c)
    BY <1>4 DEF OfOwner
  <2>2. Sorted(r, c)
    BY <1>4 DEF Sorted
  <2>3. \A d \in Seq(Notices) : Precedes(q, d, c) => Precedes(r, d, c)
    BY <1>4 DEF Precedes
  <2> QED
    BY <2>1, <2>2, <2>3
<1>6. (o = OwnerOf[n] => OfOwner(r, o, e)) /\ Sorted(r, e)
  BY <1>2, <1>3, <1>4 DEF OfOwner, Sorted
<1>7. \A d \in Seq(Notices) : Precedes(q, d, c) /\ OfOwner(q, o, d) => Precedes(r, d, e)
  BY <1>2, <1>4 DEF OfOwner, Precedes
<1> QED
  BY <1>5, <1>6, <1>7 DEF e

(* What takeCohort takes and what it leaves. *)
LEMMA QueueSplits ==
  ASSUME NEW q, NEW o, NEW p \in Seq(Notices), NEW x \in Seq(Notices), NEW y \in Seq(Notices),
         Splits(p, x, y), OfOwner(q, o, p), Sorted(q, p)
  PROVE  /\ OfOwner(q, o, x) /\ OfOwner(q, o, y) /\ Sorted(q, x) /\ Sorted(q, y) /\ Precedes(q, x, y)
         /\ \A d : Precedes(q, d, p) => Precedes(q, d, x) /\ Precedes(q, d, y)
         /\ \A m : Has(p, m) => Has(x, m) \/ Has(y, m)
<1>0. PICK k \in 1 .. Len(p) :
        /\ Len(x) = k /\ Len(y) = Len(p) - k
        /\ \A a \in 1 .. k : x[a] = p[a]
        /\ \A a \in 1 .. Len(p) - k : y[a] = p[k + a]
  BY DEF Splits
<1>1. /\ DOMAIN p = 1 .. Len(p) /\ DOMAIN x = 1 .. k /\ DOMAIN y = 1 .. Len(p) - k
      /\ Len(p) \in Nat /\ k \in Nat
  BY <1>0
<1>2. \A a \in DOMAIN x : a \in DOMAIN p /\ x[a] = p[a] /\ \A b \in DOMAIN y : a < k + b
  BY <1>0, <1>1
<1>3. \A b \in DOMAIN y : k + b \in DOMAIN p /\ y[b] = p[k + b]
  BY <1>0, <1>1
<1>4. \A a, b \in DOMAIN y : a < b => k + a < k + b
  BY <1>0, <1>1
<1>5. \A a \in DOMAIN p : a \in DOMAIN x \/ (a - k \in DOMAIN y /\ y[a - k] = p[a])
  BY <1>0, <1>1
<1>6. OfOwner(q, o, x) /\ OfOwner(q, o, y) /\ \A d : Precedes(q, d, p) => Precedes(q, d, x) /\ Precedes(q, d, y)
  BY <1>2, <1>3 DEF OfOwner, Precedes
<1>7. Sorted(q, x) /\ Sorted(q, y) /\ Precedes(q, x, y)
  BY <1>2, <1>3, <1>4 DEF Sorted, Precedes
<1>8. \A m : Has(p, m) => Has(x, m) \/ Has(y, m)
  BY <1>2, <1>5 DEF Has
<1> QED
  BY <1>6, <1>7, <1>8

(* What a sequence and its tail hold. *)
LEMMA TailHolds ==
  ASSUME NEW c \in Seq(Notices), c # <<>>
  PROVE  /\ \A m : Has(c, m) => m = Head(c) \/ Has(Tail(c), m)
         /\ Head(c) = c[1] /\ 1 \in DOMAIN c /\ Head(c) \in Notices
         /\ \A a \in DOMAIN Tail(c) : a + 1 \in DOMAIN c /\ Tail(c)[a] = c[a + 1]
         /\ Len(c) <= 1 <=> Tail(c) = <<>>
<1> DEFINE t == Tail(c)
<1>1. /\ t \in Seq(Notices) /\ Len(t) = Len(c) - 1 /\ DOMAIN c = 1 .. Len(c) /\ DOMAIN t = 1 .. Len(c) - 1
      /\ Len(c) \in Nat /\ Len(c) >= 1 /\ Head(c) = c[1] /\ Head(c) \in Notices
      /\ \A a \in 1 .. Len(c) - 1 : t[a] = c[a + 1]
  OBVIOUS
<1>0. Len(c) <= 1 <=> Tail(c) = <<>>
  <2>1. Len(t) = 0 <=> t = <<>>
    BY <1>1, EmptySeq
  <2> QED
    BY <1>1, <2>1
<1> HIDE DEF t
<1>2. \A a \in DOMAIN t : a + 1 \in DOMAIN c /\ t[a] = c[a + 1]
  BY <1>1
<1>4. \A a \in DOMAIN c : a = 1 \/ (a - 1 \in DOMAIN t /\ t[a - 1] = c[a])
  BY <1>1
<1>5. 1 \in DOMAIN c
  BY <1>1
<1>7. \A m : Has(c, m) => m = Head(c) \/ Has(t, m)
  BY <1>1, <1>4 DEF Has
<1> QED
  BY <1>0, <1>1, <1>2, <1>5, <1>7 DEF t

(* What is left of a cohort when its first notice is finalized. *)
LEMMA CohortShrinks ==
  ASSUME NEW q, NEW o, NEW c \in Seq(Notices), c # <<>>, OfOwner(q, o, c), Sorted(q, c)
  PROVE  /\ OfOwner(q, o, Tail(c)) /\ Sorted(q, Tail(c))
         /\ \A d : Precedes(q, c, d) => Precedes(q, Tail(c), d)
<1> DEFINE t == Tail(c)
<1>1. \A a \in DOMAIN t : a + 1 \in DOMAIN c /\ t[a] = c[a + 1]
  BY TailHolds
<1>2. \A a, b \in DOMAIN t : a < b => a + 1 < b + 1
  OBVIOUS
<1> HIDE DEF t
<1>3. OfOwner(q, o, t)
  BY <1>1 DEF OfOwner
<1>4. Sorted(q, t)
  BY <1>1, <1>2 DEF Sorted
<1>5. \A d : Precedes(q, c, d) => Precedes(q, t, d)
  BY <1>1 DEF Precedes
<1> QED
  BY <1>3, <1>4, <1>5 DEF t

(* notify() puts its notice at the end of everything its owner is to read. *)
LEMMA NotifyKeepsOrder ==
  ASSUME NoticeTypeOK, OrderInv, NEW n \in Notices, Notify(n)
  PROVE  OrderInv'
<1>1. /\ attempted' = Append(attempted, n) /\ attempted \in Seq(Notices) /\ ~Has(attempted, n)
      /\ UNCHANGED <<cohort, drain, transcript>>
  BY DEF Notify, Fresh, ToSet, Has, drains, NoticeTypeOK
<1>2. CalledOnce'
  BY <1>1, CallsGrow DEF OrderInv, CalledOnce
<1>3. \A u \in Owners : pending'[u] = pending[u] \/ (u = OwnerOf[n] /\ pending'[u] = Append(pending[u], n))
  BY DEF Notify, queues, NoticeTypeOK
<1> SUFFICES ASSUME NEW u \in Owners
             PROVE  /\ OfOwner(attempted', u, pending'[u]) /\ OfOwner(attempted', u, cohort[u])
                    /\ \A i \in DOMAIN transcript[u] : OfOwner(attempted', u, transcript[u][i])
                    /\ Sorted(attempted', pending'[u]) /\ Sorted(attempted', cohort[u])
                    /\ Precedes(attempted', cohort[u], pending'[u])
                    /\ \A i \in DOMAIN transcript[u] :
                         /\ Sorted(attempted', transcript[u][i]) /\ Precedes(attempted', transcript[u][i], pending'[u])
                         /\ drain[u] = "append" => Precedes(attempted', transcript[u][i], cohort[u])
                         /\ \A j \in DOMAIN transcript[u] : i < j => Precedes(attempted', transcript[u][i], transcript[u][j])
  BY <1>1, <1>2 DEF OrderInv, OwnQueues, InOrder, Sized
<1>4. /\ pending[u] \in Seq(Notices) /\ cohort[u] \in Seq(Notices)
      /\ \A i \in DOMAIN transcript[u] : transcript[u][i] \in Seq(Notices)
  BY DEF NoticeTypeOK
<1>5. /\ OfOwner(attempted, u, pending[u]) /\ OfOwner(attempted, u, cohort[u])
      /\ Sorted(attempted, pending[u]) /\ Sorted(attempted, cohort[u]) /\ Precedes(attempted, cohort[u], pending[u])
  BY DEF OrderInv, OwnQueues, InOrder
<1>q. /\ OfOwner(attempted', u, pending[u]) /\ Sorted(attempted', pending[u])
      /\ u = OwnerOf[n] => OfOwner(attempted', u, Append(pending[u], n))
      /\ Sorted(attempted', Append(pending[u], n))
      /\ \A d \in Seq(Notices) : Precedes(attempted, d, pending[u]) => Precedes(attempted', d, pending[u])
      /\ \A d \in Seq(Notices) : Precedes(attempted, d, pending[u]) /\ OfOwner(attempted, u, d) =>
           Precedes(attempted', d, Append(pending[u], n))
  BY <1>1, <1>4, <1>5, QueueGrows
<1>6. OfOwner(attempted', u, cohort[u]) /\ Sorted(attempted', cohort[u])
  BY <1>1, <1>4, <1>5, QueueGrows
<1>7. OfOwner(attempted', u, pending'[u]) /\ Sorted(attempted', pending'[u]) /\ Precedes(attempted', cohort[u], pending'[u])
  BY <1>3, <1>4, <1>5, <1>q
<1>8. ASSUME NEW i \in DOMAIN transcript[u]
      PROVE  /\ OfOwner(attempted', u, transcript[u][i]) /\ Sorted(attempted', transcript[u][i])
             /\ Precedes(attempted', transcript[u][i], pending'[u])
             /\ drain[u] = "append" => Precedes(attempted', transcript[u][i], cohort[u])
             /\ \A j \in DOMAIN transcript[u] : i < j => Precedes(attempted', transcript[u][i], transcript[u][j])
  <2>1. /\ OfOwner(attempted, u, transcript[u][i]) /\ Sorted(attempted, transcript[u][i])
        /\ Precedes(attempted, transcript[u][i], pending[u])
        /\ drain[u] = "append" => Precedes(attempted, transcript[u][i], cohort[u])
        /\ \A j \in DOMAIN transcript[u] : i < j => Precedes(attempted, transcript[u][i], transcript[u][j])
    BY DEF OrderInv, OwnQueues, InOrder
  <2>2. OfOwner(attempted', u, transcript[u][i]) /\ Sorted(attempted', transcript[u][i])
    BY <1>1, <1>4, <2>1, QueueGrows
  <2>3. Precedes(attempted', transcript[u][i], pending'[u])
    BY <1>3, <1>4, <1>q, <2>1
  <2>4. drain[u] = "append" => Precedes(attempted', transcript[u][i], cohort[u])
    BY <1>1, <1>4, <1>5, <2>1, QueueGrows
  <2>5. ASSUME NEW j \in DOMAIN transcript[u], i < j
        PROVE  Precedes(attempted', transcript[u][i], transcript[u][j])
    <3>1. OfOwner(attempted, u, transcript[u][j]) /\ Sorted(attempted, transcript[u][j])
      BY DEF OrderInv, OwnQueues, InOrder
    <3> QED
      BY <1>1, <1>4, <2>1, <2>5, <3>1, QueueGrows
  <2> QED
    BY <2>2, <2>3, <2>4, <2>5
<1> QED
  BY <1>6, <1>7, <1>8

(* The drain takes a cohort off the front of the queue. *)
LEMMA DrainKeepsOrder ==
  ASSUME NoticeTypeOK, OrderInv, NEW o \in Owners, Drain(o, pending[o]), UNCHANGED <<attempted, transcript>>
  PROVE  OrderInv' /\ \A m : Has(pending[o], m) => Has(pending'[o], m) \/ Has(cohort'[o], m)
<1>1. CalledOnce'
  BY DEF OrderInv, CalledOnce
<1>2. /\ pending[o] \in Seq(Notices) /\ pending'[o] \in Seq(Notices) /\ cohort'[o] \in Seq(Notices)
      /\ \A u \in Owners \ {o} : drain'[u] = drain[u] /\ pending'[u] = pending[u] /\ cohort'[u] = cohort[u]
  BY DrainTakes DEF NoticeTypeOK
<1>3. /\ OfOwner(attempted, o, pending[o]) /\ Sorted(attempted, pending[o])
      /\ \A i \in DOMAIN transcript[o] : Precedes(attempted, transcript[o][i], pending[o])
  BY DEF OrderInv, OwnQueues, InOrder
<1>4. /\ OfOwner(attempted, o, pending'[o]) /\ OfOwner(attempted, o, cohort'[o])
      /\ Sorted(attempted, pending'[o]) /\ Sorted(attempted, cohort'[o]) /\ Precedes(attempted, cohort'[o], pending'[o])
      /\ \A i \in DOMAIN transcript[o] :
           Precedes(attempted, transcript[o][i], pending'[o]) /\ Precedes(attempted, transcript[o][i], cohort'[o])
      /\ drain'[o] = "append" => Within(cohort'[o])
      /\ \A m : Has(pending[o], m) => Has(pending'[o], m) \/ Has(cohort'[o], m)
  <2>1. CASE pending[o] = <<>>
    <3>1. drain'[o] = "ended" /\ pending'[o] = <<>> /\ cohort'[o] = <<>>
      BY <2>1, DrainTakes
    <3>2. DOMAIN <<>> = {}
      OBVIOUS
    <3> QED
      BY <2>1, <3>1, <3>2 DEF OfOwner, Sorted, Precedes, Has
  <2>2. CASE pending[o] # <<>>
    <3>1. drain'[o] = "append" /\ Within(cohort'[o]) /\ Splits(pending[o], cohort'[o], pending'[o])
      BY <2>2, DrainTakes
    <3>3. /\ OfOwner(attempted, o, cohort'[o]) /\ OfOwner(attempted, o, pending'[o])
          /\ Sorted(attempted, cohort'[o]) /\ Sorted(attempted, pending'[o])
          /\ Precedes(attempted, cohort'[o], pending'[o])
          /\ \A d : Precedes(attempted, d, pending[o]) =>
               Precedes(attempted, d, cohort'[o]) /\ Precedes(attempted, d, pending'[o])
          /\ \A m : Has(pending[o], m) => Has(cohort'[o], m) \/ Has(pending'[o], m)
      BY <1>2, <1>3, <3>1, QueueSplits
    <3> QED
      BY <1>3, <3>1, <3>3
  <2> QED
    BY <2>1, <2>2
<1>5. OwnQueues' /\ InOrder' /\ Sized'
  BY <1>2, <1>4 DEF OrderInv, OwnQueues, InOrder, Sized
<1> QED
  BY <1>1, <1>4, <1>5 DEF OrderInv

(* The message that is appended comes after every other. *)
LEMMA AppendKeepsOrder ==
  ASSUME NoticeTypeOK, OrderInv, NEW o \in Owners, AppendSettles(o)
  PROVE  OrderInv'
<1>1. /\ UNCHANGED <<attempted, pending, cohort>> /\ drain[o] = "append" /\ drain'[o] = "finalize"
      /\ \A u \in Owners \ {o} : drain'[u] = drain[u] /\ transcript'[u] = transcript[u]
      /\ transcript'[o] = transcript[o] \/ transcript'[o] = Append(transcript[o], cohort[o])
  BY DEF AppendSettles, queues, NoticeTypeOK
<1>2. ASSUME NEW i \in DOMAIN transcript'[o]
      PROVE  \/ i \in DOMAIN transcript[o] /\ transcript'[o][i] = transcript[o][i]
             \/ /\ transcript'[o][i] = cohort[o]
                /\ \A j \in DOMAIN transcript'[o] : ~(i < j)
  <2>1. transcript[o] \in Seq(Seq(Notices)) /\ cohort[o] \in Seq(Notices)
    BY DEF NoticeTypeOK
  <2>2. CASE transcript'[o] = Append(transcript[o], cohort[o])
    <3>1. /\ Len(transcript'[o]) = Len(transcript[o]) + 1 /\ transcript'[o] \in Seq(Seq(Notices))
          /\ transcript'[o][Len(transcript[o]) + 1] = cohort[o] /\ Len(transcript[o]) \in Nat
          /\ \A j \in 1 .. Len(transcript[o]) : transcript'[o][j] = transcript[o][j]
      BY <2>1, <2>2
    <3>2. DOMAIN transcript'[o] = 1 .. Len(transcript[o]) + 1 /\ DOMAIN transcript[o] = 1 .. Len(transcript[o])
      BY <2>1, <3>1
    <3>3. CASE i \in DOMAIN transcript[o]
      BY <3>1, <3>2, <3>3
    <3>4. CASE i \notin DOMAIN transcript[o]
      <4>1. i = Len(transcript[o]) + 1
        BY <3>1, <3>2, <3>4
      <4> QED
        BY <3>1, <3>2, <4>1
    <3> QED
      BY <3>3, <3>4
  <2> QED
    BY <1>1, <2>2
<1>3. /\ OfOwner(attempted, o, cohort[o]) /\ Sorted(attempted, cohort[o])
      /\ Precedes(attempted, cohort[o], pending[o]) /\ Within(cohort[o])
      /\ \A i \in DOMAIN transcript[o] : Precedes(attempted, transcript[o][i], cohort[o])
  BY <1>1 DEF OrderInv, OwnQueues, InOrder, Sized
<1>4. CalledOnce'
  BY <1>1 DEF OrderInv, CalledOnce
<1>5. OwnQueues' /\ Sized'
  BY <1>1, <1>2, <1>3 DEF OrderInv, OwnQueues, Sized
<1>6. InOrder'
  BY <1>1, <1>2, <1>3 DEF OrderInv, InOrder
<1> QED
  BY <1>4, <1>5, <1>6 DEF OrderInv

LEMMA FinalizeKeepsOrder ==
  ASSUME NoticeTypeOK, OrderInv, Drained, NEW o \in Owners, FinalizeNext(o)
  PROVE  OrderInv' /\ \A m : Has(pending[o], m) => Has(pending'[o], m) \/ Has(cohort'[o], m)
<1>1. /\ UNCHANGED <<attempted, transcript>> /\ drain[o] = "finalize"
      /\ cohort[o] \in Seq(Notices) /\ cohort[o] # <<>>
  BY DEF FinalizeNext, Drained, NoticeTypeOK
<1>2. CASE Len(cohort[o]) > 1
  <2>1. cohort' = [cohort EXCEPT ![o] = Tail(cohort[o])] /\ UNCHANGED <<drain, pending>>
    BY <1>2 DEF FinalizeNext
  <2>2. /\ OfOwner(attempted, o, cohort[o]) /\ Sorted(attempted, cohort[o])
        /\ Precedes(attempted, cohort[o], pending[o])
    BY DEF OrderInv, OwnQueues, InOrder
  <2>3. /\ OfOwner(attempted, o, Tail(cohort[o])) /\ Sorted(attempted, Tail(cohort[o]))
        /\ Precedes(attempted, Tail(cohort[o]), pending[o])
    BY <1>1, <2>2, CohortShrinks
  <2>4. cohort'[o] = Tail(cohort[o]) /\ \A u \in Owners \ {o} : cohort'[u] = cohort[u]
    BY <2>1 DEF NoticeTypeOK
  <2>5. CalledOnce' /\ OwnQueues' /\ InOrder' /\ Sized'
    BY <1>1, <2>1, <2>3, <2>4 DEF OrderInv, CalledOnce, OwnQueues, InOrder, Sized
  <2> QED
    BY <2>1, <2>5 DEF OrderInv
<1>3. CASE ~(Len(cohort[o]) > 1)
  <2>1. Drain(o, pending[o])
    BY <1>3 DEF FinalizeNext
  <2> QED
    BY <1>1, <2>1, DrainKeepsOrder
<1> QED
  BY <1>2, <1>3

LEMMA OrderStep == NoticeTypeOK /\ Drained /\ OrderInv /\ [NoticeNext]_noticeVars => OrderInv'
<1> SUFFICES ASSUME NoticeTypeOK, Drained, OrderInv, [NoticeNext]_noticeVars PROVE OrderInv'
  OBVIOUS
<1>1. ASSUME UNCHANGED <<attempted, pending, cohort, transcript>>,
             \A u \in Owners : drain'[u] = "append" => drain[u] = "append"
      PROVE  OrderInv'
  BY <1>1 DEF OrderInv, CalledOnce, OwnQueues, InOrder, Sized
<1>2. ASSUME NEW o \in Owners, StartDrain(o) PROVE OrderInv'
  BY <1>2, DrainKeepsOrder DEF StartDrain
<1>3. ASSUME NEW o \in Owners, DrainEnds(o) PROVE OrderInv'
  BY <1>1, <1>3 DEF DrainEnds, NoticeTypeOK
<1>4. CASE \/ \E o \in Owners : AskQuiet(o) \/ Quiesces(o)
           \/ FinalizeDirect \/ DisposeFinalizes \/ DisposeEnds \/ UNCHANGED noticeVars
  BY <1>1, <1>4 DEF AskQuiet, Quiesces, FinalizeDirect, DisposeFinalizes, DisposeEnds, noticeVars, queues, drains
<1>5. CASE Dispose
  <2>1. \A u \in Owners : DOMAIN pending'[u] = {}
    BY <1>5 DEF Dispose
  <2> QED
    BY <1>5, <2>1 DEF Dispose, drains, OrderInv, CalledOnce, OwnQueues, InOrder, Sized, OfOwner, Sorted, Precedes
<1> QED
  BY <1>2, <1>3, <1>4, <1>5, NotifyKeepsOrder, AppendKeepsOrder, FinalizeKeepsOrder DEF NoticeNext

(* What each step does with the notices whose calls are open, with the drains,
   and with the claims. *)
LEMMA NotifyKeeps ==
  ASSUME NoticeTypeOK, NoticeInv, NEW n \in Notices, Notify(n)
  PROVE  NoticeInv'
<1> DEFINE o == OwnerOf[n]
<1>0. o \in Owners
  BY NoticeAssumption
<1>1. /\ attempted' = Append(attempted, n) /\ attempted \in Seq(Notices) /\ ~Has(attempted, n)
      /\ UNCHANGED <<cohort, drain, delivered, transcript, settled, spliced, disposal, lost>>
      /\ claim' = [claim EXCEPT ![n] = "claimed"]
      /\ quiet' = [quiet EXCEPT ![o] = IF @ = "quiet" THEN "no" ELSE @]
  BY DEF Notify, Fresh, ToSet, Has, drains, NoticeTypeOK
<1>2. \/ /\ disposal = "no" /\ UNCHANGED direct
         /\ known' = known \cup {o} /\ pending' = [pending EXCEPT ![o] = Append(pending[o], n)]
         /\ scheduled' = [scheduled EXCEPT ![o] = scheduled[o] \/ drain[o] = "none"]
      \/ disposal # "no" /\ direct' = direct \cup {n} /\ UNCHANGED <<known, pending, scheduled>>
  BY DEF Notify, queues
<1>3. Has(attempted', n) /\ \A m : Has(attempted, m) => Has(attempted', m)
  BY <1>1, CallsGrow
<1>4. \A m : Has(attempted', m) => Has(attempted, m) \/ m = n
  BY <1>1, CallsGrow
<1>5. \A q \in Seq(Notices) : Has(Append(q, n), n) /\ Append(q, n) # <<>> /\ \A m : Has(q, m) => Has(Append(q, n), m)
  <2> SUFFICES ASSUME NEW q \in Seq(Notices) PROVE Has(Append(q, n), n) /\ Append(q, n) # <<>> /\ \A m : Has(q, m) => Has(Append(q, n), m)
    OBVIOUS
  <2>1. /\ DOMAIN Append(q, n) = 1 .. Len(q) + 1 /\ DOMAIN q = 1 .. Len(q) /\ Len(q) \in Nat
        /\ Append(q, n)[Len(q) + 1] = n /\ \A i \in 1 .. Len(q) : Append(q, n)[i] = q[i]
    OBVIOUS
  <2>2. Append(q, n) # <<>>
    <3>1. DOMAIN <<>> = {}
      OBVIOUS
    <3> QED
      BY <2>1, <3>1
  <2>3. \A i \in DOMAIN q : i \in DOMAIN Append(q, n) /\ Append(q, n)[i] = q[i]
    BY <2>1
  <2>4. Len(q) + 1 \in DOMAIN Append(q, n)
    BY <2>1
  <2> QED
    BY <2>1, <2>2, <2>3, <2>4 DEF Has
<1>6. pending[o] \in Seq(Notices)
  BY <1>0 DEF NoticeTypeOK
<1>7. OrderInv'
  BY NotifyKeepsOrder DEF NoticeInv
<1>8. CalledFirst'
  BY <1>1, <1>2, <1>3 DEF NoticeInv, CalledFirst
<1>9. OpenIsHeld'
  <2>1. \A m \in Notices : Held(m) => Held(m)'
    <3>1. \A u \in Owners : pending'[u] = pending[u] \/ (u = o /\ pending'[u] = Append(pending[u], n))
      BY <1>0, <1>2 DEF NoticeTypeOK
    <3>2. \A u \in Owners : \A m : Has(pending[u], m) => Has(pending'[u], m)
      BY <1>5, <1>6, <3>1
    <3>3. direct \subseteq direct'
      BY <1>2
    <3> QED
      BY <1>1, <3>2, <3>3, NoticeAssumption DEF Held
  <2>2. Held(n)'
    BY <1>0, <1>1, <1>2, <1>5, <1>6 DEF Held, NoticeTypeOK
  <2> QED
    BY <1>1, <1>4, <2>1, <2>2 DEF NoticeInv, OpenIsHeld
<1>10. SettledIsFinal'
  BY <1>1 DEF NoticeInv, SettledIsFinal, CalledFirst, NoticeTypeOK
<1>11. Drained'
  <2>1. ASSUME NEW u \in Owners, u # o
        PROVE  pending'[u] = pending[u] /\ scheduled'[u] = scheduled[u] /\ quiet'[u] = quiet[u] /\ (u \in known' <=> u \in known)
    BY <1>1, <1>2, <2>1 DEF NoticeTypeOK
  <2>2. /\ disposal = "no" => /\ o \in known' /\ quiet'[o] # "quiet"
                              /\ scheduled'[o] <=> scheduled[o] \/ drain[o] = "none"
        /\ disposal # "no" => /\ pending'[o] = pending[o] /\ scheduled'[o] = scheduled[o] /\ known' = known
    BY <1>0, <1>1, <1>2 DEF NoticeTypeOK
  <2> QED
    BY <1>0, <1>1, <2>1, <2>2 DEF NoticeInv, Drained
<1>12. Disposed'
  BY <1>1, <1>2 DEF NoticeInv, Disposed
<1>13. Delivered'
  BY <1>1 DEF NoticeInv, Delivered, NoticeTypeOK
<1> QED
  BY <1>7, <1>8, <1>9, <1>10, <1>11, <1>12, <1>13 DEF NoticeInv

LEMMA StartDrainKeeps ==
  ASSUME NoticeTypeOK, NoticeInv, NEW o \in Owners, StartDrain(o)
  PROVE  NoticeInv'
<1>1. /\ UNCHANGED <<claim, attempted, known, delivered, settled, direct, spliced, disposal, quiet, transcript, lost>>
      /\ scheduled[o] /\ scheduled' = [scheduled EXCEPT ![o] = FALSE] /\ Drain(o, pending[o])
      /\ drain[o] = "none" /\ cohort[o] = <<>>
  BY DEF StartDrain, teardown, NoticeInv, Drained
<1>2. OrderInv' /\ \A m : Has(pending[o], m) => Has(pending'[o], m) \/ Has(cohort'[o], m)
  BY <1>1, DrainKeepsOrder DEF NoticeInv
<1>3. /\ \A u \in Owners \ {o} : drain'[u] = drain[u] /\ pending'[u] = pending[u] /\ cohort'[u] = cohort[u]
      /\ pending[o] = <<>> => drain'[o] = "ended" /\ pending'[o] = <<>> /\ cohort'[o] = <<>>
      /\ pending[o] # <<>> => drain'[o] = "append" /\ cohort'[o] # <<>>
  BY <1>1, DrainTakes
<1>4. OpenIsHeld'
  <2>1. ~Has(<<>>, 0) /\ \A m : ~Has(<<>>, m)
    BY DEF Has
  <2> QED
    BY <1>1, <1>2, <1>3, <2>1, NoticeAssumption DEF NoticeInv, OpenIsHeld, Held
<1>5. Drained'
  <2>1. \A u \in Owners : scheduled'[u] <=> scheduled[u] /\ u # o
    BY <1>1 DEF NoticeTypeOK
  <2> QED
    BY <1>1, <1>3, <2>1 DEF NoticeInv, Drained
<1>6. CalledFirst' /\ SettledIsFinal' /\ Disposed'
  BY <1>1 DEF NoticeInv, CalledFirst, SettledIsFinal, Disposed
<1>7. Delivered'
  BY <1>1, <1>3 DEF NoticeInv, Delivered
<1> QED
  BY <1>2, <1>4, <1>5, <1>6, <1>7 DEF NoticeInv

LEMMA AppendKeeps ==
  ASSUME NoticeTypeOK, NoticeInv, NEW o \in Owners, AppendSettles(o)
  PROVE  NoticeInv'
<1>1. /\ UNCHANGED <<claim, attempted, known, pending, scheduled, cohort, settled, direct, spliced, disposal, quiet, lost>>
      /\ drain[o] = "append" /\ drain' = [drain EXCEPT ![o] = "finalize"]
      /\ \A u \in Owners \ {o} : delivered'[u] = delivered[u] /\ transcript'[u] = transcript[u]
      /\ (transcript'[o] = transcript[o] /\ ~delivered'[o]) \/ transcript'[o] = Append(transcript[o], cohort[o])
  BY DEF AppendSettles, queues, teardown, NoticeTypeOK
<1>2. /\ \A m : Read(transcript[o], m) => Read(transcript'[o], m)
      /\ delivered'[o] => \A a \in DOMAIN cohort[o] : Read(transcript'[o], cohort[o][a])
  <2>1. transcript[o] \in Seq(Seq(Notices)) /\ cohort[o] \in Seq(Notices)
    BY DEF NoticeTypeOK
  <2>2. CASE transcript'[o] = Append(transcript[o], cohort[o])
    <3>1. /\ DOMAIN transcript'[o] = 1 .. Len(transcript[o]) + 1 /\ DOMAIN transcript[o] = 1 .. Len(transcript[o])
          /\ transcript'[o][Len(transcript[o]) + 1] = cohort[o] /\ Len(transcript[o]) \in Nat
          /\ \A j \in 1 .. Len(transcript[o]) : transcript'[o][j] = transcript[o][j]
      BY <2>1, <2>2
    <3>2. \A j \in DOMAIN transcript[o] : j \in DOMAIN transcript'[o] /\ transcript'[o][j] = transcript[o][j]
      BY <3>1
    <3>3. Len(transcript[o]) + 1 \in DOMAIN transcript'[o]
      BY <3>1
    <3> QED
      BY <3>1, <3>2, <3>3 DEF Read, Has
  <2> QED
    BY <1>1, <2>2
<1>3. OrderInv'
  BY AppendKeepsOrder DEF NoticeInv
<1>4. CalledFirst' /\ OpenIsHeld' /\ SettledIsFinal' /\ Disposed'
  BY <1>1 DEF NoticeInv, CalledFirst, OpenIsHeld, Held, SettledIsFinal, Disposed
<1>5. Drained'
  BY <1>1 DEF NoticeInv, Drained, NoticeTypeOK
<1>6. Delivered'
  BY <1>1, <1>2, NoticeAssumption DEF NoticeInv, Delivered, NoticeTypeOK
<1> QED
  BY <1>3, <1>4, <1>5, <1>6 DEF NoticeInv

LEMMA FinalizeKeeps ==
  ASSUME NoticeTypeOK, NoticeInv, NEW o \in Owners, FinalizeNext(o)
  PROVE  NoticeInv'
<1> DEFINE n == Head(cohort[o])
<1>1. /\ UNCHANGED <<attempted, known, scheduled, delivered, direct, spliced, disposal, quiet, transcript>>
      /\ drain[o] = "finalize" /\ settled' = settled \cup {n}
      /\ Finalize(n, IF delivered[o] THEN "delivered" ELSE "abandoned")
      /\ cohort[o] \in Seq(Notices) /\ cohort[o] # <<>>
  BY DEF FinalizeNext, teardown, NoticeInv, Drained, NoticeTypeOK
<1>2. /\ OfOwner(attempted, o, cohort[o]) /\ Sorted(attempted, cohort[o])
  BY DEF NoticeInv, OrderInv, OwnQueues, InOrder
<1>3. /\ n = cohort[o][1] /\ 1 \in DOMAIN cohort[o] /\ n \in Notices /\ OwnerOf[n] = o
      /\ \A m : Has(cohort[o], m) => m = n \/ Has(Tail(cohort[o]), m)
      /\ \A a \in DOMAIN Tail(cohort[o]) : a + 1 \in DOMAIN cohort[o] /\ Tail(cohort[o])[a] = cohort[o][a + 1]
      /\ Len(cohort[o]) <= 1 <=> Tail(cohort[o]) = <<>>
  <2>1. cohort[o] \in Seq(Notices) /\ cohort[o] # <<>>
    BY <1>1
  <2>2. PICK c \in Seq(Notices) : c = cohort[o]
    BY <2>1
  <2>3. OfOwner(attempted, o, c) /\ Sorted(attempted, c) /\ c # <<>>
    BY <1>2, <2>1, <2>2
  <2>4. /\ Head(c) = c[1] /\ 1 \in DOMAIN c /\ Head(c) \in Notices
        /\ \A m : Has(c, m) => m = Head(c) \/ Has(Tail(c), m)
        /\ \A a \in DOMAIN Tail(c) : a + 1 \in DOMAIN c /\ Tail(c)[a] = c[a + 1]
        /\ Len(c) <= 1 <=> Tail(c) = <<>>
    BY <2>3, TailHolds
  <2>5. OwnerOf[c[1]] = o
    BY <2>3, <2>4 DEF OfOwner
  <2> QED
    BY <2>2, <2>4, <2>5
<1>4. \/ /\ Len(cohort[o]) > 1 /\ cohort' = [cohort EXCEPT ![o] = Tail(cohort[o])]
         /\ Tail(cohort[o]) # <<>> /\ UNCHANGED <<drain, pending>>
      \/ ~(Len(cohort[o]) > 1) /\ Drain(o, pending[o])
  <2>1. Len(cohort[o]) > 1 => Tail(cohort[o]) # <<>>
    <3>1. Len(cohort[o]) \in Nat
      BY <1>1
    <3> QED
      BY <1>3, <3>1
  <2> QED
    BY <2>1 DEF FinalizeNext
<1>5. OrderInv' /\ \A m : Has(pending[o], m) => Has(pending'[o], m) \/ Has(cohort'[o], m)
  BY FinalizeKeepsOrder DEF NoticeInv
<1>6. /\ \A u \in Owners \ {o} : drain'[u] = drain[u] /\ pending'[u] = pending[u] /\ cohort'[u] = cohort[u]
      /\ \/ cohort'[o] = Tail(cohort[o]) /\ cohort'[o] # <<>> /\ drain'[o] = "finalize" /\ pending'[o] = pending[o]
         \/ /\ Tail(cohort[o]) = <<>>
            /\ pending[o] = <<>> => drain'[o] = "ended" /\ pending'[o] = <<>> /\ cohort'[o] = <<>>
            /\ pending[o] # <<>> => drain'[o] = "append" /\ cohort'[o] # <<>>
  <2>1. CASE Len(cohort[o]) > 1
    BY <1>1, <1>4, <2>1 DEF NoticeTypeOK
  <2>2. CASE ~(Len(cohort[o]) > 1)
    <3>1. Drain(o, pending[o]) /\ Len(cohort[o]) <= 1
      BY <1>1, <1>4, <2>2
    <3> QED
      BY <1>3, <3>1, DrainTakes
  <2> QED
    BY <2>1, <2>2
<1>7. \A m : ~Has(<<>>, m)
  BY DEF Has
<1> HIDE DEF n
<1>8. OpenIsHeld'
  BY <1>1, <1>3, <1>5, <1>6, <1>7, NoticeAssumption DEF NoticeInv, OpenIsHeld, Held
<1>9. Drained'
  BY <1>1, <1>6 DEF NoticeInv, Drained
<1>10. CalledFirst' /\ Disposed'
  BY <1>1, <1>2, <1>3 DEF NoticeInv, CalledFirst, Disposed, OfOwner
<1>11. SettledIsFinal'
  BY <1>1, <1>3 DEF NoticeInv, SettledIsFinal, Finalize, NoticeTypeOK
<1>12. Delivered'
  <2>1. delivered[o] => \A a \in DOMAIN cohort[o] : Read(transcript[o], cohort[o][a])
    BY <1>1 DEF NoticeInv, Delivered
  <2>2. \A m \in Notices : claim'[m] = "delivered" => Read(transcript[OwnerOf[m]], m)
    BY <1>1, <1>3, <2>1 DEF NoticeInv, Delivered, Finalize, NoticeTypeOK
  <2>3. drain'[o] = "finalize" /\ delivered[o] => \A a \in DOMAIN cohort'[o] : Read(transcript[o], cohort'[o][a])
    <3>1. drain'[o] = "finalize" => cohort'[o] = Tail(cohort[o])
      BY <1>6
    <3> QED
      BY <1>3, <2>1, <3>1
  <2> QED
    BY <1>1, <1>6, <2>2, <2>3 DEF NoticeInv, Delivered
<1> QED
  BY <1>5, <1>8, <1>9, <1>10, <1>11, <1>12 DEF NoticeInv

LEMMA DrainEndsKeeps ==
  ASSUME NoticeTypeOK, NoticeInv, OrderInv', NEW o \in Owners, DrainEnds(o)
  PROVE  NoticeInv'
<1>1. /\ UNCHANGED <<claim, attempted, pending, cohort, delivered, settled, direct, spliced, disposal, quiet, transcript, lost>>
      /\ drain[o] = "ended" /\ drain' = [drain EXCEPT ![o] = "none"]
      /\ scheduled' = [scheduled EXCEPT ![o] = scheduled[o] \/ (pending[o] # <<>> /\ disposal = "no")]
      /\ known' = IF pending[o] = <<>> THEN known \ {o} ELSE known
  BY DEF DrainEnds, teardown
<1>2. CalledFirst' /\ OpenIsHeld' /\ SettledIsFinal'
  BY <1>1 DEF NoticeInv, CalledFirst, OpenIsHeld, Held, SettledIsFinal
<1>3. Disposed'
  BY <1>1 DEF NoticeInv, Disposed
<1>4. Delivered'
  BY <1>1 DEF NoticeInv, Delivered, NoticeTypeOK
<1>5. Drained'
  <2>1. ASSUME NEW u \in Owners, u # o
        PROVE  drain'[u] = drain[u] /\ scheduled'[u] = scheduled[u] /\ (u \in known' <=> u \in known)
    BY <1>1, <2>1 DEF NoticeTypeOK
  <2>2. /\ drain'[o] = "none" /\ (o \in known' => o \in known /\ pending[o] # <<>>)
        /\ pending[o] # <<>> => (o \in known' <=> o \in known)
    BY <1>1 DEF NoticeTypeOK
  <2>3. scheduled'[o] <=> scheduled[o] \/ (pending[o] # <<>> /\ disposal = "no")
    BY <1>1 DEF NoticeTypeOK
  <2> QED
    BY <1>1, <2>1, <2>2, <2>3 DEF NoticeInv, Drained
<1> QED
  BY <1>2, <1>3, <1>4, <1>5 DEF NoticeInv

(* dispose() and what is finalized outside a drain. *)
LEMMA DisposalKeeps ==
  ASSUME NoticeTypeOK, NoticeInv, OrderInv', FinalizeDirect \/ DisposeFinalizes \/ Dispose \/ DisposeEnds
  PROVE  NoticeInv'
<1>1. CASE FinalizeDirect \/ DisposeFinalizes
  <2>1. /\ UNCHANGED <<attempted, known, pending, scheduled, drain, cohort, delivered, disposal, quiet, transcript>>
        /\ \E n \in Notices : /\ n \in direct \cup spliced /\ settled' = settled \cup {n}
                              /\ Finalize(n, "abandoned")
                              /\ direct' \subseteq direct /\ spliced' \subseteq spliced
                              /\ direct \cup spliced \subseteq direct' \cup spliced' \cup {n}
    BY <1>1 DEF FinalizeDirect, DisposeFinalizes, queues, drains, NoticeTypeOK
  <2>2. PICK n \in Notices : /\ n \in direct \cup spliced /\ settled' = settled \cup {n}
                             /\ Finalize(n, "abandoned")
                             /\ direct' \subseteq direct /\ spliced' \subseteq spliced
                             /\ direct \cup spliced \subseteq direct' \cup spliced' \cup {n}
    BY <2>1
  <2>3. CalledFirst' /\ OpenIsHeld'
    BY <2>1, <2>2 DEF NoticeInv, CalledFirst, OpenIsHeld, Held
  <2>4. SettledIsFinal' /\ Delivered'
    BY <2>1, <2>2 DEF NoticeInv, SettledIsFinal, Delivered, Finalize, NoticeTypeOK
  <2>5. Drained' /\ Disposed'
    BY <2>1, <2>2 DEF NoticeInv, Drained, Disposed
  <2> QED
    BY <2>3, <2>4, <2>5 DEF NoticeInv
<1>2. CASE Dispose
  <2>1. /\ UNCHANGED <<claim, attempted, known, scheduled, drain, cohort, delivered, settled, direct, quiet, transcript, lost>>
        /\ disposal = "no" /\ disposal' = "splicing" /\ spliced' = Queued /\ \A u \in Owners : pending'[u] = <<>>
    BY <1>2 DEF Dispose, drains
  <2>2. \A n \in Notices : Has(pending[OwnerOf[n]], n) => n \in Queued
    BY NoticeAssumption DEF Has, Queued, ToSet, NoticeInv, Drained
  <2>3. \A n \in Queued : Has(attempted, n)
    BY DEF Queued, ToSet, NoticeInv, OrderInv, OwnQueues, OfOwner, NoticeTypeOK
  <2>4. spliced = {}
    BY <2>1 DEF NoticeInv, Disposed
  <2>5. CalledFirst' /\ OpenIsHeld'
    BY <2>1, <2>2, <2>3, <2>4 DEF NoticeInv, CalledFirst, OpenIsHeld, Held
  <2>6. SettledIsFinal' /\ Delivered' /\ Drained' /\ Disposed'
    BY <2>1 DEF NoticeInv, SettledIsFinal, Delivered, Drained, Disposed
  <2> QED
    BY <2>5, <2>6 DEF NoticeInv
<1>3. CASE DisposeEnds
  <2>1. /\ UNCHANGED <<claim, attempted, pending, scheduled, drain, cohort, delivered, settled, direct, spliced, quiet, transcript, lost>>
        /\ disposal = "splicing" /\ disposal' = "done" /\ spliced = {} /\ known' = {}
        /\ \A u \in known : drain[u] = "none"
    BY <1>3 DEF DisposeEnds, drains
  <2>2. CalledFirst' /\ OpenIsHeld' /\ SettledIsFinal' /\ Delivered' /\ Disposed'
    BY <2>1 DEF NoticeInv, CalledFirst, OpenIsHeld, Held, SettledIsFinal, Delivered, Disposed
  <2>3. Drained'
    BY <2>1 DEF NoticeInv, Drained
  <2> QED
    BY <2>2, <2>3 DEF NoticeInv
<1> QED
  BY <1>1, <1>2, <1>3

LEMMA QuietKeeps ==
  ASSUME NoticeTypeOK, NoticeInv, OrderInv', NEW o \in Owners, AskQuiet(o) \/ Quiesces(o)
  PROVE  NoticeInv'
<1>1. /\ UNCHANGED <<claim, attempted, known, pending, scheduled, drain, cohort, delivered, settled,
                     direct, spliced, disposal, transcript, lost>>
      /\ \A u \in Owners : quiet'[u] = "quiet" => quiet[u] = "quiet" \/ u \notin known
  BY DEF AskQuiet, Quiesces, queues, drains, teardown, NoticeTypeOK
<1>2. CalledFirst' /\ OpenIsHeld' /\ SettledIsFinal' /\ Delivered' /\ Disposed'
  BY <1>1 DEF NoticeInv, CalledFirst, OpenIsHeld, Held, SettledIsFinal, Delivered, Disposed
<1>3. Drained'
  BY <1>1 DEF NoticeInv, Drained
<1> QED
  BY <1>2, <1>3 DEF NoticeInv

LEMMA NoticeInvStep == NoticeTypeOK /\ NoticeInv /\ [NoticeNext]_noticeVars => NoticeInv'
<1> SUFFICES ASSUME NoticeTypeOK, NoticeInv, [NoticeNext]_noticeVars PROVE NoticeInv'
  OBVIOUS
<1>0. OrderInv'
  BY OrderStep DEF NoticeInv
<1>1. CASE UNCHANGED noticeVars
  BY <1>0, <1>1 DEF noticeVars, queues, drains, teardown, NoticeInv, CalledFirst, OpenIsHeld, Held, SettledIsFinal,
    Drained, Disposed, Delivered
<1>2. ASSUME NEW o \in Owners,
             StartDrain(o) \/ AppendSettles(o) \/ FinalizeNext(o) \/ DrainEnds(o) \/ AskQuiet(o) \/ Quiesces(o)
      PROVE  NoticeInv'
  BY <1>0, <1>2, StartDrainKeeps, AppendKeeps, FinalizeKeeps, DrainEndsKeeps, QuietKeeps
<1> QED
  BY <1>0, <1>1, <1>2, NotifyKeeps, DisposalKeeps DEF NoticeNext

LEMMA NoticeInvInit == NoticeInit => NoticeTypeOK /\ NoticeInv
<1> SUFFICES ASSUME NoticeInit PROVE NoticeTypeOK /\ NoticeInv
  OBVIOUS
<1>1. NoticeTypeOK
  BY DEF NoticeInit, NoticeTypeOK, Claims
<1>2. DOMAIN <<>> = {} /\ \A m : ~Has(<<>>, m)
  BY DEF Has
<1>3. OrderInv
  BY <1>2 DEF NoticeInit, OrderInv, CalledOnce, OwnQueues, InOrder, Sized, OfOwner, Sorted, Precedes
<1>4. CalledFirst /\ OpenIsHeld /\ SettledIsFinal /\ Disposed
  BY <1>2 DEF NoticeInit, CalledFirst, OpenIsHeld, SettledIsFinal, Disposed
<1>5. Drained /\ Delivered
  BY DEF NoticeInit, Drained, Delivered
<1> QED
  BY <1>1, <1>3, <1>4, <1>5 DEF NoticeInv

(* For any notices, sizes and limits: an owner reads its notices once and in the
   order of the calls, in messages within the limits, and a notice is recorded
   as delivered only if its owner has it (takeCohort and drainOwner,
   src/supervisor/completion-notice.ts). *)
THEOREM OwnersRead == NoticeSpec => []OwnersReadInOrder
<1>1. NoticeTypeOK /\ NoticeInv => OwnersReadInOrder
  <2> SUFFICES ASSUME NoticeTypeOK, NoticeInv PROVE OwnersReadInOrder
    OBVIOUS
  <2>1. ASSUME NEW m, NEW n, Before(attempted, m, n) PROVE Position(m) < Position(n)
    <3>1. PICK i, j \in DOMAIN attempted : i < j /\ attempted[i] = m /\ attempted[j] = n
      BY <2>1 DEF Before
    <3>2. DOMAIN attempted = 1 .. Len(attempted)
      BY DEF NoticeTypeOK
    <3>3. \A k \in DOMAIN attempted : (attempted[k] = m => k = i) /\ (attempted[k] = n => k = j)
      BY <3>1 DEF NoticeInv, OrderInv, CalledOnce
    <3>4. Position(m) = i
      BY <3>1, <3>2, <3>3 DEF Position
    <3>5. Position(n) = j
      BY <3>1, <3>2, <3>3 DEF Position
    <3> QED
      BY <3>1, <3>4, <3>5
  <2>2. ASSUME NEW o \in Owners, NEW i \in DOMAIN transcript[o], NEW j \in DOMAIN transcript[o],
               NEW a \in DOMAIN transcript[o][i], NEW b \in DOMAIN transcript[o][j],
               i < j \/ (i = j /\ a < b)
        PROVE  Position(transcript[o][i][a]) < Position(transcript[o][j][b])
    <3>1. Before(attempted, transcript[o][i][a], transcript[o][j][b])
      BY <2>2 DEF NoticeInv, OrderInv, InOrder, Sorted, Precedes
    <3> QED
      BY <2>1, <3>1
  <2>3. ASSUME NEW o \in Owners, NEW n \in Notices, OwnerOf[n] = o, claim[n] = "delivered"
        PROVE  \E i \in DOMAIN transcript[o] : n \in ToSet(transcript[o][i])
    BY <2>3 DEF NoticeInv, Delivered, Read, Has, ToSet
  <2>4. \A o \in Owners : \A i \in DOMAIN transcript[o] :
          Len(transcript[o][i]) <= MaxItems /\ MessageBytes(transcript[o][i]) <= MaxCohortBytes
    BY DEF NoticeInv, OrderInv, Sized, Within
  <2> QED
    BY <2>2, <2>3, <2>4 DEF OwnersReadInOrder
<1> QED
  BY <1>1, NoticeInvInit, NoticeTypeStep, NoticeInvStep, PTL DEF NoticeSpec, NoticeInv

(* When whenOwnerQuiescent or dispose() returns no call of notify() is open, and
   a claim that is left is one the store refused to finalize; a queue never
   waits for nobody (schedule and dispose, src/supervisor/completion-notice.ts). *)
THEOREM QuietSettles == NoticeSpec => []QuietIsSettled
<1>1. NoticeTypeOK /\ NoticeInv => QuietIsSettled
  <2> SUFFICES ASSUME NoticeTypeOK, NoticeInv PROVE QuietIsSettled
    OBVIOUS
  <2>1. ASSUME NEW n \in Notices, (quiet[OwnerOf[n]] = "quiet" /\ disposal = "no") \/ disposal = "done", Open(n)
        PROVE  FALSE
    <3>1. OwnerOf[n] \in Owners
      BY NoticeAssumption
    <3>2. OwnerOf[n] \notin known /\ spliced = {}
      BY <2>1, <3>1 DEF NoticeInv, Drained, Disposed
    <3>3. pending[OwnerOf[n]] = <<>> /\ cohort[OwnerOf[n]] = <<>>
      BY <3>1, <3>2 DEF NoticeInv, Drained, NoticeTypeOK
    <3>4. \A m : ~Has(<<>>, m)
      BY DEF Has
    <3>5. Has(attempted, n) /\ n \notin settled /\ n \notin direct
      BY <2>1 DEF Open, Has, ToSet
    <3> QED
      BY <3>2, <3>3, <3>4, <3>5 DEF NoticeInv, OpenIsHeld, Held
  <2>2. \A o \in known : drain[o] # "none" \/ scheduled[o]
    BY DEF NoticeInv, Drained, NoticeTypeOK
  <2> QED
    BY <2>1, <2>2 DEF NoticeInv, SettledIsFinal, QuietIsSettled
<1> QED
  BY <1>1, NoticeInvInit, NoticeTypeStep, NoticeInvStep, PTL DEF NoticeSpec, NoticeInv

-----------------------------------------------------------------------------
(* ClientController: types. *)
Epochs  == Nat
PageOf  == [kind : {"page"}, epoch : Epochs, rev : Nat, next : BOOLEAN]
Answers == {None} \cup PageOf \cup [kind : {"error", "stale"}]
ListFlights == {None} \cup [kind : {"list"}, answer : Answers]
PageFlights == {None} \cup [kind : {"page"}, epoch : Epochs, rev : Nat, answer : Answers]
HostTyped ==
  /\ epoch \in Epochs \ {0} /\ head \in Nat /\ cut \in BOOLEAN
  /\ hint \in Nat /\ all \in BOOLEAN /\ events \in Nat
ShownTyped ==
  /\ snap \in [epoch : Epochs, rev : Nat, next : BOOLEAN] /\ hinted \in Nat /\ followup \in BOOLEAN
  /\ base \in Nat /\ owed \in Nat /\ failed \in BOOLEAN
FlightsTyped == list \in ListFlights /\ page \in PageFlights /\ ghosts \in Nat /\ task \in BOOLEAN
PollTyped ==
  /\ connected \in BOOLEAN /\ observed \in BOOLEAN /\ listening \in BOOLEAN
  /\ timer \in BOOLEAN /\ polls \in BOOLEAN
ClientTypeOK == HostTyped /\ ShownTyped /\ FlightsTyped /\ PollTyped

(* An answer to a request of the state that is a page. *)
Fetched(flight) == flight # None /\ flight.answer # None /\ flight.answer.kind = "page"

(* What the client holds is of the host's epoch or of an earlier one; after a
   restart it was not told of, it is all of earlier ones. *)
Aged ==
  /\ snap.epoch <= epoch /\ hint <= head
  /\ page # None => page.epoch <= epoch
  /\ Fetched(list) => list.answer.epoch <= epoch /\ (cut \/ list.answer.epoch = epoch)
  /\ cut => /\ snap.epoch < epoch
            /\ page # None => page.epoch < epoch
            /\ Fetched(list) => list.answer.epoch < epoch

(* A client that is not connected has nothing in flight. *)
Severed == ~connected => list = None /\ page = None

(* Revisions grow along what is shown, asked for, answered and hinted. *)
Ordered ==
  /\ snap.rev <= base
  /\ snap.epoch = epoch => base <= head /\ owed <= head
  /\ Fetched(list) /\ list.answer.epoch = epoch => list.answer.rev <= head
  /\ Fetched(list) /\ list.answer.epoch = snap.epoch => base <= list.answer.rev

(* The page that is merged belongs to what is shown. *)
Belongs ==
  /\ page # None /\ page.epoch = epoch => snap.epoch = epoch /\ page.rev <= base
  /\ Fetched(page) =>
       /\ page.answer.epoch = page.epoch /\ page.answer.rev = page.rev
       /\ page.epoch = snap.epoch /\ page.rev <= base /\ (cut \/ page.epoch = epoch)
       /\ Fetched(list) => list.answer.epoch = page.epoch

(* A hint that the answer on its way does not cover is remembered, and one that
   the last baseline does not cover is being looked after. *)
Remembered ==
  Fetched(list) /\ list.answer.epoch = snap.epoch /\ owed > list.answer.rev => hinted > list.answer.rev

ClientInv == Aged /\ Severed /\ Ordered /\ Belongs /\ Remembered /\ HintsAreHonoured
-----------------------------------------------------------------------------
(* ClientController: lemmas. *)

(* A request that is made is a request, and one that is joined stays what it
   was: neither has an answer that was not there. *)
LEMMA RefreshJoins ==
  ASSUME ClientTypeOK, NEW flight \in ListFlights, Refresh(flight)
  PROVE  /\ list' \in ListFlights /\ list' # None /\ failed' \in BOOLEAN
         /\ flight # None => list' = flight
         /\ flight = None => ~failed' /\ ~Fetched(list)'
BY DEF Refresh, ClientTypeOK, ShownTyped, FlightsTyped, ListFlights, Answers, None, Fetched

LEMMA NoneIsNotFetched == ~Fetched(None)
BY DEF Fetched

(* An answer that was fetched is a page. *)
LEMMA FetchedIsPage ==
  ASSUME ClientTypeOK
  PROVE  /\ Fetched(list) => list.answer \in PageOf
         /\ Fetched(page) => page.answer \in PageOf
         /\ page # None => page \in [kind : {"page"}, epoch : Epochs, rev : Nat, answer : Answers]
BY DEF ClientTypeOK, FlightsTyped, ListFlights, PageFlights, Answers, PageOf, None, Fetched

(* Serving a request answers it. *)
LEMMA ServedList ==
  ASSUME ClientTypeOK, Sent(list), NEW a \in Answers \ {None}, list' = Answer(list, a)
  PROVE  list' \in ListFlights /\ list' # None /\ list'.answer = a
BY DEF ClientTypeOK, FlightsTyped, Sent, Answer, ListFlights, Answers, None

LEMMA ServedPage ==
  ASSUME ClientTypeOK, Sent(page), NEW a \in Answers \ {None}, page' = Answer(page, a)
  PROVE  /\ page' \in PageFlights /\ page' # None /\ page'.answer = a
         /\ page'.epoch = page.epoch /\ page'.rev = page.rev
BY DEF ClientTypeOK, FlightsTyped, Sent, Answer, PageFlights, Answers, None

LEMMA FlightTypes ==
  /\ None \in ListFlights /\ None \in PageFlights /\ [kind |-> "list", answer |-> None] \in ListFlights
  /\ NoPage \in [epoch : Epochs, rev : Nat, next : BOOLEAN]
BY DEF ListFlights, PageFlights, Answers, NoPage, Epochs

LEMMA ClientTypeStep == ClientTypeOK /\ [ClientNext]_clientVars => ClientTypeOK'
<1> SUFFICES ASSUME ClientTypeOK, [ClientNext]_clientVars PROVE ClientTypeOK'
  OBVIOUS
<1>1. CASE Advance
  <2>1. HostTyped'
    <3>1. epoch' \in Epochs \ {0} /\ head' \in Nat /\ hint' \in Nat /\ events' \in Nat
      BY <1>1 DEF Advance, lane, ClientTypeOK, HostTyped, Epochs
    <3>2. cut' \in BOOLEAN /\ all' \in BOOLEAN
      BY <1>1 DEF Advance, lane, ClientTypeOK, HostTyped
    <3> QED
      BY <3>1, <3>2 DEF HostTyped
  <2>2. ShownTyped'
    BY <1>1, ClientAssumption, FlightTypes DEF Advance, ClientTypeOK, HostTyped, ShownTyped, FlightsTyped, PollTyped,
      host, lane, audience, source, flights, polling, history
  <2>3. FlightsTyped'
    BY <1>1, ClientAssumption, FlightTypes DEF Advance, ClientTypeOK, HostTyped, ShownTyped, FlightsTyped, PollTyped,
      host, lane, audience, source, flights, polling, history
  <2>4. PollTyped'
    BY <1>1, ClientAssumption, FlightTypes DEF Advance, ClientTypeOK, HostTyped, ShownTyped, FlightsTyped, PollTyped,
      host, lane, audience, source, flights, polling, history
  <2> QED
    BY <2>1, <2>2, <2>3, <2>4 DEF ClientTypeOK
<1>2. CASE Restart
  <2>1. HostTyped'
    <3>1. epoch' \in Epochs \ {0} /\ head' \in Nat /\ hint' \in Nat /\ events' \in Nat
      BY <1>2 DEF Restart, ClientTypeOK, HostTyped, Epochs
    <3>2. cut' \in BOOLEAN /\ all' \in BOOLEAN
      BY <1>2 DEF Restart, ClientTypeOK, HostTyped
    <3> QED
      BY <3>1, <3>2 DEF HostTyped
  <2>2. ShownTyped'
    BY <1>2, ClientAssumption, FlightTypes DEF Restart, ClientTypeOK, HostTyped, ShownTyped, FlightsTyped, PollTyped,
      host, lane, audience, source, flights, polling, history
  <2>3. FlightsTyped'
    BY <1>2, ClientAssumption, FlightTypes DEF Restart, ClientTypeOK, HostTyped, ShownTyped, FlightsTyped, PollTyped,
      host, lane, audience, source, flights, polling, history
  <2>4. PollTyped'
    BY <1>2, ClientAssumption, FlightTypes DEF Restart, ClientTypeOK, HostTyped, ShownTyped, FlightsTyped, PollTyped,
      host, lane, audience, source, flights, polling, history
  <2> QED
    BY <2>1, <2>2, <2>3, <2>4 DEF ClientTypeOK
<1>3. CASE ServeList
  BY <1>3, ClientAssumption, FlightTypes DEF ServeList, Page, ClientTypeOK, HostTyped, ShownTyped, FlightsTyped, PollTyped, ListFlights, PageFlights, Answers, PageOf, Epochs, None, Sent, Answer,
    host, lane, audience, source, flights, polling, history
<1>4. CASE ServePage
  BY <1>4, ClientAssumption, FlightTypes DEF ServePage, Page, ClientTypeOK, HostTyped, ShownTyped, FlightsTyped, PollTyped, ListFlights, PageFlights, Answers, PageOf, Epochs, None, Sent, Answer,
    host, lane, audience, source, flights, polling, history
<1>5. CASE Fail
  BY <1>5, ClientAssumption, FlightTypes DEF Fail, Event, ClientTypeOK, HostTyped, ShownTyped, FlightsTyped, PollTyped, ListFlights, PageFlights, Answers, PageOf, Epochs, None, Sent, Answer,
    host, lane, audience, source, flights, polling, history
<1>6. CASE BaselineArrives
  BY <1>6, ClientAssumption, FlightTypes DEF BaselineArrives, Served, Follow, Outdated, PollSettled, Scheduled, ClientTypeOK, HostTyped, ShownTyped, FlightsTyped, PollTyped, ListFlights, PageFlights, Answers, PageOf, Epochs, None, Sent, Answer,
    host, lane, audience, source, flights, polling, history
<1>7. CASE BaselineFails
  BY <1>7, ClientAssumption, FlightTypes DEF BaselineFails, Served, Follow, PollSettled, Scheduled, ClientTypeOK, HostTyped, ShownTyped, FlightsTyped, PollTyped,
    host, lane, audience, source, flights, polling, history
<1>8. CASE GhostSettles
  <2>1. HostTyped'
    BY <1>8, ClientAssumption, FlightTypes DEF GhostSettles, Follow, ClientTypeOK, HostTyped, ShownTyped, FlightsTyped, PollTyped, Epochs,
      host, lane, audience, source, flights, polling, history
  <2>2. ShownTyped'
    BY <1>8, ClientAssumption, FlightTypes DEF GhostSettles, Follow, ClientTypeOK, HostTyped, ShownTyped, FlightsTyped, PollTyped,
      host, lane, audience, source, flights, polling, history
  <2>3. FlightsTyped'
    BY <1>8, ClientAssumption, FlightTypes DEF GhostSettles, Follow, ClientTypeOK, HostTyped, ShownTyped, FlightsTyped, PollTyped,
      host, lane, audience, source, flights, polling, history
  <2>4. PollTyped'
    BY <1>8, ClientAssumption, FlightTypes DEF GhostSettles, Follow, ClientTypeOK, HostTyped, ShownTyped, FlightsTyped, PollTyped,
      host, lane, audience, source, flights, polling, history
  <2> QED
    BY <2>1, <2>2, <2>3, <2>4 DEF ClientTypeOK
<1>9. CASE FollowUp
  BY <1>9, ClientAssumption, FlightTypes DEF FollowUp, Refresh, ClientTypeOK, HostTyped, ShownTyped, FlightsTyped, PollTyped,
    host, lane, audience, source, flights, polling, history
<1>10. CASE Retry
  BY <1>10, ClientAssumption, FlightTypes DEF Retry, Refresh, ClientTypeOK, HostTyped, ShownTyped, FlightsTyped, PollTyped,
    host, lane, audience, source, flights, polling, history
<1>11. CASE LoadMore
  BY <1>11, ClientAssumption, FlightTypes DEF LoadMore, ClientTypeOK, HostTyped, ShownTyped, FlightsTyped, PollTyped, ListFlights, PageFlights, Answers, PageOf, Epochs, None, Sent, Answer,
    host, lane, audience, source, flights, polling, history
<1>12. CASE PageArrives
  <2>1. HostTyped'
    BY <1>12, ClientAssumption, FlightTypes DEF PageArrives, Served, ClientTypeOK, HostTyped, ShownTyped, FlightsTyped, PollTyped, Epochs,
      host, lane, audience, source, flights, polling, history
  <2>2. ShownTyped'
    BY <1>12, ClientAssumption, FlightTypes DEF PageArrives, Served, ClientTypeOK, HostTyped, ShownTyped, FlightsTyped, PollTyped, ListFlights, PageFlights, Answers, PageOf, Epochs, None, Sent, Answer,
      host, lane, audience, source, flights, polling, history
  <2>3. FlightsTyped'
    BY <1>12, ClientAssumption, FlightTypes DEF PageArrives, Served, ClientTypeOK, HostTyped, ShownTyped, FlightsTyped, PollTyped, ListFlights, PageFlights, Answers, PageOf, Epochs, None, Sent, Answer,
      host, lane, audience, source, flights, polling, history
  <2>4. PollTyped'
    BY <1>12, ClientAssumption, FlightTypes DEF PageArrives, Served, ClientTypeOK, HostTyped, ShownTyped, FlightsTyped, PollTyped,
      host, lane, audience, source, flights, polling, history
  <2> QED
    BY <2>1, <2>2, <2>3, <2>4 DEF ClientTypeOK
<1>13. CASE PageFails
  BY <1>13, ClientAssumption, FlightTypes DEF PageFails, Served, Refresh, ClientTypeOK, HostTyped, ShownTyped, FlightsTyped, PollTyped,
    host, lane, audience, source, flights, polling, history
<1>14. CASE Hinted
  BY <1>14, ClientAssumption, FlightTypes DEF Hinted, Invalidated, Refresh, Larger, ClientTypeOK, HostTyped, ShownTyped, FlightsTyped, PollTyped,
    host, lane, audience, source, flights, polling, history
<1>15. CASE HintedAll
  BY <1>15, ClientAssumption, FlightTypes DEF HintedAll, Invalidated, Refresh, ClientTypeOK, HostTyped, ShownTyped, FlightsTyped, PollTyped,
    host, lane, audience, source, flights, polling, history
<1>16. CASE PollFires
  BY <1>16, ClientAssumption, FlightTypes DEF PollFires, Refresh, ClientTypeOK, HostTyped, ShownTyped, FlightsTyped, PollTyped,
    host, lane, audience, source, flights, polling, history
<1>17. CASE HandleDisconnected
  <2>1. HostTyped'
    BY <1>17, ClientAssumption, FlightTypes DEF HandleDisconnected, Event, Abort, Repoll, Scheduled, ClientTypeOK, HostTyped, ShownTyped, FlightsTyped, PollTyped, Epochs,
      host, lane, audience, source, flights, polling, history
  <2>2. ShownTyped'
    BY <1>17, ClientAssumption, FlightTypes DEF HandleDisconnected, Event, Abort, Repoll, Scheduled, ClientTypeOK, HostTyped, ShownTyped, FlightsTyped, PollTyped,
      host, lane, audience, source, flights, polling, history
  <2>3. FlightsTyped'
    BY <1>17, ClientAssumption, FlightTypes DEF HandleDisconnected, Event, Abort, Repoll, Scheduled, ClientTypeOK, HostTyped, ShownTyped, FlightsTyped, PollTyped,
      host, lane, audience, source, flights, polling, history
  <2>4. PollTyped'
    BY <1>17, ClientAssumption, FlightTypes DEF HandleDisconnected, Event, Abort, Repoll, Scheduled, ClientTypeOK, HostTyped, ShownTyped, FlightsTyped, PollTyped,
      host, lane, audience, source, flights, polling, history
  <2> QED
    BY <2>1, <2>2, <2>3, <2>4 DEF ClientTypeOK
<1>18. CASE HandleReset
  <2>1. HostTyped'
    <3>1. epoch' \in Epochs \ {0} /\ head' \in Nat /\ hint' \in Nat /\ events' \in Nat
      BY <1>18 DEF HandleReset, lane, ClientTypeOK, HostTyped, Epochs
    <3>2. cut' \in BOOLEAN /\ all' \in BOOLEAN
      BY <1>18 DEF HandleReset, lane, ClientTypeOK, HostTyped
    <3> QED
      BY <3>1, <3>2 DEF HostTyped
  <2>2. ShownTyped'
    BY <1>18, ClientAssumption, FlightTypes DEF HandleReset, Abort, Rebase, Refresh, Repoll, Scheduled, ClientTypeOK, HostTyped, ShownTyped, FlightsTyped, PollTyped,
      host, lane, audience, source, flights, polling, history
  <2>3. FlightsTyped'
    BY <1>18, ClientAssumption, FlightTypes DEF HandleReset, Abort, Rebase, Refresh, Repoll, Scheduled, ClientTypeOK, HostTyped, ShownTyped, FlightsTyped, PollTyped,
      host, lane, audience, source, flights, polling, history
  <2>4. PollTyped'
    BY <1>18, ClientAssumption, FlightTypes DEF HandleReset, Abort, Rebase, Refresh, Repoll, Scheduled, ClientTypeOK, HostTyped, ShownTyped, FlightsTyped, PollTyped,
      host, lane, audience, source, flights, polling, history
  <2> QED
    BY <2>1, <2>2, <2>3, <2>4 DEF ClientTypeOK
<1>19. CASE HandleConnected
  <2>1. HostTyped'
    BY <1>19, ClientAssumption, FlightTypes DEF HandleConnected, Rebase, Refresh, Repoll, Scheduled, ClientTypeOK, HostTyped, ShownTyped, FlightsTyped, PollTyped, Epochs,
      host, lane, audience, source, flights, polling, history
  <2>2. ShownTyped'
    BY <1>19, ClientAssumption, FlightTypes DEF HandleConnected, Rebase, Refresh, Repoll, Scheduled, ClientTypeOK, HostTyped, ShownTyped, FlightsTyped, PollTyped,
      host, lane, audience, source, flights, polling, history
  <2>3. FlightsTyped'
    BY <1>19, ClientAssumption, FlightTypes DEF HandleConnected, Rebase, Refresh, Repoll, Scheduled, ClientTypeOK, HostTyped, ShownTyped, FlightsTyped, PollTyped,
      host, lane, audience, source, flights, polling, history
  <2>4. PollTyped'
    BY <1>19, ClientAssumption, FlightTypes DEF HandleConnected, Rebase, Refresh, Repoll, Scheduled, ClientTypeOK, HostTyped, ShownTyped, FlightsTyped, PollTyped,
      host, lane, audience, source, flights, polling, history
  <2> QED
    BY <2>1, <2>2, <2>3, <2>4 DEF ClientTypeOK
<1>20. CASE Observe
  <2>1. HostTyped'
    BY <1>20, ClientAssumption, FlightTypes DEF Observe, Event, Entered, Refresh, Repoll, Scheduled, ClientTypeOK, HostTyped, ShownTyped, FlightsTyped, PollTyped, Epochs,
      host, lane, audience, source, flights, polling, history
  <2>2. ShownTyped'
    BY <1>20, ClientAssumption, FlightTypes DEF Observe, Event, Entered, Refresh, Repoll, Scheduled, ClientTypeOK, HostTyped, ShownTyped, FlightsTyped, PollTyped,
      host, lane, audience, source, flights, polling, history
  <2>3. FlightsTyped'
    BY <1>20, ClientAssumption, FlightTypes DEF Observe, Event, Entered, Refresh, Repoll, Scheduled, ClientTypeOK, HostTyped, ShownTyped, FlightsTyped, PollTyped,
      host, lane, audience, source, flights, polling, history
  <2>4. PollTyped'
    BY <1>20, ClientAssumption, FlightTypes DEF Observe, Event, Entered, Refresh, Repoll, Scheduled, ClientTypeOK, HostTyped, ShownTyped, FlightsTyped, PollTyped,
      host, lane, audience, source, flights, polling, history
  <2> QED
    BY <2>1, <2>2, <2>3, <2>4 DEF ClientTypeOK
<1>21. CASE Unobserve
  BY <1>21, ClientAssumption, FlightTypes DEF Unobserve, Forgotten, NoPage, Repoll, Scheduled, ClientTypeOK, HostTyped, ShownTyped, FlightsTyped, PollTyped,
    host, lane, audience, source, flights, polling, history
<1>22. CASE Subscribe
  BY <1>22, ClientAssumption, FlightTypes DEF Subscribe, Event, Entered, Refresh, ClientTypeOK, HostTyped, ShownTyped, FlightsTyped, PollTyped,
    host, lane, audience, source, flights, polling, history
<1>23. CASE Unsubscribe
  BY <1>23, ClientAssumption, FlightTypes DEF Unsubscribe, Forgotten, NoPage, ClientTypeOK, HostTyped, ShownTyped, FlightsTyped, PollTyped,
    host, lane, audience, source, flights, polling, history
<1>24. CASE RemoveSession
  BY <1>24, ClientAssumption, FlightTypes DEF RemoveSession, Forgotten, NoPage, Repoll, Scheduled, ClientTypeOK, HostTyped, ShownTyped, FlightsTyped, PollTyped,
    host, lane, audience, source, flights, polling, history
<1>25. CASE UNCHANGED clientVars
  BY <1>25 DEF clientVars, host, lane, audience, source, flights, polling, history, ClientTypeOK, HostTyped, ShownTyped, FlightsTyped, PollTyped
<1> QED
  BY <1>1, <1>2, <1>3, <1>4, <1>5, <1>6, <1>7, <1>8, <1>9, <1>10, <1>11, <1>12, <1>13, <1>14, <1>15, <1>16, <1>17, <1>18, <1>19, <1>20, <1>21, <1>22, <1>23, <1>24, <1>25 DEF ClientNext
LEMMA ServeListKeeps ==
  ASSUME ClientTypeOK, ClientInv, ServeList
  PROVE  ClientInv'
<1>1. PICK next \in BOOLEAN : list' = Answer(list, Page(next))
  BY DEF ServeList
<1>2. /\ Page(next) \in PageOf /\ Page(next) # None /\ Page(next).kind = "page"
      /\ Page(next).epoch = epoch /\ Page(next).rev = head
  BY DEF Page, PageOf, None, ClientTypeOK, HostTyped
<1>3. list # None /\ list' # None /\ list'.answer = Page(next) /\ ~cut /\ ~Fetched(list)
  BY <1>1, <1>2, ServedList DEF ServeList, Sent, Answers, Fetched
<1>4. UNCHANGED <<epoch, head, cut, hint, connected, observed, listening, snap, hinted, page, task, base, owed, failed>>
  BY DEF ServeList, host, lane, audience, source, history
<1>5. Aged' /\ Severed'
  BY <1>2, <1>3, <1>4 DEF ClientInv, Aged, Severed, Fetched, ClientTypeOK, HostTyped, Epochs
<1>6. Ordered' /\ Remembered'
  BY <1>2, <1>3, <1>4 DEF ClientInv, Ordered, Remembered, Fetched, ClientTypeOK, HostTyped, ShownTyped
<1>7. Belongs'
  BY <1>2, <1>3, <1>4 DEF ClientInv, Belongs, Fetched
<1>8. HintsAreHonoured'
  BY <1>3, <1>4 DEF HintsAreHonoured
<1> QED
  BY <1>5, <1>6, <1>7, <1>8 DEF ClientInv

LEMMA ServePageKeeps ==
  ASSUME ClientTypeOK, ClientInv, ServePage
  PROVE  ClientInv'
<1>1. PICK a \in Answers \ {None} :
        /\ page' = Answer(page, a)
        /\ a.kind = "page" => a.epoch = epoch /\ a.rev = head /\ page.epoch = epoch /\ page.rev = head
  <2>1. /\ [kind |-> "error"] \in Answers \ {None} /\ [kind |-> "stale"] \in Answers \ {None}
        /\ \A next \in BOOLEAN : /\ Page(next) \in Answers \ {None}
                                 /\ Page(next).epoch = epoch /\ Page(next).rev = head
    BY DEF Answers, None, Page, PageOf, ClientTypeOK, HostTyped
  <2> QED
    BY <2>1 DEF ServePage
<1>2. /\ page # None /\ page' # None /\ page'.answer = a /\ page'.epoch = page.epoch /\ page'.rev = page.rev
      /\ ~cut
  BY <1>1, ServedPage DEF ServePage, Sent
<1>3. UNCHANGED <<epoch, head, cut, hint, connected, observed, listening, snap, hinted, list, task, base, owed, failed>>
  BY DEF ServePage, host, lane, audience, source, history
<1>4. Aged' /\ Severed' /\ Ordered' /\ Remembered' /\ HintsAreHonoured'
  BY <1>2, <1>3 DEF ClientInv, Aged, Severed, Ordered, Remembered, HintsAreHonoured, Present, Fetched
<1>5. Belongs'
  BY <1>1, <1>2, <1>3 DEF ClientInv, Aged, Belongs, Fetched
<1> QED
  BY <1>4, <1>5 DEF ClientInv

LEMMA FailKeeps ==
  ASSUME ClientTypeOK, ClientInv, Fail
  PROVE  ClientInv'
<1>1. [kind |-> "error"] \in Answers \ {None}
  BY DEF Answers, None
<1>2. UNCHANGED <<epoch, head, cut, hint, connected, observed, listening, snap, hinted, task, base, owed, failed>>
  BY DEF Fail, host, lane, audience, source, history
<1>3. CASE Sent(list) /\ list' = Answer(list, [kind |-> "error"]) /\ UNCHANGED page
  <2>1. list # None /\ list' # None /\ ~Fetched(list')
    BY <1>1, <1>3, ServedList DEF Sent, Fetched
  <2> QED
    BY <1>2, <1>3, <2>1 DEF ClientInv, Aged, Severed, Ordered, Belongs, Remembered, HintsAreHonoured, Present
<1>4. CASE Sent(page) /\ page' = Answer(page, [kind |-> "error"]) /\ UNCHANGED list
  <2>1. page # None /\ page' # None /\ page'.epoch = page.epoch /\ page'.rev = page.rev /\ ~Fetched(page')
    BY <1>1, <1>4, ServedPage DEF Sent, Fetched
  <2> QED
    BY <1>2, <1>4, <2>1 DEF ClientInv, Aged, Severed, Ordered, Belongs, Remembered, HintsAreHonoured, Present
<1> QED
  BY <1>3, <1>4 DEF Fail

LEMMA AdvanceKeeps ==
  ASSUME ClientTypeOK, ClientInv, Advance
  PROVE  ClientInv'
<1>1. Aged'
  BY FetchedIsPage DEF Advance, ClientInv, Aged, Fetched, source, flights, host, lane,
    ClientTypeOK, HostTyped, ShownTyped, FlightsTyped, PollTyped, Epochs
<1>2. Severed'
  BY DEF Advance, ClientInv, Severed, Fetched, source, flights
<1>3. Ordered'
  BY FetchedIsPage DEF Advance, ClientInv, Ordered, Belongs, Fetched, source, flights, host, history,
    ClientTypeOK, HostTyped, ShownTyped, FlightsTyped, PollTyped, Epochs, PageOf
<1>4. Belongs'
  BY FetchedIsPage DEF Advance, ClientInv, Belongs, Fetched, source, flights, host, history,
    ClientTypeOK, HostTyped, ShownTyped, FlightsTyped, PollTyped, Epochs
<1>5. Remembered'
  BY FetchedIsPage DEF Advance, ClientInv, Remembered, Fetched, source, flights, host, history,
    ClientTypeOK, HostTyped, ShownTyped, FlightsTyped, PollTyped, Epochs
<1>6. HintsAreHonoured'
  BY DEF Advance, ClientInv, HintsAreHonoured, Present, Fetched, source, flights, host, history, audience,
    ClientTypeOK, HostTyped, ShownTyped, FlightsTyped, PollTyped, Epochs
<1> QED
  BY <1>1, <1>2, <1>3, <1>4, <1>5, <1>6 DEF ClientInv

LEMMA RestartKeeps ==
  ASSUME ClientTypeOK, ClientInv, Restart
  PROVE  ClientInv'
<1>1. Aged'
  BY FetchedIsPage DEF Restart, ClientInv, Ordered, Belongs, Aged, Fetched, source, flights, host, lane,
    ClientTypeOK, HostTyped, ShownTyped, FlightsTyped, PollTyped, Epochs, PageOf
<1>2. Severed'
  BY DEF Restart, ClientInv, Severed, Fetched, source, flights
<1>3. Ordered'
  BY FetchedIsPage DEF Restart, ClientInv, Aged, Severed, Ordered, Belongs, Remembered, HintsAreHonoured, Present, Fetched, host, lane, audience, source, flights, polling, history,
    ClientTypeOK, HostTyped, ShownTyped, FlightsTyped, PollTyped, Epochs, PageOf
<1>4. Belongs'
  BY FetchedIsPage DEF Restart, ClientInv, Aged, Severed, Ordered, Belongs, Remembered, HintsAreHonoured, Present, Fetched, host, lane, audience, source, flights, polling, history,
    ClientTypeOK, HostTyped, ShownTyped, FlightsTyped, PollTyped, Epochs, PageOf
<1>5. Remembered'
  BY FetchedIsPage DEF Restart, ClientInv, Remembered, Fetched, source, flights, host, history,
    ClientTypeOK, HostTyped, ShownTyped, FlightsTyped, PollTyped, Epochs
<1>6. HintsAreHonoured'
  BY DEF Restart, ClientInv, HintsAreHonoured, Present, Fetched, source, flights, host, history, audience,
    ClientTypeOK, HostTyped, ShownTyped, FlightsTyped, PollTyped, Epochs
<1> QED
  BY <1>1, <1>2, <1>3, <1>4, <1>5, <1>6 DEF ClientInv

LEMMA BaselineArrivesKeeps ==
  ASSUME ClientTypeOK, ClientInv, BaselineArrives
  PROVE  ClientInv'
<1>1. Aged'
  BY FetchedIsPage DEF BaselineArrives, Served, Follow, Outdated, ClientInv, Aged, Fetched, source, flights, host, lane,
    ClientTypeOK, HostTyped, ShownTyped, FlightsTyped, PollTyped, Epochs
<1>2. Severed'
  BY DEF BaselineArrives, Served, Follow, Outdated, ClientInv, Severed, Fetched, source, flights
<1>3. Ordered'
  BY FetchedIsPage DEF BaselineArrives, Served, Follow, Outdated, ClientInv, Ordered, Belongs, Fetched, source, flights, host, history,
    ClientTypeOK, HostTyped, ShownTyped, FlightsTyped, PollTyped, Epochs, PageOf
<1>4. Belongs'
  BY FetchedIsPage DEF BaselineArrives, Served, Follow, Outdated, PollSettled, Scheduled, ClientInv, Aged, Severed, Ordered, Belongs, Remembered, HintsAreHonoured, Present, Fetched, host, lane, audience, source, flights, polling, history,
    ClientTypeOK, HostTyped, ShownTyped, FlightsTyped, PollTyped, Epochs, PageOf
<1>5. Remembered'
  BY FetchedIsPage DEF BaselineArrives, Served, Follow, Outdated, ClientInv, Remembered, Fetched, source, flights, host, history,
    ClientTypeOK, HostTyped, ShownTyped, FlightsTyped, PollTyped, Epochs
<1>6. HintsAreHonoured'
  BY FetchedIsPage DEF BaselineArrives, Served, Follow, Outdated, PollSettled, Scheduled, ClientInv, Aged, Severed, Ordered, Belongs, Remembered, HintsAreHonoured, Present, Fetched, host, lane, audience, source, flights, polling, history,
    ClientTypeOK, HostTyped, ShownTyped, FlightsTyped, PollTyped, Epochs, PageOf
<1> QED
  BY <1>1, <1>2, <1>3, <1>4, <1>5, <1>6 DEF ClientInv

LEMMA BaselineFailsKeeps ==
  ASSUME ClientTypeOK, ClientInv, BaselineFails
  PROVE  ClientInv'
<1>1. Aged'
  BY FetchedIsPage DEF BaselineFails, Served, Follow, ClientInv, Aged, Fetched, source, flights, host, lane,
    ClientTypeOK, HostTyped, ShownTyped, FlightsTyped, PollTyped, Epochs
<1>2. Severed'
  BY DEF BaselineFails, Served, Follow, ClientInv, Severed, Fetched, source, flights
<1>3. Ordered'
  BY FetchedIsPage DEF BaselineFails, Served, Follow, ClientInv, Ordered, Fetched, source, flights, host, history,
    ClientTypeOK, HostTyped, ShownTyped, FlightsTyped, PollTyped, Epochs
<1>4. Belongs'
  BY FetchedIsPage DEF BaselineFails, Served, Follow, ClientInv, Belongs, Fetched, source, flights, host, history,
    ClientTypeOK, HostTyped, ShownTyped, FlightsTyped, PollTyped, Epochs
<1>5. Remembered'
  BY FetchedIsPage DEF BaselineFails, Served, Follow, ClientInv, Remembered, Fetched, source, flights, host, history,
    ClientTypeOK, HostTyped, ShownTyped, FlightsTyped, PollTyped, Epochs
<1>6. HintsAreHonoured'
  BY DEF BaselineFails, Served, Follow, ClientInv, HintsAreHonoured, Present, Fetched, source, flights, host, history, audience,
    ClientTypeOK, HostTyped, ShownTyped, FlightsTyped, PollTyped, Epochs
<1> QED
  BY <1>1, <1>2, <1>3, <1>4, <1>5, <1>6 DEF ClientInv

LEMMA GhostSettlesKeeps ==
  ASSUME ClientTypeOK, ClientInv, GhostSettles
  PROVE  ClientInv'
<1>1. Aged'
  BY FetchedIsPage DEF GhostSettles, Follow, ClientInv, Aged, Fetched, source, flights, host, lane,
    ClientTypeOK, HostTyped, ShownTyped, FlightsTyped, PollTyped, Epochs
<1>2. Severed'
  BY DEF GhostSettles, Follow, ClientInv, Severed, Fetched, source, flights
<1>3. Ordered'
  BY FetchedIsPage DEF GhostSettles, Follow, ClientInv, Ordered, Fetched, source, flights, host, history,
    ClientTypeOK, HostTyped, ShownTyped, FlightsTyped, PollTyped, Epochs
<1>4. Belongs'
  BY FetchedIsPage DEF GhostSettles, Follow, ClientInv, Belongs, Fetched, source, flights, host, history,
    ClientTypeOK, HostTyped, ShownTyped, FlightsTyped, PollTyped, Epochs
<1>5. Remembered'
  BY FetchedIsPage DEF GhostSettles, Follow, ClientInv, Remembered, Fetched, source, flights, host, history,
    ClientTypeOK, HostTyped, ShownTyped, FlightsTyped, PollTyped, Epochs
<1>6. HintsAreHonoured'
  BY DEF GhostSettles, Follow, ClientInv, HintsAreHonoured, Present, Fetched, source, flights, host, history, audience,
    ClientTypeOK, HostTyped, ShownTyped, FlightsTyped, PollTyped, Epochs
<1> QED
  BY <1>1, <1>2, <1>3, <1>4, <1>5, <1>6 DEF ClientInv

LEMMA FollowUpKeeps ==
  ASSUME ClientTypeOK, ClientInv, FollowUp
  PROVE  ClientInv'
<1>1. Aged'
  BY RefreshJoins, FetchedIsPage DEF FollowUp, ClientInv, Aged, Fetched, source, flights, host, lane,
    ClientTypeOK, HostTyped, ShownTyped, FlightsTyped, PollTyped, Epochs
<1>2. Severed'
  BY RefreshJoins DEF FollowUp, ClientInv, Severed, Fetched, source, flights
<1>3. Ordered'
  BY RefreshJoins, FetchedIsPage DEF FollowUp, ClientInv, Ordered, Fetched, source, flights, host, history,
    ClientTypeOK, HostTyped, ShownTyped, FlightsTyped, PollTyped, Epochs
<1>4. Belongs'
  BY RefreshJoins, FetchedIsPage DEF FollowUp, ClientInv, Belongs, Fetched, source, flights, host, history,
    ClientTypeOK, HostTyped, ShownTyped, FlightsTyped, PollTyped, Epochs
<1>5. Remembered'
  BY RefreshJoins, FetchedIsPage DEF FollowUp, ClientInv, Remembered, Fetched, source, flights, host, history,
    ClientTypeOK, HostTyped, ShownTyped, FlightsTyped, PollTyped, Epochs
<1>6. HintsAreHonoured'
  BY RefreshJoins DEF FollowUp, ClientInv, HintsAreHonoured, Present, Fetched, source, flights, host, history, audience,
    ClientTypeOK, HostTyped, ShownTyped, FlightsTyped, PollTyped, Epochs
<1> QED
  BY <1>1, <1>2, <1>3, <1>4, <1>5, <1>6 DEF ClientInv

LEMMA RetryKeeps ==
  ASSUME ClientTypeOK, ClientInv, Retry
  PROVE  ClientInv'
<1>1. Aged'
  BY RefreshJoins, FetchedIsPage DEF Retry, ClientInv, Aged, Fetched, source, flights, host, lane,
    ClientTypeOK, HostTyped, ShownTyped, FlightsTyped, PollTyped, Epochs
<1>2. Severed'
  BY RefreshJoins DEF Retry, ClientInv, Severed, Fetched, source, flights
<1>3. Ordered'
  BY RefreshJoins, FetchedIsPage DEF Retry, ClientInv, Ordered, Fetched, source, flights, host, history,
    ClientTypeOK, HostTyped, ShownTyped, FlightsTyped, PollTyped, Epochs
<1>4. Belongs'
  BY RefreshJoins, FetchedIsPage DEF Retry, ClientInv, Belongs, Fetched, source, flights, host, history,
    ClientTypeOK, HostTyped, ShownTyped, FlightsTyped, PollTyped, Epochs
<1>5. Remembered'
  BY RefreshJoins, FetchedIsPage DEF Retry, ClientInv, Remembered, Fetched, source, flights, host, history,
    ClientTypeOK, HostTyped, ShownTyped, FlightsTyped, PollTyped, Epochs
<1>6. HintsAreHonoured'
  BY RefreshJoins DEF Retry, ClientInv, HintsAreHonoured, Present, Fetched, source, flights, host, history, audience,
    ClientTypeOK, HostTyped, ShownTyped, FlightsTyped, PollTyped, Epochs
<1> QED
  BY <1>1, <1>2, <1>3, <1>4, <1>5, <1>6 DEF ClientInv

LEMMA LoadMoreKeeps ==
  ASSUME ClientTypeOK, ClientInv, LoadMore
  PROVE  ClientInv'
<1>1. Aged'
  BY FetchedIsPage DEF LoadMore, ClientInv, Aged, Fetched, source, flights, host, lane,
    ClientTypeOK, HostTyped, ShownTyped, FlightsTyped, PollTyped, Epochs
<1>2. Severed'
  BY DEF LoadMore, ClientInv, Severed, Fetched, source, flights
<1>3. Ordered'
  BY FetchedIsPage DEF LoadMore, ClientInv, Ordered, Fetched, source, flights, host, history,
    ClientTypeOK, HostTyped, ShownTyped, FlightsTyped, PollTyped, Epochs
<1>4. Belongs'
  BY FetchedIsPage DEF LoadMore, ClientInv, Ordered, Belongs, Fetched, source, flights, host, history,
    ClientTypeOK, HostTyped, ShownTyped, FlightsTyped, PollTyped, Epochs, PageOf
<1>5. Remembered'
  BY FetchedIsPage DEF LoadMore, ClientInv, Remembered, Fetched, source, flights, host, history,
    ClientTypeOK, HostTyped, ShownTyped, FlightsTyped, PollTyped, Epochs
<1>6. HintsAreHonoured'
  BY DEF LoadMore, ClientInv, HintsAreHonoured, Present, Fetched, source, flights, host, history, audience,
    ClientTypeOK, HostTyped, ShownTyped, FlightsTyped, PollTyped, Epochs
<1> QED
  BY <1>1, <1>2, <1>3, <1>4, <1>5, <1>6 DEF ClientInv

LEMMA PageArrivesKeeps ==
  ASSUME ClientTypeOK, ClientInv, PageArrives
  PROVE  ClientInv'
<1>1. Aged'
  BY FetchedIsPage DEF PageArrives, Served, ClientInv, Aged, Fetched, source, flights, host, lane,
    ClientTypeOK, HostTyped, ShownTyped, FlightsTyped, PollTyped, Epochs
<1>2. Severed'
  BY DEF PageArrives, Served, ClientInv, Severed, Fetched, source, flights
<1>3. Ordered'
  BY FetchedIsPage DEF PageArrives, Served, ClientInv, Ordered, Belongs, Fetched, source, flights, host, history,
    ClientTypeOK, HostTyped, ShownTyped, FlightsTyped, PollTyped, Epochs, PageOf
<1>4. Belongs'
  BY FetchedIsPage DEF PageArrives, Served, ClientInv, Belongs, Fetched, source, flights, host, history,
    ClientTypeOK, HostTyped, ShownTyped, FlightsTyped, PollTyped, Epochs
<1>5. Remembered'
  BY FetchedIsPage DEF PageArrives, Served, ClientInv, Remembered, Fetched, source, flights, host, history,
    ClientTypeOK, HostTyped, ShownTyped, FlightsTyped, PollTyped, Epochs
<1>6. HintsAreHonoured'
  BY DEF PageArrives, Served, ClientInv, HintsAreHonoured, Present, Fetched, source, flights, host, history, audience,
    ClientTypeOK, HostTyped, ShownTyped, FlightsTyped, PollTyped, Epochs
<1> QED
  BY <1>1, <1>2, <1>3, <1>4, <1>5, <1>6 DEF ClientInv

LEMMA PageFailsKeeps ==
  ASSUME ClientTypeOK, ClientInv, PageFails
  PROVE  ClientInv'
<1>1. Aged'
  BY RefreshJoins, FetchedIsPage DEF PageFails, Served, ClientInv, Aged, Fetched, source, flights, host, lane,
    ClientTypeOK, HostTyped, ShownTyped, FlightsTyped, PollTyped, Epochs
<1>2. Severed'
  BY RefreshJoins DEF PageFails, Served, ClientInv, Severed, Fetched, source, flights
<1>3. Ordered'
  BY RefreshJoins, FetchedIsPage DEF PageFails, Served, ClientInv, Ordered, Fetched, source, flights, host, history,
    ClientTypeOK, HostTyped, ShownTyped, FlightsTyped, PollTyped, Epochs
<1>4. Belongs'
  BY RefreshJoins, FetchedIsPage DEF PageFails, Served, ClientInv, Belongs, Fetched, source, flights, host, history,
    ClientTypeOK, HostTyped, ShownTyped, FlightsTyped, PollTyped, Epochs
<1>5. Remembered'
  BY RefreshJoins, FetchedIsPage DEF PageFails, Served, ClientInv, Remembered, Fetched, source, flights, host, history,
    ClientTypeOK, HostTyped, ShownTyped, FlightsTyped, PollTyped, Epochs
<1>6. HintsAreHonoured'
  BY RefreshJoins DEF PageFails, Served, ClientInv, HintsAreHonoured, Present, Fetched, source, flights, host, history, audience,
    ClientTypeOK, HostTyped, ShownTyped, FlightsTyped, PollTyped, Epochs
<1> QED
  BY <1>1, <1>2, <1>3, <1>4, <1>5, <1>6 DEF ClientInv

LEMMA HintedKeeps ==
  ASSUME ClientTypeOK, ClientInv, Hinted
  PROVE  ClientInv'
<1>1. Aged'
  BY RefreshJoins, FetchedIsPage DEF Hinted, Invalidated, Larger, ClientInv, Aged, Fetched, source, flights, host, lane,
    ClientTypeOK, HostTyped, ShownTyped, FlightsTyped, PollTyped, Epochs
<1>2. Severed'
  BY RefreshJoins DEF Hinted, Invalidated, Larger, ClientInv, Severed, Fetched, source, flights
<1>3. Ordered'
  BY RefreshJoins, FetchedIsPage DEF Hinted, Invalidated, Larger, ClientInv, Aged, Severed, Ordered, Belongs, Remembered, HintsAreHonoured, Present, Fetched, host, lane, audience, source, flights, polling, history,
    ClientTypeOK, HostTyped, ShownTyped, FlightsTyped, PollTyped, Epochs, PageOf
<1>4. Belongs'
  BY RefreshJoins, FetchedIsPage DEF Hinted, Invalidated, Larger, ClientInv, Belongs, Fetched, source, flights, host, history,
    ClientTypeOK, HostTyped, ShownTyped, FlightsTyped, PollTyped, Epochs
<1>5. Remembered'
  BY RefreshJoins, FetchedIsPage DEF Hinted, Invalidated, Larger, ClientInv, Ordered, Belongs, Remembered, Fetched, source, flights, host, history,
    ClientTypeOK, HostTyped, ShownTyped, FlightsTyped, PollTyped, Epochs, PageOf
<1>6. HintsAreHonoured'
  BY RefreshJoins, FetchedIsPage DEF Hinted, Invalidated, Larger, ClientInv, Ordered, Belongs, HintsAreHonoured, Present, Fetched, source, flights, host, history, audience,
    ClientTypeOK, HostTyped, ShownTyped, FlightsTyped, PollTyped, Epochs, PageOf
<1> QED
  BY <1>1, <1>2, <1>3, <1>4, <1>5, <1>6 DEF ClientInv

LEMMA HintedAllKeeps ==
  ASSUME ClientTypeOK, ClientInv, HintedAll
  PROVE  ClientInv'
<1>1. Aged'
  BY RefreshJoins, FetchedIsPage DEF HintedAll, Invalidated, ClientInv, Aged, Fetched, source, flights, host, lane,
    ClientTypeOK, HostTyped, ShownTyped, FlightsTyped, PollTyped, Epochs
<1>2. Severed'
  BY RefreshJoins DEF HintedAll, Invalidated, ClientInv, Severed, Fetched, source, flights
<1>3. Ordered'
  BY RefreshJoins, FetchedIsPage DEF HintedAll, Invalidated, ClientInv, Ordered, Fetched, source, flights, host, history,
    ClientTypeOK, HostTyped, ShownTyped, FlightsTyped, PollTyped, Epochs
<1>4. Belongs'
  BY RefreshJoins, FetchedIsPage DEF HintedAll, Invalidated, ClientInv, Belongs, Fetched, source, flights, host, history,
    ClientTypeOK, HostTyped, ShownTyped, FlightsTyped, PollTyped, Epochs
<1>5. Remembered'
  BY RefreshJoins, FetchedIsPage DEF HintedAll, Invalidated, ClientInv, Remembered, Fetched, source, flights, host, history,
    ClientTypeOK, HostTyped, ShownTyped, FlightsTyped, PollTyped, Epochs
<1>6. HintsAreHonoured'
  BY RefreshJoins DEF HintedAll, Invalidated, ClientInv, HintsAreHonoured, Present, Fetched, source, flights, host, history, audience,
    ClientTypeOK, HostTyped, ShownTyped, FlightsTyped, PollTyped, Epochs
<1> QED
  BY <1>1, <1>2, <1>3, <1>4, <1>5, <1>6 DEF ClientInv

LEMMA PollFiresKeeps ==
  ASSUME ClientTypeOK, ClientInv, PollFires
  PROVE  ClientInv'
<1>1. Aged'
  BY RefreshJoins, FetchedIsPage DEF PollFires, ClientInv, Aged, Fetched, source, flights, host, lane,
    ClientTypeOK, HostTyped, ShownTyped, FlightsTyped, PollTyped, Epochs
<1>2. Severed'
  BY RefreshJoins DEF PollFires, ClientInv, Severed, Fetched, source, flights
<1>3. Ordered'
  BY RefreshJoins, FetchedIsPage DEF PollFires, ClientInv, Ordered, Fetched, source, flights, host, history,
    ClientTypeOK, HostTyped, ShownTyped, FlightsTyped, PollTyped, Epochs
<1>4. Belongs'
  BY RefreshJoins, FetchedIsPage DEF PollFires, ClientInv, Belongs, Fetched, source, flights, host, history,
    ClientTypeOK, HostTyped, ShownTyped, FlightsTyped, PollTyped, Epochs
<1>5. Remembered'
  BY RefreshJoins, FetchedIsPage DEF PollFires, ClientInv, Remembered, Fetched, source, flights, host, history,
    ClientTypeOK, HostTyped, ShownTyped, FlightsTyped, PollTyped, Epochs
<1>6. HintsAreHonoured'
  BY RefreshJoins DEF PollFires, ClientInv, HintsAreHonoured, Present, Fetched, source, flights, host, history, audience,
    ClientTypeOK, HostTyped, ShownTyped, FlightsTyped, PollTyped, Epochs
<1> QED
  BY <1>1, <1>2, <1>3, <1>4, <1>5, <1>6 DEF ClientInv

LEMMA HandleDisconnectedKeeps ==
  ASSUME ClientTypeOK, ClientInv, HandleDisconnected
  PROVE  ClientInv'
<1>1. Aged'
  BY FlightTypes, FetchedIsPage DEF HandleDisconnected, Event, Abort, ClientInv, Aged, Fetched, source, flights, host, lane,
    ClientTypeOK, HostTyped, ShownTyped, FlightsTyped, PollTyped, Epochs
<1>2. Severed'
  BY FlightTypes DEF HandleDisconnected, Event, Abort, ClientInv, Severed, Fetched, source, flights
<1>3. Ordered'
  BY FlightTypes, FetchedIsPage DEF HandleDisconnected, Event, Abort, ClientInv, Ordered, Fetched, source, flights, host, history,
    ClientTypeOK, HostTyped, ShownTyped, FlightsTyped, PollTyped, Epochs
<1>4. Belongs'
  BY FlightTypes, FetchedIsPage DEF HandleDisconnected, Event, Abort, ClientInv, Belongs, Fetched, source, flights, host, history,
    ClientTypeOK, HostTyped, ShownTyped, FlightsTyped, PollTyped, Epochs
<1>5. Remembered'
  BY FlightTypes, FetchedIsPage DEF HandleDisconnected, Event, Abort, ClientInv, Remembered, Fetched, source, flights, host, history,
    ClientTypeOK, HostTyped, ShownTyped, FlightsTyped, PollTyped, Epochs
<1>6. HintsAreHonoured'
  BY FlightTypes DEF HandleDisconnected, Event, Abort, ClientInv, HintsAreHonoured, Present, Fetched, source, flights, host, history, audience,
    ClientTypeOK, HostTyped, ShownTyped, FlightsTyped, PollTyped, Epochs
<1> QED
  BY <1>1, <1>2, <1>3, <1>4, <1>5, <1>6 DEF ClientInv

LEMMA HandleResetKeeps ==
  ASSUME ClientTypeOK, ClientInv, HandleReset
  PROVE  ClientInv'
<1>1. Aged'
  BY RefreshJoins, FlightTypes, FetchedIsPage DEF HandleReset, Abort, Rebase, ClientInv, Aged, Fetched, source, flights, host, lane,
    ClientTypeOK, HostTyped, ShownTyped, FlightsTyped, PollTyped, Epochs
<1>2. Severed'
  BY RefreshJoins, FlightTypes DEF HandleReset, Abort, Rebase, ClientInv, Severed, Fetched, source, flights
<1>3. Ordered'
  BY RefreshJoins, FlightTypes, FetchedIsPage DEF HandleReset, Abort, Rebase, ClientInv, Ordered, Fetched, source, flights, host, history,
    ClientTypeOK, HostTyped, ShownTyped, FlightsTyped, PollTyped, Epochs
<1>4. Belongs'
  BY RefreshJoins, FlightTypes, FetchedIsPage DEF HandleReset, Abort, Rebase, ClientInv, Belongs, Fetched, source, flights, host, history,
    ClientTypeOK, HostTyped, ShownTyped, FlightsTyped, PollTyped, Epochs
<1>5. Remembered'
  BY RefreshJoins, FlightTypes, FetchedIsPage DEF HandleReset, Abort, Rebase, ClientInv, Remembered, Fetched, source, flights, host, history,
    ClientTypeOK, HostTyped, ShownTyped, FlightsTyped, PollTyped, Epochs
<1>6. HintsAreHonoured'
  BY RefreshJoins, FlightTypes DEF HandleReset, Abort, Rebase, ClientInv, HintsAreHonoured, Present, Fetched, source, flights, host, history, audience,
    ClientTypeOK, HostTyped, ShownTyped, FlightsTyped, PollTyped, Epochs
<1> QED
  BY <1>1, <1>2, <1>3, <1>4, <1>5, <1>6 DEF ClientInv

LEMMA HandleConnectedKeeps ==
  ASSUME ClientTypeOK, ClientInv, HandleConnected
  PROVE  ClientInv'
<1>1. Aged'
  BY RefreshJoins, FetchedIsPage DEF HandleConnected, Rebase, Repoll, Scheduled, ClientInv, Aged, Severed, Ordered, Belongs, Remembered, HintsAreHonoured, Present, Fetched, host, lane, audience, source, flights, polling, history,
    ClientTypeOK, HostTyped, ShownTyped, FlightsTyped, PollTyped, Epochs, PageOf
<1>2. Severed'
  BY RefreshJoins DEF HandleConnected, Rebase, ClientInv, Severed, Fetched, source, flights
<1>3. Ordered'
  BY RefreshJoins, FetchedIsPage DEF HandleConnected, Rebase, ClientInv, Ordered, Fetched, source, flights, host, history,
    ClientTypeOK, HostTyped, ShownTyped, FlightsTyped, PollTyped, Epochs
<1>4. Belongs'
  BY RefreshJoins, FetchedIsPage DEF HandleConnected, Rebase, Repoll, Scheduled, ClientInv, Aged, Severed, Ordered, Belongs, Remembered, HintsAreHonoured, Present, Fetched, host, lane, audience, source, flights, polling, history,
    ClientTypeOK, HostTyped, ShownTyped, FlightsTyped, PollTyped, Epochs, PageOf
<1>5. Remembered'
  BY RefreshJoins, FetchedIsPage DEF HandleConnected, Rebase, ClientInv, Remembered, Fetched, source, flights, host, history,
    ClientTypeOK, HostTyped, ShownTyped, FlightsTyped, PollTyped, Epochs
<1>6. HintsAreHonoured'
  BY RefreshJoins DEF HandleConnected, Rebase, ClientInv, HintsAreHonoured, Present, Fetched, source, flights, host, history, audience,
    ClientTypeOK, HostTyped, ShownTyped, FlightsTyped, PollTyped, Epochs
<1> QED
  BY <1>1, <1>2, <1>3, <1>4, <1>5, <1>6 DEF ClientInv

LEMMA ObserveKeeps ==
  ASSUME ClientTypeOK, ClientInv, Observe
  PROVE  ClientInv'
<1>1. Aged'
  BY RefreshJoins, FetchedIsPage DEF Observe, Event, Entered, ClientInv, Aged, Fetched, source, flights, host, lane,
    ClientTypeOK, HostTyped, ShownTyped, FlightsTyped, PollTyped, Epochs
<1>2. Severed'
  BY RefreshJoins DEF Observe, Event, Entered, ClientInv, Severed, Fetched, source, flights
<1>3. Ordered'
  BY RefreshJoins, FetchedIsPage DEF Observe, Event, Entered, ClientInv, Ordered, Fetched, source, flights, host, history,
    ClientTypeOK, HostTyped, ShownTyped, FlightsTyped, PollTyped, Epochs
<1>4. Belongs'
  BY RefreshJoins, FetchedIsPage DEF Observe, Event, Entered, ClientInv, Belongs, Fetched, source, flights, host, history,
    ClientTypeOK, HostTyped, ShownTyped, FlightsTyped, PollTyped, Epochs
<1>5. Remembered'
  BY RefreshJoins, FetchedIsPage DEF Observe, Event, Entered, ClientInv, Remembered, Fetched, source, flights, host, history,
    ClientTypeOK, HostTyped, ShownTyped, FlightsTyped, PollTyped, Epochs
<1>6. HintsAreHonoured'
  BY RefreshJoins DEF Observe, Event, Entered, ClientInv, HintsAreHonoured, Present, Fetched, source, flights, host, history, audience,
    ClientTypeOK, HostTyped, ShownTyped, FlightsTyped, PollTyped, Epochs
<1> QED
  BY <1>1, <1>2, <1>3, <1>4, <1>5, <1>6 DEF ClientInv

LEMMA UnobserveKeeps ==
  ASSUME ClientTypeOK, ClientInv, Unobserve
  PROVE  ClientInv'
<1>1. Aged'
  BY FlightTypes, FetchedIsPage DEF Unobserve, Forgotten, NoPage, ClientInv, Aged, Fetched, source, flights, host, lane,
    ClientTypeOK, HostTyped, ShownTyped, FlightsTyped, PollTyped, Epochs
<1>2. Severed'
  BY FlightTypes DEF Unobserve, Forgotten, NoPage, ClientInv, Severed, Fetched, source, flights
<1>3. Ordered'
  BY FlightTypes, FetchedIsPage DEF Unobserve, Forgotten, NoPage, ClientInv, Ordered, Fetched, source, flights, host, history,
    ClientTypeOK, HostTyped, ShownTyped, FlightsTyped, PollTyped, Epochs
<1>4. Belongs'
  BY FlightTypes, FetchedIsPage DEF Unobserve, Forgotten, NoPage, ClientInv, Belongs, Fetched, source, flights, host, history,
    ClientTypeOK, HostTyped, ShownTyped, FlightsTyped, PollTyped, Epochs
<1>5. Remembered'
  BY FlightTypes, FetchedIsPage DEF Unobserve, Forgotten, NoPage, ClientInv, Remembered, Fetched, source, flights, host, history,
    ClientTypeOK, HostTyped, ShownTyped, FlightsTyped, PollTyped, Epochs
<1>6. HintsAreHonoured'
  BY FlightTypes DEF Unobserve, Forgotten, NoPage, ClientInv, HintsAreHonoured, Present, Fetched, source, flights, host, history, audience,
    ClientTypeOK, HostTyped, ShownTyped, FlightsTyped, PollTyped, Epochs
<1> QED
  BY <1>1, <1>2, <1>3, <1>4, <1>5, <1>6 DEF ClientInv

LEMMA SubscribeKeeps ==
  ASSUME ClientTypeOK, ClientInv, Subscribe
  PROVE  ClientInv'
<1>1. Aged'
  BY RefreshJoins, FetchedIsPage DEF Subscribe, Event, Entered, ClientInv, Aged, Fetched, source, flights, host, lane,
    ClientTypeOK, HostTyped, ShownTyped, FlightsTyped, PollTyped, Epochs
<1>2. Severed'
  BY RefreshJoins DEF Subscribe, Event, Entered, ClientInv, Severed, Fetched, source, flights
<1>3. Ordered'
  BY RefreshJoins, FetchedIsPage DEF Subscribe, Event, Entered, ClientInv, Ordered, Fetched, source, flights, host, history,
    ClientTypeOK, HostTyped, ShownTyped, FlightsTyped, PollTyped, Epochs
<1>4. Belongs'
  BY RefreshJoins, FetchedIsPage DEF Subscribe, Event, Entered, ClientInv, Belongs, Fetched, source, flights, host, history,
    ClientTypeOK, HostTyped, ShownTyped, FlightsTyped, PollTyped, Epochs
<1>5. Remembered'
  BY RefreshJoins, FetchedIsPage DEF Subscribe, Event, Entered, ClientInv, Remembered, Fetched, source, flights, host, history,
    ClientTypeOK, HostTyped, ShownTyped, FlightsTyped, PollTyped, Epochs
<1>6. HintsAreHonoured'
  BY RefreshJoins DEF Subscribe, Event, Entered, ClientInv, HintsAreHonoured, Present, Fetched, source, flights, host, history, audience,
    ClientTypeOK, HostTyped, ShownTyped, FlightsTyped, PollTyped, Epochs
<1> QED
  BY <1>1, <1>2, <1>3, <1>4, <1>5, <1>6 DEF ClientInv

LEMMA UnsubscribeKeeps ==
  ASSUME ClientTypeOK, ClientInv, Unsubscribe
  PROVE  ClientInv'
<1>1. Aged'
  BY FlightTypes, FetchedIsPage DEF Unsubscribe, Forgotten, NoPage, ClientInv, Aged, Fetched, source, flights, host, lane,
    ClientTypeOK, HostTyped, ShownTyped, FlightsTyped, PollTyped, Epochs
<1>2. Severed'
  BY FlightTypes DEF Unsubscribe, Forgotten, NoPage, ClientInv, Severed, Fetched, source, flights
<1>3. Ordered'
  BY FlightTypes, FetchedIsPage DEF Unsubscribe, Forgotten, NoPage, ClientInv, Ordered, Fetched, source, flights, host, history,
    ClientTypeOK, HostTyped, ShownTyped, FlightsTyped, PollTyped, Epochs
<1>4. Belongs'
  BY FlightTypes, FetchedIsPage DEF Unsubscribe, Forgotten, NoPage, ClientInv, Belongs, Fetched, source, flights, host, history,
    ClientTypeOK, HostTyped, ShownTyped, FlightsTyped, PollTyped, Epochs
<1>5. Remembered'
  BY FlightTypes, FetchedIsPage DEF Unsubscribe, Forgotten, NoPage, ClientInv, Remembered, Fetched, source, flights, host, history,
    ClientTypeOK, HostTyped, ShownTyped, FlightsTyped, PollTyped, Epochs
<1>6. HintsAreHonoured'
  BY FlightTypes DEF Unsubscribe, Forgotten, NoPage, ClientInv, HintsAreHonoured, Present, Fetched, source, flights, host, history, audience,
    ClientTypeOK, HostTyped, ShownTyped, FlightsTyped, PollTyped, Epochs
<1> QED
  BY <1>1, <1>2, <1>3, <1>4, <1>5, <1>6 DEF ClientInv

LEMMA RemoveSessionKeeps ==
  ASSUME ClientTypeOK, ClientInv, RemoveSession
  PROVE  ClientInv'
<1>1. Aged'
  BY FlightTypes, FetchedIsPage DEF RemoveSession, Forgotten, NoPage, ClientInv, Aged, Fetched, source, flights, host, lane,
    ClientTypeOK, HostTyped, ShownTyped, FlightsTyped, PollTyped, Epochs
<1>2. Severed'
  BY FlightTypes DEF RemoveSession, Forgotten, NoPage, ClientInv, Severed, Fetched, source, flights
<1>3. Ordered'
  BY FlightTypes, FetchedIsPage DEF RemoveSession, Forgotten, NoPage, ClientInv, Ordered, Fetched, source, flights, host, history,
    ClientTypeOK, HostTyped, ShownTyped, FlightsTyped, PollTyped, Epochs
<1>4. Belongs'
  BY FlightTypes, FetchedIsPage DEF RemoveSession, Forgotten, NoPage, ClientInv, Belongs, Fetched, source, flights, host, history,
    ClientTypeOK, HostTyped, ShownTyped, FlightsTyped, PollTyped, Epochs
<1>5. Remembered'
  BY FlightTypes, FetchedIsPage DEF RemoveSession, Forgotten, NoPage, ClientInv, Remembered, Fetched, source, flights, host, history,
    ClientTypeOK, HostTyped, ShownTyped, FlightsTyped, PollTyped, Epochs
<1>6. HintsAreHonoured'
  BY FlightTypes DEF RemoveSession, Forgotten, NoPage, ClientInv, HintsAreHonoured, Present, Fetched, source, flights, host, history, audience,
    ClientTypeOK, HostTyped, ShownTyped, FlightsTyped, PollTyped, Epochs
<1> QED
  BY <1>1, <1>2, <1>3, <1>4, <1>5, <1>6 DEF ClientInv
LEMMA ClientInvInit == ClientInit => ClientTypeOK /\ ClientInv
<1> SUFFICES ASSUME ClientInit PROVE ClientTypeOK /\ ClientInv
  OBVIOUS
<1>1. ClientTypeOK
  <2>1. HostTyped
    <3>1. epoch \in Epochs \ {0} /\ head \in Nat /\ hint \in Nat /\ events \in Nat
      BY DEF ClientInit, Epochs
    <3> QED
      BY <3>1 DEF ClientInit, HostTyped
  <2>2. ShownTyped /\ FlightsTyped /\ PollTyped
    BY FlightTypes DEF ClientInit, ShownTyped, FlightsTyped, PollTyped
  <2> QED
    BY <2>1, <2>2 DEF ClientTypeOK
<1>2. ClientInv
  BY NoneIsNotFetched DEF ClientInit, NoPage, ClientInv, Aged, Severed, Ordered, Belongs, Remembered, HintsAreHonoured, Present
<1> QED
  BY <1>1, <1>2

LEMMA ClientInvStep == ClientTypeOK /\ ClientInv /\ [ClientNext]_clientVars => ClientInv'
<1> SUFFICES ASSUME ClientTypeOK, ClientInv, [ClientNext]_clientVars PROVE ClientInv'
  OBVIOUS
<1>1. CASE UNCHANGED clientVars
  BY <1>1 DEF clientVars, host, lane, audience, source, flights, history, ClientInv, Aged, Severed, Ordered,
    Belongs, Remembered, HintsAreHonoured, Present
<1>2. CASE ClientNext
  <2>1. CASE Advance \/ Restart \/ ServeList \/ ServePage \/ Fail
    BY <2>1, AdvanceKeeps, RestartKeeps, ServeListKeeps, ServePageKeeps, FailKeeps
  <2>2. CASE BaselineArrives \/ BaselineFails \/ GhostSettles \/ FollowUp \/ Retry
    BY <2>2, BaselineArrivesKeeps, BaselineFailsKeeps, GhostSettlesKeeps, FollowUpKeeps, RetryKeeps
  <2>3. CASE LoadMore \/ PageArrives \/ PageFails \/ Hinted \/ HintedAll \/ PollFires
    BY <2>3, LoadMoreKeeps, PageArrivesKeeps, PageFailsKeeps, HintedKeeps, HintedAllKeeps, PollFiresKeeps
  <2>4. CASE HandleDisconnected \/ HandleReset \/ HandleConnected
    BY <2>4, HandleDisconnectedKeeps, HandleResetKeeps, HandleConnectedKeeps
  <2>5. CASE Observe \/ Unobserve \/ Subscribe \/ Unsubscribe \/ RemoveSession
    BY <2>5, ObserveKeeps, UnobserveKeeps, SubscribeKeeps, UnsubscribeKeeps, RemoveSessionKeeps
  <2> QED
    BY <1>2, <2>1, <2>2, <2>3, <2>4, <2>5 DEF ClientNext
<1> QED
  BY <1>1, <1>2

(* Whatever order hints, answers, failures, reconnections and views come in,
   and however often the host restarts: a hint about the epoch that is shown is
   covered by the last baseline once nothing is in flight (handleChange and
   refreshWithMode, src/client/controller.ts). *)
THEOREM HintsHonoured == ClientSpec => []HintsAreHonoured
<1>1. ClientInv => HintsAreHonoured
  BY DEF ClientInv
<1> QED
  BY <1>1, ClientInvInit, ClientTypeStep, ClientInvStep, PTL DEF ClientSpec

(* A client that is connected and shows a Session never stops polling it: the
   timer is set, or the poll waits for a refresh whose end sets it (schedulePoll,
   pollFlightGeneration, src/client/controller.ts). *)
THEOREM PollStaysArmed == ClientSpec => []PollIsArmed
<1>1. ClientInit => PollIsArmed
  BY DEF ClientInit, PollIsArmed
<1>2. ClientTypeOK /\ PollIsArmed /\ [ClientNext]_clientVars => PollIsArmed'
  <2> SUFFICES ASSUME ClientTypeOK, PollIsArmed, [ClientNext]_clientVars PROVE PollIsArmed'
    OBVIOUS
  <2>1. ASSUME UNCHANGED <<polling, observed, connected>>, list # None => list' # None PROVE PollIsArmed'
    BY <2>1 DEF polling, PollIsArmed
  <2>2. CASE ServeList \/ ServePage \/ Fail
    <3>1. UNCHANGED <<polling, observed, connected>>
      BY <2>2 DEF ServeList, ServePage, Fail, audience
    <3>2. ASSUME NEW a, Sent(list), list' = Answer(list, a) PROVE list' # None
      BY <3>2 DEF Sent, Answer, None, ClientTypeOK, FlightsTyped, ListFlights
    <3> QED
      BY <2>1, <2>2, <3>1, <3>2 DEF ServeList, ServePage, Fail
  <2>3. CASE FollowUp \/ Retry \/ PageFails \/ Hinted \/ HintedAll
    <3>1. UNCHANGED <<polling, observed, connected>>
      BY <2>3 DEF FollowUp, Retry, PageFails, Hinted, HintedAll, audience
    <3>2. UNCHANGED list \/ list' # None
      BY <2>3, RefreshJoins DEF FollowUp, Retry, PageFails, Hinted, HintedAll, Invalidated, ClientTypeOK, FlightsTyped
    <3> QED
      BY <2>1, <3>1, <3>2
  <2>4. CASE Advance \/ Restart \/ GhostSettles \/ LoadMore \/ PageArrives \/ UNCHANGED clientVars
    BY <2>1, <2>4 DEF Advance, Restart, GhostSettles, LoadMore, PageArrives, clientVars, flights, audience
  <2>5. CASE BaselineArrives \/ BaselineFails
    BY <2>5 DEF BaselineArrives, BaselineFails, PollSettled, Scheduled, audience, PollIsArmed
  <2>6. CASE PollFires
    BY <2>6, RefreshJoins DEF PollFires, PollIsArmed, ClientTypeOK, FlightsTyped
  <2>7. CASE HandleDisconnected \/ HandleReset \/ HandleConnected \/ Observe \/ Unobserve \/ RemoveSession
    BY <2>7 DEF HandleDisconnected, HandleReset, HandleConnected, Observe, Unobserve, RemoveSession, Repoll, Scheduled, PollIsArmed
  <2>8. CASE Subscribe \/ Unsubscribe
    <3>1. UNCHANGED <<polling, observed, connected>>
      BY <2>8 DEF Subscribe, Unsubscribe
    <3>2. UNCHANGED list \/ list' # None \/ ~observed
      BY <2>8, RefreshJoins DEF Subscribe, Unsubscribe, Entered, flights, ClientTypeOK, FlightsTyped
    <3> QED
      BY <3>1, <3>2 DEF polling, PollIsArmed
  <2> QED
    BY <2>2, <2>3, <2>4, <2>5, <2>6, <2>7, <2>8 DEF ClientNext
<1> QED
  BY <1>1, <1>2, ClientInvInit, ClientTypeStep, PTL DEF ClientSpec

-----------------------------------------------------------------------------
(* DefinitionSave: types. *)
Stages == {"begin", "reread", "stage", "wait", "locked", "linked", "exchange", "exchanged",
           "restore", "restored", "published", "ended"}
Versions == [inode : Inodes, bytes : Inodes, changed : Nat]
SaveOutcomes == {"none", "refused", "aborted", "stale", "failed", "retained", "saved", "died"}
SaveTypeOK ==
  /\ entry \in Inodes \cup {NoInode} /\ staged \in [Savers -> Inodes \cup {NoInode}]
  /\ bytes \in [Inodes -> Inodes] /\ changed \in [Inodes -> Nat]
  /\ stage \in [Savers -> Stages] /\ current \in [Savers -> Versions \cup {Missing}]
  /\ publisher \in Savers \cup {Nobody} /\ outcome \in [Savers -> SaveOutcomes]
  /\ destroyed \in [Savers -> SUBSET Inodes] /\ overtaken \in SUBSET Savers
  /\ edits \in 0 .. MaxEdits

(* The publishers' lock is held from its acquisition to the save's end. *)
Publishing == {"locked", "linked", "exchange", "exchanged", "restore", "restored", "published"}
LockHeld == \A s \in Savers : stage[s] \in Publishing <=> publisher = s

(* An inode has one name, but while a save links it or when it died there. *)
Named(i) == i # NoInode /\ (entry = i \/ \E s \in Savers : staged[s] = i)
OneName ==
  /\ \A s, t \in Savers : staged[s] = staged[t] /\ staged[s] # NoInode => s = t
  /\ \A s \in Savers : staged[s] = entry /\ entry # NoInode =>
       staged[s] = s /\ stage[s] \in {"linked", "ended"}
  /\ \A s, t \in Savers :
       stage[s] \in {"exchange", "exchanged", "restore", "restored"} /\ entry # NoInode => staged[t] # entry

(* What an inode holds is in no other, unless it was written by an edit that
   created no inode; what is still to be created has no name. *)
OneHolder ==
  /\ \A i \in Inodes, t \in Savers : bytes[i] = t => i = t
  /\ \A i \in Inodes, k \in edits + 1 .. MaxEdits : bytes[i] = k => i = k
  /\ \A k \in edits + 1 .. MaxEdits : ~Named(k)
  /\ \A i, j \in Inodes : Named(i) /\ Named(j) /\ bytes[i] = bytes[j] => i = j

(* The inode a save has created, and what it holds of it. *)
Begun(s) == stage[s] \notin {"begin", "reread", "stage"}
Alone(s) == entry # s /\ \A t \in Savers \ {s} : staged[t] # s
Owns(s) ==
  /\ ~Begun(s) => staged[s] = NoInode /\ Alone(s) /\ bytes[s] = s /\ outcome[s] = "none"
  /\ stage[s] \in {"wait", "locked", "exchange"} => staged[s] = s /\ Alone(s) /\ bytes[s] = s
  /\ stage[s] = "linked" => staged[s] = s /\ \A t \in Savers \ {s} : staged[t] # s
  /\ stage[s] \in {"exchanged", "restore"} =>
       current[s] # Missing /\ staged[s] \notin {s, NoInode} /\ \A t \in Savers : staged[t] # s
  /\ stage[s] = "exchange" => current[s] # Missing
  /\ stage[s] = "restored" =>
       /\ staged[s] # NoInode
       /\ bytes[s] = s => Alone(s)
       /\ s \notin overtaken => staged[s] = s /\ bytes[s] = s
  /\ stage[s] = "published" => \A t \in Savers : staged[t] # s
  /\ stage[s] = "published" => staged[s] = NoInode
  /\ stage[s] # "ended" => outcome[s] = "none"
  /\ stage[s] \notin {"ended", "published"} => destroyed[s] = {}
  /\ stage[s] \notin {"restored", "ended"} => s \notin overtaken

(* What was removed from the disk is in no inode that has a name. *)
Destroyed ==
  /\ \A s \in Savers, b \in Inodes : b \in destroyed[s] =>
       /\ \A i \in Inodes : Named(i) => bytes[i] # b
       /\ b \in Savers => Begun(b)
       /\ b \notin edits + 1 .. MaxEdits
       /\ \A t \in Savers : b \in destroyed[t] => s = t
       /\ b = s \/ s \in overtaken \/ (current[s] # Missing /\ b = current[s].bytes)

(* A save that failed has left its bytes nowhere. *)
Failed == {"refused", "aborted", "stale", "retained"}
Withdrawn == \A s \in Savers : outcome[s] \in Failed => \A i \in Inodes : Named(i) => bytes[i] # s

Owned == \A s \in Savers : Owns(s)
SaveInv == LockHeld /\ OneName /\ OneHolder /\ Owned /\ Destroyed /\ Withdrawn

-----------------------------------------------------------------------------
(* DefinitionSave: lemmas. *)
LEMMA SaveConstants ==
  /\ MaxEdits \in Nat
  /\ NoInode \notin Inodes /\ Nobody \notin Savers
  /\ \A k \in 0 .. MaxEdits : k \in Inodes /\ k \notin Savers
  /\ \A s \in Savers : s \in Inodes /\ s # NoInode
BY SaveAssumption DEF Inodes, NoInode, Nobody

LEMMA MissingIsNone == \A v \in Versions : v # Missing
BY SaveConstants DEF Versions, Missing

(* Names counts what Named speaks of. *)
LEMMA NamesCount ==
  ASSUME SaveTypeOK, OneName, NEW i \in Inodes
  PROVE  Names(i) = 1 <=> (entry = i <=> \A s \in Savers : staged[s] # i)
<1> DEFINE S == {s \in Savers : staged[s] = i}
<1>0. i # NoInode
  BY SaveConstants
<1>1. CASE S = {}
  <2>1. Cardinality(S) = 0
    BY <1>1, FS_EmptySet
  <2>2. \A s \in Savers : staged[s] # i
    BY <1>1
  <2> QED
    BY <2>1, <2>2 DEF Names
<1>2. CASE S # {}
  <2>1. PICK s \in Savers : staged[s] = i
    BY <1>2
  <2>2. S = {s}
    BY <1>0, <2>1 DEF OneName
  <2>3. Cardinality(S) = 1
    BY <2>2, FS_Singleton
  <2> QED
    BY <2>1, <2>3 DEF Names
<1> QED
  BY <1>1, <1>2

LEMMA RegularIsAlone ==
  ASSUME SaveTypeOK, OneName
  PROVE  Regular <=> entry # NoInode /\ \A s \in Savers : staged[s] # entry
<1>1. CASE entry = NoInode
  BY <1>1 DEF Regular
<1>2. CASE entry # NoInode
  <2>1. entry \in Inodes
    BY <1>2 DEF SaveTypeOK
  <2> QED
    BY <1>2, <2>1, NamesCount DEF Regular
<1> QED
  BY <1>1, <1>2
-----------------------------------------------------------------------------
(* DefinitionSave: every step keeps the types. *)
LEMMA VersionType == ASSUME SaveTypeOK, entry # NoInode PROVE entry \in Inodes /\ Version(entry) \in Versions
BY DEF SaveTypeOK, Version, Versions

LEMMA TouchedType == ASSUME SaveTypeOK, NEW S, Touched(S) PROVE changed' \in [Inodes -> Nat]
BY DEF SaveTypeOK, Touched

LEMMA EndType ==
  ASSUME SaveTypeOK, NEW s \in Savers, NEW how \in SaveOutcomes, NEW keeps \in BOOLEAN, End(s, how, keeps)
  PROVE  SaveTypeOK'
<1>1. changed' \in [Inodes -> Nat]
  BY TouchedType DEF End, SaveTypeOK
<1>2. staged' \in [Savers -> Inodes \cup {NoInode}] /\ stage' \in [Savers -> Stages]
  BY DEF End, Goto, SaveTypeOK, Stages
<1>3. destroyed' \in [Savers -> SUBSET Inodes]
  BY DEF End, SaveTypeOK
<1>4. publisher' \in Savers \cup {Nobody} /\ outcome' \in [Savers -> SaveOutcomes]
  BY DEF End, SaveTypeOK
<1> QED
  BY <1>1, <1>2, <1>3, <1>4 DEF End, SaveTypeOK

LEMMA EditType == ASSUME SaveTypeOK, Edit PROVE SaveTypeOK'
<1>1. edits + 1 \in Inodes /\ edits' \in 0 .. MaxEdits
  BY SaveConstants DEF Edit, SaveTypeOK
<1>2. changed' \in [Inodes -> Nat]
  BY TouchedType DEF Edit, SaveTypeOK
<1> QED
  BY <1>1, <1>2 DEF Edit, SaveTypeOK

LEMMA SaveTypeStep == SaveTypeOK /\ (\A s \in Savers : Owns(s)) /\ [SaveNext]_saveVars => SaveTypeOK'
<1> SUFFICES ASSUME SaveTypeOK, \A s \in Savers : Owns(s), [SaveNext]_saveVars PROVE SaveTypeOK'
  OBVIOUS
<1> USE DEF Goto
<1>1. ASSUME NEW s \in Savers, Sight(s) PROVE SaveTypeOK'
  BY <1>1, VersionType DEF Sight, Regular, SaveTypeOK, files, Stages, SaveOutcomes
<1>2. ASSUME NEW s \in Savers, Reread(s) PROVE SaveTypeOK'
  BY <1>2 DEF Reread, SaveTypeOK, files, Stages, SaveOutcomes
<1>3. ASSUME NEW s \in Savers, Stage(s) PROVE SaveTypeOK'
  BY <1>3, SaveConstants DEF Stage, SaveTypeOK, Stages
<1>4. ASSUME NEW s \in Savers, AbortSave(s) PROVE SaveTypeOK'
  BY <1>4, EndType DEF AbortSave, SaveOutcomes
<1>5. ASSUME NEW s \in Savers, Lock(s) PROVE SaveTypeOK'
  BY <1>5 DEF Lock, SaveTypeOK, files, Stages
<1>6. ASSUME NEW s \in Savers, Link(s) PROVE SaveTypeOK'
  <2>1. CASE End(s, "stale", FALSE)
    BY <2>1, EndType DEF SaveOutcomes
  <2>2. CASE entry' = staged[s] /\ Touched({staged[s]}) /\ Goto(s, "linked")
             /\ UNCHANGED <<staged, bytes, current, publisher, outcome, destroyed, overtaken, edits>>
    BY <2>2, TouchedType DEF SaveTypeOK, Stages
  <2> QED
    BY <1>6, <2>1, <2>2 DEF Link
<1>7. ASSUME NEW s \in Savers, Unlink(s) PROVE SaveTypeOK'
  BY <1>7, TouchedType DEF Unlink, SaveTypeOK, Stages
<1>8. ASSUME NEW s \in Savers, Compare(s) PROVE SaveTypeOK'
  <2>1. CASE End(s, "stale", FALSE)
    BY <2>1, EndType DEF SaveOutcomes
  <2>2. CASE Goto(s, "exchange") /\ UNCHANGED <<files, current, publisher, outcome, destroyed, overtaken, edits>>
    BY <2>2 DEF SaveTypeOK, files, Stages
  <2> QED
    BY <1>8, <2>1, <2>2 DEF Compare
<1>9. ASSUME NEW s \in Savers, Exchange(s) PROVE SaveTypeOK'
  <2>1. CASE End(s, "failed", FALSE)
    BY <2>1, EndType DEF SaveOutcomes
  <2>2. CASE Swap(s) /\ Goto(s, "exchanged")
             /\ UNCHANGED <<bytes, current, publisher, outcome, destroyed, overtaken, edits>>
    BY <2>2, TouchedType DEF Swap, SaveTypeOK, Stages
  <2> QED
    BY <1>9, <2>1, <2>2 DEF Exchange
<1>10. ASSUME NEW s \in Savers, Verify(s) PROVE SaveTypeOK'
  <2>1. CASE End(s, "retained", TRUE)
    BY <2>1, EndType DEF SaveOutcomes
  <2>2. CASE Goto(s, "restore") /\ UNCHANGED <<files, current, publisher, outcome, destroyed, overtaken, edits>>
    BY <2>2 DEF SaveTypeOK, files, Stages
  <2>3. CASE TakenAsSeen(s)
    <3>1. staged[s] \in Inodes
      BY <1>10 DEF Verify, Owns, SaveTypeOK
    <3> QED
      BY <1>10, <2>3, <3>1, TouchedType DEF Verify, SaveTypeOK, Stages
  <2> QED
    BY <1>10, <2>1, <2>2, <2>3 DEF Verify
<1>11. ASSUME NEW s \in Savers, Restore(s) PROVE SaveTypeOK'
  <2>1. CASE End(s, "retained", TRUE)
    BY <2>1, EndType DEF SaveOutcomes
  <2>2. CASE Swap(s) /\ Goto(s, "restored") /\ UNCHANGED <<bytes, current, publisher, outcome, destroyed, edits>>
             /\ overtaken' \in {overtaken, overtaken \cup {s}}
    BY <2>2, TouchedType DEF Swap, SaveTypeOK, Stages
  <2> QED
    BY <1>11, <2>1, <2>2 DEF Restore
<1>12. ASSUME NEW s \in Savers, Restored(s) PROVE SaveTypeOK'
  BY <1>12, EndType DEF Restored, SaveOutcomes
<1>13. ASSUME NEW s \in Savers, Confirm(s) PROVE SaveTypeOK'
  BY <1>13, EndType DEF Confirm, SaveOutcomes
<1>14. ASSUME NEW s \in Savers, Die(s) PROVE SaveTypeOK'
  BY <1>14 DEF Die, SaveTypeOK, files, Stages, SaveOutcomes
<1>15. CASE UNCHANGED saveVars
  BY <1>15 DEF saveVars, files, SaveTypeOK
<1> QED
  BY <1>1, <1>2, <1>3, <1>4, <1>5, <1>6, <1>7, <1>8, <1>9, <1>10, <1>11, <1>12, <1>13, <1>14, <1>15, EditType
     DEF SaveNext

(* A step that writes no inode and gives no new one a name disturbs nothing of
   what the inodes hold. *)
LEMMA HoldersKept ==
  ASSUME SaveTypeOK, OneHolder, UNCHANGED <<bytes, edits>>,
         \A i \in Inodes : Named(i)' => Named(i)
  PROVE  OneHolder'
<1>1. \A k \in edits + 1 .. MaxEdits : k \in Inodes
  BY SaveConstants DEF SaveTypeOK
<1> QED
  BY <1>1 DEF OneHolder

(* Two names that change places name the same inodes. *)
LEMMA SwapNames ==
  ASSUME SaveTypeOK, NEW s \in Savers, Swap(s)
  PROVE  \A i \in Inodes : Named(i)' <=> Named(i)
<1>1. entry' = staged[s] /\ staged'[s] = entry /\ \A t \in Savers \ {s} : staged'[t] = staged[t]
  BY DEF Swap, SaveTypeOK
<1> QED
  BY <1>1 DEF Named

(* Removing an inode's last name takes what it holds off the disk. *)
LEMMA Removed ==
  ASSUME SaveTypeOK, SaveInv, NEW s \in Savers, NEW i \in Inodes, Named(i), ~Named(i)',
         \A j \in Inodes : Named(j)' => Named(j),
         UNCHANGED <<bytes, current, overtaken, edits>>,
         destroyed' = [destroyed EXCEPT ![s] = @ \cup {bytes[i]}],
         NEW to \in {"published", "ended"}, stage' = [stage EXCEPT ![s] = to],
         \/ bytes[i] = s \/ s \in overtaken
         \/ current[s] # Missing /\ bytes[i] = current[s].bytes
  PROVE  Destroyed'
<1>1. \A j \in Inodes : Named(j)' => bytes[j] # bytes[i]
  BY DEF SaveInv, OneHolder
<1>2. bytes[i] \in Savers => Begun(bytes[i])
  BY DEF SaveInv, OneHolder, Owned, Owns, Alone, Named
<1>3. bytes[i] \notin edits + 1 .. MaxEdits
  BY DEF SaveInv, OneHolder
<1>4. \A t \in Savers : bytes[i] \notin destroyed[t]
  BY DEF SaveInv, SaveTypeOK, Destroyed
<1>5. \A t \in Savers : Begun(t) => Begun(t)'
  BY DEF SaveTypeOK, Begun
<1>6. \A t \in Savers : destroyed'[t] = IF t = s THEN destroyed[s] \cup {bytes[i]} ELSE destroyed[t]
  BY DEF SaveTypeOK
<1> SUFFICES ASSUME NEW t \in Savers, NEW b \in Inodes, b \in destroyed'[t]
             PROVE  /\ \A j \in Inodes : Named(j)' => bytes'[j] # b
                    /\ b \in Savers => Begun(b)'
                    /\ b \notin edits' + 1 .. MaxEdits
                    /\ \A u \in Savers : b \in destroyed'[u] => t = u
                    /\ b = t \/ t \in overtaken' \/ (current'[t] # Missing /\ b = current'[t].bytes)
  BY DEF Destroyed
<1>7. CASE t = s /\ b = bytes[i]
  BY <1>1, <1>2, <1>3, <1>4, <1>5, <1>6, <1>7
<1>8. CASE b \in destroyed[t]
  <2>1. b # bytes[i]
    BY <1>4, <1>8
  <2> QED
    BY <1>5, <1>6, <1>8, <2>1 DEF SaveInv, Destroyed
<1> QED
  BY <1>6, <1>7, <1>8

LEMMA SightKeeps ==
  ASSUME SaveTypeOK, SaveInv, NEW s \in Savers, Sight(s)
  PROVE  SaveInv'
<1>0. /\ stage[s] = "begin" /\ \E to \in {"stage", "reread", "ended"} : stage' = [stage EXCEPT ![s] = to]
      /\ \E c \in Versions \cup {Missing} : current' = [current EXCEPT ![s] = c]
      /\ \/ UNCHANGED outcome
         \/ stage'[s] = "ended" /\ outcome' = [outcome EXCEPT ![s] = "refused"]
      /\ stage'[s] # "ended" => UNCHANGED outcome
      /\ UNCHANGED <<entry, staged, bytes, publisher, destroyed, overtaken, edits>>
  BY SaveConstants DEF Sight, Goto, files, Version, Versions, Regular, SaveTypeOK
<1>1. LockHeld'
  BY <1>0, SaveConstants DEF SaveInv, SaveTypeOK, Stages, LockHeld, Publishing
<1>2. OneName'
  BY <1>0, SaveConstants DEF SaveInv, SaveTypeOK, OneName, Owned, Owns, Alone, LockHeld, Publishing
<1>n. (\A i \in Inodes : Named(i)' => Named(i)) /\ UNCHANGED <<bytes, edits>>
  BY <1>0, SaveConstants DEF SaveInv, SaveTypeOK, Named
<1>3. OneHolder'
  BY <1>n, HoldersKept DEF SaveInv
<1>4. Owned'
  BY <1>0, SaveConstants DEF SaveInv, SaveTypeOK, Stages, OneName, Owned, Owns, Alone, Begun, LockHeld, Publishing
<1>5. Destroyed'
  BY <1>0, <1>n, SaveConstants DEF SaveInv, SaveTypeOK, Stages, Owned, Owns, Destroyed, Begun
<1>6. Withdrawn'
  BY <1>0, <1>n, SaveConstants DEF SaveInv, SaveTypeOK, OneHolder, Owned, Owns, Alone, Begun, Named,
    Withdrawn, Failed
<1> QED
  BY <1>1, <1>2, <1>3, <1>4, <1>5, <1>6 DEF SaveInv

LEMMA RereadKeeps ==
  ASSUME SaveTypeOK, SaveInv, NEW s \in Savers, Reread(s)
  PROVE  SaveInv'
<1>0. /\ stage[s] = "reread" /\ \E to \in {"stage", "ended"} : stage' = [stage EXCEPT ![s] = to]
      /\ \/ UNCHANGED outcome
         \/ stage'[s] = "ended" /\ outcome' = [outcome EXCEPT ![s] = "stale"]
      /\ stage'[s] # "ended" => UNCHANGED outcome
      /\ UNCHANGED <<entry, staged, bytes, current, publisher, destroyed, overtaken, edits>>
  BY SaveConstants DEF Reread, Goto, files, SaveTypeOK
<1>1. LockHeld'
  BY <1>0, SaveConstants DEF SaveInv, SaveTypeOK, Stages, LockHeld, Publishing
<1>2. OneName'
  BY <1>0, SaveConstants DEF SaveInv, SaveTypeOK, OneName, Owned, Owns, Alone, LockHeld, Publishing
<1>n. (\A i \in Inodes : Named(i)' => Named(i)) /\ UNCHANGED <<bytes, edits>>
  BY <1>0, SaveConstants DEF SaveInv, SaveTypeOK, Named
<1>3. OneHolder'
  BY <1>n, HoldersKept DEF SaveInv
<1>4. Owned'
  BY <1>0, SaveConstants DEF SaveInv, SaveTypeOK, Stages, OneName, Owned, Owns, Alone, Begun, LockHeld, Publishing
<1>5. Destroyed'
  BY <1>0, <1>n, SaveConstants DEF SaveInv, SaveTypeOK, Stages, Owned, Owns, Destroyed, Begun
<1>6. Withdrawn'
  BY <1>0, <1>n, SaveConstants DEF SaveInv, SaveTypeOK, OneHolder, Owned, Owns, Alone, Begun, Named,
    Withdrawn, Failed
<1> QED
  BY <1>1, <1>2, <1>3, <1>4, <1>5, <1>6 DEF SaveInv

LEMMA LockKeeps ==
  ASSUME SaveTypeOK, SaveInv, NEW s \in Savers, Lock(s)
  PROVE  SaveInv'
<1>0. /\ stage[s] = "wait" /\ stage' = [stage EXCEPT ![s] = "locked"]
      /\ publisher = Nobody /\ publisher' = s
      /\ UNCHANGED <<entry, staged, bytes, current, outcome, destroyed, overtaken, edits>>
  BY SaveConstants DEF Lock, Goto, files
<1>1. LockHeld'
  BY <1>0, SaveConstants DEF SaveInv, SaveTypeOK, Stages, LockHeld, Publishing
<1>2. OneName'
  BY <1>0, SaveConstants DEF SaveInv, SaveTypeOK, OneName, Owned, Owns, Alone, LockHeld, Publishing
<1>n. (\A i \in Inodes : Named(i)' => Named(i)) /\ UNCHANGED <<bytes, edits>>
  BY <1>0, SaveConstants DEF SaveInv, SaveTypeOK, Named
<1>3. OneHolder'
  BY <1>n, HoldersKept DEF SaveInv
<1>4. Owned'
  BY <1>0, SaveConstants DEF SaveInv, SaveTypeOK, Stages, OneName, Owned, Owns, Alone, Begun, LockHeld, Publishing
<1>5. Destroyed'
  BY <1>0, <1>n, SaveConstants DEF SaveInv, SaveTypeOK, Stages, Destroyed, Begun
<1>6. Withdrawn'
  BY <1>0, <1>n, SaveConstants DEF SaveInv, SaveTypeOK, Withdrawn, Failed
<1> QED
  BY <1>1, <1>2, <1>3, <1>4, <1>5, <1>6 DEF SaveInv

LEMMA LinkKeeps ==
  ASSUME SaveTypeOK, SaveInv, NEW s \in Savers, Link(s), entry = NoInode
  PROVE  SaveInv'
<1>0. /\ stage[s] = "locked" /\ stage' = [stage EXCEPT ![s] = "linked"]
      /\ entry' = staged[s] /\ UNCHANGED <<staged, bytes, current, publisher, outcome, destroyed, overtaken, edits>>
  BY SaveConstants DEF Link, Goto
<1>1. LockHeld'
  BY <1>0, SaveConstants DEF SaveInv, SaveTypeOK, Stages, LockHeld, Publishing
<1>2. OneName'
  BY <1>0, SaveConstants DEF SaveInv, SaveTypeOK, OneName, Owned, Owns, Alone, LockHeld, Publishing
<1>n. (\A i \in Inodes : Named(i)' => Named(i)) /\ UNCHANGED <<bytes, edits>>
  BY <1>0, SaveConstants DEF SaveInv, SaveTypeOK, Named
<1>3. OneHolder'
  BY <1>n, HoldersKept DEF SaveInv
<1>4. Owned'
  BY <1>0, SaveConstants DEF SaveInv, SaveTypeOK, Stages, OneName, Owned, Owns, Alone, Begun, LockHeld, Publishing
<1>5. Destroyed'
  BY <1>0, <1>n, SaveConstants DEF SaveInv, SaveTypeOK, Stages, Destroyed, Begun
<1>6. Withdrawn'
  BY <1>0, <1>n, SaveConstants DEF SaveInv, SaveTypeOK, Withdrawn, Failed
<1> QED
  BY <1>1, <1>2, <1>3, <1>4, <1>5, <1>6 DEF SaveInv

LEMMA UnlinkKeeps ==
  ASSUME SaveTypeOK, SaveInv, NEW s \in Savers, Unlink(s)
  PROVE  SaveInv'
<1>0. /\ stage[s] = "linked" /\ stage' = [stage EXCEPT ![s] = "published"]
      /\ staged' = [staged EXCEPT ![s] = NoInode] /\ UNCHANGED <<entry, bytes, current, publisher, outcome, destroyed, overtaken, edits>>
  BY SaveConstants DEF Unlink, Goto
<1>1. LockHeld'
  BY <1>0, SaveConstants DEF SaveInv, SaveTypeOK, Stages, LockHeld, Publishing
<1>2. OneName'
  BY <1>0, SaveConstants DEF SaveInv, SaveTypeOK, OneName, Owned, Owns, Alone, LockHeld, Publishing
<1>n. (\A i \in Inodes : Named(i)' => Named(i)) /\ UNCHANGED <<bytes, edits>>
  BY <1>0, SaveConstants DEF SaveInv, SaveTypeOK, Named
<1>3. OneHolder'
  BY <1>n, HoldersKept DEF SaveInv
<1>4. Owned'
  BY <1>0, SaveConstants DEF SaveInv, SaveTypeOK, Stages, OneName, Owned, Owns, Alone, Begun, LockHeld, Publishing
<1>5. Destroyed'
  BY <1>0, <1>n, SaveConstants DEF SaveInv, SaveTypeOK, Stages, Destroyed, Begun
<1>6. Withdrawn'
  BY <1>0, <1>n, SaveConstants DEF SaveInv, SaveTypeOK, Withdrawn, Failed
<1> QED
  BY <1>1, <1>2, <1>3, <1>4, <1>5, <1>6 DEF SaveInv

LEMMA CompareKeeps ==
  ASSUME SaveTypeOK, SaveInv, NEW s \in Savers, Compare(s), SameVersion(s)
  PROVE  SaveInv'
<1>0. /\ stage[s] = "locked" /\ stage' = [stage EXCEPT ![s] = "exchange"]
      /\ current[s] # Missing /\ \A t \in Savers : staged[t] # entry
      /\ UNCHANGED <<entry, staged, bytes, current, publisher, outcome, destroyed, overtaken, edits>>
  BY SaveConstants, RegularIsAlone DEF Compare, SameVersion, Goto, files, SaveInv
<1>1. LockHeld'
  BY <1>0, SaveConstants DEF SaveInv, SaveTypeOK, Stages, LockHeld, Publishing
<1>2. OneName'
  BY <1>0, SaveConstants DEF SaveInv, SaveTypeOK, OneName, Owned, Owns, Alone, LockHeld, Publishing
<1>n. (\A i \in Inodes : Named(i)' => Named(i)) /\ UNCHANGED <<bytes, edits>>
  BY <1>0, SaveConstants DEF SaveInv, SaveTypeOK, Named
<1>3. OneHolder'
  BY <1>n, HoldersKept DEF SaveInv
<1>4. Owned'
  BY <1>0, SaveConstants DEF SaveInv, SaveTypeOK, Stages, OneName, Owned, Owns, Alone, Begun, LockHeld, Publishing
<1>5. Destroyed'
  BY <1>0, <1>n, SaveConstants DEF SaveInv, SaveTypeOK, Stages, Destroyed, Begun
<1>6. Withdrawn'
  BY <1>0, <1>n, SaveConstants DEF SaveInv, SaveTypeOK, Withdrawn, Failed
<1> QED
  BY <1>1, <1>2, <1>3, <1>4, <1>5, <1>6 DEF SaveInv

LEMMA ExchangeKeeps ==
  ASSUME SaveTypeOK, SaveInv, NEW s \in Savers, Exchange(s), entry # NoInode
  PROVE  SaveInv'
<1>0. /\ stage[s] = "exchange" /\ stage' = [stage EXCEPT ![s] = "exchanged"]
      /\ entry' = staged[s] /\ staged' = [staged EXCEPT ![s] = entry]
      /\ UNCHANGED <<bytes, current, publisher, outcome, destroyed, overtaken, edits>>
  BY SaveConstants DEF Exchange, Swap, Goto
<1>1. LockHeld'
  BY <1>0, SaveConstants DEF SaveInv, SaveTypeOK, Stages, LockHeld, Publishing
<1>2. OneName'
  BY <1>0, SaveConstants DEF SaveInv, SaveTypeOK, OneName, Owned, Owns, Alone, LockHeld, Publishing
<1>n. (\A i \in Inodes : Named(i)' => Named(i)) /\ UNCHANGED <<bytes, edits>>
  BY <1>0, SaveConstants DEF SaveInv, SaveTypeOK, Named
<1>3. OneHolder'
  BY <1>n, HoldersKept DEF SaveInv
<1>4. Owned'
  BY <1>0, SaveConstants DEF SaveInv, SaveTypeOK, Stages, OneName, Owned, Owns, Alone, Begun, LockHeld, Publishing
<1>5. Destroyed'
  BY <1>0, <1>n, SaveConstants DEF SaveInv, SaveTypeOK, Stages, Destroyed, Begun
<1>6. Withdrawn'
  BY <1>0, <1>n, SaveConstants DEF SaveInv, SaveTypeOK, Withdrawn, Failed
<1> QED
  BY <1>1, <1>2, <1>3, <1>4, <1>5, <1>6 DEF SaveInv

LEMMA VerifyTakenKeeps ==
  ASSUME SaveTypeOK, SaveInv, NEW s \in Savers, Verify(s), TakenAsSeen(s)
  PROVE  SaveInv'
<1>0. /\ stage[s] = "exchanged" /\ stage' = [stage EXCEPT ![s] = "published"]
      /\ staged' = [staged EXCEPT ![s] = NoInode]
      /\ destroyed' = [destroyed EXCEPT ![s] = @ \cup {bytes[staged[s]]}]
      /\ bytes[staged[s]] = current[s].bytes
      /\ UNCHANGED <<entry, bytes, current, publisher, outcome, overtaken, edits>>
  BY SaveConstants DEF Verify, TakenAsSeen, Goto
<1>1. LockHeld'
  BY <1>0, SaveConstants DEF SaveInv, SaveTypeOK, Stages, LockHeld, Publishing
<1>2. OneName'
  BY <1>0, SaveConstants DEF SaveInv, SaveTypeOK, OneName, Owned, Owns, Alone, LockHeld, Publishing
<1>n. (\A i \in Inodes : Named(i)' => Named(i)) /\ UNCHANGED <<bytes, edits>>
  BY <1>0, SaveConstants DEF SaveInv, SaveTypeOK, Named
<1>3. OneHolder'
  BY <1>n, HoldersKept DEF SaveInv
<1>4. Owned'
  BY <1>0, SaveConstants DEF SaveInv, SaveTypeOK, Stages, OneName, Owned, Owns, Alone, Begun, LockHeld, Publishing
<1>5. Destroyed'
  <2>1. PICK i \in Inodes : i = staged[s]
    BY <1>0, SaveConstants DEF SaveInv, SaveTypeOK, Owned, Owns
  <2>2. Named(i) /\ ~Named(i)' /\ current[s] # Missing /\ bytes[i] = current[s].bytes
    BY <1>0, <2>1, SaveConstants DEF SaveInv, SaveTypeOK, OneName, Owned, Owns, Named
  <2>3. destroyed' = [destroyed EXCEPT ![s] = @ \cup {bytes[i]}]
    BY <1>0, <2>1
  <2> QED
    BY <1>0, <1>n, <2>2, <2>3, Removed
<1>6. Withdrawn'
  BY <1>0, <1>n, SaveConstants DEF SaveInv, SaveTypeOK, Withdrawn, Failed
<1> QED
  BY <1>1, <1>2, <1>3, <1>4, <1>5, <1>6 DEF SaveInv

LEMMA VerifyOtherKeeps ==
  ASSUME SaveTypeOK, SaveInv, NEW s \in Savers, Verify(s), ~TakenAsSeen(s), Goto(s, "restore")
  PROVE  SaveInv'
<1>0. /\ stage[s] = "exchanged" /\ stage' = [stage EXCEPT ![s] = "restore"]
      /\ UNCHANGED <<entry, staged, bytes, current, publisher, outcome, destroyed, overtaken, edits>>
  BY SaveConstants DEF Verify, Goto, End, files, SaveTypeOK
<1>1. LockHeld'
  BY <1>0, SaveConstants DEF SaveInv, SaveTypeOK, Stages, LockHeld, Publishing
<1>2. OneName'
  BY <1>0, SaveConstants DEF SaveInv, SaveTypeOK, OneName, Owned, Owns, Alone, LockHeld, Publishing
<1>n. (\A i \in Inodes : Named(i)' => Named(i)) /\ UNCHANGED <<bytes, edits>>
  BY <1>0, SaveConstants DEF SaveInv, SaveTypeOK, Named
<1>3. OneHolder'
  BY <1>n, HoldersKept DEF SaveInv
<1>4. Owned'
  BY <1>0, SaveConstants DEF SaveInv, SaveTypeOK, Stages, OneName, Owned, Owns, Alone, Begun, LockHeld, Publishing
<1>5. Destroyed'
  BY <1>0, <1>n, SaveConstants DEF SaveInv, SaveTypeOK, Stages, Destroyed, Begun
<1>6. Withdrawn'
  BY <1>0, <1>n, SaveConstants DEF SaveInv, SaveTypeOK, Withdrawn, Failed
<1> QED
  BY <1>1, <1>2, <1>3, <1>4, <1>5, <1>6 DEF SaveInv

LEMMA RestoreKeeps ==
  ASSUME SaveTypeOK, SaveInv, NEW s \in Savers, Restore(s), entry # NoInode
  PROVE  SaveInv'
<1>0. /\ stage[s] = "restore" /\ stage' = [stage EXCEPT ![s] = "restored"]
      /\ entry' = staged[s] /\ staged' = [staged EXCEPT ![s] = entry]
      /\ overtaken' = IF entry = s /\ bytes[s] = s THEN overtaken ELSE overtaken \cup {s}
      /\ UNCHANGED <<bytes, current, publisher, outcome, destroyed, edits>>
  BY SaveConstants DEF Restore, Swap, Goto
<1>1. LockHeld'
  BY <1>0, SaveConstants DEF SaveInv, SaveTypeOK, Stages, LockHeld, Publishing
<1>2. OneName'
  BY <1>0, SaveConstants DEF SaveInv, SaveTypeOK, OneName, Owned, Owns, Alone, LockHeld, Publishing
<1>n. (\A i \in Inodes : Named(i)' => Named(i)) /\ UNCHANGED <<bytes, edits>>
  BY <1>0, SaveConstants DEF SaveInv, SaveTypeOK, Named
<1>3. OneHolder'
  BY <1>n, HoldersKept DEF SaveInv
<1>4. Owned'
  BY <1>0, SaveConstants DEF SaveInv, SaveTypeOK, Stages, OneName, Owned, Owns, Alone, Begun, LockHeld, Publishing
<1>5. Destroyed'
  BY <1>0, <1>n, SaveConstants DEF SaveInv, SaveTypeOK, Stages, Destroyed, Begun
<1>6. Withdrawn'
  BY <1>0, <1>n, SaveConstants DEF SaveInv, SaveTypeOK, Withdrawn, Failed
<1> QED
  BY <1>1, <1>2, <1>3, <1>4, <1>5, <1>6 DEF SaveInv

LEMMA DieKeeps ==
  ASSUME SaveTypeOK, SaveInv, NEW s \in Savers, Die(s)
  PROVE  SaveInv'
<1>0. /\ stage[s] \notin {"begin", "ended"} /\ stage' = [stage EXCEPT ![s] = "ended"]
      /\ outcome' = [outcome EXCEPT ![s] = "died"]
      /\ publisher' = IF publisher = s THEN Nobody ELSE publisher
      /\ UNCHANGED <<entry, staged, bytes, current, destroyed, overtaken, edits>>
  BY SaveConstants DEF Die, Goto, files
<1>1. LockHeld'
  BY <1>0, SaveConstants DEF SaveInv, SaveTypeOK, Stages, LockHeld, Publishing
<1>2. OneName'
  BY <1>0, SaveConstants DEF SaveInv, SaveTypeOK, OneName, Owned, Owns, Alone, LockHeld, Publishing
<1>n. (\A i \in Inodes : Named(i)' => Named(i)) /\ UNCHANGED <<bytes, edits>>
  BY <1>0, SaveConstants DEF SaveInv, SaveTypeOK, Named
<1>3. OneHolder'
  BY <1>n, HoldersKept DEF SaveInv
<1>4. Owned'
  BY <1>0, SaveConstants DEF SaveInv, SaveTypeOK, Stages, OneName, Owned, Owns, Alone, Begun, LockHeld, Publishing
<1>5. Destroyed'
  BY <1>0, <1>n, SaveConstants DEF SaveInv, SaveTypeOK, Stages, Destroyed, Begun
<1>6. Withdrawn'
  BY <1>0, <1>n, SaveConstants DEF SaveInv, SaveTypeOK, Withdrawn, Failed
<1> QED
  BY <1>1, <1>2, <1>3, <1>4, <1>5, <1>6 DEF SaveInv
(* Staging writes what the inode was created with: only its name is new. *)
LEMMA StageKeeps ==
  ASSUME SaveTypeOK, SaveInv, NEW s \in Savers, Stage(s)
  PROVE  SaveInv'
<1>0. /\ stage[s] = "stage" /\ stage' = [stage EXCEPT ![s] = "wait"]
      /\ staged' = [staged EXCEPT ![s] = s] /\ bytes[s] = s
      /\ UNCHANGED <<entry, bytes, current, publisher, outcome, destroyed, overtaken, edits>>
  BY SaveConstants DEF Stage, Goto, SaveInv, SaveTypeOK, Owned, Owns, Begun
<1>1. LockHeld'
  BY <1>0 DEF SaveInv, SaveTypeOK, LockHeld, Publishing
<1>2. OneName'
  BY <1>0, SaveConstants DEF SaveInv, SaveTypeOK, OneName, Owned, Owns, Alone, Begun
<1>n. \A i \in Inodes : Named(i)' <=> Named(i) \/ i = s
  BY <1>0, SaveConstants DEF SaveInv, SaveTypeOK, Named, Owned, Owns, Begun
<1>3. OneHolder'
  <2>1. \A k \in edits + 1 .. MaxEdits : k \in Inodes /\ k # s
    BY SaveConstants DEF SaveTypeOK
  <2> QED
    BY <1>0, <1>n, <2>1 DEF SaveInv, OneHolder
<1>4. Owned'
  BY <1>0, SaveConstants DEF SaveInv, SaveTypeOK, Owned, Owns, Alone, Begun
<1>5. Destroyed'
  BY <1>0, <1>n, SaveConstants DEF SaveInv, SaveTypeOK, Destroyed, Begun
<1>6. Withdrawn'
  BY <1>0, <1>n, SaveConstants DEF SaveInv, Withdrawn, Failed, Owned, Owns
<1> QED
  BY <1>1, <1>2, <1>3, <1>4, <1>5, <1>6 DEF SaveInv

(* A save that ends may drop the name of an inode it owns, and must have
   withdrawn its bytes when it failed. *)
LEMMA EndKeeps ==
  ASSUME SaveTypeOK, SaveInv, NEW s \in Savers, NEW how \in SaveOutcomes, NEW keeps \in BOOLEAN,
         End(s, how, keeps),
         stage[s] \in {"wait", "locked", "exchange", "exchanged", "restore", "restored", "published"},
         ~keeps => staged[s] = NoInode \/ s \in overtaken \/ bytes[staged[s]] = s,
         how \in Failed => \A i \in Inodes : Named(i)' => bytes[i] # s
  PROVE  SaveInv'
<1>0. /\ stage' = [stage EXCEPT ![s] = "ended"] /\ outcome' = [outcome EXCEPT ![s] = how]
      /\ publisher' = IF publisher = s THEN Nobody ELSE publisher
      /\ UNCHANGED <<entry, bytes, current, overtaken, edits>>
      /\ UNCHANGED staged \/ staged' = [staged EXCEPT ![s] = NoInode]
  BY DEF End, Goto
<1>1. LockHeld'
  BY <1>0, SaveConstants DEF SaveInv, SaveTypeOK, LockHeld, Publishing
<1>2. OneName'
  BY <1>0, SaveConstants DEF SaveInv, SaveTypeOK, OneName
<1>n. (\A i \in Inodes : Named(i)' => Named(i)) /\ UNCHANGED <<bytes, edits>>
  BY <1>0, SaveConstants DEF SaveTypeOK, Named
<1>3. OneHolder'
  BY <1>n, HoldersKept DEF SaveInv
<1>4. Owned'
  <2>1. Owns(s)'
    BY <1>0 DEF SaveTypeOK, Owns, Begun
  <2>2. ASSUME NEW t \in Savers \ {s} PROVE Owns(t)'
    <3>1. stage'[t] = stage[t] /\ outcome'[t] = outcome[t] /\ staged'[t] = staged[t] /\ destroyed'[t] = destroyed[t]
      BY <1>0 DEF End, SaveTypeOK
    <3>2. \A u \in Savers, i \in Inodes : staged[u] # i => staged'[u] # i
      BY <1>0, SaveConstants DEF SaveTypeOK
    <3> QED
      BY <1>0, <3>1, <3>2, SaveConstants DEF SaveInv, Owned, Owns, Alone, Begun
  <2> QED
    BY <2>1, <2>2 DEF Owned
<1>5. Destroyed'
  <2>1. CASE UNCHANGED destroyed
    BY <1>0, <1>n, <2>1 DEF SaveInv, SaveTypeOK, Destroyed, Begun
  <2>2. CASE ~UNCHANGED destroyed
    <3>1. PICK i \in Inodes : i = staged[s] /\ ~keeps
      BY <2>2 DEF End, SaveTypeOK
    <3>2. /\ Names(i) = 1 /\ staged' = [staged EXCEPT ![s] = NoInode]
          /\ destroyed' = [destroyed EXCEPT ![s] = @ \cup {bytes[i]}]
      BY <2>2, <3>1, SaveConstants DEF End
    <3>3. entry # i
      BY <3>1, <3>2, NamesCount DEF SaveInv
    <3>4. Named(i) /\ ~Named(i)'
      BY <1>0, <3>1, <3>2, <3>3, SaveConstants DEF SaveInv, SaveTypeOK, OneName, Named
    <3>5. bytes[i] = s \/ s \in overtaken
      BY <3>1, SaveConstants
    <3> QED
      BY <1>0, <1>n, <3>2, <3>4, <3>5, Removed
  <2> QED
    BY <2>1, <2>2
<1>6. Withdrawn'
  BY <1>0, <1>n DEF SaveInv, SaveTypeOK, Withdrawn
<1> QED
  BY <1>1, <1>2, <1>3, <1>4, <1>5, <1>6 DEF SaveInv

(* Another program's write is in no other inode, and what it creates is new. *)
LEMMA EditKeeps ==
  ASSUME SaveTypeOK, SaveInv, Edit
  PROVE  SaveInv'
<1>0. /\ edits' = edits + 1 /\ edits + 1 \in Inodes /\ edits + 1 \notin Savers /\ edits + 1 \in Nat
      /\ edits + 1 # NoInode /\ edits + 1 \in edits + 1 .. MaxEdits
      /\ UNCHANGED <<staged, stage, current, publisher, outcome, destroyed, overtaken>>
  BY SaveConstants DEF Edit, SaveTypeOK, NoInode
<1>k. \A k \in edits' + 1 .. MaxEdits : k \in edits + 1 .. MaxEdits /\ k \in Inodes /\ k # edits + 1
  BY <1>0, SaveConstants DEF SaveTypeOK
<1>1. LockHeld'
  BY <1>0 DEF SaveInv, LockHeld
<1>f. ~Named(edits + 1)
  BY <1>0 DEF SaveInv, OneHolder
<1>2. CASE entry # NoInode /\ bytes' = [bytes EXCEPT ![entry] = edits + 1] /\ UNCHANGED entry
  <2>1. \A i \in Inodes : Named(i)' <=> Named(i)
    BY <1>0, <1>2 DEF Named
  <2>2. OneName' /\ Owned'
    BY <1>0, <1>2, SaveConstants DEF SaveInv, SaveTypeOK, OneName, Owned, Owns, Alone, Begun
  <2>3. OneHolder'
    BY <1>0, <1>2, <1>k, <1>f, <2>1 DEF SaveInv, SaveTypeOK, OneHolder
  <2>4. Destroyed'
    BY <1>0, <1>2, <1>k, <2>1 DEF SaveInv, SaveTypeOK, Destroyed, Begun
  <2>5. Withdrawn'
    BY <1>0, <1>2, <2>1 DEF SaveInv, SaveTypeOK, Withdrawn
  <2> QED
    BY <1>1, <2>2, <2>3, <2>4, <2>5 DEF SaveInv
<1>3. CASE entry' = edits + 1 /\ bytes' = [bytes EXCEPT ![edits + 1] = edits + 1]
  <2>1. \A i \in Inodes : Named(i)' => Named(i) \/ i = edits + 1
    BY <1>0, <1>3 DEF Named
  <2>2. OneName' /\ Owned'
    BY <1>0, <1>3, <1>f, SaveConstants DEF SaveInv, SaveTypeOK, OneName, Owned, Owns, Alone, Begun, Named
  <2>3. OneHolder'
    BY <1>0, <1>3, <1>k, <1>f, <2>1 DEF SaveInv, SaveTypeOK, OneHolder
  <2>4. Destroyed'
    BY <1>0, <1>3, <1>k, <2>1 DEF SaveInv, SaveTypeOK, Destroyed, Begun
  <2>5. Withdrawn'
    BY <1>0, <1>3, <2>1 DEF SaveInv, SaveTypeOK, Withdrawn
  <2> QED
    BY <1>1, <2>2, <2>3, <2>4, <2>5 DEF SaveInv
<1>4. CASE entry # NoInode /\ entry' = NoInode /\ UNCHANGED bytes
  <2>1. \A i \in Inodes : Named(i)' => Named(i)
    BY <1>0, <1>4 DEF Named
  <2>2. OneName' /\ Owned'
    BY <1>0, <1>4, SaveConstants DEF SaveInv, SaveTypeOK, OneName, Owned, Owns, Alone, Begun
  <2>3. OneHolder'
    BY <1>0, <1>4, <1>k, <2>1 DEF SaveInv, OneHolder
  <2>4. Destroyed'
    BY <1>0, <1>4, <1>k, <2>1 DEF SaveInv, Destroyed, Begun
  <2>5. Withdrawn'
    BY <1>0, <1>4, <2>1 DEF SaveInv, Withdrawn
  <2> QED
    BY <1>1, <2>2, <2>3, <2>4, <2>5 DEF SaveInv
<1> QED
  BY <1>2, <1>3, <1>4 DEF Edit

(* Every end of a save meets what EndKeeps asks. *)
LEMMA EndsKeep ==
  ASSUME SaveTypeOK, SaveInv, NEW s \in Savers,
         \/ AbortSave(s)
         \/ Link(s) /\ entry # NoInode
         \/ Compare(s) /\ ~SameVersion(s)
         \/ Exchange(s) /\ entry = NoInode
         \/ Verify(s) /\ ~TakenAsSeen(s) /\ ~Goto(s, "restore")
         \/ Restore(s) /\ entry = NoInode
         \/ Restored(s) \/ Confirm(s)
  PROVE  SaveInv'
<1>o. \A i \in Inodes : bytes[i] = s => i = s
  BY DEF SaveInv, OneHolder
<1>t. {"aborted", "stale", "failed", "retained", "saved"} \subseteq SaveOutcomes /\ "failed" \notin Failed /\ "saved" \notin Failed
  BY DEF SaveOutcomes, Failed
<1>1. ASSUME NEW how \in {"aborted", "stale", "failed"}, End(s, how, FALSE), stage[s] \in {"wait", "locked", "exchange"}
      PROVE  SaveInv'
  <2>1. staged[s] = s /\ Alone(s) /\ bytes[s] = s
    BY <1>1 DEF SaveInv, Owned, Owns
  <2>2. entry' = entry /\ staged' = [staged EXCEPT ![s] = NoInode]
    BY <1>1, <2>1, SaveConstants DEF End
  <2>3. ~Named(s)'
    BY <2>1, <2>2, SaveConstants DEF SaveTypeOK, Named, Alone
  <2> QED
    BY <1>o, <1>t, <1>1, <2>1, <2>3, EndKeeps
<1>2. ASSUME End(s, "retained", TRUE), stage[s] \in {"exchanged", "restore"}, entry = s => bytes[s] # s
      PROVE  SaveInv'
  <2>1. Named(s)' => entry = s
    BY <1>2 DEF End, SaveInv, Owned, Owns, Named
  <2> QED
    BY <1>o, <1>t, <1>2, <2>1, EndKeeps
<1>3. CASE Restored(s)
  <2>1. End(s, "stale", FALSE) /\ stage[s] = "restored" /\ staged[s] # NoInode
    BY <1>3 DEF Restored, SaveInv, Owned, Owns
  <2>2. entry' = entry /\ staged' = [staged EXCEPT ![s] = NoInode]
    BY <2>1 DEF End
  <2>3. bytes[s] = s => ~Named(s)'
    BY <2>1, <2>2, SaveConstants DEF SaveInv, SaveTypeOK, Owned, Owns, Alone, Named
  <2>4. s \in overtaken \/ bytes[staged[s]] = s
    BY <2>1 DEF SaveInv, Owned, Owns
  <2> QED
    BY <1>o, <1>t, <2>1, <2>3, <2>4, EndKeeps
<1>4. CASE Confirm(s)
  <2>1. stage[s] = "published" /\ staged[s] = NoInode /\ \A t \in Savers : staged[t] # s
    BY <1>4 DEF Confirm, SaveInv, Owned, Owns
  <2>2. ASSUME NEW how \in {"saved", "failed", "stale"}, End(s, how, FALSE),
               how = "stale" => ~(Regular /\ bytes[entry] = s)
        PROVE  SaveInv'
    <3>1. Named(s)' => entry = s
      BY <2>1, <2>2 DEF End, Named
    <3>2. how = "stale" => ~(entry = s /\ bytes[s] = s)
      BY <2>1, <2>2, SaveConstants, RegularIsAlone DEF SaveInv
    <3> QED
      BY <1>o, <1>t, <2>1, <2>2, <3>1, <3>2, EndKeeps
  <2> QED
    BY <1>4, <2>2 DEF Confirm
<1>5. CASE Verify(s) /\ ~TakenAsSeen(s) /\ ~Goto(s, "restore")
  <2>1. stage[s] = "exchanged" /\ End(s, "retained", TRUE) /\ ~(Regular /\ entry = s /\ bytes[s] = s)
    BY <1>5 DEF Verify
  <2>2. entry = s => bytes[s] # s
    BY <2>1, SaveConstants, RegularIsAlone DEF SaveInv, Owned, Owns
  <2> QED
    BY <1>2, <2>1, <2>2
<1>6. CASE Restore(s) /\ entry = NoInode
  BY <1>2, <1>6, SaveConstants DEF Restore
<1>7. CASE AbortSave(s)
  BY <1>1, <1>7 DEF AbortSave
<1>8. CASE Link(s) /\ entry # NoInode
  BY <1>1, <1>8 DEF Link
<1>9. CASE Compare(s) /\ ~SameVersion(s)
  BY <1>1, <1>9 DEF Compare
<1>10. CASE Exchange(s) /\ entry = NoInode
  BY <1>1, <1>10 DEF Exchange
<1> QED
  BY <1>3, <1>4, <1>5, <1>6, <1>7, <1>8, <1>9, <1>10

LEMMA SaveInvInit ==
  SaveInit => SaveTypeOK /\ SaveInv
<1> SUFFICES ASSUME SaveInit PROVE SaveTypeOK /\ SaveInv
  OBVIOUS
<1>c. 0 \in Inodes /\ 0 \in Nat /\ 0 \notin Savers /\ 0 # NoInode /\ Missing \in Versions \cup {Missing}
  BY SaveConstants DEF NoInode
<1>1. SaveTypeOK
  BY <1>c, SaveConstants DEF SaveInit, SaveTypeOK, Stages, SaveOutcomes
<1>2. LockHeld
  BY SaveConstants DEF SaveInit, LockHeld, Publishing
<1>3. OneName
  BY DEF SaveInit, OneName
<1>4. OneHolder
  BY <1>c, SaveConstants DEF SaveInit, OneHolder, Named, NoInode
<1>5. Owned
  BY <1>c, SaveConstants DEF SaveInit, Owned, Owns, Begun, Alone
<1>6. Destroyed /\ Withdrawn
  BY DEF SaveInit, Destroyed, Withdrawn, Failed
<1> QED
  BY <1>1, <1>2, <1>3, <1>4, <1>5, <1>6 DEF SaveInv

LEMMA SaveInvStep ==
  SaveTypeOK /\ SaveInv /\ [SaveNext]_saveVars => SaveTypeOK' /\ SaveInv'
<1> SUFFICES ASSUME SaveTypeOK, SaveInv, [SaveNext]_saveVars PROVE SaveTypeOK' /\ SaveInv'
  OBVIOUS
<1>1. SaveTypeOK'
  BY SaveTypeStep DEF SaveInv, Owned
<1>2. SaveInv'
  <2>1. ASSUME NEW s \in Savers,
               \/ Sight(s) \/ Reread(s) \/ Stage(s) \/ AbortSave(s) \/ Lock(s)
               \/ Link(s) \/ Unlink(s) \/ Compare(s) \/ Exchange(s) \/ Verify(s)
               \/ Restore(s) \/ Restored(s) \/ Confirm(s) \/ Die(s)
        PROVE  SaveInv'
    <3>1. CASE Sight(s) \/ Reread(s) \/ Stage(s) \/ Lock(s) \/ Unlink(s) \/ Die(s)
      BY <3>1, SightKeeps, RereadKeeps, StageKeeps, LockKeeps, UnlinkKeeps, DieKeeps
    <3>2. CASE AbortSave(s) \/ Restored(s) \/ Confirm(s)
      BY <3>2, EndsKeep
    <3>3. CASE Link(s)
      BY <3>3, LinkKeeps, EndsKeep
    <3>6. CASE Compare(s)
      BY <3>6, CompareKeeps, EndsKeep
    <3>4. CASE Exchange(s) \/ Restore(s)
      BY <3>4, ExchangeKeeps, RestoreKeeps, EndsKeep
    <3>5. CASE Verify(s)
      BY <3>5, VerifyTakenKeeps, VerifyOtherKeeps, EndsKeep
    <3> QED
      BY <2>1, <3>1, <3>2, <3>3, <3>4, <3>5, <3>6
  <2>2. CASE Edit
    BY <2>2, EditKeeps
  <2>3. CASE UNCHANGED saveVars
    BY <2>3 DEF saveVars, files, SaveInv, LockHeld, OneName, OneHolder, Owned, Owns, Alone, Begun,
      Destroyed, Withdrawn, Named
  <2> QED
    BY <2>1, <2>2, <2>3 DEF SaveNext
<1> QED
  BY <1>1, <1>2

(* However many saves race for one definition, and whatever other programs do
   to it, a save removes from the disk only its own bytes and the file it had
   read, no two remove the same, and one that failed is not what the catalog
   shows (saveLocal, src/registry/index.ts). *)
THEOREM SavesReplaceWhatTheySaw == SaveSpec => []ReplacesWhatItSaw
<1>1. SaveTypeOK /\ SaveInv => ReplacesWhatItSaw
  <2> SUFFICES ASSUME SaveTypeOK, SaveInv, NEW s \in Savers
               PROVE  /\ \A b \in destroyed[s] \ {s} :
                           \/ /\ current[s] # Missing /\ b = current[s].bytes
                              /\ \A t \in Savers \ {s} : b \notin destroyed[t]
                           \/ s \in overtaken
                      /\ outcome[s] \in {"refused", "aborted", "stale", "retained"} =>
                           ~(entry # NoInode /\ bytes[entry] = s)
    BY DEF ReplacesWhatItSaw
  <2>1. destroyed[s] \subseteq Inodes /\ (entry # NoInode => entry \in Inodes)
    BY DEF SaveTypeOK
  <2> QED
    BY <2>1 DEF SaveInv, Destroyed, Withdrawn, Failed, Named
<1> QED
  BY <1>1, SaveInvInit, SaveInvStep, PTL DEF SaveSpec

=============================================================================
