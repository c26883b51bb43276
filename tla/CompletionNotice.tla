-------------------------- MODULE CompletionNotice --------------------------
(***************************************************************************)
(* The outbox of completion notices (src/supervisor/completion-notice.ts,  *)
(* WorkflowCompletionNotifier).  A terminal row is committed with its      *)
(* notice claimed; notify() queues the notice with the run's owner, whose  *)
(* queue is drained in cohorts: one message is appended to the owner's     *)
(* Session, then the claim of every notice in it is finalized.             *)
(*                                                                         *)
(* The transcript is external: an append may fail before its effect, or    *)
(* after it.  finalizeCompletionNotice is RunStore's; here it succeeds, or *)
(* fails and leaves the claim.                                             *)
(***************************************************************************)
EXTENDS Integers, Sequences, FiniteSets, SequencesExt

CONSTANTS
  Notices, Owners,
  OwnerOf,        \* the parent of each notice's run
  Bytes,          \* the size of each rendered notice
  MaxItems, MaxCohortBytes, Separator

ASSUME NoticeAssumption ==
  /\ OwnerOf \in [Notices -> Owners]
  /\ MaxItems \in Nat \ {0} /\ MaxCohortBytes \in Nat \ {0} /\ Separator \in Nat \ {0}
  /\ Bytes \in [Notices -> 1 .. MaxCohortBytes] \* renderWorkflowCompletionNotice

VARIABLES
  claim,     \* store: completionNotice.state of each row
  attempted, \* the notices notify() was called for, in order
  known,     \* owners: those that have a queue
  pending,   \* OwnerQueue.pending
  scheduled, \* OwnerQueue.scheduled
  drain,     \* OwnerQueue.processing, and where drainOwner stands
  cohort,    \* what drainOwner has taken and not finalized
  delivered, \* drainOwner's delivered
  settled,   \* notices whose notify() has returned
  direct,    \* notices that came after dispose() and are being finalized
  spliced,   \* the queued notices that dispose() is abandoning
  disposal,  \* dispose()
  quiet,     \* a caller of whenOwnerQuiescent
  transcript,\* external: the messages in each owner's Session
  lost       \* history: notices whose finalization failed

queues     == <<known, pending, scheduled>>
drains     == <<drain, cohort, delivered>>
teardown   == <<direct, spliced, disposal>>
noticeVars == <<claim, attempted, queues, drains, settled, teardown, quiet, transcript, lost>>

-----------------------------------------------------------------------------
(* The bytes of a message: its notices and what separates them. *)
MessageBytes(c) == FoldLeft(LAMBDA sum, n : sum + Bytes[n] + Separator, 0, c) - Separator

(* takeCohort: as many as fit, at least one. *)
(* Mutant: the separators are not counted. *)
FitsUnseparated(c) == Len(c) = 1 \/ MessageBytes(c) - (Len(c) - 1) * Separator <= MaxCohortBytes
Fits(c) == Len(c) = 1 \/ MessageBytes(c) <= MaxCohortBytes
Taken(p) == CHOOSE k \in 1 .. Len(p) :
  /\ k <= MaxItems /\ Fits(SubSeq(p, 1, k))
  /\ \A l \in k + 1 .. Len(p) : l > MaxItems \/ ~Fits(SubSeq(p, 1, l))

(* The loop of drainOwner, with p the owner's queue: another cohort, whose
   append begins, or the end. *)
Drain(o, p) ==
  IF p = <<>>
    THEN /\ drain' = [drain EXCEPT ![o] = "ended"]
         /\ pending' = [pending EXCEPT ![o] = p]
         /\ cohort' = [cohort EXCEPT ![o] = <<>>]
    ELSE /\ drain' = [drain EXCEPT ![o] = "append"]
         /\ pending' = [pending EXCEPT ![o] = SubSeq(p, Taken(p) + 1, Len(p))]
         /\ cohort' = [cohort EXCEPT ![o] = SubSeq(p, 1, Taken(p))]

(* finalize: the store records the outcome, or fails and the claim stays. *)
Finalize(n, outcome) ==
  \/ /\ claim' = [claim EXCEPT ![n] = outcome]
     /\ UNCHANGED lost
  \/ /\ lost' = lost \cup {n}
     /\ UNCHANGED claim

-----------------------------------------------------------------------------
Fresh(n) == n \notin ToSet(attempted)

(* notify, right after the commit that claims the notice. After dispose() the
   notice is abandoned without a message. *)
Notify(n) == LET o == OwnerOf[n] IN
  /\ Fresh(n)
  /\ attempted' = Append(attempted, n)
  /\ claim' = [claim EXCEPT ![n] = "claimed"]
  /\ quiet' = [quiet EXCEPT ![o] = IF @ = "quiet" THEN "no" ELSE @]
  /\ \/ /\ disposal = "no"
        /\ known' = known \cup {o}
        /\ pending' = [pending EXCEPT ![o] = Append(@, n)]
        /\ scheduled' = [scheduled EXCEPT ![o] = @ \/ drain[o] = "none"]
        /\ UNCHANGED direct
     \/ /\ disposal # "no"
        /\ direct' = direct \cup {n}
        /\ UNCHANGED queues
  /\ UNCHANGED <<drains, settled, spliced, disposal, transcript, lost>>

(* schedule's microtask. *)
StartDrain(o) ==
  /\ scheduled[o]
  /\ scheduled' = [scheduled EXCEPT ![o] = FALSE]
  /\ Drain(o, pending[o])
  /\ UNCHANGED <<claim, attempted, known, delivered, settled, teardown, quiet, transcript, lost>>

(* The append returns, or throws before or after its effect. *)
AppendSettles(o) ==
  /\ drain[o] = "append"
  /\ \E returns, appears \in BOOLEAN :
       /\ returns => appears
       /\ delivered' = [delivered EXCEPT ![o] = returns]
       /\ transcript' = IF appears THEN [transcript EXCEPT ![o] = Append(@, cohort[o])] ELSE transcript
  /\ drain' = [drain EXCEPT ![o] = "finalize"]
  /\ UNCHANGED <<claim, attempted, queues, cohort, settled, teardown, quiet, lost>>

(* The next notice of the cohort is finalized; after the last the loop goes on. *)
FinalizeNext(o) == LET n == Head(cohort[o]) IN
  /\ drain[o] = "finalize"
  /\ Finalize(n, IF delivered[o] THEN "delivered" ELSE "abandoned")
  /\ settled' = settled \cup {n}
  /\ IF Len(cohort[o]) > 1
       THEN cohort' = [cohort EXCEPT ![o] = Tail(@)] /\ UNCHANGED <<drain, pending>>
       ELSE Drain(o, pending[o])
  /\ UNCHANGED <<attempted, known, scheduled, delivered, teardown, quiet, transcript>>

(* Mutant: the queue is dropped, though a notice was queued since the end. *)
DrainForgets(o) ==
  /\ drain[o] = "ended"
  /\ drain' = [drain EXCEPT ![o] = "none"]
  /\ known' = known \ {o}
  /\ UNCHANGED <<claim, attempted, pending, scheduled, cohort, delivered, settled, teardown, quiet, transcript, lost>>
(* The finally of a drain: what was queued since its end is scheduled. *)
DrainEnds(o) ==
  /\ drain[o] = "ended"
  /\ drain' = [drain EXCEPT ![o] = "none"]
  /\ scheduled' = [scheduled EXCEPT ![o] = @ \/ (pending[o] # <<>> /\ disposal = "no")]
  /\ known' = IF pending[o] = <<>> THEN known \ {o} ELSE known
  /\ UNCHANGED <<claim, attempted, pending, cohort, delivered, settled, teardown, quiet, transcript, lost>>

(* finalizeDirect. *)
FinalizeDirect == \E n \in direct :
  /\ Finalize(n, "abandoned")
  /\ direct' = direct \ {n}
  /\ settled' = settled \cup {n}
  /\ UNCHANGED <<attempted, queues, drains, spliced, disposal, quiet, transcript>>

(* whenOwnerQuiescent is called; it returns when the owner has no queue. *)
AskQuiet(o) ==
  /\ quiet[o] = "no"
  /\ quiet' = [quiet EXCEPT ![o] = "waits"]
  /\ UNCHANGED <<claim, attempted, queues, drains, settled, teardown, transcript, lost>>
Quiesces(o) ==
  /\ quiet[o] = "waits" /\ o \notin known
  /\ quiet' = [quiet EXCEPT ![o] = "quiet"]
  /\ UNCHANGED <<claim, attempted, queues, drains, settled, teardown, transcript, lost>>

(* dispose: what is queued is abandoned, what is being drained is waited for. *)
Queued == UNION {ToSet(pending[o]) : o \in known}
Dispose ==
  /\ disposal = "no" /\ disposal' = "splicing"
  /\ spliced' = Queued
  /\ pending' = [o \in Owners |-> <<>>]
  /\ UNCHANGED <<claim, attempted, known, scheduled, drains, settled, direct, quiet, transcript, lost>>
DisposeFinalizes == \E n \in spliced :
  /\ Finalize(n, "abandoned")
  /\ spliced' = spliced \ {n}
  /\ settled' = settled \cup {n}
  /\ UNCHANGED <<attempted, queues, drains, direct, disposal, quiet, transcript>>
DisposeEnds ==
  /\ disposal = "splicing" /\ spliced = {}
  /\ \A o \in known : drain[o] = "none"
  /\ disposal' = "done"
  /\ known' = {}
  /\ UNCHANGED <<claim, attempted, pending, scheduled, drains, settled, direct, spliced, quiet, transcript, lost>>

-----------------------------------------------------------------------------
NoticeInit ==
  /\ claim = [n \in Notices |-> "none"]
  /\ attempted = <<>> /\ settled = {} /\ lost = {}
  /\ known = {}
  /\ pending = [o \in Owners |-> <<>>] /\ scheduled = [o \in Owners |-> FALSE]
  /\ drain = [o \in Owners |-> "none"] /\ cohort = [o \in Owners |-> <<>>]
  /\ delivered = [o \in Owners |-> FALSE]
  /\ direct = {} /\ spliced = {} /\ disposal = "no"
  /\ quiet = [o \in Owners |-> "no"]
  /\ transcript = [o \in Owners |-> <<>>]

NoticeNext ==
  \/ \E n \in Notices : Notify(n)
  \/ \E o \in Owners : StartDrain(o) \/ AppendSettles(o) \/ FinalizeNext(o) \/ DrainEnds(o)
                         \/ AskQuiet(o) \/ Quiesces(o)
  \/ FinalizeDirect \/ Dispose \/ DisposeFinalizes \/ DisposeEnds

NoticeSpec == NoticeInit /\ [][NoticeNext]_noticeVars

-----------------------------------------------------------------------------
Position(n) == CHOOSE i \in 1 .. Len(attempted) : attempted[i] = n

(* An owner reads each of its notices once and in the order of the calls, in
   messages that stay within the cohort's limits, and a notice is recorded as
   delivered only if the owner has it (notify's attempted, takeCohort, drainOwner). *)
OwnersReadInOrder == \A o \in Owners :
  /\ \A i, j \in DOMAIN transcript[o] :
       \A a \in DOMAIN transcript[o][i], b \in DOMAIN transcript[o][j] :
         (i < j \/ (i = j /\ a < b)) =>
            Position(transcript[o][i][a]) < Position(transcript[o][j][b])
  /\ \A i \in DOMAIN transcript[o] :
       Len(transcript[o][i]) <= MaxItems /\ MessageBytes(transcript[o][i]) <= MaxCohortBytes
  /\ \A n \in Notices : (OwnerOf[n] = o /\ claim[n] = "delivered") =>
       \E i \in DOMAIN transcript[o] : n \in ToSet(transcript[o][i])

(* When whenOwnerQuiescent returns, and when dispose() does, no call of notify()
   for that owner is open and no claim is left but those the store refused to
   finalize; a queue never waits for nobody (schedule, drainOwner, dispose). *)
Open(n) == n \in ToSet(attempted) /\ n \notin settled \cup direct
QuietIsSettled ==
  /\ \A n \in Notices : (quiet[OwnerOf[n]] = "quiet" /\ disposal = "no") \/ disposal = "done" => ~Open(n)
  /\ \A n \in settled : claim[n] = "claimed" => n \in lost
  /\ \A o \in known : drain[o] # "none" \/ scheduled[o]
=============================================================================
