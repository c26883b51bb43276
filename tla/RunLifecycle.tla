---------------------------- MODULE RunLifecycle ----------------------------
(***************************************************************************)
(* What the supervisor promises of a logical run, without its queues,      *)
(* gates, teardowns and failures: a run executes one engine attempt at a   *)
(* time, its status moves along one table, and a status at which nothing   *)
(* is to run any more is taken only when nothing runs.                     *)
(***************************************************************************)
EXTENDS Integers

CONSTANT Runs

VARIABLES
  status,     \* the status that is shown
  generation, \* attempts begun so far
  executing   \* the last one has not quiesced

vars == <<status, generation, executing>>

Terminal == {"completed", "failed", "cancelled", "interrupted"}
Parked   == {"paused", "budget-limited"}
Open     == {"running", "pausing", "stopping", "needs-input"} \cup Parked

(* A parked run is cancelled without "stopping"; a non-resumable gate is
   replayed through "pausing" and "paused". *)
Table ==
  {<<"absent", "running">>, <<"running", "pausing">>, <<"pausing", "paused">>,
   <<"running", "needs-input">>, <<"needs-input", "running">>, <<"needs-input", "pausing">>,
   <<"paused", "running">>, <<"running", "budget-limited">>, <<"budget-limited", "running">>,
   <<"stopping", "cancelled">>, <<"paused", "cancelled">>, <<"budget-limited", "cancelled">>}
  \cup ({"running", "pausing", "needs-input"} \X {"stopping"})
  \cup (Open \X {"failed", "interrupted"})
  \cup ({"running", "needs-input"} \X {"completed"})

Init == /\ status = [r \in Runs |-> "absent"]
        /\ generation = [r \in Runs |-> 0]
        /\ executing = [r \in Runs |-> FALSE]

Attempt(r) ==
  /\ ~executing[r]
  /\ generation' = [generation EXCEPT ![r] = @ + 1]
  /\ executing' = [executing EXCEPT ![r] = TRUE]
Begin(r) == status[r] \in {"running"} \cup Parked /\ Attempt(r) /\ UNCHANGED status
(* A gate that is replayed pauses its run and begins the next attempt at once. *)
Replay(r) == status[r] = "pausing" /\ Attempt(r) /\ status' = [status EXCEPT ![r] = "paused"]
End(r) ==
  /\ executing[r] /\ executing' = [executing EXCEPT ![r] = FALSE]
  /\ UNCHANGED <<status, generation>>
Move(r, to) ==
  /\ <<status[r], to>> \in Table
  /\ to \in Terminal \cup Parked => ~executing[r]
  /\ status' = [status EXCEPT ![r] = to]
  /\ UNCHANGED <<generation, executing>>

Next == \E r \in Runs : Begin(r) \/ Replay(r) \/ End(r) \/ \E to \in Open \cup Terminal : Move(r, to)

Spec == Init /\ [][Next]_vars
=============================================================================
