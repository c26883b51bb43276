------------------------------ MODULE MCReplay ------------------------------
(* What the attempts of a run hand on, for TLC: the journal with every small
   program of two branches, and the scratch files with every script of three
   calls.  The two share no state: a behaviour moves one of them. *)
EXTENDS Replay, RunScratch
CONSTANTS n1, n2
VARIABLE part

Bodies(kinds, length) == UNION {[1 .. n -> kinds] : n \in 0 .. length}
(* Any three calls, or four agents; await_user in one branch, since only one gate may be open. *)
Thunks == {t \in {[panel |-> FALSE, body |-> <<p, q>>] :
                    p \in Bodies({"agent", "note", "gate"}, 2), q \in Bodies({"agent", "note"}, 2)} :
             \/ Len(t.body[1]) + Len(t.body[2]) <= 3
             \/ \A b \in {1, 2} : t.body[b] = <<"agent", "agent">>}
(* One branch that ends with complete(), beside an empty one. *)
Completing == {[panel |-> FALSE, body |-> <<Append(p, "complete"), <<>>>>] :
                 p \in Bodies({"agent", "note", "gate"}, 2)}
Jobs == {[panel |-> TRUE, body |-> <<<<"agent">>, <<"agent">>>>]}
Sound == Thunks \cup Completing \cup Jobs

(* complete() in a branch, calls in the other. *)
CompletingInPanel == {[panel |-> FALSE, body |-> <<<<"agent", "complete">>, <<"agent", "agent">>>>]}

FirstScript == [c \in 1 .. MaxCalls |-> WriteCall(n1, 1)]
FirstProgram == [panel |-> TRUE, body |-> <<<<"agent">>, <<"agent">>>>]
MCInit ==
  /\ part \in {"journal", "scratch"}
  /\ Init /\ ScratchInit
  /\ part = "scratch" => prog = FirstProgram /\ budget = 0
  /\ IF part = "scratch" THEN calls[1].name = n1 ELSE calls = FirstScript
MCNext ==
  \/ part = "journal" /\ Next /\ UNCHANGED <<part, scratchVars>>
  \/ part = "scratch" /\ ScratchNext /\ UNCHANGED <<part, vars>>
MCSpec == MCInit /\ [][MCNext]_<<part, vars, scratchVars>>
=============================================================================
