--------------------------- MODULE ArtifactsQuery ---------------------------
(***************************************************************************)
(* RunSupervisor together with the one remote read that writes: artifacts()*)
(* (src/src/supervisor/index.ts) lists a run's scratch files and, when the *)
(* list has changed, calls commitActive itself, outside run.tail.  Its     *)
(* commit therefore runs beside whatever operation the queue has suspended *)
(* on a commit, or the launch on its own, with the revision that both read.*)
(*                                                                         *)
(* A list is abstracted to a version: `files[r]` counts the changes the    *)
(* scripts made and `listed[r]` is the one run.detail.artifacts shows.     *)
(***************************************************************************)
EXTENDS RunSupervisor

CONSTANT MaxWrites    \* bound: changes of one run's scratch files

ASSUME WritesAssumption == MaxWrites \in Nat

VARIABLES
  files, listed,
  look,        \* the commit of a read in flight: what commitActive captured
  overtaken    \* history: runs a read's commit took a revision from

readVars == <<files, listed, look, overtaken>>
allVars  == <<vars, readVars>>

NoLook == [rev |-> 0, status |-> "absent"]
Looking(r) == look[r].rev # 0

(* A script's scratch write or append succeeds. *)
ScriptWrites(r) ==
  /\ cur[r] # 0 /\ engine[r][cur[r]].st = "running"
  /\ files[r] < MaxWrites
  /\ files' = [files EXCEPT ![r] = @ + 1]
  /\ UNCHANGED <<vars, listed, look, overtaken>>

(* From the answer of scanArtifacts to the await of store.commitRun: the new  *)
(* list enters run.detail and commitActive captures run.head.  A second read  *)
(* that starts meanwhile is left out: it differs by one more stale commit.    *)
Artifacts(r) ==
  /\ Known(r) /\ ~Terminal(r)
  /\ files[r] # listed[r] /\ ~Looking(r)
  /\ listed' = [listed EXCEPT ![r] = files[r]]
  /\ look' = [look EXCEPT ![r] = [rev |-> head[r].rev, status |-> head[r].status]]
  /\ UNCHANGED <<vars, files, overtaken>>

(* Commits in flight that expect the revision the read's commit replaces.     *)
InFlight(r) ==
  \/ job[r].pc \in {"commit", "claim"} /\ job[r].rev = row[r].rev
  \/ start[r] = "claim" /\ startRev[r] = row[r].rev

(* Mutant: the read's commit is a plain write. *)
AlwaysOk(r) == {"ok"}
LookResults(r) == Results(r, look[r].rev)
ArtifactsSettle(r) ==
  /\ Looking(r)
  /\ look' = [look EXCEPT ![r] = NoLook]
  /\ \E res \in LookResults(r) :
       /\ Write(r, res, look[r].status, row[r].notice)
       /\ head' = IF res = "ok"
                  THEN [head EXCEPT ![r] = [status |-> look[r].status, rev |-> row'[r].rev]]
                  ELSE head
       /\ overtaken' = IF res \in {"ok", "late"} /\ InFlight(r)
                       THEN overtaken \cup {r} ELSE overtaken
  /\ UNCHANGED <<files, listed, launchVars, delivery, told, failure, attemptVars, gateVars,
                 queueVars, capacityVars, closeVars, waitVars, drainVars, ops, events>>

ReadInit ==
  /\ Init
  /\ files = [r \in Runs |-> 0]
  /\ listed = [r \in Runs |-> 0]
  /\ look = [r \in Runs |-> NoLook]
  /\ overtaken = {}
ReadNext ==
  \/ Next /\ UNCHANGED readVars
  \/ \E r \in Runs : ScriptWrites(r) \/ Artifacts(r) \/ ArtifactsSettle(r)
ReadSpec == ReadInit /\ [][ReadNext]_allVars

-----------------------------------------------------------------------------
(* Nothing of r is left to happen by itself, and yet it is neither settled    *)
(* nor parked.                                                                *)
Stranded(r) ==
  /\ Known(r) /\ ~Pending(r)
  /\ job[r].pc = "idle" /\ queue[r] = <<>>
  /\ \A g \in Gens : ~Live(r, g)
  /\ head[r].status \notin TERMINAL \cup {"paused", "budget-limited"}

(* When a run's attempts and operations are over, its status says how it      *)
(* ended or where it is parked, provided no commit failed and no reader's     *)
(* commit overtook one of the run's own: no other order of controls, gates,   *)
(* events and reads loses the outcome of an attempt.                          *)
OnlyReadersStrand ==
  \A r \in Runs : Stranded(r) => r \in overtaken \/ faults > 0

(* After dispose every durable run is terminal and its attempts have quiesced, *)
(* whatever controls were queued or suspended, with the same exceptions.      *)
DisposeLeavesNothingOpen ==
  disposal = "done" /\ faults = 0 => \A r \in Runs : Durable(r) /\ r \notin overtaken =>
    /\ row[r].status \in TERMINAL
    /\ \A g \in Gens : ~Live(r, g)

(* The first without the exception.  It does not hold (README, section 10).    *)
NoneStranded == \A r \in Runs : ~Stranded(r) \/ faults > 0
=============================================================================
