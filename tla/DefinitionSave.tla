---------------------------- MODULE DefinitionSave ----------------------------
(***************************************************************************)
(* Saving one workflow definition (src/registry/index.ts, saveLocal):       *)
(* several processes publish to the same destination by compare-and-swap.   *)
(* Each observes the destination, stages its bytes beside it, waits for the *)
(* publishers' lock, and links or exchanges the staged file into place.     *)
(* Programs that know nothing of the lock (an editor, git) replace, rewrite *)
(* or delete the destination at any moment.                                 *)
(*                                                                         *)
(* One action is one file-system operation, with the reads that follow it   *)
(* where nobody else uses the entry.  An inode is named by who created it;  *)
(* of its version the identity, the content and the change time are kept.   *)
(***************************************************************************)
EXTENDS Integers, FiniteSets

CONSTANTS
  Savers,  \* calls of save(), each of its own process
  MaxEdits \* bound: what other programs do to the destination

\* A saver's own inode is none of those of edits, nor NoInode or Nobody.
ASSUME SaveAssumption == MaxEdits \in Nat /\ Savers \cap (-1 .. MaxEdits) = {}

VARIABLES
  entry,     \* the destination's inode, NoInode when there is none
  staged,    \* the inode of each save's temporary name
  bytes,     \* what each inode holds, by who wrote it
  changed,   \* the change time of each inode
  stage,     \* where each save stands
  current,   \* what it observed: current and observedBytes
  publisher, \* who holds the publication lock, Nobody
  outcome,   \* how each save ended
  destroyed, \* history: what each save has removed from the disk
  overtaken, \* history: saves whose rollback took out what it had not looked at
  edits

files    == <<entry, staged, bytes, changed>>
saveVars == <<files, stage, current, publisher, outcome, destroyed, overtaken, edits>>

NoInode == -1
Nobody  == -1
Inodes  == Savers \cup 0 .. MaxEdits
-----------------------------------------------------------------------------
Names(i) == (IF entry = i THEN 1 ELSE 0) + Cardinality({s \in Savers : staged[s] = i})

(* localFileVersion and readLocalNoFollow refuse a file with two names. *)
Regular    == entry # NoInode /\ Names(entry) = 1
Version(i) == [inode |-> i, bytes |-> bytes[i], changed |-> changed[i]]
Missing    == [inode |-> NoInode]

Touched(S)  == changed' = [i \in Inodes |-> IF i \in S THEN changed[i] + 1 ELSE changed[i]]
Goto(s, to) == stage' = [stage EXCEPT ![s] = to]

(* The finally blocks: the temporary name goes, unless it holds what the save
   displaced and could not put back, and so does the lock. *)
End(s, how, keeps) ==
  /\ Goto(s, "ended") /\ outcome' = [outcome EXCEPT ![s] = how]
  /\ publisher' = IF publisher = s THEN Nobody ELSE publisher
  /\ LET i == staged[s] IN
     IF keeps \/ i = NoInode
       THEN UNCHANGED <<staged, changed, destroyed>>
       ELSE /\ staged' = [staged EXCEPT ![s] = NoInode]
            /\ Touched({i})
            /\ destroyed' = IF Names(i) = 1 THEN [destroyed EXCEPT ![s] = @ \cup {bytes[i]}] ELSE destroyed
  /\ UNCHANGED <<entry, bytes, current, overtaken, edits>>
-----------------------------------------------------------------------------
(* What is there, and is it still there after its bytes were read? *)
Sight(s) ==
  /\ stage[s] = "begin"
  /\ \/ /\ entry = NoInode
        /\ current' = [current EXCEPT ![s] = Missing] /\ Goto(s, "stage")
        /\ UNCHANGED outcome
     \/ /\ Regular
        /\ current' = [current EXCEPT ![s] = Version(entry)] /\ Goto(s, "reread")
        /\ UNCHANGED outcome
     \/ /\ entry # NoInode /\ ~Regular
        /\ outcome' = [outcome EXCEPT ![s] = "refused"] /\ Goto(s, "ended")
        /\ UNCHANGED current
  /\ UNCHANGED <<files, publisher, destroyed, overtaken, edits>>
SameVersion(s) == Regular /\ Version(entry) = current[s]
Reread(s) ==
  /\ stage[s] = "reread"
  /\ \/ /\ SameVersion(s)
        /\ Goto(s, "stage") /\ UNCHANGED outcome
     \/ /\ ~SameVersion(s)
        /\ Goto(s, "ended") /\ outcome' = [outcome EXCEPT ![s] = "stale"]
  /\ UNCHANGED <<files, current, publisher, destroyed, overtaken, edits>>

Stage(s) ==
  /\ stage[s] = "stage" /\ Goto(s, "wait")
  /\ staged' = [staged EXCEPT ![s] = s] /\ bytes' = [bytes EXCEPT ![s] = s]
  /\ UNCHANGED <<entry, changed, current, publisher, outcome, destroyed, overtaken, edits>>
(* The caller's signal is looked at until the lock is held. *)
AbortSave(s) == stage[s] \in {"wait", "locked"} /\ End(s, "aborted", FALSE)

(* withLocalPublicationLock, acquireLocalPublicationLock *)
Lock(s) ==
  /\ stage[s] = "wait" /\ publisher = Nobody
  /\ publisher' = s /\ Goto(s, "locked")
  /\ UNCHANGED <<files, current, outcome, destroyed, overtaken, edits>>

(* There was nothing: link the staged file, and drop its temporary name. *)
Link(s) ==
  /\ stage[s] = "locked" /\ current[s] = Missing
  /\ \/ /\ entry = NoInode
        /\ entry' = staged[s] /\ Touched({staged[s]}) /\ Goto(s, "linked")
        /\ UNCHANGED <<staged, bytes, current, publisher, outcome, destroyed, overtaken, edits>>
     \/ entry # NoInode /\ End(s, "stale", FALSE)
Unlink(s) ==
  /\ stage[s] = "linked" /\ Goto(s, "published")
  /\ Touched({staged[s]}) /\ staged' = [staged EXCEPT ![s] = NoInode]
  /\ UNCHANGED <<entry, bytes, current, publisher, outcome, destroyed, overtaken, edits>>

(* There was a file: compare, exchange, and look at what came out. *)
Compare(s) ==
  /\ stage[s] = "locked" /\ current[s] # Missing
  /\ \/ /\ SameVersion(s) /\ Goto(s, "exchange")
        /\ UNCHANGED <<files, current, publisher, outcome, destroyed, overtaken, edits>>
     \/ ~SameVersion(s) /\ End(s, "stale", FALSE)
Swap(s) ==
  /\ entry' = staged[s] /\ staged' = [staged EXCEPT ![s] = entry]
  /\ Touched({entry, staged[s]})
Exchange(s) ==
  /\ stage[s] = "exchange"
  /\ \/ /\ entry # NoInode /\ Swap(s) /\ Goto(s, "exchanged")
        /\ UNCHANGED <<bytes, current, publisher, outcome, destroyed, overtaken, edits>>
     \/ entry = NoInode /\ End(s, "failed", FALSE)
(* Mutant: the file that came out is not looked at. *)
TakenUnseen(s) == TRUE
(* sameLocalFileAfterExchange and the bytes. *)
TakenAsSeen(s) == staged[s] = current[s].inode /\ bytes[staged[s]] = current[s].bytes
Verify(s) ==
  /\ stage[s] = "exchanged"
  /\ \/ /\ TakenAsSeen(s)
        /\ Goto(s, "published")
        /\ staged' = [staged EXCEPT ![s] = NoInode] /\ Touched({staged[s]})
        /\ destroyed' = [destroyed EXCEPT ![s] = @ \cup {bytes[staged[s]]}]
        /\ UNCHANGED <<entry, bytes, current, publisher, outcome, overtaken, edits>>
     \/ /\ ~TakenAsSeen(s)
        /\ \/ /\ Regular /\ entry = s /\ bytes[s] = s /\ Goto(s, "restore")
              /\ UNCHANGED <<files, current, publisher, outcome, destroyed, overtaken, edits>>
           \/ ~(Regular /\ entry = s /\ bytes[s] = s) /\ End(s, "retained", TRUE)
(* The rollback: the second exchange puts back what came out. *)
Restore(s) ==
  /\ stage[s] = "restore"
  /\ \/ /\ entry # NoInode /\ Swap(s) /\ Goto(s, "restored")
        /\ overtaken' = IF entry = s /\ bytes[s] = s THEN overtaken ELSE overtaken \cup {s}
        /\ UNCHANGED <<bytes, current, publisher, outcome, destroyed, edits>>
     \/ entry = NoInode /\ End(s, "retained", TRUE)
Restored(s) == stage[s] = "restored" /\ End(s, "stale", FALSE)

(* What is read back is what was published. *)
Confirm(s) ==
  /\ stage[s] = "published"
  /\ End(s, IF Regular /\ bytes[entry] = s THEN "saved" ELSE IF entry = NoInode THEN "failed" ELSE "stale", FALSE)

(* The process dies: its lock goes with it, its files stay. *)
Die(s) ==
  /\ stage[s] \notin {"begin", "ended"} /\ Goto(s, "ended")
  /\ outcome' = [outcome EXCEPT ![s] = "died"]
  /\ publisher' = IF publisher = s THEN Nobody ELSE publisher
  /\ UNCHANGED <<files, current, destroyed, overtaken, edits>>

(* Another program writes the file in place, renames one over it, or
   removes it. *)
Edit ==
  /\ edits < MaxEdits /\ edits' = edits + 1
  /\ \/ /\ entry # NoInode
        /\ bytes' = [bytes EXCEPT ![entry] = edits + 1] /\ Touched({entry}) /\ UNCHANGED entry
     \/ /\ entry' = edits + 1 /\ bytes' = [bytes EXCEPT ![edits + 1] = edits + 1]
        /\ UNCHANGED changed
     \/ entry # NoInode /\ entry' = NoInode /\ UNCHANGED <<bytes, changed>>
  /\ UNCHANGED <<staged, stage, current, publisher, outcome, destroyed, overtaken>>
-----------------------------------------------------------------------------
SaveInit ==
  /\ entry \in {NoInode, 0} /\ staged = [s \in Savers |-> NoInode]
  /\ bytes = [i \in Inodes |-> i] /\ changed = [i \in Inodes |-> 0]
  /\ stage = [s \in Savers |-> "begin"] /\ current = [s \in Savers |-> Missing]
  /\ publisher = Nobody /\ outcome = [s \in Savers |-> "none"]
  /\ destroyed = [s \in Savers |-> {}] /\ overtaken = {} /\ edits = 0

SaveNext ==
  \/ \E s \in Savers :
       \/ Sight(s) \/ Reread(s) \/ Stage(s) \/ AbortSave(s) \/ Lock(s)
       \/ Link(s) \/ Unlink(s) \/ Compare(s) \/ Exchange(s) \/ Verify(s)
       \/ Restore(s) \/ Restored(s) \/ Confirm(s) \/ Die(s)
  \/ Edit

SaveSpec == SaveInit /\ [][SaveNext]_saveVars
-----------------------------------------------------------------------------
(* Besides its own bytes a save removes nothing from the disk but the file it
   had read, which no other save removes: saves that started from the same file
   never both replace it.  And one that did not succeed is not what the catalog
   shows.  Excepted is a rollback that another program overtakes between its
   last look and its exchange (README, section 10). *)
ReplacesWhatItSaw == \A s \in Savers :
  /\ \A b \in destroyed[s] \ {s} :
       \/ /\ current[s] # Missing /\ b = current[s].bytes
          /\ \A t \in Savers \ {s} : b \notin destroyed[t]
       \/ s \in overtaken
  /\ outcome[s] \in {"refused", "aborted", "stale", "retained"} => ~(entry # NoInode /\ bytes[entry] = s)

(* The comment at index.ts:911-912: a third writer "wins without being
   overwritten by cleanup". It does not: see the README. *)
ThirdWriterWins == overtaken = {}

(* The comment at index.ts:172: one unreadable file "must not hide the rest of
   the catalog", which a file with two names does. It does not hold: see the
   README. *)
CatalogIsReadable == entry # NoInode => Regular
=============================================================================
