----------------------------- MODULE MCServices -----------------------------
(* Four components that share no state, for TLC: a behaviour moves one of
   them, and the others stay in their initial states. *)
EXTENDS ClientController, CompletionNotice, DefinitionSave, RunRecorder
CONSTANTS o1, p1, p2
VARIABLE part

Parent == [n \in Notices |-> o1]
Sizes  == [n \in Notices |-> IF n = 2 THEN 3 ELSE 1]

Init == part \in {"client", "notices", "saves", "record"} /\ ClientInit /\ NoticeInit /\ SaveInit /\ RecordInit
        /\ (part # "saves" => entry = NoInode)
Next ==
  \/ part = "client" /\ ClientNext /\ UNCHANGED <<part, noticeVars, saveVars, recordVars>>
  \/ part = "notices" /\ NoticeNext /\ UNCHANGED <<part, clientVars, saveVars, recordVars>>
  \/ part = "saves" /\ SaveNext /\ UNCHANGED <<part, clientVars, noticeVars, recordVars>>
  \/ part = "record" /\ RecordNext /\ UNCHANGED <<part, clientVars, noticeVars, saveVars>>
Spec == Init /\ [][Next]_<<part, clientVars, noticeVars, saveVars, recordVars>> /\ (part = "client" => ClientFairness)
=============================================================================
