-------------------------- MODULE MCUpdateIntake --------------------------
(* Two bots and one chat they share. *)
EXTENDS UpdateIntake, TLC

(* Updates 4 and 5 go to the second bot; 3, if sent, has no chat. *)
TwoBotsOf == [u \in Updates |-> IF u >= 4 THEN "second" ELSE "first"]
SharedChatOf == [u \in Updates |-> IF u = 3 THEN NoChat ELSE "group"]
=============================================================================
