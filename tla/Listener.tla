------------------------------ MODULE Listener ------------------------------
(***************************************************************************)
(* The two parts of the :8732 listener that work on a client's bytes: the  *)
(* connection of ControlRequest, and the compare of TokenEq that its       *)
(* Authorised stands for (handle_add_key calls constant_time_eq).  The     *)
(* compare runs without an await on two strings of its own and gives an    *)
(* answer, which is all the two share: a behaviour is either that of a     *)
(* connection, with nothing to compare, or that of one compare.            *)
(***************************************************************************)
EXTENDS ControlRequest, TokenEq

varsL == <<varsC, varsE>>

NothingToCompare == a = <<>> /\ b = <<>>

OneConnection == InitC /\ InitE /\ NothingToCompare

(* The connection then rests where it began, in one of its initial states. *)
OneCompare ==
  /\ InitC /\ size = (CHOOSE n \in Sizes : TRUE)
  /\ req = [path |-> "keys", method |-> "POST", token |-> "wrong", body |-> "notjson"]
  /\ cap = "none" /\ cell = TRUE
  /\ InitE

InitL == OneConnection \/ OneCompare

ConnectionStep(A) == NothingToCompare /\ A /\ UNCHANGED varsE

NextL == ConnectionStep(NextC) \/ (NextE /\ UNCHANGED varsC)

SpecL == InitL /\ [][NextL]_varsL

(* The fairness of the two, each for the steps it takes.                   *)
FairSpecL ==
  /\ SpecL
  /\ WF_varsL(ConnectionStep(Server /\ Reading))
  /\ WF_varsL(ConnectionStep((\E n \in 1 .. size : Arrive(n)) /\ Reading))
  /\ WF_varsL(ConnectionStep(Route))
  /\ WF_varsL(Fold /\ UNCHANGED varsC)
=============================================================================
