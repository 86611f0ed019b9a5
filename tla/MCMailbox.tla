------------------------------ MODULE MCMailbox ------------------------------
(***************************************************************************)
(* The mailbox for the model checker: a message of each urgency.           *)
(***************************************************************************)
EXTENDS Mailbox, TLC

CONSTANTS w1, w2, p1, p2

MCWriters == {w1, w2}
MCPolls == {p1, p2}
MCUrgency == w1 :> 3 @@ w2 :> 1
==============================================================================
