------------------------- MODULE MCTranscriptWriter --------------------------
(***************************************************************************)
(* The transcript writer for the model checker.  Insertion 1 hands in a    *)
(* message, 2 hands it in again, 3 a snapshot of the session, 4 an entry   *)
(* for the file of a subagent.                                             *)
(***************************************************************************)
EXTENDS TranscriptWriter, TLC

CONSTANTS main, side, r1

MCInserts == 1..4
MCMessages == 1..2
MCMessage == <<"a", "a", "b">>
MCFileOf == [c \in Inserts |-> IF c = 4 THEN side ELSE main]
MCTarget == r1 :> "a"
==============================================================================
