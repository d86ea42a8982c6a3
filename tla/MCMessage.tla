------------------------------ MODULE MCMessage ------------------------------
(***************************************************************************)
(* The two halves of a message's way into the spinner's symbols, checked   *)
(* in one run: frames made by Framer, and a stream filled and read by      *)
(* Bitstream.  They share no variable: the framer models a stream of its   *)
(* own by its length and its last ten bits.  Each half is checked with the *)
(* other one as it begins, in one of the ways it can begin.                *)
(***************************************************************************)
EXTENDS Framer, Bitstream

ASomeJob == CHOOSE j \in Job : TRUE

MCInit ==
  /\ Init /\ StreamInit
  /\ job = ASomeJob \/ m_exp = 1

MCNext ==
  \/ m_exp = 1 /\ phase = "fill" /\ stream.len = 0 /\ Next /\ UNCHANGED streamVars
  \/ job = ASomeJob /\ at = "check" /\ StreamNext /\ UNCHANGED vars

MCSpec == MCInit /\ [][MCNext]_<<vars, streamVars>>
=============================================================================
