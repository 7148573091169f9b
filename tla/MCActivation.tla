---------------------------- MODULE MCActivation ----------------------------
(***************************************************************************)
(* Instances of Activation for TLC: an inhibition of -2 with the recovery  *)
(* of words (0.4), or a memory of the last draw only.                      *)
(***************************************************************************)
EXTENDS Activation

ThreeDraws == <<-200, -80, -8>>
NoDraws == <<>>
=============================================================================
