------------------------------ MODULE MCAxiVip ------------------------------
(***************************************************************************)
(* All builds but the one whose destructors meet (README, section 7).      *)
(***************************************************************************)
EXTENDS AxiVip

BuildsValue == ((0 .. 2) \X BOOLEAN) \ {<<0, TRUE>>}
=============================================================================
