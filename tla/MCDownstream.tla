---------------------------- MODULE MCDownstream ----------------------------
(***************************************************************************)
(* Instances of Downstream.                                                *)
(***************************************************************************)
EXTENDS Downstream, TLC

\* The servers are interchangeable, and so are the tokens.
ServerSymmetry == Permutations(Servers) \cup Permutations(Tokens)
=============================================================================
