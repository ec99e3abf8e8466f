------------------------------ MODULE MCZimmet ------------------------------
(***************************************************************************)
(* Instances of Zimmet for model checking.                                 *)
(***************************************************************************)
EXTENDS Zimmet, TLC

\* Employees and threads are interchangeable.
MCSimetri == Permutations(Calisanlar) \cup Permutations(Istekler)
=============================================================================
