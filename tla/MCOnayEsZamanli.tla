--------------------------- MODULE MCOnayEsZamanli --------------------------
(***************************************************************************)
(* Instances of OnayEsZamanli: the flows whose requests race.              *)
(***************************************************************************)
EXTENDS OnayEsZamanli, TLC

CONSTANTS a1, a2, a3

\* Two steps one after the other.
MCSirali == (a1 :> 1) @@ (a2 :> 2)

\* Two steps side by side, then a last one.
MCParalel == (a1 :> 1) @@ (a2 :> 1) @@ (a3 :> 2)

\* Any one approval of a group is enough; all of the group must approve.
MCBiri == [a \in Adim |-> FALSE]
MCTumu == [a \in Adim |-> TRUE]

\* Handler slots are interchangeable.
MCSimetri == Permutations(Istek)
=============================================================================
