------------------------------ MODULE MCBelge -------------------------------
(***************************************************************************)
(* Instances of Belge, under both loads of BelgeIsci, for model checking.  *)
(***************************************************************************)
EXTENDS BelgeIsci, TLC

\* Row ids and handler slots are interchangeable.
MCSimetri ==
    Permutations(Masraf) \cup Permutations(SatinAlma)
        \cup Permutations(OnayTalebi) \cup Permutations(Istek)
=============================================================================
