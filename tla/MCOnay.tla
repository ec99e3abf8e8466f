------------------------------- MODULE MCOnay -------------------------------
(***************************************************************************)
(* Instances of Onay for model checking.                                   *)
(***************************************************************************)
EXTENDS Onay, TLC

CONSTANTS u1, u2

\* A step a named user approves.
MCKisi(u, tumu) == [tip |-> "kullanici", kisi |-> u, tumu |-> tumu]

\* Steps by name, by role, by manager and by a type nothing resolves.
MCKarisik ==
    {MCKisi(u1, FALSE),
     [tip |-> "rol", kisi |-> Yok, tumu |-> TRUE],
     [tip |-> "yonetici", kisi |-> Yok, tumu |-> FALSE],
     [tip |-> "diger", kisi |-> Yok, tumu |-> FALSE]}

\* Steps by name only, in both modes.
MCIsimli == {MCKisi(u1, FALSE), MCKisi(u2, FALSE), MCKisi(u2, TRUE)}

\* Row ids and sessions are interchangeable.
MCSimetri == Permutations(Adim) \cup Permutations(Admin) \cup Permutations(Talep)
=============================================================================
