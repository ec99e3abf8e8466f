----------------------------- MODULE MCPersonel -----------------------------
(***************************************************************************)
(* Model checking candidates, employees, positions and users.  Each        *)
(* behaviour stays with one part (kapsam) of them; the parts alim and      *)
(* kadro are the ones in which several modules' actions meet.              *)
(***************************************************************************)
EXTENDS Kadro, Dogrulama, Yetki, TLC

CONSTANTS
    rolAdi, kod1, kod2  \* the name of a role, two permissions

\* One project and one position of the script.
McTohumProjeleri == [p \in Projeler |-> CHOOSE m \in Musteriler : TRUE]
McTohumKadrolari ==
    [k \in {CHOOSE k \in Kadrolar : TRUE} |->
        [proje |-> CHOOSE p \in Projeler : TRUE, hedef |-> MaxHedef]]

VARIABLE kapsam  \* the part

otpVars == <<otp, gonderilen>>
iseAlimKalan == <<calisanVars, tip, evrak, dosya>>

vars == <<kapsam, oturum, iseAlimVars, kadroVars, otpVars, yetkiVars>>

\* One role, that both the settings page and the script enter.
McVarsayilanYetkiler == {kod1}
McTohumYetkiler == {kod2}
McVarsayilanRoller == [r \in {rolAdi} |-> {kod1, kod2}]
McTohumRoller == [r \in {rolAdi} |-> {kod2}]

Init ==
    /\ kapsam \in {"aday", "sicil", "cikis", "alim", "otp", "kadro", "hesap", "rol", "bag"}
    /\ OturumInit
    /\ IseAlimInit
    /\ DogrulamaInit
    /\ KadroInit
    /\ YetkiInit

Next ==
    /\ UNCHANGED kapsam
    /\ \/ /\ kapsam = "aday" /\ AdayNext
          /\ UNCHANGED <<iseAlimKalan, kadroVars, otpVars, yetkiVars>>
       \/ /\ \/ kapsam = "sicil" /\ SicilNext
             \/ kapsam = "cikis" /\ CikisNext
          /\ UNCHANGED <<aday, tip, evrak, dosya, kadroVars, otpVars, yetkiVars>>
       \/ /\ kapsam = "alim" /\ IseAlimNext
          /\ UNCHANGED <<kadroVars, otpVars, yetkiVars>>
       \/ /\ kapsam = "kadro" /\ KadroNext
          /\ UNCHANGED <<otpVars, yetkiVars>>
       \/ /\ kapsam = "otp" /\ DogrulamaNext
          /\ UNCHANGED <<iseAlimKalan, kadroVars, yetkiVars>>
       \/ /\ \/ kapsam = "hesap" /\ HesapNext
             \/ kapsam = "rol" /\ RolNext
             \/ kapsam = "bag" /\ BagNext
          /\ UNCHANGED <<iseAlimVars, kadroVars, otpVars>>

Spec == Init /\ [][Next]_vars

Simetri == Permutations(Istekler) \cup Permutations(Calisanlar) \cup Permutations(Roller)

TypeOK == IseAlimTypeOK /\ DogrulamaTypeOK /\ KadroTypeOK /\ YetkiTypeOK
=============================================================================
