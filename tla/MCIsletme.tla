----------------------------- MODULE MCIsletme ------------------------------
(***************************************************************************)
(* Model checking the vehicles, the trainings, the help desk and the files *)
(* beside rows.  They share no row, so each behaviour stays with one part  *)
(* (kapsam) of them.                                                       *)
(***************************************************************************)
EXTENDS AracOlay, Egitim, Destek, Dosyalar, TLC

CONSTANTS
    f1, f2  \* two receipts

\* f2 has more decimals than the column, and is stored like f1.
McSaklanan == [f \in Fisler |-> f1]

VARIABLE kapsam  \* the part

vars == <<kapsam, oturum, aracVars, olay, egitimVars, destekVars, dosyaVars>>

Kapsamlar ==
    {"teslim", "yakit", "olay", "egitim", "katilim", "soru", "test", "talep_ac", "talep",
     "dosya"}

\* An open ticket, for the part in which tickets are handled.
AcikTalep ==
    [no |-> 1, durum |-> "acik", acil |-> FALSE, atanan |-> Yok, atanma |-> FALSE,
     ilkYanit |-> 0, cozum |-> FALSE, kapatma |-> FALSE]

Init ==
    /\ kapsam \in Kapsamlar
    /\ OturumInit
    /\ AracInit
    /\ OlayInit
    /\ EgitimInit
    /\ DosyaInit
    /\ IF kapsam # "talep" THEN DestekInit
       ELSE /\ kategori = [k \in Kategoriler |-> [varsayilan |-> Yok]]
            /\ talep = [t \in Talepler |-> IF t = CHOOSE s \in Talepler : TRUE THEN AcikTalep ELSE Yok]
            /\ yorum = [t \in Talepler |-> << >>]

Next ==
    /\ UNCHANGED kapsam
    /\ \/ /\ \/ kapsam = "teslim" /\ TeslimNext /\ UNCHANGED olay
             \/ kapsam = "yakit" /\ YakitNext /\ UNCHANGED olay
             \/ kapsam = "olay" /\ OlayNext
          /\ UNCHANGED <<egitimVars, destekVars, dosyaVars>>
       \/ /\ \/ kapsam = "egitim" /\ EgitimlerNext
             \/ kapsam = "katilim" /\ KatilimNext
             \/ kapsam = "soru" /\ SoruNext
             \/ kapsam = "test" /\ TestNext
          /\ UNCHANGED <<aracVars, olay, destekVars, dosyaVars>>
       \/ /\ \/ kapsam = "talep_ac" /\ TalepAcNext
             \/ kapsam = "talep" /\ TalepIsleNext
          /\ UNCHANGED <<aracVars, olay, egitimVars, dosyaVars>>
       \/ /\ kapsam = "dosya" /\ DosyaNext
          /\ UNCHANGED <<aracVars, olay, egitimVars, destekVars>>

Spec == Init /\ [][Next]_vars

Simetri == Permutations(Istekler) \cup Permutations(Calisanlar)

TypeOK == AracTypeOK /\ OlayTypeOK /\ EgitimTypeOK /\ DestekTypeOK /\ DosyaTypeOK
=============================================================================
