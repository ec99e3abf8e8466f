----------------------------- MODULE Dogrulama ------------------------------
(***************************************************************************)
(* The one-time code that verifies an applicant's telephone                *)
(* (modules/basvuru, models/ik).                                           *)
(***************************************************************************)
EXTENDS Aday, FiniteSets

CONSTANT MaxKod  \* bound: codes sent to a candidate

\* The limit in verify_otp.
DenemeHakki == 3

\* gecerli: the code has not expired.  kod is 0 when there is none.  yanlis: the wrong
\* codes that were judged since the code in the row was sent.
KodSatiri ==
    [kod : 0..MaxKod, gecerli : BOOLEAN, deneme : 0..DenemeHakki, dogrulandi : BOOLEAN,
     yanlis : Nat]

ASSUME DogrulamaAssumption ==
    /\ MaxKod \in Nat
    /\ IsFiniteSet(Istekler)

VARIABLES
    otp,        \* the columns for the code, for each candidate
    gonderilen  \* codes sent to each candidate

dogrulamaVars == <<aday, otp, gonderilen>>

DogrulamaInit ==
    /\ AdayInit
    /\ otp = [a \in Adaylar |-> [kod |-> 0, gecerli |-> FALSE, deneme |-> 0,
                                 dogrulandi |-> FALSE, yanlis |-> 0]]
    /\ gonderilen = [a \in Adaylar |-> 0]

\* send_otp_sms: the message goes out before the commit.
KodOku(i, a) ==
    LET yeni == [otp[a] EXCEPT !.kod = gonderilen[a] + 1, !.gecerli = TRUE, !.deneme = 0]
        fark == Fark(otp[a], yeni)
    IN  /\ gonderilen[a] < MaxKod
        /\ gonderilen' = [gonderilen EXCEPT ![a] = @ + 1]
        /\ Basla(i, [is |-> "otp", aday |-> a, yanlis |-> 0,
                     fark |-> [k \in DOMAIN fark \cup {"gecerli"} |-> yeni[k]]])
        /\ UNCHANGED <<aday, otp>>

\* telefon_dogrula, action send_code.
KodGonderOku(i, a) ==
    /\ LinkGecerli(a)
    /\ aday[a].kvkk
    /\ ~otp[a].dogrulandi
    /\ KodOku(i, a)

\* kod_tekrar_gonder: also without consent and when the telephone is verified.
KodTekrarOku(i, a) ==
    /\ LinkGecerli(a)
    /\ KodOku(i, a)

\* Five minutes are over.
KodSuresi(a) ==
    /\ otp[a].gecerli
    /\ otp' = [otp EXCEPT ![a].gecerli = FALSE]
    /\ UNCHANGED <<aday, gonderilen, oturum>>

\* Mutant: a wrong code is counted only while another one may follow.
SonrakiDeneme_eksik(a) == IF otp[a].deneme < DenemeHakki - 1 THEN otp[a].deneme + 1 ELSE otp[a].deneme

SonrakiDeneme(a) == otp[a].deneme + 1

\* verify_otp for the code that was sent (dogru) or another one.
DogrulaOku(i, a, dogru) ==
    /\ LinkGecerli(a)
    /\ aday[a].kvkk
    /\ ~otp[a].dogrulandi
    /\ otp[a].kod # 0
    /\ otp[a].gecerli
    /\ otp[a].deneme < DenemeHakki
    /\ Basla(i, [is |-> "otp", aday |-> a, yanlis |-> IF dogru THEN 0 ELSE otp[a].kod,
                 fark |-> Fark(otp[a], IF dogru THEN [otp[a] EXCEPT !.dogrulandi = TRUE, !.kod = 0]
                                       ELSE [otp[a] EXCEPT !.deneme = SonrakiDeneme(a)])])
    /\ UNCHANGED dogrulamaVars

\* Commit of the three.
KodYaz(i) ==
    LET r == istek[i]
        satir == Uygula(otp[r.aday], r.fark)
    IN  /\ r.is = "otp"
        /\ otp' = [otp EXCEPT ![r.aday] =
             [satir EXCEPT !.yanlis = IF satir.kod # otp[r.aday].kod THEN 0
                                      ELSE IF r.yanlis = satir.kod /\ r.yanlis # 0 THEN @ + 1
                                      ELSE @]]
        /\ Bitti(i)
        /\ UNCHANGED <<aday, gonderilen>>

DogrulamaBirak(i) ==
    /\ istek[i].is = "otp"
    /\ Bitti(i)
    /\ UNCHANGED dogrulamaVars

\* For candidates who gave their consent or not.
DogrulamaNext ==
    \/ /\ \E a \in Adaylar : AdayDavet(a) \/ KariyerKvkk(a) \/ LinkSuresi(a)
       /\ UNCHANGED <<otp, gonderilen>>
    \/ \E a \in Adaylar : KodSuresi(a)
    \/ \E i \in Istekler :
         \/ \E a \in Adaylar :
              \/ KodGonderOku(i, a)
              \/ KodTekrarOku(i, a)
              \/ \E dogru \in BOOLEAN : DogrulaOku(i, a, dogru)
         \/ KodYaz(i)
         \/ DogrulamaBirak(i)

DogrulamaSpec == OturumInit /\ DogrulamaInit /\ [][DogrulamaNext]_<<oturum, dogrulamaVars>>

-----------------------------------------------------------------------------
(* Properties.                                                             *)

DogrulamaTypeOK ==
    /\ AdayTypeOK
    /\ otp \in [Adaylar -> KodSatiri]
    /\ gonderilen \in [Adaylar -> 0..MaxKod]

\* "Çok fazla yanlış deneme": handled one after the other, no code outlives three wrong
\* tries; of overlapping tries each may be the third, and an older one that commits
\* late sets the counter back.  With two threads nine are possible, and no more.
DenemeSiniri ==
    \A a \in Adaylar :
        /\ Sirali => otp[a].yanlis <= DenemeHakki
        /\ Cardinality(isci) = 2 => otp[a].yanlis <= 9
=============================================================================
