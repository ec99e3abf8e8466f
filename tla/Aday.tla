-------------------------------- MODULE Aday --------------------------------
(***************************************************************************)
(* Candidates: how they are invited (modules/basvuru) or apply by          *)
(* themselves (modules/kariyer), give their consent and hand in the form   *)
(* behind a link that expires, and how the staff moves them through their  *)
(* states (modules/ik, modules/proje).  ik's own aday_ekle is missing: it  *)
(* passes a column that Aday does not have and always fails.               *)
(***************************************************************************)
EXTENDS Oturum

CONSTANTS
    Adaylar,   \* ids for rows of adaylar
    Tcler,     \* identity numbers
    MaxIcerik  \* bound: forms filled in

\* "degerlendiriliyor" stands for mulakat and teklif too.
AdayDurumlari ==
    {"davet_gonderildi", "form_bekleniyor", "basvurdu", "degerlendiriliyor", "ise_alindi", "red"}

\* link: what davet_token and its expiry say.  icerik: which filled-in form the columns
\* hold that only the applicant's form writes; 0 is none.
AdaySatiri ==
    [durum : AdayDurumlari, silindi : BOOLEAN, link : {"yok", "gecerli", "gecmis"},
     kvkk : BOOLEAN, tamam : BOOLEAN, icerik : 0..MaxIcerik, tc : Tcler \cup {Yok}]

ASSUME AdayAssumption ==
    /\ MaxIcerik \in Nat
    /\ Yok \notin AdaySatiri
    /\ Yok \notin Tcler \cup Adaylar

VARIABLE aday  \* the candidates

AdayInit == aday = [a \in Adaylar |-> Yok]

YeniAday(d, l, k) ==
    [durum |-> d, silindi |-> FALSE, link |-> l, kvkk |-> k, tamam |-> FALSE,
     icerik |-> 0, tc |-> Yok]

AdayEkle(yeniler, satir) ==
    /\ \A a \in yeniler : aday[a] = Yok
    /\ aday' = [a \in Adaylar |-> IF a \in yeniler THEN satir ELSE aday[a]]
    /\ UNCHANGED oturum

\* aday_davet.
AdayDavet(a) == AdayEkle({a}, YeniAday("davet_gonderildi", "gecerli", FALSE))

\* toplu_davet: one commit for all lines, after their messages are sent.
TopluDavet(yeniler) == AdayEkle(yeniler, YeniAday("davet_gonderildi", "gecerli", FALSE))

\* kariyer kvkk_onayla: consent first, the person later.
KariyerKvkk(a) == AdayEkle({a}, YeniAday("form_bekleniyor", "gecerli", TRUE))

\* proje kadro_aday_ekle.
KadroAdayEkle(a) == AdayEkle({a}, YeniAday("basvurdu", "yok", FALSE))

\* 72 hours are over.
LinkSuresi(a) ==
    /\ aday[a] # Yok
    /\ aday[a].link = "gecerli"
    /\ aday' = [aday EXCEPT ![a].link = "gecmis"]
    /\ UNCHANGED oturum

-----------------------------------------------------------------------------

AdayFarkla(i, a, fark) ==
    /\ aday[a] # Yok
    /\ Basla(i, [is |-> "aday", aday |-> a, fark |-> fark])
    /\ UNCHANGED aday

\* A handler that has loaded candidate a and will turn the row into yeni.
AdayYazar(i, a, yeni) == AdayFarkla(i, a, Fark(aday[a], yeni))

\* davet_tekrar, for a candidate in any state; the link is a new one.
DavetTekrarOku(i, a) ==
    /\ aday[a] # Yok
    /\ LET fark == Fark(aday[a], [aday[a] EXCEPT !.durum = "davet_gonderildi"])
       IN  AdayFarkla(i, a, [k \in DOMAIN fark \cup {"link"} |->
                               IF k = "link" THEN "gecerli" ELSE fark[k]])

\* The candidate comes with a link that leads to the row and is valid.
LinkGecerli(a) == aday[a] # Yok /\ ~aday[a].silindi /\ aday[a].link = "gecerli"

\* basvuru kvkk_onayla: also after the form was handed in.
KvkkOnaylaOku(i, a) ==
    /\ LinkGecerli(a)
    /\ AdayYazar(i, a, [aday[a] EXCEPT !.kvkk = TRUE, !.durum = "form_bekleniyor"])

\* The form is filled in; tc is what it says.
Basvurmus(a, f, tc) ==
    [aday[a] EXCEPT !.tamam = TRUE, !.durum = "basvurdu", !.icerik = f, !.tc = tc]

\* Mutant: an invitation that is repeated admits the form again.
FormOku_tekrar(i, a, f, tc) ==
    /\ LinkGecerli(a)
    /\ aday[a].kvkk
    /\ ~aday[a].tamam \/ aday[a].durum = "davet_gonderildi"
    /\ AdayYazar(i, a, Basvurmus(a, f, tc))

\* basvuru basvuru_form.
FormOku(i, a, f, tc) ==
    /\ LinkGecerli(a)
    /\ aday[a].kvkk
    /\ ~aday[a].tamam
    /\ AdayYazar(i, a, Basvurmus(a, f, tc))

\* kariyer basvuru_form: takes any link, and does not ask for the consent.
KariyerFormOku(i, a, f, tc) ==
    /\ LinkGecerli(a)
    /\ ~aday[a].tamam
    /\ AdayYazar(i, a, Basvurmus(a, f, tc))

\* ik aday_duzenle (the telephone number, which it compares with others', is left out).
AdayDuzenleOku(i, a, tc) ==
    /\ aday[a] # Yok
    /\ AdayYazar(i, a, [aday[a] EXCEPT !.tc = tc])

\* ik aday_durum_degistir: whatever the form says.
AdayDurumOku(i, a, d) ==
    /\ aday[a] # Yok
    /\ AdayYazar(i, a, [aday[a] EXCEPT !.durum = d])

\* proje aday_durum_degistir.
ProjeDurumOku(i, a, d) ==
    /\ d \in {"basvurdu", "degerlendiriliyor", "ise_alindi", "red"}
    /\ AdayDurumOku(i, a, d)

\* proje aday_reddet.
AdayReddetOku(i, a) == AdayDurumOku(i, a, "red")

\* ik aday_sil: the row stays, and only the applicant's pages look at is_deleted.
AdaySilOku(i, a) ==
    /\ aday[a] # Yok
    /\ AdayYazar(i, a, [aday[a] EXCEPT !.silindi = TRUE])

AdayYaz(i) ==
    LET r == istek[i] IN
    /\ r.is = "aday"
    /\ aday' = [aday EXCEPT ![r.aday] = Uygula(@, r.fark)]
    /\ Bitti(i)

AdayBirak(i) ==
    /\ istek[i].is = "aday"
    /\ Bitti(i)
    /\ UNCHANGED aday

AdayNext ==
    \/ \E yeniler \in SUBSET Adaylar : TopluDavet(yeniler)
    \/ \E a \in Adaylar : AdayDavet(a) \/ KariyerKvkk(a) \/ KadroAdayEkle(a) \/ LinkSuresi(a)
    \/ \E i \in Istekler :
         \/ \E a \in Adaylar :
              \/ DavetTekrarOku(i, a)
              \/ KvkkOnaylaOku(i, a)
              \/ \E f \in 1..MaxIcerik, tc \in Tcler \cup {Yok} :
                   FormOku(i, a, f, tc) \/ KariyerFormOku(i, a, f, tc)
              \/ \E tc \in Tcler \cup {Yok} : AdayDuzenleOku(i, a, tc)
              \/ \E d \in AdayDurumlari : AdayDurumOku(i, a, d) \/ ProjeDurumOku(i, a, d)
              \/ AdayReddetOku(i, a)
              \/ AdaySilOku(i, a)
         \/ AdayYaz(i)
         \/ AdayBirak(i)

AdaySpec == OturumInit /\ AdayInit /\ [][AdayNext]_<<oturum, aday>>

-----------------------------------------------------------------------------
(* Properties.                                                             *)

AdayTypeOK == aday \in [Adaylar -> AdaySatiri \cup {Yok}]

\* "Zaten tamamlandı mı?": handled one after the other, what an applicant handed in is
\* not replaced by another form and stays handed in, through every repeated invitation
\* and consent, both forms, and every state the staff sets.
TekBasvuru ==
    [][\A a \in Adaylar :
         Sirali /\ aday[a] # Yok /\ aday[a].tamam =>
             aday'[a].tamam /\ aday'[a].icerik = aday[a].icerik]_aday
=============================================================================
