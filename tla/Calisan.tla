------------------------------ MODULE Calisan -------------------------------
(***************************************************************************)
(* Employees and how they leave the company (modules/ik).                  *)
(***************************************************************************)
EXTENDS Oturum

CONSTANTS
    Calisanlar,  \* ids for rows of calisanlar
    Cikislar,    \* ids for rows of isten_cikislar
    Kimlikler    \* identity numbers

CalisanDurumu == {"aday", "aktif", "izinli", "askiya_alindi", "ayrildi"}

\* ayrilma: whether isten_ayrilma and ayrilma_nedeni are entered.
CalisanSatiri ==
    [durum : CalisanDurumu, tc : Kimlikler \cup {Yok}, ayrilma : BOOLEAN]

\* gercek: whether gerceklesen_cikis_tarihi is entered.
CikisSatiri ==
    [calisan : Calisanlar, durum : {"basladi", "devam_ediyor", "tamamlandi"}, gercek : BOOLEAN]

ASSUME CalisanAssumption ==
    /\ Yok \notin CalisanSatiri \cup CikisSatiri
    /\ Yok \notin Kimlikler \cup CalisanDurumu \cup Cikislar

VARIABLES
    calisan,  \* the employees
    cikis     \* the records of leaving

calisanVars == <<calisan, cikis>>

CalisanInit ==
    /\ calisan = [c \in Calisanlar |-> Yok]
    /\ cikis = [x \in Cikislar |-> Yok]

YeniCalisan(d, tc) == [durum |-> d, tc |-> tc, ayrilma |-> FALSE]

\* Whether an employee other than c has the number tc.
TcBaskasinda(c, tc) ==
    tc # Yok /\ \E d \in Calisanlar \ {c} : calisan[d] # Yok /\ calisan[d].tc = tc

\* ekle, which looks for the number first.
CalisanEkleOku(i, c, d, tc) ==
    /\ calisan[c] = Yok
    /\ ~TcBaskasinda(c, tc)
    /\ Basla(i, [is |-> "calisan_ekle", calisan |-> c, satir |-> YeniCalisan(d, tc)])
    /\ UNCHANGED calisanVars

\* Its insert; the unique index on tc_kimlik may refuse it (CalisanBirak).
CalisanEkle(i) ==
    LET r == istek[i] IN
    /\ r.is = "calisan_ekle"
    /\ calisan[r.calisan] = Yok
    /\ ~TcBaskasinda(r.calisan, r.satir.tc)
    /\ calisan' = [calisan EXCEPT ![r.calisan] = r.satir]
    /\ Bitti(i)
    /\ UNCHANGED cikis

\* A handler that will write to employee c and, unless x is Yok, to record x.
CalisanYazar(i, c, cfark, x, xfark) ==
    /\ Basla(i, [is |-> "calisan", calisan |-> c, cfark |-> cfark, cikis |-> x, xfark |-> xfark])
    /\ UNCHANGED calisanVars

\* duzenle: the form may set any state, also for one who has left.
CalisanDuzenleOku(i, c, d, tc) ==
    /\ calisan[c] # Yok
    /\ ~TcBaskasinda(c, tc)
    /\ CalisanYazar(i, c, Fark(calisan[c], [calisan[c] EXCEPT !.durum = d, !.tc = tc]), Yok, HicFark)

\* Mutant: the state is one that no page knows.
CikisGuncelleOku_yazim(i, x, tamam) ==
    /\ cikis[x] # Yok
    /\ CalisanYazar(i, cikis[x].calisan, HicFark, x,
         Fark(cikis[x], IF tamam THEN [cikis[x] EXCEPT !.durum = "tamam"] ELSE cikis[x]))

\* isten_cikis_guncelle; tamam: both boxes that count are ticked.  A record that is
\* completed is under way again then.
CikisGuncelleOku(i, x, tamam) ==
    /\ cikis[x] # Yok
    /\ CalisanYazar(i, cikis[x].calisan, HicFark, x,
         Fark(cikis[x], IF tamam THEN [cikis[x] EXCEPT !.durum = "devam_ediyor"] ELSE cikis[x]))

\* Mutant: only a record on which everything is ticked gets the date.
CikisTamamlaOku_gerceksiz(i, x) ==
    /\ cikis[x] # Yok
    /\ LET c == cikis[x].calisan
       IN  CalisanYazar(i, c, Fark(calisan[c], [calisan[c] EXCEPT !.durum = "ayrildi", !.ayrilma = TRUE]),
                        x, Fark(cikis[x], [cikis[x] EXCEPT !.durum = "tamamlandi",
                                                           !.gercek = cikis[x].durum = "devam_ediyor"]))

\* isten_cikis_tamamla, whatever is ticked.
CikisTamamlaOku(i, x) ==
    /\ cikis[x] # Yok
    /\ LET c == cikis[x].calisan
       IN  CalisanYazar(i, c, Fark(calisan[c], [calisan[c] EXCEPT !.durum = "ayrildi", !.ayrilma = TRUE]),
                        x, Fark(cikis[x], [cikis[x] EXCEPT !.durum = "tamamlandi", !.gercek = TRUE]))

\* Commit of the handlers above.
CalisanYaz(i) ==
    LET r == istek[i] IN
    /\ r.is = "calisan"
    /\ "tc" \in DOMAIN r.cfark => ~TcBaskasinda(r.calisan, r.cfark.tc)
    /\ calisan' = [calisan EXCEPT ![r.calisan] = Uygula(@, r.cfark)]
    /\ cikis' = IF r.cikis = Yok THEN cikis
                ELSE [cikis EXCEPT ![r.cikis] = Uygula(@, r.xfark)]
    /\ Bitti(i)

\* isten_cikis_baslat, for an employee in any state and with other records or without.
CikisBaslatOku(i, c, x) ==
    /\ calisan[c] # Yok
    /\ cikis[x] = Yok
    /\ Basla(i, [is |-> "cikis_ekle", calisan |-> c, cikis |-> x,
                 cfark |-> Fark(calisan[c], [calisan[c] EXCEPT !.durum = "askiya_alindi"])])
    /\ UNCHANGED calisanVars

CikisBaslat(i) ==
    LET r == istek[i] IN
    /\ r.is = "cikis_ekle"
    /\ cikis[r.cikis] = Yok
    /\ cikis' = [cikis EXCEPT ![r.cikis] =
         [calisan |-> r.calisan, durum |-> "basladi", gercek |-> FALSE]]
    /\ calisan' = [calisan EXCEPT ![r.calisan] = Uygula(@, r.cfark)]
    /\ Bitti(i)

CalisanBirak(i) ==
    /\ istek[i].is \in {"calisan_ekle", "calisan", "cikis_ekle"}
    /\ Bitti(i)
    /\ UNCHANGED calisanVars

\* Employees are entered and edited.
SicilNext ==
    \E i \in Istekler :
        \/ \E c \in Calisanlar, d \in CalisanDurumu, tc \in Kimlikler \cup {Yok} :
             CalisanEkleOku(i, c, d, tc) \/ CalisanDuzenleOku(i, c, d, tc)
        \/ CalisanEkle(i)
        \/ CalisanYaz(i)
        \/ CalisanBirak(i)

\* Employees leave, and are edited meanwhile.
CikisNext ==
    \E i \in Istekler :
        \/ \E c \in Calisanlar :
             \/ CalisanEkleOku(i, c, "aktif", Yok)
             \/ \E d \in CalisanDurumu : CalisanDuzenleOku(i, c, d, Yok)
             \/ \E x \in Cikislar : CikisBaslatOku(i, c, x)
        \/ \E x \in Cikislar :
             \/ \E tamam \in BOOLEAN : CikisGuncelleOku(i, x, tamam)
             \/ CikisTamamlaOku(i, x)
        \/ CalisanEkle(i)
        \/ CalisanYaz(i)
        \/ CikisBaslat(i)
        \/ CalisanBirak(i)

CalisanNext == SicilNext \/ CikisNext

CalisanSpec == OturumInit /\ CalisanInit /\ [][CalisanNext]_<<oturum, calisanVars>>

-----------------------------------------------------------------------------
(* Properties.                                                             *)

CalisanTypeOK ==
    /\ calisan \in [Calisanlar -> CalisanSatiri \cup {Yok}]
    /\ cikis \in [Cikislar -> CikisSatiri \cup {Yok}]

\* isten_cikis_tamamla: an employee is entered as having left exactly if a record of
\* leaving has its date, whatever the records say later, however their handlers
\* overlap, and also if several records were started for one employee.
CikisTutarli ==
    /\ \A c \in Calisanlar : calisan[c] # Yok =>
         (calisan[c].ayrilma <=>
            \E x \in Cikislar : cikis[x] # Yok /\ cikis[x].calisan = c /\ cikis[x].gercek)
    /\ \A x \in Cikislar :
         cikis[x] # Yok /\ cikis[x].durum = "tamamlandi" => cikis[x].gercek
=============================================================================
