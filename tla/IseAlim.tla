------------------------------ MODULE IseAlim -------------------------------
(***************************************************************************)
(* From candidate to employee: the documents a candidate must bring, their *)
(* approval, and the two ways of hiring, modules/ik's                      *)
(* aday_calisana_donustur and modules/proje's aday_ise_al.  Composes       *)
(* modules Aday and Calisan.                                               *)
(***************************************************************************)
EXTENDS Aday, Calisan

CONSTANTS
    EvrakTipleri,  \* ids for rows of evrak_tipleri
    Evraklar       \* ids for rows of aday_evraklar

EvrakSatiri ==
    [aday : Adaylar, tip : EvrakTipleri, durum : {"yuklendi", "onaylandi", "reddedildi"}]

\* kopya: the types of the rows of calisan_evraklar.  gereken: the types that were
\* required when aday_calisana_donustur looked; aday: whom it hired.
DosyaSatiri ==
    [kopya : SUBSET EvrakTipleri, gereken : SUBSET EvrakTipleri, aday : Adaylar \cup {Yok}]

ASSUME IseAlimAssumption ==
    /\ Tcler \subseteq Kimlikler
    /\ Yok \notin EvrakSatiri

VARIABLES
    tip,    \* the document types: none yet, required, or not
    evrak,  \* the candidates' documents
    dosya   \* the employees' files

iseAlimVars == <<aday, calisanVars, tip, evrak, dosya>>

IseAlimInit ==
    /\ AdayInit
    /\ CalisanInit
    /\ tip = [v \in EvrakTipleri |-> "yok"]
    /\ evrak = [e \in Evraklar |-> Yok]
    /\ dosya = [c \in Calisanlar |-> [kopya |-> {}, gereken |-> {}, aday |-> Yok]]

\* evrak_tipi_ekle.
EvrakTipiEkle(v, z) ==
    /\ tip[v] = "yok"
    /\ tip' = [tip EXCEPT ![v] = z]
    /\ UNCHANGED <<aday, calisanVars, evrak, dosya, oturum>>

\* aday_evrak_yukle: one document more, also of a type that is there.
EvrakYukle(e, a, v) ==
    /\ evrak[e] = Yok
    /\ aday[a] # Yok
    /\ tip[v] # "yok"
    /\ evrak' = [evrak EXCEPT ![e] = [aday |-> a, tip |-> v, durum |-> "yuklendi"]]
    /\ UNCHANGED <<aday, calisanVars, tip, dosya, oturum>>

EvrakKararOku(i, e, d) ==
    /\ evrak[e] # Yok
    /\ Basla(i, [is |-> "evrak", evrak |-> e, fark |-> Fark(evrak[e], [evrak[e] EXCEPT !.durum = d])])
    /\ UNCHANGED iseAlimVars

\* evrak_onayla.
EvrakOnaylaOku(i, e) == EvrakKararOku(i, e, "onaylandi")

\* evrak_reddet, also of a document that was approved.
EvrakReddetOku(i, e) == EvrakKararOku(i, e, "reddedildi")

EvrakYaz(i) ==
    LET r == istek[i] IN
    /\ r.is = "evrak"
    /\ evrak' = [evrak EXCEPT ![r.evrak] = Uygula(@, r.fark)]
    /\ Bitti(i)
    /\ UNCHANGED <<aday, calisanVars, tip, dosya>>

-----------------------------------------------------------------------------

Zorunlu == {v \in EvrakTipleri : tip[v] = "zorunlu"}

\* The types of the documents of candidate a whose state is in durumlar.
EvrakTipi(a, durumlar) ==
    {evrak[e].tip : e \in {x \in Evraklar :
        evrak[x] # Yok /\ evrak[x].aday = a /\ evrak[x].durum \in durumlar}}

\* A handler that will hire candidate a, with the number tc.
AlimYazar(i, a, tc, gereken, kimden) ==
    /\ Basla(i, [is |-> "alim", aday |-> a, tc |-> tc, gereken |-> gereken, kimden |-> kimden,
                 fark |-> Fark(aday[a], [aday[a] EXCEPT !.durum = "ise_alindi"])])
    /\ UNCHANGED iseAlimVars

\* Mutant: a document that is uploaded counts, as on the page of missing documents.
DonusturOku_yuklenen(i, a) ==
    /\ aday[a] # Yok
    /\ Zorunlu \subseteq EvrakTipi(a, {"yuklendi", "onaylandi"})
    /\ aday[a].kvkk
    /\ AlimYazar(i, a, aday[a].tc, Zorunlu, a)

\* aday_calisana_donustur: the documents and the consent, but not the state.
DonusturOku(i, a) ==
    /\ aday[a] # Yok
    /\ Zorunlu \subseteq EvrakTipi(a, {"onaylandi"})
    /\ aday[a].kvkk
    /\ AlimYazar(i, a, aday[a].tc, Zorunlu, a)

\* aday_ise_al: neither; the number comes from the form.
IseAlOku(i, a, tc) ==
    /\ aday[a] # Yok
    /\ AlimYazar(i, a, tc, {}, Yok)

\* Commit of the two; the first also copies the documents approved by now.  The unique
\* index on tc_kimlik may refuse it (IseAlimBirak).
Alim(i, c) ==
    LET r == istek[i] IN
    /\ r.is = "alim"
    /\ calisan[c] = Yok
    /\ ~TcBaskasinda(c, r.tc)
    /\ calisan' = [calisan EXCEPT ![c] = YeniCalisan("aktif", r.tc)]
    /\ aday' = [aday EXCEPT ![r.aday] = Uygula(@, r.fark)]
    /\ dosya' = [dosya EXCEPT ![c] =
         [kopya |-> IF r.kimden = Yok THEN {} ELSE EvrakTipi(r.aday, {"onaylandi"}),
          gereken |-> r.gereken, aday |-> r.kimden]]
    /\ Bitti(i)
    /\ UNCHANGED <<cikis, tip, evrak>>

IseAlimBirak(i) ==
    /\ istek[i].is \in {"evrak", "alim"}
    /\ Bitti(i)
    /\ UNCHANGED iseAlimVars

\* Hiring, for candidates who are invited.
IseAlimNext ==
    \/ /\ \/ \E a \in Adaylar : AdayDavet(a)
          \/ \E i \in Istekler :
               (\E a \in Adaylar : KvkkOnaylaOku(i, a)) \/ AdayYaz(i) \/ AdayBirak(i)
       /\ UNCHANGED <<calisanVars, tip, evrak, dosya>>
    \/ \E v \in EvrakTipleri, z \in {"zorunlu", "istege_bagli"} : EvrakTipiEkle(v, z)
    \/ \E e \in Evraklar, a \in Adaylar, v \in EvrakTipleri : EvrakYukle(e, a, v)
    \/ \E i \in Istekler :
         \/ \E e \in Evraklar : EvrakOnaylaOku(i, e) \/ EvrakReddetOku(i, e)
         \/ EvrakYaz(i)
         \/ \E a \in Adaylar :
              DonusturOku(i, a) \/ \E tc \in Kimlikler : IseAlOku(i, a, tc)
         \/ \E c \in Calisanlar : Alim(i, c)
         \/ IseAlimBirak(i)

IseAlimSpec == OturumInit /\ IseAlimInit /\ [][IseAlimNext]_<<oturum, iseAlimVars>>

-----------------------------------------------------------------------------
(* Properties.                                                             *)

IseAlimTypeOK ==
    /\ AdayTypeOK
    /\ CalisanTypeOK
    /\ tip \in [EvrakTipleri -> {"yok", "zorunlu", "istege_bagli"}]
    /\ evrak \in [Evraklar -> EvrakSatiri \cup {Yok}]
    /\ dosya \in [Calisanlar -> DosyaSatiri]

\* "Tüm zorunlu evraklar onaylanmadan işe alım yapılamaz": whoever is hired through ik
\* gave the consent; handled one after the other, the file holds an approved document
\* of every type that was required then, whatever is uploaded, rejected or made
\* required in between.
DosyaTam ==
    \A c \in Calisanlar : dosya[c].aday # Yok =>
        /\ aday[dosya[c].aday].kvkk
        /\ Sirali => dosya[c].gereken \subseteq dosya[c].kopya
=============================================================================
