---------------------------- MODULE PersonelKanit ----------------------------
(***************************************************************************)
(* Proofs about the people in the portal, for any number of rows of each   *)
(* table and of threads: employees and their records of leaving (Calisan), *)
(* candidates (Aday), documents and hiring (IseAlim), the one-time code    *)
(* (Dogrulama), users (Yetki), and projects and positions (Kadro).         *)
(***************************************************************************)
EXTENDS MCPersonel, FiniteSetTheorems, TLAPS

-----------------------------------------------------------------------------
(* The threads.                                                            *)

IstekTuru == istek = [i \in Istekler |-> istek[i]]

\* A thread that is not in service does nothing.
OturumIInv ==
    /\ isci \subseteq Istekler
    /\ IstekTuru
    /\ \A i \in Istekler \ isci : istek[i] = Bos

LEMMA OturumBaslangic == OturumInit => OturumIInv
BY DEF OturumInit, OturumIInv, IstekTuru

\* A handler has read: with one thread, it is the only one.
LEMMA BaslaSonuc ==
    ASSUME OturumIInv, NEW i \in Istekler, NEW r, Basla(i, r)
    PROVE  /\ OturumIInv'
           /\ istek'[i] = r /\ istek[i] = Bos /\ i \in isci
           /\ isci' = isci
           /\ Sirali' = Sirali
           /\ \A j \in Istekler \ {i} : istek'[j] = istek[j] /\ (Sirali => istek[j] = Bos)
<1>1. /\ istek' = [istek EXCEPT ![i] = r] /\ isci' = isci
      /\ i \in isci /\ istek[i] = Bos
    BY DEF Basla
<1>2. istek'[i] = r /\ \A j \in Istekler \ {i} : istek'[j] = istek[j]
    BY <1>1 DEF OturumIInv, IstekTuru
<1>3. OturumIInv'
    BY <1>1, <1>2 DEF OturumIInv, IstekTuru
<1>4. ASSUME Sirali, NEW j \in Istekler \ {i}
      PROVE  istek[j] = Bos
    BY <1>1, <1>4 DEF Sirali, OturumIInv
<1> QED
    BY <1>1, <1>2, <1>3, <1>4 DEF Sirali

\* A handler has ended: with one thread, nobody is at work then.
LEMMA BittiSonuc ==
    ASSUME OturumIInv, NEW i \in Istekler, istek[i] # Bos, Bitti(i)
    PROVE  /\ OturumIInv'
           /\ istek'[i] = Bos
           /\ isci' = isci /\ i \in isci
           /\ Sirali' = Sirali
           /\ \A j \in Istekler \ {i} : istek'[j] = istek[j] /\ (Sirali => istek[j] = Bos)
<1>1. istek' = [istek EXCEPT ![i] = Bos] /\ isci' = isci
    BY DEF Bitti
<1>2. i \in isci
    BY DEF OturumIInv
<1>3. istek'[i] = Bos /\ \A j \in Istekler \ {i} : istek'[j] = istek[j]
    BY <1>1 DEF OturumIInv, IstekTuru
<1>4. OturumIInv'
    BY <1>1, <1>3 DEF OturumIInv, IstekTuru
<1>5. ASSUME Sirali, NEW j \in Istekler \ {i}
      PROVE  istek[j] = Bos
    BY <1>2, <1>5 DEF Sirali, OturumIInv
<1> QED
    BY <1>1, <1>2, <1>3, <1>4, <1>5 DEF Sirali

\* A step that is no handler's.
LEMMA OturumDurur ==
    ASSUME OturumIInv, UNCHANGED oturum
    PROVE  OturumIInv' /\ istek' = istek /\ isci' = isci /\ Sirali' = Sirali
BY DEF OturumIInv, IstekTuru, oturum, Sirali

-----------------------------------------------------------------------------
(* Employees and leaving the company: the inductive invariant.             *)

\* What the handlers may write to an employee and to a record of leaving: no handler
\* takes the entry of leaving, or the date, away.
CalisanFarki(f) ==
    /\ DOMAIN f \subseteq {"durum", "tc", "ayrilma"}
    /\ "durum" \in DOMAIN f => f["durum"] \in CalisanDurumu
    /\ "tc" \in DOMAIN f => f["tc"] \in Kimlikler \cup {Yok}
    /\ "ayrilma" \in DOMAIN f => f["ayrilma"] = TRUE

CikisFarki(f) ==
    /\ DOMAIN f \subseteq {"durum", "gercek"}
    /\ "durum" \in DOMAIN f => f["durum"] \in {"basladi", "devam_ediyor", "tamamlandi"}
    /\ "gercek" \in DOMAIN f => f["gercek"] = TRUE

Ayrilmis(c) == calisan[c] # Yok /\ calisan[c].ayrilma
Gerceklesmis(x) == cikis[x] # Yok /\ cikis[x].gercek

\* A thread that will enter an employee.
EkleHazir(i) ==
    istek[i].is = "calisan_ekle" =>
        /\ istek[i].calisan \in Calisanlar
        /\ istek[i].satir \in CalisanSatiri
        /\ ~istek[i].satir.ayrilma

\* A thread that will write to an employee c, and maybe to a record x: it enters that c
\* has left only with the date in x, and the date only if c has left or does so now.
YazHazir(i) ==
    istek[i].is = "calisan" =>
        LET c == istek[i].calisan
            x == istek[i].cikis
            ayrilir == "ayrilma" \in DOMAIN istek[i].cfark
            olur == "gercek" \in DOMAIN istek[i].xfark
        IN  /\ c \in Calisanlar
            /\ calisan[c] # Yok
            /\ CalisanFarki(istek[i].cfark)
            /\ x = Yok => ~ayrilir
            /\ x # Yok =>
                 /\ x \in Cikislar
                 /\ cikis[x] # Yok
                 /\ cikis[x].calisan = c
                 /\ CikisFarki(istek[i].xfark)
                 /\ ayrilir => olur \/ Gerceklesmis(x)
                 /\ olur => ayrilir \/ Ayrilmis(c)
                 /\ "durum" \in DOMAIN istek[i].xfark /\ istek[i].xfark["durum"] = "tamamlandi"
                      => olur \/ Gerceklesmis(x)

\* A thread that will start a record of leaving.
BaslatHazir(i) ==
    istek[i].is = "cikis_ekle" =>
        /\ istek[i].calisan \in Calisanlar
        /\ calisan[istek[i].calisan] # Yok
        /\ istek[i].cikis \in Cikislar
        /\ CalisanFarki(istek[i].cfark)
        /\ "ayrilma" \notin DOMAIN istek[i].cfark

CalisanHazir(i) == EkleHazir(i) /\ YazHazir(i) /\ BaslatHazir(i)

\* A record of leaving is some employee's.
KayitSahibi == \A x \in Cikislar : cikis[x] # Yok => calisan[cikis[x].calisan] # Yok

CalisanIInv ==
    /\ CalisanTypeOK
    /\ IstekTuru
    /\ \A i \in Istekler : CalisanHazir(i)
    /\ KayitSahibi
    /\ CikisTutarli

-----------------------------------------------------------------------------
(* Rows and the columns written to them.                                   *)

LEMMA CalisanSatirlari ==
    ASSUME NEW s \in CalisanSatiri
    PROVE  /\ s # Yok
           /\ DOMAIN s = {"durum", "tc", "ayrilma"}
           /\ s.durum \in CalisanDurumu
           /\ s.tc \in Kimlikler \cup {Yok}
           /\ s.ayrilma \in BOOLEAN
BY CalisanAssumption DEF CalisanSatiri

LEMMA CikisSatirlari ==
    ASSUME NEW s \in CikisSatiri
    PROVE  /\ s # Yok
           /\ DOMAIN s = {"calisan", "durum", "gercek"}
           /\ s.calisan \in Calisanlar
           /\ s.durum \in {"basladi", "devam_ediyor", "tamamlandi"}
           /\ s.gercek \in BOOLEAN
BY CalisanAssumption DEF CikisSatiri

\* Writing columns leaves an employee's row well formed and enters leaving or keeps it.
LEMMA CalisanUygula ==
    ASSUME NEW s \in CalisanSatiri, NEW f, CalisanFarki(f)
    PROVE  /\ Uygula(s, f) \in CalisanSatiri
           /\ Uygula(s, f).ayrilma <=> s.ayrilma \/ "ayrilma" \in DOMAIN f
<1> DEFINE u == Uygula(s, f)
<1>1. /\ DOMAIN u = {"durum", "tc", "ayrilma"}
      /\ u["durum"] = IF "durum" \in DOMAIN f THEN f["durum"] ELSE s.durum
      /\ u["tc"] = IF "tc" \in DOMAIN f THEN f["tc"] ELSE s.tc
      /\ u["ayrilma"] = IF "ayrilma" \in DOMAIN f THEN f["ayrilma"] ELSE s.ayrilma
    BY CalisanSatirlari DEF Uygula
<1>2. u = [durum |-> u["durum"], tc |-> u["tc"], ayrilma |-> u["ayrilma"]]
    BY <1>1 DEF Uygula
<1>3. u \in CalisanSatiri
    BY <1>1, <1>2, CalisanSatirlari DEF CalisanFarki, CalisanSatiri
<1> QED
    BY <1>1, <1>3, CalisanSatirlari DEF CalisanFarki

\* The same for a record of leaving, which stays the same employee's.
LEMMA CikisUygula ==
    ASSUME NEW s \in CikisSatiri, NEW f, CikisFarki(f)
    PROVE  /\ Uygula(s, f) \in CikisSatiri
           /\ Uygula(s, f).calisan = s.calisan
           /\ Uygula(s, f).durum = IF "durum" \in DOMAIN f THEN f["durum"] ELSE s.durum
           /\ Uygula(s, f).gercek <=> s.gercek \/ "gercek" \in DOMAIN f
<1> DEFINE u == Uygula(s, f)
<1>1. /\ DOMAIN u = {"calisan", "durum", "gercek"}
      /\ u["calisan"] = s.calisan
      /\ u["durum"] = IF "durum" \in DOMAIN f THEN f["durum"] ELSE s.durum
      /\ u["gercek"] = IF "gercek" \in DOMAIN f THEN f["gercek"] ELSE s.gercek
    BY CikisSatirlari DEF Uygula, CikisFarki
<1>2. u = [calisan |-> u["calisan"], durum |-> u["durum"], gercek |-> u["gercek"]]
    BY <1>1 DEF Uygula
<1>3. u \in CikisSatiri
    BY <1>1, <1>2, CikisSatirlari DEF CikisFarki, CikisSatiri
<1> QED
    BY <1>1, <1>3, CikisSatirlari DEF CikisFarki

\* The columns that the handlers' changes of an employee's row differ in.
LEMMA CalisanFarklari ==
    ASSUME NEW s \in CalisanSatiri, NEW d \in CalisanDurumu, NEW t \in Kimlikler \cup {Yok}
    PROVE  /\ CalisanFarki(Fark(s, [s EXCEPT !.durum = d, !.tc = t]))
           /\ "ayrilma" \notin DOMAIN Fark(s, [s EXCEPT !.durum = d, !.tc = t])
           /\ CalisanFarki(Fark(s, [s EXCEPT !.durum = d]))
           /\ "ayrilma" \notin DOMAIN Fark(s, [s EXCEPT !.durum = d])
           /\ CalisanFarki(Fark(s, [s EXCEPT !.durum = d, !.ayrilma = TRUE]))
           /\ "ayrilma" \in DOMAIN Fark(s, [s EXCEPT !.durum = d, !.ayrilma = TRUE])
                \/ s.ayrilma
<1>1. ASSUME NEW y \in CalisanSatiri, y["ayrilma"] = s["ayrilma"]
      PROVE  CalisanFarki(Fark(s, y)) /\ "ayrilma" \notin DOMAIN Fark(s, y)
    BY <1>1, CalisanSatirlari DEF Fark, CalisanFarki
<1>2. ASSUME NEW y \in CalisanSatiri, y["ayrilma"] = TRUE
      PROVE  CalisanFarki(Fark(s, y)) /\ ("ayrilma" \in DOMAIN Fark(s, y) \/ s["ayrilma"])
    BY <1>2, CalisanSatirlari DEF Fark, CalisanFarki
<1>3. /\ [s EXCEPT !.durum = d, !.tc = t] \in CalisanSatiri
      /\ [s EXCEPT !.durum = d, !.tc = t]["ayrilma"] = s["ayrilma"]
      /\ [s EXCEPT !.durum = d] \in CalisanSatiri
      /\ [s EXCEPT !.durum = d]["ayrilma"] = s["ayrilma"]
      /\ [s EXCEPT !.durum = d, !.ayrilma = TRUE] \in CalisanSatiri
      /\ [s EXCEPT !.durum = d, !.ayrilma = TRUE]["ayrilma"] = TRUE
    BY DEF CalisanSatiri
<1> QED
    BY <1>1, <1>2, <1>3

\* The same for a record of leaving.
LEMMA CikisFarklari ==
    ASSUME NEW s \in CikisSatiri
    PROVE  /\ CikisFarki(Fark(s, s)) /\ DOMAIN Fark(s, s) = {}
           /\ CikisFarki(Fark(s, [s EXCEPT !.durum = "devam_ediyor"]))
           /\ "gercek" \notin DOMAIN Fark(s, [s EXCEPT !.durum = "devam_ediyor"])
           /\ "durum" \in DOMAIN Fark(s, [s EXCEPT !.durum = "devam_ediyor"]) =>
                Fark(s, [s EXCEPT !.durum = "devam_ediyor"])["durum"] = "devam_ediyor"
           /\ CikisFarki(Fark(s, [s EXCEPT !.durum = "tamamlandi", !.gercek = TRUE]))
           /\ "gercek" \in DOMAIN Fark(s, [s EXCEPT !.durum = "tamamlandi", !.gercek = TRUE])
                \/ s.gercek
<1>1. ASSUME NEW y \in CikisSatiri, y["calisan"] = s["calisan"],
             y["gercek"] = s["gercek"] \/ y["gercek"] = TRUE
      PROVE  /\ CikisFarki(Fark(s, y))
             /\ y["gercek"] = s["gercek"] => "gercek" \notin DOMAIN Fark(s, y)
             /\ y["gercek"] = TRUE => "gercek" \in DOMAIN Fark(s, y) \/ s["gercek"]
             /\ "durum" \in DOMAIN Fark(s, y) => Fark(s, y)["durum"] = y["durum"]
    BY <1>1, CikisSatirlari DEF Fark, CikisFarki
<1>2. /\ [s EXCEPT !.durum = "devam_ediyor"] \in CikisSatiri
      /\ [s EXCEPT !.durum = "devam_ediyor"]["calisan"] = s["calisan"]
      /\ [s EXCEPT !.durum = "devam_ediyor"]["gercek"] = s["gercek"]
      /\ [s EXCEPT !.durum = "devam_ediyor"]["durum"] = "devam_ediyor"
      /\ [s EXCEPT !.durum = "tamamlandi", !.gercek = TRUE] \in CikisSatiri
      /\ [s EXCEPT !.durum = "tamamlandi", !.gercek = TRUE]["calisan"] = s["calisan"]
      /\ [s EXCEPT !.durum = "tamamlandi", !.gercek = TRUE]["gercek"] = TRUE
    BY DEF CikisSatiri
<1>3. CikisFarki(Fark(s, s)) /\ DOMAIN Fark(s, s) = {}
    BY DEF Fark, CikisFarki
<1> QED
    BY <1>1, <1>2, <1>3

-----------------------------------------------------------------------------
(* What all steps have in common.                                          *)

\* Rows are kept, and so is what they say about leaving.
CalisanIlerler ==
    /\ \A c \in Calisanlar :
         /\ calisan[c] # Yok => calisan'[c] # Yok
         /\ Ayrilmis(c) => Ayrilmis(c)'
    /\ \A x \in Cikislar :
         /\ cikis[x] # Yok => cikis'[x] # Yok /\ cikis'[x].calisan = cikis[x].calisan
         /\ Gerceklesmis(x) => Gerceklesmis(x)'

LEMMA CalisanHazirKalir ==
    ASSUME CalisanIlerler, NEW j \in Istekler, CalisanHazir(j), istek'[j] = istek[j]
    PROVE  CalisanHazir(j)'
<1>1. EkleHazir(j)'
    BY DEF CalisanHazir, EkleHazir
<1>2. BaslatHazir(j)'
    BY DEF CalisanHazir, BaslatHazir, CalisanIlerler
<1>3. YazHazir(j)'
    BY DEF CalisanHazir, YazHazir, CalisanIlerler
<1> QED
    BY <1>1, <1>2, <1>3 DEF CalisanHazir

\* A handler has read: only its own thread has to be looked at.
LEMMA CalisanBaslar ==
    ASSUME CalisanIInv, NEW i \in Istekler, NEW r, Basla(i, r), UNCHANGED calisanVars,
           istek'[i] = r => CalisanHazir(i)'
    PROVE  CalisanIInv'
<1>1. CalisanIlerler
    BY DEF CalisanIlerler, Ayrilmis, Gerceklesmis, calisanVars
<1>2. istek'[i] = r /\ \A j \in Istekler \ {i} : istek'[j] = istek[j]
    BY DEF Basla, CalisanIInv, IstekTuru
<1>3. IstekTuru'
    BY DEF Basla, CalisanIInv, IstekTuru
<1>4. \A j \in Istekler : CalisanHazir(j)'
    BY <1>1, <1>2, CalisanHazirKalir DEF CalisanIInv
<1>5. CalisanTypeOK' /\ KayitSahibi' /\ CikisTutarli'
    BY DEF CalisanIInv, calisanVars, CalisanTypeOK, KayitSahibi, CikisTutarli
<1> QED
    BY <1>3, <1>4, <1>5 DEF CalisanIInv

\* A handler has ended: only the rows have to be looked at.
LEMMA CalisanBiter ==
    ASSUME CalisanIInv, NEW i \in Istekler, Bitti(i), CalisanIlerler, CalisanTypeOK', KayitSahibi',
           CikisTutarli'
    PROVE  CalisanIInv'
<1>1. istek'[i] = Bos /\ \A j \in Istekler \ {i} : istek'[j] = istek[j]
    BY DEF Bitti, CalisanIInv, IstekTuru
<1>2. IstekTuru'
    BY DEF Bitti, CalisanIInv, IstekTuru
<1>3. CalisanHazir(i)'
    BY <1>1 DEF Bos, CalisanHazir, EkleHazir, YazHazir, BaslatHazir
<1>4. \A j \in Istekler : CalisanHazir(j)'
    BY <1>1, <1>3, CalisanHazirKalir DEF CalisanIInv
<1> QED
    BY <1>2, <1>4 DEF CalisanIInv

LEMMA CalisanVeCikis ==
    ASSUME CalisanIInv
    PROVE  /\ \A c \in Calisanlar : calisan[c] # Yok => calisan[c] \in CalisanSatiri
           /\ \A x \in Cikislar : cikis[x] # Yok => cikis[x] \in CikisSatiri
BY DEF CalisanIInv, CalisanTypeOK

LEMMA HicFarkBos == DOMAIN HicFark = {} /\ CalisanFarki(HicFark)
BY DEF HicFark, CalisanFarki

-----------------------------------------------------------------------------
(* The steps.                                                              *)

LEMMA CalisanEkleOkuKorur ==
    ASSUME CalisanIInv, NEW i \in Istekler, NEW c \in Calisanlar, NEW d \in CalisanDurumu,
           NEW tc \in Kimlikler \cup {Yok}, CalisanEkleOku(i, c, d, tc)
    PROVE  CalisanIInv'
<1> DEFINE r == [is |-> "calisan_ekle", calisan |-> c, satir |-> YeniCalisan(d, tc)]
<1>1. YeniCalisan(d, tc) \in CalisanSatiri /\ ~YeniCalisan(d, tc).ayrilma
    BY DEF YeniCalisan, CalisanSatiri
<1>2. istek'[i] = r => CalisanHazir(i)'
    BY <1>1 DEF CalisanHazir, EkleHazir, YazHazir, BaslatHazir
<1> QED
    BY <1>2, CalisanBaslar DEF CalisanEkleOku

LEMMA CalisanDuzenleOkuKorur ==
    ASSUME CalisanIInv, NEW i \in Istekler, NEW c \in Calisanlar, NEW d \in CalisanDurumu,
           NEW tc \in Kimlikler \cup {Yok}, CalisanDuzenleOku(i, c, d, tc)
    PROVE  CalisanIInv'
<1> DEFINE f == Fark(calisan[c], [calisan[c] EXCEPT !.durum = d, !.tc = tc])
           r == [is |-> "calisan", calisan |-> c, cfark |-> f, cikis |-> Yok, xfark |-> HicFark]
<1>1. CalisanFarki(f) /\ "ayrilma" \notin DOMAIN f
    BY CalisanVeCikis, CalisanFarklari DEF CalisanDuzenleOku
<1>2. ASSUME istek'[i] = r
      PROVE  CalisanHazir(i)'
    <2> HIDE DEF f
    <2> QED
        BY <1>1, <1>2 DEF CalisanHazir, EkleHazir, YazHazir, BaslatHazir, CalisanDuzenleOku, CalisanYazar,
            calisanVars
<1> QED
    BY <1>2, CalisanBaslar DEF CalisanDuzenleOku, CalisanYazar

LEMMA CikisGuncelleOkuKorur ==
    ASSUME CalisanIInv, NEW i \in Istekler, NEW x \in Cikislar, NEW tamam \in BOOLEAN,
           CikisGuncelleOku(i, x, tamam)
    PROVE  CalisanIInv'
<1> DEFINE f == Fark(cikis[x], IF tamam THEN [cikis[x] EXCEPT !.durum = "devam_ediyor"]
                               ELSE cikis[x])
           r == [is |-> "calisan", calisan |-> cikis[x].calisan, cfark |-> HicFark,
                 cikis |-> x, xfark |-> f]
<1>1. cikis[x] # Yok /\ cikis[x] \in CikisSatiri /\ cikis[x].calisan \in Calisanlar /\ x # Yok
    BY CalisanVeCikis, CikisSatirlari, CalisanAssumption DEF CikisGuncelleOku
<1>2. /\ CikisFarki(f)
      /\ "gercek" \notin DOMAIN f
      /\ "durum" \in DOMAIN f => f["durum"] = "devam_ediyor"
    BY <1>1, CikisFarklari
<1>3. UNCHANGED calisanVars /\ Basla(i, r)
    BY DEF CikisGuncelleOku, CalisanYazar
<1>4. calisan[cikis[x].calisan] # Yok
    BY <1>1 DEF CalisanIInv, KayitSahibi
<1>5. ASSUME istek'[i] = r
      PROVE  CalisanHazir(i)'
    <2> HIDE DEF f
    <2> QED
        BY <1>1, <1>2, <1>3, <1>4, <1>5, HicFarkBos
            DEF CalisanHazir, EkleHazir, YazHazir, BaslatHazir, calisanVars
<1> QED
    BY <1>3, <1>5, CalisanBaslar

LEMMA CikisTamamlaOkuKorur ==
    ASSUME CalisanIInv, NEW i \in Istekler, NEW x \in Cikislar, CikisTamamlaOku(i, x)
    PROVE  CalisanIInv'
<1> DEFINE c == cikis[x].calisan
           g == Fark(calisan[c], [calisan[c] EXCEPT !.durum = "ayrildi", !.ayrilma = TRUE])
           f == Fark(cikis[x], [cikis[x] EXCEPT !.durum = "tamamlandi", !.gercek = TRUE])
           r == [is |-> "calisan", calisan |-> c, cfark |-> g, cikis |-> x, xfark |-> f]
<1>1. cikis[x] # Yok /\ cikis[x] \in CikisSatiri /\ c \in Calisanlar /\ x # Yok
    BY CalisanVeCikis, CikisSatirlari, CalisanAssumption DEF CikisTamamlaOku
<1>2. calisan[c] # Yok /\ calisan[c] \in CalisanSatiri
    BY <1>1, CalisanVeCikis DEF CalisanIInv, KayitSahibi
<1>3. CikisFarki(f) /\ ("gercek" \in DOMAIN f \/ Gerceklesmis(x))
    BY <1>1, CikisFarklari DEF Gerceklesmis
<1>4. CalisanFarki(g) /\ ("ayrilma" \in DOMAIN g \/ Ayrilmis(c))
    BY <1>2, CalisanFarklari DEF CalisanDurumu, Ayrilmis
<1>5. UNCHANGED calisanVars /\ Basla(i, r)
    BY DEF CikisTamamlaOku, CalisanYazar
<1>6. ASSUME istek'[i] = r
      PROVE  CalisanHazir(i)'
    <2>1. (Gerceklesmis(x) => Gerceklesmis(x)') /\ (Ayrilmis(c) => Ayrilmis(c)')
        BY <1>5 DEF calisanVars, Gerceklesmis, Ayrilmis
    <2> HIDE DEF f, g
    <2> QED
        BY <1>1, <1>2, <1>3, <1>4, <1>5, <1>6, <2>1
            DEF CalisanHazir, EkleHazir, YazHazir, BaslatHazir, calisanVars
<1> QED
    BY <1>5, <1>6, CalisanBaslar

LEMMA CikisBaslatOkuKorur ==
    ASSUME CalisanIInv, NEW i \in Istekler, NEW c \in Calisanlar, NEW x \in Cikislar,
           CikisBaslatOku(i, c, x)
    PROVE  CalisanIInv'
<1> DEFINE f == Fark(calisan[c], [calisan[c] EXCEPT !.durum = "askiya_alindi"])
           r == [is |-> "cikis_ekle", calisan |-> c, cikis |-> x, cfark |-> f]
<1>1. CalisanFarki(f) /\ "ayrilma" \notin DOMAIN f
    BY CalisanVeCikis, CalisanFarklari DEF CikisBaslatOku, CalisanDurumu
<1>2. ASSUME istek'[i] = r
      PROVE  CalisanHazir(i)'
    <2> HIDE DEF f
    <2> QED
        BY <1>1, <1>2 DEF CalisanHazir, EkleHazir, YazHazir, BaslatHazir, CikisBaslatOku, calisanVars
<1> QED
    BY <1>2, CalisanBaslar DEF CikisBaslatOku

LEMMA CalisanEkleKorur ==
    ASSUME CalisanIInv, NEW i \in Istekler, CalisanEkle(i)
    PROVE  CalisanIInv'
<1> DEFINE c == istek[i].calisan
<1>1. c \in Calisanlar /\ istek[i].satir \in CalisanSatiri /\ ~istek[i].satir.ayrilma
    BY DEF CalisanEkle, CalisanIInv, CalisanHazir, EkleHazir
<1>2. /\ calisan[c] = Yok
      /\ calisan'[c] = istek[i].satir
      /\ \A d \in Calisanlar \ {c} : calisan'[d] = calisan[d]
      /\ cikis' = cikis
    BY <1>1 DEF CalisanEkle, CalisanIInv, CalisanTypeOK
<1>3. CalisanTypeOK'
    BY <1>1 DEF CalisanEkle, CalisanIInv, CalisanTypeOK
<1>4. CalisanIlerler
    BY <1>1, <1>2, CalisanSatirlari DEF CalisanIlerler, Ayrilmis, Gerceklesmis
<1>5. \A x \in Cikislar : cikis[x] # Yok => cikis[x].calisan # c
    BY <1>2 DEF CalisanIInv, KayitSahibi
<1>6. CikisTutarli'
    BY <1>1, <1>2, <1>5 DEF CikisTutarli, CalisanIInv
<1>7. KayitSahibi'
    BY <1>2, <1>4 DEF KayitSahibi, CalisanIlerler, CalisanIInv, CalisanTypeOK, CikisSatiri
<1> QED
    BY <1>3, <1>4, <1>6, <1>7, CalisanBiter DEF CalisanEkle

LEMMA CalisanYazKorur ==
    ASSUME CalisanIInv, NEW i \in Istekler, CalisanYaz(i)
    PROVE  CalisanIInv'
<1> DEFINE c == istek[i].calisan
           x == istek[i].cikis
           f == istek[i].cfark
           g == istek[i].xfark
<1>1. YazHazir(i) /\ istek[i].is = "calisan"
    BY DEF CalisanYaz, CalisanIInv, CalisanHazir
<1>2. /\ c \in Calisanlar
      /\ calisan[c] \in CalisanSatiri
      /\ CalisanFarki(f)
      /\ x = Yok => "ayrilma" \notin DOMAIN f
      /\ x # Yok => /\ x \in Cikislar
                    /\ cikis[x] \in CikisSatiri
                    /\ cikis[x].calisan = c
                    /\ CikisFarki(g)
    BY <1>1, CalisanVeCikis DEF YazHazir
<1>3. /\ calisan'[c] = Uygula(calisan[c], f)
      /\ \A d \in Calisanlar \ {c} : calisan'[d] = calisan[d]
      /\ x = Yok => cikis' = cikis
      /\ x # Yok => cikis'[x] = Uygula(cikis[x], g)
      /\ \A y \in Cikislar \ {x} : cikis'[y] = cikis[y]
    BY <1>2 DEF CalisanYaz, CalisanIInv, CalisanTypeOK
<1>4. /\ calisan'[c] \in CalisanSatiri
      /\ calisan'[c].ayrilma <=> calisan[c].ayrilma \/ "ayrilma" \in DOMAIN f
    BY <1>2, <1>3, CalisanUygula
<1>5. ASSUME x # Yok
      PROVE  /\ cikis'[x] \in CikisSatiri
             /\ cikis'[x].calisan = c
             /\ cikis'[x].durum = IF "durum" \in DOMAIN g THEN g["durum"] ELSE cikis[x].durum
             /\ cikis'[x].gercek <=> cikis[x].gercek \/ "gercek" \in DOMAIN g
    <2> HIDE DEF c, g, x
    <2> QED
        BY <1>2, <1>3, <1>5, CikisUygula
<1>6. CalisanTypeOK'
    <2>1. calisan' \in [Calisanlar -> CalisanSatiri \cup {Yok}]
        BY <1>2, <1>3, <1>4 DEF CalisanYaz, CalisanIInv, CalisanTypeOK
    <2>2. cikis' \in [Cikislar -> CikisSatiri \cup {Yok}]
        <3>1. CASE x = Yok
            BY <3>1, <1>3 DEF CalisanIInv, CalisanTypeOK
        <3>2. CASE x # Yok
            <4> HIDE DEF c, f
            <4>1. cikis' = [cikis EXCEPT ![x] = cikis'[x]]
                BY <3>2, <1>2, <1>3 DEF CalisanYaz, CalisanIInv, CalisanTypeOK
            <4> HIDE DEF x
            <4> QED
                BY <3>2, <4>1, <1>2, <1>5 DEF CalisanIInv, CalisanTypeOK
        <3> QED
            BY <3>1, <3>2
    <2> QED
        BY <2>1, <2>2 DEF CalisanTypeOK
<1>7. CalisanIlerler
    BY <1>2, <1>3, <1>4, <1>5, CalisanSatirlari, CikisSatirlari
        DEF CalisanIlerler, Ayrilmis, Gerceklesmis
<1>8. ASSUME NEW y \in Cikislar, cikis'[y] # Yok
      PROVE  calisan'[cikis'[y].calisan] # Yok
    <2>1. CASE x # Yok /\ y = x
        BY <2>1, <1>4, <1>5, <1>2, CalisanSatirlari
    <2>2. CASE x = Yok \/ y # x
        <3>1. cikis[y] # Yok /\ cikis'[y] = cikis[y]
            BY <2>2, <1>3, <1>8
        <3>2. cikis[y].calisan \in Calisanlar /\ calisan[cikis[y].calisan] # Yok
            BY <3>1, CalisanVeCikis, CikisSatirlari DEF CalisanIInv, KayitSahibi
        <3> QED
            BY <3>1, <3>2, <1>7 DEF CalisanIlerler
    <2> QED
        BY <2>1, <2>2
<1>9. CikisTutarli'
    <2>1. ASSUME NEW d \in Calisanlar, calisan'[d] # Yok, calisan'[d].ayrilma
          PROVE  \E y \in Cikislar :
                     cikis'[y] # Yok /\ cikis'[y].calisan = d /\ cikis'[y].gercek
        <3>1. CASE Ayrilmis(d)
            <4>1. PICK y \in Cikislar : cikis[y] # Yok /\ cikis[y].calisan = d /\ cikis[y].gercek
                BY <3>1 DEF CalisanIInv, CikisTutarli, Ayrilmis
            <4> QED
                BY <4>1, <1>7 DEF CalisanIlerler, Gerceklesmis
        <3>2. CASE ~Ayrilmis(d)
            <4>1. d = c /\ "ayrilma" \in DOMAIN f
                BY <2>1, <3>2, <1>2, <1>3, <1>4, CalisanSatirlari DEF Ayrilmis
            <4>2. x # Yok /\ ("gercek" \in DOMAIN g \/ Gerceklesmis(x))
                BY <1>1, <1>2, <4>1 DEF YazHazir
            <4> QED
                BY <1>2, <1>5, <4>1, <4>2, CikisSatirlari DEF Gerceklesmis
        <3> QED
            BY <3>1, <3>2
    <2>2. ASSUME NEW y \in Cikislar, cikis'[y] # Yok, cikis'[y].gercek
          PROVE  calisan'[cikis'[y].calisan] # Yok /\ calisan'[cikis'[y].calisan].ayrilma
        <3>1. CASE Gerceklesmis(y)
            <4>1. Ayrilmis(cikis[y].calisan) /\ cikis[y].calisan \in Calisanlar
                BY <3>1, CalisanVeCikis, CikisSatirlari
                    DEF CalisanIInv, CikisTutarli, KayitSahibi, Gerceklesmis, Ayrilmis
            <4> QED
                BY <3>1, <4>1, <1>7 DEF CalisanIlerler, Ayrilmis, Gerceklesmis
        <3>2. CASE ~Gerceklesmis(y)
            <4>1. x # Yok /\ y = x /\ "gercek" \in DOMAIN g
                BY <2>2, <3>2, <1>2, <1>3, <1>5, CikisSatirlari DEF Gerceklesmis
            <4>2. "ayrilma" \in DOMAIN f \/ Ayrilmis(c)
                BY <1>1, <4>1 DEF YazHazir
            <4> QED
                BY <1>2, <1>4, <1>5, <4>1, <4>2, CalisanSatirlari DEF Ayrilmis
        <3> QED
            BY <3>1, <3>2
    <2>3. ASSUME NEW y \in Cikislar, cikis'[y] # Yok, cikis'[y].durum = "tamamlandi"
          PROVE  cikis'[y].gercek
        <3>1. CASE x # Yok /\ y = x
            <4>1. cikis[x].durum = "tamamlandi" => cikis[x].gercek
                BY <3>1, <1>2, CikisSatirlari DEF CalisanIInv, CikisTutarli
            <4>2. "durum" \in DOMAIN g /\ g["durum"] = "tamamlandi"
                    => "gercek" \in DOMAIN g \/ Gerceklesmis(x)
                BY <1>1, <3>1 DEF YazHazir
            <4> QED
                BY <2>3, <3>1, <1>5, <4>1, <4>2 DEF Gerceklesmis
        <3>2. CASE x = Yok \/ y # x
            BY <2>3, <3>2, <1>3 DEF CalisanIInv, CikisTutarli
        <3> QED
            BY <3>1, <3>2
    <2> QED
        BY <2>1, <2>2, <2>3, <1>6 DEF CikisTutarli, CalisanTypeOK, CalisanSatiri
<1>10. KayitSahibi'
    BY <1>8 DEF KayitSahibi
<1> QED
    BY <1>6, <1>7, <1>9, <1>10, CalisanBiter DEF CalisanYaz

LEMMA CikisBaslatKorur ==
    ASSUME CalisanIInv, NEW i \in Istekler, CikisBaslat(i)
    PROVE  CalisanIInv'
<1> DEFINE c == istek[i].calisan
           x == istek[i].cikis
           f == istek[i].cfark
           s == [calisan |-> c, durum |-> "basladi", gercek |-> FALSE]
<1>1. /\ c \in Calisanlar
      /\ calisan[c] # Yok
      /\ x \in Cikislar
      /\ CalisanFarki(f)
      /\ "ayrilma" \notin DOMAIN f
    BY DEF CikisBaslat, CalisanIInv, CalisanHazir, BaslatHazir
<1>2. calisan[c] \in CalisanSatiri
    BY <1>1, CalisanVeCikis
<1>3. /\ cikis[x] = Yok
      /\ cikis'[x] = s
      /\ \A y \in Cikislar \ {x} : cikis'[y] = cikis[y]
      /\ calisan'[c] = Uygula(calisan[c], f)
      /\ \A d \in Calisanlar \ {c} : calisan'[d] = calisan[d]
    BY <1>1 DEF CikisBaslat, CalisanIInv, CalisanTypeOK
<1>4. /\ calisan'[c] \in CalisanSatiri
      /\ calisan'[c].ayrilma <=> calisan[c].ayrilma
    BY <1>1, <1>2, <1>3, CalisanUygula
<1>5. s \in CikisSatiri
    BY <1>1 DEF CikisSatiri
<1>6. CalisanTypeOK'
    BY <1>1, <1>3, <1>4, <1>5 DEF CikisBaslat, CalisanIInv, CalisanTypeOK
<1>7. CalisanIlerler
    BY <1>1, <1>3, <1>4, CalisanSatirlari DEF CalisanIlerler, Ayrilmis, Gerceklesmis
<1>8. KayitSahibi'
    BY <1>3, <1>4, <1>7, CalisanSatirlari DEF KayitSahibi, CalisanIlerler, CalisanIInv, CalisanTypeOK, CikisSatiri
<1>9. \A d \in Calisanlar : (Ayrilmis(d) <=> Ayrilmis(d)')
    BY <1>1, <1>3, <1>4, CalisanSatirlari DEF Ayrilmis
<1>10. \A y \in Cikislar : (Gerceklesmis(y) <=> Gerceklesmis(y)')
    BY <1>3 DEF Gerceklesmis
<1>11. CikisTutarli'
    <2>1. ASSUME NEW d \in Calisanlar, calisan'[d] # Yok
          PROVE  calisan'[d].ayrilma <=>
                   \E y \in Cikislar : Gerceklesmis(y)' /\ cikis'[y].calisan = d
        <3>1. calisan'[d].ayrilma <=> Ayrilmis(d)
            BY <2>1, <1>9 DEF Ayrilmis
        <3>2. calisan[d] # Yok
            BY <2>1, <1>1, <1>3
        <3>3. Ayrilmis(d) <=> \E y \in Cikislar : Gerceklesmis(y) /\ cikis[y].calisan = d
            BY <3>2 DEF Ayrilmis, CalisanIInv, CikisTutarli, Gerceklesmis
        <3>4. \A y \in Cikislar : Gerceklesmis(y) => cikis'[y].calisan = cikis[y].calisan
            BY <1>3 DEF Gerceklesmis
        <3> QED
            BY <3>1, <3>3, <3>4, <1>10
    <2>2. ASSUME NEW y \in Cikislar, cikis'[y] # Yok, cikis'[y].durum = "tamamlandi"
          PROVE  cikis'[y].gercek
        BY <2>2, <1>3 DEF CalisanIInv, CikisTutarli
    <2> QED
        BY <2>1, <2>2 DEF CikisTutarli, Gerceklesmis
<1> QED
    BY <1>6, <1>7, <1>8, <1>11, CalisanBiter DEF CikisBaslat

LEMMA CalisanBirakKorur ==
    ASSUME CalisanIInv, NEW i \in Istekler, CalisanBirak(i)
    PROVE  CalisanIInv'
<1>1. CalisanIlerler /\ CalisanTypeOK' /\ KayitSahibi' /\ CikisTutarli'
    BY DEF CalisanBirak, calisanVars, CalisanIlerler, Ayrilmis, Gerceklesmis, CalisanIInv, CalisanTypeOK,
        KayitSahibi, CikisTutarli
<1> QED
    BY <1>1, CalisanBiter DEF CalisanBirak

LEMMA CalisanDuran ==
    ASSUME CalisanIInv, UNCHANGED <<oturum, calisanVars>>
    PROVE  CalisanIInv'
BY DEF oturum, calisanVars, CalisanIInv, CalisanTypeOK, IstekTuru, CalisanHazir, EkleHazir, YazHazir,
    BaslatHazir, Ayrilmis, Gerceklesmis, KayitSahibi, CikisTutarli

-----------------------------------------------------------------------------
(* The theorem.                                                            *)

LEMMA CalisanBaslangic == OturumInit /\ CalisanInit => CalisanIInv
BY DEF OturumInit, Bos, CalisanInit, CalisanIInv, CalisanTypeOK, IstekTuru, CalisanHazir, EkleHazir, YazHazir,
    BaslatHazir, KayitSahibi, CikisTutarli

LEMMA CalisanAdim == CalisanIInv /\ [CalisanNext]_<<oturum, calisanVars>> => CalisanIInv'
<1> SUFFICES ASSUME CalisanIInv, [CalisanNext]_<<oturum, calisanVars>> PROVE CalisanIInv'
    OBVIOUS
<1>1. ASSUME SicilNext PROVE CalisanIInv'
    BY <1>1, CalisanEkleOkuKorur, CalisanDuzenleOkuKorur, CalisanEkleKorur, CalisanYazKorur,
        CalisanBirakKorur DEF SicilNext
<1>2. ASSUME CikisNext PROVE CalisanIInv'
    <2>1. "aktif" \in CalisanDurumu /\ Yok \in Kimlikler \cup {Yok}
        BY DEF CalisanDurumu
    <2> QED
        BY <1>2, <2>1, CalisanEkleOkuKorur, CalisanDuzenleOkuKorur, CikisBaslatOkuKorur,
            CikisGuncelleOkuKorur, CikisTamamlaOkuKorur, CalisanEkleKorur, CalisanYazKorur,
            CikisBaslatKorur, CalisanBirakKorur DEF CikisNext
<1> QED
    BY <1>1, <1>2, CalisanDuran DEF CalisanNext

\* Employees and records of leaving have the columns and values the code gives them.
THEOREM CalisanTipleri == CalisanSpec => []CalisanTypeOK
<1>1. CalisanIInv => CalisanTypeOK
    BY DEF CalisanIInv
<1> QED
    BY <1>1, CalisanBaslangic, CalisanAdim, PTL DEF CalisanSpec

\* Whatever the number of employees, records and threads: an employee is entered as
\* having left exactly if a record of leaving has its date, and a completed record has it.
THEOREM AyrilanKayitli == CalisanSpec => []CikisTutarli
<1>1. CalisanIInv => CikisTutarli
    BY DEF CalisanIInv
<1> QED
    BY <1>1, CalisanBaslangic, CalisanAdim, PTL DEF CalisanSpec

-----------------------------------------------------------------------------
(* Candidates: the inductive invariant.                                    *)

\* What the handlers may write to a candidate: no handler takes the consent, or that the
\* form was handed in, away.
AdayFarki(f) ==
    /\ DOMAIN f \subseteq {"durum", "silindi", "link", "kvkk", "tamam", "icerik", "tc"}
    /\ "durum" \in DOMAIN f => f["durum"] \in AdayDurumlari
    /\ "silindi" \in DOMAIN f => f["silindi"] \in BOOLEAN
    /\ "link" \in DOMAIN f => f["link"] \in {"yok", "gecerli", "gecmis"}
    /\ "kvkk" \in DOMAIN f => f["kvkk"] = TRUE
    /\ "tamam" \in DOMAIN f => f["tamam"] = TRUE
    /\ "icerik" \in DOMAIN f => f["icerik"] \in 0..MaxIcerik
    /\ "tc" \in DOMAIN f => f["tc"] \in Tcler \cup {Yok}

\* A thread that will write to a candidate: with one thread, a form only to one who has
\* not handed in any.
AdayHazir(i) ==
    istek[i].is = "aday" =>
        /\ istek[i].aday \in Adaylar
        /\ aday[istek[i].aday] # Yok
        /\ AdayFarki(istek[i].fark)
        /\ Sirali /\ "icerik" \in DOMAIN istek[i].fark => ~aday[istek[i].aday].tamam

AdayIInv ==
    /\ AdayTypeOK
    /\ OturumIInv
    /\ \A i \in Istekler : AdayHazir(i)

\* Candidates are kept, and so are their consent and that the form was handed in.
AdayIlerler ==
    \A a \in Adaylar : aday[a] # Yok =>
        /\ aday'[a] # Yok
        /\ aday[a].kvkk => aday'[a].kvkk
        /\ aday[a].tamam => aday'[a].tamam

-----------------------------------------------------------------------------
(* Rows of candidates and the columns written to them.                     *)

LEMMA AdaySatirlari ==
    ASSUME NEW s \in AdaySatiri
    PROVE  /\ s # Yok
           /\ DOMAIN s = {"durum", "silindi", "link", "kvkk", "tamam", "icerik", "tc"}
           /\ s.durum \in AdayDurumlari /\ s.silindi \in BOOLEAN
           /\ s.link \in {"yok", "gecerli", "gecmis"}
           /\ s.kvkk \in BOOLEAN /\ s.tamam \in BOOLEAN
           /\ s.icerik \in 0..MaxIcerik /\ s.tc \in Tcler \cup {Yok}
BY AdayAssumption DEF AdaySatiri

LEMMA AdayUygula ==
    ASSUME NEW s \in AdaySatiri, NEW f, AdayFarki(f)
    PROVE  /\ Uygula(s, f) \in AdaySatiri
           /\ Uygula(s, f).kvkk <=> s.kvkk \/ "kvkk" \in DOMAIN f
           /\ Uygula(s, f).tamam <=> s.tamam \/ "tamam" \in DOMAIN f
           /\ "icerik" \notin DOMAIN f => Uygula(s, f).icerik = s.icerik
<1> DEFINE u == Uygula(s, f)
<1>1. /\ u["durum"] = IF "durum" \in DOMAIN f THEN f["durum"] ELSE s.durum
      /\ u["silindi"] = IF "silindi" \in DOMAIN f THEN f["silindi"] ELSE s.silindi
      /\ u["link"] = IF "link" \in DOMAIN f THEN f["link"] ELSE s.link
      /\ u["kvkk"] = IF "kvkk" \in DOMAIN f THEN f["kvkk"] ELSE s.kvkk
      /\ u["tamam"] = IF "tamam" \in DOMAIN f THEN f["tamam"] ELSE s.tamam
      /\ u["icerik"] = IF "icerik" \in DOMAIN f THEN f["icerik"] ELSE s.icerik
      /\ u["tc"] = IF "tc" \in DOMAIN f THEN f["tc"] ELSE s.tc
      /\ DOMAIN u = {"durum", "silindi", "link", "kvkk", "tamam", "icerik", "tc"}
    BY AdaySatirlari DEF Uygula
<1>2. u = [durum |-> u["durum"], silindi |-> u["silindi"], link |-> u["link"], kvkk |-> u["kvkk"],
           tamam |-> u["tamam"], icerik |-> u["icerik"], tc |-> u["tc"]]
    BY <1>1 DEF Uygula
<1>3. /\ u["durum"] \in AdayDurumlari /\ u["silindi"] \in BOOLEAN
      /\ u["link"] \in {"yok", "gecerli", "gecmis"}
      /\ u["kvkk"] \in BOOLEAN /\ u["tamam"] \in BOOLEAN
      /\ u["icerik"] \in 0..MaxIcerik /\ u["tc"] \in Tcler \cup {Yok}
    BY <1>1, AdaySatirlari DEF AdayFarki
<1>4. u \in AdaySatiri
    <2> HIDE DEF u
    <2> QED
        BY <1>2, <1>3 DEF AdaySatiri
<1>5. (u["kvkk"] <=> s.kvkk \/ "kvkk" \in DOMAIN f) /\ (u["tamam"] <=> s.tamam \/ "tamam" \in DOMAIN f)
    BY <1>1, AdaySatirlari DEF AdayFarki
<1> QED
    BY <1>1, <1>4, <1>5

\* The columns that differ, when consent and form are not taken away.
LEMMA AdayFarkOlur ==
    ASSUME NEW s \in AdaySatiri, NEW y \in AdaySatiri,
           y["kvkk"] = s["kvkk"] \/ y["kvkk"] = TRUE,
           y["tamam"] = s["tamam"] \/ y["tamam"] = TRUE
    PROVE  /\ AdayFarki(Fark(s, y))
           /\ "icerik" \in DOMAIN Fark(s, y) => y["icerik"] # s["icerik"]
           /\ \A k \in DOMAIN Fark(s, y) : k \in DOMAIN y /\ y[k] # s[k] /\ Fark(s, y)[k] = y[k]
<1> DEFINE f == Fark(s, y)
<1>1. /\ DOMAIN f \subseteq DOMAIN y
      /\ \A k \in DOMAIN f : k \in DOMAIN y /\ y[k] # s[k] /\ f[k] = y[k]
    BY DEF Fark
<1> HIDE DEF f
<1>2. AdayFarki(f)
    BY <1>1, AdaySatirlari DEF AdayFarki
<1> QED
    BY <1>1, <1>2 DEF f

-----------------------------------------------------------------------------
(* Candidates: the steps.                                                  *)

LEMMA AdayHazirKalir ==
    ASSUME AdayIlerler, NEW j \in Istekler, AdayHazir(j), istek'[j] = istek[j], Sirali' = Sirali,
           Sirali /\ istek[j].is = "aday" =>
               (aday'[istek[j].aday].tamam <=> aday[istek[j].aday].tamam)
    PROVE  AdayHazir(j)'
BY DEF AdayHazir, AdayIlerler

\* A handler has read: only its own thread has to be looked at.
LEMMA AdayBaslar ==
    ASSUME AdayIInv, NEW i \in Istekler, NEW r, Basla(i, r), UNCHANGED aday,
           istek'[i] = r => AdayHazir(i)'
    PROVE  AdayIInv'
<1>1. AdayIlerler
    BY DEF AdayIlerler
<1>2. /\ OturumIInv' /\ Sirali' = Sirali /\ istek'[i] = r
      /\ \A j \in Istekler \ {i} : istek'[j] = istek[j]
    BY BaslaSonuc DEF AdayIInv
<1>3. \A j \in Istekler \ {i} : AdayHazir(j)'
    BY <1>1, <1>2, AdayHazirKalir DEF AdayIInv
<1> QED
    BY <1>2, <1>3 DEF AdayIInv, AdayTypeOK

\* A handler has ended: only the rows have to be looked at.
LEMMA AdayBiter ==
    ASSUME AdayIInv, NEW i \in Istekler, istek[i].is # "bos", Bitti(i), AdayIlerler, AdayTypeOK'
    PROVE  AdayIInv'
<1>1. istek[i] # Bos
    BY DEF Bos
<1>2. /\ OturumIInv' /\ Sirali' = Sirali /\ istek'[i] = Bos
      /\ \A j \in Istekler \ {i} : istek'[j] = istek[j] /\ (Sirali => istek[j] = Bos)
    BY <1>1, BittiSonuc DEF AdayIInv
<1>3. AdayHazir(i)'
    BY <1>2 DEF AdayHazir, Bos
<1>4. ASSUME NEW j \in Istekler \ {i} PROVE AdayHazir(j)'
    <2>1. CASE Sirali
        BY <1>2, <2>1 DEF AdayHazir, Bos
    <2>2. CASE ~Sirali
        BY <1>2, <2>2, AdayHazirKalir DEF AdayIInv
    <2> QED
        BY <2>1, <2>2
<1> QED
    BY <1>2, <1>3, <1>4 DEF AdayIInv

\* A step that is no handler's and leaves the forms of the candidates there are alone.
LEMMA AdayDurur ==
    ASSUME AdayIInv, UNCHANGED oturum, AdayTypeOK',
           \A a \in Adaylar : aday[a] # Yok =>
               /\ aday'[a] # Yok
               /\ aday'[a].kvkk = aday[a].kvkk
               /\ aday'[a].tamam = aday[a].tamam
               /\ aday'[a].icerik = aday[a].icerik
    PROVE  AdayIInv' /\ AdayIlerler
<1>1. AdayIlerler
    BY DEF AdayIlerler
<1>2. OturumIInv' /\ istek' = istek /\ Sirali' = Sirali
    BY OturumDurur DEF AdayIInv
<1>3. \A j \in Istekler : AdayHazir(j)'
    BY <1>1, <1>2, AdayHazirKalir DEF AdayIInv, AdayHazir
<1> QED
    BY <1>1, <1>2, <1>3 DEF AdayIInv

\* What a step of the candidates may do.
AdayAdimi ==
    /\ AdayIInv'
    /\ AdayIlerler
    /\ Sirali => \A a \in Adaylar :
         aday[a] # Yok /\ aday[a].tamam => aday'[a].icerik = aday[a].icerik

LEMMA AdayEkleAdimi ==
    ASSUME AdayIInv, NEW yeniler \in SUBSET Adaylar, NEW s \in AdaySatiri, AdayEkle(yeniler, s)
    PROVE  AdayAdimi
<1>1. AdayTypeOK'
    BY DEF AdayEkle, AdayIInv, AdayTypeOK
<1>2. UNCHANGED oturum /\ \A a \in Adaylar : aday[a] # Yok => aday'[a] = aday[a]
    BY DEF AdayEkle
<1> QED
    BY <1>1, <1>2, AdayDurur DEF AdayAdimi

LEMMA YeniAdayTipi ==
    ASSUME NEW d \in AdayDurumlari, NEW l \in {"yok", "gecerli", "gecmis"}, NEW k \in BOOLEAN
    PROVE  YeniAday(d, l, k) \in AdaySatiri
BY AdayAssumption DEF YeniAday, AdaySatiri

LEMMA AdayGirer ==
    ASSUME AdayIInv, NEW a \in Adaylar, AdayDavet(a) \/ KariyerKvkk(a) \/ KadroAdayEkle(a)
    PROVE  AdayAdimi
BY AdayEkleAdimi, YeniAdayTipi DEF AdayDavet, KariyerKvkk, KadroAdayEkle, AdayDurumlari

LEMMA TopluDavetAdimi ==
    ASSUME AdayIInv, NEW yeniler \in SUBSET Adaylar, TopluDavet(yeniler)
    PROVE  AdayAdimi
BY AdayEkleAdimi, YeniAdayTipi DEF TopluDavet, AdayDurumlari

LEMMA LinkSuresiAdimi ==
    ASSUME AdayIInv, NEW a \in Adaylar, LinkSuresi(a)
    PROVE  AdayAdimi
<1>1. aday[a] \in AdaySatiri
    BY DEF LinkSuresi, AdayIInv, AdayTypeOK
<1>2. aday' = [aday EXCEPT ![a] = [aday[a] EXCEPT !.link = "gecmis"]] /\ UNCHANGED oturum
    BY DEF LinkSuresi
<1>3. [aday[a] EXCEPT !.link = "gecmis"] \in AdaySatiri
    BY <1>1 DEF AdaySatiri
<1>4. AdayTypeOK'
    BY <1>2, <1>3 DEF AdayIInv, AdayTypeOK
<1>5. /\ aday'[a] \in AdaySatiri
      /\ aday'[a].kvkk = aday[a].kvkk /\ aday'[a].tamam = aday[a].tamam
      /\ aday'[a].icerik = aday[a].icerik
    BY <1>1, <1>2, <1>3 DEF AdayIInv, AdayTypeOK, AdaySatiri
<1>6. \A b \in Adaylar \ {a} : aday'[b] = aday[b]
    BY <1>2 DEF AdayIInv, AdayTypeOK
<1>7. aday'[a] # Yok
    BY <1>5, AdaySatirlari
<1>8. \A b \in Adaylar : aday[b] # Yok =>
          /\ aday'[b] # Yok /\ aday'[b].kvkk = aday[b].kvkk /\ aday'[b].tamam = aday[b].tamam
          /\ aday'[b].icerik = aday[b].icerik
    BY <1>5, <1>6, <1>7
<1> QED
    BY <1>2, <1>4, <1>8, AdayDurur DEF AdayAdimi

\* Every handler that reads a candidate.
LEMMA AdayFarklaAdimi ==
    ASSUME AdayIInv, NEW i \in Istekler, NEW a \in Adaylar, NEW f, AdayFarki(f),
           "icerik" \in DOMAIN f => ~aday[a].tamam, AdayFarkla(i, a, f)
    PROVE  AdayAdimi
<1> DEFINE r == [is |-> "aday", aday |-> a, fark |-> f]
<1>1. Basla(i, r) /\ UNCHANGED aday /\ aday[a] # Yok
    BY DEF AdayFarkla
<1>2. istek'[i] = r => AdayHazir(i)'
    BY <1>1 DEF AdayHazir
<1>3. AdayIInv'
    <2> HIDE DEF r
    <2> QED
        BY <1>1, <1>2, AdayBaslar
<1> QED
    BY <1>1, <1>3 DEF AdayAdimi, AdayIlerler

LEMMA AdayYazarAdimi ==
    ASSUME AdayIInv, NEW i \in Istekler, NEW a \in Adaylar, aday[a] # Yok, NEW y \in AdaySatiri,
           y["kvkk"] = aday[a]["kvkk"] \/ y["kvkk"] = TRUE,
           y["tamam"] = aday[a]["tamam"] \/ y["tamam"] = TRUE,
           y["icerik"] = aday[a]["icerik"] \/ ~aday[a].tamam,
           AdayYazar(i, a, y)
    PROVE  AdayAdimi
<1>1. aday[a] \in AdaySatiri
    BY DEF AdayIInv, AdayTypeOK
<1>2. /\ AdayFarki(Fark(aday[a], y))
      /\ "icerik" \in DOMAIN Fark(aday[a], y) => ~aday[a].tamam
    BY <1>1, AdayFarkOlur
<1> QED
    BY <1>2, AdayFarklaAdimi DEF AdayYazar

LEMMA DavetTekrarAdimi ==
    ASSUME AdayIInv, NEW i \in Istekler, NEW a \in Adaylar, DavetTekrarOku(i, a)
    PROVE  AdayAdimi
<1> DEFINE y == [aday[a] EXCEPT !.durum = "davet_gonderildi"]
           f == Fark(aday[a], y)
           g == [k \in DOMAIN f \cup {"link"} |-> IF k = "link" THEN "gecerli" ELSE f[k]]
<1>1. aday[a] # Yok /\ aday[a] \in AdaySatiri
    BY DEF DavetTekrarOku, AdayIInv, AdayTypeOK
<1>2. y \in AdaySatiri /\ y["kvkk"] = aday[a]["kvkk"] /\ y["tamam"] = aday[a]["tamam"]
      /\ y["icerik"] = aday[a]["icerik"]
    BY <1>1 DEF AdaySatiri, AdayDurumlari
<1>3. AdayFarki(f) /\ "icerik" \notin DOMAIN f
    <2> HIDE DEF y
    <2> QED
        BY <1>1, <1>2, AdayFarkOlur
<1>4. AdayFarki(g) /\ "icerik" \notin DOMAIN g
    <2> HIDE DEF f
    <2>1. DOMAIN g = DOMAIN f \cup {"link"} /\ g["link"] = "gecerli"
          /\ \A k \in DOMAIN f : k # "link" => g[k] = f[k]
        OBVIOUS
    <2> HIDE DEF g
    <2> QED
        BY <1>3, <2>1 DEF AdayFarki
<1>5. AdayFarkla(i, a, g)
    BY DEF DavetTekrarOku
<1> HIDE DEF g
<1> QED
    BY <1>4, <1>5, AdayFarklaAdimi

\* The consent and the staff's edits leave the form alone; the form asks whether it was
\* handed in before.
LEMMA AdayOkuAdimi ==
    ASSUME AdayIInv, NEW i \in Istekler, NEW a \in Adaylar,
           \/ KvkkOnaylaOku(i, a)
           \/ \E f \in 1..MaxIcerik, tc \in Tcler \cup {Yok} :
                FormOku(i, a, f, tc) \/ KariyerFormOku(i, a, f, tc)
           \/ \E tc \in Tcler \cup {Yok} : AdayDuzenleOku(i, a, tc)
           \/ \E d \in AdayDurumlari : AdayDurumOku(i, a, d)
           \/ AdaySilOku(i, a)
    PROVE  AdayAdimi
<1> DEFINE s == aday[a]
<1>1. s # Yok
    BY DEF KvkkOnaylaOku, FormOku, KariyerFormOku, LinkGecerli, AdayDuzenleOku, AdayDurumOku, AdaySilOku
<1>2. s \in AdaySatiri
    BY <1>1 DEF AdayIInv, AdayTypeOK
<1>3. CASE KvkkOnaylaOku(i, a)
    <2>1. [s EXCEPT !.kvkk = TRUE, !.durum = "form_bekleniyor"] \in AdaySatiri
        BY <1>2 DEF AdaySatiri, AdayDurumlari
    <2>2. AdayYazar(i, a, [s EXCEPT !.kvkk = TRUE, !.durum = "form_bekleniyor"])
        BY <1>3 DEF KvkkOnaylaOku
    <2> QED
        BY <1>1, <1>2, <2>1, <2>2, AdayYazarAdimi DEF AdaySatiri
<1>4. ASSUME NEW f \in 1..MaxIcerik, NEW tc \in Tcler \cup {Yok},
             FormOku(i, a, f, tc) \/ KariyerFormOku(i, a, f, tc)
      PROVE  AdayAdimi
    <2>0. f \in 0..MaxIcerik
        BY AdayAssumption
    <2>1. Basvurmus(a, f, tc) \in AdaySatiri
        BY <1>2, <2>0 DEF Basvurmus, AdaySatiri, AdayDurumlari
    <2>2. Basvurmus(a, f, tc)["tamam"] = TRUE /\ Basvurmus(a, f, tc)["kvkk"] = s["kvkk"]
        BY <1>2 DEF Basvurmus, AdaySatiri
    <2>3. AdayYazar(i, a, Basvurmus(a, f, tc)) /\ ~s.tamam
        BY <1>4 DEF FormOku, KariyerFormOku
    <2> QED
        BY <1>1, <2>1, <2>2, <2>3, AdayYazarAdimi
<1>5. ASSUME NEW tc \in Tcler \cup {Yok}, AdayDuzenleOku(i, a, tc)
      PROVE  AdayAdimi
    <2>1. [s EXCEPT !.tc = tc] \in AdaySatiri
        BY <1>2 DEF AdaySatiri
    <2>2. AdayYazar(i, a, [s EXCEPT !.tc = tc])
        BY <1>5 DEF AdayDuzenleOku
    <2> QED
        BY <1>1, <1>2, <2>1, <2>2, AdayYazarAdimi DEF AdaySatiri
<1>6. ASSUME NEW d \in AdayDurumlari, AdayDurumOku(i, a, d)
      PROVE  AdayAdimi
    <2>1. [s EXCEPT !.durum = d] \in AdaySatiri
        BY <1>2 DEF AdaySatiri
    <2>2. AdayYazar(i, a, [s EXCEPT !.durum = d])
        BY <1>6 DEF AdayDurumOku
    <2> QED
        BY <1>1, <1>2, <2>1, <2>2, AdayYazarAdimi DEF AdaySatiri
<1>7. CASE AdaySilOku(i, a)
    <2>1. [s EXCEPT !.silindi = TRUE] \in AdaySatiri
        BY <1>2 DEF AdaySatiri
    <2>2. AdayYazar(i, a, [s EXCEPT !.silindi = TRUE])
        BY <1>7 DEF AdaySilOku
    <2> QED
        BY <1>1, <1>2, <2>1, <2>2, AdayYazarAdimi DEF AdaySatiri
<1> QED
    BY <1>3, <1>4, <1>5, <1>6, <1>7

\* Columns are written to a candidate, here or when one is hired.
LEMMA AdayYazilir ==
    ASSUME AdayTypeOK, NEW a \in Adaylar, aday[a] # Yok, NEW f, AdayFarki(f),
           aday' = [aday EXCEPT ![a] = Uygula(@, f)]
    PROVE  /\ AdayTypeOK'
           /\ AdayIlerler
           /\ \A b \in Adaylar : aday[b] # Yok /\ (b = a => "icerik" \notin DOMAIN f) =>
                 aday'[b].icerik = aday[b].icerik
<1>1. aday[a] \in AdaySatiri
    BY DEF AdayTypeOK
<1>2. /\ Uygula(aday[a], f) \in AdaySatiri
      /\ Uygula(aday[a], f).kvkk <=> aday[a].kvkk \/ "kvkk" \in DOMAIN f
      /\ Uygula(aday[a], f).tamam <=> aday[a].tamam \/ "tamam" \in DOMAIN f
      /\ "icerik" \notin DOMAIN f => Uygula(aday[a], f).icerik = aday[a].icerik
    BY <1>1, AdayUygula
<1>3. aday'[a] = Uygula(aday[a], f) /\ \A b \in Adaylar \ {a} : aday'[b] = aday[b]
    BY DEF AdayTypeOK
<1>4. AdayTypeOK'
    BY <1>2 DEF AdayTypeOK
<1>5. aday'[a] # Yok
    BY <1>2, <1>3, AdaySatirlari
<1> QED
    BY <1>2, <1>3, <1>4, <1>5 DEF AdayIlerler

LEMMA AdayYazAdimi ==
    ASSUME AdayIInv, NEW i \in Istekler, AdayYaz(i)
    PROVE  AdayAdimi
<1> DEFINE a == istek[i].aday
           f == istek[i].fark
<1>1. istek[i].is = "aday" /\ aday' = [aday EXCEPT ![a] = Uygula(@, f)] /\ Bitti(i)
    BY DEF AdayYaz
<1>2. /\ a \in Adaylar /\ aday[a] # Yok /\ AdayFarki(f)
      /\ Sirali /\ "icerik" \in DOMAIN f => ~aday[a].tamam
    BY <1>1 DEF AdayIInv, AdayHazir
<1> HIDE DEF a, f
<1>3. /\ AdayTypeOK' /\ AdayIlerler
      /\ \A b \in Adaylar : aday[b] # Yok /\ (b = a => "icerik" \notin DOMAIN f) =>
            aday'[b].icerik = aday[b].icerik
    BY <1>1, <1>2, AdayYazilir DEF AdayIInv
<1>4. AdayIInv'
    BY <1>1, <1>3, AdayBiter
<1> QED
    BY <1>2, <1>3, <1>4 DEF AdayAdimi

LEMMA AdayBirakAdimi ==
    ASSUME AdayIInv, NEW i \in Istekler, AdayBirak(i)
    PROVE  AdayAdimi
<1>1. istek[i].is # "bos" /\ Bitti(i) /\ UNCHANGED aday
    BY DEF AdayBirak
<1>2. AdayIlerler /\ AdayTypeOK'
    BY <1>1 DEF AdayIlerler, AdayIInv, AdayTypeOK
<1> QED
    BY <1>1, <1>2, AdayBiter DEF AdayAdimi

LEMMA AdayNextAdimi ==
    ASSUME AdayIInv, AdayNext
    PROVE  AdayAdimi
<1>1. ASSUME NEW i \in Istekler, NEW a \in Adaylar,
             (\E d \in AdayDurumlari : ProjeDurumOku(i, a, d)) \/ AdayReddetOku(i, a)
      PROVE  AdayAdimi
    <2>1. \E d \in AdayDurumlari : AdayDurumOku(i, a, d)
        BY <1>1 DEF ProjeDurumOku, AdayReddetOku, AdayDurumlari
    <2> QED
        BY <2>1, AdayOkuAdimi
<1> QED
    BY <1>1, AdayGirer, TopluDavetAdimi, LinkSuresiAdimi, DavetTekrarAdimi, AdayOkuAdimi,
       AdayYazAdimi, AdayBirakAdimi DEF AdayNext

LEMMA AdayBaslangic == OturumInit /\ AdayInit => AdayIInv
BY OturumBaslangic DEF OturumInit, Bos, AdayInit, AdayIInv, AdayTypeOK, AdayHazir

\* With one thread, what an applicant handed in is not replaced by another form and
\* stays handed in, for any number of candidates and forms.
THEOREM BasvuruTek == AdaySpec => TekBasvuru
<1>1. ASSUME AdayIInv, [AdayNext]_<<oturum, aday>>
      PROVE  /\ AdayIInv'
             /\ [\A a \in Adaylar : Sirali /\ aday[a] # Yok /\ aday[a].tamam =>
                    aday'[a].tamam /\ aday'[a].icerik = aday[a].icerik]_aday
    <2>1. CASE AdayNext
        BY <1>1, <2>1, AdayNextAdimi DEF AdayAdimi, AdayIlerler
    <2>2. CASE UNCHANGED <<oturum, aday>>
        BY <1>1, <2>2, AdayDurur DEF AdayIInv, AdayTypeOK
    <2> QED
        BY <1>1, <2>1, <2>2
<1> QED
    BY <1>1, AdayBaslangic, PTL DEF AdaySpec, TekBasvuru

-----------------------------------------------------------------------------
(* Documents and hiring: the inductive invariant.                          *)

EvrakFarki(f) ==
    /\ DOMAIN f \subseteq {"durum"}
    /\ "durum" \in DOMAIN f => f["durum"] \in {"yuklendi", "onaylandi", "reddedildi"}

\* A thread that will write to a document.
EvrakHazir(i) ==
    istek[i].is = "evrak" =>
        /\ istek[i].evrak \in Evraklar
        /\ evrak[istek[i].evrak] # Yok
        /\ EvrakFarki(istek[i].fark)

\* A thread that will hire a candidate: through ik only with the consent and, with one
\* thread, with the documents required when it looked approved.
AlimHazir(i) ==
    istek[i].is = "alim" =>
        /\ istek[i].aday \in Adaylar
        /\ aday[istek[i].aday] # Yok
        /\ istek[i].tc \in Kimlikler \cup {Yok}
        /\ istek[i].gereken \subseteq EvrakTipleri
        /\ AdayFarki(istek[i].fark) /\ "icerik" \notin DOMAIN istek[i].fark
        /\ istek[i].kimden # Yok =>
             /\ istek[i].kimden = istek[i].aday
             /\ aday[istek[i].aday].kvkk
             /\ Sirali => istek[i].gereken \subseteq EvrakTipi(istek[i].aday, {"onaylandi"})

\* An employee's file names a candidate there is.
DosyaSahibi == \A c \in Calisanlar : dosya[c].aday # Yok => aday[dosya[c].aday] # Yok

IseAlimIInv ==
    /\ AdayIInv
    /\ IseAlimTypeOK
    /\ \A i \in Istekler : EvrakHazir(i) /\ AlimHazir(i)
    /\ DosyaSahibi
    /\ DosyaTam

\* Documents are kept.
EvrakIlerler == \A e \in Evraklar : evrak[e] # Yok => evrak'[e] # Yok

LEMMA EvrakSatirlari ==
    ASSUME NEW s \in EvrakSatiri
    PROVE  /\ s # Yok
           /\ DOMAIN s = {"aday", "tip", "durum"}
           /\ s.aday \in Adaylar /\ s.tip \in EvrakTipleri
           /\ s.durum \in {"yuklendi", "onaylandi", "reddedildi"}
BY IseAlimAssumption DEF EvrakSatiri

LEMMA EvrakUygula ==
    ASSUME NEW s \in EvrakSatiri, NEW f, EvrakFarki(f)
    PROVE  Uygula(s, f) \in EvrakSatiri
<1> DEFINE u == Uygula(s, f)
<1>1. /\ DOMAIN u = {"aday", "tip", "durum"}
      /\ u["aday"] = s.aday /\ u["tip"] = s.tip
      /\ u["durum"] = IF "durum" \in DOMAIN f THEN f["durum"] ELSE s.durum
    BY EvrakSatirlari DEF Uygula, EvrakFarki
<1>2. u = [aday |-> u["aday"], tip |-> u["tip"], durum |-> u["durum"]]
    BY <1>1 DEF Uygula
<1> QED
    BY <1>1, <1>2, EvrakSatirlari DEF EvrakFarki, EvrakSatiri

LEMMA EvrakFarkOlur ==
    ASSUME NEW s \in EvrakSatiri, NEW d \in {"yuklendi", "onaylandi", "reddedildi"}
    PROVE  EvrakFarki(Fark(s, [s EXCEPT !.durum = d]))
<1> DEFINE y == [s EXCEPT !.durum = d]
<1>1. y["aday"] = s["aday"] /\ y["tip"] = s["tip"] /\ y["durum"] = d
      /\ DOMAIN y = {"aday", "tip", "durum"}
    BY DEF EvrakSatiri
<1> HIDE DEF y
<1> QED
    BY <1>1 DEF Fark, EvrakFarki

LEMMA IseAlimHazirKalir ==
    ASSUME AdayIlerler, EvrakIlerler, Sirali' = Sirali, NEW j \in Istekler,
           EvrakHazir(j), AlimHazir(j), istek'[j] = istek[j],
           Sirali /\ istek[j].is = "alim" =>
               \A e \in Evraklar : evrak[e] # Yok => evrak'[e] = evrak[e]
    PROVE  EvrakHazir(j)' /\ AlimHazir(j)'
<1>1. EvrakHazir(j)'
    BY DEF EvrakHazir, EvrakIlerler
<1>2. ASSUME istek[j].is = "alim", Sirali
      PROVE  EvrakTipi(istek[j].aday, {"onaylandi"}) \subseteq EvrakTipi(istek[j].aday, {"onaylandi"})'
    BY <1>2 DEF EvrakTipi
<1>3. AlimHazir(j)'
    BY <1>2 DEF AlimHazir, AdayIlerler
<1> QED
    BY <1>1, <1>3

\* The files stay true when only the candidates change.
LEMMA DosyaKalir ==
    ASSUME IseAlimIInv, AdayIlerler, dosya' = dosya, Sirali' = Sirali
    PROVE  DosyaSahibi' /\ DosyaTam'
<1>1. \A c \in Calisanlar : dosya[c].aday \in Adaylar \cup {Yok}
    BY DEF IseAlimIInv, IseAlimTypeOK, DosyaSatiri
<1> QED
    BY <1>1 DEF IseAlimIInv, DosyaSahibi, DosyaTam, AdayIlerler

\* A handler has read.
LEMMA IseAlimBaslar ==
    ASSUME IseAlimIInv, NEW i \in Istekler, NEW r, Basla(i, r), UNCHANGED iseAlimVars, AdayIInv',
           istek'[i] = r => EvrakHazir(i)' /\ AlimHazir(i)'
    PROVE  IseAlimIInv'
<1>1. AdayIlerler /\ EvrakIlerler
    BY DEF AdayIlerler, EvrakIlerler, iseAlimVars
<1>2. /\ Sirali' = Sirali /\ istek'[i] = r
      /\ \A j \in Istekler \ {i} : istek'[j] = istek[j]
    BY BaslaSonuc DEF IseAlimIInv, AdayIInv
<1>3. \A j \in Istekler \ {i} : EvrakHazir(j)' /\ AlimHazir(j)'
    BY <1>1, <1>2, IseAlimHazirKalir DEF IseAlimIInv, iseAlimVars
<1>4. IseAlimTypeOK'
    BY DEF IseAlimIInv, IseAlimTypeOK, AdayTypeOK, CalisanTypeOK, iseAlimVars, calisanVars
<1>5. DosyaSahibi' /\ DosyaTam'
    BY <1>1, <1>2, DosyaKalir DEF iseAlimVars
<1> QED
    BY <1>2, <1>3, <1>4, <1>5 DEF IseAlimIInv

\* A handler has ended.
LEMMA IseAlimBiter ==
    ASSUME IseAlimIInv, NEW i \in Istekler, istek[i].is # "bos", Bitti(i),
           AdayIInv', AdayIlerler, EvrakIlerler, IseAlimTypeOK', DosyaSahibi', DosyaTam'
    PROVE  IseAlimIInv'
<1>1. istek[i] # Bos
    BY DEF Bos
<1>2. /\ Sirali' = Sirali /\ istek'[i] = Bos
      /\ \A j \in Istekler \ {i} : istek'[j] = istek[j] /\ (Sirali => istek[j] = Bos)
    BY <1>1, BittiSonuc DEF IseAlimIInv, AdayIInv
<1>3. EvrakHazir(i)' /\ AlimHazir(i)'
    BY <1>2 DEF EvrakHazir, AlimHazir, Bos
<1>4. ASSUME NEW j \in Istekler \ {i} PROVE EvrakHazir(j)' /\ AlimHazir(j)'
    <2>1. Sirali => istek[j].is # "alim"
        BY <1>2 DEF Bos
    <2> QED
        BY <1>2, <2>1, IseAlimHazirKalir DEF IseAlimIInv
<1> QED
    BY <1>3, <1>4 DEF IseAlimIInv

\* A step that is no handler's.
LEMMA IseAlimDurur ==
    ASSUME IseAlimIInv, UNCHANGED <<oturum, dosya>>, AdayIInv', AdayIlerler, IseAlimTypeOK',
           \A e \in Evraklar : evrak[e] # Yok => evrak'[e] = evrak[e]
    PROVE  IseAlimIInv'
<1>1. istek' = istek /\ Sirali' = Sirali
    BY DEF oturum, Sirali
<1>2. EvrakIlerler
    BY DEF EvrakIlerler
<1>3. \A j \in Istekler : EvrakHazir(j)' /\ AlimHazir(j)'
    BY <1>1, <1>2, IseAlimHazirKalir DEF IseAlimIInv
<1> QED
    BY <1>1, <1>3, DosyaKalir DEF IseAlimIInv

-----------------------------------------------------------------------------
(* Documents and hiring: the steps.                                        *)

LEMMA EvrakKararAdimi ==
    ASSUME IseAlimIInv, NEW i \in Istekler, NEW e \in Evraklar, EvrakOnaylaOku(i, e) \/ EvrakReddetOku(i, e)
    PROVE  IseAlimIInv'
<1>1. PICK d \in {"onaylandi", "reddedildi"} : EvrakKararOku(i, e, d)
    BY DEF EvrakOnaylaOku, EvrakReddetOku
<1> DEFINE f == Fark(evrak[e], [evrak[e] EXCEPT !.durum = d])
           r == [is |-> "evrak", evrak |-> e, fark |-> f]
<1>2. evrak[e] # Yok /\ Basla(i, r) /\ UNCHANGED iseAlimVars
    BY <1>1 DEF EvrakKararOku
<1>3. EvrakFarki(f)
    BY <1>2, EvrakFarkOlur DEF IseAlimIInv, IseAlimTypeOK
<1> HIDE DEF f
<1>4. istek'[i] = r => EvrakHazir(i)' /\ AlimHazir(i)' /\ AdayHazir(i)'
    BY <1>2, <1>3 DEF EvrakHazir, AlimHazir, AdayHazir, iseAlimVars
<1> HIDE DEF r
<1>5. AdayIInv'
    BY <1>2, <1>4, AdayBaslar DEF IseAlimIInv, iseAlimVars
<1> QED
    BY <1>2, <1>4, <1>5, IseAlimBaslar

LEMMA AlimYazarAdimi ==
    ASSUME IseAlimIInv, NEW i \in Istekler, NEW a \in Adaylar, aday[a] # Yok,
           NEW tc \in Kimlikler \cup {Yok}, NEW g \in SUBSET EvrakTipleri, NEW kimden \in {a, Yok},
           kimden # Yok => aday[a].kvkk /\ g \subseteq EvrakTipi(a, {"onaylandi"}),
           AlimYazar(i, a, tc, g, kimden)
    PROVE  IseAlimIInv'
<1> DEFINE y == [aday[a] EXCEPT !.durum = "ise_alindi"]
           f == Fark(aday[a], y)
           r == [is |-> "alim", aday |-> a, tc |-> tc, gereken |-> g, kimden |-> kimden, fark |-> f]
<1>1. Basla(i, r) /\ UNCHANGED iseAlimVars
    BY DEF AlimYazar
<1>2. aday[a] \in AdaySatiri
    BY DEF IseAlimIInv, AdayIInv, AdayTypeOK
<1>3. y \in AdaySatiri /\ y["kvkk"] = aday[a]["kvkk"] /\ y["tamam"] = aday[a]["tamam"]
    BY <1>2 DEF AdaySatiri, AdayDurumlari
<1>4. AdayFarki(f) /\ "icerik" \notin DOMAIN f
    <2>1. y["icerik"] = aday[a]["icerik"]
        BY <1>2 DEF AdaySatiri
    <2> HIDE DEF y
    <2>2. AdayFarki(f)
        BY <1>2, <1>3, AdayFarkOlur
    <2> QED
        BY <2>1, <2>2 DEF Fark
<1> HIDE DEF f
<1>5. aday' = aday /\ EvrakTipi(a, {"onaylandi"})' = EvrakTipi(a, {"onaylandi"})
    BY <1>1 DEF iseAlimVars, EvrakTipi
<1>6. ASSUME istek'[i] = r PROVE EvrakHazir(i)' /\ AlimHazir(i)' /\ AdayHazir(i)'
    <2>1. EvrakHazir(i)' /\ AdayHazir(i)'
        BY <1>6 DEF EvrakHazir, AdayHazir
    <2>2. /\ istek'[i].is = "alim" /\ istek'[i].aday = a /\ istek'[i].tc = tc
          /\ istek'[i].gereken = g /\ istek'[i].kimden = kimden /\ istek'[i].fark = f
        BY <1>6
    <2> HIDE DEF r
    <2>3. AlimHazir(i)'
        BY <1>4, <1>5, <2>2 DEF AlimHazir
    <2> QED
        BY <2>1, <2>3
<1> HIDE DEF r
<1>7. AdayIInv'
    BY <1>1, <1>5, <1>6, AdayBaslar DEF IseAlimIInv
<1> QED
    BY <1>1, <1>6, <1>7, IseAlimBaslar

LEMMA DonusturAdimi ==
    ASSUME IseAlimIInv, NEW i \in Istekler, NEW a \in Adaylar, DonusturOku(i, a)
    PROVE  IseAlimIInv'
<1>1. aday[a].tc \in Kimlikler \cup {Yok}
    BY AdaySatirlari, IseAlimAssumption DEF DonusturOku, IseAlimIInv, AdayIInv, AdayTypeOK
<1>2. Zorunlu \in SUBSET EvrakTipleri
    BY DEF Zorunlu
<1> QED
    BY <1>1, <1>2, AlimYazarAdimi DEF DonusturOku

LEMMA IseAlAdimi ==
    ASSUME IseAlimIInv, NEW i \in Istekler, NEW a \in Adaylar, NEW tc \in Kimlikler, IseAlOku(i, a, tc)
    PROVE  IseAlimIInv'
BY AlimYazarAdimi DEF IseAlOku

LEMMA EvrakYazAdimi ==
    ASSUME IseAlimIInv, NEW i \in Istekler, EvrakYaz(i)
    PROVE  IseAlimIInv'
<1> DEFINE e == istek[i].evrak
           f == istek[i].fark
<1>1. /\ istek[i].is = "evrak" /\ evrak' = [evrak EXCEPT ![e] = Uygula(@, f)] /\ Bitti(i)
      /\ UNCHANGED <<aday, calisanVars, tip, dosya>>
    BY DEF EvrakYaz
<1>2. e \in Evraklar /\ evrak[e] # Yok /\ EvrakFarki(f)
    BY <1>1 DEF IseAlimIInv, EvrakHazir
<1> HIDE DEF e, f
<1>3. evrak[e] \in EvrakSatiri
    BY <1>2 DEF IseAlimIInv, IseAlimTypeOK
<1>4. Uygula(evrak[e], f) \in EvrakSatiri
    BY <1>2, <1>3, EvrakUygula
<1>5. IseAlimTypeOK'
    BY <1>1, <1>4 DEF IseAlimIInv, IseAlimTypeOK, AdayTypeOK, CalisanTypeOK, calisanVars
<1>6. EvrakIlerler
    BY <1>1, <1>2, <1>4, EvrakSatirlari DEF EvrakIlerler, IseAlimIInv, IseAlimTypeOK
<1>7. AdayIlerler /\ AdayTypeOK'
    BY <1>1, <1>5 DEF AdayIlerler, IseAlimTypeOK
<1>8. AdayIInv'
    BY <1>1, <1>7, AdayBiter DEF IseAlimIInv
<1>9. Sirali' = Sirali
    BY <1>1 DEF Bitti, Sirali
<1> QED
    BY <1>1, <1>5, <1>6, <1>7, <1>8, <1>9, DosyaKalir, IseAlimBiter

LEMMA AlimAdimi ==
    ASSUME IseAlimIInv, NEW i \in Istekler, NEW c \in Calisanlar, Alim(i, c)
    PROVE  IseAlimIInv'
<1> DEFINE a == istek[i].aday
           f == istek[i].fark
           kopya == IF istek[i].kimden = Yok THEN {} ELSE EvrakTipi(a, {"onaylandi"})
           d == [kopya |-> kopya, gereken |-> istek[i].gereken, aday |-> istek[i].kimden]
<1>1. /\ istek[i].is = "alim" /\ calisan[c] = Yok
      /\ calisan' = [calisan EXCEPT ![c] = YeniCalisan("aktif", istek[i].tc)]
      /\ aday' = [aday EXCEPT ![a] = Uygula(@, f)]
      /\ dosya' = [dosya EXCEPT ![c] = d]
      /\ Bitti(i)
      /\ UNCHANGED <<cikis, tip, evrak>>
    BY DEF Alim
<1>2. /\ a \in Adaylar /\ aday[a] # Yok /\ AdayFarki(f)
      /\ istek[i].tc \in Kimlikler \cup {Yok} /\ istek[i].gereken \subseteq EvrakTipleri
      /\ istek[i].kimden # Yok =>
           /\ istek[i].kimden = a /\ aday[a].kvkk
           /\ Sirali => istek[i].gereken \subseteq kopya
    BY <1>1 DEF IseAlimIInv, AlimHazir
<1>3. EvrakTipi(a, {"onaylandi"}) \subseteq EvrakTipleri
    BY EvrakSatirlari DEF EvrakTipi, IseAlimIInv, IseAlimTypeOK
<1>4. d \in DosyaSatiri
    BY <1>2, <1>3 DEF DosyaSatiri
<1>5. YeniCalisan("aktif", istek[i].tc) \in CalisanSatiri
    BY <1>2 DEF YeniCalisan, CalisanSatiri, CalisanDurumu
<1>6. AdayTypeOK' /\ AdayIlerler
    <2> HIDE DEF a, f
    <2> QED
        BY <1>1, <1>2, AdayYazilir DEF IseAlimIInv, AdayIInv
<1>7. IseAlimTypeOK'
    <2> HIDE DEF d
    <2> QED
        BY <1>1, <1>4, <1>5, <1>6 DEF IseAlimIInv, IseAlimTypeOK, CalisanTypeOK
<1>8. AdayIInv'
    BY <1>1, <1>6, AdayBiter DEF IseAlimIInv
<1>9. /\ dosya'[c] = d /\ \A x \in Calisanlar \ {c} : dosya'[x] = dosya[x]
    BY <1>1 DEF IseAlimIInv, IseAlimTypeOK
<1>10. Sirali' = Sirali
    BY <1>1 DEF Bitti, Sirali
<1>11. /\ d.aday = istek[i].kimden /\ d.gereken = istek[i].gereken /\ d.kopya = kopya
    OBVIOUS
<1> HIDE DEF kopya, d, f, a
<1>12. ASSUME NEW x \in Calisanlar, dosya'[x].aday # Yok
       PROVE  /\ aday'[dosya'[x].aday] # Yok
              /\ aday'[dosya'[x].aday].kvkk
              /\ Sirali' => dosya'[x].gereken \subseteq dosya'[x].kopya
    <2>1. CASE x = c
        BY <1>2, <1>6, <1>9, <1>10, <1>11, <1>12, <2>1 DEF AdayIlerler
    <2>2. CASE x # c
        <3>1. dosya'[x] = dosya[x] /\ dosya[x].aday \in Adaylar
            BY <1>9, <1>12, <2>2 DEF IseAlimIInv, IseAlimTypeOK, DosyaSatiri
        <3> QED
            BY <1>6, <1>10, <1>12, <3>1 DEF AdayIlerler, IseAlimIInv, DosyaSahibi, DosyaTam
    <2> QED
        BY <2>1, <2>2
<1>13. DosyaSahibi' /\ DosyaTam'
    BY <1>12 DEF DosyaSahibi, DosyaTam
<1>14. EvrakIlerler
    BY <1>1 DEF EvrakIlerler
<1> QED
    BY <1>1, <1>6, <1>7, <1>8, <1>13, <1>14, IseAlimBiter

LEMMA IseAlimBirakAdimi ==
    ASSUME IseAlimIInv, NEW i \in Istekler, IseAlimBirak(i)
    PROVE  IseAlimIInv'
<1>1. istek[i].is # "bos" /\ Bitti(i) /\ UNCHANGED iseAlimVars
    BY DEF IseAlimBirak
<1>2. AdayIlerler /\ EvrakIlerler /\ IseAlimTypeOK' /\ AdayTypeOK'
    BY <1>1 DEF AdayIlerler, EvrakIlerler, iseAlimVars, IseAlimIInv, IseAlimTypeOK, AdayTypeOK,
        CalisanTypeOK, calisanVars
<1>3. AdayIInv'
    BY <1>1, <1>2, AdayBiter DEF IseAlimIInv
<1>4. Sirali' = Sirali /\ dosya' = dosya
    BY <1>1 DEF Bitti, Sirali, iseAlimVars
<1> QED
    BY <1>1, <1>2, <1>3, <1>4, DosyaKalir, IseAlimBiter

LEMMA EvrakGirer ==
    ASSUME IseAlimIInv,
           \/ \E v \in EvrakTipleri, z \in {"zorunlu", "istege_bagli"} : EvrakTipiEkle(v, z)
           \/ \E e \in Evraklar, a \in Adaylar, v \in EvrakTipleri : EvrakYukle(e, a, v)
    PROVE  IseAlimIInv'
<1>1. UNCHANGED <<aday, calisanVars, dosya, oturum>>
    BY DEF EvrakTipiEkle, EvrakYukle
<1>2. \A a \in Adaylar, v \in EvrakTipleri :
          [aday |-> a, tip |-> v, durum |-> "yuklendi"] \in EvrakSatiri
    BY DEF EvrakSatiri
<1>3. tip' \in [EvrakTipleri -> {"yok", "zorunlu", "istege_bagli"}]
    BY DEF EvrakTipiEkle, EvrakYukle, IseAlimIInv, IseAlimTypeOK
<1>4. evrak' \in [Evraklar -> EvrakSatiri \cup {Yok}]
    BY <1>2 DEF EvrakTipiEkle, EvrakYukle, IseAlimIInv, IseAlimTypeOK
<1>5. \A x \in Evraklar : evrak[x] # Yok => evrak'[x] = evrak[x]
    BY DEF EvrakTipiEkle, EvrakYukle, IseAlimIInv, IseAlimTypeOK
<1>6. IseAlimTypeOK'
    BY <1>1, <1>3, <1>4 DEF IseAlimIInv, IseAlimTypeOK, AdayTypeOK, CalisanTypeOK, calisanVars
<1>7. AdayIInv' /\ AdayIlerler
    BY <1>1, <1>6, AdayDurur DEF IseAlimIInv, IseAlimTypeOK
<1> QED
    BY <1>1, <1>5, <1>6, <1>7, IseAlimDurur

\* The steps of the candidates in hiring.
LEMMA IseAlimAdayAdimi ==
    ASSUME IseAlimIInv, UNCHANGED <<calisanVars, tip, evrak, dosya>>,
           \/ \E a \in Adaylar : AdayDavet(a)
           \/ \E i \in Istekler :
                (\E a \in Adaylar : KvkkOnaylaOku(i, a)) \/ AdayYaz(i) \/ AdayBirak(i)
    PROVE  IseAlimIInv'
<1>1. AdayAdimi
    BY AdayGirer, AdayOkuAdimi, AdayYazAdimi, AdayBirakAdimi DEF IseAlimIInv
<1>2. AdayIInv' /\ AdayIlerler /\ EvrakIlerler
    BY <1>1 DEF AdayAdimi, EvrakIlerler
<1>3. IseAlimTypeOK'
    BY <1>2 DEF AdayIInv, IseAlimIInv, IseAlimTypeOK, CalisanTypeOK, calisanVars
<1>4. ASSUME NEW a \in Adaylar, AdayDavet(a) PROVE IseAlimIInv'
    BY <1>2, <1>3, <1>4, IseAlimDurur DEF AdayDavet, AdayEkle
<1>5. ASSUME NEW i \in Istekler, NEW a \in Adaylar, KvkkOnaylaOku(i, a) PROVE IseAlimIInv'
    <2>1. PICK f : AdayFarkla(i, a, f)
        BY <1>5 DEF KvkkOnaylaOku, AdayYazar
    <2> DEFINE r == [is |-> "aday", aday |-> a, fark |-> f]
    <2>2. Basla(i, r) /\ UNCHANGED iseAlimVars
        BY <2>1 DEF AdayFarkla, iseAlimVars
    <2>3. istek'[i] = r => EvrakHazir(i)' /\ AlimHazir(i)'
        BY DEF EvrakHazir, AlimHazir
    <2> HIDE DEF r
    <2> QED
        BY <1>2, <2>2, <2>3, IseAlimBaslar
<1>6. ASSUME NEW i \in Istekler, AdayYaz(i) \/ AdayBirak(i) PROVE IseAlimIInv'
    <2>1. istek[i].is # "bos" /\ Bitti(i)
        BY <1>6 DEF AdayYaz, AdayBirak
    <2>2. Sirali' = Sirali
        BY <2>1 DEF Bitti, Sirali
    <2> QED
        BY <1>2, <1>3, <2>1, <2>2, DosyaKalir, IseAlimBiter
<1> QED
    BY <1>4, <1>5, <1>6

LEMMA IseAlimBaslangic == OturumInit /\ IseAlimInit => IseAlimIInv
<1> SUFFICES ASSUME OturumInit, IseAlimInit PROVE IseAlimIInv
    OBVIOUS
<1>1. AdayIInv
    BY AdayBaslangic DEF IseAlimInit
<1>2. \A i \in Istekler : EvrakHazir(i) /\ AlimHazir(i)
    BY DEF OturumInit, Bos, EvrakHazir, AlimHazir
<1>3. IseAlimTypeOK
    BY <1>1 DEF AdayIInv, IseAlimInit, CalisanInit, IseAlimTypeOK, CalisanTypeOK, DosyaSatiri
<1>4. DosyaSahibi /\ DosyaTam
    BY DEF IseAlimInit, DosyaSahibi, DosyaTam
<1> QED
    BY <1>1, <1>2, <1>3, <1>4 DEF IseAlimIInv

LEMMA IseAlimAdimi == IseAlimIInv /\ [IseAlimNext]_<<oturum, iseAlimVars>> => IseAlimIInv'
<1> SUFFICES ASSUME IseAlimIInv, [IseAlimNext]_<<oturum, iseAlimVars>> PROVE IseAlimIInv'
    OBVIOUS
<1>1. CASE UNCHANGED <<oturum, iseAlimVars>>
    <2>1. IseAlimTypeOK'
        BY <1>1 DEF iseAlimVars, IseAlimIInv, IseAlimTypeOK, AdayTypeOK, CalisanTypeOK, calisanVars
    <2>2. AdayIInv' /\ AdayIlerler
        BY <1>1, <2>1, AdayDurur DEF iseAlimVars, IseAlimIInv, IseAlimTypeOK
    <2> QED
        BY <1>1, <2>1, <2>2, IseAlimDurur DEF iseAlimVars
<1> QED
    BY <1>1, IseAlimAdayAdimi, EvrakGirer, EvrakKararAdimi, EvrakYazAdimi, DonusturAdimi,
       IseAlAdimi, AlimAdimi, IseAlimBirakAdimi DEF IseAlimNext

\* Candidates, documents, employees and their files have the columns and values the
\* code gives them.
THEOREM IseAlimTipleri == IseAlimSpec => []IseAlimTypeOK
<1>1. IseAlimIInv => IseAlimTypeOK
    BY DEF IseAlimIInv
<1> QED
    BY <1>1, IseAlimBaslangic, IseAlimAdimi, PTL DEF IseAlimSpec

\* Whoever is hired through ik gave the consent; with one thread the file holds an approved
\* document of every type that was required then.
THEOREM TamDosya == IseAlimSpec => []DosyaTam
<1>1. IseAlimIInv => DosyaTam
    BY DEF IseAlimIInv
<1> QED
    BY <1>1, IseAlimBaslangic, IseAlimAdimi, PTL DEF IseAlimSpec

-----------------------------------------------------------------------------
(* The one-time code: the inductive invariant.                             *)

\* A thread that judged a wrong code will write the next number of tries.
YanlisHazir(i) ==
    istek[i].is = "otp" /\ istek[i].yanlis # 0 =>
        /\ DOMAIN istek[i].fark = {"deneme"}
        /\ istek[i].fark["deneme"] \in 1..DenemeHakki
        /\ Sirali => istek[i].fark["deneme"] = otp[istek[i].aday].deneme + 1

\* Any other one will write another code, or none; it takes the tries back only with a
\* new code.
YeniKodHazir(i) ==
    istek[i].is = "otp" /\ istek[i].yanlis = 0 =>
        LET f == istek[i].fark
            a == istek[i].aday
        IN  /\ DOMAIN f \subseteq {"kod", "gecerli", "deneme", "dogrulandi"}
            /\ "kod" \in DOMAIN f /\ f["kod"] \in 0..gonderilen[a]
            /\ "gecerli" \in DOMAIN f => f["gecerli"] \in BOOLEAN
            /\ "dogrulandi" \in DOMAIN f => f["dogrulandi"] \in BOOLEAN
            /\ "deneme" \in DOMAIN f => f["deneme"] = 0 /\ f["kod"] # 0
            /\ f["kod"] # 0 => f["kod"] # otp[a].kod

KodHazir(i) ==
    /\ istek[i].is = "otp" => istek[i].aday \in Adaylar
    /\ YanlisHazir(i)
    /\ YeniKodHazir(i)

\* Thread i will write a code to candidate a's row.
KodYazar(i, a) ==
    /\ istek[i].is = "otp" /\ istek[i].aday = a
    /\ istek[i].yanlis = 0
    /\ istek[i].fark["kod"] # 0

\* No code is sent twice.
KodlarFarkli ==
    \A i, j \in Istekler, a \in Adaylar :
        i # j /\ KodYazar(i, a) /\ KodYazar(j, a) => istek[i].fark["kod"] # istek[j].fark["kod"]

\* Thread i will write that the code of candidate a was tried once more in vain.
YanlisYazar(i, a) == istek[i].is = "otp" /\ istek[i].aday = a /\ istek[i].yanlis # 0

\* The tries that thread i may still commit for candidate a, were it alone from now on.
Kalan(i, a) ==
    IF YanlisYazar(i, a) /\ istek[i].fark["deneme"] <= otp[a].deneme
    THEN 4 - istek[i].fark["deneme"]
    ELSE 3 - otp[a].deneme

\* 0 + 1 + ... + n.
Ucgen(n) == IF n = 0 THEN 0 ELSE IF n = 1 THEN 1 ELSE IF n = 2 THEN 3 ELSE 6

\* The tries that two threads may still commit, who alone may commit m and n: a late
\* commit of the one that has more left gives the other one as many as itself.
Butce(m, n) == IF n <= m THEN Ucgen(m) + n ELSE Ucgen(n) + m

DenemeIInv ==
    /\ Sirali => \A a \in Adaylar : otp[a].yanlis <= otp[a].deneme
    /\ \A i, j \in Istekler : i # j /\ isci = {i, j} =>
         \A a \in Adaylar : otp[a].yanlis + Butce(Kalan(i, a), Kalan(j, a)) <= 9

DogrulamaIInv ==
    /\ AdayIInv
    /\ DogrulamaTypeOK
    /\ \A i \in Istekler : KodHazir(i)
    /\ KodlarFarkli
    /\ \A a \in Adaylar : otp[a].kod <= gonderilen[a]
    /\ DenemeIInv

-----------------------------------------------------------------------------
(* The one-time code: numbers and rows.                                    *)

LEMMA ButceTipi ==
    ASSUME NEW m \in 0..3, NEW n \in 0..3
    PROVE  Butce(m, n) \in 0..9 /\ Butce(m, n) = Butce(n, m)
BY DEF Butce, Ucgen

LEMMA ButceArtmaz ==
    ASSUME NEW m \in 0..3, NEW n \in 0..3, NEW p \in 0..m, NEW q \in 0..n
    PROVE  Butce(p, q) <= Butce(m, n)
BY DEF Butce, Ucgen

\* A try of the thread that had m left.
LEMMA ButceAzalir ==
    ASSUME NEW m \in 0..3, NEW n \in 0..3, NEW p \in 0..3, NEW q \in 0..3, p < m, q < m \/ q <= n
    PROVE  Butce(p, q) + 1 <= Butce(m, n)
BY DEF Butce, Ucgen

LEMMA KodSatirlari ==
    ASSUME NEW s \in KodSatiri
    PROVE  /\ DOMAIN s = {"kod", "gecerli", "deneme", "dogrulandi", "yanlis"}
           /\ s.kod \in 0..MaxKod /\ s.deneme \in 0..3 /\ s.yanlis \in Nat
           /\ s.gecerli \in BOOLEAN /\ s.dogrulandi \in BOOLEAN
BY DEF KodSatiri, DenemeHakki

\* What the handlers may write to the columns for the code.
KodFarki(f) ==
    /\ DOMAIN f \subseteq {"kod", "gecerli", "deneme", "dogrulandi"}
    /\ "kod" \in DOMAIN f => f["kod"] \in 0..MaxKod
    /\ "gecerli" \in DOMAIN f => f["gecerli"] \in BOOLEAN
    /\ "deneme" \in DOMAIN f => f["deneme"] \in 0..3
    /\ "dogrulandi" \in DOMAIN f => f["dogrulandi"] \in BOOLEAN

LEMMA KodUygula ==
    ASSUME NEW s \in KodSatiri, NEW f, KodFarki(f), NEW y \in Nat
    PROVE  LET u == [Uygula(s, f) EXCEPT !.yanlis = y]
           IN  /\ u \in KodSatiri
               /\ u.kod = (IF "kod" \in DOMAIN f THEN f["kod"] ELSE s.kod)
               /\ u.deneme = (IF "deneme" \in DOMAIN f THEN f["deneme"] ELSE s.deneme)
               /\ u.yanlis = y
               /\ Uygula(s, f).kod = u.kod /\ Uygula(s, f).yanlis = s.yanlis
<1> DEFINE t == Uygula(s, f)
           u == [t EXCEPT !.yanlis = y]
<1>1. /\ DOMAIN t = {"kod", "gecerli", "deneme", "dogrulandi", "yanlis"}
      /\ t["kod"] = IF "kod" \in DOMAIN f THEN f["kod"] ELSE s.kod
      /\ t["gecerli"] = IF "gecerli" \in DOMAIN f THEN f["gecerli"] ELSE s.gecerli
      /\ t["deneme"] = IF "deneme" \in DOMAIN f THEN f["deneme"] ELSE s.deneme
      /\ t["dogrulandi"] = IF "dogrulandi" \in DOMAIN f THEN f["dogrulandi"] ELSE s.dogrulandi
      /\ t["yanlis"] = s.yanlis
    BY KodSatirlari DEF Uygula, KodFarki
<1>2. t = [k \in {"kod", "gecerli", "deneme", "dogrulandi", "yanlis"} |-> t[k]]
    BY <1>1 DEF Uygula
<1> HIDE DEF t
<1>3. /\ u = [kod |-> t["kod"], gecerli |-> t["gecerli"], deneme |-> t["deneme"],
              dogrulandi |-> t["dogrulandi"], yanlis |-> y]
      /\ u["kod"] = t["kod"] /\ u["deneme"] = t["deneme"] /\ u["yanlis"] = y
    BY <1>1, <1>2
<1>4. /\ t["kod"] \in 0..MaxKod /\ t["gecerli"] \in BOOLEAN /\ t["deneme"] \in 0..3
      /\ t["dogrulandi"] \in BOOLEAN
    BY <1>1, KodSatirlari DEF KodFarki
<1>5. u \in KodSatiri
    BY <1>3, <1>4 DEF KodSatiri, DenemeHakki
<1> QED
    BY <1>1, <1>3, <1>5 DEF t

LEMMA KodTipleri ==
    ASSUME DogrulamaTypeOK, NEW a \in Adaylar
    PROVE  otp[a] \in KodSatiri /\ gonderilen[a] \in 0..MaxKod /\ MaxKod \in Nat
BY DogrulamaAssumption DEF DogrulamaTypeOK

LEMMA HazirFark ==
    ASSUME DogrulamaTypeOK, NEW i \in Istekler, KodHazir(i), istek[i].is = "otp"
    PROVE  KodFarki(istek[i].fark)
<1>1. gonderilen[istek[i].aday] \in 0..MaxKod /\ MaxKod \in Nat
    BY KodTipleri DEF KodHazir
<1> QED
    BY <1>1 DEF KodHazir, YanlisHazir, YeniKodHazir, KodFarki, DenemeHakki

LEMMA KalanTipi ==
    ASSUME DogrulamaTypeOK, NEW i \in Istekler, KodHazir(i), NEW a \in Adaylar
    PROVE  Kalan(i, a) \in 0..3
BY KodTipleri, KodSatirlari DEF Kalan, KodHazir, YanlisHazir, YanlisYazar, DenemeHakki

-----------------------------------------------------------------------------
(* The one-time code: what the steps have in common.                       *)

\* The codes sent to a candidate only get more.
GonderilenArtar == \A a \in Adaylar : gonderilen[a] <= gonderilen'[a]

LEMMA KodHazirKalir ==
    ASSUME DogrulamaTypeOK, DogrulamaTypeOK', GonderilenArtar, Sirali' = Sirali,
           NEW j \in Istekler, KodHazir(j), istek'[j] = istek[j],
           Sirali /\ istek[j].is = "otp" =>
               otp'[istek[j].aday].deneme = otp[istek[j].aday].deneme,
           \A a \in Adaylar : KodYazar(j, a) => otp'[a].kod # istek[j].fark["kod"]
    PROVE  KodHazir(j)'
<1>1. YanlisHazir(j)'
    BY DEF KodHazir, YanlisHazir
<1>2. ASSUME istek[j].is = "otp", istek[j].yanlis = 0
      PROVE  YeniKodHazir(j)'
    <2> DEFINE a == istek[j].aday
    <2>1. a \in Adaylar
        BY <1>2 DEF KodHazir
    <2>2. gonderilen[a] \in Nat /\ gonderilen'[a] \in Nat /\ gonderilen[a] <= gonderilen'[a]
        BY <2>1, DogrulamaAssumption DEF DogrulamaTypeOK, GonderilenArtar
    <2>3. \A k \in 0..gonderilen[a] : k \in 0..gonderilen'[a]
        BY <2>2
    <2>4. istek[j].fark["kod"] # 0 => otp'[a].kod # istek[j].fark["kod"]
        BY <1>2, <2>1 DEF KodYazar
    <2> QED
        BY <1>2, <2>3, <2>4 DEF KodHazir, YeniKodHazir
<1>3. YeniKodHazir(j)'
    BY <1>2 DEF YeniKodHazir
<1> QED
    BY <1>1, <1>3 DEF KodHazir

\* The numbers of tries stay, and no thread has more left.
LEMMA DenemeKalir ==
    ASSUME DogrulamaIInv, DogrulamaTypeOK', \A i \in Istekler : KodHazir(i)', isci' = isci,
           \A a \in Adaylar : otp'[a].yanlis = otp[a].yanlis /\ otp'[a].deneme = otp[a].deneme,
           \A i \in Istekler, a \in Adaylar : Kalan(i, a)' <= Kalan(i, a)
    PROVE  DenemeIInv'
<1>1. Sirali' = Sirali
    BY DEF Sirali
<1>2. ASSUME NEW i \in Istekler, NEW j \in Istekler, i # j, isci = {i, j}, NEW a \in Adaylar
      PROVE  otp[a].yanlis + Butce(Kalan(i, a)', Kalan(j, a)') <= 9
    <2>0. otp'[a].deneme \in 0..3
        BY DEF DogrulamaTypeOK, KodSatiri, DenemeHakki
    <2>1. /\ Kalan(i, a) \in 0..3 /\ Kalan(j, a) \in 0..3
          /\ Kalan(i, a)' \in 0..3 /\ Kalan(j, a)' \in 0..3
        BY <2>0, KalanTipi
            DEF DogrulamaIInv, Kalan, KodHazir, YanlisHazir, YanlisYazar, DenemeHakki
    <2>2. Kalan(i, a)' \in 0..Kalan(i, a) /\ Kalan(j, a)' \in 0..Kalan(j, a)
        BY <2>1
    <2>3. Butce(Kalan(i, a)', Kalan(j, a)') <= Butce(Kalan(i, a), Kalan(j, a))
        BY <2>1, <2>2, ButceArtmaz
    <2>4. otp[a].yanlis + Butce(Kalan(i, a), Kalan(j, a)) <= 9
        BY <1>2 DEF DogrulamaIInv, DenemeIInv
    <2>5. /\ otp[a].yanlis \in Nat
          /\ Butce(Kalan(i, a)', Kalan(j, a)') \in 0..9
          /\ Butce(Kalan(i, a), Kalan(j, a)) \in 0..9
        BY <2>1, ButceTipi, KodTipleri, KodSatirlari DEF DogrulamaIInv
    <2> QED
        BY <2>3, <2>4, <2>5
<1> QED
    BY <1>1, <1>2 DEF DogrulamaIInv, DenemeIInv

\* A handler has read.
LEMMA DogrulamaBaslar ==
    ASSUME DogrulamaIInv, NEW i \in Istekler, NEW r, Basla(i, r), UNCHANGED <<aday, otp>>,
           DogrulamaTypeOK', GonderilenArtar, r.is = "otp",
           istek'[i] = r => KodHazir(i)',
           r.yanlis # 0 => r.fark["deneme"] = otp[r.aday].deneme + 1,
           r.yanlis = 0 /\ r.fark["kod"] # 0 => r.fark["kod"] > gonderilen[r.aday]
    PROVE  DogrulamaIInv'
<1>1. /\ Sirali' = Sirali /\ istek'[i] = r /\ istek[i] = Bos /\ isci' = isci
      /\ \A j \in Istekler \ {i} : istek'[j] = istek[j]
    BY BaslaSonuc DEF DogrulamaIInv, AdayIInv
<1>2. AdayIInv'
    <2>1. istek'[i] = r => AdayHazir(i)'
        BY DEF AdayHazir
    <2> QED
        BY <2>1, AdayBaslar DEF DogrulamaIInv
<1>3. ASSUME NEW j \in Istekler \ {i} PROVE KodHazir(j)'
    <2>1. \A a \in Adaylar : KodYazar(j, a) => otp'[a].kod # istek[j].fark["kod"]
        BY DEF DogrulamaIInv, KodHazir, YeniKodHazir, KodYazar
    <2> QED
        BY <1>1, <2>1, KodHazirKalir DEF DogrulamaIInv
<1>4. \A j \in Istekler : KodHazir(j)'
    BY <1>1, <1>3
<1>5. KodlarFarkli'
    <2>1. ASSUME NEW j \in Istekler \ {i}, NEW a \in Adaylar, KodYazar(j, a)', KodYazar(i, a)'
          PROVE  istek'[j].fark["kod"] # istek'[i].fark["kod"]
        <3>1. KodYazar(j, a) /\ istek'[j] = istek[j]
            BY <1>1, <2>1 DEF KodYazar
        <3>2. istek[j].fark["kod"] \in 0..gonderilen[a]
            BY <3>1 DEF DogrulamaIInv, KodHazir, YeniKodHazir, KodYazar
        <3>3. gonderilen[a] \in Nat
            BY KodTipleri DEF DogrulamaIInv
        <3>4. r.fark["kod"] \in Nat
            <4>1. YeniKodHazir(i)' /\ istek'[i].yanlis = 0 /\ istek'[i].is = "otp" /\ istek'[i].aday = a
                BY <1>4, <2>1 DEF KodHazir, KodYazar
            <4>2. r.fark["kod"] \in 0..gonderilen'[a]
                BY <1>1, <4>1 DEF YeniKodHazir
            <4> QED
                BY <4>2
        <3>5. r.fark["kod"] > gonderilen[a]
            BY <1>1, <2>1 DEF KodYazar
        <3> QED
            BY <1>1, <3>1, <3>2, <3>3, <3>4, <3>5
    <2> QED
        BY <1>1, <2>1 DEF KodlarFarkli, DogrulamaIInv, KodYazar
<1>6. \A a \in Adaylar : otp'[a].kod <= gonderilen'[a]
    <2>1. ASSUME NEW a \in Adaylar PROVE otp[a].kod <= gonderilen'[a]
        <3>1. otp[a].kod \in Nat /\ gonderilen[a] \in Nat /\ gonderilen'[a] \in Nat
            BY KodTipleri, KodSatirlari, DogrulamaAssumption DEF DogrulamaIInv, DogrulamaTypeOK
        <3> QED
            BY <3>1 DEF DogrulamaIInv, GonderilenArtar
    <2> QED
        BY <2>1
<1>7. ASSUME NEW j \in Istekler, NEW a \in Adaylar PROVE Kalan(j, a)' <= Kalan(j, a)
    <2>1. CASE j # i
        <3>1. Kalan(j, a)' = Kalan(j, a)
            BY <1>1, <2>1 DEF Kalan, YanlisYazar
        <3> QED
            BY <3>1, KalanTipi DEF DogrulamaIInv
    <2>2. CASE j = i
        <3>1. otp[a].deneme \in 0..3
            BY KodTipleri, KodSatirlari DEF DogrulamaIInv
        <3>2. Kalan(i, a) = 3 - otp[a].deneme
            BY <1>1 DEF Kalan, YanlisYazar, Bos
        <3>3. YanlisYazar(i, a)' => istek'[i].fark["deneme"] = otp[a].deneme + 1
            BY <1>1 DEF YanlisYazar
        <3>4. Kalan(i, a)' = 3 - otp[a].deneme
            BY <3>1, <3>3 DEF Kalan
        <3> QED
            BY <2>2, <3>1, <3>2, <3>4
    <2> QED
        BY <2>1, <2>2
<1>8. DenemeIInv'
    BY <1>1, <1>4, <1>7, DenemeKalir
<1> QED
    BY <1>2, <1>4, <1>5, <1>6, <1>8 DEF DogrulamaIInv

\* A step that is no handler's.
LEMMA DogrulamaDurur ==
    ASSUME DogrulamaIInv, UNCHANGED <<oturum, gonderilen>>, AdayIInv', DogrulamaTypeOK',
           \A a \in Adaylar : /\ otp'[a].kod = otp[a].kod
                              /\ otp'[a].deneme = otp[a].deneme
                              /\ otp'[a].yanlis = otp[a].yanlis
    PROVE  DogrulamaIInv'
<1>1. istek' = istek /\ isci' = isci /\ Sirali' = Sirali
    BY DEF oturum, Sirali
<1>2. GonderilenArtar
    BY KodTipleri DEF GonderilenArtar, DogrulamaIInv
<1>3. ASSUME NEW j \in Istekler PROVE KodHazir(j)'
    <2>1. \A a \in Adaylar : KodYazar(j, a) => otp'[a].kod # istek[j].fark["kod"]
        BY DEF DogrulamaIInv, KodHazir, YeniKodHazir, KodYazar
    <2>2. istek[j].is = "otp" => otp'[istek[j].aday].deneme = otp[istek[j].aday].deneme
        BY DEF DogrulamaIInv, KodHazir
    <2> QED
        BY <1>1, <1>2, <2>1, <2>2, KodHazirKalir DEF DogrulamaIInv
<1>4. KodlarFarkli'
    BY <1>1 DEF DogrulamaIInv, KodlarFarkli, KodYazar
<1>5. \A j \in Istekler, a \in Adaylar : Kalan(j, a)' <= Kalan(j, a)
    <2>1. ASSUME NEW j \in Istekler, NEW a \in Adaylar PROVE Kalan(j, a)' <= Kalan(j, a)
        <3>1. Kalan(j, a)' = Kalan(j, a)
            BY <1>1 DEF Kalan, YanlisYazar
        <3> QED
            BY <3>1, KalanTipi DEF DogrulamaIInv
    <2> QED
        BY <2>1
<1>6. DenemeIInv'
    BY <1>1, <1>3, <1>5, DenemeKalir
<1> QED
    BY <1>3, <1>4, <1>6 DEF DogrulamaIInv

-----------------------------------------------------------------------------
(* The one-time code: the steps.                                           *)

LEMMA KodOkuAdimi ==
    ASSUME DogrulamaIInv, NEW i \in Istekler, NEW a \in Adaylar, KodOku(i, a)
    PROVE  DogrulamaIInv'
<1> DEFINE s == otp[a]
           y == [s EXCEPT !.kod = gonderilen[a] + 1, !.gecerli = TRUE, !.deneme = 0]
           f == Fark(s, y)
           g == [k \in DOMAIN f \cup {"gecerli"} |-> y[k]]
           r == [is |-> "otp", aday |-> a, yanlis |-> 0, fark |-> g]
<1>1. /\ gonderilen[a] < MaxKod /\ gonderilen' = [gonderilen EXCEPT ![a] = @ + 1]
      /\ Basla(i, r) /\ UNCHANGED <<aday, otp>>
    BY DEF KodOku
<1>2. s \in KodSatiri /\ gonderilen[a] \in 0..MaxKod /\ MaxKod \in Nat /\ s.kod \in Nat
      /\ s.kod <= gonderilen[a]
    BY KodTipleri, KodSatirlari DEF DogrulamaIInv
<1>3. gonderilen'[a] = gonderilen[a] + 1 /\ gonderilen[a] + 1 \in 1..MaxKod
    BY <1>1, <1>2 DEF DogrulamaIInv, DogrulamaTypeOK
<1>4. DogrulamaTypeOK' /\ GonderilenArtar
    <2>1. gonderilen' \in [Adaylar -> 0..MaxKod]
        BY <1>1, <1>3 DEF DogrulamaIInv, DogrulamaTypeOK
    <2>2. \A b \in Adaylar \ {a} : gonderilen'[b] = gonderilen[b]
        BY <1>1 DEF DogrulamaIInv, DogrulamaTypeOK
    <2>3. GonderilenArtar
        BY <1>2, <1>3, <2>2, KodTipleri DEF GonderilenArtar, DogrulamaIInv
    <2> QED
        BY <1>1, <2>1, <2>3 DEF DogrulamaIInv, DogrulamaTypeOK, AdayTypeOK
<1>5. /\ y["kod"] = gonderilen[a] + 1 /\ y["gecerli"] = TRUE /\ y["deneme"] = 0
      /\ y["dogrulandi"] = s["dogrulandi"] /\ y["yanlis"] = s["yanlis"]
      /\ DOMAIN y = {"kod", "gecerli", "deneme", "dogrulandi", "yanlis"}
    BY <1>2 DEF KodSatiri
<1> HIDE DEF y
<1>6. /\ DOMAIN f \subseteq {"kod", "gecerli", "deneme"}
      /\ "kod" \in DOMAIN f
    BY <1>2, <1>3, <1>5 DEF Fark
<1> HIDE DEF f
<1>7. /\ DOMAIN g \subseteq {"kod", "gecerli", "deneme"}
      /\ "kod" \in DOMAIN g /\ g["kod"] = gonderilen[a] + 1
      /\ "gecerli" \in DOMAIN g => g["gecerli"] = TRUE
      /\ "deneme" \in DOMAIN g => g["deneme"] = 0
    BY <1>5, <1>6
<1> HIDE DEF g
<1>8. /\ r.is = "otp" /\ r.aday = a /\ r.yanlis = 0 /\ r.fark = g
    OBVIOUS
<1> HIDE DEF r
<1>9. ASSUME istek'[i] = r PROVE KodHazir(i)'
    <2>1. gonderilen[a] + 1 \in 0..gonderilen'[a] /\ gonderilen[a] + 1 # 0
          /\ gonderilen[a] + 1 # otp'[a].kod
        BY <1>1, <1>2, <1>3
    <2> QED
        BY <1>7, <1>8, <1>9, <2>1 DEF KodHazir, YanlisHazir, YeniKodHazir
<1>10. r.fark["kod"] > gonderilen[r.aday]
    BY <1>2, <1>7, <1>8
<1> QED
    BY <1>1, <1>4, <1>8, <1>9, <1>10, DogrulamaBaslar

LEMMA KodGonderAdimi ==
    ASSUME DogrulamaIInv, NEW i \in Istekler, NEW a \in Adaylar,
           KodGonderOku(i, a) \/ KodTekrarOku(i, a)
    PROVE  DogrulamaIInv'
BY KodOkuAdimi DEF KodGonderOku, KodTekrarOku

LEMMA DogrulaAdimi ==
    ASSUME DogrulamaIInv, NEW i \in Istekler, NEW a \in Adaylar, NEW dogru \in BOOLEAN,
           DogrulaOku(i, a, dogru)
    PROVE  DogrulamaIInv'
<1> DEFINE s == otp[a]
           y == IF dogru THEN [s EXCEPT !.dogrulandi = TRUE, !.kod = 0]
                ELSE [s EXCEPT !.deneme = SonrakiDeneme(a)]
           f == Fark(s, y)
           r == [is |-> "otp", aday |-> a, yanlis |-> IF dogru THEN 0 ELSE s.kod, fark |-> f]
<1>1. s.kod # 0 /\ s.deneme < 3 /\ Basla(i, r) /\ UNCHANGED dogrulamaVars
    BY DEF DogrulaOku, DenemeHakki
<1>2. s \in KodSatiri /\ gonderilen[a] \in Nat /\ s.deneme \in Nat
    BY KodTipleri, KodSatirlari DEF DogrulamaIInv
<1>3. DogrulamaTypeOK' /\ GonderilenArtar
    BY <1>1, KodTipleri DEF dogrulamaVars, DogrulamaIInv, DogrulamaTypeOK, AdayTypeOK, GonderilenArtar
<1>4. CASE dogru
    <2>1. /\ y["kod"] = 0 /\ y["dogrulandi"] = TRUE /\ y["gecerli"] = s["gecerli"]
          /\ y["deneme"] = s["deneme"] /\ y["yanlis"] = s["yanlis"]
          /\ DOMAIN y = {"kod", "gecerli", "deneme", "dogrulandi", "yanlis"}
        BY <1>2, <1>4 DEF KodSatiri
    <2> HIDE DEF y
    <2>2. /\ DOMAIN f \subseteq {"kod", "dogrulandi"} /\ "kod" \in DOMAIN f /\ f["kod"] = 0
          /\ "dogrulandi" \in DOMAIN f => f["dogrulandi"] = TRUE
        BY <1>1, <2>1 DEF Fark
    <2> HIDE DEF f
    <2>3. r.is = "otp" /\ r.aday = a /\ r.yanlis = 0 /\ r.fark = f
        BY <1>4
    <2> HIDE DEF r
    <2>4. ASSUME istek'[i] = r PROVE KodHazir(i)'
        <3>1. 0 \in 0..gonderilen'[a]
            BY <1>1, <1>2 DEF dogrulamaVars
        <3> QED
            BY <2>2, <2>3, <2>4, <3>1 DEF KodHazir, YanlisHazir, YeniKodHazir
    <2> QED
        BY <1>1, <1>3, <2>2, <2>3, <2>4, DogrulamaBaslar DEF dogrulamaVars
<1>5. CASE ~dogru
    <2>1. /\ y["kod"] = s["kod"] /\ y["dogrulandi"] = s["dogrulandi"] /\ y["gecerli"] = s["gecerli"]
          /\ y["deneme"] = s["deneme"] + 1 /\ y["yanlis"] = s["yanlis"]
          /\ DOMAIN y = {"kod", "gecerli", "deneme", "dogrulandi", "yanlis"}
        BY <1>2, <1>5 DEF KodSatiri, SonrakiDeneme
    <2> HIDE DEF y
    <2>2. DOMAIN f = {"deneme"} /\ f["deneme"] = s["deneme"] + 1
        BY <1>1, <1>2, <2>1 DEF Fark
    <2> HIDE DEF f
    <2>3. r.is = "otp" /\ r.aday = a /\ r.yanlis # 0 /\ r.fark = f
        BY <1>1, <1>5
    <2> HIDE DEF r
    <2>4. istek'[i] = r => KodHazir(i)'
        BY <1>1, <1>2, <2>2, <2>3 DEF KodHazir, YanlisHazir, YeniKodHazir, dogrulamaVars, DenemeHakki
    <2> QED
        BY <1>1, <1>3, <2>2, <2>3, <2>4, DogrulamaBaslar DEF dogrulamaVars
<1> QED
    BY <1>4, <1>5

\* A handler ends, whatever becomes of the row.
LEMMA DogrulamaBiter ==
    ASSUME DogrulamaIInv, NEW i \in Istekler, istek[i].is = "otp", Bitti(i), AdayIInv',
           DogrulamaTypeOK', UNCHANGED gonderilen,
           \A j \in Istekler \ {i}, a \in Adaylar :
               KodYazar(j, a) => otp'[a].kod # istek[j].fark["kod"]
    PROVE  /\ \A j \in Istekler : KodHazir(j)'
           /\ KodlarFarkli'
<1>1. istek[i] # Bos
    BY DEF Bos
<1>2. /\ Sirali' = Sirali /\ istek'[i] = Bos
      /\ \A j \in Istekler \ {i} : istek'[j] = istek[j] /\ (Sirali => istek[j] = Bos)
    BY <1>1, BittiSonuc DEF DogrulamaIInv, AdayIInv
<1>3. GonderilenArtar
    BY KodTipleri DEF GonderilenArtar, DogrulamaIInv
<1>4. KodHazir(i)'
    BY <1>2 DEF KodHazir, YanlisHazir, YeniKodHazir, Bos
<1>5. ASSUME NEW j \in Istekler \ {i} PROVE KodHazir(j)'
    <2>1. Sirali => istek[j].is # "otp"
        BY <1>2 DEF Bos
    <2> QED
        BY <1>2, <1>3, <2>1, KodHazirKalir DEF DogrulamaIInv
<1>6. KodlarFarkli'
    BY <1>2 DEF DogrulamaIInv, KodlarFarkli, KodYazar, Bos
<1> QED
    BY <1>4, <1>5, <1>6

LEMMA DogrulamaBirakAdimi ==
    ASSUME DogrulamaIInv, NEW i \in Istekler, DogrulamaBirak(i)
    PROVE  DogrulamaIInv'
<1>1. istek[i].is = "otp" /\ Bitti(i) /\ UNCHANGED dogrulamaVars
    BY DEF DogrulamaBirak
<1>2. DogrulamaTypeOK' /\ AdayTypeOK' /\ AdayIlerler
    BY <1>1 DEF dogrulamaVars, DogrulamaIInv, DogrulamaTypeOK, AdayTypeOK, AdayIlerler
<1>3. AdayIInv'
    BY <1>1, <1>2, AdayBiter DEF DogrulamaIInv
<1>4. (\A j \in Istekler : KodHazir(j)') /\ KodlarFarkli'
    <2>1. \A j \in Istekler, a \in Adaylar : KodYazar(j, a) => otp'[a].kod # istek[j].fark["kod"]
        BY <1>1 DEF DogrulamaIInv, KodHazir, YeniKodHazir, KodYazar, dogrulamaVars
    <2> QED
        BY <1>1, <1>2, <1>3, <2>1, DogrulamaBiter DEF dogrulamaVars
<1>5. istek'[i] = Bos /\ isci' = isci /\ \A j \in Istekler \ {i} : istek'[j] = istek[j]
    BY <1>1, BittiSonuc DEF DogrulamaIInv, AdayIInv, Bos
<1>6. ASSUME NEW j \in Istekler, NEW a \in Adaylar PROVE Kalan(j, a)' <= Kalan(j, a)
    <2>1. otp'[a] = otp[a] /\ otp[a].deneme \in 0..3
        BY <1>1, KodTipleri, KodSatirlari DEF dogrulamaVars, DogrulamaIInv
    <2>2. CASE j = i
        <3>1. Kalan(i, a)' = 3 - otp[a].deneme
            BY <1>5, <2>1 DEF Kalan, YanlisYazar, Bos
        <3>2. YanlisYazar(i, a) => istek[i].fark["deneme"] \in 1..3
            BY DEF DogrulamaIInv, KodHazir, YanlisHazir, YanlisYazar, DenemeHakki
        <3> QED
            BY <2>1, <2>2, <3>1, <3>2 DEF Kalan
    <2>3. CASE j # i
        <3>1. Kalan(j, a)' = Kalan(j, a)
            BY <1>5, <2>1, <2>3 DEF Kalan, YanlisYazar
        <3> QED
            BY <3>1, KalanTipi DEF DogrulamaIInv
    <2> QED
        BY <2>2, <2>3
<1>7. DenemeIInv'
    <2>1. \A a \in Adaylar : otp'[a].yanlis = otp[a].yanlis /\ otp'[a].deneme = otp[a].deneme
        BY <1>1 DEF dogrulamaVars
    <2> QED
        BY <1>2, <1>4, <1>5, <1>6, <2>1, DenemeKalir
<1> QED
    BY <1>1, <1>3, <1>2, <1>4, <1>7 DEF DogrulamaIInv, dogrulamaVars

\* What a commit makes of the row: a wrong try is counted once, another code is a new start.
KodSonucu(i, a) ==
    /\ otp'[a] \in KodSatiri
    /\ \A b \in Adaylar \ {a} : otp'[b] = otp[b]
    /\ istek[i].yanlis # 0 =>
         /\ otp'[a].kod = otp[a].kod
         /\ otp'[a].deneme = istek[i].fark["deneme"]
         /\ otp'[a].yanlis \in {otp[a].yanlis, otp[a].yanlis + 1}
    /\ istek[i].yanlis = 0 =>
         /\ otp'[a].kod = istek[i].fark["kod"]
         /\ \/ otp'[a].yanlis = 0
            \/ /\ otp'[a].kod = 0
               /\ otp'[a].yanlis = otp[a].yanlis /\ otp'[a].deneme = otp[a].deneme

LEMMA KodYazSonucu ==
    ASSUME DogrulamaIInv, NEW i \in Istekler, KodYaz(i)
    PROVE  KodSonucu(i, istek[i].aday)
<1> DEFINE a == istek[i].aday
           f == istek[i].fark
           s == otp[a]
           t == Uygula(s, f)
           y == IF t.kod # s.kod THEN 0
                ELSE IF istek[i].yanlis = t.kod /\ istek[i].yanlis # 0 THEN t.yanlis + 1
                ELSE t.yanlis
<1>1. istek[i].is = "otp" /\ otp' = [otp EXCEPT ![a] = [t EXCEPT !.yanlis = y]]
    BY DEF KodYaz
<1>2. KodHazir(i) /\ KodFarki(f) /\ a \in Adaylar
    BY <1>1, HazirFark DEF DogrulamaIInv, KodHazir
<1>3. s \in KodSatiri /\ s.yanlis \in Nat /\ s.kod \in Nat
    BY <1>2, KodTipleri, KodSatirlari DEF DogrulamaIInv
<1>4. t.yanlis = s.yanlis
    BY <1>2, <1>3, KodUygula
<1>5. y \in Nat
    BY <1>3, <1>4
<1>6. otp'[a] = [t EXCEPT !.yanlis = y] /\ \A b \in Adaylar \ {a} : otp'[b] = otp[b]
    BY <1>1, <1>2 DEF DogrulamaIInv, DogrulamaTypeOK
<1> HIDE DEF y
<1>7. /\ otp'[a] \in KodSatiri
      /\ otp'[a].kod = (IF "kod" \in DOMAIN f THEN f["kod"] ELSE s.kod)
      /\ otp'[a].deneme = (IF "deneme" \in DOMAIN f THEN f["deneme"] ELSE s.deneme)
      /\ otp'[a].yanlis = y /\ t.kod = otp'[a].kod
    <2> HIDE DEF a, f
    <2> QED
        BY <1>2, <1>3, <1>5, <1>6, KodUygula
<1> HIDE DEF t
<1>8. ASSUME istek[i].yanlis # 0
      PROVE  /\ otp'[a].kod = s.kod
             /\ otp'[a].deneme = f["deneme"]
             /\ otp'[a].yanlis \in {s.yanlis, s.yanlis + 1}
    <2>1. DOMAIN f = {"deneme"}
        BY <1>1, <1>2, <1>8 DEF KodHazir, YanlisHazir
    <2> QED
        BY <2>1, <1>4, <1>7 DEF y
<1>9. ASSUME istek[i].yanlis = 0
      PROVE  /\ otp'[a].kod = f["kod"]
             /\ \/ otp'[a].yanlis = 0
                \/ /\ otp'[a].kod = 0
                   /\ otp'[a].yanlis = s.yanlis /\ otp'[a].deneme = s.deneme
    <2>1. /\ "kod" \in DOMAIN f /\ ("deneme" \in DOMAIN f => f["kod"] # 0)
          /\ f["kod"] # 0 => f["kod"] # s.kod
        BY <1>1, <1>2, <1>9 DEF KodHazir, YeniKodHazir
    <2> QED
        BY <2>1, <1>4, <1>7, <1>9 DEF y
<1> QED
    BY <1>6, <1>7, <1>8, <1>9 DEF KodSonucu

LEMMA KodYazAdimi ==
    ASSUME DogrulamaIInv, NEW i \in Istekler, KodYaz(i)
    PROVE  DogrulamaIInv'
<1> DEFINE a == istek[i].aday
           e == istek[i].fark["deneme"]
<1>1. istek[i].is = "otp" /\ Bitti(i) /\ UNCHANGED <<aday, gonderilen>> /\ a \in Adaylar
    BY DEF KodYaz, DogrulamaIInv, KodHazir
<1>2. KodSonucu(i, a) /\ KodHazir(i)
    BY KodYazSonucu DEF DogrulamaIInv
<1>3. /\ istek'[i] = Bos /\ isci' = isci /\ i \in isci /\ Sirali' = Sirali
      /\ \A j \in Istekler \ {i} : istek'[j] = istek[j]
    BY <1>1, BittiSonuc DEF DogrulamaIInv, AdayIInv, Bos
<1>4. /\ otp[a] \in KodSatiri /\ otp[a].deneme \in 0..3 /\ otp[a].yanlis \in Nat
      /\ otp'[a].deneme \in 0..3 /\ otp'[a].yanlis \in Nat
    BY <1>1, <1>2, KodTipleri, KodSatirlari DEF DogrulamaIInv, KodSonucu
<1>5. DogrulamaTypeOK' /\ AdayTypeOK' /\ AdayIlerler
    <2>1. otp' \in [Adaylar -> KodSatiri]
        BY <1>1, <1>2 DEF KodYaz, KodSonucu, DogrulamaIInv, DogrulamaTypeOK
    <2> QED
        BY <1>1, <2>1 DEF DogrulamaIInv, DogrulamaTypeOK, AdayTypeOK, AdayIlerler
<1>6. AdayIInv'
    BY <1>1, <1>5, AdayBiter DEF DogrulamaIInv
<1>7. ASSUME NEW j \in Istekler \ {i}, NEW b \in Adaylar, KodYazar(j, b)
      PROVE  otp'[b].kod # istek[j].fark["kod"]
    <2>1. otp[b].kod # istek[j].fark["kod"] /\ istek[j].fark["kod"] # 0
        BY <1>7 DEF DogrulamaIInv, KodHazir, YeniKodHazir, KodYazar
    <2>2. CASE b # a
        BY <1>2, <2>1, <2>2 DEF KodSonucu
    <2>3. CASE b = a /\ istek[i].yanlis # 0
        BY <1>2, <2>1, <2>3 DEF KodSonucu
    <2>4. CASE b = a /\ istek[i].yanlis = 0
        <3>1. otp'[a].kod = istek[i].fark["kod"]
            BY <1>2, <2>4 DEF KodSonucu
        <3>2. istek[i].fark["kod"] # 0 => istek[i].fark["kod"] # istek[j].fark["kod"]
            BY <1>1, <1>7, <2>4 DEF DogrulamaIInv, KodlarFarkli, KodYazar
        <3> QED
            BY <2>1, <2>4, <3>1, <3>2
    <2> QED
        BY <2>2, <2>3, <2>4
<1>8. (\A j \in Istekler : KodHazir(j)') /\ KodlarFarkli'
    BY <1>1, <1>5, <1>6, <1>7, DogrulamaBiter
<1>9. \A b \in Adaylar : otp'[b].kod <= gonderilen'[b]
    <2>1. istek[i].yanlis = 0 => istek[i].fark["kod"] \in 0..gonderilen[a] /\ gonderilen[a] \in Nat
        BY <1>1, <1>2, KodTipleri DEF KodHazir, YeniKodHazir, DogrulamaIInv
    <2>2. otp'[a].kod <= gonderilen[a]
        BY <1>1, <1>2, <2>1 DEF KodSonucu, DogrulamaIInv
    <2> QED
        BY <1>1, <1>2, <2>2 DEF KodSonucu, DogrulamaIInv
<1>10. ASSUME Sirali, NEW b \in Adaylar PROVE otp'[b].yanlis <= otp'[b].deneme
    <2>1. otp[b].yanlis <= otp[b].deneme
        BY <1>10 DEF DogrulamaIInv, DenemeIInv
    <2>2. CASE b # a
        BY <1>2, <2>1, <2>2 DEF KodSonucu
    <2>3. CASE b = a /\ istek[i].yanlis # 0
        <3>1. e = otp[a].deneme + 1
            BY <1>1, <1>2, <1>10, <2>3 DEF KodHazir, YanlisHazir
        <3> QED
            BY <1>2, <1>4, <2>1, <2>3, <3>1 DEF KodSonucu
    <2>4. CASE b = a /\ istek[i].yanlis = 0
        BY <1>2, <1>4, <2>1, <2>4 DEF KodSonucu
    <2> QED
        BY <2>2, <2>3, <2>4
<1>11. \A j \in Istekler, b \in Adaylar :
          /\ Kalan(j, b) \in 0..3
          /\ Kalan(j, b)' \in 0..3
    <2>1. \A b \in Adaylar : otp'[b].deneme \in 0..3
        BY <1>5 DEF DogrulamaTypeOK, KodSatiri, DenemeHakki
    <2> QED
        BY <1>8, <2>1, KalanTipi
            DEF DogrulamaIInv, Kalan, KodHazir, YanlisHazir, YanlisYazar, DenemeHakki
<1>12. ASSUME NEW j \in Istekler \ {i}, isci = {i, j}, NEW b \in Adaylar
       PROVE  otp'[b].yanlis + Butce(Kalan(i, b)', Kalan(j, b)') <= 9
    <2> DEFINE m == Kalan(i, b)
               n == Kalan(j, b)
               p == Kalan(i, b)'
               q == Kalan(j, b)'
    <2>1. otp[b].yanlis + Butce(m, n) <= 9
        BY <1>12 DEF DogrulamaIInv, DenemeIInv
    <2>2. /\ m \in 0..3 /\ n \in 0..3 /\ p \in 0..3 /\ q \in 0..3
          /\ Butce(m, n) \in 0..9 /\ Butce(p, q) \in 0..9
        BY <1>11, ButceTipi
    <2>3. CASE b # a
        <3>1. otp'[b] = otp[b] /\ ~YanlisYazar(i, b) /\ ~YanlisYazar(i, b)'
            BY <1>2, <1>3, <2>3 DEF KodSonucu, YanlisYazar, Bos
        <3>2. p = m /\ q = n
            BY <1>3, <3>1 DEF Kalan, YanlisYazar
        <3> QED
            BY <2>1, <3>1, <3>2
    <2>4. CASE b = a /\ istek[i].yanlis # 0
        <3>1. YanlisYazar(i, a) /\ e \in 1..3
            BY <1>1, <1>2, <2>4 DEF YanlisYazar, KodHazir, YanlisHazir, DenemeHakki
        <3>2. otp'[a].deneme = e /\ otp'[a].yanlis \in {otp[a].yanlis, otp[a].yanlis + 1}
            BY <1>2, <2>4 DEF KodSonucu
        <3>3. p = 3 - e
            BY <1>3, <2>4, <3>2 DEF Kalan, YanlisYazar, Bos
        <3>4. p < m
            BY <1>4, <2>4, <3>1, <3>3 DEF Kalan
        <3>5. q < m \/ q <= n
            <4>1. (YanlisYazar(j, b)' <=> YanlisYazar(j, b)) /\ istek'[j] = istek[j]
                BY <1>3 DEF YanlisYazar
            <4>2. CASE YanlisYazar(j, b) /\ istek[j].fark["deneme"] <= e
                <5>1. istek[j].fark["deneme"] \in 1..3
                    BY <4>2 DEF DogrulamaIInv, KodHazir, YanlisHazir, YanlisYazar, DenemeHakki
                <5>2. q = 4 - istek[j].fark["deneme"]
                    BY <2>4, <3>2, <4>1, <4>2 DEF Kalan
                <5> QED
                    BY <1>4, <2>4, <4>2, <5>1, <5>2 DEF Kalan
            <4>3. CASE ~(YanlisYazar(j, b) /\ istek[j].fark["deneme"] <= e)
                <5>1. q = 3 - e
                    BY <2>4, <3>2, <4>1, <4>3 DEF Kalan
                <5> QED
                    BY <3>3, <3>4, <5>1
            <4> QED
                BY <4>2, <4>3
        <3>6. Butce(p, q) + 1 <= Butce(m, n)
            <4> HIDE DEF m, n, p, q
            <4> QED
                BY <2>2, <3>4, <3>5, ButceAzalir
        <3> HIDE DEF m, n, p, q
        <3>7. otp'[a].yanlis + Butce(p, q) <= 9
            BY <1>4, <2>1, <2>2, <2>4, <3>2, <3>6
        <3> QED
            BY <2>4, <3>7 DEF p, q
    <2>5. CASE b = a /\ istek[i].yanlis = 0
        <3>1. CASE otp'[a].yanlis = 0
            BY <2>2, <2>5, <3>1
        <3>2. CASE otp'[a].yanlis = otp[a].yanlis /\ otp'[a].deneme = otp[a].deneme
            <4>1. ~YanlisYazar(i, b) /\ ~YanlisYazar(i, b)'
                BY <1>3, <2>5 DEF YanlisYazar, Bos
            <4>2. p = m /\ q = n
                BY <1>3, <2>5, <3>2, <4>1 DEF Kalan, YanlisYazar
            <4> QED
                BY <2>1, <2>5, <3>2, <4>2
        <3> QED
            BY <1>2, <2>5, <3>1, <3>2 DEF KodSonucu
    <2> QED
        BY <2>3, <2>4, <2>5
<1>13. DenemeIInv'
    <2>1. ASSUME NEW j \in Istekler, NEW k \in Istekler, j # k, isci = {j, k}, NEW b \in Adaylar
          PROVE  otp'[b].yanlis + Butce(Kalan(j, b)', Kalan(k, b)') <= 9
        <3>1. CASE j = i
            BY <1>12, <2>1, <3>1
        <3>2. CASE k = i
            <4>1. otp'[b].yanlis + Butce(Kalan(i, b)', Kalan(j, b)') <= 9
                <5>1. isci = {i, j}
                    BY <2>1, <3>2
                <5> QED
                    BY <1>12, <2>1, <3>2, <5>1
            <4>2. Butce(Kalan(i, b)', Kalan(j, b)') = Butce(Kalan(j, b)', Kalan(i, b)')
                BY <1>11, ButceTipi
            <4> QED
                BY <3>2, <4>1, <4>2
        <3> QED
            BY <1>3, <2>1, <3>1, <3>2
    <2> QED
        BY <1>3, <1>10, <2>1 DEF DenemeIInv
<1> QED
    BY <1>5, <1>6, <1>8, <1>9, <1>13 DEF DogrulamaIInv

LEMMA DogrulamaAdayAdimi ==
    ASSUME DogrulamaIInv, NEW a \in Adaylar, AdayDavet(a) \/ KariyerKvkk(a) \/ LinkSuresi(a),
           UNCHANGED <<otp, gonderilen>>
    PROVE  DogrulamaIInv'
<1>1. AdayIInv'
    BY AdayGirer, LinkSuresiAdimi DEF DogrulamaIInv, AdayAdimi
<1>2. UNCHANGED oturum
    BY DEF AdayDavet, KariyerKvkk, AdayEkle, LinkSuresi
<1>3. DogrulamaTypeOK'
    BY <1>1 DEF AdayIInv, DogrulamaIInv, DogrulamaTypeOK
<1> QED
    BY <1>1, <1>2, <1>3, DogrulamaDurur

LEMMA KodSuresiAdimi ==
    ASSUME DogrulamaIInv, NEW a \in Adaylar, KodSuresi(a)
    PROVE  DogrulamaIInv'
<1>1. otp' = [otp EXCEPT ![a] = [otp[a] EXCEPT !.gecerli = FALSE]] /\ UNCHANGED <<aday, gonderilen, oturum>>
    BY DEF KodSuresi
<1>2. otp[a] \in KodSatiri
    BY KodTipleri DEF DogrulamaIInv
<1>3. [otp[a] EXCEPT !.gecerli = FALSE] \in KodSatiri
    BY <1>2 DEF KodSatiri
<1>4. DogrulamaTypeOK'
    BY <1>1, <1>3 DEF DogrulamaIInv, DogrulamaTypeOK, AdayTypeOK
<1>5. AdayIInv'
    BY <1>1, AdayDurur DEF DogrulamaIInv, AdayIInv, AdayTypeOK
<1>6. \A b \in Adaylar : /\ otp'[b].kod = otp[b].kod /\ otp'[b].deneme = otp[b].deneme
                         /\ otp'[b].yanlis = otp[b].yanlis
    <2>1. \A b \in Adaylar \ {a} : otp'[b] = otp[b]
        BY <1>1 DEF DogrulamaIInv, DogrulamaTypeOK
    <2>2. otp'[a] = [otp[a] EXCEPT !.gecerli = FALSE]
        BY <1>1 DEF DogrulamaIInv, DogrulamaTypeOK
    <2>3. /\ otp'[a].kod = otp[a].kod /\ otp'[a].deneme = otp[a].deneme
          /\ otp'[a].yanlis = otp[a].yanlis
        BY <1>2, <2>2 DEF KodSatiri
    <2> QED
        BY <2>1, <2>3
<1> QED
    BY <1>1, <1>4, <1>5, <1>6, DogrulamaDurur

LEMMA DogrulamaBaslangic == OturumInit /\ DogrulamaInit => DogrulamaIInv
<1> SUFFICES ASSUME OturumInit, DogrulamaInit PROVE DogrulamaIInv
    OBVIOUS
<1>1. AdayIInv
    BY AdayBaslangic DEF DogrulamaInit
<1>2. \A i \in Istekler : istek[i] = Bos
    BY DEF OturumInit
<1>3. DogrulamaTypeOK
    <2>1. [kod |-> 0, gecerli |-> FALSE, deneme |-> 0, dogrulandi |-> FALSE, yanlis |-> 0] \in KodSatiri
        BY DogrulamaAssumption DEF KodSatiri, DenemeHakki
    <2> QED
        BY <1>1, <2>1, DogrulamaAssumption DEF AdayIInv, DogrulamaInit, DogrulamaTypeOK
<1>4. (\A i \in Istekler : KodHazir(i)) /\ KodlarFarkli
    BY <1>2 DEF Bos, KodHazir, YanlisHazir, YeniKodHazir, KodlarFarkli, KodYazar
<1>5. \A a \in Adaylar : otp[a].kod = 0 /\ otp[a].deneme = 0 /\ otp[a].yanlis = 0 /\ gonderilen[a] = 0
    BY DEF DogrulamaInit
<1>6. \A i \in Istekler, a \in Adaylar : Kalan(i, a) = 3
    BY <1>2, <1>5 DEF Kalan, YanlisYazar, Bos
<1>7. Butce(3, 3) = 9
    BY DEF Butce, Ucgen
<1>8. DenemeIInv
    BY <1>5, <1>6, <1>7 DEF DenemeIInv
<1> QED
    BY <1>1, <1>3, <1>4, <1>5, <1>8 DEF DogrulamaIInv

LEMMA DogrulamaAdimi == DogrulamaIInv /\ [DogrulamaNext]_<<oturum, dogrulamaVars>> => DogrulamaIInv'
<1> SUFFICES ASSUME DogrulamaIInv, [DogrulamaNext]_<<oturum, dogrulamaVars>> PROVE DogrulamaIInv'
    OBVIOUS
<1>1. CASE UNCHANGED <<oturum, dogrulamaVars>>
    <2>1. DogrulamaTypeOK' /\ AdayIInv'
        BY <1>1, AdayDurur DEF dogrulamaVars, DogrulamaIInv, DogrulamaTypeOK, AdayTypeOK, AdayIInv
    <2> QED
        BY <1>1, <2>1, DogrulamaDurur DEF dogrulamaVars
<1> QED
    BY <1>1, DogrulamaAdayAdimi, KodSuresiAdimi, KodGonderAdimi, DogrulaAdimi, KodYazAdimi,
       DogrulamaBirakAdimi DEF DogrulamaNext

\* Candidates and their codes have the columns and values the code gives them.
THEOREM DogrulamaTipleri == DogrulamaSpec => []DogrulamaTypeOK
<1>1. DogrulamaIInv => DogrulamaTypeOK
    BY DEF DogrulamaIInv
<1> QED
    BY <1>1, DogrulamaBaslangic, DogrulamaAdimi, PTL DEF DogrulamaSpec

LEMMA IkiElemanli ==
    ASSUME NEW S, IsFiniteSet(S), Cardinality(S) = 2
    PROVE  \E x, y \in S : x # y /\ S = {x, y}
<1>1. PICK x \in S : TRUE
    BY FS_EmptySet
<1>2. IsFiniteSet(S \ {x}) /\ Cardinality(S \ {x}) = 1
    BY <1>1, FS_RemoveElement
<1>3. PICK y \in S \ {x} : TRUE
    BY <1>2, FS_EmptySet
<1>4. Cardinality((S \ {x}) \ {y}) = 0 /\ IsFiniteSet((S \ {x}) \ {y})
    BY <1>2, <1>3, FS_RemoveElement
<1>5. (S \ {x}) \ {y} = {}
    BY <1>4, FS_EmptySet
<1> QED
    BY <1>1, <1>3, <1>5

LEMMA DenemeYeter == DogrulamaIInv => DenemeSiniri
<1> SUFFICES ASSUME DogrulamaIInv PROVE DenemeSiniri
    OBVIOUS
<1>1. ASSUME NEW a \in Adaylar, Sirali PROVE otp[a].yanlis <= DenemeHakki
    <2>1. otp[a].deneme \in 0..3 /\ otp[a].yanlis \in Nat /\ otp[a].yanlis <= otp[a].deneme
        BY <1>1, KodTipleri, KodSatirlari DEF DogrulamaIInv, DenemeIInv
    <2> QED
        BY <2>1 DEF DenemeHakki
<1>2. ASSUME NEW a \in Adaylar, Cardinality(isci) = 2 PROVE otp[a].yanlis <= 9
    <2>1. isci \subseteq Istekler
        BY DEF DogrulamaIInv, AdayIInv, OturumIInv
    <2>2. IsFiniteSet(isci)
        BY <2>1, DogrulamaAssumption, FS_Subset
    <2>3. PICK i, j \in isci : i # j /\ isci = {i, j}
        BY <1>2, <2>2, IkiElemanli
    <2>4. otp[a].yanlis + Butce(Kalan(i, a), Kalan(j, a)) <= 9
        BY <2>1, <2>3 DEF DogrulamaIInv, DenemeIInv
    <2>5. Butce(Kalan(i, a), Kalan(j, a)) \in 0..9 /\ otp[a].yanlis \in Nat
        BY <2>1, KalanTipi, ButceTipi, KodTipleri, KodSatirlari DEF DogrulamaIInv
    <2> QED
        BY <2>4, <2>5
<1> QED
    BY <1>1, <1>2 DEF DenemeSiniri

\* With one thread no code outlives three wrong tries, with two threads none outlives nine,
\* for any number of candidates and of codes.
THEOREM DenemeSinirli == DogrulamaSpec => []DenemeSiniri
BY DenemeYeter, DogrulamaBaslangic, DogrulamaAdimi, PTL DEF DogrulamaSpec

-----------------------------------------------------------------------------
(* Users: the inductive invariant.                                         *)

\* User u is an active administrator, logged in or not.
Yoneten(u) == u \in Kullanicilar /\ kullanici[u] # Yok /\ kullanici[u].aktif /\ kullanici[u].admin

KullaniciFarki(f) ==
    /\ DOMAIN f \subseteq {"eposta", "aktif", "admin"}
    /\ "eposta" \in DOMAIN f => f["eposta"] \in Epostalar
    /\ "aktif" \in DOMAIN f => f["aktif"] \in BOOLEAN
    /\ "admin" \in DOMAIN f => f["admin"] \in BOOLEAN

RolFarki(f) == DOMAIN f \subseteq {"ad"} /\ ("ad" \in DOMAIN f => f["ad"] \in RolAdlari)

\* The links that a handler deletes and inserts lead to members of S.
Baglar(b, S) == b.silinen \subseteq S /\ b.eklenen \subseteq S

\* A thread that will enter a user: with one thread, there still is an administrator.
HesapEkleHazir(i) ==
    istek[i].is = "kullanici_ekle" =>
        /\ istek[i].kullanici \in Kullanicilar
        /\ istek[i].satir \in KullaniciSatiri
        /\ istek[i].baglar \subseteq Hedefler
        /\ Sirali => YoneticiVar

\* A thread that will write to a user: with one thread, whoever edits still is an
\* administrator; with the switch, it is somebody else's account.
HesapYazHazir(i) ==
    istek[i].is = "kullanici" =>
        /\ istek[i].kullanici \in Kullanicilar
        /\ kullanici[istek[i].kullanici] # Yok
        /\ KullaniciFarki(istek[i].fark)
        /\ Baglar(istek[i].bag, Hedefler)
        /\ istek[i].yol \in {"form", "durum"}
        /\ istek[i].yol = "durum" => istek[i].eden # istek[i].kullanici
        /\ Sirali => Yoneten(istek[i].eden)

\* A thread that will write to a role.
RolHazir(i) ==
    istek[i].is = "rol" =>
        /\ istek[i].rol \in Roller
        /\ rol[istek[i].rol] # Yok
        /\ RolFarki(istek[i].fark)
        /\ Baglar(istek[i].bag, Yetkiler)

YetkiHazir(i) == HesapEkleHazir(i) /\ HesapYazHazir(i) /\ RolHazir(i)

YetkiIInv ==
    /\ OturumIInv
    /\ YetkiTypeOK
    /\ \A i \in Istekler : YetkiHazir(i)

\* With one thread, the last active administrator goes by the own form, and after that
\* one comes only by the script.
YoneticiAdimi ==
    Sirali =>
        /\ YoneticiVar /\ ~YoneticiVar' =>
             \E i \in isci : /\ istek[i].is = "kullanici"
                             /\ istek[i].yol = "form"
                             /\ istek[i].eden = istek[i].kullanici
        /\ ~YoneticiVar /\ YoneticiVar' => ~\E u \in Kayitli : kullanici[u].eposta = Kurucu

\* What every step does.
YetkiAdimi == YetkiIInv' /\ [YoneticiAdimi]_kullanici

-----------------------------------------------------------------------------
(* Users: rows, and what the steps have in common.                         *)

LEMMA KullaniciSatirlari ==
    ASSUME NEW s \in KullaniciSatiri
    PROVE  /\ s # Yok
           /\ DOMAIN s = {"eposta", "aktif", "admin"}
           /\ s.eposta \in Epostalar /\ s.aktif \in BOOLEAN /\ s.admin \in BOOLEAN
BY YetkiAssumption DEF KullaniciSatiri

LEMMA KullaniciUygula ==
    ASSUME NEW s \in KullaniciSatiri, NEW f, KullaniciFarki(f)
    PROVE  Uygula(s, f) \in KullaniciSatiri
<1> DEFINE u == Uygula(s, f)
<1>1. /\ DOMAIN u = {"eposta", "aktif", "admin"}
      /\ u["eposta"] = IF "eposta" \in DOMAIN f THEN f["eposta"] ELSE s.eposta
      /\ u["aktif"] = IF "aktif" \in DOMAIN f THEN f["aktif"] ELSE s.aktif
      /\ u["admin"] = IF "admin" \in DOMAIN f THEN f["admin"] ELSE s.admin
    BY KullaniciSatirlari DEF Uygula
<1>2. u = [eposta |-> u["eposta"], aktif |-> u["aktif"], admin |-> u["admin"]]
    BY <1>1 DEF Uygula
<1>3. u["eposta"] \in Epostalar /\ u["aktif"] \in BOOLEAN /\ u["admin"] \in BOOLEAN
    BY <1>1, KullaniciSatirlari DEF KullaniciFarki
<1> HIDE DEF u
<1>4. u \in KullaniciSatiri
    BY <1>2, <1>3 DEF KullaniciSatiri
<1> QED
    BY <1>4 DEF u

LEMMA KullaniciFarkOlur ==
    ASSUME NEW s \in KullaniciSatiri, NEW y \in KullaniciSatiri
    PROVE  KullaniciFarki(Fark(s, y))
BY KullaniciSatirlari DEF Fark, KullaniciFarki

\* A role with another name and other permissions.
LEMMA RolUygula ==
    ASSUME NEW s \in RolSatiri, NEW f, RolFarki(f), NEW g, Baglar(g, Yetkiler)
    PROVE  [Uygula(s, f) EXCEPT !.yetkiler = BagUygula(@, g)] \in RolSatiri
<1> DEFINE u == Uygula(s, f)
<1>1. /\ DOMAIN s = {"ad", "yetkiler"} /\ s["ad"] \in RolAdlari /\ s["yetkiler"] \in SUBSET Yetkiler
    BY DEF RolSatiri
<1>2. /\ DOMAIN u = {"ad", "yetkiler"}
      /\ u["ad"] = IF "ad" \in DOMAIN f THEN f["ad"] ELSE s["ad"]
      /\ u["yetkiler"] = s["yetkiler"]
    BY <1>1 DEF Uygula, RolFarki
<1>3. u = [ad |-> u["ad"], yetkiler |-> u["yetkiler"]]
    BY <1>2 DEF Uygula
<1>4. u["ad"] \in RolAdlari /\ BagUygula(u["yetkiler"], g) \in SUBSET Yetkiler
    BY <1>1, <1>2 DEF RolFarki, BagUygula, Baglar
<1> HIDE DEF u
<1>5. [u EXCEPT !.yetkiler = BagUygula(@, g)] \in RolSatiri
    BY <1>3, <1>4 DEF RolSatiri
<1> QED
    BY <1>5 DEF u

LEMMA KullaniciTipleri ==
    ASSUME YetkiTypeOK, NEW u \in Kullanicilar, kullanici[u] # Yok
    PROVE  kullanici[u] \in KullaniciSatiri
BY DEF YetkiTypeOK

\* Rows of users and roles are kept.
YetkiIlerler ==
    /\ \A u \in Kullanicilar : kullanici[u] # Yok => kullanici'[u] # Yok
    /\ \A r \in Roller : rol[r] # Yok => rol'[r] # Yok

LEMMA YetkiHazirKalir ==
    ASSUME YetkiIlerler, Sirali' = Sirali, NEW j \in Istekler, YetkiHazir(j), istek'[j] = istek[j],
           Sirali /\ istek[j] # Bos =>
               \A u \in Kullanicilar : kullanici[u] # Yok => kullanici'[u] = kullanici[u]
    PROVE  YetkiHazir(j)'
<1>1. ASSUME Sirali, istek[j] # Bos, YoneticiVar PROVE YoneticiVar'
    BY <1>1 DEF YoneticiVar, Kayitli
<1>2. HesapEkleHazir(j)'
    BY <1>1 DEF YetkiHazir, HesapEkleHazir, Bos
<1>3. HesapYazHazir(j)'
    BY DEF YetkiHazir, HesapYazHazir, Bos, YetkiIlerler, Yoneten
<1>4. RolHazir(j)'
    BY DEF YetkiHazir, RolHazir, YetkiIlerler
<1> QED
    BY <1>2, <1>3, <1>4 DEF YetkiHazir

\* A handler has read.
LEMMA YetkiBaslar ==
    ASSUME YetkiIInv, NEW i \in Istekler, NEW r, Basla(i, r), UNCHANGED yetkiVars,
           istek'[i] = r => YetkiHazir(i)'
    PROVE  YetkiAdimi
<1>1. /\ OturumIInv' /\ Sirali' = Sirali /\ istek'[i] = r
      /\ \A j \in Istekler \ {i} : istek'[j] = istek[j]
    BY BaslaSonuc DEF YetkiIInv
<1>2. YetkiIlerler /\ YetkiTypeOK' /\ kullanici' = kullanici
    BY DEF YetkiIlerler, yetkiVars, YetkiIInv, YetkiTypeOK, Kayitli
<1>3. \A j \in Istekler \ {i} : YetkiHazir(j)'
    BY <1>1, <1>2, YetkiHazirKalir DEF YetkiIInv
<1> QED
    BY <1>1, <1>2, <1>3 DEF YetkiIInv, YetkiAdimi

\* A handler has ended.
LEMMA YetkiBiter ==
    ASSUME YetkiIInv, NEW i \in Istekler, istek[i] # Bos, Bitti(i), YetkiIlerler, YetkiTypeOK'
    PROVE  YetkiIInv'
<1>1. /\ OturumIInv' /\ Sirali' = Sirali /\ istek'[i] = Bos
      /\ \A j \in Istekler \ {i} : istek'[j] = istek[j] /\ (Sirali => istek[j] = Bos)
    BY BittiSonuc DEF YetkiIInv
<1>2. YetkiHazir(i)'
    BY <1>1 DEF YetkiHazir, HesapEkleHazir, HesapYazHazir, RolHazir, Bos
<1>3. \A j \in Istekler \ {i} : YetkiHazir(j)'
    BY <1>1, YetkiHazirKalir DEF YetkiIInv
<1> QED
    BY <1>1, <1>2, <1>3 DEF YetkiIInv

\* A step that is no handler's and leaves the users there are alone.
LEMMA YetkiDurur ==
    ASSUME YetkiIInv, UNCHANGED oturum, YetkiTypeOK',
           \A u \in Kullanicilar : kullanici[u] # Yok => kullanici'[u] = kullanici[u],
           \A r \in Roller : rol[r] # Yok => rol'[r] # Yok
    PROVE  YetkiIInv'
<1>1. OturumIInv' /\ istek' = istek /\ Sirali' = Sirali
    BY OturumDurur DEF YetkiIInv
<1>2. YetkiIlerler
    BY DEF YetkiIlerler
<1>3. \A j \in Istekler : YetkiHazir(j)'
    BY <1>1, <1>2, YetkiHazirKalir DEF YetkiIInv
<1> QED
    BY <1>1, <1>3 DEF YetkiIInv

LEMMA SecilebilirHedef ==
    ASSUME YetkiTypeOK
    PROVE  Secilebilir \subseteq Hedefler
BY DEF YetkiTypeOK, Secilebilir, Hedefler

-----------------------------------------------------------------------------
(* Users: the steps.                                                       *)

LEMMA TohumYoneticiAdimi ==
    ASSUME YetkiIInv, NEW u \in Kullanicilar, TohumYonetici(u)
    PROVE  YetkiAdimi
<1> DEFINE s == [eposta |-> Kurucu, aktif |-> TRUE, admin |-> TRUE]
<1>1. /\ kullanici[u] = Yok /\ ~EpostaBaskasinda(u, Kurucu)
      /\ kullanici' = [kullanici EXCEPT ![u] = s]
      /\ bag' = [bag EXCEPT ![u] = RolAdinda(AdminRolu)]
      /\ UNCHANGED <<rol, yetki, giren, oturum>>
    BY DEF TohumYonetici
<1>2. s \in KullaniciSatiri /\ RolAdinda(AdminRolu) \subseteq Hedefler
    BY YetkiAssumption DEF KullaniciSatiri, RolAdinda, Hedefler
<1>3. \A v \in Kullanicilar : kullanici[v] # Yok => kullanici'[v] = kullanici[v]
    BY <1>1 DEF YetkiIInv, YetkiTypeOK
<1>4. YetkiTypeOK'
    <2> HIDE DEF s
    <2>1. kullanici' \in [Kullanicilar -> KullaniciSatiri \cup {Yok}]
        BY <1>1, <1>2 DEF YetkiIInv, YetkiTypeOK
    <2>2. bag' \in [Kullanicilar -> SUBSET Hedefler]
        BY <1>1, <1>2 DEF YetkiIInv, YetkiTypeOK
    <2>3. giren' \subseteq Kayitli'
        BY <1>1, <1>3 DEF YetkiIInv, YetkiTypeOK, Kayitli
    <2> QED
        BY <1>1, <2>1, <2>2, <2>3 DEF YetkiIInv, YetkiTypeOK
<1>5. YetkiIInv'
    BY <1>1, <1>3, <1>4, YetkiDurur
<1>6. YoneticiVar => YoneticiVar'
    BY <1>3 DEF YoneticiVar, Kayitli
<1>7. ~\E v \in Kayitli : kullanici[v].eposta = Kurucu
    BY <1>1 DEF EpostaBaskasinda, Kayitli
<1> QED
    BY <1>5, <1>6, <1>7 DEF YetkiAdimi, YoneticiAdimi

\* What the script and the settings enter are roles, and roles there are stay.
LEMMA GirinceTip ==
    ASSUME YetkiTypeOK, NEW roller, DOMAIN roller \subseteq RolAdlari, NEW y \in YeniRoller(roller),
           NEW r \in Roller
    PROVE  /\ Girilince(y, roller)[r] \in RolSatiri \cup {Yok}
           /\ rol[r] # Yok => Girilince(y, roller)[r] = rol[r]
<1> DEFINE eksik == {ad \in DOMAIN roller : RolAdinda(ad) = {}}
           bosta == {q \in Roller : rol[q] = Yok}
<1>1. PICK S \in SUBSET bosta : y \in [S -> eksik]
    BY DEF YeniRoller
<1>2. ASSUME r \in S
      PROVE  [ad |-> y[r], yetkiler |-> roller[y[r]] \cap yetki] \in RolSatiri
    <2>1. y[r] \in RolAdlari /\ yetki \subseteq Yetkiler
        BY <1>1, <1>2 DEF YetkiTypeOK
    <2> QED
        BY <2>1 DEF RolSatiri
<1>3. rol[r] \in RolSatiri \cup {Yok}
    BY DEF YetkiTypeOK
<1>4. DOMAIN y = S /\ (r \in S => rol[r] = Yok)
    BY <1>1
<1> HIDE DEF eksik, bosta
<1>5. CASE r \in S
    BY <1>2, <1>4, <1>5 DEF Girilince
<1>6. CASE r \notin S
    BY <1>3, <1>4, <1>6 DEF Girilince
<1> QED
    BY <1>5, <1>6

\* seed_roles gives a role of its own back what was taken from it.
LEMMA TohumRolTip ==
    ASSUME YetkiTypeOK, NEW y \in YeniRoller(TohumRoller), NEW r \in Roller,
           NEW s, s = Girilince(y, TohumRoller)[r],
           NEW t, t = IF s = Yok \/ s.ad \notin DOMAIN TohumRoller THEN s
                      ELSE [s EXCEPT !.yetkiler = @ \cup (TohumRoller[s.ad] \cap yetki)]
    PROVE  /\ t \in RolSatiri \cup {Yok}
           /\ rol[r] # Yok => t # Yok
<1>1. s \in RolSatiri \cup {Yok} /\ (rol[r] # Yok => s = rol[r])
    BY GirinceTip, YetkiAssumption
<1>2. yetki \subseteq Yetkiler
    BY DEF YetkiTypeOK
<1>3. ASSUME s \in RolSatiri
      PROVE  [s EXCEPT !.yetkiler = @ \cup (TohumRoller[s.ad] \cap yetki)] \in RolSatiri
    BY <1>2, <1>3 DEF RolSatiri
<1>4. t # s => s # Yok /\ t \in RolSatiri
    BY <1>1, <1>3
<1> QED
    BY <1>1, <1>4, YetkiAssumption

\* The browsers, the script's and the settings' permissions, and new roles.
LEMMA YetkiArkaAdimi ==
    ASSUME YetkiIInv,
           \/ \E u \in Kullanicilar : Login(u) \/ Logout(u)
           \/ TohumYetki \/ TohumRol \/ VarsayilanYetkileriEkle \/ VarsayilanRolleriEkle
           \/ \E k \in Yetkiler : YetkiEkle(k)
           \/ \E r \in Roller, ad \in RolAdlari, yetkiler \in SUBSET Yetkiler :
                RolEkle(r, ad, yetkiler)
    PROVE  YetkiAdimi
<1>1. UNCHANGED <<oturum, kullanici, bag>>
    BY DEF Login, Logout, TohumYetki, TohumRol, VarsayilanYetkileriEkle, VarsayilanRolleriEkle,
        YetkiEkle, RolEkle
<1>2. yetki' \subseteq Yetkiler /\ giren' \subseteq Kayitli'
    BY <1>1, YetkiAssumption DEF Login, Logout, TohumYetki, TohumRol, VarsayilanYetkileriEkle,
        VarsayilanRolleriEkle, YetkiEkle, RolEkle, YetkiIInv, YetkiTypeOK, Kayitli
<1>3. /\ rol' \in [Roller -> RolSatiri \cup {Yok}]
      /\ \A r \in Roller : rol[r] # Yok => rol'[r] # Yok
    <2>1. CASE TohumRol
        <3> PICK y \in YeniRoller(TohumRoller) :
                rol' = [r \in Roller |->
                  LET s == Girilince(y, TohumRoller)[r] IN
                  IF s = Yok \/ s.ad \notin DOMAIN TohumRoller THEN s
                  ELSE [s EXCEPT !.yetkiler = @ \cup (TohumRoller[s.ad] \cap yetki)]]
            BY <2>1 DEF TohumRol
        <3>1. \A r \in Roller : rol'[r] \in RolSatiri \cup {Yok} /\ (rol[r] # Yok => rol'[r] # Yok)
            BY TohumRolTip DEF YetkiIInv
        <3> QED
            BY <3>1
    <2>2. CASE VarsayilanRolleriEkle
        <3> PICK y \in YeniRoller(VarsayilanRoller) : rol' = Girilince(y, VarsayilanRoller)
            BY <2>2 DEF VarsayilanRolleriEkle
        <3>1. \A r \in Roller : rol'[r] \in RolSatiri \cup {Yok} /\ (rol[r] # Yok => rol'[r] # Yok)
            BY GirinceTip, YetkiAssumption DEF YetkiIInv
        <3>2. rol' = [r \in Roller |-> rol'[r]]
            BY DEF Girilince
        <3> QED
            BY <3>1, <3>2
    <2>3. ASSUME NEW r \in Roller, NEW ad \in RolAdlari, NEW yetkiler \in SUBSET Yetkiler,
                 RolEkle(r, ad, yetkiler)
          PROVE  /\ rol' \in [Roller -> RolSatiri \cup {Yok}]
                 /\ \A q \in Roller : rol[q] # Yok => rol'[q] # Yok
        <3>1. [ad |-> ad, yetkiler |-> yetkiler] \in RolSatiri
            BY DEF RolSatiri
        <3> QED
            BY <2>3, <3>1 DEF RolEkle, YetkiIInv, YetkiTypeOK
    <2>4. CASE rol' = rol
        BY <2>4 DEF YetkiIInv, YetkiTypeOK
    <2> QED
        BY <2>1, <2>2, <2>3, <2>4 DEF Login, Logout, TohumYetki, VarsayilanYetkileriEkle, YetkiEkle
<1>4. YetkiTypeOK'
    BY <1>1, <1>2, <1>3 DEF YetkiIInv, YetkiTypeOK
<1>5. YetkiIInv'
    BY <1>1, <1>3, <1>4, YetkiDurur
<1> QED
    BY <1>1, <1>5 DEF YetkiAdimi

LEMMA YoneticiYoneten ==
    ASSUME YetkiTypeOK, NEW y \in Yoneticiler
    PROVE  Yoneten(y) /\ YoneticiVar
BY DEF YetkiTypeOK, Yoneticiler, Girenler, Yoneten, YoneticiVar, Kayitli

LEMMA KullaniciEklerAdimi ==
    ASSUME YetkiIInv, NEW i \in Istekler, NEW y \in Kullanicilar, NEW u \in Kullanicilar,
           NEW s \in KullaniciSatiri, NEW b, KullaniciEkler(i, y, u, s, b)
    PROVE  YetkiAdimi
<1> DEFINE r == [is |-> "kullanici_ekle", kullanici |-> u, satir |-> s, baglar |-> b]
<1>1. y \in Yoneticiler /\ b \subseteq Secilebilir /\ Basla(i, r) /\ UNCHANGED yetkiVars
    BY DEF KullaniciEkler
<1>2. b \subseteq Hedefler /\ YoneticiVar'
    BY <1>1, SecilebilirHedef, YoneticiYoneten DEF YetkiIInv, yetkiVars, YoneticiVar, Kayitli
<1>3. istek'[i] = r => YetkiHazir(i)'
    BY <1>2 DEF YetkiHazir, HesapEkleHazir, HesapYazHazir, RolHazir, KullaniciSatiri
<1> HIDE DEF r
<1> QED
    BY <1>1, <1>3, YetkiBaslar

LEMMA BagFarkBaglar ==
    ASSUME NEW S, NEW e \in SUBSET S, NEW y \in SUBSET S
    PROVE  Baglar(BagFark(e, y), S)
BY DEF Baglar, BagFark

LEMMA KullaniciYazarAdimi ==
    ASSUME YetkiIInv, NEW i \in Istekler, NEW y \in Yoneticiler, NEW u \in Kayitli,
           NEW yol \in {"form", "durum"}, yol = "durum" => y # u,
           NEW s \in KullaniciSatiri, NEW b \in SUBSET Hedefler, KullaniciYazar(i, y, u, yol, s, b)
    PROVE  YetkiAdimi
<1> DEFINE f == Fark(kullanici[u], s)
           g == BagFark(bag[u], b)
           r == [is |-> "kullanici", kullanici |-> u, eden |-> y, yol |-> yol, fark |-> f, bag |-> g]
<1>1. Basla(i, r) /\ UNCHANGED yetkiVars
    BY DEF KullaniciYazar
<1>2. u \in Kullanicilar /\ kullanici[u] # Yok /\ bag[u] \in SUBSET Hedefler
    BY DEF Kayitli, YetkiIInv, YetkiTypeOK
<1>3. KullaniciFarki(f) /\ Baglar(g, Hedefler)
    BY <1>2, KullaniciTipleri, KullaniciFarkOlur, BagFarkBaglar DEF YetkiIInv
<1>4. Yoneten(y)'
    BY <1>1, YoneticiYoneten DEF YetkiIInv, Yoneten, yetkiVars
<1> HIDE DEF f, g
<1>5. ASSUME istek'[i] = r PROVE YetkiHazir(i)'
    <2>1. /\ istek'[i].is = "kullanici" /\ istek'[i].kullanici = u /\ istek'[i].eden = y
          /\ istek'[i].yol = yol /\ istek'[i].fark = f /\ istek'[i].bag = g
        BY <1>5
    <2> HIDE DEF r
    <2> QED
        BY <1>1, <1>2, <1>3, <1>4, <2>1
            DEF YetkiHazir, HesapEkleHazir, HesapYazHazir, RolHazir, yetkiVars
<1> HIDE DEF r
<1> QED
    BY <1>1, <1>5, YetkiBaslar

\* The handlers of the accounts that read.
LEMMA KullaniciOkuAdimi ==
    ASSUME YetkiIInv, NEW i \in Istekler, NEW y \in Kullanicilar, NEW u \in Kullanicilar,
           \/ \E s \in KullaniciSatiri : \E b :
                KullaniciEkleOku(i, y, u, s, b) \/ KullaniciDuzenleOku(i, y, u, s, b)
           \/ \E e \in Epostalar, admin \in BOOLEAN : \E b : AdminKullaniciEkleOku(i, y, u, e, admin, b)
           \/ \E aktif, admin \in BOOLEAN : \E b : AdminKullaniciDuzenleOku(i, y, u, aktif, admin, b)
           \/ KullaniciDurumOku(i, y, u)
    PROVE  YetkiAdimi
<1>1. ASSUME NEW s \in KullaniciSatiri, NEW b, KullaniciEkleOku(i, y, u, s, b)
      PROVE  YetkiAdimi
    BY <1>1, KullaniciEklerAdimi DEF KullaniciEkleOku
<1>2. ASSUME NEW e \in Epostalar, NEW admin \in BOOLEAN, NEW b, AdminKullaniciEkleOku(i, y, u, e, admin, b)
      PROVE  YetkiAdimi
    <2>1. [eposta |-> e, aktif |-> TRUE, admin |-> admin] \in KullaniciSatiri
        BY DEF KullaniciSatiri
    <2> QED
        BY <1>2, <2>1, KullaniciEklerAdimi DEF AdminKullaniciEkleOku
<1>3. ASSUME NEW s \in KullaniciSatiri, NEW b, KullaniciDuzenleOku(i, y, u, s, b)
      PROVE  YetkiAdimi
    <2>1. b \in SUBSET Hedefler
        BY <1>3, SecilebilirHedef DEF KullaniciDuzenleOku, YetkiIInv
    <2> QED
        BY <1>3, <2>1, KullaniciYazarAdimi DEF KullaniciDuzenleOku
<1>4. ASSUME NEW aktif \in BOOLEAN, NEW admin \in BOOLEAN, NEW b,
             AdminKullaniciDuzenleOku(i, y, u, aktif, admin, b)
      PROVE  YetkiAdimi
    <2>1. kullanici[u] \in KullaniciSatiri
        BY <1>4, KullaniciTipleri DEF AdminKullaniciDuzenleOku, YetkiIInv, Kayitli
    <2>2. [kullanici[u] EXCEPT !.aktif = aktif, !.admin = admin] \in KullaniciSatiri
        BY <2>1 DEF KullaniciSatiri
    <2>3. b \cup (bag[u] \cap Yetkiler) \in SUBSET Hedefler
        BY <1>4 DEF AdminKullaniciDuzenleOku, Hedefler
    <2> QED
        BY <1>4, <2>2, <2>3, KullaniciYazarAdimi DEF AdminKullaniciDuzenleOku
<1>5. CASE KullaniciDurumOku(i, y, u)
    <2>1. kullanici[u] \in KullaniciSatiri /\ bag[u] \in SUBSET Hedefler
        BY <1>5, KullaniciTipleri DEF KullaniciDurumOku, YetkiIInv, YetkiTypeOK, Kayitli
    <2>2. [kullanici[u] EXCEPT !.aktif = ~@] \in KullaniciSatiri
        BY <2>1 DEF KullaniciSatiri
    <2> QED
        BY <1>5, <2>1, <2>2, KullaniciYazarAdimi DEF KullaniciDurumOku
<1> QED
    BY <1>1, <1>2, <1>3, <1>4, <1>5

LEMMA KullaniciEkleAdimi ==
    ASSUME YetkiIInv, NEW i \in Istekler, KullaniciEkle(i)
    PROVE  YetkiAdimi
<1> DEFINE u == istek[i].kullanici
           s == istek[i].satir
           b == istek[i].baglar
<1>1. /\ istek[i].is = "kullanici_ekle" /\ kullanici[u] = Yok /\ Bitti(i)
      /\ kullanici' = [kullanici EXCEPT ![u] = s] /\ bag' = [bag EXCEPT ![u] = b]
      /\ UNCHANGED <<rol, yetki, giren>>
    BY DEF KullaniciEkle
<1>2. u \in Kullanicilar /\ s \in KullaniciSatiri /\ b \subseteq Hedefler /\ (Sirali => YoneticiVar)
    BY <1>1 DEF YetkiIInv, YetkiHazir, HesapEkleHazir
<1> HIDE DEF u, s, b
<1>3. \A v \in Kullanicilar : kullanici[v] # Yok => kullanici'[v] = kullanici[v]
    BY <1>1 DEF YetkiIInv, YetkiTypeOK
<1>4. YetkiTypeOK'
    <2>1. kullanici' \in [Kullanicilar -> KullaniciSatiri \cup {Yok}]
        BY <1>1, <1>2 DEF YetkiIInv, YetkiTypeOK
    <2>2. bag' \in [Kullanicilar -> SUBSET Hedefler]
        BY <1>1, <1>2 DEF YetkiIInv, YetkiTypeOK
    <2>3. giren' \subseteq Kayitli'
        BY <1>1, <1>3 DEF YetkiIInv, YetkiTypeOK, Kayitli
    <2> QED
        BY <1>1, <2>1, <2>2, <2>3 DEF YetkiIInv, YetkiTypeOK
<1>5. YetkiIlerler /\ istek[i] # Bos
    BY <1>1, <1>3 DEF YetkiIlerler, Bos
<1>6. YetkiIInv'
    BY <1>1, <1>4, <1>5, YetkiBiter
<1>7. YoneticiVar => YoneticiVar'
    BY <1>3 DEF YoneticiVar, Kayitli
<1> QED
    BY <1>2, <1>6, <1>7 DEF YetkiAdimi, YoneticiAdimi

LEMMA KullaniciYazAdimi ==
    ASSUME YetkiIInv, NEW i \in Istekler, KullaniciYaz(i)
    PROVE  YetkiAdimi
<1> DEFINE u == istek[i].kullanici
           y == istek[i].eden
           f == istek[i].fark
           g == istek[i].bag
<1>1. /\ istek[i].is = "kullanici" /\ Bitti(i)
      /\ kullanici' = [kullanici EXCEPT ![u] = Uygula(@, f)]
      /\ bag' = [bag EXCEPT ![u] = BagUygula(@, g)]
      /\ UNCHANGED <<rol, yetki, giren>>
    BY DEF KullaniciYaz
<1>2. /\ u \in Kullanicilar /\ kullanici[u] # Yok /\ KullaniciFarki(f) /\ Baglar(g, Hedefler)
      /\ istek[i].yol \in {"form", "durum"} /\ (istek[i].yol = "durum" => y # u)
      /\ Sirali => Yoneten(y)
    BY <1>1 DEF YetkiIInv, YetkiHazir, HesapYazHazir
<1>3. istek[i] # Bos
    BY <1>1 DEF Bos
<1>4. i \in isci
    BY <1>3 DEF YetkiIInv, OturumIInv
<1> HIDE DEF u, y, f, g
<1>5. kullanici[u] \in KullaniciSatiri
    BY <1>2, KullaniciTipleri DEF YetkiIInv
<1>6. Uygula(kullanici[u], f) \in KullaniciSatiri
    BY <1>2, <1>5, KullaniciUygula
<1>7. /\ kullanici'[u] # Yok
      /\ \A v \in Kullanicilar \ {u} : kullanici'[v] = kullanici[v]
    BY <1>1, <1>2, <1>6, KullaniciSatirlari DEF YetkiIInv, YetkiTypeOK
<1>8. YetkiTypeOK'
    <2>1. kullanici' \in [Kullanicilar -> KullaniciSatiri \cup {Yok}]
        BY <1>1, <1>6 DEF YetkiIInv, YetkiTypeOK
    <2>2. BagUygula(bag[u], g) \in SUBSET Hedefler
        BY <1>2 DEF BagUygula, Baglar, YetkiIInv, YetkiTypeOK
    <2>3. bag' \in [Kullanicilar -> SUBSET Hedefler]
        BY <1>1, <2>2 DEF YetkiIInv, YetkiTypeOK
    <2>4. giren' \subseteq Kayitli'
        BY <1>1, <1>7 DEF YetkiIInv, YetkiTypeOK, Kayitli
    <2> QED
        BY <1>1, <2>1, <2>3, <2>4 DEF YetkiIInv, YetkiTypeOK
<1>9. YetkiIInv'
    <2>1. YetkiIlerler
        BY <1>1, <1>7 DEF YetkiIlerler
    <2> QED
        BY <1>1, <1>3, <1>8, <2>1, YetkiBiter
<1>10. Sirali => YoneticiVar
    BY <1>2 DEF Yoneten, YoneticiVar, Kayitli
<1>11. ASSUME Sirali, y # u PROVE YoneticiVar'
    <2>1. Yoneten(y) /\ kullanici'[y] = kullanici[y]
        BY <1>2, <1>7, <1>11 DEF Yoneten
    <2> QED
        BY <2>1 DEF Yoneten, YoneticiVar, Kayitli
<1>12. y = u => istek[i].yol = "form" /\ istek[i].eden = istek[i].kullanici
    BY <1>2 DEF y, u
<1> QED
    BY <1>1, <1>4, <1>9, <1>10, <1>11, <1>12 DEF YetkiAdimi, YoneticiAdimi

LEMMA RolDuzenleAdimi ==
    ASSUME YetkiIInv, NEW i \in Istekler, NEW r \in Roller, NEW ad \in RolAdlari,
           NEW yetkiler \in SUBSET Yetkiler, RolDuzenleOku(i, r, ad, yetkiler)
    PROVE  YetkiAdimi
<1> DEFINE f == Fark(rol[r], [ad |-> ad])
           g == BagFark(rol[r].yetkiler, yetkiler)
           q == [is |-> "rol", rol |-> r, fark |-> f, bag |-> g]
<1>1. rol[r] # Yok /\ Basla(i, q) /\ UNCHANGED yetkiVars
    BY DEF RolDuzenleOku
<1>2. Baglar(g, Yetkiler) /\ RolFarki(f)
    <2>1. rol[r].yetkiler \in SUBSET Yetkiler
        BY <1>1 DEF YetkiIInv, YetkiTypeOK, RolSatiri
    <2>2. RolFarki(f)
        BY DEF RolFarki, Fark
    <2> QED
        BY <2>1, <2>2, BagFarkBaglar
<1> HIDE DEF f, g
<1>3. istek'[i] = q => YetkiHazir(i)'
    BY <1>1, <1>2 DEF YetkiHazir, HesapEkleHazir, HesapYazHazir, RolHazir, yetkiVars
<1> HIDE DEF q
<1> QED
    BY <1>1, <1>3, YetkiBaslar

LEMMA RolYazAdimi ==
    ASSUME YetkiIInv, NEW i \in Istekler, RolYaz(i)
    PROVE  YetkiAdimi
<1> DEFINE r == istek[i].rol
           f == istek[i].fark
           g == istek[i].bag
           t == [Uygula(rol[r], f) EXCEPT !.yetkiler = BagUygula(@, g)]
<1>1. /\ istek[i].is = "rol" /\ rol' = [rol EXCEPT ![r] = t] /\ Bitti(i)
      /\ UNCHANGED <<kullanici, bag, yetki, giren>>
    BY DEF RolYaz
<1>2. r \in Roller /\ rol[r] # Yok /\ RolFarki(f) /\ Baglar(g, Yetkiler) /\ istek[i] # Bos
    BY <1>1 DEF YetkiIInv, YetkiHazir, RolHazir, Bos
<1> HIDE DEF r, f, g
<1>3. t \in RolSatiri
    BY <1>2, RolUygula DEF YetkiIInv, YetkiTypeOK
<1> HIDE DEF t
<1>4. YetkiTypeOK' /\ YetkiIlerler
    BY <1>1, <1>2, <1>3, YetkiAssumption DEF YetkiIInv, YetkiTypeOK, Kayitli, YetkiIlerler
<1>5. YetkiIInv'
    BY <1>1, <1>2, <1>4, YetkiBiter
<1> QED
    BY <1>1, <1>5 DEF YetkiAdimi

LEMMA YetkiBirakAdimi ==
    ASSUME YetkiIInv, NEW i \in Istekler, YetkiBirak(i)
    PROVE  YetkiAdimi
<1>1. istek[i] # Bos /\ Bitti(i) /\ UNCHANGED yetkiVars
    BY DEF YetkiBirak, Bos
<1>2. YetkiTypeOK' /\ YetkiIlerler /\ kullanici' = kullanici
    BY <1>1 DEF yetkiVars, YetkiIInv, YetkiTypeOK, Kayitli, YetkiIlerler
<1>3. YetkiIInv'
    BY <1>1, <1>2, YetkiBiter
<1> QED
    BY <1>2, <1>3 DEF YetkiAdimi

LEMMA HesapAdimi ==
    ASSUME YetkiIInv, HesapNext
    PROVE  YetkiAdimi
BY TohumYoneticiAdimi, YetkiArkaAdimi, KullaniciOkuAdimi, KullaniciEkleAdimi, KullaniciYazAdimi,
   YetkiBirakAdimi DEF HesapNext

LEMMA RolAdimi ==
    ASSUME YetkiIInv, RolNext
    PROVE  YetkiAdimi
BY TohumYoneticiAdimi, YetkiArkaAdimi, RolDuzenleAdimi, RolYazAdimi, YetkiBirakAdimi DEF RolNext

LEMMA BagAdimi ==
    ASSUME YetkiIInv, BagNext
    PROVE  YetkiAdimi
<1>1. ASSUME NEW i \in Istekler, NEW u \in Yoneticiler, NEW baglar \in SUBSET Hedefler,
             \/ KullaniciDuzenleOku(i, u, u, kullanici[u], baglar)
             \/ AdminKullaniciDuzenleOku(i, u, u, TRUE, TRUE, baglar)
      PROVE  YetkiAdimi
    <2>1. u \in Kullanicilar /\ kullanici[u] \in KullaniciSatiri
        BY YoneticiYoneten, KullaniciTipleri DEF YetkiIInv, Yoneten
    <2> QED
        BY <1>1, <2>1, KullaniciOkuAdimi
<1> QED
    BY <1>1, TohumYoneticiAdimi, YetkiArkaAdimi, KullaniciYazAdimi, YetkiBirakAdimi DEF BagNext

LEMMA YetkiBaslangic == OturumInit /\ YetkiInit => YetkiIInv
BY OturumBaslangic DEF OturumInit, Bos, YetkiInit, YetkiIInv, YetkiTypeOK, Kayitli, YetkiHazir,
   HesapEkleHazir, HesapYazHazir, RolHazir

LEMMA YetkiNextAdimi ==
    ASSUME YetkiIInv, [YetkiNext]_<<oturum, yetkiVars>>
    PROVE  YetkiAdimi
<1>1. CASE UNCHANGED <<oturum, yetkiVars>>
    <2>1. YetkiTypeOK' /\ UNCHANGED <<oturum, kullanici, rol>>
        BY <1>1 DEF yetkiVars, YetkiIInv, YetkiTypeOK, Kayitli
    <2> QED
        BY <2>1, YetkiDurur DEF YetkiAdimi
<1> QED
    BY <1>1, HesapAdimi, RolAdimi, BagAdimi DEF YetkiNext

\* Users, roles, permissions and their links have the columns and values the code gives
\* them, and only users there are logged in.
THEOREM YetkiTipleri == YetkiSpec => []YetkiTypeOK
<1>1. YetkiIInv /\ [YetkiNext]_<<oturum, yetkiVars>> => YetkiIInv'
    BY YetkiNextAdimi DEF YetkiAdimi
<1>2. YetkiIInv => YetkiTypeOK
    BY DEF YetkiIInv
<1> QED
    BY <1>1, <1>2, YetkiBaslangic, PTL DEF YetkiSpec

\* With one thread the portal loses its last active administrator only by that one's own
\* form, and gets one back only from the script, for any number of users, roles and
\* permissions.
THEOREM SonYonetici == YetkiSpec => YoneticiKalir
<1>1. YetkiIInv /\ [YetkiNext]_<<oturum, yetkiVars>> => YetkiIInv' /\ [YoneticiAdimi]_kullanici
    BY YetkiNextAdimi DEF YetkiAdimi
<1> QED
    BY <1>1, YetkiBaslangic, PTL DEF YetkiSpec, YoneticiKalir, YoneticiAdimi

-----------------------------------------------------------------------------
(* Projects and positions: types.                                          *)

\* A thread that will hire knows a candidate.
KadroIInv ==
    /\ OturumIInv
    /\ KadroTypeOK
    /\ \A i \in Istekler : istek[i].is = "alim" => istek[i].aday \in Adaylar

LEMMA KadroOturumKalir ==
    ASSUME KadroIInv, KadroTypeOK',
           \/ UNCHANGED oturum
           \/ \E i \in Istekler : \E r : Basla(i, r) /\ (r.is = "alim" => r.aday \in Adaylar)
           \/ \E i \in Istekler : istek[i] # Bos /\ Bitti(i)
    PROVE  KadroIInv'
<1>1. CASE UNCHANGED oturum
    BY <1>1, OturumDurur DEF KadroIInv
<1>2. ASSUME NEW i \in Istekler, NEW r, Basla(i, r), r.is = "alim" => r.aday \in Adaylar
      PROVE  KadroIInv'
    BY <1>2, BaslaSonuc DEF KadroIInv
<1>3. ASSUME NEW i \in Istekler, istek[i] # Bos, Bitti(i)
      PROVE  KadroIInv'
    BY <1>3, BittiSonuc DEF KadroIInv, Bos
<1> QED
    BY <1>1, <1>2, <1>3

LEMMA TohumProjeAdimi == ASSUME KadroIInv, TohumProje PROVE KadroIInv'
<1>1. /\ musteri' = musteri \cup {TohumProjeleri[p] : p \in DOMAIN TohumProjeleri}
      /\ proje' = [p \in Projeler |->
           IF proje[p] = Yok /\ p \in DOMAIN TohumProjeleri THEN TohumProjeleri[p] ELSE proje[p]]
      /\ kadro' = [k \in Kadrolar |->
           IF kadro[k] = Yok /\ k \in DOMAIN TohumKadrolari THEN TohumKadrolari[k] ELSE kadro[k]]
      /\ UNCHANGED <<adayKadro, yer>> /\ UNCHANGED oturum
    BY DEF TohumProje
<1>2. \A p \in DOMAIN TohumProjeleri : TohumProjeleri[p] \in Musteriler
    BY KadroAssumption
<1>3. \A k \in DOMAIN TohumKadrolari : TohumKadrolari[k] \in KadroSatiri
    BY KadroAssumption
<1>4. musteri' \subseteq Musteriler
    BY <1>1, <1>2 DEF KadroIInv, KadroTypeOK
<1>5. proje' \in [Projeler -> Musteriler \cup {Yok}]
    BY <1>1, <1>2 DEF KadroIInv, KadroTypeOK
<1>6. kadro' \in [Kadrolar -> KadroSatiri \cup {Yok}]
    BY <1>1, <1>3 DEF KadroIInv, KadroTypeOK
<1>7. KadroTypeOK'
    BY <1>1, <1>4, <1>5, <1>6 DEF KadroIInv, KadroTypeOK
<1> QED
    BY <1>1, <1>7, KadroOturumKalir

\* Customers, projects and positions are entered, and candidates for positions.
LEMMA KadroGirer ==
    ASSUME KadroIInv,
           \/ \E m \in Musteriler :
                MusteriEkle(m) \/ \E p \in Projeler : ProjeEkle(p, m) \/ ProjeDuzenle(p, m)
           \/ \E k \in Kadrolar, h \in 0..MaxHedef :
                KadroDuzenle(k, h) \/ \E p \in Projeler : KadroEkle(k, p, h)
           \/ \E k \in Kadrolar, a \in Adaylar : KadroAday(k, a)
    PROVE  KadroIInv'
<1>1. ASSUME NEW m \in Musteriler,
             MusteriEkle(m) \/ \E p \in Projeler : ProjeEkle(p, m) \/ ProjeDuzenle(p, m)
      PROVE  KadroTypeOK' /\ UNCHANGED oturum
    BY <1>1 DEF MusteriEkle, ProjeEkle, ProjeDuzenle, ProjeYaz, KadroIInv, KadroTypeOK
<1>2. ASSUME NEW k \in Kadrolar, NEW h \in 0..MaxHedef, NEW p \in Projeler, KadroEkle(k, p, h)
      PROVE  KadroTypeOK' /\ UNCHANGED oturum
    BY <1>2 DEF KadroEkle, KadroSatiri, KadroIInv, KadroTypeOK
<1>3. ASSUME NEW k \in Kadrolar, NEW h \in 0..MaxHedef, KadroDuzenle(k, h)
      PROVE  KadroTypeOK' /\ UNCHANGED oturum
    <2>1. [kadro[k] EXCEPT !.hedef = h] \in KadroSatiri
        BY <1>3 DEF KadroDuzenle, KadroSatiri, KadroIInv, KadroTypeOK
    <2> QED
        BY <1>3, <2>1 DEF KadroDuzenle, KadroIInv, KadroTypeOK
<1>4. ASSUME NEW k \in Kadrolar, NEW a \in Adaylar, KadroAday(k, a)
      PROVE  KadroTypeOK' /\ UNCHANGED oturum
    BY <1>4 DEF KadroAday, KadroAdayEkle, AdayDavet, AdayEkle, KadroIInv, KadroTypeOK
<1> QED
    BY <1>1, <1>2, <1>3, <1>4, KadroOturumKalir

\* Candidates and employees change, and positions do not.
LEMMA KadroKisiAdimi ==
    ASSUME KadroIInv, UNCHANGED kadroVars, NEW i \in Istekler,
           \/ \E a \in Adaylar : KvkkOnaylaOku(i, a) \/ DonusturOku(i, a) \/ IseAlOku(i, a, Yok)
           \/ \E c \in Calisanlar, d \in {"izinli", "ayrildi"} : CalisanDuzenleOku(i, c, d, Yok)
           \/ AdayYaz(i) \/ CalisanYaz(i) \/ IseAlimBirak(i)
    PROVE  KadroIInv'
<1>1. KadroTypeOK'
    BY DEF KadroIInv, KadroTypeOK, kadroVars
<1>2. ASSUME NEW a \in Adaylar, KvkkOnaylaOku(i, a) \/ DonusturOku(i, a) \/ IseAlOku(i, a, Yok)
      PROVE  \E r : Basla(i, r) /\ (r.is = "alim" => r.aday \in Adaylar)
    <2>1. CASE KvkkOnaylaOku(i, a)
        <3>1. PICK f : AdayFarkla(i, a, f)
            BY <2>1 DEF KvkkOnaylaOku, AdayYazar
        <3> DEFINE r == [is |-> "aday", aday |-> a, fark |-> f]
        <3>2. Basla(i, r) /\ r.is # "alim"
            BY <3>1 DEF AdayFarkla
        <3> QED
            BY <3>2
    <2>2. CASE DonusturOku(i, a) \/ IseAlOku(i, a, Yok)
        BY <2>2 DEF DonusturOku, IseAlOku, AlimYazar
    <2> QED
        BY <1>2, <2>1, <2>2
<1>3. ASSUME NEW c \in Calisanlar, NEW d \in {"izinli", "ayrildi"}, CalisanDuzenleOku(i, c, d, Yok)
      PROVE  \E r : Basla(i, r) /\ (r.is = "alim" => r.aday \in Adaylar)
    <2>1. PICK f : CalisanYazar(i, c, f, Yok, HicFark)
        BY <1>3 DEF CalisanDuzenleOku
    <2> DEFINE r == [is |-> "calisan", calisan |-> c, cfark |-> f, cikis |-> Yok, xfark |-> HicFark]
    <2>2. Basla(i, r) /\ r.is # "alim"
        BY <2>1 DEF CalisanYazar
    <2> QED
        BY <2>2
<1>4. ASSUME AdayYaz(i) \/ CalisanYaz(i) \/ IseAlimBirak(i)
      PROVE  istek[i] # Bos /\ Bitti(i)
    BY <1>4 DEF AdayYaz, CalisanYaz, IseAlimBirak, Bos
<1> QED
    BY <1>1, <1>2, <1>3, <1>4, KadroOturumKalir

LEMMA KadroAlimAdimi ==
    ASSUME KadroIInv, NEW i \in Istekler, NEW c \in Calisanlar, KadroAlim(i, c)
    PROVE  KadroIInv'
<1>1. /\ istek[i].is = "alim" /\ Bitti(i)
      /\ yer' = [yer EXCEPT ![c] = IF istek[i].kimden = Yok THEN adayKadro[istek[i].aday] ELSE Yok]
      /\ UNCHANGED <<musteri, proje, kadro, adayKadro>>
    BY DEF KadroAlim, Alim
<1>2. adayKadro[istek[i].aday] \in Kadrolar \cup {Yok}
    BY <1>1 DEF KadroIInv, KadroTypeOK
<1>3. KadroTypeOK'
    BY <1>1, <1>2 DEF KadroIInv, KadroTypeOK
<1>4. istek[i] # Bos
    BY <1>1 DEF Bos
<1> QED
    BY <1>1, <1>3, <1>4, KadroOturumKalir

LEMMA KadroBaslangic == OturumInit /\ KadroInit => KadroIInv
<1> SUFFICES ASSUME OturumInit, KadroInit PROVE KadroIInv
    OBVIOUS
<1>1. \A i \in Istekler : istek[i] = Bos
    BY DEF OturumInit
<1> QED
    BY <1>1, OturumBaslangic DEF Bos, KadroInit, KadroIInv, KadroTypeOK

LEMMA KadroAdimi == KadroIInv /\ [KadroNext]_<<oturum, iseAlimVars, kadroVars>> => KadroIInv'
<1> SUFFICES ASSUME KadroIInv, [KadroNext]_<<oturum, iseAlimVars, kadroVars>> PROVE KadroIInv'
    OBVIOUS
<1>1. CASE UNCHANGED <<oturum, iseAlimVars, kadroVars>>
    <2>1. KadroTypeOK'
        BY <1>1 DEF kadroVars, KadroIInv, KadroTypeOK
    <2> QED
        BY <1>1, <2>1, KadroOturumKalir
<1> QED
    BY <1>1, TohumProjeAdimi, KadroGirer, KadroKisiAdimi, KadroAlimAdimi DEF KadroNext

\* Customers, projects, positions and who has which keep their values.
THEOREM KadroTipleri == KadroSpec => []KadroTypeOK
<1>1. KadroIInv => KadroTypeOK
    BY DEF KadroIInv
<1> QED
    BY <1>1, KadroBaslangic, KadroAdimi, PTL DEF KadroSpec

-----------------------------------------------------------------------------
(* Projects and positions: what the pages count.  A sum is the size of a   *)
(* set of pairs, so that sums are compared by what maps one set to another.*)

\* The pairs whose number Toplam(f) is.
Ciftler(f) == UNION {{k} \X (1..f[k]) : k \in DOMAIN f}

LEMMA CiftUye ==
    ASSUME NEW K, NEW f \in [K -> Nat], NEW x
    PROVE  x \in Ciftler(f) <=> \E k \in K : \E n \in 1..f[k] : x = <<k, n>>
<1>1. DOMAIN f = K
    OBVIOUS
<1>2. x \in Ciftler(f) <=> \E k \in K : x \in {k} \X (1..f[k])
    BY <1>1 DEF Ciftler
<1> QED
    BY <1>2

LEMMA CiftlerSonlu ==
    ASSUME NEW K, IsFiniteSet(K), NEW f \in [K -> Nat]
    PROVE  IsFiniteSet(Ciftler(f))
<1> DEFINE S == {{k} \X (1..f[k]) : k \in K}
           g == [k \in K |-> {k} \X (1..f[k])]
<1>1. g \in Surjection(K, S)
    BY DEF Surjection
<1>2. IsFiniteSet(S)
    <2> HIDE DEF g, S
    <2> QED
        BY <1>1, FS_Surjection
<1>3. ASSUME NEW k \in K PROVE IsFiniteSet({k} \X (1..f[k]))
    <2>1. IsFiniteSet({k})
        BY FS_Singleton
    <2>2. IsFiniteSet(1..f[k])
        <3>1. 1 \in Int /\ f[k] \in Int
            OBVIOUS
        <3> QED
            BY <3>1, FS_Interval
    <2> QED
        BY <2>1, <2>2, FS_Product
<1>4. \A T \in S : IsFiniteSet(T)
    BY <1>3
<1>5. Ciftler(f) = UNION S
    BY DEF Ciftler
<1> HIDE DEF S
<1> QED
    BY <1>2, <1>4, <1>5, FS_UNION

\* The elements of D whose place is k, and those with a place in K.
Yerde(D, y, k) == {c \in D : y[c] = k}
Yerlesen(D, y, K) == {c \in D : y[c] \in K}

\* If f counts the elements of D by their place, its sum counts those with a place in K.
LEMMA ToplamSayar ==
    ASSUME NEW K, NEW D, IsFiniteSet(D), NEW y, NEW f \in [K -> Nat],
           \A k \in K : f[k] = Cardinality(Yerde(D, y, k))
    PROVE  Toplam(f) = Cardinality(Yerlesen(D, y, K))
<1> DEFINE E == Yerlesen(D, y, K)
           b == [k \in K |-> CHOOSE h : h \in Bijection(1..f[k], Yerde(D, y, k))]
           C == Ciftler(f)
           g == [x \in C |-> b[x[1]][x[2]]]
<1>1. ASSUME NEW k \in K PROVE b[k] \in Bijection(1..f[k], Yerde(D, y, k))
    <2>1. IsFiniteSet(Yerde(D, y, k))
        <3>1. Yerde(D, y, k) \in SUBSET D
            BY DEF Yerde
        <3> QED
            BY <3>1, FS_Subset
    <2>2. f[k] = Cardinality(Yerde(D, y, k))
        OBVIOUS
    <2>3. ExistsBijection(1..f[k], Yerde(D, y, k))
        BY <2>1, <2>2, FS_CardinalityType
    <2> QED
        BY <2>3 DEF ExistsBijection
<1>2. ASSUME NEW k \in K
      PROVE  /\ \A n \in 1..f[k] : b[k][n] \in D /\ y[b[k][n]] = k
             /\ \A n, m \in 1..f[k] : b[k][n] = b[k][m] => n = m
             /\ \A c \in D : y[c] = k => \E n \in 1..f[k] : b[k][n] = c
    <2>1. b[k] \in Bijection(1..f[k], Yerde(D, y, k))
        BY <1>1
    <2> HIDE DEF b
    <2>2. /\ b[k] \in [1..f[k] -> Yerde(D, y, k)]
          /\ \A n, m \in 1..f[k] : b[k][n] = b[k][m] => n = m
          /\ \A c \in Yerde(D, y, k) : \E n \in 1..f[k] : b[k][n] = c
        BY <2>1 DEF Bijection, Injection, Surjection, IsInjective
    <2> QED
        BY <2>2 DEF Yerde
<1> HIDE DEF b
<1>3. ASSUME NEW x \in C
      PROVE  x[1] \in K /\ x[2] \in 1..f[x[1]] /\ x = <<x[1], x[2]>>
    <2>1. PICK k \in K : \E n \in 1..f[k] : x = <<k, n>>
        BY CiftUye
    <2> QED
        BY <2>1
<1>4. ASSUME NEW k \in K, NEW n \in 1..f[k] PROVE <<k, n>> \in C /\ g[<<k, n>>] = b[k][n]
    <2>1. <<k, n>> \in C
        BY CiftUye
    <2> QED
        BY <2>1
<1>5. ASSUME NEW x \in C PROVE g[x] \in D /\ y[g[x]] = x[1] /\ g[x] = b[x[1]][x[2]]
    <2>1. g[x] = b[x[1]][x[2]]
        OBVIOUS
    <2> QED
        BY <1>2, <1>3, <2>1
<1>6. g \in [C -> E]
    <2>1. \A x \in C : g[x] \in E
        BY <1>3, <1>5 DEF Yerlesen
    <2>2. g = [x \in C |-> g[x]]
        OBVIOUS
    <2> HIDE DEF g, C, E
    <2> QED
        BY <2>1, <2>2
<1>7. ASSUME NEW x \in C, NEW z \in C, g[x] = g[z] PROVE x = z
    <2>1. x[1] = z[1]
        BY <1>5, <1>7
    <2>2. b[x[1]][x[2]] = b[x[1]][z[2]]
        BY <1>5, <1>7, <2>1
    <2>3. x[2] = z[2]
        BY <1>2, <1>3, <2>1, <2>2
    <2> QED
        BY <1>3, <2>1, <2>3
<1>8. ASSUME NEW c \in E PROVE \E x \in C : g[x] = c
    <2>1. PICK n \in 1..f[y[c]] : b[y[c]][n] = c
        BY <1>2 DEF Yerlesen
    <2> QED
        BY <1>4, <2>1 DEF Yerlesen
<1>9. IsFiniteSet(E)
    <2>1. E \in SUBSET D
        BY DEF Yerlesen
    <2> HIDE DEF E
    <2> QED
        BY <2>1, FS_Subset
<1> HIDE DEF g, C, E
<1>10. g \in Injection(C, E) /\ g \in Surjection(C, E)
    BY <1>6, <1>7, <1>8 DEF Injection, Surjection, IsInjective
<1>11. Cardinality(C) = Cardinality(E)
    BY <1>9, <1>10, FS_Injection
<1>12. Toplam(f) = Cardinality(C)
    BY DEF C, Ciftler, Toplam
<1> QED
    BY <1>11, <1>12 DEF E

\* What is missing, place by place, and what is there make up the target, and more
\* exactly if some place has more than its target.
LEMMA ToplamAyrilir ==
    ASSUME NEW K, IsFiniteSet(K),
           NEW h \in [K -> Nat], NEW m \in [K -> Nat], NEW e \in [K -> Nat],
           \A k \in K : e[k] = IF h[k] > m[k] THEN h[k] - m[k] ELSE 0
    PROVE  /\ Toplam(h) \in Nat /\ Toplam(m) \in Nat /\ Toplam(e) \in Nat
           /\ Toplam(h) <= Toplam(m) + Toplam(e)
           /\ Toplam(h) < Toplam(m) + Toplam(e) <=> \E k \in K : m[k] > h[k]
<1> DEFINE A == Ciftler(h)
           M == Ciftler(m)
           B == Ciftler(e)
           F == A \ M
           U == M \cup F
           g == [x \in F |-> <<x[1], x[2] - m[x[1]]>>]
<1>1. IsFiniteSet(A) /\ IsFiniteSet(M) /\ IsFiniteSet(B)
    BY CiftlerSonlu
<1>2. ASSUME NEW x
      PROVE  /\ x \in A <=> \E k \in K : \E n \in 1..h[k] : x = <<k, n>>
             /\ x \in M <=> \E k \in K : \E n \in 1..m[k] : x = <<k, n>>
             /\ x \in B <=> \E k \in K : \E n \in 1..e[k] : x = <<k, n>>
    BY CiftUye
<1>3. ASSUME NEW x \in F
      PROVE  /\ x[1] \in K /\ x[2] \in Nat /\ x = <<x[1], x[2]>>
             /\ x[2] > m[x[1]] /\ x[2] <= h[x[1]]
    <2>1. PICK k \in K, n \in Nat : n \in 1..h[k] /\ x = <<k, n>>
        BY <1>2
    <2>2. n \notin 1..m[k]
        BY <1>2, <2>1
    <2> QED
        BY <2>1, <2>2
<1>4. ASSUME NEW x \in F PROVE g[x] = <<x[1], x[2] - m[x[1]]>> /\ g[x] \in B
    <2>1. g[x] = <<x[1], x[2] - m[x[1]]>>
        OBVIOUS
    <2>2. x[2] - m[x[1]] \in 1..e[x[1]]
        BY <1>3
    <2> QED
        BY <1>2, <1>3, <2>1, <2>2
<1>5. ASSUME NEW x \in F, NEW z \in F, g[x] = g[z] PROVE x = z
    <2>1. x[1] = z[1] /\ x[2] - m[x[1]] = z[2] - m[z[1]]
        BY <1>4, <1>5
    <2>2. m[x[1]] \in Nat
        BY <1>3
    <2>3. x[2] = z[2]
        BY <1>3, <2>1, <2>2
    <2> QED
        BY <1>3, <2>1, <2>3
<1>6. ASSUME NEW t \in B PROVE \E x \in F : g[x] = t
    <2>1. PICK k \in K, n \in Nat : n \in 1..e[k] /\ t = <<k, n>>
        BY <1>2
    <2>2. n + m[k] \in 1..h[k] /\ n + m[k] \notin 1..m[k] /\ (n + m[k]) - m[k] = n
        BY <2>1
    <2>3. <<k, n + m[k]>> \in F
        BY <1>2, <2>2
    <2> QED
        BY <1>4, <2>1, <2>2, <2>3
<1>7. g \in [F -> B]
    <2>1. g = [x \in F |-> g[x]]
        OBVIOUS
    <2> HIDE DEF g, F, B
    <2> QED
        BY <1>4, <2>1
<1>8. Cardinality(F) = Cardinality(B)
    <2> HIDE DEF g, F, B
    <2>1. g \in Injection(F, B) /\ g \in Surjection(F, B)
        BY <1>5, <1>6, <1>7 DEF Injection, Surjection, IsInjective
    <2> QED
        BY <1>1, <2>1, FS_Injection
<1>9. IsFiniteSet(F)
    <2> HIDE DEF A, M
    <2> QED
        BY <1>1, FS_Difference
<1>10. IsFiniteSet(U) /\ Cardinality(U) = Cardinality(M) + Cardinality(F)
    <2>1. M \cap F = {}
        OBVIOUS
    <2> HIDE DEF M, F
    <2>2. Cardinality(M \cap F) = 0
        BY <2>1, FS_EmptySet
    <2>3. Cardinality(M) \in Nat /\ Cardinality(F) \in Nat
        BY <1>1, <1>9, FS_CardinalityType
    <2>4. /\ IsFiniteSet(M \cup F)
          /\ Cardinality(M \cup F) = Cardinality(M) + Cardinality(F) - Cardinality(M \cap F)
        BY <1>1, <1>9, FS_Union
    <2> QED
        BY <2>2, <2>3, <2>4
<1>11. /\ Cardinality(A) \in Nat /\ Cardinality(M) \in Nat /\ Cardinality(B) \in Nat
       /\ Cardinality(A) <= Cardinality(U)
       /\ Cardinality(U) = Cardinality(A) <=> U = A
    <2>1. A \in SUBSET U
        OBVIOUS
    <2> HIDE DEF A, M, B, U
    <2> QED
        BY <1>1, <1>10, <2>1, FS_Subset, FS_CardinalityType
<1>12. U # A <=> \E k \in K : m[k] > h[k]
    <2>1. ASSUME NEW k \in K, m[k] > h[k] PROVE U # A
        <3>1. m[k] \in 1..m[k] /\ m[k] \notin 1..h[k]
            BY <2>1
        <3>2. <<k, m[k]>> \in M /\ <<k, m[k]>> \notin A
            BY <1>2, <3>1
        <3> QED
            BY <3>2
    <2>2. ASSUME NEW x \in U, x \notin A PROVE \E k \in K : m[k] > h[k]
        <3>1. x \in M
            BY <2>2
        <3>2. PICK k \in K, n \in Nat : n \in 1..m[k] /\ x = <<k, n>>
            BY <1>2, <3>1
        <3>3. n \notin 1..h[k]
            BY <1>2, <2>2, <3>2
        <3> QED
            BY <3>2, <3>3
    <2> QED
        BY <2>1, <2>2
<1>13. Toplam(h) = Cardinality(A) /\ Toplam(m) = Cardinality(M) /\ Toplam(e) = Cardinality(B)
    BY DEF Toplam, Ciftler
<1> HIDE DEF A, M, B, F, U
<1> QED
    BY <1>8, <1>10, <1>11, <1>12, <1>13

LEMMA EksikSayar ==
    ASSUME NEW n \in Int
    PROVE  Max({0, n}) = IF n > 0 THEN n ELSE 0
<1>1. ASSUME NEW x \in {0, n}, \A y \in {0, n} : x >= y PROVE x = IF n > 0 THEN n ELSE 0
    BY <1>1
<1>2. \E x \in {0, n} : \A y \in {0, n} : x >= y
    <2>1. CASE n > 0
        <3>1. \A y \in {0, n} : n >= y
            BY <2>1
        <3> QED
            BY <3>1
    <2>2. CASE ~(n > 0)
        <3>1. \A y \in {0, n} : 0 >= y
            BY <2>2
        <3> QED
            BY <3>1
    <2> QED
        BY <2>1, <2>2
<1> QED
    BY <1>1, <1>2 DEF Max

LEMMA KadroSayilir == KadroTypeOK => KadroHesabi
<1> SUFFICES ASSUME KadroTypeOK, NEW p \in Projeler
             PROVE  LET eksik == Toplam([k \in Kadrolari(p) |-> EksikSayi(k)])
                        fazla == {k \in Kadrolari(p) : MevcutSayi(k) > kadro[k].hedef}
                    IN  /\ EksikKadro(p) <= eksik
                        /\ EksikKadro(p) < eksik <=> fazla # {}
    BY DEF KadroHesabi
<1> DEFINE D == {c \in Calisanlar : calisan[c].durum \in {"aktif", "izinli"}}
           K == Kadrolari(p)
           h == [k \in K |-> kadro[k].hedef]
           m == [k \in K |-> MevcutSayi(k)]
           e == [k \in K |-> EksikSayi(k)]
<1>1. IsFiniteSet(D)
    <2>1. D \in SUBSET Calisanlar
        OBVIOUS
    <2> HIDE DEF D
    <2> QED
        BY <2>1, FS_Subset, KadroAssumption
<1>2. IsFiniteSet(K)
    <2>1. K \in SUBSET Kadrolar
        BY DEF Kadrolari
    <2> HIDE DEF K
    <2> QED
        BY <2>1, FS_Subset, KadroAssumption
<1>3. ASSUME NEW k \in K PROVE MevcutSayi(k) = Cardinality(Yerde(D, yer, k))
    <2>1. Yerde(D, yer, k) =
          {c \in Calisanlar : yer[c] = k /\ calisan[c].durum \in {"aktif", "izinli"}}
        BY DEF Yerde
    <2> QED
        BY <2>1 DEF MevcutSayi
<1>4. MevcutCalisan(p) = Cardinality(Yerlesen(D, yer, K))
    <2>1. Yerlesen(D, yer, K) =
          {c \in Calisanlar : yer[c] \in K /\ calisan[c].durum \in {"aktif", "izinli"}}
        BY DEF Yerlesen
    <2> QED
        BY <2>1 DEF MevcutCalisan
<1>5. ASSUME NEW k \in K PROVE kadro[k].hedef \in Nat
    BY KadroAssumption DEF Kadrolari, KadroTypeOK, KadroSatiri
<1>6. ASSUME NEW k \in K PROVE MevcutSayi(k) \in Nat
    <2>1. Yerde(D, yer, k) \in SUBSET D
        BY DEF Yerde
    <2>2. MevcutSayi(k) = Cardinality(Yerde(D, yer, k))
        BY <1>3
    <2> HIDE DEF D
    <2> QED
        BY <1>1, <2>1, <2>2, FS_Subset, FS_CardinalityType
<1>7. ASSUME NEW k \in K PROVE EksikSayi(k) = IF h[k] > m[k] THEN h[k] - m[k] ELSE 0
    <2>1. h[k] \in Nat /\ m[k] \in Nat /\ h[k] - m[k] \in Int
        BY <1>5, <1>6
    <2>2. EksikSayi(k) = Max({0, h[k] - m[k]})
        BY DEF EksikSayi
    <2> HIDE DEF h, m
    <2> QED
        BY <2>1, <2>2, EksikSayar
<1>8. h \in [K -> Nat] /\ m \in [K -> Nat] /\ e \in [K -> Nat]
    <2>1. \A k \in K : h[k] \in Nat /\ m[k] \in Nat
        BY <1>5, <1>6
    <2>2. \A k \in K : EksikSayi(k) \in Nat
        BY <1>7, <2>1
    <2> QED
        BY <1>5, <1>6, <2>2
<1>9. \A k \in K : m[k] = Cardinality(Yerde(D, yer, k))
    BY <1>3
<1>10. \A k \in K : e[k] = IF h[k] > m[k] THEN h[k] - m[k] ELSE 0
    BY <1>7
<1>11. {k \in K : MevcutSayi(k) > kadro[k].hedef} # {} <=> \E k \in K : m[k] > h[k]
    OBVIOUS
<1>12. EksikKadro(p) = Toplam(h) - MevcutCalisan(p)
    BY DEF EksikKadro, ToplamKadro
<1> HIDE DEF D, K, h, m, e
<1>13. Toplam(m) = MevcutCalisan(p)
    BY <1>1, <1>4, <1>8, <1>9, ToplamSayar
<1>14. /\ Toplam(h) \in Nat /\ Toplam(m) \in Nat /\ Toplam(e) \in Nat
       /\ Toplam(h) <= Toplam(m) + Toplam(e)
       /\ Toplam(h) < Toplam(m) + Toplam(e) <=> \E k \in K : m[k] > h[k]
    BY <1>2, <1>8, <1>10, ToplamAyrilir
<1>15. EksikKadro(p) <= Toplam(e) /\ (EksikKadro(p) < Toplam(e) <=> \E k \in K : m[k] > h[k])
    BY <1>12, <1>13, <1>14
<1> QED
    BY <1>11, <1>15 DEF K, e

\* The shortage shown for a project is never above that of its positions together, and
\* below it exactly if one of them has more employees than its target.
THEOREM KadroHesapli == KadroSpec => []KadroHesabi
BY KadroTipleri, KadroSayilir, PTL

-----------------------------------------------------------------------------
(* All of them together: what each part keeps of the others.               *)

\* A handler of another table has read, or ended.
LEMMA CalisanBaskaBaslar ==
    ASSUME CalisanIInv, NEW i \in Istekler, NEW r, Basla(i, r), UNCHANGED calisanVars,
           r.is \notin {"calisan_ekle", "calisan", "cikis_ekle"}
    PROVE  CalisanIInv'
<1>1. istek'[i] = r => CalisanHazir(i)'
    BY DEF CalisanHazir, EkleHazir, YazHazir, BaslatHazir
<1> QED
    BY <1>1, CalisanBaslar

LEMMA CalisanBaskaBiter ==
    ASSUME CalisanIInv, NEW i \in Istekler, Bitti(i), UNCHANGED calisanVars
    PROVE  CalisanIInv'
<1>1. CalisanIlerler /\ CalisanTypeOK' /\ KayitSahibi' /\ CikisTutarli'
    BY DEF calisanVars, CalisanIlerler, Ayrilmis, Gerceklesmis, CalisanIInv, CalisanTypeOK,
        KayitSahibi, CikisTutarli
<1> QED
    BY <1>1, CalisanBiter

\* Whoever is hired has not left, and no record of leaving is his.
LEMMA CalisanAlimAdimi ==
    ASSUME CalisanIInv, NEW i \in Istekler, NEW c \in Calisanlar, Alim(i, c),
           istek[i].tc \in Kimlikler \cup {Yok}
    PROVE  CalisanIInv'
<1> DEFINE s == YeniCalisan("aktif", istek[i].tc)
<1>1. s \in CalisanSatiri /\ ~s.ayrilma
    BY DEF YeniCalisan, CalisanSatiri, CalisanDurumu
<1> HIDE DEF s
<1>2. /\ calisan[c] = Yok
      /\ calisan'[c] = s
      /\ \A d \in Calisanlar \ {c} : calisan'[d] = calisan[d]
      /\ cikis' = cikis
    BY DEF Alim, CalisanIInv, CalisanTypeOK, s
<1>3. CalisanTypeOK'
    BY <1>1 DEF Alim, CalisanIInv, CalisanTypeOK, s
<1>4. CalisanIlerler
    BY <1>1, <1>2, CalisanSatirlari DEF CalisanIlerler, Ayrilmis, Gerceklesmis
<1>5. \A x \in Cikislar : cikis[x] # Yok => cikis[x].calisan # c
    BY <1>2 DEF CalisanIInv, KayitSahibi
<1>6. CikisTutarli'
    BY <1>1, <1>2, <1>5 DEF CikisTutarli, CalisanIInv
<1>7. KayitSahibi'
    BY <1>2, <1>4 DEF KayitSahibi, CalisanIlerler, CalisanIInv, CalisanTypeOK, CikisSatiri
<1>8. Bitti(i)
    BY DEF Alim
<1> QED
    BY <1>3, <1>4, <1>6, <1>7, <1>8, CalisanBiter

\* What was handed in stays, as TekBasvuru says.
BasvuruKalir ==
    \A a \in Adaylar :
        Sirali /\ aday[a] # Yok /\ aday[a].tamam =>
            aday'[a].tamam /\ aday'[a].icerik = aday[a].icerik

LEMMA AdayAdimiKalir == AdayAdimi => BasvuruKalir
BY DEF AdayAdimi, AdayIlerler, BasvuruKalir

LEMMA AlimBasvuruKalir ==
    ASSUME IseAlimIInv, NEW i \in Istekler, NEW c \in Calisanlar, Alim(i, c)
    PROVE  BasvuruKalir
<1> DEFINE a == istek[i].aday
           f == istek[i].fark
<1>1. istek[i].is = "alim" /\ aday' = [aday EXCEPT ![a] = Uygula(@, f)]
    BY DEF Alim
<1>2. a \in Adaylar /\ aday[a] # Yok /\ AdayFarki(f) /\ "icerik" \notin DOMAIN f
    BY <1>1 DEF IseAlimIInv, AlimHazir
<1> HIDE DEF a, f
<1>3. /\ AdayIlerler
      /\ \A b \in Adaylar : aday[b] # Yok /\ (b = a => "icerik" \notin DOMAIN f) =>
            aday'[b].icerik = aday[b].icerik
    BY <1>1, <1>2, AdayYazilir DEF IseAlimIInv, AdayIInv
<1> QED
    BY <1>2, <1>3 DEF BasvuruKalir, AdayIlerler

-----------------------------------------------------------------------------
(* All of them together: hiring, with the employees' invariant.            *)

IkiIInv == IseAlimIInv /\ CalisanIInv

IkiAdim == IkiIInv' /\ BasvuruKalir

\* The handlers of the candidates.
LEMMA IkiAdayAdimi ==
    ASSUME IkiIInv, UNCHANGED <<calisanVars, tip, evrak, dosya>>,
           \/ \E a \in Adaylar : AdayDavet(a)
           \/ \E i \in Istekler :
                (\E a \in Adaylar : KvkkOnaylaOku(i, a)) \/ AdayYaz(i) \/ AdayBirak(i)
    PROVE  IkiAdim
<1>1. IseAlimIInv'
    BY IseAlimAdayAdimi DEF IkiIInv
<1>2. BasvuruKalir
    BY AdayGirer, AdayOkuAdimi, AdayYazAdimi, AdayBirakAdimi, AdayAdimiKalir DEF IkiIInv, IseAlimIInv
<1>3. ASSUME NEW a \in Adaylar, AdayDavet(a) PROVE CalisanIInv'
    BY <1>3, CalisanDuran DEF AdayDavet, AdayEkle, IkiIInv
<1>4. ASSUME NEW i \in Istekler, NEW a \in Adaylar, KvkkOnaylaOku(i, a) PROVE CalisanIInv'
    <2>1. PICK f : AdayFarkla(i, a, f)
        BY <1>4 DEF KvkkOnaylaOku, AdayYazar
    <2> DEFINE r == [is |-> "aday", aday |-> a, fark |-> f]
    <2>2. Basla(i, r)
        BY <2>1 DEF AdayFarkla
    <2>3. r.is \notin {"calisan_ekle", "calisan", "cikis_ekle"}
        OBVIOUS
    <2> HIDE DEF r
    <2> QED
        BY <2>2, <2>3, CalisanBaskaBaslar DEF IkiIInv
<1>5. ASSUME NEW i \in Istekler, AdayYaz(i) \/ AdayBirak(i) PROVE CalisanIInv'
    BY <1>5, CalisanBaskaBiter DEF AdayYaz, AdayBirak, IkiIInv
<1> QED
    BY <1>1, <1>2, <1>3, <1>4, <1>5 DEF IkiAdim, IkiIInv

\* A handler of a document, or one that will hire, has read.
LEMMA IkiOkuAdimi ==
    ASSUME IkiIInv, IseAlimIInv', NEW i \in Istekler,
           \/ \E e \in Evraklar, d \in {"onaylandi", "reddedildi"} : EvrakKararOku(i, e, d)
           \/ \E a, tc, g, kimden : AlimYazar(i, a, tc, g, kimden)
    PROVE  IkiAdim
<1>1. \E r : Basla(i, r) /\ r.is \notin {"calisan_ekle", "calisan", "cikis_ekle"}
    <2>1. ASSUME NEW e, NEW d, EvrakKararOku(i, e, d)
          PROVE  \E r : Basla(i, r) /\ r.is \notin {"calisan_ekle", "calisan", "cikis_ekle"}
        BY <2>1 DEF EvrakKararOku
    <2>2. ASSUME NEW a, NEW tc, NEW g, NEW kimden, AlimYazar(i, a, tc, g, kimden)
          PROVE  \E r : Basla(i, r) /\ r.is \notin {"calisan_ekle", "calisan", "cikis_ekle"}
        BY <2>2 DEF AlimYazar
    <2> QED
        BY <2>1, <2>2
<1>2. UNCHANGED iseAlimVars
    BY DEF EvrakKararOku, AlimYazar
<1> QED
    BY <1>1, <1>2, CalisanBaskaBaslar DEF IkiIInv, IkiAdim, iseAlimVars, BasvuruKalir

LEMMA IkiIseAlimAdimi ==
    ASSUME IkiIInv, IseAlimNext
    PROVE  IkiAdim
<1>1. IseAlimIInv'
    BY IseAlimAdimi DEF IkiIInv
<1>2. ASSUME \/ \E v \in EvrakTipleri, z \in {"zorunlu", "istege_bagli"} : EvrakTipiEkle(v, z)
             \/ \E e \in Evraklar, a \in Adaylar, v \in EvrakTipleri : EvrakYukle(e, a, v)
      PROVE  IkiAdim
    <2>1. UNCHANGED <<aday, calisanVars, oturum>>
        BY <1>2 DEF EvrakTipiEkle, EvrakYukle
    <2> QED
        BY <1>1, <2>1, CalisanDuran DEF IkiAdim, IkiIInv, BasvuruKalir
<1>3. ASSUME NEW i \in Istekler,
             \/ \E e \in Evraklar : EvrakOnaylaOku(i, e) \/ EvrakReddetOku(i, e)
             \/ \E a \in Adaylar : DonusturOku(i, a) \/ \E tc \in Kimlikler : IseAlOku(i, a, tc)
      PROVE  IkiAdim
    BY <1>1, <1>3, IkiOkuAdimi DEF EvrakOnaylaOku, EvrakReddetOku, DonusturOku, IseAlOku
<1>4. ASSUME NEW i \in Istekler, EvrakYaz(i) \/ IseAlimBirak(i)
      PROVE  IkiAdim
    <2>1. Bitti(i) /\ UNCHANGED <<aday, calisanVars>>
        BY <1>4 DEF EvrakYaz, IseAlimBirak, iseAlimVars
    <2> QED
        BY <1>1, <2>1, CalisanBaskaBiter DEF IkiAdim, IkiIInv, BasvuruKalir
<1>5. ASSUME NEW i \in Istekler, NEW c \in Calisanlar, Alim(i, c)
      PROVE  IkiAdim
    <2>1. istek[i].tc \in Kimlikler \cup {Yok}
        BY <1>5 DEF Alim, IkiIInv, IseAlimIInv, AlimHazir
    <2> QED
        BY <1>1, <1>5, <2>1, CalisanAlimAdimi, AlimBasvuruKalir DEF IkiAdim, IkiIInv
<1> QED
    BY <1>2, <1>3, <1>4, <1>5, IkiAdayAdimi DEF IseAlimNext

\* What the part of the positions adds to hiring: candidates of the staff, and
\* employees who are edited meanwhile.
LEMMA IkiDuran ==
    ASSUME IkiIInv, UNCHANGED <<oturum, iseAlimVars>>
    PROVE  IkiAdim
<1>1. IseAlimIInv'
    BY IseAlimAdimi DEF IkiIInv
<1>2. UNCHANGED <<aday, calisanVars>>
    BY DEF iseAlimVars
<1> QED
    BY <1>1, <1>2, CalisanDuran DEF IkiAdim, IkiIInv, BasvuruKalir

LEMMA IkiKadroAday ==
    ASSUME IkiIInv, NEW k \in Kadrolar, NEW a \in Adaylar, KadroAday(k, a)
    PROVE  IkiAdim
<1>1. UNCHANGED <<calisanVars, tip, evrak, dosya, oturum>>
    BY DEF KadroAday, KadroAdayEkle, AdayDavet, AdayEkle
<1>2. AdayAdimi
    BY AdayGirer DEF KadroAday, IkiIInv, IseAlimIInv
<1>3. IseAlimTypeOK'
    BY <1>1, <1>2 DEF AdayAdimi, AdayIInv, IkiIInv, IseAlimIInv, IseAlimTypeOK, CalisanTypeOK, calisanVars
<1>4. IseAlimIInv'
    BY <1>1, <1>2, <1>3, IseAlimDurur DEF AdayAdimi, IkiIInv
<1> QED
    BY <1>1, <1>2, <1>4, CalisanDuran, AdayAdimiKalir DEF IkiAdim, IkiIInv

LEMMA IkiIseAlOku ==
    ASSUME IkiIInv, NEW i \in Istekler, NEW a \in Adaylar, IseAlOku(i, a, Yok)
    PROVE  IkiAdim
<1>1. IseAlimIInv'
    BY AlimYazarAdimi DEF IseAlOku, IkiIInv
<1> QED
    BY <1>1, IkiOkuAdimi DEF IseAlOku

LEMMA IkiDuzenleOku ==
    ASSUME IkiIInv, UNCHANGED <<aday, tip, evrak, dosya>>, NEW i \in Istekler,
           NEW c \in Calisanlar, NEW d \in CalisanDurumu, CalisanDuzenleOku(i, c, d, Yok)
    PROVE  IkiAdim
<1>1. CalisanIInv'
    BY CalisanDuzenleOkuKorur DEF IkiIInv
<1>2. PICK f : CalisanYazar(i, c, f, Yok, HicFark)
    BY DEF CalisanDuzenleOku
<1> DEFINE r == [is |-> "calisan", calisan |-> c, cfark |-> f, cikis |-> Yok, xfark |-> HicFark]
<1>3. Basla(i, r) /\ UNCHANGED iseAlimVars
    BY <1>2 DEF CalisanYazar, iseAlimVars
<1>4. istek'[i] = r => AdayHazir(i)' /\ EvrakHazir(i)' /\ AlimHazir(i)'
    BY DEF AdayHazir, EvrakHazir, AlimHazir
<1> HIDE DEF r
<1>5. AdayIInv'
    BY <1>3, <1>4, AdayBaslar DEF IkiIInv, IseAlimIInv
<1>6. IseAlimIInv'
    BY <1>3, <1>4, <1>5, IseAlimBaslar DEF IkiIInv
<1> QED
    BY <1>1, <1>6 DEF IkiAdim, IkiIInv, BasvuruKalir

LEMMA IkiCalisanYaz ==
    ASSUME IkiIInv, UNCHANGED <<aday, tip, evrak, dosya>>, NEW i \in Istekler, CalisanYaz(i)
    PROVE  IkiAdim
<1>1. CalisanIInv'
    BY CalisanYazKorur DEF IkiIInv
<1>2. istek[i].is # "bos" /\ Bitti(i)
    BY DEF CalisanYaz
<1>3. Sirali' = Sirali
    BY <1>2 DEF Bitti, Sirali
<1>4. AdayTypeOK' /\ AdayIlerler /\ EvrakIlerler
    BY DEF AdayIlerler, EvrakIlerler, IkiIInv, IseAlimIInv, AdayIInv, AdayTypeOK
<1>5. IseAlimTypeOK'
    BY <1>1, <1>4 DEF CalisanIInv, IkiIInv, IseAlimIInv, IseAlimTypeOK
<1>6. AdayIInv'
    BY <1>2, <1>4, AdayBiter DEF IkiIInv, IseAlimIInv
<1>7. IseAlimIInv'
    BY <1>2, <1>3, <1>4, <1>5, <1>6, DosyaKalir, IseAlimBiter DEF IkiIInv
<1> QED
    BY <1>1, <1>7 DEF IkiAdim, IkiIInv, BasvuruKalir

LEMMA IkiKadroAdimi ==
    ASSUME IkiIInv, KadroNext
    PROVE  IkiAdim
<1>1. ASSUME \/ TohumProje
             \/ \E m \in Musteriler :
                  MusteriEkle(m) \/ \E p \in Projeler : ProjeEkle(p, m) \/ ProjeDuzenle(p, m)
             \/ \E k \in Kadrolar, h \in 0..MaxHedef :
                  KadroDuzenle(k, h) \/ \E p \in Projeler : KadroEkle(k, p, h)
      PROVE  IkiAdim
    <2>1. UNCHANGED <<oturum, iseAlimVars>>
        BY <1>1 DEF TohumProje, MusteriEkle, ProjeEkle, ProjeDuzenle, ProjeYaz, KadroDuzenle, KadroEkle
    <2> QED
        BY <2>1, IkiDuran
<1>2. ASSUME NEW i \in Istekler,
             \/ \E a \in Adaylar :
                  KvkkOnaylaOku(i, a) /\ UNCHANGED <<calisanVars, tip, evrak, dosya>>
             \/ AdayYaz(i) /\ UNCHANGED <<calisanVars, tip, evrak, dosya>>
             \/ \E a \in Adaylar : DonusturOku(i, a)
             \/ \E c \in Calisanlar : KadroAlim(i, c)
             \/ IseAlimBirak(i)
      PROVE  IkiAdim
    <2>1. IseAlimNext
        BY <1>2 DEF KadroAlim, IseAlimNext
    <2> QED
        BY <2>1, IkiIseAlimAdimi
<1>3. {"izinli", "ayrildi"} \subseteq CalisanDurumu
    BY DEF CalisanDurumu
<1> QED
    BY <1>1, <1>2, <1>3, IkiKadroAday, IkiIseAlOku, IkiDuzenleOku, IkiCalisanYaz DEF KadroNext

-----------------------------------------------------------------------------
(* All of them together: the invariant.  A behaviour stays with one part,  *)
(* and what is not of that part stays as Init says.                        *)

BelgeInit ==
    /\ tip = [v \in EvrakTipleri |-> "yok"]
    /\ evrak = [e \in Evraklar |-> Yok]
    /\ dosya = [c \in Calisanlar |-> [kopya |-> {}, gereken |-> {}, aday |-> Yok]]

KodInit ==
    /\ otp = [a \in Adaylar |-> [kod |-> 0, gecerli |-> FALSE, deneme |-> 0,
                                 dogrulandi |-> FALSE, yanlis |-> 0]]
    /\ gonderilen = [a \in Adaylar |-> 0]

PersonelIInv ==
    /\ kapsam \in {"aday", "sicil", "cikis", "alim", "otp", "kadro", "hesap", "rol", "bag"}
    /\ kapsam = "aday" => AdayIInv
    /\ kapsam \in {"sicil", "cikis"} => CalisanIInv
    /\ kapsam \in {"alim", "kadro"} => IkiIInv
    /\ kapsam = "kadro" => KadroIInv
    /\ kapsam = "otp" => DogrulamaIInv
    /\ kapsam \in {"hesap", "rol", "bag"} => YetkiIInv
    /\ kapsam \in {"sicil", "cikis", "hesap", "rol", "bag"} => AdayInit
    /\ kapsam \in {"aday", "otp", "hesap", "rol", "bag"} => CalisanInit
    /\ kapsam \notin {"alim", "kadro"} => BelgeInit
    /\ kapsam # "kadro" => KadroInit
    /\ kapsam # "otp" => KodInit
    /\ kapsam \notin {"hesap", "rol", "bag"} => YetkiInit

PersonelAdimi ==
    /\ PersonelIInv'
    /\ aday' # aday => BasvuruKalir
    /\ kullanici' # kullanici => YoneticiAdimi

LEMMA PersonelBaslangic == Init => PersonelIInv
<1> SUFFICES ASSUME Init PROVE PersonelIInv
    OBVIOUS
<1>1. AdayInit /\ CalisanInit /\ BelgeInit /\ KodInit
    BY DEF Init, IseAlimInit, DogrulamaInit, BelgeInit, KodInit
<1>2. AdayIInv /\ CalisanIInv /\ IkiIInv /\ KadroIInv /\ DogrulamaIInv /\ YetkiIInv
    BY <1>1, AdayBaslangic, CalisanBaslangic, IseAlimBaslangic, KadroBaslangic,
       DogrulamaBaslangic, YetkiBaslangic DEF Init, IkiIInv
<1> QED
    BY <1>1, <1>2 DEF Init, PersonelIInv

LEMMA PersonelAdayAdimi ==
    ASSUME PersonelIInv, UNCHANGED kapsam, kapsam = "aday", AdayNext,
           UNCHANGED <<iseAlimKalan, kadroVars, otpVars, yetkiVars>>
    PROVE  PersonelAdimi
<1>1. AdayIInv' /\ BasvuruKalir
    BY AdayNextAdimi, AdayAdimiKalir DEF PersonelIInv, AdayAdimi
<1>2. CalisanInit' /\ BelgeInit'
    BY DEF PersonelIInv, iseAlimKalan, calisanVars, CalisanInit, BelgeInit
<1>3. KadroInit' /\ KodInit' /\ YetkiInit' /\ kullanici' = kullanici
    BY DEF PersonelIInv, kadroVars, otpVars, yetkiVars, KadroInit, KodInit, YetkiInit
<1> QED
    BY <1>1, <1>2, <1>3 DEF PersonelIInv, PersonelAdimi

LEMMA PersonelCalisanAdimi ==
    ASSUME PersonelIInv, UNCHANGED kapsam, kapsam \in {"sicil", "cikis"}, SicilNext \/ CikisNext,
           UNCHANGED <<aday, tip, evrak, dosya, kadroVars, otpVars, yetkiVars>>
    PROVE  PersonelAdimi
<1>1. CalisanIInv'
    BY CalisanAdim DEF PersonelIInv, CalisanNext
<1>2. AdayInit' /\ BelgeInit' /\ aday' = aday
    BY DEF PersonelIInv, AdayInit, BelgeInit
<1>3. KadroInit' /\ KodInit' /\ YetkiInit' /\ kullanici' = kullanici
    BY DEF PersonelIInv, kadroVars, otpVars, yetkiVars, KadroInit, KodInit, YetkiInit
<1> QED
    BY <1>1, <1>2, <1>3 DEF PersonelIInv, PersonelAdimi

LEMMA PersonelIseAlimAdimi ==
    ASSUME PersonelIInv, UNCHANGED kapsam, kapsam = "alim", IseAlimNext,
           UNCHANGED <<kadroVars, otpVars, yetkiVars>>
    PROVE  PersonelAdimi
<1>1. IkiIInv' /\ BasvuruKalir
    BY IkiIseAlimAdimi DEF PersonelIInv, IkiAdim
<1>2. KadroInit' /\ KodInit' /\ YetkiInit' /\ kullanici' = kullanici
    BY DEF PersonelIInv, kadroVars, otpVars, yetkiVars, KadroInit, KodInit, YetkiInit
<1> QED
    BY <1>1, <1>2 DEF PersonelIInv, PersonelAdimi

LEMMA PersonelKadroAdimi ==
    ASSUME PersonelIInv, UNCHANGED kapsam, kapsam = "kadro", KadroNext,
           UNCHANGED <<otpVars, yetkiVars>>
    PROVE  PersonelAdimi
<1>1. IkiIInv' /\ BasvuruKalir
    BY IkiKadroAdimi DEF PersonelIInv, IkiAdim
<1>2. KadroIInv'
    BY KadroAdimi DEF PersonelIInv
<1>3. KodInit' /\ YetkiInit' /\ kullanici' = kullanici
    BY DEF PersonelIInv, otpVars, yetkiVars, KodInit, YetkiInit
<1> QED
    BY <1>1, <1>2, <1>3 DEF PersonelIInv, PersonelAdimi

\* Only the steps that enter a candidate or let a link expire change candidates here.
LEMMA KodBasvuruKalir ==
    ASSUME AdayIInv, DogrulamaNext, aday' # aday
    PROVE  BasvuruKalir
<1>1. CASE \E a \in Adaylar : AdayDavet(a) \/ KariyerKvkk(a) \/ LinkSuresi(a)
    BY <1>1, AdayGirer, LinkSuresiAdimi, AdayAdimiKalir
<1>2. CASE (\E a \in Adaylar : KodSuresi(a))
           \/ \E i \in Istekler :
                \/ \E a \in Adaylar :
                     \/ KodGonderOku(i, a)
                     \/ KodTekrarOku(i, a)
                     \/ \E dogru \in BOOLEAN : DogrulaOku(i, a, dogru)
                \/ KodYaz(i)
                \/ DogrulamaBirak(i)
    BY <1>2 DEF KodSuresi, KodGonderOku, KodTekrarOku, KodOku, DogrulaOku, KodYaz, DogrulamaBirak,
        dogrulamaVars
<1> QED
    BY <1>1, <1>2 DEF DogrulamaNext

LEMMA PersonelKodAdimi ==
    ASSUME PersonelIInv, UNCHANGED kapsam, kapsam = "otp", DogrulamaNext,
           UNCHANGED <<iseAlimKalan, kadroVars, yetkiVars>>
    PROVE  PersonelAdimi
<1>1. DogrulamaIInv'
    BY DogrulamaAdimi DEF PersonelIInv
<1>2. aday' # aday => BasvuruKalir
    BY KodBasvuruKalir DEF PersonelIInv, DogrulamaIInv
<1>3. CalisanInit' /\ BelgeInit'
    BY DEF PersonelIInv, iseAlimKalan, calisanVars, CalisanInit, BelgeInit
<1>4. KadroInit' /\ YetkiInit' /\ kullanici' = kullanici
    BY DEF PersonelIInv, kadroVars, yetkiVars, KadroInit, YetkiInit
<1> QED
    BY <1>1, <1>2, <1>3, <1>4 DEF PersonelIInv, PersonelAdimi

LEMMA PersonelYetkiAdimi ==
    ASSUME PersonelIInv, UNCHANGED kapsam, kapsam \in {"hesap", "rol", "bag"},
           HesapNext \/ RolNext \/ BagNext, UNCHANGED <<iseAlimVars, kadroVars, otpVars>>
    PROVE  PersonelAdimi
<1>1. YetkiIInv' /\ (kullanici' # kullanici => YoneticiAdimi)
    BY HesapAdimi, RolAdimi, BagAdimi DEF PersonelIInv, YetkiAdimi
<1>2. AdayInit' /\ CalisanInit' /\ BelgeInit' /\ aday' = aday
    BY DEF PersonelIInv, iseAlimVars, calisanVars, AdayInit, CalisanInit, BelgeInit
<1>3. KadroInit' /\ KodInit'
    BY DEF PersonelIInv, kadroVars, otpVars, KadroInit, KodInit
<1> QED
    BY <1>1, <1>2, <1>3 DEF PersonelIInv, PersonelAdimi

LEMMA PersonelDuran ==
    ASSUME PersonelIInv, UNCHANGED vars
    PROVE  PersonelAdimi
<1>1. UNCHANGED <<kapsam, oturum, aday, calisanVars, tip, evrak, dosya, kullanici>>
    BY DEF vars, iseAlimVars, yetkiVars
<1>2. UNCHANGED <<oturum, iseAlimVars, kadroVars, otpVars, yetkiVars>>
    BY DEF vars
<1>3. AdayIInv => AdayIInv'
    BY <1>1, AdayDurur DEF AdayIInv, AdayTypeOK
<1>4. (CalisanIInv => CalisanIInv') /\ (IkiIInv => IkiIInv')
    BY <1>1, <1>2, CalisanDuran, IkiDuran DEF IkiAdim
<1>5. (KadroIInv => KadroIInv') /\ (YetkiIInv => YetkiIInv')
    BY <1>2, KadroAdimi, YetkiNextAdimi DEF YetkiAdimi
<1>6. DogrulamaIInv => DogrulamaIInv'
    BY <1>1, <1>2, DogrulamaAdimi DEF dogrulamaVars, otpVars
<1>7. (AdayInit => AdayInit') /\ (CalisanInit => CalisanInit') /\ (BelgeInit => BelgeInit')
    BY <1>1 DEF calisanVars, AdayInit, CalisanInit, BelgeInit
<1>8. (KadroInit => KadroInit') /\ (KodInit => KodInit') /\ (YetkiInit => YetkiInit')
    BY <1>2 DEF kadroVars, otpVars, yetkiVars, KadroInit, KodInit, YetkiInit
<1> QED
    BY <1>1, <1>3, <1>4, <1>5, <1>6, <1>7, <1>8 DEF PersonelIInv, PersonelAdimi

LEMMA PersonelNextAdimi == PersonelIInv /\ [Next]_vars => PersonelAdimi
<1> SUFFICES ASSUME PersonelIInv, [Next]_vars PROVE PersonelAdimi
    OBVIOUS
<1> QED
    BY PersonelAdayAdimi, PersonelCalisanAdimi, PersonelIseAlimAdimi, PersonelKadroAdimi,
       PersonelKodAdimi, PersonelYetkiAdimi, PersonelDuran DEF Next

-----------------------------------------------------------------------------
(* All of them together: the theorems.                                     *)

LEMMA PersonelTipi == PersonelIInv => TypeOK
<1> SUFFICES ASSUME PersonelIInv PROVE TypeOK
    OBVIOUS
<1>1. AdayTypeOK
    BY DEF PersonelIInv, IkiIInv, IseAlimIInv, DogrulamaIInv, AdayIInv, AdayInit, AdayTypeOK
<1>2. CalisanTypeOK
    BY DEF PersonelIInv, IkiIInv, CalisanIInv, CalisanInit, CalisanTypeOK
<1>3. IseAlimTypeOK
    BY <1>1, <1>2 DEF PersonelIInv, IkiIInv, IseAlimIInv, BelgeInit, IseAlimTypeOK, DosyaSatiri
<1>4. DogrulamaTypeOK
    <2>1. [kod |-> 0, gecerli |-> FALSE, deneme |-> 0, dogrulandi |-> FALSE, yanlis |-> 0] \in KodSatiri
        BY DogrulamaAssumption DEF KodSatiri, DenemeHakki
    <2>2. ASSUME KodInit PROVE DogrulamaTypeOK
        BY <1>1, <2>1, <2>2, DogrulamaAssumption DEF KodInit, DogrulamaTypeOK
    <2> QED
        BY <2>2 DEF PersonelIInv, DogrulamaIInv
<1>5. KadroTypeOK
    BY DEF PersonelIInv, KadroIInv, KadroInit, KadroTypeOK
<1>6. YetkiTypeOK
    BY DEF PersonelIInv, YetkiIInv, YetkiInit, YetkiTypeOK, Kayitli
<1> QED
    BY <1>3, <1>4, <1>5, <1>6 DEF TypeOK

LEMMA PersonelGuvenli == PersonelIInv => DosyaTam /\ CikisTutarli /\ DenemeSiniri /\ KadroHesabi
<1> SUFFICES ASSUME PersonelIInv PROVE DosyaTam /\ CikisTutarli /\ DenemeSiniri /\ KadroHesabi
    OBVIOUS
<1>1. DosyaTam
    BY DEF PersonelIInv, IkiIInv, IseAlimIInv, BelgeInit, DosyaTam
<1>2. CikisTutarli
    BY DEF PersonelIInv, IkiIInv, CalisanIInv, CalisanInit, CikisTutarli
<1>3. DenemeSiniri
    <2>1. ASSUME KodInit PROVE DenemeSiniri
        BY <2>1 DEF KodInit, DenemeSiniri, DenemeHakki
    <2> QED
        BY <2>1, DenemeYeter DEF PersonelIInv
<1>4. KadroHesabi
    BY PersonelTipi, KadroSayilir DEF TypeOK
<1> QED
    BY <1>1, <1>2, <1>3, <1>4

\* Taken together, candidates, employees, documents, positions, codes, users, roles and
\* permissions have the columns and values the code gives them: no module's handler
\* writes to another's rows what that module does not know.
THEOREM PersonelTipleri == Spec => []TypeOK
<1>1. PersonelIInv /\ [Next]_vars => PersonelIInv'
    BY PersonelNextAdimi DEF PersonelAdimi
<1> QED
    BY <1>1, PersonelBaslangic, PersonelTipi, PTL DEF Spec

\* The file of whoever is hired, the records of leaving, the tries of a code and the
\* counts of a project keep their promises in whichever part of the portal works, also
\* where hiring meets the candidates', the employees' and the projects' handlers.
THEOREM PersonelGuvenligi == Spec => [](DosyaTam /\ CikisTutarli /\ DenemeSiniri /\ KadroHesabi)
<1>1. PersonelIInv /\ [Next]_vars => PersonelIInv'
    BY PersonelNextAdimi DEF PersonelAdimi
<1> QED
    BY <1>1, PersonelBaslangic, PersonelGuvenli, PTL DEF Spec

\* With one thread, what an applicant handed in survives hiring, verification and the
\* projects' steps as well as the candidates' own.
THEOREM PersonelBasvurusu == Spec => TekBasvuru
<1>1. PersonelIInv /\ [Next]_vars => PersonelIInv' /\ [BasvuruKalir]_aday
    BY PersonelNextAdimi DEF PersonelAdimi
<1> QED
    BY <1>1, PersonelBaslangic, PTL DEF Spec, TekBasvuru, BasvuruKalir

\* The last administrator is kept in the portal as a whole.
THEOREM PersonelYoneticisi == Spec => YoneticiKalir
<1>1. PersonelIInv /\ [Next]_vars => PersonelIInv' /\ [YoneticiAdimi]_kullanici
    BY PersonelNextAdimi DEF PersonelAdimi
<1> QED
    BY <1>1, PersonelBaslangic, PTL DEF Spec, YoneticiKalir, YoneticiAdimi

=============================================================================
