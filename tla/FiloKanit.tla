------------------------------ MODULE FiloKanit -----------------------------
(***************************************************************************)
(* Proofs about Arac and AracOlay, for any number of vehicles, employees,  *)
(* receipts, events and threads: what the vehicles' rows, their histories  *)
(* and the records of accidents and fines say about each other.            *)
(***************************************************************************)
EXTENDS AracOlay, FiniteSetTheorems, TLAPS

-----------------------------------------------------------------------------
(* The inductive invariant.                                                *)

AracFarki(f) ==
    /\ DOMAIN f \subseteq {"silindi", "sahip", "proje", "km"}
    /\ "silindi" \in DOMAIN f => f["silindi"] \in BOOLEAN
    /\ "sahip" \in DOMAIN f => f["sahip"] \in Kisi
    /\ "proje" \in DOMAIN f => f["proje"] \in Projeler \cup {Yok}
    /\ "km" \in DOMAIN f => f["km"] \in Km

Sonra(s, f, k) == IF k \in DOMAIN f THEN f[k] ELSE s[k]

\* Columns f do to the row s what the entry g says.
Uyar(s, f, g) ==
    /\ g = Yok => "sahip" \notin DOMAIN f /\ "km" \notin DOMAIN f
    /\ g # Yok /\ g.islem = "kullanim" =>
         /\ "sahip" \notin DOMAIN f
         /\ Sonra(s, f, "km") = IF g.km > s.km THEN g.km ELSE s.km
    /\ g # Yok /\ g.islem # "kullanim" =>
         /\ Sonra(s, f, "sahip") = g.alan
         /\ Sonra(s, f, "km") = g.km

\* A thread that will write to a vehicle: it enters the holder in the history too, and
\* whom it enters as the giver is there; with one thread its copy is still the row.
AracHazir(i) ==
    istek[i].is = "arac" =>
        LET a == istek[i].arac
            f == istek[i].fark
            g == istek[i].kayit
        IN  /\ a \in Araclar
            /\ arac[a] # Yok
            /\ AracFarki(f)
            /\ g \in GecmisSatiri \cup {Yok}
            /\ "sahip" \in DOMAIN f /\ f["sahip"] # Yok => g # Yok /\ g.alan = f["sahip"]
            /\ g # Yok /\ g.eden # Yok => SahipOldu(a, g.eden, Len(gecmis[a]))
            /\ istek[i].fis \in Fisler \cup {Yok}
            /\ Sirali => Uyar(arac[a], f, g)

\* A thread that imports: of a receipt that its row shows as it is, one row at most.
ImportHazir(i) ==
    istek[i].is = "import" =>
        /\ istek[i] = [is |-> "import", bekleyen |-> istek[i].bekleyen]
        /\ istek[i].bekleyen \in [Araclar -> [Fisler -> Nat]]
        /\ \A a \in Araclar, f \in Fisler :
             Saklanan[f] = f => istek[i].bekleyen[a][f] \in {0, 1}

\* A row of an accident, a fine or a replacement.
OlayBicimi(s) == s \in KazaSatiri \cup CezaSatiri \cup IkameSatiri

\* What a handler may write to one: never whom it is about.
OlayFarki(f) ==
    /\ DOMAIN f \subseteq {"onay", "onaylayan", "neden", "odendi", "yansitildi", "iade"}
    /\ "onay" \in DOMAIN f => f["onay"] \in {"bekliyor", "onaylandi", "reddedildi"}
    /\ \A k \in {"onaylayan", "neden"} : k \in DOMAIN f => f[k] \in Kullanicilar \cup {Yok}
    /\ \A k \in {"odendi", "yansitildi", "iade"} : k \in DOMAIN f => f[k] \in BOOLEAN

SurucuBelli(s) ==
    \/ s.tur = "ikame"
    \/ s.surucu = s.form
    \/ SahipOldu(s.arac, s.surucu, Len(gecmis[s.arac]))

OlayEkleHazir(i) ==
    istek[i].is = "olay_ekle" =>
        /\ istek[i].olay \in Olaylar
        /\ OlayBicimi(istek[i].satir)
        /\ SurucuBelli(istek[i].satir)

OlayHazir(i) ==
    istek[i].is = "olay" =>
        /\ istek[i].olay \in Olaylar
        /\ OlayBicimi(olay[istek[i].olay])
        /\ SurucuBelli(olay[istek[i].olay])
        /\ OlayFarki(istek[i].fark)

Hazir(i) == AracHazir(i) /\ ImportHazir(i) /\ OlayEkleHazir(i) /\ OlayHazir(i)

IstekTuru ==
    /\ isci \subseteq Istekler
    /\ istek = [i \in Istekler |-> istek[i]]
    /\ \A i \in Istekler : istek[i] # Bos => i \in isci

GecmissizYok == \A a \in Araclar : arac[a] = Yok => gecmis[a] = << >>

SahipGecmiste ==
    \A a \in Araclar : arac[a] # Yok /\ arac[a].sahip # Yok =>
        SahipOldu(a, arac[a].sahip, Len(gecmis[a]))

OlayTuru ==
    /\ olay = [o \in Olaylar |-> olay[o]]
    /\ \A o \in Olaylar : olay[o] # Yok => OlayBicimi(olay[o])

\* What holds of the rows.
SatirInv ==
    /\ AracTypeOK
    /\ OlayTuru
    /\ GecmissizYok
    /\ SahipGecmiste
    /\ KisiTasimisti
    /\ AracGecmisten

\* The threads that have inserted receipt f for vehicle a and not committed.
Aktaranlar(a, f) ==
    {i \in isci : istek[i].is = "import" /\ istek[i].bekleyen[a][f] > 0}

\* Every imported row of a receipt, committed or not, is due to a thread of its own: a
\* thread inserts one only when it sees none, and from then on all threads see it or have
\* already inserted theirs.
FisSayisi ==
    \A a \in Araclar, f \in Fisler :
        Saklanan[f] = f => fis[a][f].excel + Cardinality(Aktaranlar(a, f)) <= Cardinality(isci)

FiloIInv ==
    /\ SatirInv
    /\ IstekTuru
    /\ FisSayisi
    /\ \A i \in Istekler : Hazir(i)

-----------------------------------------------------------------------------
(* Rows and the columns written to them.                                   *)

LEMMA AracSatirlari ==
    ASSUME NEW s \in AracSatiri
    PROVE  /\ s # Yok
           /\ DOMAIN s = {"silindi", "sahip", "proje", "km"}
           /\ s.silindi \in BOOLEAN
           /\ s.sahip \in Kisi
           /\ s.proje \in Projeler \cup {Yok}
           /\ s.km \in Km
           /\ s.km \in Nat
BY AracAssumption DEF AracSatiri, Km

LEMMA GecmisSatirlari ==
    ASSUME NEW g \in GecmisSatiri
    PROVE  /\ g # Yok
           /\ g.islem \in {"form", "teslim", "iade", "kullanim"}
           /\ g.alan \in Kisi
           /\ g.eden \in Kisi
           /\ g.km \in Km
           /\ g.km \in Nat
BY AracAssumption DEF GecmisSatiri, Km

\* Writing columns leaves the row well formed.
LEMMA AracUygula ==
    ASSUME NEW s \in AracSatiri, NEW f, AracFarki(f)
    PROVE  /\ Uygula(s, f) \in AracSatiri
           /\ Uygula(s, f).sahip = Sonra(s, f, "sahip")
           /\ Uygula(s, f).km = Sonra(s, f, "km")
<1> DEFINE u == Uygula(s, f)
<1>1. /\ DOMAIN u = {"silindi", "sahip", "proje", "km"}
      /\ u["silindi"] = Sonra(s, f, "silindi")
      /\ u["sahip"] = Sonra(s, f, "sahip")
      /\ u["proje"] = Sonra(s, f, "proje")
      /\ u["km"] = Sonra(s, f, "km")
    BY AracSatirlari DEF Uygula, Sonra
<1>2. u = [silindi |-> u["silindi"], sahip |-> u["sahip"], proje |-> u["proje"], km |-> u["km"]]
    BY <1>1 DEF Uygula
<1>3. u \in AracSatiri
    BY <1>1, <1>2, AracSatirlari DEF AracFarki, Sonra, AracSatiri
<1> QED
    BY <1>1, <1>3

LEMMA OlaySatirlari ==
    ASSUME NEW s, OlayBicimi(s)
    PROVE  /\ s.arac \in Araclar
           /\ s.tur = "kaza" => s \in KazaSatiri
           /\ s.tur = "ceza" => s \in CezaSatiri
           /\ s.tur = "ikame" => s \in IkameSatiri
           /\ s.tur \in {"kaza", "ceza", "ikame"}
BY DEF OlayBicimi, KazaSatiri, CezaSatiri, IkameSatiri

\* The same for the columns of an event that its handlers write.
LEMMA OlayUygula ==
    ASSUME NEW s, OlayBicimi(s), NEW f, OlayFarki(f)
    PROVE  /\ OlayBicimi(Uygula(s, f))
           /\ SurucuBelli(s) => SurucuBelli(Uygula(s, f))
<1> DEFINE u == Uygula(s, f)
<1>1. /\ DOMAIN u = DOMAIN s
      /\ \A k \in DOMAIN s : u[k] = IF k \in DOMAIN f THEN f[k] ELSE s[k]
      /\ u = [k \in DOMAIN s |-> u[k]]
    BY DEF Uygula
<1> HIDE DEF u
<1>2. CASE s \in KazaSatiri
    <2>1. /\ DOMAIN s = {"tur", "arac", "surucu", "form", "onay", "onaylayan", "neden"}
          /\ s["tur"] = "kaza" /\ s["arac"] \in Araclar /\ s["surucu"] \in Kisi
          /\ s["form"] \in Kisi /\ s["onay"] \in {"bekliyor", "onaylandi", "reddedildi"}
          /\ s["onaylayan"] \in Kullanicilar \cup {Yok} /\ s["neden"] \in Kullanicilar \cup {Yok}
        BY <1>2 DEF KazaSatiri
    <2>2. u = [tur |-> u["tur"], arac |-> u["arac"], surucu |-> u["surucu"], form |-> u["form"],
               onay |-> u["onay"], onaylayan |-> u["onaylayan"], neden |-> u["neden"]]
        BY <1>1, <2>1
    <2>3. /\ u["tur"] = s["tur"] /\ u["arac"] = s["arac"]
          /\ u["surucu"] = s["surucu"] /\ u["form"] = s["form"]
          /\ u["onay"] \in {"bekliyor", "onaylandi", "reddedildi"}
          /\ u["onaylayan"] \in Kullanicilar \cup {Yok} /\ u["neden"] \in Kullanicilar \cup {Yok}
        BY <1>1, <2>1 DEF OlayFarki
    <2>4. u \in KazaSatiri
        BY <2>1, <2>2, <2>3 DEF KazaSatiri
    <2> QED
        BY <2>3, <2>4 DEF OlayBicimi, SurucuBelli, u
<1>3. CASE s \in CezaSatiri
    <2>1. /\ DOMAIN s = {"tur", "arac", "surucu", "form", "odendi", "yansitildi"}
          /\ s["tur"] = "ceza" /\ s["arac"] \in Araclar /\ s["surucu"] \in Kisi
          /\ s["form"] \in Kisi /\ s["odendi"] \in BOOLEAN /\ s["yansitildi"] \in BOOLEAN
        BY <1>3 DEF CezaSatiri
    <2>2. u = [tur |-> u["tur"], arac |-> u["arac"], surucu |-> u["surucu"], form |-> u["form"],
               odendi |-> u["odendi"], yansitildi |-> u["yansitildi"]]
        BY <1>1, <2>1
    <2>3. /\ u["tur"] = s["tur"] /\ u["arac"] = s["arac"]
          /\ u["surucu"] = s["surucu"] /\ u["form"] = s["form"]
          /\ u["odendi"] \in BOOLEAN /\ u["yansitildi"] \in BOOLEAN
        BY <1>1, <2>1 DEF OlayFarki
    <2>4. u \in CezaSatiri
        BY <2>1, <2>2, <2>3 DEF CezaSatiri
    <2> QED
        BY <2>3, <2>4 DEF OlayBicimi, SurucuBelli, u
<1>4. CASE s \in IkameSatiri
    <2>1. DOMAIN s = {"tur", "arac", "iade"} /\ s["tur"] = "ikame" /\ s["arac"] \in Araclar
          /\ s["iade"] \in BOOLEAN
        BY <1>4 DEF IkameSatiri
    <2>2. u = [tur |-> u["tur"], arac |-> u["arac"], iade |-> u["iade"]]
        BY <1>1, <2>1
    <2>3. u["tur"] = s["tur"] /\ u["arac"] = s["arac"] /\ u["iade"] \in BOOLEAN
        BY <1>1, <2>1 DEF OlayFarki
    <2>4. u \in IkameSatiri
        BY <2>1, <2>2, <2>3 DEF IkameSatiri
    <2> QED
        BY <2>1, <2>3, <2>4 DEF OlayBicimi, SurucuBelli, u
<1> QED
    BY <1>2, <1>3, <1>4 DEF OlayBicimi

LEMMA OlayFarkOlur ==
    ASSUME NEW s, NEW y, DOMAIN y = DOMAIN s, OlayBicimi(y),
           \A k \in {"tur", "arac", "surucu", "form"} : k \in DOMAIN y => y[k] = s[k]
    PROVE  OlayFarki(Fark(s, y))
<1> DEFINE f == Fark(s, y)
<1>1. /\ DOMAIN f \subseteq DOMAIN y
      /\ \A k \in DOMAIN f : f[k] = y[k] /\ y[k] # s[k]
    BY DEF Fark
<1> HIDE DEF f
<1>2. DOMAIN f \cap {"tur", "arac", "surucu", "form"} = {}
    BY <1>1
<1>3. OlayFarki(f)
    BY <1>1, <1>2 DEF OlayFarki, OlayBicimi, KazaSatiri, CezaSatiri, IkameSatiri
<1> QED
    BY <1>3 DEF f

-----------------------------------------------------------------------------
(* What all steps have in common.                                          *)

\* Vehicles are kept, and entries are only added to their histories; an event that
\* changes still says whom it is about.
Ilerler ==
    /\ isci' = isci
    /\ \A o \in Olaylar :
         olay'[o] = olay[o] \/ (OlayBicimi(olay[o])' /\ SurucuBelli(olay[o])')
    /\ \A a \in Araclar :
         /\ arac[a] # Yok => arac'[a] # Yok
         /\ Len(gecmis[a]) <= Len(gecmis[a])'
         /\ \A k \in DOMAIN gecmis[a] : k \in DOMAIN gecmis[a]' /\ gecmis'[a][k] = gecmis[a][k]

\* What a waiting handler has read is still so.
KopyaKalir ==
    /\ \A a \in Araclar : arac[a] # Yok =>
         arac'[a].sahip = arac[a].sahip /\ arac'[a].km = arac[a].km

LEMMA SahipKalir ==
    ASSUME Ilerler, NEW a \in Araclar, NEW c, NEW k, NEW m,
           SahipOldu(a, c, k), \A j \in DOMAIN gecmis[a] : j <= k => j <= m
    PROVE  SahipOldu(a, c, m)'
BY DEF Ilerler, SahipOldu

LEMMA GecmisUzunluk ==
    ASSUME AracTypeOK, NEW a \in Araclar
    PROVE  /\ gecmis[a] \in Seq(GecmisSatiri)
           /\ Len(gecmis[a]) \in Nat
           /\ DOMAIN gecmis[a] = 1..Len(gecmis[a])
           /\ arac[a] # Yok => arac[a] \in AracSatiri
BY DEF AracTypeOK

LEMMA SurucuKalir ==
    ASSUME AracTypeOK, AracTypeOK', Ilerler, NEW s, OlayBicimi(s), SurucuBelli(s)
    PROVE  SurucuBelli(s)'
<1>1. s.arac \in Araclar
    BY OlaySatirlari
<1>2. /\ DOMAIN gecmis[s.arac] = 1..Len(gecmis[s.arac])
      /\ Len(gecmis[s.arac]) \in Nat
      /\ DOMAIN gecmis'[s.arac] = 1..Len(gecmis'[s.arac])
      /\ Len(gecmis'[s.arac]) \in Nat
      /\ Len(gecmis[s.arac]) <= Len(gecmis'[s.arac])
    BY <1>1 DEF AracTypeOK, Ilerler
<1> QED
    BY <1>1, <1>2 DEF SurucuBelli, SahipOldu, Ilerler

LEMMA HazirKalir ==
    ASSUME AracTypeOK, AracTypeOK', Ilerler, NEW j \in Istekler, Hazir(j), istek'[j] = istek[j],
           Sirali /\ istek[j] # Bos => KopyaKalir
    PROVE  Hazir(j)'
<1>1. Sirali' <=> Sirali
    BY DEF Sirali, Ilerler
<1>2. istek[j].is # "bos" => istek[j] # Bos
    BY DEF Bos
<1>3. AracHazir(j)'
    <2>1. ASSUME istek[j].is = "arac"
          PROVE  AracHazir(j)'
        <3> PICK a \in Araclar : a = istek[j].arac
            BY <2>1 DEF Hazir, AracHazir
        <3> DEFINE f == istek[j].fark
                   g == istek[j].kayit
        <3>1. /\ arac[a] # Yok
              /\ AracFarki(f)
              /\ g \in GecmisSatiri \cup {Yok}
              /\ "sahip" \in DOMAIN f /\ f["sahip"] # Yok => g # Yok /\ g.alan = f["sahip"]
              /\ g # Yok /\ g.eden # Yok => SahipOldu(a, g.eden, Len(gecmis[a]))
              /\ istek[j].fis \in Fisler \cup {Yok}
              /\ Sirali => Uyar(arac[a], f, g)
            BY <2>1 DEF Hazir, AracHazir
        <3>2. arac'[a] # Yok
            BY <3>1 DEF Ilerler
        <3>3. g # Yok /\ g.eden # Yok => SahipOldu(a, g.eden, Len(gecmis[a]))'
            <4>1. \A k \in DOMAIN gecmis[a] :
                      k <= Len(gecmis[a]) => k <= Len(gecmis'[a])
                BY DEF AracTypeOK, Ilerler
            <4>2. istek'[j].kayit = istek[j].kayit
                OBVIOUS
            <4> QED
                BY <3>1, <4>1, <4>2 DEF SahipOldu, Ilerler, AracTypeOK
        <3>4. Sirali => Uyar(arac'[a], f, g)
            <4>1. Sirali => arac'[a].sahip = arac[a].sahip /\ arac'[a].km = arac[a].km
                BY <3>1, <2>1, <1>2 DEF KopyaKalir
            <4> HIDE DEF f, g
            <4> QED
                BY <3>1, <4>1 DEF Uyar, Sonra
        <3> QED
            BY <1>1, <3>1, <3>2, <3>3, <3>4 DEF AracHazir
    <2> QED
        BY <2>1 DEF AracHazir
<1>4. ImportHazir(j)'
    BY DEF Hazir, ImportHazir
<1>5. OlayEkleHazir(j)'
    <2>1. ASSUME istek[j].is = "olay_ekle"
          PROVE  OlayEkleHazir(j)'
        <3>1. /\ istek[j].olay \in Olaylar
              /\ OlayBicimi(istek[j].satir)
              /\ SurucuBelli(istek[j].satir)
            BY <2>1 DEF Hazir, OlayEkleHazir
        <3>2. PICK s : s = istek[j].satir
            OBVIOUS
        <3>3. SurucuBelli(s)'
            BY <3>1, <3>2, SurucuKalir
        <3> QED
            BY <3>1, <3>2, <3>3 DEF OlayEkleHazir
    <2> QED
        BY <2>1 DEF OlayEkleHazir
<1>6. OlayHazir(j)'
    <2>1. ASSUME istek[j].is = "olay"
          PROVE  OlayHazir(j)'
        <3> PICK o \in Olaylar : o = istek[j].olay
            BY <2>1 DEF Hazir, OlayHazir
        <3>1. OlayBicimi(olay[o]) /\ SurucuBelli(olay[o])
            BY <2>1 DEF Hazir, OlayHazir
        <3>2. PICK s : s = olay[o]
            OBVIOUS
        <3>3. SurucuBelli(s)'
            BY <3>1, <3>2, SurucuKalir
        <3>4. OlayBicimi(olay[o])' /\ SurucuBelli(olay[o])'
            <4>1. CASE olay'[o] = olay[o]
                BY <3>1, <3>2, <3>3, <4>1 DEF OlayBicimi, SurucuBelli
            <4>2. CASE olay'[o] # olay[o]
                BY <4>2 DEF Ilerler
            <4> QED
                BY <4>1, <4>2
        <3> QED
            BY <2>1, <3>4 DEF Hazir, OlayHazir
    <2> QED
        BY <2>1 DEF OlayHazir
<1> QED
    BY <1>3, <1>4, <1>5, <1>6 DEF Hazir

\* A step that changes no row.
LEMMA SatirlarDurur ==
    ASSUME SatirInv, UNCHANGED <<aracVars, olay>>, isci' = isci
    PROVE  SatirInv' /\ Ilerler /\ KopyaKalir
<1>1. arac' = arac /\ gecmis' = gecmis /\ fis' = fis /\ olay' = olay
    BY DEF aracVars
<1>2. Ilerler /\ KopyaKalir
    BY <1>1 DEF Ilerler, KopyaKalir, SatirInv, AracTypeOK
<1>3. AracTypeOK' /\ OlayTuru' /\ GecmissizYok'
    BY <1>1 DEF SatirInv, AracTypeOK, OlayTuru, GecmissizYok
<1>4. SahipGecmiste' /\ KisiTasimisti'
    BY <1>1 DEF SatirInv, SahipGecmiste, KisiTasimisti, SahipOldu
<1>5. AracGecmisten'
    BY <1>1 DEF SatirInv, AracGecmisten, SonSifirlama, Sifirlar, Sirali
<1> QED
    BY <1>2, <1>3, <1>4, <1>5 DEF SatirInv

\* The threads that import receipt f for vehicle a are finitely many.
LEMMA AktaranSonlu ==
    ASSUME IstekTuru, NEW a \in Araclar, NEW f \in Fisler
    PROVE  /\ IsFiniteSet(isci)
           /\ Cardinality(isci) \in Nat
           /\ IsFiniteSet(Aktaranlar(a, f))
           /\ Cardinality(Aktaranlar(a, f)) \in Nat
           /\ Cardinality(Aktaranlar(a, f)) <= Cardinality(isci)
<1>1. IsFiniteSet(isci) /\ Aktaranlar(a, f) \in SUBSET isci
    BY OturumAssumption, FS_Subset DEF IstekTuru, Aktaranlar
<1> QED
    BY <1>1, FS_Subset, FS_CardinalityType

\* A step that enters no imported row, and after which no more threads hold one.
LEMMA SayiDurur ==
    ASSUME FiloIInv, isci' = isci,
           \A a \in Araclar, f \in Fisler : fis'[a][f].excel = fis[a][f].excel,
           \A j \in Istekler :
             \/ istek'[j] = istek[j]
             \/ istek'[j].is # "import"
             \/ \A a \in Araclar, f \in Fisler : istek'[j].bekleyen[a][f] = 0
    PROVE  FisSayisi'
<1> SUFFICES ASSUME NEW a \in Araclar, NEW f \in Fisler, Saklanan[f] = f
             PROVE  fis'[a][f].excel + Cardinality(Aktaranlar(a, f)') <= Cardinality(isci)
    BY DEF FisSayisi
<1>1. Aktaranlar(a, f)' \in SUBSET Aktaranlar(a, f)
    BY DEF FiloIInv, IstekTuru, Aktaranlar
<1>2. /\ Cardinality(Aktaranlar(a, f)') <= Cardinality(Aktaranlar(a, f))
      /\ Cardinality(Aktaranlar(a, f)') \in Nat
      /\ Cardinality(Aktaranlar(a, f)) \in Nat
      /\ Cardinality(isci) \in Nat
    BY <1>1, AktaranSonlu, FS_Subset, FS_CardinalityType DEF FiloIInv
<1>3. fis[a][f].excel \in Nat
    BY DEF FiloIInv, SatirInv, AracTypeOK, FisSatiri
<1>4. fis[a][f].excel + Cardinality(Aktaranlar(a, f)) <= Cardinality(isci)
    BY DEF FiloIInv, FisSayisi
<1> QED
    BY <1>2, <1>3, <1>4

\* A handler has read: only its own thread has to be looked at.
LEMMA BaslaYeter ==
    ASSUME FiloIInv, NEW i \in Istekler, NEW r, Basla(i, r), UNCHANGED <<aracVars, olay>>,
           istek'[i] = r => Hazir(i)',
           r.is # "import" \/ \A a \in Araclar, f \in Fisler : r.bekleyen[a][f] = 0
    PROVE  FiloIInv'
<1>1. SatirInv' /\ Ilerler /\ KopyaKalir
    BY SatirlarDurur DEF Basla, FiloIInv
<1>2. istek'[i] = r /\ \A j \in Istekler \ {i} : istek'[j] = istek[j]
    BY DEF Basla, FiloIInv, IstekTuru
<1>3. IstekTuru'
    BY DEF Basla, FiloIInv, IstekTuru
<1>4. \A j \in Istekler : Hazir(j)'
    BY <1>1, <1>2, HazirKalir DEF FiloIInv, SatirInv
<1>5. FisSayisi'
    BY <1>2, SayiDurur DEF Basla, aracVars
<1> QED
    BY <1>1, <1>3, <1>4, <1>5 DEF FiloIInv

\* A handler has ended: only the rows have to be looked at.
LEMMA BittiYeter ==
    ASSUME FiloIInv, NEW i \in Istekler, istek[i] # Bos, Bitti(i), Ilerler, SatirInv', FisSayisi'
    PROVE  FiloIInv'
<1>1. istek'[i] = Bos /\ \A j \in Istekler \ {i} : istek'[j] = istek[j]
    BY DEF Bitti, FiloIInv, IstekTuru
<1>2. IstekTuru'
    BY <1>1 DEF Bitti, FiloIInv, IstekTuru
<1>3. Hazir(i)'
    BY <1>1 DEF Bos, Hazir, AracHazir, ImportHazir, OlayEkleHazir, OlayHazir
<1>4. ASSUME NEW j \in Istekler \ {i}
      PROVE  Hazir(j)'
    <2>1. istek[j] # Bos => ~Sirali
        BY DEF FiloIInv, IstekTuru, Sirali
    <2> QED
        BY <1>1, <2>1, HazirKalir DEF FiloIInv, SatirInv
<1> QED
    BY <1>2, <1>3, <1>4 DEF FiloIInv

\* The same when it has entered no imported row.
LEMMA SayiBitti ==
    ASSUME FiloIInv, NEW i \in Istekler, Bitti(i),
           \A a \in Araclar, f \in Fisler : fis'[a][f].excel = fis[a][f].excel
    PROVE  FisSayisi'
<1>1. /\ istek'[i] = Bos /\ Bos.is # "import"
      /\ \A j \in Istekler \ {i} : istek'[j] = istek[j]
      /\ isci' = isci
    BY DEF Bitti, Bos, FiloIInv, IstekTuru
<1> QED
    BY <1>1, SayiDurur

\* A step of the form that enters or changes vehicles at once.
LEMMA FormYeter ==
    ASSUME FiloIInv, UNCHANGED oturum, fis' = fis, Ilerler, KopyaKalir, SatirInv'
    PROVE  FiloIInv'
<1>1. istek' = istek /\ isci' = isci
    BY DEF oturum
<1>2. \A j \in Istekler : Hazir(j)'
    BY <1>1, HazirKalir DEF FiloIInv, SatirInv
<1>3. FisSayisi'
    BY <1>1, SayiDurur
<1> QED
    BY <1>1, <1>2, <1>3 DEF FiloIInv, IstekTuru

-----------------------------------------------------------------------------
(* The pages of the vehicles that read.                                    *)

\* The columns in which a changed copy y differs from the row s.
LEMMA AracFarklari ==
    ASSUME NEW s \in AracSatiri, NEW y \in AracSatiri
    PROVE  /\ AracFarki(Fark(s, y))
           /\ \A k \in DOMAIN Fark(s, y) : Fark(s, y)[k] = y[k]
           /\ \A k \in DOMAIN s : Sonra(s, Fark(s, y), k) = y[k]
<1>1. DOMAIN y = DOMAIN s
    BY AracSatirlari
<1>2. /\ DOMAIN Fark(s, y) = {k \in DOMAIN s : y[k] # s[k]}
      /\ \A k \in DOMAIN Fark(s, y) : Fark(s, y)[k] = y[k]
    BY <1>1 DEF Fark
<1>3. AracFarki(Fark(s, y))
    BY <1>2, AracSatirlari DEF AracFarki
<1> QED
    BY <1>2, <1>3 DEF Sonra

LEMMA AracYazarYeter ==
    ASSUME FiloIInv, NEW i \in Istekler, NEW a \in Araclar, NEW f, NEW g \in GecmisSatiri \cup {Yok},
           NEW x \in Fisler \cup {Yok}, AracYazar(i, a, f, g, x), UNCHANGED olay,
           AracFarki(f),
           "sahip" \in DOMAIN f /\ f["sahip"] # Yok => g # Yok /\ g.alan = f["sahip"],
           g # Yok /\ g.eden # Yok => g.eden = arac[a].sahip,
           Uyar(arac[a], f, g)
    PROVE  FiloIInv'
<1> DEFINE r == [is |-> "arac", arac |-> a, fark |-> f, kayit |-> g, fis |-> x]
<1>1. arac[a] # Yok /\ Basla(i, r) /\ UNCHANGED <<aracVars, olay>>
    BY DEF AracYazar
<1>2. g # Yok /\ g.eden # Yok => SahipOldu(a, g.eden, Len(gecmis[a]))
    BY <1>1 DEF FiloIInv, SatirInv, SahipGecmiste
<1>3. arac' = arac /\ gecmis' = gecmis
    BY <1>1 DEF aracVars
<1>4. g # Yok /\ g.eden # Yok => SahipOldu(a, g.eden, Len(gecmis[a]))'
    BY <1>2, <1>3 DEF SahipOldu
<1>5. ASSUME istek'[i] = r
      PROVE  Hazir(i)'
    <2>1. AracHazir(i)'
        BY <1>1, <1>3, <1>4, <1>5 DEF AracHazir
    <2> QED
        BY <1>5, <2>1 DEF Hazir, ImportHazir, OlayEkleHazir, OlayHazir
<1> QED
    BY <1>1, <1>5, BaslaYeter

LEMMA DuzenleOkuKorur ==
    ASSUME FiloIInv, NEW i \in Istekler, NEW a \in Araclar, NEW c \in Kisi,
           NEW p \in Projeler \cup {Yok}, NEW km \in Km, DuzenleOku(i, a, c, p, km), UNCHANGED olay
    PROVE  FiloIInv'
<1> DEFINE yeni == [km |-> km, sahip |-> c, proje |-> p]
           yazilan == {k \in DOMAIN yeni : yeni[k] # Yok \/ arac[a][k] # Yok}
           f == [k \in yazilan |-> yeni[k]]
           g == [islem |-> "form", alan |-> c, eden |-> Yok, km |-> km]
<1>1. arac[a] # Yok /\ AracYazar(i, a, f, g, Yok)
    BY DEF DuzenleOku
<1>2. g \in GecmisSatiri
    BY DEF GecmisSatiri, Kisi
<1>3. /\ DOMAIN f \subseteq {"km", "sahip", "proje"}
      /\ "km" \in DOMAIN f => f["km"] = km
      /\ "sahip" \in DOMAIN f => f["sahip"] = c
      /\ "proje" \in DOMAIN f => f["proje"] = p
      /\ "km" \notin DOMAIN f => arac[a].km = km
      /\ "sahip" \notin DOMAIN f => arac[a].sahip = c
    OBVIOUS
<1>4. g # Yok /\ g.alan = c /\ g.eden = Yok /\ g.km = km /\ g.islem = "form"
    BY <1>2, GecmisSatirlari
<1> HIDE DEF f, g
<1>5. AracFarki(f)
    BY <1>3 DEF AracFarki
<1>6. Uyar(arac[a], f, g)
    BY <1>3, <1>4 DEF Uyar, Sonra
<1> QED
    BY <1>1, <1>2, <1>3, <1>4, <1>5, <1>6, AracYazarYeter

LEMMA SilOkuKorur ==
    ASSUME FiloIInv, NEW i \in Istekler, NEW a \in Araclar, UNCHANGED olay,
           SilOku(i, a) \/ \E p \in Projeler : CikarOku(i, a, p)
    PROVE  FiloIInv'
<1>1. AracYazar(i, a, [silindi |-> TRUE], Yok, Yok) \/ AracYazar(i, a, [proje |-> Yok], Yok, Yok)
    BY DEF SilOku, CikarOku
<1>2. ASSUME NEW f, f = [silindi |-> TRUE] \/ f = [proje |-> Yok]
      PROVE  /\ AracFarki(f)
             /\ "sahip" \notin DOMAIN f
             /\ Uyar(arac[a], f, Yok)
    <2>1. \/ DOMAIN f = {"silindi"} /\ f["silindi"] = TRUE
          \/ DOMAIN f = {"proje"} /\ f["proje"] = Yok
        BY <1>2
    <2>2. AracFarki(f)
        BY <2>1 DEF AracFarki
    <2>3. "sahip" \notin DOMAIN f /\ "km" \notin DOMAIN f
        BY <2>1
    <2> QED
        BY <2>2, <2>3 DEF Uyar
<1> QED
    BY <1>1, <1>2, AracYazarYeter

LEMMA KullanimOkuKorur ==
    ASSUME FiloIInv, NEW i \in Istekler, NEW a \in Araclar, NEW km \in Km,
           NEW x \in Fisler \cup {Yok}, KullanimOku(i, a, km, x), UNCHANGED olay
    PROVE  FiloIInv'
<1> DEFINE f == KmFarki(a, km)
           g == [islem |-> "kullanim", alan |-> Yok, eden |-> Yok, km |-> km]
<1>1. arac[a] # Yok /\ AracYazar(i, a, f, g, x)
    BY DEF KullanimOku
<1>2. g \in GecmisSatiri
    BY DEF GecmisSatiri, Kisi
<1>3. /\ km > arac[a].km => DOMAIN f = {"km"} /\ f["km"] = km
      /\ ~(km > arac[a].km) => DOMAIN f = {}
    BY DEF KmFarki, HicFark
<1>4. g # Yok /\ g.eden = Yok /\ g.km = km /\ g.islem = "kullanim"
    BY <1>2, GecmisSatirlari
<1> HIDE DEF f, g
<1>5. AracFarki(f)
    BY <1>3 DEF AracFarki
<1>6. Uyar(arac[a], f, g)
    BY <1>3, <1>4 DEF Uyar, Sonra
<1> QED
    BY <1>1, <1>2, <1>3, <1>4, <1>5, <1>6, AracYazarYeter

LEMMA TeslimOkuKorur ==
    ASSUME FiloIInv, NEW i \in Istekler, NEW a \in Araclar, NEW c \in Kisi, NEW km \in Km,
           TeslimOku(i, a, c, km) \/ IadeOku(i, a, km), UNCHANGED olay
    PROVE  FiloIInv'
<1>1. arac[a] # Yok /\ arac[a] \in AracSatiri
    BY DEF TeslimOku, IadeOku, FiloIInv, SatirInv, AracTypeOK
<1>2. ASSUME NEW d \in Kisi, NEW g \in GecmisSatiri,
             AracYazar(i, a, Fark(arac[a], [arac[a] EXCEPT !.sahip = d, !.km = km]), g, Yok),
             g.alan = d, g.eden \in {Yok, arac[a].sahip}, g.km = km, g.islem # "kullanim"
      PROVE  FiloIInv'
    <2> DEFINE y == [arac[a] EXCEPT !.sahip = d, !.km = km]
               f == Fark(arac[a], y)
    <2>1. y \in AracSatiri /\ y["sahip"] = d /\ y["km"] = km
        BY <1>1 DEF AracSatiri, Kisi
    <2> HIDE DEF y
    <2>2. /\ AracFarki(f)
          /\ \A k \in DOMAIN f : f[k] = y[k]
          /\ \A k \in DOMAIN arac[a] : Sonra(arac[a], f, k) = y[k]
        BY <1>1, <2>1, AracFarklari
    <2>3. Uyar(arac[a], f, g)
        BY <1>1, <1>2, <2>1, <2>2, AracSatirlari, GecmisSatirlari DEF Uyar
    <2> HIDE DEF f
    <2> QED
        BY <1>2, <2>1, <2>2, <2>3, GecmisSatirlari, AracYazarYeter DEF f, y
<1>3. CASE TeslimOku(i, a, c, km)
    <2> DEFINE g == [islem |-> "teslim", alan |-> c, eden |-> Yok, km |-> km]
    <2>1. g \in GecmisSatiri
        BY DEF GecmisSatiri, Kisi
    <2> QED
        BY <1>2, <1>3, <2>1 DEF TeslimOku
<1>4. CASE IadeOku(i, a, km)
    <2> DEFINE g == [islem |-> "iade", alan |-> Yok, eden |-> arac[a].sahip, km |-> km]
    <2>1. g \in GecmisSatiri /\ Yok \in Kisi
        BY <1>1, AracSatirlari DEF GecmisSatiri, Kisi
    <2> QED
        BY <1>2, <1>4, <2>1 DEF IadeOku
<1> QED
    BY <1>3, <1>4

-----------------------------------------------------------------------------
(* The pages of the vehicles that write.                                   *)

\* AracGecmisten for a row s and a history h.
Gecmisten(s, h) ==
    \E k \in DOMAIN h :
        LET okunan == {h[j].km : j \in k..Len(h)}
        IN  /\ SonSifirlama(h, k)
            /\ s.sahip = h[k].alan
            /\ s.km \in okunan
            /\ \A m \in okunan : m <= s.km

LEMMA SifirlamaGecmisi ==
    ASSUME NEW h \in Seq(GecmisSatiri), NEW g \in GecmisSatiri, NEW s,
           g.islem # "kullanim", s.sahip = g.alan, s.km = g.km
    PROVE  Gecmisten(s, Append(h, g))
<1> DEFINE y == Append(h, g)
           n == Len(h) + 1
<1>1. n \in DOMAIN y /\ Len(y) = n /\ y[n] = g /\ n \in Nat
    OBVIOUS
<1>2. n..n = {n} /\ (n + 1)..n = {}
    BY <1>1
<1> HIDE DEF y, n
<1>3. SonSifirlama(y, n)
    BY <1>1, <1>2 DEF SonSifirlama, Sifirlar
<1>4. {y[j].km : j \in n..Len(y)} = {g.km}
    BY <1>1, <1>2
<1>5. \A m \in {g.km} : m <= g.km
    BY GecmisSatirlari
<1> QED
    BY <1>1, <1>3, <1>4, <1>5 DEF Gecmisten, y

LEMMA KullanimGecmisi ==
    ASSUME NEW h \in Seq(GecmisSatiri), NEW g \in GecmisSatiri, NEW s \in AracSatiri, NEW u,
           Gecmisten(s, h), g.islem = "kullanim", u.sahip = s.sahip,
           u.km = IF g.km > s.km THEN g.km ELSE s.km
    PROVE  Gecmisten(u, Append(h, g))
<1> DEFINE y == Append(h, g)
           n == Len(h)
<1> PICK k \in DOMAIN h :
        /\ SonSifirlama(h, k)
        /\ s.sahip = h[k].alan
        /\ s.km \in {h[j].km : j \in k..Len(h)}
        /\ \A m \in {h[j].km : j \in k..Len(h)} : m <= s.km
    BY DEF Gecmisten
<1>1. /\ n \in Nat /\ k \in 1..n /\ Len(y) = n + 1
      /\ y[n + 1] = g
      /\ \A j \in 1..n : y[j] = h[j]
      /\ k \in DOMAIN y
    OBVIOUS
<1>2. k..(n + 1) = (k..n) \cup {n + 1} /\ (k + 1)..(n + 1) = ((k + 1)..n) \cup {n + 1}
    BY <1>1
<1> HIDE DEF y, n
<1>3. SonSifirlama(y, k)
    BY <1>1, <1>2 DEF SonSifirlama, Sifirlar, n
<1>4. {y[j].km : j \in k..Len(y)} = {h[j].km : j \in k..n} \cup {g.km}
    BY <1>1, <1>2
<1>5. g.km \in Nat /\ s.km \in Nat
    BY GecmisSatirlari, AracSatirlari
<1>6. u.km \in {y[j].km : j \in k..Len(y)}
    BY <1>4, <1>5 DEF n
<1>7. \A j \in k..n : h[j].km \in Nat
    BY <1>1, GecmisSatirlari DEF n
<1>8. ASSUME NEW m \in {y[j].km : j \in k..Len(y)}
      PROVE  m <= u.km
    <2>1. CASE m = g.km
        BY <2>1, <1>5
    <2>2. CASE m # g.km
        <3>1. PICK j \in k..n : m = h[j].km
            BY <2>2, <1>4
        <3>2. m \in Nat /\ m <= s.km
            BY <3>1, <1>7 DEF n
        <3> QED
            BY <3>2, <1>5
    <2> QED
        BY <2>1, <2>2
<1> QED
    BY <1>1, <1>3, <1>6, <1>8 DEF Gecmisten, y

\* The row and the history of vehicle a are written, and the history is only added to.
LEMMA TekAracYeter ==
    ASSUME SatirInv, AracTypeOK', NEW a \in Araclar, arac'[a] # Yok, isci' = isci, olay' = olay,
           \A b \in Araclar \ {a} : arac'[b] = arac[b] /\ gecmis'[b] = gecmis[b],
           \/ gecmis'[a] = gecmis[a]
           \/ \E g \in GecmisSatiri :
                /\ gecmis'[a] = Append(gecmis[a], g)
                /\ g.eden # Yok => SahipOldu(a, g.eden, Len(gecmis[a])),
           arac'[a].sahip # Yok => SahipOldu(a, arac[a].sahip, Len(gecmis[a]))',
           Sirali => Gecmisten(arac'[a], gecmis'[a])
    PROVE  SatirInv' /\ Ilerler
<1>1. \A b \in Araclar : /\ gecmis[b] \in Seq(GecmisSatiri)
                         /\ gecmis'[b] \in Seq(GecmisSatiri)
    BY DEF SatirInv, AracTypeOK
<1>2. ASSUME NEW b \in Araclar
      PROVE  /\ Len(gecmis[b]) \in Nat /\ Len(gecmis'[b]) \in Nat
             /\ Len(gecmis[b]) <= Len(gecmis'[b])
             /\ DOMAIN gecmis[b] = 1..Len(gecmis[b])
             /\ DOMAIN gecmis'[b] = 1..Len(gecmis'[b])
             /\ \A k \in DOMAIN gecmis[b] : k \in DOMAIN gecmis'[b] /\ gecmis'[b][k] = gecmis[b][k]
    <2>1. CASE gecmis'[b] = gecmis[b]
        BY <2>1, <1>1
    <2>2. CASE b = a /\ \E g \in GecmisSatiri : gecmis'[a] = Append(gecmis[a], g)
        BY <2>2, <1>1
    <2> QED
        BY <2>1, <2>2
<1>3. Ilerler
    BY <1>2 DEF Ilerler
<1>4. OlayTuru' /\ GecmissizYok'
    BY DEF SatirInv, OlayTuru, GecmissizYok
<1>5. SahipGecmiste'
    <2>1. ASSUME NEW b \in Araclar \ {a}, arac'[b] # Yok, arac'[b].sahip # Yok
          PROVE  SahipOldu(b, arac[b].sahip, Len(gecmis[b]))'
        BY <2>1 DEF SatirInv, SahipGecmiste, SahipOldu
    <2> QED
        BY <2>1 DEF SahipGecmiste
<1>6. ASSUME NEW b \in Araclar, NEW k \in DOMAIN gecmis'[b], gecmis'[b][k].eden # Yok
      PROVE  SahipOldu(b, gecmis[b][k].eden, k - 1)'
    <2>1. CASE k \in DOMAIN gecmis[b]
        <3>1. gecmis'[b][k] = gecmis[b][k]
            BY <2>1, <1>2
        <3>2. SahipOldu(b, gecmis[b][k].eden, k - 1)
            BY <1>6, <2>1, <3>1 DEF SatirInv, KisiTasimisti
        <3> QED
            BY <3>1, <3>2, <1>2 DEF SahipOldu
    <2>2. CASE k \notin DOMAIN gecmis[b]
        <3>1. b = a
            BY <2>2, <1>6
        <3> PICK g \in GecmisSatiri :
                /\ gecmis'[a] = Append(gecmis[a], g)
                /\ g.eden # Yok => SahipOldu(a, g.eden, Len(gecmis[a]))
            BY <2>2, <3>1
        <3>2. k = Len(gecmis[a]) + 1 /\ gecmis'[a][k] = g
            BY <2>2, <3>1, <1>1, <1>2
        <3>3. SahipOldu(a, g.eden, k - 1)
            BY <1>6, <3>1, <3>2, <1>2
        <3> QED
            BY <3>1, <3>2, <3>3, <1>2 DEF SahipOldu
    <2> QED
        BY <2>1, <2>2
<1>7. ASSUME NEW o \in Olaylar, olay'[o] # Yok
      PROVE  SurucuBelli(olay[o])'
    <2> PICK s : s = olay[o]
        OBVIOUS
    <2>1. OlayBicimi(s) /\ SurucuBelli(s)
        BY <1>7 DEF SatirInv, OlayTuru, KisiTasimisti, SurucuBelli
    <2> QED
        BY <2>1, <1>3, SurucuKalir DEF SatirInv, SurucuBelli
<1>8. KisiTasimisti'
    BY <1>6, <1>7 DEF KisiTasimisti, SurucuBelli
<1>9. AracGecmisten'
    <2>1. Sirali' <=> Sirali
        BY DEF Sirali
    <2>2. ASSUME Sirali, NEW b \in Araclar, arac'[b] # Yok
          PROVE  Gecmisten(arac'[b], gecmis'[b])
        <3>1. CASE b = a
            BY <2>2, <3>1
        <3>2. CASE b # a
            <4>1. arac'[b] = arac[b] /\ gecmis'[b] = gecmis[b]
                BY <3>2
            <4>2. Gecmisten(arac[b], gecmis[b])
                BY <2>2, <4>1 DEF SatirInv, AracGecmisten, Gecmisten
            <4> QED
                BY <4>1, <4>2
        <3> QED
            BY <3>1, <3>2
    <2> QED
        BY <2>1, <2>2 DEF AracGecmisten, Gecmisten
<1> QED
    BY <1>3, <1>4, <1>5, <1>8, <1>9 DEF SatirInv

LEMMA AracEkleKorur ==
    ASSUME FiloIInv, NEW a \in Araclar, NEW c \in Kisi, NEW p \in Projeler \cup {Yok}, NEW km \in Km,
           AracEkle(a, c, p, km), UNCHANGED olay
    PROVE  FiloIInv'
<1> DEFINE s == [silindi |-> FALSE, sahip |-> c, proje |-> p, km |-> km]
           g == [islem |-> "form", alan |-> c, eden |-> Yok, km |-> km]
<1>1. /\ arac[a] = Yok /\ gecmis[a] = << >>
      /\ arac'[a] = s /\ gecmis'[a] = <<g>>
      /\ \A b \in Araclar \ {a} : arac'[b] = arac[b] /\ gecmis'[b] = gecmis[b]
      /\ fis' = fis /\ isci' = isci /\ istek' = istek
    BY DEF AracEkle, oturum, FiloIInv, SatirInv, AracTypeOK, GecmissizYok
<1>2. s \in AracSatiri /\ g \in GecmisSatiri
    BY DEF AracSatiri, GecmisSatiri, Kisi
<1>3. AracTypeOK'
    BY <1>2 DEF AracEkle, FiloIInv, SatirInv, AracTypeOK
<1>4. <<g>> = Append(<< >>, g) /\ << >> \in Seq(GecmisSatiri)
    OBVIOUS
<1>5. s.sahip = g.alan /\ s.km = g.km /\ g.eden = Yok /\ g.islem # "kullanim"
    OBVIOUS
<1>6. SahipOldu(a, arac[a].sahip, Len(gecmis[a]))'
    BY <1>1 DEF SahipOldu
<1> HIDE DEF s, g
<1>7. Gecmisten(arac'[a], gecmis'[a])
    BY <1>1, <1>2, <1>4, <1>5, SifirlamaGecmisi
<1>8. KopyaKalir
    BY <1>1 DEF KopyaKalir
<1>9. /\ arac'[a] # Yok
      /\ \E e \in GecmisSatiri :
           /\ gecmis'[a] = Append(gecmis[a], e)
           /\ e.eden # Yok => SahipOldu(a, e.eden, Len(gecmis[a]))
    BY <1>1, <1>2, <1>4, <1>5, AracSatirlari
<1>10. SatirInv' /\ Ilerler
    BY <1>1, <1>3, <1>6, <1>7, <1>9, TekAracYeter DEF FiloIInv
<1> QED
    BY <1>1, <1>8, <1>10, FormYeter DEF AracEkle

LEMMA AracYazKorur ==
    ASSUME FiloIInv, NEW i \in Istekler, AracYaz(i), UNCHANGED olay
    PROVE  FiloIInv'
<1>1. AracHazir(i) /\ istek[i].is = "arac" /\ istek[i] # Bos
    BY DEF AracYaz, FiloIInv, Hazir, Bos
<1> PICK a \in Araclar : a = istek[i].arac
    BY <1>1 DEF AracHazir
<1> PICK f, g : f = istek[i].fark /\ g = istek[i].kayit
    OBVIOUS
<1> DEFINE s == arac[a]
           h == gecmis[a]
           u == Uygula(s, f)
<1>2. /\ s # Yok
      /\ AracFarki(f)
      /\ g \in GecmisSatiri \cup {Yok}
      /\ "sahip" \in DOMAIN f /\ f["sahip"] # Yok => g # Yok /\ g.alan = f["sahip"]
      /\ g # Yok /\ g.eden # Yok => SahipOldu(a, g.eden, Len(h))
      /\ istek[i].fis \in Fisler \cup {Yok}
      /\ Sirali => Uyar(s, f, g)
    BY <1>1 DEF AracHazir
<1>3. s \in AracSatiri /\ h \in Seq(GecmisSatiri)
    BY <1>2 DEF FiloIInv, SatirInv, AracTypeOK
<1>4. u \in AracSatiri /\ u.sahip = Sonra(s, f, "sahip") /\ u.km = Sonra(s, f, "km")
    BY <1>2, <1>3, AracUygula
<1>5. /\ arac'[a] = u
      /\ gecmis'[a] = IF g = Yok THEN h ELSE Append(h, g)
      /\ \A b \in Araclar \ {a} : arac'[b] = arac[b] /\ gecmis'[b] = gecmis[b]
      /\ isci' = isci
    BY DEF AracYaz, Bitti, FiloIInv, SatirInv, AracTypeOK
<1>6. /\ fis' \in [Araclar -> [Fisler -> FisSatiri]]
      /\ \A b \in Araclar, x \in Fisler : fis'[b][x].excel = fis[b][x].excel
    <2>1. fis \in [Araclar -> [Fisler -> FisSatiri]]
        BY DEF FiloIInv, SatirInv, AracTypeOK
    <2>2. CASE istek[i].fis = Yok
        BY <2>1, <2>2 DEF AracYaz
    <2>3. CASE istek[i].fis # Yok
        <3> PICK x \in Fisler : x = istek[i].fis
            BY <2>3, <1>2
        <3>1. fis' = [fis EXCEPT ![a][x].elle = @ + 1]
            BY <2>3 DEF AracYaz
        <3>2. fis[a][x] \in FisSatiri
            BY <2>1
        <3>3. [fis[a][x] EXCEPT !.elle = @ + 1] \in FisSatiri
              /\ [fis[a][x] EXCEPT !.elle = @ + 1].excel = fis[a][x].excel
            BY <3>2 DEF FisSatiri
        <3>4. fis' = [fis EXCEPT ![a] = [fis[a] EXCEPT ![x] = [fis[a][x] EXCEPT !.elle = @ + 1]]]
            BY <3>1
        <3> QED
            BY <2>1, <3>3, <3>4
    <2> QED
        BY <2>2, <2>3
<1> HIDE DEF u
<1>7. AracTypeOK'
    <2>1. arac' \in [Araclar -> AracSatiri \cup {Yok}]
        BY <1>4, <1>5 DEF AracYaz, FiloIInv, SatirInv, AracTypeOK
    <2>2. gecmis' \in [Araclar -> Seq(GecmisSatiri)]
        <3>1. gecmis'[a] \in Seq(GecmisSatiri)
            BY <1>2, <1>3, <1>5
        <3> QED
            BY <3>1, <1>5 DEF AracYaz, FiloIInv, SatirInv, AracTypeOK
    <2> QED
        BY <2>1, <2>2, <1>6 DEF AracTypeOK
<1>8. /\ arac'[a] # Yok
      /\ \/ gecmis'[a] = gecmis[a]
         \/ \E e \in GecmisSatiri :
              /\ gecmis'[a] = Append(gecmis[a], e)
              /\ e.eden # Yok => SahipOldu(a, e.eden, Len(gecmis[a]))
    BY <1>2, <1>4, <1>5, AracSatirlari
<1>9. arac'[a].sahip # Yok => SahipOldu(a, arac[a].sahip, Len(gecmis[a]))'
    <2>1. CASE "sahip" \in DOMAIN f /\ u.sahip # Yok
        <3>1. g # Yok /\ g.alan = u.sahip /\ g \in GecmisSatiri
            BY <2>1, <1>2, <1>4 DEF Sonra
        <3>2. gecmis'[a] = Append(h, g)
            BY <3>1, <1>5
        <3>3. Len(h) + 1 \in DOMAIN gecmis'[a] /\ gecmis'[a][Len(h) + 1] = g
              /\ Len(gecmis'[a]) = Len(h) + 1
            BY <3>1, <3>2, <1>3
        <3>4. Len(h) + 1 <= Len(h) + 1
            BY <1>3
        <3> QED
            BY <3>1, <3>3, <3>4, <1>5 DEF SahipOldu
    <2>2. CASE "sahip" \notin DOMAIN f /\ u.sahip # Yok
        <3>1. u.sahip = s.sahip /\ SahipOldu(a, s.sahip, Len(h))
            BY <2>2, <1>2, <1>4 DEF Sonra, FiloIInv, SatirInv, SahipGecmiste
        <3>2. /\ Len(h) \in Nat
              /\ DOMAIN h = 1..Len(h)
              /\ DOMAIN gecmis'[a] = 1..Len(gecmis'[a])
              /\ \A k \in 1..Len(h) : k \in DOMAIN gecmis'[a] /\ gecmis'[a][k] = h[k]
              /\ \A k \in 1..Len(h) : k <= Len(gecmis'[a])
            BY <1>2, <1>3, <1>5
        <3> QED
            BY <3>1, <3>2, <1>5 DEF SahipOldu
    <2> QED
        BY <2>1, <2>2, <1>5
<1>10. Sirali => Gecmisten(arac'[a], gecmis'[a])
    <2> SUFFICES ASSUME Sirali PROVE Gecmisten(u, gecmis'[a])
        BY <1>5
    <2>1. Gecmisten(s, h) /\ Uyar(s, f, g)
        BY <1>2 DEF Gecmisten, FiloIInv, SatirInv, AracGecmisten
    <2>2. CASE g = Yok
        <3>1. u.sahip = s.sahip /\ u.km = s.km
            BY <2>1, <2>2, <1>4 DEF Uyar, Sonra
        <3> QED
            BY <2>1, <2>2, <3>1, <1>5 DEF Gecmisten
    <2>3. CASE g # Yok /\ g.islem = "kullanim"
        <3>1. u.sahip = s.sahip /\ u.km = IF g.km > s.km THEN g.km ELSE s.km
            BY <2>1, <2>3, <1>4 DEF Uyar, Sonra
        <3> QED
            BY <2>1, <2>3, <3>1, <1>2, <1>3, <1>5, KullanimGecmisi
    <2>4. CASE g # Yok /\ g.islem # "kullanim"
        <3>1. u.sahip = g.alan /\ u.km = g.km
            BY <2>1, <2>4, <1>4 DEF Uyar
        <3> QED
            BY <2>4, <3>1, <1>2, <1>3, <1>5, SifirlamaGecmisi
    <2> QED
        BY <2>2, <2>3, <2>4
<1>11. SatirInv' /\ Ilerler
    BY <1>5, <1>7, <1>8, <1>9, <1>10, TekAracYeter DEF FiloIInv
<1>12. FisSayisi'
    BY <1>6, SayiBitti DEF AracYaz
<1> QED
    BY <1>1, <1>11, <1>12, BittiYeter DEF AracYaz

LEMMA AracAtaKorur ==
    ASSUME FiloIInv, NEW secilen \in SUBSET Araclar, NEW p \in Projeler, AracAta(secilen, p),
           UNCHANGED olay
    PROVE  FiloIInv'
<1>1. gecmis' = gecmis /\ fis' = fis /\ isci' = isci /\ istek' = istek
    BY DEF AracAta, oturum
<1>2. ASSUME NEW a \in Araclar
      PROVE  /\ arac'[a] \in AracSatiri \cup {Yok}
             /\ arac'[a] = Yok <=> arac[a] = Yok
             /\ arac[a] # Yok => arac'[a].sahip = arac[a].sahip /\ arac'[a].km = arac[a].km
    <2>1. CASE arac[a] = Yok
        BY <2>1 DEF AracAta
    <2>2. CASE arac[a] # Yok
        <3>1. arac[a] \in AracSatiri
            BY <2>2 DEF FiloIInv, SatirInv, AracTypeOK
        <3>2. /\ [arac[a] EXCEPT !.proje = p] \in AracSatiri
              /\ [arac[a] EXCEPT !.proje = p].sahip = arac[a].sahip
              /\ [arac[a] EXCEPT !.proje = p].km = arac[a].km
            BY <3>1 DEF AracSatiri
        <3> QED
            BY <3>1, <3>2, AracSatirlari DEF AracAta
    <2> QED
        BY <2>1, <2>2
<1>3. AracTypeOK'
    BY <1>1, <1>2 DEF AracAta, FiloIInv, SatirInv, AracTypeOK
<1>4. Ilerler /\ KopyaKalir
    BY <1>1, <1>2 DEF Ilerler, KopyaKalir, FiloIInv, SatirInv, AracTypeOK
<1>5. OlayTuru' /\ GecmissizYok'
    BY <1>1, <1>2 DEF FiloIInv, SatirInv, OlayTuru, GecmissizYok
<1>6. SahipGecmiste' /\ KisiTasimisti'
    BY <1>1, <1>2 DEF FiloIInv, SatirInv, SahipGecmiste, KisiTasimisti, SahipOldu
<1>7. AracGecmisten'
    BY <1>1, <1>2 DEF FiloIInv, SatirInv, AracGecmisten, SonSifirlama, Sifirlar, Sirali
<1>8. SatirInv'
    BY <1>3, <1>5, <1>6, <1>7 DEF SatirInv
<1> QED
    BY <1>1, <1>4, <1>8, FormYeter DEF AracAta

LEMMA AracBirakKorur ==
    ASSUME FiloIInv, NEW i \in Istekler, AracBirak(i), UNCHANGED olay
    PROVE  FiloIInv'
<1>1. istek[i] # Bos
    BY DEF AracBirak, Bos
<1>2. SatirInv' /\ Ilerler
    BY SatirlarDurur DEF AracBirak, Bitti, FiloIInv
<1>3. FisSayisi'
    BY SayiBitti DEF AracBirak, aracVars
<1> QED
    BY <1>1, <1>2, <1>3, BittiYeter DEF AracBirak

-----------------------------------------------------------------------------
(* The import of fuel receipts.                                            *)

LEMMA ImportBaslaKorur ==
    ASSUME FiloIInv, NEW i \in Istekler, ImportBasla(i), UNCHANGED olay
    PROVE  FiloIInv'
<1> DEFINE sifir == [a \in Araclar |-> [f \in Fisler |-> 0]]
           r == [is |-> "import", bekleyen |-> sifir]
<1>1. sifir \in [Araclar -> [Fisler -> Nat]] /\ \A a \in Araclar, f \in Fisler : sifir[a][f] = 0
    OBVIOUS
<1> HIDE DEF sifir
<1>2. ASSUME istek'[i] = r
      PROVE  Hazir(i)'
    BY <1>1, <1>2 DEF Hazir, AracHazir, ImportHazir, OlayEkleHazir, OlayHazir
<1>3. Basla(i, r)
    BY DEF ImportBasla, sifir
<1> QED
    BY <1>1, <1>2, <1>3, BaslaYeter DEF ImportBasla

LEMMA ImportSatirKorur ==
    ASSUME FiloIInv, NEW i \in Istekler, NEW a \in Araclar, NEW f \in Fisler, ImportSatir(i, a, f),
           UNCHANGED olay
    PROVE  FiloIInv'
<1>1. SatirInv' /\ Ilerler /\ KopyaKalir
    BY SatirlarDurur DEF ImportSatir, FiloIInv
<1> PICK b : b = istek[i].bekleyen
    OBVIOUS
<1>2. /\ istek[i] = [is |-> "import", bekleyen |-> b]
      /\ b \in [Araclar -> [Fisler -> Nat]]
      /\ \A c \in Araclar, x \in Fisler : Saklanan[x] = x => b[c][x] \in {0, 1}
    BY DEF ImportSatir, FiloIInv, Hazir, ImportHazir
<1> DEFINE y == [b EXCEPT ![a][f] = @ + 1]
<1>3. /\ y \in [Araclar -> [Fisler -> Nat]]
      /\ y[a][f] = b[a][f] + 1
      /\ \A c \in Araclar, x \in Fisler : c # a \/ x # f => y[c][x] = b[c][x]
    BY <1>2
<1> HIDE DEF y
<1>4. /\ istek'[i] = [is |-> "import", bekleyen |-> y]
      /\ \A j \in Istekler \ {i} : istek'[j] = istek[j]
      /\ istek' = [j \in Istekler |-> istek'[j]]
    BY <1>2 DEF ImportSatir, FiloIInv, IstekTuru, y
<1>5. Saklanan[f] = f => b[a][f] = 0 /\ fis[a][f].excel = 0
    <2>1. fis[a][f].elle \in Nat /\ fis[a][f].excel \in Nat /\ b[a][f] \in Nat
        BY <1>2 DEF FiloIInv, SatirInv, AracTypeOK, FisSatiri
    <2> QED
        BY <2>1 DEF ImportSatir, FisVar
<1>6. fis' = fis /\ isci' = isci
    BY DEF ImportSatir, aracVars
<1>7. Hazir(i)'
    <2>1. \A c \in Araclar, x \in Fisler : Saklanan[x] = x => y[c][x] \in {0, 1}
        BY <1>2, <1>3, <1>5
    <2> QED
        BY <1>3, <1>4, <2>1 DEF Hazir, AracHazir, ImportHazir, OlayEkleHazir, OlayHazir
<1>8. \A j \in Istekler : Hazir(j)'
    BY <1>1, <1>4, <1>7, HazirKalir DEF FiloIInv, SatirInv
<1>9. istek[i] # Bos
    BY <1>2 DEF Bos
<1>10. IstekTuru'
    BY <1>4, <1>6, <1>9 DEF FiloIInv, IstekTuru
<1>11. FisSayisi'
    <2> SUFFICES ASSUME NEW c \in Araclar, NEW x \in Fisler, Saklanan[x] = x
                 PROVE  fis[c][x].excel + Cardinality(Aktaranlar(c, x)') <= Cardinality(isci)
        BY <1>6 DEF FisSayisi
    <2>1. CASE c = a /\ x = f
        <3>1. Aktaranlar(c, x)' \in SUBSET isci /\ IsFiniteSet(isci)
            BY <1>6, AktaranSonlu DEF FiloIInv, Aktaranlar
        <3>2. /\ Cardinality(Aktaranlar(c, x)') <= Cardinality(isci)
              /\ Cardinality(Aktaranlar(c, x)') \in Nat
              /\ Cardinality(isci) \in Nat
            BY <3>1, FS_Subset, FS_CardinalityType
        <3> QED
            BY <1>5, <2>1, <3>2
    <2>2. CASE c # a \/ x # f
        <3>1. Aktaranlar(c, x)' = Aktaranlar(c, x)
            <4>1. istek'[i].is = "import" /\ istek'[i].bekleyen[c][x] = istek[i].bekleyen[c][x]
                BY <1>3, <1>4, <2>2
            <4>2. istek[i].is = "import"
                BY <1>2
            <4>3. isci \subseteq Istekler /\ isci' = isci
                BY <1>6 DEF FiloIInv, IstekTuru
            <4>4. \A j \in isci :
                    /\ istek'[j].is = istek[j].is
                    /\ istek'[j].bekleyen[c][x] = istek[j].bekleyen[c][x]
                BY <1>4, <4>1, <4>2, <4>3
            <4> QED
                BY <4>3, <4>4 DEF Aktaranlar
        <3> QED
            BY <3>1 DEF FiloIInv, FisSayisi
    <2> QED
        BY <2>1, <2>2
<1> QED
    BY <1>1, <1>8, <1>10, <1>11 DEF FiloIInv

LEMMA ImportYazKorur ==
    ASSUME FiloIInv, NEW i \in Istekler, ImportYaz(i), UNCHANGED olay
    PROVE  FiloIInv'
<1> PICK b : b = istek[i].bekleyen
    OBVIOUS
<1>1. /\ istek[i] # Bos
      /\ b \in [Araclar -> [Fisler -> Nat]]
      /\ \A a \in Araclar, f \in Fisler : Saklanan[f] = f => b[a][f] \in {0, 1}
    <2>1. ImportHazir(i) /\ istek[i].is = "import"
        BY DEF ImportYaz, FiloIInv, Hazir
    <2>2. istek[i] # Bos
        BY <2>1 DEF Bos
    <2> QED
        BY <2>1, <2>2 DEF ImportHazir
<1>2. ASSUME NEW a \in Araclar, NEW f \in Fisler
      PROVE  /\ fis[a][f] \in FisSatiri
             /\ fis'[a][f] \in FisSatiri
             /\ fis'[a][f].excel = fis[a][f].excel + b[a][f]
    <2>1. fis[a][f] \in FisSatiri /\ b[a][f] \in Nat
        BY <1>1 DEF FiloIInv, SatirInv, AracTypeOK
    <2>2. fis'[a][f] = [fis[a][f] EXCEPT !.excel = @ + b[a][f]]
        BY DEF ImportYaz
    <2> QED
        BY <2>1, <2>2 DEF FisSatiri
<1>3. AracTypeOK'
    <2>1. fis' = [a \in Araclar |-> [f \in Fisler |-> fis'[a][f]]]
        BY DEF ImportYaz
    <2>2. fis' \in [Araclar -> [Fisler -> FisSatiri]]
        <3>1. \A a \in Araclar : [f \in Fisler |-> fis'[a][f]] \in [Fisler -> FisSatiri]
            BY <1>2
        <3> QED
            BY <2>1, <3>1
    <2> QED
        BY <2>2 DEF ImportYaz, FiloIInv, SatirInv, AracTypeOK
<1>4. FisSayisi'
    <2> SUFFICES ASSUME NEW a \in Araclar, NEW f \in Fisler, Saklanan[f] = f
                 PROVE  fis'[a][f].excel + Cardinality(Aktaranlar(a, f)') <= Cardinality(isci)
        BY DEF FisSayisi, ImportYaz, Bitti
    <2> DEFINE A == Aktaranlar(a, f)
    <2>1. /\ IsFiniteSet(A) /\ Cardinality(A) \in Nat /\ Cardinality(isci) \in Nat
          /\ fis[a][f].excel + Cardinality(A) <= Cardinality(isci)
          /\ fis[a][f].excel \in Nat
        BY <1>2, AktaranSonlu DEF FiloIInv, FisSayisi, FisSatiri
    <2>2. Aktaranlar(a, f)' = A \ {i}
        BY DEF ImportYaz, Bitti, Bos, FiloIInv, IstekTuru, Aktaranlar
    <2>3. b[a][f] = 1 => i \in A
        BY <1>1 DEF ImportYaz, FiloIInv, IstekTuru, Aktaranlar
    <2> HIDE DEF A
    <2>4. Cardinality(A \ {i}) = IF i \in A THEN Cardinality(A) - 1 ELSE Cardinality(A)
        BY <2>1, FS_RemoveElement
    <2>5. b[a][f] \in {0, 1} /\ fis'[a][f].excel = fis[a][f].excel + b[a][f]
        BY <1>1, <1>2
    <2> QED
        BY <2>1, <2>2, <2>3, <2>4, <2>5
<1>5. /\ arac' = arac /\ gecmis' = gecmis /\ isci' = isci
    BY DEF ImportYaz, Bitti
<1>6. Ilerler
    BY <1>5 DEF Ilerler, FiloIInv, SatirInv, AracTypeOK
<1>7. OlayTuru' /\ GecmissizYok' /\ SahipGecmiste' /\ KisiTasimisti'
    BY <1>5 DEF FiloIInv, SatirInv, OlayTuru, GecmissizYok, SahipGecmiste, KisiTasimisti, SahipOldu
<1>8. AracGecmisten'
    BY <1>5 DEF FiloIInv, SatirInv, AracGecmisten, SonSifirlama, Sifirlar, Sirali
<1> QED
    BY <1>1, <1>3, <1>4, <1>6, <1>7, <1>8, BittiYeter DEF ImportYaz, SatirInv

-----------------------------------------------------------------------------
(* Accidents, fines and replacement vehicles.                              *)

LEMMA OlayOkuYeter ==
    ASSUME FiloIInv, NEW i \in Istekler, NEW o \in Olaylar, NEW s, OlayOku(i, o, s),
           OlayBicimi(s), SurucuBelli(s)
    PROVE  FiloIInv'
<1> DEFINE r == [is |-> "olay_ekle", olay |-> o, satir |-> s]
<1>1. gecmis' = gecmis
    BY DEF OlayOku, aracVars
<1>2. SurucuBelli(s)'
    BY <1>1 DEF SurucuBelli, SahipOldu
<1>3. ASSUME istek'[i] = r
      PROVE  Hazir(i)'
    <2>1. istek'[i].is = "olay_ekle" /\ istek'[i].olay = o /\ istek'[i].satir = s
        BY <1>3
    <2>2. OlayEkleHazir(i)'
        BY <1>2, <2>1 DEF OlayEkleHazir
    <2> QED
        BY <2>1, <2>2 DEF Hazir, AracHazir, ImportHazir, OlayHazir
<1>4. Basla(i, r) /\ UNCHANGED <<aracVars, olay>>
    BY DEF OlayOku
<1> QED
    BY <1>3, <1>4, BaslaYeter

\* Who drove, when it is not the driver the form names, has the vehicle.
LEMMA KazaCezaOkuKorur ==
    ASSUME FiloIInv, NEW i \in Istekler, NEW o \in Olaylar, NEW a \in Araclar, NEW c \in Kisi,
           KazaOku(i, o, a, c) \/ CezaOku(i, o, a, c)
    PROVE  FiloIInv'
<1>1. arac[a] # Yok
    BY DEF KazaOku, CezaOku
<1>2. Surucu(a, c) = c \/ SahipOldu(a, Surucu(a, c), Len(gecmis[a]))
    BY <1>1 DEF Surucu, FiloIInv, SatirInv, SahipGecmiste
<1>3. Surucu(a, c) \in Kisi
    BY <1>1, AracSatirlari DEF Surucu, FiloIInv, SatirInv, AracTypeOK
<1>4. CASE KazaOku(i, o, a, c)
    <2> DEFINE s == [tur |-> "kaza", arac |-> a, surucu |-> Surucu(a, c), form |-> c,
                     onay |-> "bekliyor", onaylayan |-> Yok, neden |-> Yok]
    <2>1. OlayBicimi(s) /\ s.arac = a /\ s.surucu = Surucu(a, c) /\ s.form = c
        BY <1>3 DEF OlayBicimi, KazaSatiri
    <2>2. OlayOku(i, o, s)
        BY <1>4 DEF KazaOku
    <2> HIDE DEF s
    <2> QED
        BY <1>2, <2>1, <2>2, OlayOkuYeter DEF SurucuBelli
<1>5. CASE CezaOku(i, o, a, c)
    <2> DEFINE s == [tur |-> "ceza", arac |-> a, surucu |-> Surucu(a, c), form |-> c,
                     odendi |-> FALSE, yansitildi |-> FALSE]
    <2>1. OlayBicimi(s) /\ s.arac = a /\ s.surucu = Surucu(a, c) /\ s.form = c
        BY <1>3 DEF OlayBicimi, CezaSatiri
    <2>2. OlayOku(i, o, s)
        BY <1>5 DEF CezaOku
    <2> HIDE DEF s
    <2> QED
        BY <1>2, <2>1, <2>2, OlayOkuYeter DEF SurucuBelli
<1> QED
    BY <1>4, <1>5

LEMMA IkameOkuKorur ==
    ASSUME FiloIInv, NEW i \in Istekler, NEW o \in Olaylar, NEW a \in Araclar, IkameOku(i, o, a)
    PROVE  FiloIInv'
<1> DEFINE s == [tur |-> "ikame", arac |-> a, iade |-> FALSE]
<1>1. OlayBicimi(s) /\ SurucuBelli(s)
    BY DEF OlayBicimi, IkameSatiri, SurucuBelli
<1> QED
    BY <1>1, OlayOkuYeter DEF IkameOku

\* Row o of the events is written, and still says whom it is about.
LEMMA OlaySatiriYeter ==
    ASSUME FiloIInv, NEW i \in Istekler, istek[i] # Bos, Bitti(i), UNCHANGED aracVars,
           NEW o \in Olaylar, NEW s, olay' = [olay EXCEPT ![o] = s],
           OlayBicimi(s), SurucuBelli(s)
    PROVE  FiloIInv'
<1>1. arac' = arac /\ gecmis' = gecmis /\ fis' = fis /\ isci' = isci
    BY DEF aracVars, Bitti
<1>2. olay'[o] = s /\ \A p \in Olaylar \ {o} : olay'[p] = olay[p]
    BY DEF FiloIInv, SatirInv, OlayTuru
<1>3. SurucuBelli(s)'
    BY <1>1 DEF SurucuBelli, SahipOldu
<1>4. OlayBicimi(olay[o])' /\ SurucuBelli(olay[o])'
    BY <1>2, <1>3 DEF OlayBicimi, SurucuBelli
<1>5. Ilerler
    BY <1>1, <1>2, <1>4 DEF Ilerler, FiloIInv, SatirInv, AracTypeOK
<1>6. AracTypeOK' /\ GecmissizYok' /\ SahipGecmiste'
    BY <1>1 DEF FiloIInv, SatirInv, AracTypeOK, GecmissizYok, SahipGecmiste, SahipOldu
<1>7. OlayTuru'
    BY <1>2, <1>4 DEF FiloIInv, SatirInv, OlayTuru
<1>8. KisiTasimisti'
    <2>1. ASSUME NEW a \in Araclar, NEW k \in DOMAIN gecmis'[a], gecmis'[a][k].eden # Yok
          PROVE  SahipOldu(a, gecmis[a][k].eden, k - 1)'
        BY <2>1, <1>1 DEF FiloIInv, SatirInv, KisiTasimisti, SahipOldu
    <2>2. ASSUME NEW p \in Olaylar, olay'[p] # Yok
          PROVE  SurucuBelli(olay[p])'
        <3>1. CASE p = o
            BY <3>1, <1>4
        <3>2. CASE p # o
            BY <2>2, <3>2, <1>1, <1>2 DEF FiloIInv, SatirInv, KisiTasimisti, SurucuBelli, SahipOldu
        <3> QED
            BY <3>1, <3>2
    <2> QED
        BY <2>1, <2>2 DEF KisiTasimisti, SurucuBelli
<1>9. AracGecmisten'
    BY <1>1 DEF FiloIInv, SatirInv, AracGecmisten, SonSifirlama, Sifirlar, Sirali
<1>10. SatirInv'
    BY <1>6, <1>7, <1>8, <1>9 DEF SatirInv
<1>11. FisSayisi'
    BY <1>1, SayiBitti
<1> QED
    BY <1>5, <1>10, <1>11, BittiYeter

LEMMA OlayEkleKorur ==
    ASSUME FiloIInv, NEW i \in Istekler, OlayEkle(i)
    PROVE  FiloIInv'
<1>1. OlayEkleHazir(i) /\ istek[i].is = "olay_ekle"
    BY DEF OlayEkle, FiloIInv, Hazir
<1>2. istek[i] # Bos
    BY <1>1 DEF Bos
<1> QED
    BY <1>1, <1>2, OlaySatiriYeter DEF OlayEkle, OlayEkleHazir

\* The decision about an accident, and what becomes of a fine or a replacement.
LEMMA OlayYazarYeter ==
    ASSUME FiloIInv, NEW i \in Istekler, NEW o \in Olaylar, olay[o] # Yok,
           NEW y, OlayYazar(i, o, y), DOMAIN y = DOMAIN olay[o], OlayBicimi(y),
           \A k \in {"tur", "arac", "surucu", "form"} : k \in DOMAIN y => y[k] = olay[o][k]
    PROVE  FiloIInv'
<1> DEFINE f == Fark(olay[o], y)
           r == [is |-> "olay", olay |-> o, fark |-> f]
<1>1. OlayBicimi(olay[o]) /\ SurucuBelli(olay[o])
    BY DEF FiloIInv, SatirInv, OlayTuru, KisiTasimisti, SurucuBelli
<1>2. OlayFarki(f)
    BY OlayFarkOlur
<1>3. gecmis' = gecmis /\ olay' = olay /\ Basla(i, r)
    BY DEF OlayYazar, aracVars
<1>4. OlayBicimi(olay[o])' /\ SurucuBelli(olay[o])'
    BY <1>1, <1>3 DEF OlayBicimi, SurucuBelli, SahipOldu
<1> HIDE DEF f
<1>5. ASSUME istek'[i] = r
      PROVE  Hazir(i)'
    <2>1. istek'[i].is = "olay" /\ istek'[i].olay = o /\ istek'[i].fark = f
        BY <1>5
    <2>2. OlayHazir(i)'
        BY <1>2, <1>4, <2>1 DEF OlayHazir
    <2> QED
        BY <2>1, <2>2 DEF Hazir, AracHazir, ImportHazir, OlayEkleHazir
<1> QED
    BY <1>3, <1>5, BaslaYeter DEF OlayYazar

LEMMA OlayKararKorur ==
    ASSUME FiloIInv, NEW i \in Istekler, NEW o \in Olaylar,
           \/ \E u \in Kullanicilar : KazaOnaylaOku(i, o, u) \/ KazaReddetOku(i, o, u)
           \/ CezaOdeOku(i, o)
           \/ CezaYansitOku(i, o)
           \/ IkameIadeOku(i, o)
    PROVE  FiloIInv'
<1>1. olay[o] # Yok => OlayBicimi(olay[o])
    BY DEF FiloIInv, SatirInv, OlayTuru
<1>2. ASSUME NEW u \in Kullanicilar, KazaOnaylaOku(i, o, u) \/ KazaReddetOku(i, o, u)
      PROVE  FiloIInv'
    <2>1. olay[o] # Yok /\ olay[o] \in KazaSatiri
        BY <1>1, <1>2, OlaySatirlari DEF KazaOnaylaOku, KazaReddetOku
    <2>2. /\ [olay[o] EXCEPT !.onay = "onaylandi", !.onaylayan = u] \in KazaSatiri
          /\ [olay[o] EXCEPT !.onay = "reddedildi", !.onaylayan = u, !.neden = u] \in KazaSatiri
        BY <2>1 DEF KazaSatiri
    <2> QED
        BY <1>2, <2>1, <2>2, OlayYazarYeter DEF KazaOnaylaOku, KazaReddetOku, OlayBicimi, KazaSatiri
<1>3. ASSUME CezaOdeOku(i, o) \/ CezaYansitOku(i, o) PROVE FiloIInv'
    <2>1. olay[o] # Yok /\ olay[o] \in CezaSatiri
        BY <1>1, <1>3, OlaySatirlari DEF CezaOdeOku, CezaYansitOku
    <2>2. /\ [olay[o] EXCEPT !.odendi = TRUE] \in CezaSatiri
          /\ [olay[o] EXCEPT !.yansitildi = TRUE] \in CezaSatiri
        BY <2>1 DEF CezaSatiri
    <2> QED
        BY <1>3, <2>1, <2>2, OlayYazarYeter DEF CezaOdeOku, CezaYansitOku, OlayBicimi, CezaSatiri
<1>4. ASSUME IkameIadeOku(i, o) PROVE FiloIInv'
    <2>1. olay[o] # Yok /\ olay[o] \in IkameSatiri
        BY <1>1, <1>4, OlaySatirlari DEF IkameIadeOku
    <2>2. [olay[o] EXCEPT !.iade = TRUE] \in IkameSatiri
        BY <2>1 DEF IkameSatiri
    <2> QED
        BY <1>4, <2>1, <2>2, OlayYazarYeter DEF IkameIadeOku, OlayBicimi, IkameSatiri
<1> QED
    BY <1>2, <1>3, <1>4

LEMMA OlayYazKorur ==
    ASSUME FiloIInv, NEW i \in Istekler, OlayYaz(i)
    PROVE  FiloIInv'
<1>1. OlayHazir(i) /\ istek[i].is = "olay"
    BY DEF OlayYaz, FiloIInv, Hazir
<1>2. istek[i] # Bos
    BY <1>1 DEF Bos
<1> PICK o \in Olaylar : o = istek[i].olay
    BY <1>1 DEF OlayHazir
<1> DEFINE u == Uygula(olay[o], istek[i].fark)
<1>3. OlayBicimi(u) /\ SurucuBelli(u)
    BY <1>1, OlayUygula DEF OlayHazir
<1>4. olay' = [olay EXCEPT ![o] = u]
    BY DEF OlayYaz
<1> QED
    BY <1>2, <1>3, <1>4, OlaySatiriYeter DEF OlayYaz

LEMMA OlayBirakKorur ==
    ASSUME FiloIInv, NEW i \in Istekler, OlayBirak(i)
    PROVE  FiloIInv'
<1>1. istek[i] # Bos
    BY DEF OlayBirak, Bos
<1>2. SatirInv' /\ Ilerler
    BY SatirlarDurur DEF OlayBirak, Bitti, FiloIInv
<1>3. FisSayisi'
    BY SayiBitti DEF OlayBirak, aracVars
<1> QED
    BY <1>1, <1>2, <1>3, BittiYeter DEF OlayBirak

-----------------------------------------------------------------------------
(* The theorems.                                                           *)

LEMMA FiloBaslangic == OturumInit /\ AracInit /\ OlayInit => FiloIInv
<1> SUFFICES ASSUME OturumInit, AracInit, OlayInit PROVE FiloIInv
    OBVIOUS
<1>1. /\ \A a \in Araclar : arac[a] = Yok /\ gecmis[a] = << >>
      /\ \A a \in Araclar, f \in Fisler : fis[a][f] = [elle |-> 0, excel |-> 0]
      /\ \A o \in Olaylar : olay[o] = Yok
      /\ \A i \in Istekler : istek[i] = Bos
    BY DEF OturumInit, AracInit, OlayInit
<1>2. AracTypeOK
    BY DEF AracInit, AracTypeOK, FisSatiri
<1>3. OlayTuru /\ GecmissizYok /\ SahipGecmiste
    BY <1>1 DEF OlayInit, OlayTuru, GecmissizYok, SahipGecmiste
<1>4. KisiTasimisti /\ AracGecmisten
    BY <1>1 DEF KisiTasimisti, AracGecmisten
<1>5. IstekTuru /\ \A i \in Istekler : Hazir(i)
    BY <1>1 DEF OturumInit, Bos, IstekTuru, Hazir, AracHazir, ImportHazir, OlayEkleHazir,
        OlayHazir
<1>6. FisSayisi
    <2>1. \A a \in Araclar, f \in Fisler : fis[a][f].excel = 0
        BY <1>1
    <2>2. \A a \in Araclar, f \in Fisler :
            /\ Cardinality(Aktaranlar(a, f)) \in Nat
            /\ Cardinality(Aktaranlar(a, f)) <= Cardinality(isci)
        BY <1>5, AktaranSonlu
    <2> QED
        BY <2>1, <2>2 DEF FisSayisi
<1> QED
    BY <1>2, <1>3, <1>4, <1>5, <1>6 DEF FiloIInv, SatirInv

LEMMA AracAdimi ==
    ASSUME FiloIInv, AracNext, UNCHANGED olay
    PROVE  FiloIInv'
<1> USE DEF Kisi
<1>1. 0 \in Km
    BY AracAssumption DEF Km
<1>2. ASSUME TeslimNext PROVE FiloIInv'
    BY <1>2, AracEkleKorur, DuzenleOkuKorur, TeslimOkuKorur, KullanimOkuKorur, AracYazKorur,
        AracBirakKorur DEF TeslimNext
<1>3. ASSUME YakitNext PROVE FiloIInv'
    BY <1>1, <1>3, AracEkleKorur, AracAtaKorur, ImportBaslaKorur, SilOkuKorur, DuzenleOkuKorur,
        ImportSatirKorur, KullanimOkuKorur, AracYazKorur, ImportYazKorur, AracBirakKorur
        DEF YakitNext
<1> QED
    BY <1>2, <1>3 DEF AracNext

LEMMA OlayAdimi ==
    ASSUME FiloIInv, OlayNext
    PROVE  FiloIInv'
<1>1. 0 \in Km
    BY AracAssumption DEF Km
<1>2. ASSUME NEW a \in Araclar, NEW c \in Kisi, UNCHANGED olay,
             \/ AracEkle(a, c, Yok, 0)
             \/ \E i \in Istekler : IadeOku(i, a, 0) \/ TeslimOku(i, a, c, 0)
      PROVE  FiloIInv'
    BY <1>1, <1>2, AracEkleKorur, TeslimOkuKorur
<1>3. ASSUME NEW i \in Istekler, UNCHANGED olay, AracYaz(i) \/ AracBirak(i)
      PROVE  FiloIInv'
    BY <1>3, AracYazKorur, AracBirakKorur
<1>4. ASSUME NEW i \in Istekler, NEW o \in Olaylar, NEW a \in Araclar, NEW c \in Kisi,
             KazaOku(i, o, a, c) \/ CezaOku(i, o, a, c) \/ IkameOku(i, o, a)
      PROVE  FiloIInv'
    BY <1>4, KazaCezaOkuKorur, IkameOkuKorur
<1>5. ASSUME NEW i \in Istekler, NEW o \in Olaylar,
             \/ \E u \in Kullanicilar : KazaOnaylaOku(i, o, u) \/ KazaReddetOku(i, o, u)
             \/ CezaOdeOku(i, o) \/ CezaYansitOku(i, o) \/ IkameIadeOku(i, o)
      PROVE  FiloIInv'
    BY <1>5, OlayKararKorur
<1>6. ASSUME NEW i \in Istekler, OlayEkle(i) \/ OlayYaz(i) \/ OlayBirak(i)
      PROVE  FiloIInv'
    BY <1>6, OlayEkleKorur, OlayYazKorur, OlayBirakKorur
<1>7. Yok \in Kisi
    BY DEF Kisi
<1> QED
    BY <1>2, <1>3, <1>4, <1>5, <1>6, <1>7 DEF OlayNext

LEMMA FiloAdimi == FiloIInv /\ [FiloNext]_filoVars => FiloIInv'
<1> SUFFICES ASSUME FiloIInv, [FiloNext]_filoVars PROVE FiloIInv'
    OBVIOUS
<1>1. ASSUME UNCHANGED filoVars PROVE FiloIInv'
    <2>1. UNCHANGED <<aracVars, olay>> /\ UNCHANGED oturum /\ isci' = isci /\ fis' = fis
        BY <1>1 DEF filoVars, oturum, aracVars
    <2>2. SatirInv' /\ Ilerler /\ KopyaKalir
        BY <2>1, SatirlarDurur DEF FiloIInv
    <2> QED
        BY <2>1, <2>2, FormYeter
<1> QED
    BY <1>1, AracAdimi, OlayAdimi DEF FiloNext

LEMMA FiloDegismez == FiloSpec => []FiloIInv
BY FiloBaslangic, FiloAdimi, PTL DEF FiloSpec

LEMMA OlayTipi == OlayTuru => OlayTypeOK
BY DEF OlayTuru, OlayBicimi, OlayTypeOK

\* Whatever the number of vehicles, receipts, events and threads: the rows of the
\* vehicles, their histories, their receipts and their events keep their types.
THEOREM AracTipleri == FiloSpec => [](AracTypeOK /\ OlayTypeOK)
<1>1. FiloIInv => AracTypeOK /\ OlayTypeOK
    BY OlayTipi DEF FiloIInv, SatirInv
<1> QED
    BY <1>1, FiloDegismez, PTL

\* With one thread, a vehicle's holder and mileage are those its history ends in.
THEOREM AracKayitlarda == FiloSpec => []AracGecmisten
<1>1. FiloIInv => AracGecmisten
    BY DEF FiloIInv, SatirInv
<1> QED
    BY <1>1, FiloDegismez, PTL

LEMMA FisTekil == FiloIInv => IceAktarimTekil
<1> SUFFICES ASSUME FiloIInv, NEW a \in Araclar, NEW f \in Fisler, Saklanan[f] = f
             PROVE  fis[a][f].excel <= Cardinality(isci)
    BY DEF IceAktarimTekil
<1>1. fis[a][f].excel \in Nat
    BY DEF FiloIInv, SatirInv, AracTypeOK, FisSatiri
<1>2. Cardinality(Aktaranlar(a, f)) \in Nat /\ Cardinality(isci) \in Nat
    BY AktaranSonlu DEF FiloIInv
<1>3. fis[a][f].excel + Cardinality(Aktaranlar(a, f)) <= Cardinality(isci)
    BY DEF FiloIInv, FisSayisi
<1> QED
    BY <1>1, <1>2, <1>3

\* With any number of threads, whatever files are imported and in whatever order, whole or
\* cut off: a vehicle's receipt that the column keeps as it is gets no more imported rows
\* than there are threads (one with one thread), however other receipts are rounded.
THEOREM FislerTekil == FiloSpec => []IceAktarimTekil
BY FisTekil, FiloDegismez, PTL

\* With any number of threads, whoever is entered as returning a vehicle, or as its
\* driver when the form names none, has been entered as its holder before.
THEOREM KisilerTasidi == FiloSpec => []KisiTasimisti
<1>1. FiloIInv => KisiTasimisti
    BY DEF FiloIInv, SatirInv
<1> QED
    BY <1>1, FiloDegismez, PTL
=============================================================================
