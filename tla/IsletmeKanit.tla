----------------------------- MODULE IsletmeKanit ---------------------------
(***************************************************************************)
(* Proofs about Destek, for any number of tickets, team members and        *)
(* threads (their numbers have no gap, and their dates agree with their    *)
(* states, assignments and answers), and about the vehicles, the           *)
(* trainings, the help desk and the files together.                        *)
(***************************************************************************)
EXTENDS MCIsletme, FiloKanit, EgitimKanit, FiniteSetTheorems, TLAPS

-----------------------------------------------------------------------------
(* The inductive invariant.                                                *)

\* What a handler may write to a ticket: never its number, and a first answer only in
\* place of none.
TalepFarki(f) ==
    /\ DOMAIN f \subseteq {"durum", "acil", "atanan", "atanma", "ilkYanit", "cozum", "kapatma"}
    /\ "durum" \in DOMAIN f => f["durum"] \in Durumlar
    /\ "acil" \in DOMAIN f => f["acil"] \in BOOLEAN
    /\ "atanan" \in DOMAIN f => f["atanan"] \in Ekip \cup {Yok}
    /\ "atanma" \in DOMAIN f => f["atanma"] \in BOOLEAN
    /\ "cozum" \in DOMAIN f => f["cozum"] = TRUE
    /\ "kapatma" \in DOMAIN f => f["kapatma"] = TRUE

TalepSonra(s, f, k) == IF k \in DOMAIN f THEN f[k] ELSE s[k]

Cevaplar(t) == {k \in DOMAIN yorum[t] : yorum[t][k] = "cevap"}

\* A state that stands for a date comes with it.
DurumTarihli(s, f) ==
    /\ "durum" \in DOMAIN f /\ f["durum"] = "cozuldu" => "cozum" \in DOMAIN f \/ s.cozum
    /\ "durum" \in DOMAIN f /\ f["durum"] = "kapatildi" => "kapatma" \in DOMAIN f \/ s.kapatma

AtamaTarihli(s, f) == TalepSonra(s, f, "atanma") <=> TalepSonra(s, f, "atanan") # Yok

\* A thread that will enter a ticket: the number it has read is the next one or taken.
EkleHazir(i) ==
    istek[i].is = "talep_ac" =>
        /\ istek[i].talep \in Talepler
        /\ istek[i].satir \in TalepSatiri
        /\ istek[i].satir.no \in 1..(Cardinality(Acilan) + 1)
        /\ istek[i].satir.ilkYanit = 0
        /\ istek[i].satir.durum \in {"acik", "atandi"}
        /\ istek[i].satir.atanma <=> istek[i].satir.atanan # Yok

\* A thread that will write to a ticket; with one thread its copy is still the row.
YazHazir(i) ==
    istek[i].is = "talep" =>
        LET t == istek[i].talep
            f == istek[i].fark
            ilk == "ilkYanit" \in DOMAIN f
        IN  /\ t \in Talepler
            /\ talep[t] # Yok
            /\ TalepFarki(f)
            /\ istek[i].tip \in YorumTipi \cup {Yok}
            /\ ilk => istek[i].tip = "cevap"
            /\ istek[i].tip = "cevap" => ilk \/ talep[t].ilkYanit # 0
            /\ DurumTarihli(talep[t], f)
            /\ Sirali => AtamaTarihli(talep[t], f)
            /\ Sirali => (ilk => talep[t].ilkYanit = 0)

TalepHazir(i) == EkleHazir(i) /\ YazHazir(i)

TalepSahipli ==
    /\ istek = [i \in Istekler |-> istek[i]]
    /\ \A i \in Istekler : istek[i] # Bos => i \in isci

NoKumesi == {talep[t].no : t \in Acilan} = 1..Cardinality(Acilan)

YorumsuzAcilmamis == \A t \in Talepler : talep[t] = Yok => yorum[t] = << >>

\* TarihlerTutarli for one ticket.
Tutarli(t) ==
    LET s == talep[t]
    IN  /\ IF Cevaplar(t) = {} THEN s.ilkYanit = 0 ELSE s.ilkYanit \in Cevaplar(t)
        /\ Sirali => \A k \in Cevaplar(t) : s.ilkYanit <= k
        /\ Sirali => (s.atanma <=> s.atanan # Yok)
        /\ s.durum = "cozuldu" => s.cozum
        /\ s.durum = "kapatildi" => s.kapatma

DestekIInv ==
    /\ DestekTypeOK
    /\ TalepSahipli
    /\ \A i \in Istekler : TalepHazir(i)
    /\ NoKumesi
    /\ YorumsuzAcilmamis
    /\ \A t \in Acilan : Tutarli(t)

-----------------------------------------------------------------------------
(* Rows and the columns written to them.                                   *)

LEMMA TalepSatirlari ==
    ASSUME NEW s \in TalepSatiri
    PROVE  /\ s # Yok
           /\ DOMAIN s = {"no", "durum", "acil", "atanan", "atanma", "ilkYanit", "cozum", "kapatma"}
           /\ s.no \in Nat
           /\ s.durum \in Durumlar
           /\ s.acil \in BOOLEAN
           /\ s.atanan \in Ekip \cup {Yok}
           /\ s.atanma \in BOOLEAN
           /\ s.ilkYanit \in Nat
           /\ s.cozum \in BOOLEAN
           /\ s.kapatma \in BOOLEAN
BY DestekAssumption DEF TalepSatiri

\* Writing columns leaves the row well formed and its number alone.
LEMMA TalepUygula ==
    ASSUME NEW s \in TalepSatiri, NEW f, TalepFarki(f), NEW n \in Nat
    PROVE  LET u == Uygula(s, Yazilan(f, n))
           IN  /\ u \in TalepSatiri
               /\ u.no = s.no
               /\ u.durum = TalepSonra(s, f, "durum")
               /\ u.atanan = TalepSonra(s, f, "atanan")
               /\ u.atanma = TalepSonra(s, f, "atanma")
               /\ u.ilkYanit = IF "ilkYanit" \in DOMAIN f THEN n ELSE s.ilkYanit
               /\ u.cozum <=> s.cozum \/ "cozum" \in DOMAIN f
               /\ u.kapatma <=> s.kapatma \/ "kapatma" \in DOMAIN f
<1> DEFINE y == Yazilan(f, n)
           u == Uygula(s, y)
<1>1. /\ DOMAIN y = DOMAIN f
      /\ "ilkYanit" \in DOMAIN f => y["ilkYanit"] = n
      /\ \A k \in DOMAIN f : k # "ilkYanit" => y[k] = f[k]
    BY DEF Yazilan
<1> HIDE DEF y
<1>2. /\ DOMAIN u = DOMAIN s
      /\ \A k \in DOMAIN s : u[k] = IF k \in DOMAIN f THEN y[k] ELSE s[k]
    BY <1>1 DEF Uygula
<1>3. /\ u["no"] = s.no
      /\ u["durum"] = TalepSonra(s, f, "durum")
      /\ u["acil"] = TalepSonra(s, f, "acil")
      /\ u["atanan"] = TalepSonra(s, f, "atanan")
      /\ u["atanma"] = TalepSonra(s, f, "atanma")
      /\ u["ilkYanit"] = IF "ilkYanit" \in DOMAIN f THEN n ELSE s.ilkYanit
      /\ u["cozum"] = TalepSonra(s, f, "cozum")
      /\ u["kapatma"] = TalepSonra(s, f, "kapatma")
    BY <1>1, <1>2, TalepSatirlari DEF TalepSonra, TalepFarki
<1>4. u = [no |-> u["no"], durum |-> u["durum"], acil |-> u["acil"], atanan |-> u["atanan"],
           atanma |-> u["atanma"], ilkYanit |-> u["ilkYanit"], cozum |-> u["cozum"],
           kapatma |-> u["kapatma"]]
    BY <1>2, TalepSatirlari DEF Uygula
<1> HIDE DEF u
<1>5. u \in TalepSatiri
    BY <1>3, <1>4, TalepSatirlari DEF TalepSonra, TalepFarki, TalepSatiri
<1>6. (u["cozum"] <=> s.cozum \/ "cozum" \in DOMAIN f)
      /\ (u["kapatma"] <=> s.kapatma \/ "kapatma" \in DOMAIN f)
    BY <1>3, TalepSatirlari DEF TalepSonra, TalepFarki
<1> QED
    BY <1>3, <1>5, <1>6 DEF u, y

\* The columns in which a changed copy y differs from the row s.
LEMMA TalepFarklari ==
    ASSUME NEW s \in TalepSatiri, NEW y \in TalepSatiri, y["no"] = s["no"],
           y["ilkYanit"] = s["ilkYanit"],
           y["cozum"] = s["cozum"] \/ y["cozum"] = TRUE,
           y["kapatma"] = s["kapatma"] \/ y["kapatma"] = TRUE
    PROVE  /\ TalepFarki(Fark(s, y))
           /\ "ilkYanit" \notin DOMAIN Fark(s, y)
           /\ \A k \in DOMAIN s : k \in DOMAIN Fark(s, y) <=> y[k] # s[k]
           /\ \A k \in DOMAIN Fark(s, y) : Fark(s, y)[k] = y[k]
           /\ \A k \in DOMAIN s : TalepSonra(s, Fark(s, y), k) = y[k]
<1>1. DOMAIN y = DOMAIN s
    BY TalepSatirlari
<1>2. /\ DOMAIN Fark(s, y) = {k \in DOMAIN s : y[k] # s[k]}
      /\ \A k \in DOMAIN Fark(s, y) : Fark(s, y)[k] = y[k]
    BY <1>1 DEF Fark
<1>3. TalepFarki(Fark(s, y))
    BY <1>2, TalepSatirlari DEF TalepFarki
<1> QED
    BY <1>2, <1>3, TalepSatirlari DEF TalepSonra

-----------------------------------------------------------------------------
(* What all steps have in common.                                          *)

\* Tickets are kept, and so are their dates of an answer, a solution and a closing.
TalepIlerler ==
    /\ isci' = isci
    /\ Cardinality(Acilan) \in Nat
    /\ Cardinality(Acilan)' \in Nat
    /\ Cardinality(Acilan) <= Cardinality(Acilan)'
    /\ \A t \in Talepler : talep[t] # Yok =>
         /\ talep'[t] # Yok
         /\ talep[t].ilkYanit # 0 => talep'[t].ilkYanit # 0
         /\ talep[t].cozum => talep'[t].cozum
         /\ talep[t].kapatma => talep'[t].kapatma

LEMMA Satirlar == DestekIInv => \A t \in Acilan : t \in Talepler /\ talep[t] \in TalepSatiri
BY DEF DestekIInv, DestekTypeOK, Acilan

LEMMA Sayilabilir ==
    /\ IsFiniteSet(Acilan)
    /\ Cardinality(Acilan) \in Nat
    /\ IsFiniteSet(Acilan')
    /\ Cardinality(Acilan') \in Nat
<1>1. Acilan \subseteq Talepler /\ Acilan' \subseteq Talepler
    BY DEF Acilan
<1> QED
    BY <1>1, DestekAssumption, FS_Subset, FS_CardinalityType

LEMMA TalepHazirKalir ==
    ASSUME TalepIlerler, NEW j \in Istekler, TalepHazir(j), istek'[j] = istek[j],
           Sirali /\ istek[j].is = "talep" => talep' = talep
    PROVE  TalepHazir(j)'
<1>1. EkleHazir(j)'
    BY DEF TalepHazir, EkleHazir, TalepIlerler
<1>2. Sirali' <=> Sirali
    BY DEF Sirali, TalepIlerler
<1>3. YazHazir(j)'
    BY <1>2 DEF TalepHazir, YazHazir, TalepIlerler, DurumTarihli
<1> QED
    BY <1>1, <1>3 DEF TalepHazir

\* The tickets, their numbers and their comments are as before.
LEMMA TaleplerDurur ==
    ASSUME DestekIInv, talep' = talep, yorum' = yorum, isci' = isci,
           kategori' \in [Kategoriler -> [varsayilan : Ekip \cup {Yok}] \cup {Yok}]
    PROVE  /\ TalepIlerler
           /\ DestekTypeOK' /\ NoKumesi' /\ YorumsuzAcilmamis' /\ \A t \in Acilan' : Tutarli(t)'
<1>1. Acilan' = Acilan
    BY DEF Acilan
<1>2. TalepIlerler
    BY <1>1, Sayilabilir DEF TalepIlerler
<1>3. DestekTypeOK' /\ YorumsuzAcilmamis'
    BY DEF DestekIInv, DestekTypeOK, YorumsuzAcilmamis
<1>4. NoKumesi'
    BY <1>1 DEF DestekIInv, NoKumesi
<1>5. \A t \in Acilan' : Tutarli(t)'
    BY <1>1 DEF DestekIInv, Tutarli, Cevaplar, Sirali
<1> QED
    BY <1>2, <1>3, <1>4, <1>5

\* A handler has read: only its own thread has to be looked at.
LEMMA TalepBaslar ==
    ASSUME DestekIInv, NEW i \in Istekler, NEW r, Basla(i, r), UNCHANGED destekVars,
           istek'[i] = r => TalepHazir(i)'
    PROVE  DestekIInv'
<1>1. /\ TalepIlerler
      /\ DestekTypeOK' /\ NoKumesi' /\ YorumsuzAcilmamis' /\ \A t \in Acilan' : Tutarli(t)'
    BY TaleplerDurur DEF Basla, destekVars, DestekIInv, DestekTypeOK
<1>2. istek'[i] = r /\ \A j \in Istekler \ {i} : istek'[j] = istek[j]
    BY DEF Basla, DestekIInv, TalepSahipli
<1>3. TalepSahipli'
    BY DEF Basla, DestekIInv, TalepSahipli
<1>4. talep' = talep
    BY DEF destekVars
<1>5. \A j \in Istekler : TalepHazir(j)'
    BY <1>1, <1>2, <1>4, TalepHazirKalir DEF DestekIInv
<1> QED
    BY <1>1, <1>3, <1>5 DEF DestekIInv

\* A handler has ended: only the rows have to be looked at.
LEMMA TalepBiter ==
    ASSUME DestekIInv, NEW i \in Istekler, istek[i] # Bos, Bitti(i), TalepIlerler,
           DestekTypeOK', NoKumesi', YorumsuzAcilmamis', \A t \in Acilan' : Tutarli(t)'
    PROVE  DestekIInv'
<1>1. istek'[i] = Bos /\ \A j \in Istekler \ {i} : istek'[j] = istek[j]
    BY DEF Bitti, DestekIInv, TalepSahipli
<1>2. TalepSahipli'
    BY <1>1 DEF Bitti, DestekIInv, TalepSahipli
<1>3. TalepHazir(i)'
    BY <1>1 DEF Bos, TalepHazir, EkleHazir, YazHazir
<1>4. ASSUME NEW j \in Istekler \ {i}
      PROVE  TalepHazir(j)'
    <2>1. istek[j].is = "talep" => ~Sirali
        BY DEF DestekIInv, TalepSahipli, Sirali, Bos
    <2> QED
        BY <1>1, <2>1, TalepHazirKalir DEF DestekIInv
<1> QED
    BY <1>2, <1>3, <1>4 DEF DestekIInv

\* A handler that writes fark to ticket t has read.
LEMMA TalepYazarYeter ==
    ASSUME DestekIInv, NEW i \in Istekler, NEW t \in Talepler, NEW f, NEW tip \in YorumTipi \cup {Yok},
           TalepYazar(i, t, f, tip),
           TalepFarki(f),
           "ilkYanit" \in DOMAIN f => tip = "cevap" /\ talep[t].ilkYanit = 0,
           tip = "cevap" => "ilkYanit" \in DOMAIN f \/ talep[t].ilkYanit # 0,
           DurumTarihli(talep[t], f),
           Sirali => AtamaTarihli(talep[t], f)
    PROVE  DestekIInv'
<1> DEFINE r == [is |-> "talep", talep |-> t, fark |-> f, tip |-> tip]
<1>1. talep[t] # Yok /\ Basla(i, r) /\ UNCHANGED destekVars
    BY DEF TalepYazar
<1>2. talep' = talep /\ (Sirali' <=> Sirali)
    BY <1>1 DEF destekVars, Basla, Sirali
<1>3. ASSUME istek'[i] = r
      PROVE  TalepHazir(i)'
    BY <1>1, <1>2, <1>3 DEF TalepHazir, EkleHazir, YazHazir, DurumTarihli, AtamaTarihli, TalepSonra
<1> QED
    BY <1>1, <1>3, TalepBaslar

\* The same for a handler that has changed its copy into y.
LEMMA KopyaYeter ==
    ASSUME DestekIInv, NEW i \in Istekler, NEW t \in Talepler, NEW y \in TalepSatiri,
           NEW tip \in (YorumTipi \cup {Yok}) \ {"cevap"},
           talep[t] # Yok, TalepYazar(i, t, Fark(talep[t], y), tip),
           y["no"] = talep[t]["no"], y["ilkYanit"] = talep[t]["ilkYanit"],
           y["cozum"] = talep[t]["cozum"] \/ y["cozum"] = TRUE,
           y["kapatma"] = talep[t]["kapatma"] \/ y["kapatma"] = TRUE,
           y["durum"] = "cozuldu" => y["cozum"] \/ y["durum"] = talep[t]["durum"],
           y["durum"] = "kapatildi" => y["kapatma"] \/ y["durum"] = talep[t]["durum"],
           Sirali => (y["atanma"] <=> y["atanan"] # Yok)
    PROVE  DestekIInv'
<1> DEFINE s == talep[t]
           f == Fark(s, y)
<1>1. s \in TalepSatiri
    BY Satirlar DEF Acilan
<1>2. /\ TalepFarki(f)
      /\ "ilkYanit" \notin DOMAIN f
      /\ \A k \in DOMAIN s : k \in DOMAIN f <=> y[k] # s[k]
      /\ \A k \in DOMAIN f : f[k] = y[k]
      /\ \A k \in DOMAIN s : TalepSonra(s, f, k) = y[k]
    BY <1>1, TalepFarklari
<1>3. DurumTarihli(s, f)
    BY <1>1, <1>2, TalepSatirlari DEF DurumTarihli
<1>4. Sirali => AtamaTarihli(s, f)
    BY <1>1, <1>2, TalepSatirlari DEF AtamaTarihli
<1> HIDE DEF f
<1> QED
    BY <1>2, <1>3, <1>4, TalepYazarYeter DEF f

-----------------------------------------------------------------------------
(* The steps that read.                                                    *)

LEMMA HicFarkBos == DOMAIN HicFark = {} /\ TalepFarki(HicFark)
BY DEF HicFark, TalepFarki

\* With one thread at work the dates of the row itself agree.
LEMMA SatirTarihli ==
    ASSUME DestekIInv, NEW t \in Talepler, talep[t] # Yok
    PROVE  /\ talep[t] \in TalepSatiri
           /\ Sirali => (talep[t]["atanma"] <=> talep[t]["atanan"] # Yok)
<1>1. t \in Acilan
    BY DEF Acilan
<1> QED
    BY <1>1, Satirlar DEF DestekIInv, Tutarli

LEMMA YorumOkuKorur ==
    ASSUME DestekIInv, NEW i \in Istekler, NEW t \in Talepler, YorumOku(i, t) \/ CevapOku(i, t)
    PROVE  DestekIInv'
<1> DEFINE Ilk == [ilkYanit |-> Yok]
<1>1. talep[t] # Yok /\ {"yorum", "cevap"} \subseteq YorumTipi
    BY DEF YorumOku, CevapOku, TalepYazar, YorumTipi
<1>2. /\ DurumTarihli(talep[t], HicFark)
      /\ Sirali => AtamaTarihli(talep[t], HicFark)
    BY <1>1, SatirTarihli, HicFarkBos DEF DurumTarihli, AtamaTarihli, TalepSonra
<1>3. /\ DOMAIN Ilk = {"ilkYanit"}
      /\ TalepFarki(Ilk)
      /\ DurumTarihli(talep[t], Ilk)
      /\ Sirali => AtamaTarihli(talep[t], Ilk)
    BY <1>1, SatirTarihli DEF TalepFarki, DurumTarihli, AtamaTarihli, TalepSonra
<1> HIDE DEF Ilk
<1>4. CASE YorumOku(i, t)
    BY <1>1, <1>2, <1>4, HicFarkBos, TalepYazarYeter DEF YorumOku
<1>5. CASE CevapOku(i, t) /\ talep[t].ilkYanit = 0
    BY <1>1, <1>3, <1>5, TalepYazarYeter DEF CevapOku, Ilk
<1>6. CASE CevapOku(i, t) /\ talep[t].ilkYanit # 0
    BY <1>1, <1>2, <1>6, HicFarkBos, TalepYazarYeter DEF CevapOku
<1> QED
    BY <1>4, <1>5, <1>6

LEMMA DurumOkuKorur ==
    ASSUME DestekIInv, NEW i \in Istekler, NEW t \in Talepler, NEW d \in Durumlar, DurumOku(i, t, d)
    PROVE  DestekIInv'
<1> DEFINE s == talep[t]
           y == [s EXCEPT !.durum = d, !.cozum = @ \/ d = "cozuldu", !.kapatma = @ \/ d = "kapatildi"]
           tip == IF d # s.durum THEN "durum_degisikligi" ELSE Yok
<1>1. s # Yok /\ TalepYazar(i, t, Fark(s, y), tip)
    BY DEF DurumOku
<1>2. s \in TalepSatiri /\ (Sirali => (s["atanma"] <=> s["atanan"] # Yok))
    BY <1>1, SatirTarihli
<1>3. tip \in (YorumTipi \cup {Yok}) \ {"cevap"}
    BY DestekAssumption DEF YorumTipi
<1>4. /\ y \in TalepSatiri
      /\ y["no"] = s["no"] /\ y["ilkYanit"] = s["ilkYanit"]
      /\ y["atanan"] = s["atanan"] /\ y["atanma"] = s["atanma"]
      /\ y["durum"] = d
      /\ y["cozum"] = (s["cozum"] \/ d = "cozuldu")
      /\ y["kapatma"] = (s["kapatma"] \/ d = "kapatildi")
    BY <1>2 DEF TalepSatiri
<1>5. s["cozum"] \in BOOLEAN /\ s["kapatma"] \in BOOLEAN
    BY <1>2, TalepSatirlari
<1> HIDE DEF y, tip
<1>6. /\ y["cozum"] = s["cozum"] \/ y["cozum"] = TRUE
      /\ y["kapatma"] = s["kapatma"] \/ y["kapatma"] = TRUE
      /\ y["durum"] = "cozuldu" => y["cozum"]
      /\ y["durum"] = "kapatildi" => y["kapatma"]
    BY <1>4, <1>5
<1> QED
    BY <1>1, <1>2, <1>3, <1>4, <1>6, KopyaYeter

LEMMA AtaOkuKorur ==
    ASSUME DestekIInv, NEW i \in Istekler, NEW t \in Talepler, NEW u \in Ekip, AtaOku(i, t, u)
    PROVE  DestekIInv'
<1> DEFINE s == talep[t]
           y == [s EXCEPT !.atanan = u, !.durum = IF @ = "acik" THEN "atandi" ELSE @]
           f == Fark(s, y)
           g == [k \in DOMAIN f \cup {"atanma"} |-> IF k = "atanma" THEN TRUE ELSE f[k]]
<1>1. s # Yok /\ TalepYazar(i, t, g, "durum_degisikligi")
    BY DEF AtaOku
<1>2. s \in TalepSatiri
    BY <1>1, SatirTarihli
<1>3. /\ y \in TalepSatiri
      /\ y["no"] = s["no"] /\ y["ilkYanit"] = s["ilkYanit"]
      /\ y["cozum"] = s["cozum"] /\ y["kapatma"] = s["kapatma"]
      /\ y["atanan"] = u
      /\ y["durum"] = s["durum"] \/ y["durum"] = "atandi"
    BY <1>2 DEF TalepSatiri, Durumlar
<1> HIDE DEF y
<1>4. /\ TalepFarki(f)
      /\ "ilkYanit" \notin DOMAIN f
      /\ \A k \in DOMAIN s : k \in DOMAIN f <=> y[k] # s[k]
      /\ \A k \in DOMAIN f : f[k] = y[k]
      /\ \A k \in DOMAIN s : TalepSonra(s, f, k) = y[k]
    BY <1>2, <1>3, TalepFarklari
<1>5. /\ DOMAIN g = DOMAIN f \cup {"atanma"}
      /\ g["atanma"] = TRUE
      /\ \A k \in DOMAIN f \ {"atanma"} : g[k] = f[k]
    OBVIOUS
<1> HIDE DEF g, f
<1>6. TalepFarki(g) /\ "ilkYanit" \notin DOMAIN g
    BY <1>4, <1>5 DEF TalepFarki
<1>7. DurumTarihli(s, g)
    BY <1>2, <1>3, <1>4, <1>5, TalepSatirlari DEF DurumTarihli
<1>8. AtamaTarihli(s, g)
    <2>1. TalepSonra(s, g, "atanma") = TRUE
        BY <1>5 DEF TalepSonra
    <2>2. TalepSonra(s, g, "atanan") = TalepSonra(s, f, "atanan")
        BY <1>5 DEF TalepSonra
    <2>3. TalepSonra(s, g, "atanan") = u /\ u # Yok
        BY <2>2, <1>2, <1>3, <1>4, TalepSatirlari, DestekAssumption
    <2> QED
        BY <2>1, <2>3 DEF AtamaTarihli
<1>9. "durum_degisikligi" \in YorumTipi
    BY DEF YorumTipi
<1> QED
    BY <1>1, <1>6, <1>7, <1>8, <1>9, TalepYazarYeter

LEMMA AtamaKaldirOkuKorur ==
    ASSUME DestekIInv, NEW i \in Istekler, NEW t \in Talepler, AtamaKaldirOku(i, t)
    PROVE  DestekIInv'
<1> DEFINE s == talep[t]
           y == [s EXCEPT !.atanan = Yok, !.atanma = FALSE, !.durum = "acik"]
<1>1. s # Yok /\ TalepYazar(i, t, Fark(s, y), Yok)
    BY DEF AtamaKaldirOku
<1>2. s \in TalepSatiri
    BY <1>1, SatirTarihli
<1>3. /\ y \in TalepSatiri
      /\ y["no"] = s["no"] /\ y["ilkYanit"] = s["ilkYanit"]
      /\ y["cozum"] = s["cozum"] /\ y["kapatma"] = s["kapatma"]
      /\ y["atanan"] = Yok /\ y["atanma"] = FALSE /\ y["durum"] = "acik"
    BY <1>2 DEF TalepSatiri, Durumlar
<1>4. Yok \in (YorumTipi \cup {Yok}) \ {"cevap"}
    BY DestekAssumption DEF YorumTipi
<1> HIDE DEF y
<1> QED
    BY <1>1, <1>3, <1>4, KopyaYeter

LEMMA OncelikOkuKorur ==
    ASSUME DestekIInv, NEW i \in Istekler, NEW t \in Talepler, NEW acil \in BOOLEAN,
           OncelikOku(i, t, acil)
    PROVE  DestekIInv'
<1> DEFINE s == talep[t]
           y == [s EXCEPT !.acil = acil]
<1>1. s # Yok /\ TalepYazar(i, t, Fark(s, y), Yok)
    BY DEF OncelikOku
<1>2. s \in TalepSatiri /\ (Sirali => (s["atanma"] <=> s["atanan"] # Yok))
    BY <1>1, SatirTarihli
<1>3. /\ y \in TalepSatiri
      /\ y["no"] = s["no"] /\ y["ilkYanit"] = s["ilkYanit"]
      /\ y["cozum"] = s["cozum"] /\ y["kapatma"] = s["kapatma"]
      /\ y["atanan"] = s["atanan"] /\ y["atanma"] = s["atanma"] /\ y["durum"] = s["durum"]
    BY <1>2 DEF TalepSatiri
<1>4. Yok \in (YorumTipi \cup {Yok}) \ {"cevap"}
    BY DestekAssumption DEF YorumTipi
<1> HIDE DEF y
<1> QED
    BY <1>1, <1>2, <1>3, <1>4, KopyaYeter

LEMMA TalepYeniOkuKorur ==
    ASSUME DestekIInv, NEW i \in Istekler, NEW t \in Talepler, NEW k \in Kategoriler,
           NEW acil \in BOOLEAN, TalepYeniOku(i, t, k, acil)
    PROVE  DestekIInv'
<1> DEFINE u == kategori[k].varsayilan
           s == [no |-> SonrakiNo, durum |-> IF u = Yok THEN "acik" ELSE "atandi",
                 acil |-> acil, atanan |-> u, atanma |-> u # Yok, ilkYanit |-> 0,
                 cozum |-> FALSE, kapatma |-> FALSE]
           r == [is |-> "talep_ac", talep |-> t, satir |-> s]
<1>1. Basla(i, r) /\ UNCHANGED destekVars
    BY DEF TalepYeniOku
<1>2. u \in Ekip \cup {Yok}
    BY DEF TalepYeniOku, DestekIInv, DestekTypeOK
<1>3. SonrakiNo \in 1..(Cardinality(Acilan) + 1)
    BY Sayilabilir DEF SonrakiNo
<1>4. s \in TalepSatiri
    BY <1>2, <1>3 DEF TalepSatiri, Durumlar
<1>5. s.no = SonrakiNo /\ s.ilkYanit = 0 /\ s.durum \in {"acik", "atandi"}
      /\ (s.atanma <=> s.atanan # Yok)
    OBVIOUS
<1>6. Acilan' = Acilan
    BY <1>1 DEF destekVars, Acilan
<1>7. ASSUME istek'[i] = r
      PROVE  TalepHazir(i)'
    <2> HIDE DEF s
    <2> QED
        BY <1>3, <1>4, <1>5, <1>6, <1>7 DEF TalepHazir, EkleHazir, YazHazir
<1> QED
    BY <1>1, <1>7, TalepBaslar

-----------------------------------------------------------------------------
(* The steps that write.                                                   *)

LEMMA KategoriEkleKorur ==
    ASSUME DestekIInv, NEW k \in Kategoriler, NEW u \in Ekip \cup {Yok}, KategoriEkle(k, u)
    PROVE  DestekIInv'
<1>1. talep' = talep /\ yorum' = yorum /\ isci' = isci /\ istek' = istek
    BY DEF KategoriEkle, oturum
<1>2. kategori' \in [Kategoriler -> [varsayilan : Ekip \cup {Yok}] \cup {Yok}]
    BY DEF KategoriEkle, DestekIInv, DestekTypeOK
<1>3. /\ TalepIlerler
      /\ DestekTypeOK' /\ NoKumesi' /\ YorumsuzAcilmamis' /\ \A t \in Acilan' : Tutarli(t)'
    BY <1>1, <1>2, TaleplerDurur
<1>4. \A j \in Istekler : TalepHazir(j)'
    BY <1>1, <1>3, TalepHazirKalir DEF DestekIInv
<1>5. TalepSahipli'
    BY <1>1 DEF DestekIInv, TalepSahipli
<1> QED
    BY <1>3, <1>4, <1>5 DEF DestekIInv

LEMMA TalepEkleKorur ==
    ASSUME DestekIInv, NEW i \in Istekler, TalepEkle(i)
    PROVE  DestekIInv'
<1> DEFINE s == istek[i].satir
           n == Cardinality(Acilan)
<1>1. EkleHazir(i) /\ istek[i].is = "talep_ac" /\ istek[i] # Bos
    BY DEF TalepEkle, DestekIInv, TalepHazir, Bos
<1> PICK t \in Talepler : t = istek[i].talep
    BY <1>1 DEF EkleHazir
<1>2. /\ s \in TalepSatiri
      /\ s.no \in 1..(n + 1)
      /\ s.ilkYanit = 0
      /\ s.durum \in {"acik", "atandi"}
      /\ s.atanma <=> s.atanan # Yok
    BY <1>1 DEF EkleHazir
<1>3. /\ talep[t] = Yok
      /\ talep'[t] = s
      /\ \A x \in Talepler \ {t} : talep'[x] = talep[x]
      /\ yorum' = yorum /\ isci' = isci
    BY <1>2 DEF TalepEkle, DestekIInv, DestekTypeOK, Bitti
<1>4. Acilan' = Acilan \cup {t} /\ t \notin Acilan
    BY <1>2, <1>3, TalepSatirlari DEF Acilan
<1>5. Cardinality(Acilan') = n + 1 /\ n \in Nat
    BY <1>4, Sayilabilir, FS_AddElement
<1>6. TalepIlerler
    BY <1>3, <1>5, <1>2, TalepSatirlari DEF TalepIlerler
<1>7. DestekTypeOK'
    BY <1>2 DEF TalepEkle, DestekIInv, DestekTypeOK
<1>8. YorumsuzAcilmamis'
    BY <1>2, <1>3, TalepSatirlari DEF DestekIInv, YorumsuzAcilmamis
<1>9. NoKumesi'
    <2>1. s.no \notin 1..n
        BY DEF TalepEkle, DestekIInv, NoKumesi
    <2>2. s.no = n + 1
        BY <2>1, <1>2, <1>5
    <2>3. {talep'[x].no : x \in Acilan'} = {talep[x].no : x \in Acilan} \cup {s.no}
        BY <1>3, <1>4 DEF Acilan
    <2>4. 1..(n + 1) = (1..n) \cup {n + 1}
        BY <1>5
    <2> QED
        BY <2>2, <2>3, <2>4, <1>5 DEF DestekIInv, NoKumesi
<1>10. ASSUME NEW x \in Acilan'
       PROVE  Tutarli(x)'
    <2>1. CASE x = t
        <3>1. yorum[t] = << >>
            BY <1>2, <1>3 DEF DestekIInv, YorumsuzAcilmamis
        <3>2. Cevaplar(t)' = {}
            BY <3>1, <1>3 DEF Cevaplar
        <3> QED
            BY <2>1, <3>2, <1>2, <1>3 DEF Tutarli
    <2>2. CASE x # t
        <3>1. x \in Acilan /\ talep'[x] = talep[x]
            BY <2>2, <1>3, <1>4 DEF Acilan
        <3> QED
            BY <3>1, <1>3 DEF Tutarli, Cevaplar, Sirali, DestekIInv
    <2> QED
        BY <2>1, <2>2
<1> QED
    BY <1>1, <1>6, <1>7, <1>8, <1>9, <1>10, TalepBiter DEF TalepEkle

LEMMA TalepYazKorur ==
    ASSUME DestekIInv, NEW i \in Istekler, TalepYaz(i)
    PROVE  DestekIInv'
<1>1. YazHazir(i) /\ istek[i].is = "talep" /\ istek[i] # Bos
    BY DEF TalepYaz, DestekIInv, TalepHazir, Bos
<1> PICK t \in Talepler : t = istek[i].talep
    BY <1>1 DEF YazHazir
<1> DEFINE f == istek[i].fark
           tip == istek[i].tip
           s == talep[t]
           n == Len(yorum[t]) + 1
           ilk == "ilkYanit" \in DOMAIN f
<1>2. /\ s # Yok
      /\ TalepFarki(f)
      /\ tip \in YorumTipi \cup {Yok}
      /\ ilk => tip = "cevap"
      /\ tip = "cevap" => ilk \/ s.ilkYanit # 0
      /\ DurumTarihli(s, f)
      /\ Sirali => AtamaTarihli(s, f)
      /\ Sirali => (ilk => s.ilkYanit = 0)
    BY <1>1 DEF YazHazir
<1>3. s \in TalepSatiri /\ yorum[t] \in Seq(YorumTipi) /\ n \in Nat /\ n > 0
    BY <1>2 DEF DestekIInv, DestekTypeOK
<1> DEFINE u == Uygula(s, Yazilan(f, n))
           v == IF tip = Yok THEN yorum[t] ELSE Append(yorum[t], tip)
<1>4. /\ talep'[t] = u
      /\ \A x \in Talepler \ {t} : talep'[x] = talep[x]
      /\ yorum'[t] = v
      /\ \A x \in Talepler \ {t} : yorum'[x] = yorum[x]
      /\ isci' = isci
    BY <1>2 DEF TalepYaz, DestekIInv, DestekTypeOK, Bitti
<1>5. /\ u \in TalepSatiri
      /\ u.no = s.no
      /\ u.durum = TalepSonra(s, f, "durum")
      /\ u.atanan = TalepSonra(s, f, "atanan")
      /\ u.atanma = TalepSonra(s, f, "atanma")
      /\ u.ilkYanit = IF ilk THEN n ELSE s.ilkYanit
      /\ u.cozum <=> s.cozum \/ "cozum" \in DOMAIN f
      /\ u.kapatma <=> s.kapatma \/ "kapatma" \in DOMAIN f
    BY <1>2, <1>3, TalepUygula
<1>6. /\ v \in Seq(YorumTipi)
      /\ Len(v) = (IF tip = Yok THEN n - 1 ELSE n)
      /\ \A k \in 1..(n - 1) : v[k] = yorum[t][k]
      /\ tip # Yok => v[n] = tip
    BY <1>2, <1>3
<1> HIDE DEF u, v
<1>7. DestekTypeOK'
    <2>1. talep' \in [Talepler -> TalepSatiri \cup {Yok}]
        BY <1>2, <1>4, <1>5 DEF TalepYaz, DestekIInv, DestekTypeOK
    <2>2. yorum' \in [Talepler -> Seq(YorumTipi)]
        BY <1>2, <1>4, <1>6 DEF TalepYaz, DestekIInv, DestekTypeOK
    <2> QED
        BY <2>1, <2>2 DEF TalepYaz, DestekIInv, DestekTypeOK
<1>8. Acilan' = Acilan
    BY <1>2, <1>4, <1>5, TalepSatirlari DEF Acilan
<1>9. TalepIlerler
    <2>1. s.ilkYanit # 0 => u.ilkYanit # 0
        BY <1>3, <1>5
    <2> QED
        BY <2>1, <1>4, <1>5, <1>8, Sayilabilir, TalepSatirlari DEF TalepIlerler
<1>10. NoKumesi'
    <2>1. \A x \in Acilan : talep'[x].no = talep[x].no
        BY <1>4, <1>5 DEF Acilan
    <2> QED
        BY <2>1, <1>8 DEF DestekIInv, NoKumesi
<1>11. YorumsuzAcilmamis'
    BY <1>4, <1>5, TalepSatirlari DEF DestekIInv, YorumsuzAcilmamis
<1>12. Tutarli(t)'
    <2> DEFINE C == Cevaplar(t)
    <2>1. Tutarli(t)
        BY <1>2 DEF DestekIInv, Acilan
    <2>2. C \subseteq 1..(n - 1)
        BY <1>3 DEF Cevaplar
    <2>3. DOMAIN v = 1..Len(v)
        BY <1>6
    <2>4. Cevaplar(t)' = IF tip = "cevap" THEN C \cup {n} ELSE C
        <3>1. Cevaplar(t)' = {k \in 1..Len(v) : v[k] = "cevap"}
            BY <1>4, <2>3 DEF Cevaplar
        <3>2. C = {k \in 1..(n - 1) : v[k] = "cevap"}
            BY <1>3, <1>6 DEF Cevaplar
        <3>3. CASE tip = Yok
            BY <3>1, <3>2, <3>3, <1>6, DestekAssumption DEF YorumTipi
        <3>4. CASE tip # Yok
            <4>1. 1..n = 1..(n - 1) \cup {n}
                BY <1>3
            <4> QED
                BY <3>1, <3>2, <3>4, <4>1, <1>6
        <3> QED
            BY <3>3, <3>4
    <2> HIDE DEF C
    <2>5. C = {} <=> s.ilkYanit = 0
        BY <2>1, <2>2 DEF Tutarli, C
    <2>6. IF Cevaplar(t)' = {} THEN u.ilkYanit = 0 ELSE u.ilkYanit \in Cevaplar(t)'
        BY <2>1, <2>4, <2>5, <1>2, <1>5 DEF Tutarli, C
    <2>7. ASSUME Sirali, NEW k \in Cevaplar(t)'
          PROVE  u.ilkYanit <= k
        <3>1. CASE ilk
            BY <2>4, <2>5, <2>7, <3>1, <1>2, <1>3, <1>5
        <3>2. CASE ~ilk
            <4>1. \A m \in C : s.ilkYanit <= m
                BY <2>1, <2>7 DEF Tutarli, C
            <4>2. tip = "cevap" => s.ilkYanit \in 1..(n - 1)
                BY <2>1, <2>2, <2>5, <3>2, <1>2 DEF Tutarli, C
            <4> QED
                BY <4>1, <4>2, <3>2, <2>4, <2>7, <1>3, <1>5
        <3> QED
            BY <3>1, <3>2
    <2>8. Sirali => (u.atanma <=> u.atanan # Yok)
        BY <1>2, <1>5 DEF AtamaTarihli
    <2>9. /\ u.durum = "cozuldu" => u.cozum
          /\ u.durum = "kapatildi" => u.kapatma
        BY <2>1, <1>2, <1>5 DEF Tutarli, DurumTarihli, TalepSonra
    <2>10. Sirali' <=> Sirali
        BY <1>4 DEF Sirali
    <2> QED
        BY <2>6, <2>7, <2>8, <2>9, <2>10, <1>4 DEF Tutarli
<1>13. \A x \in Acilan' : Tutarli(x)'
    <2>1. ASSUME NEW x \in Acilan, x # t
          PROVE  Tutarli(x)'
        BY <2>1, <1>4 DEF Tutarli, Cevaplar, Sirali, DestekIInv, Acilan
    <2> QED
        BY <2>1, <1>8, <1>12
<1> QED
    BY <1>1, <1>7, <1>9, <1>10, <1>11, <1>13, TalepBiter DEF TalepYaz

LEMMA TalepBirakKorur ==
    ASSUME DestekIInv, NEW i \in Istekler, TalepBirak(i)
    PROVE  DestekIInv'
<1>1. istek[i] # Bos
    BY DEF TalepBirak, Bos
<1>2. talep' = talep /\ yorum' = yorum /\ kategori' = kategori /\ isci' = isci
    BY DEF TalepBirak, destekVars, Bitti
<1>3. kategori' \in [Kategoriler -> [varsayilan : Ekip \cup {Yok}] \cup {Yok}]
    BY <1>2 DEF DestekIInv, DestekTypeOK
<1> QED
    BY <1>1, <1>2, <1>3, TaleplerDurur, TalepBiter DEF TalepBirak

-----------------------------------------------------------------------------
(* The theorems.                                                           *)

LEMMA DestekBaslangic == OturumInit /\ DestekInit => DestekIInv
<1> SUFFICES ASSUME OturumInit, DestekInit PROVE DestekIInv
    OBVIOUS
<1>1. Acilan = {}
    BY DEF DestekInit, Acilan
<1>2. NoKumesi
    BY <1>1, FS_EmptySet DEF NoKumesi
<1>3. DestekTypeOK /\ YorumsuzAcilmamis
    BY DEF DestekInit, DestekTypeOK, YorumsuzAcilmamis
<1>4. TalepSahipli /\ \A i \in Istekler : TalepHazir(i)
    BY DEF OturumInit, Bos, TalepSahipli, TalepHazir, EkleHazir, YazHazir
<1> QED
    BY <1>1, <1>2, <1>3, <1>4 DEF DestekIInv

LEMMA DestekAdimi == DestekIInv /\ [DestekNext]_<<oturum, destekVars>> => DestekIInv'
<1> SUFFICES ASSUME DestekIInv, [DestekNext]_<<oturum, destekVars>> PROVE DestekIInv'
    OBVIOUS
<1>1. ASSUME TalepAcNext PROVE DestekIInv'
    BY <1>1, KategoriEkleKorur, TalepYeniOkuKorur, TalepEkleKorur, TalepBirakKorur DEF TalepAcNext
<1>2. ASSUME TalepIsleNext PROVE DestekIInv'
    BY <1>2, YorumOkuKorur, DurumOkuKorur, AtaOkuKorur, AtamaKaldirOkuKorur, OncelikOkuKorur,
        TalepYazKorur, TalepBirakKorur DEF TalepIsleNext
<1>3. ASSUME UNCHANGED <<oturum, destekVars>> PROVE DestekIInv'
    <2>1. /\ talep' = talep /\ yorum' = yorum /\ kategori' = kategori
          /\ isci' = isci /\ istek' = istek
        BY <1>3 DEF oturum, destekVars
    <2>2. /\ TalepIlerler
          /\ DestekTypeOK' /\ NoKumesi' /\ YorumsuzAcilmamis' /\ \A t \in Acilan' : Tutarli(t)'
        BY <2>1, TaleplerDurur DEF DestekIInv, DestekTypeOK
    <2>3. (\A j \in Istekler : TalepHazir(j)') /\ TalepSahipli'
        BY <2>1, <2>2, TalepHazirKalir DEF DestekIInv, TalepSahipli
    <2> QED
        BY <2>2, <2>3 DEF DestekIInv
<1> QED
    BY <1>1, <1>2, <1>3 DEF DestekNext

LEMMA DestekDegismez == DestekSpec => []DestekIInv
BY DestekBaslangic, DestekAdimi, PTL DEF DestekSpec

LEMMA DestekYeter == DestekIInv => TalepNoArdisik /\ TarihlerTutarli
<1>1. DestekIInv => TalepNoArdisik
    BY Sayilabilir DEF DestekIInv, NoKumesi, TalepNoArdisik
<1>2. DestekIInv => TarihlerTutarli
    BY DEF DestekIInv, Tutarli, Cevaplar, TarihlerTutarli
<1> QED
    BY <1>1, <1>2

\* Whatever the number of tickets opened at once: their numbers are 1, 2, 3, ... .
THEOREM NumaralarArdisik == DestekSpec => []TalepNoArdisik
BY DestekYeter, DestekDegismez, PTL

\* Whatever the number of tickets, answers and threads: the first answer, and the dates
\* of assignment, solution and closing, agree with what was done to the ticket.
THEOREM TarihlerDogru == DestekSpec => []TarihlerTutarli
BY DestekYeter, DestekDegismez, PTL

-----------------------------------------------------------------------------
(* The vehicles, the trainings, the help desk and the files together: the  *)
(* invariant.  A behaviour stays with one part, and what is not of that    *)
(* part stays as Init says.                                                *)

IsletmeIInv ==
    /\ kapsam \in Kapsamlar
    /\ isci \subseteq Istekler
    /\ IF kapsam \in {"teslim", "yakit", "olay"} THEN FiloIInv ELSE AracInit /\ OlayInit
    /\ IF kapsam \in {"egitim", "katilim", "soru", "test"} THEN EgitimIInv ELSE EgitimInit
    /\ IF kapsam \in {"talep_ac", "talep"} THEN DestekIInv ELSE DestekInit
    /\ IF kapsam = "dosya" THEN DosyaIInv ELSE DosyaInit

IsletmeAdimi == IsletmeIInv' /\ (test' # test => EklemeAdimi)

\* The part in which tickets are handled begins with an open one, which is number one.
LEMMA AcikTalepBaslangic ==
    ASSUME OturumInit, NEW s \in Talepler,
           kategori = [k \in Kategoriler |-> [varsayilan |-> Yok]],
           talep = [t \in Talepler |-> IF t = s THEN AcikTalep ELSE Yok],
           yorum = [t \in Talepler |-> << >>]
    PROVE  DestekIInv
<1>1. AcikTalep \in TalepSatiri
    BY DEF AcikTalep, TalepSatiri, Durumlar
<1>2. AcikTalep # Yok
    BY <1>1, DestekAssumption
<1>3. Acilan = {s}
    BY <1>2 DEF Acilan
<1>4. Cardinality(Acilan) = 1
    BY <1>3, FS_Singleton
<1>5. NoKumesi
    BY <1>3, <1>4 DEF NoKumesi, AcikTalep
<1>6. DestekTypeOK /\ YorumsuzAcilmamis
    BY <1>1 DEF DestekTypeOK, YorumsuzAcilmamis
<1>7. Tutarli(s)
    BY DEF Tutarli, Cevaplar, AcikTalep
<1>8. TalepSahipli /\ \A i \in Istekler : TalepHazir(i)
    BY DEF OturumInit, Bos, TalepSahipli, TalepHazir, EkleHazir, YazHazir
<1> QED
    BY <1>3, <1>5, <1>6, <1>7, <1>8 DEF DestekIInv

\* Without a ticket there is nothing to handle in that part.
LEMMA TalepsizBaslangic ==
    ASSUME OturumInit, Talepler = {},
           kategori = [k \in Kategoriler |-> [varsayilan |-> Yok]],
           talep = [t \in Talepler |-> IF t = CHOOSE s \in Talepler : TRUE THEN AcikTalep ELSE Yok],
           yorum = [t \in Talepler |-> << >>]
    PROVE  DestekIInv
<1>1. Acilan = {}
    BY DEF Acilan
<1>2. NoKumesi
    BY <1>1, FS_EmptySet DEF NoKumesi
<1>3. DestekTypeOK /\ YorumsuzAcilmamis
    BY DEF DestekTypeOK, YorumsuzAcilmamis
<1>4. TalepSahipli /\ \A i \in Istekler : TalepHazir(i)
    BY DEF OturumInit, Bos, TalepSahipli, TalepHazir, EkleHazir, YazHazir
<1> QED
    BY <1>1, <1>2, <1>3, <1>4 DEF DestekIInv

LEMMA IsletmeBaslangic == Init => IsletmeIInv
<1> SUFFICES ASSUME Init PROVE IsletmeIInv
    OBVIOUS
<1>1. /\ kapsam \in Kapsamlar
      /\ FiloIInv /\ AracInit /\ OlayInit
      /\ EgitimIInv /\ EgitimInit
      /\ DosyaIInv /\ DosyaInit
      /\ isci \subseteq Istekler
    BY FiloBaslangic, EgitimBaslangic, DosyaBaslangic DEF Init, FiloIInv, IstekTuru
<1>2. CASE kapsam # "talep"
    BY <1>1, <1>2, DestekBaslangic DEF Init, IsletmeIInv
<1>3. CASE kapsam = "talep"
    <2>1. DestekIInv
        <3>1. CASE Talepler = {}
            BY <1>3, <3>1, TalepsizBaslangic DEF Init
        <3>2. CASE Talepler # {}
            <4>1. (CHOOSE s \in Talepler : TRUE) \in Talepler
                BY <3>2
            <4> QED
                BY <1>3, <4>1, AcikTalepBaslangic DEF Init
        <3> QED
            BY <3>1, <3>2
    <2> QED
        BY <1>1, <1>3, <2>1 DEF IsletmeIInv
<1> QED
    BY <1>2, <1>3

-----------------------------------------------------------------------------
(* What a step of one part keeps of the others.                            *)

LEMMA FiloKalir ==
    ASSUME IsletmeIInv, UNCHANGED <<kapsam, aracVars, olay>>,
           kapsam \notin {"teslim", "yakit", "olay"}
    PROVE  (IF kapsam \in {"teslim", "yakit", "olay"} THEN FiloIInv ELSE AracInit /\ OlayInit)'
BY DEF IsletmeIInv, aracVars, AracInit, OlayInit

LEMMA EgitimKalir ==
    ASSUME IsletmeIInv, UNCHANGED <<kapsam, egitimVars>>,
           kapsam \notin {"egitim", "katilim", "soru", "test"}
    PROVE  /\ (IF kapsam \in {"egitim", "katilim", "soru", "test"} THEN EgitimIInv ELSE EgitimInit)'
           /\ test' = test
BY DEF IsletmeIInv, egitimVars, katilimVars, soruVars, EgitimInit

LEMMA DestekKalir ==
    ASSUME IsletmeIInv, UNCHANGED <<kapsam, destekVars>>, kapsam \notin {"talep_ac", "talep"}
    PROVE  (IF kapsam \in {"talep_ac", "talep"} THEN DestekIInv ELSE DestekInit)'
BY DEF IsletmeIInv, destekVars, DestekInit

LEMMA DosyaKalir ==
    ASSUME IsletmeIInv, UNCHANGED <<kapsam, dosyaVars>>, kapsam # "dosya"
    PROVE  (IF kapsam = "dosya" THEN DosyaIInv ELSE DosyaInit)'
BY DEF IsletmeIInv, dosyaVars, DosyaInit

\* The threads in service stay the same.
LEMMA EgitimIscileri ==
    ASSUME EgitimNext
    PROVE  isci' = isci
<1>1. EgitimlerNext => isci' = isci
    BY DEF EgitimlerNext, EgitimEkle, EgitimDuzenleOku, EgitimDurumOku, EgitimYazar, EgitimYaz,
        EgitimBirak, Basla, Bitti, oturum
<1>2. KatilimNext => isci' = isci
    BY DEF KatilimNext, EgitimEkle, KatilimciEkleOku, TopluKatilimciOku, KatilimciEkle,
        KatilimciDurumOku, KatilimciYaz, KatilimciSil, EgitimBirak, Basla, Bitti, oturum
<1>3. SoruNext => isci' = isci
    BY DEF SoruNext, SoruEkle, SoruDuzenleSil, SoruDuzenleYaz, SoruSil, EgitimBirak, Basla,
        Bitti, oturum
<1>4. TestNext => isci' = isci
    BY DEF TestNext, SoruEkle, TestEkle, TestSoruEkleOku, TestSoruEkle, TestSoruCikar,
        TestSiralaOku, TestSirala, EgitimBirak, Basla, Bitti, oturum
<1> QED
    BY <1>1, <1>2, <1>3, <1>4 DEF EgitimNext

LEMMA DestekIscileri ==
    ASSUME DestekNext
    PROVE  isci' = isci
<1>1. TalepAcNext => isci' = isci
    BY DEF TalepAcNext, KategoriEkle, TalepYeniOku, TalepEkle, TalepBirak, Basla, Bitti, oturum
<1>2. TalepIsleNext => isci' = isci
    BY DEF TalepIsleNext, YorumOku, CevapOku, DurumOku, AtaOku, AtamaKaldirOku, OncelikOku,
        TalepYazar, TalepYaz, TalepBirak, Basla, Bitti
<1> QED
    BY <1>1, <1>2 DEF DestekNext

LEMMA DosyaIscileri ==
    ASSUME DosyaNext
    PROVE  isci' = isci
BY DEF DosyaNext, DosyasizEkle, DosyaliEkleOku, FaturaDegistirOku, MateryalSilOku, DosyaBasla,
    DosyaKaldir, DosyaKaydet, DosyaYaz, MateryalSil, DosyaBirak, Basla, Bitti, oturum

LEMMA IsletmeFiloAdimi ==
    ASSUME IsletmeIInv, UNCHANGED <<kapsam, egitimVars, destekVars, dosyaVars>>,
           \/ kapsam = "teslim" /\ TeslimNext /\ UNCHANGED olay
           \/ kapsam = "yakit" /\ YakitNext /\ UNCHANGED olay
           \/ kapsam = "olay" /\ OlayNext
    PROVE  IsletmeAdimi
<1>1. FiloIInv'
    BY AracAdimi, OlayAdimi DEF IsletmeIInv, AracNext
<1>2. (isci \subseteq Istekler)'
    BY <1>1 DEF FiloIInv, IstekTuru
<1> QED
    BY <1>1, <1>2, EgitimKalir, DestekKalir, DosyaKalir DEF IsletmeIInv, IsletmeAdimi

LEMMA IsletmeEgitimAdimi ==
    ASSUME IsletmeIInv, UNCHANGED <<kapsam, aracVars, olay, destekVars, dosyaVars>>,
           \/ kapsam = "egitim" /\ EgitimlerNext
           \/ kapsam = "katilim" /\ KatilimNext
           \/ kapsam = "soru" /\ SoruNext
           \/ kapsam = "test" /\ TestNext
    PROVE  IsletmeAdimi
<1>1. EgitimIInv' /\ (test' # test => EklemeAdimi)
    BY EgitimAdimi DEF IsletmeIInv, EgitimNext
<1>2. (isci \subseteq Istekler)'
    BY EgitimIscileri DEF IsletmeIInv, EgitimNext
<1> QED
    BY <1>1, <1>2, FiloKalir, DestekKalir, DosyaKalir DEF IsletmeIInv, IsletmeAdimi

LEMMA IsletmeDestekAdimi ==
    ASSUME IsletmeIInv, UNCHANGED <<kapsam, aracVars, olay, egitimVars, dosyaVars>>,
           \/ kapsam = "talep_ac" /\ TalepAcNext
           \/ kapsam = "talep" /\ TalepIsleNext
    PROVE  IsletmeAdimi
<1>1. DestekIInv'
    BY DestekAdimi DEF IsletmeIInv, DestekNext
<1>2. (isci \subseteq Istekler)'
    BY DestekIscileri DEF IsletmeIInv, DestekNext
<1> QED
    BY <1>1, <1>2, FiloKalir, EgitimKalir, DosyaKalir DEF IsletmeIInv, IsletmeAdimi

LEMMA IsletmeDosyaAdimi ==
    ASSUME IsletmeIInv, UNCHANGED <<kapsam, aracVars, olay, egitimVars, destekVars>>,
           kapsam = "dosya", DosyaNext
    PROVE  IsletmeAdimi
<1>1. DosyaIInv'
    BY DosyaAdimi DEF IsletmeIInv
<1>2. (isci \subseteq Istekler)'
    BY DosyaIscileri DEF IsletmeIInv
<1> QED
    BY <1>1, <1>2, FiloKalir, EgitimKalir, DestekKalir DEF IsletmeIInv, IsletmeAdimi

LEMMA IsletmeDuran ==
    ASSUME IsletmeIInv, UNCHANGED vars
    PROVE  IsletmeAdimi
<1>1. UNCHANGED <<kapsam, oturum, aracVars, olay, egitimVars, destekVars, dosyaVars>>
    BY DEF vars
<1>2. FiloIInv => FiloIInv'
    BY <1>1, FiloAdimi DEF filoVars
<1>3. (EgitimIInv => EgitimIInv') /\ test' = test
    BY <1>1, EgitimAdimi DEF egitimVars
<1>4. (DestekIInv => DestekIInv') /\ (DosyaIInv => DosyaIInv')
    BY <1>1, DestekAdimi, DosyaAdimi
<1>5. (isci \subseteq Istekler)'
    BY <1>1 DEF IsletmeIInv, oturum
<1> QED
    BY <1>1, <1>2, <1>3, <1>4, <1>5, FiloKalir, EgitimKalir, DestekKalir, DosyaKalir
       DEF IsletmeIInv, IsletmeAdimi

LEMMA IsletmeNextAdimi == IsletmeIInv /\ [Next]_vars => IsletmeAdimi
BY IsletmeFiloAdimi, IsletmeEgitimAdimi, IsletmeDestekAdimi, IsletmeDosyaAdimi, IsletmeDuran
   DEF Next

LEMMA IsletmeDegismez == Spec => []IsletmeIInv
<1>1. IsletmeIInv /\ [Next]_vars => IsletmeIInv'
    BY IsletmeNextAdimi DEF IsletmeAdimi
<1> QED
    BY <1>1, IsletmeBaslangic, PTL DEF Spec

-----------------------------------------------------------------------------
(* The theorems about all of them.                                         *)

\* Taken together, vehicles, events, trainings, tickets and files have the columns and
\* values the code gives them: no module's handler writes to another's rows.
THEOREM IsletmeTipleri == Spec => []TypeOK
<1> SUFFICES IsletmeIInv => TypeOK
    BY IsletmeDegismez, PTL
<1> SUFFICES ASSUME IsletmeIInv PROVE TypeOK
    OBVIOUS
<1>1. AracTypeOK /\ OlayTypeOK
    <2>1. FiloIInv => AracTypeOK /\ OlayTypeOK
        BY OlayTipi DEF FiloIInv, SatirInv
    <2>2. AracInit /\ OlayInit => AracTypeOK /\ OlayTypeOK
        BY DEF AracInit, OlayInit, AracTypeOK, OlayTypeOK, FisSatiri
    <2> QED
        BY <2>1, <2>2 DEF IsletmeIInv
<1>2. EgitimTypeOK
    <2>1. EgitimInit => EgitimTypeOK
        BY EgitimAssumption DEF EgitimInit, EgitimTypeOK
    <2> QED
        BY <2>1 DEF IsletmeIInv, EgitimIInv
<1>3. DestekTypeOK
    <2>1. DestekInit => DestekTypeOK
        BY DEF DestekInit, DestekTypeOK
    <2> QED
        BY <2>1 DEF IsletmeIInv, DestekIInv
<1>4. DosyaTypeOK
    BY DEF IsletmeIInv, DosyaIInv, DosyaInit, DosyaTypeOK
<1> QED
    BY <1>1, <1>2, <1>3, <1>4 DEF TypeOK

\* The promises of the fleet, of the trainings, of the tickets and of the files hold in
\* whichever part of the portal works.
THEOREM IsletmeGuvenligi ==
    Spec => [](/\ AracGecmisten /\ IceAktarimTekil /\ KisiTasimisti
               /\ SecenekTekForm
               /\ TalepNoArdisik /\ TarihlerTutarli
               /\ DosyaYerinde)
<1>1. IsletmeIInv => AracGecmisten /\ IceAktarimTekil /\ KisiTasimisti
    <2>1. AracInit /\ OlayInit => AracGecmisten /\ KisiTasimisti
        BY DEF AracInit, OlayInit, AracGecmisten, KisiTasimisti
    <2>2. ASSUME AracInit, isci \subseteq Istekler PROVE IceAktarimTekil
        <3>1. Cardinality(isci) \in Nat
            BY <2>2, OturumAssumption, FS_Subset, FS_CardinalityType
        <3>2. \A a \in Araclar, f \in Fisler : fis[a][f].excel = 0
            BY <2>2 DEF AracInit
        <3> QED
            BY <3>1, <3>2 DEF IceAktarimTekil
    <2> QED
        BY <2>1, <2>2, FisTekil DEF IsletmeIInv, FiloIInv, SatirInv
<1>2. IsletmeIInv => SecenekTekForm
    <2>1. ASSUME EgitimInit, NEW s \in Sorular
          PROVE  Cardinality({o \in secenek[s] : o.metinli}) <= 1 /\ Cardinality(secenek[s]) <= 1
        <3>1. secenek[s] = {} /\ {o \in secenek[s] : o.metinli} = {}
            BY <2>1 DEF EgitimInit
        <3> QED
            BY <3>1, FS_EmptySet
    <2>2. EgitimInit => SecenekTekForm
        BY <2>1 DEF SecenekTekForm
    <2> QED
        BY <2>2, TekFormYeter DEF IsletmeIInv
<1>3. IsletmeIInv => TalepNoArdisik /\ TarihlerTutarli
    <2>1. ASSUME DestekInit PROVE TalepNoArdisik /\ TarihlerTutarli
        <3>1. Acilan = {}
            BY <2>1 DEF DestekInit, Acilan
        <3>2. Cardinality(Acilan) = 0
            BY <3>1, FS_EmptySet
        <3> QED
            BY <3>1, <3>2 DEF TalepNoArdisik, TarihlerTutarli
    <2> QED
        BY <2>1, DestekYeter DEF IsletmeIInv
<1>4. IsletmeIInv => DosyaYerinde
    <2>1. ASSUME DosyaInit PROVE DosyaYerinde
        <3>1. Adlananlar = {} /\ disk = {}
            BY <2>1 DEF DosyaInit, Adlananlar, Varlar
        <3> QED
            BY <3>1 DEF DosyaYerinde
    <2> QED
        BY <2>1, DosyaYeter DEF IsletmeIInv
<1> QED
    BY <1>1, <1>2, <1>3, <1>4, IsletmeDegismez, PTL

\* With one thread, questions added to a test come after all it has, whatever else the
\* portal does.
THEOREM IsletmeSonaEkler == Spec => SonaEklenir
<1>1. IsletmeIInv /\ [Next]_vars => IsletmeIInv' /\ [EklemeAdimi]_test
    BY IsletmeNextAdimi DEF IsletmeAdimi
<1> QED
    BY <1>1, IsletmeBaslangic, PTL DEF Spec, SonaEklenir, EklemeAdimi
=============================================================================
