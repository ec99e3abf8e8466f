------------------------- MODULE OnayEsZamanliKanit -------------------------
(***************************************************************************)
(* Proofs about OnayEsZamanli, for any flow, any number of handlers in     *)
(* flight and any interleaving of their reads, locks and commits: types;   *)
(* in a flow with one step per sira (SiraliAkis), that no step gets two    *)
(* records; and, when every step has an approver as well, that an approved *)
(* request was decided at every step.                                      *)
(***************************************************************************)
EXTENDS OnayEsZamanli, FiniteSetTheorems, SequenceTheorems, TLAPS

-----------------------------------------------------------------------------
(* Lemmas about the operators.                                             *)

\* The rows of the records.
LEMMA KayitTipi ==
    ASSUME TypeOK
    PROVE  /\ DOMAIN kayit = 1..Len(kayit) /\ Len(kayit) \in Nat /\ TalepRow \notin DOMAIN kayit
           /\ \A i \in DOMAIN kayit :
                 kayit[i] \in KayitSatiri /\ kayit[i].adim \in Adim /\ AdimSira[kayit[i].adim] \in Nat \ {0}
<1>1. kayit \in Seq(KayitSatiri)
    BY DEF TypeOK
<1>2. DOMAIN kayit = 1..Len(kayit) /\ Len(kayit) \in Nat
    BY <1>1
<1>3. \A i \in DOMAIN kayit : kayit[i] \in KayitSatiri
    BY <1>1
<1>4. \A i \in DOMAIN kayit : kayit[i].adim \in Adim
    BY <1>3 DEF KayitSatiri
<1> QED
    BY <1>2, <1>3, <1>4, EsZamanliAssumption DEF TalepRow

\* A set of steps written one after the other.
LEMMA SetToSeqSonuc ==
    ASSUME NEW S, IsFiniteSet(S)
    PROVE  /\ Cardinality(S) \in Nat
           /\ SetToSeq(S) \in [1..Cardinality(S) -> S]
           /\ \A i, j \in 1..Cardinality(S) : SetToSeq(S)[i] = SetToSeq(S)[j] => i = j
           /\ \A x \in S : \E i \in 1..Cardinality(S) : SetToSeq(S)[i] = x
<1>1. Cardinality(S) \in Nat /\ ExistsBijection(1..Cardinality(S), S)
    BY FS_CardinalityType
<1>2. \E f \in [1..Cardinality(S) -> S] : IsInjective(f)
    BY <1>1 DEF ExistsBijection, Bijection, Injection
<1>3. SetToSeq(S) \in [1..Cardinality(S) -> S] /\ IsInjective(SetToSeq(S))
    BY <1>2 DEF SetToSeq
<1>4. SetToSeq(S) \in Injection(1..Cardinality(S), S)
    BY <1>3 DEF Injection, IsInjective
<1>5. IsFiniteSet(1..Cardinality(S)) /\ Cardinality(1..Cardinality(S)) = Cardinality(S)
    BY <1>1, FS_Interval
<1>6. SetToSeq(S) \in Surjection(1..Cardinality(S), S)
    BY <1>4, <1>5, FS_Injection
<1>7. \A x \in S : \E i \in 1..Cardinality(S) : SetToSeq(S)[i] = x
    BY <1>6 DEF Surjection
<1> QED
    BY <1>1, <1>3, <1>7 DEF IsInjective

\* The records opened for a set of steps: one for each, and all pending.
LEMMA YeniKayitlarSonuc ==
    ASSUME NEW ekle \in SUBSET Adim
    PROVE  /\ YeniKayitlar(ekle) \in Seq(KayitSatiri)
           /\ Cardinality(ekle) \in Nat
           /\ Len(YeniKayitlar(ekle)) = Cardinality(ekle)
           /\ \A i \in 1..Cardinality(ekle) :
                 YeniKayitlar(ekle)[i].adim \in ekle /\ YeniKayitlar(ekle)[i].durum = "bekliyor"
           /\ \A i, j \in 1..Cardinality(ekle) :
                 YeniKayitlar(ekle)[i].adim = YeniKayitlar(ekle)[j].adim => i = j
           /\ \A a \in ekle : \E i \in 1..Cardinality(ekle) : YeniKayitlar(ekle)[i].adim = a
<1> DEFINE s == SetToSeq(ekle)
           n == Cardinality(ekle)
           y == [i \in 1..n |-> [adim |-> s[i], durum |-> "bekliyor"]]
<1>1. IsFiniteSet(ekle)
    BY EsZamanliAssumption, FS_Subset
<1>2. /\ n \in Nat /\ s \in [1..n -> ekle]
      /\ \A i, j \in 1..n : s[i] = s[j] => i = j
      /\ \A a \in ekle : \E i \in 1..n : s[i] = a
    BY <1>1, SetToSeqSonuc
<1> HIDE DEF s, n
<1>3. s \in Seq(ekle) /\ Len(s) = n
    BY <1>2
<1>4. YeniKayitlar(ekle) = y
    BY <1>3 DEF YeniKayitlar, s
<1>5. y \in [1..n -> KayitSatiri]
    BY <1>2 DEF KayitSatiri, KayitDurumu
<1>6. y \in Seq(KayitSatiri) /\ Len(y) = n
    BY <1>2, <1>5
<1> QED
    BY <1>2, <1>4, <1>6 DEF n

\* A nonempty set of numbers has its least element.
LEMMA MinVar ==
    ASSUME NEW S \in SUBSET Nat, S # {}
    PROVE  Min(S) \in S /\ \A x \in S : Min(S) <= x
<1> DEFINE R == OpToRel(<, Nat)
<1>1. PICK m \in S : \A x \in S : ~(<<x, m>> \in R)
    <2> HIDE DEF R
    <2> QED
        BY NatLessThanWellFounded, WFMin DEF R
<1>2. \A x \in S : m <= x
    <2>1. \A x \in S : <<x, m>> \in Nat \X Nat /\ x \in Nat /\ m \in Nat
        OBVIOUS
    <2>2. \A x \in S : ~(x < m)
        BY <1>1, <2>1 DEF OpToRel
    <2> QED
        BY <2>1, <2>2
<1> QED
    BY <1>2 DEF Min

\* The next row to lock is one of the rows to lock.
LEMMA SiradakiIcinde ==
    ASSUME NEW kilitler \in SUBSET Nat, kilitler # {}
    PROVE  Siradaki(kilitler) \in kilitler
<1>1. CASE kilitler = {TalepRow}
    BY <1>1 DEF Siradaki
<1>2. CASE kilitler # {TalepRow}
    BY <1>2, MinVar DEF Siradaki
<1> QED
    BY <1>1, <1>2

\* The step after the current one.
LEMMA SonrakiTipi ==
    ASSUME TypeOK
    PROVE  /\ SonrakiSiralar \subseteq Nat /\ SonrakiSiralar \subseteq Range(AdimSira)
           /\ talep.mevcut \in Nat
           /\ SonrakiSiralar # {} =>
                /\ Min(SonrakiSiralar) \in SonrakiSiralar
                /\ Min(SonrakiSiralar) > talep.mevcut
                /\ \A s \in SonrakiSiralar : Min(SonrakiSiralar) <= s
<1>1. Range(AdimSira) \subseteq Nat
    BY EsZamanliAssumption DEF Range
<1>2. talep.mevcut \in Nat
    BY <1>1 DEF TypeOK, TalepSatiri
<1>3. SonrakiSiralar \subseteq Nat /\ SonrakiSiralar \subseteq Range(AdimSira)
    BY <1>1 DEF SonrakiSiralar
<1>4. ASSUME SonrakiSiralar # {}
      PROVE  Min(SonrakiSiralar) \in SonrakiSiralar /\ \A s \in SonrakiSiralar : Min(SonrakiSiralar) <= s
    BY <1>3, <1>4, MinVar
<1> QED
    BY <1>2, <1>3, <1>4 DEF SonrakiSiralar

\* What a handler may plan to write.
PlanSatiri ==
    [atla : SUBSET (1..Len(kayit)), durum : TalepDurumu \cup {Yok},
     mevcut : Range(AdimSira) \cup {Yok}, yeni : SUBSET Adim, talepYaz : BOOLEAN]

LEMMA PlanTipi ==
    ASSUME TypeOK, NEW w \in Istek, NEW p \in Planlar(w)
    PROVE  p \in PlanSatiri
<1>1. kayit \in Seq(KayitSatiri) /\ DOMAIN kayit = 1..Len(kayit)
    BY DEF TypeOK
<1>2. DegismezPlan \in PlanSatiri
    BY DEF DegismezPlan, PlanSatiri
<1>3. ASSUME NEW atla \in SUBSET (1..Len(kayit))
      PROVE  GecPlani(atla) \in PlanSatiri
    <2>1. CASE SonrakiSiralar # {}
        BY <1>3, <2>1, SonrakiTipi, EsZamanliAssumption DEF GecPlani, PlanSatiri, AcilanAdimlar
    <2>2. CASE SonrakiSiralar = {}
        BY <1>3, <2>2 DEF GecPlani, PlanSatiri, TalepDurumu
    <2> QED
        BY <2>1, <2>2
<1>4. ASSUME NEW i, p \in OnaylaPlanlari(i)
      PROVE  p \in PlanSatiri
    <2> DEFINE k == [kayit EXCEPT ![i].durum = "onaylandi"]
               grup == MevcutKayitlar(k)
               onayli == {j \in grup : k[j].durum = "onaylandi"}
               bekleyen == {j \in grup : k[j].durum = "bekliyor"}
    <2>1. bekleyen \in SUBSET (1..Len(kayit))
        BY <1>1 DEF MevcutKayitlar
    <2>2. \/ p = [DegismezPlan EXCEPT !.durum = "onaylandi", !.talepYaz = TRUE]
          \/ p = GecPlani({}) \/ p = GecPlani(bekleyen) \/ p = DegismezPlan
        BY <1>4 DEF OnaylaPlanlari
    <2> HIDE DEF bekleyen
    <2> QED
        BY <1>2, <1>3, <2>1, <2>2 DEF PlanSatiri, TalepDurumu
<1>5. RedPlani \in PlanSatiri
    BY <1>2 DEF RedPlani, PlanSatiri, TalepDurumu
<1>6. IptalPlani \in PlanSatiri
    BY <1>1, <1>2 DEF IptalPlani, PlanSatiri, TalepDurumu
<1> QED
    BY <1>4, <1>5, <1>6 DEF Planlar

-----------------------------------------------------------------------------
(* Types.                                                                  *)

\* The empty slot.
LEMMA BosTipi == Bos \in IstekSatiri
BY EsZamanliAssumption DEF Bos, IstekSatiri, TalepRow

\* A transaction that ends gives up its own locks only.
LEMMA BirakSonuc ==
    ASSUME TypeOK, NEW w \in Istek, kilit' = Birak(w)
    PROVE  /\ kilit' \in [0..MaxKayit -> Istek \cup {Yok}]
           /\ \A x \in 0..MaxKayit :
                 /\ kilit[x] = w => kilit'[x] = Yok
                 /\ kilit[x] # w => kilit'[x] = kilit[x]
BY DEF Birak, TypeOK

\* The row a handler waits for is one of the table.
LEMMA BeklenenTipi ==
    ASSUME TypeOK, NEW w \in Istek, istek[w].asama = "ilk" \/ istek[w].kilitler # {}
    PROVE  /\ Beklenen(w) \in 0..MaxKayit
           /\ istek[w].asama = "kalan" => Beklenen(w) \in istek[w].kilitler
<1>1. istek[w].kayit \in 0..MaxKayit /\ istek[w].kilitler \in SUBSET (0..MaxKayit)
    BY DEF TypeOK, IstekSatiri
<1>2. istek[w].kilitler \in SUBSET Nat
    BY <1>1, EsZamanliAssumption
<1> QED
    BY <1>1, <1>2, SiradakiIcinde DEF Beklenen

\* What a commit leaves of the records: the old ones with the handler's decision, and
\* the new ones behind them.
LEMMA CommitKayitlari ==
    ASSUME TypeOK, NEW w \in Istek, Commit(w), NEW r, r = istek[w]
    PROVE  /\ kayit' \in Seq(KayitSatiri) /\ Len(kayit') <= MaxKayit
           /\ Len(kayit) \in Nat /\ Cardinality(r.yeni) \in Nat
           /\ Len(kayit') = Len(kayit) + Cardinality(r.yeni)
           /\ \A i \in 1..Len(kayit) :
                /\ kayit'[i].adim = kayit[i].adim
                /\ i = r.kayit => kayit'[i].durum = IF r.tur = "onayla" THEN "onaylandi" ELSE "reddedildi"
                /\ i # r.kayit /\ i \in r.atla => kayit'[i].durum = "atlandi"
                /\ i # r.kayit /\ i \notin r.atla => kayit'[i].durum = kayit[i].durum
           /\ \A i \in 1..Len(kayit') :
                i > Len(kayit) => kayit'[i].adim \in r.yeni /\ kayit'[i].durum = "bekliyor"
           /\ \A i, j \in 1..Len(kayit') :
                i > Len(kayit) /\ j > Len(kayit) /\ kayit'[i].adim = kayit'[j].adim => i = j
           /\ \A a \in r.yeni : \E i \in 1..Len(kayit') : kayit'[i].adim = a
<1> DEFINE n == Len(kayit)
           m == Cardinality(r.yeni)
           y == YazilanKayitlar(r)
           z == YeniKayitlar(r.yeni)
<1>1. r.yeni \in SUBSET Adim
    BY DEF TypeOK, IstekSatiri
<1>2. /\ z \in Seq(KayitSatiri) /\ m \in Nat /\ Len(z) = m
      /\ \A i \in 1..m : z[i].adim \in r.yeni /\ z[i].durum = "bekliyor"
      /\ \A i, j \in 1..m : z[i].adim = z[j].adim => i = j
      /\ \A a \in r.yeni : \E i \in 1..m : z[i].adim = a
    BY <1>1, YeniKayitlarSonuc
<1>3. n \in Nat /\ DOMAIN kayit = 1..n /\ \A i \in 1..n : kayit[i] \in KayitSatiri
    BY DEF TypeOK
<1>4. /\ DOMAIN y = 1..n
      /\ \A i \in 1..n :
            /\ y[i] \in KayitSatiri
            /\ y[i].adim = kayit[i].adim
            /\ i = r.kayit => y[i].durum = IF r.tur = "onayla" THEN "onaylandi" ELSE "reddedildi"
            /\ i # r.kayit /\ i \in r.atla => y[i].durum = "atlandi"
            /\ i # r.kayit /\ i \notin r.atla => y[i].durum = kayit[i].durum
    BY <1>3 DEF YazilanKayitlar, KayitSatiri, KayitDurumu
<1>5. y \in [1..n -> KayitSatiri]
    <2>1. y = [i \in 1..n |-> y[i]]
        BY <1>3 DEF YazilanKayitlar
    <2> HIDE DEF y
    <2> QED
        BY <1>4, <2>1
<1>6. y \in Seq(KayitSatiri) /\ Len(y) = n
    BY <1>3, <1>5
<1>7. kayit' = y \o z /\ n + m <= MaxKayit
    BY DEF Commit
<1> HIDE DEF y, z, m, n
<1>8. /\ kayit' \in Seq(KayitSatiri) /\ Len(kayit') = n + m
      /\ \A i \in 1..(n + m) : kayit'[i] = IF i <= n THEN y[i] ELSE z[i - n]
    <2>1. /\ y \o z \in Seq(KayitSatiri)
          /\ Len(y \o z) = Len(y) + Len(z)
          /\ \A i \in 1..(Len(y) + Len(z)) : (y \o z)[i] = IF i <= Len(y) THEN y[i] ELSE z[i - Len(y)]
        <3>1. y \in Seq(KayitSatiri) /\ z \in Seq(KayitSatiri)
            BY <1>2, <1>6
        <3> QED
            BY ONLY <3>1, ConcatProperties, Zenon
    <2> QED
        BY <1>2, <1>6, <1>7, <2>1, Zenon
<1>9. \A i \in 1..n : kayit'[i] = y[i]
    BY <1>2, <1>3, <1>8
<1>10. \A i \in 1..(n + m) : i > n => i - n \in 1..m /\ kayit'[i] = z[i - n]
    BY <1>2, <1>3, <1>8
<1>11. \A i \in 1..(n + m) : i > n => kayit'[i].adim \in r.yeni /\ kayit'[i].durum = "bekliyor"
    BY <1>2, <1>10
<1>12. \A i, j \in 1..(n + m) :
          i > n /\ j > n /\ kayit'[i].adim = kayit'[j].adim => i = j
    <2> SUFFICES ASSUME NEW i \in 1..(n + m), NEW j \in 1..(n + m), i > n, j > n,
                        kayit'[i].adim = kayit'[j].adim
                 PROVE  i = j
        OBVIOUS
    <2>1. i - n = j - n
        BY <1>2, <1>10
    <2> QED
        BY <1>2, <1>3, <2>1
<1>13. \A a \in r.yeni : \E i \in 1..(n + m) : kayit'[i].adim = a
    <2> SUFFICES ASSUME NEW a \in r.yeni PROVE \E i \in 1..(n + m) : kayit'[i].adim = a
        OBVIOUS
    <2>1. PICK j \in 1..m : z[j].adim = a
        BY <1>2
    <2>2. n + j \in 1..(n + m) /\ n + j > n /\ (n + j) - n = j
        BY <1>2, <1>3
    <2> QED
        BY <1>10, <2>1, <2>2
<1>14. \A i \in 1..n :
          /\ kayit'[i].adim = kayit[i].adim
          /\ i = r.kayit => kayit'[i].durum = IF r.tur = "onayla" THEN "onaylandi" ELSE "reddedildi"
          /\ i # r.kayit /\ i \in r.atla => kayit'[i].durum = "atlandi"
          /\ i # r.kayit /\ i \notin r.atla => kayit'[i].durum = kayit[i].durum
    BY <1>4, <1>9
<1>15. n \in Nat /\ m \in Nat /\ kayit' \in Seq(KayitSatiri) /\ Len(kayit') = n + m /\ n + m <= MaxKayit
    BY <1>2, <1>3, <1>7, <1>8
<1> QED
    BY ONLY <1>11, <1>12, <1>13, <1>14, <1>15, Zenon DEF n, m

LEMMA TypeInit == Init => TypeOK
<1> SUFFICES ASSUME Init PROVE TypeOK
    OBVIOUS
<1>1. AcilanAdimlar(1) \in SUBSET Adim
    BY EsZamanliAssumption DEF AcilanAdimlar
<1>2. Cardinality(AcilanAdimlar(1)) <= Cardinality(Adim) /\ Cardinality(Adim) \in Nat
      /\ Cardinality(AcilanAdimlar(1)) \in Nat
    BY <1>1, EsZamanliAssumption, FS_Subset, FS_CardinalityType
<1>3. kayit \in Seq(KayitSatiri) /\ Len(kayit) <= MaxKayit
    BY <1>1, <1>2, YeniKayitlarSonuc, EsZamanliAssumption DEF Init
<1> QED
    BY <1>3, BosTipi DEF Init, TypeOK, TalepSatiri, TalepDurumu

LEMMA TypeNext == TypeOK /\ [Next]_vars => TypeOK'
<1> SUFFICES ASSUME TypeOK, [Next]_vars PROVE TypeOK'
    OBVIOUS
<1>1. ASSUME NEW w \in Istek, NEW tur \in Turler, NEW i \in DOMAIN kayit, KayitOku(w, tur, i)
      PROVE  TypeOK'
    <2>1. i \in 0..MaxKayit
        BY EsZamanliAssumption DEF TypeOK
    <2>2. [Bos EXCEPT !.tur = tur, !.kayit = i, !.asama = "ilk"] \in IstekSatiri
        BY <2>1, EsZamanliAssumption DEF Bos, IstekSatiri
    <2> QED
        BY <1>1, <2>2 DEF KayitOku, TypeOK
<1>2. ASSUME NEW w \in Istek, TalepOku(w)
      PROVE  TypeOK'
    <2>1. [Bos EXCEPT !.tur = "iptal", !.asama = "ilk"] \in IstekSatiri
        BY <1>2, BosTipi DEF TalepOku, Bos, IstekSatiri
    <2> QED
        BY <1>2, <2>1 DEF TalepOku, TypeOK
<1>3. ASSUME NEW w \in Istek, IlkKilit(w)
      PROVE  TypeOK'
    <2>1. PICK p \in Planlar(w) :
             istek' = [istek EXCEPT ![w] =
                [@ EXCEPT !.asama = "kalan", !.kilitler = KalanKilitler(p), !.atla = p.atla,
                          !.durum = IF p.durum = talep.durum THEN Yok ELSE p.durum,
                          !.mevcut = p.mevcut, !.yeni = p.yeni]]
        BY <1>3 DEF IlkKilit
    <2>2. p \in PlanSatiri
        BY PlanTipi
    <2>3. p.atla \in SUBSET (1..MaxKayit) /\ KalanKilitler(p) \in SUBSET (0..MaxKayit)
        BY <2>2, EsZamanliAssumption DEF PlanSatiri, KalanKilitler, TalepRow, TypeOK
    <2> DEFINE r == [istek[w] EXCEPT !.asama = "kalan", !.kilitler = KalanKilitler(p), !.atla = p.atla,
                          !.durum = IF p.durum = talep.durum THEN Yok ELSE p.durum,
                          !.mevcut = p.mevcut, !.yeni = p.yeni]
    <2>4. r \in IstekSatiri /\ r.asama = "kalan"
        BY <2>2, <2>3 DEF PlanSatiri, IstekSatiri, TypeOK
    <2>5. istek' = [istek EXCEPT ![w] = r]
        BY <2>1
    <2>6. kilit' = [kilit EXCEPT ![Beklenen(w)] = w] /\ UNCHANGED <<talep, kayit>>
        BY <1>3 DEF IlkKilit
    <2> HIDE DEF r
    <2> QED
        BY <2>4, <2>5, <2>6, EsZamanliAssumption DEF TypeOK
<1>4. ASSUME NEW w \in Istek, SonrakiKilit(w)
      PROVE  TypeOK'
    <2>1. [istek[w] EXCEPT !.kilitler = @ \ {Beklenen(w)}] \in IstekSatiri
        BY DEF IstekSatiri, TypeOK
    <2>2. /\ istek' = [istek EXCEPT ![w] = [istek[w] EXCEPT !.kilitler = @ \ {Beklenen(w)}]]
          /\ kilit' = [kilit EXCEPT ![Beklenen(w)] = w]
          /\ UNCHANGED <<talep, kayit>> /\ istek[w].asama = "kalan"
        BY <1>4 DEF SonrakiKilit
    <2>3. istek'[w].asama = "kalan" /\ \A v \in Istek \ {w} : istek'[v] = istek[v]
        BY <2>2 DEF TypeOK, IstekSatiri
    <2> QED
        BY <2>1, <2>2, <2>3, EsZamanliAssumption DEF TypeOK
<1>5. ASSUME NEW w \in Istek, Commit(w)
      PROVE  TypeOK'
    <2>1. kayit' \in Seq(KayitSatiri) /\ Len(kayit') <= MaxKayit
        BY <1>5, CommitKayitlari
    <2>2. talep' \in TalepSatiri
        BY <1>5 DEF Commit, TypeOK, TalepSatiri, IstekSatiri
    <2>3. kilit' = Birak(w) /\ istek' = [istek EXCEPT ![w] = Bos]
        BY <1>5 DEF Commit
    <2> QED
        BY <2>1, <2>2, <2>3, BirakSonuc, BosTipi, EsZamanliAssumption DEF TypeOK
<1>6. ASSUME NEW w \in Istek, GeriAl(w)
      PROVE  TypeOK'
    <2>1. kilit' = Birak(w) /\ istek' = [istek EXCEPT ![w] = Bos] /\ UNCHANGED <<talep, kayit>>
        BY <1>6 DEF GeriAl
    <2> QED
        BY <2>1, BirakSonuc, BosTipi, EsZamanliAssumption DEF TypeOK
<1>7. CASE UNCHANGED vars
    BY <1>7 DEF vars, TypeOK
<1> QED
    BY <1>1, <1>2, <1>3, <1>4, <1>5, <1>6, <1>7 DEF Next, Ilerle

\* Rows and handlers keep their shape and locks belong to handlers in flight, in any
\* flow: a transaction that ends leaves no lock behind.
THEOREM EsZamanliTipler == Spec => []TypeOK
<1>1. Init => TypeOK
    BY TypeInit
<1>2. TypeOK /\ [Next]_vars => TypeOK'
    BY TypeNext
<1> QED
    BY <1>1, <1>2, PTL DEF Spec

-----------------------------------------------------------------------------
(* A flow with one step per sira: what a handler plans.                    *)

\* The current step has one record at most.
LEMMA GrupTek ==
    ASSUME SiraliAkis, TypeOK, TekKayit, NEW i \in MevcutKayitlar(kayit),
           NEW j \in MevcutKayitlar(kayit)
    PROVE  i = j
<1>1. /\ i \in DOMAIN kayit /\ j \in DOMAIN kayit
      /\ AdimSira[kayit[i].adim] = AdimSira[kayit[j].adim]
    BY DEF MevcutKayitlar
<1>2. kayit[i].adim \in Adim /\ kayit[j].adim \in Adim
    BY <1>1, KayitTipi
<1> QED
    BY <1>1, <1>2 DEF SiraliAkis, TekKayit

\* The handler's view, with its own record flushed as approved.
LEMMA GorusSonuc ==
    ASSUME TypeOK, NEW i \in DOMAIN kayit,
           NEW k, k = [kayit EXCEPT ![i].durum = "onaylandi"]
    PROVE  /\ k[i].durum = "onaylandi"
           /\ \A j \in DOMAIN kayit : j # i => k[j] = kayit[j]
           /\ MevcutKayitlar(k) = MevcutKayitlar(kayit)
<1>1. kayit \in Seq(KayitSatiri) /\ DOMAIN k = DOMAIN kayit
    BY DEF TypeOK
<1>2. kayit[i] \in KayitSatiri
    BY <1>1
<1>3. k[i].durum = "onaylandi" /\ k[i].adim = kayit[i].adim
    BY <1>1, <1>2 DEF KayitSatiri
<1>4. \A j \in DOMAIN kayit : j # i => k[j] = kayit[j]
    BY <1>1
<1> QED
    BY <1>1, <1>3, <1>4 DEF MevcutKayitlar

\* _sonraki_adim_kontrol: a handler on the current step's record moves the request on;
\* one on an older record finds the current step undecided, or the last one approved.
LEMMA OnaylaPlaniSonuc ==
    ASSUME SiraliAkis, TypeOK, TekKayit, MevcutKaydi, NEW i \in DOMAIN kayit,
           NEW p \in OnaylaPlanlari(i)
    PROVE  \/ p = DegismezPlan /\ i \notin MevcutKayitlar(kayit)
           \/ /\ p = GecPlani({})
              /\ i \notin MevcutKayitlar(kayit) => SonrakiSiralar = {}
              /\ \A j \in MevcutKayitlar(kayit) \ {i} : kayit[j].durum = "onaylandi"
           \/ /\ p = [DegismezPlan EXCEPT !.durum = "onaylandi", !.talepYaz = TRUE]
              /\ MevcutKayitlar(kayit) = {}
<1> DEFINE k == [kayit EXCEPT ![i].durum = "onaylandi"]
           grup == MevcutKayitlar(k)
           onayli == {j \in grup : k[j].durum = "onaylandi"}
           bekleyen == {j \in grup : k[j].durum = "bekliyor"}
<1>1. /\ k[i].durum = "onaylandi"
      /\ \A j \in DOMAIN kayit : j # i => k[j] = kayit[j]
      /\ grup = MevcutKayitlar(kayit)
    BY GorusSonuc
<1>2. CASE grup = {}
    BY <1>1, <1>2 DEF OnaylaPlanlari
<1>3. CASE grup # {}
    <2>1. PICK ilk \in grup :
             p = IF AdimTumu[k[ilk].adim]
                 THEN IF onayli = grup THEN GecPlani({}) ELSE DegismezPlan
                 ELSE IF onayli # {} THEN GecPlani(bekleyen) ELSE DegismezPlan
        BY <1>3 DEF OnaylaPlanlari
    <2>2. grup = {ilk} /\ ilk \in DOMAIN kayit
        BY <1>1, GrupTek DEF MevcutKayitlar
    <2>3. CASE ilk = i
        <3>1. onayli = grup /\ onayli # {} /\ bekleyen = {}
            BY <1>1, <2>2, <2>3
        <3>2. p = GecPlani({})
            <4> HIDE DEF onayli, grup, bekleyen, k
            <4> QED
                BY <2>1, <3>1
        <3> QED
            BY <1>1, <2>2, <2>3, <3>2
    <2>4. CASE ilk # i /\ kayit[ilk].durum = "onaylandi"
        <3>1. onayli = grup /\ onayli # {} /\ bekleyen = {}
            BY <1>1, <2>2, <2>4
        <3>2. p = GecPlani({})
            <4> HIDE DEF onayli, grup, bekleyen, k
            <4> QED
                BY <2>1, <3>1
        <3>3. SonrakiSiralar = {}
            BY <1>1, <2>2, <2>4 DEF MevcutKaydi
        <3> QED
            BY <1>1, <2>2, <2>4, <3>2, <3>3
    <2>5. CASE ilk # i /\ kayit[ilk].durum # "onaylandi"
        <3>1. onayli # grup /\ onayli = {}
            BY <1>1, <2>2, <2>5
        <3>2. p = DegismezPlan
            <4> HIDE DEF onayli, grup, bekleyen, k
            <4> QED
                BY <2>1, <3>1
        <3> QED
            BY <1>1, <2>2, <2>5, <3>2
    <2> QED
        BY <2>3, <2>4, <2>5
<1> QED
    BY <1>2, <1>3

\* All plans of a handler that has read its first row.
LEMMA PlanSonuc ==
    ASSUME SiraliAkis, TypeOK, TekKayit, MevcutKaydi, IstekKaydi, NEW w \in Istek,
           istek[w].asama = "ilk", NEW p \in Planlar(w)
    PROVE  /\ IF p.mevcut # Yok
              THEN /\ istek[w].tur = "onayla"
                   /\ istek[w].kayit \in MevcutKayitlar(kayit)
                   /\ SonrakiSiralar # {}
                   /\ p.mevcut = Min(SonrakiSiralar)
                   /\ p.yeni = AcilanAdimlar(p.mevcut)
                   /\ p.durum = Yok
              ELSE /\ p.yeni = {}
                   /\ istek[w].tur = "onayla" /\ istek[w].kayit \in MevcutKayitlar(kayit) =>
                         SonrakiSiralar = {}
           /\ istek[w].kayit \in MevcutKayitlar(kayit) => p.talepYaz
           /\ istek[w].tur # "iptal" => p.atla = {}
           /\ istek[w].tur = "iptal" => p.atla = {i \in DOMAIN kayit : kayit[i].durum = "bekliyor"}
           /\ p.durum = "onaylandi" =>
                /\ istek[w].tur = "onayla"
                /\ \/ MevcutKayitlar(kayit) = {}
                   \/ /\ SonrakiSiralar = {}
                      /\ \A j \in MevcutKayitlar(kayit) \ {istek[w].kayit} : kayit[j].durum = "onaylandi"
<1>0. Yok # "onaylandi" /\ Yok # "reddedildi" /\ Yok # "iptal"
    BY EsZamanliAssumption DEF TalepDurumu
<1>1. CASE istek[w].tur = "iptal" /\ istek[w].kayit = TalepRow
    <2>1. p = IptalPlani
        BY <1>1 DEF Planlar
    <2>2. istek[w].kayit \notin MevcutKayitlar(kayit)
        BY <1>1 DEF MevcutKayitlar, TypeOK, TalepRow
    <2> QED
        BY <1>0, <1>1, <2>1, <2>2 DEF IptalPlani, DegismezPlan
<1>2. CASE istek[w].tur = "reddet" /\ istek[w].kayit \in DOMAIN kayit
    <2>1. p = RedPlani
        BY <1>2 DEF Planlar
    <2> QED
        BY <1>0, <1>2, <2>1 DEF RedPlani, DegismezPlan
<1>3. CASE istek[w].tur = "onayla" /\ istek[w].kayit \in DOMAIN kayit
    <2>1. p \in OnaylaPlanlari(istek[w].kayit)
        BY <1>3 DEF Planlar
    <2>2. CASE p = DegismezPlan /\ istek[w].kayit \notin MevcutKayitlar(kayit)
        BY <1>0, <1>3, <2>2 DEF DegismezPlan
    <2>3. CASE /\ p = GecPlani({})
               /\ istek[w].kayit \notin MevcutKayitlar(kayit) => SonrakiSiralar = {}
               /\ \A j \in MevcutKayitlar(kayit) \ {istek[w].kayit} : kayit[j].durum = "onaylandi"
        <3>1. CASE SonrakiSiralar # {}
            <4>1. Min(SonrakiSiralar) # Yok
                BY <3>1, SonrakiTipi, EsZamanliAssumption
            <4>2. /\ p.mevcut = Min(SonrakiSiralar) /\ p.yeni = AcilanAdimlar(Min(SonrakiSiralar))
                  /\ p.durum = Yok /\ p.talepYaz /\ p.atla = {}
                BY <2>3, <3>1 DEF GecPlani
            <4> QED
                BY <1>0, <1>3, <2>3, <3>1, <4>1, <4>2
        <3>2. CASE SonrakiSiralar = {}
            <4>1. /\ p.mevcut = Yok /\ p.yeni = {} /\ p.durum = "onaylandi" /\ p.talepYaz /\ p.atla = {}
                BY <2>3, <3>2 DEF GecPlani
            <4> QED
                BY <1>3, <2>3, <3>2, <4>1
        <3> QED
            BY <3>1, <3>2
    <2>4. CASE /\ p = [DegismezPlan EXCEPT !.durum = "onaylandi", !.talepYaz = TRUE]
               /\ MevcutKayitlar(kayit) = {}
        BY <1>3, <2>4 DEF DegismezPlan
    <2> QED
        BY <1>3, <2>1, <2>2, <2>3, <2>4, OnaylaPlaniSonuc
<1> QED
    BY <1>1, <1>2, <1>3 DEF IstekKaydi

-----------------------------------------------------------------------------
(* A flow with one step per sira: what a step does.                        *)

\* A step of handler w.
Adimi(w) ==
    \/ \E tur \in Turler, i \in DOMAIN kayit : KayitOku(w, tur, i)
    \/ TalepOku(w)
    \/ Ilerle(w)

\* It leaves the other handlers and the locks they hold alone.
LEMMA Digerleri ==
    ASSUME TypeOK, NEW w \in Istek, Adimi(w), NEW v \in Istek, v # w
    PROVE  /\ istek'[v] = istek[v]
           /\ \A x \in 0..MaxKayit : kilit[x] = v => kilit'[x] = v
<1>1. v # Yok
    BY EsZamanliAssumption
<1>2. CASE (\E tur \in Turler, i \in DOMAIN kayit : KayitOku(w, tur, i)) \/ TalepOku(w)
    BY <1>2 DEF KayitOku, TalepOku, TypeOK
<1>3. CASE IlkKilit(w) \/ SonrakiKilit(w)
    <2>1. kilit[Beklenen(w)] = Yok /\ kilit' = [kilit EXCEPT ![Beklenen(w)] = w]
        BY <1>3 DEF IlkKilit, SonrakiKilit, Serbest
    <2>2. istek'[v] = istek[v]
        BY <1>3 DEF IlkKilit, SonrakiKilit, TypeOK
    <2> QED
        BY <1>1, <2>1, <2>2 DEF TypeOK
<1>4. CASE Commit(w) \/ GeriAl(w)
    <2>1. kilit' = Birak(w) /\ istek' = [istek EXCEPT ![w] = Bos]
        BY <1>4 DEF Commit, GeriAl
    <2> QED
        BY <2>1, BirakSonuc DEF TypeOK
<1> QED
    BY <1>2, <1>3, <1>4 DEF Adimi, Ilerle

\* Only a commit changes the rows.
LEMMA SatirlarKalir ==
    ASSUME NEW w \in Istek, Adimi(w), ~Commit(w)
    PROVE  UNCHANGED <<talep, kayit>>
BY DEF Adimi, Ilerle, KayitOku, TalepOku, IlkKilit, SonrakiKilit, GeriAl

\* A commit that leaves the step alone opens no records.
LEMMA CommitDurur ==
    ASSUME TypeOK, PlanGecerli, NEW w \in Istek, Commit(w), istek[w].mevcut = Yok
    PROVE  /\ talep'.mevcut = talep.mevcut
           /\ Len(kayit') = Len(kayit)
           /\ \A i \in 1..Len(kayit) : kayit'[i].adim = kayit[i].adim
           /\ MevcutKayitlar(kayit)' = MevcutKayitlar(kayit)
           /\ UNCHANGED SonrakiSiralar
<1>1. istek[w].yeni = {}
    BY DEF PlanGecerli, Commit
<1>2. talep'.mevcut = talep.mevcut
    BY DEF Commit
<1>3. /\ Len(kayit) \in Nat /\ Len(kayit') = Len(kayit)
      /\ kayit' \in Seq(KayitSatiri)
      /\ \A i \in 1..Len(kayit) : kayit'[i].adim = kayit[i].adim
    <2>1. Cardinality(istek[w].yeni) = 0
        BY <1>1, FS_EmptySet
    <2>2. /\ kayit' \in Seq(KayitSatiri) /\ Len(kayit) \in Nat
          /\ Len(kayit') = Len(kayit) + Cardinality(istek[w].yeni)
          /\ \A i \in 1..Len(kayit) : kayit'[i].adim = kayit[i].adim
        BY CommitKayitlari
    <2> QED
        BY <2>1, <2>2
<1>4. DOMAIN kayit = 1..Len(kayit) /\ DOMAIN kayit' = 1..Len(kayit)
    BY <1>3 DEF TypeOK
<1> QED
    BY <1>2, <1>3, <1>4 DEF MevcutKayitlar, SonrakiSiralar

\* A commit that moves the request on leaves all older records behind, and opens those
\* of the new current step, which are pending.
LEMMA CommitIlerler ==
    ASSUME TypeOK, PlanGecerli, MevcutKaydi, NEW w \in Istek, Commit(w), istek[w].mevcut # Yok
    PROVE  /\ talep'.mevcut = Min(SonrakiSiralar)
           /\ talep'.mevcut > talep.mevcut
           /\ DOMAIN kayit \subseteq DOMAIN kayit'
           /\ \A i \in DOMAIN kayit :
                 kayit'[i].adim = kayit[i].adim /\ AdimSira[kayit'[i].adim] < talep'.mevcut
           /\ \A i \in DOMAIN kayit' \ DOMAIN kayit :
                 /\ kayit'[i].durum = "bekliyor"
                 /\ AdimSira[kayit'[i].adim] = talep'.mevcut
           /\ \A i, j \in DOMAIN kayit' \ DOMAIN kayit :
                 kayit'[i].adim = kayit'[j].adim => i = j
           /\ \A a \in Onayli :
                 AdimSira[a] = talep'.mevcut => \E i \in DOMAIN kayit' : kayit'[i].adim = a
<1>1. /\ SonrakiSiralar # {} /\ istek[w].mevcut = Min(SonrakiSiralar)
      /\ istek[w].yeni = AcilanAdimlar(istek[w].mevcut)
    BY DEF PlanGecerli, Commit
<1>2. talep'.mevcut = Min(SonrakiSiralar) /\ talep'.mevcut > talep.mevcut
      /\ talep.mevcut \in Nat /\ talep'.mevcut \in Nat
    BY <1>1, SonrakiTipi DEF Commit
<1>3. /\ kayit' \in Seq(KayitSatiri) /\ Len(kayit) \in Nat /\ Len(kayit') \in Nat
      /\ Len(kayit') >= Len(kayit)
      /\ DOMAIN kayit = 1..Len(kayit) /\ DOMAIN kayit' = 1..Len(kayit')
    BY CommitKayitlari DEF TypeOK
<1>4. DOMAIN kayit \subseteq DOMAIN kayit'
      /\ \A i \in DOMAIN kayit' \ DOMAIN kayit : i \in 1..Len(kayit') /\ i > Len(kayit)
    BY <1>3
<1>5. \A i \in DOMAIN kayit : /\ kayit'[i].adim = kayit[i].adim
                              /\ kayit[i].adim \in Adim
                              /\ AdimSira[kayit[i].adim] <= talep.mevcut
    <2>1. \A i \in 1..Len(kayit) : kayit'[i].adim = kayit[i].adim
        BY CommitKayitlari
    <2> QED
        BY <2>1, KayitTipi DEF MevcutKaydi
<1>6. \A a \in Adim : AdimSira[a] \in Nat
    BY EsZamanliAssumption
<1>7. \A i \in DOMAIN kayit' \ DOMAIN kayit :
         kayit'[i].durum = "bekliyor" /\ kayit'[i].adim \in istek[w].yeni
    BY <1>4, CommitKayitlari
<1>8. \A i, j \in DOMAIN kayit' \ DOMAIN kayit : kayit'[i].adim = kayit'[j].adim => i = j
    BY <1>4, CommitKayitlari
<1>9. \A a \in istek[w].yeni : \E i \in DOMAIN kayit' : kayit'[i].adim = a
    BY <1>3, CommitKayitlari
<1> QED
    BY <1>1, <1>2, <1>4, <1>5, <1>6, <1>7, <1>8, <1>9 DEF AcilanAdimlar

\* Either way the old records keep their step; the handler's own record has its
\* decision, the ones it skips are skipped, and the others are left alone.
LEMMA CommitYazar ==
    ASSUME TypeOK, NEW w \in Istek, Commit(w), NEW i \in DOMAIN kayit
    PROVE  /\ i \in DOMAIN kayit'
           /\ kayit'[i].adim = kayit[i].adim
           /\ i = istek[w].kayit =>
                 kayit'[i].durum = IF istek[w].tur = "onayla" THEN "onaylandi" ELSE "reddedildi"
           /\ i # istek[w].kayit /\ i \in istek[w].atla => kayit'[i].durum = "atlandi"
           /\ i # istek[w].kayit /\ i \notin istek[w].atla => kayit'[i].durum = kayit[i].durum
<1>1. /\ kayit' \in Seq(KayitSatiri) /\ Cardinality(istek[w].yeni) \in Nat
      /\ Len(kayit') = Len(kayit) + Cardinality(istek[w].yeni)
    BY CommitKayitlari
<1>2. i \in 1..Len(kayit) /\ i \in DOMAIN kayit'
    BY <1>1, KayitTipi
<1> QED
    BY <1>2, CommitKayitlari

\* A committing handler on the current step's record holds the request's row.
LEMMA CommitKilidi ==
    ASSUME TypeOK, KilitSahibi, NEW w \in Istek, Commit(w)
    PROVE  /\ kilit[istek[w].kayit] = w
           /\ istek[w].kayit \in MevcutKayitlar(kayit) => kilit[TalepRow] = w
BY DEF KilitSahibi, Commit

-----------------------------------------------------------------------------
(* One record for a step.                                                  *)

LEMMA IstekKaydiNext ==
    ASSUME TypeOK, IstekKaydi, NEW w \in Istek, Adimi(w)
    PROVE  IstekKaydi'
<1> SUFFICES ASSUME NEW v \in Istek, istek'[v].asama # "bos"
             PROVE  \/ istek'[v].tur = "iptal" /\ istek'[v].kayit = TalepRow
                    \/ istek'[v].tur \in {"onayla", "reddet"} /\ istek'[v].kayit \in DOMAIN kayit'
    BY DEF IstekKaydi
<1>1. DOMAIN kayit \subseteq DOMAIN kayit'
    BY SatirlarKalir, CommitYazar
<1>2. CASE v # w
    BY <1>1, <1>2, Digerleri DEF IstekKaydi
<1>3. CASE v = w
    <2>1. ASSUME NEW tur \in Turler, NEW i \in DOMAIN kayit, KayitOku(w, tur, i)
          PROVE  istek'[w].tur \in {"onayla", "reddet"} /\ istek'[w].kayit \in DOMAIN kayit
        BY <2>1, EsZamanliAssumption DEF KayitOku, Bos, TypeOK
    <2>2. CASE TalepOku(w)
        BY <1>3, <2>2 DEF TalepOku, Bos, TypeOK
    <2>3. CASE IlkKilit(w)
        <3>1. istek'[w].tur = istek[w].tur /\ istek'[w].kayit = istek[w].kayit /\ istek[w].asama # "bos"
            BY <2>3 DEF IlkKilit, TypeOK, IstekSatiri
        <3> QED
            BY <1>1, <1>3, <3>1 DEF IstekKaydi
    <2>4. CASE SonrakiKilit(w)
        <3>1. istek'[w].tur = istek[w].tur /\ istek'[w].kayit = istek[w].kayit /\ istek[w].asama # "bos"
            BY <2>4 DEF SonrakiKilit, TypeOK, IstekSatiri
        <3> QED
            BY <1>1, <1>3, <3>1 DEF IstekKaydi
    <2>5. CASE Commit(w) \/ GeriAl(w)
        BY <1>3, <2>5 DEF Commit, GeriAl, Bos, TypeOK
    <2> QED
        BY <1>1, <1>3, <2>1, <2>2, <2>3, <2>4, <2>5 DEF Adimi, Ilerle
<1> QED
    BY <1>2, <1>3

\* What a handler has when it takes its first lock: the plan PlanSonuc describes.
LEMMA IlkKilitSonuc ==
    ASSUME TypeOK, NEW w \in Istek, IlkKilit(w)
    PROVE  \E p \in Planlar(w) :
              /\ istek[w].asama = "ilk" /\ istek'[w].asama = "kalan"
              /\ istek'[w].tur = istek[w].tur /\ istek'[w].kayit = istek[w].kayit
              /\ istek'[w].kilitler = KalanKilitler(p) /\ istek'[w].atla = p.atla
              /\ istek'[w].durum = (IF p.durum = talep.durum THEN Yok ELSE p.durum)
              /\ istek'[w].mevcut = p.mevcut /\ istek'[w].yeni = p.yeni
              /\ kilit'[istek[w].kayit] = w
              /\ UNCHANGED <<talep, kayit>>
<1>1. PICK p \in Planlar(w) :
         istek' = [istek EXCEPT ![w] =
            [@ EXCEPT !.asama = "kalan", !.kilitler = KalanKilitler(p), !.atla = p.atla,
                      !.durum = IF p.durum = talep.durum THEN Yok ELSE p.durum,
                      !.mevcut = p.mevcut, !.yeni = p.yeni]]
    BY DEF IlkKilit
<1>2. istek[w] \in IstekSatiri
    BY DEF TypeOK
<1>3. kilit'[istek[w].kayit] = w /\ istek[w].asama = "ilk" /\ UNCHANGED <<talep, kayit>>
    BY <1>2 DEF IlkKilit, Beklenen, TypeOK, IstekSatiri
<1>4. /\ istek'[w].asama = "kalan"
      /\ istek'[w].tur = istek[w].tur /\ istek'[w].kayit = istek[w].kayit
      /\ istek'[w].kilitler = KalanKilitler(p) /\ istek'[w].atla = p.atla
      /\ istek'[w].durum = (IF p.durum = talep.durum THEN Yok ELSE p.durum)
      /\ istek'[w].mevcut = p.mevcut /\ istek'[w].yeni = p.yeni
    BY <1>1, <1>2 DEF TypeOK, IstekSatiri
<1> QED
    BY <1>3, <1>4

\* What it has after one more lock.
LEMMA SonrakiKilitSonuc ==
    ASSUME TypeOK, NEW w \in Istek, SonrakiKilit(w)
    PROVE  /\ istek[w].asama = "kalan" /\ istek'[w].asama = "kalan"
           /\ istek'[w].tur = istek[w].tur /\ istek'[w].kayit = istek[w].kayit
           /\ istek'[w].atla = istek[w].atla /\ istek'[w].durum = istek[w].durum
           /\ istek'[w].mevcut = istek[w].mevcut /\ istek'[w].yeni = istek[w].yeni
           /\ \A x \in istek[w].kilitler : kilit'[x] = w \/ x \in istek'[w].kilitler
           /\ \A x \in 0..MaxKayit : kilit[x] = w => kilit'[x] = w
           /\ UNCHANGED <<talep, kayit>>
<1>1. istek[w] \in IstekSatiri
    BY DEF TypeOK
<1>2. /\ istek[w].asama = "kalan" /\ UNCHANGED <<talep, kayit>>
      /\ kilit' = [kilit EXCEPT ![Beklenen(w)] = w]
      /\ istek' = [istek EXCEPT ![w].kilitler = @ \ {Beklenen(w)}]
    BY DEF SonrakiKilit
<1>3. /\ istek'[w].asama = istek[w].asama
      /\ istek'[w].tur = istek[w].tur /\ istek'[w].kayit = istek[w].kayit
      /\ istek'[w].atla = istek[w].atla /\ istek'[w].durum = istek[w].durum
      /\ istek'[w].mevcut = istek[w].mevcut /\ istek'[w].yeni = istek[w].yeni
      /\ istek'[w].kilitler = istek[w].kilitler \ {Beklenen(w)}
    BY <1>1, <1>2 DEF TypeOK, IstekSatiri
<1>4. istek[w].kilitler \subseteq 0..MaxKayit
    BY <1>1 DEF IstekSatiri
<1> QED
    BY <1>2, <1>3, <1>4 DEF TypeOK

LEMMA KilitSahibiNext ==
    ASSUME SiraliAkis, TekKayitIInv, NEW w \in Istek, Adimi(w), TypeOK'
    PROVE  KilitSahibi'
<1> USE DEF TekKayitIInv
<1> SUFFICES ASSUME NEW v \in Istek, istek'[v].asama = "kalan"
             PROVE  /\ kilit'[istek'[v].kayit] = v
                    /\ istek'[v].kayit \in MevcutKayitlar(kayit)' =>
                          kilit'[TalepRow] = v \/ TalepRow \in istek'[v].kilitler
    BY DEF KilitSahibi
<1>0. istek[v].kayit \in 0..MaxKayit /\ TalepRow \in 0..MaxKayit
    BY EsZamanliAssumption DEF TypeOK, IstekSatiri, TalepRow
<1>1. CASE v # w
    <2>1. istek'[v] = istek[v] /\ \A x \in 0..MaxKayit : kilit[x] = v => kilit'[x] = v
        BY <1>1, Digerleri
    <2>2. ASSUME istek'[v].kayit \in MevcutKayitlar(kayit)'
          PROVE  istek[v].kayit \in MevcutKayitlar(kayit)
        <3>1. CASE ~Commit(w)
            BY <2>1, <2>2, <3>1, SatirlarKalir DEF MevcutKayitlar
        <3>2. CASE Commit(w) /\ istek[w].mevcut = Yok
            BY <2>1, <2>2, <3>2, CommitDurur
        <3>3. CASE Commit(w) /\ istek[w].mevcut # Yok
            <4>1. istek[v].kayit \in DOMAIN kayit \/ istek[v].kayit = TalepRow
                BY <2>1 DEF IstekKaydi
            <4>2. TalepRow \notin DOMAIN kayit'
                <5>1. kayit' \in Seq(KayitSatiri)
                    BY DEF TypeOK
                <5> QED
                    BY <5>1 DEF TalepRow
            <4>3. istek[v].kayit \in DOMAIN kayit' /\ AdimSira[kayit'[istek[v].kayit].adim] = talep'.mevcut
                BY <2>1, <2>2 DEF MevcutKayitlar
            <4>4. \A i \in DOMAIN kayit : AdimSira[kayit'[i].adim] < talep'.mevcut
                BY <3>3, CommitIlerler
            <4>5. talep'.mevcut \in Nat
                BY <3>3, CommitIlerler, SonrakiTipi DEF PlanGecerli, Commit
            <4> QED
                BY <4>1, <4>2, <4>3, <4>4, <4>5
        <3> QED
            BY <3>1, <3>2, <3>3
    <2> QED
        BY <1>0, <2>1, <2>2 DEF KilitSahibi
<1>2. CASE v = w
    <2>1. CASE (\E tur \in Turler, i \in DOMAIN kayit : KayitOku(w, tur, i)) \/ TalepOku(w)
        BY <1>2, <2>1 DEF KayitOku, TalepOku, Bos, TypeOK
    <2>2. CASE Commit(w) \/ GeriAl(w)
        BY <1>2, <2>2 DEF Commit, GeriAl, Bos, TypeOK
    <2>3. CASE IlkKilit(w)
        <3>1. PICK p \in Planlar(w) :
                  /\ istek[w].asama = "ilk" /\ istek'[w].kayit = istek[w].kayit
                  /\ istek'[w].kilitler = KalanKilitler(p)
                  /\ kilit'[istek[w].kayit] = w
                  /\ UNCHANGED <<talep, kayit>>
            BY <2>3, IlkKilitSonuc
        <3>2. istek[w].kayit \in MevcutKayitlar(kayit) => p.talepYaz
            BY <3>1, PlanSonuc
        <3> QED
            BY <1>2, <3>1, <3>2 DEF KalanKilitler, MevcutKayitlar
    <2>4. CASE SonrakiKilit(w)
        <3>1. MevcutKayitlar(kayit)' = MevcutKayitlar(kayit)
            BY <2>4, SonrakiKilitSonuc DEF MevcutKayitlar
        <3> QED
            BY <1>0, <1>2, <2>4, <3>1, SonrakiKilitSonuc DEF KilitSahibi
    <2> QED
        BY <2>1, <2>2, <2>3, <2>4 DEF Adimi, Ilerle
<1> QED
    BY <1>1, <1>2

\* Whoever moves the request on is alone on the current step's record, so the plans of
\* all others stay right.
LEMMA PlanGecerliNext ==
    ASSUME SiraliAkis, TekKayitIInv, NEW w \in Istek, Adimi(w), TypeOK'
    PROVE  PlanGecerli'
<1> USE DEF TekKayitIInv
<1> SUFFICES ASSUME NEW v \in Istek, istek'[v].asama = "kalan"
             PROVE  IF istek'[v].mevcut # Yok
                    THEN /\ istek'[v].tur = "onayla"
                         /\ istek'[v].kayit \in MevcutKayitlar(kayit)'
                         /\ SonrakiSiralar' # {}
                         /\ istek'[v].mevcut = Min(SonrakiSiralar')
                         /\ istek'[v].yeni = AcilanAdimlar(istek'[v].mevcut)
                         /\ istek'[v].durum = Yok
                    ELSE /\ istek'[v].yeni = {}
                         /\ istek'[v].tur = "onayla" /\ istek'[v].kayit \in MevcutKayitlar(kayit)' =>
                               SonrakiSiralar' = {}
    BY DEF PlanGecerli
<1>1. ASSUME UNCHANGED <<talep, kayit>>
      PROVE  MevcutKayitlar(kayit)' = MevcutKayitlar(kayit) /\ SonrakiSiralar' = SonrakiSiralar
    BY <1>1 DEF MevcutKayitlar, SonrakiSiralar
<1>2. CASE v # w /\ ~Commit(w)
    <2>1. istek'[v] = istek[v]
        BY <1>2, Digerleri
    <2> QED
        BY <1>1, <1>2, <2>1, SatirlarKalir DEF PlanGecerli
<1>3. CASE v # w /\ Commit(w) /\ istek[w].mevcut = Yok
    <2>1. istek'[v] = istek[v]
        BY <1>3, Digerleri
    <2> QED
        BY <1>3, <2>1, CommitDurur DEF PlanGecerli
<1>4. CASE v # w /\ Commit(w) /\ istek[w].mevcut # Yok
    <2>1. istek'[v] = istek[v] /\ istek[v].asama = "kalan"
        BY <1>4, Digerleri
    <2>2. istek[w].kayit \in MevcutKayitlar(kayit) /\ kilit[istek[w].kayit] = w
        BY <1>4, CommitKilidi DEF PlanGecerli, Commit
    <2>3. istek[v].mevcut = Yok
        <3> SUFFICES ASSUME istek[v].mevcut # Yok PROVE FALSE
            OBVIOUS
        <3>1. istek[v].kayit \in MevcutKayitlar(kayit) /\ kilit[istek[v].kayit] = v
            BY <2>1 DEF PlanGecerli, KilitSahibi
        <3> QED
            BY <1>4, <2>2, <3>1, GrupTek
    <2>4. istek[v].kayit \notin MevcutKayitlar(kayit)' \/ istek[v].tur # "onayla"
        <3>1. ASSUME istek[v].tur = "onayla" PROVE istek[v].kayit \in DOMAIN kayit
            BY <2>1, <3>1 DEF IstekKaydi
        <3>2. \A i \in DOMAIN kayit : AdimSira[kayit'[i].adim] < talep'.mevcut
            BY <1>4, CommitIlerler
        <3>3. talep'.mevcut \in Nat
            BY <1>4, CommitIlerler, SonrakiTipi DEF PlanGecerli, Commit
        <3>4. ASSUME istek[v].tur = "onayla", istek[v].kayit \in MevcutKayitlar(kayit)'
              PROVE  FALSE
            <4>1. AdimSira[kayit'[istek[v].kayit].adim] = talep'.mevcut
                BY <3>4 DEF MevcutKayitlar
            <4> QED
                BY <3>1, <3>2, <3>3, <3>4, <4>1
        <3> QED
            BY <3>4
    <2> QED
        BY <2>1, <2>3, <2>4 DEF PlanGecerli
<1>5. CASE v = w
    <2>1. CASE (\E tur \in Turler, i \in DOMAIN kayit : KayitOku(w, tur, i)) \/ TalepOku(w)
        BY <1>5, <2>1 DEF KayitOku, TalepOku, Bos, TypeOK
    <2>2. CASE Commit(w) \/ GeriAl(w)
        BY <1>5, <2>2 DEF Commit, GeriAl, Bos, TypeOK
    <2>3. CASE IlkKilit(w)
        <3>1. PICK p \in Planlar(w) :
                  /\ istek[w].asama = "ilk"
                  /\ istek'[w].tur = istek[w].tur /\ istek'[w].kayit = istek[w].kayit
                  /\ istek'[w].durum = (IF p.durum = talep.durum THEN Yok ELSE p.durum)
                  /\ istek'[w].mevcut = p.mevcut /\ istek'[w].yeni = p.yeni
                  /\ UNCHANGED <<talep, kayit>>
            BY <2>3, IlkKilitSonuc
        <3>2. IF p.mevcut # Yok
              THEN /\ istek[w].tur = "onayla"
                   /\ istek[w].kayit \in MevcutKayitlar(kayit)
                   /\ SonrakiSiralar # {}
                   /\ p.mevcut = Min(SonrakiSiralar)
                   /\ p.yeni = AcilanAdimlar(p.mevcut)
                   /\ p.durum = Yok
              ELSE /\ p.yeni = {}
                   /\ istek[w].tur = "onayla" /\ istek[w].kayit \in MevcutKayitlar(kayit) =>
                         SonrakiSiralar = {}
            BY <3>1, PlanSonuc
        <3>3. p.durum = Yok => istek'[w].durum = Yok
            BY <3>1
        <3> QED
            BY <1>1, <1>5, <3>1, <3>2, <3>3
    <2>4. CASE SonrakiKilit(w)
        BY <1>1, <1>5, <2>4, SonrakiKilitSonuc DEF PlanGecerli
    <2> QED
        BY <2>1, <2>2, <2>3, <2>4 DEF Adimi, Ilerle
<1> QED
    BY <1>2, <1>3, <1>4, <1>5

LEMMA MevcutKaydiNext ==
    ASSUME SiraliAkis, TekKayitIInv, NEW w \in Istek, Adimi(w), TypeOK'
    PROVE  MevcutKaydi'
<1> USE DEF TekKayitIInv
<1>1. CASE ~Commit(w)
    BY <1>1, SatirlarKalir DEF MevcutKaydi, MevcutKayitlar, SonrakiSiralar
<1>2. CASE Commit(w) /\ istek[w].mevcut = Yok
    <2>1. /\ talep'.mevcut = talep.mevcut /\ DOMAIN kayit' = DOMAIN kayit
          /\ MevcutKayitlar(kayit)' = MevcutKayitlar(kayit) /\ SonrakiSiralar' = SonrakiSiralar
        <3>1. kayit' \in Seq(KayitSatiri) /\ kayit \in Seq(KayitSatiri)
            BY DEF TypeOK
        <3> QED
            BY <1>2, <3>1, CommitDurur
    <2>2. \A i \in DOMAIN kayit : AdimSira[kayit'[i].adim] <= talep.mevcut
        BY <1>2, CommitYazar DEF MevcutKaydi
    <2>3. ASSUME NEW i \in MevcutKayitlar(kayit), kayit'[i].durum = "onaylandi"
          PROVE  SonrakiSiralar = {}
        <3>1. i \in DOMAIN kayit
            BY DEF MevcutKayitlar
        <3>2. CASE i = istek[w].kayit
            <4>1. istek[w].tur = "onayla"
                BY <1>2, <2>3, <3>1, <3>2, CommitYazar
            <4> QED
                BY <1>2, <3>2, <4>1 DEF PlanGecerli, Commit
        <3>3. CASE i # istek[w].kayit
            <4>1. kayit[i].durum = "onaylandi"
                BY <1>2, <2>3, <3>1, <3>3, CommitYazar
            <4> QED
                BY <4>1 DEF MevcutKaydi
        <3> QED
            BY <3>2, <3>3
    <2> QED
        BY <2>1, <2>2, <2>3 DEF MevcutKaydi
<1>3. CASE Commit(w) /\ istek[w].mevcut # Yok
    <2>0. talep'.mevcut \in Nat
        BY <1>3, CommitIlerler, SonrakiTipi DEF PlanGecerli, Commit
    <2>1. \A i \in DOMAIN kayit : AdimSira[kayit'[i].adim] < talep'.mevcut
        BY <1>3, CommitIlerler
    <2>2. \A i \in DOMAIN kayit' \ DOMAIN kayit :
              AdimSira[kayit'[i].adim] = talep'.mevcut /\ kayit'[i].durum = "bekliyor"
        BY <1>3, CommitIlerler
    <2>3. \A i \in DOMAIN kayit : AdimSira[kayit'[i].adim] \in Nat
        BY <1>3, CommitYazar, KayitTipi
    <2> QED
        BY <2>0, <2>1, <2>2, <2>3 DEF MevcutKaydi, MevcutKayitlar
<1> QED
    BY <1>1, <1>2, <1>3

LEMMA TekKayitNext ==
    ASSUME SiraliAkis, TekKayitIInv, NEW w \in Istek, Adimi(w), TypeOK'
    PROVE  TekKayit'
<1> USE DEF TekKayitIInv
<1>1. CASE ~Commit(w)
    BY <1>1, SatirlarKalir DEF TekKayit
<1>2. CASE Commit(w) /\ istek[w].mevcut = Yok
    <2>1. DOMAIN kayit' = DOMAIN kayit
        <3>1. kayit' \in Seq(KayitSatiri) /\ kayit \in Seq(KayitSatiri)
            BY DEF TypeOK
        <3> QED
            BY <1>2, <3>1, CommitDurur
    <2>2. \A i \in DOMAIN kayit : kayit'[i].adim = kayit[i].adim
        BY <1>2, CommitYazar
    <2> QED
        BY <2>1, <2>2 DEF TekKayit
<1>3. CASE Commit(w) /\ istek[w].mevcut # Yok
    <2>0. talep'.mevcut \in Nat
        BY <1>3, CommitIlerler, SonrakiTipi DEF PlanGecerli, Commit
    <2>1. \A i \in DOMAIN kayit :
              kayit'[i].adim = kayit[i].adim /\ AdimSira[kayit'[i].adim] < talep'.mevcut
        BY <1>3, CommitIlerler
    <2>2. \A i \in DOMAIN kayit' \ DOMAIN kayit : AdimSira[kayit'[i].adim] = talep'.mevcut
        BY <1>3, CommitIlerler
    <2>3. \A i, j \in DOMAIN kayit' \ DOMAIN kayit : kayit'[i].adim = kayit'[j].adim => i = j
        BY <1>3, CommitIlerler
    <2> SUFFICES ASSUME NEW i \in DOMAIN kayit', NEW j \in DOMAIN kayit',
                        kayit'[i].adim = kayit'[j].adim
                 PROVE  i = j
        BY DEF TekKayit
    <2>4. CASE i \in DOMAIN kayit /\ j \in DOMAIN kayit
        BY <2>1, <2>4 DEF TekKayit
    <2>5. CASE i \notin DOMAIN kayit /\ j \notin DOMAIN kayit
        BY <2>3, <2>5
    <2>6. CASE ~(i \in DOMAIN kayit <=> j \in DOMAIN kayit)
        BY <2>0, <2>1, <2>2, <2>6
    <2> QED
        BY <2>4, <2>5, <2>6
<1> QED
    BY <1>1, <1>2, <1>3

\* talep_olustur leaves one pending record for each step it opens.
LEMMA InitKayitlari ==
    ASSUME Init
    PROVE  /\ talep.mevcut = 1 /\ talep.durum = "bekliyor"
           /\ DOMAIN kayit \subseteq Nat
           /\ \A i \in DOMAIN kayit :
                 /\ kayit[i].adim \in AcilanAdimlar(1)
                 /\ kayit[i].durum = "bekliyor"
           /\ \A i, j \in DOMAIN kayit : kayit[i].adim = kayit[j].adim => i = j
           /\ \A a \in AcilanAdimlar(1) : \E i \in DOMAIN kayit : kayit[i].adim = a
           /\ \A w \in Istek : istek[w].asama = "bos"
<1>1. AcilanAdimlar(1) \in SUBSET Adim
    BY EsZamanliAssumption DEF AcilanAdimlar
<1>2. kayit = YeniKayitlar(AcilanAdimlar(1)) /\ talep = [durum |-> "bekliyor", mevcut |-> 1]
      /\ istek = [w \in Istek |-> Bos]
    BY DEF Init
<1>3. kayit \in Seq(KayitSatiri) /\ DOMAIN kayit = 1..Cardinality(AcilanAdimlar(1))
    BY <1>1, <1>2, YeniKayitlarSonuc
<1>4. DOMAIN kayit \subseteq Nat
    BY <1>3
<1> QED
    BY <1>1, <1>2, <1>3, <1>4, YeniKayitlarSonuc DEF Bos

LEMMA TekKayitInit == Init => TekKayitIInv
<1> SUFFICES ASSUME Init PROVE TekKayitIInv
    OBVIOUS
<1>1. TypeOK
    BY TypeInit
<1>2. MevcutKaydi
    <2>1. \A i \in DOMAIN kayit : AdimSira[kayit[i].adim] = 1 /\ kayit[i].durum # "onaylandi"
        BY InitKayitlari DEF AcilanAdimlar
    <2> QED
        BY <2>1, InitKayitlari DEF MevcutKaydi, MevcutKayitlar
<1>3. TekKayit /\ IstekKaydi /\ KilitSahibi /\ PlanGecerli
    BY InitKayitlari DEF TekKayit, IstekKaydi, KilitSahibi, PlanGecerli
<1> QED
    BY <1>1, <1>2, <1>3 DEF TekKayitIInv

LEMMA TekKayitIInvNext ==
    ASSUME SiraliAkis, TekKayitIInv, [Next]_vars
    PROVE  TekKayitIInv'
<1>1. TypeOK'
    BY TypeNext DEF TekKayitIInv
<1>2. CASE UNCHANGED vars
    BY <1>1, <1>2 DEF vars, TekKayitIInv, IstekKaydi, KilitSahibi, MevcutKaydi, PlanGecerli,
                      TekKayit, MevcutKayitlar, SonrakiSiralar
<1>3. CASE Next
    <2>1. PICK w \in Istek : Adimi(w)
        BY <1>3 DEF Next, Adimi
    <2>2. IstekKaydi' /\ KilitSahibi' /\ MevcutKaydi' /\ PlanGecerli' /\ TekKayit'
        BY <1>1, <2>1, IstekKaydiNext, KilitSahibiNext, MevcutKaydiNext, PlanGecerliNext,
           TekKayitNext DEF TekKayitIInv
    <2> QED
        BY <1>1, <2>2 DEF TekKayitIInv
<1> QED
    BY <1>2, <1>3

\* The engine opens the records of a step once: in a flow with one step per sira, no
\* number of approvals, rejections and withdrawals in flight makes two records for it.
THEOREM KayitTekKalir ==
    ASSUME SiraliAkis
    PROVE  Spec => []TekKayit
<1>1. Init => TekKayitIInv
    BY TekKayitInit
<1>2. TekKayitIInv /\ [Next]_vars => TekKayitIInv'
    BY TekKayitIInvNext
<1>3. TekKayitIInv => TekKayit
    BY DEF TekKayitIInv
<1> QED
    BY <1>1, <1>2, <1>3, PTL DEF Spec

-----------------------------------------------------------------------------
(* An approver for every step: what an approved request has behind it.     *)

\* A withdrawal that skips records holds the request's row, so nobody who needs that
\* row, or a record of the current step and then that row, commits before it.
LEMMA IptalTekBasina ==
    ASSUME AdimIInv, NEW v \in Istek, istek[v].asama = "kalan", istek[v].atla # {},
           NEW w \in Istek, w # v, Commit(w)
    PROVE  /\ istek[w].mevcut = Yok /\ istek[w].atla = {}
           /\ istek[w].kayit \notin MevcutKayitlar(kayit)
<1> USE DEF AdimIInv, TekKayitIInv
<1>1. kilit[TalepRow] = v
    <2>1. istek[v].tur = "iptal"
        BY DEF KararGecerli
    <2>2. istek[v].kayit = TalepRow
        BY <2>1 DEF IstekKaydi
    <2> QED
        BY <2>2 DEF KilitSahibi
<1>2. istek[w].kayit \notin MevcutKayitlar(kayit)
    BY <1>1, CommitKilidi
<1>3. istek[w].mevcut = Yok
    BY <1>2 DEF PlanGecerli, Commit
<1>4. istek[w].tur # "iptal"
    <2>1. ASSUME istek[w].tur = "iptal" PROVE FALSE
        <3>1. istek[w].kayit = TalepRow
            BY <2>1 DEF IstekKaydi, Commit
        <3> QED
            BY <1>1, <3>1, CommitKilidi
    <2> QED
        BY <2>1
<1> QED
    BY <1>2, <1>3, <1>4 DEF KararGecerli, Commit

\* A decided record stays decided, whoever commits.
LEMMA KararKalir ==
    ASSUME AdimIInv, NEW w \in Istek, Adimi(w), NEW i \in DOMAIN kayit, Kararli(i)
    PROVE  kayit'[i].durum \in {"onaylandi", "reddedildi"}
<1>1. CASE ~Commit(w)
    BY <1>1, SatirlarKalir DEF Kararli
<1>2. CASE Commit(w)
    <2>1. i \notin istek[w].atla
        BY <1>2 DEF AdimIInv, KararGecerli, Kararli, Commit
    <2> QED
        BY <1>2, <2>1, CommitYazar DEF Kararli, AdimIInv, TekKayitIInv
<1> QED
    BY <1>1, <1>2

\* The committing handler's own record is decided.
LEMMA KendiKarari ==
    ASSUME TypeOK, NEW w \in Istek, Commit(w), NEW i \in DOMAIN kayit, i = istek[w].kayit
    PROVE  kayit'[i].durum \in {"onaylandi", "reddedildi"}
BY CommitYazar

LEMMA OncekilerNext ==
    ASSUME SiraliAkis, Onayli = Adim, AdimIInv, NEW w \in Istek, Adimi(w), TypeOK'
    PROVE  OncekilerKararli'
<1> USE DEF AdimIInv, TekKayitIInv
<1>1. CASE ~Commit(w)
    BY <1>1, SatirlarKalir DEF OncekilerKararli, Kararli
<1>2. CASE Commit(w) /\ istek[w].mevcut = Yok
    <2>1. talep'.mevcut = talep.mevcut /\ DOMAIN kayit' = DOMAIN kayit
        <3>1. kayit' \in Seq(KayitSatiri) /\ kayit \in Seq(KayitSatiri)
            BY DEF TypeOK
        <3> QED
            BY <1>2, <3>1, CommitDurur
    <2>2. \A i \in DOMAIN kayit : kayit'[i].adim = kayit[i].adim
        BY <1>2, CommitYazar
    <2>3. \A i \in DOMAIN kayit : Kararli(i) => kayit'[i].durum \in {"onaylandi", "reddedildi"}
        BY KararKalir
    <2> QED
        BY <2>1, <2>2, <2>3 DEF OncekilerKararli, Kararli
<1>3. CASE Commit(w) /\ istek[w].mevcut # Yok
    <2>0. /\ talep'.mevcut \in Nat /\ talep.mevcut \in Nat
          /\ talep'.mevcut = Min(SonrakiSiralar)
          /\ \A s \in SonrakiSiralar : talep'.mevcut <= s
        BY <1>3, CommitIlerler, SonrakiTipi DEF PlanGecerli, Commit
    <2>1. ASSUME NEW a \in Adim, AdimSira[a] <= talep'.mevcut
          PROVE  \E i \in DOMAIN kayit' : kayit'[i].adim = a
        <3>1. AdimSira[a] \in Nat /\ AdimSira[a] \in Range(AdimSira)
            BY EsZamanliAssumption DEF Range
        <3>2. CASE AdimSira[a] <= talep.mevcut
            <4>1. PICK i \in DOMAIN kayit : kayit[i].adim = a
                BY <3>2 DEF OncekilerKararli
            <4> QED
                BY <1>3, <4>1, CommitYazar
        <3>3. CASE AdimSira[a] > talep.mevcut
            <4>1. AdimSira[a] \in SonrakiSiralar
                BY <3>1, <3>3 DEF SonrakiSiralar
            <4>2. AdimSira[a] = talep'.mevcut
                BY <2>0, <2>1, <3>1, <4>1
            <4> QED
                BY <1>3, <4>2, CommitIlerler
        <3> QED
            BY <2>0, <3>1, <3>2, <3>3
    <2>2. ASSUME NEW i \in DOMAIN kayit', AdimSira[kayit'[i].adim] < talep'.mevcut
          PROVE  kayit'[i].durum \in {"onaylandi", "reddedildi"}
        <3>1. i \in DOMAIN kayit
            BY <1>3, <2>0, <2>2, CommitIlerler
        <3>2. kayit'[i].adim = kayit[i].adim /\ AdimSira[kayit[i].adim] \in Nat
              /\ AdimSira[kayit[i].adim] <= talep.mevcut
            BY <1>3, <3>1, CommitYazar, KayitTipi DEF MevcutKaydi
        <3>3. CASE AdimSira[kayit[i].adim] < talep.mevcut
            BY <3>1, <3>3, KararKalir DEF OncekilerKararli
        <3>4. CASE AdimSira[kayit[i].adim] = talep.mevcut
            <4>1. i \in MevcutKayitlar(kayit) /\ istek[w].kayit \in MevcutKayitlar(kayit)
                BY <1>3, <3>1, <3>4 DEF MevcutKayitlar, PlanGecerli, Commit
            <4>2. i = istek[w].kayit
                BY <4>1, GrupTek
            <4> QED
                BY <1>3, <3>1, <4>2, KendiKarari
        <3> QED
            BY <2>0, <3>2, <3>3, <3>4
    <2> QED
        BY <2>1, <2>2 DEF OncekilerKararli, Kararli
<1> QED
    BY <1>1, <1>2, <1>3

LEMMA OnayliTamamNext ==
    ASSUME SiraliAkis, AdimIInv, NEW w \in Istek, Adimi(w), TypeOK'
    PROVE  OnayliTamam'
<1> USE DEF AdimIInv, TekKayitIInv
<1>1. CASE ~Commit(w)
    BY <1>1, SatirlarKalir DEF OnayliTamam, Kararli, SonrakiSiralar
<1>2. CASE Commit(w)
    <2> SUFFICES ASSUME talep'.durum = "onaylandi"
                 PROVE  /\ SonrakiSiralar' = {}
                        /\ \A i \in DOMAIN kayit' : kayit'[i].durum \in {"onaylandi", "reddedildi"}
        BY DEF OnayliTamam, Kararli
    <2>1. talep.durum = "onaylandi" \/ istek[w].durum = "onaylandi"
        BY <1>2 DEF Commit
    <2>2. SonrakiSiralar = {} /\ \A i \in DOMAIN kayit : i # istek[w].kayit => Kararli(i)
        BY <1>2, <2>1 DEF OnayliTamam, KararGecerli, Commit
    <2>3. istek[w].mevcut = Yok
        BY <1>2, <2>2 DEF PlanGecerli, Commit
    <2>4. SonrakiSiralar' = SonrakiSiralar /\ DOMAIN kayit' = DOMAIN kayit
        <3>1. kayit' \in Seq(KayitSatiri) /\ kayit \in Seq(KayitSatiri)
            BY DEF TypeOK
        <3> QED
            BY <1>2, <2>3, <3>1, CommitDurur
    <2> QED
        BY <1>2, <2>2, <2>4, KararKalir, KendiKarari
<1> QED
    BY <1>1, <1>2

\* Every record is behind the current step, and then decided, or the current step's.
LEMMA KayitYeri ==
    ASSUME AdimIInv, NEW i \in DOMAIN kayit
    PROVE  Kararli(i) \/ i \in MevcutKayitlar(kayit)
<1> USE DEF AdimIInv, TekKayitIInv
<1>1. AdimSira[kayit[i].adim] \in Nat /\ AdimSira[kayit[i].adim] <= talep.mevcut
    BY KayitTipi DEF MevcutKaydi
<1>2. talep.mevcut \in Nat
    BY SonrakiTipi
<1>3. CASE AdimSira[kayit[i].adim] < talep.mevcut
    BY <1>3 DEF OncekilerKararli
<1>4. CASE AdimSira[kayit[i].adim] = talep.mevcut
    BY <1>4 DEF MevcutKayitlar
<1> QED
    BY <1>1, <1>2, <1>3, <1>4

\* With an approver for every step, the current step has a record once any step has.
LEMMA MevcutVar ==
    ASSUME AdimIInv, NEW i \in DOMAIN kayit
    PROVE  MevcutKayitlar(kayit) # {}
<1> USE DEF AdimIInv, TekKayitIInv
<1>1. CASE talep.mevcut \in Range(AdimSira)
    <2>1. PICK a \in Adim : AdimSira[a] = talep.mevcut
        BY <1>1, EsZamanliAssumption DEF Range
    <2>2. PICK j \in DOMAIN kayit : kayit[j].adim = a
        BY <2>1, SonrakiTipi DEF OncekilerKararli
    <2> QED
        BY <2>1, <2>2 DEF MevcutKayitlar
<1>2. CASE talep.mevcut = 1
    <2>1. AdimSira[kayit[i].adim] \in Nat \ {0} /\ AdimSira[kayit[i].adim] <= 1
        BY <1>2, KayitTipi DEF MevcutKaydi
    <2>2. AdimSira[kayit[i].adim] = 1
        BY <2>1
    <2> QED
        BY <1>2, <2>2 DEF MevcutKayitlar
<1> QED
    BY <1>1, <1>2 DEF TypeOK, TalepSatiri

\* The decisions of a handler that has its plan.
LEMMA KararGecerliNext ==
    ASSUME SiraliAkis, AdimIInv, NEW w \in Istek, Adimi(w), TypeOK'
    PROVE  KararGecerli'
<1> USE DEF AdimIInv, TekKayitIInv
<1> SUFFICES ASSUME NEW v \in Istek, istek'[v].asama = "kalan"
             PROVE  /\ istek'[v].tur # "iptal" => istek'[v].atla = {}
                    /\ \A i \in istek'[v].atla :
                          i \in MevcutKayitlar(kayit)' /\ kayit'[i].durum = "bekliyor"
                    /\ istek'[v].durum = "onaylandi" =>
                          /\ istek'[v].tur = "onayla"
                          /\ SonrakiSiralar' = {}
                          /\ \A i \in DOMAIN kayit' \ {istek'[v].kayit} :
                                kayit'[i].durum \in {"onaylandi", "reddedildi"}
    BY DEF KararGecerli, Kararli
<1>1. ASSUME UNCHANGED <<talep, kayit>>
      PROVE  /\ MevcutKayitlar(kayit)' = MevcutKayitlar(kayit)
             /\ SonrakiSiralar' = SonrakiSiralar
    BY <1>1 DEF MevcutKayitlar, SonrakiSiralar
<1>2. CASE v # w /\ ~Commit(w)
    <2>1. istek'[v] = istek[v]
        BY <1>2, Digerleri
    <2> QED
        BY <1>1, <1>2, <2>1, SatirlarKalir DEF KararGecerli, Kararli
<1>3. CASE v # w /\ Commit(w)
    <2>1. istek'[v] = istek[v] /\ istek[v].asama = "kalan"
        BY <1>3, Digerleri
    <2>2. ASSUME NEW i \in istek[v].atla
          PROVE  i \in MevcutKayitlar(kayit)' /\ kayit'[i].durum = "bekliyor"
        <3>1. i \in MevcutKayitlar(kayit) /\ kayit[i].durum = "bekliyor" /\ i \in DOMAIN kayit
            BY <2>1 DEF KararGecerli, MevcutKayitlar
        <3>2. istek[w].mevcut = Yok /\ istek[w].atla = {} /\ istek[w].kayit # i
            BY <1>3, <2>1, <3>1, IptalTekBasina
        <3>3. MevcutKayitlar(kayit)' = MevcutKayitlar(kayit)
            BY <1>3, <3>2, CommitDurur
        <3> QED
            BY <1>3, <3>1, <3>2, <3>3, CommitYazar
    <2>3. ASSUME istek[v].durum = "onaylandi"
          PROVE  /\ istek[v].tur = "onayla"
                 /\ SonrakiSiralar' = {}
                 /\ \A i \in DOMAIN kayit' \ {istek[v].kayit} :
                       kayit'[i].durum \in {"onaylandi", "reddedildi"}
        <3>1. /\ istek[v].tur = "onayla" /\ SonrakiSiralar = {}
              /\ \A i \in DOMAIN kayit \ {istek[v].kayit} : Kararli(i)
            BY <2>1, <2>3 DEF KararGecerli
        <3>2. istek[w].mevcut = Yok
            BY <1>3, <3>1 DEF PlanGecerli, Commit
        <3>3. SonrakiSiralar' = SonrakiSiralar /\ DOMAIN kayit' = DOMAIN kayit
            <4>1. kayit' \in Seq(KayitSatiri) /\ kayit \in Seq(KayitSatiri)
                BY DEF TypeOK
            <4> QED
                BY <1>3, <3>2, <4>1, CommitDurur
        <3> QED
            BY <3>1, <3>3, KararKalir
    <2> QED
        BY <2>1, <2>2, <2>3 DEF KararGecerli
<1>4. CASE v = w
    <2>1. CASE (\E tur \in Turler, i \in DOMAIN kayit : KayitOku(w, tur, i)) \/ TalepOku(w)
        BY <1>4, <2>1 DEF KayitOku, TalepOku, Bos, TypeOK
    <2>2. CASE Commit(w) \/ GeriAl(w)
        BY <1>4, <2>2 DEF Commit, GeriAl, Bos, TypeOK
    <2>3. CASE SonrakiKilit(w)
        BY <1>1, <1>4, <2>3, SonrakiKilitSonuc DEF KararGecerli, Kararli
    <2>4. CASE IlkKilit(w)
        <3>1. PICK p \in Planlar(w) :
                  /\ istek[w].asama = "ilk"
                  /\ istek'[w].tur = istek[w].tur /\ istek'[w].kayit = istek[w].kayit
                  /\ istek'[w].atla = p.atla
                  /\ istek'[w].durum = (IF p.durum = talep.durum THEN Yok ELSE p.durum)
                  /\ UNCHANGED <<talep, kayit>>
            BY <2>4, IlkKilitSonuc
        <3>2. /\ istek[w].tur # "iptal" => p.atla = {}
              /\ istek[w].tur = "iptal" => p.atla = {i \in DOMAIN kayit : kayit[i].durum = "bekliyor"}
              /\ p.durum = "onaylandi" =>
                   /\ istek[w].tur = "onayla"
                   /\ \/ MevcutKayitlar(kayit) = {}
                      \/ /\ SonrakiSiralar = {}
                         /\ \A j \in MevcutKayitlar(kayit) \ {istek[w].kayit} : kayit[j].durum = "onaylandi"
            BY <3>1, PlanSonuc
        <3>3. ASSUME NEW i \in p.atla
              PROVE  i \in MevcutKayitlar(kayit) /\ kayit[i].durum = "bekliyor"
            <4>1. i \in DOMAIN kayit /\ kayit[i].durum = "bekliyor"
                BY <3>2
            <4> QED
                BY <4>1, KayitYeri DEF Kararli
        <3>4. ASSUME istek'[w].durum = "onaylandi"
              PROVE  /\ istek[w].tur = "onayla"
                     /\ SonrakiSiralar = {}
                     /\ \A i \in DOMAIN kayit \ {istek[w].kayit} :
                           kayit[i].durum \in {"onaylandi", "reddedildi"}
            <4>1. p.durum = "onaylandi"
                BY <3>1, <3>4, EsZamanliAssumption DEF TalepDurumu
            <4>2. istek[w].tur = "onayla" /\ istek[w].kayit \in DOMAIN kayit
                BY <3>1, <3>2, <4>1 DEF IstekKaydi
            <4>3. /\ SonrakiSiralar = {}
                  /\ \A j \in MevcutKayitlar(kayit) \ {istek[w].kayit} : kayit[j].durum = "onaylandi"
                BY <3>2, <4>1, <4>2, MevcutVar
            <4> QED
                BY <4>2, <4>3, KayitYeri DEF Kararli
        <3> QED
            BY <1>1, <1>4, <3>1, <3>2, <3>3, <3>4
    <2> QED
        BY <2>1, <2>2, <2>3, <2>4 DEF Adimi, Ilerle
<1> QED
    BY <1>2, <1>3, <1>4

LEMMA AdimInit ==
    ASSUME Onayli = Adim, Init
    PROVE  AdimIInv
<1>1. TekKayitIInv
    BY TekKayitInit
<1>2. \A a \in Adim : AdimSira[a] \in Nat \ {0}
    BY EsZamanliAssumption
<1>3. OncekilerKararli
    <2>1. ASSUME NEW a \in Adim, AdimSira[a] <= talep.mevcut
          PROVE  \E i \in DOMAIN kayit : kayit[i].adim = a
        <3>1. AdimSira[a] = 1
            BY <1>2, <2>1, InitKayitlari
        <3>2. a \in AcilanAdimlar(1)
            BY <3>1 DEF AcilanAdimlar
        <3> QED
            BY <3>2, InitKayitlari
    <2>2. \A i \in DOMAIN kayit : AdimSira[kayit[i].adim] = 1
        BY InitKayitlari DEF AcilanAdimlar
    <2>3. \A i \in DOMAIN kayit : ~(AdimSira[kayit[i].adim] < talep.mevcut)
        BY <2>2, InitKayitlari
    <2> QED
        BY <2>1, <2>3 DEF OncekilerKararli
<1>4. OnayliTamam /\ KararGecerli
    BY InitKayitlari DEF OnayliTamam, KararGecerli
<1> QED
    BY <1>1, <1>3, <1>4 DEF AdimIInv

LEMMA AdimNext ==
    ASSUME SiraliAkis, Onayli = Adim, AdimIInv, [Next]_vars
    PROVE  AdimIInv'
<1>1. TekKayitIInv' /\ TypeOK'
    BY TekKayitIInvNext DEF AdimIInv, TekKayitIInv
<1>2. CASE UNCHANGED vars
    BY <1>1, <1>2 DEF vars, AdimIInv, OncekilerKararli, OnayliTamam, KararGecerli, Kararli,
                      MevcutKayitlar, SonrakiSiralar
<1>3. CASE Next
    <2>1. PICK w \in Istek : Adimi(w)
        BY <1>3 DEF Next, Adimi
    <2> QED
        BY <1>1, <2>1, OncekilerNext, OnayliTamamNext, KararGecerliNext DEF AdimIInv
<1> QED
    BY <1>2, <1>3

\* At the last step, with every step behind it decided, nothing is missing.
LEMMA AdimSonuc == AdimIInv => AdimAtlanmaz
<1> SUFFICES ASSUME AdimIInv, talep.durum = "onaylandi", NEW a \in Adim
             PROVE  \E i \in DOMAIN kayit :
                        kayit[i].adim = a /\ kayit[i].durum \in {"onaylandi", "reddedildi"}
    BY DEF AdimAtlanmaz
<1>1. AdimSira[a] \in Nat /\ AdimSira[a] \in Range(AdimSira) /\ talep.mevcut \in Nat
    BY EsZamanliAssumption, SonrakiTipi DEF Range, AdimIInv, TekKayitIInv
<1>2. SonrakiSiralar = {} /\ \A i \in DOMAIN kayit : Kararli(i)
    BY DEF AdimIInv, OnayliTamam
<1>3. AdimSira[a] <= talep.mevcut
    BY <1>1, <1>2 DEF SonrakiSiralar
<1> QED
    BY <1>2, <1>3 DEF AdimIInv, OncekilerKararli, Kararli

\* An approved request was decided at every step, however its approvals, rejections and
\* withdrawals interleave: with one step per sira and an approver for every step.
THEOREM HicbirAdimAtlanmaz ==
    ASSUME SiraliAkis, Onayli = Adim
    PROVE  Spec => []AdimAtlanmaz
<1>1. Init => AdimIInv
    BY AdimInit
<1>2. AdimIInv /\ [Next]_vars => AdimIInv'
    BY AdimNext
<1>3. AdimIInv => AdimAtlanmaz
    BY AdimSonuc
<1> QED
    BY <1>1, <1>2, <1>3, PTL DEF Spec
=============================================================================
