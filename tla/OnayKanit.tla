----------------------------- MODULE OnayKanit ------------------------------
(***************************************************************************)
(* Proofs about Onay.  With one administrator (TekAdmin), IInv is an       *)
(* inductive invariant; from it follow TekSira, BekleyenKayitGuncel,       *)
(* HerAdimdanGecti, the action property OnayTam, and that Onay implements  *)
(* OnaySozlesme.  With any number of them, ParalelIInv is one, from which  *)
(* follow OnaysizOnayYok and the action property OnayVeIptalKesin.         *)
(***************************************************************************)
EXTENDS Onay, WellFoundedInduction, TLAPS

-----------------------------------------------------------------------------
(* Lemmas about the operators.                                             *)

\* Opening an approver's record gives a pending row.
LEMMA KayitAcTipi ==
    ASSUME TypeOK, NEW u \in Kullanici, NEW r \in KayitAc(u)
    PROVE  r \in KayitSatiri /\ r.durum = "bekliyor"
<1>1. \A d \in Devir : Gecerli(d) => devir[d].alan \in Kullanici
    BY DEF Gecerli, TypeOK, DevirSatiri
<1>2. Vekilleri(u) \subseteq Kullanici
    BY <1>1 DEF Vekilleri
<1> QED
    BY <1>2 DEF KayitAc, KayitSatiri, KayitDurumu

\* A step's record is a row, pending or absent.
LEMMA AcilanTipi ==
    ASSUME TypeOK, NEW a \in Adim, adim[a] # Yok, NEW r \in Acilan(a)
    PROVE  r \in KayitSatiri /\ r.durum \in {"yok", "bekliyor"}
<1>1. adim[a] \in AdimSatiri
    BY DEF TypeOK
<1>2. Bulunan(a) \subseteq Kullanici
    BY <1>1, OnayAssumption DEF Bulunan, AdimSatiri
<1>3. CASE Bulunan(a) = {}
    BY <1>3 DEF Acilan, KayitYok, KayitSatiri, KayitDurumu
<1>4. CASE Bulunan(a) # {}
    <2>1. PICK u \in Bulunan(a) : r \in KayitAc(u)
        BY <1>4 DEF Acilan
    <2> QED
        BY <1>2, <2>1, KayitAcTipi
<1> QED
    BY <1>3, <1>4

\* _adim_kayitlari_olustur writes rows for the steps of the given sira only, and
\* none of them is decided.
LEMMA OlusturSonuc ==
    ASSUME TypeOK, NEW f, NEW s, NEW k \in [Adim -> KayitSatiri],
           NEW y \in AdimKayitlariOlustur(f, s, k)
    PROVE  /\ y \in [Adim -> KayitSatiri]
           /\ \A a \in Adim : a \notin SiradakiAdimlar(f, s) => y[a] = k[a]
           /\ \A a \in SiradakiAdimlar(f, s) : y[a].durum \in {"yok", "bekliyor"}
<1> DEFINE ekle == SiradakiAdimlar(f, s)
           yeni == {h \in [ekle -> UNION {Acilan(a) : a \in ekle}] :
                       \A a \in ekle : h[a] \in Acilan(a)}
<1>1. ~\E a \in ekle : Patlar(a)
    BY DEF AdimKayitlariOlustur
<1>2. y \in {[a \in Adim |-> IF a \in ekle THEN g[a] ELSE k[a]] : g \in yeni}
    BY <1>1 DEF AdimKayitlariOlustur
<1>3. PICK g \in yeni : y = [a \in Adim |-> IF a \in ekle THEN g[a] ELSE k[a]]
    BY <1>2
<1>4. \A a \in ekle : a \in Adim /\ adim[a] # Yok
    BY DEF SiradakiAdimlar, Adimlari
<1>5. \A a \in ekle : g[a] \in KayitSatiri /\ g[a].durum \in {"yok", "bekliyor"}
    BY <1>4, AcilanTipi
<1> HIDE DEF ekle, yeni
<1>6. y \in [Adim -> KayitSatiri]
    BY <1>3, <1>5
<1>7. \A a \in Adim : a \notin ekle => y[a] = k[a]
    BY <1>3
<1>8. \A a \in ekle : y[a].durum \in {"yok", "bekliyor"}
    BY <1>3, <1>4, <1>5
<1> QED
    BY <1>6, <1>7, <1>8 DEF ekle

\* _sonraki_adima_gec moves to the next step and opens its records, or approves.
LEMMA GecSonuc ==
    ASSUME NEW r, NEW k, NEW s \in SonrakiAdimaGec(r, k)
    PROVE  \/ \E n \in 1..MaxSira :
                 /\ SonrakiSira(r.akis, r.mevcut, n)
                 /\ s[1] = [r EXCEPT !.mevcut = n]
                 /\ s[2] \in AdimKayitlariOlustur(r.akis, n, k)
           \/ /\ ~\E n \in 1..MaxSira : SonrakiSira(r.akis, r.mevcut, n)
              /\ s[1] = [r EXCEPT !.durum = "onaylandi"]
              /\ s[2] = k
<1>1. CASE \E n \in 1..MaxSira : SonrakiSira(r.akis, r.mevcut, n)
    <2>1. s \in UNION {{<<[r EXCEPT !.mevcut = n], y>> : y \in AdimKayitlariOlustur(r.akis, n, k)} :
                         n \in {m \in 1..MaxSira : SonrakiSira(r.akis, r.mevcut, m)}}
        BY <1>1 DEF SonrakiAdimaGec
    <2>2. PICK n \in {m \in 1..MaxSira : SonrakiSira(r.akis, r.mevcut, m)} :
            s \in {<<[r EXCEPT !.mevcut = n], y>> : y \in AdimKayitlariOlustur(r.akis, n, k)}
        BY <2>1
    <2>3. PICK y \in AdimKayitlariOlustur(r.akis, n, k) : s = <<[r EXCEPT !.mevcut = n], y>>
        BY <2>2
    <2> QED
        BY <2>2, <2>3
<1>2. CASE ~\E n \in 1..MaxSira : SonrakiSira(r.akis, r.mevcut, n)
    <2>1. s = <<[r EXCEPT !.durum = "onaylandi"], k>>
        BY <1>2 DEF SonrakiAdimaGec
    <2> QED
        BY <1>2, <2>1
<1> QED
    BY <1>1, <1>2

\* Writing a record's durum keeps the rest of the row.
LEMMA DurumYaz ==
    ASSUME NEW r \in KayitSatiri, NEW d \in KayitDurumu
    PROVE  [r EXCEPT !.durum = d] \in KayitSatiri /\ [r EXCEPT !.durum = d].durum = d
BY DEF KayitSatiri

\* Skipping pending records changes them only, and to "atlandi".
LEMMA AtlaSonuc ==
    ASSUME NEW k \in [Adim -> KayitSatiri], NEW g
    PROVE  /\ BekleyenleriAtla(k, g) \in [Adim -> KayitSatiri]
           /\ \A a \in Adim :
                IF a \in g /\ k[a].durum = "bekliyor"
                THEN BekleyenleriAtla(k, g)[a].durum = "atlandi"
                ELSE BekleyenleriAtla(k, g)[a] = k[a]
<1>1. "atlandi" \in KayitDurumu
    BY DEF KayitDurumu
<1>2. \A a \in Adim : /\ [k[a] EXCEPT !.durum = "atlandi"] \in KayitSatiri
                      /\ [k[a] EXCEPT !.durum = "atlandi"].durum = "atlandi"
    BY <1>1, DurumYaz
<1> QED
    BY <1>2 DEF BekleyenleriAtla

\* What a decision leaves behind is again a request row with its records: the
\* records of other steps keep what they have or are skipped.
LEMMA KontrolTipi ==
    ASSUME TypeOK, NEW r \in TalepSatiri, NEW k \in [Adim -> KayitSatiri],
           NEW s \in SonrakiAdimKontrol(r, k)
    PROVE  s[1] \in TalepSatiri /\ s[2] \in [Adim -> KayitSatiri]
<1>1. \A h \in [Adim -> KayitSatiri] : \A g :
         BekleyenleriAtla(h, g) \in [Adim -> KayitSatiri]
    BY AtlaSonuc
<1>2. ASSUME NEW h \in [Adim -> KayitSatiri], NEW v \in SonrakiAdimaGec(r, h)
      PROVE  v[1] \in TalepSatiri /\ v[2] \in [Adim -> KayitSatiri]
    <2>1. CASE \E n \in 1..MaxSira :
                 /\ v[1] = [r EXCEPT !.mevcut = n]
                 /\ v[2] \in AdimKayitlariOlustur(r.akis, n, h)
        BY <2>1, OlusturSonuc DEF TalepSatiri
    <2>2. CASE v[1] = [r EXCEPT !.durum = "onaylandi"] /\ v[2] = h
        BY <2>2 DEF TalepSatiri, TalepDurumu
    <2> QED
        BY <2>1, <2>2, GecSonuc
<1>3. CASE MevcutKayitlar(r, k) = {}
    <2>1. s = <<[r EXCEPT !.durum = "onaylandi"], k>>
        BY <1>3 DEF SonrakiAdimKontrol
    <2> QED
        BY <2>1 DEF TalepSatiri, TalepDurumu
<1>4. CASE MevcutKayitlar(r, k) # {}
    <2>1. PICK ilk \in MevcutKayitlar(r, k) : s \in AdimKontrol(r, k, ilk)
        BY <1>4 DEF SonrakiAdimKontrol
    <2>2. \/ s \in SonrakiAdimaGec(r, k)
          \/ s \in SonrakiAdimaGec(r, BekleyenleriAtla(k, MevcutKayitlar(r, k)))
          \/ s = <<r, k>>
        BY <2>1 DEF AdimKontrol
    <2> QED
        BY <1>1, <1>2, <2>2
<1> QED
    BY <1>3, <1>4

-----------------------------------------------------------------------------
(* Type correctness, which needs no bound on the administrators.           *)

LEMMA TypeInit == Init => TypeOK
<1> SUFFICES ASSUME Init PROVE TypeOK
    OBVIOUS
<1>1. TalepYok \in [durum : TalepDurumu, mevcut : {1}, akis : {Yok}, eden : {Yok}]
    BY DEF TalepYok, TalepDurumu
<1> QED
    BY <1>1, OnayAssumption DEF Init, TypeOK, TalepSatiri, KayitYok, KayitSatiri, KayitDurumu

LEMMA TypeNext == TypeOK /\ [Next]_vars => TypeOK'
<1> SUFFICES ASSUME TypeOK, [Next]_vars PROVE TypeOK'
    OBVIOUS
<1> USE DEF TypeOK
<1>1. ASSUME NEW t \in Talep, NEW u \in Kullanici, TalepOlustur(t, u)
      PROVE  TypeOK'
    <2>0. PICK f \in Akis : \E k \in AdimKayitlariOlustur(f, 1, kayit[t]) :
            /\ kayit' = [kayit EXCEPT ![t] = k]
            /\ talep' = [talep EXCEPT ![t] =
                 [durum |-> "bekliyor", mevcut |-> 1, akis |-> f, eden |-> u]]
        BY <1>1 DEF TalepOlustur
    <2>1. PICK k \in AdimKayitlariOlustur(f, 1, kayit[t]) :
            /\ kayit' = [kayit EXCEPT ![t] = k]
            /\ talep' = [talep EXCEPT ![t] =
                 [durum |-> "bekliyor", mevcut |-> 1, akis |-> f, eden |-> u]]
        BY <2>0
    <2>2. k \in [Adim -> KayitSatiri]
        BY OlusturSonuc
    <2> QED
        BY <1>1, <2>1, <2>2, OnayAssumption DEF TalepOlustur, TalepSatiri, TalepDurumu
<1>2. ASSUME NEW t \in Talep, NEW a \in Adim, NEW u \in Kullanici, Onayla(t, a, u)
      PROVE  TypeOK'
    <2> DEFINE k == [kayit[t] EXCEPT ![a].durum = "onaylandi"]
    <2>1. k \in [Adim -> KayitSatiri]
        <3>1. k = [kayit[t] EXCEPT ![a] = [kayit[t][a] EXCEPT !.durum = "onaylandi"]]
            OBVIOUS
        <3>2. [kayit[t][a] EXCEPT !.durum = "onaylandi"] \in KayitSatiri
            <4>1. kayit[t][a] \in KayitSatiri /\ "onaylandi" \in KayitDurumu
                BY DEF KayitDurumu
            <4> QED
                BY <4>1, DurumYaz
        <3> QED
            BY <3>1, <3>2
    <2>2. PICK s \in SonrakiAdimKontrol(talep[t], k) :
            /\ talep' = [talep EXCEPT ![t] = s[1]]
            /\ kayit' = [kayit EXCEPT ![t] = s[2]]
        BY <1>2 DEF Onayla
    <2>3. s[1] \in TalepSatiri /\ s[2] \in [Adim -> KayitSatiri]
        BY <2>1, KontrolTipi
    <2> QED
        BY <1>2, <2>2, <2>3 DEF Onayla
<1>3. ASSUME NEW t \in Talep, NEW a \in Adim, NEW u \in Kullanici, Reddet(t, a, u)
      PROVE  TypeOK'
    <2>1. [kayit[t][a] EXCEPT !.durum = "reddedildi"] \in KayitSatiri
        <3>1. kayit[t][a] \in KayitSatiri /\ "reddedildi" \in KayitDurumu
            BY DEF KayitDurumu
        <3> QED
            BY <3>1, DurumYaz
    <2>2. kayit' \in [Talep -> [Adim -> KayitSatiri]]
        BY <1>3, <2>1 DEF Reddet
    <2>3. talep' \in [Talep -> TalepSatiri]
        BY <1>3 DEF Reddet, TalepSatiri, TalepDurumu
    <2> QED
        BY <1>3, <2>2, <2>3 DEF Reddet
<1>4. ASSUME NEW t \in Talep, NEW u \in Kullanici, TalepIptal(t, u)
      PROVE  TypeOK'
    <2>1. BekleyenleriAtla(kayit[t], Adim) \in [Adim -> KayitSatiri]
        BY AtlaSonuc
    <2> QED
        BY <1>4, <2>1 DEF TalepIptal, TalepSatiri, TalepDurumu
<1>5. ASSUME NEW d \in Devir, NEW u \in Kullanici, NEW v \in Kullanici,
             NEW bas \in 0..MaxGun, NEW bit \in 0..MaxGun, YetkiDevriEkle(d, u, v, bas, bit)
      PROVE  TypeOK'
    BY <1>5 DEF YetkiDevriEkle, DevirSatiri
<1>6. ASSUME NEW d \in Devir, NEW u \in Kullanici, YetkiDevriIptal(d, u)
      PROVE  TypeOK'
    BY <1>6 DEF YetkiDevriIptal, DevirSatiri
<1>7. ASSUME NEW f \in Akis, NEW o \in Oncelikler, AdminAkisEkle(f, o)
      PROVE  TypeOK'
    BY <1>7 DEF AdminAkisEkle
<1>8. ASSUME NEW p \in Admin, NEW f \in Akis, AdimEkleOku(p, f)
      PROVE  TypeOK'
    <2>1. PICK m \in 0..(MaxSira - 1) : ekleme' = [ekleme EXCEPT ![p] = [akis |-> f, sira |-> m + 1]]
        BY <1>8 DEF AdimEkleOku
    <2>2. m + 1 \in 1..MaxSira
        BY OnayAssumption
    <2> QED
        BY <1>8, <2>1, <2>2 DEF AdimEkleOku
<1>9. ASSUME NEW p \in Admin, NEW a \in Adim, NEW d \in AdimTanimlari, AdimEkleYaz(p, a, d)
      PROVE  TypeOK'
    <2>1. d \in AdimTanimi
        BY OnayAssumption
    <2> QED
        BY <1>9, <2>1 DEF AdimEkleYaz, AdimSatiri, AdimTanimi
<1>10. ASSUME NEW a \in Adim, AdminAdimSil(a)
       PROVE  TypeOK'
    BY <1>10 DEF AdminAdimSil
<1>11. CASE GunGec
    BY <1>11, OnayAssumption DEF GunGec
<1>12. CASE UNCHANGED vars
    BY <1>12 DEF vars
<1> QED
    BY <1>1, <1>2, <1>3, <1>4, <1>5, <1>6, <1>7, <1>8, <1>9, <1>10, <1>11, <1>12 DEF Next

\* Every table keeps the shape of its rows, whoever edits the flows.
THEOREM TypeCorrect == Spec => []TypeOK
<1>1. Init => TypeOK
    BY TypeInit
<1>2. TypeOK /\ [Next]_vars => TypeOK'
    BY TypeNext
<1> QED
    BY <1>1, <1>2, PTL DEF Spec
-----------------------------------------------------------------------------
(* What onayla does to a request when the flow has one step per sira.      *)

\* The pending record is the only one of its step, so approving it lets the
\* request go on, whatever the step's mode.
LEMMA OnaylaGecer ==
    ASSUME IInv, NEW t \in Talep, NEW a \in Adim, kayit[t][a].durum = "bekliyor",
           NEW k, k = [kayit[t] EXCEPT ![a].durum = "onaylandi"],
           NEW s \in SonrakiAdimKontrol(talep[t], k)
    PROVE  s \in SonrakiAdimaGec(talep[t], k)
<1>1. /\ k \in [Adim -> KayitSatiri]
      /\ k[a].durum = "onaylandi"
      /\ \A b \in Adim : b # a => k[b] = kayit[t][b]
    <2>1. kayit[t] \in [Adim -> KayitSatiri] /\ kayit[t][a] \in KayitSatiri
        BY DEF IInv, TypeOK
    <2>2. "onaylandi" \in KayitDurumu
        BY DEF KayitDurumu
    <2>3. k = [kayit[t] EXCEPT ![a] = [kayit[t][a] EXCEPT !.durum = "onaylandi"]]
        OBVIOUS
    <2> QED
        BY <2>1, <2>2, <2>3, DurumYaz
<1>2. /\ adim[a] # Yok
      /\ adim[a].sira = talep[t].mevcut
      /\ adim[a].akis = talep[t].akis
    BY DEF IInv, BekleyenKayitGuncel, KayitAdimi
<1>3. \A b \in Adim : kayit[t][b].durum # "yok" =>
            adim[b] # Yok /\ adim[b].akis = talep[t].akis
    BY DEF IInv, KayitAdimi
<1>4. \A b \in Adim : kayit[t][b].durum # "yok" /\ adim[b].sira = talep[t].mevcut => b = a
    BY <1>2, <1>3 DEF IInv, TekSira
<1>5. MevcutKayitlar(talep[t], k) = {a}
    BY <1>1, <1>2, <1>4 DEF MevcutKayitlar
<1>6. {b \in {a} : k[b].durum = "onaylandi"} = {a}
    BY <1>1
<1>7. BekleyenleriAtla(k, {a}) = k
    <2>1. \A b \in Adim : BekleyenleriAtla(k, {a})[b] = k[b]
        BY <1>1, AtlaSonuc
    <2> QED
        BY <1>1, <2>1, AtlaSonuc
<1>8. s \in AdimKontrol(talep[t], k, a)
    BY <1>5 DEF SonrakiAdimKontrol
<1> QED
    BY <1>5, <1>6, <1>7, <1>8 DEF AdimKontrol

\* onayla writes the record, and either moves the request to the next step, whose
\* records are new, or approves it because there is no next step.
LEMMA OnaylaEtki ==
    ASSUME IInv, NEW t \in Talep, NEW a \in Adim, NEW u \in Kullanici, Onayla(t, a, u)
    PROVE  \E y \in [Adim -> KayitSatiri] :
             /\ kayit' = [kayit EXCEPT ![t] = y]
             /\ y[a].durum = "onaylandi"
             /\ \/ \E n \in 1..MaxSira :
                     /\ SonrakiSira(talep[t].akis, talep[t].mevcut, n)
                     /\ talep' = [talep EXCEPT ![t] = [talep[t] EXCEPT !.mevcut = n]]
                     /\ \A b \in SiradakiAdimlar(talep[t].akis, n) :
                           y[b].durum \in {"yok", "bekliyor"} /\ kayit[t][b].durum = "yok"
                     /\ \A b \in Adim :
                           b # a /\ b \notin SiradakiAdimlar(talep[t].akis, n) => y[b] = kayit[t][b]
                \/ /\ ~\E n \in 1..MaxSira : SonrakiSira(talep[t].akis, talep[t].mevcut, n)
                   /\ talep' = [talep EXCEPT ![t] = [talep[t] EXCEPT !.durum = "onaylandi"]]
                   /\ \A b \in Adim : b # a => y[b] = kayit[t][b]
<1> DEFINE k == [kayit[t] EXCEPT ![a].durum = "onaylandi"]
<1>1. kayit[t][a].durum = "bekliyor"
    BY DEF Onayla, Islenebilir
<1>2. PICK s \in SonrakiAdimKontrol(talep[t], k) :
            /\ talep' = [talep EXCEPT ![t] = s[1]]
            /\ kayit' = [kayit EXCEPT ![t] = s[2]]
    BY DEF Onayla
<1>3. s \in SonrakiAdimaGec(talep[t], k)
    BY <1>1, OnaylaGecer
<1>4. TypeOK /\ kayit[t] \in [Adim -> KayitSatiri] /\ kayit[t][a] \in KayitSatiri
    BY DEF IInv, TypeOK
<1>5. /\ k \in [Adim -> KayitSatiri]
      /\ k[a].durum = "onaylandi"
      /\ \A b \in Adim : b # a => k[b] = kayit[t][b]
    <2>1. "onaylandi" \in KayitDurumu
        BY DEF KayitDurumu
    <2>2. k = [kayit[t] EXCEPT ![a] = [kayit[t][a] EXCEPT !.durum = "onaylandi"]]
        OBVIOUS
    <2> QED
        BY <1>4, <2>1, <2>2, DurumYaz
<1> HIDE DEF k
<1>6. CASE \E n \in 1..MaxSira :
             /\ SonrakiSira(talep[t].akis, talep[t].mevcut, n)
             /\ s[1] = [talep[t] EXCEPT !.mevcut = n]
             /\ s[2] \in AdimKayitlariOlustur(talep[t].akis, n, k)
    <2>1. PICK n \in 1..MaxSira :
             /\ SonrakiSira(talep[t].akis, talep[t].mevcut, n)
             /\ s[1] = [talep[t] EXCEPT !.mevcut = n]
             /\ s[2] \in AdimKayitlariOlustur(talep[t].akis, n, k)
        BY <1>6
    <2>2. /\ s[2] \in [Adim -> KayitSatiri]
          /\ \A b \in Adim : b \notin SiradakiAdimlar(talep[t].akis, n) => s[2][b] = k[b]
          /\ \A b \in SiradakiAdimlar(talep[t].akis, n) : s[2][b].durum \in {"yok", "bekliyor"}
        BY <1>4, <1>5, <2>1, OlusturSonuc
    <2>3. \A b \in SiradakiAdimlar(talep[t].akis, n) :
             b \in Adim /\ adim[b].sira = n /\ n > talep[t].mevcut /\ talep[t].mevcut \in Int
        BY <2>1 DEF SiradakiAdimlar, Adimlari, SonrakiSira, IInv, TypeOK, TalepSatiri
    <2>4. \A b \in SiradakiAdimlar(talep[t].akis, n) : kayit[t][b].durum = "yok"
        BY <2>3 DEF IInv, KayitAdimi
    <2>5. a \notin SiradakiAdimlar(talep[t].akis, n)
        BY <1>1, <2>4
    <2>6. s[2][a].durum = "onaylandi"
        BY <1>5, <2>2, <2>5
    <2>7. \A b \in Adim :
             b # a /\ b \notin SiradakiAdimlar(talep[t].akis, n) => s[2][b] = kayit[t][b]
        BY <1>5, <2>2
    <2>8. talep' = [talep EXCEPT ![t] = [talep[t] EXCEPT !.mevcut = n]]
        BY <1>2, <2>1
    <2> SUFFICES \E m \in 1..MaxSira :
             /\ SonrakiSira(talep[t].akis, talep[t].mevcut, m)
             /\ talep' = [talep EXCEPT ![t] = [talep[t] EXCEPT !.mevcut = m]]
             /\ \A b \in SiradakiAdimlar(talep[t].akis, m) :
                   s[2][b].durum \in {"yok", "bekliyor"} /\ kayit[t][b].durum = "yok"
             /\ \A b \in Adim :
                   b # a /\ b \notin SiradakiAdimlar(talep[t].akis, m) => s[2][b] = kayit[t][b]
        BY <1>2, <2>2, <2>6, Zenon
    <2> WITNESS n \in 1..MaxSira
    <2> QED
        BY <2>1, <2>2, <2>4, <2>7, <2>8
<1>7. CASE /\ ~\E n \in 1..MaxSira : SonrakiSira(talep[t].akis, talep[t].mevcut, n)
           /\ s[1] = [talep[t] EXCEPT !.durum = "onaylandi"]
           /\ s[2] = k
    <2>1. talep' = [talep EXCEPT ![t] = [talep[t] EXCEPT !.durum = "onaylandi"]]
        BY <1>2, <1>7
    <2>2. kayit' = [kayit EXCEPT ![t] = k]
        BY <1>2, <1>7
    <2> QED
        BY <1>5, <1>7, <2>1, <2>2, Zenon
<1>8. \/ \E n \in 1..MaxSira :
            /\ SonrakiSira(talep[t].akis, talep[t].mevcut, n)
            /\ s[1] = [talep[t] EXCEPT !.mevcut = n]
            /\ s[2] \in AdimKayitlariOlustur(talep[t].akis, n, k)
      \/ /\ ~\E n \in 1..MaxSira : SonrakiSira(talep[t].akis, talep[t].mevcut, n)
         /\ s[1] = [talep[t] EXCEPT !.durum = "onaylandi"]
         /\ s[2] = k
    BY <1>3, GecSonuc
<1> QED
    BY <1>6, <1>7, <1>8, Zenon

-----------------------------------------------------------------------------
(* The inductive invariant.                                                *)

\* What IInv says of one request: its row r and its records k.
TalepIyi(r, k) ==
    /\ r.durum = "yok" => r.mevcut = 1
    /\ r.durum = "onaylandi" =>
         \E a \in Adim : k[a].durum = "onaylandi" /\ adim[a] # Yok /\ adim[a].sira = r.mevcut
    /\ \A a \in Adim : k[a].durum # "yok" =>
         /\ r.durum # "yok"
         /\ adim[a] # Yok
         /\ adim[a].akis = r.akis
         /\ adim[a].sira <= r.mevcut
         /\ \A b \in Adimlari(r.akis) : adim[b].sira < adim[a].sira => k[b].durum = "onaylandi"
    /\ \A a \in Adim : k[a].durum = "bekliyor" =>
         r.durum = "bekliyor" /\ adim[a].sira = r.mevcut

\* IInv is a statement about the flows and, request by request, about the requests.
LEMMA IInvTaleplerle ==
    IInv <=> TypeOK /\ TekSira /\ EklemeSonra /\ \A t \in Talep : TalepIyi(talep[t], kayit[t])
<1>1. ASSUME KayitAdimi, BekleyenKayitGuncel, OncekilerOnayli, OnaysizOnayYok, NEW t \in Talep
      PROVE  TalepIyi(talep[t], kayit[t])
    BY <1>1 DEF KayitAdimi, BekleyenKayitGuncel, OncekilerOnayli, OnaysizOnayYok, TalepIyi, Adimlari
<1>2. ASSUME \A t \in Talep : TalepIyi(talep[t], kayit[t])
      PROVE  KayitAdimi /\ BekleyenKayitGuncel
    BY <1>2 DEF KayitAdimi, BekleyenKayitGuncel, TalepIyi
<1>3. ASSUME \A t \in Talep : TalepIyi(talep[t], kayit[t])
      PROVE  OncekilerOnayli /\ OnaysizOnayYok
    BY <1>3 DEF OncekilerOnayli, OnaysizOnayYok, TalepIyi
<1> QED
    BY <1>1, <1>2, <1>3 DEF IInv

\* Nothing is open and there is no step at the start.
LEMMA IInvInit == Init => IInv
<1> SUFFICES ASSUME Init PROVE IInv
    OBVIOUS
<1>1. TypeOK
    BY TypeInit
<1>2. TekSira /\ EklemeSonra
    BY DEF Init, TekSira, EklemeSonra
<1>3. \A t \in Talep : TalepIyi(talep[t], kayit[t])
    BY DEF Init, TalepIyi, TalepYok, KayitYok
<1> QED
    BY <1>1, <1>2, <1>3, IInvTaleplerle

\* A handler that decides about one request has to establish TalepIyi for that one.
LEMMA IInvTaleplerleSonra ==
    IInv' <=> (TypeOK /\ TekSira /\ EklemeSonra /\ \A t \in Talep : TalepIyi(talep[t], kayit[t]))'
BY IInvTaleplerle, PTL

LEMMA TekTalepDegisir ==
    ASSUME IInv, TypeOK', NEW t \in Talep, UNCHANGED <<adim, ekleme>>,
           \A s \in Talep \ {t} : talep'[s] = talep[s] /\ kayit'[s] = kayit[s],
           TalepIyi(talep'[t], kayit'[t])
    PROVE  IInv'
<1>1. TekSira /\ EklemeSonra /\ \A s \in Talep : TalepIyi(talep[s], kayit[s])
    BY IInvTaleplerle
<1>2. (TekSira /\ EklemeSonra)'
    BY <1>1 DEF TekSira, EklemeSonra, Adimlari
<1>3. \A r, k : TalepIyi(r, k) <=> TalepIyi(r, k)'
    BY DEF TalepIyi, Adimlari
<1>4. (\A s \in Talep : TalepIyi(talep[s], kayit[s]))'
    BY <1>1, <1>3
<1> QED
    BY <1>2, <1>4, IInvTaleplerleSonra

-----------------------------------------------------------------------------
(* One lemma per handler that decides about a request.                     *)

\* What IInv gives about a request: at most one record is pending, it is that of the
\* current step, and rows are what their tables allow.
LEMMA TekBekleyen ==
    ASSUME IInv, NEW t \in Talep, NEW a \in Adim, kayit[t][a].durum = "bekliyor",
           NEW b \in Adim, kayit[t][b].durum # "yok", adim[b].sira = talep[t].mevcut
    PROVE  b = a
BY DEF IInv, KayitAdimi, BekleyenKayitGuncel, TekSira

\* talep_olustur opens the records of step 1 of a request that had none.
LEMMA TalepOlusturIInv ==
    ASSUME IInv, TypeOK', NEW t \in Talep, NEW u \in Kullanici, TalepOlustur(t, u)
    PROVE  IInv'
<1>0. PICK f \in Akis : \E k \in AdimKayitlariOlustur(f, 1, kayit[t]) :
        /\ kayit' = [kayit EXCEPT ![t] = k]
        /\ talep' = [talep EXCEPT ![t] =
             [durum |-> "bekliyor", mevcut |-> 1, akis |-> f, eden |-> u]]
    BY DEF TalepOlustur
<1>1. PICK k \in AdimKayitlariOlustur(f, 1, kayit[t]) :
        /\ kayit' = [kayit EXCEPT ![t] = k]
        /\ talep' = [talep EXCEPT ![t] =
             [durum |-> "bekliyor", mevcut |-> 1, akis |-> f, eden |-> u]]
    BY <1>0
<1>2. TypeOK /\ talep[t].durum = "yok" /\ UNCHANGED <<adim, ekleme>>
    BY DEF TalepOlustur, IInv
<1>3. \A a \in Adim : kayit[t][a].durum = "yok"
    BY <1>2 DEF IInv, KayitAdimi
<1>4. /\ \A a \in Adim : a \notin SiradakiAdimlar(f, 1) => k[a].durum = "yok"
      /\ \A a \in SiradakiAdimlar(f, 1) : k[a].durum \in {"yok", "bekliyor"}
    BY <1>2, <1>3, OlusturSonuc DEF TypeOK
<1>5. \A a \in Adim : adim[a] # Yok => adim[a].sira \in Int /\ adim[a].sira >= 1
    BY <1>2 DEF TypeOK, AdimSatiri
<1>6. \A a \in Adim : k[a].durum # "yok" =>
         adim[a] # Yok /\ adim[a].akis = f /\ adim[a].sira = 1
    BY <1>4 DEF SiradakiAdimlar, Adimlari
<1>7. kayit'[t] = k
      /\ talep'[t] = [durum |-> "bekliyor", mevcut |-> 1, akis |-> f, eden |-> u]
    BY <1>1, <1>2 DEF TypeOK
<1>8. \A a \in Adim, b \in Adimlari(f) : k[a].durum # "yok" => ~(adim[b].sira < adim[a].sira)
    BY <1>5, <1>6 DEF Adimlari
<1>9. TalepIyi(talep'[t], kayit'[t])
    BY <1>4, <1>6, <1>7, <1>8 DEF TalepIyi
<1> QED
    BY <1>1, <1>2, <1>9, TekTalepDegisir DEF TypeOK

\* reddet closes the request's only pending record.
LEMMA ReddetIInv ==
    ASSUME IInv, TypeOK', NEW t \in Talep, NEW a \in Adim, NEW u \in Kullanici, Reddet(t, a, u)
    PROVE  IInv'
<1>1. TypeOK /\ kayit[t][a].durum = "bekliyor" /\ UNCHANGED <<adim, ekleme>>
    BY DEF Reddet, Islenebilir, IInv
<1>2. /\ kayit'[t][a].durum = "reddedildi"
      /\ \A b \in Adim : b # a => kayit'[t][b] = kayit[t][b]
      /\ talep'[t].durum = "reddedildi"
      /\ talep'[t].mevcut = talep[t].mevcut
      /\ talep'[t].akis = talep[t].akis
    BY <1>1 DEF Reddet, TypeOK, TalepSatiri, KayitSatiri
<1>3. TalepIyi(talep[t], kayit[t])
    BY IInvTaleplerle
<1>4. \A b \in Adim : kayit'[t][b].durum # "bekliyor"
    BY <1>1, <1>2, <1>3, TekBekleyen DEF TalepIyi
<1>5. \A b \in Adim : /\ kayit[t][b].durum = "onaylandi" => kayit'[t][b].durum = "onaylandi"
                      /\ kayit'[t][b].durum # "yok" => kayit[t][b].durum # "yok"
    BY <1>1, <1>2
<1>6. TalepIyi(talep'[t], kayit'[t])
    BY <1>2, <1>3, <1>4, <1>5 DEF TalepIyi, Adimlari
<1>7. \A s \in Talep \ {t} : talep'[s] = talep[s] /\ kayit'[s] = kayit[s]
    BY <1>1 DEF Reddet, TypeOK
<1> QED
    BY <1>1, <1>6, <1>7, TekTalepDegisir

\* talep_iptal skips every pending record of the request.
LEMMA TalepIptalIInv ==
    ASSUME IInv, TypeOK', NEW t \in Talep, NEW u \in Kullanici, TalepIptal(t, u)
    PROVE  IInv'
<1>1. TypeOK /\ talep[t].durum = "bekliyor" /\ UNCHANGED <<adim, ekleme>>
    BY DEF TalepIptal, IInv
<1>2. /\ kayit'[t] = BekleyenleriAtla(kayit[t], Adim)
      /\ talep'[t].durum = "iptal"
      /\ talep'[t].mevcut = talep[t].mevcut
      /\ talep'[t].akis = talep[t].akis
    BY <1>1 DEF TalepIptal, TypeOK, TalepSatiri
<1>3. \A b \in Adim : IF kayit[t][b].durum = "bekliyor"
                      THEN kayit'[t][b].durum = "atlandi"
                      ELSE kayit'[t][b] = kayit[t][b]
    BY <1>1, <1>2, AtlaSonuc DEF TypeOK
<1>4. TalepIyi(talep[t], kayit[t])
    BY IInvTaleplerle
<1>5. TalepIyi(talep'[t], kayit'[t])
    BY <1>2, <1>3, <1>4 DEF TalepIyi, Adimlari
<1>6. \A s \in Talep \ {t} : talep'[s] = talep[s] /\ kayit'[s] = kayit[s]
    BY <1>1 DEF TalepIptal, TypeOK
<1> QED
    BY <1>1, <1>5, <1>6, TekTalepDegisir

\* onayla takes the request to its next step, or approves it.
LEMMA OnaylaIInv ==
    ASSUME IInv, TypeOK', NEW t \in Talep, NEW a \in Adim, NEW u \in Kullanici, Onayla(t, a, u)
    PROVE  IInv'
<1>1. /\ TypeOK /\ TalepIyi(talep[t], kayit[t])
      /\ kayit[t][a].durum = "bekliyor" /\ UNCHANGED <<adim, ekleme>>
    BY IInvTaleplerle DEF Onayla, Islenebilir, IInv
<1>2. \A b \in Adim : adim[b] # Yok => adim[b].sira \in Int
    BY <1>1 DEF TypeOK, AdimSatiri
<1>3. PICK y \in [Adim -> KayitSatiri] :
             /\ kayit' = [kayit EXCEPT ![t] = y]
             /\ y[a].durum = "onaylandi"
             /\ \/ \E n \in 1..MaxSira :
                     /\ SonrakiSira(talep[t].akis, talep[t].mevcut, n)
                     /\ talep' = [talep EXCEPT ![t] = [talep[t] EXCEPT !.mevcut = n]]
                     /\ \A b \in SiradakiAdimlar(talep[t].akis, n) :
                           y[b].durum \in {"yok", "bekliyor"} /\ kayit[t][b].durum = "yok"
                     /\ \A b \in Adim :
                           b # a /\ b \notin SiradakiAdimlar(talep[t].akis, n) => y[b] = kayit[t][b]
                \/ /\ ~\E n \in 1..MaxSira : SonrakiSira(talep[t].akis, talep[t].mevcut, n)
                   /\ talep' = [talep EXCEPT ![t] = [talep[t] EXCEPT !.durum = "onaylandi"]]
                   /\ \A b \in Adim : b # a => y[b] = kayit[t][b]
    BY OnaylaEtki
<1>4. kayit'[t] = y /\ \A s \in Talep \ {t} : kayit'[s] = kayit[s] /\ talep'[s] = talep[s]
    BY <1>1, <1>3 DEF TypeOK
<1>5. adim[a] # Yok /\ adim[a].akis = talep[t].akis /\ adim[a].sira = talep[t].mevcut
    BY <1>1 DEF TalepIyi
<1>6. CASE \E n \in 1..MaxSira :
             /\ SonrakiSira(talep[t].akis, talep[t].mevcut, n)
             /\ talep' = [talep EXCEPT ![t] = [talep[t] EXCEPT !.mevcut = n]]
             /\ \A b \in SiradakiAdimlar(talep[t].akis, n) :
                   y[b].durum \in {"yok", "bekliyor"} /\ kayit[t][b].durum = "yok"
             /\ \A b \in Adim :
                   b # a /\ b \notin SiradakiAdimlar(talep[t].akis, n) => y[b] = kayit[t][b]
    <2>0. PICK n \in 1..MaxSira :
             /\ SonrakiSira(talep[t].akis, talep[t].mevcut, n)
             /\ talep' = [talep EXCEPT ![t] = [talep[t] EXCEPT !.mevcut = n]]
             /\ \A b \in SiradakiAdimlar(talep[t].akis, n) :
                   y[b].durum \in {"yok", "bekliyor"} /\ kayit[t][b].durum = "yok"
             /\ \A b \in Adim :
                   b # a /\ b \notin SiradakiAdimlar(talep[t].akis, n) => y[b] = kayit[t][b]
        BY <1>6
    <2> DEFINE ekle == SiradakiAdimlar(talep[t].akis, n)
    <2>1. /\ talep'[t].durum = talep[t].durum
          /\ talep'[t].mevcut = n
          /\ talep'[t].akis = talep[t].akis
        BY <1>1, <2>0 DEF TypeOK, TalepSatiri
    <2>2. talep[t].durum = "bekliyor" /\ talep[t].mevcut \in Int /\ n > talep[t].mevcut
        BY <1>1, <2>0 DEF TalepIyi, SonrakiSira, TypeOK, TalepSatiri
    <2>3. \A b \in Adim : b \in ekle <=> adim[b] # Yok /\ adim[b].akis = talep[t].akis /\ adim[b].sira = n
        BY DEF SiradakiAdimlar, Adimlari
    <2>4. \A b \in Adimlari(talep[t].akis) :
             /\ b \in Adim /\ adim[b] # Yok /\ adim[b].sira \in Int
             /\ adim[b].sira < n => b \notin ekle /\ adim[b].sira <= talep[t].mevcut
        BY <1>2, <2>0, <2>2, <2>3 DEF SonrakiSira, Adimlari
    <2> HIDE DEF ekle
    <2>5. \A b \in Adim : y[b].durum # "yok" =>
             b \in ekle \/ (b \notin ekle /\ kayit[t][b].durum # "yok")
        BY <1>1, <2>0 DEF ekle
    \* The steps before a new record's are approved: those the request had reached
    \* already, and the one approved now.
    <2>6. \A b \in Adimlari(talep[t].akis) : adim[b].sira < n => y[b].durum = "onaylandi"
        <3> SUFFICES ASSUME NEW b \in Adimlari(talep[t].akis), adim[b].sira < n, b # a
                     PROVE  y[b].durum = "onaylandi"
            BY <1>3
        <3>1. adim[b].sira <= talep[t].mevcut /\ b \notin ekle /\ b \in Adim
            BY <2>4
        <3>2. adim[b].sira # adim[a].sira
            BY <1>5, <2>4 DEF IInv, TekSira, Adimlari
        <3>3. adim[b].sira < adim[a].sira
            BY <1>5, <2>2, <2>4, <3>1, <3>2
        <3>4. kayit[t][b].durum = "onaylandi"
            BY <1>1, <3>3 DEF TalepIyi
        <3> QED
            BY <2>0, <3>1, <3>4 DEF ekle
    <2>7. ASSUME NEW x \in Adim, y[x].durum # "yok"
          PROVE  /\ adim[x] # Yok /\ adim[x].akis = talep[t].akis /\ adim[x].sira <= n
                 /\ \A b \in Adimlari(talep[t].akis) :
                       adim[b].sira < adim[x].sira => y[b].durum = "onaylandi"
        <3>1. CASE x \in ekle
            BY <2>2, <2>3, <2>6, <3>1
        <3>2. CASE x \notin ekle /\ kayit[t][x].durum # "yok"
            <4>1. adim[x] # Yok /\ adim[x].akis = talep[t].akis /\ adim[x].sira <= talep[t].mevcut
                BY <1>1, <3>2 DEF TalepIyi
            <4>2. adim[x].sira < n /\ adim[x].sira \in Int
                BY <1>2, <2>2, <4>1
            <4>3. \A b \in Adimlari(talep[t].akis) : adim[b].sira < adim[x].sira => adim[b].sira < n
                BY <2>2, <2>4, <4>2
            <4> QED
                BY <2>2, <2>6, <4>1, <4>2, <4>3
        <3> QED
            BY <2>5, <2>7, <3>1, <3>2
    <2>8. \A b \in Adim : y[b].durum = "bekliyor" => adim[b].sira = n
        <3> SUFFICES ASSUME NEW b \in Adim, y[b].durum = "bekliyor", b \notin ekle
                     PROVE  FALSE
            BY <2>3
        <3>1. b # a /\ kayit[t][b].durum = "bekliyor"
            BY <1>3, <2>0 DEF ekle
        <3> QED
            BY <1>1, <3>1, TekBekleyen DEF TalepIyi
    <2>9. TalepIyi(talep'[t], y)
        BY <2>1, <2>2, <2>7, <2>8 DEF TalepIyi
    <2> QED
        BY <1>1, <1>4, <2>9, TekTalepDegisir
<1>7. CASE /\ ~\E n \in 1..MaxSira : SonrakiSira(talep[t].akis, talep[t].mevcut, n)
           /\ talep' = [talep EXCEPT ![t] = [talep[t] EXCEPT !.durum = "onaylandi"]]
           /\ \A b \in Adim : b # a => y[b] = kayit[t][b]
    <2>1. /\ talep'[t].durum = "onaylandi"
          /\ talep'[t].mevcut = talep[t].mevcut
          /\ talep'[t].akis = talep[t].akis
        BY <1>1, <1>7 DEF TypeOK, TalepSatiri
    <2>2. \A b \in Adim : y[b].durum # "bekliyor"
        BY <1>1, <1>3, <1>7, TekBekleyen DEF TalepIyi
    <2>3. \A b \in Adim : /\ y[b].durum # "yok" => kayit[t][b].durum # "yok"
                          /\ kayit[t][b].durum = "onaylandi" => y[b].durum = "onaylandi"
        BY <1>1, <1>3, <1>7
    <2>4. TalepIyi(talep'[t], y)
        BY <1>1, <1>3, <1>5, <2>1, <2>2, <2>3 DEF TalepIyi, Adimlari
    <2> QED
        BY <1>1, <1>4, <2>4, TekTalepDegisir
<1> QED
    BY <1>3, <1>6, <1>7

-----------------------------------------------------------------------------
(* The administrator's handlers, and all steps together.                   *)

\* admin_adim_ekle reads the maximum: the number it holds is above every step.
LEMMA AdimEkleOkuIInv ==
    ASSUME IInv, TypeOK', NEW p \in Admin, NEW f \in Akis, AdimEkleOku(p, f)
    PROVE  IInv'
<1>1. PICK m \in 0..(MaxSira - 1) :
         EnBuyukSira(f, m) /\ ekleme' = [ekleme EXCEPT ![p] = [akis |-> f, sira |-> m + 1]]
    BY DEF AdimEkleOku
<1>2. TypeOK /\ UNCHANGED <<adim, talep, kayit>>
    BY DEF AdimEkleOku, IInv
<1>3. \A a \in Adimlari(f) : adim[a].sira \in Int /\ adim[a].sira <= m /\ m \in Int
    BY <1>1, <1>2 DEF EnBuyukSira, Adimlari, TypeOK, AdimSatiri
<1>4. \A a \in Adimlari(f) : adim[a].sira < m + 1
    BY <1>3
<1>5. EklemeSonra'
    <2> SUFFICES ASSUME NEW q \in Admin, ekleme'[q] # Yok, NEW a \in Adimlari(ekleme'[q].akis)
                 PROVE  adim[a].sira < ekleme'[q].sira
        BY <1>2 DEF EklemeSonra, Adimlari
    <2>1. CASE q = p
        BY <1>1, <1>2, <1>4, <2>1 DEF TypeOK
    <2>2. CASE q # p
        BY <1>1, <1>2, <2>2 DEF TypeOK, IInv, EklemeSonra
    <2> QED
        BY <2>1, <2>2
<1> QED
    BY <1>2, <1>5 DEF IInv, TekSira, KayitAdimi, BekleyenKayitGuncel, OncekilerOnayli,
                      OnaysizOnayYok, Adimlari

\* A change of adim that leaves the steps with records alone keeps the requests'
\* part of the invariant, if no new step is numbered before a record of its flow.
LEMMA AdimDegisir ==
    ASSUME IInv, TypeOK', (TekSira /\ EklemeSonra)', UNCHANGED <<talep, kayit>>, NEW a \in Adim,
           \A b \in Adim \ {a} : adim'[b] = adim[b],
           \A t \in Talep : kayit[t][a].durum = "yok",
           adim'[a] # Yok => \A b \in Adimlari(adim'[a].akis) : adim[b].sira < adim'[a].sira
    PROVE  IInv'
<1>1. (KayitAdimi /\ BekleyenKayitGuncel)'
    BY DEF IInv, KayitAdimi, BekleyenKayitGuncel
<1>2. OncekilerOnayli'
    <2> SUFFICES ASSUME NEW t \in Talep, NEW x \in Adim, kayit[t][x].durum # "yok", NEW b \in Adim,
                        adim'[b] # Yok, adim'[b].akis = talep[t].akis, adim'[b].sira < adim'[x].sira
                 PROVE  kayit[t][b].durum = "onaylandi"
        BY DEF OncekilerOnayli, Adimlari
    <2>1. x # a /\ adim'[x] = adim[x] /\ adim[x] # Yok /\ adim[x].akis = talep[t].akis
        BY DEF IInv, KayitAdimi
    <2>2. CASE b = a
        <3>1. adim[x].sira < adim'[a].sira
            BY <2>1, <2>2 DEF Adimlari
        <3>2. adim[x].sira \in Int /\ adim'[a].sira \in Int
            BY <2>1, <2>2 DEF IInv, TypeOK, AdimSatiri
        <3> QED
            BY <2>1, <2>2, <3>1, <3>2
    <2>3. CASE b # a
        BY <2>1, <2>3 DEF IInv, OncekilerOnayli, Adimlari
    <2> QED
        BY <2>2, <2>3
<1>3. OnaysizOnayYok'
    <2> SUFFICES ASSUME NEW t \in Talep, talep[t].durum = "onaylandi"
                 PROVE  \E x \in Adim : /\ kayit[t][x].durum = "onaylandi"
                                        /\ adim'[x] # Yok /\ adim'[x].sira = talep[t].mevcut
        BY DEF OnaysizOnayYok
    <2>1. PICK x \in Adim : /\ kayit[t][x].durum = "onaylandi"
                            /\ adim[x] # Yok /\ adim[x].sira = talep[t].mevcut
        BY DEF IInv, OnaysizOnayYok
    <2>2. x # a
        BY <2>1
    <2> QED
        BY <2>1, <2>2
<1> QED
    BY <1>1, <1>2, <1>3 DEF IInv

\* admin_adim_ekle numbers the new step after all others; no other administrator
\* holds a number that is taken by it.
LEMMA AdimEkleYazIInv ==
    ASSUME IInv, TypeOK', TekAdmin, NEW p \in Admin, NEW a \in Adim, NEW d \in AdimTanimlari,
           AdimEkleYaz(p, a, d)
    PROVE  IInv'
<1>1. /\ TypeOK /\ ekleme[p] # Yok /\ adim[a] = Yok /\ UNCHANGED <<talep, kayit>>
      /\ ekleme' = [ekleme EXCEPT ![p] = Yok]
    BY DEF AdimEkleYaz, IInv
<1>2. /\ adim'[a].akis = ekleme[p].akis
      /\ adim'[a].sira = ekleme[p].sira
      /\ \A b \in Adim \ {a} : adim'[b] = adim[b]
    BY <1>1 DEF AdimEkleYaz, TypeOK
<1>3. \A b \in Adimlari(ekleme[p].akis) : adim[b].sira < ekleme[p].sira
    BY <1>1 DEF IInv, EklemeSonra
<1>4. EklemeSonra'
    BY <1>1 DEF EklemeSonra, TekAdmin, TypeOK
<1>5. \A b \in Adimlari(ekleme[p].akis) : adim[b].sira \in Int /\ ekleme[p].sira \in Int
    BY <1>1 DEF Adimlari, TypeOK, AdimSatiri
<1>6. TekSira'
    <2> SUFFICES ASSUME NEW b \in Adim, NEW c \in Adim, adim'[b] # Yok, adim'[c] # Yok, b # c,
                        adim'[b].akis = adim'[c].akis
                 PROVE  adim'[b].sira # adim'[c].sira
        BY DEF TekSira
    <2>1. CASE b # a /\ c # a
        BY <1>2, <2>1 DEF IInv, TekSira
    <2>2. CASE b = a
        BY <1>2, <1>3, <1>5, <2>2 DEF Adimlari
    <2>3. CASE c = a
        BY <1>2, <1>3, <1>5, <2>3 DEF Adimlari
    <2> QED
        BY <2>1, <2>2, <2>3
<1>7. \A t \in Talep : kayit[t][a].durum = "yok"
    BY <1>1 DEF IInv, KayitAdimi
<1> QED
    BY <1>1, <1>2, <1>3, <1>4, <1>6, <1>7, AdimDegisir

\* admin_adim_sil deletes a step no record refers to.
LEMMA AdminAdimSilIInv ==
    ASSUME IInv, TypeOK', NEW a \in Adim, AdminAdimSil(a)
    PROVE  IInv'
<1>1. TypeOK /\ UNCHANGED <<ekleme, talep, kayit>> /\ \A t \in Talep : kayit[t][a].durum = "yok"
    BY DEF AdminAdimSil, Basvurulmus, IInv
<1>2. adim'[a] = Yok /\ \A b \in Adim \ {a} : adim'[b] = adim[b]
    BY <1>1 DEF AdminAdimSil, TypeOK
<1>3. (TekSira /\ EklemeSonra)'
    BY <1>1, <1>2 DEF IInv, TekSira, EklemeSonra, Adimlari
<1> QED
    BY <1>1, <1>2, <1>3, AdimDegisir

\* With one administrator every step keeps the invariant.
LEMMA IInvNext ==
    ASSUME TekAdmin
    PROVE  IInv /\ [Next]_vars => IInv'
<1> SUFFICES ASSUME IInv, [Next]_vars PROVE IInv'
    OBVIOUS
<1>1. TypeOK'
    BY TypeNext DEF IInv
<1>2. CASE UNCHANGED <<adim, ekleme, talep, kayit>>
    BY <1>1, <1>2 DEF IInv, TekSira, EklemeSonra, KayitAdimi, BekleyenKayitGuncel,
                      OncekilerOnayli, OnaysizOnayYok, Adimlari
<1>3. ASSUME NEW t \in Talep, NEW u \in Kullanici, TalepOlustur(t, u) PROVE IInv'
    BY <1>1, <1>3, TalepOlusturIInv
<1>4. ASSUME NEW t \in Talep, NEW a \in Adim, NEW u \in Kullanici, Onayla(t, a, u) PROVE IInv'
    BY <1>1, <1>4, OnaylaIInv
<1>5. ASSUME NEW t \in Talep, NEW a \in Adim, NEW u \in Kullanici, Reddet(t, a, u) PROVE IInv'
    BY <1>1, <1>5, ReddetIInv
<1>6. ASSUME NEW t \in Talep, NEW u \in Kullanici, TalepIptal(t, u) PROVE IInv'
    BY <1>1, <1>6, TalepIptalIInv
<1>7. ASSUME NEW p \in Admin, NEW f \in Akis, AdimEkleOku(p, f) PROVE IInv'
    BY <1>1, <1>7, AdimEkleOkuIInv
<1>8. ASSUME NEW p \in Admin, NEW a \in Adim, NEW d \in AdimTanimlari, AdimEkleYaz(p, a, d)
      PROVE  IInv'
    BY <1>1, <1>8, AdimEkleYazIInv
<1>9. ASSUME NEW a \in Adim, AdminAdimSil(a) PROVE IInv'
    BY <1>1, <1>9, AdminAdimSilIInv
<1>10. ASSUME NEW d \in Devir, NEW u \in Kullanici,
              \/ \E v \in Kullanici, bas, bit \in 0..MaxGun : YetkiDevriEkle(d, u, v, bas, bit)
              \/ YetkiDevriIptal(d, u)
       PROVE  UNCHANGED <<adim, ekleme, talep, kayit>>
    BY <1>10 DEF YetkiDevriEkle, YetkiDevriIptal
<1>11. ASSUME NEW f \in Akis, NEW o \in Oncelikler, AdminAkisEkle(f, o)
       PROVE  UNCHANGED <<adim, ekleme, talep, kayit>>
    BY <1>11 DEF AdminAkisEkle
<1>12. CASE GunGec \/ UNCHANGED vars
    BY <1>2, <1>12 DEF GunGec, vars
<1> QED
    BY <1>2, <1>3, <1>4, <1>5, <1>6, <1>7, <1>8, <1>9, <1>10, <1>11, <1>12 DEF Next

\* With one administrator IInv always holds.
LEMMA IInvHer == ASSUME TekAdmin PROVE Spec => []IInv
<1>1. Init => IInv
    BY IInvInit
<1>2. IInv /\ [Next]_vars => IInv'
    BY IInvNext
<1> QED
    BY <1>1, <1>2, PTL DEF Spec

-----------------------------------------------------------------------------
(* The properties.                                                         *)

\* admin_adim_ekle never gives two steps of a flow the same sira.
THEOREM SiralarTek == ASSUME TekAdmin PROVE Spec => []TekSira
<1>1. IInv => TekSira
    BY DEF IInv
<1> QED
    BY <1>1, IInvHer, PTL

\* No pending record is left behind: only the current step of an open request can
\* be acted on by onayla and reddet.
THEOREM BekleyenlerGuncel == ASSUME TekAdmin PROVE Spec => []BekleyenKayitGuncel
<1>1. IInv => BekleyenKayitGuncel
    BY DEF IInv
<1> QED
    BY <1>1, IInvHer, PTL

\* An approved request was approved at every step up to the one it ended at.
LEMMA GectiDurum ==
    ASSUME IInv, NEW t \in Talep, NEW x \in Adim, kayit[t][x].durum = "onaylandi",
           adim[x].sira = talep[t].mevcut, NEW a \in Adimlari(talep[t].akis),
           adim[a].sira <= talep[t].mevcut
    PROVE  kayit[t][a].durum = "onaylandi"
<1>1. adim[x] # Yok /\ adim[x].akis = talep[t].akis
    BY DEF IInv, KayitAdimi
<1>2. a \in Adim /\ adim[a] # Yok /\ adim[a].akis = talep[t].akis
    BY DEF Adimlari
<1>3. adim[a].sira \in Int /\ adim[x].sira \in Int
    BY <1>1, <1>2 DEF IInv, TypeOK, AdimSatiri
<1>4. CASE a = x
    BY <1>4
<1>5. CASE a # x
    <2>1. adim[a].sira # adim[x].sira
        BY <1>1, <1>2, <1>5 DEF IInv, TekSira
    <2>2. adim[a].sira < adim[x].sira
        BY <1>3, <2>1
    <2> QED
        BY <1>2, <2>2 DEF IInv, OncekilerOnayli
<1> QED
    BY <1>4, <1>5

\* Editing the flow under way never leaves an approved request with a step it passed
\* without an approval.
THEOREM HerAdimdanGecer == ASSUME TekAdmin PROVE Spec => []HerAdimdanGecti
<1>1. IInv => HerAdimdanGecti
    <2> SUFFICES ASSUME IInv, NEW t \in Talep, talep[t].durum = "onaylandi",
                        NEW a \in Adimlari(talep[t].akis), adim[a].sira <= talep[t].mevcut
                 PROVE  kayit[t][a].durum = "onaylandi"
        BY DEF HerAdimdanGecti
    <2>1. PICK x \in Adim : kayit[t][x].durum = "onaylandi" /\ adim[x].sira = talep[t].mevcut
        BY DEF IInv, OnaysizOnayYok
    <2> QED
        BY <2>1, GectiDurum
<1> QED
    BY <1>1, IInvHer, PTL

\* If a flow has a step after the request's current one, _sonraki_adima_gec finds
\* the first of them.
LEMMA SonrakiVar ==
    ASSUME TypeOK, NEW t \in Talep, NEW b \in Adimlari(talep[t].akis),
           adim[b].sira > talep[t].mevcut
    PROVE  \E n \in 1..MaxSira : SonrakiSira(talep[t].akis, talep[t].mevcut, n)
<1> DEFINE R == OpToRel(<, Nat)
           sonra == {n \in 1..MaxSira : n > talep[t].mevcut /\ SiradakiAdimlar(talep[t].akis, n) # {}}
<1>1. \A a \in Adimlari(talep[t].akis) :
         a \in SiradakiAdimlar(talep[t].akis, adim[a].sira) /\ adim[a].sira \in 1..MaxSira
    BY DEF SiradakiAdimlar, Adimlari, TypeOK, AdimSatiri
<1>2. adim[b].sira \in sonra
    BY <1>1
<1>3. sonra \subseteq Nat
    BY OnayAssumption
<1>4. PICK n \in sonra : \A m \in sonra : ~(<<m, n>> \in R)
    <2> HIDE DEF sonra, R
    <2> QED
        BY <1>2, <1>3, NatLessThanWellFounded, WFMin DEF R
<1>5. \A m \in sonra : m >= n
    <2>1. \A m \in sonra : <<m, n>> \in Nat \X Nat /\ m \in Nat /\ n \in Nat
        BY <1>3
    <2>2. \A m \in sonra : ~(m < n)
        BY <1>4, <2>1 DEF OpToRel
    <2> QED
        BY <2>1, <2>2
<1>6. \A a \in Adimlari(talep[t].akis) : adim[a].sira > talep[t].mevcut => adim[a].sira >= n
    BY <1>1, <1>5
<1> QED
    BY <1>4, <1>6 DEF SonrakiSira

\* The step that approves a request finds all its flow's steps approved.
LEMMA OnaylananTam ==
    ASSUME IInv, [Next]_vars, NEW t \in Talep,
           talep[t].durum # "onaylandi", talep'[t].durum = "onaylandi",
           NEW b \in Adimlari(talep[t].akis)
    PROVE  kayit'[t][b].durum = "onaylandi"
<1>1. PICK a \in Adim : \E u \in Kullanici : Onayla(t, a, u)
    <2>1. TypeOK
        BY DEF IInv
    <2>2. \A s \in Talep, u \in Kullanici : TalepOlustur(s, u) => talep'[t].durum # "onaylandi"
        BY <2>1 DEF TalepOlustur, TypeOK
    <2>3. \A s \in Talep, a \in Adim, u \in Kullanici : Reddet(s, a, u) => talep'[t].durum # "onaylandi"
        BY <2>1 DEF Reddet, TypeOK, TalepSatiri
    <2>4. \A s \in Talep, u \in Kullanici : TalepIptal(s, u) => talep'[t].durum # "onaylandi"
        BY <2>1 DEF TalepIptal, TypeOK, TalepSatiri
    <2>5. \A s \in Talep, a \in Adim, u \in Kullanici : Onayla(s, a, u) => s = t
        <3> SUFFICES ASSUME NEW s \in Talep, NEW a \in Adim, NEW u \in Kullanici, Onayla(s, a, u), s # t
                     PROVE  FALSE
            OBVIOUS
        <3>1. talep'[t] = talep[t]
            BY <2>1 DEF Onayla, TypeOK
        <3> QED
            BY <3>1
    <2>6. ~UNCHANGED talep
        OBVIOUS
    <2> QED
        BY <2>2, <2>3, <2>4, <2>5, <2>6
        DEF Next, vars, YetkiDevriEkle, YetkiDevriIptal, AdminAkisEkle, AdimEkleOku, AdimEkleYaz,
            AdminAdimSil, GunGec
<1>2. PICK u \in Kullanici : Onayla(t, a, u)
    BY <1>1
<1>3. TypeOK /\ adim' = adim /\ kayit[t][a].durum = "bekliyor"
    BY <1>2 DEF IInv, Onayla, Islenebilir
<1>4. PICK y \in [Adim -> KayitSatiri] :
             /\ kayit' = [kayit EXCEPT ![t] = y]
             /\ y[a].durum = "onaylandi"
             /\ \/ \E n \in 1..MaxSira : talep' = [talep EXCEPT ![t] = [talep[t] EXCEPT !.mevcut = n]]
                \/ /\ ~\E n \in 1..MaxSira : SonrakiSira(talep[t].akis, talep[t].mevcut, n)
                   /\ talep' = [talep EXCEPT ![t] = [talep[t] EXCEPT !.durum = "onaylandi"]]
                   /\ \A c \in Adim : c # a => y[c] = kayit[t][c]
    BY <1>2, OnaylaEtki
<1>5. /\ ~\E n \in 1..MaxSira : SonrakiSira(talep[t].akis, talep[t].mevcut, n)
      /\ \A c \in Adim : c # a => y[c] = kayit[t][c]
    <2>1. ~\E n \in 1..MaxSira : talep' = [talep EXCEPT ![t] = [talep[t] EXCEPT !.mevcut = n]]
        BY <1>3 DEF TypeOK, TalepSatiri
    <2> QED
        BY <1>4, <2>1
<1>6. kayit'[t] = y
    BY <1>3, <1>4 DEF TypeOK
<1>7. /\ b \in Adim /\ adim[b] # Yok /\ adim[b].akis = talep[t].akis
      /\ adim[b].sira \in Int /\ talep[t].mevcut \in Int
    BY <1>3 DEF Adimlari, TypeOK, AdimSatiri, TalepSatiri
<1>8. adim[b].sira <= talep[t].mevcut
    <2>1. ~(adim[b].sira > talep[t].mevcut)
        BY <1>3, <1>5, SonrakiVar
    <2> QED
        BY <1>7, <2>1
<1>9. adim[a] # Yok /\ adim[a].akis = talep[t].akis /\ adim[a].sira = talep[t].mevcut
    BY <1>3 DEF IInv, BekleyenKayitGuncel, KayitAdimi
<1>10. CASE b = a
    BY <1>4, <1>6, <1>10
<1>11. CASE b # a
    <2>1. adim[b].sira < adim[a].sira
        BY <1>7, <1>8, <1>9, <1>11 DEF IInv, TekSira
    <2>2. kayit[t][b].durum = "onaylandi"
        BY <1>3, <1>7, <2>1 DEF IInv, OncekilerOnayli
    <2> QED
        BY <1>5, <1>6, <1>7, <1>11, <2>2
<1> QED
    BY <1>10, <1>11

\* Whoever approves a request last has the approvals of all steps the flow has then.
THEOREM OnayTamdir == ASSUME TekAdmin PROVE Spec => OnayTam
<1>1. IInv /\ [Next]_vars =>
        [\A t \in Talep :
           talep[t].durum # "onaylandi" /\ talep'[t].durum = "onaylandi" =>
              \A a \in Adimlari(talep[t].akis) : kayit'[t][a].durum = "onaylandi"]_vars
    BY OnaylananTam
<1> QED
    BY <1>1, IInvHer, PTL DEF Spec, OnayTam

-----------------------------------------------------------------------------
(* Any number of administrators: steps may share a sira.                   *)

\* What ParalelIInv says of one request: its row r and its records k.
TalepKesin(r, k) ==
    /\ r.durum = "yok" => r.mevcut = 1
    /\ r.durum = "onaylandi" =>
         \E a \in Adim : k[a].durum = "onaylandi" /\ adim[a] # Yok /\ adim[a].sira = r.mevcut
    /\ \A a \in Adim : k[a].durum # "yok" =>
         r.durum # "yok" /\ adim[a] # Yok /\ adim[a].akis = r.akis /\ adim[a].sira <= r.mevcut
    /\ \A a \in Adim : k[a].durum = "bekliyor" =>
         r.durum \in {"bekliyor", "reddedildi"} /\ adim[a].sira = r.mevcut

\* ParalelIInv is a statement about the requests one by one.
LEMMA ParalelTaleplerle ==
    ParalelIInv <=> TypeOK /\ \A t \in Talep : TalepKesin(talep[t], kayit[t])
BY DEF ParalelIInv, KayitAdimi, BekleyenAcik, OnaysizOnayYok, TalepKesin

LEMMA ParalelTaleplerleSonra ==
    ParalelIInv' <=> (TypeOK /\ \A t \in Talep : TalepKesin(talep[t], kayit[t]))'
BY ParalelTaleplerle, PTL

\* A handler that decides about one request has to establish TalepKesin for that one.
LEMMA TekTalepKesin ==
    ASSUME ParalelIInv, TypeOK', NEW t \in Talep, UNCHANGED adim,
           \A s \in Talep \ {t} : talep'[s] = talep[s] /\ kayit'[s] = kayit[s],
           TalepKesin(talep'[t], kayit'[t])
    PROVE  ParalelIInv'
<1>1. \A s \in Talep : TalepKesin(talep[s], kayit[s])
    BY ParalelTaleplerle
<1>2. \A r, k : TalepKesin(r, k) <=> TalepKesin(r, k)'
    BY DEF TalepKesin
<1>3. (\A s \in Talep : TalepKesin(talep[s], kayit[s]))'
    BY <1>1, <1>2
<1> QED
    BY <1>3, ParalelTaleplerleSonra

\* _sonraki_adima_gec is called with no record pending and an approved one at the
\* current step: it opens records at the new current step only, or approves.
LEMMA GecKesin ==
    ASSUME TypeOK, NEW r \in TalepSatiri, NEW k \in [Adim -> KayitSatiri], TalepKesin(r, k),
           r.durum \in {"bekliyor", "reddedildi"}, \A b \in Adim : k[b].durum # "bekliyor",
           NEW a \in Adim, k[a].durum = "onaylandi", adim[a].sira = r.mevcut,
           NEW s \in SonrakiAdimaGec(r, k)
    PROVE  TalepKesin(s[1], s[2])
<1>1. CASE \E n \in 1..MaxSira :
             /\ SonrakiSira(r.akis, r.mevcut, n)
             /\ s[1] = [r EXCEPT !.mevcut = n]
             /\ s[2] \in AdimKayitlariOlustur(r.akis, n, k)
    <2>1. PICK n \in 1..MaxSira :
             /\ SonrakiSira(r.akis, r.mevcut, n)
             /\ s[1] = [r EXCEPT !.mevcut = n]
             /\ s[2] \in AdimKayitlariOlustur(r.akis, n, k)
        BY <1>1
    <2> DEFINE ekle == SiradakiAdimlar(r.akis, n)
    <2>2. s[1].durum = r.durum /\ s[1].mevcut = n /\ s[1].akis = r.akis
        BY <2>1 DEF TalepSatiri
    <2>3. /\ \A b \in Adim : b \notin ekle => s[2][b] = k[b]
          /\ \A b \in ekle : s[2][b].durum \in {"yok", "bekliyor"}
        BY <2>1, OlusturSonuc
    <2>4. \A b \in ekle : adim[b] # Yok /\ adim[b].akis = r.akis /\ adim[b].sira = n
        BY DEF SiradakiAdimlar, Adimlari
    <2>5. n > r.mevcut /\ r.mevcut \in Int /\ n \in Int
        BY <2>1 DEF SonrakiSira, TalepSatiri
    <2>6. \A b \in Adim : adim[b] # Yok => adim[b].sira \in Int
        BY DEF TypeOK, AdimSatiri
    <2> HIDE DEF ekle
    <2> QED
        BY <2>2, <2>3, <2>4, <2>5, <2>6 DEF TalepKesin
<1>2. CASE s[1] = [r EXCEPT !.durum = "onaylandi"] /\ s[2] = k
    <2>1. s[1].durum = "onaylandi" /\ s[1].mevcut = r.mevcut /\ s[1].akis = r.akis
        BY <1>2 DEF TalepSatiri
    <2> QED
        BY <1>2, <2>1 DEF TalepKesin
<1> QED
    BY <1>1, <1>2, GecSonuc

\* _sonraki_adim_kontrol after an approval at the current step: the request goes on
\* only when every sibling is approved, or after the pending siblings are skipped.
LEMMA KontrolKesin ==
    ASSUME TypeOK, NEW r \in TalepSatiri, NEW k \in [Adim -> KayitSatiri], TalepKesin(r, k),
           r.durum \in {"bekliyor", "reddedildi"},
           NEW a \in Adim, k[a].durum = "onaylandi", adim[a].sira = r.mevcut,
           NEW s \in SonrakiAdimKontrol(r, k)
    PROVE  TalepKesin(s[1], s[2])
<1> DEFINE grup == MevcutKayitlar(r, k)
           onayli == {b \in grup : k[b].durum = "onaylandi"}
           h == BekleyenleriAtla(k, grup)
<1>1. a \in grup
    BY DEF MevcutKayitlar
<1>2. \A b \in Adim : k[b].durum = "bekliyor" => b \in grup
    BY DEF MevcutKayitlar, TalepKesin
<1>3. PICK ilk \in grup : s \in AdimKontrol(r, k, ilk)
    BY <1>1 DEF SonrakiAdimKontrol
<1>4. CASE onayli = grup /\ s \in SonrakiAdimaGec(r, k)
    <2>1. \A b \in Adim : k[b].durum # "bekliyor"
        BY <1>2, <1>4
    <2> QED
        BY <1>4, <2>1, GecKesin
<1>5. CASE s \in SonrakiAdimaGec(r, h)
    <2>1. /\ h \in [Adim -> KayitSatiri]
          /\ \A b \in Adim : IF b \in grup /\ k[b].durum = "bekliyor"
                             THEN h[b].durum = "atlandi" ELSE h[b] = k[b]
        BY AtlaSonuc
    <2>2. (\A b \in Adim : h[b].durum # "bekliyor") /\ h[a].durum = "onaylandi"
        BY <1>2, <2>1
    <2> HIDE DEF h, grup, onayli
    <2>3. TalepKesin(r, h)
        BY <1>2, <2>1, <2>2 DEF TalepKesin
    <2> QED
        BY <1>5, <2>1, <2>2, <2>3, GecKesin
<1>6. CASE s = <<r, k>>
    BY <1>6
<1> QED
    BY <1>3, <1>4, <1>5, <1>6 DEF AdimKontrol

\* onayla, whoever else may decide about the same step.
LEMMA OnaylaKesin ==
    ASSUME ParalelIInv, TypeOK', NEW t \in Talep, NEW a \in Adim, NEW u \in Kullanici,
           Onayla(t, a, u)
    PROVE  ParalelIInv'
<1> DEFINE k == [kayit[t] EXCEPT ![a] = [kayit[t][a] EXCEPT !.durum = "onaylandi"]]
<1>1. /\ TypeOK /\ TalepKesin(talep[t], kayit[t]) /\ UNCHANGED adim
      /\ kayit[t][a].durum = "bekliyor"
    BY ParalelTaleplerle DEF Onayla, Islenebilir
<1>2. PICK s \in SonrakiAdimKontrol(talep[t], k) :
            /\ talep' = [talep EXCEPT ![t] = s[1]]
            /\ kayit' = [kayit EXCEPT ![t] = s[2]]
    BY DEF Onayla
<1>3. /\ k \in [Adim -> KayitSatiri]
      /\ k[a].durum = "onaylandi"
      /\ \A b \in Adim : b # a => k[b] = kayit[t][b]
    <2>1. kayit[t] \in [Adim -> KayitSatiri] /\ kayit[t][a] \in KayitSatiri
        BY <1>1 DEF TypeOK
    <2>2. "onaylandi" \in KayitDurumu
        BY DEF KayitDurumu
    <2> QED
        BY <2>1, <2>2, DurumYaz
<1>4. talep[t].durum \in {"bekliyor", "reddedildi"} /\ adim[a].sira = talep[t].mevcut
    BY <1>1 DEF TalepKesin
<1>5. talep[t] \in TalepSatiri
    BY <1>1 DEF TypeOK
<1> HIDE DEF k
<1>6. TalepKesin(talep[t], k)
    BY <1>1, <1>3, <1>4 DEF TalepKesin
<1>7. TalepKesin(s[1], s[2])
    BY <1>1, <1>3, <1>4, <1>5, <1>6, KontrolKesin
<1>8. /\ talep'[t] = s[1] /\ kayit'[t] = s[2]
      /\ \A q \in Talep \ {t} : talep'[q] = talep[q] /\ kayit'[q] = kayit[q]
    BY <1>1, <1>2 DEF TypeOK
<1> QED
    BY <1>1, <1>7, <1>8, TekTalepKesin

\* talep_olustur, reddet and talep_iptal.
LEMMA AcVeKapatKesin ==
    ASSUME ParalelIInv, TypeOK', NEW t \in Talep, NEW u \in Kullanici,
           \/ TalepOlustur(t, u)
           \/ \E a \in Adim : Reddet(t, a, u)
           \/ TalepIptal(t, u)
    PROVE  ParalelIInv'
<1>1. TypeOK /\ TalepKesin(talep[t], kayit[t]) /\ UNCHANGED adim
    BY ParalelTaleplerle DEF TalepOlustur, Reddet, TalepIptal
<1>2. CASE TalepOlustur(t, u)
    <2>0. PICK f \in Akis : \E k \in AdimKayitlariOlustur(f, 1, kayit[t]) :
            /\ kayit' = [kayit EXCEPT ![t] = k]
            /\ talep' = [talep EXCEPT ![t] =
                 [durum |-> "bekliyor", mevcut |-> 1, akis |-> f, eden |-> u]]
        BY <1>2 DEF TalepOlustur
    <2>1. PICK k \in AdimKayitlariOlustur(f, 1, kayit[t]) :
            /\ kayit' = [kayit EXCEPT ![t] = k]
            /\ talep' = [talep EXCEPT ![t] =
                 [durum |-> "bekliyor", mevcut |-> 1, akis |-> f, eden |-> u]]
        BY <2>0
    <2>2. \A a \in Adim : kayit[t][a].durum = "yok"
        BY <1>1, <1>2 DEF TalepOlustur, TalepKesin
    <2>3. \A a \in Adim : k[a].durum # "yok" =>
             adim[a] # Yok /\ adim[a].akis = f /\ adim[a].sira = 1 /\ k[a].durum = "bekliyor"
        BY <1>1, <2>2, OlusturSonuc DEF TypeOK, SiradakiAdimlar, Adimlari
    <2>4. /\ talep'[t] = [durum |-> "bekliyor", mevcut |-> 1, akis |-> f, eden |-> u]
          /\ kayit'[t] = k
          /\ \A q \in Talep \ {t} : talep'[q] = talep[q] /\ kayit'[q] = kayit[q]
        BY <1>1, <2>1 DEF TypeOK
    <2>5. TalepKesin(talep'[t], kayit'[t])
        BY <2>3, <2>4 DEF TalepKesin
    <2> QED
        BY <1>1, <2>4, <2>5, TekTalepKesin
<1>3. CASE \E a \in Adim : Reddet(t, a, u)
    <2>1. PICK a \in Adim : Reddet(t, a, u)
        BY <1>3
    <2>2. /\ kayit[t][a].durum = "bekliyor"
          /\ kayit'[t][a].durum = "reddedildi"
          /\ \A b \in Adim : b # a => kayit'[t][b] = kayit[t][b]
          /\ talep'[t].durum = "reddedildi"
          /\ talep'[t].mevcut = talep[t].mevcut /\ talep'[t].akis = talep[t].akis
          /\ \A q \in Talep \ {t} : talep'[q] = talep[q] /\ kayit'[q] = kayit[q]
        BY <1>1, <2>1 DEF Reddet, Islenebilir, TypeOK, TalepSatiri, KayitSatiri
    <2>3. TalepKesin(talep'[t], kayit'[t])
        BY <1>1, <2>2 DEF TalepKesin
    <2> QED
        BY <1>1, <2>2, <2>3, TekTalepKesin
<1>4. CASE TalepIptal(t, u)
    <2>1. /\ kayit'[t] = BekleyenleriAtla(kayit[t], Adim)
          /\ talep[t].durum = "bekliyor" /\ talep'[t].durum = "iptal"
          /\ talep'[t].mevcut = talep[t].mevcut /\ talep'[t].akis = talep[t].akis
          /\ \A q \in Talep \ {t} : talep'[q] = talep[q] /\ kayit'[q] = kayit[q]
        BY <1>1, <1>4 DEF TalepIptal, TypeOK, TalepSatiri
    <2>2. \A b \in Adim : IF kayit[t][b].durum = "bekliyor"
                          THEN kayit'[t][b].durum = "atlandi"
                          ELSE kayit'[t][b] = kayit[t][b]
        BY <1>1, <2>1, AtlaSonuc DEF TypeOK
    <2>3. TalepKesin(talep'[t], kayit'[t])
        BY <1>1, <2>1, <2>2 DEF TalepKesin
    <2> QED
        BY <1>1, <2>1, <2>3, TekTalepKesin
<1> QED
    BY <1>2, <1>3, <1>4

\* The flow's editors change no step that a record refers to.
LEMMA AdimDegisirKesin ==
    ASSUME ParalelIInv, TypeOK', UNCHANGED <<talep, kayit>>, NEW a \in Adim,
           \A b \in Adim \ {a} : adim'[b] = adim[b],
           \A t \in Talep : kayit[t][a].durum = "yok"
    PROVE  ParalelIInv'
BY DEF ParalelIInv, KayitAdimi, BekleyenAcik, OnaysizOnayYok

\* Every step keeps the invariant, whoever takes it.
LEMMA ParalelNext == ParalelIInv /\ [Next]_vars => ParalelIInv'
<1> SUFFICES ASSUME ParalelIInv, [Next]_vars PROVE ParalelIInv'
    OBVIOUS
<1>1. TypeOK /\ TypeOK'
    BY TypeNext DEF ParalelIInv
<1>2. CASE UNCHANGED <<adim, talep, kayit>>
    BY <1>1, <1>2 DEF ParalelIInv, KayitAdimi, BekleyenAcik, OnaysizOnayYok
<1>3. ASSUME NEW t \in Talep, NEW u \in Kullanici,
             TalepOlustur(t, u) \/ (\E a \in Adim : Reddet(t, a, u)) \/ TalepIptal(t, u)
      PROVE  ParalelIInv'
    BY <1>1, <1>3, AcVeKapatKesin
<1>4. ASSUME NEW t \in Talep, NEW a \in Adim, NEW u \in Kullanici, Onayla(t, a, u)
      PROVE  ParalelIInv'
    BY <1>1, <1>4, OnaylaKesin
<1>5. ASSUME NEW p \in Admin, NEW a \in Adim, NEW d \in AdimTanimlari, AdimEkleYaz(p, a, d)
      PROVE  ParalelIInv'
    <2>1. adim[a] = Yok /\ UNCHANGED <<talep, kayit>> /\ \A b \in Adim \ {a} : adim'[b] = adim[b]
        BY <1>1, <1>5 DEF AdimEkleYaz, TypeOK
    <2>2. \A t \in Talep : kayit[t][a].durum = "yok"
        BY <2>1 DEF ParalelIInv, KayitAdimi
    <2> QED
        BY <1>1, <2>1, <2>2, AdimDegisirKesin
<1>6. ASSUME NEW a \in Adim, AdminAdimSil(a) PROVE ParalelIInv'
    <2>1. UNCHANGED <<talep, kayit>> /\ \A b \in Adim \ {a} : adim'[b] = adim[b]
        BY <1>1, <1>6 DEF AdminAdimSil, TypeOK
    <2>2. \A t \in Talep : kayit[t][a].durum = "yok"
        BY <1>6 DEF AdminAdimSil, Basvurulmus
    <2> QED
        BY <1>1, <2>1, <2>2, AdimDegisirKesin
<1> QED
    BY <1>2, <1>3, <1>4, <1>5, <1>6
    DEF Next, vars, YetkiDevriEkle, YetkiDevriIptal, AdminAkisEkle, AdimEkleOku, GunGec

LEMMA ParalelHer == Spec => []ParalelIInv
<1>1. Init => ParalelIInv
    <2> SUFFICES ASSUME Init PROVE ParalelIInv
        OBVIOUS
    <2>1. TypeOK
        BY TypeInit
    <2> QED
        BY <2>1 DEF Init, ParalelIInv, KayitAdimi, BekleyenAcik, OnaysizOnayYok, TalepYok, KayitYok
<1>2. ParalelIInv /\ [Next]_vars => ParalelIInv'
    BY ParalelNext
<1> QED
    BY <1>1, <1>2, PTL DEF Spec

\* An approved request has an approval at its last step, however many administrators
\* number steps at once and in whatever order the siblings are decided.
THEOREM OnayOnaysizDegil == Spec => []OnaysizOnayYok
<1>1. ParalelIInv => OnaysizOnayYok
    BY DEF ParalelIInv
<1> QED
    BY <1>1, ParalelHer, PTL

\* No handler overturns an approval or a withdrawal, however the flow was numbered.
THEOREM OnayVeIptalKalir == Spec => OnayVeIptalKesin
<1>1. ParalelIInv /\ [Next]_vars =>
        [\A t \in Talep : talep[t].durum \in {"onaylandi", "iptal"} =>
                             talep'[t].durum = talep[t].durum]_vars
    <2> SUFFICES ASSUME ParalelIInv, [Next]_vars, NEW t \in Talep,
                        talep[t].durum \in {"onaylandi", "iptal"}
                 PROVE  talep'[t] = talep[t]
        OBVIOUS
    <2>1. TypeOK /\ \A a \in Adim : kayit[t][a].durum # "bekliyor"
        BY DEF ParalelIInv, BekleyenAcik
    <2>2. \A s \in Talep, u \in Kullanici :
             TalepOlustur(s, u) \/ TalepIptal(s, u) => talep'[t] = talep[t]
        BY <2>1 DEF TalepOlustur, TalepIptal, TypeOK
    <2>3. \A s \in Talep, a \in Adim, u \in Kullanici :
             Onayla(s, a, u) \/ Reddet(s, a, u) => talep'[t] = talep[t]
        BY <2>1 DEF Onayla, Reddet, Islenebilir, TypeOK
    <2> QED
        BY <2>2, <2>3
        DEF Next, vars, YetkiDevriEkle, YetkiDevriIptal, AdminAkisEkle, AdimEkleOku, AdimEkleYaz,
            AdminAdimSil, GunGec
<1> QED
    BY <1>1, ParalelHer, PTL DEF Spec, OnayVeIptalKesin

-----------------------------------------------------------------------------
(* The engine implements OnaySozlesme.                                     *)

\* The abstract variables.
Durumlar == [t \in Talep |-> talep[t].durum]
Asamalar == [t \in Talep |-> talep[t].mevcut]
Onaylari(k) == {a \in Adim : k[a].durum = "onaylandi"}
Onaylar == [t \in Talep |-> Onaylari(kayit[t])]

\* A handler that decides about request t leaves the others' abstract state alone.
LEMMA DigerleriAyni ==
    ASSUME NEW t \in Talep, \A s \in Talep \ {t} : talep'[s] = talep[s] /\ kayit'[s] = kayit[s]
    PROVE  /\ Durumlar' = [Durumlar EXCEPT ![t] = talep'[t].durum]
           /\ Asamalar' = [Asamalar EXCEPT ![t] = talep'[t].mevcut]
           /\ Onaylar' = [Onaylar EXCEPT ![t] = Onaylari(kayit'[t])]
<1>1. Durumlar' = [Durumlar EXCEPT ![t] = talep'[t].durum]
    <2>1. Durumlar' = [s \in Talep |-> talep'[s].durum]
        BY DEF Durumlar
    <2>2. [Durumlar EXCEPT ![t] = talep'[t].durum] =
             [s \in Talep |-> IF s = t THEN talep'[t].durum ELSE talep[s].durum]
        BY DEF Durumlar
    <2>3. \A s \in Talep : talep'[s].durum = IF s = t THEN talep'[t].durum ELSE talep[s].durum
        OBVIOUS
    <2> QED
        BY <2>1, <2>2, <2>3
<1>2. Asamalar' = [Asamalar EXCEPT ![t] = talep'[t].mevcut]
    <2>1. Asamalar' = [s \in Talep |-> talep'[s].mevcut]
        BY DEF Asamalar
    <2>2. [Asamalar EXCEPT ![t] = talep'[t].mevcut] =
             [s \in Talep |-> IF s = t THEN talep'[t].mevcut ELSE talep[s].mevcut]
        BY DEF Asamalar
    <2>3. \A s \in Talep : talep'[s].mevcut = IF s = t THEN talep'[t].mevcut ELSE talep[s].mevcut
        OBVIOUS
    <2> QED
        BY <2>1, <2>2, <2>3
<1>3. Onaylar' = [Onaylar EXCEPT ![t] = Onaylari(kayit'[t])]
    <2>1. Onaylar' = [s \in Talep |-> Onaylari(kayit'[s])]
        BY DEF Onaylar, Onaylari
    <2>2. [Onaylar EXCEPT ![t] = Onaylari(kayit'[t])] =
             [s \in Talep |-> IF s = t THEN Onaylari(kayit'[t]) ELSE Onaylari(kayit[s])]
        BY DEF Onaylar
    <2>3. \A s \in Talep : Onaylari(kayit'[s]) = IF s = t THEN Onaylari(kayit'[t]) ELSE Onaylari(kayit[s])
        OBVIOUS
    <2> QED
        BY <2>1, <2>2, <2>3
<1> QED
    BY <1>1, <1>2, <1>3

\* talep_olustur opens the request.
LEMMA OlusturAcar ==
    ASSUME IInv, NEW t \in Talep, NEW u \in Kullanici, TalepOlustur(t, u)
    PROVE  Sozlesme!Ac(t)
<1>0. PICK f \in Akis : \E k \in AdimKayitlariOlustur(f, 1, kayit[t]) :
        /\ kayit' = [kayit EXCEPT ![t] = k]
        /\ talep' = [talep EXCEPT ![t] =
             [durum |-> "bekliyor", mevcut |-> 1, akis |-> f, eden |-> u]]
    BY DEF TalepOlustur
<1>1. PICK k \in AdimKayitlariOlustur(f, 1, kayit[t]) :
        /\ kayit' = [kayit EXCEPT ![t] = k]
        /\ talep' = [talep EXCEPT ![t] =
             [durum |-> "bekliyor", mevcut |-> 1, akis |-> f, eden |-> u]]
    BY <1>0
<1>2. TypeOK /\ talep[t].durum = "yok" /\ talep[t].mevcut = 1
    BY DEF TalepOlustur, IInv, KayitAdimi
<1>3. \A a \in Adim : kayit[t][a].durum = "yok"
    BY <1>2 DEF IInv, KayitAdimi
<1>4. \A a \in Adim : k[a].durum # "onaylandi"
    <2>1. \A a \in Adim : a \notin SiradakiAdimlar(f, 1) => k[a].durum = "yok"
        BY <1>2, <1>3, OlusturSonuc DEF TypeOK
    <2>2. \A a \in SiradakiAdimlar(f, 1) : k[a].durum \in {"yok", "bekliyor"}
        BY <1>2, OlusturSonuc DEF TypeOK
    <2> QED
        BY <2>1, <2>2
<1>5. Onaylari(k) = Onaylari(kayit[t])
    BY <1>3, <1>4 DEF Onaylari
<1>6. /\ Durumlar' = [Durumlar EXCEPT ![t] = "bekliyor"]
      /\ Asamalar' = [Asamalar EXCEPT ![t] = 1]
      /\ Onaylar' = [Onaylar EXCEPT ![t] = Onaylari(kayit[t])]
    <2>1. /\ talep'[t].durum = "bekliyor" /\ talep'[t].mevcut = 1 /\ kayit'[t] = k
          /\ \A s \in Talep \ {t} : talep'[s] = talep[s] /\ kayit'[s] = kayit[s]
        BY <1>1, <1>2 DEF TypeOK
    <2> QED
        BY <1>5, <2>1, DigerleriAyni
<1>7. Asamalar' = Asamalar /\ Onaylar' = Onaylar
    BY <1>2, <1>6 DEF Asamalar, Onaylar
<1> QED
    BY <1>2, <1>6, <1>7 DEF Sozlesme!Ac, Durumlar, Asamalar, Onaylar, Onaylari

\* reddet and talep_iptal close it.
LEMMA KapatmaKapatir ==
    ASSUME IInv, NEW t \in Talep, NEW u \in Kullanici, NEW sonuc,
           \/ (\E a \in Adim : Reddet(t, a, u)) /\ sonuc = "reddedildi"
           \/ TalepIptal(t, u) /\ sonuc = "iptal"
    PROVE  Sozlesme!Kapat(t, sonuc)
<1>1. TypeOK /\ talep[t] \in TalepSatiri /\ kayit[t] \in [Adim -> KayitSatiri] /\ talep[t].durum = "bekliyor"
    BY DEF IInv, BekleyenKayitGuncel, Reddet, Islenebilir, TalepIptal, TypeOK
<1>2. talep' = [talep EXCEPT ![t] = [talep[t] EXCEPT !.durum = sonuc]]
    BY <1>1 DEF Reddet, TalepIptal
<1>3. [talep[t] EXCEPT !.durum = sonuc].durum = sonuc
      /\ [talep[t] EXCEPT !.durum = sonuc].mevcut = talep[t].mevcut
    BY <1>1 DEF TalepSatiri
<1>4. PICK k : kayit' = [kayit EXCEPT ![t] = k] /\ Onaylari(k) = Onaylari(kayit[t])
    <2>1. ASSUME NEW a \in Adim, Reddet(t, a, u)
          PROVE  \E k : kayit' = [kayit EXCEPT ![t] = k] /\ Onaylari(k) = Onaylari(kayit[t])
        <3> DEFINE y == [kayit[t] EXCEPT ![a] = [kayit[t][a] EXCEPT !.durum = "reddedildi"]]
        <3>1. kayit' = [kayit EXCEPT ![t] = y]
            BY <2>1 DEF Reddet
        <3>2. kayit[t][a].durum = "bekliyor"
            BY <2>1 DEF Reddet, Islenebilir
        <3>3. y[a].durum = "reddedildi" /\ \A b \in Adim \ {a} : y[b] = kayit[t][b]
            BY <1>1 DEF KayitSatiri
        <3>4. Onaylari(y) = Onaylari(kayit[t])
            <4> HIDE DEF y
            <4> QED
                BY <3>2, <3>3 DEF Onaylari
        <3> QED
            BY <3>1, <3>4
    <2>2. CASE TalepIptal(t, u)
        <3>1. kayit' = [kayit EXCEPT ![t] = BekleyenleriAtla(kayit[t], Adim)]
            BY <2>2 DEF TalepIptal
        <3>2. Onaylari(BekleyenleriAtla(kayit[t], Adim)) = Onaylari(kayit[t])
            BY <1>1, AtlaSonuc DEF Onaylari
        <3> QED
            BY <3>1, <3>2
    <2> QED
        BY <2>1, <2>2
<1>5. /\ Durumlar' = [Durumlar EXCEPT ![t] = sonuc]
      /\ Asamalar' = [Asamalar EXCEPT ![t] = talep[t].mevcut]
      /\ Onaylar' = [Onaylar EXCEPT ![t] = Onaylari(kayit[t])]
    <2>1. /\ talep'[t].durum = sonuc /\ talep'[t].mevcut = talep[t].mevcut /\ kayit'[t] = k
          /\ \A s \in Talep \ {t} : talep'[s] = talep[s] /\ kayit'[s] = kayit[s]
        BY <1>1, <1>2, <1>3, <1>4 DEF TypeOK
    <2> QED
        BY <1>4, <2>1, DigerleriAyni
<1>6. Asamalar' = Asamalar /\ Onaylar' = Onaylar
    BY <1>5 DEF Asamalar, Onaylar
<1> QED
    BY <1>1, <1>5, <1>6 DEF Sozlesme!Kapat, Durumlar, Asamalar, Onaylar, Onaylari

\* onayla adds one approval and moves the request on or approves it.
LEMMA OnaylaIlerletir ==
    ASSUME IInv, NEW t \in Talep, NEW a \in Adim, NEW u \in Kullanici, Onayla(t, a, u)
    PROVE  Sozlesme!AdimGec(t, a) \/ Sozlesme!SonOnay(t, a)
<1>1. /\ TypeOK /\ talep[t] \in TalepSatiri
      /\ kayit[t][a].durum = "bekliyor" /\ talep[t].durum = "bekliyor"
    BY DEF IInv, BekleyenKayitGuncel, Onayla, Islenebilir, TypeOK
<1>2. PICK y \in [Adim -> KayitSatiri] :
             /\ kayit' = [kayit EXCEPT ![t] = y]
             /\ y[a].durum = "onaylandi"
             /\ \/ \E n \in 1..MaxSira :
                     /\ SonrakiSira(talep[t].akis, talep[t].mevcut, n)
                     /\ talep' = [talep EXCEPT ![t] = [talep[t] EXCEPT !.mevcut = n]]
                     /\ \A b \in SiradakiAdimlar(talep[t].akis, n) :
                           y[b].durum \in {"yok", "bekliyor"} /\ kayit[t][b].durum = "yok"
                     /\ \A b \in Adim :
                           b # a /\ b \notin SiradakiAdimlar(talep[t].akis, n) => y[b] = kayit[t][b]
                \/ /\ ~\E n \in 1..MaxSira : SonrakiSira(talep[t].akis, talep[t].mevcut, n)
                   /\ talep' = [talep EXCEPT ![t] = [talep[t] EXCEPT !.durum = "onaylandi"]]
                   /\ \A b \in Adim : b # a => y[b] = kayit[t][b]
    BY OnaylaEtki
<1>3. a \notin Onaylar[t]
    BY <1>1 DEF Onaylar, Onaylari
<1>4. CASE \E n \in 1..MaxSira :
             /\ SonrakiSira(talep[t].akis, talep[t].mevcut, n)
             /\ talep' = [talep EXCEPT ![t] = [talep[t] EXCEPT !.mevcut = n]]
             /\ \A b \in SiradakiAdimlar(talep[t].akis, n) :
                   y[b].durum \in {"yok", "bekliyor"} /\ kayit[t][b].durum = "yok"
             /\ \A b \in Adim :
                   b # a /\ b \notin SiradakiAdimlar(talep[t].akis, n) => y[b] = kayit[t][b]
    <2>1. PICK n \in 1..MaxSira :
             /\ SonrakiSira(talep[t].akis, talep[t].mevcut, n)
             /\ talep' = [talep EXCEPT ![t] = [talep[t] EXCEPT !.mevcut = n]]
             /\ \A b \in SiradakiAdimlar(talep[t].akis, n) :
                   y[b].durum \in {"yok", "bekliyor"} /\ kayit[t][b].durum = "yok"
             /\ \A b \in Adim :
                   b # a /\ b \notin SiradakiAdimlar(talep[t].akis, n) => y[b] = kayit[t][b]
        BY <1>4
    <2>2. [talep[t] EXCEPT !.mevcut = n].durum = talep[t].durum
          /\ [talep[t] EXCEPT !.mevcut = n].mevcut = n
        BY <1>1 DEF TalepSatiri
    <2>3. Onaylari(y) = Onaylari(kayit[t]) \cup {a}
        BY <1>2, <2>1 DEF Onaylari
    <2>4. /\ Durumlar' = [Durumlar EXCEPT ![t] = talep[t].durum]
          /\ Asamalar' = [Asamalar EXCEPT ![t] = n]
          /\ Onaylar' = [Onaylar EXCEPT ![t] = Onaylari(kayit[t]) \cup {a}]
        <3>1. /\ talep'[t].durum = talep[t].durum /\ talep'[t].mevcut = n /\ kayit'[t] = y
              /\ \A s \in Talep \ {t} : talep'[s] = talep[s] /\ kayit'[s] = kayit[s]
            BY <1>1, <1>2, <2>1, <2>2 DEF TypeOK
        <3> QED
            BY <2>3, <3>1, DigerleriAyni
    <2>5. Durumlar' = Durumlar
        BY <2>4 DEF Durumlar
    <2>6. Onaylar' = [Onaylar EXCEPT ![t] = @ \cup {a}]
        BY <2>4 DEF Onaylar
    <2>7. Asamalar'[t] > Asamalar[t] /\ \A s \in Talep \ {t} : Asamalar'[s] = Asamalar[s]
        BY <2>1, <2>4 DEF Asamalar, SonrakiSira
    <2>8. Durumlar[t] = "bekliyor"
        BY <1>1 DEF Durumlar
    <2> QED
        BY <1>3, <2>5, <2>6, <2>7, <2>8 DEF Sozlesme!AdimGec, Durumlar, Asamalar, Onaylar, Onaylari
<1>5. CASE /\ talep' = [talep EXCEPT ![t] = [talep[t] EXCEPT !.durum = "onaylandi"]]
           /\ \A b \in Adim : b # a => y[b] = kayit[t][b]
    <2>1. [talep[t] EXCEPT !.durum = "onaylandi"].durum = "onaylandi"
          /\ [talep[t] EXCEPT !.durum = "onaylandi"].mevcut = talep[t].mevcut
        BY <1>1 DEF TalepSatiri
    <2>2. Onaylari(y) = Onaylari(kayit[t]) \cup {a}
        BY <1>2, <1>5 DEF Onaylari
    <2>3. /\ Durumlar' = [Durumlar EXCEPT ![t] = "onaylandi"]
          /\ Asamalar' = [Asamalar EXCEPT ![t] = talep[t].mevcut]
          /\ Onaylar' = [Onaylar EXCEPT ![t] = Onaylari(kayit[t]) \cup {a}]
        <3>1. /\ talep'[t].durum = "onaylandi" /\ talep'[t].mevcut = talep[t].mevcut /\ kayit'[t] = y
              /\ \A s \in Talep \ {t} : talep'[s] = talep[s] /\ kayit'[s] = kayit[s]
            BY <1>1, <1>2, <1>5, <2>1 DEF TypeOK
        <3> QED
            BY <2>2, <3>1, DigerleriAyni
    <2>4. Asamalar' = Asamalar
        BY <2>3 DEF Asamalar
    <2>5. Onaylar' = [Onaylar EXCEPT ![t] = @ \cup {a}]
        BY <2>3 DEF Onaylar
    <2>6. Durumlar[t] = "bekliyor"
        BY <1>1 DEF Durumlar
    <2> QED
        BY <1>3, <2>3, <2>4, <2>5, <2>6 DEF Sozlesme!SonOnay, Durumlar, Asamalar, Onaylar, Onaylari
<1> QED
    BY <1>2, <1>4, <1>5

\* Every handler is a step of the abstract life cycle or none.
THEOREM SozlesmeyiUygular == ASSUME TekAdmin PROVE Spec => SozlesmeSpec
<1>1. Init => Sozlesme!Init
    BY DEF Init, Sozlesme!Init, TalepYok, KayitYok
<1>2. IInv /\ [Next]_vars => [Sozlesme!Next]_(Sozlesme!degiskenler)
    <2> SUFFICES ASSUME IInv, [Next]_vars
                 PROVE  Sozlesme!Next \/ UNCHANGED <<talep, kayit>>
        BY DEF Sozlesme!degiskenler
    <2>1. ASSUME NEW t \in Talep, NEW u \in Kullanici, TalepOlustur(t, u) PROVE Sozlesme!Next
        BY <2>1, OlusturAcar DEF Sozlesme!Next
    <2>2. ASSUME NEW t \in Talep, NEW a \in Adim, NEW u \in Kullanici, Onayla(t, a, u)
          PROVE  Sozlesme!Next
        BY <2>2, OnaylaIlerletir DEF Sozlesme!Next
    <2>3. ASSUME NEW t \in Talep, NEW a \in Adim, NEW u \in Kullanici, Reddet(t, a, u)
          PROVE  Sozlesme!Next
        BY <2>3, KapatmaKapatir DEF Sozlesme!Next
    <2>4. ASSUME NEW t \in Talep, NEW u \in Kullanici, TalepIptal(t, u) PROVE Sozlesme!Next
        BY <2>4, KapatmaKapatir DEF Sozlesme!Next
    <2> QED
        BY <2>1, <2>2, <2>3, <2>4
        DEF Next, vars, YetkiDevriEkle, YetkiDevriIptal, AdminAkisEkle, AdimEkleOku, AdimEkleYaz,
            AdminAdimSil, GunGec
<1> QED
    BY <1>1, <1>2, IInvHer, PTL DEF Spec, SozlesmeSpec, Sozlesme!Spec
=============================================================================
