---------------------------- MODULE ZimmetKanit -----------------------------
(***************************************************************************)
(* Proofs about Zimmet: the row of an item follows from its history        *)
(* however many handlers overlap, and the history is a chain of hand-overs *)
(* when they do not.                                                       *)
(***************************************************************************)
EXTENDS Zimmet, SequenceTheorems, TLAPS

-----------------------------------------------------------------------------
(* The inductive invariant.                                                *)

\* A handler in flight runs on a thread in service and has read an item that
\* exists; a transfer knows the employee it hands the item to.
IstekTuru ==
    \A i \in Istekler : istek[i].is # "bos" =>
        /\ i \in isci
        /\ istek[i].zimmet \in Zimmetler
        /\ zimmet[istek[i].zimmet] # Yok
        /\ istek[i].calisan \in Calisanlar
        /\ istek[i].is = "transfer" => istek[i].hedef \in Calisanlar

\* The holder a handler has read had received the item.
KopyaAlmis ==
    \A i \in Istekler : istek[i].is # "bos" =>
        \E k \in DOMAIN defter[istek[i].zimmet] :
            defter[istek[i].zimmet][k].yeni = istek[i].calisan

\* With one thread, what a handler has read is what the row holds, and a return
\* or a transfer was admitted by it.
KopyaGuncel ==
    Sirali => \A i \in Istekler : istek[i].is # "bos" =>
        /\ istek[i].calisan = zimmet[istek[i].zimmet].calisan
        /\ istek[i].durum = zimmet[istek[i].zimmet].durum
        /\ istek[i].is \in {"iade", "transfer"} => istek[i].durum = "teslim_edildi"

\* What holds however handlers overlap.
HerZaman == TypeOK /\ IstekTuru /\ SahipDefterden /\ KopyaAlmis /\ VerenAlmisti

\* What holds of one thread as well.
TekTek == KopyaGuncel /\ ZincirKopmaz /\ DurumDefterden /\ KapananZimmet

-----------------------------------------------------------------------------
(* Histories that grow by one entry.                                       *)

\* What an entry adds to the end of a history leaves the part before it alone.
LEMMA SonAlanOnce ==
    ASSUME NEW d \in Seq(DefterSatiri), NEW e \in DefterSatiri, NEW c,
           NEW n \in 0..Len(d)
    PROVE  SonAlan(Append(d, e), n, c) <=> SonAlan(d, n, c)
<1>1. \A k \in 1..n : Append(d, e)[k] = d[k]
    OBVIOUS
<1>2. \A k \in 1..n : \A j \in (k + 1)..n : j \in 1..n
    OBVIOUS
<1> QED BY <1>1, <1>2 DEF SonAlan

\* The receiver named by the new entry is the last one.
LEMMA SonAlanYeni ==
    ASSUME NEW d \in Seq(DefterSatiri), NEW e \in DefterSatiri
    PROVE  SonAlan(Append(d, e), Len(d) + 1, e.yeni)
<1>1. Append(d, e)[Len(d) + 1] = e
    OBVIOUS
<1>2. \A j \in (Len(d) + 1 + 1)..(Len(d) + 1) : FALSE
    OBVIOUS
<1>3. Len(d) + 1 \in 1..(Len(d) + 1)
    OBVIOUS
<1> QED BY <1>1, <1>2, <1>3 DEF SonAlan

\* An entry without receiver leaves the last receiver as it was.
LEMMA SonAlanAyni ==
    ASSUME NEW d \in Seq(DefterSatiri), NEW e \in DefterSatiri, NEW c,
           e.yeni = Yok, SonAlan(d, Len(d), c)
    PROVE  SonAlan(Append(d, e), Len(d) + 1, c)
<1>1. PICK k \in 1..Len(d) : d[k].yeni = c /\ \A j \in (k + 1)..Len(d) : d[j].yeni = Yok
    BY DEF SonAlan
<1>2. k \in 1..(Len(d) + 1) /\ Append(d, e)[k] = d[k]
    OBVIOUS
<1>3. ASSUME NEW j \in (k + 1)..(Len(d) + 1)
      PROVE  Append(d, e)[j].yeni = Yok
  <2>1. CASE j = Len(d) + 1
    BY <2>1
  <2>2. CASE j # Len(d) + 1
    <3>1. j \in (k + 1)..Len(d) /\ j \in 1..Len(d)
        BY <2>2, <1>3
    <3>2. Append(d, e)[j] = d[j]
        BY <3>1
    <3> QED BY <3>1, <3>2, <1>1
  <2> QED BY <2>1, <2>2
<1> QED BY <1>1, <1>2, <1>3 DEF SonAlan

\* The same three facts about the state a history ends in.
LEMMA SonDurumOnce ==
    ASSUME NEW d \in Seq(DefterSatiri), NEW e \in DefterSatiri, NEW s,
           NEW n \in 0..Len(d)
    PROVE  SonDurum(Append(d, e), n, s) <=> SonDurum(d, n, s)
<1>1. \A k \in 1..n : Append(d, e)[k] = d[k]
    OBVIOUS
<1>2. \A k \in 1..n : \A j \in (k + 1)..n : j \in 1..n
    OBVIOUS
<1> QED BY <1>1, <1>2 DEF SonDurum

\* An entry other than a transfer decides the state.
LEMMA SonDurumYeni ==
    ASSUME NEW d \in Seq(DefterSatiri), NEW e \in DefterSatiri, e.islem # "transfer"
    PROVE  SonDurum(Append(d, e), Len(d) + 1, Sonuc[e.islem])
<1>1. Append(d, e)[Len(d) + 1] = e
    OBVIOUS
<1>2. \A j \in (Len(d) + 1 + 1)..(Len(d) + 1) : FALSE
    OBVIOUS
<1>3. Len(d) + 1 \in 1..(Len(d) + 1)
    OBVIOUS
<1> QED BY <1>1, <1>2, <1>3 DEF SonDurum

\* A transfer leaves the state as it was.
LEMMA SonDurumAyni ==
    ASSUME NEW d \in Seq(DefterSatiri), NEW e \in DefterSatiri, NEW s,
           e.islem = "transfer", SonDurum(d, Len(d), s)
    PROVE  SonDurum(Append(d, e), Len(d) + 1, s)
<1>1. PICK k \in 1..Len(d) :
          /\ d[k].islem # "transfer"
          /\ s = Sonuc[d[k].islem]
          /\ \A j \in (k + 1)..Len(d) : d[j].islem = "transfer"
    BY DEF SonDurum
<1>2. k \in 1..(Len(d) + 1) /\ Append(d, e)[k] = d[k]
    OBVIOUS
<1>3. ASSUME NEW j \in (k + 1)..(Len(d) + 1)
      PROVE  Append(d, e)[j].islem = "transfer"
  <2>1. CASE j = Len(d) + 1
    BY <2>1
  <2>2. CASE j # Len(d) + 1
    <3>1. j \in (k + 1)..Len(d) /\ j \in 1..Len(d)
        BY <2>2, <1>3
    <3>2. Append(d, e)[j] = d[j]
        BY <3>1
    <3> QED BY <3>1, <3>2, <1>1
  <2> QED BY <2>1, <2>2
<1> QED BY <1>1, <1>2, <1>3 DEF SonDurum


-----------------------------------------------------------------------------
(* A step that writes item z and enters e in its history.                  *)

\* Such a step grows one history and changes one row.
Hareket(z, e) ==
    /\ defter' = [defter EXCEPT ![z] = Append(@, e)]
    /\ zimmet' \in [Zimmetler -> ZimmetSatiri \cup {Yok}]
    /\ \A y \in Zimmetler \ {z} : zimmet'[y] = zimmet[y]
    /\ zimmet'[z] # Yok

\* The histories after it, entry by entry.
LEMMA HareketDefteri ==
    ASSUME TypeOK, NEW z \in Zimmetler, NEW e \in DefterSatiri, Hareket(z, e)
    PROVE  /\ defter' \in [Zimmetler -> Seq(DefterSatiri)]
           /\ defter'[z] = Append(defter[z], e)
           /\ Len(defter'[z]) = Len(defter[z]) + 1
           /\ DOMAIN defter'[z] = 1..(Len(defter[z]) + 1)
           /\ defter'[z][Len(defter[z]) + 1] = e
           /\ \A k \in DOMAIN defter[z] : k \in 1..Len(defter[z]) /\ defter'[z][k] = defter[z][k]
           /\ \A y \in Zimmetler \ {z} : defter'[y] = defter[y]
<1>1. defter \in [Zimmetler -> Seq(DefterSatiri)] /\ defter[z] \in Seq(DefterSatiri)
    BY DEF TypeOK
<1>2. Append(defter[z], e) \in Seq(DefterSatiri)
    BY <1>1
<1>3. defter' = [defter EXCEPT ![z] = Append(defter[z], e)]
    BY DEF Hareket
<1>4. defter'[z] = Append(defter[z], e) /\ \A y \in Zimmetler \ {z} : defter'[y] = defter[y]
    BY <1>1, <1>3
<1>5. defter' \in [Zimmetler -> Seq(DefterSatiri)]
    BY <1>1, <1>2, <1>3
<1> QED
    BY <1>1, <1>4, <1>5

\* Whoever had received an item has received it after the step.
LEMMA AlanKalir ==
    ASSUME TypeOK, NEW z \in Zimmetler, NEW e \in DefterSatiri, Hareket(z, e),
           NEW y \in Zimmetler, NEW k \in DOMAIN defter[y]
    PROVE  k \in DOMAIN defter'[y] /\ defter'[y][k] = defter[y][k]
<1>1. CASE y = z
    BY <1>1, HareketDefteri
<1>2. CASE y # z
    BY <1>2, HareketDefteri
<1> QED BY <1>1, <1>2

\* The row keeps following from the history when the entry names the holder the
\* row gets, or names none and the row keeps its holder.
LEMMA SahipAdimi ==
    ASSUME TypeOK, SahipDefterden,
           NEW z \in Zimmetler, NEW e \in DefterSatiri, Hareket(z, e),
           \/ e.yeni # Yok /\ zimmet'[z].calisan = e.yeni
           \/ e.yeni = Yok /\ zimmet[z] # Yok /\ zimmet'[z].calisan = zimmet[z].calisan
    PROVE  SahipDefterden'
<1> SUFFICES ASSUME NEW y \in Zimmetler, zimmet'[y] # Yok
             PROVE  SonAlan(defter'[y], Len(defter'[y]), zimmet'[y].calisan)
    BY DEF SahipDefterden
<1>1. CASE y # z
    BY <1>1, HareketDefteri DEF Hareket, SahipDefterden
<1>2. CASE y = z
  <2>1. defter[z] \in Seq(DefterSatiri)
      BY DEF TypeOK
  <2>2. defter'[z] = Append(defter[z], e) /\ Len(defter'[z]) = Len(defter[z]) + 1
      BY HareketDefteri
  <2>3. CASE e.yeni # Yok /\ zimmet'[z].calisan = e.yeni
      BY <2>1, <2>2, <2>3, <1>2, SonAlanYeni
  <2>4. CASE e.yeni = Yok /\ zimmet[z] # Yok /\ zimmet'[z].calisan = zimmet[z].calisan
    <3>1. SonAlan(defter[z], Len(defter[z]), zimmet[z].calisan)
        BY <2>4 DEF SahipDefterden
    <3> QED BY <3>1, <2>1, <2>2, <2>4, <1>2, SonAlanAyni
  <2> QED BY <2>3, <2>4
<1> QED BY <1>1, <1>2

\* Givers keep being former receivers when the entry names one.
LEMMA VerenAdimi ==
    ASSUME TypeOK, VerenAlmisti,
           NEW z \in Zimmetler, NEW e \in DefterSatiri, Hareket(z, e),
           e.eski # Yok => \E k \in DOMAIN defter[z] : defter[z][k].yeni = e.eski
    PROVE  VerenAlmisti'
<1> SUFFICES ASSUME NEW y \in Zimmetler, NEW k \in DOMAIN defter'[y],
                    defter'[y][k].eski # Yok
             PROVE  \E j \in 1..(k - 1) : defter'[y][j].yeni = defter'[y][k].eski
    BY DEF VerenAlmisti
<1>1. CASE y # z
  <2>1. defter'[y] = defter[y]
      BY <1>1, HareketDefteri
  <2> QED BY <2>1 DEF VerenAlmisti
<1>2. CASE y = z
  <2>1. Len(defter[z]) \in Nat /\ DOMAIN defter[z] = 1..Len(defter[z])
      BY DEF TypeOK
  <2>2. CASE k = Len(defter[z]) + 1
    <3>1. PICK j \in DOMAIN defter[z] : defter[z][j].yeni = e.eski
        BY <2>2, <1>2, HareketDefteri
    <3>2. defter'[z][j] = defter[z][j] /\ defter'[z][k] = e
        BY <2>2, HareketDefteri
    <3>3. j \in 1..(k - 1)
        BY <2>1, <2>2
    <3> QED BY <3>1, <3>2, <3>3, <1>2
  <2>3. CASE k # Len(defter[z]) + 1
    <3>1. k \in DOMAIN defter[z] /\ defter'[z][k] = defter[z][k]
        BY <2>1, <2>3, <1>2, HareketDefteri
    <3>2. PICK j \in 1..(k - 1) : defter[z][j].yeni = defter[z][k].eski
        BY <3>1, <1>2 DEF VerenAlmisti
    <3>3. j \in DOMAIN defter[z]
        BY <2>1, <3>1
    <3>4. defter'[z][j] = defter[z][j]
        BY <3>3, HareketDefteri
    <3> QED BY <3>1, <3>2, <3>4, <1>2
  <2> QED BY <2>2, <2>3
<1> QED BY <1>1, <1>2

\* The chain grows when the entry takes the item from its last receiver.
LEMMA ZincirAdimi ==
    ASSUME TypeOK, ZincirKopmaz, isci' = isci,
           NEW z \in Zimmetler, NEW e \in DefterSatiri, Hareket(z, e),
           Sirali => (e.eski # Yok => SonAlan(defter[z], Len(defter[z]), e.eski))
    PROVE  ZincirKopmaz'
<1> SUFFICES ASSUME Sirali, NEW y \in Zimmetler, NEW k \in DOMAIN defter'[y],
                    defter'[y][k].eski # Yok
             PROVE  SonAlan(defter'[y], k - 1, defter'[y][k].eski)
    BY DEF ZincirKopmaz, Sirali
<1>1. CASE y # z
    BY <1>1, HareketDefteri DEF ZincirKopmaz
<1>2. CASE y = z
  <2>1. /\ defter[z] \in Seq(DefterSatiri)
        /\ Len(defter[z]) \in Nat /\ DOMAIN defter[z] = 1..Len(defter[z])
        /\ defter'[z] = Append(defter[z], e)
      BY HareketDefteri DEF TypeOK
  <2>2. k \in 1..(Len(defter[z]) + 1) /\ k - 1 \in 0..Len(defter[z])
      BY <1>2, <2>1, HareketDefteri
  <2>3. SonAlan(defter[z], k - 1, defter'[z][k].eski)
    <3>1. CASE k = Len(defter[z]) + 1
      <4>1. defter'[z][k] = e /\ k - 1 = Len(defter[z])
          BY <2>1, <3>1, HareketDefteri
      <4> QED BY <4>1, <1>2
    <3>2. CASE k # Len(defter[z]) + 1
      <4>1. k \in DOMAIN defter[z] /\ defter'[z][k] = defter[z][k]
          BY <2>1, <2>2, <3>2, HareketDefteri
      <4> QED BY <4>1, <1>2 DEF ZincirKopmaz
    <3> QED BY <3>1, <3>2
  <2>4. \A c : SonAlan(Append(defter[z], e), k - 1, c) <=> SonAlan(defter[z], k - 1, c)
      BY <2>1, <2>2, SonAlanOnce
  <2> QED BY <2>1, <2>3, <2>4, <1>2
<1> QED BY <1>1, <1>2

\* The history keeps ending in the row's state when the entry decides it, or is
\* a transfer and the row keeps its state.
LEMMA DurumAdimi ==
    ASSUME TypeOK, DurumDefterden, isci' = isci,
           NEW z \in Zimmetler, NEW e \in DefterSatiri, Hareket(z, e),
           Sirali =>
               \/ e.islem # "transfer" /\ zimmet'[z].durum = Sonuc[e.islem]
               \/ /\ e.islem = "transfer"
                  /\ zimmet[z] # Yok
                  /\ zimmet'[z].durum = zimmet[z].durum
    PROVE  DurumDefterden'
<1> SUFFICES ASSUME Sirali, NEW y \in Zimmetler, zimmet'[y] # Yok
             PROVE  SonDurum(defter'[y], Len(defter'[y]), zimmet'[y].durum)
    BY DEF DurumDefterden, Sirali
<1>1. CASE y # z
    BY <1>1, HareketDefteri DEF Hareket, DurumDefterden
<1>2. CASE y = z
  <2>1. defter[z] \in Seq(DefterSatiri)
      BY DEF TypeOK
  <2>2. defter'[z] = Append(defter[z], e) /\ Len(defter'[z]) = Len(defter[z]) + 1
      BY HareketDefteri
  <2>3. CASE e.islem # "transfer" /\ zimmet'[z].durum = Sonuc[e.islem]
      BY <2>1, <2>2, <2>3, <1>2, SonDurumYeni
  <2>4. CASE /\ e.islem = "transfer"
             /\ zimmet[z] # Yok
             /\ zimmet'[z].durum = zimmet[z].durum
    <3>1. SonDurum(defter[z], Len(defter[z]), zimmet[z].durum)
        BY <2>4 DEF DurumDefterden
    <3> QED BY <3>1, <2>1, <2>2, <2>4, <1>2, SonDurumAyni
  <2> QED BY <2>3, <2>4
<1> QED BY <1>1, <1>2

\* A closed history stays closed when returns and transfers are entered only
\* where the item is handed out.
LEMMA KapananAdimi ==
    ASSUME TypeOK, KapananZimmet, isci' = isci,
           NEW z \in Zimmetler, NEW e \in DefterSatiri, Hareket(z, e),
           Sirali => (e.islem \in {"iade", "transfer"} =>
                         SonDurum(defter[z], Len(defter[z]), "teslim_edildi"))
    PROVE  KapananZimmet'
<1> SUFFICES ASSUME Sirali, NEW y \in Zimmetler, NEW k \in DOMAIN defter'[y],
                    defter'[y][k].islem \in {"iade", "transfer"}
             PROVE  SonDurum(defter'[y], k - 1, "teslim_edildi")
    BY DEF KapananZimmet, Sirali
<1>1. CASE y # z
    BY <1>1, HareketDefteri DEF KapananZimmet
<1>2. CASE y = z
  <2>1. /\ defter[z] \in Seq(DefterSatiri)
        /\ Len(defter[z]) \in Nat /\ DOMAIN defter[z] = 1..Len(defter[z])
        /\ defter'[z] = Append(defter[z], e)
      BY HareketDefteri DEF TypeOK
  <2>2. k \in 1..(Len(defter[z]) + 1) /\ k - 1 \in 0..Len(defter[z])
      BY <1>2, <2>1, HareketDefteri
  <2>3. SonDurum(defter[z], k - 1, "teslim_edildi")
    <3>1. CASE k = Len(defter[z]) + 1
      <4>1. defter'[z][k] = e /\ k - 1 = Len(defter[z])
          BY <2>1, <3>1, HareketDefteri
      <4> QED BY <4>1, <1>2
    <3>2. CASE k # Len(defter[z]) + 1
      <4>1. k \in DOMAIN defter[z] /\ defter'[z][k] = defter[z][k]
          BY <2>1, <2>2, <3>2, HareketDefteri
      <4> QED BY <4>1, <1>2 DEF KapananZimmet
    <3> QED BY <3>1, <3>2
  <2>4. SonDurum(Append(defter[z], e), k - 1, "teslim_edildi")
            <=> SonDurum(defter[z], k - 1, "teslim_edildi")
      BY <2>1, <2>2, SonDurumOnce
  <2> QED BY <2>1, <2>3, <2>4, <1>2
<1> QED BY <1>1, <1>2

-----------------------------------------------------------------------------
(* The invariant is inductive.                                             *)

\* The first state satisfies the invariant.
LEMMA Baslangic == Init => HerZaman /\ TekTek
<1> SUFFICES ASSUME Init PROVE HerZaman /\ TekTek
    OBVIOUS
<1>1. \A z \in Zimmetler : zimmet[z] = Yok /\ defter[z] = << >>
    BY DEF Init
<1>2. \A i \in Istekler : istek[i].is = "bos"
    BY DEF Init, Bos
<1>3. TypeOK
    BY DEF Init, TypeOK, Bos, IstekSatiri, ZimmetDurumu
<1>4. ASSUME NEW z \in Zimmetler
      PROVE  DOMAIN defter[z] = {}
  <2>1. defter[z] = << >> /\ defter[z] \in Seq(DefterSatiri)
      BY <1>1, <1>3 DEF TypeOK
  <2>2. Len(defter[z]) = 0
      BY <2>1
  <2>3. DOMAIN defter[z] = 1..0
      BY <2>1, <2>2, LenProperties
  <2> QED BY <2>3
<1> QED
    BY <1>1, <1>2, <1>3, <1>4
    DEF HerZaman, TekTek, IstekTuru, KopyaAlmis, KopyaGuncel, SahipDefterden, VerenAlmisti,
        ZincirKopmaz, DurumDefterden, KapananZimmet

\* Steps that write no item: handlers that read, or end without writing.
LEMMA OkumaAdimi ==
    ASSUME HerZaman, TekTek, UNCHANGED <<isci, zimmet, defter>>, NEW i \in Istekler,
           NEW r \in IstekSatiri, istek' = [istek EXCEPT ![i] = r],
           \/ r.is = "bos"
           \/ /\ i \in isci /\ r.zimmet \in Zimmetler /\ zimmet[r.zimmet] # Yok
              /\ r.calisan = zimmet[r.zimmet].calisan /\ r.durum = zimmet[r.zimmet].durum
              /\ r.is = "transfer" => r.hedef \in Calisanlar
              /\ r.is \in {"iade", "transfer"} => r.durum = "teslim_edildi"
    PROVE  HerZaman' /\ TekTek'
<1>1. TypeOK'
    BY DEF HerZaman, TypeOK
<1>2. /\ SahipDefterden' /\ VerenAlmisti'
      /\ ZincirKopmaz' /\ DurumDefterden' /\ KapananZimmet'
    BY DEF HerZaman, TekTek, SahipDefterden, VerenAlmisti, ZincirKopmaz, DurumDefterden,
           KapananZimmet, Sirali
<1>3. /\ istek'[i] = r
      /\ \A j \in Istekler \ {i} : istek'[j] = istek[j]
    BY DEF HerZaman, TypeOK
<1>4. IstekTuru'
  <2> SUFFICES ASSUME NEW j \in Istekler, istek'[j].is # "bos"
               PROVE  /\ j \in isci /\ istek'[j].zimmet \in Zimmetler
                      /\ zimmet[istek'[j].zimmet] # Yok
                      /\ istek'[j].calisan \in Calisanlar
                      /\ istek'[j].is = "transfer" => istek'[j].hedef \in Calisanlar
      BY DEF IstekTuru
  <2>1. CASE j = i
    <3>1. zimmet[r.zimmet] \in ZimmetSatiri
        BY <2>1, <1>3 DEF HerZaman, TypeOK
    <3> QED BY <3>1, <2>1, <1>3 DEF ZimmetSatiri
  <2>2. CASE j # i
      BY <2>2, <1>3 DEF HerZaman, IstekTuru
  <2> QED BY <2>1, <2>2
<1>5. KopyaAlmis'
  <2> SUFFICES ASSUME NEW j \in Istekler, istek'[j].is # "bos"
               PROVE  \E k \in DOMAIN defter[istek'[j].zimmet] :
                          defter[istek'[j].zimmet][k].yeni = istek'[j].calisan
      BY DEF KopyaAlmis
  <2>1. CASE j = i
    <3>1. SonAlan(defter[r.zimmet], Len(defter[r.zimmet]), r.calisan)
        BY <2>1, <1>3 DEF HerZaman, SahipDefterden
    <3>2. DOMAIN defter[r.zimmet] = 1..Len(defter[r.zimmet])
        BY <2>1, <1>3 DEF HerZaman, TypeOK
    <3> QED BY <3>1, <3>2, <2>1, <1>3 DEF SonAlan
  <2>2. CASE j # i
      BY <2>2, <1>3 DEF HerZaman, KopyaAlmis
  <2> QED BY <2>1, <2>2
<1>6. KopyaGuncel'
  <2> SUFFICES ASSUME Sirali, NEW j \in Istekler, istek'[j].is # "bos"
               PROVE  /\ istek'[j].calisan = zimmet[istek'[j].zimmet].calisan
                      /\ istek'[j].durum = zimmet[istek'[j].zimmet].durum
                      /\ istek'[j].is \in {"iade", "transfer"}
                            => istek'[j].durum = "teslim_edildi"
      BY DEF KopyaGuncel, Sirali
  <2>1. CASE j = i
      BY <2>1, <1>3
  <2>2. CASE j # i
      BY <2>2, <1>3 DEF TekTek, KopyaGuncel
  <2> QED BY <2>1, <2>2
<1> QED BY <1>1, <1>2, <1>4, <1>5, <1>6 DEF HerZaman, TekTek

\* A step that writes item z leaves the handlers still in flight as the invariant
\* wants them; with one thread there is none.
LEMMA YazmaIstekleri ==
    ASSUME HerZaman, TekTek, isci' = isci, TypeOK',
           NEW z \in Zimmetler, NEW e \in DefterSatiri, Hareket(z, e),
           \A j \in Istekler : istek'[j].is # "bos" => istek'[j] = istek[j],
           Sirali => \A j \in Istekler : istek'[j].is = "bos"
    PROVE  IstekTuru' /\ KopyaAlmis' /\ KopyaGuncel'
<1>1. \A y \in Zimmetler : zimmet[y] # Yok => zimmet'[y] # Yok
    BY DEF Hareket
<1>2. IstekTuru'
    BY <1>1 DEF HerZaman, IstekTuru
<1>3. KopyaAlmis'
  <2> SUFFICES ASSUME NEW j \in Istekler, istek'[j].is # "bos"
               PROVE  \E k \in DOMAIN defter'[istek[j].zimmet] :
                          defter'[istek[j].zimmet][k].yeni = istek[j].calisan
      BY DEF KopyaAlmis
  <2>1. istek[j].is # "bos" /\ istek[j].zimmet \in Zimmetler
      BY DEF HerZaman, IstekTuru
  <2>2. PICK k \in DOMAIN defter[istek[j].zimmet] :
            defter[istek[j].zimmet][k].yeni = istek[j].calisan
      BY <2>1 DEF HerZaman, KopyaAlmis
  <2> QED BY <2>1, <2>2, AlanKalir DEF HerZaman
<1>4. KopyaGuncel'
    BY DEF KopyaGuncel, Sirali
<1> QED BY <1>2, <1>3, <1>4

\* What an idle thread's slot holds is well formed.
LEMMA BosTipi == Bos \in IstekSatiri /\ Bos.is = "bos"
BY DEF Bos, IstekSatiri, ZimmetDurumu

\* After its write thread i is idle, and a single thread leaves nothing in flight.
LEMMA BittiIstekleri ==
    ASSUME HerZaman, NEW i \in Istekler, istek[i].is # "bos", Bitti(i)
    PROVE  /\ istek' \in [Istekler -> IstekSatiri]
           /\ \A j \in Istekler : istek'[j].is # "bos" => istek'[j] = istek[j]
           /\ Sirali => \A j \in Istekler : istek'[j].is = "bos"
<1>1. istek' = [istek EXCEPT ![i] = Bos] /\ istek \in [Istekler -> IstekSatiri]
    BY DEF Bitti, HerZaman, TypeOK
<1>2. istek'[i] = Bos /\ \A j \in Istekler \ {i} : istek'[j] = istek[j]
    BY <1>1
<1>3. ASSUME Sirali, NEW j \in Istekler, istek'[j].is # "bos"
      PROVE  FALSE
  <2>1. j # i /\ istek[j].is # "bos"
      BY <1>2, <1>3, BosTipi
  <2>2. i \in isci /\ j \in isci
      BY <2>1 DEF HerZaman, IstekTuru
  <2> QED BY <2>1, <2>2, <1>3 DEF Sirali
<1> QED BY <1>1, <1>2, <1>3, BosTipi

\* Every step preserves the invariant.
LEMMA Adim == HerZaman /\ TekTek /\ [Next]_vars => HerZaman' /\ TekTek'
<1> SUFFICES ASSUME HerZaman, TekTek, [Next]_vars
             PROVE  HerZaman' /\ TekTek'
    OBVIOUS
<1>0. /\ isci \subseteq Istekler
      /\ zimmet \in [Zimmetler -> ZimmetSatiri \cup {Yok}]
      /\ defter \in [Zimmetler -> Seq(DefterSatiri)]
      /\ istek \in [Istekler -> IstekSatiri]
      /\ \A z \in Zimmetler : zimmet[z] = Yok => defter[z] = << >>
    BY DEF HerZaman, TypeOK
<1>1. ASSUME NEW z \in Zimmetler, NEW c \in Calisanlar, ZimmetEkle(z, c)
      PROVE  HerZaman' /\ TekTek'
  <2> DEFINE e == Kayit("teslim", Yok, c)
  <2>1. e \in DefterSatiri /\ e.yeni = c /\ e.eski = Yok /\ e.islem = "teslim"
      BY DEF Kayit, DefterSatiri, Islemler
  <2>2. [calisan |-> c, durum |-> "teslim_edildi"] \in ZimmetSatiri
      BY DEF ZimmetSatiri, ZimmetDurumu
  <2>3. /\ Hareket(z, e) /\ isci' = isci /\ istek' = istek
        /\ zimmet'[z] = [calisan |-> c, durum |-> "teslim_edildi"]
      BY <1>0, <1>1, <2>2, ZimmetAssumption DEF ZimmetEkle, Deftere, Hareket
  <2> HIDE DEF e
  <2>4. TypeOK'
      BY <1>0, <2>1, <2>3, HareketDefteri DEF TypeOK, Hareket, HerZaman
  <2>5. SahipDefterden'
      BY <2>1, <2>3, ZimmetAssumption, SahipAdimi DEF HerZaman
  <2>6. VerenAlmisti'
      BY <2>1, <2>3, VerenAdimi DEF HerZaman
  <2>7. ZincirKopmaz'
      BY <2>1, <2>3, ZincirAdimi DEF HerZaman, TekTek
  <2>8. DurumDefterden'
      BY <2>1, <2>3, DurumAdimi DEF HerZaman, TekTek, Sonuc
  <2>9. KapananZimmet'
      BY <2>1, <2>3, KapananAdimi DEF HerZaman, TekTek
  <2>10. \A i \in Istekler : istek[i].is # "bos" => istek[i].zimmet # z
      BY <1>1 DEF ZimmetEkle, HerZaman, IstekTuru
  <2>11. IstekTuru'
      BY <2>3, <2>10 DEF HerZaman, IstekTuru, Hareket
  <2>12. KopyaAlmis'
    <3>1. \A y \in Zimmetler \ {z} : defter'[y] = defter[y]
        BY <2>1, <2>3, HareketDefteri DEF HerZaman
    <3> QED BY <2>3, <2>10, <3>1 DEF HerZaman, KopyaAlmis, IstekTuru
  <2>13. KopyaGuncel'
      BY <2>3, <2>10 DEF HerZaman, TekTek, KopyaGuncel, IstekTuru, Hareket, Sirali
  <2> QED
      BY <2>4, <2>5, <2>6, <2>7, <2>8, <2>9, <2>11, <2>12, <2>13 DEF HerZaman, TekTek
<1>2. ASSUME NEW i \in Istekler, NEW z \in Zimmetler, NEW is \in {"iade", "transfer", "kayip"},
             NEW hedef \in Calisanlar \cup {Yok}, Okundu(i, is, z, hedef),
             is \in {"iade", "transfer"} => Teslimde(z),
             is = "transfer" => hedef \in Calisanlar
      PROVE  HerZaman' /\ TekTek'
  <2> DEFINE r == [is |-> is, zimmet |-> z, calisan |-> zimmet[z].calisan,
                   durum |-> zimmet[z].durum, hedef |-> hedef]
  <2>1. zimmet[z] \in ZimmetSatiri /\ zimmet[z] # Yok /\ i \in isci
      BY <1>0, <1>2 DEF Okundu
  <2>2. r \in IstekSatiri
      BY <2>1 DEF ZimmetSatiri, IstekSatiri
  <2>3. UNCHANGED <<isci, zimmet, defter>> /\ istek' = [istek EXCEPT ![i] = r]
      BY <1>2 DEF Okundu
  <2>4. /\ r.zimmet = z /\ r.calisan = zimmet[z].calisan /\ r.durum = zimmet[z].durum
        /\ r.is = is /\ r.hedef = hedef
      OBVIOUS
  <2>5. r.is \in {"iade", "transfer"} => r.durum = "teslim_edildi"
      BY <1>2, <2>4 DEF Teslimde
  <2> HIDE DEF r
  <2> QED BY <1>2, <2>1, <2>2, <2>3, <2>4, <2>5, OkumaAdimi
<1>3. ASSUME NEW i \in Istekler, IadeYaz(i)
      PROVE  HerZaman' /\ TekTek'
  <2> DEFINE z == istek[i].zimmet
             e == Kayit("iade", istek[i].calisan, Yok)
  <2>1. /\ istek[i].is = "iade" /\ z \in Zimmetler /\ zimmet[z] \in ZimmetSatiri
        /\ istek[i].calisan \in Calisanlar
      BY <1>0, <1>3 DEF IadeYaz, HerZaman, IstekTuru
  <2>2. /\ e \in DefterSatiri /\ e.islem = "iade" /\ e.eski = istek[i].calisan
        /\ e.yeni = Yok
      BY <2>1 DEF Kayit, DefterSatiri, Islemler
  <2>3. [zimmet[z] EXCEPT !.durum = "iade_edildi"] \in ZimmetSatiri
      BY <2>1 DEF ZimmetSatiri, ZimmetDurumu
  <2>4. /\ Hareket(z, e) /\ isci' = isci
        /\ zimmet'[z].calisan = zimmet[z].calisan /\ zimmet'[z].durum = "iade_edildi"
    <3>1. /\ defter' = [defter EXCEPT ![z] = Append(@, e)] /\ isci' = isci
          /\ zimmet' = [zimmet EXCEPT ![z] = [zimmet[z] EXCEPT !.durum = "iade_edildi"]]
        BY <1>3, <1>0, <2>1 DEF IadeYaz, Deftere
    <3>2. /\ zimmet' \in [Zimmetler -> ZimmetSatiri \cup {Yok}]
          /\ zimmet'[z] = [zimmet[z] EXCEPT !.durum = "iade_edildi"]
          /\ \A y \in Zimmetler \ {z} : zimmet'[y] = zimmet[y]
        BY <1>0, <2>1, <2>3, <3>1
    <3>3. zimmet'[z] # Yok
        BY <2>3, <3>2, ZimmetAssumption
    <3>4. /\ [zimmet[z] EXCEPT !.durum = "iade_edildi"].calisan = zimmet[z].calisan
          /\ [zimmet[z] EXCEPT !.durum = "iade_edildi"].durum = "iade_edildi"
        BY <2>1 DEF ZimmetSatiri
    <3> QED BY <3>1, <3>2, <3>3, <3>4 DEF Hareket
  <2>5. /\ istek' \in [Istekler -> IstekSatiri]
        /\ \A j \in Istekler : istek'[j].is # "bos" => istek'[j] = istek[j]
        /\ Sirali => \A j \in Istekler : istek'[j].is = "bos"
      BY <1>3, <2>1, BittiIstekleri DEF IadeYaz
  <2>6. \E k \in DOMAIN defter[z] : defter[z][k].yeni = istek[i].calisan
      BY <2>1 DEF HerZaman, KopyaAlmis
  <2>7. Sirali => /\ SonAlan(defter[z], Len(defter[z]), istek[i].calisan)
                  /\ SonDurum(defter[z], Len(defter[z]), "teslim_edildi")
      BY <2>1, ZimmetAssumption
      DEF HerZaman, TekTek, KopyaGuncel, SahipDefterden, DurumDefterden
  <2> HIDE DEF z, e
  <2>8. TypeOK'
      BY <1>0, <2>1, <2>2, <2>4, <2>5, HareketDefteri DEF TypeOK, Hareket, HerZaman
  <2>9. SahipDefterden'
      BY <2>1, <2>2, <2>4, ZimmetAssumption, SahipAdimi DEF HerZaman
  <2>10. VerenAlmisti'
      BY <2>1, <2>2, <2>4, <2>6, VerenAdimi DEF HerZaman
  <2>11. ZincirKopmaz'
      BY <2>1, <2>2, <2>4, <2>7, ZincirAdimi DEF HerZaman, TekTek
  <2>12. DurumDefterden'
      BY <2>1, <2>2, <2>4, DurumAdimi DEF HerZaman, TekTek, Sonuc
  <2>13. KapananZimmet'
      BY <2>1, <2>2, <2>4, <2>7, KapananAdimi DEF HerZaman, TekTek
  <2>14. IstekTuru' /\ KopyaAlmis' /\ KopyaGuncel'
      BY <2>1, <2>2, <2>4, <2>5, <2>8, YazmaIstekleri
  <2> QED
      BY <2>8, <2>9, <2>10, <2>11, <2>12, <2>13, <2>14 DEF HerZaman, TekTek
<1>4. ASSUME NEW i \in Istekler, TransferYaz(i)
      PROVE  HerZaman' /\ TekTek'
  <2> DEFINE z == istek[i].zimmet
             h == istek[i].hedef
             e == Kayit("transfer", istek[i].calisan, h)
  <2>1. /\ istek[i].is = "transfer" /\ z \in Zimmetler /\ zimmet[z] \in ZimmetSatiri
        /\ zimmet[z] # Yok /\ istek[i].calisan \in Calisanlar /\ h \in Calisanlar
      BY <1>0, <1>4 DEF TransferYaz, HerZaman, IstekTuru
  <2>2. /\ e \in DefterSatiri /\ e.islem = "transfer" /\ e.eski = istek[i].calisan
        /\ e.yeni = h /\ h # Yok
      BY <2>1, ZimmetAssumption DEF Kayit, DefterSatiri, Islemler
  <2>3. [zimmet[z] EXCEPT !.calisan = h] \in ZimmetSatiri
      BY <2>1 DEF ZimmetSatiri
  <2>4. /\ Hareket(z, e) /\ isci' = isci
        /\ zimmet'[z].calisan = h /\ zimmet'[z].durum = zimmet[z].durum
    <3>1. /\ defter' = [defter EXCEPT ![z] = Append(@, e)] /\ isci' = isci
          /\ zimmet' = [zimmet EXCEPT ![z] = [zimmet[z] EXCEPT !.calisan = h]]
        BY <1>4, <1>0, <2>1 DEF TransferYaz, Deftere
    <3>2. /\ zimmet' \in [Zimmetler -> ZimmetSatiri \cup {Yok}]
          /\ zimmet'[z] = [zimmet[z] EXCEPT !.calisan = h]
          /\ \A y \in Zimmetler \ {z} : zimmet'[y] = zimmet[y]
        BY <1>0, <2>1, <2>3, <3>1
    <3>3. zimmet'[z] # Yok
        BY <2>3, <3>2, ZimmetAssumption
    <3>4. /\ [zimmet[z] EXCEPT !.calisan = h].calisan = h
          /\ [zimmet[z] EXCEPT !.calisan = h].durum = zimmet[z].durum
        BY <2>1 DEF ZimmetSatiri
    <3> QED BY <3>1, <3>2, <3>3, <3>4 DEF Hareket
  <2>5. /\ istek' \in [Istekler -> IstekSatiri]
        /\ \A j \in Istekler : istek'[j].is # "bos" => istek'[j] = istek[j]
        /\ Sirali => \A j \in Istekler : istek'[j].is = "bos"
      BY <1>4, <2>1, BittiIstekleri DEF TransferYaz
  <2>6. \E k \in DOMAIN defter[z] : defter[z][k].yeni = istek[i].calisan
      BY <2>1 DEF HerZaman, KopyaAlmis
  <2>7. Sirali => /\ SonAlan(defter[z], Len(defter[z]), istek[i].calisan)
                  /\ SonDurum(defter[z], Len(defter[z]), "teslim_edildi")
      BY <2>1, ZimmetAssumption
      DEF HerZaman, TekTek, KopyaGuncel, SahipDefterden, DurumDefterden
  <2> HIDE DEF z, h, e
  <2>8. TypeOK'
      BY <1>0, <2>1, <2>2, <2>4, <2>5, HareketDefteri DEF TypeOK, Hareket, HerZaman
  <2>9. SahipDefterden'
      BY <2>1, <2>2, <2>4, ZimmetAssumption, SahipAdimi DEF HerZaman
  <2>10. VerenAlmisti'
      BY <2>1, <2>2, <2>4, <2>6, VerenAdimi DEF HerZaman
  <2>11. ZincirKopmaz'
      BY <2>1, <2>2, <2>4, <2>7, ZincirAdimi DEF HerZaman, TekTek
  <2>12. DurumDefterden'
      BY <2>1, <2>2, <2>4, DurumAdimi DEF HerZaman, TekTek
  <2>13. KapananZimmet'
      BY <2>1, <2>2, <2>4, <2>7, KapananAdimi DEF HerZaman, TekTek
  <2>14. IstekTuru' /\ KopyaAlmis' /\ KopyaGuncel'
      BY <2>1, <2>2, <2>4, <2>5, <2>8, YazmaIstekleri
  <2> QED
      BY <2>8, <2>9, <2>10, <2>11, <2>12, <2>13, <2>14 DEF HerZaman, TekTek
<1>5. ASSUME NEW i \in Istekler, KayipYaz(i)
      PROVE  HerZaman' /\ TekTek'
  <2> DEFINE z == istek[i].zimmet
             e == Kayit("kayip_bildirimi", Yok, Yok)
  <2>1. /\ istek[i].is = "kayip" /\ z \in Zimmetler /\ zimmet[z] \in ZimmetSatiri
        /\ zimmet[z] # Yok
      BY <1>0, <1>5 DEF KayipYaz, HerZaman, IstekTuru
  <2>2. /\ e \in DefterSatiri /\ e.islem = "kayip_bildirimi" /\ e.eski = Yok /\ e.yeni = Yok
      BY DEF Kayit, DefterSatiri, Islemler
  <2>3. /\ [zimmet[z] EXCEPT !.durum = "kayip"] \in ZimmetSatiri
        /\ [zimmet[z] EXCEPT !.durum = "kayip"].calisan = zimmet[z].calisan
        /\ [zimmet[z] EXCEPT !.durum = "kayip"].durum = "kayip"
      BY <2>1 DEF ZimmetSatiri, ZimmetDurumu
  <2>4. /\ Hareket(z, e) /\ isci' = isci
        /\ zimmet'[z].calisan = zimmet[z].calisan
        /\ Sirali => zimmet'[z].durum = "kayip"
    <3>1. defter' = [defter EXCEPT ![z] = Append(@, e)] /\ isci' = isci
        BY <1>5 DEF KayipYaz, Deftere
    <3>2. CASE istek[i].durum = "kayip"
      <4>1. zimmet' = zimmet
          BY <1>5, <3>2 DEF KayipYaz
      <4>2. Sirali => zimmet[z].durum = "kayip"
          BY <2>1, <3>2 DEF TekTek, KopyaGuncel
      <4> QED BY <1>0, <2>1, <3>1, <4>1, <4>2 DEF Hareket
    <3>3. CASE istek[i].durum # "kayip"
      <4>1. zimmet' = [zimmet EXCEPT ![z] = [zimmet[z] EXCEPT !.durum = "kayip"]]
          BY <1>0, <1>5, <2>1, <3>3 DEF KayipYaz
      <4>2. /\ zimmet' \in [Zimmetler -> ZimmetSatiri \cup {Yok}]
            /\ zimmet'[z] = [zimmet[z] EXCEPT !.durum = "kayip"]
            /\ \A y \in Zimmetler \ {z} : zimmet'[y] = zimmet[y]
          BY <1>0, <2>1, <2>3, <4>1
      <4>3. zimmet'[z] # Yok
          BY <2>3, <4>2, ZimmetAssumption
      <4> QED BY <2>3, <3>1, <4>2, <4>3 DEF Hareket
    <3> QED BY <3>2, <3>3
  <2>5. /\ istek' \in [Istekler -> IstekSatiri]
        /\ \A j \in Istekler : istek'[j].is # "bos" => istek'[j] = istek[j]
        /\ Sirali => \A j \in Istekler : istek'[j].is = "bos"
      BY <1>5, <2>1, BittiIstekleri DEF KayipYaz
  <2> HIDE DEF z, e
  <2>6. TypeOK'
      BY <1>0, <2>1, <2>2, <2>4, <2>5, HareketDefteri DEF TypeOK, Hareket, HerZaman
  <2>7. SahipDefterden'
      BY <2>1, <2>2, <2>4, SahipAdimi DEF HerZaman
  <2>8. VerenAlmisti'
      BY <2>1, <2>2, <2>4, VerenAdimi DEF HerZaman
  <2>9. ZincirKopmaz'
      BY <2>1, <2>2, <2>4, ZincirAdimi DEF HerZaman, TekTek
  <2>10. DurumDefterden'
      BY <2>1, <2>2, <2>4, DurumAdimi DEF HerZaman, TekTek, Sonuc
  <2>11. KapananZimmet'
      BY <2>1, <2>2, <2>4, KapananAdimi DEF HerZaman, TekTek
  <2>12. IstekTuru' /\ KopyaAlmis' /\ KopyaGuncel'
      BY <2>1, <2>2, <2>4, <2>5, <2>6, YazmaIstekleri
  <2> QED
      BY <2>6, <2>7, <2>8, <2>9, <2>10, <2>11, <2>12 DEF HerZaman, TekTek
<1>6. ASSUME NEW i \in Istekler, Birak(i)
      PROVE  HerZaman' /\ TekTek'
    BY <1>6, BosTipi, OkumaAdimi DEF Birak, Bitti
<1>7. ASSUME UNCHANGED vars
      PROVE  HerZaman' /\ TekTek'
    BY <1>7 DEF vars, HerZaman, TekTek, TypeOK, IstekTuru, KopyaAlmis, KopyaGuncel,
        SahipDefterden, VerenAlmisti, ZincirKopmaz, DurumDefterden, KapananZimmet, Sirali
<1>8. ASSUME NEW i \in Istekler, NEW z \in Zimmetler, IadeOku(i, z)
      PROVE  HerZaman' /\ TekTek'
    BY <1>2, <1>8 DEF IadeOku
<1>9. ASSUME NEW i \in Istekler, NEW z \in Zimmetler, KayipOku(i, z)
      PROVE  HerZaman' /\ TekTek'
    BY <1>2, <1>9 DEF KayipOku
<1>10. ASSUME NEW i \in Istekler, NEW z \in Zimmetler, NEW hedef \in Calisanlar,
              TransferOku(i, z, hedef)
       PROVE  HerZaman' /\ TekTek'
    BY <1>2, <1>10 DEF TransferOku
<1> QED
    BY <1>1, <1>3, <1>4, <1>5, <1>6, <1>7, <1>8, <1>9, <1>10 DEF Next

\* The invariant holds of every reachable state.
LEMMA Degismez == Spec => [](HerZaman /\ TekTek)
BY Baslangic, Adim, PTL DEF Spec

-----------------------------------------------------------------------------
(* The properties of Zimmet, for any number of items, employees, threads   *)
(* and entries.                                                            *)

\* Every variable keeps its type.
THEOREM ZimmetTurleri == Spec => []TypeOK
<1>1. HerZaman => TypeOK
    BY DEF HerZaman
<1> QED BY <1>1, Degismez, PTL

\* However returns and transfers overlap, the holder is the last receiver.
THEOREM SahipBelli == Spec => []SahipDefterden
<1>1. HerZaman => SahipDefterden
    BY DEF HerZaman
<1> QED BY <1>1, Degismez, PTL

\* However returns and transfers overlap, a giver had received the item.
THEOREM VerenBelli == Spec => []VerenAlmisti
<1>1. HerZaman => VerenAlmisti
    BY DEF HerZaman
<1> QED BY <1>1, Degismez, PTL

\* With one thread the history is a chain of hand-overs.
THEOREM ZincirTam == Spec => []ZincirKopmaz
<1>1. TekTek => ZincirKopmaz
    BY DEF TekTek
<1> QED BY <1>1, Degismez, PTL

\* With one thread the row's state is the one its history ends in.
THEOREM DurumBelli == Spec => []DurumDefterden
<1>1. TekTek => DurumDefterden
    BY DEF TekTek
<1> QED BY <1>1, Degismez, PTL

\* With one thread a returned or lost item stays out of circulation.
THEOREM KapananKapali == Spec => []KapananZimmet
<1>1. TekTek => KapananZimmet
    BY DEF TekTek
<1> QED BY <1>1, Degismez, PTL
=============================================================================
