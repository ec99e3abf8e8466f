----------------------------- MODULE BelgeKanit -----------------------------
(***************************************************************************)
(* Proofs about Belge, for any number of documents, approval requests and  *)
(* concurrent handlers: types, that a document waiting for approval has    *)
(* its approval request, and that purchase numbers have no gap; and, when  *)
(* no two handlers overlap (BelgeIsci), that what is submitted is complete *)
(* and frozen and that a cancellation is final.                            *)
(***************************************************************************)
EXTENDS BelgeIsci, FiniteSetTheorems, TLAPS

-----------------------------------------------------------------------------
(* Types.                                                                  *)

\* A handler that reads or ends leaves well-formed slots.
LEMMA IstekTipi ==
    ASSUME TypeOK, NEW w \in Istek
    PROVE  /\ Bitti(w) => istek' \in [Istek -> IstekSatiri]
           /\ \A b \in Belgeler, is \in Isler :
                Var(b) /\ Okundu(w, is, b) => istek' \in [Istek -> IstekSatiri]
<1>1. Bos \in IstekSatiri
    BY DEF Bos, IstekSatiri, Isler, BelgeDurumu
<1>2. Bitti(w) => istek' \in [Istek -> IstekSatiri]
    BY <1>1 DEF Bitti, TypeOK
<1>3. ASSUME NEW b \in Belgeler, NEW is \in Isler, Var(b), Okundu(w, is, b)
      PROVE  istek' \in [Istek -> IstekSatiri]
    <2>1. belge[b] \in BelgeSatiri
        BY <1>3 DEF TypeOK, Var
    <2>2. [Bos EXCEPT !.is = is, !.belge = b, !.durum = belge[b].durum,
                      !.gerekli = belge[b].gerekli] \in IstekSatiri
        BY <2>1 DEF Bos, IstekSatiri, BelgeSatiri
    <2> QED
        BY <1>3, <2>2 DEF Okundu, TypeOK
<1> QED
    BY <1>2, <1>3

LEMMA TypeInit == Init => TypeOK
BY DEF Init, TypeOK, Bos, IstekSatiri, Isler, BelgeDurumu

\* Writing a column of a document keeps the row well formed.
LEMMA BelgeTipi ==
    ASSUME NEW r \in BelgeSatiri, NEW d \in BelgeDurumu, NEW g \in BOOLEAN, NEW e \in BOOLEAN,
           NEW t \in OnayTalebi
    PROVE  /\ [r EXCEPT !.gerekli = g, !.ek = e, !.durum = d] \in BelgeSatiri
           /\ [r EXCEPT !.silindi = TRUE] \in BelgeSatiri
           /\ [r EXCEPT !.durum = d] \in BelgeSatiri
           /\ [r EXCEPT !.durum = d, !.onay = t] \in BelgeSatiri
BY DEF BelgeSatiri

LEMMA TypeNext == TypeOK /\ IstekBelgesi /\ [Next]_vars => TypeOK'
<1> SUFFICES ASSUME TypeOK, IstekBelgesi, [Next]_vars PROVE TypeOK'
    OBVIOUS
<1>0. /\ \A b \in Belgeler : Var(b) => belge[b] \in BelgeSatiri
      /\ \A w \in Istek : istek[w] \in IstekSatiri
    BY DEF TypeOK, Var
<1>1. ASSUME NEW b \in Belgeler, NEW gerekli \in BOOLEAN, NEW ek \in BOOLEAN,
             MasrafEkle(b, gerekli, ek)
      PROVE  TypeOK'
    BY <1>1 DEF MasrafEkle, TypeOK, BelgeSatiri, BelgeDurumu
<1>2. ASSUME NEW w \in Istek, NEW b \in Belgeler, TalepEkleOku(w, b)
      PROVE  TypeOK'
    <2> DEFINE n == Cardinality(Numarali) + 1
    <2>1. n \in Nat
        <3>1. Cardinality(Numarali) \in Nat
            BY BelgeAssumption, FS_Subset, FS_CardinalityType DEF Numarali
        <3> QED
            BY <3>1
    <2>2. istek' = [istek EXCEPT ![w] = [Bos EXCEPT !.is = "ekle", !.belge = b, !.no = n]]
        BY <1>2 DEF TalepEkleOku
    <2> HIDE DEF n
    <2>3. [Bos EXCEPT !.is = "ekle", !.belge = b, !.no = n] \in IstekSatiri
        BY <2>1 DEF Bos, IstekSatiri, Isler, BelgeDurumu
    <2> QED
        BY <1>2, <2>2, <2>3 DEF TalepEkleOku, TypeOK
<1>3. ASSUME NEW w \in Istek, NEW ek \in BOOLEAN, TalepEkleYaz(w, ek)
      PROVE  TypeOK'
    <2>1. istek[w].belge \in Belgeler /\ istek[w].no \in Nat
        BY <1>0, <1>3 DEF TalepEkleYaz, IstekBelgesi, IstekSatiri, Belgeler
    <2>2. istek' \in [Istek -> IstekSatiri]
        BY <1>3, IstekTipi DEF TalepEkleYaz
    <2>3. belge' \in [Belgeler -> BelgeSatiri \cup {Yok}]
        BY <1>3, <2>1 DEF TalepEkleYaz, TypeOK, BelgeSatiri, BelgeDurumu
    <2> QED
        BY <1>3, <2>2, <2>3 DEF TalepEkleYaz, TypeOK
<1>4. ASSUME NEW w \in Istek, NEW b \in Belgeler,
             DuzenleOku(w, b) \/ SilOku(w, b) \/ IptalOku(w, b) \/ GonderOku(w, b)
      PROVE  TypeOK'
    <2>1. PICK is \in Isler : Var(b) /\ Okundu(w, is, b) /\ UNCHANGED <<belge, onay>>
        BY <1>4 DEF DuzenleOku, SilOku, IptalOku, GonderOku, Isler
    <2>2. istek' \in [Istek -> IstekSatiri]
        BY <2>1, IstekTipi
    <2> QED
        BY <2>1, <2>2 DEF TypeOK
<1>5. ASSUME NEW w \in Istek, NEW gerekli \in BOOLEAN, NEW yukle \in BOOLEAN,
             DuzenleYaz(w, gerekli, yukle)
      PROVE  TypeOK'
    <2> DEFINE b == istek[w].belge
    <2>1. b \in Belgeler /\ Var(b) /\ belge[b] \in BelgeSatiri
        BY <1>0, <1>5 DEF DuzenleYaz, IstekBelgesi
    <2>2. PICK g \in BOOLEAN, e \in BOOLEAN, d \in BelgeDurumu :
             belge' = [belge EXCEPT ![b] = [belge[b] EXCEPT !.gerekli = g, !.ek = e, !.durum = d]]
        <3> DEFINE g == IF gerekli = istek[w].gerekli THEN belge[b].gerekli ELSE gerekli
                   e == belge[b].ek \/ yukle
                   d == IF istek[w].durum = "reddedildi" THEN "taslak" ELSE belge[b].durum
        <3>1. g \in BOOLEAN /\ e \in BOOLEAN /\ d \in BelgeDurumu
            BY <2>1 DEF BelgeSatiri, BelgeDurumu
        <3>2. belge' = [belge EXCEPT ![b] = [belge[b] EXCEPT !.gerekli = g, !.ek = e, !.durum = d]]
            BY <1>5 DEF DuzenleYaz
        <3> HIDE DEF g, e, d
        <3> QED
            BY <3>1, <3>2
    <2>3. [belge[b] EXCEPT !.gerekli = g, !.ek = e, !.durum = d] \in BelgeSatiri
        BY <2>1 DEF BelgeSatiri
    <2>4. istek' \in [Istek -> IstekSatiri]
        BY <1>5, IstekTipi DEF DuzenleYaz
    <2> QED
        BY <1>5, <2>1, <2>2, <2>3, <2>4 DEF DuzenleYaz, TypeOK
<1>6. ASSUME NEW w \in Istek, SilYaz(w)
      PROVE  TypeOK'
    <2>1. istek[w].belge \in Belgeler /\ belge[istek[w].belge] \in BelgeSatiri
        BY <1>0, <1>6 DEF SilYaz, IstekBelgesi
    <2>2. [belge[istek[w].belge] EXCEPT !.silindi = TRUE] \in BelgeSatiri
        BY <2>1 DEF BelgeSatiri
    <2>3. istek' \in [Istek -> IstekSatiri]
        BY <1>6, IstekTipi DEF SilYaz
    <2> QED
        BY <1>6, <2>1, <2>2, <2>3 DEF SilYaz, TypeOK
<1>7. ASSUME NEW w \in Istek, IptalYaz(w)
      PROVE  TypeOK'
    <2>1. istek[w].belge \in Belgeler /\ belge[istek[w].belge] \in BelgeSatiri
        BY <1>0, <1>7 DEF IptalYaz, IstekBelgesi
    <2>2. [belge[istek[w].belge] EXCEPT !.durum =
             IF istek[w].durum = "iptal" THEN @ ELSE "iptal"] \in BelgeSatiri
        BY <2>1 DEF BelgeSatiri, BelgeDurumu
    <2>3. istek' \in [Istek -> IstekSatiri]
        BY <1>7, IstekTipi DEF IptalYaz
    <2> QED
        BY <1>7, <2>1, <2>2, <2>3 DEF IptalYaz, TypeOK
<1>8. ASSUME NEW w \in Istek, NEW t \in OnayTalebi, GonderOnayAc(w, t)
      PROVE  TypeOK'
    <2>1. istek[w].belge \in Belgeler
        BY <1>8 DEF GonderOnayAc, IstekBelgesi
    <2>2. [istek[w] EXCEPT !.onay = t] \in IstekSatiri
        BY <1>0 DEF IstekSatiri
    <2> QED
        BY <1>8, <2>1, <2>2 DEF GonderOnayAc, TypeOK, OnaySatiri, OnayDurumu
<1>9. ASSUME NEW w \in Istek, GonderYaz(w)
      PROVE  TypeOK'
    <2>1. istek[w].belge \in Belgeler /\ belge[istek[w].belge] \in BelgeSatiri
        BY <1>0, <1>9 DEF GonderYaz, IstekBelgesi
    <2>2. istek[w].onay \in OnayTalebi
        BY <1>0, <1>9 DEF GonderYaz, OnayAcildi, IstekSatiri
    <2>3. [belge[istek[w].belge] EXCEPT !.durum = "onay_bekliyor", !.onay = istek[w].onay]
             \in BelgeSatiri
        BY <2>1, <2>2 DEF BelgeSatiri, BelgeDurumu
    <2>4. istek' \in [Istek -> IstekSatiri]
        BY <1>9, IstekTipi DEF GonderYaz
    <2> QED
        BY <1>9, <2>1, <2>3, <2>4 DEF GonderYaz, TypeOK
<1>10. ASSUME NEW w \in Istek, Birak(w)
       PROVE  TypeOK'
    BY <1>10, IstekTipi DEF Birak, TypeOK
<1>11. ASSUME NEW t \in OnayTalebi, NEW sonuc \in {"onaylandi", "reddedildi", "iptal"},
              OnaySonuclan(t, sonuc)
       PROVE  TypeOK'
    BY <1>11 DEF OnaySonuclan, TypeOK, OnaySatiri, OnayDurumu
<1>12. CASE UNCHANGED vars
    BY <1>12 DEF vars, TypeOK
<1> QED
    BY <1>1, <1>2, <1>3, <1>4, <1>5, <1>6, <1>7, <1>8, <1>9, <1>10, <1>11, <1>12 DEF Next

-----------------------------------------------------------------------------
(* What a step can do to documents and approval requests.                  *)

\* An edit leaves the link and the number of its document, and never makes it wait.
LEMMA DuzenleSatiri ==
    ASSUME TypeOK, IstekBelgesi, NEW w \in Istek, NEW gerekli \in BOOLEAN, NEW yukle \in BOOLEAN,
           DuzenleYaz(w, gerekli, yukle)
    PROVE  LET b == istek[w].belge
           IN  /\ belge'[b] \in BelgeSatiri
               /\ belge'[b].no = belge[b].no
               /\ belge'[b].onay = belge[b].onay
               /\ belge'[b].durum = "onay_bekliyor" => belge[b].durum = "onay_bekliyor"
<1> DEFINE b == istek[w].belge
           g == IF gerekli = istek[w].gerekli THEN belge[b].gerekli ELSE gerekli
           e == belge[b].ek \/ yukle
           d == IF istek[w].durum = "reddedildi" THEN "taslak" ELSE belge[b].durum
<1>1. b \in Belgeler /\ belge[b] \in BelgeSatiri
    BY DEF DuzenleYaz, IstekBelgesi, TypeOK, Var
<1>2. /\ g \in BOOLEAN /\ e \in BOOLEAN /\ d \in BelgeDurumu
      /\ d = "onay_bekliyor" => belge[b].durum = "onay_bekliyor"
    BY <1>1 DEF BelgeSatiri, BelgeDurumu
<1>3. belge'[b] = [belge[b] EXCEPT !.gerekli = g, !.ek = e, !.durum = d]
    BY <1>1 DEF DuzenleYaz, TypeOK
<1> HIDE DEF g, e, d
<1>4. belge'[b] \in BelgeSatiri
    BY <1>1, <1>2, <1>3 DEF BelgeSatiri
<1>5. belge'[b].no = belge[b].no /\ belge'[b].onay = belge[b].onay /\ belge'[b].durum = d
    BY <1>1, <1>3 DEF BelgeSatiri
<1> QED
    BY <1>2, <1>4, <1>5

\* What any step does to a document that exists: it stays, with its number, and only
\* GonderYaz makes it wait for approval or changes its approval request.
LEMMA SatirDegisimi ==
    ASSUME TypeOK, IstekBelgesi, [Next]_vars, NEW b \in Belgeler, Var(b)
    PROVE  /\ Var(b)'
           /\ belge'[b].no = belge[b].no
           /\ \/ /\ belge'[b].onay = belge[b].onay
                 /\ belge'[b].durum = "onay_bekliyor" => belge[b].durum = "onay_bekliyor"
              \/ \E w \in Istek : /\ GonderYaz(w)
                                  /\ istek[w].belge = b
                                  /\ belge'[b].onay = istek[w].onay
<1> DEFINE Ayni == belge'[b] = belge[b]
           Kalir == /\ belge'[b] \in BelgeSatiri
                    /\ belge'[b].no = belge[b].no
                    /\ belge'[b].onay = belge[b].onay
                    /\ belge'[b].durum = "onay_bekliyor" => belge[b].durum = "onay_bekliyor"
<1>1. belge[b] \in BelgeSatiri
    BY DEF TypeOK, Var
<1>2. Ayni => Kalir
    BY <1>1
<1>3. ASSUME NEW c \in Belgeler, NEW gerekli \in BOOLEAN, NEW ek \in BOOLEAN,
             MasrafEkle(c, gerekli, ek)
      PROVE  Ayni
    BY <1>3 DEF MasrafEkle, Var, TypeOK
<1>4. ASSUME NEW w \in Istek, NEW ek \in BOOLEAN, TalepEkleYaz(w, ek)
      PROVE  Ayni
    BY <1>4 DEF TalepEkleYaz, Var, TypeOK, IstekBelgesi
<1>5. ASSUME NEW w \in Istek, NEW gerekli \in BOOLEAN, NEW yukle \in BOOLEAN,
             DuzenleYaz(w, gerekli, yukle)
      PROVE  Kalir
    <2>1. CASE istek[w].belge = b
        BY <1>5, <2>1, DuzenleSatiri
    <2>2. CASE istek[w].belge # b
        <3>1. Ayni
            BY <1>5, <2>2 DEF DuzenleYaz, TypeOK
        <3> QED
            BY <1>2, <3>1
    <2> QED
        BY <2>1, <2>2
<1>6. ASSUME NEW w \in Istek, SilYaz(w)
      PROVE  Kalir
    <2>1. CASE istek[w].belge = b
        BY <1>1, <1>6, <2>1 DEF SilYaz, TypeOK, BelgeSatiri
    <2>2. CASE istek[w].belge # b
        BY <1>1, <1>6, <2>2 DEF SilYaz, TypeOK
    <2> QED
        BY <2>1, <2>2
<1>7. ASSUME NEW w \in Istek, IptalYaz(w)
      PROVE  Kalir
    <2>1. CASE istek[w].belge = b
        BY <1>1, <1>7, <2>1 DEF IptalYaz, TypeOK, BelgeSatiri, BelgeDurumu
    <2>2. CASE istek[w].belge # b
        BY <1>1, <1>7, <2>2 DEF IptalYaz, TypeOK
    <2> QED
        BY <2>1, <2>2
<1>8. ASSUME NEW w \in Istek, GonderYaz(w)
      PROVE  \/ Kalir
             \/ /\ istek[w].belge = b
                /\ belge'[b] \in BelgeSatiri
                /\ belge'[b].no = belge[b].no
                /\ belge'[b].onay = istek[w].onay
    <2>1. CASE istek[w].belge = b
        <3>1. istek[w].onay \in OnayTalebi
            BY <1>8 DEF GonderYaz, OnayAcildi, TypeOK, IstekSatiri
        <3> QED
            BY <1>1, <1>8, <2>1, <3>1 DEF GonderYaz, TypeOK, BelgeSatiri, BelgeDurumu
    <2>2. CASE istek[w].belge # b
        BY <1>1, <1>8, <2>2 DEF GonderYaz, TypeOK
    <2> QED
        BY <2>1, <2>2
<1>9. ASSUME NEW w \in Istek,
             \/ \E c \in Belgeler : \/ TalepEkleOku(w, c) \/ DuzenleOku(w, c) \/ SilOku(w, c)
                                    \/ IptalOku(w, c) \/ GonderOku(w, c)
             \/ \E t \in OnayTalebi : GonderOnayAc(w, t)
             \/ Birak(w)
      PROVE  Ayni
    BY <1>9 DEF TalepEkleOku, DuzenleOku, SilOku, IptalOku, GonderOku, GonderOnayAc, Birak
<1>10. ASSUME NEW t \in OnayTalebi, NEW sonuc \in {"onaylandi", "reddedildi", "iptal"},
              OnaySonuclan(t, sonuc)
       PROVE  Ayni
    BY <1>10 DEF OnaySonuclan
<1>11. UNCHANGED vars => Ayni
    BY DEF vars
<1>12. belge'[b] \in BelgeSatiri => Var(b)'
    BY BelgeAssumption DEF Var
<1>13. \/ Kalir
       \/ \E w \in Istek : /\ GonderYaz(w)
                           /\ istek[w].belge = b
                           /\ belge'[b] \in BelgeSatiri
                           /\ belge'[b].no = belge[b].no
                           /\ belge'[b].onay = istek[w].onay
    <2> HIDE DEF Ayni, Kalir
    <2> QED
        BY <1>2, <1>3, <1>4, <1>5, <1>6, <1>7, <1>8, <1>9, <1>10, <1>11 DEF Next
<1> QED
    BY <1>12, <1>13

\* Approval requests are never removed and stay with their document.
LEMMA OnayKalir ==
    ASSUME TypeOK, [Next]_vars, NEW t \in OnayTalebi, onay[t] # Yok
    PROVE  onay'[t] # Yok /\ onay'[t].belge = onay[t].belge
<1>1. ASSUME NEW w \in Istek, NEW s \in OnayTalebi, GonderOnayAc(w, s)
      PROVE  onay'[t] = onay[t]
    BY <1>1 DEF GonderOnayAc, TypeOK
<1>2. ASSUME NEW s \in OnayTalebi, NEW sonuc \in {"onaylandi", "reddedildi", "iptal"},
             OnaySonuclan(s, sonuc)
      PROVE  onay'[t] # Yok /\ onay'[t].belge = onay[t].belge
    <2>1. CASE s = t
        <3>1. onay[t] \in OnaySatiri
            BY DEF TypeOK
        <3>2. onay'[t] = [onay[t] EXCEPT !.durum = sonuc]
            BY <1>2, <2>1 DEF OnaySonuclan, TypeOK
        <3>3. onay'[t] \in OnaySatiri /\ onay'[t].belge = onay[t].belge
            BY <3>1, <3>2 DEF OnaySatiri, OnayDurumu
        <3> QED
            BY <3>3, BelgeAssumption
    <2>2. CASE s # t
        BY <1>2, <2>2 DEF OnaySonuclan, TypeOK
    <2> QED
        BY <2>1, <2>2
<1>3. CASE onay' = onay
    BY <1>3
<1> QED
    BY <1>1, <1>2, <1>3
    DEF Next, vars, MasrafEkle, TalepEkleOku, TalepEkleYaz, DuzenleOku, DuzenleYaz, SilOku, SilYaz,
        IptalOku, IptalYaz, GonderOku, GonderYaz, Birak

\* A document comes into being as a draft without approval request; a purchase request
\* by the insertion of the one handler creating it, which then ends.
LEMMA YeniSatir ==
    ASSUME TypeOK, IstekBelgesi, [Next]_vars, NEW b \in Belgeler, ~Var(b)
    PROVE  \/ belge'[b] = Yok
           \/ /\ b \in Masraf
              /\ belge'[b].durum = "taslak"
              /\ \E gerekli, ek \in BOOLEAN : MasrafEkle(b, gerekli, ek)
           \/ /\ belge'[b].durum = "taslak"
              /\ \E w \in Istek, ek \in BOOLEAN :
                   /\ TalepEkleYaz(w, ek)
                   /\ istek[w].belge = b
                   /\ belge'[b].no = istek[w].no
                   /\ istek'[w].is = "bos"
<1> DEFINE Yeni1 == /\ b \in Masraf
                    /\ belge'[b].durum = "taslak"
                    /\ \E gerekli, ek \in BOOLEAN : MasrafEkle(b, gerekli, ek)
           Yeni2 == /\ belge'[b].durum = "taslak"
                    /\ \E w \in Istek, ek \in BOOLEAN :
                         /\ TalepEkleYaz(w, ek)
                         /\ istek[w].belge = b
                         /\ belge'[b].no = istek[w].no
                         /\ istek'[w].is = "bos"
<1>1. ASSUME NEW c \in Belgeler, NEW gerekli \in BOOLEAN, NEW ek \in BOOLEAN,
             MasrafEkle(c, gerekli, ek)
      PROVE  belge'[b] = Yok \/ Yeni1
    <2>1. CASE c = b
        BY <1>1, <2>1 DEF MasrafEkle, TypeOK
    <2>2. CASE c # b
        BY <1>1, <2>2 DEF MasrafEkle, Var, TypeOK
    <2> QED
        BY <2>1, <2>2
<1>2. ASSUME NEW w \in Istek, NEW ek \in BOOLEAN, TalepEkleYaz(w, ek)
      PROVE  belge'[b] = Yok \/ Yeni2
    <2>1. CASE istek[w].belge = b
        <3>1. belge'[b].durum = "taslak" /\ belge'[b].no = istek[w].no
            BY <1>2, <2>1 DEF TalepEkleYaz, TypeOK
        <3>2. istek'[w].is = "bos"
            BY <1>2 DEF TalepEkleYaz, Bitti, Bos, TypeOK
        <3> QED
            BY <1>2, <2>1, <3>1, <3>2
    <2>2. CASE istek[w].belge # b
        BY <1>2, <2>2 DEF TalepEkleYaz, Var, TypeOK
    <2> QED
        BY <2>1, <2>2
<1>3. ASSUME NEW w \in Istek,
             \/ \E gerekli, yukle \in BOOLEAN : DuzenleYaz(w, gerekli, yukle)
             \/ SilYaz(w) \/ IptalYaz(w) \/ GonderYaz(w)
      PROVE  belge'[b] = Yok
    <2>1. istek[w].belge # b
        BY <1>3 DEF DuzenleYaz, SilYaz, IptalYaz, GonderYaz, IstekBelgesi
    <2>2. belge'[b] = belge[b]
        BY <1>3, <2>1 DEF DuzenleYaz, SilYaz, IptalYaz, GonderYaz, TypeOK
    <2> QED
        BY <2>2 DEF Var
<1>4. belge' = belge => belge'[b] = Yok
    BY DEF Var
<1>5. ASSUME NEW w \in Istek,
             \/ \E c \in Belgeler : \/ TalepEkleOku(w, c) \/ DuzenleOku(w, c) \/ SilOku(w, c)
                                    \/ IptalOku(w, c) \/ GonderOku(w, c)
             \/ \E t \in OnayTalebi : GonderOnayAc(w, t)
             \/ Birak(w)
      PROVE  belge' = belge
    BY <1>5 DEF TalepEkleOku, DuzenleOku, SilOku, IptalOku, GonderOku, GonderOnayAc, Birak
<1>6. (\E t \in OnayTalebi, sonuc \in {"onaylandi", "reddedildi", "iptal"} : OnaySonuclan(t, sonuc))
         => belge' = belge
    BY DEF OnaySonuclan
<1>7. UNCHANGED vars => belge' = belge
    BY DEF vars
<1> HIDE DEF Yeni1, Yeni2
<1>8. belge'[b] = Yok \/ Yeni1 \/ Yeni2
    BY <1>1, <1>2, <1>3, <1>4, <1>5, <1>6, <1>7 DEF Next
<1> QED
    BY <1>8 DEF Yeni1, Yeni2

\* What a step does to a handler: it keeps its work, starts new work, or ends.
LEMMA IstekDegisimi ==
    ASSUME TypeOK, [Next]_vars, NEW v \in Istek
    PROVE  \/ istek'[v] = istek[v]
           \/ istek'[v].is = "bos" /\ istek'[v].onay = Yok
           \/ \E b \in Belgeler :
                /\ TalepEkleOku(v, b)
                /\ istek'[v].is = "ekle"
                /\ istek'[v].belge = b
                /\ istek'[v].onay = Yok
                /\ istek'[v].no = Cardinality(Numarali) + 1
           \/ \E b \in Belgeler :
                /\ Var(b)
                /\ istek'[v].is \in {"duzenle", "sil", "iptal", "gonder"}
                /\ istek'[v].belge = b
                /\ istek'[v].onay = Yok
                /\ UNCHANGED <<belge, onay>>
           \/ \E t \in OnayTalebi :
                /\ GonderOnayAc(v, t)
                /\ istek'[v].is = "gonder"
                /\ istek'[v].belge = istek[v].belge
                /\ istek'[v].onay = t
<1> DEFINE Ayni == istek'[v] = istek[v]
           Bitik == istek'[v].is = "bos" /\ istek'[v].onay = Yok
           Ekler == \E b \in Belgeler :
                      /\ TalepEkleOku(v, b)
                      /\ istek'[v].is = "ekle"
                      /\ istek'[v].belge = b
                      /\ istek'[v].onay = Yok
                      /\ istek'[v].no = Cardinality(Numarali) + 1
           Okur == \E b \in Belgeler :
                     /\ Var(b)
                     /\ istek'[v].is \in {"duzenle", "sil", "iptal", "gonder"}
                     /\ istek'[v].belge = b
                     /\ istek'[v].onay = Yok
                     /\ UNCHANGED <<belge, onay>>
           Acar == \E t \in OnayTalebi :
                     /\ GonderOnayAc(v, t)
                     /\ istek'[v].is = "gonder"
                     /\ istek'[v].belge = istek[v].belge
                     /\ istek'[v].onay = t
<1>1. ASSUME NEW w \in Istek, Bitti(w)
      PROVE  Ayni \/ Bitik
    BY <1>1 DEF Bitti, Bos, TypeOK
<1>2. ASSUME NEW w \in Istek, NEW b \in Belgeler, TalepEkleOku(w, b)
      PROVE  Ayni \/ Ekler
    <2> DEFINE n == Cardinality(Numarali) + 1
    <2>1. istek' = [istek EXCEPT ![w] = [Bos EXCEPT !.is = "ekle", !.belge = b, !.no = n]]
        BY <1>2 DEF TalepEkleOku
    <2>2. CASE w = v
        <3> HIDE DEF n
        <3>1. /\ istek'[v].is = "ekle" /\ istek'[v].belge = b
              /\ istek'[v].onay = Yok /\ istek'[v].no = n
            BY <2>1, <2>2 DEF Bos, TypeOK
        <3> QED
            BY <1>2, <2>2, <3>1 DEF n
    <2>3. CASE w # v
        <3> HIDE DEF n
        <3> QED
            BY <2>1, <2>3 DEF TypeOK
    <2> QED
        BY <2>2, <2>3
<1>3. ASSUME NEW w \in Istek, NEW b \in Belgeler,
             DuzenleOku(w, b) \/ SilOku(w, b) \/ IptalOku(w, b) \/ GonderOku(w, b)
      PROVE  Ayni \/ Okur
    <2>1. PICK is \in {"duzenle", "sil", "iptal", "gonder"} :
             Var(b) /\ Okundu(w, is, b) /\ UNCHANGED <<belge, onay>>
        BY <1>3 DEF DuzenleOku, SilOku, IptalOku, GonderOku
    <2>2. CASE w = v
        <3>1. istek'[v].is = is /\ istek'[v].belge = b /\ istek'[v].onay = Yok
            BY <2>1, <2>2 DEF Okundu, Bos, TypeOK
        <3> QED
            BY <2>1, <3>1
    <2>3. CASE w # v
        BY <2>1, <2>3 DEF Okundu, TypeOK
    <2> QED
        BY <2>2, <2>3
<1>4. ASSUME NEW w \in Istek, NEW t \in OnayTalebi, GonderOnayAc(w, t)
      PROVE  Ayni \/ Acar
    <2>1. CASE w = v
        <3>1. istek[v] \in IstekSatiri
            BY DEF TypeOK
        <3>2. istek'[v] = [istek[v] EXCEPT !.onay = t]
            BY <1>4, <2>1 DEF GonderOnayAc, TypeOK
        <3>3. istek'[v].is = "gonder" /\ istek'[v].belge = istek[v].belge /\ istek'[v].onay = t
            BY <1>4, <2>1, <3>1, <3>2 DEF GonderOnayAc, IstekSatiri
        <3> QED
            BY <1>4, <2>1, <3>3
    <2>2. CASE w # v
        BY <1>4, <2>2 DEF GonderOnayAc, TypeOK
    <2> QED
        BY <2>1, <2>2
<1>5. istek' = istek => Ayni
    OBVIOUS
<1> HIDE DEF Ayni, Bitik, Ekler, Okur, Acar
<1>6. Ayni \/ Bitik \/ Ekler \/ Okur \/ Acar
    <2>1. CASE UNCHANGED vars
        BY <1>5, <2>1 DEF vars
    <2>2. ASSUME NEW w \in Istek,
                 \/ \E ek \in BOOLEAN : TalepEkleYaz(w, ek)
                 \/ \E gerekli, yukle \in BOOLEAN : DuzenleYaz(w, gerekli, yukle)
                 \/ SilYaz(w) \/ IptalYaz(w) \/ GonderYaz(w) \/ Birak(w)
          PROVE  Bitti(w)
        BY <2>2 DEF TalepEkleYaz, DuzenleYaz, SilYaz, IptalYaz, GonderYaz, Birak
    <2>3. (\E b \in Belgeler, gerekli, ek \in BOOLEAN : MasrafEkle(b, gerekli, ek)) => istek' = istek
        BY DEF MasrafEkle
    <2>4. (\E t \in OnayTalebi, sonuc \in {"onaylandi", "reddedildi", "iptal"} :
              OnaySonuclan(t, sonuc)) => istek' = istek
        BY DEF OnaySonuclan
    <2> QED
        BY <1>1, <1>2, <1>3, <1>4, <1>5, <2>1, <2>2, <2>3, <2>4 DEF Next
<1> QED
    BY <1>6 DEF Ayni, Bitik, Ekler, Okur, Acar

-----------------------------------------------------------------------------
(* The handlers: what they write exists, what they create does not.        *)

LEMMA IstekBelgesiNext == TypeOK /\ IstekBelgesi /\ [Next]_vars => IstekBelgesi'
<1> SUFFICES ASSUME TypeOK, IstekBelgesi, [Next]_vars, NEW w \in Istek
             PROVE  /\ istek'[w].is \in {"duzenle", "sil", "gonder", "iptal"} =>
                         istek'[w].belge \in Belgeler /\ belge'[istek'[w].belge] # Yok
                    /\ istek'[w].is = "ekle" =>
                         /\ istek'[w].belge \in SatinAlma
                         /\ belge'[istek'[w].belge] = Yok
                         /\ \A v \in Istek :
                              istek'[v].is = "ekle" /\ istek'[v].belge = istek'[w].belge => v = w
    BY DEF IstekBelgesi, Var
<1>1. istek'[w].is \in {"duzenle", "sil", "gonder", "iptal"} =>
         istek'[w].belge \in Belgeler /\ belge'[istek'[w].belge] # Yok
    <2> SUFFICES ASSUME istek'[w].is \in {"duzenle", "sil", "gonder", "iptal"}
                 PROVE  istek'[w].belge \in Belgeler /\ Var(istek'[w].belge)
        BY SatirDegisimi DEF Var
    <2> QED
        BY IstekDegisimi DEF IstekBelgesi, GonderOnayAc
\* A purchase request being created was free before the step and nobody inserted it.
<1>2. ASSUME NEW v \in Istek, istek'[v].is = "ekle"
      PROVE  \/ istek'[v] = istek[v]
             \/ /\ istek'[v].belge \in SatinAlma
                /\ ~Var(istek'[v].belge)
                /\ belge' = belge
                /\ \A u \in Istek : istek[u].is = "ekle" => istek[u].belge # istek'[v].belge
                /\ \A u \in Istek \ {v} : istek'[u] = istek[u]
    BY <1>2, IstekDegisimi DEF TalepEkleOku, TypeOK
<1>3. ASSUME NEW v \in Istek, istek'[v].is = "ekle"
      PROVE  istek'[v].belge \in SatinAlma /\ belge'[istek'[v].belge] = Yok
    <2>1. CASE istek'[v] = istek[v]
        <3>1. istek[v].belge \in SatinAlma /\ belge[istek[v].belge] = Yok /\ istek[v].belge \in Belgeler
            BY <1>3, <2>1 DEF IstekBelgesi, Var, Belgeler
        <3>2. PICK b \in Belgeler : b = istek[v].belge
            BY <3>1
        <3>3. b \notin Masraf
            BY <3>1, <3>2, BelgeAssumption
        <3>4. ASSUME NEW u \in Istek, NEW ek \in BOOLEAN, TalepEkleYaz(u, ek), istek[u].belge = b,
                     istek'[u].is = "bos"
              PROVE  FALSE
            <4>1. u = v
                BY <1>3, <2>1, <3>2, <3>4 DEF TalepEkleYaz, IstekBelgesi
            <4> QED
                BY <1>3, <3>4, <4>1
        <3>5. ~Var(b)
            BY <3>1, <3>2 DEF Var
        <3>6. belge'[b] = Yok
            BY <3>3, <3>4, <3>5, YeniSatir
        <3> QED
            BY <2>1, <3>1, <3>2, <3>6
    <2>2. CASE istek'[v] # istek[v]
        BY <1>2, <1>3, <2>2 DEF Var
    <2> QED
        BY <2>1, <2>2
<1>4. ASSUME NEW v \in Istek, istek'[w].is = "ekle", istek'[v].is = "ekle",
             istek'[v].belge = istek'[w].belge
      PROVE  v = w
    BY <1>2, <1>4 DEF IstekBelgesi
<1> QED
    BY <1>1, <1>3, <1>4

-----------------------------------------------------------------------------
(* The approval request of a document that waits.                          *)

LEMMA IstekOnayiNext == TypeOK /\ IstekBelgesi /\ IstekOnayi /\ [Next]_vars => IstekOnayi'
<1> SUFFICES ASSUME TypeOK, IstekBelgesi, IstekOnayi, [Next]_vars,
                    NEW w \in Istek, istek'[w].onay # Yok
             PROVE  onay'[istek'[w].onay] # Yok /\ onay'[istek'[w].onay].belge = istek'[w].belge
    BY DEF IstekOnayi
<1>1. CASE istek'[w] = istek[w]
    <2>1. istek[w].onay \in OnayTalebi /\ onay[istek[w].onay] # Yok
          /\ onay[istek[w].onay].belge = istek[w].belge
        BY <1>1 DEF IstekOnayi, TypeOK, IstekSatiri
    <2> QED
        BY <1>1, <2>1, OnayKalir
<1>2. ASSUME NEW t \in OnayTalebi, GonderOnayAc(w, t), istek'[w].belge = istek[w].belge,
             istek'[w].onay = t
      PROVE  onay'[t] # Yok /\ onay'[t].belge = istek'[w].belge
    <2>1. onay'[t] = [durum |-> "bekliyor", belge |-> istek[w].belge]
        BY <1>2 DEF GonderOnayAc, TypeOK
    <2>2. onay'[t] \in OnaySatiri
        BY <1>2, <2>1 DEF GonderOnayAc, IstekBelgesi, OnaySatiri, OnayDurumu
    <2> QED
        BY <1>2, <2>1, <2>2, BelgeAssumption
<1> QED
    BY <1>1, <1>2, IstekDegisimi

LEMMA OnayReferansiNext ==
    TypeOK /\ IstekBelgesi /\ IstekOnayi /\ OnayReferansi /\ [Next]_vars => OnayReferansi'
<1> SUFFICES ASSUME TypeOK, IstekBelgesi, IstekOnayi, OnayReferansi, [Next]_vars,
                    NEW b \in Belgeler, belge'[b] # Yok, belge'[b].durum = "onay_bekliyor"
             PROVE  /\ belge'[b].onay # Yok
                    /\ onay'[belge'[b].onay] # Yok
                    /\ onay'[belge'[b].onay].belge = b
    BY DEF OnayReferansi, Var
<1>1. Var(b)
    BY YeniSatir
<1>2. CASE belge'[b].onay = belge[b].onay /\ belge[b].durum = "onay_bekliyor"
    <2>1. /\ belge[b].onay \in OnayTalebi
          /\ onay[belge[b].onay] # Yok
          /\ onay[belge[b].onay].belge = b
        BY <1>1, <1>2 DEF OnayReferansi, TypeOK, BelgeSatiri, Var
    <2> QED
        BY <1>2, <2>1, OnayKalir, BelgeAssumption
<1>3. ASSUME NEW w \in Istek, GonderYaz(w), istek[w].belge = b, belge'[b].onay = istek[w].onay
      PROVE  /\ belge'[b].onay # Yok
             /\ onay'[belge'[b].onay] # Yok
             /\ onay'[belge'[b].onay].belge = b
    <2>1. istek[w].onay # Yok /\ onay' = onay
        BY <1>3 DEF GonderYaz, OnayAcildi
    <2> QED
        BY <1>3, <2>1 DEF IstekOnayi
<1> QED
    BY <1>1, <1>2, <1>3, SatirDegisimi

-----------------------------------------------------------------------------
(* The numbers of purchase requests.                                       *)

LEMMA NumaraliSonlu ==
    /\ IsFiniteSet(Numarali)
    /\ Cardinality(Numarali) \in Nat
BY BelgeAssumption, FS_Subset, FS_CardinalityType DEF Numarali

\* Either no purchase request is inserted and the numbers stay, or one is, with the
\* number its handler has read, which nobody has.
LEMMA NumaraDegisimi ==
    ASSUME TypeOK, IstekBelgesi, [Next]_vars
    PROVE  \/ Numarali' = Numarali /\ \A b \in Numarali : belge'[b].no = belge[b].no
           \/ \E w \in Istek :
                /\ istek[w].is = "ekle"
                /\ NumaraBos(istek[w].no)
                /\ istek[w].belge \notin Numarali
                /\ Numarali' = Numarali \cup {istek[w].belge}
                /\ belge'[istek[w].belge].no = istek[w].no
                /\ \A b \in Numarali : belge'[b].no = belge[b].no
<1>1. \A b \in Numarali : b \in Numarali' /\ belge'[b].no = belge[b].no
    <2> SUFFICES ASSUME NEW b \in Numarali
                 PROVE  b \in SatinAlma /\ Var(b)' /\ belge'[b].no = belge[b].no
        BY DEF Numarali
    <2> QED
        BY SatirDegisimi DEF Numarali, Belgeler
<1>2. CASE Numarali' \subseteq Numarali
    BY <1>1, <1>2
<1>3. CASE ~(Numarali' \subseteq Numarali)
    <2>1. PICK b \in SatinAlma : ~Var(b) /\ belge'[b] # Yok
        BY <1>3 DEF Numarali, Var
    <2>2. PICK w \in Istek : \E ek \in BOOLEAN :
             TalepEkleYaz(w, ek) /\ istek[w].belge = b /\ belge'[b].no = istek[w].no
        <3>1. b \in Belgeler /\ b \notin Masraf
            BY BelgeAssumption DEF Belgeler
        <3> QED
            BY <2>1, <3>1, YeniSatir
    <2>3. \A c \in Belgeler \ {b} : belge'[c] = belge[c]
        BY <2>2 DEF TalepEkleYaz, TypeOK
    <2>4. Numarali' = Numarali \cup {b}
        BY <1>1, <2>1, <2>3 DEF Numarali, Var, Belgeler
    <2>5. b \notin Numarali
        BY <2>1 DEF Numarali
    <2> QED
        BY <1>1, <2>2, <2>4, <2>5 DEF TalepEkleYaz
<1> QED
    BY <1>2, <1>3

LEMMA NumaraNext ==
    TypeOK /\ IstekBelgesi /\ NumaraArdisik /\ IstekNo /\ [Next]_vars => (NumaraArdisik /\ IstekNo)'
<1> SUFFICES ASSUME TypeOK, IstekBelgesi, NumaraArdisik, IstekNo, [Next]_vars
             PROVE  NumaraArdisik' /\ IstekNo'
    OBVIOUS
<1> DEFINE n == Cardinality(Numarali)
<1>1. n \in Nat /\ IsFiniteSet(Numarali)
    BY NumaraliSonlu
<1>2. {belge[b].no : b \in Numarali} = 1..n
    BY DEF NumaraArdisik
\* The inserted number is n + 1: it is at most n + 1, and 1 to n are taken.
<1>3. \/ /\ Numarali' = Numarali
         /\ {belge'[b].no : b \in Numarali'} = 1..n
      \/ /\ Cardinality(Numarali') = n + 1
         /\ {belge'[b].no : b \in Numarali'} = 1..(n + 1)
    <2>1. CASE Numarali' = Numarali /\ \A b \in Numarali : belge'[b].no = belge[b].no
        BY <1>2, <2>1
    <2>2. ASSUME NEW w \in Istek, istek[w].is = "ekle", NumaraBos(istek[w].no),
                 istek[w].belge \notin Numarali,
                 Numarali' = Numarali \cup {istek[w].belge},
                 belge'[istek[w].belge].no = istek[w].no,
                 \A b \in Numarali : belge'[b].no = belge[b].no
          PROVE  /\ Cardinality(Numarali') = n + 1
                 /\ {belge'[b].no : b \in Numarali'} = 1..(n + 1)
        <3>1. Cardinality(Numarali') = n + 1
            BY <1>1, <2>2, FS_AddElement
        <3>2. istek[w].no \in 1..(n + 1)
            BY <2>2 DEF IstekNo
        <3>3. istek[w].no \notin 1..n
            BY <1>2, <2>2 DEF NumaraBos
        <3>4. istek[w].no = n + 1
            BY <1>1, <3>2, <3>3
        <3>5. {belge'[b].no : b \in Numarali'} = 1..n \cup {n + 1}
            BY <1>2, <2>2, <3>4
        <3>6. 1..n \cup {n + 1} = 1..(n + 1)
            BY <1>1
        <3> QED
            BY <3>1, <3>5, <3>6
    <2> HIDE DEF n
    <2> QED
        BY <2>1, <2>2, NumaraDegisimi
<1>4. NumaraArdisik'
    BY <1>3 DEF NumaraArdisik
<1>5. n \in Nat /\ Cardinality(Numarali)' \in {n, n + 1}
    BY <1>1, <1>3
<1>6. ASSUME NEW v \in Istek, istek'[v].is = "ekle"
      PROVE  istek'[v].no \in 1..(Cardinality(Numarali)' + 1)
    <2>1. istek'[v].no \in 1..(n + 1)
        BY <1>6, IstekDegisimi, <1>1 DEF IstekNo
    <2> HIDE DEF n
    <2> QED
        BY <1>5, <2>1
<1> QED
    BY <1>4, <1>6 DEF IstekNo

-----------------------------------------------------------------------------
(* The invariant and the theorems.                                         *)

LEMMA IInvInit == Init => IInv
<1> SUFFICES ASSUME Init PROVE IInv
    OBVIOUS
<1>1. TypeOK
    BY TypeInit
<1>2. Numarali = {}
    BY DEF Init, Numarali, Var, Belgeler
<1>3. NumaraArdisik
    BY <1>2, FS_EmptySet DEF NumaraArdisik
<1>4. IstekBelgesi /\ IstekOnayi /\ IstekNo /\ OnayReferansi
    BY DEF Init, IstekBelgesi, IstekOnayi, IstekNo, OnayReferansi, Bos, Var, Belgeler
<1> QED
    BY <1>1, <1>3, <1>4 DEF IInv

LEMMA IInvNext == IInv /\ [Next]_vars => IInv'
BY TypeNext, IstekBelgesiNext, IstekOnayiNext, OnayReferansiNext, NumaraNext DEF IInv

LEMMA IInvHer == Spec => []IInv
BY IInvInit, IInvNext, PTL DEF Spec

\* Documents, approval requests and handlers have the columns and values the code
\* gives them, whatever number of handlers overlap.
THEOREM BelgeTurleri == Spec => []TypeOK
<1>1. IInv => TypeOK
    BY DEF IInv
<1> QED
    BY <1>1, IInvHer, PTL

\* Every document that waits for approval refers to an approval request of its own,
\* for any number of overlapping and interrupted submissions: onaya_gonder and
\* talep_onaya_gonder mark the document only after talep_olustur has committed.
THEOREM OnayReferansiVar == Spec => []OnayReferansi
<1>1. IInv => OnayReferansi
    BY DEF IInv
<1> QED
    BY <1>1, IInvHer, PTL

\* The numbers of the purchase requests are 1 to their count, for any number of
\* handlers that count before others insert: talep_no_olustur counts, the unique
\* column talep_no refuses the duplicates, and nothing removes a request.
THEOREM NumaralarArdisik == Spec => []NumaraArdisik
<1>1. IInv => NumaraArdisik
    BY DEF IInv
<1> QED
    BY <1>1, IInvHer, PTL
-----------------------------------------------------------------------------
(* One handler at a time (BelgeIsci).                                      *)

\* Only a handler at work changes its slot, so only those take steps.
LEMMA AdimIscinin ==
    ASSUME TypeOK, IsciDisiBosta, IsciNext, NEW w \in Istek,
           \/ \E b \in Belgeler : \/ TalepEkleOku(w, b) \/ DuzenleOku(w, b) \/ SilOku(w, b)
                                  \/ IptalOku(w, b) \/ GonderOku(w, b)
           \/ \E ek \in BOOLEAN : TalepEkleYaz(w, ek)
           \/ \E gerekli, yukle \in BOOLEAN : DuzenleYaz(w, gerekli, yukle)
           \/ SilYaz(w) \/ IptalYaz(w) \/ GonderYaz(w) \/ Birak(w)
           \/ \E t \in OnayTalebi : GonderOnayAc(w, t)
    PROVE  w \in isci
<1> SUFFICES ASSUME w \notin isci PROVE FALSE
    OBVIOUS
<1>1. istek[w].is = "bos" /\ istek'[w].is = "bos"
    BY DEF IsciDisiBosta, Bosta, IsciNext
<1>2. CASE \E b \in Belgeler : \/ TalepEkleOku(w, b) \/ DuzenleOku(w, b) \/ SilOku(w, b)
                               \/ IptalOku(w, b) \/ GonderOku(w, b)
    <2>1. istek'[w].is \in {"ekle", "duzenle", "sil", "iptal", "gonder"}
        BY <1>2 DEF TalepEkleOku, DuzenleOku, SilOku, IptalOku, GonderOku, Okundu, Bos, TypeOK
    <2> QED
        BY <1>1, <2>1
<1>3. CASE \/ \E ek \in BOOLEAN : TalepEkleYaz(w, ek)
           \/ \E gerekli, yukle \in BOOLEAN : DuzenleYaz(w, gerekli, yukle)
           \/ SilYaz(w) \/ IptalYaz(w) \/ GonderYaz(w) \/ Birak(w)
           \/ \E t \in OnayTalebi : GonderOnayAc(w, t)
    BY <1>1, <1>3 DEF TalepEkleYaz, DuzenleYaz, SilYaz, IptalYaz, GonderYaz, Birak, GonderOnayAc, Bosta
<1> QED
    BY <1>2, <1>3

\* What any step does to a document when no two handlers overlap: nothing its
\* approvers see, an edit of a document they do not see, a cancellation, or a
\* submission whose condition holds as it is written.
Icerigi(b) == <<belge[b].gerekli, belge[b].ek>>

LEMMA SiraliDegisim ==
    ASSUME TypeOK, IstekBelgesi, KopyaGuncel, Sirali, Next, NEW b \in Belgeler, Var(b)
    PROVE  \/ belge'[b].durum = belge[b].durum /\ UNCHANGED Icerigi(b)
           \/ Duzenlenebilir(b) /\ Duzenlenebilir(b)'
           \/ belge'[b].durum = "iptal" /\ UNCHANGED Icerigi(b)
           \/ Gonderilebilir(b) /\ belge'[b].durum = "onay_bekliyor" /\ UNCHANGED Icerigi(b)
<1> DEFINE Kalan == belge'[b].durum = belge[b].durum /\ UNCHANGED Icerigi(b)
<1>0. belge[b] \in BelgeSatiri /\ (belge'[b] = belge[b] => Kalan)
    BY DEF TypeOK, Var, Icerigi
<1>1. ASSUME NEW c \in Belgeler, NEW gerekli \in BOOLEAN, NEW ek \in BOOLEAN,
             MasrafEkle(c, gerekli, ek)
      PROVE  Kalan
    BY <1>0, <1>1 DEF MasrafEkle, Var, TypeOK
<1>2. ASSUME NEW w \in Istek, NEW ek \in BOOLEAN, TalepEkleYaz(w, ek)
      PROVE  Kalan
    BY <1>0, <1>2 DEF TalepEkleYaz, Var, TypeOK, IstekBelgesi
<1>3. ASSUME NEW w \in Istek, NEW gerekli \in BOOLEAN, NEW yukle \in BOOLEAN,
             DuzenleYaz(w, gerekli, yukle)
      PROVE  Kalan \/ (Duzenlenebilir(b) /\ Duzenlenebilir(b)')
    <2>1. CASE istek[w].belge = b
        <3> DEFINE g == IF gerekli = istek[w].gerekli THEN belge[b].gerekli ELSE gerekli
                   e == belge[b].ek \/ yukle
                   d == IF istek[w].durum = "reddedildi" THEN "taslak" ELSE belge[b].durum
        <3>1. Duzenlenebilir(b)
            BY <1>3, <2>1 DEF KopyaGuncel, KopyaIyi, DuzenleYaz
        <3>2. belge'[b] = [belge[b] EXCEPT !.gerekli = g, !.ek = e, !.durum = d]
            BY <1>3, <2>1 DEF DuzenleYaz, TypeOK
        <3>3. d \in {"taslak", "reddedildi"}
            BY <3>1 DEF Duzenlenebilir
        <3> HIDE DEF g, e, d
        <3>4. belge'[b].durum = d
            BY <1>0, <3>2 DEF BelgeSatiri
        <3> QED
            BY <3>1, <3>3, <3>4 DEF Duzenlenebilir
    <2>2. CASE istek[w].belge # b
        BY <1>0, <1>3, <2>2 DEF DuzenleYaz, TypeOK
    <2> QED
        BY <2>1, <2>2
<1>4. ASSUME NEW w \in Istek, SilYaz(w)
      PROVE  Kalan
    BY <1>0, <1>4 DEF SilYaz, TypeOK, BelgeSatiri, Icerigi
<1>5. ASSUME NEW w \in Istek, IptalYaz(w)
      PROVE  Kalan \/ (belge'[b].durum = "iptal" /\ UNCHANGED Icerigi(b))
    BY <1>0, <1>5 DEF IptalYaz, TypeOK, BelgeSatiri, Icerigi
<1>6. ASSUME NEW w \in Istek, GonderYaz(w)
      PROVE  \/ Kalan
             \/ Gonderilebilir(b) /\ belge'[b].durum = "onay_bekliyor" /\ UNCHANGED Icerigi(b)
    <2>1. CASE istek[w].belge = b
        <3>1. Gonderilebilir(b)
            BY <1>6, <2>1 DEF KopyaGuncel, KopyaIyi, GonderYaz
        <3>2. belge'[b] = [belge[b] EXCEPT !.durum = "onay_bekliyor", !.onay = istek[w].onay]
            BY <1>6, <2>1 DEF GonderYaz, TypeOK
        <3>3. belge'[b].durum = "onay_bekliyor" /\ belge'[b].gerekli = belge[b].gerekli
              /\ belge'[b].ek = belge[b].ek
            BY <1>0, <3>2 DEF BelgeSatiri
        <3> QED
            BY <3>1, <3>3 DEF Icerigi
    <2>2. CASE istek[w].belge # b
        BY <1>0, <1>6, <2>2 DEF GonderYaz, TypeOK
    <2> QED
        BY <2>1, <2>2
<1>7. ASSUME NEW w \in Istek,
             \/ \E c \in Belgeler : \/ TalepEkleOku(w, c) \/ DuzenleOku(w, c) \/ SilOku(w, c)
                                    \/ IptalOku(w, c) \/ GonderOku(w, c)
             \/ \E t \in OnayTalebi : GonderOnayAc(w, t)
             \/ Birak(w)
      PROVE  Kalan
    BY <1>7 DEF TalepEkleOku, DuzenleOku, SilOku, IptalOku, GonderOku, GonderOnayAc, Birak, Icerigi
<1>8. (\E t \in OnayTalebi, sonuc \in {"onaylandi", "reddedildi", "iptal"} : OnaySonuclan(t, sonuc))
         => Kalan
    BY DEF OnaySonuclan, Icerigi
<1> HIDE DEF Kalan
<1>9. \/ Kalan
      \/ Duzenlenebilir(b) /\ Duzenlenebilir(b)'
      \/ belge'[b].durum = "iptal" /\ UNCHANGED Icerigi(b)
      \/ Gonderilebilir(b) /\ belge'[b].durum = "onay_bekliyor" /\ UNCHANGED Icerigi(b)
    BY <1>1, <1>2, <1>3, <1>4, <1>5, <1>6, <1>7, <1>8 DEF Next
<1> QED
    BY <1>9 DEF Kalan

\* With one handler at work the others hold no copy, and its own row is written by it
\* alone.
LEMMA KopyaNext ==
    ASSUME IsciIInv, IsciNext, IsciDisiBosta'
    PROVE  KopyaGuncel'
<1> SUFFICES ASSUME Sirali, NEW v \in Istek, istek'[v].is \in {"duzenle", "iptal", "gonder"}
             PROVE  KopyaIyi(v)'
    BY DEF IsciNext, KopyaGuncel, KopyaIyi, Sirali
<1>1. TypeOK /\ IstekBelgesi /\ IsciDisiBosta /\ KopyaIyi(v) /\ Next
    BY DEF IsciIInv, IInv, IsciNext, KopyaGuncel
<1>2. v \in isci
    BY DEF IsciDisiBosta, Bosta, IsciNext
<1>3. ASSUME \/ UNCHANGED istek
             \/ \E t \in OnayTalebi : istek' = [istek EXCEPT ![v].onay = t],
             Var(istek[v].belge) => belge'[istek[v].belge] = belge[istek[v].belge]
      PROVE  KopyaIyi(v)'
    <2>1. /\ istek'[v].is = istek[v].is /\ istek'[v].belge = istek[v].belge
          /\ istek'[v].durum = istek[v].durum
        BY <1>1, <1>3 DEF TypeOK, IstekSatiri
    <2>2. belge'[istek[v].belge] = belge[istek[v].belge]
        BY <1>1, <1>3, <2>1 DEF IstekBelgesi
    <2>3. /\ Duzenlenebilir(istek[v].belge) => Duzenlenebilir(istek[v].belge)'
          /\ Gonderilebilir(istek[v].belge) => Gonderilebilir(istek[v].belge)'
        BY <2>1, <2>2 DEF Duzenlenebilir, Gonderilebilir
    <2> QED
        BY <1>1, <2>1, <2>2, <2>3 DEF KopyaIyi
<1>4. ASSUME NEW c \in Belgeler, NEW gerekli \in BOOLEAN, NEW ek \in BOOLEAN,
             MasrafEkle(c, gerekli, ek)
      PROVE  UNCHANGED istek /\ (Var(istek[v].belge) => belge'[istek[v].belge] = belge[istek[v].belge])
    BY <1>1, <1>4 DEF MasrafEkle, TypeOK
<1>5. ASSUME NEW c \in Belgeler,
             DuzenleOku(v, c) \/ SilOku(v, c) \/ IptalOku(v, c) \/ GonderOku(v, c)
      PROVE  KopyaIyi(v)'
    <2>1. PICK is \in Isler :
             /\ Okundu(v, is, c) /\ UNCHANGED belge
             /\ is = "duzenle" => Duzenlenebilir(c)
             /\ is = "gonder" => Gonderilebilir(c)
        BY <1>5 DEF DuzenleOku, SilOku, IptalOku, GonderOku, Isler
    <2>2. istek'[v] = [Bos EXCEPT !.is = is, !.belge = c, !.durum = belge[c].durum,
                                  !.gerekli = belge[c].gerekli]
        BY <1>1, <2>1 DEF Okundu, TypeOK
    <2>3. istek'[v].is = is /\ istek'[v].belge = c /\ istek'[v].durum = belge[c].durum
        BY <2>2 DEF Bos
    <2>4. /\ Duzenlenebilir(c) => Duzenlenebilir(c)'
          /\ Gonderilebilir(c) => Gonderilebilir(c)'
        BY <2>1 DEF Duzenlenebilir, Gonderilebilir
    <2>5. (Duzenlenebilir(istek[v].belge))' <=> Duzenlenebilir(c)'
        BY <2>3 DEF Duzenlenebilir
    <2>6. (Gonderilebilir(istek[v].belge))' <=> Gonderilebilir(c)'
        BY <2>3 DEF Gonderilebilir
    <2> QED
        BY <2>1, <2>3, <2>4, <2>5, <2>6 DEF KopyaIyi
<1>6. ASSUME NEW w \in Istek,
             \/ \E ek \in BOOLEAN : TalepEkleYaz(w, ek)
             \/ \E gerekli, yukle \in BOOLEAN : DuzenleYaz(w, gerekli, yukle)
             \/ SilYaz(w) \/ IptalYaz(w) \/ GonderYaz(w) \/ Birak(w)
      PROVE  FALSE
    <2>1. w = v
        BY <1>1, <1>2, <1>6, AdimIscinin DEF Sirali
    <2>2. Bitti(v)
        BY <1>6, <2>1 DEF TalepEkleYaz, DuzenleYaz, SilYaz, IptalYaz, GonderYaz, Birak
    <2> QED
        BY <1>1, <2>2 DEF Bitti, Bos, TypeOK
<1>7. ASSUME NEW c \in Belgeler, TalepEkleOku(v, c) PROVE FALSE
    BY <1>1, <1>7 DEF TalepEkleOku, Bos, TypeOK
<1>8. \A w \in Istek :
         \/ \E c \in Belgeler : \/ TalepEkleOku(w, c) \/ DuzenleOku(w, c) \/ SilOku(w, c)
                                \/ IptalOku(w, c) \/ GonderOku(w, c)
         \/ \E t \in OnayTalebi : GonderOnayAc(w, t)
         => w = v
    BY <1>1, <1>2, AdimIscinin DEF Sirali
<1>9. ASSUME NEW t \in OnayTalebi, GonderOnayAc(v, t)
      PROVE  istek' = [istek EXCEPT ![v].onay = t] /\ UNCHANGED belge
    BY <1>9 DEF GonderOnayAc
<1>10. ASSUME NEW t \in OnayTalebi, NEW sonuc \in {"onaylandi", "reddedildi", "iptal"},
              OnaySonuclan(t, sonuc)
       PROVE  UNCHANGED <<belge, istek>>
    BY <1>10 DEF OnaySonuclan
<1> QED
    BY <1>1, <1>3, <1>4, <1>5, <1>6, <1>7, <1>8, <1>9, <1>10 DEF Next

\* The documents that wait are complete: a submission finds its condition as it read it.
LEMMA EkTamamNext ==
    ASSUME IsciIInv, IsciNext
    PROVE  EkTamam'
<1> SUFFICES ASSUME Sirali, NEW b \in Belgeler, Var(b)', belge'[b].durum = "onay_bekliyor",
                    belge'[b].gerekli
             PROVE  belge'[b].ek
    BY DEF IsciNext, EkTamam, Sirali
<1>1. TypeOK /\ IstekBelgesi /\ KopyaGuncel /\ EkTamam /\ Next
    BY DEF IsciIInv, IInv, IsciNext
<1>2. CASE Var(b)
    BY <1>1, <1>2, SiraliDegisim DEF EkTamam, Duzenlenebilir, Gonderilebilir, Icerigi
<1>3. CASE ~Var(b)
    BY <1>1, <1>3, YeniSatir DEF Var
<1> QED
    BY <1>2, <1>3

LEMMA IsciIInvHer == IsciSpec => []IsciIInv
<1>1. IsciInit => IsciIInv
    <2> SUFFICES ASSUME IsciInit PROVE IsciIInv
        OBVIOUS
    <2>1. IInv
        BY IInvInit DEF IsciInit
    <2> QED
        BY <2>1 DEF IsciInit, Init, IsciIInv, IsciDisiBosta, KopyaGuncel, KopyaIyi, EkTamam, Bosta, Bos, Var
<1>2. IsciIInv /\ [IsciNext]_isciVars => IsciIInv'
    <2> SUFFICES ASSUME IsciIInv, [IsciNext]_isciVars PROVE IsciIInv'
        OBVIOUS
    <2>1. IInv'
        BY IInvNext DEF IsciIInv, IsciNext, isciVars, vars
    <2>2. IsciDisiBosta'
        BY DEF IsciIInv, IsciDisiBosta, Bosta, IsciNext, isciVars
    <2>3. CASE UNCHANGED isciVars
        BY <2>1, <2>2, <2>3
        DEF isciVars, IsciIInv, KopyaGuncel, KopyaIyi, EkTamam, Sirali, Var, Duzenlenebilir, Gonderilebilir
    <2>4. CASE IsciNext
        BY <2>1, <2>2, <2>4, KopyaNext, EkTamamNext DEF IsciIInv
    <2> QED
        BY <2>3, <2>4
<1> QED
    BY <1>1, <1>2, PTL DEF IsciSpec

\* One after the other, no handler sends a document to the approvers without the
\* invoice or the item it needs.
THEOREM EklerTamam == IsciSpec => []EkTamam
<1>1. IsciIInv => EkTamam
    BY DEF IsciIInv
<1> QED
    BY <1>1, IsciIInvHer, PTL

\* What a step may not do to a document that waits or is cancelled.
LEMMA SiraliAdim ==
    ASSUME IsciIInv, IsciNext, Sirali, NEW b \in Belgeler, Var(b)
    PROVE  /\ belge[b].durum = "onay_bekliyor" => UNCHANGED Icerigi(b)
           /\ belge[b].durum = "iptal" => belge'[b].durum = "iptal"
<1>1. TypeOK /\ IstekBelgesi /\ KopyaGuncel /\ Next
    BY DEF IsciIInv, IInv, IsciNext
<1> QED
    BY <1>1, SiraliDegisim DEF Duzenlenebilir, Gonderilebilir

\* One after the other, no handler changes what the approvers are looking at.
THEOREM IcerikDonmus == IsciSpec => DonmusIcerik
<1>1. IsciIInv /\ [IsciNext]_isciVars =>
        [Sirali =>
           \A b \in Belgeler :
              Var(b) /\ belge[b].durum = "onay_bekliyor" =>
                 /\ belge'[b].gerekli = belge[b].gerekli
                 /\ belge'[b].ek = belge[b].ek]_isciVars
    BY SiraliAdim DEF Icerigi
<1> QED
    BY <1>1, IsciIInvHer, PTL DEF IsciSpec, DonmusIcerik

\* One after the other, no handler revives a cancelled purchase request.
THEOREM IptalKaliyor == IsciSpec => IptalKalici
<1>1. IsciIInv /\ [IsciNext]_isciVars =>
        [Sirali =>
           \A b \in Belgeler :
              Var(b) /\ belge[b].durum = "iptal" => belge'[b].durum = "iptal"]_isciVars
    BY SiraliAdim
<1> QED
    BY <1>1, IsciIInvHer, PTL DEF IsciSpec, IptalKalici
=============================================================================
