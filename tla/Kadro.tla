-------------------------------- MODULE Kadro --------------------------------
(***************************************************************************)
(* Customers, their projects and the positions to staff (modules/proje):   *)
(* how candidates and employees get a position, and what the pages of a    *)
(* project count.                                                          *)
(***************************************************************************)
EXTENDS IseAlim, FiniteSets, FiniteSetsExt

CONSTANTS
    Musteriler,  \* ids for rows of musteriler
    Projeler,    \* ids for rows of projeler
    Kadrolar,    \* ids for rows of hedef_kadrolar
    MaxHedef,    \* bound: hedef_sayi
    TohumProjeleri, TohumKadrolari  \* seed_data's projects, with their customers, and positions

KadroSatiri == [proje : Projeler, hedef : 0..MaxHedef]

ASSUME KadroAssumption ==
    /\ MaxHedef \in Nat
    /\ IsFiniteSet(Kadrolar) /\ IsFiniteSet(Calisanlar)
    /\ Yok \notin KadroSatiri
    /\ Yok \notin Musteriler \cup Kadrolar
    /\ DOMAIN TohumProjeleri \subseteq Projeler
    /\ DOMAIN TohumKadrolari \subseteq Kadrolar
    /\ TohumProjeleri \in [DOMAIN TohumProjeleri -> Musteriler]
    /\ TohumKadrolari \in [DOMAIN TohumKadrolari -> KadroSatiri]

VARIABLES
    musteri,    \* the customers
    proje,      \* the projects, each by its customer
    kadro,      \* the positions
    adayKadro,  \* kadro_id of each candidate
    yer         \* kadro_id of each employee

kadroVars == <<musteri, proje, kadro, adayKadro, yer>>

KadroInit ==
    /\ musteri = {}
    /\ proje = [p \in Projeler |-> Yok]
    /\ kadro = [k \in Kadrolar |-> Yok]
    /\ adayKadro = [a \in Adaylar |-> Yok]
    /\ yer = [c \in Calisanlar |-> Yok]

-----------------------------------------------------------------------------
(* Customers, projects, positions.                                         *)

\* musteri_ekle; musteri_duzenle changes nothing that is kept here.
MusteriEkle(m) ==
    /\ musteri' = musteri \cup {m}
    /\ UNCHANGED <<proje, kadro, adayKadro, yer, iseAlimVars, oturum>>

ProjeYaz(p, m) ==
    /\ m \in musteri
    /\ proje' = [proje EXCEPT ![p] = m]
    /\ UNCHANGED <<musteri, kadro, adayKadro, yer, iseAlimVars, oturum>>

\* proje_ekle: the form names the customer.
ProjeEkle(p, m) == proje[p] = Yok /\ ProjeYaz(p, m)

\* proje_duzenle, also to another customer.
ProjeDuzenle(p, m) == proje[p] # Yok /\ ProjeYaz(p, m)

\* kadro_ekle.
KadroEkle(k, p, h) ==
    /\ proje[p] # Yok
    /\ kadro[k] = Yok
    /\ kadro' = [kadro EXCEPT ![k] = [proje |-> p, hedef |-> h]]
    /\ UNCHANGED <<musteri, proje, adayKadro, yer, iseAlimVars, oturum>>

\* kadro_duzenle, also to fewer than the position has.
KadroDuzenle(k, h) ==
    /\ kadro[k] # Yok
    /\ kadro' = [kadro EXCEPT ![k].hedef = h]
    /\ UNCHANGED <<musteri, proje, adayKadro, yer, iseAlimVars, oturum>>

\* seed_projeler: nothing is entered, not even a project or a position that is missing,
\* unless one of its customers is.
TohumProje ==
    LET musteriler == {TohumProjeleri[p] : p \in DOMAIN TohumProjeleri} IN
    /\ ~(musteriler \subseteq musteri)
    /\ musteri' = musteri \cup musteriler
    /\ proje' = [p \in Projeler |->
         IF proje[p] = Yok /\ p \in DOMAIN TohumProjeleri THEN TohumProjeleri[p] ELSE proje[p]]
    /\ kadro' = [k \in Kadrolar |->
         IF kadro[k] = Yok /\ k \in DOMAIN TohumKadrolari THEN TohumKadrolari[k] ELSE kadro[k]]
    /\ UNCHANGED <<adayKadro, yer, iseAlimVars, oturum>>

-----------------------------------------------------------------------------
(* Candidates and employees of a position.                                 *)

\* kadro_aday_ekle, aday_davet.
KadroAday(k, a) ==
    /\ kadro[k] # Yok
    /\ KadroAdayEkle(a) \/ AdayDavet(a)
    /\ adayKadro' = [adayKadro EXCEPT ![a] = k]
    /\ UNCHANGED <<musteri, proje, kadro, yer, calisanVars, tip, evrak, dosya>>

\* Hiring: aday_ise_al passes the candidate's position on, aday_calisana_donustur does
\* not.  Neither asks whether it is still free.
KadroAlim(i, c) ==
    LET r == istek[i] IN
    /\ Alim(i, c)
    /\ yer' = [yer EXCEPT ![c] = IF r.kimden = Yok THEN adayKadro[r.aday] ELSE Yok]
    /\ UNCHANGED <<musteri, proje, kadro, adayKadro>>

-----------------------------------------------------------------------------
(* What the pages count.                                                   *)

\* Mutant: an employee on leave does not count for the position.
MevcutSayi_aktif(k) ==
    Cardinality({c \in Calisanlar : yer[c] = k /\ calisan[c].durum = "aktif"})

\* HedefKadro.mevcut_sayi.
MevcutSayi(k) ==
    Cardinality({c \in Calisanlar : yer[c] = k /\ calisan[c].durum \in {"aktif", "izinli"}})

\* HedefKadro.eksik_sayi.
EksikSayi(k) == Max({0, kadro[k].hedef - MevcutSayi(k)})

Kadrolari(p) == {k \in Kadrolar : kadro[k] # Yok /\ kadro[k].proje = p}

\* The sum of the numbers f[k], as the size of so many pairs.
Toplam(f) == Cardinality(UNION {{k} \X (1..f[k]) : k \in DOMAIN f})

\* Proje.toplam_kadro.
ToplamKadro(p) == Toplam([k \in Kadrolari(p) |-> kadro[k].hedef])

\* Proje.mevcut_calisan, by a join of its own.
MevcutCalisan(p) ==
    Cardinality({c \in Calisanlar :
        yer[c] \in Kadrolari(p) /\ calisan[c].durum \in {"aktif", "izinli"}})

\* proje_detay's eksik_kadro.
EksikKadro(p) == ToplamKadro(p) - MevcutCalisan(p)

-----------------------------------------------------------------------------

KadroNext ==
    \/ TohumProje
    \/ \E m \in Musteriler :
         MusteriEkle(m) \/ \E p \in Projeler : ProjeEkle(p, m) \/ ProjeDuzenle(p, m)
    \/ \E k \in Kadrolar, h \in 0..MaxHedef :
         KadroDuzenle(k, h) \/ \E p \in Projeler : KadroEkle(k, p, h)
    \/ \E k \in Kadrolar, a \in Adaylar : KadroAday(k, a)
    \/ /\ \E i \in Istekler :
            \/ \E a \in Adaylar :
                 KvkkOnaylaOku(i, a) /\ UNCHANGED <<calisanVars, tip, evrak, dosya>>
            \/ AdayYaz(i) /\ UNCHANGED <<calisanVars, tip, evrak, dosya>>
            \/ \E a \in Adaylar : DonusturOku(i, a) \/ IseAlOku(i, a, Yok)
            \/ \E c \in Calisanlar, d \in {"izinli", "ayrildi"} :
                 CalisanDuzenleOku(i, c, d, Yok) /\ UNCHANGED <<aday, tip, evrak, dosya>>
            \/ CalisanYaz(i) /\ UNCHANGED <<aday, tip, evrak, dosya>>
       /\ UNCHANGED kadroVars
    \/ \E i \in Istekler, c \in Calisanlar : KadroAlim(i, c)
    \/ \E i \in Istekler : IseAlimBirak(i) /\ UNCHANGED kadroVars

KadroSpec == OturumInit /\ IseAlimInit /\ KadroInit /\ [][KadroNext]_<<oturum, iseAlimVars, kadroVars>>

-----------------------------------------------------------------------------
(* Properties.                                                             *)

KadroTypeOK ==
    /\ musteri \subseteq Musteriler
    /\ proje \in [Projeler -> Musteriler \cup {Yok}]
    /\ kadro \in [Kadrolar -> KadroSatiri \cup {Yok}]
    /\ adayKadro \in [Adaylar -> Kadrolar \cup {Yok}]
    /\ yer \in [Calisanlar -> Kadrolar \cup {Yok}]

\* The page of a project and the pages of its positions count by different queries, and
\* neither way of hiring nor a later target looks at the other: whatever is hired, sent
\* on leave or dismissed, and whichever target is set, the project's shortage is never
\* above that of its positions together, and is below it exactly if one of them has
\* more employees than its target.
KadroHesabi ==
    \A p \in Projeler :
        LET eksik == Toplam([k \in Kadrolari(p) |-> EksikSayi(k)])
            fazla == {k \in Kadrolari(p) : MevcutSayi(k) > kadro[k].hedef}
        IN  /\ EksikKadro(p) <= eksik
            /\ EksikKadro(p) < eksik <=> fazla # {}
=============================================================================
