-------------------------------- MODULE Onay --------------------------------
(***************************************************************************)
(* The approval engine: models/onay.py (the tables and OnayServisi) and    *)
(* modules/onay/routes.py (the request handlers over it).                  *)
(*                                                                         *)
(* A variable is a table, a function from row ids to rows.  Every handler  *)
(* runs in one database transaction and is one action here, except         *)
(* admin_adim_ekle: it reads max(sira) and inserts a row in two statements *)
(* between which another administrator's insert may commit, so it is the   *)
(* two actions AdimEkleOku and AdimEkleYaz.  The interleavings inside      *)
(* onayla, reddet and talep_iptal are the subject of OnayEsZamanli.        *)
(*                                                                         *)
(* A handler that raises or returns early changes no row: it is a          *)
(* stuttering step and appears as a guard.                                 *)
(***************************************************************************)
EXTENDS Integers, FiniteSets

CONSTANTS
    Kullanici,      \* rows of users
    Akis,           \* ids for rows of onay_akislari (one approval type)
    Adim,           \* ids for rows of onay_adimlari
    Talep,          \* ids for rows of onay_talepleri
    Devir,          \* ids for rows of yetki_devirleri
    Admin,          \* administrator sessions that may add steps concurrently
    RolUyeleri,     \* the users that hold the role a 'rol' step names
    AdimTanimlari,  \* the step forms an administrator may submit
    Oncelikler,     \* the priorities an administrator may give a flow
    MaxSira,        \* bound on onay_adimlari.sira
    MaxGun,         \* bound on the calendar
    Yok             \* SQL NULL, and "no such row"

\* onaylayici_tipi.  "yonetici" stands for 'departman_yoneticisi' as well: both
\* query Calisan by a column it does not have.  "diger" is every type that
\* _onaylayici_bul has no branch for ('proje_yoneticisi' is one).
OnaylayiciTipleri == {"kullanici", "rol", "yonetici", "diger"}

AdimTanimi ==
    [tip : OnaylayiciTipleri, kisi : Kullanici \cup {Yok}, tumu : BOOLEAN]

ASSUME OnayAssumption ==
    /\ Yok \notin Kullanici \cup Akis
    /\ RolUyeleri \subseteq Kullanici
    /\ AdimTanimlari \subseteq AdimTanimi
    /\ Oncelikler \subseteq Int
    /\ MaxSira \in Nat \ {0}
    /\ MaxGun \in Nat
    /\ \A a \in Adim : a # Yok

VARIABLES
    akis,    \* onay_akislari: the priority of each flow, or Yok
    adim,    \* onay_adimlari: the steps, or Yok
    ekleme,  \* what each administrator session has read in admin_adim_ekle
    talep,   \* onay_talepleri
    kayit,   \* onay_kayitlari: one row at most for a request and a step
    devir,   \* yetki_devirleri
    gun      \* date.today()

vars == <<akis, adim, ekleme, talep, kayit, devir, gun>>

TalepDurumu == {"yok", "bekliyor", "onaylandi", "reddedildi", "iptal"}
KayitDurumu == {"yok", "bekliyor", "onaylandi", "reddedildi", "atlandi"}

AdimSatiri ==
    [akis : Akis, sira : 1..MaxSira, tip : OnaylayiciTipleri,
     kisi : Kullanici \cup {Yok}, tumu : BOOLEAN]

TalepSatiri ==
    [durum : TalepDurumu, mevcut : 1..MaxSira, akis : Akis \cup {Yok},
     eden : Kullanici \cup {Yok}]

KayitSatiri ==
    [durum : KayitDurumu, onaylayici : Kullanici \cup {Yok},
     asil : Kullanici \cup {Yok}]

DevirSatiri ==
    [veren : Kullanici, alan : Kullanici, bas : 0..MaxGun, bit : 0..MaxGun,
     aktif : BOOLEAN]

\* Mutant: the column default of mevcut_adim is 0.
TalepYok_sifir == [durum |-> "yok", mevcut |-> 0, akis |-> Yok, eden |-> Yok]

\* A row that has not been inserted yet, with the defaults of its columns.
TalepYok == [durum |-> "yok", mevcut |-> 1, akis |-> Yok, eden |-> Yok]
KayitYok == [durum |-> "yok", onaylayici |-> Yok, asil |-> Yok]

Init ==
    /\ akis = [f \in Akis |-> Yok]
    /\ adim = [a \in Adim |-> Yok]
    /\ ekleme = [p \in Admin |-> Yok]
    /\ talep = [t \in Talep |-> TalepYok]
    /\ kayit = [t \in Talep |-> [a \in Adim |-> KayitYok]]
    /\ devir = [d \in Devir |-> Yok]
    /\ gun = 0

-----------------------------------------------------------------------------
(* Queries.                                                                *)

\* akis.adimlar: the steps of flow f as they are now.
Adimlari(f) == {a \in Adim : adim[a] # Yok /\ adim[a].akis = f}

SiradakiAdimlar(f, s) == {a \in Adimlari(f) : adim[a].sira = s}

\* Mutant: number a step by counting the steps (OnayAkisi.adim_sayisi).
EnBuyukSira_sayim(f, m) == m = Cardinality(Adimlari(f))

\* func.max(OnayAdimi.sira).filter_by(akis_id=f).scalar() or 0, as a predicate.
EnBuyukSira(f, m) ==
    /\ \A a \in Adimlari(f) : adim[a].sira <= m
    /\ \/ m = 0 /\ Adimlari(f) = {}
       \/ \E a \in Adimlari(f) : adim[a].sira = m

\* Mutant: the next step is the one numbered one higher.
SonrakiSira_ardisik(f, s, n) == n = s + 1 /\ SiradakiAdimlar(f, n) # {}

\* Mutant: order_by(sira.desc()).
SonrakiSira_son(f, s, n) ==
    n > s /\ SiradakiAdimlar(f, n) # {} /\ \A a \in Adimlari(f) : adim[a].sira <= n

\* The smallest sira of flow f above s: the first row of
\* filter(sira > s).order_by(sira).
SonrakiSira(f, s, n) ==
    /\ n > s
    /\ SiradakiAdimlar(f, n) # {}
    /\ \A a \in Adimlari(f) : adim[a].sira > s => adim[a].sira >= n

\* The flow a new request gets: active flows by descending priority, first().
SecilenAkis(f) ==
    /\ akis[f] # Yok
    /\ \A g \in Akis : akis[g] # Yok => akis[g] <= akis[f]

\* The users _onaylayici_bul may return for a step.  A 'rol' step takes the
\* first user of an unordered query: any member of the role.
Bulunan(a) ==
    CASE adim[a].tip = "kullanici" -> {adim[a].kisi} \ {Yok}
      [] adim[a].tip = "rol" -> RolUyeleri
      [] OTHER -> {}

\* Calisan.query.filter_by(user_id=...) raises: Calisan has no such column.
Patlar(a) == adim[a].tip = "yonetici"

\* YetkiDevri.gecerli_mi, and the filter of _vekil_kontrol.
Gecerli(d) ==
    devir[d] # Yok /\ devir[d].aktif /\ devir[d].bas <= gun /\ gun <= devir[d].bit

\* The approvers u's record may be opened for: a valid delegate of u, u if none.
Vekilleri(u) == {devir[d].alan : d \in {e \in Devir : Gecerli(e) /\ devir[e].veren = u}}

KayitAc(u) ==
    IF Vekilleri(u) = {}
    THEN {[durum |-> "bekliyor", onaylayici |-> u, asil |-> Yok]}
    ELSE {[durum |-> "bekliyor", onaylayici |-> v, asil |-> u] : v \in Vekilleri(u)}

\* The rows _adim_kayitlari_olustur may write for step a: none without an approver.
Acilan(a) ==
    IF Bulunan(a) = {} THEN {KayitYok} ELSE UNION {KayitAc(u) : u \in Bulunan(a)}

\* _adim_kayitlari_olustur: the ways to open the records of sira s of flow f over
\* the records k of a request.  No way when one of the steps raises.
AdimKayitlariOlustur(f, s, k) ==
    LET ekle == SiradakiAdimlar(f, s)
    IN  IF \E a \in ekle : Patlar(a)
        THEN {}
        ELSE {[a \in Adim |-> IF a \in ekle THEN g[a] ELSE k[a]] :
                g \in {h \in [ekle -> UNION {Acilan(a) : a \in ekle}] :
                         \A a \in ekle : h[a] \in Acilan(a)}}

\* Mutant: entering the next step closes the request.
SonrakiAdimaGec_erken(r, k) ==
    IF \E n \in 1..MaxSira : SonrakiSira(r.akis, r.mevcut, n)
    THEN {<<[r EXCEPT !.mevcut = n, !.durum = "onaylandi"], k>> :
            n \in {m \in 1..MaxSira : SonrakiSira(r.akis, r.mevcut, m)}}
    ELSE {<<[r EXCEPT !.durum = "onaylandi"], k>>}

\* _sonraki_adima_gec for a request row r with records k: the <<row, records>>
\* pairs it may leave behind.
SonrakiAdimaGec(r, k) ==
    IF \E n \in 1..MaxSira : SonrakiSira(r.akis, r.mevcut, n)
    THEN UNION {{<<[r EXCEPT !.mevcut = n], y>> : y \in AdimKayitlariOlustur(r.akis, n, k)} :
                  n \in {m \in 1..MaxSira : SonrakiSira(r.akis, r.mevcut, m)}}
    ELSE {<<[r EXCEPT !.durum = "onaylandi"], k>>}

\* The records of the request's current step.
MevcutKayitlar(r, k) ==
    {a \in Adim : k[a].durum # "yok" /\ adim[a].sira = r.mevcut}

\* Mutant: the other pending records are left alone.
BekleyenleriAtla_unut(k, secili) == k

\* for k in bekleyenler: k.durum = 'atlandi'
BekleyenleriAtla(k, secili) ==
    [a \in Adim |-> IF a \in secili /\ k[a].durum = "bekliyor"
                    THEN [k[a] EXCEPT !.durum = "atlandi"] ELSE k[a]]

\* _sonraki_adim_kontrol when the step that is taken for the mode of the whole
\* group of records (mevcut_kayitlar[0].adim) is ilk.
AdimKontrol(r, k, ilk) ==
    LET grup == MevcutKayitlar(r, k)
        onayli == {a \in grup : k[a].durum = "onaylandi"}
    IN  IF adim[ilk].tumu
        THEN IF onayli = grup THEN SonrakiAdimaGec(r, k) ELSE {<<r, k>>}
        ELSE IF onayli # {}
             THEN SonrakiAdimaGec(r, BekleyenleriAtla(k, grup))
             ELSE {<<r, k>>}

\* _sonraki_adim_kontrol.  The records come in the order they were created, which
\* for steps that share a sira is that of a query sorted by sira only: any of them
\* may be the first.
SonrakiAdimKontrol(r, k) ==
    IF MevcutKayitlar(r, k) = {}
    THEN {<<[r EXCEPT !.durum = "onaylandi"], k>>}
    ELSE UNION {AdimKontrol(r, k, ilk) : ilk \in MevcutKayitlar(r, k)}

-----------------------------------------------------------------------------
(* The request handlers.                                                   *)

\* OnayServisi.talep_olustur, called by the expense and purchasing modules.
TalepOlustur(t, u) ==
    /\ talep[t].durum = "yok"
    /\ \E f \in Akis :
          /\ SecilenAkis(f)
          /\ \E k \in AdimKayitlariOlustur(f, 1, kayit[t]) :
                /\ kayit' = [kayit EXCEPT ![t] = k]
                /\ talep' = [talep EXCEPT ![t] =
                     [durum |-> "bekliyor", mevcut |-> 1, akis |-> f, eden |-> u]]
    /\ UNCHANGED <<akis, adim, ekleme, devir, gun>>

\* Mutant: "Bu kayıt zaten işlem görmüş" is not checked.
Islenebilir_tekrar(t, a, u) ==
    kayit[t][a].durum # "yok" /\ kayit[t][a].onaylayici = u

\* The three guards of onayla and of reddet: the record exists, it is u's, and it
\* is still pending.  Neither looks at the request's own durum.
Islenebilir(t, a, u) ==
    /\ kayit[t][a].durum = "bekliyor"
    /\ kayit[t][a].onaylayici = u

\* OnayServisi.onayla, the handler onayla of routes.py.
Onayla(t, a, u) ==
    /\ Islenebilir(t, a, u)
    /\ \E s \in SonrakiAdimKontrol(talep[t], [kayit[t] EXCEPT ![a].durum = "onaylandi"]) :
          /\ talep' = [talep EXCEPT ![t] = s[1]]
          /\ kayit' = [kayit EXCEPT ![t] = s[2]]
    /\ UNCHANGED <<akis, adim, ekleme, devir, gun>>

\* OnayServisi.reddet, the handler reddet of routes.py.
Reddet(t, a, u) ==
    /\ Islenebilir(t, a, u)
    /\ kayit' = [kayit EXCEPT ![t][a].durum = "reddedildi"]
    /\ talep' = [talep EXCEPT ![t].durum = "reddedildi"]
    /\ UNCHANGED <<akis, adim, ekleme, devir, gun>>

\* talep_iptal: the requester withdraws a request that is still open.
TalepIptal(t, u) ==
    /\ talep[t].durum = "bekliyor"
    /\ talep[t].eden = u
    /\ talep' = [talep EXCEPT ![t].durum = "iptal"]
    /\ kayit' = [kayit EXCEPT ![t] = BekleyenleriAtla(kayit[t], Adim)]
    /\ UNCHANGED <<akis, adim, ekleme, devir, gun>>

\* yetki_devri_ekle: to anybody else, from any day to any day.
YetkiDevriEkle(d, u, v, bas, bit) ==
    /\ devir[d] = Yok
    /\ u # v
    /\ devir' = [devir EXCEPT ![d] =
         [veren |-> u, alan |-> v, bas |-> bas, bit |-> bit, aktif |-> TRUE]]
    /\ UNCHANGED <<akis, adim, ekleme, talep, kayit, gun>>

\* yetki_devri_iptal: only by the user who delegated.
YetkiDevriIptal(d, u) ==
    /\ devir[d] # Yok
    /\ devir[d].veren = u
    /\ devir' = [devir EXCEPT ![d].aktif = FALSE]
    /\ UNCHANGED <<akis, adim, ekleme, talep, kayit, gun>>

\* admin_akis_ekle: a flow is active as soon as it exists, before it has steps.
AdminAkisEkle(f, o) ==
    /\ akis[f] = Yok
    /\ akis' = [akis EXCEPT ![f] = o]
    /\ UNCHANGED <<adim, ekleme, talep, kayit, devir, gun>>

\* admin_adim_ekle, first statement: session p reads max(sira) of flow f.
AdimEkleOku(p, f) ==
    /\ akis[f] # Yok
    /\ ekleme[p] = Yok
    /\ \E m \in 0..(MaxSira - 1) :
          /\ EnBuyukSira(f, m)
          /\ ekleme' = [ekleme EXCEPT ![p] = [akis |-> f, sira |-> m + 1]]
    /\ UNCHANGED <<akis, adim, talep, kayit, devir, gun>>

\* admin_adim_ekle, second statement and commit: it inserts the step after the
\* maximum it has read.
AdimEkleYaz(p, a, d) ==
    /\ ekleme[p] # Yok
    /\ adim[a] = Yok
    /\ adim' = [adim EXCEPT ![a] =
         [akis |-> ekleme[p].akis, sira |-> ekleme[p].sira,
          tip |-> d.tip, kisi |-> d.kisi, tumu |-> d.tumu]]
    /\ ekleme' = [ekleme EXCEPT ![p] = Yok]
    /\ UNCHANGED <<akis, talep, kayit, devir, gun>>

\* onay_kayitlari.adim_id references onay_adimlari: the database refuses to
\* delete a step some record was written for.
Basvurulmus(a) == \E t \in Talep : kayit[t][a].durum # "yok"

\* admin_adim_sil.
AdminAdimSil(a) ==
    /\ adim[a] # Yok
    /\ ~Basvurulmus(a)
    /\ adim' = [adim EXCEPT ![a] = Yok]
    /\ UNCHANGED <<akis, ekleme, talep, kayit, devir, gun>>

\* The calendar, which opens and closes delegations.
GunGec ==
    /\ gun < MaxGun
    /\ gun' = gun + 1
    /\ UNCHANGED <<akis, adim, ekleme, talep, kayit, devir>>

Next ==
    \/ \E t \in Talep, u \in Kullanici : TalepOlustur(t, u)
    \/ \E t \in Talep, a \in Adim, u \in Kullanici : Onayla(t, a, u)
    \/ \E t \in Talep, a \in Adim, u \in Kullanici : Reddet(t, a, u)
    \/ \E t \in Talep, u \in Kullanici : TalepIptal(t, u)
    \/ \E d \in Devir, u, v \in Kullanici, bas, bit \in 0..MaxGun :
          YetkiDevriEkle(d, u, v, bas, bit)
    \/ \E d \in Devir, u \in Kullanici : YetkiDevriIptal(d, u)
    \/ \E f \in Akis, o \in Oncelikler : AdminAkisEkle(f, o)
    \/ \E p \in Admin, f \in Akis : AdimEkleOku(p, f)
    \/ \E p \in Admin, a \in Adim, d \in AdimTanimlari : AdimEkleYaz(p, a, d)
    \/ \E a \in Adim : AdminAdimSil(a)
    \/ GunGec

Spec == Init /\ [][Next]_vars
-----------------------------------------------------------------------------
(* Properties.                                                             *)

\* Every row has the columns and the values its table allows.
TypeOK ==
    /\ akis \in [Akis -> Oncelikler \cup {Yok}]
    /\ adim \in [Adim -> AdimSatiri \cup {Yok}]
    /\ ekleme \in [Admin -> [akis : Akis, sira : 1..MaxSira] \cup {Yok}]
    /\ talep \in [Talep -> TalepSatiri]
    /\ kayit \in [Talep -> [Adim -> KayitSatiri]]
    /\ devir \in [Devir -> DevirSatiri \cup {Yok}]
    /\ gun \in 0..MaxGun

\* One administrator edits the flows.
TekAdmin == \A p, q \in Admin : p = q

\* No two steps of a flow share a sira: admin_adim_ekle numbers steps after the
\* maximum, so deleting steps in between must not make it reuse a number.
TekSira ==
    \A a, b \in Adim :
        /\ adim[a] # Yok /\ adim[b] # Yok /\ a # b
        /\ adim[a].akis = adim[b].akis
        => adim[a].sira # adim[b].sira

\* A record that can still be acted on belongs to the current step of a request
\* that is still open: onayla and reddet check the record only, so a pending
\* record left behind anywhere else would let a decided request be decided again.
BekleyenKayitGuncel ==
    \A t \in Talep, a \in Adim :
        kayit[t][a].durum = "bekliyor" =>
            /\ talep[t].durum = "bekliyor"
            /\ adim[a] # Yok
            /\ adim[a].sira = talep[t].mevcut

\* What the invariants above and below rest on.  The next step number an
\* administrator holds is above every step of the flow.
EklemeSonra ==
    \A p \in Admin :
        ekleme[p] # Yok =>
            \A a \in Adimlari(ekleme[p].akis) : adim[a].sira < ekleme[p].sira

\* A record refers to an existing step of the request's flow that the request has
\* reached, and a request that was not opened has no record and stands at step 1.
KayitAdimi ==
    \A t \in Talep :
        /\ talep[t].durum = "yok" => talep[t].mevcut = 1
        /\ \A a \in Adim :
             kayit[t][a].durum # "yok" =>
                /\ talep[t].durum # "yok"
                /\ adim[a] # Yok
                /\ adim[a].akis = talep[t].akis
                /\ adim[a].sira <= talep[t].mevcut

\* When a step has a record, every step of the flow before it has an approved one.
OncekilerOnayli ==
    \A t \in Talep, a, b \in Adim :
        /\ kayit[t][a].durum # "yok"
        /\ b \in Adimlari(talep[t].akis)
        /\ adim[b].sira < adim[a].sira
        => kayit[t][b].durum = "onaylandi"

\* An approved request has an approved record for every step its flow now has up
\* to the request's last one, however the flow was edited while it was on its way.
HerAdimdanGecti ==
    \A t \in Talep :
        talep[t].durum = "onaylandi" =>
            \A a \in Adimlari(talep[t].akis) :
                adim[a].sira <= talep[t].mevcut => kayit[t][a].durum = "onaylandi"

\* At the moment a request is approved, every step of its flow as it then stands,
\* steps added after the request was opened included, has approved it.
OnayTam ==
    [][\A t \in Talep :
         talep[t].durum # "onaylandi" /\ talep'[t].durum = "onaylandi" =>
            \A a \in Adimlari(talep[t].akis) : kayit'[t][a].durum = "onaylandi"]_vars

\* An approved request has at least one approval at its last step, also when
\* steps share a sira and their records are decided in any order.
OnaysizOnayYok ==
    \A t \in Talep :
        talep[t].durum = "onaylandi" =>
            \E a \in Adim :
                /\ kayit[t][a].durum = "onaylandi"
                /\ adim[a] # Yok
                /\ adim[a].sira = talep[t].mevcut

\* An approval or a withdrawal is never overturned, even when steps share a sira:
\* either leaves no pending record behind.
OnayVeIptalKesin ==
    [][\A t \in Talep :
         talep[t].durum \in {"onaylandi", "iptal"} => talep'[t].durum = talep[t].durum]_vars

\* The inductive invariant of a system with one administrator: approved requests
\* are complete because records are opened in the order of the steps, and stay
\* complete because a step cannot be deleted or numbered behind a record.
IInv ==
    /\ TypeOK
    /\ TekSira
    /\ EklemeSonra
    /\ KayitAdimi
    /\ BekleyenKayitGuncel
    /\ OncekilerOnayli
    /\ OnaysizOnayYok

\* A record that can still be acted on belongs to the current step of a request that
\* is open or rejected: with steps that share a sira, reddet leaves siblings pending.
BekleyenAcik ==
    \A t \in Talep, a \in Adim :
        kayit[t][a].durum = "bekliyor" =>
            /\ talep[t].durum \in {"bekliyor", "reddedildi"}
            /\ adim[a] # Yok
            /\ adim[a].sira = talep[t].mevcut

\* The inductive invariant that any number of administrators leave intact.
ParalelIInv ==
    /\ TypeOK
    /\ KayitAdimi
    /\ BekleyenAcik
    /\ OnaysizOnayYok

\* "Adım yok, talebi onayla": a request whose current step has no record does not
\* wait for anybody.
AdimsizTalepOnaylanir ==
    \A t \in Talep :
        talep[t].durum = "bekliyor" => MevcutKayitlar(talep[t], kayit[t]) # {}

\* A delegate decides in the approver's place only while the delegation is valid
\* (YetkiDevri.gecerli_mi: active, and today within its dates).
VekilGecerliyken ==
    [][\A t \in Talep, a \in Adim :
         /\ kayit[t][a].durum = "bekliyor"
         /\ kayit'[t][a].durum \in {"onaylandi", "reddedildi"}
         /\ kayit[t][a].asil # Yok
         => kayit[t][a].onaylayici \in Vekilleri(kayit[t][a].asil)]_vars

\* The promise of OnaySozlesme, of the requests as stored.
Sozlesme == INSTANCE OnaySozlesme WITH
    durum <- [t \in Talep |-> talep[t].durum],
    asama <- [t \in Talep |-> talep[t].mevcut],
    onaylar <- [t \in Talep |-> {a \in Adim : kayit[t][a].durum = "onaylandi"}]

\* The engine implements the abstract life cycle of a request.
SozlesmeSpec == Sozlesme!Spec
=============================================================================
