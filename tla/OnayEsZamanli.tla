---------------------------- MODULE OnayEsZamanli ---------------------------
(***************************************************************************)
(* One approval request under concurrent handlers.                         *)
(*                                                                         *)
(* The application runs in several gunicorn workers and threads over one   *)
(* PostgreSQL database at READ COMMITTED, and no query of the engine takes *)
(* a lock or compares a version.  A handler reads its first row, checks    *)
(* its guards on that copy, and only then writes: SQLAlchemy flushes the   *)
(* dirty row before the next query (autoflush), which takes the row's lock *)
(* until commit; the other rows it decides to write are locked one after   *)
(* another, and everything becomes visible at commit.  A column is written *)
(* only if the handler changed it.  Two handlers that wait for each other  *)
(* are seen by the database, which rolls one of them back.                 *)
(*                                                                         *)
(* onayla and reddet lock their record first and the request last;         *)
(* talep_iptal locks the request first and then the pending records.       *)
(***************************************************************************)
EXTENDS Integers, Sequences, FiniteSets, SequencesExt, FiniteSetsExt

CONSTANTS
    Adim,      \* the steps of the request's flow
    AdimSira,  \* their sira
    AdimTumu,  \* their tumu_onaymali
    Onayli,    \* the steps for which _onaylayici_bul finds an approver
    Istek,     \* handler invocations in flight at a time
    Turler,    \* the handlers that are called
    MaxKayit,  \* bound on the records of the request
    Yok

TalepDurumu == {"bekliyor", "onaylandi", "reddedildi", "iptal"}
KayitDurumu == {"bekliyor", "onaylandi", "reddedildi", "atlandi"}

ASSUME EsZamanliAssumption ==
    /\ IsFiniteSet(Adim)
    /\ AdimSira \in [Adim -> Nat \ {0}]
    /\ AdimTumu \in [Adim -> BOOLEAN]
    /\ Onayli \subseteq Adim
    /\ Turler \subseteq {"onayla", "reddet", "iptal"}
    /\ Yok \notin Istek
    /\ Yok \notin Nat
    /\ Yok \notin TalepDurumu
    /\ Yok \notin Turler
    /\ MaxKayit \in Nat
    /\ MaxKayit >= Cardinality(Adim)

VARIABLES
    talep,   \* the committed row of onay_talepleri
    kayit,   \* the committed rows of onay_kayitlari, by id
    kilit,   \* who holds each row's lock; 0 is the request's row
    istek    \* the handlers in flight

vars == <<talep, kayit, kilit, istek>>

TalepRow == 0

TalepSatiri == [durum : TalepDurumu, mevcut : {1} \cup Range(AdimSira)]
KayitSatiri == [adim : Adim, durum : KayitDurumu]

\* A handler in flight: what was called on which record, how far it is, the rows it
\* still has to lock, and what it will write; Yok is a column it leaves alone.
IstekSatiri ==
    [tur : Turler \cup {Yok}, kayit : 0..MaxKayit, asama : {"bos", "ilk", "kalan"},
     kilitler : SUBSET (0..MaxKayit), atla : SUBSET (1..MaxKayit),
     durum : TalepDurumu \cup {Yok}, mevcut : Range(AdimSira) \cup {Yok},
     yeni : SUBSET Adim]

Bos == [tur |-> Yok, kayit |-> TalepRow, asama |-> "bos", kilitler |-> {},
        atla |-> {}, durum |-> Yok, mevcut |-> Yok, yeni |-> {}]

\* The steps of sira s that get a record.
AcilanAdimlar(s) == {a \in Onayli : AdimSira[a] = s}

\* New pending records for the steps in ekle.
YeniKayitlar(ekle) ==
    LET sirali == SetToSeq(ekle)
    IN  [i \in 1..Len(sirali) |-> [adim |-> sirali[i], durum |-> "bekliyor"]]

\* talep_olustur has run: the request is open at step 1.
Init ==
    /\ talep = [durum |-> "bekliyor", mevcut |-> 1]
    /\ kayit = YeniKayitlar(AcilanAdimlar(1))
    /\ kilit = [x \in 0..MaxKayit |-> Yok]
    /\ istek = [w \in Istek |-> Bos]

-----------------------------------------------------------------------------
(* What a handler decides to write, from what it reads.                    *)

\* The records of the current step in the view k.
MevcutKayitlar(k) == {i \in DOMAIN k : AdimSira[k[i].adim] = talep.mevcut}

\* Mutant: the step after the next one.
SonrakiSiralar_bir_fazla == {s \in Range(AdimSira) : s > talep.mevcut + 1}

\* The numbers of the steps after the current one.
SonrakiSiralar == {s \in Range(AdimSira) : s > talep.mevcut}

\* _sonraki_adima_gec after skipping the records in atla.
GecPlani(atla) ==
    IF SonrakiSiralar # {}
    THEN [atla |-> atla, durum |-> Yok, mevcut |-> Min(SonrakiSiralar),
          yeni |-> AcilanAdimlar(Min(SonrakiSiralar)), talepYaz |-> TRUE]
    ELSE [atla |-> atla, durum |-> "onaylandi", mevcut |-> Yok, yeni |-> {},
          talepYaz |-> TRUE]

DegismezPlan ==
    [atla |-> {}, durum |-> Yok, mevcut |-> Yok, yeni |-> {}, talepYaz |-> FALSE]

\* _sonraki_adim_kontrol with the committed rows and the handler's own record i
\* already flushed as approved.
OnaylaPlanlari(i) ==
    LET k == [kayit EXCEPT ![i].durum = "onaylandi"]
        grup == MevcutKayitlar(k)
        onayli == {j \in grup : k[j].durum = "onaylandi"}
        bekleyen == {j \in grup : k[j].durum = "bekliyor"}
    IN  IF grup = {}
        THEN {[DegismezPlan EXCEPT !.durum = "onaylandi", !.talepYaz = TRUE]}
        ELSE {IF AdimTumu[k[ilk].adim]
              THEN IF onayli = grup THEN GecPlani({}) ELSE DegismezPlan
              ELSE IF onayli # {} THEN GecPlani(bekleyen) ELSE DegismezPlan : ilk \in grup}

RedPlani == [DegismezPlan EXCEPT !.durum = "reddedildi", !.talepYaz = TRUE]

\* talep_iptal: the request's row is flushed already; the pending records follow.
IptalPlani ==
    [DegismezPlan EXCEPT !.durum = "iptal",
                         !.atla = {i \in DOMAIN kayit : kayit[i].durum = "bekliyor"}]

Planlar(w) ==
    CASE istek[w].tur = "onayla" -> OnaylaPlanlari(istek[w].kayit)
      [] istek[w].tur = "reddet" -> {RedPlani}
      [] OTHER -> {IptalPlani}

\* The rows still to lock for plan p: the skipped records and the request.
KalanKilitler(p) == p.atla \cup (IF p.talepYaz THEN {TalepRow} ELSE {})

\* The next of them: the records by id, then the request.
Siradaki(kilitler) ==
    IF kilitler = {TalepRow} THEN TalepRow ELSE Min(kilitler \ {TalepRow})

-----------------------------------------------------------------------------
(* The steps of a handler.                                                 *)

\* onayla and reddet: OnayKaydi.query.get and the guard on the copy just read.
KayitOku(w, tur, i) ==
    /\ istek[w].asama = "bos"
    /\ tur \in Turler \ {"iptal"}
    /\ kayit[i].durum = "bekliyor"
    /\ istek' = [istek EXCEPT ![w] = [Bos EXCEPT !.tur = tur, !.kayit = i, !.asama = "ilk"]]
    /\ UNCHANGED <<talep, kayit, kilit>>

\* talep_iptal: OnayTalebi.query.get_or_404 and the guard on the copy just read.
TalepOku(w) ==
    /\ istek[w].asama = "bos"
    /\ "iptal" \in Turler
    /\ talep.durum = "bekliyor"
    /\ istek' = [istek EXCEPT ![w] = [Bos EXCEPT !.tur = "iptal", !.asama = "ilk"]]
    /\ UNCHANGED <<talep, kayit, kilit>>

\* Mutant: the flush does not wait for another transaction's row lock.
Serbest_hep(x) == TRUE

\* No transaction has written row x and not yet committed.
Serbest(x) == kilit[x] = Yok

\* Mutant: only the request's row is released.
Birak_yalniz_talep(w) ==
    [x \in DOMAIN kilit |-> IF x = TalepRow /\ kilit[x] = w THEN Yok ELSE kilit[x]]

\* The locks after the transaction of w has ended.
Birak(w) == [x \in DOMAIN kilit |-> IF kilit[x] = w THEN Yok ELSE kilit[x]]

\* The row the handler waits for.
Beklenen(w) ==
    IF istek[w].asama = "ilk" THEN istek[w].kayit ELSE Siradaki(istek[w].kilitler)

\* The first dirty row is flushed, which takes its lock, and the queries behind it
\* read what is committed by then.
IlkKilit(w) ==
    /\ istek[w].asama = "ilk"
    /\ Serbest(Beklenen(w))
    /\ kilit' = [kilit EXCEPT ![Beklenen(w)] = w]
    /\ \E p \in Planlar(w) :
         istek' = [istek EXCEPT ![w] =
            [@ EXCEPT !.asama = "kalan", !.kilitler = KalanKilitler(p), !.atla = p.atla,
                      !.durum = IF p.durum = talep.durum THEN Yok ELSE p.durum,
                      !.mevcut = p.mevcut, !.yeni = p.yeni]]
    /\ UNCHANGED <<talep, kayit>>

\* One more of the rows to write is flushed.
SonrakiKilit(w) ==
    /\ istek[w].asama = "kalan"
    /\ istek[w].kilitler # {}
    /\ Serbest(Beklenen(w))
    /\ kilit' = [kilit EXCEPT ![Beklenen(w)] = w]
    /\ istek' = [istek EXCEPT ![w].kilitler = @ \ {Beklenen(w)}]
    /\ UNCHANGED <<talep, kayit>>

\* The record rows after the commit of handler r.
YazilanKayitlar(r) ==
    [i \in DOMAIN kayit |->
        IF i = r.kayit
        THEN [kayit[i] EXCEPT !.durum = IF r.tur = "onayla" THEN "onaylandi" ELSE "reddedildi"]
        ELSE IF i \in r.atla THEN [kayit[i] EXCEPT !.durum = "atlandi"] ELSE kayit[i]]

\* db.session.commit(): the changed columns, the new records, the locks.
Commit(w) ==
    LET r == istek[w]
    IN  /\ r.asama = "kalan"
        /\ r.kilitler = {}
        /\ Len(kayit) + Cardinality(r.yeni) <= MaxKayit
        /\ kayit' = YazilanKayitlar(r) \o YeniKayitlar(r.yeni)
        /\ talep' = [durum |-> IF r.durum = Yok THEN talep.durum ELSE r.durum,
                     mevcut |-> IF r.mevcut = Yok THEN talep.mevcut ELSE r.mevcut]
        /\ kilit' = Birak(w)
        /\ istek' = [istek EXCEPT ![w] = Bos]

\* Mutant: nothing detects the deadlock.
Kilitlendi_gorulmez(s) == FALSE

\* The handlers in s wait for each other's rows.
Kilitlendi(s) ==
    \A w \in s :
        /\ istek[w].asama # "bos"
        /\ istek[w].asama = "kalan" => istek[w].kilitler # {}
        /\ kilit[Beklenen(w)] \in s

\* PostgreSQL's deadlock detector rolls back one of them; its user sees an error.
GeriAl(w) ==
    /\ \E s \in SUBSET Istek : w \in s /\ Kilitlendi(s)
    /\ kilit' = Birak(w)
    /\ istek' = [istek EXCEPT ![w] = Bos]
    /\ UNCHANGED <<talep, kayit>>

Ilerle(w) == IlkKilit(w) \/ SonrakiKilit(w) \/ Commit(w) \/ GeriAl(w)

Next ==
    \E w \in Istek :
        \/ \E tur \in Turler, i \in DOMAIN kayit : KayitOku(w, tur, i)
        \/ TalepOku(w)
        \/ Ilerle(w)

\* A handler in flight is run to its end by its thread, and a lock queue of the
\* database is not passed over for ever.
Fairness == \A w \in Istek : SF_vars(Ilerle(w))

Spec == Init /\ [][Next]_vars /\ Fairness
-----------------------------------------------------------------------------
(* Properties.                                                             *)

\* Rows and handlers have the shape their tables and the code give them, and a lock
\* is held by a handler in flight only.
TypeOK ==
    /\ talep \in TalepSatiri
    /\ kayit \in Seq(KayitSatiri) /\ Len(kayit) <= MaxKayit
    /\ kilit \in [0..MaxKayit -> Istek \cup {Yok}]
    /\ istek \in [Istek -> IstekSatiri]
    /\ \A x \in DOMAIN kilit : kilit[x] # Yok => istek[kilit[x]].asama = "kalan"

\* No two races of approvals open the records of a step twice: whoever advances the
\* request has written, and so locked, a record the other one wrote as well.
TekKayit ==
    \A i, j \in DOMAIN kayit : kayit[i].adim = kayit[j].adim => i = j

\* An approved request was decided at every step by that step's approver.
AdimAtlanmaz ==
    talep.durum = "onaylandi" =>
        \A a \in Adim : \E i \in DOMAIN kayit :
            kayit[i].adim = a /\ kayit[i].durum \in {"onaylandi", "reddedildi"}

\* A flow as one administrator numbers it: one step per sira.
SiraliAkis == \A a, b \in Adim : AdimSira[a] = AdimSira[b] => a = b

\* What the two invariants above rest on in such a flow.  A handler past its first
\* read works on an existing record, or on the request when it withdraws it.
IstekKaydi ==
    \A w \in Istek :
        istek[w].asama # "bos" =>
            \/ istek[w].tur = "iptal" /\ istek[w].kayit = TalepRow
            \/ istek[w].tur \in {"onayla", "reddet"} /\ istek[w].kayit \in DOMAIN kayit

\* It holds the lock of that row, and of the request's row or still has to take it
\* when its record is the current step's: what it has decided about the step nobody
\* else can commit before it.
KilitSahibi ==
    \A w \in Istek :
        istek[w].asama = "kalan" =>
            /\ kilit[istek[w].kayit] = w
            /\ istek[w].kayit \in MevcutKayitlar(kayit) =>
                  kilit[TalepRow] = w \/ TalepRow \in istek[w].kilitler

\* Records exist for steps that were reached, and the record of the current step is
\* approved only when there is no step after it.
MevcutKaydi ==
    /\ \A i \in DOMAIN kayit : AdimSira[kayit[i].adim] <= talep.mevcut
    /\ \A i \in MevcutKayitlar(kayit) :
          kayit[i].durum = "onaylandi" => SonrakiSiralar = {}

\* What an approval in flight will write is still right when it commits: it moves the
\* request from its record's step to the next one, or leaves the step alone.
PlanGecerli ==
    \A w \in Istek :
        istek[w].asama = "kalan" =>
            IF istek[w].mevcut # Yok
            THEN /\ istek[w].tur = "onayla"
                 /\ istek[w].kayit \in MevcutKayitlar(kayit)
                 /\ SonrakiSiralar # {}
                 /\ istek[w].mevcut = Min(SonrakiSiralar)
                 /\ istek[w].yeni = AcilanAdimlar(istek[w].mevcut)
                 /\ istek[w].durum = Yok
            ELSE /\ istek[w].yeni = {}
                 /\ istek[w].tur = "onayla" /\ istek[w].kayit \in MevcutKayitlar(kayit) =>
                       SonrakiSiralar = {}

TekKayitIInv ==
    /\ TypeOK
    /\ IstekKaydi
    /\ KilitSahibi
    /\ MevcutKaydi
    /\ PlanGecerli
    /\ TekKayit

\* With an approver for every step: the steps that were reached have a record, and
\* those behind the current one are decided.
Kararli(i) == kayit[i].durum \in {"onaylandi", "reddedildi"}

OncekilerKararli ==
    /\ \A a \in Adim : AdimSira[a] <= talep.mevcut => \E i \in DOMAIN kayit : kayit[i].adim = a
    /\ \A i \in DOMAIN kayit : AdimSira[kayit[i].adim] < talep.mevcut => Kararli(i)

\* An approved request is at its last step and decided everywhere.
OnayliTamam ==
    talep.durum = "onaylandi" => SonrakiSiralar = {} /\ \A i \in DOMAIN kayit : Kararli(i)

\* Only a withdrawal skips records, pending ones of the current step; and whoever is
\* about to approve the request finds everything but its own record decided.
KararGecerli ==
    \A w \in Istek :
        istek[w].asama = "kalan" =>
            /\ istek[w].tur # "iptal" => istek[w].atla = {}
            /\ \A i \in istek[w].atla :
                  /\ i \in MevcutKayitlar(kayit)
                  /\ kayit[i].durum = "bekliyor"
            /\ istek[w].durum = "onaylandi" =>
                  /\ istek[w].tur = "onayla"
                  /\ SonrakiSiralar = {}
                  /\ \A i \in DOMAIN kayit \ {istek[w].kayit} : Kararli(i)

AdimIInv ==
    /\ TekKayitIInv
    /\ OncekilerKararli
    /\ OnayliTamam
    /\ KararGecerli

\* Every handler comes back to its user, whatever the others lock.
IstekBiter == \A w \in Istek : istek[w].asama # "bos" ~> istek[w].asama = "bos"

\* "Sadece bekleyen talepler iptal edilebilir": a withdrawn request stays withdrawn.
IptalKesin == [][talep.durum = "iptal" => talep'.durum = "iptal"]_vars

\* "Tümü onaylamalı ... Sonraki adıma geç": once all records of the current step are
\* approved and nobody is working on the request, it has left the step.
TumuIlerler ==
    (talep.durum = "bekliyor" /\ \A w \in Istek : istek[w].asama = "bos") =>
        \E i \in MevcutKayitlar(kayit) : kayit[i].durum # "onaylandi"
=============================================================================
