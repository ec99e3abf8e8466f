------------------------------- MODULE Belge --------------------------------
(***************************************************************************)
(* The documents that go through approval: expenses (modules/masraf) and   *)
(* purchase requests (modules/satinalma), from their creation to the       *)
(* decision of the approval engine.                                        *)
(*                                                                         *)
(* A handler reads the document, checks its guards on that copy and writes *)
(* later, with no lock and no version check in between, so reading and     *)
(* writing are two actions of the handler slot w.  onaya_gonder commits    *)
(* twice: OnayServisi.talep_olustur commits the approval request, and only *)
(* then is the document marked.  A handler may end between any two of its  *)
(* steps (Birak).                                                          *)
(*                                                                         *)
(* gerekli and ek stand for the condition of a submission: for an expense  *)
(* "the category demands an invoice" and "a file is uploaded", for a       *)
(* purchase request always, and "it has an item".                          *)
(***************************************************************************)
EXTENDS Naturals, FiniteSets

CONSTANTS
    Masraf,      \* ids for rows of masraflar
    SatinAlma,   \* ids for rows of satinalma_talepleri
    OnayTalebi,  \* ids for rows of onay_talepleri
    Istek,       \* handlers in flight at a time
    Yok

Belgeler == Masraf \cup SatinAlma

\* The values of durum these handlers compare with or write.
BelgeDurumu == {"taslak", "onay_bekliyor", "reddedildi", "onaylandi", "iptal"}
OnayDurumu == {"bekliyor", "onaylandi", "reddedildi", "iptal"}
Isler == {"bos", "ekle", "duzenle", "sil", "gonder", "iptal"}

BelgeSatiri ==
    [durum : BelgeDurumu, silindi : BOOLEAN, gerekli : BOOLEAN, ek : BOOLEAN,
     onay : OnayTalebi \cup {Yok}, no : Nat]

OnaySatiri == [durum : OnayDurumu, belge : Belgeler]

ASSUME BelgeAssumption ==
    /\ Masraf \cap SatinAlma = {}
    /\ IsFiniteSet(SatinAlma)
    /\ Yok \notin Belgeler \cup OnayTalebi
    /\ Yok \notin BelgeSatiri
    /\ Yok \notin OnaySatiri

VARIABLES
    belge,  \* the documents
    onay,   \* the approval requests
    istek   \* the handlers in flight

vars == <<belge, onay, istek>>

\* A handler in flight: its document, the columns of its copy that it uses again,
\* the approval request it has opened, the number it will give.
IstekSatiri ==
    [is : Isler, belge : Belgeler \cup {Yok}, durum : BelgeDurumu, gerekli : BOOLEAN,
     onay : OnayTalebi \cup {Yok}, no : Nat]

Bos == [is |-> "bos", belge |-> Yok, durum |-> "taslak", gerekli |-> FALSE,
        onay |-> Yok, no |-> 0]

Init ==
    /\ belge = [b \in Belgeler |-> Yok]
    /\ onay = [t \in OnayTalebi |-> Yok]
    /\ istek = [w \in Istek |-> Bos]

Var(b) == belge[b] # Yok
Bosta(w) == istek[w].is = "bos"

\* Slot w has read document b to do is.
Okundu(w, is, b) ==
    istek' = [istek EXCEPT ![w] = [Bos EXCEPT !.is = is, !.belge = b,
                                              !.durum = belge[b].durum,
                                              !.gerekli = belge[b].gerekli]]

Bitti(w) == istek' = [istek EXCEPT ![w] = Bos]

-----------------------------------------------------------------------------
(* Creating a document.                                                    *)

\* masraf ekle: one transaction.
MasrafEkle(b, gerekli, ek) ==
    /\ b \in Masraf
    /\ ~Var(b)
    /\ belge' = [belge EXCEPT ![b] =
         [durum |-> "taslak", silindi |-> FALSE, gerekli |-> gerekli, ek |-> ek,
          onay |-> Yok, no |-> 0]]
    /\ UNCHANGED <<onay, istek>>

\* The purchase requests that talep_no_olustur counts.  It counts those of the
\* current year, and the model covers one year; none is ever removed.
Numarali == {b \in SatinAlma : Var(b)}

\* satinalma talep_ekle, first statement: talep_no_olustur takes the count plus one.
TalepEkleOku(w, b) ==
    /\ b \in SatinAlma
    /\ Bosta(w)
    /\ ~Var(b)
    /\ \A v \in Istek : istek[v].is = "ekle" => istek[v].belge # b
    /\ istek' = [istek EXCEPT ![w] = [Bos EXCEPT !.is = "ekle", !.belge = b,
                                                 !.no = Cardinality(Numarali) + 1]]
    /\ UNCHANGED <<belge, onay>>

\* Mutant: talep_no is not declared unique.
NumaraBos_kisitsiz(n) == TRUE

\* talep_no is unique: the database refuses a second row with the number.
NumaraBos(n) == \A b \in Numarali : belge[b].no # n

\* satinalma talep_ekle, insert and commit.
TalepEkleYaz(w, ek) ==
    /\ istek[w].is = "ekle"
    /\ NumaraBos(istek[w].no)
    /\ belge' = [belge EXCEPT ![istek[w].belge] =
         [durum |-> "taslak", silindi |-> FALSE, gerekli |-> TRUE, ek |-> ek,
          onay |-> Yok, no |-> istek[w].no]]
    /\ Bitti(w)
    /\ UNCHANGED onay

-----------------------------------------------------------------------------
(* Changing a document.                                                    *)

\* Mutant: every expense may be edited.
Duzenlenebilir_hep(b) == TRUE

\* Masraf.duzenlenebilir
Duzenlenebilir(b) == belge[b].durum \in {"taslak", "reddedildi"}

\* masraf duzenle: read and check.
DuzenleOku(w, b) ==
    /\ b \in Masraf
    /\ Bosta(w)
    /\ Var(b)
    /\ Duzenlenebilir(b)
    /\ Okundu(w, "duzenle", b)
    /\ UNCHANGED <<belge, onay>>

\* masraf duzenle: the columns the form changed and a new file are written, and a
\* rejected expense becomes a draft.
DuzenleYaz(w, gerekli, yukle) ==
    LET b == istek[w].belge
    IN  /\ istek[w].is = "duzenle"
        /\ belge' = [belge EXCEPT ![b] =
             [belge[b] EXCEPT
                !.gerekli = IF gerekli = istek[w].gerekli THEN belge[b].gerekli ELSE gerekli,
                !.ek = belge[b].ek \/ yukle,
                !.durum = IF istek[w].durum = "reddedildi" THEN "taslak" ELSE belge[b].durum]]
        /\ Bitti(w)
        /\ UNCHANGED onay

\* masraf sil: read and check.
SilOku(w, b) ==
    /\ b \in Masraf
    /\ Bosta(w)
    /\ Var(b)
    /\ belge[b].durum \in {"taslak", "reddedildi"}
    /\ Okundu(w, "sil", b)
    /\ UNCHANGED <<belge, onay>>

SilYaz(w) ==
    /\ istek[w].is = "sil"
    /\ belge' = [belge EXCEPT ![istek[w].belge].silindi = TRUE]
    /\ Bitti(w)
    /\ UNCHANGED onay

\* satinalma talep_iptal: anything before an order.  The approval request stays.
IptalOku(w, b) ==
    /\ b \in SatinAlma
    /\ Bosta(w)
    /\ Var(b)
    /\ Okundu(w, "iptal", b)
    /\ UNCHANGED <<belge, onay>>

\* Mutant: a durum value no other handler knows.
IptalYaz_yazim(w) ==
    /\ istek[w].is = "iptal"
    /\ belge' = [belge EXCEPT ![istek[w].belge].durum = "iptal_edildi"]
    /\ Bitti(w)
    /\ UNCHANGED onay

\* A copy that was cancelled already is not dirty: nothing is written.
IptalYaz(w) ==
    /\ istek[w].is = "iptal"
    /\ belge' = [belge EXCEPT ![istek[w].belge].durum =
                    IF istek[w].durum = "iptal" THEN @ ELSE "iptal"]
    /\ Bitti(w)
    /\ UNCHANGED onay

-----------------------------------------------------------------------------
(* Submitting a document: onaya_gonder and talep_onaya_gonder.             *)

\* Mutant: a cancelled document may be submitted.
Gonderilebilir_durumsuz(b) == belge[b].gerekli => belge[b].ek

\* Mutant: the missing invoice or item is not noticed.
Gonderilebilir_eksik(b) == belge[b].durum \in {"taslak", "reddedildi"}

\* The guards of the submission.  Neither handler looks at is_deleted.
Gonderilebilir(b) ==
    /\ belge[b].durum \in {"taslak", "reddedildi"}
    /\ belge[b].gerekli => belge[b].ek

GonderOku(w, b) ==
    /\ Bosta(w)
    /\ Var(b)
    /\ Gonderilebilir(b)
    /\ Okundu(w, "gonder", b)
    /\ UNCHANGED <<belge, onay>>

\* OnayServisi.talep_olustur, which commits.
GonderOnayAc(w, t) ==
    /\ istek[w].is = "gonder"
    /\ istek[w].onay = Yok
    /\ onay[t] = Yok
    /\ onay' = [onay EXCEPT ![t] = [durum |-> "bekliyor", belge |-> istek[w].belge]]
    /\ istek' = [istek EXCEPT ![w].onay = t]
    /\ UNCHANGED belge

\* Mutant: the document is marked without waiting for the approval request.
OnayAcildi_beklenmez(w) == TRUE

\* talep_olustur has returned a request and no error.
OnayAcildi(w) == istek[w].onay # Yok

\* The second commit marks the document and links it.
GonderYaz(w) ==
    /\ istek[w].is = "gonder"
    /\ OnayAcildi(w)
    /\ belge' = [belge EXCEPT ![istek[w].belge] =
         [@ EXCEPT !.durum = "onay_bekliyor", !.onay = istek[w].onay]]
    /\ Bitti(w)
    /\ UNCHANGED onay

-----------------------------------------------------------------------------

\* A handler ends before its next commit: talep_olustur has no flow to use, the
\* number is taken, or the worker is killed.
Birak(w) ==
    /\ ~Bosta(w)
    /\ Bitti(w)
    /\ UNCHANGED <<belge, onay>>

\* The approval engine decides (OnaySozlesme: SonOnay and Kapat).  It calls nothing
\* in the document's module.
OnaySonuclan(t, sonuc) ==
    /\ onay[t] # Yok
    /\ onay[t].durum = "bekliyor"
    /\ onay' = [onay EXCEPT ![t].durum = sonuc]
    /\ UNCHANGED <<belge, istek>>

Next ==
    \/ \E b \in Belgeler, gerekli, ek \in BOOLEAN : MasrafEkle(b, gerekli, ek)
    \/ \E w \in Istek :
         \/ \E b \in Belgeler :
              \/ TalepEkleOku(w, b)
              \/ DuzenleOku(w, b)
              \/ SilOku(w, b)
              \/ IptalOku(w, b)
              \/ GonderOku(w, b)
         \/ \E ek \in BOOLEAN : TalepEkleYaz(w, ek)
         \/ \E gerekli, yukle \in BOOLEAN : DuzenleYaz(w, gerekli, yukle)
         \/ SilYaz(w)
         \/ IptalYaz(w)
         \/ \E t \in OnayTalebi : GonderOnayAc(w, t)
         \/ GonderYaz(w)
         \/ Birak(w)
    \/ \E t \in OnayTalebi, sonuc \in {"onaylandi", "reddedildi", "iptal"} : OnaySonuclan(t, sonuc)

Spec == Init /\ [][Next]_vars
-----------------------------------------------------------------------------
(* Properties.                                                             *)

\* Rows and handlers have the columns and values the code gives them.
TypeOK ==
    /\ belge \in [Belgeler -> BelgeSatiri \cup {Yok}]
    /\ onay \in [OnayTalebi -> OnaySatiri \cup {Yok}]
    /\ istek \in [Istek -> IstekSatiri]

\* A document that waits for approval refers to an approval request opened for it,
\* whichever submissions raced or were cut off: onaya_gonder marks the document
\* only after talep_olustur has committed.
OnayReferansi ==
    \A b \in Belgeler :
        Var(b) /\ belge[b].durum = "onay_bekliyor" =>
            /\ belge[b].onay # Yok
            /\ onay[belge[b].onay] # Yok
            /\ onay[belge[b].onay].belge = b

\* talep_no_olustur: concurrent and failed insertions neither repeat a number nor
\* leave a gap that would make the next count collide for ever.
NumaraArdisik ==
    {belge[b].no : b \in Numarali} = 1..Cardinality(Numarali)

\* What the invariants above rest on.  A handler past its first read has a document
\* to write; a purchase request being created does not exist yet, and no other
\* handler is creating it.
IstekBelgesi ==
    \A w \in Istek :
        /\ istek[w].is \in {"duzenle", "sil", "gonder", "iptal"} =>
             istek[w].belge \in Belgeler /\ Var(istek[w].belge)
        /\ istek[w].is = "ekle" =>
             /\ istek[w].belge \in SatinAlma
             /\ ~Var(istek[w].belge)
             /\ \A v \in Istek :
                  istek[v].is = "ekle" /\ istek[v].belge = istek[w].belge => v = w

\* The approval request a handler has opened is for its document.
IstekOnayi ==
    \A w \in Istek :
        istek[w].onay # Yok =>
            /\ onay[istek[w].onay] # Yok
            /\ onay[istek[w].onay].belge = istek[w].belge

\* The number a handler has read is the next one or already taken.
IstekNo ==
    \A w \in Istek : istek[w].is = "ekle" => istek[w].no \in 1..(Cardinality(Numarali) + 1)

IInv ==
    /\ TypeOK
    /\ IstekBelgesi
    /\ OnayReferansi
    /\ IstekOnayi
    /\ NumaraArdisik
    /\ IstekNo

\* "Talep → Teklif → Sipariş → Teslimat akışı": once its approval request is
\* approved and no handler is at work, a document no longer waits for approval.
SonucYansir ==
    (\A w \in Istek : Bosta(w)) =>
        \A b \in Belgeler :
            Var(b) /\ belge[b].onay # Yok /\ onay[belge[b].onay].durum = "onaylandi" =>
                belge[b].durum # "onay_bekliyor"
=============================================================================
