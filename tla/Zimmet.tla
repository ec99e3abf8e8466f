------------------------------- MODULE Zimmet -------------------------------
(***************************************************************************)
(* Entrusted goods (modules/ik, from zimmet_ekle on): an item, its holder  *)
(* and the history of its movements (zimmet_loglar).                       *)
(*                                                                         *)
(* Every handler changes the row and appends to the history in one         *)
(* transaction, but it decides on a copy of the row that it read earlier,  *)
(* without a lock: reading and writing are two actions of the thread i.    *)
(* The row's update is flushed before the history is inserted and holds    *)
(* the row's lock until the commit, so the entries of one item are in the  *)
(* order in which its row was written, and an update and its entry are one *)
(* action.                                                                 *)
(***************************************************************************)
EXTENDS Naturals, Sequences

CONSTANTS
    Zimmetler,   \* ids for rows of zimmetler
    Calisanlar,  \* employees
    Istekler,    \* threads of the server
    MaxDefter,   \* bound: entries in the history of an item
    Yok

ZimmetDurumu == {"teslim_edildi", "iade_edildi", "kayip"}
Islemler == {"teslim", "transfer", "iade", "kayip_bildirimi"}

ZimmetSatiri == [calisan : Calisanlar, durum : ZimmetDurumu]

DefterSatiri ==
    [islem : Islemler, eski : Calisanlar \cup {Yok}, yeni : Calisanlar \cup {Yok}]

\* A handler in flight and what it has read: is "bos" when the thread is idle.
IstekSatiri ==
    [is : {"bos", "iade", "transfer", "kayip"}, zimmet : Zimmetler \cup {Yok},
     calisan : Calisanlar \cup {Yok}, durum : ZimmetDurumu,
     hedef : Calisanlar \cup {Yok}]

ASSUME ZimmetAssumption ==
    /\ Yok \notin Zimmetler \cup Calisanlar
    /\ Yok \notin ZimmetSatiri
    /\ MaxDefter \in Nat

VARIABLES
    isci,    \* the threads in service
    zimmet,  \* the items
    defter,  \* the history of each item, oldest entry first
    istek    \* the handlers in flight

vars == <<isci, zimmet, defter, istek>>

Bos == [is |-> "bos", zimmet |-> Yok, calisan |-> Yok, durum |-> "teslim_edildi",
        hedef |-> Yok]

\* One thread, or all of them, serve requests.
Init ==
    /\ \/ isci = Istekler
       \/ \E i \in Istekler : isci = {i}
    /\ zimmet = [z \in Zimmetler |-> Yok]
    /\ defter = [z \in Zimmetler |-> << >>]
    /\ istek = [i \in Istekler |-> Bos]

Kayit(islem, eski, yeni) == [islem |-> islem, eski |-> eski, yeni |-> yeni]

\* The movement is entered in the history of item z.
Deftere(z, k) ==
    /\ Len(defter[z]) < MaxDefter
    /\ defter' = [defter EXCEPT ![z] = Append(@, k)]

Bitti(i) == istek' = [istek EXCEPT ![i] = Bos]

-----------------------------------------------------------------------------
\* Mutant: the first entry does not name the receiver.
ZimmetEkle_alansiz(z, c) ==
    /\ zimmet[z] = Yok
    /\ zimmet' = [zimmet EXCEPT ![z] = [calisan |-> c, durum |-> "teslim_edildi"]]
    /\ Deftere(z, Kayit("teslim", Yok, Yok))
    /\ UNCHANGED <<isci, istek>>

\* zimmet_ekle: the item and its first entry, in one transaction.
ZimmetEkle(z, c) ==
    /\ zimmet[z] = Yok
    /\ zimmet' = [zimmet EXCEPT ![z] = [calisan |-> c, durum |-> "teslim_edildi"]]
    /\ Deftere(z, Kayit("teslim", Yok, c))
    /\ UNCHANGED <<isci, istek>>

\* Thread i has read item z to do is, with the employee hedef from the form.
Okundu(i, is, z, hedef) ==
    /\ i \in isci
    /\ istek[i].is = "bos"
    /\ zimmet[z] # Yok
    /\ istek' = [istek EXCEPT ![i] =
         [is |-> is, zimmet |-> z, calisan |-> zimmet[z].calisan,
          durum |-> zimmet[z].durum, hedef |-> hedef]]
    /\ UNCHANGED <<isci, zimmet, defter>>

\* Mutant: the state of the item is not checked.
Teslimde_hep(z) == TRUE

\* The guard of returns and transfers.
Teslimde(z) == zimmet[z].durum = "teslim_edildi"

\* zimmet_iade: read and check.
IadeOku(i, z) ==
    /\ Okundu(i, "iade", z, Yok)
    /\ Teslimde(z)

\* Mutant: the return is entered, the row keeps its state.
IadeYaz_durumsuz(i) ==
    /\ istek[i].is = "iade"
    /\ Deftere(istek[i].zimmet, Kayit("iade", istek[i].calisan, Yok))
    /\ Bitti(i)
    /\ UNCHANGED <<isci, zimmet>>

\* zimmet_iade: write.  Only durum changes; the entry names the holder it read.
IadeYaz(i) ==
    LET z == istek[i].zimmet IN
    /\ istek[i].is = "iade"
    /\ zimmet' = [zimmet EXCEPT ![z].durum = "iade_edildi"]
    /\ Deftere(z, Kayit("iade", istek[i].calisan, Yok))
    /\ Bitti(i)
    /\ UNCHANGED isci

\* zimmet_transfer: read and check; the new holder is another than the old one.
TransferOku(i, z, hedef) ==
    /\ Okundu(i, "transfer", z, hedef)
    /\ Teslimde(z)
    /\ hedef # zimmet[z].calisan

\* Mutant: a form without new holder is accepted.
TransferYaz_bos(i) ==
    LET z == istek[i].zimmet IN
    /\ istek[i].is = "transfer"
    /\ zimmet' = [zimmet EXCEPT ![z].calisan = Yok]
    /\ Deftere(z, Kayit("transfer", istek[i].calisan, Yok))
    /\ Bitti(i)
    /\ UNCHANGED isci

\* Mutant: the transfer is not entered in the history.
TransferYaz_kayitsiz(i) ==
    /\ istek[i].is = "transfer"
    /\ zimmet' = [zimmet EXCEPT ![istek[i].zimmet].calisan = istek[i].hedef]
    /\ Bitti(i)
    /\ UNCHANGED <<isci, defter>>

\* Mutant: the old holder is read back after the new one was set.
TransferYaz_yeniden(i) ==
    LET z == istek[i].zimmet IN
    /\ istek[i].is = "transfer"
    /\ zimmet' = [zimmet EXCEPT ![z].calisan = istek[i].hedef]
    /\ Deftere(z, Kayit("transfer", istek[i].hedef, istek[i].hedef))
    /\ Bitti(i)
    /\ UNCHANGED isci

\* zimmet_transfer: write.  Only the holder changes, whatever became of durum.
TransferYaz(i) ==
    LET z == istek[i].zimmet IN
    /\ istek[i].is = "transfer"
    /\ zimmet' = [zimmet EXCEPT ![z].calisan = istek[i].hedef]
    /\ Deftere(z, Kayit("transfer", istek[i].calisan, istek[i].hedef))
    /\ Bitti(i)
    /\ UNCHANGED isci

\* zimmet_kayip_bildir: read; the item may be in any state.
KayipOku(i, z) == Okundu(i, "kayip", z, Yok)

\* zimmet_kayip_bildir: write.  An attribute set to the value it was loaded with
\* is not written, so a loss reported again leaves the row alone.
KayipYaz(i) ==
    LET z == istek[i].zimmet IN
    /\ istek[i].is = "kayip"
    /\ zimmet' = IF istek[i].durum = "kayip" THEN zimmet
                 ELSE [zimmet EXCEPT ![z].durum = "kayip"]
    /\ Deftere(z, Kayit("kayip_bildirimi", Yok, Yok))
    /\ Bitti(i)
    /\ UNCHANGED isci

\* The handler ends without writing: the form shows an error, the worker dies.
Birak(i) ==
    /\ istek[i].is # "bos"
    /\ Bitti(i)
    /\ UNCHANGED <<isci, zimmet, defter>>

Next ==
    \/ \E z \in Zimmetler, c \in Calisanlar : ZimmetEkle(z, c)
    \/ \E i \in Istekler, z \in Zimmetler :
         \/ IadeOku(i, z)
         \/ KayipOku(i, z)
         \/ \E hedef \in Calisanlar : TransferOku(i, z, hedef)
    \/ \E i \in Istekler : IadeYaz(i) \/ TransferYaz(i) \/ KayipYaz(i) \/ Birak(i)

Spec == Init /\ [][Next]_vars

-----------------------------------------------------------------------------
(* What the history shows.                                                 *)

\* c is the last employee that the first n entries of history d hand the item to.
SonAlan(d, n, c) ==
    \E k \in 1..n :
        /\ d[k].yeni = c
        /\ \A j \in (k + 1)..n : d[j].yeni = Yok

\* The state an entry leaves the item in; a transfer leaves it as it was.
Sonuc == [teslim |-> "teslim_edildi", iade |-> "iade_edildi",
          kayip_bildirimi |-> "kayip"]

\* s is the state that the first n entries of history d leave the item in.
SonDurum(d, n, s) ==
    \E k \in 1..n :
        /\ d[k].islem # "transfer"
        /\ s = Sonuc[d[k].islem]
        /\ \A j \in (k + 1)..n : d[j].islem = "transfer"

\* One thread serves all requests, one after the other.
Sirali == \A i, j \in isci : i = j

-----------------------------------------------------------------------------
(* Properties.                                                             *)

\* Every variable has its type, and an item without row has no history.
TypeOK ==
    /\ isci \subseteq Istekler
    /\ zimmet \in [Zimmetler -> ZimmetSatiri \cup {Yok}]
    /\ defter \in [Zimmetler -> Seq(DefterSatiri)]
    /\ istek \in [Istekler -> IstekSatiri]
    /\ \A z \in Zimmetler : zimmet[z] = Yok => defter[z] = << >>

\* The holder in the row is the last receiver in the history, however many
\* transfers and returns of the item overlap: none of them can move the item
\* without an entry, and their entries come in the order of their updates.
SahipDefterden ==
    \A z \in Zimmetler : zimmet[z] # Yok =>
        SonAlan(defter[z], Len(defter[z]), zimmet[z].calisan)

\* Whoever is entered as giving the item had received it before, even where an
\* overlapping handler has moved it on in the meantime.
VerenAlmisti ==
    \A z \in Zimmetler : \A k \in DOMAIN defter[z] :
        defter[z][k].eski # Yok =>
            \E j \in 1..(k - 1) : defter[z][j].yeni = defter[z][k].eski

\* Handled one after the other, each movement takes the item from the employee
\* who held it, so that the history is a chain of hand-overs.
ZincirKopmaz ==
    Sirali => \A z \in Zimmetler : \A k \in DOMAIN defter[z] :
        defter[z][k].eski # Yok => SonAlan(defter[z], k - 1, defter[z][k].eski)

\* Handled one after the other, the state in the row is the one the history ends in.
DurumDefterden ==
    Sirali => \A z \in Zimmetler : zimmet[z] # Yok =>
        SonDurum(defter[z], Len(defter[z]), zimmet[z].durum)

\* Handled one after the other, an item that was returned or lost is not
\* transferred or returned any more.
KapananZimmet ==
    Sirali => \A z \in Zimmetler : \A k \in DOMAIN defter[z] :
        defter[z][k].islem \in {"iade", "transfer"} =>
            SonDurum(defter[z], k - 1, "teslim_edildi")
=============================================================================
