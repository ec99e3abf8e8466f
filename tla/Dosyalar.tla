------------------------------ MODULE Dosyalar ------------------------------
(***************************************************************************)
(* The files beside the rows: the invoices of expenses (modules/masraf)    *)
(* and the materials of trainings (modules/egitim), the two whose files    *)
(* are removed again; contracts remove files too, but none can be entered. *)
(* The disk knows no transaction: what a handler has removed or saved      *)
(* stays so when its commit never comes.                                   *)
(*                                                                         *)
(* Whether an expense may be edited is module Belge's; here it always may. *)
(***************************************************************************)
EXTENDS Oturum

CONSTANTS
    Masraflar,    \* ids for rows of masraflar
    Materyaller,  \* ids for rows of egitim_materyalleri
    Yollar        \* paths below UPLOAD_FOLDER

Ekliler == Masraflar \cup Materyaller

\* dosya: dosya_yolu.  silindi: the row is gone.  (masraf sil leaves row and file.)
EkliSatiri == [dosya : Yollar \cup {Yok}, silindi : BOOLEAN]

ASSUME DosyaAssumption ==
    /\ Masraflar \cap Materyaller = {}
    /\ Yok \notin EkliSatiri \cup Yollar

VARIABLES
    ekli,   \* the rows
    disk,   \* the files
    yarim   \* history: the files that handlers had removed or saved when they were cut off

dosyaVars == <<ekli, disk, yarim>>

DosyaInit ==
    /\ ekli = [s \in Ekliler |-> Yok]
    /\ disk = {}
    /\ yarim = {}

DosyaIsleri == {"ekle", "degistir", "kaldir"}

\* A handler for row s that will remove eski, save another file, or both.  adim is what
\* it has done of it; yeni is the file it has saved.
DosyaBasla(i, is, s, eski, adim) ==
    /\ Basla(i, [is |-> is, satir |-> s, eski |-> eski, yeni |-> Yok, adim |-> adim])
    /\ UNCHANGED dosyaVars

\* masraf ekle without a file, materyal_yukle with a link.
DosyasizEkle(s) ==
    /\ ekli[s] = Yok
    /\ ekli' = [ekli EXCEPT ![s] = [dosya |-> Yok, silindi |-> FALSE]]
    /\ UNCHANGED <<disk, yarim, oturum>>

\* materyal_yukle and masraf ekle with a file.
DosyaliEkleOku(i, s) ==
    /\ ekli[s] = Yok
    /\ DosyaBasla(i, "ekle", s, Yok, "silindi")

\* masraf duzenle with a new file.
FaturaDegistirOku(i, m) ==
    /\ ekli[m] # Yok
    /\ DosyaBasla(i, "degistir", m, ekli[m].dosya, "okundu")

\* materyal_sil.
MateryalSilOku(i, m) ==
    /\ ekli[m] # Yok
    /\ ~ekli[m].silindi
    /\ DosyaBasla(i, "kaldir", m, ekli[m].dosya, "okundu")

Suren(i) == istek[i].is \in DosyaIsleri

\* os.remove, if the path of the copy is there.
DosyaKaldir(i) ==
    /\ Suren(i)
    /\ istek[i].adim = "okundu"
    /\ disk' = disk \ {istek[i].eski}
    /\ istek' = [istek EXCEPT ![i].adim = "silindi"]
    /\ UNCHANGED <<ekli, yarim, isci>>

\* The files it has removed or saved.
Gecen(i) == IF istek[i].adim = "okundu" THEN {} ELSE {istek[i].eski, istek[i].yeni} \ {Yok}

Surenler == {i \in Istekler : Suren(i)}

\* The rows there are; the files they name.
Varlar == {s \in Ekliler : ekli[s] # Yok}
Adlananlar == {ekli[s].dosya : s \in Varlar} \ {Yok}

\* The files that a row, a handler or the history still knows.
Bilinenler == Adlananlar \cup yarim \cup UNION {{istek[i].eski, istek[i].yeni} : i \in Surenler}

\* Mutant: the file keeps the name it was uploaded with, in the folder of its row.
YeniYol_ad(s, f) == \A e \in Varlar \ {s} : ekli[e].dosya # f

\* uuid4: a name that was not given before.  One that nobody knows any more is as good.
YeniYol(s, f) == f \notin disk \cup Bilinenler

\* file.save.
DosyaKaydet(i, f) ==
    /\ Suren(i)
    /\ istek[i].is # "kaldir"
    /\ istek[i].adim = "silindi"
    /\ YeniYol(istek[i].satir, f)
    /\ disk' = disk \cup {f}
    /\ istek' = [istek EXCEPT ![i].adim = "kaydedildi", ![i].yeni = f]
    /\ UNCHANGED <<ekli, yarim, isci>>

\* Commit of a file that was saved.  (Who adds a row has the only id for it.)
DosyaYaz(i) ==
    LET s == istek[i].satir IN
    /\ Suren(i)
    /\ istek[i].adim = "kaydedildi"
    /\ istek[i].is = "ekle" => ekli[s] = Yok
    /\ ekli' = [ekli EXCEPT ![s] = [dosya |-> istek[i].yeni, silindi |-> FALSE]]
    /\ Bitti(i)
    /\ UNCHANGED <<disk, yarim>>

\* Commit of materyal_sil.  (A DELETE that finds no row is only warned about.)
MateryalSil(i) ==
    LET m == istek[i].satir IN
    /\ istek[i].is = "kaldir"
    /\ istek[i].adim = "silindi"
    /\ ekli' = [ekli EXCEPT ![m] = [dosya |-> Yok, silindi |-> TRUE]]
    /\ Bitti(i)
    /\ UNCHANGED <<disk, yarim>>

\* A handler ends before its commit, or with it refused.
DosyaBirak(i) ==
    /\ Suren(i)
    /\ yarim' = yarim \cup Gecen(i)
    /\ Bitti(i)
    /\ UNCHANGED <<ekli, disk>>

DosyaNext ==
    \/ \E s \in Ekliler : DosyasizEkle(s)
    \/ \E i \in Istekler :
         \/ \E s \in Ekliler : DosyaliEkleOku(i, s)
         \/ \E m \in Masraflar : FaturaDegistirOku(i, m)
         \/ \E m \in Materyaller : MateryalSilOku(i, m)
         \/ DosyaKaldir(i)
         \/ \E f \in Yollar : DosyaKaydet(i, f)
         \/ DosyaYaz(i)
         \/ MateryalSil(i)
         \/ DosyaBirak(i)

DosyaSpec == OturumInit /\ DosyaInit /\ [][DosyaNext]_<<oturum, dosyaVars>>

-----------------------------------------------------------------------------
(* Properties.                                                             *)

DosyaTypeOK ==
    /\ ekli \in [Ekliler -> EkliSatiri \cup {Yok}]
    /\ disk \subseteq Yollar
    /\ yarim \subseteq Yollar

\* The files that handlers have removed or saved which are not done, or were cut off.
Bitmeyenler == yarim \cup UNION {Gecen(i) : i \in Surenler}

\* "Eski dosyayı sil", "Dosyayı da sil": however handlers overlap, the file that a row
\* names is on the disk, unless a handler has removed it and not ended, or was cut off
\* before its commit; handled one after the other, a file that no row names is also left
\* by such a handler only.
DosyaYerinde ==
    /\ Adlananlar \subseteq disk \cup Bitmeyenler
    /\ Sirali => disk \subseteq Adlananlar \cup Bitmeyenler
=============================================================================
