-------------------------------- MODULE Arac --------------------------------
(***************************************************************************)
(* The vehicle fleet (modules/filo): the vehicle, its holder, its project  *)
(* and its mileage, and the records of fuel, maintenance and hand-over     *)
(* that change them.  modules/proje assigns vehicles to projects.          *)
(***************************************************************************)
EXTENDS Oturum, Sequences

CONSTANTS
    Araclar,     \* ids for rows of araclar
    Calisanlar,  \* employees
    Projeler,    \* projects
    Fisler,      \* fuel receipts: date and litres, as the form or the file gives them
    Saklanan,    \* the receipt that the row shows: its litres have two decimals
    MaxKm,       \* bound: mileages
    MaxGecmis    \* bound: entries in the history of a vehicle, imported rows of a receipt

Km == 0..MaxKm
Kisi == Calisanlar \cup {Yok}

AracSatiri == [silindi : BOOLEAN, sahip : Kisi, proje : Projeler \cup {Yok}, km : Km]

\* An entry of the history: a row of arac_teslimler ("teslim", "iade"), of
\* yakit_kayitlari or filo_islemler ("kullanim"), or the vehicle's own form.
GecmisSatiri ==
    [islem : {"form", "teslim", "iade", "kullanim"}, alan : Kisi, eden : Kisi, km : Km]

\* How many rows of yakit_kayitlari a receipt was entered as, by hand and by imports.
FisSatiri == [elle : Nat, excel : Nat]

ASSUME AracAssumption ==
    /\ MaxKm \in Nat
    /\ MaxGecmis \in Nat
    /\ Yok \notin AracSatiri
    /\ Yok \notin GecmisSatiri
    /\ Yok \notin Calisanlar \cup Projeler \cup Fisler
    /\ Saklanan \in [Fisler -> Fisler]
    /\ \A f \in Fisler : Saklanan[Saklanan[f]] = Saklanan[f]

VARIABLES
    arac,    \* the vehicles
    gecmis,  \* what was entered for each vehicle, in the order of the commits
    fis      \* the fuel receipts of each vehicle

aracVars == <<arac, gecmis, fis>>

AracInit ==
    /\ arac = [a \in Araclar |-> Yok]
    /\ gecmis = [a \in Araclar |-> << >>]
    /\ fis = [a \in Araclar |-> [f \in Fisler |-> [elle |-> 0, excel |-> 0]]]

\* A handler that will write fark to vehicle a and insert the entry kayit, and
\* for a fuel record the receipt f.
AracYazar(i, a, fark, kayit, f) ==
    /\ arac[a] # Yok
    /\ Basla(i, [is |-> "arac", arac |-> a, fark |-> fark, kayit |-> kayit, fis |-> f])
    /\ UNCHANGED aracVars

-----------------------------------------------------------------------------
(* The vehicle's form.                                                     *)

\* ekle.  Nothing is read; a plate is entered once.
AracEkle(a, c, p, km) ==
    /\ arac[a] = Yok
    /\ arac' = [arac EXCEPT ![a] = [silindi |-> FALSE, sahip |-> c, proje |-> p, km |-> km]]
    /\ gecmis' = [gecmis EXCEPT ![a] =
         << [islem |-> "form", alan |-> c, eden |-> Yok, km |-> km] >>]
    /\ UNCHANGED <<fis, oturum>>

\* duzenle.  The form's numbers are strings, which differ from what was loaded even
\* when they mean the same: they are written, except an empty field that was empty.
DuzenleOku(i, a, c, p, km) ==
    LET yeni == [km |-> km, sahip |-> c, proje |-> p]
        yazilan == {k \in DOMAIN yeni : yeni[k] # Yok \/ arac[a][k] # Yok}
    IN  /\ arac[a] # Yok
        /\ AracYazar(i, a, [k \in yazilan |-> yeni[k]],
                     [islem |-> "form", alan |-> c, eden |-> Yok, km |-> km], Yok)

\* sil: the row stays, and no other handler below but the import looks at is_deleted.
SilOku(i, a) ==
    /\ arac[a] # Yok
    /\ AracYazar(i, a, [silindi |-> TRUE], Yok, Yok)

-----------------------------------------------------------------------------
(* Use of the vehicle.                                                     *)

\* Mutant: the mileage of the form is taken whatever it is.
KmFarki_hep(a, km) == [km |-> km]

\* The record's mileage becomes the vehicle's when it is higher than the copy's.
KmFarki(a, km) == IF km > arac[a].km THEN [km |-> km] ELSE HicFark

\* islem_ekle and yakit_ekle; the latter also inserts a receipt.
KullanimOku(i, a, km, f) ==
    /\ arac[a] # Yok
    /\ AracYazar(i, a, KmFarki(a, km),
                 [islem |-> "kullanim", alan |-> Yok, eden |-> Yok, km |-> km], f)

\* arac_teslim: to whoever the form names, or to nobody; the holder is not asked.
TeslimOku(i, a, c, km) ==
    /\ arac[a] # Yok
    /\ AracYazar(i, a, Fark(arac[a], [arac[a] EXCEPT !.sahip = c, !.km = km]),
                 [islem |-> "teslim", alan |-> c, eden |-> Yok, km |-> km], Yok)

\* arac_iade: the giver is the copy's holder, if any.
IadeOku(i, a, km) ==
    /\ arac[a] # Yok
    /\ AracYazar(i, a, Fark(arac[a], [arac[a] EXCEPT !.sahip = Yok, !.km = km]),
                 [islem |-> "iade", alan |-> Yok, eden |-> arac[a].sahip, km |-> km], Yok)

\* proje arac_cikar: only out of the project that the link names.
CikarOku(i, a, p) ==
    /\ arac[a] # Yok
    /\ arac[a].proje = p
    /\ AracYazar(i, a, [proje |-> Yok], Yok, Yok)

\* Commit of the handlers above.
AracYaz(i) ==
    LET r == istek[i] IN
    /\ r.is = "arac"
    /\ Len(gecmis[r.arac]) < MaxGecmis
    /\ arac' = [arac EXCEPT ![r.arac] = Uygula(@, r.fark)]
    /\ gecmis' = IF r.kayit = Yok THEN gecmis
                 ELSE [gecmis EXCEPT ![r.arac] = Append(@, r.kayit)]
    /\ fis' = IF r.fis = Yok THEN fis ELSE [fis EXCEPT ![r.arac][r.fis].elle = @ + 1]
    /\ Bitti(i)

\* proje arac_ata: one UPDATE for the vehicles ticked on the page, whatever project
\* they have got since the page listed them as free.
AracAta(secilen, p) ==
    /\ arac' = [a \in Araclar |->
         IF a \in secilen /\ arac[a] # Yok THEN [arac[a] EXCEPT !.proje = p] ELSE arac[a]]
    /\ UNCHANGED <<gecmis, fis, oturum>>

-----------------------------------------------------------------------------
(* yakit_import: the receipts of a file, one row after the other, and one  *)
(* commit at its end.  bekleyen counts the rows inserted and not committed. *)

ImportBasla(i) ==
    /\ Basla(i, [is |-> "import", bekleyen |-> [a \in Araclar |-> [f \in Fisler |-> 0]]])
    /\ UNCHANGED aracVars

\* Mutant: the rows of the file itself are not seen by the duplicate check.
FisVar_bekleyensiz(a, f, bekleyen) ==
    \E g \in Fisler : Saklanan[g] = f /\ fis[a][g].elle + fis[a][g].excel > 0

\* The duplicate check: committed rows, and the handler's own, flushed by the query, that
\* show the date and the litres of the file.
FisVar(a, f, bekleyen) ==
    \E g \in Fisler : Saklanan[g] = f /\ fis[a][g].elle + fis[a][g].excel + bekleyen[a][g] > 0

\* A row of the file whose vehicle is found by its plate and that is new is inserted;
\* the others are skipped.
ImportSatir(i, a, f) ==
    /\ istek[i].is = "import"
    /\ arac[a] # Yok
    /\ ~arac[a].silindi
    /\ ~FisVar(a, f, istek[i].bekleyen)
    /\ fis[a][f].excel + istek[i].bekleyen[a][f] < MaxGecmis
    /\ istek' = [istek EXCEPT ![i].bekleyen[a][f] = @ + 1]
    /\ UNCHANGED <<isci, aracVars>>

ImportYaz(i) ==
    /\ istek[i].is = "import"
    /\ fis' = [a \in Araclar |-> [f \in Fisler |->
                 [fis[a][f] EXCEPT !.excel = @ + istek[i].bekleyen[a][f]]]]
    /\ Bitti(i)
    /\ UNCHANGED <<arac, gecmis>>

\* The handler ends before its commit.
AracBirak(i) ==
    /\ istek[i].is \in {"arac", "import"}
    /\ Bitti(i)
    /\ UNCHANGED aracVars

-----------------------------------------------------------------------------

\* The pages about who has a vehicle and how far it has gone.
TeslimNext ==
    \/ \E a \in Araclar, c \in Kisi, km \in Km :
         \/ AracEkle(a, c, Yok, km)
         \/ \E i \in Istekler : DuzenleOku(i, a, c, Yok, km) \/ TeslimOku(i, a, c, km)
    \/ \E i \in Istekler :
         \/ \E a \in Araclar, km \in Km : IadeOku(i, a, km) \/ KullanimOku(i, a, km, Yok)
         \/ AracYaz(i)
         \/ AracBirak(i)

\* The pages about fuel and about the projects of vehicles.
YakitNext ==
    \/ \E a \in Araclar, p \in Projeler \cup {Yok}, km \in Km : AracEkle(a, Yok, p, km)
    \/ \E secilen \in SUBSET Araclar, p \in Projeler : AracAta(secilen, p)
    \/ \E i \in Istekler :
         \/ ImportBasla(i)
         \/ \E a \in Araclar :
              \/ SilOku(i, a)
              \/ \E p \in Projeler : CikarOku(i, a, p)
              \/ \E p \in Projeler \cup {Yok} : DuzenleOku(i, a, Yok, p, 0)
              \/ \E f \in Fisler :
                   \/ ImportSatir(i, a, f)
                   \/ \E km \in Km : KullanimOku(i, a, km, f)
         \/ AracYaz(i)
         \/ ImportYaz(i)
         \/ AracBirak(i)

AracNext == TeslimNext \/ YakitNext

-----------------------------------------------------------------------------
(* Properties.                                                             *)

\* Every variable has its type.
AracTypeOK ==
    /\ arac \in [Araclar -> AracSatiri \cup {Yok}]
    /\ gecmis \in [Araclar -> Seq(GecmisSatiri)]
    /\ fis \in [Araclar -> [Fisler -> FisSatiri]]

\* Entry k of history g sets the holder and the mileage, whatever they were.
Sifirlar(g, k) == g[k].islem # "kullanim"

SonSifirlama(g, k) == Sifirlar(g, k) /\ \A j \in (k + 1)..Len(g) : ~Sifirlar(g, j)

\* "Araç teslim/iade kayıtları", "Araç km güncelle": handled one after the other, the
\* holder in the row is the one the records of hand-over and the form end in, also after
\* returns nobody checked and transfers without a return; the mileage is that of the
\* last of these records, or a higher one that fuel or maintenance has entered since.
AracGecmisten ==
    Sirali => \A a \in Araclar : arac[a] # Yok =>
        \E k \in DOMAIN gecmis[a] :
            LET okunan == {gecmis[a][j].km : j \in k..Len(gecmis[a])}
            IN  /\ SonSifirlama(gecmis[a], k)
                /\ arac[a].sahip = gecmis[a][k].alan
                /\ arac[a].km \in okunan
                /\ \A m \in okunan : m <= arac[a].km

\* "Duplicate kontrolü": a receipt whose litres the column keeps as they are is imported
\* once, also when its file is imported again, when a row of the file is repeated, or when
\* another receipt is stored like it; only imports in several threads enter it again, and
\* over all of them no more often than there are threads.  Nothing of the kind holds for a
\* receipt with more decimals: it does not find its own row, also with one thread.
IceAktarimTekil ==
    \A a \in Araclar, f \in Fisler :
        Saklanan[f] = f => fis[a][f].excel <= Cardinality(isci)

=============================================================================
