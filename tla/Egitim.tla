------------------------------- MODULE Egitim -------------------------------
(***************************************************************************)
(* Trainings and their participants, the bank of questions, and the tests  *)
(* put together from it (modules/egitim).                                  *)
(*                                                                         *)
(* Taking a test is not part of it: sinav_baslat and what follows look the *)
(* employee up by a column that Calisan does not have and always fail.     *)
(***************************************************************************)
EXTENDS Oturum, FiniteSets, FiniteSetsExt, Sequences, SequencesExt

CONSTANTS
    Egitimler,     \* ids for rows of egitimler
    Kisiler,       \* employees
    Kadrodakiler,  \* the active ones of the project or position named in a bulk addition
    Sorular,       \* ids for rows of sorular
    Testler,       \* ids for rows of testler
    MaxKayit,      \* bound: participations entered
    MaxForm,       \* bound: submissions of the question form
    MaxSira        \* bound: order numbers in a test, no less than its questions

EgitimDurumlari == {"planli", "devam_ediyor", "tamamlandi", "iptal"}

\* "kaldi" stands for iptal and mazeret too.
KatilimDurumlari == {"davetli", "katildi", "gecti", "kaldi"}

\* bitis: whether the end is recorded.
EgitimSatiri == [durum : EgitimDurumlari, bitis : BOOLEAN]

\* no tells the rows of a person who was removed and added again apart.
KatilimSatiri == [no : 1..MaxKayit, durum : KatilimDurumlari, katilim : BOOLEAN, sertifika : BOOLEAN]

\* A row of soru_secenekleri by the form it came with; metinli: that form changed a
\* column of the question too.
SecenekSatiri == [form : 1..MaxForm, metinli : BOOLEAN]

SoruSatiri == [form : 1..MaxForm, silindi : BOOLEAN]

ASSUME EgitimAssumption ==
    /\ Kadrodakiler \subseteq Kisiler
    /\ {MaxKayit, MaxForm, MaxSira} \subseteq Nat
    /\ IsFiniteSet(Sorular)
    /\ Cardinality(Sorular) <= MaxSira
    /\ Yok \notin EgitimSatiri \cup KatilimSatiri \cup SoruSatiri \cup Nat
    /\ Yok \notin [Sorular -> Nat \cup {Yok}]

VARIABLES
    egitim,   \* the trainings
    katilim,  \* the participant rows
    sayac,    \* participant rows and question forms so far
    soru,     \* the questions
    secenek,  \* the options of each question
    test      \* the tests: the order number of each question

katilimVars == <<egitim, katilim>>
soruVars == <<soru, secenek>>
egitimVars == <<katilimVars, soruVars, sayac, test>>

EgitimInit ==
    /\ egitim = [e \in Egitimler |-> Yok]
    /\ katilim = [e \in Egitimler |-> [c \in Kisiler |-> Yok]]
    /\ sayac = [katilim |-> 0, form |-> 0]
    /\ soru = [s \in Sorular |-> Yok]
    /\ secenek = [s \in Sorular |-> {}]
    /\ test = [t \in Testler |-> Yok]

-----------------------------------------------------------------------------
(* Trainings.                                                              *)

\* ekle.
EgitimEkle(e, bitis) ==
    /\ egitim[e] = Yok
    /\ egitim' = [egitim EXCEPT ![e] = [durum |-> "planli", bitis |-> bitis]]
    /\ UNCHANGED <<katilim, sayac, soruVars, test, oturum>>

EgitimYazar(i, e, yeni) ==
    /\ Basla(i, [is |-> "egitim", egitim |-> e, fark |-> Fark(egitim[e], yeni)])
    /\ UNCHANGED egitimVars

\* duzenle, which may clear the end of a training that is over.
EgitimDuzenleOku(i, e, bitis) ==
    /\ egitim[e] # Yok
    /\ EgitimYazar(i, e, [egitim[e] EXCEPT !.bitis = bitis])

\* durum_degistir.
EgitimDurumOku(i, e, d) ==
    /\ egitim[e] # Yok
    /\ EgitimYazar(i, e, [egitim[e] EXCEPT !.durum = d, !.bitis = @ \/ d = "tamamlandi"])

EgitimYaz(i) ==
    LET r == istek[i] IN
    /\ r.is = "egitim"
    /\ egitim' = [egitim EXCEPT ![r.egitim] = Uygula(@, r.fark)]
    /\ Bitti(i)
    /\ UNCHANGED <<katilim, sayac, soruVars, test>>

-----------------------------------------------------------------------------
(* Participants.                                                           *)

\* katilimci_ekle: those of the ticked persons who are not in yet.
KatilimciEkleOku(i, e, kisiler) ==
    /\ egitim[e] # Yok
    /\ Basla(i, [is |-> "katilim_ekle", egitim |-> e,
                 yeni |-> {c \in kisiler : katilim[e][c] = Yok}])
    /\ UNCHANGED egitimVars

\* toplu_katilimci; neither looks at the capacity.
TopluKatilimciOku(i, e) == KatilimciEkleOku(i, e, Kadrodakiler)

\* The batch.  One person entered meanwhile makes it fail as a whole (EgitimBirak).
KatilimciEkle(i) ==
    LET r == istek[i] IN
    /\ r.is = "katilim_ekle"
    /\ \A c \in r.yeni : katilim[r.egitim][c] = Yok
    /\ sayac.katilim < MaxKayit
    /\ sayac' = [sayac EXCEPT !.katilim = @ + 1]
    /\ katilim' = [katilim EXCEPT ![r.egitim] = [c \in Kisiler |->
         IF c \in r.yeni THEN [no |-> sayac'.katilim, durum |-> "davetli",
                               katilim |-> FALSE, sertifika |-> FALSE]
         ELSE @[c]]]
    /\ Bitti(i)
    /\ UNCHANGED <<egitim, soruVars, test>>

\* katilimci_durum: from any result to any other; a certificate is not withdrawn.
KatilimciDurumOku(i, e, c, d) ==
    LET eski == katilim[e][c] IN
    /\ eski # Yok
    /\ Basla(i, [is |-> "katilim", egitim |-> e, calisan |-> c, no |-> eski.no,
                 fark |-> Fark(eski, [eski EXCEPT !.durum = d,
                                                  !.katilim = @ \/ d \in {"katildi", "gecti"},
                                                  !.sertifika = @ \/ d = "gecti"])])
    /\ UNCHANGED egitimVars

\* Its commit; if the row is gone the UPDATE fails (EgitimBirak).
KatilimciYaz(i) ==
    LET r == istek[i] IN
    /\ r.is = "katilim"
    /\ katilim[r.egitim][r.calisan] # Yok
    /\ katilim[r.egitim][r.calisan].no = r.no
    /\ katilim' = [katilim EXCEPT ![r.egitim][r.calisan] = Uygula(@, r.fark)]
    /\ Bitti(i)
    /\ UNCHANGED <<egitim, sayac, soruVars, test>>

\* katilimci_sil.
KatilimciSil(e, c) ==
    /\ katilim[e][c] # Yok
    /\ katilim' = [katilim EXCEPT ![e][c] = Yok]
    /\ UNCHANGED <<egitim, sayac, soruVars, test, oturum>>

-----------------------------------------------------------------------------
(* The bank of questions.                                                  *)

YeniForm == sayac' = [sayac EXCEPT !.form = @ + 1]

\* soru_ekle, with at least one option.
SoruEkle(s) ==
    /\ soru[s] = Yok
    /\ sayac.form < MaxForm
    /\ YeniForm
    /\ soru' = [soru EXCEPT ![s] = [form |-> sayac'.form, silindi |-> FALSE]]
    /\ secenek' = [secenek EXCEPT ![s] = {[form |-> sayac'.form, metinli |-> TRUE]}]
    /\ UNCHANGED <<katilimVars, test, oturum>>

\* Whether an edit has the row of question s locked.
Kilitli(s) == \E i \in Istekler : istek[i].is = "soru" /\ istek[i].soru = s /\ istek[i].metinli

\* Mutant: the options to delete are those that were loaded with the question.
SoruDuzenleSil_kilitsiz(i, s, metinli) ==
    /\ soru[s] # Yok
    /\ sayac.form < MaxForm
    /\ YeniForm
    /\ Basla(i, [is |-> "soru", soru |-> s, metinli |-> metinli,
                 form |-> sayac'.form, silinen |-> secenek[s]])
    /\ UNCHANGED <<katilimVars, soruVars, test>>

\* soru_duzenle up to its DELETE.  The query writes what the form changed in the row of
\* the question first, and so waits for another edit that has; an edit of the options
\* only does not wait.  The DELETE sees the options committed so far.  (If it waits for
\* another DELETE, it finds those rows gone: whichever comes first, the same remain.)
SoruDuzenleSil(i, s, metinli) ==
    /\ soru[s] # Yok
    /\ metinli => ~Kilitli(s)
    /\ sayac.form < MaxForm
    /\ YeniForm
    /\ Basla(i, [is |-> "soru", soru |-> s, metinli |-> metinli,
                 form |-> sayac'.form, silinen |-> secenek[s]])
    /\ UNCHANGED <<katilimVars, soruVars, test>>

\* The new options, and the commit.
SoruDuzenleYaz(i) ==
    LET r == istek[i] IN
    /\ r.is = "soru"
    /\ soru' = IF r.metinli THEN [soru EXCEPT ![r.soru].form = r.form] ELSE soru
    /\ secenek' = [secenek EXCEPT ![r.soru] =
         (@ \ r.silinen) \cup {[form |-> r.form, metinli |-> r.metinli]}]
    /\ Bitti(i)
    /\ UNCHANGED <<katilimVars, sayac, test>>

\* soru_sil: the row stays, also in the tests that ask it.
SoruSil(s) ==
    /\ soru[s] # Yok
    /\ ~Kilitli(s)
    /\ soru' = [soru EXCEPT ![s].silindi = TRUE]
    /\ UNCHANGED <<katilimVars, sayac, secenek, test, oturum>>

-----------------------------------------------------------------------------
(* The questions of a test.                                                *)

\* test_ekle, without questions.
TestEkle(t) ==
    /\ test[t] = Yok
    /\ test' = [test EXCEPT ![t] = [s \in Sorular |-> Yok]]
    /\ UNCHANGED <<katilimVars, sayac, soruVars, oturum>>

TesttekiSorular(t) == {s \in Sorular : test[t] # Yok /\ test[t][s] # Yok}

\* Mutant: the questions are counted.
SonSira_sayi(t) == Cardinality(TesttekiSorular(t))

\* max(sira), or 0.
SonSira(t) == Max({0} \cup {test[t][s] : s \in TesttekiSorular(t)})

\* test_soru_ekle: each question of liste that is not in yet gets the number after the
\* last one, in the order of the list.
TestSoruEkleOku(i, t, liste) ==
    LET yeniler == ToSet(liste) \ TesttekiSorular(t)
        yeri(s) == CHOOSE k \in DOMAIN liste : liste[k] = s
        son == SonSira(t)
    IN  /\ test[t] # Yok
        /\ \A s \in ToSet(liste) : soru[s] # Yok
        /\ son + Cardinality(yeniler) <= MaxSira
        /\ Basla(i, [is |-> "test_ekle", test |-> t,
                     sira |-> [s \in yeniler |->
                                 son + Cardinality({z \in yeniler : yeri(z) <= yeri(s)})]])
        /\ UNCHANGED egitimVars

\* Its commit; unique_test_soru refuses the batch if one of them is in meanwhile.
TestSoruEkle(i) ==
    LET r == istek[i] IN
    /\ r.is = "test_ekle"
    /\ DOMAIN r.sira \cap TesttekiSorular(r.test) = {}
    /\ test' = [test EXCEPT ![r.test] = [s \in Sorular |->
         IF s \in DOMAIN r.sira THEN r.sira[s] ELSE @[s]]]
    /\ Bitti(i)
    /\ UNCHANGED <<katilimVars, sayac, soruVars>>

\* test_soru_cikar.
TestSoruCikar(t, s) ==
    /\ s \in TesttekiSorular(t)
    /\ test' = [test EXCEPT ![t][s] = Yok]
    /\ UNCHANGED <<katilimVars, sayac, soruVars, oturum>>

\* test_soru_sirala: the questions that the page shows, from 0; others keep their number.
TestSiralaOku(i, t, liste) ==
    LET gelen == {s \in TesttekiSorular(t) : Contains(liste, s)}
        sira == [s \in gelen |-> (CHOOSE k \in DOMAIN liste : liste[k] = s) - 1]
    IN  /\ test[t] # Yok
        /\ Basla(i, [is |-> "test_sirala", test |-> t, fark |-> Fark(test[t], sira)])
        /\ UNCHANGED egitimVars

\* Its commit; if one of the rows is gone the UPDATE fails.  (A question that was
\* removed and added again meanwhile counts as the same row here.)
TestSirala(i) ==
    LET r == istek[i] IN
    /\ r.is = "test_sirala"
    /\ DOMAIN r.fark \subseteq TesttekiSorular(r.test)
    /\ test' = [test EXCEPT ![r.test] = Uygula(@, r.fark)]
    /\ Bitti(i)
    /\ UNCHANGED <<katilimVars, sayac, soruVars>>

-----------------------------------------------------------------------------

\* A handler ends before its commit, or with it refused.
EgitimBirak(i) ==
    /\ istek[i].is \in {"egitim", "katilim_ekle", "katilim", "soru", "test_ekle", "test_sirala"}
    /\ Bitti(i)
    /\ UNCHANGED egitimVars

\* Trainings.
EgitimlerNext ==
    \/ \E e \in Egitimler, bitis \in BOOLEAN : EgitimEkle(e, bitis)
    \/ \E i \in Istekler :
         \/ \E e \in Egitimler, bitis \in BOOLEAN : EgitimDuzenleOku(i, e, bitis)
         \/ \E e \in Egitimler, d \in EgitimDurumlari : EgitimDurumOku(i, e, d)
         \/ EgitimYaz(i)
         \/ EgitimBirak(i)

\* Participants.
KatilimNext ==
    \/ \E e \in Egitimler : EgitimEkle(e, FALSE)
    \/ \E e \in Egitimler, c \in Kisiler : KatilimciSil(e, c)
    \/ \E i \in Istekler :
         \/ \E e \in Egitimler :
              \/ \E kisiler \in SUBSET Kisiler : KatilimciEkleOku(i, e, kisiler)
              \/ TopluKatilimciOku(i, e)
              \/ \E c \in Kisiler, d \in KatilimDurumlari : KatilimciDurumOku(i, e, c, d)
         \/ KatilimciEkle(i)
         \/ KatilimciYaz(i)
         \/ EgitimBirak(i)

\* The bank of questions.
SoruNext ==
    \/ \E s \in Sorular : SoruEkle(s) \/ SoruSil(s)
    \/ \E i \in Istekler :
         \/ \E s \in Sorular, metinli \in BOOLEAN : SoruDuzenleSil(i, s, metinli)
         \/ SoruDuzenleYaz(i)
         \/ EgitimBirak(i)

\* Tests.
TestNext ==
    \/ \E s \in Sorular : SoruEkle(s)
    \/ \E t \in Testler : TestEkle(t) \/ \E s \in Sorular : TestSoruCikar(t, s)
    \/ \E i \in Istekler :
         \/ \E t \in Testler, liste \in SetToAllKPermutations(Sorular) :
              TestSoruEkleOku(i, t, liste) \/ TestSiralaOku(i, t, liste)
         \/ TestSoruEkle(i)
         \/ TestSirala(i)
         \/ EgitimBirak(i)

EgitimNext == EgitimlerNext \/ KatilimNext \/ SoruNext \/ TestNext

EgitimSpec == OturumInit /\ EgitimInit /\ [][EgitimNext]_<<oturum, egitimVars>>

-----------------------------------------------------------------------------
(* Properties.                                                             *)

EgitimTypeOK ==
    /\ egitim \in [Egitimler -> EgitimSatiri \cup {Yok}]
    /\ katilim \in [Egitimler -> [Kisiler -> KatilimSatiri \cup {Yok}]]
    /\ sayac \in [katilim : 0..MaxKayit, form : 0..MaxForm]
    /\ soru \in [Sorular -> SoruSatiri \cup {Yok}]
    /\ secenek \in [Sorular -> SUBSET SecenekSatiri]
    /\ test \in [Testler -> [Sorular -> (0..MaxSira) \cup {Yok}] \cup {Yok}]

\* "Mevcut seçenekleri sil": a question never has the options of two forms that both
\* changed the question, however its edits overlap; handled one after the other, it
\* never has the options of two forms at all.
SecenekTekForm ==
    \A s \in Sorular :
        /\ Cardinality({o \in secenek[s] : o.metinli}) <= 1
        /\ Sirali => Cardinality(secenek[s]) <= 1

\* Handled one after the other, questions added to a test come after all it has, in
\* the order of the list, whatever reorderings and removals came before.
SonaEklenir ==
    [][\A t \in Testler :
         LET eskiler == TesttekiSorular(t)
             yeniler == TesttekiSorular(t)' \ eskiler
         IN  Sirali => \A y \in yeniler :
               /\ \A s \in eskiler : test'[t][s] < test'[t][y]
               /\ \A z \in yeniler : test'[t][z] = test'[t][y] => z = y]_test
=============================================================================
