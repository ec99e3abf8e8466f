------------------------------- MODULE Destek -------------------------------
(***************************************************************************)
(* Help desk tickets (modules/talep): how a ticket is opened and numbered, *)
(* assigned, answered, and moved through its states.                       *)
(***************************************************************************)
EXTENDS Oturum, FiniteSets, Sequences

CONSTANTS
    Talepler,     \* ids for rows of talepler
    Kategoriler,  \* ids for rows of talep_kategorileri
    Ekip,         \* users with permission talep.admin
    MaxYorum      \* bound: comments of a ticket

Durumlar == {"acik", "atandi", "devam_ediyor", "beklemede", "cozuldu", "kapatildi"}

\* no: the number in talep_no, within one year.  Of the dates the row keeps whether
\* they are set, of ilkYanit which comment was entered then.  acil: oncelik is not the
\* default.
TalepSatiri ==
    [no : Nat, durum : Durumlar, acil : BOOLEAN, atanan : Ekip \cup {Yok}, atanma : BOOLEAN,
     ilkYanit : Nat, cozum : BOOLEAN, kapatma : BOOLEAN]

\* tip of a row of talep_yorumlari.
YorumTipi == {"yorum", "cevap", "durum_degisikligi"}

ASSUME DestekAssumption ==
    /\ Yok \notin TalepSatiri
    /\ Yok \notin Ekip \cup YorumTipi
    /\ IsFiniteSet(Talepler)
    /\ MaxYorum \in Nat

VARIABLES
    kategori,  \* the categories, each by its default assignee
    talep,     \* the tickets
    yorum      \* the comments of each ticket, in the order of the commits

destekVars == <<kategori, talep, yorum>>

DestekInit ==
    /\ kategori = [k \in Kategoriler |-> Yok]
    /\ talep = [t \in Talepler |-> Yok]
    /\ yorum = [t \in Talepler |-> << >>]

Acilan == {t \in Talepler : talep[t] # Yok}

-----------------------------------------------------------------------------

\* kategori_ekle, with a default assignee or without.
KategoriEkle(k, u) ==
    /\ kategori[k] = Yok
    /\ kategori' = [kategori EXCEPT ![k] = [varsayilan |-> u]]
    /\ UNCHANGED <<talep, yorum, oturum>>

\* talep_no_olustur: the tickets of the year, counted.
SonrakiNo == Cardinality(Acilan) + 1

\* yeni: assigned at once if category k has a default assignee.
TalepYeniOku(i, t, k, acil) ==
    /\ talep[t] = Yok
    /\ kategori[k] # Yok
    /\ LET u == kategori[k].varsayilan
       IN  Basla(i, [is |-> "talep_ac", talep |-> t,
                     satir |-> [no |-> SonrakiNo, durum |-> IF u = Yok THEN "acik" ELSE "atandi",
                                acil |-> acil, atanan |-> u, atanma |-> u # Yok, ilkYanit |-> 0,
                                cozum |-> FALSE, kapatma |-> FALSE]])
    /\ UNCHANGED destekVars

\* Mutant: talep_no has no unique index.
TalepEkle_tekrarli(i) ==
    LET r == istek[i] IN
    /\ r.is = "talep_ac"
    /\ talep[r.talep] = Yok
    /\ talep' = [talep EXCEPT ![r.talep] = r.satir]
    /\ Bitti(i)
    /\ UNCHANGED <<kategori, yorum>>

\* Its insert, which a number that was taken meanwhile makes fail (TalepBirak).
TalepEkle(i) ==
    LET r == istek[i] IN
    /\ r.is = "talep_ac"
    /\ talep[r.talep] = Yok
    /\ r.satir.no \notin {talep[t].no : t \in Acilan}
    /\ talep' = [talep EXCEPT ![r.talep] = r.satir]
    /\ Bitti(i)
    /\ UNCHANGED <<kategori, yorum>>

\* A handler that has loaded ticket t, will write fark to it and enter a comment.
TalepYazar(i, t, fark, tip) ==
    /\ talep[t] # Yok
    /\ Basla(i, [is |-> "talep", talep |-> t, fark |-> fark, tip |-> tip])
    /\ UNCHANGED destekVars

\* yorum_ekle by the one who opened the ticket.
YorumOku(i, t) == TalepYazar(i, t, HicFark, "yorum")

\* yorum_ekle by the team.  If the copy has no first answer this one is it; which
\* comment that is, TalepYaz fills in.
CevapOku(i, t) ==
    /\ talep[t] # Yok
    /\ TalepYazar(i, t, IF talep[t].ilkYanit = 0 THEN [ilkYanit |-> Yok] ELSE HicFark, "cevap")

\* durum_degistir: from any state to any state, with a comment if the copy's differs.
DurumOku(i, t, d) ==
    /\ talep[t] # Yok
    /\ LET yeni == [talep[t] EXCEPT !.durum = d, !.cozum = @ \/ d = "cozuldu",
                                    !.kapatma = @ \/ d = "kapatildi"]
       IN  TalepYazar(i, t, Fark(talep[t], yeni),
                      IF d # talep[t].durum THEN "durum_degisikligi" ELSE Yok)

\* Mutant: the state is one that no page knows.
AtaOku_yazim(i, t, u) ==
    /\ talep[t] # Yok
    /\ TalepYazar(i, t, Fark(talep[t], [talep[t] EXCEPT !.atanan = u, !.durum = "atanmis",
                                                        !.atanma = TRUE]),
                  "durum_degisikligi")

\* ata, to u.  The date is a new one each time.
AtaOku(i, t, u) ==
    /\ talep[t] # Yok
    /\ LET yeni == [talep[t] EXCEPT !.atanan = u, !.durum = IF @ = "acik" THEN "atandi" ELSE @]
           fark == Fark(talep[t], yeni)
       IN  TalepYazar(i, t, [k \in DOMAIN fark \cup {"atanma"} |->
                               IF k = "atanma" THEN TRUE ELSE fark[k]],
                      "durum_degisikligi")

\* Mutant: the date of the assignment stays.
AtamaKaldirOku_tarihli(i, t) ==
    /\ talep[t] # Yok
    /\ TalepYazar(i, t, Fark(talep[t], [talep[t] EXCEPT !.atanan = Yok, !.durum = "acik"]), Yok)

\* ata, to nobody: the ticket is open again whatever it was, and no comment says so.
AtamaKaldirOku(i, t) ==
    /\ talep[t] # Yok
    /\ TalepYazar(i, t, Fark(talep[t], [talep[t] EXCEPT !.atanan = Yok, !.atanma = FALSE,
                                                        !.durum = "acik"]), Yok)

\* oncelik_degistir; no comment says so.
OncelikOku(i, t, acil) ==
    /\ talep[t] # Yok
    /\ TalepYazar(i, t, Fark(talep[t], [talep[t] EXCEPT !.acil = acil]), Yok)

\* The columns in fark when comment n is entered with them.
Yazilan(fark, n) == [k \in DOMAIN fark |-> IF k = "ilkYanit" THEN n ELSE fark[k]]

\* Commit of the handlers above.
TalepYaz(i) ==
    LET r == istek[i] IN
    /\ r.is = "talep"
    /\ Len(yorum[r.talep]) < MaxYorum
    /\ talep' = [talep EXCEPT ![r.talep] = Uygula(@, Yazilan(r.fark, Len(yorum[r.talep]) + 1))]
    /\ yorum' = IF r.tip = Yok THEN yorum ELSE [yorum EXCEPT ![r.talep] = Append(@, r.tip)]
    /\ Bitti(i)
    /\ UNCHANGED kategori

\* A handler ends before its commit, or with it refused.
TalepBirak(i) ==
    /\ istek[i].is \in {"talep_ac", "talep"}
    /\ Bitti(i)
    /\ UNCHANGED destekVars

\* Tickets are opened.
TalepAcNext ==
    \/ \E k \in Kategoriler, u \in Ekip \cup {Yok} : KategoriEkle(k, u)
    \/ \E i \in Istekler :
         \/ \E t \in Talepler, k \in Kategoriler, acil \in BOOLEAN : TalepYeniOku(i, t, k, acil)
         \/ TalepEkle(i)
         \/ TalepBirak(i)

\* Tickets are handled.
TalepIsleNext ==
    \E i \in Istekler :
        \/ \E t \in Talepler :
             \/ YorumOku(i, t)
             \/ CevapOku(i, t)
             \/ \E d \in Durumlar : DurumOku(i, t, d)
             \/ \E u \in Ekip : AtaOku(i, t, u)
             \/ AtamaKaldirOku(i, t)
             \/ \E acil \in BOOLEAN : OncelikOku(i, t, acil)
        \/ TalepYaz(i)
        \/ TalepBirak(i)

DestekNext == TalepAcNext \/ TalepIsleNext

DestekSpec == OturumInit /\ DestekInit /\ [][DestekNext]_<<oturum, destekVars>>

-----------------------------------------------------------------------------
(* Properties.                                                             *)

DestekTypeOK ==
    /\ kategori \in [Kategoriler -> [varsayilan : Ekip \cup {Yok}] \cup {Yok}]
    /\ talep \in [Talepler -> TalepSatiri \cup {Yok}]
    /\ yorum \in [Talepler -> Seq(YorumTipi)]

\* talep_no: the tickets of a year are numbered from one without gap or repetition, also
\* when several are opened at once.  A gap would make the count collide for ever.
TalepNoArdisik ==
    \A n \in 1..Cardinality(Acilan) : \E t \in Acilan : talep[t].no = n

\* ilk_yanit_tarihi, atanma_tarihi: a ticket has a first answer as soon as the team has
\* answered, entered at the time of an answer.  Handled one after the other, it is the
\* time of the first one, and a ticket has a date of assignment exactly while it is
\* assigned, through every assignment, removal and change of state.  A solved and a
\* closed ticket have their dates in any case.
TarihlerTutarli ==
    \A t \in Acilan :
        LET cevaplar == {k \in DOMAIN yorum[t] : yorum[t][k] = "cevap"}
            ilk == talep[t].ilkYanit
        IN  /\ IF cevaplar = {} THEN ilk = 0 ELSE ilk \in cevaplar
            /\ Sirali => \A k \in cevaplar : ilk <= k
            /\ Sirali => (talep[t].atanma <=> talep[t].atanan # Yok)
            /\ talep[t].durum = "cozuldu" => talep[t].cozum
            /\ talep[t].durum = "kapatildi" => talep[t].kapatma
=============================================================================
