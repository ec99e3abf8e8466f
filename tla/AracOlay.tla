------------------------------ MODULE AracOlay ------------------------------
(***************************************************************************)
(* What happens to the vehicles of module Arac: accidents and the decision *)
(* about them, traffic fines, replacement vehicles (modules/filo).  All    *)
(* take the driver from the form or, when it names none, the vehicle's     *)
(* holder as it was loaded.                                                *)
(***************************************************************************)
EXTENDS Arac

CONSTANTS
    Olaylar,      \* ids for rows of kazalar, trafik_cezalari, ikame_araclar
    Kullanicilar  \* users who decide

\* form: the driver the form named.  neden: whose words red_nedeni holds.
KazaSatiri ==
    [tur : {"kaza"}, arac : Araclar, surucu : Kisi, form : Kisi,
     onay : {"bekliyor", "onaylandi", "reddedildi"},
     onaylayan : Kullanicilar \cup {Yok}, neden : Kullanicilar \cup {Yok}]

CezaSatiri ==
    [tur : {"ceza"}, arac : Araclar, surucu : Kisi, form : Kisi,
     odendi : BOOLEAN, yansitildi : BOOLEAN]

IkameSatiri == [tur : {"ikame"}, arac : Araclar, iade : BOOLEAN]

VARIABLE olay  \* the rows of the three tables

OlayInit == olay = [o \in Olaylar |-> Yok]

-----------------------------------------------------------------------------

\* surucu_id of a new row.
Surucu(a, c) == IF c # Yok THEN c ELSE arac[a].sahip

OlayOku(i, o, satir) ==
    /\ arac[satir.arac] # Yok
    /\ olay[o] = Yok
    /\ Basla(i, [is |-> "olay_ekle", olay |-> o, satir |-> satir])
    /\ UNCHANGED <<aracVars, olay>>

\* Mutant: the driver is the one the form names, or whoever opens the page.
KazaOku_acan(i, o, a, c) ==
    /\ arac[a] # Yok
    /\ \E d \in Calisanlar :
         OlayOku(i, o, [tur |-> "kaza", arac |-> a, surucu |-> d, form |-> c,
                        onay |-> "bekliyor", onaylayan |-> Yok, neden |-> Yok])

\* kaza_ekle, which asks for a photograph too.
KazaOku(i, o, a, c) ==
    /\ arac[a] # Yok
    /\ OlayOku(i, o, [tur |-> "kaza", arac |-> a, surucu |-> Surucu(a, c), form |-> c,
                      onay |-> "bekliyor", onaylayan |-> Yok, neden |-> Yok])

\* ceza_ekle.
CezaOku(i, o, a, c) ==
    /\ arac[a] # Yok
    /\ OlayOku(i, o, [tur |-> "ceza", arac |-> a, surucu |-> Surucu(a, c), form |-> c,
                      odendi |-> FALSE, yansitildi |-> FALSE])

\* ikame_ekle.
IkameOku(i, o, a) == OlayOku(i, o, [tur |-> "ikame", arac |-> a, iade |-> FALSE])

\* Commit of the three.
OlayEkle(i) ==
    LET r == istek[i] IN
    /\ r.is = "olay_ekle"
    /\ olay[r.olay] = Yok
    /\ olay' = [olay EXCEPT ![r.olay] = r.satir]
    /\ Bitti(i)
    /\ UNCHANGED aracVars

\* A handler that has loaded row o and will turn it into yeni.
OlayYazar(i, o, yeni) ==
    /\ Basla(i, [is |-> "olay", olay |-> o, fark |-> Fark(olay[o], yeni)])
    /\ UNCHANGED <<aracVars, olay>>

\* kaza_onayla: the state is not asked, and the reason of an earlier rejection stays.
KazaOnaylaOku(i, o, u) ==
    /\ olay[o] # Yok
    /\ olay[o].tur = "kaza"
    /\ OlayYazar(i, o, [olay[o] EXCEPT !.onay = "onaylandi", !.onaylayan = u])

\* kaza_reddet.
KazaReddetOku(i, o, u) ==
    /\ olay[o] # Yok
    /\ olay[o].tur = "kaza"
    /\ OlayYazar(i, o, [olay[o] EXCEPT !.onay = "reddedildi", !.onaylayan = u, !.neden = u])

\* ceza_ode, in any state and as often as asked.
CezaOdeOku(i, o) ==
    /\ olay[o] # Yok
    /\ olay[o].tur = "ceza"
    /\ OlayYazar(i, o, [olay[o] EXCEPT !.odendi = TRUE])

\* ceza_yansit, also when there is no driver.
CezaYansitOku(i, o) ==
    /\ olay[o] # Yok
    /\ olay[o].tur = "ceza"
    /\ OlayYazar(i, o, [olay[o] EXCEPT !.yansitildi = TRUE])

\* ikame_iade.
IkameIadeOku(i, o) ==
    /\ olay[o] # Yok
    /\ olay[o].tur = "ikame"
    /\ OlayYazar(i, o, [olay[o] EXCEPT !.iade = TRUE])

OlayYaz(i) ==
    LET r == istek[i] IN
    /\ r.is = "olay"
    /\ olay' = [olay EXCEPT ![r.olay] = Uygula(@, r.fark)]
    /\ Bitti(i)
    /\ UNCHANGED aracVars

OlayBirak(i) ==
    /\ istek[i].is \in {"olay_ekle", "olay"}
    /\ Bitti(i)
    /\ UNCHANGED <<aracVars, olay>>

\* The events of vehicles that change hands, at one mileage.
OlayNext ==
    \/ /\ \/ \E a \in Araclar, c \in Kisi : AracEkle(a, c, Yok, 0)
          \/ \E i \in Istekler :
               \/ \E a \in Araclar :
                    IadeOku(i, a, 0) \/ \E c \in Kisi : TeslimOku(i, a, c, 0)
               \/ AracYaz(i)
               \/ AracBirak(i)
       /\ UNCHANGED olay
    \/ \E i \in Istekler :
         \/ \E o \in Olaylar :
              \/ \E a \in Araclar :
                   \/ \E c \in Kisi : KazaOku(i, o, a, c) \/ CezaOku(i, o, a, c)
                   \/ IkameOku(i, o, a)
              \/ \E u \in Kullanicilar : KazaOnaylaOku(i, o, u) \/ KazaReddetOku(i, o, u)
              \/ CezaOdeOku(i, o)
              \/ CezaYansitOku(i, o)
              \/ IkameIadeOku(i, o)
         \/ OlayEkle(i)
         \/ OlayYaz(i)
         \/ OlayBirak(i)

\* All pages of modules/filo.
FiloNext == (AracNext /\ UNCHANGED olay) \/ OlayNext

filoVars == <<oturum, aracVars, olay>>

FiloSpec == OturumInit /\ AracInit /\ OlayInit /\ [][FiloNext]_filoVars

-----------------------------------------------------------------------------
(* Properties.                                                             *)

OlayTypeOK == olay \in [Olaylar -> KazaSatiri \cup CezaSatiri \cup IkameSatiri \cup {Yok}]

\* Entry k of the history of vehicle a or an earlier one makes c its holder.
SahipOldu(a, c, k) == \E j \in DOMAIN gecmis[a] : j <= k /\ gecmis[a][j].alan = c

\* "surucu_id = form or holder", "teslim_eden_id = holder": whoever is entered as
\* returning a vehicle, or as the driver in an accident or a fine whose form names none,
\* had been entered as its holder before, even when an overlapping handler has handed
\* the vehicle on since the holder was read.
KisiTasimisti ==
    /\ \A a \in Araclar : \A k \in DOMAIN gecmis[a] :
         gecmis[a][k].eden # Yok => SahipOldu(a, gecmis[a][k].eden, k - 1)
    /\ \A o \in Olaylar : olay[o] # Yok =>
         \/ olay[o].tur = "ikame"
         \/ olay[o].surucu = olay[o].form
         \/ SahipOldu(olay[o].arac, olay[o].surucu, Len(gecmis[olay[o].arac]))
=============================================================================
