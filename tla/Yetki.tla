-------------------------------- MODULE Yetki --------------------------------
(***************************************************************************)
(* The users of the portal, their roles and permissions (modules/core,     *)
(* modules/ayarlar), and the script that enters the first of them          *)
(* (seed_data.py).                                                         *)
(***************************************************************************)
EXTENDS Oturum

CONSTANTS
    Kullanicilar,  \* ids for rows of users
    Epostalar,     \* addresses
    Buyukler,      \* those with a capital letter
    Kurucu,        \* the address of seed_admin_user
    Roller,        \* ids for rows of roles
    RolAdlari,     \* their names
    AdminRolu,     \* the name of the role of the first administrator
    Yetkiler,      \* codes of permissions
    VarsayilanYetkiler, TohumYetkiler,  \* the codes that ayarlar, seed_data enter
    VarsayilanRoller, TohumRoller       \* the names they enter, with the codes of each

KullaniciSatiri == [eposta : Epostalar, aktif : BOOLEAN, admin : BOOLEAN]

\* A role, with what role_permissions link it to.
RolSatiri == [ad : RolAdlari, yetkiler : SUBSET Yetkiler]

\* What user_roles and user_claims may link a user to.
Hedefler == Roller \cup Yetkiler

ASSUME YetkiAssumption ==
    /\ Buyukler \subseteq Epostalar
    /\ Kurucu \in Epostalar \ Buyukler
    /\ VarsayilanYetkiler \cup TohumYetkiler \subseteq Yetkiler
    /\ {AdminRolu} \cup DOMAIN VarsayilanRoller \cup DOMAIN TohumRoller \subseteq RolAdlari
    /\ Roller \cap Yetkiler = {}
    /\ Yok \notin KullaniciSatiri \cup Kullanicilar
    /\ Yok \notin RolSatiri

VARIABLES
    kullanici,  \* the users
    bag,        \* the roles and claims of each user
    rol,        \* the roles
    yetki,      \* the permissions there are
    giren       \* the users whose browser is logged in

yetkiVars == <<kullanici, bag, rol, yetki, giren>>

YetkiInit ==
    /\ kullanici = [u \in Kullanicilar |-> Yok]
    /\ bag = [u \in Kullanicilar |-> {}]
    /\ rol = [r \in Roller |-> Yok]
    /\ yetki = {}
    /\ giren = {}

Kayitli == {u \in Kullanicilar : kullanici[u] # Yok}

Girenler == {u \in giren : kullanici[u].aktif}

\* admin_required, and the same question in each handler of ayarlar.
Yoneticiler == {u \in Girenler : kullanici[u].admin}

\* Another user than u has the address e.
EpostaBaskasinda(u, e) == \E v \in Kayitli \ {u} : kullanici[v].eposta = e

-----------------------------------------------------------------------------
(* The script: each of its functions commits what is missing.              *)

\* seed_permissions.
TohumYetki ==
    /\ yetki' = yetki \cup TohumYetkiler
    /\ UNCHANGED <<kullanici, bag, rol, giren, oturum>>

\* filter_by(name=ad): at most one row, its name is unique.
RolAdinda(ad) == {r \in Roller : rol[r] # Yok /\ rol[r].ad = ad}

\* Rows for the names of roller that no role has, each with the name it gets.
YeniRoller(roller) ==
    LET eksik == {ad \in DOMAIN roller : RolAdinda(ad) = {}}
        bosta == {r \in Roller : rol[r] = Yok}
    IN  {y \in UNION {[S -> eksik] : S \in SUBSET bosta} :
           \A ad \in eksik : Cardinality({r \in DOMAIN y : y[r] = ad}) = 1}

\* The roles with those of y entered, each with those of its permissions that exist by now.
Girilince(y, roller) ==
    [r \in Roller |->
       IF r \in DOMAIN y THEN [ad |-> y[r], yetkiler |-> roller[y[r]] \cap yetki] ELSE rol[r]]

\* seed_roles: also a role that has kept its name gets back what was taken from it.
TohumRol ==
    /\ \E y \in YeniRoller(TohumRoller) :
         rol' = [r \in Roller |->
           LET s == Girilince(y, TohumRoller)[r] IN
           IF s = Yok \/ s.ad \notin DOMAIN TohumRoller THEN s
           ELSE [s EXCEPT !.yetkiler = @ \cup (TohumRoller[s.ad] \cap yetki)]]
    /\ UNCHANGED <<kullanici, bag, yetki, giren, oturum>>

\* seed_admin_user: whatever has become of a user with that address.
TohumYonetici(u) ==
    /\ kullanici[u] = Yok
    /\ ~EpostaBaskasinda(u, Kurucu)
    /\ kullanici' = [kullanici EXCEPT ![u] =
         [eposta |-> Kurucu, aktif |-> TRUE, admin |-> TRUE]]
    /\ bag' = [bag EXCEPT ![u] = RolAdinda(AdminRolu)]
    /\ UNCHANGED <<rol, yetki, giren, oturum>>

-----------------------------------------------------------------------------
(* Logging in and out.                                                     *)

\* login lowers what was typed before it looks for the address.
Login(u) ==
    /\ u \in Kayitli \ giren
    /\ kullanici[u].eposta \notin Buyukler
    /\ kullanici[u].aktif
    /\ giren' = giren \cup {u}
    /\ UNCHANGED <<kullanici, bag, rol, yetki, oturum>>

Logout(u) ==
    /\ u \in Girenler
    /\ giren' = giren \ {u}
    /\ UNCHANGED <<kullanici, bag, rol, yetki, oturum>>

-----------------------------------------------------------------------------
(* Users.                                                                  *)

\* The rows of a table of links from a set eski to the set yeni: those that only the
\* copy has are deleted, those that only the form has are inserted.
BagFark(eski, yeni) == [silinen |-> eski \ yeni, eklenen |-> yeni \ eski]

\* Neither is a row to delete gone, nor one to insert there already.
BagYazilir(simdi, f) == f.silinen \subseteq simdi /\ f.eklenen \cap simdi = {}

BagUygula(simdi, f) == (simdi \ f.silinen) \cup f.eklenen

\* The rows of roles and permissions a form can name.
Secilebilir == {r \in Roller : rol[r] # Yok} \cup yetki

\* The settings' forms offer one role at most.
TekRol(baglar) == \A r, s \in baglar \cap Roller : r = s

KullaniciEkler(i, y, u, satir, baglar) ==
    /\ y \in Yoneticiler
    /\ kullanici[u] = Yok
    /\ baglar \subseteq Secilebilir
    /\ ~EpostaBaskasinda(u, satir.eposta)
    /\ Basla(i, [is |-> "kullanici_ekle", kullanici |-> u, satir |-> satir, baglar |-> baglar])
    /\ UNCHANGED yetkiVars

\* ayarlar kullanici_ekle.
KullaniciEkleOku(i, y, u, satir, baglar) ==
    /\ TekRol(baglar)
    /\ KullaniciEkler(i, y, u, satir, baglar)

\* core admin_kullanici_ekle: the address is lowered, there are no claims.
AdminKullaniciEkleOku(i, y, u, e, admin, roller) ==
    /\ e \notin Buyukler
    /\ roller \subseteq Roller
    /\ KullaniciEkler(i, y, u, [eposta |-> e, aktif |-> TRUE, admin |-> admin], roller)

\* Its insert, which the unique index on email may refuse (YetkiBirak).
KullaniciEkle(i) ==
    LET r == istek[i] IN
    /\ r.is = "kullanici_ekle"
    /\ kullanici[r.kullanici] = Yok
    /\ ~EpostaBaskasinda(r.kullanici, r.satir.eposta)
    /\ kullanici' = [kullanici EXCEPT ![r.kullanici] = r.satir]
    /\ bag' = [bag EXCEPT ![r.kullanici] = r.baglar]
    /\ Bitti(i)
    /\ UNCHANGED <<rol, yetki, giren>>

\* Administrator y has loaded user u and will turn it into yeni, linked to baglar;
\* yol: with the form or the switch.
KullaniciYazar(i, y, u, yol, yeni, baglar) ==
    /\ Basla(i, [is |-> "kullanici", kullanici |-> u, eden |-> y, yol |-> yol,
                 fark |-> Fark(kullanici[u], yeni), bag |-> BagFark(bag[u], baglar)])
    /\ UNCHANGED yetkiVars

\* ayarlar kullanici_duzenle.  An administrator may edit the own account.
KullaniciDuzenleOku(i, y, u, satir, baglar) ==
    /\ y \in Yoneticiler
    /\ u \in Kayitli
    /\ baglar \subseteq Secilebilir
    /\ TekRol(baglar)
    /\ ~EpostaBaskasinda(u, satir.eposta)
    /\ KullaniciYazar(i, y, u, "form", satir, baglar)

\* core admin_kullanici_duzenle: neither the address nor the claims.
AdminKullaniciDuzenleOku(i, y, u, aktif, admin, roller) ==
    /\ y \in Yoneticiler
    /\ u \in Kayitli
    /\ roller \subseteq Secilebilir \cap Roller
    /\ KullaniciYazar(i, y, u, "form", [kullanici[u] EXCEPT !.aktif = aktif, !.admin = admin],
                      roller \cup (bag[u] \cap Yetkiler))

\* Mutant: the own account is not excepted.
KullaniciDurumOku_kendi(i, y, u) ==
    /\ y \in Yoneticiler
    /\ u \in Kayitli
    /\ KullaniciYazar(i, y, u, "durum", [kullanici[u] EXCEPT !.aktif = ~@], bag[u])

\* kullanici_durum: the state that the copy does not have, unless it is y's own account.
KullaniciDurumOku(i, y, u) ==
    /\ y \in Yoneticiler
    /\ u \in Kayitli \ {y}
    /\ KullaniciYazar(i, y, u, "durum", [kullanici[u] EXCEPT !.aktif = ~@], bag[u])

\* Commit of the two, which a link or the unique index on email may refuse (YetkiBirak).
KullaniciYaz(i) ==
    LET r == istek[i] IN
    /\ r.is = "kullanici"
    /\ "eposta" \in DOMAIN r.fark => ~EpostaBaskasinda(r.kullanici, r.fark.eposta)
    /\ BagYazilir(bag[r.kullanici], r.bag)
    /\ kullanici' = [kullanici EXCEPT ![r.kullanici] = Uygula(@, r.fark)]
    /\ bag' = [bag EXCEPT ![r.kullanici] = BagUygula(@, r.bag)]
    /\ Bitti(i)
    /\ UNCHANGED <<rol, yetki, giren>>

-----------------------------------------------------------------------------
(* Roles and permissions.                                                  *)

\* rol_ekle.
RolEkle(r, ad, yetkiler) ==
    /\ Yoneticiler # {}
    /\ rol[r] = Yok
    /\ RolAdinda(ad) = {}
    /\ yetkiler \subseteq yetki
    /\ rol' = [rol EXCEPT ![r] = [ad |-> ad, yetkiler |-> yetkiler]]
    /\ UNCHANGED <<kullanici, bag, yetki, giren, oturum>>

\* A handler has flushed another name for role r, and not committed it.
RolKilitli(r) ==
    \E j \in Istekler : istek[j].is = "rol" /\ istek[j].rol = r /\ "ad" \in DOMAIN istek[j].fark

\* rol_duzenle: before it loads the permissions to replace, the session flushes the name,
\* which takes the row's lock if it differs.
RolDuzenleOku(i, r, ad, yetkiler) ==
    /\ Yoneticiler # {}
    /\ rol[r] # Yok
    /\ ad # rol[r].ad => ~RolKilitli(r)
    /\ yetkiler \subseteq yetki
    /\ Basla(i, [is |-> "rol", rol |-> r, fark |-> Fark(rol[r], [ad |-> ad]),
                 bag |-> BagFark(rol[r].yetkiler, yetkiler)])
    /\ UNCHANGED yetkiVars

\* Its commit, unless a link or the unique name refuses it (YetkiBirak).  Users keep the
\* renamed role; whatever looks for the old name finds nothing.
RolYaz(i) ==
    LET r == istek[i]
        satir == Uygula(rol[r.rol], r.fark)
    IN  /\ r.is = "rol"
        /\ "ad" \in DOMAIN r.fark => RolAdinda(r.fark.ad) = {}
        /\ BagYazilir(rol[r.rol].yetkiler, r.bag)
        /\ rol' = [rol EXCEPT ![r.rol] = [satir EXCEPT !.yetkiler = BagUygula(@, r.bag)]]
        /\ Bitti(i)
        /\ UNCHANGED <<kullanici, bag, yetki, giren>>

\* yetki_ekle.
YetkiEkle(k) ==
    /\ Yoneticiler # {}
    /\ yetki' = yetki \cup {k}
    /\ UNCHANGED <<kullanici, bag, rol, giren, oturum>>

\* varsayilan_yetkiler.
VarsayilanYetkileriEkle ==
    /\ Yoneticiler # {}
    /\ yetki' = yetki \cup VarsayilanYetkiler
    /\ UNCHANGED <<kullanici, bag, rol, giren, oturum>>

\* varsayilan_roller: what is entered is left alone ever after.
VarsayilanRolleriEkle ==
    /\ Yoneticiler # {}
    /\ \E y \in YeniRoller(VarsayilanRoller) : rol' = Girilince(y, VarsayilanRoller)
    /\ UNCHANGED <<kullanici, bag, yetki, giren, oturum>>

\* A handler ends before its commit, or with it refused.
YetkiBirak(i) ==
    /\ istek[i].is \in {"kullanici_ekle", "kullanici", "rol"}
    /\ Bitti(i)
    /\ UNCHANGED yetkiVars

\* Accounts, without roles.
HesapNext ==
    \/ \E u \in Kullanicilar : TohumYonetici(u) \/ Login(u) \/ Logout(u)
    \/ \E i \in Istekler :
         \/ \E y, u \in Kullanicilar :
              \/ \E satir \in KullaniciSatiri :
                   KullaniciEkleOku(i, y, u, satir, {}) \/ KullaniciDuzenleOku(i, y, u, satir, {})
              \/ \E e \in Epostalar, admin \in BOOLEAN :
                   AdminKullaniciEkleOku(i, y, u, e, admin, {})
              \/ \E aktif, admin \in BOOLEAN : AdminKullaniciDuzenleOku(i, y, u, aktif, admin, {})
              \/ KullaniciDurumOku(i, y, u)
         \/ KullaniciEkle(i)
         \/ KullaniciYaz(i)
         \/ YetkiBirak(i)

\* Roles and permissions, with the first administrator.
RolNext ==
    \/ TohumYetki
    \/ TohumRol
    \/ VarsayilanYetkileriEkle
    \/ VarsayilanRolleriEkle
    \/ \E k \in Yetkiler : YetkiEkle(k)
    \/ \E u \in Kullanicilar : TohumYonetici(u) \/ Login(u)
    \/ \E r \in Roller, ad \in RolAdlari, yetkiler \in SUBSET Yetkiler :
         RolEkle(r, ad, yetkiler) \/ \E i \in Istekler : RolDuzenleOku(i, r, ad, yetkiler)
    \/ \E i \in Istekler : RolYaz(i) \/ YetkiBirak(i)

\* The links of the first administrator, to what the script and the settings enter.
BagNext ==
    \/ TohumYetki
    \/ TohumRol
    \/ \E k \in Yetkiler : YetkiEkle(k)
    \/ \E r \in Roller, ad \in RolAdlari : RolEkle(r, ad, {})
    \/ \E u \in Kullanicilar : TohumYonetici(u) \/ Login(u)
    \/ \E i \in Istekler :
         \/ \E u \in Yoneticiler, baglar \in SUBSET Hedefler :
              \/ KullaniciDuzenleOku(i, u, u, kullanici[u], baglar)
              \/ AdminKullaniciDuzenleOku(i, u, u, TRUE, TRUE, baglar)
         \/ KullaniciYaz(i)
         \/ YetkiBirak(i)

YetkiNext == HesapNext \/ RolNext \/ BagNext

YetkiSpec == OturumInit /\ YetkiInit /\ [][YetkiNext]_<<oturum, yetkiVars>>

-----------------------------------------------------------------------------
(* Properties.                                                             *)

YetkiTypeOK ==
    /\ kullanici \in [Kullanicilar -> KullaniciSatiri \cup {Yok}]
    /\ bag \in [Kullanicilar -> SUBSET Hedefler]
    /\ rol \in [Roller -> RolSatiri \cup {Yok}]
    /\ yetki \subseteq Yetkiler
    /\ giren \subseteq Kayitli

YoneticiVar == \E u \in Kayitli : kullanici[u].aktif /\ kullanici[u].admin

\* "Kendi hesabınızı devre dışı bırakamazsınız": handled one after the other, the portal
\* loses its last active administrator only by that one's own form, whoever is switched
\* off, demoted or logged out before; and then nobody gets one back, not even the
\* script, unless the script's own address is not in use.
YoneticiKalir ==
    [][Sirali =>
         /\ YoneticiVar /\ ~YoneticiVar' =>
              \E i \in isci : /\ istek[i].is = "kullanici"
                              /\ istek[i].yol = "form"
                              /\ istek[i].eden = istek[i].kullanici
         /\ ~YoneticiVar /\ YoneticiVar' => ~\E u \in Kayitli : kullanici[u].eposta = Kurucu
      ]_kullanici
=============================================================================
