SPECIFICATION Spec
CONSTANTS
    Istekler = {i1, i2}
    Yok = Yok
    Adaylar = {a1}
    Tcler = {n1}
    MaxIcerik = 2
    Calisanlar = {c1, c2}
    Cikislar = {x1, x2}
    Kimlikler = {n1}
    EvrakTipleri = {v1, v2}
    Evraklar = {e1, e2}
    MaxKod = 2
    Musteriler = {m1}
    Projeler = {p1}
    Kadrolar = {k1, k2}
    MaxHedef = 2
    TohumProjeleri <- McTohumProjeleri
    TohumKadrolari <- McTohumKadrolari
    Kullanicilar = {u1, u2}
    Kurucu = kurucu
    Epostalar = {kurucu, kucuk, buyuk}
    Buyukler = {buyuk}
    rolAdi = rolAdi
    kod1 = kod1
    kod2 = kod2
    Roller = {r1, r2}
    RolAdlari = {rolAdi, digerAd}
    AdminRolu = rolAdi
    Yetkiler = {kod1, kod2}
    VarsayilanYetkiler <- McVarsayilanYetkiler
    TohumYetkiler <- McTohumYetkiler
    VarsayilanRoller <- McVarsayilanRoller
    TohumRoller <- McTohumRoller
SYMMETRY Simetri
INVARIANTS
    TypeOK
    DosyaTam
    DenemeSiniri
    CikisTutarli
    KadroHesabi
PROPERTIES
    TekBasvuru
    YoneticiKalir
CHECK_DEADLOCK FALSE
