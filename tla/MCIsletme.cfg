SPECIFICATION Spec
CONSTANTS
    Istekler = {i1, i2}
    Yok = Yok
    Araclar = {a1}
    Calisanlar = {c1, c2}
    Projeler = {p1}
    f1 = f1
    f2 = f2
    Fisler = {f1, f2}
    Saklanan <- McSaklanan
    MaxKm = 1
    MaxGecmis = 3
    Olaylar = {o1}
    Kullanicilar = {v1}
    Egitimler = {e1}
    Kisiler = {k1, k2}
    Kadrodakiler = {k1}
    Sorular = {s1, s2}
    Testler = {t1}
    MaxKayit = 2
    MaxForm = 4
    MaxSira = 3
    Talepler = {b1, b2, b3}
    Kategoriler = {g1}
    Ekip = {u1, u2}
    MaxYorum = 3
    Masraflar = {m1}
    Materyaller = {m2}
    Yollar = {d1, d2, d3, d4}
SYMMETRY Simetri
INVARIANTS
    TypeOK
    AracGecmisten
    IceAktarimTekil
    KisiTasimisti
    DosyaYerinde
    SecenekTekForm
    TalepNoArdisik
    TarihlerTutarli
PROPERTY SonaEklenir
CHECK_DEADLOCK FALSE
