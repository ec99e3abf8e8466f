SPECIFICATION Spec
CONSTANTS
    u1 = u1
    u2 = u2
    Kullanici = {u1, u2}
    Akis = {f1, f2}
    Adim = {a1, a2, a3}
    Talep = {t1}
    Devir = {d1}
    Admin = {p1}
    RolUyeleri = {u2}
    AdimTanimlari <- MCKarisik
    Oncelikler = {0, 1}
    MaxSira = 3
    MaxGun = 0
    Yok = Yok
SYMMETRY MCSimetri
INVARIANTS
    TypeOK
    TekSira
    BekleyenKayitGuncel
    HerAdimdanGecti
PROPERTIES
    OnayTam
    SozlesmeSpec
