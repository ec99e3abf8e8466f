SPECIFICATION Spec
CONSTANTS
    u1 = u1
    u2 = u2
    Kullanici = {u1, u2}
    Akis = {f1}
    Adim = {a1}
    Talep = {t1}
    Devir = {d1}
    Admin = {p1}
    RolUyeleri = {u2}
    AdimTanimlari <- MCIsimli
    Oncelikler = {0}
    MaxSira = 2
    MaxGun = 1
    Yok = Yok
PROPERTIES
    VekilGecerliyken
