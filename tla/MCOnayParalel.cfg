SPECIFICATION Spec
CONSTANTS
    u1 = u1
    u2 = u2
    Kullanici = {u1, u2}
    Akis = {f1}
    Adim = {a1, a2, a3}
    Talep = {t1}
    Devir = {d1}
    Admin = {p1, p2}
    RolUyeleri = {u2}
    AdimTanimlari <- MCIsimli
    Oncelikler = {0}
    MaxSira = 4
    MaxGun = 1
    Yok = Yok
SYMMETRY MCSimetri
INVARIANTS
    OnaysizOnayYok
PROPERTIES
    OnayVeIptalKesin
