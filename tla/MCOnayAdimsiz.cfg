SPECIFICATION Spec
CONSTANTS
    u1 = u1
    u2 = u2
    Kullanici = {u1, u2}
    Akis = {f1}
    Adim = {a1, a2, a3}
    Talep = {t1}
    Devir = {d1}
    Admin = {p1}
    RolUyeleri = {u2}
    AdimTanimlari <- MCKarisik
    Oncelikler = {0}
    MaxSira = 4
    MaxGun = 0
    Yok = Yok
INVARIANTS
    AdimsizTalepOnaylanir
