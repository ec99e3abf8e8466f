SPECIFICATION Spec
CONSTANTS
    a1 = a1
    a2 = a2
    a3 = a3
    Adim = {a1, a2}
    AdimSira <- MCSirali
    AdimTumu <- MCBiri
    Onayli = {a1, a2}
    Istek = {w1, w2, w3}
    Turler = {"onayla", "reddet", "iptal"}
    MaxKayit = 4
    Yok = Yok
INVARIANTS
    TypeOK
    TekKayit
    AdimAtlanmaz
PROPERTIES
    IstekBiter
CHECK_DEADLOCK FALSE
