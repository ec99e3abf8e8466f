SPECIFICATION Spec
CONSTANTS
    a1 = a1
    a2 = a2
    a3 = a3
    Adim = {a1, a2, a3}
    AdimSira <- MCParalel
    AdimTumu <- MCTumu
    Onayli = {a1, a2, a3}
    Istek = {w1, w2}
    Turler = {"onayla"}
    MaxKayit = 5
    Yok = Yok
INVARIANTS
    TumuIlerler
CHECK_DEADLOCK FALSE
