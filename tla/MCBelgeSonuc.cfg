SPECIFICATION IsciSpec
CONSTANTS
    Masraf = {m1}
    SatinAlma = {s1}
    OnayTalebi = {t1, t2}
    Istek = {w1}
    Yok = Yok
INVARIANTS
    SonucYansir
