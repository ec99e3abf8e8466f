SPECIFICATION IsciSpec
CONSTANTS
    Masraf = {m1}
    SatinAlma = {s1, s2}
    OnayTalebi = {t1, t2}
    Istek = {w1, w2}
    Yok = Yok
SYMMETRY MCSimetri
INVARIANTS
    TypeOK
    OnayReferansi
    NumaraArdisik
    EkTamam
PROPERTIES
    DonmusIcerik
    IptalKalici
