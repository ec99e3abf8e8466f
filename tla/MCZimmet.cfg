SPECIFICATION Spec
CONSTANTS
    Zimmetler = {z1}
    Calisanlar = {c1, c2, c3}
    Istekler = {i1, i2, i3}
    MaxDefter = 5
    Yok = Yok
SYMMETRY MCSimetri
INVARIANTS
    TypeOK
    SahipDefterden
    VerenAlmisti
    ZincirKopmaz
    DurumDefterden
    KapananZimmet
