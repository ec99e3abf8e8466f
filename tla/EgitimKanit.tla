---------------------------- MODULE EgitimKanit -----------------------------
(***************************************************************************)
(* Proofs about trainings, the bank of questions and tests (Egitim), and   *)
(* about the files beside rows (Dosyalar), for any number of rows, paths   *)
(* and threads.                                                            *)
(***************************************************************************)
EXTENDS Egitim, Dosyalar, FiniteSetTheorems, WellFoundedInduction, TLAPS

-----------------------------------------------------------------------------
(* Files: the inductive invariant.                                         *)

\* The file that row s names; those that a handler has read, and saved.
Dosyasi(s) == IF ekli[s] = Yok THEN Yok ELSE ekli[s].dosya
Eski(i) == IF Suren(i) THEN istek[i].eski ELSE Yok
Yeni(i) == IF Suren(i) THEN istek[i].yeni ELSE Yok

\* Thread i has begun with the disk.
ElAtmis(i) == Suren(i) /\ istek[i].adim # "okundu"

IstekSahipli ==
    /\ isci \subseteq Istekler
    /\ istek = [i \in Istekler |-> istek[i]]
    /\ \A i \in Istekler \ isci : istek[i] = Bos

HandlerTuru(i) ==
    Suren(i) =>
        /\ istek[i] \in [is : DosyaIsleri, satir : Ekliler, eski : Yollar \cup {Yok},
                          yeni : Yollar \cup {Yok}, adim : {"okundu", "silindi", "kaydedildi"}]
        /\ istek[i].adim = "kaydedildi" <=> istek[i].yeni # Yok

\* No two rows name one file.
TekAd ==
    \A s, t \in Ekliler : Dosyasi(s) # Yok /\ Dosyasi(s) = Dosyasi(t) => s = t

\* A file a handler has saved is on the disk, and nobody else knows it.
YeniKendi ==
    \A i \in Istekler : Yeni(i) # Yok =>
        /\ Yeni(i) \in disk
        /\ \A s \in Ekliler : Dosyasi(s) # Yeni(i)
        /\ \A j \in Istekler : Eski(j) # Yeni(i)
        /\ \A j \in Istekler \ {i} : Yeni(j) # Yeni(i)

\* The file a handler has read is no other row's.
EskiKendi ==
    \A i \in Istekler, s \in Ekliler :
        Eski(i) # Yok /\ Dosyasi(s) = Eski(i) => s = istek[i].satir

\* One after the other: the copy is the row, and the file it names has been removed.
KopyaGuncel ==
    Sirali => \A i \in Istekler :
        /\ Suren(i) /\ istek[i].is # "ekle" => Dosyasi(istek[i].satir) = istek[i].eski
        /\ ElAtmis(i) => istek[i].eski \notin disk

\* A handler that has not ended, or was cut off, has removed or saved f.
Borclu(f) == f \in yarim \/ \E i \in Istekler : ElAtmis(i) /\ f \in {Eski(i), Yeni(i)}

AdYerinde == \A s \in Ekliler : Dosyasi(s) \in disk \cup {Yok} \/ Borclu(Dosyasi(s))

DosyaAdli == Sirali => \A f \in disk : (\E s \in Ekliler : Dosyasi(s) = f) \/ Borclu(f)

DosyaIInv ==
    /\ DosyaTypeOK
    /\ IstekSahipli
    /\ \A i \in Istekler : HandlerTuru(i)
    /\ TekAd
    /\ YeniKendi
    /\ EskiKendi
    /\ KopyaGuncel
    /\ AdYerinde
    /\ DosyaAdli

-----------------------------------------------------------------------------
(* The invariant and the property.                                         *)

LEMMA YokYolDegil == Yok \notin Yollar /\ \A s \in EkliSatiri : s # Yok
BY DosyaAssumption

LEMMA SatirDosyasi ==
    ASSUME DosyaTypeOK, NEW s \in Ekliler
    PROVE  Dosyasi(s) \in Yollar \cup {Yok}
BY DEF DosyaTypeOK, EkliSatiri, Dosyasi

LEMMA BosSurmez == ASSUME NEW i \in Istekler, istek[i] = Bos PROVE ~Suren(i)
BY DEF Bos, Suren, DosyaIsleri

\* Of one thread in service, no other is running.
LEMMA TekIsci ==
    ASSUME IstekSahipli, Sirali, NEW i \in Istekler, NEW j \in Istekler, Suren(i), Suren(j)
    PROVE  i = j
<1>1. i \in isci /\ j \in isci
    BY BosSurmez DEF IstekSahipli
<1> QED
    BY <1>1 DEF Sirali

LEMMA DosyaYeter == DosyaIInv => DosyaYerinde
<1> SUFFICES ASSUME DosyaIInv PROVE DosyaYerinde
    OBVIOUS
<1>1. \A f : f \in Adlananlar <=> f # Yok /\ \E s \in Ekliler : Dosyasi(s) = f
    BY DEF Adlananlar, Varlar, Dosyasi
<1>2. ASSUME NEW f, f # Yok
      PROVE  Borclu(f) => f \in Bitmeyenler
    BY <1>2 DEF Borclu, Bitmeyenler, Gecen, Surenler, ElAtmis, Eski, Yeni
<1>3. Adlananlar \subseteq disk \cup Bitmeyenler
    BY <1>1, <1>2 DEF DosyaIInv, AdYerinde
<1>4. Sirali => disk \subseteq Adlananlar \cup Bitmeyenler
    BY <1>1, <1>2, YokYolDegil DEF DosyaIInv, DosyaAdli, DosyaTypeOK
<1> QED
    BY <1>3, <1>4 DEF DosyaYerinde

-----------------------------------------------------------------------------
(* Every step preserves the invariant.                                     *)

\* A handler has read row s and the file e it names, or will add the row.
LEMMA BaslaKorur ==
    ASSUME DosyaIInv, NEW i \in Istekler, NEW is \in DosyaIsleri, NEW s \in Ekliler, NEW e,
           NEW adim \in {"okundu", "silindi"}, DosyaBasla(i, is, s, e, adim),
           \/ is = "ekle" /\ e = Yok
           \/ is # "ekle" /\ e = Dosyasi(s) /\ adim = "okundu"
    PROVE  DosyaIInv'
<1>1. /\ UNCHANGED <<ekli, disk, yarim, isci>>
      /\ i \in isci
      /\ istek[i] = Bos
      /\ istek' = [istek EXCEPT ![i] =
            [is |-> is, satir |-> s, eski |-> e, yeni |-> Yok, adim |-> adim]]
    BY DEF DosyaBasla, Basla, dosyaVars
<1>2. /\ istek'[i] = [is |-> is, satir |-> s, eski |-> e, yeni |-> Yok, adim |-> adim]
      /\ \A j \in Istekler \ {i} : istek'[j] = istek[j]
    BY <1>1 DEF DosyaIInv, IstekSahipli
<1>3. /\ ~Suren(i) /\ Eski(i) = Yok /\ Yeni(i) = Yok /\ ~ElAtmis(i)
      /\ Suren(i)' /\ Eski(i)' = e /\ Yeni(i)' = Yok
    BY <1>1, <1>2, BosSurmez DEF Suren, Eski, Yeni, ElAtmis
<1>4. \A j \in Istekler \ {i} : /\ Suren(j)' <=> Suren(j)
                                /\ Eski(j)' = Eski(j)
                                /\ Yeni(j)' = Yeni(j)
                                /\ ElAtmis(j)' <=> ElAtmis(j)
    BY <1>2 DEF Suren, Eski, Yeni, ElAtmis
<1>5. /\ \A t : Dosyasi(t)' = Dosyasi(t)
      /\ Dosyasi(s) \in Yollar \cup {Yok}
      /\ Sirali' <=> Sirali
    BY <1>1, SatirDosyasi DEF Dosyasi, DosyaIInv, Sirali
<1>6. \A f : Borclu(f) => Borclu(f)'
    BY <1>1, <1>3, <1>4 DEF Borclu
<1>7. DosyaTypeOK'
    BY <1>1 DEF DosyaIInv, DosyaTypeOK
<1>8. IstekSahipli'
    BY <1>1 DEF DosyaIInv, IstekSahipli
<1>9. \A j \in Istekler : HandlerTuru(j)'
    <2>1. HandlerTuru(i)'
        BY <1>2, <1>5 DEF HandlerTuru
    <2> QED
        BY <1>2, <1>4, <2>1 DEF DosyaIInv, HandlerTuru
<1>10. TekAd'
    BY <1>5 DEF DosyaIInv, TekAd
<1>11. YeniKendi'
    BY <1>1, <1>3, <1>4, <1>5 DEF DosyaIInv, YeniKendi
<1>12. EskiKendi'
    BY <1>2, <1>3, <1>4, <1>5 DEF DosyaIInv, EskiKendi, TekAd
<1>13. KopyaGuncel'
    <2> SUFFICES ASSUME Sirali, NEW j \in Istekler
                 PROVE  /\ (Suren(j) /\ istek[j].is # "ekle"
                               => Dosyasi(istek[j].satir) = istek[j].eski)'
                        /\ (ElAtmis(j) => istek[j].eski \notin disk)'
        BY <1>5 DEF KopyaGuncel
    <2>1. CASE j = i
        BY <1>1, <1>2, <1>5, <2>1, YokYolDegil DEF ElAtmis, DosyaIInv, DosyaTypeOK
    <2>2. CASE j # i
        BY <1>1, <1>2, <1>4, <1>5, <2>2 DEF DosyaIInv, KopyaGuncel
    <2> QED
        BY <2>1, <2>2
<1>14. AdYerinde'
    BY <1>1, <1>5, <1>6 DEF DosyaIInv, AdYerinde
<1>15. DosyaAdli'
    BY <1>1, <1>5, <1>6 DEF DosyaIInv, DosyaAdli
<1> QED
    BY <1>7, <1>8, <1>9, <1>10, <1>11, <1>12, <1>13, <1>14, <1>15 DEF DosyaIInv

LEMMA DosyaliEkleOkuKorur ==
    ASSUME DosyaIInv, NEW i \in Istekler, NEW s \in Ekliler, DosyaliEkleOku(i, s)
    PROVE  DosyaIInv'
BY BaslaKorur DEF DosyaliEkleOku, DosyaIsleri

LEMMA FaturaDegistirOkuKorur ==
    ASSUME DosyaIInv, NEW i \in Istekler, NEW m \in Masraflar, FaturaDegistirOku(i, m)
    PROVE  DosyaIInv'
<1>1. m \in Ekliler /\ ekli[m].dosya = Dosyasi(m)
    BY DEF FaturaDegistirOku, Ekliler, Dosyasi
<1> QED
    BY <1>1, BaslaKorur DEF FaturaDegistirOku, DosyaIsleri

LEMMA MateryalSilOkuKorur ==
    ASSUME DosyaIInv, NEW i \in Istekler, NEW m \in Materyaller, MateryalSilOku(i, m)
    PROVE  DosyaIInv'
<1>1. m \in Ekliler /\ ekli[m].dosya = Dosyasi(m)
    BY DEF MateryalSilOku, Ekliler, Dosyasi
<1> QED
    BY <1>1, BaslaKorur DEF MateryalSilOku, DosyaIsleri

LEMMA DosyasizEkleKorur ==
    ASSUME DosyaIInv, NEW s \in Ekliler, DosyasizEkle(s)
    PROVE  DosyaIInv'
<1>1. /\ UNCHANGED <<disk, yarim, isci, istek>>
      /\ ekli[s] = Yok
      /\ ekli' = [ekli EXCEPT ![s] = [dosya |-> Yok, silindi |-> FALSE]]
    BY DEF DosyasizEkle, oturum
<1>2. \A t \in Ekliler : Dosyasi(t)' = Dosyasi(t)
    BY <1>1 DEF Dosyasi, DosyaIInv, DosyaTypeOK
<1>3. \A i \in Istekler : /\ Suren(i)' <=> Suren(i)
                          /\ Eski(i)' = Eski(i)
                          /\ Yeni(i)' = Yeni(i)
                          /\ ElAtmis(i)' <=> ElAtmis(i)
                          /\ HandlerTuru(i)'
    BY <1>1 DEF Suren, Eski, Yeni, ElAtmis, HandlerTuru, DosyaIInv
<1>4. (Sirali' <=> Sirali) /\ \A f : Borclu(f)' <=> Borclu(f)
    BY <1>1, <1>3 DEF Sirali, Borclu
<1>5. DosyaTypeOK'
    BY <1>1 DEF DosyaIInv, DosyaTypeOK, EkliSatiri
<1>6. IstekSahipli' /\ TekAd' /\ YeniKendi' /\ EskiKendi'
    BY <1>1, <1>2, <1>3 DEF DosyaIInv, IstekSahipli, TekAd, YeniKendi, EskiKendi
<1>7. KopyaGuncel'
    BY <1>1, <1>2, <1>3, <1>4 DEF DosyaIInv, KopyaGuncel, HandlerTuru
<1>8. AdYerinde' /\ DosyaAdli'
    BY <1>1, <1>2, <1>4 DEF DosyaIInv, AdYerinde, DosyaAdli
<1> QED
    BY <1>3, <1>5, <1>6, <1>7, <1>8 DEF DosyaIInv

LEMMA DosyaKaldirKorur ==
    ASSUME DosyaIInv, NEW i \in Istekler, DosyaKaldir(i)
    PROVE  DosyaIInv'
<1> DEFINE e == istek[i].eski
<1>1. /\ UNCHANGED <<ekli, yarim, isci>>
      /\ Suren(i)
      /\ istek[i].adim = "okundu"
      /\ disk' = disk \ {e}
      /\ istek' = [istek EXCEPT ![i].adim = "silindi"]
    BY DEF DosyaKaldir
<1>2. istek[i] # Bos /\ i \in isci
    BY <1>1, BosSurmez DEF DosyaIInv, IstekSahipli
<1>3. HandlerTuru(i) /\ Eski(i) = e /\ Yeni(i) = Yok /\ ~ElAtmis(i)
    BY <1>1 DEF DosyaIInv, HandlerTuru, Eski, Yeni, ElAtmis
<1>4. \A j \in Istekler :
         /\ Suren(j)' <=> Suren(j)
         /\ Eski(j)' = Eski(j)
         /\ Yeni(j)' = Yeni(j)
         /\ ElAtmis(j)' <=> ElAtmis(j) \/ j = i
         /\ Suren(j) => /\ istek'[j].is = istek[j].is
                        /\ istek'[j].satir = istek[j].satir
                        /\ istek'[j].eski = istek[j].eski
    <2>1. Suren(i)' /\ Eski(i)' = Eski(i) /\ Yeni(i)' = Yeni(i) /\ ElAtmis(i)'
        BY <1>1, <1>3 DEF Suren, Eski, Yeni, ElAtmis, DosyaIsleri, DosyaIInv, IstekSahipli, HandlerTuru
    <2>2. /\ istek'[i].is = istek[i].is
          /\ istek'[i].satir = istek[i].satir
          /\ istek'[i].eski = istek[i].eski
        BY <1>1, <1>3 DEF DosyaIInv, IstekSahipli, HandlerTuru
    <2>3. \A j \in Istekler \ {i} : istek'[j] = istek[j]
        BY <1>1 DEF DosyaIInv, IstekSahipli
    <2> QED
        BY <1>1, <2>1, <2>2, <2>3 DEF Suren, Eski, Yeni, ElAtmis
<1>5. (\A s : Dosyasi(s)' = Dosyasi(s)) /\ (Sirali' <=> Sirali)
    BY <1>1 DEF Dosyasi, Sirali
<1>6. \A f : Borclu(f) => Borclu(f)'
    BY <1>1, <1>4 DEF Borclu
<1>7. \A g : g = Eski(i) => Borclu(g)'
    <2>1. ElAtmis(i)' /\ Eski(i) = Eski(i)'
        BY <1>4
    <2> QED
        BY <2>1 DEF Borclu
<1>8. DosyaTypeOK'
    BY <1>1 DEF DosyaIInv, DosyaTypeOK
<1>9. IstekSahipli'
    BY <1>1, <1>2 DEF DosyaIInv, IstekSahipli
<1>10. \A j \in Istekler : HandlerTuru(j)'
    BY <1>1, <1>3, <1>4 DEF DosyaIInv, IstekSahipli, HandlerTuru, Yeni
<1>11. TekAd' /\ EskiKendi'
    BY <1>4, <1>5 DEF DosyaIInv, TekAd, EskiKendi, Eski
<1>12. YeniKendi'
    BY <1>1, <1>3, <1>4, <1>5 DEF DosyaIInv, YeniKendi
<1>13. KopyaGuncel'
    BY <1>1, <1>4, <1>5 DEF DosyaIInv, KopyaGuncel, ElAtmis
<1>14. AdYerinde'
    BY <1>1, <1>3, <1>5, <1>6, <1>7 DEF DosyaIInv, AdYerinde
<1>15. DosyaAdli'
    BY <1>1, <1>5, <1>6 DEF DosyaIInv, DosyaAdli
<1> QED
    BY <1>8, <1>9, <1>10, <1>11, <1>12, <1>13, <1>14, <1>15 DEF DosyaIInv

LEMMA DosyaKaydetKorur ==
    ASSUME DosyaIInv, NEW i \in Istekler, NEW f \in Yollar, DosyaKaydet(i, f)
    PROVE  DosyaIInv'
<1>1. /\ UNCHANGED <<ekli, yarim, isci>>
      /\ Suren(i)
      /\ istek[i].adim = "silindi"
      /\ YeniYol(istek[i].satir, f)
      /\ disk' = disk \cup {f}
      /\ istek' = [istek EXCEPT ![i].adim = "kaydedildi", ![i].yeni = f]
    BY DEF DosyaKaydet
<1>2. istek[i] # Bos /\ i \in isci
    BY <1>1, BosSurmez DEF DosyaIInv, IstekSahipli
<1>3. f # Yok /\ HandlerTuru(i) /\ Yeni(i) = Yok /\ ElAtmis(i)
    BY <1>1, YokYolDegil DEF DosyaIInv, HandlerTuru, Yeni, ElAtmis
<1>4. /\ f \notin disk
      /\ \A s \in Ekliler : Dosyasi(s) # f
      /\ \A j \in Istekler : Eski(j) # f /\ Yeni(j) # f
    BY <1>1, <1>3 DEF YeniYol, Bilinenler, Adlananlar, Varlar, Surenler, Dosyasi, Eski, Yeni
<1>5. /\ \A j \in Istekler :
           /\ Suren(j)' <=> Suren(j)
           /\ Eski(j)' = Eski(j)
           /\ ElAtmis(j)' <=> ElAtmis(j)
           /\ Suren(j) => /\ istek'[j].is = istek[j].is
                          /\ istek'[j].satir = istek[j].satir
                          /\ istek'[j].eski = istek[j].eski
      /\ \A j \in Istekler \ {i} : istek'[j] = istek[j] /\ Yeni(j)' = Yeni(j)
      /\ Yeni(i)' = f
      /\ istek'[i].yeni = f
      /\ istek'[i].adim = "kaydedildi"
    <2>1. /\ Suren(i)'
          /\ istek'[i].yeni = f
          /\ istek'[i].adim = "kaydedildi"
          /\ ElAtmis(i)'
          /\ istek'[i].is = istek[i].is
          /\ istek'[i].satir = istek[i].satir
          /\ istek'[i].eski = istek[i].eski
        BY <1>1, <1>3 DEF Suren, ElAtmis, DosyaIsleri, DosyaIInv, IstekSahipli, HandlerTuru
    <2>2. \A j \in Istekler \ {i} : istek'[j] = istek[j]
        BY <1>1 DEF DosyaIInv, IstekSahipli
    <2>3. Eski(i)' = Eski(i) /\ Yeni(i)' = f
        BY <1>1, <2>1 DEF Eski, Yeni
    <2>4. \A j \in Istekler \ {i} :
             /\ Suren(j)' <=> Suren(j)
             /\ Eski(j)' = Eski(j)
             /\ Yeni(j)' = Yeni(j)
             /\ ElAtmis(j)' <=> ElAtmis(j)
        BY <2>2 DEF Suren, Eski, Yeni, ElAtmis
    <2> QED
        BY <1>1, <1>3, <2>1, <2>2, <2>3, <2>4
<1>6. (\A s : Dosyasi(s)' = Dosyasi(s)) /\ (Sirali' <=> Sirali)
    BY <1>1 DEF Dosyasi, Sirali
<1>7. \A g : g # Yok /\ Borclu(g) => Borclu(g)'
    BY <1>1, <1>3, <1>5 DEF Borclu
<1>8. Borclu(f)'
    BY <1>3, <1>5 DEF Borclu
<1>9. DosyaTypeOK'
    BY <1>1 DEF DosyaIInv, DosyaTypeOK
<1>10. IstekSahipli'
    BY <1>1, <1>2 DEF DosyaIInv, IstekSahipli
<1>11. \A j \in Istekler : HandlerTuru(j)'
    <2>1. HandlerTuru(i)'
        BY <1>1, <1>3, <1>5 DEF DosyaIInv, IstekSahipli, HandlerTuru
    <2> QED
        BY <1>5, <2>1 DEF DosyaIInv, HandlerTuru
<1>12. TekAd' /\ EskiKendi'
    BY <1>5, <1>6 DEF DosyaIInv, TekAd, EskiKendi, Eski
<1>13. YeniKendi'
    BY <1>1, <1>4, <1>5, <1>6 DEF DosyaIInv, YeniKendi
<1>14. KopyaGuncel'
    <2> SUFFICES ASSUME Sirali, NEW j \in Istekler
                 PROVE  /\ (Suren(j) /\ istek[j].is # "ekle"
                               => Dosyasi(istek[j].satir) = istek[j].eski)'
                        /\ (ElAtmis(j) => istek[j].eski \notin disk)'
        BY <1>6 DEF KopyaGuncel
    <2>1. Suren(j) => Eski(j) = istek[j].eski /\ Eski(j) # f
        BY <1>4 DEF Eski
    <2>2. (Suren(j) /\ istek[j].is # "ekle" => Dosyasi(istek[j].satir) = istek[j].eski)'
        BY <1>5, <1>6 DEF DosyaIInv, KopyaGuncel
    <2>3. ElAtmis(j) => istek[j].eski \notin disk \cup {f}
        BY <2>1 DEF DosyaIInv, KopyaGuncel, ElAtmis
    <2>4. ElAtmis(j)' => ElAtmis(j) /\ istek'[j].eski = istek[j].eski
        BY <1>5 DEF ElAtmis
    <2> QED
        BY <1>1, <2>2, <2>3, <2>4
<1>15. AdYerinde'
    BY <1>1, <1>6, <1>7 DEF DosyaIInv, AdYerinde
<1>16. DosyaAdli'
    BY <1>1, <1>6, <1>7, <1>8, YokYolDegil DEF DosyaIInv, DosyaAdli, DosyaTypeOK
<1> QED
    BY <1>9, <1>10, <1>11, <1>12, <1>13, <1>14, <1>15, <1>16 DEF DosyaIInv

\* What holds of the threads when thread i is done.
LEMMA DosyaBiter ==
    ASSUME DosyaIInv, NEW i \in Istekler, Suren(i), Bitti(i)
    PROVE  /\ IstekSahipli'
           /\ (Sirali' <=> Sirali)
           /\ ~Suren(i)' /\ ~ElAtmis(i)' /\ Eski(i)' = Yok /\ Yeni(i)' = Yok
           /\ \A j \in Istekler \ {i} :
                /\ istek'[j] = istek[j]
                /\ Suren(j)' <=> Suren(j)
                /\ Eski(j)' = Eski(j)
                /\ Yeni(j)' = Yeni(j)
                /\ ElAtmis(j)' <=> ElAtmis(j)
           /\ \A j \in Istekler : HandlerTuru(j)'
<1>1. /\ isci' = isci
      /\ istek' = [istek EXCEPT ![i] = Bos]
      /\ istek'[i] = Bos
      /\ \A j \in Istekler \ {i} : istek'[j] = istek[j]
    BY DEF Bitti, DosyaIInv, IstekSahipli
<1>2. IstekSahipli' /\ (Sirali' <=> Sirali)
    BY <1>1 DEF DosyaIInv, IstekSahipli, Sirali
<1>3. ~Suren(i)' /\ ~ElAtmis(i)' /\ Eski(i)' = Yok /\ Yeni(i)' = Yok
    BY <1>1 DEF Suren, DosyaIsleri, Bos, ElAtmis, Eski, Yeni
<1>4. \A j \in Istekler \ {i} :
         /\ Suren(j)' <=> Suren(j)
         /\ Eski(j)' = Eski(j)
         /\ Yeni(j)' = Yeni(j)
         /\ ElAtmis(j)' <=> ElAtmis(j)
    BY <1>1 DEF Suren, Eski, Yeni, ElAtmis
<1>5. \A j \in Istekler : HandlerTuru(j)'
    BY <1>1, <1>3, <1>4 DEF DosyaIInv, HandlerTuru
<1> QED
    BY <1>1, <1>2, <1>3, <1>4, <1>5

\* The commit takes away the name that the row had, and gives it the one that the
\* handler has saved, or none; what it has removed is named by no other row.
LEMMA YazKorur ==
    ASSUME DosyaIInv, NEW i \in Istekler, NEW s \in Ekliler, NEW y, NEW e,
           Suren(i), ElAtmis(i), s = istek[i].satir, y = Yeni(i), e = Eski(i),
           istek[i].is = "ekle" => ekli[s] = Yok,
           DosyaTypeOK', UNCHANGED <<disk, yarim>>, Bitti(i),
           Dosyasi(s)' = y,
           \A t \in Ekliler \ {s} : Dosyasi(t)' = Dosyasi(t)
    PROVE  DosyaIInv'
<1>1. e = istek[i].eski
    BY DEF Eski
<1>2. IstekSahipli' /\ (Sirali' <=> Sirali) /\ \A j \in Istekler : HandlerTuru(j)'
    BY DosyaBiter
<1>3. /\ Yeni(i)' = Yok /\ Eski(i)' = Yok /\ ~ElAtmis(i)' /\ ~Suren(i)'
      /\ \A j \in Istekler \ {i} :
           /\ istek'[j] = istek[j]
           /\ Suren(j)' <=> Suren(j)
           /\ Eski(j)' = Eski(j)
           /\ Yeni(j)' = Yeni(j)
           /\ ElAtmis(j)' <=> ElAtmis(j)
    BY DosyaBiter
<1>4. y # Yok => /\ y \in disk
                 /\ \A t \in Ekliler : Dosyasi(t) # y
                 /\ \A j \in Istekler : Eski(j) # y
                 /\ \A j \in Istekler \ {i} : Yeni(j) # y
    BY DEF DosyaIInv, YeniKendi
<1>5. \A t \in Ekliler \ {s} : e # Yok => Dosyasi(t) # e
    BY DEF DosyaIInv, EskiKendi
<1>6. TekAd'
    BY <1>4 DEF DosyaIInv, TekAd
<1>7. YeniKendi'
    BY <1>3, <1>4 DEF DosyaIInv, YeniKendi
<1>8. EskiKendi'
    <2> SUFFICES ASSUME NEW j \in Istekler, NEW t \in Ekliler
                 PROVE  (Eski(j) # Yok /\ Dosyasi(t) = Eski(j) => t = istek[j].satir)'
        BY DEF EskiKendi
    <2>1. CASE j = i
        BY <1>3, <2>1
    <2>2. CASE j # i
        BY <1>3, <1>4, <2>2 DEF DosyaIInv, EskiKendi
    <2> QED
        BY <2>1, <2>2
<1>9. KopyaGuncel'
    <2> SUFFICES ASSUME Sirali, NEW j \in Istekler
                 PROVE  ~Suren(j)' /\ ~ElAtmis(j)'
        BY <1>2 DEF KopyaGuncel
    <2>1. Suren(j) => j = i
        BY TekIsci DEF DosyaIInv
    <2> QED
        BY <1>3, <2>1 DEF ElAtmis
<1>10. \A f : f # y /\ f # e /\ Borclu(f) => Borclu(f)'
    BY <1>3 DEF Borclu
<1>11. AdYerinde'
    <2> SUFFICES ASSUME NEW t \in Ekliler
                 PROVE  (Dosyasi(t) \in disk \cup {Yok} \/ Borclu(Dosyasi(t)))'
        BY DEF AdYerinde
    <2>1. CASE t = s
        BY <1>4, <2>1
    <2>2. CASE t # s /\ Dosyasi(t) # Yok
        <3>1. Dosyasi(t) # y /\ Dosyasi(t) # e
            BY <1>4, <1>5, <2>2
        <3>2. Dosyasi(t) \in disk \/ Borclu(Dosyasi(t))
            BY <2>2 DEF DosyaIInv, AdYerinde
        <3>3. \A f : f = Dosyasi(t) /\ Borclu(f) => Borclu(f)'
            BY <1>10, <3>1
        <3>4. \A f : f = Dosyasi(t) => f \in disk \/ Borclu(f)'
            BY <3>2, <3>3
        <3>5. \A f : f = Dosyasi(t) => f = Dosyasi(t)'
            BY <2>2
        <3> QED
            BY <3>4, <3>5 DEF Borclu
    <2>3. CASE t # s /\ Dosyasi(t) = Yok
        BY <2>3
    <2> QED
        BY <2>1, <2>2, <2>3
<1>12. DosyaAdli'
    <2> SUFFICES ASSUME Sirali, NEW f \in disk
                 PROVE  (\E t \in Ekliler : Dosyasi(t)' = f) \/ Borclu(f)'
        BY <1>2 DEF DosyaAdli
    <2>1. Dosyasi(s) = IF istek[i].is = "ekle" THEN Yok ELSE e
        BY <1>1 DEF DosyaIInv, KopyaGuncel, Dosyasi
    <2>2. e \notin disk /\ f # Yok /\ f # e
        BY <1>1, YokYolDegil DEF DosyaIInv, KopyaGuncel, DosyaTypeOK
    <2>3. CASE f = y
        BY <2>3
    <2>4. CASE f # y
        <3>1. (\E t \in Ekliler : Dosyasi(t) = f) \/ Borclu(f)
            BY DEF DosyaIInv, DosyaAdli
        <3>2. ASSUME NEW t \in Ekliler, Dosyasi(t) = f
              PROVE  Dosyasi(t)' = f
            BY <2>1, <2>2, <3>2
        <3> QED
            BY <1>10, <2>2, <2>4, <3>1, <3>2
    <2> QED
        BY <2>3, <2>4
<1> QED
    BY <1>2, <1>6, <1>7, <1>8, <1>9, <1>11, <1>12 DEF DosyaIInv

LEMMA DosyaYazKorur ==
    ASSUME DosyaIInv, NEW i \in Istekler, DosyaYaz(i)
    PROVE  DosyaIInv'
<1>1. PICK s, y, e : s = istek[i].satir /\ y = Yeni(i) /\ e = Eski(i)
    OBVIOUS
<1>2. /\ UNCHANGED <<disk, yarim>>
      /\ Suren(i)
      /\ ElAtmis(i)
      /\ istek[i].is = "ekle" => ekli[s] = Yok
      /\ ekli' = [ekli EXCEPT ![s] = [dosya |-> y, silindi |-> FALSE]]
      /\ Bitti(i)
    BY <1>1 DEF DosyaYaz, ElAtmis, Yeni
<1>3. s \in Ekliler /\ y \in Yollar
    BY <1>1, <1>2 DEF DosyaYaz, DosyaIInv, HandlerTuru, Yeni
<1>4. DosyaTypeOK'
    BY <1>2, <1>3 DEF DosyaIInv, DosyaTypeOK, EkliSatiri
<1>5. /\ ekli'[s] = [dosya |-> y, silindi |-> FALSE]
      /\ [dosya |-> y, silindi |-> FALSE] \in EkliSatiri
      /\ \A t \in Ekliler \ {s} : ekli'[t] = ekli[t]
    BY <1>2, <1>3 DEF DosyaIInv, DosyaTypeOK, EkliSatiri
<1>6. /\ Dosyasi(s)' = y
      /\ \A t \in Ekliler \ {s} : Dosyasi(t)' = Dosyasi(t)
    <2>1. ekli'[s] # Yok
        BY <1>5, YokYolDegil
    <2>2. ekli'[s].dosya = y
        BY <1>5
    <2>3. Dosyasi(s)' = y
        BY <2>1, <2>2 DEF Dosyasi
    <2>4. \A t \in Ekliler \ {s} : Dosyasi(t)' = Dosyasi(t)
        BY <1>5 DEF Dosyasi
    <2> QED
        BY <2>3, <2>4
<1> QED
    BY <1>1, <1>2, <1>3, <1>4, <1>6, YazKorur

LEMMA MateryalSilKorur ==
    ASSUME DosyaIInv, NEW i \in Istekler, MateryalSil(i)
    PROVE  DosyaIInv'
<1>1. PICK s, y, e : s = istek[i].satir /\ y = Yeni(i) /\ e = Eski(i)
    OBVIOUS
<1>2. /\ UNCHANGED <<disk, yarim>>
      /\ Suren(i)
      /\ ElAtmis(i)
      /\ istek[i].is # "ekle"
      /\ ekli' = [ekli EXCEPT ![s] = [dosya |-> Yok, silindi |-> TRUE]]
      /\ Bitti(i)
    BY <1>1 DEF MateryalSil, ElAtmis, Suren, DosyaIsleri
<1>3. s \in Ekliler /\ y = Yok
    BY <1>1, <1>2 DEF MateryalSil, DosyaIInv, HandlerTuru, Yeni
<1>4. DosyaTypeOK'
    BY <1>2, <1>3 DEF DosyaIInv, DosyaTypeOK, EkliSatiri
<1>5. /\ ekli'[s] = [dosya |-> Yok, silindi |-> TRUE]
      /\ [dosya |-> Yok, silindi |-> TRUE] \in EkliSatiri
      /\ \A t \in Ekliler \ {s} : ekli'[t] = ekli[t]
    BY <1>2, <1>3 DEF DosyaIInv, DosyaTypeOK, EkliSatiri
<1>6. Dosyasi(s)' = y /\ \A t \in Ekliler \ {s} : Dosyasi(t)' = Dosyasi(t)
    BY <1>3, <1>5, YokYolDegil DEF Dosyasi
<1> QED
    BY <1>1, <1>2, <1>3, <1>4, <1>6, YazKorur

LEMMA DosyaBirakKorur ==
    ASSUME DosyaIInv, NEW i \in Istekler, DosyaBirak(i)
    PROVE  DosyaIInv'
<1>1. /\ UNCHANGED <<ekli, disk>>
      /\ Suren(i)
      /\ yarim' = yarim \cup Gecen(i)
      /\ Bitti(i)
    BY DEF DosyaBirak
<1>2. IstekSahipli' /\ (Sirali' <=> Sirali) /\ \A j \in Istekler : HandlerTuru(j)'
    BY <1>1, DosyaBiter
<1>3. /\ Yeni(i)' = Yok /\ Eski(i)' = Yok /\ ~ElAtmis(i)' /\ ~Suren(i)'
      /\ \A j \in Istekler \ {i} :
           /\ istek'[j] = istek[j]
           /\ Suren(j)' <=> Suren(j)
           /\ Eski(j)' = Eski(j)
           /\ Yeni(j)' = Yeni(j)
           /\ ElAtmis(j)' <=> ElAtmis(j)
    BY <1>1, DosyaBiter
<1>4. \A t : Dosyasi(t)' = Dosyasi(t)
    BY <1>1 DEF Dosyasi
<1>5. /\ Gecen(i) = IF ElAtmis(i) THEN {Eski(i), Yeni(i)} \ {Yok} ELSE {}
      /\ Gecen(i) \subseteq Yollar
    BY <1>1 DEF Gecen, ElAtmis, Eski, Yeni, DosyaIInv, HandlerTuru
<1>6. \A f : f # Yok /\ Borclu(f) => Borclu(f)'
    BY <1>1, <1>3, <1>5 DEF Borclu
<1>7. DosyaTypeOK'
    BY <1>1, <1>5 DEF DosyaIInv, DosyaTypeOK
<1>8. TekAd'
    BY <1>4 DEF DosyaIInv, TekAd
<1>9. YeniKendi'
    BY <1>1, <1>3, <1>4 DEF DosyaIInv, YeniKendi
<1>10. EskiKendi'
    BY <1>3, <1>4 DEF DosyaIInv, EskiKendi
<1>11. KopyaGuncel'
    <2> SUFFICES ASSUME Sirali, NEW j \in Istekler
                 PROVE  ~Suren(j)' /\ ~ElAtmis(j)'
        BY <1>2 DEF KopyaGuncel
    <2>1. Suren(j) => j = i
        BY <1>1, TekIsci DEF DosyaIInv
    <2> QED
        BY <1>3, <2>1 DEF ElAtmis
<1>12. AdYerinde'
    BY <1>1, <1>4, <1>6 DEF DosyaIInv, AdYerinde
<1>13. DosyaAdli'
    BY <1>1, <1>2, <1>4, <1>6, YokYolDegil DEF DosyaIInv, DosyaAdli, DosyaTypeOK
<1> QED
    BY <1>2, <1>7, <1>8, <1>9, <1>10, <1>11, <1>12, <1>13 DEF DosyaIInv

LEMMA DuranKorur ==
    ASSUME DosyaIInv, UNCHANGED <<oturum, dosyaVars>>
    PROVE  DosyaIInv'
BY DEF oturum, dosyaVars, DosyaIInv, DosyaTypeOK, IstekSahipli, HandlerTuru, TekAd, YeniKendi,
    EskiKendi, KopyaGuncel, AdYerinde, DosyaAdli, Borclu, Dosyasi, Eski, Yeni, ElAtmis, Suren,
    Sirali

-----------------------------------------------------------------------------
(* The theorem.                                                            *)

LEMMA DosyaBaslangic == OturumInit /\ DosyaInit => DosyaIInv
<1> SUFFICES ASSUME OturumInit, DosyaInit PROVE DosyaIInv
    OBVIOUS
<1>1. /\ isci \subseteq Istekler
      /\ istek = [i \in Istekler |-> Bos]
    BY DEF OturumInit
<1>2. \A i \in Istekler : ~Suren(i) /\ Eski(i) = Yok /\ Yeni(i) = Yok /\ ~ElAtmis(i)
    BY <1>1, BosSurmez DEF Eski, Yeni, ElAtmis
<1>3. \A s \in Ekliler : Dosyasi(s) = Yok
    BY DEF DosyaInit, Dosyasi
<1>4. IstekSahipli
    BY <1>1 DEF IstekSahipli
<1> QED
    BY <1>2, <1>3, <1>4 DEF DosyaInit, DosyaIInv, DosyaTypeOK, HandlerTuru, TekAd, YeniKendi,
        EskiKendi, KopyaGuncel, AdYerinde, DosyaAdli

LEMMA DosyaAdimi == DosyaIInv /\ [DosyaNext]_<<oturum, dosyaVars>> => DosyaIInv'
BY DosyasizEkleKorur, DosyaliEkleOkuKorur, FaturaDegistirOkuKorur, MateryalSilOkuKorur,
    DosyaKaldirKorur, DosyaKaydetKorur, DosyaYazKorur, MateryalSilKorur, DosyaBirakKorur,
    DuranKorur DEF DosyaNext

\* Whatever the number of rows, paths and threads: a file that a row names is on the
\* disk, and on one thread a file on the disk is named by a row, but for what handlers
\* have removed or saved that have not ended or were cut off.
THEOREM DosyalarYerinde == DosyaSpec => []DosyaYerinde
BY DosyaBaslangic, DosyaAdimi, DosyaYeter, PTL DEF DosyaSpec

-----------------------------------------------------------------------------
(* Trainings, questions and tests: the inductive invariant.                *)

EgitimFarki(f) ==
    /\ DOMAIN f \subseteq {"durum", "bitis"}
    /\ "durum" \in DOMAIN f => f["durum"] \in EgitimDurumlari
    /\ "bitis" \in DOMAIN f => f["bitis"] \in BOOLEAN

KatilimFarki(f) ==
    /\ DOMAIN f \subseteq {"durum", "katilim", "sertifika"}
    /\ "durum" \in DOMAIN f => f["durum"] \in KatilimDurumlari
    /\ "katilim" \in DOMAIN f => f["katilim"] \in BOOLEAN
    /\ "sertifika" \in DOMAIN f => f["sertifika"] \in BOOLEAN

\* What a thread may write to a training and to its participants.
EgitimHazir(i) ==
    /\ istek[i].is \in {"egitim", "katilim_ekle", "katilim"} => istek[i].egitim \in Egitimler
    /\ istek[i].is = "egitim" =>
         egitim[istek[i].egitim] # Yok /\ EgitimFarki(istek[i].fark)
    /\ istek[i].is = "katilim" =>
         istek[i].calisan \in Kisiler /\ KatilimFarki(istek[i].fark)

Metinliler(s) == {o \in secenek[s] : o.metinli}

\* An edit of a question deletes the options of every form that changed the question; with
\* one thread, all there are.
SoruHazir(i) ==
    istek[i].is = "soru" =>
        LET r == istek[i] IN
        /\ r.soru \in Sorular
        /\ soru[r.soru] # Yok
        /\ r.form \in 1..MaxForm
        /\ r.metinli \in BOOLEAN
        /\ r.metinli => Metinliler(r.soru) \subseteq r.silinen
        /\ Sirali => secenek[r.soru] \subseteq r.silinen

\* The row of a question is locked by one edit at most.
TekKilit ==
    \A i, j \in Istekler :
        /\ istek[i].is = "soru" /\ istek[i].metinli
        /\ istek[j].is = "soru" /\ istek[j].metinli
        /\ istek[i].soru = istek[j].soru
        => i = j

TekForm ==
    \A s \in Sorular :
        /\ \A o, p \in Metinliler(s) : o = p
        /\ Sirali => \A o, p \in secenek[s] : o = p

\* Questions that will be added to a test have numbers of their own; with one thread,
\* numbers above those of the test.
TestHazir(i) ==
    /\ istek[i].is \in {"test_ekle", "test_sirala"} =>
         istek[i].test \in Testler /\ test[istek[i].test] # Yok
    /\ istek[i].is = "test_ekle" =>
         LET sira == istek[i].sira IN
         /\ sira = [s \in DOMAIN sira |-> sira[s]]
         /\ \A s \in DOMAIN sira : sira[s] \in 0..MaxSira
         /\ \A y, z \in DOMAIN sira : sira[y] = sira[z] => y = z
         /\ Sirali => \A s \in TesttekiSorular(istek[i].test), y \in DOMAIN sira :
                         test[istek[i].test][s] < sira[y]
    /\ istek[i].is = "test_sirala" =>
         \A s \in DOMAIN istek[i].fark : istek[i].fark[s] \in 0..MaxSira

EgitimIInv ==
    /\ IstekSahipli
    /\ EgitimTypeOK
    /\ \A i \in Istekler : EgitimHazir(i) /\ SoruHazir(i) /\ TestHazir(i)
    /\ TekKilit
    /\ TekForm

-----------------------------------------------------------------------------
(* Lemmas: numbers.                                                        *)

\* A finite set of numbers that is not empty has a greatest one: of the sets of the
\* numbers from x on, one has no smaller one below it.
LEMMA EnBuyuk ==
    ASSUME NEW S \in SUBSET Nat, IsFiniteSet(S), S # {}
    PROVE  Max(S) \in S /\ \A y \in S : y <= Max(S)
<1> DEFINE Ustu(x) == {y \in S : y >= x}
           F == {Ustu(x) : x \in S}
           R == StrictSubsetOrdering(S)
<1>1. IsWellFoundedOn(R, SUBSET S)
    BY FS_StrictSubsetOrderingWellFounded, FS_FiniteSubsetsOfFinite
<1>2. F \subseteq SUBSET S /\ F # {}
    OBVIOUS
<1>3. PICK T \in F : \A U \in F : <<U, T>> \notin R
    <2> HIDE DEF F, R
    <2> QED
        BY <1>1, <1>2, WFMin
<1>4. PICK x \in S : T = Ustu(x)
    OBVIOUS
<1>5. ASSUME NEW z \in S, z > x
      PROVE  FALSE
    <2> x \in Nat /\ z \in Nat /\ \A y \in S : y \in Nat
        OBVIOUS
    <2>1. Ustu(z) \subseteq Ustu(x) /\ x \in Ustu(x) /\ x \notin Ustu(z)
        <3>1. \A y \in S : y >= z => y >= x
            BY <1>5
        <3>2. x >= x /\ ~(x >= z)
            BY <1>5
        <3> QED
            BY <3>1, <3>2
    <2>2. Ustu(z) \in F /\ Ustu(z) \in SUBSET S /\ Ustu(x) \in SUBSET S
        OBVIOUS
    <2>3. <<Ustu(z), Ustu(x)>> \in R
        <3>1. Ustu(z) # Ustu(x)
            BY <2>1
        <3> HIDE DEF Ustu
        <3> QED
            BY <2>1, <2>2, <3>1 DEF StrictSubsetOrdering
    <2> QED
        BY <1>3, <1>4, <2>2, <2>3
<1>6. \E m \in S : \A y \in S : m >= y
    <2>1. \A y \in S : x >= y
        BY <1>5
    <2> QED
        BY <2>1
<1>7. Max(S) \in S /\ \A y \in S : Max(S) >= y
    BY <1>6 DEF Max
<1> QED
    BY <1>7

\* Counted in the order of their places, the members of a finite set get the numbers from
\* 1 on, each its own.
LEMMA SiraSayisi ==
    ASSUME NEW S, IsFiniteSet(S), NEW yer \in [S -> Nat],
           \A y, z \in S : yer[y] = yer[z] => y = z
    PROVE  /\ Cardinality(S) \in Nat
           /\ \A y \in S : Cardinality({z \in S : yer[z] <= yer[y]}) \in 1..Cardinality(S)
           /\ \A y, z \in S : Cardinality({w \in S : yer[w] <= yer[y]})
                               = Cardinality({w \in S : yer[w] <= yer[z]}) => y = z
<1> DEFINE Onde(y) == {z \in S : yer[z] <= yer[y]}
<1>1. \A y \in S : /\ Onde(y) \in SUBSET S
                   /\ IsFiniteSet(Onde(y))
                   /\ Cardinality(Onde(y)) \in Nat
                   /\ Cardinality(Onde(y)) <= Cardinality(S)
    <2> TAKE y \in S
    <2>1. Onde(y) \in SUBSET S
        OBVIOUS
    <2> HIDE DEF Onde
    <2> QED
        BY <2>1, FS_Subset, FS_CardinalityType
<1>2. ASSUME NEW y \in S
      PROVE  Cardinality(Onde(y)) # 0
    <2>1. y \in Onde(y)
        OBVIOUS
    <2> HIDE DEF Onde
    <2> QED
        BY <1>1, <2>1, FS_EmptySet
<1>3. ASSUME NEW y \in S, NEW z \in S, yer[y] < yer[z]
      PROVE  Cardinality(Onde(y)) # Cardinality(Onde(z))
    <2>1. Onde(y) \in SUBSET Onde(z) /\ z \in Onde(z) /\ z \notin Onde(y)
        BY <1>3
    <2> HIDE DEF Onde
    <2> QED
        BY <1>1, <2>1, FS_Subset
<1>4. ASSUME NEW y \in S, NEW z \in S, Cardinality(Onde(y)) = Cardinality(Onde(z))
      PROVE  y = z
    <2>1. ~(yer[y] < yer[z]) /\ ~(yer[z] < yer[y])
        BY <1>3, <1>4
    <2> QED
        BY <2>1
<1>5. Cardinality(S) \in Nat
    BY FS_CardinalityType
<1> QED
    BY <1>1, <1>2, <1>4, <1>5

-----------------------------------------------------------------------------
(* Lemmas: the threads, and what a step leaves as it was.                  *)

\* A handler has read: with one thread, it is the only one.
LEMMA BaslaSonuc ==
    ASSUME IstekSahipli, NEW i \in Istekler, NEW r, Basla(i, r)
    PROVE  /\ IstekSahipli'
           /\ istek'[i] = r /\ istek[i] = Bos
           /\ Sirali' = Sirali
           /\ \A j \in Istekler \ {i} : istek'[j] = istek[j]
<1>1. /\ istek' = [istek EXCEPT ![i] = r] /\ isci' = isci
      /\ i \in isci /\ istek[i] = Bos
    BY DEF Basla
<1>2. istek'[i] = r /\ \A j \in Istekler \ {i} : istek'[j] = istek[j]
    BY <1>1 DEF IstekSahipli
<1>3. IstekSahipli'
    BY <1>1, <1>2 DEF IstekSahipli
<1> QED
    BY <1>1, <1>2, <1>3 DEF Sirali

\* A handler has ended: with one thread, nobody is at work then.
LEMMA BittiSonuc ==
    ASSUME IstekSahipli, NEW i \in Istekler, istek[i] # Bos, Bitti(i)
    PROVE  /\ IstekSahipli'
           /\ istek'[i] = Bos
           /\ Sirali' = Sirali
           /\ \A j \in Istekler \ {i} : istek'[j] = istek[j] /\ (Sirali => istek[j] = Bos)
<1>1. istek' = [istek EXCEPT ![i] = Bos] /\ isci' = isci
    BY DEF Bitti
<1>2. i \in isci
    BY DEF IstekSahipli
<1>3. istek'[i] = Bos /\ \A j \in Istekler \ {i} : istek'[j] = istek[j]
    BY <1>1 DEF IstekSahipli
<1>4. IstekSahipli'
    BY <1>1, <1>3 DEF IstekSahipli
<1>5. ASSUME Sirali, NEW j \in Istekler \ {i}
      PROVE  istek[j] = Bos
    BY <1>2, <1>5 DEF Sirali, IstekSahipli
<1> QED
    BY <1>1, <1>3, <1>4, <1>5 DEF Sirali

\* A step that is no handler's.
LEMMA OturumDurur ==
    ASSUME IstekSahipli, UNCHANGED oturum
    PROVE  IstekSahipli' /\ istek' = istek /\ Sirali' = Sirali
BY DEF IstekSahipli, oturum, Sirali

LEMMA BosHazir ==
    ASSUME NEW i, istek'[i] = Bos
    PROVE  (EgitimHazir(i) /\ SoruHazir(i) /\ TestHazir(i))'
BY DEF Bos, EgitimHazir, SoruHazir, TestHazir

LEMMA EgitimHazirKalir ==
    ASSUME NEW i, EgitimHazir(i), istek'[i] = istek[i],
           \A e \in Egitimler : egitim[e] # Yok => egitim'[e] # Yok
    PROVE  EgitimHazir(i)'
BY DEF EgitimHazir, EgitimFarki, KatilimFarki

LEMMA SoruHazirKalir ==
    ASSUME NEW i, SoruHazir(i), istek'[i] = istek[i], Sirali' = Sirali, UNCHANGED soruVars
    PROVE  SoruHazir(i)'
BY DEF SoruHazir, soruVars, Metinliler

LEMMA TestHazirKalir ==
    ASSUME NEW i, TestHazir(i), istek'[i] = istek[i], Sirali' = Sirali, UNCHANGED test
    PROVE  TestHazir(i)'
BY DEF TestHazir, TesttekiSorular

LEMMA TekKilitKalir ==
    ASSUME TekKilit, \A j \in Istekler : istek'[j] = istek[j] \/ istek'[j].is # "soru"
    PROVE  TekKilit'
BY DEF TekKilit

LEMMA TekFormKalir ==
    ASSUME TekForm, Sirali' = Sirali, UNCHANGED secenek
    PROVE  TekForm'
BY DEF TekForm, Metinliler

\* A handler reads, and is no edit of a question.
LEMMA OkuKorur ==
    ASSUME EgitimIInv, NEW i \in Istekler, NEW r, Basla(i, r), UNCHANGED egitimVars,
           r.is # "soru", (EgitimHazir(i) /\ TestHazir(i))'
    PROVE  EgitimIInv'
<1>1. /\ IstekSahipli'
      /\ istek'[i] = r
      /\ Sirali' = Sirali
      /\ \A j \in Istekler \ {i} : istek'[j] = istek[j]
    BY BaslaSonuc DEF EgitimIInv
<1>2. UNCHANGED <<egitim, katilim, sayac, soru, secenek, test>> /\ UNCHANGED soruVars
    BY DEF egitimVars, katilimVars, soruVars
<1>3. EgitimTypeOK'
    BY <1>2 DEF EgitimIInv, EgitimTypeOK
<1>4. SoruHazir(i)'
    BY <1>1 DEF SoruHazir
<1>5. \A j \in Istekler \ {i} : EgitimHazir(j)' /\ SoruHazir(j)' /\ TestHazir(j)'
    BY <1>1, <1>2, EgitimHazirKalir, SoruHazirKalir, TestHazirKalir DEF EgitimIInv
<1>6. TekKilit'
    BY <1>1, TekKilitKalir DEF EgitimIInv
<1>7. TekForm'
    BY <1>1, <1>2, TekFormKalir DEF EgitimIInv
<1> QED
    BY <1>1, <1>3, <1>4, <1>5, <1>6, <1>7 DEF EgitimIInv

\* A handler ends, and leaves questions and tests as they were.
LEMMA YazKorurEgitim ==
    ASSUME EgitimIInv, NEW i \in Istekler, istek[i] # Bos, Bitti(i), EgitimTypeOK',
           UNCHANGED <<soruVars, test>>,
           \A e \in Egitimler : egitim[e] # Yok => egitim'[e] # Yok
    PROVE  EgitimIInv'
<1>1. /\ IstekSahipli'
      /\ istek'[i] = Bos
      /\ Sirali' = Sirali
      /\ \A j \in Istekler \ {i} : istek'[j] = istek[j]
    BY BittiSonuc DEF EgitimIInv
<1>2. \A j \in Istekler : EgitimHazir(j)' /\ SoruHazir(j)' /\ TestHazir(j)'
    BY <1>1, BosHazir, EgitimHazirKalir, SoruHazirKalir, TestHazirKalir DEF EgitimIInv
<1>3. TekKilit'
    BY <1>1, TekKilitKalir DEF EgitimIInv, Bos
<1>4. TekForm'
    BY <1>1, TekFormKalir DEF EgitimIInv, soruVars
<1> QED
    BY <1>1, <1>2, <1>3, <1>4 DEF EgitimIInv

\* A handler that reads and commits at once, and leaves questions and tests as they were.
LEMMA AtomikKorur ==
    ASSUME EgitimIInv, UNCHANGED oturum, EgitimTypeOK', UNCHANGED <<soruVars, test>>,
           \A e \in Egitimler : egitim[e] # Yok => egitim'[e] # Yok
    PROVE  EgitimIInv'
<1>1. IstekSahipli' /\ istek' = istek /\ Sirali' = Sirali
    BY OturumDurur DEF EgitimIInv
<1>2. \A j \in Istekler : EgitimHazir(j)' /\ SoruHazir(j)' /\ TestHazir(j)'
    BY <1>1, EgitimHazirKalir, SoruHazirKalir, TestHazirKalir DEF EgitimIInv
<1>3. TekKilit'
    BY <1>1, TekKilitKalir DEF EgitimIInv
<1>4. TekForm'
    BY <1>1, TekFormKalir DEF EgitimIInv, soruVars
<1> QED
    BY <1>1, <1>2, <1>3, <1>4 DEF EgitimIInv

-----------------------------------------------------------------------------
(* Trainings and participants.                                             *)

LEMMA SatirlarYokDegil ==
    /\ \A x \in EgitimSatiri : x # Yok
    /\ \A x \in KatilimSatiri : x # Yok
    /\ \A x \in SoruSatiri : x # Yok
    /\ \A x \in Nat : x # Yok
BY EgitimAssumption

LEMMA EgitimUygula ==
    ASSUME NEW x \in EgitimSatiri, NEW f, EgitimFarki(f)
    PROVE  Uygula(x, f) \in EgitimSatiri
BY DEF EgitimSatiri, EgitimFarki, Uygula

LEMMA KatilimUygula ==
    ASSUME NEW x \in KatilimSatiri, NEW f, KatilimFarki(f)
    PROVE  Uygula(x, f) \in KatilimSatiri
BY DEF KatilimSatiri, KatilimFarki, Uygula

LEMMA EgitimFark ==
    ASSUME NEW x \in EgitimSatiri, NEW y \in EgitimSatiri
    PROVE  EgitimFarki(Fark(x, y))
BY DEF EgitimSatiri, EgitimFarki, Fark

LEMMA KatilimFark ==
    ASSUME NEW x \in KatilimSatiri, NEW y \in KatilimSatiri, y.no = x.no
    PROVE  KatilimFarki(Fark(x, y))
<1> DEFINE f == Fark(x, y)
<1>1. /\ y.durum \in KatilimDurumlari /\ y.katilim \in BOOLEAN /\ y.sertifika \in BOOLEAN
      /\ DOMAIN y = {"no", "durum", "katilim", "sertifika"}
    BY DEF KatilimSatiri
<1>2. DOMAIN f \subseteq DOMAIN y \ {"no"} /\ \A k \in DOMAIN f : f[k] = y[k]
    BY DEF Fark
<1> QED
    BY <1>1, <1>2 DEF KatilimFarki

LEMMA EgitimEkleKorur ==
    ASSUME EgitimIInv, NEW e \in Egitimler, NEW bitis \in BOOLEAN, EgitimEkle(e, bitis)
    PROVE  EgitimIInv' /\ UNCHANGED test
<1> DEFINE r == [durum |-> "planli", bitis |-> bitis]
<1>1. /\ egitim' = [egitim EXCEPT ![e] = r]
      /\ UNCHANGED <<katilim, sayac, soruVars, soru, secenek, test, oturum>>
    BY DEF EgitimEkle, soruVars
<1>2. r \in EgitimSatiri
    BY DEF EgitimSatiri, EgitimDurumlari
<1>3. EgitimTypeOK'
    BY <1>1, <1>2 DEF EgitimIInv, EgitimTypeOK
<1>4. \A d \in Egitimler : egitim[d] # Yok => egitim'[d] # Yok
    <2>1. r # Yok
        BY <1>2, SatirlarYokDegil
    <2> HIDE DEF r
    <2> QED
        BY <1>1, <2>1 DEF EgitimIInv, EgitimTypeOK
<1> QED
    BY <1>1, <1>3, <1>4, AtomikKorur

LEMMA EgitimYazarKorur ==
    ASSUME EgitimIInv, NEW i \in Istekler, NEW e \in Egitimler, egitim[e] # Yok,
           NEW y \in EgitimSatiri, EgitimYazar(i, e, y)
    PROVE  EgitimIInv' /\ UNCHANGED test
<1> DEFINE r == [is |-> "egitim", egitim |-> e, fark |-> Fark(egitim[e], y)]
<1>1. Basla(i, r) /\ UNCHANGED egitimVars /\ egitim' = egitim /\ test' = test
    BY DEF EgitimYazar, egitimVars, katilimVars
<1>2. EgitimFarki(Fark(egitim[e], y))
    BY EgitimFark DEF EgitimIInv, EgitimTypeOK
<1>3. istek'[i] = r
    BY <1>1, BaslaSonuc DEF EgitimIInv
<1>4. (EgitimHazir(i) /\ TestHazir(i))'
    BY <1>1, <1>2, <1>3 DEF EgitimHazir, TestHazir, EgitimFarki
<1> QED
    BY <1>1, <1>4, OkuKorur

LEMMA EgitimDuzenleOkuKorur ==
    ASSUME EgitimIInv, NEW i \in Istekler, NEW e \in Egitimler, NEW bitis \in BOOLEAN,
           EgitimDuzenleOku(i, e, bitis)
    PROVE  EgitimIInv' /\ UNCHANGED test
<1>1. egitim[e] \in EgitimSatiri /\ egitim[e] # Yok
    BY DEF EgitimDuzenleOku, EgitimIInv, EgitimTypeOK
<1>2. [egitim[e] EXCEPT !.bitis = bitis] \in EgitimSatiri
    BY <1>1 DEF EgitimSatiri
<1> QED
    BY <1>1, <1>2, EgitimYazarKorur DEF EgitimDuzenleOku

LEMMA EgitimDurumOkuKorur ==
    ASSUME EgitimIInv, NEW i \in Istekler, NEW e \in Egitimler, NEW d \in EgitimDurumlari,
           EgitimDurumOku(i, e, d)
    PROVE  EgitimIInv' /\ UNCHANGED test
<1>1. egitim[e] \in EgitimSatiri /\ egitim[e] # Yok
    BY DEF EgitimDurumOku, EgitimIInv, EgitimTypeOK
<1>2. [egitim[e] EXCEPT !.durum = d, !.bitis = @ \/ d = "tamamlandi"] \in EgitimSatiri
    <2>1. (egitim[e].bitis \/ d = "tamamlandi") \in BOOLEAN
        OBVIOUS
    <2> QED
        BY <1>1, <2>1 DEF EgitimSatiri
<1> QED
    BY <1>1, <1>2, EgitimYazarKorur DEF EgitimDurumOku

LEMMA EgitimYazKorur ==
    ASSUME EgitimIInv, NEW i \in Istekler, EgitimYaz(i)
    PROVE  EgitimIInv' /\ UNCHANGED test
<1> DEFINE e == istek[i].egitim
           y == Uygula(egitim[e], istek[i].fark)
<1>1. /\ istek[i].is = "egitim"
      /\ egitim' = [egitim EXCEPT ![e] = y]
      /\ Bitti(i)
      /\ UNCHANGED <<katilim, sayac, soruVars, soru, secenek, test>>
    BY DEF EgitimYaz, soruVars
<1>2. e \in Egitimler /\ egitim[e] \in EgitimSatiri /\ EgitimFarki(istek[i].fark)
    BY <1>1 DEF EgitimIInv, EgitimHazir, EgitimTypeOK
<1>3. y \in EgitimSatiri
    BY <1>2, EgitimUygula
<1>4. EgitimTypeOK'
    <2> HIDE DEF y
    <2> QED
        BY <1>1, <1>2, <1>3 DEF EgitimIInv, EgitimTypeOK
<1>5. \A d \in Egitimler : egitim[d] # Yok => egitim'[d] # Yok
    <2>1. y # Yok
        BY <1>3, SatirlarYokDegil
    <2> HIDE DEF y
    <2> QED
        BY <1>1, <2>1 DEF EgitimIInv, EgitimTypeOK
<1>6. istek[i] # Bos
    BY <1>1 DEF Bos
<1> QED
    BY <1>1, <1>4, <1>5, <1>6, YazKorurEgitim

LEMMA EgitimBirakKorur ==
    ASSUME EgitimIInv, NEW i \in Istekler, EgitimBirak(i)
    PROVE  EgitimIInv' /\ UNCHANGED test
<1>1. istek[i] # Bos /\ Bitti(i) /\ UNCHANGED <<egitim, katilim, sayac, soru, secenek, test>>
    BY DEF EgitimBirak, Bos, egitimVars, katilimVars, soruVars
<1>2. EgitimTypeOK'
    BY <1>1 DEF EgitimIInv, EgitimTypeOK
<1> QED
    BY <1>1, <1>2, YazKorurEgitim DEF soruVars

LEMMA KatilimciEkleOkuKorur ==
    ASSUME EgitimIInv, NEW i \in Istekler, NEW e \in Egitimler, NEW kisiler,
           KatilimciEkleOku(i, e, kisiler)
    PROVE  EgitimIInv' /\ UNCHANGED test
<1>1. PICK r : /\ Basla(i, r) /\ UNCHANGED egitimVars /\ test' = test
               /\ r.is = "katilim_ekle" /\ r.egitim = e
    BY DEF KatilimciEkleOku, egitimVars
<1>2. istek'[i] = r
    BY <1>1, BaslaSonuc DEF EgitimIInv
<1>3. (EgitimHazir(i) /\ TestHazir(i))'
    BY <1>1, <1>2 DEF EgitimHazir, TestHazir
<1> QED
    BY <1>1, <1>3, OkuKorur

LEMMA KatilimciEkleKorur ==
    ASSUME EgitimIInv, NEW i \in Istekler, KatilimciEkle(i)
    PROVE  EgitimIInv' /\ UNCHANGED test
<1> DEFINE e == istek[i].egitim
           r == [no |-> sayac'.katilim, durum |-> "davetli", katilim |-> FALSE, sertifika |-> FALSE]
           y == [c \in Kisiler |-> IF c \in istek[i].yeni THEN r ELSE katilim[e][c]]
<1>1. /\ istek[i].is = "katilim_ekle"
      /\ sayac.katilim < MaxKayit
      /\ sayac' = [sayac EXCEPT !.katilim = @ + 1]
      /\ katilim' = [katilim EXCEPT ![e] = y]
      /\ Bitti(i)
      /\ UNCHANGED <<egitim, soruVars, soru, secenek, test>>
    BY DEF KatilimciEkle, soruVars
<1>2. e \in Egitimler
    BY <1>1 DEF EgitimIInv, EgitimHazir
<1>3. sayac' \in [katilim : 0..MaxKayit, form : 0..MaxForm] /\ sayac'.katilim \in 1..MaxKayit
    <2> MaxKayit \in Nat
        BY EgitimAssumption
    <2> QED
        BY <1>1 DEF EgitimIInv, EgitimTypeOK
<1>4. r \in KatilimSatiri
    BY <1>3 DEF KatilimSatiri, KatilimDurumlari
<1>5. y \in [Kisiler -> KatilimSatiri \cup {Yok}]
    <2> HIDE DEF r
    <2> QED
        BY <1>2, <1>4 DEF EgitimIInv, EgitimTypeOK
<1>6. EgitimTypeOK'
    <2> HIDE DEF y
    <2> QED
        BY <1>1, <1>2, <1>3, <1>5 DEF EgitimIInv, EgitimTypeOK
<1>7. istek[i] # Bos
    BY <1>1 DEF Bos
<1> QED
    BY <1>1, <1>6, <1>7, YazKorurEgitim

LEMMA KatilimciDurumOkuKorur ==
    ASSUME EgitimIInv, NEW i \in Istekler, NEW e \in Egitimler, NEW c \in Kisiler,
           NEW d \in KatilimDurumlari, KatilimciDurumOku(i, e, c, d)
    PROVE  EgitimIInv' /\ UNCHANGED test
<1> DEFINE x == katilim[e][c]
           y == [x EXCEPT !.durum = d, !.katilim = @ \/ d \in {"katildi", "gecti"},
                          !.sertifika = @ \/ d = "gecti"]
           r == [is |-> "katilim", egitim |-> e, calisan |-> c, no |-> x.no, fark |-> Fark(x, y)]
<1>1. x # Yok /\ Basla(i, r) /\ UNCHANGED egitimVars /\ test' = test
    BY DEF KatilimciDurumOku, egitimVars
<1>2. x \in KatilimSatiri
    BY <1>1 DEF EgitimIInv, EgitimTypeOK
<1>3. y \in KatilimSatiri
    <2>1. /\ (x.katilim \/ d \in {"katildi", "gecti"}) \in BOOLEAN
          /\ (x.sertifika \/ d = "gecti") \in BOOLEAN
        OBVIOUS
    <2> HIDE DEF x
    <2> QED
        BY <1>2, <2>1 DEF KatilimSatiri
<1>4. KatilimFarki(Fark(x, y))
    <2>1. y.no = x.no
        BY <1>2 DEF KatilimSatiri
    <2> HIDE DEF x, y
    <2> QED
        BY <1>2, <1>3, <2>1, KatilimFark
<1>5. istek'[i] = r
    <2> HIDE DEF r
    <2> QED
        BY <1>1, BaslaSonuc DEF EgitimIInv
<1>6. (EgitimHazir(i) /\ TestHazir(i))'
    <2>1. istek'[i].is = "katilim" /\ istek'[i].egitim = e /\ istek'[i].calisan = c
        BY <1>5
    <2>2. KatilimFarki(istek'[i].fark)
        BY <1>4, <1>5
    <2> QED
        BY <2>1, <2>2 DEF EgitimHazir, TestHazir, KatilimFarki
<1>7. r.is # "soru"
    OBVIOUS
<1> HIDE DEF r
<1> QED
    BY <1>1, <1>6, <1>7, OkuKorur

LEMMA KatilimciYazKorur ==
    ASSUME EgitimIInv, NEW i \in Istekler, KatilimciYaz(i)
    PROVE  EgitimIInv' /\ UNCHANGED test
<1> DEFINE e == istek[i].egitim
           c == istek[i].calisan
           y == Uygula(katilim[e][c], istek[i].fark)
<1>1. /\ istek[i].is = "katilim"
      /\ katilim[e][c] # Yok
      /\ katilim' = [katilim EXCEPT ![e][c] = y]
      /\ Bitti(i)
      /\ UNCHANGED <<egitim, sayac, soruVars, soru, secenek, test>>
    BY DEF KatilimciYaz, soruVars
<1>2. e \in Egitimler /\ c \in Kisiler /\ KatilimFarki(istek[i].fark)
    BY <1>1 DEF EgitimIInv, EgitimHazir
<1>3. y \in KatilimSatiri
    BY <1>1, <1>2, KatilimUygula DEF EgitimIInv, EgitimTypeOK
<1>4. EgitimTypeOK'
    <2> HIDE DEF y
    <2> QED
        BY <1>1, <1>2, <1>3 DEF EgitimIInv, EgitimTypeOK
<1>5. istek[i] # Bos
    BY <1>1 DEF Bos
<1> QED
    BY <1>1, <1>4, <1>5, YazKorurEgitim

LEMMA KatilimciSilKorur ==
    ASSUME EgitimIInv, NEW e \in Egitimler, NEW c \in Kisiler, KatilimciSil(e, c)
    PROVE  EgitimIInv' /\ UNCHANGED test
<1>1. /\ katilim' = [katilim EXCEPT ![e][c] = Yok]
      /\ UNCHANGED <<egitim, sayac, soruVars, soru, secenek, test, oturum>>
    BY DEF KatilimciSil, soruVars
<1>2. EgitimTypeOK'
    BY <1>1 DEF EgitimIInv, EgitimTypeOK
<1> QED
    BY <1>1, <1>2, AtomikKorur

LEMMA EgitimlerKorur == EgitimIInv /\ EgitimlerNext => EgitimIInv' /\ UNCHANGED test
BY EgitimEkleKorur, EgitimDuzenleOkuKorur, EgitimDurumOkuKorur, EgitimYazKorur,
   EgitimBirakKorur DEF EgitimlerNext

LEMMA KatilimKorur == EgitimIInv /\ KatilimNext => EgitimIInv' /\ UNCHANGED test
BY EgitimEkleKorur, KatilimciSilKorur, KatilimciEkleOkuKorur, KatilimciEkleKorur,
   KatilimciDurumOkuKorur, KatilimciYazKorur, EgitimBirakKorur DEF KatilimNext, TopluKatilimciOku

-----------------------------------------------------------------------------
(* The bank of questions.                                                  *)

LEMMA YeniFormNo ==
    ASSUME EgitimTypeOK, sayac.form < MaxForm, YeniForm
    PROVE  /\ sayac' \in [katilim : 0..MaxKayit, form : 0..MaxForm]
           /\ sayac'.form \in 1..MaxForm
<1> MaxForm \in Nat
    BY EgitimAssumption
<1> QED
    BY DEF EgitimTypeOK, YeniForm

\* No handler edits a question that is not there yet.
LEMMA SoruEkleKorur ==
    ASSUME EgitimIInv, NEW s \in Sorular, SoruEkle(s)
    PROVE  EgitimIInv' /\ UNCHANGED test
<1> DEFINE f == sayac'.form
           r == [form |-> f, silindi |-> FALSE]
           o == [form |-> f, metinli |-> TRUE]
<1>1. /\ soru[s] = Yok
      /\ soru' = [soru EXCEPT ![s] = r]
      /\ secenek' = [secenek EXCEPT ![s] = {o}]
      /\ UNCHANGED <<egitim, katilim, test, oturum>>
    BY DEF SoruEkle, katilimVars
<1>2. sayac' \in [katilim : 0..MaxKayit, form : 0..MaxForm] /\ f \in 1..MaxForm
    BY YeniFormNo DEF SoruEkle, EgitimIInv
<1>3. r \in SoruSatiri /\ o \in SecenekSatiri /\ r # Yok
    BY <1>2, SatirlarYokDegil DEF SoruSatiri, SecenekSatiri
<1> HIDE DEF r, o, f
<1>4. EgitimTypeOK'
    BY <1>1, <1>2, <1>3 DEF EgitimIInv, EgitimTypeOK
<1>5. IstekSahipli' /\ istek' = istek /\ Sirali' = Sirali
    BY <1>1, OturumDurur DEF EgitimIInv
<1>6. /\ secenek'[s] = {o}
      /\ soru'[s] # Yok
      /\ \A q \in Sorular \ {s} : secenek'[q] = secenek[q] /\ soru'[q] = soru[q]
    BY <1>1, <1>3 DEF EgitimIInv, EgitimTypeOK
<1>7. \A j \in Istekler : EgitimHazir(j)' /\ TestHazir(j)'
    BY <1>1, <1>5, EgitimHazirKalir, TestHazirKalir DEF EgitimIInv
<1>8. \A j \in Istekler : SoruHazir(j)'
    <2> SUFFICES ASSUME NEW j \in Istekler, istek[j].is = "soru"
                 PROVE  SoruHazir(j)'
        BY <1>5 DEF SoruHazir
    <2>1. SoruHazir(j) /\ istek[j].soru \in Sorular /\ istek[j].soru # s
        BY <1>1 DEF EgitimIInv, SoruHazir
    <2> QED
        BY <1>5, <1>6, <2>1 DEF SoruHazir, Metinliler
<1>9. TekKilit'
    BY <1>5, TekKilitKalir DEF EgitimIInv
<1>10. TekForm'
    BY <1>5, <1>6 DEF EgitimIInv, TekForm, Metinliler
<1> QED
    BY <1>1, <1>4, <1>5, <1>7, <1>8, <1>9, <1>10 DEF EgitimIInv

LEMMA SoruSilKorur ==
    ASSUME EgitimIInv, NEW s \in Sorular, SoruSil(s)
    PROVE  EgitimIInv' /\ UNCHANGED test
<1> DEFINE r == [soru[s] EXCEPT !.silindi = TRUE]
<1>1. /\ soru[s] # Yok
      /\ soru' = [soru EXCEPT ![s] = r]
      /\ UNCHANGED <<egitim, katilim, sayac, secenek, test, oturum>>
    BY DEF SoruSil, katilimVars
<1>2. r \in SoruSatiri /\ r # Yok
    BY <1>1, SatirlarYokDegil DEF EgitimIInv, EgitimTypeOK, SoruSatiri
<1> HIDE DEF r
<1>3. EgitimTypeOK'
    BY <1>1, <1>2 DEF EgitimIInv, EgitimTypeOK
<1>4. \A q \in Sorular : soru[q] # Yok => soru'[q] # Yok
    BY <1>1, <1>2 DEF EgitimIInv, EgitimTypeOK
<1>5. IstekSahipli' /\ istek' = istek /\ Sirali' = Sirali
    BY <1>1, OturumDurur DEF EgitimIInv
<1>6. \A j \in Istekler : EgitimHazir(j)' /\ TestHazir(j)'
    BY <1>1, <1>5, EgitimHazirKalir, TestHazirKalir DEF EgitimIInv
<1>7. \A j \in Istekler : SoruHazir(j)'
    BY <1>1, <1>4, <1>5 DEF EgitimIInv, SoruHazir, Metinliler
<1>8. TekKilit' /\ TekForm'
    BY <1>1, <1>5, TekKilitKalir, TekFormKalir DEF EgitimIInv
<1> QED
    BY <1>1, <1>3, <1>5, <1>6, <1>7, <1>8 DEF EgitimIInv

\* The DELETE finds all options there are, and an edit that writes the question no other
\* such edit.
LEMMA SoruDuzenleSilKorur ==
    ASSUME EgitimIInv, NEW i \in Istekler, NEW s \in Sorular, NEW metinli \in BOOLEAN,
           SoruDuzenleSil(i, s, metinli)
    PROVE  EgitimIInv' /\ UNCHANGED test
<1> DEFINE f == sayac'.form
           r == [is |-> "soru", soru |-> s, metinli |-> metinli, form |-> f,
                 silinen |-> secenek[s]]
<1>1. /\ soru[s] # Yok
      /\ metinli => ~Kilitli(s)
      /\ Basla(i, r)
      /\ UNCHANGED <<egitim, katilim, soru, secenek, soruVars, test>>
    BY DEF SoruDuzenleSil, katilimVars, soruVars
<1>2. sayac' \in [katilim : 0..MaxKayit, form : 0..MaxForm] /\ f \in 1..MaxForm
    BY YeniFormNo DEF SoruDuzenleSil, EgitimIInv
<1>3. /\ IstekSahipli'
      /\ istek'[i] = r
      /\ Sirali' = Sirali
      /\ \A j \in Istekler \ {i} : istek'[j] = istek[j]
    <2> HIDE DEF r
    <2> QED
        BY <1>1, BaslaSonuc DEF EgitimIInv
<1>4. EgitimTypeOK'
    BY <1>1, <1>2 DEF EgitimIInv, EgitimTypeOK
<1>5. \A j \in Istekler \ {i} : EgitimHazir(j)' /\ SoruHazir(j)' /\ TestHazir(j)'
    BY <1>1, <1>3, EgitimHazirKalir, SoruHazirKalir, TestHazirKalir DEF EgitimIInv
<1>6. EgitimHazir(i)' /\ TestHazir(i)'
    BY <1>3 DEF EgitimHazir, TestHazir
<1>7. SoruHazir(i)'
    BY <1>1, <1>2, <1>3 DEF SoruHazir, Metinliler
<1>8. TekKilit'
    <2> SUFFICES ASSUME NEW j \in Istekler \ {i}, metinli, istek[j].is = "soru",
                        istek[j].metinli, istek[j].soru = s
                 PROVE  FALSE
        BY <1>3 DEF EgitimIInv, TekKilit
    <2> QED
        BY <1>1 DEF Kilitli
<1>9. TekForm'
    BY <1>1, <1>3, TekFormKalir DEF EgitimIInv
<1> QED
    BY <1>1, <1>3, <1>4, <1>5, <1>6, <1>7, <1>8, <1>9 DEF EgitimIInv

\* Of the options that its question has then, a commit leaves none of a form that changed
\* the question; with one thread, none.
LEMMA SoruDuzenleYazKorur ==
    ASSUME EgitimIInv, NEW i \in Istekler, SoruDuzenleYaz(i)
    PROVE  EgitimIInv' /\ UNCHANGED test
<1>0. PICK r, s : r = istek[i] /\ s = r.soru
    OBVIOUS
<1> DEFINE o == [form |-> r.form, metinli |-> r.metinli]
<1>1. /\ r.is = "soru"
      /\ soru' = IF r.metinli THEN [soru EXCEPT ![s].form = r.form] ELSE soru
      /\ secenek' = [secenek EXCEPT ![s] = (@ \ r.silinen) \cup {o}]
      /\ Bitti(i)
      /\ UNCHANGED <<egitim, katilim, sayac, test>>
    BY <1>0 DEF SoruDuzenleYaz, katilimVars
<1>2. /\ s \in Sorular /\ soru[s] \in SoruSatiri
      /\ r.form \in 1..MaxForm /\ r.metinli \in BOOLEAN
      /\ r.metinli => Metinliler(s) \subseteq r.silinen
      /\ Sirali => secenek[s] \subseteq r.silinen
    BY <1>0, <1>1 DEF EgitimIInv, SoruHazir, EgitimTypeOK
<1>3. o \in SecenekSatiri
    BY <1>2 DEF SecenekSatiri
<1>4. o.metinli = r.metinli
    OBVIOUS
<1> HIDE DEF o
<1>5. \A q \in Sorular : soru'[q] \in SoruSatiri \cup {Yok} /\ (soru[q] # Yok => soru'[q] # Yok)
    <2>1. [soru[s] EXCEPT !.form = r.form] \in SoruSatiri
        BY <1>2 DEF SoruSatiri
    <2> QED
        BY <1>1, <1>2, <2>1, SatirlarYokDegil DEF EgitimIInv, EgitimTypeOK
<1>6. /\ secenek'[s] = (secenek[s] \ r.silinen) \cup {o}
      /\ \A q \in Sorular \ {s} : secenek'[q] = secenek[q]
    BY <1>1, <1>2 DEF EgitimIInv, EgitimTypeOK
<1>7. EgitimTypeOK'
    <2>1. soru' \in [Sorular -> SoruSatiri \cup {Yok}]
        BY <1>1, <1>5 DEF EgitimIInv, EgitimTypeOK
    <2>2. secenek' \in [Sorular -> SUBSET SecenekSatiri]
        BY <1>1, <1>2, <1>3 DEF EgitimIInv, EgitimTypeOK
    <2> QED
        BY <1>1, <2>1, <2>2 DEF EgitimIInv, EgitimTypeOK
<1>8. istek[i] # Bos
    BY <1>0, <1>1 DEF Bos
<1>9. /\ IstekSahipli'
      /\ istek'[i] = Bos
      /\ Sirali' = Sirali
      /\ \A j \in Istekler \ {i} : istek'[j] = istek[j] /\ (Sirali => istek[j] = Bos)
    BY <1>1, <1>8, BittiSonuc DEF EgitimIInv
<1>10. \A j \in Istekler : EgitimHazir(j)' /\ TestHazir(j)'
    BY <1>1, <1>9, BosHazir, EgitimHazirKalir, TestHazirKalir DEF EgitimIInv
<1>11. ASSUME NEW j \in Istekler
       PROVE  SoruHazir(j)'
    <2>1. CASE j = i \/ istek[j].is # "soru"
        BY <1>9, <2>1, BosHazir DEF SoruHazir
    <2>2. CASE j # i /\ istek[j].is = "soru"
        <3>1. SoruHazir(j) /\ istek'[j] = istek[j] /\ ~Sirali
            BY <1>9, <2>2 DEF EgitimIInv, Bos
        <3>2. PICK p : p = istek[j]
            OBVIOUS
        <3>3. p.soru \in Sorular /\ soru[p.soru] # Yok /\ p.form \in 1..MaxForm
              /\ p.metinli \in BOOLEAN /\ (p.metinli => Metinliler(p.soru) \subseteq p.silinen)
            BY <2>2, <3>1, <3>2 DEF SoruHazir
        <3>4. p.metinli => Metinliler(p.soru)' \subseteq p.silinen
            <4>1. CASE p.soru # s
                BY <1>6, <3>3, <4>1 DEF Metinliler
            <4>2. CASE p.soru = s /\ p.metinli
                <5>1. ~r.metinli
                    BY <1>0, <1>1, <2>2, <3>2, <4>2 DEF EgitimIInv, TekKilit
                <5> QED
                    BY <1>4, <1>6, <3>3, <4>2, <5>1 DEF Metinliler
            <4> QED
                BY <4>1, <4>2
        <3> QED
            BY <1>5, <1>9, <3>1, <3>2, <3>3, <3>4 DEF SoruHazir, Metinliler
    <2> QED
        BY <2>1, <2>2
<1>12. TekKilit'
    BY <1>9, TekKilitKalir DEF EgitimIInv, Bos
<1>13. TekForm'
    <2> SUFFICES ASSUME NEW q \in Sorular
                 PROVE  /\ \A x, y \in Metinliler(q)' : x = y
                        /\ Sirali => \A x, y \in secenek'[q] : x = y
        BY <1>9 DEF TekForm
    <2>1. CASE q # s
        BY <1>6, <2>1 DEF EgitimIInv, TekForm, Metinliler
    <2>2. CASE q = s
        <3>1. \A x, y \in Metinliler(q)' : x = y
            <4>1. CASE r.metinli
                BY <1>2, <1>6, <2>2, <4>1 DEF Metinliler
            <4>2. CASE ~r.metinli
                BY <1>4, <1>6, <2>2, <4>2 DEF EgitimIInv, TekForm, Metinliler
            <4> QED
                BY <4>1, <4>2
        <3>2. Sirali => \A x, y \in secenek'[q] : x = y
            BY <1>2, <1>6, <2>2
        <3> QED
            BY <3>1, <3>2
    <2> QED
        BY <2>1, <2>2
<1> QED
    BY <1>1, <1>7, <1>9, <1>10, <1>11, <1>12, <1>13 DEF EgitimIInv

LEMMA SoruKorur == EgitimIInv /\ SoruNext => EgitimIInv' /\ UNCHANGED test
BY SoruEkleKorur, SoruSilKorur, SoruDuzenleSilKorur, SoruDuzenleYazKorur, EgitimBirakKorur
   DEF SoruNext

-----------------------------------------------------------------------------
(* Tests.                                                                  *)

\* What SonaEklenir says of a step.
EklemeAdimi ==
    \A t \in Testler :
         LET eskiler == TesttekiSorular(t)
             yeniler == TesttekiSorular(t)' \ eskiler
         IN  Sirali => \A y \in yeniler :
               /\ \A s \in eskiler : test'[t][s] < test'[t][y]
               /\ \A z \in yeniler : test'[t][z] = test'[t][y] => z = y

TestSatiri == [Sorular -> (0..MaxSira) \cup {Yok}]

LEMMA TestSatiriYokDegil == \A x \in TestSatiri : x # Yok
<1>1. TestSatiri \subseteq [Sorular -> Nat \cup {Yok}]
    BY DEF TestSatiri
<1> QED
    BY <1>1, EgitimAssumption

LEMMA TestTuru ==
    ASSUME EgitimTypeOK, NEW t \in Testler
    PROVE  /\ test[t] # Yok => test[t] \in TestSatiri
           /\ TesttekiSorular(t) \subseteq Sorular
           /\ \A s \in TesttekiSorular(t) : test[t][s] \in 0..MaxSira
<1>1. test[t] \in TestSatiri \cup {Yok}
    BY DEF EgitimTypeOK, TestSatiri
<1>2. \A s \in TesttekiSorular(t) : s \in Sorular /\ test[t] # Yok /\ test[t][s] # Yok
    BY DEF TesttekiSorular
<1> QED
    BY <1>1, <1>2 DEF TestSatiri

\* The last number of a test.
LEMMA SonSiraEnBuyuk ==
    ASSUME EgitimTypeOK, NEW t \in Testler
    PROVE  SonSira(t) \in Nat /\ \A s \in TesttekiSorular(t) : test[t][s] <= SonSira(t)
<1> DEFINE S == {0} \cup {test[t][s] : s \in TesttekiSorular(t)}
<1>1. MaxSira \in Nat
    BY EgitimAssumption
<1>2. S \subseteq 0..MaxSira /\ 0 \in S
    BY <1>1, TestTuru
<1>3. S \in SUBSET Nat /\ IsFiniteSet(S) /\ S # {}
    <2> HIDE DEF S
    <2> QED
        BY <1>1, <1>2, FS_BoundedSetOfNaturals
<1>4. Max(S) \in S /\ \A y \in S : y <= Max(S)
    <2> HIDE DEF S
    <2> QED
        BY <1>3, EnBuyuk
<1>5. SonSira(t) = Max(S)
    BY DEF SonSira
<1>6. \A s \in TesttekiSorular(t) : test[t][s] \in S
    OBVIOUS
<1> HIDE DEF S
<1> QED
    BY <1>3, <1>4, <1>5, <1>6

\* The places of the members of a list, from 1 to the number of questions at most.
LEMMA ListeYeri ==
    ASSUME NEW liste \in SetToAllKPermutations(Sorular)
    PROVE  /\ ToSet(liste) \subseteq Sorular
           /\ IsFiniteSet(ToSet(liste))
           /\ Cardinality(Sorular) \in Nat
           /\ DOMAIN liste \subseteq 1..Cardinality(Sorular)
           /\ \A s \in Sorular : Contains(liste, s) => s \in ToSet(liste)
<1>1. PICK S \in SUBSET Sorular : liste \in [1..Cardinality(S) -> S]
    BY DEF SetToAllKPermutations, SetToSeqs
<1>2. IsFiniteSet(S) /\ Cardinality(S) \in Nat /\ Cardinality(Sorular) \in Nat
      /\ Cardinality(S) <= Cardinality(Sorular)
    BY EgitimAssumption, FS_Subset, FS_CardinalityType
<1>3. ToSet(liste) \in SUBSET S
    BY <1>1 DEF ToSet
<1>4. IsFiniteSet(ToSet(liste))
    BY <1>2, <1>3, FS_Subset
<1>5. DOMAIN liste = 1..Cardinality(S) /\ Len(liste) = Cardinality(S)
    BY <1>1, <1>2
<1> QED
    BY <1>2, <1>3, <1>4, <1>5 DEF Contains, ToSet

\* A step that is no handler's, or the end of one, and that changes the tests only: what
\* it must show.
LEMMA TestDegisir ==
    ASSUME EgitimIInv, IstekSahipli', Sirali' = Sirali,
           UNCHANGED <<egitim, katilim, sayac, soru, secenek>>,
           test' \in [Testler -> TestSatiri \cup {Yok}],
           \A j \in Istekler : istek'[j] = istek[j] \/ istek'[j] = Bos,
           \A j \in Istekler : istek'[j] = istek[j] => TestHazir(j)'
    PROVE  EgitimIInv'
<1>1. EgitimTypeOK'
    BY DEF EgitimIInv, EgitimTypeOK, TestSatiri
<1>2. \A j \in Istekler : EgitimHazir(j)' /\ SoruHazir(j)' /\ TestHazir(j)'
    BY BosHazir, EgitimHazirKalir, SoruHazirKalir DEF EgitimIInv, soruVars
<1>3. TekKilit'
    BY TekKilitKalir DEF EgitimIInv, Bos
<1>4. TekForm'
    BY TekFormKalir DEF EgitimIInv
<1> QED
    BY <1>1, <1>2, <1>3, <1>4 DEF EgitimIInv

\* No handler works on a test that is not there yet.
LEMMA TestEkleKorur ==
    ASSUME EgitimIInv, NEW t \in Testler, TestEkle(t)
    PROVE  EgitimIInv' /\ EklemeAdimi
<1> DEFINE bos == [s \in Sorular |-> Yok]
<1>1. /\ test[t] = Yok
      /\ test' = [test EXCEPT ![t] = bos]
      /\ UNCHANGED <<egitim, katilim, sayac, soru, secenek, oturum>>
    BY DEF TestEkle, katilimVars, soruVars
<1>2. bos \in TestSatiri /\ \A s \in Sorular : bos[s] = Yok
    BY DEF TestSatiri
<1> HIDE DEF bos
<1>3. /\ test'[t] = bos
      /\ \A u \in Testler \ {t} : test'[u] = test[u]
      /\ test' \in [Testler -> TestSatiri \cup {Yok}]
    BY <1>1, <1>2 DEF EgitimIInv, EgitimTypeOK, TestSatiri
<1>4. IstekSahipli' /\ istek' = istek /\ Sirali' = Sirali
    BY <1>1, OturumDurur DEF EgitimIInv
<1>5. ASSUME NEW j \in Istekler
      PROVE  TestHazir(j)'
    <2>1. CASE istek[j].is \in {"test_ekle", "test_sirala"}
        <3>1. istek[j].test \in Testler \ {t} /\ TestHazir(j)
            BY <1>1, <2>1 DEF EgitimIInv, TestHazir
        <3>2. test'[istek[j].test] = test[istek[j].test]
            BY <1>3, <3>1
        <3> QED
            BY <1>4, <3>1, <3>2 DEF TestHazir, TesttekiSorular
    <2>2. CASE istek[j].is \notin {"test_ekle", "test_sirala"}
        BY <1>4, <2>2 DEF TestHazir
    <2> QED
        BY <2>1, <2>2
<1>6. EgitimIInv'
    BY <1>1, <1>3, <1>4, <1>5, TestDegisir
<1>7. \A u \in Testler : TesttekiSorular(u)' \subseteq TesttekiSorular(u)
    BY <1>2, <1>3 DEF TesttekiSorular
<1> QED
    BY <1>6, <1>7 DEF EklemeAdimi

LEMMA TestSoruCikarKorur ==
    ASSUME EgitimIInv, NEW t \in Testler, NEW q \in Sorular, TestSoruCikar(t, q)
    PROVE  EgitimIInv' /\ EklemeAdimi
<1> DEFINE x == [test[t] EXCEPT ![q] = Yok]
<1>1. /\ q \in TesttekiSorular(t)
      /\ test' = [test EXCEPT ![t] = x]
      /\ UNCHANGED <<egitim, katilim, sayac, soru, secenek, oturum>>
    BY DEF TestSoruCikar, katilimVars, soruVars
<1>2. test[t] # Yok /\ test[t] \in TestSatiri
    BY <1>1, TestTuru DEF EgitimIInv, TesttekiSorular
<1>3. /\ x \in TestSatiri /\ x # Yok
      /\ \A s \in Sorular : x[s] = test[t][s] \/ x[s] = Yok
    BY <1>2, TestSatiriYokDegil DEF TestSatiri
<1> HIDE DEF x
<1>4. /\ test'[t] = x
      /\ \A u \in Testler \ {t} : test'[u] = test[u]
      /\ test' \in [Testler -> TestSatiri \cup {Yok}]
    BY <1>1, <1>3 DEF EgitimIInv, EgitimTypeOK, TestSatiri
<1>5. IstekSahipli' /\ istek' = istek /\ Sirali' = Sirali
    BY <1>1, OturumDurur DEF EgitimIInv
<1>6. \A u \in Testler : /\ test[u] # Yok => test'[u] # Yok
                         /\ TesttekiSorular(u)' \subseteq TesttekiSorular(u)
                         /\ \A s \in TesttekiSorular(u)' : test'[u][s] = test[u][s]
    BY <1>2, <1>3, <1>4 DEF TesttekiSorular
<1>7. ASSUME NEW j \in Istekler
      PROVE  TestHazir(j)'
    <2>1. TestHazir(j)
        BY DEF EgitimIInv
    <2> QED
        BY <1>5, <1>6, <2>1 DEF TestHazir
<1>8. EgitimIInv'
    BY <1>1, <1>4, <1>5, <1>7, TestDegisir
<1> QED
    BY <1>6, <1>8 DEF EklemeAdimi

\* The numbers it will give are its own, and above those of the test.
LEMMA TestSoruEkleOkuKorur ==
    ASSUME EgitimIInv, NEW i \in Istekler, NEW t \in Testler,
           NEW liste \in SetToAllKPermutations(Sorular), TestSoruEkleOku(i, t, liste)
    PROVE  EgitimIInv' /\ UNCHANGED test
<1> DEFINE N == ToSet(liste) \ TesttekiSorular(t)
           yeri(s) == CHOOSE k \in DOMAIN liste : liste[k] = s
           yer == [s \in N |-> yeri(s)]
           kacinci(s) == Cardinality({z \in N : yeri(z) <= yeri(s)})
           sira == [s \in N |-> SonSira(t) + kacinci(s)]
           r == [is |-> "test_ekle", test |-> t, sira |-> sira]
<1>1. /\ test[t] # Yok
      /\ SonSira(t) + Cardinality(N) <= MaxSira
      /\ Basla(i, r)
      /\ UNCHANGED egitimVars /\ test' = test
    BY DEF TestSoruEkleOku, egitimVars
<1>2. /\ IsFiniteSet(N) /\ N \subseteq Sorular
      /\ \A s \in N : yeri(s) \in DOMAIN liste /\ liste[yeri(s)] = s
      /\ DOMAIN liste \subseteq Nat
    <2>1. N \in SUBSET ToSet(liste) /\ IsFiniteSet(ToSet(liste)) /\ ToSet(liste) \subseteq Sorular
          /\ DOMAIN liste \subseteq Nat
        BY ListeYeri
    <2>2. IsFiniteSet(N) /\ N \subseteq Sorular
        <3> HIDE DEF N
        <3> QED
            BY <2>1, FS_Subset
    <2>3. \A s \in N : \E k \in DOMAIN liste : liste[k] = s
        BY DEF ToSet
    <2> HIDE DEF N
    <2> QED
        BY <2>1, <2>2, <2>3
<1>3. yer \in [N -> Nat] /\ \A y, z \in N : yer[y] = yer[z] => y = z
    <2> HIDE DEF N, yeri
    <2> QED
        BY <1>2
<1>4. /\ Cardinality(N) \in Nat
      /\ \A y \in N : Cardinality({z \in N : yer[z] <= yer[y]}) \in 1..Cardinality(N)
      /\ \A y, z \in N : Cardinality({w \in N : yer[w] <= yer[y]})
                          = Cardinality({w \in N : yer[w] <= yer[z]}) => y = z
    <2> HIDE DEF N, yer
    <2> QED
        BY <1>2, <1>3, SiraSayisi
<1>5. \A y \in N : {z \in N : yer[z] <= yer[y]} = {z \in N : yeri(z) <= yeri(y)}
    <2> HIDE DEF N, yeri
    <2> QED
        OBVIOUS
<1>6. /\ Cardinality(N) \in Nat
      /\ \A y \in N : kacinci(y) \in 1..Cardinality(N)
      /\ \A y, z \in N : kacinci(y) = kacinci(z) => y = z
    <2> HIDE DEF N, yer, yeri
    <2> QED
        BY <1>4, <1>5
<1>7. SonSira(t) \in Nat /\ \A s \in TesttekiSorular(t) : test[t][s] \in Nat /\ test[t][s] <= SonSira(t)
    BY SonSiraEnBuyuk, TestTuru DEF EgitimIInv
<1>8. /\ DOMAIN sira = N
      /\ \A s \in N : sira[s] = SonSira(t) + kacinci(s)
    <2> HIDE DEF N, kacinci
    <2> QED
        OBVIOUS
<1>9. /\ sira = [s \in DOMAIN sira |-> sira[s]]
      /\ \A s \in DOMAIN sira : sira[s] \in 0..MaxSira
      /\ \A y, z \in DOMAIN sira : sira[y] = sira[z] => y = z
      /\ \A s \in TesttekiSorular(t), y \in DOMAIN sira : test[t][s] < sira[y]
    <2> MaxSira \in Nat
        BY EgitimAssumption
    <2>1. sira = [s \in DOMAIN sira |-> sira[s]]
        <3> HIDE DEF N, kacinci
        <3> QED
            OBVIOUS
    <2> HIDE DEF N, kacinci, sira
    <2>2. \A s \in N : /\ sira[s] = SonSira(t) + kacinci(s)
                       /\ kacinci(s) \in Nat /\ kacinci(s) >= 1 /\ kacinci(s) <= Cardinality(N)
        BY <1>6, <1>8
    <2>3. \A s \in N : sira[s] \in 0..MaxSira
        BY <1>1, <1>6, <1>7, <2>2
    <2>4. \A y, z \in N : sira[y] = sira[z] => y = z
        BY <1>6, <1>7, <2>2
    <2>5. \A s \in TesttekiSorular(t), y \in N : test[t][s] < sira[y]
        BY <1>7, <2>2
    <2> QED
        BY <1>8, <2>1, <2>3, <2>4, <2>5
<1> HIDE DEF sira
<1>10. istek'[i] = r
    <2> HIDE DEF r
    <2> QED
        BY <1>1, BaslaSonuc DEF EgitimIInv
<1>11. (EgitimHazir(i) /\ TestHazir(i))'
    <2>1. istek'[i].is = "test_ekle" /\ istek'[i].test = t /\ istek'[i].sira = sira
        BY <1>10
    <2> QED
        BY <1>1, <1>9, <2>1 DEF EgitimHazir, TestHazir, TesttekiSorular
<1>12. r.is # "soru"
    OBVIOUS
<1> HIDE DEF r
<1> QED
    BY <1>1, <1>11, <1>12, OkuKorur

\* With one thread, the test has not changed since the numbers were chosen.
LEMMA TestSoruEkleKorur ==
    ASSUME EgitimIInv, NEW i \in Istekler, TestSoruEkle(i)
    PROVE  EgitimIInv' /\ EklemeAdimi
<1>0. PICK t, sira : t = istek[i].test /\ sira = istek[i].sira
    OBVIOUS
<1> DEFINE x == [s \in Sorular |-> IF s \in DOMAIN sira THEN sira[s] ELSE test[t][s]]
<1>1. /\ istek[i].is = "test_ekle"
      /\ DOMAIN sira \cap TesttekiSorular(t) = {}
      /\ test' = [test EXCEPT ![t] = x]
      /\ Bitti(i)
      /\ UNCHANGED <<egitim, katilim, sayac, soru, secenek>>
    BY <1>0 DEF TestSoruEkle, katilimVars, soruVars
<1>2. /\ t \in Testler /\ test[t] # Yok
      /\ \A s \in DOMAIN sira : sira[s] \in 0..MaxSira
      /\ \A y, z \in DOMAIN sira : sira[y] = sira[z] => y = z
      /\ Sirali => \A s \in TesttekiSorular(t), y \in DOMAIN sira : test[t][s] < sira[y]
    BY <1>0, <1>1 DEF EgitimIInv, TestHazir
<1>3. test[t] \in TestSatiri
    BY <1>2, TestTuru DEF EgitimIInv
<1>4. x \in TestSatiri /\ x # Yok
    <2>1. x \in TestSatiri
        BY <1>2, <1>3 DEF TestSatiri
    <2> HIDE DEF x
    <2> QED
        BY <2>1, TestSatiriYokDegil
<1>5. \A s \in Sorular : x[s] = IF s \in DOMAIN sira THEN sira[s] ELSE test[t][s]
    OBVIOUS
<1> HIDE DEF x
<1>6. /\ test'[t] = x
      /\ \A u \in Testler \ {t} : test'[u] = test[u]
      /\ test' \in [Testler -> TestSatiri \cup {Yok}]
    BY <1>1, <1>2, <1>4 DEF EgitimIInv, EgitimTypeOK, TestSatiri
<1>7. istek[i] # Bos
    BY <1>1 DEF Bos
<1>8. /\ IstekSahipli'
      /\ istek'[i] = Bos
      /\ Sirali' = Sirali
      /\ \A j \in Istekler \ {i} : istek'[j] = istek[j] /\ (Sirali => istek[j] = Bos)
    BY <1>1, <1>7, BittiSonuc DEF EgitimIInv
<1>9. ASSUME NEW j \in Istekler, istek'[j] = istek[j]
      PROVE  TestHazir(j)'
    <2>1. TestHazir(j) /\ (Sirali => istek[j] = Bos)
        BY <1>7, <1>8, <1>9 DEF EgitimIInv
    <2>2. istek[j].is \in {"test_ekle", "test_sirala"} => test'[istek[j].test] # Yok
        BY <1>4, <1>6, <2>1 DEF TestHazir
    <2> QED
        BY <1>8, <1>9, <2>1, <2>2 DEF TestHazir, Bos
<1>10. EgitimIInv'
    BY <1>1, <1>6, <1>8, <1>9, TestDegisir
<1>11. ASSUME NEW u \in Testler, Sirali
       PROVE  \A y \in TesttekiSorular(u)' \ TesttekiSorular(u) :
                 /\ \A s \in TesttekiSorular(u) : test'[u][s] < test'[u][y]
                 /\ \A z \in TesttekiSorular(u)' \ TesttekiSorular(u) :
                       test'[u][z] = test'[u][y] => z = y
    <2>1. CASE u # t
        BY <1>6, <2>1 DEF TesttekiSorular
    <2>2. CASE u = t
        <3>1. \A y \in TesttekiSorular(t)' \ TesttekiSorular(t) :
                 y \in Sorular /\ y \in DOMAIN sira /\ test'[t][y] = sira[y]
            BY <1>2, <1>5, <1>6 DEF TesttekiSorular
        <3>2. \A s \in TesttekiSorular(t) : test'[t][s] = test[t][s]
            BY <1>1, <1>5, <1>6 DEF TesttekiSorular
        <3> QED
            BY <1>2, <1>11, <2>2, <3>1, <3>2
    <2> QED
        BY <2>1, <2>2
<1> QED
    BY <1>10, <1>11 DEF EklemeAdimi

LEMMA TestSiralaOkuKorur ==
    ASSUME EgitimIInv, NEW i \in Istekler, NEW t \in Testler,
           NEW liste \in SetToAllKPermutations(Sorular), TestSiralaOku(i, t, liste)
    PROVE  EgitimIInv' /\ UNCHANGED test
<1> DEFINE gelen == {s \in TesttekiSorular(t) : Contains(liste, s)}
           yeri(s) == CHOOSE k \in DOMAIN liste : liste[k] = s
           sira == [s \in gelen |-> yeri(s) - 1]
           r == [is |-> "test_sirala", test |-> t, fark |-> Fark(test[t], sira)]
<1>1. test[t] # Yok /\ Basla(i, r) /\ UNCHANGED egitimVars /\ test' = test
    BY DEF TestSiralaOku, egitimVars
<1>2. \A s \in gelen : sira[s] \in 0..MaxSira
    <2>1. \A s \in gelen : s \in ToSet(liste)
        BY ListeYeri, TestTuru DEF EgitimIInv
    <2>2. \A s \in gelen : yeri(s) \in DOMAIN liste
        BY <2>1 DEF ToSet
    <2>3. DOMAIN liste \subseteq 1..Cardinality(Sorular) /\ Cardinality(Sorular) \in Nat
          /\ MaxSira \in Nat /\ Cardinality(Sorular) <= MaxSira
        BY ListeYeri, EgitimAssumption
    <2> HIDE DEF gelen, yeri
    <2>4. \A s \in gelen : yeri(s) - 1 \in 0..MaxSira
        BY <2>2, <2>3
    <2> QED
        BY <2>4
<1>3. \A s \in DOMAIN Fark(test[t], sira) : Fark(test[t], sira)[s] \in 0..MaxSira
    <2>1. DOMAIN sira = gelen
        OBVIOUS
    <2> HIDE DEF gelen, sira
    <2> QED
        BY <1>2, <2>1 DEF Fark
<1>4. istek'[i] = r
    <2> HIDE DEF r
    <2> QED
        BY <1>1, BaslaSonuc DEF EgitimIInv
<1>5. (EgitimHazir(i) /\ TestHazir(i))'
    <2>1. PICK f : f = Fark(test[t], sira)
        OBVIOUS
    <2>2. istek'[i].is = "test_sirala" /\ istek'[i].test = t /\ istek'[i].fark = f
        <3> HIDE DEF sira
        <3> QED
            BY <1>4, <2>1
    <2>3. \A s \in DOMAIN f : f[s] \in 0..MaxSira
        BY <1>3, <2>1
    <2> QED
        BY <1>1, <2>2, <2>3 DEF EgitimHazir, TestHazir
<1>6. r.is # "soru"
    OBVIOUS
<1> HIDE DEF r
<1> QED
    BY <1>1, <1>5, <1>6, OkuKorur

\* A reordering adds no question.
LEMMA TestSiralaKorur ==
    ASSUME EgitimIInv, NEW i \in Istekler, TestSirala(i)
    PROVE  EgitimIInv' /\ EklemeAdimi
<1>0. PICK t, f : t = istek[i].test /\ f = istek[i].fark
    OBVIOUS
<1> DEFINE x == Uygula(test[t], f)
<1>1. /\ istek[i].is = "test_sirala"
      /\ DOMAIN f \subseteq TesttekiSorular(t)
      /\ test' = [test EXCEPT ![t] = x]
      /\ Bitti(i)
      /\ UNCHANGED <<egitim, katilim, sayac, soru, secenek>>
    BY <1>0 DEF TestSirala, katilimVars, soruVars
<1>2. t \in Testler /\ test[t] # Yok /\ \A s \in DOMAIN f : f[s] \in 0..MaxSira
    BY <1>0, <1>1 DEF EgitimIInv, TestHazir
<1>3. test[t] \in TestSatiri
    BY <1>2, TestTuru DEF EgitimIInv
<1>4. /\ x \in TestSatiri
      /\ \A s \in Sorular : x[s] = IF s \in DOMAIN f THEN f[s] ELSE test[t][s]
    BY <1>2, <1>3 DEF TestSatiri, Uygula
<1> HIDE DEF x
<1>5. x # Yok
    BY <1>4, TestSatiriYokDegil
<1>6. /\ test'[t] = x
      /\ \A u \in Testler \ {t} : test'[u] = test[u]
      /\ test' \in [Testler -> TestSatiri \cup {Yok}]
    BY <1>1, <1>2, <1>4 DEF EgitimIInv, EgitimTypeOK, TestSatiri
<1>7. istek[i] # Bos
    BY <1>1 DEF Bos
<1>8. /\ IstekSahipli'
      /\ istek'[i] = Bos
      /\ Sirali' = Sirali
      /\ \A j \in Istekler \ {i} : istek'[j] = istek[j] /\ (Sirali => istek[j] = Bos)
    BY <1>1, <1>7, BittiSonuc DEF EgitimIInv
<1>9. ASSUME NEW j \in Istekler, istek'[j] = istek[j]
      PROVE  TestHazir(j)'
    <2>1. TestHazir(j) /\ (Sirali => istek[j] = Bos)
        BY <1>7, <1>8, <1>9 DEF EgitimIInv
    <2>2. istek[j].is \in {"test_ekle", "test_sirala"} => test'[istek[j].test] # Yok
        BY <1>5, <1>6, <2>1 DEF TestHazir
    <2> QED
        BY <1>8, <1>9, <2>1, <2>2 DEF TestHazir, Bos
<1>10. EgitimIInv'
    BY <1>1, <1>6, <1>8, <1>9, TestDegisir
<1>11. \A u \in Testler : TesttekiSorular(u)' \subseteq TesttekiSorular(u)
    BY <1>1, <1>2, <1>4, <1>6 DEF TesttekiSorular
<1> QED
    BY <1>10, <1>11 DEF EklemeAdimi

LEMMA TestKorur == EgitimIInv /\ TestNext => EgitimIInv' /\ (UNCHANGED test \/ EklemeAdimi)
BY SoruEkleKorur, TestEkleKorur, TestSoruCikarKorur, TestSoruEkleOkuKorur, TestSoruEkleKorur,
   TestSiralaOkuKorur, TestSiralaKorur, EgitimBirakKorur DEF TestNext

-----------------------------------------------------------------------------
(* The theorems about trainings, questions and tests.                      *)

LEMMA EgitimBaslangic == OturumInit /\ EgitimInit => EgitimIInv
<1> SUFFICES ASSUME OturumInit, EgitimInit PROVE EgitimIInv
    OBVIOUS
<1>1. isci \subseteq Istekler /\ istek = [i \in Istekler |-> Bos]
    BY DEF OturumInit
<1>2. IstekSahipli
    BY <1>1 DEF IstekSahipli
<1>3. EgitimTypeOK
    BY EgitimAssumption DEF EgitimInit, EgitimTypeOK
<1>4. \A i \in Istekler : EgitimHazir(i) /\ SoruHazir(i) /\ TestHazir(i)
    BY <1>1 DEF Bos, EgitimHazir, SoruHazir, TestHazir
<1>5. TekKilit
    BY <1>1 DEF Bos, TekKilit
<1>6. TekForm
    BY DEF EgitimInit, TekForm, Metinliler
<1> QED
    BY <1>2, <1>3, <1>4, <1>5, <1>6 DEF EgitimIInv

LEMMA EgitimAdimi ==
    EgitimIInv /\ [EgitimNext]_<<oturum, egitimVars>> => EgitimIInv' /\ [EklemeAdimi]_test
<1>1. EgitimIInv /\ EgitimNext => EgitimIInv' /\ [EklemeAdimi]_test
    BY EgitimlerKorur, KatilimKorur, SoruKorur, TestKorur DEF EgitimNext
<1>2. EgitimIInv /\ UNCHANGED <<oturum, egitimVars>> => EgitimIInv' /\ UNCHANGED test
    BY AtomikKorur DEF egitimVars, katilimVars, soruVars, EgitimIInv, EgitimTypeOK
<1> QED
    BY <1>1, <1>2

\* Trainings, participants, questions, options and tests have the columns and values the
\* code gives them.
THEOREM EgitimTipleri == EgitimSpec => []EgitimTypeOK
<1>1. EgitimIInv => EgitimTypeOK
    BY DEF EgitimIInv
<1> QED
    BY <1>1, EgitimBaslangic, EgitimAdimi, PTL DEF EgitimSpec

LEMMA TekFormYeter == EgitimIInv => SecenekTekForm
<1> SUFFICES ASSUME EgitimIInv PROVE SecenekTekForm
    OBVIOUS
<1>1. ASSUME NEW S, \A x, y \in S : x = y
      PROVE  Cardinality(S) <= 1
    <2>1. CASE S = {}
        BY <2>1, FS_EmptySet
    <2>2. CASE S # {}
        <3>1. PICK x : S = {x}
            BY <1>1, <2>2
        <3>2. Cardinality(S) = 1
            BY <3>1, FS_Singleton
        <3> QED
            BY <3>2
    <2> QED
        BY <2>1, <2>2
<1>2. \A s \in Sorular : Cardinality(Metinliler(s)) <= 1
    BY <1>1 DEF EgitimIInv, TekForm
<1>3. Sirali => \A s \in Sorular : Cardinality(secenek[s]) <= 1
    BY <1>1 DEF EgitimIInv, TekForm
<1> QED
    BY <1>2, <1>3 DEF SecenekTekForm, Metinliler

\* However its edits overlap, a question never has the options of two forms that both
\* changed the question; with one thread, never those of two forms.
THEOREM SecenekTekFormdan == EgitimSpec => []SecenekTekForm
BY TekFormYeter, EgitimBaslangic, EgitimAdimi, PTL DEF EgitimSpec

\* With one thread, questions added to a test come after all it has, in the order of the
\* list, for any number of questions and tests.
THEOREM SonaEklenirler == EgitimSpec => SonaEklenir
BY EgitimBaslangic, EgitimAdimi, PTL DEF EgitimSpec, SonaEklenir, EklemeAdimi
=============================================================================
