# TG Portal: a TLA+ model of its processes

TG Portal is a Flask/SQLAlchemy ERP over PostgreSQL. It has no background jobs,
no queues and no messages between services: every behaviour is an HTTP request
handler that reads rows, checks guards on what it read, changes the copies and
commits. What makes it hard is that these handlers run side by side (gunicorn
with 2 workers of 4 threads, `dockerfile:31`) at PostgreSQL's default isolation
READ COMMITTED, that no query takes a lock (`with_for_update` occurs nowhere)
and no table has a version column, and that long-lived protocols (an approval, a
purchase, a hiring) are spread over many handlers whose only agreement is a text
column `durum`.

Paths below are relative to `app/`, unless they name a file of the repository's
root.

## 1. Inventory

| Part | State | Operations that change it | Interaction | What is hard | What makes it correct |
|---|---|---|---|---|---|
| Approval engine: `models/onay.py`, `modules/onay/routes.py` | flows (`onay_akislari`), steps (`onay_adimlari`), requests (`onay_talepleri`), records (`onay_kayitlari`), delegations (`yetki_devirleri`) | `talep_olustur`, `onayla`, `reddet`, `talep_iptal`, `yetki_devri_ekle`, `yetki_devri_iptal`, `admin_akis_ekle`, `admin_adim_ekle`, `admin_adim_sil` | called by expenses and purchasing; calls nobody back | flows edited while requests travel through them; steps that share a number; concurrent decisions; delegations that end | a request is approved only after all its steps, decided once, and never forgotten |
| Expenses: `models/masraf.py`, `modules/masraf/routes.py` | `masraflar` with file and approval request | `ekle`, `duzenle`, `sil`, `onaya_gonder`, `kategori_ekle` | calls `OnayServisi.talep_olustur` | two commits per submission; edit racing submission; the decision coming back; an invoice replaced on the disk before the commit | what is approved is what was submitted, with its invoice; a waiting expense has a request |
| Purchase requests: `models/satinalma.py`, `modules/satinalma/routes.py` | `satinalma_talepleri` | `talep_ekle`, `talep_onaya_gonder`, `talep_iptal` | calls `talep_olustur` | numbers made from a count; cancel racing submission | unique numbers without gaps; cancelled stays cancelled |
| Offers, orders, deliveries: same files | `satinalma_teklifleri`, `satinalma_siparisleri`, `siparis_teslimatlari` | `teklif_ekle`, `teklif_sec`, `teslimat_kaydet` | write the purchase request's `durum` | none: no handler here can be reached, see section 7 | - |
| Candidates: `models/ik.py`, `modules/basvuru`, `modules/kariyer`, `modules/ik`, `modules/proje` | `adaylar`: invitation link, consent, form, one-time code, state | `aday_davet`, `toplu_davet`, `davet_tekrar`, `kvkk_onayla`, `basvuru_form` (two blueprints each), `telefon_dogrula`, `kod_tekrar_gonder`, `aday_duzenle`, `aday_durum_degistir` (two), `aday_reddet`, `aday_sil` | four blueprints write one row; SMS service outside | handlers of different blueprints with different guards; repeated pages; overlapping attempts at the code | one form per applicant; a code admits three wrong tries |
| Documents and hiring: `modules/ik`, `modules/proje` | `evrak_tipleri`, `aday_evraklar`, `calisan_evraklar` | `evrak_tipi_ekle`, `aday_evrak_yukle`, `evrak_onayla`, `evrak_reddet`, `aday_calisana_donustur`, `aday_ise_al` | turn a candidate into an employee | two ways of hiring with different guards; documents decided again meanwhile | whoever is hired through ik gave consent and has the required documents |
| Employees, leaving: `modules/ik` | `calisanlar`, `isten_cikislar` | `ekle`, `duzenle`, `isten_cikis_baslat`, `isten_cikis_guncelle`, `isten_cikis_tamamla` | read by every other part | a record reopened after its completion; several records for one employee | the date of leaving and the records agree |
| Entrusted goods: `models/ik.py`, `modules/ik/routes.py` | `zimmetler` and their history `zimmet_loglar` | `zimmet_ekle`, `zimmet_iade`, `zimmet_transfer`, `zimmet_kayip_bildir` | employees | transfers and returns that overlap; unguarded loss | the history and the row agree on who has what |
| Trainings, quizzes: `models/egitim.py`, `models/quiz.py`, `modules/egitim` | trainings, participants, materials with files, questions with options, tests with questions | planning, participants, results, materials, the bank of questions, the questions of a test | employees | rows removed and entered again; options replaced by overlapping forms; order numbers; files removed before the commit | one set of options per question; new questions come last; a material's file is there |
| Tickets: `models/talep.py`, `modules/talep` | categories, tickets, comments | `yeni`, `yorum_ekle`, `durum_degistir`, `ata`, `oncelik_degistir`, `kategori_ekle` | users | number from a count; any state from any state; removing the assignee reopens | numbers without gap; dates agree with states and comments |
| Fleet: `models/filo*.py`, `modules/filo`, `modules/proje` | vehicles, fuel and maintenance records, hand-overs, accidents, fines, replacement vehicles | 18 handlers that write | employees, projects | mileage and holder overwritten on a copy; import checked row by row | the row is what the records say; receipts enter once |
| Contracts: `models/sozlesme.py`, `modules/sozlesme` | contracts and renewals | `ekle`, `duzenle`, `yenile`, `durum_degistir` | suppliers, projects | none: no contract can be entered, see section 7 | - |
| Projects: `modules/proje` | customers, projects, positions | data entry, candidates of a position | recruitment, fleet | the same shortage counted by different queries; no way of hiring looks at it | the counts of a project and of its positions are related |
| Users, roles: `modules/core`, `modules/ayarlar`, `seed_data.py` (root) | users, their roles and claims, roles, permissions | login, two sets of user forms, roles, permissions, defaults, the seed script | every handler's decorators | administrators switching each other off; defaults entered in the wrong order | the portal keeps an administrator |
| Suppliers: `modules/tedarikci` | suppliers | data entry | - | - | - |
| Reports, API: `modules/rapor`, `modules/api` | none | none (read only) | all tables | - | - |

`PROJECT.json` lists the hazards of each part at the line where they bite.

## 2. Plan

Order: the approval engine first, because every paid process of the portal
depends on its decision and because it has the most state per request; then its
behaviour under concurrent handlers; then the documents that use it; then entrusted
goods, the first of the things with a holder and a history. Then the rest of the
portal, all of whose handlers work the same way (read, decide on the copy, write the
changed columns), over one module for that way, `Oturum`: the fleet, trainings,
tickets, candidates and hiring, employees, projects, users, and the files that handlers
remove. All of this is done.

Every safety property of the passing runs is proved, for the components and for the
specifications that compose them (section 5 says what is left to the model checker). What
could still be proved: how much of `TekKayit` is left in flows with steps side by side.

## 3. Modules

| Module | Models | Uses |
|---|---|---|
| `OnaySozlesme` | what the engine promises of one request: opened once, approvals one at a time, each to a later stage, decided once | - |
| `Onay` | the engine, one transaction per action | `OnaySozlesme` through `INSTANCE ... WITH` |
| `OnayKanit` | proofs about `Onay` | `Onay` |
| `OnayEsZamanli` | one request, handlers cut into read, flush, lock and commit | - |
| `OnayEsZamanliKanit` | proofs about `OnayEsZamanli` | `OnayEsZamanli` |
| `Belge` | expenses and purchase requests from creation to decision | - |
| `BelgeIsci` | `Belge` with all handlers at work or only one | `Belge` |
| `BelgeKanit` | proofs about `Belge` and `BelgeIsci` | `BelgeIsci` |
| `Zimmet` | entrusted goods, their holders and their history | - |
| `ZimmetKanit` | proofs about `Zimmet` | `Zimmet` |
| `Oturum` | threads and database sessions: a copy is read, changed columns are written | - |
| `Arac` | vehicles with their history and fuel receipts | `Oturum` |
| `AracOlay` | accidents, fines, replacement vehicles | `Arac` |
| `FiloKanit` | proofs about `AracOlay` and `Arac` | `AracOlay` |
| `Egitim` | trainings, participants, questions, tests | `Oturum` |
| `Dosyalar` | invoices and training materials on the disk | `Oturum` |
| `EgitimKanit` | proofs about `Egitim` and `Dosyalar` | `Egitim`, `Dosyalar` |
| `Destek` | tickets | `Oturum` |
| `IsletmeKanit` | proofs about `Destek`, and about `MCIsletme` as a whole | `MCIsletme`, `FiloKanit`, `EgitimKanit` |
| `Aday` | candidates, their link, consent, form and state | `Oturum` |
| `Dogrulama` | the one-time code | `Aday` |
| `Calisan` | employees and how they leave | `Oturum` |
| `IseAlim` | documents and hiring: the composition of candidates and employees | `Aday`, `Calisan` |
| `Kadro` | customers, projects, positions; what is counted | `IseAlim` |
| `Yetki` | users, roles, permissions | `Oturum` |
| `PersonelKanit` | proofs about these six, and about `MCPersonel` as a whole | `MCPersonel` |
| `MCOnay`, `MCOnayEsZamanli`, `MCBelge`, `MCZimmet` | instances for TLC: step forms, flow shapes, symmetry | the module they name |
| `MCIsletme` | instance of the fleet, trainings, files and tickets | `AracOlay`, `Egitim`, `Dosyalar`, `Destek` |
| `MCPersonel` | instance of candidates, employees, positions and users | `Kadro`, `Dogrulama`, `Yetki` |

### Onay

A variable is a table, a function from row ids to rows; `Yok` is both SQL NULL
and a missing row. Names are the code's: `TalepOlustur` is
`OnayServisi.talep_olustur`, `SonrakiAdimKontrol` is `_sonraki_adim_kontrol`. The
helpers are written as sets of possible results, because two queries of the code
leave their answer open: `User.query...first()` of a role has no order, and the
records of steps that share a `sira` come in any order, while the first of them
decides whether one or all must approve. A handler that raises or returns early
changes no row and is a guard. `yonetici` and `departman_yoneticisi` steps query
`Calisan` by `user_id`, a column the model class does not have, so opening their
records raises and rolls the whole approval back (`Patlar`).

`admin_adim_ekle` reads `max(sira)` and inserts later. The two statements are two
actions, so that two administrators can give two steps one number; that is how
steps come to be approved side by side in this program, since no form offers it.
`admin_adim_sil` is refused by the foreign key once a record was written for the
step (`Basvurulmus`).

Left out: several approval types (a flow belongs to one, nothing crosses), columns
no handler reads (`kosullar`, `kosul`, `paralel`, `atlanabilir`,
`otomatik_onay_sure`), notes and dates of a decision, the permission decorators.

### OnayEsZamanli

The same request, with the handlers cut where the database sees them.
`KayitOku`/`TalepOku` read a row and check the guard on that copy; `IlkKilit` is
the autoflush before the next query, which takes the row's lock and makes the
queries behind it read what is committed by then; `SonrakiKilit` locks the other
rows the handler writes, records by id and the request last; `Commit` publishes
the changed columns only; `GeriAl` is PostgreSQL's deadlock detector. The lock
operators are external code, modelled from how the handlers use the session. The rows a
handler still has to lock are a set, of which `Siradaki` is the next; what it will write
(`IstekSatiri`) is fixed when it decides. The module also states the two inductive
invariants of section 5, `TekKayitIInv` and `AdimIInv`.

### Belge

Expenses and purchase requests share the shape "guard on a copy, write later,
submit with two commits", so one module has both; `MasrafEkle`, `Duzenle*`, `Sil*`
apply to expenses, `TalepEkle*`, `Iptal*` to purchase requests. `gerekli` and `ek`
are the submission's condition: for an expense that its category demands an
invoice and that it has a file, for a purchase request that it needs and has an
item. A handler may end between any two of its steps (`Birak`): `talep_olustur`
has no flow, the number is taken, or the worker is killed. The approval engine is
reduced to what a document sees of it (`OnaySonuclan`, the decisions of
`OnaySozlesme`).

Left out: amounts and VAT, the file on the disk (module `Dosyalar`), categories, and the later states of a
purchase request that offers and orders write. The model covers one year of
purchase numbers, since the count is by year.

### Zimmet

An item is the holder and the state of its row; its history is the sequence of the
entries `zimmet_loglar` has for it, each with the kind of movement, the giver
(`eski_calisan_id`) and the receiver (`yeni_calisan_id`). A return, a transfer and a
report of loss read the row and check it (`IadeOku`, `TransferOku`, `KayipOku`) and
later write it with the history (`IadeYaz`, `TransferYaz`, `KayipYaz`) from the copy
they have read; only the columns that changed are written, so a transfer leaves
`durum` alone, a return leaves the holder alone and a loss reported again writes no
row at all. The threads in service (`isci`) are chosen at the start, one or all, so
that one run asks both what handlers one after the other guarantee (`Sirali`) and
what they guarantee when they overlap.

Left out: dates, notes and the condition of the item, which no handler reads.

### Oturum

What all handlers outside the approval engine have in common. `istek[i]` is what the
handler in thread `i` is going to write: it is fixed when the handler has read its rows
and checked its guards (`Basla`), and applied at the commit (`Bitti`). SQLAlchemy writes
only the columns whose value differs from the one that was loaded (`Fark`), to the row
as it is at the commit (`Uygula`). So each handler is an action `...Oku`, and handlers
that write the same tables share the action of the commit (`AracYaz`, `TalepYaz`,
`CalisanYaz`, ...). A handler that reads no row it decides on is one action. `...Birak` is
every way to end without commit: an exception, a unique index, a row that is gone, the
worker killed. `isci`, the threads in service, is chosen at the start, one or all:
`Sirali` says that it is one, and a property that starts with `Sirali =>` is about
handlers one after the other.

### Arac, AracOlay

`gecmis[a]` is what was entered for a vehicle, in the order of the commits: hand-overs
and returns (`arac_teslimler`), fuel and maintenance (`yakit_kayitlari`, `filo_islemler`),
and what the vehicle's own form said. The form writes columns also when they mean the
same as before, because its numbers are strings (`DuzenleOku`). `fis` counts the rows of
`yakit_kayitlari` for one receipt, entered by hand and imported; `yakit_import` is a step
for each row of the file and one commit, and its duplicate check sees its own uncommitted
rows through the autoflush (`FisVar`). The litres of the file are compared as they were
parsed, those of a row are `Numeric(8, 2)`: a receipt's row shows `Saklanan[f]`, a receipt
with rounded litres, and the check looks for rows that show the file's `f`. `AracAta` is a bulk `UPDATE`, which reads nothing.
The three kinds of events share `olay`, since each is a row that is inserted once and
then decided or closed.

Left out: prices, photographs and signatures, insurance; date and litres are what a receipt
is.

### Egitim

`katilim` has a row for each person of a training; `no` tells a row that was removed and
entered again from the earlier one, because an `UPDATE` by primary key of a row that is
gone fails. `secenek` are the options of a question, each by the form it came with.
`soru_duzenle` deletes the options and inserts new ones. Its `DELETE` is a query, so the
session first flushes what the form changed in the question, which takes the row's lock
(`Kilitli`); a form that changes options only takes no lock. `test` maps the questions of
a test to their order numbers. `TestSoruEkleOku` numbers the new ones of a form's list by
how many new ones come before them in it.

Left out: quiz attempts (they always fail), the order of materials, texts.

### Dosyalar

The disk knows no transaction. `ekli` has the rows that name a file, `disk` the files;
a handler on them is a read, `DosyaKaldir` (`os.remove`), `DosyaKaydet` (`file.save`) and
the commit, and may end after each (`DosyaBirak`). `yarim` is history: the files that
handlers had removed or saved when they were cut off. A name made by `uuid4` is one that
nobody knows any more (`YeniYol`). An invoice is replaced and stays when its expense is
deleted; a material is removed with its file. Files that no handler ever removes
(documents of candidates and employees, attachments of tickets) are left out, and those of
contracts, none of which can be entered.

### Destek

A ticket with its dates as "set or not", the first answer as the comment it came with,
and the kinds of its comments in order. `AtaOku` writes the date of assignment each time,
`AtamaKaldirOku` clears it and reopens the ticket.

### Aday, Dogrulama

`Aday` has every handler that writes a candidate but those about the code and hiring.
`link` says whether the token in the row is valid; the 72 hours pass by `LinkSuresi`.
`icerik` is which filled-in form the row holds. `Dogrulama` adds the columns of the code;
`yanlis` counts, beside the row, the wrong codes that were judged since the code in the
row was sent, which is what the limit is about.

Left out: name, telephone and the other fields of the forms, messages.

### Calisan, IseAlim, Kadro

`Calisan` has the employees and the records of leaving; `tc_kimlik` is unique, checked by
the handlers and again by the index. `IseAlim` composes candidates and employees: the two
ways of hiring write both in one commit (`Alim`). `dosya` is what the employee's file
holds, with what was required when the handler looked. `Kadro` adds customers, projects
and positions, and the four counts of the pages (`MevcutSayi`, `EksikSayi`, `ToplamKadro`,
`MevcutCalisan`), each by its own query. `Toplam`, the sum of a number for each position, is
written as the size of a set of pairs, one pair for each unit. `TohumProje` is the seed script's part: it enters
what is missing of its customers, projects and positions, but only if a customer is.

### Yetki

Users with the two flags, `bag` for the rows of `user_roles` and `user_claims`, roles with
a unique name and their permissions. Users are linked to a role's row, the seed script and
the defaults look for names (`RolAdinda`): a renamed role keeps its users, and its old name
is entered again as another role. `rol_duzenle` flushes the name before it loads the
permissions, so a new name takes the row's lock (`RolKilitli`). The acting administrator `y` is a parameter, since the handlers compare
with him. Linking tables are written row by row (`BagFark`), and a row to delete that is
gone, or one to insert that is there, makes the commit fail (`BagYazilir`). The seed script
is part of the model: it may be run at any time.

Left out: passwords, profile data, displayed names of roles, the key-value settings.

## 4. Runs

| Run | Instance | What it asks | Result |
|---|---|---|---|
| `onay_sirali` | one administrator, two flows of different priority, three steps, step forms by name, role (unanimous), manager and an unknown type, one request, one delegation | `TypeOK`, `TekSira`, `BekleyenKayitGuncel`, `HerAdimdanGecti`, `OnayTam`, `SozlesmeSpec` | hold |
| `onay_paralel` | two administrators, one flow, three steps by name in both modes, a delegation with two days | `OnaysizOnayYok`, `OnayVeIptalKesin` | hold |
| `es_sirali` | two sequential steps, three handlers in flight | `TypeOK`, `TekKayit`, `AdimAtlanmaz`, `IstekBiter` | hold |
| `belge_yaris` | one expense, two purchase requests, one or two handlers in flight, two approval requests | `TypeOK`, `OnayReferansi`, `NumaraArdisik`; one after the other `EkTamam`, `DonmusIcerik`, `IptalKalici` | hold |
| `zimmet` | one item, three employees, one or three threads | `TypeOK`, `SahipDefterden`, `VerenAlmisti`; on one thread `ZincirKopmaz`, `DurumDefterden`, `KapananZimmet` | hold |
| `isletme` | one vehicle, two employees, two receipts (one stored like the other), one event; one training, two persons; two questions, one test; one expense, one material, four paths; three tickets; one or two threads | `TypeOK`, `IceAktarimTekil`, `KisiTasimisti`, `DosyaYerinde`, `SecenekTekForm`, `TalepNoArdisik`, `TarihlerTutarli`; one after the other `AracGecmisten`, `SonaEklenir` | hold |
| `personel` | one candidate, two employees, two records of leaving, two document types and documents, two codes, one project with two positions, two users and three addresses, two roles and two names of roles; one or two threads | `TypeOK`, `DosyaTam`, `DenemeSiniri`, `CikisTutarli`, `KadroHesabi`; one after the other `TekBasvuru`, `YoneticiKalir` | hold |
| `onay_adimsiz` | as `onay_sirali`, one flow | `AdimsizTalepOnaylanir` | violated |
| `onay_vekil` | one step, one delegation, two days | `VekilGecerliyken` | violated |
| `es_iptal` | two sequential steps, two handlers | `IptalKesin` | violated |
| `es_tumu` | two unanimous steps side by side, then one | `TumuIlerler` | violated |
| `belge_sonuc` | one expense, one purchase request, one handler at a time | `SonucYansir` | violated |

The violated properties quote the code's own comments; `PROJECT.json` "findings"
has the quotations and the behaviours. In short:

- a step without approver leaves the request open for ever (`onay_adimsiz`);
- a delegate decides after the delegation has ended (`onay_vekil`);
- a withdrawal that races an approval is overturned (`es_iptal`);
- the last two approvers of a unanimous step miss each other (`es_tumu`);
- an approval never reaches the expense or the purchase request (`belge_sonuc`).

**Bounds.** Three steps are enough for a group of two followed by another step,
for a step deleted between two others (gap in the numbers) and for one appended
behind a travelling request. `MaxSira` lets a number be skipped after a deletion.
One request suffices because handlers of different requests share only the
flows, which no request handler writes. Two users are an approver and a delegate
or a second approver. Two days make a delegation that is not yet, is, and is no longer valid;
`onay_sirali` has one day, since the delegations only choose who holds a record.
Three handlers let two race while a third changes what they race about, and let a
deadlock have a bystander. `MaxKayit` is one record per step and room for the
duplicates `TekKayit` looks for. Two approval requests let a document be submitted
twice. One item suffices for `zimmet`, since no handler touches two; three employees
and five entries let an item be handed over twice, come to an earlier giver again and
be returned by a handler that read it before.

`isletme` and `personel` are made of parts (`kapsam`): each behaviour stays with the
handlers of one part, because the parts share no row, and interleaving them would only
multiply their states. Where components do share rows, the part has the handlers of both
(`olay`: vehicles and events; `alim`: candidates, documents, employees; `kadro`: these and
positions). Handlers of different vehicles, trainings, tests or candidates share nothing
either, so one is enough; two mileages let one be too high or too low; three entries let a
vehicle be handed over twice before a return is written, and three imported rows of a receipt
are one more than two threads enter of one the column keeps. Two persons and two rows let a
participant be removed and entered again; two questions, four forms and four order numbers
let two edits overlap, and a question be removed and added behind a reordering. One expense
and one material let two edits of one row overlap and two rows meet; four paths
leave a new one for each of two overlapping edits while the old file, or one left behind, is
still known. Tickets
need three, so that a count can collide after a failed insertion; three comments let two
answers overlap. Two codes let an attempt at the first be committed after the second was
sent. Two employees and two documents let a candidate be hired twice and a document be
rejected while another is approved. Two users are an administrator and the one he
switches off; the three addresses are the seed script's, another, and one with a capital
letter, with which nobody can log in. Two roles and two names let a role be renamed and the
old name be entered again, or two handlers want one name. Two threads are what every race here needs; that nine
wrong tries are possible with two (`DenemeSiniri`) was checked to be reached.

The symmetry sets permute ids no definition distinguishes; `IstekBiter`, a
liveness property, is checked without symmetry.

`es_*` runs have `CHECK_DEADLOCK FALSE`: a decided request without pending records
has no further handler. `isletme` and `personel` have it because a part stops once its
bounds are reached.

**Fairness.** `OnayEsZamanli` assumes strong fairness of each handler's own steps
(`Ilerle`): a thread runs its handler to the end, and a transaction waiting for a
row lock is served, since PostgreSQL queues lock waiters and its deadlock detector
always ends a cycle. Weak fairness would not do, because a lock may be free and
taken again for ever while others work on the request. Reading a request is not
fair: users need not call anything. The other modules are checked for safety only.

## 5. Proofs

Every inductive invariant named here was checked by TLC on the instance of its module's run
before it was proved; those of the composed specifications are put together from them.

`OnayKanit`: type correctness (`TypeCorrect`), that an approved request has an approval at
its last step (`OnayOnaysizDegil`) and that an approval or a withdrawal is not overturned
(`OnayVeIptalKalir`) hold for every value of the constants, also when several
administrators give steps one `sira`. The latter two rest on `ParalelIInv`: a record's step
exists, is of the request's flow and not after the current one (`KayitAdimi`), and a pending
record belongs to the current step of a request that is open or rejected (`BekleyenAcik`;
`reddet` leaves the siblings of a rejected record pending). So an approval meets a request
that is still open or rejected, and skips or opens nothing behind a decision.

The other theorems assume `TekAdmin`, that one administrator at a time
edits the flows; two may make steps share a `sira`, and then `TekSira` is false.
They rest on the inductive invariant `IInv`:

- `TekSira` needs `EklemeSonra`, that the number an administrator holds is above
  all numbers in use (deleting cannot break it, inserting is his own);
- `BekleyenKayitGuncel`: a pending record belongs to the current step of an open
  request. Unique numbers make the current step's group a single record, so that
  `onayla` always advances and leaves nothing pending;
- `KayitAdimi`: a record's step exists (the foreign key), is of the request's flow
  and is not after the current one, and a request not yet opened has none;
- `OncekilerOnayli`: where a step has a record, all earlier steps of the flow as it
  is now are approved. The next step is the least above the current one, and a new
  step is numbered above every old one, so no step can appear behind a record;
- `OnaysizOnayYok`, which says that the last approval was given at the last step.

From `IInv`: `SiralarTek`, `BekleyenlerGuncel`, `HerAdimdanGecer`; for the step that
approves, `OnayTamdir` (all steps of the flow, as it then stands, have approved).
`SozlesmeyiUygular` maps `durum`, `mevcut_adim` and the set of approved steps to
`OnaySozlesme` and shows each action to be one of its steps or a stutter.

`OnayEsZamanliKanit` is about any flow, any number of handlers in flight and any
interleaving of their reads, locks, commits and rollbacks, from `EsZamanliAssumption`
(finitely many steps; `Yok` is no value of a column). `EsZamanliTipler` needs no more: a
transaction that ends leaves no lock behind. `KayitTekKalir` assumes `SiraliAkis`, one step
per `sira`. Without it `TekKayit` is false: with two steps side by side and three handlers
a rejection races a withdrawal, and the next step is opened twice. It rests on
`TekKayitIInv`: a handler past its first flush holds the lock of its row and will not decide
about the request without the request's lock (`KilitSahibi`); records exist only up to the
current step, and that step's record is approved only when no step comes after it
(`MevcutKaydi`); so what an approval in flight has planned is still right when it commits
(`PlanGecerli`), although the copies it planned from may be stale. `HicbirAdimAtlanmaz` also
assumes `Onayli = Adim`, that every step has an approver: a step without one gets no record
and hence no decision. `AdimIInv` adds that the steps behind the current one are decided
(`OncekilerKararli`, `OnayliTamam`) and that only a withdrawal skips records, and none that
was decided (`KararGecerli`).

`BelgeKanit` holds for any number of documents and overlapping handlers, from
`BelgeAssumption` (ids are distinct from `Yok`; expenses and purchase requests are
distinct; finitely many purchase requests). `NumaralarArdisik` follows from
`IstekNo`: the number a handler has read is at most count + 1 and stays so as the
count grows; the unique constraint admits it only if it is still free, and since the
numbers in use are exactly 1 to count, it then is count + 1. `OnayReferansiVar` rests on
`IstekOnayi`: the approval request a handler carries was committed for its document.
`EklerTamam`, `IcerikDonmus` and `IptalKaliyor` are about handlers that do not overlap
(`BelgeIsci`, `Sirali`): the copy a handler works on is then the row (`KopyaGuncel`), so that
what its guard has seen still holds when it writes.

`ZimmetKanit` holds for any number of items, employees, threads and entries, from
`ZimmetAssumption` (`Yok` is no id and no row). `HerZaman` is what holds however
handlers overlap: `SahipDefterden` is preserved because every update appends an
entry that names the new holder or none (`SahipAdimi`), and `VerenAlmisti` needs
`KopyaAlmis`, that the holder a handler has read is a receiver in the history, which
only grows. `TekTek` adds what one thread guarantees; it needs `KopyaGuncel`, that
the one handler's copy is the row as it is. The lemmas before them say what an
appended entry does to `SonAlan` and `SonDurum`, the last receiver and the last state
of a history.

The proofs over `Oturum` share their layout. `IInv` says what the tables hold and, for
every thread, what the handler in it is about to write (`Hazir`). A read establishes the
latter from the row (`BaslaYeter`), no step of another thread breaks it (`HazirKalir`), and
a commit turns it into what the tables hold (`BittiYeter`). Where a property is about one
thread, `Hazir` also says that the thread's copy is still the row: `HazirKalir` then has
nothing to show, because no other thread is in service.

Tickets (`IsletmeKanit`; from `DestekAssumption`: finitely many tickets): `NumaralarArdisik` is the
argument of purchase requests. `TarihlerDogru` needs that whoever writes the first answer
enters an answer with it, that a state is written with its date, and for one thread that
the date of assignment and the assignee agree on the copy with the changes.

`FiloKanit` (from `AracAssumption`) is about all pages of the fleet at once. `KisilerTasidi`
needs, for overlapping handlers, that whoever is the holder of a row is in its history
(`SahipGecmiste`) and so is whomever a handler has read as the holder; histories only grow
(`SahipKalir`). `AracKayitlarda` needs, for one thread, that the columns a handler will write
do to its copy what the entry it will make says (`Uyar`); `SifirlamaGecmisi` and
`KullanimGecmisi` say what one more entry does to a history the row agrees with.
`FislerTekil` (also from `OturumAssumption`: finitely many threads) counts, for a receipt that
the column keeps, the threads whose import has its row in hand (`Aktaranlar`): with the rows
committed they are never more than the threads in service (`FisSayisi`). The check finds any
row stored like the receipt, committed or the import's own, so an import has at most one in
hand, and takes it only while none is committed.

`EgitimKanit` has files and trainings. Files (from `DosyaAssumption`): for any number of
overlapping handlers, no two rows
name one file (`TekAd`), a file a handler has saved is nobody else's (`YeniKendi`) and the
one it has read no other row's (`EskiKendi`). So nothing but its own row loses a file to
`os.remove`, and `AdYerinde` holds. `DosyaAdli`, that files are named, needs one thread: the
copy is then the row (`KopyaGuncel`), and no file is replaced unseen. Trainings (from
`EgitimAssumption`: finitely many questions, not more of them than the bound `MaxSira` has
numbers): `SecenekTekFormdan` needs that two edits which change the question itself do not
overlap, because the first flush took the row's lock (`TekKilit`), and that each of them
deletes the options of all earlier ones (`SoruHazir`). `SonaEklenirler` needs that the new
numbers in hand differ and, with one thread, are above those of the test (`TestHazir`). That
the greatest number of a test exists is not proved by induction but from the library's
theorem that strict inclusion of finite sets is well-founded (`EnBuyuk`): of the sets of
numbers from `x` on, a minimal one belongs to a greatest `x`.

`PersonelKanit` has the people.

- Employees (from `CalisanAssumption`): `AyrilanKayitli` holds for any number of
  overlapping handlers, because the date of leaving is never taken back and the only handler
  that writes it to an employee writes it to a record in the same commit (`YazHazir`).
- Candidates (`AdayIInv`): `BasvuruTek` needs, with one thread, that a form is in hand only
  for a candidate who has not handed in any (`AdayHazir`).
- Hiring (`IseAlimIInv`): `TamDosya` needs that a thread which hires through ik has read the
  consent, which is never taken back, and, with one thread, that the documents it found
  required are approved in the rows as they still are (`AlimHazir`).
- The one-time code (`DogrulamaIInv`; from `DogrulamaAssumption`): no code is sent twice
  (`KodlarFarkli`), so a new one starts its count. `DenemeSinirli` says three wrong tries with
  one thread and nine with two. Two threads that read a counter before either writes it
  lose tries, and a late commit sets the counter back, so no sum of what is stored bounds
  them; the proof gives each thread the tries it may still commit were it alone (`Kalan`)
  and shows that tries made plus a budget of the two (`Butce`: a late commit of the one with
  more left gives the other as many) never exceeds nine. With more than two threads the
  property says nothing.
- Users (`YetkiIInv`): `SonYonetici` needs, with one thread, that whoever edits a user is an
  administrator still, and that the switch is used on another's account (`HesapYazHazir`).
- Positions (`KadroIInv`; from `KadroAssumption`: finitely many positions and employees):
  `KadroHesapli` compares sums, and since a sum is the size of a set of pairs, by bijections
  instead of induction: the pairs of the present employees are as many as those employees
  (`ToplamSayar`), those of the shortages as many as the pairs of the targets without the
  present ones (`ToplamAyrilir`).

**The parts together.** `MCIsletme` and `MCPersonel` let a behaviour stay with one part
(`kapsam`). Their invariants say that the variables of that part satisfy its invariant and
the others are as `Init` says, or, for tickets and hiring, what the part starts from.
In `MCIsletme` (`IsletmeIInv`) the parts share only the variables of `Oturum`, and one lemma
per part says what the others' steps keep of it. In `MCPersonel` (`PersonelIInv`) they share
tables: in the parts `alim` and `kadro`, hiring, the candidates' and the employees' handlers
and the projects' pages write the same rows. There the invariants of candidates, hiring and
employees hold at once (`IkiIInv`), so each kind of step is shown to keep all of them: a
handler that waits for one table stays right when another module's commits (`IkiOkuAdimi`,
`IkiDuzenleOku`, `IkiCalisanYaz`), hiring adds an employee whom no record of leaving names
(`CalisanAlimAdimi`), and it writes the state of a candidate but not the form that was handed
in (`AlimBasvuruKalir`). `PersonelTipleri`, `PersonelGuvenligi`, `PersonelBasvurusu`,
`PersonelYoneticisi` and `IsletmeTipleri`, `IsletmeGuvenligi`, `IsletmeSonaEkler` are the
properties of the two runs, as theorems of the specifications the runs check.

**Only model-checked:** `IstekBiter`, because liveness is out of the prover's reach. The
properties that are violated are of course not proved.

## 6. What the model shows beyond the runs

- `EkTamam`, `DonmusIcerik` and `IptalKalici` need a single handler. With two, an edit admitted before the submission is written after it, and a
  submission admitted before the cancellation revives the request.
- A rejected request is not final when steps share a `sira`: the sibling's record
  stays pending and can still approve it. `OnayVeIptalKesin` therefore speaks of
  approvals and withdrawals.
- `TekKayit` is stated for sequential flows. With two steps side by side and three
  handlers, a rejection and a withdrawal that race let a later step be opened twice.
- An edit of an expense that is cut off after the old invoice was removed leaves the expense
  with a name of a file that is gone, and a material's row may outlive its file. Two edits at once leave a
  file that no row names.
- The seed script enters no project and no position once all its customers are there, also
  if they were entered by hand.
- Overlapping returns and transfers of one item break the chain of hand-overs: an
  entry's giver may have given the item on already, a returned item may have a new
  holder, and a row may say returned where its history ends in a loss. What is left is
  `SahipDefterden` and `VerenAlmisti`.
- The same is true of the other properties that begin with `Sirali`. Two overlapping
  hand-overs leave a vehicle with the holder of one and the mileage of the other; two edits leave a question with two sets of
  options; an answer that overlaps the first one takes over its date; a form handed in
  twice at once is the later one; a required document that is rejected between check and
  hiring is missing in the file; two administrators can switch each other off at once.
- Imports of one file that overlap enter its receipts once each: `IceAktarimTekil` is the
  bound that is left, the number of threads. It speaks of receipts the column keeps as they
  are. One with more than two decimals (or a cell like 31.650000000000002) does not find its
  own row, since its litres are compared before they are rounded
  (`modules/filo/routes.py:358`, `:394`; `models/filo.py:147`): every import and every repeated
  row enters it again, also with one thread. The `isletme` run has such a receipt (`f2`) and
  reaches `MaxGecmis` rows of it on one thread.
- Renaming a role leaves the steps of flows that name it without approver, and the defaults
  or the script enter a second role under the old name, without its users.
- A one-time code may be tried nine times with two threads, not three: both read the
  counter before either writes it, and one that is late sets it back.
- A candidate may be hired any number of times, also one who was rejected or deleted; what
  stops it is at most the unique identity number. A candidate hired through `modules/ik`
  loses his position, one hired through `modules/proje` brings it and no document.
- The number of participants of a training is not limited by its capacity, nor the
  employees of a position by its target.
- The project's page and its positions' pages count the shortage differently as soon as
  one position is overstaffed (`KadroHesabi` says how). Of a target of zero, the project
  says 0 percent and the position 100.
- An accident that was rejected and then approved keeps the reason of the rejection; a fine
  can be charged to the driver although there is none; leaving is completed whatever its
  checklist says; editing a training may clear the end of a completed one.
- A user whose address was entered with a capital letter in `modules/ayarlar` can never log
  in. Default roles that are entered before their permissions stay incomplete for good; the
  seed script gives a role back what was taken from it. Once the portal has no active
  administrator, the script makes one only if its own address is not in use.

## 7. Not modelled

Offers, orders and deliveries: `teklif_ekle` asks for a purchase request that is
`onaylandi` or `teklif_asamasinda` (`modules/satinalma/routes.py:267`), and no code
writes `onaylandi`, which is what `belge_sonuc` shows; no offer can be created and
nothing behind it runs. Attempts at a quiz: `test_baslat`, `test_coz` and `test_sonuc`
query `Calisan` by `user_id`, which it does not have, and always raise. The form for a
new candidate in `modules/ik` (`aday_ekle`) passes `created_by`, which `Aday` does not
have, and always raises too; candidates are created by `basvuru`, `kariyer` and `proje`.
Contracts: the form for a new one passes an enumeration member for the text column `durum`
(`modules/sozlesme/routes.py:153`), the insert raises, and every other handler needs a
contract. Leave requests: no handler creates one. The page for a new ticket category fails
on `User.first_name`; its `POST` works and is modelled.

Data entry, a single row overwritten by a form, is left out: suppliers, training types,
the order of materials, expense categories, question and contract categories, types of entrusted goods, settings. So are
reports, API and templates, which change nothing. Permissions are assumed outside `Yetki`:
an action is a handler called by a user its decorators let through. Network, e-mail and SMS are
outside, and of the file system what `Dosyalar` does not need.
