------------------------------ MODULE BelgeIsci -----------------------------
(***************************************************************************)
(* Belge under one of two loads: either all handlers may overlap, or one   *)
(* of them does everything and the others stay idle, as when a single      *)
(* person works with the application.  isci is fixed when a behaviour      *)
(* starts.                                                                 *)
(***************************************************************************)
EXTENDS Belge

VARIABLE isci  \* the handlers at work

isciVars == <<belge, onay, istek, isci>>

IsciInit ==
    /\ Init
    /\ isci \in {Istek} \cup {{w} : w \in Istek}

IsciNext ==
    /\ Next
    /\ \A w \in Istek \ isci : istek'[w] = istek[w]
    /\ UNCHANGED isci

IsciSpec == IsciInit /\ [][IsciNext]_isciVars

\* No two handlers overlap.
Sirali == \A v, w \in isci : v = w

\* "Bu kategori için fatura/fiş yüklemek zorunludur", "En az bir kalem eklemelisiniz":
\* as long as no two handlers overlap, no document waits for approval without what
\* its kind demands, also after edits that change the category.
EkTamam ==
    Sirali =>
        \A b \in Belgeler :
            Var(b) /\ belge[b].durum = "onay_bekliyor" => (belge[b].gerekli => belge[b].ek)

\* "Bu masraf düzenlenemez": what the approvers decide about is what was submitted,
\* as long as no two handlers overlap.
DonmusIcerik ==
    [][Sirali =>
        \A b \in Belgeler :
            Var(b) /\ belge[b].durum = "onay_bekliyor" =>
                /\ belge'[b].gerekli = belge[b].gerekli
                /\ belge'[b].ek = belge[b].ek]_isciVars

\* A cancelled purchase request stays cancelled, whatever its approval request does
\* and whatever is clicked on its page, as long as no two handlers overlap.
IptalKalici ==
    [][Sirali =>
        \A b \in Belgeler :
            Var(b) /\ belge[b].durum = "iptal" => belge'[b].durum = "iptal"]_isciVars

\* What the three rest on.  A handler that is not at work is idle.
IsciDisiBosta == \A w \in Istek \ isci : Bosta(w)

\* The copy a handler works on is the row as long as nobody else writes: what its
\* guards have seen still holds when it writes.
KopyaIyi(w) ==
    /\ istek[w].is \in {"duzenle", "iptal"} => istek[w].durum = belge[istek[w].belge].durum
    /\ istek[w].is = "duzenle" => Duzenlenebilir(istek[w].belge)
    /\ istek[w].is = "gonder" => Gonderilebilir(istek[w].belge)

KopyaGuncel == Sirali => \A w \in Istek : KopyaIyi(w)

\* The inductive invariant of both loads.
IsciIInv ==
    /\ IInv
    /\ IsciDisiBosta
    /\ KopyaGuncel
    /\ EkTamam
=============================================================================
