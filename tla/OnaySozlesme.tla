---------------------------- MODULE OnaySozlesme ----------------------------
(***************************************************************************)
(* What the approval engine promises of a request, whatever its flow: it   *)
(* is opened once and decided at most once; approvals are collected one at *)
(* a time and only while it is open; no step approves it twice; every      *)
(* approval takes it to a later stage or decides it; and a request that is *)
(* decided keeps its decision.                                             *)
(*                                                                         *)
(* The promise is read off the code: the durum values of OnayTalebi        *)
(* (models/onay.py), the loop of OnayServisi.onayla over the steps, and    *)
(* the single assignment of a final durum in each of onayla, reddet and    *)
(* talep_iptal.  Onay is shown to implement this module when one           *)
(* administrator edits the flows.                                          *)
(***************************************************************************)
EXTENDS Naturals

CONSTANTS Talep, Adim

VARIABLES
    durum,    \* the state of each request
    asama,    \* the stage it has reached
    onaylar   \* the steps that have approved it

degiskenler == <<durum, asama, onaylar>>

Init ==
    /\ durum = [t \in Talep |-> "yok"]
    /\ asama = [t \in Talep |-> 1]
    /\ onaylar = [t \in Talep |-> {}]

\* A request is opened.
Ac(t) ==
    /\ durum[t] = "yok"
    /\ durum' = [durum EXCEPT ![t] = "bekliyor"]
    /\ UNCHANGED <<asama, onaylar>>

\* Step a approves an open request, which moves on.
AdimGec(t, a) ==
    /\ durum[t] = "bekliyor"
    /\ a \notin onaylar[t]
    /\ onaylar' = [onaylar EXCEPT ![t] = @ \cup {a}]
    /\ asama'[t] > asama[t]
    /\ \A s \in Talep \ {t} : asama'[s] = asama[s]
    /\ UNCHANGED durum

\* Step a gives the last approval.
SonOnay(t, a) ==
    /\ durum[t] = "bekliyor"
    /\ a \notin onaylar[t]
    /\ onaylar' = [onaylar EXCEPT ![t] = @ \cup {a}]
    /\ durum' = [durum EXCEPT ![t] = "onaylandi"]
    /\ UNCHANGED asama

\* An approver rejects, or the requester withdraws, an open request.
Kapat(t, sonuc) ==
    /\ durum[t] = "bekliyor"
    /\ durum' = [durum EXCEPT ![t] = sonuc]
    /\ UNCHANGED <<asama, onaylar>>

Next ==
    \E t \in Talep :
        \/ Ac(t)
        \/ \E a \in Adim : AdimGec(t, a) \/ SonOnay(t, a)
        \/ Kapat(t, "reddedildi")
        \/ Kapat(t, "iptal")

Spec == Init /\ [][Next]_degiskenler
=============================================================================
