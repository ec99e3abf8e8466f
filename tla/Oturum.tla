------------------------------- MODULE Oturum -------------------------------
(***************************************************************************)
(* What the handlers of all modules have in common: the threads of the     *)
(* server, and the sessions of Flask-SQLAlchemy they work in.              *)
(*                                                                         *)
(* A handler loads a row, decides on that copy and commits later; it locks *)
(* nothing in between.  At the commit only the columns are written whose   *)
(* value differs from the one that was loaded.  So a handler is an action  *)
(* that reads (Basla) and fixes the columns to write, and an action that   *)
(* applies them to the row as it is then (Bitti).                          *)
(***************************************************************************)
EXTENDS Naturals, FiniteSets

CONSTANTS
    Istekler,  \* threads of the server
    Yok

ASSUME OturumAssumption == IsFiniteSet(Istekler)

VARIABLES
    isci,   \* the threads in service
    istek   \* what the handler running in each thread will write

oturum == <<isci, istek>>

Bos == [is |-> "bos"]

\* One thread, or all of them, serve requests.
OturumInit ==
    /\ \/ isci = Istekler
       \/ \E i \in Istekler : isci = {i}
    /\ istek = [i \in Istekler |-> Bos]

\* One thread serves all requests, one after the other.
Sirali == \A i, j \in isci : i = j

\* Thread i has read what it needs and will write r.
Basla(i, r) ==
    /\ i \in isci
    /\ istek[i] = Bos
    /\ istek' = [istek EXCEPT ![i] = r]
    /\ UNCHANGED isci

\* Thread i has committed, or given up.
Bitti(i) ==
    /\ istek' = [istek EXCEPT ![i] = Bos]
    /\ UNCHANGED isci

\* The columns of a loaded row that have got another value, with that value.
Fark(eski, yeni) ==
    [k \in {c \in DOMAIN yeni : yeni[c] # eski[c]} |-> yeni[k]]

\* The row after the columns in fark are written to it.
Uygula(satir, fark) ==
    [k \in DOMAIN satir |-> IF k \in DOMAIN fark THEN fark[k] ELSE satir[k]]

HicFark == [k \in {} |-> Yok]
=============================================================================
