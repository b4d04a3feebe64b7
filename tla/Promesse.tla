------------------------------ MODULE Promesse ------------------------------
(***************************************************************************)
(* What the callbacks of the CRM promise, whoever writes them and in how many *)
(* steps: a register of promises, each made once for one fiche.  At most one   *)
(* is to be kept for a fiche; a new one replaces it, a call keeps it, its      *)
(* owner or the deletion of the fiche cancels it, and only a cancelled one      *)
(* may come back, when no other took its place.                                *)
(***************************************************************************)
CONSTANTS Promesses, Fiches, Rien

VARIABLES
  etat, \* etat[i]: where promise i stands
  pour  \* pour[i]: the fiche it was made for, Rien before it is made

vars == <<etat, pour>>

Etats == {"ABSENT", "PENDING", "DONE", "SUPERSEDED", "CANCELLED"}

Init ==
  /\ etat = [i \in Promesses |-> "ABSENT"]
  /\ pour = [i \in Promesses |-> Rien]

DueA(f) == {i \in Promesses : pour[i] = f /\ etat[i] = "PENDING"}

Passent(due, vers) == [i \in Promesses |-> IF i \in due THEN vers ELSE etat[i]]

Promettre(i, f) ==
  /\ etat[i] = "ABSENT"
  /\ etat' = [Passent(DueA(f), "SUPERSEDED") EXCEPT ![i] = "PENDING"]
  /\ pour' = [pour EXCEPT ![i] = f]

Tenir(f) ==
  /\ etat' = Passent(DueA(f), "DONE")
  /\ UNCHANGED pour

AnnulerCelleDe(f) ==
  /\ etat' = Passent(DueA(f), "CANCELLED")
  /\ UNCHANGED pour

Retablir(i) ==
  /\ etat[i] = "CANCELLED"
  /\ DueA(pour[i]) = {}
  /\ etat' = [etat EXCEPT ![i] = "PENDING"]
  /\ UNCHANGED pour

Next ==
  \/ \E f \in Fiches : Tenir(f) \/ AnnulerCelleDe(f) \/ \E i \in Promesses : Promettre(i, f)
  \/ \E i \in Promesses : Retablir(i)

Spec == Init /\ [][Next]_vars

-----------------------------------------------------------------------------
TypeOK ==
  /\ etat \in [Promesses -> Etats]
  /\ pour \in [Promesses -> Fiches \union {Rien}]

(* Two people are never expected to call the same fiche back. *)
UneSeuleDue == \A f \in Fiches : \A i, j \in DueA(f) : i = j
=============================================================================
