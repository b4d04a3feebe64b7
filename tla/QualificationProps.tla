------------------------ MODULE QualificationProps ------------------------
(***************************************************************************)
(* What the qualification of a fiche must satisfy.  Several of these are the *)
(* controls of tools/dev/audit-coherence.sql ("Sur une base saine, tous les   *)
(* compteurs valent 0"), stated of every reachable state.                     *)
(***************************************************************************)
EXTENDS Qualification

Consignees(f) == {t \in Tentatives : appel[t].fiche = f /\ tentative[t] # 0}

Dernieres(f) == {t \in Consignees(f) : \A u \in Consignees(f) : tentative[u] <= tentative[t]}

ALHeure(f) == Consignees(f) \intersect tardives = {}

Conclut(r, op) == tx[r].op = op /\ tx[r].etape # "fin" /\ tx'[r].reponse = "applied"

-----------------------------------------------------------------------------
(* An attempt is applied once, however often and in however many requests the  *)
(* console sends it: the duplicate check of PreVol is made under the lock.     *)
EffetUnique == \A t \in Tentatives : effets[t] = IF tentative[t] = 0 THEN 0 ELSE 1

(* lastCallAt and lastCallById are those of the most recent call recorded on   *)
(* the fiche, in whatever order the calls arrive (CorrigerProspect).           *)
DernierAppelExact == \A f \in Fiches :
  IF Consignees(f) = {} THEN fiche[f].appelAt = 0
  ELSE \E t \in Dernieres(f) : fiche[f].appelAt = tentative[t] /\ fiche[f].appelant = appel[t].agent

(* A device ahead of the server does not freeze the last call of the fiche      *)
(* (the clamp of ConsignerTentative): lastCallAt is at most now plus tolerance. *)
DernierAppelPlausible == \A f \in Fiches : fiche[f].appelAt <= horloge + Tolerance

(* "la fiche prend le statut de son dernier appel": the state of a fiche is the *)
(* one its most recent call gives.                                             *)
StatutSuitDernierAppel == \A f \in Fiches : Consignees(f) # {} =>
  \E t \in Dernieres(f) : fiche[f].phase2 = PhaseDe[RegleDe(appel[t])]

(* The same, as long as no call reached the server after a more recent one.     *)
StatutSuitDernierAppelALHeure == \A f \in Fiches : Consignees(f) # {} /\ ALHeure(f) =>
  \E t \in Dernieres(f) : fiche[f].phase2 = PhaseDe[RegleDe(appel[t])]

(* A fiche whose last call promised a callback is in a queue: the callback is   *)
(* pending, unless someone cancelled it ("autrement la fiche ne figurerait dans *)
(* aucune file", PlanifierRappel).                                             *)
PromesseDansLaFile == \A f \in Fiches :
  ALHeure(f) /\ (\E t \in Consignees(f) : Dernieres(f) = {t} /\ AccepteRappel(RegleDe(appel[t])))
    => \E i \in Requetes : tx[i].fiche = f /\ rappel[i].etat \in {"PENDING", "CANCELLED"}

(* audit-coherence: a pending callback is on a fiche in progress or on an       *)
(* appointment.                                                               *)
RappelSurFicheOuverte == \A f \in Fiches :
  EnAttente(f) # {} => fiche[f].phase2 \in {"PENDING", "APPOINTMENT"}

(* audit-coherence: no callback is pending on a deleted fiche.                  *)
RappelSurFicheVivante == \A f \in Fiches : EnAttente(f) # {} => ~fiche[f].supprimee

(* audit-coherence: the journey of the project has the state of the fiche.      *)
ParcoursAccorde == \A f \in Fiches :
  parcours[f].existe /\ ~parcours[f].methode => parcours[f].phase2 = fiche[f].phase2

(* A living GRAND_PUBLIC fiche and its journey are converted or sold together,  *)
(* although the sale writes the fiche first and the conversion the journey.     *)
ClosAccorde == \A f \in Fiches : fiche[f].projet = "GRAND_PUBLIC" /\ ~fiche[f].supprimee =>
  (fiche[f].statut \in Clos <=> parcours[f].statut \in Clos)

-----------------------------------------------------------------------------
(* No attempt is applied to a fiche converted, sold or deleted: the refusal of  *)
(* PreVol still holds when the writes are made.                                *)
ConvertieFigee == [][\A t \in Tentatives : effets'[t] # effets[t] =>
  LET l == fiche[appel[t].fiche] IN l.statut \notin Clos /\ ~l.supprimee]_vars

(* No call and no gesture takes a fiche out of CONVERTI or VENDU, the late ones  *)
(* included: every status written back was checked under the lock that writes it. *)
ClosDefinitif == [][\A f \in Fiches : fiche[f].statut \in Clos => fiche'[f].statut \in Clos]_vars

(* "L'enrolement est un fait acquis": only the management takes an obtained     *)
(* method away, by putting the fiche back or by correcting the method.          *)
MethodeAcquise == [][\A f \in Fiches : fiche[f].methode /\ ~fiche'[f].methode =>
  \E r \in Requetes : Conclut(r, "remettre") \/ Conclut(r, "methode")]_vars

(* "Le rejeu n'est PAS reverifie": an attempt already recorded is never refused. *)
RejeuAccepte == [][\A r \in Requetes :
  tx[r].reponse = "" /\ tx'[r].reponse = "refus" /\ tx'[r].op = "tentative"
    => tentative[tx'[r].t] = 0]_vars

(* "Une fiche convertie ou vendue ne se requalifie pas."                        *)
RequalificationRefusee == [][\A r \in Requetes :
  Conclut(r, "requalifier") => fiche[tx[r].fiche].statut \notin Clos]_vars

-----------------------------------------------------------------------------
(* The rows of scheduled_callbacks are the register of Promesse: whatever the   *)
(* interleaving of calls, gestures, cancellations and restorations, and of the  *)
(* two statements that give a promise up and make the next, each step is one    *)
(* step of the register, or none.                                              *)
Registre == INSTANCE Promesse WITH
  Promesses <- Requetes,
  etat <- [i \in Requetes |-> rappel[i].etat],
  pour <- [i \in Requetes |-> IF rappel[i].etat = "ABSENT" THEN Rien ELSE tx[i].fiche]

RegistreDesPromesses == Registre!Spec

-----------------------------------------------------------------------------
(* Under the fairness of a server that goes on with every request it has begun, *)
(* and of PostgreSQL that aborts a cycle of waits, every request is answered,   *)
(* although the operations take their two locks in opposite orders.             *)
Equite == \A r \in Requetes : WF_vars(Poursuivre(r)) /\ WF_vars(Interblocage(r))

SpecEquitable == Spec /\ Equite

TouteRequeteAboutit == \A r \in Requetes : EnVol(r) ~> tx[r].etape = "fin"
=============================================================================
