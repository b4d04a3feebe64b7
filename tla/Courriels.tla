------------------------------ MODULE Courriels ------------------------------
(***************************************************************************)
(* The e-mail outbox.  A mail is sent, then written with what became of it;   *)
(* one that failed or fell out of hours is taken up by a periodic replay, or     *)
(* sent again by hand.  Each sending is a request to Brevo made before the row     *)
(* says so: the answer gets lost, the sender stops, two replays overlap, and the    *)
(* delivery events come in at any time.                                              *)
(***************************************************************************)
EXTENDS Naturals, FiniteSets

CONSTANTS
  Nombre,        \* bound on the mails written
  Rejeux,        \* the replays that may overlap: one per running server
  TentativesMax, \* tentativesCourrielMax
  ParRejeu,      \* courrielsParRejeu
  PannesMax,     \* bound on the answers lost and the senders stopped
  RenvoisMax     \* bound on the sendings by hand

VARIABLES
  courriels,   \* "courriels": the rows
  expeditions, \* what each sender is at
  listes,      \* the rows each replay read and has not come to
  ouvrable,    \* working hours
  perimes,     \* the mails from 1 to it were written more than seven days ago
  pannes, renvois,
  partis,      \* history: per mail, the messages Brevo took
  ignores,     \* history: those of them whose sender never knew or never wrote it
  rejetes      \* history: the mails whose bounce the row knows

varsCourriels ==
  <<courriels, expeditions, listes, ouvrable, perimes, pannes, renvois, partis, ignores, rejetes>>

Courriels == 1..Nombre   \* in the order of createdAt

(* Who sends: the request that makes the mail, a replay, an agent. *)
Creation == "creation"
Main == "main"
Expediteurs == Rejeux \union {Creation, Main}

StatutsCourriel == {"EN_ATTENTE", "ENVOYE", "REMIS", "OUVERT", "ECHEC"}

(* Replays have names of their own, and the bounds are numbers. *)
CourrielsBienFormes ==
  /\ Creation \notin Rejeux /\ Main \notin Rejeux
  /\ {Nombre, TentativesMax, PannesMax, RenvoisMax} \subseteq Nat

Resultats == [statut : {"EN_COURS", "ENVOYE", "ECHEC"}, message : Nat]

TypeOKCourriels ==
  /\ courriels \in [Courriels -> [statut : StatutsCourriel \union {"ABSENT"}, tentatives : 0..TentativesMax,
                               message : Nat]]
  /\ expeditions \in [Expediteurs -> [courriel : 0..Nombre, resultat : Resultats]]
  /\ listes \in [Rejeux -> SUBSET Courriels]
  /\ ouvrable \in BOOLEAN /\ perimes \in 0..Nombre /\ pannes \in 0..PannesMax /\ renvois \in 0..RenvoisMax
  /\ partis \in [Courriels -> Nat] /\ ignores \in [Courriels -> Nat]
  /\ rejetes \subseteq Courriels

Absente == [statut |-> "ABSENT", tentatives |-> 0, message |-> 0]
EnCours == [statut |-> "EN_COURS", message |-> 0]
AuRepos == [courriel |-> 0, resultat |-> EnCours]

InitCourriels ==
  /\ courriels = [c \in Courriels |-> Absente]
  /\ expeditions = [x \in Expediteurs |-> AuRepos]
  /\ listes = [r \in Rejeux |-> {}]
  /\ ouvrable = TRUE /\ perimes = 0 /\ pannes = 0 /\ renvois = 0
  /\ partis = [c \in Courriels |-> 0] /\ ignores = [c \in Courriels |-> 0]
  /\ rejetes = {}

-----------------------------------------------------------------------------
Occupe(x) == expeditions[x].courriel # 0

(* The row is locked while a replay or an agent sends it. *)
Verrouillee(c) == \E x \in Expediteurs \ {Creation} : expeditions[x].courriel = c

Prendre(x, c) == expeditions' = [expeditions EXCEPT ![x].courriel = c]
Liberer(x) == expeditions' = [expeditions EXCEPT ![x] = AuRepos]

(* Brevo takes the message and says so, takes it and the answer gets lost, or    *)
(* refuses; a mail without an answer counts as failed.                              *)
Expedier(x) ==
  LET c == expeditions[x].courriel
      n == partis[c] + 1
      echec == [statut |-> "ECHEC", message |-> 0]
      Prend == partis' = [partis EXCEPT ![c] = n]
      Rend(resultat) == expeditions' = [expeditions EXCEPT ![x].resultat = resultat]
  IN /\ Occupe(x) /\ expeditions[x].resultat = EnCours
     /\ \/ Prend /\ Rend([statut |-> "ENVOYE", message |-> n]) /\ UNCHANGED <<pannes, ignores>>
        \/ /\ pannes < PannesMax /\ pannes' = pannes + 1
           /\ Prend /\ Rend(echec) /\ ignores' = [ignores EXCEPT ![c] = @ + 1]
        \/ Rend(echec) /\ UNCHANGED <<partis, pannes, ignores>>
     /\ UNCHANGED <<courriels, listes, ouvrable, renvois, rejetes, perimes>>

(* The server stops, or its transaction does not commit: what it did is undone,   *)
(* but for the message.                                                              *)
Interrompre(x) ==
  LET c == expeditions[x].courriel
      perdu == expeditions[x].resultat.statut = "ENVOYE"
  IN /\ Occupe(x) /\ pannes < PannesMax /\ pannes' = pannes + 1
     /\ ignores' = [ignores EXCEPT ![c] = IF perdu THEN @ + 1 ELSE @]
     /\ Liberer(x)
     /\ listes' = [r \in Rejeux |-> IF r = x THEN {} ELSE listes[r]]
     /\ UNCHANGED <<courriels, ouvrable, renvois, partis, rejetes, perimes>>

-----------------------------------------------------------------------------
(* EnvoyerCourriel: the row is inserted after the sending, or without one out of *)
(* hours.                                                                            *)
Inserer(c, statut, message) ==
  courriels' = [courriels EXCEPT ![c] = [statut |-> statut, tentatives |-> 0, message |-> message]]

Suivant(c) == courriels[c].statut = "ABSENT" /\ partis[c] = 0 /\ c = 1 + Cardinality(
  {d \in Courriels : courriels[d].statut # "ABSENT" \/ partis[d] > 0})

EnvoyerCourriel(c) ==
  /\ ~Occupe(Creation) /\ Suivant(c)
  /\ IF ouvrable THEN Prendre(Creation, c) /\ UNCHANGED courriels
     ELSE Inserer(c, "EN_ATTENTE", 0) /\ UNCHANGED expeditions
  /\ UNCHANGED <<listes, ouvrable, perimes, pannes, renvois, partis, ignores, rejetes>>

EcrireLeNouveau ==
  LET e == expeditions[Creation]
  IN /\ Occupe(Creation) /\ e.resultat # EnCours
     /\ Inserer(e.courriel, e.resultat.statut, e.resultat.message)
     /\ Liberer(Creation)
     /\ UNCHANGED <<listes, ouvrable, perimes, pannes, renvois, partis, ignores, rejetes>>

-----------------------------------------------------------------------------
(* The replay: in working hours, the oldest rows that did not leave and have      *)
(* tries left, read up front; then each of them under its lock.                     *)
Rejouable(c) ==
  courriels[c].statut \in {"ECHEC", "EN_ATTENTE"} /\ courriels[c].tentatives < TentativesMax

(* ORDER BY "createdAt" LIMIT courrielsParRejeu. *)
Premiers(S) == {c \in S : Cardinality({d \in S : d < c}) < ParRejeu}

CourrielsARejouerSansPlafond ==
  Premiers({c \in Courriels : courriels[c].statut \in {"ECHEC", "EN_ATTENTE"} /\ c > perimes})

(* A mail is given up seven days after it was written, whatever tries it has left. *)
CourrielsARejouer == Premiers({c \in Courriels : Rejouable(c) /\ c > perimes})

Commencer(r) ==
  /\ ouvrable /\ listes[r] = {} /\ ~Occupe(r)
  /\ CourrielsARejouer # {}
  /\ listes' = [listes EXCEPT ![r] = CourrielsARejouer]
  /\ UNCHANGED <<courriels, expeditions, ouvrable, perimes, pannes, renvois, partis, ignores, rejetes>>

ReserverSansRelire(c) == ~Verrouillee(c) /\ courriels[c].statut \in StatutsCourriel

ReserverSansTentatives(c) == ~Verrouillee(c) /\ courriels[c].statut \in {"ECHEC", "EN_ATTENTE"}

(* CourrielReserverRejeu: the row is read again, and skipped if another has it. *)
Reserver(c) == ~Verrouillee(c) /\ Rejouable(c)

ReserverRejeu(r) ==
  /\ ~Occupe(r)
  /\ \E c \in listes[r] :
       /\ \A d \in listes[r] : c <= d
       /\ listes' = [listes EXCEPT ![r] = @ \ {c}]
       /\ IF Reserver(c) THEN Prendre(r, c) ELSE UNCHANGED expeditions
  /\ UNCHANGED <<courriels, ouvrable, perimes, pannes, renvois, partis, ignores, rejetes>>

EnregistrerRejeu(r) ==
  LET e == expeditions[r]
  IN /\ Occupe(r) /\ e.resultat # EnCours
     /\ courriels' = [courriels EXCEPT ![e.courriel] = [statut |-> e.resultat.statut,
                     tentatives |-> @.tentatives + 1, message |-> e.resultat.message]]
     /\ Liberer(r)
     /\ UNCHANGED <<listes, ouvrable, perimes, pannes, renvois, partis, ignores, rejetes>>

(* By hand: any row, at any hour, whatever became of it; the tries stay. *)
Renvoyer(c) ==
  /\ ~Occupe(Main) /\ renvois < RenvoisMax /\ renvois' = renvois + 1
  /\ courriels[c].statut # "ABSENT" /\ ~Verrouillee(c)
  /\ Prendre(Main, c)
  /\ UNCHANGED <<courriels, listes, ouvrable, perimes, pannes, partis, ignores, rejetes>>

EcrireRenvoi ==
  LET e == expeditions[Main]
  IN /\ Occupe(Main) /\ e.resultat # EnCours
     /\ courriels' = [courriels EXCEPT ![e.courriel].statut = e.resultat.statut,
                                 ![e.courriel].message = e.resultat.message]
     /\ Liberer(Main)
     /\ UNCHANGED <<listes, ouvrable, perimes, pannes, renvois, partis, ignores, rejetes>>

-----------------------------------------------------------------------------
TentativesEpuiseesOubliees(ligne, statut) ==
  IF ligne.statut = "OUVERT" /\ statut = "REMIS" THEN ligne ELSE [ligne EXCEPT !.statut = statut]

(* CourrielEvenementBrevo: an opened mail is not taken back to delivered; a       *)
(* bounce uses up the tries.                                                         *)
SuiteEvenement(ligne, statut) ==
  CASE ligne.statut = "OUVERT" /\ statut = "REMIS" -> ligne
    [] statut = "ECHEC" -> [ligne EXCEPT !.statut = "ECHEC", !.tentatives = TentativesMax]
    [] OTHER -> [ligne EXCEPT !.statut = statut]

(* Brevo tells what became of the n-th message of a mail.  The row that carries   *)
(* another message, or none yet, ignores it; the one being sent makes it wait.      *)
EvenementBrevo(c, n, statut) ==
  /\ n \in 1..partis[c] /\ courriels[c].message = n /\ ~Verrouillee(c)
  /\ courriels' = [courriels EXCEPT ![c] = SuiteEvenement(@, statut)]
  /\ rejetes' = IF statut = "ECHEC" THEN rejetes \union {c} ELSE rejetes
  /\ UNCHANGED <<expeditions, listes, ouvrable, perimes, pannes, renvois, partis, ignores>>

Heure ==
  /\ ouvrable' = ~ouvrable
  /\ UNCHANGED <<courriels, expeditions, listes, perimes, pannes, renvois, partis, ignores, rejetes>>

(* Seven days since a mail was written, and since those before it. *)
Vieillir(c) ==
  /\ c > perimes /\ courriels[c].statut # "ABSENT" /\ perimes' = c
  /\ UNCHANGED <<courriels, expeditions, listes, ouvrable, pannes, renvois, partis, ignores, rejetes>>

Envoi(x) == Expedier(x) \/ Interrompre(x)

Rejeu(r) == ReserverRejeu(r) \/ EnregistrerRejeu(r)

NextCourriels ==
  \/ \E c \in Courriels : EnvoyerCourriel(c) \/ Renvoyer(c) \/ Vieillir(c)
  \/ EcrireLeNouveau \/ EcrireRenvoi
  \/ \E r \in Rejeux : Commencer(r) \/ Rejeu(r)
  \/ \E x \in Expediteurs : Envoi(x)
  \/ \E c \in Courriels, n \in 1..(1 + TentativesMax + RenvoisMax + PannesMax),
        s \in {"REMIS", "OUVERT", "ECHEC"} : EvenementBrevo(c, n, s)
  \/ Heure

(* The scheduler runs the replay every five minutes, so in each stretch of working *)
(* hours; hours come round; a request to Brevo ends, be it by its time limit; the     *)
(* sender then writes the row.                                                          *)
Equite ==
  /\ WF_varsCourriels(Heure)
  /\ \A r \in Rejeux : SF_varsCourriels(Commencer(r)) /\ WF_varsCourriels(Rejeu(r))
  /\ \A x \in Expediteurs : WF_varsCourriels(Expedier(x))
  /\ WF_varsCourriels(EcrireRenvoi)

SpecCourriels == InitCourriels /\ [][NextCourriels]_varsCourriels

FairSpec == SpecCourriels /\ Equite

(* "un second rejeu concurrent la saute au lieu de la renvoyer": without a loss, a *)
(* crash or a hand, Brevo takes each mail once, however many replays had it on       *)
(* their list.                                                                         *)
UnSeulDepart == \A c \in Courriels : partis[c] <= 1 + ignores[c] + renvois

(* "Un rebond ou une plainte sont définitifs : le rejeu ne renvoie pas à une       *)
(* adresse qui a rejeté", not even a replay that had listed the mail before.         *)
RebondDefinitif == \A r \in Rejeux : expeditions[r].courriel \notin rejetes

(* "rien ne se perd": a mail the journal says waiting or failed leaves, or has had all  *)
(* its tries, however many others there are ahead of it, unless seven days go by first:   *)
(* what a long stop kept waiting, or a hand sent again too late, is replayed no more.      *)
RienNeSePerd == \A c \in Courriels : Rejouable(c) ~> (~Rejouable(c) \/ c <= perimes)

=============================================================================
