------------------------ MODULE QualificationProofs ------------------------
(***************************************************************************)
(* What holds of Qualification for any number of fiches, attempts, requests  *)
(* and agents, part after part:                                              *)
(*   - the tables, the requests and the locks are well typed, and the locks  *)
(*     do what the checks made under them rely on;                           *)
(*   - the callbacks are a register of promises (it implements Promesse);    *)
(*   - the last call of a fiche is the latest of those recorded;             *)
(*   - an obtained method is only withdrawn by a gesture made to do so;      *)
(*   - a fiche and its journey are closed together, and in the same state;   *)
(*   - the state of a fiche, its queue and its callbacks follow its calls.   *)
(* The last three hold under hypotheses on the operations that run, which    *)
(* their theorems state.                                                     *)
(***************************************************************************)
EXTENDS QualificationProps, TLAPS

-----------------------------------------------------------------------------
(***************************************************************************)
(* What the helpers of the model return.                                     *)
(***************************************************************************)
LEMMA PhaseDeType == PhaseDe \in [Effets -> Phases]
BY DEF PhaseDe, Effets, Phases

LEMMA ClasseeType ==
  ASSUME NEW l \in LignesFiche, NEW p, NEW regle \in Effets, NEW effet, NEW methode \in BOOLEAN
  PROVE  FicheClassee(l, p, regle, effet, methode) \in LignesFiche
<1>1. PhaseDe[regle] \in Phases
  BY PhaseDeType
<1>2. (l.methode \/ methode) \in BOOLEAN
  OBVIOUS
<1>3. (IF effet = "CLOSE_LOST" /\ l.statut \notin Clos THEN "PERDU" ELSE l.statut) \in Statuts
  BY DEF LignesFiche, Statuts
<1> QED
  BY <1>1, <1>2, <1>3 DEF FicheClassee, LignesFiche

LEMMA ParcoursType ==
  ASSUME NEW p \in LignesParcours, NEW regle \in Effets, NEW methode \in BOOLEAN
  PROVE  ParcoursClasse(p, regle, methode) \in LignesParcours
BY PhaseDeType DEF ParcoursClasse, LignesParcours

LEMMA PremierAppelType ==
  ASSUME NEW s \in Statuts
  PROVE  PremierAppel(s) \in Statuts
BY DEF PremierAppel, Statuts

LEMMA AppeleeType ==
  ASSUME NEW l \in LignesFiche, NEW a \in Appels, a.motif \in Motifs, a.agent \in Agents,
         NEW instant \in Nat
  PROVE  FicheAppelee(l, a, instant) \in LignesFiche
BY PremierAppelType DEF FicheAppelee, LignesFiche, Comptes

LEMMA StatutType ==
  ASSUME NEW l \in LignesFiche, NEW p \in LignesParcours, NEW s \in Statuts
  PROVE  [l EXCEPT !.statut = s] \in LignesFiche /\ [p EXCEPT !.statut = s] \in LignesParcours
BY DEF LignesFiche, LignesParcours

LEMMA PhaseType ==
  ASSUME NEW l \in LignesFiche, NEW p \in LignesParcours, NEW phase \in Phases, NEW m \in BOOLEAN
  PROVE  /\ [l EXCEPT !.methode = m, !.phase2 = phase] \in LignesFiche
         /\ [p EXCEPT !.methode = m, !.phase2 = phase] \in LignesParcours
BY DEF LignesFiche, LignesParcours

LEMMA LigneMotif ==
  ASSUME NEW l \in LignesFiche, NEW m \in Motifs
  PROVE  [l EXCEPT !.motif = m] \in LignesFiche
<1>1. m \in Motifs \union {Rien}
  OBVIOUS
<1> QED
  BY <1>1 DEF LignesFiche

LEMMA LigneTitulaire ==
  ASSUME NEW l \in LignesFiche, NEW c \in Comptes
  PROVE  [l EXCEPT !.titulaire = c] \in LignesFiche
BY DEF LignesFiche

LEMMA LigneSupprimee ==
  ASSUME NEW l \in LignesFiche
  PROVE  [l EXCEPT !.supprimee = TRUE] \in LignesFiche
BY DEF LignesFiche

LEMMA LigneRemise ==
  ASSUME NEW l \in LignesFiche
  PROVE  [l EXCEPT !.statut = "NOUVEAU", !.phase2 = "PENDING", !.methode = FALSE] \in LignesFiche
<1>1. "NOUVEAU" \in Statuts /\ "PENDING" \in Phases
  BY DEF Statuts, Phases
<1> QED
  BY <1>1 DEF LignesFiche

LEMMA ParcoursNeufType ==
  ASSUME NEW existe \in BOOLEAN
  PROVE  ParcoursNeuf(existe) \in LignesParcours
BY DEF ParcoursNeuf, LignesParcours, Statuts, Phases

LEMMA RequeteVideType == RequeteVide \in Transactions
BY DEF RequeteVide, Transactions, Etapes, Reponses

LEMMA TerminerType ==
  ASSUME TypeOK, NEW r \in Requetes, NEW reponse \in Reponses, Terminer(r, reponse)
  PROVE  /\ tx' \in [Requetes -> Transactions]
         /\ verrouFiche' \in [Fiches -> SUBSET Requetes]
         /\ verrouParcours' \in [Fiches -> SUBSET Requetes]
<1>1. tx[r] \in Transactions
  BY DEF TypeOK
<1>2. [RequeteVide EXCEPT !.op = tx[r].op, !.fiche = tx[r].fiche, !.t = tx[r].t,
         !.etape = "fin", !.reponse = reponse] \in Transactions
  BY <1>1, RequeteVideType DEF Transactions, Etapes
<1> QED
  BY <1>2 DEF Terminer, TypeOK

LEMMA CommencerType ==
  ASSUME TypeOK, NEW r \in Requetes, NEW q \in Transactions, Commencer(r, q)
  PROVE  tx' \in [Requetes -> Transactions]
BY DEF Commencer, TypeOK

LEMMA PasserType ==
  ASSUME TypeOK, NEW r \in Requetes, NEW op, NEW de, NEW vers \in Etapes, Passer(r, op, de, vers)
  PROVE  tx' \in [Requetes -> Transactions]
<1>1. tx[r] \in Transactions
  BY DEF TypeOK
<1>2. [tx[r] EXCEPT !.etape = vers] \in Transactions
  BY <1>1 DEF Transactions
<1> QED
  BY <1>2 DEF Passer, TypeOK

LEMMA PrendreFicheType ==
  ASSUME TypeOK, NEW r \in Requetes, PrendreFiche(r)
  PROVE  verrouFiche' \in [Fiches -> SUBSET Requetes]
BY DEF PrendreFiche, TypeOK

LEMMA PrendreParcoursType ==
  ASSUME TypeOK, NEW r \in Requetes, PrendreParcours(r)
  PROVE  verrouParcours' \in [Fiches -> SUBSET Requetes]
BY DEF PrendreParcours, TypeOK

LEMMA EntamerRappelsType ==
  ASSUME TypeOK, NEW r \in Requetes, NEW etape \in Etapes, EntamerRappels(r, etape)
  PROVE  tx' \in [Requetes -> Transactions]
<1>1. EnAttente(tx[r].fiche) \in SUBSET Requetes
  BY DEF EnAttente
<1>2. tx[r] \in Transactions
  BY DEF TypeOK
<1>3. [tx[r] EXCEPT !.etape = etape, !.pris = EnAttente(tx[r].fiche)] \in Transactions
  BY <1>1, <1>2 DEF Transactions
<1> QED
  BY <1>3 DEF EntamerRappels, TypeOK

LEMMA RappelsType ==
  ASSUME TypeOK, NEW r \in Requetes, NEW regle, NEW agent \in Agents \union {Rien}, NEW vus
  PROVE  RappelsClasses(r, regle, agent, vus) \in [Requetes -> LignesRappel]
BY DEF RappelsClasses, TypeOK, LignesRappel, EtatsRappel

-----------------------------------------------------------------------------
(***************************************************************************)
(* A request is on a fiche, and an attempt in flight is on a call that was    *)
(* made, by an agent, for a reason: an invariant of its own, because the       *)
(* tables are well typed only thanks to it.                                  *)
(***************************************************************************)
Renseignee(r) ==
  /\ EnVol(r) => tx[r].fiche \in Fiches
  /\ tx[r].op = "tentative" /\ EnVol(r) =>
       /\ tx[r].t \in Tentatives
       /\ appel[tx[r].t].instant > 0
       /\ tx[r].fiche = appel[tx[r].t].fiche
       /\ tx[r].instant > 0
  /\ tx[r].op = "requalifier" /\ EnVol(r) =>
       tx[r].motif \in Motifs /\ tx[r].agent \in Agents
  /\ tx[r].op = "affecter" /\ EnVol(r) => tx[r].agent \in Agents

AppelsFaits == \A t \in Tentatives : appel[t].instant > 0 =>
  appel[t] \in AppelsPossibles

ToutRenseigne == AppelsFaits /\ \A r \in Requetes : Renseignee(r)

Typage == TypeOK /\ ToutRenseigne

LEMMA InitTypage == Init => Typage
<1> SUFFICES ASSUME Init PROVE Typage
  OBVIOUS
<1>1. AppelVide \in Appels
  BY BornesAssumption DEF AppelVide, Appels
<1>2. FichesSaisies \union FichesImportees \subseteq LignesFiche
  <2>1. ASSUME NEW projet \in {"CHUES", "GRAND_PUBLIC"}, NEW c \in Comptes,
               NEW phase \in {"PENDING", "METHOD_OBTAINED"}
        PROVE  FicheNeuve(projet, c, phase) \in LignesFiche
    <3>1. (phase = "METHOD_OBTAINED") \in BOOLEAN /\ "NOUVEAU" \in Statuts /\ phase \in Phases
      BY DEF Statuts, Phases
    <3> QED
      BY <3>1 DEF FicheNeuve, LignesFiche
  <2> QED
    BY <2>1 DEF FichesSaisies, FichesImportees, Comptes
<1>3. \A b \in BOOLEAN : ParcoursNeuf(b) \in LignesParcours
  BY ParcoursNeufType
<1>4. TypeOK
  <2>1. fiche \in [Fiches -> LignesFiche] /\ parcours \in [Fiches -> LignesParcours]
    BY <1>2, <1>3 DEF Init
  <2>2. rappel \in [Requetes -> LignesRappel]
    BY DEF Init, LignesRappel, EtatsRappel
  <2>3. horloge \in 1..HorlogeMax
    BY BornesAssumption DEF Init
  <2> QED
    BY <1>1, <2>1, <2>2, <2>3, RequeteVideType DEF Init, TypeOK
<1>5. ToutRenseigne
  <2>1. \A t \in Tentatives : appel[t].instant = 0
    BY DEF Init, AppelVide
  <2>2. \A r \in Requetes : tx[r].etape = "libre"
    BY DEF Init, RequeteVide
  <2> QED
    BY <2>1, <2>2 DEF ToutRenseigne, AppelsFaits, Renseignee, EnVol
<1> QED
  BY <1>4, <1>5 DEF Typage

LEMMA FinRenseignee ==
  ASSUME Typage, NEW r \in Requetes, NEW reponse, Terminer(r, reponse), UNCHANGED appel
  PROVE  ToutRenseigne'
<1>1. tx'[r].etape = "fin" /\ \A s \in Requetes \ {r} : tx'[s] = tx[s]
  BY DEF Terminer, Typage, TypeOK, RequeteVide
<1> QED
  BY <1>1 DEF Typage, ToutRenseigne, AppelsFaits, Renseignee, EnVol

LEMMA SuiteRenseignee ==
  ASSUME Typage, NEW r \in Requetes, EnVol(r), UNCHANGED appel,
         \A s \in Requetes \ {r} : tx'[s] = tx[s],
         /\ tx'[r].op = tx[r].op /\ tx'[r].fiche = tx[r].fiche /\ tx'[r].t = tx[r].t
         /\ tx'[r].motif = tx[r].motif /\ tx'[r].agent = tx[r].agent
         /\ tx'[r].instant = tx[r].instant
  PROVE  ToutRenseigne'
BY DEF Typage, ToutRenseigne, AppelsFaits, Renseignee, EnVol

LEMMA PasserTypage ==
  ASSUME Typage, NEW r \in Requetes, NEW op, NEW de, NEW vers \in Etapes, Passer(r, op, de, vers),
         de \notin {"libre", "fin"}, UNCHANGED <<horloge, appel, fiche, parcours, rappel, tentative, histoire>>,
         assigne' \in [Fiches -> Agents \union {Rien}],
         verrouFiche' \in [Fiches -> SUBSET Requetes],
         verrouParcours' \in [Fiches -> SUBSET Requetes]
  PROVE  Typage'
<1>1. tx' \in [Requetes -> Transactions]
  BY PasserType DEF Typage
<1>2. ToutRenseigne'
  <2>1. tx[r] \in Transactions
    BY DEF Typage, TypeOK
  <2>2. tx' = [tx EXCEPT ![r] = [tx[r] EXCEPT !.etape = vers]] /\ EnVol(r)
    BY DEF Passer, EnVol
  <2>3. tx'[r] = [tx[r] EXCEPT !.etape = vers] /\ \A s \in Requetes \ {r} : tx'[s] = tx[s]
    BY <2>2 DEF Typage, TypeOK
  <2>4. /\ tx'[r].op = tx[r].op /\ tx'[r].fiche = tx[r].fiche /\ tx'[r].t = tx[r].t
        /\ tx'[r].motif = tx[r].motif /\ tx'[r].agent = tx[r].agent
        /\ tx'[r].instant = tx[r].instant
    BY <2>1, <2>3 DEF Transactions
  <2> QED
    BY <2>2, <2>3, <2>4, SuiteRenseignee
<1> QED
  BY <1>1, <1>2 DEF Typage, TypeOK, histoire

LEMMA EntamerTypage ==
  ASSUME Typage, NEW r \in Requetes, EnVol(r), NEW etape \in Etapes, EntamerRappels(r, etape),
         UNCHANGED <<horloge, appel, base, histoire>>,
         verrouFiche' \in [Fiches -> SUBSET Requetes],
         verrouParcours' \in [Fiches -> SUBSET Requetes]
  PROVE  Typage'
<1>1. tx' \in [Requetes -> Transactions]
  BY EntamerRappelsType DEF Typage
<1>2. ToutRenseigne'
  <2>1. tx[r] \in Transactions
    BY DEF Typage, TypeOK
  <2>2. tx' = [tx EXCEPT ![r] = [tx[r] EXCEPT !.etape = etape, !.pris = EnAttente(tx[r].fiche)]]
    BY DEF EntamerRappels
  <2> QED
    BY <2>1, <2>2, SuiteRenseignee DEF Typage, TypeOK, Transactions
<1> QED
  BY <1>1, <1>2 DEF Typage, TypeOK, histoire, base

LEMMA TerminerTypage ==
  ASSUME Typage, NEW r \in Requetes, NEW reponse \in Reponses, Terminer(r, reponse),
         UNCHANGED <<horloge, appel>>,
         fiche' \in [Fiches -> LignesFiche],
         parcours' \in [Fiches -> LignesParcours],
         rappel' \in [Requetes -> LignesRappel],
         tentative' \in [Tentatives -> Nat],
         assigne' \in [Fiches -> Agents \union {Rien}],
         effets' \in [Tentatives -> Nat],
         tardives' \subseteq Tentatives
  PROVE  Typage'
BY TerminerType, FinRenseignee DEF Typage, TypeOK

LEMMA CommencerTypage ==
  ASSUME Typage, NEW r \in Requetes, NEW q \in Transactions, Commencer(r, q),
         UNCHANGED <<horloge, appel, base, verrous, histoire>>,
         q.etape \notin {"libre", "fin"} =>
           /\ q.fiche \in Fiches
           /\ q.op = "tentative" => /\ q.t \in Tentatives /\ appel[q.t].instant > 0
                                    /\ q.fiche = appel[q.t].fiche /\ q.instant > 0
           /\ q.op = "requalifier" => q.motif \in Motifs /\ q.agent \in Agents
           /\ q.op = "affecter" => q.agent \in Agents
  PROVE  Typage'
<1>1. tx' \in [Requetes -> Transactions]
  BY CommencerType DEF Typage
<1>2. ToutRenseigne'
  BY DEF Commencer, Typage, TypeOK, ToutRenseigne, AppelsFaits, Renseignee, EnVol
<1> QED
  BY <1>1, <1>2 DEF Typage, TypeOK, base, verrous, histoire

-----------------------------------------------------------------------------
(***************************************************************************)
(* Each operation keeps the tables well typed: the calls, then the gestures,  *)
(* then the callbacks and the failures.                                      *)
(***************************************************************************)
LEMMA ReceptionTypage ==
  ASSUME Typage, NEW r \in Requetes, Recevoir(r)
  PROVE  Typage'
<1>1. CASE \E t \in Tentatives : AdmettreTentative(r, t)
  <2>1. PICK t \in Tentatives : AdmettreTentative(r, t)
    BY <1>1
  <2>2. appel[t] \in AppelsPossibles /\ appel[t].instant > 0
    BY <2>1 DEF AdmettreTentative, Typage, ToutRenseigne, AppelsFaits
  <2>3. InstantRetenu(t) \in Nat /\ InstantRetenu(t) > 0
    BY <2>2, BornesAssumption DEF InstantRetenu, AppelsPossibles, Typage, TypeOK
  <2>4. RequeteTentative(t) \in Transactions
    BY <2>2, <2>3, RequeteVideType
       DEF RequeteTentative, Transactions, AppelsPossibles, Etapes, ToutesOperations
  <2>5. /\ RequeteTentative(t).fiche = appel[t].fiche /\ RequeteTentative(t).t = t
        /\ RequeteTentative(t).instant = InstantRetenu(t) /\ RequeteTentative(t).op = "tentative"
    BY RequeteVideType DEF RequeteTentative, Transactions
  <2> QED
    BY <2>1, <2>2, <2>3, <2>4, <2>5, CommencerTypage DEF AdmettreTentative, AppelsPossibles
<1>2. CASE \E t \in Tentatives : RefuserTentative(r, t)
  <2>1. PICK t \in Tentatives : RefuserTentative(r, t)
    BY <1>2
  <2> DEFINE q == [RequeteVide EXCEPT !.op = "tentative", !.etape = "fin",
                     !.fiche = appel[t].fiche, !.t = t, !.reponse = "refus"]
  <2>2. appel[t].fiche \in Fiches
    BY <2>1 DEF RefuserTentative, Typage, ToutRenseigne, AppelsFaits, AppelsPossibles
  <2>3. q \in Transactions /\ q.etape = "fin"
    BY <2>2, RequeteVideType DEF Transactions, Etapes, Reponses, ToutesOperations
  <2>4. Commencer(r, q) /\ UNCHANGED <<horloge, appel, base, verrous, histoire>>
    BY <2>1 DEF RefuserTentative
  <2> HIDE DEF q
  <2> QED
    BY <2>3, <2>4, CommencerTypage
<1>3. ASSUME NEW f \in Fiches, NEW op \in ToutesOperations
      PROVE  /\ Geste(op, f) \in Transactions /\ Geste(op, f).op = op /\ Geste(op, f).fiche = f
    BY RequeteVideType DEF Geste, Transactions, Etapes
<1>4. ASSUME NEW q \in Transactions, NEW garde, Lire(r, q, garde), q.fiche \in Fiches,
             q.op \in ToutesOperations \ {"tentative"},
             q.op = "requalifier" => q.motif \in Motifs /\ q.agent \in Agents,
             q.op = "affecter" => q.agent \in Agents
      PROVE  Typage'
  BY <1>4, CommencerTypage DEF Lire
<1>5. ASSUME NEW f \in Fiches, NEW op \in ToutesOperations \ {"tentative", "requalifier", "affecter"},
             NEW garde, Lire(r, Geste(op, f), garde)
      PROVE  Typage'
  <2> DEFINE q == Geste(op, f)
  <2>1. q \in Transactions /\ q.op = op /\ q.fiche = f
    BY <1>3
  <2>2. Lire(r, q, garde)
    BY <1>5
  <2> HIDE DEF q
  <2> QED
    BY <1>4, <2>1, <2>2
<1>9. ASSUME NEW f \in Fiches,
             LireConversion(r, f) \/ LireVente(r, f) \/ LireSuppression(r, f) \/ LireRemise(r, f)
      PROVE  Typage'
  <2>1. {"convertir", "vendre", "supprimer", "remettre"}
           \subseteq ToutesOperations \ {"tentative", "requalifier", "affecter"}
    BY DEF ToutesOperations
  <2> QED
    BY <1>5, <1>9, <2>1 DEF LireConversion, LireVente, LireSuppression, LireRemise
<1>6. CASE \E f \in Fiches, methode \in BOOLEAN : LireMethode(r, f, methode)
  <2>1. PICK f \in Fiches, methode \in BOOLEAN : LireMethode(r, f, methode)
    BY <1>6
  <2> DEFINE g == Geste("methode", f)
             q == [g EXCEPT !.methode = methode]
  <2>a. g \in Transactions /\ g.op = "methode" /\ g.fiche = f
    BY <1>3 DEF ToutesOperations
  <2> HIDE DEF g
  <2>2. q \in Transactions /\ q.op = "methode" /\ q.fiche = f
    BY <2>a DEF Transactions
  <2> QED
    BY <1>4, <2>1, <2>2 DEF LireMethode, ToutesOperations, g
<1>7. CASE \E f \in Fiches, vers \in Agents : LireAffectation(r, f, vers)
  <2>1. PICK f \in Fiches, vers \in Agents : LireAffectation(r, f, vers)
    BY <1>7
  <2> DEFINE g == Geste("affecter", f)
             q == [g EXCEPT !.agent = vers]
  <2>a. g \in Transactions /\ g.op = "affecter" /\ g.fiche = f
    BY <1>3 DEF ToutesOperations
  <2> HIDE DEF g
  <2>2. q \in Transactions /\ q.op = "affecter" /\ q.fiche = f /\ q.agent = vers
    BY <2>a DEF Transactions
  <2> QED
    BY <1>4, <2>1, <2>2 DEF LireAffectation, ToutesOperations, g
<1>8. CASE \E f \in Fiches, m \in Motifs, a \in Encadrement : LireRequalification(r, f, m, a)
  <2>1. PICK f \in Fiches, m \in Motifs, a \in Encadrement : LireRequalification(r, f, m, a)
    BY <1>8
  <2> DEFINE b == IF fiche[f].appelant = Rien THEN a ELSE fiche[f].appelant
             g == Geste("requalifier", f)
             q == [g EXCEPT !.motif = m, !.agent = b]
  <2>a. g \in Transactions /\ g.op = "requalifier" /\ g.fiche = f
    BY <1>3 DEF ToutesOperations
  <2>2. b \in Agents
    BY ComptesAssumption DEF Typage, TypeOK, LignesFiche
  <2> HIDE DEF b, g
  <2>3. q \in Transactions /\ q.op = "requalifier" /\ q.fiche = f /\ q.agent = b /\ q.motif = m
    BY <2>a, <2>2 DEF Transactions
  <2> QED
    BY <1>4, <2>1, <2>2, <2>3 DEF LireRequalification, ToutesOperations, g, b
<1> QED
  BY <1>1, <1>2, <1>6, <1>7, <1>8, <1>9 DEF Recevoir

LEMMA TentativeTypage ==
  ASSUME Typage, NEW r \in Requetes,
         \/ VerrouillerFiche(r) \/ FicheIntrouvable(r) \/ Rejeu(r) \/ RefuserConvertie(r)
         \/ EntamerTentative(r) \/ ConclureTentative(r)
  PROVE  Typage'
<1> USE DEF base, histoire
<1>1. CASE VerrouillerFiche(r)
  <2>1. verrouFiche' \in [Fiches -> SUBSET Requetes]
    BY <1>1, PrendreFicheType DEF VerrouillerFiche, Typage
  <2> QED
    BY <1>1, <2>1, PasserTypage DEF VerrouillerFiche, Typage, TypeOK, Etapes
<1>2. CASE FicheIntrouvable(r) \/ Rejeu(r) \/ RefuserConvertie(r)
  BY <1>2, TerminerTypage DEF FicheIntrouvable, Rejeu, RefuserConvertie, Refuser, Typage, TypeOK, Reponses
<1>3. CASE EntamerTentative(r)
  <2>1. verrouParcours' \in [Fiches -> SUBSET Requetes]
    BY <1>3, PrendreParcoursType DEF EntamerTentative, Typage
  <2> QED
    BY <1>3, <2>1, EntamerTypage DEF EntamerTentative, AuPreVol, EnVol, Typage, TypeOK, Etapes
<1>4. CASE ConclureTentative(r)
  <2> DEFINE f == tx[r].fiche
             a == appel[tx[r].t]
             regle == RegleDe(a)
             l == FicheAppelee(fiche[f], a, tx[r].instant)
             p == [parcours[f] EXCEPT !.statut = PremierAppel(@)]
  <2>1. f \in Fiches /\ tx[r].t \in Tentatives /\ a \in AppelsPossibles
    BY <1>4 DEF ConclureTentative, EnVol, Typage, ToutRenseigne, AppelsFaits, Renseignee
  <2>2. /\ a \in Appels /\ a.motif \in Motifs /\ a.agent \in Agents /\ a.methode \in BOOLEAN
        /\ tx[r].instant \in Nat
    BY <2>1 DEF AppelsPossibles, Typage, TypeOK, Transactions
  <2>3. regle \in Effets
    BY <2>2, MotifsAssumption DEF RegleDe, Effets
  <2>4. l \in LignesFiche
    BY <2>1, <2>2, AppeleeType DEF Typage, TypeOK
  <2>a. parcours[f] \in LignesParcours
    BY <2>1 DEF Typage, TypeOK
  <2>b. parcours[f].statut \in Statuts
    BY <2>a DEF LignesParcours
  <2>c. PremierAppel(parcours[f].statut) \in Statuts
    BY <2>b, PremierAppelType
  <2>5. p \in LignesParcours
    BY <2>a, <2>c DEF LignesParcours
  <2>6. fiche' \in [Fiches -> LignesFiche]
    BY <1>4, <2>1, <2>2, <2>3, <2>4, ClasseeType DEF ConclureTentative, Typage, TypeOK
  <2>7. parcours' \in [Fiches -> LignesParcours]
    BY <1>4, <2>1, <2>2, <2>3, <2>5, ParcoursType DEF ConclureTentative, Typage, TypeOK
  <2>8. rappel' \in [Requetes -> LignesRappel]
    <3>1. PICK vus \in RappelsVus(r, regle) : rappel' = RappelsClasses(r, regle, a.agent, vus)
      BY <1>4 DEF ConclureTentative
    <3> QED
      BY <2>2, <3>1, RappelsType DEF Typage
  <2>9. tentative' \in [Tentatives -> Nat] /\ effets' \in [Tentatives -> Nat] /\ tardives' \subseteq Tentatives
    BY <1>4, <2>1, <2>2 DEF ConclureTentative, Typage, TypeOK
  <2> QED
    BY <1>4, <2>6, <2>7, <2>8, <2>9, TerminerTypage DEF ConclureTentative, Typage, TypeOK, Reponses
<1> QED
  BY <1>1, <1>2, <1>3, <1>4

LEMMA VerrouTypage ==
  ASSUME Typage, NEW r \in Requetes,
         \/ VerrouillerParcours(r) \/ VerrouillerVente(r) \/ VerrouillerRemise(r)
         \/ VerrouillerMethode(r) \/ SuivreLaFiche(r)
  PROVE  Typage'
<1> USE DEF base, histoire, verrous
<1>1. CASE VerrouillerParcours(r)
  <2>1. verrouParcours' \in [Fiches -> SUBSET Requetes]
    BY <1>1, PrendreParcoursType DEF VerrouillerParcours, Typage
  <2> QED
    BY <1>1, <2>1, PasserTypage DEF VerrouillerParcours, Typage, TypeOK, Etapes
<1>2. CASE VerrouillerVente(r)
  <2>1. verrouFiche' \in [Fiches -> SUBSET Requetes]
    BY <1>2, PrendreFicheType DEF VerrouillerVente, Typage, TypeOK
  <2> QED
    BY <1>2, <2>1, PasserTypage DEF VerrouillerVente, Typage, TypeOK, Etapes
<1>3. CASE VerrouillerRemise(r)
  <2>1. verrouParcours' \in [Fiches -> SUBSET Requetes]
    BY <1>3, PrendreParcoursType DEF VerrouillerRemise, Typage, TypeOK
  <2> QED
    BY <1>3, <2>1, PasserTypage DEF VerrouillerRemise, Typage, TypeOK, Etapes
<1>4. CASE VerrouillerMethode(r)
  <2>1. verrouParcours' \in [Fiches -> SUBSET Requetes]
    BY <1>4, PrendreParcoursType DEF VerrouillerMethode, Typage, TypeOK
  <2> QED
    BY <1>4, <2>1, PasserTypage DEF VerrouillerMethode, Typage, TypeOK, Etapes
<1>5. CASE SuivreLaFiche(r)
  <2>1. tx[r].agent \in Agents
    BY <1>5 DEF SuivreLaFiche, Passer, EnVol, Typage, ToutRenseigne, Renseignee
  <2>2. assigne' \in [Fiches -> Agents \union {Rien}]
    BY <1>5, <2>1 DEF SuivreLaFiche, Typage, TypeOK
  <2> QED
    BY <1>5, <2>2, PasserTypage DEF SuivreLaFiche, Typage, TypeOK, Etapes
<1> QED
  BY <1>1, <1>2, <1>3, <1>4, <1>5

LEMMA EntameTypage ==
  ASSUME Typage, NEW r \in Requetes, EntamerRequalification(r) \/ EntamerSuppression(r)
  PROVE  Typage'
<1>1. CASE EntamerRequalification(r)
  <2>1. verrouFiche' \in [Fiches -> SUBSET Requetes]
    BY <1>1, PrendreFicheType DEF EntamerRequalification, Typage
  <2> QED
    BY <1>1, <2>1, EntamerTypage DEF EntamerRequalification, EnVol, Typage, TypeOK, Etapes
<1>2. CASE EntamerSuppression(r)
  <2>1. verrouFiche' \in [Fiches -> SUBSET Requetes]
    BY <1>2, PrendreFicheType DEF EntamerSuppression, Typage, TypeOK
  <2> QED
    BY <1>2, <2>1, EntamerTypage DEF EntamerSuppression, EnVol, Typage, TypeOK, Etapes
<1> QED
  BY <1>1, <1>2

LEMMA RequalificationTypage ==
  ASSUME Typage, NEW r \in Requetes, ConclureRequalification(r) \/ EchouerRequalification(r)
  PROVE  Typage'
<1> USE DEF histoire, base
<1>1. CASE ConclureRequalification(r)
  <2> DEFINE f == tx[r].fiche
             e == Effet[tx[r].motif]
             avant == [fiche[f] EXCEPT !.motif = tx[r].motif]
             l == FicheClassee(avant, parcours[f], e, e, FALSE)
  <2>1. f \in Fiches /\ tx[r].motif \in Motifs /\ tx[r].agent \in Agents
    BY <1>1 DEF ConclureRequalification, EnVol, Typage, ToutRenseigne, Renseignee
  <2>2. e \in Effets
    BY <2>1, MotifsAssumption
  <2>a. fiche[f] \in LignesFiche
    BY <2>1 DEF Typage, TypeOK
  <2>3. avant \in LignesFiche
    BY <2>a, <2>1, LigneMotif
  <2>4. l \in LignesFiche
    BY <2>2, <2>3, ClasseeType
  <2>5. fiche' = [fiche EXCEPT ![f] = l] /\ parcours' = [parcours EXCEPT ![f] = ParcoursClasse(parcours[f], e, FALSE)]
    BY <1>1 DEF ConclureRequalification
  <2>6. fiche' \in [Fiches -> LignesFiche]
    BY <2>4, <2>5 DEF Typage, TypeOK
  <2>7. parcours' \in [Fiches -> LignesParcours]
    BY <2>1, <2>2, <2>5, ParcoursType DEF Typage, TypeOK
  <2>8. rappel' \in [Requetes -> LignesRappel]
    <3>1. PICK vus \in RappelsVus(r, e) : rappel' = RappelsClasses(r, e, tx[r].agent, vus)
      BY <1>1 DEF ConclureRequalification
    <3> QED
      BY <2>1, <3>1, RappelsType DEF Typage
  <2> QED
    BY <1>1, <2>6, <2>7, <2>8, TerminerTypage DEF ConclureRequalification, Typage, TypeOK, Reponses
<1>2. CASE EchouerRequalification(r)
  BY <1>2, TerminerTypage DEF EchouerRequalification, Refuser, Typage, TypeOK, Reponses
<1> QED
  BY <1>1, <1>2

LEMMA VenteTypage ==
  ASSUME Typage, NEW r \in Requetes,
         RefuserConversion(r) \/ Convertir(r) \/ Vendre(r) \/ Supprimer(r)
  PROVE  Typage'
<1> USE DEF histoire, base
<1>1. CASE RefuserConversion(r)
  BY <1>1, TerminerTypage DEF RefuserConversion, Refuser, Typage, TypeOK, Reponses
<1>2. CASE Convertir(r)
  <2> DEFINE f == tx[r].fiche
             s == IF fiche[f].statut = "VENDU" THEN "VENDU" ELSE "CONVERTI"
             l == [fiche[f] EXCEPT !.statut = s]
             p == [parcours[f] EXCEPT !.statut = "CONVERTI"]
  <2>1. f \in Fiches
    BY <1>2 DEF Convertir, EnVol, Typage, ToutRenseigne, Renseignee
  <2>2. s \in Statuts /\ "CONVERTI" \in Statuts
    BY DEF Statuts
  <2>3. l \in LignesFiche /\ p \in LignesParcours
    BY <2>1, <2>2, StatutType DEF Typage, TypeOK
  <2>4. fiche' = [fiche EXCEPT ![f] = l] /\ parcours' = [parcours EXCEPT ![f] = p]
    BY <1>2 DEF Convertir
  <2> HIDE DEF l, p
  <2>5. fiche' \in [Fiches -> LignesFiche] /\ parcours' \in [Fiches -> LignesParcours]
    BY <2>3, <2>4 DEF Typage, TypeOK
  <2> QED
    BY <1>2, <2>5, TerminerTypage DEF Convertir, Typage, TypeOK, Reponses
<1>3. CASE Vendre(r)
  <2> DEFINE f == tx[r].fiche
             s == IF verrouFiche[f] = {r} THEN "VENDU" ELSE fiche[f].statut
             v == IF parcours[f].existe THEN "VENDU" ELSE parcours[f].statut
             l == [fiche[f] EXCEPT !.statut = s]
             p == [parcours[f] EXCEPT !.statut = v]
  <2>1. f \in Fiches
    BY <1>3 DEF Vendre, EnVol, Typage, ToutRenseigne, Renseignee
  <2>a. fiche[f] \in LignesFiche /\ parcours[f] \in LignesParcours
    BY <2>1 DEF Typage, TypeOK
  <2>2. s \in Statuts /\ v \in Statuts
    BY <2>a DEF Statuts, LignesFiche, LignesParcours
  <2>3. l \in LignesFiche /\ p \in LignesParcours
    BY <2>a, <2>2, StatutType
  <2>4. fiche' = [fiche EXCEPT ![f] = l] /\ parcours' = [parcours EXCEPT ![f] = p]
    BY <1>3 DEF Vendre
  <2> HIDE DEF l, p
  <2>5. fiche' \in [Fiches -> LignesFiche] /\ parcours' \in [Fiches -> LignesParcours]
    BY <2>3, <2>4 DEF Typage, TypeOK
  <2> QED
    BY <1>3, <2>5, TerminerTypage DEF Vendre, Typage, TypeOK, Reponses
<1>4. CASE Supprimer(r)
  <2> DEFINE f == tx[r].fiche
             l == [fiche[f] EXCEPT !.supprimee = TRUE]
  <2>1. f \in Fiches
    BY <1>4 DEF Supprimer, EnVol, Typage, ToutRenseigne, Renseignee
  <2>a. fiche[f] \in LignesFiche
    BY <2>1 DEF Typage, TypeOK
  <2>2. l \in LignesFiche
    BY <2>a, LigneSupprimee
  <2>3. fiche' = [fiche EXCEPT ![f] = l]
    BY <1>4 DEF Supprimer
  <2> HIDE DEF l
  <2>4. fiche' \in [Fiches -> LignesFiche]
    BY <2>2, <2>3 DEF Typage, TypeOK
  <2>5. rappel' \in [Requetes -> LignesRappel]
    <3>1. rappel' = [i \in Requetes |->
            IF i \in tx[r].pris THEN [rappel[i] EXCEPT !.etat = "CANCELLED"] ELSE rappel[i]]
      BY <1>4 DEF Supprimer
    <3> HIDE DEF f
    <3>2. ASSUME NEW i \in Requetes
          PROVE  rappel[i] \in LignesRappel /\ [rappel[i] EXCEPT !.etat = "CANCELLED"] \in LignesRappel
      <4>1. rappel[i] \in LignesRappel
        BY DEF Typage, TypeOK
      <4> QED
        BY <4>1 DEF LignesRappel, EtatsRappel
    <3> QED
      BY <3>1, <3>2
  <2> QED
    BY <1>4, <2>4, <2>5, TerminerTypage DEF Supprimer, Typage, TypeOK, Reponses
<1> QED
  BY <1>1, <1>2, <1>3, <1>4

LEMMA RemiseTypage ==
  ASSUME Typage, NEW r \in Requetes,
         Remettre(r) \/ RefuserRemise(r) \/ ModifierMethode(r) \/ Affecter(r)
  PROVE  Typage'
<1> USE DEF histoire, base
<1>1. CASE Remettre(r)
  <2> DEFINE f == tx[r].fiche
             l == [fiche[f] EXCEPT !.statut = "NOUVEAU", !.phase2 = "PENDING", !.methode = FALSE]
             p == IF verrouParcours[f] = {r} THEN ParcoursNeuf(TRUE) ELSE parcours[f]
  <2>1. f \in Fiches
    BY <1>1 DEF Remettre, AuTraiter, EnVol, Typage, ToutRenseigne, Renseignee
  <2>2. fiche[f] \in LignesFiche
    BY <2>1 DEF Typage, TypeOK
  <2>3. l \in LignesFiche
    BY <2>2, LigneRemise
  <2>4. p \in LignesParcours
    BY <2>1, ParcoursNeufType DEF Typage, TypeOK
  <2>5. fiche' = [fiche EXCEPT ![f] = l] /\ parcours' = [parcours EXCEPT ![f] = p]
    BY <1>1 DEF Remettre
  <2> HIDE DEF l, p
  <2>6. fiche' \in [Fiches -> LignesFiche] /\ parcours' \in [Fiches -> LignesParcours]
    BY <2>3, <2>4, <2>5 DEF Typage, TypeOK
  <2> QED
    BY <1>1, <2>6, TerminerTypage DEF Remettre, Typage, TypeOK, Reponses
<1>2. CASE RefuserRemise(r)
  BY <1>2, TerminerTypage DEF RefuserRemise, Refuser, Typage, TypeOK, Reponses
<1>3. CASE ModifierMethode(r)
  <2> DEFINE f == tx[r].fiche
             m == tx[r].methode
             l == [fiche[f] EXCEPT !.methode = m, !.phase2 = PhaseModifiee(fiche[f].phase2, m)]
             p == [parcours[f] EXCEPT !.methode = m, !.phase2 = PhaseModifiee(parcours[f].phase2, m)]
  <2>1. f \in Fiches /\ m \in BOOLEAN
    BY <1>3 DEF ModifierMethode, EnVol, Typage, ToutRenseigne, Renseignee, TypeOK, Transactions
  <2>2. fiche[f] \in LignesFiche /\ parcours[f] \in LignesParcours
    BY <2>1 DEF Typage, TypeOK
  <2>3. PhaseModifiee(fiche[f].phase2, m) \in Phases /\ PhaseModifiee(parcours[f].phase2, m) \in Phases
    BY <2>2 DEF PhaseModifiee, Phases, LignesFiche, LignesParcours
  <2>4. l \in LignesFiche /\ p \in LignesParcours
    BY <2>1, <2>2, <2>3, PhaseType
  <2>5. /\ fiche' = [fiche EXCEPT ![f] = l]
        /\ parcours' = IF verrouParcours[f] = {r} THEN [parcours EXCEPT ![f] = p] ELSE parcours
    BY <1>3 DEF ModifierMethode
  <2> HIDE DEF l, p
  <2>6. fiche' \in [Fiches -> LignesFiche] /\ parcours' \in [Fiches -> LignesParcours]
    BY <2>4, <2>5 DEF Typage, TypeOK
  <2> QED
    BY <1>3, <2>6, TerminerTypage DEF ModifierMethode, Typage, TypeOK, Reponses
<1>4. CASE Affecter(r)
  <2> DEFINE f == tx[r].fiche
             l == [fiche[f] EXCEPT !.titulaire = tx[r].agent]
  <2>1. f \in Fiches /\ tx[r].agent \in Agents
    BY <1>4 DEF Affecter, EnVol, Typage, ToutRenseigne, Renseignee
  <2>a. fiche[f] \in LignesFiche
    BY <2>1 DEF Typage, TypeOK
  <2>2. l \in LignesFiche
    BY <2>a, <2>1, LigneTitulaire DEF Comptes
  <2>3. fiche' = [fiche EXCEPT ![f] = l]
    BY <1>4 DEF Affecter
  <2> HIDE DEF l
  <2>4. fiche' \in [Fiches -> LignesFiche]
    BY <2>2, <2>3 DEF Typage, TypeOK
  <2>5. rappel' \in [Requetes -> LignesRappel]
    <3>1. rappel' = [i \in Requetes |->
            IF i \in EnAttente(f) THEN [rappel[i] EXCEPT !.agent = tx[r].agent] ELSE rappel[i]]
      BY <1>4 DEF Affecter
    <3> HIDE DEF f
    <3>2. ASSUME NEW i \in Requetes
          PROVE  rappel[i] \in LignesRappel /\ [rappel[i] EXCEPT !.agent = tx[r].agent] \in LignesRappel
      <4>1. rappel[i] \in LignesRappel
        BY DEF Typage, TypeOK
      <4> QED
        BY <2>1, <4>1 DEF LignesRappel
    <3> QED
      BY <3>1, <3>2
  <2> QED
    BY <1>4, <2>4, <2>5, TerminerTypage DEF Affecter, Typage, TypeOK, Reponses
<1> QED
  BY <1>1, <1>2, <1>3, <1>4

(* Every step keeps the tables well typed. *)
LEMMA PasTypage == Typage /\ [Next]_vars => Typage'
<1> SUFFICES ASSUME Typage, [Next]_vars PROVE Typage'
  OBVIOUS
<1> USE DEF base, histoire, verrous
<1>1. CASE Avancer
  BY <1>1, BornesAssumption DEF Avancer, Typage, TypeOK, ToutRenseigne, AppelsFaits, Renseignee, EnVol
<1>2. CASE \E t \in Tentatives, a \in AppelsPossibles : Appeler(t, a)
  <2>1. PICK t \in Tentatives, a \in AppelsPossibles : Appeler(t, a)
    BY <1>2
  <2>2. a \in Appels
    BY DEF AppelsPossibles, Appels
  <2>3. TypeOK'
    BY <2>1, <2>2 DEF Appeler, Typage, TypeOK
  <2>4. \A u \in Tentatives : appel'[u] = IF u = t THEN a ELSE appel[u]
    BY <2>1 DEF Appeler, Typage, TypeOK
  <2>5. ToutRenseigne'
    BY <2>1, <2>4 DEF Appeler, Typage, ToutRenseigne, AppelsFaits, Renseignee, EnVol, AppelsPossibles
  <2> QED
    BY <2>3, <2>5 DEF Typage
<1>3. CASE \E r \in Requetes : Recevoir(r)
  BY <1>3, ReceptionTypage
<1>4. CASE \E r \in Requetes : Poursuivre(r)
  BY <1>4, TentativeTypage, VerrouTypage, EntameTypage, RequalificationTypage, VenteTypage, RemiseTypage
     DEF Poursuivre
<1>5. CASE \E r \in Requetes : Interrompre(r)
  BY <1>5, TerminerTypage DEF Interrompre, Typage, TypeOK, Reponses
<1>6. CASE \E i \in Requetes : AnnulerRappel(i) \/ RetablirRappel(i)
  <2>1. rappel' \in [Requetes -> LignesRappel]
    <3>1. ASSUME NEW i \in Requetes, NEW etat \in EtatsRappel
          PROVE  [rappel[i] EXCEPT !.etat = etat] \in LignesRappel
      BY DEF Typage, TypeOK, LignesRappel
    <3>2. PICK i \in Requetes, etat \in {"CANCELLED", "PENDING"} :
            rappel' = [rappel EXCEPT ![i] = [rappel[i] EXCEPT !.etat = etat]]
      BY <1>6 DEF AnnulerRappel, RetablirRappel
    <3>3. etat \in EtatsRappel
      BY DEF EtatsRappel
    <3> QED
      BY <3>1, <3>2, <3>3 DEF Typage, TypeOK
  <2> QED
    BY <1>6, <2>1 DEF AnnulerRappel, RetablirRappel, Typage, TypeOK, ToutRenseigne, AppelsFaits, Renseignee, EnVol
<1>7. CASE UNCHANGED vars
  BY <1>7 DEF vars, Typage, TypeOK, ToutRenseigne, AppelsFaits, Renseignee, EnVol
<1> QED
  BY <1>1, <1>2, <1>3, <1>4, <1>5, <1>6, <1>7 DEF Next

LEMMA TypageCorrect == Spec => []Typage
BY InitTypage, PasTypage, PTL DEF Spec

(* Every table keeps rows of its type, whatever the requests do. *)
THEOREM TypeCorrect == Spec => []TypeOK
<1>1. Typage => TypeOK
  BY DEF Typage
<1> QED
  BY <1>1, TypageCorrect, PTL

-----------------------------------------------------------------------------
(***************************************************************************)
(* The lock of the fiche.  One request holds it at most, and it is in flight  *)
(* on that fiche; an attempt holds it from its first statement on, so what     *)
(* PreVol checked (fiche alive, not converted, attempt never recorded) is still *)
(* true when the attempt is applied.                                         *)
(***************************************************************************)
Verrouille ==
  /\ \A f \in Fiches : \A r \in verrouFiche[f] : EnVol(r) /\ tx[r].fiche = f
  /\ \A f \in Fiches : \A r, s \in verrouFiche[f] : r = s

Verifiee(r) ==
  LET f == tx[r].fiche
  IN  /\ tx[r].op = "tentative" /\ tx[r].etape \in {"fiche", "deux"} =>
           r \in verrouFiche[f] /\ ~fiche[f].supprimee
      /\ tx[r].op = "tentative" /\ tx[r].etape = "deux" =>
           tentative[tx[r].t] = 0 /\ fiche[f].statut \notin Clos
      /\ tx[r].op = "supprimer" /\ tx[r].etape = "fiche" =>
           r \in verrouFiche[f] \/ fiche[f].supprimee

Exclusion == Verrouille /\ EffetUnique /\ \A r \in Requetes : Verifiee(r)

Sure == Typage /\ Exclusion

LEMMA InitExclusion == Init => Exclusion
<1> SUFFICES ASSUME Init PROVE Exclusion
  OBVIOUS
<1>1. \A f \in Fiches : verrouFiche[f] = {}
  BY DEF Init
<1>2. \A t \in Tentatives : tentative[t] = 0 /\ effets[t] = 0
  BY DEF Init
<1>3. \A r \in Requetes : tx[r].etape = "libre"
  BY DEF Init, RequeteVide
<1>4. \A r \in Requetes : Verifiee(r)
  BY <1>3 DEF Verifiee
<1>5. Verrouille
  BY <1>1 DEF Verrouille
<1>6. EffetUnique
  BY <1>2 DEF EffetUnique
<1> QED
  BY <1>4, <1>5, <1>6 DEF Exclusion

(* A request that ends gives its lock back, and leaves to the others what they  *)
(* have checked.                                                             *)
LEMMA FinExclusion ==
  ASSUME Sure, NEW r \in Requetes, NEW reponse, Terminer(r, reponse),
         UNCHANGED <<tentative, effets>>,
         \A f \in Fiches :
           /\ fiche[f].supprimee => fiche'[f].supprimee
           /\ \A s \in verrouFiche[f] \ {r} :
                /\ fiche'[f].supprimee => fiche[f].supprimee
                /\ fiche'[f].statut \in Clos => fiche[f].statut \in Clos
  PROVE  Exclusion'
<1>1. tx'[r].etape = "fin" /\ \A s \in Requetes \ {r} : tx'[s] = tx[s]
  BY DEF Terminer, Sure, Typage, TypeOK, RequeteVide
<1>2. \A f \in Fiches : verrouFiche'[f] = verrouFiche[f] \ {r}
  BY DEF Terminer
<1>3. Verrouille'
  BY <1>1, <1>2 DEF Sure, Exclusion, Verrouille, EnVol, Typage, TypeOK
<1>4. EffetUnique'
  BY DEF Sure, Exclusion, EffetUnique
<1>5. ASSUME NEW s \in Requetes PROVE Verifiee(s)'
  <2>1. CASE s = r
    BY <1>1, <2>1 DEF Verifiee
  <2>2. CASE s # r /\ EnVol(s)
    <3>1. tx[s].fiche \in Fiches /\ tx'[s] = tx[s]
      BY <1>1, <2>2 DEF Sure, Typage, ToutRenseigne, Renseignee
    <3>2. Verifiee(s)
      BY DEF Sure, Exclusion
    <3> QED
      BY <1>2, <2>2, <3>1, <3>2 DEF Verifiee
  <2>3. CASE s # r /\ ~EnVol(s)
    BY <1>1, <2>3 DEF Verifiee, EnVol
  <2> QED
    BY <2>1, <2>2, <2>3
<1> QED
  BY <1>3, <1>4, <1>5 DEF Exclusion

(* A request that goes on, taking the lock of its fiche or none, and writing    *)
(* nothing yet.                                                              *)
LEMMA SuiteExclusion ==
  ASSUME Sure, NEW r \in Requetes, EnVol(r), EnVol(r)',
         tx'[r].fiche = tx[r].fiche, \A s \in Requetes \ {r} : tx'[s] = tx[s],
         UNCHANGED <<fiche, tentative, effets>>,
         PrendreFiche(r) \/ UNCHANGED verrouFiche,
         Verifiee(r)'
  PROVE  Exclusion'
<1>1. tx[r].fiche \in Fiches
  BY DEF Sure, Typage, ToutRenseigne, Renseignee
<1>2. \A f \in Fiches : \/ verrouFiche'[f] = verrouFiche[f]
                        \/ f = tx[r].fiche /\ verrouFiche[f] = {} /\ verrouFiche'[f] = {r}
  BY <1>1 DEF PrendreFiche, Sure, Typage, TypeOK
<1>3. Verrouille'
  BY <1>2 DEF Sure, Exclusion, Verrouille, EnVol, Typage, TypeOK
<1>4. EffetUnique'
  BY DEF Sure, Exclusion, EffetUnique
<1>5. ASSUME NEW s \in Requetes \ {r} PROVE Verifiee(s)'
  <2>1. Verifiee(s) /\ tx'[s] = tx[s] /\ Renseignee(s)
    BY DEF Sure, Exclusion, Typage, ToutRenseigne
  <2>2. CASE EnVol(s)
    BY <1>2, <2>1, <2>2 DEF Verifiee, Renseignee
  <2>3. CASE ~EnVol(s)
    BY <2>1, <2>3 DEF Verifiee, EnVol
  <2> QED
    BY <2>2, <2>3
<1> QED
  BY <1>3, <1>4, <1>5 DEF Exclusion

(* A request that begins holds nothing. *)
LEMMA DebutExclusion ==
  ASSUME Sure, NEW r \in Requetes, NEW q, Commencer(r, q), q.etape \in {"lu", "fin"},
         UNCHANGED <<fiche, tentative, effets, verrouFiche>>
  PROVE  Exclusion'
<1>1. /\ tx[r].etape = "libre" /\ tx'[r] = q
      /\ \A s \in Requetes \ {r} : tx'[s] = tx[s]
  BY DEF Commencer, Sure, Typage, TypeOK
<1>2. Verrouille'
  BY <1>1 DEF Sure, Exclusion, Verrouille, EnVol, Typage, TypeOK
<1>3. EffetUnique'
  BY DEF Sure, Exclusion, EffetUnique
<1>4. ASSUME NEW s \in Requetes PROVE Verifiee(s)'
  BY <1>1 DEF Sure, Exclusion, Verifiee
<1> QED
  BY <1>2, <1>3, <1>4 DEF Exclusion

(* An outcome does not delete the fiche, nor convert it, nor bring it back.     *)
LEMMA ClasseeSupprimee ==
  ASSUME NEW l \in LignesFiche, NEW p, NEW regle, NEW effet, NEW methode
  PROVE  LET m == FicheClassee(l, p, regle, effet, methode)
         IN  m.supprimee = l.supprimee /\ (m.statut \in Clos <=> l.statut \in Clos)
BY DEF FicheClassee, LignesFiche, Clos

LEMMA PasseExclusion ==
  ASSUME Sure, NEW r \in Requetes, NEW op, NEW de, NEW vers, Passer(r, op, de, vers),
         de \notin {"libre", "fin"}, vers \notin {"libre", "deux", "fin"},
         op \notin {"tentative", "supprimer"},
         UNCHANGED <<fiche, tentative, effets>>,
         PrendreFiche(r) \/ UNCHANGED verrouFiche
  PROVE  Exclusion'
<1>1. tx[r] \in Transactions
  BY DEF Sure, Typage, TypeOK
<1>2. /\ tx'[r] = [tx[r] EXCEPT !.etape = vers]
      /\ \A s \in Requetes \ {r} : tx'[s] = tx[s]
  BY DEF Passer, Sure, Typage, TypeOK
<1>a. tx[r].op = op /\ tx[r].etape = de
  BY DEF Passer
<1>3. tx'[r].etape = vers /\ tx'[r].fiche = tx[r].fiche /\ tx'[r].op = op
  BY <1>1, <1>2, <1>a DEF Transactions
<1>4. Verifiee(r)'
  BY <1>3 DEF Verifiee
<1> QED
  BY <1>2, <1>a, <1>3, <1>4, SuiteExclusion DEF EnVol

LEMMA TentativeExclusion ==
  ASSUME Sure, NEW r \in Requetes,
         VerrouillerFiche(r) \/ FicheIntrouvable(r) \/ Rejeu(r) \/ RefuserConvertie(r) \/ EntamerTentative(r)
  PROVE  Exclusion'
<1> USE DEF base, histoire
<1>0. tx[r] \in Transactions
  BY DEF Sure, Typage, TypeOK
<1>1. CASE VerrouillerFiche(r)
  <2>1. /\ tx'[r] = [tx[r] EXCEPT !.etape = "fiche"]
        /\ \A s \in Requetes \ {r} : tx'[s] = tx[s]
    BY <1>1 DEF VerrouillerFiche, Passer, Sure, Typage, TypeOK
  <2>a. tx[r].etape = "lu" /\ tx[r].op = "tentative"
    BY <1>1 DEF VerrouillerFiche, Passer
  <2>2. tx'[r].etape = "fiche" /\ tx'[r].fiche = tx[r].fiche /\ tx'[r].op = "tentative"
    BY <1>0, <2>1, <2>a DEF Transactions
  <2>3. tx[r].fiche \in Fiches
    BY <2>a DEF EnVol, Sure, Typage, ToutRenseigne, Renseignee
  <2>4. Verifiee(r)'
    BY <1>1, <2>2, <2>3 DEF VerrouillerFiche, PrendreFiche, Verifiee, Sure, Typage, TypeOK
  <2> QED
    BY <1>1, <2>1, <2>a, <2>2, <2>4, SuiteExclusion DEF VerrouillerFiche, EnVol
<1>2. CASE FicheIntrouvable(r) \/ Rejeu(r) \/ RefuserConvertie(r)
  BY <1>2, FinExclusion DEF FicheIntrouvable, Rejeu, RefuserConvertie, Refuser
<1>3. CASE EntamerTentative(r)
  <2>1. /\ tx'[r] = [tx[r] EXCEPT !.etape = "deux", !.pris = EnAttente(tx[r].fiche)]
        /\ \A s \in Requetes \ {r} : tx'[s] = tx[s]
    BY <1>3 DEF EntamerTentative, EntamerRappels, Sure, Typage, TypeOK
  <2>a. tx[r].etape = "fiche" /\ tx[r].op = "tentative"
    BY <1>3 DEF EntamerTentative, AuPreVol
  <2>2. /\ tx'[r].etape = "deux" /\ tx'[r].op = "tentative"
        /\ tx'[r].fiche = tx[r].fiche /\ tx'[r].t = tx[r].t
    BY <1>0, <2>1, <2>a DEF Transactions
  <2>3. Verifiee(r) /\ ~DejaConsignee(r) /\ ~Close(tx[r].fiche)
    BY <1>3 DEF EntamerTentative, Sure, Exclusion
  <2>4. Verifiee(r)'
    BY <1>3, <2>2, <2>a, <2>3 DEF EntamerTentative, DejaConsignee, Close, Verifiee
  <2> QED
    BY <1>3, <2>1, <2>a, <2>2, <2>4, SuiteExclusion DEF EntamerTentative, EnVol
<1> QED
  BY <1>1, <1>2, <1>3

(* An attempt is applied to a fiche it has locked, and for the first time: no    *)
(* other request is about to apply it, since it would hold the same lock.       *)
LEMMA ConclureExclusion ==
  ASSUME Sure, NEW r \in Requetes, ConclureTentative(r)
  PROVE  Exclusion'
<1> DEFINE f == tx[r].fiche
           t == tx[r].t
<1>1. /\ f \in Fiches /\ t \in Tentatives /\ tx[r].instant > 0 /\ f = appel[t].fiche
      /\ tx[r].op = "tentative" /\ tx[r].etape = "deux"
  BY DEF ConclureTentative, EnVol, Sure, Typage, ToutRenseigne, Renseignee
<1>2. r \in verrouFiche[f] /\ tentative[t] = 0
  BY <1>1 DEF Sure, Exclusion, Verifiee
<1>3. tx'[r].etape = "fin" /\ \A s \in Requetes \ {r} : tx'[s] = tx[s]
  BY DEF ConclureTentative, Terminer, Sure, Typage, TypeOK, RequeteVide
<1>4. \A g \in Fiches : verrouFiche'[g] = verrouFiche[g] \ {r}
  BY DEF ConclureTentative, Terminer
<1>5. Verrouille'
  BY <1>3, <1>4 DEF Sure, Exclusion, Verrouille, EnVol, Typage, TypeOK
<1>6. /\ tentative' = [tentative EXCEPT ![t] = tx[r].instant]
      /\ effets' = [effets EXCEPT ![t] = effets[t] + 1]
  BY DEF ConclureTentative
<1>7. EffetUnique'
  <2>a. tx[r].instant \in Nat
    BY DEF Sure, Typage, TypeOK, Transactions
  <2>1. tx[r].instant # 0
    BY <1>1, <2>a
  <2>2. effets[t] = 0
    BY <1>1, <1>2 DEF Sure, Exclusion, EffetUnique
  <2> QED
    BY <1>1, <1>6, <2>1, <2>2 DEF Sure, Exclusion, EffetUnique, Typage, TypeOK
<1>8. \A g \in Fiches \ {f} : fiche'[g] = fiche[g]
  BY DEF ConclureTentative, Sure, Typage, TypeOK
<1>9. fiche'[f].supprimee = fiche[f].supprimee
  <2> DEFINE a == appel[t]
             p == [parcours[f] EXCEPT !.statut = PremierAppel(@)]
             l == FicheAppelee(fiche[f], a, tx[r].instant)
  <2>1. fiche[f] \in LignesFiche
    BY <1>1 DEF Sure, Typage, TypeOK
  <2>2. a \in Appels /\ a.motif \in Motifs /\ a.agent \in Agents /\ tx[r].instant \in Nat
    BY <1>1 DEF AppelsPossibles, Sure, Typage, TypeOK, Transactions, ToutRenseigne, AppelsFaits, Renseignee, EnVol
  <2>3. l \in LignesFiche
    BY <2>1, <2>2, AppeleeType
  <2>4. l.supprimee = fiche[f].supprimee
    BY <2>1 DEF FicheAppelee, LignesFiche
  <2>5. fiche'[f] = FicheClassee(l, p, RegleDe(a), Effet[a.motif], a.methode)
    BY <1>1 DEF ConclureTentative, Sure, Typage, TypeOK
  <2> HIDE DEF l, p
  <2> QED
    BY <2>3, <2>4, <2>5, ClasseeSupprimee
<1>10. ASSUME NEW s \in Requetes PROVE Verifiee(s)'
  <2>1. CASE s = r \/ ~EnVol(s)
    BY <1>3, <2>1 DEF Verifiee, EnVol
  <2>2. CASE s # r /\ EnVol(s)
    <3>1. tx'[s] = tx[s] /\ Verifiee(s) /\ Renseignee(s) /\ tx[s].fiche \in Fiches
      BY <1>3, <2>2 DEF Sure, Exclusion, Typage, ToutRenseigne, Renseignee
    <3>2. CASE s \in verrouFiche[tx[s].fiche]
      <4>1. tx[s].fiche # f
        BY <1>1, <1>2, <2>2, <3>1, <3>2 DEF Sure, Exclusion, Verrouille
      <4>2. tx[s].op = "tentative" => tx[s].t # t /\ tx[s].t \in Tentatives
        BY <1>1, <2>2, <3>1, <4>1 DEF Renseignee
      <4> QED
        BY <1>4, <1>6, <1>8, <2>2, <3>1, <3>2, <4>1, <4>2 DEF Verifiee, Sure, Typage, TypeOK
    <3>3. CASE s \notin verrouFiche[tx[s].fiche]
      BY <1>1, <1>8, <1>9, <2>2, <3>1, <3>3 DEF Verifiee
    <3> QED
      BY <3>2, <3>3
  <2> QED
    BY <2>1, <2>2
<1> QED
  BY <1>5, <1>7, <1>10 DEF Exclusion

LEMMA VerrouExclusion ==
  ASSUME Sure, NEW r \in Requetes,
         \/ VerrouillerParcours(r) \/ VerrouillerVente(r) \/ VerrouillerRemise(r)
         \/ VerrouillerMethode(r) \/ SuivreLaFiche(r)
  PROVE  Exclusion'
<1> USE DEF base, histoire, verrous
<1>1. CASE VerrouillerParcours(r)
  BY <1>1, PasseExclusion DEF VerrouillerParcours
<1>2. CASE VerrouillerVente(r)
  BY <1>2, PasseExclusion DEF VerrouillerVente
<1>3. CASE VerrouillerRemise(r)
  BY <1>3, PasseExclusion DEF VerrouillerRemise
<1>4. CASE VerrouillerMethode(r)
  BY <1>4, PasseExclusion DEF VerrouillerMethode
<1>5. CASE SuivreLaFiche(r)
  BY <1>5, PasseExclusion DEF SuivreLaFiche
<1> QED
  BY <1>1, <1>2, <1>3, <1>4, <1>5

LEMMA EntameExclusion ==
  ASSUME Sure, NEW r \in Requetes, EntamerRequalification(r) \/ EntamerSuppression(r)
  PROVE  Exclusion'
<1> USE DEF base, histoire
<1>0. tx[r] \in Transactions
  BY DEF Sure, Typage, TypeOK
<1>1. CASE EntamerRequalification(r)
  <2>1. /\ tx'[r] = [tx[r] EXCEPT !.etape = "deux", !.pris = EnAttente(tx[r].fiche)]
        /\ \A s \in Requetes \ {r} : tx'[s] = tx[s]
    BY <1>1 DEF EntamerRequalification, EntamerRappels, Sure, Typage, TypeOK
  <2>2. tx[r].op = "requalifier" /\ tx[r].etape = "parcours"
    BY <1>1 DEF EntamerRequalification
  <2>3. tx'[r].etape = "deux" /\ tx'[r].op = "requalifier" /\ tx'[r].fiche = tx[r].fiche
    BY <1>0, <2>1, <2>2 DEF Transactions
  <2>4. Verifiee(r)'
    BY <2>3 DEF Verifiee
  <2> QED
    BY <1>1, <2>1, <2>2, <2>3, <2>4, SuiteExclusion DEF EntamerRequalification, EnVol
<1>2. CASE EntamerSuppression(r)
  <2>1. /\ tx'[r] = [tx[r] EXCEPT !.etape = "fiche", !.pris = EnAttente(tx[r].fiche)]
        /\ \A s \in Requetes \ {r} : tx'[s] = tx[s]
    BY <1>2 DEF EntamerSuppression, EntamerRappels, Sure, Typage, TypeOK
  <2>2. tx[r].op = "supprimer" /\ tx[r].etape = "lu"
    BY <1>2 DEF EntamerSuppression
  <2>3. tx'[r].etape = "fiche" /\ tx'[r].op = "supprimer" /\ tx'[r].fiche = tx[r].fiche
    BY <1>0, <2>1, <2>2 DEF Transactions
  <2>4. tx[r].fiche \in Fiches
    BY <2>2 DEF EnVol, Sure, Typage, ToutRenseigne, Renseignee
  <2>5. fiche[tx[r].fiche].supprimee \/ r \in verrouFiche'[tx[r].fiche]
    BY <1>2, <2>4 DEF EntamerSuppression, PrendreFiche, Sure, Typage, TypeOK
  <2>6. Verifiee(r)'
    BY <1>2, <2>3, <2>5 DEF EntamerSuppression, Verifiee
  <2> QED
    BY <1>2, <2>1, <2>2, <2>3, <2>6, SuiteExclusion DEF EntamerSuppression, EnVol
<1> QED
  BY <1>1, <1>2

LEMMA FinGesteExclusion ==
  ASSUME Sure, NEW r \in Requetes,
         \/ ConclureRequalification(r) \/ EchouerRequalification(r) \/ RefuserConversion(r)
         \/ RefuserRemise(r) \/ Interrompre(r)
  PROVE  Exclusion'
<1> USE DEF base, histoire
<1>1. CASE ConclureRequalification(r)
  <2> DEFINE f == tx[r].fiche
             e == Effet[tx[r].motif]
             avant == [fiche[f] EXCEPT !.motif = tx[r].motif]
             l == FicheClassee(avant, parcours[f], e, e, FALSE)
  <2>1. f \in Fiches /\ tx[r].motif \in Motifs
    BY <1>1 DEF ConclureRequalification, EnVol, Sure, Typage, ToutRenseigne, Renseignee
  <2>2. fiche[f] \in LignesFiche
    BY <2>1 DEF Sure, Typage, TypeOK
  <2>3. avant \in LignesFiche
    BY <2>1, <2>2, LigneMotif
  <2>4. avant.supprimee = fiche[f].supprimee /\ avant.statut = fiche[f].statut
    BY <2>2 DEF LignesFiche
  <2>5. fiche' = [fiche EXCEPT ![f] = l]
    BY <1>1 DEF ConclureRequalification
  <2> HIDE DEF avant
  <2>6. l.supprimee = avant.supprimee /\ (l.statut \in Clos <=> avant.statut \in Clos)
    BY <2>3, ClasseeSupprimee
  <2> HIDE DEF l
  <2>7. \A g \in Fiches : /\ fiche'[g].supprimee = fiche[g].supprimee
                          /\ fiche'[g].statut \in Clos <=> fiche[g].statut \in Clos
    BY <2>4, <2>5, <2>6 DEF Sure, Typage, TypeOK
  <2>8. Terminer(r, "applied") /\ UNCHANGED <<tentative, effets>>
    BY <1>1 DEF ConclureRequalification
  <2> QED
    BY <2>7, <2>8, FinExclusion
<1>2. CASE EchouerRequalification(r)
  BY <1>2, FinExclusion DEF EchouerRequalification, Refuser
<1>3. CASE RefuserConversion(r)
  BY <1>3, FinExclusion DEF RefuserConversion, Refuser
<1>4. CASE RefuserRemise(r)
  BY <1>4, FinExclusion DEF RefuserRemise, Refuser
<1>5. CASE Interrompre(r)
  BY <1>5, FinExclusion DEF Interrompre
<1> QED
  BY <1>1, <1>2, <1>3, <1>4, <1>5

(* The gestures that write the fiche: those that waited for its lock find it     *)
(* free, and the others hold it or touch nothing an attempt has checked.        *)
LEMMA EcritureExclusion ==
  ASSUME Sure, NEW r \in Requetes,
         \/ Convertir(r) \/ Vendre(r) \/ Supprimer(r)
         \/ Remettre(r) \/ ModifierMethode(r) \/ Affecter(r)
  PROVE  Exclusion'
<1> DEFINE f == tx[r].fiche
<1> USE DEF base, histoire
<1>0. UNCHANGED <<tentative, effets>> /\ Terminer(r, "applied")
  BY DEF Convertir, Vendre, Supprimer, Remettre, ModifierMethode, Affecter
<1>1. f \in Fiches /\ fiche[f] \in LignesFiche
  <2>1. EnVol(r)
    BY DEF Convertir, Vendre, Supprimer, Remettre, AuTraiter, ModifierMethode, Affecter, EnVol
  <2> QED
    BY <2>1 DEF Sure, Typage, TypeOK, ToutRenseigne, Renseignee
<1>2. \A g \in Fiches \ {f} : fiche'[g] = fiche[g]
  BY DEF Convertir, Vendre, Supprimer, Remettre, ModifierMethode, Affecter, Sure, Typage, TypeOK
<1>3. /\ fiche[f].supprimee => fiche'[f].supprimee
      /\ \A s \in verrouFiche[f] \ {r} :
           /\ fiche'[f].supprimee => fiche[f].supprimee
           /\ fiche'[f].statut \in Clos => fiche[f].statut \in Clos
  <2>1. CASE Convertir(r)
    <3>1. fiche'[f] = [fiche[f] EXCEPT !.statut = IF fiche[f].statut = "VENDU" THEN "VENDU" ELSE "CONVERTI"]
      BY <1>1, <2>1 DEF Convertir, Sure, Typage, TypeOK
    <3>2. verrouFiche[f] = {}
      BY <2>1 DEF Convertir
    <3> QED
      BY <1>1, <3>1, <3>2 DEF LignesFiche
  <2>2. CASE Vendre(r)
    <3>1. fiche'[f] = [fiche[f] EXCEPT !.statut = IF verrouFiche[f] = {r} THEN "VENDU" ELSE fiche[f].statut]
      BY <1>1, <2>2 DEF Vendre, Sure, Typage, TypeOK
    <3>2. fiche'[f].supprimee = fiche[f].supprimee
      BY <1>1, <3>1 DEF LignesFiche
    <3>3. CASE verrouFiche[f] = {r}
      BY <3>2, <3>3
    <3>4. CASE verrouFiche[f] # {r}
      <4>1. fiche'[f].statut = fiche[f].statut
        BY <1>1, <3>1, <3>4 DEF LignesFiche
      <4> QED
        BY <3>2, <4>1
    <3> QED
      BY <3>3, <3>4
  <2>3. CASE Supprimer(r)
    <3>1. fiche'[f] = [fiche[f] EXCEPT !.supprimee = TRUE]
      BY <1>1, <2>3 DEF Supprimer, Sure, Typage, TypeOK
    <3>2. fiche'[f].supprimee /\ fiche'[f].statut = fiche[f].statut
      BY <1>1, <3>1 DEF LignesFiche
    <3>3. r \in verrouFiche[f] \/ fiche[f].supprimee
      BY <2>3 DEF Supprimer, Sure, Exclusion, Verifiee
    <3>4. ASSUME NEW s \in verrouFiche[f] \ {r} PROVE fiche[f].supprimee
      BY <1>1, <3>3, <3>4 DEF Sure, Exclusion, Verrouille
    <3> QED
      BY <3>2, <3>4
  <2>4. CASE Remettre(r)
    <3>1. fiche'[f] = [fiche[f] EXCEPT !.statut = "NOUVEAU", !.phase2 = "PENDING", !.methode = FALSE]
      BY <1>1, <2>4 DEF Remettre, Sure, Typage, TypeOK
    <3>2. verrouFiche[f] = {}
      BY <2>4 DEF Remettre
    <3> QED
      BY <1>1, <3>1, <3>2 DEF LignesFiche
  <2>5. CASE ModifierMethode(r)
    <3>1. fiche'[f] = [fiche[f] EXCEPT !.methode = tx[r].methode,
                                       !.phase2 = PhaseModifiee(fiche[f].phase2, tx[r].methode)]
      BY <1>1, <2>5 DEF ModifierMethode, Sure, Typage, TypeOK
    <3>2. verrouFiche[f] = {}
      BY <2>5 DEF ModifierMethode
    <3> QED
      BY <1>1, <3>1, <3>2 DEF LignesFiche
  <2>6. CASE Affecter(r)
    <3>1. fiche'[f] = [fiche[f] EXCEPT !.titulaire = tx[r].agent]
      BY <1>1, <2>6 DEF Affecter, Sure, Typage, TypeOK
    <3>2. verrouFiche[f] = {}
      BY <2>6 DEF Affecter
    <3> QED
      BY <1>1, <3>1, <3>2 DEF LignesFiche
  <2> QED
    BY <2>1, <2>2, <2>3, <2>4, <2>5, <2>6
<1> QED
  BY <1>0, <1>2, <1>3, FinExclusion

LEMMA ReceptionExclusion ==
  ASSUME Sure, NEW r \in Requetes, Recevoir(r)
  PROVE  Exclusion'
<1> USE DEF base, histoire, verrous
<1>1. ASSUME NEW q, NEW garde, Lire(r, q, garde), q.etape = "lu" PROVE Exclusion'
  BY <1>1, DebutExclusion DEF Lire
<1>2. ASSUME NEW op, NEW f, NEW m, NEW a
      PROVE  /\ Geste(op, f).etape = "lu"
             /\ [Geste(op, f) EXCEPT !.methode = m].etape = "lu"
             /\ [Geste(op, f) EXCEPT !.agent = a].etape = "lu"
             /\ [Geste(op, f) EXCEPT !.motif = m, !.agent = a].etape = "lu"
  BY DEF Geste, RequeteVide
<1>3. CASE \E t \in Tentatives : AdmettreTentative(r, t) \/ RefuserTentative(r, t)
  <2>1. PICK t \in Tentatives : AdmettreTentative(r, t) \/ RefuserTentative(r, t)
    BY <1>3
  <2>2. RequeteTentative(t).etape = "lu"
    BY DEF RequeteTentative, RequeteVide
  <2>3. [RequeteVide EXCEPT !.op = "tentative", !.etape = "fin",
           !.fiche = appel[t].fiche, !.t = t, !.reponse = "refus"].etape = "fin"
    BY DEF RequeteVide
  <2> QED
    BY <2>1, <2>2, <2>3, DebutExclusion DEF AdmettreTentative, RefuserTentative
<1>4. CASE \E f \in Fiches :
             LireConversion(r, f) \/ LireVente(r, f) \/ LireSuppression(r, f) \/ LireRemise(r, f)
  BY <1>1, <1>2, <1>4 DEF LireConversion, LireVente, LireSuppression, LireRemise
<1>5. CASE \E f \in Fiches, methode \in BOOLEAN : LireMethode(r, f, methode)
  <2>1. PICK f \in Fiches, methode \in BOOLEAN : LireMethode(r, f, methode)
    BY <1>5
  <2> DEFINE q == [Geste("methode", f) EXCEPT !.methode = methode]
  <2>2. Lire(r, q, fiche[f].statut \in Clos => methode)
    BY <2>1 DEF LireMethode
  <2>3. q.etape = "lu"
    BY <1>2
  <2> HIDE DEF q
  <2> QED
    BY <1>1, <2>2, <2>3
<1>6. CASE \E f \in Fiches, vers \in Agents : LireAffectation(r, f, vers)
  <2>1. PICK f \in Fiches, vers \in Agents : LireAffectation(r, f, vers)
    BY <1>6
  <2> DEFINE q == [Geste("affecter", f) EXCEPT !.agent = vers]
  <2>2. Lire(r, q, fiche[f].statut \notin Clos)
    BY <2>1 DEF LireAffectation
  <2>3. q.etape = "lu"
    BY <1>2
  <2> HIDE DEF q
  <2> QED
    BY <1>1, <2>2, <2>3
<1>7. CASE \E f \in Fiches, m \in Motifs, a \in Encadrement : LireRequalification(r, f, m, a)
  <2>1. PICK f \in Fiches, m \in Motifs, a \in Encadrement : LireRequalification(r, f, m, a)
    BY <1>7
  <2> DEFINE b == IF fiche[f].appelant = Rien THEN a ELSE fiche[f].appelant
             q == [Geste("requalifier", f) EXCEPT !.motif = m, !.agent = b]
  <2>2. Lire(r, q, fiche[f].statut \notin Clos)
    BY <2>1 DEF LireRequalification
  <2> HIDE DEF b
  <2>3. q.etape = "lu"
    BY <1>2
  <2> HIDE DEF q
  <2> QED
    BY <1>1, <2>2, <2>3
<1> QED
  BY <1>3, <1>4, <1>5, <1>6, <1>7 DEF Recevoir

LEMMA PasExclusion == Sure /\ [Next]_vars => Exclusion'
<1> SUFFICES ASSUME Sure, [Next]_vars PROVE Exclusion'
  OBVIOUS
<1>1. CASE \E r \in Requetes : Recevoir(r)
  BY <1>1, ReceptionExclusion
<1>2. CASE \E r \in Requetes : Poursuivre(r)
  BY <1>2, TentativeExclusion, ConclureExclusion, VerrouExclusion, EntameExclusion, FinGesteExclusion,
     EcritureExclusion DEF Poursuivre
<1>3. CASE \E r \in Requetes : Interrompre(r)
  BY <1>3, FinGesteExclusion
<1>4. ASSUME UNCHANGED <<fiche, tentative, effets, tx, verrouFiche>> PROVE Exclusion'
  BY <1>4 DEF Sure, Exclusion, Verrouille, EffetUnique, Verifiee, EnVol
<1>5. CASE Avancer \/ \E t \in Tentatives, a \in AppelsPossibles : Appeler(t, a)
  BY <1>4, <1>5 DEF Avancer, Appeler, base, histoire, verrous
<1>6. CASE \E i \in Requetes : AnnulerRappel(i) \/ RetablirRappel(i)
  BY <1>4, <1>6 DEF AnnulerRappel, RetablirRappel, histoire, verrous
<1>7. CASE UNCHANGED vars
  BY <1>4, <1>7 DEF vars, base, histoire, verrous
<1> QED
  BY <1>1, <1>2, <1>3, <1>5, <1>6, <1>7 DEF Next

LEMMA SureteCorrecte == Spec => []Sure
<1>1. Init => Sure
  BY InitTypage, InitExclusion DEF Sure
<1>2. Sure /\ [Next]_vars => Sure'
  BY PasTypage, PasExclusion DEF Sure
<1> QED
  BY <1>1, <1>2, PTL DEF Spec

(* The admission of a request, and the first read of a gesture, write no row. *)
LEMMA RecevoirSansEcrire ==
  ASSUME NEW r \in Requetes, Recevoir(r)
  PROVE  UNCHANGED <<horloge, appel, base, verrous, histoire>>
<1>1. ASSUME NEW q, NEW garde, Lire(r, q, garde)
      PROVE  UNCHANGED <<horloge, appel, base, verrous, histoire>>
  BY <1>1 DEF Lire
<1>2. ASSUME NEW t \in Tentatives, AdmettreTentative(r, t) \/ RefuserTentative(r, t)
      PROVE  UNCHANGED <<horloge, appel, base, verrous, histoire>>
  BY <1>2 DEF AdmettreTentative, RefuserTentative
<1>3. ASSUME NEW f \in Fiches, NEW m \in Motifs, NEW a \in Encadrement, LireRequalification(r, f, m, a)
      PROVE  UNCHANGED <<horloge, appel, base, verrous, histoire>>
  BY <1>1, <1>3 DEF LireRequalification
<1>4. ASSUME NEW f \in Fiches, LireConversion(r, f) \/ LireVente(r, f) \/ LireSuppression(r, f) \/ LireRemise(r, f)
      PROVE  UNCHANGED <<horloge, appel, base, verrous, histoire>>
  BY <1>1, <1>4 DEF LireConversion, LireVente, LireSuppression, LireRemise
<1>5. ASSUME NEW f \in Fiches, NEW m \in BOOLEAN, LireMethode(r, f, m)
      PROVE  UNCHANGED <<horloge, appel, base, verrous, histoire>>
  BY <1>1, <1>5 DEF LireMethode
<1>6. ASSUME NEW f \in Fiches, NEW v \in Agents, LireAffectation(r, f, v)
      PROVE  UNCHANGED <<horloge, appel, base, verrous, histoire>>
  BY <1>1, <1>6 DEF LireAffectation
<1> QED
  BY <1>2, <1>3, <1>4, <1>5, <1>6, Zenon DEF Recevoir

(* An attempt is applied exactly once, however often the console sends it: the   *)
(* duplicate check of PreVol and the insertion are under one lock of the fiche.  *)
THEOREM TentativeUneFois == Spec => []EffetUnique
<1>1. Sure => EffetUnique
  BY DEF Sure, Exclusion
<1> QED
  BY <1>1, SureteCorrecte, PTL

(* An attempt is never applied to a fiche converted, sold or deleted, whatever   *)
(* commits between its admission and its writes.                               *)
THEOREM FermeeAuxTentatives == Spec => ConvertieFigee
<1>1. Sure /\ [Next]_vars =>
        [\A t \in Tentatives : effets'[t] # effets[t] =>
           LET l == fiche[appel[t].fiche] IN l.statut \notin Clos /\ ~l.supprimee]_vars
  <2> SUFFICES ASSUME Sure, [Next]_vars, NEW t \in Tentatives, effets'[t] # effets[t]
               PROVE  fiche[appel[t].fiche].statut \notin Clos /\ ~fiche[appel[t].fiche].supprimee
    OBVIOUS
  <2>1. \E r \in Requetes : ConclureTentative(r)
    <3>1. CASE UNCHANGED vars
      BY <3>1 DEF vars, histoire
    <3>2. CASE Avancer \/ \E u \in Tentatives, a \in AppelsPossibles : Appeler(u, a)
      BY <3>2 DEF Avancer, Appeler, histoire
    <3>3. CASE \E i \in Requetes : AnnulerRappel(i) \/ RetablirRappel(i)
      BY <3>3 DEF AnnulerRappel, RetablirRappel, histoire
    <3>4. CASE \E r \in Requetes : Recevoir(r)
      BY <3>4, RecevoirSansEcrire DEF histoire
    <3>5. CASE \E r \in Requetes : Interrompre(r)
      BY <3>5 DEF Interrompre, histoire
    <3>6. CASE \E r \in Requetes : Poursuivre(r)
      <4>1. PICK r \in Requetes : Poursuivre(r)
        BY <3>6
      <4>2. CASE FicheIntrouvable(r) \/ Rejeu(r) \/ RefuserConvertie(r) \/ EchouerRequalification(r)
                 \/ RefuserConversion(r) \/ RefuserRemise(r)
        BY <4>2 DEF FicheIntrouvable, Rejeu, RefuserConvertie, EchouerRequalification,
           RefuserConversion, RefuserRemise, Refuser, histoire
      <4>3. CASE VerrouillerFiche(r) \/ EntamerTentative(r) \/ VerrouillerParcours(r)
                 \/ EntamerRequalification(r) \/ VerrouillerVente(r) \/ EntamerSuppression(r)
                 \/ VerrouillerRemise(r) \/ VerrouillerMethode(r) \/ SuivreLaFiche(r)
        BY <4>3 DEF VerrouillerFiche, EntamerTentative, VerrouillerParcours, EntamerRequalification,
           VerrouillerVente, EntamerSuppression, VerrouillerRemise, VerrouillerMethode, SuivreLaFiche, histoire
      <4>4. CASE ConclureRequalification(r) \/ Convertir(r) \/ Vendre(r) \/ Supprimer(r)
                 \/ Remettre(r) \/ ModifierMethode(r) \/ Affecter(r)
        BY <4>4 DEF ConclureRequalification, Convertir, Vendre, Supprimer, Remettre, ModifierMethode,
           Affecter, histoire
      <4>5. CASE ConclureTentative(r)
        BY <4>5
      <4> QED
        BY <4>1, <4>2, <4>3, <4>4, <4>5 DEF Poursuivre
    <3> QED
      BY <3>1, <3>2, <3>3, <3>4, <3>5, <3>6 DEF Next
  <2>2. PICK r \in Requetes : ConclureTentative(r)
    BY <2>1
  <2>3. t = tx[r].t
    BY <2>2 DEF ConclureTentative, Sure, Typage, TypeOK
  <2>4. tx[r].op = "tentative" /\ tx[r].etape = "deux" /\ tx[r].fiche = appel[t].fiche
    BY <2>2, <2>3 DEF ConclureTentative, EnVol, Sure, Typage, ToutRenseigne, Renseignee
  <2> QED
    BY <2>4 DEF Sure, Exclusion, Verifiee
<1> QED
  BY <1>1, SureteCorrecte, PTL DEF Spec, ConvertieFigee

(* What each writer of a closed fiche leaves it as. *)
LEMMA AppelClos ==
  ASSUME Typage, NEW r \in Requetes, ConclureTentative(r), NEW g \in Fiches, fiche[g].statut \in Clos
  PROVE  fiche'[g].statut \in Clos
<1> DEFINE f == tx[r].fiche
           a == appel[tx[r].t]
           p == [parcours[f] EXCEPT !.statut = PremierAppel(@)]
           l == FicheAppelee(fiche[f], a, tx[r].instant)
<1>1. CASE g = f
  <2>1. fiche[f] \in LignesFiche
    BY <1>1 DEF Typage, TypeOK
  <2>2. tx[r].t \in Tentatives /\ a \in AppelsPossibles
    BY DEF ConclureTentative, EnVol, Typage, ToutRenseigne, AppelsFaits, Renseignee
  <2>3. a \in Appels /\ a.motif \in Motifs /\ a.agent \in Agents /\ tx[r].instant \in Nat
    BY <2>2 DEF AppelsPossibles, Typage, TypeOK, Transactions
  <2>4. l \in LignesFiche
    BY <2>1, <2>3, AppeleeType
  <2>5. l.statut = fiche[f].statut
    BY <1>1, <2>1 DEF FicheAppelee, PremierAppel, LignesFiche, Clos
  <2>6. fiche'[f] = FicheClassee(l, p, RegleDe(a), Effet[a.motif], a.methode)
    BY <1>1 DEF ConclureTentative, Typage, TypeOK
  <2> HIDE DEF l, p
  <2> QED
    BY <1>1, <2>4, <2>5, <2>6, ClasseeSupprimee
<1>2. CASE g # f
  BY <1>2 DEF ConclureTentative, Typage, TypeOK
<1> QED
  BY <1>1, <1>2

LEMMA RequalificationClos ==
  ASSUME Typage, NEW r \in Requetes, ConclureRequalification(r), NEW g \in Fiches, fiche[g].statut \in Clos
  PROVE  fiche'[g].statut \in Clos
<1> DEFINE f == tx[r].fiche
           e == Effet[tx[r].motif]
           avant == [fiche[f] EXCEPT !.motif = tx[r].motif]
<1>1. CASE g = f
  <2>1. fiche[f] \in LignesFiche /\ tx[r].motif \in Motifs
    BY <1>1 DEF ConclureRequalification, EnVol, Typage, TypeOK, ToutRenseigne, Renseignee
  <2>2. avant \in LignesFiche
    BY <2>1, LigneMotif
  <2>3. avant.statut = fiche[f].statut
    BY <2>1 DEF LignesFiche
  <2>4. fiche'[f] = FicheClassee(avant, parcours[f], e, e, FALSE)
    BY <1>1 DEF ConclureRequalification, Typage, TypeOK
  <2> HIDE DEF avant
  <2>5. FicheClassee(avant, parcours[f], e, e, FALSE).statut \in Clos <=> avant.statut \in Clos
    BY <2>2, ClasseeSupprimee
  <2> QED
    BY <1>1, <2>3, <2>4, <2>5
<1>2. CASE g # f
  BY <1>2 DEF ConclureRequalification, Typage, TypeOK
<1> QED
  BY <1>1, <1>2

LEMMA GesteClos ==
  ASSUME Typage, NEW r \in Requetes,
         \/ Convertir(r) \/ Vendre(r) \/ Supprimer(r)
         \/ Remettre(r) \/ ModifierMethode(r) \/ Affecter(r),
         NEW g \in Fiches, fiche[g].statut \in Clos
  PROVE  fiche'[g].statut \in Clos
<1> DEFINE f == tx[r].fiche
<1>1. CASE g = f
  <2>0. fiche[f] \in LignesFiche
    BY <1>1 DEF Typage, TypeOK
  <2>1. CASE Convertir(r)
    <3>1. fiche'[f] = [fiche[f] EXCEPT !.statut = IF fiche[f].statut = "VENDU" THEN "VENDU" ELSE "CONVERTI"]
      BY <1>1, <2>1 DEF Convertir, Typage, TypeOK
    <3> QED
      BY <1>1, <2>0, <3>1 DEF LignesFiche, Clos
  <2>2. CASE Vendre(r)
    <3>1. fiche'[f] = [fiche[f] EXCEPT !.statut = IF verrouFiche[f] = {r} THEN "VENDU" ELSE fiche[f].statut]
      BY <1>1, <2>2 DEF Vendre, Typage, TypeOK
    <3> QED
      BY <1>1, <2>0, <3>1 DEF LignesFiche, Clos
  <2>3. CASE Supprimer(r)
    <3>1. fiche'[f] = [fiche[f] EXCEPT !.supprimee = TRUE]
      BY <1>1, <2>3 DEF Supprimer, Typage, TypeOK
    <3> QED
      BY <1>1, <2>0, <3>1 DEF LignesFiche
  <2>4. CASE Remettre(r)
    BY <1>1, <2>4 DEF Remettre, RemiseRefusee
  <2>5. CASE ModifierMethode(r)
    <3>1. fiche'[f] = [fiche[f] EXCEPT !.methode = tx[r].methode,
                                       !.phase2 = PhaseModifiee(fiche[f].phase2, tx[r].methode)]
      BY <1>1, <2>5 DEF ModifierMethode, Typage, TypeOK
    <3> QED
      BY <1>1, <2>0, <3>1 DEF LignesFiche
  <2>6. CASE Affecter(r)
    <3>1. fiche'[f] = [fiche[f] EXCEPT !.titulaire = tx[r].agent]
      BY <1>1, <2>6 DEF Affecter, Typage, TypeOK
    <3> QED
      BY <1>1, <2>0, <3>1 DEF LignesFiche
  <2> QED
    BY <2>1, <2>2, <2>3, <2>4, <2>5, <2>6
<1>2. CASE g # f
  BY <1>2 DEF Convertir, Vendre, Supprimer, Remettre, ModifierMethode, Affecter, Typage, TypeOK
<1> QED
  BY <1>1, <1>2

(* No call, late or not, and no gesture takes a fiche out of CONVERTI or VENDU:   *)
(* each of them decides on the row its own statement has locked.               *)
THEOREM ClosPourToujours == Spec => ClosDefinitif
<1>1. Typage /\ [Next]_vars =>
        [\A f \in Fiches : fiche[f].statut \in Clos => fiche'[f].statut \in Clos]_vars
  <2> SUFFICES ASSUME Typage, [Next]_vars, NEW f \in Fiches, fiche[f].statut \in Clos
               PROVE  fiche'[f].statut \in Clos
    OBVIOUS
  <2> USE DEF base
  <2>1. CASE UNCHANGED vars
    BY <2>1 DEF vars
  <2>2. CASE Avancer \/ \E t \in Tentatives, a \in AppelsPossibles : Appeler(t, a)
    BY <2>2 DEF Avancer, Appeler
  <2>3. CASE \E i \in Requetes : AnnulerRappel(i) \/ RetablirRappel(i)
    BY <2>3 DEF AnnulerRappel, RetablirRappel
  <2>4. CASE \E r \in Requetes : Recevoir(r)
    BY <2>4, RecevoirSansEcrire DEF base
  <2>5. CASE \E r \in Requetes : Interrompre(r)
    BY <2>5 DEF Interrompre
  <2>6. CASE \E r \in Requetes : Poursuivre(r)
    <3>1. PICK r \in Requetes : Poursuivre(r)
      BY <2>6
    <3>2. CASE FicheIntrouvable(r) \/ Rejeu(r) \/ RefuserConvertie(r) \/ EchouerRequalification(r)
               \/ RefuserConversion(r) \/ RefuserRemise(r)
      BY <3>2 DEF FicheIntrouvable, Rejeu, RefuserConvertie, EchouerRequalification,
         RefuserConversion, RefuserRemise, Refuser
    <3>3. CASE VerrouillerFiche(r) \/ EntamerTentative(r) \/ VerrouillerParcours(r)
               \/ EntamerRequalification(r) \/ VerrouillerVente(r) \/ EntamerSuppression(r)
               \/ VerrouillerRemise(r) \/ VerrouillerMethode(r) \/ SuivreLaFiche(r)
      BY <3>3 DEF VerrouillerFiche, EntamerTentative, VerrouillerParcours, EntamerRequalification,
         VerrouillerVente, EntamerSuppression, VerrouillerRemise, VerrouillerMethode, SuivreLaFiche
    <3> QED
      BY <3>1, <3>2, <3>3, AppelClos, RequalificationClos, GesteClos DEF Poursuivre
  <2> QED
    BY <2>1, <2>2, <2>3, <2>4, <2>5, <2>6 DEF Next
<1> QED
  BY <1>1, TypageCorrect, PTL DEF Spec, ClosDefinitif

-----------------------------------------------------------------------------
(***************************************************************************)
(* What a step does to the requests and to the tables, whatever the           *)
(* operation: a request begins, goes on without a write, ends without a        *)
(* write, or ends with one of the eight writes of the model.                  *)
(***************************************************************************)
Tables == <<fiche, parcours, rappel, tentative, tardives>>

LesAutres(r) == \A s \in Requetes \ {r} : tx'[s] = tx[s]

Debute(r) ==
  /\ tx[r].etape = "libre" /\ LesAutres(r)
  /\ tx'[r].op \in Operations /\ tx'[r].pris = {} /\ tx'[r].etape \in {"lu", "fin"}
  /\ tx'[r].etape = "lu" /\ tx'[r].op = "tentative" => tx'[r].instant <= horloge + Tolerance
  /\ tx'[r].etape = "lu" /\ tx'[r].op = "vendre" => fiche[tx'[r].fiche].statut = "CONVERTI"
  /\ UNCHANGED <<horloge, appel, Tables, verrous>>

Entame(r) ==
  /\ EnCours(tx[r].fiche) = {} /\ tx'[r].pris = EnAttente(tx[r].fiche)
  /\ r \in verrouFiche'[tx[r].fiche] \/ (tx[r].op = "supprimer" /\ fiche[tx[r].fiche].supprimee)

(* The journey a gesture is about to write is locked, unless its statement did not *)
(* find it: closed for a return to the queue, missing for a correction of the method. *)
Attrape(r) ==
  LET f == tx[r].fiche
  IN  \/ verrouParcours'[f] = {r}
      \/ tx[r].op = "remettre" /\ parcours[f].statut \in Clos
      \/ tx[r].op = "methode" /\ ~parcours[f].existe

Avance(r) ==
  /\ EnVol(r) /\ EnVol(r)' /\ LesAutres(r)
  /\ tx'[r].op = tx[r].op /\ tx'[r].fiche = tx[r].fiche /\ tx'[r].t = tx[r].t
  /\ tx'[r].instant = tx[r].instant
  /\ Entame(r) \/ (tx'[r].pris = tx[r].pris /\ tx'[r].etape # "deux")
  /\ tx'[r].etape = "parcours" => Attrape(r)
  /\ \A f \in Fiches : /\ verrouFiche[f] \subseteq verrouFiche'[f]
                       /\ verrouParcours[f] # {} => verrouParcours'[f] = verrouParcours[f]
  /\ UNCHANGED <<horloge, appel, Tables>>

Acheve(r) ==
  /\ EnVol(r) /\ LesAutres(r)
  /\ tx'[r].etape = "fin" /\ tx'[r].pris = {}
  /\ tx'[r].op = tx[r].op /\ tx'[r].fiche = tx[r].fiche /\ tx'[r].t = tx[r].t
  /\ \A f \in Fiches : /\ verrouFiche'[f] = verrouFiche[f] \ {r}
                       /\ verrouParcours'[f] = verrouParcours[f] \ {r}
  /\ UNCHANGED <<horloge, appel>>

Ecrit(r) ==
  \/ ConclureTentative(r) \/ ConclureRequalification(r) \/ Convertir(r) \/ Vendre(r)
  \/ Supprimer(r) \/ Remettre(r) \/ ModifierMethode(r) \/ Affecter(r)

SansRequete == UNCHANGED <<tx, Tables, verrous>>

LEMMA AcheveEnFin ==
  ASSUME Typage, NEW r \in Requetes, NEW reponse, EnVol(r), Terminer(r, reponse),
         UNCHANGED <<horloge, appel>>
  PROVE  Acheve(r) /\ tx'[r].reponse = reponse
<1> DEFINE q == [RequeteVide EXCEPT !.op = tx[r].op, !.fiche = tx[r].fiche, !.t = tx[r].t,
                   !.etape = "fin", !.reponse = reponse]
<1>1. tx'[r] = q /\ LesAutres(r)
  BY DEF Terminer, LesAutres, Typage, TypeOK
<1>2. /\ q.etape = "fin" /\ q.pris = {} /\ q.reponse = reponse
      /\ q.op = tx[r].op /\ q.fiche = tx[r].fiche /\ q.t = tx[r].t
  BY DEF RequeteVide
<1>3. \A f \in Fiches : /\ verrouFiche'[f] = verrouFiche[f] \ {r}
                        /\ verrouParcours'[f] = verrouParcours[f] \ {r}
  BY DEF Terminer
<1> HIDE DEF q
<1> QED
  BY <1>1, <1>2, <1>3 DEF Acheve

LEMMA AbandonAcheve ==
  ASSUME Typage, NEW r \in Requetes,
         \/ FicheIntrouvable(r) \/ Rejeu(r) \/ RefuserConvertie(r) \/ EchouerRequalification(r)
         \/ RefuserConversion(r) \/ RefuserRemise(r) \/ Interrompre(r)
  PROVE  Acheve(r) /\ UNCHANGED Tables /\ tx'[r].reponse # "applied"
<1> USE DEF base, histoire, Tables
<1>1. EnVol(r)
  BY DEF FicheIntrouvable, Rejeu, RefuserConvertie, EchouerRequalification, RefuserConversion,
     RefuserRemise, AuTraiter, AuPreVol, Interrompre, EnVol
<1>2. \E reponse \in {"refus", "duplicate", "panne"} : Terminer(r, reponse)
  BY DEF FicheIntrouvable, Rejeu, RefuserConvertie, EchouerRequalification, RefuserConversion,
     RefuserRemise, Interrompre, Refuser
<1>3. UNCHANGED <<horloge, appel, Tables>>
  BY DEF FicheIntrouvable, Rejeu, RefuserConvertie, EchouerRequalification, RefuserConversion,
     RefuserRemise, Interrompre, Refuser
<1> QED
  BY <1>1, <1>2, <1>3, AcheveEnFin

LEMMA EcritAcheve ==
  ASSUME Typage, NEW r \in Requetes, Ecrit(r)
  PROVE  /\ Acheve(r) /\ tx[r].fiche \in Fiches /\ fiche[tx[r].fiche] \in LignesFiche
         /\ parcours[tx[r].fiche] \in LignesParcours
         /\ ~ConclureTentative(r) => UNCHANGED <<tentative, tardives>>
<1>1. EnVol(r)
  BY DEF Ecrit, ConclureTentative, ConclureRequalification, Convertir, Vendre, Supprimer, Remettre,
     AuTraiter, ModifierMethode, Affecter, EnVol
<1>2. Terminer(r, "applied") /\ UNCHANGED <<horloge, appel>>
  BY DEF Ecrit, ConclureTentative, ConclureRequalification, Convertir, Vendre, Supprimer, Remettre,
     ModifierMethode, Affecter
<1>3. ~ConclureTentative(r) => UNCHANGED <<tentative, tardives>>
  BY DEF Ecrit, ConclureRequalification, Convertir, Vendre, Supprimer, Remettre, ModifierMethode,
     Affecter, histoire
<1> QED
  BY <1>1, <1>2, <1>3, AcheveEnFin DEF Typage, TypeOK, ToutRenseigne, Renseignee

LEMMA PasserAvance ==
  ASSUME Typage, NEW r \in Requetes, NEW op, NEW de, NEW vers \in Etapes, Passer(r, op, de, vers),
         de \notin {"libre", "fin"}, vers \notin {"libre", "deux", "fin"},
         PrendreFiche(r) \/ UNCHANGED verrouFiche,
         PrendreParcours(r) \/ UNCHANGED verrouParcours, vers = "parcours" => Attrape(r),
         UNCHANGED <<horloge, appel, Tables>>
  PROVE  Avance(r)
<1>1. tx[r] \in Transactions
  BY DEF Typage, TypeOK
<1>2. tx'[r] = [tx[r] EXCEPT !.etape = vers] /\ LesAutres(r)
  BY DEF Passer, LesAutres, Typage, TypeOK
<1>3. /\ tx'[r].etape = vers /\ tx'[r].op = tx[r].op /\ tx'[r].fiche = tx[r].fiche
      /\ tx'[r].t = tx[r].t /\ tx'[r].instant = tx[r].instant /\ tx'[r].pris = tx[r].pris
  BY <1>1, <1>2 DEF Transactions
<1>4. tx[r].etape = de
  BY DEF Passer
<1>5. \A f \in Fiches : /\ verrouFiche[f] \subseteq verrouFiche'[f]
                        /\ verrouParcours[f] # {} => verrouParcours'[f] = verrouParcours[f]
  BY DEF PrendreFiche, PrendreParcours, Typage, TypeOK
<1>6. tx'[r].etape = "parcours" => Attrape(r)
  BY <1>3
<1> QED
  BY <1>2, <1>3, <1>4, <1>5, <1>6 DEF Avance, EnVol

LEMMA EntamerAvance ==
  ASSUME Typage, NEW r \in Requetes, EnVol(r), NEW etape \in {"fiche", "deux"}, EntamerRappels(r, etape),
         \A f \in Fiches : verrouFiche[f] \subseteq verrouFiche'[f],
         PrendreParcours(r) \/ UNCHANGED verrouParcours,
         r \in verrouFiche'[tx[r].fiche] \/ (tx[r].op = "supprimer" /\ fiche[tx[r].fiche].supprimee),
         UNCHANGED <<horloge, appel, Tables>>
  PROVE  Avance(r)
<1>1. tx[r] \in Transactions
  BY DEF Typage, TypeOK
<1>2. /\ tx'[r] = [tx[r] EXCEPT !.etape = etape, !.pris = EnAttente(tx[r].fiche)]
      /\ LesAutres(r) /\ EnCours(tx[r].fiche) = {}
  BY DEF EntamerRappels, LesAutres, Typage, TypeOK
<1>3. /\ tx'[r].etape = etape /\ tx'[r].op = tx[r].op /\ tx'[r].fiche = tx[r].fiche
      /\ tx'[r].t = tx[r].t /\ tx'[r].instant = tx[r].instant
      /\ tx'[r].pris = EnAttente(tx[r].fiche)
  BY <1>1, <1>2 DEF Transactions
<1>4. \A f \in Fiches : verrouParcours[f] # {} => verrouParcours'[f] = verrouParcours[f]
  BY DEF PrendreParcours, Typage, TypeOK
<1> QED
  BY <1>2, <1>3, <1>4 DEF Avance, Entame, EnVol

(* The requests that go on: they wait for a lock, or update the callbacks of      *)
(* their fiche, which they have locked, or which is deleted for good.             *)
LEMMA PoursuiteAvance ==
  ASSUME Sure, NEW r \in Requetes,
         \/ VerrouillerFiche(r) \/ EntamerTentative(r) \/ VerrouillerParcours(r)
         \/ EntamerRequalification(r) \/ VerrouillerVente(r) \/ EntamerSuppression(r)
         \/ VerrouillerRemise(r) \/ VerrouillerMethode(r) \/ SuivreLaFiche(r)
  PROVE  Avance(r)
<1> USE DEF base, histoire, verrous, Tables
<1>0. Typage
  BY DEF Sure
<1>1. CASE VerrouillerFiche(r) \/ VerrouillerParcours(r) \/ VerrouillerVente(r)
           \/ VerrouillerRemise(r) \/ VerrouillerMethode(r) \/ SuivreLaFiche(r)
  <2>1. PICK op \in ToutesOperations, de \in {"lu", "parcours"}, vers \in {"campagne", "fiche", "parcours"} :
          Passer(r, op, de, vers)
    BY <1>1 DEF VerrouillerFiche, VerrouillerParcours, VerrouillerVente, VerrouillerRemise,
       VerrouillerMethode, SuivreLaFiche, ToutesOperations
  <2>2. /\ PrendreFiche(r) \/ UNCHANGED verrouFiche
        /\ PrendreParcours(r) \/ UNCHANGED verrouParcours
        /\ UNCHANGED <<horloge, appel, Tables>>
    BY <1>1 DEF VerrouillerFiche, VerrouillerParcours, VerrouillerVente, VerrouillerRemise,
       VerrouillerMethode, SuivreLaFiche
  <2>3. CASE VerrouillerParcours(r) \/ VerrouillerRemise(r) \/ VerrouillerMethode(r)
    <3>1. EnVol(r)
      BY <2>3 DEF VerrouillerParcours, VerrouillerRemise, VerrouillerMethode, Passer, EnVol
    <3>2. tx[r].fiche \in Fiches
      BY <1>0, <3>1 DEF Typage, ToutRenseigne, Renseignee
    <3>3. PrendreParcours(r) => verrouParcours'[tx[r].fiche] = {r}
      BY <1>0, <3>2 DEF PrendreParcours, Typage, TypeOK
    <3>4. Attrape(r)
      BY <2>3, <3>3 DEF VerrouillerParcours, VerrouillerRemise, VerrouillerMethode, Attrape, Passer
    <3> QED
      BY <1>0, <2>1, <2>2, <3>4, PasserAvance DEF Etapes
  <2>4. CASE VerrouillerFiche(r) \/ VerrouillerVente(r) \/ SuivreLaFiche(r)
    <3>1. \E o \in ToutesOperations, v \in {"campagne", "fiche"} : Passer(r, o, "lu", v)
      BY <2>4 DEF VerrouillerFiche, VerrouillerVente, SuivreLaFiche, ToutesOperations
    <3> QED
      BY <1>0, <2>2, <3>1, PasserAvance DEF Etapes
  <2> QED
    BY <1>1, <2>3, <2>4
<1>2. ASSUME EnVol(r) PROVE tx[r].fiche \in Fiches
  BY <1>0, <1>2 DEF Typage, ToutRenseigne, Renseignee
<1>3. ASSUME EnVol(r), PrendreFiche(r)
      PROVE  r \in verrouFiche'[tx[r].fiche] /\ \A f \in Fiches : verrouFiche[f] \subseteq verrouFiche'[f]
  BY <1>0, <1>2, <1>3 DEF PrendreFiche, Typage, TypeOK
<1>4. CASE EntamerTentative(r)
  <2>1. EnVol(r) /\ r \in verrouFiche[tx[r].fiche]
    BY <1>4 DEF EntamerTentative, AuPreVol, EnVol, Sure, Exclusion, Verifiee
  <2>2. /\ EntamerRappels(r, "deux") /\ UNCHANGED <<horloge, appel, Tables, verrouFiche>>
        /\ PrendreParcours(r)
    BY <1>4 DEF EntamerTentative
  <2> QED
    BY <1>0, <2>1, <2>2, EntamerAvance
<1>5. CASE EntamerRequalification(r)
  <2>1. EnVol(r) /\ PrendreFiche(r) /\ EntamerRappels(r, "deux") /\ UNCHANGED <<horloge, appel, Tables, verrouParcours>>
    BY <1>5 DEF EntamerRequalification, EnVol
  <2> QED
    BY <1>0, <1>3, <2>1, EntamerAvance
<1>6. CASE EntamerSuppression(r)
  <2>1. EnVol(r) /\ EntamerRappels(r, "fiche") /\ UNCHANGED <<horloge, appel, Tables, verrouParcours>>
    BY <1>6 DEF EntamerSuppression, EnVol
  <2>2. \/ tx[r].op = "supprimer" /\ fiche[tx[r].fiche].supprimee /\ UNCHANGED verrouFiche
        \/ PrendreFiche(r)
    BY <1>6 DEF EntamerSuppression
  <2> QED
    BY <1>0, <1>3, <2>1, <2>2, EntamerAvance
<1> QED
  BY <1>1, <1>4, <1>5, <1>6

LEMMA ReceptionDebute ==
  ASSUME Typage, NEW r \in Requetes, Recevoir(r)
  PROVE  Debute(r)
<1> USE DEF base, histoire, verrous, Tables
<1>1. ASSUME NEW q, Commencer(r, q), UNCHANGED <<horloge, appel, base, verrous, histoire>>,
             q.pris = {}, q.etape \in {"lu", "fin"},
             q.etape = "lu" /\ q.op = "tentative" => q.instant <= horloge + Tolerance,
             q.etape = "lu" /\ q.op = "vendre" => fiche[q.fiche].statut = "CONVERTI"
      PROVE  Debute(r)
  <2>1. tx[r].etape = "libre" /\ q.op \in Operations /\ tx'[r] = q /\ LesAutres(r)
    BY <1>1 DEF Commencer, LesAutres, Typage, TypeOK
  <2> QED
    BY <1>1, <2>1 DEF Debute
<1>2. CASE \E t \in Tentatives : AdmettreTentative(r, t)
  <2>1. PICK t \in Tentatives : AdmettreTentative(r, t)
    BY <1>2
  <2> DEFINE q == RequeteTentative(t)
  <2>2. q.pris = {} /\ q.etape = "lu" /\ q.op = "tentative" /\ q.instant = InstantRetenu(t)
    BY DEF RequeteTentative, RequeteVide
  <2>3. InstantRetenu(t) <= horloge + Tolerance
    BY <2>1, BornesAssumption
       DEF InstantRetenu, AdmettreTentative, Typage, TypeOK, ToutRenseigne, AppelsFaits, AppelsPossibles
  <2>4. Commencer(r, q) /\ UNCHANGED <<horloge, appel, base, verrous, histoire>>
    BY <2>1 DEF AdmettreTentative
  <2> HIDE DEF q
  <2> QED
    BY <1>1, <2>2, <2>3, <2>4
<1>3. CASE \E t \in Tentatives : RefuserTentative(r, t)
  <2>1. PICK t \in Tentatives : RefuserTentative(r, t)
    BY <1>3
  <2> DEFINE q == [RequeteVide EXCEPT !.op = "tentative", !.etape = "fin",
                     !.fiche = appel[t].fiche, !.t = t, !.reponse = "refus"]
  <2>2. q.pris = {} /\ q.etape = "fin"
    BY DEF RequeteVide
  <2>3. Commencer(r, q) /\ UNCHANGED <<horloge, appel, base, verrous, histoire>>
    BY <2>1 DEF RefuserTentative
  <2> HIDE DEF q
  <2> QED
    BY <1>1, <2>2, <2>3
<1>4. ASSUME NEW q, NEW garde, Lire(r, q, garde), q.pris = {}, q.etape = "lu", q.op # "tentative",
             q.op = "vendre" => (garde => fiche[q.fiche].statut = "CONVERTI")
      PROVE  Debute(r)
  BY <1>1, <1>4 DEF Lire
<1>5. ASSUME NEW op, NEW f
      PROVE  /\ Geste(op, f).pris = {} /\ Geste(op, f).etape = "lu"
             /\ Geste(op, f).op = op /\ Geste(op, f).fiche = f
  BY DEF Geste, RequeteVide
<1>6. ASSUME NEW op, NEW f, NEW garde, Lire(r, Geste(op, f), garde), op # "tentative",
             op = "vendre" => (garde => fiche[f].statut = "CONVERTI")
      PROVE  Debute(r)
  <2> DEFINE q == Geste(op, f)
  <2>1. q.pris = {} /\ q.etape = "lu" /\ q.op = op /\ q.fiche = f /\ Lire(r, q, garde)
    BY <1>5, <1>6
  <2> HIDE DEF q
  <2> QED
    BY <1>4, <1>6, <2>1
<1>7. CASE \E f \in Fiches :
             LireConversion(r, f) \/ LireVente(r, f) \/ LireSuppression(r, f) \/ LireRemise(r, f)
  BY <1>6, <1>7 DEF LireConversion, LireVente, LireSuppression, LireRemise
<1>8. CASE \E f \in Fiches, methode \in BOOLEAN : LireMethode(r, f, methode)
  <2>1. PICK f \in Fiches, methode \in BOOLEAN : LireMethode(r, f, methode)
    BY <1>8
  <2> DEFINE q == [Geste("methode", f) EXCEPT !.methode = methode]
  <2>2. q.pris = {} /\ q.etape = "lu" /\ q.op = "methode"
    BY DEF Geste, RequeteVide
  <2>3. Lire(r, q, fiche[f].statut \in Clos => methode)
    BY <2>1 DEF LireMethode
  <2> HIDE DEF q
  <2> QED
    BY <1>4, <2>2, <2>3
<1>9. CASE \E f \in Fiches, vers \in Agents : LireAffectation(r, f, vers)
  <2>1. PICK f \in Fiches, vers \in Agents : LireAffectation(r, f, vers)
    BY <1>9
  <2> DEFINE q == [Geste("affecter", f) EXCEPT !.agent = vers]
  <2>2. q.pris = {} /\ q.etape = "lu" /\ q.op = "affecter"
    BY DEF Geste, RequeteVide
  <2>3. Lire(r, q, fiche[f].statut \notin Clos)
    BY <2>1 DEF LireAffectation
  <2> HIDE DEF q
  <2> QED
    BY <1>4, <2>2, <2>3
<1>10. CASE \E f \in Fiches, m \in Motifs, a \in Encadrement : LireRequalification(r, f, m, a)
  <2>1. PICK f \in Fiches, m \in Motifs, a \in Encadrement : LireRequalification(r, f, m, a)
    BY <1>10
  <2> DEFINE b == IF fiche[f].appelant = Rien THEN a ELSE fiche[f].appelant
             q == [Geste("requalifier", f) EXCEPT !.motif = m, !.agent = b]
  <2>2. Lire(r, q, fiche[f].statut \notin Clos)
    BY <2>1 DEF LireRequalification
  <2> HIDE DEF b
  <2>3. q.pris = {} /\ q.etape = "lu" /\ q.op = "requalifier"
    BY DEF Geste, RequeteVide
  <2> HIDE DEF q
  <2> QED
    BY <1>4, <2>2, <2>3
<1> QED
  BY <1>2, <1>3, <1>7, <1>8, <1>9, <1>10 DEF Recevoir

LEMMA FormeDuPas ==
  ASSUME Sure, [Next]_vars
  PROVE  \/ SansRequete /\ (Avancer \/ (\E t \in Tentatives, a \in AppelsPossibles : Appeler(t, a)) \/ UNCHANGED vars)
         \/ \E i \in Requetes : AnnulerRappel(i) \/ RetablirRappel(i)
         \/ \E r \in Requetes : \/ Debute(r) \/ Avance(r) \/ Ecrit(r)
                                \/ Acheve(r) /\ UNCHANGED Tables /\ tx'[r].reponse # "applied"
<1>1. CASE Avancer \/ (\E t \in Tentatives, a \in AppelsPossibles : Appeler(t, a)) \/ UNCHANGED vars
  BY <1>1 DEF Avancer, Appeler, vars, SansRequete, Tables, base, histoire, verrous
<1>2. CASE \E r \in Requetes : Recevoir(r)
  BY <1>2, ReceptionDebute DEF Sure
<1>3. CASE \E r \in Requetes : Poursuivre(r) \/ Interrompre(r)
  BY <1>3, PoursuiteAvance, AbandonAcheve DEF Sure, Poursuivre, Ecrit
<1> QED
  BY <1>1, <1>2, <1>3 DEF Next

-----------------------------------------------------------------------------
(***************************************************************************)
(* The promised callbacks.  A request that is giving callbacks up holds those *)
(* pending of its fiche, and no other request holds any of them: it has locked *)
(* the fiche, or the fiche is deleted and gets no callback any more.  So the   *)
(* two statements that give a promise up and make the next are one step of the *)
(* register, although an owner may cancel or restore a callback in between.    *)
(***************************************************************************)
Tenue(r) ==
  LET f == tx[r].fiche
  IN  /\ rappel[r].etat # "ABSENT" => tx[r].etape = "fin" /\ f \in Fiches
      /\ tx[r].pris \subseteq EnAttente(f)
      /\ tx[r].pris # {} => EnVol(r) /\ (r \in verrouFiche[f] \/ fiche[f].supprimee)
      /\ tx[r].op = "requalifier" /\ tx[r].etape = "deux" => r \in verrouFiche[f]

PrisUneFois == \A r, s \in Requetes :
  r # s /\ tx[r].fiche = tx[s].fiche => tx[r].pris = {} \/ tx[s].pris = {}

UnSeulDu == \A f \in Fiches : \A i, j \in EnAttente(f) : i = j

Registrees == (\A r \in Requetes : Tenue(r)) /\ PrisUneFois /\ UnSeulDu

(* What a write does to the callbacks: nothing, or the pending ones of the fiche  *)
(* become vers, or they give way to the one of the request.                      *)
Laisses == \A i \in Requetes : rappel'[i].etat = rappel[i].etat

Deviennent(f, vers) == \A i \in Requetes :
  rappel'[i].etat = IF i \in EnAttente(f) THEN vers ELSE rappel[i].etat

Remplaces(f, r) == \A i \in Requetes :
  rappel'[i].etat = IF i \in EnAttente(f) THEN "SUPERSEDED"
                    ELSE IF i = r THEN "PENDING" ELSE rappel[i].etat

SeulSurLaFiche(r) == \A s \in Requetes \ {r} : tx[s].fiche = tx[r].fiche => tx[s].pris = {}

LEMMA ClassesRegistre ==
  ASSUME Typage, Registrees, NEW r \in Requetes, EnVol(r), NEW regle, NEW agent,
         NEW vus \in RappelsVus(r, regle), rappel' = RappelsClasses(r, regle, agent, vus)
  PROVE  \/ Laisses /\ tx[r].pris = {} /\ (AccepteRappel(regle) => EnAttente(tx[r].fiche) # {})
         \/ Deviennent(tx[r].fiche, "DONE") /\ ~AccepteRappel(regle)
         \/ Remplaces(tx[r].fiche, r) /\ AccepteRappel(regle)
<1> DEFINE f == tx[r].fiche
           pris == tx[r].pris
<1>1. /\ f \in Fiches /\ pris \subseteq EnAttente(f) /\ rappel[r].etat = "ABSENT"
      /\ \A i, j \in EnAttente(f) : i = j
      /\ \A i \in Requetes : rappel[i] \in LignesRappel
  BY DEF Registrees, Tenue, UnSeulDu, EnVol, Typage, TypeOK, ToutRenseigne, Renseignee
<1>2. pris = {} \/ pris = EnAttente(f)
  BY <1>1
<1>3. EnAttente(f) \subseteq Requetes /\ r \notin EnAttente(f)
  BY <1>1 DEF EnAttente
<1>4. CASE AccepteRappel(regle)
  <2>1. rappel' = [i \in Requetes |->
          IF i \in pris THEN [rappel[i] EXCEPT !.etat = "SUPERSEDED"]
          ELSE IF i = r /\ IndexLibre(f, pris) THEN [etat |-> "PENDING", agent |-> agent]
          ELSE rappel[i]]
    BY <1>4 DEF RappelsClasses
  <2>2. \A i \in Requetes : rappel'[i].etat =
          IF i \in pris THEN "SUPERSEDED" ELSE IF i = r /\ IndexLibre(f, pris) THEN "PENDING"
          ELSE rappel[i].etat
    BY <1>1, <2>1 DEF LignesRappel
  <2>3. CASE IndexLibre(f, pris)
    <3>1. pris = EnAttente(f)
      BY <1>1, <2>3 DEF IndexLibre
    <3> QED
      BY <1>4, <2>2, <2>3, <3>1 DEF Remplaces
  <2>4. CASE ~IndexLibre(f, pris)
    <3>1. pris = {} /\ EnAttente(f) # {}
      BY <1>2, <2>4 DEF IndexLibre
    <3> QED
      BY <2>2, <2>4, <3>1 DEF Laisses
  <2> QED
    BY <2>3, <2>4
<1>5. CASE ~AccepteRappel(regle)
  <2>1. rappel' = [i \in Requetes |-> IF i \in vus THEN [rappel[i] EXCEPT !.etat = "DONE"] ELSE rappel[i]]
    BY <1>5 DEF RappelsClasses
  <2>2. \A i \in Requetes : rappel'[i].etat = IF i \in vus THEN "DONE" ELSE rappel[i].etat
    BY <1>1, <2>1 DEF LignesRappel
  <2>3. (vus = {} /\ pris = {}) \/ vus = EnAttente(f)
    BY <1>2 DEF RappelsVus
  <2> QED
    BY <1>5, <2>2, <2>3 DEF Laisses, Deviennent
<1> QED
  BY <1>4, <1>5

LEMMA EcritRegistre ==
  ASSUME Sure, Registrees, NEW r \in Requetes, Ecrit(r)
  PROVE  \/ Laisses
         \/ SeulSurLaFiche(r) /\ \E vers \in {"DONE", "CANCELLED"} : Deviennent(tx[r].fiche, vers)
         \/ SeulSurLaFiche(r) /\ Remplaces(tx[r].fiche, r)
<1> DEFINE f == tx[r].fiche
<1>0. Typage /\ EnVol(r) /\ f \in Fiches
  BY EcritAcheve DEF Acheve, Sure
<1>1. CASE ConclureTentative(r) \/ ConclureRequalification(r)
  <2>1. r \in verrouFiche[f] /\ ~fiche[f].supprimee
    <3>1. CASE ConclureTentative(r)
      BY <3>1 DEF ConclureTentative, Sure, Exclusion, Verifiee
    <3>2. CASE ConclureRequalification(r)
      <4> DEFINE e == Effet[tx[r].motif]
                 avant == [fiche[f] EXCEPT !.motif = tx[r].motif]
      <4>1. tx[r].op = "requalifier" /\ tx[r].etape = "deux" /\ tx[r].motif \in Motifs
        BY <1>0, <3>2 DEF ConclureRequalification, Typage, ToutRenseigne, Renseignee
      <4>2. ~FicheClassee(avant, parcours[f], e, e, FALSE).supprimee
        BY <3>2 DEF ConclureRequalification
      <4>3. fiche[f] \in LignesFiche
        BY <1>0 DEF Typage, TypeOK
      <4>4. avant \in LignesFiche /\ avant.supprimee = fiche[f].supprimee
        BY <4>1, <4>3, LigneMotif DEF LignesFiche
      <4> HIDE DEF avant
      <4> QED
        BY <4>1, <4>2, <4>4, ClasseeSupprimee DEF Registrees, Tenue
    <3> QED
      BY <1>1, <3>1, <3>2
  <2>2. SeulSurLaFiche(r)
    BY <1>0, <2>1 DEF SeulSurLaFiche, Registrees, Tenue, Sure, Exclusion, Verrouille
  <2>3. ASSUME NEW regle, NEW agent, NEW vus \in RappelsVus(r, regle),
               rappel' = RappelsClasses(r, regle, agent, vus)
        PROVE  Laisses \/ Deviennent(f, "DONE") \/ Remplaces(f, r)
    BY <1>0, <2>3, ClassesRegistre
  <2> QED
    BY <1>1, <2>2, <2>3 DEF ConclureTentative, ConclureRequalification
<1>2. CASE Supprimer(r)
  <2>1. \A i \in Requetes : rappel'[i].etat = IF i \in tx[r].pris THEN "CANCELLED" ELSE rappel[i].etat
    BY <1>0, <1>2 DEF Supprimer, Typage, TypeOK, LignesRappel
  <2>2. tx[r].pris = {} \/ tx[r].pris = EnAttente(f)
    <3>1. tx[r].pris \subseteq EnAttente(f) /\ \A i, j \in EnAttente(f) : i = j
      BY <1>0 DEF Registrees, Tenue, UnSeulDu
    <3> QED
      BY <3>1
  <2>3. CASE tx[r].pris = {}
    BY <2>1, <2>3 DEF Laisses
  <2>4. CASE tx[r].pris # {}
    BY <2>1, <2>2, <2>4 DEF Deviennent, SeulSurLaFiche, Registrees, PrisUneFois
  <2> QED
    BY <2>3, <2>4
<1>3. CASE Affecter(r)
  BY <1>0, <1>3 DEF Affecter, Laisses, Typage, TypeOK, LignesRappel
<1>4. CASE Convertir(r) \/ Vendre(r) \/ Remettre(r) \/ ModifierMethode(r)
  BY <1>4 DEF Convertir, Vendre, Remettre, ModifierMethode, Laisses
<1> QED
  BY <1>1, <1>2, <1>3, <1>4 DEF Ecrit

(* A deleted fiche stays deleted. *)
LEMMA SupprimeePourToujours ==
  ASSUME Sure, [Next]_vars, NEW f \in Fiches, fiche[f].supprimee
  PROVE  fiche'[f].supprimee
<1>0. Typage
  BY DEF Sure
<1>1. ASSUME NEW r \in Requetes, Ecrit(r), f = tx[r].fiche PROVE fiche'[f].supprimee
  <2>0. fiche[f] \in LignesFiche /\ parcours[f] \in LignesParcours
    BY <1>0 DEF Typage, TypeOK
  <2>1. CASE ConclureTentative(r)
    BY <1>1, <2>1 DEF ConclureTentative, Sure, Exclusion, Verifiee
  <2>2. CASE ConclureRequalification(r)
    <3> DEFINE l == FicheClassee([fiche[f] EXCEPT !.motif = tx[r].motif], parcours[f],
                      Effet[tx[r].motif], Effet[tx[r].motif], FALSE)
    <3>1. ~l.supprimee
      BY <1>1, <2>2 DEF ConclureRequalification
    <3>2. tx[r].motif \in Motifs
      BY <1>0, <2>2 DEF ConclureRequalification, EnVol, Typage, ToutRenseigne, Renseignee
    <3>3. [fiche[f] EXCEPT !.motif = tx[r].motif] \in LignesFiche
          /\ [fiche[f] EXCEPT !.motif = tx[r].motif].supprimee = fiche[f].supprimee
      BY <2>0, <3>2, LigneMotif DEF LignesFiche
    <3> QED
      BY <3>1, <3>3, ClasseeSupprimee
  <2>3. CASE Convertir(r)
    <3>1. fiche'[f] = [fiche[f] EXCEPT !.statut = IF fiche[f].statut = "VENDU" THEN "VENDU" ELSE "CONVERTI"]
      BY <1>0, <1>1, <2>3 DEF Convertir, Typage, TypeOK
    <3> QED
      BY <2>0, <3>1 DEF LignesFiche
  <2>4. CASE Vendre(r)
    <3>1. fiche'[f] = [fiche[f] EXCEPT !.statut = IF verrouFiche[f] = {r} THEN "VENDU" ELSE fiche[f].statut]
      BY <1>0, <1>1, <2>4 DEF Vendre, Typage, TypeOK
    <3> QED
      BY <2>0, <3>1 DEF LignesFiche
  <2>5. CASE Supprimer(r)
    <3>1. fiche'[f] = [fiche[f] EXCEPT !.supprimee = TRUE]
      BY <1>0, <1>1, <2>5 DEF Supprimer, Typage, TypeOK
    <3> QED
      BY <2>0, <3>1 DEF LignesFiche
  <2>6. CASE Remettre(r)
    <3>1. fiche'[f] = [fiche[f] EXCEPT !.statut = "NOUVEAU", !.phase2 = "PENDING", !.methode = FALSE]
      BY <1>0, <1>1, <2>6 DEF Remettre, Typage, TypeOK
    <3> QED
      BY <2>0, <3>1 DEF LignesFiche
  <2>7. CASE ModifierMethode(r)
    <3>1. fiche'[f] = [fiche[f] EXCEPT !.methode = tx[r].methode,
                                       !.phase2 = PhaseModifiee(fiche[f].phase2, tx[r].methode)]
      BY <1>0, <1>1, <2>7 DEF ModifierMethode, Typage, TypeOK
    <3> QED
      BY <2>0, <3>1 DEF LignesFiche
  <2>8. CASE Affecter(r)
    <3>1. fiche'[f] = [fiche[f] EXCEPT !.titulaire = tx[r].agent]
      BY <1>0, <1>1, <2>8 DEF Affecter, Typage, TypeOK
    <3> QED
      BY <2>0, <3>1 DEF LignesFiche
  <2> QED
    BY <1>1, <2>1, <2>2, <2>3, <2>4, <2>5, <2>6, <2>7, <2>8 DEF Ecrit
<1>2. ASSUME NEW r \in Requetes, Ecrit(r), f # tx[r].fiche PROVE fiche'[f] = fiche[f]
  BY <1>0, <1>2 DEF Ecrit, ConclureTentative, ConclureRequalification, Convertir, Vendre, Supprimer,
     Remettre, ModifierMethode, Affecter, Typage, TypeOK
<1>3. CASE \E i \in Requetes : AnnulerRappel(i) \/ RetablirRappel(i)
  BY <1>3 DEF AnnulerRappel, RetablirRappel
<1>4. CASE \E r \in Requetes : Ecrit(r)
  BY <1>1, <1>2, <1>4
<1> QED
  BY <1>3, <1>4, FormeDuPas DEF SansRequete, Tables, Debute, Avance

LEMMA InitRegistrees == Init => Registrees
<1> SUFFICES ASSUME Init PROVE Registrees
  OBVIOUS
<1>1. \A r \in Requetes : tx[r].etape = "libre" /\ tx[r].pris = {}
  BY DEF Init, RequeteVide
<1>2. \A r \in Requetes : rappel[r].etat = "ABSENT"
  BY DEF Init
<1>3. \A f : EnAttente(f) = {}
  BY <1>2 DEF EnAttente
<1> QED
  BY <1>1, <1>2, <1>3 DEF Registrees, Tenue, PrisUneFois, UnSeulDu

(* A step of a request that writes no callback. *)
LEMMA SansEcritRegistrees ==
  ASSUME Sure, Registrees, NEW r \in Requetes, LesAutres(r),
         \/ Debute(r) \/ Avance(r)
         \/ Acheve(r) /\ UNCHANGED Tables
  PROVE  Registrees'
<1>1. rappel' = rappel /\ fiche' = fiche
  BY DEF Debute, Avance, Tables
<1>2. rappel[r].etat = "ABSENT"
  BY DEF Debute, Avance, Acheve, EnVol, Registrees, Tenue
<1>3. \A f : EnAttente(f)' = EnAttente(f)
  BY <1>1, <1>2 DEF EnAttente, LesAutres
<1>4. \A s \in Requetes \ {r} : \A f \in Fiches : s \in verrouFiche[f] => s \in verrouFiche'[f]
  BY DEF Debute, Avance, Acheve, verrous
<1>5. \A s \in Requetes \ {r} : tx[s].pris # {} => tx[s].fiche \in Fiches
  BY DEF Registrees, Tenue, Sure, Typage, ToutRenseigne, Renseignee
<1>6. \A s \in Requetes : Verrouille /\ (EnVol(s) => tx[s].fiche \in Fiches)
  BY DEF Sure, Exclusion, Typage, ToutRenseigne, Renseignee
<1>7. ASSUME NEW s \in Requetes \ {r} PROVE Tenue(s)'
  <2>1. Tenue(s) /\ tx'[s] = tx[s]
    BY DEF Registrees, LesAutres
  <2> QED
    BY <1>1, <1>3, <1>4, <1>5, <1>6, <2>1 DEF Tenue, EnVol
<1>8. CASE tx'[r].pris = {} /\ tx'[r].etape # "deux"
  <2>1. Tenue(r)'
    BY <1>1, <1>2, <1>8 DEF Tenue
  <2>2. PrisUneFois'
    BY <1>8 DEF PrisUneFois, Registrees, LesAutres
  <2> QED
    BY <1>3, <1>7, <2>1, <2>2 DEF Registrees, UnSeulDu
<1>9. CASE Avance(r) /\ Entame(r)
  <2>1. \A s \in Requetes \ {r} : tx[s].fiche = tx[r].fiche => tx[s].pris = {}
    BY <1>9 DEF Entame, EnCours
  <2>2. PrisUneFois'
    BY <1>9, <2>1 DEF PrisUneFois, Registrees, Avance, LesAutres
  <2>3. Tenue(r)'
    BY <1>1, <1>2, <1>3, <1>9 DEF Tenue, Avance, Entame
  <2> QED
    BY <1>3, <1>7, <2>2, <2>3 DEF Registrees, UnSeulDu
<1>10. CASE Avance(r) /\ tx'[r].pris = tx[r].pris /\ tx'[r].etape # "deux"
  <2>1. PrisUneFois'
    BY <1>10 DEF PrisUneFois, Registrees, Avance, LesAutres
  <2>2. Tenue(r)'
    BY <1>1, <1>2, <1>3, <1>6, <1>10 DEF Tenue, Avance, Registrees
  <2> QED
    BY <1>3, <1>7, <2>1, <2>2 DEF Registrees, UnSeulDu
<1> QED
  BY <1>8, <1>9, <1>10 DEF Debute, Avance, Acheve

LEMMA EcritRegistrees ==
  ASSUME Sure, Registrees, [Next]_vars, NEW r \in Requetes, Ecrit(r)
  PROVE  Registrees'
<1> DEFINE f == tx[r].fiche
<1>1. /\ Acheve(r) /\ EnVol(r) /\ f \in Fiches /\ LesAutres(r)
      /\ tx'[r].etape = "fin" /\ tx'[r].pris = {} /\ tx'[r].fiche = f
  BY EcritAcheve DEF Sure, Acheve
<1>2. \A s \in Requetes : tx'[s].fiche = tx[s].fiche
  BY <1>1 DEF LesAutres
<1>3. rappel[r].etat = "ABSENT"
  BY <1>1 DEF EnVol, Registrees, Tenue
<1>4. PrisUneFois'
  BY <1>1, <1>2 DEF PrisUneFois, Registrees, LesAutres
<1>5. ASSUME NEW s \in Requetes \ {r}, NEW g, g = tx[s].fiche, tx[s].pris \subseteq EnAttente(g)',
             rappel'[s].etat # "ABSENT" => rappel[s].etat # "ABSENT"
      PROVE  Tenue(s)'
  <2>1. Tenue(s) /\ tx'[s] = tx[s]
    BY <1>1 DEF Registrees, LesAutres
  <2>2. EnVol(s) => tx[s].fiche \in Fiches
    BY DEF Sure, Typage, ToutRenseigne, Renseignee
  <2>3. \A h \in Fiches : /\ s \in verrouFiche[h] => s \in verrouFiche'[h]
                          /\ fiche[h].supprimee => fiche'[h].supprimee
    BY <1>1, SupprimeePourToujours DEF Acheve
  <2>4. (tx[s].pris \subseteq EnAttente(tx[s].fiche))'
    BY <1>5, <2>1
  <2> QED
    BY <1>5, <2>1, <2>2, <2>3, <2>4 DEF Tenue, EnVol
<1>6. (rappel'[r].etat # "ABSENT" => f \in Fiches) => Tenue(r)'
  BY <1>1 DEF Tenue
<1>7. CASE Laisses
  <2>1. \A g : EnAttente(g)' = EnAttente(g)
    BY <1>2, <1>7 DEF EnAttente, Laisses
  <2>2. ASSUME NEW s \in Requetes \ {r} PROVE Tenue(s)'
    <3>1. \A g : g = tx[s].fiche => tx[s].pris \subseteq EnAttente(g)'
      BY <2>1 DEF Registrees, Tenue
    <3>2. rappel'[s].etat # "ABSENT" => rappel[s].etat # "ABSENT"
      BY <1>7 DEF Laisses
    <3> QED
      BY <1>5, <3>1, <3>2
  <2> QED
    BY <1>1, <1>4, <1>6, <2>1, <2>2 DEF Registrees, UnSeulDu
<1>8. ASSUME NEW vers \in {"DONE", "CANCELLED"}, SeulSurLaFiche(r), Deviennent(f, vers)
      PROVE  Registrees'
  <2>1. EnAttente(f)' = {} /\ \A g : g # f => EnAttente(g)' = EnAttente(g)
    BY <1>2, <1>8 DEF EnAttente, Deviennent
  <2>2. ASSUME NEW s \in Requetes \ {r} PROVE Tenue(s)'
    <3>1. \A g : g = tx[s].fiche => tx[s].pris \subseteq EnAttente(g)'
      BY <1>8, <2>1 DEF SeulSurLaFiche, Registrees, Tenue
    <3>2. rappel'[s].etat # "ABSENT" => rappel[s].etat # "ABSENT"
      BY <1>8 DEF Deviennent, EnAttente
    <3> QED
      BY <1>5, <3>1, <3>2
  <2> QED
    BY <1>1, <1>4, <1>6, <2>1, <2>2 DEF Registrees, UnSeulDu
<1>9. CASE SeulSurLaFiche(r) /\ Remplaces(f, r)
  <2>1. EnAttente(f)' = {r} /\ \A g : g # f => EnAttente(g)' = EnAttente(g)
    BY <1>2, <1>3, <1>9 DEF EnAttente, Remplaces
  <2>2. ASSUME NEW s \in Requetes \ {r} PROVE Tenue(s)'
    <3>1. \A g : g = tx[s].fiche => tx[s].pris \subseteq EnAttente(g)'
      BY <1>9, <2>1 DEF SeulSurLaFiche, Registrees, Tenue
    <3>2. rappel'[s].etat # "ABSENT" => rappel[s].etat # "ABSENT"
      BY <1>9 DEF Remplaces, EnAttente
    <3> QED
      BY <1>5, <3>1, <3>2
  <2> QED
    BY <1>1, <1>4, <1>6, <2>1, <2>2 DEF Registrees, UnSeulDu
<1> QED
  BY <1>7, <1>8, <1>9, EcritRegistre

(* An owner cancels a callback no request is giving up, or restores one when none   *)
(* of its fiche is pending.                                                       *)
LEMMA ProprietaireRegistrees ==
  ASSUME Sure, Registrees, NEW i \in Requetes, AnnulerRappel(i) \/ RetablirRappel(i)
  PROVE  Registrees'
<1>0. UNCHANGED <<tx, fiche, verrouFiche>> /\ tx[i].fiche \in Fiches /\ tx[i].etape = "fin"
  BY DEF AnnulerRappel, RetablirRappel, verrous, Registrees, Tenue
<1>1. \A j \in Requetes : rappel'[j].etat =
        IF j = i THEN IF AnnulerRappel(i) THEN "CANCELLED" ELSE "PENDING" ELSE rappel[j].etat
  BY DEF AnnulerRappel, RetablirRappel, Sure, Typage, TypeOK, LignesRappel
<1>2. CASE AnnulerRappel(i)
  <2>1. \A f : EnAttente(f)' = EnAttente(f) \ {i}
    BY <1>0, <1>1, <1>2 DEF EnAttente
  <2>2. \A s \in Requetes : i \notin tx[s].pris
    BY <1>2 DEF AnnulerRappel, EnCours, Registrees, Tenue, EnAttente
  <2>3. \A s \in Requetes : Tenue(s)'
    BY <1>0, <1>1, <2>1, <2>2 DEF Registrees, Tenue, EnVol
  <2> QED
    BY <1>0, <2>1, <2>3 DEF Registrees, PrisUneFois, UnSeulDu
<1>3. CASE RetablirRappel(i) /\ ~AnnulerRappel(i)
  <2>1. EnAttente(tx[i].fiche)' = {i} /\ \A f : f # tx[i].fiche => EnAttente(f)' = EnAttente(f)
    BY <1>0, <1>1, <1>3 DEF EnAttente, RetablirRappel, IndexLibre
  <2>2. \A f : EnAttente(f) \subseteq EnAttente(f)'
    BY <1>3, <2>1 DEF RetablirRappel, IndexLibre
  <2>3. \A s \in Requetes : Tenue(s)'
    BY <1>0, <1>1, <2>2 DEF Registrees, Tenue, EnVol
  <2> QED
    BY <1>0, <2>1, <2>3 DEF Registrees, PrisUneFois, UnSeulDu
<1> QED
  BY <1>2, <1>3

LEMMA PasRegistrees == Sure /\ Registrees /\ [Next]_vars => Registrees'
<1> SUFFICES ASSUME Sure, Registrees, [Next]_vars PROVE Registrees'
  OBVIOUS
<1>1. CASE SansRequete
  BY <1>1 DEF SansRequete, Tables, verrous, Registrees, Tenue, PrisUneFois, UnSeulDu, EnAttente, EnVol
<1>2. CASE \E r \in Requetes : Debute(r) \/ Avance(r) \/ (Acheve(r) /\ UNCHANGED Tables)
  BY <1>2, SansEcritRegistrees DEF Debute, Avance, Acheve
<1> QED
  BY <1>1, <1>2, EcritRegistrees, ProprietaireRegistrees, FormeDuPas

LEMMA RegistreesCorrecte == Spec => [](Sure /\ Registrees)
<1>1. Sure /\ [Next]_vars => Sure'
  BY PasTypage, PasExclusion DEF Sure
<1>2. Init => Sure
  BY InitTypage, InitExclusion DEF Sure
<1> QED
  BY <1>1, <1>2, InitRegistrees, PasRegistrees, PTL DEF Spec

-----------------------------------------------------------------------------
(* The register read in the tables. *)
LEMMA LireRegistre ==
  ASSUME NEW f \in Fiches
  PROVE  Registre!DueA(f) = EnAttente(f)
BY ComptesAssumption DEF Registre!DueA, EnAttente

(* A promise once made stays made for its fiche. *)
LEMMA PromesseAttachee ==
  ASSUME Sure, Registrees, [Next]_vars, NEW i \in Requetes, rappel[i].etat # "ABSENT"
  PROVE  tx'[i].fiche = tx[i].fiche
<1>1. tx[i].etape = "fin"
  BY DEF Registrees, Tenue
<1>2. CASE \E r \in Requetes : Debute(r) \/ Avance(r) \/ Acheve(r)
  BY <1>1, <1>2 DEF Debute, Avance, Acheve, EnVol, LesAutres
<1>3. CASE \E r \in Requetes : Ecrit(r)
  BY <1>2, <1>3, EcritAcheve DEF Sure
<1>4. CASE \E j \in Requetes : AnnulerRappel(j) \/ RetablirRappel(j)
  BY <1>4 DEF AnnulerRappel, RetablirRappel
<1> QED
  BY <1>2, <1>3, <1>4, FormeDuPas DEF SansRequete

(* The steps of the register that the writes of the tables are. *)
LEMMA PasDuRegistre ==
  ASSUME Sure, Registrees, [Next]_vars
  PROVE  /\ Laisses => UNCHANGED Registre!vars
         /\ \A f \in Fiches : Deviennent(f, "DONE") => Registre!Tenir(f)
         /\ \A f \in Fiches : Deviennent(f, "CANCELLED") => Registre!AnnulerCelleDe(f)
         /\ \A f \in Fiches : \A r \in Requetes :
              Remplaces(f, r) /\ rappel[r].etat = "ABSENT" /\ tx'[r].fiche = f => Registre!Promettre(r, f)
<1>1. \A i \in Requetes : rappel[i].etat # "ABSENT" => tx'[i].fiche = tx[i].fiche
  BY PromesseAttachee
<1>2. Laisses => UNCHANGED Registre!vars
  BY <1>1 DEF Laisses, Registre!vars
<1>3. ASSUME NEW f \in Fiches, NEW vers \in {"DONE", "CANCELLED"}, Deviennent(f, vers)
      PROVE  /\ [i \in Requetes |-> rappel'[i].etat] = Registre!Passent(EnAttente(f), vers)
             /\ \A i \in Requetes : rappel'[i].etat = "ABSENT" <=> rappel[i].etat = "ABSENT"
  BY <1>3 DEF Deviennent, EnAttente, Registre!Passent
<1>4. ASSUME NEW f \in Fiches, Deviennent(f, "DONE") PROVE Registre!Tenir(f)
  BY <1>1, <1>3, <1>4, LireRegistre DEF Registre!Tenir
<1>5. ASSUME NEW f \in Fiches, Deviennent(f, "CANCELLED") PROVE Registre!AnnulerCelleDe(f)
  BY <1>1, <1>3, <1>5, LireRegistre DEF Registre!AnnulerCelleDe
<1>6. ASSUME NEW f \in Fiches, NEW r \in Requetes, Remplaces(f, r), rappel[r].etat = "ABSENT", tx'[r].fiche = f
      PROVE  Registre!Promettre(r, f)
  <2>1. [i \in Requetes |-> rappel'[i].etat]
          = [Registre!Passent(EnAttente(f), "SUPERSEDED") EXCEPT ![r] = "PENDING"]
    BY <1>6 DEF Remplaces, EnAttente, Registre!Passent
  <2>2. \A i \in Requetes \ {r} : rappel'[i].etat = "ABSENT" <=> rappel[i].etat = "ABSENT"
    BY <1>6 DEF Remplaces, EnAttente
  <2>3. rappel'[r].etat = "PENDING"
    BY <1>6 DEF Remplaces, EnAttente
  <2> QED
    BY <1>1, <1>6, <2>1, <2>2, <2>3, LireRegistre DEF Registre!Promettre
<1> QED
  BY <1>2, <1>4, <1>5, <1>6

(* The callbacks of the tables are the register of Promesse: every step of every    *)
(* operation is one step of it or none, although the rows a request gives up and   *)
(* the row it inserts are written by two statements.                              *)
THEOREM RappelsSontDesPromesses == Spec => RegistreDesPromesses
<1>1. Init => Registre!Init
  BY DEF Init, Registre!Init
<1>2. Sure /\ Registrees /\ [Next]_vars => [Registre!Next]_(Registre!vars)
  <2> SUFFICES ASSUME Sure, Registrees, [Next]_vars PROVE [Registre!Next]_(Registre!vars)
    OBVIOUS
  <2>1. CASE Laisses
    BY <2>1, PasDuRegistre
  <2>2. ASSUME NEW f \in Fiches, Deviennent(f, "DONE") \/ Deviennent(f, "CANCELLED")
        PROVE  Registre!Next
    BY <2>2, PasDuRegistre DEF Registre!Next
  <2>3. CASE \E r \in Requetes : Ecrit(r)
    <3>1. PICK r \in Requetes : Ecrit(r)
      BY <2>3
    <3>2. tx[r].fiche \in Fiches /\ tx'[r].fiche = tx[r].fiche /\ rappel[r].etat = "ABSENT"
      BY <3>1, EcritAcheve DEF Sure, Acheve, EnVol, Registrees, Tenue
    <3> QED
      BY <2>1, <2>2, <3>1, <3>2, EcritRegistre, PasDuRegistre DEF Registre!Next
  <2>4. CASE \E i \in Requetes : AnnulerRappel(i)
    <3>1. PICK i \in Requetes : AnnulerRappel(i)
      BY <2>4
    <3>2. tx[i].fiche \in Fiches /\ EnAttente(tx[i].fiche) = {i}
      BY <3>1 DEF AnnulerRappel, Registrees, Tenue, UnSeulDu, EnAttente
    <3>3. Deviennent(tx[i].fiche, "CANCELLED")
      BY <3>1, <3>2 DEF AnnulerRappel, Deviennent, Sure, Typage, TypeOK, LignesRappel
    <3> QED
      BY <2>2, <3>2, <3>3
  <2>5. CASE \E i \in Requetes : RetablirRappel(i)
    <3>1. PICK i \in Requetes : RetablirRappel(i)
      BY <2>5
    <3>2. tx[i].fiche \in Fiches /\ EnAttente(tx[i].fiche) = {} /\ rappel[i].etat = "CANCELLED" /\ tx' = tx
      BY <3>1 DEF RetablirRappel, IndexLibre, Registrees, Tenue
    <3>3. \A j \in Requetes : rappel'[j].etat = IF j = i THEN "PENDING" ELSE rappel[j].etat
      BY <3>1 DEF RetablirRappel, Sure, Typage, TypeOK, LignesRappel
    <3>4. Registre!Retablir(i)
      BY <3>2, <3>3, LireRegistre DEF Registre!Retablir
    <3> QED
      BY <3>4 DEF Registre!Next
  <2>6. CASE \E r \in Requetes : Debute(r) \/ Avance(r) \/ (Acheve(r) /\ UNCHANGED Tables)
    BY <2>1, <2>6 DEF Debute, Avance, Tables, Laisses
  <2>7. CASE SansRequete
    BY <2>1, <2>7 DEF SansRequete, Tables, Laisses
  <2> QED
    BY <2>3, <2>4, <2>5, <2>6, <2>7, FormeDuPas
<1> QED
  BY <1>1, <1>2, RegistreesCorrecte, PTL DEF Spec, RegistreDesPromesses, Registre!Spec

-----------------------------------------------------------------------------
(* What Promesse promises of its register, whoever keeps it: a promise is in a known    *)
(* state, for a fiche.                                                                    *)
LEMMA RegistreTypePas ==
  ASSUME Registre!TypeOK, Registre!Next \/ UNCHANGED Registre!vars
  PROVE  Registre!TypeOK'
<1>1. ASSUME NEW due, NEW vers \in Registre!Etats
      PROVE  Registre!Passent(due, vers) \in [Requetes -> Registre!Etats]
  BY DEF Registre!TypeOK, Registre!Passent
<1>2. CASE \E f \in Fiches : Registre!Tenir(f)
  BY <1>1, <1>2 DEF Registre!Tenir, Registre!TypeOK, Registre!Etats
<1>3. CASE \E f \in Fiches : Registre!AnnulerCelleDe(f)
  BY <1>1, <1>3 DEF Registre!AnnulerCelleDe, Registre!TypeOK, Registre!Etats
<1>4. ASSUME NEW f \in Fiches, NEW k \in Requetes, Registre!Promettre(k, f)
      PROVE  Registre!TypeOK'
  <2>1. Registre!Passent(Registre!DueA(f), "SUPERSEDED") \in [Requetes -> Registre!Etats]
    BY <1>1 DEF Registre!Etats
  <2>2. [Registre!Passent(Registre!DueA(f), "SUPERSEDED") EXCEPT ![k] = "PENDING"]
          \in [Requetes -> Registre!Etats]
    BY <2>1 DEF Registre!Etats
  <2>3. [[i \in Requetes |-> IF rappel[i].etat = "ABSENT" THEN Rien ELSE tx[i].fiche]
           EXCEPT ![k] = f]
          \in [Requetes -> Fiches \union {Rien}]
    BY DEF Registre!TypeOK
  <2> QED BY <1>4, <2>2, <2>3 DEF Registre!Promettre, Registre!TypeOK
<1>5. CASE \E i \in Requetes : Registre!Retablir(i)
  BY <1>5 DEF Registre!Retablir, Registre!TypeOK, Registre!Etats
<1>6. CASE UNCHANGED Registre!vars
  BY <1>6 DEF Registre!vars, Registre!TypeOK
<1> QED
  BY <1>2, <1>3, <1>4, <1>5, <1>6 DEF Registre!Next

(* A promise is made or restored only where no other remains due. *)
LEMMA RegistreUniquePas ==
  ASSUME Registre!TypeOK, Registre!UneSeuleDue, Registre!Next \/ UNCHANGED Registre!vars
  PROVE  Registre!UneSeuleDue'
<1> SUFFICES ASSUME NEW g \in Fiches, NEW i \in Registre!DueA(g)', NEW j \in Registre!DueA(g)'
             PROVE  i = j
  BY DEF Registre!UneSeuleDue
<1>1. CASE \E f \in Fiches : Registre!Tenir(f) \/ Registre!AnnulerCelleDe(f)
  BY <1>1 DEF Registre!Tenir, Registre!AnnulerCelleDe, Registre!Passent, Registre!UneSeuleDue,
     Registre!DueA, Registre!TypeOK
<1>2. ASSUME NEW f \in Fiches, NEW k \in Requetes, Registre!Promettre(k, f)
      PROVE  i = j
  <2>1. ASSUME NEW h \in Registre!DueA(g)', h # k
        PROVE  h \in Registre!DueA(g) /\ g # f
    <3> DEFINE etat == [l \in Requetes |-> rappel[l].etat]
               pour == [l \in Requetes |-> IF rappel[l].etat = "ABSENT" THEN Rien ELSE tx[l].fiche]
    <3>1. /\ etat' = [Registre!Passent(Registre!DueA(f), "SUPERSEDED") EXCEPT ![k] = "PENDING"]
          /\ pour' = [pour EXCEPT ![k] = f]
      BY <1>2 DEF Registre!Promettre
    <3>2. h \in Requetes /\ pour'[h] = g /\ etat'[h] = "PENDING"
      BY DEF Registre!DueA
    <3>3. Registre!Passent(Registre!DueA(f), "SUPERSEDED")[h]
            = IF h \in Registre!DueA(f) THEN "SUPERSEDED" ELSE etat[h]
      BY <3>2 DEF Registre!Passent
    <3>4. pour[h] = g /\ etat[h] = "PENDING" /\ h \notin Registre!DueA(f)
      <4> HIDE DEF etat, pour
      <4>1. /\ pour'[h] = pour[h]
            /\ etat'[h] = Registre!Passent(Registre!DueA(f), "SUPERSEDED")[h]
        BY <2>1, <3>1, <3>2
      <4> QED BY <3>2, <3>3, <4>1
    <3> QED BY <3>2, <3>4 DEF Registre!DueA
  <2>2. k \in Registre!DueA(g)' => g = f
    BY <1>2 DEF Registre!Promettre, Registre!Passent, Registre!DueA
  <2> QED BY <2>1, <2>2 DEF Registre!UneSeuleDue
<1>3. ASSUME NEW k \in Requetes, Registre!Retablir(k)
      PROVE  i = j
  <2>1. ASSUME NEW h \in Registre!DueA(g)', h # k
        PROVE  h \in Registre!DueA(g)
    BY <1>3, <2>1 DEF Registre!Retablir, Registre!DueA
  <2>2. k \in Registre!DueA(g)' => Registre!DueA(g) = {}
    <3> DEFINE pour == [h \in Requetes |-> IF rappel[h].etat = "ABSENT" THEN Rien ELSE tx[h].fiche]
    <3>1. pour' = pour /\ Registre!DueA(pour[k]) = {}
      BY <1>3 DEF Registre!Retablir
    <3>2. k \in Registre!DueA(g)' => pour'[k] = g
      BY DEF Registre!DueA
    <3> HIDE DEF pour
    <3> QED BY <3>1, <3>2
  <2> QED BY <2>1, <2>2 DEF Registre!UneSeuleDue
<1>4. CASE UNCHANGED Registre!vars
  BY <1>4 DEF Registre!vars, Registre!UneSeuleDue, Registre!DueA
<1> QED
  BY <1>1, <1>2, <1>3, <1>4 DEF Registre!Next

(* Every implementation of the register keeps one promise due for a fiche at most. *)
LEMMA PromesseUnique == Registre!Spec => [](Registre!TypeOK /\ Registre!UneSeuleDue)
<1>1. Registre!Init => Registre!TypeOK /\ Registre!UneSeuleDue
  BY DEF Registre!Init, Registre!TypeOK, Registre!Etats, Registre!UneSeuleDue, Registre!DueA
<1>2. Registre!TypeOK /\ Registre!UneSeuleDue /\ [Registre!Next]_(Registre!vars)
      => Registre!TypeOK' /\ Registre!UneSeuleDue'
  BY RegistreTypePas, RegistreUniquePas
<1> QED
  BY <1>1, <1>2, PTL DEF Registre!Spec

(* Two people are never expected to call the same fiche back: the tables implement the    *)
(* register, so at most one of the callbacks of a fiche is pending, although the rows a    *)
(* request gives up and the row it inserts are written by two statements.                   *)
THEOREM UnSeulRappelDu == Spec => []Registre!UneSeuleDue
<1>1. RegistreDesPromesses => Registre!Spec
  BY DEF RegistreDesPromesses
<1> QED
  BY <1>1, RappelsSontDesPromesses, PromesseUnique, PTL

-----------------------------------------------------------------------------
(***************************************************************************)
(* What each write does to the row of the fiche and to its journey.           *)
(***************************************************************************)
LEMMA AppelApplique ==
  ASSUME Sure, NEW r \in Requetes, ConclureTentative(r)
  PROVE  LET f == tx[r].fiche
             t == tx[r].t
             a == appel[t]
             regle == RegleDe(a)
             recent == fiche[f].appelAt = 0 \/ tx[r].instant >= fiche[f].appelAt
         IN  /\ f \in Fiches /\ t \in Tentatives /\ a \in AppelsPossibles /\ f = a.fiche
             /\ tx[r].instant \in Nat /\ tx[r].instant > 0 /\ tentative[t] = 0
             /\ regle \in Effets
             /\ tentative' = [tentative EXCEPT ![t] = tx[r].instant]
             /\ tardives' = IF tx[r].instant < fiche[f].appelAt THEN tardives \union {t} ELSE tardives
             /\ \A g \in Fiches \ {f} : fiche'[g] = fiche[g] /\ parcours'[g] = parcours[g]
             /\ fiche'[f].appelAt = (IF recent THEN tx[r].instant ELSE fiche[f].appelAt)
             /\ fiche'[f].appelant = (IF recent THEN a.agent ELSE fiche[f].appelant)
             /\ fiche'[f].projet = fiche[f].projet
             /\ fiche[f].statut \notin Clos /\ fiche'[f].statut \notin Clos
             /\ fiche[f].methode => fiche'[f].methode
             /\ fiche'[f].phase2 = (IF ~Clot(regle) /\ parcours[f].phase2 = "PENDING"
                                    THEN fiche[f].phase2 ELSE PhaseDe[regle])
             /\ parcours'[f].existe /\ parcours'[f].phase2 = PhaseDe[regle]
             /\ parcours[f].statut \notin Clos => parcours'[f].statut \notin Clos
<1> DEFINE f == tx[r].fiche
           t == tx[r].t
           a == appel[t]
           regle == RegleDe(a)
           recent == fiche[f].appelAt = 0 \/ tx[r].instant >= fiche[f].appelAt
           p == [parcours[f] EXCEPT !.statut = PremierAppel(@)]
           l == FicheAppelee(fiche[f], a, tx[r].instant)
<1>1. tx[r].op = "tentative" /\ tx[r].etape = "deux" /\ EnVol(r)
  BY DEF ConclureTentative, EnVol
<1>2. /\ f \in Fiches /\ t \in Tentatives /\ a.instant > 0 /\ f = a.fiche /\ tx[r].instant > 0
      /\ tentative[t] = 0 /\ fiche[f].statut \notin Clos
  BY <1>1 DEF Sure, Typage, ToutRenseigne, Renseignee, Exclusion, Verifiee
<1>3. a \in AppelsPossibles /\ tx[r].instant \in Nat
  BY <1>2 DEF Sure, Typage, TypeOK, ToutRenseigne, AppelsFaits, Transactions
<1>4. fiche[f] \in LignesFiche /\ parcours[f] \in LignesParcours
  BY <1>2 DEF Sure, Typage, TypeOK
<1>5. regle \in Effets
  BY <1>3, MotifsAssumption DEF RegleDe, AppelsPossibles, Effets
<1>6. /\ fiche' = [fiche EXCEPT ![f] = FicheClassee(l, p, regle, Effet[a.motif], a.methode)]
      /\ parcours' = [parcours EXCEPT ![f] = ParcoursClasse(p, regle, a.methode)]
      /\ tentative' = [tentative EXCEPT ![t] = tx[r].instant]
      /\ tardives' = IF tx[r].instant < fiche[f].appelAt THEN tardives \union {t} ELSE tardives
  BY DEF ConclureTentative
<1>7. /\ l.appelAt = (IF recent THEN tx[r].instant ELSE fiche[f].appelAt)
      /\ l.appelant = (IF recent THEN a.agent ELSE fiche[f].appelant)
      /\ l.projet = fiche[f].projet /\ l.methode = fiche[f].methode /\ l.phase2 = fiche[f].phase2
      /\ l.statut = PremierAppel(fiche[f].statut)
  BY <1>4 DEF FicheAppelee, LignesFiche
<1>8. /\ p.statut = PremierAppel(parcours[f].statut) /\ p.phase2 = parcours[f].phase2
      /\ p.existe = parcours[f].existe /\ p.methode = parcours[f].methode /\ p \in LignesParcours
  BY <1>4, PremierAppelType DEF LignesParcours
<1>9. l \in LignesFiche
  BY <1>3, <1>4, AppeleeType DEF AppelsPossibles, Appels
<1>10. /\ fiche'[f] = FicheClassee(l, p, regle, Effet[a.motif], a.methode)
       /\ parcours'[f] = ParcoursClasse(p, regle, a.methode)
       /\ \A g \in Fiches \ {f} : fiche'[g] = fiche[g] /\ parcours'[g] = parcours[g]
  BY <1>2, <1>6 DEF Sure, Typage, TypeOK
<1>11. l.statut \notin Clos /\ (parcours[f].statut \notin Clos => p.statut \notin Clos)
  <2> HIDE DEF l, p
  <2> QED
    BY <1>2, <1>7, <1>8 DEF PremierAppel, Clos
<1> HIDE DEF l, p
<1>12. /\ fiche'[f].appelAt = l.appelAt /\ fiche'[f].appelant = l.appelant
       /\ fiche'[f].projet = l.projet /\ fiche'[f].statut \notin Clos
       /\ fiche'[f].phase2 = (IF ~Clot(regle) /\ p.phase2 = "PENDING" THEN l.phase2 ELSE PhaseDe[regle])
  BY <1>9, <1>10, <1>11 DEF FicheClassee, LignesFiche, Clos
<1>13. l.methode => fiche'[f].methode
  BY <1>9, <1>10 DEF FicheClassee, LignesFiche
<1>14. /\ parcours'[f].existe /\ parcours'[f].phase2 = PhaseDe[regle]
       /\ parcours'[f].statut = p.statut
  BY <1>8, <1>10 DEF ParcoursClasse, LignesParcours
<1>15. /\ fiche'[f].appelAt = (IF recent THEN tx[r].instant ELSE fiche[f].appelAt)
       /\ fiche'[f].appelant = (IF recent THEN a.agent ELSE fiche[f].appelant)
  BY <1>7, <1>12
<1>16. /\ fiche'[f].projet = fiche[f].projet /\ fiche'[f].statut \notin Clos
       /\ fiche[f].methode => fiche'[f].methode
  BY <1>7, <1>12, <1>13
<1>17. fiche'[f].phase2 = (IF ~Clot(regle) /\ parcours[f].phase2 = "PENDING"
                           THEN fiche[f].phase2 ELSE PhaseDe[regle])
  BY <1>7, <1>8, <1>12
<1>18. parcours[f].statut \notin Clos => parcours'[f].statut \notin Clos
  BY <1>11, <1>14
<1> HIDE DEF f, t, a, regle, recent
<1> QED
  BY <1>2, <1>3, <1>5, <1>6, <1>10, <1>14, <1>15, <1>16, <1>17, <1>18 DEF f, t, a, regle, recent

(* Of the gestures: what all of them leave alone, then the state each one gives.   *)
LEMMA RequalificationEcrite ==
  ASSUME Typage, NEW r \in Requetes, ConclureRequalification(r)
  PROVE  LET f == tx[r].fiche
             e == Effet[tx[r].motif]
         IN  /\ f \in Fiches /\ e \in Effets
             /\ \A g \in Fiches \ {f} : fiche'[g] = fiche[g] /\ parcours'[g] = parcours[g]
             /\ fiche'[f].appelAt = fiche[f].appelAt /\ fiche'[f].appelant = fiche[f].appelant
             /\ fiche'[f].projet = fiche[f].projet /\ (fiche[f].methode => fiche'[f].methode)
             /\ (fiche'[f].statut \in Clos) <=> (fiche[f].statut \in Clos)
             /\ fiche'[f].phase2 = (IF ~Clot(e) /\ parcours[f].phase2 = "PENDING"
                                    THEN fiche[f].phase2 ELSE PhaseDe[e])
             /\ parcours'[f].existe /\ parcours'[f].phase2 = PhaseDe[e]
             /\ parcours'[f].statut = parcours[f].statut
<1> DEFINE f == tx[r].fiche
           e == Effet[tx[r].motif]
           l == [fiche[f] EXCEPT !.motif = tx[r].motif]
           p == parcours[f]
<1>1. f \in Fiches /\ tx[r].motif \in Motifs
  BY DEF ConclureRequalification, EnVol, Typage, ToutRenseigne, Renseignee
<1>2. fiche[f] \in LignesFiche /\ p \in LignesParcours /\ e \in Effets
  BY <1>1, MotifsAssumption DEF Typage, TypeOK
<1>3. /\ l \in LignesFiche /\ l.appelAt = fiche[f].appelAt /\ l.appelant = fiche[f].appelant
      /\ l.projet = fiche[f].projet /\ l.methode = fiche[f].methode /\ l.statut = fiche[f].statut
      /\ l.phase2 = fiche[f].phase2
  BY <1>1, <1>2, LigneMotif DEF LignesFiche
<1>4. /\ fiche'[f] = FicheClassee(l, p, e, e, FALSE) /\ parcours'[f] = ParcoursClasse(p, e, FALSE)
      /\ \A g \in Fiches \ {f} : fiche'[g] = fiche[g] /\ parcours'[g] = parcours[g]
  BY <1>1 DEF ConclureRequalification, Typage, TypeOK
<1> HIDE DEF l
<1>5. /\ fiche'[f].appelAt = l.appelAt /\ fiche'[f].appelant = l.appelant
      /\ fiche'[f].projet = l.projet /\ ((fiche'[f].statut \in Clos) <=> (l.statut \in Clos))
      /\ fiche'[f].phase2 = (IF ~Clot(e) /\ p.phase2 = "PENDING" THEN l.phase2 ELSE PhaseDe[e])
  BY <1>3, <1>4 DEF FicheClassee, LignesFiche, Clos
<1>6. l.methode => fiche'[f].methode
  BY <1>3, <1>4 DEF FicheClassee, LignesFiche
<1>7. /\ parcours'[f].existe /\ parcours'[f].phase2 = PhaseDe[e] /\ parcours'[f].statut = p.statut
  BY <1>2, <1>4 DEF ParcoursClasse, LignesParcours
<1>8. (fiche'[f].statut \in Clos) <=> (fiche[f].statut \in Clos)
  BY <1>3, <1>5
<1>9. fiche[f].methode => fiche'[f].methode
  BY <1>3, <1>6
<1> HIDE DEF f, e, p
<1>10. /\ fiche'[f].appelAt = fiche[f].appelAt /\ fiche'[f].appelant = fiche[f].appelant
       /\ fiche'[f].projet = fiche[f].projet
       /\ fiche'[f].phase2 = (IF ~Clot(e) /\ p.phase2 = "PENDING" THEN fiche[f].phase2 ELSE PhaseDe[e])
  BY <1>3, <1>5
<1> QED
  BY <1>1, <1>2, <1>4, <1>7, <1>8, <1>9, <1>10 DEF f, e, p

Gestion(r) ==
  Convertir(r) \/ Vendre(r) \/ Supprimer(r) \/ Remettre(r) \/ ModifierMethode(r) \/ Affecter(r)

LEMMA GesteEcrit ==
  ASSUME Typage, NEW r \in Requetes, Gestion(r)
  PROVE  LET f == tx[r].fiche
         IN  /\ f \in Fiches /\ UNCHANGED <<tentative, tardives>>
             /\ \A g \in Fiches \ {f} : fiche'[g] = fiche[g] /\ parcours'[g] = parcours[g]
             /\ fiche'[f].appelAt = fiche[f].appelAt /\ fiche'[f].appelant = fiche[f].appelant
             /\ fiche'[f].projet = fiche[f].projet
             /\ parcours[f].existe => parcours'[f].existe
             /\ ~Remettre(r) /\ ~ModifierMethode(r) =>
                  /\ fiche'[f].phase2 = fiche[f].phase2 /\ fiche'[f].methode = fiche[f].methode
                  /\ parcours'[f].phase2 = parcours[f].phase2
             /\ Convertir(r) => fiche'[f].statut \in Clos /\ parcours'[f].statut \in Clos
             /\ Vendre(r) => /\ fiche[f].statut \in Clos => fiche'[f].statut \in Clos
                             /\ parcours[f].existe => parcours'[f].statut \in Clos
             /\ Supprimer(r) \/ Affecter(r) \/ ModifierMethode(r) =>
                  fiche'[f].statut = fiche[f].statut /\ parcours'[f].statut = parcours[f].statut
             /\ Remettre(r) =>
                  /\ fiche[f].statut \notin Clos /\ fiche'[f].statut \notin Clos
                  /\ fiche'[f].phase2 = "PENDING"
                  /\ verrouParcours[f] = {r} =>
                       parcours'[f].phase2 = "PENDING" /\ parcours'[f].statut \notin Clos
             /\ ModifierMethode(r) =>
                  /\ fiche'[f].phase2 = PhaseModifiee(fiche[f].phase2, tx[r].methode)
                  /\ verrouParcours[f] = {r} =>
                       parcours'[f].phase2 = PhaseModifiee(parcours[f].phase2, tx[r].methode)
<1> DEFINE f == tx[r].fiche
<1> USE DEF histoire
<1>1. f \in Fiches
  BY DEF Gestion, Convertir, Vendre, Supprimer, Remettre, AuTraiter, ModifierMethode, Affecter, EnVol,
     Typage, ToutRenseigne, Renseignee
<1>2. /\ fiche[f] \in LignesFiche /\ parcours[f] \in LignesParcours
      /\ fiche \in [Fiches -> LignesFiche] /\ parcours \in [Fiches -> LignesParcours]
  BY <1>1 DEF Typage, TypeOK
<1>3. CASE Convertir(r)
  <2>1. /\ tx[r].op = "convertir" /\ UNCHANGED <<tentative, tardives>>
        /\ fiche' = [fiche EXCEPT ![f] = [fiche[f] EXCEPT !.statut =
             IF fiche[f].statut = "VENDU" THEN "VENDU" ELSE "CONVERTI"]]
        /\ parcours' = [parcours EXCEPT ![f] = [parcours[f] EXCEPT !.statut = "CONVERTI"]]
    BY <1>3 DEF Convertir
  <2> QED
    BY <1>1, <1>2, <2>1 DEF LignesFiche, LignesParcours, Clos, Vendre, Supprimer, Remettre, AuTraiter,
       ModifierMethode, Affecter
<1>4. CASE Vendre(r)
  <2>1. /\ tx[r].op = "vendre" /\ UNCHANGED <<tentative, tardives>>
        /\ fiche' = [fiche EXCEPT ![f] = [fiche[f] EXCEPT !.statut =
             IF verrouFiche[f] = {r} THEN "VENDU" ELSE fiche[f].statut]]
        /\ parcours' = [parcours EXCEPT ![f] = [parcours[f] EXCEPT !.statut =
             IF parcours[f].existe THEN "VENDU" ELSE parcours[f].statut]]
    BY <1>4 DEF Vendre
  <2> QED
    BY <1>1, <1>2, <2>1 DEF LignesFiche, LignesParcours, Clos, Convertir, Supprimer, Remettre, AuTraiter,
       ModifierMethode, Affecter
<1>5. CASE Supprimer(r)
  <2>1. /\ tx[r].op = "supprimer" /\ UNCHANGED <<tentative, tardives, parcours>>
        /\ fiche' = [fiche EXCEPT ![f] = [fiche[f] EXCEPT !.supprimee = TRUE]]
    BY <1>5 DEF Supprimer
  <2> QED
    BY <1>1, <1>2, <2>1 DEF LignesFiche, Convertir, Vendre, Remettre, AuTraiter, ModifierMethode, Affecter
<1>6. CASE Affecter(r)
  <2>1. /\ tx[r].op = "affecter" /\ UNCHANGED <<tentative, tardives, parcours>>
        /\ fiche' = [fiche EXCEPT ![f] = [fiche[f] EXCEPT !.titulaire = tx[r].agent]]
    BY <1>6 DEF Affecter
  <2> QED
    BY <1>1, <1>2, <2>1 DEF LignesFiche, Convertir, Vendre, Supprimer, Remettre, AuTraiter, ModifierMethode
<1>7. CASE Remettre(r)
  <2>1. /\ tx[r].op = "remettre" /\ UNCHANGED <<tentative, tardives>> /\ fiche[f].statut \notin Clos
        /\ fiche' = [fiche EXCEPT ![f] = [fiche[f] EXCEPT !.statut = "NOUVEAU", !.phase2 = "PENDING",
                                                        !.methode = FALSE]]
        /\ parcours' = [parcours EXCEPT ![f] =
             IF verrouParcours[f] = {r} THEN ParcoursNeuf(TRUE) ELSE parcours[f]]
    BY <1>7 DEF Remettre, AuTraiter, RemiseRefusee
  <2> QED
    BY <1>1, <1>2, <1>7, <2>1 DEF LignesFiche, ParcoursNeuf, Clos, Convertir, Vendre, Supprimer, ModifierMethode,
       Affecter
<1>8. CASE ModifierMethode(r)
  <2> DEFINE m == tx[r].methode
  <2>1. /\ tx[r].op = "methode" /\ UNCHANGED <<tentative, tardives>>
        /\ fiche' = [fiche EXCEPT ![f] = [fiche[f] EXCEPT !.methode = m,
                                            !.phase2 = PhaseModifiee(fiche[f].phase2, m)]]
        /\ parcours' = IF verrouParcours[f] = {r}
             THEN [parcours EXCEPT ![f] = [parcours[f] EXCEPT !.methode = m,
                                             !.phase2 = PhaseModifiee(parcours[f].phase2, m)]]
             ELSE parcours
    BY <1>8 DEF ModifierMethode
  <2> QED
    BY <1>1, <1>2, <1>8, <2>1 DEF LignesFiche, LignesParcours, Convertir, Vendre, Supprimer, Remettre, AuTraiter,
       Affecter
<1> QED
  BY <1>3, <1>4, <1>5, <1>6, <1>7, <1>8 DEF Gestion

LEMMA EcritEst ==
  ASSUME NEW r
  PROVE  Ecrit(r) <=> ConclureTentative(r) \/ ConclureRequalification(r) \/ Gestion(r)
BY DEF Ecrit, Gestion

-----------------------------------------------------------------------------
(***************************************************************************)
(* The last call of a fiche.  The attempts in flight carry an instant already *)
(* brought back to the clock; the row keeps the most recent of those recorded. *)
(***************************************************************************)
ExacteEn(f) ==
  IF Consignees(f) = {} THEN fiche[f].appelAt = 0
  ELSE \E t \in Dernieres(f) : fiche[f].appelAt = tentative[t] /\ fiche[f].appelant = appel[t].agent

ConsigneesFaites == \A t \in Tentatives : tentative[t] # 0 => appel[t].instant > 0

InstantsRamenes == \A r \in Requetes :
  EnVol(r) /\ tx[r].op = "tentative" => tx[r].instant <= horloge + Tolerance

Derniers ==
  /\ ConsigneesFaites /\ InstantsRamenes
  /\ \A f \in Fiches : ExacteEn(f)
  /\ DernierAppelPlausible

(* Calls that stay recorded as they were. *)
LEMMA ConsigneesGardees ==
  ASSUME UNCHANGED tentative, \A t \in Tentatives : tentative[t] # 0 => appel'[t] = appel[t]
  PROVE  \A f : Consignees(f)' = Consignees(f) /\ Dernieres(f)' = Dernieres(f)
<1>1. \A f : Consignees(f)' = Consignees(f)
  BY DEF Consignees
<1> QED
  BY <1>1 DEF Dernieres

LEMMA ExactesGardees ==
  ASSUME \A f \in Fiches : ExacteEn(f),
         UNCHANGED tentative, \A t \in Tentatives : tentative[t] # 0 => appel'[t] = appel[t],
         \A f \in Fiches : fiche'[f].appelAt = fiche[f].appelAt /\ fiche'[f].appelant = fiche[f].appelant
  PROVE  \A f \in Fiches : ExacteEn(f)'
<1>1. ASSUME NEW f \in Fiches PROVE ExacteEn(f)'
  <2>1. Consignees(f)' = Consignees(f) /\ Dernieres(f)' = Dernieres(f)
    BY ConsigneesGardees
  <2>2. \A t \in Dernieres(f) : appel'[t] = appel[t]
    BY DEF Dernieres, Consignees
  <2> QED
    BY <2>1, <2>2 DEF ExacteEn
<1> QED
  BY <1>1

(* The calls recorded after an attempt: those before, and this one. *)
LEMMA UneConsigneeDePlus ==
  ASSUME Sure, NEW r \in Requetes, ConclureTentative(r), NEW f, f = tx[r].fiche, NEW t, t = tx[r].t
  PROVE  /\ Consignees(f)' = Consignees(f) \union {t} /\ t \notin Consignees(f)
         /\ tentative'[t] = tx[r].instant
         /\ \A u \in Tentatives \ {t} : tentative'[u] = tentative[u]
         /\ appel' = appel
         /\ \A g \in Fiches \ {f} : Consignees(g)' = Consignees(g) /\ Dernieres(g)' = Dernieres(g)
<1>1. /\ t \in Tentatives /\ f \in Fiches /\ appel[t].fiche = f /\ tentative[t] = 0
      /\ tentative' = [tentative EXCEPT ![t] = tx[r].instant]
      /\ tx[r].instant \in Nat /\ tx[r].instant > 0
  BY AppelApplique
<1>2. appel' = appel
  BY DEF ConclureTentative
<1>3. /\ tentative'[t] = tx[r].instant
      /\ \A u \in Tentatives \ {t} : tentative'[u] = tentative[u]
  BY <1>1 DEF Sure, Typage, TypeOK
<1>4. Consignees(f)' = Consignees(f) \union {t} /\ t \notin Consignees(f)
  BY <1>1, <1>2, <1>3 DEF Consignees
<1>5. ASSUME NEW g \in Fiches \ {f}
      PROVE  Consignees(g)' = Consignees(g) /\ Dernieres(g)' = Dernieres(g)
  <2>1. Consignees(g)' = Consignees(g) /\ t \notin Consignees(g)
    BY <1>1, <1>2, <1>3 DEF Consignees
  <2>2. \A u \in Consignees(g) : tentative'[u] = tentative[u]
    BY <1>3, <2>1 DEF Consignees
  <2> QED
    BY <2>1, <2>2 DEF Dernieres
<1> QED
  BY <1>2, <1>3, <1>4, <1>5

LEMMA DerniereAppliquee ==
  ASSUME Sure, Derniers, NEW r \in Requetes, ConclureTentative(r),
         NEW f, f = tx[r].fiche, NEW t, t = tx[r].t
  PROVE  IF fiche[f].appelAt = 0 \/ tx[r].instant >= fiche[f].appelAt
         THEN t \in Dernieres(f)'
         ELSE \A d \in Dernieres(f) : tentative[d] = fiche[f].appelAt => d \in Dernieres(f)'
<1>1. f \in Fiches /\ t \in Tentatives /\ tx[r].instant \in Nat /\ tx[r].instant > 0
  BY AppelApplique
<1>2. /\ Consignees(f)' = Consignees(f) \union {t} /\ t \notin Consignees(f)
      /\ tentative'[t] = tx[r].instant
      /\ \A u \in Tentatives \ {t} : tentative'[u] = tentative[u]
  BY UneConsigneeDePlus
<1>3. /\ fiche[f].appelAt \in Nat /\ \A u \in Tentatives : tentative[u] \in Nat
      /\ \A u \in Consignees(f) : u \in Tentatives /\ tentative[u] # 0 /\ tentative'[u] = tentative[u]
  BY <1>1, <1>2 DEF Sure, Typage, TypeOK, LignesFiche, Consignees
<1>4. ExacteEn(f)
  BY <1>1 DEF Derniers
<1>5. CASE fiche[f].appelAt = 0 \/ tx[r].instant >= fiche[f].appelAt
  <2>1. ASSUME NEW u \in Consignees(f) PROVE tentative[u] <= tx[r].instant
    <3>1. PICK d \in Dernieres(f) : fiche[f].appelAt = tentative[d]
      BY <1>4, <2>1 DEF ExacteEn
    <3>2. d \in Consignees(f) /\ tentative[u] <= tentative[d]
      BY <2>1, <3>1 DEF Dernieres
    <3> QED
      BY <1>1, <1>3, <1>5, <3>1, <3>2
  <2>2. \A u \in Consignees(f)' : tentative'[u] <= tentative'[t]
    BY <1>1, <1>2, <1>3, <2>1
  <2> QED
    BY <1>2, <1>5, <2>2 DEF Dernieres
<1>6. CASE ~(fiche[f].appelAt = 0 \/ tx[r].instant >= fiche[f].appelAt)
  <2>1. ASSUME NEW d \in Dernieres(f), tentative[d] = fiche[f].appelAt
        PROVE  d \in Dernieres(f)'
    <3>1. d \in Consignees(f) /\ \A u \in Consignees(f) : tentative[u] <= tentative[d]
      BY DEF Dernieres
    <3>2. d \in Consignees(f)' /\ tentative'[d] = tentative[d] /\ tentative'[t] <= tentative'[d]
      BY <1>1, <1>2, <1>3, <1>6, <2>1, <3>1
    <3>3. \A u \in Consignees(f)' : tentative'[u] <= tentative'[d]
      BY <1>2, <1>3, <3>1, <3>2
    <3> QED
      BY <3>2, <3>3 DEF Dernieres
  <2> QED
    BY <1>6, <2>1
<1> QED
  BY <1>5, <1>6

LEMMA ConclureDerniers ==
  ASSUME Sure, Derniers, NEW r \in Requetes, ConclureTentative(r)
  PROVE  (\A f \in Fiches : ExacteEn(f)') /\ DernierAppelPlausible' /\ ConsigneesFaites'
<1>0. PICK f \in Fiches, t \in Tentatives : f = tx[r].fiche /\ t = tx[r].t
  BY AppelApplique
<1> DEFINE i == tx[r].instant
           recent == fiche[f].appelAt = 0 \/ i >= fiche[f].appelAt
<1>1. /\ f \in Fiches /\ t \in Tentatives /\ i \in Nat /\ i > 0 /\ appel[t] \in AppelsPossibles
      /\ fiche'[f].appelAt = (IF recent THEN i ELSE fiche[f].appelAt)
      /\ fiche'[f].appelant = (IF recent THEN appel[t].agent ELSE fiche[f].appelant)
      /\ \A g \in Fiches \ {f} : fiche'[g] = fiche[g]
  BY <1>0, AppelApplique
<1>2. /\ Consignees(f)' = Consignees(f) \union {t} /\ t \notin Consignees(f) /\ appel' = appel
      /\ tentative'[t] = i /\ \A u \in Tentatives \ {t} : tentative'[u] = tentative[u]
      /\ \A g \in Fiches \ {f} : Consignees(g)' = Consignees(g) /\ Dernieres(g)' = Dernieres(g)
  BY <1>0, UneConsigneeDePlus
<1>3. horloge' = horloge /\ horloge \in Nat /\ \A g \in Fiches : fiche[g].appelAt \in Nat
  BY DEF ConclureTentative, Sure, Typage, TypeOK, LignesFiche
<1>4. i <= horloge + Tolerance
  BY DEF ConclureTentative, EnVol, Derniers, InstantsRamenes
<1>5. ExacteEn(f)'
  <2>1. Consignees(f)' # {}
    BY <1>2
  <2>2. CASE recent
    <3>1. t \in Dernieres(f)' /\ fiche'[f].appelAt = tentative'[t] /\ fiche'[f].appelant = appel'[t].agent
      BY <1>1, <1>2, <2>2, <1>0, DerniereAppliquee
    <3> QED
      BY <2>1, <3>1 DEF ExacteEn
  <2>3. CASE ~recent
    <3>1. Consignees(f) # {} /\ ExacteEn(f)
      BY <1>1, <2>3 DEF Derniers, ExacteEn
    <3>2. PICK d \in Dernieres(f) : fiche[f].appelAt = tentative[d] /\ fiche[f].appelant = appel[d].agent
      BY <3>1 DEF ExacteEn
    <3>3. d \in Dernieres(f)'
      BY <2>3, <3>2, <1>0, DerniereAppliquee
    <3>4. d \in Tentatives /\ d # t
      BY <1>2 DEF Dernieres, Consignees
    <3>5. fiche'[f].appelAt = tentative'[d] /\ fiche'[f].appelant = appel'[d].agent
      BY <1>1, <1>2, <2>3, <3>2, <3>4
    <3> QED
      BY <2>1, <3>3, <3>5 DEF ExacteEn
  <2> QED
    BY <2>2, <2>3
<1>6. ASSUME NEW g \in Fiches \ {f} PROVE ExacteEn(g)'
  <2>1. \A d \in Dernieres(g) : tentative'[d] = tentative[d]
    <3>1. t \notin Consignees(g)
      BY <1>0, <1>2 DEF Consignees, Sure, Exclusion, Verifiee, ConclureTentative
    <3> QED
      BY <1>2, <3>1 DEF Dernieres, Consignees
  <2> QED
    BY <1>1, <1>2, <2>1 DEF ExacteEn, Derniers
<1>7. DernierAppelPlausible'
  <2>1. ASSUME NEW g \in Fiches PROVE fiche'[g].appelAt <= horloge' + Tolerance
    <3>1. fiche[g].appelAt <= horloge + Tolerance
      BY DEF Derniers, DernierAppelPlausible
    <3>2. g = f \/ fiche'[g] = fiche[g]
      BY <1>1
    <3> QED
      BY <1>1, <1>3, <1>4, <3>1, <3>2
  <2> QED
    BY <2>1 DEF DernierAppelPlausible
<1>8. ConsigneesFaites'
  BY <1>1, <1>2 DEF ConsigneesFaites, Derniers, AppelsPossibles
<1> QED
  BY <1>5, <1>6, <1>7, <1>8

LEMMA RamenesGardes ==
  ASSUME Sure, Derniers, [Next]_vars
  PROVE  InstantsRamenes'
<1>1. ASSUME horloge' = horloge \/ horloge' = horloge + 1, tx' = tx PROVE InstantsRamenes'
  <2>1. \A r \in Requetes : tx[r].instant \in Nat
    BY DEF Sure, Typage, TypeOK, Transactions
  <2> QED
    BY <1>1, <2>1, BornesAssumption
       DEF Derniers, InstantsRamenes, EnVol, Sure, Typage, TypeOK
<1>2. ASSUME NEW r \in Requetes, Debute(r) \/ Avance(r) \/ Acheve(r) PROVE InstantsRamenes'
  <2>1. horloge' = horloge /\ LesAutres(r)
    BY <1>2 DEF Debute, Avance, Acheve
  <2>2. EnVol(r)' /\ tx'[r].op = "tentative" => tx'[r].instant <= horloge + Tolerance
    BY <1>2 DEF Debute, Avance, Acheve, EnVol, Derniers, InstantsRamenes
  <2> QED
    BY <2>1, <2>2 DEF InstantsRamenes, Derniers, LesAutres, EnVol
<1>3. ASSUME NEW r \in Requetes, Ecrit(r) PROVE InstantsRamenes'
  BY <1>2, <1>3, EcritAcheve DEF Sure
<1>4. CASE SansRequete /\ (Avancer \/ (\E t \in Tentatives, a \in AppelsPossibles : Appeler(t, a)) \/ UNCHANGED vars)
  BY <1>1, <1>4 DEF SansRequete, Avancer, Appeler, vars
<1>5. CASE \E i \in Requetes : AnnulerRappel(i) \/ RetablirRappel(i)
  BY <1>1, <1>5 DEF AnnulerRappel, RetablirRappel
<1> QED
  BY <1>2, <1>3, <1>4, <1>5, FormeDuPas

LEMMA PasDerniers == Sure /\ Derniers /\ [Next]_vars => Derniers'
<1> SUFFICES ASSUME Sure, Derniers, [Next]_vars PROVE Derniers'
  OBVIOUS
<1>1. InstantsRamenes'
  BY RamenesGardes
<1>2. ASSUME UNCHANGED <<tentative, horloge>>, \A t \in Tentatives : tentative[t] # 0 => appel'[t] = appel[t],
             \A f \in Fiches : fiche'[f].appelAt = fiche[f].appelAt /\ fiche'[f].appelant = fiche[f].appelant
      PROVE  Derniers'
  <2>1. \A f \in Fiches : ExacteEn(f)'
    BY <1>2, ExactesGardees DEF Derniers
  <2> QED
    BY <1>1, <1>2, <2>1 DEF Derniers, ConsigneesFaites, DernierAppelPlausible
<1>3. CASE Avancer
  <2>1. UNCHANGED <<tentative, appel, fiche>> /\ horloge' = horloge + 1
    BY <1>3 DEF Avancer, base
  <2>2. \A f \in Fiches : ExacteEn(f)'
    BY <2>1, ExactesGardees DEF Derniers
  <2>3. DernierAppelPlausible'
    BY <2>1, BornesAssumption DEF Derniers, DernierAppelPlausible, Sure, Typage, TypeOK, LignesFiche
  <2> QED
    BY <1>1, <2>1, <2>2, <2>3 DEF Derniers, ConsigneesFaites
<1>4. CASE \E t \in Tentatives, a \in AppelsPossibles : Appeler(t, a)
  <2>1. PICK t \in Tentatives, a \in AppelsPossibles : Appeler(t, a)
    BY <1>4
  <2>2. UNCHANGED <<tentative, horloge, fiche>> /\ appel' = [appel EXCEPT ![t] = a] /\ tentative[t] = 0
    BY <2>1 DEF Appeler, base, Derniers, ConsigneesFaites
  <2> QED
    BY <1>2, <2>2 DEF Sure, Typage, TypeOK
<1>5. CASE \E r \in Requetes : Debute(r) \/ Avance(r) \/ (Acheve(r) /\ UNCHANGED Tables)
  BY <1>2, <1>5 DEF Debute, Avance, Acheve, Tables
<1>6. ASSUME NEW r \in Requetes, Ecrit(r) PROVE Derniers'
  <2>1. CASE ConclureTentative(r)
    BY <1>1, <2>1, ConclureDerniers DEF Derniers
  <2>2. CASE ConclureRequalification(r) \/ Gestion(r)
    <3>1. UNCHANGED <<tentative, horloge, appel>>
      BY <2>2, EcritAcheve, EcritEst, GesteEcrit DEF Sure, Acheve, ConclureRequalification
    <3>2. ASSUME NEW g \in Fiches
          PROVE  fiche'[g].appelAt = fiche[g].appelAt /\ fiche'[g].appelant = fiche[g].appelant
      BY <2>2, RequalificationEcrite, GesteEcrit DEF Sure
    <3> QED
      BY <1>2, <3>1, <3>2
  <2> QED
    BY <1>6, <2>1, <2>2, EcritEst
<1>7. CASE UNCHANGED vars
  BY <1>2, <1>7 DEF vars, base
<1>8. CASE \E i \in Requetes : AnnulerRappel(i) \/ RetablirRappel(i)
  BY <1>2, <1>8 DEF AnnulerRappel, RetablirRappel
<1> QED
  BY <1>3, <1>4, <1>5, <1>6, <1>7, <1>8, FormeDuPas

LEMMA InitDerniers == Init => Derniers
<1> SUFFICES ASSUME Init PROVE Derniers
  OBVIOUS
<1>1. \A t \in Tentatives : tentative[t] = 0
  BY DEF Init
<1>2. \A r \in Requetes : ~EnVol(r)
  BY DEF Init, RequeteVide, EnVol
<1>3. \A f \in Fiches : Consignees(f) = {}
  BY <1>1 DEF Consignees
<1>4. \A f \in Fiches : fiche[f].appelAt = 0
  BY DEF Init, FichesSaisies, FichesImportees, FicheNeuve
<1>5. horloge = 1
  BY DEF Init
<1> QED
  BY <1>1, <1>2, <1>3, <1>4, <1>5, BornesAssumption
     DEF Derniers, ConsigneesFaites, InstantsRamenes, ExacteEn, DernierAppelPlausible

LEMMA DerniersCorrects == Spec => [](Sure /\ Registrees /\ Derniers)
<1>1. Sure /\ [Next]_vars => Sure'
  BY PasTypage, PasExclusion DEF Sure
<1> QED
  BY <1>1, InitDerniers, PasDerniers, RegistreesCorrecte, PTL DEF Spec

(* lastCallAt and lastCallById are those of the most recent attempt recorded, in    *)
(* whatever order the attempts reach the server.                                  *)
THEOREM DernierAppelJuste == Spec => []DernierAppelExact
<1>1. Derniers => DernierAppelExact
  BY DEF Derniers, ExacteEn, DernierAppelExact
<1> QED
  BY <1>1, DerniersCorrects, PTL

(* A device ahead of the server leaves no call in the future: the instant written    *)
(* is the one brought back when the attempt was admitted.                         *)
THEOREM DernierAppelPasse == Spec => []DernierAppelPlausible
<1>1. Derniers => DernierAppelPlausible
  BY DEF Derniers
<1> QED
  BY <1>1, DerniersCorrects, PTL

-----------------------------------------------------------------------------
(* Only a return to the queue or a correction of the method takes a method away:    *)
(* a call or a requalification keeps it (COALESCE), no other gesture writes it.    *)
THEOREM MethodeGardee == Spec => MethodeAcquise
<1>1. Sure /\ [Next]_vars =>
        [\A f \in Fiches : fiche[f].methode /\ ~fiche'[f].methode =>
           \E r \in Requetes : Conclut(r, "remettre") \/ Conclut(r, "methode")]_vars
  <2> SUFFICES ASSUME Sure, [Next]_vars, NEW f \in Fiches, fiche[f].methode, ~fiche'[f].methode
               PROVE  \E r \in Requetes : Conclut(r, "remettre") \/ Conclut(r, "methode")
    OBVIOUS
  <2>1. fiche' # fiche
    OBVIOUS
  <2>2. PICK r \in Requetes : Ecrit(r)
    BY <2>1, FormeDuPas DEF SansRequete, Tables, Debute, Avance, AnnulerRappel, RetablirRappel
  <2>3. ~ConclureTentative(r)
    BY AppelApplique
  <2>4. ~ConclureRequalification(r)
    BY RequalificationEcrite DEF Sure
  <2>5. Gestion(r)
    BY <2>2, <2>3, <2>4, EcritEst
  <2>6. Remettre(r) \/ ModifierMethode(r)
    BY <2>5, GesteEcrit DEF Sure
  <2>7. Conclut(r, "remettre") \/ Conclut(r, "methode")
    <3>1. tx'[r].reponse = "applied"
      <4>1. EnVol(r) /\ Terminer(r, "applied") /\ UNCHANGED <<horloge, appel>>
        BY <2>6 DEF Remettre, AuTraiter, ModifierMethode, EnVol
      <4> QED
        BY <4>1, AcheveEnFin DEF Sure
    <3> QED
      BY <2>6, <3>1 DEF Conclut, Remettre, AuTraiter, ModifierMethode
  <2> QED
    BY <2>7
<1> QED
  BY <1>1, SureteCorrecte, PTL DEF Spec, MethodeAcquise

-----------------------------------------------------------------------------
(***************************************************************************)
(* A GRAND_PUBLIC fiche and its journey.  Each operation writes the two rows   *)
(* in one transaction; the sale writes the fiche first, the others the journey.  *)
(* A gesture that corrects the journey holds it, and a sale is on a fiche that  *)
(* stays closed once it was: so the two rows agree after every write.          *)
(***************************************************************************)
GrandPublic(f) == fiche[f].projet = "GRAND_PUBLIC"

Accorde(f) ==
  /\ parcours[f].existe
  /\ parcours[f].phase2 = fiche[f].phase2
  /\ (fiche[f].statut \in Clos) <=> (parcours[f].statut \in Clos)

TientParcours(r) ==
  LET f == tx[r].fiche
  IN  /\ EnVol(r) /\ tx[r].op = "vendre" => fiche[f].statut \in Clos
      /\ tx[r].etape = "parcours" /\ GrandPublic(f) =>
           /\ tx[r].op = "remettre" => verrouParcours[f] = {r} \/ fiche[f].statut \in Clos
           /\ tx[r].op = "methode" => verrouParcours[f] = {r}

Accordes == (\A f \in Fiches : GrandPublic(f) => Accorde(f)) /\ \A r \in Requetes : TientParcours(r)

(* Every write leaves the closed fiches closed, and the projects as they are. *)
LEMMA EcritClos ==
  ASSUME Sure, NEW r \in Requetes, Ecrit(r), NEW g \in Fiches
  PROVE  /\ fiche[g].statut \in Clos => fiche'[g].statut \in Clos
         /\ fiche'[g].projet = fiche[g].projet
<1>1. CASE ConclureTentative(r)
  BY <1>1, AppelClos, AppelApplique DEF Sure
<1>2. CASE ConclureRequalification(r)
  BY <1>2, RequalificationClos, RequalificationEcrite DEF Sure
<1>3. CASE Gestion(r)
  BY <1>3, GesteClos, GesteEcrit DEF Sure, Gestion
<1> QED
  BY <1>1, <1>2, <1>3, EcritEst

LEMMA PasClos ==
  ASSUME Sure, [Next]_vars, NEW g \in Fiches
  PROVE  /\ fiche[g].statut \in Clos => fiche'[g].statut \in Clos
         /\ fiche'[g].projet = fiche[g].projet
<1>1. CASE \E r \in Requetes : Ecrit(r)
  BY <1>1, EcritClos
<1>2. CASE UNCHANGED fiche
  BY <1>2
<1> QED
  BY <1>1, <1>2, FormeDuPas DEF SansRequete, Tables, Debute, Avance, AnnulerRappel, RetablirRappel

LEMMA EcritAccorde ==
  ASSUME Sure, Accordes, NEW r \in Requetes, Ecrit(r), NEW g \in Fiches, GrandPublic(g)
  PROVE  Accorde(g)'
<1>0. PICK f \in Fiches : f = tx[r].fiche
  BY EcritAcheve DEF Sure
<1>1. Accorde(g) /\ Typage
  BY DEF Accordes, Sure
<1>2. CASE g # f
  <2>0. \A h \in Fiches \ {f} : fiche'[h] = fiche[h] /\ parcours'[h] = parcours[h]
    <3>1. CASE ConclureTentative(r)
      BY <1>0, <3>1, AppelApplique
    <3>2. CASE ConclureRequalification(r)
      BY <1>0, <1>1, <3>2, RequalificationEcrite
    <3>3. CASE Gestion(r)
      BY <1>0, <1>1, <3>3, GesteEcrit
    <3> QED
      BY <3>1, <3>2, <3>3, EcritEst
  <2>1. fiche'[g] = fiche[g] /\ parcours'[g] = parcours[g]
    BY <1>2, <2>0
  <2> QED
    BY <1>1, <2>1 DEF Accorde
<1>3. ASSUME NEW e \in Effets, g = f, parcours'[f].existe, parcours'[f].phase2 = PhaseDe[e],
             fiche'[f].phase2 = (IF ~Clot(e) /\ parcours[f].phase2 = "PENDING"
                                 THEN fiche[f].phase2 ELSE PhaseDe[e]),
             (fiche'[f].statut \in Clos) <=> (parcours'[f].statut \in Clos)
      PROVE  Accorde(g)'
  <2>1. ~Clot(e) => PhaseDe[e] = "PENDING"
    BY DEF Clot, PhaseDe, Effets
  <2> QED
    BY <1>1, <1>3, <2>1 DEF Accorde
<1>4. CASE g = f /\ ConclureTentative(r)
  <2> DEFINE e == RegleDe(appel[tx[r].t])
  <2>1. /\ e \in Effets /\ parcours'[f].existe /\ parcours'[f].phase2 = PhaseDe[e]
        /\ fiche'[f].phase2 = (IF ~Clot(e) /\ parcours[f].phase2 = "PENDING"
                               THEN fiche[f].phase2 ELSE PhaseDe[e])
    BY <1>0, <1>4, AppelApplique
  <2>2. fiche[f].statut \notin Clos /\ fiche'[f].statut \notin Clos
    BY <1>0, <1>4, AppelApplique
  <2>3. parcours[f].statut \notin Clos => parcours'[f].statut \notin Clos
    BY <1>0, <1>4, AppelApplique
  <2> HIDE DEF e
  <2> QED
    BY <1>1, <1>3, <1>4, <2>1, <2>2, <2>3 DEF Accorde
<1>5. CASE g = f /\ ConclureRequalification(r)
  <2> DEFINE e == Effet[tx[r].motif]
  <2>1. /\ e \in Effets /\ parcours'[f].existe /\ parcours'[f].phase2 = PhaseDe[e]
        /\ fiche'[f].phase2 = (IF ~Clot(e) /\ parcours[f].phase2 = "PENDING"
                               THEN fiche[f].phase2 ELSE PhaseDe[e])
        /\ parcours'[f].statut = parcours[f].statut
    BY <1>0, <1>1, <1>5, RequalificationEcrite
  <2>2. (fiche'[f].statut \in Clos) <=> (fiche[f].statut \in Clos)
    BY <1>0, <1>1, <1>5, RequalificationEcrite
  <2> HIDE DEF e
  <2> QED
    BY <1>1, <1>3, <1>5, <2>1, <2>2 DEF Accorde
<1>6. CASE g = f /\ Gestion(r)
  <2>1. parcours'[f].existe
    BY <1>0, <1>1, <1>6, GesteEcrit DEF Accorde
  <2>2. TientParcours(r) /\ fiche[f] \in LignesFiche
    BY <1>1 DEF Accordes, Typage, TypeOK
  <2>3. CASE Remettre(r)
    <3>1. fiche[f].statut \notin Clos /\ fiche'[f].statut \notin Clos /\ fiche'[f].phase2 = "PENDING"
      BY <1>0, <1>1, <1>6, <2>3, GesteEcrit
    <3>2. verrouParcours[f] = {r}
      BY <1>0, <1>6, <2>2, <2>3, <3>1 DEF TientParcours, Remettre, AuTraiter
    <3>3. parcours'[f].phase2 = "PENDING" /\ parcours'[f].statut \notin Clos
      BY <1>0, <1>1, <1>6, <2>3, <3>2, GesteEcrit
    <3> QED
      BY <1>6, <2>1, <3>1, <3>3 DEF Accorde
  <2>4. CASE ModifierMethode(r)
    <3>1. verrouParcours[f] = {r}
      BY <1>0, <1>6, <2>2, <2>4 DEF TientParcours, ModifierMethode
    <3>2. /\ fiche'[f].phase2 = PhaseModifiee(fiche[f].phase2, tx[r].methode)
          /\ parcours'[f].phase2 = PhaseModifiee(parcours[f].phase2, tx[r].methode)
          /\ fiche'[f].statut = fiche[f].statut /\ parcours'[f].statut = parcours[f].statut
      BY <1>0, <1>1, <1>6, <2>4, <3>1, GesteEcrit
    <3> QED
      BY <1>1, <1>6, <2>1, <3>2 DEF Accorde
  <2>5. CASE ~Remettre(r) /\ ~ModifierMethode(r)
    <3>1. fiche'[f].phase2 = fiche[f].phase2 /\ parcours'[f].phase2 = parcours[f].phase2
      BY <1>0, <1>1, <1>6, <2>5, GesteEcrit
    <3>2. (fiche'[f].statut \in Clos) <=> (parcours'[f].statut \in Clos)
      <4>1. CASE Convertir(r)
        BY <1>0, <1>1, <1>6, <4>1, GesteEcrit
      <4>2. CASE Vendre(r)
        <5>1. fiche[f].statut \in Clos
          BY <1>0, <2>2, <4>2 DEF TientParcours, Vendre, EnVol
        <5> QED
          BY <1>0, <1>1, <1>6, <4>2, <5>1, GesteEcrit DEF Accorde
      <4>3. CASE Supprimer(r) \/ Affecter(r)
        BY <1>0, <1>1, <1>6, <4>3, GesteEcrit DEF Accorde
      <4> QED
        BY <1>6, <2>5, <4>1, <4>2, <4>3 DEF Gestion
    <3> QED
      BY <1>1, <1>6, <2>1, <3>1, <3>2 DEF Accorde
  <2> QED
    BY <2>3, <2>4, <2>5
<1> QED
  BY <1>2, <1>4, <1>5, <1>6, EcritEst

(* The locks and the checks of the requests in flight, whatever the step. *)
LEMMA PasTientParcours ==
  ASSUME Sure, Accordes, [Next]_vars, NEW r \in Requetes
  PROVE  TientParcours(r)'
<1>1. \A g \in Fiches : /\ fiche[g].statut \in Clos => fiche'[g].statut \in Clos
                        /\ fiche'[g].projet = fiche[g].projet
  BY PasClos
<1>2. TientParcours(r) /\ (EnVol(r) => tx[r].fiche \in Fiches)
  BY DEF Accordes, Sure, Typage, ToutRenseigne, Renseignee
<1>3. CASE tx' = tx /\ verrouParcours' = verrouParcours
  <2>1. CASE EnVol(r)
    <3>1. PICK f \in Fiches : f = tx[r].fiche
      BY <1>2, <2>1
    <3> QED
      BY <1>1, <1>2, <1>3, <3>1 DEF TientParcours, EnVol, GrandPublic
  <2>2. CASE ~EnVol(r)
    BY <1>3, <2>2 DEF TientParcours, EnVol
  <2> QED
    BY <2>1, <2>2
<1>4. ASSUME NEW s \in Requetes \ {r}, LesAutres(s),
             Debute(s) \/ Avance(s) \/ Acheve(s)
      PROVE  TientParcours(r)'
  <2>1. tx'[r] = tx[r]
    BY <1>4 DEF LesAutres
  <2>2. \A f \in Fiches : verrouParcours[f] = {r} => verrouParcours'[f] = {r}
    BY <1>4 DEF Debute, Avance, Acheve, verrous
  <2>3. CASE EnVol(r)
    <3>1. PICK f \in Fiches : f = tx[r].fiche
      BY <1>2, <2>3
    <3> QED
      BY <1>1, <1>2, <2>1, <2>2, <3>1 DEF TientParcours, EnVol, GrandPublic
  <2>4. CASE ~EnVol(r)
    BY <2>1, <2>4 DEF TientParcours, EnVol
  <2> QED
    BY <2>3, <2>4
<1>5. CASE Debute(r)
  BY <1>5 DEF Debute, Tables, TientParcours, EnVol, Clos
<1>6. CASE Avance(r)
  <2>1. PICK f \in Fiches : f = tx[r].fiche
    BY <1>2, <1>6 DEF Avance
  <2>2. /\ tx'[r].fiche = f /\ tx'[r].op = tx[r].op /\ EnVol(r) /\ fiche' = fiche
        /\ tx'[r].etape = "parcours" => Attrape(r)
    BY <1>6, <2>1 DEF Avance, Tables
  <2>3. GrandPublic(f) => Accorde(f)
    BY DEF Accordes
  <2> QED
    BY <1>2, <2>1, <2>2, <2>3 DEF TientParcours, Attrape, GrandPublic, Accorde
<1>7. CASE Acheve(r)
  BY <1>7 DEF Acheve, TientParcours, EnVol
<1>8. ASSUME NEW s \in Requetes, Debute(s) \/ Avance(s) \/ Acheve(s) PROVE TientParcours(r)'
  BY <1>4, <1>5, <1>6, <1>7, <1>8 DEF Debute, Avance, Acheve
<1>9. CASE \E s \in Requetes : Ecrit(s)
  BY <1>8, <1>9, EcritAcheve DEF Sure
<1>10. CASE SansRequete \/ \E i \in Requetes : AnnulerRappel(i) \/ RetablirRappel(i)
  BY <1>3, <1>10 DEF SansRequete, AnnulerRappel, RetablirRappel, verrous
<1> QED
  BY <1>8, <1>9, <1>10, FormeDuPas

LEMMA PasAccordes == Sure /\ Accordes /\ [Next]_vars => Accordes'
<1> SUFFICES ASSUME Sure, Accordes, [Next]_vars PROVE Accordes'
  OBVIOUS
<1>1. ASSUME NEW g \in Fiches, GrandPublic(g)' PROVE Accorde(g)'
  <2>1. GrandPublic(g) /\ Accorde(g)
    BY <1>1, PasClos DEF GrandPublic, Accordes
  <2>2. CASE \E r \in Requetes : Ecrit(r)
    BY <2>1, <2>2, EcritAccorde
  <2>3. CASE UNCHANGED <<fiche, parcours>>
    BY <2>1, <2>3 DEF Accorde
  <2> QED
    BY <2>2, <2>3, FormeDuPas DEF SansRequete, Tables, Debute, Avance, AnnulerRappel, RetablirRappel
<1> QED
  BY <1>1, PasTientParcours DEF Accordes

LEMMA InitAccordes == Init => Accordes
<1> SUFFICES ASSUME Init PROVE Accordes
  OBVIOUS
<1>1. \A r \in Requetes : tx[r].etape = "libre"
  BY DEF Init, RequeteVide
<1>2. ASSUME NEW f \in Fiches, GrandPublic(f) PROVE Accorde(f)
  <2>1. PICK origine \in [Fiches -> Origines] :
          /\ fiche \in {l \in [Fiches -> FichesSaisies \union FichesImportees] :
               \A g \in Fiches : l[g] \in FichesSaisies <=> origine[g] = "saisie"}
          /\ parcours = [g \in Fiches |-> ParcoursNeuf(origine[g] = "saisie")]
    BY DEF Init
  <2>2. fiche[f] \in FichesSaisies
    BY <1>2, <2>1 DEF GrandPublic, FichesImportees, FicheNeuve
  <2>3. parcours[f] = ParcoursNeuf(TRUE)
    BY <2>1, <2>2
  <2>4. fiche[f].phase2 = "PENDING" /\ fiche[f].statut = "NOUVEAU"
    BY <2>2 DEF FichesSaisies, FicheNeuve
  <2> QED
    BY <2>3, <2>4 DEF Accorde, ParcoursNeuf, Clos
<1> QED
  BY <1>1, <1>2 DEF Accordes, TientParcours, EnVol

LEMMA AccordesCorrects == Spec => [](Sure /\ Registrees /\ Derniers /\ Accordes)
BY DerniersCorrects, InitAccordes, PasAccordes, PTL DEF Spec

(* The conversion and the sale never leave a GRAND_PUBLIC fiche and its journey in  *)
(* two minds, although one writes the journey first and the other the fiche.      *)
THEOREM ClosEnsemble == Spec => []ClosAccorde
<1>1. Accordes => ClosAccorde
  BY DEF Accordes, Accorde, GrandPublic, ClosAccorde
<1> QED
  BY <1>1, AccordesCorrects, PTL

(* Fiches typed in by the agents, which have their journey from the start. *)
ToutesSaisies == \A f \in Fiches : GrandPublic(f)

LEMMA SaisiesCorrectes ==
  ASSUME "import" \notin Origines
  PROVE  Spec => []ToutesSaisies
<1>1. Init => ToutesSaisies
  <2> SUFFICES ASSUME Init, NEW f \in Fiches PROVE GrandPublic(f)
    BY DEF ToutesSaisies
  <2>1. PICK origine \in [Fiches -> Origines] :
          fiche \in {l \in [Fiches -> FichesSaisies \union FichesImportees] :
            \A g \in Fiches : l[g] \in FichesSaisies <=> origine[g] = "saisie"}
    BY DEF Init
  <2>2. origine[f] = "saisie"
    BY ChoixAssumption
  <2>3. fiche[f] \in FichesSaisies
    BY <2>1, <2>2
  <2> QED
    BY <2>3 DEF FichesSaisies, FicheNeuve, GrandPublic
<1>2. Sure /\ ToutesSaisies /\ [Next]_vars => ToutesSaisies'
  BY PasClos DEF ToutesSaisies, GrandPublic
<1> QED
  BY <1>1, <1>2, SureteCorrecte, PTL DEF Spec

(* audit-coherence, of the fiches that have a journey from the start: the journey    *)
(* has the state of the fiche after every call and every gesture.                  *)
THEOREM ParcoursSuitLaFiche == "import" \notin Origines /\ Spec => []ParcoursAccorde
<1> SUFFICES ASSUME "import" \notin Origines PROVE Spec => []ParcoursAccorde
  OBVIOUS
<1>1. Accordes /\ ToutesSaisies => ParcoursAccorde
  BY DEF Accordes, ToutesSaisies, Accorde, ParcoursAccorde
<1> QED
  BY <1>1, AccordesCorrects, SaisiesCorrectes, PTL

-----------------------------------------------------------------------------
(***************************************************************************)
(* The state of a fiche and its last call.  A request in flight is one the      *)
(* system offers; an attempt applied in its turn is the last of its fiche, and   *)
(* what it writes is what the fiche shows until the management changes it.      *)
(***************************************************************************)
Offertes == \A r \in Requetes : EnVol(r) => tx[r].op \in Operations

SuitEn(f) == Consignees(f) # {} /\ ALHeure(f) =>
  \E t \in Dernieres(f) : fiche[f].phase2 = PhaseDe[RegleDe(appel[t])]

LEMMA OffertesCorrectes == Spec => []Offertes
<1>1. Init => Offertes
  <2> SUFFICES ASSUME Init PROVE Offertes
    OBVIOUS
  <2>1. \A r \in Requetes : tx[r].etape = "libre"
    BY DEF Init, RequeteVide
  <2> QED
    BY <2>1 DEF Offertes, EnVol
<1>2. Sure /\ Offertes /\ [Next]_vars => Offertes'
  <2> SUFFICES ASSUME Sure, Offertes, [Next]_vars PROVE Offertes'
    OBVIOUS
  <2>1. CASE \E r \in Requetes : Debute(r) \/ Avance(r) \/ Acheve(r)
    BY <2>1 DEF Debute, Avance, Acheve, LesAutres, Offertes, EnVol
  <2>2. CASE UNCHANGED tx
    BY <2>2 DEF Offertes, EnVol
  <2> QED
    BY <2>1, <2>2, FormeDuPas, EcritAcheve DEF SansRequete, AnnulerRappel, RetablirRappel, Sure
<1> QED
  BY <1>1, <1>2, SureteCorrecte, PTL DEF Spec

(* After an attempt, the fiche that agreed with its journey shows its outcome. *)
LEMMA PhaseAppliquee ==
  ASSUME NEW f, NEW e \in Effets, Accorde(f),
         fiche'[f].phase2 = (IF ~Clot(e) /\ parcours[f].phase2 = "PENDING"
                             THEN fiche[f].phase2 ELSE PhaseDe[e])
  PROVE  fiche'[f].phase2 = PhaseDe[e]
<1>1. ~Clot(e) => PhaseDe[e] = "PENDING"
  BY DEF Clot, PhaseDe, Effets
<1> QED
  BY <1>1 DEF Accorde

(* An attempt after which the calls of the fiche are all in time came in its turn. *)
LEMMA AppliqueeALHeure ==
  ASSUME Sure, Derniers, NEW r \in Requetes, ConclureTentative(r),
         NEW f, f = tx[r].fiche, NEW t, t = tx[r].t, ALHeure(f)'
  PROVE  t \in Dernieres(f)'
<1>1. /\ f \in Fiches /\ t \in Tentatives /\ tx[r].instant \in Nat
      /\ tardives' = IF tx[r].instant < fiche[f].appelAt THEN tardives \union {t} ELSE tardives
  BY AppelApplique
<1>2. t \in Consignees(f)'
  BY UneConsigneeDePlus
<1>3. fiche[f].appelAt \in Nat
  BY <1>1 DEF Sure, Typage, TypeOK, LignesFiche
<1>4. ~(tx[r].instant < fiche[f].appelAt)
  BY <1>1, <1>2 DEF ALHeure
<1>5. tx[r].instant >= fiche[f].appelAt
  BY <1>1, <1>3, <1>4
<1> QED
  BY <1>5, DerniereAppliquee

(* What the calls of a fiche say, when its row and theirs do not change. *)
LEMMA ALHeureGardee ==
  ASSUME UNCHANGED <<tentative, tardives>>,
         \A t \in Tentatives : tentative[t] # 0 => appel'[t] = appel[t]
  PROVE  \A f : /\ ALHeure(f)' = ALHeure(f) /\ Consignees(f)' = Consignees(f)
                /\ Dernieres(f)' = Dernieres(f)
                /\ \A t \in Consignees(f) : appel'[t] = appel[t]
BY ConsigneesGardees DEF ALHeure, Consignees

LEMMA SuiviGarde ==
  ASSUME NEW f, SuitEn(f), UNCHANGED <<tentative, tardives>>,
         \A t \in Tentatives : tentative[t] # 0 => appel'[t] = appel[t],
         fiche'[f].phase2 = fiche[f].phase2
  PROVE  SuitEn(f)'
<1>1. /\ ALHeure(f)' = ALHeure(f) /\ Consignees(f)' = Consignees(f) /\ Dernieres(f)' = Dernieres(f)
      /\ \A t \in Dernieres(f) : appel'[t] = appel[t]
  BY ALHeureGardee DEF Dernieres
<1> QED
  BY <1>1 DEF SuitEn, RegleDe

(* The calls that were recorded when a step other than an attempt is taken. *)
LEMMA AppelsConsignes ==
  ASSUME Sure, Derniers, [Next]_vars
  PROVE  /\ \A t \in Tentatives : tentative[t] # 0 => appel'[t] = appel[t]
         /\ (\A r \in Requetes : ~ConclureTentative(r)) => UNCHANGED <<tentative, tardives>>
<1>1. CASE \E t \in Tentatives, a \in AppelsPossibles : Appeler(t, a)
  <2>1. PICK t \in Tentatives, a \in AppelsPossibles : Appeler(t, a)
    BY <1>1
  <2>2. UNCHANGED <<tentative, tardives>> /\ appel' = [appel EXCEPT ![t] = a] /\ tentative[t] = 0
    BY <2>1 DEF Appeler, base, histoire, Derniers, ConsigneesFaites
  <2> QED
    BY <2>2 DEF Sure, Typage, TypeOK
<1>2. CASE \E r \in Requetes : Ecrit(r)
  BY <1>2, EcritAcheve DEF Sure, Acheve
<1>3. CASE UNCHANGED <<appel, tentative, tardives>>
  BY <1>3
<1> QED
  BY <1>1, <1>2, <1>3, FormeDuPas
     DEF Avancer, base, histoire, vars, Tables, Debute, Avance, Acheve, AnnulerRappel, RetablirRappel

LEMMA AppelSuivi ==
  ASSUME Sure, Derniers, NEW r \in Requetes, ConclureTentative(r), NEW g \in Fiches, SuitEn(g),
         Accorde(tx[r].fiche)
  PROVE  SuitEn(g)'
<1>0. PICK f \in Fiches, t \in Tentatives : f = tx[r].fiche /\ t = tx[r].t
  BY AppelApplique
<1>1. /\ Consignees(f)' = Consignees(f) \union {t} /\ appel' = appel
      /\ \A u \in Tentatives \ {t} : tentative'[u] = tentative[u]
      /\ \A h \in Fiches \ {f} : Consignees(h)' = Consignees(h) /\ Dernieres(h)' = Dernieres(h)
  BY <1>0, UneConsigneeDePlus
<1>2. CASE g = f
  <2>1. SUFFICES ASSUME ALHeure(f)'
                 PROVE  \E u \in Dernieres(f)' : fiche'[f].phase2 = PhaseDe[RegleDe(appel[u])]
    BY <1>1, <1>2 DEF SuitEn, RegleDe
  <2>2. t \in Dernieres(f)'
    BY <1>0, <2>1, AppliqueeALHeure
  <2>3. fiche'[f].phase2 = PhaseDe[RegleDe(appel[t])]
    BY <1>0, AppelApplique, PhaseAppliquee
  <2> QED
    BY <2>2, <2>3
<1>3. CASE g # f
  <2>1. /\ tardives \subseteq tardives' /\ fiche'[g] = fiche[g]
    BY <1>0, <1>3, AppelApplique
  <2>2. ALHeure(g)' => ALHeure(g)
    BY <1>1, <1>3, <2>1 DEF ALHeure
  <2> QED
    BY <1>1, <1>3, <2>1, <2>2 DEF SuitEn, RegleDe
<1> QED
  BY <1>2, <1>3

(* The state of a fiche is the one its last call gives, as long as its calls reach    *)
(* the server in order, on fiches that have their journey from the start and as       *)
(* long as the management does not requalify, put back or correct.                 *)
THEOREM StatutSuivi ==
  /\ "import" \notin Origines
  /\ Operations \intersect {"requalifier", "remettre", "methode"} = {}
  /\ Spec
  => []StatutSuitDernierAppelALHeure
<1> SUFFICES ASSUME "import" \notin Origines,
                    Operations \intersect {"requalifier", "remettre", "methode"} = {}
             PROVE  Spec => []StatutSuitDernierAppelALHeure
  OBVIOUS
<1> DEFINE Suivis == \A f \in Fiches : SuitEn(f)
<1>1. Init => Suivis
  BY DEF Init, SuitEn, Consignees
<1>2. Sure /\ Derniers /\ Accordes /\ ToutesSaisies /\ Offertes /\ Suivis /\ [Next]_vars => Suivis'
  <2> SUFFICES ASSUME Sure, Derniers, Accordes, ToutesSaisies, Offertes, Suivis, [Next]_vars,
                      NEW f \in Fiches
               PROVE  SuitEn(f)'
    OBVIOUS
  <2>1. CASE \E r \in Requetes : ConclureTentative(r)
    <3>1. PICK r \in Requetes : ConclureTentative(r)
      BY <2>1
    <3>2. Accorde(tx[r].fiche)
      BY <3>1, AppelApplique DEF Accordes, ToutesSaisies
    <3> QED
      BY <3>1, <3>2, AppelSuivi
  <2>2. CASE \A r \in Requetes : ~ConclureTentative(r)
    <3>1. fiche'[f].phase2 = fiche[f].phase2
      <4>1. CASE UNCHANGED fiche
        BY <4>1
      <4>2. ASSUME NEW r \in Requetes, Ecrit(r) PROVE fiche'[f].phase2 = fiche[f].phase2
        <5>1. EnVol(r)
          BY <4>2, EcritAcheve DEF Sure, Acheve
        <5>2. tx[r].op \notin {"requalifier", "remettre", "methode"}
          BY <5>1 DEF Offertes
        <5>3. Gestion(r) /\ ~Remettre(r) /\ ~ModifierMethode(r)
          BY <2>2, <4>2, <5>2, EcritEst DEF ConclureRequalification, Remettre, AuTraiter, ModifierMethode
        <5>4. CASE f = tx[r].fiche
          BY <5>3, <5>4, GesteEcrit DEF Sure
        <5>5. CASE f # tx[r].fiche
          BY <5>3, <5>5, GesteEcrit DEF Sure
        <5> QED
          BY <5>4, <5>5
      <4> QED
        BY <4>1, <4>2, FormeDuPas DEF SansRequete, Tables, Debute, Avance, AnnulerRappel, RetablirRappel
    <3> QED
      BY <2>2, <3>1, SuiviGarde, AppelsConsignes
  <2> QED
    BY <2>1, <2>2
<1>3. Suivis => StatutSuitDernierAppelALHeure
  BY DEF SuitEn, StatutSuitDernierAppelALHeure
<1> HIDE DEF Suivis
<1> QED
  BY <1>1, <1>2, <1>3, AccordesCorrects, SaisiesCorrectes, OffertesCorrectes, PTL DEF Spec

-----------------------------------------------------------------------------
(***************************************************************************)
(* The queue of a fiche whose last call promised a callback.                   *)
(***************************************************************************)
DansLaFile(f) ==
  ALHeure(f) /\ (\E t \in Consignees(f) : Dernieres(f) = {t} /\ AccepteRappel(RegleDe(appel[t])))
    => \E i \in Requetes : tx[i].fiche = f /\ rappel[i].etat \in {"PENDING", "CANCELLED"}

(* The promises of f stay in the queue, or out of it by their owner's choice. *)
GardeLaFile(f) == \A i \in Requetes :
  tx[i].fiche = f /\ rappel[i].etat \in {"PENDING", "CANCELLED"} => rappel'[i].etat \in {"PENDING", "CANCELLED"}

LEMMA FileGardee ==
  ASSUME Sure, Registrees, Derniers, [Next]_vars, NEW f \in Fiches, DansLaFile(f), GardeLaFile(f),
         UNCHANGED <<tentative, tardives>>
  PROVE  DansLaFile(f)'
<1>1. /\ ALHeure(f)' = ALHeure(f) /\ Consignees(f)' = Consignees(f) /\ Dernieres(f)' = Dernieres(f)
      /\ \A t \in Consignees(f) : appel'[t] = appel[t]
  BY ALHeureGardee, AppelsConsignes
<1>2. ASSUME NEW i \in Requetes, tx[i].fiche = f, rappel[i].etat \in {"PENDING", "CANCELLED"}
      PROVE  tx'[i].fiche = f /\ rappel'[i].etat \in {"PENDING", "CANCELLED"}
  BY <1>2, PromesseAttachee DEF GardeLaFile
<1> QED
  BY <1>1, <1>2 DEF DansLaFile, RegleDe

LEMMA GestionGarde ==
  ASSUME Sure, Registrees, NEW r \in Requetes, Gestion(r), NEW f
  PROVE  GardeLaFile(f)
<1>1. \A i \in Requetes : rappel[i] \in LignesRappel
  BY DEF Sure, Typage, TypeOK
<1>2. CASE Supprimer(r)
  BY <1>1, <1>2 DEF Supprimer, GardeLaFile, LignesRappel
<1>3. CASE Affecter(r)
  BY <1>1, <1>3 DEF Affecter, GardeLaFile, LignesRappel
<1>4. CASE Convertir(r) \/ Vendre(r) \/ Remettre(r) \/ ModifierMethode(r)
  BY <1>4 DEF Convertir, Vendre, Remettre, ModifierMethode, GardeLaFile
<1> QED
  BY <1>2, <1>3, <1>4 DEF Gestion

LEMMA AppelDansLaFile ==
  ASSUME Sure, Registrees, Derniers, [Next]_vars, NEW r \in Requetes, ConclureTentative(r),
         NEW g \in Fiches, DansLaFile(g)
  PROVE  DansLaFile(g)'
<1>0. PICK f \in Fiches, t \in Tentatives : f = tx[r].fiche /\ t = tx[r].t
  BY AppelApplique
<1> DEFINE regle == RegleDe(appel[t])
<1>1. /\ Consignees(f)' = Consignees(f) \union {t} /\ appel' = appel
      /\ \A h \in Fiches \ {f} : Consignees(h)' = Consignees(h) /\ Dernieres(h)' = Dernieres(h)
  BY <1>0, UneConsigneeDePlus
<1>2. EnVol(r) /\ rappel[r].etat = "ABSENT" /\ tx'[r].fiche = f
  BY <1>0, EcritEst, EcritAcheve DEF Sure, Acheve, EnVol, Registrees, Tenue
<1>3. PICK vus \in RappelsVus(r, regle) : rappel' = RappelsClasses(r, regle, appel[t].agent, vus)
  BY <1>0 DEF ConclureTentative
<1>4. \/ Laisses /\ (AccepteRappel(regle) => EnAttente(f) # {})
      \/ Deviennent(f, "DONE") /\ ~AccepteRappel(regle)
      \/ Remplaces(f, r) /\ AccepteRappel(regle)
  BY <1>0, <1>2, <1>3, ClassesRegistre DEF Sure
<1> HIDE DEF regle
<1>5. CASE g = f
  <2>1. SUFFICES ASSUME ALHeure(f)', NEW u \in Consignees(f)', Dernieres(f)' = {u}, AccepteRappel(RegleDe(appel[u]))
                 PROVE  \E i \in Requetes : tx'[i].fiche = f /\ rappel'[i].etat \in {"PENDING", "CANCELLED"}
    BY <1>1, <1>5 DEF DansLaFile, RegleDe
  <2>2. u = t
    BY <1>0, <2>1, AppliqueeALHeure
  <2>3. AccepteRappel(regle)
    BY <2>1, <2>2 DEF regle
  <2>4. CASE Laisses /\ EnAttente(f) # {}
    <3>1. PICK i \in EnAttente(f) : TRUE
      BY <2>4
    <3>2. i \in Requetes /\ tx[i].fiche = f /\ rappel[i].etat = "PENDING"
      BY DEF EnAttente
    <3>3. tx'[i].fiche = f /\ rappel'[i].etat = "PENDING"
      BY <2>4, <3>2, PromesseAttachee DEF Laisses
    <3> QED
      BY <3>2, <3>3
  <2>5. CASE Remplaces(f, r)
    <3>1. rappel'[r].etat = "PENDING"
      BY <1>2, <2>5 DEF Remplaces, EnAttente
    <3> QED
      BY <1>2, <3>1
  <2> QED
    BY <1>4, <2>3, <2>4, <2>5
<1>6. CASE g # f
  <2>1. tardives \subseteq tardives'
    BY AppelApplique
  <2>2. ALHeure(g)' => ALHeure(g)
    BY <1>1, <1>6, <2>1 DEF ALHeure
  <2>3. ASSUME NEW i \in Requetes, tx[i].fiche = g, rappel[i].etat \in {"PENDING", "CANCELLED"}
        PROVE  tx'[i].fiche = g /\ rappel'[i].etat = rappel[i].etat
    <3>1. i # r /\ i \notin EnAttente(f)
      BY <1>2, <1>6, <2>3 DEF EnAttente
    <3>2. rappel'[i].etat = rappel[i].etat
      BY <1>4, <3>1 DEF Laisses, Deviennent, Remplaces
    <3> QED
      BY <2>3, <3>2, PromesseAttachee
  <2> QED
    BY <1>1, <1>6, <2>2, <2>3 DEF DansLaFile, RegleDe
<1> QED
  BY <1>5, <1>6

(* A callback promised by the last call of a fiche is in a queue, or was cancelled    *)
(* by hand: no interleaving of the calls, of the gestures and of the owner's own        *)
(* cancellations and restorations loses it, as long as nobody requalifies the fiche.  *)
THEOREM PromesseEnFile == "requalifier" \notin Operations /\ Spec => []PromesseDansLaFile
<1> SUFFICES ASSUME "requalifier" \notin Operations PROVE Spec => []PromesseDansLaFile
  OBVIOUS
<1> DEFINE EnFile == \A f \in Fiches : DansLaFile(f)
<1>1. Init => EnFile
  BY DEF Init, DansLaFile, Consignees
<1>2. Sure /\ Registrees /\ Derniers /\ Offertes /\ EnFile /\ [Next]_vars => EnFile'
  <2> SUFFICES ASSUME Sure, Registrees, Derniers, Offertes, EnFile, [Next]_vars, NEW f \in Fiches
               PROVE  DansLaFile(f)'
    OBVIOUS
  <2>1. CASE \E r \in Requetes : ConclureTentative(r)
    BY <2>1, AppelDansLaFile
  <2>2. CASE \A r \in Requetes : ~ConclureTentative(r)
    <3>1. GardeLaFile(f)
      <4>1. CASE UNCHANGED rappel
        BY <4>1 DEF GardeLaFile
      <4>2. ASSUME NEW r \in Requetes, Ecrit(r) PROVE GardeLaFile(f)
        <5>1. EnVol(r)
          BY <4>2, EcritAcheve DEF Sure, Acheve
        <5>2. Gestion(r)
          BY <2>2, <4>2, <5>1, EcritEst DEF Offertes, ConclureRequalification
        <5> QED
          BY <5>2, GestionGarde
      <4>3. CASE \E i \in Requetes : AnnulerRappel(i) \/ RetablirRappel(i)
        <5>1. PICK i \in Requetes : AnnulerRappel(i) \/ RetablirRappel(i)
          BY <4>3
        <5>2. \A j \in Requetes : rappel'[j].etat =
                IF j = i THEN IF AnnulerRappel(i) THEN "CANCELLED" ELSE "PENDING" ELSE rappel[j].etat
          BY <5>1 DEF AnnulerRappel, RetablirRappel, Sure, Typage, TypeOK, LignesRappel
        <5> QED
          BY <5>2 DEF GardeLaFile
      <4> QED
        BY <4>1, <4>2, <4>3, FormeDuPas DEF SansRequete, Tables, Debute, Avance
    <3> QED
      BY <2>2, <3>1, FileGardee, AppelsConsignes
  <2> QED
    BY <2>1, <2>2
<1>3. EnFile => PromesseDansLaFile
  BY DEF DansLaFile, PromesseDansLaFile
<1> HIDE DEF EnFile
<1> QED
  BY <1>1, <1>2, <1>3, DerniersCorrects, OffertesCorrectes, PTL DEF Spec

-----------------------------------------------------------------------------
(***************************************************************************)
(* The callbacks of a fiche in progress.  A request about to write an outcome   *)
(* holds every callback pending of its fiche: only a restoration could add one  *)
(* behind its back, and a fiche has one writer at a time.                       *)
(***************************************************************************)
DeuxTemps(r) == tx[r].op \in {"tentative", "requalifier"} /\ tx[r].etape = "deux"

Complet == \A r \in Requetes : DeuxTemps(r) => EnAttente(tx[r].fiche) \subseteq tx[r].pris

Ouverte(f) == EnAttente(f) # {} => fiche[f].phase2 \in {"PENDING", "APPOINTMENT"}

Ouvertes == Complet /\ \A f \in Fiches : Ouverte(f)

LEMMA UnEcrivain ==
  ASSUME Sure, Registrees, NEW r \in Requetes, DeuxTemps(r), NEW s \in Requetes,
         ConclureTentative(s) \/ ConclureRequalification(s), tx[s].fiche = tx[r].fiche
  PROVE  s = r
<1>1. \A q \in Requetes : DeuxTemps(q) => q \in verrouFiche[tx[q].fiche] /\ tx[q].fiche \in Fiches
  BY DEF DeuxTemps, Sure, Exclusion, Verifiee, Registrees, Tenue, Typage, ToutRenseigne, Renseignee, EnVol
<1>2. DeuxTemps(s)
  BY DEF DeuxTemps, ConclureTentative, ConclureRequalification
<1> QED
  BY <1>1, <1>2 DEF Sure, Exclusion, Verrouille

(* What an outcome leaves pending, when nothing was restored behind its back. *)
LEMMA IssueOuverte ==
  ASSUME Sure, Registrees, Complet, NEW r \in Requetes, DeuxTemps(r), Acheve(r),
         NEW f \in Fiches, f = tx[r].fiche, NEW e \in Effets, fiche'[f].phase2 = PhaseDe[e],
         NEW agent, NEW vus \in RappelsVus(r, e), rappel' = RappelsClasses(r, e, agent, vus)
  PROVE  Ouverte(f)'
<1>1. EnVol(r) /\ EnAttente(f) \subseteq tx[r].pris /\ rappel[r].etat = "ABSENT"
      /\ \A i \in Requetes : tx'[i].fiche = tx[i].fiche
  BY DEF DeuxTemps, EnVol, Complet, Registrees, Tenue, Acheve, LesAutres
<1>2. \/ Laisses /\ EnAttente(f) = {}
      \/ Deviennent(f, "DONE")
      \/ AccepteRappel(e)
  BY <1>1, ClassesRegistre DEF Sure
<1>3. CASE (Laisses /\ EnAttente(f) = {}) \/ Deviennent(f, "DONE")
  <2>1. EnAttente(f)' = {}
    BY <1>1, <1>3 DEF EnAttente, Laisses, Deviennent
  <2> QED
    BY <2>1 DEF Ouverte
<1>4. CASE AccepteRappel(e)
  BY <1>4 DEF AccepteRappel, PhaseDe, Effets, Ouverte
<1> QED
  BY <1>2, <1>3, <1>4

(* Callbacks do not become pending. *)
AucunDePlus == \A i \in Requetes : rappel'[i].etat = "PENDING" => rappel[i].etat = "PENDING"

LEMMA OuverteGardee ==
  ASSUME Sure, Registrees, [Next]_vars, NEW f, Ouverte(f), AucunDePlus,
         fiche'[f].phase2 = fiche[f].phase2 \/ fiche'[f].phase2 = "PENDING"
  PROVE  Ouverte(f)'
<1>1. EnAttente(f)' \subseteq EnAttente(f)
  BY PromesseAttachee DEF EnAttente, AucunDePlus
<1> QED
  BY <1>1 DEF Ouverte

LEMMA GestionSansPlus ==
  ASSUME Sure, Registrees, NEW r \in Requetes, Gestion(r)
  PROVE  AucunDePlus
<1>1. \A i \in Requetes : rappel[i] \in LignesRappel
  BY DEF Sure, Typage, TypeOK
<1>2. CASE Supprimer(r)
  BY <1>1, <1>2 DEF Supprimer, AucunDePlus, LignesRappel
<1>3. CASE Affecter(r)
  BY <1>1, <1>3 DEF Affecter, AucunDePlus, LignesRappel
<1>4. CASE Convertir(r) \/ Vendre(r) \/ Remettre(r) \/ ModifierMethode(r)
  BY <1>4 DEF Convertir, Vendre, Remettre, ModifierMethode, AucunDePlus
<1> QED
  BY <1>2, <1>3, <1>4 DEF Gestion

LEMMA AnnuleSansPlus ==
  ASSUME Sure, NEW i \in Requetes, AnnulerRappel(i)
  PROVE  AucunDePlus
BY DEF AnnulerRappel, AucunDePlus, Sure, Typage, TypeOK, LignesRappel

(* An outcome adds no callback but on its own fiche. *)
LEMMA IssueAilleurs ==
  ASSUME Sure, Registrees, [Next]_vars, NEW r \in Requetes, ConclureTentative(r) \/ ConclureRequalification(r),
         NEW g \in Fiches, g # tx[r].fiche
  PROVE  EnAttente(g)' = EnAttente(g)
<1>0. Acheve(r) /\ tx[r].fiche \in Fiches
  BY EcritEst, EcritAcheve DEF Sure
<1>a. EnVol(r) /\ tx'[r].fiche = tx[r].fiche /\ LesAutres(r)
  BY <1>0 DEF Acheve
<1>b. Tenue(r)
  BY DEF Registrees
<1>c. rappel[r].etat = "ABSENT"
  BY <1>a, <1>b DEF EnVol, Tenue
<1>1. /\ EnVol(r) /\ rappel[r].etat = "ABSENT" /\ tx[r].fiche \in Fiches /\ tx'[r].fiche = tx[r].fiche
      /\ \A i \in Requetes : tx'[i].fiche = tx[i].fiche
  BY <1>0, <1>a, <1>c DEF LesAutres
<1>2. \E regle, agent : \E vus \in RappelsVus(r, regle) : rappel' = RappelsClasses(r, regle, agent, vus)
  <2>1. CASE ConclureTentative(r)
    BY <2>1 DEF ConclureTentative
  <2>2. CASE ConclureRequalification(r)
    BY <2>2 DEF ConclureRequalification
  <2> QED
    BY <2>1, <2>2
<1>3. Laisses \/ Deviennent(tx[r].fiche, "DONE") \/ Remplaces(tx[r].fiche, r)
  <2>1. PICK regle, agent : \E vus \in RappelsVus(r, regle) : rappel' = RappelsClasses(r, regle, agent, vus)
    BY <1>2
  <2>2. PICK vus \in RappelsVus(r, regle) : rappel' = RappelsClasses(r, regle, agent, vus)
    BY <2>1
  <2>3. Typage
    BY DEF Sure
  <2> QED
    BY <1>1, <2>2, <2>3, ClassesRegistre
<1>4. \A i \in Requetes : tx[i].fiche = g => i # r /\ i \notin EnAttente(tx[r].fiche)
  BY DEF EnAttente
<1>5. \A i \in Requetes : tx[i].fiche = g => rappel'[i].etat = rappel[i].etat
  BY <1>3, <1>4 DEF Laisses, Deviennent, Remplaces
<1> QED
  BY <1>1, <1>5 DEF EnAttente

LEMMA PasComplet ==
  ASSUME Sure, Registrees, Complet, [Next]_vars, "retablir" \notin Operations
  PROVE  Complet'
<1>1. \A r \in Requetes : DeuxTemps(r) => EnVol(r) /\ tx[r].fiche \in Fiches
  BY DEF DeuxTemps, EnVol, Sure, Typage, ToutRenseigne, Renseignee
<1>2. ASSUME NEW r \in Requetes, tx'[r] = tx[r], DeuxTemps(r),
             \A f \in Fiches : f = tx[r].fiche => EnAttente(f)' \subseteq EnAttente(f)
      PROVE  (EnAttente(tx[r].fiche) \subseteq tx[r].pris)'
  BY <1>1, <1>2 DEF Complet
<1>3. ASSUME AucunDePlus PROVE \A f : EnAttente(f)' \subseteq EnAttente(f)
  BY <1>3, PromesseAttachee DEF EnAttente, AucunDePlus
<1>4. CASE SansRequete \/ \E i \in Requetes : AnnulerRappel(i)
  <2>1. tx' = tx /\ AucunDePlus
    BY <1>4, AnnuleSansPlus DEF SansRequete, AnnulerRappel, Tables, AucunDePlus
  <2> QED
    BY <1>2, <1>3, <2>1 DEF Complet, DeuxTemps
<1>5. ASSUME NEW r \in Requetes, Debute(r) \/ Avance(r) \/ (Acheve(r) /\ UNCHANGED Tables)
      PROVE  Complet'
  <2>1. LesAutres(r) /\ rappel' = rappel /\ AucunDePlus
    BY <1>5 DEF Debute, Avance, Acheve, Tables, AucunDePlus
  <2>2. ASSUME NEW s \in Requetes \ {r}, DeuxTemps(s)' PROVE (EnAttente(tx[s].fiche) \subseteq tx[s].pris)'
    BY <1>2, <1>3, <2>1, <2>2 DEF LesAutres, DeuxTemps
  <2>3. ASSUME DeuxTemps(r)' PROVE (EnAttente(tx[r].fiche) \subseteq tx[r].pris)'
    <3>1. Avance(r) /\ Entame(r)
      BY <1>5, <2>3 DEF Debute, Avance, Acheve, DeuxTemps
    <3>2. \A i \in Requetes : tx'[i].fiche = tx[i].fiche
      BY <2>1, <3>1 DEF Avance, LesAutres
    <3> QED
      BY <2>1, <3>1, <3>2 DEF Entame, EnAttente
  <2> QED
    BY <2>2, <2>3 DEF Complet
<1>6. ASSUME NEW r \in Requetes, Ecrit(r) PROVE Complet'
  <2>1. LesAutres(r) /\ tx'[r].etape = "fin"
    BY <1>6, EcritAcheve DEF Sure, Acheve
  <2>2. ASSUME NEW s \in Requetes, DeuxTemps(s)'
        PROVE  (EnAttente(tx[s].fiche) \subseteq tx[s].pris)'
    <3>1. s # r /\ tx'[s] = tx[s] /\ DeuxTemps(s)
      BY <2>1, <2>2 DEF DeuxTemps, LesAutres
    <3>2. CASE Gestion(r)
      BY <1>2, <1>3, <3>1, <3>2, GestionSansPlus
    <3>3. CASE ConclureTentative(r) \/ ConclureRequalification(r)
      <4>1. tx[s].fiche # tx[r].fiche
        BY <3>1, <3>3, UnEcrivain
      <4>2. \A f \in Fiches : f = tx[s].fiche => EnAttente(f)' = EnAttente(f)
        BY <3>3, <4>1, IssueAilleurs
      <4> QED
        BY <1>2, <3>1, <4>2
    <3> QED
      BY <1>6, <3>2, <3>3, EcritEst
  <2> QED
    BY <2>2 DEF Complet
<1>7. CASE \E i \in Requetes : RetablirRappel(i)
  BY <1>7 DEF RetablirRappel
<1> QED
  BY <1>4, <1>5, <1>6, <1>7, FormeDuPas

LEMMA PasOuvertes ==
  ASSUME Sure, Registrees, Accordes, ToutesSaisies, Offertes, Ouvertes, [Next]_vars,
         Operations \intersect {"retablir", "methode"} = {}
  PROVE  Ouvertes'
<1>1. ASSUME NEW f \in Fiches, AucunDePlus,
             fiche'[f].phase2 = fiche[f].phase2 \/ fiche'[f].phase2 = "PENDING"
      PROVE  Ouverte(f)'
  BY <1>1, OuverteGardee DEF Ouvertes
<1>2. ASSUME NEW r \in Requetes, ConclureTentative(r) \/ ConclureRequalification(r), NEW f \in Fiches
      PROVE  Ouverte(f)'
  <2>1. DeuxTemps(r) /\ Acheve(r) /\ tx[r].fiche \in Fiches
    BY <1>2, EcritEst, EcritAcheve DEF DeuxTemps, ConclureTentative, ConclureRequalification, Sure
  <2>2. CASE f = tx[r].fiche
    <3>1. Accorde(f)
      BY DEF Accordes, ToutesSaisies
    <3>2. CASE ConclureTentative(r)
      <4> DEFINE e == RegleDe(appel[tx[r].t])
      <4>1. e \in Effets /\ fiche'[f].phase2 = PhaseDe[e]
        BY <2>2, <3>1, <3>2, AppelApplique, PhaseAppliquee
      <4>2. \E vus \in RappelsVus(r, e) : rappel' = RappelsClasses(r, e, appel[tx[r].t].agent, vus)
        BY <3>2 DEF ConclureTentative
      <4> HIDE DEF e
      <4> QED
        BY <2>1, <2>2, <4>1, <4>2, IssueOuverte DEF Ouvertes
    <3>3. CASE ConclureRequalification(r)
      <4> DEFINE e == Effet[tx[r].motif]
      <4>1. e \in Effets /\ fiche'[f].phase2 = PhaseDe[e]
        BY <2>2, <3>1, <3>3, RequalificationEcrite, PhaseAppliquee DEF Sure
      <4>2. \E vus \in RappelsVus(r, e) : rappel' = RappelsClasses(r, e, tx[r].agent, vus)
        BY <3>3 DEF ConclureRequalification
      <4> HIDE DEF e
      <4> QED
        BY <2>1, <2>2, <4>1, <4>2, IssueOuverte DEF Ouvertes
    <3> QED
      BY <1>2, <3>2, <3>3
  <2>3. CASE f # tx[r].fiche
    <3>1. EnAttente(f)' = EnAttente(f)
      BY <1>2, <2>3, IssueAilleurs
    <3>2. fiche'[f] = fiche[f]
      BY <1>2, <2>3, AppelApplique, RequalificationEcrite DEF Sure
    <3> QED
      BY <3>1, <3>2 DEF Ouvertes, Ouverte
  <2> QED
    BY <2>2, <2>3
<1>3. ASSUME NEW r \in Requetes, Gestion(r), NEW f \in Fiches PROVE Ouverte(f)'
  <2>1. ~ModifierMethode(r)
    BY DEF Offertes, ModifierMethode, EnVol
  <2>2. fiche'[f].phase2 = fiche[f].phase2 \/ fiche'[f].phase2 = "PENDING"
    <3>1. CASE f # tx[r].fiche
      BY <1>3, <3>1, GesteEcrit DEF Sure
    <3>2. CASE f = tx[r].fiche /\ Remettre(r)
      BY <1>3, <3>2, GesteEcrit DEF Sure
    <3>3. CASE f = tx[r].fiche /\ ~Remettre(r)
      BY <1>3, <2>1, <3>3, GesteEcrit DEF Sure
    <3> QED
      BY <3>1, <3>2, <3>3
  <2> QED
    BY <1>1, <1>3, <2>2, GestionSansPlus
<1>4. ASSUME NEW f \in Fiches PROVE Ouverte(f)'
  <2>1. CASE \E r \in Requetes : Ecrit(r)
    BY <1>2, <1>3, <2>1, EcritEst
  <2>2. CASE UNCHANGED <<fiche, rappel>>
    BY <1>1, <2>2 DEF AucunDePlus
  <2>3. CASE \E i \in Requetes : AnnulerRappel(i)
    <3>1. AucunDePlus /\ fiche' = fiche
      BY <2>3, AnnuleSansPlus DEF AnnulerRappel
    <3> QED
      BY <1>1, <3>1
  <2>4. ~ \E i \in Requetes : RetablirRappel(i)
    BY DEF RetablirRappel
  <2> QED
    BY <2>1, <2>2, <2>3, <2>4, FormeDuPas DEF SansRequete, Tables, Debute, Avance
<1> QED
  BY <1>4, PasComplet DEF Ouvertes

(* audit-coherence, of the fiches that have a journey from the start: a callback is    *)
(* pending on a fiche in progress or on an appointment, as long as nobody restores a   *)
(* callback or corrects a method, the two gestures that do not look at the other row.  *)
THEOREM RappelsOuverts ==
  /\ "import" \notin Origines
  /\ Operations \intersect {"retablir", "methode"} = {}
  /\ Spec
  => []RappelSurFicheOuverte
<1> SUFFICES ASSUME "import" \notin Origines,
                    Operations \intersect {"retablir", "methode"} = {}
             PROVE  Spec => []RappelSurFicheOuverte
  OBVIOUS
<1>1. Init => Ouvertes
  <2> SUFFICES ASSUME Init PROVE Ouvertes
    OBVIOUS
  <2>1. \A r \in Requetes : tx[r].etape = "libre" /\ rappel[r].etat = "ABSENT"
    BY DEF Init, RequeteVide
  <2> QED
    BY <2>1 DEF Ouvertes, Complet, DeuxTemps, Ouverte, EnAttente
<1>2. Sure /\ Registrees /\ Accordes /\ ToutesSaisies /\ Offertes /\ Ouvertes /\ [Next]_vars => Ouvertes'
  BY PasOuvertes
<1>3. Ouvertes => RappelSurFicheOuverte
  BY DEF Ouvertes, Ouverte, RappelSurFicheOuverte
<1> QED
  BY <1>1, <1>2, <1>3, AccordesCorrects, SaisiesCorrectes, OffertesCorrectes, PTL DEF Spec
=============================================================================
