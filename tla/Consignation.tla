---------------------------- MODULE Consignation ----------------------------
(***************************************************************************)
(* Recording a call on a prospect, step by step: the answer, the form and the *)
(* BANT when the person answered, the status, its precision, the date, the    *)
(* note, then one sending made of up to three requests in a row.  The draft    *)
(* is saved meanwhile (module Brouillon).  Requests and answers get lost, the  *)
(* agent tries again, or leaves and opens the fiche another time.              *)
(***************************************************************************)
EXTENDS Brouillon

CONSTANTS
  Catalogue, \* the call outcomes the referential offers
  EnvoisMax  \* bound on the sendings of one screen

(* A text typed or not; a dossier with nothing decided, one with an enrolment   *)
(* method, one the form refuses.                                                 *)
Dossiers == {"simple", "methode", "invalide"}

Brouillons == [comment : BOOLEAN, conversion : Dossiers \union {Rien}]

(* A call outcome: root or child, reached or not, with what it asks for. *)
Motifs == [code : STRING, effet : STRING, parent : STRING \union {Rien}, joint : BOOLEAN,
           rappel : BOOLEAN, commentaire : BOOLEAN]

ASSUME CatalogueAssumption ==
  /\ Catalogue \subseteq Motifs /\ Rien \notin Catalogue
  /\ Saisies = Brouillons /\ Vierge = [comment |-> FALSE, conversion |-> Rien]
(* The outcomes with fields of their own: site and meeting point, or kind. *)
AvecChamps == {"RV_SITE", "RV_EXTERNE"}

(* What the call outcomes respect among themselves: a child inherits the effect of its *)
(* parent, and tells reached or not as it does; a date goes with a callback or an          *)
(* appointment; a visit is an appointment with a date; someone can be interested.            *)
CatalogueCoherent ==
  /\ \A m, s \in Catalogue : s.parent = m.code => s.effet = m.effet /\ s.joint = m.joint
  /\ \A m \in Catalogue : m.rappel => m.effet \in {"SCHEDULE_CALLBACK", "CLOSE_APPOINTMENT"}
  /\ \A m \in Catalogue : m.code \in AvecChamps => m.joint /\ m.rappel
  /\ \E m \in Catalogue : m.parent = Rien /\ m.joint /\ m.effet = "CLOSE_INTERESTED"

ASSUME EnvoisAssumption == 
  /\ EnvoisMax \in Nat
  /\ Rien \notin Dossiers \union {"ok", "joignable", "injoignable", "venir", "passee"}

VARIABLES
  ecran,      \* the screen's own state: groupe, pas, statut, precision, ...
  envois,     \* per opening, the sending of its screen
  tentatives, \* the call attempts the server has recorded
  converti,   \* the fiche is converted, on the server
  annonces    \* history: the openings whose screen said "Appel consigné"

vars == <<varsBrouillon, ecran, envois, tentatives, converti, annonces>>

Pas == {"reponse", "formulaire", "bant", "statut", "precision", "echeance", "note"}

Ecrans == [convertie : BOOLEAN, groupe : {Rien, "joignable", "injoignable"}, pas : Pas,
           statut : Catalogue \union {Rien}, precision : Catalogue \union {Rien},
           misDeCote : Dossiers \union {Rien}, echeance : {Rien, "venir", "passee"},
           rvSite : SUBSET AvecChamps, bantModifie : BOOLEAN]

Appels == [motif : Catalogue, methode : BOOLEAN, conversion : Dossiers \union {Rien},
           comment : BOOLEAN, echeance : {Rien, "venir"}, rvSite : BOOLEAN, bant : BOOLEAN]

Envois == [id : Nat, essais : 0..EnvoisMax, etape : {"repos", "brouillon", "bant", "push"},
           reponse : {Rien, "ok", "ferme", "refus", "champ"}, appel : Appels \union {Rien},
           acceptes : SUBSET Brouillons, erreur : {Rien, "ferme", "refus", "champ"}]

TypeOK ==
  /\ BrouillonTypeOK
  /\ ecran \in Ecrans
  /\ envois \in [Ouvertures -> Envois]
  /\ tentatives \subseteq [id : Nat, ouverture : Ouvertures, appel : Appels]
  /\ converti \in BOOLEAN
  /\ annonces \subseteq Ouvertures

-----------------------------------------------------------------------------
(* What the screen derives from its state.                                      *)

motifsRacine == {m \in Catalogue : m.parent = Rien}

sousMotifsDe(m) == IF m = Rien THEN {} ELSE {s \in Catalogue : s.parent = m.code}

statutsJoignables == {m \in motifsRacine : m.joint /\ m.effet # "CLOSE_METHOD"}

Adhesion == affiche.conversion = "methode"

Motif == IF ecran.precision # Rien THEN ecran.precision ELSE ecran.statut

RappelDemande == ~Adhesion /\ Motif # Rien /\ Motif.rappel

(* An enrolment keeps only the outcomes that do not contradict it. *)
statutsDuGroupe ==
  LET compatibles == {m \in statutsJoignables : m.effet = "CLOSE_INTERESTED"}
  IN CASE ecran.groupe = "injoignable" -> {m \in motifsRacine : ~m.joint}
       [] ecran.groupe = "joignable" ->
            IF Adhesion /\ compatibles # {} THEN compatibles ELSE statutsJoignables
       [] OTHER -> {}

(* Unanswered, an outcome that closes the fiche is recorded on its own step. *)
SurLeStatut(m) ==
  /\ ecran.groupe = "injoignable"
  /\ m # Rien => ~m.commentaire /\ ~m.rappel /\ sousMotifsDe(m) = {}

SansNote == SurLeStatut(ecran.statut)

(* The steps come in one order, and a path keeps some of them. *)
Rang ==
  [reponse |-> 1, formulaire |-> 2, bant |-> 3, statut |-> 4, precision |-> 5, echeance |-> 6,
   note |-> 7]

parcoursDe ==
  {p \in Pas :
     /\ p \in {"formulaire", "bant"} => ecran.groupe = "joignable"
     /\ p = "precision" => sousMotifsDe(ecran.statut) # {}
     /\ p = "echeance" => RappelDemande
     /\ p = "note" => ~SansNote}

(* The step on screen: the last one when the path no longer has it. *)
PasCourant ==
  IF ecran.pas \in parcoursDe THEN ecran.pas
  ELSE CHOOSE p \in parcoursDe : \A q \in parcoursDe : Rang[q] <= Rang[p]

EnCours == ouverture # 0 /\ ~ecran.convertie

EnvoiEnCours == envois[ouverture].etape # "repos"

-----------------------------------------------------------------------------
(* ConsoleView: a fiche is opened, perhaps from a list that does not know yet   *)
(* it was converted; Consignation then only offers to leave.  A draft with a     *)
(* dossier comes from a call where the person answered.                          *)

EcranNeuf(convertie, conversion) ==
  [convertie |-> convertie, groupe |-> IF conversion = Rien THEN Rien ELSE "joignable",
   pas |-> IF conversion = Rien THEN "reponse" ELSE "formulaire", statut |-> Rien,
   precision |-> Rien, misDeCote |-> Rien, echeance |-> Rien, rvSite |-> {},
   bantModifie |-> FALSE]

EnvoiNeuf(o) ==
  [id |-> o, essais |-> 0, etape |-> "repos", reponse |-> Rien, appel |-> Rien,
   acceptes |-> {}, erreur |-> Rien]

Init ==
  /\ BrouillonInit
  /\ ecran = EcranNeuf(FALSE, Rien)
  /\ envois = [o \in Ouvertures |-> EnvoiNeuf(o)]
  /\ tentatives = {} /\ converti = FALSE /\ annonces = {}

Ouvrir ==
  \E o \in Ouvertures, vue \in {converti, FALSE} :
    /\ OuvrirFiche(o)
    /\ ecran' = EcranNeuf(vue, affiche'.conversion)
    /\ UNCHANGED <<envois, tentatives, converti, annonces>>

OuvrirSansReponse ==
  /\ \E o \in Ouvertures : OuvertureSansReponse(o)
  /\ UNCHANGED <<ecran, envois, tentatives, converti, annonces>>

(* revenir(): the list is back and the screen is gone. *)
Revenir == Demonter /\ ecran' = EcranNeuf(FALSE, Rien)

(* Retour on the first step, or the only one of a converted fiche. *)
QuitterLaFiche ==
  /\ ouverture # 0 /\ (ecran.convertie \/ PasCourant = "reponse")
  /\ Revenir
  /\ UNCHANGED <<puts, lignes, pertes, envois, tentatives, converti, annonces>>

-----------------------------------------------------------------------------
(* The steps.  The shortcuts and the progress bar stay active while a sending   *)
(* is under way; the form and the BANT do not.                                   *)

AuPas(p) == EnCours /\ PasCourant = p

ResteServeur == UNCHANGED <<envois, tentatives, converti, annonces>>

EcranSeul(e) == ecran' = e /\ UNCHANGED varsBrouillon /\ ResteServeur

(* Retour, or an earlier step of the progress bar. *)
Reculer ==
  /\ EnCours
  /\ \E p \in parcoursDe \ {ecran.pas} :
       Rang[p] <= Rang[PasCourant] /\ EcranSeul([ecran EXCEPT !.pas = p])

Continuer ==
  \/ AuPas("formulaire") /\ EcranSeul([ecran EXCEPT !.pas = "bant"])
  \/ AuPas("bant") /\ EcranSeul([ecran EXCEPT !.pas = "statut"])

ChoisirGroupeStatutGarde(g) ==
  LET reprise == IF affiche.conversion # Rien THEN affiche.conversion ELSE "simple"
  IN /\ AuPas("reponse")
     /\ IF g = "joignable"
        THEN /\ ecran' = [ecran EXCEPT !.groupe = g, !.pas = "formulaire"]
             /\ Afficher([affiche EXCEPT !.conversion = reprise])
        ELSE /\ ecran' = [ecran EXCEPT !.groupe = g, !.pas = "statut"]
             /\ Afficher([affiche EXCEPT !.conversion = Rien])
     /\ ResteServeur

ChoisirGroupe(g) ==
  LET reprise == IF affiche.conversion # Rien THEN affiche.conversion
                 ELSE IF ecran.misDeCote # Rien THEN ecran.misDeCote
                 ELSE "simple"
      sans == [ecran EXCEPT !.groupe = g, !.statut = Rien, !.precision = Rien, !.echeance = Rien]
  IN /\ AuPas("reponse")
     /\ IF g = "joignable"
        THEN /\ ecran' = [sans EXCEPT !.pas = "formulaire"]
             /\ Afficher([affiche EXCEPT !.conversion = reprise])
        ELSE /\ ecran' = [sans EXCEPT !.pas = "statut",
                           !.misDeCote = IF affiche.conversion = Rien THEN @
                                         ELSE affiche.conversion]
             /\ Afficher([affiche EXCEPT !.conversion = Rien])
     /\ ResteServeur

RemplirDossier(d) ==
  /\ AuPas("formulaire") /\ ~EnvoiEnCours /\ affiche.conversion # Rien
  /\ Afficher([affiche EXCEPT !.conversion = d])
  /\ UNCHANGED ecran /\ ResteServeur

RemplirBant ==
  AuPas("bant") /\ ~EnvoiEnCours /\ EcranSeul([ecran EXCEPT !.bantModifie = TRUE])

(* Once the outcome is retained: its date if it wants one, otherwise the note. *)
PasApresMotif(m) == IF ~Adhesion /\ m.rappel THEN "echeance" ELSE "note"

ChoisirStatut(m) ==
  /\ AuPas("statut") /\ m \in statutsDuGroupe
  /\ EcranSeul([ecran EXCEPT !.statut = m, !.precision = Rien, !.echeance = Rien,
       !.pas = IF SurLeStatut(m) THEN @
               ELSE IF sousMotifsDe(m) # {} THEN "precision"
               ELSE PasApresMotif(m)])

ChoisirPrecision(m) ==
  /\ AuPas("precision") /\ m \in sousMotifsDe(ecran.statut) \union {Rien}
  /\ EcranSeul([ecran EXCEPT !.precision = m, !.echeance = Rien,
       !.pas = PasApresMotif(IF m = Rien THEN ecran.statut ELSE m)])

(* What such an outcome needs, exigible before its date. *)
RemplirRvSite(complet) ==
  /\ AuPas("echeance") /\ Motif.code \in AvecChamps
  /\ EcranSeul([ecran EXCEPT !.rvSite = IF complet THEN @ \union {Motif.code}
                                         ELSE @ \ {Motif.code}])

RvSiteVerifie == Motif.code \in AvecChamps => Motif.code \in ecran.rvSite

(* A slot, or a date typed, which may be past; the date stays even when the     *)
(* site is missing.                                                              *)
ChoisirEcheance(at) ==
  /\ AuPas("echeance")
  /\ EcranSeul([ecran EXCEPT !.echeance = at, !.pas = IF RvSiteVerifie THEN "note" ELSE @])

ValiderEcheance ==
  /\ AuPas("echeance") /\ ecran.echeance # Rien /\ RvSiteVerifie
  /\ EcranSeul([ecran EXCEPT !.pas = "note"])

HeureTourne ==
  EnCours /\ ecran.echeance = "venir" /\ EcranSeul([ecran EXCEPT !.echeance = "passee"])

Commenter ==
  /\ AuPas("note") \/ (AuPas("statut") /\ ecran.groupe = "injoignable")
  /\ Afficher([affiche EXCEPT !.comment = ~@])
  /\ UNCHANGED ecran /\ ResteServeur

-----------------------------------------------------------------------------
(* The sending.  draftDe and the effect of the call, then up to three requests, *)
(* each awaited before the next: the draft, the BANT, the attempt.               *)

draftDe ==
  [motif |-> Motif, methode |-> Adhesion, conversion |-> affiche.conversion,
   comment |-> affiche.comment, echeance |-> ecran.echeance, rvSite |-> Motif.code \in ecran.rvSite,
   bant |-> ecran.bantModifie]

EffetDe(a) == IF a.methode THEN "CLOSE_METHOD" ELSE a.motif.effet

(* validateAttempt.  A dossier the form refuses stops here, the agent left on   *)
(* the note: the branch that would show the field is behind this one.            *)
validateAttempt(a) ==
  /\ a.echeance # Rien => EffetDe(a) \in {"SCHEDULE_CALLBACK", "CLOSE_APPOINTMENT"}
  /\ a.motif.commentaire => a.comment
  /\ a.conversion # "invalide"

GarderBrouillon(a) ==
  EffetDe(a) = "SCHEDULE_CALLBACK" \/ (~a.methode /\ a.conversion # Rien)

BrouillonDe(a) == [comment |-> a.comment, conversion |-> a.conversion]

ApresBrouillon(a) == IF a.bant THEN "bant" ELSE "push"

EnvoyerAppelNouvelId ==
  LET e == envois[ouverture]
  IN /\ validateAttempt(draftDe) /\ e.essais < EnvoisMax
     /\ envois' = [envois EXCEPT ![ouverture] =
          [e EXCEPT !.essais = @ + 1, !.id = @ + OuverturesMax, !.appel = draftDe,
             !.reponse = Rien, !.erreur = Rien,
             !.etape = IF GarderBrouillon(draftDe) THEN "brouillon"
                       ELSE ApresBrouillon(draftDe)]]
     /\ UNCHANGED <<varsBrouillon, ecran, tentatives, converti, annonces>>

EnvoyerAppelSansBrouillon ==
  LET e == envois[ouverture]
  IN /\ validateAttempt(draftDe) /\ e.essais < EnvoisMax
     /\ envois' = [envois EXCEPT ![ouverture] =
          [e EXCEPT !.essais = @ + 1, !.appel = draftDe, !.reponse = Rien, !.erreur = Rien,
             !.etape = ApresBrouillon(draftDe)]]
     /\ UNCHANGED <<varsBrouillon, ecran, tentatives, converti, annonces>>

EnvoyerAppel ==
  LET e == envois[ouverture]
  IN /\ validateAttempt(draftDe) /\ e.essais < EnvoisMax
     /\ envois' = [envois EXCEPT ![ouverture] =
          [e EXCEPT !.essais = @ + 1, !.appel = draftDe, !.reponse = Rien, !.erreur = Rien,
             !.etape = IF GarderBrouillon(draftDe) THEN "brouillon"
                       ELSE ApresBrouillon(draftDe)]]
     /\ UNCHANGED <<varsBrouillon, ecran, tentatives, converti, annonces>>

(* enregistrer(): no outcome, no date, or a date the clock has caught up with,  *)
(* sends back to the step that lacks.                                            *)
Enregistrer ==
  /\ AuPas("note") \/ (AuPas("statut") /\ SansNote)
  /\ ~EnvoiEnCours
  /\ IF Motif = Rien THEN EcranSeul([ecran EXCEPT !.pas = "statut"])
     ELSE IF RappelDemande /\ ecran.echeance = Rien
          THEN EcranSeul([ecran EXCEPT !.pas = "echeance"])
     ELSE IF ecran.echeance = "passee"
          THEN EcranSeul([ecran EXCEPT !.echeance = Rien, !.pas = "echeance"])
     ELSE EnvoyerAppel

Repondre(o, r) == envois' = [envois EXCEPT ![o].reponse = r]

(* The server writes the draft of the sending, unless the opening is closed. *)
ServirBrouillon(o) ==
  /\ envois[o].etape = "brouillon" /\ envois[o].reponse = Rien
  /\ EcrireSurLigne(o, BrouillonDe(envois[o].appel))
  /\ envois' = IF lignes[o].fermee THEN [envois EXCEPT ![o].reponse = "ferme"]
               ELSE [envois EXCEPT ![o].reponse = "ok",
                       ![o].acceptes = @ \union {BrouillonDe(envois[o].appel)}]
  /\ UNCHANGED <<ouverture, affiche, aEcrire, ecrit, arme, enAttente, puts, pertes,
                 ecran, tentatives, converti, annonces>>

ServirBant(o) ==
  /\ envois[o].etape = "bant" /\ envois[o].reponse = Rien
  /\ Repondre(o, "ok")
  /\ UNCHANGED <<varsBrouillon, ecran, tentatives, converti, annonces>>

(* The attempt: an identifier already recorded is answered as a duplicate; a    *)
(* converted fiche, or a rule of the server, refuses; otherwise it is recorded    *)
(* and closes its opening.                                                        *)
DejaEnregistree(o) == \E t \in tentatives : t.id = envois[o].id

Refuser(o) ==
  /\ ~DejaEnregistree(o)
  /\ \/ Repondre(o, "refus")
     \/ ~converti /\ envois[o].appel.conversion # Rien /\ Repondre(o, "champ")
  /\ UNCHANGED <<lignes, tentatives, converti>>

ServirAppel(o) ==
  /\ envois[o].etape = "push" /\ envois[o].reponse = Rien
  /\ \/ /\ DejaEnregistree(o) /\ Repondre(o, "ok")
        /\ UNCHANGED <<lignes, tentatives, converti>>
     \/ Refuser(o)
     \/ /\ ~DejaEnregistree(o) /\ ~converti /\ Repondre(o, "ok")
        /\ tentatives' = tentatives \union
             {[id |-> envois[o].id, ouverture |-> o, appel |-> envois[o].appel]}
        /\ lignes' = [lignes EXCEPT ![o].fermee = TRUE]
        /\ converti' = envois[o].appel.methode
  /\ UNCHANGED <<ouverture, affiche, aEcrire, ecrit, arme, enAttente, puts, pertes,
                 ecran, annonces>>

(* An answer that lets the sending go on. *)
EtapeSuivante(o) ==
  /\ envois[o].reponse = "ok" /\ envois[o].etape # "push"
  /\ envois' = [envois EXCEPT ![o].reponse = Rien,
       ![o].etape = IF envois[o].etape = "brouillon" THEN ApresBrouillon(envois[o].appel)
                    ELSE "push"]
  /\ UNCHANGED <<varsBrouillon, ecran, tentatives, converti, annonces>>

ReussiToujours(o) == envois[o].reponse # Rien /\ envois[o].etape = "push"

(* onSuccess, then onEnregistre: whatever screen is open goes, be it this one    *)
(* or the one of a later opening.                                                 *)
Reussi(o) == envois[o].reponse = "ok" /\ envois[o].etape = "push"

Annoncer(o) ==
  /\ Reussi(o)
  /\ envois' = [envois EXCEPT ![o].etape = "repos", ![o].reponse = Rien, ![o].appel = Rien]
  /\ annonces' = annonces \union {o}
  /\ Revenir
  /\ UNCHANGED <<puts, lignes, pertes, tentatives, converti>>

(* onError: the sending stops where it is; a field the server names brings the  *)
(* form back.                                                                     *)
Abandonner(o, erreur) ==
  /\ envois' = [envois EXCEPT ![o].etape = "repos", ![o].reponse = Rien, ![o].appel = Rien,
                               ![o].erreur = erreur]
  /\ ecran' = IF o = ouverture /\ erreur = "champ" THEN [ecran EXCEPT !.pas = "formulaire"]
              ELSE ecran
  /\ UNCHANGED <<ouverture, affiche, aEcrire, ecrit, arme, enAttente, puts, lignes,
                 tentatives, converti, annonces>>

RecevoirRefus(o) ==
  /\ envois[o].reponse \in {"ferme", "refus", "champ"}
  /\ Abandonner(o, envois[o].reponse) /\ UNCHANGED pertes

PerdreEnvoi(o) ==
  /\ envois[o].etape # "repos" /\ pertes < PertesMax /\ pertes' = pertes + 1
  /\ Abandonner(o, Rien)

-----------------------------------------------------------------------------
Agent ==
  \/ Ouvrir \/ OuvrirSansReponse \/ QuitterLaFiche
  \/ Reculer \/ Continuer
  \/ \E g \in {"joignable", "injoignable"} : ChoisirGroupe(g)
  \/ \E d \in Dossiers : RemplirDossier(d)
  \/ RemplirBant
  \/ \E m \in Catalogue : ChoisirStatut(m)
  \/ \E m \in Catalogue \union {Rien} : ChoisirPrecision(m)
  \/ \E complet \in BOOLEAN : RemplirRvSite(complet)
  \/ \E at \in {"venir", "passee"} : ChoisirEcheance(at)
  \/ ValiderEcheance \/ HeureTourne \/ Commenter \/ Enregistrer

Reseau ==
  \/ Automatique /\ UNCHANGED <<ecran, envois, tentatives, converti, annonces>>
  \/ \E o \in Ouvertures :
       \/ ServirBrouillon(o) \/ ServirBant(o) \/ ServirAppel(o)
       \/ EtapeSuivante(o) \/ Annoncer(o) \/ RecevoirRefus(o) \/ PerdreEnvoi(o)

Next == Agent \/ Reseau

Spec == Init /\ [][Next]_vars

(* A call is recorded once however many times its screen sends it: the lost     *)
(* answers and the new tries carry the identifier drawn when the screen opened.   *)
UnAppelParEcran == \A t, u \in tentatives : t.ouverture = u.ouverture => t = u

(* "Appel consigné" is only said of a call the server has recorded: the push      *)
(* answers 200 even to the call it refuses.                                        *)
AnnonceVraie == \A o \in annonces : \E t \in tentatives : t.ouverture = o

(* An enrolment goes with an interested outcome, a dossier with an outcome where the *)
(* person answered, a date with an outcome that has one and a visit with its site.      *)
Consequent(a) ==
  /\ a.methode => a.motif.effet = "CLOSE_INTERESTED"
  /\ a.conversion # Rien <=> a.motif.joint
  /\ a.echeance # Rien <=> a.motif.rappel /\ ~a.methode
  /\ a.motif.code \in AvecChamps => a.rvSite

(* What is recorded holds together though the agent went back and changed an earlier *)
(* answer, and though an answer of the server or the clock moved him meanwhile.          *)
AppelConsequent == \A t \in tentatives : Consequent(t.appel)

(* EB-10: the dossier of a call that does not enrol travels by the draft, and the *)
(* server has taken that draft before the call closes the opening to it.           *)
DossierAvantFermeture ==
  \A t \in tentatives :
    GarderBrouillon(t.appel) => BrouillonDe(t.appel) \in envois[t.ouverture].acceptes

(* Once the call has closed its opening, no draft write still in flight changes    *)
(* what the next call finds there.                                                 *)
FermeeFigee ==
  [][\A o \in Ouvertures : lignes[o].fermee => lignes'[o].draft = lignes[o].draft]_vars

(* "Un nouvel essai après une réponse perdue doit être dédupliqué par le           *)
(* serveur": a call already recorded is not refused when its screen tries again.   *)
RejeuDeduplique ==
  \A o \in Ouvertures :
    envois[o].erreur \in {"ferme", "refus"} => ~\E t \in tentatives : t.ouverture = o

=============================================================================
