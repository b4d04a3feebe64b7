------------------------------ MODULE ScriptRep ------------------------------
(***************************************************************************)
(* The script of a call to a representative: fourteen steps whose path is     *)
(* recomputed from the answers at each render, an answer that may be changed   *)
(* until the call is recorded, an appointment taken on the way, and a draft     *)
(* that keeps the answers (module Brouillon) but not the step.                   *)
(***************************************************************************)
EXTENDS Brouillon, SequencesExt

CONSTANTS
  StatutsRep, \* the qualification statuses of the referential
  TypesRdv,   \* the kinds of appointment a representative may take
  EnvoisMax   \* bound on the sendings of one screen

OuiNon == {"oui", "non", Rien}

FichesStatut == [code : STRING, effet : STRING, parent : STRING \union {Rien},
                 relation : {"AMBASSADEUR", "REFUS", Rien}, rappel : BOOLEAN,
                 reessai : BOOLEAN, motif : BOOLEAN]

Codes == {s.code : s \in StatutsRep}

(* The answers the draft keeps.  A callback is known by the status it was set    *)
(* for; a text is typed or not.                                                    *)
Reponses == [resultat : {"JOIGNABLE", "INJOIGNABLE", Rien}, statut : StatutsRep \union {Rien},
             ecole : OuiNon, ambassadeur : OuiNon, memeWhatsapp : OuiNon,
             rappel : Codes \union {Rien}, suggestion : BOOLEAN, commentaire : BOOLEAN]

Vierges == [resultat |-> Rien, statut |-> Rien, ecole |-> Rien, ambassadeur |-> Rien,
            memeWhatsapp |-> Rien, rappel |-> Rien, suggestion |-> FALSE,
            commentaire |-> FALSE]

VARIABLES
  ecran,        \* the step, the appointment and its date
  envois,       \* per opening, the sending of its screen
  tentativesRep \* the calls the server has recorded

varsScript == <<varsBrouillon, ecran, envois, tentativesRep>>

Pas == {"reponse", "ecole", "contacte", "ues", "syndicat", "representant", "whatsapp",
        "statut", "precision", "rdv", "rdvDate", "echeance", "recommande", "note"}

(* What a referential must be for the script to follow it. *)
StatutsBienFormes ==
  /\ StatutsRep \subseteq FichesStatut
  /\ Rien \notin StatutsRep /\ Rien \notin TypesRdv /\ Rien \notin Pas
  /\ Saisies = Reponses /\ Vierge = Vierges /\ EnvoisMax \in Nat

(* The answers to the question of the relation demand no date: the referential is    *)
(* seeded so, and their callback is not to be set; their retry is left to the           *)
(* management, which must not set one.                                                   *)
QuestionSansDate ==
  \A s \in StatutsRep : s.code \in {"ACCEPTE", "REFUSE"} => ~(s.rappel \/ s.reessai)

(* The kinds with fields of their own: site and meeting point, or kind. *)
AvecChamps == {"RV_SITE", "RV_EXTERNE"}

(* useRdvRepresentant: the date is known by the kind it was chosen for. *)
Ecrans == [pas : Pas, code : TypesRdv \union {Rien}, at : TypesRdv \union {Rien},
           passe : BOOLEAN, complets : SUBSET AvecChamps]

AppelsRep == [statut : StatutsRep, relation : {"AMBASSADEUR", "REFUS", Rien},
           rappel : Codes \union {Rien}, rdv : TypesRdv \union {Rien},
           at : TypesRdv \union {Rien}]

Envois == [n : 0..EnvoisMax, etape : {"repos", "parti", "servi"}, accepte : BOOLEAN,
           appel : AppelsRep \union {Rien}]

TypeOKScript ==
  /\ BrouillonTypeOK
  /\ ecran \in Ecrans
  /\ envois \in [Ouvertures -> Envois]
  /\ tentativesRep \subseteq [ouverture : Ouvertures, n : 1..EnvoisMax, appel : AppelsRep]

-----------------------------------------------------------------------------
(* The statuses: what the branch offers, what the question alone poses.         *)

estAbouti(effet) == effet \in {"REACHED", "REFUSED", "SCHEDULE_CALLBACK", "WRONG_NUMBER"}

joignable(r) == r.resultat = "JOIGNABLE"

statutsDeLaBranche(r) == {s \in StatutsRep : estAbouti(s.effet) = joignable(r)}

sousStatutsDe(r, s) == {f \in statutsDeLaBranche(r) : s # Rien /\ f.parent = s.code}

ouRien(trouves) == IF trouves = {} THEN Rien ELSE CHOOSE s \in trouves : TRUE

statutDuSouhait(r) ==
  LET code == IF r.ambassadeur = "oui" THEN "ACCEPTE" ELSE "REFUSE"
  IN IF r.ambassadeur = Rien \/ ~joignable(r) THEN Rien
     ELSE ouRien({s \in statutsDeLaBranche(r) : s.code = code})

souhaitDuStatut(s) ==
  CASE s.code = "ACCEPTE" -> "oui" [] s.code = "REFUSE" -> "non" [] OTHER -> Rien

dateDemandee(s) == s # Rien /\ (s.rappel \/ s.reessai)

(* The retry of an unanswered number arrives already set. *)
rappelInitialDuStatut(s) == IF s # Rien /\ s.reessai /\ ~s.rappel THEN s.code ELSE Rien

-----------------------------------------------------------------------------
(* deriverQualification, deriverPas: what the answers entail.                   *)

statutChoisi(r) == IF r.statut \in statutsDeLaBranche(r) THEN r.statut ELSE Rien

statut(r) == IF statutChoisi(r) # Rien THEN statutChoisi(r) ELSE statutDuSouhait(r)

racineRetenue(r) ==
  LET s == statutChoisi(r)
      parents == {p \in statutsDeLaBranche(r) : s # Rien /\ s.parent = p.code}
  IN CASE s = Rien -> statutDuSouhait(r)
       [] parents # {} -> ouRien(parents)
       [] OTHER -> s

rdvPossible(r) ==
  LET s == statut(r)
  IN joignable(r) /\ s # Rien /\ s.effet \notin {"UNREACHABLE", "WRONG_NUMBER"}

parcoursDe(r, code) ==
  LET si(condition, pas) == IF condition THEN pas ELSE <<>>
  IN <<"reponse">>
     \o si(joignable(r), <<"ecole", "contacte", "ues", "syndicat", "representant">>)
     \o si(joignable(r) /\ r.ambassadeur = "oui", <<"whatsapp">>)
     \o <<"statut">>
     \o si(sousStatutsDe(r, racineRetenue(r)) # {}, <<"precision">>)
     \o si(rdvPossible(r), <<"rdv">> \o si(code # Rien, <<"rdvDate">>))
     \o si(dateDemandee(statut(r)), <<"echeance">>)
     \o si(joignable(r) /\ r.ambassadeur = "non", <<"recommande">>)
     \o <<"note">>

parcours == parcoursDe(affiche, ecran.code)

rangDans(p, pas) == IF Contains(p, pas) THEN CHOOSE i \in DOMAIN p : p[i] = pas ELSE 0

(* A step the path no longer has counts as the first one. *)
rang == IF rangDans(parcours, ecran.pas) = 0 THEN 1 ELSE rangDans(parcours, ecran.pas)

suivantDe(pas, p) ==
  IF rangDans(p, pas) + 1 \in DOMAIN p THEN p[rangDans(p, pas) + 1] ELSE "note"

pasManquant(r) ==
  IF r.resultat = Rien THEN "reponse"
  ELSE IF joignable(r) /\ statutChoisi(r) = Rien /\ r.ambassadeur = Rien THEN "representant"
  ELSE IF statut(r) = Rien THEN "statut"
  ELSE IF statut(r).motif /\ ~r.commentaire THEN "note"
  ELSE IF dateDemandee(statut(r)) /\ r.rappel = Rien THEN "echeance"
  ELSE Rien

-----------------------------------------------------------------------------
(* RepScript: the screen of an opening, always on its first step.               *)

EcranNeuf == [pas |-> "reponse", code |-> Rien, at |-> Rien, passe |-> FALSE, complets |-> {}]

EnvoiNeuf == [n |-> 0, etape |-> "repos", accepte |-> FALSE, appel |-> Rien]

InitScript ==
  /\ BrouillonInit
  /\ ecran = EcranNeuf
  /\ envois = [o \in Ouvertures |-> EnvoiNeuf]
  /\ tentativesRep = {}

ResteServeur == UNCHANGED <<envois, tentativesRep>>

Ouvrir ==
  /\ \E o \in Ouvertures : OuvrirFiche(o)
  /\ UNCHANGED ecran /\ ResteServeur

Fermer == Demonter /\ ecran' = EcranNeuf

(* precedent: Retour on the first step leaves the representative. *)
Quitter ==
  /\ ouverture # 0 /\ rang = 1
  /\ Fermer
  /\ UNCHANGED <<puts, lignes, pertes>> /\ ResteServeur

AuPas(pas) == ouverture # 0 /\ ecran.pas = pas

RepondreEtAller(r, pas) ==
  /\ Afficher(r)
  /\ ecran' = [ecran EXCEPT !.pas = pas]
  /\ ResteServeur

EcranSeul(e) == ecran' = e /\ UNCHANGED varsBrouillon /\ ResteServeur

(* Retour, or an earlier step of the progress bar. *)
Reculer ==
  /\ ouverture # 0
  /\ \E i \in 1..rang : parcours[i] # ecran.pas /\ EcranSeul([ecran EXCEPT !.pas = parcours[i]])

-----------------------------------------------------------------------------
(* The answers, one step each.                                                  *)

(* Each branch has its own statuses; the answers of the other branch go, but    *)
(* for the callback of the one where the person answered.                        *)
choisirResultat(resultat) ==
  LET r == [affiche EXCEPT !.resultat = resultat, !.statut = Rien]
  IN /\ AuPas("reponse")
     /\ IF resultat = "JOIGNABLE" THEN RepondreEtAller(r, "ecole")
        ELSE RepondreEtAller([r EXCEPT !.ecole = Rien, !.ambassadeur = Rien, !.memeWhatsapp = Rien,
                                !.rappel = Rien], "statut")

choisirEcole(oui) ==
  /\ AuPas("ecole")
  /\ RepondreEtAller([affiche EXCEPT !.ecole = oui], IF oui = "oui" THEN "contacte" ELSE "ecole")

(* choisirContacte, choisirUES and the trade union: answers nothing depends on. *)
choisirSansSuite ==
  \/ AuPas("contacte") /\ EcranSeul([ecran EXCEPT !.pas = "ues"])
  \/ AuPas("ues") /\ EcranSeul([ecran EXCEPT !.pas = "syndicat"])

choisirAmbassadeur(oui) ==
  /\ AuPas("representant")
  /\ RepondreEtAller([affiche EXCEPT !.ambassadeur = oui,
                 !.memeWhatsapp = IF oui = "oui" THEN @ ELSE Rien],
              IF oui = "oui" THEN "whatsapp" ELSE "statut")

choisirMemeWhatsapp(oui) ==
  /\ AuPas("whatsapp")
  /\ RepondreEtAller([affiche EXCEPT !.memeWhatsapp = oui], IF oui = "oui" THEN "statut" ELSE "whatsapp")

choisirStatutAncienParcours(s) ==
  LET souhait == souhaitDuStatut(s)
      r == [affiche EXCEPT !.statut = s, !.rappel = rappelInitialDuStatut(s),
                           !.ambassadeur = IF souhait = Rien THEN @ ELSE souhait]
  IN /\ AuPas("statut") /\ s \in statutsDeLaBranche(affiche) /\ s.parent = Rien
     /\ RepondreEtAller(r, suivantDe("statut", parcours))

choisirStatutRappelGarde(s) ==
  LET souhait == souhaitDuStatut(s)
      r == [affiche EXCEPT !.statut = s, !.ambassadeur = IF souhait = Rien THEN @ ELSE souhait]
  IN /\ AuPas("statut") /\ s \in statutsDeLaBranche(affiche) /\ s.parent = Rien
     /\ RepondreEtAller(r, suivantDe("statut", parcoursDe(r, ecran.code)))

(* A status that is an answer to the question gives that answer. *)
choisirStatut(s) ==
  LET souhait == souhaitDuStatut(s)
      r == [affiche EXCEPT !.statut = s, !.rappel = rappelInitialDuStatut(s),
                           !.ambassadeur = IF souhait = Rien THEN @ ELSE souhait]
  IN /\ AuPas("statut") /\ s \in statutsDeLaBranche(affiche) /\ s.parent = Rien
     /\ RepondreEtAller(r, suivantDe("statut", parcoursDe(r, ecran.code)))

choisirPrecision(s) ==
  LET retenu == IF s = Rien THEN racineRetenue(affiche) ELSE s
      r == [affiche EXCEPT !.statut = retenu, !.rappel = rappelInitialDuStatut(retenu)]
  IN /\ AuPas("precision")
     /\ s \in sousStatutsDe(affiche, racineRetenue(affiche)) \union {Rien}
     /\ RepondreEtAller(r, suivantDe("precision", parcoursDe(r, ecran.code)))

choisirRdvDateGardee(code) ==
  /\ AuPas("rdv")
  /\ EcranSeul(IF code = Rien
               THEN [ecran EXCEPT !.code = Rien, !.at = Rien, !.passe = FALSE,
                                  !.pas = suivantDe("rdv", parcoursDe(affiche, Rien))]
               ELSE [ecran EXCEPT !.code = code, !.pas = "rdvDate"])

(* Non, or a kind of appointment; a date chosen for another kind goes. *)
choisirRdv(code) ==
  LET sans == [ecran EXCEPT !.code = Rien, !.at = Rien, !.passe = FALSE]
      change == [ecran EXCEPT !.at = Rien, !.passe = FALSE]
      avec == IF code = ecran.code THEN ecran ELSE change
  IN /\ AuPas("rdv")
     /\ EcranSeul(IF code = Rien
                  THEN [sans EXCEPT !.pas = suivantDe("rdv", parcoursDe(affiche, Rien))]
                  ELSE [avec EXCEPT !.code = code, !.pas = "rdvDate"])

dater == AuPas("rdvDate") /\ EcranSeul([ecran EXCEPT !.at = ecran.code, !.passe = FALSE])

remplirRvSite(complet) ==
  /\ AuPas("rdvDate") /\ ecran.code \in AvecChamps
  /\ EcranSeul([ecran EXCEPT !.complets = IF complet THEN @ \union {ecran.code}
                                           ELSE @ \ {ecran.code}])

HeureTourne ==
  ouverture # 0 /\ ecran.at # Rien /\ ~ecran.passe /\ EcranSeul([ecran EXCEPT !.passe = TRUE])

fixerRappel(s) ==
  /\ AuPas("echeance") /\ statut(affiche) # Rien /\ s \in {statut(affiche).code, Rien}
  /\ RepondreEtAller([affiche EXCEPT !.rappel = s], "echeance")

suggerer == AuPas("recommande") /\ RepondreEtAller([affiche EXCEPT !.suggestion = TRUE], "recommande")

commenter == AuPas("note") /\ RepondreEtAller([affiche EXCEPT !.commentaire = ~@], "note")

(* complet(): a date gone by is to be chosen again. *)
rdvComplet ==
  \/ ecran.code = Rien
  \/ /\ ecran.at # Rien /\ ~ecran.passe
     /\ ecran.code \in AvecChamps => ecran.code \in ecran.complets

DateRelue ==
  IF ecran.code # Rien /\ ecran.passe THEN [ecran EXCEPT !.at = Rien, !.passe = FALSE] ELSE ecran

suite ==
  CASE ecran.pas = "ecole" -> affiche.ecole = "non"
    [] ecran.pas = "whatsapp" -> affiche.memeWhatsapp = "non"
    [] ecran.pas = "statut" -> statut(affiche) # Rien
    [] OTHER -> ecran.pas \in {"syndicat", "echeance", "rdvDate", "recommande"}

continuer ==
  /\ ouverture # 0 /\ suite
  /\ ecran.pas = "echeance" => affiche.rappel # Rien
  /\ IF ecran.pas = "rdvDate" /\ ~rdvComplet THEN EcranSeul(DateRelue)
     ELSE EcranSeul([ecran EXCEPT !.pas = suivantDe(ecran.pas, parcours)])

passer ==
  /\ ouverture # 0 /\ ecran.pas \in {"syndicat", "recommande"}
  /\ RepondreEtAller([affiche EXCEPT !.suggestion = IF ecran.pas = "recommande" THEN FALSE ELSE @],
              suivantDe(ecran.pas, parcours))

-----------------------------------------------------------------------------
(* The sending: the answers of the moment, under an identifier of its own.      *)

avecRdv == Contains(parcours, "rdvDate")

reponseDe ==
  [statut |-> statut(affiche),
   relation |-> IF ~joignable(affiche) \/ affiche.ambassadeur = Rien THEN Rien
                ELSE IF affiche.ambassadeur = "oui" THEN "AMBASSADEUR" ELSE "REFUS",
   rappel |-> IF dateDemandee(statut(affiche)) THEN affiche.rappel ELSE Rien,
   rdv |-> IF avecRdv THEN ecran.code ELSE Rien,
   at |-> IF avecRdv THEN ecran.at ELSE Rien]

EnvoyerAppel ==
  /\ envois[ouverture].n < EnvoisMax
  /\ envois' = [envois EXCEPT ![ouverture] =
       [n |-> @.n + 1, etape |-> "parti", accepte |-> FALSE, appel |-> reponseDe]]
  /\ UNCHANGED <<varsBrouillon, ecran, tentativesRep>>

enregistrer ==
  /\ AuPas("note") /\ envois[ouverture].etape = "repos"
  /\ IF pasManquant(affiche) # Rien
     THEN /\ pasManquant(affiche) # "note"
          /\ EcranSeul([ecran EXCEPT !.pas = pasManquant(affiche)])
     ELSE IF avecRdv /\ ~rdvComplet THEN EcranSeul([DateRelue EXCEPT !.pas = "rdvDate"])
     ELSE EnvoyerAppel

(* The server refuses a relation that contradicts the one the status poses, and  *)
(* may refuse on rules of its own; it closes the opening of a call it records.     *)
contreditRattachement(a) ==
  a.relation # Rien /\ a.statut.relation # Rien /\ a.relation # a.statut.relation

Servir(o, accepte) ==
  /\ envois[o].etape = "parti"
  /\ envois' = [envois EXCEPT ![o].etape = "servi", ![o].accepte = accepte]
  /\ UNCHANGED <<ouverture, affiche, aEcrire, ecrit, arme, enAttente, puts, pertes, ecran>>

Consigner(o) ==
  /\ Servir(o, TRUE)
  /\ ~contreditRattachement(envois[o].appel)
  /\ tentativesRep' = tentativesRep \union
       {[ouverture |-> o, n |-> envois[o].n, appel |-> envois[o].appel]}
  /\ lignes' = [lignes EXCEPT ![o].fermee = TRUE]

Refuser(o) == Servir(o, FALSE) /\ UNCHANGED <<tentativesRep, lignes>>

Repos(o) == envois' = [envois EXCEPT ![o].etape = "repos", ![o].appel = Rien]

(* onSuccess: whatever screen is open goes. *)
Reussir(o) ==
  /\ envois[o].etape = "servi" /\ envois[o].accepte
  /\ Repos(o) /\ Fermer
  /\ UNCHANGED <<puts, lignes, pertes, tentativesRep>>

Echec(o) ==
  /\ envois[o].etape = "servi" /\ ~envois[o].accepte
  /\ Repos(o) /\ UNCHANGED <<varsBrouillon, ecran, tentativesRep>>

Perdre(o) ==
  /\ envois[o].etape # "repos" /\ pertes < PertesMax /\ pertes' = pertes + 1
  /\ Repos(o)
  /\ UNCHANGED <<ouverture, affiche, aEcrire, ecrit, arme, enAttente, puts, lignes, ecran,
                 tentativesRep>>

-----------------------------------------------------------------------------
Agent ==
  \/ Ouvrir \/ Quitter \/ Reculer
  \/ \E x \in {"JOIGNABLE", "INJOIGNABLE"} : choisirResultat(x)
  \/ \E x \in {"oui", "non"} : choisirEcole(x) \/ choisirAmbassadeur(x) \/ choisirMemeWhatsapp(x)
  \/ choisirSansSuite
  \/ \E s \in StatutsRep : choisirStatut(s)
  \/ \E s \in StatutsRep \union {Rien} : choisirPrecision(s)
  \/ \E c \in TypesRdv \union {Rien} : choisirRdv(c)
  \/ \E complet \in BOOLEAN : remplirRvSite(complet)
  \/ \E c \in Codes \union {Rien} : fixerRappel(c)
  \/ dater \/ HeureTourne \/ suggerer \/ commenter
  \/ continuer \/ passer \/ enregistrer

Reseau ==
  \/ Automatique /\ UNCHANGED <<ecran, envois, tentativesRep>>
  \/ \E o \in Ouvertures : Consigner(o) \/ Refuser(o) \/ Reussir(o) \/ Echec(o) \/ Perdre(o)

NextScript == Agent \/ Reseau

SpecScript == InitScript /\ [][NextScript]_varsScript

(* The step on screen is one of the path its own answers give: off the path,     *)
(* Retour would leave the representative and every choice of the call with it.    *)
PasDansLeParcours == ouverture # 0 => Contains(parcours, ecran.pas)

(* The callback recorded was set for the status recorded, though the agent went   *)
(* back, changed branch or reopened a draft in between; a status that demands     *)
(* one has it.                                                                      *)
RappelDeSonStatut ==
  \A t \in tentativesRep :
    LET a == t.appel IN
      /\ a.rappel \in {a.statut.code, Rien}
      /\ a.rappel # Rien <=> dateDemandee(a.statut)

(* An appointment is recorded for a person who answered, at a date chosen for     *)
(* its own kind.                                                                    *)
RdvDeLaPersonneJointe ==
  \A t \in tentativesRep :
    LET a == t.appel IN
      /\ a.rdv = a.at
      /\ a.rdv # Rien => a.statut.effet \notin {"UNREACHABLE", "WRONG_NUMBER"}

=============================================================================
