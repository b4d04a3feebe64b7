---------------------------- MODULE VenteParcours ----------------------------
(***************************************************************************)
(* The path that enters or corrects a sale: nine screens, each of which checks   *)
(* itself when one goes on, from which one goes back, jumps ahead, or is sent back   *)
(* by the server.  A correction opens on the last screen.  What the server checks     *)
(* again is not quite what the screens ask.                                            *)
(***************************************************************************)
EXTENDS Nul, Naturals, Sequences, FiniteSets

CONSTANTS
  Plans,        \* the sites proposed, with the price of each surface and the defaults
  PrixMax,      \* bound on the price of a lot
  LotsVenteMax, \* bound on the lots of a sale
  Panneau,      \* the sales entered before, by identifier
  FenetresMax,  \* bound on the times the path is opened
  OublisMax     \* bound on the answers lost

VARIABLES
  fenetre,  \* which opening of the path is on screen, 0 when none is
  ouvertes, \* how many there have been
  saisie,   \* its useStates: step, sale corrected, "represente", draft
  depots,   \* per opening, the sale it sends and the answer
  registre, \* "ventes": the rows of the panel
  oublis    \* answers lost so far

varsParcours == <<fenetre, ouvertes, saisie, depots, registre, oublis>>

ECRANS == <<"telephone", "nom", "identite", "site", "canal", "suivi", "lots", "paiement", "recap">>
RECAP == Len(ECRANS)
rang(e) == CHOOSE i \in 1..RECAP : ECRANS[i] = e

Superficies == (UNION {DOMAIN Plans[s].superficies : s \in DOMAIN Plans})
                 \union {Plans[s].superficie : s \in DOMAIN Plans}

(* "nombre", "jour" and "premier" are the schedule of a credit; "mandataire" is who    *)
(* represents the client.                                                                 *)
Drafts ==
  [telephone : {"vide", "illisible", "lisible"}, client : BOOLEAN,
   mandataire : {"vide", "incomplet", "complet"}, site : DOMAIN Plans \union {Rien},
   superficie : Superficies \union {Rien}, canal : BOOLEAN, prix : 0..PrixMax, lots : 1..LotsVenteMax,
   acompte : 0..(PrixMax * LotsVenteMax), mode : {"COMPTANT", "CREDIT"}, nombre : {Rien, 0, 1},
   jour : BOOLEAN, premier : BOOLEAN, date : BOOLEAN]

NOUVEAU == [telephone |-> "vide", client |-> FALSE, mandataire |-> "vide", site |-> Rien,
            superficie |-> Rien, canal |-> FALSE, prix |-> 0, lots |-> 1, acompte |-> 0,
            mode |-> "COMPTANT", nombre |-> Rien, jour |-> FALSE, premier |-> FALSE,
            date |-> FALSE]

Fenetres == 1..FenetresMax
VentesDuParcours == 1..(Cardinality(DOMAIN Panneau) + FenetresMax + OublisMax)

TypeOKParcours ==
  /\ fenetre \in {0} \union Fenetres /\ ouvertes \in {0} \union Fenetres
  /\ saisie \in [pas : 1..RECAP, vente : {Rien} \union VentesDuParcours, represente : BOOLEAN,
                 draft : Drafts]
  /\ depots \in [Fenetres -> [etape : {"repos", "parti", "acceptee", "epuisee", "refusee"},
                              vente : {Rien} \union VentesDuParcours, draft : Drafts]]
  /\ \E ids \in SUBSET VentesDuParcours : registre \in [ids -> Drafts]
  /\ oublis \in 0..OublisMax

Repos == [etape |-> "repos", vente |-> Rien, draft |-> NOUVEAU]
Ferme == [pas |-> 1, vente |-> Rien, represente |-> FALSE, draft |-> NOUVEAU]

InitParcours ==
  /\ fenetre = 0 /\ ouvertes = 0 /\ saisie = Ferme
  /\ depots = [n \in Fenetres |-> Repos]
  /\ registre = Panneau
  /\ oublis = 0

-----------------------------------------------------------------------------
(* What a screen lacks: MANQUE, and what manqueParcours adds to it. *)
PrixTotal(d) == d.prix * d.lots

superficieAChoisir(d) ==
  d.site # Rien /\ DOMAIN Plans[d.site].superficies # {} /\ d.superficie = Rien /\ d.prix = 0

manquePaiement(d) ==
  \/ (d.mode = "COMPTANT" /\ d.acompte # PrixTotal(d))
  \/ (d.mode = "CREDIT" /\ (d.nombre \in {Rien, 0} \/ ~d.jour \/ ~d.premier))

manqueParcours(e, d, represente) ==
  \/ e = "telephone" /\ d.telephone # "lisible"
  \/ e = "nom" /\ ~d.client
  \/ e = "identite" /\ (d.mandataire = "incomplet" \/ (represente /\ d.mandataire = "vide"))
  \/ e = "site" /\ d.site = Rien
  \/ e = "canal" /\ ~d.canal
  \/ e = "lots" /\ (superficieAChoisir(d) \/ d.prix = 0)
  \/ e = "paiement" /\ manquePaiement(d)
  \/ e = "recap" /\ ~d.date

(* Any change of price, lots or mode keeps a sale paid cash paid in full. *)
comptantSolde(d) == IF d.mode = "COMPTANT" THEN [d EXCEPT !.acompte = PrixTotal(d)] ELSE d

(* A site with a price per surface keeps the price of a surface it has too; any other  *)
(* gives its default price, or leaves the price there is.                                *)
avecSite(d, nom) ==
  LET s == Plans[nom]
      retenue == d.superficie \in DOMAIN s.superficies
      change(superficie, prix) ==
        comptantSolde([d EXCEPT !.site = nom, !.superficie = superficie, !.prix = prix])
  IN IF DOMAIN s.superficies = {}
     THEN change(IF d.superficie # Rien THEN d.superficie ELSE s.superficie,
                 IF s.prix > 0 THEN s.prix ELSE d.prix)
     ELSE IF d.site = nom THEN d
     ELSE change(IF retenue THEN d.superficie ELSE Rien,
                 IF retenue THEN s.superficies[d.superficie] ELSE 0)

-----------------------------------------------------------------------------
Sur(e) == fenetre # 0 /\ ECRANS[saisie.pas] = e
Changer(e, d) ==
  /\ Sur(e) /\ saisie' = [saisie EXCEPT !.draft = d]
  /\ UNCHANGED <<fenetre, ouvertes, depots, registre, oublis>>
ChangerEtAller(e, d, cible) ==
  /\ Sur(e) /\ saisie' = [saisie EXCEPT !.draft = d, !.pas = rang(cible)]
  /\ UNCHANGED <<fenetre, ouvertes, depots, registre, oublis>>

(* A correction starts from the sale as it is, paid or not, with a date if it had none. *)
brouillonDe(v) == [registre[v] EXCEPT !.date = TRUE]

(* A new sale starts at the telephone, a correction at the summary. *)
OuvrirParcours(v) ==
  /\ fenetre = 0 /\ ouvertes < FenetresMax
  /\ fenetre' = ouvertes + 1 /\ ouvertes' = ouvertes + 1
  /\ saisie' = IF v = Rien THEN Ferme
               ELSE [pas |-> RECAP, vente |-> v, represente |-> registre[v].mandataire # "vide",
                     draft |-> brouillonDe(v)]
  /\ UNCHANGED <<depots, registre, oublis>>

Fermer ==
  /\ fenetre # 0 /\ fenetre' = 0 /\ saisie' = Ferme
  /\ UNCHANGED <<ouvertes, depots, registre, oublis>>

Retour ==
  /\ fenetre # 0 /\ saisie.pas > 1
  /\ saisie' = [saisie EXCEPT !.pas = @ - 1]
  /\ UNCHANGED <<fenetre, ouvertes, depots, registre, oublis>>

SaisirTelephone(t) == Changer("telephone", [saisie.draft EXCEPT !.telephone = t])

(* A fiche found by its number gives the name too: the screen of the name is skipped. *)
ChoisirFiche ==
  ChangerEtAller("telephone", [saisie.draft EXCEPT !.telephone = "lisible", !.client = TRUE],
                 "identite")

SaisirNom(rempli) == Changer("nom", [saisie.draft EXCEPT !.client = rempli])

(* To answer No empties the representative. *)
Representer(oui) ==
  /\ Sur("identite")
  /\ saisie' = [saisie EXCEPT !.represente = oui, !.draft.mandataire = IF oui THEN @ ELSE "vide"]
  /\ UNCHANGED <<fenetre, ouvertes, depots, registre, oublis>>

SaisirMandataire(m) ==
  saisie.represente /\ Changer("identite", [saisie.draft EXCEPT !.mandataire = m])

ChoisirSite(s) == ChangerEtAller("site", avecSite(saisie.draft, s), "canal")
ChoisirCanal == ChangerEtAller("canal", [saisie.draft EXCEPT !.canal = TRUE], "suivi")

ChoisirSuperficie(s) ==
  /\ saisie.draft.site # Rien /\ s \in DOMAIN Plans[saisie.draft.site].superficies
  /\ Changer("lots", comptantSolde([saisie.draft EXCEPT !.superficie = s,
                                     !.prix = Plans[saisie.draft.site].superficies[s]]))
SaisirLots(n) == Changer("lots", comptantSolde([saisie.draft EXCEPT !.lots = n]))
SaisirPrix(p) == Changer("lots", comptantSolde([saisie.draft EXCEPT !.prix = p]))

(* The full price of a sale paid cash is no advance: credit starts from zero. *)
ChangerMode(mode) ==
  LET d == [saisie.draft EXCEPT !.mode = mode]
  IN Changer("paiement", IF mode = "CREDIT" /\ saisie.draft.mode # "CREDIT"
                         THEN [d EXCEPT !.acompte = 0] ELSE comptantSolde(d))
ChangerMontant(a) ==
  a <= PrixTotal(saisie.draft) /\ Changer("paiement", [saisie.draft EXCEPT !.acompte = a])

(* The schedule shows for a credit only; a day given proposes a first date. *)
Credit == saisie.draft.mode = "CREDIT"
SaisirNombre(n) == Credit /\ Changer("paiement", [saisie.draft EXCEPT !.nombre = n])
ChoisirJour == Credit /\ Changer("paiement", [saisie.draft EXCEPT !.jour = TRUE, !.premier = TRUE])
SaisirPremier(donne) == Credit /\ Changer("paiement", [saisie.draft EXCEPT !.premier = donne])

SaisirDate(donnee) == Changer("recap", [saisie.draft EXCEPT !.date = donnee])
SaisirSuperficie(s) == Changer("recap", [saisie.draft EXCEPT !.superficie = s])

(* On to the next screen; from the last one the sale leaves. *)
ContinuerSaisie ==
  /\ fenetre # 0 /\ depots[fenetre].etape = "repos" /\ saisie.pas # RECAP
  /\ ~manqueParcours(ECRANS[saisie.pas], saisie.draft, saisie.represente)
  /\ saisie' = [saisie EXCEPT !.pas = @ + 1]
  /\ UNCHANGED <<fenetre, ouvertes, depots, registre, oublis>>

EnvoyerSaisie ==
  /\ Sur("recap") /\ depots[fenetre].etape = "repos"
  /\ ~manqueParcours("recap", saisie.draft, saisie.represente)
  /\ saisie.draft.telephone = "lisible"
  /\ depots' = [depots EXCEPT ![fenetre] =
                  [etape |-> "parti", vente |-> saisie.vente, draft |-> saisie.draft]]
  /\ UNCHANGED <<fenetre, ouvertes, saisie, registre, oublis>>

-----------------------------------------------------------------------------
(* A credit entered before there were schedules has neither day nor first date, and   *)
(* may be corrected without them.                                                        *)
echeancierAnterieur(v) ==
  v # Rien /\ registre[v].mode = "CREDIT" /\ ~registre[v].jour

echeancierCredit(d, v) ==
  /\ d.nombre \notin {Rien, 0}
  /\ d.jour = d.premier /\ (d.jour \/ echeancierAnterieur(v))

(* preparer: what the server asks of a sale, but for the stock. *)
Preparable(d, v) ==
  /\ d.client /\ d.telephone # "vide" /\ d.site # Rien /\ d.canal /\ d.date
  /\ d.prix > 0
  /\ d.mandataire # "incomplet"
  /\ d.mode = "CREDIT" => echeancierCredit(d, v)

(* The schema of the request refuses a number of instalments of zero, cash or not. *)
Recevable(d, v) == d.nombre # 0 /\ Preparable(d, v)

(* A sale paid cash keeps no schedule. *)
Ligne(d) ==
  IF d.mode = "CREDIT" THEN d ELSE [d EXCEPT !.nombre = Rien, !.jour = FALSE, !.premier = FALSE]

(* The server takes the sale, whole, as a new row or over the one it corrects. *)
EnregistrerSaisie(n) ==
  LET e == depots[n]
      id == IF e.vente = Rien THEN Cardinality(DOMAIN registre) + 1 ELSE e.vente
  IN /\ e.etape = "parti" /\ Recevable(e.draft, e.vente)
     /\ registre' = [v \in DOMAIN registre \union {id} |->
                       IF v = id THEN Ligne(e.draft) ELSE registre[v]]
     /\ depots' = [depots EXCEPT ![n].etape = "acceptee"]
     /\ UNCHANGED <<fenetre, ouvertes, saisie, oublis>>

(* VENTE_STOCK_EPUISE, as others have sold. *)
Epuiser(n) ==
  /\ depots[n].etape = "parti" /\ Recevable(depots[n].draft, depots[n].vente)
  /\ depots' = [depots EXCEPT ![n].etape = "epuisee"]
  /\ UNCHANGED <<fenetre, ouvertes, saisie, registre, oublis>>

RefuserSaisie(n) ==
  /\ depots[n].etape = "parti" /\ ~Recevable(depots[n].draft, depots[n].vente)
  /\ depots' = [depots EXCEPT ![n].etape = "refusee"]
  /\ UNCHANGED <<fenetre, ouvertes, saisie, registre, oublis>>

(* onSuccess closes the path on screen, whichever opening it is. *)
Reussir(n) ==
  /\ depots[n].etape = "acceptee"
  /\ depots' = [depots EXCEPT ![n] = Repos]
  /\ fenetre' = 0 /\ saisie' = Ferme
  /\ UNCHANGED <<ouvertes, registre, oublis>>

(* A mutant of EchouerSaisie: the agent stays on the summary, wherever the screen was. *)
EchouerAuRecap(n) ==
  /\ depots[n].etape \in {"epuisee", "refusee"}
  /\ depots' = [depots EXCEPT ![n] = Repos]
  /\ saisie' = IF depots[n].etape = "epuisee" /\ fenetre = n
               THEN [saisie EXCEPT !.pas = rang("recap")] ELSE saisie
  /\ UNCHANGED <<fenetre, ouvertes, registre, oublis>>

(* onError: back to the lots when there are too few left, if the path is still open. *)
EchouerSaisie(n) ==
  /\ depots[n].etape \in {"epuisee", "refusee"}
  /\ depots' = [depots EXCEPT ![n] = Repos]
  /\ saisie' = IF depots[n].etape = "epuisee" /\ fenetre = n
               THEN [saisie EXCEPT !.pas = rang("lots")] ELSE saisie
  /\ UNCHANGED <<fenetre, ouvertes, registre, oublis>>

(* The request, or its answer, is lost: an error like another, and a new try is free. *)
Perdre(n) ==
  /\ depots[n].etape \in {"parti", "acceptee", "epuisee", "refusee"} /\ oublis < OublisMax
  /\ oublis' = oublis + 1
  /\ depots' = [depots EXCEPT ![n] = Repos]
  /\ UNCHANGED <<fenetre, ouvertes, saisie, registre>>

Saisir ==
  \/ \E t \in {"vide", "illisible", "lisible"} : SaisirTelephone(t)
  \/ ChoisirFiche
  \/ \E b \in BOOLEAN : SaisirNom(b) \/ Representer(b) \/ SaisirPremier(b) \/ SaisirDate(b)
  \/ \E m \in {"vide", "incomplet", "complet"} : SaisirMandataire(m)
  \/ \E s \in DOMAIN Plans : ChoisirSite(s)
  \/ ChoisirCanal
  \/ \E s \in Superficies : ChoisirSuperficie(s) \/ SaisirSuperficie(s)
  \/ \E n \in 1..LotsVenteMax : SaisirLots(n)
  \/ \E p \in 0..PrixMax : SaisirPrix(p)
  \/ \E mode \in {"COMPTANT", "CREDIT"} : ChangerMode(mode)
  \/ \E a \in 0..(PrixMax * LotsVenteMax) : ChangerMontant(a)
  \/ \E n \in {0, 1} : SaisirNombre(n)
  \/ ChoisirJour

NextParcours ==
  \/ \E v \in DOMAIN registre \union {Rien} : OuvrirParcours(v)
  \/ Fermer \/ Retour \/ Saisir \/ ContinuerSaisie \/ EnvoyerSaisie
  \/ \E n \in Fenetres : EnregistrerSaisie(n) \/ Epuiser(n) \/ RefuserSaisie(n)
                         \/ Reussir(n) \/ EchouerSaisie(n) \/ Perdre(n)

SpecParcours == InitParcours /\ [][NextParcours]_varsParcours

-----------------------------------------------------------------------------
(* What the sites and the bounds are; the proofs assume no more, and nothing of the      *)
(* sales entered before, by earlier versions of the path and of the server.               *)
ParcoursBienForme ==
  /\ PrixMax \in Nat /\ LotsVenteMax \in Nat \ {0} /\ FenetresMax \in Nat /\ OublisMax \in Nat
  /\ \A s \in DOMAIN Plans :
       /\ Plans[s].prix \in 0..PrixMax
       /\ \A a \in DOMAIN Plans[s].superficies : Plans[s].superficies[a] \in 0..PrixMax
  /\ Panneau \in Seq(Drafts)

(* A sale with all it takes but the money: a client, a site, a price, a representative *)
(* in full or none, a credit with its schedule (or as old as before).                     *)
Entiere(d) ==
  /\ d.telephone = "lisible" /\ d.client /\ d.date /\ d.site # Rien /\ d.canal /\ d.prix > 0
  /\ d.mandataire # "incomplet"
  /\ d.mode = "CREDIT" => d.nombre = 1 /\ d.jour = d.premier

Soldee(d) == d.mode = "COMPTANT" => d.acompte = PrixTotal(d)
MemePaiement(d, e) ==
  d.mode = e.mode /\ d.acompte = e.acompte /\ d.prix = e.prix /\ d.lots = e.lots

(* Whatever screens were skipped, left backwards or never shown, by a correction, a   *)
(* fiche recognised or a stock run out, what the path writes is whole.  A sale paid cash  *)
(* is paid in full, which no server checks, unless it is one of before that was not, and *)
(* then nothing of its payment has changed: the path never makes a cash sale unpaid.      *)
VenteComplete ==
  \A v \in DOMAIN registre :
    LET avant == v \in DOMAIN Panneau IN
    \/ avant /\ registre[v] = Panneau[v]
    \/ /\ Entiere(registre[v])
       /\ Soldee(registre[v]) \/ (avant /\ MemePaiement(registre[v], Panneau[v]))
=============================================================================
