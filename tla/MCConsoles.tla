----------------------------- MODULE MCConsoles -----------------------------
(* What an agent fills in, and what is drawn for him: the console of the prospects, the  *)
(* campaigns that fill it, the path that enters a sale and the stock it draws on.  Each    *)
(* is explored on its own, within bounds of its own.                                        *)
EXTENDS Consignation, Campagnes, Ventes, VenteParcours

M(code, effet, parent, joint, rappel, commentaire) ==
  [code |-> code, effet |-> effet, parent |-> parent, joint |-> joint, rappel |-> rappel,
   commentaire |-> commentaire]

MCCatalogue ==
  {M("NRP", "CLOSE_UNREACHABLE", Rien, FALSE, FALSE, FALSE),
   M("AUTRE_NON_JOINT", "CLOSE_UNREACHABLE", Rien, FALSE, FALSE, TRUE),
   M("INTERESSE", "CLOSE_INTERESTED", Rien, TRUE, FALSE, FALSE),
   M("TERRAIN", "CLOSE_INTERESTED", "INTERESSE", TRUE, FALSE, FALSE),
   M("PAS_INTERESSE", "CLOSE_REFUSED", Rien, TRUE, FALSE, FALSE),
   M("CALLBACK", "SCHEDULE_CALLBACK", Rien, TRUE, TRUE, FALSE),
   M("RENDEZ_VOUS", "CLOSE_APPOINTMENT", Rien, TRUE, TRUE, FALSE),
   M("RV_SITE", "CLOSE_APPOINTMENT", "RENDEZ_VOUS", TRUE, TRUE, FALSE)}

ASSUME MCCatalogueAssumption == CatalogueCoherent

MCVierge == [comment |-> FALSE, conversion |-> Rien]

(* "choix": every path of the prospect console up to one sending, on a network     *)
(* that answers, without the draft.                                                   *)
BorneChoix ==
  /\ puts' = {} /\ pertes' = 0 /\ ouverture' \in {0, 1}
  /\ ecran'.misDeCote # "invalide" /\ ~(affiche'.comment /\ ecran'.bantModifie)
  /\ (\E o \in Ouvertures : envois[o].etape # "repos") => (ecran' = ecran \/ ouverture' = 0)
  /\ tentatives # {} => ouverture' = 0

(* "reseau": its draft, the losses, the new tries, a second opening and what the    *)
(* agent does during a sending, on three outcomes.                                    *)
BorneReseau ==
  /\ \A o \in Ouvertures : envois'[o].reponse \in {Rien, "ok", "ferme"}
  /\ ouverture' = OuverturesMax => envois[1].essais > 0 /\ envois'[OuverturesMax].essais < 2
                                   /\ lignes'[OuverturesMax].puts = 0
  /\ ~ecran'.bantModifie /\ ecran'.misDeCote = Rien
  /\ ~affiche'.comment /\ affiche'.conversion \in {Rien, "simple"}
  /\ ecran'.statut \in {m \in Catalogue : m.code \in {"NRP", "CALLBACK"}} \union {Rien}
  /\ ecran'.precision = Rien /\ ecran'.echeance # "passee" /\ ecran'.rvSite = {}

-----------------------------------------------------------------------------
ASSUME MCCampagnesAssumption == CampagnesBienFormees

(* The requests come in the order of their names, the first one is a draw; each is   *)
(* about one fiche.                                                                      *)
BorneCampagnes ==
  /\ \A r, s \in 1..3 : r < s /\ taches'[s].etape # "neuve" => taches'[r].etape # "neuve"
  /\ \A r \in 1..3 : taches'[r].fiches \in {{}, {"f"}, {"g"}}
  /\ taches'[1].etape \in {"neuve", "tire", "finie"}
  /\ \A r \in 1..3 : taches'[r].etape = "tire" => "awa" \in taches'[r].equipe

-----------------------------------------------------------------------------
MCVente(archivee) == [site |-> "A", lots |-> 1, archivee |-> archivee]

MCInitiales == <<MCVente(FALSE), MCVente(TRUE)>>
MCStockInitial == [s \in Sites |-> IF s = "A" THEN 2 ELSE 1]

ASSUME MCVentesAssumption == VentesBienFormees

(* The requests come in the order of their names, the live sale is the one archived, *)
(* and the workbook and the stock change at one site.                                   *)
BorneVentes ==
  /\ requetes'[1].etape = "neuve" => requetes'[2].etape = "neuve"
  /\ \A r \in {1, 2} : requetes'[r].quoi = "archiver" => requetes'[r].id = 1
  /\ classeur'["B"] = 0 /\ stock'["B"] = stock["B"]

-----------------------------------------------------------------------------
Site(superficies, superficie, prix) ==
  [superficies |-> superficies, superficie |-> superficie, prix |-> prix]

(* A credit entered before there were schedules. *)
VenteAncienne ==
  [telephone |-> "lisible", client |-> TRUE, mandataire |-> "vide", site |-> "PLANS",
   superficie |-> "a", canal |-> TRUE, prix |-> 1, lots |-> 1, acompte |-> 0,
   mode |-> "CREDIT", nombre |-> 1, jour |-> FALSE, premier |-> FALSE, date |-> TRUE]

(* A sale of before there were modes of payment, cash since, whatever was paid. *)
VenteNonSoldee ==
  [VenteAncienne EXCEPT !.site = "SIMPLE", !.superficie = "c", !.mode = "COMPTANT", !.nombre = Rien]

MCPanneau == <<VenteAncienne, VenteNonSoldee>>
MCPlans == [PLANS |-> Site([a |-> 1], Rien, 0), SIMPLE |-> Site(<<>>, "c", 1)]

ASSUME MCParcoursAssumption == ParcoursBienForme

(* How a sale departs from the plainest one: one way at a time is explored. *)
Ecarts(d, pas) ==
  Cardinality({i \in 1..6 :
    <<d.mandataire # "vide", d.nombre = 0, d.jour # d.premier, d.lots = 2,
      d.site = "PLANS" /\ d.superficie = "c",
      d.telephone = "illisible" \/ (pas > 2 /\ ~d.client)>>[i]})

(* What changes during a sending, after a loss, or in the second opening, does so on the *)
(* last screens and for sales paid cash.  The second opening starts from a sale just       *)
(* entered, or from the unpaid one, whatever the first one has still on its way.             *)
BorneParcours ==
  LET d == saisie'.draft
      enCours == \E n \in {1, 2} : depots[n].etape # "repos"
  IN /\ Ecarts(d, saisie'.pas) <= 1
     /\ d.site = "SIMPLE" => d.superficie # "a" /\ d.mode = "COMPTANT" /\ d.lots = 1
     /\ enCours /\ d # saisie.draft =>
          saisie.pas \in {2, 8} /\ d.mode = "COMPTANT" /\ Ecarts(d, saisie'.pas) = 0
     /\ oublis' = 1 => saisie'.pas >= 8 /\ d.mode = "COMPTANT"
     /\ fenetre' = 2 =>
          /\ saisie'.vente = 2 \/ (registre # MCPanneau /\ depots[1].etape = "repos")
          /\ oublis = 0 /\ saisie'.vente # 1 /\ saisie'.pas >= 7
          /\ ~(d.mode = "CREDIT" /\ d.lots = 2)

-----------------------------------------------------------------------------
VARIABLE exploration

MCInit ==
  /\ Init /\ InitCampagnes /\ InitVentes /\ InitParcours
  /\ exploration \in {"choix", "reseau", "campagnes", "ventes", "parcours"}

MCNext ==
  /\ \/ /\ exploration \in {"choix", "reseau"} /\ Next
        /\ IF exploration = "choix" THEN BorneChoix ELSE BorneReseau
        /\ UNCHANGED <<varsCampagnes, varsVentes, varsParcours>>
     \/ exploration = "campagnes" /\ NextCampagnes /\ BorneCampagnes
        /\ UNCHANGED <<vars, varsVentes, varsParcours>>
     \/ exploration = "ventes" /\ NextVentes /\ BorneVentes
        /\ UNCHANGED <<vars, varsCampagnes, varsParcours>>
     \/ exploration = "parcours" /\ NextParcours /\ BorneParcours
        /\ UNCHANGED <<vars, varsCampagnes, varsVentes>>
  /\ UNCHANGED exploration

varsMC == <<vars, varsCampagnes, varsVentes, varsParcours, exploration>>

MCSpec == MCInit /\ [][MCNext]_varsMC

MCTypeOK == TypeOK /\ TypeOKCampagnes /\ TypeOKVentes /\ TypeOKParcours
=============================================================================
