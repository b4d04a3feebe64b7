----------------------------- MODULE Campagnes -----------------------------
(***************************************************************************)
(* The campaigns: a fiche is drawn into one, joins it later, or is put there   *)
(* by hand, and each entry goes from one member of the team to another.  A draw  *)
(* and a late entry exclude each other by a lock of the database; what changes    *)
(* the team, or what an agent holds, goes by the lock on the row of the campaign;   *)
(* an assignment goes through several transactions one after the other.               *)
(***************************************************************************)
EXTENDS Nul, Naturals, FiniteSets

CONSTANTS
  Fiches, Membres,
  Nombre,   \* bound on the campaigns launched
  Taches,   \* the requests handled at once, each of them once
  ArretsMax \* bound on the pauses, deletions and calls

VARIABLES
  lots,      \* "lots_export": state and team
  entrees,   \* "lot_export_items"
  titulaire, \* "prospects"."commercialId"
  appelees,  \* the fiches with a "lastCallAt"
  taches,    \* what each request is at
  arrets,    \* pauses, deletions and calls so far
  voulues    \* history: per campaign, the team its members' gestures give

varsCampagnes == <<lots, entrees, titulaire, appelees, taches, arrets, voulues>>

Lots == 1..Nombre

CampagnesBienFormees ==
  /\ Rien \notin Membres /\ IsFiniteSet(Fiches)
  /\ Nombre \in Nat /\ ArretsMax \in Nat

(* An entry, of the n-th time a fiche enters a campaign. *)
Entrees == [lot : Lots, fiche : Fiches, n : Nat, assigne : Membres,
            origine : {"tirage", "relance", "remontee", "main"}]

EtapesTache == {"neuve", "tire", "range", "geste", "ajoute", "liste", "suit", "finie"}

EtatsTache == [etape : EtapesTache, lot : 0..Nombre, fiches : SUBSET Fiches, equipe : SUBSET Membres,
            entrant : Membres \union {Rien}, sortant : Membres \union {Rien},
            reste : SUBSET Lots, relance : BOOLEAN]

TypeOKCampagnes ==
  /\ lots \in [Lots -> [etat : {"absent", "actif", "pause", "supprime"}, equipe : SUBSET Membres]]
  /\ entrees \subseteq Entrees
  /\ titulaire \in [Fiches -> Membres \union {Rien}]
  /\ appelees \subseteq Fiches
  /\ taches \in [Taches -> EtatsTache]
  /\ arrets \in 0..ArretsMax
  /\ voulues \in [Lots -> SUBSET Membres]
  /\ \A l \in Lots : lots[l].etat \in {"actif", "pause"} => lots[l].equipe # {}

Neuve == [etape |-> "neuve", lot |-> 0, fiches |-> {}, equipe |-> {}, entrant |-> Rien,
          sortant |-> Rien, reste |-> {}, relance |-> FALSE]

InitCampagnes ==
  /\ lots = [l \in Lots |-> [etat |-> "absent", equipe |-> {}]]
  /\ entrees = {} /\ titulaire = [f \in Fiches |-> Rien] /\ appelees = {}
  /\ taches = [r \in Taches |-> Neuve]
  /\ arrets = 0 /\ voulues = [l \in Lots |-> {}]

-----------------------------------------------------------------------------
Existe(l) == lots[l].etat \in {"actif", "pause"}

Distribuees == {e.fiche : e \in entrees}

EntreesDe(l, f) == {e \in entrees : e.lot = l /\ e.fiche = f}

Entree(l, f, m, origine) ==
  [lot |-> l, fiche |-> f, n |-> Cardinality(EntreesDe(l, f)) + 1, assigne |-> m,
   origine |-> origine]

(* pg_advisory_xact_lock('lots_export.tirage'), kept to the end of the draw. *)
TirageVerrouille == \E r \in Taches : taches[r].etape = "tire"

(* SELECT ... FOR UPDATE on the campaign; the key of a new entry waits for it too. *)
LotVerrouille(l) == \E r \in Taches : taches[r].etape = "geste" /\ taches[r].lot = l

Suite(r, travail) == taches' = [taches EXCEPT ![r] = travail]

FinirTache(r) == Suite(r, [Neuve EXCEPT !.etape = "finie"])

(* Each entry that p picks goes to the member vers gives it. *)
Deplacer(p(_), vers(_)) ==
  entrees' = {IF p(e) THEN [e EXCEPT !.assigne = vers(e)] ELSE e : e \in entrees}

Recomposer(l, equipe) == lots' = [lots EXCEPT ![l].equipe = equipe]

-----------------------------------------------------------------------------
(* A draw takes fiches nobody called and no campaign ever had; the relaunch of    *)
(* the unreachable takes fiches already called, distributed or not.                 *)
Tirables(relance) == IF relance THEN appelees ELSE Fiches \ (appelees \union Distribuees)

TirerSansVerrou(r, l, equipe, fiches, relance) ==
  /\ taches[r].etape = "neuve"
  /\ lots[l].etat = "absent" /\ \A s \in Taches : taches[s].etape = "tire" => taches[s].lot # l
  /\ fiches \subseteq Tirables(relance)
  /\ Suite(r, [Neuve EXCEPT !.etape = "tire", !.lot = l, !.fiches = fiches, !.equipe = equipe,
                            !.relance = relance])
  /\ UNCHANGED <<lots, entrees, titulaire, appelees, arrets, voulues>>

(* The lock first, then the fiches. *)
Tirer(r, l, equipe, fiches, relance) ==
  /\ taches[r].etape = "neuve" /\ ~TirageVerrouille
  /\ lots[l].etat = "absent"
  /\ fiches \subseteq Tirables(relance)
  /\ Suite(r, [Neuve EXCEPT !.etape = "tire", !.lot = l, !.fiches = fiches, !.equipe = equipe,
                            !.relance = relance])
  /\ UNCHANGED <<lots, entrees, titulaire, appelees, arrets, voulues>>

(* The campaign and its entries, shared out among the team. *)
EcrireCampagne(r) ==
  LET t == taches[r]
      origine == IF t.relance THEN "relance" ELSE "tirage"
  IN /\ t.etape = "tire"
     /\ \E parts \in [t.fiches -> t.equipe] :
          entrees' = entrees \union {Entree(t.lot, f, parts[f], origine) : f \in t.fiches}
     /\ lots' = [lots EXCEPT ![t.lot] = [etat |-> "actif", equipe |-> t.equipe]]
     /\ voulues' = [voulues EXCEPT ![t.lot] = t.equipe]
     /\ FinirTache(r)
     /\ UNCHANGED <<titulaire, appelees, arrets>>

(* rangerFichesRemontees: the fiches the sheet brought after the launch and the  *)
(* team, read without a lock.                                                       *)
RangerLire(r, l, fiches) ==
  /\ taches[r].etape = "neuve" /\ lots[l].etat = "actif"
  /\ fiches \subseteq Tirables(FALSE)
  /\ Suite(r, [Neuve EXCEPT !.etape = "range", !.lot = l, !.fiches = fiches,
                            !.equipe = lots[l].equipe])
  /\ UNCHANGED <<lots, entrees, titulaire, appelees, arrets, voulues>>

ARangerSansRelire(t) == t.fiches

(* RangerFicheRemontee: a fiche distributed meanwhile does not enter. *)
ARanger(t) == t.fiches \ Distribuees

RangerEcrire(r) ==
  LET t == taches[r]
  IN /\ t.etape = "range" /\ ~TirageVerrouille /\ ~LotVerrouille(t.lot)
     /\ IF Existe(t.lot)
        THEN \E parts \in [ARanger(t) -> t.equipe] :
               entrees' = entrees \union
                 {Entree(t.lot, f, parts[f], "remontee") : f \in ARanger(t)}
        ELSE UNCHANGED entrees
     /\ FinirTache(r)
     /\ UNCHANGED <<lots, titulaire, appelees, arrets, voulues>>

-----------------------------------------------------------------------------
(* A gesture on the team: one member joins, perhaps with fiches of the others    *)
(* (what a joining member asks for was not called), or one leaves and gives back     *)
(* what was not called.                                                                *)
GesteEquipeSansVerrou(r, l, entrant, sortant, fiches) ==
  /\ taches[r].etape = "neuve" /\ Existe(l)
  /\ Suite(r, [Neuve EXCEPT !.etape = "geste", !.lot = l, !.fiches = fiches,
                 !.equipe = lots[l].equipe, !.entrant = entrant, !.sortant = sortant])
  /\ UNCHANGED <<lots, entrees, titulaire, appelees, arrets, voulues>>

(* lotRecomposerEquipe reads the team again under the lock of the campaign. *)
GesteEquipe(r, l, entrant, sortant, fiches) ==
  /\ taches[r].etape = "neuve" /\ Existe(l) /\ ~LotVerrouille(l)
  /\ Suite(r, [Neuve EXCEPT !.etape = "geste", !.lot = l, !.fiches = fiches,
                 !.equipe = lots[l].equipe, !.entrant = entrant, !.sortant = sortant])
  /\ UNCHANGED <<lots, entrees, titulaire, appelees, arrets, voulues>>

Apres(equipe, entrant, sortant) == (equipe \ {sortant}) \union ({entrant} \ {Rien})

(* Nothing is written when nobody would be left, or when the fiches asked for do *)
(* not move.                                                                        *)
EcrireGeste(r) ==
  LET t == taches[r]
      equipe == Apres(t.equipe, t.entrant, t.sortant)
      rendue(e) == e.lot = t.lot /\ e.assigne = t.sortant /\ e.fiche \notin appelees
      donnee(e) == e.lot = t.lot /\ e.fiche \in t.fiches /\ e.assigne # t.entrant
  IN /\ t.etape = "geste"
     /\ IF equipe = {} \/ (t.sortant = Rien /\ t.fiches # {} /\ {e \in entrees : donnee(e)} = {})
        THEN UNCHANGED <<lots, entrees, voulues>>
        ELSE /\ Recomposer(t.lot, equipe)
             /\ voulues' = [voulues EXCEPT ![t.lot] = Apres(@, t.entrant, t.sortant)]
             /\ IF t.sortant # Rien
                THEN \E parts \in [Fiches -> equipe] : Deplacer(rendue, LAMBDA e : parts[e.fiche])
                ELSE Deplacer(donnee, LAMBDA e : t.entrant)
     /\ FinirTache(r)
     /\ UNCHANGED <<titulaire, appelees, arrets>>

-----------------------------------------------------------------------------
(* campagneAffecterProspect: the new holder, named or chosen by a campaign; the  *)
(* entry in that campaign; the other campaigns that run, one after the other; the   *)
(* fiche last.  A step that fails leaves those before it done.                       *)
ViserCampagne(r, f, m, l) ==
  /\ taches[r].etape = "neuve"
  /\ l # 0 => lots[l].etat = "actif" /\ m \in lots[l].equipe
  /\ Suite(r, [Neuve EXCEPT !.etape = IF l = 0 THEN "liste" ELSE "ajoute", !.lot = l,
                            !.fiches = {f}, !.entrant = m])
  /\ UNCHANGED <<lots, entrees, titulaire, appelees, arrets, voulues>>

LotsActifsDe(f) == {e.lot : e \in {x \in entrees : x.fiche = f /\ lots[x.lot].etat = "actif"}}

FicheDe(t) == CHOOSE f \in t.fiches : TRUE

AjouterFiche(r) ==
  LET t == taches[r]
      f == FicheDe(t)
  IN /\ t.etape = "ajoute" /\ ~LotVerrouille(t.lot)
     /\ entrees' = IF Existe(t.lot) /\ t.lot \notin LotsActifsDe(f)
                   THEN entrees \union {Entree(t.lot, f, t.entrant, "main")} ELSE entrees
     /\ IF Existe(t.lot) THEN Suite(r, [t EXCEPT !.etape = "liste"]) ELSE FinirTache(r)
     /\ UNCHANGED <<lots, titulaire, appelees, arrets, voulues>>

ListerLots(r) ==
  LET t == taches[r]
  IN /\ t.etape = "liste"
     /\ Suite(r, [t EXCEPT !.etape = "suit", !.reste = LotsActifsDe(FicheDe(t))])
     /\ UNCHANGED <<lots, entrees, titulaire, appelees, arrets, voulues>>

SuivreLaFiche(r, l) ==
  LET t == taches[r]
      autre(e) == e.lot = l /\ e.fiche \in t.fiches /\ e.assigne # t.entrant
      bouge == {e \in entrees : autre(e)} # {}
      equipe == Apres(lots[l].equipe, t.entrant, Rien)
  IN /\ t.etape = "suit" /\ l \in t.reste /\ ~LotVerrouille(l)
     /\ IF Existe(l) THEN Suite(r, [t EXCEPT !.reste = @ \ {l}]) ELSE FinirTache(r)
     /\ IF Existe(l) /\ bouge
        THEN /\ Deplacer(autre, LAMBDA e : t.entrant)
             /\ Recomposer(l, equipe)
             /\ voulues' = [voulues EXCEPT ![l] = Apres(@, t.entrant, Rien)]
        ELSE UNCHANGED <<lots, entrees, voulues>>
     /\ UNCHANGED <<titulaire, appelees, arrets>>

ChangerTitulaire(r) ==
  LET t == taches[r]
  IN /\ t.etape = "suit" /\ t.reste = {}
     /\ titulaire' = [titulaire EXCEPT ![FicheDe(t)] = t.entrant]
     /\ FinirTache(r)
     /\ UNCHANGED <<lots, entrees, appelees, arrets, voulues>>

-----------------------------------------------------------------------------
Geste == arrets < ArretsMax /\ arrets' = arrets + 1

(* Paused, the campaign keeps its entries; taken up again, they come back. *)
Pauser(l) ==
  /\ Geste /\ Existe(l) /\ ~LotVerrouille(l)
  /\ lots' = [lots EXCEPT ![l].etat = IF @ = "actif" THEN "pause" ELSE "actif"]
  /\ UNCHANGED <<entrees, titulaire, appelees, taches, voulues>>

Supprimer(l) ==
  /\ Geste /\ Existe(l) /\ ~LotVerrouille(l)
  /\ lots' = [lots EXCEPT ![l].etat = "supprime"]
  /\ entrees' = {e \in entrees : e.lot # l}
  /\ UNCHANGED <<titulaire, appelees, taches, voulues>>

Appeler(f) ==
  /\ Geste /\ f \notin appelees /\ appelees' = appelees \union {f}
  /\ UNCHANGED <<lots, entrees, titulaire, taches, voulues>>

NextCampagnes ==
  \/ \E r \in Taches :
       \/ \E l \in Lots, fiches \in (SUBSET Fiches) \ {{}} :
            \/ \E equipe \in (SUBSET Membres) \ {{}}, relance \in BOOLEAN :
                 Tirer(r, l, equipe, fiches, relance)
            \/ RangerLire(r, l, fiches)
       \/ \E l \in Lots, m \in Membres :
            \/ \E fiches \in SUBSET Fiches : GesteEquipe(r, l, m, Rien, fiches)
            \/ GesteEquipe(r, l, Rien, m, {})
       \/ \E f \in Fiches, m \in Membres, l \in {0} \union Lots : ViserCampagne(r, f, m, l)
       \/ \E l \in Lots : SuivreLaFiche(r, l)
       \/ EcrireCampagne(r) \/ RangerEcrire(r) \/ EcrireGeste(r)
       \/ AjouterFiche(r) \/ ListerLots(r) \/ ChangerTitulaire(r)
  \/ \E l \in Lots : Pauser(l) \/ Supprimer(l)
  \/ \E f \in Fiches : Appeler(f)

SpecCampagnes == InitCampagnes /\ [][NextCampagnes]_varsCampagnes

(* "une fiche déjà appelée ou déjà distribuée ne se retire pas : deux attributaires *)
(* appelleraient la même personne": two draws at once, or a draw and a late entry    *)
(* read before it, put a fiche in one campaign only.  A relaunch and a hand may add    *)
(* another.                                                                             *)
DistribueeUneFois ==
  \A d, e \in entrees :
    d.fiche = e.fiche /\ {d.origine, e.origine} \subseteq {"tirage", "remontee"} => d = e

(* "deux gestes simultanés sur l'équipe partiraient sinon de la même lecture et le  *)
(* second effacerait le premier": the team is what all the gestures made of it.        *)
EquipeVoulue == \A l \in Lots : lots[l].equipe = voulues[l]

=============================================================================
