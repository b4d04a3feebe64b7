-------------------------- MODULE CampagnesProofs --------------------------
(***************************************************************************)
(* No fiche is drawn twice and no gesture on a team is lost, for any number  *)
(* of fiches, members, campaigns and requests.  Two locks carry the proof:   *)
(* that of the draw, under which a fiche drawn cannot be distributed before  *)
(* it is written, and the row of the campaign, under which a team read is    *)
(* the team one changes.                                                     *)
(***************************************************************************)
EXTENDS Campagnes, FiniteSetTheorems, TLAPS

Tirees == {"tirage", "remontee"}

(* What a request may count on between its steps. *)
TravailSuivi(r) ==
  LET t == taches[r]
  IN /\ t.etape = "tire" => t.lot \in Lots /\ lots[t.lot].etat = "absent" /\ t.equipe # {}
     /\ t.etape = "range" => t.lot \in Lots
     /\ t.etape = "geste" => /\ t.lot \in Lots /\ Existe(t.lot) /\ t.equipe = lots[t.lot].equipe
                             /\ t.sortant = Rien => t.entrant \in Membres
     /\ t.etape = "ajoute" => t.lot \in Lots
     /\ t.etape \in {"ajoute", "liste", "suit"} => t.fiches # {} /\ t.entrant \in Membres

(* The fiches of a draw under way have not been distributed. *)
TirageReserve(r) ==
  taches[r].etape = "tire" /\ ~taches[r].relance =>
    \A e \in entrees : e.origine \in Tirees => e.fiche \notin taches[r].fiches

Verrous ==
  \A r, s \in Taches :
    /\ taches[r].etape = "tire" /\ taches[s].etape = "tire" => r = s
    /\ taches[r].etape = "geste" /\ taches[s].etape = "geste" /\ taches[r].lot = taches[s].lot
         => r = s

Typage == TypeOKCampagnes /\ \A r \in Taches : TravailSuivi(r)

EntreesSuivies ==
  /\ entrees \subseteq Entrees /\ IsFiniteSet(entrees)
  /\ DistribueeUneFois
  /\ \A r \in Taches : TirageReserve(r)

IInv ==
  /\ Typage /\ Verrous /\ EquipeVoulue
  /\ EntreesSuivies

-----------------------------------------------------------------------------
(***************************************************************************)
(* The ways the entries change: some go to another member, some are added,   *)
(* some go with their campaign.                                              *)
(***************************************************************************)
Deplacees ==
  \E g \in [entrees -> Entrees] :
    /\ entrees' = {g[e] : e \in entrees}
    /\ \A e \in entrees : g[e].fiche = e.fiche /\ g[e].origine = e.origine

(* Entries added, one per fiche, none of them drawn if an entry drawn has the fiche. *)
Ajoutees(S) ==
  /\ entrees' = entrees \union S
  /\ S \subseteq Entrees /\ IsFiniteSet(S)
  /\ \A d, e \in S : d.fiche = e.fiche => d = e
  /\ \A d \in S, e \in entrees : d.origine \in Tirees /\ e.origine \in Tirees => d.fiche # e.fiche

(* The draws under way were so before, for the same fiches. *)
TiragesGardes ==
  \A r \in Taches : taches'[r].etape = "tire" => taches'[r] = taches[r]

(* The image of a finite set is finite. *)
LEMMA ImageFinie ==
  ASSUME NEW S, IsFiniteSet(S), NEW T, NEW g \in [S -> T]
  PROVE  IsFiniteSet({g[x] : x \in S})
<1> DEFINE I == {g[x] : x \in S}
<1>1. g \in [S -> I] /\ \A t \in I : \E x \in S : g[x] = t
  OBVIOUS
<1> HIDE DEF I
<1>2. g \in Surjection(S, I)
  BY <1>1 DEF Surjection
<1> QED
  BY <1>2, FS_Surjection DEF I

LEMMA ToutesAtteintes ==
  ASSUME NEW F, IsFiniteSet(F), NEW T, NEW g \in [F -> T], NEW S,
         \A f \in F : g[f] \in S, \A e \in S : \E f \in F : e = g[f]
  PROVE  IsFiniteSet(S)
<1>1. S = {g[f] : f \in F}
  OBVIOUS
<1>2. IsFiniteSet({g[f] : f \in F})
  BY ImageFinie
<1> QED
  BY <1>1, <1>2

LEMMA DeplaceesSuivies ==
  ASSUME EntreesSuivies, Deplacees, TiragesGardes
  PROVE  EntreesSuivies'
<1>1. PICK g \in [entrees -> Entrees] :
        /\ entrees' = {g[e] : e \in entrees}
        /\ \A e \in entrees : g[e].fiche = e.fiche /\ g[e].origine = e.origine
  BY DEF Deplacees
<1>2. entrees' \subseteq Entrees /\ IsFiniteSet(entrees')
  <2>1. IsFiniteSet(entrees)
    BY DEF EntreesSuivies
  <2>2. IsFiniteSet({g[e] : e \in entrees})
    BY <2>1, ImageFinie
  <2> QED
    BY <1>1, <2>2
<1>3. DistribueeUneFois'
  BY <1>1 DEF EntreesSuivies, DistribueeUneFois
<1>4. ASSUME NEW r \in Taches PROVE TirageReserve(r)'
  BY <1>1, <1>4 DEF EntreesSuivies, TirageReserve, TiragesGardes
<1> QED
  BY <1>2, <1>3, <1>4 DEF EntreesSuivies

LEMMA AjouteesSuivies ==
  ASSUME EntreesSuivies, NEW S, Ajoutees(S), TiragesGardes,
         \A r \in Taches : \A e \in S :
           taches'[r].etape = "tire" /\ e.origine \in Tirees => e.fiche \notin taches'[r].fiches
  PROVE  EntreesSuivies'
<1>1. entrees' \subseteq Entrees /\ IsFiniteSet(entrees')
  BY FS_Union DEF EntreesSuivies, Ajoutees
<1>2. DistribueeUneFois'
  BY DEF EntreesSuivies, Ajoutees, DistribueeUneFois, Tirees
<1>3. ASSUME NEW r \in Taches PROVE TirageReserve(r)'
  BY <1>3 DEF EntreesSuivies, Ajoutees, TirageReserve, TiragesGardes
<1> QED
  BY <1>1, <1>2, <1>3 DEF EntreesSuivies

LEMMA RetireesSuivies ==
  ASSUME EntreesSuivies, entrees' \subseteq entrees, TiragesGardes
  PROVE  EntreesSuivies'
<1>1. entrees' \subseteq Entrees /\ IsFiniteSet(entrees')
  BY FS_Subset DEF EntreesSuivies
<1>2. DistribueeUneFois' /\ \A r \in Taches : TirageReserve(r)'
  BY DEF EntreesSuivies, DistribueeUneFois, TirageReserve, TiragesGardes
<1> QED
  BY <1>1, <1>2 DEF EntreesSuivies

(* A new entry is one, whatever the number of those before it. *)
LEMMA EntreeType ==
  ASSUME EntreesSuivies, NEW l \in Lots, NEW f \in Fiches, NEW m \in Membres,
         NEW o \in {"tirage", "relance", "remontee", "main"}
  PROVE  /\ Entree(l, f, m, o) \in Entrees
         /\ Entree(l, f, m, o).fiche = f /\ Entree(l, f, m, o).origine = o
<1>1. IsFiniteSet(EntreesDe(l, f))
  BY FS_Subset DEF EntreesSuivies, EntreesDe
<1>2. Cardinality(EntreesDe(l, f)) + 1 \in Nat
  BY <1>1, FS_CardinalityType
<1> QED
  BY <1>2 DEF Entree, Entrees

(* What is shared out among a team adds one entry per fiche. *)
LEMMA PartageSuivi ==
  ASSUME CampagnesBienFormees, EntreesSuivies, NEW l \in Lots, NEW F \in SUBSET Fiches,
         NEW equipe \in SUBSET Membres, NEW parts \in [F -> equipe],
         NEW o \in {"tirage", "relance", "remontee"},
         NEW S, \A f \in F : Entree(l, f, parts[f], o) \in S,
         \A e \in S : \E f \in F : e = Entree(l, f, parts[f], o),
         entrees' = entrees \union S,
         o # "relance" => \A e \in entrees : e.origine \in Tirees => e.fiche \notin F
  PROVE  Ajoutees(S)
<1>1. \A f \in F : /\ Entree(l, f, parts[f], o) \in Entrees
                   /\ Entree(l, f, parts[f], o).fiche = f /\ Entree(l, f, parts[f], o).origine = o
  BY EntreeType
<1>2. IsFiniteSet(S)
  <2>1. IsFiniteSet(F)
    BY FS_Subset DEF CampagnesBienFormees
  <2>2. \E g \in [F -> Entrees] : \A f \in F : g[f] = Entree(l, f, parts[f], o)
    <3> DEFINE h == [f \in F |-> Entree(l, f, parts[f], o)]
    <3>1. h \in [F -> Entrees] /\ \A f \in F : h[f] = Entree(l, f, parts[f], o)
      BY <1>1
    <3> HIDE DEF h
    <3> QED
      BY <3>1
  <2>3. PICK g \in [F -> Entrees] : \A f \in F : g[f] = Entree(l, f, parts[f], o)
    BY <2>2
  <2>4. (\A f \in F : g[f] \in S) /\ \A e \in S : \E f \in F : e = g[f]
    BY <2>3
  <2> QED
    BY <2>1, <2>4, ToutesAtteintes
<1> QED
  BY <1>1, <1>2 DEF Ajoutees, Tirees

-----------------------------------------------------------------------------
(***************************************************************************)
(* The requests: a request goes on or ends, and the others are where they    *)
(* were.                                                                     *)
(***************************************************************************)
LEMMA SuiteLesAutres ==
  ASSUME TypeOKCampagnes, NEW r \in Taches, NEW travail \in EtatsTache, Suite(r, travail)
  PROVE  /\ taches' \in [Taches -> EtatsTache] /\ taches'[r] = travail
         /\ \A s \in Taches : s # r => taches'[s] = taches[s]
BY DEF TypeOKCampagnes, Suite

LEMMA Initiale == ASSUME CampagnesBienFormees  PROVE Neuve \in EtatsTache
<1>1. 0 \in 0..Nombre /\ "neuve" \in EtapesTache
  BY DEF CampagnesBienFormees, EtapesTache
<1> QED
  BY <1>1 DEF Neuve, EtatsTache

LEMMA FinirLesAutres ==
  ASSUME CampagnesBienFormees, TypeOKCampagnes, NEW r \in Taches, FinirTache(r)
  PROVE  /\ taches' \in [Taches -> EtatsTache] /\ taches'[r].etape = "finie"
         /\ \A s \in Taches : s # r => taches'[s] = taches[s]
<1>1. /\ [Neuve EXCEPT !.etape = "finie"] \in EtatsTache
      /\ [Neuve EXCEPT !.etape = "finie"].etape = "finie"
  BY Initiale DEF EtatsTache, EtapesTache
<1> QED
  BY <1>1, SuiteLesAutres DEF FinirTache

(* A request goes on, and whatever it does to the campaigns, it is to none another     *)
(* holds.                                                                              *)
LEMMA UneAvance ==
  ASSUME Typage, Verrous, NEW r \in Taches, TypeOKCampagnes', TravailSuivi(r)',
         \A s \in Taches : s # r => taches'[s] = taches[s],
         \A s \in Taches : s # r /\ taches[s].etape \in {"tire", "geste"} =>
           lots'[taches[s].lot] = lots[taches[s].lot],
         taches'[r].etape = "tire" => \A s \in Taches : s # r => taches[s].etape # "tire",
         taches'[r].etape = "geste" => \A s \in Taches :
           s # r => ~(taches[s].etape = "geste" /\ taches[s].lot = taches'[r].lot)
  PROVE  Typage' /\ Verrous'
<1>1. ASSUME NEW s \in Taches PROVE TravailSuivi(s)'
  <2>1. CASE s = r
    BY <2>1
  <2>2. CASE s # r
    <3>1. TravailSuivi(s) /\ taches'[s] = taches[s]
      BY <2>2 DEF Typage
    <3>2. taches[s].etape \in {"tire", "geste"} => lots'[taches[s].lot] = lots[taches[s].lot]
      BY <2>2
    <3> QED
      BY <3>1, <3>2 DEF TravailSuivi, Existe
  <2> QED
    BY <2>1, <2>2
<1>2. Verrous'
  BY DEF Verrous
<1> QED
  BY <1>1, <1>2 DEF Typage

LEMMA UnFinit ==
  ASSUME CampagnesBienFormees, Typage, Verrous, NEW r \in Taches, FinirTache(r),
         taches' \in [Taches -> EtatsTache] => TypeOKCampagnes',
         \A s \in Taches : s # r /\ taches[s].etape \in {"tire", "geste"} =>
           lots'[taches[s].lot] = lots[taches[s].lot]
  PROVE  Typage' /\ Verrous' /\ TiragesGardes
<1>1. /\ taches' \in [Taches -> EtatsTache] /\ taches'[r].etape = "finie"
      /\ \A s \in Taches : s # r => taches'[s] = taches[s]
  BY FinirLesAutres DEF Typage
<1>2. TravailSuivi(r)'
  BY <1>1 DEF TravailSuivi
<1>3. TiragesGardes
  BY <1>1 DEF TiragesGardes
<1> QED
  BY <1>1, <1>2, <1>3, UneAvance

(* Nobody else holds a campaign one holds, nor one that is free and exists. *)
LEMMA LotSeul ==
  ASSUME Typage, Verrous, NEW r \in Taches, NEW l \in Lots, Existe(l),
         ~LotVerrouille(l) \/ (taches[r].etape = "geste" /\ taches[r].lot = l)
  PROVE  \A s \in Taches : s # r /\ taches[s].etape \in {"tire", "geste"} => taches[s].lot # l
<1> SUFFICES ASSUME NEW s \in Taches, s # r, taches[s].etape \in {"tire", "geste"}, taches[s].lot = l
             PROVE  FALSE
  OBVIOUS
<1>1. TravailSuivi(s)
  BY DEF Typage
<1> QED
  BY <1>1 DEF TravailSuivi, Existe, Verrous, LotVerrouille

-----------------------------------------------------------------------------
(***************************************************************************)
(* The draw and the late entries.                                            *)
(***************************************************************************)
LEMMA TirerInv ==
  ASSUME CampagnesBienFormees, IInv, NEW r \in Taches, NEW l \in Lots,
         NEW equipe \in SUBSET Membres, equipe # {}, NEW fiches \in SUBSET Fiches,
         NEW relance \in BOOLEAN, Tirer(r, l, equipe, fiches, relance)
  PROVE  IInv'
<1> DEFINE t == [Neuve EXCEPT !.etape = "tire", !.lot = l, !.fiches = fiches, !.equipe = equipe,
                              !.relance = relance]
<1>0. TypeOKCampagnes /\ Typage /\ Verrous /\ EquipeVoulue /\ EntreesSuivies
  BY DEF IInv, Typage
<1>1. t \in EtatsTache /\ t.etape = "tire" /\ t.lot = l /\ t.fiches = fiches /\ t.equipe = equipe
      /\ t.relance = relance
  <2>1. l \in 0..Nombre
    BY DEF Lots, CampagnesBienFormees
  <2> QED
    BY <2>1, Initiale DEF EtatsTache, EtapesTache
<1> HIDE DEF t
<1>2. /\ taches' \in [Taches -> EtatsTache] /\ taches'[r] = t
      /\ \A s \in Taches : s # r => taches'[s] = taches[s]
  BY <1>0, <1>1, SuiteLesAutres DEF Tirer, t
<1>3. /\ UNCHANGED <<lots, entrees, titulaire, appelees, arrets, voulues>>
      /\ ~TirageVerrouille /\ lots[l].etat = "absent" /\ fiches \subseteq Tirables(relance)
  BY DEF Tirer
<1>4. TypeOKCampagnes'
  BY <1>0, <1>2, <1>3 DEF TypeOKCampagnes
<1>5. TravailSuivi(r)'
  BY <1>1, <1>2, <1>3 DEF TravailSuivi
<1>6. Typage' /\ Verrous'
  BY <1>0, <1>1, <1>2, <1>3, <1>4, <1>5, UneAvance DEF TirageVerrouille
<1>7. EntreesSuivies'
  <2>1. ASSUME NEW s \in Taches PROVE TirageReserve(s)'
    <3>1. CASE s = r
      BY <1>1, <1>2, <1>3, <3>1 DEF TirageReserve, Tirables, Distribuees
    <3>2. CASE s # r
      BY <1>0, <1>2, <1>3, <3>2 DEF EntreesSuivies, TirageReserve
    <3> QED
      BY <3>1, <3>2
  <2> QED
    BY <1>0, <1>3, <2>1 DEF EntreesSuivies, DistribueeUneFois
<1>8. EquipeVoulue'
  BY <1>0, <1>3 DEF EquipeVoulue
<1> QED
  BY <1>6, <1>7, <1>8 DEF IInv

LEMMA EcrireCampagneInv ==
  ASSUME CampagnesBienFormees, IInv, NEW r \in Taches, EcrireCampagne(r)
  PROVE  IInv'
<1> DEFINE t == taches[r]
           o == IF t.relance THEN "relance" ELSE "tirage"
<1>0. /\ TypeOKCampagnes /\ Typage /\ Verrous /\ EquipeVoulue /\ EntreesSuivies
      /\ TravailSuivi(r) /\ TirageReserve(r) /\ t \in EtatsTache
  BY DEF IInv, Typage, TypeOKCampagnes, EntreesSuivies
<1>1. /\ t.etape = "tire" /\ FinirTache(r)
      /\ lots' = [lots EXCEPT ![t.lot] = [etat |-> "actif", equipe |-> t.equipe]]
      /\ voulues' = [voulues EXCEPT ![t.lot] = t.equipe]
      /\ UNCHANGED <<titulaire, appelees, arrets>>
  BY DEF EcrireCampagne
<1>2. PICK parts \in [t.fiches -> t.equipe] :
        entrees' = entrees \union {Entree(t.lot, f, parts[f], o) : f \in t.fiches}
  BY DEF EcrireCampagne
<1>3. /\ t.lot \in Lots /\ t.fiches \in SUBSET Fiches /\ t.equipe \in SUBSET Membres /\ t.equipe # {}
      /\ lots[t.lot].etat = "absent" /\ o \in {"tirage", "relance", "remontee"}
  BY <1>0, <1>1 DEF TravailSuivi, EtatsTache
<1>4. /\ lots'[t.lot] = [etat |-> "actif", equipe |-> t.equipe]
      /\ \A l \in Lots : l # t.lot => lots'[l] = lots[l]
      /\ voulues'[t.lot] = t.equipe /\ \A l \in Lots : l # t.lot => voulues'[l] = voulues[l]
  BY <1>0, <1>1, <1>3 DEF TypeOKCampagnes
<1>5. \A s \in Taches : s # r => taches[s].etape # "tire"
  BY <1>0, <1>1 DEF Verrous
<1>6. \A s \in Taches : s # r /\ taches[s].etape \in {"tire", "geste"} =>
        lots'[taches[s].lot] = lots[taches[s].lot]
  <2> SUFFICES ASSUME NEW s \in Taches, s # r, taches[s].etape = "geste"
               PROVE  lots'[taches[s].lot] = lots[taches[s].lot]
    BY <1>5
  <2>1. taches[s].lot \in Lots /\ Existe(taches[s].lot)
    BY <1>0 DEF Typage, TravailSuivi
  <2> QED
    BY <1>3, <1>4, <2>1 DEF Existe
<1>7. Ajoutees({Entree(t.lot, f, parts[f], o) : f \in t.fiches})
  <2>1. o # "relance" => \A e \in entrees : e.origine \in Tirees => e.fiche \notin t.fiches
    BY <1>0, <1>1 DEF TirageReserve
  <2>2. PICK l, F, equipe, origine, S :
          /\ l = t.lot /\ F = t.fiches /\ equipe = t.equipe /\ origine = o
          /\ S = {Entree(t.lot, f, parts[f], o) : f \in t.fiches}
    OBVIOUS
  <2>3. entrees' = entrees \union S /\ EntreesSuivies
    BY <1>0, <1>2, <2>2
  <2>4. /\ l \in Lots /\ F \in SUBSET Fiches /\ equipe \in SUBSET Membres
        /\ origine \in {"tirage", "relance", "remontee"} /\ parts \in [F -> equipe]
    BY <1>3, <2>2
  <2>5. /\ \A f \in F : Entree(l, f, parts[f], origine) \in S
        /\ \A e \in S : \E f \in F : e = Entree(l, f, parts[f], origine)
    BY <2>2
  <2>6. origine # "relance" => \A e \in entrees : e.origine \in Tirees => e.fiche \notin F
    BY <2>1, <2>2
  <2>7. Ajoutees(S)
    BY <2>3, <2>4, <2>5, <2>6, PartageSuivi
  <2> QED
    BY <2>2, <2>7
<1>8. taches' \in [Taches -> EtatsTache] => TypeOKCampagnes'
  <2>1. lots' \in [Lots -> [etat : {"absent", "actif", "pause", "supprime"}, equipe : SUBSET Membres]]
        /\ voulues' \in [Lots -> SUBSET Membres]
    BY <1>0, <1>1, <1>3 DEF TypeOKCampagnes
  <2>2. entrees' \subseteq Entrees
    BY <1>0, <1>7 DEF Ajoutees, EntreesSuivies
  <2>3. \A l \in Lots : lots'[l].etat \in {"actif", "pause"} => lots'[l].equipe # {}
    BY <1>0, <1>3, <1>4 DEF TypeOKCampagnes
  <2> QED
    BY <1>0, <1>1, <2>1, <2>2, <2>3 DEF TypeOKCampagnes
<1>9. Typage' /\ Verrous' /\ TiragesGardes
  BY <1>0, <1>1, <1>6, <1>8, UnFinit
<1>10. \A s \in Taches : taches'[s].etape # "tire"
  BY <1>0, <1>1, <1>5, FinirLesAutres
<1>11. EntreesSuivies'
  BY <1>0, <1>7, <1>9, <1>10, AjouteesSuivies
<1>12. EquipeVoulue'
  BY <1>0, <1>3, <1>4 DEF EquipeVoulue
<1> QED
  BY <1>9, <1>11, <1>12 DEF IInv

LEMMA RangerLireInv ==
  ASSUME CampagnesBienFormees, IInv, NEW r \in Taches, NEW l \in Lots, NEW fiches \in SUBSET Fiches,
         RangerLire(r, l, fiches)
  PROVE  IInv'
<1> DEFINE t == [Neuve EXCEPT !.etape = "range", !.lot = l, !.fiches = fiches, !.equipe = lots[l].equipe]
<1>0. TypeOKCampagnes /\ Typage /\ Verrous /\ EquipeVoulue /\ EntreesSuivies
  BY DEF IInv, Typage
<1>1. t \in EtatsTache /\ t.etape = "range" /\ t.lot = l
  <2>1. l \in 0..Nombre /\ "range" \in EtapesTache /\ lots[l].equipe \in SUBSET Membres
    BY <1>0 DEF Lots, EtapesTache, TypeOKCampagnes, CampagnesBienFormees
  <2> QED
    BY <2>1, Initiale DEF EtatsTache, EtapesTache
<1> HIDE DEF t
<1>2. /\ taches' \in [Taches -> EtatsTache] /\ taches'[r] = t
      /\ \A s \in Taches : s # r => taches'[s] = taches[s]
  BY <1>0, <1>1, SuiteLesAutres DEF RangerLire, t
<1>3. UNCHANGED <<lots, entrees, titulaire, appelees, arrets, voulues>>
  BY DEF RangerLire
<1>4. TypeOKCampagnes' /\ TravailSuivi(r)' /\ TiragesGardes
  BY <1>0, <1>1, <1>2, <1>3 DEF TypeOKCampagnes, TravailSuivi, TiragesGardes
<1>5. Typage' /\ Verrous'
  BY <1>0, <1>1, <1>2, <1>3, <1>4, UneAvance
<1> QED
  BY <1>0, <1>3, <1>4, <1>5, RetireesSuivies DEF IInv, EquipeVoulue

LEMMA RangerEcrireInv ==
  ASSUME CampagnesBienFormees, IInv, NEW r \in Taches, RangerEcrire(r)
  PROVE  IInv'
<1> DEFINE t == taches[r]
<1>0. /\ TypeOKCampagnes /\ Typage /\ Verrous /\ EquipeVoulue /\ EntreesSuivies
      /\ TravailSuivi(r) /\ t \in EtatsTache
  BY DEF IInv, Typage, TypeOKCampagnes
<1>1. /\ t.etape = "range" /\ ~TirageVerrouille /\ FinirTache(r)
      /\ UNCHANGED <<lots, titulaire, appelees, arrets, voulues>>
  BY DEF RangerEcrire
<1>2. t.lot \in Lots /\ ARanger(t) \in SUBSET Fiches /\ t.equipe \in SUBSET Membres
  BY <1>0, <1>1 DEF TravailSuivi, EtatsTache, ARanger
<1>3. UNCHANGED entrees \/ \E S : Ajoutees(S)
  <2>1. CASE Existe(t.lot)
    <3>1. PICK parts \in [ARanger(t) -> t.equipe] :
            entrees' = entrees \union {Entree(t.lot, f, parts[f], "remontee") : f \in ARanger(t)}
      BY <2>1 DEF RangerEcrire
    <3>2. \A e \in entrees : e.fiche \notin ARanger(t)
      BY DEF ARanger, Distribuees
    <3>3. PICK S : S = {Entree(t.lot, f, parts[f], "remontee") : f \in ARanger(t)}
      OBVIOUS
    <3>4. entrees' = entrees \union S
      BY <3>1, <3>3
    <3>a. /\ \A f \in ARanger(t) : Entree(t.lot, f, parts[f], "remontee") \in S
          /\ \A e \in S : \E f \in ARanger(t) : e = Entree(t.lot, f, parts[f], "remontee")
      BY <3>3
    <3> HIDE DEF t
    <3>5. Ajoutees(S)
      BY <1>0, <1>2, <3>2, <3>a, <3>4, PartageSuivi
    <3> QED
      BY <3>5
  <2>2. CASE ~Existe(t.lot)
    BY <2>2 DEF RangerEcrire
  <2> QED
    BY <2>1, <2>2
<1>4. entrees' \subseteq Entrees
  BY <1>0, <1>3 DEF Ajoutees, EntreesSuivies
<1>5. taches' \in [Taches -> EtatsTache] => TypeOKCampagnes'
  BY <1>0, <1>1, <1>4 DEF TypeOKCampagnes
<1>6. Typage' /\ Verrous' /\ TiragesGardes
  BY <1>0, <1>1, <1>5, UnFinit
<1>7. \A s \in Taches : taches'[s].etape # "tire"
  BY <1>0, <1>1, FinirLesAutres DEF TirageVerrouille
<1>8. EntreesSuivies'
  BY <1>0, <1>3, <1>6, <1>7, AjouteesSuivies, RetireesSuivies
<1> QED
  BY <1>0, <1>1, <1>6, <1>8 DEF IInv, EquipeVoulue

-----------------------------------------------------------------------------
(***************************************************************************)
(* The team.                                                                 *)
(***************************************************************************)
LEMMA GesteEquipeInv ==
  ASSUME CampagnesBienFormees, IInv, NEW r \in Taches, NEW l \in Lots,
         NEW entrant \in Membres \union {Rien}, NEW sortant \in Membres \union {Rien},
         sortant = Rien => entrant \in Membres,
         NEW fiches \in SUBSET Fiches, GesteEquipe(r, l, entrant, sortant, fiches)
  PROVE  IInv'
<1> DEFINE t == [Neuve EXCEPT !.etape = "geste", !.lot = l, !.fiches = fiches,
                   !.equipe = lots[l].equipe, !.entrant = entrant, !.sortant = sortant]
<1>0. TypeOKCampagnes /\ Typage /\ Verrous /\ EquipeVoulue /\ EntreesSuivies
  BY DEF IInv, Typage
<1>1. /\ t \in EtatsTache /\ t.etape = "geste" /\ t.lot = l /\ t.equipe = lots[l].equipe
      /\ t.entrant = entrant /\ t.sortant = sortant
  <2>1. l \in 0..Nombre /\ lots[l].equipe \in SUBSET Membres
    BY <1>0 DEF Lots, TypeOKCampagnes, CampagnesBienFormees
  <2> QED
    BY <2>1, Initiale DEF EtatsTache, EtapesTache
<1> HIDE DEF t
<1>2. /\ taches' \in [Taches -> EtatsTache] /\ taches'[r] = t
      /\ \A s \in Taches : s # r => taches'[s] = taches[s]
  BY <1>0, <1>1, SuiteLesAutres DEF GesteEquipe, t
<1>3. UNCHANGED <<lots, entrees, titulaire, appelees, arrets, voulues>> /\ Existe(l) /\ ~LotVerrouille(l)
  BY DEF GesteEquipe
<1>4. TypeOKCampagnes' /\ TiragesGardes
  BY <1>0, <1>1, <1>2, <1>3 DEF TypeOKCampagnes, TiragesGardes
<1>5. TravailSuivi(r)'
  BY <1>1, <1>2, <1>3 DEF TravailSuivi, Existe
<1>6. Typage' /\ Verrous'
  BY <1>0, <1>1, <1>2, <1>3, <1>4, <1>5, UneAvance DEF LotVerrouille
<1> QED
  BY <1>0, <1>3, <1>4, <1>6, RetireesSuivies DEF IInv, EquipeVoulue

(* Moved entries keep what the invariants look at. *)
LEMMA DeplacerSuivi ==
  ASSUME EntreesSuivies, NEW P \in SUBSET entrees, NEW vers \in [entrees -> Membres],
         entrees' = {IF e \in P THEN [e EXCEPT !.assigne = vers[e]] ELSE e : e \in entrees}
  PROVE  Deplacees
<1> DEFINE g == [e \in entrees |-> IF e \in P THEN [e EXCEPT !.assigne = vers[e]] ELSE e]
<1>1. ASSUME NEW e \in entrees
      PROVE  g[e] \in Entrees /\ g[e].fiche = e.fiche /\ g[e].origine = e.origine
  BY DEF EntreesSuivies, Entrees
<1>2. g \in [entrees -> Entrees] /\ entrees' = {g[e] : e \in entrees}
  BY <1>1
<1> QED
  BY <1>1, <1>2 DEF Deplacees

LEMMA ApresType ==
  ASSUME NEW equipe \in SUBSET Membres, NEW entrant \in Membres \union {Rien}, NEW sortant
  PROVE  Apres(equipe, entrant, sortant) \in SUBSET Membres
BY DEF Apres

LEMMA EcrireGesteInv ==
  ASSUME CampagnesBienFormees, IInv, NEW r \in Taches, EcrireGeste(r)
  PROVE  IInv'
<1> DEFINE t == taches[r]
           equipe == Apres(t.equipe, t.entrant, t.sortant)
<1>0. /\ TypeOKCampagnes /\ Typage /\ Verrous /\ EquipeVoulue /\ EntreesSuivies
      /\ TravailSuivi(r) /\ t \in EtatsTache
  BY DEF IInv, Typage, TypeOKCampagnes
<1>1. t.etape = "geste" /\ FinirTache(r) /\ UNCHANGED <<titulaire, appelees, arrets>>
  BY DEF EcrireGeste
<1>2. /\ t.lot \in Lots /\ Existe(t.lot) /\ t.equipe = lots[t.lot].equipe
      /\ t.sortant = Rien => t.entrant \in Membres
      /\ t.equipe \in SUBSET Membres /\ t.entrant \in Membres \union {Rien} /\ equipe \in SUBSET Membres
  BY <1>0, <1>1, ApresType DEF TravailSuivi, EtatsTache
<1>3. \/ UNCHANGED <<lots, entrees, voulues>>
      \/ /\ equipe # {} /\ Recomposer(t.lot, equipe) /\ Deplacees
         /\ voulues' = [voulues EXCEPT ![t.lot] = Apres(voulues[t.lot], t.entrant, t.sortant)]
  <2>1. CASE equipe = {}
    BY <2>1 DEF EcrireGeste, Deplacer
  <2>2. CASE equipe # {} /\ t.sortant # Rien
    <3>1. /\ Recomposer(t.lot, equipe)
          /\ voulues' = [voulues EXCEPT ![t.lot] = Apres(voulues[t.lot], t.entrant, t.sortant)]
      BY <2>2 DEF EcrireGeste, Deplacer
    <3>2. PICK parts \in [Fiches -> equipe] :
            entrees' = {IF e.lot = t.lot /\ e.assigne = t.sortant /\ e.fiche \notin appelees
                        THEN [e EXCEPT !.assigne = parts[e.fiche]] ELSE e : e \in entrees}
      BY <2>2 DEF EcrireGeste, Deplacer
    <3> DEFINE P == {e \in entrees : e.lot = t.lot /\ e.assigne = t.sortant /\ e.fiche \notin appelees}
               vers == [e \in entrees |-> parts[e.fiche]]
    <3>3. vers \in [entrees -> Membres] /\ P \in SUBSET entrees
      BY <1>0, <1>2 DEF EntreesSuivies, Entrees
    <3>4. entrees' = {IF e \in P THEN [e EXCEPT !.assigne = vers[e]] ELSE e : e \in entrees}
      BY <3>2
    <3> HIDE DEF P, vers
    <3> QED
      BY <1>0, <2>2, <3>1, <3>3, <3>4, DeplacerSuivi
  <2>3. CASE equipe # {} /\ t.sortant = Rien
    <3> DEFINE P == {e \in entrees : e.lot = t.lot /\ e.fiche \in t.fiches /\ e.assigne # t.entrant}
               vers == [e \in entrees |-> t.entrant]
    <3>1. CASE t.fiches # {} /\ P = {}
      BY <2>3, <3>1 DEF EcrireGeste
    <3>2. CASE ~(t.fiches # {} /\ P = {})
      <4>1. /\ Recomposer(t.lot, equipe)
            /\ voulues' = [voulues EXCEPT ![t.lot] = Apres(voulues[t.lot], t.entrant, t.sortant)]
            /\ entrees' = {IF e.lot = t.lot /\ e.fiche \in t.fiches /\ e.assigne # t.entrant
                           THEN [e EXCEPT !.assigne = t.entrant] ELSE e : e \in entrees}
        BY <2>3, <3>2 DEF EcrireGeste, Deplacer
      <4>2. vers \in [entrees -> Membres] /\ P \in SUBSET entrees
        BY <1>2, <2>3
      <4>3. entrees' = {IF e \in P THEN [e EXCEPT !.assigne = vers[e]] ELSE e : e \in entrees}
        BY <4>1
      <4> HIDE DEF P, vers
      <4> QED
        BY <1>0, <2>3, <4>1, <4>2, <4>3, DeplacerSuivi
    <3> QED
      BY <3>1, <3>2
  <2> QED
    BY <2>1, <2>2, <2>3
<1> HIDE DEF equipe
<1>4. \A s \in Taches : s # r /\ taches[s].etape \in {"tire", "geste"} => taches[s].lot # t.lot
  BY <1>0, <1>1, <1>2, LotSeul
<1>5. /\ lots' \in [Lots -> [etat : {"absent", "actif", "pause", "supprime"}, equipe : SUBSET Membres]]
      /\ \A l \in Lots : l # t.lot => lots'[l] = lots[l]
      /\ \A l \in Lots : lots'[l].etat \in {"actif", "pause"} => lots'[l].equipe # {}
      /\ voulues' \in [Lots -> SUBSET Membres] /\ \A l \in Lots : lots'[l].equipe = voulues'[l]
  <2>1. CASE UNCHANGED <<lots, entrees, voulues>>
    BY <1>0, <2>1 DEF TypeOKCampagnes, EquipeVoulue
  <2>2. CASE /\ equipe # {} /\ Recomposer(t.lot, equipe)
             /\ voulues' = [voulues EXCEPT ![t.lot] = Apres(voulues[t.lot], t.entrant, t.sortant)]
    <3>1. lots' = [lots EXCEPT ![t.lot].equipe = equipe]
      BY <2>2 DEF Recomposer
    <3>2. Apres(voulues[t.lot], t.entrant, t.sortant) = equipe
      BY <1>0, <1>2 DEF EquipeVoulue, equipe
    <3>3. lots'[t.lot].equipe = equipe /\ \A l \in Lots : l # t.lot => lots'[l] = lots[l]
      BY <1>0, <1>2, <3>1 DEF TypeOKCampagnes
    <3>4. voulues'[t.lot] = equipe /\ \A l \in Lots : l # t.lot => voulues'[l] = voulues[l]
      BY <1>0, <1>2, <2>2, <3>2 DEF TypeOKCampagnes
    <3>5. /\ lots' \in [Lots -> [etat : {"absent", "actif", "pause", "supprime"}, equipe : SUBSET Membres]]
          /\ voulues' \in [Lots -> SUBSET Membres]
      BY <1>0, <1>2, <2>2, <3>1, <3>2 DEF TypeOKCampagnes
    <3>6. \A l \in Lots : lots'[l].etat \in {"actif", "pause"} => lots'[l].equipe # {}
      BY <1>0, <2>2, <3>3 DEF TypeOKCampagnes
    <3> QED
      BY <1>0, <3>3, <3>4, <3>5, <3>6 DEF EquipeVoulue
  <2> QED
    BY <1>3, <2>1, <2>2
<1>6. entrees' \subseteq Entrees
  BY <1>0, <1>3 DEF Deplacees, EntreesSuivies
<1>7. taches' \in [Taches -> EtatsTache] => TypeOKCampagnes'
  BY <1>0, <1>1, <1>5, <1>6 DEF TypeOKCampagnes
<1>8. \A s \in Taches : s # r /\ taches[s].etape \in {"tire", "geste"} =>
        lots'[taches[s].lot] = lots[taches[s].lot]
  <2> SUFFICES ASSUME NEW s \in Taches, s # r, taches[s].etape \in {"tire", "geste"}
               PROVE  lots'[taches[s].lot] = lots[taches[s].lot]
    OBVIOUS
  <2>1. taches[s].lot \in Lots
    BY <1>0 DEF Typage, TravailSuivi
  <2> QED
    BY <1>4, <1>5, <2>1
<1>9. Typage' /\ Verrous' /\ TiragesGardes
  BY <1>0, <1>1, <1>7, <1>8, UnFinit
<1>10. EntreesSuivies'
  BY <1>0, <1>3, <1>9, DeplaceesSuivies, RetireesSuivies
<1> QED
  BY <1>5, <1>9, <1>10 DEF IInv, EquipeVoulue

-----------------------------------------------------------------------------
(***************************************************************************)
(* The assignment, step by step.                                             *)
(***************************************************************************)
LEMMA ViserInv ==
  ASSUME CampagnesBienFormees, IInv, NEW r \in Taches, NEW f \in Fiches, NEW m \in Membres,
         NEW l \in {0} \union Lots, ViserCampagne(r, f, m, l)
  PROVE  IInv'
<1> DEFINE t == [Neuve EXCEPT !.etape = IF l = 0 THEN "liste" ELSE "ajoute", !.lot = l,
                              !.fiches = {f}, !.entrant = m]
<1>0. TypeOKCampagnes /\ Typage /\ Verrous /\ EquipeVoulue /\ EntreesSuivies
  BY DEF IInv, Typage
<1>1. /\ t \in EtatsTache /\ t.etape \in {"liste", "ajoute"} /\ t.fiches = {f} /\ t.entrant = m
      /\ t.lot = l /\ (t.etape = "ajoute" => l # 0)
  <2>1. /\ l \in 0..Nombre /\ {f} \in SUBSET Fiches /\ m \in Membres \union {Rien}
        /\ {"liste", "ajoute"} \subseteq EtapesTache
    BY DEF Lots, EtapesTache, CampagnesBienFormees
  <2>2. CASE l = 0
    BY <2>1, <2>2, Initiale DEF EtatsTache, EtapesTache
  <2>3. CASE l # 0
    BY <2>1, <2>3, Initiale DEF EtatsTache, EtapesTache
  <2> QED
    BY <2>2, <2>3
<1> HIDE DEF t
<1>2. /\ taches' \in [Taches -> EtatsTache] /\ taches'[r] = t
      /\ \A s \in Taches : s # r => taches'[s] = taches[s]
  BY <1>0, <1>1, SuiteLesAutres DEF ViserCampagne, t
<1>3. UNCHANGED <<lots, entrees, titulaire, appelees, arrets, voulues>>
  BY DEF ViserCampagne
<1>4. TypeOKCampagnes' /\ TravailSuivi(r)' /\ TiragesGardes
  BY <1>0, <1>1, <1>2, <1>3 DEF TypeOKCampagnes, TravailSuivi, TiragesGardes
<1>5. Typage' /\ Verrous'
  BY <1>0, <1>1, <1>2, <1>3, <1>4, UneAvance
<1> QED
  BY <1>0, <1>3, <1>4, <1>5, RetireesSuivies DEF IInv, EquipeVoulue

(* An assignment that goes on to its next step, or ends. *)
LEMMA AffectationAvance ==
  ASSUME CampagnesBienFormees, Typage, NEW r \in Taches, taches[r].etape \in {"ajoute", "liste", "suit"},
         \/ FinirTache(r)
         \/ Suite(r, [taches[r] EXCEPT !.etape = "liste"])
         \/ \E reste \in SUBSET Lots : \E etape \in {"suit"} :
              Suite(r, [taches[r] EXCEPT !.etape = etape, !.reste = reste])
  PROVE  /\ taches' \in [Taches -> EtatsTache]
         /\ \A s \in Taches : s # r => taches'[s] = taches[s]
         /\ taches'[r].etape \in {"liste", "suit", "finie"}
         /\ taches'[r].etape # "finie" =>
              taches'[r].fiches = taches[r].fiches /\ taches'[r].entrant = taches[r].entrant
<1>0. TypeOKCampagnes /\ taches[r] \in EtatsTache
  BY DEF Typage, TypeOKCampagnes
<1>1. CASE FinirTache(r)
  BY <1>0, <1>1, FinirLesAutres
<1>2. CASE Suite(r, [taches[r] EXCEPT !.etape = "liste"])
  <2> DEFINE t == [taches[r] EXCEPT !.etape = "liste"]
  <2>1. t \in EtatsTache /\ t.etape = "liste" /\ t.fiches = taches[r].fiches /\ t.entrant = taches[r].entrant
    BY <1>0 DEF EtatsTache, EtapesTache
  <2> HIDE DEF t
  <2>2. Suite(r, t)
    BY <1>2 DEF t
  <2> QED
    BY <1>0, <2>1, <2>2, SuiteLesAutres
<1>3. ASSUME NEW reste \in SUBSET Lots, Suite(r, [taches[r] EXCEPT !.etape = "suit", !.reste = reste])
      PROVE  /\ taches' \in [Taches -> EtatsTache]
             /\ \A s \in Taches : s # r => taches'[s] = taches[s]
             /\ taches'[r].etape \in {"liste", "suit", "finie"}
             /\ taches'[r].etape # "finie" =>
                  taches'[r].fiches = taches[r].fiches /\ taches'[r].entrant = taches[r].entrant
  <2> DEFINE t == [taches[r] EXCEPT !.etape = "suit", !.reste = reste]
  <2>1. t \in EtatsTache /\ t.etape = "suit" /\ t.fiches = taches[r].fiches /\ t.entrant = taches[r].entrant
    BY <1>0 DEF EtatsTache, EtapesTache
  <2> HIDE DEF t
  <2>2. Suite(r, t)
    BY <1>3 DEF t
  <2> QED
    BY <1>0, <2>1, <2>2, SuiteLesAutres
<1> QED
  BY <1>1, <1>2, <1>3

(* Such a step holds nothing, and is safe when what it does to the campaigns is. *)
LEMMA AffectationSure ==
  ASSUME CampagnesBienFormees, Typage, Verrous, NEW r \in Taches,
         taches[r].etape \in {"ajoute", "liste", "suit"},
         \A s \in Taches : s # r => taches'[s] = taches[s],
         taches'[r].etape \in {"liste", "suit", "finie"},
         taches'[r].etape # "finie" =>
           taches'[r].fiches = taches[r].fiches /\ taches'[r].entrant = taches[r].entrant,
         TypeOKCampagnes',
         \A s \in Taches : s # r /\ taches[s].etape \in {"tire", "geste"} =>
           lots'[taches[s].lot] = lots[taches[s].lot]
  PROVE  Typage' /\ Verrous' /\ TiragesGardes
<1>1. TravailSuivi(r)
  BY DEF Typage
<1>2. TravailSuivi(r)'
  BY <1>1 DEF TravailSuivi
<1>3. TiragesGardes
  BY DEF TiragesGardes
<1> QED
  BY <1>2, <1>3, UneAvance

LEMMA AjouterFicheInv ==
  ASSUME CampagnesBienFormees, IInv, NEW r \in Taches, AjouterFiche(r)
  PROVE  IInv'
<1> DEFINE t == taches[r]
           f == FicheDe(t)
<1>0. /\ TypeOKCampagnes /\ Typage /\ Verrous /\ EquipeVoulue /\ EntreesSuivies
      /\ TravailSuivi(r) /\ t \in EtatsTache
  BY DEF IInv, Typage, TypeOKCampagnes
<1>1. /\ t.etape = "ajoute" /\ UNCHANGED <<lots, titulaire, appelees, arrets, voulues>>
      /\ FinirTache(r) \/ Suite(r, [t EXCEPT !.etape = "liste"])
  BY DEF AjouterFiche
<1>2. t.lot \in Lots /\ t.entrant \in Membres /\ f \in Fiches
  BY <1>0, <1>1 DEF TravailSuivi, EtatsTache, FicheDe
<1> HIDE DEF f
<1>3. UNCHANGED entrees \/ Ajoutees({Entree(t.lot, f, t.entrant, "main")})
  <2>1. entrees' = entrees \/ entrees' = entrees \union {Entree(t.lot, f, t.entrant, "main")}
    BY DEF AjouterFiche, f
  <2>2. Entree(t.lot, f, t.entrant, "main") \in Entrees /\ Entree(t.lot, f, t.entrant, "main").origine = "main"
    BY <1>0, <1>2, EntreeType
  <2>3. IsFiniteSet({Entree(t.lot, f, t.entrant, "main")})
    BY FS_Singleton
  <2> QED
    BY <2>1, <2>2, <2>3 DEF Ajoutees, Tirees
<1>4. entrees' \subseteq Entrees
  BY <1>0, <1>3 DEF Ajoutees, EntreesSuivies
<1>5. /\ taches' \in [Taches -> EtatsTache]
      /\ \A s \in Taches : s # r => taches'[s] = taches[s]
      /\ taches'[r].etape \in {"liste", "suit", "finie"}
      /\ taches'[r].etape # "finie" =>
           taches'[r].fiches = taches[r].fiches /\ taches'[r].entrant = taches[r].entrant
  BY <1>0, <1>1, AffectationAvance
<1>6. TypeOKCampagnes'
  BY <1>0, <1>1, <1>4, <1>5 DEF TypeOKCampagnes
<1>7. Typage' /\ Verrous' /\ TiragesGardes
  BY <1>0, <1>1, <1>5, <1>6, AffectationSure
<1>8. EntreesSuivies'
  <2>1. CASE UNCHANGED entrees
    BY <1>0, <1>7, <2>1, RetireesSuivies
  <2>2. CASE Ajoutees({Entree(t.lot, f, t.entrant, "main")})
    <3>1. Entree(t.lot, f, t.entrant, "main").origine \notin Tirees
      BY <1>0, <1>2, EntreeType DEF Tirees
    <3> QED
      BY <1>0, <1>7, <2>2, <3>1, AjouteesSuivies
  <2> QED
    BY <1>3, <2>1, <2>2
<1> QED
  BY <1>0, <1>1, <1>7, <1>8 DEF IInv, EquipeVoulue

LEMMA ListerTitulaireInv ==
  ASSUME CampagnesBienFormees, IInv, NEW r \in Taches, ListerLots(r) \/ ChangerTitulaire(r)
  PROVE  IInv'
<1> DEFINE t == taches[r]
<1>0. /\ TypeOKCampagnes /\ Typage /\ Verrous /\ EquipeVoulue /\ EntreesSuivies
      /\ TravailSuivi(r) /\ t \in EtatsTache
  BY DEF IInv, Typage, TypeOKCampagnes
<1>1. t.etape \in {"liste", "suit"} /\ UNCHANGED <<lots, entrees, appelees, arrets, voulues>>
  BY DEF ListerLots, ChangerTitulaire
<1>2. \/ FinirTache(r)
      \/ \E reste \in SUBSET Lots : \E etape \in {"suit"} :
           Suite(r, [taches[r] EXCEPT !.etape = etape, !.reste = reste])
  <2>1. LotsActifsDe(FicheDe(t)) \in SUBSET Lots
    BY <1>0 DEF LotsActifsDe, EntreesSuivies, Entrees
  <2> QED
    BY <2>1 DEF ListerLots, ChangerTitulaire
<1>3. titulaire' \in [Fiches -> Membres \union {Rien}]
  <2>1. t.entrant \in Membres
    BY <1>0, <1>1 DEF TravailSuivi
  <2> QED
    BY <1>0, <2>1 DEF TypeOKCampagnes, ListerLots, ChangerTitulaire
<1>4. /\ taches' \in [Taches -> EtatsTache]
      /\ \A s \in Taches : s # r => taches'[s] = taches[s]
      /\ taches'[r].etape \in {"liste", "suit", "finie"}
      /\ taches'[r].etape # "finie" =>
           taches'[r].fiches = taches[r].fiches /\ taches'[r].entrant = taches[r].entrant
  BY <1>0, <1>1, <1>2, AffectationAvance
<1>5. TypeOKCampagnes'
  BY <1>0, <1>1, <1>3, <1>4 DEF TypeOKCampagnes
<1>6. Typage' /\ Verrous' /\ TiragesGardes
  BY <1>0, <1>1, <1>4, <1>5, AffectationSure
<1> QED
  BY <1>0, <1>1, <1>6, RetireesSuivies DEF IInv, EquipeVoulue

LEMMA SuivreInv ==
  ASSUME CampagnesBienFormees, IInv, NEW r \in Taches, NEW l \in Lots, SuivreLaFiche(r, l)
  PROVE  IInv'
<1> DEFINE t == taches[r]
           equipe == Apres(lots[l].equipe, t.entrant, Rien)
           P == {e \in entrees : e.lot = l /\ e.fiche \in t.fiches /\ e.assigne # t.entrant}
<1>0. /\ TypeOKCampagnes /\ Typage /\ Verrous /\ EquipeVoulue /\ EntreesSuivies
      /\ TravailSuivi(r) /\ t \in EtatsTache
  BY DEF IInv, Typage, TypeOKCampagnes
<1>1. /\ t.etape = "suit" /\ ~LotVerrouille(l) /\ UNCHANGED <<titulaire, appelees, arrets>>
      /\ IF Existe(l) THEN Suite(r, [t EXCEPT !.reste = @ \ {l}]) ELSE FinirTache(r)
  BY DEF SuivreLaFiche
<1>2. t.entrant \in Membres /\ t.entrant # Rien /\ equipe \in SUBSET Membres /\ equipe # {}
  BY <1>0, <1>1, ApresType DEF TravailSuivi, Apres, TypeOKCampagnes, CampagnesBienFormees
<1>3. \/ UNCHANGED <<lots, entrees, voulues>>
      \/ /\ Existe(l) /\ Recomposer(l, equipe) /\ Deplacees
         /\ voulues' = [voulues EXCEPT ![l] = Apres(voulues[l], t.entrant, Rien)]
  <2>1. CASE Existe(l) /\ P # {}
    <3> DEFINE vers == [e \in entrees |-> t.entrant]
    <3>1. /\ Recomposer(l, equipe)
          /\ voulues' = [voulues EXCEPT ![l] = Apres(voulues[l], t.entrant, Rien)]
          /\ entrees' = {IF e.lot = l /\ e.fiche \in t.fiches /\ e.assigne # t.entrant
                         THEN [e EXCEPT !.assigne = t.entrant] ELSE e : e \in entrees}
      BY <2>1 DEF SuivreLaFiche, Deplacer
    <3>2. vers \in [entrees -> Membres] /\ P \in SUBSET entrees
      BY <1>2
    <3>3. entrees' = {IF e \in P THEN [e EXCEPT !.assigne = vers[e]] ELSE e : e \in entrees}
      BY <3>1
    <3> HIDE DEF P, vers
    <3> QED
      BY <1>0, <2>1, <3>1, <3>2, <3>3, DeplacerSuivi
  <2>2. CASE ~(Existe(l) /\ P # {})
    BY <2>2 DEF SuivreLaFiche
  <2> QED
    BY <2>1, <2>2
<1> HIDE DEF equipe, P
<1>4. /\ lots' \in [Lots -> [etat : {"absent", "actif", "pause", "supprime"}, equipe : SUBSET Membres]]
      /\ \A k \in Lots : (k # l \/ ~Existe(l)) => lots'[k] = lots[k]
      /\ \A k \in Lots : lots'[k].etat \in {"actif", "pause"} => lots'[k].equipe # {}
      /\ voulues' \in [Lots -> SUBSET Membres] /\ \A k \in Lots : lots'[k].equipe = voulues'[k]
  <2>1. CASE UNCHANGED <<lots, entrees, voulues>>
    BY <1>0, <2>1 DEF TypeOKCampagnes, EquipeVoulue
  <2>2. CASE /\ Existe(l) /\ Recomposer(l, equipe)
             /\ voulues' = [voulues EXCEPT ![l] = Apres(voulues[l], t.entrant, Rien)]
    <3>1. lots' = [lots EXCEPT ![l].equipe = equipe]
      BY <2>2 DEF Recomposer
    <3>2. Apres(voulues[l], t.entrant, Rien) = equipe
      BY <1>0 DEF EquipeVoulue, equipe
    <3>3. lots'[l].equipe = equipe /\ \A k \in Lots : k # l => lots'[k] = lots[k]
      BY <1>0, <3>1 DEF TypeOKCampagnes
    <3>4. voulues'[l] = equipe /\ \A k \in Lots : k # l => voulues'[k] = voulues[k]
      BY <1>0, <2>2, <3>2 DEF TypeOKCampagnes
    <3>5. /\ lots' \in [Lots -> [etat : {"absent", "actif", "pause", "supprime"}, equipe : SUBSET Membres]]
          /\ voulues' \in [Lots -> SUBSET Membres]
      BY <1>0, <1>2, <2>2, <3>1, <3>2 DEF TypeOKCampagnes
    <3>6. \A k \in Lots : lots'[k].etat \in {"actif", "pause"} => lots'[k].equipe # {}
      BY <1>0, <1>2, <3>3 DEF TypeOKCampagnes
    <3> QED
      BY <1>0, <2>2, <3>3, <3>4, <3>5, <3>6 DEF EquipeVoulue
  <2> QED
    BY <1>3, <2>1, <2>2
<1>5. entrees' \subseteq Entrees
  BY <1>0, <1>3 DEF Deplacees, EntreesSuivies
<1>6. /\ taches' \in [Taches -> EtatsTache]
      /\ \A s \in Taches : s # r => taches'[s] = taches[s]
      /\ taches'[r].etape \in {"liste", "suit", "finie"}
      /\ taches'[r].etape # "finie" =>
           taches'[r].fiches = taches[r].fiches /\ taches'[r].entrant = taches[r].entrant
  <2>1. Existe(l) => \E reste \in SUBSET Lots : \E etape \in {"suit"} :
                       Suite(r, [taches[r] EXCEPT !.etape = etape, !.reste = reste])
    <3>1. [t EXCEPT !.reste = @ \ {l}] = [t EXCEPT !.etape = "suit", !.reste = t.reste \ {l}]
      BY <1>0, <1>1 DEF EtatsTache
    <3>2. t.reste \ {l} \in SUBSET Lots
      BY <1>0 DEF EtatsTache
    <3> QED
      BY <1>1, <3>1, <3>2
  <2> QED
    BY <1>0, <1>1, <2>1, AffectationAvance
<1>7. TypeOKCampagnes'
  BY <1>0, <1>1, <1>4, <1>5, <1>6 DEF TypeOKCampagnes
<1>8. \A s \in Taches : s # r /\ taches[s].etape \in {"tire", "geste"} =>
        lots'[taches[s].lot] = lots[taches[s].lot]
  <2> SUFFICES ASSUME NEW s \in Taches, s # r, taches[s].etape \in {"tire", "geste"}
               PROVE  lots'[taches[s].lot] = lots[taches[s].lot]
    OBVIOUS
  <2>1. taches[s].lot \in Lots
    BY <1>0 DEF Typage, TravailSuivi
  <2>2. Existe(l) => taches[s].lot # l
    BY <1>0, <1>1, LotSeul
  <2> QED
    BY <1>4, <2>1, <2>2
<1>9. Typage' /\ Verrous' /\ TiragesGardes
  BY <1>0, <1>1, <1>6, <1>7, <1>8, AffectationSure
<1>10. EntreesSuivies'
  BY <1>0, <1>3, <1>9, DeplaceesSuivies, RetireesSuivies
<1> QED
  BY <1>4, <1>9, <1>10 DEF IInv, EquipeVoulue

-----------------------------------------------------------------------------
(***************************************************************************)
(* Pauses, deletions, calls; and all steps together.                         *)
(***************************************************************************)
LEMMA GestesInv ==
  ASSUME CampagnesBienFormees, IInv,
         (\E l \in Lots : Pauser(l) \/ Supprimer(l)) \/ \E f \in Fiches : Appeler(f)
  PROVE  IInv'
<1>0. TypeOKCampagnes /\ Typage /\ Verrous /\ EquipeVoulue /\ EntreesSuivies
  BY DEF IInv, Typage
<1>1. UNCHANGED <<titulaire, taches, voulues>> /\ arrets' \in 0..ArretsMax /\ entrees' \subseteq entrees
      /\ appelees' \subseteq Fiches
  BY <1>0 DEF Pauser, Supprimer, Appeler, Geste, TypeOKCampagnes, CampagnesBienFormees
<1>2. \/ UNCHANGED lots
      \/ \E l \in Lots : /\ Existe(l) /\ ~LotVerrouille(l)
                         /\ \E etat \in {"actif", "pause", "supprime"} : lots' = [lots EXCEPT ![l].etat = etat]
  BY DEF Pauser, Supprimer, Appeler
<1>3. /\ lots' \in [Lots -> [etat : {"absent", "actif", "pause", "supprime"}, equipe : SUBSET Membres]]
      /\ \A l \in Lots : lots'[l].equipe = lots[l].equipe
      /\ \A l \in Lots : lots'[l].etat \in {"actif", "pause"} => lots'[l].equipe # {}
      /\ \A l \in Lots : lots'[l] = lots[l] \/ (Existe(l) /\ ~LotVerrouille(l))
  <2>1. CASE UNCHANGED lots
    BY <1>0, <2>1 DEF TypeOKCampagnes
  <2>2. ASSUME NEW l \in Lots, Existe(l), ~LotVerrouille(l), NEW etat \in {"actif", "pause", "supprime"},
               lots' = [lots EXCEPT ![l].etat = etat]
        PROVE  /\ lots' \in [Lots -> [etat : {"absent", "actif", "pause", "supprime"}, equipe : SUBSET Membres]]
               /\ \A k \in Lots : lots'[k].equipe = lots[k].equipe
               /\ \A k \in Lots : lots'[k].etat \in {"actif", "pause"} => lots'[k].equipe # {}
               /\ \A k \in Lots : lots'[k] = lots[k] \/ (Existe(k) /\ ~LotVerrouille(k))
    BY <1>0, <2>2 DEF TypeOKCampagnes, Existe
  <2> QED
    BY <1>2, <2>1, <2>2
<1>4. TypeOKCampagnes'
  BY <1>0, <1>1, <1>3 DEF TypeOKCampagnes
<1>5. ASSUME NEW r \in Taches PROVE TravailSuivi(r)'
  <2>1. TravailSuivi(r)
    BY <1>0 DEF Typage
  <2>2. taches[r].etape \in {"tire", "geste"} => lots'[taches[r].lot] = lots[taches[r].lot]
    BY <1>3, <2>1 DEF TravailSuivi, Existe, LotVerrouille
  <2> QED
    BY <1>1, <2>1, <2>2 DEF TravailSuivi, Existe
<1>6. Verrous' /\ EquipeVoulue' /\ TiragesGardes
  BY <1>0, <1>1, <1>3 DEF Verrous, EquipeVoulue, TiragesGardes
<1> QED
  BY <1>0, <1>1, <1>4, <1>5, <1>6, RetireesSuivies DEF IInv, Typage

LEMMA InitInv ==
  ASSUME CampagnesBienFormees, InitCampagnes
  PROVE  IInv
<1>1. TypeOKCampagnes
  BY Initiale DEF InitCampagnes, TypeOKCampagnes, CampagnesBienFormees
<1>2. \A r \in Taches : TravailSuivi(r) /\ TirageReserve(r)
  BY DEF InitCampagnes, TravailSuivi, TirageReserve, Neuve
<1>3. Verrous /\ EquipeVoulue
  BY DEF InitCampagnes, Verrous, EquipeVoulue, Neuve
<1>4. IsFiniteSet(entrees) /\ entrees \subseteq Entrees /\ DistribueeUneFois
  BY FS_EmptySet DEF InitCampagnes, DistribueeUneFois
<1> QED
  BY <1>1, <1>2, <1>3, <1>4 DEF IInv, Typage, EntreesSuivies

LEMMA Inductif ==
  ASSUME CampagnesBienFormees, IInv, [NextCampagnes]_varsCampagnes
  PROVE  IInv'
<1>1. ASSUME NEW r \in Taches, NEW l \in Lots, NEW fiches \in (SUBSET Fiches) \ {{}},
             \/ \E equipe \in (SUBSET Membres) \ {{}}, relance \in BOOLEAN :
                  Tirer(r, l, equipe, fiches, relance)
             \/ RangerLire(r, l, fiches)
      PROVE  IInv'
  <2>1. ASSUME NEW equipe \in (SUBSET Membres) \ {{}}, NEW relance \in BOOLEAN,
               Tirer(r, l, equipe, fiches, relance)
        PROVE  IInv'
    <3>1. fiches \in SUBSET Fiches /\ equipe \in SUBSET Membres /\ equipe # {}
      OBVIOUS
    <3> QED
      BY <2>1, <3>1, TirerInv
  <2> QED
    BY <1>1, <2>1, RangerLireInv
<1>2. ASSUME NEW r \in Taches, NEW l \in Lots, NEW m \in Membres,
             \/ \E fiches \in SUBSET Fiches : GesteEquipe(r, l, m, Rien, fiches)
             \/ GesteEquipe(r, l, Rien, m, {})
      PROVE  IInv'
  <2>1. CASE \E fiches \in SUBSET Fiches : GesteEquipe(r, l, m, Rien, fiches)
    BY <2>1, GesteEquipeInv
  <2>2. CASE GesteEquipe(r, l, Rien, m, {})
    <3>1. m # Rien /\ {} \in SUBSET Fiches
      BY DEF CampagnesBienFormees
    <3> QED
      BY <2>2, <3>1, GesteEquipeInv
  <2> QED
    BY <1>2, <2>1, <2>2
<1>3. ASSUME NEW r \in Taches,
             \/ \E f \in Fiches, m \in Membres, l \in {0} \union Lots : ViserCampagne(r, f, m, l)
             \/ \E l \in Lots : SuivreLaFiche(r, l)
             \/ EcrireCampagne(r) \/ RangerEcrire(r) \/ EcrireGeste(r)
             \/ AjouterFiche(r) \/ ListerLots(r) \/ ChangerTitulaire(r)
      PROVE  IInv'
  BY <1>3, ViserInv, SuivreInv, EcrireCampagneInv, RangerEcrireInv, EcrireGesteInv, AjouterFicheInv,
     ListerTitulaireInv
<1>4. CASE (\E l \in Lots : Pauser(l) \/ Supprimer(l)) \/ \E f \in Fiches : Appeler(f)
  BY <1>4, GestesInv
<1>5. CASE UNCHANGED varsCampagnes
  BY <1>5 DEF varsCampagnes, IInv, Typage, TypeOKCampagnes, TravailSuivi, Existe, Verrous, EquipeVoulue, EntreesSuivies,
     DistribueeUneFois, TirageReserve
<1> QED
  BY <1>1, <1>2, <1>3, <1>4, <1>5 DEF NextCampagnes

-----------------------------------------------------------------------------
(* Campaigns, entries and requests are well typed, and a campaign that exists has a    *)
(* team.                                                                               *)
THEOREM CampagnesTypees == CampagnesBienFormees /\ SpecCampagnes => []TypeOKCampagnes
<1> SUFFICES ASSUME CampagnesBienFormees PROVE SpecCampagnes => []TypeOKCampagnes
  OBVIOUS
<1>1. InitCampagnes => IInv
  BY InitInv
<1>2. IInv /\ [NextCampagnes]_varsCampagnes => IInv'
  BY Inductif
<1>3. IInv => TypeOKCampagnes
  BY DEF IInv, Typage
<1> QED
  BY <1>1, <1>2, <1>3, PTL DEF SpecCampagnes

(* "deux attributaires appelleraient la même personne": draws at once, or a draw and a *)
(* late entry read before it, put a fiche in one campaign (lotTirerFiches,              *)
(* RangerFicheRemontee).                                                                *)
THEOREM FicheDistribueeUneFois == CampagnesBienFormees /\ SpecCampagnes => []DistribueeUneFois
<1> SUFFICES ASSUME CampagnesBienFormees PROVE SpecCampagnes => []DistribueeUneFois
  OBVIOUS
<1>1. InitCampagnes => IInv
  BY InitInv
<1>2. IInv /\ [NextCampagnes]_varsCampagnes => IInv'
  BY Inductif
<1>3. IInv => DistribueeUneFois
  BY DEF IInv, EntreesSuivies
<1> QED
  BY <1>1, <1>2, <1>3, PTL DEF SpecCampagnes

(* The team of a campaign is what all the gestures made of it, those on the campaign   *)
(* and those an assignment makes (lotRecomposerEquipe, SuivreLaFiche).                  *)
THEOREM AucunGestePerdu == CampagnesBienFormees /\ SpecCampagnes => []EquipeVoulue
<1> SUFFICES ASSUME CampagnesBienFormees PROVE SpecCampagnes => []EquipeVoulue
  OBVIOUS
<1>1. InitCampagnes => IInv
  BY InitInv
<1>2. IInv /\ [NextCampagnes]_varsCampagnes => IInv'
  BY Inductif
<1>3. IInv => EquipeVoulue
  BY DEF IInv
<1> QED
  BY <1>1, <1>2, <1>3, PTL DEF SpecCampagnes
=============================================================================
