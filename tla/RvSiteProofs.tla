---------------------------- MODULE RvSiteProofs ----------------------------
(***************************************************************************)
(* The visits of RvSite are counted and their hours are never overfilled by   *)
(* calls, for every number of fiches, hours and requests, and every capacity. *)
(***************************************************************************)
EXTENDS RvSite, FiniteSetTheorems, TLAPS

-----------------------------------------------------------------------------
(***************************************************************************)
(* The strengthening.                                                        *)
(***************************************************************************)
(* A request under way knows its fiche, its outcome and its hour. *)
Corps == \A r \in Requetes :
  tx[r].etape \in {"recu", "creneaux", "place", "fiche"}
    => tx[r].fiche \in Fiches /\ tx[r].genre \in Genres /\ tx[r].heure \in Heures

(* From the check of the hour to the commit, the advisory lock is held. *)
HeuresTenues == \A r \in Requetes :
  tx[r].etape = "creneaux" \/ PlaceTenue(r) => verrouCreneaux = {r}

(* Only a call that concerns a visit passes by the check. *)
VisiteControlee == \A r \in Requetes :
  tx[r].etape \in {"creneaux", "place"} => tx[r].genre = "site"

(* A call that writes holds its fiche, which nobody can delete meanwhile. *)
FicheTenue == \A r \in Requetes :
  tx[r].etape = "fiche" => /\ verrouFiche[tx[r].fiche] = {r}
                           /\ ~rv[tx[r].fiche].supprimee

Verrouille == Corps /\ HeuresTenues /\ VisiteControlee /\ FicheTenue

IInv == TypeOK /\ Verrouille /\ CapaciteTenue /\ PlaceGardee

-----------------------------------------------------------------------------
(***************************************************************************)
(* Cardinalities and rows.                                                   *)
(***************************************************************************)
LEMMA Moins ==
  ASSUME NEW S, NEW T, IsFiniteSet(T), S \subseteq T
  PROVE  IsFiniteSet(S) /\ Cardinality(S) \in Nat /\ Cardinality(T) \in Nat /\ Cardinality(S) <= Cardinality(T)
BY FS_Subset, FS_CardinalityType

LEMMA UneDeMoins ==
  ASSUME NEW T, IsFiniteSet(T), NEW x, NEW n \in Nat, Cardinality(T \ {x}) < n
  PROVE  Cardinality(T) <= n
<1>1. Cardinality(T) \in Nat
  BY FS_CardinalityType
<1> QED
  BY <1>1, FS_RemoveElement

LEMMA ConclueType ==
  ASSUME NEW l \in LignesRv, l.rdv => l.quand \in Heures,
         NEW genre \in Genres, NEW heure \in Heures, NEW recent \in BOOLEAN
  PROVE  /\ Conclue(l, genre, heure, recent) \in LignesRv
         /\ Conclue(l, genre, heure, recent).rdv => Conclue(l, genre, heure, recent).quand \in Heures
         /\ Conclue(l, genre, heure, recent).supprimee = l.supprimee
<1>1. (IF recent THEN genre = "site" ELSE l.site) \in BOOLEAN
  BY DEF LignesRv
<1>2. (IF genre = "refus" THEN l.quand ELSE heure) \in Heures \union {Rien}
  BY DEF LignesRv
<1>3. genre \in RendezVous => genre # "refus"
  BY DEF RendezVous
<1>4. (genre \in RendezVous) \in BOOLEAN
  OBVIOUS
<1>5. CASE genre \in RendezVous
  BY <1>1, <1>2, <1>3, <1>4, <1>5 DEF Conclue, LignesRv, Confirmations
<1>6. CASE genre \notin RendezVous
  BY <1>1, <1>2, <1>4, <1>6 DEF Conclue, LignesRv
<1> QED
  BY <1>5, <1>6

LEMMA ApresAppelType ==
  ASSUME TypeOK, Corps, NEW r \in Requetes, tx[r].etape = "fiche"
  PROVE  /\ ApresAppel(r) \in LignesRv
         /\ ApresAppel(r).rdv => ApresAppel(r).quand \in Heures
         /\ ApresAppel(r).supprimee = rv[tx[r].fiche].supprimee
<1> DEFINE l == rv[tx[r].fiche]
           c == Conclue(l, tx[r].genre, tx[r].heure, Recent(r))
<1>1. tx[r].fiche \in Fiches /\ tx[r].genre \in Genres /\ tx[r].heure \in Heures
  BY DEF Corps
<1>2. l \in LignesRv /\ (l.rdv => l.quand \in Heures)
  BY <1>1 DEF TypeOK
<1>3. Recent(r) \in BOOLEAN
  BY DEF Recent
<1>4. c \in LignesRv /\ (c.rdv => c.quand \in Heures) /\ c.supprimee = l.supprimee
  BY <1>1, <1>2, <1>3, ConclueType
<1>5. (IF Recent(r) THEN tx[r].instant ELSE c.appelAt) \in Nat
  BY <1>4 DEF TypeOK, Tentatives, LignesRv
<1>6. ApresAppel(r) = [c EXCEPT !.appelAt = IF Recent(r) THEN tx[r].instant ELSE @]
  BY DEF ApresAppel
<1> HIDE DEF c
<1> QED
  BY <1>4, <1>5, <1>6 DEF LignesRv

(* A visit concluded occupies its own hour or none. *)
LEMMA SaPlace ==
  ASSUME TypeOK, Corps, NEW r \in Requetes, tx[r].etape = "fiche", tx[r].genre = "site",
         NEW h \in Heures, Occupe(ApresAppel(r), h)
  PROVE  h = tx[r].heure
<1> DEFINE l == rv[tx[r].fiche]
<1>1. tx[r].fiche \in Fiches /\ l \in LignesRv
  BY DEF Corps, TypeOK
<1>2. ApresAppel(r).reporte = Rien /\ ApresAppel(r).quand = tx[r].heure
  BY <1>1 DEF ApresAppel, Conclue, RendezVous, LignesRv
<1> QED
  BY <1>2 DEF Occupe

-----------------------------------------------------------------------------
(***************************************************************************)
(* Who counts at an hour, before and after a write.                          *)
(***************************************************************************)
LEMMA ReservesFinies ==
  ASSUME NEW h
  PROVE  IsFiniteSet(Reserves(h))
<1>1. Reserves(h) \subseteq Fiches
  BY DEF Reserves
<1> QED
  BY <1>1, FS_Subset, FichesAssumption

(* An unchecked write adds nobody to an hour that is not forced. *)
LEMMA EcrireDecroit ==
  ASSUME TypeOK, NEW f \in Fiches, NEW l, Ecrire(f, l), NEW h \in Heures \ forcees'
  PROVE  Reserves(h)' \subseteq Reserves(h) /\ h \notin forcees
<1>1. h \notin forcees /\ (Occupe(l, h) => Occupe(rv[f], h))
  BY DEF Ecrire
<1>2. rv' = [rv EXCEPT ![f] = l] /\ rv \in [Fiches -> LignesRv]
  BY DEF Ecrire, TypeOK
<1>3. ASSUME NEW g \in Fiches, Occupe(rv'[g], h)
      PROVE  Occupe(rv[g], h)
  <2>1. CASE g = f
    BY <1>1, <1>2, <1>3, <2>1
  <2>2. CASE g # f
    BY <1>2, <1>3, <2>2
  <2> QED
    BY <2>1, <2>2
<1> QED
  BY <1>1, <1>3 DEF Reserves

(* The places kept, said of an hour h and a fiche g that do not vary. *)
LEMMA GardeeSuivante ==
  ASSUME \A r \in Requetes : \A h, g :
           PlaceTenue(r)' /\ tx'[r].heure = h /\ tx'[r].fiche = g /\ h \notin forcees'
             => Cardinality(Reserves(h)' \ {g}) < Capacite
  PROVE  PlaceGardee'
BY DEF PlaceGardee, Reserves

(* What decreases keeps the two bounds. *)
LEMMA Bornes ==
  ASSUME CapaciteTenue, PlaceGardee, NEW h \in Heures, h \notin forcees,
         Reserves(h)' \subseteq Reserves(h)
  PROVE  /\ Cardinality(Reserves(h)') <= Capacite
         /\ \A r \in Requetes : \A g : PlaceTenue(r) /\ tx[r].heure = h /\ tx[r].fiche = g
              => Cardinality(Reserves(h)' \ {g}) < Capacite
<1>1. IsFiniteSet(Reserves(h))
  BY ReservesFinies
<1>2. Cardinality(Reserves(h)) <= Capacite
  BY DEF CapaciteTenue
<1>3. Cardinality(Reserves(h)') <= Capacite
  BY <1>1, <1>2, Moins, CapaciteAssumption
<1>4. ASSUME NEW r \in Requetes, NEW g, PlaceTenue(r), tx[r].heure = h, tx[r].fiche = g
      PROVE  Cardinality(Reserves(h)' \ {g}) < Capacite
  <2>1. Cardinality(Reserves(h) \ {g}) < Capacite
    BY <1>4 DEF PlaceGardee
  <2>2. IsFiniteSet(Reserves(h) \ {g})
    BY <1>1, FS_Subset
  <2>3. Reserves(h)' \ {g} \subseteq Reserves(h) \ {g}
    OBVIOUS
  <2> QED
    BY <2>1, <2>2, <2>3, Moins, CapaciteAssumption
<1> QED
  BY <1>3, <1>4

-----------------------------------------------------------------------------
(***************************************************************************)
(* The steps, grouped by what they write.                                    *)
(***************************************************************************)
(* An operation of the management writes one well-typed, dated row. *)
LEMMA SuiviEcrit ==
  ASSUME TypeOK, NEW f \in Fiches, Suivi(f)
  PROVE  \E l \in LignesRv : Ecriture(f, l) /\ (l.rdv => l.quand \in Heures)
<1> DEFINE l == rv[f]
<1>1. l \in LignesRv /\ (l.rdv => l.quand \in Heures)
  BY DEF TypeOK
<1>2. ASSUME NEW genre \in Genres, NEW heure \in Heures, Requalifier(f, genre, heure)
      PROVE  \E m \in LignesRv : Ecriture(f, m) /\ (m.rdv => m.quand \in Heures)
  BY <1>1, <1>2, ConclueType DEF Requalifier
<1>3. ASSUME NEW reponse \in Confirmations, Confirmer(f, reponse)
      PROVE  \E m \in LignesRv : Ecriture(f, m) /\ (m.rdv => m.quand \in Heures)
  <2> DEFINE m == [l EXCEPT !.confirmation = reponse]
  <2>1. m \in LignesRv /\ (m.rdv => m.quand \in Heures)
    BY <1>1, <1>3 DEF LignesRv
  <2>2. Ecriture(f, m)
    BY <1>3 DEF Confirmer
  <2> QED
    BY <2>1, <2>2
<1>4. ASSUME NEW issue \in {"HONORE", "NON_HONORE"}, NoterPresence(f, issue)
      PROVE  \E m \in LignesRv : Ecriture(f, m) /\ (m.rdv => m.quand \in Heures)
  <2> DEFINE m == [l EXCEPT !.issue = issue,
                     !.confirmation = IF @ = "A_RECONTACTER" THEN Rien ELSE @]
  <2>1. m \in LignesRv /\ (m.rdv => m.quand \in Heures)
    BY <1>1, <1>4 DEF LignesRv, Confirmations
  <2>2. Ecriture(f, m)
    BY <1>4 DEF NoterPresence
  <2> QED
    BY <2>1, <2>2
<1>5. ASSUME NEW h \in Heures, Reporter(f, h)
      PROVE  \E m \in LignesRv : Ecriture(f, m) /\ (m.rdv => m.quand \in Heures)
  <2> DEFINE m == [l EXCEPT !.confirmation = Rien, !.issue = Rien, !.reporte = h]
  <2>1. m \in LignesRv /\ (m.rdv => m.quand \in Heures)
    BY <1>1, <1>5 DEF LignesRv, Confirmations
  <2>2. Ecriture(f, m)
    BY <1>5 DEF Reporter
  <2> QED
    BY <2>1, <2>2
<1>6. ASSUME OublierPresence(f)
      PROVE  \E m \in LignesRv : Ecriture(f, m) /\ (m.rdv => m.quand \in Heures)
  <2> DEFINE m == [l EXCEPT !.issue = Rien]
  <2>1. m \in LignesRv /\ (m.rdv => m.quand \in Heures)
    BY <1>1, <1>6 DEF LignesRv
  <2>2. Ecriture(f, m)
    BY <1>6 DEF OublierPresence
  <2> QED
    BY <2>1, <2>2
<1>7. ASSUME Supprimer(f)
      PROVE  \E m \in LignesRv : Ecriture(f, m) /\ (m.rdv => m.quand \in Heures)
  <2> DEFINE m == [l EXCEPT !.supprimee = TRUE]
  <2>1. m \in LignesRv /\ (m.rdv => m.quand \in Heures)
    BY <1>1, <1>7 DEF LignesRv
  <2>2. Ecriture(f, m)
    BY <1>7 DEF Supprimer
  <2> QED
    BY <2>1, <2>2
<1> QED
  BY <1>2, <1>3, <1>4, <1>5, <1>6, <1>7 DEF Suivi

LEMMA LibererType ==
  ASSUME TypeOK, NEW r \in Requetes, NEW etape \in {"appliquee", "refusee"}, Liberer(r, etape)
  PROVE  /\ tx' \in [Requetes -> Tentatives]
         /\ verrouCreneaux' \subseteq Requetes
         /\ verrouFiche' \in [Fiches -> SUBSET Requetes]
<1>1. Vide(etape) \in Tentatives
  BY DEF Vide, Tentatives, Etapes
<1> QED
  BY <1>1 DEF Liberer, TypeOK

LEMMA EcrireType ==
  ASSUME TypeOK, NEW f \in Fiches, NEW l \in LignesRv, l.rdv => l.quand \in Heures, Ecrire(f, l)
  PROVE  /\ rv' \in [Fiches -> LignesRv]
         /\ \A g \in Fiches : rv'[g].rdv => rv'[g].quand \in Heures
         /\ forcees' \subseteq Heures
         /\ accordee' \in [Fiches -> Heures \union {Rien}]
BY DEF TypeOK, Ecrire

LEMMA EtapeType ==
  ASSUME TypeOK, NEW r \in Requetes, NEW e \in Etapes
  PROVE  [tx EXCEPT ![r].etape = e] \in [Requetes -> Tentatives]
BY DEF TypeOK, Tentatives

LEMMA Typage == TypeOK /\ Corps /\ [Next]_vars => TypeOK'
<1> SUFFICES ASSUME TypeOK, Corps, [Next]_vars PROVE TypeOK'
  OBVIOUS
<1>1. ASSUME NEW r \in Requetes, NEW f \in Fiches, NEW genre \in Genres, NEW heure \in Heures,
             NEW instant \in 1..InstantMax, Recevoir(r, f, genre, heure, instant)
      PROVE  TypeOK'
  <2> DEFINE q == [etape |-> "recu", fiche |-> f, genre |-> genre, heure |-> heure, instant |-> instant]
  <2>1. instant \in Nat
    BY BornesAssumption
  <2>2. q \in Tentatives
    BY <2>1 DEF Tentatives, Etapes
  <2>3. tx' = [tx EXCEPT ![r] = q]
    BY <1>1 DEF Recevoir
  <2> HIDE DEF q
  <2> QED
    BY <1>1, <2>2, <2>3 DEF Recevoir, TypeOK
<1>2. ASSUME NEW r \in Requetes, VerrouillerCreneaux(r) PROVE TypeOK'
  BY <1>2, EtapeType DEF VerrouillerCreneaux, TypeOK, Etapes
<1>3. ASSUME NEW r \in Requetes, AccorderPlace(r) PROVE TypeOK'
  BY <1>3, EtapeType DEF AccorderPlace, TypeOK, Etapes
<1>4. ASSUME NEW r \in Requetes, RefuserPlace(r) \/ FicheIntrouvable(r) \/ Abandonner(r)
      PROVE  TypeOK'
  <2>1. Liberer(r, "refusee") /\ UNCHANGED <<rv, gestes, forcees, accordee>>
    BY <1>4 DEF RefuserPlace, FicheIntrouvable, Abandonner
  <2> QED
    BY <2>1, LibererType DEF TypeOK
<1>5. ASSUME NEW r \in Requetes, VerrouillerFiche(r) PROVE TypeOK'
  BY <1>5, EtapeType DEF VerrouillerFiche, TypeOK, Etapes
<1>6. ASSUME NEW r \in Requetes, ConclureVisite(r) PROVE TypeOK'
  <2>1. tx[r].etape = "fiche" /\ Liberer(r, "appliquee") /\ UNCHANGED <<gestes, forcees>>
        /\ rv' = [rv EXCEPT ![tx[r].fiche] = ApresAppel(r)]
        /\ accordee' = [accordee EXCEPT ![tx[r].fiche] = IF Recent(r) THEN tx[r].heure ELSE Rien]
    BY <1>6 DEF ConclureVisite
  <2>2. tx[r].fiche \in Fiches /\ tx[r].heure \in Heures
    BY <2>1 DEF Corps
  <2>3. rv' \in [Fiches -> LignesRv] /\ \A g \in Fiches : rv'[g].rdv => rv'[g].quand \in Heures
    BY <2>1, <2>2, ApresAppelType DEF TypeOK
  <2>4. accordee' \in [Fiches -> Heures \union {Rien}]
    BY <2>1, <2>2 DEF TypeOK
  <2> QED
    BY <2>1, <2>3, <2>4, LibererType DEF TypeOK
<1>7. ASSUME NEW r \in Requetes, ConclureAutre(r) PROVE TypeOK'
  <2>1. /\ tx[r].etape = "fiche" /\ Liberer(r, "appliquee") /\ UNCHANGED gestes
        /\ Ecrire(tx[r].fiche, ApresAppel(r))
    BY <1>7 DEF ConclureAutre
  <2>2. tx[r].fiche \in Fiches
    BY <2>1 DEF Corps
  <2> QED
    BY <2>1, <2>2, ApresAppelType, LibererType, EcrireType DEF TypeOK
<1>8. ASSUME NEW f \in Fiches, Suivi(f) PROVE TypeOK'
  <2>1. PICK l \in LignesRv : Ecriture(f, l) /\ (l.rdv => l.quand \in Heures)
    BY <1>8, SuiviEcrit
  <2>2. Compter \/ UNCHANGED gestes
    BY <1>8 DEF Suivi, Requalifier, Confirmer, NoterPresence, Reporter, OublierPresence, Supprimer
  <2>3. gestes' \in 0..GestesMax
    BY <2>2, BornesAssumption DEF Compter, TypeOK
  <2> QED
    BY <2>1, <2>3, EcrireType DEF Ecriture, TypeOK
<1>9. CASE UNCHANGED vars
  BY <1>9 DEF vars, TypeOK
<1> QED
  BY <1>1, <1>2, <1>3, <1>4, <1>5, <1>6, <1>7, <1>8, <1>9 DEF Next, Appel, Avancer

-----------------------------------------------------------------------------
(***************************************************************************)
(* The locks.                                                                *)
(***************************************************************************)
(* A request that ends gives up its locks, and the others keep theirs. *)
LEMMA LibererVerrous ==
  ASSUME TypeOK, Verrouille, NEW r \in Requetes, NEW etape \in {"appliquee", "refusee"},
         Liberer(r, etape),
         \A s \in Requetes \ {r} : tx[s].etape = "fiche" => rv'[tx[s].fiche].supprimee = rv[tx[s].fiche].supprimee
  PROVE  Verrouille'
<1>1. tx'[r].etape = etape /\ \A s \in Requetes \ {r} : tx'[s] = tx[s]
  BY DEF Liberer, Vide, TypeOK
<1>2. \A s \in Requetes \ {r} : verrouCreneaux = {s} => verrouCreneaux' = {s}
  BY DEF Liberer
<1>3. \A f \in Fiches, s \in Requetes \ {r} : verrouFiche[f] = {s} => verrouFiche'[f] = {s}
  BY DEF Liberer
<1>4. Corps'
  BY <1>1 DEF Verrouille, Corps
<1>5. HeuresTenues'
  BY <1>1, <1>2 DEF Verrouille, HeuresTenues, PlaceTenue
<1>6. VisiteControlee'
  BY <1>1 DEF Verrouille, VisiteControlee
<1>7. FicheTenue'
  BY <1>1, <1>3 DEF Verrouille, FicheTenue, Corps
<1> QED
  BY <1>4, <1>5, <1>6, <1>7 DEF Verrouille

LEMMA Exclusion == TypeOK /\ Verrouille /\ [Next]_vars => Verrouille'
<1> SUFFICES ASSUME TypeOK, Verrouille, [Next]_vars PROVE Verrouille'
  OBVIOUS
<1> USE DEF Verrouille
<1>1. ASSUME NEW r \in Requetes, NEW f \in Fiches, NEW genre \in Genres, NEW heure \in Heures,
             NEW instant \in 1..InstantMax, Recevoir(r, f, genre, heure, instant)
      PROVE  Verrouille'
  <2>1. /\ tx'[r].etape = "recu" /\ tx'[r].fiche = f /\ tx'[r].genre = genre /\ tx'[r].heure = heure
        /\ \A s \in Requetes \ {r} : tx'[s] = tx[s]
        /\ UNCHANGED <<rv, verrouCreneaux, verrouFiche>>
    BY <1>1 DEF Recevoir, TypeOK
  <2> QED
    BY <2>1 DEF Corps, HeuresTenues, VisiteControlee, FicheTenue, PlaceTenue
<1>2. ASSUME NEW r \in Requetes, VerrouillerCreneaux(r) PROVE Verrouille'
  <2>1. /\ tx[r].etape = "recu" /\ tx'[r].etape = "creneaux" /\ tx[r].genre = "site"
        /\ tx'[r].fiche = tx[r].fiche /\ tx'[r].genre = tx[r].genre /\ tx'[r].heure = tx[r].heure
        /\ \A s \in Requetes \ {r} : tx'[s] = tx[s]
        /\ verrouCreneaux = {} /\ verrouCreneaux' = {r} /\ UNCHANGED <<rv, verrouFiche>>
    BY <1>2 DEF VerrouillerCreneaux, CreneauxLibres, TypeOK, Tentatives
  <2>2. \A s \in Requetes : ~(tx[s].etape = "creneaux" \/ PlaceTenue(s))
    BY <2>1 DEF HeuresTenues
  <2> QED
    BY <2>1, <2>2 DEF Corps, HeuresTenues, VisiteControlee, FicheTenue, PlaceTenue
<1>3. ASSUME NEW r \in Requetes, AccorderPlace(r) PROVE Verrouille'
  <2>1. /\ tx[r].etape = "creneaux" /\ tx'[r].etape = "place"
        /\ tx'[r].fiche = tx[r].fiche /\ tx'[r].genre = tx[r].genre /\ tx'[r].heure = tx[r].heure
        /\ \A s \in Requetes \ {r} : tx'[s] = tx[s]
        /\ UNCHANGED <<rv, verrouCreneaux, verrouFiche>>
    BY <1>3 DEF AccorderPlace, TypeOK, Tentatives
  <2> QED
    BY <2>1 DEF Corps, HeuresTenues, VisiteControlee, FicheTenue, PlaceTenue
<1>4. ASSUME NEW r \in Requetes, RefuserPlace(r) \/ FicheIntrouvable(r) \/ Abandonner(r)
      PROVE  Verrouille'
  <2>1. Liberer(r, "refusee") /\ UNCHANGED rv
    BY <1>4 DEF RefuserPlace, FicheIntrouvable, Abandonner
  <2> QED
    BY <2>1, LibererVerrous
<1>5. ASSUME NEW r \in Requetes, VerrouillerFiche(r) PROVE Verrouille'
  <2>1. /\ Verifie(r) /\ tx'[r].etape = "fiche" /\ ~rv[tx[r].fiche].supprimee
        /\ tx'[r].fiche = tx[r].fiche /\ tx'[r].genre = tx[r].genre /\ tx'[r].heure = tx[r].heure
        /\ \A s \in Requetes \ {r} : tx'[s] = tx[s]
        /\ verrouFiche[tx[r].fiche] = {}
        /\ verrouFiche' = [verrouFiche EXCEPT ![tx[r].fiche] = {r}]
        /\ UNCHANGED <<rv, verrouCreneaux>>
    BY <1>5 DEF VerrouillerFiche, TypeOK, Tentatives
  <2>2. tx[r].fiche \in Fiches
    BY <2>1 DEF Verifie, Corps
  <2>3. \A s \in Requetes \ {r} : tx[s].etape = "fiche" => tx[s].fiche # tx[r].fiche
    BY <2>1 DEF FicheTenue
  <2>4. FicheTenue'
    BY <2>1, <2>2, <2>3 DEF FicheTenue, Corps, TypeOK
  <2>5. HeuresTenues'
    BY <2>1 DEF HeuresTenues, PlaceTenue, Verifie
  <2> QED
    BY <2>1, <2>4, <2>5 DEF Corps, VisiteControlee, Verifie
<1>6. ASSUME NEW r \in Requetes, ConclureVisite(r) \/ ConclureAutre(r) PROVE Verrouille'
  <2>1. /\ tx[r].etape = "fiche" /\ Liberer(r, "appliquee")
        /\ rv' = [rv EXCEPT ![tx[r].fiche] = ApresAppel(r)]
    BY <1>6 DEF ConclureVisite, ConclureAutre, Ecrire
  <2>2. ApresAppel(r).supprimee = rv[tx[r].fiche].supprimee
    BY <2>1, ApresAppelType
  <2>3. \A f \in Fiches : rv'[f].supprimee = rv[f].supprimee
    BY <2>1, <2>2 DEF TypeOK
  <2> QED
    BY <2>1, <2>3, LibererVerrous DEF Corps
<1>7. ASSUME NEW f \in Fiches, Suivi(f) PROVE Verrouille'
  <2>1. PICK l \in LignesRv : Ecriture(f, l)
    BY <1>7, SuiviEcrit
  <2>2. /\ verrouFiche[f] = {} /\ rv' = [rv EXCEPT ![f] = l]
        /\ UNCHANGED <<tx, verrouCreneaux, verrouFiche>>
    BY <2>1 DEF Ecriture, Ecrire
  <2>3. \A s \in Requetes : tx[s].etape = "fiche" => rv'[tx[s].fiche] = rv[tx[s].fiche]
    BY <2>2 DEF FicheTenue, Corps, TypeOK
  <2> QED
    BY <2>2, <2>3 DEF Corps, HeuresTenues, VisiteControlee, FicheTenue, PlaceTenue
<1>8. CASE UNCHANGED vars
  BY <1>8 DEF vars, Corps, HeuresTenues, VisiteControlee, FicheTenue, PlaceTenue
<1> QED
  BY <1>1, <1>2, <1>3, <1>4, <1>5, <1>6, <1>7, <1>8 DEF Next, Appel, Avancer

-----------------------------------------------------------------------------
(***************************************************************************)
(* The bounds.                                                               *)
(***************************************************************************)
(* A step that adds nobody to the hours it does not force, and grants no place. *)
LEMMA PasDeNouveau ==
  ASSUME CapaciteTenue, PlaceGardee,
         \A h \in Heures \ forcees' : Reserves(h)' \subseteq Reserves(h) /\ h \notin forcees,
         \A r \in Requetes : PlaceTenue(r)' => PlaceTenue(r) /\ tx'[r].heure = tx[r].heure
                                              /\ tx'[r].fiche = tx[r].fiche
                                              /\ tx[r].heure \in Heures
  PROVE  CapaciteTenue' /\ PlaceGardee'
<1>1. CapaciteTenue'
  BY Bornes DEF CapaciteTenue
<1>2. ASSUME NEW r \in Requetes, NEW h, NEW g, PlaceTenue(r)', tx'[r].heure = h,
             tx'[r].fiche = g, h \notin forcees'
      PROVE  Cardinality(Reserves(h)' \ {g}) < Capacite
  <2>1. h \in Heures \ forcees' /\ PlaceTenue(r) /\ tx[r].heure = h /\ tx[r].fiche = g
    BY <1>2
  <2> QED
    BY <2>1, Bornes
<1>3. PlaceGardee'
  BY <1>2, GardeeSuivante
<1> QED
  BY <1>1, <1>3

(* The rows do not change and no place is granted. *)
LEMMA LignesInchangees ==
  ASSUME CapaciteTenue, PlaceGardee, Corps, UNCHANGED <<rv, forcees>>,
         \A r \in Requetes : PlaceTenue(r)' => PlaceTenue(r) /\ tx'[r].heure = tx[r].heure
                                              /\ tx'[r].fiche = tx[r].fiche
  PROVE  CapaciteTenue' /\ PlaceGardee'
<1>1. \A h \in Heures \ forcees' : Reserves(h)' \subseteq Reserves(h) /\ h \notin forcees
  BY DEF Reserves
<1>2. \A r \in Requetes : PlaceTenue(r) => tx[r].heure \in Heures
  BY DEF PlaceTenue, Corps
<1> QED
  BY <1>1, <1>2, PasDeNouveau

LEMMA LibererPlaces ==
  ASSUME TypeOK, NEW r \in Requetes, NEW etape \in {"appliquee", "refusee"}, Liberer(r, etape)
  PROVE  \A s \in Requetes : PlaceTenue(s)' => s # r /\ PlaceTenue(s) /\ tx'[s] = tx[s]
BY DEF TypeOK, Liberer, Vide, PlaceTenue

LEMMA Capacites ==
  TypeOK /\ Verrouille /\ CapaciteTenue /\ PlaceGardee /\ [Next]_vars
    => CapaciteTenue' /\ PlaceGardee'
<1> SUFFICES ASSUME TypeOK, Verrouille, CapaciteTenue, PlaceGardee, [Next]_vars
             PROVE  CapaciteTenue' /\ PlaceGardee'
  OBVIOUS
<1>0. Corps /\ HeuresTenues /\ VisiteControlee /\ FicheTenue
  BY DEF Verrouille
<1>1. ASSUME NEW r \in Requetes, NEW f \in Fiches, NEW genre \in Genres, NEW heure \in Heures,
             NEW instant \in 1..InstantMax, Recevoir(r, f, genre, heure, instant)
      PROVE  CapaciteTenue' /\ PlaceGardee'
  BY <1>0, <1>1, LignesInchangees DEF Recevoir, TypeOK, PlaceTenue
<1>2. ASSUME NEW r \in Requetes, VerrouillerCreneaux(r) PROVE CapaciteTenue' /\ PlaceGardee'
  BY <1>0, <1>2, LignesInchangees DEF VerrouillerCreneaux, TypeOK, Tentatives, PlaceTenue
<1>3. ASSUME NEW r \in Requetes, AccorderPlace(r) PROVE CapaciteTenue' /\ PlaceGardee'
  <2>1. /\ tx[r].etape = "creneaux" /\ tx'[r].fiche = tx[r].fiche /\ tx'[r].heure = tx[r].heure
        /\ Cardinality(Reserves(tx[r].heure) \ {tx[r].fiche}) < Capacite
        /\ \A s \in Requetes \ {r} : tx'[s] = tx[s]
        /\ UNCHANGED <<rv, forcees>>
    BY <1>3 DEF AccorderPlace, ResteUnePlace, TypeOK, Tentatives
  <2>2. \A h : Reserves(h)' = Reserves(h)
    BY <2>1 DEF Reserves
  <2>3. CapaciteTenue'
    BY <2>1, <2>2 DEF CapaciteTenue
  <2>4. ASSUME NEW s \in Requetes, NEW h, NEW g, PlaceTenue(s)', tx'[s].heure = h,
               tx'[s].fiche = g, h \notin forcees'
        PROVE  Cardinality(Reserves(h)' \ {g}) < Capacite
    <3>1. CASE s = r
      BY <2>1, <2>2, <2>4, <3>1
    <3>2. CASE s # r
      <4>1. PlaceTenue(s) /\ tx'[s] = tx[s]
        BY <2>1, <2>4, <3>2 DEF PlaceTenue
      <4>2. Cardinality(Reserves(h) \ {g}) < Capacite
        BY <2>1, <2>4, <4>1 DEF PlaceGardee
      <4> QED
        BY <2>2, <4>2
    <3> QED
      BY <3>1, <3>2
  <2> QED
    BY <2>3, <2>4, GardeeSuivante
<1>4. ASSUME NEW r \in Requetes, RefuserPlace(r) \/ FicheIntrouvable(r) \/ Abandonner(r)
      PROVE  CapaciteTenue' /\ PlaceGardee'
  <2>1. Liberer(r, "refusee") /\ UNCHANGED <<rv, forcees>>
    BY <1>4 DEF RefuserPlace, FicheIntrouvable, Abandonner
  <2> QED
    BY <1>0, <2>1, LibererPlaces, LignesInchangees
<1>5. ASSUME NEW r \in Requetes, VerrouillerFiche(r) PROVE CapaciteTenue' /\ PlaceGardee'
  <2>1. /\ Verifie(r) /\ tx'[r].fiche = tx[r].fiche /\ tx'[r].heure = tx[r].heure
        /\ tx'[r].genre = tx[r].genre
        /\ \A s \in Requetes \ {r} : tx'[s] = tx[s]
        /\ UNCHANGED <<rv, forcees>>
    BY <1>5 DEF VerrouillerFiche, TypeOK, Tentatives
  <2>2. tx'[r].etape = "fiche" /\ (tx[r].etape = "place" \/ (tx[r].etape = "recu" /\ tx[r].genre # "site"))
    BY <1>5, <2>1 DEF VerrouillerFiche, Verifie, TypeOK, Tentatives
  <2> QED
    BY <1>0, <2>1, <2>2, LignesInchangees DEF PlaceTenue
<1>6. ASSUME NEW r \in Requetes, ConclureVisite(r) PROVE CapaciteTenue' /\ PlaceGardee'
  <2>0. /\ tx[r].etape = "fiche" /\ tx[r].genre = "site" /\ Liberer(r, "appliquee")
        /\ rv' = [rv EXCEPT ![tx[r].fiche] = ApresAppel(r)] /\ UNCHANGED forcees
    BY <1>6 DEF ConclureVisite
  <2>2. PICK f \in Fiches, k \in Heures : f = tx[r].fiche /\ k = tx[r].heure
    BY <1>0, <2>0 DEF Corps
  <2>1. rv' = [rv EXCEPT ![f] = ApresAppel(r)]
    BY <2>0, <2>2
  <2>3. \A h \in Heures : Occupe(ApresAppel(r), h) => h = k
    BY <1>0, <2>0, <2>2, SaPlace
  <2>4. \A h \in Heures : Reserves(h)' \subseteq Reserves(h) \union {f}
    BY <2>1, <2>2 DEF Reserves, TypeOK
  <2>5. \A h \in Heures : h # k => Reserves(h)' \subseteq Reserves(h)
    BY <2>1, <2>2, <2>3 DEF Reserves, TypeOK
  <2>6. PlaceTenue(r) /\ \A s \in Requetes \ {r} : ~PlaceTenue(s)
    BY <1>0, <2>0 DEF HeuresTenues, PlaceTenue
  <2>7. PlaceGardee'
    BY <2>0, <2>6, LibererPlaces DEF PlaceGardee
  <2>8. ASSUME NEW h \in Heures \ forcees' PROVE Cardinality(Reserves(h)') <= Capacite
    <3>1. CASE h = k
      <4>1. Cardinality(Reserves(k) \ {f}) < Capacite
        BY <2>0, <2>2, <2>6, <2>8, <3>1 DEF PlaceGardee
      <4>2. IsFiniteSet(Reserves(k)) /\ IsFiniteSet(Reserves(k) \ {f})
        BY ReservesFinies, FS_Subset
      <4>3. Reserves(k)' \ {f} \subseteq Reserves(k) \ {f}
        BY <2>2, <2>4
      <4>4. Cardinality(Reserves(k)' \ {f}) < Capacite
        BY <4>1, <4>2, <4>3, Moins, CapaciteAssumption
      <4>5. IsFiniteSet(Reserves(k)')
        <5>1. Reserves(k)' \subseteq Fiches
          BY DEF Reserves
        <5> QED
          BY <5>1, FS_Subset, FichesAssumption
      <4>6. Cardinality(Reserves(k)') <= Capacite
        BY <4>4, <4>5, UneDeMoins, CapaciteAssumption
      <4>7. Reserves(h)' = Reserves(k)'
        BY <3>1 DEF Reserves
      <4> QED
        BY <4>6, <4>7
    <3>2. CASE h # k
      BY <2>0, <2>5, <2>8, <3>2, Bornes
    <3> QED
      BY <3>1, <3>2
  <2> QED
    BY <2>7, <2>8 DEF CapaciteTenue
<1>7. ASSUME NEW r \in Requetes, ConclureAutre(r) PROVE CapaciteTenue' /\ PlaceGardee'
  <2>1. /\ tx[r].etape = "fiche" /\ Liberer(r, "appliquee")
        /\ Ecrire(tx[r].fiche, ApresAppel(r))
    BY <1>7 DEF ConclureAutre
  <2>2. tx[r].fiche \in Fiches
    BY <1>0, <2>1 DEF Corps
  <2>3. \A h \in Heures \ forcees' : Reserves(h)' \subseteq Reserves(h) /\ h \notin forcees
    BY <2>1, <2>2, EcrireDecroit
  <2>4. \A s \in Requetes : PlaceTenue(s)' => PlaceTenue(s) /\ tx'[s] = tx[s] /\ tx[s].heure \in Heures
    BY <1>0, <2>1, LibererPlaces DEF Corps, PlaceTenue
  <2> QED
    BY <2>3, <2>4, PasDeNouveau
<1>8. ASSUME NEW f \in Fiches, Suivi(f) PROVE CapaciteTenue' /\ PlaceGardee'
  <2>1. PICK l \in LignesRv : Ecriture(f, l)
    BY <1>8, SuiviEcrit
  <2>2. \A h \in Heures \ forcees' : Reserves(h)' \subseteq Reserves(h) /\ h \notin forcees
    BY <2>1, EcrireDecroit DEF Ecriture
  <2>3. \A s \in Requetes : PlaceTenue(s)' => PlaceTenue(s) /\ tx' = tx /\ tx[s].heure \in Heures
    BY <1>0, <2>1 DEF Ecriture, Corps, PlaceTenue
  <2> QED
    BY <2>2, <2>3, PasDeNouveau
<1>9. CASE UNCHANGED vars
  BY <1>0, <1>9, LignesInchangees DEF vars, PlaceTenue
<1> QED
  BY <1>1, <1>2, <1>3, <1>4, <1>5, <1>6, <1>7, <1>8, <1>9 DEF Next, Appel, Avancer

-----------------------------------------------------------------------------
(***************************************************************************)
(* The visits counted.                                                       *)
(***************************************************************************)
(* A recent visit occupies the hour it was granted. *)
LEMMA SaPlacePrise ==
  ASSUME TypeOK, Corps, FicheTenue, NEW r \in Requetes, tx[r].etape = "fiche",
         tx[r].genre = "site", Recent(r)
  PROVE  Occupe(ApresAppel(r), tx[r].heure)
<1> DEFINE l == rv[tx[r].fiche]
<1>1. tx[r].fiche \in Fiches /\ l \in LignesRv /\ ~l.supprimee
  BY DEF Corps, TypeOK, FicheTenue
<1>2. /\ ApresAppel(r).reporte = Rien /\ ApresAppel(r).quand = tx[r].heure
      /\ ApresAppel(r).confirmation = Rien /\ ApresAppel(r).issue = Rien
  BY <1>1 DEF ApresAppel, Conclue, RendezVous, LignesRv
<1>3. ApresAppel(r).site /\ ApresAppel(r).rdv
  BY <1>1 DEF ApresAppel, Conclue, RendezVous, LignesRv
<1>4. ~ApresAppel(r).supprimee
  BY <1>1, ApresAppelType
<1> QED
  BY <1>2, <1>3, <1>4, RienAssumption DEF Occupe

LEMMA EcrireComptee ==
  ASSUME TypeOK, PlaceComptee, NEW f \in Fiches, NEW l, Ecrire(f, l)
  PROVE  PlaceComptee'
<1>1. accordee'[f] = Rien /\ \A g \in Fiches \ {f} : accordee'[g] = accordee[g] /\ rv'[g] = rv[g]
  BY DEF Ecrire, TypeOK
<1> QED
  BY <1>1 DEF PlaceComptee, Reserves

LEMMA Comptees ==
  TypeOK /\ Verrouille /\ PlaceComptee /\ [Next]_vars => PlaceComptee'
<1> SUFFICES ASSUME TypeOK, Verrouille, PlaceComptee, [Next]_vars PROVE PlaceComptee'
  OBVIOUS
<1>0. Corps /\ FicheTenue
  BY DEF Verrouille
<1>1. CASE UNCHANGED <<rv, accordee>>
  BY <1>1 DEF PlaceComptee, Reserves
<1>2. ASSUME NEW r \in Requetes, ConclureVisite(r) PROVE PlaceComptee'
  <2>1. /\ tx[r].etape = "fiche" /\ tx[r].genre = "site"
        /\ rv' = [rv EXCEPT ![tx[r].fiche] = ApresAppel(r)]
        /\ accordee' = [accordee EXCEPT ![tx[r].fiche] = IF Recent(r) THEN tx[r].heure ELSE Rien]
    BY <1>2 DEF ConclureVisite
  <2>2. tx[r].fiche \in Fiches
    BY <1>0, <2>1 DEF Corps
  <2>3. \A g \in Fiches : g # tx[r].fiche => accordee'[g] = accordee[g] /\ rv'[g] = rv[g]
    BY <2>1 DEF TypeOK
  <2>4. /\ rv'[tx[r].fiche] = ApresAppel(r)
        /\ accordee'[tx[r].fiche] = IF Recent(r) THEN tx[r].heure ELSE Rien
    BY <2>1, <2>2 DEF TypeOK
  <2>5. Recent(r) => Occupe(ApresAppel(r), tx[r].heure)
    BY <1>0, <2>1, SaPlacePrise
  <2>6. ASSUME NEW g \in Fiches, accordee'[g] # Rien PROVE Occupe(rv'[g], accordee'[g])
    <3>1. CASE g = tx[r].fiche
      BY <2>4, <2>5, <2>6, <3>1
    <3>2. CASE g # tx[r].fiche
      BY <2>3, <2>6, <3>2 DEF PlaceComptee, Reserves
    <3> QED
      BY <3>1, <3>2
  <2> QED
    BY <2>6 DEF PlaceComptee, Reserves
<1>3. ASSUME NEW r \in Requetes, ConclureAutre(r) PROVE PlaceComptee'
  BY <1>0, <1>3, EcrireComptee DEF ConclureAutre, Corps
<1>4. ASSUME NEW f \in Fiches, Suivi(f) PROVE PlaceComptee'
  BY <1>4, SuiviEcrit, EcrireComptee DEF Ecriture
<1>5. ASSUME NEW r \in Requetes, Appel(r), ~ConclureVisite(r), ~ConclureAutre(r)
      PROVE  UNCHANGED <<rv, accordee>>
  BY <1>5 DEF Appel, Avancer, Recevoir, VerrouillerCreneaux, AccorderPlace, RefuserPlace,
              VerrouillerFiche, FicheIntrouvable, Abandonner
<1>6. UNCHANGED vars => UNCHANGED <<rv, accordee>>
  BY DEF vars
<1> QED
  BY <1>1, <1>2, <1>3, <1>4, <1>5, <1>6 DEF Next

-----------------------------------------------------------------------------
(***************************************************************************)
(* The theorems.                                                             *)
(***************************************************************************)
LEMMA Initial == Init => IInv
<1> SUFFICES ASSUME Init PROVE IInv
  OBVIOUS
<1>1. Vide("libre") \in Tentatives
  BY DEF Vide, Tentatives, Etapes
<1>2. TypeOK
  BY <1>1, BornesAssumption DEF Init, TypeOK, LignesRv, Confirmations
<1>3. Verrouille /\ PlaceGardee
  BY DEF Init, Vide, Verrouille, Corps, HeuresTenues, VisiteControlee, FicheTenue, PlaceGardee, PlaceTenue
<1>4. \A h \in Heures : Reserves(h) = {}
  BY DEF Init, Reserves, Occupe
<1>5. CapaciteTenue
  BY <1>4, FS_EmptySet, CapaciteAssumption DEF CapaciteTenue
<1> QED
  BY <1>2, <1>3, <1>5 DEF IInv

LEMMA Inductif == IInv /\ [Next]_vars => IInv'
BY Typage, Exclusion, Capacites DEF IInv, Verrouille

LEMMA Sure == Spec => []IInv
BY Initial, Inductif, PTL DEF Spec

(* The columns of an appointment and the requests are well typed, and every       *)
(* appointment has a date.                                                       *)
THEOREM TypeCorrect == Spec => []TypeOK
<1>1. IInv => TypeOK
  BY DEF IInv
<1> QED
  BY <1>1, Sure, PTL

(* "deux RV simultanes ne voient pas la meme place libre": the advisory lock of    *)
(* rvSiteChoixDisponible is enough for the calls between them, whatever the other   *)
(* writers do, but at the hours these writers gave away themselves.               *)
THEOREM HeuresJamaisDepassees == Spec => []CapaciteTenue
<1>1. IInv => CapaciteTenue
  BY DEF IInv
<1> QED
  BY <1>1, Sure, PTL

(* The count read under the advisory lock still holds when the fiche is written.  *)
THEOREM ControleEncoreVrai == Spec => []PlaceGardee
<1>1. IInv => PlaceGardee
  BY DEF IInv
<1> QED
  BY <1>1, Sure, PTL

(* A visit granted by the latest call is counted by the checks that follow until    *)
(* somebody writes the fiche again.                                              *)
THEOREM VisiteToujoursComptee == Spec => []PlaceComptee
<1>1. Init => PlaceComptee
  BY DEF Init, PlaceComptee
<1>2. IInv /\ PlaceComptee /\ [Next]_vars => PlaceComptee'
  BY Comptees DEF IInv
<1> QED
  BY <1>1, <1>2, Sure, PTL DEF Spec
=============================================================================
