------------------------- MODULE RepresentantProofs -------------------------
(***************************************************************************)
(* The relation of a representative, its journal and its status agree, for     *)
(* every referential and any number of requests.                                *)
(***************************************************************************)
EXTENDS Representant, TLAPS

-----------------------------------------------------------------------------
(***************************************************************************)
(* The operators every writer is built from.                                 *)
(***************************************************************************)
(* The trigger touches the status and nothing else. *)
LEMMA Declencheur ==
  ASSUME NEW f \in Fiches
  PROVE  /\ AmbassadeurVautAccepte(f) \in Fiches
         /\ AmbassadeurVautAccepte(f).relation = f.relation
         /\ AmbassadeurVautAccepte(f).supprimee = f.supprimee
         /\ f.relation = "AMBASSADEUR" => AmbassadeurVautAccepte(f).statut = Accepte
BY ReferentielAssumption DEF AmbassadeurVautAccepte, Fiches, Relations

LEMMA RappelType ==
  ASSUME NEW rappel \in BOOLEAN, NEW s \in Statuts
  PROVE  ProchainRappel(rappel, s) \in {"PROMIS", "AUTOMATIQUE", Rien}
BY DEF ProchainRappel

LEMMA PoseType ==
  ASSUME NEW s \in Statuts
  PROVE  /\ Referentiel[s].relation \in Rattachements \union {Rien}
         /\ Referentiel[s].rappel \in BOOLEAN
BY ReferentielAssumption

(* What a call or a status asks for is a relation, or nothing. *)
LEMMA RelationAPoserType ==
  ASSUME NEW repondue \in Relations \union {Rien}, NEW posee \in Rattachements \union {Rien},
         NEW courante \in Relations
  PROVE  RelationAPoser(repondue, posee, courante) \in Relations \union {Rien}
BY DEF RelationAPoser, Relations, Rattachements

(* A status never asks for a passage the state machine refuses. *)
LEMMA StatutLegal ==
  ASSUME NEW posee \in Rattachements \union {Rien}, NEW courante \in Relations,
         RelationAPoser(Rien, posee, courante) # Rien
  PROVE  TransitionLegale(courante, RelationAPoser(Rien, posee, courante))
BY DEF RelationAPoser

-----------------------------------------------------------------------------
(***************************************************************************)
(* Whoever calls it, what the guarded update does to the relation and the     *)
(* journal.                                                                   *)
(***************************************************************************)
Passage(vers) == /\ fiche'.relation = vers
                 /\ journal' = Append(journal, [depuis |-> fiche.relation, vers |-> vers])
                 /\ ~fiche.supprimee
                 /\ vers \in TransitionsRelation[fiche.relation]

SurPlace == fiche'.relation = fiche.relation /\ journal' = journal

Accorde == fiche'.relation = "AMBASSADEUR" => fiche'.statut = Accepte

LEMMA BasculeSure ==
  ASSUME TypeOK, AmbassadeurAccepte,
         NEW f \in Fiches, f.relation = fiche.relation, f.supprimee = fiche.supprimee,
         f.relation = "AMBASSADEUR" => f.statut = Accepte,
         NEW depuis \in Relations, NEW vers \in Relations \union {Rien},
         vers = Rien \/ TransitionLegale(depuis, vers),
         BasculerRelation(f, depuis, vers)
  PROVE  /\ fiche' \in Fiches /\ Accorde
         /\ SurPlace \/ (vers \in Relations /\ Passage(vers))
         /\ journal' \in Seq([depuis : Relations, vers : Relations])
<1> DEFINE Change == [f EXCEPT !.relation = vers]
<1>1. CASE Bascule(f, depuis, vers)
  <2>1. /\ vers \in Relations /\ vers # depuis /\ f.relation = depuis /\ ~f.supprimee
        /\ vers \in TransitionsRelation[depuis]
    BY <1>1 DEF Bascule, TransitionLegale
  <2>2. Change \in Fiches /\ Change.relation = vers
    BY <2>1 DEF Fiches
  <2>3. fiche' = AmbassadeurVautAccepte(Change)
    BY <1>1 DEF BasculerRelation
  <2>4. fiche' \in Fiches /\ fiche'.relation = vers /\ Accorde
    BY <2>2, <2>3, Declencheur DEF Accorde
  <2>5. journal' = Append(journal, [depuis |-> fiche.relation, vers |-> vers])
    BY <1>1, <2>1 DEF BasculerRelation
  <2>6. journal' \in Seq([depuis : Relations, vers : Relations])
    <3>1. journal \in Seq([depuis : Relations, vers : Relations])
      BY DEF TypeOK
    <3>2. [depuis |-> fiche.relation, vers |-> vers] \in [depuis : Relations, vers : Relations]
      BY <2>1
    <3> QED
      BY <2>5, <3>1, <3>2
  <2> QED
    BY <2>1, <2>4, <2>5, <2>6 DEF Passage
<1>2. CASE ~Bascule(f, depuis, vers)
  BY <1>2 DEF BasculerRelation, Accorde, SurPlace, TypeOK
<1> QED
  BY <1>1, <1>2

-----------------------------------------------------------------------------
(***************************************************************************)
(* What each writer of the row does.                                          *)
(***************************************************************************)
Effet == /\ fiche' \in Fiches /\ Accorde
         /\ SurPlace \/ \E vers \in Relations : Passage(vers)
         /\ journal' \in Seq([depuis : Relations, vers : Relations])

(* A call that writes: the row after the call, then the passage it was judged on. *)
LEMMA AppelEcrit ==
  ASSUME TypeOK, AmbassadeurAccepte, NEW r \in Requetes, Ecrire(r)
  PROVE  Effet /\ tentatives' \subseteq Appels
<1> DEFINE lu == requetes[r]
           vers == RelationAPoser(lu.appel.repondue, Referentiel[lu.appel.statut].relation, lu.relation)
<1>1. lu \in EtatsRequete /\ lu.appel \in Appels
  BY DEF TypeOK, Ecrire
<1>2. /\ lu.appel.statut \in Statuts /\ lu.appel.repondue \in Relations \union {Rien}
      /\ lu.appel.at \in Instants /\ lu.appel.rappel \in BOOLEAN
      /\ lu.relation \in Relations
  BY <1>1 DEF Appels, EtatsRequete, Instants
<1>3. vers \in Relations \union {Rien}
  BY <1>2, PoseType, RelationAPoserType
<1>4. CASE UNCHANGED <<fiche, journal, tentatives>>
  BY <1>4 DEF Effet, Accorde, SurPlace, TypeOK, AmbassadeurAccepte
<1>5. CASE /\ vers = Rien \/ TransitionLegale(lu.relation, vers)
           /\ tentatives' = tentatives \union {lu.appel}
           /\ BasculerRelation(MajApresAppel(lu), lu.relation, vers)
  <2> DEFINE a == lu.appel
             dernier == lu.dernierAppel = 0 \/ a.at >= lu.dernierAppel
             ecrite == [fiche EXCEPT !.statut = a.statut,
                          !.dernierAppel = IF dernier THEN a.at ELSE @,
                          !.rappel = IF dernier THEN ProchainRappel(a.rappel, a.statut) ELSE @]
  <2>1. ProchainRappel(a.rappel, a.statut) \in {"PROMIS", "AUTOMATIQUE", Rien}
    BY <1>2, RappelType
  <2>2. /\ ecrite \in Fiches /\ ecrite.relation = fiche.relation
        /\ ecrite.supprimee = fiche.supprimee
    BY <1>2, <2>1 DEF Fiches, TypeOK
  <2>3. MajApresAppel(lu) = AmbassadeurVautAccepte(ecrite)
    BY DEF MajApresAppel
  <2> HIDE DEF ecrite
  <2>4. /\ MajApresAppel(lu) \in Fiches
        /\ MajApresAppel(lu).relation = fiche.relation
        /\ MajApresAppel(lu).supprimee = fiche.supprimee
        /\ MajApresAppel(lu).relation = "AMBASSADEUR" => MajApresAppel(lu).statut = Accepte
    BY <2>2, <2>3, Declencheur
  <2> HIDE DEF vers, lu
  <2>5. Effet
    BY <1>2, <1>3, <1>5, <2>4, BasculeSure DEF Effet
  <2> QED
    BY <1>1, <1>5, <2>5 DEF TypeOK
<1> QED
  BY <1>4, <1>5 DEF Ecrire

(* A requalification: the status, judged on the relation read before. *)
LEMMA RequalificationEcrite ==
  ASSUME TypeOK, AmbassadeurAccepte, RequalifierEcrire
  PROVE  Effet
<1> DEFINE s == geste.statut
           ecrite == [fiche EXCEPT !.statut = s, !.rappel = ProchainRappel(Referentiel[s].rappel, s)]
           vers == RelationAPoser(Rien, Referentiel[s].relation, geste.relation)
<1>1. s \in Statuts /\ geste.relation \in Relations
  BY DEF RequalifierEcrire, TypeOK
<1>2. ProchainRappel(Referentiel[s].rappel, s) \in {"PROMIS", "AUTOMATIQUE", Rien}
  BY <1>1, RappelType, PoseType
<1>3. /\ ecrite \in Fiches /\ ecrite.relation = fiche.relation
      /\ ecrite.supprimee = fiche.supprimee
  BY <1>1, <1>2 DEF Fiches, TypeOK
<1>4. /\ vers \in Relations \union {Rien}
      /\ vers = Rien \/ TransitionLegale(geste.relation, vers)
  BY <1>1, PoseType, RelationAPoserType, StatutLegal
<1>5. BasculerRelation(AmbassadeurVautAccepte(ecrite), geste.relation, vers)
  BY DEF RequalifierEcrire
<1> HIDE DEF ecrite, vers
<1>6. /\ AmbassadeurVautAccepte(ecrite) \in Fiches
      /\ AmbassadeurVautAccepte(ecrite).relation = fiche.relation
      /\ AmbassadeurVautAccepte(ecrite).supprimee = fiche.supprimee
      /\ fiche.relation = "AMBASSADEUR" => AmbassadeurVautAccepte(ecrite).statut = Accepte
  BY <1>3, Declencheur
<1> QED
  BY <1>1, <1>4, <1>5, <1>6, BasculeSure DEF Effet

(* The file: the relation the edit was made on is the one of the row. *)
LEMMA ModificationEcrite ==
  ASSUME TypeOK, AmbassadeurAccepte, NEW vers \in Relations, ModifierRelation(vers)
  PROVE  Effet
<1>1. /\ fiche \in Fiches /\ fiche.relation \in Relations
      /\ TransitionLegale(fiche.relation, vers)
      /\ BasculerRelation(fiche, fiche.relation, vers)
  BY DEF ModifierRelation, TransitionLegale, TypeOK, Fiches
<1> QED
  BY <1>1, BasculeSure DEF Effet, AmbassadeurAccepte

LEMMA SuppressionEcrite ==
  ASSUME TypeOK, AmbassadeurAccepte, Supprimer
  PROVE  Effet
BY DEF Supprimer, Effet, Accorde, SurPlace, TypeOK, AmbassadeurAccepte, Fiches

(* A step writes the row in one of these ways, or leaves the row and its journal. *)
LEMMA ChaquePas ==
  ASSUME TypeOK, AmbassadeurAccepte, [Next]_vars
  PROVE  Effet
<1>1. CASE UNCHANGED <<fiche, journal>>
  BY <1>1 DEF Effet, Accorde, SurPlace, TypeOK, AmbassadeurAccepte
<1>2. ASSUME NEW r \in Requetes, Ecrire(r) PROVE Effet
  BY <1>2, AppelEcrit
<1>3. ASSUME NEW vers \in Relations, ModifierRelation(vers) PROVE Effet
  BY <1>3, ModificationEcrite
<1>4. \/ \E r \in Requetes : Ecrire(r)
      \/ RequalifierEcrire
      \/ \E vers \in Relations : ModifierRelation(vers)
      \/ Supprimer
      \/ UNCHANGED <<fiche, journal>>
  BY DEF Next, vars, EnvoyerRequete, Repondre, Lire, RequalifierLire
<1> QED
  BY <1>1, <1>2, <1>3, <1>4, RequalificationEcrite, SuppressionEcrite

-----------------------------------------------------------------------------
(***************************************************************************)
(* The strengthening: types, and the ambassador, which the trigger keeps.      *)
(***************************************************************************)
IInv == TypeOK /\ AmbassadeurAccepte

LEMMA InitInv == Init => IInv
BY BornesAssumption
DEF Init, IInv, TypeOK, AmbassadeurAccepte, Fiches, Relations, Instants, EtatsRequete, RequeteNeuve

LEMMA TypeSuivant ==
  ASSUME TypeOK, AmbassadeurAccepte, [Next]_vars
  PROVE  TypeOK'
<1>1. fiche' \in Fiches /\ journal' \in Seq([depuis : Relations, vers : Relations])
  BY ChaquePas DEF Effet
<1>2. tentatives' \subseteq Appels
  <2>1. ASSUME NEW r \in Requetes, Ecrire(r) PROVE tentatives' \subseteq Appels
    BY <2>1, AppelEcrit
  <2>2. (\E r \in Requetes : Ecrire(r)) \/ tentatives' = tentatives
    BY DEF Next, vars, EnvoyerRequete, Repondre, Lire, RequalifierLire, RequalifierEcrire,
           ModifierRelation, Supprimer
  <2> QED
    BY <2>1, <2>2 DEF TypeOK
<1>3. /\ requetes' \in [Requetes -> EtatsRequete]
      /\ \A r \in Requetes : requetes'[r].etape # "neuve" => requetes'[r].appel \in Appels
  <2>1. ASSUME NEW r \in Requetes, NEW a \in Appels, EnvoyerRequete(r, a) PROVE <1>3!:
    <3>1. [requetes[r] EXCEPT !.etape = "recue", !.appel = a] \in EtatsRequete
      BY DEF TypeOK, EtatsRequete
    <3>2. requetes' = [requetes EXCEPT ![r] = [requetes[r] EXCEPT !.etape = "recue", !.appel = a]]
      BY <2>1 DEF EnvoyerRequete, TypeOK
    <3>3. requetes'[r].appel = a
      BY <3>2 DEF TypeOK, EtatsRequete
    <3> QED
      BY <3>1, <3>2, <3>3 DEF TypeOK
  <2>2. ASSUME NEW r \in Requetes, Lire(r) PROVE <1>3!:
    <3> DEFINE lu == [requetes[r] EXCEPT !.etape = "lue", !.relation = fiche.relation,
                                         !.dernierAppel = fiche.dernierAppel]
    <3>1. lu \in EtatsRequete /\ lu.appel = requetes[r].appel /\ requetes[r].etape # "neuve"
      BY <2>2 DEF TypeOK, EtatsRequete, Fiches, Lire
    <3>2. requetes' = [requetes EXCEPT ![r] = lu]
      BY <2>2 DEF Lire, TypeOK
    <3> HIDE DEF lu
    <3> QED
      BY <3>1, <3>2 DEF TypeOK
  <2>3. ASSUME NEW r \in Requetes, Repondre(r) \/ Ecrire(r) PROVE <1>3!:
    <3> DEFINE finie == [requetes[r] EXCEPT !.etape = "faite"]
    <3>1. /\ finie \in EtatsRequete /\ finie.appel = requetes[r].appel
          /\ requetes[r].etape # "neuve"
      BY <2>3 DEF TypeOK, EtatsRequete, Repondre, Ecrire
    <3>2. requetes' = [requetes EXCEPT ![r] = finie]
      BY <2>3 DEF Repondre, Ecrire, Finir, TypeOK
    <3> HIDE DEF finie
    <3> QED
      BY <3>1, <3>2 DEF TypeOK
  <2>4. CASE requetes' = requetes
    BY <2>4 DEF TypeOK
  <2>5. \/ \E r \in Requetes : (\E a \in Appels : EnvoyerRequete(r, a)) \/ Lire(r) \/ Repondre(r) \/ Ecrire(r)
        \/ requetes' = requetes
    BY DEF Next, vars, RequalifierLire, RequalifierEcrire, ModifierRelation, Supprimer
  <2> QED
    BY <2>1, <2>2, <2>3, <2>4, <2>5
<1>4. /\ geste' \in [statut : Statuts \union {Rien}, relation : Relations]
      /\ gestes' \in 0..GestesMax
  <2>1. ASSUME NEW s \in Statuts, RequalifierLire(s) PROVE <1>4!:
    BY <2>1, BornesAssumption DEF RequalifierLire, TypeOK, Fiches
  <2>2. CASE RequalifierEcrire
    BY <2>2 DEF RequalifierEcrire, TypeOK
  <2>3. CASE UNCHANGED geste /\ gestes' \in 0..GestesMax
    BY <2>3 DEF TypeOK
  <2>4. CASE UNCHANGED <<geste, gestes>>
    BY <2>4 DEF TypeOK
  <2>5. CASE geste' = geste /\ gestes < GestesMax /\ gestes' = gestes + 1
    BY <2>5, BornesAssumption DEF TypeOK
  <2> QED
    BY <2>1, <2>2, <2>4, <2>5
    DEF Next, vars, EnvoyerRequete, Lire, Repondre, Ecrire, ModifierRelation, Supprimer
<1> QED
  BY <1>1, <1>2, <1>3, <1>4 DEF TypeOK

LEMMA Inductif == IInv /\ [Next]_vars => IInv'
BY ChaquePas, TypeSuivant DEF IInv, Effet, Accorde, AmbassadeurAccepte

(* The row and the journal follow each other from the types and the trigger alone. *)
THEOREM Invariant == Spec => []IInv
BY InitInv, Inductif, PTL DEF Spec

-----------------------------------------------------------------------------
(* The row, the journal, the requests and the gestures keep their types. *)
THEOREM TypeCorrect == Spec => []TypeOK
BY Invariant, PTL DEF IInv

(* An ambassador is an accepted one: the status of a call that says otherwise, or  *)
(* a requalification, does not survive the trigger of the database.                *)
THEOREM AmbassadeurToujoursAccepte == Spec => []AmbassadeurAccepte
BY Invariant, PTL DEF IInv

(* However old the row a passage was judged on, the relation only takes passages    *)
(* of its state machine: the update demands the relation that was read.              *)
THEOREM PassagesLegaux == Spec => RelationLegale
<1>1. ASSUME IInv, [Next]_vars
      PROVE  fiche'.relation # fiche.relation =>
               ~fiche.supprimee /\ fiche'.relation \in TransitionsRelation[fiche.relation]
  BY <1>1, ChaquePas DEF IInv, Effet, SurPlace, Passage
<1> QED
  BY <1>1, Invariant, PTL DEF Spec, RelationLegale

(* The journal retells the relation, passage after passage, though nothing locks    *)
(* the row between the reading and the update.                                       *)
THEOREM JournalToujoursFidele == Spec => []JournalFidele
<1>1. Init => JournalFidele
  BY DEF Init, JournalFidele
<1>2. ASSUME IInv, JournalFidele, [Next]_vars
      PROVE  JournalFidele'
  <2>1. Effet
    BY <1>2, ChaquePas DEF IInv
  <2>2. CASE SurPlace
    BY <1>2, <2>2 DEF SurPlace, JournalFidele
  <2>3. ASSUME NEW vers \in Relations, Passage(vers) PROVE JournalFidele'
    <3> DEFINE n == Len(journal)
               pas == [depuis |-> fiche.relation, vers |-> vers]
    <3>1. journal \in Seq([depuis : Relations, vers : Relations])
      BY <1>2 DEF IInv, TypeOK
    <3>2. /\ n \in Nat /\ Len(journal') = n + 1 /\ DOMAIN journal = 1..n /\ DOMAIN journal' = 1..(n + 1)
          /\ \A i \in 1..n : journal'[i] = journal[i]
          /\ journal'[n + 1] = pas
      BY <2>3, <3>1 DEF Passage
    <3>3. fiche.relation = (IF n = 0 THEN "INCONNU" ELSE journal[n].vers)
      BY <1>2 DEF JournalFidele
    <3>4. \A i \in 1..n : journal[i].depuis = (IF i - 1 = 0 THEN "INCONNU" ELSE journal[i - 1].vers)
      BY <1>2, <3>2 DEF JournalFidele
    <3>5. ASSUME NEW i \in 1..(n + 1)
          PROVE  journal'[i].depuis = (IF i - 1 = 0 THEN "INCONNU" ELSE journal'[i - 1].vers)
      <4>1. CASE i = n + 1
        BY <3>2, <3>3, <4>1
      <4>2. CASE i \in 1..n
        <5>1. i - 1 = 0 \/ i - 1 \in 1..n
          BY <3>2, <4>2
        <5> QED
          BY <3>2, <3>4, <4>2, <5>1
      <4> QED
        BY <3>2, <4>1, <4>2
    <3>6. fiche'.relation = journal'[Len(journal')].vers /\ Len(journal') # 0
      BY <2>3, <3>2 DEF Passage
    <3> QED
      BY <3>2, <3>5, <3>6 DEF JournalFidele
  <2> QED
    BY <2>1, <2>2, <2>3 DEF Effet
<1> QED
  BY <1>1, <1>2, Invariant, PTL DEF Spec

(* A call already written is written no second time, though its request read the    *)
(* row before: the insertion refuses its identifier.                                 *)
THEOREM RejeuInerte == Spec => RejeuSansEffet
<1>1. ASSUME [Next]_vars
      PROVE  \A r \in Requetes :
               requetes'[r] # requetes[r] /\ requetes[r].appel \in tentatives => fiche' = fiche
  <2> SUFFICES ASSUME NEW r \in Requetes, requetes'[r] # requetes[r], requetes[r].appel \in tentatives
               PROVE  fiche' = fiche
    OBVIOUS
  <2>1. ASSUME NEW q \in Requetes, Ecrire(q) PROVE fiche' = fiche
    <3>1. q = r
      BY <2>1 DEF Ecrire, Finir
    <3>2. DejaEcrite(q)
      BY <3>1 DEF DejaEcrite
    <3> QED
      BY <2>1, <3>2 DEF Ecrire
  <2>2. (\E q \in Requetes : Ecrire(q)) \/ fiche' = fiche \/ requetes' = requetes
    BY <1>1 DEF Next, vars, EnvoyerRequete, Repondre, Lire, RequalifierLire, RequalifierEcrire,
                ModifierRelation, Supprimer
  <2> QED
    BY <2>1, <2>2
<1> QED
  BY <1>1, PTL DEF Spec, RejeuSansEffet
=============================================================================
