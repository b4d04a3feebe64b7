------------------------- MODULE ConsignationProofs -------------------------
(***************************************************************************)
(* The recording of a call: its identifier, what the screen announces, the      *)
(* dossier that must precede the call, and the opening it closes, for every       *)
(* catalogue of outcomes and any number of openings, sendings and losses.          *)
(***************************************************************************)
EXTENDS Consignation, FiniteSetTheorems, WellFoundedInduction, TLAPS

(***************************************************************************)
(* What the draft and the rows of the openings keep, whichever console uses    *)
(* them.                                                                         *)
(***************************************************************************)
Lignes == [draft : Saisies \union {Rien}, fermee : BOOLEAN, creee : BOOLEAN, puts : 0..PutsMax]

Puts == [n : 1..PutsMax, ouverture : Ouvertures, charge : Saisies,
         etat : {"parti", "accepte", "refuse"}]

(* The openings are numbered as they are made, and only one that was made is closed. *)
Numerotees(n) == \A o \in Ouvertures : lignes[o].creee <=> o <= n

LignesSuivies ==
  /\ \E n \in 0..OuverturesMax : Numerotees(n)
  /\ \A o \in Ouvertures : lignes[o].fermee => lignes[o].creee

BrouillonInv ==
  /\ BrouillonTypeOK /\ LignesSuivies
  /\ ouverture # 0 => lignes[ouverture].creee

(* What a step leaves of the rows: those made and closed stay so, and a closed one  *)
(* keeps its draft.                                                                  *)
LignesGardees ==
  \A o \in Ouvertures :
    /\ lignes[o].creee => lignes'[o].creee
    /\ lignes'[o].fermee = lignes[o].fermee
    /\ lignes[o].fermee => lignes'[o].draft = lignes[o].draft

-----------------------------------------------------------------------------
(***************************************************************************)
(* Counting, and the latest of the openings.                                  *)
(***************************************************************************)
LEMMA PlusGrand ==
  ASSUME NEW n \in Nat, NEW S \in SUBSET (1..n), S # {}
  PROVE  \E m \in S : \A k \in S : k <= m
<1> DEFINE R == OpToRel(<, Nat)
           T == {n - k : k \in S}
<1>1. IsWellFoundedOn(R, Nat)
  BY NatLessThanWellFounded
<1>2. \A i, j \in Nat : i < j => <<i, j>> \in R
  BY DEF OpToRel
<1> HIDE DEF R
<1>3. T \subseteq Nat /\ T # {}
  <2>1. \A k \in S : n - k \in Nat
    OBVIOUS
  <2>2. PICK k \in S : TRUE
    OBVIOUS
  <2>3. n - k \in T
    BY <2>2
  <2> QED
    BY <2>1, <2>3
<1>4. PICK x \in T : \A y \in T : <<y, x>> \notin R
  <2> HIDE DEF T
  <2> QED
    BY <1>1, <1>3, WFMin
<1>5. PICK m \in S : x = n - m
  OBVIOUS
<1>6. \A k \in S : ~(n - k < n - m)
  BY <1>2, <1>3, <1>4, <1>5
<1> QED
  BY <1>6

LEMMA NombreExact ==
  ASSUME NEW n \in 0..OuverturesMax, Numerotees(n)
  PROVE  NombreOuvertures = n
<1>1. n \in Nat /\ OuverturesMax \in Nat
  BY BornesBrouillonAssumption
<1>2. {o \in Ouvertures : lignes[o].creee} = 1..n
  BY <1>1 DEF Numerotees, Ouvertures
<1>3. Cardinality(1..n) = n
  BY <1>1, FS_Interval
<1> QED
  BY <1>2, <1>3 DEF NombreOuvertures

LEMMA PrecedentType ==
  ASSUME BrouillonTypeOK
  PROVE  BrouillonPrecedent \in Saisies \union {Rien} /\ LireBrouillon(BrouillonPrecedent) \in Saisies
<1> DEFINE ecrites == {o \in Ouvertures : lignes[o].creee /\ lignes[o].draft # Rien}
           derniere == CHOOSE o \in ecrites : \A p \in ecrites : p <= o
<1>1. CASE ecrites = {}
  BY <1>1, SaisiesAssumption DEF BrouillonPrecedent, LireBrouillon
<1>2. CASE ecrites # {}
  <2>1. OuverturesMax \in Nat /\ ecrites \in SUBSET (1..OuverturesMax)
    BY BornesBrouillonAssumption DEF Ouvertures
  <2>2. \E o \in ecrites : \A p \in ecrites : p <= o
    <3> HIDE DEF ecrites
    <3> QED
      BY <1>2, <2>1, PlusGrand
  <2>3. derniere \in ecrites
    BY <2>2
  <2>4. lignes[derniere].draft \in Saisies
    BY <2>3 DEF BrouillonTypeOK
  <2>5. BrouillonPrecedent = lignes[derniere].draft
    BY <1>2 DEF BrouillonPrecedent
  <2> QED
    BY <2>4, <2>5, SaisiesAssumption DEF LireBrouillon
<1> QED
  BY <1>1, <1>2

-----------------------------------------------------------------------------
(***************************************************************************)
(* The writers of the rows.                                                   *)
(***************************************************************************)
LEMMA LigneNeuve ==
  ASSUME BrouillonTypeOK
  PROVE  LET neuve == [LigneVide EXCEPT !.draft = BrouillonPrecedent, !.creee = TRUE]
         IN neuve \in Lignes /\ neuve.creee /\ ~neuve.fermee
<1> DEFINE vide == [LigneVide EXCEPT !.draft = BrouillonPrecedent]
           neuve == [vide EXCEPT !.creee = TRUE]
<1>1. LigneVide \in Lignes
  BY BornesBrouillonAssumption DEF LigneVide, Lignes
<1>2. vide \in Lignes
  BY <1>1, PrecedentType DEF Lignes
<1>3. LigneVide.fermee = FALSE
  BY DEF LigneVide
<1>4. vide.fermee = FALSE
  BY <1>1, <1>3 DEF Lignes
<1> HIDE DEF vide
<1>5. neuve \in Lignes /\ neuve.creee = TRUE /\ neuve.fermee = vide.fermee
  BY <1>2 DEF Lignes
<1> QED
  BY <1>4, <1>5 DEF vide

LEMMA CreationSure ==
  ASSUME BrouillonInv, NEW o \in Ouvertures, CreerOuverture(o)
  PROVE  /\ lignes' \in [Ouvertures -> Lignes]
         /\ LignesSuivies' /\ LignesGardees /\ lignes'[o].creee
<1> DEFINE neuve == [LigneVide EXCEPT !.draft = BrouillonPrecedent, !.creee = TRUE]
<1>1. /\ neuve \in Lignes /\ neuve.creee /\ ~neuve.fermee
  BY BrouillonInv, LigneNeuve DEF BrouillonInv
<1>2. lignes \in [Ouvertures -> Lignes]
  BY DEF BrouillonInv, BrouillonTypeOK, Lignes
<1>3. lignes' = [lignes EXCEPT ![o] = neuve]
  BY DEF CreerOuverture
<1> HIDE DEF neuve
<1>4. PICK n \in 0..OuverturesMax : Numerotees(n)
  BY DEF BrouillonInv, LignesSuivies
<1>5. o = n + 1 /\ n \in Nat /\ OuverturesMax \in Nat
  BY <1>4, NombreExact, BornesBrouillonAssumption DEF CreerOuverture
<1>6. ~lignes[o].creee /\ ~lignes[o].fermee
  BY <1>4, <1>5 DEF Numerotees, BrouillonInv, LignesSuivies
<1>7. lignes' \in [Ouvertures -> Lignes] /\ LignesGardees
  BY <1>1, <1>2, <1>3, <1>6 DEF LignesGardees, Lignes
<1>8. n + 1 \in 0..OuverturesMax /\ Numerotees(n + 1)'
  BY <1>1, <1>2, <1>3, <1>4, <1>5 DEF Numerotees, Ouvertures
<1>9. \A p \in Ouvertures : lignes'[p].fermee => lignes'[p].creee
  BY <1>1, <1>2, <1>3 DEF BrouillonInv, LignesSuivies
<1> QED
  BY <1>1, <1>2, <1>3, <1>7, <1>8, <1>9 DEF LignesSuivies

(* A draft written on a row, or a write counted on it, moves no row. *)
LEMMA RetoucheSure ==
  ASSUME BrouillonInv, NEW o \in Ouvertures, NEW l \in Lignes,
         lignes' = [lignes EXCEPT ![o] = l],
         l.creee = lignes[o].creee, l.fermee = lignes[o].fermee,
         l.fermee => l.draft = lignes[o].draft
  PROVE  /\ lignes' \in [Ouvertures -> Lignes]
         /\ LignesSuivies' /\ LignesGardees
<1>1. lignes \in [Ouvertures -> Lignes]
  BY DEF BrouillonInv, BrouillonTypeOK, Lignes
<1>2. \A p \in Ouvertures : lignes'[p].creee = lignes[p].creee /\ lignes'[p].fermee = lignes[p].fermee
  BY <1>1
<1>3. PICK n \in 0..OuverturesMax : Numerotees(n)
  BY DEF BrouillonInv, LignesSuivies
<1>4. Numerotees(n)'
  BY <1>2, <1>3 DEF Numerotees
<1> QED
  BY <1>1, <1>2, <1>4 DEF LignesSuivies, BrouillonInv, LignesGardees

LEMMA EcritureSure ==
  ASSUME BrouillonInv, NEW o \in Ouvertures, NEW d \in Saisies, EcrireSurLigne(o, d)
  PROVE  /\ lignes' \in [Ouvertures -> Lignes]
         /\ LignesSuivies' /\ LignesGardees
<1> DEFINE l == [lignes[o] EXCEPT !.draft = IF lignes[o].fermee THEN @ ELSE d]
<1>1. lignes[o] \in Lignes
  BY DEF BrouillonInv, BrouillonTypeOK, Lignes
<1>2. /\ l \in Lignes /\ l.creee = lignes[o].creee /\ l.fermee = lignes[o].fermee
      /\ l.fermee => l.draft = lignes[o].draft
  BY <1>1 DEF Lignes
<1>3. lignes' = [lignes EXCEPT ![o] = l]
  BY DEF EcrireSurLigne, BrouillonInv, BrouillonTypeOK
<1> HIDE DEF l
<1> QED
  BY <1>2, <1>3, RetoucheSure

(* The call closes its opening. *)
LEMMA FermetureSure ==
  ASSUME BrouillonInv, NEW o \in Ouvertures, lignes[o].creee,
         lignes' = [lignes EXCEPT ![o].fermee = TRUE]
  PROVE  /\ lignes' \in [Ouvertures -> Lignes] /\ LignesSuivies'
         /\ \A p \in Ouvertures : /\ lignes[p].creee => lignes'[p].creee
                                 /\ lignes'[p].draft = lignes[p].draft
<1> DEFINE l == [lignes[o] EXCEPT !.fermee = TRUE]
<1>1. lignes \in [Ouvertures -> Lignes]
  BY DEF BrouillonInv, BrouillonTypeOK, Lignes
<1>2. l \in Lignes /\ l.creee = lignes[o].creee /\ l.draft = lignes[o].draft
  BY <1>1 DEF Lignes
<1>3. lignes' = [lignes EXCEPT ![o] = l]
  BY <1>1
<1> HIDE DEF l
<1>4. \A p \in Ouvertures : lignes'[p].creee = lignes[p].creee /\ lignes'[p].draft = lignes[p].draft
  BY <1>1, <1>2, <1>3
<1>5. PICK n \in 0..OuverturesMax : Numerotees(n)
  BY DEF BrouillonInv, LignesSuivies
<1>6. Numerotees(n)'
  BY <1>4, <1>5 DEF Numerotees
<1>7. \A p \in Ouvertures : lignes'[p].fermee => lignes'[p].creee
  BY <1>1, <1>3, <1>4 DEF BrouillonInv, LignesSuivies
<1> QED
  BY <1>1, <1>2, <1>3, <1>4, <1>6, <1>7 DEF LignesSuivies

(* Same rows, same opening: nothing to show. *)
LEMMA LignesInchangees ==
  ASSUME BrouillonInv, lignes' = lignes
  PROVE  LignesSuivies' /\ LignesGardees
BY DEF BrouillonInv, LignesSuivies, LignesGardees, Numerotees

-----------------------------------------------------------------------------
(***************************************************************************)
(* What the screens call.                                                     *)
(***************************************************************************)
LEMMA DebutSur == BrouillonInit => BrouillonInv
<1>1. OuverturesMax \in Nat /\ 0 \in 0..OuverturesMax
  BY BornesBrouillonAssumption
<1>2. BrouillonInit => BrouillonTypeOK
  <2> SUFFICES ASSUME BrouillonInit PROVE BrouillonTypeOK
    OBVIOUS
  <2>1. arme \in BOOLEAN /\ enAttente \in BOOLEAN /\ ~arme
    BY DEF BrouillonInit
  <2>2. LigneVide \in Lignes
    BY BornesBrouillonAssumption DEF LigneVide, Lignes
  <2>3. /\ lignes \in [Ouvertures -> Lignes] /\ puts = {} /\ pertes \in 0..PertesMax
        /\ ouverture \in 0..OuverturesMax /\ affiche \in Saisies /\ ecrit \in Saisies
        /\ aEcrire = Rien
    BY <1>1, <2>2, SaisiesAssumption, BornesBrouillonAssumption DEF BrouillonInit
  <2> QED
    BY <2>1, <2>3 DEF BrouillonTypeOK, Lignes
<1>3. BrouillonInit => Numerotees(0) /\ \A o \in Ouvertures : lignes[o].fermee => lignes[o].creee
  BY <1>1 DEF BrouillonInit, Numerotees, LigneVide, Ouvertures
<1> QED
  BY <1>1, <1>2, <1>3 DEF BrouillonInv, LignesSuivies, BrouillonInit

LEMMA OuvrirFicheSure ==
  ASSUME BrouillonInv, NEW o \in Ouvertures, OuvrirFiche(o)
  PROVE  BrouillonInv' /\ LignesGardees
<1>1. /\ lignes' \in [Ouvertures -> Lignes]
      /\ LignesSuivies' /\ LignesGardees /\ lignes'[o].creee
  BY CreationSure DEF OuvrirFiche
<1>2. affiche' \in Saisies
  BY PrecedentType DEF OuvrirFiche, Monter, BrouillonInv
<1>3. arme' \in BOOLEAN /\ enAttente' \in BOOLEAN /\ ~arme'
  BY DEF OuvrirFiche, Monter
<1>4. /\ ouverture' \in 0..OuverturesMax /\ ecrit' \in Saisies /\ aEcrire' = Rien
      /\ puts' \subseteq Puts /\ pertes' \in 0..PertesMax
  BY <1>2, BornesBrouillonAssumption
  DEF OuvrirFiche, Monter, BrouillonInv, BrouillonTypeOK, Puts, Ouvertures
<1>5. BrouillonTypeOK'
  BY <1>1, <1>2, <1>3, <1>4 DEF BrouillonTypeOK, Lignes, Puts, Ouvertures
<1> QED
  BY <1>1, <1>5 DEF BrouillonInv, OuvrirFiche, Monter

LEMMA OuvertureSansReponseSure ==
  ASSUME BrouillonInv, NEW o \in Ouvertures, OuvertureSansReponse(o)
  PROVE  BrouillonInv' /\ LignesGardees
<1>1. /\ lignes' \in [Ouvertures -> Lignes]
      /\ LignesSuivies' /\ LignesGardees
  BY CreationSure DEF OuvertureSansReponse
<1>2. pertes' \in 0..PertesMax
  BY BornesBrouillonAssumption DEF OuvertureSansReponse, BrouillonInv, BrouillonTypeOK
<1>3. BrouillonTypeOK'
  BY <1>1, <1>2 DEF OuvertureSansReponse, BrouillonInv, BrouillonTypeOK, Lignes, Ouvertures
<1> QED
  BY <1>1, <1>3 DEF BrouillonInv, OuvertureSansReponse

LEMMA DemonterSure ==
  ASSUME BrouillonInv, Demonter, UNCHANGED <<puts, lignes, pertes>>
  PROVE  BrouillonInv' /\ LignesGardees
<1>1. arme' \in BOOLEAN /\ enAttente' \in BOOLEAN /\ ~arme'
  BY DEF Demonter
<1>2. /\ ouverture' \in 0..OuverturesMax /\ affiche' \in Saisies /\ ecrit' \in Saisies
      /\ aEcrire' = Rien
  BY SaisiesAssumption, BornesBrouillonAssumption DEF Demonter
<1>3. BrouillonTypeOK'
  BY <1>1, <1>2 DEF BrouillonInv, BrouillonTypeOK, Ouvertures
<1> QED
  BY <1>3, LignesInchangees DEF BrouillonInv, Demonter

LEMMA AfficherSure ==
  ASSUME BrouillonInv, NEW d \in Saisies, Afficher(d)
  PROVE  BrouillonInv' /\ LignesGardees
<1>1. BrouillonTypeOK'
  BY SaisiesAssumption DEF Afficher, BrouillonInv, BrouillonTypeOK, Ouvertures
<1> QED
  BY <1>1, LignesInchangees DEF BrouillonInv, Afficher

LEMMA InchangeSur ==
  ASSUME BrouillonInv, UNCHANGED varsBrouillon
  PROVE  BrouillonInv' /\ LignesGardees
<1>1. BrouillonTypeOK'
  BY DEF varsBrouillon, BrouillonInv, BrouillonTypeOK, Ouvertures
<1> QED
  BY <1>1, LignesInchangees DEF BrouillonInv, varsBrouillon

-----------------------------------------------------------------------------
(***************************************************************************)
(* What happens on its own.                                                   *)
(***************************************************************************)
LEMMA EnvoyerSur ==
  ASSUME BrouillonInv, Envoyer
  PROVE  BrouillonInv' /\ LignesGardees
<1> DEFINE l == [lignes[ouverture] EXCEPT !.puts = @ + 1]
           p == Charge(ouverture, aEcrire)
<1>1. ouverture \in Ouvertures /\ lignes[ouverture] \in Lignes /\ aEcrire \in Saisies
  BY BornesBrouillonAssumption DEF Envoyer, BrouillonInv, BrouillonTypeOK, Lignes, Ouvertures
<1>2. lignes[ouverture].puts + 1 \in 1..PutsMax
  BY <1>1, BornesBrouillonAssumption DEF Envoyer, Lignes
<1>3. /\ l \in Lignes /\ l.creee = lignes[ouverture].creee /\ l.fermee = lignes[ouverture].fermee
      /\ l.draft = lignes[ouverture].draft
  BY <1>1, <1>2 DEF Lignes
<1>4. lignes' = [lignes EXCEPT ![ouverture] = l]
  BY DEF Envoyer, BrouillonInv, BrouillonTypeOK
<1>5. p \in Puts
  BY <1>1, <1>2 DEF Puts, Charge
<1> HIDE DEF l, p
<1>6. lignes' \in [Ouvertures -> Lignes] /\ LignesSuivies' /\ LignesGardees
  BY <1>1, <1>3, <1>4, RetoucheSure
<1>7. puts' \subseteq Puts
  BY <1>5 DEF Envoyer, BrouillonInv, BrouillonTypeOK, Puts, p
<1>8. BrouillonTypeOK'
  BY <1>6, <1>7, SaisiesAssumption
  DEF Envoyer, BrouillonInv, BrouillonTypeOK, Ouvertures, Lignes, Puts
<1> QED
  BY <1>1, <1>6, <1>8 DEF BrouillonInv, LignesGardees, Envoyer

LEMMA RecevoirPutSur ==
  ASSUME BrouillonInv, NEW p \in puts, RecevoirPut(p)
  PROVE  BrouillonInv' /\ LignesGardees
<1>1. p \in Puts /\ p.ouverture \in Ouvertures /\ p.charge \in Saisies
  BY DEF BrouillonInv, BrouillonTypeOK, Puts
<1>2. lignes' \in [Ouvertures -> Lignes] /\ LignesSuivies' /\ LignesGardees
  BY <1>1, EcritureSure DEF RecevoirPut
<1>3. puts' \subseteq Puts
  BY <1>1 DEF RecevoirPut, BrouillonInv, BrouillonTypeOK, Puts
<1>4. BrouillonTypeOK'
  BY <1>2, <1>3 DEF RecevoirPut, BrouillonInv, BrouillonTypeOK, Ouvertures, Lignes, Puts
<1>5. ouverture' = ouverture /\ (ouverture # 0 => ouverture \in Ouvertures /\ lignes[ouverture].creee)
  BY DEF RecevoirPut, BrouillonInv, BrouillonTypeOK, Ouvertures
<1>6. ouverture' # 0 => lignes'[ouverture'].creee
  BY <1>2, <1>5 DEF LignesGardees
<1> QED
  BY <1>2, <1>4, <1>6 DEF BrouillonInv

LEMMA ReponsePutSure ==
  ASSUME BrouillonInv, NEW p \in puts, ReponsePut(p)
  PROVE  BrouillonInv' /\ LignesGardees
<1>1. p \in Puts /\ p.charge \in Saisies
  BY DEF BrouillonInv, BrouillonTypeOK, Puts
<1>2. BrouillonTypeOK'
  BY <1>1, SaisiesAssumption
  DEF ReponsePut, Acquitter, Echouer, BrouillonInv, BrouillonTypeOK, Ouvertures
<1> QED
  BY <1>2, LignesInchangees DEF BrouillonInv, ReponsePut

LEMMA PerdrePutSur ==
  ASSUME BrouillonInv, NEW p \in puts, PerdrePut(p)
  PROVE  BrouillonInv' /\ LignesGardees
<1>1. p \in Puts /\ p.charge \in Saisies
  BY DEF BrouillonInv, BrouillonTypeOK, Puts
<1>2. pertes' \in 0..PertesMax
  BY BornesBrouillonAssumption DEF PerdrePut, BrouillonInv, BrouillonTypeOK
<1>3. BrouillonTypeOK'
  BY <1>1, <1>2, SaisiesAssumption
  DEF PerdrePut, Echouer, BrouillonInv, BrouillonTypeOK, Ouvertures
<1> QED
  BY <1>3, LignesInchangees DEF BrouillonInv, PerdrePut

LEMMA AutomatiqueSur ==
  ASSUME BrouillonInv, Automatique
  PROVE  BrouillonInv' /\ LignesGardees
BY EnvoyerSur, RecevoirPutSur, ReponsePutSure, PerdrePutSur
DEF Automatique, Minuteur, Masquer

-----------------------------------------------------------------------------
Tentatives == [id : Nat, ouverture : Ouvertures, appel : Appels]

(* A sending carries the identifier of its opening and a call; the server has the   *)
(* call it answered yes to, and the dossier the call goes with.                       *)
DossierPris(e) ==
  GarderBrouillon(e.appel) /\ ( \/ e.etape \in {"bant", "push"}
                                \/ e.etape = "brouillon" /\ e.reponse = "ok" )
    => BrouillonDe(e.appel) \in e.acceptes

EnvoiSuivi(o) ==
  /\ envois[o].id = o
  /\ envois[o].etape # "repos" => envois[o].appel \in Appels /\ lignes[o].creee
  /\ envois[o].etape = "repos" => envois[o].reponse = Rien
  /\ envois[o].etape = "push" /\ envois[o].reponse = "ok" => \E t \in tentatives : t.ouverture = o
  /\ DossierPris(envois[o])

ServeurInv ==
  /\ envois \in [Ouvertures -> Envois]
  /\ \A o \in Ouvertures : EnvoiSuivi(o)
  /\ tentatives \subseteq Tentatives /\ converti \in BOOLEAN /\ annonces \subseteq Ouvertures
  /\ \A t \in tentatives : t.id = t.ouverture
  /\ UnAppelParEcran /\ AnnonceVraie /\ DossierAvantFermeture

IInv == BrouillonInv /\ ecran \in Ecrans /\ ServeurInv

LignesFigees ==
  \A o \in Ouvertures : /\ lignes[o].creee => lignes'[o].creee
                        /\ lignes[o].fermee => lignes'[o].draft = lignes[o].draft

-----------------------------------------------------------------------------
(***************************************************************************)
(* The path and the screen.                                                   *)
(***************************************************************************)
LEMMA EcranNeufType ==
  ASSUME NEW convertie \in BOOLEAN, NEW conversion
  PROVE  EcranNeuf(convertie, conversion) \in Ecrans
BY DEF EcranNeuf, Ecrans, Pas

LEMMA AfficheType ==
  ASSUME BrouillonInv
  PROVE  /\ affiche.comment \in BOOLEAN /\ affiche.conversion \in Dossiers \union {Rien}
         /\ affiche \in Saisies
BY CatalogueAssumption DEF BrouillonInv, BrouillonTypeOK, Brouillons

LEMMA PasApresType == ASSUME NEW m PROVE PasApresMotif(m) \in Pas
BY DEF PasApresMotif, Pas

-----------------------------------------------------------------------------
(***************************************************************************)
(* A step of the agent: the screen and the draft move, the server does not.    *)
(***************************************************************************)
Suite == IInv' /\ LignesFigees

LEMMA EcranBouge ==
  ASSUME IInv, ecran' \in Ecrans, BrouillonInv', LignesGardees,
         UNCHANGED <<envois, tentatives, converti, annonces>>
  PROVE  Suite
<1>1. LignesFigees
  BY DEF LignesGardees, LignesFigees
<1>2. \A o \in Ouvertures : EnvoiSuivi(o)'
  BY <1>1 DEF IInv, ServeurInv, EnvoiSuivi, LignesFigees
<1>3. ServeurInv'
  BY <1>2 DEF IInv, ServeurInv, UnAppelParEcran, AnnonceVraie, DossierAvantFermeture
<1> QED
  BY <1>1, <1>3 DEF IInv, Suite

LEMMA EcranSeulSur ==
  ASSUME IInv, NEW e \in Ecrans, EcranSeul(e)
  PROVE  Suite
<1>1. BrouillonInv' /\ LignesGardees
  BY InchangeSur DEF EcranSeul, IInv
<1> QED
  BY <1>1, EcranBouge DEF EcranSeul, ResteServeur

(* The steps that move the screen only. *)
LEMMA PasSurs ==
  ASSUME IInv,
         \/ Reculer \/ Continuer \/ RemplirBant \/ ValiderEcheance \/ HeureTourne
         \/ \E m \in Catalogue : ChoisirStatut(m)
         \/ \E m \in Catalogue \union {Rien} : ChoisirPrecision(m)
         \/ \E complet \in BOOLEAN : RemplirRvSite(complet)
         \/ \E at \in {"venir", "passee"} : ChoisirEcheance(at)
  PROVE  Suite
<1> SUFFICES \E e \in Ecrans : EcranSeul(e)
  BY EcranSeulSur
<1>0. ecran \in Ecrans
  BY DEF IInv
<1>1. CASE Reculer
  <2>1. PICK p \in parcoursDe : EcranSeul([ecran EXCEPT !.pas = p])
    BY <1>1 DEF Reculer
  <2>2. p \in Pas
    BY DEF parcoursDe
  <2>3. [ecran EXCEPT !.pas = p] \in Ecrans
    BY <1>0, <2>2 DEF Ecrans
  <2> QED
    BY <2>1, <2>3
<1>2. CASE Continuer
  <2>1. [ecran EXCEPT !.pas = "bant"] \in Ecrans /\ [ecran EXCEPT !.pas = "statut"] \in Ecrans
    BY <1>0 DEF Ecrans, Pas
  <2> QED
    BY <1>2, <2>1 DEF Continuer
<1>3. CASE RemplirBant
  <2>1. [ecran EXCEPT !.bantModifie = TRUE] \in Ecrans
    BY <1>0 DEF Ecrans
  <2> QED
    BY <1>3, <2>1 DEF RemplirBant
<1>4. CASE ValiderEcheance
  <2>1. [ecran EXCEPT !.pas = "note"] \in Ecrans
    BY <1>0 DEF Ecrans, Pas
  <2> QED
    BY <1>4, <2>1 DEF ValiderEcheance
<1>5. CASE HeureTourne
  <2>1. [ecran EXCEPT !.echeance = "passee"] \in Ecrans
    BY <1>0 DEF Ecrans
  <2> QED
    BY <1>5, <2>1 DEF HeureTourne
<1>6. ASSUME NEW m \in Catalogue, ChoisirStatut(m) PROVE \E e \in Ecrans : EcranSeul(e)
  <2> DEFINE pas == IF SurLeStatut(m) THEN ecran.pas
                      ELSE IF sousMotifsDe(m) # {} THEN "precision"
                      ELSE PasApresMotif(m)
             e == [ecran EXCEPT !.statut = m, !.precision = Rien, !.echeance = Rien, !.pas = pas]
  <2>1. pas \in Pas
    BY <1>0, PasApresType DEF Ecrans, Pas
  <2>2. EcranSeul(e)
    BY <1>6 DEF ChoisirStatut
  <2> HIDE DEF pas
  <2>3. e \in Ecrans
    BY <1>0, <2>1 DEF Ecrans
  <2> QED
    BY <2>2, <2>3
<1>7. ASSUME NEW m \in Catalogue \union {Rien}, ChoisirPrecision(m) PROVE \E e \in Ecrans : EcranSeul(e)
  <2> DEFINE pas == PasApresMotif(IF m = Rien THEN ecran.statut ELSE m)
             e == [ecran EXCEPT !.precision = m, !.echeance = Rien, !.pas = pas]
  <2>1. pas \in Pas
    BY PasApresType
  <2>2. EcranSeul(e)
    BY <1>7 DEF ChoisirPrecision
  <2> HIDE DEF pas
  <2>3. e \in Ecrans
    BY <1>0, <2>1 DEF Ecrans
  <2> QED
    BY <2>2, <2>3
<1>8. ASSUME NEW complet \in BOOLEAN, RemplirRvSite(complet) PROVE \E e \in Ecrans : EcranSeul(e)
  <2> DEFINE rv == IF complet THEN ecran.rvSite \union {Motif.code} ELSE ecran.rvSite \ {Motif.code}
             e == [ecran EXCEPT !.rvSite = rv]
  <2>1. rv \in SUBSET AvecChamps
    BY <1>0, <1>8 DEF Ecrans, RemplirRvSite
  <2>2. EcranSeul(e)
    BY <1>8 DEF RemplirRvSite
  <2> HIDE DEF rv
  <2>3. e \in Ecrans
    BY <1>0, <2>1 DEF Ecrans
  <2> QED
    BY <2>2, <2>3
<1>9. ASSUME NEW at \in {"venir", "passee"}, ChoisirEcheance(at) PROVE \E e \in Ecrans : EcranSeul(e)
  <2> DEFINE pas == IF RvSiteVerifie THEN "note" ELSE ecran.pas
             e == [ecran EXCEPT !.echeance = at, !.pas = pas]
  <2>1. pas \in Pas
    BY <1>0 DEF Ecrans, Pas
  <2>2. EcranSeul(e)
    BY <1>9 DEF ChoisirEcheance
  <2> HIDE DEF pas
  <2>3. e \in Ecrans
    BY <1>0, <2>1 DEF Ecrans
  <2> QED
    BY <2>2, <2>3
<1> QED
  BY <1>1, <1>2, <1>3, <1>4, <1>5, <1>6, <1>7, <1>8, <1>9

(* The steps that change what the screen shows. *)
LEMMA SaisieSure ==
  ASSUME IInv, \/ \E g \in {"joignable", "injoignable"} : ChoisirGroupe(g)
               \/ \E d \in Dossiers : RemplirDossier(d)
               \/ Commenter
  PROVE  Suite
<1>0. ecran \in Ecrans /\ affiche \in Brouillons /\ Saisies = Brouillons
  BY AfficheType, CatalogueAssumption DEF IInv
<1>1. ASSUME NEW d \in Brouillons, Afficher(d), ecran' \in Ecrans, ResteServeur PROVE Suite
  BY <1>0, <1>1, AfficherSure, EcranBouge DEF IInv, ResteServeur
<1>2. ASSUME NEW g \in {"joignable", "injoignable"}, ChoisirGroupe(g) PROVE Suite
  <2> DEFINE reprise == IF affiche.conversion # Rien THEN affiche.conversion
                          ELSE IF ecran.misDeCote # Rien THEN ecran.misDeCote
                          ELSE "simple"
             sans == [ecran EXCEPT !.groupe = g, !.statut = Rien, !.precision = Rien, !.echeance = Rien]
             cote == IF affiche.conversion = Rien THEN sans.misDeCote ELSE affiche.conversion
  <2>1. reprise \in Dossiers
    BY <1>0 DEF Brouillons, Ecrans, Dossiers
  <2>2. sans \in Ecrans
    BY <1>0 DEF Ecrans
  <2>3. cote \in Dossiers \union {Rien}
    BY <1>0, <2>2 DEF Brouillons, Ecrans
  <2> HIDE DEF sans, reprise, cote
  <2>4. /\ [sans EXCEPT !.pas = "formulaire"] \in Ecrans
        /\ [sans EXCEPT !.pas = "statut", !.misDeCote = cote] \in Ecrans
    BY <2>2, <2>3 DEF Ecrans, Pas
  <2>5. /\ [affiche EXCEPT !.conversion = reprise] \in Brouillons
        /\ [affiche EXCEPT !.conversion = Rien] \in Brouillons
    BY <1>0, <2>1 DEF Brouillons
  <2>6. /\ ResteServeur
        /\ \/ /\ ecran' = [sans EXCEPT !.pas = "formulaire"]
              /\ Afficher([affiche EXCEPT !.conversion = reprise])
           \/ /\ ecran' = [sans EXCEPT !.pas = "statut", !.misDeCote = cote]
              /\ Afficher([affiche EXCEPT !.conversion = Rien])
    BY <1>2 DEF ChoisirGroupe, sans, reprise, cote
  <2> QED
    BY <1>1, <2>4, <2>5, <2>6
<1>3. ASSUME NEW d \in Dossiers, RemplirDossier(d) PROVE Suite
  <2>1. [affiche EXCEPT !.conversion = d] \in Brouillons
    BY <1>0 DEF Brouillons
  <2> QED
    BY <1>0, <1>1, <1>3, <2>1 DEF RemplirDossier
<1>4. CASE Commenter
  <2>1. [affiche EXCEPT !.comment = ~@] \in Brouillons
    BY <1>0 DEF Brouillons
  <2> QED
    BY <1>0, <1>1, <1>4, <2>1 DEF Commenter
<1> QED
  BY <1>2, <1>3, <1>4

(* Opening and leaving. *)
LEMMA OuvertureSure ==
  ASSUME IInv, Ouvrir \/ OuvrirSansReponse \/ QuitterLaFiche
  PROVE  Suite
<1>1. CASE Ouvrir
  <2>1. PICK o \in Ouvertures, vue \in {converti, FALSE} :
          /\ OuvrirFiche(o) /\ ecran' = EcranNeuf(vue, affiche'.conversion)
          /\ UNCHANGED <<envois, tentatives, converti, annonces>>
    BY <1>1 DEF Ouvrir
  <2>2. vue \in BOOLEAN
    BY DEF IInv, ServeurInv
  <2> QED
    BY <2>1, <2>2, OuvrirFicheSure, EcranNeufType, EcranBouge DEF IInv
<1>2. CASE OuvrirSansReponse
  BY <1>2, OuvertureSansReponseSure, EcranBouge DEF OuvrirSansReponse, IInv
<1>3. CASE QuitterLaFiche
  BY <1>3, DemonterSure, EcranNeufType, EcranBouge DEF QuitterLaFiche, Revenir, IInv
<1> QED
  BY <1>1, <1>2, <1>3

-----------------------------------------------------------------------------
(***************************************************************************)
(* A step of a sending: one opening's, the rest of the server standing still.  *)
(***************************************************************************)
LEMMA EnvoiAvance ==
  ASSUME IInv, ecran' \in Ecrans, BrouillonInv', LignesFigees,
         NEW q \in Ouvertures, NEW e \in Envois, envois' = [envois EXCEPT ![q] = e],
         envois[q].acceptes \subseteq e.acceptes,
         UNCHANGED <<tentatives, converti>>, EnvoiSuivi(q)',
         \A o \in annonces' : o \in annonces \/ (o = q /\ \E t \in tentatives : t.ouverture = q)
  PROVE  Suite
<1>1. envois \in [Ouvertures -> Envois] /\ envois' \in [Ouvertures -> Envois]
  BY DEF IInv, ServeurInv
<1>2. \A o \in Ouvertures : EnvoiSuivi(o)'
  BY <1>1 DEF IInv, ServeurInv, EnvoiSuivi, LignesFigees
<1>3. \A o \in Ouvertures : envois[o].acceptes \subseteq envois'[o].acceptes
  BY <1>1
<1>4. DossierAvantFermeture'
  BY <1>3 DEF IInv, ServeurInv, DossierAvantFermeture, Tentatives
<1>5. annonces' \subseteq Ouvertures /\ AnnonceVraie'
  BY DEF IInv, ServeurInv, AnnonceVraie
<1>6. ServeurInv'
  BY <1>1, <1>2, <1>4, <1>5 DEF IInv, ServeurInv, UnAppelParEcran
<1> QED
  BY <1>6 DEF IInv, Suite

LEMMA BrouillonReste ==
  ASSUME IInv, UNCHANGED varsBrouillon
  PROVE  BrouillonInv' /\ LignesFigees
BY InchangeSur DEF IInv, LignesGardees, LignesFigees

(* What the screen sends is a call. *)
LEMMA AppelType ==
  ASSUME IInv, Motif # Rien, ecran.echeance # "passee"
  PROVE  draftDe \in Appels
<1>1. ecran \in Ecrans /\ affiche.comment \in BOOLEAN /\ affiche.conversion \in Dossiers \union {Rien}
  BY AfficheType DEF IInv
<1>2. Motif \in Catalogue
  BY <1>1 DEF Motif, Ecrans
<1>3. ecran.echeance \in {Rien, "venir"} /\ ecran.bantModifie \in BOOLEAN
  BY <1>1 DEF Ecrans
<1>4. Adhesion \in BOOLEAN /\ (Motif.code \in ecran.rvSite) \in BOOLEAN
  BY DEF Adhesion
<1> HIDE DEF Motif
<1> QED
  BY <1>1, <1>2, <1>3, <1>4 DEF draftDe, Appels

LEMMA EnregistrerSur ==
  ASSUME IInv, Enregistrer
  PROVE  Suite
<1>0. ecran \in Ecrans /\ ouverture \in Ouvertures /\ lignes[ouverture].creee
  BY BornesBrouillonAssumption
  DEF IInv, BrouillonInv, BrouillonTypeOK, Ouvertures, Enregistrer, AuPas, EnCours
<1>1. \/ EcranSeul([ecran EXCEPT !.pas = "statut"])
      \/ EcranSeul([ecran EXCEPT !.pas = "echeance"])
      \/ EcranSeul([ecran EXCEPT !.echeance = Rien, !.pas = "echeance"])
      \/ Motif # Rien /\ ecran.echeance # "passee" /\ EnvoyerAppel
  BY DEF Enregistrer
<1>2. /\ [ecran EXCEPT !.pas = "statut"] \in Ecrans
      /\ [ecran EXCEPT !.pas = "echeance"] \in Ecrans
      /\ [ecran EXCEPT !.echeance = Rien, !.pas = "echeance"] \in Ecrans
  BY <1>0 DEF Ecrans, Pas
<1>3. CASE Motif # Rien /\ ecran.echeance # "passee" /\ EnvoyerAppel
  <2>0. PICK q \in Ouvertures : q = ouverture /\ lignes[q].creee
    BY <1>0
  <2> DEFINE e == envois[q]
             etape == IF GarderBrouillon(draftDe) THEN "brouillon" ELSE ApresBrouillon(draftDe)
             f == [e EXCEPT !.essais = @ + 1, !.appel = draftDe, !.reponse = Rien,
                            !.erreur = Rien, !.etape = etape]
  <2>1. e \in Envois /\ EnvoiSuivi(q) /\ draftDe \in Appels
    BY <1>3, AppelType DEF IInv, ServeurInv
  <2>2. envois' = [envois EXCEPT ![q] = f] /\ e.essais + 1 \in 0..EnvoisMax
    BY <1>3, <2>0, <2>1, EnvoisAssumption DEF EnvoyerAppel, Envois
  <2>3. /\ etape \in {"brouillon", "bant", "push"}
        /\ etape # "brouillon" => ~GarderBrouillon(draftDe)
    BY DEF ApresBrouillon
  <2> HIDE DEF etape
  <2>4. /\ f \in Envois /\ f.id = e.id /\ f.acceptes = e.acceptes
        /\ f.appel = draftDe /\ f.reponse = Rien /\ f.etape = etape
    BY <2>1, <2>2, <2>3 DEF Envois
  <2> HIDE DEF f
  <2>5. envois'[q] = f /\ UNCHANGED <<varsBrouillon, ecran, tentatives, converti, annonces>>
    BY <1>3, <2>0, <2>2 DEF EnvoyerAppel, IInv, ServeurInv
  <2>6. BrouillonInv' /\ LignesFigees
    BY <2>5, BrouillonReste
  <2>7. f.reponse # "ok"
    BY <2>4, EnvoisAssumption
  <2>8. DossierPris(f)
    BY <2>3, <2>4, <2>7 DEF DossierPris
  <2>9. EnvoiSuivi(q)'
    BY <2>0, <2>1, <2>4, <2>5, <2>6, <2>7, <2>8 DEF EnvoiSuivi, LignesFigees, varsBrouillon
  <2>10. ecran' \in Ecrans /\ envois[q].acceptes \subseteq f.acceptes
    BY <1>0, <2>4, <2>5
  <2>11. \A o \in annonces' : o \in annonces
    BY <2>5
  <2> HIDE DEF e
  <2> QED
    BY <2>2, <2>4, <2>5, <2>6, <2>9, <2>10, <2>11, EnvoiAvance
<1> QED
  BY <1>1, <1>2, <1>3, EcranSeulSur

(* The server answers the draft: it has it, or the opening is closed. *)
LEMMA ServirBrouillonSur ==
  ASSUME IInv, NEW o \in Ouvertures, ServirBrouillon(o)
  PROVE  Suite
<1> DEFINE e == envois[o]
           d == BrouillonDe(e.appel)
           f == IF lignes[o].fermee THEN [e EXCEPT !.reponse = "ferme"]
                ELSE [e EXCEPT !.reponse = "ok", !.acceptes = @ \union {d}]
<1>1. e \in Envois /\ EnvoiSuivi(o) /\ e.etape = "brouillon" /\ e.appel \in Appels
  BY DEF IInv, ServeurInv, ServirBrouillon, EnvoiSuivi
<1>2. d \in Brouillons
  BY <1>1 DEF BrouillonDe, Appels, Brouillons
<1>3. lignes' \in [Ouvertures -> Lignes] /\ LignesSuivies' /\ LignesGardees
  BY <1>2, EcritureSure, CatalogueAssumption DEF ServirBrouillon, IInv
<1>4. BrouillonInv' /\ LignesFigees
  <2>1. BrouillonTypeOK'
    BY <1>3 DEF ServirBrouillon, IInv, BrouillonInv, BrouillonTypeOK, Ouvertures, Lignes
  <2>2. ouverture' # 0 => lignes'[ouverture'].creee
    BY <1>3, BornesBrouillonAssumption
    DEF ServirBrouillon, IInv, BrouillonInv, BrouillonTypeOK, LignesGardees, Ouvertures
  <2> QED
    BY <1>3, <2>1, <2>2 DEF BrouillonInv, LignesGardees, LignesFigees
<1>5. envois' = [envois EXCEPT ![o] = f]
  BY DEF ServirBrouillon
<1>6. /\ f \in Envois /\ f.id = e.id /\ f.etape = e.etape /\ f.appel = e.appel
      /\ e.acceptes \subseteq f.acceptes
  BY <1>1, <1>2 DEF Envois
<1>7. f.reponse = "ok" => d \in f.acceptes
  BY <1>1 DEF Envois
<1> HIDE DEF f
<1>8. envois'[o] = f
  BY <1>5 DEF IInv, ServeurInv
<1>9. EnvoiSuivi(o)'
  BY <1>1, <1>4, <1>6, <1>7, <1>8 DEF EnvoiSuivi, DossierPris, LignesFigees
<1> QED
  BY <1>4, <1>5, <1>6, <1>9, EnvoiAvance DEF ServirBrouillon, IInv

(* The steps of a sending that write no row and record no call. *)
LEMMA PasDEnvoi ==
  ASSUME IInv, NEW o \in Ouvertures, NEW f \in Envois, envois' = [envois EXCEPT ![o] = f],
         f.id = envois[o].id, f.acceptes = envois[o].acceptes,
         f.etape = "repos" => f.reponse = Rien,
         f.etape # "repos" => f.appel = envois[o].appel /\ envois[o].etape # "repos",
         f.etape = "push" /\ f.reponse = "ok" => \E t \in tentatives : t.ouverture = o,
         DossierPris(f),
         BrouillonInv', LignesFigees, ecran' \in Ecrans, UNCHANGED <<tentatives, converti>>,
         \A p \in annonces' : p \in annonces \/ (p = o /\ \E t \in tentatives : t.ouverture = o)
  PROVE  Suite
<1>1. envois'[o] = f /\ EnvoiSuivi(o)
  BY DEF IInv, ServeurInv
<1>2. EnvoiSuivi(o)'
  BY <1>1 DEF EnvoiSuivi, LignesFigees
<1> QED
  BY <1>2, EnvoiAvance

LEMMA ServirBantSur ==
  ASSUME IInv, NEW o \in Ouvertures, ServirBant(o)
  PROVE  Suite
<1> DEFINE e == envois[o]
           f == [e EXCEPT !.reponse = "ok"]
<1>1. e \in Envois /\ e.etape = "bant" /\ DossierPris(e) /\ e.appel \in Appels
  BY DEF IInv, ServeurInv, EnvoiSuivi, ServirBant
<1>2. envois' = [envois EXCEPT ![o] = f]
  BY DEF ServirBant, Repondre
<1>3. f \in Envois /\ f.id = e.id /\ f.acceptes = e.acceptes /\ f.appel = e.appel /\ f.etape = "bant"
  BY <1>1 DEF Envois
<1> HIDE DEF f
<1>4. DossierPris(f)
  BY <1>1, <1>3 DEF DossierPris
<1>5. BrouillonInv' /\ LignesFigees
  BY BrouillonReste DEF ServirBant
<1> QED
  BY <1>1, <1>2, <1>3, <1>4, <1>5, PasDEnvoi DEF ServirBant, IInv

LEMMA EtapeSuivanteSure ==
  ASSUME IInv, NEW o \in Ouvertures, EtapeSuivante(o)
  PROVE  Suite
<1> DEFINE e == envois[o]
           etape == IF e.etape = "brouillon" THEN ApresBrouillon(e.appel) ELSE "push"
           f == [e EXCEPT !.reponse = Rien, !.etape = etape]
<1>1. e \in Envois /\ DossierPris(e) /\ e.reponse = "ok" /\ e.etape # "push"
  BY DEF IInv, ServeurInv, EnvoiSuivi, EtapeSuivante
<1>2. envois' = [envois EXCEPT ![o] = f]
  BY DEF EtapeSuivante
<1>3. etape \in {"bant", "push"}
  BY DEF ApresBrouillon
<1> HIDE DEF etape
<1>4. /\ f \in Envois /\ f.id = e.id /\ f.acceptes = e.acceptes /\ f.appel = e.appel
      /\ f.etape = etape /\ f.reponse = Rien
  BY <1>1, <1>3 DEF Envois
<1> HIDE DEF f
<1>5. CASE e.etape = "repos"
  BY <1>5, EnvoisAssumption DEF EtapeSuivante, IInv, ServeurInv, EnvoiSuivi
<1>6. CASE e.etape \in {"brouillon", "bant"}
  <2>1. DossierPris(f)
    BY <1>1, <1>4, <1>6 DEF DossierPris
  <2>2. BrouillonInv' /\ LignesFigees
    BY BrouillonReste DEF EtapeSuivante
  <2>3. f.reponse # "ok"
    BY <1>4, EnvoisAssumption
  <2> QED
    BY <1>2, <1>4, <1>6, <2>1, <2>2, <2>3, PasDEnvoi DEF EtapeSuivante, IInv
<1> QED
  BY <1>1, <1>5, <1>6 DEF Envois

(* A sending that ends, announced or given up. *)
LEMMA AnnoncerSur ==
  ASSUME IInv, NEW o \in Ouvertures, Annoncer(o)
  PROVE  Suite
<1> DEFINE e == envois[o]
           f == [e EXCEPT !.etape = "repos", !.reponse = Rien, !.appel = Rien]
<1>1. e \in Envois /\ \E t \in tentatives : t.ouverture = o
  BY DEF IInv, ServeurInv, EnvoiSuivi, Annoncer, Reussi
<1>2. envois' = [envois EXCEPT ![o] = f]
  BY DEF Annoncer
<1>3. f \in Envois /\ f.id = e.id /\ f.acceptes = e.acceptes /\ f.etape = "repos" /\ f.reponse = Rien
  BY <1>1 DEF Envois
<1> HIDE DEF f
<1>4. DossierPris(f)
  BY <1>3 DEF DossierPris
<1>5. BrouillonInv' /\ LignesGardees
  BY DemonterSure DEF Annoncer, Revenir, IInv
<1>6. LignesFigees /\ ecran' \in Ecrans
  BY <1>5, EcranNeufType DEF LignesGardees, LignesFigees, Annoncer, Revenir
<1> QED
  BY <1>1, <1>2, <1>3, <1>4, <1>5, <1>6, PasDEnvoi DEF Annoncer

LEMMA AbandonSur ==
  ASSUME IInv, NEW o \in Ouvertures, RecevoirRefus(o) \/ PerdreEnvoi(o)
  PROVE  Suite
<1>1. PICK erreur \in {Rien, "ferme", "refus", "champ"} : Abandonner(o, erreur)
  BY DEF RecevoirRefus, PerdreEnvoi
<1> DEFINE e == envois[o]
           f == [e EXCEPT !.etape = "repos", !.reponse = Rien, !.appel = Rien, !.erreur = erreur]
<1>2. e \in Envois /\ envois' = [envois EXCEPT ![o] = f]
  BY <1>1 DEF IInv, ServeurInv, Abandonner
<1>3. f \in Envois /\ f.id = e.id /\ f.acceptes = e.acceptes /\ f.etape = "repos" /\ f.reponse = Rien
  BY <1>2 DEF Envois
<1> HIDE DEF f
<1>4. DossierPris(f)
  BY <1>3 DEF DossierPris
<1>5. BrouillonInv' /\ LignesFigees
  <2>1. pertes' \in 0..PertesMax
    BY BornesBrouillonAssumption
    DEF RecevoirRefus, PerdreEnvoi, IInv, BrouillonInv, BrouillonTypeOK
  <2>2. BrouillonTypeOK'
    BY <1>1, <2>1 DEF Abandonner, IInv, BrouillonInv, BrouillonTypeOK, Ouvertures
  <2>3. LignesSuivies' /\ LignesGardees
    BY <1>1, LignesInchangees DEF Abandonner, IInv
  <2> QED
    BY <1>1, <2>2, <2>3 DEF BrouillonInv, IInv, Abandonner, LignesGardees, LignesFigees
<1>6. ecran' \in Ecrans
  <2>1. ecran \in Ecrans /\ [ecran EXCEPT !.pas = "formulaire"] \in Ecrans
    BY DEF IInv, Ecrans, Pas
  <2> QED
    BY <1>1, <2>1 DEF Abandonner
<1> QED
  BY <1>1, <1>2, <1>3, <1>4, <1>5, <1>6, PasDEnvoi DEF Abandonner

-----------------------------------------------------------------------------
(***************************************************************************)
(* The call reaches the server.                                               *)
(***************************************************************************)
LEMMA ServirAppelSur ==
  ASSUME IInv, NEW o \in Ouvertures, ServirAppel(o)
  PROVE  Suite
<1> DEFINE e == envois[o]
           f(r) == [e EXCEPT !.reponse = r]
<1>1. /\ e \in Envois /\ e.id = o /\ e.etape = "push" /\ e.appel \in Appels /\ lignes[o].creee
      /\ DossierPris(e) /\ EnvoiSuivi(o)
  BY DEF IInv, ServeurInv, EnvoiSuivi, ServirAppel
<1>2. ASSUME NEW r \in {"ok", "refus", "champ"}
      PROVE  /\ f(r) \in Envois /\ f(r).id = e.id /\ f(r).acceptes = e.acceptes
             /\ f(r).appel = e.appel /\ f(r).etape = "push" /\ f(r).reponse = r
  BY <1>1 DEF Envois
<1>3. ASSUME NEW r \in {"ok", "refus", "champ"} PROVE DossierPris(f(r))
  <2> DEFINE g == f(r)
  <2>1. g.acceptes = e.acceptes /\ g.appel = e.appel
    BY <1>2
  <2> HIDE DEF g
  <2>2. DossierPris(g)
    BY <1>1, <2>1 DEF DossierPris
  <2> QED
    BY <2>2 DEF g
<1>4. ASSUME UNCHANGED <<lignes, tentatives, converti>>, NEW r \in {"ok", "refus", "champ"},
             Repondre(o, r), r = "ok" => \E t \in tentatives : t.ouverture = o
      PROVE  Suite
  <2>1. BrouillonInv' /\ LignesFigees
    BY <1>4, BrouillonReste DEF ServirAppel, varsBrouillon
  <2>2. envois' = [envois EXCEPT ![o] = f(r)]
    BY <1>4 DEF Repondre
  <2> DEFINE g == f(r)
  <2>3. /\ g \in Envois /\ g.id = e.id /\ g.acceptes = e.acceptes
        /\ g.appel = e.appel /\ g.etape = "push" /\ g.reponse = r /\ DossierPris(g)
    BY <1>2, <1>3
  <2> HIDE DEF g, f
  <2> QED
    BY <1>1, <1>4, <2>1, <2>2, <2>3, PasDEnvoi DEF ServirAppel, IInv, g
<1>5. CASE DejaEnregistree(o) /\ Repondre(o, "ok") /\ UNCHANGED <<lignes, tentatives, converti>>
  <2>1. \E t \in tentatives : t.ouverture = o
    BY <1>1, <1>5 DEF DejaEnregistree, IInv, ServeurInv
  <2> QED
    BY <1>4, <1>5, <2>1
<1>6. CASE Refuser(o)
  BY <1>4, <1>6 DEF Refuser
<1>7. CASE /\ ~DejaEnregistree(o) /\ Repondre(o, "ok")
           /\ tentatives' = tentatives \union {[id |-> e.id, ouverture |-> o, appel |-> e.appel]}
           /\ lignes' = [lignes EXCEPT ![o].fermee = TRUE]
           /\ converti' = e.appel.methode
  <2> DEFINE t == [id |-> e.id, ouverture |-> o, appel |-> e.appel]
             g == f("ok")
  <2>1. t \in Tentatives /\ t.id = o /\ t.ouverture = o /\ t.appel = e.appel
    BY <1>1, BornesBrouillonAssumption DEF Tentatives, Ouvertures
  <2>2. envois' = [envois EXCEPT ![o] = g]
    BY <1>7 DEF Repondre
  <2>3. /\ g \in Envois /\ g.id = e.id /\ g.acceptes = e.acceptes
        /\ g.appel = e.appel /\ g.etape = "push" /\ DossierPris(g)
    BY <1>2, <1>3
  <2>4. converti' \in BOOLEAN
    BY <1>1, <1>7 DEF Appels
  <2> HIDE DEF t, g, f
  <2>5. /\ lignes' \in [Ouvertures -> Lignes] /\ LignesSuivies'
        /\ \A p \in Ouvertures : /\ lignes[p].creee => lignes'[p].creee
                                 /\ lignes'[p].draft = lignes[p].draft
    BY <1>1, <1>7, FermetureSure DEF IInv
  <2>6. BrouillonInv' /\ LignesFigees
    <3>1. BrouillonTypeOK'
      BY <2>5 DEF ServirAppel, IInv, BrouillonInv, BrouillonTypeOK, Ouvertures, Lignes
    <3>2. ouverture' # 0 => lignes'[ouverture'].creee
      BY <2>5, BornesBrouillonAssumption
      DEF ServirAppel, IInv, BrouillonInv, BrouillonTypeOK, Ouvertures
    <3> QED
      BY <2>5, <3>1, <3>2 DEF BrouillonInv, LignesFigees
  <2>7. tentatives' = tentatives \union {t} /\ envois' \in [Ouvertures -> Envois]
    BY <1>7, <2>2, <2>3 DEF t, IInv, ServeurInv
  <2>8. envois \in [Ouvertures -> Envois]
    BY DEF IInv, ServeurInv
  <2>9. \A p \in Ouvertures : envois'[p].acceptes = envois[p].acceptes
    BY <2>2, <2>3, <2>8
  <2>10. \A p \in Ouvertures : EnvoiSuivi(p)'
    <3>1. EnvoiSuivi(o)'
      BY <1>1, <2>1, <2>2, <2>3, <2>6, <2>7, <2>8 DEF EnvoiSuivi, LignesFigees
    <3>2. ASSUME NEW p \in Ouvertures, p # o PROVE EnvoiSuivi(p)'
      BY <2>2, <2>6, <2>7, <2>8, <3>2 DEF IInv, ServeurInv, EnvoiSuivi, LignesFigees
    <3> QED
      BY <3>1, <3>2
  <2>11. UnAppelParEcran'
    <3>1. \A u \in tentatives : u.ouverture # o
      BY <1>1, <1>7 DEF DejaEnregistree, IInv, ServeurInv
    <3> QED
      BY <2>1, <2>7, <3>1 DEF UnAppelParEcran, IInv, ServeurInv
  <2>12. AnnonceVraie' /\ annonces' = annonces
    BY <2>7 DEF AnnonceVraie, IInv, ServeurInv, ServirAppel
  <2>13. DossierAvantFermeture'
    <3>1. GarderBrouillon(t.appel) => BrouillonDe(t.appel) \in envois'[t.ouverture].acceptes
      BY <1>1, <2>1, <2>9 DEF DossierPris
    <3>2. \A u \in tentatives :
            GarderBrouillon(u.appel) => BrouillonDe(u.appel) \in envois'[u.ouverture].acceptes
      BY <2>9 DEF DossierAvantFermeture, IInv, ServeurInv, Tentatives
    <3> QED
      BY <2>7, <3>1, <3>2 DEF DossierAvantFermeture
  <2>14. tentatives' \subseteq Tentatives /\ \A u \in tentatives' : u.id = u.ouverture
    BY <2>1, <2>7 DEF IInv, ServeurInv
  <2>15. ServeurInv'
    BY <2>4, <2>7, <2>10, <2>11, <2>12, <2>13, <2>14 DEF IInv, ServeurInv
  <2> QED
    BY <2>6, <2>15 DEF Suite, IInv, ServirAppel
<1> QED
  BY <1>5, <1>6, <1>7 DEF ServirAppel

-----------------------------------------------------------------------------
LEMMA InitInv == Init => IInv
<1> SUFFICES ASSUME Init PROVE IInv
  OBVIOUS
<1>1. BrouillonInv /\ ecran \in Ecrans
  BY DebutSur, EcranNeufType DEF Init
<1>2. \A o \in Ouvertures : EnvoiNeuf(o) \in Envois
  BY EnvoisAssumption, BornesBrouillonAssumption DEF EnvoiNeuf, Envois, Ouvertures
<1>3. envois \in [Ouvertures -> Envois]
  BY <1>2 DEF Init
<1>4. \A o \in Ouvertures : EnvoiSuivi(o)
  BY DEF Init, EnvoiSuivi, EnvoiNeuf, DossierPris
<1> QED
  BY <1>1, <1>3, <1>4
  DEF IInv, ServeurInv, Init, UnAppelParEcran, AnnonceVraie, DossierAvantFermeture

LEMMA ChaquePas ==
  ASSUME IInv, [Next]_vars
  PROVE  Suite
<1>1. CASE Agent
  BY <1>1, OuvertureSure, PasSurs, SaisieSure, EnregistrerSur DEF Agent
<1>2. CASE Automatique /\ UNCHANGED <<ecran, envois, tentatives, converti, annonces>>
  BY <1>2, AutomatiqueSur, EcranBouge DEF IInv
<1>3. ASSUME NEW o \in Ouvertures,
             \/ ServirBrouillon(o) \/ ServirBant(o) \/ ServirAppel(o)
             \/ EtapeSuivante(o) \/ Annoncer(o) \/ RecevoirRefus(o) \/ PerdreEnvoi(o)
      PROVE  Suite
  BY <1>3, ServirBrouillonSur, ServirBantSur, ServirAppelSur, EtapeSuivanteSure, AnnoncerSur, AbandonSur
<1>4. CASE UNCHANGED vars
  BY <1>4, InchangeSur, EcranBouge DEF vars, IInv
<1> QED
  BY <1>1, <1>2, <1>3, <1>4 DEF Next, Reseau

(* The strengthening holds: every sending carries the identifier of its opening, a     *)
(* recorded call, and the dossier its call goes with.                                    *)
THEOREM Invariant == Spec => []IInv
<1>1. IInv /\ [Next]_vars => IInv'
  BY ChaquePas DEF Suite
<1> QED
  BY <1>1, InitInv, PTL DEF Spec

-----------------------------------------------------------------------------
(* The screen, the draft, the sendings and the rows keep their types. *)
THEOREM TypeCorrect == Spec => []TypeOK
<1>1. IInv => TypeOK
  BY DEF IInv, BrouillonInv, ServeurInv, Tentatives, TypeOK
<1> QED
  BY <1>1, Invariant, PTL

(* However many times its screen sends it and whatever is lost, a call is recorded  *)
(* once: the identifier is the one drawn when the opening was mounted.                *)
THEOREM AppelEnregistreUneFois == Spec => []UnAppelParEcran
<1>1. IInv => UnAppelParEcran
  BY DEF IInv, ServeurInv
<1> QED
  BY <1>1, Invariant, PTL

(* "Appel consigné" is never said of a call the server does not have. *)
THEOREM AnnonceToujoursVraie == Spec => []AnnonceVraie
<1>1. IInv => AnnonceVraie
  BY DEF IInv, ServeurInv
<1> QED
  BY <1>1, Invariant, PTL

(* EB-10, for every path and every loss: the server has taken the dossier of a call  *)
(* before the call closes the opening to it.                                           *)
THEOREM DossierToujoursAvant == Spec => []DossierAvantFermeture
<1>1. IInv => DossierAvantFermeture
  BY DEF IInv, ServeurInv
<1> QED
  BY <1>1, Invariant, PTL

(* No draft write that arrives late changes an opening its call has closed. *)
THEOREM FermeePourToujours == Spec => FermeeFigee
<1>1. ASSUME IInv, [Next]_vars
      PROVE  \A o \in Ouvertures : lignes[o].fermee => lignes'[o].draft = lignes[o].draft
  BY <1>1, ChaquePas DEF Suite, LignesFigees
<1> QED
  BY <1>1, Invariant, PTL DEF Spec, FermeeFigee

-----------------------------------------------------------------------------
(***************************************************************************)
(* What is recorded holds together: the answers of a screen agree with one      *)
(* another as far as the step on screen.                                           *)
(***************************************************************************)
Tardifs == {"precision", "echeance", "note"}

(* A dossier is shown when the person answered, and the status is of its group; a     *)
(* precision is of its status and a date of its outcome.  From the precision on, an      *)
(* enrolment has an interested status, and from the note on, a date has its site.          *)
EcranCoherent ==
  /\ ecran.groupe = "joignable" => affiche.conversion # Rien
  /\ ecran.groupe = "injoignable" => affiche.conversion = Rien
  /\ ecran.groupe = Rien => ecran.statut = Rien
  /\ ecran.statut # Rien => (ecran.statut.joint <=> ecran.groupe = "joignable")
  /\ ecran.precision # Rien => ecran.statut # Rien /\ ecran.precision.parent = ecran.statut.code
  /\ ecran.echeance # Rien => Motif # Rien /\ Motif.rappel
  /\ ecran.pas = "precision" => sousMotifsDe(ecran.statut) # {}
  /\ ecran.groupe = "joignable" /\ ecran.pas \in Tardifs /\ Adhesion /\ ecran.statut # Rien =>
       ecran.statut.effet = "CLOSE_INTERESTED"
  /\ ecran.groupe = "joignable" /\ ecran.pas = "note" /\ ecran.echeance # Rien => RvSiteVerifie

EnvoisConsequents ==
  \A o \in Ouvertures : envois[o].etape # "repos" => Consequent(envois[o].appel)

CInv == EcranCoherent /\ EnvoisConsequents /\ AppelConsequent

(* The step on screen is that of the screen's state, unless the path no longer has it: *)
(* then it is the last one, the note, or the status when the note is not asked for.       *)
LEMMA LePas ==
  ASSUME ecran \in Ecrans, EcranCoherent
  PROVE  /\ PasCourant \in parcoursDe
         /\ ecran.pas \in parcoursDe => PasCourant = ecran.pas
         /\ ecran.pas \notin parcoursDe => PasCourant = IF SansNote THEN "statut" ELSE "note"
<1> DEFINE dernier == IF SansNote THEN "statut" ELSE "note"
<1>1. dernier \in parcoursDe
  BY DEF parcoursDe, Pas
<1>2. ASSUME NEW q \in parcoursDe  PROVE q = dernier \/ Rang[q] < Rang[dernier]
  <2>1. CASE ~SansNote
    BY <2>1 DEF parcoursDe, Pas, Rang
  <2>2. CASE SansNote
    <3>1. ecran.groupe = "injoignable" /\ sousMotifsDe(ecran.statut) = {}
          /\ (ecran.statut # Rien => ~ecran.statut.rappel)
      BY <2>2 DEF SansNote, SurLeStatut, sousMotifsDe
    <3>2. ecran.precision = Rien
      BY <3>1 DEF EcranCoherent, sousMotifsDe, Ecrans
    <3>3. ~RappelDemande
      BY <3>1, <3>2 DEF RappelDemande, Motif
    <3>4. q \in {"reponse", "statut"}
      BY <2>2, <3>1, <3>3, EnvoisAssumption DEF parcoursDe, Pas
    <3> QED BY <2>2, <3>4 DEF Rang
  <2> QED BY <2>1, <2>2
<1>3. \A q \in parcoursDe : Rang[q] \in Nat
  BY DEF parcoursDe, Pas, Rang
<1> DEFINE premier == CHOOSE p \in parcoursDe : \A q \in parcoursDe : Rang[q] <= Rang[p]
<1> HIDE DEF dernier
<1>4. premier = dernier
  <2>1. \A q \in parcoursDe : Rang[q] <= Rang[dernier]
    BY <1>1, <1>2, <1>3
  <2>2. premier \in parcoursDe /\ \A q \in parcoursDe : Rang[q] <= Rang[premier]
    BY <1>1, <2>1
  <2> HIDE DEF premier
  <2> QED BY <1>1, <1>2, <1>3, <2>2
<1> QED BY <1>1, <1>4 DEF PasCourant, dernier

(* Where the person answered, a late step on screen is a late step of the state. *)
LEMMA PasTardif ==
  ASSUME ecran \in Ecrans, EcranCoherent, ecran.groupe = "joignable", PasCourant \in Tardifs
  PROVE  ecran.pas \in Tardifs /\ (PasCourant # "note" => ecran.pas = PasCourant)
<1>1. ~SansNote
  BY EnvoisAssumption DEF SansNote, SurLeStatut
<1>2. {"reponse", "formulaire", "bant", "statut"} \subseteq parcoursDe
  BY DEF parcoursDe, Pas
<1> QED BY <1>1, <1>2, LePas DEF Tardifs, Ecrans, Pas

(* The outcome has the group, and the effect, of its status. *)
LEMMA MotifDuStatut ==
  ASSUME CatalogueCoherent, ecran \in Ecrans, EcranCoherent, Motif # Rien
  PROVE  /\ Motif \in Catalogue /\ ecran.statut # Rien
         /\ Motif.joint = ecran.statut.joint /\ Motif.effet = ecran.statut.effet
BY DEF CatalogueCoherent, EcranCoherent, Motif, Ecrans

(* On the note, where the person answered: an enrolment has an interested outcome, and *)
(* a visit whose date is set has its site.                                                *)
LEMMA SurLaNote ==
  ASSUME CatalogueCoherent, ecran \in Ecrans, EcranCoherent, ecran.groupe = "joignable",
         PasCourant = "note", Motif # Rien
  PROVE  /\ Adhesion => Motif.effet = "CLOSE_INTERESTED"
         /\ Motif.code \in AvecChamps => ~Adhesion
         /\ ecran.echeance # Rien => RvSiteVerifie
<1>1. /\ Motif \in Catalogue /\ ecran.statut # Rien
      /\ Motif.joint = ecran.statut.joint /\ Motif.effet = ecran.statut.effet
  BY MotifDuStatut
<1>2. ecran.pas \in Tardifs
  BY PasTardif DEF Tardifs
<1>3. Adhesion => Motif.effet = "CLOSE_INTERESTED"
  BY <1>1, <1>2 DEF EcranCoherent
<1>4. Motif.code \in AvecChamps => ~Adhesion
  BY <1>1, <1>3 DEF CatalogueCoherent
<1>5. ASSUME ecran.echeance # Rien, Motif.code \in AvecChamps  PROVE Motif.code \in ecran.rvSite
  <2>1. RappelDemande
    BY <1>1, <1>4, <1>5 DEF RappelDemande, CatalogueCoherent
  <2>2. "echeance" \in parcoursDe
    BY <2>1 DEF parcoursDe, Pas
  <2>3. ecran.pas = "precision" => "precision" \in parcoursDe
    BY DEF EcranCoherent, parcoursDe, Pas
  <2>4. ecran.pas = "note"
    BY <1>2, <2>2, <2>3, LePas DEF Tardifs
  <2> QED BY <1>5, <2>4 DEF EcranCoherent, RvSiteVerifie
<1> QED BY <1>3, <1>4, <1>5 DEF RvSiteVerifie

(* A call that leaves the screen holds together. *)
LEMMA EnvoiConsequent ==
  ASSUME CatalogueCoherent, IInv, EcranCoherent, Enregistrer, EnvoyerAppel,
         Motif # Rien, RappelDemande => ecran.echeance # Rien
  PROVE  Consequent(draftDe)
<1> DEFINE a == draftDe
<1>1. /\ a.motif = Motif /\ a.methode = Adhesion /\ a.conversion = affiche.conversion
      /\ a.echeance = ecran.echeance /\ a.rvSite = (Motif.code \in ecran.rvSite)
      /\ validateAttempt(a)
  BY DEF draftDe, EnvoyerAppel
<1> HIDE DEF a
<1>2. ecran \in Ecrans /\ affiche.conversion \in Dossiers \union {Rien}
  BY AfficheType DEF IInv
<1>3. /\ Motif \in Catalogue /\ ecran.statut # Rien
      /\ Motif.joint = ecran.statut.joint /\ Motif.effet = ecran.statut.effet
  BY <1>2, MotifDuStatut
<1>4. Motif.joint \in BOOLEAN /\ Motif.rappel \in BOOLEAN /\ ecran.statut.joint \in BOOLEAN
  BY <1>2, <1>3, CatalogueAssumption DEF Motifs, Ecrans
<1>5. ecran.groupe \in {"joignable", "injoignable"}
  BY <1>2, <1>3 DEF EcranCoherent, Ecrans
<1>6. affiche.conversion # Rien <=> Motif.joint
  BY <1>3, <1>4, <1>5, EnvoisAssumption DEF EcranCoherent
<1>7. CASE ecran.groupe = "injoignable"
  <2>1. ~Adhesion /\ ~Motif.joint /\ Motif.code \notin AvecChamps
    BY <1>3, <1>4, <1>7, EnvoisAssumption
    DEF EcranCoherent, Adhesion, CatalogueCoherent, Dossiers
  <2>2. ecran.echeance # Rien <=> Motif.rappel
    BY <2>1 DEF RappelDemande, EcranCoherent
  <2> QED BY <1>1, <1>6, <2>1, <2>2 DEF Consequent, a
<1>8. CASE ecran.groupe = "joignable"
  <2>1. PasCourant = "note"
    BY <1>8, EnvoisAssumption DEF Enregistrer, AuPas, SansNote, SurLeStatut
  <2>2. /\ Adhesion => Motif.effet = "CLOSE_INTERESTED"
        /\ Motif.code \in AvecChamps => ~Adhesion
        /\ ecran.echeance # Rien => RvSiteVerifie
    BY <1>2, <1>8, <2>1, SurLaNote
  <2>3. ecran.echeance # Rien <=> Motif.rappel /\ ~Adhesion
    <3>1. ecran.echeance # Rien => Motif.rappel
      BY DEF EcranCoherent
    <3>2. Adhesion => ecran.echeance = Rien
      BY <1>1 DEF validateAttempt, EffetDe
    <3> QED BY <3>1, <3>2 DEF RappelDemande
  <2>4. Motif.code \in AvecChamps => Motif.code \in ecran.rvSite
    <3>1. Motif.code \in AvecChamps => Motif.rappel
      BY <1>3 DEF CatalogueCoherent
    <3> QED BY <2>2, <2>3, <3>1 DEF RvSiteVerifie
  <2> QED BY <1>1, <1>6, <2>2, <2>3, <2>4 DEF Consequent, a
<1> QED BY <1>5, <1>7, <1>8

(* The screen and the dossier shown stay as they are, or a new screen comes. *)
LEMMA EcranInchange ==
  ASSUME EcranCoherent, ecran' = ecran, affiche'.conversion = affiche.conversion
  PROVE  EcranCoherent'
BY DEF EcranCoherent, Motif, Adhesion, RvSiteVerifie, sousMotifsDe

LEMMA EcranNeufCoherent ==
  ASSUME NEW vue, ecran' = EcranNeuf(vue, affiche'.conversion)
  PROVE  EcranCoherent'
<1>1. /\ ecran'.statut = Rien /\ ecran'.precision = Rien /\ ecran'.echeance = Rien
      /\ ecran'.groupe = (IF affiche'.conversion = Rien THEN Rien ELSE "joignable")
      /\ ecran'.pas = (IF affiche'.conversion = Rien THEN "reponse" ELSE "formulaire")
  BY DEF EcranNeuf
<1> QED BY <1>1, EnvoisAssumption DEF EcranCoherent

(* An answer that the server refuses may bring the form back. *)
LEMMA FormulaireRevenu ==
  ASSUME EcranCoherent, ecran \in Ecrans, NEW p \in {"formulaire", "bant", "statut"},
         ecran' = [ecran EXCEPT !.pas = p], affiche'.conversion = affiche.conversion
  PROVE  EcranCoherent'
<1>1. /\ ecran'.groupe = ecran.groupe /\ ecran'.statut = ecran.statut
      /\ ecran'.precision = ecran.precision /\ ecran'.echeance = ecran.echeance
      /\ ecran'.rvSite = ecran.rvSite /\ ecran'.pas = p
  BY DEF Ecrans
<1>2. (Motif # Rien)' = (Motif # Rien) /\ Motif' = Motif
  BY <1>1 DEF Motif
<1>3. p \notin Tardifs
  BY DEF Tardifs
<1> QED BY <1>1, <1>2, <1>3 DEF EcranCoherent, Tardifs

-----------------------------------------------------------------------------
(***************************************************************************)
(* The steps that move on the path.                                           *)
(***************************************************************************)
LEMMA ReculerCoherent ==
  ASSUME CatalogueCoherent, ecran \in Ecrans, EcranCoherent, Reculer  PROVE EcranCoherent'
<1>1. PICK p \in parcoursDe \ {ecran.pas} :
        Rang[p] <= Rang[PasCourant] /\ EcranSeul([ecran EXCEPT !.pas = p])
  BY DEF Reculer
<1>2. /\ ecran' = [ecran EXCEPT !.pas = p] /\ affiche' = affiche /\ p \in Pas
      /\ PasCourant \in parcoursDe /\ PasCourant \in Pas
  BY <1>1, LePas DEF EcranSeul, varsBrouillon, parcoursDe
<1>3. /\ ecran'.groupe = ecran.groupe /\ ecran'.statut = ecran.statut
      /\ ecran'.precision = ecran.precision /\ ecran'.echeance = ecran.echeance
      /\ ecran'.rvSite = ecran.rvSite /\ ecran'.pas = p
  BY <1>2 DEF Ecrans
<1>4. Motif' = Motif /\ Adhesion' = Adhesion
  BY <1>2, <1>3 DEF Motif, Adhesion
<1>5. p = "precision" => sousMotifsDe(ecran.statut) # {}
  BY <1>1 DEF parcoursDe
<1>6. p \in Tardifs => PasCourant \in Tardifs
  BY <1>1, <1>2 DEF Tardifs, Pas, Rang
<1>7. p = "note" => PasCourant = "note"
  BY <1>1, <1>2 DEF Pas, Rang
<1>8. ecran.groupe = "joignable" /\ p \in Tardifs /\ Adhesion /\ ecran.statut # Rien =>
        ecran.statut.effet = "CLOSE_INTERESTED"
  BY <1>6, PasTardif DEF EcranCoherent
<1>9. ecran.groupe = "joignable" /\ p = "note" /\ ecran.echeance # Rien => RvSiteVerifie
  BY <1>7, SurLaNote DEF EcranCoherent
<1> QED BY <1>2, <1>3, <1>4, <1>5, <1>8, <1>9 DEF EcranCoherent, RvSiteVerifie, sousMotifsDe

LEMMA ChoisirGroupeCoherent ==
  ASSUME IInv, EcranCoherent, NEW g \in {"joignable", "injoignable"}, ChoisirGroupe(g)
  PROVE  EcranCoherent'
<1> DEFINE reprise == IF affiche.conversion # Rien THEN affiche.conversion
                        ELSE IF ecran.misDeCote # Rien THEN ecran.misDeCote
                        ELSE "simple"
           sans == [ecran EXCEPT !.groupe = g, !.statut = Rien, !.precision = Rien, !.echeance = Rien]
           cote == IF affiche.conversion = Rien THEN sans.misDeCote ELSE affiche.conversion
<1>1. ecran \in Ecrans /\ affiche \in Brouillons
  BY AfficheType, CatalogueAssumption DEF IInv
<1>2. reprise # Rien
  BY EnvoisAssumption DEF Dossiers
<1>3. sans \in Ecrans /\ sans.groupe = g /\ sans.statut = Rien /\ sans.precision = Rien
      /\ sans.echeance = Rien
  BY <1>1 DEF Ecrans
<1> HIDE DEF sans, reprise, cote
<1>4. \/ /\ g = "joignable" /\ ecran' = [sans EXCEPT !.pas = "formulaire"]
         /\ affiche' = [affiche EXCEPT !.conversion = reprise]
      \/ /\ g = "injoignable" /\ ecran' = [sans EXCEPT !.pas = "statut", !.misDeCote = cote]
         /\ affiche' = [affiche EXCEPT !.conversion = Rien]
  BY DEF ChoisirGroupe, Afficher, sans, reprise, cote
<1>5. /\ ecran'.groupe = g /\ ecran'.statut = Rien /\ ecran'.precision = Rien
      /\ ecran'.echeance = Rien /\ ecran'.pas \in {"formulaire", "statut"}
      /\ affiche'.conversion = IF g = "joignable" THEN reprise ELSE Rien
  BY <1>1, <1>3, <1>4 DEF Ecrans, Brouillons
<1> QED BY <1>2, <1>5, EnvoisAssumption DEF EcranCoherent

LEMMA RemplirDossierCoherent ==
  ASSUME IInv, EcranCoherent, NEW d \in Dossiers, RemplirDossier(d)  PROVE EcranCoherent'
<1>1. ecran \in Ecrans /\ affiche \in Brouillons
  BY AfficheType, CatalogueAssumption DEF IInv
<1>2. PasCourant = "formulaire" /\ ecran' = ecran /\ affiche' = [affiche EXCEPT !.conversion = d]
  BY DEF RemplirDossier, AuPas, Afficher
<1>3. ecran.pas = "formulaire" /\ ecran.groupe = "joignable"
  BY <1>1, <1>2, LePas DEF parcoursDe
<1>4. affiche'.conversion = d /\ d # Rien
  BY <1>1, <1>2, EnvoisAssumption DEF Brouillons
<1> QED BY <1>2, <1>3, <1>4 DEF EcranCoherent, Motif, sousMotifsDe, Tardifs

LEMMA ChoisirStatutCoherent ==
  ASSUME CatalogueCoherent, ecran \in Ecrans, EcranCoherent, NEW m \in Catalogue, ChoisirStatut(m)
  PROVE  EcranCoherent'
<1> DEFINE pas == IF SurLeStatut(m) THEN ecran.pas
                    ELSE IF sousMotifsDe(m) # {} THEN "precision"
                    ELSE PasApresMotif(m)
           e == [ecran EXCEPT !.statut = m, !.precision = Rien, !.echeance = Rien, !.pas = pas]
<1>1. PasCourant = "statut" /\ m \in statutsDuGroupe /\ ecran' = e /\ affiche' = affiche
  BY DEF ChoisirStatut, AuPas, EcranSeul, varsBrouillon
<1>2. m # Rien /\ m.joint \in BOOLEAN
  BY CatalogueAssumption DEF Motifs
<1>3. pas = "precision" => sousMotifsDe(m) # {}
  <2>1. ecran.pas # "precision"
    BY <1>1, LePas DEF EcranCoherent, parcoursDe, Pas
  <2> QED BY <2>1 DEF PasApresMotif
<1> HIDE DEF pas
<1>4. /\ ecran'.groupe = ecran.groupe /\ ecran'.statut = m /\ ecran'.precision = Rien
      /\ ecran'.echeance = Rien /\ ecran'.pas = pas
  BY <1>1 DEF Ecrans
<1>5. ecran.groupe \in {"joignable", "injoignable"} /\ (m.joint <=> ecran.groupe = "joignable")
  BY <1>1, <1>2, EnvoisAssumption DEF statutsDuGroupe, statutsJoignables, Ecrans
<1>6. ecran.groupe = "joignable" /\ Adhesion => m.effet = "CLOSE_INTERESTED"
  <2>1. \E i \in statutsJoignables : i.effet = "CLOSE_INTERESTED"
    BY DEF CatalogueCoherent, statutsJoignables, motifsRacine
  <2> QED BY <1>1, <2>1 DEF statutsDuGroupe
<1> QED BY <1>1, <1>2, <1>3, <1>4, <1>5, <1>6, EnvoisAssumption
    DEF EcranCoherent, Adhesion, sousMotifsDe

LEMMA ChoisirPrecisionCoherent ==
  ASSUME ecran \in Ecrans, EcranCoherent, NEW m \in Catalogue \union {Rien}, ChoisirPrecision(m)
  PROVE  EcranCoherent'
<1> DEFINE pas == PasApresMotif(IF m = Rien THEN ecran.statut ELSE m)
           e == [ecran EXCEPT !.precision = m, !.echeance = Rien, !.pas = pas]
<1>1. /\ PasCourant = "precision" /\ m \in sousMotifsDe(ecran.statut) \union {Rien}
      /\ ecran' = e /\ affiche' = affiche
  BY DEF ChoisirPrecision, AuPas, EcranSeul, varsBrouillon
<1>2. pas \in {"echeance", "note"}
  BY DEF PasApresMotif
<1> HIDE DEF pas
<1>3. /\ ecran'.groupe = ecran.groupe /\ ecran'.statut = ecran.statut /\ ecran'.precision = m
      /\ ecran'.echeance = Rien /\ ecran'.pas = pas
  BY <1>1 DEF Ecrans
<1>4. ecran.groupe = "joignable" => ecran.pas \in Tardifs
  BY <1>1, PasTardif DEF Tardifs
<1>5. m # Rien => ecran.statut # Rien /\ m.parent = ecran.statut.code
  BY <1>1 DEF sousMotifsDe
<1> QED BY <1>1, <1>2, <1>3, <1>4, <1>5 DEF EcranCoherent, Adhesion

(* On the date, the step of the state is the date. *)
LEMMA SurLaDate ==
  ASSUME ecran \in Ecrans, EcranCoherent, PasCourant = "echeance"
  PROVE  ecran.pas = "echeance" /\ Motif # Rien /\ Motif.rappel
BY LePas DEF parcoursDe, RappelDemande

LEMMA RemplirRvSiteCoherent ==
  ASSUME ecran \in Ecrans, EcranCoherent, NEW complet \in BOOLEAN, RemplirRvSite(complet)
  PROVE  EcranCoherent'
<1> DEFINE rv == IF complet THEN ecran.rvSite \union {Motif.code} ELSE ecran.rvSite \ {Motif.code}
<1>1. PasCourant = "echeance" /\ ecran' = [ecran EXCEPT !.rvSite = rv] /\ affiche' = affiche
  BY DEF RemplirRvSite, AuPas, EcranSeul, varsBrouillon
<1> HIDE DEF rv
<1>2. /\ ecran'.groupe = ecran.groupe /\ ecran'.statut = ecran.statut
      /\ ecran'.precision = ecran.precision /\ ecran'.echeance = ecran.echeance
      /\ ecran'.pas = "echeance" /\ ecran.pas = "echeance"
  BY <1>1, SurLaDate DEF Ecrans
<1>3. Motif' = Motif
  BY <1>2 DEF Motif
<1> QED BY <1>1, <1>2, <1>3 DEF EcranCoherent, Adhesion

LEMMA EcheanceCoherente ==
  ASSUME ecran \in Ecrans, EcranCoherent,
         ValiderEcheance \/ \E at \in {"venir", "passee"} : ChoisirEcheance(at)
  PROVE  EcranCoherent'
<1>1. /\ PasCourant = "echeance" /\ affiche' = affiche
      /\ \E at \in {Rien, "venir", "passee"}, p \in Pas :
           /\ ecran' = [ecran EXCEPT !.echeance = at, !.pas = p]
           /\ (p = "note" /\ RvSiteVerifie) \/ p = ecran.pas
  <2>1. CASE ValiderEcheance
    <3>1. ecran' = [ecran EXCEPT !.echeance = ecran.echeance, !.pas = "note"]
      BY <2>1 DEF ValiderEcheance, EcranSeul, Ecrans
    <3>2. ecran.echeance \in {Rien, "venir", "passee"} /\ "note" \in Pas
      BY DEF Ecrans, Pas
    <3> QED BY <2>1, <3>1, <3>2 DEF ValiderEcheance, AuPas, EcranSeul, varsBrouillon
  <2>2. ASSUME NEW at \in {"venir", "passee"}, ChoisirEcheance(at)
        PROVE  /\ PasCourant = "echeance" /\ affiche' = affiche
               /\ \E p \in Pas : /\ ecran' = [ecran EXCEPT !.echeance = at, !.pas = p]
                                 /\ (p = "note" /\ RvSiteVerifie) \/ p = ecran.pas
    <3>1. "note" \in Pas /\ ecran.pas \in Pas
      BY DEF Ecrans, Pas
    <3> QED BY <2>2, <3>1 DEF ChoisirEcheance, AuPas, EcranSeul, varsBrouillon
  <2> QED BY <2>1, <2>2
<1>2. PICK at \in {Rien, "venir", "passee"}, p \in Pas :
        /\ ecran' = [ecran EXCEPT !.echeance = at, !.pas = p]
        /\ (p = "note" /\ RvSiteVerifie) \/ p = ecran.pas
  BY <1>1
<1>3. ecran.pas = "echeance" /\ Motif # Rien /\ Motif.rappel
  BY <1>1, SurLaDate
<1>4. /\ ecran'.groupe = ecran.groupe /\ ecran'.statut = ecran.statut
      /\ ecran'.precision = ecran.precision /\ ecran'.rvSite = ecran.rvSite /\ ecran'.pas = p
  BY <1>2 DEF Ecrans
<1>5. Motif' = Motif
  BY <1>4 DEF Motif
<1> QED BY <1>1, <1>2, <1>3, <1>4, <1>5 DEF EcranCoherent, Adhesion, RvSiteVerifie, Tardifs

LEMMA HeureTourneCoherente ==
  ASSUME ecran \in Ecrans, EcranCoherent, HeureTourne  PROVE EcranCoherent'
<1>1. /\ ecran' = [ecran EXCEPT !.echeance = "passee"] /\ affiche' = affiche
      /\ ecran.echeance # Rien
  BY EnvoisAssumption DEF HeureTourne, EcranSeul, varsBrouillon
<1>2. /\ ecran'.groupe = ecran.groupe /\ ecran'.statut = ecran.statut
      /\ ecran'.precision = ecran.precision /\ ecran'.rvSite = ecran.rvSite
      /\ ecran'.pas = ecran.pas
  BY <1>1 DEF Ecrans
<1>3. Motif' = Motif
  BY <1>2 DEF Motif
<1> QED BY <1>1, <1>2, <1>3 DEF EcranCoherent, Adhesion, RvSiteVerifie, sousMotifsDe

(* Sent back to a step that lacks, or sent. *)
LEMMA EnregistrerCoherent ==
  ASSUME ecran \in Ecrans, EcranCoherent, Enregistrer  PROVE EcranCoherent'
<1>1. CASE EcranSeul([ecran EXCEPT !.pas = "statut"])
  BY <1>1, FormulaireRevenu DEF EcranSeul, varsBrouillon
<1>2. ASSUME NEW at \in {ecran.echeance, Rien},
             EcranSeul([ecran EXCEPT !.echeance = at, !.pas = "echeance"])
      PROVE  EcranCoherent'
  <2>1. /\ ecran'.groupe = ecran.groupe /\ ecran'.statut = ecran.statut
        /\ ecran'.precision = ecran.precision /\ ecran'.rvSite = ecran.rvSite
        /\ ecran'.pas = "echeance" /\ ecran'.echeance \in {ecran.echeance, Rien}
        /\ affiche' = affiche
    BY <1>2 DEF EcranSeul, varsBrouillon, Ecrans
  <2>2. Motif' = Motif
    BY <2>1 DEF Motif
  <2>3. ecran.groupe = "joignable" => ecran.pas \in Tardifs
    BY PasTardif, EnvoisAssumption DEF Enregistrer, AuPas, SansNote, SurLeStatut, Tardifs
  <2> QED BY <2>1, <2>2, <2>3 DEF EcranCoherent, Adhesion
<1>3. CASE EcranSeul([ecran EXCEPT !.pas = "echeance"])
  <2>1. [ecran EXCEPT !.pas = "echeance"]
          = [ecran EXCEPT !.echeance = ecran.echeance, !.pas = "echeance"]
    BY DEF Ecrans
  <2> QED BY <1>2, <1>3, <2>1
<1>4. CASE EcranSeul([ecran EXCEPT !.echeance = Rien, !.pas = "echeance"])
  BY <1>2, <1>4
<1>5. CASE EnvoyerAppel
  BY <1>5, EcranInchange DEF EnvoyerAppel, varsBrouillon
<1> QED BY <1>1, <1>3, <1>4, <1>5 DEF Enregistrer

(* Every step leaves a screen that holds together. *)
LEMMA EcranReste ==
  ASSUME CatalogueCoherent, IInv, EcranCoherent, [Next]_vars  PROVE EcranCoherent'
<1>0. ecran \in Ecrans
  BY DEF IInv
<1>1. CASE Ouvrir
  BY <1>1, EcranNeufCoherent DEF Ouvrir
<1>2. CASE QuitterLaFiche \/ \E o \in Ouvertures : Annoncer(o)
  <2>1. ecran' = EcranNeuf(FALSE, Rien) /\ affiche'.conversion = Rien
    <3>1. Revenir
      BY <1>2 DEF QuitterLaFiche, Annoncer
    <3>2. ecran' = EcranNeuf(FALSE, Rien) /\ affiche' = Vierge
      BY <3>1 DEF Revenir, Demonter
    <3>3. Vierge.conversion = Rien
      BY CatalogueAssumption
    <3> QED BY <3>2, <3>3
  <2> QED BY <2>1, EcranNeufCoherent
<1>3. CASE Continuer \/ RemplirBant
  <2>1. CASE RemplirBant
    <3>1. ecran' = [ecran EXCEPT !.bantModifie = TRUE] /\ affiche' = affiche
      BY <2>1 DEF RemplirBant, EcranSeul, varsBrouillon
    <3>2. /\ ecran'.groupe = ecran.groupe /\ ecran'.statut = ecran.statut
          /\ ecran'.precision = ecran.precision /\ ecran'.echeance = ecran.echeance
          /\ ecran'.rvSite = ecran.rvSite /\ ecran'.pas = ecran.pas
      BY <1>0, <3>1 DEF Ecrans
    <3> QED BY <3>1, <3>2 DEF EcranCoherent, Motif, Adhesion, RvSiteVerifie, sousMotifsDe
  <2>2. CASE Continuer
    BY <1>0, <2>2, FormulaireRevenu DEF Continuer, EcranSeul, varsBrouillon
  <2> QED BY <1>3, <2>1, <2>2
<1>4. CASE Commenter
  <2>1. affiche'.conversion = affiche.conversion /\ ecran' = ecran
    <3>1. affiche \in Brouillons /\ affiche' = [affiche EXCEPT !.comment = ~affiche.comment]
      BY <1>4, AfficheType, CatalogueAssumption DEF IInv, Commenter, Afficher
    <3> QED BY <1>4, <3>1 DEF Commenter, Brouillons
  <2> QED BY <2>1, EcranInchange
<1>5. ASSUME NEW o \in Ouvertures, RecevoirRefus(o) \/ PerdreEnvoi(o)  PROVE EcranCoherent'
  <2>1. affiche' = affiche /\ (ecran' = ecran \/ ecran' = [ecran EXCEPT !.pas = "formulaire"])
    BY <1>5 DEF RecevoirRefus, PerdreEnvoi, Abandonner
  <2> QED BY <1>0, <2>1, EcranInchange, FormulaireRevenu
<1>6. CASE UNCHANGED <<ecran, affiche>>
  BY <1>6, EcranInchange
<1>7. CASE \/ Automatique /\ UNCHANGED <<ecran, envois, tentatives, converti, annonces>>
           \/ OuvrirSansReponse \/ UNCHANGED vars
           \/ \E o \in Ouvertures :
                ServirBrouillon(o) \/ ServirBant(o) \/ ServirAppel(o) \/ EtapeSuivante(o)
  BY <1>6, <1>7 DEF Automatique, Minuteur, Masquer, Envoyer, RecevoirPut, ReponsePut, PerdrePut,
     OuvrirSansReponse, OuvertureSansReponse, vars, varsBrouillon, ServirBrouillon, ServirBant,
     ServirAppel, EtapeSuivante
<1>8. CASE \/ Reculer \/ ValiderEcheance \/ HeureTourne \/ Enregistrer
           \/ \E g \in {"joignable", "injoignable"} : ChoisirGroupe(g)
           \/ \E d \in Dossiers : RemplirDossier(d)
           \/ \E m \in Catalogue : ChoisirStatut(m)
           \/ \E m \in Catalogue \union {Rien} : ChoisirPrecision(m)
           \/ \E complet \in BOOLEAN : RemplirRvSite(complet)
           \/ \E at \in {"venir", "passee"} : ChoisirEcheance(at)
  BY <1>0, <1>8, ReculerCoherent, EcheanceCoherente, HeureTourneCoherente, EnregistrerCoherent,
     ChoisirGroupeCoherent, RemplirDossierCoherent, ChoisirStatutCoherent,
     ChoisirPrecisionCoherent, RemplirRvSiteCoherent
<1> QED BY <1>1, <1>2, <1>3, <1>4, <1>5, <1>7, <1>8 DEF Next, Agent, Reseau

(* A sending goes on with the call it left with, or is over. *)
LEMMA EnvoisSuivent ==
  ASSUME IInv, EnvoisConsequents, NEW o \in Ouvertures, NEW f, envois' = [envois EXCEPT ![o] = f],
         \/ f.etape = "repos"
         \/ f.appel = envois[o].appel /\ envois[o].etape # "repos"
         \/ Consequent(f.appel)
  PROVE  EnvoisConsequents'
<1>1. ASSUME NEW p \in Ouvertures, envois'[p].etape # "repos"  PROVE Consequent(envois'[p].appel)
  <2>1. CASE p = o
    <3>1. envois'[p] = f
      BY <2>1 DEF IInv, ServeurInv
    <3> QED BY <1>1, <2>1, <3>1 DEF EnvoisConsequents
  <2>2. CASE p # o
    <3>1. envois'[p] = envois[p]
      BY <2>2 DEF IInv, ServeurInv
    <3> QED BY <1>1, <3>1 DEF EnvoisConsequents
  <2> QED BY <2>1, <2>2
<1>2. \A p \in Ouvertures : envois'[p].etape # "repos" => Consequent(envois'[p].appel)
  BY <1>1
<1> QED BY <1>2 DEF EnvoisConsequents, Consequent

LEMMA EnvoisRestent ==
  ASSUME CatalogueCoherent, IInv, CInv, [Next]_vars  PROVE EnvoisConsequents'
<1>0. envois \in [Ouvertures -> Envois] /\ EnvoisConsequents
  BY DEF IInv, ServeurInv, CInv
<1>1. CASE UNCHANGED envois
  BY <1>0, <1>1 DEF EnvoisConsequents, Consequent
<1>2. CASE Enregistrer /\ EnvoyerAppel /\ Motif # Rien /\ (RappelDemande => ecran.echeance # Rien)
  <2>1. ouverture \in Ouvertures
    BY <1>2, BornesBrouillonAssumption
    DEF Enregistrer, AuPas, EnCours, IInv, BrouillonInv, BrouillonTypeOK, Ouvertures
  <2>2. Consequent(draftDe)
    BY <1>2, EnvoiConsequent DEF CInv
  <2> DEFINE f == [envois[ouverture] EXCEPT !.essais = @ + 1, !.appel = draftDe, !.reponse = Rien,
                     !.erreur = Rien,
                     !.etape = IF GarderBrouillon(draftDe) THEN "brouillon"
                               ELSE ApresBrouillon(draftDe)]
  <2>3. envois' = [envois EXCEPT ![ouverture] = f]
    BY <1>2 DEF EnvoyerAppel
  <2>4. f.appel = draftDe
    BY <1>0, <2>1 DEF Envois
  <2> HIDE DEF f
  <2> QED BY <1>0, <2>1, <2>2, <2>3, <2>4, EnvoisSuivent
<1>3. ASSUME NEW o \in Ouvertures,
             \/ ServirBrouillon(o) \/ ServirBant(o) \/ ServirAppel(o)
             \/ EtapeSuivante(o) \/ Annoncer(o) \/ RecevoirRefus(o) \/ PerdreEnvoi(o)
      PROVE  EnvoisConsequents'
  <2> DEFINE e == envois[o]
  <2>1. e \in Envois
    BY <1>0
  <2>2. ASSUME e.etape # "repos", NEW r, Repondre(o, r)  PROVE EnvoisConsequents'
    <3> DEFINE f == [e EXCEPT !.reponse = r]
    <3>1. envois' = [envois EXCEPT ![o] = f] /\ f.appel = e.appel
      BY <2>1, <2>2 DEF Repondre, Envois
    <3> HIDE DEF f
    <3> QED BY <1>0, <2>2, <3>1, EnvoisSuivent
  <2>3. CASE ServirBrouillon(o)
    <3> DEFINE f == IF lignes[o].fermee THEN [e EXCEPT !.reponse = "ferme"]
                    ELSE [e EXCEPT !.reponse = "ok", !.acceptes = @ \union {BrouillonDe(e.appel)}]
    <3>1. envois' = [envois EXCEPT ![o] = f] /\ e.etape # "repos"
      BY <2>3 DEF ServirBrouillon
    <3>2. f.appel = e.appel
      BY <2>1 DEF Envois
    <3> HIDE DEF f
    <3> QED BY <1>0, <3>1, <3>2, EnvoisSuivent
  <2>4. CASE ServirBant(o) \/ ServirAppel(o)
    BY <2>2, <2>4 DEF ServirBant, ServirAppel, Refuser
  <2>5. CASE EtapeSuivante(o)
    <3> DEFINE f == [e EXCEPT !.reponse = Rien,
                       !.etape = IF e.etape = "brouillon" THEN ApresBrouillon(e.appel) ELSE "push"]
    <3>1. envois' = [envois EXCEPT ![o] = f]
      BY <2>5 DEF EtapeSuivante
    <3>2. f.appel = e.appel
      BY <2>1 DEF Envois
    <3>3. e.etape # "repos"
      BY <2>5, EnvoisAssumption DEF EtapeSuivante, IInv, ServeurInv, EnvoiSuivi
    <3> HIDE DEF f
    <3> QED BY <1>0, <3>1, <3>2, <3>3, EnvoisSuivent
  <2>6. CASE Annoncer(o) \/ RecevoirRefus(o) \/ PerdreEnvoi(o)
    <3>1. PICK erreur : envois' = [envois EXCEPT ![o] = [e EXCEPT !.etape = "repos",
                                     !.reponse = Rien, !.appel = Rien, !.erreur = erreur]]
      <4>1. CASE Annoncer(o)
        <5>1. [e EXCEPT !.etape = "repos", !.reponse = Rien, !.appel = Rien]
                = [e EXCEPT !.etape = "repos", !.reponse = Rien, !.appel = Rien, !.erreur = e.erreur]
          BY <2>1 DEF Envois
        <5> QED BY <4>1, <5>1 DEF Annoncer
      <4>2. CASE RecevoirRefus(o) \/ PerdreEnvoi(o)
        BY <4>2 DEF RecevoirRefus, PerdreEnvoi, Abandonner
      <4> QED BY <2>6, <4>1, <4>2
    <3> DEFINE f == [e EXCEPT !.etape = "repos", !.reponse = Rien, !.appel = Rien, !.erreur = erreur]
    <3>2. f.etape = "repos"
      BY <2>1 DEF Envois
    <3> HIDE DEF f
    <3> QED BY <1>0, <3>1, <3>2, EnvoisSuivent DEF f
  <2> QED BY <1>3, <2>3, <2>4, <2>5, <2>6
<1>4. CASE Agent
  <2>1. CASE Enregistrer
    <3>1. \/ UNCHANGED envois
          \/ EnvoyerAppel /\ Motif # Rien /\ (RappelDemande => ecran.echeance # Rien)
      BY <2>1 DEF Enregistrer, EcranSeul, ResteServeur
    <3> QED BY <1>1, <1>2, <2>1, <3>1
  <2>2. CASE ~Enregistrer
    <3>1. UNCHANGED envois
      BY <1>4, <2>2 DEF Agent, Ouvrir, OuvrirSansReponse, QuitterLaFiche, Reculer, Continuer,
         ChoisirGroupe, RemplirDossier, RemplirBant, ChoisirStatut, ChoisirPrecision,
         RemplirRvSite, ChoisirEcheance, ValiderEcheance, HeureTourne, Commenter, EcranSeul,
         ResteServeur
    <3> QED BY <1>1, <3>1
  <2> QED BY <2>1, <2>2
<1>5. CASE Automatique /\ UNCHANGED <<ecran, envois, tentatives, converti, annonces>>
  BY <1>1, <1>5
<1>6. CASE UNCHANGED vars
  BY <1>1, <1>6 DEF vars
<1> QED BY <1>3, <1>4, <1>5, <1>6 DEF Next, Reseau

(* What is recorded is the call of a sending. *)
LEMMA TentativesRestent ==
  ASSUME IInv, CInv, [Next]_vars  PROVE AppelConsequent'
<1>1. ASSUME NEW t \in tentatives'
      PROVE  t \in tentatives \/ \E o \in Ouvertures : envois[o].etape # "repos"
                                                      /\ t.appel = envois[o].appel
  <2>1. CASE UNCHANGED tentatives
    BY <2>1
  <2>2. ASSUME NEW o \in Ouvertures, ServirAppel(o)
        PROVE  t \in tentatives \/ (envois[o].etape # "repos" /\ t.appel = envois[o].appel)
    BY <2>2 DEF ServirAppel, Refuser
  <2>3. CASE Agent
    <3>1. UNCHANGED tentatives
      BY <2>3 DEF Agent, Ouvrir, OuvrirSansReponse, QuitterLaFiche, Reculer, Continuer,
         ChoisirGroupe, RemplirDossier, RemplirBant, ChoisirStatut, ChoisirPrecision,
         RemplirRvSite, ChoisirEcheance, ValiderEcheance, HeureTourne, Commenter, EcranSeul,
         ResteServeur, Enregistrer, EnvoyerAppel
    <3> QED BY <2>1, <3>1
  <2>4. CASE \/ Automatique /\ UNCHANGED <<ecran, envois, tentatives, converti, annonces>>
             \/ UNCHANGED vars
             \/ \E o \in Ouvertures :
                  \/ ServirBrouillon(o) \/ ServirBant(o) \/ EtapeSuivante(o) \/ Annoncer(o)
                  \/ RecevoirRefus(o) \/ PerdreEnvoi(o)
    BY <2>1, <2>4 DEF vars, ServirBrouillon, ServirBant, EtapeSuivante, Annoncer, RecevoirRefus,
       PerdreEnvoi, Abandonner
  <2> QED BY <2>2, <2>3, <2>4 DEF Next, Reseau
<1>2. \A t \in tentatives' : Consequent(t.appel)
  BY <1>1 DEF CInv, EnvoisConsequents, AppelConsequent
<1> QED BY <1>2 DEF AppelConsequent, Consequent

(* Whatever the agent changes on the way back, whatever the server refuses and the clock *)
(* overtakes meanwhile: what is recorded holds together, on every referential that does.    *)
THEOREM AppelsConsequents == CatalogueCoherent /\ Spec => []AppelConsequent
<1> SUFFICES ASSUME CatalogueCoherent  PROVE Spec => []AppelConsequent
  OBVIOUS
<1>1. Init => CInv
  <2> SUFFICES ASSUME Init  PROVE CInv
    OBVIOUS
  <2>1. /\ ecran.groupe = Rien /\ ecran.statut = Rien /\ ecran.precision = Rien
        /\ ecran.echeance = Rien /\ ecran.pas = "reponse"
    BY DEF Init, EcranNeuf
  <2>2. EcranCoherent
    BY <2>1, EnvoisAssumption DEF EcranCoherent
  <2> QED BY <2>2 DEF Init, CInv, EnvoisConsequents, AppelConsequent, EnvoiNeuf
<1>2. IInv /\ CInv /\ [Next]_vars => CInv'
  BY EcranReste, EnvoisRestent, TentativesRestent DEF CInv
<1>3. CInv => AppelConsequent
  BY DEF CInv
<1> QED BY <1>1, <1>2, <1>3, Invariant, PTL DEF Spec
=============================================================================
