-------------------------- MODULE CourrielsProofs --------------------------
(***************************************************************************)
(* A mail leaves once but for the failures and the hand, and not after its   *)
(* bounce: for any number of mails, of replays that overlap, of tries, of    *)
(* failures.  The argument is that of the lock a replay takes when it reads  *)
(* the row again: whoever sends a mail is alone to do so, and the row he     *)
(* read stays as it was until he writes it.                                  *)
(***************************************************************************)
EXTENDS Courriels, TLAPS

(* The sending of a mail is the business of one sender. *)
UnSeulExpediteur ==
  \A x, y \in Expediteurs : Occupe(x) /\ expeditions[x].courriel = expeditions[y].courriel => x = y

(* What a sender is at, and what he may still count on in the row. *)
EnvoiSuivi(x) ==
  /\ expeditions[x].resultat.statut = "EN_COURS" => expeditions[x].resultat = EnCours
  /\ ~Occupe(x) => expeditions[x] = AuRepos
  /\ Occupe(x) =>
       /\ x = Creation => courriels[expeditions[x].courriel].statut = "ABSENT"
       /\ x = Main => courriels[expeditions[x].courriel].statut # "ABSENT"
       /\ x \in Rejeux => Rejouable(expeditions[x].courriel)

(* A bounce has used up the tries for good; a mail not yet written has no message. *)
LigneSuivie(c) ==
  /\ c \in rejetes => courriels[c].statut # "ABSENT" /\ courriels[c].tentatives = TentativesMax
  /\ courriels[c].statut = "ABSENT" => courriels[c].message = 0

Typage ==
  /\ TypeOKCourriels /\ UnSeulExpediteur
  /\ \A x \in Expediteurs : EnvoiSuivi(x)
  /\ \A c \in Courriels : LigneSuivie(c)

(* A mail that may leave by itself, and one whose message Brevo has just taken. *)
Repart(c) == courriels[c].statut = "ABSENT" \/ Rejouable(c)

Parti(x, c) == expeditions[x].courriel = c /\ expeditions[x].resultat.statut = "ENVOYE"

(* The messages of a mail that are not accounted for by a failure or a hand: one at   *)
(* most, none while it may still leave by itself, and a hand that has taken it has one  *)
(* to spare.                                                                             *)
Compte(c) ==
  /\ partis[c] <= 1 + ignores[c] + renvois
  /\ Repart(c) /\ (\A x \in Expediteurs : ~Parti(x, c)) => partis[c] <= ignores[c] + renvois
  /\ expeditions[Main].courriel = c /\ ~Parti(Main, c) => partis[c] <= ignores[c] + renvois

IInv == Typage /\ \A c \in Courriels : Compte(c)

-----------------------------------------------------------------------------
LEMMA InitInv ==
  ASSUME CourrielsBienFormes, InitCourriels
  PROVE  IInv
<1>1. TypeOKCourriels
  BY DEF InitCourriels, TypeOKCourriels, CourrielsBienFormes, Absente, AuRepos, EnCours, Resultats, Expediteurs
<1>2. UnSeulExpediteur /\ \A x \in Expediteurs : EnvoiSuivi(x)
  BY DEF InitCourriels, UnSeulExpediteur, EnvoiSuivi, Occupe, AuRepos, EnCours
<1>3. \A c \in Courriels : LigneSuivie(c) /\ Compte(c)
  BY DEF InitCourriels, LigneSuivie, Compte, Absente, Main, Expediteurs
<1> QED
  BY <1>1, <1>2, <1>3 DEF IInv, Typage

(* What the type invariant says of one sender and of one row. *)
LEMMA Champs ==
  ASSUME TypeOKCourriels
  PROVE  /\ \A x \in Expediteurs :
              /\ expeditions[x] \in [courriel : 0..Nombre, resultat : Resultats]
              /\ Occupe(x) => expeditions[x].courriel \in Courriels
         /\ \A c \in Courriels :
              courriels[c] \in [statut : StatutsCourriel \union {"ABSENT"}, tentatives : 0..TentativesMax,
                             message : Nat]
BY DEF TypeOKCourriels, Occupe, Courriels

-----------------------------------------------------------------------------
(***************************************************************************)
(* A sender takes a mail, asks Brevo, or leaves it.                          *)
(***************************************************************************)

(* Whoever takes a mail nobody sends, with the row the code asks for, is alone. *)
LEMMA PrendreSuivi ==
  ASSUME CourrielsBienFormes, Typage, NEW x \in Expediteurs, NEW c \in Courriels, ~Occupe(x),
         Prendre(x, c), UNCHANGED courriels,
         x = Creation => courriels[c].statut = "ABSENT",
         x = Main => courriels[c].statut # "ABSENT",
         x \in Rejeux => Rejouable(c),
         x # Creation => ~Verrouillee(c)
  PROVE  /\ expeditions' \in [Expediteurs -> [courriel : 0..Nombre, resultat : Resultats]]
         /\ UnSeulExpediteur' /\ \A y \in Expediteurs : EnvoiSuivi(y)'
<1>0. /\ TypeOKCourriels /\ UnSeulExpediteur /\ \A y \in Expediteurs : EnvoiSuivi(y)
      /\ c \in 0..Nombre /\ c # 0
  BY DEF Typage, CourrielsBienFormes, Courriels
<1>1. /\ expeditions' \in [Expediteurs -> [courriel : 0..Nombre, resultat : Resultats]]
      /\ \A y \in Expediteurs : y # x => expeditions'[y] = expeditions[y]
      /\ expeditions'[x].courriel = c /\ expeditions'[x].resultat = expeditions[x].resultat
  BY <1>0 DEF Prendre, TypeOKCourriels
<1>2. expeditions[x] = AuRepos
  BY <1>0 DEF EnvoiSuivi
<1>3. \A y \in Expediteurs : y # x => expeditions[y].courriel # c
  <2> SUFFICES ASSUME NEW y \in Expediteurs, y # x, expeditions[y].courriel = c PROVE FALSE
    OBVIOUS
  <2>1. Occupe(y) /\ EnvoiSuivi(y)
    BY <1>0 DEF Occupe
  <2>2. CASE y = Creation
    BY <2>1, <2>2 DEF EnvoiSuivi, Rejouable, Expediteurs
  <2>3. CASE y # Creation /\ x # Creation
    BY <2>3 DEF Verrouillee
  <2>4. CASE y # Creation /\ x = Creation
    BY <2>1, <2>4 DEF EnvoiSuivi, Rejouable, Expediteurs
  <2> QED
    BY <2>2, <2>3, <2>4
<1>4. UnSeulExpediteur'
  BY <1>0, <1>1, <1>3 DEF UnSeulExpediteur, Occupe
<1>5. ASSUME NEW y \in Expediteurs PROVE EnvoiSuivi(y)'
  <2>1. CASE y = x
    BY <1>0, <1>1, <1>2, <2>1 DEF EnvoiSuivi, Occupe, AuRepos, EnCours, Rejouable
  <2>2. CASE y # x
    BY <1>0, <1>1, <2>2 DEF EnvoiSuivi, Occupe, Rejouable
  <2> QED
    BY <2>1, <2>2
<1> QED
  BY <1>1, <1>4, <1>5

(* A mail is written by the only one who sends it, or by no sender: the others find   *)
(* their row as it was.                                                                *)
LEMMA LibererSuivi ==
  ASSUME CourrielsBienFormes, Typage, NEW x \in Expediteurs, Liberer(x),
         \A d \in Courriels : d # expeditions[x].courriel => courriels'[d] = courriels[d]
  PROVE  /\ expeditions' \in [Expediteurs -> [courriel : 0..Nombre, resultat : Resultats]]
         /\ UnSeulExpediteur' /\ \A y \in Expediteurs : EnvoiSuivi(y)'
<1>0. TypeOKCourriels /\ UnSeulExpediteur /\ \A y \in Expediteurs : EnvoiSuivi(y)
  BY DEF Typage
<1>1. /\ expeditions' \in [Expediteurs -> [courriel : 0..Nombre, resultat : Resultats]]
      /\ \A y \in Expediteurs : y # x => expeditions'[y] = expeditions[y]
      /\ expeditions'[x] = AuRepos
  BY <1>0 DEF Liberer, TypeOKCourriels, AuRepos, EnCours, Resultats, CourrielsBienFormes
<1>2. UnSeulExpediteur'
  BY <1>0, <1>1 DEF UnSeulExpediteur, Occupe, AuRepos
<1>3. ASSUME NEW y \in Expediteurs PROVE EnvoiSuivi(y)'
  <2>1. CASE y = x
    BY <1>1, <2>1 DEF EnvoiSuivi, Occupe, AuRepos, EnCours
  <2>2. CASE y # x
    <3>1. Occupe(y) => /\ expeditions[y].courriel \in Courriels
                       /\ courriels'[expeditions[y].courriel] = courriels[expeditions[y].courriel]
      BY <1>0, <2>2, Champs DEF UnSeulExpediteur
    <3> QED
      BY <1>0, <1>1, <2>2, <3>1 DEF EnvoiSuivi, Occupe, Rejouable
  <2> QED
    BY <2>1, <2>2
<1> QED
  BY <1>1, <1>2, <1>3

(* A row nobody sends may change without a sender noticing. *)
LEMMA LigneLibre ==
  ASSUME CourrielsBienFormes, Typage, NEW c \in Courriels, UNCHANGED expeditions,
         \A x \in Expediteurs : expeditions[x].courriel # c,
         \A d \in Courriels : d # c => courriels'[d] = courriels[d]
  PROVE  UnSeulExpediteur' /\ \A y \in Expediteurs : EnvoiSuivi(y)'
<1>0. TypeOKCourriels /\ UnSeulExpediteur /\ \A y \in Expediteurs : EnvoiSuivi(y)
  BY DEF Typage
<1>1. UnSeulExpediteur'
  BY <1>0 DEF UnSeulExpediteur, Occupe
<1>2. ASSUME NEW y \in Expediteurs PROVE EnvoiSuivi(y)'
  <2>1. Occupe(y) => courriels'[expeditions[y].courriel] = courriels[expeditions[y].courriel]
    BY <1>0, Champs
  <2> QED
    BY <1>0, <2>1 DEF EnvoiSuivi, Occupe, Rejouable
<1> QED
  BY <1>1, <1>2

(* Nobody sends a mail that has no row and no creation under way, or whose row, once  *)
(* there, is free.                                                                    *)
LEMMA SansExpediteur ==
  ASSUME Typage, NEW c \in Courriels,
         \/ courriels[c].statut = "ABSENT" /\ ~Occupe(Creation)
         \/ courriels[c].statut # "ABSENT" /\ ~Verrouillee(c)
  PROVE  \A x \in Expediteurs : expeditions[x].courriel # c
<1> SUFFICES ASSUME NEW x \in Expediteurs, expeditions[x].courriel = c PROVE FALSE
  OBVIOUS
<1>1. Occupe(x) /\ EnvoiSuivi(x)
  BY DEF Typage, Occupe, Courriels
<1> QED
  BY <1>1 DEF EnvoiSuivi, Rejouable, Verrouillee, Expediteurs

-----------------------------------------------------------------------------
(***************************************************************************)
(* Types, and what each sender relies on, step after step.                   *)
(***************************************************************************)
LEMMA EnvoyerTypage ==
  ASSUME CourrielsBienFormes, Typage, NEW c \in Courriels, EnvoyerCourriel(c)
  PROVE  Typage'
<1>0. /\ TypeOKCourriels /\ \A d \in Courriels : LigneSuivie(d)
      /\ ~Occupe(Creation) /\ courriels[c].statut = "ABSENT" /\ Creation \in Expediteurs
  BY DEF Typage, EnvoyerCourriel, Suivant, Expediteurs
<1>1. CASE ouvrable
  <2>1. Prendre(Creation, c) /\ UNCHANGED <<courriels, listes, ouvrable, perimes, pannes, renvois, partis, ignores, rejetes>>
    BY <1>1 DEF EnvoyerCourriel
  <2>2. Creation # Main /\ Creation \notin Rejeux
    BY DEF Creation, Main, CourrielsBienFormes
  <2>3. /\ expeditions' \in [Expediteurs -> [courriel : 0..Nombre, resultat : Resultats]]
        /\ UnSeulExpediteur' /\ \A y \in Expediteurs : EnvoiSuivi(y)'
    BY <1>0, <2>1, <2>2, PrendreSuivi
  <2>4. \A d \in Courriels : LigneSuivie(d)'
    BY <1>0, <2>1 DEF LigneSuivie
  <2> QED
    BY <1>0, <2>1, <2>3, <2>4 DEF Typage, TypeOKCourriels
<1>2. CASE ~ouvrable
  <2>1. /\ courriels' = [courriels EXCEPT ![c] = [statut |-> "EN_ATTENTE", tentatives |-> 0, message |-> 0]]
        /\ UNCHANGED <<expeditions, listes, ouvrable, perimes, pannes, renvois, partis, ignores, rejetes>>
    BY <1>2 DEF EnvoyerCourriel, Inserer
  <2>2. UnSeulExpediteur' /\ \A y \in Expediteurs : EnvoiSuivi(y)'
    BY <1>0, <2>1, SansExpediteur, LigneLibre DEF TypeOKCourriels
  <2>3. /\ courriels' \in [Courriels -> [statut : StatutsCourriel \union {"ABSENT"},
                                      tentatives : 0..TentativesMax, message : Nat]]
        /\ courriels'[c] = [statut |-> "EN_ATTENTE", tentatives |-> 0, message |-> 0]
        /\ \A d \in Courriels : d # c => courriels'[d] = courriels[d]
    BY <1>0, <2>1 DEF TypeOKCourriels, StatutsCourriel, CourrielsBienFormes
  <2>4. \A d \in Courriels : LigneSuivie(d)'
    BY <1>0, <2>1, <2>3 DEF LigneSuivie
  <2> QED
    BY <1>0, <2>1, <2>2, <2>3, <2>4 DEF Typage, TypeOKCourriels
<1> QED
  BY <1>1, <1>2

(* A sending by hand leaves the tries. *)
LEMMA LigneRenvoyee ==
  ASSUME NEW S, NEW T, NEW M, NEW l \in [statut : S, tentatives : T, message : M],
         NEW s \in S, NEW m \in M
  PROVE  LET k == [[l EXCEPT !.statut = s] EXCEPT !.message = m]
         IN  /\ k \in [statut : S, tentatives : T, message : M]
             /\ k.statut = s /\ k.tentatives = l.tentatives
  OBVIOUS

(* The three ways a sender writes his row: the insertion, the replay, the hand. *)
LEMMA EcrireTypage ==
  ASSUME CourrielsBienFormes, Typage, NEW x \in Expediteurs,
         \/ x = Creation /\ EcrireLeNouveau
         \/ x = Main /\ EcrireRenvoi
         \/ x \in Rejeux /\ EnregistrerRejeu(x)
  PROVE  Typage'
<1> DEFINE c == expeditions[x].courriel
           res == expeditions[x].resultat
<1>0. /\ TypeOKCourriels /\ \A d \in Courriels : LigneSuivie(d)
      /\ EnvoiSuivi(x) /\ Occupe(x) /\ res # EnCours /\ Liberer(x)
      /\ UNCHANGED <<listes, ouvrable, perimes, pannes, renvois, partis, ignores, rejetes>>
  BY DEF Typage, EcrireLeNouveau, EcrireRenvoi, EnregistrerRejeu
<1>1. c \in Courriels /\ res \in Resultats /\ res.statut \in {"ENVOYE", "ECHEC"}
  BY <1>0, Champs DEF EnvoiSuivi, Resultats
<1>2. PICK n \in 0..TentativesMax, k \in [statut : StatutsCourriel \union {"ABSENT"},
                                           tentatives : 0..TentativesMax, message : Nat] :
        /\ courriels' = [courriels EXCEPT ![c] = k]
        /\ k.statut = res.statut /\ k.tentatives = n
        /\ c \in rejetes => n = TentativesMax
  <2>1. courriels[c] \in [statut : StatutsCourriel \union {"ABSENT"}, tentatives : 0..TentativesMax, message : Nat]
    BY <1>0, <1>1, Champs
  <2>a. res.statut \in StatutsCourriel \union {"ABSENT"} /\ res.message \in Nat
    BY <1>1 DEF StatutsCourriel, Resultats
  <2> HIDE DEF res
  <2>2. CASE x = Creation /\ EcrireLeNouveau
    <3>1. c \notin rejetes
      BY <1>0, <1>1, <2>2 DEF EnvoiSuivi, LigneSuivie
    <3>2. 0 \in 0..TentativesMax
      BY DEF CourrielsBienFormes
    <3>3. courriels' = [courriels EXCEPT ![c] = [statut |-> res.statut, tentatives |-> 0, message |-> res.message]]
      BY <2>2 DEF EcrireLeNouveau, Inserer, res
    <3> DEFINE k == [statut |-> res.statut, tentatives |-> 0, message |-> res.message]
    <3>4. /\ k \in [statut : StatutsCourriel \union {"ABSENT"}, tentatives : 0..TentativesMax, message : Nat]
          /\ k.statut = res.statut /\ k.tentatives = 0
      BY <2>a, <3>2
    <3> HIDE DEF k
    <3>5. courriels' = [courriels EXCEPT ![c] = k]
      BY <3>3 DEF k
    <3> QED
      BY <3>1, <3>2, <3>4, <3>5
  <2>3. CASE x = Main /\ EcrireRenvoi
    <3> DEFINE k == [[courriels[c] EXCEPT !.statut = res.statut] EXCEPT !.message = res.message]
    <3>1. courriels' = [courriels EXCEPT ![c].statut = res.statut, ![c].message = res.message]
      BY <2>3 DEF EcrireRenvoi, res
    <3>2. courriels' = [courriels EXCEPT ![c] = k]
      BY <1>0, <1>1, <3>1 DEF TypeOKCourriels
    <3>3. /\ k \in [statut : StatutsCourriel \union {"ABSENT"}, tentatives : 0..TentativesMax, message : Nat]
          /\ k.statut = res.statut /\ k.tentatives = courriels[c].tentatives
      BY <2>1, <2>a, LigneRenvoyee
    <3> HIDE DEF k
    <3>4. courriels[c].tentatives \in 0..TentativesMax /\ (c \in rejetes => courriels[c].tentatives = TentativesMax)
      BY <1>0, <1>1, <2>1 DEF LigneSuivie
    <3> QED
      BY <3>2, <3>3, <3>4
  <2>4. CASE x \in Rejeux /\ EnregistrerRejeu(x)
    <3>1. Rejouable(c)
      BY <1>0, <2>4 DEF EnvoiSuivi
    <3>2. c \notin rejetes /\ courriels[c].tentatives + 1 \in 0..TentativesMax
      BY <1>0, <1>1, <2>1, <3>1 DEF Rejouable, LigneSuivie, CourrielsBienFormes
    <3>3. courriels' = [courriels EXCEPT ![c] = [statut |-> res.statut,
                       tentatives |-> courriels[c].tentatives + 1, message |-> res.message]]
      BY <2>4 DEF EnregistrerRejeu, res
    <3> DEFINE k == [statut |-> res.statut, tentatives |-> courriels[c].tentatives + 1, message |-> res.message]
    <3>4. /\ k \in [statut : StatutsCourriel \union {"ABSENT"}, tentatives : 0..TentativesMax, message : Nat]
          /\ k.statut = res.statut /\ k.tentatives = courriels[c].tentatives + 1
      BY <2>a, <3>2
    <3> HIDE DEF k
    <3>5. courriels' = [courriels EXCEPT ![c] = k]
      BY <3>3 DEF k
    <3> QED
      BY <3>2, <3>4, <3>5
  <2> QED
    BY <2>2, <2>3, <2>4
<1> HIDE DEF res
<1>3. /\ courriels' \in [Courriels -> [statut : StatutsCourriel \union {"ABSENT"},
                                    tentatives : 0..TentativesMax, message : Nat]]
      /\ courriels'[c].statut = res.statut /\ courriels'[c].tentatives = n
      /\ \A d \in Courriels : d # c => courriels'[d] = courriels[d]
  BY <1>0, <1>1, <1>2 DEF TypeOKCourriels
<1>4. /\ expeditions' \in [Expediteurs -> [courriel : 0..Nombre, resultat : Resultats]]
      /\ UnSeulExpediteur' /\ \A y \in Expediteurs : EnvoiSuivi(y)'
  BY <1>0, <1>3, LibererSuivi
<1>5. \A d \in Courriels : LigneSuivie(d)'
  BY <1>0, <1>1, <1>2, <1>3 DEF LigneSuivie
<1> QED
  BY <1>0, <1>3, <1>4, <1>5 DEF Typage, TypeOKCourriels

LEMMA ExpedierTypage ==
  ASSUME CourrielsBienFormes, Typage, NEW x \in Expediteurs, Expedier(x)
  PROVE  Typage'
<1> DEFINE c == expeditions[x].courriel
<1>0. /\ TypeOKCourriels /\ UnSeulExpediteur /\ \A y \in Expediteurs : EnvoiSuivi(y)
      /\ Occupe(x) /\ c \in Courriels /\ partis[c] + 1 \in Nat
  <2>1. TypeOKCourriels /\ UnSeulExpediteur /\ (\A y \in Expediteurs : EnvoiSuivi(y)) /\ Occupe(x)
    BY DEF Typage, Expedier
  <2>2. c \in Courriels
    BY <2>1, Champs
  <2> QED
    BY <2>1, <2>2 DEF TypeOKCourriels
<1>1. PICK res \in Resultats :
        res.statut # "EN_COURS" /\ expeditions' = [expeditions EXCEPT ![x].resultat = res]
  <2>1. [statut |-> "ENVOYE", message |-> partis[c] + 1] \in Resultats
        /\ [statut |-> "ECHEC", message |-> 0] \in Resultats
    BY <1>0 DEF Resultats
  <2> QED
    BY <2>1 DEF Expedier
<1>2. /\ UNCHANGED <<courriels, listes, ouvrable, perimes, renvois, rejetes>>
      /\ partis' \in [Courriels -> Nat] /\ ignores' \in [Courriels -> Nat] /\ pannes' \in 0..PannesMax
  <2>1. UNCHANGED <<courriels, listes, ouvrable, perimes, renvois, rejetes>>
    BY DEF Expedier
  <2>2. partis' = partis \/ partis' = [partis EXCEPT ![c] = partis[c] + 1]
    BY DEF Expedier
  <2>3. ignores' = ignores \/ ignores' = [ignores EXCEPT ![c] = @ + 1]
    BY DEF Expedier
  <2>4. pannes' = pannes \/ (pannes < PannesMax /\ pannes' = pannes + 1)
    BY DEF Expedier
  <2> HIDE DEF c
  <2> QED
    BY <1>0, <2>1, <2>2, <2>3, <2>4 DEF TypeOKCourriels, CourrielsBienFormes
<1>3. /\ expeditions' \in [Expediteurs -> [courriel : 0..Nombre, resultat : Resultats]]
      /\ \A y \in Expediteurs : y # x => expeditions'[y] = expeditions[y]
      /\ expeditions'[x].courriel = c /\ expeditions'[x].resultat = res
  BY <1>0, <1>1 DEF TypeOKCourriels
<1>4. UnSeulExpediteur'
  <2>1. \A y \in Expediteurs : expeditions'[y].courriel = expeditions[y].courriel
    BY <1>3
  <2> QED
    BY <1>0, <2>1 DEF UnSeulExpediteur, Occupe
<1>5. ASSUME NEW y \in Expediteurs PROVE EnvoiSuivi(y)'
  <2>1. CASE y = x
    BY <1>0, <1>1, <1>2, <1>3, <2>1 DEF EnvoiSuivi, Occupe, Rejouable
  <2>2. CASE y # x
    BY <1>0, <1>2, <1>3, <2>2 DEF EnvoiSuivi, Occupe, Rejouable
  <2> QED
    BY <2>1, <2>2
<1>6. \A d \in Courriels : LigneSuivie(d)'
  BY <1>2 DEF LigneSuivie, Typage
<1> QED
  BY <1>0, <1>2, <1>3, <1>4, <1>5, <1>6 DEF Typage, TypeOKCourriels

LEMMA InterrompreTypage ==
  ASSUME CourrielsBienFormes, Typage, NEW x \in Expediteurs, Interrompre(x)
  PROVE  Typage'
<1>0. TypeOKCourriels /\ Occupe(x) /\ Liberer(x) /\ expeditions[x].courriel \in Courriels
  <2>1. TypeOKCourriels /\ Occupe(x) /\ Liberer(x)
    BY DEF Typage, Interrompre
  <2> QED
    BY <2>1, Champs
<1>1. /\ expeditions' \in [Expediteurs -> [courriel : 0..Nombre, resultat : Resultats]]
      /\ UnSeulExpediteur' /\ \A y \in Expediteurs : EnvoiSuivi(y)'
  BY <1>0, LibererSuivi DEF Interrompre
<1>2. ignores' \in [Courriels -> Nat] /\ pannes' \in 0..PannesMax /\ listes' \in [Rejeux -> SUBSET Courriels]
  BY <1>0 DEF Interrompre, TypeOKCourriels, CourrielsBienFormes
<1>3. \A d \in Courriels : LigneSuivie(d)'
  BY DEF Interrompre, LigneSuivie, Typage
<1> QED
  BY <1>0, <1>1, <1>2, <1>3 DEF Typage, TypeOKCourriels, Interrompre

LEMMA RejeuTypage ==
  ASSUME CourrielsBienFormes, Typage, NEW r \in Rejeux, Commencer(r) \/ ReserverRejeu(r)
  PROVE  Typage'
<1>0. /\ TypeOKCourriels /\ UnSeulExpediteur /\ \A y \in Expediteurs : EnvoiSuivi(y)
      /\ \A d \in Courriels : LigneSuivie(d)
  BY DEF Typage
<1>1. CASE Commencer(r)
  <2>1. UNCHANGED <<courriels, expeditions, ouvrable, perimes, pannes, renvois, partis, ignores, rejetes>>
    BY <1>1 DEF Commencer
  <2>2. listes' \in [Rejeux -> SUBSET Courriels]
    <3>1. CourrielsARejouer \subseteq Courriels
      BY DEF CourrielsARejouer, Premiers
    <3> QED
      BY <1>0, <1>1, <3>1 DEF Commencer, TypeOKCourriels
  <2>3. TypeOKCourriels'
    BY <1>0, <2>1, <2>2 DEF TypeOKCourriels
  <2>4. UnSeulExpediteur' /\ (\A y \in Expediteurs : EnvoiSuivi(y)') /\ \A d \in Courriels : LigneSuivie(d)'
    BY <1>0, <2>1 DEF UnSeulExpediteur, EnvoiSuivi, LigneSuivie, Occupe, Rejouable
  <2> QED
    BY <2>3, <2>4 DEF Typage
<1>2. CASE ReserverRejeu(r)
  <2>1. PICK c \in listes[r] :
          /\ listes' = [listes EXCEPT ![r] = @ \ {c}]
          /\ IF Reserver(c) THEN Prendre(r, c) ELSE UNCHANGED expeditions
    BY <1>2 DEF ReserverRejeu
  <2>2. /\ c \in Courriels /\ ~Occupe(r) /\ listes' \in [Rejeux -> SUBSET Courriels]
        /\ UNCHANGED <<courriels, ouvrable, perimes, pannes, renvois, partis, ignores, rejetes>>
    BY <1>0, <1>2, <2>1 DEF ReserverRejeu, TypeOKCourriels
  <2>3. /\ expeditions' \in [Expediteurs -> [courriel : 0..Nombre, resultat : Resultats]]
        /\ UnSeulExpediteur' /\ \A y \in Expediteurs : EnvoiSuivi(y)'
    <3>1. CASE Reserver(c)
      <4>1. r \in Expediteurs /\ r # Creation /\ r # Main /\ Prendre(r, c) /\ Rejouable(c) /\ ~Verrouillee(c)
        BY <2>1, <3>1 DEF Expediteurs, CourrielsBienFormes, Reserver
      <4> QED
        BY <2>2, <4>1, PrendreSuivi
    <3>2. CASE ~Reserver(c)
      <4>1. UNCHANGED <<expeditions, courriels>>
        BY <2>1, <2>2, <3>2
      <4> QED
        BY <1>0, <4>1 DEF UnSeulExpediteur, EnvoiSuivi, Occupe, Rejouable, TypeOKCourriels
    <3> QED
      BY <3>1, <3>2
  <2>4. \A d \in Courriels : LigneSuivie(d)'
    BY <1>0, <2>2 DEF LigneSuivie
  <2> QED
    BY <1>0, <2>2, <2>3, <2>4 DEF Typage, TypeOKCourriels
<1> QED
  BY <1>1, <1>2

LEMMA RenvoyerTypage ==
  ASSUME CourrielsBienFormes, Typage, NEW c \in Courriels, Renvoyer(c)
  PROVE  Typage'
<1>0. /\ TypeOKCourriels /\ \A d \in Courriels : LigneSuivie(d)
      /\ Main \in Expediteurs /\ Main # Creation /\ Main \notin Rejeux
  BY DEF Typage, Expediteurs, Main, Creation, CourrielsBienFormes
<1>1. /\ ~Occupe(Main) /\ courriels[c].statut # "ABSENT" /\ ~Verrouillee(c) /\ Prendre(Main, c)
      /\ UNCHANGED <<courriels, listes, ouvrable, perimes, pannes, partis, ignores, rejetes>>
      /\ renvois' \in 0..RenvoisMax
  BY <1>0 DEF Renvoyer, TypeOKCourriels, CourrielsBienFormes
<1>2. /\ expeditions' \in [Expediteurs -> [courriel : 0..Nombre, resultat : Resultats]]
      /\ UnSeulExpediteur' /\ \A y \in Expediteurs : EnvoiSuivi(y)'
  BY <1>0, <1>1, PrendreSuivi
<1>3. \A d \in Courriels : LigneSuivie(d)'
  BY <1>0, <1>1 DEF LigneSuivie
<1> QED
  BY <1>0, <1>1, <1>2, <1>3 DEF Typage, TypeOKCourriels

LEMMA EvenementTypage ==
  ASSUME CourrielsBienFormes, Typage, NEW c \in Courriels, NEW n,
         NEW s \in {"REMIS", "OUVERT", "ECHEC"}, EvenementBrevo(c, n, s)
  PROVE  Typage'
<1>0. /\ TypeOKCourriels /\ \A d \in Courriels : LigneSuivie(d)
      /\ courriels[c].message = n /\ n \in 1..partis[c] /\ ~Verrouillee(c)
      /\ courriels' = [courriels EXCEPT ![c] = SuiteEvenement(courriels[c], s)]
      /\ UNCHANGED <<expeditions, listes, ouvrable, perimes, pannes, renvois, partis, ignores>>
      /\ rejetes' = IF s = "ECHEC" THEN rejetes \union {c} ELSE rejetes
  BY DEF Typage, EvenementBrevo
<1>1. courriels[c].statut # "ABSENT"
  BY <1>0 DEF LigneSuivie, TypeOKCourriels
<1>2. \A x \in Expediteurs : expeditions[x].courriel # c
  BY <1>0, <1>1, SansExpediteur
<1>3. /\ SuiteEvenement(courriels[c], s) \in
           [statut : StatutsCourriel, tentatives : 0..TentativesMax, message : Nat]
      /\ s = "ECHEC" => SuiteEvenement(courriels[c], s).tentatives = TentativesMax
      /\ courriels[c].tentatives = TentativesMax => SuiteEvenement(courriels[c], s).tentatives = TentativesMax
  <2>1. courriels[c] \in [statut : StatutsCourriel \union {"ABSENT"}, tentatives : 0..TentativesMax, message : Nat]
    BY <1>0 DEF TypeOKCourriels
  <2>a. TentativesMax \in 0..TentativesMax /\ s \in StatutsCourriel
    BY DEF CourrielsBienFormes, StatutsCourriel
  <2>2. CASE courriels[c].statut = "OUVERT" /\ s = "REMIS"
    BY <1>1, <2>1, <2>2 DEF SuiteEvenement
  <2>3. CASE s = "ECHEC"
    BY <2>1, <2>a, <2>3 DEF SuiteEvenement
  <2>4. CASE s # "ECHEC" /\ ~(courriels[c].statut = "OUVERT" /\ s = "REMIS")
    BY <2>1, <2>a, <2>4 DEF SuiteEvenement
  <2> QED
    BY <2>2, <2>3, <2>4
<1>4. /\ courriels' \in [Courriels -> [statut : StatutsCourriel \union {"ABSENT"},
                                    tentatives : 0..TentativesMax, message : Nat]]
      /\ courriels'[c] = SuiteEvenement(courriels[c], s)
      /\ \A d \in Courriels : d # c => courriels'[d] = courriels[d]
  BY <1>0, <1>3 DEF TypeOKCourriels
<1>5. UnSeulExpediteur' /\ \A y \in Expediteurs : EnvoiSuivi(y)'
  BY <1>0, <1>2, <1>4, LigneLibre
<1>6. ASSUME NEW d \in Courriels PROVE LigneSuivie(d)'
  <2>1. CASE d = c
    <3>1. courriels'[c].statut # "ABSENT"
      BY <1>3, <1>4 DEF StatutsCourriel
    <3>2. c \in rejetes' => courriels'[c].tentatives = TentativesMax
      BY <1>0, <1>3, <1>4 DEF LigneSuivie
    <3> QED
      BY <2>1, <3>1, <3>2 DEF LigneSuivie
  <2>2. CASE d # c
    BY <1>0, <1>4, <2>2 DEF LigneSuivie
  <2> QED
    BY <2>1, <2>2
<1>7. TypeOKCourriels'
  BY <1>0, <1>4 DEF TypeOKCourriels
<1> QED
  BY <1>5, <1>6, <1>7 DEF Typage

LEMMA TypageGarde ==
  ASSUME CourrielsBienFormes, Typage, [NextCourriels]_varsCourriels
  PROVE  Typage'
<1>1. CASE \E c \in Courriels : EnvoyerCourriel(c) \/ Renvoyer(c)
  BY <1>1, EnvoyerTypage, RenvoyerTypage
<1>2. CASE EcrireLeNouveau \/ EcrireRenvoi \/ \E r \in Rejeux : EnregistrerRejeu(r)
  BY <1>2, EcrireTypage DEF Expediteurs
<1>3. CASE \E r \in Rejeux : Commencer(r) \/ ReserverRejeu(r)
  BY <1>3, RejeuTypage
<1>4. CASE \E x \in Expediteurs : Envoi(x)
  BY <1>4, ExpedierTypage, InterrompreTypage DEF Envoi
<1>5. CASE \E c \in Courriels, n \in 1..(1 + TentativesMax + RenvoisMax + PannesMax),
              s \in {"REMIS", "OUVERT", "ECHEC"} : EvenementBrevo(c, n, s)
  BY <1>5, EvenementTypage
<1>6. CASE Heure \/ (\E c \in Courriels : Vieillir(c)) \/ UNCHANGED varsCourriels
  <2>1. /\ UNCHANGED <<courriels, expeditions, listes, pannes, renvois, partis, ignores, rejetes>>
        /\ ouvrable \in BOOLEAN => ouvrable' \in BOOLEAN
        /\ perimes' \in {perimes} \union 0..Nombre
    <3>1. CASE Heure \/ UNCHANGED varsCourriels
      BY <3>1 DEF Heure, varsCourriels
    <3>2. ASSUME NEW c \in Courriels, Vieillir(c)
          PROVE  /\ UNCHANGED <<courriels, expeditions, listes, ouvrable, pannes, renvois, partis,
                                ignores, rejetes>>
                 /\ perimes' \in 0..Nombre
      BY <3>2 DEF Vieillir, Courriels, CourrielsBienFormes
    <3> QED
      BY <1>6, <3>1, <3>2
  <2>2. TypeOKCourriels'
    BY <2>1 DEF Typage, TypeOKCourriels
  <2>3. UnSeulExpediteur'
    BY <2>1 DEF Typage, UnSeulExpediteur, Occupe
  <2>4. ASSUME NEW x \in Expediteurs PROVE EnvoiSuivi(x)'
    <3>1. EnvoiSuivi(x)
      BY DEF Typage
    <3> QED
      BY <2>1, <3>1 DEF EnvoiSuivi, Occupe, Rejouable
  <2>5. ASSUME NEW c \in Courriels PROVE LigneSuivie(c)'
    <3>1. LigneSuivie(c)
      BY DEF Typage
    <3> QED
      BY <2>1, <3>1 DEF LigneSuivie
  <2> QED
    BY <2>2, <2>3, <2>4, <2>5 DEF Typage
<1> QED
  BY <1>1, <1>2, <1>3, <1>4, <1>5, <1>6 DEF NextCourriels, Rejeu

-----------------------------------------------------------------------------
(***************************************************************************)
(* The messages of each mail.                                                *)
(***************************************************************************)
LEMMA Nombres ==
  ASSUME CourrielsBienFormes, TypeOKCourriels, NEW c \in Courriels
  PROVE  partis[c] \in Nat /\ ignores[c] \in Nat /\ renvois \in Nat
BY DEF TypeOKCourriels, CourrielsBienFormes

(* As long as he has sent nothing Brevo told him about, a sender has a message to     *)
(* spare.                                                                              *)
LEMMA UnDepartDeReste ==
  ASSUME Typage, NEW x \in Expediteurs, Occupe(x), NEW c, c = expeditions[x].courriel, Compte(c),
         expeditions[x].resultat.statut # "ENVOYE"
  PROVE  partis[c] <= ignores[c] + renvois
<1>0. UnSeulExpediteur /\ EnvoiSuivi(x)
  BY DEF Typage
<1>1. CASE x = Main
  BY <1>1 DEF Compte, Parti
<1>2. CASE x # Main
  <2>1. Repart(c)
    BY <1>0, <1>2 DEF EnvoiSuivi, Repart, Expediteurs
  <2>2. \A y \in Expediteurs : ~Parti(y, c)
    BY <1>0 DEF UnSeulExpediteur, Parti
  <2> QED
    BY <2>1, <2>2 DEF Compte
<1> QED
  BY <1>1, <1>2

(* A step that touches neither the row of a mail, nor its messages, nor its sender,    *)
(* keeps its account; more sendings by hand only loosen it.                            *)
LEMMA CompteIntact ==
  ASSUME CourrielsBienFormes, TypeOKCourriels, NEW c \in Courriels, Compte(c),
         courriels'[c] = courriels[c], partis'[c] = partis[c], ignores'[c] = ignores[c],
         renvois' \in Nat, renvois <= renvois',
         \A x \in Expediteurs : Parti(x, c)' = Parti(x, c),
         expeditions'[Main].courriel = c => expeditions[Main].courriel = c
  PROVE  Compte(c)'
<1>0. partis[c] \in Nat /\ ignores[c] \in Nat /\ renvois \in Nat /\ Main \in Expediteurs
  BY Nombres DEF Expediteurs
<1>1. Repart(c)' = Repart(c)
  BY DEF Repart, Rejouable
<1>2. (\A x \in Expediteurs : ~Parti(x, c)') => \A x \in Expediteurs : ~Parti(x, c)
  OBVIOUS
<1>3. Repart(c)' /\ (\A x \in Expediteurs : ~Parti(x, c)') => partis[c] <= ignores[c] + renvois
  BY <1>1, <1>2 DEF Compte
<1>4. expeditions'[Main].courriel = c /\ ~Parti(Main, c)' => partis[c] <= ignores[c] + renvois
  BY <1>0 DEF Compte
<1>5. partis[c] <= 1 + ignores[c] + renvois
  BY DEF Compte
<1> DEFINE seul == \A x \in Expediteurs : ~Parti(x, c)'
           tenu == expeditions'[Main].courriel = c /\ ~Parti(Main, c)'
<1>6. /\ partis'[c] <= 1 + ignores'[c] + renvois'
      /\ partis[c] <= ignores[c] + renvois => partis'[c] <= ignores'[c] + renvois'
  BY <1>0, <1>5
<1> QED
  BY <1>3, <1>4, <1>6 DEF Compte

(* An account with a message to spare allows everything. *)
LEMMA CompteLarge ==
  ASSUME NEW c, partis'[c] \in Nat, ignores'[c] \in Nat, renvois' \in Nat,
         partis'[c] <= ignores'[c] + renvois'
  PROVE  Compte(c)'
<1>1. partis'[c] <= 1 + ignores'[c] + renvois'
  OBVIOUS
<1> QED
  BY <1>1 DEF Compte

(* Who takes a mail has sent nothing. *)
LEMMA PrendreCompte ==
  ASSUME CourrielsBienFormes, Typage, NEW x \in Expediteurs, NEW c \in Courriels, ~Occupe(x), Prendre(x, c),
         NEW d \in Courriels
  PROVE  /\ \A y \in Expediteurs : Parti(y, d)' = Parti(y, d)
         /\ expeditions'[Main].courriel = d => expeditions[Main].courriel = d \/ (x = Main /\ c = d)
<1>1. expeditions[x] = AuRepos /\ expeditions \in [Expediteurs -> [courriel : 0..Nombre, resultat : Resultats]]
      /\ Main \in Expediteurs
  BY DEF Typage, TypeOKCourriels, EnvoiSuivi, Expediteurs
<1>2. /\ \A y \in Expediteurs : y # x => expeditions'[y] = expeditions[y]
      /\ expeditions'[x].courriel = c /\ expeditions'[x].resultat = EnCours
  BY <1>1 DEF Prendre, AuRepos
<1>3. ASSUME NEW y \in Expediteurs PROVE Parti(y, d)' = Parti(y, d)
  <2>1. CASE y = x
    BY <1>1, <1>2, <2>1 DEF Parti, EnCours, AuRepos
  <2>2. CASE y # x
    BY <1>2, <2>2 DEF Parti
  <2> QED
    BY <2>1, <2>2
<1> QED
  BY <1>1, <1>2, <1>3

LEMMA ExpedierCompte ==
  ASSUME CourrielsBienFormes, IInv, NEW x \in Expediteurs, Expedier(x), NEW d \in Courriels
  PROVE  Compte(d)'
<1> DEFINE c == expeditions[x].courriel
<1>0. /\ Typage /\ TypeOKCourriels /\ UnSeulExpediteur /\ Compte(d) /\ Main \in Expediteurs
      /\ Occupe(x) /\ c \in Courriels /\ expeditions[x].resultat = EnCours
      /\ UNCHANGED <<courriels, renvois>>
  <2>1. TypeOKCourriels /\ Occupe(x)
    BY DEF IInv, Typage, Expedier
  <2> QED
    BY <2>1, Champs DEF IInv, Typage, Expedier, Expediteurs
<1>1. PICK res \in Resultats : expeditions' = [expeditions EXCEPT ![x].resultat = res]
                               /\ \/ /\ res.statut = "ENVOYE"
                                     /\ partis' = [partis EXCEPT ![c] = partis[c] + 1] /\ UNCHANGED ignores
                                  \/ /\ res.statut = "ECHEC"
                                     /\ partis' = [partis EXCEPT ![c] = partis[c] + 1]
                                     /\ ignores' = [ignores EXCEPT ![c] = ignores[c] + 1]
                                  \/ res.statut = "ECHEC" /\ UNCHANGED <<partis, ignores>>
  <2>1. partis[c] + 1 \in Nat
    BY <1>0 DEF TypeOKCourriels
  <2>2. [statut |-> "ENVOYE", message |-> partis[c] + 1] \in Resultats
        /\ [statut |-> "ECHEC", message |-> 0] \in Resultats
    BY <2>1 DEF Resultats
  <2> QED
    BY <2>2 DEF Expedier
<1>2. /\ \A y \in Expediteurs : y # x => expeditions'[y] = expeditions[y]
      /\ expeditions'[x].courriel = c /\ expeditions'[x].resultat = res
      /\ \A y \in Expediteurs : expeditions'[y].courriel = expeditions[y].courriel
  BY <1>0, <1>1 DEF TypeOKCourriels
<1>3. CASE d # c
  <2>1. partis'[d] = partis[d] /\ ignores'[d] = ignores[d]
    BY <1>0, <1>1, <1>3 DEF TypeOKCourriels
  <2>2. \A y \in Expediteurs : Parti(y, d)' = Parti(y, d)
    BY <1>2, <1>3 DEF Parti
  <2>3. renvois' \in Nat /\ renvois <= renvois'
    BY <1>0, Nombres
  <2> QED
    BY <1>0, <1>2, <2>1, <2>2, <2>3, CompteIntact
<1>4. CASE d = c
  <2>1. partis[c] <= ignores[c] + renvois
    BY <1>0, <1>4, UnDepartDeReste DEF EnCours
  <2>2. partis[c] \in Nat /\ ignores[c] \in Nat /\ renvois \in Nat /\ renvois' = renvois
    BY <1>0, Nombres
  <2>3. CASE res.statut = "ENVOYE"
    <3>1. partis'[c] = partis[c] + 1 /\ ignores'[c] = ignores[c]
      BY <1>0, <1>1, <2>3 DEF TypeOKCourriels
    <3>2. Parti(x, d)'
      BY <1>2, <1>4, <2>3 DEF Parti
    <3>3. expeditions'[Main].courriel = c => Main = x
      BY <1>0, <1>2 DEF UnSeulExpediteur
    <3>4. partis'[c] <= 1 + ignores'[c] + renvois'
      BY <2>1, <2>2, <3>1
    <3> QED
      BY <1>4, <3>2, <3>3, <3>4 DEF Compte, Parti
  <2>4. CASE res.statut = "ECHEC"
    <3>1. \/ partis'[c] = partis[c] + 1 /\ ignores'[c] = ignores[c] + 1
          \/ partis'[c] = partis[c] /\ ignores'[c] = ignores[c]
      BY <1>0, <1>1, <2>4 DEF TypeOKCourriels
    <3>2. partis'[c] \in Nat /\ ignores'[c] \in Nat /\ renvois' \in Nat /\ partis'[c] <= ignores'[c] + renvois'
      BY <2>1, <2>2, <3>1
    <3> QED
      BY <1>4, <3>2, CompteLarge
  <2> QED
    BY <1>1, <2>3, <2>4
<1> QED
  BY <1>3, <1>4

LEMMA InterrompreCompte ==
  ASSUME CourrielsBienFormes, IInv, NEW x \in Expediteurs, Interrompre(x), NEW d \in Courriels
  PROVE  Compte(d)'
<1> DEFINE c == expeditions[x].courriel
<1>0. /\ Typage /\ TypeOKCourriels /\ Compte(d) /\ Main \in Expediteurs /\ Occupe(x) /\ c \in Courriels
      /\ Liberer(x) /\ UNCHANGED <<courriels, renvois, partis>>
      /\ ignores' = [ignores EXCEPT ![c] = IF expeditions[x].resultat.statut = "ENVOYE" THEN @ + 1 ELSE @]
  <2>1. TypeOKCourriels /\ Occupe(x)
    BY DEF IInv, Typage, Interrompre
  <2> QED
    BY <2>1, Champs DEF IInv, Typage, Interrompre, Expediteurs
<1>1. /\ \A y \in Expediteurs : y # x => expeditions'[y] = expeditions[y]
      /\ expeditions'[x] = AuRepos
  BY <1>0 DEF Liberer, TypeOKCourriels
<1>2. partis[d] \in Nat /\ ignores[d] \in Nat /\ renvois \in Nat
  BY <1>0, Nombres
<1>3. CASE d # c
  <2>1. ignores'[d] = ignores[d]
    BY <1>0, <1>3 DEF TypeOKCourriels
  <2>2. \A y \in Expediteurs : Parti(y, d)' = Parti(y, d)
    BY <1>1, <1>3 DEF Parti, AuRepos, EnCours
  <2>3. expeditions'[Main].courriel = d => expeditions[Main].courriel = d
    BY <1>0, <1>1 DEF AuRepos, Courriels, CourrielsBienFormes
  <2> QED
    BY <1>0, <1>2, <2>1, <2>2, <2>3, CompteIntact
<1>4. CASE d = c
  <2>1. partis'[c] <= ignores'[c] + renvois' /\ ignores'[c] \in Nat
    <3>1. CASE expeditions[x].resultat.statut = "ENVOYE"
      <4>1. ignores'[c] = ignores[c] + 1
        BY <1>0, <3>1 DEF TypeOKCourriels
      <4>2. partis[c] <= 1 + ignores[c] + renvois
        BY <1>0, <1>4 DEF Compte
      <4> QED
        BY <1>0, <1>2, <1>4, <4>1, <4>2
    <3>2. CASE expeditions[x].resultat.statut # "ENVOYE"
      <4>1. ignores'[c] = ignores[c]
        BY <1>0, <3>2 DEF TypeOKCourriels
      <4>2. partis[c] <= ignores[c] + renvois
        BY <1>0, <1>4, <3>2, UnDepartDeReste
      <4> QED
        BY <1>0, <1>2, <1>4, <4>1, <4>2
    <3> QED
      BY <3>1, <3>2
  <2> QED
    BY <1>0, <1>2, <1>4, <2>1, CompteLarge
<1> QED
  BY <1>3, <1>4

LEMMA EcrireCompte ==
  ASSUME CourrielsBienFormes, IInv, NEW x \in Expediteurs,
         \/ x = Creation /\ EcrireLeNouveau
         \/ x = Main /\ EcrireRenvoi
         \/ x \in Rejeux /\ EnregistrerRejeu(x),
         NEW d \in Courriels
  PROVE  Compte(d)'
<1> DEFINE c == expeditions[x].courriel
           res == expeditions[x].resultat
<1>0. /\ Typage /\ TypeOKCourriels /\ UnSeulExpediteur /\ Compte(d) /\ Main \in Expediteurs
      /\ EnvoiSuivi(x) /\ Occupe(x) /\ res # EnCours /\ Liberer(x)
      /\ UNCHANGED <<partis, ignores, renvois>>
  BY DEF IInv, Typage, EcrireLeNouveau, EcrireRenvoi, EnregistrerRejeu, Expediteurs
<1>1. c \in Courriels /\ res \in Resultats /\ res.statut \in {"ENVOYE", "ECHEC"}
  BY <1>0, Champs DEF EnvoiSuivi, Resultats
<1>2. courriels'[c].statut = res.statut /\ \A e \in Courriels : e # c => courriels'[e] = courriels[e]
  <2>1. courriels[c] \in [statut : StatutsCourriel \union {"ABSENT"}, tentatives : 0..TentativesMax, message : Nat]
    BY <1>0, <1>1, Champs
  <2> QED
    BY <1>0, <1>1, <2>1 DEF EcrireLeNouveau, Inserer, EcrireRenvoi, EnregistrerRejeu, TypeOKCourriels
<1>3. /\ \A y \in Expediteurs : y # x => expeditions'[y] = expeditions[y]
      /\ expeditions'[x] = AuRepos
  BY <1>0 DEF Liberer, TypeOKCourriels
<1>4. partis[d] \in Nat /\ ignores[d] \in Nat /\ renvois \in Nat
  BY <1>0, Nombres
<1>5. expeditions'[Main].courriel = d => expeditions[Main].courriel = d /\ Main # x
  BY <1>0, <1>3 DEF AuRepos, Courriels, CourrielsBienFormes
<1>6. CASE d # c
  <2>1. \A y \in Expediteurs : Parti(y, d)' = Parti(y, d)
    BY <1>3, <1>6 DEF Parti, AuRepos, EnCours
  <2> QED
    BY <1>0, <1>2, <1>4, <1>5, <1>6, <2>1, CompteIntact
<1>7. CASE d = c /\ res.statut = "ECHEC"
  <2>1. partis[d] <= ignores[d] + renvois
    BY <1>0, <1>7, UnDepartDeReste
  <2> QED
    BY <1>0, <1>4, <2>1, CompteLarge
<1>8. CASE d = c /\ res.statut = "ENVOYE"
  <2>1. ~Repart(d)'
    BY <1>2, <1>8 DEF Repart, Rejouable
  <2>2. expeditions'[Main].courriel # d
    BY <1>0, <1>5, <1>8 DEF UnSeulExpediteur
  <2>3. partis'[d] <= 1 + ignores'[d] + renvois'
    BY <1>0 DEF Compte
  <2> QED
    BY <2>1, <2>2, <2>3 DEF Compte
<1> QED
  BY <1>1, <1>6, <1>7, <1>8

LEMMA PriseCompte ==
  ASSUME CourrielsBienFormes, IInv, NEW d \in Courriels,
         \/ \E c \in Courriels : EnvoyerCourriel(c) \/ Renvoyer(c)
         \/ \E r \in Rejeux : Commencer(r) \/ ReserverRejeu(r)
  PROVE  Compte(d)'
<1>0. Typage /\ TypeOKCourriels /\ Compte(d) /\ Main \in Expediteurs /\ Creation \in Expediteurs
  BY DEF IInv, Typage, Expediteurs
<1>1. partis[d] \in Nat /\ ignores[d] \in Nat /\ renvois \in Nat
  BY <1>0, Nombres
<1>2. ASSUME NEW c \in Courriels, EnvoyerCourriel(c), ouvrable PROVE Compte(d)'
  <2>1. ~Occupe(Creation) /\ Prendre(Creation, c) /\ UNCHANGED <<courriels, partis, ignores, renvois>>
    BY <1>2 DEF EnvoyerCourriel
  <2>2. Creation # Main
    BY DEF Creation, Main
  <2> QED
    BY <1>0, <1>1, <2>1, <2>2, PrendreCompte, CompteIntact
<1>3. ASSUME NEW c \in Courriels, EnvoyerCourriel(c), ~ouvrable PROVE Compte(d)'
  <2>1. partis[c] = 0 /\ UNCHANGED <<expeditions, partis, ignores, renvois>>
        /\ courriels' = [courriels EXCEPT ![c] = [statut |-> "EN_ATTENTE", tentatives |-> 0, message |-> 0]]
    BY <1>3 DEF EnvoyerCourriel, Suivant, Inserer
  <2>2. CASE d = c
    BY <1>1, <2>1, <2>2, CompteLarge
  <2>3. CASE d # c
    <3>1. courriels'[d] = courriels[d] /\ \A y \in Expediteurs : Parti(y, d)' = Parti(y, d)
      BY <1>0, <2>1, <2>3 DEF TypeOKCourriels, Parti
    <3> QED
      BY <1>0, <1>1, <2>1, <3>1, CompteIntact
  <2> QED
    BY <2>2, <2>3
<1>4. ASSUME NEW c \in Courriels, Renvoyer(c) PROVE Compte(d)'
  <2>1. ~Occupe(Main) /\ Prendre(Main, c) /\ UNCHANGED <<courriels, partis, ignores>> /\ renvois' = renvois + 1
    BY <1>4 DEF Renvoyer
  <2>2. CASE d = c
    <3>1. partis[d] <= 1 + ignores[d] + renvois
      BY <1>0 DEF Compte
    <3>2. partis'[d] <= ignores'[d] + renvois'
      BY <1>1, <2>1, <3>1
    <3> QED
      BY <1>1, <2>1, <3>2, CompteLarge
  <2>3. CASE d # c
    BY <1>0, <1>1, <2>1, <2>3, PrendreCompte, CompteIntact
  <2> QED
    BY <2>2, <2>3
<1>5. ASSUME NEW r \in Rejeux, Commencer(r) PROVE Compte(d)'
  <2>1. UNCHANGED <<expeditions, courriels, partis, ignores, renvois>>
    BY <1>5 DEF Commencer
  <2>2. \A y \in Expediteurs : Parti(y, d)' = Parti(y, d)
    BY <2>1 DEF Parti
  <2> QED
    BY <1>0, <1>1, <2>1, <2>2, CompteIntact
<1>6. ASSUME NEW r \in Rejeux, ReserverRejeu(r) PROVE Compte(d)'
  <2>1. PICK c \in listes[r] : IF Reserver(c) THEN Prendre(r, c) ELSE UNCHANGED expeditions
    BY <1>6 DEF ReserverRejeu
  <2>2. ~Occupe(r) /\ c \in Courriels /\ UNCHANGED <<courriels, partis, ignores, renvois>>
        /\ r \in Expediteurs /\ r # Main
    BY <1>0, <1>6, <2>1 DEF ReserverRejeu, TypeOKCourriels, Expediteurs, CourrielsBienFormes
  <2>3. CASE Reserver(c)
    BY <1>0, <1>1, <2>1, <2>2, <2>3, PrendreCompte, CompteIntact
  <2>4. CASE ~Reserver(c)
    <3>1. UNCHANGED expeditions /\ \A y \in Expediteurs : Parti(y, d)' = Parti(y, d)
      BY <2>1, <2>4 DEF Parti
    <3> QED
      BY <1>0, <1>1, <2>2, <3>1, CompteIntact
  <2> QED
    BY <2>3, <2>4
<1> QED
  BY <1>2, <1>3, <1>4, <1>5, <1>6

LEMMA EvenementCompte ==
  ASSUME CourrielsBienFormes, IInv, NEW c \in Courriels, NEW n,
         NEW s \in {"REMIS", "OUVERT", "ECHEC"}, EvenementBrevo(c, n, s), NEW d \in Courriels
  PROVE  Compte(d)'
<1>0. /\ TypeOKCourriels /\ Compte(d)
      /\ courriels' = [courriels EXCEPT ![c] = SuiteEvenement(courriels[c], s)]
      /\ UNCHANGED <<expeditions, renvois, partis, ignores>>
  BY DEF IInv, Typage, EvenementBrevo
<1>1. partis[d] \in Nat /\ ignores[d] \in Nat /\ renvois \in Nat
  BY <1>0, Nombres
<1>2. \A y \in Expediteurs : Parti(y, d)' = Parti(y, d)
  BY <1>0 DEF Parti
<1>3. CASE d # c
  <2>1. courriels'[d] = courriels[d]
    BY <1>0, <1>3 DEF TypeOKCourriels
  <2> QED
    BY <1>0, <1>1, <1>2, <2>1, CompteIntact
<1>4. CASE d = c
  <2>1. courriels'[c] = SuiteEvenement(courriels[c], s)
    BY <1>0 DEF TypeOKCourriels
  <2>2. courriels[c] \in [statut : StatutsCourriel \union {"ABSENT"}, tentatives : 0..TentativesMax, message : Nat]
    BY <1>0, Champs
  <2>3. ~Repart(c)'
    BY <2>1, <2>2 DEF SuiteEvenement, Repart, Rejouable, CourrielsBienFormes
  <2> QED
    BY <1>0, <1>4, <2>3 DEF Compte, Parti
<1> QED
  BY <1>3, <1>4

LEMMA IdemCompte ==
  ASSUME UNCHANGED <<expeditions, courriels, partis, ignores, renvois>>, NEW d \in Courriels, Compte(d)
  PROVE  Compte(d)'
<1>1. Repart(d)' = Repart(d) /\ \A x \in Expediteurs : Parti(x, d)' = Parti(x, d)
  BY DEF Repart, Rejouable, Parti
<1>2. Parti(Main, d)' = Parti(Main, d)
  BY DEF Parti
<1> QED
  BY <1>1, <1>2 DEF Compte

LEMMA Inductif ==
  ASSUME CourrielsBienFormes, IInv, [NextCourriels]_varsCourriels
  PROVE  IInv'
<1>0. Typage' /\ Typage
  BY TypageGarde DEF IInv
<1> SUFFICES ASSUME NEW d \in Courriels PROVE Compte(d)'
  BY <1>0 DEF IInv
<1>1. CASE \/ \E c \in Courriels : EnvoyerCourriel(c) \/ Renvoyer(c)
           \/ \E r \in Rejeux : Commencer(r) \/ ReserverRejeu(r)
  BY <1>1, PriseCompte
<1>2. CASE EcrireLeNouveau \/ EcrireRenvoi \/ \E r \in Rejeux : EnregistrerRejeu(r)
  BY <1>2, EcrireCompte DEF Expediteurs
<1>3. CASE \E x \in Expediteurs : Envoi(x)
  BY <1>3, ExpedierCompte, InterrompreCompte DEF Envoi
<1>4. CASE \E c \in Courriels, n \in 1..(1 + TentativesMax + RenvoisMax + PannesMax),
              s \in {"REMIS", "OUVERT", "ECHEC"} : EvenementBrevo(c, n, s)
  BY <1>4, EvenementCompte
<1>5. CASE Heure \/ (\E c \in Courriels : Vieillir(c)) \/ UNCHANGED varsCourriels
  <2>1. UNCHANGED <<expeditions, courriels, partis, ignores, renvois>>
    BY <1>5 DEF Heure, Vieillir, varsCourriels
  <2> QED
    BY <2>1, IdemCompte DEF IInv
<1> QED
  BY <1>1, <1>2, <1>3, <1>4, <1>5 DEF NextCourriels, Rejeu

-----------------------------------------------------------------------------
(* The rows, the senders and the lists of the replays are well typed; the tries never *)
(* exceed tentativesCourrielMax though replays overlap.                               *)
THEOREM CourrielsTypes == CourrielsBienFormes /\ SpecCourriels => []TypeOKCourriels
<1> SUFFICES ASSUME CourrielsBienFormes PROVE SpecCourriels => []TypeOKCourriels
  OBVIOUS
<1>1. InitCourriels => IInv
  BY InitInv
<1>2. IInv /\ [NextCourriels]_varsCourriels => IInv'
  BY Inductif
<1>3. IInv => TypeOKCourriels
  BY DEF IInv, Typage
<1> QED
  BY <1>1, <1>2, <1>3, PTL DEF SpecCourriels

(* "un second rejeu concurrent la saute au lieu de la renvoyer": Brevo takes each mail *)
(* once, but for the answers lost, the senders stopped and the hand, however many      *)
(* replays had it on their list (rejouerCourriel).                                      *)
THEOREM UnDepartParCourriel == CourrielsBienFormes /\ SpecCourriels => []UnSeulDepart
<1> SUFFICES ASSUME CourrielsBienFormes PROVE SpecCourriels => []UnSeulDepart
  OBVIOUS
<1>1. InitCourriels => IInv
  BY InitInv
<1>2. IInv /\ [NextCourriels]_varsCourriels => IInv'
  BY Inductif
<1>3. IInv => UnSeulDepart
  BY DEF IInv, Compte, UnSeulDepart
<1> QED
  BY <1>1, <1>2, <1>3, PTL DEF SpecCourriels

(* A replay never sends again to an address that bounced, not even one that had listed *)
(* the mail before the bounce (CourrielReserverRejeu, CourrielEvenementBrevo).          *)
THEOREM RebondSansRejeu == CourrielsBienFormes /\ SpecCourriels => []RebondDefinitif
<1> SUFFICES ASSUME CourrielsBienFormes PROVE SpecCourriels => []RebondDefinitif
  OBVIOUS
<1>1. InitCourriels => IInv
  BY InitInv
<1>2. IInv /\ [NextCourriels]_varsCourriels => IInv'
  BY Inductif
<1>3. IInv => RebondDefinitif
  <2> SUFFICES ASSUME IInv, NEW r \in Rejeux, expeditions[r].courriel \in rejetes
               PROVE  FALSE
    BY DEF RebondDefinitif
  <2>1. /\ r \in Expediteurs /\ r # Main /\ r # Creation /\ TypeOKCourriels /\ EnvoiSuivi(r)
        /\ expeditions[r].courriel \in Courriels
    BY DEF IInv, Typage, TypeOKCourriels, Expediteurs, CourrielsBienFormes
  <2>2. LigneSuivie(expeditions[r].courriel) /\ Occupe(r)
    BY <2>1 DEF IInv, Typage, Occupe, Courriels
  <2>3. courriels[expeditions[r].courriel].tentatives \in 0..TentativesMax
    BY <2>1, Champs
  <2> QED
    BY <2>1, <2>2, <2>3 DEF EnvoiSuivi, LigneSuivie, Rejouable, CourrielsBienFormes
<1> QED
  BY <1>1, <1>2, <1>3, PTL DEF SpecCourriels
=============================================================================
