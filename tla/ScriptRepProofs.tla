-------------------------- MODULE ScriptRepProofs --------------------------
(***************************************************************************)
(* The script of a call to a representative: the step on screen, the callback  *)
(* and the appointment of the calls recorded, for every referential of          *)
(* statuses, every kind of appointment and any number of openings, sendings      *)
(* and losses.                                                                    *)
(***************************************************************************)
EXTENDS ScriptRep, WellFoundedInduction, TLAPS

-----------------------------------------------------------------------------
(***************************************************************************)
(* Which steps a path has.                                                    *)
(***************************************************************************)
LEMMA ContientConcat ==
  ASSUME NEW s \in Seq(Pas), NEW t \in Seq(Pas), NEW e
  PROVE  s \o t \in Seq(Pas) /\ (Contains(s \o t, e) <=> Contains(s, e) \/ Contains(t, e))
<1>1. s \o t \in Seq(Pas) /\ Len(s \o t) = Len(s) + Len(t) /\ Len(s) \in Nat /\ Len(t) \in Nat
  OBVIOUS
<1>2. ASSUME Contains(s, e) PROVE Contains(s \o t, e)
  <2>1. PICK i \in 1..Len(s) : s[i] = e
    BY <1>2 DEF Contains
  <2>2. (s \o t)[i] = e /\ i \in 1..Len(s \o t)
    BY <1>1, <2>1
  <2> QED
    BY <2>2 DEF Contains
<1>3. ASSUME Contains(t, e) PROVE Contains(s \o t, e)
  <2>1. PICK i \in 1..Len(t) : t[i] = e
    BY <1>3 DEF Contains
  <2>2. (s \o t)[Len(s) + i] = e /\ Len(s) + i \in 1..Len(s \o t)
    BY <1>1, <2>1
  <2> QED
    BY <2>2 DEF Contains
<1>4. ASSUME Contains(s \o t, e) PROVE Contains(s, e) \/ Contains(t, e)
  <2>1. PICK i \in 1..(Len(s) + Len(t)) : (s \o t)[i] = e
    BY <1>1, <1>4 DEF Contains
  <2>2. CASE i <= Len(s)
    <3>1. s[i] = e /\ i \in 1..Len(s)
      BY <1>1, <2>1, <2>2
    <3> QED
      BY <3>1 DEF Contains
  <2>3. CASE i > Len(s)
    <3>1. t[i - Len(s)] = e /\ i - Len(s) \in 1..Len(t)
      BY <1>1, <2>1, <2>3
    <3> QED
      BY <3>1 DEF Contains
  <2> QED
    BY <1>1, <2>1, <2>2, <2>3
<1> QED
  BY <1>1, <1>2, <1>3, <1>4

(* The steps one at a time, and the five of a person who answered. *)
LEMMA ContientUn ==
  ASSUME NEW p \in Pas, NEW e
  PROVE  <<p>> \in Seq(Pas) /\ (Contains(<<p>>, e) <=> e = p)
BY DEF Contains

LEMMA ContientRien ==
  ASSUME NEW e
  PROVE  <<>> \in Seq(Pas) /\ ~Contains(<<>>, e)
BY DEF Contains

Joints == <<"ecole", "contacte", "ues", "syndicat", "representant">>

LEMMA ContientJoints ==
  ASSUME NEW e
  PROVE  /\ Joints \in Seq(Pas)
         /\ Contains(Joints, e) <=> e \in {"ecole", "contacte", "ues", "syndicat", "representant"}
<1>1. Joints \in Seq(Pas) /\ Len(Joints) = 5
  BY DEF Joints, Pas
<1>2. 1..5 = {1, 2, 3, 4, 5}
  OBVIOUS
<1>3. Contains(Joints, e) <=> \E i \in {1, 2, 3, 4, 5} : Joints[i] = e
  BY <1>1, <1>2 DEF Contains
<1>4. /\ Joints[1] = "ecole" /\ Joints[2] = "contacte" /\ Joints[3] = "ues"
      /\ Joints[4] = "syndicat" /\ Joints[5] = "representant"
  BY DEF Joints
<1> QED
  BY <1>1, <1>3, <1>4

LEMMA ContientSi ==
  ASSUME NEW c, NEW p \in Seq(Pas), NEW e
  PROVE  LET s == IF c THEN p ELSE <<>>
         IN s \in Seq(Pas) /\ (Contains(s, e) <=> c /\ Contains(p, e))
<1>1. CASE c
  BY <1>1
<1>2. CASE ~c
  BY <1>2, ContientRien
<1> QED
  BY <1>1, <1>2

(* The condition under which the answers r, and the kind of appointment chosen,    *)
(* lead to a step.                                                                   *)
Mene(r, code, pas) ==
  \/ pas \in {"reponse", "statut", "note"}
  \/ joignable(r) /\ pas \in {"ecole", "contacte", "ues", "syndicat", "representant"}
  \/ joignable(r) /\ r.ambassadeur = "oui" /\ pas = "whatsapp"
  \/ sousStatutsDe(r, racineRetenue(r)) # {} /\ pas = "precision"
  \/ rdvPossible(r) /\ (pas = "rdv" \/ (code # Rien /\ pas = "rdvDate"))
  \/ dateDemandee(statut(r)) /\ pas = "echeance"
  \/ joignable(r) /\ r.ambassadeur = "non" /\ pas = "recommande"

LEMMA ParcoursExact ==
  ASSUME NEW r, NEW code, NEW e
  PROVE  /\ parcoursDe(r, code) \in Seq(Pas)
         /\ Contains(parcoursDe(r, code), e) <=> Mene(r, code, e)
<1> DEFINE si(c, p) == IF c THEN p ELSE <<>>
           joint == si(joignable(r), Joints)
           whatsapp == si(joignable(r) /\ r.ambassadeur = "oui", <<"whatsapp">>)
           precision == si(sousStatutsDe(r, racineRetenue(r)) # {}, <<"precision">>)
           date == si(code # Rien, <<"rdvDate">>)
           un(x) == <<x>>
           rdv == un("rdv") \o date
           siRdv == si(rdvPossible(r), rdv)
           echeance == si(dateDemandee(statut(r)), <<"echeance">>)
           recommande == si(joignable(r) /\ r.ambassadeur = "non", <<"recommande">>)
           p1 == un("reponse") \o joint
           p2 == p1 \o whatsapp
           p3 == p2 \o un("statut")
           p4 == p3 \o precision
           p5 == p4 \o siRdv
           p6 == p5 \o echeance
           p7 == p6 \o recommande
           p8 == p7 \o un("note")
<1>1. {"reponse", "statut", "note", "whatsapp", "precision", "rdv", "rdvDate", "echeance",
       "recommande"} \subseteq Pas
  BY DEF Pas
<1>2. joint \in Seq(Pas)
      /\ (Contains(joint, e)
            <=> joignable(r) /\ e \in {"ecole", "contacte", "ues", "syndicat", "representant"})
  BY ContientSi, ContientJoints
<1>3. whatsapp \in Seq(Pas)
      /\ (Contains(whatsapp, e) <=> joignable(r) /\ r.ambassadeur = "oui" /\ e = "whatsapp")
  BY <1>1, ContientSi, ContientUn
<1>4. precision \in Seq(Pas)
      /\ (Contains(precision, e) <=> sousStatutsDe(r, racineRetenue(r)) # {} /\ e = "precision")
  BY <1>1, ContientSi, ContientUn
<1>5. date \in Seq(Pas) /\ (Contains(date, e) <=> code # Rien /\ e = "rdvDate")
  BY <1>1, ContientSi, ContientUn
<1>6. echeance \in Seq(Pas)
      /\ (Contains(echeance, e) <=> dateDemandee(statut(r)) /\ e = "echeance")
  BY <1>1, ContientSi, ContientUn
<1>7. recommande \in Seq(Pas)
      /\ (Contains(recommande, e) <=> joignable(r) /\ r.ambassadeur = "non" /\ e = "recommande")
  BY <1>1, ContientSi, ContientUn
<1>8. parcoursDe(r, code) = p8
  BY DEF parcoursDe, Joints
<1>0. \A x \in {"reponse", "statut", "note", "rdv"} :
        un(x) \in Seq(Pas) /\ (Contains(un(x), e) <=> e = x)
  BY <1>1, ContientUn
<1> HIDE DEF un
<1> HIDE DEF joint, whatsapp, precision, date, echeance, recommande
<1>9. rdv \in Seq(Pas) /\ (Contains(rdv, e) <=> e = "rdv" \/ (code # Rien /\ e = "rdvDate"))
  BY <1>0, <1>5, ContientConcat
<1> HIDE DEF rdv
<1>10. siRdv \in Seq(Pas)
       /\ (Contains(siRdv, e) <=> rdvPossible(r) /\ (e = "rdv" \/ (code # Rien /\ e = "rdvDate")))
  BY <1>9, ContientSi
<1> HIDE DEF siRdv
<1>11. p1 \in Seq(Pas) /\ (Contains(p1, e) <=> e = "reponse" \/ Contains(joint, e))
  BY <1>0, <1>2, ContientConcat
<1> HIDE DEF p1
<1>12. p2 \in Seq(Pas) /\ (Contains(p2, e) <=> Contains(p1, e) \/ Contains(whatsapp, e))
  BY <1>3, <1>11, ContientConcat
<1> HIDE DEF p2
<1>13. p3 \in Seq(Pas) /\ (Contains(p3, e) <=> Contains(p2, e) \/ e = "statut")
  BY <1>0, <1>12, ContientConcat
<1> HIDE DEF p3
<1>14. p4 \in Seq(Pas) /\ (Contains(p4, e) <=> Contains(p3, e) \/ Contains(precision, e))
  BY <1>4, <1>13, ContientConcat
<1> HIDE DEF p4
<1>15. p5 \in Seq(Pas) /\ (Contains(p5, e) <=> Contains(p4, e) \/ Contains(siRdv, e))
  BY <1>10, <1>14, ContientConcat
<1> HIDE DEF p5
<1>16. p6 \in Seq(Pas) /\ (Contains(p6, e) <=> Contains(p5, e) \/ Contains(echeance, e))
  BY <1>6, <1>15, ContientConcat
<1> HIDE DEF p6
<1>17. p7 \in Seq(Pas) /\ (Contains(p7, e) <=> Contains(p6, e) \/ Contains(recommande, e))
  BY <1>7, <1>16, ContientConcat
<1> HIDE DEF p7
<1>18. p8 \in Seq(Pas) /\ (Contains(p8, e) <=> Contains(p7, e) \/ e = "note")
  BY <1>0, <1>17, ContientConcat
<1> HIDE DEF p8, si
<1>19. /\ p8 \in Seq(Pas)
       /\ Contains(p8, e) <=> Mene(r, code, e)
  BY <1>2, <1>3, <1>4, <1>6, <1>7, <1>10, <1>11, <1>12, <1>13, <1>14, <1>15, <1>16, <1>17, <1>18
  DEF Mene
<1> QED
  BY <1>8, <1>19

(* Every path ends with the note, the next step is on the path, and so is any step   *)
(* at a rank the screen may go back to.                                                *)
LEMMA SuivantSurLeParcours ==
  ASSUME NEW r, NEW code, NEW pas
  PROVE  suivantDe(pas, parcoursDe(r, code)) \in Pas
         /\ Mene(r, code, suivantDe(pas, parcoursDe(r, code)))
<1> DEFINE p == parcoursDe(r, code)
           i == rangDans(p, pas) + 1
<1>1. p \in Seq(Pas)
  BY ParcoursExact
<1>2. CASE i \in DOMAIN p
  <2>1. suivantDe(pas, p) = p[i]
    BY <1>2 DEF suivantDe
  <2> HIDE DEF i
  <2>2. i \in 1..Len(p) /\ p[i] \in Pas
    BY <1>1, <1>2
  <2> HIDE DEF p
  <2>3. Contains(p, p[i])
    BY <2>2 DEF Contains
  <2> QED
    BY <2>1, <2>2, <2>3, ParcoursExact DEF p
<1>3. CASE i \notin DOMAIN p
  <2>1. suivantDe(pas, p) = "note"
    BY <1>3 DEF suivantDe
  <2> QED
    BY <2>1 DEF Mene, Pas
<1> QED
  BY <1>2, <1>3

LEMMA RangSurLeParcours ==
  ASSUME NEW i \in 1..rang
  PROVE  parcours[i] \in Pas /\ Mene(affiche, ecran.code, parcours[i])
<1>1. parcours \in Seq(Pas) /\ \A e : Contains(parcours, e) <=> Mene(affiche, ecran.code, e)
  BY ParcoursExact DEF parcours
<1>2. Contains(parcours, "reponse")
  BY <1>1 DEF Mene
<1>3. Len(parcours) \in Nat /\ DOMAIN parcours = 1..Len(parcours)
  BY <1>1
<1>4. 1 \in DOMAIN parcours
  BY <1>2, <1>3 DEF Contains
<1>5. rang \in DOMAIN parcours
  <2>1. CASE Contains(parcours, ecran.pas)
    <3>1. \E k \in DOMAIN parcours : parcours[k] = ecran.pas
      BY <1>3, <2>1 DEF Contains
    <3>2. rangDans(parcours, ecran.pas) \in DOMAIN parcours
      BY <2>1, <3>1 DEF rangDans
    <3> QED
      BY <1>3, <1>4, <3>2 DEF rang
  <2>2. CASE ~Contains(parcours, ecran.pas)
    BY <1>4, <2>2 DEF rang, rangDans
  <2> QED
    BY <2>1, <2>2
<1>6. i \in 1..Len(parcours)
  BY <1>3, <1>5
<1>7. parcours[i] \in Pas
  BY <1>1, <1>6
<1>8. Contains(parcours, parcours[i])
  BY <1>6 DEF Contains
<1> QED
  BY <1>1, <1>7, <1>8

-----------------------------------------------------------------------------
(***************************************************************************)
(* What the answers entail.                                                   *)
(***************************************************************************)
LEMMA StatutDesStatuts ==
  ASSUME StatutsBienFormes, NEW r
  PROVE  /\ statutChoisi(r) \in statutsDeLaBranche(r) \union {Rien}
         /\ statutDuSouhait(r) \in statutsDeLaBranche(r) \union {Rien}
         /\ statut(r) \in statutsDeLaBranche(r) \union {Rien}
         /\ racineRetenue(r) \in statutsDeLaBranche(r) \union {Rien}
         /\ statutsDeLaBranche(r) \subseteq StatutsRep /\ Rien \notin StatutsRep
<1>1. statutsDeLaBranche(r) \subseteq StatutsRep /\ Rien \notin StatutsRep
  BY DEF statutsDeLaBranche, StatutsBienFormes
<1>2. \A S \in SUBSET statutsDeLaBranche(r) : ouRien(S) \in statutsDeLaBranche(r) \union {Rien}
  BY DEF ouRien
<1>3. statutChoisi(r) \in statutsDeLaBranche(r) \union {Rien}
  BY DEF statutChoisi
<1>4. statutDuSouhait(r) \in statutsDeLaBranche(r) \union {Rien}
  <2> DEFINE code == IF r.ambassadeur = "oui" THEN "ACCEPTE" ELSE "REFUSE"
             S == {s \in statutsDeLaBranche(r) : s.code = code}
  <2>1. ouRien(S) \in statutsDeLaBranche(r) \union {Rien}
    BY <1>2
  <2>2. statutDuSouhait(r) \in {Rien, ouRien(S)}
    BY DEF statutDuSouhait
  <2> QED
    BY <2>1, <2>2
<1>5. statut(r) \in statutsDeLaBranche(r) \union {Rien}
  BY <1>3, <1>4 DEF statut
<1>6. racineRetenue(r) \in statutsDeLaBranche(r) \union {Rien}
  <2> DEFINE s == statutChoisi(r)
             parents == {p \in statutsDeLaBranche(r) : s # Rien /\ s.parent = p.code}
  <2>1. ouRien(parents) \in statutsDeLaBranche(r) \union {Rien}
    BY <1>2
  <2>2. racineRetenue(r) \in {statutDuSouhait(r), ouRien(parents), s}
    BY DEF racineRetenue
  <2> QED
    BY <1>3, <1>4, <2>1, <2>2
<1> QED
  BY <1>1, <1>3, <1>4, <1>5, <1>6

(* The answer to the question poses a status that demands no date. *)
LEMMA SouhaitSansDate ==
  ASSUME StatutsBienFormes, QuestionSansDate, NEW r
  PROVE  ~dateDemandee(statutDuSouhait(r))
<1> DEFINE code == IF r.ambassadeur = "oui" THEN "ACCEPTE" ELSE "REFUSE"
           S == {s \in statutsDeLaBranche(r) : s.code = code}
<1>1. statutDuSouhait(r) = Rien \/ statutDuSouhait(r) = ouRien(S)
  BY DEF statutDuSouhait
<1>2. ouRien(S) = Rien \/ ouRien(S) \in S
  BY DEF ouRien
<1>3. \A s \in S : s \in StatutsRep /\ s.code \in {"ACCEPTE", "REFUSE"}
  BY DEF statutsDeLaBranche
<1> HIDE DEF S
<1> QED
  BY <1>1, <1>2, <1>3 DEF QuestionSansDate, dateDemandee

(* The path looks at the branch, the status and the answer to the question alone. *)
Semblables(r, q) ==
  r.resultat = q.resultat /\ r.statut = q.statut /\ r.ambassadeur = q.ambassadeur

LEMMA MemeBranche ==
  ASSUME NEW r, NEW q, r.resultat = q.resultat
  PROVE  /\ joignable(r) <=> joignable(q)
         /\ statutsDeLaBranche(r) = statutsDeLaBranche(q)
<1>1. (r.resultat = "JOIGNABLE") = (q.resultat = "JOIGNABLE")
  OBVIOUS
<1>2. joignable(r) = joignable(q)
  BY <1>1 DEF joignable
<1> QED
  BY <1>2 DEF statutsDeLaBranche

LEMMA MemeStatut ==
  ASSUME NEW r, NEW q, Semblables(r, q)
  PROVE  /\ joignable(r) <=> joignable(q)
         /\ statut(r) = statut(q)
         /\ racineRetenue(r) = racineRetenue(q)
         /\ \A s : sousStatutsDe(r, s) = sousStatutsDe(q, s)
<1>1. /\ joignable(r) <=> joignable(q)
      /\ statutsDeLaBranche(r) = statutsDeLaBranche(q)
  BY MemeBranche DEF Semblables
<1>2. \A s : sousStatutsDe(r, s) = sousStatutsDe(q, s)
  BY <1>1 DEF sousStatutsDe
<1>3. statutChoisi(r) = statutChoisi(q)
  BY <1>1 DEF statutChoisi, Semblables
<1>4. statutDuSouhait(r) = statutDuSouhait(q)
  BY <1>1 DEF statutDuSouhait, Semblables
<1>5. statut(r) = statut(q)
  BY <1>3, <1>4 DEF statut
<1>6. racineRetenue(r) = racineRetenue(q)
  BY <1>1, <1>3, <1>4 DEF racineRetenue
<1> QED
  BY <1>1, <1>2, <1>5, <1>6

LEMMA MemeParcours ==
  ASSUME NEW r, NEW q, Semblables(r, q), NEW code, NEW pas
  PROVE  Mene(r, code, pas) <=> Mene(q, code, pas)
<1>1. rdvPossible(r) <=> rdvPossible(q)
  BY MemeStatut DEF rdvPossible
<1>2. dateDemandee(statut(r)) <=> dateDemandee(statut(q))
  BY MemeStatut
<1>3. r.ambassadeur = q.ambassadeur
  BY DEF Semblables
<1> QED
  BY <1>1, <1>2, <1>3, MemeStatut DEF Mene

(* A status chosen in the branch is the status. *)
LEMMA StatutChoisi ==
  ASSUME StatutsBienFormes, NEW r, r.statut \in statutsDeLaBranche(r)
  PROVE  statut(r) = r.statut
BY StatutDesStatuts DEF statut, statutChoisi

LEMMA SansStatutChoisi ==
  ASSUME StatutsBienFormes, NEW r, r.statut = Rien
  PROVE  statut(r) = statutDuSouhait(r)
BY StatutDesStatuts DEF statut, statutChoisi

-----------------------------------------------------------------------------
(***************************************************************************)
(* A draft whose callback, when its status demands a date, was set for that   *)
(* status: what every draft shown, to write, in flight or kept on a row is.    *)
(* A screen starts from an earlier draft, so that all of them have to be.       *)
(* This alone takes that the answers to the question demand no date.             *)
(***************************************************************************)
Bonnes ==
  {d \in Reponses :
     QuestionSansDate /\ dateDemandee(statut(d)) => d.rappel \in {statut(d).code, Rien}}

LEMMA ViergeBonne ==
  ASSUME StatutsBienFormes
  PROVE  Vierge \in Bonnes /\ Rien \notin Bonnes /\ Bonnes \subseteq Saisies
<1>1. Vierge \in Reponses /\ Rien \notin Reponses /\ Saisies = Reponses
  BY SaisiesAssumption DEF StatutsBienFormes
<1>2. Vierge.rappel = Rien
  BY DEF StatutsBienFormes, Vierges
<1> QED
  BY <1>1, <1>2 DEF Bonnes

(* What a screen may make of the answers: the same status and callback, or one of   *)
(* the four ways to change them.                                                      *)
LEMMA BonneNeutre ==
  ASSUME NEW q \in Bonnes, NEW r \in Reponses, Semblables(r, q), r.rappel = q.rappel
  PROVE  r \in Bonnes
BY MemeStatut DEF Bonnes

LEMMA BonneSansStatut ==
  ASSUME StatutsBienFormes, NEW r \in Reponses, r.statut = Rien
  PROVE  r \in Bonnes
BY SansStatutChoisi, SouhaitSansDate DEF Bonnes

LEMMA BonneSansRappel ==
  ASSUME NEW r \in Reponses, r.rappel = Rien
  PROVE  r \in Bonnes
BY DEF Bonnes

LEMMA BonneDuStatut ==
  ASSUME StatutsBienFormes, NEW r \in Reponses, r.statut \in statutsDeLaBranche(r),
         r.rappel \in {r.statut.code, Rien}
  PROVE  r \in Bonnes
BY StatutChoisi DEF Bonnes

LEMMA BonneDeLaQuestion ==
  ASSUME StatutsBienFormes, NEW q \in Bonnes, NEW r \in Reponses,
         r.resultat = q.resultat, r.statut = q.statut, r.rappel = q.rappel
  PROVE  r \in Bonnes
<1>1. statutsDeLaBranche(r) = statutsDeLaBranche(q)
  BY MemeBranche
<1>2. statutChoisi(r) = statutChoisi(q)
  BY <1>1 DEF statutChoisi
<1>3. CASE statutChoisi(q) # Rien
  <2>1. statut(r) = statut(q)
    BY <1>2, <1>3 DEF statut
  <2> QED
    BY <2>1 DEF Bonnes
<1>4. CASE statutChoisi(q) = Rien
  <2>1. statut(r) = statutDuSouhait(r)
    BY <1>2, <1>4 DEF statut
  <2> QED
    BY <2>1, SouhaitSansDate DEF Bonnes
<1> QED
  BY <1>3, <1>4

-----------------------------------------------------------------------------
(***************************************************************************)
(* The drafts, wherever they are.                                             *)
(***************************************************************************)
Lignes == [draft : Bonnes \union {Rien}, fermee : BOOLEAN, creee : BOOLEAN, puts : 0..PutsMax]

Puts == [n : 1..PutsMax, ouverture : Ouvertures, charge : Bonnes,
         etat : {"parti", "accepte", "refuse"}]

BrouillonsBons ==
  /\ ouverture \in 0..OuverturesMax
  /\ affiche \in Bonnes /\ aEcrire \in Bonnes \union {Rien} /\ ecrit \in Bonnes
  /\ arme \in BOOLEAN /\ enAttente \in BOOLEAN
  /\ puts \subseteq Puts
  /\ lignes \in [Ouvertures -> Lignes]
  /\ pertes \in 0..PertesMax
  /\ arme => aEcrire # Rien

LEMMA BrouillonsTypes ==
  ASSUME StatutsBienFormes, BrouillonsBons
  PROVE  BrouillonTypeOK
<1>1. Bonnes \subseteq Saisies
  BY ViergeBonne
<1>2. Lignes \subseteq [draft : Saisies \union {Rien}, fermee : BOOLEAN, creee : BOOLEAN,
                        puts : 0..PutsMax]
  BY <1>1 DEF Lignes
<1>3. Puts \subseteq [n : 1..PutsMax, ouverture : Ouvertures, charge : Saisies,
                      etat : {"parti", "accepte", "refuse"}]
  BY <1>1 DEF Puts
<1>4. lignes \in [Ouvertures -> [draft : Saisies \union {Rien}, fermee : BOOLEAN,
                                 creee : BOOLEAN, puts : 0..PutsMax]]
  <2> HIDE DEF Lignes
  <2> QED
    BY <1>2 DEF BrouillonsBons
<1>5. puts \subseteq [n : 1..PutsMax, ouverture : Ouvertures, charge : Saisies,
                      etat : {"parti", "accepte", "refuse"}]
  BY <1>3 DEF BrouillonsBons
<1> QED
  BY <1>1, <1>4, <1>5 DEF BrouillonTypeOK, BrouillonsBons

LEMMA PlusGrand ==
  ASSUME NEW n \in Nat, NEW S \in SUBSET (1..n), S # {}
  PROVE  \E m \in S : \A k \in S : k <= m
<1> DEFINE R == OpToRel(<, Nat)
           T == {n - k : k \in S}
<1>1. IsWellFoundedOn(R, Nat)
  BY NatLessThanWellFounded
<1>2. \A i, j \in Nat : i < j => <<i, j>> \in R
  BY DEF OpToRel
<1> HIDE DEF R
<1>3. T \subseteq Nat /\ T # {}
  <2>1. \A k \in S : n - k \in Nat
    OBVIOUS
  <2>2. PICK k \in S : TRUE
    OBVIOUS
  <2>3. n - k \in T
    BY <2>2
  <2> QED
    BY <2>1, <2>3
<1>4. PICK x \in T : \A y \in T : <<y, x>> \notin R
  <2> HIDE DEF T
  <2> QED
    BY <1>1, <1>3, WFMin
<1>5. PICK m \in S : x = n - m
  OBVIOUS
<1>6. \A k \in S : ~(n - k < n - m)
  BY <1>2, <1>3, <1>4, <1>5
<1> QED
  BY <1>6

LEMMA PrecedentBon ==
  ASSUME StatutsBienFormes, BrouillonsBons
  PROVE  BrouillonPrecedent \in Bonnes \union {Rien} /\ LireBrouillon(BrouillonPrecedent) \in Bonnes
<1> DEFINE ecrites == {o \in Ouvertures : lignes[o].creee /\ lignes[o].draft # Rien}
           derniere == CHOOSE o \in ecrites : \A p \in ecrites : p <= o
<1>1. CASE ecrites = {}
  BY <1>1, ViergeBonne DEF BrouillonPrecedent, LireBrouillon
<1>2. CASE ecrites # {}
  <2>1. OuverturesMax \in Nat /\ ecrites \in SUBSET (1..OuverturesMax)
    BY BornesBrouillonAssumption DEF Ouvertures
  <2>2. \E o \in ecrites : \A p \in ecrites : p <= o
    <3> HIDE DEF ecrites
    <3> QED
      BY <1>2, <2>1, PlusGrand
  <2>3. derniere \in ecrites
    BY <2>2
  <2>4. lignes[derniere].draft \in Bonnes
    BY <2>3 DEF BrouillonsBons, Lignes
  <2>5. BrouillonPrecedent = lignes[derniere].draft
    BY <1>2 DEF BrouillonPrecedent
  <2> QED
    BY <2>4, <2>5, ViergeBonne DEF LireBrouillon
<1> QED
  BY <1>1, <1>2

LEMMA DebutBon ==
  ASSUME StatutsBienFormes, BrouillonInit
  PROVE  BrouillonsBons
<1>1. OuverturesMax \in Nat /\ PutsMax \in Nat /\ PertesMax \in Nat
  BY BornesBrouillonAssumption
<1>2. arme \in BOOLEAN /\ enAttente \in BOOLEAN /\ ~arme
  BY DEF BrouillonInit
<1>3. LigneVide \in Lignes
  BY <1>1 DEF LigneVide, Lignes
<1>4. /\ lignes \in [Ouvertures -> Lignes] /\ puts = {} /\ pertes \in 0..PertesMax
      /\ ouverture \in 0..OuverturesMax /\ affiche \in Bonnes /\ ecrit \in Bonnes
      /\ aEcrire = Rien
  BY <1>1, <1>3, ViergeBonne DEF BrouillonInit
<1> QED
  BY <1>2, <1>4 DEF BrouillonsBons

LEMMA OuvrirBon ==
  ASSUME StatutsBienFormes, BrouillonsBons, NEW o \in Ouvertures, OuvrirFiche(o)
  PROVE  BrouillonsBons'
<1> DEFINE vide == [LigneVide EXCEPT !.draft = BrouillonPrecedent]
           neuve == [vide EXCEPT !.creee = TRUE]
<1>1. LigneVide \in Lignes
  BY BornesBrouillonAssumption DEF LigneVide, Lignes
<1>2. vide \in Lignes
  BY <1>1, PrecedentBon DEF Lignes
<1> HIDE DEF vide
<1>3. neuve \in Lignes
  BY <1>2 DEF Lignes
<1>4. lignes' = [lignes EXCEPT ![o] = neuve]
  BY DEF OuvrirFiche, CreerOuverture, vide
<1> HIDE DEF neuve
<1>5. lignes' \in [Ouvertures -> Lignes]
  BY <1>3, <1>4 DEF BrouillonsBons
<1>6. affiche' \in Bonnes
  BY PrecedentBon DEF OuvrirFiche, Monter
<1>7. arme' \in BOOLEAN /\ enAttente' \in BOOLEAN /\ ~arme'
  BY DEF OuvrirFiche, Monter
<1>8. /\ ouverture' \in 0..OuverturesMax /\ ecrit' \in Bonnes /\ aEcrire' = Rien
      /\ puts' \subseteq Puts /\ pertes' \in 0..PertesMax
  BY <1>6, BornesBrouillonAssumption DEF OuvrirFiche, Monter, BrouillonsBons, Ouvertures
<1> QED
  BY <1>5, <1>6, <1>7, <1>8 DEF BrouillonsBons

LEMMA DemonterBon ==
  ASSUME StatutsBienFormes, BrouillonsBons, Demonter, UNCHANGED <<puts, lignes, pertes>>
  PROVE  BrouillonsBons'
<1>1. arme' \in BOOLEAN /\ enAttente' \in BOOLEAN /\ ~arme'
  BY DEF Demonter
<1>2. /\ ouverture' \in 0..OuverturesMax /\ affiche' \in Bonnes /\ ecrit' \in Bonnes
      /\ aEcrire' = Rien
  BY ViergeBonne, BornesBrouillonAssumption DEF Demonter
<1> QED
  BY <1>1, <1>2 DEF BrouillonsBons, Ouvertures

LEMMA AfficherBon ==
  ASSUME StatutsBienFormes, BrouillonsBons, NEW d \in Bonnes, Afficher(d)
  PROVE  BrouillonsBons' /\ affiche' = d /\ ouverture' = ouverture
BY ViergeBonne DEF Afficher, BrouillonsBons, Ouvertures

LEMMA BrouillonInchange ==
  ASSUME BrouillonsBons, UNCHANGED varsBrouillon
  PROVE  BrouillonsBons'
BY DEF BrouillonsBons, varsBrouillon, Ouvertures

LEMMA EnvoyerBon ==
  ASSUME StatutsBienFormes, BrouillonsBons, Envoyer
  PROVE  BrouillonsBons' /\ affiche' = affiche /\ ouverture' = ouverture
<1> DEFINE l == [lignes[ouverture] EXCEPT !.puts = @ + 1]
           p == Charge(ouverture, aEcrire)
<1>1. ouverture \in Ouvertures /\ lignes[ouverture] \in Lignes /\ aEcrire \in Bonnes
  BY BornesBrouillonAssumption DEF Envoyer, BrouillonsBons, Ouvertures
<1>2. lignes[ouverture].puts + 1 \in 1..PutsMax
  BY <1>1, BornesBrouillonAssumption DEF Envoyer, Lignes
<1>3. l \in Lignes
  BY <1>1, <1>2 DEF Lignes
<1>4. lignes' = [lignes EXCEPT ![ouverture] = l]
  BY DEF Envoyer, BrouillonsBons
<1>5. p \in Puts
  BY <1>1, <1>2 DEF Puts, Charge
<1> HIDE DEF l, p
<1>6. lignes' \in [Ouvertures -> Lignes]
  BY <1>3, <1>4 DEF BrouillonsBons
<1>7. puts' \subseteq Puts
  BY <1>5 DEF Envoyer, BrouillonsBons, p
<1> QED
  BY <1>6, <1>7 DEF Envoyer, BrouillonsBons, Ouvertures

LEMMA RecevoirPutBon ==
  ASSUME BrouillonsBons, NEW p \in puts, RecevoirPut(p)
  PROVE  BrouillonsBons' /\ affiche' = affiche /\ ouverture' = ouverture
<1> DEFINE l == [lignes[p.ouverture] EXCEPT !.draft = IF lignes[p.ouverture].fermee THEN @ ELSE p.charge]
<1>1. p \in Puts /\ p.ouverture \in Ouvertures /\ p.charge \in Bonnes
  BY DEF BrouillonsBons, Puts
<1>2. lignes[p.ouverture] \in Lignes
  BY <1>1 DEF BrouillonsBons
<1>3. l \in Lignes
  BY <1>1, <1>2 DEF Lignes
<1>4. lignes' = [lignes EXCEPT ![p.ouverture] = l]
  BY DEF RecevoirPut, EcrireSurLigne, BrouillonsBons
<1> HIDE DEF l
<1>5. lignes' \in [Ouvertures -> Lignes]
  BY <1>1, <1>3, <1>4 DEF BrouillonsBons
<1>6. puts' \subseteq Puts
  BY <1>1 DEF RecevoirPut, BrouillonsBons, Puts
<1> QED
  BY <1>5, <1>6 DEF RecevoirPut, BrouillonsBons, Ouvertures

LEMMA ReponsePutBonne ==
  ASSUME StatutsBienFormes, BrouillonsBons, NEW p \in puts, ReponsePut(p)
  PROVE  BrouillonsBons' /\ affiche' = affiche /\ ouverture' = ouverture
<1>1. p \in Puts /\ p.charge \in Bonnes /\ Rien \notin Bonnes
  BY ViergeBonne DEF BrouillonsBons, Puts
<1>2. puts' \subseteq Puts
  BY DEF ReponsePut, BrouillonsBons
<1> QED
  BY <1>1, <1>2 DEF ReponsePut, Acquitter, Echouer, BrouillonsBons, Ouvertures

LEMMA PerdrePutBon ==
  ASSUME StatutsBienFormes, BrouillonsBons, NEW p \in puts, PerdrePut(p)
  PROVE  BrouillonsBons' /\ affiche' = affiche /\ ouverture' = ouverture
<1>1. p \in Puts /\ p.charge \in Bonnes /\ Rien \notin Bonnes
  BY ViergeBonne DEF BrouillonsBons, Puts
<1>2. puts' \subseteq Puts
  BY DEF PerdrePut, BrouillonsBons
<1>3. pertes' \in 0..PertesMax
  BY BornesBrouillonAssumption DEF PerdrePut, BrouillonsBons
<1> QED
  BY <1>1, <1>2, <1>3 DEF PerdrePut, Echouer, BrouillonsBons, Ouvertures

LEMMA AutomatiqueBon ==
  ASSUME StatutsBienFormes, BrouillonsBons, Automatique
  PROVE  BrouillonsBons' /\ affiche' = affiche /\ ouverture' = ouverture
BY EnvoyerBon, RecevoirPutBon, ReponsePutBonne, PerdrePutBon DEF Automatique, Minuteur, Masquer

-----------------------------------------------------------------------------
(***************************************************************************)
(* The screen.  The step shown is on the path of the answers shown: the steps  *)
(* that change the answers all choose the next one on the path these answers     *)
(* give.  A date is that of the kind of appointment chosen.                       *)
(***************************************************************************)
EcranTenu ==
  /\ ecran \in Ecrans
  /\ ouverture = 0 => ecran = EcranNeuf
  /\ Mene(affiche, ecran.code, ecran.pas)
  /\ ecran.at # Rien => ecran.at = ecran.code

ConsoleTenue == BrouillonsBons /\ EcranTenu

LEMMA EcranNeufTenu ==
  /\ EcranNeuf \in Ecrans /\ EcranNeuf.at = Rien
  /\ \A r : Mene(r, EcranNeuf.code, EcranNeuf.pas)
BY DEF EcranNeuf, Ecrans, Pas, Mene

(* The path read in the next state. *)
LEMMA MeneEnsuite ==
  ASSUME NEW r, NEW code, NEW pas, Mene(r, code, pas),
         affiche' = r, ecran'.code = code, ecran'.pas = pas
  PROVE  Mene(affiche, ecran.code, ecran.pas)'
<1>1. joignable(affiche)' <=> joignable(r)
  BY DEF joignable
<1>2. statutsDeLaBranche(affiche)' = statutsDeLaBranche(r)
  BY <1>1 DEF statutsDeLaBranche, estAbouti
<1>3. statutChoisi(affiche)' = statutChoisi(r)
  BY <1>2 DEF statutChoisi
<1>4. statutDuSouhait(affiche)' = statutDuSouhait(r)
  BY <1>1, <1>2 DEF statutDuSouhait, ouRien
<1>5. statut(affiche)' = statut(r)
  BY <1>3, <1>4 DEF statut
<1>6. racineRetenue(affiche)' = racineRetenue(r)
  BY <1>2, <1>3, <1>4 DEF racineRetenue, ouRien
<1>7. sousStatutsDe(affiche, racineRetenue(affiche))' = sousStatutsDe(r, racineRetenue(r))
  BY <1>2, <1>6 DEF sousStatutsDe
<1>8. rdvPossible(affiche)' <=> rdvPossible(r)
  BY <1>1, <1>5 DEF rdvPossible
<1>9. dateDemandee(statut(affiche))' <=> dateDemandee(statut(r))
  BY <1>5 DEF dateDemandee
<1> QED
  BY <1>1, <1>7, <1>8, <1>9 DEF Mene

LEMMA EcranSeulTenu ==
  ASSUME ConsoleTenue, ouverture # 0, NEW e \in Ecrans, Mene(affiche, e.code, e.pas),
         e.at # Rien => e.at = e.code, EcranSeul(e)
  PROVE  ConsoleTenue' /\ UNCHANGED <<envois, tentativesRep>>
<1>1. ecran' = e /\ affiche' = affiche /\ ouverture' = ouverture
  BY DEF EcranSeul, varsBrouillon
<1>2. BrouillonsBons'
  BY BrouillonInchange DEF EcranSeul, ConsoleTenue
<1>3. Mene(affiche, ecran.code, ecran.pas)'
  BY <1>1, MeneEnsuite
<1> QED
  BY <1>1, <1>2, <1>3 DEF ConsoleTenue, EcranTenu, EcranSeul, ResteServeur

LEMMA RepondreTenu ==
  ASSUME StatutsBienFormes, ConsoleTenue, ouverture # 0, NEW r \in Bonnes, NEW pas \in Pas,
         Mene(r, ecran.code, pas), RepondreEtAller(r, pas)
  PROVE  ConsoleTenue' /\ UNCHANGED <<envois, tentativesRep>>
<1>1. BrouillonsBons' /\ affiche' = r /\ ouverture' = ouverture
  BY AfficherBon DEF RepondreEtAller, ConsoleTenue
<1>2. ecran' = [ecran EXCEPT !.pas = pas] /\ ecran \in Ecrans
  BY DEF RepondreEtAller, ConsoleTenue, EcranTenu
<1>3. ecran' \in Ecrans /\ ecran'.pas = pas /\ ecran'.code = ecran.code /\ ecran'.at = ecran.at
  BY <1>2 DEF Ecrans
<1>4. ouverture' # 0
  BY <1>1
<1>5. Mene(affiche, ecran.code, ecran.pas)'
  BY <1>1, <1>3, MeneEnsuite
<1> QED
  BY <1>1, <1>3, <1>4, <1>5 DEF ConsoleTenue, EcranTenu, RepondreEtAller, ResteServeur

-----------------------------------------------------------------------------
(***************************************************************************)
(* One lemma per action of the agent that moves the screen.                   *)
(***************************************************************************)
LEMMA LEcran ==
  ASSUME StatutsBienFormes, ConsoleTenue
  PROVE  /\ affiche \in Bonnes /\ affiche \in Reponses /\ ecran \in Ecrans
         /\ Mene(affiche, ecran.code, ecran.pas)
BY DEF ConsoleTenue, BrouillonsBons, EcranTenu, Bonnes

LEMMA OuvrirTenu ==
  ASSUME StatutsBienFormes, ConsoleTenue, Ouvrir
  PROVE  ConsoleTenue' /\ UNCHANGED <<envois, tentativesRep>>
<1>1. PICK o \in Ouvertures : OuvrirFiche(o)
  BY DEF Ouvrir
<1>2. BrouillonsBons'
  BY <1>1, OuvrirBon DEF ConsoleTenue
<1>3. ecran' = ecran /\ ecran = EcranNeuf
  BY <1>1 DEF Ouvrir, OuvrirFiche, ConsoleTenue, EcranTenu
<1>4. Mene(affiche, ecran.code, ecran.pas)'
  <2>1. Mene(affiche', EcranNeuf.code, EcranNeuf.pas)
    BY EcranNeufTenu
  <2> QED
    BY <1>3, <2>1, MeneEnsuite
<1> QED
  BY <1>2, <1>3, <1>4, EcranNeufTenu DEF ConsoleTenue, EcranTenu, Ouvrir, ResteServeur

LEMMA FermerTenu ==
  ASSUME StatutsBienFormes, ConsoleTenue, Fermer, UNCHANGED <<puts, lignes, pertes>>
  PROVE  ConsoleTenue'
<1>1. BrouillonsBons'
  BY DemonterBon DEF Fermer, ConsoleTenue
<1>2. ecran' = EcranNeuf
  BY DEF Fermer
<1>3. Mene(affiche, ecran.code, ecran.pas)'
  <2>1. Mene(affiche', EcranNeuf.code, EcranNeuf.pas)
    BY EcranNeufTenu
  <2> QED
    BY <1>2, <2>1, MeneEnsuite
<1> QED
  BY <1>1, <1>2, <1>3, EcranNeufTenu DEF ConsoleTenue, EcranTenu

LEMMA ReculerTenu ==
  ASSUME StatutsBienFormes, ConsoleTenue, Reculer
  PROVE  ConsoleTenue' /\ UNCHANGED <<envois, tentativesRep>>
<1>1. PICK i \in 1..rang : EcranSeul([ecran EXCEPT !.pas = parcours[i]])
  BY DEF Reculer
<1> DEFINE e == [ecran EXCEPT !.pas = parcours[i]]
<1>2. parcours[i] \in Pas /\ Mene(affiche, ecran.code, parcours[i])
  BY RangSurLeParcours
<1>3. e \in Ecrans /\ e.code = ecran.code /\ e.pas = parcours[i] /\ e.at = ecran.at
  BY <1>2, LEcran DEF Ecrans
<1>4. EcranSeul(e) /\ ouverture # 0
  BY <1>1 DEF Reculer
<1> HIDE DEF e
<1>5. Mene(affiche, e.code, e.pas) /\ (e.at # Rien => e.at = e.code)
  BY <1>2, <1>3 DEF ConsoleTenue, EcranTenu
<1> QED
  BY <1>3, <1>4, <1>5, EcranSeulTenu

LEMMA choisirResultatTenu ==
  ASSUME StatutsBienFormes, ConsoleTenue,
         NEW x \in {"JOIGNABLE", "INJOIGNABLE"}, choisirResultat(x)
  PROVE  ConsoleTenue' /\ UNCHANGED <<envois, tentativesRep>>
<1> DEFINE r == [affiche EXCEPT !.resultat = x, !.statut = Rien]
           q == [r EXCEPT !.ecole = Rien, !.ambassadeur = Rien, !.memeWhatsapp = Rien,
                          !.rappel = Rien]
<1>1. r \in Reponses /\ r.resultat = x /\ r.statut = Rien
  BY LEcran DEF Reponses
<1>2. q \in Reponses /\ q.statut = Rien
  BY <1>1 DEF Reponses, OuiNon
<1>3. ouverture # 0 /\ (IF x = "JOIGNABLE" THEN RepondreEtAller(r, "ecole") ELSE RepondreEtAller(q, "statut"))
  BY DEF choisirResultat, AuPas
<1> HIDE DEF r, q
<1>4. r \in Bonnes /\ q \in Bonnes
  BY <1>1, <1>2, BonneSansStatut
<1>5. "ecole" \in Pas /\ "statut" \in Pas /\ Mene(q, ecran.code, "statut")
  BY DEF Pas, Mene
<1>6. x = "JOIGNABLE" => Mene(r, ecran.code, "ecole")
  BY <1>1 DEF Mene, joignable
<1> QED
  BY <1>3, <1>4, <1>5, <1>6, RepondreTenu

(* An answer the path and the callback do not look at. *)
LEMMA NeutreTenu ==
  ASSUME StatutsBienFormes, ConsoleTenue, ouverture # 0, NEW r \in Reponses,
         Semblables(r, affiche), r.rappel = affiche.rappel,
         NEW pas \in Pas, Mene(affiche, ecran.code, pas), RepondreEtAller(r, pas)
  PROVE  ConsoleTenue' /\ UNCHANGED <<envois, tentativesRep>>
<1>1. r \in Bonnes
  BY LEcran, BonneNeutre
<1>2. Mene(r, ecran.code, pas)
  BY MemeParcours
<1> QED
  BY <1>1, <1>2, RepondreTenu

LEMMA choisirEcoleTenu ==
  ASSUME StatutsBienFormes, ConsoleTenue, NEW oui \in {"oui", "non"}, choisirEcole(oui)
  PROVE  ConsoleTenue' /\ UNCHANGED <<envois, tentativesRep>>
<1> DEFINE r == [affiche EXCEPT !.ecole = oui]
           pas == IF oui = "oui" THEN "contacte" ELSE "ecole"
<1>1. r \in Reponses /\ Semblables(r, affiche) /\ r.rappel = affiche.rappel
  BY LEcran DEF Reponses, OuiNon, Semblables
<1>2. ouverture # 0 /\ ecran.pas = "ecole" /\ RepondreEtAller(r, pas)
  BY DEF choisirEcole, AuPas
<1>3. joignable(affiche)
  BY <1>2, LEcran DEF Mene
<1>4. pas \in Pas /\ Mene(affiche, ecran.code, pas)
  BY <1>3 DEF Pas, Mene
<1> HIDE DEF r, pas
<1> QED
  BY <1>1, <1>2, <1>4, NeutreTenu

LEMMA choisirMemeWhatsappTenu ==
  ASSUME StatutsBienFormes, ConsoleTenue, NEW oui \in {"oui", "non"}, choisirMemeWhatsapp(oui)
  PROVE  ConsoleTenue' /\ UNCHANGED <<envois, tentativesRep>>
<1> DEFINE r == [affiche EXCEPT !.memeWhatsapp = oui]
           pas == IF oui = "oui" THEN "statut" ELSE "whatsapp"
<1>1. r \in Reponses /\ Semblables(r, affiche) /\ r.rappel = affiche.rappel
  BY LEcran DEF Reponses, OuiNon, Semblables
<1>2. ouverture # 0 /\ ecran.pas = "whatsapp" /\ RepondreEtAller(r, pas)
  BY DEF choisirMemeWhatsapp, AuPas
<1>3. Mene(affiche, ecran.code, "whatsapp")
  BY <1>2, LEcran
<1>4. pas \in Pas /\ Mene(affiche, ecran.code, pas)
  BY <1>3 DEF Pas, Mene
<1> HIDE DEF r, pas
<1> QED
  BY <1>1, <1>2, <1>4, NeutreTenu

LEMMA choisirSansSuiteTenu ==
  ASSUME StatutsBienFormes, ConsoleTenue, choisirSansSuite
  PROVE  ConsoleTenue' /\ UNCHANGED <<envois, tentativesRep>>
<1>1. PICK pas \in {"ues", "syndicat"} :
        /\ ouverture # 0 /\ ecran.pas \in {"contacte", "ues"}
        /\ EcranSeul([ecran EXCEPT !.pas = pas])
  BY DEF choisirSansSuite, AuPas
<1> DEFINE e == [ecran EXCEPT !.pas = pas]
<1>2. joignable(affiche)
  BY <1>1, LEcran DEF Mene
<1>3. Mene(affiche, ecran.code, pas) /\ pas \in Pas
  BY <1>2 DEF Mene, Pas
<1>4. e \in Ecrans /\ e.code = ecran.code /\ e.pas = pas /\ e.at = ecran.at
  BY <1>3, LEcran DEF Ecrans
<1>5. EcranSeul(e)
  BY <1>1
<1> HIDE DEF e
<1>6. Mene(affiche, e.code, e.pas) /\ (e.at # Rien => e.at = e.code)
  BY <1>3, <1>4 DEF ConsoleTenue, EcranTenu
<1> QED
  BY <1>1, <1>4, <1>5, <1>6, EcranSeulTenu

LEMMA choisirAmbassadeurTenu ==
  ASSUME StatutsBienFormes, ConsoleTenue, NEW oui \in {"oui", "non"},
         choisirAmbassadeur(oui)
  PROVE  ConsoleTenue' /\ UNCHANGED <<envois, tentativesRep>>
<1> DEFINE whatsapp == IF oui = "oui" THEN affiche.memeWhatsapp ELSE Rien
           r == [affiche EXCEPT !.ambassadeur = oui, !.memeWhatsapp = whatsapp]
           pas == IF oui = "oui" THEN "whatsapp" ELSE "statut"
<1>0. affiche \in Reponses
  BY LEcran
<1>1. ouverture # 0 /\ ecran.pas = "representant" /\ RepondreEtAller(r, pas)
  BY DEF choisirAmbassadeur, AuPas
<1>2. whatsapp \in OuiNon
  BY <1>0 DEF Reponses, OuiNon
<1> HIDE DEF whatsapp
<1>3. r \in Reponses /\ r.resultat = affiche.resultat /\ r.statut = affiche.statut
      /\ r.rappel = affiche.rappel /\ r.ambassadeur = oui
  BY <1>0, <1>2 DEF Reponses, OuiNon
<1> HIDE DEF r
<1>4. r \in Bonnes
  BY <1>3, LEcran, BonneDeLaQuestion
<1>5. joignable(affiche)
  BY <1>1, LEcran DEF Mene
<1>6. joignable(r)
  BY <1>3, <1>5 DEF joignable
<1>7. pas \in Pas /\ Mene(r, ecran.code, pas)
  BY <1>3, <1>6 DEF Pas, Mene
<1> HIDE DEF pas
<1> QED
  BY <1>1, <1>4, <1>7, RepondreTenu

LEMMA RappelInitial ==
  ASSUME StatutsBienFormes, NEW s \in StatutsRep \union {Rien}
  PROVE  /\ rappelInitialDuStatut(s) \in Codes \union {Rien}
         /\ s = Rien => rappelInitialDuStatut(s) = Rien
         /\ s # Rien => rappelInitialDuStatut(s) \in {s.code, Rien}
BY DEF rappelInitialDuStatut, Codes

LEMMA Souhait ==
  ASSUME NEW s, NEW q \in Reponses
  PROVE  (IF souhaitDuStatut(s) = Rien THEN q.ambassadeur ELSE souhaitDuStatut(s)) \in OuiNon
<1>1. q.ambassadeur \in OuiNon
  BY DEF Reponses
<1>2. souhaitDuStatut(s) \in {"oui", "non", Rien}
  BY DEF souhaitDuStatut
<1> QED
  BY <1>1, <1>2 DEF OuiNon

LEMMA choisirStatutTenu ==
  ASSUME StatutsBienFormes, ConsoleTenue, NEW s \in StatutsRep, choisirStatut(s)
  PROVE  ConsoleTenue' /\ UNCHANGED <<envois, tentativesRep>>
<1> DEFINE amb == IF souhaitDuStatut(s) = Rien THEN affiche.ambassadeur ELSE souhaitDuStatut(s)
           rap == rappelInitialDuStatut(s)
           r == [affiche EXCEPT !.statut = s, !.rappel = rap, !.ambassadeur = amb]
           pas == suivantDe("statut", parcoursDe(r, ecran.code))
<1>0. affiche \in Reponses
  BY LEcran
<1>1. ouverture # 0 /\ s \in statutsDeLaBranche(affiche) /\ RepondreEtAller(r, pas)
  BY DEF choisirStatut, AuPas
<1>2. amb \in OuiNon
  BY <1>0, Souhait
<1>3. rap \in Codes \union {Rien} /\ rap \in {s.code, Rien}
  BY RappelInitial DEF StatutsBienFormes
<1>4. pas \in Pas /\ Mene(r, ecran.code, pas)
  BY SuivantSurLeParcours
<1> HIDE DEF amb, rap, pas
<1>5. r \in Reponses /\ r.resultat = affiche.resultat /\ r.statut = s /\ r.rappel = rap
  BY <1>0, <1>2, <1>3 DEF Reponses
<1> HIDE DEF r
<1>6. statutsDeLaBranche(r) = statutsDeLaBranche(affiche)
  BY <1>5, MemeBranche
<1>7. r \in Bonnes
  BY <1>1, <1>3, <1>5, <1>6, BonneDuStatut
<1> QED
  BY <1>1, <1>4, <1>7, RepondreTenu

LEMMA choisirPrecisionTenu ==
  ASSUME StatutsBienFormes, ConsoleTenue, NEW s \in StatutsRep \union {Rien},
         choisirPrecision(s)
  PROVE  ConsoleTenue' /\ UNCHANGED <<envois, tentativesRep>>
<1> DEFINE retenu == IF s = Rien THEN racineRetenue(affiche) ELSE s
           rap == rappelInitialDuStatut(retenu)
           r == [affiche EXCEPT !.statut = retenu, !.rappel = rap]
           pas == suivantDe("precision", parcoursDe(r, ecran.code))
<1>0. affiche \in Reponses
  BY LEcran
<1>1. /\ ouverture # 0 /\ RepondreEtAller(r, pas)
      /\ s \in sousStatutsDe(affiche, racineRetenue(affiche)) \union {Rien}
  BY DEF choisirPrecision, AuPas
<1>2. retenu \in statutsDeLaBranche(affiche) \union {Rien} /\ retenu \in StatutsRep \union {Rien}
  BY <1>1, StatutDesStatuts DEF sousStatutsDe
<1>3. pas \in Pas /\ Mene(r, ecran.code, pas)
  BY SuivantSurLeParcours
<1> HIDE DEF retenu
<1>4. /\ rap \in Codes \union {Rien}
      /\ retenu = Rien => rap = Rien
      /\ retenu # Rien => rap \in {retenu.code, Rien}
  BY <1>2, RappelInitial
<1> HIDE DEF rap, pas
<1>5. r \in Reponses /\ r.resultat = affiche.resultat /\ r.statut = retenu /\ r.rappel = rap
  BY <1>0, <1>2, <1>4 DEF Reponses
<1> HIDE DEF r
<1>6. statutsDeLaBranche(r) = statutsDeLaBranche(affiche)
  BY <1>5, MemeBranche
<1>7. r \in Bonnes
  <2>1. CASE retenu = Rien
    BY <1>5, <2>1, BonneSansStatut
  <2>2. CASE retenu # Rien
    BY <1>2, <1>4, <1>5, <1>6, <2>2, BonneDuStatut
  <2> QED
    BY <2>1, <2>2
<1> QED
  BY <1>1, <1>3, <1>7, RepondreTenu

(* The appointment: the kind chosen leads to its date, and none to the next step. *)
LEMMA choisirRdvTenu ==
  ASSUME StatutsBienFormes, ConsoleTenue, NEW code \in TypesRdv \union {Rien}, choisirRdv(code)
  PROVE  ConsoleTenue' /\ UNCHANGED <<envois, tentativesRep>>
<1> DEFINE suivant == suivantDe("rdv", parcoursDe(affiche, Rien))
           sans == [ecran EXCEPT !.code = Rien, !.at = Rien, !.passe = FALSE]
           change == [ecran EXCEPT !.at = Rien, !.passe = FALSE]
           avec == IF code = ecran.code THEN ecran ELSE change
           aucun == [sans EXCEPT !.pas = suivant]
           pris == [avec EXCEPT !.code = code, !.pas = "rdvDate"]
<1>0. ecran \in Ecrans /\ (ecran.at # Rien => ecran.at = ecran.code)
  BY LEcran DEF ConsoleTenue, EcranTenu
<1>1. ouverture # 0 /\ ecran.pas = "rdv" /\ EcranSeul(IF code = Rien THEN aucun ELSE pris)
  BY DEF choisirRdv, AuPas
<1>2. suivant \in Pas /\ Mene(affiche, Rien, suivant)
  BY SuivantSurLeParcours
<1>3. sans \in Ecrans /\ sans.code = Rien /\ sans.at = Rien
  BY <1>0 DEF Ecrans
<1>4. change \in Ecrans /\ change.at = Rien
  BY <1>0 DEF Ecrans
<1> HIDE DEF suivant, sans, change
<1>5. aucun \in Ecrans /\ aucun.code = Rien /\ aucun.at = Rien /\ aucun.pas = suivant
  BY <1>2, <1>3 DEF Ecrans
<1>6. avec \in Ecrans /\ (avec.at # Rien => avec.at = code)
  BY <1>0, <1>4
<1> HIDE DEF avec
<1>7. pris \in Ecrans /\ pris.code = code /\ pris.at = avec.at /\ pris.pas = "rdvDate"
  BY <1>6 DEF Ecrans, Pas
<1> HIDE DEF aucun, pris
<1>8. CASE code = Rien
  BY <1>1, <1>2, <1>5, <1>8, EcranSeulTenu
<1>9. CASE code # Rien
  <2>1. rdvPossible(affiche)
    BY <1>1, LEcran DEF Mene
  <2>2. Mene(affiche, code, "rdvDate")
    BY <1>9, <2>1 DEF Mene
  <2> QED
    BY <1>1, <1>6, <1>7, <1>9, <2>2, EcranSeulTenu
<1> QED
  BY <1>8, <1>9

(* The step and the kind stay, and the date goes or is of that kind. *)
LEMMA SurPlaceTenu ==
  ASSUME StatutsBienFormes, ConsoleTenue, ouverture # 0, NEW e \in Ecrans, EcranSeul(e),
         e.pas = ecran.pas, e.code = ecran.code, e.at \in {Rien, ecran.code, ecran.at}
  PROVE  ConsoleTenue' /\ UNCHANGED <<envois, tentativesRep>>
<1>1. Mene(affiche, e.code, e.pas)
  BY LEcran
<1>2. e.at # Rien => e.at = e.code
  BY DEF ConsoleTenue, EcranTenu
<1> QED
  BY <1>1, <1>2, EcranSeulTenu

LEMMA daterTenu ==
  ASSUME StatutsBienFormes, ConsoleTenue, dater
  PROVE  ConsoleTenue' /\ UNCHANGED <<envois, tentativesRep>>
<1> DEFINE e == [ecran EXCEPT !.at = ecran.code, !.passe = FALSE]
<1>1. ouverture # 0 /\ EcranSeul(e)
  BY DEF dater, AuPas
<1>2. e \in Ecrans /\ e.pas = ecran.pas /\ e.code = ecran.code /\ e.at = ecran.code
  BY LEcran DEF Ecrans
<1> HIDE DEF e
<1> QED
  BY <1>1, <1>2, SurPlaceTenu

LEMMA remplirRvSiteTenu ==
  ASSUME StatutsBienFormes, ConsoleTenue, NEW complet \in BOOLEAN, remplirRvSite(complet)
  PROVE  ConsoleTenue' /\ UNCHANGED <<envois, tentativesRep>>
<1> DEFINE champs == IF complet THEN ecran.complets \union {ecran.code}
                     ELSE ecran.complets \ {ecran.code}
           e == [ecran EXCEPT !.complets = champs]
<1>0. ecran \in Ecrans
  BY LEcran
<1>1. ouverture # 0 /\ ecran.code \in AvecChamps /\ EcranSeul(e)
  BY DEF remplirRvSite, AuPas
<1>2. champs \in SUBSET AvecChamps
  BY <1>0, <1>1 DEF Ecrans
<1> HIDE DEF champs
<1>3. e \in Ecrans /\ e.pas = ecran.pas /\ e.code = ecran.code /\ e.at = ecran.at
  BY <1>0, <1>2 DEF Ecrans
<1> HIDE DEF e
<1> QED
  BY <1>1, <1>3, SurPlaceTenu

LEMMA HeureTourneTenu ==
  ASSUME StatutsBienFormes, ConsoleTenue, HeureTourne
  PROVE  ConsoleTenue' /\ UNCHANGED <<envois, tentativesRep>>
<1> DEFINE e == [ecran EXCEPT !.passe = TRUE]
<1>1. ouverture # 0 /\ EcranSeul(e)
  BY DEF HeureTourne
<1>2. e \in Ecrans /\ e.pas = ecran.pas /\ e.code = ecran.code /\ e.at = ecran.at
  BY LEcran DEF Ecrans
<1> HIDE DEF e
<1> QED
  BY <1>1, <1>2, SurPlaceTenu

LEMMA DateRelueTenue ==
  ASSUME StatutsBienFormes, ConsoleTenue
  PROVE  /\ DateRelue \in Ecrans /\ DateRelue.pas = ecran.pas /\ DateRelue.code = ecran.code
         /\ DateRelue.at \in {Rien, ecran.at}
<1> DEFINE e == [ecran EXCEPT !.at = Rien, !.passe = FALSE]
<1>1. e \in Ecrans /\ e.pas = ecran.pas /\ e.code = ecran.code /\ e.at = Rien
  BY LEcran DEF Ecrans
<1>2. DateRelue \in {e, ecran}
  BY DEF DateRelue
<1> HIDE DEF e
<1> QED
  BY <1>1, <1>2, LEcran

LEMMA fixerRappelTenu ==
  ASSUME StatutsBienFormes, ConsoleTenue, NEW c \in Codes \union {Rien}, fixerRappel(c)
  PROVE  ConsoleTenue' /\ UNCHANGED <<envois, tentativesRep>>
<1> DEFINE r == [affiche EXCEPT !.rappel = c]
<1>1. /\ ouverture # 0 /\ ecran.pas = "echeance" /\ RepondreEtAller(r, "echeance")
      /\ c \in {statut(affiche).code, Rien}
  BY DEF fixerRappel, AuPas
<1>2. r \in Reponses /\ Semblables(r, affiche) /\ r.rappel = c
  BY LEcran DEF Reponses, Semblables
<1> HIDE DEF r
<1>3. r \in Bonnes
  BY <1>1, <1>2, MemeStatut DEF Bonnes
<1>4. Mene(r, ecran.code, "echeance") /\ "echeance" \in Pas
  BY <1>1, <1>2, LEcran, MemeParcours DEF Pas
<1> QED
  BY <1>1, <1>3, <1>4, RepondreTenu

LEMMA suggererTenu ==
  ASSUME StatutsBienFormes, ConsoleTenue, suggerer
  PROVE  ConsoleTenue' /\ UNCHANGED <<envois, tentativesRep>>
<1> DEFINE r == [affiche EXCEPT !.suggestion = TRUE]
<1>1. ouverture # 0 /\ ecran.pas = "recommande" /\ RepondreEtAller(r, "recommande")
  BY DEF suggerer, AuPas
<1>2. r \in Reponses /\ Semblables(r, affiche) /\ r.rappel = affiche.rappel
  BY LEcran DEF Reponses, Semblables
<1> HIDE DEF r
<1>3. Mene(affiche, ecran.code, "recommande") /\ "recommande" \in Pas
  BY <1>1, LEcran DEF Pas
<1> QED
  BY <1>1, <1>2, <1>3, NeutreTenu

LEMMA commenterTenu ==
  ASSUME StatutsBienFormes, ConsoleTenue, commenter
  PROVE  ConsoleTenue' /\ UNCHANGED <<envois, tentativesRep>>
<1> DEFINE c == ~affiche.commentaire
           r == [affiche EXCEPT !.commentaire = c]
<1>1. ouverture # 0 /\ RepondreEtAller(r, "note")
  BY DEF commenter, AuPas
<1>2. c \in BOOLEAN
  OBVIOUS
<1> HIDE DEF c
<1>3. r \in Reponses /\ Semblables(r, affiche) /\ r.rappel = affiche.rappel
  BY <1>2, LEcran DEF Reponses, Semblables
<1> HIDE DEF r
<1>4. Mene(affiche, ecran.code, "note") /\ "note" \in Pas
  BY DEF Pas, Mene
<1> QED
  BY <1>1, <1>3, <1>4, NeutreTenu

(* To another step of the path, whatever becomes of the date. *)
LEMMA DeplacerTenu ==
  ASSUME StatutsBienFormes, ConsoleTenue, ouverture # 0, NEW depuis \in {ecran, DateRelue},
         NEW pas \in Pas, Mene(affiche, ecran.code, pas), EcranSeul([depuis EXCEPT !.pas = pas])
  PROVE  ConsoleTenue' /\ UNCHANGED <<envois, tentativesRep>>
<1> DEFINE e == [depuis EXCEPT !.pas = pas]
<1>1. depuis \in Ecrans /\ depuis.code = ecran.code /\ depuis.at \in {Rien, ecran.at}
  BY LEcran, DateRelueTenue
<1>2. e \in Ecrans /\ e.pas = pas /\ e.code = ecran.code /\ e.at \in {Rien, ecran.at}
  BY <1>1 DEF Ecrans
<1> HIDE DEF e
<1>3. e.at # Rien => e.at = e.code
  BY <1>2 DEF ConsoleTenue, EcranTenu
<1>4. EcranSeul(e)
  BY DEF e
<1> QED
  BY <1>2, <1>3, <1>4, EcranSeulTenu

LEMMA continuerTenu ==
  ASSUME StatutsBienFormes, ConsoleTenue, continuer
  PROVE  ConsoleTenue' /\ UNCHANGED <<envois, tentativesRep>>
<1> DEFINE pas == suivantDe(ecran.pas, parcours)
<1>1. ouverture # 0 /\ (EcranSeul(DateRelue) \/ EcranSeul([ecran EXCEPT !.pas = pas]))
  BY DEF continuer
<1>2. pas \in Pas /\ Mene(affiche, ecran.code, pas)
  BY SuivantSurLeParcours DEF parcours
<1> HIDE DEF pas
<1>3. CASE EcranSeul(DateRelue)
  BY <1>1, <1>3, DateRelueTenue, SurPlaceTenu
<1>4. CASE EcranSeul([ecran EXCEPT !.pas = pas])
  BY <1>1, <1>2, <1>4, DeplacerTenu
<1> QED
  BY <1>1, <1>3, <1>4

LEMMA passerTenu ==
  ASSUME StatutsBienFormes, ConsoleTenue, passer
  PROVE  ConsoleTenue' /\ UNCHANGED <<envois, tentativesRep>>
<1> DEFINE suggestion == IF ecran.pas = "recommande" THEN FALSE ELSE affiche.suggestion
           r == [affiche EXCEPT !.suggestion = suggestion]
           pas == suivantDe(ecran.pas, parcours)
<1>1. ouverture # 0 /\ RepondreEtAller(r, pas)
  BY DEF passer
<1>2. pas \in Pas /\ Mene(affiche, ecran.code, pas)
  BY SuivantSurLeParcours DEF parcours
<1>3. affiche.suggestion \in BOOLEAN
  BY LEcran DEF Reponses
<1>4. suggestion \in BOOLEAN
  BY <1>3
<1> HIDE DEF suggestion, pas
<1>5. r \in Reponses /\ Semblables(r, affiche) /\ r.rappel = affiche.rappel
  BY <1>4, LEcran DEF Reponses, Semblables
<1> HIDE DEF r
<1> QED
  BY <1>1, <1>2, <1>5, NeutreTenu

-----------------------------------------------------------------------------
(***************************************************************************)
(* The sending.  A step still to be done is on the path, and when none is the  *)
(* call that leaves is the one the properties speak of.                           *)
(***************************************************************************)
LEMMA ManquantSurLeParcours ==
  ASSUME NEW r, NEW code, pasManquant(r) # Rien, pasManquant(r) # "note"
  PROVE  pasManquant(r) \in Pas /\ Mene(r, code, pasManquant(r))
<1>1. \/ pasManquant(r) \in {"reponse", "statut"}
      \/ pasManquant(r) = "representant" /\ joignable(r)
      \/ pasManquant(r) = "echeance" /\ dateDemandee(statut(r))
  BY DEF pasManquant
<1> QED
  BY <1>1 DEF Mene, Pas

LEMMA RienNeManque ==
  ASSUME StatutsBienFormes, NEW r, pasManquant(r) = Rien
  PROVE  statut(r) # Rien /\ (dateDemandee(statut(r)) => r.rappel # Rien)
<1>1. Rien \notin {"reponse", "representant", "statut", "note", "echeance"}
  BY DEF StatutsBienFormes, Pas
<1> QED
  BY <1>1 DEF pasManquant

(* What a call recorded says of itself. *)
AppelJuste(a) ==
  /\ a \in AppelsRep
  /\ QuestionSansDate => a.rappel \in {a.statut.code, Rien}
  /\ a.rappel # Rien <=> dateDemandee(a.statut)
  /\ a.rdv = a.at
  /\ a.rdv # Rien => a.statut.effet \notin {"UNREACHABLE", "WRONG_NUMBER"}

LEMMA ReponseJuste ==
  ASSUME StatutsBienFormes, ConsoleTenue, pasManquant(affiche) = Rien, ~(avecRdv /\ ~rdvComplet)
  PROVE  AppelJuste(reponseDe)
<1> DEFINE s == statut(affiche)
           relation == IF ~joignable(affiche) \/ affiche.ambassadeur = Rien THEN Rien
                       ELSE IF affiche.ambassadeur = "oui" THEN "AMBASSADEUR" ELSE "REFUS"
           rappel == IF dateDemandee(s) THEN affiche.rappel ELSE Rien
           rdv == IF avecRdv THEN ecran.code ELSE Rien
           at == IF avecRdv THEN ecran.at ELSE Rien
<1>1. s \in StatutsRep /\ (dateDemandee(s) => affiche.rappel # Rien)
  BY RienNeManque, StatutDesStatuts
<1>2. /\ affiche.rappel \in Codes \union {Rien}
      /\ QuestionSansDate /\ dateDemandee(s) => affiche.rappel \in {s.code, Rien}
  BY LEcran DEF Bonnes, Reponses
<1>3. /\ rappel \in Codes \union {Rien}
      /\ QuestionSansDate => rappel \in {s.code, Rien}
      /\ rappel # Rien <=> dateDemandee(s)
  BY <1>1, <1>2
<1>4. relation \in {"AMBASSADEUR", "REFUS", Rien}
  OBVIOUS
<1>5. /\ ecran.code \in TypesRdv \union {Rien} /\ ecran.at \in TypesRdv \union {Rien}
      /\ ecran.at # Rien => ecran.at = ecran.code
  BY LEcran DEF Ecrans, ConsoleTenue, EcranTenu
<1>6. avecRdv => ecran.at = ecran.code
  BY <1>5 DEF rdvComplet
<1>7. rdv \in TypesRdv \union {Rien} /\ at \in TypesRdv \union {Rien} /\ rdv = at
  BY <1>5, <1>6
<1>8. avecRdv => s.effet \notin {"UNREACHABLE", "WRONG_NUMBER"}
  <2>1. avecRdv <=> Mene(affiche, ecran.code, "rdvDate")
    BY ParcoursExact DEF avecRdv, parcours
  <2>2. avecRdv => rdvPossible(affiche)
    BY <2>1 DEF Mene
  <2> QED
    BY <2>2 DEF rdvPossible
<1>9. rdv # Rien => s.effet \notin {"UNREACHABLE", "WRONG_NUMBER"}
  BY <1>8
<1>10. reponseDe = [statut |-> s, relation |-> relation, rappel |-> rappel, rdv |-> rdv, at |-> at]
  BY DEF reponseDe
<1> HIDE DEF s, relation, rappel, rdv, at
<1>11. reponseDe \in AppelsRep
  BY <1>1, <1>3, <1>4, <1>7, <1>10 DEF AppelsRep
<1>12. /\ reponseDe.statut = s /\ reponseDe.rappel = rappel /\ reponseDe.rdv = rdv
       /\ reponseDe.at = at
  BY <1>10
<1> QED
  BY <1>3, <1>7, <1>9, <1>11, <1>12 DEF AppelJuste

(* A sending under way carries such a call, and the server has recorded no other. *)
EnvoiJuste(e) == e.etape # "repos" => e.n \in 1..EnvoisMax /\ AppelJuste(e.appel)

Tentatives == [ouverture : Ouvertures, n : 1..EnvoisMax, appel : AppelsRep]

ServeurJuste ==
  /\ envois \in [Ouvertures -> Envois]
  /\ \A o \in Ouvertures : EnvoiJuste(envois[o])
  /\ tentativesRep \subseteq Tentatives
  /\ \A t \in tentativesRep : AppelJuste(t.appel)

IInv == ConsoleTenue /\ ServeurJuste

(* These read in the next state as in this one, for the same values. *)
LEMMA ServeurInchange ==
  ASSUME ServeurJuste, UNCHANGED <<envois, tentativesRep>>
  PROVE  ServeurJuste'
BY DEF ServeurJuste, EnvoiJuste, AppelJuste, QuestionSansDate, dateDemandee, Envois, AppelsRep,
       Tentatives, Ouvertures

LEMMA EnvoisSuite ==
  ASSUME ServeurJuste, NEW o \in Ouvertures, NEW e \in Envois, EnvoiJuste(e),
         envois' = [envois EXCEPT ![o] = e], tentativesRep' = tentativesRep
  PROVE  ServeurJuste'
<1>1. envois' \in [Ouvertures -> Envois]
  BY DEF ServeurJuste
<1>2. \A p \in Ouvertures : EnvoiJuste(envois'[p])
  BY DEF ServeurJuste
<1> QED
  BY <1>1, <1>2
  DEF ServeurJuste, EnvoiJuste, AppelJuste, QuestionSansDate, dateDemandee, Envois, AppelsRep,
      Tentatives, Ouvertures

LEMMA EnvoyerAppelJuste ==
  ASSUME StatutsBienFormes, IInv, ouverture # 0, pasManquant(affiche) = Rien,
         ~(avecRdv /\ ~rdvComplet), EnvoyerAppel
  PROVE  IInv'
<1> DEFINE e == [n |-> envois[ouverture].n + 1, etape |-> "parti", accepte |-> FALSE,
                 appel |-> reponseDe]
<1>1. ouverture \in Ouvertures
  BY BornesBrouillonAssumption DEF IInv, ConsoleTenue, BrouillonsBons, Ouvertures
<1>2. envois[ouverture] \in Envois /\ EnvoisMax \in Nat
  BY <1>1 DEF IInv, ServeurJuste, StatutsBienFormes
<1>3. envois[ouverture].n + 1 \in 1..EnvoisMax
  BY <1>2 DEF EnvoyerAppel, Envois
<1>4. AppelJuste(reponseDe)
  BY ReponseJuste DEF IInv
<1>5. reponseDe \in AppelsRep
  BY <1>4 DEF AppelJuste
<1>6. e \in Envois
  BY <1>2, <1>3, <1>5 DEF Envois
<1>7. EnvoiJuste(e)
  BY <1>3, <1>4 DEF EnvoiJuste
<1>8. envois' = [envois EXCEPT ![ouverture] = e] /\ tentativesRep' = tentativesRep
  BY DEF EnvoyerAppel
<1> HIDE DEF e
<1>9. ServeurJuste'
  BY <1>1, <1>6, <1>7, <1>8, EnvoisSuite DEF IInv
<1>10. /\ ecran' = ecran /\ affiche' = affiche /\ ouverture' = ouverture
       /\ UNCHANGED varsBrouillon
  BY DEF EnvoyerAppel, varsBrouillon
<1>11. Mene(affiche, ecran.code, ecran.pas)'
  BY <1>10, MeneEnsuite DEF IInv, ConsoleTenue, EcranTenu
<1>12. ConsoleTenue'
  BY <1>10, <1>11, BrouillonInchange DEF IInv, ConsoleTenue, EcranTenu
<1> QED
  BY <1>9, <1>12 DEF IInv

LEMMA enregistrerJuste ==
  ASSUME StatutsBienFormes, IInv, enregistrer
  PROVE  IInv'
<1>1. ouverture # 0
  BY DEF enregistrer, AuPas
<1>2. CASE pasManquant(affiche) # Rien
  <2>1. /\ EcranSeul([ecran EXCEPT !.pas = pasManquant(affiche)])
        /\ pasManquant(affiche) # "note"
    BY <1>2 DEF enregistrer
  <2>2. pasManquant(affiche) \in Pas /\ Mene(affiche, ecran.code, pasManquant(affiche))
    BY <1>2, <2>1, ManquantSurLeParcours
  <2>3. ConsoleTenue' /\ UNCHANGED <<envois, tentativesRep>>
    BY <1>1, <2>1, <2>2, DeplacerTenu DEF IInv
  <2> QED
    BY <2>3, ServeurInchange DEF IInv
<1>3. CASE pasManquant(affiche) = Rien /\ avecRdv /\ ~rdvComplet
  <2>1. EcranSeul([DateRelue EXCEPT !.pas = "rdvDate"])
    BY <1>3 DEF enregistrer
  <2>2. "rdvDate" \in Pas /\ Mene(affiche, ecran.code, "rdvDate")
    BY <1>3, ParcoursExact DEF avecRdv, parcours, Pas
  <2>3. ConsoleTenue' /\ UNCHANGED <<envois, tentativesRep>>
    BY <1>1, <2>1, <2>2, DeplacerTenu DEF IInv
  <2> QED
    BY <2>3, ServeurInchange DEF IInv
<1>4. CASE pasManquant(affiche) = Rien /\ ~(avecRdv /\ ~rdvComplet)
  <2>1. EnvoyerAppel
    BY <1>4 DEF enregistrer
  <2> QED
    BY <1>1, <1>4, <2>1, EnvoyerAppelJuste
<1> QED
  BY <1>2, <1>3, <1>4

-----------------------------------------------------------------------------
(***************************************************************************)
(* The agent's other steps, and the network.                                  *)
(***************************************************************************)
LEMMA QuitterTenu ==
  ASSUME StatutsBienFormes, ConsoleTenue, Quitter
  PROVE  ConsoleTenue' /\ UNCHANGED <<envois, tentativesRep>>
BY FermerTenu DEF Quitter, ResteServeur

LEMMA AgentTenu ==
  ASSUME StatutsBienFormes, IInv, Agent
  PROVE  IInv'
<1>0. ConsoleTenue /\ ServeurJuste
  BY DEF IInv
<1>1. CASE enregistrer
  BY <1>1, enregistrerJuste
<1>2. CASE Ouvrir \/ Quitter \/ Reculer \/ choisirSansSuite
  <2>1. ConsoleTenue' /\ UNCHANGED <<envois, tentativesRep>>
    BY <1>0, <1>2, OuvrirTenu, QuitterTenu, ReculerTenu, choisirSansSuiteTenu
  <2> QED
    BY <1>0, <2>1, ServeurInchange DEF IInv
<1>3. CASE \E x \in {"JOIGNABLE", "INJOIGNABLE"} : choisirResultat(x)
  BY <1>0, <1>3, choisirResultatTenu, ServeurInchange DEF IInv
<1>4. CASE \E x \in {"oui", "non"} :
             choisirEcole(x) \/ choisirAmbassadeur(x) \/ choisirMemeWhatsapp(x)
  <2>1. ConsoleTenue' /\ UNCHANGED <<envois, tentativesRep>>
    BY <1>0, <1>4, choisirEcoleTenu, choisirAmbassadeurTenu, choisirMemeWhatsappTenu
  <2> QED
    BY <1>0, <2>1, ServeurInchange DEF IInv
<1>5. CASE \E s \in StatutsRep : choisirStatut(s)
  BY <1>0, <1>5, choisirStatutTenu, ServeurInchange DEF IInv
<1>6. CASE \E s \in StatutsRep \union {Rien} : choisirPrecision(s)
  BY <1>0, <1>6, choisirPrecisionTenu, ServeurInchange DEF IInv
<1>7. CASE \E c \in TypesRdv \union {Rien} : choisirRdv(c)
  BY <1>0, <1>7, choisirRdvTenu, ServeurInchange DEF IInv
<1>8. CASE \E complet \in BOOLEAN : remplirRvSite(complet)
  BY <1>0, <1>8, remplirRvSiteTenu, ServeurInchange DEF IInv
<1>9. CASE \E c \in Codes \union {Rien} : fixerRappel(c)
  BY <1>0, <1>9, fixerRappelTenu, ServeurInchange DEF IInv
<1>10. CASE dater \/ HeureTourne \/ suggerer \/ commenter \/ continuer \/ passer
  <2>1. ConsoleTenue' /\ UNCHANGED <<envois, tentativesRep>>
    BY <1>0, <1>10, daterTenu, HeureTourneTenu, suggererTenu, commenterTenu, continuerTenu,
       passerTenu
  <2> QED
    BY <1>0, <2>1, ServeurInchange DEF IInv
<1> QED
  BY <1>1, <1>2, <1>3, <1>4, <1>5, <1>6, <1>7, <1>8, <1>9, <1>10 DEF Agent

(* What leaves the screen and its answers alone. *)
LEMMA MemeEcran ==
  ASSUME ConsoleTenue, BrouillonsBons', UNCHANGED <<ouverture, affiche, ecran>>
  PROVE  ConsoleTenue'
<1>1. Mene(affiche, ecran.code, ecran.pas)'
  BY MeneEnsuite DEF ConsoleTenue, EcranTenu
<1> QED
  BY <1>1 DEF ConsoleTenue, EcranTenu

LEMMA AutomatiqueTenu ==
  ASSUME StatutsBienFormes, IInv, Automatique, UNCHANGED <<ecran, envois, tentativesRep>>
  PROVE  IInv'
<1>1. BrouillonsBons' /\ affiche' = affiche /\ ouverture' = ouverture
  BY AutomatiqueBon DEF IInv, ConsoleTenue
<1> QED
  BY <1>1, MemeEcran, ServeurInchange DEF IInv

(* The answer of the server to a sending. *)
LEMMA ServirSuite ==
  ASSUME ServeurJuste, NEW o \in Ouvertures, NEW accepte \in BOOLEAN, Servir(o, accepte)
  PROVE  \E e \in Envois : EnvoiJuste(e) /\ envois' = [envois EXCEPT ![o] = e]
<1> DEFINE e == [envois[o] EXCEPT !.etape = "servi", !.accepte = accepte]
<1>1. envois[o] \in Envois /\ envois[o].etape = "parti" /\ EnvoiJuste(envois[o])
  BY DEF ServeurJuste, Servir
<1>2. e \in Envois /\ e.n = envois[o].n /\ e.appel = envois[o].appel
  BY <1>1 DEF Envois
<1>3. EnvoiJuste(e)
  BY <1>1, <1>2 DEF EnvoiJuste
<1>4. envois' = [envois EXCEPT ![o] = e]
  BY DEF Servir, ServeurJuste
<1> QED
  BY <1>2, <1>3, <1>4

LEMMA ReposSuite ==
  ASSUME ServeurJuste, NEW o \in Ouvertures, Repos(o), tentativesRep' = tentativesRep
  PROVE  ServeurJuste'
<1> DEFINE e == [envois[o] EXCEPT !.etape = "repos", !.appel = Rien]
<1>1. envois[o] \in Envois
  BY DEF ServeurJuste
<1>2. e \in Envois /\ e.etape = "repos"
  BY <1>1 DEF Envois
<1>3. EnvoiJuste(e)
  BY <1>2 DEF EnvoiJuste
<1>4. envois' = [envois EXCEPT ![o] = e]
  BY DEF Repos, ServeurJuste
<1> HIDE DEF e
<1> QED
  BY <1>2, <1>3, <1>4, EnvoisSuite

LEMMA ConsignerTenu ==
  ASSUME StatutsBienFormes, IInv, NEW o \in Ouvertures, Consigner(o)
  PROVE  IInv'
<1> DEFINE t == [ouverture |-> o, n |-> envois[o].n, appel |-> envois[o].appel]
           l == [lignes[o] EXCEPT !.fermee = TRUE]
<1>1. /\ ServeurJuste /\ Servir(o, TRUE) /\ tentativesRep' = tentativesRep \union {t}
      /\ lignes' = [lignes EXCEPT ![o].fermee = TRUE]
  BY DEF Consigner, IInv
<1>2. envois[o].etape = "parti" /\ EnvoiJuste(envois[o])
  BY <1>1 DEF Servir, ServeurJuste
<1>3. envois[o].n \in 1..EnvoisMax /\ AppelJuste(envois[o].appel)
  BY <1>2 DEF EnvoiJuste
<1>4. t \in Tentatives /\ t.appel = envois[o].appel
  BY <1>3 DEF Tentatives, AppelJuste
<1> HIDE DEF t
<1>5. PICK e \in Envois : EnvoiJuste(e) /\ envois' = [envois EXCEPT ![o] = e]
  BY <1>1, ServirSuite
<1>6. envois' \in [Ouvertures -> Envois] /\ \A p \in Ouvertures : EnvoiJuste(envois'[p])
  BY <1>1, <1>5 DEF ServeurJuste
<1>7. tentativesRep' \subseteq Tentatives /\ \A u \in tentativesRep' : AppelJuste(u.appel)
  BY <1>1, <1>3, <1>4 DEF ServeurJuste
<1>8. ServeurJuste'
  BY <1>6, <1>7
  DEF ServeurJuste, EnvoiJuste, AppelJuste, QuestionSansDate, dateDemandee, Envois, AppelsRep,
      Tentatives, Ouvertures
<1>9. lignes[o] \in Lignes /\ lignes \in [Ouvertures -> Lignes]
  BY DEF IInv, ConsoleTenue, BrouillonsBons
<1>10. l \in Lignes
  BY <1>9 DEF Lignes
<1>11. lignes' = [lignes EXCEPT ![o] = l]
  BY <1>1, <1>9
<1> HIDE DEF l
<1>12. lignes' \in [Ouvertures -> Lignes]
  BY <1>9, <1>10, <1>11
<1>13. UNCHANGED <<ouverture, affiche, aEcrire, ecrit, arme, enAttente, puts, pertes, ecran>>
  BY <1>1 DEF Servir
<1>14. BrouillonsBons'
  BY <1>12, <1>13 DEF BrouillonsBons, IInv, ConsoleTenue
<1> QED
  BY <1>8, <1>13, <1>14, MemeEcran DEF IInv

LEMMA ReseauTenu ==
  ASSUME StatutsBienFormes, IInv, Reseau
  PROVE  IInv'
<1>1. CASE Automatique /\ UNCHANGED <<ecran, envois, tentativesRep>>
  BY <1>1, AutomatiqueTenu
<1>2. ASSUME NEW o \in Ouvertures, Consigner(o) PROVE IInv'
  BY <1>2, ConsignerTenu
<1>3. ASSUME NEW o \in Ouvertures, Refuser(o) PROVE IInv'
  <2>1. PICK e \in Envois : EnvoiJuste(e) /\ envois' = [envois EXCEPT ![o] = e]
    BY <1>3, ServirSuite DEF Refuser, IInv
  <2>2. ServeurJuste'
    BY <1>3, <2>1, EnvoisSuite DEF Refuser, IInv
  <2>3. UNCHANGED varsBrouillon /\ UNCHANGED <<ouverture, affiche, ecran>>
    BY <1>3 DEF Refuser, Servir, varsBrouillon
  <2> QED
    BY <2>2, <2>3, BrouillonInchange, MemeEcran DEF IInv, ConsoleTenue
<1>4. ASSUME NEW o \in Ouvertures, Reussir(o) PROVE IInv'
  <2>1. ServeurJuste'
    BY <1>4, ReposSuite DEF Reussir, IInv
  <2>2. ConsoleTenue'
    BY <1>4, FermerTenu DEF Reussir, IInv
  <2> QED
    BY <2>1, <2>2 DEF IInv
<1>5. ASSUME NEW o \in Ouvertures, Echec(o) PROVE IInv'
  <2>1. ServeurJuste'
    BY <1>5, ReposSuite DEF Echec, IInv
  <2>2. UNCHANGED varsBrouillon /\ UNCHANGED <<ouverture, affiche, ecran>>
    BY <1>5 DEF Echec, varsBrouillon
  <2> QED
    BY <2>1, <2>2, BrouillonInchange, MemeEcran DEF IInv, ConsoleTenue
<1>6. ASSUME NEW o \in Ouvertures, Perdre(o) PROVE IInv'
  <2>1. ServeurJuste'
    BY <1>6, ReposSuite DEF Perdre, IInv
  <2>2. /\ UNCHANGED <<ouverture, affiche, aEcrire, ecrit, arme, enAttente, puts, lignes, ecran>>
        /\ pertes' \in 0..PertesMax
    BY <1>6, BornesBrouillonAssumption DEF Perdre, IInv, ConsoleTenue, BrouillonsBons
  <2>3. BrouillonsBons'
    BY <2>2 DEF BrouillonsBons, IInv, ConsoleTenue
  <2> QED
    BY <2>1, <2>2, <2>3, MemeEcran DEF IInv
<1> QED
  BY <1>1, <1>2, <1>3, <1>4, <1>5, <1>6 DEF Reseau

-----------------------------------------------------------------------------
(***************************************************************************)
(* The induction.                                                             *)
(***************************************************************************)
LEMMA DebutTenu ==
  ASSUME StatutsBienFormes, InitScript
  PROVE  IInv
<1>1. BrouillonsBons
  BY DebutBon DEF InitScript
<1>2. EcranTenu
  BY EcranNeufTenu DEF InitScript, EcranTenu
<1>3. EnvoiNeuf \in Envois /\ EnvoiNeuf.etape = "repos"
  BY DEF EnvoiNeuf, Envois, StatutsBienFormes
<1>4. \A o \in Ouvertures : EnvoiJuste(envois[o])
  BY <1>3 DEF InitScript, EnvoiJuste
<1>5. envois \in [Ouvertures -> Envois] /\ tentativesRep = {}
  BY <1>3 DEF InitScript
<1>6. ServeurJuste
  BY <1>4, <1>5 DEF ServeurJuste
<1> QED
  BY <1>1, <1>2, <1>6 DEF IInv, ConsoleTenue

LEMMA PasTenu ==
  ASSUME StatutsBienFormes, IInv, [NextScript]_varsScript
  PROVE  IInv'
<1>1. CASE NextScript
  BY <1>1, AgentTenu, ReseauTenu DEF NextScript
<1>2. CASE UNCHANGED varsScript
  <2>1. UNCHANGED varsBrouillon /\ UNCHANGED <<ouverture, affiche, ecran, envois, tentativesRep>>
    BY <1>2 DEF varsScript, varsBrouillon
  <2> QED
    BY <2>1, BrouillonInchange, MemeEcran, ServeurInchange DEF IInv, ConsoleTenue
<1> QED
  BY <1>1, <1>2

LEMMA InvariantTenu ==
  ASSUME StatutsBienFormes
  PROVE  SpecScript => []IInv
<1>1. InitScript => IInv
  BY DebutTenu
<1>2. IInv /\ [NextScript]_varsScript => IInv'
  BY PasTenu
<1> QED
  BY <1>1, <1>2, PTL DEF SpecScript

(* The types of the console of the representatives, for a referential it can follow. *)
THEOREM ScriptTypee ==
  ASSUME StatutsBienFormes
  PROVE  SpecScript => []TypeOKScript
<1>1. IInv => TypeOKScript
  BY BrouillonsTypes
  DEF IInv, ConsoleTenue, EcranTenu, ServeurJuste, Tentatives, TypeOKScript
<1>2. SpecScript => []IInv
  BY InvariantTenu
<1> QED
  BY <1>1, <1>2, PTL

(* The step on screen is on the path of its own answers, so that Retour never leaves  *)
(* the representative from the middle of the call: choisirResultat and the others       *)
(* choose the next step on the path of the answers they have just made.                   *)
THEOREM PasToujoursDansLeParcours ==
  ASSUME StatutsBienFormes
  PROVE  SpecScript => []PasDansLeParcours
<1>1. IInv => PasDansLeParcours
  BY ParcoursExact DEF IInv, ConsoleTenue, EcranTenu, PasDansLeParcours, parcours
<1>2. SpecScript => []IInv
  BY InvariantTenu
<1> QED
  BY <1>1, <1>2, PTL

(* The callback recorded was set for the status recorded, whatever the agent went      *)
(* back on and whichever draft the screen started from (fixerRappel, choisirStatut,      *)
(* lireBrouillonRep).                                                                     *)
THEOREM RappelToujoursDeSonStatut ==
  ASSUME StatutsBienFormes, QuestionSansDate
  PROVE  SpecScript => []RappelDeSonStatut
<1>1. IInv => RappelDeSonStatut
  BY DEF IInv, ServeurJuste, AppelJuste, RappelDeSonStatut
<1>2. SpecScript => []IInv
  BY InvariantTenu
<1> QED
  BY <1>1, <1>2, PTL

(* An appointment recorded is one of a person who answered, at a date chosen for its    *)
(* kind (useRdvRepresentant, apresRdv).                                                  *)
THEOREM RdvToujoursDeLaPersonneJointe ==
  ASSUME StatutsBienFormes
  PROVE  SpecScript => []RdvDeLaPersonneJointe
<1>1. IInv => RdvDeLaPersonneJointe
  BY DEF IInv, ServeurJuste, AppelJuste, RdvDeLaPersonneJointe
<1>2. SpecScript => []IInv
  BY InvariantTenu
<1> QED
  BY <1>1, <1>2, PTL

=============================================================================
