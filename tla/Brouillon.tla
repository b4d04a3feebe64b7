----------------------------- MODULE Brouillon -----------------------------
(***************************************************************************)
(* The draft of a call: what the agent types on an opened fiche is sent to    *)
(* the opening on the server as it goes (useBrouillonAuto), so that it is      *)
(* there at the next call.  The screen, the writes in flight (which the        *)
(* network loses and reorders) and the openings as the server keeps them.      *)
(* The two call consoles extend this module.                                    *)
(***************************************************************************)
EXTENDS Nul, Naturals, FiniteSets

CONSTANTS
  Saisies,       \* what a draft may say
  Vierge,        \* the draft of a screen nobody has typed on
  OuverturesMax, \* bound on the openings of the fiche
  PutsMax,       \* bound on the draft writes the hook sends
  PertesMax      \* bound on the requests or answers the network loses

ASSUME SaisiesAssumption == Vierge \in Saisies /\ Rien \notin Saisies
ASSUME BornesBrouillonAssumption ==
  OuverturesMax \in Nat \ {0} /\ PutsMax \in Nat /\ PertesMax \in Nat

VARIABLES
  ouverture, \* the opening on screen, 0 when the list is
  affiche,   \* the draft the screen shows (serialise)
  aEcrire,   \* the draft to write, if any (aEcrire.current)
  ecrit,     \* the last draft the server acknowledged (ecrit.current)
  arme,      \* one of the two timers runs (repos, plafond)
  enAttente, \* the screen warns that the draft is not saved
  puts,      \* the draft writes in flight
  lignes,    \* "ouvertures_fiche": the rows of the openings made so far
  pertes     \* requests and answers lost so far

varsBrouillon ==
  <<ouverture, affiche, aEcrire, ecrit, arme, enAttente, puts, lignes, pertes>>

Ouvertures == 1..OuverturesMax

(* Types; a running timer always has something to write. *)
BrouillonTypeOK ==
  /\ ouverture \in 0..OuverturesMax
  /\ affiche \in Saisies
  /\ aEcrire \in Saisies \union {Rien}
  /\ ecrit \in Saisies
  /\ arme \in BOOLEAN /\ enAttente \in BOOLEAN
  /\ puts \subseteq [n : 1..PutsMax, ouverture : Ouvertures, charge : Saisies,
                      etat : {"parti", "accepte", "refuse"}]
  /\ lignes \in [Ouvertures -> [draft : Saisies \union {Rien}, fermee : BOOLEAN,
                                creee : BOOLEAN, puts : 0..PutsMax]]
  /\ pertes \in 0..PertesMax
  /\ arme => aEcrire # Rien

LigneVide == [draft |-> Rien, fermee |-> FALSE, creee |-> FALSE, puts |-> 0]

BrouillonInit ==
  /\ ouverture = 0 /\ affiche = Vierge /\ aEcrire = Rien /\ ecrit = Vierge
  /\ arme = FALSE /\ enAttente = FALSE
  /\ puts = {} /\ lignes = [o \in Ouvertures |-> LigneVide] /\ pertes = 0

-----------------------------------------------------------------------------
(* The opening: a new row each time, which starts from the latest draft of the *)
(* same agent on the same fiche, be that opening closed or not.                 *)

NombreOuvertures == Cardinality({o \in Ouvertures : lignes[o].creee})

BrouillonPrecedent ==
  LET ecrites == {o \in Ouvertures : lignes[o].creee /\ lignes[o].draft # Rien}
      derniere == CHOOSE o \in ecrites : \A p \in ecrites : p <= o
  IN IF ecrites = {} THEN Rien ELSE lignes[derniere].draft

(* A draft that does not read back gives an empty form; here, an absent one. *)
LireBrouillon(d) == IF d = Rien THEN Vierge ELSE d

CreerOuverture(o) ==
  /\ o = NombreOuvertures + 1
  /\ lignes' = [lignes EXCEPT ![o] =
       [LigneVide EXCEPT !.draft = BrouillonPrecedent, !.creee = TRUE]]

(* The screen mounts with the draft taken over, which counts as written. *)
Monter(o) ==
  /\ ouverture' = o
  /\ affiche' = LireBrouillon(BrouillonPrecedent) /\ ecrit' = affiche'
  /\ aEcrire' = Rien /\ arme' = FALSE /\ enAttente' = FALSE

OuvrirFiche(o) ==
  ouverture = 0 /\ CreerOuverture(o) /\ Monter(o) /\ UNCHANGED <<puts, pertes>>

(* The row exists, the answer did not come back: the list stays on screen. *)
OuvertureSansReponse(o) ==
  /\ ouverture = 0 /\ pertes < PertesMax /\ pertes' = pertes + 1
  /\ CreerOuverture(o)
  /\ UNCHANGED <<ouverture, affiche, aEcrire, ecrit, arme, enAttente, puts>>

(* The screen goes: the timers are cancelled and what they had to write goes    *)
(* with it.  The writes in flight still reach the server.                        *)
Demonter ==
  /\ ouverture' = 0 /\ affiche' = Vierge /\ ecrit' = Vierge
  /\ aEcrire' = Rien /\ arme' = FALSE /\ enAttente' = FALSE

-----------------------------------------------------------------------------
(* The effect that follows a render showing d.  It runs when the text changes:  *)
(* back to what the server has, there is nothing left to write; otherwise d is   *)
(* to be written and the timers run.  enAttente is left as it was.                *)
Afficher(d) ==
  /\ affiche' = d
  /\ IF d = affiche THEN UNCHANGED <<aEcrire, arme>>
     ELSE IF d = ecrit THEN aEcrire' = Rien /\ arme' = FALSE
     ELSE aEcrire' = d /\ arme' = TRUE
  /\ UNCHANGED <<ouverture, ecrit, enAttente, puts, lignes, pertes>>

Charge(o, d) == [n |-> lignes[o].puts + 1, ouverture |-> o, charge |-> d, etat |-> "parti"]

EnvoyerMinuteurGarde ==
  /\ ouverture # 0 /\ aEcrire # Rien
  /\ lignes[ouverture].puts < PutsMax
  /\ aEcrire' = Rien /\ arme' = arme
  /\ puts' = puts \union {Charge(ouverture, aEcrire)}
  /\ lignes' = [lignes EXCEPT ![ouverture].puts = @ + 1]
  /\ UNCHANGED <<ouverture, affiche, ecrit, enAttente, pertes>>

(* envoyer(): whoever calls it, the timers stop and the draft to write leaves. *)
Envoyer ==
  /\ ouverture # 0 /\ aEcrire # Rien
  /\ lignes[ouverture].puts < PutsMax
  /\ aEcrire' = Rien /\ arme' = FALSE
  /\ puts' = puts \union {Charge(ouverture, aEcrire)}
  /\ lignes' = [lignes EXCEPT ![ouverture].puts = @ + 1]
  /\ UNCHANGED <<ouverture, affiche, ecrit, enAttente, pertes>>

(* One of the two timers fires. *)
Minuteur == arme /\ Envoyer

(* The tab is hidden or the page goes: envoyer() runs without a timer. *)
Masquer == ~arme /\ Envoyer

EcrireSurLigneFermee(o, d) == lignes' = [lignes EXCEPT ![o].draft = d]

(* The server writes the draft of an opening still open, and refuses the others. *)
EcrireSurLigne(o, d) ==
  lignes' = [lignes EXCEPT ![o].draft = IF lignes[o].fermee THEN @ ELSE d]

RecevoirPut(p) ==
  /\ p \in puts /\ p.etat = "parti"
  /\ EcrireSurLigne(p.ouverture, p.charge)
  /\ puts' = (puts \ {p}) \union
       {[p EXCEPT !.etat = IF lignes[p.ouverture].fermee THEN "refuse" ELSE "accepte"]}
  /\ UNCHANGED <<ouverture, affiche, aEcrire, ecrit, arme, enAttente, pertes>>

(* Written: the hook keeps it as acknowledged and takes the warning away. *)
Acquitter(p) ==
  /\ IF p.ouverture = ouverture THEN ecrit' = p.charge /\ enAttente' = FALSE
     ELSE UNCHANGED <<ecrit, enAttente>>
  /\ UNCHANGED aEcrire

(* Not written: it is to be written again unless something newer is, and the    *)
(* screen warns.  No timer is set.                                               *)
Echouer(p) ==
  /\ IF p.ouverture = ouverture
     THEN aEcrire' = (IF aEcrire = Rien THEN p.charge ELSE aEcrire) /\ enAttente' = TRUE
     ELSE UNCHANGED <<aEcrire, enAttente>>
  /\ UNCHANGED ecrit

ReponsePut(p) ==
  /\ p \in puts /\ p.etat # "parti"
  /\ puts' = puts \ {p}
  /\ IF p.etat = "accepte" THEN Acquitter(p) ELSE Echouer(p)
  /\ UNCHANGED <<ouverture, affiche, arme, lignes, pertes>>

(* The request or its answer is lost. *)
PerdrePut(p) ==
  /\ p \in puts /\ pertes < PertesMax /\ pertes' = pertes + 1
  /\ puts' = puts \ {p}
  /\ Echouer(p)
  /\ UNCHANGED <<ouverture, affiche, arme, lignes>>

(* What happens on its own, whatever the screen around it does. *)
Automatique ==
  Minuteur \/ Masquer \/ \E p \in puts : RecevoirPut(p) \/ ReponsePut(p) \/ PerdrePut(p)

=============================================================================
