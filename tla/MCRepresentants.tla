-------------------------- MODULE MCRepresentants --------------------------
(* A call to a representative, from the script an agent follows to the row the server     *)
(* keeps, and, beside it, the e-mail outbox under two replays that overlap: parts that     *)
(* share no state, each explored on its own.                                                *)
EXTENDS Representant, ScriptRep, Courriels

MCReferentiel ==
  [ACCEPTE |-> [relation |-> "AMBASSADEUR", rappel |-> FALSE, reessai |-> FALSE],
   REFUSE |-> [relation |-> "REFUS", rappel |-> FALSE, reessai |-> FALSE],
   A_RAPPELER |-> [relation |-> Rien, rappel |-> TRUE, reessai |-> FALSE]]

ASSUME MCCourrielsAssumption == CourrielsBienFormes

(* The second request comes after the first, whose date is the earliest, and either  *)
(* is its replay or answers as the web console does; a callback is given to the        *)
(* status that wants one.                                                               *)
BorneRepresentant ==
  /\ requetes'[1].etape = "neuve" => requetes'[2].etape = "neuve"
  /\ \A r \in DOMAIN requetes : requetes'[r].etape # "neuve" =>
       requetes'[r].appel.rappel = Referentiel[requetes'[r].appel.statut].rappel
  /\ requetes'[1].etape # "neuve" => requetes'[1].appel.at = 1
  /\ requetes'[2].etape # "neuve" /\ requetes'[2].appel.id = 2 =>
       requetes'[2].appel.repondue \in {"AMBASSADEUR", "REFUS", Rien}

-----------------------------------------------------------------------------
S(code, effet, parent, relation, rappel, reessai, motif) ==
  [code |-> code, effet |-> effet, parent |-> parent, relation |-> relation,
   rappel |-> rappel, reessai |-> reessai, motif |-> motif]

MCStatuts ==
  {S("ACCEPTE", "REACHED", Rien, "AMBASSADEUR", FALSE, FALSE, FALSE),
   S("REFUSE", "REFUSED", Rien, "REFUS", FALSE, FALSE, FALSE),
   S("RETRAITE", "REFUSED", "REFUSE", Rien, FALSE, FALSE, FALSE),
   S("A_RAPPELER", "SCHEDULE_CALLBACK", Rien, Rien, TRUE, FALSE, FALSE),
   S("FAUX_NUMERO", "WRONG_NUMBER", Rien, Rien, FALSE, FALSE, TRUE),
   S("PAS_DE_REPONSE", "UNREACHABLE", Rien, Rien, FALSE, TRUE, FALSE)}

ASSUME MCStatutsAssumption == StatutsBienFormes /\ QuestionSansDate

EnvoiRepEnCours == \E o \in Ouvertures : envois[o].etape # "repos"

(* "script": every answer of one screen of the script up to one sending, without    *)
(* the draft.                                                                         *)
BorneScript ==
  /\ puts' = {} /\ pertes' = 0 /\ ouverture' \in {0, 1}
  /\ affiche'.memeWhatsapp # "non"
  /\ (affiche'.suggestion => ecran'.code = Rien /\ affiche'.ecole # "non")
  /\ (affiche'.ecole = "non" => ecran'.code = Rien)
  /\ EnvoiRepEnCours => (ecran' = ecran \/ ouverture' = 0)
  /\ tentativesRep # {} => ouverture' = 0

(* "reprise": its draft, a loss, the new try and a second opening, on the answers   *)
(* that tell the statuses apart.                                                      *)
BorneReprise ==
  /\ ecran'.code = Rien
  /\ affiche'.ecole = Rien /\ affiche'.memeWhatsapp = Rien
  /\ ~affiche'.suggestion /\ ~affiche'.commentaire
  /\ affiche'.statut \in
       {s \in MCStatuts : s.code \in {"A_RAPPELER", "PAS_DE_REPONSE"}} \union {Rien}
  /\ EnvoiRepEnCours => (ecran' = ecran \/ ouverture' = 0)
  /\ tentativesRep # {} => envois'[1].n < 2 \/ envois'[2].n = 0
  /\ ouverture' = 2 => lignes'[1].draft # Rien /\ lignes'[2].puts = 0
                          /\ envois'[2].n < 2

-----------------------------------------------------------------------------
(* Answers are lost and senders stop before the mails are seven days old. *)
BorneCourriels == perimes' > 0 => pannes' = 0

-----------------------------------------------------------------------------
VARIABLE exploration

MCInit ==
  /\ Init /\ InitScript /\ InitCourriels
  /\ exploration \in {"representant", "script", "reprise", "courriels"}

MCNext ==
  /\ \/ exploration = "representant" /\ Next /\ BorneRepresentant
        /\ UNCHANGED <<varsScript, varsCourriels>>
     \/ /\ exploration \in {"script", "reprise"} /\ NextScript
        /\ IF exploration = "script" THEN BorneScript ELSE BorneReprise
        /\ UNCHANGED <<vars, varsCourriels>>
     \/ exploration = "courriels" /\ NextCourriels /\ BorneCourriels
        /\ UNCHANGED <<vars, varsScript>>
  /\ UNCHANGED exploration

varsMC == <<vars, varsScript, varsCourriels, exploration>>

MCSpec == MCInit /\ [][MCNext]_varsMC /\ Equite

MCTypeOK == TypeOK /\ TypeOKScript /\ TypeOKCourriels

(* Calls one after the other, each later than the one before, that accept or       *)
(* refuse; no gesture.                                                               *)
EnOrdre ==
  /\ gestes' = 0
  /\ \A r \in DOMAIN requetes : requetes'[r].etape \in {"recue", "lue"} =>
       /\ requetes'[r].appel.statut \in {Accepte, Refuse}
       /\ \A s \in DOMAIN requetes \ {r} : requetes[s].etape \in {"neuve", "faite"}
       /\ \A t \in tentatives : t.at < requetes'[r].appel.at

MCSpecOrdre ==
  MCInit /\ exploration = "representant"
         /\ [][MCNext /\ EnOrdre]_varsMC
=============================================================================
