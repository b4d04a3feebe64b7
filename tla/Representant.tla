---------------------------- MODULE Representant ----------------------------
(***************************************************************************)
(* What the server keeps of a representative: the relation and its journal,  *)
(* the status, the last call.  A call is handled in two steps, the row being   *)
(* read outside the transaction that writes it: the calls of other agents, a    *)
(* replay, the management and a deletion come in between.                        *)
(***************************************************************************)
EXTENDS Nul, Naturals, Sequences

CONSTANTS
  Referentiel,     \* per qualification status, what it poses and wants
  Accepte, Refuse, \* the two statuses the trigger of the database names
  Requetes,        \* the requests the consoles send
  HorlogeMax,      \* bound on the clocks of the consoles
  GestesMax        \* bound on the gestures of the management

Statuts == DOMAIN Referentiel

Relations == {"INCONNU", "CONTACTE", "AMBASSADEUR", "REFUS"}

(* What a status poses: the answers of the attachment, or nothing. *)
Rattachements == {"AMBASSADEUR", "REFUS"}

ASSUME ReferentielAssumption ==
  /\ Referentiel \in [Statuts -> [relation : Rattachements \union {Rien}, rappel : BOOLEAN, reessai : BOOLEAN]]
  /\ {Accepte, Refuse} \subseteq Statuts
  /\ Rien \notin Statuts /\ Rien \notin Relations
ASSUME BornesAssumption == HorlogeMax \in Nat \ {0} /\ GestesMax \in Nat

VARIABLES
  fiche,      \* the row of the representative
  journal,    \* representant_relation_changes
  tentatives, \* rep_call_attempts
  requetes,   \* the calls on their way: what they say, what the handler has read
  geste,      \* the requalification under way
  gestes      \* gestures of the management made so far

vars == <<fiche, journal, tentatives, requetes, geste, gestes>>

Instants == 0..HorlogeMax

Fiches == [relation : Relations, statut : Statuts \union {Rien}, dernierAppel : Instants,
           rappel : {"PROMIS", "AUTOMATIQUE", Rien}, supprimee : BOOLEAN]

Appels == [id : Requetes, statut : Statuts, repondue : Relations \union {Rien}, at : Instants \ {0},
           rappel : BOOLEAN]

EtatsRequete == [etape : {"neuve", "recue", "lue", "faite"}, appel : Appels \union {Rien},
                 relation : Relations, dernierAppel : Instants]

TypeOK ==
  /\ fiche \in Fiches
  /\ journal \in Seq([depuis : Relations, vers : Relations])
  /\ tentatives \subseteq Appels
  /\ requetes \in [Requetes -> EtatsRequete]
  /\ \A r \in Requetes : requetes[r].etape # "neuve" => requetes[r].appel \in Appels
  /\ geste \in [statut : Statuts \union {Rien}, relation : Relations]
  /\ gestes \in 0..GestesMax

-----------------------------------------------------------------------------
(* The relation: which passages are legal, and which one a call asks for.       *)

TransitionsRelation ==
  [INCONNU |-> {"CONTACTE", "AMBASSADEUR", "REFUS"}, CONTACTE |-> {"AMBASSADEUR", "REFUS"},
   AMBASSADEUR |-> {"REFUS"}, REFUS |-> {"AMBASSADEUR"}]

TransitionLegale(de, vers) == de = vers \/ vers \in TransitionsRelation[de]

ContreditRattachement(repondue, posee) ==
  repondue \in Rattachements /\ posee \in Rattachements /\ repondue # posee

(* The answer has the last word; the status fills a silence, unless the passage  *)
(* is refused.                                                                     *)
RelationAPoser(repondue, posee, courante) ==
  IF repondue # Rien THEN repondue
  ELSE IF posee # Rien /\ TransitionLegale(courante, posee) THEN posee
  ELSE Rien

ProchainRappel(rappel, statut) ==
  IF rappel THEN "PROMIS" ELSE IF Referentiel[statut].reessai THEN "AUTOMATIQUE" ELSE Rien

AmbassadeurSansStatut(f) == f

(* representant_ambassadeur_vaut_accepte, on every write of the relation or the  *)
(* status.                                                                         *)
AmbassadeurVautAccepte(f) ==
  CASE f.relation = "AMBASSADEUR" -> [f EXCEPT !.statut = Accepte]
    [] f.relation = "REFUS" /\ f.statut = Rien -> [f EXCEPT !.statut = Refuse]
    [] OTHER -> f

BasculeSansDepart(f, depuis, vers) == vers # Rien /\ vers # depuis /\ ~f.supprimee

(* The start status is guarded in the update itself; a row that does not answer  *)
(* it is left alone, and so is the journal.                                        *)
Bascule(f, depuis, vers) == vers # Rien /\ vers # depuis /\ f.relation = depuis /\ ~f.supprimee

BasculerRelationJournalAveugle(f, depuis, vers) ==
  /\ fiche' = IF Bascule(f, depuis, vers)
              THEN AmbassadeurVautAccepte([f EXCEPT !.relation = vers]) ELSE f
  /\ journal' = IF vers # Rien /\ vers # depuis
                THEN Append(journal, [depuis |-> depuis, vers |-> vers]) ELSE journal

BasculerRelation(f, depuis, vers) ==
  /\ fiche' = IF Bascule(f, depuis, vers)
              THEN AmbassadeurVautAccepte([f EXCEPT !.relation = vers]) ELSE f
  /\ journal' = IF Bascule(f, depuis, vers)
                THEN Append(journal, [depuis |-> depuis, vers |-> vers]) ELSE journal

-----------------------------------------------------------------------------
RequeteNeuve == [etape |-> "neuve", appel |-> Rien, relation |-> "INCONNU", dernierAppel |-> 0]

Init ==
  /\ fiche = [relation |-> "INCONNU", statut |-> Rien, dernierAppel |-> 0, rappel |-> Rien,
              supprimee |-> FALSE]
  /\ journal = <<>> /\ tentatives = {}
  /\ requetes = [r \in Requetes |-> RequeteNeuve]
  /\ geste = [statut |-> Rien, relation |-> "INCONNU"] /\ gestes = 0

(* A console sends a call, under an identifier of its own or the one of a call   *)
(* already sent. *)
EnvoyerRequete(r, appel) ==
  /\ requetes[r].etape = "neuve"
  /\ \/ appel.id = r
     \/ \E s \in Requetes : requetes[s].etape # "neuve" /\ requetes[s].appel = appel
  /\ requetes' = [requetes EXCEPT ![r].etape = "recue", ![r].appel = appel]
  /\ UNCHANGED <<fiche, journal, tentatives, geste, gestes>>

Finir(r) == requetes' = [requetes EXCEPT ![r].etape = "faite"]

DejaEcrite(r) == \E t \in tentatives : t.id = requetes[r].appel.id

(* qualificationStatutCoherent *)
Coherent(a) ==
  /\ Referentiel[a.statut].rappel => a.rappel
  /\ ~ContreditRattachement(a.repondue, Referentiel[a.statut].relation)

(* Known already, representative gone, or incoherent: answered at once. *)
Repondre(r) ==
  /\ requetes[r].etape = "recue"
  /\ DejaEcrite(r) \/ fiche.supprimee \/ ~Coherent(requetes[r].appel)
  /\ Finir(r)
  /\ UNCHANGED <<fiche, journal, tentatives, geste, gestes>>

(* RepresentantAQualifier: the relation and the last call, read once and for all. *)
Lire(r) ==
  /\ requetes[r].etape = "recue" /\ ~DejaEcrite(r)
  /\ ~fiche.supprimee /\ Coherent(requetes[r].appel)
  /\ requetes' = [requetes EXCEPT ![r].etape = "lue", ![r].relation = fiche.relation,
                                  ![r].dernierAppel = fiche.dernierAppel]
  /\ UNCHANGED <<fiche, journal, tentatives, geste, gestes>>

(* MajRepresentantApresAppel: the status always; the last call and its callback   *)
(* unless the row read already had a later one.                                     *)
MajApresAppel(lu) ==
  LET a == lu.appel
      dernier == lu.dernierAppel = 0 \/ a.at >= lu.dernierAppel
  IN AmbassadeurVautAccepte(
       [fiche EXCEPT !.statut = a.statut,
                     !.dernierAppel = IF dernier THEN a.at ELSE @,
                     !.rappel = IF dernier THEN ProchainRappel(a.rappel, a.statut) ELSE @])

EcrireRejouee(r) ==
  LET lu == requetes[r]
      vers == RelationAPoser(lu.appel.repondue, Referentiel[lu.appel.statut].relation, lu.relation)
  IN /\ lu.etape = "lue"
     /\ Finir(r)
     /\ IF vers # Rien /\ ~TransitionLegale(lu.relation, vers)
        THEN UNCHANGED <<fiche, journal, tentatives>>
        ELSE /\ tentatives' = tentatives \union {lu.appel}
             /\ BasculerRelation(MajApresAppel(lu), lu.relation, vers)
     /\ UNCHANGED <<geste, gestes>>

(* The transaction: the attempt, the row, the relation; all of it, or nothing    *)
(* when the attempt is there already or the passage is refused.                    *)
Ecrire(r) ==
  LET lu == requetes[r]
      vers == RelationAPoser(lu.appel.repondue, Referentiel[lu.appel.statut].relation, lu.relation)
  IN /\ lu.etape = "lue"
     /\ Finir(r)
     /\ IF DejaEcrite(r) \/ (vers # Rien /\ ~TransitionLegale(lu.relation, vers))
        THEN UNCHANGED <<fiche, journal, tentatives>>
        ELSE /\ tentatives' = tentatives \union {lu.appel}
             /\ BasculerRelation(MajApresAppel(lu), lu.relation, vers)
     /\ UNCHANGED <<geste, gestes>>

-----------------------------------------------------------------------------
(* The management.  A requalification reads the relation in its transaction but   *)
(* without a lock; it writes a row deleted meanwhile.                               *)
RequalifierLire(s) ==
  /\ geste.statut = Rien /\ gestes < GestesMax /\ ~fiche.supprimee
  /\ geste' = [statut |-> s, relation |-> fiche.relation] /\ gestes' = gestes + 1
  /\ UNCHANGED <<fiche, journal, tentatives, requetes>>

RequalifierEcrire ==
  LET s == geste.statut
      ecrite == AmbassadeurVautAccepte(
        [fiche EXCEPT !.statut = s, !.rappel = ProchainRappel(Referentiel[s].rappel, s)])
  IN /\ s # Rien /\ geste' = [geste EXCEPT !.statut = Rien]
     /\ BasculerRelation(ecrite, geste.relation,
                         RelationAPoser(Rien, Referentiel[s].relation, geste.relation))
     /\ UNCHANGED <<tentatives, requetes, gestes>>

(* PATCH: the guard on rev makes the row read and the row written the same. *)
ModifierRelation(vers) ==
  /\ gestes < GestesMax /\ gestes' = gestes + 1
  /\ ~fiche.supprimee /\ vers \in TransitionsRelation[fiche.relation]
  /\ BasculerRelation(fiche, fiche.relation, vers)
  /\ UNCHANGED <<tentatives, requetes, geste>>

Supprimer ==
  /\ gestes < GestesMax /\ gestes' = gestes + 1
  /\ ~fiche.supprimee /\ fiche' = [fiche EXCEPT !.supprimee = TRUE]
  /\ UNCHANGED <<journal, tentatives, requetes, geste>>

Next ==
  \/ \E r \in Requetes :
       \/ \E a \in Appels : EnvoyerRequete(r, a)
       \/ Repondre(r) \/ Lire(r) \/ Ecrire(r)
  \/ \E s \in Statuts : RequalifierLire(s)
  \/ RequalifierEcrire
  \/ \E vers \in Relations : ModifierRelation(vers)
  \/ Supprimer

Spec == Init /\ [][Next]_vars

(* The relation only takes legal passages, and none once the representative is    *)
(* deleted, though the passage was judged on a row read earlier.                    *)
RelationLegale ==
  [][fiche'.relation # fiche.relation =>
       ~fiche.supprimee /\ fiche'.relation \in TransitionsRelation[fiche.relation]]_vars

(* The journal retells the relation: each passage leaves from where the one       *)
(* before it arrived, and the last one arrives where the relation is.               *)
JournalFidele ==
  LET arrivee(i) == IF i = 0 THEN "INCONNU" ELSE journal[i].vers
  IN /\ \A i \in DOMAIN journal : journal[i].depuis = arrivee(i - 1)
     /\ fiche.relation = arrivee(Len(journal))

(* An ambassador is an accepted one, whichever of the call, the requalification   *)
(* and the file wrote last.                                                          *)
AmbassadeurAccepte == fiche.relation = "AMBASSADEUR" => fiche.statut = Accepte

(* The replay of a call already written changes nothing, though it was read       *)
(* before that call was written.                                                     *)
RejeuSansEffet ==
  [][\A r \in Requetes :
       requetes'[r] # requetes[r] /\ requetes[r].appel \in tentatives => fiche' = fiche]_vars

(* tools/dev/audit-coherence.sql, "représentants : dernier appel désaccordé du      *)
(* statut posé": the status of the row is the one of the latest call.               *)
StatutDuDernierAppel ==
  \A t \in tentatives : (\A u \in tentatives : u.at <= t.at) => fiche.statut = t.statut

=============================================================================
