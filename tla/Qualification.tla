--------------------------- MODULE Qualification ---------------------------
(***************************************************************************)
(* The qualification of a prospect file ("fiche") by telephone, as several  *)
(* HTTP requests execute it over one PostgreSQL database: call attempts      *)
(* (direct or through /sync/push, possibly late, replayed or duplicated),    *)
(* and the gestures of the management that write the same rows.              *)
(*                                                                         *)
(* A request is a transaction: it reads, takes the row locks its statements  *)
(* take, in the order of the code, and its writes become visible at once in  *)
(* the step that commits.  READ COMMITTED: a statement sees what is          *)
(* committed when it starts, and waits for the lock of a row it writes.      *)
(***************************************************************************)
EXTENDS Naturals, FiniteSets

CONSTANTS
  Agents,      \* accounts that call; the management is among them
  Encadrement, \* the accounts that see every fiche (qualificationVoitTout)
  Admin,       \* the ADMIN account that owns the imported fiches
  Fiches,      \* prospects
  Motifs,      \* call_outcome_reasons
  Effet,       \* Effet[m]: "effect" of a reason
  Joint,       \* Joint[m]: "countsAsReached" of a reason
  Tentatives,  \* ids of call attempts, chosen by the console
  Requetes,    \* HTTP requests; each one runs one operation (bound)
  Operations,  \* the operations this instance offers
  Origines,    \* how the fiches of this instance were created
  Rien,        \* SQL NULL: no account, no reason, no attempt
  Tolerance,   \* qualificationToleranceHorloge, in ticks
  HorlogeMax,  \* bound on the server clock
  InstantMax   \* bound on the clocks of the devices

Comptes == Agents \union {Admin}

Effets == {"CLOSE_METHOD", "CLOSE_REFUSED", "CLOSE_WRONG_NUMBER", "CLOSE_LOST",
           "CLOSE_UNREACHABLE", "CLOSE_INTERESTED", "CLOSE_HESITANT",
           "CLOSE_REACHED", "CLOSE_APPOINTMENT", "KEEP_OPEN", "SCHEDULE_CALLBACK"}

Phases == {"PENDING", "METHOD_OBTAINED", "REFUSED", "WRONG_NUMBER", "UNREACHABLE",
           "INTERESTED", "HESITANT", "APPOINTMENT", "REACHED"}

Statuts == {"NOUVEAU", "CONTACTE", "PERDU", "CONVERTI", "VENDU"}

Clos == {"CONVERTI", "VENDU"}

ToutesOperations == {"tentative", "requalifier", "convertir", "vendre", "supprimer",
                     "remettre", "methode", "affecter", "annuler", "retablir"}

ASSUME ComptesAssumption ==
  /\ Encadrement \subseteq Agents
  /\ Admin \notin Agents
  /\ Rien \notin Comptes \union Motifs \union Fiches \union Tentatives
ASSUME MotifsAssumption ==
  /\ Effet \in [Motifs -> Effets]
  /\ Joint \in [Motifs -> BOOLEAN]
ASSUME BornesAssumption ==
  /\ Tolerance \in Nat
  /\ HorlogeMax \in Nat \ {0}
  /\ InstantMax \in Nat \ {0}
ASSUME ChoixAssumption ==
  /\ Operations \subseteq ToutesOperations
  /\ Origines \subseteq {"saisie", "import"}

(***************************************************************************)
(* What an outcome does: qualificationReglesEffet.                          *)
(***************************************************************************)
PhaseDe == [e \in Effets |->
  CASE e = "CLOSE_METHOD"       -> "METHOD_OBTAINED"
    [] e = "CLOSE_REFUSED"      -> "REFUSED"
    [] e = "CLOSE_LOST"         -> "REFUSED"
    [] e = "CLOSE_WRONG_NUMBER" -> "WRONG_NUMBER"
    [] e = "CLOSE_UNREACHABLE"  -> "UNREACHABLE"
    [] e = "CLOSE_INTERESTED"   -> "INTERESTED"
    [] e = "CLOSE_HESITANT"     -> "HESITANT"
    [] e = "CLOSE_REACHED"      -> "REACHED"
    [] e = "CLOSE_APPOINTMENT"  -> "APPOINTMENT"
    [] OTHER                    -> "PENDING"]

Clot(e) == e \notin {"KEEP_OPEN", "SCHEDULE_CALLBACK"}

AccepteRappel(e) == e \in {"CLOSE_APPOINTMENT", "SCHEDULE_CALLBACK"}

VARIABLES
  horloge,                     \* server clock
  appel,                       \* appel[t]: the call as the console recorded it; instant 0: not made yet
  fiche,                       \* rows of "prospects"
  parcours,                    \* rows of "prospect_journeys" for the fiche's own project
  rappel,                      \* rows of "scheduled_callbacks", named by the request that inserts them
  tentative,                   \* rows of "call_attempts": the instant recorded, 0 when there is no row
  assigne,                     \* "lot_export_items": the assignee of the fiche in a running campaign
  tx,                          \* the requests
  verrouFiche, verrouParcours, \* row locks: the request that holds it, or none
  effets,                      \* history: how many times attempt t was applied
  tardives                     \* history: attempts applied when a later call was already on the fiche

base    == <<fiche, parcours, rappel, tentative, assigne>>
verrous == <<verrouFiche, verrouParcours>>
histoire == <<effets, tardives>>
vars == <<horloge, appel, base, tx, verrous, histoire>>

Appels == [agent : Agents \union {Rien}, fiche : Fiches \union {Rien},
           motif : Motifs \union {Rien}, methode : BOOLEAN, instant : 0..InstantMax]

LignesFiche == [projet : {"CHUES", "GRAND_PUBLIC"}, statut : Statuts, phase2 : Phases, methode : BOOLEAN,
                motif : Motifs \union {Rien}, appelAt : Nat,
                appelant : Agents \union {Rien}, titulaire : Comptes, supprimee : BOOLEAN]

LignesParcours == [existe : BOOLEAN, statut : Statuts, phase2 : Phases, methode : BOOLEAN]

EtatsRappel == {"ABSENT", "PENDING", "DONE", "SUPERSEDED", "CANCELLED"}

LignesRappel == [etat : EtatsRappel, agent : Agents \union {Rien}]

Etapes == {"libre", "lu", "campagne", "parcours", "fiche", "deux", "fin"}

Reponses == {"", "applied", "duplicate", "refus", "panne"}

(* A request: what it does, for whom and on what, where it stands, the callback *)
(* rows it has updated and not committed yet (pris), and its answer.           *)
Transactions == [op : ToutesOperations \union {""}, etape : Etapes,
                 fiche : Fiches \union {Rien}, t : Tentatives \union {Rien},
                 motif : Motifs \union {Rien}, agent : Agents \union {Rien},
                 methode : BOOLEAN, instant : Nat, pris : SUBSET Requetes,
                 reponse : Reponses]

(* Type correctness of the tables, the requests and the locks. *)
TypeOK ==
  /\ horloge \in 1..HorlogeMax
  /\ appel \in [Tentatives -> Appels]
  /\ fiche \in [Fiches -> LignesFiche]
  /\ parcours \in [Fiches -> LignesParcours]
  /\ rappel \in [Requetes -> LignesRappel]
  /\ tentative \in [Tentatives -> Nat]
  /\ assigne \in [Fiches -> Agents \union {Rien}]
  /\ tx \in [Requetes -> Transactions]
  /\ verrouFiche \in [Fiches -> SUBSET Requetes]
  /\ verrouParcours \in [Fiches -> SUBSET Requetes]
  /\ effets \in [Tentatives -> Nat]
  /\ tardives \subseteq Tentatives

-----------------------------------------------------------------------------
(***************************************************************************)
(* Initial states.  A fiche typed in by an agent has its journey; a fiche of *)
(* the CHUES import belongs to the ADMIN account that asked for the import,   *)
(* may carry an enrolment method already, and has no journey.                 *)
(***************************************************************************)
FicheNeuve(projet, titulaire, phase2) ==
  [projet |-> projet, statut |-> "NOUVEAU", phase2 |-> phase2, methode |-> phase2 = "METHOD_OBTAINED",
   motif |-> Rien, appelAt |-> 0, appelant |-> Rien, titulaire |-> titulaire,
   supprimee |-> FALSE]

ParcoursNeuf(existe) ==
  [existe |-> existe, statut |-> "NOUVEAU", phase2 |-> "PENDING", methode |-> FALSE]

FichesSaisies == {FicheNeuve("GRAND_PUBLIC", a, "PENDING") : a \in Agents}

FichesImportees == {FicheNeuve("CHUES", Admin, p) : p \in {"PENDING", "METHOD_OBTAINED"}}

AppelVide == [agent |-> Rien, fiche |-> Rien, motif |-> Rien, methode |-> FALSE, instant |-> 0]

RequeteVide ==
  [op |-> "", etape |-> "libre", fiche |-> Rien, t |-> Rien, motif |-> Rien, agent |-> Rien,
   methode |-> FALSE, instant |-> 0, pris |-> {}, reponse |-> ""]

Init ==
  /\ horloge = 1
  /\ appel = [t \in Tentatives |-> AppelVide]
  /\ tx = [r \in Requetes |-> RequeteVide]
  /\ rappel = [r \in Requetes |-> [etat |-> "ABSENT", agent |-> Rien]]
  /\ \E origine \in [Fiches -> Origines] :
       /\ fiche \in {l \in [Fiches -> FichesSaisies \union FichesImportees] :
            \A f \in Fiches : l[f] \in FichesSaisies <=> origine[f] = "saisie"}
       /\ parcours = [f \in Fiches |-> ParcoursNeuf(origine[f] = "saisie")]
  /\ assigne \in [Fiches -> Agents \union {Rien}]
  /\ tentative = [t \in Tentatives |-> 0]
  /\ verrouFiche = [f \in Fiches |-> {}]
  /\ verrouParcours = [f \in Fiches |-> {}]
  /\ effets = [t \in Tentatives |-> 0]
  /\ tardives = {}

-----------------------------------------------------------------------------
(***************************************************************************)
(* Requests and locks.                                                       *)
(***************************************************************************)
Commencer(r, q) ==
  /\ tx[r].etape = "libre"
  /\ q.op \in Operations
  /\ tx' = [tx EXCEPT ![r] = q]

Passer(r, op, de, vers) ==
  /\ tx[r].op = op
  /\ tx[r].etape = de
  /\ tx' = [tx EXCEPT ![r].etape = vers]

PrendreFiche(r) ==
  /\ verrouFiche[tx[r].fiche] = {}
  /\ verrouFiche' = [verrouFiche EXCEPT ![tx[r].fiche] = {r}]

PrendreParcours(r) ==
  /\ verrouParcours[tx[r].fiche] = {}
  /\ verrouParcours' = [verrouParcours EXCEPT ![tx[r].fiche] = {r}]

(* The request answers and its locks go: COMMIT or ROLLBACK. *)
Terminer(r, reponse) ==
  /\ tx' = [tx EXCEPT ![r] = [RequeteVide EXCEPT
       !.op = tx[r].op, !.fiche = tx[r].fiche, !.t = tx[r].t,
       !.etape = "fin", !.reponse = reponse]]
  /\ verrouFiche' = [f \in Fiches |-> verrouFiche[f] \ {r}]
  /\ verrouParcours' = [f \in Fiches |-> verrouParcours[f] \ {r}]

(* Mutant: a refusal that never rolls back keeps its row locks. *)
RefuserSansRendre(r) ==
  /\ tx' = [tx EXCEPT ![r].etape = "fin", ![r].reponse = "refus"]
  /\ UNCHANGED <<horloge, appel, base, verrous, histoire>>

Refuser(r) ==
  /\ Terminer(r, "refus")
  /\ UNCHANGED <<horloge, appel, base, histoire>>

EnAttente(f) == {i \in Requetes : tx[i].fiche = f /\ rappel[i].etat = "PENDING"}

(* Mutant: the unique index of the pending callbacks is gone. *)
SansIndex(f, sauf) == TRUE

(* Unique index: no callback of f is pending, but those given up by the writer. *)
IndexLibre(f, sauf) == EnAttente(f) \subseteq sauf

(* Callback rows of f that a transaction has updated and not committed yet. *)
EnCours(f) == UNION {tx[s].pris : s \in {s \in Requetes : tx[s].fiche = f}}

(* The pending callbacks of the fiche are updated; the commit is still to come. *)
EntamerRappels(r, etape) ==
  /\ EnCours(tx[r].fiche) = {}
  /\ tx' = [tx EXCEPT ![r].etape = etape, ![r].pris = EnAttente(tx[r].fiche)]

(* ProspectAttribue: who may record a call on the fiche. *)
Attribue(a, f) ==
  /\ ~fiche[f].supprimee
  /\ \/ /\ a \in Encadrement \/ fiche[f].titulaire = a
        /\ assigne[f] \in {a, Rien}
     \/ assigne[f] = a
     \/ \E i \in EnAttente(f) : rappel[i].agent = a
     \/ fiche[f].appelant = a

-----------------------------------------------------------------------------
(***************************************************************************)
(* What an outcome writes, from a call or from the management.  regle is the *)
(* effect whose rule applies, effet the effect of the chosen reason.          *)
(***************************************************************************)
(* Mutant: a fiche once closed is never reopened. *)
FicheJamaisRouverte(l, p, regle, effet, methode) ==
  IF ~Clot(regle) THEN l
  ELSE [l EXCEPT !.phase2 = PhaseDe[regle], !.methode = @ \/ methode]

(* Mutant: a call without a method erases the one obtained (no COALESCE). *)
MethodeEffacee(l, p, regle, effet, methode) ==
  IF ~Clot(regle) /\ p.phase2 = "PENDING" THEN l
  ELSE [l EXCEPT !.phase2 = PhaseDe[regle], !.methode = methode]

(* Mutant: MarquerProspectPerdu without its guard on the status. *)
PerduSansGarde(l, p, regle, effet, methode) ==
  [l EXCEPT !.phase2 = PhaseDe[regle], !.methode = @ \/ methode,
            !.statut = IF effet = "CLOSE_LOST" THEN "PERDU" ELSE @]

FicheClassee(l, p, regle, effet, methode) ==
  IF ~Clot(regle) /\ p.phase2 = "PENDING" THEN l
  ELSE [l EXCEPT !.phase2  = PhaseDe[regle],
                 !.methode = @ \/ methode,
                 !.statut  = IF effet = "CLOSE_LOST" /\ @ \notin Clos THEN "PERDU" ELSE @]

(* Mutant: the journey is opened and never classified. *)
ParcoursOublie(p, regle, methode) == [p EXCEPT !.existe = TRUE]

ParcoursClasse(p, regle, methode) ==
  [p EXCEPT !.existe = TRUE, !.phase2 = PhaseDe[regle], !.methode = @ \/ methode]

(* Mutant: the new callback is inserted before the old ones are superseded. *)
RappelsTousSupplantes(r, regle, agent, vus) ==
  [i \in Requetes |->
    IF i \in EnAttente(tx[r].fiche)
    THEN [rappel[i] EXCEPT !.etat = IF AccepteRappel(regle) THEN "SUPERSEDED" ELSE "DONE"]
    ELSE IF i = r /\ AccepteRappel(regle) THEN [etat |-> "SUPERSEDED", agent |-> agent]
    ELSE rappel[i]]

(* Mutant: an outcome that closes the fiche leaves its callbacks pending. *)
RappelsLaisses(r, regle, agent, vus) ==
  [i \in Requetes |->
    IF AccepteRappel(regle) /\ i \in tx[r].pris THEN [rappel[i] EXCEPT !.etat = "SUPERSEDED"]
    ELSE IF AccepteRappel(regle) /\ i = r THEN [etat |-> "PENDING", agent |-> agent]
    ELSE rappel[i]]

(* The callbacks an outcome closes: those pending when the transaction wrote      *)
(* them, and at the second CloreRappels of a closing outcome those restored since, *)
(* unless they are restored later still.                                         *)
RappelsVus(r, regle) ==
  {tx[r].pris} \union (IF Clot(regle) THEN {EnAttente(tx[r].fiche)} ELSE {})

(* SupplanterRappels then InsererRappel (ON CONFLICT DO NOTHING), or CloreRappels. *)
RappelsClasses(r, regle, agent, vus) ==
  LET f == tx[r].fiche
  IN  IF AccepteRappel(regle)
      THEN [i \in Requetes |->
             IF i \in tx[r].pris THEN [rappel[i] EXCEPT !.etat = "SUPERSEDED"]
             ELSE IF i = r /\ IndexLibre(f, tx[r].pris) THEN [etat |-> "PENDING", agent |-> agent]
             ELSE rappel[i]]
      ELSE [i \in Requetes |->
             IF i \in vus THEN [rappel[i] EXCEPT !.etat = "DONE"] ELSE rappel[i]]

PremierAppel(statut) == IF statut = "NOUVEAU" THEN "CONTACTE" ELSE statut

(* Mutant: the last call is the last one received. *)
DernierRecu(l, a, instant) ==
  [l EXCEPT !.statut = PremierAppel(@), !.motif = a.motif, !.appelAt = instant,
            !.appelant = a.agent,
            !.titulaire = IF Joint[a.motif] \/ @ = Admin THEN a.agent ELSE @]

(* Mutant: the fiche goes to its last caller, whoever is calling. *)
TitulairePrecedent(l, a, instant) ==
  [l EXCEPT !.appelAt = instant, !.appelant = a.agent, !.titulaire = l.appelant]

(* MarquerProspectContacte, CorrigerProspectParTentative, PrendreLaFiche. *)
FicheAppelee(l, a, instant) ==
  LET recent == l.appelAt = 0 \/ instant >= l.appelAt
  IN  [l EXCEPT
        !.statut    = PremierAppel(@),
        !.motif     = IF recent THEN a.motif ELSE @,
        !.appelAt   = IF recent THEN instant ELSE @,
        !.appelant  = IF recent THEN a.agent ELSE @,
        !.titulaire = IF l.statut \notin Clos /\ (Joint[a.motif] \/ @ = Admin)
                      THEN a.agent ELSE @]

-----------------------------------------------------------------------------
(***************************************************************************)
(* Call attempts: qualificationConsignerTentative.                           *)
(***************************************************************************)
(* A method on a call that was answered closes the fiche on that method.     *)
RegleDe(a) == IF a.methode THEN "CLOSE_METHOD" ELSE Effet[a.motif]

(* qualificationNormaliserTentative: what the validation lets through. *)
Recevable(a) ==
  /\ Effet[a.motif] = "CLOSE_METHOD" => a.methode
  /\ a.methode => Effet[a.motif] = "CLOSE_METHOD" \/ Joint[a.motif]

(* The console records a call; its id will not change when it is sent again.  *)
Appeler(t, a) ==
  /\ appel[t].instant = 0
  /\ Recevable(a)
  /\ appel' = [appel EXCEPT ![t] = a]
  /\ UNCHANGED <<horloge, base, tx, verrous, histoire>>

(* A device ahead of the server has its instant brought back to now. *)
InstantDuPoste(t) == appel[t].instant  \* mutant: the device is believed

InstantRetenu(t) ==
  IF appel[t].instant > horloge + Tolerance THEN horloge ELSE appel[t].instant

RequeteTentative(t) ==
  [RequeteVide EXCEPT !.op = "tentative", !.etape = "lu", !.fiche = appel[t].fiche,
     !.t = t, !.motif = appel[t].motif, !.agent = appel[t].agent,
     !.methode = appel[t].methode, !.instant = InstantRetenu(t)]

(* First delivery, retry or duplicate: the access is read outside the transaction. *)
AdmettreTentative(r, t) ==
  /\ appel[t].instant > 0
  /\ Attribue(appel[t].agent, appel[t].fiche)
  /\ Commencer(r, RequeteTentative(t))
  /\ UNCHANGED <<horloge, appel, base, verrous, histoire>>

RefuserTentative(r, t) ==
  /\ appel[t].instant > 0
  /\ ~Attribue(appel[t].agent, appel[t].fiche)
  /\ Commencer(r, [RequeteVide EXCEPT !.op = "tentative", !.etape = "fin",
                     !.fiche = appel[t].fiche, !.t = t, !.reponse = "refus"])
  /\ UNCHANGED <<horloge, appel, base, verrous, histoire>>

(* ProspectPourTentative, FOR NO KEY UPDATE. *)
VerrouillerFiche(r) ==
  /\ Passer(r, "tentative", "lu", "fiche")
  /\ ~fiche[tx[r].fiche].supprimee
  /\ PrendreFiche(r)
  /\ UNCHANGED <<horloge, appel, base, verrouParcours, histoire>>

FicheIntrouvable(r) ==
  /\ tx[r].op = "tentative" /\ tx[r].etape = "lu"
  /\ fiche[tx[r].fiche].supprimee
  /\ Refuser(r)

(* OuvrirParcours waits for the journey; then come the checks of PreVol. *)
AuPreVol(r) ==
  /\ tx[r].op = "tentative" /\ tx[r].etape = "fiche"
  /\ verrouParcours[tx[r].fiche] = {}

JamaisConsignee(r) == FALSE  \* mutant: no duplicate check

DejaConsignee(r) == tentative[tx[r].t] # 0

ToujoursConsignable(f) == FALSE  \* mutant: the status is not checked under the lock

Close(f) == fiche[f].statut \in Clos

Rejeu(r) ==
  /\ AuPreVol(r)
  /\ DejaConsignee(r)
  /\ Terminer(r, "duplicate")
  /\ UNCHANGED <<horloge, appel, base, histoire>>

RefuserConvertie(r) ==
  /\ AuPreVol(r)
  /\ ~DejaConsignee(r)
  /\ Close(tx[r].fiche)
  /\ Refuser(r)

EntamerTentative(r) ==
  /\ AuPreVol(r)
  /\ ~DejaConsignee(r)
  /\ ~Close(tx[r].fiche)
  /\ PrendreParcours(r)
  /\ EntamerRappels(r, "deux")
  /\ UNCHANGED <<horloge, appel, base, verrouFiche, histoire>>

ConclureTentative(r) ==
  LET f == tx[r].fiche
      a == appel[tx[r].t]
      regle == RegleDe(a)
      l == FicheAppelee(fiche[f], a, tx[r].instant)
      p == [parcours[f] EXCEPT !.statut = PremierAppel(@)]
  IN  /\ tx[r].op = "tentative" /\ tx[r].etape = "deux"
      /\ fiche' = [fiche EXCEPT ![f] =
           FicheClassee(l, p, regle, Effet[a.motif], a.methode)]
      /\ parcours' = [parcours EXCEPT ![f] = ParcoursClasse(p, regle, a.methode)]
      /\ \E vus \in RappelsVus(r, regle) : rappel' = RappelsClasses(r, regle, a.agent, vus)
      /\ tentative' = [tentative EXCEPT ![tx[r].t] = tx[r].instant]
      /\ effets' = [effets EXCEPT ![tx[r].t] = @ + 1]
      /\ tardives' = IF tx[r].instant < fiche[f].appelAt
                     THEN tardives \union {tx[r].t} ELSE tardives
      /\ Terminer(r, "applied")
      /\ UNCHANGED <<horloge, appel, assigne>>

-----------------------------------------------------------------------------
(***************************************************************************)
(* The gestures of the management and of the sale.                           *)
(***************************************************************************)
Geste(op, f) == [RequeteVide EXCEPT !.op = op, !.etape = "lu", !.fiche = f]

(* The read that precedes each of them, outside the lock (for requalification  *)
(* inside the transaction, and still without a lock): the fiche is alive, and  *)
(* garde holds of it.                                                        *)
Lire(r, q, garde) ==
  /\ ~fiche[q.fiche].supprimee
  /\ garde
  /\ Commencer(r, q)
  /\ UNCHANGED <<horloge, appel, base, verrous, histoire>>

(* qualificationRequalifierProspect.  The promised callback goes to the last    *)
(* caller, to the author of the gesture when there is none.                     *)
LireRequalification(r, f, m, a) ==
  /\ a \in Encadrement
  /\ Lire(r, [Geste("requalifier", f) EXCEPT !.motif = m,
                !.agent = IF fiche[f].appelant = Rien THEN a ELSE fiche[f].appelant],
          fiche[f].statut \notin Clos)

VerrouillerParcours(r) ==
  /\ \/ Passer(r, "requalifier", "lu", "parcours")
     \/ /\ Passer(r, "convertir", "lu", "parcours")
        /\ parcours[tx[r].fiche].statut \notin Clos
  /\ PrendreParcours(r)
  /\ UNCHANGED <<horloge, appel, base, verrouFiche, histoire>>

EntamerRequalification(r) ==
  /\ tx[r].op = "requalifier" /\ tx[r].etape = "parcours"
  /\ PrendreFiche(r)
  /\ EntamerRappels(r, "deux")
  /\ UNCHANGED <<horloge, appel, base, verrouParcours, histoire>>

ConclureRequalification(r) ==
  LET f == tx[r].fiche
      e == Effet[tx[r].motif]
      l == FicheClassee([fiche[f] EXCEPT !.motif = tx[r].motif], parcours[f], e, e, FALSE)
  IN  /\ tx[r].op = "requalifier" /\ tx[r].etape = "deux"
      /\ ~l.supprimee
      /\ l.phase2 = "METHOD_OBTAINED" => l.methode
      /\ fiche' = [fiche EXCEPT ![f] = l]
      /\ parcours' = [parcours EXCEPT ![f] = ParcoursClasse(@, e, FALSE)]
      /\ \E vus \in RappelsVus(r, e) : rappel' = RappelsClasses(r, e, tx[r].agent, vus)
      /\ Terminer(r, "applied")
      /\ UNCHANGED <<horloge, appel, tentative, assigne, histoire>>

(* The fiche went away (EtatRelu), or a CHECK refuses a method never obtained. *)
EchouerRequalification(r) ==
  /\ tx[r].op = "requalifier" /\ tx[r].etape = "deux"
  /\ \/ fiche[tx[r].fiche].supprimee
     \/ /\ Effet[tx[r].motif] = "CLOSE_METHOD"
        /\ ~fiche[tx[r].fiche].methode
  /\ Refuser(r)

(* prospectConvertir: journey, then fiche. *)
LireConversion(r, f) ==
  Lire(r, Geste("convertir", f), parcours[f].existe /\ fiche[f].projet = "GRAND_PUBLIC")

RefuserConversion(r) ==
  /\ tx[r].op = "convertir" /\ tx[r].etape = "lu"
  /\ parcours[tx[r].fiche].statut \in Clos
  /\ Refuser(r)

Convertir(r) ==
  LET f == tx[r].fiche
  IN  /\ tx[r].op = "convertir" /\ tx[r].etape = "parcours"
      /\ verrouFiche[f] = {}
      /\ parcours' = [parcours EXCEPT ![f].statut = "CONVERTI"]
      /\ fiche' = [fiche EXCEPT ![f].statut = IF @ = "VENDU" THEN @ ELSE "CONVERTI"]
      /\ Terminer(r, "applied")
      /\ UNCHANGED <<horloge, appel, rappel, tentative, assigne, histoire>>

(* prospectVendre: fiche, then journey. *)
LireVente(r, f) == Lire(r, Geste("vendre", f), fiche[f].statut = "CONVERTI")

(* The statement writes no row, and locks none, on a fiche sold or deleted since. *)
SansLigneAVendre(f) == fiche[f].statut = "VENDU" \/ fiche[f].supprimee

VerrouillerVente(r) ==
  /\ Passer(r, "vendre", "lu", "fiche")
  /\ IF SansLigneAVendre(tx[r].fiche) THEN UNCHANGED verrouFiche ELSE PrendreFiche(r)
  /\ UNCHANGED <<horloge, appel, base, verrouParcours, histoire>>

Vendre(r) ==
  LET f == tx[r].fiche
  IN  /\ tx[r].op = "vendre" /\ tx[r].etape = "fiche"
      /\ verrouParcours[f] = {}
      /\ parcours' = [parcours EXCEPT ![f].statut = IF parcours[f].existe THEN "VENDU" ELSE @]
      /\ fiche' = [fiche EXCEPT ![f].statut = IF verrouFiche[f] = {r} THEN "VENDU" ELSE @]
      /\ Terminer(r, "applied")
      /\ UNCHANGED <<horloge, appel, rappel, tentative, assigne, histoire>>

(* prospectSupprimer: the fiche, then its pending callbacks. *)
LireSuppression(r, f) == Lire(r, Geste("supprimer", f), TRUE)

EntamerSuppression(r) ==
  /\ tx[r].op = "supprimer" /\ tx[r].etape = "lu"
  /\ IF fiche[tx[r].fiche].supprimee THEN UNCHANGED verrouFiche ELSE PrendreFiche(r)
  /\ EntamerRappels(r, "fiche")
  /\ UNCHANGED <<horloge, appel, base, verrouParcours, histoire>>

Supprimer(r) ==
  /\ tx[r].op = "supprimer" /\ tx[r].etape = "fiche"
  /\ fiche' = [fiche EXCEPT ![tx[r].fiche].supprimee = TRUE]
  /\ rappel' = [i \in Requetes |->
       IF i \in tx[r].pris THEN [rappel[i] EXCEPT !.etat = "CANCELLED"] ELSE rappel[i]]
  /\ Terminer(r, "applied")
  /\ UNCHANGED <<horloge, appel, parcours, tentative, assigne, histoire>>

(* prospectRequalifier ("remettre a traiter"): journey, then fiche; the statements *)
(* check again, under the lock, that neither is converted.                         *)
LireRemise(r, f) ==
  Lire(r, Geste("remettre", f), parcours[f].existe /\ parcours[f].statut \notin Clos)

VerrouillerRemise(r) ==
  /\ Passer(r, "remettre", "lu", "parcours")
  /\ IF parcours[tx[r].fiche].statut \in Clos THEN UNCHANGED verrouParcours ELSE PrendreParcours(r)
  /\ UNCHANGED <<horloge, appel, base, verrouFiche, histoire>>

ToujoursRemise(f) == FALSE  \* mutant: the statement does not check the status again

RemiseRefusee(f) == fiche[f].statut \in Clos

AuTraiter(r) == tx[r].op = "remettre" /\ tx[r].etape = "parcours"

Remettre(r) ==
  LET f == tx[r].fiche
  IN  /\ AuTraiter(r)
      /\ verrouFiche[f] = {}
      /\ ~RemiseRefusee(f)
      /\ fiche' = [fiche EXCEPT ![f].statut = "NOUVEAU", ![f].phase2 = "PENDING", ![f].methode = FALSE]
      /\ parcours' = [parcours EXCEPT ![f] =
           IF verrouParcours[f] = {r} THEN ParcoursNeuf(TRUE) ELSE @]
      /\ Terminer(r, "applied")
      /\ UNCHANGED <<horloge, appel, rappel, tentative, assigne, histoire>>

RefuserRemise(r) ==
  /\ AuTraiter(r)
  /\ RemiseRefusee(tx[r].fiche)
  /\ Refuser(r)

(* prospectModifierMethode: journey, then fiche, unconditionally. *)
LireMethode(r, f, methode) ==
  Lire(r, [Geste("methode", f) EXCEPT !.methode = methode],
       fiche[f].statut \in Clos => methode)

PhaseModifiee(phase, methode) ==
  IF methode THEN "METHOD_OBTAINED" ELSE IF phase = "METHOD_OBTAINED" THEN "REACHED" ELSE phase

VerrouillerMethode(r) ==
  /\ Passer(r, "methode", "lu", "parcours")
  /\ IF parcours[tx[r].fiche].existe THEN PrendreParcours(r) ELSE UNCHANGED verrouParcours
  /\ UNCHANGED <<horloge, appel, base, verrouFiche, histoire>>

ModifierMethode(r) ==
  LET f == tx[r].fiche
      m == tx[r].methode
  IN  /\ tx[r].op = "methode" /\ tx[r].etape = "parcours"
      /\ verrouFiche[f] = {}
      /\ fiche' = [fiche EXCEPT ![f].methode = m, ![f].phase2 = PhaseModifiee(@, m)]
      /\ parcours' = IF verrouParcours[f] = {r}
           THEN [parcours EXCEPT ![f].methode = m, ![f].phase2 = PhaseModifiee(@, m)]
           ELSE parcours
      /\ Terminer(r, "applied")
      /\ UNCHANGED <<horloge, appel, rappel, tentative, assigne, histoire>>

(* campagneAffecterProspect: the running campaigns follow, in transactions of    *)
(* their own; then the holder and the pending callback.                           *)
LireAffectation(r, f, vers) ==
  Lire(r, [Geste("affecter", f) EXCEPT !.agent = vers], fiche[f].statut \notin Clos)

SuivreLaFiche(r) ==
  /\ Passer(r, "affecter", "lu", "campagne")
  /\ assigne' = [assigne EXCEPT ![tx[r].fiche] = IF @ = Rien THEN @ ELSE tx[r].agent]
  /\ UNCHANGED <<horloge, appel, fiche, parcours, rappel, tentative, verrous, histoire>>

Affecter(r) ==
  LET f == tx[r].fiche
  IN  /\ tx[r].op = "affecter" /\ tx[r].etape = "campagne"
      /\ verrouFiche[f] = {} /\ EnCours(f) = {}
      /\ fiche' = [fiche EXCEPT ![f].titulaire = tx[r].agent]
      /\ rappel' = [i \in Requetes |->
           IF i \in EnAttente(f) THEN [rappel[i] EXCEPT !.agent = tx[r].agent] ELSE rappel[i]]
      /\ Terminer(r, "applied")
      /\ UNCHANGED <<horloge, appel, parcours, tentative, assigne, histoire>>

-----------------------------------------------------------------------------
(***************************************************************************)
(* A promised callback is cancelled or restored by its owner, in one         *)
(* statement that takes no lock on the fiche.                                *)
(***************************************************************************)
AnnulerRappel(i) ==
  /\ "annuler" \in Operations
  /\ rappel[i].etat = "PENDING"
  /\ i \notin EnCours(tx[i].fiche)
  /\ rappel' = [rappel EXCEPT ![i].etat = "CANCELLED"]
  /\ UNCHANGED <<horloge, appel, fiche, parcours, tentative, assigne, tx, verrous, histoire>>

(* The unique index refuses a second pending callback; it makes the statement   *)
(* wait while a transaction is giving up the first.                              *)
RetablirRappel(i) ==
  /\ "retablir" \in Operations
  /\ rappel[i].etat = "CANCELLED"
  /\ ~fiche[tx[i].fiche].supprimee
  /\ IndexLibre(tx[i].fiche, {})
  /\ rappel' = [rappel EXCEPT ![i].etat = "PENDING"]
  /\ UNCHANGED <<horloge, appel, fiche, parcours, tentative, assigne, tx, verrous, histoire>>

-----------------------------------------------------------------------------
(***************************************************************************)
(* Failures.  A transaction in flight may be lost (crash, cut connection), in *)
(* which case the client does not know and may send it again; PostgreSQL      *)
(* aborts a transaction caught in a cycle of waits.                           *)
(***************************************************************************)
EnVol(r) == tx[r].etape \notin {"libre", "fin"}

AttendFiche(r) ==
  \/ tx[r].op \in {"tentative", "vendre", "supprimer"} /\ tx[r].etape = "lu"
  \/ tx[r].op \in {"requalifier", "convertir", "remettre", "methode"} /\ tx[r].etape = "parcours"
  \/ tx[r].op = "affecter" /\ tx[r].etape = "campagne"

AttendParcours(r) ==
  \/ tx[r].op \in {"tentative", "vendre"} /\ tx[r].etape = "fiche"
  \/ tx[r].op \in {"requalifier", "convertir", "remettre", "methode"} /\ tx[r].etape = "lu"

Attend(r, s) ==
  \/ AttendFiche(r) /\ s \in verrouFiche[tx[r].fiche]
  \/ AttendParcours(r) /\ s \in verrouParcours[tx[r].fiche]

Interrompre(r) ==
  /\ EnVol(r)
  /\ Terminer(r, "panne")
  /\ UNCHANGED <<horloge, appel, base, histoire>>

Interblocage(r) ==
  /\ EnVol(r)
  /\ \E s \in Requetes : EnVol(s) /\ Attend(r, s) /\ Attend(s, r)
  /\ Interrompre(r)

Avancer ==
  /\ horloge < HorlogeMax
  /\ horloge' = horloge + 1
  /\ UNCHANGED <<appel, base, tx, verrous, histoire>>

Poursuivre(r) ==
  \/ VerrouillerFiche(r) \/ FicheIntrouvable(r) \/ Rejeu(r) \/ RefuserConvertie(r)
  \/ EntamerTentative(r) \/ ConclureTentative(r)
  \/ VerrouillerParcours(r)
  \/ EntamerRequalification(r) \/ ConclureRequalification(r) \/ EchouerRequalification(r)
  \/ RefuserConversion(r) \/ Convertir(r)
  \/ VerrouillerVente(r) \/ Vendre(r)
  \/ EntamerSuppression(r) \/ Supprimer(r)
  \/ VerrouillerRemise(r) \/ Remettre(r) \/ RefuserRemise(r)
  \/ VerrouillerMethode(r) \/ ModifierMethode(r)
  \/ SuivreLaFiche(r) \/ Affecter(r)

Recevoir(r) ==
  \/ \E t \in Tentatives : AdmettreTentative(r, t) \/ RefuserTentative(r, t)
  \/ \E f \in Fiches :
       \/ \E m \in Motifs, a \in Encadrement : LireRequalification(r, f, m, a)
       \/ LireConversion(r, f)
       \/ LireVente(r, f)
       \/ LireSuppression(r, f)
       \/ LireRemise(r, f)
       \/ \E methode \in BOOLEAN : LireMethode(r, f, methode)
       \/ \E vers \in Agents : LireAffectation(r, f, vers)

AppelsPossibles == [agent : Agents, fiche : Fiches, motif : Motifs, methode : BOOLEAN,
                    instant : 1..InstantMax]

Next ==
  \/ Avancer
  \/ \E t \in Tentatives, a \in AppelsPossibles : Appeler(t, a)
  \/ \E r \in Requetes : Recevoir(r) \/ Poursuivre(r) \/ Interrompre(r)
  \/ \E i \in Requetes : AnnulerRappel(i) \/ RetablirRappel(i)

Spec == Init /\ [][Next]_vars
=============================================================================
