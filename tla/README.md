# The CRM of Compagnie Prestige Immobilier: specification, model checking, proofs

TLA+ modules of the server (`src/internal`, `src/sql`) and of the screens that keep state
of their own (`src/web`: the two call consoles, the entry of a sale), the TLC configurations that check them on small instances, and proofs
TLAPS checks. Names of
operators and variables follow the source (French); prose is English.

## 1. The system

A Go server over one PostgreSQL database, an HTTP API under `/api/v1`, a React
console. There is no in-memory state that matters: **every request is a
transaction**, and the concurrency of the system is that of several
transactions at READ COMMITTED (`qualificationTx`, `BeginTx` without options),
with row locks, a few advisory locks, unique indexes and CHECK constraints.
The console, on the contrary, keeps a good deal of state: what the agent has
answered so far, a draft saved as it goes, a sending whose answer may not come back.
A second channel, `/sync/push`, replays the same operations in batches from a
console that worked offline: a call may be recorded long after it was made,
twice, or in a different order.

### Components

| component | state | operations | interacts with | hard behaviour |
|---|---|---|---|---|
| **Call attempts** (`qualification.go`, `qualification_sync.go`) | `call_attempts`; writes `prospects`, `prospect_journeys`, `scheduled_callbacks` | consign (direct and pushed), replay, refuse | promised callbacks, campaigns, life of the fiche | late, duplicated, reordered calls; clock of the device; checks before and under the lock |
| **Requalification** (`qualification_requalification.go`) | same rows | requalify a prospect, a representative | calls | stale read, locks in the other order |
| **Promised callbacks** (`qualification_ouvertures.go`) | `scheduled_callbacks` | promise, replace, close, cancel, restore, postpone | calls, deletion, assignment | two-statement replacement under a unique index |
| **Openings and drafts** (`qualification_ouvertures.go`, `use-brouillon-auto.ts`) | `ouvertures_fiche`; the draft to write, the timers | open, save draft, close by the attempt | consoles, calls | draft after closing, same fiche opened twice, writes lost and reordered |
| **Console of prospects** (`console-view.tsx`, `console.ts`) | the step, the choices, the sending | answer, go back, choose, date, record, retry, leave | openings, calls | answers changed on the way, lost answers, an answer that comes when another screen is open |
| **Script of representatives** (`rep-script.tsx`, `rdv-representant.tsx`) | the step, the answers, the appointment | fourteen steps whose path depends on the answers | openings, representatives | path recomputed at each render, a draft reopened |
| Appointments on site (`qualification_rv_site.go`, `prospects_rendez_vous.go`) | `prospects.rv_*` | choose a slot, move, confirm | calls | last place of a slot, paths without the advisory lock |
| **Representatives** (`qualification.go`, `representants.go`) | `representants`, relation journal, `rep_call_attempts` | call, requalify, change the relation, delete | the database's trigger on status | row read before the transaction that writes it |
| **Life of a fiche** (`prospects_conversion.go`, `prospects.go`, `prospects_requalifier.go`, `prospects_methode.go`) | `prospects`, `prospect_journeys` | convert, sell, delete, put back, set or withdraw the method | calls | the same state twice, in two rows, in two lock orders |
| **Campaigns** (`campagnes*.go`) | `lots_export`, `lot_export_items` | draw, add late fiches, change the team, assign a fiche, pause, delete | calls (who may call) | two draws at once; assignment over several transactions |
| Imports (`imports*.go`) | import jobs, rows | analyse, confirm, run by chunks, cancel | prospects, visits | crash between chunks, job started twice |
| **E-mail outbox** (`courriels.go`, `brevo.go`) | `courriels` | send, replay, send by hand, delivery events | all | sending before commit, three tries, overlapping replays |
| Notifications (`notifications*.go`) | `notifications` | push reminders once | callbacks | duplicates |
| **Sales** (`saisie.go`, `configuration.go`) | `ventes`, `ventes_sites`, instalments, payments | enter, correct, archive, restore, pay, set the stock, deposit a workbook | conversion | stock read before the lock, rows written without it |
| **Entry of a sale** (`vente-parcours.tsx`) | the screen, the draft, the sending | go on, go back, choose, send | sales | nine screens that check only themselves, jumps over them |
| Bank (`banque`) | bank files | steps of a file, documents | sales | order of steps |
| Enrolment (`admin_enrolement*.go`) | remote inscriptions | webhook, pull, purge | prospects | lost or reordered webhooks |
| Accounts, sessions, roles (`auth`, `admin_roles.go`, `session.go`) | users, refresh tokens | log in, rotate, revoke, change roles | all | rotation race, last administrator |
| Support, reception desk, analytics, exports, assistant, reference data, live events, other screens | — | reads and single-row writes | — | little concurrency of their own |

### What makes each component correct

- Calls: an attempt counts once; the fiche's last call is the latest one
  whatever the order of arrival; its state is the one this call gives; a device
  whose clock is ahead does not freeze the fiche; nothing is written to a fiche
  converted, sold or deleted.
- Callbacks: at most one pending per fiche; a promise made is never lost; none
  pending on a fiche closed or deleted.
- Life of a fiche: row and journey agree; CONVERTI and VENDU are not undone by
  calls or gestures; an obtained method is only withdrawn by a gesture made to
  withdraw it; two lock orders never block the system for good.
- Appointments: calls never give an hour more visits than its capacity, a visit
  given is counted, and waiting for the lock of the hours always ends.
- Openings: closed by the attempt, and from then on out of reach of the drafts still
  on their way.
- Consoles: a call is recorded once per screen, said recorded only when it is, and what
  is recorded holds together whatever the agent changed on the way.
- Representatives: the relation only takes legal passages, its journal retells them, an
  ambassador is an accepted one.
- Outbox: a mail leaves once unless something failed, never after a bounce, and is
  not forgotten within its seven days.
- Campaigns: a draw never takes a fiche another draw has; no gesture on a team is lost.
- Sales: no more lots sold than a site has; a sale entered or corrected is whole, and
  the path makes no cash sale that is not paid in full.
- Imports: each row of a confirmed job is applied once.
- Sessions: a refresh token serves once; an administrator remains.

The hazards, each at its line, with the properties that watch over them, are in
`PROJECT.json`.

## 2. The modules

| module | role |
|---|---|
| `Qualification` | the fiche and its neighbours under calls, callbacks and gestures: tables, requests, row locks, one action per statement group, failures |
| `QualificationProps` | its properties, its fairness, the refinement mapping onto `Promesse` |
| `Promesse` | abstract specification: a register of promised callbacks |
| `MCQualification` | values of the constants for TLC, symmetry |
| `RvSite` | the hours of the visits on site: calls under the advisory lock, and the operations that ignore it |
| `MCRvSite` | its instance |
| `Brouillon` | an opening and its draft: the hook that saves it, the writes in flight, the rows on the server |
| `Consignation` | extends it: the console of prospects, step by step, its sending, the answers of the server |
| `ScriptRep` | extends it: the script of a call to a representative |
| `Campagnes` | the campaigns under draws, late entries, gestures on the team, assignments |
| `Ventes` | the stock of a site under sales at once |
| `VenteParcours` | the screens that enter or correct a sale, and what the server asks of it |
| `Representant` | the row of a representative under calls and the management |
| `Courriels` | the e-mail outbox |
| `Nul` | NULL, the one constant several parts share |
| `MCConsoles` | instance of `Consignation`, `Campagnes`, `Ventes` and `VenteParcours` |
| `MCRepresentants` | instance of `ScriptRep`, `Representant` and `Courriels` |
| `QualificationProofs`, `RvSiteProofs`, `RepresentantProofs`, `ConsignationProofs`, `ScriptRepProofs`, `VentesProofs`, `CourrielsProofs`, `CampagnesProofs` | theorems and their proofs |

Parts that are checked in one run are brought together by `EXTENDS`, so that a run checks
the very definitions the theorems are about. What would clash bears the name of its part:
`InitVentes`, `NextParcours`, `SpecCourriels`, `TypeOKScript`.

### How `Qualification` corresponds to the code

**Tables.** `fiche[f]` is the row of `prospects` (status, phase, method
present, last reason, last call and its author, holder, deleted),
`parcours[f]` the row of `prospect_journeys` for the fiche's own project,
`rappel[r]` the row of `scheduled_callbacks` that request `r` inserted,
`tentative[t]` the row of `call_attempts` (its instant; 0 when there is none),
`assigne[f]` the assignee in a running campaign.
`appel[t]` is the call on the console: made once, sent as often as one wants.

**Requests.** `tx[r]` is an HTTP request, from its reception to its answer.
Reads that precede the transaction (`prospectModifiable`,
`ProspectAttribue`, `ProspectPourRequalification`, which takes no lock though it
is inside) are the step of reception (`AdmettreTentative`, `Lire...`). Each
statement that takes a row lock is a step that waits for it; the statements
after the last lock, and the commit, are one step, since nobody sees them before
the commit and nobody can change what they read, with two exceptions the model
keeps:

- *callbacks*: the statement that closes them takes their row locks, not the
  fiche's. `EntamerRappels` fixes the rows it takes (`pris`), the commit comes
  in a later step, and a cancellation or a restoration may slip in between,
  where PostgreSQL lets it: not on a row taken, and a restoration not against
  the unique index. A closing outcome closes callbacks with a second statement too
  (`qualificationCloreRappels`): `RappelsVus` lets it see, or not, what was
  restored in between;
- *campaigns*: `campagneAffecterProspect` moves the campaigns in transactions
  of their own before the holder (`SuivreLaFiche`, then `Affecter`).

**Locks.** `verrouFiche`, `verrouParcours`: the request holding each row, if
any. Attempts, sale and deletion lock the fiche first; requalification,
conversion, return to the queue and method lock the journey first.
An `UPDATE ... WHERE` that matches no row takes no lock (`VerrouillerVente`,
`VerrouillerRemise`, `VerrouillerMethode`, `EntamerSuppression`).

**Outcome of a call.** `RegleDe` (a method given on an answered call closes on
`CLOSE_METHOD`), `FicheAppelee` (MarquerProspectContacte,
CorrigerProspectParTentative, PrendreLaFiche), `FicheClassee` (CloreProspect...,
RouvrirProspect..., MarquerProspectPerdu), `ParcoursClasse`, `RappelsClasses`
(SupplanterRappels and InsererRappel, or CloreRappels).

**Failures.** `Interrompre`: a request in flight is lost with everything it has
not committed, and the client, who does not know, may send again.
`Interblocage` is the same abort, when PostgreSQL finds a cycle of waits.

### How `RvSite` corresponds to the code

An appointment is no row of its own: `rv[f]` holds the columns of `prospects` it
is made of (in APPOINTMENT, reason RV_SITE, confirmation, presence noted,
postponed date, last call, deleted) and `quand`, the date of its callback.
`Occupe` is the `WHERE` of `RvSiteChoixValide`, `Reserves(h)` the fiches it counts.

A call (`tx[r]`) that takes a visit takes the advisory lock
(`VerrouillerCreneaux`), counts (`AccorderPlace`, `RefuserPlace`), waits for the
row of the fiche (`VerrouillerFiche`) and writes (`ConclureVisite`); the lock goes
with the transaction (`Liberer`). Any other outcome skips the first two steps
(`ConclureAutre`). `Abandonner` is a refusal of PreVol, which `Qualification`
details, a replay recognised there, or a transaction lost. A call older than the
last one leaves the reason as it is and writes the rest (`Conclue`).

The other writers (`Requalifier`, `Confirmer`, `NoterPresence`, `Reporter`,
`OublierPresence`, `Supprimer`) are one transaction each and never look at the
hours. They would wait for the row lock, which their guard says. The return to
the queue and the method gesture take a fiche out of APPOINTMENT as `ConclureAutre`
does, and are not repeated; a callback of a fiche in APPOINTMENT cannot be snoozed.

Two history variables serve the properties: `forcees`, the hours one of these
writers, or a call that was not checked, has put somebody at; `accordee[f]`, the hour
granted by the latest write of the fiche, if that is what it did.

### How `Brouillon`, `Consignation` and `ScriptRep` correspond to the code

`Brouillon` is `useBrouillonAuto` and what it talks to. `aEcrire` and `ecrit` are its
two refs, `arme` says that one of its two timers runs (which of them fires does not
matter), `puts` the `PUT` on their way, each in one of three stages: not arrived,
written or refused. `lignes` is `ouvertures_fiche`. The two timers are the action
`Minuteur`, the hidden page `Masquer`. An error puts the draft back (`Echouer`) unless
something newer is waiting, and starts no timer: as in the code.

A console shows **one screen at a time** (`ouverture`, 0 for the list) but answers to
the sending of an earlier screen still come in (`envois[o]`, one per opening).
`Consignation` keeps in `ecran` the `useState`s of `ConsignationPasAPas`, in `affiche` the
part of them the draft saves, and derives the rest as the code does at each render:
`parcoursDe`, `PasCourant` (`pasAffiche`), `statutsDuGroupe`, `SansNote`. Each key of the
agent is an action with the guard of the control it presses. The sending is three
requests, each awaited (`etape` "brouillon", "bant", "push"); the server answers each in
a step of its own (`ServirBrouillon`, `ServirAppel`), the answer arrives in another, or
is lost (`PerdreEnvoi`). `Annoncer` is `onSuccess`, which closes **whatever screen is open**.
A dossier is "simple", with a method, or one the form refuses; the fields behind do
not matter here.

`ScriptRep` is the same for `rep-script.tsx`. Its path is longer and depends on six
answers; a status may be posed by the answer to the question rather than chosen
(`statutDuSouhait`). A callback is represented by the status it was set for, an
appointment's date by the kind it was set for: what the properties ask is whether
these still match when the call is sent. Unlike the other console it draws a new
identifier for each sending.

The two consoles share the code of `Brouillon` and no state, hence two modules that extend
it and two runs.

### How `Representant`, `Courriels` and `Campagnes` correspond to the code

`Representant`: `Lire` is `RepresentantAQualifier` (relation and last call, outside the
transaction), `Ecrire` the transaction: the attempt, the row, the relation guarded by the
one read (`Bascule`), the journal. Each write passes by the trigger (`AmbassadeurVautAccepte`),
once for the row and once for the relation, as the two `UPDATE`s do. The requalification
reads in its transaction without a lock, so its two halves are two steps; the change
made on the file has an optimistic guard on `rev`, so it is one.

`Courriels`: a sender (the creation, each replay, the hand) takes a mail, asks Brevo
(`Expedier`: taken, taken but the answer lost, refused), then writes the row. The replay
and the hand hold the row's lock meanwhile (`Verrouillee`, `FOR UPDATE SKIP LOCKED`), which
the event of a delivery waits for; the creation has no row yet. `Interrompre` is a crash or
a commit that fails, at any of these points. The list of a replay (`CourrielsARejouer`) keeps the
mails of the last seven days: `Vieillir` says that a mail, and those before it, are older. The row
read again under its lock (`Reserver`) has no such condition, so a mail that ages once listed still
leaves.

`Campagnes`: the draw holds the advisory lock from the selection of fiches to the commit
(`Tirer`, `EcrireCampagne`); a late entry reads without it and writes with it
(`RangerLire`, `RangerEcrire`, which leaves out a fiche distributed meanwhile); a gesture
on the team locks the campaign, reads the team again and writes (`GesteEquipe`,
`EcrireGeste`); an assignment is four transactions (`AjouterFiche`, `ListerLots`,
`SuivreLaFiche` for each campaign, `ChangerTitulaire`). How a draw shares fiches out is
any sharing.

### How `Ventes` and `VenteParcours` correspond to the code

`Ventes`: a request (`requetes[r]`) goes through the locks in the code's order. A correction,
a restoration and an archive wait for the row of the sale (`VerrouillerVente`, where
`total`, the stock of the site, is read); a new sale has none and reads the stock outside
its transaction (`Creer`). All but the archive then take the advisory lock of the numbering
and count under it (`AccorderLots`, `RefuserLots`), and write (`EnregistrerVente`). The
archive and the setting of the stock (`ModifierSite`) take no advisory lock; the workbook
(`RemplacerClasseur`) takes it and looks at no stock. `permis` is a history variable: what
the stock or a workbook has allowed at most.

`VenteParcours` keeps in `saisie` the `useState`s of `Parcours`, one action per control.
`manqueParcours` is what a screen checks when one goes on from it, `Preparable` and
`Recevable` what the server checks of the whole, and the two differ: the server does not
ask that a cash sale be paid in full, or that the number be legible. The sale leaves once
per opening of the path (`depots`), and its answer may find another one on screen
(`Reussir`), or the agent gone back (`EchouerSaisie`). A correction starts from the row as it is
(`brouillonDe`), with today's date if it had none. Nothing is supposed of the sales entered before
(`Panneau`): the migration that brought the mode of payment (`20260918170000_ventes_paiement.sql`)
made them all cash sales, whatever had been paid. The mark of a sale settled by hand
(`marquerSoldee`) is left out: no check of a screen reads it, a change of mode clears it, and the server
refuses it to a credit only. A price, an advance, a number of instalments
are what the rules compare: nothing, zero, the price.

## 3. The runs

Bounds, the same idea everywhere: the rules concern one fiche, its journey and its
callbacks, and no operation modelled touches two fiches; so **one fiche**, two
attempts, two or three requests, and instants 1 to 2 or 3 with a server clock
that moves: enough for "earlier, same time, later, ahead of the server".
The hours are what relates fiches: `RvSite` has two fiches, two hours of
capacity one (the boundary is one fiche away from empty), two calls and one write of
the management (`GestesMax`), and a presence forgotten, anywhere among them. The proofs of section 4 hold for
any number of each.

| run | question | instance | result |
|---|---|---|---|
| `Tentatives` | do calls in every order, repeated, lost, interrupted, leave fiche, queue and attempts in agreement? | two calls, several requests, cancelled callbacks, clock ahead | holds, about 350 000 states |
| `Gestes` | a call against two gestures of the management, callbacks cancelled and restored | every gesture | holds, about 516 000 states |
| `Equite` | is every request begun answered, despite opposite lock orders? | attempts, requalification, conversion and the other gestures on captured and imported fiches, fair | holds, about 44 000 states |
| `RvSite` | can calls overfill an hour, lose a visit given, or wait for ever? | two fiches, two hours of one visit, two calls, a write of any other operation (and a presence forgotten), fair | holds, about 162 000 states |
| `Consoles` | is what a console records consistent, once, and said only when true? do draws and gestures on a team exclude each other? are sales whole, and within the stock? | five explorations, below | holds, about 358 000 states |
| `Representants` | does what the script records hold together? is a representative's relation right though read before it is written? does each mail leave once, and at last? | four explorations, fair | holds, about 362 000 states |
| `StatutEnRetard` | does the state of the fiche follow its last call? | two calls | **violated** |
| `RejeuRefuse` | is a retry of a recorded attempt always accepted? | a call, a reassignment | **violated** |
| `RequalificationConvertie` | is a converted fiche never requalified? | requalify, convert | **violated** |
| `RappelFicheSupprimee` | no callback pending on a deleted fiche? | delete, cancel, restore | **violated** |
| `RejeuDeduplique` | is a recorded call recognised when its screen sends it again? | a lost answer | **violated** |
| `StatutDuDernierAppel` | has a representative the status of the last call? | calls in order, one after the other | **violated** |

`Consoles` and `Representants` put side by side parts that share no state, and explore one at
a time: `exploration`, chosen in the initial state, says which moves and within which
bounds (`Borne...`, in the MC modules, are constraints on the next state). In `Consoles`:

- *choix*: the console of prospects, every outcome of a catalogue with one of each kind
  (unreachable with and without a comment, interested, with a precision, refusal, callback,
  appointment, visit on site), every way back, up to one sending, no draft traffic;
- *reseau*: three outcomes, with the draft, one loss, two tries, a second opening, and
  what the agent does while a sending is under way;
- *campagnes*: two fiches, two members, two campaigns, three requests of any kind, of
  which the first is a draw, and a pause, a deletion or a call anywhere;
- *ventes*: two sites of two and one lots, a sale and an archived one on the first, two
  requests of any kind (an archive is of the live sale), and a workbook or a stock set at any
  time: one lot is left, so any two sales of it compete;
- *parcours*: a site with a price per surface and one without, two sales of before (a credit entered
  before there were schedules, a cash sale not paid in full), two openings of the path, one lost
  answer. The draft departs from the
  plainest sale in one way at a time (`Ecarts`: represented, no instalment, an incomplete
  schedule, two lots, the surface of another site, an illegible number or no name); the
  second opening starts from what the first has entered, on the last three screens, or from the
  unpaid sale of before.

Splitting keeps each question at the size where its cases happen: the choices need a rich
catalogue and no network, the losses need a network and three outcomes. In `Representants`:

- *script* and *reprise*: the same two as *choix* and *reseau* for the script, on six
  statuses (two that answer the question, one below another, a callback, a wrong number, a
  retry);
- *representant*: two requests on a representative (two calls or a replay) and a gesture of
  the management;
- *courriels*: two mails (so that one can be ahead of the other, with replays of one row at
  a time), two replays, two tries, one failure, one sending by hand; mails grow older than seven
  days at any time, but only where no failure was (Brevo may still refuse).

What the properties say:

- `EffetUnique`: an attempt is applied exactly once, whatever the retries.
- `DernierAppelExact`: last call and its author are those of the latest
  recorded call. `DernierAppelPlausible`: at most now plus the tolerance.
- `StatutSuitDernierAppelALHeure`: the phase is that of the last call, as long
  as no call reached the server late. Without that restriction
  (`StatutSuitDernierAppel`) it fails: see the findings.
- `PromesseDansLaFile`: a fiche whose last call promised a callback is in a
  queue. `RappelSurFicheOuverte`: a pending callback is on an open fiche.
- `ParcoursAccorde`, `ClosAccorde`: fiche and journey agree on phase and closure.
- `ConvertieFigee`, `ClosDefinitif`, `MethodeAcquise`: what a step may never do.
- `RegistreDesPromesses`: the callbacks implement `Promesse`.
- `TouteRequeteAboutit`: liveness.
- `CapaciteTenue`: an hour that only checked calls filled is within its capacity.
  `PlaceGardee`: the place seen free under the advisory lock is still free when the
  fiche is written. `PlaceComptee`: a visit granted by the latest call is
  counted until somebody writes the fiche. `AppelTermine`: liveness.

- `UnAppelParEcran`, `AnnonceVraie`: one call per screen however often it is sent;
  "Appel consigné" is said of recorded calls only. `AppelConsequent`: a method, a dossier,
  a date, a site are recorded with the outcome they belong to. `DossierAvantFermeture`:
  the draft that carries the dossier arrived before the call that closes the opening.
  `FermeeFigee`: nothing written to a closed opening.
- `PasDansLeParcours`, `RappelDeSonStatut`, `RdvDeLaPersonneJointe`: the script's step is on
  its path, a callback goes with its status, an appointment with its kind and with
  somebody who answered.
- `DistribueeUneFois`, `EquipeVoulue`: no fiche drawn twice, no gesture on a team lost.
- `StockTenu`: whatever sales run at once, and whatever is archived or restored between the
  count and the commit, no more lots of a site are sold than its stock has allowed at some
  time. `VenteComplete`: whatever screens were skipped or left backwards, what is recorded is
  whole, and the path makes no cash sale unpaid, which only the screens ask: one that is was so
  when the panel got it, and its payment has not been touched.
- `RelationLegale`, `JournalFidele`, `AmbassadeurAccepte`, `RejeuSansEffet`: the relation of a
  representative, its journal, its status, under calls judged on an old reading.
- `UnSeulDepart`, `RebondDefinitif`: a mail leaves once unless a failure or a hand
  intervenes; not after a bounce. `RienNeSePerd`: a mail waiting or failed leaves or has all its
  tries, unless seven days go by first: what a long stop kept waiting, or a hand sent too late
  and Brevo refused, keeps its tries and is replayed no more.

**Fairness.** `WF(Poursuivre(r))`: the server goes on with a request it has
begun and that is not waiting for a lock; each action of it is disabled while
it waits. `WF(Interblocage(r))`: PostgreSQL always resolves a cycle of waits
(`deadlock_timeout`). `WF(Avancer(r))` in `RvSite` is the first of the two; no
cycle of waits exists there, since who holds a row does not wait for the hours.
No fairness on clients, calls, failures or the clock. In `Courriels`, working hours come
and go (`WF(Heure)`); the scheduler (`planifier`, every five minutes) begins a replay in
working hours over and over, though not in each of the model's short ones
(`SF(Commencer(r))`); a replay goes on, a request to Brevo ends by its time limit, and a
sending by hand is written. No fairness on `Vieillir`: a mail may stay within its seven days for as
long as it takes, and a bound on that step in the run disables no step that has fairness.

### What the runs found

Six disagreements between the code and what its own comments or controls say
are kept as runs and in `PROJECT.json` "findings": the state of a fiche goes back
to an older call that arrives late (the guard by date covers `lastCallAt` and the
reason, not the phase); a retry is judged on the present attribution before it
is recognised as a replay; a requalification can be applied to a fiche
converted since it was read; a callback can be restored on a fiche being deleted; a retry
of a recorded call that has a draft to send first is refused, because the
call closed the opening (so the agent sees an error about a call that is there); and
the refusal of an ambassador leaves the status accepted, because the trigger runs on the
status before the relation has moved.

TLC reproduces these related sequences as well, which have no run of their own:

- an imported fiche with METHOD_OBTAINED and no journey: its first call that leaves
  the fiche open creates a PENDING journey (`ParcoursAccorde` is therefore
  checked on captured fiches);
- a method withdrawn, or a fiche assigned, after a conversion that committed in
  between (both gestures read the status outside the transaction);
- a callback restored between the superseding and the insertion, or a late call
  that closes the callback promised by a newer one, or a callback restored, or a
  method set, on a fiche the phase of which is closed: `Tentatives` offers
  neither restorations nor the method gesture, and `PromesseDansLaFile` speaks of
  fiches without late calls.

Of the consoles, the outbox, the campaigns and the sales, reading them for the model and running it
showed sequences that contradict no statement of the repository precise enough to be a
run:

- the answer to a sending left behind closes whatever screen is open, and what the agent
  was typing there is saved up to the last write only;
- a draft refused or lost starts no timer: it leaves with the next key, or when the page is
  hidden; a text put back while its first version is in flight is not sent again, and writes
  that arrive in the other order leave the older one on the server;
- with the same identifier, a retry after a changed status is answered as a duplicate, and
  the console announces the new status while the server keeps the first;
- in the script, each sending has a new identifier, so a retry after a lost answer
  records the call twice;
- in the script again, answering the first question another time drops the status but not the
  callback set for it (`choisirResultat`). The server locks the callback of a system status
  and not its retry (`referentiels.go:1066`): had the management set one on ACCEPTE or REFUSE,
  which demand no date as seeded, the new status would leave with the date of the old one.
  `QuestionSansDate` says they have none, and TLC breaks `RappelDeSonStatut` without it;
- a call to a representative older than the last one still rewrites the status; a passage
  that no longer applies is skipped without a word, the rest of the call being recorded;
- a mail whose answer was lost is sent again (`ignores` counts these), and a sending by hand
  that fails on a mail delivered makes the replay send it again;
- the assignment of a fiche and a draw, or a relaunch, can give a fiche two assignees; a
  member removed between the reading of the team and a late entry receives it all the
  same;
- in the entry of a sale, the advance of a credit may exceed the price once the lots are
  reduced (the field is bounded when typed in, not after); a number of instalments emptied,
  then a sale turned back to cash, is refused by the schema of the request (at least 1); a
  stock error that arrives after the agent went back jumps forward over the screens in
  between, and the server refuses what is then sent; an answer lost and a new try enter the
  sale twice; the answer to a path closed closes the one opened since; on a site without a
  default price, the price and the surface of the site chosen before remain;
- in the sales themselves (from the code alone): an archive and a sale of the same number at
  once may leave a live sale whose fiche is CONVERTI; a correction that changes the number
  leaves the former fiche VENDU; a credit already partly paid and turned to cash has a
  negative remainder.

Nor is the lock on the hours taken by every writer of an appointment, hence the set
`forcees`. Without it, and with one more write or call, TLC finds an hour overfilled by

- an appointment cancelled, its place taken by another, then confirmed again;
- an appointment postponed (`Reporter`) to an hour that is full;
- a requalification to RV_SITE by the management, which checks nothing;
- a call recorded late: another kind of appointment it takes is counted as a
  visit, because the reason stays RV_SITE; the other way round, a late visit is granted
  its hour and never counted.

## 4. The proofs

TLAPS checks them for any number of fiches, attempts, requests, agents, reasons,
any tolerance and any bounds on the clocks, under the ASSUMEs of each module. Those of `Qualification`:
the management is among the agents and the import's account is not, NULL is no
account, every reason has a known effect, the clock bounds are positive.

| theorem | of | says |
|---|---|---|
| `TypeCorrect` | `Qualification` | `Spec => []TypeOK` |
| `TentativeUneFois` | `Qualification` | `Spec => []EffetUnique`: an attempt is applied once |
| `FermeeAuxTentatives` | `Qualification` | `Spec => ConvertieFigee`: never to a fiche converted, sold or deleted |
| `ClosPourToujours` | `Qualification` | `Spec => ClosDefinitif`: CONVERTI and VENDU are not undone |
| `RappelsSontDesPromesses` | `Qualification` | `Spec => RegistreDesPromesses`: its callbacks implement `Promesse` |
| `DernierAppelJuste` | `Qualification` | `Spec => []DernierAppelExact` |
| `DernierAppelPasse` | `Qualification` | `Spec => []DernierAppelPlausible` |
| `MethodeGardee` | `Qualification` | `Spec => MethodeAcquise` |
| `ClosEnsemble` | `Qualification` | `Spec => []ClosAccorde` |
| `ParcoursSuitLaFiche` | `Qualification` | `[]ParcoursAccorde`, fiches captured |
| `StatutSuivi` | `Qualification` | `[]StatutSuitDernierAppelALHeure`, fiches captured, without requalification, return, method gesture |
| `PromesseEnFile` | `Qualification` | `[]PromesseDansLaFile`, without requalification |
| `RappelsOuverts` | `Qualification` | `[]RappelSurFicheOuverte`, fiches captured, without restoration, method gesture |
| `UnSeulRappelDu` | `Qualification` | `Spec => []Registre!UneSeuleDue`: never two callbacks due for one fiche |
| `TypeCorrect` | `RvSite` | `Spec => []TypeOK`: well typed, an appointment has a date |
| `HeuresJamaisDepassees` | `RvSite` | `Spec => []CapaciteTenue` |
| `ControleEncoreVrai` | `RvSite` | `Spec => []PlaceGardee` |
| `VisiteToujoursComptee` | `RvSite` | `Spec => []PlaceComptee` |
| `TypeCorrect` | `Representant` | The row of a representative, its journal and the requests on it are well typed. |
| `AmbassadeurToujoursAccepte` | `Representant` | `Spec => []AmbassadeurAccepte` |
| `PassagesLegaux` | `Representant` | `Spec => RelationLegale` |
| `JournalToujoursFidele` | `Representant` | `Spec => []JournalFidele` |
| `RejeuInerte` | `Representant` | `Spec => RejeuSansEffet` |
| `TypeCorrect` | `Consignation` | The console's screen, its sendings, the drafts in flight and the rows of the server are well typed. |
| `AppelEnregistreUneFois` | `Consignation` | `Spec => []UnAppelParEcran` |
| `AnnonceToujoursVraie` | `Consignation` | `Spec => []AnnonceVraie` |
| `DossierToujoursAvant` | `Consignation` | `Spec => []DossierAvantFermeture` |
| `FermeePourToujours` | `Consignation` | `Spec => FermeeFigee` |
| `AppelsConsequents` | `Consignation` | `CatalogueCoherent /\ Spec => []AppelConsequent` |
| `ScriptTypee` | `ScriptRep` | `StatutsBienFormes => (SpecScript => []TypeOKScript)` |
| `PasToujoursDansLeParcours` | `ScriptRep` | `StatutsBienFormes => (SpecScript => []PasDansLeParcours)` |
| `RdvToujoursDeLaPersonneJointe` | `ScriptRep` | `StatutsBienFormes => (SpecScript => []RdvDeLaPersonneJointe)` |
| `RappelToujoursDeSonStatut` | `ScriptRep` | `[]RappelDeSonStatut`, under `StatutsBienFormes` and `QuestionSansDate` |
| `VentesTypees` | `Ventes` | `VentesBienFormees /\ SpecVentes => []TypeOKVentes` |
| `StockJamaisDepasse` | `Ventes` | `VentesBienFormees /\ SpecVentes => []StockTenu` |
| `VentesCompletes` | `VenteParcours` | `ParcoursBienForme /\ SpecParcours => []VenteComplete` |
| `ParcoursTypes` | `VenteParcours` | `ParcoursBienForme /\ SpecParcours => []TypeOKParcours` |
| `UneVenteEnregistree` | `VenteParcours` | `ParcoursBienForme /\ SpecParcours => []UneVenteParOuverture` |
| `CourrielsTypes` | `Courriels` | `CourrielsBienFormes /\ SpecCourriels => []TypeOKCourriels` |
| `UnDepartParCourriel` | `Courriels` | `CourrielsBienFormes /\ SpecCourriels => []UnSeulDepart` |
| `RebondSansRejeu` | `Courriels` | `CourrielsBienFormes /\ SpecCourriels => []RebondDefinitif` |
| `CampagnesTypees` | `Campagnes` | `CampagnesBienFormees /\ SpecCampagnes => []TypeOKCampagnes` |
| `FicheDistribueeUneFois` | `Campagnes` | `CampagnesBienFormees /\ SpecCampagnes => []DistribueeUneFois` |
| `AucunGestePerdu` | `Campagnes` | `CampagnesBienFormees /\ SpecCampagnes => []EquipeVoulue` |

*Types* (`Typage`). `TypeOK` is not inductive: `ConclureTentative` writes what the
call says, so the tables are well typed only because a request in flight names
a fiche, an attempt names a call that was made, a requalification a reason and
an agent (`ToutRenseigne`). `Typage == TypeOK /\ ToutRenseigne` is inductive;
one lemma per group of actions, and one for each way a request moves (it begins, goes on,
takes the callbacks, ends).

*The lock of the fiche* (`Exclusion`). A reader would argue that the checks of
`PreVol` hold when the attempt is written because the row is locked. The
inductive invariant says it: `Verrouille` (the holder of a lock is unique, in
flight, and on that fiche) and `Verifiee` (an attempt past its first statement
holds the lock and its fiche is alive; past PreVol, the attempt has no row and the
fiche is not closed; a deletion that took no lock found the fiche deleted).
`EcritureExclusion` is where each gesture is shown to leave that true: those that
waited find the lock free, a sale writes only if it holds it, a deletion without
the lock deletes nothing. `EffetUnique` and `ConvertieFigee` follow.

*`ClosDefinitif`* needs types only: every writer decides on the row it has just
locked. That is also why the stale read of the requalification does not break it.

*The register.* That it never has two promises due for one fiche is proved of `Promesse`
(`PromesseUnique`); `RappelsSontDesPromesses` carries it over to the callbacks of
`Qualification` (`UnSeulRappelDu`). An insertion happens in two statements with
other people's steps between them, and the register wants one: `Tenue` (a request that has
callbacks in hand holds them still pending), `PrisUneFois` (no callback is in two hands) and
`UnSeulDu` (one callback due per fiche) make the statement that commits replace exactly
the callbacks that are due. `FormeDuPas` then classifies every step of the system: a request
begins, goes on, ends without a write, or writes; only the last kind reaches the
register. The other proofs about the fiche reuse this classification.

*The last call* (`Derniers`). `DernierAppelExact` says of the row what the whole table of attempts
says. Inductive with: each recorded attempt was made on its fiche at the instant its
row bears (`ConsigneesFaites`), an instant is brought back below the clock plus the tolerance
when it is recorded (`InstantsRamenes`, `DernierAppelPlausible`), and `ExacteEn` for every fiche. The case that
matters is an older call that arrives late: it enters the table and leaves the row.
`MethodeAcquise` follows from the writers one by one.

*Fiche and journey* (`Accordes`). `ClosAccorde` and `ParcoursAccorde` relate two rows written in one
commit but read at different times, and locked in opposite orders. `Accorde(f)` is what
must hold between commits; `TientParcours` is what a request in flight may rely on: a sale
past its first row keeps the fiche closed to others, the return to the queue and the method gesture
hold the journey from before they read it.

*State, queue, callbacks.* `StatutSuitDernierAppelALHeure`, `PromesseDansLaFile` and
`RappelSurFicheOuverte` do not hold of every mix of operations, and their theorems
say of which they do:

- an imported fiche has METHOD_OBTAINED and no journey, which its first call breaks
  (section 3), hence captured fiches for the first, the third and `ParcoursAccorde`;
- requalification, return to the queue and the method gesture write a phase which no
  call gave: `StatutSuivi` leaves the three out; `PromesseEnFile` needs only the first out,
  since it writes a reason and closes callbacks without a call;
- a restoration, and the method gesture, do not look at the other row: they leave
  a callback pending on a closed fiche (section 3). `RappelsOuverts` leaves them out.

A run that checks one of these offers no operation its theorem leaves out. The inductive parts are `SuitEn`
(the phase is the last call's unless a call came late), `GardeLaFile` (a callback pending or
cancelled stays one until a call), `Ouvertes`: a request about to write a closing outcome has
every pending callback of its fiche in hand (`Complet`), so the commit leaves none.

*The hours* are proved for any finite set of fiches, any hours, requests and
positive capacity. `CapaciteTenue` is not inductive: the write of a visit needs
the count to be still true, which is `PlaceGardee`, which needs nobody else to be
between count and commit (`HeuresTenues`: from the check on, the advisory lock is
held by that call alone). With `Corps`, `VisiteControlee` and `FicheTenue` that is
`IInv`. An unchecked write adds nobody to an hour that is not in `forcees`
(`EcrireDecroit`), so both bounds survive it (`Bornes`); a visit adds one fiche, to
its own hour (`SaPlace`), where `PlaceGardee` leaves room for one.
`PlaceComptee` adds that the row lock keeps the fiche from being deleted meanwhile.

*The representative* is proved for any set of statuses, requests and dates. `TypeOK` and
`AmbassadeurAccepte` are inductive together: the trigger restores the second at each write
(`Declencheur`), and the guarded update takes the relation it was read with. Every writer passes by `BasculerRelation`, of which
the lemmas say that it leaves the relation where it was (`SurPlace`) or takes it along one
passage that it writes in the journal (`Passage`); `RelationLegale` and `JournalFidele` follow from these two
cases, action by action. A replay reaches no writer (`RejeuSansEffet`).

*The console* is proved for any catalogue, any number of openings, losses and tries
(assumption: NULL is not the answer "ok"). What must be strengthened is the link between
screen, sending and server (`IInv`): each sending carries the identifier of its opening, a
sending answered "ok" has its call in the table, one past the draft has had its draft accepted;
openings are numbered as they are made, and only made ones are closed. `UnAppelParEcran`,
`AnnonceVraie` and `DossierAvantFermeture` follow from it, `FermeeFigee` from the write of a
row (`EcrireSurLigne`) alone. The lemmas about the draft and its rows come first in
`ConsignationProofs`; they speak of `Brouillon` only.

`AppelConsequent` is about answers changed on the way: the screen has a dossier, a date, a site, a
precision that an earlier outcome left. What must be shown is that each answer left over is
either taken back by the code when the outcome changes or left out of what is sent, and
that the step on screen is on the path of the outcome chosen. It needs a catalogue in
which an outcome and its precision agree (`CatalogueCoherent`, which TLC evaluates on the run's
catalogue). The server gives a child its parent's effect
(`referentiels.go:951-974`), allows a date only for callbacks and appointments
(`referentiels.go:915`), and refuses a change of rule to the outcomes the console names. That a child
is answered like its parent, and that an outcome of interest exists, is true of the
seeded referential and enforced by nobody: the theorem says what relies on it.

*The stock* is proved for any sites, any sales to begin with, any number of requests. `StockTenu` is a bound on a
count; the count a request makes under the advisory lock must still bound what it writes.
It does because the lock keeps out every operation that adds lots, and those
that do not take it (archive, setting of the stock) only lower the count or leave it alone.
The hypothesis is that the constants have their types and that requests are finitely many
(`VentesBienFormees`, which TLC evaluates in `MCConsoles`).

*The path of a sale* is proved for any sites, prices, number of lots and of openings. The server checks all
that makes a sale whole but two things: that the number can be read, and that a cash sale is paid
in full. Each is asked by one screen alone, and screens are skipped: a correction starts
on the summary, a fiche recognised jumps ahead, a stock run out sends back. The invariant
(`ParcoursInv`) says what survives the jumps: on the summary, a cash sale is paid, or it corrects one
of before that was not, with the payment that one has (`Admis`); what is sent is, too, and its number
is legible; a row of the panel is untouched, or as the path has written it (`RegistreSuivi`). It holds
because only two ways lead to the summary, the screen of the payment and the opening of a
correction, which keeps the payment of the row (`OuvertureSaine`); because no control of the
summary changes a payment (`AuRecap`), nor does the row that is written (`LigneEntiere`); and because
every other jump ends before it. Nothing is assumed of the sales of before. One that was not paid in full
is corrected and recorded again so, as neither the summary nor the server (`saisie.go:507`)
looks at its amount: this is what the second half of `VenteComplete` says.
`UneVenteEnregistree` bounds what the same path writes: nothing on the server recognises a
sale sent twice, so it is the screen alone that keeps the panel from growing by two for one opening.
An opening is done with when its sale is taken, or when it left the screen with none on its way; the
invariant (`OuverturesSuivies`) keeps the panel within the sales it began with, the openings done with
and the answers lost. A lost answer is the case that adds one: the path stays on screen and the
button sends again. `ParcoursTypes` follows, the sales being numbered one after the other.

*The script* is proved for any statuses, kinds of appointment, openings, sendings and losses. The path is
recomputed at each render from six answers; `Mene(r, code, pas)` says when a step is on it, without
the order (`ParcoursExact`), so that each control is asked one thing: whether its answers
lead to the step it shows next (`EcranTenu`). The callback is subtler. The status posed may
change while the callback stays, and a screen starts from a draft saved by an earlier one; so
what must hold (`Bonnes`: a date demanded was set for the status that demands it) is shown of
every draft, on screen, waiting, in flight and on the server's rows. What leaves is then
judged once (`AppelJuste`), and kept by sendings and rows (`ServeurJuste`).
`StatutsBienFormes` gives the constants their types, and `QuestionSansDate` is what the last theorem
needs of the referential: see section 3. TLC evaluates both on the statuses of the run.

*The mails* are proved for any number of mails, replays, tries, failures and sendings by hand. Two
replays may have the same mail on their lists; what keeps it from leaving twice is that each reads
the row again under its lock. The invariant says what the lock gives: a mail has one sender
(`UnSeulExpediteur`), and the row he read stays as he read it until he writes it (`EnvoiSuivi`:
absent for a creation, still to be replayed for a replay). `UnSeulDepart` then needs an account of
each mail (`Compte`): while it may leave by itself and nobody holds an answer for it, every message
Brevo took is one of those whose sender never knew, or one of a sending by hand; a sending by
hand under way has one to spare. `RebondDefinitif` needs that a bounce, which uses the tries up, is
never written over by a sender who had read the row before it: the bounce waits for the lock
(`LigneSuivie`).

*The campaigns* are proved for any finite set of fiches, any members, campaigns and requests.
`DistribueeUneFois` rests on the lock of the draw: one draw at a time (`Verrous`), and what it has
chosen is out of the reach of late entries until it is written (`TirageReserve`); a late entry looks
again when it writes. `EquipeVoulue` rests on the row of the campaign: a gesture holds it from
the reading of the team to the writing, so that the team read is the team changed
(`TravailSuivi`); an assignment reads and writes the team in one step, when no gesture holds the row.
The hypothesis of both components is that their constants have their types
(`CourrielsBienFormes`, `CampagnesBienFormees`, which TLC evaluates in `MCRepresentants` and
`MCConsoles`).

The MC modules extend the parts, so each theorem says of any constants what a run says of
its instance; `MCTypeOK` gathers the types of what is put side by side.

Only model-checked: liveness (`TouteRequeteAboutit`, `AppelTermine`, `RienNeSePerd`: fairness and ENABLED
are outside the prover's reach), and the two `MCTypeOK` as conjunctions: each type they gather is
a theorem of its part. What the runs that end in a violation refute has, of course, no proof.

## 5. Not modelled, and why

Left out of `Qualification`: `expectedRev` (an optimistic check some clients
send), the contact and CHUES data a call may carry and their checks, dates of
callbacks and their postponement, the permission that lets a role ignore the
attribution, paused campaigns, journeys of other projects, merging of two fiches,
archived sales that put a fiche back to CONVERTI (so `ClosDefinitif` speaks of
the closed statuses together). The closing of the opening by the attempt is in
`Consignation`. Left
out of `RvSite`: settings lowered while appointments exist, an hour without
limit, sites and meeting points withdrawn, appointments dated outside the hours open
to visits, the closing report and the hours on other days (presence is noted the
same day).

Left out of the screens: keyboard shortcuts, the text of the script, the fields of the
dossier and of the identity, contacts, callbacks and queues of the list, the permissions that
hide a control. Left out of `Representant`: contact data, merging, the appointment of a
call. Of `Courriels`: what a mail says, the mail held back on a demonstration base. Of
`Campagnes`: campaigns of representatives, quotas and days of a draw, reports. Of `Ventes`:
payments and instalments, the shares of a sale, the number of a sale, the fiche that goes with
it, sites renamed or without stock. Brouillon: the first instant of input, and the drafts of other agents.

Left out altogether, with the reason, in `PROJECT.json` "components": reads and
exports, formatting, reference data, assistant, bootstrap, and the screens that are one
form or one table over one request. These screens are most of the lines of the
repository (some 90 000 of TypeScript): they hold no state that outlives the request, and
a model of them would restate their fields. That is why the lines mapped are a small share of all the lines.

## 6. The plan

Done: calls and gestures, hours, openings and consoles, representatives, outbox,
campaigns, sales. Next, those that carry the most concurrency first:

1. `Imports`: job, chunks, crash, cancellation.
2. `Sessions`: refresh rotation, last administrator. Then `Enrolement`, `Banque`, `Support`
   as far as they carry a protocol.
3. Payments and instalments in `Ventes`, with the return from VENDU to CONVERTI.
4. The closing report in `RvSite`: presence read before the transaction that
   writes it, against a call that renews the appointment.

New parts join the explorations of `Consoles` or `Representants`.
Each comes with the proof of its invariants.
