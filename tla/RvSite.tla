------------------------------- MODULE RvSite -------------------------------
(***************************************************************************)
(* Appointments on site ("RV site"): an hour receives a limited number of     *)
(* visits, all sites together.  A call that takes one checks the hour under an *)
(* advisory lock held until its transaction ends.  The appointments are not    *)
(* rows of their own: an hour is occupied by the fiches that are in            *)
(* APPOINTMENT for the reason RV_SITE and whose callback, or whose postponed   *)
(* date, is at that hour; several other operations write those columns.        *)
(***************************************************************************)
EXTENDS Naturals, FiniteSets

CONSTANTS
  Fiches,     \* prospects
  Heures,     \* hours open to visits; they are of today (presence may be noted)
  Capacite,   \* maxVisites of the settings, constant here
  Requetes,   \* call attempts being recorded, one per request (bound)
  InstantMax, \* bound on the instants of the calls
  GestesMax,  \* bound on the number of writes by the other operations
  Rien        \* SQL NULL

ASSUME FichesAssumption == IsFiniteSet(Fiches)
ASSUME CapaciteAssumption == Capacite \in Nat \ {0}
ASSUME BornesAssumption == InstantMax \in Nat /\ GestesMax \in Nat
ASSUME RienAssumption ==
  Rien \notin Heures \union Fiches \union {"CONFIRME", "ANNULE", "A_RECONTACTER", "HONORE", "NON_HONORE"}

(* What a call or a requalification may conclude: a visit of a site, another    *)
(* appointment, a callback that keeps the fiche open, an outcome that closes it. *)
Genres == {"site", "autre_rv", "rappel", "refus"}

RendezVous == {"site", "autre_rv"}

VARIABLES
  rv,             \* the columns of "prospects" an appointment is made of
  tx,             \* the requests
  verrouCreneaux, \* pg_advisory_xact_lock('rv_site.creneaux'): its holder, or none
  verrouFiche,    \* row locks of "prospects"
  gestes,         \* how many of those writes are counted so far
  forcees,        \* history: hours given to a fiche by a path that does not check them
  accordee        \* history: the hour the latest write of the fiche was granted, if any

vars == <<rv, tx, verrouCreneaux, verrouFiche, gestes, forcees, accordee>>

Confirmations == {Rien, "CONFIRME", "ANNULE", "A_RECONTACTER"}

LignesRv == [rdv : BOOLEAN, site : BOOLEAN, appelAt : Nat, supprimee : BOOLEAN,
             confirmation : Confirmations, issue : {Rien, "HONORE", "NON_HONORE"},
             quand : Heures \union {Rien}, reporte : Heures \union {Rien}]

Etapes == {"libre", "recu", "creneaux", "place", "fiche", "appliquee", "refusee"}

Tentatives == [etape : Etapes, fiche : Fiches \union {Rien}, genre : Genres \union {Rien},
               heure : Heures \union {Rien}, instant : Nat]

(* Types, and an appointment always has a date.  *)
TypeOK ==
  /\ rv \in [Fiches -> LignesRv]
  /\ \A f \in Fiches : rv[f].rdv => rv[f].quand \in Heures
  /\ tx \in [Requetes -> Tentatives]
  /\ verrouCreneaux \subseteq Requetes
  /\ verrouFiche \in [Fiches -> SUBSET Requetes]
  /\ gestes \in 0..GestesMax
  /\ forcees \subseteq Heures
  /\ accordee \in [Fiches -> Heures \union {Rien}]

Vide(etape) == [etape |-> etape, fiche |-> Rien, genre |-> Rien, heure |-> Rien, instant |-> 0]

Init ==
  /\ rv = [f \in Fiches |-> [rdv |-> FALSE, site |-> FALSE, appelAt |-> 0, supprimee |-> FALSE,
             confirmation |-> Rien, issue |-> Rien, quand |-> Rien, reporte |-> Rien]]
  /\ tx = [r \in Requetes |-> Vide("libre")]
  /\ verrouCreneaux = {}
  /\ verrouFiche = [f \in Fiches |-> {}]
  /\ gestes = 0
  /\ forcees = {}
  /\ accordee = [f \in Fiches |-> Rien]

-----------------------------------------------------------------------------
(* Who occupies an hour: the sub-query of RvSiteChoixValide and RvSiteReservations. *)
(* Cancelled, to be called again, or not honoured, the appointment frees its place.  *)
Occupe(l, h) ==
  /\ ~l.supprimee /\ l.rdv /\ l.site
  /\ l.confirmation \in {Rien, "CONFIRME"}
  /\ l.issue # "NON_HONORE"
  /\ h = IF l.reporte # Rien THEN l.reporte ELSE l.quand

Reserves(h) == {f \in Fiches : Occupe(rv[f], h)}

(* Mutant: the presence noted on the previous appointment stays. *)
ConclueSansOubli(l, genre, heure, recent) ==
  [l EXCEPT !.site = IF recent THEN genre = "site" ELSE @,
            !.quand = IF genre = "refus" THEN @ ELSE heure,
            !.rdv = genre \in RendezVous, !.confirmation = Rien, !.reporte = Rien]

(* Mutant: only the outcomes that promise a callback date it. *)
ConclueSansDate(l, genre, heure, recent) ==
  [l EXCEPT !.site = IF recent THEN genre = "site" ELSE @,
            !.quand = IF genre \in {"rappel", "site"} THEN heure ELSE @,
            !.rdv = genre \in RendezVous]

(* What an outcome does to those columns: CorrigerProspectParTentative (a later   *)
(* call keeps its reason), the callback, and CloreProspectParTentative, for which  *)
(* a new appointment starts afresh.                                              *)
Conclue(l, genre, heure, recent) ==
  LET prise == [l EXCEPT !.site = IF recent THEN genre = "site" ELSE @,
                         !.quand = IF genre = "refus" THEN @ ELSE heure,
                         !.rdv = genre \in RendezVous]
  IN  IF genre \in RendezVous
      THEN [prise EXCEPT !.confirmation = Rien, !.issue = Rien, !.reporte = Rien]
      ELSE prise

(* An operation that does not check the hour writes l on f. *)
Ecrire(f, l) ==
  /\ rv' = [rv EXCEPT ![f] = l]
  /\ forcees' = forcees \union {h \in Heures : Occupe(l, h) /\ ~Occupe(rv[f], h)}
  /\ accordee' = [accordee EXCEPT ![f] = Rien]

(* Mutant: a lock of the session, which a ROLLBACK leaves in place. *)
LibererSansRendre(r, etape) ==
  /\ tx' = [tx EXCEPT ![r] = Vide(etape)]
  /\ verrouCreneaux' = IF etape = "refusee" THEN verrouCreneaux ELSE verrouCreneaux \ {r}
  /\ verrouFiche' = [f \in Fiches |-> verrouFiche[f] \ {r}]

(* COMMIT or ROLLBACK: the locks go. *)
Liberer(r, etape) ==
  /\ tx' = [tx EXCEPT ![r] = Vide(etape)]
  /\ verrouCreneaux' = verrouCreneaux \ {r}
  /\ verrouFiche' = [f \in Fiches |-> verrouFiche[f] \ {r}]

-----------------------------------------------------------------------------
(***************************************************************************)
(* Call attempts: rvSiteVerifier, then qualificationAppliquerTentative, in     *)
(* one transaction.                                                          *)
(***************************************************************************)
Recevoir(r, f, genre, heure, instant) ==
  /\ tx[r].etape = "libre"
  /\ tx' = [tx EXCEPT ![r] = [etape |-> "recu", fiche |-> f, genre |-> genre,
                              heure |-> heure, instant |-> instant]]
  /\ UNCHANGED <<rv, verrouCreneaux, verrouFiche, gestes, forcees, accordee>>

SansVerrou == TRUE  \* mutant: the advisory lock is not waited for

CreneauxLibres == verrouCreneaux = {}

(* VerrouCreneauxRvSite *)
VerrouillerCreneaux(r) ==
  /\ tx[r].etape = "recu" /\ tx[r].genre = "site"
  /\ CreneauxLibres
  /\ verrouCreneaux' = verrouCreneaux \union {r}
  /\ tx' = [tx EXCEPT ![r].etape = "creneaux"]
  /\ UNCHANGED <<rv, verrouFiche, gestes, forcees, accordee>>

(* Mutant: an hour that is exactly full still takes one. *)
UneDePlus(f, h) == Cardinality(Reserves(h) \ {f}) <= Capacite

(* RvSiteChoixValide counts the other fiches. *)
ResteUnePlace(f, h) == Cardinality(Reserves(h) \ {f}) < Capacite

AccorderPlace(r) ==
  /\ tx[r].etape = "creneaux"
  /\ ResteUnePlace(tx[r].fiche, tx[r].heure)
  /\ tx' = [tx EXCEPT ![r].etape = "place"]
  /\ UNCHANGED <<rv, verrouCreneaux, verrouFiche, gestes, forcees, accordee>>

RefuserPlace(r) ==
  /\ tx[r].etape = "creneaux"
  /\ ~ResteUnePlace(tx[r].fiche, tx[r].heure)
  /\ Liberer(r, "refusee")
  /\ UNCHANGED <<rv, gestes, forcees, accordee>>

(* The call is past the check, or its outcome has none. *)
Verifie(r) == tx[r].etape = "place" \/ (tx[r].etape = "recu" /\ tx[r].genre # "site")

(* ProspectPourTentative, FOR NO KEY UPDATE. *)
VerrouillerFiche(r) ==
  /\ Verifie(r)
  /\ ~rv[tx[r].fiche].supprimee
  /\ verrouFiche[tx[r].fiche] = {}
  /\ verrouFiche' = [verrouFiche EXCEPT ![tx[r].fiche] = {r}]
  /\ tx' = [tx EXCEPT ![r].etape = "fiche"]
  /\ UNCHANGED <<rv, verrouCreneaux, gestes, forcees, accordee>>

FicheIntrouvable(r) ==
  /\ Verifie(r)
  /\ rv[tx[r].fiche].supprimee
  /\ Liberer(r, "refusee")
  /\ UNCHANGED <<rv, gestes, forcees, accordee>>

(* A call older than the last one of the fiche does not change its reason. *)
Recent(r) == LET l == rv[tx[r].fiche] IN l.appelAt = 0 \/ tx[r].instant >= l.appelAt

ApresAppel(r) ==
  LET l == rv[tx[r].fiche]
  IN  [Conclue(l, tx[r].genre, tx[r].heure, Recent(r)) EXCEPT
         !.appelAt = IF Recent(r) THEN tx[r].instant ELSE @]

ConclureVisite(r) ==
  LET f == tx[r].fiche
  IN  /\ tx[r].etape = "fiche" /\ tx[r].genre = "site"
      /\ rv' = [rv EXCEPT ![f] = ApresAppel(r)]
      /\ accordee' = [accordee EXCEPT ![f] = IF Recent(r) THEN tx[r].heure ELSE Rien]
      /\ Liberer(r, "appliquee")
      /\ UNCHANGED <<gestes, forcees>>

ConclureAutre(r) ==
  /\ tx[r].etape = "fiche" /\ tx[r].genre # "site"
  /\ Ecrire(tx[r].fiche, ApresAppel(r))
  /\ Liberer(r, "appliquee")
  /\ UNCHANGED gestes

(* PreVol refuses the call or knows it already, or the transaction is lost. *)
Abandonner(r) ==
  /\ tx[r].etape \in {"recu", "creneaux", "place", "fiche"}
  /\ Liberer(r, "refusee")
  /\ UNCHANGED <<rv, gestes, forcees, accordee>>

-----------------------------------------------------------------------------
(***************************************************************************)
(* The other writers: one transaction each, under the lock of the fiche and   *)
(* without the one on the hours.                                             *)
(***************************************************************************)
Ecriture(f, l) ==
  /\ ~rv[f].supprimee /\ verrouFiche[f] = {}
  /\ Ecrire(f, l)
  /\ UNCHANGED <<tx, verrouCreneaux, verrouFiche>>

(* Bound on the writes that may follow any other. *)
Compter == gestes < GestesMax /\ gestes' = gestes + 1

(* qualificationRequalifierProspect: a reason set by the management. *)
Requalifier(f, genre, heure) ==
  /\ Compter
  /\ Ecriture(f, Conclue(rv[f], genre, heure, TRUE))

(* SuivreRendezVous: CONFIRME, ANNULE, A_RECONTACTER (and REPORTE without a date). *)
Confirmer(f, reponse) ==
  /\ Compter /\ rv[f].rdv
  /\ Ecriture(f, [rv[f] EXCEPT !.confirmation = reponse])

(* SuivreRendezVous: HONORE, NON_HONORE. *)
NoterPresence(f, issue) ==
  /\ Compter /\ rv[f].rdv
  /\ rv[f].confirmation # "ANNULE"
  /\ Ecriture(f, [rv[f] EXCEPT !.issue = issue,
                    !.confirmation = IF @ = "A_RECONTACTER" THEN Rien ELSE @])

(* SuivreRendezVous: REPORTE, with a date. *)
Reporter(f, h) ==
  /\ Compter /\ rv[f].rdv
  /\ Ecriture(f, [rv[f] EXCEPT !.confirmation = Rien, !.issue = Rien, !.reporte = h])

(* OublierPresenceRendezVous: the appointment is to come again.  Only a presence     *)
(* that was noted can be forgotten, so this one needs no bound.                    *)
OublierPresence(f) ==
  /\ rv[f].rdv /\ rv[f].issue # Rien
  /\ Ecriture(f, [rv[f] EXCEPT !.issue = Rien])
  /\ UNCHANGED gestes

Supprimer(f) ==
  /\ Compter
  /\ Ecriture(f, [rv[f] EXCEPT !.supprimee = TRUE])

-----------------------------------------------------------------------------
Avancer(r) ==
  \/ VerrouillerCreneaux(r) \/ AccorderPlace(r) \/ RefuserPlace(r)
  \/ VerrouillerFiche(r) \/ FicheIntrouvable(r)
  \/ ConclureVisite(r) \/ ConclureAutre(r)

Appel(r) ==
  \/ \E f \in Fiches, genre \in Genres, heure \in Heures, instant \in 1..InstantMax :
       Recevoir(r, f, genre, heure, instant)
  \/ Avancer(r)
  \/ Abandonner(r)

Suivi(f) ==
  \/ \E genre \in Genres, heure \in Heures : Requalifier(f, genre, heure)
  \/ \E reponse \in Confirmations \ {Rien} : Confirmer(f, reponse)
  \/ \E issue \in {"HONORE", "NON_HONORE"} : NoterPresence(f, issue)
  \/ \E h \in Heures : Reporter(f, h)
  \/ OublierPresence(f)
  \/ Supprimer(f)

Next == (\E r \in Requetes : Appel(r)) \/ (\E f \in Fiches : Suivi(f))

Spec == Init /\ [][Next]_vars

(* The server runs the statements of a request it received; it is never bound to abandon it. *)
FairSpec == Spec /\ \A r \in Requetes : WF_vars(Avancer(r))

-----------------------------------------------------------------------------
(* The hours a call was granted and has not committed yet. *)
PlaceTenue(r) == tx[r].etape = "place" \/ (tx[r].etape = "fiche" /\ tx[r].genre = "site")

(* "deux RV simultanes ne voient pas la meme place libre": an hour that only       *)
(* checked calls have filled never receives more visits than the settings allow,   *)
(* however the calls, their fiches' locks and the other writers interleave.        *)
CapaciteTenue == \A h \in Heures \ forcees : Cardinality(Reserves(h)) <= Capacite

(* The place seen free by rvSiteChoixDisponible is still free when the fiche is     *)
(* written, several statements and a wait for a row lock later.                    *)
PlaceGardee == \A r \in Requetes :
  PlaceTenue(r) /\ tx[r].heure \notin forcees
    => Cardinality(Reserves(tx[r].heure) \ {tx[r].fiche}) < Capacite

(* A visit granted by the latest call of a fiche is counted at its hour until      *)
(* another write of the fiche, whatever was noted on its former appointments: a     *)
(* cancelled, missed or postponed one would hide it from the count.                *)
PlaceComptee == \A f \in Fiches : accordee[f] # Rien => f \in Reserves(accordee[f])

(* The wait for the hours and then for the fiche always ends: no call waits for     *)
(* ever behind one that was refused, nor two behind each other.                    *)
AppelTermine == \A r \in Requetes :
  tx[r].etape = "recu" ~> tx[r].etape \in {"appliquee", "refusee"}
=============================================================================
