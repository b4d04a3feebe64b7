------------------------------- MODULE Ventes -------------------------------
(***************************************************************************)
(* The stock of a site under sales entered at once.  The rows of "ventes" are    *)
(* the only count of what is sold; who adds lots to a site takes the advisory     *)
(* lock of the numbering first and counts under it, but the stock it compares       *)
(* with was read before, who corrects or restores a sale holds its row already,      *)
(* and who archives a sale, or sets the stock, takes no advisory lock at all.          *)
(***************************************************************************)
EXTENDS Nul, Naturals, Sequences, FiniteSets, FiniteSetsExt

CONSTANTS
  Sites,
  LotsMax,   \* bound on the stock of a site, and on the lots of a sale
  Initiales, \* the sales entered before, by identifier
  StockInitial,
  Requetes,  \* the requests handled at once, each of them once
  GestesMax  \* bound on the workbooks deposited and the stocks set

VARIABLES
  ventes,   \* "ventes": the rows entered on the panel, by identifier
  classeur, \* the lots the workbook says sold, per site
  stock,    \* "ventes_sites"."totalLots"
  requetes, \* what each request is at
  gestes,   \* workbooks deposited and stocks set so far
  permis    \* history: per site, the most lots a stock or a workbook has allowed

varsVentes == <<ventes, classeur, stock, requetes, gestes, permis>>

Quantites == 0..LotsMax
Identifiants == 1..(Cardinality(DOMAIN Initiales) + Cardinality(Requetes))

Lignes == [site : Sites, lots : Quantites \ {0}, archivee : BOOLEAN]

(* What a panel, its sites and its requests are; the proofs assume no more. *)
VentesBienFormees ==
  /\ LotsMax \in Nat /\ GestesMax \in Nat /\ IsFiniteSet(Requetes)
  /\ Initiales \in Seq(Lignes) /\ StockInitial \in [Sites -> Quantites]

(* "recue": waits for the row of the sale; "lue": for the advisory lock; "comptee":   *)
(* has it and found room; "prete": an archive, which needs no room.                     *)
Etapes == {"neuve", "recue", "lue", "comptee", "prete", "finie"}
Operations == {"creer", "corriger", "restaurer", "archiver"}

Travaux == [etape : Etapes, quoi : Operations \union {Rien}, id : Identifiants \union {0},
            vente : Lignes \union {Rien}, total : Quantites]

TypeOKVentes ==
  /\ \E ids \in SUBSET Identifiants : ventes \in [ids -> Lignes]
  /\ classeur \in [Sites -> Quantites] /\ stock \in [Sites -> Quantites]
  /\ requetes \in [Requetes -> Travaux]
  /\ gestes \in 0..GestesMax
  /\ permis \in [Sites -> Nat]

(* The lots of the live sales of a site, one sale left out: one pair per lot. *)
LotsSaisis(lignes, s, sauf) ==
  {l \in (DOMAIN lignes \ {sauf}) \X (1..LotsMax) :
     lignes[l[1]].site = s /\ ~lignes[l[1]].archivee /\ l[2] <= lignes[l[1]].lots}

(* LotsVendusParSite: the workbook's lots and those of the live sales. *)
Vendus(s, sauf) == classeur[s] + Cardinality(LotsSaisis(ventes, s, sauf))

InitVentes ==
  /\ ventes = Initiales
  /\ classeur = [s \in Sites |-> 0]
  /\ stock = StockInitial
  /\ permis = [s \in Sites |-> Max({StockInitial[s], Vendus(s, 0)})]
  /\ requetes = [r \in Requetes |->
                   [etape |-> "neuve", quoi |-> Rien, id |-> 0, vente |-> Rien, total |-> 0]]
  /\ gestes = 0

-----------------------------------------------------------------------------
(* An advisory lock, held until the transaction ends. *)
StockVerrouille == \E r \in Requetes : requetes[r].etape = "comptee"

VenteVerrouillee(id) ==
  \E r \in Requetes : /\ requetes[r].id = id
                       /\ requetes[r].etape \in {"lue", "comptee", "prete"}

Passer(r, travail) == requetes' = [requetes EXCEPT ![r] = travail]
Finir(r) == Passer(r, [requetes[r] EXCEPT !.etape = "finie"])

(* What a stock set to n, or a workbook that says so, allows from then on. *)
Permettre(vendus) == permis' = [s \in Sites |-> Max({permis[s], vendus[s]})]

-----------------------------------------------------------------------------
(* A new sale: the site and its stock are read outside the transaction. *)
Creer(r) ==
  /\ requetes[r].etape = "neuve"
  /\ \E s \in Sites, n \in Quantites \ {0} :
       Passer(r, [etape |-> "lue", quoi |-> "creer", id |-> 0, total |-> stock[s],
                  vente |-> [site |-> s, lots |-> n, archivee |-> FALSE]])
  /\ UNCHANGED <<ventes, classeur, stock, gestes, permis>>

(* A request on a sale of the panel: a correction carries its new site and lots. *)
Viser(r) ==
  /\ requetes[r].etape = "neuve"
  /\ \E id \in DOMAIN ventes, quoi \in Operations \ {"creer"} :
       \E v \in IF quoi = "corriger" THEN {l \in Lignes : ~l.archivee} ELSE {Rien} :
         Passer(r, [etape |-> "recue", quoi |-> quoi, id |-> id, vente |-> v, total |-> 0])
  /\ UNCHANGED <<ventes, classeur, stock, gestes, permis>>

(* The row first; the stock of the site is read under it, and compared with later. *)
VerrouillerVente(r) ==
  LET q == requetes[r]
      lue == IF q.quoi = "corriger" THEN q.vente ELSE [ventes[q.id] EXCEPT !.archivee = FALSE]
  IN /\ q.etape = "recue" /\ ~VenteVerrouillee(q.id)
     /\ ventes[q.id].archivee => q.quoi = "restaurer"
     /\ Passer(r, [q EXCEPT !.etape = IF q.quoi = "archiver" THEN "prete" ELSE "lue",
                            !.vente = lue, !.total = stock[lue.site]])
     /\ UNCHANGED <<ventes, classeur, stock, gestes, permis>>

(* VENTE_NOT_FOUND: archived since. *)
RefuserArchivee(r) ==
  LET q == requetes[r]
  IN /\ q.etape = "recue" /\ ~VenteVerrouillee(q.id)
     /\ ventes[q.id].archivee /\ q.quoi # "restaurer"
     /\ Finir(r)
     /\ UNCHANGED <<ventes, classeur, stock, gestes, permis>>

(* A correction that adds no lot to its site passes, even over the stock. *)
SansLotDePlus(q) ==
  /\ q.quoi = "corriger" /\ ventes[q.id].site = q.vente.site
  /\ q.vente.lots <= ventes[q.id].lots

(* The lots a correction replaces do not count against it. *)
Remplacee(q) == IF q.quoi = "corriger" THEN q.id ELSE 0

ResteAssez(q) ==
  SansLotDePlus(q) \/ q.vente.lots + Vendus(q.vente.site, Remplacee(q)) <= q.total

(* A mutant of AccorderLots: the lots are counted without waiting for the lock. *)
AccorderLotsHorsVerrou(r) ==
  /\ requetes[r].etape = "lue"
  /\ ResteAssez(requetes[r])
  /\ Passer(r, [requetes[r] EXCEPT !.etape = "comptee"])
  /\ UNCHANGED <<ventes, classeur, stock, gestes, permis>>

(* verrouillerStock: the advisory lock, then the count. *)
AccorderLots(r) ==
  /\ requetes[r].etape = "lue" /\ ~StockVerrouille
  /\ ResteAssez(requetes[r])
  /\ Passer(r, [requetes[r] EXCEPT !.etape = "comptee"])
  /\ UNCHANGED <<ventes, classeur, stock, gestes, permis>>

(* VENTE_STOCK_EPUISE *)
RefuserLots(r) ==
  /\ requetes[r].etape = "lue" /\ ~StockVerrouille
  /\ ~ResteAssez(requetes[r])
  /\ Finir(r)
  /\ UNCHANGED <<ventes, classeur, stock, gestes, permis>>

(* The sale is written, and the transaction commits. *)
EnregistrerVente(r) ==
  LET q == requetes[r]
      id == IF q.quoi = "creer" THEN Cardinality(DOMAIN ventes) + 1 ELSE q.id
  IN /\ q.etape = "comptee"
     /\ ventes' = [v \in DOMAIN ventes \union {id} |-> IF v = id THEN q.vente ELSE ventes[v]]
     /\ Finir(r)
     /\ UNCHANGED <<classeur, stock, gestes, permis>>

Archiver(r) ==
  /\ requetes[r].etape = "prete"
  /\ ventes' = [ventes EXCEPT ![requetes[r].id].archivee = TRUE]
  /\ Finir(r)
  /\ UNCHANGED <<classeur, stock, gestes, permis>>

(* A transaction lost with all it holds. *)
Interrompre(r) ==
  /\ requetes[r].etape \notin {"neuve", "finie"}
  /\ Finir(r)
  /\ UNCHANGED <<ventes, classeur, stock, gestes, permis>>

(* The stock of a site is set, lower than what is sold if one wants. *)
ModifierSite(s, n) ==
  /\ gestes < GestesMax
  /\ stock' = [stock EXCEPT ![s] = n]
  /\ Permettre(stock')
  /\ gestes' = gestes + 1
  /\ UNCHANGED <<ventes, classeur, requetes>>

(* A workbook replaces the one before, whatever it says sold, under the same lock. *)
RemplacerClasseur(lus) ==
  /\ gestes < GestesMax /\ ~StockVerrouille
  /\ classeur' = lus
  /\ Permettre([s \in Sites |-> Vendus(s, 0) - classeur[s] + lus[s]])
  /\ gestes' = gestes + 1
  /\ UNCHANGED <<ventes, stock, requetes>>

NextVentes ==
  \/ \E r \in Requetes :
       \/ Creer(r) \/ Viser(r) \/ VerrouillerVente(r) \/ RefuserArchivee(r)
       \/ AccorderLots(r) \/ RefuserLots(r) \/ EnregistrerVente(r) \/ Archiver(r) \/ Interrompre(r)
  \/ \E s \in Sites, n \in Quantites : ModifierSite(s, n)
  \/ \E lus \in [Sites -> Quantites] : RemplacerClasseur(lus)

SpecVentes == InitVentes /\ [][NextVentes]_varsVentes

-----------------------------------------------------------------------------
(* No sale, correction or restoration sells more lots of a site than its stock has  *)
(* allowed at some time: whatever sales run at once, whatever is archived or restored *)
(* between the count and the commit.  A workbook may, and then sets the mark.          *)
StockTenu == \A s \in Sites : Vendus(s, 0) <= permis[s]

=============================================================================
