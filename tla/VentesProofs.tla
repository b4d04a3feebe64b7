---------------------------- MODULE VentesProofs ----------------------------
(***************************************************************************)
(* The stock of a site holds whatever sales, corrections, archives, restorations  *)
(* and workbooks overlap: for any panel, any number of requests and any stock.      *)
(* The argument is the one of the two locks.  The row of a corrected sale is held    *)
(* from before its lots are read to the commit, and the lock of the numbering from     *)
(* the count to the commit, so that what was counted can only have shrunk.               *)
(* Then the path that enters a sale: what it records is whole.                            *)
(***************************************************************************)
EXTENDS Ventes, VenteParcours, FiniteSetTheorems, TLAPS

EnCours == {"lue", "comptee", "prete"}

Finies == {r \in Requetes : requetes[r].etape = "finie"}

(* The rows are numbered from 1, and each new one is that of a request that is over. *)
PanneauSuivi(n) ==
  /\ ventes \in [1..n -> Lignes]
  /\ n <= Len(Initiales) + Cardinality(Finies)

(* What a request knows: the sale it aims at, and the lots it means to have. *)
TravailSuivi(r) ==
  LET q == requetes[r]
  IN /\ q.etape \in {"neuve", "finie"} \/ q.quoi \in Operations
     /\ q.etape = "recue" => q.quoi # "creer" /\ (q.quoi = "corriger" => q.vente \in Lignes)
     /\ q.etape \in EnCours \union {"recue"} /\ q.quoi # "creer" => q.id \in DOMAIN ventes
     /\ q.etape = "prete" => q.quoi = "archiver"
     /\ q.etape \in {"lue", "comptee"} =>
          /\ q.vente \in Lignes /\ q.total <= permis[q.vente.site]
          /\ q.quoi = "creer" => q.id = 0
          /\ q.quoi = "corriger" => ~ventes[q.id].archivee

(* Two requests hold neither the row of one sale nor the lock of the numbering. *)
VerrousExclusifs ==
  \A r, a \in Requetes :
    \/ r = a
    \/ /\ requetes[r].etape = "comptee" => requetes[a].etape # "comptee"
       /\ requetes[r].etape \in EnCours /\ requetes[a].etape \in EnCours =>
            requetes[r].id # requetes[a].id \/ requetes[r].quoi = "creer"
                                            \/ requetes[a].quoi = "creer"

(* The lots found are still there for the request that counted them. *)
PlaceTenue(r) ==
  LET q == requetes[r]
  IN q.etape = "comptee" =>
       SansLotDePlus(q) \/ q.vente.lots + Vendus(q.vente.site, Remplacee(q)) <= permis[q.vente.site]

Typage ==
  /\ \E n \in Nat : PanneauSuivi(n)
  /\ classeur \in [Sites -> Quantites] /\ stock \in [Sites -> Quantites]
  /\ requetes \in [Requetes -> Travaux]
  /\ gestes \in 0..GestesMax
  /\ permis \in [Sites -> Nat]

StockSuivi == \A s \in Sites : stock[s] <= permis[s] /\ Vendus(s, 0) <= permis[s]

IInv ==
  /\ Typage
  /\ \A r \in Requetes : TravailSuivi(r) /\ PlaceTenue(r)
  /\ VerrousExclusifs /\ StockSuivi

-----------------------------------------------------------------------------
(* The greater of two naturals is one of them and bounds both. *)
LEMMA MaxDeDeux ==
  ASSUME NEW a \in Nat, NEW b \in Nat
  PROVE  Max({a, b}) \in Nat /\ a <= Max({a, b}) /\ b <= Max({a, b})
<1>1. \E x \in {a, b} : \A y \in {a, b} : x >= y
  <2>1. CASE a <= b  BY <2>1
  <2>2. CASE b <= a  BY <2>2
  <2> QED BY <2>1, <2>2
<1>2. Max({a, b}) \in {a, b} /\ \A y \in {a, b} : Max({a, b}) >= y
  BY <1>1 DEF Max
<1> QED BY <1>2

(* The lots counted on a panel of n sales are finitely many. *)
LEMMA LotsFinis ==
  ASSUME LotsMax \in Nat, NEW n \in Nat, NEW v \in [1..n -> Lignes], NEW s, NEW sauf
  PROVE  IsFiniteSet(LotsSaisis(v, s, sauf)) /\ Cardinality(LotsSaisis(v, s, sauf)) \in Nat
<1>1. IsFiniteSet(1..n) /\ IsFiniteSet(1..LotsMax)
  BY FS_Interval
<1>2. IsFiniteSet((1..n) \ {sauf})
  BY <1>1, FS_Subset
<1>3. IsFiniteSet(((1..n) \ {sauf}) \X (1..LotsMax))
  BY <1>1, <1>2, FS_Product
<1>4. LotsSaisis(v, s, sauf) \in SUBSET (((1..n) \ {sauf}) \X (1..LotsMax))
  BY DEF LotsSaisis
<1>5. IsFiniteSet(LotsSaisis(v, s, sauf))
  BY <1>3, <1>4, FS_Subset
<1> QED BY <1>5, FS_CardinalityType

(* A panel where every live sale of a site was live there with as many lots has sold *)
(* no more of it.                                                                       *)
LEMMA LotsMoindres ==
  ASSUME LotsMax \in Nat, NEW n \in Nat, NEW v \in [1..n -> Lignes],
         NEW m \in Nat, NEW w \in [1..m -> Lignes], NEW s, NEW sauf,
         \A i \in 1..m : w[i].site = s /\ ~w[i].archivee =>
           i \in 1..n /\ v[i].site = s /\ ~v[i].archivee /\ w[i].lots <= v[i].lots
  PROVE  Cardinality(LotsSaisis(w, s, sauf)) <= Cardinality(LotsSaisis(v, s, sauf))
<1>1. LotsSaisis(w, s, sauf) \subseteq LotsSaisis(v, s, sauf)
  <2> SUFFICES ASSUME NEW l \in LotsSaisis(w, s, sauf)  PROVE l \in LotsSaisis(v, s, sauf)
    OBVIOUS
  <2>1. /\ l \in ((1..m) \ {sauf}) \X (1..LotsMax)
        /\ w[l[1]].site = s /\ ~w[l[1]].archivee /\ l[2] <= w[l[1]].lots
    BY DEF LotsSaisis
  <2>2. /\ l[1] \in 1..n /\ v[l[1]].site = s /\ ~v[l[1]].archivee
        /\ w[l[1]].lots <= v[l[1]].lots
    BY <2>1
  <2>3. w[l[1]].lots \in Nat /\ v[l[1]].lots \in Nat /\ l[2] \in Nat
    BY <2>1, <2>2 DEF Lignes, Quantites
  <2> QED BY <2>1, <2>2, <2>3 DEF LotsSaisis
<1> QED BY <1>1, LotsFinis, FS_Subset

(* A sale entered or written again adds its own lots at most. *)
LEMMA LotsAjoutes ==
  ASSUME LotsMax \in Nat, NEW n \in Nat, NEW v \in [1..n -> Lignes],
         NEW m \in Nat, NEW w \in [1..m -> Lignes], NEW s, NEW id \in 1..m,
         NEW sauf \in {0, id},
         \A i \in (1..m) \ {id} : i \in 1..n /\ w[i] = v[i]
  PROVE  Cardinality(LotsSaisis(w, s, 0)) <=
           Cardinality(LotsSaisis(v, s, sauf)) + (IF w[id].site = s THEN w[id].lots ELSE 0)
<1> DEFINE siens == IF w[id].site = s THEN {id} \X (1..w[id].lots) ELSE {}
<1>1. w[id].lots \in Nat
  BY DEF Lignes, Quantites
<1>2. IsFiniteSet(siens) /\ Cardinality(siens) = IF w[id].site = s THEN w[id].lots ELSE 0
  <2> DEFINE k == w[id].lots
  <2>a. k \in Nat
    BY <1>1
  <2>1. IsFiniteSet(1..k) /\ Cardinality(1..k) = k
    <3> HIDE DEF k
    <3>1. IsFiniteSet(1..k) /\ Cardinality(1..k) = IF 1 > k THEN 0 ELSE k - 1 + 1
      BY <2>a, FS_Interval
    <3> QED BY <3>1, <2>a
  <2>2. IsFiniteSet({id}) /\ Cardinality({id}) = 1
    BY FS_Singleton
  <2>3. IsFiniteSet({id} \X (1..k)) /\ Cardinality({id} \X (1..k)) = k
    <3> HIDE DEF k
    <3>1. /\ IsFiniteSet({id} \X (1..k))
          /\ Cardinality({id} \X (1..k)) = Cardinality({id}) * Cardinality(1..k)
      BY <2>1, <2>2, FS_Product
    <3> QED BY <3>1, <2>1, <2>2, <2>a
  <2> QED BY <2>3, <2>a, FS_EmptySet
<1>3. LotsSaisis(w, s, 0) \subseteq LotsSaisis(v, s, sauf) \union siens
  <2> SUFFICES ASSUME NEW l \in LotsSaisis(w, s, 0), l \notin siens
               PROVE  l \in LotsSaisis(v, s, sauf)
    OBVIOUS
  <2>1. /\ l \in (1..m) \X (1..LotsMax)
        /\ w[l[1]].site = s /\ ~w[l[1]].archivee /\ l[2] <= w[l[1]].lots
    BY DEF LotsSaisis
  <2>2. l[1] # id
    <3> SUFFICES ASSUME l[1] = id  PROVE FALSE
      OBVIOUS
    <3>1. l[2] \in 1..w[id].lots
      BY <2>1, <1>1
    <3> QED BY <2>1, <3>1
  <2> QED BY <2>1, <2>2 DEF LotsSaisis
<1>4. /\ IsFiniteSet(LotsSaisis(v, s, sauf)) /\ Cardinality(LotsSaisis(v, s, sauf)) \in Nat
      /\ IsFiniteSet(LotsSaisis(w, s, 0)) /\ Cardinality(LotsSaisis(w, s, 0)) \in Nat
  BY LotsFinis
<1>5. /\ IsFiniteSet(LotsSaisis(v, s, sauf) \union siens)
      /\ Cardinality(LotsSaisis(v, s, sauf) \union siens) =
           Cardinality(LotsSaisis(v, s, sauf)) + Cardinality(siens)
             - Cardinality(LotsSaisis(v, s, sauf) \cap siens)
  BY <1>2, <1>4, FS_Union
<1>6. Cardinality(LotsSaisis(v, s, sauf) \cap siens) \in Nat
  BY <1>2, FS_Subset, FS_CardinalityType
<1>7. Cardinality(LotsSaisis(w, s, 0)) <= Cardinality(LotsSaisis(v, s, sauf) \union siens)
  BY <1>3, <1>5, FS_Subset
<1>8. Cardinality(siens) \in Nat
  BY <1>2, FS_CardinalityType
<1> HIDE DEF siens
<1> QED BY <1>1, <1>2, <1>4, <1>5, <1>6, <1>7, <1>8

(* What is sold of a site, and what the requests that are over number, are naturals. *)
LEMMA VendusNaturels ==
  ASSUME VentesBienFormees, Typage, NEW s \in Sites, NEW sauf
  PROVE  Vendus(s, sauf) \in Nat /\ Cardinality(LotsSaisis(ventes, s, sauf)) \in Nat
<1>1. PICK n \in Nat : ventes \in [1..n -> Lignes]
  BY DEF Typage, PanneauSuivi
<1>2. Cardinality(LotsSaisis(ventes, s, sauf)) \in Nat
  BY <1>1, LotsFinis DEF VentesBienFormees
<1>3. classeur[s] \in Nat
  BY DEF Typage, Quantites
<1> QED BY <1>2, <1>3 DEF Vendus

(* The requests are enough to number the sales they add. *)
LEMMA IdentifiantsSuivis ==
  ASSUME VentesBienFormees, Typage
  PROVE  /\ DOMAIN ventes \subseteq Identifiants
         /\ Finies # Requetes => Cardinality(DOMAIN ventes) + 1 \in Identifiants
<1>1. PICK n \in Nat : PanneauSuivi(n)
  BY DEF Typage
<1>2. Len(Initiales) \in Nat /\ DOMAIN Initiales = 1..Len(Initiales)
  BY DEF VentesBienFormees
<1>3. Cardinality(DOMAIN Initiales) = Len(Initiales)
  <2>1. ASSUME NEW k \in Nat  PROVE Cardinality(1..k) = k
    BY FS_Interval
  <2> QED BY <1>2, <2>1
<1>4. DOMAIN ventes = 1..n /\ n <= Len(Initiales) + Cardinality(Finies)
  BY <1>1 DEF PanneauSuivi
<1>5. Cardinality(DOMAIN ventes) = n
  BY <1>4, FS_Interval
<1>6. /\ Cardinality(Finies) \in Nat /\ Cardinality(Requetes) \in Nat
      /\ Cardinality(Finies) <= Cardinality(Requetes)
      /\ Cardinality(Finies) = Cardinality(Requetes) => Finies = Requetes
  <2>1. Finies \in SUBSET Requetes
    BY DEF Finies
  <2> QED BY <2>1, FS_Subset, FS_CardinalityType DEF VentesBienFormees
<1> QED BY <1>2, <1>3, <1>4, <1>5, <1>6 DEF Identifiants

(* A request goes on, and no other. *)
LEMMA Passage ==
  ASSUME VentesBienFormees, Typage, NEW r \in Requetes, NEW w \in Travaux,
         requetes[r].etape # "finie", Passer(r, w)
  PROVE  /\ requetes' \in [Requetes -> Travaux]
         /\ requetes'[r] = w /\ \A a \in Requetes \ {r} : requetes'[a] = requetes[a]
         /\ Cardinality(Finies) \in Nat
         /\ Cardinality(Finies') = Cardinality(Finies) + (IF w.etape = "finie" THEN 1 ELSE 0)
<1>1. /\ requetes' \in [Requetes -> Travaux]
      /\ requetes'[r] = w /\ \A a \in Requetes \ {r} : requetes'[a] = requetes[a]
  BY DEF Passer, Typage
<1>2. IsFiniteSet(Finies)
  BY FS_Subset DEF Finies, VentesBienFormees
<1>3. Finies' = IF w.etape = "finie" THEN Finies \union {r} ELSE Finies
  BY <1>1 DEF Finies
<1>4. r \notin Finies
  BY DEF Finies
<1>5. Cardinality(Finies) \in Nat
  BY <1>2, FS_CardinalityType
<1>6. Cardinality(Finies \union {r}) = Cardinality(Finies) + 1
  BY <1>2, <1>4, FS_AddElement
<1> QED BY <1>1, <1>3, <1>5, <1>6

(* A step that leaves the panel, the sites and the workbook alone keeps the           *)
(* invariant as soon as it keeps what concerns its request.                              *)
LEMMA PasImmobile ==
  ASSUME VentesBienFormees, IInv, NEW r \in Requetes, NEW w \in Travaux,
         requetes[r].etape # "finie", Passer(r, w),
         UNCHANGED <<ventes, classeur, stock, gestes, permis>>,
         TravailSuivi(r)', PlaceTenue(r)',
         w.etape = "comptee" => \A a \in Requetes \ {r} : requetes[a].etape # "comptee",
         w.etape \in EnCours =>
           \/ w.quoi = "creer"
           \/ \A a \in Requetes \ {r} : requetes[a].etape \in EnCours => requetes[a].id # w.id
  PROVE  IInv'
<1>1. /\ requetes' \in [Requetes -> Travaux]
      /\ requetes'[r] = w /\ \A a \in Requetes \ {r} : requetes'[a] = requetes[a]
      /\ Cardinality(Finies) \in Nat
      /\ Cardinality(Finies') \in Nat /\ Cardinality(Finies) <= Cardinality(Finies')
  BY Passage DEF IInv
<1>2. Typage'
  <2>1. PICK n \in Nat : PanneauSuivi(n)
    BY DEF IInv, Typage
  <2>2. PanneauSuivi(n)'
    <3>1. Len(Initiales) \in Nat
      BY DEF VentesBienFormees
    <3> QED BY <1>1, <2>1, <3>1 DEF PanneauSuivi
  <2> QED BY <1>1, <2>2 DEF IInv, Typage
<1>3. ASSUME NEW a \in Requetes \ {r}  PROVE TravailSuivi(a)' /\ PlaceTenue(a)'
  <2>1. TravailSuivi(a) /\ PlaceTenue(a) /\ requetes'[a] = requetes[a]
    BY <1>1 DEF IInv
  <2>2. TravailSuivi(a)'
    BY <2>1 DEF TravailSuivi
  <2>3. PlaceTenue(a)'
    BY <2>1 DEF PlaceTenue, SansLotDePlus, Vendus, Remplacee
  <2> QED BY <2>2, <2>3
<1>4. VerrousExclusifs'
  BY <1>1 DEF IInv, VerrousExclusifs
<1>5. StockSuivi'
  BY DEF IInv, StockSuivi, Vendus
<1> QED BY <1>2, <1>3, <1>4, <1>5 DEF IInv

-----------------------------------------------------------------------------
(***************************************************************************)
(* The steps that write no sale.                                              *)
(***************************************************************************)
LEMMA CreerInv ==
  ASSUME VentesBienFormees, IInv, NEW r \in Requetes, Creer(r)  PROVE IInv'
<1>1. PICK s \in Sites, n \in Quantites \ {0} :
        Passer(r, [etape |-> "lue", quoi |-> "creer", id |-> 0, total |-> stock[s],
                   vente |-> [site |-> s, lots |-> n, archivee |-> FALSE]])
  BY DEF Creer
<1> DEFINE v == [site |-> s, lots |-> n, archivee |-> FALSE]
           w == [etape |-> "lue", quoi |-> "creer", id |-> 0, total |-> stock[s], vente |-> v]
<1>2. v \in Lignes
  BY DEF Lignes
<1>3. w \in Travaux
  BY <1>2 DEF Travaux, Etapes, Operations, IInv, Typage
<1>4. requetes'[r] = w /\ requetes[r].etape = "neuve"
      /\ UNCHANGED <<ventes, classeur, stock, gestes, permis>>
  BY <1>1, <1>3, Passage DEF Creer, IInv
<1>5. TravailSuivi(r)'
  BY <1>2, <1>4 DEF TravailSuivi, EnCours, Operations, IInv, StockSuivi
<1>6. PlaceTenue(r)'
  BY <1>4 DEF PlaceTenue
<1> QED BY <1>1, <1>3, <1>4, <1>5, <1>6, PasImmobile

LEMMA ViserInv ==
  ASSUME VentesBienFormees, IInv, NEW r \in Requetes, Viser(r)  PROVE IInv'
<1>1. PICK id \in DOMAIN ventes, quoi \in Operations \ {"creer"} :
        \E v \in IF quoi = "corriger" THEN {l \in Lignes : ~l.archivee} ELSE {Rien} :
          Passer(r, [etape |-> "recue", quoi |-> quoi, id |-> id, vente |-> v, total |-> 0])
  BY DEF Viser
<1>2. PICK v \in IF quoi = "corriger" THEN {l \in Lignes : ~l.archivee} ELSE {Rien} :
        Passer(r, [etape |-> "recue", quoi |-> quoi, id |-> id, vente |-> v, total |-> 0])
  BY <1>1
<1> DEFINE w == [etape |-> "recue", quoi |-> quoi, id |-> id, vente |-> v, total |-> 0]
<1>3. w \in Travaux
  <2>1. id \in Identifiants
    BY IdentifiantsSuivis DEF IInv
  <2>2. 0 \in Quantites
    BY DEF Quantites, VentesBienFormees
  <2> QED BY <2>1, <2>2 DEF Travaux, Etapes
<1>4. requetes'[r] = w /\ requetes[r].etape = "neuve"
      /\ UNCHANGED <<ventes, classeur, stock, gestes, permis>>
  BY <1>2, <1>3, Passage DEF Viser, IInv
<1>5. TravailSuivi(r)'
  BY <1>4 DEF TravailSuivi, EnCours
<1>6. PlaceTenue(r)'
  BY <1>4 DEF PlaceTenue
<1> QED BY <1>2, <1>3, <1>4, <1>5, <1>6, PasImmobile DEF EnCours

LEMMA VerrouillerVenteInv ==
  ASSUME VentesBienFormees, IInv, NEW r \in Requetes, VerrouillerVente(r)  PROVE IInv'
<1> DEFINE q == requetes[r]
           lue == IF q.quoi = "corriger" THEN q.vente
                                         ELSE [ventes[q.id] EXCEPT !.archivee = FALSE]
           w == [q EXCEPT !.etape = IF q.quoi = "archiver" THEN "prete" ELSE "lue",
                          !.vente = lue, !.total = stock[lue.site]]
<1>1. /\ q.etape = "recue" /\ ~VenteVerrouillee(q.id) /\ Passer(r, w)
      /\ ventes[q.id].archivee => q.quoi = "restaurer"
      /\ UNCHANGED <<ventes, classeur, stock, gestes, permis>>
  BY DEF VerrouillerVente
<1>2. /\ q \in Travaux /\ q.quoi \in Operations \ {"creer"} /\ q.id \in DOMAIN ventes
      /\ q.quoi = "corriger" => q.vente \in Lignes
  BY <1>1 DEF IInv, Typage, TravailSuivi
<1>3. ventes[q.id] \in Lignes
  BY <1>2 DEF IInv, Typage, PanneauSuivi
<1>4. lue \in Lignes
  BY <1>2, <1>3 DEF Lignes
<1>5. stock[lue.site] \in Quantites /\ stock[lue.site] <= permis[lue.site]
  BY <1>4 DEF Lignes, IInv, Typage, StockSuivi
<1>6. w \in Travaux
  BY <1>2, <1>4, <1>5 DEF Travaux, Etapes
<1>7. requetes'[r] = w
  BY <1>1, <1>6, Passage DEF IInv
<1>8. /\ w.etape \in {"lue", "prete"} /\ (w.etape = "prete" => w.quoi = "archiver")
      /\ w.quoi = q.quoi /\ w.id = q.id /\ w.vente = lue /\ w.total = stock[lue.site]
  BY <1>2 DEF Travaux
<1>9. TravailSuivi(r)'
  BY <1>1, <1>2, <1>4, <1>5, <1>7, <1>8 DEF TravailSuivi, EnCours, Operations
<1>10. PlaceTenue(r)'
  BY <1>7, <1>8 DEF PlaceTenue
<1>11. \A a \in Requetes : requetes[a].etape \in EnCours => requetes[a].id # w.id
  BY <1>1, <1>8 DEF VenteVerrouillee, EnCours
<1> HIDE DEF w, lue
<1> QED BY <1>1, <1>6, <1>8, <1>9, <1>10, <1>11, PasImmobile

(* A request that ends without writing. *)
LEMMA FinirInv ==
  ASSUME VentesBienFormees, IInv, NEW r \in Requetes, requetes[r].etape # "finie", Finir(r),
         UNCHANGED <<ventes, classeur, stock, gestes, permis>>
  PROVE  IInv'
<1> DEFINE w == [requetes[r] EXCEPT !.etape = "finie"]
<1>1. w \in Travaux /\ w.etape = "finie"
  BY DEF IInv, Typage, Travaux, Etapes
<1>2. Passer(r, w) /\ requetes'[r] = w
  BY <1>1, Passage DEF Finir, IInv
<1>3. TravailSuivi(r)' /\ PlaceTenue(r)'
  BY <1>1, <1>2 DEF TravailSuivi, PlaceTenue, EnCours
<1> HIDE DEF w
<1> QED BY <1>1, <1>2, <1>3, PasImmobile DEF EnCours

LEMMA AccorderLotsInv ==
  ASSUME VentesBienFormees, IInv, NEW r \in Requetes, AccorderLots(r)  PROVE IInv'
<1> DEFINE q == requetes[r]
           w == [q EXCEPT !.etape = "comptee"]
<1>1. /\ q.etape = "lue" /\ ~StockVerrouille /\ ResteAssez(q) /\ Passer(r, w)
      /\ UNCHANGED <<ventes, classeur, stock, gestes, permis>>
  BY DEF AccorderLots
<1>2. q \in Travaux /\ w \in Travaux
  BY DEF IInv, Typage, Travaux, Etapes
<1>3. requetes'[r] = w
  BY <1>1, <1>2, Passage DEF IInv
<1>4. /\ w.etape = "comptee" /\ w.quoi = q.quoi /\ w.id = q.id
      /\ w.vente = q.vente /\ w.total = q.total
  BY <1>2 DEF Travaux
<1>5. TravailSuivi(r)
  BY DEF IInv
<1>6. TravailSuivi(r)'
  BY <1>1, <1>3, <1>4, <1>5 DEF TravailSuivi, EnCours
<1>7. PlaceTenue(r)'
  <2>1. /\ q.vente \in Lignes /\ q.total <= permis[q.vente.site]
        /\ q.total \in Nat /\ permis[q.vente.site] \in Nat /\ q.vente.lots \in Nat
    BY <1>1, <1>2, <1>5 DEF TravailSuivi, IInv, Typage, Travaux, Lignes, Quantites
  <2>2. Vendus(q.vente.site, Remplacee(q)) \in Nat
    BY <2>1, VendusNaturels DEF Lignes, IInv
  <2>3. SansLotDePlus(q) \/ q.vente.lots + Vendus(q.vente.site, Remplacee(q))
                              <= permis[q.vente.site]
    BY <1>1, <2>1, <2>2 DEF ResteAssez
  <2>4. SansLotDePlus(w) = SansLotDePlus(q) /\ Remplacee(w) = Remplacee(q)
    BY <1>4 DEF SansLotDePlus, Remplacee
  <2> HIDE DEF q, w
  <2>5. SansLotDePlus(w) \/ w.vente.lots + Vendus(w.vente.site, Remplacee(w))
                              <= permis[w.vente.site]
    BY <1>4, <2>3, <2>4
  <2> QED BY <1>1, <1>3, <2>5 DEF PlaceTenue, SansLotDePlus, Remplacee, Vendus
<1>8. \A a \in Requetes : requetes[a].etape # "comptee"
  BY <1>1 DEF StockVerrouille
<1>9. \/ w.quoi = "creer"
      \/ \A a \in Requetes \ {r} : requetes[a].etape \in EnCours => requetes[a].id # w.id
  <2> SUFFICES ASSUME w.quoi # "creer", NEW a \in Requetes \ {r}, requetes[a].etape \in EnCours
               PROVE  requetes[a].id # w.id
    OBVIOUS
  <2>1. CASE requetes[a].quoi = "creer"
    <3>1. requetes[a].id = 0 /\ w.id \in DOMAIN ventes
      BY <1>1, <1>4, <1>5, <2>1 DEF IInv, TravailSuivi, EnCours
    <3> QED BY <3>1 DEF IInv, Typage, PanneauSuivi
  <2>2. CASE requetes[a].quoi # "creer"
    BY <1>1, <1>4, <2>2 DEF IInv, VerrousExclusifs, EnCours
  <2> QED BY <2>1, <2>2
<1> HIDE DEF w
<1> QED BY <1>1, <1>2, <1>4, <1>6, <1>7, <1>8, <1>9, PasImmobile

-----------------------------------------------------------------------------
(***************************************************************************)
(* The steps that write a sale.                                               *)
(***************************************************************************)

(* A sale written: no one else holds its row, and what others counted has not grown. *)
LEMMA Ecriture ==
  ASSUME VentesBienFormees, IInv, NEW r \in Requetes, requetes[r].etape \in {"comptee", "prete"},
         Finir(r), UNCHANGED <<classeur, stock, gestes, permis>>,
         NEW n \in Nat, PanneauSuivi(n), NEW m \in {n, n + 1}, ventes' \in [1..m -> Lignes],
         \A i \in (1..n) \ {requetes[r].id} : ventes'[i] = ventes[i],
         \A s \in Sites : Vendus(s, 0)' <= permis[s],
         requetes[r].etape = "prete" =>
           \A s \in Sites : \A sauf \in Nat : Vendus(s, sauf)' <= Vendus(s, sauf)
  PROVE  IInv'
<1> DEFINE q == requetes[r]
           w == [q EXCEPT !.etape = "finie"]
<1>1. w \in Travaux /\ w.etape = "finie"
  BY DEF IInv, Typage, Travaux, Etapes
<1>2. /\ requetes' \in [Requetes -> Travaux]
      /\ requetes'[r] = w /\ \A a \in Requetes \ {r} : requetes'[a] = requetes[a]
      /\ Cardinality(Finies) \in Nat /\ Cardinality(Finies') = Cardinality(Finies) + 1
  BY <1>1, Passage DEF Finir, IInv
<1>3. Typage'
  <2>1. Len(Initiales) \in Nat
    BY DEF VentesBienFormees
  <2>2. PanneauSuivi(m)' /\ m \in Nat
    BY <1>2, <2>1 DEF PanneauSuivi
  <2> QED BY <1>2, <2>2 DEF IInv, Typage
<1>4. TravailSuivi(r)' /\ PlaceTenue(r)'
  BY <1>1, <1>2 DEF TravailSuivi, PlaceTenue, EnCours
<1>5. ASSUME NEW a \in Requetes \ {r}  PROVE TravailSuivi(a)' /\ PlaceTenue(a)'
  <2> DEFINE p == requetes[a]
  <2>1. TravailSuivi(a) /\ PlaceTenue(a) /\ requetes'[a] = p /\ TravailSuivi(r)
    BY <1>2 DEF IInv
  <2>2. ASSUME p.etape \in EnCours, p.quoi # "creer"
        PROVE  p.id \in 1..n /\ p.id # q.id /\ ventes'[p.id] = ventes[p.id]
    <3>1. p.id \in 1..n
      BY <2>1, <2>2 DEF TravailSuivi, PanneauSuivi, EnCours
    <3>2. p.id # q.id
      <4>1. CASE q.quoi = "creer"
        BY <2>1, <3>1, <4>1 DEF TravailSuivi
      <4>2. CASE q.quoi # "creer"
        BY <2>2, <4>2 DEF IInv, VerrousExclusifs, EnCours
      <4> QED BY <4>1, <4>2
    <3> QED BY <3>1, <3>2
  <2>3. DOMAIN ventes \subseteq DOMAIN ventes'
    BY DEF PanneauSuivi
  <2>4. TravailSuivi(a)'
    <3>1. p.etape \in {"lue", "comptee"} /\ p.quoi = "corriger" => ~ventes'[p.id].archivee
      BY <2>1, <2>2 DEF TravailSuivi, EnCours
    <3> HIDE DEF p
    <3>2. TravailSuivi(a) => 
             /\ p.etape \in {"neuve", "finie"} \/ p.quoi \in Operations
             /\ p.etape = "recue" => p.quoi # "creer" /\ (p.quoi = "corriger" => p.vente \in Lignes)
             /\ p.etape \in EnCours \union {"recue"} /\ p.quoi # "creer" => p.id \in DOMAIN ventes
             /\ p.etape = "prete" => p.quoi = "archiver"
             /\ p.etape \in {"lue", "comptee"} =>
                  /\ p.vente \in Lignes /\ p.total <= permis[p.vente.site]
                  /\ p.quoi = "creer" => p.id = 0
      BY DEF TravailSuivi, p
    <3> QED BY <2>1, <2>3, <3>1, <3>2 DEF TravailSuivi
  <2>5. PlaceTenue(a)'
    <3> SUFFICES ASSUME p.etape = "comptee"
                 PROVE  \/ SansLotDePlus(p)'
                        \/ p.vente.lots + Vendus(p.vente.site, Remplacee(p))' <= permis[p.vente.site]
      BY <2>1 DEF PlaceTenue, SansLotDePlus, Vendus, Remplacee
    <3>1. q.etape = "prete"
      BY DEF IInv, VerrousExclusifs
    <3>2. CASE SansLotDePlus(p)
      <4>1. ventes'[p.id] = ventes[p.id]
        BY <2>2, <3>2 DEF EnCours, SansLotDePlus
      <4> QED BY <2>1, <3>2, <4>1 DEF SansLotDePlus
    <3>3. CASE ~SansLotDePlus(p)
      <4>1. /\ p.vente.site \in Sites /\ p.vente.lots \in Nat
            /\ permis[p.vente.site] \in Nat /\ Remplacee(p) \in Nat
        BY <2>1 DEF TravailSuivi, Lignes, Quantites, IInv, Typage, Travaux, Identifiants, Remplacee
      <4>2. Vendus(p.vente.site, Remplacee(p)) \in Nat
        BY <4>1, VendusNaturels DEF IInv
      <4>3. Vendus(p.vente.site, Remplacee(p))' \in Nat
        <5>1. Cardinality(LotsSaisis(ventes', p.vente.site, Remplacee(p))) \in Nat
          BY LotsFinis DEF VentesBienFormees
        <5>2. classeur[p.vente.site] \in Nat
          BY <4>1 DEF IInv, Typage, Quantites
        <5> QED BY <2>1, <5>1, <5>2 DEF Vendus, Remplacee
      <4>4. p.vente.lots + Vendus(p.vente.site, Remplacee(p)) <= permis[p.vente.site]
        BY <2>1, <3>3 DEF PlaceTenue
      <4>5. Vendus(p.vente.site, Remplacee(p))' <= Vendus(p.vente.site, Remplacee(p))
        BY <2>1, <3>1, <4>1 DEF Vendus, Remplacee
      <4> QED BY <4>1, <4>2, <4>3, <4>4, <4>5
    <3> QED BY <3>2, <3>3
  <2> QED BY <2>4, <2>5
<1>6. VerrousExclusifs'
  <2> SUFFICES ASSUME NEW a \in Requetes, NEW b \in Requetes, a # b
               PROVE  /\ requetes'[a].etape = "comptee" => requetes'[b].etape # "comptee"
                      /\ requetes'[a].etape \in EnCours /\ requetes'[b].etape \in EnCours =>
                           requetes'[a].id # requetes'[b].id \/ requetes'[a].quoi = "creer"
                                                             \/ requetes'[b].quoi = "creer"
    BY DEF VerrousExclusifs
  <2>1. CASE a = r \/ b = r  BY <1>1, <1>2, <2>1 DEF EnCours
  <2>2. CASE a # r /\ b # r  BY <1>2, <2>2 DEF IInv, VerrousExclusifs
  <2> QED BY <2>1, <2>2
<1>7. StockSuivi'
  BY DEF IInv, StockSuivi
<1> QED BY <1>3, <1>4, <1>5, <1>6, <1>7 DEF IInv

LEMMA ArchiverInv ==
  ASSUME VentesBienFormees, IInv, NEW r \in Requetes, Archiver(r)  PROVE IInv'
<1> DEFINE q == requetes[r]
<1>1. /\ q.etape = "prete" /\ Finir(r) /\ UNCHANGED <<classeur, stock, gestes, permis>>
      /\ ventes' = [ventes EXCEPT ![q.id].archivee = TRUE]
  BY DEF Archiver
<1>2. PICK n \in Nat : PanneauSuivi(n)
  BY DEF IInv, Typage
<1>3. q.id \in 1..n /\ q \in Travaux
  BY <1>1, <1>2 DEF IInv, TravailSuivi, PanneauSuivi, EnCours, Typage
<1>4. ventes \in [1..n -> Lignes] /\ ventes' \in [1..n -> Lignes]
  BY <1>1, <1>2, <1>3 DEF PanneauSuivi, Lignes
<1>5. \A i \in (1..n) \ {q.id} : ventes'[i] = ventes[i]
  BY <1>1, <1>4
<1>6. ventes'[q.id].archivee
  BY <1>1, <1>3, <1>4 DEF Lignes
<1>7. ASSUME NEW s \in Sites, NEW sauf  PROVE Vendus(s, sauf)' <= Vendus(s, sauf)
  <2>1. \A i \in 1..n : ventes'[i].site = s /\ ~ventes'[i].archivee =>
          i \in 1..n /\ ventes[i].site = s /\ ~ventes[i].archivee
                     /\ ventes'[i].lots <= ventes[i].lots
    <3> SUFFICES ASSUME NEW i \in 1..n, ventes'[i].site = s, ~ventes'[i].archivee
                 PROVE  /\ ventes[i].site = s /\ ~ventes[i].archivee
                        /\ ventes'[i].lots <= ventes[i].lots
      OBVIOUS
    <3>1. ventes'[i] = ventes[i]
      BY <1>5, <1>6
    <3>2. ventes[i].lots \in Nat
      BY <1>4 DEF Lignes, Quantites
    <3> QED
      BY <3>1, <3>2
  <2>2. Cardinality(LotsSaisis(ventes', s, sauf)) <= Cardinality(LotsSaisis(ventes, s, sauf))
    BY <1>4, <2>1, LotsMoindres DEF VentesBienFormees
  <2>3. /\ Cardinality(LotsSaisis(ventes', s, sauf)) \in Nat
        /\ Cardinality(LotsSaisis(ventes, s, sauf)) \in Nat
    BY <1>4, LotsFinis DEF VentesBienFormees
  <2>4. classeur[s] \in Nat
    BY DEF IInv, Typage, Quantites
  <2> QED BY <1>1, <2>2, <2>3, <2>4 DEF Vendus
<1>8. ASSUME NEW s \in Sites  PROVE Vendus(s, 0)' <= permis[s]
  <2>1. Vendus(s, 0)' <= Vendus(s, 0) /\ Vendus(s, 0) <= permis[s] /\ permis[s] \in Nat
    BY <1>7 DEF IInv, StockSuivi, Typage
  <2>2. Vendus(s, 0) \in Nat
    BY VendusNaturels DEF IInv
  <2>3. Vendus(s, 0)' \in Nat
    <3>1. Cardinality(LotsSaisis(ventes', s, 0)) \in Nat
      BY <1>4, LotsFinis DEF VentesBienFormees
    <3>2. classeur[s] \in Nat
      BY DEF IInv, Typage, Quantites
    <3> QED BY <1>1, <3>1, <3>2 DEF Vendus
  <2> QED BY <2>1, <2>2, <2>3
<1> QED BY <1>1, <1>2, <1>4, <1>5, <1>7, <1>8, Ecriture

LEMMA EnregistrerInv ==
  ASSUME VentesBienFormees, IInv, NEW r \in Requetes, EnregistrerVente(r)  PROVE IInv'
<1> DEFINE q == requetes[r]
           id == IF q.quoi = "creer" THEN Cardinality(DOMAIN ventes) + 1 ELSE q.id
<1>1. /\ q.etape = "comptee" /\ Finir(r) /\ UNCHANGED <<classeur, stock, gestes, permis>>
      /\ ventes' = [v \in DOMAIN ventes \union {id} |-> IF v = id THEN q.vente ELSE ventes[v]]
  BY DEF EnregistrerVente
<1>2. PICK n \in Nat : PanneauSuivi(n)
  BY DEF IInv, Typage
<1>3. ventes \in [1..n -> Lignes] /\ DOMAIN ventes = 1..n /\ Cardinality(DOMAIN ventes) = n
  <2>1. ventes \in [1..n -> Lignes]
    BY <1>2 DEF PanneauSuivi
  <2> QED BY <2>1, FS_Interval
<1>4. /\ q.vente \in Lignes /\ q.quoi \in Operations
      /\ q.quoi = "creer" => q.id = 0
      /\ q.quoi # "creer" => q.id \in 1..n
      /\ q.quoi = "corriger" => ~ventes[q.id].archivee
      /\ SansLotDePlus(q) \/ q.vente.lots + Vendus(q.vente.site, Remplacee(q))
                               <= permis[q.vente.site]
  <2>1. TravailSuivi(r) /\ PlaceTenue(r)
    BY DEF IInv
  <2> QED BY <1>1, <1>3, <2>1 DEF TravailSuivi, PlaceTenue, EnCours
<1> DEFINE m == IF q.quoi = "creer" THEN n + 1 ELSE n
<1>5. /\ m \in {n, n + 1} /\ id \in 1..m /\ DOMAIN ventes \union {id} = 1..m
      /\ (q.quoi = "creer" => id = n + 1) /\ (q.quoi # "creer" => id = q.id)
  BY <1>3, <1>4
<1>6. ventes' \in [1..m -> Lignes] /\ ventes'[id] = q.vente
  BY <1>1, <1>3, <1>4, <1>5
<1>7. /\ \A i \in (1..m) \ {id} : i \in 1..n /\ ventes'[i] = ventes[i]
      /\ \A i \in (1..n) \ {q.id} : ventes'[i] = ventes[i]
  BY <1>1, <1>3, <1>4, <1>5
<1>8. m \in Nat /\ q.vente.site \in Sites /\ q.vente.lots \in Nat
  BY <1>4 DEF Lignes, Quantites
<1>9. ASSUME NEW s \in Sites  PROVE Vendus(s, 0)' <= permis[s]
  <2> DEFINE apres == Cardinality(LotsSaisis(ventes', s, 0))
             avant(sauf) == Cardinality(LotsSaisis(ventes, s, sauf))
  <2>1. /\ Vendus(s, 0)' = classeur[s] + apres
        /\ \A sauf : Vendus(s, sauf) = classeur[s] + avant(sauf)
    BY <1>1 DEF Vendus
  <2>2. classeur[s] \in Nat /\ permis[s] \in Nat /\ classeur[s] + avant(0) <= permis[s]
    BY <2>1 DEF IInv, Typage, Quantites, StockSuivi
  <2>3. apres \in Nat /\ avant(0) \in Nat /\ avant(Remplacee(q)) \in Nat
    BY <1>3, <1>6, <1>8, LotsFinis DEF VentesBienFormees
  <2>4. \A sauf \in {0, id} : apres <= avant(sauf) + (IF q.vente.site = s THEN q.vente.lots ELSE 0)
    <3> SUFFICES ASSUME NEW sauf \in {0, id}
                 PROVE  apres <= avant(sauf) + (IF q.vente.site = s THEN q.vente.lots ELSE 0)
      OBVIOUS
    <3>1. /\ m \in Nat /\ id \in 1..m /\ sauf \in {0, id} /\ LotsMax \in Nat
          /\ ventes \in [1..n -> Lignes] /\ ventes' \in [1..m -> Lignes]
          /\ \A i \in (1..m) \ {id} : i \in 1..n /\ ventes'[i] = ventes[i]
      BY <1>3, <1>5, <1>6, <1>7, <1>8 DEF VentesBienFormees
    <3> HIDE DEF id, m
    <3>2. Cardinality(LotsSaisis(ventes', s, 0))
            <= Cardinality(LotsSaisis(ventes, s, sauf))
               + (IF ventes'[id].site = s THEN ventes'[id].lots ELSE 0)
      <4> HIDE DEF apres, avant
      <4> QED BY <3>1, LotsAjoutes, SMTT(60)
    <3> QED BY <1>6, <3>2
  <2>5. CASE q.vente.site # s
    <3>1. apres <= avant(0)
      <4>1. apres <= avant(0) + 0
        BY <2>4, <2>5
      <4> HIDE DEF apres, avant
      <4> QED BY <2>3, <4>1
    <3> HIDE DEF apres, avant
    <3> QED BY <2>1, <2>2, <2>3, <3>1
  <2>6. CASE q.vente.site = s /\ SansLotDePlus(q)
    <3>1. /\ q.quoi = "corriger" /\ id = q.id /\ q.id \in 1..n /\ ~ventes[q.id].archivee
          /\ ventes[q.id].site = s /\ q.vente.lots <= ventes[q.id].lots
      BY <1>4, <1>5, <2>6 DEF SansLotDePlus
    <3>2. \A i \in 1..m : ventes'[i].site = s /\ ~ventes'[i].archivee =>
            i \in 1..n /\ ventes[i].site = s /\ ~ventes[i].archivee
                       /\ ventes'[i].lots <= ventes[i].lots
      <4> SUFFICES ASSUME NEW i \in 1..m, ventes'[i].site = s, ~ventes'[i].archivee
                   PROVE  i \in 1..n /\ ventes[i].site = s /\ ~ventes[i].archivee
                                     /\ ventes'[i].lots <= ventes[i].lots
        OBVIOUS
      <4>1. CASE i = id  BY <1>6, <3>1, <4>1
      <4>2. CASE i # id
        <5>1. i \in 1..n /\ ventes'[i] = ventes[i]
          BY <1>7, <4>2
        <5>2. ventes[i].lots \in Nat
          BY <1>3, <5>1 DEF Lignes, Quantites
        <5> QED BY <5>1, <5>2
      <4> QED BY <4>1, <4>2
    <3>3. apres <= avant(0)
      BY <1>3, <1>6, <1>8, <3>2, LotsMoindres DEF VentesBienFormees
    <3> HIDE DEF apres, avant
    <3> QED BY <2>1, <2>2, <2>3, <3>3
  <2>7. CASE q.vente.site = s /\ ~SansLotDePlus(q)
    <3>1. Remplacee(q) \in {0, id}
      BY <1>5 DEF Remplacee
    <3>2. apres <= avant(Remplacee(q)) + q.vente.lots
      BY <2>4, <2>7, <3>1
    <3>3. q.vente.lots + (classeur[s] + avant(Remplacee(q))) <= permis[s]
      BY <1>4, <2>1, <2>7
    <3> HIDE DEF apres, avant
    <3> QED BY <1>8, <2>1, <2>2, <2>3, <3>2, <3>3
  <2> QED BY <2>5, <2>6, <2>7
<1> HIDE DEF m, id
<1> QED BY <1>1, <1>2, <1>5, <1>6, <1>7, <1>9, Ecriture

-----------------------------------------------------------------------------
(***************************************************************************)
(* The stock set, and the workbook replaced.                                  *)
(***************************************************************************)
(* Neither touches a sale or a request, and the marks only rise. *)
LEMMA Permission ==
  ASSUME VentesBienFormees, IInv, UNCHANGED <<ventes, requetes>>,
         NEW v \in [Sites -> Nat], Permettre(v)
  PROVE  /\ permis' \in [Sites -> Nat]
         /\ \A s \in Sites : permis[s] <= permis'[s] /\ v[s] <= permis'[s]
         /\ \A r \in Requetes : TravailSuivi(r)'
         /\ VerrousExclusifs'
<1>1. \A s \in Sites : permis[s] \in Nat /\ v[s] \in Nat
  BY DEF IInv, Typage
<1>2. /\ permis' \in [Sites -> Nat]
      /\ \A s \in Sites : permis[s] <= permis'[s] /\ v[s] <= permis'[s]
  BY <1>1, MaxDeDeux DEF Permettre
<1>3. ASSUME NEW r \in Requetes  PROVE TravailSuivi(r)'
  <2>1. TravailSuivi(r) /\ requetes[r] \in Travaux
    BY DEF IInv, Typage
  <2>2. requetes[r].etape \in {"lue", "comptee"} =>
          requetes[r].total <= permis'[requetes[r].vente.site]
    <3> SUFFICES ASSUME requetes[r].etape \in {"lue", "comptee"}
                 PROVE  requetes[r].total <= permis'[requetes[r].vente.site]
      OBVIOUS
    <3>1. /\ requetes[r].vente.site \in Sites
          /\ requetes[r].total <= permis[requetes[r].vente.site]
      BY <2>1 DEF TravailSuivi, Lignes
    <3>2. requetes[r].total \in Nat
      BY <2>1 DEF Travaux, Quantites
    <3> QED BY <1>1, <1>2, <3>1, <3>2
  <2> QED BY <2>1, <2>2 DEF TravailSuivi
<1>4. VerrousExclusifs'
  BY DEF IInv, VerrousExclusifs
<1> QED BY <1>2, <1>3, <1>4

LEMMA ModifierSiteInv ==
  ASSUME VentesBienFormees, IInv, NEW s \in Sites, NEW n \in Quantites, ModifierSite(s, n)
  PROVE  IInv'
<1>1. stock' \in [Sites -> Quantites] /\ stock' \in [Sites -> Nat] /\ gestes' \in 0..GestesMax
  BY DEF ModifierSite, IInv, Typage, Quantites, VentesBienFormees
<1>2. /\ permis' \in [Sites -> Nat]
      /\ \A t \in Sites : permis[t] <= permis'[t] /\ stock'[t] <= permis'[t]
      /\ \A r \in Requetes : TravailSuivi(r)'
      /\ VerrousExclusifs'
  BY <1>1, Permission DEF ModifierSite
<1>3. Typage'
  BY <1>1, <1>2 DEF ModifierSite, IInv, Typage, PanneauSuivi, Finies
<1>4. StockSuivi'
  <2> SUFFICES ASSUME NEW t \in Sites  PROVE Vendus(t, 0)' <= permis'[t]
    BY <1>2 DEF StockSuivi
  <2>1. Vendus(t, 0)' = Vendus(t, 0)
    BY DEF ModifierSite, Vendus
  <2>2. Vendus(t, 0) \in Nat /\ permis[t] \in Nat /\ Vendus(t, 0) <= permis[t]
    BY VendusNaturels DEF IInv, StockSuivi, Typage
  <2> QED BY <1>2, <2>1, <2>2
<1>5. ASSUME NEW r \in Requetes  PROVE PlaceTenue(r)'
  <2> DEFINE q == requetes[r]
  <2> SUFFICES ASSUME q.etape = "comptee", ~SansLotDePlus(q)
               PROVE  q.vente.lots + Vendus(q.vente.site, Remplacee(q)) <= permis'[q.vente.site]
    BY DEF ModifierSite, PlaceTenue, SansLotDePlus, Vendus, Remplacee
  <2>1. /\ q.vente.site \in Sites /\ q.vente.lots \in Nat
        /\ q.vente.lots + Vendus(q.vente.site, Remplacee(q)) <= permis[q.vente.site]
    BY DEF IInv, TravailSuivi, PlaceTenue, Lignes, Quantites
  <2>2. Vendus(q.vente.site, Remplacee(q)) \in Nat /\ permis[q.vente.site] \in Nat
    BY <2>1, VendusNaturels DEF IInv, Typage
  <2> QED BY <1>2, <2>1, <2>2
<1> QED BY <1>2, <1>3, <1>4, <1>5 DEF IInv

LEMMA RemplacerClasseurInv ==
  ASSUME VentesBienFormees, IInv, NEW lus \in [Sites -> Quantites], RemplacerClasseur(lus)
  PROVE  IInv'
<1> DEFINE v == [s \in Sites |-> Vendus(s, 0) - classeur[s] + lus[s]]
<1>1. /\ gestes < GestesMax /\ ~StockVerrouille /\ classeur' = lus /\ Permettre(v)
      /\ gestes' = gestes + 1 /\ UNCHANGED <<ventes, stock, requetes>>
  BY DEF RemplacerClasseur
<1>2. ASSUME NEW s \in Sites
      PROVE  /\ Vendus(s, 0)' \in Nat /\ v[s] = Vendus(s, 0)'
  <2>1. /\ Cardinality(LotsSaisis(ventes, s, 0)) \in Nat
        /\ classeur[s] \in Nat /\ lus[s] \in Nat
    BY VendusNaturels DEF IInv, Typage, Quantites
  <2>2. v[s] = Vendus(s, 0) - classeur[s] + lus[s]
    OBVIOUS
  <2>3. /\ Vendus(s, 0) = classeur[s] + Cardinality(LotsSaisis(ventes, s, 0))
        /\ Vendus(s, 0)' = lus[s] + Cardinality(LotsSaisis(ventes, s, 0))
    BY <1>1 DEF Vendus
  <2> HIDE DEF v
  <2> QED BY <2>1, <2>2, <2>3
<1>3. v \in [Sites -> Nat]
  BY <1>2
<1> HIDE DEF v
<1>4. /\ permis' \in [Sites -> Nat]
      /\ \A s \in Sites : permis[s] <= permis'[s] /\ v[s] <= permis'[s]
      /\ \A r \in Requetes : TravailSuivi(r)'
      /\ VerrousExclusifs'
  BY <1>1, <1>3, Permission
<1>5. Typage'
  <2>1. gestes' \in 0..GestesMax
    BY <1>1 DEF IInv, Typage, VentesBienFormees
  <2>2. \E n \in Nat : PanneauSuivi(n)'
    BY <1>1 DEF IInv, Typage, PanneauSuivi, Finies
  <2> QED BY <1>1, <1>4, <2>1, <2>2 DEF IInv, Typage
<1>6. StockSuivi'
  <2> SUFFICES ASSUME NEW s \in Sites  PROVE stock[s] <= permis'[s] /\ Vendus(s, 0)' <= permis'[s]
    BY <1>1 DEF StockSuivi
  <2>1. stock[s] \in Nat /\ permis[s] \in Nat /\ stock[s] <= permis[s]
    BY DEF IInv, StockSuivi, Typage, Quantites
  <2> QED BY <1>2, <1>4, <2>1
<1>7. ASSUME NEW r \in Requetes  PROVE PlaceTenue(r)'
  BY <1>1 DEF StockVerrouille, PlaceTenue
<1> QED BY <1>4, <1>5, <1>6, <1>7 DEF IInv

-----------------------------------------------------------------------------
LEMMA InitInv == ASSUME VentesBienFormees, InitVentes  PROVE IInv
<1> DEFINE n == Len(Initiales)
<1>1. n \in Nat /\ ventes \in [1..n -> Lignes]
  BY DEF InitVentes, VentesBienFormees
<1>2. Finies = {} /\ Cardinality(Finies) = 0
  BY FS_EmptySet DEF InitVentes, Finies
<1>3. PanneauSuivi(n)
  BY <1>1, <1>2 DEF PanneauSuivi
<1>4. 0 \in Quantites
  BY DEF Quantites, VentesBienFormees
<1>5. requetes \in [Requetes -> Travaux]
  BY <1>4 DEF InitVentes, Travaux, Etapes
<1>6. ASSUME NEW s \in Sites
      PROVE  permis[s] \in Nat /\ stock[s] <= permis[s] /\ Vendus(s, 0) <= permis[s]
  <2>1. Cardinality(LotsSaisis(ventes, s, 0)) \in Nat
    BY <1>1, LotsFinis DEF VentesBienFormees
  <2>2. Vendus(s, 0) \in Nat
    BY <2>1 DEF Vendus, InitVentes
  <2>3. stock[s] \in Nat /\ permis[s] = Max({stock[s], Vendus(s, 0)})
    BY DEF InitVentes, VentesBienFormees, Quantites
  <2> QED BY <2>2, <2>3, MaxDeDeux
<1>7. permis \in [Sites -> Nat]
  BY <1>6 DEF InitVentes
<1>8. Typage
  BY <1>1, <1>3, <1>4, <1>5, <1>7 DEF InitVentes, Typage, VentesBienFormees
<1>9. \A r \in Requetes : TravailSuivi(r) /\ PlaceTenue(r)
  BY DEF InitVentes, TravailSuivi, PlaceTenue, EnCours
<1>10. VerrousExclusifs
  BY DEF InitVentes, VerrousExclusifs, EnCours
<1> QED BY <1>6, <1>8, <1>9, <1>10 DEF IInv, StockSuivi

LEMMA NextInv == ASSUME VentesBienFormees, IInv, [NextVentes]_varsVentes  PROVE IInv'
<1>1. CASE UNCHANGED varsVentes
  BY <1>1 DEF varsVentes, IInv, Typage, PanneauSuivi, Finies, TravailSuivi, PlaceTenue, SansLotDePlus,
     Vendus, Remplacee, VerrousExclusifs, StockSuivi
<1>2. ASSUME NEW r \in Requetes, Creer(r)  PROVE IInv'  BY <1>2, CreerInv
<1>3. ASSUME NEW r \in Requetes, Viser(r)  PROVE IInv'  BY <1>3, ViserInv
<1>4. ASSUME NEW r \in Requetes, VerrouillerVente(r)  PROVE IInv'  BY <1>4, VerrouillerVenteInv
<1>5. ASSUME NEW r \in Requetes, RefuserArchivee(r)  PROVE IInv'
  BY <1>5, FinirInv DEF RefuserArchivee
<1>6. ASSUME NEW r \in Requetes, AccorderLots(r)  PROVE IInv'  BY <1>6, AccorderLotsInv
<1>7. ASSUME NEW r \in Requetes, RefuserLots(r)  PROVE IInv'
  BY <1>7, FinirInv DEF RefuserLots
<1>8. ASSUME NEW r \in Requetes, EnregistrerVente(r)  PROVE IInv'  BY <1>8, EnregistrerInv
<1>9. ASSUME NEW r \in Requetes, Archiver(r)  PROVE IInv'  BY <1>9, ArchiverInv
<1>10. ASSUME NEW r \in Requetes, Interrompre(r)  PROVE IInv'
  BY <1>10, FinirInv DEF Interrompre
<1>11. ASSUME NEW s \in Sites, NEW n \in Quantites, ModifierSite(s, n)  PROVE IInv'
  BY <1>11, ModifierSiteInv
<1>12. ASSUME NEW lus \in [Sites -> Quantites], RemplacerClasseur(lus)  PROVE IInv'
  BY <1>12, RemplacerClasseurInv
<1> QED BY <1>1, <1>2, <1>3, <1>4, <1>5, <1>6, <1>7, <1>8, <1>9, <1>10, <1>11, <1>12 DEF NextVentes

(* The panel, its sites and its requests are what they should be: a new sale takes a    *)
(* number of its own, and there is one for each request.                                  *)
THEOREM VentesTypees == VentesBienFormees /\ SpecVentes => []TypeOKVentes
<1> SUFFICES ASSUME VentesBienFormees  PROVE SpecVentes => []TypeOKVentes
  OBVIOUS
<1>1. InitVentes => IInv
  BY InitInv
<1>2. IInv /\ [NextVentes]_varsVentes => IInv'
  BY NextInv
<1>3. IInv => TypeOKVentes
  <2> SUFFICES ASSUME IInv  PROVE TypeOKVentes
    OBVIOUS
  <2>1. PICK n \in Nat : ventes \in [1..n -> Lignes]
    BY DEF IInv, Typage, PanneauSuivi
  <2>2. 1..n \in SUBSET Identifiants
    BY <2>1, IdentifiantsSuivis DEF IInv
  <2> QED BY <2>1, <2>2 DEF TypeOKVentes, IInv, Typage
<1> QED BY <1>1, <1>2, <1>3, PTL DEF SpecVentes

(* Whatever sales, corrections, archives and restorations overlap, whoever is cut off,  *)
(* whenever the stock is set and a workbook deposited: no more lots of a site are sold    *)
(* than its stock, or a workbook, has allowed at some time.                                 *)
THEOREM StockJamaisDepasse == VentesBienFormees /\ SpecVentes => []StockTenu
<1> SUFFICES ASSUME VentesBienFormees  PROVE SpecVentes => []StockTenu
  OBVIOUS
<1>1. InitVentes => IInv
  BY InitInv
<1>2. IInv /\ [NextVentes]_varsVentes => IInv'
  BY NextInv
<1>3. IInv => StockTenu
  BY DEF IInv, StockSuivi, StockTenu
<1> QED BY <1>1, <1>2, <1>3, PTL DEF SpecVentes

-----------------------------------------------------------------------------
(***************************************************************************)
(* The path that enters a sale.                                              *)
(***************************************************************************)
Numeros == Nat \union {Rien}

Ecrans == [pas : 1..9, vente : Numeros, represente : BOOLEAN, draft : Drafts]

Envois == [etape : {"repos", "parti", "acceptee", "epuisee", "refusee"}, vente : Numeros,
           draft : Drafts]

TypageParcours ==
  /\ saisie \in Ecrans
  /\ depots \in [Fenetres -> Envois]
  /\ DOMAIN registre \subseteq Numeros /\ IsFiniteSet(DOMAIN registre)
  /\ registre \in [DOMAIN registre -> Drafts]

(* A sale paid cash is paid in full, which the screen of the payment alone asks, but    *)
(* for one that was not when the panel got it and whose payment nobody has changed.       *)
Admis(d, v) ==
  Soldee(d) \/ (v # Rien /\ v \in DOMAIN Panneau /\ MemePaiement(d, Panneau[v]))

(* A sale of the panel is as it was before, or as the path has written it. *)
RegistreSuivi ==
  \A v \in DOMAIN registre :
    \/ v \in DOMAIN Panneau /\ registre[v] = Panneau[v]
    \/ /\ Entiere(registre[v])
       /\ Soldee(registre[v]) \/ (v \in DOMAIN Panneau /\ MemePaiement(registre[v], Panneau[v]))

(* The invariant: nothing is asked of the screens before the summary, which a path    *)
(* reaches through the payment or from a sale of the panel.  A stock run out puts the    *)
(* agent back before the payment, whatever he left unfinished behind him.                  *)
ParcoursInv ==
  /\ TypageParcours /\ RegistreSuivi
  /\ saisie.pas = 9 => Admis(saisie.draft, saisie.vente)
  /\ \A n \in Fenetres :
       depots[n].etape = "parti" =>
         depots[n].draft.telephone = "lisible" /\ Admis(depots[n].draft, depots[n].vente)

(* The places of the screens. *)
LEMMA Rangs ==
  /\ RECAP = 9 /\ ECRANS[9] = "recap" /\ ECRANS[8] = "paiement"
  /\ \A e \in {"telephone", "nom", "identite", "site", "canal", "suivi", "lots", "paiement"} :
       ECRANS[9] # e
  /\ rang("identite") = 3 /\ rang("canal") = 5 /\ rang("suivi") = 6
  /\ rang("lots") = 7
BY DEF RECAP, ECRANS, rang

(* An amount computed from a price and a number of lots is one. *)
LEMMA Montant ==
  ASSUME ParcoursBienForme, NEW d \in Drafts
  PROVE  d.prix * d.lots \in 0..(PrixMax * LotsVenteMax) /\ PrixTotal(d) = d.prix * d.lots
<1>1. ASSUME NEW p \in Nat, NEW pp \in Nat, NEW l \in Nat, NEW ll \in Nat, p <= pp, l <= ll
      PROVE  p * l \in 0..(pp * ll)
  <2>1. p * l <= pp * l /\ pp * l <= pp * ll /\ 0 <= p * l
    BY <1>1
  <2>2. p * l \in Int /\ pp * l \in Int /\ pp * ll \in Int
    OBVIOUS
  <2> QED BY <2>1, <2>2
<1>2. /\ d.prix \in Nat /\ d.lots \in Nat /\ d.prix <= PrixMax /\ d.lots <= LotsVenteMax
      /\ PrixMax \in Nat /\ LotsVenteMax \in Nat
  BY DEF Drafts, ParcoursBienForme
<1> QED BY <1>1, <1>2 DEF PrixTotal

LEMMA ComptantSolde ==
  ASSUME ParcoursBienForme, NEW d \in Drafts
  PROVE  comptantSolde(d) \in Drafts
BY Montant DEF Drafts, comptantSolde

LEMMA Superficie ==
  ASSUME NEW s \in DOMAIN Plans
  PROVE  DOMAIN Plans[s].superficies \subseteq Superficies
         /\ Plans[s].superficie \in Superficies
<1>1. DOMAIN Plans[s].superficies \in {DOMAIN Plans[t].superficies : t \in DOMAIN Plans}
  OBVIOUS
<1>2. Plans[s].superficie \in {Plans[t].superficie : t \in DOMAIN Plans}
  OBVIOUS
<1> QED BY <1>1, <1>2 DEF Superficies

LEMMA AvecSite ==
  ASSUME ParcoursBienForme, NEW d \in Drafts, NEW s \in DOMAIN Plans
  PROVE  avecSite(d, s) \in Drafts
<1>1. ASSUME NEW sup \in Superficies \union {Rien}, NEW p \in 0..PrixMax
      PROVE  comptantSolde([d EXCEPT !.site = s, !.superficie = sup, !.prix = p])
               \in Drafts
  <2>1. [d EXCEPT !.site = s, !.superficie = sup, !.prix = p] \in Drafts
    BY DEF Drafts
  <2> QED BY <2>1, ComptantSolde
<1>2. /\ Plans[s].prix \in 0..PrixMax
      /\ \A a \in DOMAIN Plans[s].superficies : Plans[s].superficies[a] \in 0..PrixMax
  BY DEF ParcoursBienForme
<1>3. d.superficie \in Superficies \union {Rien} /\ d.prix \in 0..PrixMax
  BY DEF Drafts
<1>4. CASE DOMAIN Plans[s].superficies = {}
  <2> DEFINE sup == IF d.superficie # Rien THEN d.superficie ELSE Plans[s].superficie
             p == IF Plans[s].prix > 0 THEN Plans[s].prix ELSE d.prix
  <2>1. sup \in Superficies \union {Rien} /\ p \in 0..PrixMax
    BY <1>2, <1>3, Superficie
  <2>2. avecSite(d, s) = comptantSolde([d EXCEPT !.site = s, !.superficie = sup, !.prix = p])
    BY <1>4 DEF avecSite
  <2> HIDE DEF sup, p
  <2> QED BY <1>1, <2>1, <2>2
<1>5. CASE DOMAIN Plans[s].superficies # {}
  <2>1. 0 \in 0..PrixMax
    BY DEF ParcoursBienForme
  <2> QED BY <1>1, <1>2, <1>3, <1>5, <2>1, Superficie DEF avecSite
<1> QED BY <1>4, <1>5

-----------------------------------------------------------------------------
(* A gesture on the screen keeps what it should if it leaves the draft a sale, and    *)
(* the summary with a sale paid as it was.                                               *)
LEMMA EcranSain ==
  ASSUME ParcoursInv, UNCHANGED <<depots, registre>>,
         saisie' \in Ecrans, saisie'.pas = 9 => Admis(saisie'.draft, saisie'.vente)
  PROVE  ParcoursInv'
BY DEF ParcoursInv, TypageParcours, RegistreSuivi, Fenetres

(* What is admitted of a sale depends on its payment only. *)
LEMMA MemeAdmis ==
  ASSUME NEW d, NEW e, NEW v, MemePaiement(d, e), Admis(e, v)
  PROVE  Admis(d, v)
BY DEF Admis, MemePaiement, Soldee, PrixTotal

(* Before the summary, an answer may be anything. *)
LEMMA AvantLeRecap ==
  ASSUME ParcoursInv, NEW d \in Drafts,
         NEW e \in {"telephone", "nom", "identite", "site", "canal", "suivi", "lots", "paiement"}
  PROVE  /\ Changer(e, d) => ParcoursInv'
         /\ \A c \in {"identite", "canal", "suivi"} :
              ChangerEtAller(e, d, c) => ParcoursInv'
<1>1. ASSUME Sur(e) PROVE saisie.pas # 9
  BY <1>1, Rangs DEF Sur
<1>2. ASSUME Changer(e, d) PROVE ParcoursInv'
  BY <1>1, <1>2, EcranSain DEF Changer, ParcoursInv, TypageParcours, Ecrans
<1>3. ASSUME NEW c \in {"identite", "canal", "suivi"}, ChangerEtAller(e, d, c)
      PROVE  ParcoursInv'
  <2>1. PICK p \in 1..9 : p # 9 /\ p = rang(c)
    BY Rangs
  <2>2. saisie' \in Ecrans /\ saisie'.pas = p
    <3>1. saisie' = [saisie EXCEPT !.draft = d, !.pas = p]
      BY <1>3, <2>1 DEF ChangerEtAller
    <3>2. saisie \in Ecrans
      BY DEF ParcoursInv, TypageParcours
    <3> QED BY <3>1, <3>2 DEF Ecrans
  <2>3. UNCHANGED <<depots, registre>>
    BY <1>3 DEF ChangerEtAller
  <2> QED BY <2>1, <2>2, <2>3, EcranSain
<1> QED BY <1>2, <1>3

(* On the summary, an answer leaves what is paid as it is. *)
LEMMA AuRecap ==
  ASSUME ParcoursInv, NEW d \in Drafts, MemePaiement(d, saisie.draft),
         Changer("recap", d)
  PROVE  ParcoursInv'
<1>1. saisie' \in Ecrans /\ saisie'.pas = saisie.pas /\ saisie'.vente = saisie.vente
      /\ saisie'.draft = d
  BY DEF Changer, ParcoursInv, TypageParcours, Ecrans
<1>2. Admis(saisie.draft, saisie.vente) => Admis(d, saisie.vente)
  BY MemeAdmis
<1> QED BY <1>1, <1>2, EcranSain DEF Changer, ParcoursInv

LEMMA FermeType ==
  ASSUME ParcoursBienForme
  PROVE  /\ NOUVEAU \in Drafts
         /\ Ferme \in Ecrans /\ Ferme.pas = 1
         /\ Repos \in Envois /\ Repos.etape = "repos"
<1>1. NOUVEAU \in Drafts
  BY DEF Drafts, NOUVEAU, ParcoursBienForme
<1>2. Rien \in Numeros
  BY DEF Numeros
<1> QED BY <1>1, <1>2 DEF Ecrans, Envois, Ferme, Repos

LEMMA RetourSain ==
  ASSUME ParcoursInv, Retour  PROVE ParcoursInv'
<1>1. saisie.pas \in 1..9 /\ saisie.pas > 1 /\ saisie' = [saisie EXCEPT !.pas = saisie.pas - 1]
  BY DEF ParcoursInv, TypageParcours, Ecrans, Retour
<1>2. PICK p \in 1..9 : p = saisie.pas - 1 /\ p # 9
  BY <1>1
<1>3. saisie' \in Ecrans /\ saisie'.pas = p
  BY <1>1, <1>2 DEF ParcoursInv, TypageParcours, Ecrans
<1> QED BY <1>2, <1>3, EcranSain DEF Retour

LEMMA Draft == ASSUME ParcoursInv  PROVE saisie.draft \in Drafts
BY DEF ParcoursInv, TypageParcours, Ecrans

(* To answer No to "represented", the only answer kept outside the draft. *)
LEMMA RepresenterSain ==
  ASSUME ParcoursInv, NEW oui \in BOOLEAN, Representer(oui)  PROVE ParcoursInv'
<1> DEFINE m == IF oui THEN saisie.draft.mandataire ELSE "vide"
<1>1. saisie \in Ecrans /\ m \in {"vide", "incomplet", "complet"}
  BY DEF ParcoursInv, TypageParcours, Ecrans, Drafts
<1>2. saisie' = [[saisie EXCEPT !.represente = oui] EXCEPT !.draft.mandataire = m]
  BY <1>1 DEF Representer, Ecrans, Drafts
<1>3. saisie' \in Ecrans /\ saisie'.pas = saisie.pas
  BY <1>1, <1>2 DEF Ecrans, Drafts
<1>4. saisie.pas # 9
  BY Rangs DEF Representer, Sur
<1> QED BY <1>3, <1>4, EcranSain DEF Representer

LEMMA SaisieSaine ==
  ASSUME ParcoursBienForme, ParcoursInv, Saisir  PROVE ParcoursInv'
<1> DEFINE d == saisie.draft
<1>0. d \in Drafts
  BY Draft
<1>1. ASSUME NEW t \in {"vide", "illisible", "lisible"}, SaisirTelephone(t)
      PROVE  ParcoursInv'
  <2>1. [d EXCEPT !.telephone = t] \in Drafts
    BY <1>0 DEF Drafts
  <2> QED BY <1>1, <2>1, AvantLeRecap DEF SaisirTelephone
<1>2. ASSUME ChoisirFiche  PROVE ParcoursInv'
  <2>1. [d EXCEPT !.telephone = "lisible", !.client = TRUE] \in Drafts
    BY <1>0 DEF Drafts
  <2> QED BY <1>2, <2>1, AvantLeRecap DEF ChoisirFiche
<1>3. ASSUME NEW b \in BOOLEAN, SaisirNom(b)  PROVE ParcoursInv'
  <2>1. [d EXCEPT !.client = b] \in Drafts
    BY <1>0 DEF Drafts
  <2> QED BY <1>3, <2>1, AvantLeRecap DEF SaisirNom
<1>4. ASSUME NEW b \in BOOLEAN, SaisirPremier(b)  PROVE ParcoursInv'
  <2>1. [d EXCEPT !.premier = b] \in Drafts
    BY <1>0 DEF Drafts
  <2> QED BY <1>4, <2>1, AvantLeRecap DEF SaisirPremier
<1>5. ASSUME NEW b \in BOOLEAN, SaisirDate(b)  PROVE ParcoursInv'
  <2>1. /\ [d EXCEPT !.date = b] \in Drafts
        /\ MemePaiement([d EXCEPT !.date = b], d)
    BY <1>0 DEF Drafts, MemePaiement
  <2> QED BY <1>5, <2>1, AuRecap DEF SaisirDate
<1>6. ASSUME NEW m \in {"vide", "incomplet", "complet"}, SaisirMandataire(m)
      PROVE  ParcoursInv'
  <2>1. [d EXCEPT !.mandataire = m] \in Drafts
    BY <1>0 DEF Drafts
  <2> QED BY <1>6, <2>1, AvantLeRecap DEF SaisirMandataire
<1>7. ASSUME NEW s \in DOMAIN Plans, ChoisirSite(s)  PROVE ParcoursInv'
  BY <1>0, <1>7, AvecSite, AvantLeRecap DEF ChoisirSite
<1>8. ASSUME ChoisirCanal  PROVE ParcoursInv'
  <2>1. [d EXCEPT !.canal = TRUE] \in Drafts
    BY <1>0 DEF Drafts
  <2> QED BY <1>8, <2>1, AvantLeRecap DEF ChoisirCanal
<1>9. ASSUME NEW s \in Superficies, ChoisirSuperficie(s)  PROVE ParcoursInv'
  <2>1. PICK p \in 0..PrixMax : p = Plans[d.site].superficies[s]
    BY <1>0, <1>9 DEF ChoisirSuperficie, ParcoursBienForme, Drafts
  <2>2. [d EXCEPT !.superficie = s, !.prix = p] \in Drafts
    BY <1>0 DEF Drafts
  <2>3. comptantSolde([d EXCEPT !.superficie = s, !.prix = p]) \in Drafts
    BY <2>2, ComptantSolde
  <2> QED BY <1>9, <2>1, <2>3, AvantLeRecap DEF ChoisirSuperficie
<1>10. ASSUME NEW s \in Superficies, SaisirSuperficie(s)  PROVE ParcoursInv'
  <2>1. /\ [d EXCEPT !.superficie = s] \in Drafts
        /\ MemePaiement([d EXCEPT !.superficie = s], d)
    BY <1>0 DEF Drafts, MemePaiement
  <2> QED BY <1>10, <2>1, AuRecap DEF SaisirSuperficie
<1>11. ASSUME NEW n \in 1..LotsVenteMax, SaisirLots(n)  PROVE ParcoursInv'
  <2>1. [d EXCEPT !.lots = n] \in Drafts
    BY <1>0 DEF Drafts
  <2> QED BY <1>11, <2>1, ComptantSolde, AvantLeRecap DEF SaisirLots
<1>12. ASSUME NEW p \in 0..PrixMax, SaisirPrix(p)  PROVE ParcoursInv'
  <2>1. [d EXCEPT !.prix = p] \in Drafts
    BY <1>0 DEF Drafts, ParcoursBienForme
  <2> QED BY <1>12, <2>1, ComptantSolde, AvantLeRecap DEF SaisirPrix
<1>13. ASSUME NEW mode \in {"COMPTANT", "CREDIT"}, ChangerMode(mode)  PROVE ParcoursInv'
  <2>1. /\ [d EXCEPT !.mode = mode] \in Drafts
        /\ [[d EXCEPT !.mode = mode] EXCEPT !.acompte = 0] \in Drafts
    <3>1. 0 \in 0..(PrixMax * LotsVenteMax)
      <4>1. \A p, l \in Nat : 0 \in 0..(p * l)
        OBVIOUS
      <4> QED BY <4>1 DEF ParcoursBienForme
    <3> QED BY <1>0, <3>1 DEF Drafts
  <2> QED BY <1>13, <2>1, ComptantSolde, AvantLeRecap DEF ChangerMode
<1>14. ASSUME NEW a \in 0..(PrixMax * LotsVenteMax), ChangerMontant(a)  PROVE ParcoursInv'
  <2>1. [d EXCEPT !.acompte = a] \in Drafts
    BY <1>0 DEF Drafts
  <2> QED BY <1>14, <2>1, AvantLeRecap DEF ChangerMontant
<1>15. ASSUME NEW n \in {0, 1}, SaisirNombre(n)  PROVE ParcoursInv'
  <2>1. [d EXCEPT !.nombre = n] \in Drafts
    BY <1>0 DEF Drafts
  <2> QED BY <1>15, <2>1, AvantLeRecap DEF SaisirNombre
<1>16. ASSUME ChoisirJour  PROVE ParcoursInv'
  <2>1. [d EXCEPT !.jour = TRUE, !.premier = TRUE] \in Drafts
    BY <1>0 DEF Drafts
  <2> QED BY <1>16, <2>1, AvantLeRecap DEF ChoisirJour
<1> QED
  BY <1>1, <1>2, <1>3, <1>4, <1>5, <1>6, <1>7, <1>8, <1>9, <1>10, <1>11, <1>12, <1>13, <1>14,
     <1>15, <1>16, RepresenterSain DEF Saisir

-----------------------------------------------------------------------------
(* The path opens on a sale of the panel, its payment as it is, or on the first screen. *)
LEMMA OuvertureSaine ==
  ASSUME ParcoursInv, ParcoursBienForme,
         NEW v \in DOMAIN registre \union {Rien}, OuvrirParcours(v)
  PROVE  ParcoursInv'
<1>1. CASE v = Rien
  <2>1. Ferme \in Ecrans /\ Ferme.pas = 1
    BY FermeType
  <2> QED BY <1>1, <2>1, EcranSain DEF OuvrirParcours
<1>2. CASE v # Rien
  <2> DEFINE b == brouillonDe(v)
  <2>1. registre[v] \in Drafts /\ v \in Numeros /\ v \in DOMAIN registre
    BY <1>2 DEF ParcoursInv, TypageParcours
  <2>2. b \in Drafts /\ MemePaiement(b, registre[v])
    BY <2>1 DEF brouillonDe, Drafts, MemePaiement
  <2>3. Admis(registre[v], v)
    BY <1>2, <2>1 DEF ParcoursInv, RegistreSuivi, Admis, MemePaiement
  <2>4. Admis(b, v)
    BY <2>2, <2>3, MemeAdmis
  <2>5. saisie' = [pas |-> 9, vente |-> v, represente |-> registre[v].mandataire # "vide",
                  draft |-> b]
    BY <1>2, Rangs DEF OuvrirParcours
  <2> HIDE DEF b
  <2>6. saisie' \in Ecrans /\ saisie'.draft = b /\ saisie'.vente = v
    BY <2>1, <2>2, <2>5 DEF Ecrans
  <2> QED BY <2>4, <2>6, EcranSain DEF OuvrirParcours
<1> QED BY <1>1, <1>2

LEMMA SuiteSaine ==
  ASSUME ParcoursBienForme, ParcoursInv, ContinuerSaisie  PROVE ParcoursInv'
<1>1. /\ saisie.pas \in 1..9 /\ saisie.pas # 9 /\ saisie' = [saisie EXCEPT !.pas = saisie.pas + 1]
      /\ ~manqueParcours(ECRANS[saisie.pas], saisie.draft, saisie.represente)
  BY Rangs DEF ParcoursInv, TypageParcours, Ecrans, ContinuerSaisie
<1>2. PICK p \in 1..9 : p = saisie.pas + 1
  BY <1>1
<1>3. saisie' \in Ecrans /\ saisie'.pas = p /\ saisie'.draft = saisie.draft
  BY <1>1, <1>2 DEF ParcoursInv, TypageParcours, Ecrans
<1>4. ASSUME p = 9 PROVE Soldee(saisie.draft)
  <2>1. saisie.pas = 8
    BY <1>1, <1>2, <1>4
  <2>2. ~manquePaiement(saisie.draft)
    BY <1>1, <2>1, Rangs DEF manqueParcours
  <2> QED BY <2>2 DEF manquePaiement, Soldee
<1> QED BY <1>3, <1>4, EcranSain DEF ContinuerSaisie, Admis

-----------------------------------------------------------------------------
(* What becomes of a sending that is not a sale sent or recorded. *)
LEMMA EnvoiHorsRegistre ==
  ASSUME ParcoursInv, NEW n \in Fenetres, NEW e \in Envois, e.etape # "parti",
         depots' = [depots EXCEPT ![n] = e], UNCHANGED registre,
         saisie' \in Ecrans, saisie'.pas = 9 => Admis(saisie'.draft, saisie'.vente)
  PROVE  ParcoursInv'
<1>1. TypageParcours' /\ RegistreSuivi'
  BY DEF ParcoursInv, TypageParcours, RegistreSuivi, Fenetres
<1> QED BY <1>1 DEF ParcoursInv, TypageParcours, Fenetres

LEMMA ReposSain ==
  ASSUME ParcoursBienForme, ParcoursInv, NEW n \in Fenetres,
         depots' = [depots EXCEPT ![n] = Repos], UNCHANGED registre,
         saisie' \in Ecrans, saisie'.pas = 9 => Admis(saisie'.draft, saisie'.vente)
  PROVE  ParcoursInv'
BY FermeType, EnvoiHorsRegistre

(* The request gets an answer other than the row it asked for. *)
LEMMA ReponseSaine ==
  ASSUME ParcoursInv, NEW n \in Fenetres, NEW etape \in {"acceptee", "epuisee", "refusee"},
         depots' = [depots EXCEPT ![n].etape = etape], UNCHANGED <<saisie, registre>>
  PROVE  ParcoursInv'
<1> DEFINE e == [depots[n] EXCEPT !.etape = etape]
<1>1. e \in Envois /\ e.etape # "parti" /\ depots' = [depots EXCEPT ![n] = e]
  BY DEF ParcoursInv, TypageParcours, Envois
<1>2. saisie' \in Ecrans /\ (saisie'.pas = 9 => Admis(saisie'.draft, saisie'.vente))
  BY DEF ParcoursInv, TypageParcours
<1> QED BY <1>1, <1>2, EnvoiHorsRegistre

(* An opening is numbered. *)
Ouvertes == fenetre \in 0..FenetresMax /\ ouvertes \in 0..FenetresMax

LEMMA OuvertesInitiales == ParcoursBienForme /\ InitParcours => Ouvertes
BY DEF ParcoursBienForme, InitParcours, Ouvertes

LEMMA EnvoiSain == ASSUME ParcoursInv, Ouvertes, EnvoyerSaisie  PROVE ParcoursInv'
<1>1. fenetre \in Fenetres /\ saisie.pas = 9 /\ saisie.draft.telephone = "lisible"
  BY Rangs DEF EnvoyerSaisie, Sur, Fenetres, Ouvertes, ParcoursInv,
     TypageParcours, Ecrans, ECRANS
<1> DEFINE e == [etape |-> "parti", vente |-> saisie.vente, draft |-> saisie.draft]
<1>2. e \in Envois /\ e.draft.telephone = "lisible" /\ Admis(e.draft, e.vente)
  BY <1>1 DEF ParcoursInv, TypageParcours, Ecrans, Envois
<1>3. depots' = [depots EXCEPT ![fenetre] = e] /\ UNCHANGED <<saisie, registre>>
  BY DEF EnvoyerSaisie
<1>4. TypageParcours' /\ RegistreSuivi'
  BY <1>1, <1>2, <1>3 DEF ParcoursInv, TypageParcours, RegistreSuivi, Fenetres
<1> QED BY <1>1, <1>2, <1>3, <1>4 DEF ParcoursInv, TypageParcours, Fenetres

(* What the server takes is whole but for the money: it asks for all but a telephone that *)
(* reads, which the summary asks; and the row keeps the payment that was sent.              *)
LEMMA LigneEntiere ==
  ASSUME NEW d \in Drafts, NEW v, Recevable(d, v), d.telephone = "lisible"
  PROVE  Ligne(d) \in Drafts /\ Entiere(Ligne(d)) /\ MemePaiement(Ligne(d), d)
<1>1. /\ d.client /\ d.date /\ d.site # Rien /\ d.canal /\ d.prix > 0 /\ d.mandataire # "incomplet"
      /\ d.mode = "CREDIT" => d.nombre \notin {Rien, 0} /\ d.jour = d.premier
  BY DEF Recevable, Preparable, echeancierCredit
<1>2. CASE d.mode = "CREDIT"
  <2>1. Ligne(d) = d /\ d.nombre = 1
    BY <1>1, <1>2 DEF Ligne, Drafts
  <2> QED BY <1>1, <1>2, <2>1 DEF Entiere, MemePaiement
<1>3. CASE d.mode = "COMPTANT"
  <2> DEFINE l == [d EXCEPT !.nombre = Rien, !.jour = FALSE, !.premier = FALSE]
  <2>1. Ligne(d) = l
    BY <1>3 DEF Ligne
  <2>2. l \in Drafts
    BY DEF Drafts
  <2>3. /\ l.telephone = d.telephone /\ l.site = d.site /\ l.prix = d.prix /\ l.lots = d.lots
        /\ l.mandataire = d.mandataire /\ l.mode = d.mode /\ l.acompte = d.acompte
    BY DEF Drafts
  <2>4. l.client = d.client /\ l.date = d.date /\ l.canal = d.canal
    BY DEF Drafts
  <2> HIDE DEF l
  <2> QED BY <1>1, <1>3, <2>1, <2>2, <2>3, <2>4 DEF Entiere, MemePaiement
<1> QED BY <1>2, <1>3 DEF Drafts

LEMMA EnregistrementSain ==
  ASSUME ParcoursBienForme, ParcoursInv, NEW n \in Fenetres,
         EnregistrerSaisie(n)
  PROVE  ParcoursInv'
<1> DEFINE e == depots[n]
           id == IF e.vente = Rien THEN Cardinality(DOMAIN registre) + 1 ELSE e.vente
           l == Ligne(e.draft)
<1>1. /\ e \in Envois /\ e.draft \in Drafts
      /\ e.draft.telephone = "lisible" /\ Admis(e.draft, e.vente)
  BY DEF ParcoursInv, TypageParcours, Envois, EnregistrerSaisie
<1>2. l \in Drafts /\ Entiere(l) /\ MemePaiement(l, e.draft)
  BY <1>1, LigneEntiere DEF EnregistrerSaisie
<1>3. Soldee(l) \/ (id \in DOMAIN Panneau /\ MemePaiement(l, Panneau[id]))
  <2>1. Admis(l, e.vente)
    BY <1>1, <1>2, MemeAdmis
  <2> HIDE DEF l
  <2> QED BY <2>1 DEF Admis
<1>4. id \in Numeros
  <2>1. Cardinality(DOMAIN registre) \in Nat
    BY FS_CardinalityType DEF ParcoursInv, TypageParcours
  <2> QED BY <1>1, <2>1 DEF Numeros, Envois
<1>5. registre' = [v \in DOMAIN registre \union {id} |-> IF v = id THEN l ELSE registre[v]]
  BY DEF EnregistrerSaisie
<1>6. DOMAIN registre' = DOMAIN registre \union {id}
  BY <1>5
<1>7. /\ DOMAIN registre' \subseteq Numeros /\ IsFiniteSet(DOMAIN registre')
      /\ registre' \in [DOMAIN registre' -> Drafts]
  <2> HIDE DEF id, l
  <2> QED BY <1>2, <1>4, <1>5, <1>6, FS_AddElement DEF ParcoursInv, TypageParcours
<1>8. RegistreSuivi'
  <2>1. RegistreSuivi
    BY DEF ParcoursInv
  <2> HIDE DEF id, l
  <2> QED BY <2>1, <1>2, <1>3, <1>5, <1>6 DEF RegistreSuivi
<1>9. depots' \in [Fenetres -> Envois]
      /\ \A m \in Fenetres : depots'[m].etape = "parti" => depots'[m] = depots[m]
  BY <1>1 DEF ParcoursInv, TypageParcours, Envois, EnregistrerSaisie
<1>10. UNCHANGED saisie
  BY DEF EnregistrerSaisie
<1> QED BY <1>7, <1>8, <1>9, <1>10 DEF ParcoursInv, TypageParcours, Fenetres

LEMMA SuccesSain ==
  ASSUME ParcoursBienForme, ParcoursInv, NEW n \in Fenetres,
         Reussir(n)
  PROVE  ParcoursInv'
<1>1. /\ depots' = [depots EXCEPT ![n] = Repos] /\ UNCHANGED registre
      /\ saisie' = Ferme
  BY DEF Reussir
<1>2. saisie' \in Ecrans /\ saisie'.pas # 9
  BY <1>1, FermeType
<1> QED BY <1>1, <1>2, ReposSain

LEMMA EchecSain ==
  ASSUME ParcoursBienForme, ParcoursInv, NEW n \in Fenetres,
         EchouerSaisie(n)
  PROVE  ParcoursInv'
<1>1. \/ saisie' = [saisie EXCEPT !.pas = rang("lots")]
      \/ saisie' = saisie
  BY DEF EchouerSaisie
<1>2. saisie' \in Ecrans /\ (saisie'.pas = 9 => Admis(saisie'.draft, saisie'.vente))
  BY <1>1, Rangs DEF ParcoursInv, TypageParcours, Ecrans
<1> QED BY <1>2, ReposSain DEF EchouerSaisie

LEMMA PerteSaine ==
  ASSUME ParcoursBienForme, ParcoursInv, NEW n \in Fenetres,
         Perdre(n)
  PROVE  ParcoursInv'
BY ReposSain DEF Perdre, ParcoursInv, TypageParcours

LEMMA ParcoursAuDebut == ASSUME ParcoursBienForme, InitParcours  PROVE ParcoursInv
<1>1. /\ DOMAIN registre = 1..Len(Panneau) /\ Len(Panneau) \in Nat
      /\ registre \in [DOMAIN registre -> Drafts]
  BY DEF InitParcours, ParcoursBienForme
<1>2. IsFiniteSet(DOMAIN registre)
  <2>1. \A n \in Nat : IsFiniteSet(1..n)
    BY FS_Interval
  <2> QED BY <1>1, <2>1
<1>3. TypageParcours /\ RegistreSuivi
  BY <1>1, <1>2, FermeType DEF InitParcours, TypageParcours, RegistreSuivi, Numeros
<1> QED BY <1>3, FermeType DEF ParcoursInv, InitParcours

LEMMA OuvertesPas ==
  ASSUME ParcoursBienForme, Ouvertes, [NextParcours]_varsParcours
  PROVE  Ouvertes'
<1>1. \/ UNCHANGED <<fenetre, ouvertes>> \/ (fenetre' = 0 /\ UNCHANGED ouvertes)
      \/ \E v \in DOMAIN registre \union {Rien} : OuvrirParcours(v)
  BY DEF varsParcours, NextParcours, Fermer, Retour, Saisir,
     SaisirTelephone, ChoisirFiche, SaisirNom, Representer,
     SaisirMandataire, ChoisirSite, ChoisirCanal,
     ChoisirSuperficie, SaisirLots, SaisirPrix, ChangerMode,
     ChangerMontant, SaisirNombre, ChoisirJour,
     SaisirPremier, SaisirDate, SaisirSuperficie, Changer,
     ChangerEtAller, ContinuerSaisie, EnvoyerSaisie, EnregistrerSaisie,
     Epuiser, RefuserSaisie, Reussir, EchouerSaisie, Perdre
<1> QED BY <1>1 DEF Ouvertes, OuvrirParcours, ParcoursBienForme

LEMMA ParcoursAuPas ==
  ASSUME ParcoursBienForme, ParcoursInv, Ouvertes, [NextParcours]_varsParcours
  PROVE  ParcoursInv'
<1>1. CASE UNCHANGED varsParcours
  BY <1>1, EcranSain DEF varsParcours, ParcoursInv, TypageParcours
<1>2. ASSUME NEW v \in DOMAIN registre \union {Rien}, OuvrirParcours(v)  PROVE ParcoursInv'
  BY <1>2, OuvertureSaine
<1>3. CASE Fermer
  BY <1>3, FermeType, EcranSain DEF Fermer
<1>4. ASSUME NEW n \in Fenetres, Epuiser(n) \/ RefuserSaisie(n)
      PROVE  ParcoursInv'
  BY <1>4, ReponseSaine DEF Epuiser, RefuserSaisie
<1> QED
  BY <1>1, <1>2, <1>3, <1>4, RetourSain, SaisieSaine, SuiteSaine, EnvoiSain, EnregistrementSain,
     SuccesSain, EchecSain, PerteSaine DEF NextParcours

(* Whatever screens were skipped, left backwards or never shown, whatever requests are   *)
(* lost and sent again, whatever the sales of before are: what the path records is whole,    *)
(* and a sale paid cash is paid in full although no server checks it, unless it was one of    *)
(* before that was not and its payment is the one it had.                                       *)
THEOREM VentesCompletes ==
  ParcoursBienForme /\ SpecParcours => []VenteComplete
<1> SUFFICES ASSUME ParcoursBienForme
             PROVE  SpecParcours => []VenteComplete
  OBVIOUS
<1>1. InitParcours => ParcoursInv /\ Ouvertes
  BY ParcoursAuDebut, OuvertesInitiales
<1>2. ParcoursInv /\ Ouvertes /\ [NextParcours]_varsParcours => ParcoursInv' /\ Ouvertes'
  BY ParcoursAuPas, OuvertesPas
<1>3. ParcoursInv => VenteComplete
  BY DEF ParcoursInv, RegistreSuivi, VenteComplete
<1> QED BY <1>1, <1>2, <1>3, PTL DEF SpecParcours

-----------------------------------------------------------------------------
(* The openings and what they record.  A path is done with when the server has taken   *)
(* its sale, or when it left the screen with none on its way.                            *)
Aboutie(n) == depots[n].etape = "acceptee" \/ (depots[n].etape = "repos" /\ n # fenetre)
Abouties == {n \in 1..ouvertes : Aboutie(n)}

(* An opening records one sale, unless its answer was lost. *)
SuiviParcours(m) ==
  /\ DOMAIN registre = 1..m
  /\ m <= Len(Panneau) + Cardinality(Abouties) + oublis
  /\ saisie.vente \in {Rien} \union 1..m
  /\ \A n \in Fenetres : depots[n].vente \in {Rien} \union 1..m

OuverturesSuivies ==
  /\ fenetre \in 0..ouvertes /\ ouvertes \in 0..FenetresMax /\ oublis \in 0..OublisMax
  /\ \A n \in Fenetres : n > ouvertes => depots[n].etape = "repos"
  /\ \E m \in Nat : SuiviParcours(m)

(* One sale at most is recorded per opening of the path and answer lost. *)
UneVenteParOuverture == Cardinality(DOMAIN registre) <= Len(Panneau) + ouvertes + oublis

LEMMA AboutiesFinies ==
  ASSUME OuverturesSuivies
  PROVE  /\ IsFiniteSet(Abouties) /\ Cardinality(Abouties) \in Nat
         /\ Cardinality(Abouties) <= ouvertes
<1>1. ouvertes \in Nat /\ Abouties \in SUBSET (1..ouvertes)
  BY DEF OuverturesSuivies, Abouties
<1>2. IsFiniteSet(1..ouvertes) /\ Cardinality(1..ouvertes) = ouvertes
  BY <1>1, FS_Interval
<1>3. IsFiniteSet(Abouties) /\ Cardinality(Abouties) <= ouvertes
  BY <1>1, <1>2, FS_Subset
<1> QED BY <1>3, FS_CardinalityType

(* What an opening does before its sale is taken leaves those that are done with so. *)
LEMMA AboutiesCroissent ==
  ASSUME NEW S, ouvertes' \in Nat, S \subseteq Abouties'
  PROVE  /\ IsFiniteSet(Abouties') /\ Cardinality(Abouties') \in Nat
         /\ Cardinality(S) \in Nat /\ Cardinality(S) <= Cardinality(Abouties')
<1>1. IsFiniteSet(1..ouvertes') /\ Abouties' \in SUBSET (1..ouvertes')
  BY FS_Interval DEF Abouties
<1>2. IsFiniteSet(Abouties')
  BY <1>1, FS_Subset
<1>3. IsFiniteSet(S) /\ Cardinality(S) <= Cardinality(Abouties')
  BY <1>2, FS_Subset
<1> QED BY <1>2, <1>3, FS_CardinalityType

(* Nothing enters the register, and the count of what is done with is made good. *)
LEMMA RienEnregistre ==
  ASSUME ParcoursBienForme, OuverturesSuivies, UNCHANGED registre,
         fenetre' \in 0..ouvertes', ouvertes' \in 0..FenetresMax, oublis' \in 0..OublisMax,
         \A n \in Fenetres : n > ouvertes' => depots'[n].etape = "repos",
         saisie'.vente \in {Rien} \union DOMAIN registre,
         \A n \in Fenetres : depots'[n].vente \in {Rien} \union DOMAIN registre,
         Cardinality(Abouties') \in Nat,
         Cardinality(Abouties) + oublis <= Cardinality(Abouties') + oublis'
  PROVE  OuverturesSuivies'
<1>1. PICK m \in Nat : SuiviParcours(m)
  BY DEF OuverturesSuivies
<1>2. Len(Panneau) \in Nat /\ oublis \in Nat /\ Cardinality(Abouties) \in Nat /\ oublis' \in Nat
  BY AboutiesFinies DEF OuverturesSuivies, ParcoursBienForme
<1>3. /\ DOMAIN registre' = 1..m
      /\ m <= Len(Panneau) + Cardinality(Abouties') + oublis'
  BY <1>1, <1>2 DEF SuiviParcours
<1>4. SuiviParcours(m)'
  BY <1>1, <1>3 DEF SuiviParcours, Fenetres
<1> QED BY <1>4 DEF OuverturesSuivies, Fenetres

(* The screen alone changes, or is left. *)
LEMMA EcranSuivi ==
  ASSUME ParcoursBienForme, OuverturesSuivies, UNCHANGED <<depots, registre, ouvertes, oublis>>,
         fenetre' \in {fenetre, 0}, saisie'.vente \in {saisie.vente, Rien}
  PROVE  OuverturesSuivies'
<1>1. ouvertes' \in Nat /\ Abouties \subseteq Abouties'
  BY DEF OuverturesSuivies, Abouties, Aboutie
<1>2. /\ Cardinality(Abouties') \in Nat /\ Cardinality(Abouties) \in Nat
      /\ Cardinality(Abouties) <= Cardinality(Abouties')
  BY <1>1, AboutiesCroissent
<1>3. /\ saisie'.vente \in {Rien} \union DOMAIN registre
      /\ \A n \in Fenetres : depots'[n].vente \in {Rien} \union DOMAIN registre
  BY DEF OuverturesSuivies, SuiviParcours
<1>4. /\ fenetre' \in 0..ouvertes' /\ ouvertes' \in 0..FenetresMax /\ oublis' \in 0..OublisMax
      /\ \A n \in Fenetres : n > ouvertes' => depots'[n].etape = "repos"
  BY DEF OuverturesSuivies
<1>5. Cardinality(Abouties) + oublis <= Cardinality(Abouties') + oublis'
  BY <1>2 DEF OuverturesSuivies
<1> QED BY <1>2, <1>3, <1>4, <1>5, RienEnregistre

(* An opening that was not done with sends, is answered, or is told of a refusal. *)
LEMMA DepotSuivi ==
  ASSUME ParcoursBienForme, OuverturesSuivies, TypageParcours,
         NEW n \in Fenetres, NEW e \in Envois, ~Aboutie(n), n <= ouvertes,
         depots' = [depots EXCEPT ![n] = e], e.vente \in {Rien} \union DOMAIN registre,
         UNCHANGED <<fenetre, ouvertes, registre, oublis>>, saisie'.vente = saisie.vente
  PROVE  OuverturesSuivies'
<1>1. \A k \in Fenetres : depots'[k] = IF k = n THEN e ELSE depots[k]
  BY DEF TypageParcours
<1>2. ouvertes' \in Nat /\ Abouties \subseteq Abouties'
  BY <1>1 DEF OuverturesSuivies, Abouties, Aboutie, Fenetres
<1>3. /\ Cardinality(Abouties') \in Nat /\ Cardinality(Abouties) \in Nat
      /\ Cardinality(Abouties) <= Cardinality(Abouties')
  BY <1>2, AboutiesCroissent
<1>4. /\ saisie'.vente \in {Rien} \union DOMAIN registre
      /\ \A k \in Fenetres : depots'[k].vente \in {Rien} \union DOMAIN registre
  BY <1>1 DEF OuverturesSuivies, SuiviParcours
<1>5. /\ fenetre' \in 0..ouvertes' /\ ouvertes' \in 0..FenetresMax /\ oublis' \in 0..OublisMax
      /\ \A k \in Fenetres : k > ouvertes' => depots'[k].etape = "repos"
  BY <1>1 DEF OuverturesSuivies, Fenetres
<1>6. Cardinality(Abouties) + oublis <= Cardinality(Abouties') + oublis'
  BY <1>3 DEF OuverturesSuivies
<1> QED BY <1>3, <1>4, <1>5, <1>6, RienEnregistre

(* The gestures on the screen leave which sale it corrects. *)
LEMMA SaisirSuivi ==
  ASSUME TypageParcours, Saisir \/ Retour \/ ContinuerSaisie
  PROVE  UNCHANGED <<fenetre, ouvertes, depots, registre, oublis>> /\ saisie'.vente = saisie.vente
<1>1. saisie \in Ecrans
  BY DEF TypageParcours
<1>2. \A e, d : Changer(e, d) => /\ UNCHANGED <<fenetre, ouvertes, depots, registre, oublis>>
                                 /\ saisie'.vente = saisie.vente
  BY <1>1 DEF Changer, Ecrans
<1>3. \A e, d, c : ChangerEtAller(e, d, c) =>
                     /\ UNCHANGED <<fenetre, ouvertes, depots, registre, oublis>>
                     /\ saisie'.vente = saisie.vente
  BY <1>1 DEF ChangerEtAller, Ecrans
<1>4. ASSUME NEW b \in BOOLEAN, Representer(b)
      PROVE  /\ UNCHANGED <<fenetre, ouvertes, depots, registre, oublis>>
             /\ saisie'.vente = saisie.vente
  BY <1>1, <1>4 DEF Representer, Ecrans
<1>5. CASE Saisir
  BY <1>2, <1>3, <1>4, <1>5 DEF Saisir, SaisirTelephone, ChoisirFiche, SaisirNom,
     SaisirMandataire, ChoisirSite, ChoisirCanal, ChoisirSuperficie, SaisirLots, SaisirPrix,
     ChangerMode, ChangerMontant, SaisirNombre, ChoisirJour, SaisirPremier, SaisirDate,
     SaisirSuperficie
<1>6. CASE Retour \/ ContinuerSaisie
  BY <1>1, <1>6 DEF Retour, ContinuerSaisie, Ecrans
<1> QED BY <1>5, <1>6

LEMMA OuvrirSuivi ==
  ASSUME ParcoursBienForme, OuverturesSuivies,
         NEW v \in DOMAIN registre \union {Rien}, OuvrirParcours(v)
  PROVE  OuverturesSuivies'
<1>1. /\ fenetre = 0 /\ ouvertes \in Nat /\ ouvertes < FenetresMax
      /\ fenetre' = ouvertes + 1 /\ ouvertes' = ouvertes + 1
      /\ UNCHANGED <<depots, registre, oublis>> /\ FenetresMax \in Nat
  BY DEF OuvrirParcours, OuverturesSuivies, ParcoursBienForme
<1>2. ouvertes' \in Nat /\ Abouties \subseteq Abouties'
  BY <1>1 DEF Abouties, Aboutie
<1>3. /\ Cardinality(Abouties') \in Nat /\ Cardinality(Abouties) \in Nat
      /\ Cardinality(Abouties) <= Cardinality(Abouties')
  BY <1>2, AboutiesCroissent
<1>4. /\ saisie'.vente \in {Rien} \union DOMAIN registre
      /\ \A k \in Fenetres : depots'[k].vente \in {Rien} \union DOMAIN registre
  BY <1>1 DEF OuvrirParcours, Ferme, OuverturesSuivies, SuiviParcours
<1>5. /\ fenetre' \in 0..ouvertes' /\ ouvertes' \in 0..FenetresMax /\ oublis' \in 0..OublisMax
      /\ \A k \in Fenetres : k > ouvertes' => depots'[k].etape = "repos"
  BY <1>1 DEF OuverturesSuivies, Fenetres
<1>6. Cardinality(Abouties) + oublis <= Cardinality(Abouties') + oublis'
  BY <1>1, <1>3 DEF OuverturesSuivies
<1> QED BY <1>1, <1>3, <1>4, <1>5, <1>6, RienEnregistre

(* A success closes the path on screen, and its own opening if that is another one. *)
LEMMA ReussirSuivi ==
  ASSUME ParcoursBienForme, OuverturesSuivies, TypageParcours, NEW n \in Fenetres, Reussir(n)
  PROVE  OuverturesSuivies'
<1>1. /\ \A k \in Fenetres : depots'[k] = IF k = n THEN Repos ELSE depots[k]
      /\ depots[n].etape = "acceptee" /\ Repos.etape = "repos" /\ Repos.vente = Rien
      /\ fenetre' = 0 /\ saisie'.vente = Rien /\ UNCHANGED <<ouvertes, registre, oublis>>
  BY DEF Reussir, TypageParcours, Ferme, Repos
<1>2. ouvertes' \in Nat /\ Abouties \subseteq Abouties'
  <2>1. ASSUME NEW k \in Abouties  PROVE k \in Abouties'
    <3>1. k \in 1..ouvertes' /\ k \in Fenetres /\ k # fenetre' /\ Aboutie(k)
      BY <1>1 DEF OuverturesSuivies, Abouties, Fenetres, ParcoursBienForme
    <3>2. Aboutie(k)'
      BY <1>1, <3>1 DEF Aboutie
    <3> QED BY <3>1, <3>2 DEF Abouties
  <2> QED BY <1>1, <2>1 DEF OuverturesSuivies
<1>3. /\ Cardinality(Abouties') \in Nat /\ Cardinality(Abouties) \in Nat
      /\ Cardinality(Abouties) <= Cardinality(Abouties')
  BY <1>2, AboutiesCroissent
<1>4. /\ saisie'.vente \in {Rien} \union DOMAIN registre
      /\ \A k \in Fenetres : depots'[k].vente \in {Rien} \union DOMAIN registre
  BY <1>1 DEF OuverturesSuivies, SuiviParcours
<1>5. /\ fenetre' \in 0..ouvertes' /\ ouvertes' \in 0..FenetresMax /\ oublis' \in 0..OublisMax
      /\ \A k \in Fenetres : k > ouvertes' => depots'[k].etape = "repos"
  BY <1>1 DEF OuverturesSuivies, Fenetres
<1>6. Cardinality(Abouties) + oublis <= Cardinality(Abouties') + oublis'
  BY <1>1, <1>3 DEF OuverturesSuivies
<1> QED BY <1>1, <1>3, <1>4, <1>5, <1>6, RienEnregistre

(* An answer lost may leave an opening free to send the sale it has recorded. *)
LEMMA PerdreSuivi ==
  ASSUME ParcoursBienForme, OuverturesSuivies, TypageParcours, NEW n \in Fenetres, Perdre(n)
  PROVE  OuverturesSuivies'
<1>1. /\ \A k \in Fenetres : depots'[k] = IF k = n THEN Repos ELSE depots[k]
      /\ Repos.etape = "repos" /\ Repos.vente = Rien /\ oublis < OublisMax /\ oublis' = oublis + 1
      /\ UNCHANGED <<fenetre, saisie, ouvertes, registre>>
  BY DEF Perdre, TypageParcours, Repos
<1>2. ouvertes' \in Nat /\ Abouties \ {n} \subseteq Abouties'
  <2>1. ASSUME NEW k \in Abouties \ {n}  PROVE k \in Abouties'
    <3>1. k \in 1..ouvertes' /\ k \in Fenetres /\ k # n /\ Aboutie(k)
      BY <1>1 DEF OuverturesSuivies, Abouties, Fenetres, ParcoursBienForme
    <3>2. Aboutie(k)'
      BY <1>1, <3>1 DEF Aboutie
    <3> QED BY <3>1, <3>2 DEF Abouties
  <2> QED BY <1>1, <2>1 DEF OuverturesSuivies
<1>3. /\ Cardinality(Abouties') \in Nat /\ Cardinality(Abouties \ {n}) \in Nat
      /\ Cardinality(Abouties \ {n}) <= Cardinality(Abouties')
  BY <1>2, AboutiesCroissent
<1>4. /\ Cardinality(Abouties) \in Nat
      /\ Cardinality(Abouties) <= Cardinality(Abouties \ {n}) + 1
  BY AboutiesFinies, FS_RemoveElement
<1>5. /\ saisie'.vente \in {Rien} \union DOMAIN registre
      /\ \A k \in Fenetres : depots'[k].vente \in {Rien} \union DOMAIN registre
  BY <1>1 DEF OuverturesSuivies, SuiviParcours
<1>6. /\ fenetre' \in 0..ouvertes' /\ ouvertes' \in 0..FenetresMax /\ oublis' \in 0..OublisMax
      /\ \A k \in Fenetres : k > ouvertes' => depots'[k].etape = "repos"
  BY <1>1 DEF OuverturesSuivies, Fenetres, ParcoursBienForme
<1>7. Cardinality(Abouties) + oublis <= Cardinality(Abouties') + oublis'
  BY <1>1, <1>3, <1>4 DEF OuverturesSuivies
<1> QED BY <1>1, <1>3, <1>5, <1>6, <1>7, RienEnregistre

(* The one step that adds a sale ends the need of its opening for another one. *)
LEMMA EnregistrerSuivi ==
  ASSUME ParcoursBienForme, OuverturesSuivies, TypageParcours,
         NEW n \in Fenetres, EnregistrerSaisie(n)
  PROVE  OuverturesSuivies'
<1> DEFINE v == depots[n].vente
           id == IF v = Rien THEN Cardinality(DOMAIN registre) + 1 ELSE v
<1>1. /\ \A k \in Fenetres : k # n => depots'[k] = depots[k]
      /\ depots[n].etape = "parti" /\ depots'[n].etape = "acceptee" /\ depots'[n].vente = v
      /\ DOMAIN registre' = DOMAIN registre \union {id}
      /\ UNCHANGED <<fenetre, saisie, ouvertes, oublis>>
  BY DEF EnregistrerSaisie, TypageParcours, Envois
<1>2. PICK m \in Nat : SuiviParcours(m)
  BY DEF OuverturesSuivies
<1>3. /\ ouvertes' \in Nat /\ n \in 1..ouvertes /\ n \notin Abouties
      /\ Abouties \union {n} \subseteq Abouties'
  <2>1. n \in 1..ouvertes /\ n \notin Abouties /\ Aboutie(n)'
    BY <1>1 DEF OuverturesSuivies, Abouties, Aboutie, Fenetres
  <2>2. ASSUME NEW k \in Abouties  PROVE k \in Abouties'
    <3>1. k \in 1..ouvertes' /\ k \in Fenetres /\ k # n /\ Aboutie(k)
      BY <1>1, <2>1 DEF OuverturesSuivies, Abouties, Fenetres, ParcoursBienForme
    <3>2. Aboutie(k)'
      BY <1>1, <3>1 DEF Aboutie
    <3> QED BY <3>1, <3>2 DEF Abouties
  <2> QED BY <1>1, <2>1, <2>2 DEF OuverturesSuivies, Abouties
<1>4. /\ Cardinality(Abouties') \in Nat /\ Cardinality(Abouties) \in Nat
      /\ Cardinality(Abouties) + 1 <= Cardinality(Abouties')
  <2>1. Cardinality(Abouties \union {n}) = Cardinality(Abouties) + 1
    BY <1>3, AboutiesFinies, FS_AddElement
  <2>2. /\ Cardinality(Abouties') \in Nat
        /\ Cardinality(Abouties \union {n}) <= Cardinality(Abouties')
    BY <1>3, AboutiesCroissent
  <2> QED BY <2>1, <2>2, AboutiesFinies
<1>5. \E p \in {m, m + 1} : p \in Nat /\ DOMAIN registre' = 1..p
  <2>1. Cardinality(DOMAIN registre) = m /\ DOMAIN registre = 1..m
    BY <1>2, FS_Interval DEF SuiviParcours
  <2>2. CASE v = Rien
    BY <1>1, <2>1, <2>2
  <2>3. CASE v # Rien
    BY <1>1, <1>2, <2>1, <2>3 DEF SuiviParcours
  <2> QED BY <2>2, <2>3
<1>6. PICK p \in {m, m + 1} : p \in Nat /\ DOMAIN registre' = 1..p
  BY <1>5
<1>7. p <= Len(Panneau) + Cardinality(Abouties') + oublis'
  BY <1>1, <1>2, <1>4, <1>6 DEF SuiviParcours, OuverturesSuivies, ParcoursBienForme
<1>8. /\ saisie'.vente \in {Rien} \union 1..p
      /\ \A k \in Fenetres : depots'[k].vente \in {Rien} \union 1..p
  <2>1. 1..m \subseteq 1..p
    BY <1>6
  <2>2. \A k \in Fenetres : depots'[k].vente = depots[k].vente
    BY <1>1
  <2> QED BY <1>1, <1>2, <2>1, <2>2 DEF SuiviParcours
<1>9. SuiviParcours(p)'
  BY <1>6, <1>7, <1>8 DEF SuiviParcours, Fenetres
<1>10. \A k \in Fenetres : k > ouvertes' => depots'[k].etape = "repos"
  BY <1>1, <1>3 DEF OuverturesSuivies, Fenetres
<1> QED BY <1>1, <1>6, <1>9, <1>10 DEF OuverturesSuivies, Fenetres

(* The other steps of a sending. *)
LEMMA EnvoiSuivi ==
  ASSUME ParcoursBienForme, OuverturesSuivies, TypageParcours,
         \/ EnvoyerSaisie
         \/ \E n \in Fenetres : Epuiser(n) \/ RefuserSaisie(n) \/ EchouerSaisie(n)
  PROVE  OuverturesSuivies'
<1>0. saisie \in Ecrans /\ depots \in [Fenetres -> Envois]
  BY DEF TypageParcours
<1>1. CASE EnvoyerSaisie
  <2> DEFINE e == [etape |-> "parti", vente |-> saisie.vente, draft |-> saisie.draft]
  <2>1. fenetre \in Fenetres /\ fenetre <= ouvertes /\ ~Aboutie(fenetre)
    BY <1>1 DEF EnvoyerSaisie, Sur, OuverturesSuivies, Fenetres, Aboutie, ParcoursBienForme
  <2>2. e \in Envois /\ e.vente \in {Rien} \union DOMAIN registre
    BY <1>0 DEF Ecrans, Envois, OuverturesSuivies, SuiviParcours
  <2>3. /\ depots' = [depots EXCEPT ![fenetre] = e]
        /\ UNCHANGED <<fenetre, ouvertes, registre, oublis>> /\ saisie'.vente = saisie.vente
    BY <1>1 DEF EnvoyerSaisie
  <2> HIDE DEF e
  <2> QED BY <2>1, <2>2, <2>3, DepotSuivi
<1>2. ASSUME NEW n \in Fenetres, depots[n].etape \in {"parti", "epuisee", "refusee"},
             NEW e \in Envois, e.vente \in {depots[n].vente, Rien},
             depots' = [depots EXCEPT ![n] = e],
             UNCHANGED <<fenetre, ouvertes, registre, oublis>>, saisie'.vente = saisie.vente
      PROVE  OuverturesSuivies'
  <2>1. n <= ouvertes /\ ~Aboutie(n)
    BY <1>2 DEF OuverturesSuivies, Aboutie, Fenetres
  <2>2. e.vente \in {Rien} \union DOMAIN registre
    BY <1>2 DEF OuverturesSuivies, SuiviParcours
  <2> QED BY <1>2, <2>1, <2>2, DepotSuivi
<1>3. ASSUME NEW n \in Fenetres, Epuiser(n) \/ RefuserSaisie(n)  PROVE OuverturesSuivies'
  <2>1. PICK etape \in {"epuisee", "refusee"} : depots' = [depots EXCEPT ![n].etape = etape]
    BY <1>3 DEF Epuiser, RefuserSaisie
  <2> DEFINE e == [depots[n] EXCEPT !.etape = etape]
  <2>2. e \in Envois /\ e.vente = depots[n].vente /\ depots' = [depots EXCEPT ![n] = e]
    BY <1>0, <2>1 DEF Envois
  <2>3. depots[n].etape = "parti" /\ UNCHANGED <<fenetre, ouvertes, saisie, registre, oublis>>
    BY <1>3 DEF Epuiser, RefuserSaisie
  <2> HIDE DEF e
  <2> QED BY <1>2, <2>2, <2>3
<1>4. ASSUME NEW n \in Fenetres, EchouerSaisie(n)  PROVE OuverturesSuivies'
  <2>1. Repos \in Envois /\ Repos.vente = Rien
    BY FermeType DEF Repos
  <2>2. /\ depots' = [depots EXCEPT ![n] = Repos] /\ depots[n].etape \in {"epuisee", "refusee"}
        /\ UNCHANGED <<fenetre, ouvertes, registre, oublis>>
    BY <1>4 DEF EchouerSaisie
  <2>3. saisie'.vente = saisie.vente
    BY <1>0, <1>4 DEF EchouerSaisie, Ecrans
  <2> QED BY <1>2, <2>1, <2>2, <2>3
<1> QED BY <1>1, <1>3, <1>4

LEMMA OuverturesAuDebut == ASSUME ParcoursBienForme, InitParcours  PROVE OuverturesSuivies
<1>1. /\ DOMAIN registre = 1..Len(Panneau) /\ Len(Panneau) \in Nat
      /\ fenetre = 0 /\ ouvertes = 0 /\ oublis = 0
      /\ saisie.vente = Rien /\ \A n \in Fenetres : depots[n] = Repos
  BY DEF InitParcours, ParcoursBienForme, Ferme
<1>2. Repos.etape = "repos" /\ Repos.vente = Rien
  BY DEF Repos
<1>3. Abouties = {}
  BY <1>1 DEF Abouties
<1>4. Cardinality(Abouties) = 0
  BY <1>3, FS_EmptySet
<1>5. SuiviParcours(Len(Panneau))
  BY <1>1, <1>2, <1>4 DEF SuiviParcours
<1> QED BY <1>1, <1>2, <1>5 DEF OuverturesSuivies, ParcoursBienForme

LEMMA OuverturesAuPas ==
  ASSUME ParcoursBienForme, OuverturesSuivies, TypageParcours, [NextParcours]_varsParcours
  PROVE  OuverturesSuivies'
<1>1. CASE UNCHANGED varsParcours
  BY <1>1, EcranSuivi DEF varsParcours
<1>2. CASE Fermer
  <2>1. fenetre' = 0 /\ saisie'.vente = Rien /\ UNCHANGED <<depots, registre, ouvertes, oublis>>
    BY <1>2 DEF Fermer, Ferme
  <2> QED BY <2>1, EcranSuivi
<1>3. CASE Saisir \/ Retour \/ ContinuerSaisie
  BY <1>3, SaisirSuivi, EcranSuivi
<1> QED
  BY <1>1, <1>2, <1>3, OuvrirSuivi, EnregistrerSuivi, EnvoiSuivi, ReussirSuivi, PerdreSuivi
  DEF NextParcours

(* What the path records is well typed: the amounts within what the prices and the lots    *)
(* allow, the sales numbered one after the other, and no more of them than openings and     *)
(* answers lost.                                                                               *)
THEOREM ParcoursTypes == ParcoursBienForme /\ SpecParcours => []TypeOKParcours
<1> SUFFICES ASSUME ParcoursBienForme
             PROVE  SpecParcours => []TypeOKParcours
  OBVIOUS
<1>1. InitParcours => ParcoursInv /\ Ouvertes /\ OuverturesSuivies
  BY ParcoursAuDebut, OuvertesInitiales, OuverturesAuDebut
<1>2. ParcoursInv /\ Ouvertes /\ OuverturesSuivies /\ [NextParcours]_varsParcours
        => ParcoursInv' /\ Ouvertes' /\ OuverturesSuivies'
  BY ParcoursAuPas, OuvertesPas, OuverturesAuPas DEF ParcoursInv
<1>3. ParcoursInv /\ OuverturesSuivies => TypeOKParcours
  <2> SUFFICES ASSUME ParcoursInv, OuverturesSuivies  PROVE TypeOKParcours
    OBVIOUS
  <2>1. PICK m \in Nat : SuiviParcours(m)
    BY DEF OuverturesSuivies
  <2>2. 1..m \subseteq VentesDuParcours
    <3>1. Cardinality(DOMAIN Panneau) = Len(Panneau) /\ Len(Panneau) \in Nat
      <4>1. DOMAIN Panneau = 1..Len(Panneau) /\ Len(Panneau) \in Nat
        BY DEF ParcoursBienForme
      <4>2. \A n \in Nat : Cardinality(1..n) = n
        BY FS_Interval
      <4> QED BY <4>1, <4>2
    <3>2. m <= Len(Panneau) + FenetresMax + OublisMax
      BY <2>1, <3>1, AboutiesFinies DEF SuiviParcours, OuverturesSuivies, ParcoursBienForme
    <3> QED BY <3>1, <3>2 DEF VentesDuParcours, ParcoursBienForme
  <2>3. /\ fenetre \in {0} \union Fenetres /\ ouvertes \in {0} \union Fenetres
        /\ oublis \in 0..OublisMax
    BY DEF OuverturesSuivies, Fenetres, ParcoursBienForme
  <2>4. saisie \in [pas : 1..RECAP, vente : {Rien} \union VentesDuParcours, represente : BOOLEAN,
                    draft : Drafts]
    BY <2>1, <2>2, Rangs DEF ParcoursInv, TypageParcours, Ecrans, SuiviParcours
  <2>5. depots \in [Fenetres -> [etape : {"repos", "parti", "acceptee", "epuisee", "refusee"},
                                 vente : {Rien} \union VentesDuParcours, draft : Drafts]]
    BY <2>1, <2>2 DEF ParcoursInv, TypageParcours, Envois, SuiviParcours
  <2>6. \E ids \in SUBSET VentesDuParcours : registre \in [ids -> Drafts]
    BY <2>1, <2>2 DEF ParcoursInv, TypageParcours, SuiviParcours
  <2> QED BY <2>3, <2>4, <2>5, <2>6 DEF TypeOKParcours
<1> QED BY <1>1, <1>2, <1>3, PTL DEF SpecParcours

(* An opening of the path records one sale, however often the agent presses the button,    *)
(* goes back, or is told that the stock ran out: the panel never has more sales than       *)
(* before, the openings and the answers lost.                                                 *)
THEOREM UneVenteEnregistree == ParcoursBienForme /\ SpecParcours => []UneVenteParOuverture
<1> SUFFICES ASSUME ParcoursBienForme
             PROVE  SpecParcours => []UneVenteParOuverture
  OBVIOUS
<1>1. InitParcours => ParcoursInv /\ Ouvertes /\ OuverturesSuivies
  BY ParcoursAuDebut, OuvertesInitiales, OuverturesAuDebut
<1>2. ParcoursInv /\ Ouvertes /\ OuverturesSuivies /\ [NextParcours]_varsParcours
        => ParcoursInv' /\ Ouvertes' /\ OuverturesSuivies'
  BY ParcoursAuPas, OuvertesPas, OuverturesAuPas DEF ParcoursInv
<1>3. OuverturesSuivies => UneVenteParOuverture
  <2> SUFFICES ASSUME OuverturesSuivies  PROVE UneVenteParOuverture
    OBVIOUS
  <2>1. PICK m \in Nat : SuiviParcours(m)
    BY DEF OuverturesSuivies
  <2>2. Cardinality(DOMAIN registre) = m
    BY <2>1, FS_Interval DEF SuiviParcours
  <2>3. Len(Panneau) \in Nat /\ ouvertes \in Nat /\ oublis \in Nat
    BY DEF OuverturesSuivies, ParcoursBienForme
  <2> QED BY <2>1, <2>2, <2>3, AboutiesFinies DEF SuiviParcours, UneVenteParOuverture
<1> QED BY <1>1, <1>2, <1>3, PTL DEF SpecParcours

=============================================================================
