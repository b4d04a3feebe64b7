SPECIFICATION MCSpec
CONSTANTS
  Saisies <- Brouillons
  Vierge <- MCVierge
  Catalogue <- MCCatalogue
  OuverturesMax = 2
  PutsMax = 1
  PertesMax = 1
  EnvoisMax = 2
  Fiches = {"f", "g"}
  Membres = {"awa", "ben"}
  Nombre = 2
  Taches = {1, 2, 3}
  ArretsMax = 1
  Sites = {"A", "B"}
  LotsMax = 2
  Initiales <- MCInitiales
  StockInitial <- MCStockInitial
  Requetes = {1, 2}
  GestesMax = 1
  Plans <- MCPlans
  PrixMax = 1
  LotsVenteMax = 2
  Panneau <- MCPanneau
  FenetresMax = 2
  OublisMax = 1
  Rien = Rien
INVARIANT RejeuDeduplique
CHECK_DEADLOCK FALSE
