SPECIFICATION MCSpec
CONSTANTS
  Referentiel <- MCReferentiel
  Accepte = "ACCEPTE"
  Refuse = "REFUSE"
  Requetes = {1, 2}
  HorlogeMax = 2
  GestesMax = 1
  Saisies <- Reponses
  Vierge <- Vierges
  StatutsRep <- MCStatuts
  TypesRdv = {"RV_SITE", "TELEPHONE"}
  OuverturesMax = 2
  PutsMax = 1
  PertesMax = 1
  EnvoisMax = 2
  Nombre = 2
  Rejeux = {"ancien", "nouveau"}
  TentativesMax = 2
  ParRejeu = 1
  PannesMax = 1
  RenvoisMax = 1
  Rien = Rien
INVARIANTS
  MCTypeOK JournalFidele AmbassadeurAccepte
  PasDansLeParcours RappelDeSonStatut RdvDeLaPersonneJointe
  UnSeulDepart RebondDefinitif
PROPERTIES RelationLegale RejeuSansEffet RienNeSePerd
CHECK_DEADLOCK FALSE
