SPECIFICATION Spec
CONSTANTS
  awa = awa
  issa = issa
  admin = admin
  rien = rien
  f1 = f1
  rappeler = rappeler
  rv = rv
  refus = refus
  non_joint = non_joint
  perdu = perdu
  adhesion = adhesion
  Agents = {awa, issa}
  Encadrement = {issa}
  Admin = admin
  Fiches = {f1}
  Motifs = {rappeler, refus, non_joint}
  Effet <- EffetDesMotifs
  Joint <- JointDesMotifs
  Tentatives = {t1, t2}
  Requetes = {r1, r2, r3}
  Operations = {"tentative", "annuler"}
  Origines = {"saisie"}
  Rien = rien
  Tolerance = 0
  HorlogeMax = 2
  InstantMax = 2
SYMMETRY Symetrie
CHECK_DEADLOCK FALSE
INVARIANTS
  TypeOK
  EffetUnique
  DernierAppelExact
  DernierAppelPlausible
  StatutSuitDernierAppelALHeure
  PromesseDansLaFile
  RappelSurFicheOuverte
