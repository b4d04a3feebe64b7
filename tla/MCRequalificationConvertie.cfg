SPECIFICATION Spec
CONSTANTS
  awa = awa
  issa = issa
  admin = admin
  rien = rien
  f1 = f1
  rappeler = rappeler
  rv = rv
  refus = refus
  non_joint = non_joint
  perdu = perdu
  adhesion = adhesion
  Agents = {awa, issa}
  Encadrement = {issa}
  Admin = admin
  Fiches = {f1}
  Motifs = {rappeler, refus, non_joint}
  Effet <- EffetDesMotifs
  Joint <- JointDesMotifs
  Tentatives = {t1}
  Requetes = {r1, r2, r3}
  Operations = {"tentative", "requalifier", "convertir"}
  Origines = {"saisie"}
  Rien = rien
  Tolerance = 0
  HorlogeMax = 1
  InstantMax = 1
SYMMETRY SymetrieRequetes
CHECK_DEADLOCK FALSE
PROPERTIES
  RequalificationRefusee
