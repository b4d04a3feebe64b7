SPECIFICATION SpecEquitable
CONSTANTS
  awa = awa
  issa = issa
  admin = admin
  rien = rien
  f1 = f1
  rappeler = rappeler
  rv = rv
  refus = refus
  non_joint = non_joint
  perdu = perdu
  adhesion = adhesion
  Agents = {issa}
  Encadrement = {issa}
  Admin = admin
  Fiches = {f1}
  Motifs = {rappeler, perdu, adhesion}
  Effet <- EffetDesMotifs
  Joint <- JointDesMotifs
  Tentatives = {t1}
  Requetes = {r1, r2}
  Operations = {"tentative", "requalifier", "convertir", "vendre", "supprimer", "remettre", "methode", "affecter"}
  Origines = {"saisie", "import"}
  Rien = rien
  Tolerance = 0
  HorlogeMax = 1
  InstantMax = 1
CHECK_DEADLOCK FALSE
PROPERTIES
  TouteRequeteAboutit
