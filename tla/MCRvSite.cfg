SPECIFICATION FairSpec
CONSTANTS
  Fiches = {f1, f2}
  Heures = {h1, h2}
  Capacite = 1
  Requetes = {r1, r2}
  InstantMax = 2
  GestesMax = 1
  Rien = Rien
INVARIANTS TypeOK CapaciteTenue PlaceGardee PlaceComptee
PROPERTY AppelTermine
\* The requests and the writes are bounded: the instance stops when they are used up.
CHECK_DEADLOCK FALSE
