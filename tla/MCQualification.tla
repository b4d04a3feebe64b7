-------------------------- MODULE MCQualification --------------------------
(***************************************************************************)
(* Small instances of Qualification: the reasons and the accounts that the   *)
(* configurations choose from, and the symmetry of the requests.             *)
(***************************************************************************)
EXTENDS QualificationProps, TLC

CONSTANTS
  awa, issa, admin, rien,                         \* accounts
  f1,                                             \* a fiche
  rappeler, rv, refus, non_joint, perdu, adhesion \* reasons

(* The effect and the "answered" flag the migrations give the reasons. *)
EffetDesMotifs == [m \in Motifs |->
  CASE m = rappeler  -> "SCHEDULE_CALLBACK"
    [] m = rv        -> "CLOSE_APPOINTMENT"
    [] m = refus     -> "CLOSE_REFUSED"
    [] m = perdu     -> "CLOSE_LOST"
    [] m = adhesion  -> "CLOSE_METHOD"
    [] OTHER         -> "CLOSE_UNREACHABLE"]

JointDesMotifs == [m \in Motifs |-> m # non_joint]

SymetrieRequetes == Permutations(Requetes)

Symetrie == SymetrieRequetes \union Permutations(Tentatives)
=============================================================================
