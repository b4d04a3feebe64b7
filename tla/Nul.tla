-------------------------------- MODULE Nul --------------------------------
(* SQL's NULL, undefined and null: one value, which no other value equals. *)
CONSTANT Rien
=============================================================================
