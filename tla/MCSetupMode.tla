------------------------------ MODULE MCSetupMode ------------------------------
(* Small instances of SetupMode for TLC. *)
EXTENDS SetupMode, TLC

CONSTANTS home, other, phone, laptop

\* No configuration and no client is special.
Symmetry == Permutations({home, other}) \cup Permutations({phone, laptop})

================================================================================
