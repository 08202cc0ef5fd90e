------------------------------ MODULE MCApiServer ------------------------------
(* A small instance of ApiServer for TLC. *)
EXTENDS ApiServer, TLC

Symmetry == Permutations(Conn)

================================================================================
