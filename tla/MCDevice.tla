-------------------------------- MODULE MCDevice --------------------------------
(* A small instance of Device for TLC. *)
EXTENDS Device

CONSTANTS mine, yours

================================================================================
