------------------------------ MODULE HttpRequest ------------------------------
(***************************************************************************)
(* What module ApiServer takes for granted of a request context of         *)
(* src/espgoodies/httpserver.c: from the characters of one connection it   *)
(* makes at most one request, every character it does not expect is        *)
(* answered by the invalid callback, and a context that was reset starts   *)
(* from nothing.                                                           *)
(***************************************************************************)
EXTENDS Naturals, Sequences

CONSTANT RequestData

VARIABLES
  phase,      \* ReqStates of ApiServer
  delivered,  \* the requests of this connection given to the request callback
  rejected    \* the invalid callback was called for this connection

Init == phase = "idle" /\ delivered = << >> /\ rejected = FALSE

Setup == phase = "idle" /\ phase' = "new" /\ UNCHANGED <<delivered, rejected>>

Complete ==
  /\ phase = "new" /\ delivered = << >>
  /\ phase' \in {"header_ready", "body_ready"}
  /\ delivered' \in Seq(RequestData) /\ Len(delivered') = 1
  /\ UNCHANGED rejected

Malformed ==
  /\ phase \in {"new", "header_ready", "invalid"}
  /\ phase' = "invalid"
  /\ rejected' = TRUE
  /\ UNCHANGED delivered

Reset == phase' = "idle" /\ delivered' = << >> /\ rejected' = FALSE

Next == Setup \/ Complete \/ Malformed \/ Reset

Spec == Init /\ [][Next]_<<phase, delivered, rejected>>

================================================================================
