------------------------------- MODULE HttpClient -------------------------------
(***************************************************************************)
(* The life of a request of src/espgoodies/httpclient.c: the DNS look-up,  *)
(* the connection, the response collected piece by piece, the timeout, and *)
(* the callback that tells its caller the outcome, over callbacks of the   *)
(* SDK that come in any order.                                             *)
(*                                                                         *)
(* Of a response's text the model keeps what decides its fate: whether the *)
(* buffer starts with a status line, and whether the end of the headers    *)
(* has come in.  What is sent to the server is left out.                   *)
(***************************************************************************)
EXTENDS Naturals

CONSTANTS
  Request,     \* the blocks that requests are allocated in
  MaxBuffer    \* BUFFER_SIZE_MAX, in pieces

ASSUME ClientAssumption == MaxBuffer \in Nat \ {0}

VARIABLES
  running,     \* FALSE after a fatal exception, until the device has restarted
  phase,       \* what the SDK is doing for the request; "free" once it is freed
  callback,    \* req->callback # NULL
  timer,       \* req->timer is armed
  buffer_size, \* 1 is the empty string
  start,       \* what req->buffer starts with
  (* The server and its response. *)
  arrived,     \* how much of it has come in
  (* History, not in the code. *)
  dropped,     \* a piece of the response did not get into the buffer
  answers,     \* how often the request's callback was called
  outcome      \* the status of the last call

buffer_vars == <<buffer_size, start, arrived, dropped>>
answer_vars == <<answers, outcome>>
vars == <<running, phase, callback, timer, buffer_vars, answer_vars>>

Phases == {"free", "resolving", "connecting", "open", "closing"}
Outcomes == {"none", "dns_error", "timeout", "failed", "response"}

TypeOK ==
  /\ running \in BOOLEAN
  /\ phase \in [Request -> Phases]
  /\ callback \in [Request -> BOOLEAN]
  /\ timer \in [Request -> BOOLEAN]
  /\ buffer_size \in [Request -> 1 .. MaxBuffer]
  /\ start \in [Request -> {"empty", "status_line", "other"}]
  /\ arrived \in [Request -> {"nothing", "part", "headers"}]
  /\ dropped \in [Request -> BOOLEAN]
  /\ answers \in [Request -> 0 .. 2]
  /\ outcome \in [Request -> Outcomes]

Init ==
  /\ running = TRUE
  /\ phase = [r \in Request |-> "free"]
  /\ callback = [r \in Request |-> FALSE]
  /\ timer = [r \in Request |-> FALSE]
  /\ buffer_size = [r \in Request |-> 1]
  /\ start = [r \in Request |-> "empty"]
  /\ arrived = [r \in Request |-> "nothing"]
  /\ dropped = [r \in Request |-> FALSE]
  /\ answers = [r \in Request |-> 0]
  /\ outcome = [r \in Request |-> "none"]

--------------------------------------------------------------------------------
(* Shared steps. *)

\* mutant: only a response is worth telling
AnswerResponses(r, status) ==
  IF callback[r] /\ status = "response"
  THEN answers' = [answers EXCEPT ![r] = @ + 1] /\ outcome' = [outcome EXCEPT ![r] = status]
  ELSE UNCHANGED answer_vars

\* if (req->callback) req->callback(...)
Answer(r, status) ==
  IF callback[r]
  THEN answers' = [answers EXCEPT ![r] = @ + 1] /\ outcome' = [outcome EXCEPT ![r] = status]
  ELSE UNCHANGED answer_vars

\* os_timer_disarm, then free(req).
Release(r) ==
  /\ phase' = [phase EXCEPT ![r] = "free"]
  /\ timer' = [timer EXCEPT ![r] = FALSE]
  /\ UNCHANGED <<running, callback, buffer_vars>>

\* A fatal exception: the rest of the memory does not matter any more.
Exception ==
  /\ running' = FALSE
  /\ UNCHANGED <<phase, callback, timer, buffer_vars, answer_vars>>

--------------------------------------------------------------------------------
(* Making a request. *)

\* What http_raw_request allocates, before the look-up.
NewRequest(r) ==
  /\ phase[r] = "free"
  /\ callback' = [callback EXCEPT ![r] = TRUE]
  /\ buffer_size' = [buffer_size EXCEPT ![r] = 1]
  /\ start' = [start EXCEPT ![r] = "empty"]
  /\ arrived' = [arrived EXCEPT ![r] = "nothing"]
  /\ dropped' = [dropped EXCEPT ![r] = FALSE]

\* mutant: the timeout is started with the connection, not with the look-up
TimerIfResolved(r, p) == timer' = [timer EXCEPT ![r] = p = "connecting"]

ArmTimer(r, p) == timer' = [timer EXCEPT ![r] = TRUE]

\* The look-up is in progress, or the address is known and the connection too.
http_raw_request(r) ==
  \E p \in {"resolving", "connecting"} :
    /\ NewRequest(r)
    /\ phase' = [phase EXCEPT ![r] = p]
    /\ ArmTimer(r, p)
    /\ answers' = [answers EXCEPT ![r] = 0]
    /\ outcome' = [outcome EXCEPT ![r] = "none"]
    /\ UNCHANGED running

\* espconn_gethostbyname reports an error: dns_callback frees the request, whose
\* timer is armed all the same.
LookupRefused(r) ==
  /\ NewRequest(r)
  /\ answers' = [answers EXCEPT ![r] = 1]
  /\ outcome' = [outcome EXCEPT ![r] = "dns_error"]
  /\ timer' = [timer EXCEPT ![r] = TRUE]
  /\ UNCHANGED <<running, phase>>

\* dns_callback, later.
DnsFound(r) ==
  /\ phase[r] = "resolving"
  /\ phase' = [phase EXCEPT ![r] = "connecting"]
  /\ UNCHANGED <<running, callback, timer, buffer_vars, answer_vars>>

DnsFailed(r) ==
  /\ phase[r] = "resolving"
  /\ Answer(r, "dns_error")
  /\ Release(r)

--------------------------------------------------------------------------------
(* The connection. *)

connect_callback(r) ==
  /\ phase[r] = "connecting"
  /\ phase' = [phase EXCEPT ![r] = "open"]
  /\ UNCHANGED <<running, callback, timer, buffer_vars, answer_vars>>

TooLong(r) == buffer_size[r] + 1 > MaxBuffer

\* mutant: the incomplete response stays in the buffer
ResponseKept(r) == UNCHANGED start

DiscardResponse(r) == start' = [start EXCEPT ![r] = "empty"]

\* The response grows by a piece, up to and including the end of its headers or
\* not; data may still come in while the connection is being closed.
PieceArrives(r, how_far) ==
  /\ phase[r] \in {"open", "closing"}
  /\ how_far = "part" => arrived[r] # "headers"
  /\ arrived' = [arrived EXCEPT ![r] = how_far]

\* receive_callback stores it ...
PieceStored(r, how_far) ==
  /\ PieceArrives(r, how_far)
  /\ ~TooLong(r)
  /\ buffer_size' = [buffer_size EXCEPT ![r] = @ + 1]
  /\ start' = [start EXCEPT ![r] =
                 IF buffer_size[r] > 1 THEN @
                 ELSE IF arrived[r] = "nothing" THEN "status_line" ELSE "other"]
  /\ UNCHANGED <<running, phase, callback, timer, dropped, answer_vars>>

\* ... or finds the response too long, or no memory, and disconnects.
PieceDropped(r, how_far) ==
  /\ PieceArrives(r, how_far)
  /\ DiscardResponse(r)
  /\ dropped' = [dropped EXCEPT ![r] = TRUE]
  /\ phase' = [phase EXCEPT ![r] = "closing"]
  /\ UNCHANGED <<running, callback, timer, buffer_size, answer_vars>>

\* disconnect_callback and error_callback.  A response that ends within its headers
\* makes os_strstr return NULL, which is written to; in one that ends within a chunk's
\* size, NULL is read from.
Disconnected(r) ==
  /\ phase[r] \in {"connecting", "open", "closing"}
  /\ \/ start[r] = "status_line" /\ Exception
     \/ /\ start[r] = "status_line" => arrived[r] = "headers"
        /\ Answer(r, IF start[r] = "status_line" THEN "response" ELSE "failed")
        /\ Release(r)

--------------------------------------------------------------------------------
(* The timeout. *)

\* mutant: a timed-out request may be answered again
CallbackKept(r) == UNCHANGED callback

ForgetCallback(r) == callback' = [callback EXCEPT ![r] = FALSE]

\* The look-up is not over: req->connection is whatever malloc returned.  The SDK
\* does not find such a connection, if looking at it does not fault.
TimeoutResolving(r) ==
  /\ timer[r] /\ phase[r] = "resolving"
  /\ \/ /\ Answer(r, "timeout")
        /\ ForgetCallback(r)
        /\ timer' = [timer EXCEPT ![r] = FALSE]
        /\ start' = [start EXCEPT ![r] = "empty"]
        /\ UNCHANGED <<running, phase, buffer_size, arrived, dropped>>
     \/ Exception

\* The SDK may have nothing to disconnect while it is connecting.
TimeoutConnected(r) ==
  /\ timer[r] /\ phase[r] \in {"connecting", "open", "closing"}
  /\ Answer(r, "timeout")
  /\ ForgetCallback(r)
  /\ timer' = [timer EXCEPT ![r] = FALSE]
  /\ start' = [start EXCEPT ![r] = "empty"]
  /\ \/ phase' = [phase EXCEPT ![r] = "closing"]
     \/ phase[r] = "connecting" /\ UNCHANGED phase
  /\ UNCHANGED <<running, buffer_size, arrived, dropped>>

\* The timer of a freed request: its memory is as it was left, or in use again.
TimeoutFreed(r) ==
  /\ timer[r] /\ phase[r] = "free"
  /\ \/ /\ Answer(r, "timeout")
        /\ callback' = [callback EXCEPT ![r] = FALSE]
        /\ timer' = [timer EXCEPT ![r] = FALSE]
        /\ UNCHANGED <<running, phase, buffer_vars>>
     \/ Exception

Restart ==
  /\ ~running
  /\ running' = TRUE
  /\ phase' = [r \in Request |-> "free"]
  /\ callback' = [r \in Request |-> FALSE]
  /\ timer' = [r \in Request |-> FALSE]
  /\ buffer_size' = [r \in Request |-> 1]
  /\ start' = [r \in Request |-> "empty"]
  /\ arrived' = [r \in Request |-> "nothing"]
  /\ dropped' = [r \in Request |-> FALSE]
  /\ answers' = [r \in Request |-> 0]
  /\ outcome' = [r \in Request |-> "none"]

Timeout(r) ==
  running /\ (TimeoutResolving(r) \/ TimeoutConnected(r) \/ TimeoutFreed(r))

RequestStep(r) ==
  \/ http_raw_request(r)
  \/ LookupRefused(r)
  \/ DnsFound(r)
  \/ DnsFailed(r)
  \/ connect_callback(r)
  \/ \E how_far \in {"part", "headers"} : PieceStored(r, how_far) \/ PieceDropped(r, how_far)
  \/ Disconnected(r)

Next ==
  \/ running /\ \E r \in Request : RequestStep(r)
  \/ \E r \in Request : Timeout(r)
  \/ Restart

Spec == Init /\ [][Next]_vars

\* An armed timer fires.
FairSpec == Spec /\ \A r \in Request : WF_vars(Timeout(r))

--------------------------------------------------------------------------------
(* Properties. *)

\* A live request is answered exactly when its callback is forgotten: the timeout
\* and the end of the connection never both answer it, in whichever order they
\* come, and it is not forgotten unanswered.
AnsweredOnce ==
  \A r \in Request :
    running /\ phase[r] # "free" => answers[r] = IF callback[r] THEN 0 ELSE 1

\* No request is freed before its caller was told the outcome, once.
FreedAnswered ==
  [][\A r \in Request :
       running /\ phase[r] # "free" /\ phase'[r] = "free" => answers'[r] = 1]_vars

\* "Discard the buffer to avoid using an incomplete response": what a caller gets
\* for a response is all that came in of it, however a piece was lost and whatever
\* came after it.
WholeResponse == \A r \in Request : outcome[r] = "response" => ~dropped[r]

\* A caller does not wait for ever, whatever the DNS server and the server do: the
\* updater's busy state depends on it.
Answered ==
  \A r \in Request :
    phase[r] # "free" /\ callback[r] ~> phase[r] = "free" \/ ~callback[r] \/ ~running

================================================================================
