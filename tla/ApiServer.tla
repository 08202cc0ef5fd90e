------------------------------- MODULE ApiServer -------------------------------
(***************************************************************************)
(* The device's HTTP API, from the TCP server to the asynchronous jobs its *)
(* requests start: src/espgoodies/tcpserver.c, src/apiserver.c, the        *)
(* dispatch of src/api.c, the request life cycle of                        *)
(* src/espgoodies/httpserver.c and wifi_scan of src/espgoodies/wifi.c,     *)
(* over the updater of module Ota.                                         *)
(*                                                                         *)
(* The SDK is single-threaded: every callback below (connect, receive,     *)
(* sent, disconnect, timers, scan and HTTP completions) runs to completion,*)
(* so one action is one whole callback.  What interleaves is the order in  *)
(* which the callbacks of several connections and jobs arrive.             *)
(*                                                                         *)
(* A response is a number of packets of SEND_PACKET_SIZE bytes.  A request *)
(* is reduced to what its handling depends on (Requests).  TCP delivers a  *)
(* request in pieces of any size, so a receive callback stands for the     *)
(* character that decides: the one that ends a request, or one the parser  *)
(* does not expect; module HttpParser has the parser itself.               *)
(***************************************************************************)
EXTENDS Naturals, Ota

CONSTANTS
  Conn,          \* the connections the SDK can hold open at a time
  MaxHttpReq,    \* MAX_PARALLEL_HTTP_REQ, the number of request contexts
  MaxPackets,    \* packets in the longest response
  MaxUnsent,     \* packets the SDK queues for a connection
  None           \* NULL, for a connection and for a context

ASSUME ApiAssumption ==
  /\ MaxHttpReq \in Nat \ {0}
  /\ MaxPackets \in Nat \ {0}
  /\ MaxUnsent \in Nat \ {0}
  /\ None \notin Conn
  /\ None \notin Nat

Slot == 0 .. MaxHttpReq - 1

VARIABLES
  (* The SDK's view of each connection: "open" and usable, "closing" once    *)
  (* espconn_disconnect was called, "lost" once an error was reported.       *)
  tcp,
  unsent,        \* packets accepted by espconn_send, sent callback to come
  (* conn_info_t, reached through conn->reverse. *)
  handled,       \* conn->reverse # NULL
  app_info,      \* the request context of the connection, or None
  left,          \* packets of send_buffer still to hand over; 0 is NULL
  (* httpserver_context_t *)
  req_state,     \* what the context's parser is at
  callback_arg,  \* the connection the context was set up for
  timer,         \* its request timer is armed
  (* api.c and wifi.c *)
  api_conn,      \* the connection that an asynchronous answer goes to
  scanning,
  scan_callback, \* "on_wifi_scan" or NoCallback
  (* system.c *)
  resetting,     \* system_reset(delayed) was called: the reset timer runs
  (* History, not in the code: for whom each asynchronous job was started. *)
  asker

conn_vars == <<tcp, unsent, handled, app_info, left>>
slot_vars == <<req_state, callback_arg, timer>>
scan_vars == <<scanning, scan_callback>>
vars == <<conn_vars, slot_vars, api_conn, scan_vars, resetting, asker, ota_vars>>

\* The parser's states, those before a complete request taken together.
ReqStates == {"idle", "new", "invalid", "header_ready", "body_ready"}

Jobs == {"latest", "perform", "scan"}

TypeOK ==
  /\ tcp \in [Conn -> {"closed", "open", "closing", "lost"}]
  /\ unsent \in [Conn -> 0 .. MaxUnsent]
  /\ handled \in [Conn -> BOOLEAN]
  /\ app_info \in [Conn -> Slot \cup {None}]
  /\ left \in [Conn -> 0 .. MaxPackets - 1]
  /\ req_state \in [Slot -> ReqStates]
  /\ callback_arg \in [Slot -> Conn \cup {None}]
  /\ timer \in [Slot -> BOOLEAN]
  /\ api_conn \in Conn \cup {None}
  /\ scanning \in BOOLEAN
  /\ scan_callback \in {"on_wifi_scan", NoCallback}
  /\ resetting \in BOOLEAN
  /\ asker \in [Jobs -> Conn \cup {None}]
  /\ OtaTypeOK

Init ==
  /\ tcp = [c \in Conn |-> "closed"]
  /\ unsent = [c \in Conn |-> 0]
  /\ handled = [c \in Conn |-> FALSE]
  /\ app_info = [c \in Conn |-> None]
  /\ left = [c \in Conn |-> 0]
  /\ req_state = [s \in Slot |-> "idle"]
  /\ callback_arg = [s \in Slot |-> None]
  /\ timer = [s \in Slot |-> FALSE]
  /\ api_conn = None
  /\ scanning = FALSE
  /\ scan_callback = NoCallback
  /\ resetting = FALSE
  /\ asker = [j \in Jobs |-> None]
  /\ OtaInit

--------------------------------------------------------------------------------
(* The TCP server. *)

\* espconn_send accepts a packet (1) or reports an error (0): always the latter
\* on a connection that is no longer open or whose queue is full.
Accepted(c) ==
  IF tcp[c] = "open" /\ unsent[c] < MaxUnsent THEN {0, 1} ELSE {0}

PendingDataIgnored(c) == FALSE  \* mutant: tcp_send forgets send_buffer

PendingData(c) == left[c] > 0

\* tcp_send of a response of n packets on a handled connection.
tcp_send(c, n) ==
  IF PendingData(c)
  THEN UNCHANGED <<unsent, left>>  \* refused: the previous one is not out yet
  ELSE /\ \E k \in Accepted(c) : unsent' = [unsent EXCEPT ![c] = @ + k]
       /\ left' = [left EXCEPT ![c] = n - 1]

tcp_disconnect(c) ==
  tcp' = [tcp EXCEPT ![c] = IF @ = "open" THEN "closing" ELSE @]

AnySlots == Slot  \* mutant: on_tcp_conn takes a context without looking

IdleSlots == {s \in Slot : req_state[s] = "idle"}

\* mutant: httpserver_setup_connection forgets to arm the request timer
TimerNotArmed(s) == UNCHANGED timer

ArmTimer(s) == timer' = [timer EXCEPT ![s] = TRUE]

\* on_client_connection, for a connection on_tcp_conn finds a context for.
ConnectAccepted(c) ==
  /\ tcp[c] = "closed" /\ ~resetting
  /\ \E s \in IdleSlots :
       /\ \A t \in IdleSlots : s <= t
       /\ req_state' = [req_state EXCEPT ![s] = "new"]
       /\ callback_arg' = [callback_arg EXCEPT ![s] = c]
       /\ ArmTimer(s)
       /\ app_info' = [app_info EXCEPT ![c] = s]
  /\ tcp' = [tcp EXCEPT ![c] = "open"]
  /\ handled' = [handled EXCEPT ![c] = TRUE]
  /\ UNCHANGED <<unsent, left, api_conn, scan_vars, resetting, asker, ota_vars>>

\* on_client_connection, for one it answers 503: every context is taken, or the
\* heap is low.  conn->reverse is still NULL, so the answer goes out in one shot.
ConnectRefused(c, low_memory) ==
  /\ tcp[c] = "closed" /\ ~resetting
  /\ IdleSlots = {} \/ low_memory
  /\ \E k \in {0, 1} : unsent' = [unsent EXCEPT ![c] = k]
  /\ tcp' = [tcp EXCEPT ![c] = "open"]
  /\ handled' = [handled EXCEPT ![c] = TRUE]
  /\ app_info' = [app_info EXCEPT ![c] = None]
  /\ UNCHANGED <<left, slot_vars, api_conn, scan_vars, resetting, asker,
                 ota_vars>>

\* on_client_sent: hand over the next packet, or disconnect after the last one.
Sent(c) ==
  /\ tcp[c] = "open" /\ unsent[c] > 0 /\ handled[c]
  /\ IF left[c] = 0
     THEN /\ tcp_disconnect(c)
          /\ unsent' = [unsent EXCEPT ![c] = @ - 1]
          /\ UNCHANGED left
     ELSE /\ UNCHANGED tcp
          /\ \E k \in {0, 1} :
               /\ unsent' = [unsent EXCEPT ![c] = @ - 1 + k]
               \* a failure in the middle frees the buffer
               /\ left' = [left EXCEPT ![c] = IF k = 1 THEN @ - 1 ELSE 0]
  /\ UNCHANGED <<handled, app_info, slot_vars, api_conn, scan_vars, resetting,
                 asker, ota_vars>>

\* mutant: on_tcp_disc keeps the connection to answer
AnswerNotCancelled(c) == UNCHANGED api_conn

CancelAnswer(c) == api_conn' = IF api_conn = c THEN None ELSE api_conn

\* mutant: httpserver_context_reset leaves the timer armed
ContextTimerKept(s) ==
  /\ req_state' = [req_state EXCEPT ![s] = "idle"]
  /\ callback_arg' = [callback_arg EXCEPT ![s] = None]
  /\ UNCHANGED timer

httpserver_context_reset(s) ==
  /\ req_state' = [req_state EXCEPT ![s] = "idle"]
  /\ callback_arg' = [callback_arg EXCEPT ![s] = None]
  /\ timer' = [timer EXCEPT ![s] = FALSE]

\* on_client_disconnect: on_tcp_disc gives up the asynchronous answer and the
\* request context, then conn->reverse goes.
ReleaseConn(c) ==
  /\ handled' = [handled EXCEPT ![c] = FALSE]
  /\ app_info' = [app_info EXCEPT ![c] = None]
  /\ left' = [left EXCEPT ![c] = 0]
  /\ unsent' = [unsent EXCEPT ![c] = 0]
  /\ IF handled[c] /\ app_info[c] # None
     THEN /\ CancelAnswer(c)
          /\ httpserver_context_reset(app_info[c])
     ELSE UNCHANGED <<api_conn, slot_vars>>
  /\ asker' = [j \in Jobs |-> IF asker[j] = c THEN None ELSE asker[j]]
  /\ UNCHANGED <<scan_vars, resetting, ota_vars>>

\* The client leaves, or the SDK drops a connection idle for
\* TCP_CONNECTION_TIMEOUT.
Disconnected(c) ==
  /\ tcp[c] = "open"
  /\ tcp' = [tcp EXCEPT ![c] = "closed"]
  /\ ReleaseConn(c)

\* The disconnect callback that espconn_disconnect announces, or one that
\* follows the error callback: conn->reverse tells them apart.
Closed(c) ==
  /\ tcp[c] \in {"closing", "lost"}
  /\ tcp' = [tcp EXCEPT ![c] = "closed"]
  /\ ReleaseConn(c)

\* on_client_error
Error(c) ==
  /\ tcp[c] \in {"open", "closing"}
  /\ tcp' = [tcp EXCEPT ![c] = "lost"]
  /\ ReleaseConn(c)

--------------------------------------------------------------------------------
(* Requests. *)

\* What a complete request is, as far as handling it goes: answered at once
\* (every error, GET and PATCH /device, the HTML page); answered at once with a
\* delayed reset (POST /reset, PATCH /device on network settings); GET /firmware;
\* PATCH /firmware with a URL that is usable or not; GET /wifi.
Requests == {"immediate", "reset", "get_firmware", "patch_firmware",
             "patch_firmware_bad_url", "get_wifi"}

RespondNow(c, sizes) ==
  /\ \E n \in sizes : tcp_send(c, n)
  /\ UNCHANGED <<api_conn, scan_vars, resetting, asker, ota_vars>>

\* The handler returned no response: the connection stays in api_conn.
AnswerLater(c) ==
  /\ api_conn' = c
  /\ UNCHANGED <<unsent, left, resetting>>

\* The job that c's request started: its answer is meant for c.
StartedFor(c, job) == asker' = [asker EXCEPT ![job] = c]

\* system_reset(TRUE) runs before the response is sent.
RespondAndReset(c) ==
  /\ tcp_send(c, 1)
  /\ resetting' = TRUE
  /\ UNCHANGED <<api_conn, scan_vars, asker, ota_vars>>

api_get_firmware(c) ==
  \/ \* the updater is at work, or the look-up fails within the call
     /\ ota_current_state # "idle" \/ BaseUrlValid
     /\ RespondNow(c, {1})
  \/ /\ ota_current_state = "idle"
     /\ ota_get_latest("on_ota_latest")
     /\ AnswerLater(c) /\ StartedFor(c, "latest")
     /\ UNCHANGED <<ota_auto_update_checking, scan_vars>>

\* The result of ota_perform_url is ignored: busy or not, no response is made.
api_patch_firmware(c, valid) ==
  \/ /\ ota_busy
     /\ AnswerLater(c)
     /\ UNCHANGED <<asker, ota_vars, scan_vars>>
  \/ /\ ota_perform_url("on_ota_perform", valid)
     /\ AnswerLater(c) /\ StartedFor(c, "perform")
     /\ UNCHANGED scan_vars
  \/ \* the HEAD request fails within the call, and is answered there
     /\ valid /\ ~ota_busy
     /\ RespondNow(c, {1})

wifi_scan(callback) ==
  /\ ~scanning /\ ~ota_busy
  /\ scanning' = TRUE
  /\ scan_callback' = callback

api_get_wifi(c) ==
  \/ /\ scanning \/ ota_busy
     /\ RespondNow(c, {1})
  \/ /\ wifi_scan("on_wifi_scan")
     /\ AnswerLater(c) /\ StartedFor(c, "scan")
     /\ UNCHANGED ota_vars

NeverBusy == FALSE  \* mutant: on_http_request does not look at api_conn

api_conn_busy == api_conn # None

on_http_request(c, request) ==
  IF api_conn_busy
  THEN RespondNow(c, {1})  \* 503 busy
  ELSE CASE request = "immediate"              -> RespondNow(c, 1 .. MaxPackets)
         [] request = "reset"                  -> RespondAndReset(c)
         [] request = "get_firmware"           -> api_get_firmware(c)
         [] request = "patch_firmware"         -> api_patch_firmware(c, TRUE)
         [] request = "patch_firmware_bad_url" -> api_patch_firmware(c, FALSE)
         [] request = "get_wifi"               -> api_get_wifi(c)

\* on_tcp_recv is ignored for a refused connection; the others have a context.
Receiving(c) == tcp[c] = "open" /\ handled[c] /\ app_info[c] # None

\* mutant: handle_request lets the request timer run on
TimerNotDisarmed(s) == UNCHANGED timer

DisarmTimer(s) == timer' = [timer EXCEPT ![s] = FALSE]

\* The last character of a request, without or with a body: handle_request
\* disarms the request timer and calls on_http_request.
RequestComplete(c, request, state) ==
  /\ Receiving(c) /\ req_state[app_info[c]] = "new"
  /\ req_state' = [req_state EXCEPT ![app_info[c]] = state]
  /\ DisarmTimer(app_info[c])
  /\ on_http_request(c, request)
  /\ UNCHANGED <<tcp, handled, app_info, callback_arg>>

\* A character the parser does not expect: in a request line, after a request
\* without a body, and every further one once the request is invalid.
Malformed(c) ==
  /\ Receiving(c) /\ req_state[app_info[c]] \in {"new", "header_ready", "invalid"}
  /\ req_state' = [req_state EXCEPT ![app_info[c]] = "invalid"]
  /\ RespondNow(c, {1})
  /\ UNCHANGED <<tcp, handled, app_info, callback_arg, timer>>

\* handle_request_timeout, on_http_request_timeout
RequestTimeout(s) ==
  /\ timer[s]
  /\ timer' = [timer EXCEPT ![s] = FALSE]
  /\ tcp_disconnect(callback_arg[s])
  /\ UNCHANGED <<unsent, handled, app_info, left, req_state, callback_arg,
                 api_conn, scan_vars, resetting, asker, ota_vars>>

--------------------------------------------------------------------------------
(* Asynchronous jobs: whoever is in api_conn gets the answer. *)

AnswerApiConn(sizes) ==
  /\ api_conn' = None
  /\ IF api_conn = None
     THEN UNCHANGED <<unsent, left>>
     ELSE \E n \in sizes : tcp_send(api_conn, n)

\* on_ota_latest, called by on_ota_latest_response
LatestDone ==
  /\ LatestResponse
  /\ IF ota_latest_callback = "on_ota_latest"
     THEN AnswerApiConn({1})
     ELSE UNCHANGED <<unsent, left, api_conn>>
  /\ asker' = [asker EXCEPT !["latest"] = None]
  /\ UNCHANGED <<tcp, handled, app_info, slot_vars, scan_vars, resetting>>

AutoLatestDone(found) ==
  /\ AutoLatestResponse(found)
  /\ UNCHANGED <<conn_vars, slot_vars, api_conn, scan_vars, resetting, asker>>

\* on_ota_head_response, which calls on_ota_perform or on_ota_auto_perform
PerformDone(ok) ==
  /\ on_ota_head_response(ok)
  /\ IF ota_perform_callback = "on_ota_perform"
     THEN AnswerApiConn({1})
     ELSE UNCHANGED <<unsent, left, api_conn>>
  /\ asker' = [asker EXCEPT !["perform"] = None]
  /\ UNCHANGED <<tcp, handled, app_info, slot_vars, scan_vars, resetting>>

\* on_wifi_scan_done, which calls on_wifi_scan unless the automatic scan asked
ScanDone ==
  /\ scanning
  /\ scanning' = FALSE
  /\ scan_callback' = NoCallback
  /\ IF scan_callback = "on_wifi_scan"
     THEN AnswerApiConn(1 .. MaxPackets)
     ELSE UNCHANGED <<unsent, left, api_conn>>
  /\ asker' = [asker EXCEPT !["scan"] = None]
  /\ UNCHANGED <<tcp, handled, app_info, slot_vars, resetting, ota_vars>>

\* on_ota_auto_timer and the first on_wifi_connect
AutoUpdateCheck ==
  /\ ota_auto_update_check
  /\ UNCHANGED <<conn_vars, slot_vars, api_conn, scan_vars, resetting, asker>>

\* on_auto_scan
AutoScan ==
  /\ wifi_scan(NoCallback)
  /\ UNCHANGED <<conn_vars, slot_vars, api_conn, resetting, asker, ota_vars>>

OtaStart ==
  /\ on_ota_start
  /\ UNCHANGED <<conn_vars, slot_vars, api_conn, scan_vars, resetting, asker>>

OtaWritten ==
  /\ UpgradeFinished
  /\ UNCHANGED <<conn_vars, slot_vars, api_conn, scan_vars, resetting, asker>>

\* The device restarts: the delayed reset is due, or the updater asks for it.
RestartAll ==
  /\ tcp' = [c \in Conn |-> "closed"]
  /\ unsent' = [c \in Conn |-> 0]
  /\ handled' = [c \in Conn |-> FALSE]
  /\ app_info' = [c \in Conn |-> None]
  /\ left' = [c \in Conn |-> 0]
  /\ req_state' = [s \in Slot |-> "idle"]
  /\ callback_arg' = [s \in Slot |-> None]
  /\ timer' = [s \in Slot |-> FALSE]
  /\ api_conn' = None
  /\ scanning' = FALSE
  /\ scan_callback' = NoCallback
  /\ resetting' = FALSE
  /\ asker' = [j \in Jobs |-> None]

DelayedReset ==
  /\ resetting
  /\ RestartAll
  /\ OtaReset

UpdateRestart == OtaRestart /\ RestartAll

--------------------------------------------------------------------------------
ConnStep(c) ==
  \/ ConnectAccepted(c)
  \/ \E low_memory \in BOOLEAN : ConnectRefused(c, low_memory)
  \/ Sent(c)
  \/ Disconnected(c)
  \/ Closed(c)
  \/ Error(c)
  \/ \E request \in Requests, state \in {"header_ready", "body_ready"} :
       RequestComplete(c, request, state)
  \/ Malformed(c)

JobStep ==
  \/ LatestDone
  \/ \E found \in Found : AutoLatestDone(found)
  \/ \E ok \in BOOLEAN : PerformDone(ok)
  \/ ScanDone
  \/ AutoUpdateCheck
  \/ AutoScan
  \/ OtaStart
  \/ OtaWritten

Next ==
  \/ \E c \in Conn : ConnStep(c)
  \/ \E s \in Slot : RequestTimeout(s)
  \/ JobStep
  \/ DelayedReset
  \/ UpdateRestart

Spec == Init /\ [][Next]_vars

--------------------------------------------------------------------------------
(* Safety. *)

\* A context serves one connection and a connection has one context: the first
\* idle context that on_tcp_conn takes was given back by on_tcp_disc, whatever
\* order errors, disconnects and timeouts come in.  A request timer never
\* outlives its context's use, and nothing of a response outlives conn->reverse.
SlotOwner ==
  /\ \A c \in Conn :
       /\ handled[c] <=> tcp[c] \in {"open", "closing"}
       /\ ~handled[c] => app_info[c] = None /\ left[c] = 0
       /\ app_info[c] # None => /\ req_state[app_info[c]] # "idle"
                                /\ callback_arg[app_info[c]] = c
  /\ \A s \in Slot :
       IF req_state[s] = "idle"
       THEN ~timer[s]
       ELSE callback_arg[s] \in Conn /\ app_info[callback_arg[s]] = s

\* A connection whose answer is to come later is still there to take it, has
\* had its whole request read, and cannot be cut by the request timer: this is
\* what lets on_wifi_scan and the others use api_conn without checking it.
ApiConnWaits ==
  api_conn # None =>
    /\ handled[api_conn] /\ app_info[api_conn] # None
    /\ req_state[app_info[api_conn]] \in {"header_ready", "body_ready", "invalid"}
    /\ ~timer[app_info[api_conn]]

\* The updater does one thing at a time: on_ota_start finds the URL it was
\* armed for, no HEAD request is answered after its URL was freed, and the
\* download never runs together with a look-up.
OneOtaActivity ==
  /\ "HEAD" \in requests => ota_perform_callback # NoCallback /\ ota_url = "usable"
  /\ ota_perform_callback # NoCallback => ota_url # NoUrl /\ ~ota_timer
  /\ ota_timer => ota_url = "usable"
  /\ ota_url # NoUrl => upgrade_flag # "start"
  /\ "GET" \in requests => ota_latest_callback # NoCallback
  /\ ota_latest_callback # NoCallback => ota_url = NoUrl /\ upgrade_flag # "start"

\* The flag that makes the updater busy during an automatic check is set exactly
\* while the look-up that clears it is pending.
AutoCheckOwned ==
  ota_auto_update_checking <=> ota_latest_callback = "on_ota_auto_latest"

\* The connection to answer is never replaced by another one: the warning of
\* api_conn_set, "overwriting existing API connection", never shows.
NoOverwrite ==
  [][api_conn # None /\ api_conn' # None => api_conn' = api_conn]_vars

\* Between two packets of a response nothing else is put on the connection: no
\* 400 of the parser, no 503, no late answer.
ResponseContiguous ==
  [][\A c \in Conn :
       left[c] > 0 => unsent'[c] <= unsent[c] /\ left'[c] <= left[c]]_vars

\* What on_tcp_disc says it does, "canceling async response to closed
\* connection": a job's answer goes to the connection that asked for it or to
\* nobody.
AnswerToAsker ==
  [][\A job \in Jobs :
       /\ CASE job = "latest" -> LatestDone /\ ota_latest_callback = "on_ota_latest"
            [] job = "perform" -> /\ \E ok \in BOOLEAN : PerformDone(ok)
                                  /\ ota_perform_callback = "on_ota_perform"
            [] job = "scan" -> ScanDone /\ scan_callback = "on_wifi_scan"
       /\ api_conn # None
       => asker[job] = api_conn]_vars

--------------------------------------------------------------------------------
(* Liveness.  Timers fire, the SDK announces the disconnects it was asked for, *)
(* and the scans, requests, sends and downloads it accepted complete.          *)

Scheduling ==
  /\ \A c \in Conn : WF_vars(Closed(c)) /\ WF_vars(Sent(c))
  /\ \A s \in Slot : WF_vars(RequestTimeout(s))
  /\ WF_vars(LatestDone)
  /\ WF_vars(\E found \in Found : AutoLatestDone(found))
  /\ WF_vars(\E ok \in BOOLEAN : PerformDone(ok))
  /\ WF_vars(ScanDone)
  /\ WF_vars(OtaStart)
  /\ WF_vars(OtaWritten \/ UpdateRestart)

FairSpec == Spec /\ Scheduling

\* espconn_regist_time(conn, TCP_CONNECTION_TIMEOUT, 1) drops idle connections.
IdleTimeout == \A c \in Conn : WF_vars(Disconnected(c))

\* A client that never completes its request does not keep its context: the
\* request timeout gets it back, without the idle timeout's help.
RequestCut == \A s \in Slot : req_state[s] = "new" ~> req_state[s] # "new"

\* Whatever the updater began by itself or was told to do comes to an end: it does
\* not stay busy, with scans, look-ups and further updates refused.  One thing
\* it begins has no end but a restart: an update from a URL that is not http or
\* https, which PATCH /firmware accepts, since httpclient_request returns from it
\* without calling back.  The same goes for every look-up if FW_BASE_URL is one.
UpdaterEnds ==
  BaseUrlValid => (ota_busy /\ ota_url # "unusable" ~> ~ota_busy)

\* With the idle timeout the API does not stay busy for ever with one connection,
\* even when nothing is going to answer it (PATCH /firmware while the updater is busy).
ApiConnFreed == IdleTimeout => \A c \in Conn : api_conn = c ~> api_conn # c

\* No client holds up the others: neither one that does not go on with its request
\* nor one that nothing is going to answer.
ClientsGetOn == RequestCut /\ ApiConnFreed

================================================================================
