---------------------------- MODULE ApiServerProofs ----------------------------
(***************************************************************************)
(* Proofs about module ApiServer, for any set of connections, any number   *)
(* of request contexts and responses of any length: type correctness, the  *)
(* ownership of request contexts, the safety of the connection that waits  *)
(* for an asynchronous answer, and the updater's one activity at a time.   *)
(***************************************************************************)
EXTENDS ApiServer, TLAPS

\* The updater's invariants need each other; nothing else is needed for them.
OtaInv == OtaTypeOK /\ OneOtaActivity /\ AutoCheckOwned

\* SlotOwner is what makes ApiConnWaits inductive: only a connection's own
\* callbacks touch its context.
ConnInv == SlotOwner /\ ApiConnWaits

IInv == TypeOK /\ OtaInv /\ ConnInv

--------------------------------------------------------------------------------
(* The updater. *)

\* Every step of the updater keeps one activity at a time.
OtaStep ==
  \/ ota_get_latest("on_ota_latest") /\ ota_current_state = "idle"
                                     /\ UNCHANGED ota_auto_update_checking
  \/ \E valid \in BOOLEAN : ota_perform_url("on_ota_perform", valid)
  \/ ota_auto_update_check
  \/ \E found \in Found : AutoLatestResponse(found)
  \/ LatestResponse
  \/ \E ok \in BOOLEAN : on_ota_head_response(ok)
  \/ on_ota_start
  \/ UpgradeFinished
  \/ OtaReset

LEMMA OtaStepKeepsOtaInv ==
  ASSUME OtaInv, OtaStep
  PROVE  OtaInv'
<1> USE BaseUrlAssumption DEF OtaInv, OtaTypeOK, OneOtaActivity, AutoCheckOwned,
        NoCallback, NoUrl, LatestCallbacks, PerformCallbacks
<1>1. CASE /\ ota_get_latest("on_ota_latest") /\ ota_current_state = "idle"
           /\ UNCHANGED ota_auto_update_checking
  <2>1. ~ota_busy /\ upgrade_flag = "idle"
    BY <1>1 DEF ota_current_state
  <2> QED
    BY <1>1, <2>1 DEF ota_get_latest, httpclient_request, ota_busy, UpdateUnderWay
<1>2. CASE \E valid \in BOOLEAN : ota_perform_url("on_ota_perform", valid)
  BY <1>2 DEF ota_perform_url, StartUpdate, httpclient_request, ota_busy,
              UpdateUnderWay
<1>3. CASE ota_auto_update_check
  BY <1>3 DEF ota_auto_update_check, ota_get_latest, httpclient_request, ota_busy,
              UpdateUnderWay
<1>4. CASE \E found \in Found : AutoLatestResponse(found)
  <2> PICK found \in Found : AutoLatestResponse(found)
    BY <1>4
  <2>1. CASE /\ ota_url' = "usable"
             /\ ota_perform_callback' = "on_ota_auto_perform"
             /\ requests' = (requests \ {"GET"}) \cup {"HEAD"}
    BY <2>1 DEF AutoLatestResponse, AutoCheckOver
  <2>2. CASE /\ requests' = requests \ {"GET"}
             /\ UNCHANGED <<ota_url, ota_perform_callback>>
    BY <2>2 DEF AutoLatestResponse, AutoCheckOver
  <2> QED
    BY <2>1, <2>2 DEF AutoLatestResponse
<1>5. CASE LatestResponse
  BY <1>5 DEF LatestResponse
<1>6. CASE \E ok \in BOOLEAN : on_ota_head_response(ok)
  <2> PICK ok \in BOOLEAN : on_ota_head_response(ok)
    BY <1>6
  <2>1. \/ ota_timer' = TRUE /\ UNCHANGED ota_url
        \/ ota_url' = NoUrl /\ UNCHANGED ota_timer
    BY Zenon DEF on_ota_head_response, UpdateOver
  <2>2. /\ "HEAD" \in requests
        /\ requests' = requests \ {"HEAD"}
        /\ ota_perform_callback' = NoCallback
        /\ UNCHANGED <<ota_latest_callback, ota_auto_update_checking, upgrade_flag>>
    BY DEF on_ota_head_response
  <2>3. ota_latest_callback = NoCallback /\ upgrade_flag # "start"
    BY <2>2
  <2>4. CASE ota_timer' = TRUE /\ UNCHANGED ota_url
    BY <2>2, <2>3, <2>4
  <2>5. CASE ota_url' = NoUrl /\ UNCHANGED ota_timer
    BY <2>2, <2>3, <2>5
  <2> QED
    BY <2>1, <2>4, <2>5
<1>7. CASE on_ota_start
  BY <1>7 DEF on_ota_start
<1>8. CASE UpgradeFinished
  BY <1>8 DEF UpgradeFinished
<1>9. CASE OtaReset
  BY <1>9 DEF OtaReset
<1> QED
  BY <1>1, <1>2, <1>3, <1>4, <1>5, <1>6, <1>7, <1>8, <1>9 DEF OtaStep

--------------------------------------------------------------------------------
(* What sending and handling a request can change. *)

\* Sending touches the connection it sends on and no other.
SendEffect(c) ==
  /\ unsent' \in [Conn -> 0 .. MaxUnsent]
  /\ left' \in [Conn -> 0 .. MaxPackets - 1]
  /\ \A d \in Conn \ {c} : unsent'[d] = unsent[d] /\ left'[d] = left[d]
  /\ left[c] > 0 => unsent'[c] = unsent[c] /\ left'[c] = left[c]

LEMMA TcpSend ==
  ASSUME TypeOK, NEW c \in Conn, NEW n \in 1 .. MaxPackets, tcp_send(c, n)
  PROVE  SendEffect(c)
<1>1. CASE left[c] > 0
  BY <1>1 DEF TypeOK, tcp_send, PendingData, SendEffect
<1>2. CASE ~(left[c] > 0)
  <2>1. PICK k \in Accepted(c) : unsent' = [unsent EXCEPT ![c] = @ + k]
    BY <1>2 DEF tcp_send, PendingData
  <2>2. unsent[c] + k \in 0 .. MaxUnsent
    BY <2>1, ApiAssumption DEF Accepted, TypeOK
  <2>3. left' = [left EXCEPT ![c] = n - 1] /\ n - 1 \in 0 .. MaxPackets - 1
    BY <1>2, ApiAssumption DEF tcp_send, PendingData
  <2> QED
    BY <1>2, <2>1, <2>2, <2>3 DEF TypeOK, SendEffect
<1> QED
  BY <1>1, <1>2

LEMMA NothingSent ==
  ASSUME TypeOK, NEW c \in Conn, UNCHANGED <<unsent, left>>
  PROVE  SendEffect(c)
BY DEF TypeOK, SendEffect

JobTypeOK ==
  /\ scanning \in BOOLEAN
  /\ scan_callback \in {"on_wifi_scan", NoCallback}
  /\ resetting \in BOOLEAN
  /\ asker \in [Jobs -> Conn \cup {None}]

HandlerEffect(c) ==
  /\ SendEffect(c)
  /\ api_conn' = api_conn \/ (api_conn = None /\ api_conn' = c)
  /\ JobTypeOK'
  /\ OtaStep \/ UNCHANGED ota_vars

LEMMA RespondNowEffect ==
  ASSUME TypeOK, NEW c \in Conn, NEW sizes \in SUBSET (1 .. MaxPackets),
         RespondNow(c, sizes)
  PROVE  HandlerEffect(c) /\ api_conn' = api_conn
<1>1. SendEffect(c)
  BY TcpSend DEF RespondNow
<1> QED
  BY <1>1 DEF RespondNow, HandlerEffect, TypeOK, JobTypeOK, scan_vars

LEMMA HttpRequestEffect ==
  ASSUME TypeOK, NEW c \in Conn, NEW request \in Requests,
         on_http_request(c, request)
  PROVE  HandlerEffect(c)
<1> USE ApiAssumption
<1>1. ASSUME NEW sizes \in SUBSET (1 .. MaxPackets), RespondNow(c, sizes)
      PROVE  HandlerEffect(c)
  BY <1>1, RespondNowEffect
<1>2. {1} \in SUBSET (1 .. MaxPackets)
  OBVIOUS
<1>3. CASE api_conn # None
  BY <1>1, <1>2, <1>3 DEF on_http_request, api_conn_busy
<1>4. CASE api_conn = None /\ request = "immediate"
  BY <1>1, <1>4 DEF on_http_request, api_conn_busy
<1>5. CASE api_conn = None /\ request = "reset"
  <2>1. RespondAndReset(c)
    BY <1>5 DEF on_http_request, api_conn_busy
  <2>2. SendEffect(c)
    BY <2>1, TcpSend DEF RespondAndReset
  <2> QED
    BY <2>1, <2>2 DEF RespondAndReset, HandlerEffect, TypeOK, JobTypeOK, scan_vars
<1>6. ASSUME AnswerLater(c), api_conn = None
      PROVE  SendEffect(c) /\ api_conn' = c /\ resetting' = resetting
  BY <1>6, NothingSent DEF AnswerLater
<1>7. ASSUME NEW job \in Jobs, StartedFor(c, job)
      PROVE  asker' \in [Jobs -> Conn \cup {None}]
  BY <1>7 DEF StartedFor, TypeOK
<1>8. CASE api_conn = None /\ request = "get_firmware"
  <2>1. api_get_firmware(c)
    BY <1>8 DEF on_http_request, api_conn_busy
  <2>2. CASE RespondNow(c, {1})
    BY <1>1, <1>2, <2>2
  <2>3. CASE /\ ota_get_latest("on_ota_latest") /\ ota_current_state = "idle"
             /\ UNCHANGED ota_auto_update_checking
             /\ AnswerLater(c) /\ StartedFor(c, "latest") /\ UNCHANGED scan_vars
    <3>1. OtaStep
      BY <2>3 DEF OtaStep
    <3> QED
      BY <1>6, <1>7, <1>8, <2>3, <3>1
      DEF HandlerEffect, TypeOK, JobTypeOK, scan_vars, Jobs
  <2> QED
    BY <2>1, <2>2, <2>3 DEF api_get_firmware
<1>9. ASSUME NEW valid \in BOOLEAN, api_patch_firmware(c, valid), api_conn = None
      PROVE  HandlerEffect(c)
  <2>1. CASE RespondNow(c, {1})
    BY <1>1, <1>2, <2>1
  <2>2. CASE AnswerLater(c) /\ UNCHANGED <<asker, ota_vars, scan_vars>>
    BY <1>6, <1>9, <2>2 DEF HandlerEffect, TypeOK, JobTypeOK, scan_vars
  <2>3. CASE /\ ota_perform_url("on_ota_perform", valid)
             /\ AnswerLater(c) /\ StartedFor(c, "perform") /\ UNCHANGED scan_vars
    <3>1. OtaStep
      BY <2>3 DEF OtaStep
    <3> QED
      BY <1>6, <1>7, <1>9, <2>3, <3>1
      DEF HandlerEffect, TypeOK, JobTypeOK, scan_vars, Jobs
  <2> QED
    BY <1>9, <2>1, <2>2, <2>3 DEF api_patch_firmware
<1>10. CASE api_conn = None /\ request = "get_wifi"
  <2>1. api_get_wifi(c)
    BY <1>10 DEF on_http_request, api_conn_busy
  <2>2. CASE RespondNow(c, {1})
    BY <1>1, <1>2, <2>2
  <2>3. CASE /\ wifi_scan("on_wifi_scan") /\ UNCHANGED ota_vars
             /\ AnswerLater(c) /\ StartedFor(c, "scan")
    BY <1>6, <1>7, <1>10, <2>3
    DEF wifi_scan, HandlerEffect, TypeOK, JobTypeOK, Jobs
  <2> QED
    BY <2>1, <2>2, <2>3 DEF api_get_wifi
<1>11. CASE api_conn = None /\ request = "patch_firmware"
  BY <1>9, <1>11 DEF on_http_request, api_conn_busy
<1>12. CASE api_conn = None /\ request = "patch_firmware_bad_url"
  BY <1>9, <1>12 DEF on_http_request, api_conn_busy
<1> QED
  BY <1>3, <1>4, <1>5, <1>8, <1>10, <1>11, <1>12 DEF Requests

--------------------------------------------------------------------------------
(* The callbacks of a connection. *)

\* The part of TypeOK that is not the updater's.
ConnTypeOK ==
  /\ tcp \in [Conn -> {"closed", "open", "closing", "lost"}]
  /\ unsent \in [Conn -> 0 .. MaxUnsent]
  /\ handled \in [Conn -> BOOLEAN]
  /\ app_info \in [Conn -> Slot \cup {None}]
  /\ left \in [Conn -> 0 .. MaxPackets - 1]
  /\ req_state \in [Slot -> ReqStates]
  /\ callback_arg \in [Slot -> Conn \cup {None}]
  /\ timer \in [Slot -> BOOLEAN]
  /\ api_conn \in Conn \cup {None}
  /\ JobTypeOK

AnswerKept == api_conn # None => api_conn' \in {api_conn, None}

PacketsKept ==
  \A c \in Conn : left[c] > 0 => unsent'[c] <= unsent[c] /\ left'[c] <= left[c]

\* What every step must do: keep its part of IInv, take an updater's step, and
\* leave the connection to answer and the response being sent alone.
Good ==
  /\ ConnTypeOK' /\ ConnInv'
  /\ OtaStep \/ UNCHANGED ota_vars
  /\ AnswerKept /\ PacketsKept

LEMMA ConnectAcceptedGood ==
  ASSUME IInv, NEW c \in Conn, ConnectAccepted(c)
  PROVE  Good
<1> USE ApiAssumption DEF IInv, ConnInv, TypeOK
<1>1. PICK s \in IdleSlots :
        /\ req_state' = [req_state EXCEPT ![s] = "new"]
        /\ callback_arg' = [callback_arg EXCEPT ![s] = c]
        /\ timer' = [timer EXCEPT ![s] = TRUE]
        /\ app_info' = [app_info EXCEPT ![c] = s]
  BY DEF ConnectAccepted, ArmTimer
<1>2. /\ s \in Slot /\ req_state[s] = "idle" /\ s # None
      /\ tcp' = [tcp EXCEPT ![c] = "open"]
      /\ handled' = [handled EXCEPT ![c] = TRUE]
      /\ UNCHANGED <<unsent, left, api_conn, scan_vars, resetting, asker, ota_vars>>
  BY DEF ConnectAccepted, IdleSlots, Slot
<1>3. /\ ~handled[c] /\ app_info[c] = None /\ left[c] = 0 /\ api_conn # c
      /\ \A d \in Conn : app_info[d] # s
  BY <1>2 DEF ConnectAccepted, SlotOwner, ApiConnWaits
<1>4. ConnTypeOK'
  BY <1>1, <1>2 DEF ConnTypeOK, JobTypeOK, ReqStates, scan_vars
<1>5. SlotOwner'
  <2>1. \A d \in Conn :
          /\ handled'[d] <=> tcp'[d] \in {"open", "closing"}
          /\ ~handled'[d] => app_info'[d] = None /\ left'[d] = 0
          /\ app_info'[d] # None => /\ req_state'[app_info'[d]] # "idle"
                                    /\ callback_arg'[app_info'[d]] = d
    BY <1>1, <1>2, <1>3 DEF SlotOwner
  <2>2. \A r \in Slot :
          IF req_state'[r] = "idle"
          THEN ~timer'[r]
          ELSE callback_arg'[r] \in Conn /\ app_info'[callback_arg'[r]] = r
    <3> TAKE r \in Slot
    <3>1. CASE r = s
      BY <1>1, <1>2, <3>1
    <3>2. CASE r # s
      <4>1. /\ req_state'[r] = req_state[r] /\ timer'[r] = timer[r]
            /\ callback_arg'[r] = callback_arg[r]
        BY <1>1, <1>2, <3>2
      <4>2. CASE req_state[r] = "idle"
        BY <4>1, <4>2 DEF SlotOwner
      <4>3. CASE req_state[r] # "idle"
        <5>1. /\ callback_arg[r] \in Conn /\ app_info[callback_arg[r]] = r
              /\ r # None
          BY <4>3 DEF SlotOwner, Slot
        <5>2. app_info'[callback_arg[r]] = r
          BY <1>1, <1>3, <5>1
        <5> QED
          BY <4>1, <4>3, <5>1, <5>2
      <4> QED
        BY <4>2, <4>3
    <3> QED
      BY <3>1, <3>2
  <2> QED
    BY <2>1, <2>2 DEF SlotOwner
<1>6. ApiConnWaits'
  BY <1>1, <1>2, <1>3 DEF ApiConnWaits
<1> QED
  BY <1>2, <1>4, <1>5, <1>6 DEF Good, AnswerKept, PacketsKept

LEMMA ConnectRefusedGood ==
  ASSUME IInv, NEW c \in Conn, NEW low_memory \in BOOLEAN,
         ConnectRefused(c, low_memory)
  PROVE  Good
<1> USE ApiAssumption DEF IInv, ConnInv, TypeOK
<1>1. PICK k \in {0, 1} : unsent' = [unsent EXCEPT ![c] = k]
  BY DEF ConnectRefused
<1>2. /\ tcp' = [tcp EXCEPT ![c] = "open"]
      /\ handled' = [handled EXCEPT ![c] = TRUE]
      /\ app_info' = [app_info EXCEPT ![c] = None]
      /\ UNCHANGED <<left, slot_vars, api_conn, scan_vars, resetting, asker,
                     ota_vars>>
      /\ ~handled[c]
  BY DEF ConnectRefused, SlotOwner
<1>3. app_info[c] = None /\ api_conn # c
  BY <1>2 DEF SlotOwner, ApiConnWaits
<1>4. ConnTypeOK'
  BY <1>1, <1>2 DEF ConnTypeOK, JobTypeOK, slot_vars, scan_vars
<1>5. SlotOwner'
  BY <1>2, <1>3 DEF SlotOwner, slot_vars
<1>6. ApiConnWaits'
  BY <1>2, <1>3 DEF ApiConnWaits, slot_vars
<1>7. AnswerKept /\ PacketsKept
  BY <1>1, <1>2 DEF AnswerKept, PacketsKept, SlotOwner
<1> QED
  BY <1>2, <1>4, <1>5, <1>6, <1>7 DEF Good

LEMMA SentGood ==
  ASSUME IInv, NEW c \in Conn, Sent(c)
  PROVE  Good
<1> USE ApiAssumption DEF IInv, ConnInv, TypeOK
<1>1. /\ tcp[c] = "open" /\ unsent[c] > 0 /\ handled[c]
      /\ UNCHANGED <<handled, app_info, slot_vars, api_conn, scan_vars, resetting,
                     asker, ota_vars>>
  BY DEF Sent
<1>2. /\ tcp' = tcp \/ tcp' = [tcp EXCEPT ![c] = "closing"]
      /\ unsent' \in [Conn -> 0 .. MaxUnsent]
      /\ left' \in [Conn -> 0 .. MaxPackets - 1]
      /\ \A d \in Conn \ {c} : left'[d] = left[d]
      /\ PacketsKept
  <2> USE DEF PacketsKept
  <2>1. CASE left[c] = 0
    BY <1>1, <2>1 DEF Sent, tcp_disconnect
  <2>2. CASE left[c] # 0
    <3>1. PICK k \in {0, 1} :
            /\ unsent' = [unsent EXCEPT ![c] = unsent[c] - 1 + k]
            /\ left' = [left EXCEPT ![c] = IF k = 1 THEN left[c] - 1 ELSE 0]
      BY <1>1, <2>2 DEF Sent
    <3>2. /\ unsent[c] - 1 + k \in 0 .. MaxUnsent
          /\ (IF k = 1 THEN left[c] - 1 ELSE 0) \in 0 .. MaxPackets - 1
      BY <1>1, <2>2
    <3> QED
      BY <1>1, <2>2, <3>1, <3>2 DEF Sent
  <2> QED
    BY <2>1, <2>2
<1>3. ConnTypeOK'
  BY <1>1, <1>2 DEF ConnTypeOK, JobTypeOK, slot_vars, scan_vars
<1>4. SlotOwner'
  BY <1>1, <1>2 DEF SlotOwner, slot_vars
<1>5. ApiConnWaits'
  BY <1>1 DEF ApiConnWaits, slot_vars
<1> QED
  BY <1>1, <1>2, <1>3, <1>4, <1>5 DEF Good, AnswerKept

\* The three callbacks that end a connection differ in what it was and becomes.
LEMMA ReleaseConnGood ==
  ASSUME IInv, NEW c \in Conn, NEW t \in {"closed", "lost"}, ReleaseConn(c),
         tcp' = [tcp EXCEPT ![c] = t]
  PROVE  Good
<1> USE ApiAssumption DEF IInv, ConnInv, TypeOK
<1>1. /\ handled' = [handled EXCEPT ![c] = FALSE]
      /\ app_info' = [app_info EXCEPT ![c] = None]
      /\ left' = [left EXCEPT ![c] = 0]
      /\ unsent' = [unsent EXCEPT ![c] = 0]
      /\ asker' = [j \in Jobs |-> IF asker[j] = c THEN None ELSE asker[j]]
      /\ UNCHANGED <<scan_vars, resetting, ota_vars>>
  BY DEF ReleaseConn
<1>2. JobTypeOK' /\ PacketsKept
  BY <1>1 DEF JobTypeOK, scan_vars, PacketsKept
<1>3. CASE handled[c] /\ app_info[c] # None
  <2> DEFINE s == app_info[c]
  <2>1. /\ api_conn' = IF api_conn = c THEN None ELSE api_conn
        /\ req_state' = [req_state EXCEPT ![s] = "idle"]
        /\ callback_arg' = [callback_arg EXCEPT ![s] = None]
        /\ timer' = [timer EXCEPT ![s] = FALSE]
        /\ s \in Slot
    BY <1>3 DEF ReleaseConn, CancelAnswer, httpserver_context_reset
  <2>2. \A d \in Conn \ {c} : app_info[d] # None => app_info[d] # s
    BY <1>3 DEF SlotOwner
  <2>3. ConnTypeOK'
    BY <1>1, <1>2, <2>1 DEF ConnTypeOK, ReqStates
  <2>4. SlotOwner'
    <3>1. \A d \in Conn :
            /\ handled'[d] <=> tcp'[d] \in {"open", "closing"}
            /\ ~handled'[d] => app_info'[d] = None /\ left'[d] = 0
            /\ app_info'[d] # None => /\ req_state'[app_info'[d]] # "idle"
                                      /\ callback_arg'[app_info'[d]] = d
      BY <1>1, <2>1, <2>2 DEF SlotOwner
    <3>2. \A r \in Slot :
            IF req_state'[r] = "idle"
            THEN ~timer'[r]
            ELSE callback_arg'[r] \in Conn /\ app_info'[callback_arg'[r]] = r
      BY <1>1, <2>1, <2>2 DEF SlotOwner
    <3> QED
      BY <3>1, <3>2 DEF SlotOwner
  <2>5. ApiConnWaits'
    BY <1>1, <2>1, <2>2 DEF ApiConnWaits
  <2> QED
    BY <1>1, <1>2, <2>1, <2>3, <2>4, <2>5 DEF Good, AnswerKept
<1>4. CASE ~(handled[c] /\ app_info[c] # None)
  <2>1. UNCHANGED <<api_conn, slot_vars>> /\ app_info[c] = None /\ api_conn # c
    BY <1>4 DEF ReleaseConn, SlotOwner, ApiConnWaits
  <2>2. ConnTypeOK'
    BY <1>1, <1>2, <2>1 DEF ConnTypeOK, slot_vars
  <2>3. SlotOwner'
    BY <1>1, <2>1 DEF SlotOwner, slot_vars
  <2>4. ApiConnWaits'
    BY <1>1, <2>1 DEF ApiConnWaits, slot_vars
  <2> QED
    BY <1>1, <1>2, <2>1, <2>2, <2>3, <2>4 DEF Good, AnswerKept
<1> QED
  BY <1>3, <1>4

LEMMA SendEffectKeepsPackets ==
  ASSUME TypeOK, NEW c \in Conn, SendEffect(c)
  PROVE  PacketsKept
BY DEF TypeOK, SendEffect, PacketsKept

LEMMA RequestCompleteGood ==
  ASSUME IInv, NEW c \in Conn, NEW request \in Requests,
         NEW state \in {"header_ready", "body_ready"},
         RequestComplete(c, request, state)
  PROVE  Good
<1> USE ApiAssumption DEF IInv, ConnInv, TypeOK
<1> DEFINE s == app_info[c]
<1>1. /\ tcp[c] = "open" /\ handled[c] /\ s \in Slot /\ s # None
      /\ req_state[s] = "new"
      /\ req_state' = [req_state EXCEPT ![s] = state]
      /\ timer' = [timer EXCEPT ![s] = FALSE]
      /\ UNCHANGED <<tcp, handled, app_info, callback_arg>>
  BY DEF RequestComplete, Receiving, DisarmTimer
<1>2. HandlerEffect(c)
  BY HttpRequestEffect DEF RequestComplete
<1>3. api_conn # c /\ (api_conn # None => app_info[api_conn] # s)
  BY <1>1 DEF ApiConnWaits, SlotOwner
<1>4. ConnTypeOK'
  BY <1>1, <1>2 DEF ConnTypeOK, HandlerEffect, SendEffect, ReqStates
<1>5. SlotOwner'
  BY <1>1, <1>2 DEF SlotOwner, HandlerEffect, SendEffect
<1>6. ApiConnWaits'
  BY <1>1, <1>2, <1>3 DEF ApiConnWaits, HandlerEffect
<1>7. AnswerKept /\ PacketsKept
  BY <1>2, SendEffectKeepsPackets DEF AnswerKept, HandlerEffect
<1> QED
  BY <1>2, <1>4, <1>5, <1>6, <1>7 DEF Good, HandlerEffect

LEMMA MalformedGood ==
  ASSUME IInv, NEW c \in Conn, Malformed(c)
  PROVE  Good
<1> USE ApiAssumption DEF IInv, ConnInv, TypeOK
<1> DEFINE s == app_info[c]
<1>1. /\ tcp[c] = "open" /\ handled[c] /\ s \in Slot /\ s # None
      /\ req_state[s] # "idle"
      /\ req_state' = [req_state EXCEPT ![s] = "invalid"]
      /\ RespondNow(c, {1})
      /\ UNCHANGED <<tcp, handled, app_info, callback_arg, timer>>
  BY DEF Malformed, Receiving
<1>2. HandlerEffect(c) /\ api_conn' = api_conn
  BY <1>1, RespondNowEffect, {1} \in SUBSET (1 .. MaxPackets)
<1>3. ConnTypeOK'
  BY <1>1, <1>2 DEF ConnTypeOK, HandlerEffect, SendEffect, ReqStates
<1>4. SlotOwner'
  BY <1>1, <1>2 DEF SlotOwner, HandlerEffect, SendEffect
<1>5. ApiConnWaits'
  BY <1>1, <1>2 DEF ApiConnWaits
<1>6. AnswerKept /\ PacketsKept
  BY <1>2, SendEffectKeepsPackets DEF AnswerKept, HandlerEffect
<1> QED
  BY <1>2, <1>3, <1>4, <1>5, <1>6 DEF Good, HandlerEffect

LEMMA RequestTimeoutGood ==
  ASSUME IInv, NEW s \in Slot, RequestTimeout(s)
  PROVE  Good
<1> USE ApiAssumption DEF IInv, ConnInv, TypeOK
<1> DEFINE c == callback_arg[s]
<1>1. /\ timer' = [timer EXCEPT ![s] = FALSE]
      /\ tcp' = [tcp EXCEPT ![c] = IF tcp[c] = "open" THEN "closing" ELSE tcp[c]]
      /\ UNCHANGED <<unsent, handled, app_info, left, req_state, callback_arg,
                     api_conn, scan_vars, resetting, asker, ota_vars>>
  BY DEF RequestTimeout, tcp_disconnect
<1>2. c \in Conn
  BY DEF RequestTimeout, SlotOwner
<1>3. ConnTypeOK'
  BY <1>1, <1>2 DEF ConnTypeOK, JobTypeOK, scan_vars
<1>4. SlotOwner'
  BY <1>1, <1>2 DEF SlotOwner
<1>5. ApiConnWaits'
  BY <1>1 DEF ApiConnWaits
<1> QED
  BY <1>1, <1>3, <1>4, <1>5 DEF Good, AnswerKept, PacketsKept

--------------------------------------------------------------------------------
(* The jobs' completions and the device's restarts. *)

LEMMA AnswerEffect ==
  ASSUME IInv, NEW sizes \in SUBSET (1 .. MaxPackets), AnswerApiConn(sizes)
  PROVE  /\ unsent' \in [Conn -> 0 .. MaxUnsent]
         /\ left' \in [Conn -> 0 .. MaxPackets - 1]
         /\ \A d \in Conn : ~handled[d] => left'[d] = left[d]
         /\ PacketsKept
         /\ api_conn' = None
<1> USE DEF IInv, ConnInv
<1>1. CASE api_conn = None
  BY <1>1 DEF AnswerApiConn, TypeOK, PacketsKept
<1>2. CASE api_conn # None
  <2>1. PICK n \in 1 .. MaxPackets : tcp_send(api_conn, n)
    BY <1>2 DEF AnswerApiConn
  <2>2. api_conn \in Conn /\ handled[api_conn]
    BY <1>2 DEF TypeOK, ApiConnWaits
  <2>3. SendEffect(api_conn)
    BY <2>1, <2>2, TcpSend
  <2> QED
    BY <2>2, <2>3, SendEffectKeepsPackets DEF SendEffect, AnswerApiConn
<1> QED
  BY <1>1, <1>2

\* A step that leaves the connections' ownership alone: it sends at most an
\* answer to the connection that waits, which then no longer waits.
LEMMA QuietStepGood ==
  ASSUME IInv,
         UNCHANGED <<tcp, handled, app_info, slot_vars>>,
         unsent' \in [Conn -> 0 .. MaxUnsent],
         left' \in [Conn -> 0 .. MaxPackets - 1],
         \A d \in Conn : ~handled[d] => left'[d] = left[d],
         PacketsKept,
         api_conn' = None \/ api_conn' = api_conn,
         JobTypeOK',
         OtaStep \/ UNCHANGED ota_vars
  PROVE  Good
<1> USE ApiAssumption DEF IInv, ConnInv, TypeOK
<1>1. ConnTypeOK'
  BY DEF ConnTypeOK, slot_vars
<1>2. SlotOwner'
  BY DEF SlotOwner, slot_vars
<1>3. ApiConnWaits'
  BY DEF ApiConnWaits, slot_vars
<1> QED
  BY <1>1, <1>2, <1>3 DEF Good, AnswerKept

LEMMA JobStepGood ==
  ASSUME IInv, JobStep
  PROVE  Good
<1> USE ApiAssumption DEF IInv
<1>1. TypeOK /\ JobTypeOK
  BY DEF TypeOK, JobTypeOK
<1>2. /\ {1} \in SUBSET (1 .. MaxPackets)
      /\ UNCHANGED <<unsent, left>> => PacketsKept
  BY <1>1 DEF TypeOK, PacketsKept
<1>3. CASE UNCHANGED <<conn_vars, slot_vars, api_conn>>
  <2>1. SUFFICES JobTypeOK' /\ (OtaStep \/ UNCHANGED ota_vars)
    BY <1>1, <1>2, <1>3, QuietStepGood DEF TypeOK, conn_vars
  <2> QED
    BY <1>1, <1>3
    DEF JobStep, AutoLatestDone, AutoUpdateCheck, AutoScan, OtaStart, OtaWritten,
        LatestDone, PerformDone, ScanDone, OtaStep, JobTypeOK, wifi_scan, scan_vars,
        NoCallback, Jobs
<1>4. CASE LatestDone
  <2>1. OtaStep /\ JobTypeOK'
    BY <1>1, <1>4 DEF LatestDone, OtaStep, JobTypeOK, scan_vars, Jobs
  <2>2. CASE AnswerApiConn({1})
    BY <1>2, <1>4, <2>1, <2>2, AnswerEffect, QuietStepGood DEF LatestDone
  <2>3. CASE UNCHANGED <<unsent, left, api_conn>>
    BY <1>1, <1>2, <1>4, <2>1, <2>3, QuietStepGood DEF LatestDone, TypeOK
  <2> QED
    BY <1>4, <2>2, <2>3 DEF LatestDone
<1>5. CASE \E ok \in BOOLEAN : PerformDone(ok)
  <2>1. OtaStep /\ JobTypeOK'
    BY <1>1, <1>5 DEF PerformDone, OtaStep, JobTypeOK, scan_vars, Jobs
  <2>2. CASE AnswerApiConn({1})
    BY <1>2, <1>5, <2>1, <2>2, AnswerEffect, QuietStepGood DEF PerformDone
  <2>3. CASE UNCHANGED <<unsent, left, api_conn>>
    BY <1>1, <1>2, <1>5, <2>1, <2>3, QuietStepGood DEF PerformDone, TypeOK
  <2> QED
    BY <1>5, <2>2, <2>3 DEF PerformDone
<1>6. CASE ScanDone
  <2>1. UNCHANGED ota_vars /\ JobTypeOK'
    BY <1>1, <1>6 DEF ScanDone, JobTypeOK, Jobs
  <2>2. CASE AnswerApiConn(1 .. MaxPackets)
    BY <1>6, <2>1, <2>2, AnswerEffect, QuietStepGood DEF ScanDone
  <2>3. CASE UNCHANGED <<unsent, left, api_conn>>
    BY <1>1, <1>2, <1>6, <2>1, <2>3, QuietStepGood DEF ScanDone, TypeOK
  <2> QED
    BY <1>6, <2>2, <2>3 DEF ScanDone
<1> QED
  BY <1>3, <1>4, <1>5, <1>6
  DEF JobStep, AutoLatestDone, AutoUpdateCheck, AutoScan, OtaStart, OtaWritten

LEMMA RestartGood ==
  ASSUME IInv, RestartAll, OtaReset
  PROVE  Good
<1> USE ApiAssumption
<1>1. ConnTypeOK'
  <2>1. JobTypeOK' /\ api_conn' \in Conn \cup {None}
    BY DEF RestartAll, JobTypeOK
  <2>2. /\ unsent' \in [Conn -> 0 .. MaxUnsent]
        /\ left' \in [Conn -> 0 .. MaxPackets - 1]
    BY DEF RestartAll
  <2>3. /\ tcp' \in [Conn -> {"closed", "open", "closing", "lost"}]
        /\ handled' \in [Conn -> BOOLEAN]
        /\ app_info' \in [Conn -> Slot \cup {None}]
    BY DEF RestartAll
  <2>4. /\ req_state' \in [Slot -> ReqStates]
        /\ callback_arg' \in [Slot -> Conn \cup {None}]
        /\ timer' \in [Slot -> BOOLEAN]
    BY DEF RestartAll, ReqStates
  <2> QED
    BY <2>1, <2>2, <2>3, <2>4 DEF ConnTypeOK
<1>2. SlotOwner'
  BY DEF RestartAll, SlotOwner
<1>3. ApiConnWaits'
  BY DEF RestartAll, ApiConnWaits
<1>4. AnswerKept /\ PacketsKept
  BY DEF RestartAll, AnswerKept, PacketsKept, IInv, TypeOK
<1> QED
  BY <1>1, <1>2, <1>3, <1>4 DEF Good, ConnInv, OtaStep

--------------------------------------------------------------------------------
(* The inductive invariant. *)

LEMMA InitIInv == Init => IInv
<1> SUFFICES ASSUME Init PROVE IInv
  OBVIOUS
<1> USE ApiAssumption DEF Init
<1>1. OtaInv
  BY DEF OtaInit, OtaInv, OtaTypeOK, OneOtaActivity, AutoCheckOwned, NoCallback,
         LatestCallbacks, PerformCallbacks
<1>2. TypeOK
  <2>1. /\ unsent \in [Conn -> 0 .. MaxUnsent]
        /\ left \in [Conn -> 0 .. MaxPackets - 1]
    OBVIOUS
  <2> QED
    BY <1>1, <2>1 DEF TypeOK, ReqStates, OtaInv
<1>3. ConnInv
  BY DEF ConnInv, SlotOwner, ApiConnWaits
<1> QED
  BY <1>1, <1>2, <1>3 DEF IInv

LEMMA NextGood ==
  ASSUME IInv, Next
  PROVE  Good
<1>1. ASSUME NEW c \in Conn, ConnStep(c)
      PROVE  Good
  <2>1. CASE Disconnected(c) \/ Closed(c)
    BY <2>1, ReleaseConnGood DEF Disconnected, Closed
  <2>2. CASE Error(c)
    BY <2>2, ReleaseConnGood DEF Error
  <2> QED
    BY <1>1, <2>1, <2>2, ConnectAcceptedGood, ConnectRefusedGood, SentGood,
       RequestCompleteGood, MalformedGood DEF ConnStep
<1>2. CASE DelayedReset \/ UpdateRestart
  BY <1>2, RestartGood DEF DelayedReset, UpdateRestart, OtaRestart
<1> QED
  BY <1>1, <1>2, RequestTimeoutGood, JobStepGood DEF Next

LEMMA NextIInv == IInv /\ [Next]_vars => IInv'
<1> SUFFICES ASSUME IInv, [Next]_vars
             PROVE  IInv'
  OBVIOUS
<1>1. CASE Next
  <2>1. Good
    BY <1>1, NextGood
  <2>2. OtaInv'
    <3>1. CASE OtaStep
      BY <3>1, OtaStepKeepsOtaInv DEF IInv
    <3>2. CASE UNCHANGED ota_vars
      BY <3>2 DEF IInv, OtaInv, OtaTypeOK, OneOtaActivity, AutoCheckOwned, ota_vars
    <3> QED
      BY <2>1, <3>1, <3>2 DEF Good
  <2>3. TypeOK'
    BY <2>1, <2>2 DEF Good, ConnTypeOK, JobTypeOK, TypeOK, OtaInv
  <2> QED
    BY <2>1, <2>2, <2>3 DEF Good, IInv
<1>2. CASE UNCHANGED vars
  <2>1. TypeOK' /\ OtaInv'
    BY <1>2 DEF IInv, vars, conn_vars, slot_vars, scan_vars, ota_vars, TypeOK, OtaInv,
                OtaTypeOK, OneOtaActivity, AutoCheckOwned
  <2>2. ConnInv'
    BY <1>2 DEF IInv, vars, conn_vars, slot_vars, ConnInv, SlotOwner, ApiConnWaits
  <2> QED
    BY <2>1, <2>2 DEF IInv
<1> QED
  BY <1>1, <1>2

\* IInv holds in every state of every behaviour: the fact the theorems below
\* read their properties off.
THEOREM Invariance == Spec => []IInv
BY InitIInv, NextIInv, PTL DEF Spec

\* Every variable keeps its range, whatever the connections and jobs do: in
\* particular api_conn is always NULL or a connection, and the packets the SDK
\* holds never exceed its queue.
THEOREM TypeCorrect == Spec => []TypeOK
<1>1. IInv => TypeOK
  BY DEF IInv
<1> QED
  BY <1>1, Invariance, PTL

\* The contexts of http_contexts are owned one to one by the connections that
\* on_tcp_conn accepted, through every order of errors, disconnects, timeouts
\* and resets.
THEOREM SlotOwnership == Spec => []SlotOwner
<1>1. IInv => SlotOwner
  BY DEF IInv, ConnInv
<1> QED
  BY <1>1, Invariance, PTL

\* api_conn is a live connection with a complete request, out of the request
\* timeout's reach, whenever an asynchronous job may answer to it.
THEOREM ApiConnSafe == Spec => []ApiConnWaits
<1>1. IInv => ApiConnWaits
  BY DEF IInv, ConnInv
<1> QED
  BY <1>1, Invariance, PTL

\* The updater's statics always describe one activity: a look-up, a HEAD request,
\* an armed timer with its URL, or a download.
THEOREM OtaExclusive == Spec => [](OneOtaActivity /\ AutoCheckOwned)
<1>1. IInv => OneOtaActivity /\ AutoCheckOwned
  BY DEF IInv, OtaInv
<1> QED
  BY <1>1, Invariance, PTL

\* No handler ever replaces the connection that waits for an answer by another.
THEOREM ApiConnNotOverwritten == Spec => NoOverwrite
<1>1. IInv /\ [Next]_vars
        => [api_conn # None /\ api_conn' # None => api_conn' = api_conn]_vars
  BY NextGood DEF Good, AnswerKept, vars
<1> QED
  BY <1>1, Invariance, PTL DEF Spec, NoOverwrite

\* While send_buffer is not empty only on_client_sent puts packets on the
\* connection.
THEOREM ResponsesContiguous == Spec => ResponseContiguous
<1>1. IInv /\ [Next]_vars
        => [\A c \in Conn :
              left[c] > 0 => unsent'[c] <= unsent[c] /\ left'[c] <= left[c]]_vars
  BY NextGood DEF Good, PacketsKept, vars
<1> QED
  BY <1>1, Invariance, PTL DEF Spec, ResponseContiguous

================================================================================
