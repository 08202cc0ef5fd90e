---------------------------------- MODULE Ota ----------------------------------
(***************************************************************************)
(* The firmware updater of src/espgoodies/ota.c: looking up the latest     *)
(* version, checking that an image exists, and handing the download to the *)
(* SDK.  Everything it does is driven by callbacks, so what it is doing is *)
(* spread over several statics (a URL, three callbacks, a flag, a timer)   *)
(* and the SDK's upgrade flag.                                             *)
(*                                                                         *)
(* The HTTP client is seen here as its interface promises it: a request    *)
(* with a usable URL is answered exactly once, one without is never        *)
(* answered (httpclient_request returns without calling back, and nothing  *)
(* takes back ota_url and the callback that were set for it).  A DNS error *)
(* the SDK reports at once runs the callback before httpclient_request     *)
(* returns: the call then leaves this module's state as it found it.       *)
(***************************************************************************)

CONSTANT BaseUrlValid   \* is FW_BASE_URL, a build option, an http(s) URL?

ASSUME BaseUrlAssumption == BaseUrlValid \in BOOLEAN

VARIABLES
  ota_url,                   \* NULL, or a URL: will the HTTP client take it?
  ota_latest_callback,       \* who waits for the latest version
  ota_perform_callback,      \* who waits for the HEAD request's outcome
  ota_auto_update_checking,
  requests,                  \* methods of the HTTP requests in flight
  ota_timer,                 \* the OTA_PERFORM_DELAY timer is armed
  upgrade_flag               \* what system_upgrade_flag_check() returns

ota_vars == <<ota_url, ota_latest_callback, ota_perform_callback,
              ota_auto_update_checking, requests, ota_timer, upgrade_flag>>

NoCallback == "NULL"
NoUrl == "NULL"
LatestCallbacks  == {"on_ota_latest", "on_ota_auto_latest"}
PerformCallbacks == {"on_ota_perform", "on_ota_auto_perform"}

OtaTypeOK ==
  /\ ota_url \in {NoUrl, "usable", "unusable"}
  /\ ota_latest_callback \in LatestCallbacks \cup {NoCallback}
  /\ ota_perform_callback \in PerformCallbacks \cup {NoCallback}
  /\ ota_auto_update_checking \in BOOLEAN
  /\ requests \in SUBSET {"GET", "HEAD"}
  /\ ota_timer \in BOOLEAN
  /\ upgrade_flag \in {"idle", "start", "finish"}

OtaInit ==
  /\ ota_url = NoUrl
  /\ ota_latest_callback = NoCallback
  /\ ota_perform_callback = NoCallback
  /\ ota_auto_update_checking = FALSE
  /\ requests = {}
  /\ ota_timer = FALSE
  /\ upgrade_flag = "idle"

--------------------------------------------------------------------------------
(* The state other modules ask for. *)

\* An update, as opposed to a look-up of the latest version, is under way.
UpdateUnderWay ==
  upgrade_flag = "start" \/ ota_url # NoUrl \/ ota_perform_callback # NoCallback

\* mutant: a busy test that forgets the look-ups
BusyUpdating == UpdateUnderWay

ota_busy ==
  \/ UpdateUnderWay
  \/ ota_latest_callback # NoCallback
  \/ ota_auto_update_checking

ota_current_state ==
  CASE upgrade_flag = "start"  -> "downloading"
    [] upgrade_flag = "finish" -> "restarting"
    [] OTHER -> IF ota_busy THEN "checking" ELSE "idle"

--------------------------------------------------------------------------------
(* Operations. *)

httpclient_request(method, valid) ==
  requests' = IF valid THEN requests \cup {method} ELSE requests

\* ota_auto_update_checking is left to the caller: ota_auto_update_check sets it.
ota_get_latest(callback) ==
  /\ ota_latest_callback = NoCallback
  /\ ota_latest_callback' = callback
  /\ httpclient_request("GET", BaseUrlValid)
  /\ UNCHANGED <<ota_url, ota_perform_callback, ota_timer, upgrade_flag>>

\* What ota_perform_url does once it has found the updater not busy.
StartUpdate(callback, valid) ==
  /\ ota_url' = IF valid THEN "usable" ELSE "unusable"
  /\ ota_perform_callback' = callback
  /\ httpclient_request("HEAD", valid)

ota_perform_url(callback, valid) ==
  /\ ~ota_busy
  /\ StartUpdate(callback, valid)
  /\ UNCHANGED <<ota_latest_callback, ota_auto_update_checking, ota_timer,
                 upgrade_flag>>

ota_auto_update_check ==
  /\ ~ota_busy
  /\ ota_auto_update_checking' = TRUE
  /\ ota_get_latest("on_ota_auto_latest")

\* What the look-up found, compared with the running version: nothing usable
\* (an error status, or no Version line), the same version, another major
\* version, or a newer version to install.
Found == {"nothing", "same", "other_major", "newer"}

\* mutant: on_ota_auto_latest returns early without clearing the flag
AutoCheckNotOver == UNCHANGED ota_auto_update_checking

AutoCheckOver == ota_auto_update_checking' = FALSE

\* on_ota_latest_response when the automatic update asked: on_ota_auto_latest
\* runs in it, and may go on to the HEAD request.
AutoLatestResponse(found) ==
  /\ "GET" \in requests
  /\ ota_latest_callback = "on_ota_auto_latest"
  /\ ota_latest_callback' = NoCallback
  /\ AutoCheckOver
  /\ \/ /\ found = "newer" /\ ~UpdateUnderWay
        /\ ota_url' = "usable"
        /\ ota_perform_callback' = "on_ota_auto_perform"
        /\ requests' = (requests \ {"GET"}) \cup {"HEAD"}
     \/ \* nothing to install, or the HEAD request failed at once
        /\ requests' = requests \ {"GET"}
        /\ UNCHANGED <<ota_url, ota_perform_callback>>
  /\ UNCHANGED <<ota_timer, upgrade_flag>>

\* on_ota_latest_response when the API asked, and when nobody waits any more.
LatestResponse ==
  /\ "GET" \in requests
  /\ ota_latest_callback # "on_ota_auto_latest"
  /\ ota_latest_callback' = NoCallback
  /\ requests' = requests \ {"GET"}
  /\ UNCHANGED <<ota_url, ota_perform_callback, ota_auto_update_checking,
                 ota_timer, upgrade_flag>>

\* mutant: a failed HEAD request leaves ota_url allocated
UpdateNotOver == UNCHANGED ota_url

UpdateOver == ota_url' = NoUrl

on_ota_head_response(ok) ==
  /\ "HEAD" \in requests
  /\ requests' = requests \ {"HEAD"}
  /\ ota_perform_callback' = NoCallback
  /\ IF ok
     THEN ota_timer' = TRUE /\ UNCHANGED ota_url
     ELSE UpdateOver /\ UNCHANGED ota_timer
  /\ UNCHANGED <<ota_latest_callback, ota_auto_update_checking, upgrade_flag>>

\* The timer fires and system_upgrade_start accepts; OtaRestart is the refusal.
on_ota_start ==
  /\ ota_timer
  /\ ota_timer' = FALSE
  /\ ota_url' = NoUrl
  /\ upgrade_flag' = "start"
  /\ UNCHANGED <<ota_latest_callback, ota_perform_callback,
                 ota_auto_update_checking, requests>>

\* The SDK has written the image; its check callback is about to run.
UpgradeFinished ==
  /\ upgrade_flag = "start"
  /\ upgrade_flag' = "finish"
  /\ UNCHANGED <<ota_url, ota_latest_callback, ota_perform_callback,
                 ota_auto_update_checking, requests, ota_timer>>

\* A restart of the device loses all of it.
OtaReset ==
  /\ ota_url' = NoUrl
  /\ ota_latest_callback' = NoCallback
  /\ ota_perform_callback' = NoCallback
  /\ ota_auto_update_checking' = FALSE
  /\ requests' = {}
  /\ ota_timer' = FALSE
  /\ upgrade_flag' = "idle"

\* on_ota_start refused by the SDK, or on_ota_finish_check with either verdict:
\* every one of them restarts the device.
OtaRestart ==
  /\ ota_timer \/ upgrade_flag # "idle"
  /\ OtaReset

================================================================================
