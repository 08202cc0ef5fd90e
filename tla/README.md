# espHLG: a TLA+ model of the firmware

This directory holds TLA+ specifications of the espHLG firmware (an ESP8266 device with an HTTP
API), the TLC configurations that check them on small instances, and TLAPS proofs of their main
properties. Paths below are relative to the repository's `src/` directory unless they start with
`src/`.

The firmware runs on the ESP8266 non-OS SDK: no threads, no preemption between callbacks. Timers,
Wi-Fi events, TCP and DNS callbacks and posted tasks each run to completion; what interleaves is
the *order* in which they arrive. Only interrupt handlers (UART, GPIO, PWM) preempt other code.
The models follow this: **one action is one whole callback**, except in `Uart` and `Pwm`, where the
code between two interrupts is cut into the steps an interrupt can come between, in `ConfigStore`
and `Device`, where a power cut can come between two operations of the flash, and in `Json`, where an
action of the parser is a token.

## 1. Inventory

| Component (sources) | State it keeps | Operations and callbacks | Interacts with |
|---|---|---|---|
| TCP server (`espgoodies/tcpserver.c`) | per connection: `conn_info_t` (send buffer, offset, application info), hung on `conn->reverse` | send in packets of `SEND_PACKET_SIZE`, disconnect; SDK callbacks: connect, receive, sent, disconnect, error | the SDK below, the API server above |
| API server (`apiserver.c`) | `http_states[]`, a pool of request contexts | `on_tcp_conn`, `on_tcp_recv`, `on_tcp_disc`, `on_http_request`, invalid and timeout callbacks, the respond functions | TCP server, parser, API handlers |
| API handlers (`api.c`) | `api_conn`, the one connection an asynchronous answer goes to | GET/PATCH /device, POST /reset, GET/PATCH /firmware, GET /wifi; `on_ota_latest`, `on_ota_perform`, `on_wifi_scan` | updater, Wi-Fi, system |
| HTTP request parser (`espgoodies/httpserver.c`) | `httpserver_context_t`: state, buffers, Content-Length, request timer | setup, one character, reset | API server |
| HTTP client (`espgoodies/httpclient.c`) | `request_args_t` per request: buffer, callback, timer, connection | request; callbacks of DNS, connect, receive, disconnect, error, timeout | updater |
| Firmware updater (`espgoodies/ota.c`) | a URL, two callbacks, a flag, a timer, the SDK's upgrade flag | look up the latest version, update to a version or URL, automatic check | HTTP client, API handlers, main program |
| Ring buffer (`espgoodies/ringbuffer.c`) | data, head, tail, avail; 16-bit indexes | new, write, read, peek, free | UART driver |
| UART driver (`espgoodies/drivers/uart.c`) | a ring buffer per UART, interrupt masks, the hardware FIFO | polled read and write, buffered read and peek, set-up, clean-up, the interrupt handler | hardware |
| Wi-Fi (`espgoodies/wifi.c`) | operating mode, station and access point flags, cached and saved station configuration, scan state, timers | enable/disable station, temporary station and access point, scan, save; SDK events | system, main program, API |
| System (`espgoodies/system.c`) | setup mode, setup button state, reset timer, uptime, reboot counter in RTC memory | tasks, setup mode, reset, configuration load and save | nearly everything |
| Main program (`user_main.c`) | first-connection flag, three timers | boot; Wi-Fi connection, setup mode and automatic update callbacks | system, Wi-Fi, core, updater |
| Core task (`core.c`) | `running`, a posted task | start, stop, update | system tasks |
| Settings (`config.c`, `device.c`) | name, password, flags and addresses in RAM | load at boot, save, factory reset | API, configuration store |
| Configuration store (`espgoodies/flashcfg.c`) | three flash sectors in two slots | load, save (erase sector by sector, then write), reset | settings, system |
| RTC memory (`espgoodies/rtc.c`) | a word that tells a full boot from a light one, a boot count, words of the other modules | set-up at boot, reset, get and set a word | system, sleep |
| Sleep (`espgoodies/sleep.c`) | wake interval and duration, two words of RTC memory | boot decision, sleep | RTC memory; no caller in this application |
| Captive DNS server (`espgoodies/dnsserver.c`) | listening connection, `started` | start, stop, one packet | setup mode |
| JSON (`espgoodies/json.c`) | nodes, children, keys and strings on the heap; the parser's stack | parse, write out (keeping, stripping or freeing the value), copy, take out, put in, free | API handlers, HTTP client's callers |
| Versions (`espgoodies/version.c`) | `version_t`, and a 32-bit word in the system configuration | parse, write out, to and from the word, compare | updater, system |
| PWM driver (`espgoodies/drivers/pwm.c`) | three sets of phases, the set in use and the next one, the timer | set-up, enable, disable, duty, frequency; the timer interrupt | hardware |
| 1-Wire driver (`espgoodies/drivers/onewire.c`) | last discrepancy, last device flag, last address | reset, search, bits and bytes | hardware |
| GPIO, HSPI drivers; utilities, JWT, crypto, HTTP utilities, battery | registers; values | configuration; pure functions | hardware, API |

**What is hard here.** One `api_conn` serves all asynchronous requests, while connections die at
any time and the jobs they started go on; a request's context, its connection and its timer are
three objects released from four different callbacks; the updater's state is spread over six
variables written from seven callbacks; the HTTP client's requests are freed from three callbacks
while their timer can still fire; the UART's ring buffer is shared with an interrupt handler; the
parser sees a request in pieces of any size, from clients that send anything and leave at any
point. Station, temporary station, access point and scans share one operating mode of the radio,
set by eight functions, while link events arrive after the state they tell of has changed again;
setup mode is entered and left from two timers, a button, the boot and the API. Words of RTC
memory outlive some resets and not others; flash is erased and written in steps that power cuts
come between, at a boot that a reset loop made erase it as well. JSON values are trees with manual
ownership, built by a parser that gives up anywhere; PWM phases are recomputed while the interrupt
walks through them.

**What makes each component correct.**

- TCP and API server: a context and a connection belong to each other, one to one, until both are
  released; no response is mixed into another one; every client that does nothing is got rid of.
- API handlers: the connection that is going to be answered exists, is not cut by the request
  timer and is not replaced; the API does not stay busy for ever; the answer goes to who asked.
- Parser: array bounds; exactly one request per connection, as the client sent it, with the body
  length it announced, nothing left from an earlier connection.
- HTTP client: every request is answered, exactly once, before it is freed, and never with a
  response that has a hole in it.
- Updater: one activity at a time, and each comes to an end.
- Ring buffer and UART: a bounded byte queue in spite of interrupts; reception never stops.
- Wi-Fi, system, main program: a device that cannot reach its network ends up in setup mode and
  one in setup mode that nobody uses leaves it; a factory reset is not undone; one update task runs.
- Settings and configuration store: a power cut leaves the old settings, the new ones or the
  defaults, never a mixture; what was saved to the end stays; the slots leave each other alone.
- RTC memory, reboot counter: the configuration is given up in a reboot loop, and only then.
- Sleep: a long sleep is as long as announced, and ends.
- The two together: a device in a reboot loop *starts with* the defaults, and no other reset, sleep
  or power cut loses saved settings.
- JSON: every block of memory has one owner and is freed once; values are apart; what is written
  out is read back.
- DNS server: every query gets the reply it should, wherever a packet was cut, and listening goes on.
- Versions, uptime: the same after every round trip; no overflow missed.
- PWM: the interrupt stays within a set that nobody writes, and every channel is on for its duty.
- 1-Wire: a search finds each device once and ends.

`PROJECT.json` lists the hazards one by one, each at its line with the properties that watch it.

## 2. Modules

| Module | Models | Composes |
|---|---|---|
| `Ota` | `ota.c`, over the HTTP client's interface | |
| `ApiServer` | `tcpserver.c`, `apiserver.c`, the dispatch and asynchronous parts of `api.c`, the life of a request context, `wifi_scan`, the delayed reset | extends `Ota` |
| `HttpRequest` | abstract: what `ApiServer` takes for granted of a request context | |
| `HttpParser` | the parser of `httpserver.c`, character by character | implements `HttpRequest` |
| `HttpMessages` | clients that send well-formed requests and may leave in the middle | extends `HttpParser` |
| `HttpClient` | `httpclient.c`: the life of a request | |
| `HttpResponse` | `httpclient.c`: a response's text collected, cut, and read | |
| `ByteQueue` | abstract: a bounded queue of bytes that drops the oldest | |
| `RingBuffer` | `ringbuffer.c`, as operators on records | |
| `Uart` | reception in `uart.c` with its interrupt handler | extends `RingBuffer`, implements `ByteQueue` |
| `Wifi` | the functions of `wifi.c`, as operators on a record | |
| `WifiApi` | `wifi.c` under any sequence of calls, timers, scans and events | extends `Wifi` |
| `SetupMode` | setup mode, button and resets of `system.c`; timers and callbacks of `user_main.c`; `core.c`; the listening of `dnsserver.c` | extends `Wifi` |
| `Boot` | resets of every kind: `rtc.c`, `system_check_reboot_loop`, `sleep.c` | |
| `Settings` | abstract: a store of settings under power cuts | |
| `ConfigStore` | `flashcfg.c`, `config.c`, `system_config_load` | implements `Settings` |
| `Device` | `user_init`: boot, reboot loop, flash and running program together | extends `Boot`, `ConfigStore` and implements both |
| `JsonText` | values and their texts: writing, escaping, cutting | |
| `JsonValues` | abstract: values that share nothing | extends `JsonText` |
| `Json` | `json.c`: parser, ownership of memory, all functions that change values | extends `JsonText`, implements `JsonValues` |
| `DnsServer` | `dnsserver.c`: connection, parsing of packets, replies | |
| `Version` | `version.c` and the word of `system_set_fw_version` | |
| `Uptime` | `system_uptime_us` against a 32-bit counter | |
| `Pwm` | `drivers/pwm.c`: phases, sets, timer interrupt | |
| `OneWire` | the search of `drivers/onewire.c` | |
| `MCDrivers` | `Uart`, `Pwm`, `OneWire` side by side, one of them running | the three |
| `MCLibrary` | `HttpMessages`, `HttpResponse`, `Json`, `DnsServer`, `Version`, `Uptime` side by side, one of them running | the six |
| other `MC*` | instances for TLC (symmetry, character sets) | |
| `SequenceLemmas` | what the proofs of several components need of numbers and sequences | |
| `*Proofs` | theorems | extend the modules they are about, and `SequenceLemmas` |

### ApiServer and Ota

State ↔ code: `tcp`, `unsent` are the SDK's view of a connection; `handled`, `app_info`, `left`
are `conn_info_t` (`left` counts the packets of `send_buffer` not yet handed over); `req_state`,
`callback_arg`, `timer` are `httpserver_context_t`; `api_conn`, `scanning`, `scan_callback` and
`resetting` are the statics of their files; the `Ota` variables are the statics of `ota.c` plus the
HTTP requests in flight. `asker` is history: for which connection a job was started.

A *response* is a number of packets. A *request* is one of six kinds, the ones its handling
depends on (answered at once; answered with a delayed reset; GET /firmware; PATCH /firmware with a
usable URL or not; GET /wifi). A receive callback stands for the character that decides: the one
that completes a request or one the parser rejects. That the parser goes through exactly these
phases is what `HttpParser` proves (`RequestSpec`).

The SDK's part is nondeterministic: `espconn_send` may fail at any time, a client may disconnect,
an error may be reported with or without a disconnect after it, a scan may fail or succeed, an
HTTP request may give any of the outcomes `Found`, the heap may be low when a client connects.

`ota_url` is NULL, a URL that the HTTP client takes, or one that it does not; `BaseUrlValid` says which
the firmware's own URLs are (in a build without `FW_BASE_URL` they are not). A request from a URL of the
other kind is never answered and its callback never taken back (finding 12).

### HttpParser, HttpMessages, HttpRequest

`hc` is `httpserver_context_t`; one action per `case` of the switch in `httpserver_parse_req_char`.
Characters are the classes the parser distinguishes; `"L"` as a whole header name stands for
Content-Length, and numbers have one digit, with or without a sign. `headers` is the first `header_count`
of the two arrays; the count is of 8 bits, so that the header after the 255th leaves none of them
(`HeaderCounts`, finding 16). `HttpParser.cfg` feeds any characters in any order. `HttpMessages` feeds requests built from parts and compares what the
callback gets with what was sent. *Well-formed* means: at least one header, no header without
a value, and no more of them than can be counted. The parser skips spaces and newlines before a header's name and before its value, so it
does not find the end of requests outside this class; clients sending them are answered by the
request timeout.

### HttpClient

`phase` is where the SDK is with a request, `callback` and `timer` its two fields that races are
about, `buffer_size`/`start` what `req->buffer` holds: its size in pieces and whether it starts
with a status line. A fatal exception is a state (`~running`) that only a restart leaves.
Undefined behaviour of the code is a choice: a timeout during the look-up uses
`req->connection` before it is set (ignored by the SDK, or an exception), the timer of a freed
request finds its memory as it was or faults. `Ota` uses the client by its interface: one answer
for each request with a usable URL. The answer that the timer of a *freed* request can add (finding
3) is in `HttpClient` only.

### HttpResponse

The text that `HttpClient` leaves out. `coming` is the part of a server's response that is under way,
`buffer` is `req->buffer` character by character with its NUL; `ReceivePiece` is `receive_callback`,
`ResponseOver` the reading in `disconnect_callback`, at any point of the text. `told` is what the
callback gets. Words stand for what is compared or skipped as a whole (the version, the status, the
Transfer-Encoding header). Chunks are decoded from positions of the buffer, as in the code; what
`memmove` copies from behind a chunk that was cut is `JUNK`. `ResponseRead` compares with what the
server meant: a body is the text up to its first NUL, since the size that is told counts the NUL of
a plain body, and a chunk that was cut has its full size. Names and values hold none of the characters that the text
is divided by, bodies no NUL. No part of a text but its first is the beginning of a status line: the
client takes a piece that begins with one, and comes when all before it was discarded, for the
beginning of a response.

### RingBuffer, Uart, ByteQueue

Indexes are taken modulo `2^Width`, the code's 16 bits (`Width = 6` in TLC: with a ring of 3 bytes
no sum reaches it, as in the code no sum reaches 65536 while `2 * Size` fits; this is the
assumption the proofs make). A buffered read is: mask the interrupt, load the indexes, copy, store
the indexes, unmask; `uart_buff_peek` is the same without the mask, as in the code. `Uart` steps
are the ones an interrupt can come between.

### Wifi, WifiApi, SetupMode

A record holds the statics of `wifi.c` and what the SDK keeps for it (operating mode, reconnect
policy, link, saved configuration, events not delivered yet); each function of `wifi.c` is an
operator from record to record, so that `WifiApi` (any caller) and `SetupMode` (the callers of this
program) use the same definitions. A configuration stands for SSID, key and BSSID; what matters is
whether it has an SSID and whether it pins a BSSID. Whether a scan finds a better access point is
a choice; the hysteresis over scans is modelled. Of a BSSID there is what `wifi_bssid_cmp` knows an access
point by and whether its first byte is 0, which makes it none to whoever tests for one (finding 13).
SDK calls succeed.

`SetupMode` adds the statics of `system.c`, `user_main.c`, `core.c` and `dnsserver.c` to the record.
A restart replaces it by what boot makes of the saved configuration. `elapsed` is how long the
button has been held, against the two thresholds. Clients of the access point, the network, the
user (button, PATCH /device, POST /reset, GET /wifi) and power cuts are actions; `ops` counts what
the user did, which is what bounds the model. `held_since_boot` and `history` are history: what the
user did last to the configuration, a PATCH or a factory reset, what it found, and a power cut since.
`missed` counts the clients that left the access point before they were given an address.

### Boot

`rtc` is the words of RTC memory: the magic word, the count of unexpected resets, the two words of
sleep. At power-on they hold anything of `Garbage`. The count is read before and written after the
flash is reset, which takes long enough to be interrupted, so the two are actions
(`ResettingConfiguration`, `flashcfg_reset`). The application is one that uses `sleep.h` as its
functions are meant to be used; that of this repository does not call them. `streak`, `wiped`,
`want` and `slept` are history. The boot count, which nothing reads, is left out.

### ConfigStore, Settings

A sector holds settings, zeros (the defaults) or erased bytes; a save is one step for each sector
erased and each written, a failure can end it at any step and a restart or a power cut can come
between any two. The first page of a slot, which holds all the settings, is programmed at once:
what a page torn by a power cut holds is not in the source. `kept` is history: the settings saved
last, as long as no save has begun since.

### Device

`Boot` decides when the flash is wiped, `ConfigStore` what the flash and the settings in use are; the
code does both in one sequence, `user_init`: reboot loop check (with `flashcfg_reset`, sector by
sector, in a loop), `system_config_load`, `config_init`. `Device` joins the two, action by action: a
reset hits both at whatever step they are. Every action of `Device` is one of `Boot` (or leaves it
alone) and one of `ConfigStore` (or leaves it alone), which `DeviceProofs` proves, so that what is
proved about the parts holds of the whole. A restart by the program itself never comes in the middle
of a save, since callbacks are not interrupted; crashes, the reset pin and power cuts do. `failed` is
history: a flash operation has returned an error since the boot.

### Json, JsonText, JsonValues

An input is a sequence of tokens; inputs are any tokens in any order, or the text of a value (`meant`).
`heap` maps addresses to blocks: a node with its arrays and its string, or the copy of a key.
`stack` is `ctx->stack`; `waiting_elem` and `root` are the locals of `json_parse`. `handles` are the
pointers that the caller holds. Each call names the blocks it frees, in the order of `json_free`;
freeing one twice, or one that is not there, sets `misfreed`. A node whose members were freed is not
copied: its place in a copy is NULL, which `json_free` passes over and `json_dup` and `json_dump_rec` look
through, a fatal exception (`ReadThroughNull`, finding 15). `overlooked` is history: pointers that
`ctx_free` passes over (finding 11). Strings are made of four kinds of characters, and
`JSON_MAX_VALUE_LEN` cuts them as the code's buffer does.

`JsonValues` knows values only: what a caller expects who never looks at memory. `Json` implements it
with `values` the trees that the handles point to; a shared node would change two of them at once. It says
which parts a copy lacks, and that all values are lost only with a call that writes or copies such a copy.

The parser is more lenient than JSON and the model follows it: `1,`, `{"a": 1,}`, `{,}`, `{"a",: 1}` and
`{"a": 1 "b": 2}` are accepted, `[1,]` is not; an unknown escape gives a backslash; keys are written
without escapes. `json_stringify` is modelled for objects and strings (see
"Not modelled").

### DnsServer, Version, Uptime

A DNS packet is its header by fields and the bytes after it. Packets are questions cut after any
number of bytes, or with bytes after them, with something unexpected in each field of the header.
A name is copied to `query_str` unchecked: one that does not fit (`QUERY_STR_SIZE`) writes over what is
next to it on the stack, and `Corrupted` says what may come of it, a garbled reply or a restart; a packet may
have 512 bytes and the buffer has 256 (finding 17). `deaf` is history: a packet came that the server stops for.

A version's text is a sequence of digits, words and separators. `Released` versions have any type and a
label below 32, the place it has in the word; they come from the macros of the build or from the text that
`version_dump` writes, and `OtherTexts` come in between. What a text says of a version is `AsRead`: stable
versions and git builds are not read as they were (finding 14). `Uptime` has the true time next to the
counter.

### Pwm, OneWire

`prepare_phases` is computed as in the code: a start-of-cycle phase and one event per channel, sorted,
events closer than `SHORT` ticks merged into one and their other ends moved, equal ones united, ticks
made durations, a short last phase rotated to the front. `apply_config` is three actions (`ChooseSet`
in the caller's, `Prepare`, `Apply`), so that the interrupt comes between choosing a set, writing it and
switching to it. `on_time` measures what comes out: ticks each channel was on in a cycle.
`pwm_setup` is called once, and the model begins with it; frequencies keep the period at two short
phases or more.

`Loop` of `OneWire` is the search bit by bit, with the devices still taking part. Devices are plugged and
unplugged between calls; `disturbed` says that a search was under way. Addresses are of 3 bits.

## 3. Runs

| Run | Bounds | Question |
|---|---|---|
| `ApiServer` | 3 connections, 2 contexts, 2 packets, 1 unsent | pairing of contexts and connections, the connection to answer, updater exclusion, no overwriting, no mixing of responses |
| `ApiServerLive` | 2 connections, 1 context, fair | the request timeout gets contexts back, checks and updates end, all without the idle timeout; with it the API never stays busy |
| `ApiServerAsker` | violation | the answer goes to whoever waits now (finding 1) |
| `HttpParser` | 11 characters, arrays of 1 and 2, bodies of up to 3, a header count of 3 values | any input: body lengths, the request life cycle |
| `HttpClient` | 2 requests, 3 pieces, fair timeout | one answer, no hole; every caller is answered |
| `WifiApi` | 2 configurations, 2 better access points with 2 BSSIDs each, 2 events | mode, reconnection, timers, scans, connection state and jumps under any order of calls |
| `SetupMode` | 2 configurations, 2 clients, 2 user operations, 1 client that leaves early | on the way to setup mode or connected; setup mode complete; one core task; what the user set, or the factory settings, survive; clients spared |
| `SetupModeReconnects` | 1 configuration, 1 client that does not leave early, 1 operation, fair | a device whose network is there gets back to it |
| `Device` | maximum 3, up to 6 unexpected resets, 5 intervals, 2 settings besides the defaults, fair | a loop starts afresh and nothing else loses settings; refinement of the store; saved settings stay; a sleep in rounds ends when announced |
| `Drivers` | ring of 3, 2 byte values, FIFO of 2, fair; 2 channels, periods of 10 and 7, 5 duties, 3 changes; addresses of 3 bits, any set of devices | the UART queue (refinement) and its reception; PWM sets and duties; the 1-Wire search |
| `Library` | 1080 requests, a header count of 4 values; 15 responses, a buffer of 46, pieces of 1, 7 and 20, 1 failed allocation; inputs of 7 tokens, 2 values of 7 blocks, 4 calls, 45 texts; 36 questions at every length, a `query_str` of 6; 40 versions and 4 texts; a counter of 8, 30 ticks | well-formed requests, responses that are cut or not, JSON, DNS, versions, uptime |
| `JsonForgets` | violation, as `Library` | a rejected input leaves nodes behind (finding 11) |

`Drivers` and `Library` run one part at a time, chosen in the initial state: the parts share nothing, and
a run of each would be the same states. Both stop where the bounds of the part that runs are reached
(an input of seven tokens, the last tick): deadlock is not checked in them. It is in all others.

Why these bounds: with 3 connections and 2 contexts the pool is exhausted, a context is handed
from one connection to another, and one connection waits while another asks and a third is
refused; responses of 2 packets have a "between packets". Three bytes are the smallest ring that
wraps with a first and a second part of different lengths. Name, value and body limits of 2 and 3
let every array overflow; a body limit is met exactly, missed by one and exceeded. A header count of 3 or 4
values comes back to 0 where the code's does at 256; one of the names in DNS questions is a byte longer than
`query_str`. What the headers stored say has no part in what the run `HttpParser` asks, and its VIEW
takes states that differ in it for one. One request is
enough for what the HTTP client does to itself; two show that its steps leave the other alone.
Of the responses one just fits the buffer and one does not; chunks have sizes of one and two digits, with
and without an extension, and data that looks like line ends and sizes.
Two undelivered events are the least that can be stale in both directions (connected and
disconnected); two better access points and a count of 2 let the steady one change. With two clients of the
access point one can hide the other. Two user operations make every pair (a change and a reset, a press and a power cut) happen in any order. The
sleep intervals have no round, one round, one with a remainder, one with a remainder that
`sleep_init` rejects, and several. The maximum of unexpected resets is 16 in the code; nothing
depends on it but how long a loop is, and the proofs are for any. Seven tokens are enough for three
open containers with a key each and a token that is rejected; with two values, one can be put into
the other, taken out and copied, and four calls make a copy that lacks a part and go through it. Two channels and a short phase of 2 ticks in a period of 7 give duties
that are near each other, near nothing and near the period; three changes use all three sets. A
counter that overflows every 8 ticks, with a second of 2, overflows four times in 30.

In `Device` the garbage at power-on is of 1024 or more, which `sleep_init`
rejects: with smaller values the program sleeps for a count nobody wrote (finding 10), and
its bound on the time slept, in `SleepsAsAnnounced`, fails for the same reason. One interval, 50
minutes, has a remainder that `sleep_init` rejects: what `SleepsAsAnnounced` says of the whole sleep
leaves it out (finding 9), the bound and `Wakes` do not.

**Fairness.** Timers armed with the SDK fire (`WF` of the timeouts). The SDK calls the disconnect
callback it announced and the sent callback of what it accepted, and completes scans, HTTP
requests and downloads it was asked for: its interface promises it and the code relies on it.
Nothing is assumed of clients. The idle timeout of `espconn_regist_time` is a separate assumption
(`IdleTimeout`), left out where the request timeout has to be enough. In `Uart` the main program
goes on and an interrupt that is enabled again and again is taken (`SF`). The HTTP client's
`Answered` assumes the timer alone: no fairness of DNS or of servers. In `SetupModeReconnects`
timers and tasks run (`WF`) and the SDK goes on trying to connect when told to; a connection
attempt that can succeed again and again does so, and its event is delivered (`SF` of `LinkUp` and
`GotIp`: restarts are minutes apart, an attempt takes seconds, so that not every attempt is cut
short by one). `Device` assumes that the program boots, that operations of the flash return, and that the deep-sleep timer fires, and `Wakes` is
about a device that is left alone from some time on: no crash, no reset.

### Findings: where the code disagrees with its comments

1. `ApiServerAsker`: `on_tcp_disc` says "canceling async response to closed connection"
   (`apiserver.c:127`) but only forgets the connection. The job's callback answers whichever
   connection waits when it ends. This one has a run of its own, with `AnswerToAsker`; so has
    finding 11, `JsonForgets`. After a look-up it is PATCH /firmware that waits, whose refusal by the
    busy updater goes unnoticed; GET /wifi is refused at once, as scans are while the updater is busy.

The others were met while modelling. The models follow the code in each of these points, and the
properties are stated so that they hold, saying what becomes of exactly the case named here or leaving
it out:

2. `uart_buff_read` disables interrupts "so that we don't do any write to buffer during read"
   (`drivers/uart.c:263`), `uart_buff_peek` does not: an interrupt in the middle can overwrite the
   oldest bytes of a full ring. No property is stated about what a peek returns (`PeekReturns`).
3. "Handle all DNS errors the same way" (`httpclient.c:121`): the error reported at once is followed
   by the arming of the freed request's timer. `HttpClient` lets that timer fire.
4. "Don't reset if AP has clients" (`user_main.c:144`): a client that leaves before it was given an
   address is uncounted without having been counted, and the next one does not count.
   `IdleSparesClients` says how far the comment holds: the idle timeout takes the access point from no
   more clients than have left it so, and from none if none has.
5. "resetting to factory defaults" (`espgoodies/system.c:437`): the save before the restart writes
   back a Wi-Fi configuration that had been changed and not saved, by a PATCH /device answered three
   seconds before at most or by a rejected one (finding 18). `FactoryResetSticks`, a part of `UserHonoured`,
   names what the reset found (`leftover`): that or nothing is what the device starts with.
6. "setup button active at boot time, disabling" (`espgoodies/system.c:166`): the pin is configured
   by `main_init`, after the check. `user_init` therefore has no such check.
7. "we have to temporarily enable station mode for scanning" (`espgoodies/wifi.c:585`): the mode is
   not put back. `ModeServes`, a part of `RadioServes`, allows it.
8. "ignoring invalid DNS request" (`espgoodies/dnsserver.c:213`): the server no longer listens after
   one, nor after a packet of a size that is not allowed (`process_request` of `DnsServer`, which
   `QueriesAnswered` leaves out by `deaf`; `dns = "closed"` in `SetupMode`).
9. "about to sleep for a total of %d seconds" (`espgoodies/sleep.c:115`): a remainder of 1024 to 1799
   seconds is taken for invalid at the next boot, `SleepsAsAnnounced` is about the others.
10. "In case of full boot, RTC memory contents are random uninitialized crap" (`espgoodies/rtc.c:55`):
    the words of sleep keep it, and the next light boot trusts them if they are below 1024.
11. "Will free all JSON elements in hierarchy" (`espgoodies/json.c:1139`): a container is added to the
    one around it when it is closed, so that with three or more open ones those between the outermost
    and the innermost belong to nobody. An input rejected there leaks them. `OneOwner` counts them
    as `overlooked`; `JsonForgets` shows it.
12. `httpclient_request` returns without calling back for a URL that is not http or https, or has a bad
    port (`httpclient.c:481-504`), and `ota_perform_url` has set `ota_url` and the callback
    by then (`ota.c:120-135`): PATCH /firmware with such a URL is never answered, and the updater is busy, with
    look-ups, updates and scans refused, until a restart. In a build without `FW_BASE_URL`
    (`user_main.c:42`) the first look-up does the same. `UpdaterEnds` is about all other activities.
13. `better_bssid[0]` (`wifi.c:867`) and `cached_station_config.bssid[0]` (`wifi.c:73`) are tested for
    "there is one", although the first byte "may actually change" (`wifi.c:158`) and may be 0, as that of
    many vendors is. A better access point with such a BSSID is not remembered, and
    any other one that is better adds to its count, so that the device leaves its access point for one that
    was found once; and a configured BSSID of this kind is none to `wifi_get_bssid`, so that the device looks
    for a better one. `SameBetter` models the first, and
    `JumpsToSteadyOnly` says so; `Pinned` configurations are those without such a byte.
14. `version.h:13` and `Makefile:32,48` give a stable release type 6, `types_str` and `version_parse`
    have 0 for it ("stable", `version.c:11`), and `version_dump` writes both as "1.2.3": a stable version is
    read back as type 0, and compares as less than itself. A git build is written "unknown", which no type
    that is read has, so that the type is whatever the caller's memory held. `AsRead` is this.
15. "cannot duplicate JSON with freed members" (`json.c:579`): `json_dup` returns NULL for such a node at any
    depth, and stores it as a child of the copy. The next `json_dup`, `json_dump` or `json_stringify` of the
    copy reads through it. No part of this application copies a value with freed parts.
16. `header_count` is a `uint8` (`httpserver.h:69`) that wraps (`httpserver.c:56-60`): of a request with 256
    headers and more only those after the last multiple are handed over, and the others are never freed.
    `Understood` is about requests with fewer (`CanCount`).
17. `query_str[256]` (`dnsserver.c:237-249`) is written without a check, and packets of up to 512 bytes are
    read: labels that add up to more than 255 with their dots overflow it. Names as RFC 1035 allows them fit.
    `QueriesAnswered` is about names that fit (`Fits`).
18. A PATCH /device that is refused for an attribute or a value further on (`api.c:553`) has set the Wi-Fi
    configuration of the attributes before it (`api.c:489`, `api.c:502`, `api.c:517`), which is in use for the
    next connection and saved by the next restart. And one that is answered 204 is saved by the restart
    three seconds later (`system.c:498`): a power cut in between loses it, and one in the middle of the saving
    is taken to lose the configuration before it as well. `PatchKept`, a part of `UserHonoured`, says each of these.

Points 9 and 10 are about library functions that this application does not call. Smaller things that
the modules follow and no property is about:

- `system_uptime_us` adds `UINT_MAX`, one less than the period, at an overflow (`system.c:203`):
  `UptimeFollows` allows a microsecond each time.
- `version_cmp` compares words whose lowest byte is label and type: a release (no label) is
  less than its own alpha, and a label weighs more than a type. `LaterIsGreater` is about the numbers.
  Labels above 31 run into the patch (`Overlaid`); digits after "-beta" without a dot go into the patch.
- `pwm_set_duty` and `pwm_get_duty` cut percents to whole ticks; a period below two short phases makes
  phases run past the set, a frequency of 0 divides by 0, and while PWM is disabled the handler
  returns without setting the timer, which then fires when its counter comes round.
- A 1-Wire device whose family byte is 0 ends the search; `Plug` has none.
- `json_parse` of an empty input looks at the character before it, `pwm_setup` frees the sets of phases
  while the timer may still run, and the checks of a PWM channel let one past the last through: the
  inputs and calls of the modules leave these out.
- A response that was cut is told with its status and what came of its body (`httpclient.c:273` has a
  FIXME about it); one cut within its headers or a chunk's size is a fatal exception (`Crash`). The
  size of a plain body counts the NUL behind it. `ResponseRead` says exactly that.
- The captive DNS server refuses queries with additional records (those of resolvers that use EDNS)
  with a format error, and a server whose connection could not be created stays started and closed.
- `json_obj_pop_at` takes out the first child that has the key of the one asked for.

## 4. Proofs

TLAPS checks these for every value of the constants under the named assumptions of each module
(`ApiAssumption`, `BaseUrlAssumption`, `ParserAssumption`, `MessagesAssumption`, `ClientAssumption`,
`BootAssumption`, `IntervalAssumption`, `StoreAssumption`, `WifiAssumption`, `SetupAssumption`,
`RingAssumption`, `UartAssumption`, `PwmAssumption`, `OneWireAssumption`, `DnsAssumption`,
`VersionAssumption`, `UptimeAssumption`, `ResponseAssumption`). TLC evaluates each of them on the instances of the runs.
Where an argument goes by induction over a number it is put as a set: of the numbers a statement holds
for, of which 0 is one and with each the next (`UpTo`), or the least of those it fails for
(`LeastNumber`), from the well-foundedness of the naturals. `SequenceLemmas` has both, and what
flattening a sequence of sequences gives, from which the texts of requests and responses are laid out.

- `ApiServerProofs`: `TypeCorrect`, `SlotOwnership`, `ApiConnSafe`, `OtaExclusive`,
  `ApiConnNotOverwritten`, `ResponsesContiguous`. The inductive invariant joins `SlotOwner`,
  `ApiConnWaits`, `OneOtaActivity` and `AutoCheckOwned`: the connection to answer stays valid only
  because contexts and connections are paired (a release resets exactly its own context), and
  nothing overwrites `api_conn` because a request completes only on a context in state `new`.
- `DriversProofs`, of `Uart`: first, what `ring_buffer_write` and `ring_buffer_read` do to the contents,
  as lemmas on the operators (modular index arithmetic, once and for all); then
  `RingAlwaysConsistent`, `PollUndisturbed`, `Refinement`. The invariant says what a
  read that is under way has loaded, and that the ring does not change under it while the
  interrupt is masked. Peeks are left out of the queue's promises (finding 2).
- `DriversProofs`, of `OneWire`: `SearchFindsAll`, for any number of devices and addresses of any length.
  Addresses are ordered by their bits from the first on, a 0 before a 1, and a search that is undisturbed
  has found exactly the devices up to the last address in that order. One call follows the last address
  up to the last discrepancy, takes the 1 there and the 0 wherever devices differ after it, which makes
  its address the least of those that come later; without a discrepancy there is none.
- `DriversProofs`, of `Pwm`: `PwmKept`, `PwmReadsInRange`, `PwmLastApplied` and `PwmDutiesOut`, for any channels, duties and
  periods of two short phases and more. The operators come first: what `prepare_phases` computes can be
  run through (`Usable`): it ends with an empty phase, and the handler does not wait for the one before
  it. `ShiftLeft`, which merges events that are near each other, leaves every event but the start of the
  cycle later than `SHORT` and earlier than the end, which is why the rotation of a short last
  phase ends with one that is long. Then the interrupt: of three sets it reads one, may go on to
  another, and `apply_config` writes one that is neither (`PwmSafe`), whichever of its steps the interrupt
  comes between. For the duties the invariant (`PwmOut`) adds what the sets put out and what the handler
  has put out of one so far, and rests on a chain of lemmas on `prepare_phases`: each channel has two events
  in the list that is made of the duties (`Drives`), and a move in `shift_left` takes one of them
  to the other end of the cycle, which keeps the time between them; sorted and merged, they are the two times
  at which the channel goes on and off (`GoesAt`); with durations, and rotated, they give the channel a
  course of levels that ends as it starts and is on for the duty in between (`Steady`); and the handler
  follows that course from the phase that it was set to (`Held`), so that the first whole cycle sets every
  level and each later one is on for exactly the duty. It uses that duties are percentages, since
  `pwm_set_duty` returns without a change for one above 100.
- `MessageProofs`, of `HttpParser`: `TypeCorrect`, `BodyAsAnnounced`, `Refinement` (every character is a step
  of `HttpRequest` or a stutter). The invariant ties the parser's state to what was delivered and
  to the body's length. What it understands of well-formed requests is `RequestsUnderstood`, below.
- `LibraryProofs`, of `HttpClient`: `SingleAnswer`, `NoPartialResponse`, `NeverFreedUnanswered`. The invariant
  relates callback, answers and phase, and says that after a lost piece nothing can pass for a
  status line.
- `WifiProofs`: `RadioAlwaysServes`, `ScansAlwaysGoOn`, `LinkIsTracked`, `JumpsAreBacked`. The
  functions of `wifi.c` are operators on a record, and so is the invariant: `Good` is what each of
  them keeps, shown by one lemma for each function. `ConnectedTracksLink` alone is not inductive, since
  events arrive late: the invariant adds that the *last* event under way says what the link is
  (`LinkKnown`). `JumpsToSteadyOnly` needs `Backed`: the 8-bit counter of `wifi.c` is never ahead of
  the scans in a row that found what the code takes for the same access point (finding 13). The number of events under way is unbounded.
- `SetupModeProofs`: `AlwaysReachable`, `CoreTaskOnce`, `UserAlwaysHonoured`, `ClientsSpared`. Here too
  the invariant (`DevOK`) is one of the record of statics, and every function that the callbacks are
  made of has a lemma. What makes it inductive: only `main_init` enables the station, so without a
  station there is no link, no event and no cached configuration outside setup mode; the reset and
  the connection timer survive each other; and what is in the cache and not saved is from the last PATCH
  or was there at the factory reset, while what is saved is from there too or from before a power cut
  (`HistoryOK`). For `ClientsSpared` the invariant says that the count is the clients with an
  address less those that left without one while the access point was up, whatever their number.
- `DeviceProofs`, of `Boot`: `TypeCorrect`, `LoopIsBroken`, `OnlyLoopsWipe`. The invariant follows
  the count through a boot: between boots it is the length of the streak, or it is at the maximum
  because boots died while they reset the configuration. It holds whatever RTC memory held at
  power-on, since the count is written before any boot that could trust it.
- `DeviceProofs`, of sleep: `SleepsLongEnough` and, of the whole device, `DeviceSleeps`. The time slept and
  what the two words of sleep still ask for add up to what was announced, at every step of the boot
  that counts a round down. It is proved under `GarbageInvalid`, that power-on finds nothing in RTC
  memory that `sleep_init` takes for a count, without which it is false (finding 10).
- `DeviceProofs`, of `ConfigStore`: `SettingsStay`, `OtherSlotUntouched`, `StoreRefinement`. The
  invariant says that a save of the default slot at step n has erased or written exactly the
  sectors before n, so that a cut leaves erased sectors (read as the defaults) until the first
  write and the new settings from then on: erasing everything first is what makes it true.
- `DeviceProofs`, of both together: `DeviceBoots` and `DeviceStores` (a step of the device is a step
  or a stutter of each part, so that the theorems above are theorems of the device),
  `LoopStartsAfresh`, `SavedUnlessLoop`. The invariant joins the phases of the two parts in
  `user_init`: the settings are loaded after the loop was looked for, the flash is wiped before
  anything is loaded from it in a boot that found one, and `kept` is what the flash holds.
- `LibraryProofs`, of `HttpResponse`: `ResponsesRead`, for texts of any number of headers and chunks, with
  pieces and a buffer of any size. A response's text is laid out first (`TextLaid`): the status line at the first
  six characters, six for each header, an empty line, the body. What came in is the beginning of it and
  a NUL (`HasCome`). The search for the empty line finds that one or, in a text cut before it, none, since
  two line ends are next to each other nowhere else there; the loop over the headers then reads each
  where it lies (`HeadersRead`), and what announces chunks is found just where that header was sent. The size of a
  chunk is read digit by digit to the number that its numeral was made of, and stops there: what
  follows is an extension that does not begin with a digit, or a line end. From the last chunk
  back to the first, what is decoded from where a chunk begins is what is left of the body, or
  the beginning of that where the text was cut, with junk only behind it (`BodyDecoded`). The
  invariant (`ResponseInv`) says that the buffer holds the text up to where the rest is still to come
  or, after a lost piece, begins with no status line (`NoStatus`), and that what was told is what is read from it.
- `LibraryProofs`, of numbers: `UptimeIsTime` (for any period of the counter), `WordKeepsVersion`,
  `LaterIsGreater` (for labels below 32).
- `LibraryProofs`, of `Version`: `TextReadAs` and `VersionIsKept`. `version_parse` is a walk over the
  text; a lemma says what it has read after the part of the text that each field makes, for any
  number of digits, and what it takes from the memory of its caller (the type of a git build, nothing
  else). The invariant (`VersionIInv`) is that the version, the word and the release that is remembered
  are the same, or the first two are what the text of the third says.
- `MessageProofs`, of `DnsServer`: `QueriesAreAnswered`, for names of any number of labels that fit
  `query_str`, and packets of any length. `Laid` says at which byte each label of a question lies; along the labels `LabelsEnd`
  reaches the end of the name, or finds none in a packet that was cut before it, or one that five
  more bytes do not follow. The replies are cases of the header then, and the invariant
  (`DnsIInv`) adds when the server listens.
- `MessageProofs`, of `HttpMessages`: `RequestsUnderstood`. For every state of the parser the
  invariant (`MessageIInv`) says which part of the request is left to come and what of it was
  read: a part of the method, path, query or fragment, the headers before the i-th one and a part of its
  name or value, a part of the body, each cut to the length of its array. One lemma for each state
  shows that a character leads from there to the next such place. It holds for texts of any length and
  for as many headers as can be counted, since the count of a request never wraps before its last one. A request that is left in the middle shows that nothing of it is found in
  the next one.

Some of what is proved has no run of its own, because it is shown for every instance: `RingConsistent`
(which `QueueSpec` rests on), the types of `Uart`, `HttpClient`, `Wifi`, `SetupMode`, `Boot` and `ConfigStore`, `NeverFreedUnanswered`, and
`AutoCheckOwned`, a part of the invariant of `ApiServerProofs`.

Model-checked only:

- all liveness (`ClientsGetOn`, `UpdaterEnds`, `Drained`, `Answered`, `Reconnects`, `Wakes`), since the
  prover does not handle fairness and ENABLED;
- `OneOwner`, `DumpsParse` and `ValuesApart`: trees are built, written and freed by recursive operators, of
  which the provers know nothing;
- the two violations.

## 5. Plan

What is left, in this order:

1. `HttpClient` under `Ota`: the interface that `Ota` assumes, shown of the client.
2. `utils.c`: decimal conversions and string helpers against reference definitions.
3. `Device` under `SetupMode`: one device whose restarts are those of `Boot`. `SetupMode` has its own
   small model of restarts and power cuts now, in which a save is one step.

## 6. Not modelled

GPIO interrupt handlers and `call_later` have no caller in this firmware. The HSPI driver, the
transmission of the UART and the rest of the register programming have no state that anything else
depends on. Of `json.c`: `json_stringify` of lists and numbers (its buffer is reallocated from a
pointer that was not initialised), the digits of numbers, white space. What an overflown
`query_str` (finding 17) does beyond one packet. Crypto and JWT (bit-level computation, no concurrency), HTML, debug output, build scripts, the
register programming of the drivers, wording of responses, URL parsing, static addresses. Memory
exhaustion is modelled where the code tests for it, and as the restart that a failed allocation
leads to (`SoftRestart` in `Boot`). Flash pages torn by a power cut are not modelled, nor a failure
of RTC memory.
