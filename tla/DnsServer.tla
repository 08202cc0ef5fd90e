-------------------------------- MODULE DnsServer --------------------------------
(***************************************************************************)
(* The captive DNS server, src/espgoodies/dnsserver.c: the connection it   *)
(* listens on, and what it answers.  (Module SetupMode starts it.)         *)
(*                                                                         *)
(* A packet is a header, by its fields, and the bytes after it; one that   *)
(* is shorter than a header has none.  The bytes of a reply's answer       *)
(* section are one record.                                                 *)
(***************************************************************************)
EXTENDS Integers, Sequences, SequencesExt

CONSTANTS
  DNS_HEADER_SIZE, DNS_MAX_PACKET_SIZE,
  QUERY_STR_SIZE,   \* of the buffer that a name is copied to
  Questions,   \* that clients ask: [name, qtype, qclass]
  Extras,      \* what may follow them in a packet: sequences of bytes
  NoPacket

Octets == 0 .. 255

\* No label is longer than 63 bytes, and an empty one ends the name.
IsQuestion(q) ==
  /\ q.name \in Seq(Seq(Octets)) /\ \A i \in DOMAIN q.name : Len(q.name[i]) \in 1 .. 63
  /\ {q.qtype, q.qclass} \subseteq Nat /\ q.qtype < 65536 /\ q.qclass < 65536

ASSUME DnsAssumption ==
  /\ DNS_HEADER_SIZE \in Nat /\ DNS_MAX_PACKET_SIZE \in Nat /\ QUERY_STR_SIZE \in Nat
  /\ \A q \in Questions : IsQuestion(q)
  /\ Extras \subseteq Seq(Octets)

VARIABLES
  started,
  conn,        \* "NULL" or "listening"
  asked,       \* history: the packet that came last, with what its sender meant
  reply,       \* what was sent for it
  deaf         \* history: no query came, or listening failed, since the server started
dns_vars == <<started, conn, asked, reply, deaf>>

DnsInit ==
  started = FALSE /\ conn = "NULL" /\ asked = NoPacket /\ reply = NoPacket /\ deaf = FALSE

--------------------------------------------------------------------------------
(* What clients send. *)

Uint16Bytes(n) == <<n \div 256, n % 256>>

Encoded(q) ==
  FlattenSeq([i \in DOMAIN q.name |-> <<Len(q.name[i])>> \o q.name[i]])
  \o <<0>> \o Uint16Bytes(q.qtype) \o Uint16Bytes(q.qclass)

\* Queries as they should be, then with something else in each of the fields.
Headers ==
  LET Header(qr, op_code, qd, ar) ==
        [qr |-> qr, op_code |-> op_code, reply_code |-> 0,
         qd_count |-> qd, an_count |-> 0, ns_count |-> 0, ar_count |-> ar]
  IN  {Header(0, 0, 1, 0), Header(1, 0, 1, 0), Header(0, 1, 1, 0),
       Header(0, 0, 0, 0), Header(0, 0, 2, 0), Header(0, 0, 1, 1)}

\* A question, or the first bytes of it, or something after it.
QuestionBytes(q) ==
  {SubSeq(Encoded(q), 1, n) : n \in 0 .. Len(Encoded(q))} \cup {Encoded(q) \o e : e \in Extras}

\* In bytes; NoPacket stands for one that is shorter than a header.
Size(p) == IF p = NoPacket THEN DNS_HEADER_SIZE - 1 ELSE DNS_HEADER_SIZE + Len(p.body)

--------------------------------------------------------------------------------
(* What the server replies. *)

DNS_REPLY_NO_ERROR        == 0
DNS_REPLY_FORMAT_ERROR    == 1
DNS_REPLY_NX_DOMAIN       == 3
DNS_REPLY_NOT_IMPLEMENTED == 4

\* The name of the answer points to the one right after the header.
OwnAddress == [name |-> DNS_HEADER_SIZE, qtype |-> 1, qclass |-> 1, data |-> "own address"]

prepare_error_response(header, reply_code, query) ==
  [header |-> [header EXCEPT !.qr = 1, !.reply_code = reply_code,
                             !.qd_count = IF query = << >> THEN 0 ELSE 1,
                             !.an_count = 0, !.ns_count = 0, !.ar_count = 0],
   query |-> query, answers |-> << >>]

prepare_ip_response(header, query) ==
  [header |-> [header EXCEPT !.qr = 1, !.reply_code = DNS_REPLY_NO_ERROR,
                             !.qd_count = 1, !.an_count = 1, !.ns_count = 0, !.ar_count = 0],
   query |-> query, answers |-> <<OwnAddress>>]

Unterminated(body, n) == n <= Len(body) /\ body[n] + 1 > Len(body) - n + 1

\* Where the labels end: at a 0 or after all bytes; one with too few bytes tells its own
\* place, negated.
LabelsEnd(body) ==
  LET from[n \in 1 .. Len(body) + 1] ==
        CASE n > Len(body) \/ body[n] = 0 -> n
          [] Unterminated(body, n)        -> -n
          [] OTHER                        -> from[n + body[n] + 1]
  IN  from[1]

\* Each label is copied to query_str with a ".", and a 0 after it, unchecked.
QueryStrOverflown(body) ==
  LET end == LabelsEnd(body) IN end > QUERY_STR_SIZE \/ -end > QUERY_STR_SIZE

\* mutant: the 0 is not skipped
FieldAtZero(body, end, n) == <<body[end + n - 1], body[end + n]>>

Field(body, end, n) == <<body[end + n], body[end + n + 1]>>

Counted(h) == h.qd_count = 1 /\ h.an_count = 0 /\ h.ns_count = 0 /\ h.ar_count = 0

\* NoPacket for what is no query.
prepare_response(p) ==
  LET h     == p.header
      end   == LabelsEnd(p.body)
      query == SubSeq(p.body, 1, end + 4)
      Refused(reply_code, q) == prepare_error_response(h, reply_code, q)
      Known   == {Uint16Bytes(1), Uint16Bytes(255)}
  IN  IF h.qr # 0 THEN NoPacket
      ELSE IF h.op_code # 0 THEN Refused(DNS_REPLY_NOT_IMPLEMENTED, << >>)
      ELSE IF ~Counted(h) \/ end < 0 \/ Len(p.body) - end + 1 < 5
           THEN Refused(DNS_REPLY_FORMAT_ERROR, << >>)
      ELSE IF Field(p.body, end, 1) \in Known /\ Field(p.body, end, 3) \in Known
           THEN prepare_ip_response(h, query)
      ELSE Refused(DNS_REPLY_NX_DOMAIN, query)

--------------------------------------------------------------------------------
(* The connection. *)

\* espconn_create may fail.
listen == conn' \in {"NULL", "listening"} /\ deaf' = (deaf \/ conn' = "NULL")

reset == conn' = "NULL"

dnsserver_start_captive ==
  /\ IF started THEN UNCHANGED <<started, conn, deaf>> ELSE started' = TRUE /\ listen
  /\ UNCHANGED <<asked, reply>>

dnsserver_stop ==
  /\ started /\ started' = FALSE
  /\ reset
  /\ deaf' = FALSE
  /\ UNCHANGED <<asked, reply>>

\* mutant: a packet that is refused is the last one
OnlyNames(response) == IF response.answers = << >> THEN reset /\ UNCHANGED deaf ELSE listen

ListenAgain(response) == listen

\* The other variables on the stack and the return address are written over: the reply
\* is not what the query calls for, or the device stops with an exception and restarts.
Corrupted ==
  \/ reply' = "garbled" /\ listen /\ UNCHANGED started
  \/ reply' = NoPacket /\ started' = FALSE /\ reset /\ deaf' = FALSE

\* meant: the question whose bytes the packet has, all of them or not.
process_request(p, meant) ==
  LET invalid  == Size(p) > DNS_MAX_PACKET_SIZE \/ Size(p) < DNS_HEADER_SIZE
      response == IF invalid THEN NoPacket ELSE prepare_response(p)
      copied   == ~invalid /\ p.header.qr = 0 /\ p.header.op_code = 0 /\ Counted(p.header)
  IN  /\ conn = "listening"
      /\ asked' = [packet |-> p, question |-> meant]
      /\ \/ /\ reply' = response
            /\ IF response = NoPacket THEN reset /\ deaf' = TRUE ELSE ListenAgain(response)
            /\ UNCHANGED started
         \/ copied /\ QueryStrOverflown(p.body) /\ Corrupted

\* The client has got the reply, or it was lost.
Forget ==
  /\ asked # NoPacket
  /\ asked' = NoPacket /\ reply' = NoPacket
  /\ UNCHANGED <<started, conn, deaf>>

DnsNext ==
  \/ dnsserver_start_captive \/ dnsserver_stop
  \/ /\ asked = NoPacket
     /\ \E q \in Questions :
          \/ \E header \in Headers, body \in QuestionBytes(q) :
               process_request([header |-> header, body |-> body], q)
          \/ process_request(NoPacket, q)
  \/ Forget

DnsSpec == DnsInit /\ [][DnsNext]_dns_vars

--------------------------------------------------------------------------------
(* Properties. *)

\* The name with the 0 that ends it has a place in query_str.
Fits(q) == Len(Encoded(q)) - 4 <= QUERY_STR_SIZE

\* A client whose packet holds a whole question, with a name that fits, gets it back,
\* with this device's address if that is what it asked for and "no such domain" if
\* not, in a reply that says what it holds; a packet that holds less, or more than a
\* question, is refused, wherever it was cut.  And a server goes on listening, after
\* whatever packet of a size that is allowed, as long as the packets are queries.
QueriesAnswered ==
  /\ started /\ ~deaf => conn = "listening"
  /\ reply # NoPacket /\ Fits(asked.question) =>
       LET h        == asked.packet.header
           question == Encoded(asked.question)
           Whole    == IsPrefix(question, asked.packet.body)
           Plain    == h.op_code = 0 /\ h.qd_count = 1 /\ h.ar_count = 0
           Address  == asked.question.qtype \in {1, 255} /\ asked.question.qclass \in {1, 255}
       IN  /\ reply.header.qr = 1
           /\ reply.header.qd_count = IF reply.query = << >> THEN 0 ELSE 1
           /\ reply.header.an_count = Len(reply.answers)
           /\ reply.header.ns_count = 0 /\ reply.header.ar_count = 0
           /\ reply.query = IF Whole /\ Plain THEN question ELSE << >>
           /\ reply.answers # << >> <=> Whole /\ Plain /\ Address
           /\ reply.header.reply_code = 0 <=> reply.answers # << >>
           /\ reply.header.reply_code = 3 <=> reply.query # << >> /\ reply.answers = << >>

================================================================================
