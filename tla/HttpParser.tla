------------------------------- MODULE HttpParser -------------------------------
(***************************************************************************)
(* The request parser of src/espgoodies/httpserver.c, which is fed one     *)
(* character at a time, over the life of one request context: setup, any   *)
(* number of characters, reset.                                            *)
(*                                                                         *)
(* Letters, Spaces, Digits and punctuation are all it tells apart.  "L"    *)
(* stands for the whole header name Content-Length, and the only numbers   *)
(* are single digits, with or without a sign.  The lengths of the context's*)
(* arrays are constants.                                                   *)
(***************************************************************************)
EXTENDS Integers, Sequences

CONSTANTS
  Chars,   \* the characters that clients send
  MaxPath, MaxQuery, MaxName, MaxValue, MaxBody,  \* HTTP_MAX_..._LEN
  HeaderCounts   \* that header_count, an uint8, goes through: 2^8

ASSUME ParserAssumption ==
  /\ MaxPath \in Nat /\ MaxQuery \in Nat /\ HeaderCounts \in Nat \ {0}
  /\ MaxName \in Nat \ {0, 1}
  /\ MaxValue \in Nat \ {0, 1}
  /\ MaxBody \in Nat \ {0, 1}

VARIABLES
  hc,          \* httpserver_context_t
  delivered,   \* arguments of the request callback, for this connection
  rejected     \* the invalid callback was called for this connection

vars == <<hc, delivered, rejected>>

Letters == {"a", "L"}
Spaces == {" ", "\r", "\n"}
Digits == {"0", "1", "2", "3", "4"}

ParserStates ==
  {"IDLE", "NEW", "INVALID", "METHOD", "METHOD_READY", "PATH", "QUERY", "FRAGMENT",
   "FRAGMENT_READY", "PROTO", "PROTO_READY", "HEADER_NAME", "HEADER_NAME_READY",
   "HEADER_VALUE", "HEADER_VALUE_READY", "HEADER_VALUE_READY_NL", "HEADER_READY",
   "BODY", "BODY_READY"}

\* The first header_count of header_names and header_values are one sequence; body stands for body_len too.
Contexts ==
  [req_state : ParserStates, path : Seq(Chars), query : Seq(Chars),
   content_length : Int, headers : Seq(Seq(Chars) \X Seq(Chars)),
   header_name : Seq(Chars), header_value : Seq(Chars), body : Seq(Chars)]

RequestData ==
  [path : Seq(Chars), query : Seq(Chars), headers : Seq(Seq(Chars) \X Seq(Chars)),
   body : Seq(Chars)]

EmptyContext ==
  [req_state |-> "IDLE", path |-> << >>, query |-> << >>, content_length |-> 0,
   headers |-> << >>, header_name |-> << >>, header_value |-> << >>, body |-> << >>]

TypeOK ==
  /\ hc \in Contexts
  /\ Len(hc.path) <= MaxPath /\ Len(hc.query) <= MaxQuery
  /\ Len(hc.body) <= MaxBody /\ Len(hc.headers) < HeaderCounts
  /\ Len(hc.header_name) <= MaxName /\ Len(hc.header_value) <= MaxValue
  /\ delivered \in Seq(RequestData)
  /\ rejected \in BOOLEAN

Init ==
  /\ hc = EmptyContext
  /\ delivered = << >>
  /\ rejected = FALSE

--------------------------------------------------------------------------------
(* Helpers. *)

\* A full array keeps what it has.
append_max_len(s, c, max_len) == IF Len(s) < max_len THEN Append(s, c) ELSE s

DigitValue ==
  [d \in Digits |->
     CASE d = "0" -> 0 [] d = "1" -> 1 [] d = "2" -> 2 [] d = "3" -> 3 [] d = "4" -> 4]

\* strtol of a header value, by its first digit.
strtol(value) ==
  IF value # << >> /\ Head(value) \in Digits
  THEN DigitValue[Head(value)]
  ELSE IF Len(value) >= 2 /\ value[1] = "-" /\ value[2] \in Digits
       THEN -DigitValue[value[2]]
       ELSE 0

\* A count that comes back to 0 has forgotten the headers before.
AddHeader(headers, header) ==
  IF Len(headers) + 1 = HeaderCounts THEN << >> ELSE Append(headers, header)

\* handle_header_value_ready; the parser then empties the name and the value.
handle_header_value_ready(h) ==
  [h EXCEPT !.content_length = IF h.header_name = <<"L">>
                               THEN strtol(h.header_value)
                               ELSE @,
            !.headers = AddHeader(@, <<h.header_name, h.header_value>>),
            !.header_name = << >>,
            !.header_value = << >>]

Goto(state, h) ==
  /\ hc' = [h EXCEPT !.req_state = state]
  /\ UNCHANGED <<delivered, rejected>>

handle_request(state, h) ==
  /\ hc' = [h EXCEPT !.req_state = state]
  /\ delivered' = Append(delivered, [path |-> h.path, query |-> h.query,
                                     headers |-> h.headers, body |-> h.body])
  /\ UNCHANGED rejected

handle_invalid ==
  /\ hc' = [hc EXCEPT !.req_state = "INVALID"]
  /\ rejected' = TRUE
  /\ UNCHANGED delivered

--------------------------------------------------------------------------------
(* httpserver_parse_req_char(hc, c), one action per case of its switch. *)

NewChar(c) ==
  /\ hc.req_state = "NEW"
  /\ IF c \in Letters THEN Goto("METHOD", hc) ELSE handle_invalid

InvalidChar(c) ==
  /\ hc.req_state = "INVALID"
  /\ handle_invalid

MethodChar(c) ==
  /\ hc.req_state = "METHOD"
  /\ CASE c \in Letters -> Goto("METHOD", hc)
       [] c \in Spaces  -> Goto("METHOD_READY", hc)
       [] OTHER         -> handle_invalid

\* Anything but a slash is skipped.
MethodReadyChar(c) ==
  /\ hc.req_state = "METHOD_READY"
  /\ IF c = "/"
     THEN Goto("PATH", [hc EXCEPT !.path = append_max_len(@, c, MaxPath)])
     ELSE Goto("METHOD_READY", hc)

PathChar(c) ==
  /\ hc.req_state = "PATH"
  /\ CASE c = "?"        -> Goto("QUERY", hc)
       [] c = "#"        -> Goto("FRAGMENT", hc)
       [] c \in Spaces   -> Goto("FRAGMENT_READY", hc)
       [] OTHER          -> Goto("PATH", [hc EXCEPT !.path = append_max_len(@, c, MaxPath)])

QueryChar(c) ==
  /\ hc.req_state = "QUERY"
  /\ CASE c = "#"        -> Goto("FRAGMENT", hc)
       [] c \in Spaces   -> Goto("FRAGMENT_READY", hc)
       [] OTHER          -> Goto("QUERY", [hc EXCEPT !.query = append_max_len(@, c, MaxQuery)])

FragmentChar(c) ==
  /\ hc.req_state = "FRAGMENT"
  /\ Goto(IF c \in Spaces THEN "FRAGMENT_READY" ELSE "FRAGMENT", hc)

FragmentReadyChar(c) ==
  /\ hc.req_state = "FRAGMENT_READY"
  /\ Goto(IF c \in Spaces THEN "FRAGMENT_READY" ELSE "PROTO", hc)

ProtoChar(c) ==
  /\ hc.req_state = "PROTO"
  /\ Goto(IF c \in Spaces THEN "PROTO_READY" ELSE "PROTO", hc)

\* The first character of a header's name.
HeaderStarts(c) ==
  Goto("HEADER_NAME", [hc EXCEPT !.header_name = append_max_len(@, c, MaxName)])

\* Every space is skipped, the end of the request line and empty lines included.
ProtoReadyChar(c) ==
  /\ hc.req_state = "PROTO_READY"
  /\ IF c \in Spaces THEN Goto("PROTO_READY", hc) ELSE HeaderStarts(c)

HeaderNameChar(c) ==
  /\ hc.req_state = "HEADER_NAME"
  /\ IF c = ":" \/ c \in Spaces THEN Goto("HEADER_NAME_READY", hc) ELSE HeaderStarts(c)

\* So is every space before a value, which may then come from a later line.
HeaderNameReadyChar(c) ==
  /\ hc.req_state = "HEADER_NAME_READY"
  /\ IF c \in Spaces
     THEN Goto("HEADER_NAME_READY", hc)
     ELSE Goto("HEADER_VALUE",
               [hc EXCEPT !.header_value = append_max_len(@, c, MaxValue)])

HeaderValueChar(c) ==
  /\ hc.req_state = "HEADER_VALUE"
  /\ CASE c = "\n" -> Goto("HEADER_VALUE_READY_NL", handle_header_value_ready(hc))
       [] c = "\r" -> Goto("HEADER_VALUE_READY", handle_header_value_ready(hc))
       [] OTHER    -> Goto("HEADER_VALUE",
                           [hc EXCEPT !.header_value = append_max_len(@, c, MaxValue)])

HeaderValueReadyChar(c) ==
  /\ hc.req_state = "HEADER_VALUE_READY"
  /\ CASE c = "\n"              -> Goto("HEADER_VALUE_READY_NL", hc)
       [] c \in Spaces \ {"\n"} -> Goto("HEADER_VALUE_READY", hc)
       [] OTHER                 -> HeaderStarts(c)

\* mutant: a body of one character is expected by HTTP_STATE_HEADER_READY too
BodyStartLate(h) == "HEADER_READY"

\* HTTP_STATE_HEADER_READY takes the first character of a body without looking
\* whether it is the last one.
BodyStart(h) == IF h.content_length = 1 THEN "BODY" ELSE "HEADER_READY"

HeadersEnd ==
  IF hc.content_length = 0
  THEN handle_request("HEADER_READY", hc)
  ELSE Goto(BodyStart(hc), hc)

HeaderValueReadyNlChar(c) ==
  /\ hc.req_state = "HEADER_VALUE_READY_NL"
  /\ CASE c = "\n"              -> HeadersEnd
       [] c \in Spaces \ {"\n"} -> Goto("HEADER_VALUE_READY_NL", hc)
       [] OTHER                 -> HeaderStarts(c)

\* mutant: a character after a request without a body is taken for one
BodyAlways == TRUE

BodyExpected == hc.content_length # 0

HeaderReadyChar(c) ==
  /\ hc.req_state = "HEADER_READY"
  /\ IF BodyExpected THEN Goto("BODY", [hc EXCEPT !.body = <<c>>]) ELSE handle_invalid

\* mutant: the body is ready one character early
BodyEarly(body) == Len(body) >= hc.content_length - 1

BodyComplete(body) == Len(body) >= hc.content_length

BodyChar(c) ==
  /\ hc.req_state = "BODY"
  /\ LET body == Append(hc.body, c)
     IN  CASE Len(hc.body) >= MaxBody -> handle_invalid
           [] Len(hc.body) < MaxBody /\ BodyComplete(body) ->
                handle_request("BODY_READY", [hc EXCEPT !.body = body])
           [] OTHER -> Goto("BODY", [hc EXCEPT !.body = body])

\* BODY_READY ignores what follows.
ParseChar(c) ==
  \/ NewChar(c) \/ InvalidChar(c) \/ MethodChar(c) \/ MethodReadyChar(c)
  \/ PathChar(c) \/ QueryChar(c) \/ FragmentChar(c) \/ FragmentReadyChar(c)
  \/ ProtoChar(c) \/ ProtoReadyChar(c) \/ HeaderNameChar(c) \/ HeaderNameReadyChar(c)
  \/ HeaderValueChar(c) \/ HeaderValueReadyChar(c) \/ HeaderValueReadyNlChar(c)
  \/ HeaderReadyChar(c) \/ BodyChar(c)

SetupConnection ==
  /\ hc.req_state = "IDLE"
  /\ Goto("NEW", hc)

\* mutant: httpserver_context_reset clears less than the whole context
LengthKept == [EmptyContext EXCEPT !.content_length = hc.content_length]

ResetContext == EmptyContext

httpserver_context_reset ==
  /\ hc' = ResetContext
  /\ delivered' = << >>
  /\ rejected' = FALSE

Next ==
  \/ SetupConnection
  \/ \E c \in Chars : ParseChar(c)
  \/ httpserver_context_reset

Spec == Init /\ [][Next]_vars

--------------------------------------------------------------------------------
(* Properties. *)

\* A context as the API server sees it.
Phase ==
  CASE hc.req_state = "IDLE"       -> "idle"
    [] hc.req_state = "INVALID"    -> "invalid"
    [] hc.req_state = "BODY_READY" -> "body_ready"
    [] hc.req_state = "HEADER_READY" /\ hc.content_length = 0 -> "header_ready"
    [] OTHER                       -> "new"

\* Whatever characters come, in whatever pieces, the parser goes through what
\* ApiServer assumes: one request per connection at most, none after an invalid
\* character, no invalid callback without the state to go with it.
Request == INSTANCE HttpRequest WITH phase <- Phase

RequestSpec == Request!Spec

\* A request is handed over with as many body characters as it announced, and
\* never before they are in.  (A negative length is not zero: it makes the parser
\* wait for two.)
BodyAnnounced ==
  delivered # << >> /\ hc.content_length >= 0
    => Len(delivered[1].body) = hc.content_length

================================================================================
