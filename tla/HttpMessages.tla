------------------------------ MODULE HttpMessages ------------------------------
(***************************************************************************)
(* The parser of module HttpParser fed with well-formed requests, compared *)
(* with what they say.  A connection may go at any point of a request: the *)
(* context is reset and serves another one.                                *)
(*                                                                         *)
(* Well-formed for this parser: at least one header, and no header without *)
(* a value; it does not find the end of the others.                        *)
(***************************************************************************)
EXTENDS HttpParser, SequencesExt

CONSTANTS
  Paths, Queries, Bodies,   \* sequences of characters
  OtherHeaders,             \* sequences of <<name, value>>, to put before Content-Length
  NoMessage                 \* no request is being sent

LengthDigit == <<"0", "1", "2", "3", "4">>

\* What each of the parts ends at is not in it, and only the length is named "L".
NameChars == Chars \ ({":"} \cup Spaces)
ValueChars == Chars \ {"\r", "\n"}

IsHeader(header) ==
  /\ header[1] \notin {<< >>, <<"L">>}
  /\ header[2] # << >> /\ Head(header[2]) \notin Spaces

ASSUME MessagesAssumption ==
  /\ Paths \subseteq Seq(Chars \ ({"?", "#"} \cup Spaces))
  /\ Queries \subseteq Seq(Chars \ ({"#"} \cup Spaces))
  /\ OtherHeaders \subseteq Seq(Seq(NameChars) \X Seq(ValueChars))
  /\ \A headers \in OtherHeaders : \A i \in DOMAIN headers : IsHeader(headers[i])
  /\ \A body \in Bodies : body \in Seq(Chars) /\ Len(body) < Len(LengthDigit)

VARIABLES
  message,   \* the request being sent
  input      \* the part of its text that is still to arrive

message_vars == <<message, input>>

Messages ==
  [path : Paths, query : Queries, fragment : {<< >>, <<"#", "a">>},
   eol : {<<"\n">>, <<"\r", "\n">>}, headers : OtherHeaders, body : Bodies]

LengthHeader(body) == << <<"L">>, <<LengthDigit[Len(body) + 1]>> >>

\* Content-Length comes last, and is left out without a body if there is another
\* header.
AllHeaders(m) ==
  IF m.body = << >> /\ m.headers # << >>
  THEN m.headers
  ELSE Append(m.headers, LengthHeader(m.body))

HeaderLine(header, eol) == header[1] \o <<":", " ">> \o header[2] \o eol

Text(m) ==
  <<"a", "a", " ", "/">> \o m.path
  \o (IF m.query = << >> THEN << >> ELSE <<"?">> \o m.query)
  \o m.fragment
  \o <<" ", "a", "/", "1">> \o m.eol
  \o FlattenSeq([i \in DOMAIN AllHeaders(m) |-> HeaderLine(AllHeaders(m)[i], m.eol)])
  \o m.eol
  \o m.body

Cut(s, max_len) == SubSeq(s, 1, IF Len(s) < max_len THEN Len(s) ELSE max_len)

\* What its handler should be given: names and values cut to the arrays' lengths.
Meaning(m) ==
  [path |-> Cut(<<"/">> \o m.path, MaxPath),
   query |-> Cut(m.query, MaxQuery),
   headers |-> [i \in DOMAIN AllHeaders(m) |->
                  <<Cut(AllHeaders(m)[i][1], MaxName), Cut(AllHeaders(m)[i][2], MaxValue)>>],
   body |-> m.body]

MessageInit == Init /\ message = NoMessage /\ input = << >>

Connect(m) ==
  /\ SetupConnection
  /\ message' = m
  /\ input' = Text(m)

Arrive ==
  /\ input # << >>
  /\ ParseChar(Head(input))
  /\ input' = Tail(input)
  /\ UNCHANGED message

Disconnect ==
  /\ message # NoMessage
  /\ httpserver_context_reset
  /\ message' = NoMessage
  /\ input' = << >>

MessageNext ==
  \/ \E m \in Messages : Connect(m)
  \/ Arrive
  \/ Disconnect

MessageSpec == MessageInit /\ [][MessageNext]_<<vars, message_vars>>

--------------------------------------------------------------------------------
\* header_count can tell all the headers of a request.
CanCount(m) == Len(AllHeaders(m)) < HeaderCounts

\* A request with fewer than 2^8 headers whose text is in was handed over once, as it
\* was sent, and not before; one whose body is too long for HTTP_MAX_BODY_LEN was
\* answered by the invalid callback.  Nothing of the request before it is left in it,
\* however many headers that one had.
Understood ==
  message # NoMessage /\ CanCount(message) =>
    IF Len(message.body) <= MaxBody
    THEN /\ delivered = IF input = << >> THEN <<Meaning(message)>> ELSE << >>
         /\ ~rejected
    ELSE delivered = << >> /\ (input = << >> => rejected)

================================================================================
