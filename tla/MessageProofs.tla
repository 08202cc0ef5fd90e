------------------------------ MODULE MessageProofs ------------------------------
(***************************************************************************)
(* Proofs about the messages that arrive.                                  *)
(*                                                                         *)
(* HttpParser, for any characters and any lengths of the context's arrays: *)
(* the type invariant, that a request comes with the body it announced,    *)
(* and that the parser implements what the API server takes for granted of *)
(* it (module HttpRequest).                                                *)
(*                                                                         *)
(* DnsServer, for names of any number of labels: what a query is answered. *)
(*                                                                         *)
(* HttpMessages, for requests of any length: what the parser understands.  *)
(***************************************************************************)
EXTENDS DnsServer, HttpMessages, SequenceLemmas

--------------------------------------------------------------------------------
(* Requests of any characters. *)

BodyStates == {"BODY", "BODY_READY", "INVALID"}

\* A request was handed over in the states that expect nothing more, and only
\* there; the body is empty until the headers are in, and short of its length
\* until it is handed over.
ParserInv ==
  /\ delivered # << >> =>
       /\ Len(delivered) = 1
       /\ \/ hc.req_state \in {"INVALID", "BODY_READY"}
          \/ hc.req_state = "HEADER_READY" /\ hc.content_length = 0
  /\ hc.req_state \notin BodyStates => hc.body = << >>
  /\ hc.req_state = "HEADER_READY" => hc.content_length # 1
  /\ hc.req_state = "BODY" =>
       /\ hc.content_length # 0
       /\ hc.content_length > 0 => Len(hc.body) < hc.content_length

IInv == TypeOK /\ ParserInv /\ BodyAnnounced

--------------------------------------------------------------------------------
LEMMA AppendMaxLen ==
  ASSUME NEW s \in Seq(Chars), NEW c \in Chars, NEW max \in Nat, Len(s) <= max
  PROVE  /\ append_max_len(s, c, max) \in Seq(Chars)
         /\ Len(append_max_len(s, c, max)) <= max
BY AppendProperties, LenProperties DEF append_max_len

LEMMA StrtolInt ==
  ASSUME NEW value
  PROVE  strtol(value) \in Int
<1>1. \A d \in Digits : DigitValue[d] \in Int
  BY DEF DigitValue, Digits
<1> QED
  BY <1>1 DEF strtol

LEMMA AddHeaderFits ==
  ASSUME NEW T, NEW headers \in Seq(T), Len(headers) < HeaderCounts, NEW header \in T
  PROVE  /\ AddHeader(headers, header) \in Seq(T)
         /\ Len(AddHeader(headers, header)) < HeaderCounts
<1>1. Len(headers) \in Nat /\ HeaderCounts \in Nat \ {0}
  BY ParserAssumption
<1>2. CASE Len(headers) + 1 = HeaderCounts
  <2>1. << >> \in Seq(T) /\ Len(<< >>) = 0
    OBVIOUS
  <2> QED BY <1>1, <1>2, <2>1 DEF AddHeader
<1>3. CASE Len(headers) + 1 # HeaderCounts
  <2>1. /\ Append(headers, header) \in Seq(T)
        /\ Len(Append(headers, header)) = Len(headers) + 1
    BY AppendProperties
  <2> QED BY <1>1, <1>3, <2>1 DEF AddHeader
<1> QED BY <1>2, <1>3

LEMMA EmptyOK == EmptyContext \in Contexts
BY DEF EmptyContext, Contexts, ParserStates

LEMMA InitIInv == Init => IInv
<1> SUFFICES ASSUME Init PROVE IInv
  OBVIOUS
<1>1. TypeOK
  <2>1. /\ hc \in Contexts /\ delivered \in Seq(RequestData)
    BY EmptyOK DEF Init
  <2>2. /\ hc.path = << >> /\ hc.query = << >> /\ hc.body = << >>
        /\ hc.headers = << >> /\ hc.header_name = << >> /\ hc.header_value = << >>
    BY DEF Init, EmptyContext
  <2>3. /\ Len(hc.path) = 0 /\ Len(hc.query) = 0 /\ Len(hc.body) = 0
        /\ Len(hc.headers) = 0 /\ Len(hc.header_name) = 0 /\ Len(hc.header_value) = 0
    BY <2>2
  <2>4. rejected \in BOOLEAN
    BY DEF Init
  <2> QED
    BY <2>1, <2>3, <2>4, ParserAssumption DEF TypeOK
<1> QED
  BY <1>1 DEF Init, EmptyContext, IInv, ParserInv, BodyAnnounced, BodyStates

LEMMA InitNextIInv == Init' => IInv'
BY InitIInv, PTL

\* A character that calls nobody back leaves the context in order if what it
\* writes does.
LEMMA GotoIInv ==
  ASSUME IInv, NEW state \in ParserStates, NEW h \in Contexts, Goto(state, h),
         delivered = << >>,
         Len(h.path) <= MaxPath, Len(h.query) <= MaxQuery, Len(h.body) <= MaxBody,
         Len(h.headers) < HeaderCounts, Len(h.header_name) <= MaxName,
         Len(h.header_value) <= MaxValue,
         state \notin BodyStates => h.body = << >>,
         state = "HEADER_READY" => h.content_length # 1,
         state = "BODY" => /\ h.content_length # 0
                           /\ h.content_length > 0 => Len(h.body) < h.content_length
  PROVE  IInv'
<1>1. /\ hc' \in Contexts /\ hc'.req_state = state
      /\ hc'.path = h.path /\ hc'.query = h.query /\ hc'.body = h.body
      /\ hc'.headers = h.headers /\ hc'.header_name = h.header_name
      /\ hc'.header_value = h.header_value
      /\ hc'.content_length = h.content_length
      /\ delivered' = << >> /\ rejected' = rejected
  BY DEF Goto, Contexts
<1> QED
  BY <1>1 DEF IInv, TypeOK, ParserInv, BodyAnnounced

LEMMA InvalidIInv ==
  ASSUME IInv, handle_invalid
  PROVE  IInv'
<1>1. /\ hc' \in Contexts /\ hc'.req_state = "INVALID"
      /\ hc'.path = hc.path /\ hc'.query = hc.query /\ hc'.body = hc.body
      /\ hc'.headers = hc.headers /\ hc'.header_name = hc.header_name
      /\ hc'.header_value = hc.header_value
      /\ hc'.content_length = hc.content_length
      /\ delivered' = delivered /\ rejected' = TRUE
  BY DEF handle_invalid, IInv, TypeOK, Contexts, ParserStates
<1> QED
  BY <1>1 DEF IInv, TypeOK, ParserInv, BodyAnnounced, BodyStates

\* The request callback is called with a body of the announced length.
LEMMA RequestIInv ==
  ASSUME IInv, NEW state \in {"HEADER_READY", "BODY_READY"}, NEW h \in Contexts,
         handle_request(state, h), delivered = << >>,
         h = [hc EXCEPT !.body = h.body], Len(h.body) <= MaxBody,
         hc.content_length >= 0 => Len(h.body) = hc.content_length,
         state = "HEADER_READY" => h.body = << >> /\ hc.content_length = 0
  PROVE  IInv'
<1>1. /\ hc' \in Contexts /\ hc'.req_state = state
      /\ hc'.path = h.path /\ hc'.query = h.query /\ hc'.body = h.body
      /\ hc'.headers = h.headers /\ hc'.header_name = h.header_name
      /\ hc'.header_value = h.header_value
      /\ hc'.content_length = h.content_length
      /\ rejected' = rejected
  BY DEF handle_request, Contexts, ParserStates
<1>2. /\ h.path = hc.path /\ h.query = hc.query /\ h.headers = hc.headers
      /\ h.header_name = hc.header_name /\ h.header_value = hc.header_value
      /\ h.content_length = hc.content_length
  BY DEF IInv, TypeOK, Contexts
<1> DEFINE r == [path |-> h.path, query |-> h.query, headers |-> h.headers,
                 body |-> h.body]
<1>3. r \in RequestData
  BY DEF RequestData, Contexts
<1>4. delivered' = <<r>>
  BY DEF handle_request
<1>5. delivered' \in Seq(RequestData) /\ Len(delivered') = 1
      /\ delivered'[1].body = h.body
  BY <1>3, <1>4
<1>6. TypeOK'
  BY <1>1, <1>2, <1>5 DEF IInv, TypeOK
<1> QED
  BY <1>1, <1>2, <1>5, <1>6
  DEF IInv, ParserInv, BodyAnnounced, BodyStates

LEMMA CharIInv ==
  ASSUME IInv, NEW c \in Chars, ParseChar(c)
  PROVE  IInv'
<1> USE ParserAssumption
<1>1. /\ hc \in Contexts
      /\ Len(hc.path) <= MaxPath /\ Len(hc.query) <= MaxQuery
      /\ Len(hc.body) <= MaxBody /\ Len(hc.headers) < HeaderCounts
      /\ Len(hc.header_name) <= MaxName /\ Len(hc.header_value) <= MaxValue
      /\ hc.path \in Seq(Chars) /\ hc.query \in Seq(Chars) /\ hc.body \in Seq(Chars)
      /\ hc.header_name \in Seq(Chars) /\ hc.header_value \in Seq(Chars)
      /\ hc.headers \in Seq(Seq(Chars) \X Seq(Chars))
      /\ hc.content_length \in Int
      /\ ParserInv
  BY DEF IInv, TypeOK, Contexts
<1>2. hc.req_state \notin BodyStates /\ hc.req_state # "HEADER_READY"
        => delivered = << >> /\ hc.body = << >>
  BY <1>1 DEF ParserInv, BodyStates
\* Every case that only moves on, with or without a character stored.
<1>3. ASSUME NEW state \in ParserStates \ {"BODY", "HEADER_READY"},
             Goto(state, hc), delivered = << >>, hc.body = << >>
      PROVE  IInv'
  BY <1>1, <1>3, GotoIInv
<1>4. ASSUME HeaderStarts(c), delivered = << >>, hc.body = << >>
      PROVE  IInv'
  <2> DEFINE name == append_max_len(hc.header_name, c, MaxName)
             h == [hc EXCEPT !.header_name = name]
  <2>1. name \in Seq(Chars) /\ Len(name) <= MaxName
    BY <1>1, AppendMaxLen
  <2>2. Goto("HEADER_NAME", h)
    BY <1>4 DEF HeaderStarts
  <2> HIDE DEF name
  <2>3. /\ h \in Contexts /\ h.path = hc.path /\ h.query = hc.query
        /\ h.body = hc.body /\ h.headers = hc.headers /\ h.header_name = name
        /\ h.header_value = hc.header_value
    BY <1>1, <2>1 DEF Contexts
  <2> QED
    BY <1>1, <1>4, <2>1, <2>2, <2>3, GotoIInv DEF ParserStates, BodyStates
<1>5. ASSUME handle_invalid
      PROVE  IInv'
  BY <1>5, InvalidIInv
<1>6. CASE NewChar(c) \/ InvalidChar(c) \/ MethodChar(c)
  BY <1>2, <1>3, <1>5, <1>6
  DEF NewChar, InvalidChar, MethodChar, ParserStates, BodyStates
<1>7. CASE MethodReadyChar(c) \/ PathChar(c)
  <2> DEFINE path == append_max_len(hc.path, c, MaxPath)
             h == [hc EXCEPT !.path = path]
  <2>1. path \in Seq(Chars) /\ Len(path) <= MaxPath
    BY <1>1, AppendMaxLen
  <2>2. delivered = << >> /\ hc.body = << >>
    BY <1>2, <1>7 DEF MethodReadyChar, PathChar, BodyStates
  <2>3. \/ Goto("PATH", h)
        \/ \E state \in ParserStates \ {"BODY", "HEADER_READY"} : Goto(state, hc)
    BY <1>7 DEF MethodReadyChar, PathChar, ParserStates
  <2> HIDE DEF path
  <2>4. /\ h \in Contexts /\ h.path = path /\ h.query = hc.query
        /\ h.body = hc.body /\ h.headers = hc.headers
        /\ h.header_name = hc.header_name /\ h.header_value = hc.header_value
    BY <1>1, <2>1 DEF Contexts
  <2>5. CASE Goto("PATH", h)
    BY <1>1, <2>1, <2>2, <2>4, <2>5, GotoIInv DEF ParserStates, BodyStates
  <2> QED
    BY <1>3, <2>2, <2>3, <2>5
<1>8. CASE QueryChar(c)
  <2> DEFINE query == append_max_len(hc.query, c, MaxQuery)
             h == [hc EXCEPT !.query = query]
  <2>1. query \in Seq(Chars) /\ Len(query) <= MaxQuery
    BY <1>1, AppendMaxLen
  <2>2. delivered = << >> /\ hc.body = << >>
    BY <1>2, <1>8 DEF QueryChar, BodyStates
  <2>3. \/ Goto("QUERY", h)
        \/ \E state \in ParserStates \ {"BODY", "HEADER_READY"} : Goto(state, hc)
    BY <1>8 DEF QueryChar, ParserStates
  <2> HIDE DEF query
  <2>4. /\ h \in Contexts /\ h.path = hc.path /\ h.query = query
        /\ h.body = hc.body /\ h.headers = hc.headers
        /\ h.header_name = hc.header_name /\ h.header_value = hc.header_value
    BY <1>1, <2>1 DEF Contexts
  <2>5. CASE Goto("QUERY", h)
    BY <1>1, <2>1, <2>2, <2>4, <2>5, GotoIInv DEF ParserStates, BodyStates
  <2> QED
    BY <1>3, <2>2, <2>3, <2>5
<1>9. CASE FragmentChar(c) \/ FragmentReadyChar(c) \/ ProtoChar(c)
  <2>1. delivered = << >> /\ hc.body = << >>
    BY <1>2, <1>9 DEF FragmentChar, FragmentReadyChar, ProtoChar, BodyStates
  <2>2. \E state \in ParserStates \ {"BODY", "HEADER_READY"} : Goto(state, hc)
    BY <1>9 DEF FragmentChar, FragmentReadyChar, ProtoChar, ParserStates
  <2> QED
    BY <1>3, <2>1, <2>2
<1>10. CASE ProtoReadyChar(c) \/ HeaderNameChar(c) \/ HeaderValueReadyChar(c)
  <2>1. delivered = << >> /\ hc.body = << >>
    BY <1>2, <1>10 DEF ProtoReadyChar, HeaderNameChar, HeaderValueReadyChar, BodyStates
  <2>2. \/ HeaderStarts(c)
        \/ \E state \in ParserStates \ {"BODY", "HEADER_READY"} : Goto(state, hc)
    BY <1>10 DEF ProtoReadyChar, HeaderNameChar, HeaderValueReadyChar, ParserStates
  <2> QED
    BY <1>3, <1>4, <2>1, <2>2
<1>11. CASE HeaderNameReadyChar(c) \/ HeaderValueChar(c)
  <2> DEFINE value == append_max_len(hc.header_value, c, MaxValue)
             h == [hc EXCEPT !.header_value = value]
             g == handle_header_value_ready(hc)
  <2>1. value \in Seq(Chars) /\ Len(value) <= MaxValue
    BY <1>1, AppendMaxLen
  <2>2. delivered = << >> /\ hc.body = << >>
    BY <1>2, <1>11 DEF HeaderNameReadyChar, HeaderValueChar, BodyStates
  <2>3. \/ Goto("HEADER_VALUE", h)
        \/ Goto("HEADER_NAME_READY", hc)
        \/ Goto("HEADER_VALUE_READY_NL", g)
        \/ Goto("HEADER_VALUE_READY", g)
    BY <1>11 DEF HeaderNameReadyChar, HeaderValueChar
  <2>4. CASE Goto("HEADER_VALUE", h)
    <3> HIDE DEF value
    <3>1. /\ h \in Contexts /\ h.path = hc.path /\ h.query = hc.query
          /\ h.body = hc.body /\ h.headers = hc.headers
          /\ h.header_name = hc.header_name /\ h.header_value = value
      BY <1>1, <2>1 DEF Contexts
    <3> QED
      BY <1>1, <2>1, <2>2, <2>4, <3>1, GotoIInv DEF ParserStates, BodyStates
  <2>5. CASE Goto("HEADER_VALUE_READY_NL", g) \/ Goto("HEADER_VALUE_READY", g)
    <3> DEFINE headers == AddHeader(hc.headers, <<hc.header_name, hc.header_value>>)
               length == IF hc.header_name = <<"L">> THEN strtol(hc.header_value)
                                                      ELSE hc.content_length
    <3>1. headers \in Seq(Seq(Chars) \X Seq(Chars)) /\ Len(headers) < HeaderCounts
      <4>1. <<hc.header_name, hc.header_value>> \in Seq(Chars) \X Seq(Chars)
        BY <1>1
      <4>2. hc.headers \in Seq(Seq(Chars) \X Seq(Chars)) /\ Len(hc.headers) < HeaderCounts
        BY <1>1 DEF Contexts
      <4> QED
        BY <4>1, <4>2, AddHeaderFits
    <3>2. length \in Int
      BY <1>1, StrtolInt
    <3>3. g = [hc EXCEPT !.content_length = length, !.headers = headers,
                         !.header_name = << >>, !.header_value = << >>]
      BY <1>1 DEF handle_header_value_ready, Contexts
    <3> HIDE DEF headers, length, g
    <3>0. << >> \in Seq(Chars)
      OBVIOUS
    <3>4. /\ g \in Contexts /\ g.path = hc.path /\ g.query = hc.query
          /\ g.body = hc.body /\ g.headers = headers
          /\ g.header_name = << >> /\ g.header_value = << >>
      BY <1>1, <3>0, <3>1, <3>2, <3>3 DEF Contexts
    <3>5. Len(g.header_name) <= MaxName /\ Len(g.header_value) <= MaxValue
      BY <3>4
    <3>6. ASSUME NEW state \in {"HEADER_VALUE_READY_NL", "HEADER_VALUE_READY"},
                 Goto(state, g)
          PROVE  IInv'
      BY <1>1, <2>2, <3>1, <3>4, <3>5, <3>6, GotoIInv DEF ParserStates, BodyStates
    <3> QED
      BY <2>5, <3>6
  <2> QED
    BY <1>3, <2>2, <2>3, <2>4, <2>5 DEF ParserStates
<1>12. CASE HeaderValueReadyNlChar(c)
  <2>1. delivered = << >> /\ hc.body = << >>
    BY <1>2, <1>12 DEF HeaderValueReadyNlChar, BodyStates
  <2>2. CASE HeadersEnd
    <3>1. CASE hc.content_length = 0
      <4>1. handle_request("HEADER_READY", hc)
        BY <2>2, <3>1 DEF HeadersEnd
      <4>2. hc = [hc EXCEPT !.body = hc.body]
        BY <1>1 DEF Contexts
      <4>3. Len(hc.body) = 0
        BY <2>1
      <4> QED
        BY <1>1, <2>1, <3>1, <4>1, <4>2, <4>3, RequestIInv
    <3>2. CASE hc.content_length # 0
      <4>1. Goto(BodyStart(hc), hc)
        BY <2>2, <3>2 DEF HeadersEnd
      <4>2. CASE hc.content_length = 1
        <5>1. Goto("BODY", hc) /\ Len(hc.body) < hc.content_length
          BY <2>1, <4>1, <4>2 DEF BodyStart
        <5>2. Len(hc.path) <= MaxPath /\ Len(hc.query) <= MaxQuery /\ Len(hc.body) <= MaxBody
          BY <1>1
        <5>3. /\ Len(hc.headers) < HeaderCounts /\ Len(hc.header_name) <= MaxName
              /\ Len(hc.header_value) <= MaxValue
          BY <1>1
        <5>4. /\ "BODY" \in ParserStates /\ "BODY" \in BodyStates
              /\ hc \in Contexts /\ hc.content_length # 0
          BY <1>1, <4>2 DEF ParserStates, BodyStates
        <5> QED
          BY SMTT(30), <2>1, <5>1, <5>2, <5>3, <5>4, GotoIInv
      <4>3. CASE hc.content_length # 1
        <5>1. Goto("HEADER_READY", hc)
          BY <4>1, <4>3 DEF BodyStart
        <5> QED
          BY <1>1, <2>1, <4>3, <5>1, GotoIInv DEF ParserStates
      <4> QED
        BY <4>2, <4>3
    <3> QED
      BY <3>1, <3>2
  <2>3. CASE HeaderStarts(c) \/ Goto("HEADER_VALUE_READY_NL", hc)
    BY <1>3, <1>4, <2>1, <2>3 DEF ParserStates
  <2> QED
    BY <1>12, <2>2, <2>3 DEF HeaderValueReadyNlChar
<1>13. CASE HeaderReadyChar(c)
  <2>1. CASE hc.content_length # 0
    <3> DEFINE body == <<c>>
               h == [hc EXCEPT !.body = body]
    <3>0. body \in Seq(Chars) /\ Len(body) = 1
      OBVIOUS
    <3>1. Goto("BODY", h)
      BY <1>13, <2>1 DEF HeaderReadyChar, BodyExpected
    <3>2. delivered = << >> /\ hc.content_length # 1
      BY <1>1, <1>13, <2>1 DEF HeaderReadyChar, ParserInv
    <3> HIDE DEF body
    <3>3. /\ h \in Contexts /\ h.path = hc.path /\ h.query = hc.query
          /\ h.body = body /\ h.headers = hc.headers
          /\ h.header_name = hc.header_name /\ h.header_value = hc.header_value
          /\ h.content_length = hc.content_length
      BY <1>1, <3>0 DEF Contexts
    <3> HIDE DEF h
    <3>4. Len(h.body) <= MaxBody
      <4>1. 1 <= MaxBody
        BY ParserAssumption
      <4>2. h.body = body
        BY <3>3
      <4> QED
        BY <3>0, <4>1, <4>2
    <3>5. h.content_length # 0 /\ (h.content_length > 0 => Len(h.body) < h.content_length)
      <4>1. hc.content_length > 0 => 1 < hc.content_length
        BY <1>1, <3>2
      <4> QED
        BY <2>1, <3>0, <3>3, <4>1
    <3> QED
      BY <1>1, <3>1, <3>2, <3>3, <3>4, <3>5, GotoIInv DEF ParserStates, BodyStates
  <2> QED
    BY <1>5, <1>13, <2>1 DEF HeaderReadyChar, BodyExpected
<1>14. CASE BodyChar(c)
  <2> DEFINE body == Append(hc.body, c)
             h == [hc EXCEPT !.body = body]
  <2>1. /\ delivered = << >> /\ hc.content_length # 0
        /\ hc.content_length > 0 => Len(hc.body) < hc.content_length
    BY <1>1, <1>14 DEF BodyChar, ParserInv
  <2>2. body \in Seq(Chars) /\ Len(body) = Len(hc.body) + 1 /\ Len(hc.body) \in Nat
    BY <1>1, AppendProperties, LenProperties
  <2>3. \/ handle_invalid
        \/ /\ Len(hc.body) < MaxBody
           /\ \/ handle_request("BODY_READY", h) /\ BodyComplete(body)
              \/ Goto("BODY", h) /\ ~BodyComplete(body)
    BY <1>14, <2>2 DEF BodyChar
  <2> HIDE DEF body
  <2>4. /\ h \in Contexts /\ h.path = hc.path /\ h.query = hc.query
        /\ h.body = body /\ h.headers = hc.headers
        /\ h.header_name = hc.header_name /\ h.header_value = hc.header_value
        /\ h.content_length = hc.content_length
    BY <1>1, <2>2 DEF Contexts
  <2>5. CASE /\ Len(hc.body) < MaxBody
             /\ handle_request("BODY_READY", h) /\ BodyComplete(body)
    <3>1. Len(h.body) <= MaxBody
      BY <2>2, <2>4, <2>5
    <3>2. hc.content_length >= 0 => Len(h.body) = hc.content_length
      BY SMTT(60), <1>1, <2>1, <2>2, <2>4, <2>5 DEF BodyComplete
    <3>3. h = [hc EXCEPT !.body = h.body]
      BY <2>4
    <3> QED
      BY <2>1, <2>4, <2>5, <3>1, <3>2, <3>3, RequestIInv
  <2>6. CASE Len(hc.body) < MaxBody /\ Goto("BODY", h) /\ ~BodyComplete(body)
    <3>1. Len(h.body) <= MaxBody
      BY <2>2, <2>4, <2>6
    <3>2. h.content_length > 0 => Len(h.body) < h.content_length
      BY <1>1, <2>2, <2>4, <2>6 DEF BodyComplete
    <3> QED
      BY <1>1, <2>1, <2>4, <2>6, <3>1, <3>2, GotoIInv DEF ParserStates, BodyStates
  <2> QED
    BY <1>5, <2>3, <2>5, <2>6
<1> QED
  BY <1>6, <1>7, <1>8, <1>9, <1>10, <1>11, <1>12, <1>13, <1>14 DEF ParseChar

LEMMA NextIInv == IInv /\ [Next]_vars => IInv'
<1> SUFFICES ASSUME IInv, [Next]_vars
             PROVE  IInv'
  OBVIOUS
<1>1. CASE SetupConnection
  <2>1. Goto("NEW", hc) /\ hc.req_state = "IDLE"
    BY <1>1 DEF SetupConnection
  <2>2. delivered = << >> /\ hc.body = << >>
    BY <2>1 DEF IInv, ParserInv, BodyStates
  <2> QED
    BY <2>1, <2>2, GotoIInv DEF IInv, TypeOK, ParserStates, BodyStates
<1>2. ASSUME NEW c \in Chars, ParseChar(c)
      PROVE  IInv'
  BY <1>2, CharIInv
<1>3. CASE httpserver_context_reset
  <2>1. Init'
    BY <1>3 DEF httpserver_context_reset, ResetContext, Init, EmptyContext
  <2> QED
    BY <2>1, InitNextIInv
<1>4. CASE UNCHANGED vars
  BY <1>4 DEF vars, IInv, TypeOK, ParserInv, BodyAnnounced
<1> QED
  BY <1>1, <1>2, <1>3, <1>4 DEF Next

THEOREM Invariance == Spec => []IInv
BY InitIInv, NextIInv, PTL DEF Spec

\* The context's arrays hold what they can and no more.
THEOREM TypeCorrect == Spec => []TypeOK
<1>1. IInv => TypeOK
  BY DEF IInv
<1> QED
  BY <1>1, Invariance, PTL

\* A request is handed over with the body it announced.
THEOREM BodyAsAnnounced == Spec => []BodyAnnounced
<1>1. IInv => BodyAnnounced
  BY DEF IInv
<1> QED
  BY <1>1, Invariance, PTL

--------------------------------------------------------------------------------
(* The refinement. *)

LEMMA InitRefines == Init => Request!Init
BY DEF Init, EmptyContext, Request!Init, Phase

Moving == ParserStates \ {"IDLE", "INVALID", "BODY_READY", "HEADER_READY"}

LEMMA GotoState ==
  ASSUME NEW state, NEW h, Goto(state, h), hc' \in Contexts
  PROVE  /\ hc'.req_state = state
         /\ UNCHANGED <<delivered, rejected>>
BY DEF Goto, Contexts

\* Every character is a step of the abstract request, or invisible to it.
LEMMA CharRefines ==
  ASSUME IInv, NEW c \in Chars, ParseChar(c), IInv'
  PROVE  [Request!Next]_<<Phase, delivered, rejected>>
<1> DEFINE Goal == [Request!Next]_<<Phase, delivered, rejected>>
<1>1. ASSUME handle_invalid, Phase \in {"new", "header_ready", "invalid"}
      PROVE  Goal
  <2>1. Phase' = "invalid"
    BY <1>1 DEF handle_invalid, Phase, IInv, TypeOK, Contexts
  <2> QED
    BY <1>1, <2>1 DEF handle_invalid, Request!Malformed, Request!Next
\* A character that calls nobody back, before the request is complete.
<1>2. ASSUME hc'.req_state \in Moving, UNCHANGED <<delivered, rejected>>, Phase = "new"
      PROVE  Goal
  BY <1>2 DEF Phase, Moving, ParserStates
<1>3. ASSUME NEW state \in {"HEADER_READY", "BODY_READY"}, NEW h \in Contexts,
             handle_request(state, h), h.content_length = hc.content_length,
             state = "HEADER_READY" => h.content_length = 0,
             Phase = "new", delivered = << >>
      PROVE  Goal
  <2>1. hc'.req_state = state /\ hc'.content_length = h.content_length
    BY <1>3 DEF handle_request, Contexts
  <2>2. Phase' \in {"header_ready", "body_ready"}
    BY <1>3, <2>1 DEF Phase
  <2>3. delivered' \in Seq(RequestData) /\ Len(delivered') = 1
    <3> DEFINE r == [path |-> h.path, query |-> h.query, headers |-> h.headers,
                     body |-> h.body]
    <3>1. delivered' = <<r>>
      BY <1>3 DEF handle_request
    <3>2. r \in RequestData
      BY <1>3 DEF RequestData, Contexts
    <3> HIDE DEF r
    <3> QED
      BY <3>1, <3>2
  <2> QED
    BY <1>3, <2>2, <2>3 DEF handle_request, Request!Complete, Request!Next
<1>4. /\ hc \in Contexts /\ hc' \in Contexts /\ ParserInv
      /\ hc.body \in Seq(Chars)
  BY DEF IInv, TypeOK, Contexts
<1>5. CASE NewChar(c) \/ MethodChar(c) \/ MethodReadyChar(c) \/ PathChar(c) \/ QueryChar(c)
  <2>1. Phase = "new"
    BY <1>5 DEF Phase, NewChar, MethodChar, MethodReadyChar, PathChar, QueryChar
  <2>2. \/ handle_invalid
        \/ \E state \in Moving : \E h : Goto(state, h)
    BY <1>5 DEF NewChar, MethodChar, MethodReadyChar, PathChar, QueryChar, Moving,
                ParserStates
  <2> QED
    BY <1>1, <1>2, <1>4, <2>1, <2>2, GotoState
<1>6. CASE FragmentChar(c) \/ FragmentReadyChar(c) \/ ProtoChar(c) \/ ProtoReadyChar(c)
           \/ HeaderNameChar(c) \/ HeaderValueReadyChar(c)
  <2>1. Phase = "new"
    BY <1>6 DEF Phase, FragmentChar, FragmentReadyChar, ProtoChar, ProtoReadyChar,
                HeaderNameChar, HeaderValueReadyChar
  <2>2. \E state \in Moving : \E h : Goto(state, h)
    BY <1>6 DEF FragmentChar, FragmentReadyChar, ProtoChar, ProtoReadyChar,
                HeaderNameChar, HeaderValueReadyChar, HeaderStarts, Moving, ParserStates
  <2> QED
    BY <1>2, <1>4, <2>1, <2>2, GotoState
<1>7. CASE HeaderNameReadyChar(c) \/ HeaderValueChar(c)
  <2>1. Phase = "new"
    BY <1>7 DEF Phase, HeaderNameReadyChar, HeaderValueChar
  <2>2. \E state \in Moving : \E h : Goto(state, h)
    BY <1>7 DEF HeaderNameReadyChar, HeaderValueChar, Moving, ParserStates
  <2> QED
    BY <1>2, <1>4, <2>1, <2>2, GotoState
<1>8. CASE HeaderValueReadyNlChar(c)
  <2>1. Phase = "new" /\ delivered = << >>
    BY <1>4, <1>8 DEF Phase, HeaderValueReadyNlChar, ParserInv
  <2>2. CASE HeadersEnd /\ hc.content_length = 0
    <3>1. handle_request("HEADER_READY", hc)
      BY <2>2 DEF HeadersEnd
    <3> QED
      BY <1>3, <1>4, <2>1, <2>2, <3>1
  <2>3. CASE HeadersEnd /\ hc.content_length # 0
    <3>1. Goto(BodyStart(hc), hc)
      BY <2>3 DEF HeadersEnd
    <3>2. /\ hc'.req_state \in {"BODY", "HEADER_READY"}
          /\ hc'.content_length = hc.content_length
          /\ UNCHANGED <<delivered, rejected>>
      BY <1>4, <3>1 DEF Goto, BodyStart, Contexts
    <3>3. Phase' = "new"
      BY <2>3, <3>2 DEF Phase
    <3> QED
      BY <2>1, <3>2, <3>3
  <2>4. CASE HeaderStarts(c) \/ Goto("HEADER_VALUE_READY_NL", hc)
    <3>1. \E state \in Moving : \E h : Goto(state, h)
      BY <2>4 DEF HeaderStarts, Moving, ParserStates
    <3> QED
      BY <1>2, <1>4, <2>1, <3>1, GotoState
  <2> QED
    BY <1>8, <2>2, <2>3, <2>4 DEF HeaderValueReadyNlChar
<1>9. CASE HeaderReadyChar(c)
  <2>1. CASE hc.content_length = 0
    BY <1>1, <1>9, <2>1 DEF HeaderReadyChar, BodyExpected, Phase
  <2>2. CASE hc.content_length # 0
    <3>1. Phase = "new"
      BY <1>9, <2>2 DEF HeaderReadyChar, Phase
    <3>2. \E state \in Moving : \E h : Goto(state, h)
      BY <1>9, <2>2 DEF HeaderReadyChar, BodyExpected, Moving, ParserStates
    <3> QED
      BY <1>2, <1>4, <3>1, <3>2, GotoState
  <2> QED
    BY <2>1, <2>2
<1>10. CASE BodyChar(c)
  <2> DEFINE h == [hc EXCEPT !.body = Append(hc.body, c)]
  <2>1. Phase = "new" /\ delivered = << >>
    BY <1>4, <1>10 DEF Phase, BodyChar, ParserInv
  <2>2. \/ handle_invalid
        \/ handle_request("BODY_READY", h)
        \/ \E state \in Moving : \E g : Goto(state, g)
    BY <1>10 DEF BodyChar, Moving, ParserStates
  <2>3. h \in Contexts /\ h.content_length = hc.content_length
    <3>1. Append(hc.body, c) \in Seq(Chars)
      BY <1>4, AppendProperties
    <3> QED
      BY <1>4, <3>1 DEF Contexts
  <2> HIDE DEF h
  <2>4. CASE handle_request("BODY_READY", h)
    BY <1>3, <2>1, <2>3, <2>4
  <2> QED
    BY <1>1, <1>2, <1>4, <2>1, <2>2, <2>4, GotoState
<1>11. CASE InvalidChar(c)
  BY <1>1, <1>11 DEF InvalidChar, Phase
<1> QED
  BY <1>5, <1>6, <1>7, <1>8, <1>9, <1>10, <1>11 DEF ParseChar

LEMMA NextRefines ==
  ASSUME IInv, [Next]_vars, IInv'
  PROVE  [Request!Next]_<<Phase, delivered, rejected>>
<1>1. hc \in Contexts /\ hc' \in Contexts
  BY DEF IInv, TypeOK
<1>2. CASE SetupConnection
  <2>1. hc'.req_state = "NEW" /\ UNCHANGED <<delivered, rejected>>
    BY <1>1, <1>2, GotoState DEF SetupConnection
  <2>2. Phase = "idle" /\ Phase' = "new"
    BY <1>2, <2>1 DEF SetupConnection, Phase
  <2> QED
    BY <2>1, <2>2 DEF Request!Setup, Request!Next
<1>3. CASE httpserver_context_reset
  <2>1. Phase' = "idle"
    BY <1>3 DEF httpserver_context_reset, ResetContext, EmptyContext, Phase
  <2> QED
    BY <1>3, <2>1 DEF httpserver_context_reset, Request!Reset, Request!Next
<1>4. CASE UNCHANGED vars
  BY <1>4 DEF vars, Phase
<1> QED
  BY <1>2, <1>3, <1>4, CharRefines DEF Next

\* Whatever is sent to it, the parser goes through the life of a request that the
\* API server counts on.
THEOREM Refinement == Spec => RequestSpec
<1>1. IInv /\ IInv' /\ [Next]_vars => [Request!Next]_<<Phase, delivered, rejected>>
  BY NextRefines
<1> QED
  BY <1>1, InitRefines, Invariance, PTL DEF Spec, RequestSpec, Request!Spec

--------------------------------------------------------------------------------
(* Two more elements behind a sequence. *)

LEMMA TwoMore ==
  ASSUME NEW T, NEW s \in Seq(T), NEW a \in T, NEW b \in T, NEW n, Len(s) = n, n \in Nat
  PROVE  /\ s \o <<a, b>> \in Seq(T) /\ Len(s \o <<a, b>>) = n + 2
         /\ (s \o <<a, b>>)[n + 1] = a /\ (s \o <<a, b>>)[n + 2] = b
         /\ \A j \in 1 .. n : (s \o <<a, b>>)[j] = s[j]
<1>1. PICK t : t = <<a, b>>
  OBVIOUS
<1>2. t \in Seq(T) /\ Len(t) = 2 /\ t[1] = a /\ t[2] = b
  BY <1>1
<1>3. /\ s \o t \in Seq(T) /\ Len(s \o t) = Len(s) + Len(t)
      /\ \A i \in 1 .. Len(s) + Len(t) :
           (s \o t)[i] = IF i <= Len(s) THEN s[i] ELSE t[i - Len(s)]
  BY <1>2, ConcatProperties, Zenon
<1>4. \A i \in 1 .. n + 2 : (s \o t)[i] = IF i <= n THEN s[i] ELSE t[i - n]
  BY <1>2, <1>3
<1>5. /\ n + 1 \in 1 .. n + 2 /\ n + 2 \in 1 .. n + 2 /\ ~(n + 1 <= n) /\ ~(n + 2 <= n)
      /\ (n + 1) - n = 1 /\ (n + 2) - n = 2
      /\ \A j \in 1 .. n : j \in 1 .. n + 2 /\ j <= n
  OBVIOUS
<1>6. (s \o t)[n + 1] = a /\ (s \o t)[n + 2] = b
  BY <1>2, <1>4, <1>5
<1>7. \A j \in 1 .. n : (s \o t)[j] = s[j]
  BY <1>4, <1>5
<1> QED BY <1>1, <1>2, <1>3, <1>6, <1>7

--------------------------------------------------------------------------------
(* The bytes of a question: at[i] of them are the first i labels. *)

Laid(q, text, at) ==
  LET k == Len(q.name)
  IN  /\ at \in [0 .. k -> Nat] /\ at[0] = 0
      /\ text \in Seq(Octets) /\ Len(text) = at[k] + 5
      /\ \A i \in 1 .. k : /\ Len(q.name[i]) \in 1 .. 63
                           /\ at[i] = at[i - 1] + 1 + Len(q.name[i])
                           /\ at[i] <= at[k]
                           /\ text[at[i - 1] + 1] = Len(q.name[i])
      /\ text[at[k] + 1] = 0
      /\ text[at[k] + 2] = q.qtype \div 256 /\ text[at[k] + 3] = q.qtype % 256
      /\ text[at[k] + 4] = q.qclass \div 256 /\ text[at[k] + 5] = q.qclass % 256

\* What ends every question.
Closed(text, names, n, q) ==
  /\ text \in Seq(Octets) /\ Len(text) = n + 5
  /\ \A j \in 1 .. n : text[j] = names[j]
  /\ text[n + 1] = 0
  /\ text[n + 2] = q.qtype \div 256 /\ text[n + 3] = q.qtype % 256
  /\ text[n + 4] = q.qclass \div 256 /\ text[n + 5] = q.qclass % 256

LEMMA Ended ==
  ASSUME NEW q \in Questions, NEW names \in Seq(Octets), NEW n, n = Len(names), NEW text,
         text = names \o << 0 >> \o Uint16Bytes(q.qtype) \o Uint16Bytes(q.qclass)
  PROVE  Closed(text, names, n, q)
<1>1. q.qtype \in Nat /\ q.qclass \in Nat /\ q.qtype < 65536 /\ q.qclass < 65536
  BY DnsAssumption DEF IsQuestion
<1>2. PICK a, b, c, d :
        /\ a = q.qtype \div 256 /\ b = q.qtype % 256
        /\ c = q.qclass \div 256 /\ d = q.qclass % 256
  OBVIOUS
<1>3. a \in Octets /\ b \in Octets /\ c \in Octets /\ d \in Octets /\ 0 \in Octets
  <2>1. \A m \in Nat : m < 65536 => m \div 256 \in Octets /\ m % 256 \in Octets
    BY DEF Octets
  <2>2. 0 \in Octets
    BY DEF Octets
  <2>3. q.qtype \div 256 \in Octets /\ q.qtype % 256 \in Octets
    BY <1>1, <2>1
  <2>4. q.qclass \div 256 \in Octets /\ q.qclass % 256 \in Octets
    BY <1>1, <2>1
  <2> QED BY <1>2, <2>2, <2>3, <2>4
<1>4. n = Len(names) /\ n \in Nat
  OBVIOUS
<1>5. PICK s : s = names \o << 0 >>
  OBVIOUS
<1>6. s \in Seq(Octets) /\ Len(s) = n + 1 /\ s[n + 1] = 0 /\ \A j \in 1 .. n : s[j] = names[j]
  <2>1. s = Append(names, 0)
    BY <1>5
  <2> QED BY <1>3, <1>4, <2>1
<1>7. PICK t : t = s \o <<a, b>>
  OBVIOUS
<1>8. /\ t \in Seq(Octets) /\ Len(t) = n + 3 /\ t[n + 2] = a /\ t[n + 3] = b
      /\ \A j \in 1 .. n + 1 : t[j] = s[j]
  BY <1>3, <1>4, <1>6, <1>7, TwoMore
<1>9. PICK u : u = t \o <<c, d>>
  OBVIOUS
<1>10. /\ u \in Seq(Octets) /\ Len(u) = n + 5 /\ u[n + 4] = c /\ u[n + 5] = d
       /\ \A j \in 1 .. n + 3 : u[j] = t[j]
  BY <1>3, <1>4, <1>8, <1>9, TwoMore
<1>11. \A j \in 1 .. n : j \in 1 .. n + 1 /\ j \in 1 .. n + 3
  BY <1>4
<1>12. /\ n + 1 \in 1 .. n + 1 /\ n + 1 \in 1 .. n + 3
       /\ n + 2 \in 1 .. n + 3 /\ n + 3 \in 1 .. n + 3
  BY <1>4
<1>13. names \o << 0 >> \o Uint16Bytes(q.qtype) \o Uint16Bytes(q.qclass) = u
  BY <1>2, <1>5, <1>7, <1>9 DEF Uint16Bytes
<1>14. \A j \in 1 .. n : u[j] = names[j]
  BY <1>6, <1>8, <1>10, <1>11
<1>15. u[n + 1] = 0
  BY <1>6, <1>8, <1>10, <1>12
<1>16. u[n + 2] = a /\ u[n + 3] = b
  BY <1>8, <1>10, <1>12
<1> QED BY <1>2, <1>10, <1>13, <1>14, <1>15, <1>16 DEF Closed

LEMMA ListOf ==
  ASSUME NEW T, NEW k \in Nat, NEW f, f = [i \in 1 .. k |-> f[i]], \A i \in 1 .. k : f[i] \in T
  PROVE  f \in Seq(T)
OBVIOUS

LEMMA QuestionLaid ==
  ASSUME NEW q \in Questions
  PROVE  \E at : Laid(q, Encoded(q), at)
<1>1. PICK k : k = Len(q.name) /\ k \in Nat
  <2>1. q.name \in Seq(Seq(Octets))
    BY DnsAssumption DEF IsQuestion
  <2> QED BY <2>1
<1>2. \A i \in 1 .. k : q.name[i] \in Seq(Octets) /\ Len(q.name[i]) \in 1 .. 63
  <2>1. q.name \in Seq(Seq(Octets)) /\ \A i \in DOMAIN q.name : Len(q.name[i]) \in 1 .. 63
    BY DnsAssumption DEF IsQuestion
  <2> QED BY <1>1, <2>1
<1>3. PICK ss : ss = [i \in DOMAIN q.name |-> <<Len(q.name[i])>> \o q.name[i]]
  OBVIOUS
<1>4. DOMAIN q.name = 1 .. k
  <2>1. q.name \in Seq(Seq(Octets))
    BY DnsAssumption DEF IsQuestion
  <2> QED BY <1>1, <2>1
<1>5. ASSUME NEW i \in 1 .. k
      PROVE  /\ ss[i] \in Seq(Octets) /\ Len(ss[i]) = 1 + Len(q.name[i])
             /\ ss[i][1] = Len(q.name[i])
  <2>1. PICK n, l : n = Len(q.name[i]) /\ l = q.name[i]
    OBVIOUS
  <2>2. n \in Octets /\ l \in Seq(Octets) /\ n = Len(l) /\ n \in Nat
    <3>1. n \in 1 .. 63 /\ l \in Seq(Octets) /\ n = Len(l)
      BY <1>2, <2>1
    <3>2. \A m \in 1 .. 63 : m \in Octets /\ m \in Nat
      BY DEF Octets
    <3> QED BY <3>1, <3>2
  <2>3. ss[i] = <<n>> \o l
    BY <1>3, <1>4, <2>1
  <2>4. PICK h : h = <<n>>
    OBVIOUS
  <2>5. h \in Seq(Octets) /\ Len(h) = 1 /\ h[1] = n
    BY <2>2, <2>4
  <2>6. /\ h \o l \in Seq(Octets) /\ Len(h \o l) = Len(h) + Len(l)
        /\ \A j \in 1 .. Len(h) + Len(l) :
             (h \o l)[j] = IF j <= Len(h) THEN h[j] ELSE l[j - Len(h)]
    BY <2>2, <2>5, ConcatProperties, Zenon
  <2>7. 1 \in 1 .. Len(h) + Len(l) /\ 1 <= Len(h)
    BY <2>2, <2>5
  <2> QED BY <2>1, <2>2, <2>3, <2>4, <2>5, <2>6, <2>7
<1>6. ss \in Seq(Seq(Octets)) /\ Len(ss) = k
  <2>1. ss = [i \in 1 .. k |-> ss[i]]
    BY <1>3, <1>4
  <2>2. \A i \in 1 .. k : ss[i] \in Seq(Octets)
    BY <1>5
  <2>3. ss \in Seq(Seq(Octets))
    BY <1>1, <2>1, <2>2, ListOf
  <2>4. DOMAIN ss = 1 .. k
    BY <2>1
  <2> QED BY <1>1, <2>3, <2>4
<1>7. PICK names : names = FlattenSeq(ss)
  OBVIOUS
<1>8. Encoded(q) = names \o << 0 >> \o Uint16Bytes(q.qtype) \o Uint16Bytes(q.qclass)
  BY <1>3, <1>7, Zenon DEF Encoded
<1>9. \E at \in [0 .. k -> Nat] :
        /\ at[0] = 0 /\ names \in Seq(Octets) /\ Len(names) = at[k]
        /\ \A i \in 1 .. k : /\ at[i] = at[i - 1] + 1 + Len(q.name[i])
                             /\ at[i] <= at[k]
                             /\ at[i - 1] + 1 <= at[k]
                             /\ names[at[i - 1] + 1] = Len(q.name[i])
  <2>1. CASE k = 0
    <3>1. ss = << >>
      BY <1>6, <2>1
    <3>2. names = << >>
      BY <1>7, <3>1 DEF FlattenSeq
    <3>3. PICK at : at = [i \in 0 .. 0 |-> 0]
      OBVIOUS
    <3>4. at \in [0 .. k -> Nat] /\ at[0] = 0 /\ Len(names) = at[k] /\ names \in Seq(Octets)
      BY <2>1, <3>2, <3>3
    <3>5. 1 .. k = {}
      BY <2>1
    <3> QED BY <3>4, <3>5
  <2>2. CASE k # 0
    <3>1. PICK f :
            /\ FlattenSeq(ss) = f[Len(ss)]
            /\ f[1] = ss[1]
            /\ \A i \in 1 .. Len(ss) :
                 f[i] \in Seq(Octets) /\ (i # 1 => f[i] = f[i - 1] \o ss[i])
                 /\ Begins(f[i], f[Len(ss)])
      <4>1. Len(ss) > 0
        BY <1>1, <1>6, <2>2
      <4> QED BY <1>6, <4>1, Flattened
    <3>2. /\ names = f[k] /\ f[1] = ss[1]
          /\ \A i \in 1 .. k : /\ f[i] \in Seq(Octets) /\ (i # 1 => f[i] = f[i - 1] \o ss[i])
                               /\ Begins(f[i], names)
      BY <1>6, <1>7, <3>1
    <3>3. PICK at : at = [i \in 0 .. k |-> IF i = 0 THEN 0 ELSE Len(f[i])]
      OBVIOUS
    <3>4. at[0] = 0 /\ \A i \in 1 .. k : at[i] = Len(f[i]) /\ at[i] \in Nat
      <4>1. 0 \in 0 .. k /\ \A i \in 1 .. k : i \in 0 .. k /\ i # 0
        BY <1>1
      <4>2. \A i \in 1 .. k : Len(f[i]) \in Nat
        BY <3>2
      <4> QED BY <3>3, <4>1, <4>2
    <3>5. at \in [0 .. k -> Nat]
      <4>1. \A i \in 0 .. k : at[i] \in Nat
        <5>1. \A i \in 0 .. k : i = 0 \/ i \in 1 .. k
          BY <1>1
        <5> QED BY <3>4, <5>1
      <4> QED BY <3>3, <4>1
    <3>6. k \in 1 .. k /\ names \in Seq(Octets) /\ Len(names) = at[k]
      <4>1. k \in 1 .. k
        BY <1>1, <2>2
      <4> QED BY <3>2, <3>4, <4>1
    <3>7. ASSUME NEW i \in 1 .. k
          PROVE  /\ at[i] = at[i - 1] + 1 + Len(q.name[i])
                 /\ at[i] <= at[k]
                 /\ at[i - 1] + 1 <= at[k]
                 /\ names[at[i - 1] + 1] = Len(q.name[i])
      <4>1. PICK s, t, m, n :
              s = ss[i] /\ t = f[i] /\ m = at[i - 1] /\ n = Len(q.name[i])
        OBVIOUS
      <4>2. s \in Seq(Octets) /\ Len(s) = 1 + n /\ s[1] = n /\ n \in Nat /\ t \in Seq(Octets)
        <5>1. n \in Nat
          BY <1>2, <4>1
        <5> QED BY <1>5, <3>2, <4>1, <5>1
      <4>3. m \in Nat /\ Len(t) = m + 1 + n /\ t[m + 1] = n
        <5>1. CASE i = 1
          <6>1. t = s /\ m = 0
            BY <3>2, <3>4, <4>1, <5>1
          <6> QED BY <4>2, <6>1
        <5>2. CASE i # 1
          <6>1. PICK j : j = i - 1 /\ j \in 1 .. k
            BY <1>1, <5>2
          <6>2. PICK r : r = f[j]
            OBVIOUS
          <6>3. r \in Seq(Octets) /\ Len(r) = m /\ m \in Nat
            BY <3>2, <3>4, <4>1, <6>1, <6>2
          <6>4. t = r \o s
            BY <3>2, <4>1, <5>2, <6>1, <6>2
          <6>5. /\ Len(r \o s) = Len(r) + Len(s)
                /\ \A p \in 1 .. Len(r) + Len(s) :
                     (r \o s)[p] = IF p <= Len(r) THEN r[p] ELSE s[p - Len(r)]
            BY <4>2, <6>3, ConcatProperties, Zenon
          <6>6. \A p \in 1 .. m + (1 + n) : t[p] = IF p <= m THEN r[p] ELSE s[p - m]
            BY <4>2, <6>3, <6>4, <6>5
          <6>7. m + 1 \in 1 .. m + (1 + n) /\ ~(m + 1 <= m) /\ (m + 1) - m = 1
                /\ m + (1 + n) = m + 1 + n
            BY <4>2, <6>3
          <6> QED BY <4>2, <6>3, <6>4, <6>5, <6>6, <6>7
        <5> QED BY <5>1, <5>2
      <4>4. at[i] = m + 1 + n
        BY <3>4, <4>1, <4>3
      <4>5. Len(t) <= Len(names) /\ \A p \in 1 .. Len(t) : names[p] = t[p]
        BY <3>2, <4>1 DEF Begins
      <4>6. m + 1 \in 1 .. Len(t) /\ m + 1 <= at[k] /\ at[i] <= at[k]
        <5>1. PICK l : l = at[k] /\ l \in Nat
          BY <3>4, <3>6
        <5>2. m + 1 + n <= l
          BY <3>6, <4>3, <4>5, <5>1
        <5> QED BY <4>2, <4>3, <4>4, <5>1, <5>2
      <4>7. names[m + 1] = n
        BY <4>3, <4>5, <4>6
      <4> QED BY <4>1, <4>4, <4>6, <4>7
    <3> QED BY <3>4, <3>5, <3>6, <3>7
  <2> QED BY <2>1, <2>2
<1>10. PICK at \in [0 .. k -> Nat] :
         /\ at[0] = 0 /\ names \in Seq(Octets) /\ Len(names) = at[k]
         /\ \A i \in 1 .. k : /\ at[i] = at[i - 1] + 1 + Len(q.name[i])
                              /\ at[i] <= at[k]
                              /\ at[i - 1] + 1 <= at[k]
                              /\ names[at[i - 1] + 1] = Len(q.name[i])
  BY <1>9
<1>11. PICK text, n : text = Encoded(q) /\ n = at[k]
  OBVIOUS
<1>12. /\ text \in Seq(Octets) /\ Len(text) = n + 5 /\ \A j \in 1 .. n : text[j] = names[j]
       /\ text[n + 1] = 0
       /\ text[n + 2] = q.qtype \div 256 /\ text[n + 3] = q.qtype % 256
       /\ text[n + 4] = q.qclass \div 256 /\ text[n + 5] = q.qclass % 256
  <2>1. text = names \o << 0 >> \o Uint16Bytes(q.qtype) \o Uint16Bytes(q.qclass)
    BY <1>8, <1>11
  <2>2. n = Len(names) /\ names \in Seq(Octets)
    BY <1>10, <1>11
  <2>3. Closed(text, names, n, q)
    BY <2>1, <2>2, Ended
  <2> QED BY <2>3 DEF Closed
<1>13. ASSUME NEW i \in 1 .. k PROVE text[at[i - 1] + 1] = Len(q.name[i])
  <2>1. i - 1 \in 0 .. k /\ at[i - 1] \in Nat
    <3>1. i - 1 \in 0 .. k
      BY <1>1
    <3> QED BY <1>10, <3>1
  <2>2. at[i - 1] + 1 \in 1 .. n
    <3>1. at[i - 1] + 1 <= n /\ n \in Nat
      BY <1>1, <1>10, <1>11
    <3> QED BY <2>1, <3>1
  <2>3. names[at[i - 1] + 1] = Len(q.name[i])
    BY <1>10
  <2>4. \A j \in 1 .. n : text[j] = names[j]
    BY <1>12
  <2> QED BY <2>2, <2>3, <2>4
<1>14. /\ \A i \in 1 .. k : /\ Len(q.name[i]) \in 1 .. 63
                            /\ at[i] = at[i - 1] + 1 + Len(q.name[i])
                            /\ at[i] <= at[k]
                            /\ text[at[i - 1] + 1] = Len(q.name[i])
  BY <1>2, <1>10, <1>13
<1>15. Laid(q, text, at)
  <2>1. at \in [0 .. k -> Nat] /\ at[0] = 0
    BY <1>10
  <2> QED BY <1>1, <1>11, <1>12, <1>14, <2>1 DEF Laid
<1> QED BY <1>11, <1>15

--------------------------------------------------------------------------------
(* Where the labels of a body end. *)

EndFrom(f, body, n) ==
  CASE n > Len(body) \/ body[n] = 0 -> n
    [] Unterminated(body, n)        -> -n
    [] OTHER                        -> f[n + body[n] + 1]

EndsFrom(f, body, m) == \A n \in m .. Len(body) + 1 : f[n] = EndFrom(f, body, n)

LEMMA OctetsNat == \A x \in Octets : x \in Nat
BY DEF Octets

\* Where the bytes before n go on to.
LEMMA Onward ==
  ASSUME NEW body \in Seq(Octets), NEW n \in 1 .. Len(body) + 1,
         NEW f, NEW g, \A i \in n + 1 .. Len(body) + 1 : g[i] = f[i]
  PROVE  EndFrom(g, body, n) = EndFrom(f, body, n)
<1>1. PICK l : l = Len(body) /\ l \in Nat
  OBVIOUS
<1>2. CASE n > l \/ body[n] = 0
  BY <1>1, <1>2 DEF EndFrom, Unterminated
<1>3. CASE ~(n > l \/ body[n] = 0)
  <2>1. n \in 1 .. l /\ body[n] \in Nat /\ body[n] # 0
    <3>1. n \in 1 .. l /\ body[n] # 0
      BY <1>1, <1>3
    <3>2. body[n] \in Octets
      BY <1>1, <3>1
    <3> QED BY <3>1, <3>2, OctetsNat
  <2>2. CASE Unterminated(body, n)
    BY <1>1, <1>3, <2>2 DEF EndFrom
  <2>3. CASE ~Unterminated(body, n)
    <3>1. EndFrom(g, body, n) = g[n + body[n] + 1] /\ EndFrom(f, body, n) = f[n + body[n] + 1]
      BY <1>1, <1>3, <2>3 DEF EndFrom
    <3>2. n + body[n] + 1 \in n + 1 .. l + 1
      BY <1>1, <2>1, <2>3 DEF Unterminated
    <3> QED BY <1>1, <3>1, <3>2
  <2> QED BY <2>2, <2>3
<1> QED BY <1>2, <1>3

LEMMA EndsExist ==
  ASSUME NEW body \in Seq(Octets)
  PROVE  \E f : f = [n \in 1 .. Len(body) + 1 |-> EndFrom(f, body, n)]
<1>1. PICK l : l = Len(body) /\ l \in Nat
  OBVIOUS
<1> DEFINE S == {d \in 0 .. l : \E f : EndsFrom(f, body, l + 1 - d)}
<1>2. 0 \in S
  <2>1. PICK f : f = [n \in {l + 1} |-> n]
    OBVIOUS
  <2>2. f[l + 1] = EndFrom(f, body, l + 1)
    BY <1>1, <2>1 DEF EndFrom, Unterminated
  <2>3. \A n \in l + 1 .. l + 1 : n = l + 1
    BY <1>1
  <2>4. l + 1 - 0 = l + 1 /\ 0 \in 0 .. l
    BY <1>1
  <2> QED BY <1>1, <2>2, <2>3, <2>4 DEF EndsFrom
<1>3. ASSUME NEW d \in 0 .. l - 1, d \in S PROVE d + 1 \in S
  <2>1. PICK f : EndsFrom(f, body, l + 1 - d)
    BY <1>3
  <2>2. PICK m : m \in 1 .. l /\ m = l - d /\ m + 1 = l + 1 - d /\ m = l + 1 - (d + 1)
                 /\ d + 1 \in 0 .. l
    BY <1>1
  <2>3. PICK g : g = [n \in m .. l + 1 |-> IF n = m THEN EndFrom(f, body, m) ELSE f[n]]
    OBVIOUS
  <2>4. ASSUME NEW n \in m .. l + 1 PROVE g[n] = EndFrom(g, body, n)
    <3>1. n \in 1 .. l + 1 /\ (n = m \/ n \in m + 1 .. l + 1)
      BY <1>1, <2>2
    <3>2. \A i \in n + 1 .. l + 1 : g[i] = f[i]
      <4>1. \A i \in n + 1 .. l + 1 : i \in m .. l + 1 /\ i # m
        BY <1>1, <2>2
      <4> QED BY <2>3, <4>1
    <3>3. EndFrom(g, body, n) = EndFrom(f, body, n)
      BY <1>1, <3>1, <3>2, Onward
    <3>4. g[n] = EndFrom(f, body, n)
      <4>1. CASE n = m
        BY <2>3, <4>1
      <4>2. CASE n # m
        BY <1>1, <2>1, <2>2, <2>3, <3>1, <4>2 DEF EndsFrom
      <4> QED BY <4>1, <4>2
    <3> QED BY <3>3, <3>4
  <2>5. EndsFrom(g, body, l + 1 - (d + 1))
    BY <1>1, <2>2, <2>4 DEF EndsFrom
  <2> QED BY <2>2, <2>5
<1>4. l \in S
  <2> HIDE DEF S
  <2>1. \A d \in 0 .. l - 1 : d \in S => d + 1 \in S
    BY <1>3
  <2>2. 0 .. l \subseteq S
    BY <1>1, <1>2, <2>1, UpTo, Zenon
  <2> QED BY <1>1, <2>2
<1>5. PICK f : EndsFrom(f, body, l + 1 - l)
  BY <1>4
<1>6. PICK g : g = [n \in 1 .. l + 1 |-> f[n]]
  OBVIOUS
<1>7. ASSUME NEW n \in 1 .. l + 1 PROVE g[n] = EndFrom(g, body, n)
  <2>1. l + 1 - l = 1
    BY <1>1
  <2>2. f[n] = EndFrom(f, body, n)
    BY <1>1, <1>5, <2>1 DEF EndsFrom
  <2>3. \A i \in n + 1 .. l + 1 : g[i] = f[i]
    <3>1. \A i \in n + 1 .. l + 1 : i \in 1 .. l + 1
      BY <1>1
    <3> QED BY <1>6, <3>1
  <2>4. EndFrom(g, body, n) = EndFrom(f, body, n)
    BY <1>1, <2>3, Onward
  <2> QED BY <1>6, <2>2, <2>4
<1>8. g = [n \in 1 .. Len(body) + 1 |-> EndFrom(g, body, n)]
  BY <1>1, <1>6, <1>7
<1> QED BY <1>8

\* LabelsEnd is what its function is at the first byte.
LEMMA LabelsEndIs ==
  ASSUME NEW body \in Seq(Octets)
  PROVE  \E f : LabelsEnd(body) = f[1] /\ EndsFrom(f, body, 1)
<1>1. PICK f : f = CHOOSE g : g = [n \in 1 .. Len(body) + 1 |->
                                    CASE n > Len(body) \/ body[n] = 0 -> n
                                      [] Unterminated(body, n)        -> -n
                                      [] OTHER                        -> g[n + body[n] + 1]]
  OBVIOUS
<1>2. \E g : g = [n \in 1 .. Len(body) + 1 |->
                   CASE n > Len(body) \/ body[n] = 0 -> n
                     [] Unterminated(body, n)        -> -n
                     [] OTHER                        -> g[n + body[n] + 1]]
  BY EndsExist DEF EndFrom
<1>3. f = [n \in 1 .. Len(body) + 1 |-> EndFrom(f, body, n)]
  BY <1>1, <1>2 DEF EndFrom
<1>4. EndsFrom(f, body, 1)
  BY <1>3 DEF EndsFrom
<1>5. LabelsEnd(body) = f[1]
  BY <1>1 DEF LabelsEnd
<1> QED BY <1>4, <1>5

\* body has the first bytes of text, or all of them and more.
Follows(body, text) ==
  /\ body \in Seq(Octets) /\ text \in Seq(Octets)
  /\ \A j \in 1 .. Len(body) : j <= Len(text) => body[j] = text[j]

\* Of a question the end of its name is found, and of less than one nothing that
\* five bytes follow, and no more than the name is copied.
LEMMA NameEnds ==
  ASSUME NEW q, NEW text, NEW at, Len(q.name) \in Nat, Laid(q, text, at),
         NEW body, Follows(body, text)
  PROVE  /\ IF Len(text) <= Len(body)
            THEN LabelsEnd(body) = at[Len(q.name)] + 1
            ELSE LabelsEnd(body) < 0 \/ Len(body) - LabelsEnd(body) + 1 < 5
         /\ LabelsEnd(body) \in Int
         /\ LabelsEnd(body) <= Len(text) - 4 /\ -LabelsEnd(body) <= Len(text) - 4
<1>1. PICK k, l : k = Len(q.name) /\ k \in Nat /\ l = Len(body) /\ l \in Nat
  <2>1. Len(body) \in Nat
    BY DEF Follows
  <2> QED BY <2>1
<1>2. PICK lens : lens = [i \in 1 .. k |-> Len(q.name[i])]
  OBVIOUS
<1>3. /\ at \in [0 .. k -> Nat] /\ at[0] = 0 /\ Len(text) = at[k] + 5
      /\ text[at[k] + 1] = 0
      /\ \A i \in 1 .. k : /\ lens[i] \in 1 .. 63 /\ at[i] = at[i - 1] + 1 + lens[i]
                           /\ at[i] <= at[k] /\ text[at[i - 1] + 1] = lens[i]
  <2>1. /\ at \in [0 .. k -> Nat] /\ at[0] = 0 /\ Len(text) = at[k] + 5
        /\ text[at[k] + 1] = 0
    BY <1>1 DEF Laid
  <2>2. \A i \in 1 .. k : /\ Len(q.name[i]) \in 1 .. 63
                          /\ at[i] = at[i - 1] + 1 + Len(q.name[i])
                          /\ at[i] <= at[k] /\ text[at[i - 1] + 1] = Len(q.name[i])
    BY <1>1 DEF Laid
  <2>3. \A i \in 1 .. k : lens[i] = Len(q.name[i])
    BY <1>2
  <2> QED BY <2>1, <2>2, <2>3
<1>4. at[k] \in Nat
  BY <1>1, <1>3
<1>5. PICK f : LabelsEnd(body) = f[1] /\ EndsFrom(f, body, 1)
  BY LabelsEndIs DEF Follows
<1>6. \A n \in 1 .. l + 1 : f[n] = EndFrom(f, body, n)
  BY <1>1, <1>5 DEF EndsFrom
<1>7. \A n \in 1 .. l : n <= at[k] + 5 => body[n] = text[n]
  BY <1>1, <1>3 DEF Follows
<1>8. f[l + 1] = l + 1
  BY <1>1, <1>6 DEF EndFrom, Unterminated
<1> DEFINE Before(e) == e \in Int /\ e < 0 /\ -e <= at[k] + 1
<1> DEFINE S == {i \in 0 .. k : IF at[i] <= l THEN f[1] = f[at[i] + 1]
                                ELSE f[1] = l + 1 \/ Before(f[1])}
<1>9. 0 \in S
  <2>1. at[0] <= l /\ at[0] + 1 = 1
    BY <1>1, <1>3
  <2> QED BY <1>1, <2>1
<1>10. ASSUME NEW i \in 0 .. k - 1, i \in S PROVE i + 1 \in S
  <2>1. PICK m, len, e : m = at[i] /\ len = lens[i + 1] /\ e = at[i + 1]
    OBVIOUS
  <2>2. i + 1 \in 1 .. k /\ (i + 1) - 1 = i /\ i \in 0 .. k /\ i + 1 \in 0 .. k
    BY <1>1
  <2>3. m \in Nat /\ len \in 1 .. 63 /\ e = m + 1 + len /\ text[m + 1] = len /\ e <= at[k]
    BY <1>3, <2>1, <2>2
  <2>4. IF m <= l THEN f[1] = f[m + 1] ELSE f[1] = l + 1 \/ Before(f[1])
    BY <1>10, <2>1
  <2>5. IF e <= l THEN f[1] = f[e + 1] ELSE f[1] = l + 1 \/ Before(f[1])
    <3>1. CASE m > l
      BY <1>1, <2>3, <2>4, <3>1
    <3>2. CASE m = l
      <4>1. m <= l /\ m + 1 = l + 1
        BY <1>1, <3>2
      <4>2. f[1] = l + 1
        BY <1>8, <2>4, <4>1
      <4>3. ~(e <= l)
        <5>1. m \in Nat /\ len \in 1 .. 63 /\ e = m + 1 + len
          BY <2>3
        <5> QED BY <3>2, <5>1
      <4> QED BY <4>2, <4>3
    <3>3. CASE m < l
      <4>1. f[1] = f[m + 1] /\ m + 1 \in 1 .. l /\ m + 1 \in 1 .. l + 1
        BY <1>1, <2>3, <2>4, <3>3
      <4>2. m + 1 <= at[k] + 5
        <5>1. PICK z : z = at[k] /\ z \in Nat
          BY <1>4
        <5>2. m + 1 <= z + 5
          BY <2>3, <5>1
        <5> QED BY <5>1, <5>2
      <4>3. body[m + 1] = len
        <5>1. body[m + 1] = text[m + 1]
          BY <1>7, <4>1, <4>2
        <5> QED BY <2>3, <5>1
      <4>4. ~(m + 1 > l \/ body[m + 1] = 0)
        BY <1>1, <2>3, <4>1, <4>3
      <4>5. Unterminated(body, m + 1) <=> ~(e <= l)
        BY <1>1, <2>3, <4>1, <4>3 DEF Unterminated
      <4>6. CASE e <= l
        <5>1. f[m + 1] = f[(m + 1) + body[m + 1] + 1]
          BY <1>1, <1>6, <4>1, <4>4, <4>5, <4>6 DEF EndFrom
        <5>2. (m + 1) + body[m + 1] + 1 = e + 1
          BY <2>3, <4>3
        <5> QED BY <4>1, <4>6, <5>1, <5>2
      <4>7. CASE ~(e <= l)
        <5>1. f[m + 1] = -(m + 1)
          BY <1>1, <1>6, <4>1, <4>4, <4>5, <4>7 DEF EndFrom
        <5>2. m + 1 <= at[k] + 1
          BY <1>4, <2>3
        <5> QED BY <2>3, <4>1, <4>7, <5>1, <5>2
      <4> QED BY <4>6, <4>7
    <3> QED BY <1>1, <2>3, <3>1, <3>2, <3>3
  <2> QED BY <2>1, <2>2, <2>5
<1>11. k \in S
  <2> HIDE DEF S
  <2>1. \A i \in 0 .. k - 1 : i \in S => i + 1 \in S
    BY <1>10
  <2>2. 0 .. k \subseteq S
    BY <1>1, <1>9, <2>1, UpTo, Zenon
  <2> QED BY <1>1, <2>2
<1>12. PICK n : n = at[k] /\ n \in Nat
  BY <1>4
<1>13. IF n <= l THEN f[1] = f[n + 1]
       ELSE f[1] = l + 1 \/ (f[1] \in Int /\ f[1] < 0 /\ -f[1] <= n + 1)
  <2>1. IF at[k] <= l THEN f[1] = f[at[k] + 1] ELSE f[1] = l + 1 \/ Before(f[1])
    BY <1>11
  <2> QED BY <1>12, <2>1
<1>14. n + 1 \in 1 .. l => f[n + 1] = n + 1
  <2> SUFFICES ASSUME n + 1 \in 1 .. l PROVE f[n + 1] = n + 1
    OBVIOUS
  <2>1. body[n + 1] = 0
    <3>1. n + 1 <= at[k] + 5
      BY <1>12
    <3>2. body[n + 1] = text[n + 1]
      BY <1>7, <3>1
    <3> QED BY <1>3, <1>12, <3>2
  <2>2. n + 1 \in 1 .. l + 1
    BY <1>1, <1>12
  <2> QED BY <1>6, <2>1, <2>2 DEF EndFrom, Unterminated
<1>15. CASE n + 5 <= l
  <2>1. f[1] = n + 1
    BY <1>1, <1>12, <1>13, <1>14, <1>15
  <2> QED BY <1>1, <1>3, <1>5, <1>12, <1>15, <2>1
<1>16. CASE ~(n + 5 <= l)
  <2>1. /\ f[1] < 0 \/ l - f[1] + 1 < 5
        /\ f[1] \in Int /\ f[1] <= n + 1 /\ -f[1] <= n + 1
    <3>1. CASE n > l
      BY <1>1, <1>12, <1>13, <3>1
    <3>2. CASE n = l
      BY <1>1, <1>8, <1>13, <3>2
    <3>3. CASE n < l
      <4>1. f[1] = n + 1
        BY <1>1, <1>12, <1>13, <1>14, <3>3
      <4> QED BY <1>1, <1>12, <1>16, <4>1
    <3> QED BY <1>1, <1>12, <3>1, <3>2, <3>3
  <2> QED BY <1>1, <1>3, <1>5, <1>12, <1>16, <2>1
<1> QED BY <1>15, <1>16

--------------------------------------------------------------------------------
(* What a query is answered. *)

\* The two bytes of a number are those of no other one.
LEMMA Uint16Alone ==
  ASSUME NEW m \in Nat, NEW n \in Nat
  PROVE  <<m \div 256, m % 256>> = Uint16Bytes(n) => m = n
<1> SUFFICES ASSUME <<m \div 256, m % 256>> = <<n \div 256, n % 256>> PROVE m = n
  BY DEF Uint16Bytes
<1>1. PICK a, b, c, d : a = m \div 256 /\ b = m % 256 /\ c = n \div 256 /\ d = n % 256
  OBVIOUS
<1>2. \A u, v, w, x : <<u, v>> = <<w, x>> => u = w /\ v = x
  OBVIOUS
<1>3. a = c /\ b = d
  BY <1>1, <1>2
<1>4. m = 256 * a + b /\ n = 256 * c + d
  BY <1>1
<1> QED BY <1>3, <1>4

\* The two fields after a name at whose end the label of length 0 is.
LEMMA FieldsAre ==
  ASSUME NEW q \in Questions, NEW text, NEW at, Laid(q, text, at),
         NEW body, Follows(body, text), Len(text) <= Len(body)
  PROVE  /\ LabelsEnd(body) \in Nat /\ Len(body) - LabelsEnd(body) + 1 >= 5
         /\ SubSeq(body, 1, LabelsEnd(body) + 4) = text
         /\ Field(body, LabelsEnd(body), 1) \in {Uint16Bytes(1), Uint16Bytes(255)}
              <=> q.qtype \in {1, 255}
         /\ Field(body, LabelsEnd(body), 3) \in {Uint16Bytes(1), Uint16Bytes(255)}
              <=> q.qclass \in {1, 255}
<1>1. Len(q.name) \in Nat /\ q.qtype \in Nat /\ q.qclass \in Nat
  <2>1. q.name \in Seq(Seq(Octets)) /\ q.qtype \in Nat /\ q.qclass \in Nat
    BY DnsAssumption DEF IsQuestion
  <2> QED BY <2>1
<1>2. PICK n, end : n = at[Len(q.name)] /\ end = LabelsEnd(body)
  OBVIOUS
<1>3. n \in Nat /\ Len(text) = n + 5
  <2>1. Len(q.name) \in 0 .. Len(q.name)
    BY <1>1
  <2> QED BY <1>2, <2>1 DEF Laid
<1>4. end = n + 1
  BY <1>1, <1>2, NameEnds
<1>5. Len(body) \in Nat /\ n + 5 <= Len(body) /\ body \in Seq(Octets) /\ text \in Seq(Octets)
  BY <1>3 DEF Follows
<1>6. \A j \in 1 .. n + 5 : body[j] = text[j]
  <2>1. \A j \in 1 .. n + 5 : j \in 1 .. Len(body) /\ j <= Len(text)
    BY <1>3, <1>5
  <2> QED BY <2>1 DEF Follows
<1>7. /\ body[end + 1] = q.qtype \div 256 /\ body[end + 1 + 1] = q.qtype % 256
      /\ body[end + 3] = q.qclass \div 256 /\ body[end + 3 + 1] = q.qclass % 256
  <2>1. /\ end + 1 = n + 2 /\ end + 1 + 1 = n + 3 /\ end + 3 = n + 4 /\ end + 3 + 1 = n + 5
        /\ n + 2 \in 1 .. n + 5 /\ n + 3 \in 1 .. n + 5
        /\ n + 4 \in 1 .. n + 5 /\ n + 5 \in 1 .. n + 5
    BY <1>3, <1>4
  <2>2. /\ text[n + 2] = q.qtype \div 256 /\ text[n + 3] = q.qtype % 256
        /\ text[n + 4] = q.qclass \div 256 /\ text[n + 5] = q.qclass % 256
    BY <1>2 DEF Laid
  <2>3. /\ body[n + 2] = text[n + 2] /\ body[n + 3] = text[n + 3]
        /\ body[n + 4] = text[n + 4] /\ body[n + 5] = text[n + 5]
    BY <1>6, <2>1
  <2> QED BY <2>1, <2>2, <2>3
<1>8. /\ Field(body, end, 1) = <<q.qtype \div 256, q.qtype % 256>>
      /\ Field(body, end, 3) = <<q.qclass \div 256, q.qclass % 256>>
  BY <1>7 DEF Field
<1>9. ASSUME NEW m \in Nat
      PROVE  <<m \div 256, m % 256>> \in {Uint16Bytes(1), Uint16Bytes(255)} <=> m \in {1, 255}
  <2>1. <<m \div 256, m % 256>> = Uint16Bytes(m)
    BY DEF Uint16Bytes
  <2>2. <<m \div 256, m % 256>> = Uint16Bytes(1) => m = 1
    BY Uint16Alone
  <2>3. <<m \div 256, m % 256>> = Uint16Bytes(255) => m = 255
    BY Uint16Alone
  <2> QED BY <2>1, <2>2, <2>3
<1>10. SubSeq(body, 1, end + 4) = text
  <2>1. PICK s : s = SubSeq(body, 1, n + 5)
    OBVIOUS
  <2>2. s \in Seq(Octets) /\ Len(s) = n + 5 /\ \A j \in 1 .. n + 5 : s[j] = body[j]
    <3>1. 1 \in 1 .. Len(body) /\ n + 5 \in 1 .. Len(body)
      BY <1>3, <1>5
    <3> QED BY <1>3, <1>5, <2>1, <3>1
  <2>3. \A j \in 1 .. Len(s) : s[j] = text[j]
    BY <1>6, <2>2
  <2>4. s = text
    BY <1>3, <1>5, <2>2, <2>3, SeqEqual
  <2>5. end + 4 = n + 5
    BY <1>3, <1>4
  <2> QED BY <2>1, <2>4, <2>5
<1>11. end \in Nat /\ Len(body) - end + 1 >= 5
  BY <1>3, <1>4, <1>5
<1>12. /\ Field(body, end, 1) \in {Uint16Bytes(1), Uint16Bytes(255)} <=> q.qtype \in {1, 255}
       /\ Field(body, end, 3) \in {Uint16Bytes(1), Uint16Bytes(255)} <=> q.qclass \in {1, 255}
  <2> DEFINE Known(b) == b \in {Uint16Bytes(1), Uint16Bytes(255)}
             Asked(m) == m \in {1, 255}
  <2>1. \A m \in Nat : Known(<<m \div 256, m % 256>>) <=> Asked(m)
    BY <1>9
  <2> HIDE DEF Known, Asked
  <2>2. /\ Known(<<q.qtype \div 256, q.qtype % 256>>) <=> Asked(q.qtype)
        /\ Known(<<q.qclass \div 256, q.qclass % 256>>) <=> Asked(q.qclass)
    BY <1>1, <2>1, Zenon
  <2>3. /\ Known(Field(body, end, 1)) <=> Asked(q.qtype)
        /\ Known(Field(body, end, 3)) <=> Asked(q.qclass)
    BY <1>8, <2>2
  <2> QED BY <2>3 DEF Known, Asked
<1> QED BY <1>2, <1>10, <1>11, <1>12

\* What a packet that was sent with a question has of it.
LEMMA BytesFollow ==
  ASSUME NEW text \in Seq(Octets), NEW body,
         \/ \E n \in 0 .. Len(text) : body = SubSeq(text, 1, n)
         \/ \E e \in Extras : body = text \o e
  PROVE  /\ Follows(body, text)
         /\ IsPrefix(text, body) <=> Len(text) <= Len(body)
<1>1. PICK l : l = Len(text) /\ l \in Nat
  OBVIOUS
<1>2. CASE \E n \in 0 .. l : body = SubSeq(text, 1, n)
  <2>1. PICK n \in 0 .. l : body = SubSeq(text, 1, n)
    BY <1>2
  <2>2. body \in Seq(Octets) /\ Len(body) = n /\ \A j \in 1 .. n : body[j] = text[j]
    BY <1>1, <2>1
  <2>3. Follows(body, text)
    BY <1>1, <2>2 DEF Follows
  <2>4. IsPrefix(text, body) => l <= n
    BY <1>1, <2>2 DEF IsPrefix
  <2>5. l <= n => IsPrefix(text, body)
    <3> SUFFICES ASSUME l <= n PROVE IsPrefix(text, body)
      OBVIOUS
    <3>1. n = l
      BY <1>1
    <3>2. body = text
      BY <1>1, <2>2, <3>1, SeqEqual
    <3> QED BY <3>2 DEF IsPrefix
  <2> QED BY <1>1, <2>2, <2>3, <2>4, <2>5
<1>3. CASE \E e \in Extras : body = text \o e
  <2>1. PICK e \in Extras : body = text \o e
    BY <1>3
  <2>2. e \in Seq(Octets)
    BY DnsAssumption
  <2>3. /\ body \in Seq(Octets) /\ Len(body) = l + Len(e) /\ Len(e) \in Nat
        /\ \A j \in 1 .. l : body[j] = text[j]
    BY <1>1, <2>1, <2>2
  <2>4. Follows(body, text)
    BY <1>1, <2>3 DEF Follows
  <2>5. IsPrefix(text, body)
    BY <1>1, <2>1, <2>2, <2>3 DEF IsPrefix
  <2>6. Len(text) <= Len(body)
    BY <1>1, <2>3
  <2> QED BY <2>4, <2>5, <2>6
<1> QED BY <1>1, <1>2, <1>3

--------------------------------------------------------------------------------
(* What a query is replied. *)

\* A header of no records but those of its question and its additional section.
HeaderOf(qr, op_code, qd, ar) ==
  [qr |-> qr, op_code |-> op_code, reply_code |-> 0,
   qd_count |-> qd, an_count |-> 0, ns_count |-> 0, ar_count |-> ar]

LEMMA HeadersAre ==
  ASSUME NEW header \in Headers
  PROVE  \E qr, op_code, qd, ar : header = HeaderOf(qr, op_code, qd, ar)
BY DEF Headers, HeaderOf

\* What says the same of a reply as its parts do.
Tells(r, reply_code, query, answers) ==
  /\ r.header.qr = 1 /\ r.header.reply_code = reply_code
  /\ r.header.qd_count = IF query = << >> THEN 0 ELSE 1
  /\ r.header.an_count = Len(answers) /\ r.header.ns_count = 0 /\ r.header.ar_count = 0
  /\ r.query = query /\ r.answers = answers

LEMMA ErrorTells ==
  ASSUME NEW header \in Headers, NEW reply_code, NEW query
  PROVE  Tells(prepare_error_response(header, reply_code, query), reply_code, query, << >>)
<1>1. PICK qr, op_code, qd, ar : header = HeaderOf(qr, op_code, qd, ar)
  BY HeadersAre
<1>2. Len(<< >>) = 0
  OBVIOUS
<1> QED BY <1>1, <1>2 DEF HeaderOf, Tells, prepare_error_response

LEMMA AddressTells ==
  ASSUME NEW header \in Headers, NEW query, query # << >>
  PROVE  Tells(prepare_ip_response(header, query), 0, query, <<OwnAddress>>)
<1>1. PICK qr, op_code, qd, ar : header = HeaderOf(qr, op_code, qd, ar)
  BY HeadersAre
<1>2. \A a : Len(<<a>>) = 1
  OBVIOUS
<1> QED BY <1>1, <1>2 DEF HeaderOf, Tells, prepare_ip_response, DNS_REPLY_NO_ERROR

\* What QueriesAnswered says of a reply.
AsAsked(whole, plain, address, question, r) ==
  /\ r.header.qr = 1
  /\ r.header.qd_count = IF r.query = << >> THEN 0 ELSE 1
  /\ r.header.an_count = Len(r.answers)
  /\ r.header.ns_count = 0 /\ r.header.ar_count = 0
  /\ r.query = IF whole /\ plain THEN question ELSE << >>
  /\ r.answers # << >> <=> whole /\ plain /\ address
  /\ r.header.reply_code = 0 <=> r.answers # << >>
  /\ r.header.reply_code = 3 <=> r.query # << >> /\ r.answers = << >>

Whole(p, q) == IsPrefix(Encoded(q), p.body)
Plain(h) == h.op_code = 0 /\ h.qd_count = 1 /\ h.ar_count = 0
Address(q) == q.qtype \in {1, 255} /\ q.qclass \in {1, 255}

Answered(p, q, r) == AsAsked(Whole(p, q), Plain(p.header), Address(q), Encoded(q), r)

LEMMA TellsAsAsked ==
  ASSUME NEW whole \in BOOLEAN, NEW plain \in BOOLEAN, NEW address \in BOOLEAN,
         NEW question, question # << >>, NEW r, NEW reply_code, NEW query, NEW answers,
         Tells(r, reply_code, query, answers),
         query = IF whole /\ plain THEN question ELSE << >>,
         answers # << >> <=> whole /\ plain /\ address,
         reply_code = 0 <=> whole /\ plain /\ address,
         reply_code = 3 <=> whole /\ plain /\ ~address
  PROVE  AsAsked(whole, plain, address, question, r)
BY DEF Tells, AsAsked

\* What is sent with a question whose name fits is copied to query_str and no further.
LEMMA NothingOverflown ==
  ASSUME NEW q \in Questions, Fits(q), NEW body \in QuestionBytes(q)
  PROVE  ~QueryStrOverflown(body)
<1>1. PICK text, end : text = Encoded(q) /\ end = LabelsEnd(body)
  OBVIOUS
<1>2. PICK at : Laid(q, text, at)
  BY <1>1, QuestionLaid
<1>3. Len(q.name) \in Nat
  <2>1. q.name \in Seq(Seq(Octets))
    BY DnsAssumption DEF IsQuestion
  <2> QED BY <2>1
<1>4. Follows(body, text)
  <2>1. text \in Seq(Octets)
    BY <1>2 DEF Laid
  <2>2. \/ \E n \in 0 .. Len(text) : body = SubSeq(text, 1, n)
        \/ \E e \in Extras : body = text \o e
    BY <1>1 DEF QuestionBytes
  <2> QED BY <2>1, <2>2, BytesFollow
<1>5. end \in Int /\ end <= Len(text) - 4 /\ -end <= Len(text) - 4
  BY <1>1, <1>2, <1>3, <1>4, NameEnds
<1>6. Len(text) \in Nat /\ Len(text) - 4 <= QUERY_STR_SIZE /\ QUERY_STR_SIZE \in Nat
  <2>1. text \in Seq(Octets)
    BY <1>2 DEF Laid
  <2> QED BY <1>1, <2>1, DnsAssumption DEF Fits
<1>7. ~(end > QUERY_STR_SIZE \/ -end > QUERY_STR_SIZE)
  BY <1>5, <1>6
<1> QED BY <1>1, <1>7 DEF QueryStrOverflown

\* The server's reply to what a client sends is the one its question calls for.
LEMMA ReplyAnswers ==
  ASSUME NEW q \in Questions, NEW header \in Headers, NEW body \in QuestionBytes(q),
         header.qr = 0
  PROVE  LET p == [header |-> header, body |-> body]
         IN  Answered(p, q, prepare_response(p))
<1>1. PICK p, r, text, end :
        /\ p = [header |-> header, body |-> body] /\ r = prepare_response(p)
        /\ text = Encoded(q) /\ end = LabelsEnd(body)
  OBVIOUS
<1>2. p.header = header /\ p.body = body
  BY <1>1
<1>3. PICK at : Laid(q, text, at)
  BY <1>1, QuestionLaid
<1>4. Len(q.name) \in Nat
  <2>1. q.name \in Seq(Seq(Octets))
    BY DnsAssumption DEF IsQuestion
  <2> QED BY <2>1
<1>5. text \in Seq(Octets) /\ text # << >>
  <2>1. at[Len(q.name)] \in Nat /\ Len(text) = at[Len(q.name)] + 5 /\ text \in Seq(Octets)
    BY <1>3, <1>4 DEF Laid
  <2> QED BY <2>1
<1>6. PICK whole, plain, address :
        whole = Whole(p, q) /\ plain = Plain(header) /\ address = Address(q)
  OBVIOUS
<1>7. /\ whole \in BOOLEAN /\ plain \in BOOLEAN /\ address \in BOOLEAN
      /\ whole <=> Whole(p, q)
      /\ plain <=> Plain(header)
      /\ address <=> Address(q)
  <2>1. Whole(p, q) \in BOOLEAN /\ Plain(header) \in BOOLEAN /\ Address(q) \in BOOLEAN
    BY DEF Whole, Plain, Address, IsPrefix
  <2> QED BY <1>6, <2>1, Zenon
<1>8. Follows(body, text) /\ (whole <=> Len(text) <= Len(body))
  <2>1. \/ \E n \in 0 .. Len(text) : body = SubSeq(text, 1, n)
        \/ \E e \in Extras : body = text \o e
    BY <1>1 DEF QuestionBytes
  <2>2. Follows(body, text) /\ (IsPrefix(text, body) <=> Len(text) <= Len(body))
    BY <1>5, <2>1, BytesFollow
  <2> QED BY <1>1, <1>2, <1>7, <2>2 DEF Whole
<1>9. ~whole => end < 0 \/ Len(body) - end + 1 < 5
  BY <1>1, <1>3, <1>4, <1>8, NameEnds
<1>10. whole => ~(end < 0) /\ ~(Len(body) - end + 1 < 5) /\ SubSeq(body, 1, end + 4) = text
                /\ (address <=> Field(body, end, 1) \in {Uint16Bytes(1), Uint16Bytes(255)}
                                /\ Field(body, end, 3) \in {Uint16Bytes(1), Uint16Bytes(255)})
  <2> SUFFICES ASSUME whole
               PROVE  ~(end < 0) /\ ~(Len(body) - end + 1 < 5) /\ SubSeq(body, 1, end + 4) = text
                      /\ (address <=> Field(body, end, 1) \in {Uint16Bytes(1), Uint16Bytes(255)}
                                /\ Field(body, end, 3) \in {Uint16Bytes(1), Uint16Bytes(255)})
    OBVIOUS
  <2>1. Len(text) <= Len(body)
    BY <1>8
  <2>2. ~(end < 0)
    <3>1. at[Len(q.name)] \in Nat
      BY <1>3, <1>4 DEF Laid
    <3>2. end = at[Len(q.name)] + 1
      BY <1>1, <1>3, <1>4, <1>8, <2>1, NameEnds
    <3> QED BY <3>1, <3>2
  <2>3. /\ end \in Nat /\ Len(body) - end + 1 >= 5 /\ SubSeq(body, 1, end + 4) = text
        /\ Field(body, end, 1) \in {Uint16Bytes(1), Uint16Bytes(255)} <=> q.qtype \in {1, 255}
        /\ Field(body, end, 3) \in {Uint16Bytes(1), Uint16Bytes(255)} <=> q.qclass \in {1, 255}
    BY <1>1, <1>3, <1>8, <2>1, FieldsAre
  <2>4. Len(body) \in Nat
    BY <1>8 DEF Follows
  <2>5. address <=> q.qtype \in {1, 255} /\ q.qclass \in {1, 255}
    BY <1>7 DEF Address
  <2> QED BY <2>2, <2>3, <2>4, <2>5
<1>11. plain <=> header.op_code = 0 /\ header.qd_count = 1 /\ header.an_count = 0
                 /\ header.ns_count = 0 /\ header.ar_count = 0
  <2>1. PICK qr, op_code, qd, ar : header = HeaderOf(qr, op_code, qd, ar)
    BY HeadersAre
  <2>2. header.an_count = 0 /\ header.ns_count = 0
    BY <2>1 DEF HeaderOf
  <2> QED BY <1>7, <2>2 DEF Plain
<1>12. Counted(header) /\ header.op_code = 0 <=> plain
  BY <1>11 DEF Counted
<1>13. AsAsked(whole, plain, address, text, r)
  <2>1. CASE ~(whole /\ plain)
    <3>1. \E c \in {1, 4} : r = prepare_error_response(header, c, << >>)
      <4>1. CASE header.op_code # 0
        BY <1>1, <1>2, <4>1 DEF prepare_response, DNS_REPLY_NOT_IMPLEMENTED
      <4>2. CASE header.op_code = 0
        <5>1. ~Counted(header) \/ end < 0 \/ Len(body) - end + 1 < 5
          BY <1>9, <1>12, <2>1, <4>2
        <5> QED BY <1>1, <1>2, <4>2, <5>1
                DEF prepare_response, Counted, DNS_REPLY_FORMAT_ERROR
      <4> QED BY <4>1, <4>2
    <3>2. PICK c \in {1, 4} : Tells(r, c, << >>, << >>)
      BY <3>1, ErrorTells
    <3>3. c # 0 /\ c # 3
      OBVIOUS
    <3> QED BY <1>5, <1>7, <2>1, <3>2, <3>3, TellsAsAsked
  <2>2. CASE whole /\ plain
    <3>1. /\ header.op_code = 0 /\ Counted(header) /\ ~(end < 0) /\ ~(Len(body) - end + 1 < 5)
          /\ SubSeq(body, 1, end + 4) = text
      BY <1>10, <1>12, <2>2
    <3>2. r = IF address THEN prepare_ip_response(header, text)
              ELSE prepare_error_response(header, 3, text)
      BY <1>1, <1>2, <1>10, <2>2, <3>1 DEF prepare_response, Counted, DNS_REPLY_NX_DOMAIN
    <3>3. CASE address
      <4>1. Tells(r, 0, text, <<OwnAddress>>)
        BY <1>5, <3>2, <3>3, AddressTells
      <4>2. <<OwnAddress>> # << >>
        OBVIOUS
      <4>3. /\ text = IF whole /\ plain THEN text ELSE << >>
            /\ <<OwnAddress>> # << >> <=> whole /\ plain /\ address
            /\ 0 = 0 <=> whole /\ plain /\ address
            /\ 0 = 3 <=> whole /\ plain /\ ~address
        BY <2>2, <3>3, <4>2
      <4> QED BY <1>5, <1>7, <4>1, <4>3, TellsAsAsked, Zenon
    <3>4. CASE ~address
      <4>1. Tells(r, 3, text, << >>)
        BY <3>2, <3>4, ErrorTells
      <4>2. /\ text = IF whole /\ plain THEN text ELSE << >>
            /\ << >> # << >> <=> whole /\ plain /\ address
            /\ 3 = 0 <=> whole /\ plain /\ address
            /\ 3 = 3 <=> whole /\ plain /\ ~address
        BY <2>2, <3>4
      <4> QED BY <1>5, <1>7, <4>1, <4>2, TellsAsAsked, Zenon
    <3> QED BY <3>3, <3>4
  <2> QED BY <1>7, <2>1, <2>2
<1> QED BY <1>1, <1>2, <1>6, <1>13 DEF Answered

--------------------------------------------------------------------------------

DnsIInv == deaf \in BOOLEAN /\ QueriesAnswered

Listens == started /\ ~deaf => conn = "listening"

LEMMA DnsParts ==
  DnsIInv <=> /\ deaf \in BOOLEAN /\ Listens
              /\ (reply # NoPacket /\ Fits(asked.question) =>
                    Answered(asked.packet, asked.question, reply))
BY DEF DnsIInv, QueriesAnswered, Listens, Answered, AsAsked, Whole, Plain, Address

\* A client whose packet has a whole question gets it back with what the code says of
\* it, every other packet is refused, and the server goes on listening: for every
\* question whose name fits in query_str, and whatever follows it or is cut off it.
THEOREM QueriesAreAnswered == DnsSpec => []QueriesAnswered
<1>1. DnsInit => DnsIInv
  BY DnsParts DEF DnsInit, Listens
<1>2. DnsIInv /\ [DnsNext]_dns_vars => DnsIInv'
  <2> SUFFICES ASSUME DnsIInv, [DnsNext]_dns_vars PROVE DnsIInv'
    OBVIOUS
  <2>1. /\ deaf \in BOOLEAN /\ Listens
        /\ (reply # NoPacket /\ Fits(asked.question) =>
              Answered(asked.packet, asked.question, reply))
    BY DnsParts
  <2> DEFINE Holds == /\ deaf' \in BOOLEAN /\ Listens'
                      /\ (reply' # NoPacket /\ Fits(asked'.question) =>
                            Answered(asked'.packet, asked'.question, reply'))
  <2>2. listen => deaf' \in BOOLEAN /\ (~deaf' => conn' = "listening")
    BY <2>1 DEF listen
  <2>3. ASSUME dnsserver_start_captive PROVE Holds
    <3>1. asked' = asked /\ reply' = reply
      BY <2>3 DEF dnsserver_start_captive
    <3>2. deaf' \in BOOLEAN /\ Listens'
      BY <2>1, <2>2, <2>3 DEF dnsserver_start_captive, Listens
    <3> QED BY <2>1, <3>1, <3>2
  <2>4. ASSUME dnsserver_stop PROVE Holds
    <3>1. asked' = asked /\ reply' = reply /\ started' = FALSE /\ deaf' = FALSE
      BY <2>4 DEF dnsserver_stop
    <3> QED BY <2>1, <3>1 DEF Listens
  <2>5. ASSUME NEW p, NEW q, process_request(p, q),
               \/ p = NoPacket
               \/ q \in Questions /\ \E header \in Headers, body \in QuestionBytes(q) :
                                       p = [header |-> header, body |-> body]
        PROVE  Holds
    <3>1. asked' = [packet |-> p, question |-> q]
      BY <2>5 DEF process_request
    <3> DEFINE Prepared ==
          /\ reply' = NoPacket \/ (p # NoPacket /\ reply' = prepare_response(p))
          /\ IF reply' = NoPacket THEN reset /\ deaf' = TRUE ELSE listen
          /\ UNCHANGED started
    <3>2. Prepared \/ (p # NoPacket /\ QueryStrOverflown(p.body) /\ Corrupted)
      <4>1. p = NoPacket => Size(p) < DNS_HEADER_SIZE
        BY DnsAssumption DEF Size
      <4>2. PICK invalid, response :
              /\ invalid = (Size(p) > DNS_MAX_PACKET_SIZE \/ Size(p) < DNS_HEADER_SIZE)
              /\ response = IF invalid THEN NoPacket ELSE prepare_response(p)
        OBVIOUS
      <4>3. \/ /\ reply' = response
               /\ IF response = NoPacket THEN reset /\ deaf' = TRUE ELSE listen
               /\ UNCHANGED started
            \/ ~invalid /\ QueryStrOverflown(p.body) /\ Corrupted
        BY <2>5, <4>2, Zenon DEF process_request, ListenAgain
      <4> HIDE DEF Prepared
      <4>4. CASE invalid
        BY <4>2, <4>4, <4>3 DEF Prepared
      <4>5. CASE ~invalid
        BY <4>1, <4>2, <4>5, <4>3 DEF Prepared
      <4> QED BY <4>4, <4>5
    <3>3. deaf' \in BOOLEAN /\ Listens'
      <4>1. CASE Prepared
        BY <2>2, <4>1 DEF Listens
      <4>2. CASE Corrupted
        BY <2>2, <4>2 DEF Corrupted, Listens
      <4> QED BY <3>2, <4>1, <4>2
    <3>4. reply' # NoPacket /\ Fits(q) => Answered(p, q, reply')
      <4> SUFFICES ASSUME reply' # NoPacket, Fits(q) PROVE Answered(p, q, reply')
        OBVIOUS
      <4>1. p # NoPacket
        BY <3>2
      <4>2. q \in Questions
        BY <2>5, <4>1
      <4>3. PICK header \in Headers, body \in QuestionBytes(q) :
              p = [header |-> header, body |-> body]
        BY <2>5, <4>1
      <4>4. reply' = prepare_response(p)
        <5>1. ~QueryStrOverflown(p.body)
          BY <4>2, <4>3, NothingOverflown
        <5> QED BY <3>2, <5>1
      <4>5. header.qr = 0
        <5>1. p.header = header
          BY <4>3
        <5> QED BY <4>4, <5>1 DEF prepare_response
      <4> QED BY <4>2, <4>3, <4>4, <4>5, ReplyAnswers
    <3> QED BY <3>1, <3>3, <3>4
  <2>6. ASSUME Forget PROVE Holds
    BY <2>1, <2>6 DEF Forget, Listens
  <2>7. ASSUME UNCHANGED dns_vars PROVE Holds
    BY <2>1, <2>7 DEF dns_vars, Listens
  <2>8. Holds
    BY <2>3, <2>4, <2>5, <2>6, <2>7 DEF DnsNext
  <2>9. DnsIInv' <=> Holds
    BY DnsParts DEF DnsIInv, QueriesAnswered, Listens, Answered, AsAsked, Whole, Plain, Address
  <2> QED BY <2>8, <2>9
<1>3. DnsIInv => QueriesAnswered
  BY DEF DnsIInv
<1> QED BY <1>1, <1>2, <1>3, PTL DEF DnsSpec

--------------------------------------------------------------------------------
(* Requests, as the parser reads them.  What arrives is, at each point of it, the  *)
(* rest of one of its parts and the parts after that; what was read of the part    *)
(* is in the context, cut to its array.                                            *)

\* The characters of requests.
Sent == Chars \cup Letters \cup Spaces \cup Digits \cup {":", "/", "?", "#"}

LEMMA Advance ==
  ASSUME NEW T, NEW U, NEW s \in Seq(T), T \subseteq U, NEW rest \in Seq(U), s # << >>
  PROVE  /\ s \o rest # << >> /\ s \o rest \in Seq(U)
         /\ Head(s \o rest) = Head(s) /\ Tail(s \o rest) = Tail(s) \o rest
         /\ Head(s) \in T /\ Tail(s) \in Seq(T)
<1>1. PICK k, l : k = Len(s) /\ l = Len(rest) /\ k \in Nat /\ l \in Nat /\ k > 0
  <2>1. Len(s) \in Nat /\ Len(rest) \in Nat /\ Len(s) > 0
    OBVIOUS
  <2> QED BY <2>1
<1>2. s \in Seq(U)
  BY SeqMonotonic
<1>3. /\ s \o rest \in Seq(U) /\ Len(s \o rest) = k + l
      /\ \A i \in 1 .. k + l : (s \o rest)[i] = IF i <= k THEN s[i] ELSE rest[i - k]
  BY <1>1, <1>2, ConcatProperties
<1>4. s \o rest # << >>
  BY <1>1, <1>3
<1>5. /\ Head(s) \in T /\ Tail(s) \in Seq(T) /\ Len(Tail(s)) = k - 1 /\ Head(s) = s[1]
      /\ \A i \in 1 .. k - 1 : Tail(s)[i] = s[i + 1]
  BY <1>1
<1>6. Head(s \o rest) = Head(s)
  <2>1. 1 \in 1 .. k + l /\ 1 <= k
    BY <1>1
  <2> QED BY <1>3, <1>4, <1>5, <2>1
<1>7. PICK u, v : u = Tail(s \o rest) /\ v = Tail(s) \o rest
  OBVIOUS
<1>8. /\ u \in Seq(U) /\ Len(u) = k + l - 1
      /\ \A i \in 1 .. k + l - 1 : u[i] = (s \o rest)[i + 1]
  BY <1>1, <1>3, <1>4, <1>7
<1>9. Tail(s) \in Seq(U)
  BY <1>5, SeqMonotonic
<1>10. /\ v \in Seq(U) /\ Len(v) = (k - 1) + l
       /\ \A i \in 1 .. (k - 1) + l :
            v[i] = IF i <= k - 1 THEN Tail(s)[i] ELSE rest[i - (k - 1)]
  BY <1>1, <1>5, <1>7, <1>9, ConcatProperties
<1>11. ASSUME NEW i \in 1 .. k + l - 1 PROVE u[i] = v[i]
  <2>1. i \in 1 .. (k - 1) + l /\ i + 1 \in 1 .. k + l
    BY <1>1
  <2>2. u[i] = IF i + 1 <= k THEN s[i + 1] ELSE rest[(i + 1) - k]
    BY <1>3, <1>8, <2>1
  <2>3. CASE i <= k - 1
    <3>1. v[i] = Tail(s)[i]
      BY <1>10, <2>1, <2>3
    <3>2. i \in 1 .. k - 1 /\ i + 1 <= k
      BY <1>1, <2>3
    <3> QED BY <1>5, <2>2, <3>1, <3>2
  <2>4. CASE ~(i <= k - 1)
    <3>1. v[i] = rest[i - (k - 1)]
      BY <1>10, <2>1, <2>4
    <3>2. ~(i + 1 <= k) /\ (i + 1) - k = i - (k - 1)
      BY <1>1, <2>4
    <3> QED BY <2>2, <3>1, <3>2
  <2> QED BY <2>3, <2>4
<1>12. Len(u) = Len(v) /\ \A i \in 1 .. Len(u) : u[i] = v[i]
  BY <1>1, <1>8, <1>10, <1>11
<1>13. u = v
  BY <1>8, <1>10, <1>12, SeqEqual
<1> QED BY <1>3, <1>4, <1>5, <1>6, <1>7, <1>13

\* What was read and what is left of a part.
Split(s, d, r) == d \o r = s

LEMMA SplitMoves ==
  ASSUME NEW T, NEW s \in Seq(T), NEW d \in Seq(T), NEW r \in Seq(T), Split(s, d, r), r # << >>
  PROVE  /\ Append(d, Head(r)) \in Seq(T) /\ Tail(r) \in Seq(T) /\ Head(r) \in T
         /\ Append(d, Head(r)) # << >>
         /\ Split(s, Append(d, Head(r)), Tail(r))
<1>1. PICK c, t : c = Head(r) /\ t = Tail(r) /\ c \in T /\ t \in Seq(T)
  BY HeadTailProperties
<1>2. Append(d, c) = d \o <<c>> /\ Append(d, c) \in Seq(T) /\ Append(d, c) # << >>
  BY <1>1, AppendIsConcat, AppendProperties
<1>3. <<c>> \in Seq(T) /\ <<c>> # << >> /\ Head(<<c>>) = c /\ Tail(<<c>>) = << >>
  BY <1>1
<1>4. <<c>> \o t = r
  <2>1. r = SubSeq(r, 1, Len(r))
    BY SubSeqFull
  <2>2. Len(r) \in Nat /\ Len(r) > 0
    BY EmptySeq
  <2>3. 1 \in 1 .. Len(r) /\ Len(r) \in 1 .. Len(r)
    BY <2>2
  <2>4. SubSeq(r, 1, Len(r)) = <<r[1]>> \o SubSeq(r, 1 + 1, Len(r))
    BY <2>3, SubSeqRecursiveFirst, Zenon
  <2>5. Tail(r) = SubSeq(r, 1 + 1, Len(r)) /\ Head(r) = r[1]
    BY TailIsSubSeq
  <2> QED BY <1>1, <2>1, <2>4, <2>5
<1>5. (d \o <<c>>) \o t = d \o (<<c>> \o t)
  BY <1>1, <1>3, ConcatAssociative
<1> QED BY <1>1, <1>2, <1>4, <1>5 DEF Split

LEMMA SplitEnds ==
  ASSUME NEW T, NEW s \in Seq(T), NEW d \in Seq(T), Split(s, d, << >>)
  PROVE  d = s
BY ConcatEmptySeq DEF Split

LEMMA SplitBegins ==
  ASSUME NEW T, NEW s \in Seq(T)
  PROVE  Split(s, << >>, s)
BY ConcatEmptySeq DEF Split

LEMMA CutAppend ==
  ASSUME NEW T, NEW s \in Seq(T), NEW c \in T, NEW max \in Nat
  PROVE  append_max_len(Cut(s, max), c, max) = Cut(Append(s, c), max)
<1>1. PICK n : n = Len(s) /\ n \in Nat
  OBVIOUS
<1>2. PICK t : t = Append(s, c)
  OBVIOUS
<1>3. t \in Seq(T) /\ Len(t) = n + 1 /\ t[n + 1] = c /\ \A i \in 1 .. n : t[i] = s[i]
  BY <1>1, <1>2, AppendProperties
<1>4. CASE n < max
  <2>1. Cut(s, max) = s
    BY <1>1, <1>4, SubSeqFull DEF Cut
  <2>2. Cut(t, max) = t
    <3>1. Cut(t, max) = SubSeq(t, 1, n + 1)
      BY <1>1, <1>3, <1>4 DEF Cut
    <3> QED BY <1>3, <3>1, SubSeqFull
  <2> QED BY <1>1, <1>2, <1>4, <2>1, <2>2 DEF append_max_len
<1>5. CASE ~(n < max)
  <2>1. PICK p, q : p = SubSeq(s, 1, max) /\ q = SubSeq(t, 1, max)
    OBVIOUS
  <2>2. \A i \in 1 .. max : i \in 1 .. n /\ i \in 1 .. n + 1
    BY <1>1, <1>5
  <2>3. p \in Seq(T) /\ Len(p) = max /\ \A i \in 1 .. max : p[i] = s[i]
    BY <1>1, <1>5, <2>1, <2>2
  <2>4. q \in Seq(T) /\ Len(q) = max /\ \A i \in 1 .. max : q[i] = t[i]
    BY <1>1, <1>3, <1>5, <2>1, <2>2
  <2>5. p = q
    <3>1. \A i \in 1 .. Len(p) : p[i] = q[i]
      BY <1>3, <2>2, <2>3, <2>4
    <3> QED BY <2>3, <2>4, <3>1, SeqEqual
  <2>6. Cut(s, max) = p /\ Cut(t, max) = q
    BY <1>1, <1>3, <1>5, <2>1 DEF Cut
  <2> QED BY <1>2, <2>3, <2>5, <2>6 DEF append_max_len
<1> QED BY <1>1, <1>4, <1>5

LEMMA CutNone == ASSUME NEW max \in Nat PROVE Cut(<< >>, max) = << >>
BY DEF Cut

LEMMA CutOne ==
  ASSUME NEW T, NEW c \in T, NEW max \in Nat \ {0}
  PROVE  Cut(<<c>>, max) = <<c>>
<1>1. PICK s : s = <<c>>
  OBVIOUS
<1>2. s \in Seq(T) /\ Len(s) = 1
  BY <1>1
<1>3. Cut(s, max) = SubSeq(s, 1, Len(s))
  BY <1>2 DEF Cut
<1> QED BY <1>1, <1>2, <1>3, SubSeqFull

--------------------------------------------------------------------------------
PathCh  == Sent \ ({"?", "#"} \cup Spaces)
QueryCh == Sent \ ({"#"} \cup Spaces)
NameCh  == Sent \ ({":"} \cup Spaces)
ValueCh == Sent \ {"\r", "\n"}

Count(m) == Len(AllHeaders(m))
Name(m, i) == AllHeaders(m)[i][1]
Value(m, i) == AllHeaders(m)[i][2]

\* The number that the parser takes from the first i headers.
LengthAfter(m, i) == IF i = Count(m) THEN Len(m.body) ELSE 0

\* What a header says of the length.
LengthOf(name, value) == IF name = <<"L">> THEN strtol(value) ELSE 0

LEMMA RequestParts ==
  ASSUME NEW m \in Messages
  PROVE  /\ m.path \in Seq(PathCh) /\ m.query \in Seq(QueryCh)
         /\ m.fragment \in {<< >>, <<"#", "a">>} /\ m.eol \in {<<"\n">>, <<"\r", "\n">>}
         /\ m.headers \in OtherHeaders /\ m.body \in Seq(Sent) /\ Len(m.body) \in 0 .. 4
<1>1. /\ m.path \in Paths /\ m.query \in Queries
      /\ m.fragment \in {<< >>, <<"#", "a">>} /\ m.eol \in {<<"\n">>, <<"\r", "\n">>}
      /\ m.headers \in OtherHeaders /\ m.body \in Bodies
  BY DEF Messages
<1>2. m.path \in Seq(PathCh)
  <2>1. Chars \ ({"?", "#"} \cup Spaces) \subseteq PathCh
    BY DEF PathCh, Sent
  <2>2. m.path \in Seq(Chars \ ({"?", "#"} \cup Spaces))
    BY <1>1, MessagesAssumption
  <2> QED BY <2>1, <2>2, SeqMonotonic
<1>3. m.query \in Seq(QueryCh)
  <2>1. Chars \ ({"#"} \cup Spaces) \subseteq QueryCh
    BY DEF QueryCh, Sent
  <2>2. m.query \in Seq(Chars \ ({"#"} \cup Spaces))
    BY <1>1, MessagesAssumption
  <2> QED BY <2>1, <2>2, SeqMonotonic
<1>4. m.body \in Seq(Sent) /\ Len(m.body) \in 0 .. 4
  <2>1. m.body \in Seq(Chars) /\ Len(m.body) < Len(LengthDigit)
    BY <1>1, MessagesAssumption
  <2>2. Chars \subseteq Sent
    BY DEF Sent
  <2>3. Len(LengthDigit) = 5
    BY DEF LengthDigit
  <2>4. m.body \in Seq(Sent)
    BY <2>1, <2>2, SeqMonotonic
  <2>5. Len(m.body) \in Nat
    BY <2>1
  <2>6. \A x \in Nat : x < 5 => x \in 0 .. 4
    OBVIOUS
  <2>7. Len(m.body) < 5
    BY <2>1, <2>3
  <2> QED BY <2>4, <2>5, <2>6, <2>7
<1> QED BY <1>1, <1>2, <1>3, <1>4

LEMMA DigitRead ==
  ASSUME NEW n \in 0 .. 4
  PROVE  LengthDigit[n + 1] \in Digits /\ strtol(<<LengthDigit[n + 1]>>) = n
<1>1. PICK d : d = LengthDigit[n + 1]
  OBVIOUS
<1>2. d \in Digits /\ DigitValue[d] = n
  <2>1. CASE n = 0
    BY <1>1, <2>1 DEF LengthDigit, Digits, DigitValue
  <2>2. CASE n = 1
    BY <1>1, <2>2 DEF LengthDigit, Digits, DigitValue
  <2>3. CASE n = 2
    BY <1>1, <2>3 DEF LengthDigit, Digits, DigitValue
  <2>4. CASE n = 3
    BY <1>1, <2>4 DEF LengthDigit, Digits, DigitValue
  <2>5. CASE n = 4
    BY <1>1, <2>5 DEF LengthDigit, Digits, DigitValue
  <2> QED BY <2>1, <2>2, <2>3, <2>4, <2>5
<1>3. <<d>> # << >> /\ Head(<<d>>) = d
  OBVIOUS
<1>4. strtol(<<d>>) = DigitValue[d]
  BY <1>2, <1>3 DEF strtol
<1> QED BY <1>1, <1>2, <1>4

\* One that is no Content-Length is not taken for one when it is cut.
LEMMA OtherName ==
  ASSUME NEW T, NEW s \in Seq(T), s # <<"L">>, NEW max \in Nat \ {0, 1}
  PROVE  Cut(s, max) # <<"L">>
<1> SUFFICES ASSUME Cut(s, max) = <<"L">> PROVE FALSE
  OBVIOUS
<1>1. PICK n : n = Len(s) /\ n \in Nat
  OBVIOUS
<1>2. PICK w : w = IF n < max THEN n ELSE max
  OBVIOUS
<1>3. Len(SubSeq(s, 1, w)) = w
  <2>1. \A j \in 1 .. w : s[j] \in T
    BY <1>1, <1>2
  <2>2. w \in Nat
    BY <1>1, <1>2
  <2> QED BY <2>1, <2>2, SubSeqProperties
<1>4. SubSeq(s, 1, w) = <<"L">>
  BY <1>1, <1>2 DEF Cut
<1>5. w = 1
  BY <1>3, <1>4
<1>6. n = w
  BY <1>1, <1>2, <1>5
<1> QED BY <1>1, <1>4, <1>6, SubSeqFull

LEMMA HeaderParts ==
  ASSUME NEW m \in Messages, NEW i \in 1 .. Count(m)
  PROVE  /\ Name(m, i) \in Seq(NameCh) /\ Name(m, i) # << >>
         /\ Value(m, i) \in Seq(ValueCh) /\ Value(m, i) # << >> /\ Head(Value(m, i)) \notin Spaces
         /\ LengthOf(Cut(Name(m, i), MaxName), Cut(Value(m, i), MaxValue)) = LengthAfter(m, i)
<1>1. PICK hs : hs = m.headers
  OBVIOUS
<1>2. /\ hs \in Seq(Seq(NameChars) \X Seq(ValueChars))
      /\ \A j \in DOMAIN hs : IsHeader(hs[j])
  <2>1. hs \in OtherHeaders
    BY <1>1, RequestParts
  <2> QED BY <2>1, MessagesAssumption
<1>3. PICK n : n = Len(hs) /\ n \in Nat /\ DOMAIN hs = 1 .. n
  <2>1. Len(hs) \in Nat /\ DOMAIN hs = 1 .. Len(hs)
    BY <1>2, LenProperties
  <2> QED BY <2>1
<1>4. /\ MaxName \in Nat \ {0, 1} /\ MaxName \in Nat \ {0}
      /\ MaxValue \in Nat \ {0, 1} /\ MaxValue \in Nat \ {0}
  BY ParserAssumption
<1>5. ASSUME NEW j \in 1 .. n, NEW name, NEW value, name = hs[j][1], value = hs[j][2]
      PROVE  /\ name \in Seq(NameCh) /\ name # << >>
             /\ value \in Seq(ValueCh) /\ value # << >> /\ Head(value) \notin Spaces
             /\ LengthOf(Cut(name, MaxName), Cut(value, MaxValue)) = 0
  <2>1. name \in Seq(NameChars) /\ value \in Seq(ValueChars) /\ IsHeader(hs[j])
    <3>1. j \in 1 .. Len(hs)
      BY <1>3
    <3>2. hs[j] \in Seq(NameChars) \X Seq(ValueChars)
      BY <1>2, <3>1, ElementOfSeq
    <3> QED BY <1>2, <1>3, <1>5, <3>2
  <2>2. NameChars \subseteq NameCh /\ ValueChars \subseteq ValueCh
    BY DEF NameChars, NameCh, ValueChars, ValueCh, Sent
  <2>3. name \in Seq(NameCh) /\ value \in Seq(ValueCh)
    BY <2>1, <2>2, SeqMonotonic
  <2>4. name # << >> /\ name # <<"L">> /\ value # << >> /\ Head(value) \notin Spaces
    BY <1>5, <2>1 DEF IsHeader
  <2>5. Cut(name, MaxName) # <<"L">>
    BY <1>4, <2>3, <2>4, OtherName
  <2> QED BY <2>3, <2>4, <2>5 DEF LengthOf
<1>6. CASE m.body = << >> /\ hs # << >>
  <2>1. AllHeaders(m) = hs /\ Count(m) = n
    BY <1>1, <1>3, <1>6 DEF AllHeaders, Count
  <2>2. LengthAfter(m, i) = 0
    <3>1. Len(m.body) = 0
      BY <1>6
    <3> QED BY <3>1 DEF LengthAfter
  <2>3. i \in 1 .. n /\ Name(m, i) = hs[i][1] /\ Value(m, i) = hs[i][2]
    BY <2>1 DEF Name, Value
  <2> QED BY <1>5, <2>2, <2>3
<1>7. CASE ~(m.body = << >> /\ hs # << >>)
  <2>1. PICK last : last = LengthHeader(m.body)
    OBVIOUS
  <2>2. AllHeaders(m) = Append(hs, last)
    BY <1>1, <1>7, <2>1 DEF AllHeaders
  <2>3. /\ Count(m) = n + 1 /\ AllHeaders(m)[n + 1] = last
        /\ \A j \in 1 .. n : AllHeaders(m)[j] = hs[j]
    BY <1>2, <1>3, <2>2 DEF Count
  <2>4. CASE i \in 1 .. n
    <3>1. LengthAfter(m, i) = 0
      BY <1>3, <2>3, <2>4 DEF LengthAfter
    <3>2. Name(m, i) = hs[i][1] /\ Value(m, i) = hs[i][2]
      BY <2>3, <2>4 DEF Name, Value
    <3> QED BY <1>5, <2>4, <3>1, <3>2
  <2>5. CASE i = n + 1
    <3>1. PICK b : b = Len(m.body) /\ b \in 0 .. 4
      BY RequestParts
    <3>2. PICK d : d = LengthDigit[b + 1]
      OBVIOUS
    <3>3. d \in Digits /\ strtol(<<d>>) = b
      BY <3>1, <3>2, DigitRead
    <3>4. Name(m, i) = <<"L">> /\ Value(m, i) = <<d>>
      BY <2>1, <2>3, <2>5, <3>1, <3>2 DEF Name, Value, LengthHeader
    <3>5. "L" \in NameCh /\ d \in ValueCh /\ d \notin Spaces
      BY <3>3 DEF NameCh, ValueCh, Sent, Letters, Digits, Spaces
    <3>6. /\ <<"L">> \in Seq(NameCh) /\ <<"L">> # << >>
          /\ <<d>> \in Seq(ValueCh) /\ <<d>> # << >> /\ Head(<<d>>) \notin Spaces
      BY <3>5
    <3>7. Cut(<<"L">>, MaxName) = <<"L">> /\ Cut(<<d>>, MaxValue) = <<d>>
      BY <1>4, <3>5, CutOne
    <3>8. LengthAfter(m, i) = b
      BY <2>3, <2>5, <3>1 DEF LengthAfter
    <3> QED BY <3>3, <3>4, <3>6, <3>7, <3>8 DEF LengthOf
  <2>6. i \in 1 .. n \/ i = n + 1
    BY <1>3, <2>3
  <2> QED BY <2>4, <2>5, <2>6
<1> QED BY <1>6, <1>7

LEMMA CountPositive ==
  ASSUME NEW m \in Messages
  PROVE  Count(m) \in Nat /\ Count(m) > 0 /\ DOMAIN AllHeaders(m) = 1 .. Count(m)
<1>1. PICK hs : hs = m.headers
  OBVIOUS
<1>2. hs \in Seq(Seq(NameChars) \X Seq(ValueChars))
  BY <1>1, RequestParts, MessagesAssumption
<1>3. CASE m.body = << >> /\ hs # << >>
  BY <1>1, <1>2, <1>3 DEF AllHeaders, Count
<1>4. CASE ~(m.body = << >> /\ hs # << >>)
  <2>1. AllHeaders(m) = Append(hs, LengthHeader(m.body))
    BY <1>1, <1>4 DEF AllHeaders
  <2>2. Len(hs) \in Nat
    BY <1>2
  <2>3. Len(AllHeaders(m)) = Len(hs) + 1 /\ DOMAIN AllHeaders(m) = 1 .. Len(hs) + 1
    BY <1>2, <2>1
  <2> QED BY <2>2, <2>3 DEF Count
<1> QED BY <1>3, <1>4

--------------------------------------------------------------------------------
(* The text of a request, from each of its parts on. *)

LineSeq(m) == [i \in DOMAIN AllHeaders(m) |-> HeaderLine(AllHeaders(m)[i], m.eol)]

IsBlock(m, g) ==
  /\ g \in [0 .. Count(m) -> Seq(Sent)]
  /\ g[Count(m)] = << >> /\ FlattenSeq(LineSeq(m)) = g[0]
  /\ \A i \in 1 .. Count(m) : g[i - 1] = LineSeq(m)[i] \o g[i]

Block(m) == CHOOSE g : IsBlock(m, g)

\* After the i-th header.
Lines(m, i) == Block(m)[i] \o (m.eol \o m.body)

AfterValue(m, i)  == m.eol \o Lines(m, i)
AfterName(m, i)   == <<":", " ">> \o (Value(m, i) \o AfterValue(m, i))
AfterProto(m)     == m.eol \o Lines(m, 0)
AfterFragment(m)  == <<" ", "a", "/", "1">> \o AfterProto(m)
AfterQuery(m)     == m.fragment \o AfterFragment(m)
AfterPath(m)      == (IF m.query = << >> THEN << >> ELSE <<"?">> \o m.query) \o AfterQuery(m)

LEMMA PiecesSent ==
  ASSUME NEW m \in Messages
  PROVE  /\ m.path \in Seq(Sent) /\ m.query \in Seq(Sent) /\ m.fragment \in Seq(Sent)
         /\ m.eol \in Seq(Sent) /\ m.body \in Seq(Sent)
         /\ \A i \in 1 .. Count(m) : Name(m, i) \in Seq(Sent) /\ Value(m, i) \in Seq(Sent)
<1>1. /\ PathCh \subseteq Sent /\ QueryCh \subseteq Sent
      /\ NameCh \subseteq Sent /\ ValueCh \subseteq Sent
  BY DEF PathCh, QueryCh, NameCh, ValueCh
<1>2. m.path \in Seq(PathCh) /\ m.query \in Seq(QueryCh) /\ m.body \in Seq(Sent)
  BY RequestParts
<1>3. m.path \in Seq(Sent) /\ m.query \in Seq(Sent)
  BY <1>1, <1>2, SeqMonotonic
<1>4. "#" \in Sent /\ "a" \in Sent /\ "\n" \in Sent /\ "\r" \in Sent
  BY DEF Sent, Letters, Spaces
<1>5. /\ << >> \in Seq(Sent) /\ <<"#", "a">> \in Seq(Sent)
      /\ <<"\n">> \in Seq(Sent) /\ <<"\r", "\n">> \in Seq(Sent)
  <2>1. /\ \A x \in Sent : <<x>> \in Seq(Sent)
        /\ \A x, y \in Sent : <<x, y>> \in Seq(Sent)
    OBVIOUS
  <2>2. << >> \in Seq(Sent)
    OBVIOUS
  <2> QED BY <1>4, <2>1, <2>2, Zenon
<1>6. m.fragment \in Seq(Sent) /\ m.eol \in Seq(Sent)
  <2>1. m.fragment = << >> \/ m.fragment = <<"#", "a">>
    BY RequestParts
  <2>2. m.eol = <<"\n">> \/ m.eol = <<"\r", "\n">>
    BY RequestParts
  <2> QED BY <1>5, <2>1, <2>2, Zenon
<1>7. ASSUME NEW i \in 1 .. Count(m) PROVE Name(m, i) \in Seq(Sent) /\ Value(m, i) \in Seq(Sent)
  <2>1. Name(m, i) \in Seq(NameCh) /\ Value(m, i) \in Seq(ValueCh)
    BY HeaderParts
  <2> QED BY <1>1, <2>1, SeqMonotonic
<1> QED BY <1>2, <1>3, <1>6, <1>7

LEMMA LiteralsSent ==
  /\ <<":", " ">> \in Seq(Sent) /\ <<"a", "a", " ", "/">> \in Seq(Sent)
  /\ <<" ", "a", "/", "1">> \in Seq(Sent) /\ <<"?">> \in Seq(Sent)
<1>1. /\ ":" \in Sent /\ " " \in Sent /\ "a" \in Sent
      /\ "/" \in Sent /\ "1" \in Sent /\ "?" \in Sent
  BY DEF Sent, Letters, Spaces, Digits
<1>2. /\ \A x \in Sent : <<x>> \in Seq(Sent)
      /\ \A x, y \in Sent : <<x, y>> \in Seq(Sent)
      /\ \A x, y, z, u \in Sent : <<x, y, z, u>> \in Seq(Sent)
  OBVIOUS
<1> QED BY <1>1, <1>2, Zenon

Texts == Seq(Sent)

LEMMA CatFacts ==
  /\ \A a, b \in Texts : Cat(a, b) \in Texts
  /\ \A a, b, c \in Texts : Cat(Cat(a, b), c) = Cat(a, Cat(b, c))
<1>1. ASSUME NEW a \in Seq(Sent), NEW b \in Seq(Sent) PROVE a \o b \in Seq(Sent)
  BY ConcatProperties
<1>2. ASSUME NEW a \in Seq(Sent), NEW b \in Seq(Sent), NEW c \in Seq(Sent)
      PROVE  (a \o b) \o c = a \o (b \o c)
  BY ConcatAssociative
<1> QED BY <1>1, <1>2 DEF Cat, Texts

LEMMA BlockIs ==
  ASSUME NEW m \in Messages
  PROVE  IsBlock(m, Block(m))
<1>1. PICK k : k = Count(m) /\ k \in Nat /\ DOMAIN AllHeaders(m) = 1 .. k
  BY CountPositive
<1>2. PICK ss : ss = LineSeq(m)
  OBVIOUS
<1>3. ASSUME NEW i \in 1 .. k PROVE ss[i] \in Seq(Sent)
  <2>1. ss[i] = HeaderLine(AllHeaders(m)[i], m.eol)
    BY <1>1, <1>2 DEF LineSeq
  <2>2. ss[i] = ((Name(m, i) \o <<":", " ">>) \o Value(m, i)) \o m.eol
    BY <2>1 DEF HeaderLine, Name, Value
  <2>3. Name(m, i) \in Seq(Sent) /\ Value(m, i) \in Seq(Sent) /\ m.eol \in Seq(Sent)
    BY <1>1, PiecesSent
  <2>4. PICK n, c, v, e : n = Name(m, i) /\ c = <<":", " ">> /\ v = Value(m, i) /\ e = m.eol
    OBVIOUS
  <2>5. n \in Texts /\ c \in Texts /\ v \in Texts /\ e \in Texts
    BY <2>3, <2>4, LiteralsSent DEF Texts
  <2>6. PICK x, y : x = Cat(n, c) /\ y = Cat(x, v)
    OBVIOUS
  <2>7. x \in Texts
    BY <2>5, <2>6, CatFacts
  <2>8. y \in Texts
    BY <2>5, <2>6, <2>7, CatFacts
  <2>9. Cat(y, e) \in Texts
    BY <2>5, <2>8, CatFacts
  <2>10. ss[i] = Cat(y, e)
    BY <2>2, <2>4, <2>6 DEF Cat
  <2> QED BY <2>9, <2>10 DEF Texts
<1>4. ss \in Seq(Seq(Sent)) /\ Len(ss) = k
  <2>1. ss = [i \in 1 .. k |-> ss[i]]
    BY <1>1, <1>2 DEF LineSeq
  <2>2. DOMAIN ss = 1 .. k
    BY <2>1
  <2>3. ss \in Seq(Seq(Sent))
    BY <1>1, <1>3, <2>1, ListOf
  <2> QED BY <1>1, <2>2, <2>3
<1>5. \E g \in [0 .. Len(ss) -> Seq(Sent)] :
        /\ g[Len(ss)] = << >> /\ FlattenSeq(ss) = g[0]
        /\ \A i \in 1 .. Len(ss) : g[i - 1] = ss[i] \o g[i]
  BY <1>4, FlattenedTails
<1>6. PICK g \in [0 .. Len(ss) -> Seq(Sent)] :
        /\ g[Len(ss)] = << >> /\ FlattenSeq(ss) = g[0]
        /\ \A i \in 1 .. Len(ss) : g[i - 1] = ss[i] \o g[i]
  BY <1>5
<1>7. Len(ss) = Count(m) /\ ss = LineSeq(m)
  BY <1>1, <1>2, <1>4
<1>8. IsBlock(m, g)
  BY <1>6, <1>7, Zenon DEF IsBlock
<1> QED BY <1>8 DEF Block

LEMMA LinesAre ==
  ASSUME NEW m \in Messages
  PROVE  /\ Lines(m, Count(m)) = m.eol \o m.body
         /\ \A i \in 0 .. Count(m) : Lines(m, i) \in Seq(Sent)
         /\ \A i \in 1 .. Count(m) :
              /\ Lines(m, i - 1) = Name(m, i) \o AfterName(m, i)
              /\ AfterName(m, i) \in Seq(Sent) /\ AfterValue(m, i) \in Seq(Sent)
<1>1. PICK k : k = Count(m) /\ k \in Nat /\ DOMAIN AllHeaders(m) = 1 .. k
  BY CountPositive
<1>2. PICK g, t : g = Block(m) /\ t = m.eol \o m.body
  OBVIOUS
<1>3. /\ g \in [0 .. k -> Seq(Sent)] /\ g[k] = << >>
      /\ \A i \in 1 .. k : g[i - 1] = LineSeq(m)[i] \o g[i]
  BY <1>1, <1>2, BlockIs DEF IsBlock
<1>4. t \in Seq(Sent) /\ m.eol \in Seq(Sent)
  BY <1>2, PiecesSent, ConcatProperties
<1>5. \A i \in 0 .. k : Lines(m, i) = g[i] \o t
  BY <1>2 DEF Lines
<1>6. ASSUME NEW i \in 0 .. k PROVE Lines(m, i) \in Seq(Sent)
  <2>1. g[i] \in Seq(Sent)
    BY <1>3
  <2> QED BY <1>4, <1>5, <2>1, ConcatProperties
<1>7. Lines(m, k) = t
  <2>1. << >> \o t = t
    BY <1>4, ConcatEmptySeq
  <2>2. k \in 0 .. k
    BY <1>1
  <2>3. Lines(m, k) = << >> \o t
    BY <1>3, <1>5, <2>2, Zenon
  <2> QED BY <2>1, <2>3
<1>8. ASSUME NEW i \in 1 .. k
      PROVE  /\ Lines(m, i - 1) = Name(m, i) \o AfterName(m, i)
             /\ AfterName(m, i) \in Seq(Sent) /\ AfterValue(m, i) \in Seq(Sent)
  <2>1. PICK n, c, v, e, r, l :
          n = Name(m, i) /\ c = <<":", " ">> /\ v = Value(m, i) /\ e = m.eol /\ r = g[i]
          /\ l = r \o t
    OBVIOUS
  <2>2. n \in Seq(Sent) /\ c \in Seq(Sent) /\ v \in Seq(Sent) /\ e \in Seq(Sent)
    BY <1>1, <2>1, PiecesSent, LiteralsSent
  <2>3. r \in Seq(Sent) /\ i \in 0 .. k /\ i - 1 \in 0 .. k
    <3>1. i \in 0 .. k /\ i - 1 \in 0 .. k
      BY <1>1
    <3> QED BY <1>3, <2>1, <3>1
  <2>4. Lines(m, i) = l /\ l \in Seq(Sent)
    BY <1>5, <1>6, <2>1, <2>3
  <2>5. LineSeq(m)[i] = ((n \o c) \o v) \o e
    BY <1>1, <2>1 DEF LineSeq, HeaderLine, Name, Value
  <2>6. Lines(m, i - 1) = ((((n \o c) \o v) \o e) \o r) \o t
    BY <1>3, <1>5, <2>1, <2>3, <2>5
  <2>7. /\ n \in Texts /\ c \in Texts /\ v \in Texts /\ e \in Texts /\ r \in Texts
        /\ t \in Texts
    BY <1>4, <2>2, <2>3 DEF Texts
  <2>8. PICK x1, x2, x3, x4 :
          x1 = Cat(n, c) /\ x2 = Cat(x1, v) /\ x3 = Cat(x2, e) /\ x4 = Cat(x3, r)
    OBVIOUS
  <2>9. Lines(m, i - 1) = Cat(x4, t) /\ l = Cat(r, t)
    BY <2>1, <2>6, <2>8 DEF Cat
  <2>10. PICK y1, y2, y3 : y1 = Cat(e, l) /\ y2 = Cat(v, y1) /\ y3 = Cat(c, y2)
    OBVIOUS
  <2>11. l \in Texts
    BY <2>4 DEF Texts
  <2>12. x1 \in Texts /\ y1 \in Texts
    BY <2>7, <2>8, <2>10, <2>11, CatFacts
  <2>13. x2 \in Texts /\ y2 \in Texts
    BY <2>7, <2>8, <2>10, <2>12, CatFacts
  <2>14. x3 \in Texts /\ y3 \in Texts
    BY <2>7, <2>8, <2>10, <2>13, CatFacts
  <2>15. Lines(m, i - 1) = Cat(x3, l)
    BY <2>7, <2>8, <2>9, <2>14, CatFacts
  <2>16. Lines(m, i - 1) = Cat(x2, y1)
    BY <2>7, <2>8, <2>10, <2>11, <2>13, <2>15, CatFacts
  <2>17. Lines(m, i - 1) = Cat(x1, y2)
    BY <2>7, <2>8, <2>10, <2>12, <2>16, CatFacts
  <2>18. Lines(m, i - 1) = Cat(n, y3)
    BY <2>7, <2>8, <2>10, <2>13, <2>17, CatFacts
  <2>19. AfterValue(m, i) = y1 /\ AfterName(m, i) = y3
    BY <2>1, <2>4, <2>10 DEF AfterName, AfterValue, Cat
  <2> QED BY <2>1, <2>12, <2>14, <2>18, <2>19 DEF Texts, Cat
<1> QED BY <1>1, <1>2, <1>6, <1>7, <1>8

LEMMA TextIs ==
  ASSUME NEW m \in Messages
  PROVE  /\ Text(m) = <<"a", "a", " ", "/">> \o (m.path \o AfterPath(m))
         /\ AfterPath(m) \in Seq(Sent) /\ AfterQuery(m) \in Seq(Sent)
         /\ AfterFragment(m) \in Seq(Sent) /\ AfterProto(m) \in Seq(Sent)
         /\ m.path \o AfterPath(m) \in Seq(Sent)
<1>1. PICK a, p, q, f, s, e, h, b, t :
        /\ a = <<"a", "a", " ", "/">> /\ p = m.path
        /\ q = (IF m.query = << >> THEN << >> ELSE <<"?">> \o m.query)
        /\ f = m.fragment /\ s = <<" ", "a", "/", "1">> /\ e = m.eol
        /\ h = FlattenSeq(LineSeq(m)) /\ b = m.body /\ t = Lines(m, 0)
  OBVIOUS
<1>2. /\ a \in Seq(Sent) /\ p \in Seq(Sent) /\ f \in Seq(Sent) /\ s \in Seq(Sent)
      /\ e \in Seq(Sent) /\ b \in Seq(Sent)
  BY <1>1, PiecesSent, LiteralsSent
<1>3. q \in Seq(Sent)
  <2>1. << >> \in Seq(Sent)
    OBVIOUS
  <2>2. <<"?">> \o m.query \in Seq(Sent)
    BY PiecesSent, LiteralsSent, ConcatProperties
  <2> QED BY <1>1, <2>1, <2>2
<1>4. h \in Seq(Sent) /\ t = h \o (e \o b) /\ t \in Seq(Sent)
  <2>1. Count(m) \in Nat
    BY CountPositive
  <2>2. 0 \in 0 .. Count(m)
    BY <2>1
  <2>3. h = Block(m)[0] /\ h \in Seq(Sent)
    BY <1>1, <2>2, BlockIs DEF IsBlock
  <2>4. t \in Seq(Sent)
    BY <1>1, <2>2, LinesAre
  <2> QED BY <1>1, <2>3, <2>4 DEF Lines
<1>5. Text(m) = (((((((a \o p) \o q) \o f) \o s) \o e) \o h) \o e) \o b
  BY <1>1 DEF Text, LineSeq
<1>6. /\ a \in Texts /\ p \in Texts /\ q \in Texts /\ f \in Texts /\ s \in Texts
      /\ e \in Texts /\ h \in Texts /\ b \in Texts /\ t \in Texts
  BY <1>2, <1>3, <1>4 DEF Texts
<1>7. PICK x1, x2, x3, x4, x5, x6, x7 :
        /\ x1 = Cat(a, p) /\ x2 = Cat(x1, q) /\ x3 = Cat(x2, f) /\ x4 = Cat(x3, s)
        /\ x5 = Cat(x4, e) /\ x6 = Cat(x5, h) /\ x7 = Cat(x6, e)
  OBVIOUS
<1>8. Text(m) = Cat(x7, b)
  BY <1>5, <1>7 DEF Cat
<1>9. PICK y1, y2, y3, y4, y5, y6 :
        /\ y1 = Cat(e, b) /\ t = Cat(h, y1) /\ y2 = Cat(e, t) /\ y3 = Cat(s, y2)
        /\ y4 = Cat(f, y3) /\ y5 = Cat(q, y4) /\ y6 = Cat(p, y5)
  BY <1>4 DEF Cat
<1>10. x1 \in Texts /\ y1 \in Texts /\ y2 \in Texts
  BY <1>6, <1>7, <1>9, CatFacts
<1>11. x2 \in Texts /\ y3 \in Texts
  BY <1>6, <1>7, <1>9, <1>10, CatFacts
<1>12. x3 \in Texts /\ y4 \in Texts
  BY <1>6, <1>7, <1>9, <1>11, CatFacts
<1>13. x4 \in Texts /\ y5 \in Texts
  BY <1>6, <1>7, <1>9, <1>12, CatFacts
<1>14. x5 \in Texts /\ y6 \in Texts
  BY <1>6, <1>7, <1>9, <1>13, CatFacts
<1>15. x6 \in Texts
  BY <1>6, <1>7, <1>14, CatFacts
<1>16. Text(m) = Cat(x6, y1)
  BY <1>6, <1>7, <1>8, <1>9, <1>15, CatFacts
<1>17. Text(m) = Cat(x5, t)
  BY <1>6, <1>7, <1>9, <1>10, <1>14, <1>16, CatFacts
<1>18. Text(m) = Cat(x4, y2)
  BY <1>6, <1>7, <1>9, <1>13, <1>17, CatFacts
<1>19. Text(m) = Cat(x3, y3)
  BY <1>6, <1>7, <1>9, <1>10, <1>12, <1>18, CatFacts
<1>20. Text(m) = Cat(x2, y4)
  BY <1>6, <1>7, <1>9, <1>11, <1>19, CatFacts
<1>21. Text(m) = Cat(x1, y5)
  BY <1>6, <1>7, <1>9, <1>10, <1>12, <1>20, CatFacts
<1>22. Text(m) = Cat(a, y6)
  BY <1>6, <1>7, <1>9, <1>13, <1>21, CatFacts
<1>23. /\ AfterProto(m) = y2 /\ AfterFragment(m) = y3 /\ AfterQuery(m) = y4
       /\ AfterPath(m) = y5
  BY <1>1, <1>9 DEF AfterProto, AfterFragment, AfterQuery, AfterPath, Cat
<1> QED BY <1>1, <1>9, <1>10, <1>11, <1>12, <1>13, <1>14, <1>22, <1>23 DEF Cat, Texts
--------------------------------------------------------------------------------
(* What was read of a request, at each point of its text. *)

Ctx(state, path, query, len, headers, name, value, body) ==
  [req_state |-> state, path |-> path, query |-> query, content_length |-> len,
   headers |-> headers, header_name |-> name, header_value |-> value, body |-> body]

PathRead(m)  == Cut(<<"/">> \o m.path, MaxPath)
QueryRead(m) == Cut(m.query, MaxQuery)
Given(m, i)  == [j \in 1 .. i |-> <<Cut(Name(m, j), MaxName), Cut(Value(m, j), MaxValue)>>]

\* In the request line, and after i headers.
InLine(state, path, query) == hc = Ctx(state, path, query, 0, << >>, << >>, << >>, << >>)
InHeaders(state, m, i, name, value) ==
  hc = Ctx(state, PathRead(m), QueryRead(m), LengthAfter(m, i), Given(m, i), name, value, << >>)
InBody(state, m, body) ==
  hc = Ctx(state, PathRead(m), QueryRead(m), Len(m.body), Given(m, Count(m)), << >>, << >>, body)

OnMethod(m) ==
  \E state, s :
    /\ \/ state = "NEW" /\ s = <<"a", "a", " ", "/">>
       \/ state = "METHOD" /\ s \in {<<"a", " ", "/">>, <<" ", "/">>}
       \/ state = "METHOD_READY" /\ s = <<"/">>
    /\ InLine(state, << >>, << >>)
    /\ input = s \o (m.path \o AfterPath(m))

OnPath(m) ==
  \E d, r \in Seq(PathCh) :
    /\ Split(m.path, d, r)
    /\ InLine("PATH", Cut(<<"/">> \o d, MaxPath), << >>)
    /\ input = r \o AfterPath(m)

OnQuery(m) ==
  \E d, r \in Seq(QueryCh) :
    /\ Split(m.query, d, r)
    /\ InLine("QUERY", PathRead(m), Cut(d, MaxQuery))
    /\ input = r \o AfterQuery(m)

OnFragment(m) ==
  /\ InLine("FRAGMENT", PathRead(m), QueryRead(m))
  /\ \E s \in {<<"a">>, << >>} : input = s \o AfterFragment(m)

OnProto(m) ==
  \E state, s :
    /\ \/ state = "FRAGMENT_READY" /\ s = <<"a", "/", "1">>
       \/ state = "PROTO" /\ s \in {<<"/", "1">>, <<"1">>, << >>}
    /\ InLine(state, PathRead(m), QueryRead(m))
    /\ input = s \o AfterProto(m)

OnProtoReady(m) ==
  /\ InLine("PROTO_READY", PathRead(m), QueryRead(m))
  /\ \E s \in {<<"\n">>, << >>} : input = s \o Lines(m, 0)

OnName(m) ==
  \E i \in 1 .. Count(m), d, r \in Seq(NameCh) :
    /\ Split(Name(m, i), d, r) /\ d # << >>
    /\ InHeaders("HEADER_NAME", m, i - 1, Cut(d, MaxName), << >>)
    /\ input = r \o AfterName(m, i)

OnNameReady(m) ==
  \E i \in 1 .. Count(m), s \in {<<" ">>, << >>} :
    /\ InHeaders("HEADER_NAME_READY", m, i - 1, Cut(Name(m, i), MaxName), << >>)
    /\ input = s \o (Value(m, i) \o AfterValue(m, i))

OnValue(m) ==
  \E i \in 1 .. Count(m), d, r \in Seq(ValueCh) :
    /\ Split(Value(m, i), d, r) /\ d # << >>
    /\ InHeaders("HEADER_VALUE", m, i - 1, Cut(Name(m, i), MaxName), Cut(d, MaxValue))
    /\ input = r \o AfterValue(m, i)

OnValueReady(m) ==
  \E i \in 1 .. Count(m) :
    /\ InHeaders("HEADER_VALUE_READY", m, i, << >>, << >>)
    /\ input = <<"\n">> \o Lines(m, i)

OnLine(m) ==
  \E i \in 1 .. Count(m) :
    /\ InHeaders("HEADER_VALUE_READY_NL", m, i, << >>, << >>)
    /\ input = Lines(m, i) \/ (i = Count(m) /\ input = <<"\n">> \o m.body)

OnHeaderReady(m) ==
  /\ Len(m.body) \notin {0, 1}
  /\ InBody("HEADER_READY", m, << >>)
  /\ input = m.body

OnBody(m) ==
  \E d, r \in Seq(Sent) :
    /\ Split(m.body, d, r) /\ r # << >> /\ Len(d) <= MaxBody
    /\ InBody("BODY", m, d)
    /\ input = r

Reading(m) ==
  \/ OnMethod(m) \/ OnPath(m) \/ OnQuery(m) \/ OnFragment(m) \/ OnProto(m)
  \/ OnProtoReady(m) \/ OnName(m) \/ OnNameReady(m) \/ OnValue(m) \/ OnValueReady(m)
  \/ OnLine(m) \/ OnHeaderReady(m) \/ OnBody(m)

IsRead(m) ==
  /\ hc.req_state \in {"HEADER_READY", "BODY_READY"}
  /\ hc.req_state = "HEADER_READY" => hc.content_length = 0
  /\ Len(m.body) <= MaxBody
  /\ delivered = <<Meaning(m)>> /\ rejected = FALSE
  /\ input = << >>

IsTooLong(m) ==
  /\ hc.req_state = "INVALID"
  /\ Len(m.body) > MaxBody
  /\ delivered = << >> /\ rejected = TRUE

Silent == delivered = << >> /\ rejected = FALSE

Stage(m) == (Silent /\ Reading(m)) \/ IsRead(m) \/ IsTooLong(m)

\* Of a request with more headers only that the context is in use.
InUse == "req_state" \in DOMAIN hc /\ hc.req_state # "IDLE"

MessageIInv ==
  \/ message = NoMessage /\ hc = EmptyContext /\ Silent /\ input = << >>
  \/ message \in Messages /\ InUse /\ (CanCount(message) => Stage(message))

LEMMA CharOf ==
  ASSUME NEW c, ParseChar(c)
  PROVE  /\ hc.req_state = "NEW" => NewChar(c)
         /\ hc.req_state = "INVALID" => InvalidChar(c)
         /\ hc.req_state = "METHOD" => MethodChar(c)
         /\ hc.req_state = "METHOD_READY" => MethodReadyChar(c)
         /\ hc.req_state = "PATH" => PathChar(c)
         /\ hc.req_state = "QUERY" => QueryChar(c)
         /\ hc.req_state = "FRAGMENT" => FragmentChar(c)
         /\ hc.req_state = "FRAGMENT_READY" => FragmentReadyChar(c)
         /\ hc.req_state = "PROTO" => ProtoChar(c)
         /\ hc.req_state = "PROTO_READY" => ProtoReadyChar(c)
         /\ hc.req_state = "HEADER_NAME" => HeaderNameChar(c)
         /\ hc.req_state = "HEADER_NAME_READY" => HeaderNameReadyChar(c)
         /\ hc.req_state = "HEADER_VALUE" => HeaderValueChar(c)
         /\ hc.req_state = "HEADER_VALUE_READY" => HeaderValueReadyChar(c)
         /\ hc.req_state = "HEADER_VALUE_READY_NL" => HeaderValueReadyNlChar(c)
         /\ hc.req_state = "HEADER_READY" => HeaderReadyChar(c)
         /\ hc.req_state = "BODY" => BodyChar(c)
         /\ hc.req_state # "BODY_READY"
<1>1. /\ NewChar(c) => hc.req_state = "NEW"
      /\ InvalidChar(c) => hc.req_state = "INVALID"
      /\ MethodChar(c) => hc.req_state = "METHOD"
      /\ MethodReadyChar(c) => hc.req_state = "METHOD_READY"
      /\ PathChar(c) => hc.req_state = "PATH"
      /\ QueryChar(c) => hc.req_state = "QUERY"
  BY DEF NewChar, InvalidChar, MethodChar, MethodReadyChar, PathChar, QueryChar
<1>2. /\ FragmentChar(c) => hc.req_state = "FRAGMENT"
      /\ FragmentReadyChar(c) => hc.req_state = "FRAGMENT_READY"
      /\ ProtoChar(c) => hc.req_state = "PROTO"
      /\ ProtoReadyChar(c) => hc.req_state = "PROTO_READY"
      /\ HeaderNameChar(c) => hc.req_state = "HEADER_NAME"
      /\ HeaderNameReadyChar(c) => hc.req_state = "HEADER_NAME_READY"
  BY DEF FragmentChar, FragmentReadyChar, ProtoChar, ProtoReadyChar, HeaderNameChar,
         HeaderNameReadyChar
<1>3. /\ HeaderValueChar(c) => hc.req_state = "HEADER_VALUE"
      /\ HeaderValueReadyChar(c) => hc.req_state = "HEADER_VALUE_READY"
      /\ HeaderValueReadyNlChar(c) => hc.req_state = "HEADER_VALUE_READY_NL"
      /\ HeaderReadyChar(c) => hc.req_state = "HEADER_READY"
      /\ BodyChar(c) => hc.req_state = "BODY"
  BY DEF HeaderValueChar, HeaderValueReadyChar, HeaderValueReadyNlChar, HeaderReadyChar,
         BodyChar
<1> QED BY <1>1, <1>2, <1>3 DEF ParseChar

\* What the assignments of the parser make of a context.
LEMMA CtxHas ==
  ASSUME NEW state, NEW path, NEW query, NEW len, NEW headers, NEW name, NEW value, NEW body,
         NEW h, h = Ctx(state, path, query, len, headers, name, value, body)
  PROVE  /\ h.req_state = state /\ h.path = path /\ h.query = query
         /\ h.content_length = len /\ h.headers = headers
         /\ h.header_name = name /\ h.header_value = value /\ h.body = body
BY DEF Ctx

LEMMA CtxState ==
  ASSUME NEW state, NEW path, NEW query, NEW len, NEW headers, NEW name, NEW value, NEW body,
         NEW h, h = Ctx(state, path, query, len, headers, name, value, body), NEW x
  PROVE  [h EXCEPT !.req_state = x] = Ctx(x, path, query, len, headers, name, value, body)
BY DEF Ctx

LEMMA CtxPath ==
  ASSUME NEW state, NEW path, NEW query, NEW len, NEW headers, NEW name, NEW value, NEW body,
         NEW h, h = Ctx(state, path, query, len, headers, name, value, body), NEW x
  PROVE  [h EXCEPT !.path = x] = Ctx(state, x, query, len, headers, name, value, body)
BY DEF Ctx

LEMMA CtxQuery ==
  ASSUME NEW state, NEW path, NEW query, NEW len, NEW headers, NEW name, NEW value, NEW body,
         NEW h, h = Ctx(state, path, query, len, headers, name, value, body), NEW x
  PROVE  [h EXCEPT !.query = x] = Ctx(state, path, x, len, headers, name, value, body)
BY DEF Ctx

LEMMA CtxLen ==
  ASSUME NEW state, NEW path, NEW query, NEW len, NEW headers, NEW name, NEW value, NEW body,
         NEW h, h = Ctx(state, path, query, len, headers, name, value, body), NEW x
  PROVE  [h EXCEPT !.content_length = x] = Ctx(state, path, query, x, headers, name, value, body)
BY DEF Ctx

LEMMA CtxHeaders ==
  ASSUME NEW state, NEW path, NEW query, NEW len, NEW headers, NEW name, NEW value, NEW body,
         NEW h, h = Ctx(state, path, query, len, headers, name, value, body), NEW x
  PROVE  [h EXCEPT !.headers = x] = Ctx(state, path, query, len, x, name, value, body)
BY DEF Ctx

LEMMA CtxName ==
  ASSUME NEW state, NEW path, NEW query, NEW len, NEW headers, NEW name, NEW value, NEW body,
         NEW h, h = Ctx(state, path, query, len, headers, name, value, body), NEW x
  PROVE  [h EXCEPT !.header_name = x] = Ctx(state, path, query, len, headers, x, value, body)
BY DEF Ctx

LEMMA CtxValue ==
  ASSUME NEW state, NEW path, NEW query, NEW len, NEW headers, NEW name, NEW value, NEW body,
         NEW h, h = Ctx(state, path, query, len, headers, name, value, body), NEW x
  PROVE  [h EXCEPT !.header_value = x] = Ctx(state, path, query, len, headers, name, x, body)
BY DEF Ctx

LEMMA CtxBody ==
  ASSUME NEW state, NEW path, NEW query, NEW len, NEW headers, NEW name, NEW value, NEW body,
         NEW h, h = Ctx(state, path, query, len, headers, name, value, body), NEW x
  PROVE  [h EXCEPT !.body = x] = Ctx(state, path, query, len, headers, name, value, x)
BY DEF Ctx

LEMMA CtxReady ==
  ASSUME NEW state, NEW path, NEW query, NEW len, NEW headers, NEW name, NEW value, NEW body,
         NEW h, h = Ctx(state, path, query, len, headers, name, value, body)
  PROVE  handle_header_value_ready(h)
           = Ctx(state, path, query, IF name = <<"L">> THEN strtol(value) ELSE len,
                 AddHeader(headers, <<name, value>>), << >>, << >>, body)
<1>1. PICK n, hs : /\ n = (IF name = <<"L">> THEN strtol(value) ELSE len)
                   /\ hs = AddHeader(headers, <<name, value>>)
  OBVIOUS
<1>2. /\ n = (IF h.header_name = <<"L">> THEN strtol(h.header_value) ELSE h.content_length)
      /\ hs = AddHeader(h.headers, <<h.header_name, h.header_value>>)
  <2>1. /\ h.header_name = name /\ h.header_value = value /\ h.content_length = len
        /\ h.headers = headers
    BY CtxHas
  <2> QED BY <1>1, <2>1
<1>3. PICK h1 : h1 = [h EXCEPT !.content_length = n]
  OBVIOUS
<1>4. PICK h2 : h2 = [h1 EXCEPT !.headers = hs]
  OBVIOUS
<1>5. PICK h3 : h3 = [h2 EXCEPT !.header_name = << >>]
  OBVIOUS
<1>6. PICK h4 : h4 = [h3 EXCEPT !.header_value = << >>]
  OBVIOUS
<1>7. handle_header_value_ready(h) = h4
  <2>1. h1.headers = h.headers /\ h1.header_name = h.header_name /\ h1.header_value = h.header_value
    <3>1. h1 = Ctx(state, path, query, n, headers, name, value, body)
      BY <1>3, CtxLen
    <3>2. h1.headers = headers /\ h1.header_name = name /\ h1.header_value = value
      BY <3>1, CtxHas
    <3> QED BY <3>2, CtxHas
  <2> QED BY <1>2, <1>3, <1>4, <1>5, <1>6 DEF handle_header_value_ready
<1>8. h1 = Ctx(state, path, query, n, headers, name, value, body)
  BY <1>3, CtxLen
<1>9. h2 = Ctx(state, path, query, n, hs, name, value, body)
  BY <1>4, <1>8, CtxHeaders
<1>10. h3 = Ctx(state, path, query, n, hs, << >>, value, body)
  BY <1>5, <1>9, CtxName
<1>11. h4 = Ctx(state, path, query, n, hs, << >>, << >>, body)
  BY <1>6, <1>10, CtxValue
<1> QED BY <1>1, <1>7, <1>11

LEMMA NoneIn == ASSUME NEW T PROVE << >> \in Seq(T)
OBVIOUS

\* A sequence followed by one that is not empty is not empty.
LEMMA FollowedBy ==
  ASSUME NEW T, NEW s \in Seq(T), NEW rest \in Seq(T), s # << >> \/ rest # << >>
  PROVE  s \o rest # << >>
<1>1. Len(s \o rest) = Len(s) + Len(rest) /\ Len(s) \in Nat /\ Len(rest) \in Nat
  BY ConcatProperties
<1>2. Len(s) # 0 \/ Len(rest) # 0
  BY EmptySeq
<1> QED BY <1>1, <1>2


HeadIs(s, x, rest) == Head(s) = x /\ Tail(s) = rest

LEMMA Heads ==
  /\ Head(<<"a", "a", " ", "/">>) = "a" /\ Tail(<<"a", "a", " ", "/">>) = <<"a", " ", "/">>
  /\ Head(<<"a", " ", "/">>) = "a" /\ Tail(<<"a", " ", "/">>) = <<" ", "/">>
  /\ Head(<<" ", "a", "/", "1">>) = " " /\ Tail(<<" ", "a", "/", "1">>) = <<"a", "/", "1">>
  /\ Head(<<"a", "/", "1">>) = "a" /\ Tail(<<"a", "/", "1">>) = <<"/", "1">>
  /\ Head(<<" ", "/">>) = " " /\ Tail(<<" ", "/">>) = <<"/">>
  /\ Head(<<"/", "1">>) = "/" /\ Tail(<<"/", "1">>) = <<"1">>
  /\ Head(<<":", " ">>) = ":" /\ Tail(<<":", " ">>) = <<" ">>
  /\ Head(<<"#", "a">>) = "#" /\ Tail(<<"#", "a">>) = <<"a">>
  /\ Head(<<"\r", "\n">>) = "\r" /\ Tail(<<"\r", "\n">>) = <<"\n">>
  /\ \A x : Head(<<x>>) = x /\ Tail(<<x>>) = << >>
<1>1. \A x : HeadIs(<<x>>, x, << >>)
  BY DEF HeadIs
<1>2. \A x, y : HeadIs(<<x, y>>, x, <<y>>)
  BY DEF HeadIs
<1>3. \A x, y, z : HeadIs(<<x, y, z>>, x, <<y, z>>)
  BY DEF HeadIs
<1>4. \A x, y, z, u : HeadIs(<<x, y, z, u>>, x, <<y, z, u>>)
  BY DEF HeadIs
<1>5. HeadIs(<<"a", "a", " ", "/">>, "a", <<"a", " ", "/">>)
  BY <1>4, Zenon
<1>6. HeadIs(<<"a", " ", "/">>, "a", <<" ", "/">>)
  BY <1>3, Zenon
<1>7. HeadIs(<<" ", "a", "/", "1">>, " ", <<"a", "/", "1">>)
  BY <1>4, Zenon
<1>8. HeadIs(<<"a", "/", "1">>, "a", <<"/", "1">>)
  BY <1>3, Zenon
<1>9. HeadIs(<<" ", "/">>, " ", <<"/">>)
  BY <1>2, Zenon
<1>10. HeadIs(<<"/", "1">>, "/", <<"1">>)
  BY <1>2, Zenon
<1>11. HeadIs(<<":", " ">>, ":", <<" ">>)
  BY <1>2, Zenon
<1>12. HeadIs(<<"#", "a">>, "#", <<"a">>)
  BY <1>2, Zenon
<1>13. HeadIs(<<"\r", "\n">>, "\r", <<"\n">>)
  BY <1>2, Zenon
<1> QED BY <1>1, <1>5, <1>6, <1>7, <1>8, <1>9,
      <1>10, <1>11, <1>12, <1>13, Zenon DEF HeadIs

LEMMA ShortTexts ==
  /\ << >> \in Seq(Sent)
  /\ \A x \in Sent : <<x>> \in Seq(Sent)
  /\ \A x, y \in Sent : <<x, y>> \in Seq(Sent)
  /\ \A x, y, z \in Sent : <<x, y, z>> \in Seq(Sent)
OBVIOUS

LEMMA SomeSent ==
  /\ "a" \in Sent /\ "/" \in Sent /\ "1" \in Sent /\ "?" \in Sent /\ "#" \in Sent /\ ":" \in Sent
  /\ " " \in Sent /\ "\n" \in Sent /\ "\r" \in Sent
BY DEF Sent, Letters, Spaces, Digits

\* The next character, when it is one of a part.
LEMMA NextOf ==
  ASSUME NEW T, T \subseteq Sent, NEW s \in Seq(T), NEW rest \in Seq(Sent), s # << >>,
         input = s \o rest, input' = Tail(input)
  PROVE  Head(input) = Head(s) /\ Head(s) \in T /\ input' = Tail(s) \o rest
<1>1. Head(s \o rest) = Head(s) /\ Tail(s \o rest) = Tail(s) \o rest /\ Head(s) \in T
  BY Advance
<1> QED BY <1>1

LEMMA NextSent ==
  ASSUME NEW s \in Seq(Sent), NEW rest \in Seq(Sent), s # << >>,
         input = s \o rest, input' = Tail(input)
  PROVE  Head(input) = Head(s) /\ input' = Tail(s) \o rest
BY NextOf

LEMMA NothingBefore == ASSUME NEW s \in Seq(Sent) PROVE << >> \o s = s
BY ConcatEmptySeq

LEMMA GotoIs ==
  ASSUME NEW state, NEW h, Silent, Goto(state, h)
  PROVE  hc' = [h EXCEPT !.req_state = state] /\ Silent'
BY DEF Goto, Silent

LEMMA GotoCtx ==
  ASSUME NEW state, NEW path, NEW query, NEW len, NEW headers, NEW name, NEW value, NEW body,
         NEW h, h = Ctx(state, path, query, len, headers, name, value, body),
         NEW to, Silent, Goto(to, h)
  PROVE  hc' = Ctx(to, path, query, len, headers, name, value, body) /\ Silent'
<1>1. hc' = [h EXCEPT !.req_state = to] /\ Silent'
  BY GotoIs
<1>2. [h EXCEPT !.req_state = to] = Ctx(to, path, query, len, headers, name, value, body)
  BY CtxState
<1> QED BY <1>1, <1>2

LEMMA InLineHas ==
  ASSUME NEW state, NEW path, NEW query, InLine(state, path, query)
  PROVE  /\ hc.req_state = state /\ hc.path = path /\ hc.query = query
         /\ hc.content_length = 0 /\ hc.headers = << >>
         /\ hc.header_name = << >> /\ hc.header_value = << >> /\ hc.body = << >>
<1>1. PICK zero, none : zero = 0 /\ none = << >>
  OBVIOUS
<1>2. hc = Ctx(state, path, query, zero, none, none, none, none)
  BY <1>1 DEF InLine
<1> QED BY <1>1, <1>2, CtxHas

LEMMA InLineGoes ==
  ASSUME NEW state, NEW path, NEW query, InLine(state, path, query), Silent,
         NEW to, NEW x
  PROVE  /\ Goto(to, hc) => InLine(to, path, query)' /\ Silent'
         /\ Goto(to, [hc EXCEPT !.path = x]) => InLine(to, x, query)' /\ Silent'
         /\ Goto(to, [hc EXCEPT !.query = x]) => InLine(to, path, x)' /\ Silent'
         /\ Goto(to, [hc EXCEPT !.header_name = x])
              => Silent' /\ hc' = Ctx(to, path, query, 0, << >>, x, << >>, << >>)
<1>1. PICK zero, none : zero = 0 /\ none = << >>
  OBVIOUS
<1>2. hc = Ctx(state, path, query, zero, none, none, none, none)
  BY <1>1 DEF InLine
<1>3. Goto(to, hc) => hc' = Ctx(to, path, query, zero, none, none, none, none) /\ Silent'
  BY <1>2, GotoCtx
<1>4. Goto(to, hc) => InLine(to, path, query)' /\ Silent'
  BY <1>1, <1>3 DEF InLine
<1>5. Goto(to, [hc EXCEPT !.path = x]) => InLine(to, x, query)' /\ Silent'
  <2>1. PICK h : h = [hc EXCEPT !.path = x]
    OBVIOUS
  <2>2. h = Ctx(state, x, query, zero, none, none, none, none)
    BY <1>2, <2>1, CtxPath
  <2>3. Goto(to, h) => hc' = Ctx(to, x, query, zero, none, none, none, none) /\ Silent'
    BY <2>2, GotoCtx
  <2> QED BY <1>1, <2>1, <2>3 DEF InLine
<1>6. Goto(to, [hc EXCEPT !.query = x]) => InLine(to, path, x)' /\ Silent'
  <2>1. PICK h : h = [hc EXCEPT !.query = x]
    OBVIOUS
  <2>2. h = Ctx(state, path, x, zero, none, none, none, none)
    BY <1>2, <2>1, CtxQuery
  <2>3. Goto(to, h) => hc' = Ctx(to, path, x, zero, none, none, none, none) /\ Silent'
    BY <2>2, GotoCtx
  <2> QED BY <1>1, <2>1, <2>3 DEF InLine
<1>7. Goto(to, [hc EXCEPT !.header_name = x])
        => Silent' /\ hc' = Ctx(to, path, query, 0, << >>, x, << >>, << >>)
  <2>1. PICK h : h = [hc EXCEPT !.header_name = x]
    OBVIOUS
  <2>2. h = Ctx(state, path, query, zero, none, x, none, none)
    BY <1>2, <2>1, CtxName
  <2>3. Goto(to, h) => hc' = Ctx(to, path, query, zero, none, x, none, none) /\ Silent'
    BY <2>2, GotoCtx
  <2> QED BY <1>1, <2>1, <2>3 DEF InLine
<1> QED BY <1>4, <1>5, <1>6, <1>7

LEMMA StepMethod ==
  ASSUME NEW m \in Messages, Silent, OnMethod(m), ParseChar(Head(input)), input' = Tail(input)
  PROVE  Silent' /\ Reading(m)'
<1>1. PICK state, s :
        /\ \/ state = "NEW" /\ s = <<"a", "a", " ", "/">>
           \/ state = "METHOD" /\ s \in {<<"a", " ", "/">>, <<" ", "/">>}
           \/ state = "METHOD_READY" /\ s = <<"/">>
        /\ InLine(state, << >>, << >>)
        /\ input = s \o (m.path \o AfterPath(m))
  BY DEF OnMethod
<1>2. PICK rest : rest = m.path \o AfterPath(m) /\ rest \in Seq(Sent)
  BY TextIs
<1>3. PICK c : c = Head(input) /\ ParseChar(c)
  OBVIOUS
<1>4. hc.req_state = state /\ hc.path = << >>
  BY <1>1, InLineHas
<1>5. CASE state = "NEW" /\ s = <<"a", "a", " ", "/">>
  <2>1. c = "a" /\ input' = <<"a", " ", "/">> \o rest
    <3>1. s \in Seq(Sent) /\ s # << >>
      BY <1>5, LiteralsSent
    <3>2. Head(input) = Head(s) /\ input' = Tail(s) \o rest
      BY <1>1, <1>2, <3>1, NextSent
    <3> QED BY <1>3, <1>5, <3>2, Heads
  <2>2. Goto("METHOD", hc)
    BY <1>3, <1>4, <1>5, <2>1, CharOf DEF NewChar, Letters
  <2>3. InLine("METHOD", << >>, << >>)' /\ Silent'
    BY <1>1, <2>2, InLineGoes
  <2> QED BY <1>2, <2>1, <2>3 DEF Reading, OnMethod
<1>6. CASE state = "METHOD" /\ s = <<"a", " ", "/">>
  <2>1. c = "a" /\ input' = <<" ", "/">> \o rest
    <3>1. s \in Seq(Sent) /\ s # << >>
      BY <1>6, ShortTexts, SomeSent
    <3>2. Head(input) = Head(s) /\ input' = Tail(s) \o rest
      BY <1>1, <1>2, <3>1, NextSent
    <3> QED BY <1>3, <1>6, <3>2, Heads
  <2>2. Goto("METHOD", hc)
    BY <1>3, <1>4, <1>6, <2>1, CharOf DEF MethodChar, Letters, Spaces
  <2>3. InLine("METHOD", << >>, << >>)' /\ Silent'
    BY <1>1, <2>2, InLineGoes
  <2> QED BY <1>2, <2>1, <2>3 DEF Reading, OnMethod
<1>7. CASE state = "METHOD" /\ s = <<" ", "/">>
  <2>1. c = " " /\ input' = <<"/">> \o rest
    <3>1. s \in Seq(Sent) /\ s # << >>
      BY <1>7, ShortTexts, SomeSent
    <3>2. Head(input) = Head(s) /\ input' = Tail(s) \o rest
      BY <1>1, <1>2, <3>1, NextSent
    <3> QED BY <1>3, <1>7, <3>2, Heads
  <2>2. Goto("METHOD_READY", hc)
    BY <1>3, <1>4, <1>7, <2>1, CharOf DEF MethodChar, Letters, Spaces
  <2>3. InLine("METHOD_READY", << >>, << >>)' /\ Silent'
    BY <1>1, <2>2, InLineGoes
  <2> QED BY <1>2, <2>1, <2>3 DEF Reading, OnMethod
<1>8. CASE state = "METHOD_READY" /\ s = <<"/">>
  <2>1. c = "/" /\ input' = rest
    <3>1. s \in Seq(Sent) /\ s # << >>
      BY <1>8, ShortTexts, SomeSent
    <3>2. Head(input) = Head(s) /\ input' = Tail(s) \o rest
      BY <1>1, <1>2, <3>1, NextSent
    <3>3. << >> \o rest = rest
      BY <1>2, NothingBefore
    <3> QED BY <1>3, <1>8, <3>2, <3>3, Heads
  <2>2. PICK p : p = append_max_len(<< >>, "/", MaxPath)
    OBVIOUS
  <2>3. Goto("PATH", [hc EXCEPT !.path = p])
    BY <1>3, <1>4, <1>8, <2>1, <2>2, CharOf DEF MethodReadyChar
  <2>4. InLine("PATH", p, << >>)' /\ Silent'
    BY <1>1, <2>3, InLineGoes
  <2>6. p = Cut(<<"/">> \o << >>, MaxPath)
    <3>1. MaxPath \in Nat /\ "/" \in Sent /\ << >> \in Seq(Sent)
      BY ParserAssumption, SomeSent, ShortTexts
    <3>2. append_max_len(Cut(<< >>, MaxPath), "/", MaxPath) = Cut(Append(<< >>, "/"), MaxPath)
      BY <3>1, CutAppend
    <3>3. Cut(<< >>, MaxPath) = << >>
      BY <3>1, CutNone
    <3>4. Append(<< >>, "/") = <<"/">> \o << >>
      OBVIOUS
    <3> QED BY <2>2, <3>2, <3>3, <3>4
  <2>7. << >> \in Seq(PathCh) /\ m.path \in Seq(PathCh) /\ Split(m.path, << >>, m.path)
    BY RequestParts, SplitBegins
  <2> QED BY <1>2, <2>1, <2>4, <2>6, <2>7 DEF Reading, OnPath
<1> QED BY <1>1, <1>5, <1>6, <1>7, <1>8

\* What follows the query: a fragment or the protocol.
LEMMA QueryEnds ==
  ASSUME NEW m \in Messages, input = AfterQuery(m), input' = Tail(input)
  PROVE  \/ Head(input) = "#" /\ input' = <<"a">> \o AfterFragment(m)
         \/ Head(input) = " " /\ input' = <<"a", "/", "1">> \o AfterProto(m)
<1>1. CASE m.fragment = <<"#", "a">>
  <2>1. input = <<"#", "a">> \o AfterFragment(m)
    BY <1>1 DEF AfterQuery
  <2>2. <<"#", "a">> \in Seq(Sent) /\ <<"#", "a">> # << >> /\ AfterFragment(m) \in Seq(Sent)
    BY ShortTexts, SomeSent, TextIs
  <2>3. Head(input) = Head(<<"#", "a">>) /\ input' = Tail(<<"#", "a">>) \o AfterFragment(m)
    BY <2>1, <2>2, NextSent
  <2> QED BY <2>3, Heads
<1>2. CASE m.fragment = << >>
  <2>1. input = AfterFragment(m)
    BY <1>2, TextIs, NothingBefore DEF AfterQuery
  <2>2. PICK s : s = <<" ", "a", "/", "1">> /\ s \in Seq(Sent) /\ s # << >>
    BY LiteralsSent
  <2>3. input = s \o AfterProto(m) /\ AfterProto(m) \in Seq(Sent)
    BY <2>1, <2>2, TextIs DEF AfterFragment
  <2>4. Head(input) = Head(s) /\ input' = Tail(s) \o AfterProto(m)
    BY <2>2, <2>3, NextSent
  <2> QED BY <2>2, <2>4, Heads
<1> QED BY <1>1, <1>2, RequestParts

LEMMA CutGrows ==
  ASSUME NEW d \in Seq(Sent), NEW c \in Sent
  PROVE  append_max_len(Cut(<<"/">> \o d, MaxPath), c, MaxPath)
           = Cut(<<"/">> \o Append(d, c), MaxPath)
<1>1. PICK s, x : s = <<"/">> /\ x = <<c>> /\ s \in Seq(Sent) /\ x \in Seq(Sent)
  BY ShortTexts, SomeSent
<1>2. PICK y : y = s \o d
  OBVIOUS
<1>3. y \in Seq(Sent)
  BY <1>1, <1>2, ConcatProperties
<1>4. (s \o d) \o x = s \o (d \o x)
  BY <1>1, ConcatAssociative
<1>5. Append(d, c) = d \o x
  BY <1>1, AppendIsConcat
<1>6. Append(y, c) = y \o x
  BY <1>1, <1>3, AppendIsConcat
<1>7. Append(y, c) = s \o Append(d, c)
  BY <1>2, <1>4, <1>5, <1>6
<1>8. append_max_len(Cut(y, MaxPath), c, MaxPath) = Cut(Append(y, c), MaxPath)
  BY <1>3, ParserAssumption, CutAppend
<1> QED BY <1>1, <1>2, <1>7, <1>8

LEMMA StepPath ==
  ASSUME NEW m \in Messages, Silent, OnPath(m), ParseChar(Head(input)), input' = Tail(input)
  PROVE  Silent' /\ Reading(m)'
<1>1. PICK d \in Seq(PathCh), r \in Seq(PathCh) :
        /\ Split(m.path, d, r)
        /\ InLine("PATH", Cut(<<"/">> \o d, MaxPath), << >>)
        /\ input = r \o AfterPath(m)
  BY DEF OnPath
<1>2. PICK p : p = Cut(<<"/">> \o d, MaxPath)
  OBVIOUS
<1>3. InLine("PATH", p, << >>)
  BY <1>1, <1>2
<1>4. hc.req_state = "PATH" /\ hc.path = p
  BY <1>3, InLineHas
<1>5. PICK c : c = Head(input) /\ PathChar(c)
  BY <1>4, CharOf
<1>6. PathCh \subseteq Sent /\ m.path \in Seq(PathCh) /\ AfterPath(m) \in Seq(Sent)
  BY RequestParts, TextIs DEF PathCh
<1>7. CASE r # << >>
  <2>1. c = Head(r) /\ c \in PathCh /\ input' = Tail(r) \o AfterPath(m)
    BY <1>1, <1>5, <1>6, <1>7, NextOf
  <2>2. /\ Append(d, c) \in Seq(PathCh) /\ Tail(r) \in Seq(PathCh)
        /\ Split(m.path, Append(d, c), Tail(r))
    BY <1>1, <1>6, <1>7, <2>1, SplitMoves
  <2>3. c # "?" /\ c # "#" /\ c \notin Spaces
    BY <2>1 DEF PathCh
  <2>4. PICK x : x = append_max_len(p, c, MaxPath)
    OBVIOUS
  <2>5. Goto("PATH", [hc EXCEPT !.path = x])
    BY <1>4, <1>5, <2>3, <2>4 DEF PathChar
  <2>6. InLine("PATH", x, << >>)' /\ Silent'
    BY <1>3, <2>5, InLineGoes
  <2>7. x = Cut(<<"/">> \o Append(d, c), MaxPath)
    <3>1. d \in Seq(Sent) /\ c \in Sent
      BY <1>1, <1>6, <2>1, SeqMonotonic
    <3> QED BY <1>2, <2>4, <3>1, CutGrows
  <2> QED BY <2>1, <2>2, <2>6, <2>7 DEF Reading, OnPath
<1>8. CASE r = << >>
  <2>1. d = m.path /\ p = PathRead(m)
    <3>1. d = m.path
      BY <1>1, <1>6, <1>8, SplitEnds
    <3> QED BY <1>2, <3>1 DEF PathRead
  <2>2. input = AfterPath(m)
    BY <1>1, <1>6, <1>8, NothingBefore
  <2>3. CASE m.query # << >>
    <3>1. PICK q, s, t : q = m.query /\ s = <<"?">> /\ t = s \o q
      OBVIOUS
    <3>2. q \in Seq(Sent) /\ s \in Seq(Sent) /\ AfterQuery(m) \in Seq(Sent) /\ s # << >>
      BY <3>1, PiecesSent, LiteralsSent, TextIs
    <3>3. t \in Seq(Sent) /\ t # << >> /\ Head(t) = Head(s) /\ Tail(t) = Tail(s) \o q
      BY <3>1, <3>2, Advance
    <3>4. Head(t) = "?" /\ Tail(t) = q
      <4>1. Head(s) = "?" /\ Tail(s) = << >>
        BY <3>1, Heads
      <4>2. << >> \o q = q
        BY <3>2, NothingBefore
      <4> QED BY <3>3, <4>1, <4>2
    <3>5. input = t \o AfterQuery(m)
      BY <2>2, <2>3, <3>1 DEF AfterPath
    <3>6. Head(input) = Head(t) /\ input' = Tail(t) \o AfterQuery(m)
      BY <3>2, <3>3, <3>5, NextSent
    <3>7. c = "?" /\ input' = q \o AfterQuery(m)
      BY <1>5, <3>4, <3>6
    <3>8. Goto("QUERY", hc)
      BY <1>5, <3>7 DEF PathChar, Spaces
    <3>9. InLine("QUERY", p, << >>)' /\ Silent'
      BY <1>3, <3>8, InLineGoes
    <3>10. << >> = Cut(<< >>, MaxQuery)
      BY CutNone, ParserAssumption
    <3>11. /\ << >> \in Seq(QueryCh) /\ q \in Seq(QueryCh) /\ Split(m.query, << >>, q)
      BY <3>1, RequestParts, SplitBegins
    <3> QED BY <2>1, <3>7, <3>9, <3>10, <3>11 DEF Reading, OnQuery
  <2>4. CASE m.query = << >>
    <3>1. input = AfterQuery(m)
      <4>1. AfterPath(m) = << >> \o AfterQuery(m)
        BY <2>4 DEF AfterPath
      <4>2. << >> \o AfterQuery(m) = AfterQuery(m)
        BY NothingBefore, TextIs
      <4> QED BY <2>2, <4>1, <4>2
    <3>2. << >> = QueryRead(m)
      BY <2>4, CutNone, ParserAssumption DEF QueryRead
    <3>3. CASE c = "#" /\ input' = <<"a">> \o AfterFragment(m)
      <4>1. Goto("FRAGMENT", hc)
        BY <1>5, <3>3 DEF PathChar, Spaces
      <4>2. InLine("FRAGMENT", p, << >>)' /\ Silent'
        BY <1>3, <4>1, InLineGoes
      <4> QED BY <2>1, <3>2, <3>3, <4>2 DEF Reading, OnFragment
    <3>4. CASE c = " " /\ input' = <<"a", "/", "1">> \o AfterProto(m)
      <4>1. Goto("FRAGMENT_READY", hc)
        BY <1>5, <3>4 DEF PathChar, Spaces
      <4>2. InLine("FRAGMENT_READY", p, << >>)' /\ Silent'
        BY <1>3, <4>1, InLineGoes
      <4> QED BY <2>1, <3>2, <3>4, <4>2 DEF Reading, OnProto
    <3> QED BY <1>5, <3>1, <3>3, <3>4, QueryEnds
  <2> QED BY <2>3, <2>4
<1> QED BY <1>7, <1>8

LEMMA StepQuery ==
  ASSUME NEW m \in Messages, Silent, OnQuery(m), ParseChar(Head(input)), input' = Tail(input)
  PROVE  Silent' /\ Reading(m)'
<1>1. PICK d \in Seq(QueryCh), r \in Seq(QueryCh) :
        /\ Split(m.query, d, r)
        /\ InLine("QUERY", PathRead(m), Cut(d, MaxQuery))
        /\ input = r \o AfterQuery(m)
  BY DEF OnQuery
<1>2. PICK q : q = Cut(d, MaxQuery)
  OBVIOUS
<1>3. InLine("QUERY", PathRead(m), q)
  BY <1>1, <1>2
<1>4. hc.req_state = "QUERY" /\ hc.query = q
  BY <1>3, InLineHas
<1>5. PICK c : c = Head(input) /\ QueryChar(c)
  BY <1>4, CharOf
<1>6. QueryCh \subseteq Sent /\ m.query \in Seq(QueryCh) /\ AfterQuery(m) \in Seq(Sent)
  BY RequestParts, TextIs DEF QueryCh
<1>7. CASE r # << >>
  <2>1. c = Head(r) /\ c \in QueryCh /\ input' = Tail(r) \o AfterQuery(m)
    BY <1>1, <1>5, <1>6, <1>7, NextOf
  <2>2. /\ Append(d, c) \in Seq(QueryCh) /\ Tail(r) \in Seq(QueryCh)
        /\ Split(m.query, Append(d, c), Tail(r))
    BY <1>1, <1>6, <1>7, <2>1, SplitMoves
  <2>3. c # "#" /\ c \notin Spaces
    BY <2>1 DEF QueryCh
  <2>4. PICK x : x = append_max_len(q, c, MaxQuery)
    OBVIOUS
  <2>5. Goto("QUERY", [hc EXCEPT !.query = x])
    BY <1>4, <1>5, <2>3, <2>4 DEF QueryChar
  <2>6. InLine("QUERY", PathRead(m), x)' /\ Silent'
    BY <1>3, <2>5, InLineGoes
  <2>7. x = Cut(Append(d, c), MaxQuery)
    BY <1>1, <1>2, <2>1, <2>4, CutAppend, ParserAssumption
  <2> QED BY <2>1, <2>2, <2>6, <2>7 DEF Reading, OnQuery
<1>8. CASE r = << >>
  <2>1. q = QueryRead(m)
    <3>1. d = m.query
      BY <1>1, <1>6, <1>8, SplitEnds
    <3> QED BY <1>2, <3>1 DEF QueryRead
  <2>2. input = AfterQuery(m)
    BY <1>1, <1>6, <1>8, NothingBefore
  <2>3. CASE c = "#" /\ input' = <<"a">> \o AfterFragment(m)
    <3>1. Goto("FRAGMENT", hc)
      BY <1>5, <2>3 DEF QueryChar, Spaces
    <3>2. InLine("FRAGMENT", PathRead(m), q)' /\ Silent'
      BY <1>3, <3>1, InLineGoes
    <3> QED BY <2>1, <2>3, <3>2 DEF Reading, OnFragment
  <2>4. CASE c = " " /\ input' = <<"a", "/", "1">> \o AfterProto(m)
    <3>1. Goto("FRAGMENT_READY", hc)
      BY <1>5, <2>4 DEF QueryChar, Spaces
    <3>2. InLine("FRAGMENT_READY", PathRead(m), q)' /\ Silent'
      BY <1>3, <3>1, InLineGoes
    <3> QED BY <2>1, <2>4, <3>2 DEF Reading, OnProto
  <2> QED BY <1>5, <2>2, <2>3, <2>4, QueryEnds
<1> QED BY <1>7, <1>8

\* The next character is a space or is no space, whatever comes after it.
LEMMA StepFragment ==
  ASSUME NEW m \in Messages, Silent, OnFragment(m), ParseChar(Head(input)), input' = Tail(input)
  PROVE  Silent' /\ Reading(m)'
<1>1. PICK s \in {<<"a">>, << >>} : input = s \o AfterFragment(m)
  BY DEF OnFragment
<1>2. InLine("FRAGMENT", PathRead(m), QueryRead(m))
  BY DEF OnFragment
<1>3. hc.req_state = "FRAGMENT"
  BY <1>2, InLineHas
<1>4. PICK c : c = Head(input) /\ FragmentChar(c)
  BY <1>3, CharOf
<1>5. AfterFragment(m) \in Seq(Sent) /\ AfterProto(m) \in Seq(Sent)
  BY TextIs
<1>6. CASE s = <<"a">>
  <2>1. s \in Seq(Sent) /\ s # << >>
    BY <1>6, ShortTexts, SomeSent
  <2>2. Head(input) = Head(s) /\ input' = Tail(s) \o AfterFragment(m)
    BY <1>1, <1>5, <2>1, NextSent
  <2>3. c = "a" /\ input' = << >> \o AfterFragment(m)
    BY <1>4, <1>6, <2>2, Heads
  <2>4. Goto("FRAGMENT", hc)
    BY <1>4, <2>3 DEF FragmentChar, Spaces
  <2>5. InLine("FRAGMENT", PathRead(m), QueryRead(m))' /\ Silent'
    BY <1>2, <2>4, InLineGoes
  <2> QED BY <2>3, <2>5 DEF Reading, OnFragment
<1>7. CASE s = << >>
  <2>1. PICK t : t = <<" ", "a", "/", "1">> /\ t \in Seq(Sent) /\ t # << >>
    BY LiteralsSent
  <2>2. input = t \o AfterProto(m)
    BY <1>1, <1>5, <1>7, <2>1, NothingBefore DEF AfterFragment
  <2>3. Head(input) = Head(t) /\ input' = Tail(t) \o AfterProto(m)
    BY <1>5, <2>1, <2>2, NextSent
  <2>4. c = " " /\ input' = <<"a", "/", "1">> \o AfterProto(m)
    BY <1>4, <2>1, <2>3, Heads
  <2>5. Goto("FRAGMENT_READY", hc)
    BY <1>4, <2>4 DEF FragmentChar, Spaces
  <2>6. InLine("FRAGMENT_READY", PathRead(m), QueryRead(m))' /\ Silent'
    BY <1>2, <2>5, InLineGoes
  <2> QED BY <2>4, <2>6 DEF Reading, OnProto
<1> QED BY <1>6, <1>7

\* The end of a line.
LEMMA LineEnds ==
  ASSUME NEW m \in Messages, NEW rest \in Seq(Sent), input = m.eol \o rest,
         input' = Tail(input)
  PROVE  \/ Head(input) = "\n" /\ input' = rest
         \/ Head(input) = "\r" /\ input' = <<"\n">> \o rest
<1>1. PICK s : s = m.eol /\ s \in Seq(Sent)
  BY PiecesSent
<1>2. s = <<"\n">> \/ s = <<"\r", "\n">>
  BY <1>1, RequestParts
<1>3. s # << >>
  <2>1. <<"\n">> # << >> /\ <<"\r", "\n">> # << >>
    OBVIOUS
  <2> QED BY <1>2, <2>1, Zenon
<1>4. Head(input) = Head(s) /\ input' = Tail(s) \o rest
  BY <1>1, <1>3, NextSent
<1>5. CASE s = <<"\n">>
  <2>1. Head(s) = "\n" /\ Tail(s) = << >>
    BY <1>5, Heads
  <2>2. << >> \o rest = rest
    BY NothingBefore
  <2> QED BY <1>4, <2>1, <2>2
<1>6. CASE s = <<"\r", "\n">>
  <2>1. Head(s) = "\r" /\ Tail(s) = <<"\n">>
    BY <1>6, Heads
  <2> QED BY <1>4, <2>1
<1> QED BY <1>2, <1>5, <1>6

LEMMA StepProto ==
  ASSUME NEW m \in Messages, Silent, OnProto(m), ParseChar(Head(input)), input' = Tail(input)
  PROVE  Silent' /\ Reading(m)'
<1>1. PICK state, s :
        /\ \/ state = "FRAGMENT_READY" /\ s = <<"a", "/", "1">>
           \/ state = "PROTO" /\ s \in {<<"/", "1">>, <<"1">>, << >>}
        /\ InLine(state, PathRead(m), QueryRead(m))
        /\ input = s \o AfterProto(m)
  BY DEF OnProto
<1>2. hc.req_state = state
  BY <1>1, InLineHas
<1>3. PICK c : c = Head(input) /\ ParseChar(c)
  OBVIOUS
<1>4. AfterProto(m) \in Seq(Sent) /\ Lines(m, 0) \in Seq(Sent)
  <2>1. Count(m) \in Nat
    BY CountPositive
  <2>2. 0 \in 0 .. Count(m)
    BY <2>1
  <2> QED BY <2>2, LinesAre, TextIs
<1>5. ASSUME NEW x, NEW t, x \in Sent, x \notin Spaces, s # << >>, s \in Seq(Sent),
             Head(s) = x, Tail(s) = t, t \in {<<"/", "1">>, <<"1">>, << >>}
      PROVE  Silent' /\ Reading(m)'
  <2>1. Head(input) = Head(s) /\ input' = Tail(s) \o AfterProto(m)
    BY <1>1, <1>4, <1>5, NextSent
  <2>2. c \notin Spaces /\ input' = t \o AfterProto(m)
    BY <1>3, <1>5, <2>1
  <2>3. Goto("PROTO", hc)
    <3>1. CASE state = "PROTO"
      BY <1>2, <1>3, <2>2, <3>1, CharOf DEF ProtoChar
    <3>2. CASE state = "FRAGMENT_READY"
      BY <1>2, <1>3, <2>2, <3>2, CharOf DEF FragmentReadyChar
    <3> QED BY <1>1, <3>1, <3>2
  <2>4. InLine("PROTO", PathRead(m), QueryRead(m))' /\ Silent'
    BY <1>1, <2>3, InLineGoes
  <2> QED BY <1>5, <2>2, <2>4 DEF Reading, OnProto
<1>6. "a" \notin Spaces /\ "/" \notin Spaces /\ "1" \notin Spaces
  BY DEF Spaces
<1>7. CASE s = <<"a", "/", "1">>
  BY <1>5, <1>6, <1>7, Heads, ShortTexts, SomeSent
<1>8. CASE s = <<"/", "1">>
  BY <1>5, <1>6, <1>8, Heads, ShortTexts, SomeSent
<1>9. CASE s = <<"1">>
  BY <1>5, <1>6, <1>9, Heads, ShortTexts, SomeSent
<1>10. CASE state = "PROTO" /\ s = << >>
  <2>1. input = m.eol \o Lines(m, 0)
    BY <1>1, <1>4, <1>10, NothingBefore DEF AfterProto
  <2>2. \/ c = "\n" /\ input' = Lines(m, 0)
        \/ c = "\r" /\ input' = <<"\n">> \o Lines(m, 0)
    BY <1>3, <1>4, <2>1, LineEnds
  <2>3. \E t \in {<<"\n">>, << >>} : input' = t \o Lines(m, 0)
    <3>1. << >> \o Lines(m, 0) = Lines(m, 0)
      BY <1>4, NothingBefore
    <3> QED BY <2>2, <3>1
  <2>4. Goto("PROTO_READY", hc)
    BY <1>2, <1>3, <1>10, <2>2, CharOf DEF ProtoChar, Spaces
  <2>5. InLine("PROTO_READY", PathRead(m), QueryRead(m))' /\ Silent'
    BY <1>1, <2>4, InLineGoes
  <2> QED BY <2>3, <2>5 DEF Reading, OnProtoReady
<1> QED BY <1>1, <1>7, <1>8, <1>9, <1>10

LEMMA InHeadersHas ==
  ASSUME NEW state, NEW m, NEW i, NEW name, NEW value, InHeaders(state, m, i, name, value)
  PROVE  /\ hc.req_state = state /\ hc.content_length = LengthAfter(m, i)
         /\ hc.header_name = name /\ hc.header_value = value
<1>1. PICK none, path, query, len, headers :
        /\ none = << >> /\ path = PathRead(m) /\ query = QueryRead(m)
        /\ len = LengthAfter(m, i) /\ headers = Given(m, i)
  OBVIOUS
<1>2. hc = Ctx(state, path, query, len, headers, name, value, none)
  BY <1>1 DEF InHeaders
<1> QED BY <1>1, <1>2, CtxHas

LEMMA InHeadersGoes ==
  ASSUME NEW state, NEW m, NEW i, NEW name, NEW value, InHeaders(state, m, i, name, value),
         Silent, NEW to, NEW x
  PROVE  /\ Goto(to, hc) => InHeaders(to, m, i, name, value)' /\ Silent'
         /\ Goto(to, [hc EXCEPT !.header_name = x]) => InHeaders(to, m, i, x, value)' /\ Silent'
         /\ Goto(to, [hc EXCEPT !.header_value = x]) => InHeaders(to, m, i, name, x)' /\ Silent'
<1>1. PICK none, path, query, len, headers :
        /\ none = << >> /\ path = PathRead(m) /\ query = QueryRead(m)
        /\ len = LengthAfter(m, i) /\ headers = Given(m, i)
  OBVIOUS
<1>2. hc = Ctx(state, path, query, len, headers, name, value, none)
  BY <1>1 DEF InHeaders
<1>3. Goto(to, hc) => InHeaders(to, m, i, name, value)' /\ Silent'
  <2>1. Goto(to, hc) => hc' = Ctx(to, path, query, len, headers, name, value, none) /\ Silent'
    BY <1>2, GotoCtx
  <2> QED BY <1>1, <2>1 DEF InHeaders
<1>4. Goto(to, [hc EXCEPT !.header_name = x]) => InHeaders(to, m, i, x, value)' /\ Silent'
  <2>1. PICK h : h = [hc EXCEPT !.header_name = x]
    OBVIOUS
  <2>2. h = Ctx(state, path, query, len, headers, x, value, none)
    BY <1>2, <2>1, CtxName
  <2>3. Goto(to, h) => hc' = Ctx(to, path, query, len, headers, x, value, none) /\ Silent'
    BY <2>2, GotoCtx
  <2> QED BY <1>1, <2>1, <2>3 DEF InHeaders
<1>5. Goto(to, [hc EXCEPT !.header_value = x]) => InHeaders(to, m, i, name, x)' /\ Silent'
  <2>1. PICK h : h = [hc EXCEPT !.header_value = x]
    OBVIOUS
  <2>2. h = Ctx(state, path, query, len, headers, name, x, none)
    BY <1>2, <2>1, CtxValue
  <2>3. Goto(to, h) => hc' = Ctx(to, path, query, len, headers, name, x, none) /\ Silent'
    BY <2>2, GotoCtx
  <2> QED BY <1>1, <2>1, <2>3 DEF InHeaders
<1> QED BY <1>3, <1>4, <1>5

\* A line and a request line leave the context ready for a header.
LEMMA NoHeaderYet ==
  ASSUME NEW m \in Messages, NEW state, InLine(state, PathRead(m), QueryRead(m))
  PROVE  InHeaders(state, m, 0, << >>, << >>)
<1>1. LengthAfter(m, 0) = 0
  <2>1. Count(m) # 0
    BY CountPositive
  <2> QED BY <2>1 DEF LengthAfter
<1>2. Given(m, 0) = << >>
  <2>1. 1 .. 0 = {}
    OBVIOUS
  <2> QED BY <2>1 DEF Given
<1> QED BY <1>1, <1>2 DEF InLine, InHeaders

\* The first character of a header, after the ones before it.
LEMMA HeaderBegins ==
  ASSUME NEW m \in Messages, NEW i \in 1 .. Count(m), NEW state, Silent,
         InHeaders(state, m, i - 1, << >>, << >>),
         input = Lines(m, i - 1), input' = Tail(input)
  PROVE  /\ Head(input) \notin Spaces
         /\ HeaderStarts(Head(input)) => Silent' /\ Reading(m)'
<1>1. PICK c, n : c = Head(input) /\ n = Name(m, i)
  OBVIOUS
<1>2. n \in Seq(NameCh) /\ n # << >> /\ NameCh \subseteq Sent
  BY <1>1, HeaderParts DEF NameCh
<1>3. AfterName(m, i) \in Seq(Sent) /\ input = n \o AfterName(m, i)
  BY <1>1, LinesAre
<1>4. c = Head(n) /\ c \in NameCh /\ input' = Tail(n) \o AfterName(m, i)
  BY <1>1, <1>2, <1>3, NextOf
<1>5. c \notin Spaces
  BY <1>4 DEF NameCh
<1>6. ASSUME HeaderStarts(c) PROVE Silent' /\ Reading(m)'
  <2>1. hc.header_name = << >>
    BY InHeadersHas
  <2>2. PICK x : x = append_max_len(<< >>, c, MaxName)
    OBVIOUS
  <2>3. Goto("HEADER_NAME", [hc EXCEPT !.header_name = x])
    BY <1>6, <2>1, <2>2 DEF HeaderStarts
  <2>4. InHeaders("HEADER_NAME", m, i - 1, x, << >>)' /\ Silent'
    BY <2>3, InHeadersGoes
  <2>5. << >> \in Seq(NameCh) /\ Split(n, << >>, n)
    BY <1>2, SplitBegins
  <2>6. /\ Append(<< >>, c) \in Seq(NameCh) /\ Tail(n) \in Seq(NameCh)
        /\ Append(<< >>, c) # << >> /\ Split(n, Append(<< >>, c), Tail(n))
    BY <1>2, <1>4, <2>5, SplitMoves
  <2>7. x = Cut(Append(<< >>, c), MaxName)
    <3>1. MaxName \in Nat /\ << >> \in Seq(Sent) /\ c \in Sent
      BY <1>2, <1>4, ParserAssumption, ShortTexts
    <3>2. append_max_len(Cut(<< >>, MaxName), c, MaxName) = Cut(Append(<< >>, c), MaxName)
      BY <3>1, CutAppend
    <3>3. Cut(<< >>, MaxName) = << >>
      BY <3>1, CutNone
    <3> QED BY <2>2, <3>2, <3>3
  <2> QED BY <1>1, <1>4, <2>4, <2>6, <2>7 DEF Reading, OnName
<1> QED BY <1>1, <1>5, <1>6

LEMMA StepProtoReady ==
  ASSUME NEW m \in Messages, Silent, OnProtoReady(m), ParseChar(Head(input)),
         input' = Tail(input)
  PROVE  Silent' /\ Reading(m)'
<1>1. PICK s \in {<<"\n">>, << >>} : input = s \o Lines(m, 0)
  BY DEF OnProtoReady
<1>2. InLine("PROTO_READY", PathRead(m), QueryRead(m))
  BY DEF OnProtoReady
<1>3. hc.req_state = "PROTO_READY"
  BY <1>2, InLineHas
<1>4. PICK c : c = Head(input) /\ ProtoReadyChar(c)
  BY <1>3, CharOf
<1>5. 0 \in 0 .. Count(m) /\ 1 \in 1 .. Count(m)
  <2>1. Count(m) \in Nat /\ Count(m) > 0
    BY CountPositive
  <2> QED BY <2>1
<1>6. Lines(m, 0) \in Seq(Sent)
  BY <1>5, LinesAre
<1>7. CASE s = <<"\n">>
  <2>1. s \in Seq(Sent) /\ s # << >>
    BY <1>7, ShortTexts, SomeSent
  <2>2. Head(input) = Head(s) /\ input' = Tail(s) \o Lines(m, 0)
    BY <1>1, <1>6, <2>1, NextSent
  <2>3. c = "\n" /\ input' = << >> \o Lines(m, 0)
    BY <1>4, <1>7, <2>2, Heads
  <2>4. Goto("PROTO_READY", hc)
    BY <1>4, <2>3 DEF ProtoReadyChar, Spaces
  <2>5. InLine("PROTO_READY", PathRead(m), QueryRead(m))' /\ Silent'
    BY <1>2, <2>4, InLineGoes
  <2> QED BY <2>3, <2>5 DEF Reading, OnProtoReady
<1>8. CASE s = << >>
  <2>1. input = Lines(m, 0)
    BY <1>1, <1>6, <1>8, NothingBefore
  <2>2. InHeaders("PROTO_READY", m, 0, << >>, << >>)
    BY <1>2, NoHeaderYet
  <2>3. PICK i : i = 1 /\ i - 1 = 0 /\ i \in 1 .. Count(m)
    BY <1>5
  <2>4. /\ c \notin Spaces
        /\ HeaderStarts(c) => Silent' /\ Reading(m)'
    BY <1>4, <2>1, <2>2, <2>3, HeaderBegins
  <2> QED BY <1>4, <2>4 DEF ProtoReadyChar
<1> QED BY <1>7, <1>8

LEMMA StepName ==
  ASSUME NEW m \in Messages, Silent, OnName(m), ParseChar(Head(input)), input' = Tail(input)
  PROVE  Silent' /\ Reading(m)'
<1>1. PICK i \in 1 .. Count(m), d \in Seq(NameCh), r \in Seq(NameCh) :
        /\ Split(Name(m, i), d, r) /\ d # << >>
        /\ InHeaders("HEADER_NAME", m, i - 1, Cut(d, MaxName), << >>)
        /\ input = r \o AfterName(m, i)
  BY DEF OnName
<1>2. PICK p : p = Cut(d, MaxName)
  OBVIOUS
<1>3. InHeaders("HEADER_NAME", m, i - 1, p, << >>)
  BY <1>1, <1>2
<1>4. hc.req_state = "HEADER_NAME" /\ hc.header_name = p
  BY <1>3, InHeadersHas
<1>5. PICK c : c = Head(input) /\ HeaderNameChar(c)
  BY <1>4, CharOf
<1>6. /\ NameCh \subseteq Sent /\ Name(m, i) \in Seq(NameCh) /\ AfterName(m, i) \in Seq(Sent)
      /\ Value(m, i) \in Seq(Sent) /\ AfterValue(m, i) \in Seq(Sent)
  BY HeaderParts, LinesAre, PiecesSent DEF NameCh
<1>7. CASE r # << >>
  <2>1. c = Head(r) /\ c \in NameCh /\ input' = Tail(r) \o AfterName(m, i)
    BY <1>1, <1>5, <1>6, <1>7, NextOf
  <2>2. /\ Append(d, c) \in Seq(NameCh) /\ Tail(r) \in Seq(NameCh) /\ Append(d, c) # << >>
        /\ Split(Name(m, i), Append(d, c), Tail(r))
    BY <1>1, <1>6, <1>7, <2>1, SplitMoves
  <2>3. c # ":" /\ c \notin Spaces
    BY <2>1 DEF NameCh
  <2>4. PICK x : x = append_max_len(p, c, MaxName)
    OBVIOUS
  <2>5. Goto("HEADER_NAME", [hc EXCEPT !.header_name = x])
    BY <1>4, <1>5, <2>3, <2>4 DEF HeaderNameChar, HeaderStarts
  <2>6. InHeaders("HEADER_NAME", m, i - 1, x, << >>)' /\ Silent'
    BY <1>3, <2>5, InHeadersGoes
  <2>7. x = Cut(Append(d, c), MaxName)
    BY <1>1, <1>2, <2>1, <2>4, CutAppend, ParserAssumption
  <2> QED BY <1>1, <2>1, <2>2, <2>6, <2>7 DEF Reading, OnName
<1>8. CASE r = << >>
  <2>1. p = Cut(Name(m, i), MaxName)
    <3>1. d = Name(m, i)
      BY <1>1, <1>6, <1>8, SplitEnds
    <3> QED BY <1>2, <3>1
  <2>2. PICK s, rest : s = <<":", " ">> /\ rest = Value(m, i) \o AfterValue(m, i)
    OBVIOUS
  <2>3. s \in Seq(Sent) /\ s # << >> /\ rest \in Seq(Sent)
    BY <1>6, <2>2, LiteralsSent, ConcatProperties
  <2>4. input = s \o rest
    <3>1. input = AfterName(m, i)
      BY <1>1, <1>6, <1>8, NothingBefore
    <3> QED BY <2>2, <3>1 DEF AfterName
  <2>5. Head(input) = Head(s) /\ input' = Tail(s) \o rest
    BY <2>3, <2>4, NextSent
  <2>6. c = ":" /\ input' = <<" ">> \o rest
    BY <1>5, <2>2, <2>5, Heads
  <2>7. Goto("HEADER_NAME_READY", hc)
    BY <1>5, <2>6 DEF HeaderNameChar
  <2>8. InHeaders("HEADER_NAME_READY", m, i - 1, p, << >>)' /\ Silent'
    BY <1>3, <2>7, InHeadersGoes
  <2> QED BY <1>1, <2>1, <2>2, <2>6, <2>8 DEF Reading, OnNameReady
<1> QED BY <1>7, <1>8

LEMMA StepNameReady ==
  ASSUME NEW m \in Messages, Silent, OnNameReady(m), ParseChar(Head(input)), input' = Tail(input)
  PROVE  Silent' /\ Reading(m)'
<1>1. PICK i \in 1 .. Count(m), s \in {<<" ">>, << >>} :
        /\ InHeaders("HEADER_NAME_READY", m, i - 1, Cut(Name(m, i), MaxName), << >>)
        /\ input = s \o (Value(m, i) \o AfterValue(m, i))
  BY DEF OnNameReady
<1>2. PICK p, v : p = Cut(Name(m, i), MaxName) /\ v = Value(m, i)
  OBVIOUS
<1>3. InHeaders("HEADER_NAME_READY", m, i - 1, p, << >>)
  BY <1>1, <1>2
<1>4. hc.req_state = "HEADER_NAME_READY" /\ hc.header_value = << >>
  BY <1>3, InHeadersHas
<1>5. PICK c : c = Head(input) /\ HeaderNameReadyChar(c)
  BY <1>4, CharOf
<1>6. /\ v \in Seq(ValueCh) /\ v # << >> /\ Head(v) \notin Spaces /\ v \in Seq(Sent)
      /\ ValueCh \subseteq Sent /\ AfterValue(m, i) \in Seq(Sent)
  BY <1>2, HeaderParts, LinesAre, PiecesSent DEF ValueCh
<1>7. PICK rest : rest = v \o AfterValue(m, i)
  OBVIOUS
<1>8. rest \in Seq(Sent) /\ input = s \o rest
  BY <1>1, <1>2, <1>6, <1>7, ConcatProperties
<1>9. CASE s = <<" ">>
  <2>1. s \in Seq(Sent) /\ s # << >>
    BY <1>9, ShortTexts, SomeSent
  <2>2. Head(input) = Head(s) /\ input' = Tail(s) \o rest
    BY <1>8, <2>1, NextSent
  <2>3. c = " " /\ input' = << >> \o rest
    BY <1>5, <1>9, <2>2, Heads
  <2>4. Goto("HEADER_NAME_READY", hc)
    BY <1>5, <2>3 DEF HeaderNameReadyChar, Spaces
  <2>5. InHeaders("HEADER_NAME_READY", m, i - 1, p, << >>)' /\ Silent'
    BY <1>3, <2>4, InHeadersGoes
  <2> QED BY <1>1, <1>2, <1>7, <2>3, <2>5 DEF Reading, OnNameReady
<1>10. CASE s = << >>
  <2>1. input = v \o AfterValue(m, i)
    BY <1>7, <1>8, <1>10, NothingBefore
  <2>2. c = Head(v) /\ c \in ValueCh /\ input' = Tail(v) \o AfterValue(m, i)
    BY <1>5, <1>6, <2>1, NextOf
  <2>3. PICK x : x = append_max_len(<< >>, c, MaxValue)
    OBVIOUS
  <2>4. Goto("HEADER_VALUE", [hc EXCEPT !.header_value = x])
    BY <1>4, <1>5, <1>6, <2>2, <2>3 DEF HeaderNameReadyChar
  <2>5. InHeaders("HEADER_VALUE", m, i - 1, p, x)' /\ Silent'
    BY <1>3, <2>4, InHeadersGoes
  <2>6. << >> \in Seq(ValueCh) /\ Split(v, << >>, v)
    <3>1. Split(v, << >>, v)
      BY <1>6, SplitBegins
    <3>2. << >> \in Seq(ValueCh)
      BY NoneIn
    <3> QED BY <3>1, <3>2
  <2>7. /\ Append(<< >>, c) \in Seq(ValueCh) /\ Tail(v) \in Seq(ValueCh)
        /\ Append(<< >>, c) # << >> /\ Split(v, Append(<< >>, c), Tail(v))
    BY <1>6, <2>2, <2>6, SplitMoves
  <2>8. x = Cut(Append(<< >>, c), MaxValue)
    <3>1. MaxValue \in Nat /\ << >> \in Seq(Sent) /\ c \in Sent
      BY <1>6, <2>2, ParserAssumption, ShortTexts
    <3>2. append_max_len(Cut(<< >>, MaxValue), c, MaxValue) = Cut(Append(<< >>, c), MaxValue)
      BY <3>1, CutAppend
    <3>3. Cut(<< >>, MaxValue) = << >>
      BY <3>1, CutNone
    <3> QED BY <2>3, <3>2, <3>3
  <2> QED BY <1>1, <1>2, <2>2, <2>5, <2>7, <2>8 DEF Reading, OnValue
<1> QED BY <1>9, <1>10

LEMMA GivenGrows ==
  ASSUME NEW m, NEW i \in Nat \ {0}
  PROVE  Append(Given(m, i - 1), <<Cut(Name(m, i), MaxName), Cut(Value(m, i), MaxValue)>>)
           = Given(m, i)
<1>1. PICK f : f = [j \in 1 .. i |-> <<Cut(Name(m, j), MaxName), Cut(Value(m, j), MaxValue)>>]
  OBVIOUS
<1>2. PICK T : T = {f[j] : j \in 1 .. i}
  OBVIOUS
<1>3. PICK g : g = Given(m, i - 1)
  OBVIOUS
<1>4. i - 1 \in Nat /\ \A j \in 1 .. i - 1 : j \in 1 .. i
  OBVIOUS
<1>5. g = [j \in 1 .. i - 1 |-> f[j]]
  BY <1>1, <1>3, <1>4 DEF Given
<1>6. g \in Seq(T) /\ Len(g) = i - 1
  <2>1. \A j \in 1 .. i - 1 : g[j] \in T
    BY <1>2, <1>4, <1>5
  <2>2. g = [j \in 1 .. i - 1 |-> g[j]]
    BY <1>5
  <2>3. g \in Seq(T)
    BY <1>4, <2>1, <2>2, ListOf
  <2> QED BY <1>4, <1>5, <2>3
<1>7. f \in Seq(T) /\ Len(f) = i
  <2>1. \A j \in 1 .. i : f[j] \in T
    BY <1>2
  <2>2. f = [j \in 1 .. i |-> f[j]]
    BY <1>1
  <2>3. f \in Seq(T)
    BY <2>1, <2>2, ListOf
  <2> QED BY <1>1, <2>3
<1>8. f[i] \in T /\ i \in 1 .. i
  BY <1>2
<1>9. PICK a : a = Append(g, f[i])
  OBVIOUS
<1>10. /\ a \in Seq(T) /\ Len(a) = i /\ a[i] = f[i]
       /\ \A j \in 1 .. i - 1 : a[j] = g[j]
  <2>1. /\ a \in Seq(T) /\ Len(a) = (i - 1) + 1 /\ a[(i - 1) + 1] = f[i]
        /\ \A j \in 1 .. i - 1 : a[j] = g[j]
    BY <1>6, <1>8, <1>9, AppendProperties
  <2>2. (i - 1) + 1 = i
    OBVIOUS
  <2> QED BY <2>1, <2>2
<1>11. \A j \in 1 .. Len(a) : a[j] = f[j]
  <2>1. \A j \in 1 .. i : j = i \/ j \in 1 .. i - 1
    OBVIOUS
  <2> QED BY <1>5, <1>10, <2>1
<1>12. a = f
  BY <1>7, <1>10, <1>11, SeqEqual
<1>13. f[i] = <<Cut(Name(m, i), MaxName), Cut(Value(m, i), MaxValue)>>
  BY <1>1, <1>8
<1> QED BY <1>1, <1>3, <1>9, <1>12, <1>13 DEF Given

\* A header is kept when its line ends, and with it the length that it says.
LEMMA HeaderKept ==
  ASSUME NEW m \in Messages, CanCount(m), NEW i \in 1 .. Count(m), NEW state, Silent,
         InHeaders(state, m, i - 1, Cut(Name(m, i), MaxName), Cut(Value(m, i), MaxValue)),
         NEW to, Goto(to, handle_header_value_ready(hc))
  PROVE  InHeaders(to, m, i, << >>, << >>)' /\ Silent'
<1>1. PICK none, path, query, len, headers, name, value :
        /\ none = << >> /\ path = PathRead(m) /\ query = QueryRead(m)
        /\ len = LengthAfter(m, i - 1) /\ headers = Given(m, i - 1)
        /\ name = Cut(Name(m, i), MaxName) /\ value = Cut(Value(m, i), MaxValue)
  OBVIOUS
<1>2. hc = Ctx(state, path, query, len, headers, name, value, none)
  BY <1>1 DEF InHeaders
<1>3. PICK n, hs : /\ n = (IF name = <<"L">> THEN strtol(value) ELSE len)
                   /\ hs = AddHeader(headers, <<name, value>>)
  OBVIOUS
<1>4. [handle_header_value_ready(hc) EXCEPT !.req_state = to]
        = Ctx(to, path, query, n, hs, << >>, << >>, none)
  <2>1. PICK h : h = handle_header_value_ready(hc)
    OBVIOUS
  <2>2. h = Ctx(state, path, query, IF name = <<"L">> THEN strtol(value) ELSE len,
                AddHeader(headers, <<name, value>>), << >>, << >>, none)
    BY <1>2, <2>1, CtxReady
  <2>3. h = Ctx(state, path, query, n, hs, << >>, << >>, none)
    BY <1>3, <2>2
  <2>4. [h EXCEPT !.req_state = to] = Ctx(to, path, query, n, hs, << >>, << >>, none)
    BY <2>3, CtxState
  <2> QED BY <2>1, <2>4
<1>5. hc' = Ctx(to, path, query, n, hs, << >>, << >>, none) /\ Silent'
  BY <1>4, GotoIs
<1>6. hs = Given(m, i)
  <2>1. Count(m) \in Nat /\ Count(m) < HeaderCounts
    BY CountPositive DEF CanCount, Count
  <2>2. i \in Nat \ {0} /\ i # HeaderCounts
    BY <2>1, ParserAssumption
  <2>3. Len(headers) + 1 = i
    <3>1. i - 1 \in Nat
      BY <2>2
    <3>2. Len(headers) = i - 1
      BY <1>1, <3>1 DEF Given
    <3> QED BY <2>2, <3>2
  <2>4. hs = Append(headers, <<name, value>>)
    BY <1>3, <2>2, <2>3 DEF AddHeader
  <2> QED BY <1>1, <2>2, <2>4, GivenGrows
<1>7. n = LengthAfter(m, i)
  <2>1. len = 0
    <3>1. Count(m) \in Nat
      BY CountPositive
    <3>2. i - 1 # Count(m)
      BY <3>1
    <3> QED BY <1>1, <3>2 DEF LengthAfter
  <2>2. LengthOf(name, value) = LengthAfter(m, i)
    BY <1>1, HeaderParts
  <2> QED BY <1>3, <2>1, <2>2 DEF LengthOf
<1> QED BY <1>1, <1>5, <1>6, <1>7 DEF InHeaders

LEMMA StepValue ==
  ASSUME NEW m \in Messages, CanCount(m), Silent, OnValue(m), ParseChar(Head(input)), input' = Tail(input)
  PROVE  Silent' /\ Reading(m)'
<1>1. PICK i \in 1 .. Count(m), d \in Seq(ValueCh), r \in Seq(ValueCh) :
        /\ Split(Value(m, i), d, r) /\ d # << >>
        /\ InHeaders("HEADER_VALUE", m, i - 1, Cut(Name(m, i), MaxName), Cut(d, MaxValue))
        /\ input = r \o AfterValue(m, i)
  BY DEF OnValue
<1>2. PICK n, p : n = Cut(Name(m, i), MaxName) /\ p = Cut(d, MaxValue)
  OBVIOUS
<1>3. InHeaders("HEADER_VALUE", m, i - 1, n, p)
  BY <1>1, <1>2
<1>4. hc.req_state = "HEADER_VALUE" /\ hc.header_value = p
  BY <1>3, InHeadersHas
<1>5. PICK c : c = Head(input) /\ HeaderValueChar(c)
  BY <1>4, CharOf
<1>6. /\ ValueCh \subseteq Sent /\ Value(m, i) \in Seq(ValueCh) /\ AfterValue(m, i) \in Seq(Sent)
      /\ Lines(m, i) \in Seq(Sent)
  <2>1. Count(m) \in Nat
    BY CountPositive
  <2>2. i \in 0 .. Count(m)
    BY <2>1
  <2> QED BY <2>2, HeaderParts, LinesAre DEF ValueCh
<1>7. CASE r # << >>
  <2>1. c = Head(r) /\ c \in ValueCh /\ input' = Tail(r) \o AfterValue(m, i)
    BY <1>1, <1>5, <1>6, <1>7, NextOf
  <2>2. /\ Append(d, c) \in Seq(ValueCh) /\ Tail(r) \in Seq(ValueCh) /\ Append(d, c) # << >>
        /\ Split(Value(m, i), Append(d, c), Tail(r))
    BY <1>1, <1>6, <1>7, <2>1, SplitMoves
  <2>3. c # "\r" /\ c # "\n"
    BY <2>1 DEF ValueCh
  <2>4. PICK x : x = append_max_len(p, c, MaxValue)
    OBVIOUS
  <2>5. Goto("HEADER_VALUE", [hc EXCEPT !.header_value = x])
    BY <1>4, <1>5, <2>3, <2>4 DEF HeaderValueChar
  <2>6. InHeaders("HEADER_VALUE", m, i - 1, n, x)' /\ Silent'
    BY <1>3, <2>5, InHeadersGoes
  <2>7. x = Cut(Append(d, c), MaxValue)
    BY <1>1, <1>2, <2>1, <2>4, CutAppend, ParserAssumption
  <2> QED BY <1>1, <1>2, <2>1, <2>2, <2>6, <2>7 DEF Reading, OnValue
<1>8. CASE r = << >>
  <2>1. p = Cut(Value(m, i), MaxValue)
    <3>1. d = Value(m, i)
      BY <1>1, <1>6, <1>8, SplitEnds
    <3> QED BY <1>2, <3>1
  <2>2. input = m.eol \o Lines(m, i)
    <3>1. input = AfterValue(m, i)
      BY <1>1, <1>6, <1>8, NothingBefore
    <3> QED BY <3>1 DEF AfterValue
  <2>3. \/ c = "\n" /\ input' = Lines(m, i)
        \/ c = "\r" /\ input' = <<"\n">> \o Lines(m, i)
    BY <1>5, <1>6, <2>2, LineEnds
  <2>4. CASE c = "\n" /\ input' = Lines(m, i)
    <3>1. Goto("HEADER_VALUE_READY_NL", handle_header_value_ready(hc))
      BY <1>5, <2>4 DEF HeaderValueChar
    <3>2. InHeaders("HEADER_VALUE_READY_NL", m, i, << >>, << >>)' /\ Silent'
      BY <1>2, <1>3, <2>1, <3>1, HeaderKept
    <3> QED BY <1>1, <2>4, <3>2 DEF Reading, OnLine
  <2>5. CASE c = "\r" /\ input' = <<"\n">> \o Lines(m, i)
    <3>1. Goto("HEADER_VALUE_READY", handle_header_value_ready(hc))
      BY <1>5, <2>5 DEF HeaderValueChar
    <3>2. InHeaders("HEADER_VALUE_READY", m, i, << >>, << >>)' /\ Silent'
      BY <1>2, <1>3, <2>1, <3>1, HeaderKept
    <3> QED BY <1>1, <2>5, <3>2 DEF Reading, OnValueReady
  <2> QED BY <2>3, <2>4, <2>5
<1> QED BY <1>7, <1>8

LEMMA StepValueReady ==
  ASSUME NEW m \in Messages, Silent, OnValueReady(m), ParseChar(Head(input)),
         input' = Tail(input)
  PROVE  Silent' /\ Reading(m)'
<1>1. PICK i \in 1 .. Count(m) :
        /\ InHeaders("HEADER_VALUE_READY", m, i, << >>, << >>)
        /\ input = <<"\n">> \o Lines(m, i)
  BY DEF OnValueReady
<1>2. hc.req_state = "HEADER_VALUE_READY"
  BY <1>1, InHeadersHas
<1>3. PICK c : c = Head(input) /\ HeaderValueReadyChar(c)
  BY <1>2, CharOf
<1>4. Lines(m, i) \in Seq(Sent)
  <2>1. Count(m) \in Nat
    BY CountPositive
  <2>2. i \in 0 .. Count(m)
    BY <2>1
  <2> QED BY <2>2, LinesAre
<1>5. PICK s : s = <<"\n">> /\ s \in Seq(Sent) /\ s # << >>
  BY ShortTexts, SomeSent
<1>6. Head(input) = Head(s) /\ input' = Tail(s) \o Lines(m, i)
  BY <1>1, <1>4, <1>5, NextSent
<1>7. c = "\n" /\ input' = Lines(m, i)
  <2>1. Head(s) = "\n" /\ Tail(s) = << >>
    BY <1>5, Heads
  <2>2. << >> \o Lines(m, i) = Lines(m, i)
    BY <1>4, NothingBefore
  <2> QED BY <1>3, <1>6, <2>1, <2>2
<1>8. Goto("HEADER_VALUE_READY_NL", hc)
  BY <1>3, <1>7 DEF HeaderValueReadyChar, Spaces
<1>9. InHeaders("HEADER_VALUE_READY_NL", m, i, << >>, << >>)' /\ Silent'
  BY <1>1, <1>8, InHeadersGoes
<1> QED BY <1>1, <1>7, <1>9 DEF Reading, OnLine

\* The context after the last header, with what was read of the body.
LEMMA InBodyGoes ==
  ASSUME NEW state, NEW m, NEW body, InBody(state, m, body)
  PROVE  /\ hc.req_state = state /\ hc.content_length = Len(m.body)
         /\ hc.path = PathRead(m) /\ hc.query = QueryRead(m)
         /\ hc.headers = Given(m, Count(m)) /\ hc.body = body
         /\ \A to, x : Silent /\ Goto(to, hc) => InBody(to, m, body)' /\ Silent'
         /\ \A to, x : Silent /\ Goto(to, [hc EXCEPT !.body = x]) => InBody(to, m, x)' /\ Silent'
<1>1. PICK none, path, query, len, headers :
        /\ none = << >> /\ path = PathRead(m) /\ query = QueryRead(m)
        /\ len = Len(m.body) /\ headers = Given(m, Count(m))
  OBVIOUS
<1>2. hc = Ctx(state, path, query, len, headers, none, none, body)
  BY <1>1 DEF InBody
<1>3. /\ hc.req_state = state /\ hc.content_length = len /\ hc.path = path
      /\ hc.query = query /\ hc.headers = headers /\ hc.body = body
  BY <1>2, CtxHas
<1>4. ASSUME NEW to, Silent, Goto(to, hc) PROVE InBody(to, m, body)' /\ Silent'
  <2>1. hc' = Ctx(to, path, query, len, headers, none, none, body) /\ Silent'
    BY <1>2, <1>4, GotoCtx
  <2> QED BY <1>1, <2>1 DEF InBody
<1>5. ASSUME NEW to, NEW x, Silent, Goto(to, [hc EXCEPT !.body = x])
      PROVE  InBody(to, m, x)' /\ Silent'
  <2>1. PICK h : h = [hc EXCEPT !.body = x]
    OBVIOUS
  <2>2. h = Ctx(state, path, query, len, headers, none, none, x)
    BY <1>2, <2>1, CtxBody
  <2>3. hc' = Ctx(to, path, query, len, headers, none, none, x) /\ Silent'
    BY <1>5, <2>1, <2>2, GotoCtx
  <2> QED BY <1>1, <2>3 DEF InBody
<1> QED BY <1>1, <1>3, <1>4, <1>5

LEMMA HeadersDone ==
  ASSUME NEW m \in Messages, NEW state, InHeaders(state, m, Count(m), << >>, << >>)
  PROVE  InBody(state, m, << >>)
<1>1. LengthAfter(m, Count(m)) = Len(m.body)
  BY DEF LengthAfter
<1> QED BY <1>1 DEF InHeaders, InBody

\* A request that is handed over as it was read is handed over as it was sent.
LEMMA HandedOver ==
  ASSUME NEW m \in Messages, NEW h, NEW state, Silent, handle_request(state, h),
         h.path = PathRead(m), h.query = QueryRead(m), h.headers = Given(m, Count(m)),
         h.body = m.body
  PROVE  /\ hc' = [h EXCEPT !.req_state = state]
         /\ delivered' = <<Meaning(m)>> /\ rejected' = FALSE
<1>1. PICK r : r = [path |-> h.path, query |-> h.query, headers |-> h.headers, body |-> h.body]
  OBVIOUS
<1>2. /\ hc' = [h EXCEPT !.req_state = state] /\ delivered' = Append(delivered, r)
      /\ rejected' = FALSE
  BY <1>1 DEF handle_request, Silent
<1>3. delivered' = <<r>>
  <2>1. Append(<< >>, r) = <<r>>
    OBVIOUS
  <2> QED BY <1>2, <2>1 DEF Silent
<1>4. Given(m, Count(m))
        = [i \in DOMAIN AllHeaders(m) |->
             <<Cut(AllHeaders(m)[i][1], MaxName), Cut(AllHeaders(m)[i][2], MaxValue)>>]
  BY CountPositive DEF Given, Name, Value
<1>5. r = Meaning(m)
  BY <1>1, <1>4 DEF Meaning, PathRead, QueryRead
<1> QED BY <1>2, <1>3, <1>5

LEMMA EmptyLine ==
  ASSUME NEW m \in Messages, NEW state, Silent, InBody(state, m, << >>), HeadersEnd,
         input' = m.body
  PROVE  Stage(m)'
<1>1. /\ hc.content_length = Len(m.body) /\ hc.path = PathRead(m) /\ hc.query = QueryRead(m)
      /\ hc.headers = Given(m, Count(m)) /\ hc.body = << >>
  BY InBodyGoes
<1>2. MaxBody \in Nat /\ MaxBody >= 2 /\ m.body \in Seq(Sent) /\ Len(m.body) \in Nat
  BY RequestParts, ParserAssumption
<1>3. CASE Len(m.body) = 0
  <2>1. m.body = << >>
    BY <1>2, <1>3, EmptySeq
  <2>2. handle_request("HEADER_READY", hc)
    BY <1>1, <1>3 DEF HeadersEnd
  <2>3. /\ hc' = [hc EXCEPT !.req_state = "HEADER_READY"]
        /\ delivered' = <<Meaning(m)>> /\ rejected' = FALSE
    BY <1>1, <2>1, <2>2, HandedOver
  <2>4. hc'.req_state = "HEADER_READY" /\ hc'.content_length = 0
    <3>1. PICK none, path, query, len, headers :
            /\ none = << >> /\ path = PathRead(m) /\ query = QueryRead(m)
            /\ len = Len(m.body) /\ headers = Given(m, Count(m))
      OBVIOUS
    <3>2. hc = Ctx(state, path, query, len, headers, none, none, none)
      BY <3>1 DEF InBody
    <3>3. hc' = Ctx("HEADER_READY", path, query, len, headers, none, none, none)
      BY <2>3, <3>2, CtxState
    <3>4. hc'.req_state = "HEADER_READY" /\ hc'.content_length = len
      BY <3>3, CtxHas
    <3> QED BY <1>3, <3>1, <3>4
  <2>5. Len(m.body) <= MaxBody
    BY <1>2, <1>3
  <2> QED BY <2>1, <2>3, <2>4, <2>5 DEF Stage, IsRead
<1>4. CASE Len(m.body) # 0
  <2>1. Goto(BodyStart(hc), hc)
    BY <1>1, <1>4 DEF HeadersEnd
  <2>2. CASE Len(m.body) = 1
    <3>1. Goto("BODY", hc)
      BY <1>1, <2>1, <2>2 DEF BodyStart
    <3>2. InBody("BODY", m, << >>)' /\ Silent'
      BY <3>1, InBodyGoes
    <3>3. /\ << >> \in Seq(Sent) /\ Split(m.body, << >>, m.body) /\ m.body # << >>
          /\ Len(<< >>) <= MaxBody
      <4>1. Split(m.body, << >>, m.body)
        BY <1>2, SplitBegins
      <4>2. m.body # << >>
        BY <1>4
      <4> QED BY <1>2, <4>1, <4>2
    <3> QED BY <1>2, <3>2, <3>3 DEF Stage, Reading, OnBody
  <2>3. CASE Len(m.body) # 1
    <3>1. Goto("HEADER_READY", hc)
      BY <1>1, <2>1, <2>3 DEF BodyStart
    <3>2. InBody("HEADER_READY", m, << >>)' /\ Silent'
      BY <3>1, InBodyGoes
    <3> QED BY <1>4, <2>3, <3>2 DEF Stage, Reading, OnHeaderReady
  <2> QED BY <2>2, <2>3
<1> QED BY <1>3, <1>4

LEMMA StepLine ==
  ASSUME NEW m \in Messages, Silent, OnLine(m), ParseChar(Head(input)), input' = Tail(input)
  PROVE  Stage(m)'
<1>1. PICK i \in 1 .. Count(m) :
        /\ InHeaders("HEADER_VALUE_READY_NL", m, i, << >>, << >>)
        /\ input = Lines(m, i) \/ (i = Count(m) /\ input = <<"\n">> \o m.body)
  BY DEF OnLine
<1>2. hc.req_state = "HEADER_VALUE_READY_NL"
  BY <1>1, InHeadersHas
<1>3. PICK c : c = Head(input) /\ HeaderValueReadyNlChar(c)
  BY <1>2, CharOf
<1>4. Count(m) \in Nat /\ m.body \in Seq(Sent)
  BY CountPositive, PiecesSent
<1>5. CASE i # Count(m)
  <2>1. PICK j : j = i + 1 /\ j \in 1 .. Count(m) /\ j - 1 = i
    BY <1>4, <1>5
  <2>2. /\ InHeaders("HEADER_VALUE_READY_NL", m, j - 1, << >>, << >>)
        /\ input = Lines(m, j - 1)
    BY <1>1, <1>5, <2>1
  <2>3. c \notin Spaces /\ (HeaderStarts(c) => Silent' /\ Reading(m)')
    BY <1>3, <2>1, <2>2, HeaderBegins
  <2>4. HeaderStarts(c)
    <3>1. c # "\n"
      BY <2>3 DEF Spaces
    <3> QED BY <1>3, <2>3, <3>1 DEF HeaderValueReadyNlChar
  <2> QED BY <2>3, <2>4 DEF Stage
<1>6. ASSUME c = "\n", input' = m.body, i = Count(m) PROVE Stage(m)'
  <2>1. HeadersEnd
    BY <1>3, <1>6 DEF HeaderValueReadyNlChar, Spaces
  <2>2. InBody("HEADER_VALUE_READY_NL", m, << >>)
    BY <1>1, <1>6, HeadersDone
  <2> QED BY <1>6, <2>1, <2>2, EmptyLine
<1>7. CASE i = Count(m) /\ input = <<"\n">> \o m.body
  <2>1. PICK s : s = <<"\n">> /\ s \in Seq(Sent) /\ s # << >>
    BY ShortTexts, SomeSent
  <2>2. Head(input) = Head(s) /\ input' = Tail(s) \o m.body
    BY <1>4, <1>7, <2>1, NextSent
  <2>3. Head(s) = "\n" /\ Tail(s) = << >>
    BY <2>1, Heads
  <2>4. << >> \o m.body = m.body
    BY <1>4, NothingBefore
  <2> QED BY <1>3, <1>6, <1>7, <2>2, <2>3, <2>4
<1>8. CASE i = Count(m) /\ input = Lines(m, i)
  <2>1. input = m.eol \o m.body
    BY <1>8, LinesAre
  <2>2. \/ c = "\n" /\ input' = m.body
        \/ c = "\r" /\ input' = <<"\n">> \o m.body
    BY <1>3, <1>4, <2>1, LineEnds
  <2>3. CASE c = "\r" /\ input' = <<"\n">> \o m.body
    <3>1. Goto("HEADER_VALUE_READY_NL", hc)
      BY <1>3, <2>3 DEF HeaderValueReadyNlChar, Spaces
    <3>2. InHeaders("HEADER_VALUE_READY_NL", m, i, << >>, << >>)' /\ Silent'
      BY <1>1, <3>1, InHeadersGoes
    <3> QED BY <1>8, <2>3, <3>2 DEF Stage, Reading, OnLine
  <2> QED BY <1>6, <1>8, <2>2, <2>3
<1> QED BY <1>1, <1>5, <1>7, <1>8

LEMMA StepHeaderReady ==
  ASSUME NEW m \in Messages, Silent, OnHeaderReady(m), ParseChar(Head(input)),
         input' = Tail(input)
  PROVE  Stage(m)'
<1>1. /\ InBody("HEADER_READY", m, << >>) /\ input = m.body /\ Len(m.body) \notin {0, 1}
  BY DEF OnHeaderReady
<1>2. hc.req_state = "HEADER_READY" /\ hc.content_length = Len(m.body)
  BY <1>1, InBodyGoes
<1>3. PICK c, b : c = Head(input) /\ HeaderReadyChar(c) /\ b = m.body
  BY <1>2, CharOf
<1>4. /\ b \in Seq(Sent) /\ Len(b) \in Nat /\ Len(b) \notin {0, 1}
      /\ MaxBody \in Nat /\ MaxBody >= 2
  BY <1>1, <1>3, RequestParts, ParserAssumption
<1>5. b # << >> /\ c = Head(b) /\ input' = Tail(b)
  BY <1>1, <1>3, <1>4
<1>6. Goto("BODY", [hc EXCEPT !.body = <<c>>])
  BY <1>1, <1>2, <1>3 DEF HeaderReadyChar, BodyExpected
<1>7. InBody("BODY", m, <<c>>)' /\ Silent'
  BY <1>1, <1>6, InBodyGoes
<1>8. << >> \in Seq(Sent) /\ Split(b, << >>, b)
  BY <1>4, SplitBegins, ShortTexts
<1>9. /\ Append(<< >>, c) \in Seq(Sent) /\ Tail(b) \in Seq(Sent)
      /\ Split(b, Append(<< >>, c), Tail(b))
  BY <1>4, <1>5, <1>8, SplitMoves
<1>10. Append(<< >>, c) = <<c>> /\ Len(<<c>>) = 1
  OBVIOUS
<1>11. Tail(b) # << >>
  <2>1. Len(Tail(b)) = Len(b) - 1
    BY <1>4, <1>5, HeadTailProperties
  <2>2. Len(Tail(b)) # 0
    BY <1>4, <2>1
  <2>3. Len(<< >>) = 0
    OBVIOUS
  <2> QED BY <2>2, <2>3
<1>12. Len(<<c>>) <= MaxBody
  BY <1>4, <1>10
<1>13. OnBody(m)'
  <2>1. PICK d, r : d = <<c>> /\ r = Tail(b)
    OBVIOUS
  <2>2. d \in Seq(Sent) /\ r \in Seq(Sent) /\ Split(b, d, r) /\ r # << >> /\ Len(d) <= MaxBody
    BY <1>9, <1>10, <1>11, <1>12, <2>1
  <2>3. InBody("BODY", m, d)' /\ input' = r
    BY <1>5, <1>7, <2>1
  <2> QED BY <1>3, <2>2, <2>3 DEF OnBody
<1> QED BY <1>7, <1>13 DEF Stage, Reading

LEMMA StepBody ==
  ASSUME NEW m \in Messages, Silent, OnBody(m), ParseChar(Head(input)), input' = Tail(input)
  PROVE  Stage(m)'
<1>1. PICK d \in Seq(Sent), r \in Seq(Sent) :
        /\ Split(m.body, d, r) /\ r # << >> /\ Len(d) <= MaxBody
        /\ InBody("BODY", m, d)
        /\ input = r
  BY DEF OnBody
<1>2. /\ hc.req_state = "BODY" /\ hc.content_length = Len(m.body) /\ hc.path = PathRead(m)
      /\ hc.query = QueryRead(m) /\ hc.headers = Given(m, Count(m)) /\ hc.body = d
  BY <1>1, InBodyGoes
<1>3. PICK c, b, t : c = Head(r) /\ b = Append(d, c) /\ t = Tail(r) /\ BodyChar(c)
  BY <1>1, <1>2, CharOf
<1>4. m.body \in Seq(Sent) /\ MaxBody \in Nat
  BY RequestParts, ParserAssumption
<1>5. b \in Seq(Sent) /\ t \in Seq(Sent) /\ Split(m.body, b, t)
  BY <1>1, <1>3, <1>4, SplitMoves
<1>6. PICK k, n : k = Len(d) /\ n = Len(m.body) /\ k \in Nat /\ n \in Nat
  <2>1. Len(d) \in Nat
    OBVIOUS
  <2>2. Len(m.body) \in Nat
    BY <1>4
  <2> QED BY <2>1, <2>2
<1>7. Len(b) = k + 1 /\ n = (k + 1) + Len(t) /\ Len(t) \in Nat
  <2>1. c \in Sent
    BY <1>1, <1>3, HeadTailProperties
  <2>2. Len(b) = k + 1
    BY <1>1, <1>3, <1>6, <2>1, AppendProperties
  <2>3. Len(b \o t) = Len(b) + Len(t)
    BY <1>5, ConcatProperties
  <2>4. b \o t = m.body
    BY <1>5 DEF Split
  <2> QED BY <1>5, <1>6, <2>2, <2>3, <2>4
<1>8. CASE k >= MaxBody
  <2>1. handle_invalid
    <3>1. Len(hc.body) >= MaxBody /\ ~(Len(hc.body) < MaxBody)
      BY <1>2, <1>4, <1>6, <1>8
    <3> QED BY <1>3, <3>1 DEF BodyChar
  <2>2. n > MaxBody
    BY <1>4, <1>6, <1>7, <1>8
  <2>3. hc' = [hc EXCEPT !.req_state = "INVALID"] /\ delivered' = << >> /\ rejected' = TRUE
    BY <2>1 DEF handle_invalid, Silent
  <2>4. hc'.req_state = "INVALID"
    <3>1. PICK none, path, query, len, headers :
            /\ none = << >> /\ path = PathRead(m) /\ query = QueryRead(m)
            /\ len = Len(m.body) /\ headers = Given(m, Count(m))
      OBVIOUS
    <3>2. hc = Ctx("BODY", path, query, len, headers, none, none, d)
      BY <1>1, <3>1 DEF InBody
    <3>3. hc' = Ctx("INVALID", path, query, len, headers, none, none, d)
      BY <2>3, <3>2, CtxState
    <3> QED BY <3>3, CtxHas
  <2> QED BY <1>6, <2>2, <2>3, <2>4 DEF Stage, IsTooLong
<1>9. CASE k < MaxBody /\ t = << >>
  <2>1. BodyComplete(b) /\ b = m.body /\ n <= MaxBody
    <3>1. Len(t) = 0
      BY <1>9
    <3>2. b = m.body
      BY <1>4, <1>5, <1>9, SplitEnds
    <3> QED BY <1>2, <1>4, <1>6, <1>7, <1>9, <3>1, <3>2 DEF BodyComplete
  <2>2. PICK h : h = [hc EXCEPT !.body = b]
    OBVIOUS
  <2>3. handle_request("BODY_READY", h)
    <3>1. Len(d) < MaxBody /\ ~(Len(d) >= MaxBody)
      BY <1>4, <1>6, <1>9
    <3> QED BY <1>2, <1>3, <2>1, <2>2, <3>1 DEF BodyChar
  <2>4. PICK none, path, query, len, headers :
          /\ none = << >> /\ path = PathRead(m) /\ query = QueryRead(m)
          /\ len = Len(m.body) /\ headers = Given(m, Count(m))
    OBVIOUS
  <2>5. h = Ctx("BODY", path, query, len, headers, none, none, b)
    <3>1. hc = Ctx("BODY", path, query, len, headers, none, none, d)
      BY <1>1, <2>4 DEF InBody
    <3> QED BY <2>2, <3>1, CtxBody
  <2>6. h.path = path /\ h.query = query /\ h.headers = headers /\ h.body = b
    BY <2>5, CtxHas
  <2>7. /\ hc' = [h EXCEPT !.req_state = "BODY_READY"]
        /\ delivered' = <<Meaning(m)>> /\ rejected' = FALSE
    BY <2>1, <2>3, <2>4, <2>6, HandedOver
  <2>8. hc'.req_state = "BODY_READY"
    <3>1. hc' = Ctx("BODY_READY", path, query, len, headers, none, none, b)
      BY <2>5, <2>7, CtxState
    <3> QED BY <3>1, CtxHas
  <2>9. input' = << >>
    BY <1>1, <1>3, <1>9
  <2> QED BY <1>6, <2>1, <2>7, <2>8, <2>9 DEF Stage, IsRead
<1>10. CASE k < MaxBody /\ t # << >>
  <2>1. ~BodyComplete(b)
    <3>1. Len(t) # 0
      BY <1>5, <1>10, EmptySeq
    <3> QED BY <1>2, <1>6, <1>7, <3>1 DEF BodyComplete
  <2>2. Goto("BODY", [hc EXCEPT !.body = b])
    <3>1. ~(Len(d) >= MaxBody)
      BY <1>4, <1>6, <1>10
    <3> QED BY <1>2, <1>3, <2>1, <3>1 DEF BodyChar
  <2>3. InBody("BODY", m, b)' /\ Silent'
    BY <1>1, <2>2, InBodyGoes
  <2>4. Len(b) <= MaxBody
    BY <1>4, <1>6, <1>7, <1>10
  <2>5. input' = t
    BY <1>1, <1>3
  <2> QED BY <1>5, <1>10, <2>3, <2>4, <2>5 DEF Stage, Reading, OnBody
<1> QED BY <1>4, <1>6, <1>8, <1>9, <1>10

\* What is left of a request is never nothing before its body.
LEMMA MoreToCome ==
  ASSUME NEW m \in Messages
  PROVE  /\ \A s \in Seq(Sent) :
              /\ s \o AfterPath(m) # << >> /\ s \o AfterQuery(m) # << >>
              /\ s \o AfterFragment(m) # << >> /\ s \o AfterProto(m) # << >>
              /\ s \o (m.path \o AfterPath(m)) # << >>
         /\ \A i \in 1 .. Count(m) : \A s \in Seq(Sent) :
              s \o AfterName(m, i) # << >> /\ s \o AfterValue(m, i) # << >>
              /\ s \o (Value(m, i) \o AfterValue(m, i)) # << >>
         /\ \A i \in 0 .. Count(m) : \A s \in Seq(Sent) : s \o Lines(m, i) # << >>
<1>1. m.eol \in Seq(Sent) /\ m.eol # << >>
  <2>1. m.eol = <<"\n">> \/ m.eol = <<"\r", "\n">>
    BY RequestParts
  <2>2. <<"\n">> # << >> /\ <<"\r", "\n">> # << >>
    OBVIOUS
  <2> QED BY <2>1, <2>2, PiecesSent, Zenon
<1>2. ASSUME NEW s, NEW t, s \in Seq(Sent), t \in Seq(Sent), s # << >> \/ t # << >>
      PROVE  s \o t # << >>
  BY <1>2, FollowedBy
<1>3. Count(m) \in Nat
  BY CountPositive
<1>4. \A i \in 0 .. Count(m) : Lines(m, i) \in Seq(Sent)
  BY LinesAre
<1>5. ASSUME NEW i \in 1 .. Count(m)
      PROVE  /\ AfterName(m, i) \in Seq(Sent) /\ AfterValue(m, i) \in Seq(Sent)
             /\ Value(m, i) \in Seq(Sent) /\ AfterName(m, i) # << >> /\ AfterValue(m, i) # << >>
  <2>1. /\ AfterName(m, i) \in Seq(Sent) /\ AfterValue(m, i) \in Seq(Sent)
        /\ Value(m, i) \in Seq(Sent) /\ Lines(m, i) \in Seq(Sent)
    <3>1. i \in 0 .. Count(m)
      BY <1>3
    <3> QED BY <1>4, <3>1, LinesAre, PiecesSent
  <2>2. AfterValue(m, i) # << >>
    BY <1>1, <1>2, <2>1 DEF AfterValue
  <2>3. Value(m, i) \o AfterValue(m, i) \in Seq(Sent)
    BY <2>1, ConcatProperties
  <2>4. <<":", " ">> \in Seq(Sent) /\ <<":", " ">> # << >>
    BY LiteralsSent
  <2>5. AfterName(m, i) # << >>
    BY <1>2, <2>3, <2>4 DEF AfterName
  <2> QED BY <2>1, <2>2, <2>5
<1>6. ASSUME NEW i \in 0 .. Count(m) PROVE Lines(m, i) # << >>
  <2>1. CASE i = Count(m)
    <3>1. Lines(m, i) = m.eol \o m.body /\ m.body \in Seq(Sent)
      BY <2>1, LinesAre, PiecesSent
    <3> QED BY <1>1, <1>2, <3>1
  <2>2. CASE i # Count(m)
    <3>1. PICK j : j = i + 1 /\ j \in 1 .. Count(m) /\ j - 1 = i
      BY <1>3, <2>2
    <3>2. Lines(m, i) = Name(m, j) \o AfterName(m, j)
      BY <3>1, LinesAre
    <3>3. Name(m, j) \in Seq(Sent)
      BY <3>1, PiecesSent
    <3> QED BY <1>2, <1>5, <3>1, <3>2, <3>3
  <2> QED BY <2>1, <2>2
<1>7. /\ AfterProto(m) \in Seq(Sent) /\ AfterFragment(m) \in Seq(Sent)
      /\ AfterQuery(m) \in Seq(Sent) /\ AfterPath(m) \in Seq(Sent) /\ m.path \in Seq(Sent)
      /\ m.path \o AfterPath(m) \in Seq(Sent)
  BY TextIs, PiecesSent
<1>8. AfterProto(m) # << >>
  <2>1. Lines(m, 0) \in Seq(Sent)
    <3>1. 0 \in 0 .. Count(m)
      BY <1>3
    <3> QED BY <1>4, <3>1
  <2> QED BY <1>1, <1>2, <2>1 DEF AfterProto
<1>9. AfterFragment(m) # << >>
  <2>1. <<" ", "a", "/", "1">> \in Seq(Sent)
    BY LiteralsSent
  <2> QED BY <1>2, <1>7, <1>8, <2>1 DEF AfterFragment
<1>10. AfterQuery(m) # << >>
  <2>1. m.fragment \in Seq(Sent)
    BY PiecesSent
  <2> QED BY <1>2, <1>7, <1>9, <2>1 DEF AfterQuery
<1>11. AfterPath(m) # << >>
  <2>1. PICK q : q = (IF m.query = << >> THEN << >> ELSE <<"?">> \o m.query)
    OBVIOUS
  <2>2. q \in Seq(Sent)
    <3>1. << >> \in Seq(Sent) /\ <<"?">> \o m.query \in Seq(Sent)
      BY NoneIn, PiecesSent, LiteralsSent, ConcatProperties
    <3> QED BY <2>1, <3>1
  <2>3. AfterPath(m) = q \o AfterQuery(m)
    BY <2>1 DEF AfterPath
  <2> QED BY <1>2, <1>7, <1>10, <2>2, <2>3
<1>12. m.path \o AfterPath(m) # << >>
  BY <1>2, <1>7, <1>11
<1>13. ASSUME NEW i \in 1 .. Count(m)
       PROVE  /\ Value(m, i) \o AfterValue(m, i) \in Seq(Sent)
              /\ Value(m, i) \o AfterValue(m, i) # << >>
  <2>1. Value(m, i) \o AfterValue(m, i) \in Seq(Sent)
    BY <1>5, ConcatProperties
  <2> QED BY <1>2, <1>5, <2>1
<1>14. ASSUME NEW s \in Seq(Sent)
       PROVE  /\ s \o AfterPath(m) # << >> /\ s \o AfterQuery(m) # << >>
              /\ s \o AfterFragment(m) # << >> /\ s \o AfterProto(m) # << >>
              /\ s \o (m.path \o AfterPath(m)) # << >>
  BY <1>2, <1>7, <1>8, <1>9, <1>10, <1>11, <1>12
<1>15. ASSUME NEW i \in 1 .. Count(m), NEW s \in Seq(Sent)
       PROVE  s \o AfterName(m, i) # << >> /\ s \o AfterValue(m, i) # << >>
              /\ s \o (Value(m, i) \o AfterValue(m, i)) # << >>
  BY <1>2, <1>5, <1>13
<1>16. ASSUME NEW i \in 0 .. Count(m), NEW s \in Seq(Sent) PROVE s \o Lines(m, i) # << >>
  BY <1>2, <1>4, <1>6
<1> QED BY <1>14, <1>15, <1>16

LEMMA ReadingOn ==
  ASSUME NEW m \in Messages, Reading(m)
  PROVE  input # << >> /\ hc.req_state # "IDLE"
<1>1. CASE OnMethod(m)
  <2>1. PICK state, s :
          /\ \/ state = "NEW" /\ s = <<"a", "a", " ", "/">>
             \/ state = "METHOD" /\ s \in {<<"a", " ", "/">>, <<" ", "/">>}
             \/ state = "METHOD_READY" /\ s = <<"/">>
          /\ InLine(state, << >>, << >>)
          /\ input = s \o (m.path \o AfterPath(m))
    BY <1>1 DEF OnMethod
  <2>2. s \in Seq(Sent)
    BY <2>1, LiteralsSent, ShortTexts, SomeSent
  <2>3. hc.req_state = state
    BY <2>1, InLineHas
  <2> QED BY <2>1, <2>2, <2>3, MoreToCome
<1>2. CASE OnPath(m)
  <2>1. PICK d \in Seq(PathCh), r \in Seq(PathCh) :
          InLine("PATH", Cut(<<"/">> \o d, MaxPath), << >>) /\ input = r \o AfterPath(m)
    BY <1>2 DEF OnPath
  <2>2. r \in Seq(Sent)
    <3>1. PathCh \subseteq Sent
      BY DEF PathCh
    <3> QED BY <3>1, SeqMonotonic
  <2> QED BY <2>1, <2>2, InLineHas, MoreToCome
<1>3. CASE OnQuery(m)
  <2>1. PICK d \in Seq(QueryCh), r \in Seq(QueryCh) :
          InLine("QUERY", PathRead(m), Cut(d, MaxQuery)) /\ input = r \o AfterQuery(m)
    BY <1>3 DEF OnQuery
  <2>2. r \in Seq(Sent)
    <3>1. QueryCh \subseteq Sent
      BY DEF QueryCh
    <3> QED BY <3>1, SeqMonotonic
  <2> QED BY <2>1, <2>2, InLineHas, MoreToCome
<1>4. CASE OnFragment(m)
  <2>1. PICK s \in {<<"a">>, << >>} : input = s \o AfterFragment(m)
    BY <1>4 DEF OnFragment
  <2>2. s \in Seq(Sent)
    BY ShortTexts, SomeSent
  <2>3. InLine("FRAGMENT", PathRead(m), QueryRead(m))
    BY <1>4 DEF OnFragment
  <2> QED BY <2>1, <2>2, <2>3, InLineHas, MoreToCome
<1>5. CASE OnProto(m)
  <2>1. PICK state, s :
          /\ \/ state = "FRAGMENT_READY" /\ s = <<"a", "/", "1">>
             \/ state = "PROTO" /\ s \in {<<"/", "1">>, <<"1">>, << >>}
          /\ InLine(state, PathRead(m), QueryRead(m))
          /\ input = s \o AfterProto(m)
    BY <1>5 DEF OnProto
  <2>2. s \in Seq(Sent)
    BY <2>1, ShortTexts, SomeSent
  <2>3. hc.req_state = state
    BY <2>1, InLineHas
  <2> QED BY <2>1, <2>2, <2>3, MoreToCome
<1>6. CASE OnProtoReady(m)
  <2>1. PICK s \in {<<"\n">>, << >>} : input = s \o Lines(m, 0)
    BY <1>6 DEF OnProtoReady
  <2>2. s \in Seq(Sent)
    BY ShortTexts, SomeSent
  <2>3. InLine("PROTO_READY", PathRead(m), QueryRead(m))
    BY <1>6 DEF OnProtoReady
  <2>4. 0 \in 0 .. Count(m)
    <3>1. Count(m) \in Nat
      BY CountPositive
    <3> QED BY <3>1
  <2> QED BY <2>1, <2>2, <2>3, <2>4, InLineHas, MoreToCome
<1>7. CASE OnName(m)
  <2>1. PICK i \in 1 .. Count(m), d \in Seq(NameCh), r \in Seq(NameCh) :
          InHeaders("HEADER_NAME", m, i - 1, Cut(d, MaxName), << >>)
          /\ input = r \o AfterName(m, i)
    BY <1>7 DEF OnName
  <2>2. r \in Seq(Sent)
    <3>1. NameCh \subseteq Sent
      BY DEF NameCh
    <3> QED BY <3>1, SeqMonotonic
  <2> QED BY <2>1, <2>2, InHeadersHas, MoreToCome
<1>8. CASE OnNameReady(m)
  <2>1. PICK i \in 1 .. Count(m), s \in {<<" ">>, << >>} :
          /\ InHeaders("HEADER_NAME_READY", m, i - 1, Cut(Name(m, i), MaxName), << >>)
          /\ input = s \o (Value(m, i) \o AfterValue(m, i))
    BY <1>8 DEF OnNameReady
  <2>2. s \in Seq(Sent)
    BY ShortTexts, SomeSent
  <2>3. s \o (Value(m, i) \o AfterValue(m, i)) # << >>
    BY <2>2, MoreToCome
  <2>4. hc.req_state = "HEADER_NAME_READY"
    BY <2>1, InHeadersHas
  <2> QED BY <2>1, <2>3, <2>4
<1>9. CASE OnValue(m)
  <2>1. PICK i \in 1 .. Count(m), d \in Seq(ValueCh), r \in Seq(ValueCh) :
          /\ InHeaders("HEADER_VALUE", m, i - 1, Cut(Name(m, i), MaxName), Cut(d, MaxValue))
          /\ input = r \o AfterValue(m, i)
    BY <1>9 DEF OnValue
  <2>2. r \in Seq(Sent)
    <3>1. ValueCh \subseteq Sent
      BY DEF ValueCh
    <3> QED BY <3>1, SeqMonotonic
  <2> QED BY <2>1, <2>2, InHeadersHas, MoreToCome
<1>10. CASE OnValueReady(m)
  <2>1. PICK i \in 1 .. Count(m) :
          /\ InHeaders("HEADER_VALUE_READY", m, i, << >>, << >>)
          /\ input = <<"\n">> \o Lines(m, i)
    BY <1>10 DEF OnValueReady
  <2>2. <<"\n">> \in Seq(Sent) /\ i \in 0 .. Count(m)
    <3>1. Count(m) \in Nat
      BY CountPositive
    <3>2. i \in 0 .. Count(m)
      BY <3>1
    <3>3. <<"\n">> \in Seq(Sent)
      BY ShortTexts, SomeSent
    <3> QED BY <3>2, <3>3
  <2> QED BY <2>1, <2>2, InHeadersHas, MoreToCome
<1>11. CASE OnLine(m)
  <2>1. PICK i \in 1 .. Count(m) :
          /\ InHeaders("HEADER_VALUE_READY_NL", m, i, << >>, << >>)
          /\ input = Lines(m, i) \/ (i = Count(m) /\ input = <<"\n">> \o m.body)
    BY <1>11 DEF OnLine
  <2>2. i \in 0 .. Count(m)
    <3>1. Count(m) \in Nat
      BY CountPositive
    <3> QED BY <3>1
  <2>3. Lines(m, i) # << >>
    <3>1. << >> \o Lines(m, i) # << >> /\ Lines(m, i) \in Seq(Sent)
      BY <2>2, NoneIn, MoreToCome, LinesAre
    <3> QED BY <3>1, NothingBefore
  <2>4. <<"\n">> \o m.body # << >>
    <3>1. <<"\n">> \in Seq(Sent) /\ <<"\n">> # << >> /\ m.body \in Seq(Sent)
      BY ShortTexts, SomeSent, PiecesSent
    <3> QED BY <3>1, FollowedBy
  <2> QED BY <2>1, <2>3, <2>4, InHeadersHas
<1>12. CASE OnHeaderReady(m)
  <2>1. Len(m.body) # 0 /\ InBody("HEADER_READY", m, << >>) /\ input = m.body
    BY <1>12 DEF OnHeaderReady
  <2>2. Len(<< >>) = 0
    OBVIOUS
  <2> QED BY <2>1, <2>2, InBodyGoes
<1>13. CASE OnBody(m)
  BY <1>13, InBodyGoes DEF OnBody
<1> QED BY <1>1, <1>2, <1>3, <1>4, <1>5, <1>6, <1>7, <1>8, <1>9, <1>10, <1>11, <1>12, <1>13
     DEF Reading

\* A character that arrives takes a request on.
LEMMA StepRequest ==
  ASSUME NEW m \in Messages, CanCount(m), Stage(m), input # << >>, ParseChar(Head(input)),
         input' = Tail(input)
  PROVE  Stage(m)'
<1>1. CASE IsTooLong(m)
  <2>1. InvalidChar(Head(input))
    BY <1>1, CharOf DEF IsTooLong
  <2>2. hc' = [hc EXCEPT !.req_state = "INVALID"] /\ delivered' = delivered /\ rejected' = TRUE
    BY <2>1 DEF InvalidChar, handle_invalid
  <2>3. hc.req_state = "INVALID"
    BY <1>1 DEF IsTooLong
  <2>4. hc'.req_state = "INVALID"
    BY <2>2, <2>3
  <2> QED BY <1>1, <2>2, <2>4 DEF IsTooLong, Stage
<1>2. CASE Silent /\ Reading(m)
  <2>1. (Silent' /\ Reading(m)') => Stage(m)'
    BY DEF Stage
  <2> QED BY <1>2, <2>1, StepMethod, StepPath, StepQuery, StepFragment, StepProto,
             StepProtoReady, StepName, StepNameReady, StepValue, StepValueReady, StepLine,
             StepHeaderReady, StepBody
          DEF Reading
<1>3. ~IsRead(m)
  BY DEF IsRead
<1> QED BY <1>1, <1>2, <1>3 DEF Stage

\* No character makes a context in use an idle one.
LEMMA StaysInUse ==
  ASSUME InUse, NEW c, ParseChar(c)
  PROVE  InUse'
<1> DEFINE From(h) == DOMAIN h = DOMAIN hc
<1>1. ASSUME NEW state, state # "IDLE", NEW h, From(h), Goto(state, h)
      PROVE  InUse'
  BY <1>1 DEF Goto, InUse
<1>2. ASSUME NEW state, state # "IDLE", NEW h, From(h), handle_request(state, h)
      PROVE  InUse'
  BY <1>2 DEF handle_request, InUse
<1>3. handle_invalid => InUse'
  BY DEF handle_invalid, InUse
<1>4. From(hc)
  OBVIOUS
<1>5. \A x : /\ From([hc EXCEPT !.path = x]) /\ From([hc EXCEPT !.query = x])
             /\ From([hc EXCEPT !.header_name = x]) /\ From([hc EXCEPT !.header_value = x])
             /\ From([hc EXCEPT !.body = x])
  OBVIOUS
<1>6. From(handle_header_value_ready(hc))
  BY DEF handle_header_value_ready
<1> HIDE DEF From
<1>7. CASE NewChar(c) \/ InvalidChar(c) \/ MethodChar(c) \/ MethodReadyChar(c)
  BY <1>1, <1>3, <1>4, <1>5, <1>7 DEF NewChar, InvalidChar, MethodChar, MethodReadyChar
<1>8. CASE PathChar(c) \/ QueryChar(c)
  BY <1>1, <1>4, <1>5, <1>8 DEF PathChar, QueryChar
<1>9. CASE FragmentChar(c) \/ FragmentReadyChar(c) \/ ProtoChar(c)
  BY <1>1, <1>4, <1>9 DEF FragmentChar, FragmentReadyChar, ProtoChar
<1>10. CASE ProtoReadyChar(c) \/ HeaderNameChar(c) \/ HeaderValueReadyChar(c)
  BY <1>1, <1>4, <1>5, <1>10
     DEF ProtoReadyChar, HeaderNameChar, HeaderValueReadyChar, HeaderStarts
<1>11. CASE HeaderNameReadyChar(c) \/ HeaderValueChar(c)
  BY <1>1, <1>4, <1>5, <1>6, <1>11 DEF HeaderNameReadyChar, HeaderValueChar
<1>12. CASE HeaderValueReadyNlChar(c)
  BY <1>1, <1>2, <1>4, <1>5, <1>12
     DEF HeaderValueReadyNlChar, HeaderStarts, HeadersEnd, BodyStart
<1>13. CASE HeaderReadyChar(c) \/ BodyChar(c)
  BY <1>1, <1>2, <1>3, <1>4, <1>5, <1>13 DEF HeaderReadyChar, BodyChar
<1> QED BY <1>7, <1>8, <1>9, <1>10, <1>11, <1>12, <1>13 DEF ParseChar

\* Understood for every path, query, header and body that fits the assumption, of a
\* request whose headers can be counted; also after requests whose headers cannot.
THEOREM RequestsUnderstood == MessageSpec => []Understood
<1>1. MessageInit => MessageIInv
  BY DEF MessageInit, Init, MessageIInv, Silent
<1>2. MessageIInv /\ [MessageNext]_<<vars, message_vars>> => MessageIInv'
  <2> SUFFICES ASSUME MessageIInv, [MessageNext]_<<vars, message_vars>> PROVE MessageIInv'
    OBVIOUS
  <2>1. ASSUME NEW m \in Messages, Connect(m) PROVE MessageIInv'
    <3>1. hc.req_state = "IDLE" /\ Goto("NEW", hc) /\ message' = m /\ input' = Text(m)
      BY <2>1 DEF Connect, SetupConnection
    <3>2. ~InUse
      BY <3>1 DEF InUse
    <3>3. hc = EmptyContext /\ Silent
      BY <3>2 DEF MessageIInv
    <3>4. InLine("IDLE", << >>, << >>)
      BY <3>3 DEF InLine, Ctx, EmptyContext
    <3>5. InLine("NEW", << >>, << >>)' /\ Silent'
      BY <3>1, <3>3, <3>4, InLineGoes
    <3>6. input' = <<"a", "a", " ", "/">> \o (m.path \o AfterPath(m))
      BY <3>1, TextIs
    <3>7. Stage(m)'
      BY <3>5, <3>6 DEF Stage, Reading, OnMethod
    <3>8. InUse'
      BY <3>1, <3>3 DEF Goto, EmptyContext, InUse
    <3> QED BY <3>1, <3>7, <3>8 DEF MessageIInv
  <2>2. ASSUME Arrive PROVE MessageIInv'
    <3>1. /\ input # << >> /\ ParseChar(Head(input)) /\ input' = Tail(input)
          /\ message' = message
      BY <2>2 DEF Arrive
    <3>2. message \in Messages /\ InUse /\ (CanCount(message) => Stage(message))
      BY <3>1 DEF MessageIInv
    <3>3. PICK m : m = message /\ m \in Messages /\ m = message'
      BY <3>1, <3>2
    <3>4. CanCount(m) => Stage(m)'
      BY <3>1, <3>2, <3>3, StepRequest
    <3>5. CanCount(message') => Stage(message)'
      BY <3>3, <3>4
    <3>6. InUse'
      BY <3>1, <3>2, StaysInUse
    <3> QED BY <3>1, <3>2, <3>5, <3>6 DEF MessageIInv
  <2>3. ASSUME Disconnect PROVE MessageIInv'
    BY <2>3 DEF Disconnect, httpserver_context_reset, ResetContext, MessageIInv, Silent
  <2>4. CASE UNCHANGED <<vars, message_vars>>
    <3>1. /\ hc' = hc /\ delivered' = delivered /\ rejected' = rejected
          /\ message' = message /\ input' = input
      BY <2>4 DEF vars, message_vars
    <3>2. ASSUME NEW m, Reading(m) PROVE Reading(m)'
      BY <3>1, <3>2 DEF Reading, OnMethod, OnPath, OnQuery, OnFragment, OnProto, OnProtoReady,
         OnName, OnNameReady, OnValue, OnValueReady, OnLine, OnHeaderReady, OnBody,
         InLine, InHeaders, InBody
    <3>3. ASSUME NEW m, Stage(m) PROVE Stage(m)'
      BY <3>1, <3>2, <3>3 DEF Stage, Silent, IsRead, IsTooLong
    <3> QED BY <3>1, <3>3 DEF MessageIInv, Silent, InUse
  <2> QED BY <2>1, <2>2, <2>3, <2>4 DEF MessageNext
<1>3. MessageIInv => Understood
  <2> SUFFICES ASSUME MessageIInv, message # NoMessage, CanCount(message) PROVE Understood
    BY DEF Understood
  <2>1. message \in Messages /\ Stage(message)
    BY DEF MessageIInv
  <2>2. Len(message.body) \in Nat /\ MaxBody \in Nat
    BY <2>1, RequestParts, ParserAssumption
  <2>3. CASE IsRead(message)
    BY <2>3 DEF IsRead, Understood
  <2>4. CASE IsTooLong(message)
    BY <2>2, <2>4 DEF IsTooLong, Understood
  <2>5. CASE Silent /\ Reading(message)
    BY <2>1, <2>5, ReadingOn DEF Silent, Understood
  <2> QED BY <2>1, <2>3, <2>4, <2>5 DEF Stage
<1> QED BY <1>1, <1>2, <1>3, PTL DEF MessageSpec

================================================================================
