----------------------------- MODULE HttpParse ------------------------------
(***************************************************************************)
(* The two parsers of http_parse.c and the loop of dorequest that calls    *)
(* them.  A read takes any number of bytes that are there; each pass of a  *)
(* parser's loop over the bytes is a step.  Only req->pos and req->state   *)
(* live from one call to the next, and the marks a parser sets in req;     *)
(* positions are offsets into req->buf.                                    *)
(***************************************************************************)
EXTENDS Naturals, Sequences

CONSTANTS
  Upper,      \* the bytes 'A'..'Z' and '_'
  Other,      \* every byte but those and the four named below
  Requests,   \* requests in good form that a client may send
  Inputs,     \* other byte sequences that a client may send
  MAX_BUF,
  NULL

SP == "SP"
COLON == "COLON"
CR == "CR"
LF == "LF"
Bytes == Upper \cup Other \cup {SP, COLON, CR, LF}

Word(set) == Seq(set) \ {<<>>}

\* A request in good form has a header at least, and no header without a value.
Header == [key : Word(Upper \cup Other), gap : Seq({SP}), lead : Seq({SP}),
           value : Word(Bytes \ {CR, LF})]

WellFormed(r) ==
  /\ r.method \in Word(Upper) /\ r.url \in Seq(Bytes \ {SP})
  /\ r.protocol \in Seq(Bytes \ {SP, CR}) /\ r.gap \in Seq({SP})
  /\ r.headers \in Word(Header) /\ \A i \in DOMAIN r.headers : r.headers[i].value[1] # SP
  /\ r.rest \in Seq(Bytes)

ASSUME BytesAssumption ==
  /\ Upper \cap Other = {} /\ (Upper \cup Other) \cap {SP, COLON, CR, LF} = {}
  /\ MAX_BUF \in Nat /\ NULL \notin Nat /\ Inputs \subseteq Seq(Bytes)

VARIABLES
  input,    \* the bytes the client sends
  sent,     \* the request they encode, or NULL
  last,     \* req->last: how many of them were read
  pos,      \* req->pos
  state,    \* req->state
  line,     \* the marks the first parser sets
  cur,      \* the marks of the current header
  list,     \* the headers saved so far, the latest first
  pc,       \* "read" in dorequest, "line" or "header" in a parser's loop, or
            \* how the request ended: "parsed" or "closed"
  p, st     \* the parser's locals p and state

reqVars == <<last, pos, state, line, cur, list>>
vars == <<input, sent, reqVars, pc, p, st>>

LineStates == {"line_start", "method", "url", "protocol", "space_end", "CR_end"}
HeadStates == {"head_start", "key", "spaces_before_colon", "spaces_after_colon", "value",
               "cr", "crlf", "crlfcr"}

Mark == Nat \cup {NULL}
LineMarks == [method_start : Mark, method_end : Mark, url_start : Mark, url_end : Mark,
              protocol_start : Mark, protocol_end : Mark]
HeaderMarks == [key_start : Mark, key_end : Mark, value_start : Mark, value_end : Mark]

TypeOK ==
  /\ input \in Seq(Bytes)
  /\ last \in 0..Len(input) /\ last <= MAX_BUF /\ pos \in 0..last /\ p \in pos..last
  /\ state \in LineStates \cup HeadStates /\ st \in LineStates \cup HeadStates
  /\ pc \in {"read", "line", "header", "parsed", "closed"}
  /\ pc = "header" => st \in HeadStates
  /\ line \in LineMarks /\ cur \in HeaderMarks /\ list \in Seq(HeaderMarks)

-----------------------------------------------------------------------------
(* What a request looks like on the wire *)

EncodedHeader(h) == h.key \o h.gap \o <<COLON>> \o h.lead \o h.value \o <<CR, LF>>

\* The first n headers of hs, for each n.
EncodedHeaders(hs) ==
  LET upto[n \in 0..Len(hs)] == IF n = 0 THEN <<>> ELSE upto[n - 1] \o EncodedHeader(hs[n])
  IN  upto

Encoded(r) ==
  r.method \o <<SP>> \o r.url \o <<SP>> \o r.protocol \o r.gap \o <<CR, LF>>
    \o EncodedHeaders(r.headers)[Len(r.headers)] \o <<CR, LF>>

ASSUME RequestsAssumption == \A r \in Requests : WellFormed(r)

\* init_request_t, or init_request_t_copy after a request that was answered
Init ==
  /\ \/ \E r \in Requests : sent = r /\ input = Encoded(r) \o r.rest
     \/ sent = NULL /\ input \in Inputs
  /\ last = 0 /\ pos = 0 /\ state = "line_start"
  /\ line = [method_start |-> NULL, method_end |-> NULL, url_start |-> NULL, url_end |-> NULL,
             protocol_start |-> NULL, protocol_end |-> NULL]
  /\ cur = [key_start |-> NULL, key_end |-> NULL, value_start |-> NULL, value_end |-> NULL]
  /\ list = <<>>
  /\ pc = "read" /\ p = 0 /\ st = "line_start"

-----------------------------------------------------------------------------
(* dorequest *)

\* A read returns some of the bytes and http_parse_request_line is called.
Read ==
  /\ pc = "read"
  /\ \E n \in (last + 1)..Len(input) : n <= MAX_BUF /\ last' = n
  /\ pc' = "line" /\ p' = pos /\ st' = state
  /\ UNCHANGED <<input, sent, pos, state, line, cur, list>>

\* No room is left: read returns 0, and so it does when the client hangs up.
ReadNothing ==
  /\ pc = "read" /\ pc' = "closed"
  /\ UNCHANGED <<input, sent, reqVars, p, st>>

\* Mutation: the state is not saved
NotSaved == state

\* A parser used up the bytes: it saves where it is and returns DLY_EAGAIN.
Saved == st

Again ==
  /\ pc \in {"line", "header"} /\ p = last
  /\ pos' = p /\ state' = Saved /\ pc' = "read"
  /\ UNCHANGED <<input, sent, last, line, cur, list, p, st>>

-----------------------------------------------------------------------------
(* The steps of the parsers' loops *)

ch == input[p + 1]

In(parser, s) == pc = parser /\ st = s /\ p < last

Goes(s) == st' = s /\ p' = p + 1 /\ UNCHANGED <<input, sent, last, pos, state, pc>>

\* A syntax error: neither position nor state is saved, the request is closed.
Fails == pc' = "closed" /\ UNCHANGED <<input, sent, reqVars, p, st>>

\* The parser is done: what follows the byte is left to the next one.
Done(next, s) ==
  /\ pos' = p + 1 /\ p' = p + 1 /\ state' = s /\ st' = s /\ pc' = next
  /\ UNCHANGED <<input, sent, last, line, cur, list>>

(* http_parse_request_line *)

LineStart ==
  /\ In("line", "line_start")
  /\ \/ ch \in {CR, LF} /\ Goes("line_start") /\ UNCHANGED <<line, cur, list>>
     \/ /\ ch \in Upper /\ Goes("method")
        /\ line' = [line EXCEPT !.method_start = p] /\ UNCHANGED <<cur, list>>
     \/ ch \notin Upper \cup {CR, LF} /\ Fails

Method ==
  /\ In("line", "method")
  /\ \/ /\ ch = SP /\ Goes("url")
        /\ line' = [line EXCEPT !.method_end = p, !.url_start = p] /\ UNCHANGED <<cur, list>>
     \/ ch \in Upper /\ Goes("method") /\ UNCHANGED <<line, cur, list>>
     \/ ch \notin Upper \cup {SP} /\ Fails

Url ==
  /\ In("line", "url")
  /\ \/ /\ ch = SP /\ Goes("protocol")
        /\ line' = [line EXCEPT !.url_end = p, !.protocol_start = p] /\ UNCHANGED <<cur, list>>
     \/ ch # SP /\ Goes("url") /\ UNCHANGED <<line, cur, list>>

Protocol ==
  /\ In("line", "protocol")
  /\ \/ /\ ch \in {SP, CR} /\ Goes(IF ch = SP THEN "space_end" ELSE "CR_end")
        /\ line' = [line EXCEPT !.protocol_end = p] /\ UNCHANGED <<cur, list>>
     \/ ch \notin {SP, CR} /\ Goes("protocol") /\ UNCHANGED <<line, cur, list>>

SpaceEnd ==
  /\ In("line", "space_end")
  /\ \/ ch \in {SP, CR} /\ Goes(IF ch = SP THEN "space_end" ELSE "CR_end")
        /\ UNCHANGED <<line, cur, list>>
     \/ ch \notin {SP, CR} /\ Fails

AfterLine == "head_start"

CREnd ==
  /\ In("line", "CR_end")
  /\ \/ ch = LF /\ Done("header", AfterLine)
     \/ ch # LF /\ Fails

\* Mutation: a call that finds the line parsed already is taken for unfinished
NeverSkips == "read"

\* A call that finds the line parsed already returns DLY_OK at once.
AfterSkip == "header"

SkipLine ==
  /\ pc = "line" /\ st \in HeadStates /\ p < last
  /\ pc' = AfterSkip /\ UNCHANGED <<input, sent, reqVars, p, st>>

(* http_parse_request_header *)

HeadStart ==
  /\ In("header", "head_start")
  /\ \/ ch \in {CR, LF} /\ Goes("head_start") /\ UNCHANGED <<line, cur, list>>
     \/ /\ ch \notin {CR, LF} /\ Goes("key")
        /\ cur' = [cur EXCEPT !.key_start = p] /\ UNCHANGED <<line, list>>

InKey ==
  /\ In("header", "key")
  /\ \/ /\ ch \in {SP, COLON}
        /\ Goes(IF ch = SP THEN "spaces_before_colon" ELSE "spaces_after_colon")
        /\ cur' = [cur EXCEPT !.key_end = p] /\ UNCHANGED <<line, list>>
     \/ ch \notin {SP, COLON} /\ Goes("key") /\ UNCHANGED <<line, cur, list>>

SpacesBeforeColon ==
  /\ In("header", "spaces_before_colon")
  /\ \/ /\ ch \in {SP, COLON}
        /\ Goes(IF ch = SP THEN "spaces_before_colon" ELSE "spaces_after_colon")
        /\ UNCHANGED <<line, cur, list>>
     \/ ch \notin {SP, COLON} /\ Fails

SpacesAfterColon ==
  /\ In("header", "spaces_after_colon")
  /\ \/ ch = SP /\ Goes("spaces_after_colon") /\ UNCHANGED <<line, cur, list>>
     \/ /\ ch # SP /\ Goes("value")
        /\ cur' = [cur EXCEPT !.value_start = p] /\ UNCHANGED <<line, list>>

\* Mutation: the end of the value is marked at LF only
EndAtLF == IF ch = LF THEN [cur EXCEPT !.value_end = p] ELSE cur

EndOfValue == [cur EXCEPT !.value_end = p]

\* A value that a bare LF ends is not saved.
Value ==
  /\ In("header", "value")
  /\ \/ /\ ch \in {CR, LF} /\ Goes(IF ch = CR THEN "cr" ELSE "crlf")
        /\ cur' = EndOfValue /\ UNCHANGED <<line, list>>
     \/ ch \notin {CR, LF} /\ Goes("value") /\ UNCHANGED <<line, cur, list>>

Cr ==
  /\ In("header", "cr")
  /\ \/ ch = LF /\ Goes("crlf") /\ list' = <<cur>> \o list /\ UNCHANGED <<line, cur>>
     \/ ch # LF /\ Fails

Crlf ==
  /\ In("header", "crlf")
  /\ \/ ch = CR /\ Goes("crlfcr") /\ UNCHANGED <<line, cur, list>>
     \/ ch # CR /\ Goes("key") /\ cur' = [cur EXCEPT !.key_start = p] /\ UNCHANGED <<line, list>>

CrlfCr ==
  /\ In("header", "crlfcr")
  /\ \/ ch = LF /\ Done("parsed", "head_start")
     \/ ch # LF /\ Fails

http_parse_request_line ==
  LineStart \/ Method \/ Url \/ Protocol \/ SpaceEnd \/ CREnd \/ SkipLine

http_parse_request_header ==
  HeadStart \/ InKey \/ SpacesBeforeColon \/ SpacesAfterColon \/ Value \/ Cr \/ Crlf \/ CrlfCr

Next == Read \/ ReadNothing \/ Again \/ http_parse_request_line \/ http_parse_request_header

Spec == Init /\ [][Next]_vars
-----------------------------------------------------------------------------
(* Properties *)

\* The marks of the request line are in order, and each is set, once it is parsed.
LineInOrder ==
  /\ line.method_start # NULL /\ line.method_end # NULL /\ line.url_end # NULL
  /\ line.protocol_end # NULL
  /\ line.method_start < line.method_end
  /\ line.url_start = line.method_end /\ line.url_start < line.url_end
  /\ line.protocol_start = line.url_end /\ line.protocol_start < line.protocol_end

\* Header h has a key and a value of a byte at least, in the bytes from a up to b.
HeaderInOrder(h, a, b) ==
  /\ NULL \notin {h.key_start, h.key_end, h.value_start, h.value_end}
  /\ a < h.key_start /\ h.key_start < h.key_end /\ h.key_end < h.value_start
  /\ h.value_start < h.value_end /\ h.value_end < b

\* However the bytes arrive and whatever they are: once the request line is
\* parsed http_handle.c finds its parts in order in what was read, and so are
\* the saved headers, the latest first, one after the other.
SpansInOrder ==
  /\ state \in HeadStates \/ pc \in {"header", "parsed"} => LineInOrder
  /\ \A i \in 1..Len(list) :
       HeaderInOrder(list[i],
                     IF i = Len(list) THEN line.protocol_end ELSE list[i + 1].value_end,
                     IF i = 1 THEN p ELSE list[i - 1].key_start)

Slice(from, to) == SubSeq(input, from + 1, to)

\* A request in good form is parsed into what the client meant, down to the
\* last header, in whatever pieces it is read, and what follows it is left.
ParsedAsSent ==
  pc = "parsed" /\ sent # NULL =>
    /\ Slice(line.method_start, line.method_end) = sent.method
    /\ Slice(line.url_start + 1, line.url_end) = sent.url
    /\ Slice(line.protocol_start + 1, line.protocol_end) = sent.protocol
    /\ Len(list) = Len(sent.headers)
    /\ \A i \in 1..Len(list) :
         LET h == sent.headers[Len(list) + 1 - i]
         IN  /\ Slice(list[i].key_start, list[i].key_end) = h.key
             /\ Slice(list[i].value_start, list[i].value_end) = h.value
    /\ pos = Len(Encoded(sent))

\* The parsers do not refuse a request in good form, and dorequest does not
\* wait for more of one that it has read as a whole.
GoodFormIsAnswered ==
  [][sent # NULL /\ pc # "read" =>
       /\ pc' # "closed"
       /\ pc' = "read" => last < Len(Encoded(sent))]_vars
=============================================================================
