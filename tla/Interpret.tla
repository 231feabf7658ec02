------------------------------ MODULE Interpret -------------------------------
(***************************************************************************)
(* http_handle.c: what a parsed request asks for.  A byte sequence stands  *)
(* for a string; positions are offsets into req->buf, and marks are what   *)
(* http_parse_request_line leaves in req (see LineMarks in HttpParse).     *)
(***************************************************************************)
EXTENDS Naturals, Sequences
LOCAL INSTANCE SequencesExt
LOCAL INSTANCE FiniteSetsExt

CONSTANTS
  Root,                                     \* req->root, without a '/' at its end
  Index,                                    \* "/index.html"
  Host, Connection, IfModifiedSince, ContentLength,   \* names of headers
  KeepAlive,                                \* "keep-alive"
  MimeTypes,                                \* http_mime: suffix -> type
  PlainText                                 \* "text/plain"

SP == "SP"
SLASH == "/"
QUERY == "?"
DOT == "."

At(buf, p) == buf[p + 1]
Slice(buf, from, to) == SubSeq(buf, from + 1, to)       \* [from, to)

-----------------------------------------------------------------------------
(* Methods: a name is one byte here, the ids are those of http_base.h *)

MethodString == <<"GET", "POST", "HEAD", "PUT", "DELETE", "TRACE", "CONNECT", "OPTIONS">>
MethodIds == 10..17
HEAD == 12
OPTIONS == 17

get_method_string_from_methodID(id) == MethodString[id - 10 + 1]

\* The ids req->method may have afterwards; for a name that is not known it is
\* not assigned, and the block comes from malloc: any value, 0 for those that
\* are no id.
set_method_for_request(buf, m) ==
  LET bytes == Slice(buf, m.method_start, m.method_end + 1)
      met(i) == bytes[i] # SP /\ \A j \in DOMAIN bytes \ {i} : bytes[j] = SP
      known == {id \in MethodIds : \E i \in DOMAIN bytes :
                                     met(i) /\ bytes[i] = get_method_string_from_methodID(id)}
  IN  IF known = {} THEN MethodIds \cup {0} ELSE known

-----------------------------------------------------------------------------
(* The url *)

set_url_for_request(buf, m) ==
  LET start == Min({p \in m.url_start..(Len(buf) - 1) : At(buf, p) # SP})
      stop  == Min({p \in start..(Len(buf) - 1) : At(buf, p) = QUERY \/ p >= m.url_end})
      cut   == stop # m.url_end
  IN  [path_start |-> start, path_end |-> stop - 1,
       query_start |-> IF cut THEN stop + 1 ELSE stop,
       query_end |-> IF cut THEN m.url_end - 1 ELSE stop]

\* A path of one byte that is no '/' is an error that is only logged.
PathError(buf, u) == u.path_start = u.path_end /\ At(buf, u.path_start) # SLASH

get_filename(buf, u) ==
  IF PathError(buf, u) THEN Root
  ELSE IF u.path_start = u.path_end THEN Root \o Index
  ELSE Root \o Slice(buf, u.path_start, u.path_end + 1)

Query(buf, u) == Slice(buf, u.query_start, u.query_end + 1)

\* What querystring, which was old, holds then.  strncpy copies no NUL: behind
\* the query stands what stood there, and where old was shorter, any of the
\* strings in beyond.
get_querystring(buf, u, old, beyond) ==
  LET q == Query(buf, u)
  IN  IF PathError(buf, u) THEN {old}
      ELSE IF u.query_end <= u.query_start THEN {<<>>}
      ELSE IF Len(q) <= Len(old) THEN {q \o Slice(old, Len(q), Len(old))}
      ELSE {q \o b : b \in beyond}

\* rindex(filename, '.'), <<>> for NULL
Suffix(filename) ==
  LET dots == {i \in DOMAIN filename : filename[i] = DOT}
  IN  IF dots = {} THEN <<>> ELSE SubSeq(filename, Max(dots), Len(filename))

get_file_type(suffix) ==
  IF suffix \in DOMAIN MimeTypes THEN MimeTypes[suffix] ELSE PlainText

-----------------------------------------------------------------------------
(* The headers *)

HeaderNames == <<Host, Connection, IfModifiedSince, ContentLength>>

\* The strings are strings; no header's name is a beginning of another's, and
\* a suffix has its dot in front.
ASSUME InterpretAssumption ==
  /\ Root \in Seq(STRING) /\ Index \in Seq(STRING) /\ KeepAlive \in Seq(STRING)
  /\ \A i \in DOMAIN HeaderNames : HeaderNames[i] \in Seq(STRING)
  /\ \A i, j \in DOMAIN HeaderNames : IsPrefix(HeaderNames[i], HeaderNames[j]) => i = j
  /\ \A s \in DOMAIN MimeTypes : s \in Seq(STRING) /\ {i \in DOMAIN s : s[i] = DOT} = {1}

\* The entry of http_headers_in whose handler runs, 0 for none: the first one
\* that begins with the header's key.
HandlerOf(key) ==
  LET fits == {i \in DOMAIN HeaderNames : IsPrefix(key, HeaderNames[i])}
  IN  IF fits = {} THEN 0 ELSE Min(fits)

\* http_process_connection; its comparison ignores case, and so do bytes here
AsksKeepAlive(header) == HandlerOf(header.key) = 2 /\ IsPrefix(header.value, KeepAlive)

\* res->keep_alive.  The other handlers leave nothing that is read again.
http_handle_header(list) == \E i \in DOMAIN list : AsksKeepAlive(list[i])
=============================================================================
