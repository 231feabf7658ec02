-------------------------------- MODULE Answer --------------------------------
(***************************************************************************)
(* What dorequest does with the parsed requests of one connection: it asks *)
(* Interpret what is wanted, looks at the file, and writes the answer to a *)
(* socket that does not block (do_options, do_error, serve_static, and     *)
(* serve_php with the records of FastCgi).  How requests are read, and the *)
(* timer, are in Worker and HttpParse.  An answer's bytes are numbered,    *)
(* those of the header first.                                              *)
(***************************************************************************)
EXTENDS Interpret, FastCgi
LOCAL INSTANCE SequencesExt
LOCAL INSTANCE FiniteSetsExt

CONSTANTS
  Requests,       \* requests a client may send
  Disks,          \* what the file system may hold: name -> FileState
  Replies,        \* what php-fpm may send, see PhpReplies
  Beyond,         \* what may stand in querystring behind its end
  SndBuf,         \* bytes the socket's send buffer holds
  Segment,        \* bytes of a TCP segment
  HeadLen,        \* bytes of an answer's header
  ErrorLen,       \* bytes of an error page
  ScriptFilename, RequestMethod, QueryString,   \* names of parameters
  MaxRequests,    \* bound: requests on the connection
  MaxChanges,     \* bound: changes of the file system
  NULL

\* foreign: the owner may read the file, but this process is another user's;
\* mtime is written as in Last-Modified.
FileState == [mode : {"regular", "foreign", "other"}, size : Nat, mtime : Seq(STRING)]
NoFile == [mode |-> "none", size |-> 0]

Url(r) == r.path \o IF r.query = NULL THEN <<>> ELSE <<QUERY>> \o r.query

\* The request line in req->buf, and the marks HttpParse shows are set.
Buf(r) == <<r.method, SP>> \o Url(r) \o <<SP, "HTTP">>

Marks(r) == [method_start |-> 0, method_end |-> 1, url_start |-> 1,
             url_end |-> 2 + Len(Url(r))]

ASSUME AnswerAssumption ==
  /\ SndBuf \in Nat /\ Segment \in Nat \ {0} /\ HeadLen \in Nat \ {0} /\ ErrorLen \in Nat \ {0}
  /\ MaxRequests \in Nat /\ MaxChanges \in Nat
  /\ \A d \in Disks : \A f \in DOMAIN d : d[f] \in FileState
  /\ \A reply \in Replies : reply.content \in Seq(STRING)
  /\ \A r \in Requests :
       /\ r.method \in STRING /\ r.path \in Seq(STRING) /\ r.query \in Seq(STRING) \cup {NULL}
       /\ QUERY \notin ToSet(r.path)       \* the first '?' ends the path
       /\ r.headers \in Seq([key : Seq(STRING), value : Seq(STRING)])

\* A record's length is two bytes, and that of a parameter's name one (fastcgi.c,
\* fastcgi.h); req->buf is far shorter than the first.
ASSUME LengthAssumption ==
  /\ BYTE \in Nat /\ BYTE >= 16
  /\ \A b \in Beyond : b \in Seq(STRING)
  /\ \A name \in {ScriptFilename, RequestMethod, QueryString} :
       /\ name \in Seq(STRING) /\ OneByte(Len(name))
       /\ \A r \in Requests, b \in Beyond :
            Len(name) + Len(Root) + Len(Index) + Len(Url(r)) + Len(b) + 3 < BYTE * BYTE

VARIABLES
  pc,             \* where dorequest is
  querystring,    \* its local, which lives as long as the connection
  answers,        \* the answers begun, the last one being written
  next,           \* the byte of it to be written next
  asked,          \* the records written to php-fpm, until it answers
  stream,         \* bytes the socket took: <<answer, byte>>
  drained,        \* how many of them the client has received
  gone,           \* the client has reset the connection
  disk, changes   \* the file system, and how often it has changed

vars == <<pc, querystring, answers, next, asked, stream, drained, gone, disk, changes>>
envVars == <<drained, gone, disk, changes>>

n == Len(answers)
cur == answers[n]
FileAt(d, name) == IF name \in DOMAIN d THEN d[name] ELSE NoFile

Init ==
  /\ pc = "read" /\ querystring \in Beyond
  /\ answers = <<>> /\ next = 1 /\ asked = <<>>
  /\ stream = <<>> /\ drained = 0 /\ gone = FALSE
  /\ disk \in Disks /\ changes = 0

-----------------------------------------------------------------------------
(* The socket *)

Room == IF gone THEN 0 ELSE SndBuf - (Len(stream) - drained)

\* The socket takes k bytes of the answer being written.
Takes(k) == stream' = stream \o [i \in 1..k |-> <<n, next + i - 1>>]

\* Mutation: EAGAIN is handled as EINTR is, by trying again
TriesAgain(end, failed) == UNCHANGED <<next, pc>>

GivesUp(end, failed) == next' = end + 1 /\ pc' = failed

\* One turn of rio_writen's loop, writing up to byte end: where write takes
\* nothing (EAGAIN, EPIPE) it gives up.
rio_writen(end, done, failed) ==
  LET k == Min({end - next + 1, Room})
  IN  /\ Takes(k)
      /\ \/ k > 0 /\ next' = next + k /\ pc' = IF next + k > end THEN done ELSE pc
         \/ k = 0 /\ GivesUp(end, failed)
      /\ UNCHANGED <<querystring, answers, asked, envVars>>

-----------------------------------------------------------------------------
(* dorequest *)

\* Mutation: keep_alive is left over from the answer before
KeptOnce(r) == http_handle_header(Reverse(r.headers)) \/ (n > 0 /\ cur.keep)

\* The header list has the latest first.
Keeps(r) == http_handle_header(Reverse(r.headers))

Answer(r, kind, status, name) ==
  [req |-> r, kind |-> kind, status |-> status, keep |-> status = 200 /\ Keeps(r),
   head |-> FALSE, length |-> 0, type |-> PlainText, name |-> name, message |-> <<>>, wild |-> FALSE,
   disk |-> disk, served |-> FileAt(disk, name), room |-> Room, total |-> HeadLen]

Begins(a, at) ==
  /\ answers' = Append(answers, a) /\ next' = 1 /\ pc' = at
  /\ UNCHANGED <<stream, envVars>>

Options(r) ==
  /\ Begins(Answer(r, "options", 204, <<>>), "head") /\ UNCHANGED <<querystring, asked>>

Error(r, status, name) ==
  /\ Begins([Answer(r, "error", status, name) EXCEPT !.length = ErrorLen,
                                                     !.total = HeadLen + ErrorLen], "head")
  /\ UNCHANGED asked

Static(r, method, name) ==
  /\ Begins([Answer(r, "static", 200, name) EXCEPT
               !.head = (method = HEAD), !.length = disk[name].size,
               !.type = get_file_type(Suffix(name)),
               !.total = HeadLen + IF method = HEAD THEN 0 ELSE disk[name].size], "head")
  /\ UNCHANGED asked

\* serve_php up to its first read.  For an id that is none the name of the
\* method is read outside the table.
Php(r, method, name) ==
  /\ Begins(Answer(r, "php", 200, name), "ask")
  /\ asked' = <<BeginRecord, ParamsRecord(ScriptFilename, name),
               ParamsRecord(RequestMethod, IF method \in MethodIds
                              THEN <<get_method_string_from_methodID(method)>> ELSE <<>>),
               ParamsRecord(QueryString, querystring'), StdinRecord>>

Crashes == pc' = "crashed" /\ UNCHANGED <<answers, next, asked, stream, envVars>>

\* A request is complete: everything up to the first write.
Handle(r) ==
  /\ pc = "read" /\ n < MaxRequests
  /\ \E method \in set_method_for_request(Buf(r), Marks(r)) :
       \/ method = OPTIONS /\ Options(r)
       \/ /\ method # OPTIONS
          /\ LET url  == set_url_for_request(Buf(r), Marks(r))
                 name == get_filename(Buf(r), url)
                 file == FileAt(disk, name)
             IN  /\ querystring' \in get_querystring(Buf(r), url, querystring, Beyond)
                 /\ \/ file = NoFile /\ Error(r, 404, name)
                    \/ file # NoFile /\ file.mode = "other" /\ Error(r, 403, name)
                    \/ /\ file.mode \in {"regular", "foreign"}
                       /\ \/ Suffix(name) = <<>> /\ Crashes
                          \/ Suffix(name) = <<DOT, "php">> /\ Php(r, method, name)
                          \/ Suffix(name) = <<DOT, "php">> /\ method \notin MethodIds /\ Crashes
                          \/ Suffix(name) \notin {<<>>, <<DOT, "php">>} /\ Static(r, method, name)

\* The client hangs up or sends what is no request, or the timer runs out.
Ends ==
  /\ pc = "read" /\ pc' = "closed"
  /\ UNCHANGED <<querystring, answers, next, asked, stream, envVars>>

AfterAnswer == IF cur.keep THEN "read" ELSE "closed"

\* Mutation: the file is sent behind a header that was cut off
SendsAnyway == "file"

TornHead == AfterAnswer

\* The header of an answer that is not php's.
WriteHead ==
  /\ pc = "head"
  /\ \/ cur.kind = "options" /\ rio_writen(HeadLen, "closed", "closed")
     \/ cur.kind = "error" /\ rio_writen(HeadLen, "body", "body")
     \/ /\ cur.kind = "static"
        /\ rio_writen(HeadLen, IF cur.head THEN AfterAnswer ELSE "file", TornHead)

\* Mutation: strlen(body) + 1
WithNul == cur.total + 1

EndOfBody == cur.total

WriteBody == pc = "body" /\ rio_writen(EndOfBody, "closed", "closed")

\* Mutation: the count of the call that is commented out
FixedCount(size) == Min({1, size})

Count(size) == size

\* open, sendfile and close: one call, whatever it sends.
SendFile ==
  /\ pc = "file"
  /\ LET file == FileAt(disk, cur.name)
         k == IF file.mode = "regular" THEN Min({Count(cur.length), file.size, Room}) ELSE 0
     IN  /\ Takes(k) /\ next' = next + k
         /\ answers' = [answers EXCEPT ![n].served = file]
  /\ pc' = AfterAnswer
  /\ UNCHANGED <<querystring, asked, envVars>>

-----------------------------------------------------------------------------
(* serve_php, blocked in read until php-fpm sends something or closes *)

\* The answer is ready: it is message behind a header of serve_php's.
PhpAnswer(message, wild) ==
  /\ \E past \in {CR, NUL} :
       answers' = [answers EXCEPT ![n].length = cal_length_of_message(message, past),
                                  ![n].message = message, ![n].wild = wild,
                                  ![n].total = HeadLen + Len(message), ![n].room = Room]
  /\ pc' = "phphead"

\* One record is read.  Of STDOUT, content is what the block of the announced
\* length holds after one read: behind what a short one returned, whatever
\* malloc found there.  After another record, or none, message and its length
\* are read without ever having been written.
PhpReplies(reply) ==
  /\ pc = "ask"
  /\ \/ reply.type = FCGI_STDOUT /\ PhpAnswer(reply.content, FALSE)
     \/ reply.type # FCGI_STDOUT /\ \E any \in Replies : PhpAnswer(any.content, TRUE)
     \/ reply.type # FCGI_STDOUT /\ pc' = "crashed" /\ UNCHANGED answers
  /\ asked' = <<>> /\ UNCHANGED <<querystring, next, stream, envVars>>

\* One write for the header and one for the message, whatever they take; then
\* message is freed, which a wild pointer need not survive.
WritePhp ==
  /\ pc \in {"phphead", "phpbody"}
  /\ LET end == IF pc = "phphead" THEN HeadLen ELSE cur.total
     IN  Takes(Min({end - next + 1, Room})) /\ next' = end + 1
  /\ \/ pc' = IF pc = "phphead" THEN "phpbody" ELSE AfterAnswer
     \/ pc = "phpbody" /\ cur.wild /\ pc' = "crashed"
  /\ UNCHANGED <<querystring, answers, asked, envVars>>

-----------------------------------------------------------------------------
(* The environment, as long as the connection is open *)

Open == pc \notin {"closed", "crashed"}

\* The client acknowledges whole segments, or all there is.
Drain ==
  /\ Open /\ ~ gone
  /\ drained' \in {d \in (drained + 1)..Len(stream) : d % Segment = 0 \/ d = Len(stream)}
  /\ UNCHANGED <<pc, querystring, answers, next, asked, stream, gone, disk, changes>>

Reset ==
  /\ Open /\ ~ gone /\ gone' = TRUE
  /\ UNCHANGED <<pc, querystring, answers, next, asked, stream, drained, disk, changes>>

\* A change while dorequest is elsewhere is one at its next "read".
Change ==
  /\ pc \in {"read", "head", "file"} /\ changes < MaxChanges
  /\ changes' = changes + 1 /\ disk' \in Disks \ {disk}
  /\ UNCHANGED <<pc, querystring, answers, next, asked, stream, drained, gone>>

Writes == WriteHead \/ WriteBody \/ SendFile \/ WritePhp

Next ==
  \/ \E r \in Requests : Handle(r)
  \/ Writes \/ Ends
  \/ \E reply \in Replies : PhpReplies(reply)
  \/ Drain \/ Reset \/ Change

\* The process goes on, and php-fpm answers, closes or is not there.
Fairness == WF_vars(Writes) /\ WF_vars(\E reply \in Replies : PhpReplies(reply))

Spec == Init /\ [][Next]_vars /\ Fairness

-----------------------------------------------------------------------------
(* Properties *)

Pcs == {"read", "head", "body", "file", "ask", "phphead", "phpbody", "closed", "crashed"}

\* Types; no more than fits is in the send buffer, and every byte that went out
\* is one of an answer that was begun, within what that answer consists of.
TypeOK ==
  /\ pc \in Pcs /\ changes \in 0..MaxChanges /\ disk \in Disks /\ gone \in BOOLEAN
  /\ n <= MaxRequests /\ (n = 0 => pc \in {"read", "closed", "crashed"})
  /\ drained \in 0..Len(stream) /\ Len(stream) - drained <= SndBuf
  /\ \A i \in DOMAIN stream : stream[i][1] \in 1..n /\ stream[i][2] \in 1..answers[stream[i][1]].total
  /\ pc \in {"head", "body", "file", "phphead", "phpbody"} => next \in 1..cur.total + 1

\* A request that says plainly what it wants: a known method, an absolute path,
\* and no header whose name or value is a beginning of one the program knows.
Plain(r) ==
  /\ r.method \in ToSet(MethodString) /\ r.path # <<>> /\ r.path[1] = SLASH
  /\ \A i \in DOMAIN r.headers :
       LET h == r.headers[i]
       IN  /\ h.key \in ToSet(HeaderNames) \/ \A k \in ToSet(HeaderNames) : ~ IsPrefix(h.key, k)
           /\ h.key = Connection => h.value = KeepAlive \/ ~ IsPrefix(h.value, KeepAlive)

MeantName(r) == Root \o IF r.path = <<SLASH>> THEN Index ELSE r.path

MeantStatus(r, file) ==
  CASE r.method = "OPTIONS" -> 204
    [] r.method # "OPTIONS" /\ file = NoFile -> 404
    [] r.method # "OPTIONS" /\ file.mode = "other" -> 403
    [] OTHER -> 200

\* A request that wants the file only if it was modified since a time it names.
Conditional(r) == \E h \in ToSet(r.headers) : h.key = IfModifiedSince

\* Where the body of what php-fpm printed begins.
BodyAt(message) ==
  {i \in DOMAIN message : i + 3 <= Len(message) /\ SubSeq(message, i, i + 3) = <<CR, LF, CR, LF>>}

\* A CR in front of it ends a line with the LF behind it.
InLines(message) ==
  \A i \in 1..Min(BodyAt(message)) : message[i] = CR => message[i + 1] = LF

\* Whatever was asked before on the connection: a plain request without a
\* condition is answered with the status its file had when it was looked at, the
\* connection is kept exactly when this request asks for it, and the length
\* announced is the file's, or that of the body behind php's headers.
RightAnswer ==
  \A i \in 1..n : Plain(answers[i].req) /\ ~ Conditional(answers[i].req) =>
    LET a == answers[i]   r == a.req   file == FileAt(a.disk, MeantName(r))
    IN  /\ a.status = MeantStatus(r, file)
        /\ a.keep <=> a.status = 200 /\ \E h \in ToSet(r.headers) :
                                         h.key = Connection /\ h.value = KeepAlive
        /\ a.kind = "static" =>
             /\ a.length = file.size /\ a.head = (r.method = "HEAD")
             /\ LET fits == {s \in DOMAIN MimeTypes : IsSuffix(s, MeantName(r))}
                IN  a.type \in IF fits = {} THEN {PlainText} ELSE {MimeTypes[s] : s \in fits}
        /\ a.kind = "php" /\ BodyAt(a.message) # {} /\ InLines(a.message) =>
             a.length = Len(a.message) - Min(BodyAt(a.message)) - 3

\* "Supports if_modified_since" (README.md:7), "compare If-modified-since field
\* with mtime" (http_base.h:81): whoever has the file as it is now, by the time
\* Last-Modified gives, is told so.
ModifiedIsDecided ==
  \A i \in 1..n :
    LET a == answers[i]   mtime == FileAt(a.disk, a.name).mtime
    IN  a.kind = "static" /\ a.req.method \in {"GET", "HEAD"}
          /\ (\E h \in ToSet(a.req.headers) : h.key = IfModifiedSince /\ h.value = mtime)
        => a.status = 304

\* What the socket took of answer i.
Sent(i) == {stream[p][2] : p \in {q \in DOMAIN stream : stream[q][1] = i}}

\* However full the socket is and whatever write returns: answers do not
\* overtake each other, no byte goes out twice or before an earlier one, what
\* goes out of a file's answer has no hole (the client may trust the header it
\* got), and nothing of a file follows the header where HEAD was asked.
NoHoles ==
  /\ \A i, j \in DOMAIN stream : i < j =>
       \/ stream[i][1] < stream[j][1]
       \/ stream[i][1] = stream[j][1] /\ stream[i][2] < stream[j][2]
  /\ \A i \in 1..n : answers[i].kind \in {"static", "options"} =>
       \A b \in Sent(i) : 1..b \subseteq Sent(i)
  /\ \A i \in 1..n : answers[i].kind = "static" /\ answers[i].head => Sent(i) \subseteq 1..HeadLen

Finished(i) == i < n \/ pc \in {"read", "closed"}

\* An answer the socket had room for when its first byte was written goes out
\* to its last byte, and holds as many bytes of body as were announced, unless
\* the client left or the file changed or cannot be opened.
Whole ==
  \A i \in 1..n :
    LET a == answers[i]
    IN  Finished(i) /\ a.room >= a.total /\ ~ gone
          /\ (a.kind = "static" => a.served.mode = "regular" /\ a.served = FileAt(a.disk, a.name))
        => /\ Sent(i) = 1..a.total
           /\ a.kind \in {"static", "error"} /\ ~ a.head => a.total = HeadLen + a.length

\* What php-fpm reads is a series of well-formed records that name the file and
\* the method the client meant, and its query (of two bytes or more) with what
\* was left behind it: whatever the connection was used for before, as long as
\* a one-byte length can say it.
PhpAsked ==
  pc = "ask" =>
    LET r == cur.req
        param(i, name) == ParamIn(asked[i], name)
    IN  /\ \A i \in DOMAIN asked : Framed(asked[i])
        /\ Plain(r) /\ OneByte(Len(MeantName(r))) =>
             /\ param(2, ScriptFilename) = MeantName(r)
             /\ param(3, RequestMethod) = <<r.method>>
        /\ Plain(r) /\ OneByte(Len(querystring)) =>
             \/ r.query # NULL /\ Len(r.query) > 1 /\ IsPrefix(r.query, param(4, QueryString))
             \/ (r.query = NULL \/ Len(r.query) < 2) /\ param(4, QueryString) = <<>>

\* A client that takes nothing holds up nothing: an answer that was begun comes
\* to its end, sent or not, if the process runs and php-fpm answers or closes.
Answered == pc \notin {"read", "closed", "crashed"} ~> pc \in {"read", "closed", "crashed"}
=============================================================================
