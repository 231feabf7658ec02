------------------------------- MODULE FastCgi --------------------------------
(***************************************************************************)
(* The FastCGI side of serve_php: the records it writes (fastcgi.c), what  *)
(* a responder reads in them, and the length it computes of the message    *)
(* that comes back.                                                        *)
(***************************************************************************)
EXTENDS Integers, Sequences
LOCAL INSTANCE SequencesExt
LOCAL INSTANCE FiniteSetsExt

CONSTANT BYTE       \* values of a byte: 256

CR == "CR"
LF == "LF"
NUL == "NUL"

FCGI_VERSION_1 == 1
FCGI_BEGIN_REQUEST == 1
FCGI_PARAMS == 4
FCGI_STDIN == 5
FCGI_STDOUT == 6
FCGI_REQUEST_ID == 1
FCGI_RESPONDER == 1
Align == 8

make_header(type, requestId, contentLength, paddingLength) ==
  [version |-> FCGI_VERSION_1, type |-> type,
   requestIdB1 |-> (requestId \div BYTE) % BYTE, requestIdB0 |-> requestId % BYTE,
   contentLengthB1 |-> (contentLength \div BYTE) % BYTE,
   contentLengthB0 |-> contentLength % BYTE,
   paddingLength |-> paddingLength % BYTE]

make_beginRequestBody(role) ==
  <<(role \div BYTE) % BYTE, role % BYTE>> \o [i \in 1..6 |-> 0]

ContentLengthOf(header) == header.contentLengthB1 * BYTE + header.contentLengthB0

\* A record as it is written: a header and the bytes behind it.
BeginRecord ==
  [header |-> make_header(FCGI_BEGIN_REQUEST, FCGI_REQUEST_ID, 8, 0),
   bytes |-> make_beginRequestBody(FCGI_RESPONDER)]

StdinRecord ==
  [header |-> make_header(FCGI_STDIN, FCGI_REQUEST_ID, 0, 0), bytes |-> <<>>]

\* Mutation: the two lengths are swapped
Swapped(name, value) == <<Len(value) % BYTE, Len(name) % BYTE>>

Lengths(name, value) == <<Len(name) % BYTE, Len(value) % BYTE>>

Padding(n) == IF n % Align = 0 THEN 0 ELSE Align - (n % Align)

ParamsRecord(name, value) ==
  LET contentLength == Len(name) + Len(value) + 2
      padding == Padding(contentLength)
  IN  [header |-> make_header(FCGI_PARAMS, FCGI_REQUEST_ID, contentLength, padding),
       bytes |-> Lengths(name, value) \o name \o value \o [i \in 1..padding |-> NUL]]

-----------------------------------------------------------------------------
(* A responder *)

\* What follows a record's header is as long as the header says.
Framed(record) ==
  Len(record.bytes) = ContentLengthOf(record.header) + record.header.paddingLength

\* A length below BYTE \div 2 takes one byte, and a longer one four.
OneByte(n) == n < BYTE \div 2

\* The value of the parameter called name, <<>> where the record holds another.
ParamIn(record, name) ==
  LET n == record.bytes[1]   v == record.bytes[2]
  IN  IF OneByte(n) /\ OneByte(v) /\ SubSeq(record.bytes, 3, 2 + n) = name
      THEN SubSeq(record.bytes, 3 + n, 2 + n + v)
      ELSE <<>>

-----------------------------------------------------------------------------
(* The answer *)

\* The loop looks two bytes ahead, at the end past the message: past is there.
cal_length_of_message(message, past) ==
  LET byte(i) == IF i < Len(message) THEN message[i + 1] ELSE past
      hits == {i \in 0..(Len(message) - 1) : byte(i) = CR /\ byte(i + 2) = CR}
  IN  IF hits = {} THEN 0 ELSE Len(message) - Min(hits) - 4
=============================================================================
