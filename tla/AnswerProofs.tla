----------------------------- MODULE AnswerProofs -----------------------------
(***************************************************************************)
(* What a connection is answered and what php-fpm is asked, and what the   *)
(* socket takes of the answers: for any requests, files, replies of        *)
(* php-fpm and sizes.                                                      *)
(***************************************************************************)
EXTENDS Answer, TLAPS
LOCAL INSTANCE SequencesExt
LOCAL INSTANCE FiniteSetsExt
WF == INSTANCE WellFoundedInduction

(* The inductive invariant *)

Writing == {"head", "body", "file", "phphead", "phpbody"}

\* What of an answer is changed or compared
Fields == {"length", "message", "wild", "served", "total", "room"}

\* An answer's total is that of its kind
Measured(a) ==
  /\ a.total \in Nat /\ a.room \in Int
  /\ a.kind = "error" => a.length = ErrorLen /\ a.total = HeadLen + ErrorLen
  /\ a.kind = "options" => a.total = HeadLen
  /\ a.kind = "static" =>
       /\ a.head \in BOOLEAN /\ a.length \in Nat
       /\ a.length = FileAt(a.disk, a.name).size
       /\ a.total = IF a.head THEN HeadLen ELSE HeadLen + a.length

ShapeInv ==
  /\ answers \in Seq({answers[i] : i \in 1..n}) /\ stream \in Seq(Nat \X Nat)
  /\ \A i \in 1..n : Fields \subseteq DOMAIN answers[i] /\ Measured(answers[i])

\* Where dorequest is says how far the answer is.
PlaceInv ==
  /\ pc = "head" => cur.kind \in {"options", "error", "static"} /\ next \in 1..HeadLen
  /\ pc = "body" => cur.kind = "error" /\ next \in (HeadLen + 1)..cur.total
  /\ pc = "file" => cur.kind = "static" /\ ~ cur.head /\ next = HeadLen + 1
  /\ pc \in {"ask", "phphead"} => next = 1
  /\ pc \in {"ask", "phphead", "phpbody"} => cur.kind = "php"
  /\ pc = "ask" => Sent(n) = {}
  /\ pc \in {"phphead", "phpbody"} => cur.total >= HeadLen
  /\ pc = "phpbody" => next = HeadLen + 1

\* Nothing from next on has gone out,
LastInv == pc \in Writing => \A b \in Sent(n) : b < next

\* everything before it has, of an answer that is not given up in the middle,
FullInv == pc \in {"head", "file"} /\ cur.kind # "error" => 1..(next - 1) \subseteq Sent(n)

\* and of one the socket had room for, which it still has.
RoomInv ==
  pc \in Writing /\ ~ gone /\ cur.room >= cur.total =>
    1..(next - 1) \subseteq Sent(n) /\ Room >= cur.total - next + 1

InOrder ==
  \A i, j \in DOMAIN stream : i < j =>
    \/ stream[i][1] < stream[j][1]
    \/ stream[i][1] = stream[j][1] /\ stream[i][2] < stream[j][2]

Unbroken ==
  \A i \in 1..n : answers[i].kind \in {"static", "options"} =>
    \A b \in Sent(i) : 1..b \subseteq Sent(i)

StreamInv == TypeOK /\ ShapeInv /\ InOrder

IInv == StreamInv /\ PlaceInv /\ LastInv /\ FullInv /\ RoomInv /\ Unbroken /\ Whole

-----------------------------------------------------------------------------
(* Sequences *)

\* A sequence is one of its own elements
LEMMA OwnElements ==
  ASSUME NEW T, NEW s \in Seq(T)
  PROVE  s \in Seq({s[i] : i \in 1..Len(s)})
OBVIOUS

\* Append leaves what was there
LEMMA AppendFacts ==
  ASSUME NEW T, NEW s \in Seq(T), NEW e
  PROVE  LET t == Append(s, e)
         IN  /\ Len(t) = Len(s) + 1 /\ t[Len(s) + 1] = e
             /\ \A i \in 1..Len(s) : t[i] = s[i]
             /\ t \in Seq({t[i] : i \in 1..Len(t)})
<1>1. s \in Seq(T \cup {e})
  OBVIOUS
<1>2. Append(s, e) \in Seq(T \cup {e})
  BY <1>1
<1> QED  BY <1>1, <1>2, OwnElements

\* Concatenation, with the elements of both
LEMMA ConcatFacts ==
  ASSUME NEW T, NEW s \in Seq(T), NEW t \in Seq(T)
  PROVE  /\ s \o t \in Seq(T) /\ Len(s \o t) = Len(s) + Len(t)
         /\ \A p \in 1..Len(s) : (s \o t)[p] = s[p]
         /\ \A p \in 1..Len(t) : (s \o t)[Len(s) + p] = t[p]
OBVIOUS

\* What the socket holds after it took k bytes of the answer being written
LEMMA TakesFacts ==
  ASSUME TypeOK, ShapeInv, n \in Nat, next \in Nat, NEW k \in Nat, Takes(k)
  PROVE  /\ stream' \in Seq(Nat \X Nat) /\ Len(stream') = Len(stream) + k
         /\ DOMAIN stream = 1..Len(stream) /\ DOMAIN stream' = 1..Len(stream')
         /\ \A p \in 1..Len(stream) : stream'[p] = stream[p]
         /\ \A p \in 1..k : stream'[Len(stream) + p] = <<n, next + p - 1>>
<1> DEFINE t == [i \in 1..k |-> <<n, next + i - 1>>]
<1>1. t \in Seq(Nat \X Nat) /\ Len(t) = k
  <2>1. \A i \in 1..k : next + i - 1 \in Nat
    OBVIOUS
  <2>2. \A i \in 1..k : <<n, next + i - 1>> \in Nat \X Nat
    BY <2>1
  <2> QED  BY <2>2
<1>2. stream \in Seq(Nat \X Nat) /\ stream' = stream \o t
  BY DEF Takes, ShapeInv
<1>3. \A p \in 1..k : t[p] = <<n, next + p - 1>>
  OBVIOUS
<1> HIDE DEF t
<1>4. /\ stream' \in Seq(Nat \X Nat) /\ Len(stream') = Len(stream) + Len(t)
      /\ \A p \in 1..Len(stream) : stream'[p] = stream[p]
      /\ \A p \in 1..Len(t) : stream'[Len(stream) + p] = t[p]
  <2> DEFINE Pairs == Nat \X Nat
  <2>0. stream \in Seq(Pairs) /\ t \in Seq(Pairs)
    BY <1>1, <1>2
  <2> HIDE DEF Pairs
  <2>1. /\ stream \o t \in Seq(Pairs) /\ Len(stream \o t) = Len(stream) + Len(t)
        /\ \A p \in 1..Len(stream) : (stream \o t)[p] = stream[p]
        /\ \A p \in 1..Len(t) : (stream \o t)[Len(stream) + p] = t[p]
    BY <2>0
  <2> QED  BY <2>1, <1>2 DEF Pairs
<1> QED  BY <1>1, <1>2, <1>3, <1>4

\* ... and of each answer
LEMMA SentFacts ==
  ASSUME TypeOK, ShapeInv, n \in Nat, next \in Nat, NEW k \in Nat, Takes(k), NEW i
  PROVE  Sent(i)' = IF i = n THEN Sent(i) \cup (next..(next + k - 1)) ELSE Sent(i)
<1> DEFINE L == Len(stream)
<1>1. /\ DOMAIN stream = 1..L /\ DOMAIN stream' = 1..(L + k) /\ L \in Nat
      /\ \A p \in 1..L : stream'[p] = stream[p]
      /\ \A p \in 1..k : stream'[L + p] = <<n, next + p - 1>>
  <2>1. L \in Nat
    BY DEF ShapeInv
  <2> QED  BY <2>1, TakesFacts
<1> HIDE DEF L
<1>2. \A p \in (L + 1)..(L + k) : p - L \in 1..k /\ stream'[p] = <<n, next + (p - L) - 1>>
  <2> TAKE p \in (L + 1)..(L + k)
  <2>1. p - L \in 1..k /\ L + (p - L) = p
    BY <1>1
  <2> QED  BY <2>1, <1>1
<1>3. \A p \in 1..(L + k) : p \in 1..L \/ p \in (L + 1)..(L + k)
  BY <1>1
<1>4. \A x \in Sent(i) : x \in Sent(i)'
  BY <1>1 DEF Sent
<1>5. ASSUME i = n, NEW x \in next..(next + k - 1)
      PROVE  x \in Sent(i)'
  <2>1. x - next + 1 \in 1..k /\ next + (x - next + 1) - 1 = x /\ L + (x - next + 1) \in 1..(L + k)
    BY <1>1
  <2>2. stream'[L + (x - next + 1)] = <<n, x>>
    BY <1>1, <2>1
  <2> QED  BY <1>1, <1>5, <2>1, <2>2 DEF Sent
<1>6. ASSUME NEW x \in Sent(i)'
      PROVE  x \in Sent(i) \/ (i = n /\ x \in next..(next + k - 1))
  <2>1. PICK p \in 1..(L + k) : stream'[p][1] = i /\ stream'[p][2] = x
    BY <1>1 DEF Sent
  <2>2. CASE p \in 1..L
    BY <1>1, <2>1, <2>2 DEF Sent
  <2>3. CASE p \in (L + 1)..(L + k)
    <3>1. p - L \in 1..k /\ i = n /\ x = next + (p - L) - 1
      BY <1>2, <2>1, <2>3
    <3>2. x \in next..(next + k - 1)
      BY <1>1, <3>1
    <3> QED  BY <3>1, <3>2
  <2> QED  BY <1>3, <2>2, <2>3
<1> QED  BY <1>4, <1>5, <1>6

\* What follows from the types for the answer being written
LEMMA WritingFacts ==
  ASSUME StreamInv, pc \in Writing \cup {"ask"}
  PROVE  /\ n \in Nat /\ n \in 1..n /\ cur = answers[n] /\ cur.total \in Nat /\ cur.room \in Int
         /\ pc \in Writing => next \in 1..(cur.total + 1) /\ next \in Nat
         /\ SndBuf \in Nat /\ HeadLen \in Nat /\ HeadLen >= 1 /\ ErrorLen \in Nat /\ ErrorLen >= 1
         /\ Len(stream) \in Nat /\ drained \in 0..Len(stream)
         /\ Room \in Nat /\ (~ gone => Room = SndBuf - (Len(stream) - drained)) /\ (gone => Room = 0)
<1>1. n \in Nat /\ Len(stream) \in Nat
  BY DEF StreamInv, ShapeInv, n
<1>2. n # 0
  BY DEF StreamInv, TypeOK, Writing
<1>3. n \in 1..n
  BY <1>1, <1>2
<1>4. cur.total \in Nat /\ cur.room \in Int
  BY <1>3 DEF cur, StreamInv, ShapeInv, Measured
<1>5. pc \in Writing => next \in 1..(cur.total + 1) /\ next \in Nat
  BY <1>4 DEF StreamInv, TypeOK, Writing
<1>6. SndBuf \in Nat /\ HeadLen \in Nat /\ HeadLen >= 1 /\ ErrorLen \in Nat /\ ErrorLen >= 1
  BY AnswerAssumption
<1>7. drained \in 0..Len(stream) /\ Len(stream) - drained <= SndBuf
  BY DEF StreamInv, TypeOK
<1>8. Room \in Nat /\ (~ gone => Room = SndBuf - (Len(stream) - drained)) /\ (gone => Room = 0)
  BY <1>1, <1>6, <1>7 DEF Room
<1> QED  BY <1>1, <1>3, <1>4, <1>5, <1>6, <1>7, <1>8 DEF cur

-----------------------------------------------------------------------------
(* A write *)

\* b is a, but for what the file was when it was sent
Same(a, b) ==
  /\ DOMAIN b = DOMAIN a /\ b.kind = a.kind /\ b.head = a.head /\ b.length = a.length
  /\ b.total = a.total /\ b.room = a.room /\ b.disk = a.disk /\ b.name = a.name

\* The socket had room for the answer being written, and the client is there.
Roomy == ~ gone /\ cur.room >= cur.total

\* The socket takes k bytes; dorequest goes on behind them, or gives the rest up.
Write(k) ==
  /\ pc \in Writing /\ k \in 0..Room /\ next + k <= cur.total + 1 /\ Takes(k)
  /\ envVars' = envVars
  /\ n' = n /\ answers' \in Seq({answers'[i] : i \in 1..n})
  /\ \A i \in 1..(n - 1) : answers'[i] = answers[i]
  /\ Same(cur, answers'[n])
  /\ pc' \in Pcs \ {"ask"}
  /\ pc' \in {"head", "file"} => pc = "head"
  /\ pc' \in Writing => \/ next' = next + k
                        \/ /\ next' \in (next + k)..(cur.total + 1)
                           /\ pc' \notin {"head", "file"} /\ ~ Roomy

\* An answer that ends, which the socket had room for and whose file is what it
\* was, ends with its last byte.
EndsWhole(k) ==
  /\ pc' \in {"read", "closed"} /\ Roomy
  /\ cur.kind = "static" => /\ answers'[n].served.mode = "regular"
                            /\ answers'[n].served = FileAt(cur.disk, cur.name)
  => next + k = cur.total + 1

\* A write leaves the stream typed and in order
LEMMA WriteStream ==
  ASSUME StreamInv, LastInv, NEW k, Write(k)
  PROVE  /\ StreamInv'
         /\ k \in Nat /\ \A i \in 1..n : Same(answers[i], answers'[i])
         /\ \A i \in 1..n : Sent(i)' = IF i = n THEN Sent(i) \cup (next..(next + k - 1)) ELSE Sent(i)
         /\ Room' = IF gone THEN 0 ELSE Room - k
<1> DEFINE L == Len(stream)
<1>1. /\ n \in Nat /\ n \in 1..n /\ cur = answers[n] /\ cur.total \in Nat
      /\ next \in 1..(cur.total + 1) /\ next \in Nat
      /\ SndBuf \in Nat /\ L \in Nat /\ drained \in 0..L
      /\ Room \in Nat /\ (~ gone => Room = SndBuf - (L - drained)) /\ (gone => Room = 0)
  BY WritingFacts DEF Write
<1>2. k \in Nat /\ k <= Room
  BY <1>1 DEF Write
<1>3. TypeOK /\ ShapeInv /\ InOrder
  BY DEF StreamInv
<1>4. /\ stream' \in Seq(Nat \X Nat) /\ Len(stream') = L + k
      /\ DOMAIN stream = 1..L /\ DOMAIN stream' = 1..(L + k)
      /\ \A p \in 1..L : stream'[p] = stream[p]
      /\ \A p \in 1..k : stream'[L + p] = <<n, next + p - 1>>
  BY <1>1, <1>2, <1>3, TakesFacts DEF Write
<1> HIDE DEF L
<1>5. \A p \in (L + 1)..(L + k) : p - L \in 1..k /\ stream'[p] = <<n, next + (p - L) - 1>>
  <2> TAKE p \in (L + 1)..(L + k)
  <2>1. p - L \in 1..k /\ L + (p - L) = p
    BY <1>1, <1>2
  <2> QED  BY <2>1, <1>4
<1>6. \A p \in 1..(L + k) : p \in 1..L \/ p \in (L + 1)..(L + k)
  BY <1>1, <1>2
<1>7. \A i \in 1..n : Same(answers[i], answers'[i])
  <2> TAKE i \in 1..n
  <2>1. CASE i = n
    BY <1>1, <2>1 DEF Write
  <2>2. CASE i # n
    <3>1. i \in 1..(n - 1)
      BY <1>1, <2>2
    <3> QED  BY <3>1 DEF Write, Same
  <2> QED  BY <2>1, <2>2
<1>8. \A i \in 1..n : Sent(i)' = IF i = n THEN Sent(i) \cup (next..(next + k - 1)) ELSE Sent(i)
  <2> TAKE i \in 1..n
  <2> QED  BY <1>1, <1>2, <1>3, SentFacts DEF Write
<1>9. gone' = gone /\ drained' = drained /\ disk' = disk /\ changes' = changes
  BY DEF Write, envVars
<1>10. Room' = IF gone THEN 0 ELSE Room - k
  <2>1. Room' = IF gone THEN 0 ELSE SndBuf - (Len(stream') - drained)
    BY <1>9 DEF Room
  <2> QED  BY <1>1, <1>2, <1>4, <2>1
<1>11. \A p \in DOMAIN stream' :
          stream'[p][1] \in 1..n /\ stream'[p][2] \in 1..answers'[stream'[p][1]].total
  <2>1. \A p \in 1..L : stream[p][1] \in 1..n /\ stream[p][2] \in 1..answers[stream[p][1]].total
    BY <1>3, <1>4 DEF TypeOK
  <2>2. \A p \in 1..L : stream'[p][1] \in 1..n /\ stream'[p][2] \in 1..answers'[stream'[p][1]].total
    BY <2>1, <1>4, <1>7 DEF Same
  <2>3. ASSUME NEW p \in (L + 1)..(L + k)
        PROVE  stream'[p][1] \in 1..n /\ stream'[p][2] \in 1..answers'[stream'[p][1]].total
    <3>1. p - L \in 1..k /\ stream'[p][1] = n /\ stream'[p][2] = next + (p - L) - 1
      BY <1>5
    <3>2. next + (p - L) - 1 \in 1..cur.total
      BY <1>1, <1>2, <3>1 DEF Write
    <3>3. answers'[n].total = cur.total
      BY DEF Write, Same
    <3> QED  BY <1>1, <3>1, <3>2, <3>3
  <2> QED  BY <1>4, <1>6, <2>2, <2>3
<1>12. TypeOK'
  <2>1. pc' \in Pcs /\ n' = n /\ n # 0
    BY <1>1 DEF Write
  <2>2. drained' \in 0..Len(stream') /\ Len(stream') - drained' <= SndBuf
    BY <1>1, <1>2, <1>3, <1>4, <1>9 DEF TypeOK
  <2>3. pc' \in Writing => next' \in 1..(answers'[n].total + 1)
    BY <1>1, <1>2 DEF Write, Same
  <2>4. cur' = answers'[n]
    BY <2>1 DEF cur
  <2>5. pc' \in Pcs /\ changes' \in 0..MaxChanges /\ disk' \in Disks /\ gone' \in BOOLEAN
    BY <2>1, <1>3, <1>9 DEF TypeOK
  <2>6. n' <= MaxRequests /\ n' # 0
    BY <2>1, <1>3 DEF TypeOK
  <2>7. pc' \in {"head", "body", "file", "phphead", "phpbody"} => next' \in 1..cur'.total + 1
    BY <2>3, <2>4 DEF Writing
  <2>8. \A i \in DOMAIN stream' : stream'[i][1] \in 1..n' /\ stream'[i][2] \in 1..answers'[stream'[i][1]].total
    BY <2>1, <1>11
  <2> QED  BY <2>2, <2>5, <2>6, <2>7, <2>8 DEF TypeOK
<1>13. ShapeInv'
  <2>1. \A i \in 1..n : Fields \subseteq DOMAIN answers'[i] /\ Measured(answers'[i])
    BY <1>3, <1>7 DEF ShapeInv, Same, Measured
  <2> QED  BY <2>1, <1>4 DEF ShapeInv, Write
<1>14. InOrder'
  <2> SUFFICES ASSUME NEW i \in 1..(L + k), NEW j \in 1..(L + k), i < j
               PROVE  \/ stream'[i][1] < stream'[j][1]
                      \/ stream'[i][1] = stream'[j][1] /\ stream'[i][2] < stream'[j][2]
    BY <1>4 DEF InOrder
  <2>1. CASE j \in 1..L
    <3>1. i \in 1..L
      BY <2>1, <1>1
    <3>2. stream'[i] = stream[i] /\ stream'[j] = stream[j]
      BY <2>1, <3>1, <1>4
    <3>3. i \in DOMAIN stream /\ j \in DOMAIN stream
      BY <2>1, <3>1, <1>4
    <3>4. \/ stream[i][1] < stream[j][1]
          \/ stream[i][1] = stream[j][1] /\ stream[i][2] < stream[j][2]
      BY <1>3, <3>3 DEF InOrder
    <3> QED  BY <3>2, <3>4
  <2>2. CASE j \in (L + 1)..(L + k) /\ i \in (L + 1)..(L + k)
    BY <2>2, <1>1, <1>5
  <2>3. CASE j \in (L + 1)..(L + k) /\ i \in 1..L
    <3>1. stream'[j][1] = n /\ stream'[j][2] \in Int /\ stream'[j][2] >= next
      BY <2>3, <1>1, <1>5
    <3>2. stream'[i] = stream[i] /\ stream[i][1] \in 1..n /\ stream[i][2] \in Nat
      <4>1. stream'[i] = stream[i] /\ i \in DOMAIN stream
        BY <2>3, <1>4
      <4>2. stream[i][1] \in 1..n
        BY <4>1, <1>3 DEF TypeOK
      <4>3. stream[i] \in Nat \X Nat
        BY <4>1, <1>3 DEF ShapeInv
      <4> QED  BY <4>1, <4>2, <4>3
    <3>3. stream[i][1] = n => stream[i][2] < next
      <4>1. stream[i][1] = n => stream[i][2] \in Sent(n)
        BY <2>3, <1>4 DEF Sent
      <4> QED  BY <4>1 DEF LastInv, Write
    <3>4. CASE stream[i][1] = n
      BY <3>1, <3>2, <3>3, <3>4, <1>1
    <3>5. CASE stream[i][1] # n
      <4>1. stream[i][1] < n
        BY <3>2, <3>5, <1>1
      <4> QED  BY <3>1, <3>2, <4>1
    <3> QED  BY <3>4, <3>5
  <2> QED  BY <2>1, <2>2, <2>3, <1>6
<1> QED  BY <1>2, <1>7, <1>8, <1>10, <1>12, <1>13, <1>14 DEF StreamInv

\* Only bytes of the answer go out
LEMMA SentTyped ==
  ASSUME TypeOK, NEW i
  PROVE  Sent(i) \subseteq 1..answers[i].total
BY DEF TypeOK, Sent

\* A write keeps the invariant, but for the place, if what ends is whole
LEMMA WriteStep ==
  ASSUME IInv, NEW k, Write(k), EndsWhole(k)
  PROVE  StreamInv' /\ LastInv' /\ FullInv' /\ RoomInv' /\ Unbroken' /\ Whole'
<1>1. /\ StreamInv' /\ k \in Nat
      /\ \A i \in 1..n : Same(answers[i], answers'[i])
      /\ \A i \in 1..n : Sent(i)' = IF i = n THEN Sent(i) \cup (next..(next + k - 1)) ELSE Sent(i)
      /\ Room' = IF gone THEN 0 ELSE Room - k
  BY WriteStream DEF IInv
<1>2. /\ n \in Nat /\ n \in 1..n /\ cur = answers[n] /\ cur.total \in Nat /\ cur.room \in Int
      /\ next \in 1..(cur.total + 1) /\ next \in Nat /\ Room \in Nat
      /\ n' = n /\ k <= Room /\ next + k <= cur.total + 1
      /\ gone' = gone /\ disk' = disk /\ pc \in Writing
  BY WritingFacts DEF Write, IInv, envVars
<1>3. cur' = answers'[n] /\ Same(cur, cur') /\ Same(answers[n], cur')
  BY <1>1, <1>2 DEF cur
<1>4. \A b \in Sent(n) : b \in Nat /\ b >= 1 /\ b < next
  <2>1. Sent(n) \subseteq 1..cur.total
    BY <1>2, SentTyped DEF IInv, StreamInv
  <2>2. \A b \in Sent(n) : b < next
    BY <1>2 DEF IInv, LastInv
  <2> QED  BY <2>1, <2>2, <1>2
<1>5. Sent(n)' = Sent(n) \cup (next..(next + k - 1))
  BY <1>1, <1>2
<1>14. \A i \in 1..n : i = n => Sent(i)' = Sent(n)' /\ Sent(i) = Sent(n)
  BY <1>2 DEF Sent
<1>6. \A b \in Sent(n)' : b \in Nat /\ b >= 1 /\ b < next + k
  BY <1>1, <1>2, <1>4, <1>5
<1>7. 1..(next - 1) \subseteq Sent(n) => 1..(next + k - 1) \subseteq Sent(n)'
  <2> HAVE 1..(next - 1) \subseteq Sent(n)
  <2>1. \A b \in 1..(next + k - 1) : b \in 1..(next - 1) \/ b \in next..(next + k - 1)
    BY <1>1, <1>2
  <2> QED  BY <1>5, <2>1
<1>8. pc' \in Writing => next' \in Nat /\ next' >= next + k
  BY <1>1, <1>2 DEF Write
<1>9. LastInv'
  <2>1. ASSUME pc' \in Writing, NEW b \in Sent(n)'
        PROVE  b < next'
    BY <1>1, <1>2, <1>6, <1>8, <2>1
  <2> QED  BY <2>1, <1>2 DEF LastInv, Sent
<1>10. FullInv'
  <2> SUFFICES ASSUME pc' \in {"head", "file"}, cur'.kind # "error"
               PROVE  1..(next' - 1) \subseteq Sent(n)'
    BY <1>2 DEF FullInv, Sent
  <2>1. next' = next + k /\ pc = "head" /\ cur.kind # "error"
    BY <1>3 DEF Write, Same, Writing
  <2>2. 1..(next - 1) \subseteq Sent(n)
    BY <2>1 DEF IInv, FullInv
  <2>3. next' - 1 = next + k - 1
    BY <1>1, <1>2, <2>1
  <2> QED  BY <1>7, <2>2, <2>3
<1>11. RoomInv'
  <2> SUFFICES ASSUME pc' \in Writing, ~ gone', cur'.room >= cur'.total
               PROVE  1..(next' - 1) \subseteq Sent(n)' /\ Room' >= cur'.total - next' + 1
    BY <1>2 DEF RoomInv, Sent
  <2>1. Roomy /\ cur'.total = cur.total
    BY <1>2, <1>3 DEF Roomy, Same
  <2>2. next' = next + k
    BY <2>1 DEF Write
  <2>3. 1..(next - 1) \subseteq Sent(n) /\ Room >= cur.total - next + 1
    BY <1>2, <2>1 DEF IInv, RoomInv, Roomy
  <2>4. Room' = Room - k
    BY <1>1, <2>1 DEF Roomy
  <2> QED  BY <1>1, <1>2, <1>7, <2>1, <2>2, <2>3, <2>4
<1>12. Unbroken'
  <2> SUFFICES ASSUME NEW i \in 1..n, answers'[i].kind \in {"static", "options"}, NEW b \in Sent(i)'
               PROVE  1..b \subseteq Sent(i)'
    BY <1>2 DEF Unbroken, Sent
  <2>1. answers[i].kind = answers'[i].kind
    BY <1>1 DEF Same
  <2>2. CASE i # n
    <3>1. Sent(i)' = Sent(i)
      BY <1>1, <2>2
    <3>2. 1..b \subseteq Sent(i)
      BY <2>1, <3>1 DEF IInv, Unbroken
    <3> QED  BY <3>1, <3>2
  <2>3. CASE i = n
    <3>1. cur.kind \in {"static", "options"}
      BY <1>2, <2>1, <2>3
    <3>2. pc \in {"head", "file"}
      BY <1>2, <3>1 DEF IInv, PlaceInv, Writing
    <3>3. 1..(next - 1) \subseteq Sent(n)
      BY <3>1, <3>2 DEF IInv, FullInv
    <3>4. b \in Nat /\ b < next + k
      BY <1>6, <1>14, <2>3
    <3>5. 1..(next + k - 1) \subseteq Sent(n)'
      BY <1>7, <3>3
    <3>6. 1..b \subseteq 1..(next + k - 1)
      BY <1>1, <1>2, <3>4
    <3> QED  BY <1>14, <2>3, <3>5, <3>6
  <2> QED  BY <2>2, <2>3
<1>13. Whole'
  <2> DEFINE Kept(a) == ~ gone /\ a.room >= a.total
                          /\ (a.kind = "static" => a.served.mode = "regular"
                                                   /\ a.served = FileAt(a.disk, a.name))
             End(a) == a.kind \in {"static", "error"} /\ ~ a.head => a.total = HeadLen + a.length
  <2> SUFFICES ASSUME NEW i \in 1..n, i < n \/ pc' \in {"read", "closed"}, Kept(answers'[i])
               PROVE  Sent(i)' = 1..answers'[i].total /\ End(answers'[i])
    BY <1>2, Zenon DEF Whole, Sent, Finished
  <2>1. Same(answers[i], answers'[i]) /\ Measured(answers[i])
    BY <1>1 DEF IInv, StreamInv, ShapeInv
  <2>2. End(answers'[i])
    BY <2>1 DEF Same, Measured
  <2>3. CASE i # n
    <3>1. i \in 1..(n - 1)
      BY <1>2, <2>3
    <3>2. answers'[i] = answers[i]
      BY <3>1 DEF Write
    <3>3. Finished(i)
      BY <3>1, <1>2 DEF Finished
    <3>4. Sent(i) = 1..answers[i].total
      BY <3>2, <3>3 DEF IInv, Whole
    <3> QED  BY <1>1, <2>2, <2>3, <3>2, <3>4
  <2>4. CASE i = n
    <3>1. Roomy /\ pc' \in {"read", "closed"}
      BY <1>2, <2>1, <2>4 DEF Roomy, Same
    <3>2. cur.kind = "static" => /\ answers'[n].served.mode = "regular"
                                 /\ answers'[n].served = FileAt(cur.disk, cur.name)
      BY <1>2, <2>1, <2>4 DEF Same
    <3>3. next + k = cur.total + 1
      BY <3>1, <3>2 DEF EndsWhole
    <3>4. 1..(next - 1) \subseteq Sent(n)
      BY <1>2, <3>1 DEF IInv, RoomInv, Roomy
    <3>5. 1..(next + k - 1) \subseteq Sent(n)'
      BY <1>7, <3>4
    <3>6. next + k - 1 = cur.total /\ answers'[n].total = cur.total
      BY <1>1, <1>2, <1>3, <3>3 DEF Same
    <3>7. Sent(n)' \subseteq 1..cur.total
      BY <1>1, <1>2, <1>6, <3>3
    <3> QED  BY <1>14, <2>2, <2>4, <3>5, <3>6, <3>7
  <2> QED  BY <2>3, <2>4
<1> QED  BY <1>1, <1>9, <1>10, <1>11, <1>12, <1>13

\* The smaller of two numbers
LEMMA MinFacts ==
  ASSUME NEW a \in Nat, NEW b \in Nat
  PROVE  Min({a, b}) = IF a <= b THEN a ELSE b
<1>1. Min({a, b}) = CHOOSE x \in {a, b} : \A y \in {a, b} : x <= y
  BY DEF Min
<1> QED  BY <1>1

\* An answer that is not touched is the same
LEMMA Untouched ==
  ASSUME IInv, pc \in Writing, answers' = answers, pc' \in Pcs
  PROVE  /\ n' = n /\ cur' = cur /\ Same(cur, answers'[n])
         /\ answers' \in Seq({answers'[i] : i \in 1..n})
         /\ \A i \in 1..(n - 1) : answers'[i] = answers[i]
BY DEF n, cur, Same, IInv, StreamInv, ShapeInv

\* A turn of rio_writen's loop is a write, and either goes on in the loop or
\* leaves it, behind its last byte
LEMMA RioFacts ==
  ASSUME IInv, pc \in {"head", "body"}, NEW end \in next..cur.total, NEW done, NEW failed,
         rio_writen(end, done, failed),
         done \in Pcs \ {"ask"}, failed \in Pcs \ {"ask", "head", "file"},
         done \in {"head", "file"} => pc = "head",
         done \in {"read", "closed"} => end = cur.total
  PROVE  /\ \E k : Write(k) /\ EndsWhole(k)
         /\ answers' = answers /\ n' = n /\ cur' = cur
         /\ \/ next' \in next..end /\ pc' = pc
            \/ next' = end + 1 /\ pc' \in {done, failed}
<1>1. /\ n \in Nat /\ n \in 1..n /\ cur.total \in Nat /\ cur.room \in Int
      /\ next \in 1..(cur.total + 1) /\ next \in Nat /\ Room \in Nat /\ pc \in Writing
  BY WritingFacts DEF IInv, Writing
<1>2. end \in Nat /\ next <= end /\ end <= cur.total /\ end - next + 1 \in Nat
  BY <1>1
<1> DEFINE k == IF end - next + 1 <= Room THEN end - next + 1 ELSE Room
<1>3. Min({end - next + 1, Room}) = k
  BY <1>1, <1>2, MinFacts
<1>4. k \in 0..Room /\ k \in Nat /\ next + k <= end + 1
  BY <1>1, <1>2
<1>5. Roomy => k = end - next + 1
  BY <1>1, <1>2 DEF IInv, RoomInv, Roomy
<1>6. k = 0 => ~ Roomy
  BY <1>1, <1>2, <1>5
<1> HIDE DEF k
<1>7. /\ Takes(k) /\ answers' = answers /\ envVars' = envVars
      /\ \/ k > 0 /\ next' = next + k /\ pc' = IF next + k > end THEN done ELSE pc
         \/ k = 0 /\ next' = end + 1 /\ pc' = failed
  BY <1>3, Zenon DEF rio_writen, GivesUp
<1>8. pc' \in Pcs \ {"ask"} /\ (pc' \in {"head", "file"} => pc = "head")
  BY <1>7 DEF Pcs
<1>9. \/ k > 0 /\ next' = next + k /\ next' \in next..end /\ pc' = pc
      \/ k > 0 /\ next' = next + k /\ next' = end + 1 /\ pc' = done
      \/ k = 0 /\ next' = end + 1 /\ pc' = failed
  BY <1>2, <1>4, <1>7, <1>1
<1>10. n' = n /\ cur' = cur
  BY <1>1, <1>7, <1>8, Untouched
<1>11. Write(k)
  <2>1. next + k <= cur.total + 1
    BY <1>1, <1>2, <1>4
  <2>2. \/ next' = next + k
        \/ /\ next' \in (next + k)..(cur.total + 1)
           /\ pc' \notin {"head", "file"} /\ ~ Roomy
    BY <1>1, <1>2, <1>6, <1>9
  <2>3. /\ Same(cur, answers'[n]) /\ answers' \in Seq({answers'[i] : i \in 1..n})
        /\ \A i \in 1..(n - 1) : answers'[i] = answers[i]
    BY <1>1, <1>7, <1>8, Untouched
  <2> QED  BY <1>1, <1>4, <1>7, <1>8, <1>10, <2>1, <2>2, <2>3 DEF Write
<1>12. EndsWhole(k)
  <2> SUFFICES ASSUME pc' \in {"read", "closed"}, Roomy
               PROVE  next + k = cur.total + 1
    BY DEF EndsWhole
  <2>1. k > 0 /\ next' = next + k /\ next' = end + 1 /\ pc' = done
    BY <1>6, <1>9
  <2> QED  BY <2>1
<1> QED  BY <1>7, <1>9, <1>10, <1>11, <1>12

\* A write that says where it leaves dorequest keeps the whole invariant
LEMMA WriteKeeps ==
  ASSUME IInv, \E k : Write(k) /\ EndsWhole(k), PlaceInv'
  PROVE  IInv'
<1>1. PICK k : Write(k) /\ EndsWhole(k)
  OBVIOUS
<1> QED  BY <1>1, WriteStep DEF IInv

\* The header
LEMMA HeadKeeps ==
  ASSUME IInv, WriteHead
  PROVE  IInv'
<1>1. /\ n \in 1..n /\ cur.total \in Nat /\ next \in 1..HeadLen /\ pc = "head"
      /\ HeadLen \in Nat /\ ErrorLen \in Nat /\ ErrorLen >= 1 /\ Measured(cur)
  BY WritingFacts DEF IInv, StreamInv, ShapeInv, PlaceInv, WriteHead, Writing
<1>2. AfterAnswer \in {"read", "closed"} /\ TornHead \in {"read", "closed"}
  BY DEF AfterAnswer, TornHead
<1>3. HeadLen <= cur.total
  BY <1>1 DEF WriteHead, Measured
<1>4. HeadLen \in next..cur.total
  BY <1>1, <1>3
<1>5. CASE cur.kind = "options" /\ rio_writen(HeadLen, "closed", "closed")
  <2>1. /\ \E k : Write(k) /\ EndsWhole(k)
        /\ answers' = answers /\ n' = n /\ cur' = cur
        /\ \/ next' \in next..HeadLen /\ pc' = pc
           \/ next' = HeadLen + 1 /\ pc' \in {"closed", "closed"}
    BY <1>1, <1>4, <1>5, RioFacts DEF Pcs, Measured
  <2>2. PlaceInv'
    BY <1>1, <1>5, <2>1 DEF PlaceInv
  <2> QED  BY <2>1, <2>2, WriteKeeps
<1>6. CASE cur.kind = "error" /\ rio_writen(HeadLen, "body", "body")
  <2>1. /\ \E k : Write(k) /\ EndsWhole(k)
        /\ answers' = answers /\ n' = n /\ cur' = cur
        /\ \/ next' \in next..HeadLen /\ pc' = pc
           \/ next' = HeadLen + 1 /\ pc' \in {"body", "body"}
    BY <1>1, <1>4, <1>6, RioFacts DEF Pcs
  <2>2. PlaceInv'
    BY <1>1, <1>6, <2>1 DEF PlaceInv, Measured
  <2> QED  BY <2>1, <2>2, WriteKeeps
<1>7. CASE cur.kind = "static" /\ rio_writen(HeadLen, IF cur.head THEN AfterAnswer ELSE "file", TornHead)
  <2> DEFINE done == IF cur.head THEN AfterAnswer ELSE "file"
  <2>1. /\ done \in Pcs \ {"ask"} /\ TornHead \in Pcs \ {"ask", "head", "file"}
        /\ (done \in {"read", "closed"} => HeadLen = cur.total)
        /\ (done = "file" => ~ cur.head) /\ (done # "file" => done \in {"read", "closed"})
    BY <1>1, <1>2, <1>7 DEF Pcs, Measured
  <2>2. rio_writen(HeadLen, done, TornHead)
    BY <1>7
  <2> HIDE DEF done
  <2>3. /\ \E k : Write(k) /\ EndsWhole(k)
        /\ answers' = answers /\ n' = n /\ cur' = cur
        /\ \/ next' \in next..HeadLen /\ pc' = pc
           \/ next' = HeadLen + 1 /\ pc' \in {done, TornHead}
    BY <1>1, <1>4, <2>1, <2>2, RioFacts
  <2>4. PlaceInv'
    BY <1>1, <1>2, <1>7, <2>1, <2>3 DEF PlaceInv
  <2> QED  BY <2>3, <2>4, WriteKeeps
<1> QED  BY <1>5, <1>6, <1>7 DEF WriteHead

\* The page of an error
LEMMA BodyKeeps ==
  ASSUME IInv, WriteBody
  PROVE  IInv'
<1>1. /\ n \in 1..n /\ cur.total \in Nat /\ pc = "body" /\ HeadLen \in Nat
      /\ cur.kind = "error" /\ next \in (HeadLen + 1)..cur.total
  BY WritingFacts DEF IInv, StreamInv, PlaceInv, WriteBody, Writing
<1>2. cur.total \in next..cur.total /\ rio_writen(cur.total, "closed", "closed")
  BY <1>1 DEF WriteBody, EndOfBody
<1>3. /\ \E k : Write(k) /\ EndsWhole(k)
      /\ answers' = answers /\ n' = n /\ cur' = cur
      /\ \/ next' \in next..cur.total /\ pc' = pc
         \/ next' = cur.total + 1 /\ pc' \in {"closed", "closed"}
  BY <1>1, <1>2, RioFacts DEF Pcs
<1>4. PlaceInv'
  BY <1>1, <1>3 DEF PlaceInv
<1> QED  BY <1>3, <1>4, WriteKeeps

\* The smallest of three
LEMMA MinThree ==
  ASSUME NEW a \in Nat, NEW b \in Nat, NEW c \in Nat
  PROVE  LET m == Min({a, b, c}) IN m \in {a, b, c} /\ m <= a /\ m <= b /\ m <= c
<1>1. Min({a, b, c}) = CHOOSE x \in {a, b, c} : \A y \in {a, b, c} : x <= y
  BY DEF Min
<1>2. \E x \in {a, b, c} : \A y \in {a, b, c} : x <= y
  <2>1. CASE a <= b /\ a <= c
    BY <2>1
  <2>2. CASE b <= a /\ b <= c
    BY <2>2
  <2>3. CASE c <= a /\ c <= b
    BY <2>3
  <2> QED  BY <2>1, <2>2, <2>3
<1> QED  BY <1>1, <1>2

\* Changing one of the answers
LEMMA ChangedFacts ==
  ASSUME ShapeInv, NEW m \in 1..n, NEW e
  PROVE  answers' = [answers EXCEPT ![m] = e] =>
           /\ n' = n /\ answers'[m] = e
           /\ \A i \in 1..n : i # m => answers'[i] = answers[i]
           /\ answers' \in Seq({answers'[i] : i \in 1..n})
<1> DEFINE T == {answers[i] : i \in 1..n}
           S == T \cup {e}
<1>1. answers \in Seq(T) /\ m \in 1..Len(answers)
  BY DEF ShapeInv, n
<1> HIDE DEF T
<1>2. answers' = [answers EXCEPT ![m] = e] =>
        /\ answers' \in Seq(S) /\ Len(answers') = Len(answers) /\ answers'[m] = e
        /\ \A i \in 1..Len(answers) : i # m => answers'[i] = answers[i]
  BY <1>1
<1> HIDE DEF S
<1>3. answers' \in Seq(S) => answers' \in Seq({answers'[i] : i \in 1..Len(answers')})
  BY OwnElements
<1> QED  BY <1>2, <1>3 DEF n

\* What the file system holds has a size
LEMMA FileFacts ==
  ASSUME NEW d \in Disks, NEW name
  PROVE  FileAt(d, name).size \in Nat
<1>1. CASE name \in DOMAIN d
  <2>1. d[name] \in FileState
    BY <1>1, AnswerAssumption
  <2> QED  BY <1>1, <2>1 DEF FileAt, FileState
<1>2. CASE name \notin DOMAIN d
  BY <1>2 DEF FileAt, NoFile
<1> QED  BY <1>1, <1>2

\* sendfile
LEMMA FileKeeps ==
  ASSUME IInv, SendFile
  PROVE  IInv'
<1>1. /\ n \in Nat /\ n \in 1..n /\ cur = answers[n] /\ cur.total \in Nat /\ cur.room \in Int
      /\ Room \in Nat /\ pc = "file" /\ pc \in Writing /\ HeadLen \in Nat
      /\ cur.kind = "static" /\ ~ cur.head /\ next = HeadLen + 1 /\ Measured(cur)
      /\ Fields \subseteq DOMAIN cur
  BY WritingFacts DEF IInv, StreamInv, ShapeInv, PlaceInv, SendFile, Writing
<1> DEFINE file == FileAt(disk, cur.name)
           k == IF file.mode = "regular" THEN Min({cur.length, file.size, Room}) ELSE 0
           a == [cur EXCEPT !.served = file]
<1>2. /\ Takes(k) /\ next' = next + k /\ answers' = [answers EXCEPT ![n] = a]
      /\ pc' = AfterAnswer /\ envVars' = envVars
  BY <1>1 DEF SendFile, Count
<1>3. file.size \in Nat /\ cur.length \in Nat /\ cur.total = HeadLen + cur.length
  BY <1>1, FileFacts DEF IInv, StreamInv, TypeOK, Measured
<1>4. Same(cur, a) /\ a.served = file
  BY <1>1 DEF Same, Fields
<1>5. pc' \in {"read", "closed"}
  BY <1>2 DEF AfterAnswer
<1> DEFINE m == Min({cur.length, file.size, Room})
<1>6. m \in {cur.length, file.size, Room} /\ m <= cur.length /\ m <= file.size /\ m <= Room
  BY <1>1, <1>3, MinThree
<1>7. k = IF file.mode = "regular" THEN m ELSE 0
  OBVIOUS
<1> HIDE DEF file, m, k, a
<1>8. k \in Nat /\ k <= cur.length /\ k <= Room
  BY <1>1, <1>3, <1>6, <1>7
<1>9. /\ n' = n /\ answers'[n] = a /\ answers' \in Seq({answers'[i] : i \in 1..n})
      /\ \A i \in 1..n : i # n => answers'[i] = answers[i]
  BY <1>1, <1>2, ChangedFacts DEF IInv, StreamInv
<1>10. Write(k)
  <2>1. \A i \in 1..(n - 1) : i \in 1..n /\ i # n
    BY <1>1
  <2>2. next + k <= cur.total + 1 /\ k \in 0..Room
    BY <1>1, <1>3, <1>8
  <2>3. pc' \in Pcs \ {"ask"} /\ pc' \notin Writing /\ pc' \notin {"head", "file"}
    BY <1>5 DEF Pcs, Writing
  <2> QED  BY <1>1, <1>2, <1>4, <1>9, <2>1, <2>2, <2>3 DEF Write
<1>11. EndsWhole(k)
  <2> SUFFICES ASSUME Roomy, answers'[n].served.mode = "regular",
                      answers'[n].served = FileAt(cur.disk, cur.name)
               PROVE  next + k = cur.total + 1
    BY <1>1 DEF EndsWhole
  <2>1. file.mode = "regular" /\ file.size = cur.length
    BY <1>1, <1>4, <1>9 DEF Measured
  <2>2. Room >= cur.total - next + 1
    BY <1>1 DEF IInv, RoomInv, Roomy
  <2>3. Room >= cur.length
    BY <1>1, <1>3, <2>2
  <2>4. k = cur.length
    BY <1>1, <1>3, <1>6, <1>7, <2>1, <2>3
  <2> QED  BY <1>1, <1>3, <2>4
<1>12. PlaceInv'
  BY <1>5 DEF PlaceInv
<1> QED  BY <1>10, <1>11, <1>12, WriteKeeps

\* The header and the message of serve_php
LEMMA PhpKeeps ==
  ASSUME IInv, WritePhp
  PROVE  IInv'
<1>1. /\ n \in Nat /\ n \in 1..n /\ cur.total \in Nat /\ cur.room \in Int
      /\ next \in 1..(cur.total + 1) /\ next \in Nat /\ Room \in Nat /\ pc \in Writing
      /\ HeadLen \in Nat /\ HeadLen >= 1
  BY WritingFacts DEF IInv, WritePhp, Writing
<1>2. /\ cur.kind = "php" /\ cur.total >= HeadLen
      /\ (pc = "phphead" /\ next = 1) \/ (pc = "phpbody" /\ next = HeadLen + 1)
  BY DEF IInv, PlaceInv, WritePhp
<1> DEFINE end == IF pc = "phphead" THEN HeadLen ELSE cur.total
           k == IF end - next + 1 <= Room THEN end - next + 1 ELSE Room
<1>3. end \in Nat /\ end - next + 1 \in Nat /\ end <= cur.total
  BY <1>1, <1>2
<1>4. Min({end - next + 1, Room}) = k
  BY <1>1, <1>3, MinFacts
<1>5. k \in 0..Room /\ next + k <= end + 1 /\ (Roomy => next + k = end + 1)
  <2>1. Roomy => Room >= end - next + 1
    BY <1>1, <1>3 DEF IInv, RoomInv, Roomy
  <2> QED  BY <1>1, <1>3, <2>1
<1>6. /\ Takes(Min({end - next + 1, Room})) /\ next' = end + 1
      /\ answers' = answers /\ envVars' = envVars
      /\ \/ pc = "phphead" /\ pc' = "phpbody"
         \/ pc = "phpbody" /\ pc' = AfterAnswer
         \/ pc = "phpbody" /\ pc' = "crashed"
  BY <1>2 DEF WritePhp
<1>7. (pc = "phphead" => end = HeadLen) /\ (pc = "phpbody" => end = cur.total)
  OBVIOUS
<1> HIDE DEF end, k
<1>8. \/ pc = "phphead" /\ pc' = "phpbody"
      \/ pc = "phpbody" /\ pc' \in {"read", "closed", "crashed"}
  BY <1>6 DEF AfterAnswer
<1>9. /\ n' = n /\ cur' = cur /\ Same(cur, answers'[n])
      /\ answers' \in Seq({answers'[i] : i \in 1..n})
      /\ \A i \in 1..(n - 1) : answers'[i] = answers[i]
  BY <1>1, <1>6, <1>8, Untouched DEF Pcs
<1>10. Write(k)
  <2>1. next + k <= cur.total + 1 /\ next' \in (next + k)..(cur.total + 1) /\ (Roomy => next' = next + k)
    BY <1>1, <1>3, <1>5, <1>6
  <2>2. pc' \in Pcs \ {"ask"} /\ pc' \notin {"head", "file"}
    BY <1>8 DEF Pcs
  <2> QED  BY <1>1, <1>4, <1>5, <1>6, <1>9, <2>1, <2>2 DEF Write
<1>11. EndsWhole(k)
  BY <1>5, <1>7, <1>8 DEF EndsWhole
<1>12. PlaceInv'
  BY <1>2, <1>6, <1>7, <1>8, <1>9 DEF PlaceInv
<1> QED  BY <1>10, <1>11, <1>12, WriteKeeps

-----------------------------------------------------------------------------
(* Answers that begin *)

\* An answer that begins has the room the socket has now
LEMMA BeginKeeps ==
  ASSUME IInv, pc = "read", n < MaxRequests, NEW a, NEW at, Begins(a, at),
         Fields \subseteq DOMAIN a, Measured(a), a.room = Room,
         \/ at = "head" /\ a.kind \in {"options", "error", "static"}
         \/ at = "ask" /\ a.kind = "php"
  PROVE  IInv'
<1> DEFINE T == {answers[i] : i \in 1..n}
<1>1. TypeOK /\ ShapeInv /\ InOrder /\ n \in Nat /\ n = Len(answers) /\ answers \in Seq(T)
      /\ MaxRequests \in Nat /\ HeadLen \in Nat /\ HeadLen >= 1
  BY AnswerAssumption DEF IInv, StreamInv, ShapeInv, n
<1>2. /\ answers' = Append(answers, a) /\ next' = 1 /\ pc' = at /\ stream' = stream
      /\ drained' = drained /\ gone' = gone /\ disk' = disk /\ changes' = changes
  BY DEF Begins, envVars
<1> HIDE DEF T
<1>3. /\ Len(answers') = n + 1 /\ answers'[n + 1] = a
      /\ \A i \in 1..n : answers'[i] = answers[i]
      /\ answers' \in Seq({answers'[i] : i \in 1..Len(answers')})
  BY <1>1, <1>2, AppendFacts
<1>4. n' = n + 1 /\ cur' = a /\ a.total \in Nat
  BY <1>3 DEF n, cur, Measured
<1>5. \A i : Sent(i)' = Sent(i)
  BY <1>2 DEF Sent
<1>6. Sent(n)' = {} /\ \A i : i = n + 1 => Sent(i)' = {}
  <2>1. \A p \in DOMAIN stream : stream[p][1] # n + 1
    BY <1>1 DEF TypeOK
  <2>2. \A p \in DOMAIN stream' : stream'[p][1] # n + 1 /\ stream'[p][1] # n'
    BY <2>1, <1>2, <1>4
  <2> QED  BY <2>2 DEF Sent
<1>7. \A i \in 1..n' : i \in 1..n \/ i = n + 1
  BY <1>1, <1>4
<1>8. Room' = Room
  BY <1>2 DEF Room
<1>9. TypeOK'
  <2>1. pc' \in Pcs /\ n' <= MaxRequests /\ n' # 0 /\ next' \in 1..(cur'.total + 1)
    BY <1>1, <1>2, <1>4 DEF Pcs
  <2>2. \A p \in DOMAIN stream' : stream'[p][1] \in 1..n' /\ stream'[p][2] \in 1..answers'[stream'[p][1]].total
    <3> TAKE p \in DOMAIN stream'
    <3>1. stream'[p] = stream[p] /\ stream[p][1] \in 1..n /\ stream[p][2] \in 1..answers[stream[p][1]].total
      BY <1>1, <1>2 DEF TypeOK
    <3>2. stream[p][1] \in 1..(n + 1)
      BY <3>1, <1>1
    <3> QED  BY <3>1, <3>2, <1>3, <1>4
  <2>3. /\ changes' \in 0..MaxChanges /\ disk' \in Disks /\ gone' \in BOOLEAN
        /\ drained' \in 0..Len(stream') /\ Len(stream') - drained' <= SndBuf
    BY <1>1, <1>2 DEF TypeOK
  <2> QED  BY <2>1, <2>2, <2>3 DEF TypeOK
<1>10. ShapeInv'
  <2>1. \A i \in 1..n' : Fields \subseteq DOMAIN answers'[i] /\ Measured(answers'[i])
    BY <1>1, <1>3, <1>7 DEF ShapeInv
  <2>2. stream' \in Seq(Nat \X Nat)
    BY <1>1, <1>2 DEF ShapeInv
  <2> QED  BY <2>1, <2>2, <1>3 DEF ShapeInv, n
<1>11. InOrder'
  BY <1>1, <1>2 DEF InOrder
<1>12. PlaceInv'
  <2>1. pc' = at /\ cur' = a /\ next' = 1 /\ 1 \in 1..HeadLen
    BY <1>1, <1>2, <1>4
  <2>2. pc' = "head" => cur'.kind \in {"options", "error", "static"} /\ next' \in 1..HeadLen
    BY <2>1
  <2>3. pc' \in {"ask", "phphead"} => next' = 1 /\ cur'.kind = "php" /\ Sent(n)' = {}
    BY <2>1, <1>6
  <2>4. pc' \in {"head", "ask"}
    BY <2>1
  <2> QED  BY <2>2, <2>3, <2>4 DEF PlaceInv
<1>13. LastInv' /\ FullInv'
  <2>1. 1..(next' - 1) = {} /\ Sent(n)' = {}
    BY <1>2, <1>6
  <2> QED  BY <2>1 DEF LastInv, FullInv
<1>14. RoomInv'
  <2>1. 1..(next' - 1) = {}
    BY <1>2
  <2>2. cur'.room >= cur'.total => Room' >= cur'.total - next' + 1
    BY <1>2, <1>4, <1>8
  <2> QED  BY <2>1, <2>2 DEF RoomInv
<1>15. Unbroken'
  <2> SUFFICES ASSUME NEW i \in 1..n', answers'[i].kind \in {"static", "options"}, NEW b \in Sent(i)'
               PROVE  1..b \subseteq Sent(i)'
    BY Zenon DEF Unbroken
  <2>1. i \in 1..n
    BY <1>6, <1>7
  <2> QED  BY <2>1, <1>3, <1>5 DEF IInv, Unbroken
<1>16. Whole'
  <2> SUFFICES ASSUME NEW i \in 1..n', Finished(i)'
               PROVE  i \in 1..n /\ Finished(i) /\ answers'[i] = answers[i] /\ Sent(i)' = Sent(i)
    BY <1>2 DEF Whole, IInv
  <2>1. i < n + 1
    BY <1>2, <1>4 DEF Finished
  <2>2. i \in 1..n
    BY <2>1, <1>1, <1>4
  <2>3. Finished(i)
    BY <2>2, <1>1 DEF Finished
  <2> QED  BY <2>2, <2>3, <1>2, <1>3, <1>5
<1> QED  BY <1>9, <1>10, <1>11, <1>12, <1>13, <1>14, <1>15, <1>16 DEF IInv, StreamInv

\* Where dorequest ends nothing is written any more
LEMMA StopKeeps ==
  ASSUME IInv, UNCHANGED <<answers, next, stream, envVars>>,
         \/ pc = "read" /\ pc' \in {"closed", "crashed"}
         \/ pc = "ask" /\ pc' = "crashed"
  PROVE  IInv'
<1>1. /\ answers' = answers /\ next' = next /\ stream' = stream
      /\ drained' = drained /\ gone' = gone /\ disk' = disk /\ changes' = changes
  BY DEF envVars
<1>2. n' = n /\ \A i : Sent(i)' = Sent(i)
  BY <1>1 DEF n, Sent
<1>3. TypeOK'
  BY <1>1, <1>2 DEF IInv, StreamInv, TypeOK, Pcs
<1>4. ShapeInv' /\ InOrder'
  BY <1>1, <1>2 DEF IInv, StreamInv, ShapeInv, InOrder
<1>5. PlaceInv' /\ LastInv' /\ FullInv' /\ RoomInv'
  BY DEF PlaceInv, LastInv, FullInv, RoomInv, Writing
<1>6. Unbroken'
  BY <1>1, <1>2 DEF IInv, Unbroken, Sent
<1>7. Whole'
  <2> SUFFICES ASSUME NEW i \in 1..n', Finished(i)'
               PROVE  i \in 1..n /\ Finished(i) /\ answers'[i] = answers[i] /\ Sent(i)' = Sent(i)
    BY <1>1 DEF Whole, IInv
  <2> QED  BY <1>1, <1>2 DEF Finished
<1> QED  BY <1>3, <1>4, <1>5, <1>6, <1>7 DEF IInv, StreamInv

\* Whatever was asked for, an answer begins, or the worker crashes
LEMMA HandleKeeps ==
  ASSUME IInv, NEW r \in Requests, Handle(r)
  PROVE  IInv'
<1>1. /\ pc = "read" /\ n < MaxRequests /\ disk \in Disks /\ Room \in Int
      /\ HeadLen \in Nat /\ ErrorLen \in Nat
  <2>1. Len(stream) \in Nat /\ drained \in 0..Len(stream)
    BY DEF IInv, StreamInv, TypeOK, ShapeInv
  <2> QED  BY <2>1, AnswerAssumption DEF Handle, IInv, StreamInv, TypeOK, Room
<1>2. ASSUME NEW kind, NEW status, NEW name
      PROVE  LET a == Answer(r, kind, status, name)
             IN  /\ Fields \subseteq DOMAIN a /\ a.room = Room /\ a.kind = kind /\ a.total = HeadLen
                 /\ a.name = name /\ a.disk = disk
  BY DEF Answer, Fields
<1>3. CASE Options(r)
  <2> DEFINE a == Answer(r, "options", 204, <<>>)
  <2>1. Begins(a, "head")
    BY <1>3 DEF Options
  <2>2. /\ Fields \subseteq DOMAIN a /\ a.room = Room /\ a.kind = "options" /\ a.total = HeadLen
    BY <1>2
  <2> HIDE DEF a
  <2>3. Measured(a)
    BY <1>1, <2>2 DEF Measured
  <2> QED  BY <1>1, <2>1, <2>2, <2>3, BeginKeeps
<1>4. ASSUME NEW status, NEW name, Error(r, status, name)
      PROVE  IInv'
  <2> DEFINE b == Answer(r, "error", status, name)
             a == [b EXCEPT !.length = ErrorLen, !.total = HeadLen + ErrorLen]
  <2>1. Begins(a, "head")
    BY <1>4 DEF Error
  <2>2. Fields \subseteq DOMAIN b /\ b.room = Room /\ b.kind = "error"
    BY <1>2
  <2> HIDE DEF b
  <2>3. /\ Fields \subseteq DOMAIN a /\ a.room = Room /\ a.kind = "error"
        /\ a.length = ErrorLen /\ a.total = HeadLen + ErrorLen
    BY <2>2 DEF Fields
  <2> HIDE DEF a
  <2>4. Measured(a)
    BY <1>1, <2>3 DEF Measured
  <2> QED  BY <1>1, <2>1, <2>3, <2>4, BeginKeeps
<1>5. ASSUME NEW method, NEW name, Static(r, method, name),
             FileAt(disk, name).mode \in {"regular", "foreign"}
      PROVE  IInv'
  <2> DEFINE b == Answer(r, "static", 200, name)
             h == method = HEAD
             size == disk[name].size
             type == get_file_type(Suffix(name))
             total == HeadLen + IF h THEN 0 ELSE size
             a == [b EXCEPT !.head = h, !.length = size, !.type = type, !.total = total]
  <2>1. Begins(a, "head")
    BY <1>5 DEF Static
  <2>2. /\ Fields \subseteq DOMAIN b /\ b.room = Room /\ b.kind = "static"
        /\ b.name = name /\ b.disk = disk /\ "head" \in DOMAIN b
    BY <1>2 DEF Answer
  <2>3. name \in DOMAIN disk /\ size = FileAt(disk, name).size
    BY <1>5 DEF FileAt, NoFile
  <2>4. size \in Nat
    BY <1>1, <2>3, FileFacts
  <2>5. total = IF h THEN HeadLen ELSE HeadLen + size
    BY <1>1, <2>4
  <2>6. h \in BOOLEAN
    OBVIOUS
  <2> HIDE DEF b, h, size, type, total
  <2>7. /\ Fields \subseteq DOMAIN a /\ a.room = Room /\ a.kind = "static" /\ a.head = h
        /\ a.length = size /\ a.total = total /\ a.disk = disk /\ a.name = name
    BY <2>2 DEF Fields
  <2> HIDE DEF a
  <2>8. a.total \in Nat /\ a.room \in Int /\ a.length \in Nat
    BY <1>1, <2>4, <2>5, <2>7
  <2>9. /\ a.head \in BOOLEAN /\ a.length = FileAt(a.disk, a.name).size
        /\ a.total = IF a.head THEN HeadLen ELSE HeadLen + a.length
    BY <2>3, <2>5, <2>6, <2>7
  <2>10. Measured(a)
    BY <2>7, <2>8, <2>9 DEF Measured
  <2> QED  BY <1>1, <2>1, <2>7, <2>10, BeginKeeps
<1>6. ASSUME NEW method, NEW name, Php(r, method, name)
      PROVE  IInv'
  <2> DEFINE a == Answer(r, "php", 200, name)
  <2>1. Begins(a, "ask")
    BY <1>6 DEF Php
  <2>2. /\ Fields \subseteq DOMAIN a /\ a.room = Room /\ a.kind = "php" /\ a.total = HeadLen
    BY <1>2
  <2> HIDE DEF a
  <2>3. Measured(a)
    BY <1>1, <2>2 DEF Measured
  <2> QED  BY <1>1, <2>1, <2>2, <2>3, BeginKeeps
<1>7. CASE Crashes
  BY <1>1, <1>7, StopKeeps DEF Crashes, envVars
<1>8. \/ Options(r) \/ Crashes
      \/ \E status, name : Error(r, status, name)
      \/ \E method, name : Php(r, method, name)
      \/ \E method, name : Static(r, method, name) /\ FileAt(disk, name).mode \in {"regular", "foreign"}
  BY DEF Handle
<1> QED  BY <1>3, <1>4, <1>5, <1>6, <1>7, <1>8

\* Between two requests the connection may end
LEMMA EndsKeeps ==
  ASSUME IInv, Ends
  PROVE  IInv'
BY StopKeeps DEF Ends, envVars

-----------------------------------------------------------------------------
(* php-fpm, and the environment *)

\* A message is a sequence.
LEMMA MessageTyped ==
  ASSUME NEW reply \in Replies
  PROVE  reply.content \in Seq(STRING \cup {NUL}) /\ Len(reply.content) \in Nat
<1>1. reply.content \in Seq(STRING)
  BY AnswerAssumption
<1> QED  BY <1>1

\* The answer of php-fpm takes the place of one of which nothing has gone out
LEMMA AnswerKeeps ==
  ASSUME IInv, pc = "ask", NEW message, Len(message) \in Nat, NEW wild, PhpAnswer(message, wild),
         UNCHANGED <<next, stream, envVars>>
  PROVE  IInv'
<1>1. /\ n \in Nat /\ n \in 1..n /\ cur = answers[n] /\ cur.total \in Nat
      /\ Room \in Nat /\ HeadLen \in Nat /\ HeadLen >= 1
      /\ cur.kind = "php" /\ next = 1 /\ Sent(n) = {} /\ TypeOK /\ ShapeInv
      /\ Fields \subseteq DOMAIN cur
  BY WritingFacts DEF IInv, PlaceInv, StreamInv, ShapeInv
<1>2. PICK past : answers' = [answers EXCEPT ![n].length = cal_length_of_message(message, past),
                                             ![n].message = message, ![n].wild = wild,
                                             ![n].total = HeadLen + Len(message), ![n].room = Room]
  BY DEF PhpAnswer
<1> DEFINE l == cal_length_of_message(message, past)
           total == HeadLen + Len(message)
           a == [cur EXCEPT !.length = l, !.message = message, !.wild = wild,
                            !.total = total, !.room = Room]
<1>3. answers' = [answers EXCEPT ![n] = a]
  <2>1. answers \in Seq({answers[i] : i \in 1..n}) /\ Len(answers) = n
    BY <1>1 DEF ShapeInv, n
  <2>2. DOMAIN answers = 1..n
    BY <2>1
  <2> HIDE DEF l, total
  <2> QED  BY <1>1, <1>2, <2>2 DEF l, total
<1>4. total \in Nat /\ total >= HeadLen
  BY <1>1
<1> HIDE DEF l, total
<1>5. a.total = total /\ a.room = Room /\ a.kind = "php" /\ DOMAIN a = DOMAIN cur
  BY <1>1 DEF Fields
<1> HIDE DEF a
<1>6. /\ n' = n /\ answers'[n] = a /\ answers' \in Seq({answers'[i] : i \in 1..n})
      /\ \A i \in 1..n : i # n => answers'[i] = answers[i]
  BY <1>1, <1>3, ChangedFacts
<1>7. /\ next' = 1 /\ stream' = stream /\ pc' = "phphead"
      /\ drained' = drained /\ gone' = gone /\ disk' = disk /\ changes' = changes
  BY <1>1 DEF envVars, PhpAnswer
<1>8. cur' = a /\ Room' = Room /\ (\A i : Sent(i)' = Sent(i)) /\ Sent(n)' = {}
  <2>1. cur' = a
    BY <1>6 DEF cur
  <2>2. Room' = Room
    BY <1>7 DEF Room
  <2>3. \A i : Sent(i)' = Sent(i)
    BY <1>7 DEF Sent
  <2>4. Sent(n)' = Sent(n)
    BY <1>6, <1>7 DEF Sent
  <2> QED  BY <1>1, <2>1, <2>2, <2>3, <2>4
<1>9. TypeOK'
  <2>1. \A p \in DOMAIN stream' : stream'[p][1] \in 1..n' /\ stream'[p][2] \in 1..answers'[stream'[p][1]].total
    <3> TAKE p \in DOMAIN stream'
    <3>1. stream'[p] = stream[p] /\ stream[p][1] \in 1..n /\ stream[p][2] \in 1..answers[stream[p][1]].total
      BY <1>1, <1>7 DEF TypeOK
    <3>2. stream[p][1] # n
      BY <1>1, <1>7 DEF Sent
    <3> QED  BY <3>1, <3>2, <1>6
  <2>2. /\ changes' \in 0..MaxChanges /\ disk' \in Disks /\ gone' \in BOOLEAN
        /\ drained' \in 0..Len(stream') /\ Len(stream') - drained' <= SndBuf
        /\ n' <= MaxRequests /\ n' # 0
    BY <1>1, <1>6, <1>7 DEF TypeOK
  <2>3. pc' \in Pcs /\ next' \in 1..(cur'.total + 1)
    BY <1>4, <1>5, <1>7, <1>8 DEF Pcs
  <2> QED  BY <2>1, <2>2, <2>3 DEF TypeOK
<1>10. ShapeInv'
  <2>1. Measured(a) /\ Fields \subseteq DOMAIN a
    BY <1>1, <1>4, <1>5 DEF Measured
  <2>2. \A i \in 1..n : Fields \subseteq DOMAIN answers'[i] /\ Measured(answers'[i])
    BY <2>1, <1>1, <1>6 DEF ShapeInv
  <2> QED  BY <2>2, <1>1, <1>6, <1>7 DEF ShapeInv
<1>11. InOrder'
  BY <1>7 DEF InOrder, IInv, StreamInv
<1>12. PlaceInv'
  BY <1>4, <1>5, <1>7, <1>8 DEF PlaceInv
<1>13. LastInv' /\ FullInv'
  BY <1>7, <1>8 DEF LastInv, FullInv
<1>14. RoomInv'
  <2>1. 1..(next' - 1) = {}
    BY <1>7
  <2>2. cur'.room >= cur'.total => Room' >= cur'.total - next' + 1
    BY <1>1, <1>4, <1>5, <1>7, <1>8
  <2> QED  BY <2>1, <2>2 DEF RoomInv
<1>15. Unbroken'
  <2> SUFFICES ASSUME NEW i \in 1..n, answers'[i].kind \in {"static", "options"}, NEW b \in Sent(i)'
               PROVE  1..b \subseteq Sent(i)'
    BY <1>6, Zenon DEF Unbroken
  <2>1. i # n
    BY <1>5, <1>6
  <2> QED  BY <2>1, <1>6, <1>8 DEF IInv, Unbroken
<1>16. Whole'
  <2> SUFFICES ASSUME NEW i \in 1..n', Finished(i)'
               PROVE  i \in 1..n /\ Finished(i) /\ answers'[i] = answers[i] /\ Sent(i)' = Sent(i)
    BY <1>7 DEF Whole, IInv
  <2> QED  BY <1>1, <1>6, <1>7, <1>8 DEF Finished
<1> QED  BY <1>9, <1>10, <1>11, <1>12, <1>13, <1>14, <1>15, <1>16 DEF IInv, StreamInv

\* php-fpm answers, or does not
LEMMA RepliesKeeps ==
  ASSUME IInv, NEW reply \in Replies, PhpReplies(reply)
  PROVE  IInv'
<1>1. pc = "ask" /\ UNCHANGED <<next, stream, envVars>>
  BY DEF PhpReplies
<1>2. CASE PhpAnswer(reply.content, FALSE)
  BY <1>1, <1>2, MessageTyped, AnswerKeeps
<1>3. ASSUME NEW any \in Replies, PhpAnswer(any.content, TRUE)
      PROVE  IInv'
  BY <1>1, <1>3, MessageTyped, AnswerKeeps
<1>4. CASE pc' = "crashed" /\ UNCHANGED answers
  BY <1>1, <1>4, StopKeeps
<1> QED  BY <1>2, <1>3, <1>4 DEF PhpReplies

\* What the client and the file system do leaves the answers and the room alone
LEMMA EnvKeeps ==
  ASSUME IInv, UNCHANGED <<pc, answers, next, stream>>,
         drained' \in drained..Len(stream), gone' \in BOOLEAN, gone => gone',
         disk' \in Disks, changes' \in 0..MaxChanges
  PROVE  IInv'
<1>1. pc' = pc /\ answers' = answers /\ next' = next /\ stream' = stream
  OBVIOUS
<1>2. n' = n /\ cur' = cur /\ (\A i : Sent(i)' = Sent(i)) /\ Sent(n)' = Sent(n)
  BY <1>1 DEF n, cur, Sent
<1>3. Len(stream) \in Nat /\ drained \in Nat /\ drained' \in Nat /\ SndBuf \in Nat /\ drained <= drained'
  <2>1. Len(stream) \in Nat /\ drained \in 0..Len(stream)
    BY DEF IInv, StreamInv, TypeOK, ShapeInv
  <2> QED  BY <2>1, AnswerAssumption
<1>4. TypeOK'
  <2>1. drained' \in 0..Len(stream') /\ Len(stream') - drained' <= SndBuf
    BY <1>1, <1>3 DEF IInv, StreamInv, TypeOK
  <2> QED  BY <1>1, <1>2, <2>1 DEF IInv, StreamInv, TypeOK
<1>5. ShapeInv' /\ InOrder'
  BY <1>1, <1>2 DEF IInv, StreamInv, ShapeInv, InOrder
<1>6. PlaceInv'
  BY <1>1, <1>2 DEF IInv, PlaceInv
<1>7. LastInv' /\ FullInv'
  BY <1>1, <1>2 DEF IInv, LastInv, FullInv
<1>8. RoomInv'
  <2> SUFFICES ASSUME pc \in Writing, ~ gone', cur.room >= cur.total
               PROVE  1..(next - 1) \subseteq Sent(n) /\ Room' >= cur.total - next + 1
    BY <1>1, <1>2 DEF RoomInv
  <2>1. ~ gone
    OBVIOUS
  <2>2. 1..(next - 1) \subseteq Sent(n) /\ Room >= cur.total - next + 1
    BY <2>1 DEF IInv, RoomInv
  <2>3. Room' >= Room /\ Room \in Int /\ Room' \in Int
    BY <2>1, <1>1, <1>3 DEF Room
  <2>4. cur.total - next + 1 \in Int
    BY WritingFacts DEF IInv
  <2> QED  BY <2>2, <2>3, <2>4
<1>9. Unbroken'
  BY <1>1, <1>2 DEF IInv, Unbroken, Sent
<1>10. Whole'
  <2> SUFFICES ASSUME NEW i \in 1..n', Finished(i)', ~ gone'
               PROVE  /\ i \in 1..n /\ Finished(i) /\ answers'[i] = answers[i] /\ Sent(i)' = Sent(i)
                      /\ ~ gone
    BY DEF Whole, IInv
  <2> QED  BY <1>1, <1>2 DEF Finished
<1> QED  BY <1>4, <1>5, <1>6, <1>7, <1>8, <1>9, <1>10 DEF IInv, StreamInv

-----------------------------------------------------------------------------
(* The first state and every step *)

\* Before the first request nothing has gone out
LEMMA InitInv ==
  ASSUME Init
  PROVE  IInv
<1>1. /\ pc = "read" /\ answers = <<>> /\ next = 1 /\ stream = <<>> /\ drained = 0
      /\ gone = FALSE /\ disk \in Disks /\ changes = 0 /\ n = 0
  BY DEF Init, n
<1>2. MaxRequests \in Nat /\ MaxChanges \in Nat /\ SndBuf \in Nat
  BY AnswerAssumption
<1>3. TypeOK
  <2>1. Len(stream) = 0 /\ DOMAIN stream = {}
    BY <1>1
  <2>2. drained \in 0..Len(stream) /\ Len(stream) - drained <= SndBuf
    BY <1>1, <1>2, <2>1
  <2>3. n <= MaxRequests /\ changes \in 0..MaxChanges
    BY <1>1, <1>2
  <2>4. pc \in Pcs /\ gone \in BOOLEAN
    BY <1>1 DEF Pcs
  <2> QED  BY <1>1, <2>1, <2>2, <2>3, <2>4 DEF TypeOK
<1>4. ShapeInv /\ InOrder /\ Unbroken /\ Whole
  BY <1>1 DEF ShapeInv, InOrder, Unbroken, Whole
<1>5. PlaceInv /\ LastInv /\ FullInv /\ RoomInv
  BY <1>1 DEF PlaceInv, LastInv, FullInv, RoomInv, Writing
<1> QED  BY <1>3, <1>4, <1>5 DEF IInv, StreamInv

\* Every step keeps the invariant
LEMMA NextInv ==
  ASSUME IInv, [Next]_vars
  PROVE  IInv'
<1>1. /\ gone \in BOOLEAN /\ disk \in Disks /\ changes \in 0..MaxChanges /\ MaxChanges \in Nat
      /\ Len(stream) \in Nat /\ drained \in 0..Len(stream)
  BY AnswerAssumption DEF IInv, StreamInv, TypeOK, ShapeInv
<1>2. drained \in drained..Len(stream)
  BY <1>1
<1>3. ASSUME NEW r \in Requests, Handle(r)
      PROVE  IInv'
  BY <1>3, HandleKeeps
<1>4. CASE Writes
  BY <1>4, HeadKeeps, BodyKeeps, FileKeeps, PhpKeeps DEF Writes
<1>5. CASE Ends
  BY <1>5, EndsKeeps
<1>6. ASSUME NEW reply \in Replies, PhpReplies(reply)
      PROVE  IInv'
  BY <1>6, RepliesKeeps
<1>7. CASE Drain
  <2>1. drained' \in drained..Len(stream)
    BY <1>1, <1>7 DEF Drain
  <2>2. UNCHANGED <<pc, answers, next, stream, gone, disk, changes>>
    BY <1>7 DEF Drain
  <2> QED  BY <1>1, <2>1, <2>2, EnvKeeps
<1>8. CASE Reset
  BY <1>1, <1>2, <1>8, EnvKeeps DEF Reset
<1>9. CASE Change
  <2>1. changes' \in 0..MaxChanges
    BY <1>1, <1>9 DEF Change
  <2> QED  BY <1>1, <1>2, <1>9, <2>1, EnvKeeps DEF Change
<1>10. CASE UNCHANGED vars
  BY <1>1, <1>2, <1>10, EnvKeeps DEF vars
<1> QED  BY <1>3, <1>4, <1>5, <1>6, <1>7, <1>8, <1>9, <1>10 DEF Next

-----------------------------------------------------------------------------
(* Least and greatest elements *)

\* Every set of numbers that is not empty has a least one.
LEMMA LeastNat ==
  ASSUME NEW T, T \subseteq Nat, T # {}
  PROVE  \E x \in T : \A y \in T : x <= y
<1> DEFINE R == WF!OpToRel(<, Nat)
<1>1. WF!IsWellFoundedOn(R, Nat)
  BY WF!NatLessThanWellFounded, Zenon
<1>2. \A x, y \in Nat : y < x => <<y, x>> \in R
  BY Zenon DEF WF!OpToRel
<1> HIDE DEF R
<1>3. PICK x \in T : \A y \in T : ~ (<<y, x>> \in R)
  BY <1>1, WF!WFMin, Zenon
<1>4. \A y \in T : ~ (y < x)
  BY <1>2, <1>3
<1> QED  BY <1>4

\* It is what Min picks,
LEMMA LeastOf ==
  ASSUME NEW S, S \subseteq Nat, S # {}
  PROVE  Min(S) \in S /\ \A y \in S : Min(S) <= y
<1>1. \E m \in S : \A y \in S : m <= y
  BY LeastNat
<1> QED  BY <1>1 DEF Min

\* which is the only such element,
LEMMA MinIs ==
  ASSUME NEW S, S \subseteq Nat, NEW m \in S, \A y \in S : m <= y
  PROVE  Min(S) = m
<1>1. Min(S) \in S /\ \A y \in S : Min(S) <= y
  BY LeastOf
<1>2. m <= Min(S) /\ Min(S) <= m
  BY <1>1
<1>3. m \in Nat /\ Min(S) \in Nat
  BY <1>1
<1> QED  BY <1>2, <1>3

\* and a set of numbers up to N has a greatest one, which Max picks.
LEMMA GreatestOf ==
  ASSUME NEW N \in Nat, NEW S, S \subseteq 0..N, S # {}
  PROVE  Max(S) \in S /\ \A y \in S : Max(S) >= y
<1> DEFINE T == {N - y : y \in S}
<1>1. T \subseteq Nat /\ T # {}
  <2>1. PICK y \in S : TRUE
    OBVIOUS
  <2>2. N - y \in T
    OBVIOUS
  <2> QED  BY <2>2
<1>2. PICK t \in T : \A y \in T : t <= y
  BY <1>1, LeastNat
<1>3. PICK x \in S : t = N - x
  OBVIOUS
<1>4. \A y \in S : x >= y
  <2> TAKE y \in S
  <2>1. N - y \in T
    OBVIOUS
  <2>2. N - x <= N - y
    BY <1>2, <1>3, <2>1
  <2>3. x \in Nat /\ y \in Nat
    OBVIOUS
  <2> HIDE DEF T
  <2> QED  BY <2>2, <2>3
<1> QED  BY <1>3, <1>4 DEF Max

-----------------------------------------------------------------------------
(* The records for php-fpm *)

\* Strings, and those the model names, which the provers do not know for strings
Bytes == STRING \cup {SP, QUERY, "HTTP"} \cup {MethodString[i] : i \in 1..8}

\* Two bytes say a length that fits in them.
LEMMA TwoBytes ==
  ASSUME NEW c \in Nat, c < BYTE * BYTE
  PROVE  ((c \div BYTE) % BYTE) * BYTE + (c % BYTE) = c
<1>1. BYTE \in Nat /\ BYTE > 0
  BY LengthAssumption
<1> DEFINE q == c \div BYTE
<1>2. q \in Nat /\ c = q * BYTE + (c % BYTE) /\ c % BYTE \in 0..(BYTE - 1)
  <2>1. c % BYTE \in 0..(BYTE - 1)
    BY <1>1
  <2>2. q \in Int /\ c = BYTE * q + (c % BYTE)
    BY <1>1
  <2>3. q >= 0
    BY <1>1, <2>1, <2>2
  <2> QED  BY <1>1, <2>1, <2>2, <2>3
<1>3. q < BYTE
  <2>1. ASSUME q >= BYTE PROVE FALSE
    <3>1. q * BYTE >= BYTE * BYTE
      BY <1>1, <1>2, <2>1
    <3> QED  BY <1>1, <1>2, <3>1
  <2> QED  BY <1>1, <1>2, <2>1
<1>4. q % BYTE = q
  BY <1>1, <1>2, <1>3
<1> QED  BY <1>2, <1>4

\* A number below BYTE is its own byte.
LEMMA ByteIs ==
  ASSUME NEW c \in Nat, c < BYTE
  PROVE  c % BYTE = c
BY LengthAssumption

\* Less than eight bytes of padding make a length a multiple of eight.
LEMMA PaddingIs ==
  ASSUME NEW c \in Nat
  PROVE  Padding(c) \in 0..7
BY DEF Padding, Align

\* The same, of a sequence that is the concatenation
LEMMA ConcatIs ==
  ASSUME NEW T, NEW s, NEW t, NEW k, s \in Seq(T), t \in Seq(T), k = s \o t
  PROVE  /\ k \in Seq(T) /\ Len(k) = Len(s) + Len(t)
         /\ \A p \in 1..Len(s) : k[p] = s[p]
         /\ \A p \in 1..Len(t) : k[Len(s) + p] = t[p]
OBVIOUS

\* What follows the header of a parameter: two bytes, the name, the value.
LEMMA ParamsBytes ==
  ASSUME NEW name \in Seq(Bytes), NEW value \in Seq(Bytes)
  PROVE  LET b == ParamsRecord(name, value).bytes
         IN  /\ Len(b) = 2 + Len(name) + Len(value) + Padding(Len(name) + Len(value) + 2)
             /\ b \in Seq(Bytes \cup Nat \cup {NUL})
             /\ b[1] = Len(name) % BYTE /\ b[2] = Len(value) % BYTE
             /\ \A i \in 1..Len(name) : b[2 + i] = name[i]
             /\ \A i \in 1..Len(value) : b[2 + Len(name) + i] = value[i]
<1> DEFINE T == Bytes \cup Nat \cup {NUL}
           p == Padding(Len(name) + Len(value) + 2)
           z == [i \in 1..p |-> NUL]
           h == Lengths(name, value)
<1>1. p \in Nat
  <2>1. Len(name) + Len(value) + 2 \in Nat
    OBVIOUS
  <2> QED  BY <2>1, PaddingIs
<1>2. z \in Seq(T) /\ Len(z) = p
  <2> HIDE DEF p
  <2>1. NUL \in T
    OBVIOUS
  <2>2. \A i \in 1..p : z[i] \in T
    BY <2>1
  <2>3. z \in [1..p -> T]
    BY <2>2
  <2> HIDE DEF T
  <2> QED  BY <1>1, <2>3
<1>3. h \in Seq(T) /\ Len(h) = 2 /\ h[1] = Len(name) % BYTE /\ h[2] = Len(value) % BYTE
  <2>1. Len(name) % BYTE \in Nat /\ Len(value) % BYTE \in Nat
    BY LengthAssumption
  <2> QED  BY <2>1 DEF Lengths
<1>4. name \in Seq(T) /\ value \in Seq(T)
  OBVIOUS
<1>5. ParamsRecord(name, value).bytes = ((h \o name) \o value) \o z
  BY DEF ParamsRecord
<1> HIDE DEF T, p, z, h
<1> DEFINE hn == h \o name
<1>6. /\ hn \in Seq(T) /\ Len(hn) = 2 + Len(name) /\ hn[1] = h[1] /\ hn[2] = h[2]
      /\ \A i \in 1..Len(name) : hn[2 + i] = name[i]
  <2>0. hn = h \o name
    OBVIOUS
  <2> HIDE DEF hn
  <2>1. /\ hn \in Seq(T) /\ Len(hn) = Len(h) + Len(name)
        /\ \A i \in 1..Len(h) : hn[i] = h[i]
        /\ \A i \in 1..Len(name) : hn[Len(h) + i] = name[i]
    <3>1. h \in Seq(T) /\ name \in Seq(T)
      BY <1>3, <1>4
    <3> QED  BY <2>0, <3>1, ConcatIs
  <2> QED  BY <1>3, <2>1
<1> HIDE DEF hn
<1> DEFINE hv == hn \o value
<1>7. /\ hv \in Seq(T) /\ Len(hv) = 2 + Len(name) + Len(value)
      /\ \A i \in 1..(2 + Len(name)) : hv[i] = hn[i]
      /\ \A i \in 1..Len(value) : hv[2 + Len(name) + i] = value[i]
  <2>0. hv = hn \o value
    OBVIOUS
  <2> HIDE DEF hv
  <2>1. /\ hv \in Seq(T) /\ Len(hv) = Len(hn) + Len(value)
        /\ \A i \in 1..Len(hn) : hv[i] = hn[i]
        /\ \A i \in 1..Len(value) : hv[Len(hn) + i] = value[i]
    <3>1. hn \in Seq(T) /\ value \in Seq(T)
      BY <1>4, <1>6
    <3> QED  BY <2>0, <3>1, ConcatIs
  <2> QED  BY <1>6, <2>1
<1> HIDE DEF hv
<1> DEFINE b == hv \o z
<1>8. /\ b \in Seq(T) /\ Len(b) = 2 + Len(name) + Len(value) + p
      /\ \A i \in 1..(2 + Len(name) + Len(value)) : b[i] = hv[i]
  <2>0. b = hv \o z
    OBVIOUS
  <2> HIDE DEF b
  <2>1. /\ b \in Seq(T) /\ Len(b) = Len(hv) + Len(z)
        /\ \A i \in 1..Len(hv) : b[i] = hv[i]
    <3>1. hv \in Seq(T) /\ z \in Seq(T)
      BY <1>2, <1>7
    <3> QED  BY <2>0, <3>1, ConcatIs
  <2> QED  BY <1>2, <1>7, <2>1
<1>9. ParamsRecord(name, value).bytes = b
  BY <1>5 DEF hn, hv, b
<1> HIDE DEF b
<1>10. Len(name) \in Nat /\ Len(value) \in Nat
  OBVIOUS
<1>11. b[1] = Len(name) % BYTE /\ b[2] = Len(value) % BYTE
  BY <1>3, <1>6, <1>7, <1>8, <1>10
<1>12. \A i \in 1..Len(name) : b[2 + i] = name[i]
  BY <1>6, <1>7, <1>8, <1>10
<1>13. \A i \in 1..Len(value) : b[2 + Len(name) + i] = value[i]
  BY <1>7, <1>8, <1>10
<1> QED  BY <1>8, <1>9, <1>11, <1>12, <1>13 DEF T, p

\* A parameter whose length two bytes can say is framed.
LEMMA ParamsFramed ==
  ASSUME NEW name \in Seq(Bytes), NEW value \in Seq(Bytes),
         Len(name) + Len(value) + 2 < BYTE * BYTE
  PROVE  Framed(ParamsRecord(name, value))
<1> DEFINE c == Len(name) + Len(value) + 2
<1>1. c \in Nat /\ c < BYTE * BYTE
  OBVIOUS
<1>2. Padding(c) \in 0..7
  BY <1>1, PaddingIs
<1>3. Padding(c) % BYTE = Padding(c)
  BY <1>2, ByteIs, LengthAssumption
<1>4. ((c \div BYTE) % BYTE) * BYTE + (c % BYTE) = c
  BY <1>1, TwoBytes
<1>5. Len(ParamsRecord(name, value).bytes) = 2 + Len(name) + Len(value) + Padding(c)
  BY ParamsBytes
<1>6. ParamsRecord(name, value).header = make_header(FCGI_PARAMS, FCGI_REQUEST_ID, c, Padding(c))
  BY DEF ParamsRecord
<1>7. 2 + Len(name) + Len(value) = c
  OBVIOUS
<1> HIDE DEF c
<1>8. ContentLengthOf(ParamsRecord(name, value).header) = c
  BY <1>4, <1>6 DEF ContentLengthOf, make_header
<1>9. ParamsRecord(name, value).header.paddingLength = Padding(c)
  BY <1>3, <1>6 DEF make_header
<1> QED  BY <1>5, <1>7, <1>8, <1>9 DEF Framed

\* The two records without a name are framed.
LEMMA OthersFramed == Framed(BeginRecord) /\ Framed(StdinRecord)
<1>1. /\ BYTE \in Nat /\ 8 < BYTE /\ 0 < BYTE /\ 0 < BYTE * BYTE /\ 8 < BYTE * BYTE
  <2>1. BYTE \in Nat /\ BYTE >= 16
    BY LengthAssumption
  <2>2. BYTE * BYTE >= 16 * BYTE
    BY <2>1
  <2> QED  BY <2>1, <2>2
<1>2. ((8 \div BYTE) % BYTE) * BYTE + (8 % BYTE) = 8
  BY <1>1, TwoBytes
<1>3. ((0 \div BYTE) % BYTE) * BYTE + (0 % BYTE) = 0 /\ 0 % BYTE = 0
  BY <1>1, TwoBytes, ByteIs
<1>4. Len(make_beginRequestBody(FCGI_RESPONDER)) = 8
  <2> DEFINE a == <<(FCGI_RESPONDER \div BYTE) % BYTE, FCGI_RESPONDER % BYTE>>
             z == [i \in 1..6 |-> 0]
  <2>1. \E T : a \in Seq(T) /\ z \in Seq(T)
    <3> DEFINE T == {(FCGI_RESPONDER \div BYTE) % BYTE, FCGI_RESPONDER % BYTE, 0}
    <3>1. a \in Seq(T) /\ z \in Seq(T)
      OBVIOUS
    <3> QED  BY <3>1
  <2>2. Len(a) = 2 /\ Len(z) = 6
    OBVIOUS
  <2>3. make_beginRequestBody(FCGI_RESPONDER) = a \o z
    BY DEF make_beginRequestBody
  <2> HIDE DEF a, z
  <2>4. Len(a \o z) = Len(a) + Len(z)
    BY <2>1, ConcatFacts
  <2> QED  BY <2>2, <2>3, <2>4
<1>5. Framed(BeginRecord)
  <2>1. /\ Len(BeginRecord.bytes) = 8
        /\ BeginRecord.header = make_header(FCGI_BEGIN_REQUEST, FCGI_REQUEST_ID, 8, 0)
    BY <1>4 DEF BeginRecord
  <2> QED  BY <1>2, <1>3, <2>1 DEF Framed, ContentLengthOf, make_header
<1>6. Framed(StdinRecord)
  <2>1. /\ Len(StdinRecord.bytes) = 0
        /\ StdinRecord.header = make_header(FCGI_STDIN, FCGI_REQUEST_ID, 0, 0)
    BY DEF StdinRecord
  <2> QED  BY <1>3, <2>1 DEF Framed, ContentLengthOf, make_header
<1> QED  BY <1>5, <1>6

\* Sequences of one length with the same elements are the same.
LEMMA SameSequence ==
  ASSUME NEW S, NEW T, NEW s \in Seq(S), NEW t \in Seq(T),
         Len(s) = Len(t), \A j \in 1..Len(s) : s[j] = t[j]
  PROVE  s = t
OBVIOUS

\* A responder reads what was written, if one byte can say how long it is.
LEMMA ParamRoundTrip ==
  ASSUME NEW name \in Seq(Bytes), NEW value \in Seq(Bytes),
         OneByte(Len(name)), OneByte(Len(value))
  PROVE  ParamIn(ParamsRecord(name, value), name) = value
<1> DEFINE b == ParamsRecord(name, value).bytes
           l == Len(name)
           v == Len(value)
           T == Bytes \cup Nat \cup {NUL}
<1>1. /\ b \in Seq(T) /\ Len(b) = 2 + l + v + Padding(l + v + 2)
      /\ b[1] = l % BYTE /\ b[2] = v % BYTE
      /\ \A i \in 1..l : b[2 + i] = name[i]
      /\ \A i \in 1..v : b[2 + l + i] = value[i]
  BY ParamsBytes
<1>2. l \in Nat /\ v \in Nat /\ Padding(l + v + 2) \in Nat
  BY PaddingIs
<1>3. l % BYTE = l /\ v % BYTE = v
  <2>1. l < BYTE /\ v < BYTE
    BY <1>2, LengthAssumption DEF OneByte
  <2> QED  BY <1>2, <2>1, ByteIs
<1>4. Len(b) \in Nat /\ Len(b) >= 2 + l + v
  BY <1>1, <1>2
<1>5. ParamIn(ParamsRecord(name, value), name) =
        IF OneByte(l) /\ OneByte(v) /\ SubSeq(b, 3, 2 + l) = name THEN SubSeq(b, 3 + l, 2 + l + v) ELSE <<>>
  BY <1>1, <1>3 DEF ParamIn
<1> HIDE DEF b, T
<1>6. SubSeq(b, 3, 2 + l) = name
  <2>1. /\ SubSeq(b, 3, 2 + l) \in Seq(T) /\ Len(SubSeq(b, 3, 2 + l)) = l
        /\ \A i \in 1..l : SubSeq(b, 3, 2 + l)[i] = b[2 + i]
    BY <1>1, <1>2, <1>4
  <2>2. \A i \in 1..Len(SubSeq(b, 3, 2 + l)) : SubSeq(b, 3, 2 + l)[i] = name[i]
    BY <1>1, <2>1
  <2> QED  BY <2>1, <2>2, SameSequence
<1>7. SubSeq(b, 3 + l, 2 + l + v) = value
  <2>1. /\ SubSeq(b, 3 + l, 2 + l + v) \in Seq(T) /\ Len(SubSeq(b, 3 + l, 2 + l + v)) = v
        /\ \A i \in 1..v : SubSeq(b, 3 + l, 2 + l + v)[i] = b[2 + l + i]
    BY <1>1, <1>2, <1>4
  <2>2. \A i \in 1..Len(SubSeq(b, 3 + l, 2 + l + v)) : SubSeq(b, 3 + l, 2 + l + v)[i] = value[i]
    BY <1>1, <2>1
  <2> QED  BY <2>1, <2>2, SameSequence
<1> QED  BY <1>5, <1>6, <1>7

-----------------------------------------------------------------------------
(* The url *)

\* A request's strings are strings.
LEMMA RequestFacts ==
  ASSUME NEW r \in Requests
  PROVE  /\ r.method \in STRING /\ r.path \in Seq(STRING) /\ Len(r.path) \in Nat
         /\ r.query # NULL => r.query \in Seq(STRING) /\ Len(r.query) \in Nat
         /\ \A i \in 1..Len(r.path) : r.path[i] # QUERY
<1>1. r.path \in Seq(STRING) /\ r.query \in Seq(STRING) \cup {NULL} /\ r.method \in STRING
  BY AnswerAssumption
<1>2. QUERY \notin ToSet(r.path)
  BY AnswerAssumption
<1>3. \A i \in 1..Len(r.path) : r.path[i] # QUERY
  BY <1>1, <1>2 DEF ToSet
<1> QED  BY <1>1, <1>3

\* The url is the path, and with a query '?' and the query.
LEMMA UrlFacts ==
  ASSUME NEW r \in Requests
  PROVE  LET u == Url(r)   l == Len(r.path)
         IN  /\ u \in Seq(Bytes) /\ Len(u) \in Nat
             /\ Len(u) = l + IF r.query = NULL THEN 0 ELSE 1 + Len(r.query)
             /\ \A i \in 1..l : u[i] = r.path[i]
             /\ r.query # NULL => /\ u[l + 1] = QUERY
                                  /\ \A i \in 1..Len(r.query) : u[l + 1 + i] = r.query[i]
<1> DEFINE l == Len(r.path)
<1>1. r.path \in Seq(Bytes) /\ l \in Nat
  BY RequestFacts DEF Bytes
<1>2. CASE r.query = NULL
  <2>1. Url(r) = r.path \o <<>>
    BY <1>2 DEF Url
  <2>2. r.path \o <<>> = r.path
    BY <1>1
  <2> QED  BY <1>1, <1>2, <2>1, <2>2
<1>3. CASE r.query # NULL
  <2> DEFINE m == <<QUERY>>   k == m \o r.query   u == r.path \o k
  <2>1. m \in Seq(Bytes) /\ Len(m) = 1 /\ m[1] = QUERY
    BY DEF Bytes
  <2>2. r.query \in Seq(Bytes) /\ Len(r.query) \in Nat
    BY <1>3, RequestFacts DEF Bytes
  <2>3. Url(r) = r.path \o (m \o r.query)
    BY <1>3 DEF Url
  <2> HIDE DEF m
  <2>4. /\ k \in Seq(Bytes) /\ Len(k) = Len(m) + Len(r.query)
        /\ \A p \in 1..Len(m) : k[p] = m[p]
        /\ \A p \in 1..Len(r.query) : k[Len(m) + p] = r.query[p]
    <3>1. k = m \o r.query
      OBVIOUS
    <3>2. m \in Seq(Bytes) /\ r.query \in Seq(Bytes)
      BY <2>1, <2>2
    <3> HIDE DEF k
    <3> QED  BY <3>1, <3>2, ConcatIs
  <2>5. Url(r) = u
    BY <2>3
  <2> HIDE DEF k
  <2>6. /\ u \in Seq(Bytes) /\ Len(u) = Len(r.path) + Len(k)
        /\ \A p \in 1..Len(r.path) : u[p] = r.path[p]
        /\ \A p \in 1..Len(k) : u[Len(r.path) + p] = k[p]
    <3>1. u = r.path \o k
      OBVIOUS
    <3>2. r.path \in Seq(Bytes) /\ k \in Seq(Bytes)
      BY <1>1, <2>4
    <3> HIDE DEF u
    <3> QED  BY <3>1, <3>2, ConcatIs
  <2> HIDE DEF u, l
  <2>7. Len(r.path) = l
    BY DEF l
  <2>8. Len(u) = l + (1 + Len(r.query)) /\ Len(k) = 1 + Len(r.query)
    <3>1. Len(k) = 1 + Len(r.query)
      BY <2>1, <2>4
    <3>2. Len(u) = l + Len(k)
      BY <2>6, <2>7
    <3> QED  BY <3>1, <3>2
  <2>9. u[l + 1] = QUERY
    <3>1. 1 \in 1..Len(k) /\ k[1] = QUERY
      BY <2>1, <2>2, <2>4, <2>8
    <3> QED  BY <2>6, <2>7, <3>1
  <2>10. \A i \in 1..Len(r.query) : u[l + 1 + i] = r.query[i]
    <3> TAKE i \in 1..Len(r.query)
    <3>1. 1 + i \in 1..Len(k) /\ k[1 + i] = r.query[i]
      BY <2>1, <2>2, <2>4
    <3>2. u[l + (1 + i)] = k[1 + i]
      BY <2>6, <2>7, <3>1
    <3>3. l + (1 + i) = l + 1 + i
      BY <1>1
    <3> QED  BY <3>1, <3>2, <3>3
  <2>11. Len(u) \in Nat
    BY <2>6
  <2>12. \A i \in 1..l : u[i] = r.path[i]
    BY <2>6, <2>7
  <2> QED  BY <1>3, <2>5, <2>6, <2>8, <2>9, <2>10, <2>11, <2>12 DEF l
<1> QED  BY <1>2, <1>3

\* The request line: the url stands between two blanks.
LEMMA BufFacts ==
  ASSUME NEW r \in Requests
  PROVE  LET b == Buf(r)   l == Len(Url(r))
         IN  /\ b \in Seq(Bytes) /\ Len(b) = l + 4 /\ l \in Nat
             /\ b[1] = r.method /\ b[2] = SP /\ b[l + 3] = SP /\ b[l + 4] = "HTTP"
             /\ \A i \in 1..l : b[2 + i] = Url(r)[i]
<1> DEFINE h == <<r.method, SP>>   u == Url(r)   t == <<SP, "HTTP">>   hu == h \o u   b == hu \o t
<1>1. h \in Seq(Bytes) /\ Len(h) = 2 /\ h[1] = r.method /\ h[2] = SP
  BY RequestFacts DEF Bytes
<1>2. t \in Seq(Bytes) /\ Len(t) = 2 /\ t[1] = SP /\ t[2] = "HTTP"
  BY DEF Bytes
<1>3. u \in Seq(Bytes) /\ Len(u) \in Nat
  BY UrlFacts
<1>4. Buf(r) = (h \o u) \o t
  BY DEF Buf
<1> HIDE DEF h, t, u
<1>5. /\ hu \in Seq(Bytes) /\ Len(hu) = Len(h) + Len(u)
      /\ \A p \in 1..Len(h) : hu[p] = h[p]
      /\ \A p \in 1..Len(u) : hu[Len(h) + p] = u[p]
  <2>1. hu = h \o u
    OBVIOUS
  <2>2. h \in Seq(Bytes) /\ u \in Seq(Bytes)
    BY <1>1, <1>3
  <2> HIDE DEF hu
  <2> QED  BY <2>1, <2>2, ConcatIs
<1>6. Buf(r) = b
  BY <1>4
<1> HIDE DEF hu
<1>7. /\ b \in Seq(Bytes) /\ Len(b) = Len(hu) + Len(t)
      /\ \A p \in 1..Len(hu) : b[p] = hu[p]
      /\ \A p \in 1..Len(t) : b[Len(hu) + p] = t[p]
  <2>1. b = hu \o t
    OBVIOUS
  <2>2. hu \in Seq(Bytes) /\ t \in Seq(Bytes)
    BY <1>2, <1>5
  <2> HIDE DEF b
  <2> QED  BY <2>1, <2>2, ConcatIs
<1> HIDE DEF b
<1>8. Len(hu) = Len(u) + 2 /\ Len(b) = Len(u) + 4
  BY <1>1, <1>2, <1>3, <1>5, <1>7
<1>9. b[1] = r.method /\ b[2] = SP
  BY <1>1, <1>3, <1>5, <1>7, <1>8
<1>10. b[Len(u) + 3] = SP /\ b[Len(u) + 4] = "HTTP"
  <2>1. b[Len(hu) + 1] = SP /\ b[Len(hu) + 2] = "HTTP"
    BY <1>2, <1>7
  <2>2. Len(hu) + 1 = Len(u) + 3 /\ Len(hu) + 2 = Len(u) + 4
    BY <1>3, <1>8
  <2> QED  BY <2>1, <2>2
<1>11. \A i \in 1..Len(u) : b[2 + i] = u[i]
  BY <1>1, <1>3, <1>5, <1>7, <1>8
<1> QED  BY <1>3, <1>6, <1>7, <1>8, <1>9, <1>10, <1>11 DEF u

\* Where the path starts and where it stops, whatever the request
LEMMA UrlIs ==
  ASSUME NEW r \in Requests
  PROVE  LET b == Buf(r)
             u == set_url_for_request(b, Marks(r))
             l == Len(Url(r))
             start == Min({p \in 1..(l + 3) : At(b, p) # SP})
             stop == Min({p \in start..(l + 3) : At(b, p) = QUERY \/ p >= l + 2})
         IN  /\ start \in 2..(l + 3) /\ At(b, start) # SP
             /\ \A p \in 1..(l + 3) : At(b, p) # SP => start <= p
             /\ stop \in start..(l + 3) /\ (At(b, stop) = QUERY \/ stop >= l + 2)
             /\ \A p \in start..(l + 3) : At(b, p) = QUERY \/ p >= l + 2 => stop <= p
             /\ u.path_start = start /\ u.path_end = stop - 1
             /\ u.query_start = IF stop # l + 2 THEN stop + 1 ELSE stop
             /\ u.query_end = IF stop # l + 2 THEN l + 1 ELSE stop
<1> DEFINE b == Buf(r)
           l == Len(Url(r))
           S == {p \in 1..(l + 3) : At(b, p) # SP}
           start == Min(S)
           T == {p \in start..(l + 3) : At(b, p) = QUERY \/ p >= l + 2}
           stop == Min(T)
           u == set_url_for_request(b, Marks(r))
<1>1. l \in Nat /\ Len(b) = l + 4 /\ b[2] = SP /\ b[l + 4] = "HTTP"
  BY BufFacts
<1>2. u = [path_start |-> start, path_end |-> stop - 1,
           query_start |-> IF stop # l + 2 THEN stop + 1 ELSE stop,
           query_end |-> IF stop # l + 2 THEN (2 + l) - 1 ELSE stop]
  <2>1. Len(b) - 1 = l + 3 /\ 2 + l = l + 2
    BY <1>1
  <2>2. Marks(r).url_start = 1 /\ Marks(r).url_end = 2 + l
    BY DEF Marks
  <2> QED  BY <2>1, <2>2 DEF set_url_for_request
<1>3. start \in S /\ \A p \in S : start <= p
  <2>1. l + 3 \in S
    BY <1>1 DEF At, SP
  <2>2. S \subseteq Nat
    BY <1>1
  <2> HIDE DEF S
  <2> QED  BY <2>1, <2>2, LeastOf
<1>4. start \in 2..(l + 3) /\ At(b, start) # SP
  <2>1. start # 1
    BY <1>1, <1>3 DEF At
  <2>2. start \in 1..(l + 3)
    BY <1>3
  <2> HIDE DEF start
  <2> QED  BY <1>1, <1>3, <2>1, <2>2
<1>5. \A p \in 1..(l + 3) : At(b, p) # SP => start <= p
  BY <1>3
<1> HIDE DEF start
<1>6. stop \in T /\ \A p \in T : stop <= p
  <2>1. l + 3 \in T
    BY <1>1, <1>4
  <2>2. T \subseteq Nat
    BY <1>1, <1>4
  <2> HIDE DEF T
  <2> QED  BY <2>1, <2>2, LeastOf
<1>7. stop \in start..(l + 3) /\ (At(b, stop) = QUERY \/ stop >= l + 2)
  BY <1>6
<1>8. \A p \in start..(l + 3) : At(b, p) = QUERY \/ p >= l + 2 => stop <= p
  BY <1>6
<1> HIDE DEF stop
<1>9. (2 + l) - 1 = l + 1
  BY <1>1
<1>10. /\ u.path_start = start /\ u.path_end = stop - 1
       /\ u.query_start = IF stop # l + 2 THEN stop + 1 ELSE stop
       /\ u.query_end = IF stop # l + 2 THEN l + 1 ELSE stop
  BY <1>2, <1>9
<1> HIDE DEF u
<1> QED  BY <1>4, <1>5, <1>7, <1>8, <1>10 DEF u, start, stop

\* A slice of a sequence
LEMMA SliceIs ==
  ASSUME NEW T, NEW s, s \in Seq(T), NEW from \in Nat, NEW to \in Nat, to <= Len(s)
  PROVE  /\ Slice(s, from, to) \in Seq(T)
         /\ Len(Slice(s, from, to)) = IF from <= to THEN to - from ELSE 0
         /\ \A i \in 1..(to - from) : Slice(s, from, to)[i] = s[from + i]
<1>1. SubSeq(s, from + 1, to) \in Seq(T)
  OBVIOUS
<1>2. Len(SubSeq(s, from + 1, to)) = IF from <= to THEN to - from ELSE 0
  OBVIOUS
<1>3. \A i \in 1..(to - from) : SubSeq(s, from + 1, to)[i] = s[from + i]
  OBVIOUS
<1> QED  BY <1>1, <1>2, <1>3 DEF Slice

\* However the url reads: the file's name is no longer than root, index and url,
\* and neither is the query longer than the url.
LEMMA NameBounded ==
  ASSUME NEW r \in Requests
  PROVE  LET b == Buf(r)   u == set_url_for_request(b, Marks(r))
         IN  /\ get_filename(b, u) \in Seq(Bytes)
             /\ Len(get_filename(b, u)) <= Len(Root) + Len(Index) + Len(Url(r))
             /\ u.query_end > u.query_start =>
                  Query(b, u) \in Seq(Bytes) /\ Len(Query(b, u)) <= Len(Url(r))
<1> DEFINE b == Buf(r)
           l == Len(Url(r))
           u == set_url_for_request(b, Marks(r))
           start == u.path_start
           stop == u.path_end + 1
<1>1. b \in Seq(Bytes) /\ Len(b) = l + 4 /\ l \in Nat
  BY BufFacts
<1>2. /\ start \in 2..(l + 3) /\ stop \in start..(l + 3) /\ (stop <= l + 2 \/ stop = start)
      /\ u.query_start = IF stop # l + 2 THEN stop + 1 ELSE stop
      /\ u.query_end = IF stop # l + 2 THEN l + 1 ELSE stop
  <2> DEFINE s0 == Min({p \in 1..(l + 3) : At(b, p) # SP})
             t0 == Min({p \in s0..(l + 3) : At(b, p) = QUERY \/ p >= l + 2})
  <2>1. /\ s0 \in 2..(l + 3) /\ t0 \in s0..(l + 3)
        /\ \A p \in s0..(l + 3) : At(b, p) = QUERY \/ p >= l + 2 => t0 <= p
        /\ u.path_start = s0 /\ u.path_end = t0 - 1
        /\ u.query_start = IF t0 # l + 2 THEN t0 + 1 ELSE t0
        /\ u.query_end = IF t0 # l + 2 THEN l + 1 ELSE t0
    BY UrlIs
  <2> HIDE DEF s0, t0, u
  <2>2. start = s0 /\ stop = t0
    BY <1>1, <2>1
  <2>3. t0 <= l + 2 \/ t0 = s0
    <3>1. CASE s0 <= l + 2
      <4>1. l + 2 \in s0..(l + 3) /\ l + 2 >= l + 2
        BY <1>1, <2>1, <3>1
      <4> QED  BY <2>1, <4>1
    <3>2. CASE s0 > l + 2
      BY <1>1, <2>1, <3>2
    <3> QED  BY <1>1, <2>1, <3>1, <3>2
  <2> QED  BY <2>1, <2>2, <2>3
<1>3. Root \in Seq(Bytes) /\ Index \in Seq(Bytes) /\ Len(Root) \in Nat /\ Len(Index) \in Nat
  <2>1. Root \in Seq(STRING) /\ Index \in Seq(STRING)
    BY InterpretAssumption
  <2> QED  BY <2>1 DEF Bytes
<1> HIDE DEF u, b, l
<1>4. stop \in Nat /\ stop <= l + 3 /\ start \in Nat
  BY <1>1, <1>2
<1>5. get_filename(b, u) \in Seq(Bytes) /\ Len(get_filename(b, u)) <= Len(Root) + Len(Index) + l
  <2>1. CASE get_filename(b, u) = Root
    BY <1>1, <1>3, <2>1
  <2>2. CASE get_filename(b, u) = Root \o Index
    <3>1. Root \o Index \in Seq(Bytes) /\ Len(Root \o Index) = Len(Root) + Len(Index)
      BY <1>3
    <3> QED  BY <1>1, <1>3, <2>2, <3>1
  <2>3. CASE get_filename(b, u) = Root \o Slice(b, u.path_start, u.path_end + 1)
    <3> DEFINE s == Slice(b, start, stop)
    <3>1. s \in Seq(Bytes) /\ Len(s) = IF start <= stop THEN stop - start ELSE 0
      <4>1. b \in Seq(Bytes) /\ start \in Nat /\ stop \in Nat /\ stop <= Len(b)
        BY <1>1, <1>4
      <4> HIDE DEF start, stop
      <4> QED  BY <4>1, SliceIs
    <3>2. Len(s) <= l
      BY <1>1, <1>2, <3>1
    <3>3. get_filename(b, u) = Root \o s
      BY <2>3
    <3> HIDE DEF s
    <3>4. Root \o s \in Seq(Bytes) /\ Len(Root \o s) = Len(Root) + Len(s)
      BY <1>3, <3>1, ConcatFacts
    <3>5. Len(s) \in Nat
      BY <3>1
    <3> QED  BY <1>1, <1>3, <3>2, <3>3, <3>4, <3>5
  <2> QED  BY <2>1, <2>2, <2>3 DEF get_filename
<1>6. u.query_end > u.query_start => Query(b, u) \in Seq(Bytes) /\ Len(Query(b, u)) <= l
  <2> SUFFICES ASSUME u.query_end > u.query_start
               PROVE  Query(b, u) \in Seq(Bytes) /\ Len(Query(b, u)) <= l
    OBVIOUS
  <2>1. stop # l + 2
    BY <1>1, <1>2
  <2> DEFINE from == stop + 1   to == l + 2
  <2>2. from \in Nat /\ to \in Nat /\ to <= Len(b)
    BY <1>1, <1>4
  <2>3. Query(b, u) = Slice(b, from, to)
    <3>1. u.query_start = from /\ u.query_end + 1 = to
      BY <1>1, <1>2, <2>1
    <3> QED  BY <3>1 DEF Query
  <2>4. Slice(b, from, to) \in Seq(Bytes) /\ Len(Slice(b, from, to)) = IF from <= to THEN to - from ELSE 0
    <3> HIDE DEF from, to
    <3> QED  BY <1>1, <2>2, SliceIs
  <2> QED  BY <1>1, <1>2, <2>3, <2>4
<1> QED  BY <1>5, <1>6 DEF u, b, l

\* A plain request's path is read from its first byte to its last.
LEMMA PlainUrl ==
  ASSUME NEW r \in Requests, Plain(r)
  PROVE  LET b == Buf(r)   u == set_url_for_request(b, Marks(r))   k == Len(r.path)   l == Len(Url(r))
         IN  /\ u.path_start = 2 /\ u.path_end = k + 1
             /\ u.query_start = IF r.query # NULL THEN k + 3 ELSE k + 2
             /\ u.query_end = IF r.query # NULL THEN l + 1 ELSE k + 2
<1> DEFINE b == Buf(r)
           l == Len(Url(r))
           k == Len(r.path)
           u == set_url_for_request(b, Marks(r))
           start == Min({p \in 1..(l + 3) : At(b, p) # SP})
           stop == Min({p \in start..(l + 3) : At(b, p) = QUERY \/ p >= l + 2})
<1>1. /\ b \in Seq(Bytes) /\ Len(b) = l + 4 /\ l \in Nat /\ b[l + 3] = SP
      /\ \A i \in 1..l : b[2 + i] = Url(r)[i]
  BY BufFacts
<1>2. /\ l = k + IF r.query = NULL THEN 0 ELSE 1 + Len(r.query)
      /\ \A i \in 1..k : Url(r)[i] = r.path[i]
      /\ r.query # NULL => Url(r)[k + 1] = QUERY
  BY UrlFacts
<1>3. /\ k \in Nat /\ k >= 1 /\ r.path[1] = SLASH /\ (r.query # NULL => Len(r.query) \in Nat)
      /\ \A i \in 1..k : r.path[i] # QUERY
  <2>1. r.path # <<>> /\ r.path[1] = SLASH
    BY DEF Plain
  <2>2. r.path \in Seq(STRING)
    BY RequestFacts
  <2> QED  BY <2>1, <2>2, RequestFacts
<1>4. /\ start \in 2..(l + 3)
      /\ \A p \in 1..(l + 3) : At(b, p) # SP => start <= p
      /\ stop \in start..(l + 3) /\ (At(b, stop) = QUERY \/ stop >= l + 2)
      /\ \A p \in start..(l + 3) : At(b, p) = QUERY \/ p >= l + 2 => stop <= p
      /\ u.path_start = start /\ u.path_end = stop - 1
      /\ u.query_start = IF stop # l + 2 THEN stop + 1 ELSE stop
      /\ u.query_end = IF stop # l + 2 THEN l + 1 ELSE stop
  BY UrlIs
<1> HIDE DEF b, l, k, u, start, stop
<1>5. l >= k
  BY <1>1, <1>2, <1>3
<1>6. \A i \in 1..k : At(b, i + 1) = r.path[i]
  <2> TAKE i \in 1..k
  <2>1. i \in 1..l /\ 2 + i = (i + 1) + 1
    BY <1>1, <1>3, <1>5
  <2> QED  BY <2>1, <1>1, <1>2 DEF At
<1>7. start = 2
  <2>1. At(b, 2) = SLASH
    <3>1. 1 \in 1..k /\ 1 + 1 = 2
      BY <1>3
    <3> QED  BY <1>3, <1>6, <3>1
  <2>2. At(b, 2) # SP
    BY <2>1 DEF SLASH, SP
  <2>3. 2 \in 1..(l + 3)
    BY <1>1
  <2>4. start <= 2
    BY <1>4, <2>2, <2>3
  <2> QED  BY <1>1, <1>4, <2>4
<1>8. stop = k + 2
  <2>1. \A p \in 2..(k + 1) : At(b, p) # QUERY
    <3> TAKE p \in 2..(k + 1)
    <3>1. p - 1 \in 1..k /\ (p - 1) + 1 = p
      BY <1>3
    <3> QED  BY <1>3, <1>6, <3>1
  <2>2. stop >= k + 2
    <3>1. stop \in 2..(l + 3)
      BY <1>4, <1>7
    <3>2. ASSUME stop < k + 2 PROVE FALSE
      <4>1. stop \in 2..(k + 1) /\ ~ (stop >= l + 2)
        BY <1>1, <1>3, <1>5, <3>1, <3>2
      <4> QED  BY <1>4, <2>1, <4>1
    <3> QED  BY <1>3, <3>1, <3>2
  <2>3. k + 2 \in 2..(l + 3)
    BY <1>1, <1>3, <1>5
  <2>4. At(b, k + 2) = QUERY \/ k + 2 >= l + 2
    <3>1. CASE r.query = NULL
      BY <1>2, <1>3, <3>1
    <3>2. CASE r.query # NULL
      <4>1. k + 1 \in 1..l /\ 2 + (k + 1) = (k + 2) + 1
        BY <1>2, <1>3, <3>2
      <4>2. b[2 + (k + 1)] = QUERY
        BY <1>1, <1>2, <3>2, <4>1
      <4> QED  BY <4>1, <4>2 DEF At
    <3> QED  BY <3>1, <3>2
  <2>5. stop <= k + 2
    BY <1>4, <1>7, <2>3, <2>4
  <2> QED  BY <1>1, <1>3, <1>4, <2>2, <2>5
<1>9. (stop # l + 2) <=> r.query # NULL
  BY <1>1, <1>2, <1>3, <1>8
<1>10. stop - 1 = k + 1 /\ stop + 1 = k + 3
  BY <1>3, <1>8
<1> QED  BY <1>4, <1>7, <1>8, <1>9, <1>10 DEF b, l, k, u

\* The file is the one the request means.
LEMMA PlainName ==
  ASSUME NEW r \in Requests, Plain(r)
  PROVE  LET b == Buf(r)   u == set_url_for_request(b, Marks(r))
         IN  get_filename(b, u) = MeantName(r) /\ ~ PathError(b, u)
<1> DEFINE b == Buf(r)
           l == Len(Url(r))
           k == Len(r.path)
           u == set_url_for_request(b, Marks(r))
<1>1. /\ b \in Seq(Bytes) /\ Len(b) = l + 4 /\ l \in Nat
      /\ \A i \in 1..l : b[2 + i] = Url(r)[i]
  BY BufFacts
<1>2. l >= k /\ \A i \in 1..k : Url(r)[i] = r.path[i]
  <2>1. /\ l = k + IF r.query = NULL THEN 0 ELSE 1 + Len(r.query)
        /\ \A i \in 1..k : Url(r)[i] = r.path[i]
    BY UrlFacts
  <2>2. k \in Nat /\ (r.query # NULL => Len(r.query) \in Nat)
    BY RequestFacts
  <2> HIDE DEF k, l
  <2> QED  BY <1>1, <2>1, <2>2
<1>3. r.path \in Seq(Bytes) /\ k \in Nat /\ k >= 1 /\ r.path[1] = SLASH
  <2>1. r.path # <<>> /\ r.path[1] = SLASH
    BY DEF Plain
  <2>2. r.path \in Seq(STRING)
    BY RequestFacts
  <2>3. r.path \in Seq(Bytes)
    BY <2>2 DEF Bytes
  <2> QED  BY <2>1, <2>2, <2>3
<1>4. u.path_start = 2 /\ u.path_end = k + 1
  BY PlainUrl
<1> HIDE DEF b, l, u
<1>5. At(b, 2) = SLASH
  <2>1. 1 \in 1..k /\ 1 \in 1..l /\ 2 + 1 = 3
    BY <1>1, <1>2, <1>3
  <2>2. b[2 + 1] = Url(r)[1] /\ Url(r)[1] = r.path[1]
    BY <1>1, <1>2, <2>1
  <2> QED  BY <1>3, <2>1, <2>2 DEF At
<1>6. ~ PathError(b, u)
  BY <1>4, <1>5 DEF PathError
<1>7. u.path_start = u.path_end <=> r.path = <<SLASH>>
  <2>1. u.path_start = u.path_end <=> k = 1
    <3>1. 2 = k + 1 <=> k = 1
      <4> HIDE DEF k
      <4> QED  BY <1>3
    <3> QED  BY <1>4, <3>1
  <2>2. k = 1 => r.path = <<SLASH>>
    BY <1>3
  <2>3. r.path = <<SLASH>> => k = 1
    OBVIOUS
  <2> QED  BY <2>1, <2>2, <2>3
<1>8. Slice(b, u.path_start, u.path_end + 1) = r.path
  <2> DEFINE s == Slice(b, 2, k + 2)
  <2>1. s \in Seq(Bytes) /\ Len(s) = (IF 2 <= k + 2 THEN (k + 2) - 2 ELSE 0)
        /\ \A i \in 1..((k + 2) - 2) : s[i] = b[2 + i]
    <3>1. 2 \in Nat /\ k + 2 \in Nat /\ k + 2 <= Len(b)
      BY <1>1, <1>2, <1>3
    <3> DEFINE from == 2   to == k + 2
    <3>2. b \in Seq(Bytes) /\ from \in Nat /\ to \in Nat /\ to <= Len(b)
      BY <1>1, <3>1
    <3> HIDE DEF from, to
    <3>3. /\ Slice(b, from, to) \in Seq(Bytes)
          /\ Len(Slice(b, from, to)) = (IF from <= to THEN to - from ELSE 0)
      BY <3>2, SliceIs
    <3>4. \A i \in 1..(to - from) : Slice(b, from, to)[i] = b[from + i]
      BY <3>2, SliceIs
    <3> QED  BY <3>3, <3>4 DEF from, to
  <2>2. Slice(b, u.path_start, u.path_end + 1) = s
    <3>1. u.path_end + 1 = k + 2
      BY <1>3, <1>4
    <3> QED  BY <1>4, <3>1
  <2> HIDE DEF s
  <2>3. Len(s) = k /\ \A i \in 1..k : s[i] = r.path[i]
    <3>1. (k + 2) - 2 = k /\ 2 <= k + 2
      BY <1>3
    <3>2. \A i \in 1..k : i \in 1..l
      BY <1>1, <1>2, <1>3
    <3> QED  BY <2>1, <3>1, <3>2, <1>1, <1>2
  <2> QED  BY <1>3, <2>1, <2>2, <2>3
<1> QED  BY <1>6, <1>7, <1>8 DEF get_filename, MeantName, b, u

\* ... and so is the query, of two bytes or more.
LEMMA PlainQuery ==
  ASSUME NEW r \in Requests, Plain(r)
  PROVE  LET b == Buf(r)   u == set_url_for_request(b, Marks(r))
         IN  /\ u.query_end > u.query_start <=> r.query # NULL /\ Len(r.query) > 1
             /\ u.query_end > u.query_start => Query(b, u) = r.query
<1> DEFINE b == Buf(r)
           l == Len(Url(r))
           k == Len(r.path)
           u == set_url_for_request(b, Marks(r))
<1>1. /\ b \in Seq(Bytes) /\ Len(b) = l + 4 /\ l \in Nat /\ k \in Nat
      /\ \A i \in 1..l : b[2 + i] = Url(r)[i]
  BY BufFacts, RequestFacts
<1>2. /\ u.query_start = IF r.query # NULL THEN k + 3 ELSE k + 2
      /\ u.query_end = IF r.query # NULL THEN l + 1 ELSE k + 2
  BY PlainUrl
<1>3. CASE r.query = NULL
  BY <1>1, <1>2, <1>3
<1>4. CASE r.query # NULL
  <2> DEFINE q == Len(r.query)
  <2>1. /\ q \in Nat /\ r.query \in Seq(Bytes)
    <3>1. r.query \in Seq(STRING)
      BY <1>4, RequestFacts
    <3> QED  BY <3>1 DEF Bytes
  <2>2. l = k + (1 + q) /\ \A i \in 1..q : Url(r)[k + 1 + i] = r.query[i]
    BY <1>4, UrlFacts
  <2>30. l + 1 = k + q + 2
    <3> HIDE DEF l, k, q
    <3> QED  BY <1>1, <2>1, <2>2
  <2>3. u.query_start = k + 3 /\ u.query_end = k + q + 2
    BY <1>2, <1>4, <2>30
  <2>4. u.query_end > u.query_start <=> q > 1
    <3>1. k + q + 2 > k + 3 <=> q > 1
      <4> HIDE DEF k, q
      <4> QED  BY <1>1, <2>1
    <3> HIDE DEF u
    <3> QED  BY <2>3, <3>1
  <2> DEFINE from == k + 3   to == k + q + 3   s == Slice(b, from, to)
  <2>5. s = Query(b, u)
    <3>1. u.query_end + 1 = to
      BY <1>1, <2>1, <2>3
    <3> QED  BY <2>3, <3>1 DEF Query
  <2>6. from \in Nat /\ to \in Nat /\ to <= Len(b) /\ to - from = q /\ from <= to
    <3> HIDE DEF l, k, q, b
    <3> QED  BY <1>1, <2>1, <2>2
  <2>7. \A i \in 1..q : b[from + i] = r.query[i]
    <3> TAKE i \in 1..q
    <3>1. k + 1 + i \in 1..l /\ from + i = 2 + (k + 1 + i)
      <4> HIDE DEF l, k, q
      <4> QED  BY <1>1, <2>1, <2>2
    <3>2. b[2 + (k + 1 + i)] = Url(r)[k + 1 + i]
      BY <1>1, <3>1
    <3> QED  BY <2>2, <3>1, <3>2
  <2> HIDE DEF b, from, to, q, l, k, u
  <2>8. s \in Seq(Bytes) /\ Len(s) = q /\ \A i \in 1..q : s[i] = b[from + i]
    <3>1. b \in Seq(Bytes)
      BY <1>1
    <3>2. Slice(b, from, to) \in Seq(Bytes) /\ Len(Slice(b, from, to)) = IF from <= to THEN to - from ELSE 0
      BY <2>6, <3>1, SliceIs
    <3>3. \A i \in 1..(to - from) : Slice(b, from, to)[i] = b[from + i]
      BY <2>6, <3>1, SliceIs
    <3> QED  BY <2>6, <3>2, <3>3
  <2> HIDE DEF s
  <2>9. Len(r.query) = q
    BY DEF q
  <2>10. s = r.query
    BY <2>1, <2>7, <2>8, <2>9
  <2> QED  BY <1>4, <2>4, <2>5, <2>9, <2>10 DEF b, u
<1> QED  BY <1>3, <1>4

-----------------------------------------------------------------------------
(* The method and the headers *)

\* The ids of the names
LEMMA MethodNames ==
  /\ \A id \in MethodIds : get_method_string_from_methodID(id) = MethodString[id - 9] /\ id - 9 \in 1..8
  /\ \A i, j \in 1..8 : MethodString[i] = MethodString[j] => i = j
  /\ \A i \in 1..8 : MethodString[i] # SP
  /\ MethodString[3] = "HEAD" /\ MethodString[8] = "OPTIONS" /\ ToSet(MethodString) = {MethodString[i] : i \in 1..8}
<1>1. \A id \in MethodIds : get_method_string_from_methodID(id) = MethodString[id - 9] /\ id - 9 \in 1..8
  <2> TAKE id \in MethodIds
  <2>1. id \in Int /\ id - 10 + 1 = id - 9 /\ id - 9 \in 1..8
    BY DEF MethodIds
  <2> QED  BY <2>1 DEF get_method_string_from_methodID
<1>2. DOMAIN MethodString = 1..8
  BY DEF MethodString
<1>3. \A i, j \in 1..8 : MethodString[i] = MethodString[j] => i = j
  BY DEF MethodString
<1>4. \A i \in 1..8 : MethodString[i] # SP
  BY DEF MethodString, SP
<1>5. MethodString[3] = "HEAD" /\ MethodString[8] = "OPTIONS"
  BY DEF MethodString
<1>6. ToSet(MethodString) = {MethodString[i] : i \in 1..8}
  BY <1>2 DEF ToSet
<1> QED  BY <1>1, <1>3, <1>4, <1>5, <1>6

\* A known method is the one that is found, and no other.
LEMMA PlainMethod ==
  ASSUME NEW r \in Requests, Plain(r), NEW method \in set_method_for_request(Buf(r), Marks(r))
  PROVE  /\ method \in MethodIds /\ get_method_string_from_methodID(method) = r.method
         /\ method = HEAD <=> r.method = "HEAD"
         /\ method = OPTIONS <=> r.method = "OPTIONS"
<1> DEFINE b == Buf(r)   m == Marks(r)
           bytes == Slice(b, m.method_start, m.method_end + 1)
           met(i) == bytes[i] # SP /\ \A j \in DOMAIN bytes \ {i} : bytes[j] = SP
           known == {id \in MethodIds : \E i \in DOMAIN bytes :
                                          met(i) /\ bytes[i] = get_method_string_from_methodID(id)}
<1>1. PICK i \in 1..8 : r.method = MethodString[i]
  BY MethodNames DEF Plain
<1>2. r.method # SP
  BY <1>1, MethodNames
<1>3. DOMAIN bytes = 1..2 /\ bytes[1] = r.method /\ bytes[2] = SP
  <2> DEFINE from == 0   to == 2   s == Slice(b, from, to)
  <2>1. b \in Seq(Bytes) /\ Len(b) >= 2 /\ b[1] = r.method /\ b[2] = SP
    BY BufFacts
  <2>2. from \in Nat /\ to \in Nat /\ to <= Len(b)
    BY <2>1
  <2>3. bytes = s
    BY DEF Marks
  <2>4. s \in Seq(Bytes) /\ Len(s) = IF from <= to THEN to - from ELSE 0
    <3> HIDE DEF from, to, b
    <3> QED  BY <2>1, <2>2, SliceIs
  <2>5. \A p \in 1..(to - from) : s[p] = b[from + p]
    <3> HIDE DEF from, to, b
    <3> QED  BY <2>1, <2>2, SliceIs
  <2> HIDE DEF s, bytes, b
  <2>6. Len(s) = 2 /\ s[1] = b[1] /\ s[2] = b[2]
    BY <2>4, <2>5
  <2> QED  BY <2>1, <2>3, <2>4, <2>6
<1> HIDE DEF bytes
<1>4. \A id \in MethodIds : id \in known <=> r.method = get_method_string_from_methodID(id)
  <2> TAKE id \in MethodIds
  <2>1. met(1) /\ ~ met(2)
    BY <1>2, <1>3
  <2>2. id \in known <=> \E k \in 1..2 : met(k) /\ bytes[k] = get_method_string_from_methodID(id)
    BY <1>3
  <2> HIDE DEF met
  <2>3. (\E k \in 1..2 : met(k) /\ bytes[k] = get_method_string_from_methodID(id))
          <=> r.method = get_method_string_from_methodID(id)
    <3>1. \A k \in 1..2 : k = 1 \/ k = 2
      OBVIOUS
    <3> QED  BY <2>1, <3>1, <1>3
  <2> QED  BY <2>2, <2>3
<1>5. i + 9 \in MethodIds /\ (i + 9) - 9 = i
  BY DEF MethodIds
<1>6. get_method_string_from_methodID(i + 9) = r.method
  BY <1>1, <1>5, MethodNames
<1>7. i + 9 \in known /\ known \subseteq MethodIds
  BY <1>4, <1>5, <1>6
<1>8. set_method_for_request(Buf(r), Marks(r)) = IF known = {} THEN MethodIds \cup {0} ELSE known
  BY DEF set_method_for_request, bytes
<1> HIDE DEF known
<1>9. method \in known
  BY <1>7, <1>8
<1>10. method \in MethodIds /\ r.method = get_method_string_from_methodID(method)
  BY <1>4, <1>7, <1>9
<1>11. method - 9 \in 1..8 /\ r.method = MethodString[method - 9] /\ method \in Int
  BY <1>10, MethodNames DEF MethodIds
<1>12. method = HEAD <=> r.method = "HEAD"
  <2>1. method = HEAD <=> method - 9 = 3
    BY <1>11 DEF HEAD
  <2> QED  BY <1>11, <2>1, MethodNames
<1>13. method = OPTIONS <=> r.method = "OPTIONS"
  <2>1. method = OPTIONS <=> method - 9 = 8
    BY <1>11 DEF OPTIONS
  <2> QED  BY <1>11, <2>1, MethodNames
<1> QED  BY <1>10, <1>12, <1>13

\* A string begins with itself.
LEMMA OwnPrefix ==
  ASSUME NEW T, NEW s \in Seq(T)
  PROVE  IsPrefix(s, s)
BY DEF IsPrefix

\* Connection's entry is the second, and it is found for its whole name only.
LEMMA HandlerIs ==
  ASSUME NEW key, key \in ToSet(HeaderNames) \/ \A k \in ToSet(HeaderNames) : ~ IsPrefix(key, k)
  PROVE  HandlerOf(key) = 2 <=> key = Connection
<1> DEFINE fits == {i \in DOMAIN HeaderNames : IsPrefix(key, HeaderNames[i])}
<1>1. /\ DOMAIN HeaderNames = 1..4 /\ HeaderNames[2] = Connection
      /\ ToSet(HeaderNames) = {HeaderNames[i] : i \in 1..4}
  BY DEF HeaderNames, ToSet
<1>2. \A i \in 1..4 : HeaderNames[i] \in Seq(STRING)
  BY <1>1, InterpretAssumption
<1>3. \A i, j \in 1..4 : IsPrefix(HeaderNames[i], HeaderNames[j]) <=> i = j
  BY <1>1, <1>2, InterpretAssumption, OwnPrefix
<1>4. HandlerOf(key) = IF fits = {} THEN 0 ELSE Min(fits)
  BY DEF HandlerOf
<1>5. CASE \A k \in ToSet(HeaderNames) : ~ IsPrefix(key, k)
  <2>1. fits = {}
    BY <1>1, <1>5
  <2>2. key # Connection
    <3>1. 2 \in 1..4
      OBVIOUS
    <3>2. IsPrefix(Connection, Connection) /\ Connection \in ToSet(HeaderNames)
      BY <1>1, <1>3, <3>1
    <3> QED  BY <1>5, <3>2
  <2> QED  BY <1>4, <2>1, <2>2
<1>6. CASE key \in ToSet(HeaderNames)
  <2>1. PICK i \in 1..4 : key = HeaderNames[i]
    BY <1>1, <1>6
  <2>2. fits = {i}
    BY <1>1, <1>3, <2>1
  <2>3. Min({i}) = i
    <3>1. {i} \subseteq Nat /\ i \in {i} /\ \A y \in {i} : i <= y
      OBVIOUS
    <3> QED  BY <3>1, MinIs
  <2>4. HandlerOf(key) = i
    BY <1>4, <2>2, <2>3
  <2>5. key = Connection => i = 2
    <3>1. key = Connection => IsPrefix(HeaderNames[i], HeaderNames[2])
      BY <1>1, <1>3, <2>1
    <3> QED  BY <1>3, <3>1
  <2> QED  BY <1>1, <2>1, <2>4, <2>5
<1> QED  BY <1>5, <1>6

\* The connection is kept exactly where this request asks for it.
LEMMA PlainKeeps ==
  ASSUME NEW r \in Requests, Plain(r)
  PROVE  Keeps(r) <=> \E h \in ToSet(r.headers) : h.key = Connection /\ h.value = KeepAlive
<1> DEFINE hs == r.headers   rev == Reverse(hs)
<1>1. hs \in Seq([key : Seq(STRING), value : Seq(STRING)]) /\ Len(hs) \in Nat
  BY AnswerAssumption
<1>2. DOMAIN rev = 1..Len(hs) /\ \A i \in 1..Len(hs) : rev[i] = hs[Len(hs) - i + 1]
  BY <1>1 DEF Reverse
<1>3. \A i \in 1..Len(hs) : Len(hs) - i + 1 \in 1..Len(hs) /\ Len(hs) - (Len(hs) - i + 1) + 1 = i
  BY <1>1
<1>4. ASSUME NEW i \in 1..Len(hs)
      PROVE  AsksKeepAlive(hs[i]) <=> hs[i].key = Connection /\ hs[i].value = KeepAlive
  <2> DEFINE h == hs[i]
  <2>1. h.key \in ToSet(HeaderNames) \/ \A k \in ToSet(HeaderNames) : ~ IsPrefix(h.key, k)
    BY <1>1 DEF Plain
  <2>2. h.key = Connection => h.value = KeepAlive \/ ~ IsPrefix(h.value, KeepAlive)
    BY <1>1 DEF Plain
  <2>3. HandlerOf(h.key) = 2 <=> h.key = Connection
    BY <2>1, HandlerIs
  <2>4. IsPrefix(KeepAlive, KeepAlive)
    BY OwnPrefix, InterpretAssumption
  <2> QED  BY <2>2, <2>3, <2>4 DEF AsksKeepAlive
<1>5. Keeps(r) <=> \E i \in 1..Len(hs) : AsksKeepAlive(rev[i])
  BY <1>2 DEF Keeps, http_handle_header
<1> HIDE DEF rev
<1>6. Keeps(r) <=> \E i \in 1..Len(hs) : AsksKeepAlive(hs[i])
  BY <1>2, <1>3, <1>5
<1>7. ToSet(hs) = {hs[i] : i \in 1..Len(hs)}
  BY <1>1 DEF ToSet
<1> QED  BY <1>4, <1>6, <1>7

-----------------------------------------------------------------------------
(* The type of a file *)

\* One sequence ends another where its elements are the other's last ones.
LEMMA SuffixIs ==
  ASSUME NEW T, NEW s \in Seq(T), NEW t \in Seq(T)
  PROVE  IsSuffix(s, t) <=> /\ Len(s) <= Len(t)
                            /\ \A i \in 1..Len(s) : s[i] = t[Len(t) - Len(s) + i]
<1> DEFINE ls == Len(s)   lt == Len(t)   rs == Reverse(s)   rt == Reverse(t)
<1>1. ls \in Nat /\ lt \in Nat
  OBVIOUS
<1>2. rs = [i \in 1..ls |-> s[ls - i + 1]] /\ rt = [i \in 1..lt |-> t[lt - i + 1]]
  BY DEF Reverse
<1>3. rs \in Seq(T) /\ Len(rs) = ls
  BY <1>1, <1>2
<1>4. rt \in Seq(T) /\ Len(rt) = lt
  BY <1>1, <1>2
<1>5. /\ \A i \in 1..ls : rs[i] = s[ls - i + 1]
      /\ \A i \in 1..lt : rt[i] = t[lt - i + 1]
  BY <1>2
<1>6. IsSuffix(s, t) <=> ls <= lt /\ SubSeq(rs, 1, ls) = SubSeq(rt, 1, ls)
  BY <1>3, <1>4 DEF IsSuffix, IsPrefix
<1> HIDE DEF rs, rt
<1>7. ASSUME ls <= lt
      PROVE  SubSeq(rs, 1, ls) = SubSeq(rt, 1, ls) <=> \A i \in 1..ls : rs[i] = rt[i]
  <2>1. /\ SubSeq(rs, 1, ls) \in Seq(T) /\ Len(SubSeq(rs, 1, ls)) = ls
        /\ \A i \in 1..ls : SubSeq(rs, 1, ls)[i] = rs[i]
    BY <1>1, <1>3
  <2>2. /\ SubSeq(rt, 1, ls) \in Seq(T) /\ Len(SubSeq(rt, 1, ls)) = ls
        /\ \A i \in 1..ls : SubSeq(rt, 1, ls)[i] = rt[i]
    BY <1>1, <1>4, <1>7
  <2> QED  BY <2>1, <2>2
<1>8. ASSUME ls <= lt
      PROVE  (\A i \in 1..ls : rs[i] = rt[i]) <=> (\A i \in 1..ls : s[i] = t[lt - ls + i])
  <2>1. \A i \in 1..ls : /\ ls - i + 1 \in 1..ls /\ ls - (ls - i + 1) + 1 = i
                         /\ lt - ls + (ls - i + 1) = lt - i + 1 /\ i \in 1..lt
                         /\ lt - (ls - i + 1) + 1 = lt - ls + i
    BY <1>1, <1>8
  <2> HIDE DEF ls, lt
  <2>2. ASSUME \A i \in 1..ls : rs[i] = rt[i], NEW i \in 1..ls
        PROVE  s[i] = t[lt - ls + i]
    <3> DEFINE j == ls - i + 1
    <3>1. j \in 1..ls /\ j \in 1..lt
      BY <2>1
    <3>2. rs[j] = s[ls - j + 1] /\ rt[j] = t[lt - j + 1] /\ rs[j] = rt[j]
      BY <1>5, <2>2, <3>1
    <3>3. ls - j + 1 = i /\ lt - j + 1 = lt - ls + i
      BY <2>1
    <3> QED  BY <3>2, <3>3
  <2>3. ASSUME \A i \in 1..ls : s[i] = t[lt - ls + i], NEW i \in 1..ls
        PROVE  rs[i] = rt[i]
    <3> DEFINE j == ls - i + 1
    <3>1. j \in 1..ls /\ i \in 1..lt /\ lt - ls + j = lt - i + 1
      BY <2>1
    <3>2. rs[i] = s[j] /\ rt[i] = t[lt - i + 1]
      BY <1>5, <3>1
    <3>3. s[j] = t[lt - ls + j]
      BY <2>3, <3>1
    <3> QED  BY <3>1, <3>2, <3>3
  <2> QED  BY <2>2, <2>3
<1> QED  BY <1>6, <1>7, <1>8

\* What a suffix of the table ends is looked up by that suffix.
LEMMA TypeIs ==
  ASSUME NEW name \in Seq(Bytes)
  PROVE  LET fits == {s \in DOMAIN MimeTypes : IsSuffix(s, name)}
         IN  get_file_type(Suffix(name)) \in IF fits = {} THEN {PlainText} ELSE {MimeTypes[s] : s \in fits}
<1> DEFINE l == Len(name)
           dots == {i \in DOMAIN name : name[i] = DOT}
           fits == {s \in DOMAIN MimeTypes : IsSuffix(s, name)}
           last == Max(dots)
<1>1. l \in Nat /\ DOMAIN name = 1..l
  OBVIOUS
<1>2. \A s \in DOMAIN MimeTypes : /\ s \in Seq(Bytes) /\ Len(s) \in Nat /\ Len(s) >= 1 /\ s[1] = DOT
                                  /\ \A i \in 1..Len(s) : s[i] = DOT => i = 1
  <2> TAKE s \in DOMAIN MimeTypes
  <2>1. s \in Seq(STRING) /\ {i \in DOMAIN s : s[i] = DOT} = {1}
    BY InterpretAssumption
  <2>2. 1 \in DOMAIN s /\ s[1] = DOT /\ \A i \in DOMAIN s : s[i] = DOT => i = 1
    BY <2>1
  <2>3. DOMAIN s = 1..Len(s) /\ Len(s) \in Nat /\ s \in Seq(Bytes)
    BY <2>1 DEF Bytes
  <2> QED  BY <2>2, <2>3
<1>3. dots # {} => last \in dots /\ \A i \in dots : last >= i
  <2>1. dots \subseteq 0..l
    BY <1>1
  <2> HIDE DEF dots
  <2> QED  BY <1>1, <2>1, GreatestOf
<1>4. Suffix(name) = IF dots = {} THEN <<>> ELSE SubSeq(name, last, l)
  BY DEF Suffix
<1> HIDE DEF last
<1>5. ASSUME dots # {}
      PROVE  /\ last \in 1..l /\ name[last] = DOT
             /\ SubSeq(name, last, l) \in Seq(Bytes) /\ Len(SubSeq(name, last, l)) = l - last + 1
             /\ \A i \in 1..(l - last + 1) : SubSeq(name, last, l)[i] = name[last + i - 1]
  <2>1. last \in 1..l /\ name[last] = DOT
    BY <1>1, <1>3, <1>5
  <2> QED  BY <1>1, <2>1
<1>6. ASSUME NEW s \in fits
      PROVE  s = Suffix(name)
  <2>1. /\ s \in Seq(Bytes) /\ Len(s) \in Nat /\ Len(s) >= 1 /\ s[1] = DOT
        /\ \A i \in 1..Len(s) : s[i] = DOT => i = 1
    BY <1>2
  <2>2. Len(s) <= l /\ \A i \in 1..Len(s) : s[i] = name[l - Len(s) + i]
    BY <2>1, SuffixIs
  <2> DEFINE at == l - Len(s) + 1
  <2>3. at \in 1..l /\ name[at] = DOT
    <3>1. 1 \in 1..Len(s)
      BY <2>1
    <3> QED  BY <1>1, <2>1, <2>2, <3>1
  <2>4. at \in dots
    BY <1>1, <2>3
  <2>5. dots # {}
    BY <2>4
  <2>6. last \in 1..l /\ name[last] = DOT /\ last >= at
    BY <1>3, <1>5, <2>4, <2>5
  <2>7. last = at
    <3> DEFINE j == last - (l - Len(s))
    <3>1. j \in 1..Len(s) /\ l - Len(s) + j = last
      BY <1>1, <2>1, <2>2, <2>6
    <3>2. s[j] = DOT
      BY <2>2, <2>6, <3>1
    <3>3. j = 1
      BY <2>1, <3>1, <3>2
    <3> QED  BY <1>1, <2>1, <2>6, <3>3
  <2> DEFINE z == SubSeq(name, last, l)
  <2>8. z \in Seq(Bytes) /\ Len(z) = Len(s)
    BY <1>1, <1>5, <2>1, <2>5, <2>7
  <2>9. \A i \in 1..Len(s) : z[i] = s[i]
    <3> TAKE i \in 1..Len(s)
    <3>1. i \in 1..(l - last + 1) /\ last + i - 1 = l - Len(s) + i
      BY <1>1, <2>1, <2>7
    <3> QED  BY <1>5, <2>2, <2>5, <3>1
  <2> HIDE DEF z
  <2>10. z = s
    BY <2>1, <2>8, <2>9
  <2> QED  BY <1>4, <2>5, <2>10 DEF z
<1>7. ASSUME Suffix(name) \in DOMAIN MimeTypes
      PROVE  Suffix(name) \in fits
  <2> DEFINE z == Suffix(name)
  <2>1. z \in Seq(Bytes) /\ Len(z) >= 1
    BY <1>2, <1>7
  <2>2. dots # {}
    <3>1. dots = {} => z = <<>>
      BY <1>4
    <3> QED  BY <2>1, <3>1
  <2>3. z = SubSeq(name, last, l)
    BY <1>4, <2>2
  <2> HIDE DEF z
  <2>4. Len(z) = l - last + 1 /\ last \in 1..l /\ \A i \in 1..(l - last + 1) : z[i] = name[last + i - 1]
    BY <1>5, <2>2, <2>3
  <2>5. Len(z) <= l /\ \A i \in 1..Len(z) : z[i] = name[l - Len(z) + i]
    <3>1. Len(z) <= l
      BY <1>1, <2>4
    <3>2. \A i \in 1..Len(z) : last + i - 1 = l - Len(z) + i
      BY <1>1, <2>4
    <3> QED  BY <2>4, <3>1, <3>2
  <2>6. IsSuffix(z, name)
    BY <2>1, <2>5, SuffixIs
  <2> QED  BY <1>7, <2>6 DEF z
<1>8. CASE Suffix(name) \in DOMAIN MimeTypes
  BY <1>7, <1>8 DEF get_file_type
<1>9. CASE Suffix(name) \notin DOMAIN MimeTypes
  <2>1. fits = {}
    BY <1>6, <1>9
  <2> QED  BY <1>9, <2>1 DEF get_file_type
<1> QED  BY <1>8, <1>9

-----------------------------------------------------------------------------
(* The length announced for php-fpm's message *)

\* A blank line, byte by byte
LEMMA BodyIs ==
  ASSUME NEW T, NEW message \in Seq(T), NEW i \in 1..Len(message), i + 3 <= Len(message)
  PROVE  i \in BodyAt(message) <=> /\ message[i] = CR /\ message[i + 1] = LF
                                   /\ message[i + 2] = CR /\ message[i + 3] = LF
<1> DEFINE s == SubSeq(message, i, i + 3)   e == <<CR, LF, CR, LF>>
<1>1. /\ s \in Seq(T) /\ Len(s) = 4
      /\ s[1] = message[i] /\ s[2] = message[i + 1] /\ s[3] = message[i + 2] /\ s[4] = message[i + 3]
  OBVIOUS
<1>2. i \in BodyAt(message) <=> s = e
  BY DEF BodyAt
<1>3. s = e <=> s[1] = CR /\ s[2] = LF /\ s[3] = CR /\ s[4] = LF
  <2>1. Len(e) = 4 /\ e[1] = CR /\ e[2] = LF /\ e[3] = CR /\ e[4] = LF
    OBVIOUS
  <2>2. e \in Seq({CR, LF})
    OBVIOUS
  <2> HIDE DEF s, e
  <2>3. ASSUME s[1] = CR, s[2] = LF, s[3] = CR, s[4] = LF
        PROVE  s = e
    <3>1. \A k \in 1..4 : s[k] = e[k]
      <4>1. \A k \in 1..4 : k = 1 \/ k = 2 \/ k = 3 \/ k = 4
        OBVIOUS
      <4> QED  BY <2>1, <2>3, <4>1
    <3> QED  BY <1>1, <2>1, <2>2, <3>1
  <2> QED  BY <2>1, <2>3
<1> HIDE DEF s, e
<1> QED  BY <1>1, <1>2, <1>3

\* Where lines end as they should, the first two CRs two bytes apart are those
\* of the blank line.
LEMMA LengthIs ==
  ASSUME NEW T, NEW message \in Seq(T), NEW past, BodyAt(message) # {}, InLines(message)
  PROVE  cal_length_of_message(message, past) = Len(message) - Min(BodyAt(message)) - 3
<1> DEFINE L == Len(message)
           B == BodyAt(message)
           m == Min(B)
           byte(i) == IF i < L THEN message[i + 1] ELSE past
           hits == {i \in 0..(L - 1) : byte(i) = CR /\ byte(i + 2) = CR}
<1>1. L \in Nat /\ DOMAIN message = 1..L
  OBVIOUS
<1>2. B \subseteq 1..L /\ \A i \in B : i + 3 <= L
  BY <1>1 DEF BodyAt
<1>3. m \in B /\ \A i \in B : m <= i
  <2>1. B \subseteq Nat
    BY <1>1, <1>2
  <2> HIDE DEF B
  <2>2. B # {}
    BY DEF B
  <2> QED  BY <2>1, <2>2, LeastOf
<1>4. \A i \in 1..m : message[i] = CR => message[i + 1] = LF
  BY DEF InLines
<1> HIDE DEF B, m, L
<1>5. m \in 1..L /\ m + 3 <= L /\ m \in Nat
  BY <1>1, <1>2, <1>3
<1>6. message[m] = CR /\ message[m + 1] = LF /\ message[m + 2] = CR /\ message[m + 3] = LF
  BY <1>3, <1>5, BodyIs DEF B, L
<1>7. m - 1 \in hits
  <2>1. /\ m - 1 \in 0..(L - 1) /\ m - 1 < L /\ (m - 1) + 1 = m
        /\ (m - 1) + 2 < L /\ (m - 1) + 2 + 1 = m + 2
    BY <1>1, <1>5
  <2> QED  BY <1>6, <2>1
<1>8. ASSUME NEW h \in hits, h < m - 1
      PROVE  FALSE
  <2> DEFINE i == h + 1
  <2>1. h \in 0..(L - 1) /\ byte(h) = CR /\ byte(h + 2) = CR
    BY <1>8
  <2>2. i \in 1..m /\ i < m /\ i + 1 <= m /\ h < L /\ h + 2 < L /\ h + 2 + 1 = i + 2 /\ i \in 1..L /\ i + 3 <= L
    BY <1>1, <1>5, <1>8, <2>1
  <2>3. message[i] = CR /\ message[i + 2] = CR
    BY <2>1, <2>2
  <2>4. message[i + 1] = LF
    BY <1>4, <2>2, <2>3
  <2>5. i + 1 # m
    BY <1>6, <2>4 DEF CR, LF
  <2>6. i + 2 \in 1..m /\ (i + 2) + 1 = i + 3
    BY <1>5, <2>2, <2>5
  <2>7. message[i + 3] = LF
    BY <1>4, <2>3, <2>6
  <2> HIDE DEF i
  <2>8. i \in BodyAt(message)
    BY <2>2, <2>3, <2>4, <2>7, BodyIs DEF L
  <2>9. m <= i
    BY <1>3, <2>8 DEF B
  <2> QED  BY <1>5, <2>2, <2>9
<1>9. Min(hits) = m - 1
  <2>1. hits \subseteq Nat /\ hits \subseteq Int
    BY <1>1
  <2>2. \A h \in hits : m - 1 <= h
    <3> TAKE h \in hits
    <3>1. ~ (h < m - 1)
      BY <1>8
    <3>2. h \in Int /\ m - 1 \in Int
      BY <1>5, <2>1
    <3> QED  BY <3>1, <3>2
  <2> DEFINE k == m - 1
  <2>3. k \in hits /\ \A h \in hits : k <= h
    BY <1>7, <2>2
  <2> HIDE DEF hits, k
  <2>4. Min(hits) = k
    BY <2>1, <2>3, MinIs
  <2> QED  BY <2>4 DEF k
<1>10. cal_length_of_message(message, past) = IF hits = {} THEN 0 ELSE L - Min(hits) - 4
  BY DEF cal_length_of_message, L
<1>11. hits # {}
  BY <1>7
<1> HIDE DEF hits
<1>12. cal_length_of_message(message, past) = L - (m - 1) - 4
  BY <1>9, <1>10, <1>11
<1>13. L - (m - 1) - 4 = L - m - 3
  BY <1>1, <1>5
<1> QED  BY <1>12, <1>13 DEF L, m, B

-----------------------------------------------------------------------------
(* RightAnswer *)

\* What RightAnswer says of an answer, part by part
StatusRight(a) == a.status = MeantStatus(a.req, FileAt(a.disk, MeantName(a.req)))

KeepRight(a) ==
  a.keep <=> a.status = 200 /\ \E h \in ToSet(a.req.headers) : h.key = Connection /\ h.value = KeepAlive

StaticRight(a) ==
  a.kind = "static" =>
    LET fits == {s \in DOMAIN MimeTypes : IsSuffix(s, MeantName(a.req))}
    IN  /\ a.length = FileAt(a.disk, MeantName(a.req)).size /\ a.head = (a.req.method = "HEAD")
        /\ a.type \in IF fits = {} THEN {PlainText} ELSE {MimeTypes[s] : s \in fits}

LengthRight(a) ==
  a.kind = "php" /\ BodyAt(a.message) # {} /\ InLines(a.message) =>
    a.length = Len(a.message) - Min(BodyAt(a.message)) - 3

Right(a) == Plain(a.req) => StatusRight(a) /\ KeepRight(a) /\ StaticRight(a) /\ LengthRight(a)

RightInv == \A i \in 1..n : Right(answers[i])

\* It is what RightAnswer says.
LEMMA RightIs == RightInv => RightAnswer
<1> SUFFICES ASSUME RightInv, NEW i \in 1..n, Plain(answers[i].req), ~ Conditional(answers[i].req)
             PROVE  LET a == answers[i]   r == a.req   file == FileAt(a.disk, MeantName(r))
                    IN  /\ a.status = MeantStatus(r, file)
                        /\ a.keep <=> a.status = 200 /\ \E h \in ToSet(r.headers) :
                                                         h.key = Connection /\ h.value = KeepAlive
                        /\ a.kind = "static" =>
                             /\ a.length = file.size /\ a.head = (r.method = "HEAD")
                             /\ LET fits == {s \in DOMAIN MimeTypes : IsSuffix(s, MeantName(r))}
                                IN  a.type \in IF fits = {} THEN {PlainText} ELSE {MimeTypes[s] : s \in fits}
                        /\ a.kind = "php" /\ BodyAt(a.message) # {} /\ InLines(a.message) =>
                             a.length = Len(a.message) - Min(BodyAt(a.message)) - 3
  BY Zenon DEF RightAnswer
<1> DEFINE a == answers[i]
<1>1. StatusRight(a) /\ KeepRight(a) /\ StaticRight(a) /\ LengthRight(a)
  BY Zenon DEF RightInv, Right
<1>2. a.status = MeantStatus(a.req, FileAt(a.disk, MeantName(a.req)))
  BY <1>1, Zenon DEF StatusRight
<1>3. a.keep <=> a.status = 200 /\ \E h \in ToSet(a.req.headers) : h.key = Connection /\ h.value = KeepAlive
  BY <1>1, Zenon DEF KeepRight
<1>4. a.kind = "static" =>
        LET fits == {s \in DOMAIN MimeTypes : IsSuffix(s, MeantName(a.req))}
        IN  /\ a.length = FileAt(a.disk, MeantName(a.req)).size /\ a.head = (a.req.method = "HEAD")
            /\ a.type \in IF fits = {} THEN {PlainText} ELSE {MimeTypes[s] : s \in fits}
  BY <1>1, Zenon DEF StaticRight
<1>5. a.kind = "php" /\ BodyAt(a.message) # {} /\ InLines(a.message) =>
        a.length = Len(a.message) - Min(BodyAt(a.message)) - 3
  BY <1>1, Zenon DEF LengthRight
<1> QED  BY <1>2, <1>3, <1>4, <1>5, Zenon

\* What it says does not depend on what was sent.
LEMMA RightKept ==
  ASSUME NEW a, NEW b, Right(a), b.req = a.req, b.disk = a.disk, b.status = a.status, b.keep = a.keep,
         b.kind = a.kind, b.length = a.length, b.head = a.head, b.type = a.type, b.message = a.message
  PROVE  Right(b)
BY DEF Right, StatusRight, KeepRight, StaticRight, LengthRight

\* A new answer is right.
LEMMA HandleRight ==
  ASSUME TypeOK, NEW r \in Requests, Handle(r)
  PROVE  answers' = answers \/ \E a : answers' = Append(answers, a) /\ Right(a)
<1> DEFINE b == Buf(r)   u == set_url_for_request(b, Marks(r))   name == get_filename(b, u)
           file == FileAt(disk, name)
<1>1. PICK method \in set_method_for_request(b, Marks(r)) :
        \/ method = OPTIONS /\ Options(r)
        \/ /\ method # OPTIONS
           /\ \/ file = NoFile /\ Error(r, 404, name)
              \/ file # NoFile /\ file.mode = "other" /\ Error(r, 403, name)
              \/ /\ file.mode \in {"regular", "foreign"}
                 /\ Crashes \/ Php(r, method, name) \/ Static(r, method, name)
  BY DEF Handle
<1>2. Plain(r) => /\ name = MeantName(r)
                  /\ method = HEAD <=> r.method = "HEAD"
                  /\ method = OPTIONS <=> r.method = "OPTIONS"
  BY PlainName, PlainMethod
<1>3. Plain(r) => (Keeps(r) <=> \E h \in ToSet(r.headers) : h.key = Connection /\ h.value = KeepAlive)
  BY PlainKeeps
<1>4. name \in Seq(Bytes)
  BY NameBounded
<1> HIDE DEF b, u, name, file
<1>5. ASSUME NEW kind, NEW status, NEW nm
      PROVE  LET a == Answer(r, kind, status, nm)
             IN  /\ a.req = r /\ a.kind = kind /\ a.status = status /\ a.disk = disk /\ a.message = <<>>
                 /\ a.keep <=> status = 200 /\ Keeps(r)
                 /\ {"head", "length", "type", "total"} \subseteq DOMAIN a
  BY DEF Answer
<1>6. CASE method = OPTIONS /\ Options(r)
  <2> DEFINE a == Answer(r, "options", 204, <<>>)
  <2>1. answers' = Append(answers, a)
    BY <1>6 DEF Options, Begins
  <2>2. a.req = r /\ a.kind = "options" /\ a.status = 204 /\ ~ a.keep
    BY <1>5
  <2> HIDE DEF a
  <2>3. Right(a)
    <3> SUFFICES ASSUME Plain(r)
                 PROVE  StatusRight(a) /\ KeepRight(a) /\ StaticRight(a) /\ LengthRight(a)
      BY <2>2 DEF Right
    <3>1. r.method = "OPTIONS"
      BY <1>2, <1>6
    <3>2. StatusRight(a)
      BY <2>2, <3>1 DEF StatusRight, MeantStatus
    <3> QED  BY <2>2, <3>2 DEF KeepRight, StaticRight, LengthRight
  <2> QED  BY <2>1, <2>3
<1>7. ASSUME NEW status \in {403, 404}, method # OPTIONS, Error(r, status, name),
             status = 404 => file = NoFile, status = 403 => file # NoFile /\ file.mode = "other"
      PROVE  \E a : answers' = Append(answers, a) /\ Right(a)
  <2> DEFINE c == Answer(r, "error", status, name)
             a == [c EXCEPT !.length = ErrorLen, !.total = HeadLen + ErrorLen]
  <2>1. answers' = Append(answers, a)
    BY <1>7 DEF Error, Begins
  <2>2. c.req = r /\ c.kind = "error" /\ c.status = status /\ c.disk = disk /\ ~ c.keep
    BY <1>5, <1>7
  <2> HIDE DEF c
  <2>3. a.req = r /\ a.kind = "error" /\ a.status = status /\ a.disk = disk /\ ~ a.keep
    BY <2>2
  <2> HIDE DEF a
  <2>4. Right(a)
    <3> SUFFICES ASSUME Plain(r)
                 PROVE  StatusRight(a) /\ KeepRight(a) /\ StaticRight(a) /\ LengthRight(a)
      BY <2>3 DEF Right
    <3>1. r.method # "OPTIONS" /\ file = FileAt(disk, MeantName(r))
      BY <1>2, <1>7 DEF file
    <3>2. MeantStatus(r, file) = status
      <4>1. CASE status = 404
        BY <1>7, <3>1, <4>1 DEF MeantStatus, NoFile
      <4>2. CASE status = 403
        BY <1>7, <3>1, <4>2 DEF MeantStatus
      <4> QED  BY <4>1, <4>2, <1>7
    <3>3. StatusRight(a)
      BY <2>3, <3>1, <3>2 DEF StatusRight
    <3>4. KeepRight(a)
      <4>1. status # 200
        BY <1>7
      <4> QED  BY <2>3, <4>1 DEF KeepRight
    <3> QED  BY <2>3, <3>3, <3>4 DEF StaticRight, LengthRight
  <2> QED  BY <2>1, <2>4
<1>8. ASSUME Plain(r), method # OPTIONS, file.mode \in {"regular", "foreign"}
      PROVE  MeantStatus(r, FileAt(disk, MeantName(r))) = 200
  <2>1. file = FileAt(disk, MeantName(r)) /\ r.method # "OPTIONS" /\ file # NoFile
    BY <1>2, <1>8 DEF file, NoFile
  <2> QED  BY <1>8, <2>1 DEF MeantStatus
<1>9. CASE method # OPTIONS /\ file.mode \in {"regular", "foreign"} /\ Static(r, method, name)
  <2> DEFINE c == Answer(r, "static", 200, name)
             h == method = HEAD
             size == disk[name].size
             type == get_file_type(Suffix(name))
             total == HeadLen + IF h THEN 0 ELSE size
             a == [c EXCEPT !.head = h, !.length = size, !.type = type, !.total = total]
  <2>1. answers' = Append(answers, a)
    BY <1>9 DEF Static, Begins
  <2>2. /\ c.req = r /\ c.kind = "static" /\ c.status = 200 /\ c.disk = disk /\ (c.keep <=> Keeps(r))
        /\ {"head", "length", "type", "total"} \subseteq DOMAIN c
    BY <1>5
  <2>3. size = file.size
    BY <1>9 DEF file, FileAt, NoFile
  <2>4. LET fits == {s \in DOMAIN MimeTypes : IsSuffix(s, name)}
        IN  type \in IF fits = {} THEN {PlainText} ELSE {MimeTypes[s] : s \in fits}
    BY <1>4, TypeIs
  <2> HIDE DEF c, size, type, total
  <2>5. /\ a.req = r /\ a.kind = "static" /\ a.status = 200 /\ a.disk = disk /\ (a.keep <=> Keeps(r))
        /\ a.head = h /\ a.length = size /\ a.type = type
    BY <2>2
  <2> HIDE DEF a, h
  <2>6. Right(a)
    <3> SUFFICES ASSUME Plain(r)
                 PROVE  StatusRight(a) /\ KeepRight(a) /\ StaticRight(a) /\ LengthRight(a)
      BY <2>5 DEF Right
    <3>1. StatusRight(a)
      BY <1>8, <1>9, <2>5 DEF StatusRight
    <3>2. KeepRight(a)
      BY <1>3, <2>5 DEF KeepRight
    <3>3. StaticRight(a)
      <4>1. name = MeantName(r) /\ file = FileAt(disk, MeantName(r)) /\ h = (r.method = "HEAD")
        BY <1>2 DEF file, h
      <4> QED  BY <2>3, <2>4, <2>5, <4>1 DEF StaticRight
    <3> QED  BY <2>5, <3>1, <3>2, <3>3 DEF LengthRight
  <2> QED  BY <2>1, <2>6
<1>10. CASE method # OPTIONS /\ file.mode \in {"regular", "foreign"} /\ Php(r, method, name)
  <2> DEFINE a == Answer(r, "php", 200, name)
  <2>1. answers' = Append(answers, a)
    BY <1>10 DEF Php, Begins
  <2>2. /\ a.req = r /\ a.kind = "php" /\ a.status = 200 /\ a.disk = disk /\ a.message = <<>>
        /\ a.keep <=> Keeps(r)
    BY <1>5
  <2> HIDE DEF a
  <2>3. Right(a)
    <3> SUFFICES ASSUME Plain(r)
                 PROVE  StatusRight(a) /\ KeepRight(a) /\ StaticRight(a) /\ LengthRight(a)
      BY <2>2 DEF Right
    <3>1. StatusRight(a)
      BY <1>8, <1>10, <2>2 DEF StatusRight
    <3>2. KeepRight(a)
      BY <1>3, <2>2 DEF KeepRight
    <3>3. LengthRight(a)
      BY <2>2 DEF LengthRight, BodyAt
    <3> QED  BY <2>2, <3>1, <3>2, <3>3 DEF StaticRight
  <2> QED  BY <2>1, <2>3
<1>11. CASE Crashes
  BY <1>11 DEF Crashes
<1> QED  BY <1>1, <1>6, <1>7, <1>9, <1>10, <1>11

\* What php-fpm says is announced as it should be.
LEMMA PhpRight ==
  ASSUME IInv, RightInv, pc = "ask", NEW message, message \in Seq(STRING \cup {NUL}), NEW wild,
         PhpAnswer(message, wild)
  PROVE  RightInv'
<1>1. /\ n \in Nat /\ n \in 1..n /\ cur = answers[n] /\ cur.kind = "php" /\ ShapeInv /\ Fields \subseteq DOMAIN cur
  BY WritingFacts DEF IInv, PlaceInv, StreamInv, ShapeInv
<1>2. PICK past : answers' = [answers EXCEPT ![n].length = cal_length_of_message(message, past),
                                             ![n].message = message, ![n].wild = wild,
                                             ![n].total = HeadLen + Len(message), ![n].room = Room]
  BY DEF PhpAnswer
<1> DEFINE l == cal_length_of_message(message, past)
           total == HeadLen + Len(message)
           a == [cur EXCEPT !.length = l, !.message = message, !.wild = wild,
                            !.total = total, !.room = Room]
<1>3. answers' = [answers EXCEPT ![n] = a]
  <2>1. answers \in Seq({answers[i] : i \in 1..n}) /\ Len(answers) = n
    BY <1>1 DEF ShapeInv, n
  <2>2. DOMAIN answers = 1..n
    BY <2>1
  <2> HIDE DEF l, total
  <2> QED  BY <1>1, <1>2, <2>2 DEF l, total
<1>4. BodyAt(message) # {} /\ InLines(message) => l = Len(message) - Min(BodyAt(message)) - 3
  BY LengthIs
<1> HIDE DEF l, total
<1>5. /\ a.req = cur.req /\ a.disk = cur.disk /\ a.status = cur.status /\ a.keep = cur.keep
      /\ a.kind = "php" /\ a.length = l /\ a.message = message
  BY <1>1 DEF Fields
<1> HIDE DEF a
<1>6. Right(a)
  <2> SUFFICES ASSUME Plain(cur.req)
               PROVE  StatusRight(a) /\ KeepRight(a) /\ StaticRight(a) /\ LengthRight(a)
    BY <1>5 DEF Right
  <2>1. StatusRight(cur) /\ KeepRight(cur)
    BY <1>1 DEF RightInv, Right
  <2>2. StatusRight(a)
    BY <1>5, <2>1 DEF StatusRight
  <2>3. KeepRight(a)
    BY <1>5, <2>1 DEF KeepRight
  <2> QED  BY <1>4, <1>5, <2>2, <2>3 DEF StaticRight, LengthRight
<1>7. /\ n' = n /\ answers'[n] = a /\ \A i \in 1..n : i # n => answers'[i] = answers[i]
  BY <1>1, <1>3, ChangedFacts
<1>8. \A i \in 1..n : Right(answers'[i])
  BY <1>6, <1>7 DEF RightInv
<1> QED  BY <1>7, <1>8 DEF RightInv

\* sendfile changes nothing of it.
LEMMA FileRight ==
  ASSUME IInv, RightInv, SendFile
  PROVE  RightInv'
<1>1. n \in 1..n /\ cur = answers[n] /\ ShapeInv
  BY WritingFacts DEF IInv, StreamInv, SendFile, Writing
<1> DEFINE file == FileAt(disk, cur.name)
           a == [cur EXCEPT !.served = file]
<1>2. answers' = [answers EXCEPT ![n] = a]
  BY <1>1 DEF SendFile
<1>3. /\ a.req = cur.req /\ a.disk = cur.disk /\ a.status = cur.status /\ a.keep = cur.keep
      /\ a.kind = cur.kind /\ a.length = cur.length /\ a.head = cur.head /\ a.type = cur.type
      /\ a.message = cur.message
  OBVIOUS
<1>4. Right(cur)
  BY <1>1 DEF RightInv
<1> HIDE DEF a
<1>5. Right(a)
  BY <1>3, <1>4, RightKept
<1>6. n' = n /\ answers'[n] = a /\ \A i \in 1..n : i # n => answers'[i] = answers[i]
  BY <1>1, <1>2, ChangedFacts
<1>7. \A i \in 1..n : Right(answers'[i])
  BY <1>5, <1>6 DEF RightInv
<1> QED  BY <1>6, <1>7 DEF RightInv

\* Every step keeps it.
LEMMA RightNext ==
  ASSUME IInv, RightInv, [Next]_vars
  PROVE  RightInv'
<1>1. CASE answers' = answers
  BY <1>1 DEF RightInv, n
<1>2. ASSUME NEW r \in Requests, Handle(r)
      PROVE  RightInv'
  <2>1. PICK a : (answers' = Append(answers, a) /\ Right(a)) \/ answers' = answers
    BY <1>2, HandleRight DEF IInv, StreamInv
  <2>2. CASE answers' = Append(answers, a) /\ Right(a)
    <3>1. answers \in Seq({answers[i] : i \in 1..n}) /\ n = Len(answers) /\ n \in Nat
      BY DEF IInv, StreamInv, ShapeInv, n
    <3>2. /\ Len(answers') = n + 1 /\ answers'[n + 1] = a
          /\ \A i \in 1..n : answers'[i] = answers[i]
      BY <2>2, <3>1, AppendFacts
    <3>3. \A i \in 1..(n + 1) : i \in 1..n \/ i = n + 1
      BY <3>1
    <3>4. \A i \in 1..(n + 1) : Right(answers'[i])
      BY <2>2, <3>2, <3>3 DEF RightInv
    <3>5. n' = n + 1
      BY <3>2 DEF n
    <3> QED  BY <3>4, <3>5 DEF RightInv
  <2> QED  BY <1>1, <2>1, <2>2
<1>3. CASE Writes
  <2>1. CASE SendFile
    BY <2>1, FileRight
  <2>2. CASE WriteHead \/ WriteBody \/ WritePhp
    <3>1. answers' = answers
      BY <2>2 DEF WriteHead, WriteBody, WritePhp, rio_writen
    <3> QED  BY <1>1, <3>1
  <2> QED  BY <1>3, <2>1, <2>2 DEF Writes
<1>4. ASSUME NEW reply \in Replies, PhpReplies(reply)
      PROVE  RightInv'
  <2>1. pc = "ask"
    BY <1>4 DEF PhpReplies
  <2>2. CASE PhpAnswer(reply.content, FALSE)
    BY <2>1, <2>2, MessageTyped, PhpRight
  <2>3. ASSUME NEW any \in Replies, PhpAnswer(any.content, TRUE)
        PROVE  RightInv'
    BY <2>1, <2>3, MessageTyped, PhpRight
  <2> QED  BY <1>1, <1>4, <2>2, <2>3 DEF PhpReplies
<1>5. CASE Ends \/ Drain \/ Reset \/ Change \/ UNCHANGED vars
  <2>1. answers' = answers
    BY <1>5 DEF Ends, Drain, Reset, Change, vars
  <2> QED  BY <1>1, <2>1
<1> QED  BY <1>2, <1>3, <1>4, <1>5 DEF Next

-----------------------------------------------------------------------------
(* PhpAsked *)

Names == {ScriptFilename, RequestMethod, QueryString}

\* A value that a record can hold behind any of the names
Fits(value) == \A name \in Names : Len(name) + Len(value) + 2 < BYTE * BYTE

\* querystring fits, however often it was extended by what stood behind its end.
QueryInv == querystring \in Seq(Bytes) /\ Beyond # {} /\ (Requests # {} => Fits(querystring))

\* The bounds that LengthAssumption gives, with the lengths as numbers
LEMMA Bounds ==
  ASSUME NEW r \in Requests, NEW b \in Beyond, NEW name \in Names
  PROVE  /\ Len(name) \in Nat /\ Len(Root) \in Nat /\ Len(Index) \in Nat /\ Len(Url(r)) \in Nat /\ Len(b) \in Nat
         /\ name \in Seq(Bytes) /\ b \in Seq(Bytes) /\ OneByte(Len(name)) /\ BYTE * BYTE \in Nat
         /\ Len(name) + Len(Root) + Len(Index) + Len(Url(r)) + Len(b) + 3 < BYTE * BYTE
<1>1. name \in Seq(STRING) /\ b \in Seq(STRING) /\ Root \in Seq(STRING) /\ Index \in Seq(STRING)
  BY LengthAssumption, InterpretAssumption DEF Names
<1>2. name \in Seq(Bytes) /\ b \in Seq(Bytes)
  BY <1>1 DEF Bytes
<1>3. Len(Url(r)) \in Nat
  BY UrlFacts
<1>4. BYTE * BYTE \in Nat
  BY LengthAssumption
<1>5. OneByte(Len(name)) /\ Len(name) + Len(Root) + Len(Index) + Len(Url(r)) + Len(b) + 3 < BYTE * BYTE
  BY LengthAssumption DEF Names
<1> QED  BY <1>1, <1>2, <1>3, <1>4, <1>5

\* What strncpy leaves in querystring fits, too: it is no longer than the query
\* with what stood behind it, or than it was.
LEMMA QueryFits ==
  ASSUME NEW r \in Requests, QueryInv,
         NEW q \in get_querystring(Buf(r), set_url_for_request(Buf(r), Marks(r)), querystring, Beyond)
  PROVE  q \in Seq(Bytes) /\ Fits(q)
<1> DEFINE b == Buf(r)
           u == set_url_for_request(b, Marks(r))
           query == Query(b, u)
           old == querystring
           k == Len(query)
           l == Len(old)
<1>1. old \in Seq(Bytes) /\ Fits(old) /\ l \in Nat
  BY DEF QueryInv
<1>2. \/ q = old
      \/ q = <<>>
      \/ u.query_end > u.query_start /\ k <= l /\ q = query \o Slice(old, k, l)
      \/ u.query_end > u.query_start /\ \E c \in Beyond : q = query \o c
  <2>1. q \in IF PathError(b, u) THEN {old}
              ELSE IF u.query_end <= u.query_start THEN {<<>>}
              ELSE IF k <= l THEN {query \o Slice(old, k, l)}
              ELSE {query \o c : c \in Beyond}
    BY DEF get_querystring
  <2>2. u.query_start \in Nat /\ u.query_end \in Nat
    <3> DEFINE l0 == Len(Url(r))
               s0 == Min({p \in 1..(l0 + 3) : At(b, p) # SP})
               t0 == Min({p \in s0..(l0 + 3) : At(b, p) = QUERY \/ p >= l0 + 2})
    <3>1. /\ s0 \in 2..(l0 + 3) /\ t0 \in s0..(l0 + 3)
          /\ u.query_start = IF t0 # l0 + 2 THEN t0 + 1 ELSE t0
          /\ u.query_end = IF t0 # l0 + 2 THEN l0 + 1 ELSE t0
      BY UrlIs
    <3>2. l0 \in Nat
      BY UrlFacts
    <3> HIDE DEF u, s0, t0, l0
    <3> QED  BY <3>1, <3>2
  <2> HIDE DEF u, b, old, query
  <2>3. u.query_end <= u.query_start \/ u.query_end > u.query_start
    BY <2>2
  <2> QED  BY <2>1, <2>3
<1>3. u.query_end > u.query_start => query \in Seq(Bytes) /\ k \in Nat /\ k <= Len(Url(r))
  BY NameBounded
<1> HIDE DEF b, u, query, old
<1>4. CASE q = old
  BY <1>1, <1>4
<1>5. CASE q = <<>>
  <2>1. q \in Seq(Bytes) /\ Len(q) = 0
    BY <1>5
  <2>2. PICK c : c \in Beyond
    BY DEF QueryInv
  <2>3. Fits(q)
    <3> SUFFICES ASSUME NEW name \in Names
                 PROVE  Len(name) + Len(q) + 2 < BYTE * BYTE
      BY DEF Fits
    <3> QED  BY <2>1, <2>2, Bounds
  <2> QED  BY <2>1, <2>3
<1>6. CASE u.query_end > u.query_start /\ k <= l /\ q = query \o Slice(old, k, l)
  <2> DEFINE s == Slice(old, k, l)
  <2>1. query \in Seq(Bytes) /\ k \in Nat
    BY <1>3, <1>6
  <2>2. s \in Seq(Bytes) /\ Len(s) = l - k
    <3>1. l <= Len(old)
      BY <1>1
    <3> HIDE DEF k, l
    <3>2. Slice(old, k, l) \in Seq(Bytes) /\ Len(Slice(old, k, l)) = IF k <= l THEN l - k ELSE 0
      BY <1>1, <2>1, <3>1, SliceIs
    <3> QED  BY <1>6, <3>2
  <2>3. q = query \o s
    BY <1>6
  <2> HIDE DEF s
  <2>4. q \in Seq(Bytes) /\ Len(q) = k + (l - k)
    BY <2>1, <2>2, <2>3, ConcatIs
  <2> HIDE DEF k
  <2>5. Len(q) = l
    BY <1>1, <2>1, <2>4
  <2> QED  BY <1>1, <2>4, <2>5 DEF Fits
<1>7. ASSUME u.query_end > u.query_start, NEW c \in Beyond, q = query \o c
      PROVE  q \in Seq(Bytes) /\ Fits(q)
  <2>1. query \in Seq(Bytes) /\ k \in Nat /\ k <= Len(Url(r))
    BY <1>3, <1>7
  <2>2. c \in Seq(Bytes)
    BY LengthAssumption DEF Bytes
  <2>3. q \in Seq(Bytes) /\ Len(q) = k + Len(c)
    BY <1>7, <2>1, <2>2, ConcatIs
  <2>4. Fits(q)
    <3> SUFFICES ASSUME NEW name \in Names
                 PROVE  Len(name) + Len(q) + 2 < BYTE * BYTE
      BY DEF Fits
    <3>1. /\ Len(name) \in Nat /\ Len(Root) \in Nat /\ Len(Index) \in Nat /\ Len(Url(r)) \in Nat /\ Len(c) \in Nat
          /\ Len(name) + Len(Root) + Len(Index) + Len(Url(r)) + Len(c) + 3 < BYTE * BYTE /\ BYTE * BYTE \in Nat
      BY Bounds
    <3> HIDE DEF k
    <3> DEFINE m == BYTE * BYTE
    <3> HIDE DEF m
    <3>2. Len(name) + Len(Root) + Len(Index) + Len(Url(r)) + Len(c) + 3 < m /\ m \in Nat
      BY <3>1 DEF m
    <3>3. Len(name) + Len(q) + 2 < m
      BY <2>1, <2>3, <3>1, <3>2
    <3> QED  BY <3>3 DEF m
  <2> QED  BY <2>3, <2>4
<1> QED  BY <1>2, <1>4, <1>5, <1>6, <1>7

\* A plain request's query stands at its beginning, where it has two bytes.
LEMMA QueryPlain ==
  ASSUME NEW r \in Requests, Plain(r), QueryInv,
         NEW q \in get_querystring(Buf(r), set_url_for_request(Buf(r), Marks(r)), querystring, Beyond)
  PROVE  \/ r.query # NULL /\ Len(r.query) > 1 /\ IsPrefix(r.query, q)
         \/ (r.query = NULL \/ Len(r.query) < 2) /\ q = <<>>
<1> DEFINE b == Buf(r)
           u == set_url_for_request(b, Marks(r))
           old == querystring
<1>1. ~ PathError(b, u)
  BY PlainName
<1>2. /\ u.query_end > u.query_start <=> r.query # NULL /\ Len(r.query) > 1
      /\ u.query_end > u.query_start => Query(b, u) = r.query
  BY PlainQuery
<1>3. CASE ~ u.query_end > u.query_start
  <2>0. u.query_start \in Nat /\ u.query_end \in Nat
    <3>1. /\ u.query_start = IF r.query # NULL THEN Len(r.path) + 3 ELSE Len(r.path) + 2
          /\ u.query_end = IF r.query # NULL THEN Len(Url(r)) + 1 ELSE Len(r.path) + 2
      BY PlainUrl
    <3>2. Len(r.path) \in Nat /\ Len(Url(r)) \in Nat
      BY RequestFacts, UrlFacts
    <3> HIDE DEF u
    <3> QED  BY <3>1, <3>2
  <2>1. u.query_end <= u.query_start
    <3> HIDE DEF u
    <3> QED  BY <1>3, <2>0
  <2>2. q = <<>>
    BY <1>1, <2>1 DEF get_querystring
  <2>3. r.query = NULL \/ Len(r.query) < 2
    <3>1. r.query # NULL => Len(r.query) \in Nat
      BY RequestFacts
    <3> HIDE DEF u, b
    <3> QED  BY <1>2, <1>3, <3>1
  <2> QED  BY <2>2, <2>3
<1>4. CASE u.query_end > u.query_start
  <2>1. r.query # NULL /\ Len(r.query) > 1 /\ Query(b, u) = r.query
    BY <1>2, <1>4
  <2>0. ~ (u.query_end <= u.query_start)
    <3>1. /\ u.query_start = IF r.query # NULL THEN Len(r.path) + 3 ELSE Len(r.path) + 2
          /\ u.query_end = IF r.query # NULL THEN Len(Url(r)) + 1 ELSE Len(r.path) + 2
      BY PlainUrl
    <3>2. Len(r.path) \in Nat /\ Len(Url(r)) \in Nat
      BY RequestFacts, UrlFacts
    <3> HIDE DEF u
    <3> QED  BY <1>4, <3>1, <3>2
  <2>2. \E c \in Seq(Bytes) : q = r.query \o c
    <3>1. CASE Len(r.query) <= Len(old)
      <4> DEFINE k == Len(r.query)   l == Len(old)   c == Slice(old, k, l)
      <4>1. q = r.query \o c
        BY <1>1, <2>0, <2>1, <3>1 DEF get_querystring
      <4>2. old \in Seq(Bytes) /\ k \in Nat /\ l \in Nat /\ l <= Len(old)
        BY <2>1, RequestFacts DEF QueryInv
      <4>3. c \in Seq(Bytes)
        <5> HIDE DEF k, l, old
        <5> QED  BY <4>2, SliceIs
      <4> HIDE DEF c
      <4> QED  BY <4>1, <4>3
    <3>2. CASE ~ Len(r.query) <= Len(old)
      <4>1. PICK c \in Beyond : q = r.query \o c
        BY <1>1, <2>0, <2>1, <3>2 DEF get_querystring
      <4>2. c \in Seq(Bytes)
        BY LengthAssumption DEF Bytes
      <4> QED  BY <4>1, <4>2
    <3> QED  BY <3>1, <3>2
  <2>3. PICK c \in Seq(Bytes) : q = r.query \o c
    BY <2>2
  <2>4. r.query \in Seq(Bytes) /\ Len(r.query) \in Nat
    <3>1. r.query \in Seq(STRING)
      BY <2>1, RequestFacts
    <3> QED  BY <3>1 DEF Bytes
  <2> DEFINE s == r.query
  <2> HIDE DEF s, b, u, old
  <2>5. s \in Seq(Bytes) /\ q = s \o c
    BY <2>3, <2>4 DEF s
  <2>6. /\ q \in Seq(Bytes) /\ Len(q) = Len(s) + Len(c)
        /\ \A p \in 1..Len(s) : q[p] = s[p]
    BY <2>5, ConcatIs
  <2>7. Len(s) <= Len(q) /\ Len(s) \in Nat
    BY <2>5, <2>6
  <2>8. SubSeq(s, 1, Len(s)) = SubSeq(q, 1, Len(s))
    <3>1. SubSeq(s, 1, Len(s)) = s
      BY <2>5
    <3>2. /\ SubSeq(q, 1, Len(s)) \in Seq(Bytes) /\ Len(SubSeq(q, 1, Len(s))) = Len(s)
          /\ \A p \in 1..Len(s) : SubSeq(q, 1, Len(s))[p] = q[p]
      BY <2>6, <2>7
    <3> QED  BY <2>5, <2>6, <3>1, <3>2
  <2>9. IsPrefix(s, q)
    BY <2>7, <2>8 DEF IsPrefix
  <2> QED  BY <2>1, <2>9 DEF s
<1> QED  BY <1>3, <1>4

\* The records serve_php writes for a request are well formed, and say what it
\* means.
LEMMA PhpRecords ==
  ASSUME IInv, QueryInv, NEW r \in Requests,
         NEW method \in set_method_for_request(Buf(r), Marks(r)),
         querystring' \in get_querystring(Buf(r), set_url_for_request(Buf(r), Marks(r)), querystring, Beyond),
         Php(r, method, get_filename(Buf(r), set_url_for_request(Buf(r), Marks(r))))
  PROVE  PhpAsked'
<1> DEFINE b == Buf(r)
           u == set_url_for_request(b, Marks(r))
           name == get_filename(b, u)
           said == IF method \in MethodIds THEN <<get_method_string_from_methodID(method)>> ELSE <<>>
           q == querystring'
           a == Answer(r, "php", 200, name)
<1>1. /\ answers' = Append(answers, a)
      /\ asked' = <<BeginRecord, ParamsRecord(ScriptFilename, name), ParamsRecord(RequestMethod, said),
                    ParamsRecord(QueryString, q), StdinRecord>>
  BY DEF Php, Begins
<1>2. cur'.req = r
  <2>1. answers \in Seq({answers[i] : i \in 1..n}) /\ n = Len(answers) /\ n \in Nat
    BY DEF IInv, StreamInv, ShapeInv, n
  <2>2. Len(answers') = n + 1 /\ answers'[n + 1] = a
    BY <1>1, <2>1, AppendFacts
  <2>3. n' = n + 1 /\ cur' = answers'[n']
    BY <2>2 DEF n, cur
  <2>4. a.req = r
    BY DEF Answer
  <2> HIDE DEF a
  <2> QED  BY <2>2, <2>3, <2>4
<1>3. q \in Seq(Bytes) /\ Fits(q)
  BY QueryFits
<1>4. name \in Seq(Bytes) /\ Len(name) <= Len(Root) + Len(Index) + Len(Url(r))
  BY NameBounded
<1>5. said \in Seq(Bytes) /\ Len(said) \in Nat /\ Len(said) <= 1
  <2>1. CASE method \in MethodIds
    <3>1. get_method_string_from_methodID(method) \in Bytes
      BY <2>1, MethodNames DEF Bytes
    <3> QED  BY <2>1, <3>1
  <2>2. CASE method \notin MethodIds
    BY <2>2
  <2> QED  BY <2>1, <2>2
<1>6. Plain(r) => said = <<r.method>>
  BY PlainMethod
<1>7. Plain(r) => name = MeantName(r)
  BY PlainName
<1>8. Plain(r) => \/ r.query # NULL /\ Len(r.query) > 1 /\ IsPrefix(r.query, q)
                  \/ (r.query = NULL \/ Len(r.query) < 2) /\ q = <<>>
  BY QueryPlain
<1> HIDE DEF b, u, name, said, a
<1>9. \A p \in Names : p \in Seq(Bytes) /\ OneByte(Len(p))
  <2>1. PICK c : c \in Beyond
    BY DEF QueryInv
  <2> QED  BY <2>1, Bounds
<1>10. Fits(name) /\ Fits(said)
  <2>1. PICK c : c \in Beyond
    BY DEF QueryInv
  <2> DEFINE m == BYTE * BYTE
  <2>2. \A p \in Names : /\ Len(p) \in Nat /\ Len(Root) \in Nat /\ Len(Index) \in Nat
                         /\ Len(Url(r)) \in Nat /\ Len(c) \in Nat /\ m \in Nat
                         /\ Len(p) + Len(Root) + Len(Index) + Len(Url(r)) + Len(c) + 3 < m
    BY <2>1, Bounds
  <2>3. Len(name) \in Nat /\ Len(said) \in Nat
    BY <1>4, <1>5
  <2> HIDE DEF m
  <2>4. \A p \in Names : Len(p) + Len(name) + 2 < m
    <3> TAKE p \in Names
    <3> QED  BY <1>4, <2>2, <2>3
  <2>5. \A p \in Names : Len(p) + Len(said) + 2 < m
    <3> TAKE p \in Names
    <3>1. Len(said) <= 1
      BY <1>5
    <3>2. Len(p) + 4 <= m
      BY <2>2
    <3> QED  BY <2>2, <2>3, <3>1, <3>2
  <2> QED  BY <2>4, <2>5 DEF Fits, m
<1>11. \A i \in DOMAIN asked' : Framed(asked'[i])
  <2>1. \A p \in Names, v \in Seq(Bytes) : Fits(v) => Framed(ParamsRecord(p, v))
    BY <1>9, ParamsFramed DEF Fits
  <2>2. /\ Framed(ParamsRecord(ScriptFilename, name)) /\ Framed(ParamsRecord(RequestMethod, said))
        /\ Framed(ParamsRecord(QueryString, q))
    BY <1>3, <1>4, <1>5, <1>10, <2>1 DEF Names
  <2>4. /\ DOMAIN asked' = 1..5 /\ asked'[1] = BeginRecord
        /\ asked'[2] = ParamsRecord(ScriptFilename, name) /\ asked'[3] = ParamsRecord(RequestMethod, said)
        /\ asked'[4] = ParamsRecord(QueryString, q) /\ asked'[5] = StdinRecord
    BY <1>1
  <2>5. \A i \in DOMAIN asked' : i = 1 \/ i = 2 \/ i = 3 \/ i = 4 \/ i = 5
    BY <2>4
  <2> QED  BY <2>2, <2>4, <2>5, OthersFramed
<1>12. /\ asked'[2] = ParamsRecord(ScriptFilename, name)
       /\ asked'[3] = ParamsRecord(RequestMethod, said)
       /\ asked'[4] = ParamsRecord(QueryString, q)
  BY <1>1
<1>13. \A p \in Names, v \in Seq(Bytes) : OneByte(Len(v)) => ParamIn(ParamsRecord(p, v), p) = v
  BY <1>9, ParamRoundTrip
<1>14. ASSUME Plain(r), OneByte(Len(MeantName(r)))
       PROVE  ParamIn(asked'[2], ScriptFilename) = MeantName(r) /\ ParamIn(asked'[3], RequestMethod) = <<r.method>>
  <2>1. OneByte(Len(name)) /\ name = MeantName(r)
    BY <1>7, <1>14
  <2>2. ParamIn(asked'[2], ScriptFilename) = name
    BY <1>4, <1>12, <1>13, <2>1 DEF Names
  <2>3. OneByte(Len(said))
    <3>1. BYTE \in Nat /\ BYTE >= 16 /\ Len(said) \in Nat /\ Len(said) <= 1
      BY <1>5, LengthAssumption
    <3>2. BYTE \div 2 >= 8 /\ BYTE \div 2 \in Nat
      BY <3>1
    <3> QED  BY <3>1, <3>2 DEF OneByte
  <2>4. ParamIn(asked'[3], RequestMethod) = said
    BY <1>5, <1>12, <1>13, <2>3 DEF Names
  <2> QED  BY <1>6, <1>14, <2>1, <2>2, <2>4
<1>15. ASSUME Plain(r), OneByte(Len(q))
       PROVE  \/ r.query # NULL /\ Len(r.query) > 1 /\ IsPrefix(r.query, ParamIn(asked'[4], QueryString))
              \/ (r.query = NULL \/ Len(r.query) < 2) /\ ParamIn(asked'[4], QueryString) = <<>>
  <2>1. ParamIn(asked'[4], QueryString) = q
    BY <1>3, <1>12, <1>13, <1>15 DEF Names
  <2> QED  BY <1>8, <1>15, <2>1
<1> QED  BY <1>2, <1>11, <1>14, <1>15 DEF PhpAsked

\* A new request leaves no other records.
LEMMA HandleAsks ==
  ASSUME IInv, QueryInv, NEW r \in Requests, Handle(r)
  PROVE  QueryInv' /\ PhpAsked'
<1> DEFINE b == Buf(r)   u == set_url_for_request(b, Marks(r))   name == get_filename(b, u)
<1>1. PICK method \in set_method_for_request(b, Marks(r)) :
        \/ Options(r)
        \/ /\ querystring' \in get_querystring(b, u, querystring, Beyond)
           /\ \/ Error(r, 404, name) \/ Error(r, 403, name) \/ Crashes
              \/ Static(r, method, name) \/ Php(r, method, name)
  BY DEF Handle
<1>2. QueryInv'
  <2>1. CASE querystring' = querystring
    BY <2>1 DEF QueryInv
  <2>2. CASE querystring' \in get_querystring(b, u, querystring, Beyond)
    BY <2>2, QueryFits DEF QueryInv
  <2> QED  BY <1>1, <2>1, <2>2 DEF Options
<1>3. pc' = "ask" => Php(r, method, name) /\ querystring' \in get_querystring(b, u, querystring, Beyond)
  <2>1. Options(r) \/ Error(r, 404, name) \/ Error(r, 403, name) \/ Crashes \/ Static(r, method, name) => pc' # "ask"
    BY DEF Options, Error, Crashes, Static, Begins
  <2> QED  BY <1>1, <2>1
<1>4. CASE pc' = "ask"
  <2>1. Php(r, method, name) /\ querystring' \in get_querystring(b, u, querystring, Beyond)
    BY <1>3, <1>4
  <2> QED  BY <1>2, <2>1, PhpRecords
<1>5. CASE pc' # "ask"
  <2>1. PhpAsked'
    BY <1>5, Zenon DEF PhpAsked
  <2> QED  BY <1>2, <2>1
<1> QED  BY <1>2, <1>4, <1>5

\* No other step touches them while php-fpm is asked.
LEMMA AskedNext ==
  ASSUME IInv, QueryInv, PhpAsked, [Next]_vars
  PROVE  QueryInv' /\ PhpAsked'
<1>1. ASSUME NEW r \in Requests, Handle(r)
      PROVE  QueryInv' /\ PhpAsked'
  BY <1>1, HandleAsks
<1>2. CASE Drain \/ Reset \/ Change \/ UNCHANGED vars
  <2>1. UNCHANGED <<pc, querystring, answers, asked>>
    BY <1>2 DEF Drain, Reset, Change, vars
  <2>2. QueryInv'
    BY <2>1 DEF QueryInv
  <2>3. cur' = cur
    BY <2>1 DEF cur, n
  <2>4. PhpAsked'
    BY <2>1, <2>3 DEF PhpAsked
  <2> QED  BY <2>2, <2>4
<1>3. ASSUME querystring' = querystring, pc' # "ask"
      PROVE  QueryInv' /\ PhpAsked'
  BY <1>3 DEF QueryInv, PhpAsked
<1>4. CASE Writes
  <2>1. querystring' = querystring
    BY <1>4 DEF Writes, WriteHead, WriteBody, SendFile, WritePhp, rio_writen
  <2>2. pc' # "ask"
    <3>1. WriteHead \/ WriteBody => pc' # "ask"
      BY DEF WriteHead, WriteBody, rio_writen, TornHead, AfterAnswer, GivesUp
    <3>2. SendFile \/ WritePhp => pc' # "ask"
      BY DEF SendFile, WritePhp, AfterAnswer
    <3> QED  BY <1>4, <3>1, <3>2 DEF Writes
  <2> QED  BY <1>3, <2>1, <2>2
<1>5. CASE Ends
  BY <1>3, <1>5 DEF Ends
<1>6. ASSUME NEW reply \in Replies, PhpReplies(reply)
      PROVE  QueryInv' /\ PhpAsked'
  BY <1>3, <1>6 DEF PhpReplies, PhpAnswer
<1> QED  BY <1>1, <1>2, <1>4, <1>5, <1>6 DEF Next

\* What is left in querystring at first fits.
LEMMA AskedInit == Init => QueryInv /\ PhpAsked
<1> SUFFICES ASSUME Init
             PROVE  QueryInv /\ PhpAsked
  OBVIOUS
<1>1. querystring \in Beyond /\ pc = "read"
  BY DEF Init
<1>2. querystring \in Seq(Bytes)
  BY <1>1, LengthAssumption DEF Bytes
<1>3. Requests # {} => Fits(querystring)
  <2> SUFFICES ASSUME NEW r \in Requests, NEW name \in Names
               PROVE  Len(name) + Len(querystring) + 2 < BYTE * BYTE
    BY DEF Fits
  <2> DEFINE m == BYTE * BYTE
  <2>1. /\ Len(name) \in Nat /\ Len(Root) \in Nat /\ Len(Index) \in Nat /\ Len(Url(r)) \in Nat
        /\ Len(querystring) \in Nat /\ m \in Nat
        /\ Len(name) + Len(Root) + Len(Index) + Len(Url(r)) + Len(querystring) + 3 < m
    BY <1>1, Bounds
  <2> HIDE DEF m
  <2>2. Len(name) + Len(querystring) + 2 < m
    BY <2>1
  <2> QED  BY <2>2 DEF m
<1> QED  BY <1>1, <1>2, <1>3 DEF QueryInv, PhpAsked

\* Of a file nothing goes out behind the header where HEAD was asked.
LEMMA HeadAlone ==
  ASSUME TypeOK, ShapeInv, NEW i \in 1..n, answers[i].kind = "static", answers[i].head
  PROVE  Sent(i) \subseteq 1..HeadLen
<1>1. answers[i].total = HeadLen
  BY DEF ShapeInv, Measured
<1>2. \A p \in DOMAIN stream : stream[p][1] = i => stream[p][2] \in 1..answers[i].total
  BY DEF TypeOK
<1> QED  BY <1>1, <1>2 DEF Sent

-----------------------------------------------------------------------------
(* The theorems *)

\* For any requests, files, sizes and replies of php-fpm, and however the socket
\* and the client behave: answers follow each other in order, a file's has no
\* hole, nor anything behind its header where HEAD was asked, and one the socket
\* had room for is whole.
THEOREM AnswersSent == Spec => [](TypeOK /\ NoHoles /\ Whole)
<1>1. Init => IInv
  BY InitInv
<1>2. IInv /\ [Next]_vars => IInv'
  BY NextInv
<1>3. IInv => TypeOK /\ NoHoles /\ Whole
  BY HeadAlone DEF IInv, StreamInv, InOrder, Unbroken, NoHoles
<1> QED  BY <1>1, <1>2, <1>3, PTL DEF Spec

\* For any requests, files, types, root and header names, and whatever was asked
\* before on the connection: a plain request without a condition is answered
\* with the status its file has, kept alive exactly when it asks for that, and
\* announced with the file's length or that of the body behind php's headers.
THEOREM AnswersRight == Spec => []RightAnswer
<1>1. Init => IInv /\ RightInv
  <2>1. Init => RightInv
    BY DEF Init, RightInv, n
  <2> QED  BY <2>1, InitInv
<1>2. IInv /\ RightInv /\ [Next]_vars => (IInv /\ RightInv)'
  BY NextInv, RightNext
<1>3. IInv /\ RightInv => RightAnswer
  BY RightIs
<1> QED  BY <1>1, <1>2, <1>3, PTL DEF Spec

\* For any requests whose strings a record can hold, and whatever the stack and
\* earlier requests left in querystring: the records written to php-fpm are
\* well formed and name the file, the method and the query of a plain request.
THEOREM PhpIsAsked == Spec => []PhpAsked
<1>1. Init => IInv /\ QueryInv /\ PhpAsked
  BY InitInv, AskedInit
<1>2. IInv /\ QueryInv /\ PhpAsked /\ [Next]_vars => (IInv /\ QueryInv /\ PhpAsked)'
  BY NextInv, AskedNext
<1>3. IInv /\ QueryInv /\ PhpAsked => PhpAsked
  OBVIOUS
<1> QED  BY <1>1, <1>2, <1>3, PTL DEF Spec

=============================================================================
