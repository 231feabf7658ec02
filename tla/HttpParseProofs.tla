-------------------------- MODULE HttpParseProofs ---------------------------
(***************************************************************************)
(* Proofs about the parsers of http_parse.c, however a request is cut into *)
(* reads.  For every byte sequence the parts of a request are marked in    *)
(* order: the inductive invariant says, for each state of the two parsers, *)
(* which marks are set and that they lie before the byte to be looked at.  *)
(* For a request in good form the marks are those of the parts the client  *)
(* encoded, and no byte is refused: there the invariant says where in the  *)
(* encoding the parser is in each state, and the lemmas of the first part  *)
(* say which bytes stand there.                                            *)
(***************************************************************************)
EXTENDS HttpParse, TLAPS

WF == INSTANCE WellFoundedInduction

-----------------------------------------------------------------------------
(* The bytes of a request in good form *)

\* Every set of numbers that is not empty has a least one.
LEMMA LeastNat ==
  ASSUME NEW T, T \subseteq Nat, T # {}
  PROVE  \E x \in T : \A y \in T : x <= y
<1> DEFINE R == WF!OpToRel(<, Nat)
<1>1. WF!IsWellFoundedOn(R, Nat)
  BY WF!NatLessThanWellFounded, Zenon
<1>2. \A x, y \in Nat : y < x => <<y, x>> \in R
  BY Zenon DEF WF!OpToRel
<1> HIDE DEF R
<1>3. PICK x \in T : \A y \in T : ~ (<<y, x>> \in R)
  BY <1>1, WF!WFMin, Zenon
<1>4. \A y \in T : ~ (y < x)
  BY <1>2, <1>3
<1> QED  BY <1>4

\* Induction up to N: a set of numbers that holds 0, and with each number below
\* N the next one.
LEMMA UpTo ==
  ASSUME NEW N \in Nat, NEW S, 0 \in S, \A k \in 0..(N - 1) : k \in S => k + 1 \in S
  PROVE  0..N \subseteq S
<1> DEFINE T == {k \in 0..N : k \notin S}
<1> SUFFICES ASSUME T # {}
             PROVE  FALSE
  OBVIOUS
<1>1. PICK k \in T : \A y \in T : k <= y
  <2>1. T \subseteq Nat
    OBVIOUS
  <2> HIDE DEF T
  <2> QED  BY <2>1, LeastNat
<1>2. k \in 1..N /\ k \notin S
  BY <1>1
<1>3. k - 1 \in 0..(N - 1) /\ (k - 1) + 1 = k
  BY <1>2
<1>4. k - 1 \notin T
  BY <1>1, <1>2
<1>5. k - 1 \in S
  BY <1>3, <1>4
<1> QED  BY <1>2, <1>3, <1>5

\* The sequences that encode the first headers, one by one
LEMMA HeadersAre ==
  ASSUME NEW hs, Len(hs) \in Nat
  PROVE  LET e == EncodedHeaders(hs)
         IN  e = [n \in 0..Len(hs) |-> IF n = 0 THEN <<>> ELSE e[n - 1] \o EncodedHeader(hs[n])]
<1> DEFINE L == Len(hs)
           Is(k, f) == f = [n \in 0..k |-> IF n = 0 THEN <<>> ELSE f[n - 1] \o EncodedHeader(hs[n])]
           S == {k \in 0..L : \E f : Is(k, f)}
<1>1. 0 \in S
  <2> DEFINE f == [n \in 0..0 |-> <<>>]
  <2>1. Is(0, f) /\ 0 \in 0..L
    OBVIOUS
  <2> HIDE DEF f, Is, L
  <2> QED  BY <2>1
<1>2. ASSUME NEW k \in 0..(L - 1), k \in S
      PROVE  k + 1 \in S
  <2>1. PICK f : Is(k, f)
    BY <1>2
  <2> DEFINE g == [n \in 0..(k + 1) |-> IF n = k + 1 THEN f[k] \o EncodedHeader(hs[k + 1]) ELSE f[n]]
  <2>2. \A n \in 0..k : g[n] = f[n]
    OBVIOUS
  <2>3. \A n \in 0..k : f[n] = IF n = 0 THEN <<>> ELSE f[n - 1] \o EncodedHeader(hs[n])
    BY <2>1
  <2>4. \A n \in 0..(k + 1) : g[n] = IF n = 0 THEN <<>> ELSE g[n - 1] \o EncodedHeader(hs[n])
    <3> TAKE n \in 0..(k + 1)
    <3>1. CASE n = k + 1
      <4>1. k \in 0..k /\ (k + 1) - 1 = k /\ k + 1 # 0
        OBVIOUS
      <4>2. g[k + 1] = f[k] \o EncodedHeader(hs[k + 1])
        OBVIOUS
      <4>3. g[k] = f[k]
        BY <2>2, <4>1
      <4> HIDE DEF g
      <4> QED  BY <3>1, <4>1, <4>2, <4>3
    <3>2. CASE n # k + 1
      <4>1. n \in 0..k /\ (n # 0 => n - 1 \in 0..k)
        BY <3>2
      <4> HIDE DEF g
      <4> QED  BY <2>2, <2>3, <4>1
    <3> QED  BY <3>1, <3>2
  <2>5. g = [n \in 0..(k + 1) |-> g[n]]
    OBVIOUS
  <2> HIDE DEF g
  <2>6. Is(k + 1, g)
    BY <2>4, <2>5
  <2>7. k + 1 \in 0..L
    OBVIOUS
  <2> HIDE DEF Is, L
  <2> QED  BY <2>6, <2>7
<1>3. L \in S
  <2>1. L \in Nat
    OBVIOUS
  <2> HIDE DEF S, L
  <2>2. 0..L \subseteq S
    BY <1>1, <1>2, <2>1, UpTo
  <2> QED  BY <2>1, <2>2
<1>4. \E f : Is(L, f)
  BY <1>3
<1> QED  BY <1>4, Zenon DEF EncodedHeaders

\* w stands in t behind the first at bytes.
Holds(t, at, w) == at + Len(w) <= Len(t) /\ \A k \in 1..Len(w) : t[at + k] = w[k]

\* t is s and w behind it.
Joins(t, s, w) == s \in Seq(Bytes) /\ w \in Seq(Bytes) /\ t = s \o w

\* What is appended stands at the end, and nothing else moves.
LEMMA HoldsEnd ==
  ASSUME NEW s, NEW w, NEW t, Joins(t, s, w)
  PROVE  t \in Seq(Bytes) /\ Len(t) = Len(s) + Len(w) /\ Holds(t, Len(s), w) /\ Holds(t, 0, s)
<1> USE DEF Joins
<1>1. /\ t \in Seq(Bytes) /\ Len(t) = Len(s) + Len(w)
      /\ \A k \in 1..Len(s) : t[k] = s[k]
      /\ \A k \in 1..Len(w) : t[Len(s) + k] = w[k]
  OBVIOUS
<1>2. Len(s) \in Nat /\ Len(w) \in Nat
  OBVIOUS
<1>3. Holds(t, Len(s), w)
  BY <1>1, <1>2 DEF Holds
<1>4. Holds(t, 0, s)
  <2>1. 0 + Len(s) <= Len(t)
    BY <1>1, <1>2
  <2>2. \A k \in 1..Len(s) : t[0 + k] = s[k]
    <3> TAKE k \in 1..Len(s)
    <3>1. 0 + k = k
      OBVIOUS
    <3> QED  BY <1>1, <3>1
  <2> QED  BY <2>1, <2>2 DEF Holds
<1> QED  BY <1>1, <1>3, <1>4

\* What stands in a part stands in the whole.
LEMMA HoldsIn ==
  ASSUME NEW t, NEW s, NEW w, NEW a \in Nat, NEW b \in Nat,
         Len(t) \in Nat, Len(s) \in Nat, Len(w) \in Nat, Holds(t, a, s), Holds(s, b, w)
  PROVE  Holds(t, a + b, w)
<1>1. a + b + Len(w) <= Len(t)
  BY DEF Holds
<1>2. ASSUME NEW k \in 1..Len(w)
      PROVE  t[a + b + k] = w[k]
  <2>1. b + k \in 1..Len(s)
    BY DEF Holds
  <2>2. s[b + k] = w[k] /\ t[a + (b + k)] = s[b + k]
    BY <2>1 DEF Holds
  <2>3. a + (b + k) = a + b + k
    OBVIOUS
  <2> QED  BY <2>2, <2>3
<1> QED  BY <1>1, <1>2 DEF Holds

\* ... behind the same number of bytes where the part comes first,
LEMMA HoldsStill ==
  ASSUME NEW T, NEW t, NEW s, NEW w, t \in Seq(T), s \in Seq(T), w \in Seq(T), NEW a \in Nat,
         Holds(t, 0, s), Holds(s, a, w)
  PROVE  Holds(t, a, w)
<1>1. Len(t) \in Nat /\ Len(s) \in Nat /\ Len(w) \in Nat /\ 0 \in Nat /\ 0 + a = a
  OBVIOUS
<1>2. Holds(t, 0 + a, w)
  BY <1>1, HoldsIn
<1> QED  BY <1>1, <1>2

\* and is what is read there.
LEMMA HoldsSlice ==
  ASSUME NEW T, NEW t, NEW w, t \in Seq(T), w \in Seq(T), NEW a \in Nat, Holds(t, a, w)
  PROVE  SubSeq(t, a + 1, a + Len(w)) = w
<1> DEFINE b == a + Len(w)   s == SubSeq(t, a + 1, b)
<1>1. b <= Len(t) /\ b \in Nat /\ Len(w) \in Nat /\ b - a = Len(w)
  BY DEF Holds
<1> HIDE DEF b
<1>2. s \in Seq(T) /\ Len(s) = b - a /\ \A k \in 1..(b - a) : s[k] = t[a + k]
  <2>1. a + 1 \in 1..(Len(t) + 1) /\ b <= Len(t) /\ b - (a + 1) + 1 = b - a /\ b - a \in Nat
    BY <1>1
  <2>2. \A k \in 1..(b - a) : (a + 1) + k - 1 = a + k
    OBVIOUS
  <2> QED  BY <2>1, <2>2, <1>1
<1>3. \A k \in 1..Len(w) : s[k] = w[k]
  BY <1>1, <1>2 DEF Holds
<1> HIDE DEF s
<1>4. s = w
  <2>1. s \in Seq(T) /\ w \in Seq(T) /\ Len(s) = Len(w)
    BY <1>1, <1>2
  <2> QED  BY <2>1, <1>3
<1> QED  BY <1>4 DEF s, b

-----------------------------------------------------------------------------
(* Where the parts of a request stand *)

MethodEnd(r) == Len(r.method)
UrlEnd(r) == MethodEnd(r) + 1 + Len(r.url)
ProtocolEnd(r) == UrlEnd(r) + 1 + Len(r.protocol)
GapEnd(r) == ProtocolEnd(r) + Len(r.gap)

\* Of header i + 1: where its key begins, where its key ends, where the colon
\* is, and where its value begins and ends
KeyAt(r, i) == GapEnd(r) + 2 + Len(EncodedHeaders(r.headers)[i])
KeyEnd(r, i) == KeyAt(r, i) + Len(r.headers[i + 1].key)
ColonAt(r, i) == KeyEnd(r, i) + Len(r.headers[i + 1].gap)
ValueAt(r, i) == ColonAt(r, i) + 1 + Len(r.headers[i + 1].lead)
ValueEnd(r, i) == ValueAt(r, i) + Len(r.headers[i + 1].value)

\* Strings of some bytes are strings of bytes.
LEMMA SomeBytes ==
  /\ Upper \subseteq Bytes /\ Bytes \ {SP} \subseteq Bytes /\ Bytes \ {SP, CR} \subseteq Bytes
  /\ {SP} \subseteq Bytes /\ Upper \cup Other \subseteq Bytes /\ Bytes \ {CR, LF} \subseteq Bytes
  /\ \A A, B, s : A \subseteq B /\ s \in Seq(A) => s \in Seq(B)
  /\ \A A, s : s \in Word(A) => s \in Seq(A) /\ Len(s) \in Nat \ {0}
<1>1. \A A, B, s : A \subseteq B /\ s \in Seq(A) => s \in Seq(B)
  OBVIOUS
<1>2. \A A, s : s \in Word(A) => s \in Seq(A) /\ Len(s) \in Nat \ {0}
  BY DEF Word
<1>3. /\ Upper \subseteq Bytes /\ Bytes \ {SP} \subseteq Bytes /\ Bytes \ {SP, CR} \subseteq Bytes
      /\ {SP} \subseteq Bytes /\ Upper \cup Other \subseteq Bytes /\ Bytes \ {CR, LF} \subseteq Bytes
  BY DEF Bytes
<1> QED  BY <1>1, <1>2, <1>3

\* So are those of a header,
LEMMA HeaderTyped ==
  ASSUME NEW h \in Header
  PROVE  /\ h.key \in Seq(Bytes) /\ h.gap \in Seq(Bytes) /\ h.lead \in Seq(Bytes) /\ h.value \in Seq(Bytes)
         /\ Len(h.key) \in Nat \ {0} /\ Len(h.value) \in Nat \ {0}
         /\ h.key \in Seq(Upper \cup Other) /\ h.gap \in Seq({SP}) /\ h.lead \in Seq({SP})
         /\ h.value \in Seq(Bytes \ {CR, LF})
<1>1. /\ h.key \in Word(Upper \cup Other) /\ h.gap \in Seq({SP}) /\ h.lead \in Seq({SP})
      /\ h.value \in Word(Bytes \ {CR, LF})
  BY DEF Header
<1>2. /\ h.key \in Seq(Upper \cup Other) /\ Len(h.key) \in Nat \ {0}
      /\ h.value \in Seq(Bytes \ {CR, LF}) /\ Len(h.value) \in Nat \ {0}
  BY <1>1, SomeBytes, Zenon
<1>3. h.key \in Seq(Bytes) /\ h.value \in Seq(Bytes) /\ h.gap \in Seq(Bytes) /\ h.lead \in Seq(Bytes)
  BY <1>1, <1>2, SomeBytes, Zenon
<1> QED  BY <1>1, <1>2, <1>3

\* and those of a request.
LEMMA Typed ==
  ASSUME NEW r \in Requests
  PROVE  /\ r.method \in Seq(Bytes) /\ r.url \in Seq(Bytes) /\ r.protocol \in Seq(Bytes)
         /\ r.gap \in Seq(Bytes) /\ r.rest \in Seq(Bytes)
         /\ r.headers \in Seq(Header) /\ Len(r.headers) \in Nat \ {0} /\ Len(r.method) \in Nat \ {0}
         /\ r.method \in Seq(Upper) /\ r.url \in Seq(Bytes \ {SP}) /\ r.protocol \in Seq(Bytes \ {SP, CR})
         /\ r.gap \in Seq({SP})
         /\ \A i \in 1..Len(r.headers) : r.headers[i] \in Header /\ r.headers[i].value[1] # SP
<1>1. WellFormed(r)
  BY RequestsAssumption
<1>2. /\ r.method \in Word(Upper) /\ r.url \in Seq(Bytes \ {SP}) /\ r.protocol \in Seq(Bytes \ {SP, CR})
      /\ r.gap \in Seq({SP}) /\ r.headers \in Word(Header) /\ r.rest \in Seq(Bytes)
      /\ \A i \in DOMAIN r.headers : r.headers[i].value[1] # SP
  BY <1>1 DEF WellFormed
<1>3. /\ r.method \in Seq(Upper) /\ Len(r.method) \in Nat \ {0}
      /\ r.headers \in Seq(Header) /\ Len(r.headers) \in Nat \ {0}
  BY <1>2, SomeBytes, Zenon
<1>4. /\ r.method \in Seq(Bytes) /\ r.url \in Seq(Bytes) /\ r.protocol \in Seq(Bytes)
      /\ r.gap \in Seq(Bytes)
  BY <1>2, <1>3, SomeBytes, Zenon
<1>5. \A i \in 1..Len(r.headers) : r.headers[i] \in Header /\ r.headers[i].value[1] # SP
  BY <1>2, <1>3
<1> QED  BY <1>2, <1>3, <1>4, <1>5

\* What the parts of a header consist of, and its encoding
LEMMA HeaderParts ==
  ASSUME NEW h \in Header
  PROVE  LET e == EncodedHeader(h)
             k == Len(h.key)   g == Len(h.gap)   l == Len(h.lead)   v == Len(h.value)
         IN  /\ e \in Seq(Bytes) /\ Len(e) = k + g + 1 + l + v + 2
             /\ Holds(e, 0, h.key) /\ Holds(e, k, h.gap) /\ Holds(e, k + g, <<COLON>>)
             /\ Holds(e, k + g + 1, h.lead) /\ Holds(e, k + g + 1 + l, h.value)
             /\ Holds(e, k + g + 1 + l + v, <<CR, LF>>)
<1> DEFINE k == Len(h.key)   g == Len(h.gap)   l == Len(h.lead)   v == Len(h.value)
           colon == <<COLON>>   crlf == <<CR, LF>>
           s1 == h.key \o h.gap
           s2 == s1 \o colon
           s3 == s2 \o h.lead
           s4 == s3 \o h.value
           s5 == s4 \o crlf
<1>1. /\ h.key \in Seq(Bytes) /\ h.gap \in Seq(Bytes) /\ h.lead \in Seq(Bytes) /\ h.value \in Seq(Bytes)
      /\ colon \in Seq(Bytes) /\ Len(colon) = 1 /\ crlf \in Seq(Bytes) /\ Len(crlf) = 2
  BY HeaderTyped DEF Bytes
<1>2. k \in Nat /\ g \in Nat /\ l \in Nat /\ v \in Nat
  BY <1>1
<1>3. EncodedHeader(h) = s5
  BY DEF EncodedHeader
<1> HIDE DEF k, g, l, v, colon, crlf, s1, s2, s3, s4, s5
<1>4. s1 \in Seq(Bytes) /\ Len(s1) = k + g /\ Holds(s1, k, h.gap) /\ Holds(s1, 0, h.key)
  <2>1. s1 \in Seq(Bytes) /\ Len(s1) = Len(h.key) + Len(h.gap) /\ Holds(s1, Len(h.key), h.gap) /\ Holds(s1, 0, h.key)
    <3>1. Joins(s1, h.key, h.gap)
      BY <1>1 DEF Joins, s1
    <3> QED  BY <3>1, HoldsEnd
  <2> QED  BY <1>1, <1>2, <2>1 DEF k, g
<1>5. s2 \in Seq(Bytes) /\ Len(s2) = k + g + 1 /\ Holds(s2, k + g, colon) /\ Holds(s2, 0, s1)
  <2>1. s2 \in Seq(Bytes) /\ Len(s2) = Len(s1) + Len(colon) /\ Holds(s2, Len(s1), colon) /\ Holds(s2, 0, s1)
    <3>1. Joins(s2, s1, colon)
      BY <1>1, <1>4 DEF Joins, s2
    <3> QED  BY <3>1, HoldsEnd
  <2> QED  BY <1>1, <1>2, <1>4, <2>1
<1>6. s3 \in Seq(Bytes) /\ Len(s3) = k + g + 1 + l /\ Holds(s3, k + g + 1, h.lead) /\ Holds(s3, 0, s2)
  <2>1. s3 \in Seq(Bytes) /\ Len(s3) = Len(s2) + Len(h.lead) /\ Holds(s3, Len(s2), h.lead) /\ Holds(s3, 0, s2)
    <3>1. Joins(s3, s2, h.lead)
      BY <1>1, <1>5 DEF Joins, s3
    <3> QED  BY <3>1, HoldsEnd
  <2> QED  BY <1>1, <1>2, <1>5, <2>1 DEF l
<1>7. s4 \in Seq(Bytes) /\ Len(s4) = k + g + 1 + l + v /\ Holds(s4, k + g + 1 + l, h.value) /\ Holds(s4, 0, s3)
  <2>1. s4 \in Seq(Bytes) /\ Len(s4) = Len(s3) + Len(h.value) /\ Holds(s4, Len(s3), h.value) /\ Holds(s4, 0, s3)
    <3>1. Joins(s4, s3, h.value)
      BY <1>1, <1>6 DEF Joins, s4
    <3> QED  BY <3>1, HoldsEnd
  <2> QED  BY <1>1, <1>2, <1>6, <2>1 DEF v
<1>8. /\ s5 \in Seq(Bytes) /\ Len(s5) = k + g + 1 + l + v + 2 /\ Holds(s5, k + g + 1 + l + v, crlf)
      /\ Holds(s5, 0, s4)
  <2>1. s5 \in Seq(Bytes) /\ Len(s5) = Len(s4) + Len(crlf) /\ Holds(s5, Len(s4), crlf) /\ Holds(s5, 0, s4)
    <3>1. Joins(s5, s4, crlf)
      BY <1>1, <1>7 DEF Joins, s5
    <3> QED  BY <3>1, HoldsEnd
  <2> QED  BY <1>1, <1>2, <1>7, <2>1
<1>9. \A a \in Nat, w \in Seq(Bytes) : /\ Holds(s1, a, w) => Holds(s2, a, w)
                                       /\ Holds(s2, a, w) => Holds(s3, a, w)
                                       /\ Holds(s3, a, w) => Holds(s4, a, w)
                                       /\ Holds(s4, a, w) => Holds(s5, a, w)
  BY <1>4, <1>5, <1>6, <1>7, <1>8, HoldsStill
<1>10. /\ 0 \in Nat /\ k + g \in Nat /\ k + g + 1 \in Nat /\ k + g + 1 + l \in Nat
       /\ k + g + 1 + l + v \in Nat
  BY <1>2
<1>11. Holds(s5, k + g + 1 + l, h.value)
  BY <1>1, <1>7, <1>9, <1>10
<1>12. Holds(s5, k + g + 1, h.lead)
  BY <1>1, <1>6, <1>9, <1>10
<1>13. Holds(s5, k + g, colon)
  BY <1>1, <1>5, <1>9, <1>10
<1>14. Holds(s5, k, h.gap) /\ Holds(s5, 0, h.key)
  BY <1>1, <1>2, <1>4, <1>9, <1>10
<1> QED  BY <1>3, <1>8, <1>11, <1>12, <1>13, <1>14 DEF k, g, l, v, colon, crlf

\* Each header stands in the headers behind those before it.
LEMMA HeadersHold ==
  ASSUME NEW hs \in Seq(Header)
  PROVE  LET e == EncodedHeaders(hs)   L == Len(hs)
         IN  /\ e[0] = <<>> /\ \A i \in 0..L : e[i] \in Seq(Bytes)
             /\ \A i \in 0..(L - 1) : /\ Len(e[i + 1]) = Len(e[i]) + Len(EncodedHeader(hs[i + 1]))
                                      /\ Holds(e[L], Len(e[i]), EncodedHeader(hs[i + 1]))
<1> DEFINE e == EncodedHeaders(hs)
           L == Len(hs)
           code(i) == EncodedHeader(hs[i])
           S == {n \in 0..L : /\ e[n] \in Seq(Bytes)
                              /\ \A i \in 0..(n - 1) : /\ e[i] \in Seq(Bytes)
                                                       /\ Len(e[i + 1]) = Len(e[i]) + Len(code(i + 1))
                                                       /\ Holds(e[n], Len(e[i]), code(i + 1))}
<1>1. L \in Nat /\ \A i \in 1..L : hs[i] \in Header
  OBVIOUS
<1>2. \A i \in 1..L : code(i) \in Seq(Bytes) /\ Len(code(i)) \in Nat
  <2> TAKE i \in 1..L
  <2>1. hs[i] \in Header
    BY <1>1
  <2>2. code(i) \in Seq(Bytes)
    BY <2>1, HeaderParts
  <2> QED  BY <2>2
<1>3. \A n \in 0..L : e[n] = IF n = 0 THEN <<>> ELSE e[n - 1] \o code(n)
  BY <1>1, HeadersAre
<1> HIDE DEF e, code, L
<1>4. 0 \in S
  <2>1. 0 \in 0..L /\ ~ \E i \in 0..(0 - 1) : TRUE
    BY <1>1
  <2>2. e[0] = <<>>
    BY <1>3, <2>1
  <2>3. e[0] \in Seq(Bytes)
    BY <2>2
  <2> QED  BY <2>1, <2>3
<1>5. ASSUME NEW n \in 0..(L - 1), n \in S
      PROVE  n + 1 \in S
  <2>1. n + 1 \in 1..L /\ n + 1 \in 0..L /\ (n + 1) - 1 = n /\ n + 1 # 0
    BY <1>1
  <2>2. Joins(e[n + 1], e[n], code(n + 1))
    <3>1. e[n + 1] = e[n] \o code(n + 1)
      BY <1>3, <2>1
    <3> QED  BY <1>2, <1>5, <2>1, <3>1 DEF Joins
  <2>3. /\ e[n + 1] \in Seq(Bytes) /\ Len(e[n + 1]) = Len(e[n]) + Len(code(n + 1))
        /\ Holds(e[n + 1], Len(e[n]), code(n + 1)) /\ Holds(e[n + 1], 0, e[n])
    BY <2>2, HoldsEnd
  <2>4. ASSUME NEW i \in 0..n
        PROVE  /\ e[i] \in Seq(Bytes) /\ Len(e[i + 1]) = Len(e[i]) + Len(code(i + 1))
               /\ Holds(e[n + 1], Len(e[i]), code(i + 1))
    <3>1. CASE i = n
      BY <1>5, <2>3, <3>1
    <3>2. CASE i # n
      <4>1. i \in 0..(n - 1) /\ i + 1 \in 1..L
        BY <1>1, <3>2
      <4>2. /\ e[i] \in Seq(Bytes) /\ Len(e[i + 1]) = Len(e[i]) + Len(code(i + 1))
            /\ Holds(e[n], Len(e[i]), code(i + 1)) /\ e[n] \in Seq(Bytes)
        BY <1>5, <4>1
      <4>3. Len(e[i]) \in Nat /\ code(i + 1) \in Seq(Bytes)
        BY <1>2, <4>1, <4>2
      <4>4. Holds(e[n + 1], Len(e[i]), code(i + 1))
        BY <2>3, <4>2, <4>3, HoldsStill
      <4> QED  BY <4>2, <4>4
    <3> QED  BY <3>1, <3>2
  <2> QED  BY <2>1, <2>3, <2>4
<1>6. L \in S
  <2> HIDE DEF S
  <2>1. 0..L \subseteq S
    BY <1>1, <1>4, <1>5, UpTo
  <2> QED  BY <1>1, <2>1
<1>7. e[0] = <<>>
  BY <1>1, <1>3
<1>8. /\ \A i \in 0..L : e[i] \in Seq(Bytes)
      /\ \A i \in 0..(L - 1) : Len(e[i + 1]) = Len(e[i]) + Len(code(i + 1)) /\ Holds(e[L], Len(e[i]), code(i + 1))
  <2>1. \A i \in 0..L : i = L \/ i \in 0..(L - 1)
    BY <1>1
  <2> QED  BY <1>6, <2>1
<1> QED  BY <1>7, <1>8 DEF e, L, code

\* Where everything stands in a request and what follows it.
LEMMA LineHolds ==
  ASSUME NEW r \in Requests
  PROVE  LET t == Encoded(r) \o r.rest   L == Len(r.headers)   H == EncodedHeaders(r.headers)[L]
         IN  /\ t \in Seq(Bytes) /\ H \in Seq(Bytes)
             /\ Len(Encoded(r)) = GapEnd(r) + 2 + Len(H) + 2 /\ Len(Encoded(r)) <= Len(t)
             /\ Holds(t, 0, r.method) /\ Holds(t, MethodEnd(r), <<SP>>) /\ Holds(t, MethodEnd(r) + 1, r.url)
             /\ Holds(t, UrlEnd(r), <<SP>>) /\ Holds(t, UrlEnd(r) + 1, r.protocol)
             /\ Holds(t, ProtocolEnd(r), r.gap) /\ Holds(t, GapEnd(r), <<CR, LF>>)
             /\ Holds(t, GapEnd(r) + 2, H) /\ Holds(t, GapEnd(r) + 2 + Len(H), <<CR, LF>>)
<1> DEFINE sp == <<SP>>   crlf == <<CR, LF>>
           m == r.method   u == r.url   v == r.protocol   g == r.gap
           H == EncodedHeaders(r.headers)[Len(r.headers)]
           rest == r.rest
           s1 == m \o sp
           s2 == s1 \o u
           s3 == s2 \o sp
           s4 == s3 \o v
           s5 == s4 \o g
           s6 == s5 \o crlf
           s7 == s6 \o H
           s8 == s7 \o crlf
           s9 == s8 \o rest
           a == MethodEnd(r)   b == UrlEnd(r)   c == ProtocolEnd(r)   d == GapEnd(r)   l == Len(H)
<1>1. /\ m \in Seq(Bytes) /\ u \in Seq(Bytes) /\ v \in Seq(Bytes) /\ g \in Seq(Bytes) /\ rest \in Seq(Bytes)
      /\ r.headers \in Seq(Header) /\ Len(r.headers) \in Nat
  BY Typed
<1>2. H \in Seq(Bytes)
  <2> DEFINE hs == r.headers   L == Len(hs)
  <2>1. hs \in Seq(Header) /\ L \in 0..L
    BY <1>1
  <2> HIDE DEF hs, L
  <2>2. EncodedHeaders(hs)[L] \in Seq(Bytes)
    BY <2>1, HeadersHold DEF L
  <2> QED  BY <2>2 DEF hs, L
<1>3. sp \in Seq(Bytes) /\ Len(sp) = 1 /\ crlf \in Seq(Bytes) /\ Len(crlf) = 2
  BY DEF Bytes
<1>4. a = Len(m) /\ b = a + 1 + Len(u) /\ c = b + 1 + Len(v) /\ d = c + Len(g) /\ l = Len(H)
  BY DEF MethodEnd, UrlEnd, ProtocolEnd, GapEnd
<1>5. /\ Len(m) \in Nat /\ Len(u) \in Nat /\ Len(v) \in Nat /\ Len(g) \in Nat /\ Len(rest) \in Nat /\ l \in Nat
      /\ a \in Nat /\ b \in Nat /\ c \in Nat /\ d \in Nat
  <2>1. Len(m) \in Nat /\ Len(u) \in Nat /\ Len(v) \in Nat /\ Len(g) \in Nat /\ Len(rest) \in Nat /\ l \in Nat
    BY <1>1, <1>2
  <2> HIDE DEF a, b, c, d, l, H, m, u, v, g
  <2> QED  BY <1>4, <2>1
<1>6. Encoded(r) = s8 /\ Encoded(r) \o r.rest = s9
  BY DEF Encoded
<1> HIDE DEF sp, crlf, m, u, v, g, H, rest, s1, s2, s3, s4, s5, s6, s7, s8, s9, a, b, c, d, l
<1>10. s1 \in Seq(Bytes) /\ Len(s1) = a + 1 /\ Holds(s1, a, sp) /\ Holds(s1, 0, m)
  <2>1. Joins(s1, m, sp)
    BY <1>1, <1>2, <1>3 DEF Joins, s1
  <2>2. s1 \in Seq(Bytes) /\ Len(s1) = Len(m) + Len(sp) /\ Holds(s1, Len(m), sp) /\ Holds(s1, 0, m)
    BY <2>1, HoldsEnd
  <2> QED  BY <1>3, <1>4, <1>5, <2>2
<1>11. s2 \in Seq(Bytes) /\ Len(s2) = b /\ Holds(s2, a + 1, u) /\ Holds(s2, 0, s1)
  <2>1. Joins(s2, s1, u)
    BY <1>1, <1>2, <1>3, <1>10 DEF Joins, s2
  <2>2. s2 \in Seq(Bytes) /\ Len(s2) = Len(s1) + Len(u) /\ Holds(s2, Len(s1), u) /\ Holds(s2, 0, s1)
    BY <2>1, HoldsEnd
  <2> QED  BY <1>3, <1>4, <1>5, <1>10, <2>2
<1>12. s3 \in Seq(Bytes) /\ Len(s3) = b + 1 /\ Holds(s3, b, sp) /\ Holds(s3, 0, s2)
  <2>1. Joins(s3, s2, sp)
    BY <1>1, <1>2, <1>3, <1>11 DEF Joins, s3
  <2>2. s3 \in Seq(Bytes) /\ Len(s3) = Len(s2) + Len(sp) /\ Holds(s3, Len(s2), sp) /\ Holds(s3, 0, s2)
    BY <2>1, HoldsEnd
  <2> QED  BY <1>3, <1>4, <1>5, <1>11, <2>2
<1>13. s4 \in Seq(Bytes) /\ Len(s4) = c /\ Holds(s4, b + 1, v) /\ Holds(s4, 0, s3)
  <2>1. Joins(s4, s3, v)
    BY <1>1, <1>2, <1>3, <1>12 DEF Joins, s4
  <2>2. s4 \in Seq(Bytes) /\ Len(s4) = Len(s3) + Len(v) /\ Holds(s4, Len(s3), v) /\ Holds(s4, 0, s3)
    BY <2>1, HoldsEnd
  <2> QED  BY <1>3, <1>4, <1>5, <1>12, <2>2
<1>14. s5 \in Seq(Bytes) /\ Len(s5) = d /\ Holds(s5, c, g) /\ Holds(s5, 0, s4)
  <2>1. Joins(s5, s4, g)
    BY <1>1, <1>2, <1>3, <1>13 DEF Joins, s5
  <2>2. s5 \in Seq(Bytes) /\ Len(s5) = Len(s4) + Len(g) /\ Holds(s5, Len(s4), g) /\ Holds(s5, 0, s4)
    BY <2>1, HoldsEnd
  <2> QED  BY <1>3, <1>4, <1>5, <1>13, <2>2
<1>15. s6 \in Seq(Bytes) /\ Len(s6) = d + 2 /\ Holds(s6, d, crlf) /\ Holds(s6, 0, s5)
  <2>1. Joins(s6, s5, crlf)
    BY <1>1, <1>2, <1>3, <1>14 DEF Joins, s6
  <2>2. s6 \in Seq(Bytes) /\ Len(s6) = Len(s5) + Len(crlf) /\ Holds(s6, Len(s5), crlf) /\ Holds(s6, 0, s5)
    BY <2>1, HoldsEnd
  <2> QED  BY <1>3, <1>4, <1>5, <1>14, <2>2
<1>16. s7 \in Seq(Bytes) /\ Len(s7) = d + 2 + l /\ Holds(s7, d + 2, H) /\ Holds(s7, 0, s6)
  <2>1. Joins(s7, s6, H)
    BY <1>1, <1>2, <1>3, <1>15 DEF Joins, s7
  <2>2. s7 \in Seq(Bytes) /\ Len(s7) = Len(s6) + Len(H) /\ Holds(s7, Len(s6), H) /\ Holds(s7, 0, s6)
    BY <2>1, HoldsEnd
  <2> QED  BY <1>3, <1>4, <1>5, <1>15, <2>2
<1>17. s8 \in Seq(Bytes) /\ Len(s8) = d + 2 + l + 2 /\ Holds(s8, d + 2 + l, crlf) /\ Holds(s8, 0, s7)
  <2>1. Joins(s8, s7, crlf)
    BY <1>1, <1>2, <1>3, <1>16 DEF Joins, s8
  <2>2. s8 \in Seq(Bytes) /\ Len(s8) = Len(s7) + Len(crlf) /\ Holds(s8, Len(s7), crlf) /\ Holds(s8, 0, s7)
    BY <2>1, HoldsEnd
  <2> QED  BY <1>3, <1>4, <1>5, <1>16, <2>2
<1>18. s9 \in Seq(Bytes) /\ Len(s9) = d + 2 + l + 2 + Len(rest) /\ Holds(s9, d + 2 + l + 2, rest) /\ Holds(s9, 0, s8)
  <2>1. Joins(s9, s8, rest)
    BY <1>1, <1>2, <1>3, <1>17 DEF Joins, s9
  <2>2. s9 \in Seq(Bytes) /\ Len(s9) = Len(s8) + Len(rest) /\ Holds(s9, Len(s8), rest) /\ Holds(s9, 0, s8)
    BY <2>1, HoldsEnd
  <2> QED  BY <1>3, <1>4, <1>5, <1>17, <2>2
<1>20. /\ Holds(s9, 0, s8) /\ Holds(s9, 0, s7) /\ Holds(s9, 0, s6) /\ Holds(s9, 0, s5)
       /\ Holds(s9, 0, s4) /\ Holds(s9, 0, s3) /\ Holds(s9, 0, s2) /\ Holds(s9, 0, s1)
  <2>0. 0 \in Nat
    OBVIOUS
  <2>8. Holds(s9, 0, s8)
    BY <1>18
  <2>7. Holds(s9, 0, s7)
    BY <1>16, <1>17, <1>18, <2>0, <2>8, HoldsStill
  <2>6. Holds(s9, 0, s6)
    BY <1>15, <1>16, <1>18, <2>0, <2>7, HoldsStill
  <2>5. Holds(s9, 0, s5)
    BY <1>14, <1>15, <1>18, <2>0, <2>6, HoldsStill
  <2>4. Holds(s9, 0, s4)
    BY <1>13, <1>14, <1>18, <2>0, <2>5, HoldsStill
  <2>3. Holds(s9, 0, s3)
    BY <1>12, <1>13, <1>18, <2>0, <2>4, HoldsStill
  <2>2. Holds(s9, 0, s2)
    BY <1>11, <1>12, <1>18, <2>0, <2>3, HoldsStill
  <2>1. Holds(s9, 0, s1)
    BY <1>10, <1>11, <1>18, <2>0, <2>2, HoldsStill
  <2> QED  BY <2>1, <2>2, <2>3, <2>4, <2>5, <2>6, <2>7, <2>8
<1>22. 0 \in Nat /\ a + 1 \in Nat /\ b + 1 \in Nat /\ d + 2 \in Nat /\ d + 2 + l \in Nat
  BY <1>5
<1>23. Holds(s9, 0, m) /\ Holds(s9, a, sp) /\ Holds(s9, a + 1, u)
  <2>1. Holds(s9, 0, m)
    <3>1. 0 \in Nat /\ m \in Seq(Bytes) /\ Holds(s1, 0, m)
      BY <1>1, <1>5, <1>10, <1>22
    <3> QED  BY <3>1, <1>18, <1>20, <1>10, HoldsStill
  <2>2. Holds(s9, a, sp)
    <3>1. a \in Nat /\ sp \in Seq(Bytes) /\ Holds(s1, a, sp)
      BY <1>3, <1>5, <1>10, <1>22
    <3> QED  BY <3>1, <1>18, <1>20, <1>10, HoldsStill
  <2>3. Holds(s9, a + 1, u)
    <3>1. a + 1 \in Nat /\ u \in Seq(Bytes) /\ Holds(s2, a + 1, u)
      BY <1>1, <1>5, <1>11, <1>22
    <3> QED  BY <3>1, <1>18, <1>20, <1>11, HoldsStill
  <2> QED  BY <2>1, <2>2, <2>3
<1>24. Holds(s9, b, sp) /\ Holds(s9, b + 1, v) /\ Holds(s9, c, g)
  <2>1. Holds(s9, b, sp)
    <3>1. b \in Nat /\ sp \in Seq(Bytes) /\ Holds(s3, b, sp)
      BY <1>3, <1>5, <1>12, <1>22
    <3> QED  BY <3>1, <1>18, <1>20, <1>12, HoldsStill
  <2>2. Holds(s9, b + 1, v)
    <3>1. b + 1 \in Nat /\ v \in Seq(Bytes) /\ Holds(s4, b + 1, v)
      BY <1>1, <1>5, <1>13, <1>22
    <3> QED  BY <3>1, <1>18, <1>20, <1>13, HoldsStill
  <2>3. Holds(s9, c, g)
    <3>1. c \in Nat /\ g \in Seq(Bytes) /\ Holds(s5, c, g)
      BY <1>1, <1>5, <1>14, <1>22
    <3> QED  BY <3>1, <1>18, <1>20, <1>14, HoldsStill
  <2> QED  BY <2>1, <2>2, <2>3
<1>25. Holds(s9, d, crlf) /\ Holds(s9, d + 2, H) /\ Holds(s9, d + 2 + l, crlf)
  <2>1. Holds(s9, d, crlf)
    <3>1. d \in Nat /\ crlf \in Seq(Bytes) /\ Holds(s6, d, crlf)
      BY <1>3, <1>5, <1>15, <1>22
    <3> QED  BY <3>1, <1>18, <1>20, <1>15, HoldsStill
  <2>2. Holds(s9, d + 2, H)
    <3>1. d + 2 \in Nat /\ H \in Seq(Bytes) /\ Holds(s7, d + 2, H)
      BY <1>2, <1>5, <1>16, <1>22
    <3> QED  BY <3>1, <1>18, <1>20, <1>16, HoldsStill
  <2>3. Holds(s9, d + 2 + l, crlf)
    <3>1. d + 2 + l \in Nat /\ crlf \in Seq(Bytes) /\ Holds(s8, d + 2 + l, crlf)
      BY <1>3, <1>5, <1>17, <1>22
    <3> QED  BY <3>1, <1>18, <1>20, <1>17, HoldsStill
  <2> QED  BY <2>1, <2>2, <2>3
<1>26. Len(s8) = d + 2 + l + 2 /\ Len(s8) <= Len(s9)
  BY <1>5, <1>17, <1>18
<1> QED  BY <1>2, <1>6, <1>18, <1>23, <1>24, <1>25, <1>26 DEF sp, crlf, m, u, v, g, H, a, b, c, d, l

\* A byte of what stands somewhere
LEMMA HoldsByte ==
  ASSUME NEW A, NEW t, NEW w, w \in Seq(A), NEW a \in Nat, Holds(t, a, w),
         NEW q \in Nat, a <= q, q < a + Len(w)
  PROVE  t[q + 1] \in A /\ (q = a => t[q + 1] = w[1])
<1>1. q - a + 1 \in 1..Len(w) /\ a + (q - a + 1) = q + 1
  OBVIOUS
<1>2. t[q + 1] = w[q - a + 1]
  BY <1>1 DEF Holds
<1>3. w[q - a + 1] \in A
  BY <1>1
<1>4. q = a => q - a + 1 = 1
  OBVIOUS
<1> QED  BY <1>2, <1>3, <1>4

\* The parts of a request line follow each other, and what the bytes of each are.
LEMMA LineBytes ==
  ASSUME NEW r \in Requests
  PROVE  LET t == Encoded(r) \o r.rest
         IN  /\ MethodEnd(r) \in Nat \ {0} /\ UrlEnd(r) \in Nat /\ ProtocolEnd(r) \in Nat /\ GapEnd(r) \in Nat
             /\ MethodEnd(r) < UrlEnd(r) /\ UrlEnd(r) < ProtocolEnd(r) /\ ProtocolEnd(r) <= GapEnd(r)
             /\ \A q \in 0..(MethodEnd(r) - 1) : t[q + 1] \in Upper
             /\ t[MethodEnd(r) + 1] = SP
             /\ \A q \in (MethodEnd(r) + 1)..(UrlEnd(r) - 1) : t[q + 1] # SP
             /\ t[UrlEnd(r) + 1] = SP
             /\ \A q \in (UrlEnd(r) + 1)..(ProtocolEnd(r) - 1) : t[q + 1] \notin {SP, CR}
             /\ \A q \in ProtocolEnd(r)..(GapEnd(r) - 1) : t[q + 1] = SP
             /\ t[GapEnd(r) + 1] = CR /\ t[GapEnd(r) + 2] = LF
<1> DEFINE t == Encoded(r) \o r.rest
           a == MethodEnd(r)   b == UrlEnd(r)   c == ProtocolEnd(r)   d == GapEnd(r)
           m == r.method   u == r.url   v == r.protocol   g == r.gap
<1>1. /\ m \in Seq(Upper) /\ Len(m) \in Nat \ {0} /\ u \in Seq(Bytes \ {SP}) /\ v \in Seq(Bytes \ {SP, CR})
      /\ g \in Seq({SP})
  BY Typed
<1>2. a = Len(m) /\ b = a + 1 + Len(u) /\ c = b + 1 + Len(v) /\ d = c + Len(g)
  BY DEF MethodEnd, UrlEnd, ProtocolEnd, GapEnd
<1>3. /\ Holds(t, 0, m) /\ Holds(t, a, <<SP>>) /\ Holds(t, a + 1, u) /\ Holds(t, b, <<SP>>)
      /\ Holds(t, b + 1, v) /\ Holds(t, c, g) /\ Holds(t, d, <<CR, LF>>)
  BY LineHolds
<1> HIDE DEF t, a, b, c, d, m, u, v, g
<1>4. Len(u) \in Nat /\ Len(v) \in Nat /\ Len(g) \in Nat
  BY <1>1
<1>5. a \in Nat \ {0} /\ b \in Nat /\ c \in Nat /\ d \in Nat /\ a < b /\ b < c /\ c <= d
  BY <1>1, <1>2, <1>4
<1>6. \A q \in 0..(a - 1) : t[q + 1] \in Upper
  <2> TAKE q \in 0..(a - 1)
  <2>1. q \in Nat /\ 0 <= q /\ q < 0 + Len(m) /\ 0 \in Nat
    BY <1>2, <1>5
  <2> QED  BY <1>1, <1>3, <2>1, HoldsByte
<1>7. t[a + 1] = SP /\ t[b + 1] = SP
  <2>1. Len(<<SP>>) = 1 /\ <<SP>>[1] = SP
    OBVIOUS
  <2> QED  BY <1>3, <1>5, <2>1 DEF Holds
<1>8. \A q \in (a + 1)..(b - 1) : t[q + 1] # SP
  <2> TAKE q \in (a + 1)..(b - 1)
  <2>1. q \in Nat /\ a + 1 <= q /\ q < (a + 1) + Len(u) /\ a + 1 \in Nat
    BY <1>2, <1>4, <1>5
  <2>2. t[q + 1] \in Bytes \ {SP}
    BY <1>1, <1>3, <2>1, HoldsByte
  <2> QED  BY <2>2
<1>9. \A q \in (b + 1)..(c - 1) : t[q + 1] \notin {SP, CR}
  <2> TAKE q \in (b + 1)..(c - 1)
  <2>1. q \in Nat /\ b + 1 <= q /\ q < (b + 1) + Len(v) /\ b + 1 \in Nat
    BY <1>2, <1>4, <1>5
  <2>2. t[q + 1] \in Bytes \ {SP, CR}
    BY <1>1, <1>3, <2>1, HoldsByte
  <2> QED  BY <2>2
<1>10. \A q \in c..(d - 1) : t[q + 1] = SP
  <2> TAKE q \in c..(d - 1)
  <2>1. q \in Nat /\ c <= q /\ q < c + Len(g)
    BY <1>2, <1>4, <1>5
  <2>2. t[q + 1] \in {SP}
    BY <1>1, <1>3, <1>5, <2>1, HoldsByte
  <2> QED  BY <2>2
<1>11. t[d + 1] = CR /\ t[d + 2] = LF
  <2>1. Len(<<CR, LF>>) = 2 /\ <<CR, LF>>[1] = CR /\ <<CR, LF>>[2] = LF
    OBVIOUS
  <2> QED  BY <1>3, <1>5, <2>1 DEF Holds
<1> QED  BY <1>5, <1>6, <1>7, <1>8, <1>9, <1>10, <1>11 DEF t, a, b, c, d

\* The parts of a header stand in the request, too.
LEMMA HeaderHolds ==
  ASSUME NEW r \in Requests, NEW i \in 0..(Len(r.headers) - 1)
  PROVE  LET t == Encoded(r) \o r.rest   h == r.headers[i + 1]
         IN  /\ h \in Header /\ h.value[1] # SP
             /\ KeyAt(r, i) \in Nat /\ KeyEnd(r, i) \in Nat /\ ColonAt(r, i) \in Nat
             /\ ValueAt(r, i) \in Nat /\ ValueEnd(r, i) \in Nat
             /\ KeyAt(r, i + 1) = ValueEnd(r, i) + 2
             /\ Holds(t, KeyAt(r, i), h.key) /\ Holds(t, KeyEnd(r, i), h.gap) /\ Holds(t, ColonAt(r, i), <<COLON>>)
             /\ Holds(t, ColonAt(r, i) + 1, h.lead) /\ Holds(t, ValueAt(r, i), h.value)
             /\ Holds(t, ValueEnd(r, i), <<CR, LF>>)
<1> DEFINE t == Encoded(r) \o r.rest   hs == r.headers   L == Len(hs)   h == hs[i + 1]
           code == EncodedHeader(h)   e == EncodedHeaders(hs)   H == e[L]   d == GapEnd(r) + 2
           k == Len(h.key)   g == Len(h.gap)   l == Len(h.lead)   v == Len(h.value)
           n == Len(e[i])
           at == KeyAt(r, i)
<1>1. hs \in Seq(Header) /\ L \in Nat /\ i + 1 \in 1..L /\ i \in 0..L /\ i + 1 \in 0..L
  BY Typed
<1>2. h \in Header /\ h.value[1] # SP
  BY <1>1, Typed
<1>3. /\ e[i] \in Seq(Bytes) /\ Len(e[i + 1]) = n + Len(code) /\ Holds(H, n, code)
  BY <1>1, HeadersHold
<1>4. t \in Seq(Bytes) /\ H \in Seq(Bytes) /\ Holds(t, d, H) /\ d \in Nat
  BY LineHolds, LineBytes
<1>5. /\ code \in Seq(Bytes) /\ Len(code) = k + g + 1 + l + v + 2
      /\ Holds(code, 0, h.key) /\ Holds(code, k, h.gap) /\ Holds(code, k + g, <<COLON>>)
      /\ Holds(code, k + g + 1, h.lead) /\ Holds(code, k + g + 1 + l, h.value)
      /\ Holds(code, k + g + 1 + l + v, <<CR, LF>>)
  BY <1>2, HeaderParts
<1>6. /\ k \in Nat /\ g \in Nat /\ l \in Nat /\ v \in Nat
      /\ h.key \in Seq(Bytes) /\ h.gap \in Seq(Bytes) /\ h.lead \in Seq(Bytes) /\ h.value \in Seq(Bytes)
  <2>1. h.key \in Seq(Bytes) /\ h.gap \in Seq(Bytes) /\ h.lead \in Seq(Bytes) /\ h.value \in Seq(Bytes)
    BY <1>2, HeaderTyped
  <2> HIDE DEF h
  <2> QED  BY <2>1
<1>7. /\ at = d + n /\ KeyEnd(r, i) = at + k /\ ColonAt(r, i) = at + k + g
      /\ ValueAt(r, i) = at + k + g + 1 + l /\ ValueEnd(r, i) = at + k + g + 1 + l + v
      /\ KeyAt(r, i + 1) = d + Len(e[i + 1])
  BY DEF KeyAt, KeyEnd, ColonAt, ValueAt, ValueEnd
<1>8. /\ <<COLON>> \in Seq(Bytes) /\ <<CR, LF>> \in Seq(Bytes)
  BY DEF Bytes
<1>9. Len(t) \in Nat /\ Len(H) \in Nat /\ Len(code) \in Nat /\ n \in Nat
  <2> HIDE DEF t, code, H, e, L, hs, d, k, g, l, v, at, h
  <2>1. Len(t) \in Nat /\ Len(H) \in Nat
    BY <1>4
  <2>2. Len(code) \in Nat
    BY <1>5
  <2>3. n \in Nat
    BY <1>3
  <2> QED  BY <2>1, <2>2, <2>3
<1> HIDE DEF t, hs, L, h, code, e, H, d, k, g, l, v, n, at
<1>10. Holds(t, at, code) /\ at \in Nat
  BY <1>3, <1>4, <1>7, <1>9, HoldsIn
<1>11. \A q \in Nat, w \in Seq(Bytes) : Holds(code, q, w) => Holds(t, at + q, w)
  <2> TAKE q \in Nat, w \in Seq(Bytes)
  <2>1. Len(w) \in Nat
    OBVIOUS
  <2> QED  BY <1>9, <1>10, <2>1, HoldsIn
<1>12. /\ 0 \in Nat /\ k + g \in Nat /\ k + g + 1 \in Nat /\ k + g + 1 + l \in Nat /\ k + g + 1 + l + v \in Nat
  BY <1>6
<1>13. /\ Holds(t, at + 0, h.key) /\ Holds(t, at + k, h.gap) /\ Holds(t, at + (k + g), <<COLON>>)
       /\ Holds(t, at + (k + g + 1), h.lead) /\ Holds(t, at + (k + g + 1 + l), h.value)
       /\ Holds(t, at + (k + g + 1 + l + v), <<CR, LF>>)
  BY <1>5, <1>6, <1>8, <1>11, <1>12
<1>14. /\ at + 0 = at /\ at + (k + g) = ColonAt(r, i) /\ at + (k + g + 1) = ColonAt(r, i) + 1
       /\ at + (k + g + 1 + l) = ValueAt(r, i) /\ at + (k + g + 1 + l + v) = ValueEnd(r, i)
       /\ KeyEnd(r, i) \in Nat /\ ColonAt(r, i) \in Nat /\ ValueAt(r, i) \in Nat /\ ValueEnd(r, i) \in Nat
       /\ KeyAt(r, i + 1) = ValueEnd(r, i) + 2
  <2>1. /\ at \in Nat /\ k \in Nat /\ g \in Nat /\ l \in Nat /\ v \in Nat /\ d \in Nat /\ n \in Nat
    BY <1>4, <1>6, <1>9, <1>10
  <2>2. KeyAt(r, i + 1) = d + (n + (k + g + 1 + l + v + 2)) /\ at = d + n
    BY <1>3, <1>5, <1>7
  <2>3. KeyAt(r, i + 1) = (at + k + g + 1 + l + v) + 2
    BY <2>1, <2>2
  <2>4. /\ at + 0 = at /\ at + (k + g) = at + k + g /\ at + (k + g + 1) = at + k + g + 1
        /\ at + (k + g + 1 + l) = at + k + g + 1 + l /\ at + (k + g + 1 + l + v) = at + k + g + 1 + l + v
        /\ at + k \in Nat /\ at + k + g \in Nat /\ at + k + g + 1 + l \in Nat /\ at + k + g + 1 + l + v \in Nat
    BY <2>1
  <2>5. /\ KeyEnd(r, i) = at + k /\ ColonAt(r, i) = at + k + g
        /\ ValueAt(r, i) = at + k + g + 1 + l /\ ValueEnd(r, i) = at + k + g + 1 + l + v
    BY <1>7
  <2> QED  BY <2>3, <2>4, <2>5
<1>15. Holds(t, at, h.key) /\ Holds(t, KeyEnd(r, i), h.gap) /\ Holds(t, ColonAt(r, i), <<COLON>>)
  BY <1>7, <1>13, <1>14
<1>16. Holds(t, ColonAt(r, i) + 1, h.lead) /\ Holds(t, ValueAt(r, i), h.value) /\ Holds(t, ValueEnd(r, i), <<CR, LF>>)
  BY <1>13, <1>14
<1> QED  BY <1>2, <1>10, <1>14, <1>15, <1>16 DEF t, hs, h, at

\* What the bytes of each part are
LEMMA HeaderBytes ==
  ASSUME NEW r \in Requests, NEW i \in 0..(Len(r.headers) - 1)
  PROVE  LET t == Encoded(r) \o r.rest
         IN  /\ KeyAt(r, i) \in Nat /\ KeyEnd(r, i) \in Nat /\ ColonAt(r, i) \in Nat
             /\ ValueAt(r, i) \in Nat /\ ValueEnd(r, i) \in Nat /\ KeyAt(r, i + 1) = ValueEnd(r, i) + 2
             /\ KeyAt(r, i) < KeyEnd(r, i) /\ KeyEnd(r, i) <= ColonAt(r, i) /\ ColonAt(r, i) < ValueAt(r, i)
             /\ ValueAt(r, i) < ValueEnd(r, i)
             /\ \A q \in KeyAt(r, i)..(KeyEnd(r, i) - 1) : t[q + 1] \notin {SP, COLON, CR, LF}
             /\ \A q \in KeyEnd(r, i)..(ColonAt(r, i) - 1) : t[q + 1] = SP
             /\ t[ColonAt(r, i) + 1] = COLON
             /\ \A q \in (ColonAt(r, i) + 1)..(ValueAt(r, i) - 1) : t[q + 1] = SP
             /\ t[ValueAt(r, i) + 1] # SP
             /\ \A q \in ValueAt(r, i)..(ValueEnd(r, i) - 1) : t[q + 1] \notin {CR, LF}
             /\ t[ValueEnd(r, i) + 1] = CR /\ t[ValueEnd(r, i) + 2] = LF
<1> DEFINE t == Encoded(r) \o r.rest   h == r.headers[i + 1]
           k == Len(h.key)   g == Len(h.gap)   l == Len(h.lead)   v == Len(h.value)
           a == KeyAt(r, i)   b == KeyEnd(r, i)   c == ColonAt(r, i)   d == ValueAt(r, i)   e == ValueEnd(r, i)
<1>1. /\ h \in Header /\ h.value[1] # SP
      /\ a \in Nat /\ b \in Nat /\ c \in Nat /\ d \in Nat /\ e \in Nat /\ KeyAt(r, i + 1) = e + 2
      /\ Holds(t, a, h.key) /\ Holds(t, b, h.gap) /\ Holds(t, c, <<COLON>>)
      /\ Holds(t, c + 1, h.lead) /\ Holds(t, d, h.value) /\ Holds(t, e, <<CR, LF>>)
  BY HeaderHolds
<1>2. b = a + k /\ c = b + g /\ d = c + 1 + l /\ e = d + v
  BY DEF KeyEnd, ColonAt, ValueAt, ValueEnd
<1> HIDE DEF t, h, a, b, c, d, e
<1>3. /\ h.key \in Seq(Upper \cup Other) /\ h.gap \in Seq({SP}) /\ h.lead \in Seq({SP})
      /\ h.value \in Seq(Bytes \ {CR, LF}) /\ Len(h.key) \in Nat \ {0} /\ Len(h.value) \in Nat \ {0}
  BY <1>1, HeaderTyped
<1>4. /\ k \in Nat /\ g \in Nat /\ l \in Nat /\ v \in Nat /\ k >= 1 /\ v >= 1
  BY <1>3
<1>40. /\ k = Len(h.key) /\ g = Len(h.gap) /\ l = Len(h.lead) /\ v = Len(h.value)
  OBVIOUS
<1> HIDE DEF k, g, l, v
<1>0. /\ a \in Nat /\ b \in Nat /\ c \in Nat /\ d \in Nat /\ e \in Nat
  BY <1>1
<1>5. a < b /\ b <= c /\ c < d /\ d < e
  BY <1>0, <1>2, <1>4
<1>6. \A q \in a..(b - 1) : t[q + 1] \notin {SP, COLON, CR, LF}
  <2> TAKE q \in a..(b - 1)
  <2>1. q \in Nat /\ a <= q /\ q < a + k
    BY <1>0, <1>2, <1>4
  <2>2. t[q + 1] \in Upper \cup Other
    BY <1>1, <1>3, <1>40, <2>1, HoldsByte
  <2> QED  BY <2>2, BytesAssumption
<1>7. \A q \in b..(c - 1) : t[q + 1] = SP
  <2> TAKE q \in b..(c - 1)
  <2>1. q \in Nat /\ b <= q /\ q < b + g
    BY <1>0, <1>2, <1>4
  <2>2. t[q + 1] \in {SP}
    BY <1>1, <1>3, <1>40, <2>1, HoldsByte
  <2> QED  BY <2>2
<1>8. t[c + 1] = COLON
  <2>1. Len(<<COLON>>) = 1 /\ <<COLON>>[1] = COLON
    OBVIOUS
  <2> QED  BY <1>1, <2>1 DEF Holds
<1>9. \A q \in (c + 1)..(d - 1) : t[q + 1] = SP
  <2> TAKE q \in (c + 1)..(d - 1)
  <2>1. q \in Nat /\ c + 1 <= q /\ q < (c + 1) + l /\ c + 1 \in Nat
    BY <1>0, <1>2, <1>4
  <2>2. t[q + 1] \in {SP}
    BY <1>1, <1>3, <1>40, <2>1, HoldsByte
  <2> QED  BY <2>2
<1>10. \A q \in d..(e - 1) : t[q + 1] \notin {CR, LF} /\ (q = d => t[q + 1] # SP)
  <2> TAKE q \in d..(e - 1)
  <2>1. q \in Nat /\ d <= q /\ q < d + v
    BY <1>0, <1>2, <1>4
  <2>2. t[q + 1] \in Bytes \ {CR, LF} /\ (q = d => t[q + 1] = h.value[1])
    <3> DEFINE w == h.value   A == Bytes \ {CR, LF}
    <3>1. Holds(t, d, w) /\ w \in Seq(A) /\ w[1] = h.value[1]
      BY <1>1, <1>3
    <3>2. q < d + Len(w)
      BY <1>40, <2>1
    <3> HIDE DEF w, A
    <3>3. t[q + 1] \in A /\ (q = d => t[q + 1] = w[1])
      BY <1>0, <2>1, <3>1, <3>2, HoldsByte
    <3> QED  BY <3>1, <3>3 DEF A
  <2> QED  BY <1>1, <2>2
<1>11. t[d + 1] # SP
  BY <1>1, <1>5, <1>10
<1>12. t[e + 1] = CR /\ t[e + 2] = LF
  <2>1. Len(<<CR, LF>>) = 2 /\ <<CR, LF>>[1] = CR /\ <<CR, LF>>[2] = LF
    OBVIOUS
  <2> QED  BY <1>1, <2>1 DEF Holds
<1> QED  BY <1>1, <1>5, <1>6, <1>7, <1>8, <1>9, <1>10, <1>11, <1>12 DEF t, a, b, c, d, e

\* The empty line stands behind the last header.
LEMMA EndBytes ==
  ASSUME NEW r \in Requests
  PROVE  LET t == Encoded(r) \o r.rest   L == Len(r.headers)
         IN  /\ L \in Nat \ {0} /\ KeyAt(r, 0) = GapEnd(r) + 2 /\ KeyAt(r, L) \in Nat
             /\ t[KeyAt(r, L) + 1] = CR /\ t[KeyAt(r, L) + 2] = LF
             /\ Len(Encoded(r)) = KeyAt(r, L) + 2 /\ Len(Encoded(r)) <= Len(t) /\ t \in Seq(Bytes)
<1> DEFINE t == Encoded(r) \o r.rest   hs == r.headers   L == Len(hs)   e == EncodedHeaders(hs)
           H == e[L]   d == GapEnd(r)   at == KeyAt(r, L)
<1>1. hs \in Seq(Header) /\ L \in Nat \ {0} /\ 0 \in 0..L
  BY Typed
<1>2. e[0] = <<>>
  BY <1>1, HeadersHold
<1>3. /\ t \in Seq(Bytes) /\ H \in Seq(Bytes) /\ Holds(t, d + 2 + Len(H), <<CR, LF>>)
      /\ Len(Encoded(r)) = d + 2 + Len(H) + 2 /\ Len(Encoded(r)) <= Len(t)
  BY LineHolds
<1>4. at = d + 2 + Len(H) /\ KeyAt(r, 0) = d + 2 + Len(e[0])
  BY DEF KeyAt
<1>5. d \in Nat
  BY LineBytes
<1> HIDE DEF t, hs, L, e, H, d, at
<1>6. Len(H) \in Nat /\ Len(e[0]) = 0
  BY <1>2, <1>3
<1>7. at \in Nat /\ KeyAt(r, 0) = d + 2 /\ Len(Encoded(r)) = at + 2
  BY <1>3, <1>4, <1>5, <1>6
<1>8. Holds(t, at, <<CR, LF>>)
  BY <1>3, <1>4
<1>9. t[at + 1] = CR /\ t[at + 2] = LF
  <2>1. Len(<<CR, LF>>) = 2 /\ <<CR, LF>>[1] = CR /\ <<CR, LF>>[2] = LF
    OBVIOUS
  <2> QED  BY <1>7, <1>8, <2>1 DEF Holds
<1> QED  BY <1>1, <1>3, <1>7, <1>9 DEF t, hs, L, d, at

-----------------------------------------------------------------------------
(* The marks are in order *)

\* Where the current header begins at the earliest.
Lo == IF list = <<>> THEN line.protocol_end ELSE list[1].value_end

LinePart ==
  /\ st = "method" => line.method_start \in 0..(p - 1)
  /\ st \in {"url", "protocol"} =>
       /\ line.method_start \in Nat /\ line.method_end \in 0..(p - 1)
       /\ line.method_start < line.method_end /\ line.url_start = line.method_end
  /\ st = "protocol" =>
       /\ line.url_end \in 0..(p - 1) /\ line.url_start < line.url_end
       /\ line.protocol_start = line.url_end
  /\ st \in {"space_end", "CR_end"} \cup HeadStates =>
       LineInOrder /\ line.protocol_end < p

CurPart ==
  /\ st = "key" => cur.key_start \in 0..(p - 1) /\ Lo < cur.key_start
  /\ st \in {"spaces_before_colon", "spaces_after_colon", "value", "cr"} =>
       /\ cur.key_start \in Nat /\ Lo < cur.key_start
       /\ cur.key_end \in 0..(p - 1) /\ cur.key_start < cur.key_end
  /\ st \in {"value", "cr"} => cur.value_start \in 0..(p - 1) /\ cur.key_end < cur.value_start
  /\ st = "cr" => cur.value_end \in 0..(p - 1) /\ cur.value_start < cur.value_end

ListPart ==
  /\ st \in LineStates => list = <<>>
  /\ \A i \in 1..Len(list) :
       HeaderInOrder(list[i],
                     IF i = Len(list) THEN line.protocol_end ELSE list[i + 1].value_end,
                     IF i = 1 THEN p ELSE list[i - 1].key_start)

ControlPart ==
  /\ pc = "read" => p = pos /\ st = state
  /\ state \in HeadStates \/ pc \in {"header", "parsed"} => st \in HeadStates

IInv == TypeOK /\ LinePart /\ CurPart /\ ListPart /\ ControlPart

-----------------------------------------------------------------------------
\* Before the first byte no mark is set.
LEMMA InitInv == Init => IInv
<1> SUFFICES ASSUME Init PROVE IInv
  OBVIOUS
<1>1. input \in Seq(Bytes)
  <2>1. CASE \E r \in Requests : sent = r /\ input = Encoded(r) \o r.rest
    BY <2>1, EndBytes
  <2>2. CASE input \in Inputs
    BY <2>2, BytesAssumption
  <2> QED  BY <2>1, <2>2 DEF Init
<1>2. TypeOK
  BY <1>1, BytesAssumption
     DEF Init, TypeOK, LineStates, HeadStates, LineMarks, HeaderMarks, Mark
<1>3. LinePart /\ CurPart /\ ListPart /\ ControlPart
  BY DEF Init, LinePart, CurPart, ListPart, ControlPart, LineStates, HeadStates
<1> QED BY <1>2, <1>3 DEF IInv

\* What every action that leaves the marks alone and does not go back has to
\* show of the position and the parsers' states.
LEMMA ControlInv ==
  ASSUME IInv, Read \/ ReadNothing \/ Again \/ SkipLine
  PROVE  IInv'
<1> USE DEF IInv
<1>1. input' = input /\ line' = line /\ cur' = cur /\ list' = list
  BY DEF Read, ReadNothing, Again, SkipLine, reqVars
<1>2. TypeOK'
  BY <1>1 DEF Read, ReadNothing, Again, SkipLine, Saved, AfterSkip, TypeOK, ControlPart, reqVars
<1>3. p' = p /\ st' = st
  BY DEF Read, ReadNothing, Again, SkipLine, ControlPart, reqVars
<1>4. LinePart' /\ CurPart'
  BY <1>1, <1>3 DEF LinePart, CurPart, LineInOrder, Lo
<1>5. ListPart'
  BY <1>1, <1>3 DEF ListPart, HeaderInOrder
<1>6. ControlPart'
  BY <1>3 DEF Read, ReadNothing, Again, SkipLine, Saved, AfterSkip, TypeOK, ControlPart, reqVars
<1> QED BY <1>2, <1>4, <1>5, <1>6

\* A byte that is refused closes the connection and sets no mark.
LEMMA FailsInv ==
  ASSUME IInv, Fails
  PROVE  IInv'
<1> USE DEF IInv
<1>1. pc' = "closed" /\ UNCHANGED <<input, sent, reqVars, p, st>>
  BY DEF Fails
<1>2. TypeOK'
  BY <1>1 DEF TypeOK, reqVars
<1>3. LinePart' /\ CurPart'
  BY <1>1 DEF LinePart, CurPart, LineInOrder, Lo, reqVars
<1>4. ListPart'
  BY <1>1 DEF ListPart, HeaderInOrder, reqVars
<1>5. ControlPart'
  BY <1>1 DEF ControlPart, reqVars
<1> QED BY <1>2, <1>3, <1>4, <1>5

\* The types after a step that goes on, given the types of the marks.
LEMMA GoesTypes ==
  ASSUME IInv, NEW s \in LineStates \cup HeadStates, Goes(s), p < last,
         pc = "header" => s \in HeadStates,
         line' \in LineMarks, cur' \in HeaderMarks, list' \in Seq(HeaderMarks)
  PROVE  TypeOK'
BY DEF IInv, TypeOK, Goes

\* The bytes of a position that is marked.
LEMMA PositionIsNat ==
  ASSUME IInv
  PROVE  p \in Nat /\ p \in Mark /\ NULL \notin Nat
BY BytesAssumption DEF IInv, TypeOK, Mark

\* A byte of the request line: the marks set so far stay in order.
LEMMA LineGoesInv ==
  ASSUME IInv, LineStart \/ Method \/ Url \/ Protocol \/ SpaceEnd, pc' # "closed"
  PROVE  IInv'
<1> USE DEF IInv
<1>1. /\ pc = "line" /\ pc' = "line" /\ p' = p + 1 /\ p < last
      /\ st \in LineStates /\ st' \in LineStates
      /\ cur' = cur /\ list' = list /\ state' = state /\ pos' = pos
  BY DEF LineStart, Method, Url, Protocol, SpaceEnd, In, Goes, Fails, LineStates
<1>2. p \in Nat /\ p \in Mark /\ NULL \notin Nat /\ line \in LineMarks
  BY PositionIsNat DEF TypeOK
<1>3. line' \in LineMarks
  BY <1>2 DEF LineStart, Method, Url, Protocol, SpaceEnd, Goes, Fails, LineMarks
<1>4. TypeOK'
  <2>1. Goes(st')
    BY <1>1 DEF LineStart, Method, Url, Protocol, SpaceEnd, In, Goes, Fails
  <2> QED BY <1>1, <1>3, <2>1 DEF TypeOK, Goes, HeadStates
<1>5. LinePart'
  <2>1. CASE LineStart
    BY <1>1, <1>2, <2>1 DEF LinePart, LineInOrder, LineStart, In, Goes, Fails, HeadStates, LineMarks, Mark
  <2>2. CASE Method
    <3>1. st = "method" /\ line.method_start \in 0..(p - 1)
      BY <2>2 DEF LinePart, Method, In
    <3>2. CASE ch = SP
      <4>1. st' = "url" /\ line' = [line EXCEPT !.method_end = p, !.url_start = p]
        BY <1>1, <2>2, <3>2, BytesAssumption DEF Method, Goes, Fails
      <4>2. /\ line'.method_start = line.method_start
            /\ line'.method_end = p /\ line'.url_start = p
        BY <1>2, <4>1 DEF LineMarks
      <4> QED BY <1>1, <1>2, <3>1, <4>1, <4>2 DEF LinePart, HeadStates
    <3>3. CASE ch # SP
      <4>1. st' = "method" /\ line' = line
        BY <1>1, <2>2, <3>3 DEF Method, Goes, Fails
      <4> QED BY <1>1, <1>2, <3>1, <4>1 DEF LinePart, HeadStates
    <3> QED BY <3>2, <3>3
  <2>3. CASE Url
    <3>1. /\ st = "url" /\ line.method_start \in Nat /\ line.method_end \in 0..(p - 1)
          /\ line.method_start < line.method_end /\ line.url_start = line.method_end
      BY <2>3 DEF LinePart, Url, In
    <3>2. CASE ch = SP
      <4>1. st' = "protocol" /\ line' = [line EXCEPT !.url_end = p, !.protocol_start = p]
        BY <1>1, <2>3, <3>2, BytesAssumption DEF Url, Goes, Fails
      <4>2. /\ line'.method_start = line.method_start /\ line'.method_end = line.method_end
            /\ line'.url_start = line.url_start /\ line'.url_end = p /\ line'.protocol_start = p
        BY <1>2, <4>1 DEF LineMarks
      <4> QED BY <1>1, <1>2, <3>1, <4>1, <4>2 DEF LinePart, HeadStates
    <3>3. CASE ch # SP
      <4>1. st' = "url" /\ line' = line
        BY <1>1, <2>3, <3>3 DEF Url, Goes, Fails
      <4> QED BY <1>1, <1>2, <3>1, <4>1 DEF LinePart, HeadStates
    <3> QED BY <3>2, <3>3
  <2>4. CASE Protocol
    BY <1>1, <1>2, <2>4 DEF LinePart, LineInOrder, Protocol, In, Goes, Fails, HeadStates, LineMarks, Mark
  <2>5. CASE SpaceEnd
    BY <1>1, <1>2, <2>5 DEF LinePart, LineInOrder, SpaceEnd, In, Goes, Fails, HeadStates, LineMarks, Mark
  <2> QED BY <2>1, <2>2, <2>3, <2>4, <2>5
<1>6. CurPart'
  BY <1>1 DEF CurPart, LineStates
<1>7. ListPart'
  BY <1>1 DEF ListPart
<1>8. ControlPart'
  BY <1>1 DEF ControlPart, LineStates, HeadStates
<1> QED BY <1>4, <1>5, <1>6, <1>7, <1>8

\* The end of the request line: the headers begin behind it.
LEMMA CREndInv ==
  ASSUME IInv, CREnd, pc' # "closed"
  PROVE  IInv'
<1> USE DEF IInv
<1>1. /\ st = "CR_end" /\ p < last /\ p' = p + 1 /\ pos' = p + 1 /\ pc' = "header"
      /\ st' = "head_start" /\ state' = "head_start"
      /\ UNCHANGED <<input, last, line, cur, list>>
  BY DEF CREnd, AfterLine, In, Done, Fails
<1>2. TypeOK'
  BY <1>1 DEF TypeOK, HeadStates
<1>3. list = <<>>
  BY <1>1 DEF ListPart, LineStates
<1>4. LinePart'
  BY <1>1 DEF LinePart, LineInOrder, TypeOK, LineMarks, Mark
<1>5. CurPart' /\ ListPart' /\ ControlPart'
  BY <1>1, <1>3 DEF CurPart, ListPart, ControlPart, LineStates, HeadStates
<1> QED BY <1>2, <1>4, <1>5

-----------------------------------------------------------------------------
(* The header parser *)

\* A header step that goes on without touching the list keeps it in order.
LEMMA SameList ==
  ASSUME IInv, p' = p + 1, line' = line, list' = list, st' \in HeadStates
  PROVE  ListPart'
<1>1. p \in Nat /\ list \in Seq(HeaderMarks) /\ Len(list) \in Nat
  BY DEF IInv, TypeOK
<1>2. \A i \in 1..Len(list) : list[i].value_end \in Mark
  <2>1. \A h \in HeaderMarks : h.value_end \in Mark
    BY DEF HeaderMarks
  <2> QED BY <1>1, <2>1
<1>3. \A i \in 1..Len(list) :
        HeaderInOrder(list[i],
                      IF i = Len(list) THEN line.protocol_end ELSE list[i + 1].value_end,
                      IF i = 1 THEN p ELSE list[i - 1].key_start)
  BY DEF IInv, ListPart
<1>4. \A i \in 1..Len(list) :
        HeaderInOrder(list[i],
                      IF i = Len(list) THEN line.protocol_end ELSE list[i + 1].value_end,
                      IF i = 1 THEN p + 1 ELSE list[i - 1].key_start)
  BY <1>1, <1>2, <1>3 DEF HeaderInOrder, Mark
<1>5. st' \notin LineStates
  BY DEF LineStates, HeadStates
<1> QED BY <1>4, <1>5 DEF ListPart

\* The bytes saved so far lie before the one to be looked at.
LEMMA LoIs ==
  ASSUME IInv, st \in HeadStates
  PROVE  Lo \in Nat /\ Lo < p
<1>1. CASE list = <<>>
  BY <1>1, BytesAssumption DEF IInv, Lo, LinePart, LineInOrder, TypeOK, LineMarks, Mark
<1>2. CASE list # <<>>
  <2>1. list \in Seq(HeaderMarks) /\ 1 \in 1..Len(list)
    BY <1>2 DEF IInv, TypeOK
  <2>2. list[1].value_end \in Mark
    <3>1. \A h \in HeaderMarks : h.value_end \in Mark
      BY DEF HeaderMarks
    <3> QED BY <2>1, <3>1
  <2>3. list[1].value_end # NULL /\ list[1].value_end < p
    BY <2>1 DEF IInv, ListPart, HeaderInOrder
  <2> QED BY <1>2, <2>2, <2>3 DEF Lo, Mark
<1> QED BY <1>1, <1>2

\* A byte of a header: its marks stay in order, and behind the header before.
LEMMA HeaderGoesInv ==
  ASSUME IInv, pc' # "closed",
         HeadStart \/ InKey \/ SpacesBeforeColon \/ SpacesAfterColon \/ Value \/ Crlf
  PROVE  IInv'
<1> USE DEF IInv
<1>1. /\ pc = "header" /\ pc' = "header" /\ p' = p + 1 /\ p < last
      /\ st \in HeadStates /\ st' \in HeadStates
      /\ line' = line /\ list' = list /\ state' = state /\ Goes(st')
  BY DEF HeadStart, InKey, SpacesBeforeColon, SpacesAfterColon, Value, Crlf, In, Goes, Fails, HeadStates
<1>2. p \in Nat /\ p \in Mark /\ NULL \notin Nat /\ cur \in HeaderMarks
  BY PositionIsNat DEF TypeOK
<1>3. Lo \in Nat /\ Lo < p /\ Lo' = Lo
  BY <1>1, LoIs DEF Lo
<1>4. cur' \in HeaderMarks
  BY <1>2 DEF HeadStart, InKey, SpacesBeforeColon, SpacesAfterColon, Value, Crlf, EndOfValue,
              Goes, Fails, HeaderMarks
<1>5. TypeOK'
  BY <1>1, <1>4, GoesTypes DEF TypeOK
<1>6. LinePart'
  BY <1>1, <1>2 DEF LinePart, LineInOrder, HeadStates, TypeOK, LineMarks, Mark
<1>7. CurPart'
  <2>1. CASE HeadStart
    BY <1>1, <1>2, <1>3, <2>1 DEF CurPart, HeadStart, In, Goes, Fails, HeaderMarks
  <2>2. CASE InKey
    BY <1>1, <1>2, <1>3, <2>2 DEF CurPart, InKey, In, Goes, Fails, HeaderMarks
  <2>3. CASE SpacesBeforeColon
    BY <1>1, <1>2, <1>3, <2>3 DEF CurPart, SpacesBeforeColon, In, Goes, Fails, HeaderMarks
  <2>4. CASE SpacesAfterColon
    BY <1>1, <1>2, <1>3, <2>4 DEF CurPart, SpacesAfterColon, In, Goes, Fails, HeaderMarks
  <2>5. CASE Value
    BY <1>1, <1>2, <1>3, <2>5 DEF CurPart, Value, EndOfValue, In, Goes, Fails, HeaderMarks
  <2>6. CASE Crlf
    BY <1>1, <1>2, <1>3, <2>6 DEF CurPart, Crlf, In, Goes, Fails, HeaderMarks
  <2> QED BY <2>1, <2>2, <2>3, <2>4, <2>5, <2>6
<1>8. ListPart'
  BY <1>1, SameList
<1>9. ControlPart'
  BY <1>1 DEF ControlPart
<1> QED BY <1>5, <1>6, <1>7, <1>8, <1>9

\* The header that is saved goes in front of the list.
LEMMA CrInv ==
  ASSUME IInv, Cr, pc' # "closed"
  PROVE  IInv'
<1> USE DEF IInv
<1>1. /\ st = "cr" /\ st' = "crlf" /\ pc = "header" /\ pc' = "header" /\ p' = p + 1 /\ p < last
      /\ list' = <<cur>> \o list /\ line' = line /\ cur' = cur /\ state' = state
      /\ Goes("crlf")
  BY DEF Cr, In, Goes, Fails
<1>2. p \in Nat /\ NULL \notin Nat /\ cur \in HeaderMarks /\ list \in Seq(HeaderMarks)
  BY PositionIsNat DEF TypeOK
<1>3. /\ list' \in Seq(HeaderMarks) /\ Len(list) \in Nat /\ Len(list') = Len(list) + 1
      /\ list'[1] = cur /\ \A i \in 1..Len(list) : list'[i + 1] = list[i]
  BY <1>1, <1>2
<1>4. TypeOK'
  BY <1>1, <1>2, <1>3, GoesTypes DEF TypeOK, HeadStates
<1>5. /\ cur.key_start \in Nat /\ cur.key_end \in Nat /\ cur.value_start \in Nat
      /\ cur.value_end \in 0..(p - 1) /\ Lo < cur.key_start
      /\ cur.key_start < cur.key_end /\ cur.key_end < cur.value_start
      /\ cur.value_start < cur.value_end
  BY <1>1, <1>2 DEF CurPart
<1>6. LinePart'
  BY <1>1, <1>2 DEF LinePart, LineInOrder, HeadStates, TypeOK, LineMarks, Mark
<1>7. CurPart'
  BY <1>1 DEF CurPart
<1>8. ListPart'
  <2>1. SUFFICES ASSUME NEW i \in 1..(Len(list) + 1)
                 PROVE  HeaderInOrder(list'[i],
                          IF i = Len(list) + 1 THEN line.protocol_end ELSE list'[i + 1].value_end,
                          IF i = 1 THEN p + 1 ELSE list'[i - 1].key_start)
    BY <1>1, <1>3 DEF ListPart, LineStates
  <2>2. CASE i = 1
    <3>1. (IF i = Len(list) + 1 THEN line.protocol_end ELSE list'[i + 1].value_end) = Lo
      BY <1>3, <2>2 DEF Lo
    <3> QED BY <1>2, <1>3, <1>5, <2>2, <3>1 DEF HeaderInOrder
  <2>3. CASE i # 1
    <3> DEFINE k == i - 1
    <3>1. k \in 1..Len(list) /\ k + 1 = i
      BY <1>3, <2>3
    <3>2. HeaderInOrder(list[k],
            IF k = Len(list) THEN line.protocol_end ELSE list[k + 1].value_end,
            IF k = 1 THEN p ELSE list[k - 1].key_start)
      BY <3>1 DEF ListPart
    <3>3. list'[i] = list[k] /\ (k # Len(list) => list'[i + 1] = list[k + 1])
      BY <1>3, <3>1
    <3>4. k # 1 => list'[i - 1] = list[k - 1]
      <4>1. k # 1 => k - 1 \in 1..Len(list) /\ (k - 1) + 1 = i - 1
        BY <1>3, <3>1
      <4> QED BY <1>3, <4>1
    <3>5. CASE k = 1
      <4>1. list[1].value_end < cur.key_start
        BY <1>3, <1>5, <3>1 DEF Lo
      <4>2. HeaderInOrder(list[k],
              IF k = Len(list) THEN line.protocol_end ELSE list[k + 1].value_end, cur.key_start)
        BY <3>2, <3>5, <4>1 DEF HeaderInOrder
      <4> QED BY <1>3, <3>1, <3>3, <3>5, <4>2
    <3>6. CASE k # 1
      BY <1>3, <3>1, <3>2, <3>3, <3>4, <3>6
    <3> QED BY <3>5, <3>6
  <2> QED BY <2>2, <2>3
<1>9. ControlPart'
  BY <1>1 DEF ControlPart, HeadStates
<1> QED BY <1>4, <1>6, <1>7, <1>8, <1>9

\* The empty line: the request is parsed.
LEMMA CrlfCrInv ==
  ASSUME IInv, CrlfCr, pc' # "closed"
  PROVE  IInv'
<1> USE DEF IInv
<1>1. /\ st = "crlfcr" /\ p < last /\ p' = p + 1 /\ pos' = p + 1 /\ pc' = "parsed"
      /\ st' = "head_start" /\ state' = "head_start"
      /\ UNCHANGED <<input, last, line, cur, list>>
  BY DEF CrlfCr, In, Done, Fails
<1>2. TypeOK'
  BY <1>1 DEF TypeOK, HeadStates
<1>3. LinePart'
  BY <1>1, BytesAssumption DEF LinePart, LineInOrder, TypeOK, LineMarks, Mark, HeadStates
<1>4. CurPart' /\ ControlPart'
  BY <1>1 DEF CurPart, ControlPart, HeadStates
<1>5. ListPart'
  BY <1>1, SameList DEF HeadStates
<1> QED BY <1>2, <1>3, <1>4, <1>5

\* Every byte, read and new request keeps the invariant.
LEMMA NextInv == IInv /\ [Next]_vars => IInv'
<1> SUFFICES ASSUME IInv, [Next]_vars PROVE IInv'
  OBVIOUS
<1>1. CASE Read \/ ReadNothing \/ Again \/ SkipLine
  BY <1>1, ControlInv
<1>2. CASE (http_parse_request_line \/ http_parse_request_header) /\ pc' = "closed"
  <2>1. Fails \/ SkipLine
    BY <1>2 DEF http_parse_request_line, http_parse_request_header, LineStart, Method, Url, Protocol,
         SpaceEnd, CREnd, HeadStart, InKey, SpacesBeforeColon, SpacesAfterColon, Value, Cr, Crlf,
         CrlfCr, In, Goes, Done
  <2> QED BY <2>1, FailsInv, ControlInv
<1>3. CASE http_parse_request_line /\ pc' # "closed"
  BY <1>3, ControlInv, LineGoesInv, CREndInv DEF http_parse_request_line
<1>4. CASE http_parse_request_header /\ pc' # "closed"
  BY <1>4, HeaderGoesInv, CrInv, CrlfCrInv DEF http_parse_request_header
<1>5. CASE UNCHANGED vars
  <2>1. UNCHANGED <<input, sent, reqVars, pc, p, st>>
    BY <1>5 DEF vars
  <2>2. TypeOK'
    BY <2>1 DEF IInv, TypeOK, reqVars
  <2>3. LinePart' /\ CurPart'
    BY <2>1 DEF IInv, LinePart, CurPart, LineInOrder, Lo, reqVars
  <2>4. ListPart' /\ ControlPart'
    BY <2>1 DEF IInv, ListPart, HeaderInOrder, ControlPart, reqVars
  <2> QED BY <2>2, <2>3, <2>4 DEF IInv
<1> QED BY <1>1, <1>2, <1>3, <1>4, <1>5 DEF Next

\* For every byte sequence, cut into reads in any way, dorequest finds the parts
\* of the request line and of every saved header in order in its buffer.
THEOREM MarksInOrder == Spec => [](TypeOK /\ SpansInOrder)
<1>1. IInv => TypeOK /\ SpansInOrder
  <2>1. SUFFICES ASSUME IInv PROVE TypeOK /\ SpansInOrder
    OBVIOUS
  <2>2. state \in HeadStates \/ pc \in {"header", "parsed"} => LineInOrder
    BY <2>1 DEF IInv, ControlPart, LinePart
  <2> QED BY <2>1, <2>2 DEF IInv, SpansInOrder, ListPart
<1> QED BY InitInv, NextInv, <1>1, PTL DEF Spec

-----------------------------------------------------------------------------
(* The places of a request in good form *)

\* The request line of r: where the parser is in each state,
LinePlaced(r) ==
  /\ st = "line_start" => p = 0
  /\ st = "method" => p \in 1..MethodEnd(r)
  /\ st = "url" => p \in (MethodEnd(r) + 1)..UrlEnd(r)
  /\ st = "protocol" => p \in (UrlEnd(r) + 1)..ProtocolEnd(r)
  /\ st = "space_end" => p \in (ProtocolEnd(r) + 1)..GapEnd(r)
  /\ st = "CR_end" => p = GapEnd(r) + 1

\* and what it has marked.
LineMarked(r) ==
  /\ st # "line_start" => line.method_start = 0
  /\ st \notin {"line_start", "method"} =>
       line.method_end = MethodEnd(r) /\ line.url_start = MethodEnd(r)
  /\ st \notin {"line_start", "method", "url"} =>
       line.url_end = UrlEnd(r) /\ line.protocol_start = UrlEnd(r)
  /\ st \notin {"line_start", "method", "url", "protocol"} => line.protocol_end = ProtocolEnd(r)

\* The headers of r: as many as are saved are behind the parser, which is in
\* the next one or behind the last,
HeaderPlaced(r) ==
  LET i == Len(list)
  IN  /\ i <= Len(r.headers)
      /\ st = "head_start" /\ pc # "parsed" => i = 0 /\ p = KeyAt(r, i)
      /\ st \in {"key", "spaces_before_colon", "spaces_after_colon", "value", "cr"} => i < Len(r.headers)
      /\ st = "key" => p \in (KeyAt(r, i) + 1)..KeyEnd(r, i)
      /\ st = "spaces_before_colon" => p \in (KeyEnd(r, i) + 1)..ColonAt(r, i)
      /\ st = "spaces_after_colon" => p \in (ColonAt(r, i) + 1)..ValueAt(r, i)
      /\ st = "value" => p \in (ValueAt(r, i) + 1)..ValueEnd(r, i)
      /\ st = "cr" => p = ValueEnd(r, i) + 1
      /\ st = "crlf" => i # 0 /\ p = KeyAt(r, i)
      /\ st = "crlfcr" => i = Len(r.headers) /\ p = KeyAt(r, i) + 1
      /\ pc = "parsed" => i = Len(r.headers) /\ pos = KeyAt(r, i) + 2

\* what is marked of that one,
CurMarked(r) ==
  LET i == Len(list)
  IN  /\ st \in {"key", "spaces_before_colon", "spaces_after_colon", "value", "cr"} =>
           cur.key_start = KeyAt(r, i)
      /\ st \in {"spaces_before_colon", "spaces_after_colon", "value", "cr"} =>
           cur.key_end = KeyEnd(r, i)
      /\ st \in {"value", "cr"} => cur.value_start = ValueAt(r, i)
      /\ st = "cr" => cur.value_end = ValueEnd(r, i)

\* and the marks of those that are saved.
Marks(h, r, i) ==
  /\ h.key_start = KeyAt(r, i) /\ h.key_end = KeyEnd(r, i)
  /\ h.value_start = ValueAt(r, i) /\ h.value_end = ValueEnd(r, i)

ListMarked(r) == \A j \in 1..Len(list) : Marks(list[j], r, Len(list) - j)

At(r) == LinePlaced(r) /\ LineMarked(r) /\ HeaderPlaced(r) /\ CurMarked(r) /\ ListMarked(r)

\* The client sends r.
Sends(r) == r \in Requests /\ r # NULL /\ sent = r /\ input = Encoded(r) \o r.rest

Placed ==
  /\ sent # NULL => \E r \in Requests : Sends(r)
  /\ \A r \in Requests : Sends(r) => At(r)

\* What the parser reads in the request line of r,
LEMMA LineRead ==
  ASSUME NEW r, Sends(r)
  PROVE  /\ MethodEnd(r) \in Nat \ {0} /\ UrlEnd(r) \in Nat /\ ProtocolEnd(r) \in Nat /\ GapEnd(r) \in Nat
         /\ MethodEnd(r) < UrlEnd(r) /\ UrlEnd(r) < ProtocolEnd(r) /\ ProtocolEnd(r) <= GapEnd(r)
         /\ \A q \in 0..(MethodEnd(r) - 1) : input[q + 1] \in Upper
         /\ input[MethodEnd(r) + 1] = SP
         /\ \A q \in (MethodEnd(r) + 1)..(UrlEnd(r) - 1) : input[q + 1] # SP
         /\ input[UrlEnd(r) + 1] = SP
         /\ \A q \in (UrlEnd(r) + 1)..(ProtocolEnd(r) - 1) : input[q + 1] \notin {SP, CR}
         /\ \A q \in ProtocolEnd(r)..(GapEnd(r) - 1) : input[q + 1] = SP
         /\ input[GapEnd(r) + 1] = CR /\ input[GapEnd(r) + 2] = LF
<1>1. r \in Requests /\ input = Encoded(r) \o r.rest
  BY DEF Sends
<1> QED  BY <1>1, LineBytes

\* in header i + 1 of r,
LEMMA HeaderRead ==
  ASSUME NEW r, Sends(r), NEW i \in 0..(Len(r.headers) - 1)
  PROVE  /\ KeyAt(r, i) \in Nat /\ KeyEnd(r, i) \in Nat /\ ColonAt(r, i) \in Nat
         /\ ValueAt(r, i) \in Nat /\ ValueEnd(r, i) \in Nat /\ KeyAt(r, i + 1) = ValueEnd(r, i) + 2
         /\ KeyAt(r, i) < KeyEnd(r, i) /\ KeyEnd(r, i) <= ColonAt(r, i) /\ ColonAt(r, i) < ValueAt(r, i)
         /\ ValueAt(r, i) < ValueEnd(r, i)
         /\ \A q \in KeyAt(r, i)..(KeyEnd(r, i) - 1) : input[q + 1] \notin {SP, COLON, CR, LF}
         /\ \A q \in KeyEnd(r, i)..(ColonAt(r, i) - 1) : input[q + 1] = SP
         /\ input[ColonAt(r, i) + 1] = COLON
         /\ \A q \in (ColonAt(r, i) + 1)..(ValueAt(r, i) - 1) : input[q + 1] = SP
         /\ input[ValueAt(r, i) + 1] # SP
         /\ \A q \in ValueAt(r, i)..(ValueEnd(r, i) - 1) : input[q + 1] \notin {CR, LF}
         /\ input[ValueEnd(r, i) + 1] = CR /\ input[ValueEnd(r, i) + 2] = LF
<1>1. r \in Requests /\ input = Encoded(r) \o r.rest
  BY DEF Sends
<1> QED  BY <1>1, HeaderBytes

\* and behind the last one.
LEMMA EndRead ==
  ASSUME NEW r, Sends(r)
  PROVE  LET L == Len(r.headers)
         IN  /\ L \in Nat \ {0} /\ KeyAt(r, 0) = GapEnd(r) + 2 /\ KeyAt(r, L) \in Nat
             /\ input[KeyAt(r, L) + 1] = CR /\ input[KeyAt(r, L) + 2] = LF
             /\ Len(Encoded(r)) = KeyAt(r, L) + 2 /\ Len(Encoded(r)) <= Len(input)
<1>1. r \in Requests /\ input = Encoded(r) \o r.rest
  BY DEF Sends
<1> QED  BY <1>1, EndBytes

\* The five bytes the parsers tell apart
LEMMA BytesDiffer ==
  /\ SP # COLON /\ SP # CR /\ SP # LF /\ COLON # CR /\ COLON # LF /\ CR # LF
  /\ SP \notin Upper /\ COLON \notin Upper /\ CR \notin Upper /\ LF \notin Upper
BY BytesAssumption DEF SP, COLON, CR, LF

\* A step of the first parser touches no header,
LEMMA InLine ==
  ASSUME IInv, NEW r, Sends(r), At(r), st' \in LineStates, pc' # "parsed", list' = list
  PROVE  HeaderPlaced(r)' /\ CurMarked(r)' /\ ListMarked(r)'
<1>1. Len(list) <= Len(r.headers) /\ ListMarked(r)
  BY DEF At, HeaderPlaced
<1>2. HeaderPlaced(r)'
  BY <1>1 DEF HeaderPlaced, LineStates
<1>3. CurMarked(r)'
  BY DEF CurMarked, LineStates
<1>4. ListMarked(r)'
  BY <1>1 DEF ListMarked, Marks
<1> QED  BY <1>2, <1>3, <1>4

\* and a step of the second not the request line.
LEMMA InHead ==
  ASSUME NEW r, At(r), st \in HeadStates, st' \in HeadStates, line' = line
  PROVE  LinePlaced(r)' /\ LineMarked(r)'
BY DEF At, LinePlaced, LineMarked, HeadStates

\* The first byte of a request in good form,
LEMMA LineStartPlaced ==
  ASSUME IInv, NEW r, Sends(r), At(r), LineStart
  PROVE  At(r)' /\ pc' # "closed"
<1>1. pc = "line" /\ st = "line_start" /\ p = 0
  BY DEF At, LinePlaced, LineStart, In
<1>2. ch \in Upper
  BY <1>1, LineRead DEF ch
<1>3. Goes("method") /\ line' = [line EXCEPT !.method_start = p] /\ UNCHANGED <<cur, list>>
  BY <1>2, BytesDiffer DEF LineStart
<1>4. st' = "method" /\ p' = 1 /\ pc' = pc
  BY <1>1, <1>3 DEF Goes
<1>5. LinePlaced(r)' /\ LineMarked(r)'
  BY <1>1, <1>3, <1>4, LineRead DEF LinePlaced, LineMarked, IInv, TypeOK, LineMarks
<1> QED  BY <1>1, <1>3, <1>4, <1>5, InLine DEF At, LineStates

\* of the method,
LEMMA MethodPlaced ==
  ASSUME IInv, NEW r, Sends(r), At(r), Method
  PROVE  At(r)' /\ pc' # "closed"
<1>1. pc = "line" /\ st = "method" /\ p \in 1..MethodEnd(r) /\ line.method_start = 0
  BY DEF At, LinePlaced, LineMarked, Method, In
<1>2. MethodEnd(r) \in Nat /\ UrlEnd(r) \in Nat /\ MethodEnd(r) < UrlEnd(r)
  BY LineRead
<1>3. CASE p = MethodEnd(r)
  <2>1. ch = SP
    BY <1>3, LineRead DEF ch
  <2>2. Goes("url") /\ line' = [line EXCEPT !.method_end = p, !.url_start = p] /\ UNCHANGED <<cur, list>>
    BY <2>1, BytesDiffer DEF Method
  <2>3. st' = "url" /\ p' = p + 1 /\ pc' = pc
    BY <2>2 DEF Goes
  <2>4. LinePlaced(r)' /\ LineMarked(r)'
    BY <1>1, <1>2, <1>3, <2>2, <2>3 DEF LinePlaced, LineMarked, IInv, TypeOK, LineMarks
  <2> QED  BY <1>1, <2>2, <2>3, <2>4, InLine DEF At, LineStates
<1>4. CASE p # MethodEnd(r)
  <2>1. p \in 0..(MethodEnd(r) - 1)
    BY <1>1, <1>2, <1>4
  <2>2. ch \in Upper
    BY <2>1, LineRead DEF ch
  <2>3. Goes("method") /\ UNCHANGED <<line, cur, list>>
    BY <2>2, BytesDiffer DEF Method
  <2>4. st' = "method" /\ p' = p + 1 /\ pc' = pc
    BY <2>3 DEF Goes
  <2>5. LinePlaced(r)' /\ LineMarked(r)'
    BY <1>1, <1>2, <2>1, <2>3, <2>4 DEF LinePlaced, LineMarked
  <2> QED  BY <1>1, <2>3, <2>4, <2>5, InLine DEF At, LineStates
<1> QED  BY <1>3, <1>4

\* of the URL,
LEMMA UrlPlaced ==
  ASSUME IInv, NEW r, Sends(r), At(r), Url
  PROVE  At(r)' /\ pc' # "closed"
<1>1. /\ pc = "line" /\ st = "url" /\ p \in (MethodEnd(r) + 1)..UrlEnd(r) /\ line.method_start = 0
      /\ line.method_end = MethodEnd(r) /\ line.url_start = MethodEnd(r)
  BY DEF At, LinePlaced, LineMarked, Url, In
<1>2. MethodEnd(r) \in Nat /\ UrlEnd(r) \in Nat /\ ProtocolEnd(r) \in Nat /\ UrlEnd(r) < ProtocolEnd(r)
  BY LineRead
<1>3. CASE p = UrlEnd(r)
  <2>1. ch = SP
    BY <1>3, LineRead DEF ch
  <2>2. Goes("protocol") /\ line' = [line EXCEPT !.url_end = p, !.protocol_start = p] /\ UNCHANGED <<cur, list>>
    BY <2>1, BytesDiffer DEF Url
  <2>3. st' = "protocol" /\ p' = p + 1 /\ pc' = pc
    BY <2>2 DEF Goes
  <2>4. LinePlaced(r)' /\ LineMarked(r)'
    BY <1>1, <1>2, <1>3, <2>2, <2>3 DEF LinePlaced, LineMarked, IInv, TypeOK, LineMarks
  <2> QED  BY <1>1, <2>2, <2>3, <2>4, InLine DEF At, LineStates
<1>4. CASE p # UrlEnd(r)
  <2>1. p \in (MethodEnd(r) + 1)..(UrlEnd(r) - 1)
    BY <1>1, <1>2, <1>4
  <2>2. ch # SP
    BY <2>1, LineRead DEF ch
  <2>3. Goes("url") /\ UNCHANGED <<line, cur, list>>
    BY <2>2 DEF Url
  <2>4. st' = "url" /\ p' = p + 1 /\ pc' = pc
    BY <2>3 DEF Goes
  <2>5. LinePlaced(r)' /\ LineMarked(r)'
    BY <1>1, <1>2, <2>1, <2>3, <2>4 DEF LinePlaced, LineMarked
  <2> QED  BY <1>1, <2>3, <2>4, <2>5, InLine DEF At, LineStates
<1> QED  BY <1>3, <1>4

\* of the protocol,
LEMMA ProtocolPlaced ==
  ASSUME IInv, NEW r, Sends(r), At(r), Protocol
  PROVE  At(r)' /\ pc' # "closed"
<1>1. /\ pc = "line" /\ st = "protocol" /\ p \in (UrlEnd(r) + 1)..ProtocolEnd(r) /\ line.method_start = 0
      /\ line.method_end = MethodEnd(r) /\ line.url_start = MethodEnd(r)
      /\ line.url_end = UrlEnd(r) /\ line.protocol_start = UrlEnd(r)
  BY DEF At, LinePlaced, LineMarked, Protocol, In
<1>2. UrlEnd(r) \in Nat /\ ProtocolEnd(r) \in Nat /\ GapEnd(r) \in Nat /\ ProtocolEnd(r) <= GapEnd(r)
  BY LineRead
<1>3. CASE p = ProtocolEnd(r)
  <2>1. /\ ch \in {SP, CR} /\ (ch = SP <=> ProtocolEnd(r) # GapEnd(r))
    <3>1. CASE ProtocolEnd(r) = GapEnd(r)
      BY <1>3, <3>1, LineRead, BytesDiffer DEF ch
    <3>2. CASE ProtocolEnd(r) # GapEnd(r)
      <4>1. p \in ProtocolEnd(r)..(GapEnd(r) - 1)
        BY <1>2, <1>3, <3>2
      <4> QED  BY <3>2, <4>1, LineRead DEF ch
    <3> QED  BY <3>1, <3>2
  <2>2. /\ Goes(IF ch = SP THEN "space_end" ELSE "CR_end") /\ line' = [line EXCEPT !.protocol_end = p]
        /\ UNCHANGED <<cur, list>>
    BY <2>1 DEF Protocol
  <2>3. st' = (IF ch = SP THEN "space_end" ELSE "CR_end") /\ p' = p + 1 /\ pc' = pc
    BY <2>2 DEF Goes
  <2>4. line \in LineMarks
    BY DEF IInv, TypeOK
  <2>5. LineMarked(r)'
    BY <1>1, <1>3, <2>2, <2>3, <2>4 DEF LineMarked, LineMarks
  <2>6. LinePlaced(r)'
    BY <1>2, <1>3, <2>1, <2>3 DEF LinePlaced
  <2> QED  BY <1>1, <2>2, <2>3, <2>5, <2>6, InLine DEF At, LineStates
<1>4. CASE p # ProtocolEnd(r)
  <2>1. p \in (UrlEnd(r) + 1)..(ProtocolEnd(r) - 1)
    BY <1>1, <1>2, <1>4
  <2>2. ch \notin {SP, CR}
    BY <2>1, LineRead DEF ch
  <2>3. Goes("protocol") /\ UNCHANGED <<line, cur, list>>
    BY <2>2 DEF Protocol
  <2>4. st' = "protocol" /\ p' = p + 1 /\ pc' = pc
    BY <2>3 DEF Goes
  <2>5. LinePlaced(r)' /\ LineMarked(r)'
    BY <1>1, <1>2, <2>1, <2>3, <2>4 DEF LinePlaced, LineMarked
  <2> QED  BY <1>1, <2>3, <2>4, <2>5, InLine DEF At, LineStates
<1> QED  BY <1>3, <1>4

\* and of the spaces behind it
LEMMA SpaceEndPlaced ==
  ASSUME IInv, NEW r, Sends(r), At(r), SpaceEnd
  PROVE  At(r)' /\ pc' # "closed"
<1>1. pc = "line" /\ st = "space_end" /\ p \in (ProtocolEnd(r) + 1)..GapEnd(r) /\ LineMarked(r)
  BY DEF At, LinePlaced, SpaceEnd, In
<1>2. ProtocolEnd(r) \in Nat /\ GapEnd(r) \in Nat
  BY LineRead
<1>3. ch \in {SP, CR} /\ (ch = SP <=> p # GapEnd(r))
  <2>1. CASE p = GapEnd(r)
    BY <2>1, LineRead, BytesDiffer DEF ch
  <2>2. CASE p # GapEnd(r)
    <3>1. p \in ProtocolEnd(r)..(GapEnd(r) - 1)
      BY <1>1, <1>2, <2>2
    <3> QED  BY <2>2, <3>1, LineRead DEF ch
  <2> QED  BY <2>1, <2>2
<1>4. Goes(IF ch = SP THEN "space_end" ELSE "CR_end") /\ UNCHANGED <<line, cur, list>>
  BY <1>3 DEF SpaceEnd
<1>5. st' = (IF ch = SP THEN "space_end" ELSE "CR_end") /\ p' = p + 1 /\ pc' = pc
  BY <1>4 DEF Goes
<1>6. LinePlaced(r)'
  BY <1>1, <1>2, <1>3, <1>5 DEF LinePlaced
<1>7. LineMarked(r)'
  BY <1>1, <1>4, <1>5 DEF LineMarked
<1> QED  BY <1>1, <1>4, <1>5, <1>6, <1>7, InLine DEF At, LineStates

\* The end of the request line
LEMMA CREndPlaced ==
  ASSUME IInv, NEW r, Sends(r), At(r), CREnd
  PROVE  At(r)' /\ pc' # "closed"
<1>1. st = "CR_end" /\ p = GapEnd(r) + 1 /\ LineMarked(r)
  BY DEF At, LinePlaced, CREnd, In
<1>2. GapEnd(r) \in Nat /\ input[GapEnd(r) + 2] = LF /\ (GapEnd(r) + 1) + 1 = GapEnd(r) + 2
  BY LineRead
<1>3. ch = LF
  BY <1>1, <1>2 DEF ch
<1>4. Done("header", "head_start")
  BY <1>3 DEF CREnd, AfterLine
<1>5. p' = GapEnd(r) + 2 /\ st' = "head_start" /\ pc' = "header" /\ UNCHANGED <<line, cur, list>>
  BY <1>1, <1>2, <1>4 DEF Done
<1>6. list = <<>> /\ Len(list) = 0
  BY <1>1 DEF IInv, ListPart, LineStates
<1>7. KeyAt(r, 0) = GapEnd(r) + 2 /\ Len(r.headers) \in Nat
  BY EndRead
<1>8. LinePlaced(r)' /\ LineMarked(r)'
  BY <1>1, <1>5 DEF LinePlaced, LineMarked
<1>9. HeaderPlaced(r)' /\ CurMarked(r)'
  BY <1>5, <1>6, <1>7 DEF HeaderPlaced, CurMarked
<1>10. ListMarked(r)'
  BY <1>5, <1>6 DEF ListMarked
<1> QED  BY <1>5, <1>8, <1>9, <1>10 DEF At

\* Reading, and returning to read, leave the parser where it is.
LEMMA ReadPlaced ==
  ASSUME IInv, NEW r, Sends(r), At(r), Read \/ ReadNothing \/ Again \/ SkipLine
  PROVE  At(r)'
<1>1. /\ p' = p /\ st' = st /\ line' = line /\ cur' = cur /\ list' = list
      /\ pc # "parsed" /\ pc' # "parsed"
  BY DEF Read, ReadNothing, Again, SkipLine, AfterSkip, IInv, ControlPart, reqVars
<1>2. LinePlaced(r)' /\ LineMarked(r)' /\ CurMarked(r)'
  BY <1>1 DEF At, LinePlaced, LineMarked, CurMarked
<1>3. HeaderPlaced(r)'
  BY <1>1 DEF At, HeaderPlaced
<1>4. ListMarked(r)'
  BY <1>1 DEF At, ListMarked, Marks
<1> QED  BY <1>2, <1>3, <1>4 DEF At

\* A byte of a header: what the lemmas on the second parser's actions share
LEMMA InHeader ==
  ASSUME NEW r, At(r), st \in HeadStates, st' \in HeadStates, line' = line, list' = list, pc' = "header",
         HeaderPlaced(r)', CurMarked(r)'
  PROVE  At(r)' /\ pc' # "closed"
<1>1. ListMarked(r)'
  BY DEF At, ListMarked, Marks
<1> QED  BY <1>1, InHead DEF At

\* The first byte of the first header,
LEMMA HeadStartPlaced ==
  ASSUME IInv, NEW r, Sends(r), At(r), HeadStart
  PROVE  At(r)' /\ pc' # "closed"
<1> DEFINE i == Len(list)
<1>1. /\ pc = "header" /\ st = "head_start" /\ i = 0 /\ p = KeyAt(r, i)
  BY DEF At, HeaderPlaced, HeadStart, In
<1>2. i \in 0..(Len(r.headers) - 1) /\ i < Len(r.headers) /\ i <= Len(r.headers)
  BY <1>1, EndRead
<1> HIDE DEF i
<1>3. KeyAt(r, i) \in Nat /\ KeyEnd(r, i) \in Nat /\ KeyAt(r, i) < KeyEnd(r, i)
  BY <1>2, HeaderRead
<1>4. p \in KeyAt(r, i)..(KeyEnd(r, i) - 1)
  BY <1>1, <1>3
<1>5. ch \notin {CR, LF}
  BY <1>2, <1>4, HeaderRead DEF ch
<1>6. Goes("key") /\ cur' = [cur EXCEPT !.key_start = p] /\ UNCHANGED <<line, list>>
  BY <1>5 DEF HeadStart
<1>7. st' = "key" /\ p' = p + 1 /\ pc' = "header" /\ Len(list') = i
  BY <1>1, <1>6 DEF Goes, i
<1>8. HeaderPlaced(r)'
  BY <1>1, <1>2, <1>3, <1>7 DEF HeaderPlaced
<1>9. CurMarked(r)'
  BY <1>1, <1>6, <1>7 DEF CurMarked, IInv, TypeOK, HeaderMarks
<1> QED  BY <1>1, <1>6, <1>7, <1>8, <1>9, InHeader DEF HeadStates

\* a byte of a key,
LEMMA InKeyPlaced ==
  ASSUME IInv, NEW r, Sends(r), At(r), InKey
  PROVE  At(r)' /\ pc' # "closed"
<1> DEFINE i == Len(list)
<1>1. /\ pc = "header" /\ st = "key" /\ i < Len(r.headers) /\ i <= Len(r.headers)
      /\ p \in (KeyAt(r, i) + 1)..KeyEnd(r, i) /\ cur.key_start = KeyAt(r, i)
  BY DEF At, HeaderPlaced, CurMarked, InKey, In
<1>2. i \in 0..(Len(r.headers) - 1)
  BY <1>1, EndRead DEF IInv, TypeOK
<1> HIDE DEF i
<1>3. /\ KeyAt(r, i) \in Nat /\ KeyEnd(r, i) \in Nat /\ ColonAt(r, i) \in Nat /\ ValueAt(r, i) \in Nat
      /\ KeyEnd(r, i) <= ColonAt(r, i) /\ ColonAt(r, i) < ValueAt(r, i)
  BY <1>2, HeaderRead
<1>4. CASE p = KeyEnd(r, i)
  <2>1. ch \in {SP, COLON} /\ (ch = SP <=> KeyEnd(r, i) # ColonAt(r, i))
    <3>1. CASE KeyEnd(r, i) = ColonAt(r, i)
      <4>1. input[ColonAt(r, i) + 1] = COLON
        BY <1>2, HeaderRead
      <4> QED  BY <1>4, <3>1, <4>1, BytesDiffer DEF ch
    <3>2. CASE KeyEnd(r, i) # ColonAt(r, i)
      <4>1. p \in KeyEnd(r, i)..(ColonAt(r, i) - 1)
        BY <1>3, <1>4, <3>2
      <4> QED  BY <1>2, <3>2, <4>1, HeaderRead DEF ch
    <3> QED  BY <3>1, <3>2
  <2>2. /\ Goes(IF ch = SP THEN "spaces_before_colon" ELSE "spaces_after_colon")
        /\ cur' = [cur EXCEPT !.key_end = p] /\ UNCHANGED <<line, list>>
    BY <2>1 DEF InKey
  <2>3. /\ st' = (IF ch = SP THEN "spaces_before_colon" ELSE "spaces_after_colon")
        /\ p' = p + 1 /\ pc' = "header" /\ Len(list') = i
    BY <1>1, <2>2 DEF Goes, i
  <2>4. HeaderPlaced(r)'
    BY <1>1, <1>3, <1>4, <2>1, <2>3 DEF HeaderPlaced
  <2>5. CurMarked(r)'
    BY <1>1, <1>4, <2>2, <2>3 DEF CurMarked, IInv, TypeOK, HeaderMarks
  <2> QED  BY <1>1, <2>2, <2>3, <2>4, <2>5, InHeader DEF HeadStates
<1>5. CASE p # KeyEnd(r, i)
  <2>1. p \in KeyAt(r, i)..(KeyEnd(r, i) - 1)
    BY <1>1, <1>3, <1>5
  <2>2. ch \notin {SP, COLON}
    BY <1>2, <2>1, HeaderRead DEF ch
  <2>3. Goes("key") /\ UNCHANGED <<line, cur, list>>
    BY <2>2 DEF InKey
  <2>4. st' = "key" /\ p' = p + 1 /\ pc' = "header" /\ Len(list') = i
    BY <1>1, <2>3 DEF Goes, i
  <2>5. HeaderPlaced(r)'
    BY <1>1, <1>3, <2>1, <2>4 DEF HeaderPlaced
  <2>6. CurMarked(r)'
    BY <1>1, <2>3, <2>4 DEF CurMarked
  <2> QED  BY <1>1, <2>3, <2>4, <2>5, <2>6, InHeader DEF HeadStates
<1> QED  BY <1>4, <1>5

\* of the spaces before the colon, or the colon,
LEMMA SpacesBeforeColonPlaced ==
  ASSUME IInv, NEW r, Sends(r), At(r), SpacesBeforeColon
  PROVE  At(r)' /\ pc' # "closed"
<1> DEFINE i == Len(list)
<1>1. /\ pc = "header" /\ st = "spaces_before_colon" /\ i < Len(r.headers) /\ i <= Len(r.headers)
      /\ p \in (KeyEnd(r, i) + 1)..ColonAt(r, i)
      /\ cur.key_start = KeyAt(r, i) /\ cur.key_end = KeyEnd(r, i)
  BY DEF At, HeaderPlaced, CurMarked, SpacesBeforeColon, In
<1>2. i \in 0..(Len(r.headers) - 1)
  BY <1>1, EndRead DEF IInv, TypeOK
<1> HIDE DEF i
<1>3. /\ KeyEnd(r, i) \in Nat /\ ColonAt(r, i) \in Nat /\ ValueAt(r, i) \in Nat
      /\ ColonAt(r, i) < ValueAt(r, i)
  BY <1>2, HeaderRead
<1>4. ch \in {SP, COLON} /\ (ch = SP <=> p # ColonAt(r, i))
  <2>1. CASE p = ColonAt(r, i)
    <3>1. input[ColonAt(r, i) + 1] = COLON
      BY <1>2, HeaderRead
    <3> QED  BY <2>1, <3>1, BytesDiffer DEF ch
  <2>2. CASE p # ColonAt(r, i)
    <3>1. p \in KeyEnd(r, i)..(ColonAt(r, i) - 1)
      BY <1>1, <1>3, <2>2
    <3> QED  BY <1>2, <2>2, <3>1, HeaderRead DEF ch
  <2> QED  BY <2>1, <2>2
<1>5. /\ Goes(IF ch = SP THEN "spaces_before_colon" ELSE "spaces_after_colon")
      /\ UNCHANGED <<line, cur, list>>
  BY <1>4 DEF SpacesBeforeColon
<1>6. /\ st' = (IF ch = SP THEN "spaces_before_colon" ELSE "spaces_after_colon")
      /\ p' = p + 1 /\ pc' = "header" /\ Len(list') = i
  BY <1>1, <1>5 DEF Goes, i
<1>7. HeaderPlaced(r)'
  BY <1>1, <1>3, <1>4, <1>6 DEF HeaderPlaced
<1>8. CurMarked(r)'
  BY <1>1, <1>5, <1>6 DEF CurMarked
<1> QED  BY <1>1, <1>5, <1>6, <1>7, <1>8, InHeader DEF HeadStates

\* of the spaces behind it, or the first of the value,
LEMMA SpacesAfterColonPlaced ==
  ASSUME IInv, NEW r, Sends(r), At(r), SpacesAfterColon
  PROVE  At(r)' /\ pc' # "closed"
<1> DEFINE i == Len(list)
<1>1. /\ pc = "header" /\ st = "spaces_after_colon" /\ i < Len(r.headers) /\ i <= Len(r.headers)
      /\ p \in (ColonAt(r, i) + 1)..ValueAt(r, i)
      /\ cur.key_start = KeyAt(r, i) /\ cur.key_end = KeyEnd(r, i)
  BY DEF At, HeaderPlaced, CurMarked, SpacesAfterColon, In
<1>2. i \in 0..(Len(r.headers) - 1)
  BY <1>1, EndRead DEF IInv, TypeOK
<1> HIDE DEF i
<1>3. /\ ColonAt(r, i) \in Nat /\ ValueAt(r, i) \in Nat /\ ValueEnd(r, i) \in Nat
      /\ ValueAt(r, i) < ValueEnd(r, i)
  BY <1>2, HeaderRead
<1>4. CASE p = ValueAt(r, i)
  <2>1. ch # SP
    BY <1>2, <1>4, HeaderRead DEF ch
  <2>2. Goes("value") /\ cur' = [cur EXCEPT !.value_start = p] /\ UNCHANGED <<line, list>>
    BY <2>1 DEF SpacesAfterColon
  <2>3. st' = "value" /\ p' = p + 1 /\ pc' = "header" /\ Len(list') = i
    BY <1>1, <2>2 DEF Goes, i
  <2>4. HeaderPlaced(r)'
    BY <1>1, <1>3, <1>4, <2>3 DEF HeaderPlaced
  <2>5. CurMarked(r)'
    BY <1>1, <1>4, <2>2, <2>3 DEF CurMarked, IInv, TypeOK, HeaderMarks
  <2> QED  BY <1>1, <2>2, <2>3, <2>4, <2>5, InHeader DEF HeadStates
<1>5. CASE p # ValueAt(r, i)
  <2>1. p \in (ColonAt(r, i) + 1)..(ValueAt(r, i) - 1)
    BY <1>1, <1>3, <1>5
  <2>2. ch = SP
    BY <1>2, <2>1, HeaderRead DEF ch
  <2>3. Goes("spaces_after_colon") /\ UNCHANGED <<line, cur, list>>
    BY <2>2 DEF SpacesAfterColon
  <2>4. st' = "spaces_after_colon" /\ p' = p + 1 /\ pc' = "header" /\ Len(list') = i
    BY <1>1, <2>3 DEF Goes, i
  <2>5. HeaderPlaced(r)'
    BY <1>1, <1>3, <2>1, <2>4 DEF HeaderPlaced
  <2>6. CurMarked(r)'
    BY <1>1, <2>3, <2>4 DEF CurMarked
  <2> QED  BY <1>1, <2>3, <2>4, <2>5, <2>6, InHeader DEF HeadStates
<1> QED  BY <1>4, <1>5

\* and one of the value, or the CR behind it
LEMMA ValuePlaced ==
  ASSUME IInv, NEW r, Sends(r), At(r), Value
  PROVE  At(r)' /\ pc' # "closed"
<1> DEFINE i == Len(list)
<1>1. /\ pc = "header" /\ st = "value" /\ i < Len(r.headers) /\ i <= Len(r.headers)
      /\ p \in (ValueAt(r, i) + 1)..ValueEnd(r, i)
      /\ cur.key_start = KeyAt(r, i) /\ cur.key_end = KeyEnd(r, i) /\ cur.value_start = ValueAt(r, i)
  BY DEF At, HeaderPlaced, CurMarked, Value, In
<1>2. i \in 0..(Len(r.headers) - 1)
  BY <1>1, EndRead DEF IInv, TypeOK
<1> HIDE DEF i
<1>3. ValueAt(r, i) \in Nat /\ ValueEnd(r, i) \in Nat
  BY <1>2, HeaderRead
<1>4. CASE p = ValueEnd(r, i)
  <2>1. ch = CR
    BY <1>2, <1>4, HeaderRead DEF ch
  <2>2. Goes("cr") /\ cur' = [cur EXCEPT !.value_end = p] /\ UNCHANGED <<line, list>>
    BY <2>1 DEF Value, EndOfValue
  <2>3. st' = "cr" /\ p' = p + 1 /\ pc' = "header" /\ Len(list') = i
    BY <1>1, <2>2 DEF Goes, i
  <2>4. HeaderPlaced(r)'
    BY <1>1, <1>3, <1>4, <2>3 DEF HeaderPlaced
  <2>5. CurMarked(r)'
    BY <1>1, <1>4, <2>2, <2>3 DEF CurMarked, IInv, TypeOK, HeaderMarks
  <2> QED  BY <1>1, <2>2, <2>3, <2>4, <2>5, InHeader DEF HeadStates
<1>5. CASE p # ValueEnd(r, i)
  <2>1. p \in ValueAt(r, i)..(ValueEnd(r, i) - 1)
    BY <1>1, <1>3, <1>5
  <2>2. ch \notin {CR, LF}
    BY <1>2, <2>1, HeaderRead DEF ch
  <2>3. Goes("value") /\ UNCHANGED <<line, cur, list>>
    BY <2>2 DEF Value
  <2>4. st' = "value" /\ p' = p + 1 /\ pc' = "header" /\ Len(list') = i
    BY <1>1, <2>3 DEF Goes, i
  <2>5. HeaderPlaced(r)'
    BY <1>1, <1>3, <2>1, <2>4 DEF HeaderPlaced
  <2>6. CurMarked(r)'
    BY <1>1, <2>3, <2>4 DEF CurMarked
  <2> QED  BY <1>1, <2>3, <2>4, <2>5, <2>6, InHeader DEF HeadStates
<1> QED  BY <1>4, <1>5

\* No header stands behind the empty line.
LEMMA KeysBefore ==
  ASSUME NEW r \in Requests, NEW i \in 0..Len(r.headers)
  PROVE  KeyAt(r, i) \in Nat /\ KeyAt(r, i) <= KeyAt(r, Len(r.headers))
<1> DEFINE hs == r.headers   L == Len(hs)   e == EncodedHeaders(hs)   d == GapEnd(r)
<1>1. hs \in Seq(Header) /\ L \in Nat /\ i \in 0..L /\ L \in 0..L
  BY Typed
<1>2. e[i] \in Seq(Bytes) /\ e[L] \in Seq(Bytes)
  <2>1. \A j \in 0..L : e[j] \in Seq(Bytes)
    BY <1>1, HeadersHold
  <2> HIDE DEF hs, L, e
  <2> QED  BY <1>1, <2>1
<1>3. i < L => Holds(e[L], Len(e[i]), EncodedHeader(hs[i + 1])) /\ Len(EncodedHeader(hs[i + 1])) \in Nat
  <2> HAVE i < L
  <2>1. i \in 0..(L - 1) /\ i + 1 \in 1..L
    BY <1>1
  <2>2. EncodedHeader(hs[i + 1]) \in Seq(Bytes)
    <3>1. hs[i + 1] \in Header
      BY <1>1, <2>1
    <3> QED  BY <3>1, HeaderParts
  <2>3. Holds(e[L], Len(e[i]), EncodedHeader(hs[i + 1]))
    BY <1>1, <2>1, HeadersHold
  <2> HIDE DEF hs, L, e
  <2> QED  BY <2>2, <2>3
<1>4. KeyAt(r, i) = d + 2 + Len(e[i]) /\ KeyAt(r, L) = d + 2 + Len(e[L])
  BY DEF KeyAt
<1>5. d \in Nat
  BY LineBytes
<1> DEFINE m == Len(e[i])   n == Len(e[L])   k == Len(EncodedHeader(hs[i + 1]))
<1>6. m \in Nat /\ n \in Nat
  <2> HIDE DEF hs, L, e
  <2> QED  BY <1>2
<1>7. i < L => m + k <= n /\ k \in Nat
  BY <1>3 DEF Holds
<1>8. i = L => m = n
  OBVIOUS
<1>9. KeyAt(r, i) = d + 2 + m /\ KeyAt(r, L) = d + 2 + n
  BY <1>4
<1> HIDE DEF m, n, k, hs, L, e, d
<1>10. m <= n
  BY <1>1, <1>6, <1>7, <1>8
<1> QED  BY <1>5, <1>6, <1>9, <1>10 DEF L, hs

\* The end of a header: its marks are saved, in front of the others.
LEMMA CrPlaced ==
  ASSUME IInv, NEW r, Sends(r), At(r), Cr
  PROVE  At(r)' /\ pc' # "closed"
<1> DEFINE i == Len(list)
<1>1. /\ pc = "header" /\ st = "cr" /\ i < Len(r.headers) /\ i <= Len(r.headers)
      /\ p = ValueEnd(r, i) + 1 /\ Marks(cur, r, i) /\ ListMarked(r)
  BY DEF At, HeaderPlaced, CurMarked, Cr, In, Marks
<1>2. i \in 0..(Len(r.headers) - 1) /\ i \in Nat /\ Len(r.headers) \in Nat
  BY <1>1, EndRead DEF IInv, TypeOK
<1>3. list \in Seq(HeaderMarks) /\ cur \in HeaderMarks
  BY DEF IInv, TypeOK
<1>4. /\ ValueEnd(r, i) \in Nat /\ KeyAt(r, i + 1) = ValueEnd(r, i) + 2
      /\ input[ValueEnd(r, i) + 2] = LF /\ (ValueEnd(r, i) + 1) + 1 = ValueEnd(r, i) + 2
  BY <1>2, HeaderRead
<1>5. ch = LF
  BY <1>1, <1>4 DEF ch
<1>6. Goes("crlf") /\ list' = <<cur>> \o list /\ UNCHANGED <<line, cur>>
  BY <1>5 DEF Cr
<1>7. st' = "crlf" /\ p' = KeyAt(r, i + 1) /\ pc' = "header"
  BY <1>1, <1>4, <1>6 DEF Goes
<1>8. /\ Len(list') = i + 1 /\ list'[1] = cur
      /\ \A j \in 1..i : list'[j + 1] = list[j]
  BY <1>3, <1>6
<1> HIDE DEF i
<1>9. i + 1 <= Len(r.headers) /\ i + 1 # 0
  BY <1>1, <1>2
<1>10. HeaderPlaced(r)'
  BY <1>7, <1>8, <1>9 DEF HeaderPlaced
<1>11. CurMarked(r)'
  BY <1>7 DEF CurMarked
<1>12. ASSUME NEW j \in 1..(i + 1)
       PROVE  Marks(list'[j], r, i + 1 - j)
  <2>1. CASE j = 1
    <3>1. i + 1 - 1 = i
      BY <1>2
    <3> QED  BY <1>1, <1>8, <2>1, <3>1
  <2>2. CASE j # 1
    <3>1. j - 1 \in 1..i /\ (j - 1) + 1 = j /\ i - (j - 1) = i + 1 - j
      BY <1>2, <2>2
    <3>2. Marks(list[j - 1], r, i - (j - 1))
      BY <1>1, <3>1 DEF ListMarked, i
    <3> QED  BY <1>8, <3>1, <3>2
  <2> QED  BY <2>1, <2>2
<1>13. ListMarked(r)'
  <2> SUFFICES ASSUME NEW j \in 1..Len(list')
               PROVE  Marks(list'[j], r, Len(list') - j)
    BY DEF ListMarked, Marks
  <2>1. Len(list') = i + 1 /\ j \in 1..(i + 1)
    BY <1>8
  <2>2. Marks(list'[j], r, i + 1 - j)
    BY <1>12, <2>1
  <2>3. Len(list') - j = i + 1 - j
    BY <1>2, <2>1
  <2> QED  BY <2>2, <2>3 DEF Marks
<1>14. LinePlaced(r)' /\ LineMarked(r)'
  BY <1>1, <1>6, <1>7, InHead DEF HeadStates
<1> QED  BY <1>7, <1>10, <1>11, <1>13, <1>14 DEF At

\* What comes behind a header: the next one, or the empty line
LEMMA CrlfPlaced ==
  ASSUME IInv, NEW r, Sends(r), At(r), Crlf
  PROVE  At(r)' /\ pc' # "closed"
<1> DEFINE i == Len(list)   L == Len(r.headers)
<1>1. /\ pc = "header" /\ st = "crlf" /\ i <= L /\ i # 0 /\ p = KeyAt(r, i)
  BY DEF At, HeaderPlaced, Crlf, In
<1>2. i \in Nat /\ L \in Nat /\ i \in 0..L
  BY <1>1, EndRead DEF IInv, TypeOK
<1> HIDE DEF i, L
<1>3. CASE i = L
  <2>1. ch = CR
    BY <1>1, <1>3, EndRead DEF ch, L
  <2>2. Goes("crlfcr") /\ UNCHANGED <<line, cur, list>>
    BY <2>1 DEF Crlf
  <2>3. st' = "crlfcr" /\ p' = KeyAt(r, i) + 1 /\ pc' = "header" /\ Len(list') = i
    BY <1>1, <2>2 DEF Goes, i
  <2>4. HeaderPlaced(r)'
    BY <1>1, <1>3, <2>3 DEF HeaderPlaced, L
  <2>5. CurMarked(r)'
    BY <2>3 DEF CurMarked
  <2> QED  BY <1>1, <2>2, <2>3, <2>4, <2>5, InHeader DEF HeadStates
<1>4. CASE i # L
  <2>1. i \in 0..(Len(r.headers) - 1) /\ i < Len(r.headers) /\ i <= Len(r.headers)
    BY <1>1, <1>2, <1>4 DEF L
  <2>2. KeyAt(r, i) \in Nat /\ KeyEnd(r, i) \in Nat /\ KeyAt(r, i) < KeyEnd(r, i)
    BY <2>1, HeaderRead
  <2>3. p \in KeyAt(r, i)..(KeyEnd(r, i) - 1)
    BY <1>1, <2>2
  <2>4. ch # CR
    BY <2>1, <2>3, HeaderRead DEF ch
  <2>5. Goes("key") /\ cur' = [cur EXCEPT !.key_start = p] /\ UNCHANGED <<line, list>>
    BY <2>4 DEF Crlf
  <2>6. st' = "key" /\ p' = p + 1 /\ pc' = "header" /\ Len(list') = i
    BY <1>1, <2>5 DEF Goes, i
  <2>7. HeaderPlaced(r)'
    BY <1>1, <2>1, <2>2, <2>6 DEF HeaderPlaced
  <2>8. CurMarked(r)'
    BY <1>1, <2>5, <2>6 DEF CurMarked, IInv, TypeOK, HeaderMarks
  <2> QED  BY <1>1, <2>5, <2>6, <2>7, <2>8, InHeader DEF HeadStates
<1> QED  BY <1>3, <1>4

\* The end of the request
LEMMA CrlfCrPlaced ==
  ASSUME IInv, NEW r, Sends(r), At(r), CrlfCr
  PROVE  At(r)' /\ pc' # "closed"
<1> DEFINE L == Len(r.headers)
<1>1. /\ pc = "header" /\ st = "crlfcr" /\ Len(list) = L /\ p = KeyAt(r, L) + 1 /\ ListMarked(r)
  BY DEF At, HeaderPlaced, CrlfCr, In
<1>2. /\ KeyAt(r, L) \in Nat /\ L \in Nat /\ input[KeyAt(r, L) + 2] = LF
      /\ (KeyAt(r, L) + 1) + 1 = KeyAt(r, L) + 2
  BY EndRead
<1> HIDE DEF L
<1>3. ch = LF
  BY <1>1, <1>2 DEF ch
<1>4. Done("parsed", "head_start")
  BY <1>3 DEF CrlfCr
<1>5. pos' = KeyAt(r, L) + 2 /\ st' = "head_start" /\ pc' = "parsed" /\ UNCHANGED <<line, cur, list>>
  BY <1>1, <1>2, <1>4 DEF Done
<1>6. HeaderPlaced(r)'
  BY <1>1, <1>2, <1>5 DEF HeaderPlaced, L
<1>7. CurMarked(r)'
  BY <1>5 DEF CurMarked
<1>8. ListMarked(r)'
  BY <1>1, <1>5 DEF ListMarked, Marks
<1>9. LinePlaced(r)' /\ LineMarked(r)'
  BY <1>1, <1>5, InHead DEF HeadStates
<1> QED  BY <1>5, <1>6, <1>7, <1>8, <1>9 DEF At

\* A request in good form keeps its places from byte to byte, and no byte of it
\* is refused.
LEMMA StepPlaced ==
  ASSUME IInv, NEW r, Sends(r), At(r), Next
  PROVE  At(r)' /\ (pc # "read" => pc' # "closed")
<1>1. CASE Read \/ ReadNothing \/ Again \/ SkipLine
  <2>1. pc # "read" => pc' # "closed"
    BY <1>1 DEF Read, ReadNothing, Again, SkipLine, AfterSkip
  <2> QED  BY <1>1, <2>1, ReadPlaced
<1>2. CASE LineStart \/ Method \/ Url \/ Protocol \/ SpaceEnd \/ CREnd
  BY <1>2, LineStartPlaced, MethodPlaced, UrlPlaced, ProtocolPlaced, SpaceEndPlaced, CREndPlaced
<1>3. CASE http_parse_request_header
  BY <1>3, HeadStartPlaced, InKeyPlaced, SpacesBeforeColonPlaced, SpacesAfterColonPlaced,
     ValuePlaced, CrPlaced, CrlfPlaced, CrlfCrPlaced DEF http_parse_request_header
<1> QED  BY <1>1, <1>2, <1>3 DEF Next, http_parse_request_line

\* It is not at an end before the parsers are done.
LEMMA NotAtEnd ==
  ASSUME IInv, NEW r, Sends(r), At(r), pc \in {"line", "header"}
  PROVE  p < Len(Encoded(r))
<1> DEFINE L == Len(r.headers)   i == Len(list)
<1>1. r \in Requests /\ L \in Nat /\ i \in Nat /\ i <= L /\ p \in Nat /\ Len(Encoded(r)) = KeyAt(r, L) + 2
  BY EndRead DEF IInv, TypeOK, Sends, At, HeaderPlaced
<1>2. \A j \in 0..L : KeyAt(r, j) \in Nat /\ KeyAt(r, j) <= KeyAt(r, L)
  BY <1>1, KeysBefore
<1>3. i \in 0..L /\ 0 \in 0..L /\ L \in 0..L
  BY <1>1
<1>4. SUFFICES p <= KeyAt(r, L) + 1
  <2>1. KeyAt(r, L) \in Nat
    BY <1>2, <1>3
  <2> QED  BY <1>1, <2>1
<1>5. CASE st \in LineStates
  <2>1. /\ MethodEnd(r) \in Nat /\ UrlEnd(r) \in Nat /\ ProtocolEnd(r) \in Nat /\ GapEnd(r) \in Nat
        /\ MethodEnd(r) < UrlEnd(r) /\ UrlEnd(r) < ProtocolEnd(r) /\ ProtocolEnd(r) <= GapEnd(r)
    BY LineRead
  <2>2. p <= GapEnd(r) + 1
    BY <1>1, <1>5, <2>1 DEF At, LinePlaced, LineStates
  <2>3. KeyAt(r, 0) = GapEnd(r) + 2 /\ KeyAt(r, 0) <= KeyAt(r, L) /\ KeyAt(r, L) \in Nat
    BY <1>2, <1>3, EndRead
  <2> QED  BY <1>1, <2>1, <2>2, <2>3
<1>6. CASE st \in {"key", "spaces_before_colon", "spaces_after_colon", "value", "cr"}
  <2>1. i \in 0..(Len(r.headers) - 1) /\ i + 1 \in 0..L
    BY <1>1, <1>6 DEF At, HeaderPlaced
  <2>2. /\ KeyAt(r, i) \in Nat /\ KeyEnd(r, i) \in Nat /\ ColonAt(r, i) \in Nat
        /\ ValueAt(r, i) \in Nat /\ ValueEnd(r, i) \in Nat /\ KeyAt(r, i + 1) = ValueEnd(r, i) + 2
        /\ KeyAt(r, i) < KeyEnd(r, i) /\ KeyEnd(r, i) <= ColonAt(r, i) /\ ColonAt(r, i) < ValueAt(r, i)
        /\ ValueAt(r, i) < ValueEnd(r, i)
    BY <2>1, HeaderRead
  <2>3. p <= ValueEnd(r, i) + 1
    <3>1. /\ st = "key" => p \in (KeyAt(r, i) + 1)..KeyEnd(r, i)
          /\ st = "spaces_before_colon" => p \in (KeyEnd(r, i) + 1)..ColonAt(r, i)
          /\ st = "spaces_after_colon" => p \in (ColonAt(r, i) + 1)..ValueAt(r, i)
          /\ st = "value" => p \in (ValueAt(r, i) + 1)..ValueEnd(r, i)
          /\ st = "cr" => p = ValueEnd(r, i) + 1
      BY DEF At, HeaderPlaced
    <3> HIDE DEF i
    <3> QED  BY <1>1, <1>6, <2>2, <3>1
  <2>4. KeyAt(r, i + 1) <= KeyAt(r, L) /\ KeyAt(r, L) \in Nat
    BY <1>2, <1>3, <2>1
  <2> HIDE DEF i, L
  <2> QED  BY <1>1, <2>2, <2>3, <2>4
<1>7. CASE st \in {"head_start", "crlf", "crlfcr"}
  <2>1. p = KeyAt(r, i) \/ p = KeyAt(r, L) + 1
    BY <1>7 DEF At, HeaderPlaced
  <2>2. KeyAt(r, i) <= KeyAt(r, L) /\ KeyAt(r, L) \in Nat
    BY <1>2, <1>3
  <2> HIDE DEF i, L
  <2> QED  BY <1>1, <2>1, <2>2
<1>8. st \in LineStates \cup HeadStates
  BY DEF IInv, TypeOK
<1> QED  BY <1>5, <1>6, <1>7, <1>8 DEF HeadStates

\* What is read between the marks: the parts of the request line,
LEMMA LineSlices ==
  ASSUME NEW r, Sends(r)
  PROVE  /\ Slice(0, MethodEnd(r)) = r.method /\ Slice(MethodEnd(r) + 1, UrlEnd(r)) = r.url
         /\ Slice(UrlEnd(r) + 1, ProtocolEnd(r)) = r.protocol
<1> DEFINE t == Encoded(r) \o r.rest
<1>1. r \in Requests /\ input = t
  BY DEF Sends
<1>2. /\ t \in Seq(Bytes) /\ r.method \in Seq(Bytes) /\ r.url \in Seq(Bytes) /\ r.protocol \in Seq(Bytes)
      /\ Holds(t, 0, r.method) /\ Holds(t, MethodEnd(r) + 1, r.url) /\ Holds(t, UrlEnd(r) + 1, r.protocol)
  BY <1>1, LineHolds, Typed
<1>3. 0 \in Nat /\ MethodEnd(r) + 1 \in Nat /\ UrlEnd(r) + 1 \in Nat /\ Len(r.method) \in Nat
  BY <1>1, LineBytes, Typed
<1> HIDE DEF t
<1>4. SubSeq(t, 0 + 1, 0 + Len(r.method)) = r.method
  <2>1. \A a \in Nat : Holds(t, a, r.method) => SubSeq(t, a + 1, a + Len(r.method)) = r.method
    BY <1>2, HoldsSlice
  <2> QED  BY <1>2, <1>3, <2>1, Zenon
<1>5. SubSeq(t, MethodEnd(r) + 1 + 1, MethodEnd(r) + 1 + Len(r.url)) = r.url
  BY <1>2, <1>3, HoldsSlice
<1>6. SubSeq(t, UrlEnd(r) + 1 + 1, UrlEnd(r) + 1 + Len(r.protocol)) = r.protocol
  BY <1>2, <1>3, HoldsSlice
<1>7. 0 + Len(r.method) = MethodEnd(r)
  BY <1>3 DEF MethodEnd
<1>8. UrlEnd(r) = MethodEnd(r) + 1 + Len(r.url) /\ ProtocolEnd(r) = UrlEnd(r) + 1 + Len(r.protocol)
  BY DEF UrlEnd, ProtocolEnd
<1> QED  BY <1>1, <1>4, <1>5, <1>6, <1>7, <1>8, Zenon DEF Slice

\* and those of a header.
LEMMA HeaderSlices ==
  ASSUME NEW r, Sends(r), NEW i \in 0..(Len(r.headers) - 1)
  PROVE  /\ Slice(KeyAt(r, i), KeyEnd(r, i)) = r.headers[i + 1].key
         /\ Slice(ValueAt(r, i), ValueEnd(r, i)) = r.headers[i + 1].value
<1> DEFINE t == Encoded(r) \o r.rest   h == r.headers[i + 1]
<1>1. r \in Requests /\ input = t
  BY DEF Sends
<1>2. t \in Seq(Bytes)
  BY <1>1, LineHolds
<1>3. /\ h \in Header /\ KeyAt(r, i) \in Nat /\ ValueAt(r, i) \in Nat
      /\ Holds(t, KeyAt(r, i), h.key) /\ Holds(t, ValueAt(r, i), h.value)
  BY <1>1, HeaderHolds
<1>4. KeyEnd(r, i) = KeyAt(r, i) + Len(h.key) /\ ValueEnd(r, i) = ValueAt(r, i) + Len(h.value)
  BY DEF KeyEnd, ValueEnd
<1>5. h.key \in Seq(Bytes) /\ h.value \in Seq(Bytes)
  BY <1>3, HeaderTyped
<1> HIDE DEF t, h
<1>6. SubSeq(t, KeyAt(r, i) + 1, KeyAt(r, i) + Len(h.key)) = h.key
  BY <1>2, <1>3, <1>5, HoldsSlice
<1>7. SubSeq(t, ValueAt(r, i) + 1, ValueAt(r, i) + Len(h.value)) = h.value
  BY <1>2, <1>3, <1>5, HoldsSlice
<1> QED  BY <1>1, <1>4, <1>6, <1>7, Zenon DEF Slice, h

\* The places say that a request in good form that is parsed is parsed right.
LEMMA PlacedRight == IInv /\ Placed => ParsedAsSent
<1> SUFFICES ASSUME IInv, Placed, pc = "parsed", sent # NULL
             PROVE  /\ Slice(line.method_start, line.method_end) = sent.method
                    /\ Slice(line.url_start + 1, line.url_end) = sent.url
                    /\ Slice(line.protocol_start + 1, line.protocol_end) = sent.protocol
                    /\ Len(list) = Len(sent.headers)
                    /\ \A i \in 1..Len(list) :
                         LET h == sent.headers[Len(list) + 1 - i]
                         IN  /\ Slice(list[i].key_start, list[i].key_end) = h.key
                             /\ Slice(list[i].value_start, list[i].value_end) = h.value
                    /\ pos = Len(Encoded(sent))
  BY DEF ParsedAsSent
<1>1. PICK r \in Requests : Sends(r) /\ At(r)
  BY DEF Placed
<1>2. sent = r
  BY <1>1 DEF Sends
<1>3. st \in HeadStates
  BY DEF IInv, ControlPart
<1>4. /\ line.method_start = 0 /\ line.method_end = MethodEnd(r) /\ line.url_start = MethodEnd(r)
      /\ line.url_end = UrlEnd(r) /\ line.protocol_start = UrlEnd(r) /\ line.protocol_end = ProtocolEnd(r)
  BY <1>1, <1>3 DEF At, LineMarked, HeadStates
<1>5. /\ Slice(line.method_start, line.method_end) = r.method
      /\ Slice(line.url_start + 1, line.url_end) = r.url
      /\ Slice(line.protocol_start + 1, line.protocol_end) = r.protocol
  BY <1>1, <1>4, LineSlices, Zenon
<1>6. Len(list) = Len(r.headers) /\ pos = KeyAt(r, Len(r.headers)) + 2
  <2>1. Len(list) = Len(r.headers) /\ pos = KeyAt(r, Len(list)) + 2
    BY <1>1 DEF At, HeaderPlaced
  <2> QED  BY <2>1, Zenon
<1>7. pos = Len(Encoded(r))
  <2>1. Len(Encoded(r)) = KeyAt(r, Len(r.headers)) + 2
    BY <1>1, EndRead
  <2> QED  BY <1>6, <2>1, Zenon
<1>8. ASSUME NEW i \in 1..Len(list)
      PROVE  /\ Slice(list[i].key_start, list[i].key_end) = r.headers[Len(list) + 1 - i].key
             /\ Slice(list[i].value_start, list[i].value_end) = r.headers[Len(list) + 1 - i].value
  <2> DEFINE j == Len(list) - i
  <2>1. Len(list) \in Nat
    BY DEF IInv, TypeOK
  <2>2. j \in 0..(Len(r.headers) - 1) /\ j + 1 = Len(list) + 1 - i
    BY <1>6, <2>1
  <2>3. Marks(list[i], r, j)
    BY <1>1 DEF At, ListMarked
  <2> HIDE DEF j
  <2>4. Slice(KeyAt(r, j), KeyEnd(r, j)) = r.headers[j + 1].key /\ Slice(ValueAt(r, j), ValueEnd(r, j)) = r.headers[j + 1].value
    BY <1>1, <2>2, HeaderSlices
  <2> QED  BY <2>2, <2>3, <2>4, Zenon DEF Marks
<1> QED  BY <1>2, <1>5, <1>6, <1>7, <1>8, Zenon

\* At first the parser is before the first byte.
LEMMA InitPlaced == Init => Placed
<1> SUFFICES ASSUME Init PROVE Placed
  OBVIOUS
<1>1. sent # NULL => \E r \in Requests : Sends(r)
  BY Zenon DEF Init, Sends
<1>2. ASSUME NEW r \in Requests, Sends(r)
      PROVE  At(r)
  <2>1. Len(r.headers) \in Nat
    BY <1>2, EndRead
  <2>2. /\ p = 0 /\ st = "line_start" /\ list = <<>> /\ pc = "read" /\ Len(list) = 0
    BY DEF Init
  <2>3. LinePlaced(r) /\ LineMarked(r) /\ CurMarked(r)
    BY <2>2 DEF LinePlaced, LineMarked, CurMarked
  <2>4. HeaderPlaced(r) /\ ListMarked(r)
    BY <2>1, <2>2 DEF HeaderPlaced, ListMarked
  <2> QED  BY <2>3, <2>4 DEF At
<1> QED  BY <1>1, <1>2 DEF Placed

\* Every step keeps the places.
LEMMA NextPlaced == IInv /\ Placed /\ [Next]_vars => Placed'
<1> SUFFICES ASSUME IInv, Placed, [Next]_vars PROVE Placed'
  OBVIOUS
<1>1. sent' = sent /\ input' = input
  BY DEF Next, Read, ReadNothing, Again, http_parse_request_line, http_parse_request_header, LineStart,
         Method, Url, Protocol, SpaceEnd, CREnd, SkipLine, HeadStart, InKey, SpacesBeforeColon,
         SpacesAfterColon, Value, Cr, Crlf, CrlfCr, Goes, Fails, Done, vars
<1>2. \A r \in Requests : Sends(r)' <=> Sends(r)
  BY <1>1 DEF Sends
<1>3. ASSUME NEW r \in Requests, Sends(r)
      PROVE  At(r)'
  <2>1. At(r)
    BY <1>3 DEF Placed
  <2>2. CASE Next
    BY <1>3, <2>1, <2>2, StepPlaced
  <2>3. CASE UNCHANGED vars
    <3>1. UNCHANGED <<pos, line, cur, list, pc, p, st>>
      BY <2>3 DEF vars, reqVars
    <3>2. LinePlaced(r)' /\ LineMarked(r)' /\ CurMarked(r)'
      BY <2>1, <3>1 DEF At, LinePlaced, LineMarked, CurMarked
    <3>3. HeaderPlaced(r)'
      BY <2>1, <3>1 DEF At, HeaderPlaced
    <3>4. ListMarked(r)'
      BY <2>1, <3>1 DEF At, ListMarked, Marks
    <3> QED  BY <3>2, <3>3, <3>4 DEF At
  <2> QED  BY <2>2, <2>3
<1>4. sent' # NULL => \E r \in Requests : Sends(r)'
  BY <1>1, <1>2 DEF Placed
<1> QED  BY <1>2, <1>3, <1>4 DEF Placed

\* However a request in good form is cut into reads, the parsers find in it what
\* the client meant, down to the last header, and leave what follows it.
THEOREM RequestsParsed == Spec => []ParsedAsSent
<1>1. Init => IInv /\ Placed
  BY InitInv, InitPlaced
<1>2. IInv /\ Placed /\ [Next]_vars => (IInv /\ Placed)'
  BY NextInv, NextPlaced
<1> QED  BY <1>1, <1>2, PlacedRight, PTL DEF Spec

\* No byte of a request in good form is refused, and once all of it is read
\* dorequest does not wait for more.
THEOREM GoodFormAnswered == Spec => GoodFormIsAnswered
<1> DEFINE Answers == sent # NULL /\ pc # "read" =>
                        /\ pc' # "closed"
                        /\ pc' = "read" => last < Len(Encoded(sent))
<1>1. Init => IInv /\ Placed
  BY InitInv, InitPlaced
<1>2. IInv /\ Placed /\ [Next]_vars => (IInv /\ Placed)'
  BY NextInv, NextPlaced
<1>3. IInv /\ Placed /\ [Next]_vars => [Answers]_vars
  <2> SUFFICES ASSUME IInv, Placed, Next, sent # NULL, pc # "read"
               PROVE  pc' # "closed" /\ (pc' = "read" => last < Len(Encoded(sent)))
    OBVIOUS
  <2>1. PICK r \in Requests : Sends(r) /\ At(r)
    BY DEF Placed
  <2>2. sent = r
    BY <2>1 DEF Sends
  <2>3. pc' # "closed"
    BY <2>1, StepPlaced
  <2>4. pc' = "read" => Again
    BY DEF Next, Read, ReadNothing, http_parse_request_line, http_parse_request_header, LineStart,
           Method, Url, Protocol, SpaceEnd, CREnd, SkipLine, AfterSkip, HeadStart, InKey, SpacesBeforeColon,
           SpacesAfterColon, Value, Cr, Crlf, CrlfCr, In, Goes, Fails, Done
  <2>5. Again => p = last /\ pc \in {"line", "header"}
    BY DEF Again
  <2> QED  BY <2>1, <2>2, <2>3, <2>4, <2>5, NotAtEnd
<1> QED  BY <1>1, <1>2, <1>3, PTL DEF Spec, GoodFormIsAnswered
=============================================================================
