---------------------------- MODULE MCHttpParse -----------------------------
(* HttpParse on a small instance: requests with one or two headers, and     *)
(* every change of a single byte of one of them.                           *)
EXTENDS HttpParse

MCUpper == {"G", "E"}
MCOther == {"u", "v"}

H1 == [key |-> <<"u">>, gap |-> <<>>, lead |-> <<>>, value |-> <<"v">>]
H2 == [key |-> <<"u", "G">>, gap |-> <<"SP">>, lead |-> <<"SP", "SP">>, value |-> <<"v", "SP">>]
H3 == [key |-> <<"G">>, gap |-> <<>>, lead |-> <<"SP">>, value |-> <<"COLON", "SP", "u">>]

MCRequests ==
  [method : {<<"G">>, <<"G", "E">>}, url : {<<"u">>, <<"u", "v">>}, protocol : {<<"v">>, <<>>},
   gap : {<<>>, <<"SP">>}, headers : {<<H1>>, <<H2>>, <<H1, H2>>, <<H3, H1>>},
   rest : {<<>>, <<"CR", "G">>}]

Sample == Encoded([method |-> <<"G">>, url |-> <<"u">>, protocol |-> <<"v">>, gap |-> <<>>,
                   headers |-> <<H1, H1>>, rest |-> <<>>])

Before(n) == SubSeq(Sample, 1, n - 1)
After(n)  == SubSeq(Sample, n + 1, Len(Sample))

MCInputs ==
  UNION {{Before(n) \o After(n)}
           \cup {Before(n) \o <<b>> \o After(n) : b \in Bytes}
           \cup {Before(n) \o <<b, Sample[n]>> \o After(n) : b \in Bytes} : n \in 1..Len(Sample)}
=============================================================================
