------------------------------ MODULE MCAnswer -------------------------------
(* Answer on a small instance: two requests of a connection out of ten,       *)
(* which name a page, a script, something that is no file, and nothing.       *)
EXTENDS Answer, TLC

MCRoot == <<"r">>
MCIndex == <<"/", "i", ".", "h">>
MCMimeTypes == (<<".", "h">> :> "html")

MCHost == <<"H">>
MCConnection == <<"C", "o", "n">>
MCIfModifiedSince == <<"I">>
MCContentLength == <<"C", "o", "t">>
MCKeepAlive == <<"k", "a">>

Keep == <<[key |-> MCConnection, value |-> MCKeepAlive]>>
KeepLast == <<[key |-> MCHost, value |-> MCKeepAlive]>> \o Keep
Close == <<[key |-> MCConnection, value |-> <<"c">>], [key |-> MCHost, value |-> <<"k">>]>>
Short == <<[key |-> <<"C">>, value |-> <<"k">>]>>

Page == <<"/", "i", ".", "h">>
Empty == <<"/", "n", ".", "t">>
Script == <<"/", "s", ".", "php">>

Request(method, path, query, headers) ==
  [method |-> method, path |-> path, query |-> query, headers |-> headers]

MCRequests ==
  {Request("GET", <<"/">>, NULL, KeepLast), Request("HEAD", Page, <<"q", "u">>, Keep),
   Request("GET", <<"/", "d">>, NULL, Keep),
   Request("GET", <<"x">>, <<"q">>, Short), Request("PATCH", Script, [i \in 1..9 |-> "z"], Close),
   Request("GET", Empty, NULL, Close),
   Request("OPTIONS", <<"/">>, NULL, Keep),
   Request("POST", Script, <<"q">>, Close), Request("GET", Script, <<"q", "u">>, Keep),
   Request("GET", Script, <<"a", "b", "c">>, Keep)}

Noon == <<"1", "2">>
MCDatedRequests ==
  {Request("GET", Page, NULL, <<[key |-> MCIfModifiedSince, value |-> Noon]>>)}

File(mode, size) == [mode |-> mode, size |-> size, mtime |-> Noon]

Disk(page, dir) ==
  (MCRoot \o Page :> page) @@ (MCRoot \o Script :> File("regular", 1))
    @@ (MCRoot \o <<"/", "d">> :> dir) @@ (MCRoot :> File("other", 0))

MCDisks ==
  {Disk(File("regular", 2), File("other", 0)),
   Disk(File("foreign", 1), File("regular", 1)) @@ (MCRoot \o Empty :> File("regular", 0))}

\* A page behind php's headers; a block of which a part was read only; a
\* record that is not STDOUT.
MCReplies ==
  {[type |-> FCGI_STDOUT, content |-> <<CR, LF, CR, LF, "b">>],
   [type |-> FCGI_STDOUT, content |-> <<"h", CR, "x">>],
   [type |-> 3, content |-> <<"h", CR, LF>>]}

MCBeyond == {<<"j">>}
MCScriptFilename == <<"S">>
MCRequestMethod == <<"R", "M">>
MCQueryString == <<"Q">>
=============================================================================
