------------------------------ MODULE HttpSiteMC ------------------------------
(***************************************************************************)
(* Small instances of HttpSite: a root and one directory, two names of the  *)
(* server, and requests that differ in what the parser has to tell apart.   *)
(***************************************************************************)
EXTENDS HttpSite, HttpValuesMC

MCMethods == {"GET", "ANY"}
MCNumbers == {"1.1", "80"}
\* "%w" is an escaped "w".
MCEscapes == [e \in {"%w"} |-> "w"]
MCPaths == {<<"/">>, <<"/", "a">>}

KeyValue(key, value) == [key |-> <<key>>, value |-> <<value>>]

\* base is the directory that the parameters in the path follow.
Ask(method, base, parameters, url, host) ==
  [ok |-> TRUE, method |-> method, base |-> base, parameters |-> parameters,
   url |-> url, host |-> host, port |-> "80"]

\* Requests of the client.
MCSent == {
  Ask("GET", <<"/">>, <<>>, Url(<<"/">>, <<>>, None), <<"h">>),
  Ask("GET", <<"/", "a">>, <<KeyValue("k", "w"), KeyValue("w", "k")>>,
      Url(<<"/", "a", "/", "k", "/", "w", "/", "w", "/", "k", "/">>,
          <<NameValue("n", Some(<<"v">>))>>, Some(<<"f">>)), <<"h">>),
  Ask("ANY", <<"/", "a">>, <<>>,
      Url(<<"/", "a", "/">>, <<NameValue("n", None)>>, Some(<<"f">>)), <<"*">>),
  Ask("GET", <<"/">>, <<>>,
      Url(<<"/", "a">>, <<NameValue("n", Some(<<"v">>)), NameValue("m", None)>>, None),
      <<"h">>)}

Line(method, url) == <<method, " ">> \o url \o <<" ", "HTTP/", "1.1", "CRLF">>

\* Requests of other programs: another method, no Host, an empty one, one of three parts, an
\* escaped path, an escape that is none, no blank line, a header without ":".
MCTexts == {
  Line("POST", <<"/", "a">>) \o <<"CRLF">>,
  Line("GET", <<"/", "a">>) \o <<"CRLF">>,
  Line("GET", <<"/">>) \o <<"Host", ":", "CRLF", "CRLF">>,
  Line("GET", <<"/">>) \o <<"Host", ":", "h", ":", "80", ":", "x", "CRLF", "CRLF">>,
  Line("GET", <<"/", "%w", "?", "n", "=", "%w", "&", "#", "f">>) \o <<"Host", ":", "h">>,
  Line("GET", <<"/", "%!">>) \o <<"Host", ":", "h", "CRLF", "CRLF">>,
  Line("GET", <<"/">>) \o <<"Host", "h", "CRLF", "CRLF">>,
  <<"GET", " ", "/">>}

=============================================================================
