------------------------------ MODULE HttpValues ------------------------------
(***************************************************************************)
(* The values around a request that are no part of reading one: URLs with a *)
(* host, the headers of a response, versions, status codes, the names of    *)
(* methods, and the types of files.  Texts are as in module HttpParser.     *)
(***************************************************************************)
EXTENDS HttpParser

-----------------------------------------------------------------------------
(* URLs: url_parser, for parse_url and the client's get.  Each part reads   *)
(* on where the text ended that the part before it returned.                *)

Used(count, part) == [ok |-> TRUE, used |-> count, part |-> part]
Rest(text, result) == SubSeq(text, result.used + 1, Len(text))

\* url_scheme_parser.
UrlScheme(text) ==
  LET scheme == Before(text, {"://"})
  IN IF Has(text, {"://"}) /\ CanDecode(scheme) THEN Used(Len(scheme), Decode(scheme))
     ELSE Fail

\* url_auth_parser returns a text that goes on to the end, with and without a
\* name in it; the name begins with its "@".
UrlAuth(text) ==
  LET ats == {i \in DOMAIN text : text[i] = "@"}
      name == SubSeq(text, Max(ats), Len(text))
  IN CASE text = <<>> -> Fail
       [] text # <<>> /\ ats = {} -> Used(Len(text), None)
       [] ats # {} /\ Has(name, {":"}) /\ CanDecode(name) ->
            Used(Len(text), Some([username |-> Decode(Before(name, {":"})),
                                  password |-> Decode(After(name, {":"}))]))
       [] OTHER -> Fail

\* url_host_parser looks for what no host has in it, and takes what is behind.
NotInHosts == {"@", ":", "/", "?", "=", " "}
UrlHost(text) ==
  LET behind == From(text, NotInHosts)
      host == Before(behind, NotInHosts)
  IN IF Has(text, NotInHosts) /\ CanDecode(host)
       THEN Used(Find(text, NotInHosts) - 1 + Len(host), Decode(host))
       ELSE Fail

\* url_port_parser stores a number into an optional that is empty: undefined,
\* here no port.  With no number to read it returns all of the text.
UrlPort(text) ==
  LET behind == TrimLeft(Tail(text))
      digits == Before(behind, ToSet(behind) \ Numbers)
  IN CASE text = <<>> \/ text[1] # ":" -> Used(Len(text), None)
       [] text # <<>> /\ text[1] = ":" /\ digits # <<>> ->
            Used(Len(text) - Len(behind) + Len(digits), None)
       [] OTHER -> Fail

\* url_parser, http_url_parser and parse_url.
HttpUrl(text) ==
  LET scheme == UrlScheme(text)
      behind == SubSeq(text, scheme.used + 2, Len(text))
      auth == UrlAuth(behind)
      atHost == Rest(behind, auth)
      host == UrlHost(atHost)
      atPort == Rest(atHost, host)
      port == UrlPort(atPort)
      path == UrlPath(Rest(atPort, port))
  IN IF scheme.ok /\ auth.ok /\ host.ok /\ port.ok /\ path.ok
       THEN [ok |-> TRUE, scheme |-> scheme.part, auth |-> auth.part, host |-> host.part,
             port |-> port.part, path |-> path]
       ELSE Fail

\* The client's get prints the URL it parsed, without a look at the pointer.
GetGoesOn(text) == HttpUrl(text).ok

WriteAuth(auth) == auth.username \o <<":">> \o auth.password

\* to_string of a URL: no ":" before the port, and the name behind them.
WriteHttpUrl(url) ==
  url.scheme \o <<"://">> \o url.host
  \o (IF url.port = None THEN <<>> ELSE url.port)
  \o (IF url.auth = None THEN <<>> ELSE WriteAuth(url.auth[1]) \o <<"@">>)
  \o (IF url.path = None THEN <<>> ELSE <<"/">> \o WriteUrl(url.path[1]))

\* HttpAbsoluteUrlPath::query_exists compares the place found with the end: the
\* names that do not exist.
QueryExists(url, name) == \A i \in DOMAIN url.query : url.query[i].name # name

-----------------------------------------------------------------------------
(* Headers: HttpHeaders, for responses, and the comparison of two headers   *)
(* of a request.                                                            *)

Header(key, value) == [key |-> key, value |-> value]

Exits(headers, key) == \E i \in DOMAIN headers : headers[i].key = key
FirstOf(headers, key) == Min({i \in DOMAIN headers : headers[i].key = key})

\* at throws without one; operator[] const looks behind the end.
HeaderAt(headers, key) ==
  IF Exits(headers, key) THEN Some(headers[FirstOf(headers, key)].value) ELSE None

\* operator[]: an empty one is made.
HeaderMade(headers, key) ==
  IF Exits(headers, key) THEN headers ELSE Append(headers, Header(key, <<>>))

\* add, which does not look for one, and add_header.
AddHeader(headers, key, value) == Append(headers, Header(key, value))

\* to_string.
WriteHeader(header) == header.key \o <<":", " ">> \o header.value \o <<"CRLF">>
WriteHeaders(headers) == FlattenSeq([i \in DOMAIN headers |-> WriteHeader(headers[i])])

\* operator== and operator!= of key_value_t, which a header is: both the same.
SameKey(left, right) == left.key = right.key
OtherKey(left, right) == left.key = right.key

\* The operators ==, !=, < and <= of HttpClientRequestHeader: each compares the
\* names and the values, here numbers.
Equal(left, right) == left.first = right.first /\ left.second = right.second
NotEqual(left, right) == left.first # right.first /\ left.second # right.second
Less(left, right) == left.first < right.first /\ left.second < right.second
LessEqual(left, right) == left.first <= right.first /\ left.second <= right.second

-----------------------------------------------------------------------------
(* HttpVersion, read by a stream that separates two numbers by a blank.  A  *)
(* text is a sequence of unsigned numbers and of the following.             *)

Dot == -1
Space == -2
Word == -3

\* bound: what a number that was never written to may hold.
Unwritten == {0, 7, 300}

IsNumber(text, i) == i <= Len(text) /\ text[i] \in Nat
FirstNumber(text) == SelectInSeq(text, LAMBDA token : token # Space)

\* parse_string: the numbers it may come to.  A number that is not there is
\* read as 0, and one behind a failure or the end is not written to.
VersionNumbers(text) ==
  LET i == FirstNumber(text)
      rest == SubSeq(text, i + 1, Len(text))
      j == FirstNumber(rest)
  IN CASE i = 0 -> Unwritten \X Unwritten
       [] i > 0 /\ ~IsNumber(text, i) -> {0} \X Unwritten
       [] i > 0 /\ IsNumber(text, i) /\ j = 0 -> {text[i]} \X Unwritten
       [] OTHER -> {<<text[i], IF IsNumber(rest, j) THEN rest[j] ELSE 0>>}

NoVersion == [major |-> 0, minor |-> 0, valid |-> FALSE]
VersionOf(major, minor) == [major |-> major, minor |-> minor, valid |-> TRUE]

\* operator=, and the constructor with old = NoVersion: a number that does not
\* fit a byte throws, and what throws makes the version invalid.
ParseVersion(old, text) ==
  {IF n[1] \in 0 .. 255 /\ n[2] \in 0 .. 255 THEN VersionOf(n[1], n[2])
   ELSE [old EXCEPT !.valid = FALSE] : n \in VersionNumbers(text)}

WriteVersion(version) == <<version.major, Dot, version.minor>>

-----------------------------------------------------------------------------
(* Status codes, names of methods, types of files.                          *)

\* HttpStatusCodes: the codes that have a text of their own.
StatusCodes ==
  (100 .. 102) \cup (200 .. 208) \cup {226} \cup (300 .. 305) \cup {307, 308}
  \cup (400 .. 417) \cup (422 .. 424) \cup {426, 428, 429, 431}
  \cup (500 .. 508) \cup {510, 511}
StatusText(code) == IF code \in StatusCodes THEN code ELSE "Generic Error"

MethodTexts ==
  [Get |-> "GET", Post |-> "POST", Connect |-> "CONNECT", Delete |-> "DELETE", Head |-> "HEAD",
   Options |-> "OPTIONS", Put |-> "PUT", Trace |-> "TRACE", Any |-> "ANY"]

\* http_request_method_from_string throws for any other text.
CanReadMethod(text) == \E method \in DOMAIN MethodTexts : MethodTexts[method] = text
ReadMethod(text) == CHOOSE method \in DOMAIN MethodTexts : MethodTexts[method] = text

\* create_http_client_request: a path that is not one throws, or leaves the
\* URL as it was made.
ClientRequest(path, method) ==
  LET url == UrlPath(path)
      NoUrl == [ok |-> TRUE, path |-> <<>>, query |-> <<>>, fragment |-> None]
  IN IF url.ok THEN {[ok |-> TRUE, method |-> method, url |-> url]}
     ELSE {Fail, [ok |-> TRUE, method |-> method, url |-> NoUrl]}

\* The extension of a path's last name, with its dot.
Extension(path) ==
  LET dots == {i \in DOMAIN path : path[i] = "." /\ ~Has(SubSeq(path, i, Len(path)), {"/"})}
  IN IF dots = {} THEN <<>> ELSE SubSeq(path, Max(dots), Len(path))

\* FileInfo::get_content_type: nothing for what is not in the database.
ContentType(db, path) ==
  LET found == {i \in DOMAIN db : db[i].extension = Tail(Extension(path))}
  IN IF Extension(path) = <<>> \/ found = {} THEN "" ELSE db[Min(found)].type

\* get_content_type, called again and again: the database of the first call is
\* the one of all calls.
ContentTypes(calls) == [i \in DOMAIN calls |-> ContentType(calls[1].db, calls[i].path)]

=============================================================================
