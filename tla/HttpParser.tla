------------------------------ MODULE HttpParser ------------------------------
(***************************************************************************)
(* The request parser (daw::nodepp::lib::http::parse), the data it fills,   *)
(* and the client's way of writing a request.  A text is a sequence of      *)
(* tokens: a separator the parser looks for, or a word it does not look     *)
(* into.  Where the code throws, the result is Fail.                        *)
(***************************************************************************)
EXTENDS Integers, Sequences, FiniteSetsExt, SequencesExt

CONSTANTS
  Methods,    \* the words that name a method
  Numbers,    \* the words made of digits and dots
  Escapes,    \* the escaped words, and what each stands for
  BadEscapes  \* the words with an escape that is not one

ASSUME ParserAssumption ==
  /\ BadEscapes \cap DOMAIN Escapes = {}
  /\ Methods \cap Numbers = {}

Separators == {" ", "/", "?", "#", "&", "=", ":", "@", "://", "HTTP/", "CRLF"}

Fail == [ok |-> FALSE]
None == <<>>
Some(text) == <<text>>

-----------------------------------------------------------------------------
(* daw::string_view.                                                        *)

\* find_first_of, one past the end when there is none.
Find(text, tokens) ==
  Min({i \in DOMAIN text : text[i] \in tokens} \cup {Len(text) + 1})

Before(text, tokens) == SubSeq(text, 1, Find(text, tokens) - 1)
From(text, tokens) == SubSeq(text, Find(text, tokens), Len(text))
After(text, tokens) == SubSeq(text, Find(text, tokens) + 1, Len(text))
Has(text, tokens) == Find(text, tokens) <= Len(text)

\* daw::parser::trim_left.
TrimLeft(text) ==
  LET blank == {i \in DOMAIN text : \A j \in 1 .. i : text[j] \in {" ", "CRLF"}}
  IN SubSeq(text, Cardinality(blank) + 1, Len(text))

\* The pieces between the separators, empty ones included.
Split(text, token) ==
  LET cuts == <<0>> \o SetToSortSeq({i \in DOMAIN text : text[i] = token}, <)
              \o <<Len(text) + 1>>
  IN [k \in 1 .. Len(cuts) - 1 |-> SubSeq(text, cuts[k] + 1, cuts[k + 1] - 1)]

\* url_decode and make_hex: an escape that is none throws.
CanDecode(text) == \A i \in DOMAIN text : text[i] \notin BadEscapes
Decode(text) ==
  [i \in DOMAIN text |-> IF text[i] \in DOMAIN Escapes THEN Escapes[text[i]] ELSE text[i]]

-----------------------------------------------------------------------------
(* The request line.                                                        *)

CanParsePair(text) == text # <<>> /\ CanDecode(text)

\* parse_query_pair.  Without "=" the position is npos, one more is 0, and
\* the value is the whole text: the name again.
Pair(text) ==
  LET value == IF Has(text, {"="}) THEN After(text, {"="}) ELSE text
  IN [name |-> Decode(Before(text, {"="})),
      value |-> IF value # <<>> THEN Some(Decode(value)) ELSE None]

\* parse_query_pairs: a separator at the very end is not followed by a pair.
QueryPieces(text) ==
  LET pieces == Split(text, "&")
  IN IF Last(pieces) = <<>> THEN Front(pieces) ELSE pieces

\* path_parser: up to the query or the fragment.
PathText(url) == Before(url, {"?", "#"})

\* query_parser: what follows the path, if a "?" does, up to the fragment.
HasQuery(rest) == rest # <<>> /\ rest[1] = "?"
QueryText(rest) == IF HasQuery(rest) THEN Before(Tail(rest), {"#"}) ELSE <<>>

\* fragment_parser, behind the query.  Without a query its bounds are the rest
\* of the text, and nothing is left to look for a fragment in.
FragmentText(rest) == IF HasQuery(rest) THEN From(Tail(rest), {"#"}) ELSE <<>>

\* absolute_url_path_parser, up to the first blank.
UrlPath(text) ==
  LET url == Before(text, {" "})
      rest == From(url, {"?", "#"})
      pieces == IF QueryText(rest) = <<>> THEN <<>> ELSE QueryPieces(QueryText(rest))
      fragment == FragmentText(rest)
  IN IF /\ url # <<>> /\ url[1] = "/"
        /\ CanDecode(PathText(url)) /\ CanDecode(fragment)
        /\ \A i \in DOMAIN pieces : CanParsePair(pieces[i])
     THEN [ok |-> TRUE, path |-> Decode(PathText(url)),
           query |-> [i \in DOMAIN pieces |-> Pair(pieces[i])],
           fragment |-> IF fragment = <<>> THEN None ELSE Some(Decode(Tail(fragment)))]
     ELSE Fail

\* http_version_parser: anything may stand before HTTP/.
Version(text) == After(text, {"HTTP/"})
IsVersion(version) ==
  version # <<>> /\ \A i \in DOMAIN version : version[i] \in Numbers

\* request_line_parser and http_method_parser.
RequestLine(text) ==
  LET method == Before(text, {" "})
      rest == TrimLeft(From(text, {" "}))
      url == UrlPath(rest)
      version == Version(From(rest, {" "}))
  IN IF /\ Len(method) = 1 /\ method[1] \in Methods
        /\ url.ok
        /\ IsVersion(version)
     THEN [ok |-> TRUE, method |-> method[1], url |-> url, version |-> version]
     ELSE Fail

-----------------------------------------------------------------------------
(* The headers, and the request.                                            *)

\* header_parser and split_headers: up to the first empty line; the blank
\* lines before the first header do not count, and none is kept empty.
HeaderLines(text) ==
  LET ends == {i \in 2 .. Len(text) : text[i - 1] = "CRLF" /\ text[i] = "CRLF"}
      block == IF ends = {} THEN text ELSE SubSeq(text, 1, Min(ends) - 2)
  IN SelectSeq(Split(TrimLeft(block), "CRLF"), LAMBDA line : line # <<>>)

\* Mutant of HeaderPair: the last ":" divides.
PairAtLast(line) ==
  LET colon == Max({i \in DOMAIN line : line[i] = ":"})
  IN [name |-> SubSeq(line, 1, colon - 1), value |-> TrimLeft(SubSeq(line, colon + 1, Len(line)))]

\* header_pair_parser.
HeaderPair(line) ==
  [name |-> Before(line, {":"}), value |-> TrimLeft(After(line, {":"}))]

\* request_parser, http_request_parser and parse_http_request.
HttpRequest(text) ==
  LET line == RequestLine(Before(text, {"CRLF"}))
      headers == HeaderLines(After(text, {"CRLF"}))
  IN IF /\ Has(text, {"CRLF"})
        /\ line.ok
        /\ \A i \in DOMAIN headers : Has(headers[i], {":"})
     THEN [ok |-> TRUE, line |-> line,
           headers |-> [i \in DOMAIN headers |-> HeaderPair(headers[i])]]
     ELSE Fail

\* HttpClientRequestHeaders::find: the first with that very name.
FindHeader(request, name) ==
  LET found == {i \in DOMAIN request.headers : request.headers[i].name = name}
  IN IF found = {} THEN None ELSE Some(request.headers[Min(found)].value)

\* HttpAbsoluteUrlPath::query_get: the first pair's value, if it has one.
QueryGet(url, name) ==
  LET found == {i \in DOMAIN url.query : url.query[i].name = name}
  IN IF found = {} THEN None ELSE url.query[Min(found)].value

\* HttpClientRequestImpl::get_parameters: what follows the prefix, token by
\* token, a key and its value in turn.
ParameterStep(state, token) ==
  CASE token # "/" -> [state EXCEPT !.text = Append(@, token)]
    [] token = "/" /\ ~state.keyed ->
         [state EXCEPT !.keyed = TRUE, !.key = state.text, !.text = <<>>]
    [] OTHER -> [state EXCEPT !.keyed = FALSE, !.text = <<>>,
                   !.pairs = Append(@, [key |-> state.key, value |-> state.text])]

\* At the end of the path the last text is a value, then a key again; a key
\* with nothing behind it is lost.
Parameters(path, prefix) ==
  LET skip == Len(prefix) + (IF Last(prefix) = "/" THEN 0 ELSE 1)
      end == FoldLeft(ParameterStep,
                      [keyed |-> FALSE, key |-> <<>>, text |-> <<>>, pairs |-> <<>>],
                      SubSeq(path, skip + 1, Len(path)))
      last == [key |-> end.text, value |-> <<>>]
  IN CASE end.text = <<>> -> end.pairs
       [] end.text # <<>> /\ end.keyed -> end.pairs \o <<[key |-> end.key, value |-> end.text], last>>
       [] OTHER -> Append(end.pairs, last)

-----------------------------------------------------------------------------
(* HttpClientImpl::request: the text of a request.                          *)

\* to_string of a URL's path: every pair is written behind a "?".
WritePair(pair) ==
  <<"?">> \o pair.name \o (IF pair.value = None THEN <<>> ELSE <<"=">> \o pair.value[1])

WriteUrl(url) ==
  url.path \o FlattenSeq([i \in DOMAIN url.query |-> WritePair(url.query[i])])
  \o (IF url.fragment = None THEN <<>> ELSE <<"#">> \o url.fragment[1])

WriteRequest(method, url, host, port) ==
  <<method, " ">> \o WriteUrl(url) \o <<" ", "HTTP/", "1.1", "CRLF">>
  \o <<"Host", ":", " ">> \o host \o <<":", port, "CRLF", "CRLF">>

=============================================================================
