----------------------------- MODULE HttpValuesMC -----------------------------
(* What module HttpValues computes, on small inputs.                         *)
EXTENDS HttpValues

Url(path, query, fragment) == [path |-> path, query |-> query, fragment |-> fragment]
NameValue(name, value) == [name |-> <<name>>, value |-> value]
Hosted(host, port, auth, path) ==
  [scheme |-> <<"s">>, host |-> host, port |-> port, auth |-> auth, path |-> path]

\* Texts of up to six pieces, and what the code itself writes for a URL.
UrlTexts ==
  SeqOf({"h", "80", "://", ":", "@", "/"}, 6) \cup
  {WriteHttpUrl(Hosted(<<"h">>, port, auth, path)) :
     port \in {None, <<"80">>},
     auth \in {None, Some([username |-> <<"u">>, password |-> <<"p">>])},
     path \in {None, Some(Url(<<"/">>, <<>>, None))}} \cup
  {<<"s", "://", "u", ":", "p", "@", "h", ":", "80", "/", "a">>}

\* parse_url reads no URL at all, and the client's get goes on with none.
ASSUME NoUrlIsRead == \A text \in UrlTexts : ~GetGoesOn(text)

Queries == {Url(<<"/">>, query, None) :
              query \in SeqOf({NameValue("n", Some(<<"v">>)), NameValue("m", None)}, 3)}

\* query_exists says of a name that has a value that it does not exist.
ASSUME QueryExistsIsInverted ==
  \A url \in Queries, name \in {<<"n">>, <<"m">>, <<"x">>} :
    /\ QueryGet(url, name) # None => ~QueryExists(url, name)
    /\ QueryExists(url, name) => QueryGet(url, name) = None

SomeHeaders == SeqOf({Header(k, v) : k \in {<<"k">>, <<"l">>}, v \in {<<"v">>, <<"w">>}}, 3)

\* A header that is added does not replace the one that is there: both are
\* written and the first is found.
ASSUME FirstHeaderIsFound ==
  \A headers \in SomeHeaders, key \in {<<"k">>, <<"l">>} :
    LET added == AddHeader(headers, key, <<"x">>) IN
    /\ HeaderAt(added, key) =
         IF Exits(headers, key) THEN HeaderAt(headers, key) ELSE Some(<<"x">>)
    /\ WriteHeaders(added) = WriteHeaders(headers) \o WriteHeader(Header(key, <<"x">>))
    /\ HeaderMade(headers, key) # headers <=> ~Exits(headers, key)

Two == [first : 1 .. 2, second : 1 .. 2]

\* Two headers of a response are different exactly if they are equal.
ASSUME HeaderDiffersFromItself ==
  \A l, r \in [key : 1 .. 2, value : 1 .. 2] : OtherKey(l, r) <=> SameKey(l, r)

\* The comparisons are those of a partial order but for "!=", which is not the
\* opposite of "==", and "<", which is not "<=" and "!=".
ASSUME HeaderOrder ==
  /\ \A l, r \in Two : LessEqual(l, r) /\ LessEqual(r, l) <=> Equal(l, r)
  /\ \A l, r \in Two : Less(l, r) => LessEqual(l, r) /\ NotEqual(l, r)
  /\ \E l, r \in Two : ~Equal(l, r) /\ ~NotEqual(l, r)
  /\ \E l, r \in Two : LessEqual(l, r) /\ ~Equal(l, r) /\ ~Less(l, r)

\* A version that is written and read again has lost its minor number.  One
\* without a second number may come to anything.
ASSUME VersionLosesMinor ==
  \A old \in {NoVersion, VersionOf(1, 1)}, major, minor \in 0 .. 3 :
    /\ ParseVersion(old, WriteVersion(VersionOf(major, minor))) = {VersionOf(major, 0)}
    /\ ParseVersion(old, <<major, Space, minor>>) = {VersionOf(major, minor)}
    /\ VersionOf(major, 7) \in ParseVersion(old, <<major>>)
    /\ [old EXCEPT !.valid = FALSE] \in ParseVersion(old, <<Word>>)

\* Every status the library itself sends has a text.
ASSUME SentStatusHasText == \A code \in {200, 400, 404, 405, 500} : StatusText(code) = code

\* Every method is read back from its text.
ASSUME MethodIsReadBack ==
  \A method \in DOMAIN MethodTexts :
    CanReadMethod(MethodTexts[method]) /\ ReadMethod(MethodTexts[method]) = method

FileTypes(type) == <<[extension |-> <<"e">>, type |-> type]>>

\* Which database is asked first decides for all later calls.
ASSUME FirstDatabaseDecides ==
  LET call(type) == [db |-> FileTypes(type), path |-> <<"/", "d", ".", "x", "/", "f", ".", "e">>]
  IN \A calls \in [1 .. 2 -> {call("t"), call("u")}] :
       \A i \in 1 .. 2 : ContentTypes(calls)[i] = calls[1].db[1].type

\* A request the program makes of a path that is one has that path; of another
\* it may have an empty one.
ASSUME RequestOfPath ==
  \A path \in SeqOf({"/", "a", "?", "="}, 4) :
    \A request \in ClientRequest(path, "Get") :
      request.ok => request.url.path = (IF UrlPath(path).ok THEN UrlPath(path).path ELSE <<>>)

=============================================================================
