------------------------------- MODULE HttpSite -------------------------------
(***************************************************************************)
(* HttpSiteImpl with the services registered on it, HttpWebServiceImpl and  *)
(* HttpStaticServiceImpl: from the text of a request (module HttpParser) to *)
(* the listener that answers it, or the page error, and the response        *)
(* (module Response).  One request is handled: each connection has its own.  *)
(*                                                                          *)
(* A handler runs to its end, except the static service's, whose steps are  *)
(* apart: other processes change the files it looks at in between.  The     *)
(* loop of match_site is a step for each registration: nothing else happens *)
(* meanwhile, and what the loop has found so far can be reasoned about.     *)
(***************************************************************************)
EXTENDS HttpParser, Response

CONSTANTS
  Hosts,          \* host names a registration may ask for, "*" among them
  Paths,          \* paths for registrations
  Sent,           \* requests a client writes: method, url, host and port
  Texts,          \* other texts that arrive as requests
  Outcomes,       \* what listeners do: "answers", "throws", "breaks" off
  MaxSites,       \* bound: registrations
  MaxPages,       \* bound: page error listeners
  FileSizes       \* sizes of the one file there may be, in cells

ASSUME SiteAssumption ==
  /\ {"answers"} \subseteq Outcomes /\ Outcomes \subseteq {"answers", "throws", "breaks"}
  /\ IsFiniteSet(Methods) /\ Paths \subseteq Seq(STRING)
  /\ MaxSites \in Nat /\ MaxPages \in Nat
  /\ FileSizes \subseteq Nat \ {0}

ASSUME AnswerFits == SendBuffer >= 8 * HeadCells

VARIABLES
  sizeFirst,  \* file_size is evaluated before the calls it is an argument of
  sites,      \* m_registered_sites
  pages,      \* m_error_listeners: error numbers, 0 for any, and what they do
  file,       \* the size of the file under the static service, 0 for none
  sent,       \* the request the client wrote, if it was one of those
  request,    \* the parsed request
  at,         \* the registration that match_site's loop looks at
  chosen,     \* the registration that match_site has found, 0 for end()
  r,          \* its response
  stage,      \* how far the request has got
  loud        \* whose emit_error throws: nobody's, the static service's, the
              \* site's as well; decided when the first of them is called

registerVars == <<sizeFirst, sites, pages>>
requestVars == <<sent, request, at, chosen>>
vars == <<registerVars, file, requestVars, r, stage, loud>>

\* A registration's owner is a listener of the program, a web service's
\* handler with the methods it allows, or the static service.
Registration(host, path, method, owner, does, allowed) ==
  [host |-> host, path |-> path, method |-> method, owner |-> owner,
   does |-> does, allowed |-> allowed]

NoRequest == Fail

Init ==
  /\ sizeFirst \in BOOLEAN
  /\ sites = <<>>
  /\ pages = <<>>
  /\ file \in FileSizes \cup {0}
  /\ sent = NoRequest
  /\ request = NoRequest
  /\ at = 0 /\ chosen = 0
  /\ r = New
  /\ stage = "idle"
  /\ loud = "nobody"

-----------------------------------------------------------------------------
(* Registration: on_requests_for, the services' connect, page errors.       *)

\* Before the first request, to keep the instance small.
Registering == stage = "idle" /\ request = NoRequest /\ r = New

Register(new) ==
  /\ Len(sites) + Len(new) <= MaxSites
  /\ sites' = sites \o new
  /\ UNCHANGED <<sizeFirst, pages, file, requestVars, r, stage, loud>>

OnRequestsFor ==
  /\ Registering
  /\ \E path \in Paths, method \in Methods, does \in Outcomes :
       Register(<<Registration("*", path, method, "listener", does, {})>>)

\* The overload with a host name stores that as the path too.
OnRequestsForHost ==
  /\ Registering
  /\ \E host \in Hosts \ {"*"}, method \in Methods, does \in Outcomes :
       Register(<<Registration(host, <<host>>, method, "listener", does, {})>>)

\* HttpWebServiceImpl::connect registers its path for each method.
ConnectWebService ==
  /\ Registering
  /\ \E path \in Paths, allowed \in SUBSET Methods \ {{}}, does \in Outcomes :
       LET methods == SetToSeq(allowed)
       IN Register([i \in DOMAIN methods |->
                      Registration("*", path, methods[i], "web", does, allowed)])

\* HttpStaticServiceImpl: its base path ends with a "/".
BasePath(path) == IF Last(path) = "/" THEN path ELSE Append(path, "/")
ConnectStaticService ==
  /\ Registering
  /\ \E path \in Paths :
       Register(<<Registration("*", BasePath(path), "GET", "static", "answers", {})>>)

RemoveSite ==
  /\ Registering
  /\ \E i \in DOMAIN sites : sites' = RemoveAt(sites, i)
  /\ UNCHANGED <<sizeFirst, pages, file, requestVars, r, stage, loud>>

SetPages(new) ==
  /\ Registering
  /\ Cardinality(DOMAIN new) <= MaxPages
  /\ pages' = new
  /\ UNCHANGED <<sizeFirst, sites, file, requestVars, r, stage, loud>>

Put(code, does) ==
  [c \in DOMAIN pages \cup {code} |-> IF c = code THEN does ELSE pages[c]]

OnPageError ==
  \E code \in {400, 404, 500}, does \in Outcomes \ {"breaks"} : SetPages(Put(code, does))
OnAnyPageError == \E does \in Outcomes \ {"breaks"} : SetPages(Put(0, does))
ExceptOnPageError ==
  \E code \in DOMAIN pages : SetPages([c \in DOMAIN pages \ {code} |-> pages[c]])
ClearPageErrorListeners == pages # <<>> /\ SetPages(<<>>)

-----------------------------------------------------------------------------
(* Page errors.  The result says whether the listener threw.                *)

Done(response) == [r |-> response, threw |-> FALSE]
Threw(response) == [r |-> response, threw |-> TRUE]

\* A listener of the program, which answers with one cell, throws before it
\* sends, or throws when it has sent the status.
Listen(response, does) ==
  CASE does = "answers" -> Done(Close(End(Write(response, 1)), TRUE))
    [] does = "throws" -> Threw(response)
    [] does = "breaks" -> Threw(SendStatus(response))

PageListener(code) ==
  IF code \in DOMAIN pages THEN pages[code]
  ELSE IF 0 \in DOMAIN pages THEN pages[0] ELSE "default"

\* emit_page_error forgets what was sent, and calls the error's listener, the
\* one for any error, or the default.
PageError(response, code) ==
  LET clean == Reset(response)
  IN IF PageListener(code) = "default" THEN Done(ErrorResponse(clean))
     ELSE Listen(clean, PageListener(code))

\* The static service delegates its errors to the site without an argument: a
\* listener of the site's errors does not fit, and emit_error throws.  So does
\* the site's when a web service connected to it has such a listener.  (Or a
\* listener of errors throws by itself.)
Loud(threw, emitters) == IF threw THEN {"nobody"} \cup emitters ELSE {loud}

\* Mutant of Guarded: the listener's exception is left to run_if_valid.
Unguarded(result, who) == result

\* What is thrown inside handle_request_made's second try becomes an error
\* 400; what that throws is caught by run_if_valid, and nothing is answered.
\* When emit_error throws, the connection's own catch answers.
Guarded(result, who) ==
  CASE ~result.threw -> result
    [] result.threw /\ who = "site" -> Done(ErrorResponse(result.r))
    [] OTHER -> PageError(result.r, 400)

-----------------------------------------------------------------------------
(* Matching.                                                                *)

\* boost::filesystem::path::parent_path, repeated: "/a/b" has the parents
\* "/a", "/" and the empty path, "/a/" has "/a" first.
Ancestors(path) ==
  {path, <<>>} \cup {IF i = 1 THEN <<"/">> ELSE SubSeq(path, 1, i - 1) :
                       i \in {j \in DOMAIN path : path[j] = "/"}}
IsParentOf(parent, child) == parent \in Ancestors(child)

HostMatches(registered, current) == registered = current \/ "*" \in {registered, current}
MethodMatches(registered, current) ==
  registered = current \/ "ANY" \in {registered, current}

Covers(site, host, path, method) ==
  /\ HostMatches(site.host, host)
  /\ IsParentOf(site.path, path)
  /\ MethodMatches(site.method, method)

\* Mutant of Better: a path as long takes the place as well, so the last of the
\* longest is found.
BetterOrEqual(i, best) == best = 0 \/ Len(sites[best].path) <= Len(sites[i].path)

\* A longer path takes the place of the one found before; 0 stands for end().
Better(i, best) == best = 0 \/ Len(sites[best].path) < Len(sites[i].path)

\* The host the request asks for: its first part, unless there are three.
HostOf(parsed) ==
  LET header == FindHeader(parsed, <<"Host">>)
      parts == IF header = None THEN <<>> ELSE Split(header[1], ":")
  IN IF Len(parts) \in {1, 2} THEN parts[1] ELSE <<>>

-----------------------------------------------------------------------------
(* A request.                                                               *)

Finish(result) ==
  /\ r' = result.r
  /\ stage' = "idle"

FinishGuarded(result) ==
  \E who \in Loud(result.threw, {"site"}) :
    loud' = who /\ Finish(Guarded(result, who))

\* What arrives, and what it is read as: TLC parses each text once.
Written(s) == WriteRequest(s.method, s.url, s.host, s.port)
Parsed == [text \in Texts \cup {Written(s) : s \in Sent} |-> HttpRequest(text)]

\* The connection's data listener: parse, and 400 for what does not parse.
Receive(text, written) ==
  LET parsed == Parsed[text] IN
  /\ stage = "idle" /\ request = NoRequest
  /\ sent' = written
  /\ request' = parsed
  /\ at' = 0 /\ chosen' = 0
  /\ IF parsed.ok
       THEN r' = New /\ stage' = "received"
       ELSE Finish(Done(ErrorResponse(New)))
  /\ UNCHANGED <<registerVars, file, loud>>

ReceiveSent == \E s \in Sent : Receive(Written(s), s)
ReceiveText == \E text \in Texts : Receive(text, NoRequest)

\* handle_request_made up to match_site.  Without a host nothing happens.
Route ==
  /\ stage = "received"
  /\ IF HostOf(request) = <<>>
       THEN Finish(Done(r)) /\ UNCHANGED at
       ELSE at' = 1 /\ stage' = "matching" /\ UNCHANGED r
  /\ UNCHANGED <<registerVars, file, sent, request, chosen, loud>>

\* match_site.
CoversRequest(i) ==
  Covers(sites[i], HostOf(request)[1], request.line.url.path, request.line.method)

Match ==
  /\ stage = "matching" /\ at <= Len(sites)
  /\ at' = at + 1
  /\ chosen' = IF CoversRequest(at) /\ Better(at, chosen) THEN at ELSE chosen
  /\ UNCHANGED <<registerVars, file, sent, request, r, stage, loud>>

\* The rest of handle_request_made up to the listener.
Matched ==
  /\ stage = "matching" /\ at > Len(sites)
  /\ IF chosen = 0 THEN FinishGuarded(PageError(r, 404))
     ELSE stage' = "routed" /\ UNCHANGED <<r, loud>>
  /\ UNCHANGED <<registerVars, file, requestVars>>

CallListener ==
  /\ stage = "routed" /\ sites[chosen].owner = "listener"
  /\ FinishGuarded(Listen(r, sites[chosen].does))
  /\ UNCHANGED <<registerVars, file, requestVars>>

\* The web service answers 405 itself, and 500 when its handler throws.
CallWebService ==
  LET site == sites[chosen]
      method == request.line.method
      result == Listen(r, site.does)
  IN /\ stage = "routed" /\ site.owner = "web"
     /\ IF method \in site.allowed
          THEN Finish(IF result.threw THEN Done(ErrorResponse(result.r)) ELSE result)
          ELSE Finish(Done(ErrorResponse(r)))
     /\ UNCHANGED <<registerVars, file, requestVars, loud>>

\* What is thrown inside process_request becomes an error 500; what that
\* throws is caught by run_if_valid.  When the service's emit_error throws,
\* both tries are left, and handle_request_made's catch is next.
Failed(response, who) ==
  IF who = "nobody" THEN PageError(response, 500) ELSE Guarded(Threw(response), who)

FinishStatic(result) ==
  \E who \in Loud(result.threw, {"service", "site"}) :
    loud' = who /\ Finish(IF result.threw THEN Failed(result.r, who) ELSE result)

\* process_request: no file there is 404.  The file is the base path itself,
\* the service's directory with its default file; any other name is missing.
LookUp ==
  LET prefix == Len(sites[chosen].path) - 1
      name == SubSeq(request.line.url.path, prefix + 1, Len(request.line.url.path))
  IN /\ stage = "routed" /\ sites[chosen].owner = "static"
     /\ IF name = <<"/">> /\ file > 0
          THEN stage' = "static" /\ UNCHANGED <<r, loud>>
          ELSE FinishStatic(PageError(r, 404))
     /\ UNCHANGED <<registerVars, file, requestVars>>

\* send_status and prepare_raw_write, with the file's size, which may be asked
\* for before or after the status is sent.
SendHead ==
  /\ stage = "static"
  /\ IF file = 0
       THEN FinishStatic(Threw(IF sizeFirst THEN r ELSE SendStatus(r)))
       ELSE /\ r' = PrepareRawWrite(SendStatus(r), file)
            /\ stage' = "sending"
            /\ UNCHANGED loud
  /\ UNCHANGED <<registerVars, file, requestVars>>

\* write_file sends the file as it is now, or only emits an error; close.
SendFile ==
  /\ stage = "sending"
  /\ Finish(Done(Close(IF file > 0 THEN WriteRaw(r, file) ELSE r, FALSE)))
  /\ UNCHANGED <<registerVars, file, requestVars, loud>>

\* Another process removes the file or makes it shorter.  Before LookUp that
\* is a different initial state.
ChangeFile ==
  /\ stage \in {"static", "sending"}
  /\ file' \in FileSizes \cup {0}
  /\ file' < file
  /\ UNCHANGED <<registerVars, requestVars, r, stage, loud>>

-----------------------------------------------------------------------------
Next ==
  \/ OnRequestsFor \/ OnRequestsForHost \/ ConnectWebService \/ ConnectStaticService
  \/ RemoveSite
  \/ OnPageError \/ OnAnyPageError \/ ExceptOnPageError \/ ClearPageErrorListeners
  \/ ReceiveSent \/ ReceiveText
  \/ Route \/ Match \/ Matched
  \/ CallListener \/ CallWebService \/ LookUp \/ SendHead \/ SendFile
  \/ ChangeFile

Spec == Init /\ [][Next]_vars

-----------------------------------------------------------------------------
\* A request that the client wrote is read as it was written: its method, its
\* path and its Host; the keys and values in a path that ends with "/"; its
\* query when it has at most one pair, with a value, and then its fragment.
\* (More pairs run together, a name without a value becomes its own value, and
\* a fragment without a query is not found.)
ReadAsWritten ==
  sent.ok /\ stage = "received" =>
    LET url == request.line.url
        plain == \A i \in DOMAIN sent.url.query : sent.url.query[i].value # None
    IN /\ request.line.method = sent.method
       /\ url.path = sent.url.path
       /\ FindHeader(request, <<"Host">>) = Some(sent.host \o <<":", sent.port>>)
       /\ Len(sent.url.query) <= 1 /\ plain => url.query = sent.url.query
       /\ Len(sent.url.query) = 1 => url.fragment = sent.url.fragment
       /\ \A i \in DOMAIN sent.url.query :
            sent.url.query[i].value # None /\ Len(sent.url.query) = 1 =>
              QueryGet(url, sent.url.query[i].name) = sent.url.query[i].value
       /\ Last(url.path) = "/" => Parameters(url.path, sent.base) = sent.parameters

\* Of the first n registrations, best covers the request with the longest path
\* of all that do, and is the first of those; it is 0 when none does.
IsBest(best, n) ==
  LET covering == {i \in 1 .. n : CoversRequest(i)}
  IN IF covering = {} THEN best = 0
     ELSE /\ best \in covering
          /\ \A i \in covering :
               \/ Len(sites[i].path) < Len(sites[best].path)
               \/ Len(sites[i].path) = Len(sites[best].path) /\ best <= i

\* The registration that gets a request covers it, with the longest path of
\* all that do, and is the first of those: no order of registration and no
\* wildcard lets a shorter one answer.  When nobody gets it, and the client is
\* told that there is no such page, no registration covers it.
LongestPathAnswers ==
  \/ stage \in {"routed", "static", "sending"}
  \/ stage = "idle" /\ request.ok /\ HostOf(request) # <<>>
  => IsBest(chosen, Len(sites)) /\ (stage # "idle" => chosen # 0)

\* When a request has been handled an answer has been sent and closed, with
\* two exceptions, and then the client waits for ever: the request names no
\* host the site can use, or the page error that stands for an exception (400
\* for a listener's, 500 in the static service) throws as well.  That is so
\* also when emit_error throws on the way: the next catch answers.
AnsweredOrLeft ==
  stage = "idle" /\ (request.ok \/ r # New) =>
    \/ r.stream = "closed" /\ r.wire # <<>>
    \/ request.ok /\ HostOf(request) = <<>>
    \/ loud # "site" /\ PageListener(400) = "throws"
    \/ loud = "nobody" /\ PageListener(500) = "throws"

\* The client gets the beginning of one answer, whichever page errors are set
\* and whatever they throw, also when the file goes away or shrinks while it
\* is sent: if the file's size is asked for before the status is sent, and no
\* listener throws with a part of its own answer on the way.
OneAnswer ==
  sizeFirst /\ (chosen # 0 => sites[chosen].does # "breaks") =>
    \E n \in {0, 1} \cup FileSizes : IsPrefix(r.wire, Whole(n))

=============================================================================
