---------------------------- MODULE ErrorDelegation ----------------------------
(***************************************************************************)
(* StandardEvents: errors, passed on from object to object.  An object      *)
(* hands its errors to the program's listeners and to other objects, which  *)
(* it knows by weak pointers; each emits them on its own emitter.  All that *)
(* happens inside one call of run_if_valid, on one thread.  Here stack      *)
(* keeps the emits of "error" that have not returned, and listeners does    *)
(* not change while they run (module EventEmitter is about that).           *)
(*                                                                          *)
(* emit gives its argument away: the first listener that takes the error gets *)
(* it, and every later one what is left of it.                              *)
(*                                                                          *)
(* delegate_to without template arguments, which is how the services and the *)
(* site delegate "error", makes a listener of type void( ): what it emits on *)
(* carries no error, and fits no listener that takes one.                    *)
(*                                                                          *)
(* run_if_valid's self is taken to be evaluated before it is moved from     *)
(* (module HttpServer has both orders).                                     *)
(***************************************************************************)
EXTENDS Errors, Integers, Sequences, FiniteSets

CONSTANTS
  Objects,      \* objects with an emitter each
  NoObject,
  DepthLimit,   \* c_max_emit_depth, 100 in the code
  MaxWires,     \* bound: listeners in all
  MaxHandlers   \* bound: calls of run_if_valid

ASSUME DelegationAssumption ==
  /\ IsFiniteSet(Objects) /\ NoObject \notin Objects
  /\ DepthLimit \in Nat \ {0} /\ MaxWires \in Nat /\ MaxHandlers \in Nat

VARIABLES
  owned,      \* objects somebody else than the running handlers holds
  listeners,  \* object -> its listeners of "error"
  depth,      \* object -> m_emit_depth
  stack,      \* the emits that run
  handler,    \* run_if_valid: inside func or its catch, and self
  flying,     \* an exception is on its way up
  escaped,    \* one has left run_if_valid
  heard,      \* history: what the program's listeners heard of this error
  twice,      \* history: one heard the same twice
  thrown,     \* history: a listener of "error" threw
  handlers    \* calls of run_if_valid so far

wireVars == <<owned, listeners>>
historyVars == <<heard, twice, thrown>>
vars == <<wireVars, depth, stack, handler, flying, escaped, historyVars, handlers>>

Top == stack[Len(stack)]
Idle == [at |-> "idle", self |-> NoObject, emitted |-> FALSE]

\* A shared pointer holds the object: the program's, the handler's self, or
\* the one a delegating listener made of its weak pointer.
Alive(o) == o \in owned \/ handler.self = o \/ \E i \in DOMAIN stack : stack[i].on = o

-----------------------------------------------------------------------------
Listener(kind, to) == [kind |-> kind, to |-> to]

Init ==
  /\ owned = Objects
  /\ listeners = [o \in Objects |-> <<>>]
  /\ depth = [o \in Objects |-> 0]
  /\ stack = <<>>
  /\ handler = Idle
  /\ flying = FALSE
  /\ escaped = FALSE
  /\ heard = {} /\ twice = FALSE /\ thrown = FALSE
  /\ handlers = 0

(* The program connects its objects.                                        *)

Wires == {w \in Objects \X (1 .. MaxWires) : w[2] <= Len(listeners[w[1]])}

Connect(o, listener) ==
  /\ handlers = 0 /\ handler = Idle
  /\ Cardinality(Wires) < MaxWires
  /\ listeners' = [listeners EXCEPT ![o] = Append(@, listener)]
  /\ UNCHANGED <<owned, depth, stack, handler, flying, escaped, historyVars, handlers>>

OnError(o) == Connect(o, Listener("program", NoObject))

\* on_error with a destination: no test for loops.
OnErrorTo(o, to) == Connect(o, Listener("on_error", to))

\* delegate_to throws when it is asked to delegate to the object itself.
DelegateTo(o, to) == o # to /\ Connect(o, Listener("delegate_to", to))

-----------------------------------------------------------------------------
(* Emitting.                                                                *)

\* emit, called from the emits in callers.  It throws when it is nested too
\* deep on this emitter, and then leaves the counter up.
Emit(callers, o, error, path) ==
  /\ depth' = [depth EXCEPT ![o] = @ + 1]
  /\ IF depth[o] >= DepthLimit
       THEN stack' = <<>> /\ flying' = TRUE
       ELSE /\ stack' = Append(callers, [on |-> o, at |-> 1, error |-> error, path |-> path])
            /\ flying' = FALSE

\* An exception leaves every emit, none of which decrements its counter.
Throw ==
  /\ stack' = <<>> /\ flying' = TRUE
  /\ UNCHANGED depth

\* The listener that the innermost emit is at, and the loop one step on.
AtListener(kind) ==
  stack # <<>> /\ Top.at <= Len(listeners[Top.on]) /\ listeners[Top.on][Top.at].kind = kind
Here == Append(Top.path, <<Top.on, Top.at>>)
To == listeners[Top.on][Top.at].to
\* Mutant of Advanced: the loop stays where it is.
Stuck == stack
Advanced == [stack EXCEPT ![Len(stack)].at = @ + 1]

\* The same, and the error has gone to the listener.
GivenAway == [Advanced EXCEPT ![Len(stack)].error = Left(@)]

\* A listener of the program hears the error.  It may let objects go; it may
\* throw.
Hear ==
  /\ AtListener("program") /\ Top.error # NoError
  /\ LET news == [path |-> Here, layers |-> Len(Top.error),
                  described |-> Described(Top.error[1]),
                  exception |-> HasException(Top.error)]
     IN heard' = heard \cup {news} /\ twice' = (twice \/ news \in heard)
  /\ \E gone \in SUBSET owned :
       /\ owned' = owned \ gone
       /\ \/ /\ stack' = GivenAway
             /\ UNCHANGED <<depth, flying, thrown>>
          \/ Throw /\ thrown' = TRUE
  /\ UNCHANGED <<listeners, handler, escaped, handlers>>

\* Mutant of PassOn: errors are not wrapped, but emitted as they came.
PassOnBare ==
  /\ AtListener("on_error") /\ Top.error # NoError
  /\ IF Alive(To) THEN Emit(GivenAway, To, Top.error, Here)
     ELSE stack' = GivenAway /\ UNCHANGED <<depth, flying>>
  /\ UNCHANGED <<wireVars, handler, escaped, heard, twice, thrown, handlers>>

\* on_error's listener: an object that is still there emits the wrapped error.
PassOn ==
  /\ AtListener("on_error") /\ Top.error # NoError
  /\ CASE ~Alive(To) -> stack' = GivenAway /\ UNCHANGED <<depth, flying>>
       [] Alive(To) /\ Wrap(Top.error) = NoError -> Throw
       [] OTHER -> Emit(GivenAway, To, Wrap(Top.error), Here)
  /\ UNCHANGED <<wireVars, handler, escaped, heard, twice, thrown, handlers>>

\* delegate_to's listener takes no error, also where one came with the emit:
\* emit's second try calls it without, and so it emits.
Delegate ==
  /\ AtListener("delegate_to")
  /\ IF Alive(To) THEN Emit(Advanced, To, NoError, Here)
     ELSE stack' = Advanced /\ UNCHANGED <<depth, flying>>
  /\ UNCHANGED <<wireVars, handler, escaped, heard, twice, thrown, handlers>>

\* A listener that takes an error does not fit an emit without one, and emit
\* throws.
Mismatch ==
  /\ stack # <<>> /\ Top.error = NoError
  /\ AtListener("program") \/ AtListener("on_error")
  /\ Throw
  /\ UNCHANGED <<wireVars, handler, escaped, historyVars, handlers>>

\* Mutant of Return: the counter stays up.
ReturnDeeper ==
  /\ stack # <<>> /\ Top.at > Len(listeners[Top.on])
  /\ stack' = SubSeq(stack, 1, Len(stack) - 1)
  /\ UNCHANGED <<wireVars, depth, handler, flying, escaped, historyVars, handlers>>

\* The end of the list: the counter goes down and emit returns.
Return ==
  /\ stack # <<>> /\ Top.at > Len(listeners[Top.on])
  /\ depth' = [depth EXCEPT ![Top.on] = @ - 1]
  /\ stack' = SubSeq(stack, 1, Len(stack) - 1)
  /\ UNCHANGED <<wireVars, handler, flying, escaped, historyVars, handlers>>

-----------------------------------------------------------------------------
(* run_if_valid and emit_error_on_throw.                                    *)

InFunc == handler.at = "func" /\ stack = <<>> /\ ~flying /\ ~escaped

Enter(o) ==
  /\ handler = Idle /\ ~escaped /\ Alive(o) /\ handlers < MaxHandlers
  /\ handler' = [at |-> "func", self |-> o, emitted |-> FALSE]
  /\ handlers' = handlers + 1
  /\ heard' = {} /\ twice' = FALSE
  /\ UNCHANGED <<wireVars, depth, stack, flying, escaped, thrown>>

EmitError ==
  /\ InFunc /\ ~handler.emitted
  /\ handler' = [handler EXCEPT !.emitted = TRUE]
  /\ Emit(<<>>, handler.self, Plain, <<>>)
  /\ UNCHANGED <<wireVars, escaped, heard, twice, thrown, handlers>>

FuncThrows ==
  /\ InFunc
  /\ flying' = TRUE
  /\ UNCHANGED <<wireVars, depth, stack, handler, escaped, historyVars, handlers>>

\* What func throws is caught and emitted; what that throws is not.
Catch ==
  /\ handler.at = "func" /\ flying
  /\ handler' = [handler EXCEPT !.at = "catch", !.emitted = TRUE]
  /\ heard' = {} /\ twice' = FALSE
  /\ Emit(<<>>, handler.self, Raised, <<>>)
  /\ UNCHANGED <<wireVars, escaped, thrown, handlers>>

Escape ==
  /\ handler.at = "catch" /\ flying
  /\ escaped' = TRUE /\ flying' = FALSE /\ handler' = Idle
  /\ UNCHANGED <<wireVars, depth, stack, historyVars, handlers>>

Leave ==
  /\ handler.at \in {"func", "catch"} /\ stack = <<>> /\ ~flying
  /\ handler' = Idle
  /\ UNCHANGED <<wireVars, depth, stack, flying, escaped, historyVars, handlers>>

-----------------------------------------------------------------------------
Deliver == Hear \/ PassOn \/ Delegate \/ Mismatch \/ Return

Next ==
  \/ \E o \in Objects : OnError(o) \/ Enter(o)
  \/ \E o, to \in Objects : OnErrorTo(o, to) \/ DelegateTo(o, to)
  \/ Deliver \/ EmitError \/ FuncThrows \/ Catch \/ Escape \/ Leave

\* A listener returns or throws, and emit goes on.
Fairness == WF_vars(Deliver)

Spec == Init /\ [][Next]_vars /\ Fairness

-----------------------------------------------------------------------------
\* The ways of n listeners that an error can take from an object.
PassesOn(w) == listeners[w[1]][w[2]].kind # "program"
Ways(o, n) ==
  {p \in [1 .. n -> Wires] :
     /\ p[1][1] = o
     /\ \A k \in 1 .. n - 1 : PassesOn(p[k]) /\ listeners[p[k][1]][p[k][2]].to = p[k + 1][1]}
Loop(o) == \E p \in Ways(o, Cardinality(Objects) + 1) : PassesOn(p[Len(p)])

Along(p, kind) == {k \in DOMAIN p : listeners[p[k][1]][p[k][2]].kind = kind}

\* An error of o comes by delegate_to to a listener that takes one.
Misfit(o) ==
  \E n \in 2 .. Cardinality(Objects) : \E p \in Ways(o, n) :
    \E k \in Along(p, "delegate_to") \ {n} : k + 1 \notin Along(p, "delegate_to")

\* A listener gets what is left of an error when another that takes one comes
\* before it.
Late(w) == \E i \in 1 .. w[2] - 1 : listeners[w[1]][i].kind # "delegate_to"

\* What is to be heard of an error of o at the end of way p: where the error
\* had gone, a new one begins without anything in it.
News(p, exception) ==
  LET gone == {k \in DOMAIN p : Late(p[k])}
      begin == IF gone = {} THEN 1 ELSE CHOOSE k \in gone : \A l \in gone : l <= k
  IN [path |-> p, layers |-> 1 + Len(p) - begin,
      described |-> Len(p) \notin gone, exception |-> exception /\ gone = {}]

Expected(o, exception) ==
  {News(p, exception) :
     p \in {q \in UNION {Ways(o, n) : n \in 1 .. Cardinality(Objects)} :
              ~PassesOn(q[Len(q)]) /\ Along(q, "delegate_to") = {}}}

\* An error is heard at the end of every way of on_error listeners from its
\* object to a listener, once each, and never otherwise, nowhere behind a
\* delegate_to.  It is wrapped as often as it was passed on, and has the
\* exception it began with, where each listener on the way was the first of
\* its object to take it; it is empty where one was not.  When the emit
\* returns, only objects that are gone have taken some of that away.
HeardAlongEachWay ==
  LET expected == Expected(handler.self, handler.at = "catch") IN
  /\ ~twice
  /\ stack # <<>> /\ ~Loop(handler.self) => heard \subseteq expected
  /\ stack = <<>> /\ ~flying /\ handler.emitted /\ owned = Objects =>
       heard = expected

\* What a handler throws stays inside run_if_valid, unless a listener of
\* "error" threw, now or at an earlier error, the delegations form a loop, or
\* one by delegate_to leads to a listener that takes an error.
NothingEscapes ==
  escaped => thrown \/ \E o \in Objects : Loop(o) \/ Misfit(o)

\* Every error comes to its end, also where delegations form a loop that
\* nothing detected when it was made: the depth limit breaks it.
EmissionEnds == (stack # <<>>) ~> (stack = <<>>)

=============================================================================
