---------------------------- MODULE EventEmitter ----------------------------
(***************************************************************************)
(* base::impl::EventEmitterImpl: named lists of callbacks, delivered        *)
(* synchronously.  A delivery runs user code from inside a loop over a      *)
(* std::vector, and that code may call the emitter again, so the model      *)
(* keeps the C++ call stack: one frame for each emit_impl, add_listener or  *)
(* remove_listener that has not returned.  There is one thread: the io      *)
(* service's.                                                               *)
(***************************************************************************)
EXTENDS Lists

CONSTANTS
  Events,           \* event names
  Listeners,        \* callback identities; Callback ids are never reused
  Once,             \* the listeners registered with run_once = true
  NoEvent,          \* "there is no such event"
  NoListener,       \* "no listener is running"
  SelfDestruct,     \* event |-> event + "_selfdestruct", NoEvent if unused
  ListenerAdded,    \* "listener_added"
  ListenerRemoved,  \* "listener_removed"
  NewListener,      \* "newListener", the one name whose adds are not announced
  MaxChoices,       \* limits given to the constructor or set_max_listeners
  DepthLimit,       \* c_max_emit_depth, 100 in the code
  DepthMax,         \* INT_LEAST8_MAX, 127 in the code
  MaxCalls,         \* bound: calls made by user code in one behaviour
  MayThrow,         \* listeners may let an exception out
  MayReenter        \* listeners may use an event that is being delivered

ASSUME NamesAssumption ==
  /\ NoEvent \notin Events
  /\ NoListener \notin Listeners
  /\ Once \subseteq Listeners
  /\ {ListenerAdded, ListenerRemoved, NewListener} \subseteq Events
  /\ SelfDestruct \in [Events -> Events \cup {NoEvent}]
  /\ \A e \in Events : SelfDestruct[e] # e

ASSUME LimitsAssumption ==
  /\ MaxChoices \subseteq Nat
  /\ DepthLimit \in Nat
  /\ DepthMax \in Nat
  /\ DepthLimit <= DepthMax
  /\ MaxCalls \in Nat
  /\ MayThrow \in BOOLEAN
  /\ MayReenter \in BOOLEAN

VARIABLES
  listeners,     \* m_listeners, each list in registration order
  keys,          \* the keys operator[] has created in m_listeners
  maxListeners,  \* m_max_listeners, 0 for no limit
  depth,         \* m_emit_depth, a signed byte
  stack,         \* the calls of the emitter that have not returned
  runs,          \* history: how often a listener was called, capped at 2
  added,         \* history: the listeners ever handed to add_listener
  calls,         \* calls user code has made so far
  corrupt        \* an invalid iterator or reference has been used

vars == <<listeners, keys, maxListeners, depth, stack, runs, added, calls, corrupt>>

-----------------------------------------------------------------------------
(* Frames.  "emit" is the delivery of an event, "destroy" the delivery of   *)
(* its _selfdestruct companion by the same emit; "add" and "remove" wait    *)
(* for the announcement they made.  at and len are the loop's iterator and  *)
(* its cached end.  refs says whether the vector's iterators still hold:    *)
(* "moved" after an erase or a reallocation, "gone" when the map was        *)
(* cleared and the vector itself is destroyed.                              *)

Frames == [kind  : {"emit", "destroy", "add", "remove"},
           event : Events,
           who   : Listeners \cup {NoListener},
           at    : Nat \ {0},
           len   : Nat,
           refs  : {"valid", "moved", "gone"}]

\* Mutant of Frame: the loop skips the first listener.
FrameFromSecond(kind, e, l, n) ==
  [kind |-> kind, event |-> e, who |-> l, at |-> 2, len |-> n, refs |-> "valid"]

\* Mutant of Frame: the end of the loop is one too early.
FrameToLast(kind, e, l, n) ==
  [kind |-> kind, event |-> e, who |-> l, at |-> 1, len |-> n - 1, refs |-> "valid"]

Frame(kind, e, l, n) ==
  [kind |-> kind, event |-> e, who |-> l, at |-> 1, len |-> n, refs |-> "valid"]

Top == stack[Len(stack)]
Pop(s) == SubSeq(s, 1, Len(s) - 1)

IsLoop(f) == f.kind \in {"emit", "destroy"}

\* The frames that hold iterators into a list.
IteratesOver(f, e) == f.event = e /\ f.kind # "add"

\* User code has control: the program's own, or a running listener's.
UserCode == \/ stack = <<>>
            \/ stack # <<>> /\ IsLoop(Top) /\ Top.who # NoListener

\* An erase in, or a reallocation of, e's list seen by the calls in s.
Moved(s, e) ==
  [i \in DOMAIN s |-> IF IteratesOver(s[i], e) /\ s[i].refs = "valid"
                      THEN [s[i] EXCEPT !.refs = "moved"] ELSE s[i]]

\* The map was cleared: every vector is destroyed.
Gone(s) == [i \in DOMAIN s |-> IF s[i].kind # "add"
                               THEN [s[i] EXCEPT !.refs = "gone"] ELSE s[i]]

-----------------------------------------------------------------------------
IsOnce(l) == l \in Once

\* Mutant of HasOnceIn: only the first listener is looked at.
HasOnceAtFront(list) == list # <<>> /\ IsOnce(list[1])

HasOnceIn(list) == \E i \in DOMAIN list : IsOnce(list[i])
HasOnce(e) == HasOnceIn(listeners[e])

InList(e, l) == \E i \in DOMAIN listeners[e] : listeners[e][i] = l

\* The list without its run-once entries, and without one identity.
Purged(list) == Keep(list, {i \in DOMAIN list : ~IsOnce(list[i])})
Without(list, l) == Keep(list, {i \in DOMAIN list : list[i] # l})

\* Mutant of AtMaxListeners: the limit itself is let through.
BeyondMaxListeners(e) == maxListeners # 0 /\ Len(listeners[e]) > maxListeners

\* 0 is "no limit"; otherwise a full list refuses.
AtMaxListeners(e) == maxListeners # 0 /\ Len(listeners[e]) >= maxListeners

\* ++ and -- of int_least8_t wrap.
Inc(d) == IF d = DepthMax THEN -DepthMax - 1 ELSE d + 1
Dec(d) == IF d = -DepthMax - 1 THEN DepthMax ELSE d - 1

\* Mutant of Refused: the counter is tested before it goes up.
RefusedLate(d) == d > DepthLimit

Refused(d) == Inc(d) > DepthLimit

-----------------------------------------------------------------------------
(* What a listener is allowed to do when ~MayReenter.  Nothing in the code  *)
(* enforces it: it is the discipline under which the loops are sound.  A    *)
(* list that a call below is using is neither extended nor shortened, and   *)
(* its event is emitted again only if no run-once entry would be purged;    *)
(* the limit is not changed while an add is being announced.                *)

Held(e) == \E i \in DOMAIN stack : stack[i].event = e
InDelivery(e) == \E i \in DOMAIN stack : IteratesOver(stack[i], e)

MayMutate(e) == MayReenter \/ ~Held(e)
MayPurge(e) == MayReenter \/ ~InDelivery(e) \/ ~HasOnce(e)
Claims(e) == {e, SelfDestruct[e]} \cap Events
MayEmit(e) == \A x \in Claims(e) : MayPurge(x)

Calling == UserCode /\ ~corrupt /\ calls < MaxCalls /\ calls' = calls + 1

-----------------------------------------------------------------------------
Init ==
  /\ listeners = [e \in Events |-> <<>>]
  /\ keys = {}
  /\ maxListeners \in MaxChoices
  /\ depth = 0
  /\ stack = <<>>
  /\ runs = [l \in Listeners |-> 0]
  /\ added = {}
  /\ calls = 0
  /\ corrupt = FALSE

\* emit: the counter goes up first; a refusal throws and leaves it up.
Emit(e) ==
  /\ Calling
  /\ MayEmit(e)
  /\ depth' = Inc(depth)
  /\ \/ /\ Refused(depth)
        /\ UNCHANGED <<stack, keys>>
     \/ /\ ~Refused(depth)
        /\ stack' = Append(stack, Frame("emit", e, NoListener, Len(listeners[e])))
        /\ keys' = keys \cup {e}
  /\ UNCHANGED <<listeners, maxListeners, runs, added, corrupt>>

\* The vector grows; it keeps its buffer or reallocates, as capacity has it.
EmplaceBack(e, l, s) ==
  /\ listeners' = [listeners EXCEPT ![e] = Append(@, l)]
  /\ stack' \in {s, Moved(s, e)}

\* The calls add_listener and remove_listener make to announce themselves.
Announce(news, kind, e, l) ==
  /\ depth' = Inc(depth)
  /\ \/ /\ Refused(depth)
        /\ keys' = keys \cup {e}
        /\ UNCHANGED stack
     \/ /\ ~Refused(depth)
        /\ keys' = keys \cup {e, news}
        /\ stack' = Append(Append(stack, Frame(kind, e, l, 0)),
                           Frame("emit", news, NoListener, Len(listeners[news])))
  /\ UNCHANGED listeners

\* add_listener: the limit is tested, the add is announced, and only then
\* does the list grow (in CompleteAdd).
AddListener(e, l) ==
  /\ Calling
  /\ l \notin added
  /\ added' = added \cup {l}
  /\ MayMutate(e)
  /\ \/ /\ AtMaxListeners(e)
        /\ keys' = keys \cup {e}
        /\ UNCHANGED <<listeners, stack, depth>>
     \/ /\ ~AtMaxListeners(e)
        /\ e = NewListener
        /\ EmplaceBack(e, l, stack)
        /\ keys' = keys \cup {e}
        /\ UNCHANGED depth
     \/ /\ ~AtMaxListeners(e)
        /\ e # NewListener
        /\ MayEmit(ListenerAdded)
        /\ Announce(ListenerAdded, "add", e, l)
  /\ UNCHANGED <<maxListeners, runs, corrupt>>

CompleteAdd ==
  /\ ~corrupt
  /\ stack # <<>>
  /\ Top.kind = "add"
  /\ EmplaceBack(Top.event, Top.who, Pop(stack))
  /\ UNCHANGED <<keys, maxListeners, depth, runs, added, calls, corrupt>>

\* remove_listener: the erase pass announces the removal from its predicate.
RemoveListener(e, l) ==
  /\ Calling
  /\ l \in added
  /\ MayMutate(e)
  /\ \/ /\ ~InList(e, l)
        /\ keys' = keys \cup {e}
        /\ UNCHANGED <<listeners, stack, depth>>
     \/ /\ InList(e, l)
        /\ MayEmit(ListenerRemoved)
        /\ MayReenter \/ e \notin Claims(ListenerRemoved) \/ ~HasOnce(e)
        /\ Announce(ListenerRemoved, "remove", e, l)
  /\ UNCHANGED <<maxListeners, runs, added, corrupt>>

CompleteRemove ==
  /\ ~corrupt
  /\ stack # <<>>
  /\ Top.kind = "remove"
  /\ \/ /\ Top.refs = "valid"
        /\ listeners' = [listeners EXCEPT ![Top.event] = Without(@, Top.who)]
        /\ stack' = Moved(Pop(stack), Top.event)
        /\ UNCHANGED corrupt
     \/ /\ Top.refs # "valid"
        /\ corrupt' = TRUE
        /\ UNCHANGED <<listeners, stack>>
  /\ UNCHANGED <<keys, maxListeners, depth, runs, added, calls>>

RemoveAllListeners ==
  /\ Calling
  /\ MayReenter \/ stack = <<>>
  /\ listeners' = [e \in Events |-> <<>>]
  /\ keys' = {}
  /\ stack' = Gone(stack)
  /\ UNCHANGED <<maxListeners, depth, runs, added, corrupt>>

RemoveAllListenersOf(e) ==
  /\ Calling
  /\ MayMutate(e)
  /\ listeners' = [listeners EXCEPT ![e] = <<>>]
  /\ keys' = keys \cup {e}
  /\ stack' = Moved(stack, e)
  /\ UNCHANGED <<maxListeners, depth, runs, added, corrupt>>

SetMaxListeners(n) ==
  /\ Calling
  /\ MayReenter \/ \A i \in DOMAIN stack : stack[i].kind # "add"
  /\ maxListeners' = n
  /\ UNCHANGED <<listeners, keys, depth, stack, runs, added, corrupt>>

-----------------------------------------------------------------------------
(* The loop of emit_impl.                                                   *)

InLoop == ~corrupt /\ stack # <<>> /\ IsLoop(Top) /\ Top.who = NoListener

\* Mutant of CallNext: a run-once listener is erased as soon as it is called.
CallNextErasing ==
  /\ InLoop
  /\ Top.at <= Top.len
  /\ \/ /\ Top.refs = "valid"
        /\ LET l == listeners[Top.event][Top.at]
               erased == IF IsOnce(l) THEN Moved(stack, Top.event) ELSE stack
           IN /\ listeners' = IF IsOnce(l) THEN [listeners EXCEPT ![Top.event] = Without(@, l)]
                                           ELSE listeners
              /\ stack' = [erased EXCEPT ![Len(stack)].who = l,
                                         ![Len(stack)].at = @ + 1]
              /\ runs' = [runs EXCEPT ![l] = IF @ = 2 THEN 2 ELSE @ + 1]
        /\ UNCHANGED corrupt
     \/ /\ Top.refs # "valid"
        /\ corrupt' = TRUE
        /\ UNCHANGED <<listeners, stack, runs>>
  /\ UNCHANGED <<keys, maxListeners, depth, added, calls>>

\* The next listener is called.  Dereferencing a stale iterator is undefined.
CallNext ==
  /\ InLoop
  /\ Top.at <= Top.len
  /\ \/ /\ Top.refs = "valid"
        /\ LET l == listeners[Top.event][Top.at] IN
             /\ stack' = [stack EXCEPT ![Len(stack)].who = l,
                                       ![Len(stack)].at = @ + 1]
             /\ runs' = [runs EXCEPT ![l] = IF @ = 2 THEN 2 ELSE @ + 1]
        /\ UNCHANGED corrupt
     \/ /\ Top.refs # "valid"
        /\ corrupt' = TRUE
        /\ UNCHANGED <<stack, runs>>
  /\ UNCHANGED <<listeners, keys, maxListeners, depth, added, calls>>

\* The running listener returns to the loop.
Return ==
  /\ ~corrupt
  /\ stack # <<>>
  /\ IsLoop(Top)
  /\ Top.who # NoListener
  /\ stack' = [stack EXCEPT ![Len(stack)].who = NoListener]
  /\ UNCHANGED <<listeners, keys, maxListeners, depth, runs, added, calls, corrupt>>

\* The running listener lets an exception out: its emit unwinds without
\* purging or counting down, and so does an add or remove that announced.
Throw ==
  /\ MayThrow
  /\ ~corrupt
  /\ stack # <<>>
  /\ IsLoop(Top)
  /\ Top.who # NoListener
  /\ LET below == Pop(stack) IN
       \/ /\ below # <<>> /\ ~IsLoop(below[Len(below)])
          /\ stack' = Pop(below)
       \/ /\ below # <<>> => IsLoop(below[Len(below)])
          /\ stack' = below
  /\ UNCHANGED <<listeners, keys, maxListeners, depth, runs, added, calls, corrupt>>

\* After the last listener: purge, count down, and deliver the _selfdestruct
\* companion if its key exists, which counts down a second time.
Finish ==
  /\ InLoop
  /\ Top.at > Top.len
  /\ \/ /\ Top.refs # "gone"
        /\ LET e == Top.event
               companion == SelfDestruct[e]
               lists == IF HasOnce(e) THEN [listeners EXCEPT ![e] = Purged(@)]
                                      ELSE listeners
               rest == IF HasOnce(e) THEN Moved(Pop(stack), e) ELSE Pop(stack)
           IN /\ listeners' = lists
              /\ \/ /\ Top.kind = "emit" /\ companion \in keys
                    /\ stack' = Append(rest, Frame("destroy", companion, NoListener,
                                                   Len(lists[companion])))
                 \/ /\ ~(Top.kind = "emit" /\ companion \in keys)
                    /\ stack' = rest
        /\ depth' = Dec(depth)
        /\ UNCHANGED corrupt
     \/ /\ Top.refs = "gone"
        /\ corrupt' = TRUE
        /\ UNCHANGED <<listeners, depth, stack>>
  /\ UNCHANGED <<keys, maxListeners, runs, added, calls>>

UserCall ==
  \/ \E e \in Events : Emit(e)
  \/ \E e \in Events, l \in Listeners : AddListener(e, l)
  \/ \E e \in Events, l \in Listeners : RemoveListener(e, l)
  \/ \E e \in Events : RemoveAllListenersOf(e)
  \/ RemoveAllListeners
  \/ \E n \in MaxChoices : SetMaxListeners(n)

Next == UserCall \/ CompleteAdd \/ CompleteRemove \/ CallNext \/ Return \/ Throw \/ Finish

Spec == Init /\ [][Next]_vars

-----------------------------------------------------------------------------
(* Type correctness: every variable holds a value its C++ member can hold.  *)
TypeOK ==
  /\ listeners \in [Events -> Seq(Listeners)]
  /\ keys \in SUBSET Events
  /\ maxListeners \in MaxChoices
  /\ depth \in -DepthMax - 1 .. DepthMax
  /\ stack \in Seq(Frames)
  /\ runs \in [Listeners -> 0 .. 2]
  /\ added \in SUBSET Listeners
  /\ calls \in 0 .. MaxCalls
  /\ corrupt \in BOOLEAN

(* No iterator into, or reference to, a listener list is used after the     *)
(* list was erased from, reallocated or destroyed.  The loops of emit_impl  *)
(* and remove_listener are sound only while listeners keep the discipline.  *)
MemorySafe == ~corrupt

(* A listener registered with run_once is called at most once ("Callback is *)
(* for the next error").  emit_impl purges only after its loop, so this     *)
(* needs listeners that neither throw nor deliver their own event again.    *)
OnceRunsOnce == \A l \in Once : runs[l] <= 1

(* A run-once listener leaves its list by the purge only after it has been  *)
(* called: on_next_* may not forget a listener nobody delivered to.         *)
OncePurgedAfterRun ==
  [][Finish => \A e \in Events, l \in Once :
                 InList(e, l) /\ l \notin {listeners'[e][i] : i \in DOMAIN listeners'[e]}
                   => runs[l] >= 1]_vars

(* How far a list can outgrow its limit when listeners use every list.      *)
(* add_listener appends without testing the limit again, so listeners of    *)
(* its announcement can fill the list meanwhile; but each add that waits is *)
(* counted as an emit in progress, and a list stays shorter than the        *)
(* largest limit it was given and c_max_emit_depth together.                *)
OvershootBounded ==
  0 \notin MaxChoices =>
    \A e \in Events : \E m \in MaxChoices : Len(listeners[e]) < m + DepthLimit

Nesting == Cardinality({i \in DOMAIN stack : IsLoop(stack[i])})

(* The emits that have not returned never outnumber the limit whose refusal *)
(* reads "Max callback depth reached.  Possible loop", whatever listeners   *)
(* throw or deliver, while the byte that counts them has not wrapped.       *)
NestingBounded == Nesting <= DepthLimit

(* Not so, and checked by no run: an emit is refused only when that many    *)
(* emits are really in progress, as the text of the refusal says.  After a  *)
(* listener threw the counter stays up.                                     *)
RefusalMeansNesting == depth >= DepthLimit => Nesting >= DepthLimit

=============================================================================
