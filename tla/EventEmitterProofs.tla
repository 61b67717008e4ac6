------------------------- MODULE EventEmitterProofs -------------------------
(* Theorems about EventEmitter, for every set of events and listeners,     *)
(* every limit and every number of calls; and, in the second half, about   *)
(* Events, for every number of listeners of the program.                   *)
EXTENDS EventEmitter, Events, FiniteSetTheorems, SequenceTheorems, TLAPS

-----------------------------------------------------------------------------
(* The inductive invariants of EventEmitter.                               *)

\* A loop whose iterators hold stays inside its list, and a waiting call
\* knows the listener it is about.
FrameOK(f, lists) ==
  /\ f.kind # "add" /\ f.refs = "valid" => f.len <= Len(lists[f.event])
  /\ ~IsLoop(f) => f.who \in Listeners

StackOK(s, lists) == s \in Seq(Frames) /\ \A i \in DOMAIN s : FrameOK(s[i], lists)

TypeInv == TypeOK /\ StackOK(stack, listeners)

\* The lists call f will change without asking whether someone iterates.
Changes(f, e, lists) ==
  \/ f.kind \in {"add", "remove"} /\ f.event = e
  \/ f.kind = "emit" /\ e \in Claims(f.event) /\ HasOnceIn(lists[e])
  \/ f.kind = "destroy" /\ f.event = e /\ HasOnceIn(lists[e])

\* The discipline keeps every iterator valid: no call changes a list over
\* which a call below it iterates.
Sound(s, lists) ==
  /\ \A i \in DOMAIN s : s[i].refs = "valid"
  /\ \A i, j \in DOMAIN s :
       i < j /\ s[i].kind # "add" => ~Changes(s[j], s[i].event, lists)

NoInterference == ~corrupt /\ Sound(stack, listeners)

-----------------------------------------------------------------------------
(* Lemmas about Keep, the model of erase_remove_if.                        *)

\* Ranks in a finite set of integers count it from 1 to its cardinality:
\* rank is injective into 1..Cardinality(K), hence onto.
LEMMA RankOnto ==
  ASSUME NEW K \in SUBSET Int, IsFiniteSet(K)
  PROVE  \A k \in 1 .. Cardinality(K) : \E i \in K : Rank(K, i) = k
<1> DEFINE n == Cardinality(K)
           f == [i \in K |-> Rank(K, i)]
<1>1. n \in Nat
  BY FS_CardinalityType
<1>2. ASSUME NEW i \in K PROVE Rank(K, i) \in 1 .. n
  <2> DEFINE B == {j \in K : j <= i}
  <2>1. /\ B \in SUBSET K /\ IsFiniteSet(B) /\ Cardinality(B) <= n
    BY FS_Subset
  <2>2. Cardinality(B) \in Nat
    BY <2>1, FS_CardinalityType
  <2>4. i \in B
    OBVIOUS
  <2>3. Cardinality(B) # 0
    BY <2>1, <2>4, FS_EmptySet
  <2> QED BY <1>1, <2>1, <2>2, <2>3 DEF Rank
<1>3. ASSUME NEW i \in K, NEW j \in K, i < j PROVE Rank(K, i) < Rank(K, j)
  <2> DEFINE B == {m \in K : m <= i}
             C == {m \in K : m <= j}
  <2>1. IsFiniteSet(C) /\ Cardinality(C) \in Nat
    BY FS_Subset, FS_CardinalityType
  <2>2. /\ B \in SUBSET C
        /\ j \in C
        /\ j \notin B
    <3>1. \A m \in K : m <= i => m <= j
      BY <1>3
    <3>2. j <= j /\ ~(j <= i)
      BY <1>3
    <3> QED BY <3>1, <3>2
  <2>3. Cardinality(B) <= Cardinality(C) /\ Cardinality(B) # Cardinality(C)
    BY <2>1, <2>2, FS_Subset
  <2>4. Cardinality(B) \in Nat
    BY <2>1, <2>2, FS_Subset, FS_CardinalityType
  <2> QED BY <2>1, <2>3, <2>4 DEF Rank
<1>4. f \in Injection(K, 1 .. n)
  <2>1. f \in [K -> 1 .. n]
    BY <1>2
  <2>2. ASSUME NEW i \in K, NEW j \in K, f[i] = f[j] PROVE i = j
    <3>1. f[i] = Rank(K, i) /\ f[j] = Rank(K, j)
      OBVIOUS
    <3>2. Rank(K, i) \in Int /\ Rank(K, j) \in Int
      BY <1>2
    <3> QED BY <1>3, <2>2, <3>1, <3>2
  <2> QED BY <2>1, <2>2 DEF Injection, IsInjective
<1>5. IsFiniteSet(1 .. n) /\ Cardinality(1 .. n) = n
  BY <1>1, FS_Interval
<1>6. f \in Surjection(K, 1 .. n)
  BY <1>4, <1>5, FS_Injection
<1>7. \A k \in 1 .. n : \E i \in K : f[i] = k
  BY <1>6 DEF Surjection
<1>8. \A i \in K : f[i] = Rank(K, i)
  OBVIOUS
<1> HIDE DEF f
<1> QED BY <1>7, <1>8

\* Keeping some positions of a list gives a list of the same elements.
LEMMA KeepType ==
  ASSUME NEW S, NEW list \in Seq(S), NEW K \in SUBSET DOMAIN list
  PROVE  Keep(list, K) \in Seq(S)
<1>1. DOMAIN list = 1 .. Len(list) /\ Len(list) \in Nat
  BY LenProperties
<1>2. IsFiniteSet(K) /\ K \in SUBSET Int
  <2>1. IsFiniteSet(1 .. Len(list)) /\ K \in SUBSET (1 .. Len(list))
    BY <1>1, FS_Interval
  <2> QED BY <2>1, FS_Subset
<1>3. Cardinality(K) \in Nat
  BY <1>2, FS_CardinalityType
<1>4. ASSUME NEW k \in 1 .. Cardinality(K)
      PROVE  list[CHOOSE i \in K : Rank(K, i) = k] \in S
  <2>1. \E i \in K : Rank(K, i) = k
    BY <1>2, RankOnto
  <2>2. (CHOOSE i \in K : Rank(K, i) = k) \in 1 .. Len(list)
    BY <1>1, <2>1
  <2> QED BY <2>2, ElementOfSeq
<1>5. Keep(list, K) \in [1 .. Cardinality(K) -> S]
  BY <1>4 DEF Keep
<1> QED BY <1>3, <1>5, SeqDef

-----------------------------------------------------------------------------
(* Lemmas about the call stack.                                            *)

LEMMA PopProps ==
  ASSUME NEW F, NEW s \in Seq(F), s # <<>>
  PROVE  /\ Len(s) \in Nat \ {0}
         /\ s[Len(s)] \in F
         /\ Pop(s) \in Seq(F)
         /\ Len(Pop(s)) = Len(s) - 1
         /\ DOMAIN Pop(s) = 1 .. Len(s) - 1
         /\ \A i \in 1 .. Len(s) - 1 : Pop(s)[i] = s[i]
<1>1. Len(s) \in Nat \ {0}
  BY EmptySeq
<1>2. \A i \in 1 .. Len(s) : s[i] \in F
  BY ElementOfSeq
<1>3. Len(s) - 1 \in 0 .. Len(s)
  BY <1>1
<1>4. Pop(s) = [i \in 1 .. Len(s) - 1 |-> s[i]]
  BY <1>3, SubSeqRestrict DEF Pop, Restrict
<1>5. Pop(s) \in [1 .. Len(s) - 1 -> F]
  BY <1>1, <1>2, <1>4
<1>6. Pop(s) \in Seq(F)
  BY <1>3, <1>5, SeqDef
<1>7. Len(Pop(s)) = Len(s) - 1
  BY <1>3, <1>5, <1>6, LenProperties
<1> QED BY <1>1, <1>2, <1>4, <1>6, <1>7

LEMMA PushProps ==
  ASSUME NEW F, NEW s \in Seq(F), NEW f \in F
  PROVE  /\ Append(s, f) \in Seq(F)
         /\ Len(Append(s, f)) = Len(s) + 1
         /\ DOMAIN Append(s, f) = 1 .. Len(s) + 1
         /\ Append(s, f)[Len(s) + 1] = f
         /\ \A i \in 1 .. Len(s) : Append(s, f)[i] = s[i]
BY LenProperties, AppendProperties

LEMMA MovedProps ==
  ASSUME NEW s \in Seq(Frames), NEW e
  PROVE  /\ Moved(s, e) \in Seq(Frames)
         /\ Len(Moved(s, e)) = Len(s)
         /\ DOMAIN Moved(s, e) = DOMAIN s
         /\ \A i \in DOMAIN s :
              /\ Moved(s, e)[i].kind = s[i].kind
              /\ Moved(s, e)[i].event = s[i].event
              /\ Moved(s, e)[i].who = s[i].who
              /\ Moved(s, e)[i].len = s[i].len
              /\ Moved(s, e)[i].refs = "valid" => s[i].refs = "valid" /\ ~IteratesOver(s[i], e)
              /\ ~IteratesOver(s[i], e) => Moved(s, e)[i] = s[i]
<1>1. DOMAIN s = 1 .. Len(s) /\ Len(s) \in Nat
  BY LenProperties
<1>2. \A i \in DOMAIN s : s[i] \in Frames
  BY <1>1, ElementOfSeq
<1>3. \A i \in DOMAIN s : Moved(s, e)[i] \in Frames
  BY <1>2 DEF Moved, Frames
<1>4. Moved(s, e) \in [1 .. Len(s) -> Frames]
  BY <1>1, <1>3 DEF Moved
<1>5. Moved(s, e) \in Seq(Frames) /\ Len(Moved(s, e)) = Len(s)
  BY <1>1, <1>4, SeqDef
<1> QED BY <1>1, <1>2, <1>5 DEF Moved, Frames

LEMMA GoneProps ==
  ASSUME NEW s \in Seq(Frames)
  PROVE  /\ Gone(s) \in Seq(Frames)
         /\ DOMAIN Gone(s) = DOMAIN s
         /\ \A i \in DOMAIN s :
              /\ Gone(s)[i].kind = s[i].kind
              /\ Gone(s)[i].event = s[i].event
              /\ Gone(s)[i].who = s[i].who
              /\ Gone(s)[i].kind # "add" => Gone(s)[i].refs # "valid"
<1>1. DOMAIN s = 1 .. Len(s) /\ Len(s) \in Nat
  BY LenProperties
<1>2. \A i \in DOMAIN s : s[i] \in Frames
  BY <1>1, ElementOfSeq
<1>3. \A i \in DOMAIN s : Gone(s)[i] \in Frames
  BY <1>2 DEF Gone, Frames
<1>4. Gone(s) \in [1 .. Len(s) -> Frames]
  BY <1>1, <1>3 DEF Gone
<1>5. Gone(s) \in Seq(Frames)
  BY <1>1, <1>4, SeqDef
<1> QED BY <1>1, <1>2, <1>5 DEF Gone, Frames

-----------------------------------------------------------------------------
(* Lemmas: what the operations on the stack do to StackOK.                 *)

LEMMA StackPush ==
  ASSUME NEW s, NEW ls, StackOK(s, ls), NEW f \in Frames, FrameOK(f, ls)
  PROVE  StackOK(Append(s, f), ls)
<1>1. s \in Seq(Frames) /\ \A i \in DOMAIN s : FrameOK(s[i], ls)
  BY DEF StackOK
<1>2. DOMAIN s = 1 .. Len(s) /\ Len(s) \in Nat
  BY <1>1, LenProperties
<1>3. \A i \in 1 .. Len(s) + 1 : FrameOK(Append(s, f)[i], ls)
  <2> TAKE i \in 1 .. Len(s) + 1
  <2>1. CASE i = Len(s) + 1
    BY <2>1, <1>1, PushProps
  <2>2. CASE i \in 1 .. Len(s)
    <3>1. Append(s, f)[i] = s[i]
      BY <2>2, <1>1, PushProps
    <3> QED BY <3>1, <2>2, <1>1, <1>2
  <2> QED BY <1>2, <2>1, <2>2
<1> QED BY <1>1, <1>3, PushProps DEF StackOK

LEMMA StackPop ==
  ASSUME NEW s, NEW ls, StackOK(s, ls), s # <<>>
  PROVE  /\ StackOK(Pop(s), ls)
         /\ s[Len(s)] \in Frames
         /\ FrameOK(s[Len(s)], ls)
<1>1. s \in Seq(Frames) /\ \A i \in DOMAIN s : FrameOK(s[i], ls)
  BY DEF StackOK
<1>2. DOMAIN s = 1 .. Len(s) /\ Len(s) \in Nat \ {0}
  BY <1>1, LenProperties, EmptySeq
<1>3. Pop(s) \in Seq(Frames) /\ DOMAIN Pop(s) = 1 .. Len(s) - 1
  BY <1>1, PopProps
<1>4. \A i \in 1 .. Len(s) - 1 : Pop(s)[i] = s[i] /\ i \in DOMAIN s
  BY <1>1, <1>2, PopProps
<1>5. Len(s) \in DOMAIN s
  BY <1>2
<1>6. s[Len(s)] \in Frames
  BY <1>1, PopProps
<1> QED BY <1>1, <1>3, <1>4, <1>5, <1>6 DEF StackOK

LEMMA StackTop ==
  ASSUME NEW s, NEW ls, StackOK(s, ls), s # <<>>, NEW f \in Frames, FrameOK(f, ls)
  PROVE  StackOK([s EXCEPT ![Len(s)] = f], ls)
<1> DEFINE t == [s EXCEPT ![Len(s)] = f]
<1>1. s \in Seq(Frames) /\ \A i \in DOMAIN s : FrameOK(s[i], ls)
  BY DEF StackOK
<1>2. DOMAIN s = 1 .. Len(s) /\ Len(s) \in Nat \ {0}
  BY <1>1, LenProperties, EmptySeq
<1>3. t \in Seq(Frames)
  BY <1>1, <1>2, ExceptSeq
<1>4. DOMAIN t = DOMAIN s /\ \A i \in DOMAIN s : t[i] = IF i = Len(s) THEN f ELSE s[i]
  OBVIOUS
<1> HIDE DEF t
<1>5. \A i \in DOMAIN t : FrameOK(t[i], ls)
  BY <1>1, <1>4
<1>6. StackOK(t, ls)
  BY <1>3, <1>5 DEF StackOK
<1> QED BY <1>6 DEF t

LEMMA StackGrow ==
  ASSUME NEW s, NEW ls \in [Events -> Seq(Listeners)], StackOK(s, ls),
         NEW e \in Events, NEW l \in Listeners
  PROVE  StackOK(s, [ls EXCEPT ![e] = Append(@, l)])
<1> DEFINE ms == [ls EXCEPT ![e] = Append(@, l)]
<1>1. s \in Seq(Frames) /\ \A i \in DOMAIN s : FrameOK(s[i], ls)
  BY DEF StackOK
<1>2. \A i \in DOMAIN s : s[i] \in Frames
  BY <1>1, LenProperties, ElementOfSeq
<1>3. \A x \in Events : Len(ls[x]) \in Nat /\ Len(ms[x]) \in Nat /\ Len(ls[x]) <= Len(ms[x])
  <2> TAKE x \in Events
  <2>1. ls[x] \in Seq(Listeners) /\ ls[e] \in Seq(Listeners)
    OBVIOUS
  <2>2. Len(ls[x]) \in Nat
    BY <2>1, LenProperties
  <2>3. CASE x = e
    <3>1. ms[x] = Append(ls[x], l)
      BY <2>3
    <3>2. Len(ms[x]) = Len(ls[x]) + 1
      BY <2>1, <3>1, AppendProperties
    <3> QED BY <2>2, <3>2
  <2>4. CASE x # e
    BY <2>2, <2>4
  <2> QED BY <2>3, <2>4
<1> HIDE DEF ms
<1>4. ASSUME NEW i \in DOMAIN s PROVE FrameOK(s[i], ms)
  <2>1. s[i].event \in Events /\ s[i].len \in Nat
    BY <1>2 DEF Frames
  <2>2. FrameOK(s[i], ls)
    BY <1>1
  <2> QED BY <1>3, <2>1, <2>2 DEF FrameOK
<1>5. StackOK(s, ms)
  BY <1>1, <1>4 DEF StackOK
<1> QED BY <1>5 DEF ms

LEMMA StackMoved ==
  ASSUME NEW s, NEW ls \in [Events -> Seq(Listeners)], StackOK(s, ls),
         NEW e \in Events, NEW v
  PROVE  StackOK(Moved(s, e), [ls EXCEPT ![e] = v])
<1> DEFINE ms == [ls EXCEPT ![e] = v]
           t == Moved(s, e)
<1>1. s \in Seq(Frames) /\ \A i \in DOMAIN s : FrameOK(s[i], ls)
  BY DEF StackOK
<1>2. \A i \in DOMAIN s : s[i] \in Frames
  BY <1>1, LenProperties, ElementOfSeq
<1>3. /\ t \in Seq(Frames)
      /\ DOMAIN t = DOMAIN s
      /\ \A i \in DOMAIN s :
           /\ t[i].kind = s[i].kind
           /\ t[i].event = s[i].event
           /\ t[i].who = s[i].who
           /\ t[i].len = s[i].len
           /\ t[i].refs = "valid" => s[i].refs = "valid" /\ ~IteratesOver(s[i], e)
  BY <1>1, MovedProps
<1>4. \A x \in Events : x # e => ms[x] = ls[x]
  OBVIOUS
<1> HIDE DEF ms, t
<1>5. ASSUME NEW i \in DOMAIN s PROVE FrameOK(t[i], ms)
  <2>1. s[i].event \in Events
    BY <1>2 DEF Frames
  <2>2. FrameOK(s[i], ls)
    BY <1>1
  <2> QED BY <1>3, <1>4, <2>1, <2>2 DEF FrameOK, IteratesOver, IsLoop
<1>6. StackOK(t, ms)
  BY <1>3, <1>5 DEF StackOK
<1> QED BY <1>6 DEF ms, t

LEMMA StackGone ==
  ASSUME NEW s, NEW ls, NEW ms, StackOK(s, ls)
  PROVE  StackOK(Gone(s), ms)
<1>1. s \in Seq(Frames) /\ \A i \in DOMAIN s : FrameOK(s[i], ls)
  BY DEF StackOK
<1>2. /\ Gone(s) \in Seq(Frames)
      /\ DOMAIN Gone(s) = DOMAIN s
      /\ \A i \in DOMAIN s :
           /\ Gone(s)[i].kind = s[i].kind
           /\ Gone(s)[i].who = s[i].who
           /\ Gone(s)[i].kind # "add" => Gone(s)[i].refs # "valid"
  BY <1>1, GoneProps
<1>3. \A i \in DOMAIN s : FrameOK(Gone(s)[i], ms)
  BY <1>1, <1>2 DEF FrameOK, IsLoop
<1> QED BY <1>2, <1>3 DEF StackOK

-----------------------------------------------------------------------------
(* Type correctness.                                                       *)

LEMMA CounterType ==
  ASSUME NEW d \in -DepthMax - 1 .. DepthMax
  PROVE  /\ Inc(d) \in -DepthMax - 1 .. DepthMax
         /\ Dec(d) \in -DepthMax - 1 .. DepthMax
BY LimitsAssumption DEF Inc, Dec

LEMMA NewFrame ==
  ASSUME NEW ls \in [Events -> Seq(Listeners)], NEW e \in Events,
         NEW kind \in {"emit", "destroy"}
  PROVE  /\ Frame(kind, e, NoListener, Len(ls[e])) \in Frames
         /\ FrameOK(Frame(kind, e, NoListener, Len(ls[e])), ls)
<1>1. ls[e] \in Seq(Listeners)
  OBVIOUS
<1>2. Len(ls[e]) \in Nat
  BY <1>1, LenProperties
<1> QED BY <1>2 DEF Frame, Frames, FrameOK, IsLoop

LEMMA WaitingFrame ==
  ASSUME NEW ls \in [Events -> Seq(Listeners)], NEW e \in Events,
         NEW kind \in {"add", "remove"}, NEW l \in Listeners
  PROVE  /\ Frame(kind, e, l, 0) \in Frames
         /\ FrameOK(Frame(kind, e, l, 0), ls)
<1>1. ls[e] \in Seq(Listeners)
  OBVIOUS
<1>2. Len(ls[e]) \in Nat
  BY <1>1, LenProperties
<1> QED BY <1>2 DEF Frame, Frames, FrameOK, IsLoop

LEMMA AppendType ==
  ASSUME NEW ls \in [Events -> Seq(Listeners)], NEW e \in Events, NEW l \in Listeners
  PROVE  [ls EXCEPT ![e] = Append(@, l)] \in [Events -> Seq(Listeners)]
<1>1. ls[e] \in Seq(Listeners)
  OBVIOUS
<1>2. Append(ls[e], l) \in Seq(Listeners)
  BY <1>1, AppendProperties
<1> QED BY <1>2

\* The list grows under the calls in s, whether or not it reallocates.
LEMMA EmplaceType ==
  ASSUME listeners \in [Events -> Seq(Listeners)], NEW s, StackOK(s, listeners),
         NEW e \in Events, NEW l \in Listeners, EmplaceBack(e, l, s)
  PROVE  listeners' \in [Events -> Seq(Listeners)] /\ StackOK(stack', listeners')
<1>1. listeners' = [listeners EXCEPT ![e] = Append(@, l)]
  BY DEF EmplaceBack
<1>2. listeners' \in [Events -> Seq(Listeners)]
  BY <1>1, AppendType
<1>3. CASE stack' = s
  BY <1>1, <1>2, <1>3, StackGrow
<1>4. CASE stack' = Moved(s, e)
  BY <1>1, <1>2, <1>4, StackMoved
<1> QED BY <1>2, <1>3, <1>4 DEF EmplaceBack

LEMMA AnnounceType ==
  ASSUME TypeInv, NEW news \in Events, NEW kind \in {"add", "remove"},
         NEW e \in Events, NEW l \in Listeners, Announce(news, kind, e, l)
  PROVE  /\ StackOK(stack', listeners')
         /\ keys' \in SUBSET Events
         /\ depth' \in -DepthMax - 1 .. DepthMax
<1>1. depth' \in -DepthMax - 1 .. DepthMax
  BY CounterType DEF TypeInv, TypeOK, Announce
<1>2. keys' \in SUBSET Events
  BY DEF TypeInv, TypeOK, Announce
<1>3. StackOK(stack, listeners) /\ listeners \in [Events -> Seq(Listeners)]
      /\ listeners' = listeners
  BY DEF TypeInv, TypeOK, Announce
<1>4. ASSUME stack' = stack PROVE StackOK(stack', listeners')
  BY <1>3, <1>4
<1>5. ASSUME stack' = Append(Append(stack, Frame(kind, e, l, 0)),
                             Frame("emit", news, NoListener, Len(listeners[news])))
      PROVE  StackOK(stack', listeners')
  <2>1. StackOK(Append(stack, Frame(kind, e, l, 0)), listeners)
    BY <1>3, WaitingFrame, StackPush
  <2>2. /\ Frame("emit", news, NoListener, Len(listeners[news])) \in Frames
        /\ FrameOK(Frame("emit", news, NoListener, Len(listeners[news])), listeners)
    BY <1>3, NewFrame
  <2> QED BY <1>3, <1>5, <2>1, <2>2, StackPush
<1>6. stack' = stack \/ stack' = Append(Append(stack, Frame(kind, e, l, 0)),
                           Frame("emit", news, NoListener, Len(listeners[news])))
  BY DEF Announce
<1> QED BY <1>1, <1>2, <1>4, <1>5, <1>6

LEMMA TypeInvInit == Init => TypeInv
<1> SUFFICES ASSUME Init PROVE TypeInv
  OBVIOUS
<1>1. <<>> \in Seq(Frames) /\ <<>> \in Seq(Listeners) /\ DOMAIN <<>> = {}
  OBVIOUS
<1>3. listeners \in [Events -> Seq(Listeners)]
  BY <1>1 DEF Init
<1>4. depth \in -DepthMax - 1 .. DepthMax /\ calls \in 0 .. MaxCalls
  BY LimitsAssumption DEF Init
<1>5. runs \in [Listeners -> 0 .. 2]
  BY DEF Init
<1>2. TypeOK
  BY <1>1, <1>3, <1>4, <1>5 DEF Init, TypeOK
<1> QED BY <1>1, <1>2 DEF Init, TypeInv, StackOK

LEMMA TypeInvNext == TypeInv /\ [Next]_vars => TypeInv'
<1> SUFFICES ASSUME TypeInv, [Next]_vars PROVE TypeInv'
  OBVIOUS
<1>0. TypeOK /\ StackOK(stack, listeners)
  BY DEF TypeInv
<1>a. /\ listeners \in [Events -> Seq(Listeners)] /\ keys \in SUBSET Events
      /\ maxListeners \in MaxChoices /\ depth \in -DepthMax - 1 .. DepthMax
      /\ stack \in Seq(Frames) /\ runs \in [Listeners -> 0 .. 2]
      /\ added \in SUBSET Listeners /\ calls \in 0 .. MaxCalls /\ corrupt \in BOOLEAN
  BY <1>0 DEF TypeOK
<1>b. ASSUME StackOK(stack', listeners'),
             listeners' \in [Events -> Seq(Listeners)], keys' \in SUBSET Events,
             maxListeners' \in MaxChoices, depth' \in -DepthMax - 1 .. DepthMax,
             runs' \in [Listeners -> 0 .. 2], added' \in SUBSET Listeners,
             calls' \in 0 .. MaxCalls, corrupt' \in BOOLEAN
      PROVE  TypeInv'
  BY <1>b DEF TypeInv, TypeOK, StackOK
<1>c. Calling => calls' \in 0 .. MaxCalls
  BY <1>a, LimitsAssumption DEF Calling
<1>1. ASSUME NEW e \in Events, Emit(e) PROVE TypeInv'
  <2>1. CASE UNCHANGED stack
    BY <1>0, <1>a, <1>b, <1>c, <1>1, <2>1, CounterType DEF Emit
  <2>2. CASE stack' = Append(stack, Frame("emit", e, NoListener, Len(listeners[e])))
    <3>1. StackOK(stack', listeners)
      BY <1>0, <1>a, <2>2, NewFrame, StackPush
    <3> QED BY <3>1, <1>a, <1>b, <1>c, <1>1, CounterType DEF Emit
  <2> QED BY <1>1, <2>1, <2>2 DEF Emit
<1>2. ASSUME NEW e \in Events, NEW l \in Listeners, AddListener(e, l) PROVE TypeInv'
  <2>1. /\ calls' \in 0 .. MaxCalls /\ added' \in SUBSET Listeners
        /\ maxListeners' = maxListeners /\ runs' = runs /\ corrupt' = corrupt
    BY <1>a, <1>c, <1>2 DEF AddListener
  <2>2. CASE UNCHANGED <<listeners, stack, depth>> /\ keys' = keys \cup {e}
    BY <1>0, <1>a, <1>b, <2>1, <2>2
  <2>3. CASE EmplaceBack(e, l, stack) /\ keys' = keys \cup {e} /\ UNCHANGED depth
    BY <1>0, <1>a, <1>b, <2>1, <2>3, EmplaceType
  <2>4. CASE Announce(ListenerAdded, "add", e, l)
    <3>1. listeners' = listeners
      BY <2>4 DEF Announce
    <3>2. /\ StackOK(stack', listeners')
          /\ keys' \in SUBSET Events
          /\ depth' \in -DepthMax - 1 .. DepthMax
      BY <2>4, NamesAssumption, AnnounceType
    <3> QED BY <1>a, <1>b, <2>1, <3>1, <3>2
  <2> QED BY <1>2, <2>2, <2>3, <2>4 DEF AddListener
<1>3. CASE CompleteAdd
  <2>1. stack # <<>> /\ Top.kind = "add" /\ EmplaceBack(Top.event, Top.who, Pop(stack))
    BY <1>3 DEF CompleteAdd
  <2>2. StackOK(Pop(stack), listeners) /\ Top \in Frames /\ FrameOK(Top, listeners)
    BY <1>0, <2>1, StackPop DEF Top
  <2>3. Top.event \in Events /\ Top.who \in Listeners
    BY <2>1, <2>2 DEF Frames, FrameOK, IsLoop
  <2>4. listeners' \in [Events -> Seq(Listeners)] /\ StackOK(stack', listeners')
    BY <1>a, <2>1, <2>2, <2>3, EmplaceType
  <2> QED BY <1>a, <1>b, <1>3, <2>4 DEF CompleteAdd
<1>4. ASSUME NEW e \in Events, NEW l \in Listeners, RemoveListener(e, l) PROVE TypeInv'
  <2>1. /\ calls' \in 0 .. MaxCalls
        /\ UNCHANGED <<maxListeners, runs, added, corrupt>>
    BY <1>c, <1>4 DEF RemoveListener
  <2>2. CASE UNCHANGED <<listeners, stack, depth>> /\ keys' = keys \cup {e}
    BY <1>0, <1>a, <1>b, <2>1, <2>2
  <2>3. CASE Announce(ListenerRemoved, "remove", e, l)
    <3>1. listeners' = listeners
      BY <2>3 DEF Announce
    <3>2. /\ StackOK(stack', listeners')
          /\ keys' \in SUBSET Events
          /\ depth' \in -DepthMax - 1 .. DepthMax
      BY <2>3, NamesAssumption, AnnounceType
    <3> QED BY <1>a, <1>b, <2>1, <3>1, <3>2
  <2> QED BY <1>4, <2>2, <2>3 DEF RemoveListener
<1>5. CASE CompleteRemove
  <2>1. stack # <<>> /\ UNCHANGED <<keys, maxListeners, depth, runs, added, calls>>
        /\ corrupt' \in BOOLEAN
    BY <1>5, <1>a DEF CompleteRemove
  <2>2. StackOK(Pop(stack), listeners) /\ Top \in Frames
    BY <1>0, <2>1, StackPop DEF Top
  <2>3. Top.event \in Events
    BY <2>2 DEF Frames
  <2>4. CASE UNCHANGED <<listeners, stack>>
    BY <1>0, <1>a, <1>b, <2>1, <2>4
  <2>5. CASE /\ listeners' = [listeners EXCEPT ![Top.event] = Without(@, Top.who)]
             /\ stack' = Moved(Pop(stack), Top.event)
    <3>1. listeners[Top.event] \in Seq(Listeners)
      BY <1>a, <2>3
    <3>2. Without(listeners[Top.event], Top.who) \in Seq(Listeners)
      BY <3>1, KeepType DEF Without
    <3>3. listeners' \in [Events -> Seq(Listeners)]
      BY <1>a, <2>5, <3>2
    <3>4. StackOK(stack', listeners')
      BY <1>a, <2>2, <2>3, <2>5, StackMoved
    <3> QED BY <1>a, <1>b, <2>1, <3>3, <3>4
  <2> QED BY <1>5, <2>4, <2>5 DEF CompleteRemove
<1>6. CASE RemoveAllListeners
  <2>1. StackOK(stack', listeners')
    BY <1>0, <1>6, StackGone DEF RemoveAllListeners
  <2>2. listeners' \in [Events -> Seq(Listeners)]
    BY <1>6, EmptySeq DEF RemoveAllListeners
  <2> QED BY <1>a, <1>b, <1>c, <1>6, <2>1, <2>2 DEF RemoveAllListeners
<1>7. ASSUME NEW e \in Events, RemoveAllListenersOf(e) PROVE TypeInv'
  <2>1. StackOK(stack', listeners')
    BY <1>0, <1>a, <1>7, StackMoved DEF RemoveAllListenersOf
  <2>2. listeners' \in [Events -> Seq(Listeners)]
    BY <1>a, <1>7, EmptySeq DEF RemoveAllListenersOf
  <2> QED BY <1>a, <1>b, <1>c, <1>7, <2>1, <2>2 DEF RemoveAllListenersOf
<1>8. ASSUME NEW n \in MaxChoices, SetMaxListeners(n) PROVE TypeInv'
  BY <1>0, <1>a, <1>b, <1>c, <1>8 DEF SetMaxListeners
<1>9. CASE CallNext
  <2>1. stack # <<>> /\ UNCHANGED <<listeners, keys, maxListeners, depth, added, calls>>
        /\ corrupt' \in BOOLEAN
    BY <1>9, <1>a DEF CallNext, InLoop
  <2>2. Top \in Frames /\ FrameOK(Top, listeners)
    BY <1>0, <2>1, StackPop DEF Top
  <2>3. CASE UNCHANGED <<stack, runs>>
    BY <1>0, <1>a, <1>b, <2>1, <2>3
  <2>4. CASE Top.refs = "valid" /\ ~UNCHANGED <<stack, runs>>
    <3> DEFINE l == listeners[Top.event][Top.at]
               f == [Top EXCEPT !.who = l, !.at = @ + 1]
    <3>1. /\ stack' = [stack EXCEPT ![Len(stack)].who = l, ![Len(stack)].at = @ + 1]
          /\ runs' = [runs EXCEPT ![l] = IF @ = 2 THEN 2 ELSE @ + 1]
          /\ Top.at <= Top.len /\ IsLoop(Top)
      BY <1>9, <2>4 DEF CallNext, InLoop
    <3>2. listeners[Top.event] \in Seq(Listeners) /\ Top.at \in Nat \ {0} /\ Top.len \in Nat
      BY <1>a, <2>2 DEF Frames
    <3>3. Top.len <= Len(listeners[Top.event]) /\ Len(listeners[Top.event]) \in Nat
      BY <2>2, <2>4, <3>1, <3>2, LenProperties DEF FrameOK, IsLoop
    <3>4. l \in Listeners
      BY <3>1, <3>2, <3>3, ElementOfSeq
    <3>9. Top.at + 1 \in Nat \ {0} /\ l \in Listeners \cup {NoListener}
      BY <3>2, <3>4
    <3>10. /\ f \in Frames /\ f.kind = Top.kind /\ f.event = Top.event
           /\ f.refs = Top.refs /\ f.len = Top.len
      BY <2>2, <3>9 DEF Frames
    <3>5. f \in Frames /\ FrameOK(f, listeners)
      BY <2>2, <3>1, <3>10 DEF FrameOK, IsLoop
    <3>6. stack' = [stack EXCEPT ![Len(stack)] = f]
      BY <1>a, <2>2, <3>1 DEF Top, Frames
    <3>7. StackOK(stack', listeners)
      BY <1>0, <2>1, <3>5, <3>6, StackTop
    <3> HIDE DEF l
    <3>11. (IF runs[l] = 2 THEN 2 ELSE runs[l] + 1) \in 0 .. 2
      BY <1>a, <3>4
    <3>8. runs' \in [Listeners -> 0 .. 2]
      BY <1>a, <3>1, <3>4, <3>11
    <3> QED BY <1>a, <1>b, <2>1, <3>7, <3>8
  <2> QED BY <1>9, <2>3, <2>4 DEF CallNext
<1>10. CASE Return
  <2> DEFINE f == [Top EXCEPT !.who = NoListener]
  <2>1. stack # <<>> /\ IsLoop(Top)
        /\ stack' = [stack EXCEPT ![Len(stack)].who = NoListener]
    BY <1>10 DEF Return
  <2>2. Top \in Frames /\ FrameOK(Top, listeners)
    BY <1>0, <2>1, StackPop DEF Top
  <2>3. f \in Frames /\ FrameOK(f, listeners)
    BY <2>1, <2>2 DEF Frames, FrameOK, IsLoop
  <2>4. stack' = [stack EXCEPT ![Len(stack)] = f]
    BY <2>1 DEF Top
  <2> HIDE DEF f
  <2>5. StackOK(stack', listeners)
    <3>1. stack # <<>>
      BY <2>1
    <3>2. StackOK([stack EXCEPT ![Len(stack)] = f], listeners)
      BY <1>0, <2>3, <3>1, StackTop
    <3> QED BY <2>4, <3>2
  <2> QED BY <1>a, <1>b, <1>10, <2>5 DEF Return
<1>11. CASE Throw
  <2>1. stack # <<>>
    BY <1>11 DEF Throw
  <2>2. StackOK(Pop(stack), listeners)
    BY <1>0, <2>1, StackPop
  <2>3. Pop(stack) # <<>> => StackOK(Pop(Pop(stack)), listeners)
    BY <2>2, StackPop
  <2>4. StackOK(stack', listeners)
    BY <1>11, <2>2, <2>3 DEF Throw
  <2> QED BY <1>a, <1>b, <1>11, <2>4 DEF Throw
<1>12. CASE Finish
  <2>1. stack # <<>> /\ UNCHANGED <<keys, maxListeners, runs, added, calls>>
        /\ corrupt' \in BOOLEAN
    BY <1>12, <1>a DEF Finish, InLoop
  <2>2. StackOK(Pop(stack), listeners) /\ Top \in Frames
    BY <1>0, <2>1, StackPop DEF Top
  <2>3. CASE UNCHANGED <<listeners, depth, stack>>
    BY <1>0, <1>a, <1>b, <2>1, <2>3
  <2>4. CASE Top.refs # "gone"
    <3> DEFINE e == Top.event
               companion == SelfDestruct[e]
               lists == IF HasOnce(e) THEN [listeners EXCEPT ![e] = Purged(@)]
                                      ELSE listeners
               rest == IF HasOnce(e) THEN Moved(Pop(stack), e) ELSE Pop(stack)
               f == Frame("destroy", companion, NoListener, Len(lists[companion]))
    <3>1. /\ listeners' = lists
          /\ \/ Top.kind = "emit" /\ companion \in keys /\ stack' = Append(rest, f)
             \/ stack' = rest
          /\ depth' = Dec(depth)
      BY <1>12, <2>4 DEF Finish
    <3>2. e \in Events /\ listeners[e] \in Seq(Listeners)
      BY <1>a, <2>2 DEF Frames
    <3>3. Purged(listeners[e]) \in Seq(Listeners)
      BY <3>2, KeepType DEF Purged
    <3>4. lists \in [Events -> Seq(Listeners)]
      BY <1>a, <3>2, <3>3
    <3>5. StackOK(rest, lists)
      BY <1>a, <2>2, <3>2, StackMoved
    <3> HIDE DEF rest, lists
    <3>6. StackOK(stack', lists)
      <4>1. CASE stack' = rest
        BY <3>5, <4>1
      <4>2. CASE companion \in keys /\ stack' = Append(rest, f)
        <5>1. companion \in Events
          BY <1>a, <4>2
        <5>2. f \in Frames /\ FrameOK(f, lists)
          BY <3>4, <5>1, NewFrame
        <5> QED BY <3>5, <4>2, <5>2, StackPush
      <4> QED BY <3>1, <4>1, <4>2
    <3> QED BY <1>a, <1>b, <2>1, <3>1, <3>4, <3>6, CounterType
  <2> QED BY <1>12, <2>3, <2>4 DEF Finish
<1>13. CASE UNCHANGED vars
  BY <1>0, <1>a, <1>b, <1>13 DEF vars
<1> QED
  BY <1>1, <1>2, <1>3, <1>4, <1>5, <1>6, <1>7, <1>8, <1>9, <1>10, <1>11, <1>12, <1>13
  DEF Next, UserCall

\* Every variable keeps a value its C++ member can hold, in particular
\* m_emit_depth a signed byte, whatever listeners do.
THEOREM TypeCorrect == Spec => []TypeOK
<1>1. TypeInv => TypeOK
  BY DEF TypeInv
<1> QED BY <1>1, TypeInvInit, TypeInvNext, PTL DEF Spec

-----------------------------------------------------------------------------
(* Lemmas: what the operations on the stack do to Sound.                   *)

LEMMA SoundPush ==
  ASSUME NEW s \in Seq(Frames), NEW ls, Sound(s, ls),
         NEW f \in Frames, f.refs = "valid",
         \A i \in DOMAIN s : s[i].kind # "add" => ~Changes(f, s[i].event, ls)
  PROVE  Sound(Append(s, f), ls)
<1> DEFINE t == Append(s, f)
<1>1. DOMAIN s = 1 .. Len(s) /\ Len(s) \in Nat
  BY LenProperties
<1>2. /\ DOMAIN t = 1 .. Len(s) + 1 /\ t[Len(s) + 1] = f
      /\ \A i \in DOMAIN s : t[i] = s[i]
  BY <1>1, PushProps
<1> HIDE DEF t
<1>3. ASSUME NEW i \in DOMAIN t PROVE t[i].refs = "valid"
  BY <1>1, <1>2 DEF Sound
<1>4. ASSUME NEW i \in DOMAIN t, NEW j \in DOMAIN t, i < j, t[i].kind # "add"
      PROVE  ~Changes(t[j], t[i].event, ls)
  <2>1. i \in DOMAIN s
    BY <1>1, <1>2, <1>4
  <2>2. CASE j \in DOMAIN s
    BY <1>2, <1>4, <2>1, <2>2 DEF Sound
  <2>3. CASE j = Len(s) + 1
    BY <1>2, <1>4, <2>1, <2>3
  <2> QED BY <1>1, <1>2, <2>2, <2>3
<1>5. Sound(t, ls)
  BY <1>3, <1>4 DEF Sound
<1> QED BY <1>5 DEF t

LEMMA SoundPop ==
  ASSUME NEW s \in Seq(Frames), NEW ls, Sound(s, ls), s # <<>>
  PROVE  /\ Pop(s) \in Seq(Frames)
         /\ Sound(Pop(s), ls)
         /\ s[Len(s)] \in Frames
         /\ s[Len(s)].refs = "valid"
         /\ \A i \in DOMAIN Pop(s) :
              /\ Pop(s)[i] \in Frames
              /\ Pop(s)[i].kind # "add" => ~Changes(s[Len(s)], Pop(s)[i].event, ls)
<1>1. /\ Len(s) \in Nat \ {0} /\ DOMAIN Pop(s) = 1 .. Len(s) - 1
      /\ s[Len(s)] \in Frames /\ Pop(s) \in Seq(Frames)
      /\ \A i \in 1 .. Len(s) - 1 : Pop(s)[i] = s[i]
  BY PopProps
<1>2. DOMAIN s = 1 .. Len(s)
  BY LenProperties
<1>3. Len(s) \in DOMAIN s /\ \A i \in DOMAIN Pop(s) : i \in DOMAIN s /\ i < Len(s)
  BY <1>1, <1>2
<1>4. Sound(Pop(s), ls)
  BY <1>1, <1>3 DEF Sound
<1>5. \A i \in DOMAIN Pop(s) : Pop(s)[i] \in Frames
  BY <1>1, <1>2, <1>3, ElementOfSeq
<1>6. \A i \in DOMAIN Pop(s) :
        Pop(s)[i].kind # "add" => ~Changes(s[Len(s)], Pop(s)[i].event, ls)
  BY <1>1, <1>3 DEF Sound
<1> QED BY <1>1, <1>3, <1>4, <1>5, <1>6 DEF Sound

LEMMA SoundTop ==
  ASSUME NEW s \in Seq(Frames), NEW ls, Sound(s, ls), s # <<>>, NEW f,
         f.kind = s[Len(s)].kind, f.event = s[Len(s)].event, f.refs = s[Len(s)].refs
  PROVE  Sound([s EXCEPT ![Len(s)] = f], ls)
<1> DEFINE t == [s EXCEPT ![Len(s)] = f]
<1>1. DOMAIN t = DOMAIN s /\ \A i \in DOMAIN s : t[i] = IF i = Len(s) THEN f ELSE s[i]
  OBVIOUS
<1> HIDE DEF t
<1>2. \A i \in DOMAIN s :
        t[i].kind = s[i].kind /\ t[i].event = s[i].event /\ t[i].refs = s[i].refs
  BY <1>1
<1>3. Sound(t, ls)
  BY <1>1, <1>2 DEF Sound, Changes
<1> QED BY <1>3 DEF t

\* A list nobody iterates over may change freely, and moving it is no move.
LEMMA SoundIdle ==
  ASSUME NEW s \in Seq(Frames), NEW ls \in [Events -> Seq(Listeners)], Sound(s, ls),
         NEW e \in Events, NEW v, \A i \in DOMAIN s : ~IteratesOver(s[i], e)
  PROVE  /\ Sound(s, [ls EXCEPT ![e] = v])
         /\ Moved(s, e) = s
<1> DEFINE ms == [ls EXCEPT ![e] = v]
<1>1. \A i \in DOMAIN s : s[i] \in Frames
  BY LenProperties, ElementOfSeq
<1>2. \A i \in DOMAIN s : s[i].kind # "add" => ms[s[i].event] = ls[s[i].event]
  BY <1>1 DEF IteratesOver, Frames
<1> HIDE DEF ms
<1>3. Sound(s, ms)
  BY <1>2 DEF Sound, Changes
<1>4. Moved(s, e) = [i \in DOMAIN s |-> s[i]]
  BY DEF Moved
<1>5. s = [i \in DOMAIN s |-> s[i]]
  BY LenProperties
<1> QED BY <1>3, <1>4, <1>5 DEF ms

-----------------------------------------------------------------------------
(* Memory safety of the delivery loops.                                    *)

\* Under the discipline, delivering e changes no list that is iterated over.
LEMMA MayEmitSound ==
  ASSUME ~MayReenter, NEW e \in Events, MayEmit(e), NEW n,
         NEW i \in DOMAIN stack, stack[i].event \in Events, stack[i].kind # "add"
  PROVE  ~Changes(Frame("emit", e, NoListener, n), stack[i].event, listeners)
BY DEF MayEmit, MayPurge, InDelivery, IteratesOver, Claims, HasOnce, Changes, Frame

LEMMA AnnounceSound ==
  ASSUME ~MayReenter, TypeInv, Sound(stack, listeners),
         NEW news \in Events, MayEmit(news), NEW kind \in {"add", "remove"},
         NEW e \in Events, NEW l \in Listeners, ~Held(e),
         kind = "remove" => e \notin Claims(news) \/ ~HasOnce(e),
         Announce(news, kind, e, l)
  PROVE  Sound(stack', listeners')
<1> DEFINE f == Frame(kind, e, l, 0)
           g == Frame("emit", news, NoListener, Len(listeners[news]))
           mid == Append(stack, f)
<1>1. /\ listeners \in [Events -> Seq(Listeners)] /\ listeners' = listeners
      /\ stack \in Seq(Frames)
  BY DEF TypeInv, TypeOK, Announce
<1>2. \A i \in DOMAIN stack : stack[i] \in Frames /\ stack[i].event \in Events
  <2>1. \A i \in DOMAIN stack : stack[i] \in Frames
    BY <1>1, LenProperties, ElementOfSeq
  <2> QED BY <2>1 DEF Frames
<1>3. /\ f \in Frames /\ f.refs = "valid" /\ f.kind = kind /\ f.event = e
      /\ g \in Frames /\ g.refs = "valid"
  BY <1>1, WaitingFrame, NewFrame DEF Frame
<1>4. mid \in Seq(Frames) /\ DOMAIN mid = 1 .. Len(stack) + 1
      /\ mid[Len(stack) + 1] = f /\ \A i \in 1 .. Len(stack) : mid[i] = stack[i]
  BY <1>1, <1>3, PushProps
<1>5. DOMAIN stack = 1 .. Len(stack) /\ Len(stack) \in Nat
  BY <1>1, LenProperties
<1>6. \A i \in DOMAIN stack : stack[i].kind # "add" =>
        ~Changes(g, stack[i].event, listeners)
  BY <1>2, MayEmitSound
<1>7. \A i \in DOMAIN stack : ~Changes(f, stack[i].event, listeners)
  BY <1>3 DEF Changes, Held
<1>8. kind # "add" => ~Changes(g, e, listeners)
  BY DEF Changes, Frame, HasOnce
<1> HIDE DEF f, g
<1>9. Sound(mid, listeners)
  BY <1>1, <1>3, <1>7, SoundPush
<1>10. \A i \in DOMAIN mid : mid[i].kind # "add" => ~Changes(g, mid[i].event, listeners)
  <2> TAKE i \in DOMAIN mid
  <2>1. CASE i \in DOMAIN stack
    BY <1>4, <1>5, <1>6, <2>1
  <2>2. CASE i = Len(stack) + 1
    BY <1>3, <1>4, <1>8, <2>2
  <2> QED BY <1>4, <1>5, <2>1, <2>2
<1>11. Sound(Append(mid, g), listeners)
  BY <1>3, <1>4, <1>9, <1>10, SoundPush
<1>12. stack' = stack \/ stack' = Append(mid, g)
  BY DEF Announce, f, g
<1> QED BY <1>1, <1>11, <1>12

\* Growing a list nobody iterates over.
LEMMA EmplaceSound ==
  ASSUME listeners \in [Events -> Seq(Listeners)], NEW s \in Seq(Frames),
         Sound(s, listeners), NEW e \in Events, NEW l \in Listeners,
         \A i \in DOMAIN s : ~IteratesOver(s[i], e), EmplaceBack(e, l, s)
  PROVE  Sound(stack', listeners')
<1>1. listeners' = [listeners EXCEPT ![e] = Append(@, l)] /\ stack' \in {s, Moved(s, e)}
  BY DEF EmplaceBack
<1>2. Sound(s, listeners') /\ Moved(s, e) = s
  BY <1>1, SoundIdle
<1> QED BY <1>1, <1>2

LEMMA NoInterferenceNext ==
  ASSUME ~MayReenter
  PROVE  TypeInv /\ NoInterference /\ [Next]_vars => NoInterference'
<1> SUFFICES ASSUME TypeInv, NoInterference, [Next]_vars PROVE NoInterference'
  OBVIOUS
<1>0. Sound(stack, listeners) /\ ~corrupt
  BY DEF NoInterference
<1>a. /\ listeners \in [Events -> Seq(Listeners)] /\ keys \in SUBSET Events
      /\ stack \in Seq(Frames)
  BY DEF TypeInv, TypeOK
<1>b. \A i \in DOMAIN stack : stack[i] \in Frames /\ stack[i].event \in Events
  <2>1. \A i \in DOMAIN stack : stack[i] \in Frames
    BY <1>a, LenProperties, ElementOfSeq
  <2> QED BY <2>1 DEF Frames
<1>c. ASSUME Sound(stack', listeners'), corrupt' = corrupt PROVE NoInterference'
  BY <1>0, <1>c DEF NoInterference, Sound
<1>d. ASSUME stack # <<>>
      PROVE  /\ Pop(stack) \in Seq(Frames)
             /\ Sound(Pop(stack), listeners)
             /\ Top \in Frames
             /\ Top.refs = "valid"
             /\ \A i \in DOMAIN Pop(stack) :
                  /\ Pop(stack)[i] \in Frames
                  /\ Pop(stack)[i].kind # "add"
                       => ~Changes(Top, Pop(stack)[i].event, listeners)
  BY <1>0, <1>a, <1>d, SoundPop DEF Top
<1>1. ASSUME NEW e \in Events, Emit(e) PROVE NoInterference'
  <2>1. MayEmit(e) /\ listeners' = listeners /\ corrupt' = corrupt
    BY <1>1 DEF Emit
  <2>2. ASSUME stack' = Append(stack, Frame("emit", e, NoListener, Len(listeners[e])))
        PROVE  Sound(stack', listeners)
    <3> DEFINE f == Frame("emit", e, NoListener, Len(listeners[e]))
    <3>1. f \in Frames /\ f.refs = "valid"
      BY <1>a, NewFrame DEF Frame
    <3>2. \A i \in DOMAIN stack :
            stack[i].kind # "add" => ~Changes(f, stack[i].event, listeners)
      BY <1>b, <2>1, MayEmitSound
    <3> HIDE DEF f
    <3>3. Sound(Append(stack, f), listeners)
      BY <1>0, <1>a, <3>1, <3>2, SoundPush
    <3> QED BY <2>2, <3>3 DEF f
  <2>3. stack' = stack
          \/ stack' = Append(stack, Frame("emit", e, NoListener, Len(listeners[e])))
    BY <1>1 DEF Emit
  <2> QED BY <1>0, <1>c, <2>1, <2>2, <2>3
<1>2. ASSUME NEW e \in Events, NEW l \in Listeners, AddListener(e, l) PROVE NoInterference'
  <2>1. corrupt' = corrupt /\ ~Held(e)
    BY <1>2 DEF AddListener, MayMutate
  <2>2. CASE UNCHANGED <<listeners, stack>>
    BY <1>0, <1>c, <2>1, <2>2
  <2>3. CASE EmplaceBack(e, l, stack)
    <3>1. \A i \in DOMAIN stack : ~IteratesOver(stack[i], e)
      BY <2>1 DEF Held, IteratesOver
    <3>2. Sound(stack', listeners')
      BY <1>0, <1>a, <2>3, <3>1, EmplaceSound
    <3> QED BY <1>c, <2>1, <3>2
  <2>4. CASE MayEmit(ListenerAdded) /\ Announce(ListenerAdded, "add", e, l)
    <3>1. Sound(stack', listeners')
      BY <1>0, <2>1, <2>4, NamesAssumption, AnnounceSound
    <3> QED BY <1>c, <2>1, <3>1
  <2> QED BY <1>2, <2>2, <2>3, <2>4 DEF AddListener
<1>3. CASE CompleteAdd
  <2>1. /\ stack # <<>> /\ Top.kind = "add" /\ corrupt' = corrupt
        /\ EmplaceBack(Top.event, Top.who, Pop(stack))
    BY <1>3 DEF CompleteAdd
  <2>2. Top.event \in Events /\ Top.who \in Listeners
    BY <1>d, <2>1, StackPop DEF Top, Frames, FrameOK, IsLoop, TypeInv
  <2>3. \A i \in DOMAIN Pop(stack) : ~IteratesOver(Pop(stack)[i], Top.event)
    BY <1>d, <2>1 DEF IteratesOver, Changes
  <2>4. Sound(stack', listeners')
    BY <1>a, <1>d, <2>1, <2>2, <2>3, EmplaceSound
  <2> QED BY <1>c, <2>1, <2>4
<1>4. ASSUME NEW e \in Events, NEW l \in Listeners, RemoveListener(e, l)
      PROVE  NoInterference'
  <2>1. corrupt' = corrupt /\ ~Held(e)
    BY <1>4 DEF RemoveListener, MayMutate
  <2>2. CASE UNCHANGED <<listeners, stack>>
    BY <1>0, <1>c, <2>1, <2>2
  <2>3. CASE /\ MayEmit(ListenerRemoved)
             /\ e \notin Claims(ListenerRemoved) \/ ~HasOnce(e)
             /\ Announce(ListenerRemoved, "remove", e, l)
    <3>1. Sound(stack', listeners')
      BY <1>0, <2>1, <2>3, NamesAssumption, AnnounceSound
    <3> QED BY <1>c, <2>1, <3>1
  <2> QED BY <1>4, <2>2, <2>3 DEF RemoveListener
<1>5. CASE CompleteRemove
  <2>1. stack # <<>> /\ Top.kind = "remove"
    BY <1>5 DEF CompleteRemove
  <2>2. /\ corrupt' = corrupt
        /\ listeners' = [listeners EXCEPT ![Top.event] = Without(@, Top.who)]
        /\ stack' = Moved(Pop(stack), Top.event)
    BY <1>5, <1>d, <2>1 DEF CompleteRemove
  <2>3. Top.event \in Events
    BY <1>d, <2>1 DEF Frames
  <2>4. \A i \in DOMAIN Pop(stack) : ~IteratesOver(Pop(stack)[i], Top.event)
    BY <1>d, <2>1 DEF IteratesOver, Changes
  <2>5. Sound(Pop(stack), listeners') /\ Moved(Pop(stack), Top.event) = Pop(stack)
    BY <1>a, <1>d, <2>1, <2>2, <2>3, <2>4, SoundIdle
  <2>6. Sound(stack', listeners')
    BY <2>2, <2>5
  <2> QED BY <1>c, <2>2, <2>6
<1>6. CASE RemoveAllListeners
  <2>1. stack = <<>> /\ stack' = Gone(stack) /\ corrupt' = corrupt
    BY <1>6 DEF RemoveAllListeners
  <2>2. DOMAIN stack' = {}
    BY <2>1 DEF Gone
  <2> QED BY <1>c, <2>1, <2>2 DEF Sound
<1>7. ASSUME NEW e \in Events, RemoveAllListenersOf(e) PROVE NoInterference'
  <2>1. /\ corrupt' = corrupt /\ ~Held(e)
        /\ listeners' = [listeners EXCEPT ![e] = <<>>] /\ stack' = Moved(stack, e)
    BY <1>7 DEF RemoveAllListenersOf, MayMutate
  <2>2. \A i \in DOMAIN stack : ~IteratesOver(stack[i], e)
    BY <2>1 DEF Held, IteratesOver
  <2>3. Sound(stack, listeners') /\ Moved(stack, e) = stack
    BY <1>0, <1>a, <2>1, <2>2, SoundIdle
  <2>4. Sound(stack', listeners')
    BY <2>1, <2>3
  <2> QED BY <1>c, <2>1, <2>4
<1>8. ASSUME NEW n \in MaxChoices, SetMaxListeners(n) PROVE NoInterference'
  BY <1>0, <1>c, <1>8 DEF SetMaxListeners
<1>9. CASE CallNext
  <2>1. stack # <<>> /\ listeners' = listeners
    BY <1>9 DEF CallNext, InLoop
  <2> DEFINE l == listeners[Top.event][Top.at]
             f == [Top EXCEPT !.who = l, !.at = @ + 1]
  <2>2. /\ stack' = [stack EXCEPT ![Len(stack)].who = l, ![Len(stack)].at = @ + 1]
        /\ corrupt' = corrupt
    BY <1>9, <1>d, <2>1 DEF CallNext
  <2>5. stack' = [stack EXCEPT ![Len(stack)] = f]
    BY <1>a, <1>d, <2>1, <2>2 DEF Top, Frames
  <2>6. Top \in Frames
    BY <1>d, <2>1
  <2>3. /\ stack' = [stack EXCEPT ![Len(stack)] = f]
        /\ f.kind = Top.kind /\ f.event = Top.event /\ f.refs = Top.refs
    BY <2>5, <2>6 DEF Frames
  <2> HIDE DEF l, f
  <2>4. Sound([stack EXCEPT ![Len(stack)] = f], listeners)
    BY <1>0, <1>a, <2>1, <2>3, SoundTop DEF Top
  <2> QED BY <1>c, <2>1, <2>2, <2>3, <2>4
<1>10. CASE Return
  <2> DEFINE f == [Top EXCEPT !.who = NoListener]
  <2>1. /\ stack # <<>> /\ listeners' = listeners /\ corrupt' = corrupt
        /\ stack' = [stack EXCEPT ![Len(stack)].who = NoListener]
    BY <1>10 DEF Return
  <2>2. /\ stack' = [stack EXCEPT ![Len(stack)] = f]
        /\ f.kind = Top.kind /\ f.event = Top.event /\ f.refs = Top.refs
    BY <1>a, <1>d, <2>1 DEF Top, Frames
  <2> HIDE DEF f
  <2>3. Sound([stack EXCEPT ![Len(stack)] = f], listeners)
    BY <1>0, <1>a, <2>1, <2>2, SoundTop DEF Top
  <2> QED BY <1>c, <2>1, <2>2, <2>3
<1>11. CASE Throw
  <2>1. stack # <<>> /\ listeners' = listeners /\ corrupt' = corrupt
    BY <1>11 DEF Throw
  <2>2. Pop(stack) \in Seq(Frames) /\ Sound(Pop(stack), listeners)
    BY <1>d, <2>1
  <2>3. Pop(stack) # <<>> => Sound(Pop(Pop(stack)), listeners)
    BY <2>2, SoundPop
  <2>4. Sound(stack', listeners')
    BY <1>11, <2>1, <2>2, <2>3 DEF Throw
  <2> QED BY <1>c, <2>1, <2>4
<1>12. CASE Finish
  <2> DEFINE e == Top.event
             companion == SelfDestruct[e]
             lists == IF HasOnce(e) THEN [listeners EXCEPT ![e] = Purged(@)]
                                    ELSE listeners
             rest == IF HasOnce(e) THEN Moved(Pop(stack), e) ELSE Pop(stack)
             f == Frame("destroy", companion, NoListener, Len(lists[companion]))
  <2>1. stack # <<>> /\ IsLoop(Top)
    BY <1>12 DEF Finish, InLoop
  <2>2. /\ listeners' = lists /\ corrupt' = corrupt
        /\ \/ Top.kind = "emit" /\ companion \in keys /\ stack' = Append(rest, f)
           \/ stack' = rest
    BY <1>12, <1>d, <2>1 DEF Finish
  <2>3. e \in Events /\ listeners[e] \in Seq(Listeners)
    BY <1>a, <1>d, <2>1 DEF Frames
  <2>4. lists \in [Events -> Seq(Listeners)]
    BY <1>a, <2>3, KeepType DEF Purged
  <2>5. HasOnce(e) => \A i \in DOMAIN Pop(stack) : ~IteratesOver(Pop(stack)[i], e)
    BY <1>d, <2>1, <2>3 DEF IteratesOver, Changes, HasOnce, IsLoop, Claims
  <2>6. rest = Pop(stack) /\ Sound(rest, lists)
    <3>1. CASE HasOnce(e)
      BY <1>a, <1>d, <2>1, <2>3, <2>5, <3>1, SoundIdle
    <3>2. CASE ~HasOnce(e)
      BY <1>d, <2>1, <3>2
    <3> QED BY <3>1, <3>2
  <2>7. SelfDestruct[e] # e
    BY <2>3, NamesAssumption
  <2>8. ASSUME Top.kind = "emit", companion \in keys
        PROVE  Sound(Append(rest, f), lists)
    <3>1. companion \in Claims(e) /\ lists[companion] = listeners[companion]
      BY <1>a, <2>3, <2>7, <2>8 DEF Claims
    <3>2. \A i \in DOMAIN Pop(stack) : Pop(stack)[i].kind # "add" =>
            ~(Pop(stack)[i].event = companion /\ HasOnceIn(listeners[companion]))
      BY <1>d, <2>1, <2>8, <3>1 DEF Changes
    <3>3. f \in Frames /\ f.refs = "valid" /\ f.kind = "destroy" /\ f.event = companion
      BY <1>a, <2>4, <2>8, NewFrame DEF Frame
    <3> HIDE DEF f, lists, rest
    <3>4. \A i \in DOMAIN rest : rest[i].kind # "add" => ~Changes(f, rest[i].event, lists)
      BY <2>6, <3>1, <3>2, <3>3 DEF Changes
    <3> QED BY <1>d, <2>1, <2>6, <3>3, <3>4, SoundPush
  <2> HIDE DEF f, lists, rest
  <2>9. Sound(stack', listeners')
    BY <2>2, <2>6, <2>8
  <2> QED BY <1>c, <2>2, <2>9
<1>13. CASE UNCHANGED vars
  BY <1>0, <1>c, <1>13 DEF vars
<1> QED
  BY <1>1, <1>2, <1>3, <1>4, <1>5, <1>6, <1>7, <1>8, <1>9, <1>10, <1>11, <1>12, <1>13
  DEF Next, UserCall

\* While listeners leave alone the lists that are being delivered, no loop of
\* emit_impl or remove_listener uses a stale iterator or a dead vector.
THEOREM DeliveryIsMemorySafe ==
  ASSUME ~MayReenter
  PROVE  Spec => []MemorySafe
<1>1. Init => NoInterference
  BY DEF Init, NoInterference, Sound
<1>2. NoInterference => MemorySafe
  BY DEF NoInterference, MemorySafe
<1> QED BY <1>1, <1>2, TypeInvInit, TypeInvNext, NoInterferenceNext, PTL DEF Spec
-----------------------------------------------------------------------------
(* The emits in progress and the byte that counts them.                    *)

Loops(s) == {i \in DOMAIN s : IsLoop(s[i])}

\* Until the byte can have wrapped it counts at least the deliveries in
\* progress, because nothing but the end of a loop takes it down, and at most
\* the calls that were made.
Counted ==
  calls <= DepthMax =>
    /\ Nesting <= depth /\ depth <= calls
    /\ Nesting <= DepthLimit
CountInv == TypeInv /\ Counted

LEMMA LoopsFinite ==
  ASSUME NEW s \in Seq(Frames)
  PROVE  IsFiniteSet(Loops(s)) /\ Cardinality(Loops(s)) \in Nat
<1>1. IsFiniteSet(1 .. Len(s)) /\ DOMAIN s = 1 .. Len(s)
  BY LenProperties, FS_Interval
<1>2. Loops(s) \in SUBSET (1 .. Len(s))
  BY <1>1 DEF Loops
<1> QED BY <1>1, <1>2, FS_Subset, FS_CardinalityType

LEMMA LoopsSame ==
  ASSUME NEW s, NEW t, DOMAIN t = DOMAIN s, \A i \in DOMAIN s : t[i].kind = s[i].kind
  PROVE  Loops(t) = Loops(s)
BY DEF Loops, IsLoop

LEMMA LoopsPush ==
  ASSUME NEW s \in Seq(Frames), NEW f \in Frames
  PROVE  Cardinality(Loops(Append(s, f))) =
           IF IsLoop(f) THEN Cardinality(Loops(s)) + 1 ELSE Cardinality(Loops(s))
<1>1. /\ DOMAIN Append(s, f) = 1 .. Len(s) + 1 /\ DOMAIN s = 1 .. Len(s) /\ Len(s) \in Nat
      /\ Append(s, f)[Len(s) + 1] = f
      /\ \A i \in 1 .. Len(s) : Append(s, f)[i] = s[i]
  BY PushProps, LenProperties
<1>2. Len(s) + 1 \notin Loops(s)
  BY <1>1 DEF Loops
<1>3. 1 .. Len(s) + 1 = (1 .. Len(s)) \cup {Len(s) + 1}
  BY <1>1
<1>4. Loops(Append(s, f)) = IF IsLoop(f) THEN Loops(s) \cup {Len(s) + 1} ELSE Loops(s)
  <2>1. \A i \in 1 .. Len(s) : i \in Loops(Append(s, f)) <=> i \in Loops(s)
    BY <1>1, <1>3 DEF Loops
  <2>2. Len(s) + 1 \in Loops(Append(s, f)) <=> IsLoop(f)
    BY <1>1, <1>3 DEF Loops
  <2>3. /\ \A i \in Loops(Append(s, f)) : i \in (1 .. Len(s)) \cup {Len(s) + 1}
        /\ \A i \in Loops(s) : i \in 1 .. Len(s)
    BY <1>1, <1>3 DEF Loops
  <2>4. CASE IsLoop(f)
    <3>1. \A x : x \in Loops(Append(s, f)) <=> x \in Loops(s) \cup {Len(s) + 1}
      BY <2>1, <2>2, <2>3, <2>4
    <3> QED BY <2>4, <3>1
  <2>5. CASE ~IsLoop(f)
    <3>1. \A x : x \in Loops(Append(s, f)) <=> x \in Loops(s)
      BY <2>1, <2>2, <2>3, <2>5
    <3> QED BY <2>5, <3>1
  <2> QED BY <2>4, <2>5
<1> QED BY <1>2, <1>4, LoopsFinite, FS_AddElement

LEMMA LoopsPop ==
  ASSUME NEW s \in Seq(Frames), s # <<>>
  PROVE  /\ Pop(s) \in Seq(Frames)
         /\ Cardinality(Loops(s)) = IF IsLoop(s[Len(s)]) THEN Cardinality(Loops(Pop(s))) + 1
                                    ELSE Cardinality(Loops(Pop(s)))
<1>1. /\ Len(s) \in Nat \ {0} /\ s[Len(s)] \in Frames /\ Pop(s) \in Seq(Frames)
      /\ Len(Pop(s)) = Len(s) - 1 /\ DOMAIN Pop(s) = 1 .. Len(s) - 1
      /\ \A i \in 1 .. Len(s) - 1 : Pop(s)[i] = s[i]
      /\ DOMAIN s = 1 .. Len(s)
  BY PopProps, LenProperties
<1>2. Len(s) \notin Loops(Pop(s))
  BY <1>1 DEF Loops
<1>3. 1 .. Len(s) = (1 .. Len(s) - 1) \cup {Len(s)}
  BY <1>1
<1>4. Loops(s) = IF IsLoop(s[Len(s)]) THEN Loops(Pop(s)) \cup {Len(s)} ELSE Loops(Pop(s))
  <2>1. \A i \in 1 .. Len(s) - 1 : i \in Loops(Pop(s)) <=> i \in Loops(s)
    BY <1>1, <1>3 DEF Loops
  <2>2. Len(s) \in Loops(s) <=> IsLoop(s[Len(s)])
    BY <1>1, <1>3 DEF Loops
  <2>3. /\ \A i \in Loops(s) : i \in (1 .. Len(s) - 1) \cup {Len(s)}
        /\ \A i \in Loops(Pop(s)) : i \in 1 .. Len(s) - 1
    BY <1>1, <1>3 DEF Loops
  <2>4. CASE IsLoop(s[Len(s)])
    <3>1. \A x : x \in Loops(s) <=> x \in Loops(Pop(s)) \cup {Len(s)}
      BY <2>1, <2>2, <2>3, <2>4
    <3> QED BY <2>4, <3>1
  <2>5. CASE ~IsLoop(s[Len(s)])
    <3>1. \A x : x \in Loops(s) <=> x \in Loops(Pop(s))
      BY <2>1, <2>2, <2>3, <2>5
    <3> QED BY <2>5, <3>1
  <2> QED BY <2>4, <2>5
<1> QED BY <1>1, <1>2, <1>4, LoopsFinite, FS_AddElement

\* One more delivery, and one more count, unless the count is at its limit.
LEMMA CountEmit ==
  ASSUME CountInv, Calling, depth' = Inc(depth),
         \/ Refused(depth) /\ stack' = stack
         \/ ~Refused(depth) /\ stack' \in Seq(Frames)
            /\ Cardinality(Loops(stack')) = Cardinality(Loops(stack)) + 1
  PROVE  Counted'
<1> SUFFICES ASSUME calls' <= DepthMax
             PROVE  /\ Nesting' <= depth' /\ depth' <= calls'
                    /\ Nesting' <= DepthLimit
  BY DEF Counted
<1>1. /\ calls \in Nat /\ depth \in Int /\ Nesting \in Nat /\ calls' = calls + 1
      /\ stack \in Seq(Frames)
  <2>1. calls \in Nat /\ depth \in Int /\ stack \in Seq(Frames)
    BY LimitsAssumption DEF CountInv, TypeInv, TypeOK
  <2>2. Nesting = Cardinality(Loops(stack))
    BY DEF Nesting, Loops
  <2> QED BY <2>1, <2>2, LoopsFinite DEF Calling
<1>2. Nesting <= depth /\ depth <= calls /\ Nesting <= DepthLimit /\ calls < DepthMax
  BY <1>1, LimitsAssumption DEF CountInv, Counted
<1>3. Inc(depth) = depth + 1
  BY <1>1, <1>2, LimitsAssumption DEF Inc
<1>4. CASE stack' = stack
  BY <1>1, <1>2, <1>3, <1>4 DEF Nesting
<1>5. CASE ~Refused(depth) /\ Cardinality(Loops(stack')) = Cardinality(Loops(stack)) + 1
  <2>1. Nesting' = Nesting + 1
    BY <1>5 DEF Nesting, Loops
  <2> QED BY <1>1, <1>2, <1>3, <1>5, <2>1, LimitsAssumption DEF Refused
<1> QED BY <1>4, <1>5

LEMMA CountAnnounce ==
  ASSUME CountInv, Calling, NEW news \in Events, NEW kind \in {"add", "remove"},
         NEW e \in Events, NEW l \in Listeners, Announce(news, kind, e, l)
  PROVE  Counted'
<1> DEFINE f == Frame(kind, e, l, 0)
           g == Frame("emit", news, NoListener, Len(listeners[news]))
<1>1. stack \in Seq(Frames) /\ listeners \in [Events -> Seq(Listeners)]
  BY DEF CountInv, TypeInv, TypeOK
<1>2. f \in Frames /\ g \in Frames /\ ~IsLoop(f) /\ IsLoop(g)
  BY <1>1, WaitingFrame, NewFrame DEF IsLoop, Frame
<1>3. \/ Refused(depth) /\ stack' = stack
      \/ ~Refused(depth) /\ stack' = Append(Append(stack, f), g)
  BY DEF Announce
<1>4. depth' = Inc(depth)
  BY DEF Announce
<1> HIDE DEF f, g
<1>5. Append(stack, f) \in Seq(Frames) /\ Append(Append(stack, f), g) \in Seq(Frames)
  BY <1>1, <1>2, PushProps
<1>6. Cardinality(Loops(Append(stack, f))) = Cardinality(Loops(stack))
  BY <1>1, <1>2, LoopsPush
<1>7. Cardinality(Loops(Append(Append(stack, f), g))) = Cardinality(Loops(stack)) + 1
  BY <1>2, <1>5, <1>6, LoopsPush
<1> QED BY <1>3, <1>4, <1>5, <1>7, CountEmit

\* What a step that leaves the counter alone may do.
LEMMA CountKept ==
  ASSUME CountInv, UNCHANGED depth, calls' \in Nat, calls <= calls',
         Cardinality(Loops(stack')) \in Nat,
         Cardinality(Loops(stack')) <= Cardinality(Loops(stack))
  PROVE  Counted'
<1>1. calls \in Nat /\ depth \in Int /\ Nesting \in Nat
  <2>1. calls \in Nat /\ depth \in Int /\ stack \in Seq(Frames)
    BY LimitsAssumption DEF CountInv, TypeInv, TypeOK
  <2>2. Nesting = Cardinality(Loops(stack))
    BY DEF Nesting, Loops
  <2> QED BY <2>1, <2>2, LoopsFinite
<1>2. Nesting' \in Nat /\ Nesting' <= Nesting
  BY DEF Nesting, Loops
<1> QED BY <1>1, <1>2, LimitsAssumption DEF CountInv, Counted

\* The list grows: the frames stay what they are.
LEMMA EmplaceLoops ==
  ASSUME NEW s \in Seq(Frames), NEW e, NEW l, EmplaceBack(e, l, s)
  PROVE  Loops(stack') = Loops(s)
<1>1. CASE stack' = s
  BY <1>1
<1>2. CASE stack' = Moved(s, e)
  <2>1. /\ DOMAIN Moved(s, e) = DOMAIN s
        /\ \A i \in DOMAIN s : Moved(s, e)[i].kind = s[i].kind
    BY MovedProps
  <2> QED BY <1>2, <2>1, LoopsSame
<1> QED BY <1>1, <1>2 DEF EmplaceBack

LEMMA MovedLoops ==
  ASSUME NEW s \in Seq(Frames), NEW e
  PROVE  Loops(Moved(s, e)) = Loops(s)
<1>1. /\ DOMAIN Moved(s, e) = DOMAIN s
      /\ \A i \in DOMAIN s : Moved(s, e)[i].kind = s[i].kind
  BY MovedProps
<1> QED BY <1>1, LoopsSame

LEMMA CountedNext ==
  ASSUME \A e \in Events : SelfDestruct[e] = NoEvent
  PROVE  CountInv /\ [Next]_vars => Counted'
<1> SUFFICES ASSUME CountInv, [Next]_vars PROVE Counted'
  OBVIOUS
<1>a. /\ calls \in Nat /\ depth \in -DepthMax - 1 .. DepthMax /\ depth \in Int
      /\ stack \in Seq(Frames) /\ keys \in SUBSET Events
      /\ listeners \in [Events -> Seq(Listeners)]
      /\ Cardinality(Loops(stack)) \in Nat
  BY LoopsFinite, LimitsAssumption DEF CountInv, TypeInv, TypeOK
<1>b. ASSUME stack # <<>>
      PROVE  /\ Pop(stack) \in Seq(Frames) /\ Cardinality(Loops(Pop(stack))) \in Nat
             /\ Cardinality(Loops(stack)) = IF IsLoop(Top) THEN Cardinality(Loops(Pop(stack))) + 1
                                            ELSE Cardinality(Loops(Pop(stack)))
             /\ Top \in Frames
  BY <1>a, <1>b, LoopsPop, LoopsFinite, PopProps DEF Top
<1>c. Calling => calls' \in Nat /\ calls <= calls'
  BY <1>a DEF Calling
<1>d. ASSUME UNCHANGED depth, calls' \in Nat, calls <= calls', Loops(stack') = Loops(stack)
      PROVE  Counted'
  BY <1>a, <1>d, CountKept
<1>1. ASSUME NEW e \in Events, Emit(e) PROVE Counted'
  <2> DEFINE f == Frame("emit", e, NoListener, Len(listeners[e]))
  <2>1. f \in Frames /\ IsLoop(f)
    BY <1>a, NewFrame DEF Frame, IsLoop
  <2>2. /\ Calling /\ depth' = Inc(depth)
        /\ \/ Refused(depth) /\ stack' = stack
           \/ ~Refused(depth) /\ stack' = Append(stack, f)
    BY <1>1 DEF Emit
  <2> HIDE DEF f
  <2>3. /\ Append(stack, f) \in Seq(Frames)
        /\ Cardinality(Loops(Append(stack, f))) = Cardinality(Loops(stack)) + 1
    BY <1>a, <2>1, LoopsPush, PushProps
  <2> QED BY <2>2, <2>3, CountEmit
<1>2. ASSUME NEW e \in Events, NEW l \in Listeners, AddListener(e, l) PROVE Counted'
  <2>1. Calling
    BY <1>2 DEF AddListener
  <2>2. CASE UNCHANGED <<stack, depth>>
    BY <1>c, <1>d, <2>1, <2>2
  <2>3. CASE EmplaceBack(e, l, stack) /\ UNCHANGED depth
    BY <1>a, <1>c, <1>d, <2>1, <2>3, EmplaceLoops
  <2>4. CASE Announce(ListenerAdded, "add", e, l)
    BY <2>1, <2>4, NamesAssumption, CountAnnounce
  <2> QED BY <1>2, <2>2, <2>3, <2>4 DEF AddListener
<1>3. CASE CompleteAdd
  <2>1. /\ stack # <<>> /\ Top.kind = "add" /\ UNCHANGED <<depth, calls>>
        /\ EmplaceBack(Top.event, Top.who, Pop(stack))
    BY <1>3 DEF CompleteAdd
  <2>2. Loops(stack') = Loops(Pop(stack))
    BY <1>b, <2>1, EmplaceLoops
  <2> QED BY <1>a, <1>b, <2>1, <2>2, CountKept DEF IsLoop
<1>4. ASSUME NEW e \in Events, NEW l \in Listeners, RemoveListener(e, l) PROVE Counted'
  <2>1. Calling
    BY <1>4 DEF RemoveListener
  <2>2. CASE UNCHANGED <<stack, depth>>
    BY <1>c, <1>d, <2>1, <2>2
  <2>3. CASE Announce(ListenerRemoved, "remove", e, l)
    BY <2>1, <2>3, NamesAssumption, CountAnnounce
  <2> QED BY <1>4, <2>2, <2>3 DEF RemoveListener
<1>5. CASE CompleteRemove
  <2>1. /\ stack # <<>> /\ Top.kind = "remove" /\ UNCHANGED <<depth, calls>>
        /\ stack' = stack \/ stack' = Moved(Pop(stack), Top.event)
    BY <1>5 DEF CompleteRemove
  <2>2. CASE stack' = stack
    BY <1>a, <1>d, <2>1, <2>2
  <2>3. CASE stack' = Moved(Pop(stack), Top.event)
    <3>1. Loops(stack') = Loops(Pop(stack))
      BY <1>b, <2>1, <2>3, MovedLoops
    <3> QED BY <1>a, <1>b, <2>1, <3>1, CountKept DEF IsLoop
  <2> QED BY <2>1, <2>2, <2>3
<1>6. CASE RemoveAllListeners
  <2>1. DOMAIN Gone(stack) = DOMAIN stack /\ \A i \in DOMAIN stack : Gone(stack)[i].kind = stack[i].kind
    BY <1>a, GoneProps
  <2>2. Loops(Gone(stack)) = Loops(stack)
    BY <2>1, LoopsSame
  <2> QED BY <1>c, <1>d, <1>6, <2>2 DEF RemoveAllListeners
<1>7. ASSUME NEW e \in Events, RemoveAllListenersOf(e) PROVE Counted'
  BY <1>a, <1>c, <1>d, <1>7, MovedLoops DEF RemoveAllListenersOf
<1>8. ASSUME NEW n \in MaxChoices, SetMaxListeners(n) PROVE Counted'
  BY <1>c, <1>d, <1>8 DEF SetMaxListeners
<1>9. CASE CallNext
  <2>1. /\ UNCHANGED <<depth, calls>> /\ stack # <<>>
        /\ \/ stack' = stack
           \/ stack' = [stack EXCEPT ![Len(stack)].who = listeners[Top.event][Top.at],
                                     ![Len(stack)].at = @ + 1]
    BY <1>9 DEF CallNext, InLoop
  <2>2. DOMAIN stack' = DOMAIN stack /\ \A i \in DOMAIN stack : stack'[i].kind = stack[i].kind
    <3>1. CASE stack' = stack
      BY <3>1
    <3>2. CASE stack' = [stack EXCEPT ![Len(stack)].who = listeners[Top.event][Top.at],
                                      ![Len(stack)].at = @ + 1]
      <4>1. \A i \in DOMAIN stack : stack[i] \in Frames
        BY <1>a, LenProperties, ElementOfSeq
      <4> QED BY <3>2, <4>1 DEF Frames
    <3> QED BY <2>1, <3>1, <3>2
  <2>3. Loops(stack') = Loops(stack)
    BY <2>2, LoopsSame
  <2> QED BY <1>a, <1>d, <2>1, <2>3
<1>10. CASE Return
  <2>1. /\ UNCHANGED <<depth, calls>>
        /\ stack' = [stack EXCEPT ![Len(stack)].who = NoListener]
    BY <1>10 DEF Return
  <2>2. \A i \in DOMAIN stack : stack[i] \in Frames
    BY <1>a, LenProperties, ElementOfSeq
  <2>3. DOMAIN stack' = DOMAIN stack /\ \A i \in DOMAIN stack : stack'[i].kind = stack[i].kind
    BY <2>1, <2>2 DEF Frames
  <2>4. Loops(stack') = Loops(stack)
    BY <2>3, LoopsSame
  <2> QED BY <1>a, <1>d, <2>1, <2>4
<1>11. CASE Throw
  <2>1. /\ UNCHANGED <<depth, calls>> /\ stack # <<>> /\ IsLoop(Top)
        /\ \/ stack' = Pop(stack)
           \/ Pop(stack) # <<>> /\ stack' = Pop(Pop(stack))
    BY <1>11 DEF Throw
  <2>2. CASE stack' = Pop(stack)
    BY <1>a, <1>b, <2>1, <2>2, CountKept
  <2>3. CASE Pop(stack) # <<>> /\ stack' = Pop(Pop(stack))
    <3> DEFINE s == Pop(stack)
    <3>1. /\ Cardinality(Loops(Pop(s))) \in Nat
          /\ Cardinality(Loops(Pop(s))) <= Cardinality(Loops(s))
      BY <1>b, <2>1, <2>3, LoopsPop, LoopsFinite
    <3> QED BY <1>a, <1>b, <2>1, <2>3, <3>1, CountKept
  <2> QED BY <2>1, <2>2, <2>3
<1>12. CASE Finish
  <2>1. stack # <<>> /\ IsLoop(Top) /\ UNCHANGED calls
    BY <1>12 DEF Finish, InLoop
  <2>2. CASE UNCHANGED <<depth, stack>>
    BY <1>a, <1>d, <2>1, <2>2
  <2>3. CASE Top.refs # "gone"
    <3>1. Top.event \in Events
      BY <1>b, <2>1 DEF Frames
    <3>2. SelfDestruct[Top.event] \notin keys
      BY <1>a, <3>1, NamesAssumption
    <3>3. depth' = Dec(depth) /\ (stack' = Pop(stack) \/ stack' = Moved(Pop(stack), Top.event))
      BY <1>12, <2>3, <3>2 DEF Finish
    <3>4. Loops(stack') = Loops(Pop(stack))
      BY <1>b, <2>1, <3>3, MovedLoops
    <3>5. Nesting = Cardinality(Loops(stack)) /\ Nesting' = Cardinality(Loops(stack'))
      BY DEF Nesting, Loops
    <3>6. Nesting' = Nesting - 1 /\ Nesting' \in Nat /\ Nesting \in Nat
      BY <1>a, <1>b, <2>1, <3>4, <3>5
    <3>7. depth >= 1 => Dec(depth) = depth - 1
      BY <1>a, LimitsAssumption DEF Dec
    <3> QED BY <1>a, <2>1, <3>3, <3>6, <3>7, LimitsAssumption DEF CountInv, Counted
  <2> QED BY <1>12, <2>2, <2>3 DEF Finish
<1>13. CASE UNCHANGED vars
  BY <1>a, <1>d, <1>13 DEF vars
<1> QED
  BY <1>1, <1>2, <1>3, <1>4, <1>5, <1>6, <1>7, <1>8, <1>9, <1>10, <1>11, <1>12, <1>13
  DEF Next, UserCall

\* The deliveries in progress never outnumber c_max_emit_depth, whatever
\* listeners throw, deliver or remove: for as long as the signed byte cannot
\* have wrapped, which takes more than 127 calls, and while no event has a
\* _selfdestruct companion, whose delivery is taken off the count twice.
THEOREM DeliveriesAreCounted ==
  ASSUME \A e \in Events : SelfDestruct[e] = NoEvent
  PROVE  Spec => [](calls <= DepthMax => NestingBounded)
<1>1. Init => CountInv
  <2> SUFFICES ASSUME Init PROVE CountInv
    OBVIOUS
  <2>1. TypeInv /\ Loops(stack) = {} /\ depth = 0 /\ calls = 0
    BY TypeInvInit DEF Init, Loops
  <2>2. Nesting = 0
    BY <2>1, FS_EmptySet DEF Nesting, Loops
  <2> QED BY <2>1, <2>2, LimitsAssumption DEF CountInv, Counted
<1>2. CountInv /\ [Next]_vars => CountInv'
  BY TypeInvNext, CountedNext DEF CountInv
<1>3. CountInv => (calls <= DepthMax => NestingBounded)
  BY DEF CountInv, Counted, NestingBounded
<1> QED BY <1>1, <1>2, <1>3, PTL DEF Spec

-----------------------------------------------------------------------------
(* What the lists hold, when listeners leave alone the lists that are being *)
(* delivered.  By DeliveryIsMemorySafe every iterator is then valid, so     *)
(* that a list changes only when no call below iterates over it.            *)

(* erase_remove_if again.                                                   *)

\* What is kept are entries at different positions of K.
LEMMA KeepFrom ==
  ASSUME NEW S, NEW list \in Seq(S), NEW K \in SUBSET DOMAIN list
  PROVE  /\ Len(Keep(list, K)) \in 0 .. Len(list)
         /\ \E f \in [DOMAIN Keep(list, K) -> K] :
              /\ \A k \in DOMAIN Keep(list, K) : Keep(list, K)[k] = list[f[k]]
              /\ \A k, m \in DOMAIN Keep(list, K) : f[k] = f[m] => k = m
<1> DEFINE n == Cardinality(K)
           f == [k \in 1 .. n |-> CHOOSE i \in K : Rank(K, i) = k]
           kept == Keep(list, K)
<1>1. DOMAIN list = 1 .. Len(list) /\ Len(list) \in Nat
  BY LenProperties
<1>2. IsFiniteSet(K) /\ K \in SUBSET Int /\ n \in Nat /\ n <= Len(list)
  <2>1. IsFiniteSet(1 .. Len(list)) /\ Cardinality(1 .. Len(list)) = Len(list)
    <3>1. /\ IsFiniteSet(1 .. Len(list))
          /\ Cardinality(1 .. Len(list)) = IF 1 > Len(list) THEN 0 ELSE Len(list) - 1 + 1
      BY <1>1, FS_Interval
    <3> QED BY <1>1, <3>1
  <2>2. K \in SUBSET (1 .. Len(list))
    BY <1>1
  <2> QED BY <2>1, <2>2, FS_Subset, FS_CardinalityType
<1>3. \A k \in 1 .. n : f[k] \in K /\ Rank(K, f[k]) = k
  BY <1>2, RankOnto
<1>4. kept \in Seq(S) /\ DOMAIN kept = 1 .. n
  BY KeepType DEF Keep
<1>5. Len(kept) = n
  BY <1>2, <1>4, LenProperties
<1>6. \A k \in 1 .. n : kept[k] = list[f[k]]
  BY DEF Keep
<1>7. f \in [1 .. n -> K]
  BY <1>3
<1> HIDE DEF f, kept
<1>8. \A k, m \in 1 .. n : f[k] = f[m] => k = m
  BY <1>3
<1> QED BY <1>1, <1>2, <1>4, <1>5, <1>6, <1>7, <1>8 DEF kept

LEMMA FrameTypes ==
  ASSUME NEW s \in Seq(Frames)
  PROVE  \A i \in DOMAIN s : s[i] \in Frames /\ s[i].event \in Events
<1>1. \A i \in DOMAIN s : s[i] \in Frames
  BY LenProperties, ElementOfSeq
<1> QED BY <1>1 DEF Frames

LEMMA PopFrames ==
  ASSUME NEW s \in Seq(Frames), s # <<>>
  PROVE  /\ Pop(s) \in Seq(Frames) /\ DOMAIN Pop(s) = DOMAIN s \ {Len(s)}
         /\ Len(s) \in DOMAIN s
         /\ \A i \in DOMAIN Pop(s) : Pop(s)[i] = s[i]
<1>1. /\ Len(s) \in Nat \ {0} /\ DOMAIN Pop(s) = 1 .. Len(s) - 1 /\ Pop(s) \in Seq(Frames)
      /\ \A i \in 1 .. Len(s) - 1 : Pop(s)[i] = s[i]
  BY PopProps
<1>2. DOMAIN s = 1 .. Len(s)
  BY LenProperties
<1> QED BY <1>1, <1>2

-----------------------------------------------------------------------------
(* How far a list outgrows its limit.                                       *)

Adds(s, e) == {i \in DOMAIN s : s[i].kind = "add" /\ s[i].event = e}

\* An add or remove that waits is followed by the delivery it waits for.
Announcing(s) == \A i \in DOMAIN s : ~IsLoop(s[i]) /\ i < Len(s) => IsLoop(s[i + 1])

\* The list, and what is about to be appended to it, within the bound.
RoomFor(s, ls, e) == \E m \in MaxChoices : Len(ls[e]) + Cardinality(Adds(s, e)) < m + DepthLimit
Room(s, ls) == \A e \in Events : RoomFor(s, ls, e)
RoomInv == /\ Announcing(stack)
           /\ Cardinality(Adds(stack, NewListener)) = 0
           /\ calls <= DepthMax => Room(stack, listeners)

LEMMA AddsFinite ==
  ASSUME NEW s \in Seq(Frames), NEW e
  PROVE  IsFiniteSet(Adds(s, e)) /\ Cardinality(Adds(s, e)) \in Nat
<1>1. IsFiniteSet(1 .. Len(s)) /\ DOMAIN s = 1 .. Len(s)
  BY LenProperties, FS_Interval
<1>2. Adds(s, e) \in SUBSET (1 .. Len(s))
  BY <1>1 DEF Adds
<1> QED BY <1>1, <1>2, FS_Subset, FS_CardinalityType

\* Calls whose kinds and events are the same wait for the same lists.
SameCalls(s, t) == /\ DOMAIN t = DOMAIN s
                   /\ \A i \in DOMAIN s : t[i].kind = s[i].kind /\ t[i].event = s[i].event

LEMMA AddsSame ==
  ASSUME NEW s \in Seq(Frames), NEW t \in Seq(Frames), SameCalls(s, t)
  PROVE  /\ \A e : Adds(t, e) = Adds(s, e)
         /\ Announcing(s) => Announcing(t)
<1>1. \A e : Adds(t, e) = Adds(s, e)
  BY DEF Adds, SameCalls
<1>2. DOMAIN s = 1 .. Len(s) /\ Len(s) \in Nat /\ DOMAIN t = 1 .. Len(t) /\ Len(t) \in Nat
  BY LenProperties
<1>3. Len(t) = Len(s)
  BY <1>2 DEF SameCalls
<1>4. ASSUME Announcing(s), NEW i \in DOMAIN t, ~IsLoop(t[i]), i < Len(t)
      PROVE  IsLoop(t[i + 1])
  <2>1. i \in DOMAIN s /\ i + 1 \in DOMAIN s /\ i < Len(s) /\ ~IsLoop(s[i])
    BY <1>2, <1>3, <1>4 DEF SameCalls, IsLoop
  <2>2. IsLoop(s[i + 1])
    BY <1>4, <2>1 DEF Announcing
  <2> QED BY <2>1, <2>2 DEF SameCalls, IsLoop
<1> QED BY <1>1, <1>4 DEF Announcing

LEMMA AddsPush ==
  ASSUME NEW s \in Seq(Frames), NEW f \in Frames, NEW e
  PROVE  Cardinality(Adds(Append(s, f), e)) =
           IF f.kind = "add" /\ f.event = e THEN Cardinality(Adds(s, e)) + 1
                                            ELSE Cardinality(Adds(s, e))
<1> DEFINE isAdd == f.kind = "add" /\ f.event = e
<1>1. /\ DOMAIN Append(s, f) = 1 .. Len(s) + 1 /\ DOMAIN s = 1 .. Len(s) /\ Len(s) \in Nat
      /\ Append(s, f)[Len(s) + 1] = f
      /\ \A i \in 1 .. Len(s) : Append(s, f)[i] = s[i]
  BY PushProps, LenProperties
<1>2. Len(s) + 1 \notin Adds(s, e)
  BY <1>1 DEF Adds
<1>3. 1 .. Len(s) + 1 = (1 .. Len(s)) \cup {Len(s) + 1}
  BY <1>1
<1>4. \A i \in 1 .. Len(s) : i \in Adds(Append(s, f), e) <=> i \in Adds(s, e)
  BY <1>1, <1>3 DEF Adds
<1>5. Len(s) + 1 \in Adds(Append(s, f), e) <=> isAdd
  BY <1>1, <1>3 DEF Adds
<1>6. /\ \A i \in Adds(Append(s, f), e) : i \in (1 .. Len(s)) \cup {Len(s) + 1}
      /\ \A i \in Adds(s, e) : i \in 1 .. Len(s)
  BY <1>1, <1>3 DEF Adds
<1> HIDE DEF isAdd
<1>7. CASE isAdd
  <2>1. \A x : x \in Adds(Append(s, f), e) <=> x \in Adds(s, e) \cup {Len(s) + 1}
    BY <1>4, <1>5, <1>6, <1>7
  <2>2. Adds(Append(s, f), e) = Adds(s, e) \cup {Len(s) + 1}
    BY <2>1
  <2>3. Cardinality(Adds(s, e) \cup {Len(s) + 1}) = Cardinality(Adds(s, e)) + 1
    BY <1>2, AddsFinite, FS_AddElement
  <2>4. Cardinality(Adds(Append(s, f), e)) = Cardinality(Adds(s, e)) + 1
    BY <2>2, <2>3
  <2> QED BY <1>7, <2>4 DEF isAdd
<1>8. CASE ~isAdd
  <2>1. \A x : x \in Adds(Append(s, f), e) <=> x \in Adds(s, e)
    BY <1>4, <1>5, <1>6, <1>8
  <2>2. Adds(Append(s, f), e) = Adds(s, e)
    BY <2>1
  <2> QED BY <1>8, <2>2 DEF isAdd
<1> QED BY <1>7, <1>8

LEMMA AddsPop ==
  ASSUME NEW s \in Seq(Frames), s # <<>>, NEW e
  PROVE  Cardinality(Adds(s, e)) =
           IF s[Len(s)].kind = "add" /\ s[Len(s)].event = e
             THEN Cardinality(Adds(Pop(s), e)) + 1
             ELSE Cardinality(Adds(Pop(s), e))
<1> DEFINE isAdd == s[Len(s)].kind = "add" /\ s[Len(s)].event = e
<1>1. /\ Len(s) \in Nat \ {0} /\ Pop(s) \in Seq(Frames)
      /\ DOMAIN Pop(s) = 1 .. Len(s) - 1 /\ DOMAIN s = 1 .. Len(s)
      /\ \A i \in 1 .. Len(s) - 1 : Pop(s)[i] = s[i]
  BY PopProps, LenProperties
<1>2. Len(s) \notin Adds(Pop(s), e)
  BY <1>1 DEF Adds
<1>3. 1 .. Len(s) = (1 .. Len(s) - 1) \cup {Len(s)}
  BY <1>1
<1>4. \A i \in 1 .. Len(s) - 1 : i \in Adds(Pop(s), e) <=> i \in Adds(s, e)
  BY <1>1, <1>3 DEF Adds
<1>5. Len(s) \in Adds(s, e) <=> isAdd
  BY <1>1, <1>3 DEF Adds
<1>6. /\ \A i \in Adds(s, e) : i \in (1 .. Len(s) - 1) \cup {Len(s)}
      /\ \A i \in Adds(Pop(s), e) : i \in 1 .. Len(s) - 1
  BY <1>1, <1>3 DEF Adds
<1> HIDE DEF isAdd
<1>7. CASE isAdd
  <2>1. \A x : x \in Adds(s, e) <=> x \in Adds(Pop(s), e) \cup {Len(s)}
    BY <1>4, <1>5, <1>6, <1>7
  <2>2. Adds(s, e) = Adds(Pop(s), e) \cup {Len(s)}
    BY <2>1
  <2>3. IsFiniteSet(Adds(Pop(s), e))
    BY <1>1, AddsFinite
  <2>4. Cardinality(Adds(Pop(s), e) \cup {Len(s)}) = Cardinality(Adds(Pop(s), e)) + 1
    BY <1>2, <2>3, FS_AddElement
  <2>5. Cardinality(Adds(s, e)) = Cardinality(Adds(Pop(s), e)) + 1
    BY <2>2, <2>4
  <2> QED BY <1>7, <2>5 DEF isAdd
<1>8. CASE ~isAdd
  <2>1. \A x : x \in Adds(s, e) <=> x \in Adds(Pop(s), e)
    BY <1>4, <1>5, <1>6, <1>8
  <2>2. Adds(s, e) = Adds(Pop(s), e)
    BY <2>1
  <2> QED BY <1>8, <2>2 DEF isAdd
<1> QED BY <1>7, <1>8

LEMMA AnnouncingPush ==
  ASSUME NEW s \in Seq(Frames), Announcing(s), NEW f \in Frames,
         IsLoop(f) \/ s = <<>> \/ IsLoop(s[Len(s)])
  PROVE  Announcing(Append(s, f))
<1>0. DOMAIN s = 1 .. Len(s) /\ Len(s) \in Nat
  BY LenProperties
<1>1. /\ Append(s, f) \in Seq(Frames) /\ Len(Append(s, f)) = Len(s) + 1
      /\ DOMAIN Append(s, f) = 1 .. Len(s) + 1 /\ DOMAIN s = 1 .. Len(s) /\ Len(s) \in Nat
      /\ Append(s, f)[Len(s) + 1] = f
      /\ \A i \in 1 .. Len(s) : Append(s, f)[i] = s[i]
  BY PushProps, LenProperties
<1>2. s = <<>> => Len(s) = 0
  OBVIOUS
<1>3. ASSUME NEW i, i \in DOMAIN s, ~IsLoop(s[i])
      PROVE  IsLoop(Append(s, f)[i + 1])
  <2>1. CASE i = Len(s)
    <3>1. s # <<>>
      BY <1>0, <1>2, <1>3
    <3>2. IsLoop(f)
      BY <1>3, <2>1, <3>1
    <3>3. Append(s, f)[i + 1] = f
      BY <1>1, <2>1
    <3> QED BY <3>2, <3>3
  <2>2. CASE i # Len(s)
    <3>1. i \in DOMAIN s /\ i < Len(s)
      BY <1>0, <1>3, <2>2
    <3>2. i + 1 \in 1 .. Len(s)
      BY <1>0, <3>1
    <3>3. IsLoop(s[i + 1])
      BY <1>3, <3>1 DEF Announcing
    <3>4. Append(s, f)[i + 1] = s[i + 1]
      BY <1>1, <3>2
    <3> QED BY <3>3, <3>4
  <2> QED BY <2>1, <2>2
<1>4. \A i \in DOMAIN Append(s, f) : i < Len(Append(s, f)) => i \in DOMAIN s /\ Append(s, f)[i] = s[i]
  BY <1>1
<1> QED BY <1>3, <1>4 DEF Announcing

LEMMA AnnouncingPop ==
  ASSUME NEW s \in Seq(Frames), s # <<>>, Announcing(s)
  PROVE  Announcing(Pop(s))
<1>1. /\ Len(s) \in Nat \ {0} /\ Pop(s) \in Seq(Frames) /\ Len(Pop(s)) = Len(s) - 1
      /\ DOMAIN Pop(s) = 1 .. Len(s) - 1 /\ DOMAIN s = 1 .. Len(s)
      /\ \A i \in 1 .. Len(s) - 1 : Pop(s)[i] = s[i]
  BY PopProps, LenProperties
<1>2. ASSUME NEW i \in DOMAIN Pop(s), ~IsLoop(Pop(s)[i]), i < Len(Pop(s))
      PROVE  IsLoop(Pop(s)[i + 1])
  <2>1. i \in DOMAIN s /\ i < Len(s) /\ i + 1 \in 1 .. Len(s) - 1 /\ Pop(s)[i] = s[i]
    BY <1>1, <1>2
  <2>2. IsLoop(s[i + 1])
    BY <1>2, <2>1 DEF Announcing
  <2> QED BY <1>1, <2>1, <2>2
<1> QED BY <1>2 DEF Announcing

\* Below a delivery, each add that waits is paired with the delivery above it.
LEMMA AddsAreDeliveries ==
  ASSUME NEW s \in Seq(Frames), Announcing(s), s # <<>>, IsLoop(s[Len(s)]), NEW e
  PROVE  Cardinality(Adds(s, e)) <= Cardinality(Loops(s))
<1> DEFINE f == [i \in Adds(s, e) |-> i + 1]
<1>1. DOMAIN s = 1 .. Len(s) /\ Len(s) \in Nat
  BY LenProperties
<1>2. ASSUME NEW i \in Adds(s, e) PROVE i \in 1 .. Len(s) /\ i + 1 \in Loops(s)
  <2>1. i \in DOMAIN s /\ ~IsLoop(s[i])
    BY <1>2 DEF Adds, IsLoop
  <2>2. i # Len(s)
    BY <2>1
  <2>3. i < Len(s) /\ i + 1 \in DOMAIN s
    BY <1>1, <2>1, <2>2
  <2>4. IsLoop(s[i + 1])
    BY <2>1, <2>3 DEF Announcing
  <2> QED BY <1>1, <2>1, <2>3, <2>4 DEF Loops
<1>3. f \in [Adds(s, e) -> Loops(s)]
  BY <1>2
<1>4. \A i, j \in Adds(s, e) : f[i] = f[j] => i = j
  BY <1>2
<1> HIDE DEF f
<1>5. f \in Injection(Adds(s, e), Loops(s))
  BY <1>3, <1>4 DEF Injection, IsInjective
<1>6. IsFiniteSet(Loops(s))
  BY LoopsFinite
<1> QED BY <1>5, <1>6, FS_Injection

\* A step that makes no list and no number of waiting adds larger.
LEMMA RoomKept ==
  ASSUME NEW s \in Seq(Frames), NEW t \in Seq(Frames),
         NEW ls \in [Events -> Seq(Listeners)], NEW ms \in [Events -> Seq(Listeners)],
         MaxChoices \subseteq Nat, Room(s, ls),
         \A e \in Events : /\ Len(ms[e]) <= Len(ls[e])
                           /\ Cardinality(Adds(t, e)) <= Cardinality(Adds(s, e))
  PROVE  Room(t, ms)
<1> SUFFICES ASSUME NEW e \in Events PROVE RoomFor(t, ms, e)
  BY DEF Room
<1>1. /\ Len(ls[e]) \in Nat /\ Len(ms[e]) \in Nat
      /\ Cardinality(Adds(s, e)) \in Nat /\ Cardinality(Adds(t, e)) \in Nat
  BY AddsFinite, LenProperties
<1>2. PICK m \in MaxChoices : Len(ls[e]) + Cardinality(Adds(s, e)) < m + DepthLimit
  BY DEF Room, RoomFor
<1>3. Len(ms[e]) + Cardinality(Adds(t, e)) < m + DepthLimit
  BY <1>1, <1>2, LimitsAssumption
<1> QED BY <1>3 DEF RoomFor

\* The steps, one by one.
LEMMA RoomNext ==
  ASSUME \A e \in Events : SelfDestruct[e] = NoEvent, 0 \notin MaxChoices, DepthLimit > 0
  PROVE  CountInv /\ CountInv' /\ RoomInv /\ [Next]_vars => RoomInv'
<1> SUFFICES ASSUME CountInv, CountInv', RoomInv, [Next]_vars PROVE RoomInv'
  OBVIOUS
<1>a. /\ listeners \in [Events -> Seq(Listeners)] /\ stack \in Seq(Frames)
      /\ listeners' \in [Events -> Seq(Listeners)] /\ stack' \in Seq(Frames)
      /\ maxListeners \in MaxChoices /\ maxListeners \in Nat /\ MaxChoices \subseteq Nat
      /\ keys \in SUBSET Events /\ calls \in Nat /\ DepthLimit \in Nat
      /\ NewListener \in Events
  BY LimitsAssumption, NamesAssumption DEF CountInv, TypeInv, TypeOK
<1>b. \A e \in Events : Len(listeners[e]) \in Nat /\ Len(listeners'[e]) \in Nat
  BY <1>a, LenProperties
<1>c. \A e : Cardinality(Adds(stack, e)) \in Nat /\ Cardinality(Adds(stack', e)) \in Nat
  BY <1>a, AddsFinite
<1>d. /\ Announcing(stack) /\ Cardinality(Adds(stack, NewListener)) = 0
      /\ calls <= DepthMax => Room(stack, listeners)
  BY DEF RoomInv
<1>e. calls' \in Nat /\ calls <= calls' /\ (calls' <= DepthMax => calls <= DepthMax)
  <2>1. calls' = calls \/ calls' = calls + 1
    BY DEF Next, UserCall, Emit, AddListener, RemoveListener, RemoveAllListeners,
           RemoveAllListenersOf, SetMaxListeners, Calling, CompleteAdd, CompleteRemove,
           CallNext, Return, Throw, Finish, vars
  <2> QED BY <1>a, <2>1, LimitsAssumption
\* No list and no number of adds grows.
<1>f. ASSUME Announcing(stack'),
             \A e \in Events : /\ Len(listeners'[e]) <= Len(listeners[e])
                               /\ Cardinality(Adds(stack', e)) <= Cardinality(Adds(stack, e))
      PROVE  RoomInv'
  <2>1. calls' <= DepthMax => Room(stack', listeners')
    BY <1>a, <1>d, <1>e, <1>f, RoomKept
  <2>2. Cardinality(Adds(stack', NewListener)) = 0
    BY <1>a, <1>c, <1>d, <1>f
  <2> QED BY <1>f, <2>1, <2>2 DEF RoomInv
<1>g. ASSUME SameCalls(stack, stack'), \A e \in Events : Len(listeners'[e]) <= Len(listeners[e])
      PROVE  RoomInv'
  BY <1>a, <1>c, <1>d, <1>f, <1>g, AddsSame
<1>h. ASSUME stack # <<>>
      PROVE  /\ Pop(stack) \in Seq(Frames) /\ Announcing(Pop(stack)) /\ Top \in Frames
             /\ \A e : Cardinality(Adds(Pop(stack), e)) \in Nat
             /\ \A e : Cardinality(Adds(Pop(stack), e)) <= Cardinality(Adds(stack, e))
             /\ \A e : Top.kind = "add" /\ Top.event = e =>
                         Cardinality(Adds(stack, e)) = Cardinality(Adds(Pop(stack), e)) + 1
             /\ \A e : ~(Top.kind = "add" /\ Top.event = e) =>
                         Cardinality(Adds(stack, e)) = Cardinality(Adds(Pop(stack), e))
  <2>1. Pop(stack) \in Seq(Frames) /\ Announcing(Pop(stack)) /\ Top \in Frames
    BY <1>a, <1>d, <1>h, AnnouncingPop, PopProps DEF Top
  <2>2. \A e : Cardinality(Adds(Pop(stack), e)) \in Nat
    BY <2>1, AddsFinite
  <2>3. \A e : Cardinality(Adds(stack, e)) =
                 IF Top.kind = "add" /\ Top.event = e THEN Cardinality(Adds(Pop(stack), e)) + 1
                                                      ELSE Cardinality(Adds(Pop(stack), e))
    BY <1>a, <1>h, AddsPop DEF Top
  <2> QED BY <2>1, <2>2, <2>3
<1>i. ASSUME stack # <<>>, SameCalls(Pop(stack), stack'),
             \A e \in Events : Len(listeners'[e]) <= Len(listeners[e])
      PROVE  RoomInv'
  <2>1. Announcing(stack') /\ \A e : Adds(stack', e) = Adds(Pop(stack), e)
    BY <1>a, <1>h, <1>i, AddsSame
  <2> QED BY <1>f, <1>h, <1>i, <2>1
<1>j. \A e : SameCalls(stack, Moved(stack, e)) /\ SameCalls(stack, stack)
  BY <1>a, MovedProps DEF SameCalls
<1>k. ASSUME stack # <<>>
      PROVE  \A e : SameCalls(Pop(stack), Moved(Pop(stack), e)) /\ SameCalls(Pop(stack), Pop(stack))
  BY <1>h, <1>k, MovedProps DEF SameCalls
<1>l. ASSUME listeners' = listeners PROVE \A e \in Events : Len(listeners'[e]) <= Len(listeners[e])
  BY <1>b, <1>l
<1>m. ASSUME NEW e \in Events, NEW v, Len(v) \in Nat, Len(v) <= Len(listeners[e]),
             listeners' = [listeners EXCEPT ![e] = v]
      PROVE  \A x \in Events : Len(listeners'[x]) <= Len(listeners[x])
  BY <1>a, <1>b, <1>m
\* An announcement pushes the waiting call and its delivery.
<1>n. ASSUME NEW news \in Events, NEW kind \in {"add", "remove"}, NEW e \in Events,
             NEW l \in Listeners, UserCode, Announce(news, kind, e, l),
             kind = "add" => e # NewListener /\ Len(listeners[e]) < maxListeners
      PROVE  RoomInv'
  <2> DEFINE f == Frame(kind, e, l, 0)
             g == Frame("emit", news, NoListener, Len(listeners[news]))
             s == Append(stack, f)
  <2>1. listeners' = listeners /\ (stack' = stack \/ stack' = Append(s, g))
    BY <1>n DEF Announce
  <2>2. /\ f \in Frames /\ g \in Frames /\ f.kind = kind /\ f.event = e /\ g.kind = "emit"
        /\ IsLoop(g)
    BY <1>a, WaitingFrame, NewFrame DEF Frame, IsLoop
  <2> HIDE DEF f, g
  <2>3. s \in Seq(Frames) /\ Len(Append(s, g)) = Len(s) + 1 /\ Append(s, g)[Len(s) + 1] = g
        /\ Append(s, g) \in Seq(Frames) /\ Append(s, g) # <<>>
    <3>1. s \in Seq(Frames)
      BY <1>a, <2>2, PushProps
    <3>2. Len(s) \in Nat
      BY <3>1, LenProperties
    <3>3. /\ Len(Append(s, g)) = Len(s) + 1 /\ Append(s, g)[Len(s) + 1] = g
          /\ Append(s, g) \in Seq(Frames)
      BY <2>2, <3>1, PushProps
    <3>4. Append(s, g) # <<>>
      BY <3>2, <3>3, EmptySeq
    <3> QED BY <3>1, <3>3, <3>4
  <2>4. Announcing(Append(s, g))
    <3>1. stack = <<>> \/ IsLoop(stack[Len(stack)])
      BY <1>n DEF UserCode, Top
    <3>2. Announcing(s)
      BY <1>a, <1>d, <2>2, <3>1, AnnouncingPush
    <3> QED BY <2>2, <2>3, <3>2, AnnouncingPush
  <2>5. \A x : Cardinality(Adds(Append(s, g), x)) = Cardinality(Adds(s, x))
    BY <2>2, <2>3, AddsPush
  <2>6. \A x : ~(kind = "add" /\ x = e) => Cardinality(Adds(s, x)) = Cardinality(Adds(stack, x))
    BY <1>a, <2>2, AddsPush
  <2> HIDE DEF s
  <2>7. CASE stack' = stack
    BY <1>g, <1>j, <1>l, <2>1, <2>7
  <2>8. CASE stack' = Append(s, g) /\ kind = "remove"
    <3>1. \A x \in Events : Cardinality(Adds(stack', x)) <= Cardinality(Adds(stack, x))
      BY <1>c, <2>5, <2>6, <2>8
    <3> QED BY <1>f, <1>l, <2>1, <2>4, <2>8, <3>1
  <2>9. CASE stack' = Append(s, g) /\ kind = "add"
    <3>1. Cardinality(Adds(stack', NewListener)) = 0
      BY <1>d, <1>n, <2>5, <2>6, <2>9
    <3>2. ASSUME calls' <= DepthMax, NEW x \in Events PROVE RoomFor(stack', listeners', x)
      <4>1. CASE x # e
        <5>1. RoomFor(stack, listeners, x)
          BY <1>d, <1>e, <3>2 DEF Room
        <5>2. Cardinality(Adds(stack', x)) = Cardinality(Adds(stack, x))
          BY <2>5, <2>6, <2>9, <4>1
        <5> QED BY <2>1, <5>1, <5>2 DEF RoomFor
      <4>2. CASE x = e
        <5>1. Cardinality(Adds(stack', e)) <= Cardinality(Loops(stack'))
          <6>1. IsLoop(stack'[Len(stack')])
            BY <2>2, <2>3, <2>9
          <6> QED BY <2>3, <2>4, <2>9, <6>1, AddsAreDeliveries
        <5>2. Cardinality(Loops(stack')) <= DepthLimit
          BY <3>2 DEF CountInv, Counted, Nesting, Loops
        <5>3. Cardinality(Loops(stack')) \in Nat
          BY <1>a, LoopsFinite
        <5>4. Len(listeners'[e]) + Cardinality(Adds(stack', e)) < maxListeners + DepthLimit
          BY <1>a, <1>b, <1>c, <1>n, <2>1, <2>9, <5>1, <5>2, <5>3
        <5> QED BY <1>a, <4>2, <5>4 DEF RoomFor
      <4> QED BY <4>1, <4>2
    <3> QED BY <2>4, <2>9, <3>1, <3>2 DEF RoomInv, Room
  <2> QED BY <2>1, <2>7, <2>8, <2>9
<1>1. ASSUME NEW e \in Events, Emit(e) PROVE RoomInv'
  <2> DEFINE f == Frame("emit", e, NoListener, Len(listeners[e]))
  <2>1. listeners' = listeners /\ (stack' = stack \/ stack' = Append(stack, f))
    BY <1>1 DEF Emit
  <2>2. f \in Frames /\ f.kind = "emit" /\ IsLoop(f)
    BY <1>a, NewFrame DEF Frame, IsLoop
  <2> HIDE DEF f
  <2>3. Announcing(Append(stack, f))
    BY <1>a, <1>d, <2>2, AnnouncingPush
  <2>4. \A x : Cardinality(Adds(Append(stack, f), x)) = Cardinality(Adds(stack, x))
    BY <1>a, <2>2, AddsPush
  <2>5. CASE stack' = stack
    BY <1>g, <1>j, <1>l, <2>1, <2>5
  <2>6. CASE stack' = Append(stack, f)
    <3>1. \A x \in Events : Cardinality(Adds(stack', x)) <= Cardinality(Adds(stack, x))
      BY <1>c, <2>4, <2>6
    <3> QED BY <1>f, <1>l, <2>1, <2>3, <2>6, <3>1
  <2> QED BY <2>1, <2>5, <2>6
<1>2. ASSUME NEW e \in Events, NEW l \in Listeners, AddListener(e, l) PROVE RoomInv'
  <2>1. CASE UNCHANGED <<listeners, stack>>
    BY <1>g, <1>j, <1>l, <2>1
  <2>2. ~AtMaxListeners(e) => Len(listeners[e]) < maxListeners
    BY <1>a, <1>b DEF AtMaxListeners
  <2>3. CASE ~AtMaxListeners(e) /\ e = NewListener /\ EmplaceBack(e, l, stack)
    <3>1. listeners' = [listeners EXCEPT ![e] = Append(@, l)] /\ SameCalls(stack, stack')
      BY <1>j, <2>3 DEF EmplaceBack
    <3>2. Announcing(stack') /\ \A x : Adds(stack', x) = Adds(stack, x)
      BY <1>a, <1>d, <3>1, AddsSame
    <3>3. Len(listeners'[e]) = Len(listeners[e]) + 1 /\ \A x \in Events : x # e => listeners'[x] = listeners[x]
      BY <1>a, <3>1, AppendProperties
    <3>4. ASSUME calls' <= DepthMax, NEW x \in Events PROVE RoomFor(stack', listeners', x)
      <4>1. CASE x # e
        <5>1. RoomFor(stack, listeners, x)
          BY <1>d, <1>e, <3>4 DEF Room
        <5> QED BY <3>2, <3>3, <4>1, <5>1 DEF RoomFor
      <4>2. CASE x = e
        <5>1. Cardinality(Adds(stack', e)) = 0
          BY <1>d, <2>3, <3>2
        <5>2. Len(listeners'[e]) + 0 < maxListeners + DepthLimit
          BY <1>a, <1>b, <2>2, <2>3, <3>3
        <5> QED BY <1>a, <4>2, <5>1, <5>2 DEF RoomFor
      <4> QED BY <4>1, <4>2
    <3> QED BY <1>d, <3>2, <3>4 DEF RoomInv, Room
  <2>4. CASE ~AtMaxListeners(e) /\ e # NewListener /\ Announce(ListenerAdded, "add", e, l)
    <3>1. UserCode
      BY <1>2 DEF AddListener, Calling
    <3> QED BY <1>n, <2>2, <2>4, <3>1, NamesAssumption
  <2> QED BY <1>2, <2>1, <2>3, <2>4 DEF AddListener
<1>3. CASE CompleteAdd
  <2> DEFINE e == Top.event
             s == Pop(stack)
  <2>1. /\ stack # <<>> /\ Top.kind = "add" /\ UNCHANGED calls
        /\ listeners' = [listeners EXCEPT ![e] = Append(@, Top.who)]
        /\ stack' \in {s, Moved(s, e)}
    BY <1>3 DEF CompleteAdd, EmplaceBack
  <2>2. e \in Events /\ Top.who \in Listeners
    BY <1>a, <2>1, StackPop DEF Top, FrameOK, IsLoop, TypeInv, CountInv, Frames
  <2>3. SameCalls(s, stack') /\ s \in Seq(Frames) /\ Announcing(s)
    BY <1>h, <1>k, <2>1
  <2>4. Announcing(stack') /\ \A x : Adds(stack', x) = Adds(s, x)
    BY <1>a, <2>3, AddsSame
  <2>5. \A x : Cardinality(Adds(s, x)) \in Nat /\ Cardinality(Adds(s, x)) <= Cardinality(Adds(stack, x))
    BY <1>h, <2>1
  <2>6. Cardinality(Adds(stack, e)) = Cardinality(Adds(s, e)) + 1
    BY <1>h, <2>1
  <2>7. \A x : x # e => Cardinality(Adds(stack, x)) = Cardinality(Adds(s, x))
    BY <1>h, <2>1
  <2> HIDE DEF e, s
  <2>8. Len(listeners'[e]) = Len(listeners[e]) + 1 /\ \A x \in Events : x # e => listeners'[x] = listeners[x]
    BY <1>a, <2>1, <2>2, AppendProperties
  <2>9. ASSUME calls' <= DepthMax, NEW x \in Events PROVE RoomFor(stack', listeners', x)
    <3>1. PICK m \in MaxChoices : Len(listeners[x]) + Cardinality(Adds(stack, x)) < m + DepthLimit
      BY <1>d, <1>e, <2>9 DEF Room, RoomFor
    <3>2. Len(listeners'[x]) + Cardinality(Adds(stack', x)) = Len(listeners[x]) + Cardinality(Adds(stack, x))
      <4>1. CASE x = e
        <5>1. /\ Len(listeners'[x]) = Len(listeners[x]) + 1
              /\ Cardinality(Adds(stack, x)) = Cardinality(Adds(stack', x)) + 1
          BY <2>4, <2>6, <2>8, <4>1
        <5> DEFINE a == Cardinality(Adds(stack', x))
                   n == Len(listeners[x])
        <5>2. a \in Nat /\ n \in Nat
          BY <1>b, <1>c
        <5>3. Len(listeners'[x]) = n + 1 /\ Cardinality(Adds(stack, x)) = a + 1
          BY <5>1
        <5> HIDE DEF a, n
        <5>4. (n + 1) + a = n + (a + 1)
          BY <5>2
        <5> QED BY <5>3, <5>4 DEF a, n
      <4>2. CASE x # e
        BY <2>4, <2>7, <2>8, <4>2
      <4> QED BY <4>1, <4>2
    <3> QED BY <3>1, <3>2 DEF RoomFor
  <2>10. Cardinality(Adds(stack', NewListener)) = 0
    <3>1. Cardinality(Adds(s, NewListener)) \in Nat /\ Cardinality(Adds(s, NewListener)) <= 0
      BY <1>d, <2>5
    <3> QED BY <2>4, <3>1
  <2> QED BY <2>4, <2>9, <2>10 DEF RoomInv, Room
<1>4. ASSUME NEW e \in Events, NEW l \in Listeners, RemoveListener(e, l) PROVE RoomInv'
  <2>1. UserCode
    BY <1>4 DEF RemoveListener, Calling
  <2>2. CASE UNCHANGED <<listeners, stack>>
    BY <1>g, <1>j, <1>l, <2>2
  <2>3. CASE Announce(ListenerRemoved, "remove", e, l)
    BY <1>n, <2>1, <2>3, NamesAssumption
  <2> QED BY <1>4, <2>2, <2>3 DEF RemoveListener
<1>5. CASE CompleteRemove
  <2> DEFINE v == Without(listeners[Top.event], Top.who)
  <2>1. stack # <<>>
    BY <1>5 DEF CompleteRemove
  <2>2. CASE UNCHANGED <<listeners, stack>>
    BY <1>g, <1>j, <1>l, <2>2
  <2>3. CASE listeners' = [listeners EXCEPT ![Top.event] = v] /\ stack' = Moved(Pop(stack), Top.event)
    <3>1. Top.event \in Events
      BY <1>h, <2>1 DEF Frames
    <3>2. Len(v) \in Nat /\ Len(v) <= Len(listeners[Top.event])
      <4>1. listeners[Top.event] \in Seq(Listeners)
        BY <1>a, <3>1
      <4>2. Len(v) \in 0 .. Len(listeners[Top.event])
        BY <4>1, KeepFrom DEF Without
      <4> QED BY <4>1, <4>2, LenProperties
    <3> HIDE DEF v
    <3>3. \A x \in Events : Len(listeners'[x]) <= Len(listeners[x])
      BY <1>m, <2>3, <3>1, <3>2
    <3> QED BY <1>i, <1>k, <2>1, <2>3, <3>3
  <2> QED BY <1>5, <2>2, <2>3 DEF CompleteRemove
<1>6. CASE RemoveAllListeners
  <2>1. listeners' = [e \in Events |-> <<>>] /\ stack' = Gone(stack)
    BY <1>6 DEF RemoveAllListeners
  <2>2. SameCalls(stack, stack')
    BY <1>a, <2>1, GoneProps DEF SameCalls
  <2>3. \A e \in Events : Len(listeners'[e]) <= Len(listeners[e])
    BY <1>b, <2>1
  <2> QED BY <1>g, <2>2, <2>3
<1>7. ASSUME NEW e \in Events, RemoveAllListenersOf(e) PROVE RoomInv'
  <2>1. listeners' = [listeners EXCEPT ![e] = <<>>] /\ stack' = Moved(stack, e)
    BY <1>7 DEF RemoveAllListenersOf
  <2>2. \A x \in Events : Len(listeners'[x]) <= Len(listeners[x])
    BY <1>b, <1>m, <2>1
  <2> QED BY <1>g, <1>j, <2>1, <2>2
<1>8. ASSUME NEW n \in MaxChoices, SetMaxListeners(n) PROVE RoomInv'
  BY <1>g, <1>j, <1>l, <1>8 DEF SetMaxListeners
<1>9. CASE CallNext \/ Return
  <2>1. listeners' = listeners /\ stack # <<>>
    BY <1>9 DEF CallNext, Return, InLoop
  <2>2. \A i \in DOMAIN stack : stack[i] \in Frames
    BY <1>a, FrameTypes
  <2>3. \/ stack' = stack
        \/ stack' = [stack EXCEPT ![Len(stack)].who = NoListener]
        \/ stack' = [stack EXCEPT ![Len(stack)].who = listeners[Top.event][Top.at],
                                  ![Len(stack)].at = @ + 1]
    BY <1>9 DEF CallNext, Return
  <2>4. SameCalls(stack, stack')
    BY <2>2, <2>3 DEF SameCalls, Frames
  <2> QED BY <1>g, <1>l, <2>1, <2>4
<1>10. CASE Throw
  <2>1. /\ stack # <<>> /\ listeners' = listeners
        /\ stack' = Pop(stack) \/ (Pop(stack) # <<>> /\ stack' = Pop(Pop(stack)))
    BY <1>10 DEF Throw
  <2>2. CASE stack' = Pop(stack)
    BY <1>i, <1>k, <1>l, <2>1, <2>2
  <2>3. CASE Pop(stack) # <<>> /\ stack' = Pop(Pop(stack))
    <3> DEFINE s == Pop(stack)
    <3>1. /\ s \in Seq(Frames) /\ Announcing(s)
          /\ \A e : Cardinality(Adds(s, e)) \in Nat
          /\ \A e : Cardinality(Adds(s, e)) <= Cardinality(Adds(stack, e))
      BY <1>h, <2>1
    <3> HIDE DEF s
    <3>2. stack' = Pop(s) /\ s # <<>>
      BY <2>3 DEF s
    <3>3. Announcing(stack')
      BY <3>1, <3>2, AnnouncingPop
    <3>4. ASSUME NEW e \in Events PROVE Cardinality(Adds(stack', e)) <= Cardinality(Adds(stack, e))
      <4>1. Cardinality(Adds(s, e)) = Cardinality(Adds(stack', e)) + 1
            \/ Cardinality(Adds(s, e)) = Cardinality(Adds(stack', e))
        BY <3>1, <3>2, AddsPop
      <4> QED BY <1>c, <3>1, <4>1
    <3> QED BY <1>f, <1>l, <2>1, <3>3, <3>4
  <2> QED BY <2>1, <2>2, <2>3
<1>11. CASE Finish
  <2> DEFINE e == Top.event
             v == Purged(listeners[e])
  <2>1. stack # <<>>
    BY <1>11 DEF Finish, InLoop
  <2>2. CASE UNCHANGED <<listeners, stack>>
    BY <1>g, <1>j, <1>l, <2>2
  <2>3. CASE Top.refs # "gone"
    <3>1. e \in Events
      BY <1>h, <2>1 DEF Frames
    <3>2. SelfDestruct[e] \notin keys
      BY <1>a, <3>1, NamesAssumption
    <3>3. /\ listeners' = [listeners EXCEPT ![e] = v] \/ listeners' = listeners
          /\ stack' = Pop(stack) \/ stack' = Moved(Pop(stack), e)
      BY <1>11, <2>3, <3>2 DEF Finish
    <3>4. Len(v) \in Nat /\ Len(v) <= Len(listeners[e])
      <4>1. listeners[e] \in Seq(Listeners)
        BY <1>a, <3>1
      <4>2. Len(v) \in 0 .. Len(listeners[e])
        BY <4>1, KeepFrom DEF Purged
      <4> QED BY <4>1, <4>2, LenProperties
    <3> HIDE DEF v, e
    <3>5. \A x \in Events : Len(listeners'[x]) <= Len(listeners[x])
      BY <1>l, <1>m, <3>1, <3>3, <3>4
    <3> QED BY <1>i, <1>k, <2>1, <3>3, <3>5
  <2> QED BY <1>11, <2>2, <2>3 DEF Finish
<1>12. CASE UNCHANGED vars
  BY <1>g, <1>j, <1>l, <1>12 DEF vars
<1> QED
  BY <1>1, <1>2, <1>3, <1>4, <1>5, <1>6, <1>7, <1>8, <1>9, <1>10, <1>11, <1>12
  DEF Next, UserCall

\* Whatever listeners add, to whatever list, and wherever they throw, a list
\* outgrows the largest limit it was given by fewer listeners than
\* c_max_emit_depth: for as long as the signed byte cannot have wrapped, and
\* while no event has a _selfdestruct companion.
THEOREM OvershootIsBounded ==
  ASSUME \A e \in Events : SelfDestruct[e] = NoEvent, DepthLimit > 0
  PROVE  Spec => [](calls <= DepthMax => OvershootBounded)
<1>1. CASE 0 \in MaxChoices
  <2>1. calls <= DepthMax => OvershootBounded
    BY <1>1 DEF OvershootBounded
  <2> QED BY <2>1, PTL
<1>2. CASE 0 \notin MaxChoices
  <2>1. Init => CountInv /\ RoomInv
    <3> SUFFICES ASSUME Init PROVE CountInv /\ RoomInv
      OBVIOUS
    <3>1. TypeInv /\ stack = <<>> /\ depth = 0 /\ calls = 0 /\ maxListeners \in MaxChoices
          /\ \A e \in Events : listeners[e] = <<>>
      BY TypeInvInit DEF Init
    <3>2. Loops(stack) = {} /\ \A e : Adds(stack, e) = {}
      BY <3>1 DEF Loops, Adds
    <3>3. Cardinality(Loops(stack)) = 0 /\ \A e : Cardinality(Adds(stack, e)) = 0
      BY <3>2, FS_EmptySet
    <3>4. Announcing(stack)
      BY <3>1 DEF Announcing
    <3>5. maxListeners + DepthLimit > 0
      BY <3>1, LimitsAssumption
    <3>6. \A e \in Events : Len(listeners[e]) = 0
      BY <3>1
    <3>7. Room(stack, listeners)
      BY <3>1, <3>3, <3>5, <3>6 DEF Room, RoomFor
    <3>8. CountInv
      BY <3>1, <3>3, LimitsAssumption DEF CountInv, Counted, Nesting, Loops
    <3> QED BY <3>3, <3>4, <3>7, <3>8 DEF RoomInv
  <2>2. CountInv /\ [Next]_vars => CountInv'
    BY TypeInvNext, CountedNext DEF CountInv
  <2>3. CountInv /\ CountInv' /\ RoomInv /\ [Next]_vars => RoomInv'
    BY <1>2, RoomNext
  <2>4. CountInv /\ RoomInv => (calls <= DepthMax => OvershootBounded)
    <3> SUFFICES ASSUME CountInv, RoomInv, calls <= DepthMax, NEW e \in Events
                 PROVE  \E m \in MaxChoices : Len(listeners[e]) < m + DepthLimit
      BY DEF OvershootBounded
    <3>1. /\ listeners \in [Events -> Seq(Listeners)] /\ stack \in Seq(Frames)
          /\ MaxChoices \subseteq Nat /\ DepthLimit \in Nat
      BY LimitsAssumption DEF CountInv, TypeInv, TypeOK
    <3>2. Len(listeners[e]) \in Nat /\ Cardinality(Adds(stack, e)) \in Nat
      BY <3>1, AddsFinite, LenProperties
    <3>3. PICK m \in MaxChoices : Len(listeners[e]) + Cardinality(Adds(stack, e)) < m + DepthLimit
      BY DEF RoomInv, Room, RoomFor
    <3> QED BY <3>1, <3>2, <3>3
  <2> QED BY <2>1, <2>2, <2>3, <2>4, PTL DEF Spec
<1> QED BY <1>1, <1>2

-----------------------------------------------------------------------------
(* Run-once listeners.                                                      *)

Listed(ls, l) == \E e \in Events : \E i \in DOMAIN ls[e] : ls[e][i] = l

\* Only what was added is listed, and at one place.
PlacedOK(ls, ad) ==
  /\ \A e \in Events : \A i \in DOMAIN ls[e] : ls[e][i] \in ad
  /\ \A e, f \in Events : \A i \in DOMAIN ls[e], j \in DOMAIN ls[f] :
       ls[e][i] = ls[f][j] => e = f /\ i = j

\* What an add_listener is about to append has not been anywhere.
FreshOK(s, ls, ad, rs) ==
  /\ \A l \in Listeners \ ad : rs[l] = 0
  /\ \A i \in DOMAIN s : s[i].kind = "add" =>
       /\ s[i].who \in ad /\ rs[s[i].who] = 0 /\ ~Listed(ls, s[i].who)
       /\ \A j \in DOMAIN s : j # i /\ s[j].kind = "add" => s[j].who # s[i].who

\* A run-once listener that has run is listed only while the loop that ran it
\* is still in its list, past it.
PassedOK(s, ls, rs) ==
  \A e \in Events : \A i \in DOMAIN ls[e] :
    ls[e][i] \in Once /\ rs[ls[e][i]] # 0
      => \E k \in DOMAIN s : IsLoop(s[k]) /\ s[k].event = e /\ s[k].at > i

OnceInv ==
  /\ PlacedOK(listeners, added)
  /\ FreshOK(stack, listeners, added, runs)
  /\ PassedOK(stack, listeners, runs)
  /\ OnceRunsOnce

\* A shorter list with entries of the old one, each once.
Within(v, list) ==
  \E g \in [DOMAIN v -> DOMAIN list] :
    /\ \A k \in DOMAIN v : v[k] = list[g[k]]
    /\ \A k, m \in DOMAIN v : g[k] = g[m] => k = m

LEMMA KeepWithin ==
  ASSUME NEW list \in Seq(Listeners), NEW K \in SUBSET DOMAIN list
  PROVE  /\ Within(Keep(list, K), list)
         /\ \A k \in DOMAIN Keep(list, K) : \E i \in K : Keep(list, K)[k] = list[i]
<1> DEFINE v == Keep(list, K)
<1>1. PICK g \in [DOMAIN v -> K] :
        /\ \A k \in DOMAIN v : v[k] = list[g[k]]
        /\ \A k, m \in DOMAIN v : g[k] = g[m] => k = m
  BY KeepFrom
<1> HIDE DEF v
<1>2. g \in [DOMAIN v -> DOMAIN list]
  OBVIOUS
<1>3. Within(v, list)
  BY <1>1, <1>2 DEF Within
<1>4. \A k \in DOMAIN v : \E i \in K : v[k] = list[i]
  BY <1>1
<1> QED BY <1>3, <1>4 DEF v

LEMMA PurgedWithin ==
  ASSUME NEW list \in Seq(Listeners)
  PROVE  /\ Purged(list) \in Seq(Listeners) /\ Within(Purged(list), list)
         /\ \A k \in DOMAIN Purged(list) : Purged(list)[k] \notin Once
<1> DEFINE K == {i \in DOMAIN list : ~IsOnce(list[i])}
<1>1. Purged(list) = Keep(list, K)
  BY DEF Purged
<1>2. K \in SUBSET DOMAIN list /\ \A i \in K : list[i] \notin Once
  BY DEF IsOnce
<1> HIDE DEF K
<1> QED BY <1>1, <1>2, KeepType, KeepWithin

LEMMA WithoutWithin ==
  ASSUME NEW list \in Seq(Listeners), NEW l
  PROVE  /\ Within(Without(list, l), list)
         /\ \A k \in DOMAIN Without(list, l) : \E i \in DOMAIN list : Without(list, l)[k] = list[i]
<1> DEFINE K == {i \in DOMAIN list : list[i] # l}
<1>1. Without(list, l) = Keep(list, K) /\ K \in SUBSET DOMAIN list
  BY DEF Without
<1> HIDE DEF K
<1> QED BY <1>1, KeepWithin

LEMMA ListedWithin ==
  ASSUME NEW ls \in [Events -> Seq(Listeners)], NEW e \in Events, NEW v, Within(v, ls[e]),
         NEW l, Listed([ls EXCEPT ![e] = v], l)
  PROVE  Listed(ls, l)
<1> DEFINE ms == [ls EXCEPT ![e] = v]
<1>1. \A x \in Events : ms[x] = IF x = e THEN v ELSE ls[x]
  OBVIOUS
<1> HIDE DEF ms
<1>2. PICK x \in Events : \E i \in DOMAIN ms[x] : ms[x][i] = l
  BY DEF Listed, ms
<1>3. PICK i \in DOMAIN ms[x] : ms[x][i] = l
  BY <1>2
<1>4. CASE x = e
  <2>1. PICK g \in [DOMAIN v -> DOMAIN ls[e]] : \A k \in DOMAIN v : v[k] = ls[e][g[k]]
    BY DEF Within
  <2>2. i \in DOMAIN v /\ v[i] = l
    BY <1>1, <1>3, <1>4
  <2>3. g[i] \in DOMAIN ls[e] /\ ls[e][g[i]] = l
    BY <2>1, <2>2
  <2> QED BY <2>3 DEF Listed
<1>5. CASE x # e
  BY <1>1, <1>3, <1>5 DEF Listed
<1> QED BY <1>4, <1>5

LEMMA PlacedWithin ==
  ASSUME NEW ls \in [Events -> Seq(Listeners)], NEW ad, PlacedOK(ls, ad),
         NEW e \in Events, NEW v, Within(v, ls[e])
  PROVE  PlacedOK([ls EXCEPT ![e] = v], ad)
<1> DEFINE ms == [ls EXCEPT ![e] = v]
<1>1. \A x \in Events : ms[x] = IF x = e THEN v ELSE ls[x]
  OBVIOUS
<1> HIDE DEF ms
<1>2. PICK g \in [DOMAIN v -> DOMAIN ls[e]] :
        /\ \A k \in DOMAIN v : v[k] = ls[e][g[k]]
        /\ \A k, m \in DOMAIN v : g[k] = g[m] => k = m
  BY DEF Within
<1>a. \A k \in DOMAIN v : g[k] \in DOMAIN ls[e]
  BY <1>2
<1>3. \A x \in Events : \A i \in DOMAIN ms[x] : ms[x][i] \in ad
  BY <1>1, <1>2, <1>a DEF PlacedOK
<1>4. ASSUME NEW x \in Events, NEW y \in Events, NEW i \in DOMAIN ms[x], NEW j \in DOMAIN ms[y],
             ms[x][i] = ms[y][j]
      PROVE  x = y /\ i = j
  <2> DEFINE p == IF x = e THEN g[i] ELSE i
             q == IF y = e THEN g[j] ELSE j
  <2>1. p \in DOMAIN ls[x] /\ ls[x][p] = ms[x][i]
    BY <1>1, <1>2, <1>a
  <2>2. q \in DOMAIN ls[y] /\ ls[y][q] = ms[y][j]
    BY <1>1, <1>2, <1>a
  <2>3. x = y /\ p = q
    BY <1>4, <2>1, <2>2 DEF PlacedOK
  <2> QED BY <1>1, <1>2, <2>3
<1>5. PlacedOK(ms, ad)
  BY <1>3, <1>4 DEF PlacedOK
<1> QED BY <1>5 DEF ms

LEMMA AppendAt ==
  ASSUME NEW ls \in [Events -> Seq(Listeners)], NEW e \in Events, NEW l \in Listeners,
         NEW x \in Events, NEW i \in DOMAIN [ls EXCEPT ![e] = Append(@, l)][x]
  PROVE  LET v == [ls EXCEPT ![e] = Append(@, l)][x][i] IN
         \/ i \in DOMAIN ls[x] /\ v = ls[x][i]
         \/ x = e /\ i = Len(ls[e]) + 1 /\ v = l
<1>1. DOMAIN ls[e] = 1 .. Len(ls[e]) /\ Len(ls[e]) \in Nat
  BY LenProperties
<1>2. /\ DOMAIN Append(ls[e], l) = 1 .. Len(ls[e]) + 1 /\ Append(ls[e], l)[Len(ls[e]) + 1] = l
      /\ \A k \in 1 .. Len(ls[e]) : Append(ls[e], l)[k] = ls[e][k]
  BY PushProps
<1>3. CASE x = e
  <2> DEFINE v == Append(ls[e], l)
  <2>1. [ls EXCEPT ![e] = Append(@, l)][x] = v
    BY <1>3
  <2>2. i \in 1 .. Len(ls[e]) + 1
    BY <1>2, <2>1
  <2>3. i \in 1 .. Len(ls[e]) \/ i = Len(ls[e]) + 1
    BY <1>1, <2>2
  <2> QED BY <1>1, <1>2, <1>3, <2>1, <2>3
<1>4. CASE x # e
  BY <1>4
<1> QED BY <1>3, <1>4

LEMMA PlacedAppend ==
  ASSUME NEW ls \in [Events -> Seq(Listeners)], NEW ad, PlacedOK(ls, ad),
         NEW e \in Events, NEW l \in Listeners, l \in ad, ~Listed(ls, l)
  PROVE  PlacedOK([ls EXCEPT ![e] = Append(@, l)], ad)
<1> DEFINE ms == [ls EXCEPT ![e] = Append(@, l)]
           New(x, i) == x = e /\ i = Len(ls[e]) + 1 /\ ms[x][i] = l
           Old(x, i) == i \in DOMAIN ls[x] /\ ms[x][i] = ls[x][i]
<1>1. \A x \in Events : \A i \in DOMAIN ms[x] : Old(x, i) \/ New(x, i)
  BY AppendAt
<1> HIDE DEF ms
<1>2. \A x \in Events : \A i \in DOMAIN ms[x] : ms[x][i] \in ad
  BY <1>1 DEF PlacedOK
<1>3. \A x \in Events : \A i \in DOMAIN ls[x] : ls[x][i] # l
  BY DEF Listed
<1>4. ASSUME NEW x \in Events, NEW y \in Events, NEW i \in DOMAIN ms[x], NEW j \in DOMAIN ms[y],
             ms[x][i] = ms[y][j]
      PROVE  x = y /\ i = j
  <2>1. CASE Old(x, i) /\ Old(y, j)
    <3>1. \A p \in DOMAIN ls[x], q \in DOMAIN ls[y] : ls[x][p] = ls[y][q] => x = y /\ p = q
      BY DEF PlacedOK
    <3>2. ls[x][i] = ls[y][j]
      BY <1>4, <2>1
    <3> QED BY <2>1, <3>1, <3>2
  <2>2. CASE New(x, i) /\ New(y, j)
    BY <2>2
  <2>3. ~(Old(x, i) /\ New(y, j)) /\ ~(New(x, i) /\ Old(y, j))
    BY <1>3, <1>4
  <2> QED BY <1>1, <2>1, <2>2, <2>3
<1>5. PlacedOK(ms, ad)
  BY <1>2, <1>4 DEF PlacedOK
<1> QED BY <1>5 DEF ms

LEMMA ListedAppend ==
  ASSUME NEW ls \in [Events -> Seq(Listeners)], NEW e \in Events, NEW l \in Listeners,
         NEW m, Listed([ls EXCEPT ![e] = Append(@, l)], m)
  PROVE  m = l \/ Listed(ls, m)
<1> DEFINE ms == [ls EXCEPT ![e] = Append(@, l)]
<1>1. \A x \in Events : \A i \in DOMAIN ms[x] :
        (i \in DOMAIN ls[x] /\ ms[x][i] = ls[x][i]) \/ ms[x][i] = l
  BY AppendAt
<1> HIDE DEF ms
<1> QED BY <1>1 DEF Listed, ms

LEMMA FreshPush ==
  ASSUME NEW s \in Seq(Frames), NEW ls, NEW ad, NEW rs, FreshOK(s, ls, ad, rs), NEW f \in Frames,
         f.kind # "add"
  PROVE  FreshOK(Append(s, f), ls, ad, rs)
<1> DEFINE t == Append(s, f)
<1>1. \A i \in DOMAIN t : t[i].kind = "add" => i \in DOMAIN s /\ t[i] = s[i]
  <2>1. /\ DOMAIN s = 1 .. Len(s) /\ Len(s) \in Nat /\ DOMAIN t = 1 .. Len(s) + 1
        /\ t[Len(s) + 1] = f /\ \A i \in DOMAIN s : t[i] = s[i]
    BY PushProps, LenProperties
  <2> HIDE DEF t
  <2> QED BY <2>1
<1> HIDE DEF t
<1> QED BY <1>1 DEF FreshOK, t

\* add_listener is called with a listener that was nowhere.
LEMMA FreshPushAdd ==
  ASSUME NEW s \in Seq(Frames), NEW ls \in [Events -> Seq(Listeners)], NEW ad,
         NEW rs, FreshOK(s, ls, ad, rs), PlacedOK(ls, ad),
         NEW f \in Frames, f.who \in Listeners \ ad
  PROVE  FreshOK(Append(s, f), ls, ad \cup {f.who}, rs)
<1> DEFINE t == Append(s, f)
<1>1. /\ DOMAIN s = 1 .. Len(s) /\ Len(s) \in Nat /\ DOMAIN t = 1 .. Len(s) + 1
      /\ t[Len(s) + 1] = f /\ \A i \in DOMAIN s : t[i] = s[i]
  BY PushProps, LenProperties
<1>2. \A i \in DOMAIN t : i \in DOMAIN s \/ i = Len(s) + 1
  BY <1>1
<1> HIDE DEF t
<1>3. ~Listed(ls, f.who)
  BY DEF Listed, PlacedOK
<1>4. rs[f.who] = 0
  BY DEF FreshOK
<1>5. \A i \in DOMAIN s : s[i].kind = "add" => s[i].who # f.who
  BY DEF FreshOK
<1>6. FreshOK(t, ls, ad \cup {f.who}, rs)
  BY <1>1, <1>2, <1>3, <1>4, <1>5 DEF FreshOK
<1> QED BY <1>6 DEF t

LEMMA FreshPop ==
  ASSUME NEW s \in Seq(Frames), NEW ls, NEW ad, NEW rs, FreshOK(s, ls, ad, rs), s # <<>>
  PROVE  FreshOK(Pop(s), ls, ad, rs)
<1>1. /\ DOMAIN Pop(s) \subseteq DOMAIN s
      /\ \A i \in DOMAIN Pop(s) : Pop(s)[i] = s[i]
  BY PopFrames
<1> QED BY <1>1 DEF FreshOK

\* Lists may lose listeners.
LEMMA FreshWithin ==
  ASSUME NEW s, NEW ls \in [Events -> Seq(Listeners)], NEW ad, NEW rs, FreshOK(s, ls, ad, rs),
         NEW e \in Events, NEW v, Within(v, ls[e])
  PROVE  FreshOK(s, [ls EXCEPT ![e] = v], ad, rs)
<1> DEFINE ms == [ls EXCEPT ![e] = v]
<1>1. \A l : Listed(ms, l) => Listed(ls, l)
  BY ListedWithin
<1> HIDE DEF ms
<1>2. FreshOK(s, ms, ad, rs)
  BY <1>1 DEF FreshOK
<1> QED BY <1>2 DEF ms

\* They may gain one that no other add_listener is about to append.
LEMMA FreshAppend ==
  ASSUME NEW s, NEW ls \in [Events -> Seq(Listeners)], NEW ad, NEW rs, FreshOK(s, ls, ad, rs),
         NEW e \in Events, NEW l \in Listeners,
         \A i \in DOMAIN s : s[i].kind = "add" => s[i].who # l
  PROVE  FreshOK(s, [ls EXCEPT ![e] = Append(@, l)], ad, rs)
<1> DEFINE ms == [ls EXCEPT ![e] = Append(@, l)]
<1>1. \A m : Listed(ms, m) => m = l \/ Listed(ls, m)
  BY ListedAppend
<1> HIDE DEF ms
<1>2. FreshOK(s, ms, ad, rs)
  BY <1>1 DEF FreshOK
<1> QED BY <1>2 DEF ms

\* Frames on top take no loop away.
LEMMA PassedPush ==
  ASSUME NEW s \in Seq(Frames), NEW ls, NEW rs, PassedOK(s, ls, rs), NEW f \in Frames
  PROVE  PassedOK(Append(s, f), ls, rs)
<1> DEFINE t == Append(s, f)
<1>1. \A i \in DOMAIN s : i \in DOMAIN t /\ t[i] = s[i]
  <2>1. /\ DOMAIN s = 1 .. Len(s) /\ Len(s) \in Nat /\ DOMAIN t = 1 .. Len(s) + 1
        /\ \A i \in DOMAIN s : t[i] = s[i]
    BY PushProps, LenProperties
  <2> HIDE DEF t
  <2> QED BY <2>1
<1> HIDE DEF t
<1>2. PassedOK(t, ls, rs)
  BY <1>1 DEF PassedOK
<1> QED BY <1>2 DEF t

\* The top frame may go when it is no loop, or no run-once listener in its
\* list has run.
RunIn(e, ls, rs) == \E i \in DOMAIN ls[e] : ls[e][i] \in Once /\ rs[ls[e][i]] # 0
LEMMA PassedPop ==
  ASSUME NEW s \in Seq(Frames), s # <<>>, NEW ls, NEW rs, PassedOK(s, ls, rs),
         ~IsLoop(s[Len(s)]) \/ ~RunIn(s[Len(s)].event, ls, rs)
  PROVE  PassedOK(Pop(s), ls, rs)
<1>1. /\ DOMAIN Pop(s) = DOMAIN s \ {Len(s)}
      /\ \A i \in DOMAIN Pop(s) : Pop(s)[i] = s[i]
  BY PopFrames
<1>2. ASSUME NEW e \in Events, NEW i \in DOMAIN ls[e], ls[e][i] \in Once, rs[ls[e][i]] # 0
      PROVE  \E k \in DOMAIN Pop(s) : IsLoop(Pop(s)[k]) /\ Pop(s)[k].event = e /\ Pop(s)[k].at > i
  <2>1. PICK k \in DOMAIN s : IsLoop(s[k]) /\ s[k].event = e /\ s[k].at > i
    BY <1>2 DEF PassedOK
  <2>2. k # Len(s)
    BY <1>2, <2>1 DEF RunIn
  <2> QED BY <1>1, <2>1, <2>2
<1> QED BY <1>2 DEF PassedOK

\* A list without a run-once listener that has run may change.
LEMMA PassedList ==
  ASSUME NEW s, NEW ls \in [Events -> Seq(Listeners)], NEW rs, PassedOK(s, ls, rs),
         NEW e \in Events, NEW v, \A k \in DOMAIN v : ~(v[k] \in Once /\ rs[v[k]] # 0)
  PROVE  PassedOK(s, [ls EXCEPT ![e] = v], rs)
<1> DEFINE ms == [ls EXCEPT ![e] = v]
<1>1. \A x \in Events : ms[x] = IF x = e THEN v ELSE ls[x]
  OBVIOUS
<1> HIDE DEF ms
<1>2. PassedOK(s, ms, rs)
  BY <1>1 DEF PassedOK
<1> QED BY <1>2 DEF ms

LEMMA PassedAppend ==
  ASSUME NEW s, NEW ls \in [Events -> Seq(Listeners)], NEW rs, PassedOK(s, ls, rs),
         NEW e \in Events, NEW l \in Listeners, rs[l] = 0
  PROVE  PassedOK(s, [ls EXCEPT ![e] = Append(@, l)], rs)
<1> DEFINE ms == [ls EXCEPT ![e] = Append(@, l)]
<1>1. \A x \in Events : \A i \in DOMAIN ms[x] :
        (i \in DOMAIN ls[x] /\ ms[x][i] = ls[x][i]) \/ ms[x][i] = l
  BY AppendAt
<1> HIDE DEF ms
<1>2. PassedOK(s, ms, rs)
  BY <1>1 DEF PassedOK
<1> QED BY <1>2 DEF ms

\* A list over which the discipline lets nobody iterate holds none that ran.
LEMMA IdleUnrun ==
  ASSUME NEW s, NEW ls, NEW rs, PassedOK(s, ls, rs), NEW e \in Events,
         \A k \in DOMAIN s : ~(IsLoop(s[k]) /\ s[k].event = e)
  PROVE  ~RunIn(e, ls, rs)
BY DEF PassedOK, RunIn

LEMMA OnceNext ==
  ASSUME ~MayReenter, ~MayThrow
  PROVE  TypeInv /\ NoInterference /\ OnceInv /\ [Next]_vars => OnceInv'
<1> SUFFICES ASSUME TypeInv, NoInterference, OnceInv, [Next]_vars PROVE OnceInv'
  OBVIOUS
<1>a. /\ listeners \in [Events -> Seq(Listeners)] /\ stack \in Seq(Frames)
      /\ runs \in [Listeners -> 0 .. 2]
  BY DEF TypeInv, TypeOK
<1>b. /\ PlacedOK(listeners, added) /\ FreshOK(stack, listeners, added, runs)
      /\ PassedOK(stack, listeners, runs) /\ OnceRunsOnce
  BY DEF OnceInv
<1>c. ASSUME PlacedOK(listeners', added'), FreshOK(stack', listeners', added', runs),
             PassedOK(stack', listeners', runs), runs' = runs
      PROVE  OnceInv'
  BY <1>b, <1>c DEF OnceInv, OnceRunsOnce
<1>d. ASSUME UNCHANGED <<listeners, added, runs>>,
             FreshOK(stack', listeners, added, runs), PassedOK(stack', listeners, runs)
      PROVE  OnceInv'
  BY <1>b, <1>c, <1>d
<1>f. ASSUME stack # <<>>
      PROVE  /\ Pop(stack) \in Seq(Frames) /\ FreshOK(Pop(stack), listeners, added, runs)
             /\ Top \in Frames /\ Top.event \in Events
             /\ Len(stack) \in DOMAIN stack /\ Len(stack) \notin DOMAIN Pop(stack)
             /\ \A i \in DOMAIN Pop(stack) : i \in DOMAIN stack /\ Pop(stack)[i] = stack[i]
  BY <1>a, <1>b, <1>f, PopFrames, FreshPop, FrameTypes DEF Top
<1>g. ASSUME stack # <<>>
      PROVE  \A i \in DOMAIN Pop(stack) :
               Pop(stack)[i].kind # "add" => ~Changes(Top, Pop(stack)[i].event, listeners)
  BY <1>a, <1>g, SoundPop DEF Top, NoInterference
\* The program adds a listener that was not there.
<1>h. ASSUME NEW l \in Listeners, l \notin added
      PROVE  /\ PlacedOK(listeners, added \cup {l}) /\ FreshOK(stack, listeners, added \cup {l}, runs)
             /\ ~Listed(listeners, l) /\ runs[l] = 0
             /\ \A i \in DOMAIN stack : stack[i].kind = "add" => stack[i].who # l
  <2>1. PlacedOK(listeners, added \cup {l}) /\ ~Listed(listeners, l)
    BY <1>b, <1>h DEF PlacedOK, Listed
  <2>2. FreshOK(stack, listeners, added \cup {l}, runs) /\ runs[l] = 0
        /\ \A i \in DOMAIN stack : stack[i].kind = "add" => stack[i].who # l
    BY <1>b, <1>h DEF FreshOK
  <2> QED BY <2>1, <2>2
<1>1. ASSUME NEW e \in Events, Emit(e) PROVE OnceInv'
  <2> DEFINE f == Frame("emit", e, NoListener, Len(listeners[e]))
  <2>1. UNCHANGED <<listeners, added, runs>> /\ (stack' = stack \/ stack' = Append(stack, f))
    BY <1>1 DEF Emit, Calling
  <2>2. f \in Frames /\ f.kind # "add"
    BY <1>a, NewFrame DEF Frame
  <2> HIDE DEF f
  <2>3. FreshOK(Append(stack, f), listeners, added, runs) /\ PassedOK(Append(stack, f), listeners, runs)
    BY <1>a, <1>b, <2>2, FreshPush, PassedPush
  <2> QED BY <1>b, <1>d, <2>1, <2>3
<1>2. ASSUME NEW e \in Events, NEW l \in Listeners, AddListener(e, l) PROVE OnceInv'
  <2>1. runs' = runs /\ ~Held(e) /\ l \notin added /\ added' = added \cup {l}
    BY <1>2 DEF AddListener, MayMutate
  <2>2. /\ PlacedOK(listeners, added') /\ FreshOK(stack, listeners, added', runs)
        /\ ~Listed(listeners, l) /\ runs[l] = 0 /\ l \in added'
        /\ \A i \in DOMAIN stack : stack[i].kind = "add" => stack[i].who # l
    BY <1>h, <2>1
  <2>3. CASE UNCHANGED <<listeners, stack>>
    BY <1>b, <1>c, <2>1, <2>2, <2>3
  <2>4. CASE EmplaceBack(e, l, stack)
    <3>1. \A i \in DOMAIN stack : ~IteratesOver(stack[i], e)
      BY <2>1 DEF Held, IteratesOver
    <3>2. stack' = stack
      BY <1>a, <2>4, <3>1, SoundIdle DEF NoInterference, EmplaceBack
    <3>3. listeners' = [listeners EXCEPT ![e] = Append(@, l)]
      BY <2>4 DEF EmplaceBack
    <3>4. PlacedOK(listeners', added')
      BY <1>a, <2>2, <3>3, PlacedAppend
    <3>5. FreshOK(stack, listeners', added', runs)
      BY <1>a, <2>2, <3>3, FreshAppend
    <3>6. PassedOK(stack, listeners', runs)
      BY <1>a, <1>b, <2>2, <3>3, PassedAppend
    <3> QED BY <1>c, <2>1, <3>2, <3>4, <3>5, <3>6
  <2>5. CASE Announce(ListenerAdded, "add", e, l)
    <3> DEFINE f == Frame("add", e, l, 0)
               g == Frame("emit", ListenerAdded, NoListener, Len(listeners[ListenerAdded]))
    <3>1. listeners' = listeners /\ (stack' = stack \/ stack' = Append(Append(stack, f), g))
      BY <2>5 DEF Announce
    <3>2. f \in Frames /\ g \in Frames /\ f.who = l /\ f.kind = "add" /\ g.kind # "add"
      BY <1>a, WaitingFrame, NewFrame, NamesAssumption DEF Frame
    <3> HIDE DEF f, g
    <3>3. Append(stack, f) \in Seq(Frames)
      BY <1>a, <3>2, PushProps
    <3>4. FreshOK(Append(stack, f), listeners, added', runs)
      BY <1>a, <1>b, <2>1, <3>2, FreshPushAdd
    <3>5. FreshOK(Append(Append(stack, f), g), listeners, added', runs)
      BY <3>2, <3>3, <3>4, FreshPush
    <3>6. PassedOK(Append(Append(stack, f), g), listeners, runs)
      BY <1>a, <1>b, <3>2, <3>3, PassedPush
    <3> QED BY <1>b, <1>c, <2>1, <2>2, <3>1, <3>5, <3>6
  <2> QED BY <1>2, <2>3, <2>4, <2>5 DEF AddListener
<1>3. CASE CompleteAdd
  <2> DEFINE e == Top.event
             l == Top.who
  <2>1. stack # <<>> /\ Top.kind = "add" /\ EmplaceBack(e, l, Pop(stack)) /\ UNCHANGED <<added, runs>>
    BY <1>3 DEF CompleteAdd
  <2>2. l \in Listeners
    BY <1>a, <2>1, StackPop DEF Top, FrameOK, IsLoop, TypeInv
  <2>3. /\ l \in added /\ runs[l] = 0 /\ ~Listed(listeners, l)
        /\ \A i \in DOMAIN Pop(stack) : Pop(stack)[i].kind = "add" => Pop(stack)[i].who # l
    BY <1>b, <1>f, <2>1 DEF FreshOK, Top
  <2>4. \A i \in DOMAIN Pop(stack) : ~IteratesOver(Pop(stack)[i], e)
    BY <1>g, <2>1 DEF Changes, IteratesOver
  <2> HIDE DEF l
  <2>5. stack' = Pop(stack)
    BY <1>a, <1>f, <2>1, <2>4, SoundIdle, SoundPop DEF NoInterference, EmplaceBack
  <2>6. listeners' = [listeners EXCEPT ![e] = Append(@, l)]
    BY <2>1 DEF EmplaceBack
  <2>7. PassedOK(Pop(stack), listeners, runs)
    BY <1>a, <1>b, <2>1, PassedPop DEF IsLoop, Top
  <2>e. e \in Events
    BY <1>f, <2>1
  <2> HIDE DEF e
  <2>8. PlacedOK(listeners', added')
    BY <1>a, <1>b, <2>1, <2>e, <2>2, <2>3, <2>6, PlacedAppend
  <2>9. FreshOK(stack', listeners', added', runs)
    BY <1>a, <1>f, <2>1, <2>e, <2>2, <2>3, <2>5, <2>6, FreshAppend
  <2>10. PassedOK(stack', listeners', runs)
    BY <1>a, <2>e, <2>2, <2>3, <2>5, <2>6, <2>7, PassedAppend
  <2> QED BY <1>c, <2>1, <2>8, <2>9, <2>10
<1>4. ASSUME NEW e \in Events, NEW l \in Listeners, RemoveListener(e, l) PROVE OnceInv'
  <2> DEFINE f == Frame("remove", e, l, 0)
             g == Frame("emit", ListenerRemoved, NoListener, Len(listeners[ListenerRemoved]))
  <2>1. /\ UNCHANGED <<listeners, added, runs>>
        /\ stack' = stack \/ stack' = Append(Append(stack, f), g)
    BY <1>4 DEF RemoveListener, Announce
  <2>2. f \in Frames /\ g \in Frames /\ f.kind # "add" /\ g.kind # "add"
    BY <1>a, WaitingFrame, NewFrame, NamesAssumption DEF Frame
  <2> HIDE DEF f, g
  <2>3. Append(stack, f) \in Seq(Frames)
    BY <1>a, <2>2, PushProps
  <2>4. FreshOK(Append(Append(stack, f), g), listeners, added, runs)
    BY <1>a, <1>b, <2>2, <2>3, FreshPush
  <2>5. PassedOK(Append(Append(stack, f), g), listeners, runs)
    BY <1>a, <1>b, <2>2, <2>3, PassedPush
  <2> QED BY <1>b, <1>d, <2>1, <2>4, <2>5
<1>5. CASE CompleteRemove
  <2> DEFINE e == Top.event
             v == Without(listeners[e], Top.who)
  <2>1. stack # <<>> /\ Top.kind = "remove" /\ Top.refs = "valid" /\ UNCHANGED <<added, runs>>
    BY <1>a, <1>5, SoundPop DEF CompleteRemove, NoInterference, Top
  <2>2. listeners' = [listeners EXCEPT ![e] = v] /\ stack' = Moved(Pop(stack), e)
    BY <1>5, <2>1 DEF CompleteRemove
  <2>e. e \in Events /\ listeners[e] \in Seq(Listeners)
    BY <1>a, <1>f, <2>1
  <2>3. Within(v, listeners[e]) /\ \A k \in DOMAIN v : \E i \in DOMAIN listeners[e] : v[k] = listeners[e][i]
    BY <2>e, WithoutWithin
  <2>4. \A i \in DOMAIN Pop(stack) :
          ~IteratesOver(Pop(stack)[i], e) /\ ~(IsLoop(Pop(stack)[i]) /\ Pop(stack)[i].event = e)
    BY <1>g, <2>1 DEF IteratesOver, Changes, IsLoop
  <2> HIDE DEF v
  <2>5. stack' = Pop(stack)
    BY <1>a, <1>f, <2>1, <2>2, <2>4, SoundIdle, SoundPop DEF NoInterference
  <2>6. PassedOK(Pop(stack), listeners, runs)
    BY <1>a, <1>b, <2>1, PassedPop DEF IsLoop, Top
  <2> HIDE DEF e
  <2>7. ~RunIn(e, listeners, runs)
    BY <2>e, <2>4, <2>6, IdleUnrun
  <2>8. \A k \in DOMAIN v : ~(v[k] \in Once /\ runs[v[k]] # 0)
    BY <2>3, <2>7 DEF RunIn
  <2>9. PlacedOK(listeners', added)
    BY <1>a, <1>b, <2>2, <2>3, <2>e, PlacedWithin
  <2>10. FreshOK(stack', listeners', added, runs)
    BY <1>a, <1>f, <2>1, <2>2, <2>3, <2>5, <2>e, FreshWithin
  <2>11. PassedOK(stack', listeners', runs)
    BY <1>a, <2>2, <2>5, <2>6, <2>8, <2>e, PassedList
  <2> QED BY <1>c, <2>1, <2>9, <2>10, <2>11
<1>6. CASE RemoveAllListeners
  <2>1. /\ stack = <<>> /\ stack' = Gone(stack) /\ UNCHANGED <<added, runs>>
        /\ listeners' = [e \in Events |-> <<>>]
    BY <1>6 DEF RemoveAllListeners, Calling
  <2>2. DOMAIN stack' = {}
    BY <2>1 DEF Gone
  <2>3. \A e \in Events : DOMAIN listeners'[e] = {}
    BY <2>1
  <2>4. FreshOK(stack', listeners', added', runs)
    BY <1>b, <2>1, <2>2 DEF FreshOK
  <2> QED BY <1>c, <2>1, <2>3, <2>4 DEF PlacedOK, PassedOK
<1>7. ASSUME NEW e \in Events, RemoveAllListenersOf(e) PROVE OnceInv'
  <2>1. /\ UNCHANGED <<added, runs>> /\ ~Held(e)
        /\ listeners' = [listeners EXCEPT ![e] = <<>>] /\ stack' = Moved(stack, e)
    BY <1>7 DEF RemoveAllListenersOf, MayMutate, Calling
  <2>2. \A i \in DOMAIN stack : ~IteratesOver(stack[i], e)
    BY <2>1 DEF Held, IteratesOver
  <2>3. stack' = stack
    BY <1>a, <2>1, <2>2, SoundIdle DEF NoInterference
  <2>4. Within(<<>>, listeners[e])
    <3> DEFINE g == [k \in {} |-> 0]
    <3>1. DOMAIN <<>> = {} /\ g \in [{} -> DOMAIN listeners[e]]
      OBVIOUS
    <3> QED BY <3>1 DEF Within
  <2>5. PlacedOK(listeners', added)
    BY <1>a, <1>b, <2>1, <2>4, PlacedWithin
  <2>6. FreshOK(stack, listeners', added, runs)
    BY <1>a, <1>b, <2>1, <2>4, FreshWithin
  <2>7. PassedOK(stack, listeners', runs)
    <3>1. \A k \in DOMAIN <<>> : ~(<<>>[k] \in Once /\ runs[<<>>[k]] # 0)
      OBVIOUS
    <3> QED BY <1>a, <1>b, <2>1, <3>1, PassedList
  <2> QED BY <1>c, <2>1, <2>3, <2>5, <2>6, <2>7
<1>8. ASSUME NEW n \in MaxChoices, SetMaxListeners(n) PROVE OnceInv'
  BY <1>b, <1>d, <1>8 DEF SetMaxListeners, Calling
<1>9. CASE CallNext
  <2> DEFINE e == Top.event
             p == Top.at
             l == listeners[e][p]
             f == [Top EXCEPT !.who = l, !.at = @ + 1]
             n == IF runs[l] = 2 THEN 2 ELSE runs[l] + 1
  <2>1. stack # <<>> /\ IsLoop(Top) /\ Top.refs = "valid" /\ p <= Top.len
    BY <1>a, <1>9, SoundPop DEF CallNext, InLoop, NoInterference, Top
  <2>2. /\ UNCHANGED <<listeners, added>>
        /\ runs' = [runs EXCEPT ![l] = n] /\ stack' = [stack EXCEPT ![Len(stack)] = f]
    BY <1>a, <1>f, <1>9, <2>1 DEF CallNext, Top, Frames
  <2>3. e \in Events /\ p \in Nat \ {0} /\ Top.len \in Nat /\ f.event = e /\ f.at = p + 1
        /\ f.kind = Top.kind
    BY <1>f, <2>1 DEF Frames
  <2>4. Top.len <= Len(listeners[e])
    <3>1. FrameOK(stack[Len(stack)], listeners)
      BY <1>f, <2>1 DEF TypeInv, StackOK
    <3> QED BY <2>1, <3>1 DEF FrameOK, IsLoop, Top
  <2>5. p \in DOMAIN listeners[e]
    BY <1>a, <2>1, <2>3, <2>4, LenProperties
  <2>6. l \in Listeners /\ l \in added /\ Listed(listeners, l)
    <3>1. listeners[e] \in Seq(Listeners)
      BY <1>a, <2>3
    <3>2. l \in Listeners
      BY <2>5, <3>1, LenProperties, ElementOfSeq
    <3> QED BY <1>b, <2>3, <2>5, <3>2 DEF PlacedOK, Listed
  <2>7. DOMAIN stack' = DOMAIN stack /\ \A i \in DOMAIN stack :
          stack'[i] = IF i = Len(stack) THEN f ELSE stack[i]
    BY <2>2
  <2>8. \A m \in Listeners : m # l => runs'[m] = runs[m]
    BY <1>a, <2>2
  <2> HIDE DEF l, f, n
  <2>9. PlacedOK(listeners', added')
    BY <1>b, <2>2
  <2>10. FreshOK(stack', listeners', added', runs')
    <3>1. \A m \in Listeners \ added : runs'[m] = 0
      BY <1>b, <2>6, <2>8 DEF FreshOK
    <3>2. \A i \in DOMAIN stack : stack'[i].kind = "add" => stack'[i] = stack[i] /\ i # Len(stack)
      BY <2>1, <2>3, <2>7 DEF IsLoop, Top
    <3>3. \A i \in DOMAIN stack : stack[i].kind = "add" => stack[i].who \in Listeners /\ stack[i].who # l
      BY <1>b, <2>6 DEF FreshOK, TypeInv, StackOK, FrameOK, IsLoop
    <3> QED BY <1>b, <2>2, <2>7, <2>8, <3>1, <3>2, <3>3 DEF FreshOK
  <2>11. PassedOK(stack', listeners', runs')
    <3>1. SUFFICES ASSUME NEW x \in Events, NEW i \in DOMAIN listeners[x],
                          listeners[x][i] \in Once, runs'[listeners[x][i]] # 0
                   PROVE  \E k \in DOMAIN stack : IsLoop(stack'[k]) /\ stack'[k].event = x /\ stack'[k].at > i
      BY <2>2, <2>7 DEF PassedOK
    <3>2. IsLoop(f)
      BY <2>1, <2>3 DEF IsLoop
    <3>3. CASE listeners[x][i] = l
      <4>1. x = e /\ i = p
        BY <1>b, <2>3, <2>5, <3>3 DEF PlacedOK, l
      <4>2. stack'[Len(stack)] = f /\ f.at > i
        BY <1>f, <2>1, <2>3, <2>7, <4>1
      <4> QED BY <1>f, <2>1, <2>3, <3>2, <4>1, <4>2
    <3>4. CASE listeners[x][i] # l
      <4>1. runs[listeners[x][i]] # 0
        BY <2>8, <3>1, <3>4, NamesAssumption
      <4>2. PICK k \in DOMAIN stack : IsLoop(stack[k]) /\ stack[k].event = x /\ stack[k].at > i
        BY <1>b, <3>1, <4>1 DEF PassedOK
      <4>3. i \in Nat
        BY <1>a, <3>1, LenProperties
      <4>4. CASE k = Len(stack)
        <5>1. x = e /\ p > i /\ stack'[k] = f
          BY <2>7, <4>2, <4>4 DEF Top
        <5>2. p + 1 > i
          BY <2>3, <4>3, <5>1
        <5> QED BY <2>3, <3>2, <5>1, <5>2
      <4>5. CASE k # Len(stack)
        BY <2>7, <4>2, <4>5
      <4> QED BY <4>4, <4>5
    <3> QED BY <3>3, <3>4
  <2>12. OnceRunsOnce'
    <3>1. ASSUME l \in Once PROVE runs[l] = 0
      <4>1. SUFFICES ASSUME runs[l] # 0 PROVE FALSE
        OBVIOUS
      <4>2. PICK k \in DOMAIN stack : IsLoop(stack[k]) /\ stack[k].event = e /\ stack[k].at > p
        BY <1>b, <2>3, <2>5, <3>1, <4>1 DEF PassedOK, l
      <4>3. k \in DOMAIN Pop(stack)
        <5>1. k # Len(stack)
          BY <2>3, <4>2 DEF Top
        <5> QED BY <1>a, <2>1, <5>1, PopFrames
      <4>4. ~Changes(Top, e, listeners)
        BY <1>f, <1>g, <2>1, <4>2, <4>3 DEF IsLoop
      <4>5. HasOnceIn(listeners[e])
        BY <2>5, <3>1 DEF HasOnceIn, IsOnce, l
      <4> QED BY <2>1, <2>3, <4>4, <4>5 DEF Changes, Claims, IsLoop
    <3>2. l \in Once => runs'[l] = 1
      <4>1. l \in Once => n = 1
        BY <3>1 DEF n
      <4> QED BY <1>a, <2>2, <2>6, <4>1
    <3> QED BY <1>b, <2>8, <3>2, NamesAssumption DEF OnceRunsOnce
  <2> QED BY <2>9, <2>10, <2>11, <2>12 DEF OnceInv
<1>10. CASE Return
  <2> DEFINE f == [Top EXCEPT !.who = NoListener]
  <2>1. /\ stack # <<>> /\ IsLoop(Top) /\ UNCHANGED <<listeners, added, runs>>
        /\ stack' = [stack EXCEPT ![Len(stack)] = f]
    BY <1>a, <1>f, <1>10 DEF Return, Top, Frames
  <2>2. f.kind = Top.kind /\ f.event = Top.event /\ f.at = Top.at
    BY <1>f, <2>1 DEF Frames
  <2>3. DOMAIN stack' = DOMAIN stack /\ \A i \in DOMAIN stack :
          stack'[i] = IF i = Len(stack) THEN f ELSE stack[i]
    BY <2>1
  <2> HIDE DEF f
  <2>4. \A i \in DOMAIN stack : /\ stack'[i].kind = stack[i].kind /\ stack'[i].event = stack[i].event
                                /\ stack'[i].at = stack[i].at
                                /\ stack[i].kind = "add" => stack'[i] = stack[i]
    BY <2>1, <2>2, <2>3 DEF Top, IsLoop
  <2>5. FreshOK(stack', listeners, added, runs)
    BY <1>b, <2>3, <2>4 DEF FreshOK
  <2>6. PassedOK(stack', listeners, runs)
    BY <1>b, <2>3, <2>4 DEF PassedOK, IsLoop
  <2> QED BY <1>d, <2>1, <2>5, <2>6
<1>11. CASE Throw
  BY <1>11 DEF Throw
<1>12. CASE Finish
  <2> DEFINE e == Top.event
             v == Purged(listeners[e])
             companion == SelfDestruct[e]
             lists == IF HasOnce(e) THEN [listeners EXCEPT ![e] = v] ELSE listeners
             rest == IF HasOnce(e) THEN Moved(Pop(stack), e) ELSE Pop(stack)
             f == Frame("destroy", companion, NoListener, Len(lists[companion]))
  <2>1. stack # <<>> /\ IsLoop(Top) /\ UNCHANGED <<added, runs>> /\ Top.refs = "valid"
    BY <1>a, <1>12, SoundPop DEF Finish, InLoop, NoInterference, Top
  <2>2. /\ listeners' = lists
        /\ \/ Top.kind = "emit" /\ companion \in keys /\ stack' = Append(rest, f)
           \/ stack' = rest
    BY <1>12, <2>1 DEF Finish
  <2>e. e \in Events /\ listeners[e] \in Seq(Listeners)
    BY <1>a, <1>f, <2>1
  <2>3. /\ Within(v, listeners[e]) /\ v \in Seq(Listeners)
        /\ \A k \in DOMAIN v : v[k] \notin Once
    BY <2>e, PurgedWithin
  <2>4. HasOnce(e) => \A i \in DOMAIN Pop(stack) :
          ~IteratesOver(Pop(stack)[i], e) /\ ~(IsLoop(Pop(stack)[i]) /\ Pop(stack)[i].event = e)
    BY <1>f, <1>g, <2>1 DEF IteratesOver, Changes, HasOnce, IsLoop, Claims
  <2>5. rest = Pop(stack)
    BY <1>a, <1>f, <2>1, <2>4, SoundIdle, SoundPop DEF NoInterference
  <2>6. lists \in [Events -> Seq(Listeners)]
    BY <1>a, <2>3
  <2>7. Top.kind = "emit" /\ companion \in keys => f \in Frames /\ f.kind # "add"
    BY <2>6, NewFrame DEF Frame, TypeInv, TypeOK
  <2> HIDE DEF v, e, f, rest
  <2>8. PlacedOK(lists, added) /\ FreshOK(Pop(stack), lists, added, runs)
    BY <1>a, <1>b, <1>f, <2>1, <2>3, <2>e, PlacedWithin, FreshWithin
  <2>9. PassedOK(Pop(stack), lists, runs)
    <3> DEFINE ms == [listeners EXCEPT ![e] = v]
    <3>1. PassedOK(stack, ms, runs) /\ ~RunIn(e, ms, runs)
      <4>1. PassedOK(stack, ms, runs)
        BY <1>a, <1>b, <2>3, <2>e, PassedList
      <4> QED BY <1>a, <2>3, <2>e, <4>1 DEF RunIn
    <3>2. CASE HasOnce(e)
      BY <1>a, <2>1, <3>1, <3>2, PassedPop DEF Top, e
    <3>3. CASE ~HasOnce(e)
      <4>1. ~RunIn(e, listeners, runs)
        BY <3>3 DEF RunIn, HasOnce, HasOnceIn, IsOnce
      <4> QED BY <1>a, <1>b, <2>1, <3>3, <4>1, PassedPop DEF Top, e
    <3> QED BY <3>2, <3>3
  <2> HIDE DEF lists
  <2>10. FreshOK(stack', lists, added, runs) /\ PassedOK(stack', lists, runs)
    BY <1>f, <2>1, <2>2, <2>5, <2>7, <2>8, <2>9, FreshPush, PassedPush
  <2> QED BY <1>c, <2>1, <2>2, <2>8, <2>10
<1>13. CASE UNCHANGED vars
  BY <1>b, <1>d, <1>13 DEF vars
<1> QED
  BY <1>1, <1>2, <1>3, <1>4, <1>5, <1>6, <1>7, <1>8, <1>9, <1>10, <1>11, <1>12, <1>13
  DEF Next, UserCall

\* "Callback is for the next error": a run-once listener is called once when
\* listeners neither throw nor use a list that is being delivered, although
\* emit_impl takes it out of its list only after the loop.
THEOREM OnceListenersRunOnce ==
  ASSUME ~MayReenter, ~MayThrow
  PROVE  Spec => []OnceRunsOnce
<1>1. Init => OnceInv /\ NoInterference
  <2> SUFFICES ASSUME Init PROVE OnceInv /\ NoInterference
    OBVIOUS
  <2>1. PlacedOK(listeners, added) /\ PassedOK(stack, listeners, runs)
    BY DEF Init, PlacedOK, PassedOK
  <2>2. FreshOK(stack, listeners, added, runs) /\ OnceRunsOnce
    BY NamesAssumption DEF Init, FreshOK, OnceRunsOnce
  <2> QED BY <2>1, <2>2 DEF Init, OnceInv, NoInterference, Sound
<1>2. OnceInv => OnceRunsOnce
  BY DEF OnceInv
<1> QED BY <1>1, <1>2, TypeInvInit, TypeInvNext, NoInterferenceNext, OnceNext, PTL DEF Spec

-----------------------------------------------------------------------------
(* What a loop has passed.                                                  *)

\* A loop still runs over the whole of its list, and what it passed has run.
VisitedOK(s, ls, rs) ==
  \A k \in DOMAIN s : IsLoop(s[k]) =>
    /\ s[k].len = Len(ls[s[k].event])
    /\ \A i \in DOMAIN ls[s[k].event] : i < s[k].at => rs[ls[s[k].event][i]] >= 1

LEMMA VisitedPush ==
  ASSUME NEW s \in Seq(Frames), NEW ls \in [Events -> Seq(Listeners)],
         NEW rs, VisitedOK(s, ls, rs),
         NEW f \in Frames, IsLoop(f) => f.at = 1 /\ f.len = Len(ls[f.event])
  PROVE  VisitedOK(Append(s, f), ls, rs)
<1> DEFINE t == Append(s, f)
<1>1. /\ DOMAIN s = 1 .. Len(s) /\ Len(s) \in Nat /\ DOMAIN t = 1 .. Len(s) + 1
      /\ t[Len(s) + 1] = f /\ \A i \in DOMAIN s : t[i] = s[i]
  BY PushProps, LenProperties
<1>2. \A i \in DOMAIN t : i \in DOMAIN s \/ i = Len(s) + 1
  BY <1>1
<1> HIDE DEF t
<1>3. f.event \in Events
  BY DEF Frames
<1>4. \A i \in DOMAIN ls[f.event] : ~(i < 1)
  BY <1>3, LenProperties
<1>5. VisitedOK(t, ls, rs)
  BY <1>1, <1>2, <1>4 DEF VisitedOK
<1> QED BY <1>5 DEF t

LEMMA VisitedPop ==
  ASSUME NEW s \in Seq(Frames), NEW ls, NEW rs, VisitedOK(s, ls, rs), s # <<>>
  PROVE  VisitedOK(Pop(s), ls, rs)
<1>1. /\ DOMAIN Pop(s) \subseteq DOMAIN s
      /\ \A i \in DOMAIN Pop(s) : Pop(s)[i] = s[i]
  BY PopFrames
<1> QED BY <1>1 DEF VisitedOK

\* A list may change when no loop runs over it.
LEMMA VisitedIdle ==
  ASSUME NEW s \in Seq(Frames), NEW ls \in [Events -> Seq(Listeners)], NEW rs,
         VisitedOK(s, ls, rs), NEW e \in Events, NEW v,
         \A k \in DOMAIN s : ~IteratesOver(s[k], e)
  PROVE  VisitedOK(s, [ls EXCEPT ![e] = v], rs)
<1> DEFINE ms == [ls EXCEPT ![e] = v]
<1>1. \A k \in DOMAIN s : IsLoop(s[k]) => ms[s[k].event] = ls[s[k].event]
  BY FrameTypes DEF IteratesOver, IsLoop
<1> HIDE DEF ms
<1>2. VisitedOK(s, ms, rs)
  BY <1>1 DEF VisitedOK
<1> QED BY <1>2 DEF ms

VisitedInv == VisitedOK(stack, listeners, runs)

LEMMA AnnounceVisited ==
  ASSUME TypeInv, VisitedInv, NEW news \in Events, NEW kind \in {"add", "remove"},
         NEW e \in Events, NEW l \in Listeners, Announce(news, kind, e, l), runs' = runs
  PROVE  VisitedInv'
<1> DEFINE f == Frame(kind, e, l, 0)
           g == Frame("emit", news, NoListener, Len(listeners[news]))
<1>1. stack \in Seq(Frames) /\ listeners \in [Events -> Seq(Listeners)]
  BY DEF TypeInv, TypeOK
<1>2. /\ f \in Frames /\ ~IsLoop(f) /\ g \in Frames
      /\ g.at = 1 /\ g.event = news /\ g.len = Len(listeners[news])
  BY <1>1, WaitingFrame, NewFrame DEF Frame, IsLoop
<1>3. listeners' = listeners /\ (stack' = stack \/ stack' = Append(Append(stack, f), g))
  BY DEF Announce
<1> HIDE DEF f, g
<1>4. Append(stack, f) \in Seq(Frames) /\ VisitedOK(Append(stack, f), listeners, runs)
  BY <1>1, <1>2, PushProps, VisitedPush DEF VisitedInv
<1>5. VisitedOK(Append(Append(stack, f), g), listeners, runs)
  BY <1>1, <1>2, <1>4, VisitedPush
<1> QED BY <1>3, <1>5 DEF VisitedInv

LEMMA VisitedNext ==
  ASSUME ~MayReenter
  PROVE  TypeInv /\ NoInterference /\ VisitedInv /\ [Next]_vars => VisitedInv'
<1> SUFFICES ASSUME TypeInv, NoInterference, VisitedInv, [Next]_vars PROVE VisitedInv'
  OBVIOUS
<1>a. /\ listeners \in [Events -> Seq(Listeners)] /\ stack \in Seq(Frames)
      /\ runs \in [Listeners -> 0 .. 2] /\ VisitedOK(stack, listeners, runs)
  BY DEF TypeInv, TypeOK, VisitedInv
<1>f. ASSUME stack # <<>>
      PROVE  /\ Pop(stack) \in Seq(Frames) /\ VisitedOK(Pop(stack), listeners, runs)
             /\ Top \in Frames /\ Top.event \in Events /\ Len(stack) \in DOMAIN stack
  BY <1>a, <1>f, PopFrames, VisitedPop, FrameTypes DEF Top
<1>g. ASSUME stack # <<>>
      PROVE  \A i \in DOMAIN Pop(stack) :
               Pop(stack)[i].kind # "add" => ~Changes(Top, Pop(stack)[i].event, listeners)
  BY <1>a, <1>g, SoundPop DEF Top, NoInterference
\* A step that changes one list, over which none of the remaining calls runs.
<1>h. ASSUME NEW s \in Seq(Frames), Sound(s, listeners), VisitedOK(s, listeners, runs),
             NEW e \in Events, \A k \in DOMAIN s : ~IteratesOver(s[k], e),
             NEW v, listeners' = [listeners EXCEPT ![e] = v],
             stack' \in {s, Moved(s, e)}, runs' = runs
      PROVE  VisitedInv'
  <2>1. stack' = s
    BY <1>a, <1>h, SoundIdle
  <2>2. VisitedOK(s, listeners', runs)
    BY <1>a, <1>h, VisitedIdle
  <2> QED BY <1>h, <2>1, <2>2 DEF VisitedInv
<1>1. ASSUME NEW e \in Events, Emit(e) PROVE VisitedInv'
  <2> DEFINE f == Frame("emit", e, NoListener, Len(listeners[e]))
  <2>1. UNCHANGED <<listeners, runs>> /\ (stack' = stack \/ stack' = Append(stack, f))
    BY <1>1 DEF Emit
  <2>2. f \in Frames /\ f.at = 1 /\ f.event = e /\ f.len = Len(listeners[e])
    BY <1>a, NewFrame DEF Frame
  <2> HIDE DEF f
  <2>3. VisitedOK(Append(stack, f), listeners, runs)
    BY <1>a, <2>2, VisitedPush
  <2> QED BY <1>a, <2>1, <2>3 DEF VisitedInv
<1>2. ASSUME NEW e \in Events, NEW l \in Listeners, AddListener(e, l) PROVE VisitedInv'
  <2>1. runs' = runs /\ \A i \in DOMAIN stack : ~IteratesOver(stack[i], e)
    BY <1>2 DEF AddListener, MayMutate, Held, IteratesOver
  <2>2. CASE UNCHANGED <<listeners, stack>>
    BY <2>1, <2>2 DEF VisitedInv
  <2>3. CASE EmplaceBack(e, l, stack)
    BY <1>a, <1>h, <2>1, <2>3 DEF EmplaceBack, NoInterference
  <2>4. CASE Announce(ListenerAdded, "add", e, l)
    BY <2>1, <2>4, NamesAssumption, AnnounceVisited
  <2> QED BY <1>2, <2>2, <2>3, <2>4 DEF AddListener
<1>3. CASE CompleteAdd
  <2>1. /\ stack # <<>> /\ Top.kind = "add" /\ runs' = runs
        /\ EmplaceBack(Top.event, Top.who, Pop(stack))
    BY <1>3 DEF CompleteAdd
  <2>2. \A i \in DOMAIN Pop(stack) : ~IteratesOver(Pop(stack)[i], Top.event)
    BY <1>g, <2>1 DEF Changes, IteratesOver
  <2>3. Sound(Pop(stack), listeners)
    BY <1>a, <2>1, SoundPop DEF NoInterference
  <2> QED BY <1>f, <1>h, <2>1, <2>2, <2>3 DEF EmplaceBack
<1>4. ASSUME NEW e \in Events, NEW l \in Listeners, RemoveListener(e, l) PROVE VisitedInv'
  BY <1>4, NamesAssumption, AnnounceVisited DEF RemoveListener, VisitedInv
<1>5. CASE CompleteRemove
  <2>1. stack # <<>> /\ Top.kind = "remove" /\ Top.refs = "valid" /\ runs' = runs
    BY <1>a, <1>5, SoundPop DEF CompleteRemove, NoInterference, Top
  <2>2. \A i \in DOMAIN Pop(stack) : ~IteratesOver(Pop(stack)[i], Top.event)
    BY <1>g, <2>1 DEF Changes, IteratesOver
  <2>3. Sound(Pop(stack), listeners)
    BY <1>a, <2>1, SoundPop DEF NoInterference
  <2>4. listeners' = [listeners EXCEPT ![Top.event] = Without(@, Top.who)]
        /\ stack' = Moved(Pop(stack), Top.event)
    BY <1>5, <2>1 DEF CompleteRemove
  <2> QED BY <1>f, <1>h, <2>1, <2>2, <2>3, <2>4
<1>6. CASE RemoveAllListeners
  <2>1. DOMAIN stack' = {}
    BY <1>6 DEF RemoveAllListeners, Gone
  <2> QED BY <2>1 DEF VisitedInv, VisitedOK
<1>7. ASSUME NEW e \in Events, RemoveAllListenersOf(e) PROVE VisitedInv'
  <2>1. /\ runs' = runs /\ \A i \in DOMAIN stack : ~IteratesOver(stack[i], e)
        /\ listeners' = [listeners EXCEPT ![e] = <<>>] /\ stack' = Moved(stack, e)
    BY <1>7 DEF RemoveAllListenersOf, MayMutate, Held, IteratesOver
  <2> QED BY <1>a, <1>h, <2>1 DEF NoInterference
<1>8. ASSUME NEW n \in MaxChoices, SetMaxListeners(n) PROVE VisitedInv'
  BY <1>8 DEF SetMaxListeners, VisitedInv
<1>9. CASE CallNext
  <2> DEFINE e == Top.event
             p == Top.at
             l == listeners[e][p]
             f == [Top EXCEPT !.who = l, !.at = @ + 1]
             n == IF runs[l] = 2 THEN 2 ELSE runs[l] + 1
  <2>1. stack # <<>> /\ IsLoop(Top) /\ Top.refs = "valid" /\ p <= Top.len
    BY <1>a, <1>9, SoundPop DEF CallNext, InLoop, NoInterference, Top
  <2>2. /\ listeners' = listeners
        /\ runs' = [runs EXCEPT ![l] = n] /\ stack' = [stack EXCEPT ![Len(stack)] = f]
    BY <1>a, <1>f, <1>9, <2>1 DEF CallNext, Top, Frames
  <2>3. /\ e \in Events /\ p \in Nat \ {0} /\ f.event = e /\ f.at = p + 1
        /\ f.kind = Top.kind /\ f.len = Top.len
    BY <1>f, <2>1 DEF Frames
  <2>4. \A k \in DOMAIN stack' : k \in DOMAIN stack /\ stack'[k] = IF k = Len(stack) THEN f ELSE stack[k]
    BY <2>2
  <2>5. \A m \in Listeners : (m = l \/ runs[m] >= 1) => runs'[m] >= 1
    BY <1>a, <2>2
  <2>6. \A x \in Events : \A i \in DOMAIN listeners[x] : listeners[x][i] \in Listeners /\ i \in Nat
    BY <1>a, LenProperties, ElementOfSeq
  <2> HIDE DEF f, n
  <2>7. ASSUME NEW k \in DOMAIN stack', IsLoop(stack'[k])
        PROVE  /\ stack'[k].len = Len(listeners[stack'[k].event])
               /\ \A i \in DOMAIN listeners[stack'[k].event] :
                    i < stack'[k].at => runs'[listeners[stack'[k].event][i]] >= 1
    <3>1. CASE k = Len(stack)
      <4>1. /\ Top.len = Len(listeners[e])
            /\ \A i \in DOMAIN listeners[e] : i < p => runs[listeners[e][i]] >= 1
        BY <1>a, <1>f, <2>1 DEF VisitedOK, Top
      <4>2. \A i \in DOMAIN listeners[e] : i < p + 1 => i < p \/ i = p
        BY <2>3, <2>6
      <4>3. \A i \in DOMAIN listeners[e] : i < p + 1 => runs'[listeners[e][i]] >= 1
        BY <2>3, <2>5, <2>6, <4>1, <4>2
      <4> QED BY <2>3, <2>4, <3>1, <4>1, <4>3
    <3>2. CASE k # Len(stack)
      <4>1. stack'[k] = stack[k] /\ stack[k].event \in Events
        BY <1>a, <2>4, <3>2, FrameTypes
      <4> QED BY <1>a, <2>4, <2>5, <2>6, <2>7, <4>1 DEF VisitedOK
    <3> QED BY <3>1, <3>2
  <2> QED BY <2>2, <2>7 DEF VisitedInv, VisitedOK
<1>10. CASE Return
  <2> DEFINE f == [Top EXCEPT !.who = NoListener]
  <2>1. /\ stack # <<>> /\ UNCHANGED <<listeners, runs>>
        /\ stack' = [stack EXCEPT ![Len(stack)] = f]
    BY <1>a, <1>f, <1>10 DEF Return, Top, Frames
  <2>2. f.kind = Top.kind /\ f.event = Top.event /\ f.at = Top.at /\ f.len = Top.len
    BY <1>f, <2>1 DEF Frames
  <2>3. DOMAIN stack' = DOMAIN stack /\ \A i \in DOMAIN stack :
          stack'[i] = IF i = Len(stack) THEN f ELSE stack[i]
    BY <2>1
  <2> HIDE DEF f
  <2>4. \A i \in DOMAIN stack : /\ stack'[i].kind = stack[i].kind /\ stack'[i].at = stack[i].at
                                /\ stack'[i].event = stack[i].event /\ stack'[i].len = stack[i].len
    BY <2>1, <2>2, <2>3 DEF Top
  <2> QED BY <1>a, <2>1, <2>3, <2>4 DEF VisitedInv, VisitedOK, IsLoop
<1>11. CASE Throw
  <2>1. stack # <<>> /\ UNCHANGED <<listeners, runs>>
        /\ (stack' = Pop(stack) \/ (Pop(stack) # <<>> /\ stack' = Pop(Pop(stack))))
    BY <1>11 DEF Throw
  <2> QED BY <1>f, <2>1, VisitedPop DEF VisitedInv
<1>12. CASE Finish
  <2> DEFINE e == Top.event
             v == Purged(listeners[e])
             companion == SelfDestruct[e]
             lists == IF HasOnce(e) THEN [listeners EXCEPT ![e] = v] ELSE listeners
             rest == IF HasOnce(e) THEN Moved(Pop(stack), e) ELSE Pop(stack)
             f == Frame("destroy", companion, NoListener, Len(lists[companion]))
  <2>1. stack # <<>> /\ IsLoop(Top) /\ runs' = runs /\ Top.refs = "valid"
    BY <1>a, <1>12, SoundPop DEF Finish, InLoop, NoInterference, Top
  <2>2. /\ listeners' = lists
        /\ \/ Top.kind = "emit" /\ companion \in keys /\ stack' = Append(rest, f)
           \/ stack' = rest
    BY <1>12, <2>1 DEF Finish
  <2>3. HasOnce(e) => \A i \in DOMAIN Pop(stack) : ~IteratesOver(Pop(stack)[i], e)
    BY <1>f, <1>g, <2>1 DEF IteratesOver, Changes, HasOnce, IsLoop, Claims
  <2>4. rest = Pop(stack)
    BY <1>a, <1>f, <2>1, <2>3, SoundIdle, SoundPop DEF NoInterference
  <2>5. lists \in [Events -> Seq(Listeners)]
    BY <1>a, <1>f, <2>1, PurgedWithin
  <2>6. Top.kind = "emit" /\ companion \in keys
          => f \in Frames /\ f.at = 1 /\ f.event = companion /\ f.len = Len(lists[companion])
    BY <2>5, NewFrame DEF Frame, TypeInv, TypeOK
  <2>7. VisitedOK(Pop(stack), lists, runs)
    BY <1>a, <1>f, <2>1, <2>3, VisitedIdle
  <2> HIDE DEF lists, rest, f
  <2>8. VisitedOK(stack', lists, runs)
    BY <1>f, <2>1, <2>2, <2>4, <2>5, <2>6, <2>7, VisitedPush
  <2> QED BY <2>1, <2>2, <2>8 DEF VisitedInv
<1>13. CASE UNCHANGED vars
  BY <1>13 DEF vars, VisitedInv
<1> QED
  BY <1>1, <1>2, <1>3, <1>4, <1>5, <1>6, <1>7, <1>8, <1>9, <1>10, <1>11, <1>12, <1>13
  DEF Next, UserCall

\* What a loop takes out of its list at the end is what it has called.
LEMMA PurgeAfterRun ==
  ASSUME TypeInv, NoInterference, VisitedInv, Finish,
         NEW e \in Events, NEW l \in Once, InList(e, l),
         l \notin {listeners'[e][i] : i \in DOMAIN listeners'[e]}
  PROVE  runs[l] >= 1
<1>1. /\ listeners \in [Events -> Seq(Listeners)] /\ stack \in Seq(Frames)
      /\ stack # <<>> /\ IsLoop(Top) /\ Top.refs = "valid" /\ Top.at > Top.len
  BY SoundPop DEF Finish, InLoop, NoInterference, Top, TypeInv, TypeOK
<1>2. Len(stack) \in DOMAIN stack /\ Top \in Frames
  BY <1>1, PopFrames, FrameTypes DEF Top
<1>3. listeners' = listeners \/ listeners' = [listeners EXCEPT ![Top.event] = Purged(@)]
  BY <1>1 DEF Finish
<1>4. PICK i \in DOMAIN listeners[e] : listeners[e][i] = l
  BY DEF InList
<1>5. listeners'[e] # listeners[e]
  BY <1>4
<1>6. e = Top.event
  BY <1>1, <1>3, <1>5
<1>7. /\ Top.len = Len(listeners[e])
      /\ \A j \in DOMAIN listeners[e] : j < Top.at => runs[listeners[e][j]] >= 1
  BY <1>1, <1>2, <1>6 DEF VisitedInv, VisitedOK, Top
<1>8. i \in 1 .. Len(listeners[e]) /\ Len(listeners[e]) \in Nat /\ Top.at \in Nat
  BY <1>1, <1>2, <1>4, LenProperties DEF Frames
<1>9. i < Top.at
  BY <1>1, <1>7, <1>8
<1> QED BY <1>4, <1>7, <1>9

\* No run-once listener is purged uncalled: on_next_* forgets nobody to whom the
\* event was not delivered.
THEOREM OnceListenersAreCalled ==
  ASSUME ~MayReenter
  PROVE  Spec => OncePurgedAfterRun
<1>1. Init => VisitedInv /\ NoInterference
  BY DEF Init, VisitedInv, VisitedOK, NoInterference, Sound
<1>2. TypeInv /\ NoInterference /\ VisitedInv =>
        (Finish => \A e \in Events, l \in Once :
                     InList(e, l) /\ l \notin {listeners'[e][i] : i \in DOMAIN listeners'[e]}
                       => runs[l] >= 1)
  BY PurgeAfterRun
<1> QED BY <1>1, <1>2, TypeInvInit, TypeInvNext, NoInterferenceNext, VisitedNext, PTL
    DEF Spec, OncePurgedAfterRun

-----------------------------------------------------------------------------
(* Events.  What every event is emitted with, but for delegate_to without   *)
(* arguments.                                                                *)
Signatures == [
  error |-> <<"Error">>, exit |-> <<"OptionalError">>, client_error |-> <<"Error">>,
  listener_added |-> <<"string_view", "Callback">>,
  listener_removed |-> <<"string_view", "Callback">>,
  write_completion |-> <<"self">>, all_writes_completed |-> <<"self">>,
  data_received |-> <<"buffer", "bool">>, eof |-> <<>>, closed |-> <<>>,
  connect |-> <<>>, timeout |-> <<>>, request_made |-> <<"request", "response">>,
  client_connected |-> <<"connection">>, connection |-> <<"socket">>,
  listening |-> <<"EndPoint">>, resolved |-> <<"iterator">>]

\* The functions whose listeners want an argument of an event without any.
BareFit == {"on_eof", "on_next_eof", "on_closed_self"}
\* What NullOnlyBehindTheProgram calls the library's own listeners.
LibraryFns == {"start", "handle_connection", "erase", "delegate_to"}

\* What a registering function declares.
Declares(fn, d) ==
  /\ d.event \in EventNames
  /\ d.takes \in {<<>>, Signatures[d.event]} \/ fn \in NeverFit
  /\ Signatures[d.event] = <<>> /\ d.takes # <<>> => fn \in BareFit
  /\ d.event = "listener_added" => fn \in NeverFit

ListenerTables ==
  {StandardListeners, WritableListeners, ReadableListeners, StreamListeners,
   ConnectionListeners, ServerListeners, NetServerListeners, SiteListeners, DnsListeners, <<>>}
EmitTables ==
  {StandardEmits, WritableEmits, ReadableEmits, StreamEmits, ConnectionEmits,
   ServerEmits, NetServerEmits, SiteEmits, DnsEmits, <<>>}

LEMMA SignaturesFit == DOMAIN Signatures = EventNames
  BY DEF Signatures, EventNames

LEMMA TablesOf ==
  ASSUME NEW o \in Objects
  PROVE  Functions(o, 1) \subseteq ListenerTables /\ Functions(o, 2) \subseteq EmitTables
<1>1. Own(o)[1] \in ListenerTables /\ Own(o)[2] \in EmitTables
  BY DEF Own, Objects, ListenerTables, EmitTables
<1>2. Inherited(o, 1) \subseteq ListenerTables /\ Inherited(o, 2) \subseteq EmitTables
  BY DEF Inherited, ListenerTables, EmitTables
<1> QED BY <1>1, <1>2 DEF Functions

\* An emitting function passes what its event's listeners are to take.
Built(e) == e \in {Gives(e.event, e.passes), Lends(e.event, e.passes)}
Announces(e) == e.event \in EventNames /\ e.passes = Signatures[e.event] /\ Built(e)

\* Every function declares its event's signature, or never fits.
LEMMA TablesDeclare ==
  \A table \in ListenerTables : \A fn \in DOMAIN table :
    Declares(fn, table[fn]) /\ fn \notin LibraryFns
<1>1. \A fn \in DOMAIN StandardListeners :
        Declares(fn, StandardListeners[fn]) /\ fn \notin LibraryFns
  BY DEF StandardListeners, Always, Next1, Declares, Signatures, EventNames, NeverFit, BareFit,
         LibraryFns
<1>2. \A fn \in DOMAIN WritableListeners :
        Declares(fn, WritableListeners[fn]) /\ fn \notin LibraryFns
  BY DEF WritableListeners, Always, Next1, Declares, Signatures, EventNames, NeverFit, BareFit,
         LibraryFns
<1>3. \A fn \in DOMAIN ReadableListeners :
        Declares(fn, ReadableListeners[fn]) /\ fn \notin LibraryFns
  BY DEF ReadableListeners, Always, Next1, Declares, Signatures, EventNames, NeverFit, BareFit,
         LibraryFns
<1>4. \A fn \in DOMAIN StreamListeners :
        Declares(fn, StreamListeners[fn]) /\ fn \notin LibraryFns
  BY DEF StreamListeners, Always, Next1, Declares, Signatures, EventNames, NeverFit, BareFit,
         LibraryFns
<1>5. \A fn \in DOMAIN ConnectionListeners :
        Declares(fn, ConnectionListeners[fn]) /\ fn \notin LibraryFns
  BY DEF ConnectionListeners, Always, Next1, Declares, Signatures, EventNames, NeverFit, BareFit,
         LibraryFns
<1>6. \A fn \in DOMAIN ServerListeners :
        Declares(fn, ServerListeners[fn]) /\ fn \notin LibraryFns
  BY DEF ServerListeners, Always, Next1, Declares, Signatures, EventNames, NeverFit, BareFit,
         LibraryFns
<1>7. \A fn \in DOMAIN NetServerListeners :
        Declares(fn, NetServerListeners[fn]) /\ fn \notin LibraryFns
  BY DEF NetServerListeners, Always, Next1, Declares, Signatures, EventNames, NeverFit, BareFit,
         LibraryFns
<1>8. \A fn \in DOMAIN SiteListeners :
        Declares(fn, SiteListeners[fn]) /\ fn \notin LibraryFns
  BY DEF SiteListeners, Always, Next1, Declares, Signatures, EventNames, NeverFit, BareFit,
         LibraryFns
<1>9. \A fn \in DOMAIN DnsListeners :
        Declares(fn, DnsListeners[fn]) /\ fn \notin LibraryFns
  BY DEF DnsListeners, Always, Next1, Declares, Signatures, EventNames, NeverFit, BareFit,
         LibraryFns
<1>10. \A fn \in DOMAIN <<>> : FALSE
  OBVIOUS
<1> QED BY <1>1, <1>2, <1>3, <1>4, <1>5, <1>6, <1>7, <1>8, <1>9, <1>10, Zenon DEF ListenerTables

LEMMA GivesAnnounces ==
  \A event \in EventNames : \A passes : passes = Signatures[event] => Announces(Gives(event, passes))
  BY DEF Announces, Built, Gives

LEMMA LendsAnnounces ==
  \A event \in EventNames : \A passes :
    /\ Built(Lends(event, passes))
    /\ Lends(event, passes).event = event /\ Lends(event, passes).passes = passes
    /\ passes = Signatures[event] => Announces(Lends(event, passes))
  BY DEF Announces, Built, Lends

LEMMA TablesEmit ==
  \A table \in EmitTables : \A fn \in DOMAIN table :
    Announces(table[fn])
<1>1. \A fn \in DOMAIN StandardEmits :
        Announces(StandardEmits[fn])
  BY GivesAnnounces, LendsAnnounces DEF StandardEmits, Says, Signatures, EventNames
<1>2. \A fn \in DOMAIN WritableEmits :
        Announces(WritableEmits[fn])
  BY GivesAnnounces, LendsAnnounces DEF WritableEmits, Says, Signatures, EventNames
<1>3. \A fn \in DOMAIN ReadableEmits :
        Announces(ReadableEmits[fn])
  BY GivesAnnounces, LendsAnnounces DEF ReadableEmits, Says, Signatures, EventNames
<1>4. \A fn \in DOMAIN StreamEmits :
        Announces(StreamEmits[fn])
  BY GivesAnnounces, LendsAnnounces DEF StreamEmits, Says, Signatures, EventNames
<1>5. \A fn \in DOMAIN ConnectionEmits :
        Announces(ConnectionEmits[fn])
  BY GivesAnnounces, LendsAnnounces DEF ConnectionEmits, Says, Signatures, EventNames
<1>6. \A fn \in DOMAIN ServerEmits :
        Announces(ServerEmits[fn])
  BY GivesAnnounces, LendsAnnounces DEF ServerEmits, Says, Signatures, EventNames
<1>7. \A fn \in DOMAIN NetServerEmits :
        Announces(NetServerEmits[fn])
  BY GivesAnnounces, LendsAnnounces DEF NetServerEmits, Says, Signatures, EventNames
<1>8. \A fn \in DOMAIN SiteEmits :
        Announces(SiteEmits[fn])
  BY GivesAnnounces, LendsAnnounces DEF SiteEmits, Says, Signatures, EventNames
<1>9. \A fn \in DOMAIN DnsEmits :
        Announces(DnsEmits[fn])
  BY GivesAnnounces, LendsAnnounces DEF DnsEmits, Says, Signatures, EventNames
<1>10. \A fn \in DOMAIN <<>> : FALSE
  OBVIOUS
<1> QED BY <1>1, <1>2, <1>3, <1>4, <1>5, <1>6, <1>7, <1>8, <1>9, <1>10, Zenon DEF EmitTables

-----------------------------------------------------------------------------
(* What a listener is by itself.                                            *)
Closing(o) ==
  Listener(Closers[o], o, WritableListeners.on_all_writes_completed,
           "crashes", "stream", ReadableEmits.emit_closed, "")
\* Deliveries lead from place to place, and never back: the events of writes and
\* data go from the stream up to the site, errors too, and a closed stream comes
\* after all that.
Bases == [net_server |-> 1, stream |-> 1, dns |-> 1, response |-> 2, connection |-> 2,
          server |-> 3, static |-> 3, site |-> 4, web |-> 5]
Place(o, event) ==
  IF event = "exit" THEN IF o = "site" THEN 0 ELSE 1
                    ELSE IF event = "closed" THEN Bases[o] + 10 ELSE Bases[o]

\* An emit passes its event's signature, but for delegate_to without arguments.
Comes(o, event, passes) ==
  \/ passes = Signatures[event]
  \/ passes = <<>> /\ event \in {"error", "exit"} /\ o \in {"site", "static", "web"}

\* Where one listener of the library takes what is emitted and cannot do
\* without it, and which set-up registers it.
Sole == {<<"net_server", "connection", "server">>, <<"stream", "data_received", "connection">>,
         <<"server", "client_connected", "site">>, <<"connection", "request_made", "requests">>}
At(l, s) == l.on = s[1] /\ l.event = s[2]

LeadsOn(l) ==
  l.to # "" =>
    /\ l.to \in Objects /\ l.emit.event \in EventNames /\ Built(l.emit)
    /\ Comes(l.to, l.emit.event, l.emit.passes)
    /\ Place(l.on, l.event) < Place(l.to, l.emit.event)

Needs(l) ==
  /\ l.null \in {"ignores", "crashes", "throws"}
  /\ l.null # "ignores" =>
       \/ l.fn = "stream_closes"
       \/ l.fn = "response_closes" /\ l.on = "response" /\ l.event = "all_writes_completed"
       \/ l.fn \in LibraryFns /\ \E s \in Sole : At(l, s)
  /\ l.on = "response" => l.fn \notin LibraryFns

SoundListener(l) ==
  /\ l.on \in Objects /\ Declares(l.fn, l) /\ LeadsOn(l) /\ Needs(l)

LEMMA ListenerFields ==
  ASSUME NEW fn, NEW on, NEW d, NEW null, NEW to, NEW emit, NEW sets,
         NEW l, l = Listener(fn, on, d, null, to, emit, sets)
  PROVE  /\ l.fn = fn /\ l.on = on /\ l.null = null /\ l.to = to /\ l.emit = emit
         /\ l.sets = sets /\ l.event = d.event /\ l.takes = d.takes /\ l.once = d.once
  BY DEF Listener

LEMMA ProgramsAreSound ==
  ASSUME NEW table \in ListenerTables, NEW fn \in DOMAIN table, NEW o \in Objects
  PROVE  SoundListener(Programs(fn, o, table[fn])) /\ Programs(fn, o, table[fn]).fn \notin LibraryFns
<1> DEFINE l == Programs(fn, o, table[fn])
<1>1. /\ l.fn = fn /\ l.on = o /\ l.null = "ignores" /\ l.to = ""
      /\ l.event = table[fn].event /\ l.takes = table[fn].takes /\ l.once = table[fn].once
  BY DEF Programs, Listener
<1>2. Declares(fn, table[fn]) /\ fn \notin LibraryFns
  BY TablesDeclare
<1> HIDE DEF l
<1>3. Declares(l.fn, l)
  BY <1>1, <1>2 DEF Declares
<1> QED BY <1>1, <1>2, <1>3 DEF SoundListener, LeadsOn, Needs, l

LEMMA ClosersAreSound ==
  ASSUME NEW o \in {"stream", "response"}
  PROVE  SoundListener(Closing(o)) /\ Closing(o).fn \notin LibraryFns
<1> DEFINE l == Closing(o)
<1>1. /\ l.fn = Closers[o] /\ l.on = o /\ l.null = "crashes" /\ l.to = "stream"
      /\ l.event = "all_writes_completed" /\ l.takes = <<"self">> /\ l.once = FALSE
      /\ l.emit = Lends("closed", <<>>)
  BY DEF Closing, Listener, WritableListeners, ReadableEmits, Always, Says
<1> HIDE DEF l
<1>2. Declares(l.fn, l)
  BY <1>1 DEF Declares, EventNames, Signatures
<1>3. LeadsOn(l)
  <2>1. l.emit.event = "closed" /\ l.emit.passes = <<>> /\ Built(l.emit)
    BY <1>1, LendsAnnounces DEF EventNames
  <2>2. Comes(l.to, l.emit.event, l.emit.passes)
    BY <2>1 DEF Comes, Signatures
  <2>3. Place("stream", "closed") = 11 /\ Place(o, "all_writes_completed") \in {1, 2}
    BY DEF Place, Bases
  <2> QED BY <1>1, <2>1, <2>2, <2>3 DEF LeadsOn, Objects, EventNames
<1>4. Needs(l) /\ l.fn \notin LibraryFns
  BY <1>1 DEF Needs, Closers, LibraryFns
<1> QED BY <1>1, <1>2, <1>3, <1>4 DEF SoundListener, Objects, l

LEMMA TakesSignature ==
  \A fn, d : d.event \in EventNames \ {"listener_added"} /\ d.takes = Signatures[d.event]
              => Declares(fn, d)
  BY DEF Declares

LEMMA OnErrorToIsSound ==
  ASSUME NEW o \in Objects, NEW to \in Objects, Bases[o] < Bases[to]
  PROVE  /\ SoundListener(OnErrorTo(o, to)) /\ OnErrorTo(o, to).fn = "on_error_to"
         /\ OnErrorTo(o, to).on = o /\ OnErrorTo(o, to).event = "error"
<1> DEFINE l == OnErrorTo(o, to)
<1>1. /\ l.fn = "on_error_to" /\ l.on = o /\ l.null = "ignores" /\ l.to = to
      /\ l.event = "error" /\ l.takes = <<"Error">> /\ l.emit = Gives("error", <<"Error">>)
  BY DEF OnErrorTo, Listener, StandardListeners, StandardEmits, Always
<1> HIDE DEF l
<1>2. Declares(l.fn, l)
  <2>1. Signatures["error"] = <<"Error">> /\ "error" \in EventNames \ {"listener_added"}
    BY DEF Signatures, EventNames
  <2> QED BY <1>1, <2>1, TakesSignature
<1>3. LeadsOn(l)
  <2>1. Announces(l.emit) /\ l.emit.event = "error"
    BY <1>1, GivesAnnounces DEF EventNames, Signatures, Gives
  <2>2. Comes(l.to, l.emit.event, l.emit.passes)
    BY <2>1 DEF Comes, Announces
  <2> QED BY <1>1, <2>1, <2>2 DEF LeadsOn, Place, Announces
<1>4. Needs(l)
  BY <1>1 DEF Needs, LibraryFns
<1> QED BY <1>1, <1>2, <1>3, <1>4 DEF SoundListener, l

LEMMA DelegateIsSound ==
  ASSUME NEW o \in Objects \ {"response"}, NEW to \in Objects,
         NEW event \in EventNames \ {"listener_added"}, NEW into \in EventNames,
         NEW types, types \in {<<>>, Signatures[event]},
         Signatures[event] # <<>> \/ types = <<>>,
         Comes(to, into, types), Place(o, event) < Place(to, into)
  PROVE  LET l == Delegate(o, event, types, to, into) IN
         SoundListener(l) /\ l.fn = "delegate_to" /\ l.on = o /\ l.event = event /\ l.takes = types
<1> DEFINE l == Delegate(o, event, types, to, into)
<1>1. /\ l.fn = "delegate_to" /\ l.on = o /\ l.null = "ignores" /\ l.to = to
      /\ l.event = event /\ l.takes = types /\ l.emit = Lends(into, types)
  BY DEF Delegate, Listener, Always
<1> HIDE DEF l
<1>2. Declares(l.fn, l)
  BY <1>1 DEF Declares
<1>3. LeadsOn(l)
  <2>1. Built(l.emit) /\ l.emit.event = into /\ l.emit.passes = types
    BY <1>1, LendsAnnounces
  <2> QED BY <1>1, <2>1 DEF LeadsOn
<1>4. Needs(l)
  BY <1>1 DEF Needs
<1> QED BY <1>1, <1>2, <1>3, <1>4 DEF SoundListener, l

LEMMA HandleConnectionIsSound ==
  LET l == Listener("handle_connection", "net_server", NetServerListeners.on_connection, "crashes",
           "server", ServerEmits.emit_client_connected, "connection") IN
  /\ SoundListener(l) /\ l.fn = "handle_connection" /\ l.on = "net_server"
  /\ l.event = "connection"
<1> DEFINE l == Listener("handle_connection", "net_server", NetServerListeners.on_connection, "crashes",
           "server", ServerEmits.emit_client_connected, "connection")
<1>1. /\ l.fn = "handle_connection" /\ l.on = "net_server" /\ l.null = "crashes" /\ l.to = "server"
      /\ l.event = "connection" /\ l.takes = <<"socket">>
      /\ l.emit = Gives("client_connected", <<"connection">>)
  BY DEF Listener, NetServerListeners, ServerEmits, Always
<1> HIDE DEF l
<1>2. Declares(l.fn, l)
  <2>1. Signatures["connection"] = <<"socket">> /\ "connection" \in EventNames \ {"listener_added"}
    BY DEF Signatures, EventNames
  <2> QED BY <1>1, <2>1, TakesSignature
<1>3. LeadsOn(l)
  <2>1. Announces(l.emit) /\ l.emit.event = "client_connected"
    BY <1>1, GivesAnnounces DEF EventNames, Signatures, Gives
  <2>2. Comes(l.to, l.emit.event, l.emit.passes)
    BY <2>1 DEF Comes, Announces
  <2>3. Place("net_server", "connection") < Place("server", "client_connected")
    BY DEF Place, Bases
  <2> QED BY <1>1, <2>1, <2>2, <2>3 DEF LeadsOn, Announces, Objects
<1>4. Needs(l)
  BY <1>1 DEF Needs, LibraryFns, Sole, At
<1> QED BY <1>1, <1>2, <1>3, <1>4 DEF SoundListener, Objects, l

LEMMA EraseIsSound ==
  LET l == Listener("erase", "connection", ConnectionListeners.on_closed, "ignores", "", Nothing, "") IN
  /\ SoundListener(l) /\ l.fn = "erase" /\ l.on = "connection"
  /\ l.event = "closed"
<1> DEFINE l == Listener("erase", "connection", ConnectionListeners.on_closed, "ignores", "", Nothing, "")
<1>1. /\ l.fn = "erase" /\ l.on = "connection" /\ l.null = "ignores" /\ l.to = ""
      /\ l.event = "closed" /\ l.takes = <<>>
  BY DEF Listener, ConnectionListeners, Next1
<1> HIDE DEF l
<1>2. Declares(l.fn, l)
  <2>1. Signatures["closed"] = <<>> /\ "closed" \in EventNames \ {"listener_added"}
    BY DEF Signatures, EventNames
  <2> QED BY <1>1, <2>1, TakesSignature
<1>3. LeadsOn(l)
  BY <1>1 DEF LeadsOn
<1>4. Needs(l)
  BY <1>1 DEF Needs, LibraryFns, Sole, At
<1> QED BY <1>1, <1>2, <1>3, <1>4 DEF SoundListener, Objects, l

LEMMA DataStartIsSound ==
  LET l == Listener("start", "stream", ReadableListeners.on_next_data_received, "throws",
           "connection", ConnectionEmits.emit_request_made, "response") IN
  /\ SoundListener(l) /\ l.fn = "start" /\ l.on = "stream"
  /\ l.event = "data_received"
<1> DEFINE l == Listener("start", "stream", ReadableListeners.on_next_data_received, "throws",
           "connection", ConnectionEmits.emit_request_made, "response")
<1>1. /\ l.fn = "start" /\ l.on = "stream" /\ l.null = "throws" /\ l.to = "connection"
      /\ l.event = "data_received" /\ l.takes = <<"buffer", "bool">>
      /\ l.emit = Lends("request_made", <<"request", "response">>)
  BY DEF Listener, ReadableListeners, ConnectionEmits, Next1
<1> HIDE DEF l
<1>2. Declares(l.fn, l)
  <2>1. Signatures["data_received"] = <<"buffer", "bool">> /\ "data_received" \in EventNames \ {"listener_added"}
    BY DEF Signatures, EventNames
  <2> QED BY <1>1, <2>1, TakesSignature
<1>3. LeadsOn(l)
  <2>1. Announces(l.emit) /\ l.emit.event = "request_made"
    BY <1>1, LendsAnnounces DEF EventNames, Signatures, Lends
  <2>2. Comes(l.to, l.emit.event, l.emit.passes)
    BY <2>1 DEF Comes, Announces
  <2>3. Place("stream", "data_received") < Place("connection", "request_made")
    BY DEF Place, Bases
  <2> QED BY <1>1, <2>1, <2>2, <2>3 DEF LeadsOn, Announces, Objects
<1>4. Needs(l)
  BY <1>1 DEF Needs, LibraryFns, Sole, At
<1> QED BY <1>1, <1>2, <1>3, <1>4 DEF SoundListener, Objects, l

LEMMA WriteStartIsSound ==
  LET l == Listener("start", "stream", WritableListeners.on_write_completion, "ignores",
           "response", WritableEmits.emit_write_completion, "") IN
  /\ SoundListener(l) /\ l.fn = "start" /\ l.on = "stream"
  /\ l.event = "write_completion"
<1> DEFINE l == Listener("start", "stream", WritableListeners.on_write_completion, "ignores",
           "response", WritableEmits.emit_write_completion, "")
<1>1. /\ l.fn = "start" /\ l.on = "stream" /\ l.null = "ignores" /\ l.to = "response"
      /\ l.event = "write_completion" /\ l.takes = <<"self">>
      /\ l.emit = Gives("write_completion", <<"self">>)
  BY DEF Listener, WritableListeners, WritableEmits, Always
<1> HIDE DEF l
<1>2. Declares(l.fn, l)
  <2>1. Signatures["write_completion"] = <<"self">> /\ "write_completion" \in EventNames \ {"listener_added"}
    BY DEF Signatures, EventNames
  <2> QED BY <1>1, <2>1, TakesSignature
<1>3. LeadsOn(l)
  <2>1. Announces(l.emit) /\ l.emit.event = "write_completion"
    BY <1>1, GivesAnnounces DEF EventNames, Signatures, Gives
  <2>2. Comes(l.to, l.emit.event, l.emit.passes)
    BY <2>1 DEF Comes, Announces
  <2>3. Place("stream", "write_completion") < Place("response", "write_completion")
    BY DEF Place, Bases
  <2> QED BY <1>1, <2>1, <2>2, <2>3 DEF LeadsOn, Announces, Objects
<1>4. Needs(l)
  BY <1>1 DEF Needs, LibraryFns, Sole, At
<1> QED BY <1>1, <1>2, <1>3, <1>4 DEF SoundListener, Objects, l

LEMMA AllWritesStartIsSound ==
  LET l == Listener("start", "stream", WritableListeners.on_all_writes_completed, "ignores",
           "response", WritableEmits.emit_all_writes_completed, "") IN
  /\ SoundListener(l) /\ l.fn = "start" /\ l.on = "stream"
  /\ l.event = "all_writes_completed"
<1> DEFINE l == Listener("start", "stream", WritableListeners.on_all_writes_completed, "ignores",
           "response", WritableEmits.emit_all_writes_completed, "")
<1>1. /\ l.fn = "start" /\ l.on = "stream" /\ l.null = "ignores" /\ l.to = "response"
      /\ l.event = "all_writes_completed" /\ l.takes = <<"self">>
      /\ l.emit = Gives("all_writes_completed", <<"self">>)
  BY DEF Listener, WritableListeners, WritableEmits, Always
<1> HIDE DEF l
<1>2. Declares(l.fn, l)
  <2>1. Signatures["all_writes_completed"] = <<"self">> /\ "all_writes_completed" \in EventNames \ {"listener_added"}
    BY DEF Signatures, EventNames
  <2> QED BY <1>1, <2>1, TakesSignature
<1>3. LeadsOn(l)
  <2>1. Announces(l.emit) /\ l.emit.event = "all_writes_completed"
    BY <1>1, GivesAnnounces DEF EventNames, Signatures, Gives
  <2>2. Comes(l.to, l.emit.event, l.emit.passes)
    BY <2>1 DEF Comes, Announces
  <2>3. Place("stream", "all_writes_completed") < Place("response", "all_writes_completed")
    BY DEF Place, Bases
  <2> QED BY <1>1, <2>1, <2>2, <2>3 DEF LeadsOn, Announces, Objects
<1>4. Needs(l)
  BY <1>1 DEF Needs, LibraryFns, Sole, At
<1> QED BY <1>1, <1>2, <1>3, <1>4 DEF SoundListener, Objects, l

LEMMA SiteStartIsSound ==
  LET l == Listener("start", "server", ServerListeners.on_client_connected, "crashes",
           "", Nothing, "requests") IN
  /\ SoundListener(l) /\ l.fn = "start" /\ l.on = "server"
  /\ l.event = "client_connected"
<1> DEFINE l == Listener("start", "server", ServerListeners.on_client_connected, "crashes",
           "", Nothing, "requests")
<1>1. /\ l.fn = "start" /\ l.on = "server" /\ l.null = "crashes" /\ l.to = ""
      /\ l.event = "client_connected" /\ l.takes = <<"connection">>
  BY DEF Listener, ServerListeners, Always
<1> HIDE DEF l
<1>2. Declares(l.fn, l)
  <2>1. Signatures["client_connected"] = <<"connection">> /\ "client_connected" \in EventNames \ {"listener_added"}
    BY DEF Signatures, EventNames
  <2> QED BY <1>1, <2>1, TakesSignature
<1>3. LeadsOn(l)
  BY <1>1 DEF LeadsOn
<1>4. Needs(l)
  BY <1>1 DEF Needs, LibraryFns, Sole, At
<1> QED BY <1>1, <1>2, <1>3, <1>4 DEF SoundListener, Objects, l

LEMMA RequestStartIsSound ==
  LET l == Listener("start", "connection", ConnectionListeners.on_request_made, "crashes",
           "", Nothing, "") IN
  /\ SoundListener(l) /\ l.fn = "start" /\ l.on = "connection"
  /\ l.event = "request_made"
<1> DEFINE l == Listener("start", "connection", ConnectionListeners.on_request_made, "crashes",
           "", Nothing, "")
<1>1. /\ l.fn = "start" /\ l.on = "connection" /\ l.null = "crashes" /\ l.to = ""
      /\ l.event = "request_made" /\ l.takes = <<"request", "response">>
  BY DEF Listener, ConnectionListeners, Always
<1> HIDE DEF l
<1>2. Declares(l.fn, l)
  <2>1. Signatures["request_made"] = <<"request", "response">> /\ "request_made" \in EventNames \ {"listener_added"}
    BY DEF Signatures, EventNames
  <2> QED BY <1>1, <2>1, TakesSignature
<1>3. LeadsOn(l)
  BY <1>1 DEF LeadsOn
<1>4. Needs(l)
  BY <1>1 DEF Needs, LibraryFns, Sole, At
<1> QED BY <1>1, <1>2, <1>3, <1>4 DEF SoundListener, Objects, l

-----------------------------------------------------------------------------
(* What a set-up registers.                                                  *)
SoleFn(l, s) == l.fn \in LibraryFns /\ At(l, s)

IsList(w, n) == DOMAIN w = 1 .. n /\ w \in Seq({w[i] : i \in 1 .. n})

LEMMA Two == \A a, b : IsList(<<a, b>>, 2)
<1> SUFFICES ASSUME NEW a, NEW b PROVE IsList(<<a, b>>, 2)
  OBVIOUS
<1> DEFINE w == <<a, b>>
<1>1. DOMAIN w = 1 .. 2 /\ w = [i \in 1 .. 2 |-> w[i]]
  OBVIOUS
<1> HIDE DEF w
<1>2. w \in [1 .. 2 -> {w[i] : i \in 1 .. 2}]
  BY <1>1
<1> QED BY <1>1, <1>2, SeqDef DEF IsList, w

LEMMA Three == \A a, b, c : IsList(<<a, b, c>>, 3)
<1> SUFFICES ASSUME NEW a, NEW b, NEW c PROVE IsList(<<a, b, c>>, 3)
  OBVIOUS
<1> DEFINE w == <<a, b, c>>
<1>1. DOMAIN w = 1 .. 3 /\ w = [i \in 1 .. 3 |-> w[i]]
  OBVIOUS
<1> HIDE DEF w
<1>2. w \in [1 .. 3 -> {w[i] : i \in 1 .. 3}]
  BY <1>1
<1> QED BY <1>1, <1>2, SeqDef DEF IsList, w

LEMMA Five == \A a, b, c, d, e : IsList(<<a, b, c, d, e>>, 5)
<1> SUFFICES ASSUME NEW a, NEW b, NEW c, NEW d, NEW e PROVE IsList(<<a, b, c, d, e>>, 5)
  OBVIOUS
<1> DEFINE w == <<a, b, c, d, e>>
<1>1. DOMAIN w = 1 .. 5 /\ w = [i \in 1 .. 5 |-> w[i]]
  OBVIOUS
<1> HIDE DEF w
<1>2. w \in [1 .. 5 -> {w[i] : i \in 1 .. 5}]
  BY <1>1
<1> QED BY <1>1, <1>2, SeqDef DEF IsList, w

SoundWires(w, name) ==
  /\ w \in Seq({w[i] : i \in DOMAIN w})
  /\ \A i \in DOMAIN w : SoundListener(w[i])
  /\ \A s \in Sole : \A i \in DOMAIN w : SoleFn(w[i], s) => s[3] = name
  /\ \A s \in Sole : \A i, j \in DOMAIN w : SoleFn(w[i], s) /\ SoleFn(w[j], s) => i = j

LEMMA ServerWiresAreSound == SoundWires(ServerWires, "server")
<1> DEFINE w == ServerWires
<1>1. SoundListener(w[1]) /\ w[1].fn = "handle_connection" /\ w[1].on = "net_server" /\ w[1].event = "connection"
  BY HandleConnectionIsSound DEF ServerWires
<1>2. SoundListener(w[2]) /\ w[2].fn = "on_error_to" /\ w[2].on = "net_server" /\ w[2].event = "error"
  <2>1. w[2] = OnErrorTo("net_server", "server")
    BY DEF ServerWires
  <2>2. Bases["net_server"] < Bases["server"] /\ "net_server" \in Objects /\ "server" \in Objects
    BY DEF Bases, Objects
  <2> HIDE DEF w
  <2> QED BY <2>1, <2>2, OnErrorToIsSound
<1>3. SoundListener(w[3]) /\ w[3].fn = "delegate_to" /\ w[3].on = "net_server" /\ w[3].event = "listening"
  <2>1. w[3] = Delegate("net_server", "listening", <<"EndPoint">>, "server", "listening")
    BY DEF ServerWires, Listening
  <2>2. /\ "net_server" \in Objects \ {"response"} /\ "server" \in Objects
        /\ "listening" \in EventNames \ {"listener_added"} /\ "listening" \in EventNames
    BY DEF Objects, EventNames
  <2>3. /\ <<"EndPoint">> \in {<<>>, Signatures["listening"]}
        /\ Signatures["listening"] # <<>> \/ <<"EndPoint">> = <<>>
        /\ Comes("server", "listening", <<"EndPoint">>)
    BY DEF Signatures, Comes
  <2>4. Place("net_server", "listening") < Place("server", "listening")
    BY DEF Place, Bases
  <2> HIDE DEF w
  <2> QED BY <2>1, <2>2, <2>3, <2>4, DelegateIsSound
<1>4. IsList(w, 3)
  BY Three DEF ServerWires
<1> HIDE DEF w
<1>5. w \in Seq({w[i] : i \in DOMAIN w}) /\ \A i \in DOMAIN w : i = 1 \/ i = 2 \/ i = 3
  BY <1>4 DEF IsList
<1>6. \A s \in Sole : SoleFn(w[1], s) => s[3] = "server"
  BY <1>1 DEF SoleFn, Sole, At, LibraryFns
<1>7. \A s \in Sole : SoleFn(w[2], s) => FALSE
  BY <1>2 DEF SoleFn, Sole, At, LibraryFns
<1>8. \A s \in Sole : SoleFn(w[3], s) => FALSE
  BY <1>3 DEF SoleFn, Sole, At, LibraryFns
<1>9. \A i \in DOMAIN w : SoundListener(w[i])
  BY <1>1, <1>2, <1>3, <1>5
<1>10. \A s \in Sole : \A i \in DOMAIN w : SoleFn(w[i], s) => s[3] = "server"
  BY <1>6, <1>7, <1>8, <1>5
<1>11. \A s \in Sole : \A i, j \in DOMAIN w : SoleFn(w[i], s) /\ SoleFn(w[j], s) => i = j
  BY <1>6, <1>7, <1>8, <1>5
<1> QED BY <1>5, <1>9, <1>10, <1>11 DEF SoundWires, w

LEMMA SiteWiresAreSound == SoundWires(SiteWires, "site")
<1> DEFINE w == SiteWires
<1>1. SoundListener(w[1]) /\ w[1].fn = "on_error_to" /\ w[1].on = "server" /\ w[1].event = "error"
  <2>1. w[1] = OnErrorTo("server", "site")
    BY DEF SiteWires
  <2>2. Bases["server"] < Bases["site"] /\ "server" \in Objects /\ "site" \in Objects
    BY DEF Bases, Objects
  <2> HIDE DEF w
  <2> QED BY <2>1, <2>2, OnErrorToIsSound
<1>2. SoundListener(w[2]) /\ w[2].fn = "delegate_to" /\ w[2].on = "server" /\ w[2].event = "listening"
  <2>1. w[2] = Delegate("server", "listening", <<"EndPoint">>, "site", "listening")
    BY DEF SiteWires, Listening
  <2>2. /\ "server" \in Objects \ {"response"} /\ "site" \in Objects
        /\ "listening" \in EventNames \ {"listener_added"} /\ "listening" \in EventNames
    BY DEF Objects, EventNames
  <2>3. /\ <<"EndPoint">> \in {<<>>, Signatures["listening"]}
        /\ Signatures["listening"] # <<>> \/ <<"EndPoint">> = <<>>
        /\ Comes("site", "listening", <<"EndPoint">>)
    BY DEF Signatures, Comes
  <2>4. Place("server", "listening") < Place("site", "listening")
    BY DEF Place, Bases
  <2> HIDE DEF w
  <2> QED BY <2>1, <2>2, <2>3, <2>4, DelegateIsSound
<1>3. SoundListener(w[3]) /\ w[3].fn = "start" /\ w[3].on = "server" /\ w[3].event = "client_connected"
  BY SiteStartIsSound DEF SiteWires
<1>4. IsList(w, 3)
  BY Three DEF SiteWires
<1> HIDE DEF w
<1>5. w \in Seq({w[i] : i \in DOMAIN w}) /\ \A i \in DOMAIN w : i = 1 \/ i = 2 \/ i = 3
  BY <1>4 DEF IsList
<1>6. \A s \in Sole : SoleFn(w[1], s) => FALSE
  BY <1>1 DEF SoleFn, Sole, At, LibraryFns
<1>7. \A s \in Sole : SoleFn(w[2], s) => FALSE
  BY <1>2 DEF SoleFn, Sole, At, LibraryFns
<1>8. \A s \in Sole : SoleFn(w[3], s) => s[3] = "site"
  BY <1>3 DEF SoleFn, Sole, At, LibraryFns
<1>9. \A i \in DOMAIN w : SoundListener(w[i])
  BY <1>1, <1>2, <1>3, <1>5
<1>10. \A s \in Sole : \A i \in DOMAIN w : SoleFn(w[i], s) => s[3] = "site"
  BY <1>6, <1>7, <1>8, <1>5
<1>11. \A s \in Sole : \A i, j \in DOMAIN w : SoleFn(w[i], s) /\ SoleFn(w[j], s) => i = j
  BY <1>6, <1>7, <1>8, <1>5
<1> QED BY <1>5, <1>9, <1>10, <1>11 DEF SoundWires, w

LEMMA ConnectionWiresAreSound == SoundWires(ConnectionWires, "connection")
<1> DEFINE w == ConnectionWires
<1>1. SoundListener(w[1]) /\ w[1].fn = "on_error_to" /\ w[1].on = "connection" /\ w[1].event = "error"
  <2>1. w[1] = OnErrorTo("connection", "server")
    BY DEF ConnectionWires
  <2>2. Bases["connection"] < Bases["server"] /\ "connection" \in Objects /\ "server" \in Objects
    BY DEF Bases, Objects
  <2> HIDE DEF w
  <2> QED BY <2>1, <2>2, OnErrorToIsSound
<1>2. SoundListener(w[2]) /\ w[2].fn = "erase" /\ w[2].on = "connection" /\ w[2].event = "closed"
  BY EraseIsSound DEF ConnectionWires
<1>3. SoundListener(w[3]) /\ w[3].fn = "start" /\ w[3].on = "stream" /\ w[3].event = "data_received"
  BY DataStartIsSound DEF ConnectionWires
<1>4. SoundListener(w[4]) /\ w[4].fn = "delegate_to" /\ w[4].on = "stream" /\ w[4].event = "closed"
  <2>1. w[4] = Delegate("stream", "closed", <<>>, "connection", "closed")
    BY DEF ConnectionWires
  <2>2. /\ "stream" \in Objects \ {"response"} /\ "connection" \in Objects
        /\ "closed" \in EventNames \ {"listener_added"} /\ "closed" \in EventNames
    BY DEF Objects, EventNames
  <2>3. /\ <<>> \in {<<>>, Signatures["closed"]}
        /\ Signatures["closed"] # <<>> \/ <<>> = <<>>
        /\ Comes("connection", "closed", <<>>)
    BY DEF Signatures, Comes
  <2>4. Place("stream", "closed") < Place("connection", "closed")
    BY DEF Place, Bases
  <2> HIDE DEF w
  <2> QED BY <2>1, <2>2, <2>3, <2>4, DelegateIsSound
<1>5. SoundListener(w[5]) /\ w[5].fn = "on_error_to" /\ w[5].on = "stream" /\ w[5].event = "error"
  <2>1. w[5] = OnErrorTo("stream", "connection")
    BY DEF ConnectionWires
  <2>2. Bases["stream"] < Bases["connection"] /\ "stream" \in Objects /\ "connection" \in Objects
    BY DEF Bases, Objects
  <2> HIDE DEF w
  <2> QED BY <2>1, <2>2, OnErrorToIsSound
<1>6. IsList(w, 5)
  BY Five DEF ConnectionWires
<1> HIDE DEF w
<1>7. w \in Seq({w[i] : i \in DOMAIN w}) /\ \A i \in DOMAIN w : i = 1 \/ i = 2 \/ i = 3 \/ i = 4 \/ i = 5
  BY <1>6 DEF IsList
<1>8. \A s \in Sole : SoleFn(w[1], s) => FALSE
  BY <1>1 DEF SoleFn, Sole, At, LibraryFns
<1>9. \A s \in Sole : SoleFn(w[2], s) => FALSE
  BY <1>2 DEF SoleFn, Sole, At, LibraryFns
<1>10. \A s \in Sole : SoleFn(w[3], s) => s[3] = "connection"
  BY <1>3 DEF SoleFn, Sole, At, LibraryFns
<1>11. \A s \in Sole : SoleFn(w[4], s) => FALSE
  BY <1>4 DEF SoleFn, Sole, At, LibraryFns
<1>12. \A s \in Sole : SoleFn(w[5], s) => FALSE
  BY <1>5 DEF SoleFn, Sole, At, LibraryFns
<1>13. \A i \in DOMAIN w : SoundListener(w[i])
  BY <1>1, <1>2, <1>3, <1>4, <1>5, <1>7
<1>14. \A s \in Sole : \A i \in DOMAIN w : SoleFn(w[i], s) => s[3] = "connection"
  BY <1>8, <1>9, <1>10, <1>11, <1>12, <1>7
<1>15. \A s \in Sole : \A i, j \in DOMAIN w : SoleFn(w[i], s) /\ SoleFn(w[j], s) => i = j
  BY <1>8, <1>9, <1>10, <1>11, <1>12, <1>7
<1> QED BY <1>7, <1>13, <1>14, <1>15 DEF SoundWires, w

LEMMA RequestWiresAreSound == SoundWires(RequestWires, "requests")
<1> DEFINE w == RequestWires
<1>1. SoundListener(w[1]) /\ w[1].fn = "on_error_to" /\ w[1].on = "connection" /\ w[1].event = "error"
  <2>1. w[1] = OnErrorTo("connection", "site")
    BY DEF RequestWires
  <2>2. Bases["connection"] < Bases["site"] /\ "connection" \in Objects /\ "site" \in Objects
    BY DEF Bases, Objects
  <2> HIDE DEF w
  <2> QED BY <2>1, <2>2, OnErrorToIsSound
<1>2. SoundListener(w[2]) /\ w[2].fn = "delegate_to" /\ w[2].on = "connection" /\ w[2].event = "client_error"
  <2>1. w[2] = Delegate("connection", "client_error", <<>>, "site", "error")
    BY DEF RequestWires
  <2>2. /\ "connection" \in Objects \ {"response"} /\ "site" \in Objects
        /\ "client_error" \in EventNames \ {"listener_added"} /\ "error" \in EventNames
    BY DEF Objects, EventNames
  <2>3. /\ <<>> \in {<<>>, Signatures["client_error"]}
        /\ Signatures["client_error"] # <<>> \/ <<>> = <<>>
        /\ Comes("site", "error", <<>>)
    BY DEF Signatures, Comes
  <2>4. Place("connection", "client_error") < Place("site", "error")
    BY DEF Place, Bases
  <2> HIDE DEF w
  <2> QED BY <2>1, <2>2, <2>3, <2>4, DelegateIsSound
<1>3. SoundListener(w[3]) /\ w[3].fn = "start" /\ w[3].on = "connection" /\ w[3].event = "request_made"
  BY RequestStartIsSound DEF RequestWires
<1>4. IsList(w, 3)
  BY Three DEF RequestWires
<1> HIDE DEF w
<1>5. w \in Seq({w[i] : i \in DOMAIN w}) /\ \A i \in DOMAIN w : i = 1 \/ i = 2 \/ i = 3
  BY <1>4 DEF IsList
<1>6. \A s \in Sole : SoleFn(w[1], s) => FALSE
  BY <1>1 DEF SoleFn, Sole, At, LibraryFns
<1>7. \A s \in Sole : SoleFn(w[2], s) => FALSE
  BY <1>2 DEF SoleFn, Sole, At, LibraryFns
<1>8. \A s \in Sole : SoleFn(w[3], s) => s[3] = "requests"
  BY <1>3 DEF SoleFn, Sole, At, LibraryFns
<1>9. \A i \in DOMAIN w : SoundListener(w[i])
  BY <1>1, <1>2, <1>3, <1>5
<1>10. \A s \in Sole : \A i \in DOMAIN w : SoleFn(w[i], s) => s[3] = "requests"
  BY <1>6, <1>7, <1>8, <1>5
<1>11. \A s \in Sole : \A i, j \in DOMAIN w : SoleFn(w[i], s) /\ SoleFn(w[j], s) => i = j
  BY <1>6, <1>7, <1>8, <1>5
<1> QED BY <1>5, <1>9, <1>10, <1>11 DEF SoundWires, w

LEMMA ResponseWiresAreSound == SoundWires(ResponseWires, "response")
<1> DEFINE w == ResponseWires
<1>1. SoundListener(w[1]) /\ w[1].fn = "start" /\ w[1].on = "stream" /\ w[1].event = "write_completion"
  BY WriteStartIsSound DEF ResponseWires
<1>2. SoundListener(w[2]) /\ w[2].fn = "start" /\ w[2].on = "stream" /\ w[2].event = "all_writes_completed"
  BY AllWritesStartIsSound DEF ResponseWires
<1>3. IsList(w, 2)
  BY Two DEF ResponseWires
<1> HIDE DEF w
<1>4. w \in Seq({w[i] : i \in DOMAIN w}) /\ \A i \in DOMAIN w : i = 1 \/ i = 2
  BY <1>3 DEF IsList
<1>5. \A s \in Sole : SoleFn(w[1], s) => FALSE
  BY <1>1 DEF SoleFn, Sole, At, LibraryFns
<1>6. \A s \in Sole : SoleFn(w[2], s) => FALSE
  BY <1>2 DEF SoleFn, Sole, At, LibraryFns
<1>7. \A i \in DOMAIN w : SoundListener(w[i])
  BY <1>1, <1>2, <1>4
<1>8. \A s \in Sole : \A i \in DOMAIN w : SoleFn(w[i], s) => s[3] = "response"
  BY <1>5, <1>6, <1>4
<1>9. \A s \in Sole : \A i, j \in DOMAIN w : SoleFn(w[i], s) /\ SoleFn(w[j], s) => i = j
  BY <1>5, <1>6, <1>4
<1> QED BY <1>4, <1>7, <1>8, <1>9 DEF SoundWires, w

LEMMA StaticWiresAreSound == SoundWires(StaticWires, "services")
<1> DEFINE w == StaticWires
<1>1. SoundListener(w[1]) /\ w[1].fn = "delegate_to" /\ w[1].on = "static" /\ w[1].event = "error"
  <2>1. w[1] = Delegate("static", "error", <<>>, "site", "error")
    BY DEF StaticWires
  <2>2. /\ "static" \in Objects \ {"response"} /\ "site" \in Objects
        /\ "error" \in EventNames \ {"listener_added"} /\ "error" \in EventNames
    BY DEF Objects, EventNames
  <2>3. /\ <<>> \in {<<>>, Signatures["error"]}
        /\ Signatures["error"] # <<>> \/ <<>> = <<>>
        /\ Comes("site", "error", <<>>)
    BY DEF Signatures, Comes
  <2>4. Place("static", "error") < Place("site", "error")
    BY DEF Place, Bases
  <2> HIDE DEF w
  <2> QED BY <2>1, <2>2, <2>3, <2>4, DelegateIsSound
<1>2. SoundListener(w[2]) /\ w[2].fn = "delegate_to" /\ w[2].on = "site" /\ w[2].event = "exit"
  <2>1. w[2] = Delegate("site", "exit", <<>>, "static", "exit")
    BY DEF StaticWires
  <2>2. /\ "site" \in Objects \ {"response"} /\ "static" \in Objects
        /\ "exit" \in EventNames \ {"listener_added"} /\ "exit" \in EventNames
    BY DEF Objects, EventNames
  <2>3. /\ <<>> \in {<<>>, Signatures["exit"]}
        /\ Signatures["exit"] # <<>> \/ <<>> = <<>>
        /\ Comes("static", "exit", <<>>)
    BY DEF Signatures, Comes
  <2>4. Place("site", "exit") < Place("static", "exit")
    BY DEF Place, Bases
  <2> HIDE DEF w
  <2> QED BY <2>1, <2>2, <2>3, <2>4, DelegateIsSound
<1>3. IsList(w, 2)
  BY Two DEF StaticWires
<1> HIDE DEF w
<1>4. w \in Seq({w[i] : i \in DOMAIN w}) /\ \A i \in DOMAIN w : i = 1 \/ i = 2
  BY <1>3 DEF IsList
<1>5. \A s \in Sole : SoleFn(w[1], s) => FALSE
  BY <1>1 DEF SoleFn, Sole, At, LibraryFns
<1>6. \A s \in Sole : SoleFn(w[2], s) => FALSE
  BY <1>2 DEF SoleFn, Sole, At, LibraryFns
<1>7. \A i \in DOMAIN w : SoundListener(w[i])
  BY <1>1, <1>2, <1>4
<1>8. \A s \in Sole : \A i \in DOMAIN w : SoleFn(w[i], s) => s[3] = "services"
  BY <1>5, <1>6, <1>4
<1>9. \A s \in Sole : \A i, j \in DOMAIN w : SoleFn(w[i], s) /\ SoleFn(w[j], s) => i = j
  BY <1>5, <1>6, <1>4
<1> QED BY <1>4, <1>7, <1>8, <1>9 DEF SoundWires, w

LEMMA WebWiresAreSound == SoundWires(WebWires, "services")
<1> DEFINE w == WebWires
<1>1. SoundListener(w[1]) /\ w[1].fn = "delegate_to" /\ w[1].on = "site" /\ w[1].event = "exit"
  <2>1. w[1] = Delegate("site", "exit", <<>>, "web", "exit")
    BY DEF WebWires
  <2>2. /\ "site" \in Objects \ {"response"} /\ "web" \in Objects
        /\ "exit" \in EventNames \ {"listener_added"} /\ "exit" \in EventNames
    BY DEF Objects, EventNames
  <2>3. /\ <<>> \in {<<>>, Signatures["exit"]}
        /\ Signatures["exit"] # <<>> \/ <<>> = <<>>
        /\ Comes("web", "exit", <<>>)
    BY DEF Signatures, Comes
  <2>4. Place("site", "exit") < Place("web", "exit")
    BY DEF Place, Bases
  <2> HIDE DEF w
  <2> QED BY <2>1, <2>2, <2>3, <2>4, DelegateIsSound
<1>2. SoundListener(w[2]) /\ w[2].fn = "delegate_to" /\ w[2].on = "site" /\ w[2].event = "error"
  <2>1. w[2] = Delegate("site", "error", <<>>, "web", "error")
    BY DEF WebWires
  <2>2. /\ "site" \in Objects \ {"response"} /\ "web" \in Objects
        /\ "error" \in EventNames \ {"listener_added"} /\ "error" \in EventNames
    BY DEF Objects, EventNames
  <2>3. /\ <<>> \in {<<>>, Signatures["error"]}
        /\ Signatures["error"] # <<>> \/ <<>> = <<>>
        /\ Comes("web", "error", <<>>)
    BY DEF Signatures, Comes
  <2>4. Place("site", "error") < Place("web", "error")
    BY DEF Place, Bases
  <2> HIDE DEF w
  <2> QED BY <2>1, <2>2, <2>3, <2>4, DelegateIsSound
<1>3. IsList(w, 2)
  BY Two DEF WebWires
<1> HIDE DEF w
<1>4. w \in Seq({w[i] : i \in DOMAIN w}) /\ \A i \in DOMAIN w : i = 1 \/ i = 2
  BY <1>3 DEF IsList
<1>5. \A s \in Sole : SoleFn(w[1], s) => FALSE
  BY <1>1 DEF SoleFn, Sole, At, LibraryFns
<1>6. \A s \in Sole : SoleFn(w[2], s) => FALSE
  BY <1>2 DEF SoleFn, Sole, At, LibraryFns
<1>7. \A i \in DOMAIN w : SoundListener(w[i])
  BY <1>1, <1>2, <1>4
<1>8. \A s \in Sole : \A i \in DOMAIN w : SoleFn(w[i], s) => s[3] = "services"
  BY <1>5, <1>6, <1>4
<1>9. \A s \in Sole : \A i, j \in DOMAIN w : SoleFn(w[i], s) /\ SoleFn(w[j], s) => i = j
  BY <1>5, <1>6, <1>4
<1> QED BY <1>4, <1>7, <1>8, <1>9 DEF SoundWires, w


-----------------------------------------------------------------------------
(* The inductive invariant.                                                 *)

\* A list is a sequence: of whatever it holds.
IsListed(list) == list \in Seq({list[i] : i \in DOMAIN list})

\* Every list holds sound listeners of its own event.
SoundList(list, key) ==
  /\ IsListed(list)
  /\ \A i \in DOMAIN list : SoundListener(list[i]) /\ list[i].on = key[1] /\ list[i].event = key[2]
Keys == Objects \X EventNames
ListsAreSound ==
  /\ DOMAIN registry = Keys
  /\ \A key \in Keys : SoundList(registry[key], key)

\* Where the library has one listener that cannot do without its argument, it
\* has no second one: a set-up comes once.
KeyOf(s) == <<s[1], s[2]>>
OneOfEach ==
  /\ "" \notin wired
  /\ \A s \in Sole :
       LET list == registry[KeyOf(s)] IN
       /\ \A i \in DOMAIN list : SoleFn(list[i], s) => s[3] \in wired
       /\ \A i, j \in DOMAIN list : SoleFn(list[i], s) /\ SoleFn(list[j], s) => i = j

\* What is left of an argument was given to a listener before.
TodoOf(f) == registry[<<f.on, f.event>>]
TakenBefore(f) ==
  f.left => \E j \in DOMAIN TodoOf(f) : j < f.at /\ TodoOf(f)[j].takes = f.passes

IsDelivery(f) ==
  /\ f = [on |-> f.on, event |-> f.event, passes |-> f.passes, gives |-> f.gives,
          at |-> f.at, left |-> f.left]
  /\ f.on \in Objects /\ f.event \in EventNames /\ f.at \in Nat \ {0}
  /\ Comes(f.on, f.event, f.passes)
PlaceOf(f) == Place(f.on, f.event)
LeadOn(list) ==
  /\ IsListed(list)
  /\ \A i \in DOMAIN list : IsDelivery(list[i]) /\ TakenBefore(list[i])
  /\ \A i, j \in DOMAIN list : i < j => PlaceOf(list[i]) < PlaceOf(list[j])

EventsInv ==
  /\ ListsAreSound /\ OneOfEach /\ LeadOn(emits)
  /\ ListenersFit /\ NullOnlyBehindTheProgram

-----------------------------------------------------------------------------
LEMMA ListedLen ==
  ASSUME NEW list, IsListed(list)
  PROVE  DOMAIN list = 1 .. Len(list) /\ Len(list) \in Nat
  BY LenProperties DEF IsListed

LEMMA ListedIn ==
  ASSUME NEW S, NEW list \in Seq(S)
  PROVE  IsListed(list) /\ \A i \in DOMAIN list : list[i] \in S
<1>1. /\ Len(list) \in Nat /\ list \in [1 .. Len(list) -> S]
      /\ DOMAIN list = 1 .. Len(list)
  BY LenProperties
<1>2. list \in [1 .. Len(list) -> {list[i] : i \in DOMAIN list}]
  BY <1>1
<1> QED BY <1>1, <1>2, SeqDef DEF IsListed

LEMMA EmptyListed == IsListed(<<>>) /\ DOMAIN <<>> = {}
<1>1. <<>> \in Seq({}) /\ Len(<<>>) = 0
  BY EmptySeq
<1>2. IsListed(<<>>) /\ DOMAIN <<>> = 1 .. Len(<<>>)
  BY <1>1, ListedIn, LenProperties
<1> QED BY <1>1, <1>2

\* A listed first part, and what is put behind it.
LEMMA ListedConcat ==
  ASSUME NEW s, NEW t, IsListed(s), IsListed(t)
  PROVE  /\ IsListed(s \o t) /\ Len(s \o t) = Len(s) + Len(t)
         /\ \A i \in 1 .. Len(s) : (s \o t)[i] = s[i]
         /\ \A i \in Len(s) + 1 .. Len(s) + Len(t) : (s \o t)[i] = t[i - Len(s)]
<1> DEFINE S == {s[i] : i \in DOMAIN s} \cup {t[i] : i \in DOMAIN t}
<1>1. s \in Seq(S) /\ t \in Seq(S)
  <2>1. s \in Seq({s[i] : i \in DOMAIN s}) /\ t \in Seq({t[i] : i \in DOMAIN t})
    BY DEF IsListed
  <2> QED BY <2>1, SeqMonotonic
<1>2. Len(s) \in Nat /\ Len(t) \in Nat
  BY ListedLen
<1> HIDE DEF S
<1>3. /\ s \o t \in Seq(S) /\ Len(s \o t) = Len(s) + Len(t)
      /\ \A i \in 1 .. Len(s) + Len(t) : (s \o t)[i] = IF i <= Len(s) THEN s[i] ELSE t[i - Len(s)]
  BY <1>1, ConcatProperties
<1>4. IsListed(s \o t)
  BY <1>3, ListedIn
<1> QED BY <1>2, <1>3, <1>4

LEMMA ListedAndOne ==
  ASSUME NEW s, NEW e, IsListed(s)
  PROVE  /\ IsListed(Append(s, e)) /\ DOMAIN Append(s, e) = 1 .. Len(s) + 1
         /\ \A i \in 1 .. Len(s) : Append(s, e)[i] = s[i]
         /\ Append(s, e)[Len(s) + 1] = e
<1> DEFINE S == {s[i] : i \in DOMAIN s} \cup {e}
<1>1. s \in Seq(S) /\ e \in S
  <2>1. s \in Seq({s[i] : i \in DOMAIN s})
    BY DEF IsListed
  <2> QED BY <2>1, SeqMonotonic
<1> HIDE DEF S
<1>2. /\ Append(s, e) \in Seq(S) /\ Len(Append(s, e)) = Len(s) + 1
      /\ \A i \in 1 .. Len(s) : Append(s, e)[i] = s[i]
      /\ Append(s, e)[Len(s) + 1] = e
  BY <1>1, AppendProperties
<1>3. IsListed(Append(s, e)) /\ DOMAIN Append(s, e) = 1 .. Len(Append(s, e))
  BY <1>2, ListedIn, LenProperties
<1> QED BY <1>2, <1>3

\* What is kept of a list: other entries for other positions.
From(kept, list, K) ==
  \E f \in [DOMAIN kept -> K] :
    /\ \A k \in DOMAIN kept : kept[k] = list[f[k]]
    /\ \A k, m \in DOMAIN kept : f[k] = f[m] => k = m

LEMMA ListedKeep ==
  ASSUME NEW list, IsListed(list), NEW K \in SUBSET DOMAIN list
  PROVE  IsListed(Keep(list, K)) /\ From(Keep(list, K), list, K)
<1> DEFINE S == {list[i] : i \in DOMAIN list}
<1>1. list \in Seq(S)
  BY DEF IsListed
<1> HIDE DEF S
<1>2. Keep(list, K) \in Seq(S)
  BY <1>1, KeepType
<1>3. From(Keep(list, K), list, K)
  BY <1>1, KeepFrom DEF From
<1> QED BY <1>2, <1>3, ListedIn

LEMMA SoundNothing == \A name : SoundWires(<<>>, name)
<1>1. <<>> \in Seq({<<>>[i] : i \in DOMAIN <<>>}) /\ DOMAIN <<>> = {}
  BY EmptyListed DEF IsListed
<1> QED BY <1>1, Zenon DEF SoundWires

LEMMA SoundOne ==
  ASSUME NEW l, SoundListener(l), l.fn \notin LibraryFns
  PROVE  SoundWires(<<l>>, "")
<1>1. <<l>> \in Seq({l}) /\ DOMAIN <<l>> = {1} /\ <<l>>[1] = l
  OBVIOUS
<1> DEFINE w == <<l>>
<1>2. IsListed(w)
  BY <1>1, ListedIn
<1> HIDE DEF w
<1>3. w \in Seq({w[i] : i \in DOMAIN w}) /\ DOMAIN w = {1} /\ w[1] = l
  BY <1>1, <1>2 DEF IsListed, w
<1> QED BY <1>3 DEF SoundWires, SoleFn, w

LEMMA WiresAreSound == \A name : SoundWires(Wires(name), name)
<1>1. ASSUME NEW name, name \notin {"server", "site", "services", "connection", "requests", "response"}
      PROVE  Wires(name) = <<>>
  BY <1>1 DEF Wires
<1>2. SoundWires(StaticWires \o WebWires, "services")
  <2> DEFINE s == StaticWires
             t == WebWires
             w == s \o t
  <2>1. SoundWires(s, "services") /\ SoundWires(t, "services")
    BY StaticWiresAreSound, WebWiresAreSound
  <2>2. \A e \in Sole : e[3] # "services"
    BY DEF Sole
  <2> HIDE DEF s, t
  <2>3. IsListed(s) /\ IsListed(t)
    BY <2>1 DEF SoundWires, IsListed
  <2>4. /\ IsListed(w) /\ Len(w) = Len(s) + Len(t)
        /\ \A i \in 1 .. Len(s) : w[i] = s[i]
        /\ \A i \in Len(s) + 1 .. Len(s) + Len(t) : w[i] = t[i - Len(s)]
    BY <2>3, ListedConcat
  <2>5. /\ DOMAIN s = 1 .. Len(s) /\ Len(s) \in Nat /\ DOMAIN t = 1 .. Len(t) /\ Len(t) \in Nat
        /\ DOMAIN w = 1 .. Len(w)
    BY <2>3, <2>4, ListedLen
  <2> HIDE DEF w
  <2>6. ASSUME NEW i \in DOMAIN w
        PROVE  (\E j \in DOMAIN s : w[i] = s[j]) \/ (\E j \in DOMAIN t : w[i] = t[j])
    <3>1. CASE i <= Len(s)
      BY <3>1, <2>4, <2>5
    <3>2. CASE i > Len(s)
      <4>1. i - Len(s) \in DOMAIN t /\ i \in Len(s) + 1 .. Len(s) + Len(t)
        BY <3>2, <2>4, <2>5
      <4> QED BY <4>1, <2>4
    <3> QED BY <3>1, <3>2, <2>5
  <2>7. \A i \in DOMAIN w : SoundListener(w[i]) /\ \A e \in Sole : ~SoleFn(w[i], e)
    BY <2>1, <2>2, <2>6, Zenon DEF SoundWires
  <2> QED BY <2>4, <2>7 DEF SoundWires, IsListed, w, s, t
<1> QED
  BY <1>1, <1>2, SoundNothing, ServerWiresAreSound, SiteWiresAreSound, ConnectionWiresAreSound,
     RequestWiresAreSound, ResponseWiresAreSound DEF Wires

-----------------------------------------------------------------------------
(* Setting up listeners.                                                    *)

\* A list is the old one, with others of w behind it, none of them twice.
Longer(new, old, w) ==
  /\ DOMAIN old \subseteq DOMAIN new
  /\ \A i \in DOMAIN old : new[i] = old[i]
  /\ \E f \in [DOMAIN new \ DOMAIN old -> DOMAIN w] :
       /\ \A i \in DOMAIN new \ DOMAIN old : new[i] = w[f[i]]
       /\ \A i, j \in DOMAIN new \ DOMAIN old : f[i] = f[j] => i = j

LEMMA ConcatIsLonger ==
  ASSUME NEW old, NEW kept, NEW w, NEW K \in SUBSET DOMAIN w,
         IsListed(old), IsListed(kept), From(kept, w, K)
  PROVE  Longer(old \o kept, old, w)
<1> DEFINE new == old \o kept
           n == Len(old)
           m == Len(kept)
<1>1. /\ IsListed(new) /\ Len(new) = n + m
      /\ \A i \in 1 .. n : new[i] = old[i]
      /\ \A i \in n + 1 .. n + m : new[i] = kept[i - n]
  BY ListedConcat
<1>2. n \in Nat /\ m \in Nat /\ DOMAIN old = 1 .. n /\ DOMAIN kept = 1 .. m /\ DOMAIN new = 1 .. n + m
  BY <1>1, ListedLen
<1> HIDE DEF new, n, m
<1>3. PICK f \in [DOMAIN kept -> K] :
        /\ \A k \in DOMAIN kept : kept[k] = w[f[k]]
        /\ \A k, j \in DOMAIN kept : f[k] = f[j] => k = j
  BY DEF From
<1> DEFINE more == DOMAIN new \ DOMAIN old
           g == [i \in more |-> f[i - n]]
<1>4. more = n + 1 .. n + m /\ \A i \in more : i - n \in DOMAIN kept
  BY <1>2
<1>5. \A i \in more : g[i] = f[i - n] /\ g[i] \in DOMAIN w
  BY <1>3, <1>4
<1>6. g \in [more -> DOMAIN w]
  BY <1>5
<1>7. ASSUME NEW i \in more PROVE new[i] = w[g[i]]
  BY <1>1, <1>3, <1>4, <1>5
<1>8. ASSUME NEW i \in more, NEW j \in more, g[i] = g[j] PROVE i = j
  <2>1. f[i - n] = f[j - n] /\ i - n \in DOMAIN kept /\ j - n \in DOMAIN kept
    BY <1>4, <1>5, <1>8
  <2>2. i - n = j - n
    BY <2>1, <1>3
  <2> QED BY <2>2, <1>2, <1>4
<1>9. DOMAIN old \subseteq DOMAIN new /\ \A i \in DOMAIN old : new[i] = old[i]
  BY <1>1, <1>2
<1> HIDE DEF g
<1> QED BY <1>6, <1>7, <1>8, <1>9 DEF Longer, new

LEMMA PutOne ==
  ASSUME ListsAreSound, NEW w, NEW name, SoundWires(w, name), NEW key \in Keys
  PROVE  Longer(PutAll(w)[key], registry[key], w) /\ SoundList(PutAll(w)[key], key)
<1> DEFINE old == registry[key]
           K == {i \in DOMAIN w : <<w[i].on, w[i].event>> = key}
           kept == Keep(w, K)
           new == old \o kept
<1>1. PutAll(w)[key] = new
  BY DEF PutAll, Keys
<1>2. IsListed(w) /\ \A i \in DOMAIN w : SoundListener(w[i])
  BY DEF SoundWires, IsListed
<1>3. \A i \in K : i \in DOMAIN w /\ w[i].on = key[1] /\ w[i].event = key[2]
  OBVIOUS
<1>4. K \in SUBSET DOMAIN w
  OBVIOUS
<1> HIDE DEF K
<1>5. IsListed(kept) /\ From(kept, w, K)
  BY <1>2, <1>4, ListedKeep
<1>6. IsListed(old) /\ \A i \in DOMAIN old : SoundListener(old[i]) /\ old[i].on = key[1] /\ old[i].event = key[2]
  BY DEF ListsAreSound, SoundList
<1> HIDE DEF kept, old
<1>7. Longer(new, old, w)
  BY <1>4, <1>5, <1>6, ConcatIsLonger
<1>8. ASSUME NEW k \in DOMAIN kept
      PROVE  SoundListener(kept[k]) /\ kept[k].on = key[1] /\ kept[k].event = key[2]
  <2>1. PICK i \in K : kept[k] = w[i]
    BY <1>5 DEF From
  <2> QED BY <2>1, <1>2, <1>3
<1>9. /\ IsListed(new) /\ Len(new) = Len(old) + Len(kept)
      /\ \A i \in 1 .. Len(old) : new[i] = old[i]
      /\ \A i \in Len(old) + 1 .. Len(old) + Len(kept) : new[i] = kept[i - Len(old)]
  BY <1>5, <1>6, ListedConcat
<1>10. /\ DOMAIN old = 1 .. Len(old) /\ Len(old) \in Nat
       /\ DOMAIN kept = 1 .. Len(kept) /\ Len(kept) \in Nat
       /\ DOMAIN new = 1 .. Len(old) + Len(kept)
  BY <1>5, <1>6, <1>9, ListedLen
<1> HIDE DEF new
<1>11. ASSUME NEW i \in DOMAIN new
       PROVE  SoundListener(new[i]) /\ new[i].on = key[1] /\ new[i].event = key[2]
  <2>1. CASE i <= Len(old)
    <3>1. i \in DOMAIN old /\ new[i] = old[i]
      BY <2>1, <1>9, <1>10
    <3> QED BY <3>1, <1>6
  <2>2. CASE i > Len(old)
    <3>1. i - Len(old) \in DOMAIN kept /\ new[i] = kept[i - Len(old)]
      BY <2>2, <1>9, <1>10
    <3> QED BY <3>1, <1>8
  <2> QED BY <2>1, <2>2, <1>10
<1> QED BY <1>1, <1>7, <1>9, <1>11 DEF SoundList, old

LEMMA SoleKeys == \A s \in Sole : KeyOf(s) \in Keys /\ s[3] # ""
<1> DEFINE Fine(s) == s[1] \in Objects /\ s[2] \in EventNames /\ s[3] # ""
<1>1. Fine(<<"net_server", "connection", "server">>)
  BY DEF Objects, EventNames
<1>2. Fine(<<"stream", "data_received", "connection">>)
  BY DEF Objects, EventNames
<1>3. Fine(<<"server", "client_connected", "site">>)
  BY DEF Objects, EventNames
<1>4. Fine(<<"connection", "request_made", "requests">>)
  BY DEF Objects, EventNames
<1> HIDE DEF Fine
<1>5. \A s \in Sole : Fine(s)
  BY <1>1, <1>2, <1>3, <1>4 DEF Sole
<1> QED BY <1>5 DEF KeyOf, Keys, Fine

\* A set-up that comes for the first time keeps every list sound, and adds no
\* second listener where the library has one.
LEMMA SetUpKeeps ==
  ASSUME ListsAreSound, OneOfEach, NEW w, NEW name, SoundWires(w, name),
         name \notin wired \/ w = <<>>,
         registry' = PutAll(w), wired' = wired \cup ({name} \ {""})
  PROVE  /\ ListsAreSound' /\ OneOfEach'
         /\ \A key \in Keys : Longer(registry'[key], registry[key], w)
<1>1. \A key \in Keys : Longer(registry'[key], registry[key], w) /\ SoundList(registry'[key], key)
  BY PutOne
<1>2. ListsAreSound'
  <2>1. DOMAIN registry' = Keys
    BY DEF PutAll, Keys
  <2> QED BY <1>1, <2>1 DEF ListsAreSound
<1>3. \A s \in Sole : \A i \in DOMAIN w : SoleFn(w[i], s) => s[3] = name /\ name \notin wired
  BY EmptyListed DEF SoundWires
<1>4. \A s \in Sole : \A i, j \in DOMAIN w : SoleFn(w[i], s) /\ SoleFn(w[j], s) => i = j
  BY DEF SoundWires
<1>5. ASSUME NEW s \in Sole
      PROVE  LET list == registry'[KeyOf(s)] IN
             /\ \A i \in DOMAIN list : SoleFn(list[i], s) => s[3] \in wired'
             /\ \A i, j \in DOMAIN list : SoleFn(list[i], s) /\ SoleFn(list[j], s) => i = j
  <2> DEFINE old == registry[KeyOf(s)]
             new == registry'[KeyOf(s)]
  <2>1. KeyOf(s) \in Keys /\ s[3] # ""
    BY SoleKeys
  <2>2. Longer(new, old, w)
    BY <1>1, <2>1
  <2>3. /\ \A i \in DOMAIN old : SoleFn(old[i], s) => s[3] \in wired
        /\ \A i, j \in DOMAIN old : SoleFn(old[i], s) /\ SoleFn(old[j], s) => i = j
    BY DEF OneOfEach
  <2> HIDE DEF old, new
  <2>4. \A i \in DOMAIN old : i \in DOMAIN new /\ new[i] = old[i]
    BY <2>2 DEF Longer
  <2>5. PICK f \in [DOMAIN new \ DOMAIN old -> DOMAIN w] :
          /\ \A i \in DOMAIN new \ DOMAIN old : new[i] = w[f[i]]
          /\ \A i, j \in DOMAIN new \ DOMAIN old : f[i] = f[j] => i = j
    BY <2>2 DEF Longer
  <2>6. \A i \in DOMAIN new \ DOMAIN old : f[i] \in DOMAIN w
    BY <2>5
  <2>7. \A i \in DOMAIN new : i \in DOMAIN old /\ SoleFn(new[i], s) => s[3] \in wired
    BY <2>3, <2>4
  <2>8. \A i \in DOMAIN new : i \notin DOMAIN old /\ SoleFn(new[i], s) => s[3] = name /\ name \notin wired
    BY <1>3, <2>5, <2>6, Zenon
  <2>9. \A i \in DOMAIN new : SoleFn(new[i], s) => s[3] \in wired'
    BY <2>1, <2>7, <2>8
  <2>10. ASSUME NEW i \in DOMAIN new, NEW j \in DOMAIN new, SoleFn(new[i], s), SoleFn(new[j], s)
         PROVE  i = j
    <3>1. CASE i \in DOMAIN old /\ j \in DOMAIN old
      BY <3>1, <2>3, <2>4, <2>10
    <3>2. CASE i \notin DOMAIN old /\ j \notin DOMAIN old
      <4>1. SoleFn(w[f[i]], s) /\ SoleFn(w[f[j]], s) /\ f[i] \in DOMAIN w /\ f[j] \in DOMAIN w
        BY <3>2, <2>5, <2>6, <2>10
      <4>2. f[i] = f[j]
        BY <4>1, <1>4
      <4> QED BY <4>2, <3>2, <2>5
    <3> QED BY <3>1, <3>2, <2>7, <2>8, <2>10
  <2> QED BY <2>9, <2>10 DEF new
<1>6. "" \notin wired'
  BY DEF OneOfEach
<1> QED BY <1>1, <1>2, <1>5, <1>6 DEF OneOfEach

-----------------------------------------------------------------------------
(* Steps.                                                                   *)
LEMMA NothingLeads == LeadOn(<<>>)
  BY EmptyListed DEF LeadOn

LEMMA FailKeeps ==
  ASSUME EventsInv, NEW fn, NEW o, NEW event, NEW how, NEW ahead, Fail(fn, o, event, how, ahead),
         how = "misfit" => fn \in NeverFit,
         how = "bare" =>
           \/ fn \in BareFit
           \/ event \in {"error", "exit"} /\ o \in {"site", "static", "web"},
         how \in {"crashes", "throws"} =>
           (\E f \in ahead : f \notin LibraryFns) \/ fn = "stream_closes"
  PROVE  EventsInv'
<1>1. ListsAreSound' /\ OneOfEach'
  BY DEF EventsInv, Fail, ListsAreSound, OneOfEach
<1>2. LeadOn(emits)'
  <2>1. emits' = <<>>
    BY DEF Fail
  <2> QED BY <2>1, EmptyListed DEF LeadOn
<1>3. failed'.fn = fn /\ failed'.on = o /\ failed'.event = event /\ failed'.how = how /\ failed'.ahead = ahead
  BY DEF Fail
<1>4. ListenersFit'
  BY <1>3 DEF ListenersFit, BareFit
<1>5. NullOnlyBehindTheProgram'
  BY <1>3 DEF NullOnlyBehindTheProgram, LibraryFns
<1> QED BY <1>1, <1>2, <1>4, <1>5 DEF EventsInv

LEMMA StillRight ==
  ASSUME ListenersFit, NullOnlyBehindTheProgram, UNCHANGED failed
  PROVE  ListenersFit' /\ NullOnlyBehindTheProgram'
  BY DEF ListenersFit, NullOnlyBehindTheProgram

\* The deliveries of then are as right as before with longer lists.
LEMMA LeadsStill ==
  ASSUME NEW then, LeadOn(then), NEW w, emits' = then,
         \A key \in Keys : Longer(registry'[key], registry[key], w)
  PROVE  LeadOn(emits)'
<1>1. ASSUME NEW i \in DOMAIN then, then[i].left
      PROVE  \E j \in DOMAIN TodoOf(then[i])' :
               j < then[i].at /\ TodoOf(then[i])'[j].takes = then[i].passes
  <2> DEFINE f == then[i]
  <2>1. IsDelivery(f) /\ TakenBefore(f)
    BY DEF LeadOn
  <2>2. <<f.on, f.event>> \in Keys
    BY <2>1 DEF IsDelivery, Keys
  <2>3. PICK j \in DOMAIN TodoOf(f) : j < f.at /\ TodoOf(f)[j].takes = f.passes
    BY <1>1, <2>1 DEF TakenBefore
  <2>4. Longer(registry'[<<f.on, f.event>>], registry[<<f.on, f.event>>], w)
    BY <2>2
  <2> QED BY <2>3, <2>4 DEF Longer, TodoOf
<1> QED BY <1>1, Zenon DEF LeadOn, TakenBefore, TodoOf, IsDelivery, PlaceOf

LEMMA AddKeeps ==
  ASSUME EventsInv, NEW w, NEW name, NEW then, SoundWires(w, name),
         name \notin wired \/ w = <<>>, LeadOn(then), Add(w, name, then)
  PROVE  EventsInv'
<1>1. CASE Hearing(w) # {}
  <2>1. PICK i \in Hearing(w) :
          Fail(registry[<<w[i].on, "listener_added">>][1].fn, w[i].on, "listener_added", "misfit", {})
    BY <1>1 DEF Add
  <2> DEFINE key == <<w[i].on, "listener_added">>
             first == registry[key][1]
  <2>2. key \in Keys /\ key[2] = "listener_added" /\ registry[key] # <<>>
    <3>1. SoundListener(w[i]) /\ registry[key] # <<>>
      BY DEF Hearing, SoundWires
    <3> QED BY <3>1 DEF SoundListener, Keys, EventNames
  <2>3. SoundListener(first) /\ first.event = "listener_added"
    <3>1. SoundList(registry[key], key)
      BY <2>2 DEF EventsInv, ListsAreSound
    <3> HIDE DEF key
    <3>2. registry[key] \in Seq({registry[key][k] : k \in DOMAIN registry[key]})
      BY <3>1 DEF SoundList, IsListed
    <3>3. Len(registry[key]) \in Nat \ {0} /\ DOMAIN registry[key] = 1 .. Len(registry[key])
      BY <2>2, <3>2, EmptySeq, LenProperties
    <3>4. 1 \in DOMAIN registry[key]
      BY <3>3
    <3> QED BY <2>2, <3>1, <3>4 DEF SoundList
  <2>4. first.fn \in NeverFit
    BY <2>3 DEF SoundListener, Declares
  <2> HIDE DEF first
  <2>5. Fail(first.fn, w[i].on, "listener_added", "misfit", {})
    BY <2>1 DEF first
  <2> QED BY <2>4, <2>5, FailKeeps
<1>2. CASE Hearing(w) = {}
  <2>1. /\ registry' = PutAll(w) /\ wired' = wired \cup ({name} \ {""})
        /\ emits' = then /\ UNCHANGED failed
    BY <1>2 DEF Add
  <2>2. /\ ListsAreSound' /\ OneOfEach'
        /\ \A key \in Keys : Longer(registry'[key], registry[key], w)
    BY <2>1, SetUpKeeps DEF EventsInv
  <2>3. LeadOn(emits)'
    BY <2>1, <2>2, LeadsStill
  <2>4. ListenersFit' /\ NullOnlyBehindTheProgram'
    BY <2>1, StillRight DEF EventsInv
  <2> QED BY <2>2, <2>3, <2>4 DEF EventsInv
<1> QED BY <1>1, <1>2

LEMMA SetUpKeepsInv == ASSUME EventsInv, SetUp PROVE EventsInv'
<1>1. PICK name \in {"server", "site", "services"} \ wired : Add(Wires(name), name, <<>>)
  BY DEF SetUp
<1> QED BY <1>1, WiresAreSound, NothingLeads, AddKeeps

LEMMA RegisterKeeps ==
  ASSUME EventsInv, NEW l, SoundListener(l), l.fn \notin LibraryFns, Register(l)
  PROVE  EventsInv'
<1>1. Add(<<l>>, "", emits)
  BY DEF Register
<1>2. "" \notin wired /\ LeadOn(emits)
  BY DEF EventsInv, OneOfEach
<1>3. SoundWires(<<l>>, "")
  BY SoundOne
<1> QED BY <1>1, <1>2, <1>3, AddKeeps

LEMMA OnKeeps == ASSUME EventsInv, On PROVE EventsInv'
<1>1. PICK o \in Objects : \E table \in Functions(o, 1) : \E fn \in DOMAIN table :
        Register(Programs(fn, o, table[fn]))
  BY DEF On
<1>2. PICK table \in Functions(o, 1) : \E fn \in DOMAIN table :
        Register(Programs(fn, o, table[fn]))
  BY <1>1
<1>3. PICK fn \in DOMAIN table : Register(Programs(fn, o, table[fn]))
  BY <1>2
<1>4. table \in ListenerTables
  BY TablesOf
<1>5. SoundListener(Programs(fn, o, table[fn])) /\ Programs(fn, o, table[fn]).fn \notin LibraryFns
  BY <1>4, ProgramsAreSound
<1> QED BY <1>3, <1>5, RegisterKeeps

LEMMA CloseKeeps == ASSUME EventsInv, CloseWhenWritesCompleted PROVE EventsInv'
<1>1. PICK o \in {"stream", "response"} : Register(Closing(o))
  BY DEF CloseWhenWritesCompleted, ClosesOn, Closing
<1> QED BY <1>1, ClosersAreSound, RegisterKeeps

\* A new delivery begins before its first listener.
LEMMA DeliveryFields ==
  ASSUME NEW o, NEW e
  PROVE  LET f == Delivery(o, e) IN
         /\ f = [on |-> f.on, event |-> f.event, passes |-> f.passes, gives |-> f.gives,
                 at |-> f.at, left |-> f.left]
         /\ f.on = o /\ f.event = e.event /\ f.passes = e.passes /\ f.at = 1 /\ ~f.left
  BY DEF Delivery

LEMMA DeliveryIsOne ==
  ASSUME NEW o \in Objects, NEW e, e.event \in EventNames, Comes(o, e.event, e.passes)
  PROVE  IsDelivery(Delivery(o, e)) /\ TakenBefore(Delivery(o, e))
<1> DEFINE f == Delivery(o, e)
<1>1. /\ f = [on |-> f.on, event |-> f.event, passes |-> f.passes, gives |-> f.gives,
              at |-> f.at, left |-> f.left]
      /\ f.on = o /\ f.event = e.event /\ f.passes = e.passes /\ f.at = 1 /\ ~f.left
  BY DeliveryFields
<1> HIDE DEF f
<1>2. TakenBefore(f)
  BY <1>1, Zenon DEF TakenBefore
<1>3. f.on \in Objects /\ f.event \in EventNames /\ f.at \in Nat \ {0} /\ Comes(f.on, f.event, f.passes)
  BY <1>1
<1> QED BY <1>1, <1>2, <1>3, Zenon DEF IsDelivery, f

LEMMA EmitKeeps == ASSUME EventsInv, EmitEvent PROVE EventsInv'
<1>1. PICK o \in Objects : \E table \in Functions(o, 2) : \E fn \in DOMAIN table :
        emits' = <<Delivery(o, table[fn])>>
  BY DEF EmitEvent
<1>2. PICK table \in Functions(o, 2) : \E fn \in DOMAIN table : emits' = <<Delivery(o, table[fn])>>
  BY <1>1
<1>3. PICK fn \in DOMAIN table : emits' = <<Delivery(o, table[fn])>>
  BY <1>2
<1> DEFINE e == table[fn]
           f == Delivery(o, e)
<1>4. Announces(e)
  <2>1. table \in EmitTables
    BY TablesOf
  <2> QED BY <2>1, TablesEmit
<1> HIDE DEF e
<1>5. IsDelivery(f) /\ TakenBefore(f)
  <2>1. e.event \in EventNames /\ Comes(o, e.event, e.passes)
    BY <1>4 DEF Announces, Comes
  <2> QED BY <2>1, DeliveryIsOne
<1> HIDE DEF f
<1>6. LeadOn(<<f>>)
  <2> DEFINE w == <<f>>
  <2>1. w \in Seq({f}) /\ DOMAIN w = {1} /\ w[1] = f
    OBVIOUS
  <2> HIDE DEF w
  <2>2. IsListed(w)
    BY <2>1, ListedIn
  <2> QED BY <1>5, <2>1, <2>2 DEF LeadOn, w
<1>7. emits' = <<f>> /\ UNCHANGED <<registry, wired, failed>>
  BY <1>3 DEF EmitEvent, f, e
<1>8. LeadOn(emits)'
  BY <1>6, <1>7 DEF LeadOn, TakenBefore, TodoOf
<1>9. ListsAreSound' /\ OneOfEach'
  BY <1>7 DEF EventsInv, ListsAreSound, OneOfEach
<1>10. ListenersFit' /\ NullOnlyBehindTheProgram'
  BY <1>7, StillRight DEF EventsInv
<1> QED BY <1>8, <1>9, <1>10 DEF EventsInv

\* Of the innermost delivery and its list.
LEMMA InnerDelivery ==
  ASSUME EventsInv, emits # <<>>
  PROVE  /\ DOMAIN emits = 1 .. Len(emits) /\ Len(emits) \in Nat \ {0}
         /\ Latest = emits[Len(emits)] /\ IsDelivery(Latest) /\ TakenBefore(Latest)
         /\ Todo = TodoOf(Latest) /\ SoundList(Todo, <<Latest.on, Latest.event>>)
         /\ DOMAIN Todo = 1 .. Len(Todo) /\ Len(Todo) \in Nat
<1>1. IsListed(emits) /\ \A i \in DOMAIN emits : IsDelivery(emits[i]) /\ TakenBefore(emits[i])
  BY DEF EventsInv, LeadOn
<1>2. DOMAIN emits = 1 .. Len(emits) /\ Len(emits) \in Nat \ {0}
  BY <1>1, ListedLen, EmptySeq DEF IsListed
<1>3. IsDelivery(Latest) /\ TakenBefore(Latest)
  <2>1. Len(emits) \in DOMAIN emits
    BY <1>2
  <2> QED BY <1>1, <2>1 DEF Latest
<1>4. <<Latest.on, Latest.event>> \in Keys
  BY <1>3 DEF IsDelivery, Keys
<1>5. SoundList(Todo, <<Latest.on, Latest.event>>)
  BY <1>4 DEF EventsInv, ListsAreSound, Todo
<1>6. DOMAIN Todo = 1 .. Len(Todo) /\ Len(Todo) \in Nat
  BY <1>5, ListedLen DEF SoundList
<1> QED BY <1>2, <1>3, <1>5, <1>6 DEF Latest, Todo, TodoOf

LEMMA CurrentListener ==
  ASSUME EventsInv, Delivering
  PROVE  /\ Latest.at \in DOMAIN Todo /\ SoundListener(Current)
         /\ Current.on = Latest.on /\ Current.event = Latest.event
<1>1. emits # <<>> /\ Latest.at <= Len(Todo)
  BY DEF Delivering
<1>2. /\ IsDelivery(Latest) /\ SoundList(Todo, <<Latest.on, Latest.event>>)
      /\ DOMAIN Todo = 1 .. Len(Todo) /\ Len(Todo) \in Nat
  BY <1>1, InnerDelivery
<1>3. Latest.at \in DOMAIN Todo
  BY <1>1, <1>2 DEF IsDelivery
<1> QED BY <1>2, <1>3 DEF SoundList, Current

LEMMA MisfitKeeps == ASSUME EventsInv, Misfit PROVE EventsInv'
<1> DEFINE how == IF Latest.passes = <<>> THEN "bare" ELSE "misfit"
<1>1. /\ Delivering /\ Current.takes # Latest.passes /\ Current.takes # <<>>
      /\ Fail(Current.fn, Latest.on, Latest.event, how, {})
  BY DEF Misfit, Fits
<1>2. SoundListener(Current) /\ Current.on = Latest.on /\ Current.event = Latest.event
  BY <1>1, CurrentListener
<1>3. Comes(Latest.on, Latest.event, Latest.passes)
  BY <1>1, InnerDelivery DEF Delivering, IsDelivery
<1>4. Declares(Current.fn, Current)
  BY <1>2 DEF SoundListener
<1>5. /\ how = "misfit" => Latest.passes # <<>>
      /\ how = "bare" => Latest.passes = <<>>
      /\ how \notin {"crashes", "throws"}
  OBVIOUS
<1> HIDE DEF how
<1>6. how = "misfit" => Current.fn \in NeverFit
  BY <1>1, <1>2, <1>3, <1>4, <1>5 DEF Comes, Declares
<1>7. how = "bare" =>
        \/ Current.fn \in BareFit
        \/ Latest.event \in {"error", "exit"} /\ Latest.on \in {"site", "static", "web"}
  BY <1>1, <1>2, <1>3, <1>4, <1>5 DEF Comes, Declares
<1> QED BY <1>1, <1>5, <1>6, <1>7, FailKeeps

LEMMA UseLeftKeeps == ASSUME EventsInv, UseLeft PROVE EventsInv'
<1>1. /\ Delivering /\ Current.takes = Latest.passes /\ Latest.left /\ Current.null # "ignores"
      /\ Fail(Current.fn, Latest.on, Latest.event, Current.null, Ahead)
  BY DEF UseLeft, Fits
<1>2. /\ Latest.at \in DOMAIN Todo /\ SoundListener(Current)
      /\ Current.on = Latest.on /\ Current.event = Latest.event
  BY <1>1, CurrentListener
<1>3. /\ TakenBefore(Latest) /\ Todo = TodoOf(Latest) /\ IsDelivery(Latest)
      /\ SoundList(Todo, <<Latest.on, Latest.event>>) /\ DOMAIN Todo = 1 .. Len(Todo)
      /\ Len(Todo) \in Nat
  BY <1>1, InnerDelivery DEF Delivering
<1>4. PICK j \in DOMAIN Todo : j < Latest.at /\ Todo[j].takes = Latest.passes
  BY <1>1, <1>3, Zenon DEF TakenBefore
<1>5. Todo[j].fn \in Ahead
  <2>1. j \in 1 .. Latest.at - 1
    BY <1>3, <1>4 DEF IsDelivery
  <2> QED BY <1>4, <2>1 DEF Ahead
<1>6. SoundListener(Todo[j]) /\ Todo[j].on = Latest.on /\ Todo[j].event = Latest.event
  BY <1>3 DEF SoundList
<1>7. Needs(Current) /\ Needs(Todo[j])
  BY <1>2, <1>6 DEF SoundListener
<1>8. Current.null \in {"crashes", "throws"}
  BY <1>1, <1>7 DEF Needs
<1>9. Current.fn = "stream_closes" \/ Todo[j].fn \notin LibraryFns
  <2>1. CASE Current.on = "response"
    BY <2>1, <1>2, <1>6, <1>7 DEF Needs
  <2>2. CASE Current.fn \in LibraryFns /\ \E s \in Sole : At(Current, s)
    <3>1. PICK s \in Sole : At(Current, s)
      BY <2>2
    <3>2. SoleFn(Current, s) /\ At(Todo[j], s)
      BY <2>2, <3>1, <1>2, <1>6 DEF SoleFn, At
    <3>3. registry[KeyOf(s)] = Todo
      BY <3>1, <1>2 DEF KeyOf, At, Todo
    <3>4. \A i, k \in DOMAIN Todo : SoleFn(Todo[i], s) /\ SoleFn(Todo[k], s) => i = k
      BY <3>3 DEF EventsInv, OneOfEach
    <3>5. ~SoleFn(Todo[j], s)
      <4>1. Latest.at # j /\ SoleFn(Todo[Latest.at], s)
        BY <1>3, <1>4, <3>2 DEF Current, IsDelivery
      <4> QED BY <4>1, <3>4, <1>2
    <3> QED BY <3>2, <3>5 DEF SoleFn
  <2> QED BY <2>1, <2>2, <1>1, <1>7 DEF Needs
<1>10. /\ Current.null # "misfit" /\ Current.null # "bare"
       /\ (\E f \in Ahead : f \notin LibraryFns) \/ Current.fn = "stream_closes"
  BY <1>5, <1>8, <1>9
<1> QED BY <1>1, <1>10, FailKeeps

\* A delivery that has gone on to its next listener.
LEMMA AdvancedFields ==
  ASSUME NEW f, NEW b, IsDelivery(f)
  PROVE  LET g == Advanced(f, b) IN
         /\ g = [on |-> g.on, event |-> g.event, passes |-> g.passes, gives |-> g.gives,
                 at |-> g.at, left |-> g.left]
         /\ g.on = f.on /\ g.event = f.event /\ g.passes = f.passes /\ g.at = f.at + 1
         /\ g.left => f.left \/ b
<1> DEFINE g == Advanced(f, b)
<1>1. f = [on |-> f.on, event |-> f.event, passes |-> f.passes, gives |-> f.gives,
           at |-> f.at, left |-> f.left]
  BY DEF IsDelivery
<1>2. DOMAIN f = {"on", "event", "passes", "gives", "at", "left"}
  BY <1>1
<1> DEFINE h == f.left \/ b
<1>3. g = [f EXCEPT !.at = f.at + 1, !.left = h]
  BY DEF Advanced
<1>4. g.left => h
  BY <1>2, <1>3
<1> HIDE DEF h, g
<1>5. /\ DOMAIN g = {"on", "event", "passes", "gives", "at", "left"}
      /\ g.on = f.on /\ g.event = f.event /\ g.passes = f.passes /\ g.at = f.at + 1
      /\ g = [x \in DOMAIN g |-> g[x]]
  BY <1>2, <1>3
<1>6. g = [on |-> g.on, event |-> g.event, passes |-> g.passes, gives |-> g.gives,
           at |-> g.at, left |-> g.left]
  BY <1>5
<1> QED BY <1>4, <1>5, <1>6, Zenon DEF g, h

LEMMA AdvancedIsDelivery ==
  ASSUME EventsInv, Delivering, NEW b, b => Current.takes = Latest.passes
  PROVE  IsDelivery(Advanced(Latest, b)) /\ TakenBefore(Advanced(Latest, b))
<1> DEFINE f == Latest
           g == Advanced(f, b)
<1>1. /\ IsDelivery(f) /\ TakenBefore(f) /\ Todo = TodoOf(f)
      /\ DOMAIN Todo = 1 .. Len(Todo) /\ Len(Todo) \in Nat
  BY InnerDelivery DEF Delivering
<1>2. f.at \in DOMAIN Todo /\ Current = Todo[f.at]
  BY CurrentListener DEF Current
<1>3. b => Current.takes = f.passes
  OBVIOUS
<1> HIDE DEF f
<1>4. /\ g = [on |-> g.on, event |-> g.event, passes |-> g.passes, gives |-> g.gives,
              at |-> g.at, left |-> g.left]
      /\ g.on = f.on /\ g.event = f.event /\ g.passes = f.passes /\ g.at = f.at + 1
      /\ g.left => f.left \/ b
  BY <1>1, AdvancedFields
<1> HIDE DEF g
<1>5. IsDelivery(g)
  <2>1. /\ g.on \in Objects /\ g.event \in EventNames /\ g.at \in Nat \ {0}
        /\ Comes(g.on, g.event, g.passes)
    BY <1>1, <1>4 DEF IsDelivery
  <2> QED BY <1>4, <2>1, Zenon DEF IsDelivery
<1>6. TodoOf(g) = Todo
  BY <1>1, <1>4 DEF TodoOf
<1>7. f.at \in Nat
  BY <1>1 DEF IsDelivery
<1>8. f.left => \E j \in DOMAIN Todo : j < g.at /\ Todo[j].takes = g.passes
  <2> SUFFICES ASSUME f.left PROVE \E j \in DOMAIN Todo : j < g.at /\ Todo[j].takes = g.passes
    OBVIOUS
  <2>1. PICK j \in DOMAIN Todo : j < f.at /\ Todo[j].takes = f.passes
    BY <1>1 DEF TakenBefore
  <2>2. j < g.at
    BY <1>1, <1>4, <1>7, <2>1
  <2> QED BY <1>4, <2>1, <2>2
<1>9. b => \E j \in DOMAIN Todo : j < g.at /\ Todo[j].takes = g.passes
  <2>1. f.at < g.at
    BY <1>4, <1>7
  <2> QED BY <1>2, <1>3, <1>4, <2>1
<1>10. TakenBefore(g)
  BY <1>4, <1>6, <1>8, <1>9, Zenon DEF TakenBefore
<1> QED BY <1>5, <1>10 DEF g, f

\* The innermost delivery may be replaced by one at the same place, and another
\* may follow at a later place.
LEMMA ReplaceInner ==
  ASSUME LeadOn(emits), emits # <<>>, NEW g, IsDelivery(g), TakenBefore(g),
         PlaceOf(g) = PlaceOf(emits[Len(emits)])
  PROVE  LET moved == [emits EXCEPT ![Len(emits)] = g] IN
         LeadOn(moved) /\ moved # <<>> /\ moved[Len(moved)] = g
<1> DEFINE moved == [emits EXCEPT ![Len(emits)] = g]
           n == Len(emits)
           S == {emits[i] : i \in DOMAIN emits} \cup {g}
<1>1. IsListed(emits) /\ emits \in Seq(S) /\ g \in S
  <2>1. emits \in Seq({emits[i] : i \in DOMAIN emits}) /\ IsListed(emits)
    BY DEF LeadOn, IsListed
  <2> QED BY <2>1, SeqMonotonic
<1>2. n \in Nat \ {0} /\ DOMAIN emits = 1 .. n
  <2>1. emits \in Seq({emits[i] : i \in DOMAIN emits})
    BY DEF LeadOn, IsListed
  <2> QED BY <2>1, EmptySeq, LenProperties
<1> HIDE DEF S
<1>3. /\ moved \in Seq(S) /\ Len(moved) = n
      /\ \A j \in 1 .. n : moved[j] = IF j = n THEN g ELSE emits[j]
  BY <1>1, <1>2, ExceptSeq
<1>4. IsListed(moved) /\ DOMAIN moved = 1 .. n
  BY <1>3, ListedIn, LenProperties
<1> HIDE DEF moved
<1>5. \A i \in 1 .. n : IsDelivery(moved[i]) /\ TakenBefore(moved[i]) /\ PlaceOf(moved[i]) = PlaceOf(emits[i])
  BY <1>2, <1>3 DEF LeadOn
<1>6. \A i, j \in DOMAIN moved : i < j => PlaceOf(moved[i]) < PlaceOf(moved[j])
  BY <1>2, <1>4, <1>5 DEF LeadOn
<1>7. LeadOn(moved)
  BY <1>4, <1>5, <1>6 DEF LeadOn
<1>8. moved[Len(moved)] = g /\ moved # <<>>
  <2>1. n \in 1 .. n
    BY <1>2
  <2> QED BY <1>2, <1>3, <1>4, <2>1, EmptyListed
<1> QED BY <1>7, <1>8 DEF moved

LEMMA PlacesAreNumbers ==
  ASSUME NEW f, IsDelivery(f)
  PROVE  PlaceOf(f) \in Nat
  BY DEF IsDelivery, PlaceOf, Place, Bases, Objects

LEMMA AppendLater ==
  ASSUME NEW list, LeadOn(list), list # <<>>, NEW g, IsDelivery(g), TakenBefore(g),
         PlaceOf(list[Len(list)]) < PlaceOf(g)
  PROVE  LeadOn(Append(list, g))
<1> DEFINE new == Append(list, g)
           n == Len(list)
<1>1. IsListed(list) /\ DOMAIN list = 1 .. n /\ n \in Nat \ {0}
  <2>1. list \in Seq({list[i] : i \in DOMAIN list})
    BY DEF LeadOn, IsListed
  <2> QED BY <2>1, EmptySeq, LenProperties DEF IsListed
<1>2. /\ IsListed(new) /\ DOMAIN new = 1 .. n + 1
      /\ \A i \in 1 .. n : new[i] = list[i]
      /\ new[n + 1] = g
  BY <1>1, ListedAndOne
<1> HIDE DEF new
<1>3. \A i \in 1 .. n : IsDelivery(list[i]) /\ TakenBefore(list[i]) /\ PlaceOf(list[i]) \in Nat
  BY <1>1, PlacesAreNumbers DEF LeadOn
<1>4. \A i, j \in 1 .. n : i < j => PlaceOf(list[i]) < PlaceOf(list[j])
  BY <1>1 DEF LeadOn
<1>5. PlaceOf(g) \in Nat
  BY PlacesAreNumbers
<1>6. \A i \in 1 .. n : PlaceOf(list[i]) < PlaceOf(g)
  BY <1>1, <1>3, <1>4, <1>5
<1>7. ASSUME NEW i \in DOMAIN new, NEW j \in DOMAIN new, i < j
      PROVE  PlaceOf(new[i]) < PlaceOf(new[j])
  <2>1. CASE j = n + 1
    <3>1. i \in 1 .. n
      BY <1>1, <1>2, <1>7, <2>1
    <3> QED BY <3>1, <2>1, <1>2, <1>6
  <2>2. CASE j # n + 1
    <3>1. i \in 1 .. n /\ j \in 1 .. n
      BY <1>1, <1>2, <1>7, <2>2
    <3> QED BY <3>1, <1>2, <1>4, <1>7
  <2> QED BY <2>1, <2>2
<1>8. \A i \in DOMAIN new : IsDelivery(new[i]) /\ TakenBefore(new[i])
  BY <1>1, <1>2, <1>3
<1> QED BY <1>2, <1>7, <1>8 DEF LeadOn, new

LEMMA CallKeeps == ASSUME EventsInv, Call PROVE EventsInv'
<1> DEFINE b == Fits /\ LeavesNothing
           g == Advanced(Latest, b)
           moved == [emits EXCEPT ![Len(emits)] = g]
           w == IF Current.sets \in wired THEN <<>> ELSE Wires(Current.sets)
           then == IF Current.to = "" THEN moved ELSE Append(moved, Delivery(Current.to, Current.emit))
<1>1. Delivering /\ Add(w, Current.sets, then)
  BY DEF Call, Advanced, Latest
<1>2. SoundWires(w, Current.sets) /\ (Current.sets \notin wired \/ w = <<>>)
  BY SoundNothing, WiresAreSound
<1>3. emits # <<>> /\ LeadOn(emits)
  BY <1>1 DEF Delivering, EventsInv
<1>4. IsDelivery(Latest) /\ Latest = emits[Len(emits)]
  BY <1>3, InnerDelivery
<1>5. b => Current.takes = Latest.passes
  BY DEF Fits
<1> HIDE DEF b
<1>6. IsDelivery(g) /\ TakenBefore(g)
  BY <1>1, <1>5, AdvancedIsDelivery
<1>7. g.on = Latest.on /\ g.event = Latest.event
  BY <1>4, AdvancedFields
<1> HIDE DEF g
<1>8. LeadOn(moved) /\ moved # <<>> /\ moved[Len(moved)] = g
  BY <1>3, <1>4, <1>6, <1>7, ReplaceInner DEF PlaceOf
<1> HIDE DEF moved
<1>9. LeadOn(then)
  <2>1. CASE Current.to = ""
    BY <2>1, <1>8
  <2>2. CASE Current.to # ""
    <3> DEFINE d == Delivery(Current.to, Current.emit)
    <3>1. SoundListener(Current) /\ Current.on = Latest.on /\ Current.event = Latest.event
      BY <1>1, CurrentListener
    <3>2. /\ Current.to \in Objects /\ Current.emit.event \in EventNames
          /\ Comes(Current.to, Current.emit.event, Current.emit.passes)
          /\ Place(Current.on, Current.event) < Place(Current.to, Current.emit.event)
      BY <2>2, <3>1 DEF SoundListener, LeadsOn
    <3>3. IsDelivery(d) /\ TakenBefore(d)
      BY <3>2, DeliveryIsOne
    <3>4. d.on = Current.to /\ d.event = Current.emit.event
      BY DeliveryFields
    <3> HIDE DEF d
    <3>5. PlaceOf(g) < PlaceOf(d)
      BY <1>7, <3>1, <3>2, <3>4 DEF PlaceOf
    <3>6. LeadOn(Append(moved, d))
      BY <1>8, <3>3, <3>5, AppendLater
    <3> QED BY <2>2, <3>6 DEF d
  <2> QED BY <2>1, <2>2
<1> HIDE DEF then, w
<1> QED BY <1>1, <1>2, <1>9, AddKeeps

\* What it takes for the next deliveries to be right.
LEMMA LeadsNow ==
  ASSUME NEW then, emits' = then, IsListed(then),
         \A i \in DOMAIN then : IsDelivery(then[i]),
         \A i \in DOMAIN then : then[i].left =>
           LET todo == registry'[<<then[i].on, then[i].event>>] IN
           \E j \in DOMAIN todo : j < then[i].at /\ todo[j].takes = then[i].passes,
         \A i, j \in DOMAIN then : i < j => PlaceOf(then[i]) < PlaceOf(then[j])
  PROVE  LeadOn(emits)'
  BY Zenon DEF LeadOn, TakenBefore, TodoOf, IsDelivery, PlaceOf

\* The deliveries around the innermost one are of other events.
LEMMA OuterDeliveries ==
  ASSUME EventsInv, emits # <<>>, NEW i \in 1 .. Len(emits) - 1
  PROVE  /\ IsDelivery(emits[i]) /\ TakenBefore(emits[i])
         /\ <<emits[i].on, emits[i].event>> # <<Latest.on, Latest.event>>
<1> DEFINE f == emits[i]
           n == Len(emits)
<1>1. DOMAIN emits = 1 .. n /\ n \in Nat \ {0} /\ Latest = emits[n] /\ IsDelivery(Latest)
  BY InnerDelivery
<1>2. i \in DOMAIN emits /\ n \in DOMAIN emits /\ i < n
  BY <1>1
<1>3. PlaceOf(emits[i]) < PlaceOf(emits[n]) /\ IsDelivery(f) /\ TakenBefore(f)
  BY <1>2 DEF EventsInv, LeadOn
<1>4. PlaceOf(f) \in Nat /\ PlaceOf(Latest) \in Nat
  BY <1>1, <1>3, PlacesAreNumbers
<1>5. PlaceOf(f) # PlaceOf(Latest)
  BY <1>1, <1>3, <1>4
<1> QED BY <1>3, <1>5 DEF PlaceOf

LEMMA EndKeeps == ASSUME EventsInv, EndDelivery PROVE EventsInv'
<1> DEFINE key == <<Latest.on, Latest.event>>
           K == {i \in DOMAIN Todo : ~Todo[i].once}
           kept == Keep(Todo, K)
           n == Len(emits)
<1>1. /\ emits # <<>> /\ registry' = [registry EXCEPT ![key] = kept]
      /\ emits' = SubSeq(emits, 1, n - 1) /\ UNCHANGED <<wired, failed>>
  BY DEF EndDelivery, Todo
<1>2. /\ DOMAIN emits = 1 .. n /\ n \in Nat \ {0}
      /\ IsDelivery(Latest) /\ SoundList(Todo, key)
  BY <1>1, InnerDelivery
<1>3. key \in Keys /\ Todo = registry[key] /\ DOMAIN registry = Keys
  BY <1>2 DEF IsDelivery, Keys, Todo, EventsInv, ListsAreSound
<1>4. K \in SUBSET DOMAIN Todo
  OBVIOUS
<1> HIDE DEF K
<1>5. IsListed(kept) /\ From(kept, Todo, K)
  BY <1>2, <1>4, ListedKeep DEF SoundList
<1> HIDE DEF key, kept, n
<1>6. PICK f \in [DOMAIN kept -> K] :
        /\ \A k \in DOMAIN kept : kept[k] = Todo[f[k]]
        /\ \A k, m \in DOMAIN kept : f[k] = f[m] => k = m
  BY <1>5 DEF From
<1>7. \A k \in DOMAIN kept : f[k] \in DOMAIN Todo /\ kept[k] = Todo[f[k]]
  BY <1>4, <1>6
<1>8. registry'[key] = kept /\ \A other \in Keys \ {key} : registry'[other] = registry[other]
  BY <1>1, <1>3
<1>9. ListsAreSound'
  <2>1. SoundList(kept, key)
    BY <1>2, <1>5, <1>7 DEF SoundList
  <2>2. \A other \in Keys \ {key} : SoundList(registry'[other], other)
    BY <1>8 DEF EventsInv, ListsAreSound
  <2>3. DOMAIN registry' = Keys
    BY <1>1, <1>3
  <2> QED BY <1>8, <2>1, <2>2, <2>3 DEF ListsAreSound
<1>10. OneOfEach'
  <2>1. ASSUME NEW s \in Sole
        PROVE  LET list == registry'[KeyOf(s)] IN
               /\ \A i \in DOMAIN list : SoleFn(list[i], s) => s[3] \in wired
               /\ \A i, j \in DOMAIN list : SoleFn(list[i], s) /\ SoleFn(list[j], s) => i = j
    <3>1. LET list == registry[KeyOf(s)] IN
          /\ \A i \in DOMAIN list : SoleFn(list[i], s) => s[3] \in wired
          /\ \A i, j \in DOMAIN list : SoleFn(list[i], s) /\ SoleFn(list[j], s) => i = j
      BY DEF EventsInv, OneOfEach
    <3>2. KeyOf(s) \in Keys
      BY SoleKeys
    <3>3. CASE KeyOf(s) # key
      BY <3>1, <3>2, <3>3, <1>8
    <3>4. CASE KeyOf(s) = key
      <4>1. /\ \A i \in DOMAIN Todo : SoleFn(Todo[i], s) => s[3] \in wired
            /\ \A i, j \in DOMAIN Todo : SoleFn(Todo[i], s) /\ SoleFn(Todo[j], s) => i = j
        BY <3>1, <3>4, <1>3
      <4>2. /\ \A i \in DOMAIN kept : SoleFn(kept[i], s) => s[3] \in wired
            /\ \A i, j \in DOMAIN kept : SoleFn(kept[i], s) /\ SoleFn(kept[j], s) => i = j
        BY <4>1, <1>6, <1>7
      <4> QED BY <4>2, <3>4, <1>8
    <3> QED BY <3>3, <3>4
  <2>2. "" \notin wired
    BY DEF EventsInv, OneOfEach
  <2> QED BY <2>1, <2>2, <1>1 DEF OneOfEach
<1>11. LeadOn(emits)'
  <2> DEFINE left == SubSeq(emits, 1, n - 1)
             S == {emits[i] : i \in DOMAIN emits}
  <2>1. \A i \in 1 .. n - 1 : emits[i] \in S
    BY <1>2
  <2> HIDE DEF S
  <2>2. /\ left \in Seq(S) /\ Len(left) = n - 1
        /\ \A i \in 1 .. n - 1 : left[i] = emits[i]
    <3>1. n - 1 \in Int /\ 1 \in Int
      BY <1>2
    <3>2. /\ left \in Seq(S) /\ Len(left) = IF 1 <= n - 1 THEN n - 1 - 1 + 1 ELSE 0
          /\ \A i \in 1 .. n - 1 - 1 + 1 : left[i] = emits[1 + i - 1]
      BY <2>1, <3>1, SubSeqProperties
    <3> QED BY <1>2, <3>2
  <2>3. IsListed(left) /\ DOMAIN left = 1 .. n - 1
    BY <2>2, ListedIn, LenProperties
  <2> HIDE DEF left
  <2>4. ASSUME NEW i \in 1 .. n - 1
        PROVE  /\ IsDelivery(emits[i]) /\ TakenBefore(emits[i])
               /\ registry'[<<emits[i].on, emits[i].event>>] = registry[<<emits[i].on, emits[i].event>>]
    <3>1. /\ IsDelivery(emits[i]) /\ TakenBefore(emits[i])
          /\ <<emits[i].on, emits[i].event>> # key
      BY <1>1, OuterDeliveries DEF n, key
    <3>2. <<emits[i].on, emits[i].event>> \in Keys
      BY <3>1 DEF IsDelivery, Keys
    <3> QED BY <3>1, <3>2, <1>8
  <2>5. \A i, j \in 1 .. n - 1 : i < j => PlaceOf(emits[i]) < PlaceOf(emits[j])
    BY <1>2 DEF EventsInv, LeadOn
  <2>6. \A i, j \in DOMAIN left : i < j => PlaceOf(left[i]) < PlaceOf(left[j])
    BY <2>2, <2>3, <2>5
  <2>7. ASSUME NEW i \in DOMAIN left, left[i].left
        PROVE  LET todo == registry'[<<left[i].on, left[i].event>>] IN
               \E j \in DOMAIN todo : j < left[i].at /\ todo[j].takes = left[i].passes
    <3>1. i \in 1 .. n - 1 /\ left[i] = emits[i]
      BY <2>2, <2>3
    <3>2. PICK j \in DOMAIN TodoOf(emits[i]) : j < emits[i].at /\ TodoOf(emits[i])[j].takes = emits[i].passes
      BY <2>4, <2>7, <3>1 DEF TakenBefore
    <3> QED BY <2>4, <3>1, <3>2 DEF TodoOf
  <2>8. \A i \in DOMAIN left : IsDelivery(left[i])
    BY <2>2, <2>3, <2>4
  <2>9. emits' = left
    BY <1>1 DEF left
  <2> QED BY <2>3, <2>6, <2>7, <2>8, <2>9, LeadsNow
<1>12. ListenersFit' /\ NullOnlyBehindTheProgram'
  BY <1>1, StillRight DEF EventsInv
<1> QED BY <1>9, <1>10, <1>11, <1>12 DEF EventsInv

-----------------------------------------------------------------------------
LEMMA StartsRight == ASSUME EventsInit PROVE EventsInv
<1>1. DOMAIN registry = Keys /\ \A key \in Keys : registry[key] = <<>>
  BY DEF EventsInit, Keys
<1>2. ListsAreSound
  BY <1>1, EmptyListed DEF ListsAreSound, SoundList
<1>3. OneOfEach
  <2>1. \A s \in Sole : registry[KeyOf(s)] = <<>>
    BY <1>1, SoleKeys
  <2>2. "" \notin wired
    BY DEF EventsInit
  <2> QED BY <2>1, <2>2, EmptyListed DEF OneOfEach
<1>4. LeadOn(emits)
  BY NothingLeads DEF EventsInit
<1>5. failed.how = ""
  BY DEF EventsInit, Nobody
<1> QED BY <1>2, <1>3, <1>4, <1>5 DEF EventsInv, ListenersFit, NullOnlyBehindTheProgram

LEMMA EventsStandStill == ASSUME EventsInv, UNCHANGED eventVars PROVE EventsInv'
<1>1. UNCHANGED <<registry, wired, emits, failed>>
  BY DEF eventVars
<1>2. ListsAreSound' /\ OneOfEach'
  BY <1>1 DEF EventsInv, ListsAreSound, OneOfEach
<1>3. LeadOn(emits)'
  BY <1>1 DEF EventsInv, LeadOn, TakenBefore, TodoOf
<1> QED BY <1>1, <1>2, <1>3, StillRight DEF EventsInv

\* The invariant holds of every server, however many listeners the program
\* registers, wherever and whenever it does.
THEOREM EventsAreWired == EventsSpec => []EventsInv
<1>1. EventsInv /\ [EventsNext]_eventVars => EventsInv'
  <2> SUFFICES ASSUME EventsInv, [EventsNext]_eventVars PROVE EventsInv'
    OBVIOUS
  <2>1. CASE SetUp
    BY <2>1, SetUpKeepsInv
  <2>2. CASE On
    BY <2>2, OnKeeps
  <2>3. CASE CloseWhenWritesCompleted
    BY <2>3, CloseKeeps
  <2>4. CASE EmitEvent
    BY <2>4, EmitKeeps
  <2>5. CASE Call
    BY <2>5, CallKeeps
  <2>6. CASE Misfit
    BY <2>6, MisfitKeeps
  <2>7. CASE UseLeft
    BY <2>7, UseLeftKeeps
  <2>8. CASE EndDelivery
    BY <2>8, EndKeeps
  <2>9. CASE UNCHANGED eventVars
    BY <2>9, EventsStandStill
  <2> QED BY <2>1, <2>2, <2>3, <2>4, <2>5, <2>6, <2>7, <2>8, <2>9 DEF EventsNext
<1> QED BY <1>1, StartsRight, PTL DEF EventsSpec

\* ListenersFit of the whole server: but for the functions whose listeners never
\* fit and the errors and exits that arrive bare, no emit meets a listener of
\* another type (the calls of BaseEventEmitterImpl's emit).
THEOREM ListenersAreRight == EventsSpec => []ListenersFit
<1>1. EventsInv => ListenersFit
  BY DEF EventsInv
<1> QED BY <1>1, EventsAreWired, PTL

\* NullOnlyBehindTheProgram of the whole server: the library's listeners meet an
\* argument that is gone only behind a listener of the program, or when the
\* program lets a stream close itself that a response listens to.
THEOREM NullsComeFromTheProgram == EventsSpec => []NullOnlyBehindTheProgram
<1>1. EventsInv => NullOnlyBehindTheProgram
  BY DEF EventsInv
<1> QED BY <1>1, EventsAreWired, PTL

=============================================================================
