------------------------- MODULE ErrorDelegationProofs -------------------------
(* Proofs about ErrorDelegation.                                           *)
EXTENDS ErrorDelegation, TLAPS, FiniteSetTheorems, SequenceTheorems

-----------------------------------------------------------------------------
(* The inductive invariant for NothingEscapes: without its excuses the      *)
(* emits that run are a way through the wires that meets no object twice,   *)
(* and so nothing is refused.                                               *)

Wired ==
  /\ listeners \in [Objects -> Seq([kind : {"program", "on_error", "delegate_to"},
                                    to : Objects \cup {NoObject}])]
  /\ \A o \in Objects : Len(listeners[o]) <= MaxWires
  /\ \A w \in Wires : PassesOn(w) => listeners[w[1]][w[2]].to \in Objects

\* Objects are connected before the first handler runs.
Untouched ==
  /\ stack = <<>> /\ depth = [o \in Objects |-> 0]
  /\ handler = Idle /\ ~flying /\ ~escaped /\ ~thrown

Names == {"description", "message", "category", "error_code", "derived_error", "where"}
Layers == [keys : Seq(Names), frozen : BOOLEAN, exception : BOOLEAN]
Emits == [on : Objects, at : Nat \ {0}, error : Seq(Layers), path : Seq(Objects \X Nat)]

\* The listener that the loop of emit f has called last emits on o: without an
\* error only if it is delegate_to's.
Leads(f, o, error) ==
  /\ f.at > 1 /\ PassesOn(<<f.on, f.at - 1>>)
  /\ listeners[f.on][f.at - 1].to = o
  /\ error = NoError => listeners[f.on][f.at - 1].kind = "delegate_to"

On(s, o) == \E i \in DOMAIN s : s[i].on = o

OneWay(s) ==
  /\ s \in Seq(Emits)
  /\ \A i \in DOMAIN s : s[i].at <= Len(listeners[s[i].on]) + 1
  /\ \A i, j \in DOMAIN s : s[i].on = s[j].on => i = j
  /\ s # <<>> => s[1].error # NoError
  /\ \A i \in 1 .. Len(s) - 1 : Leads(s[i], s[i + 1].on, s[i + 1].error)

Tidy ==
  /\ OneWay(stack)
  /\ depth = [o \in Objects |-> IF On(stack, o) THEN 1 ELSE 0]
  /\ handler = Idle \/ (handler.at \in {"func", "catch"} /\ handler.self \in Objects)
  /\ handler = Idle => stack = <<>>
  /\ flying => handler.at = "func" /\ stack = <<>>
  /\ ~escaped

Excused == thrown \/ \E o \in Objects : Loop(o) \/ Misfit(o)

NothingEscapesInv ==
  /\ Wired
  /\ handlers \in Nat /\ (handlers = 0 => Untouched)
  /\ Excused \/ Tidy

-----------------------------------------------------------------------------
(* The invariant for HeardAlongEachWay, whatever throws, loops or goes: the  *)
(* emits that run are a way, each carries what is to be heard next, and of   *)
(* the ways that turn off before it all that end at a listener of the        *)
(* program, and nothing else, have been heard.                               *)
Passed(s, k) == <<s[k].on, s[k].at - 1>>

Trail(s) ==
  /\ s \in Seq(Emits)
  /\ \A i \in DOMAIN s :
       /\ s[i].at <= Len(listeners[s[i].on]) + 1
       /\ s[i].path = [k \in 1 .. i - 1 |-> Passed(s, k)]
       /\ s[i].error = NoError <=> Along(s[i].path, "delegate_to") # {}
  /\ \A i \in 1 .. Len(s) - 1 :
       /\ s[i].at > 1 /\ PassesOn(Passed(s, i))
       /\ listeners[s[i].on][s[i].at - 1].to = s[i + 1].on

\* The listener that emit f is at gets what News says of the way to it.
Carries(f, exception) ==
  LET p == Append(f.path, <<f.on, f.at>>)
      gone == {k \in DOMAIN p : Late(p[k])} IN
  f.error # NoError =>
    /\ \E begin \in 1 .. Len(p) :
         /\ IF gone = {} THEN begin = 1 ELSE begin \in gone /\ \A l \in gone : l <= begin
         /\ Len(f.error) = 1 + Len(p) - begin
    /\ Described(f.error[1]) <=> Len(p) \notin gone
    /\ HasException(f.error) <=> exception /\ gone = {}

\* The emits on one object have taken different values of its counter.
Numbered(s, d) ==
  /\ \A i \in DOMAIN s : d[i] <= depth[s[i].on]
  /\ \A i, j \in DOMAIN s : i < j /\ s[i].on = s[j].on => d[i] < d[j]

Deepest == Cardinality(Objects) * DepthLimit

\* The loop in which p turns off from the emits is past the listener p takes.
Done(s, p) ==
  \E i \in DOMAIN s \cap DOMAIN p :
    /\ \A k \in 1 .. i - 1 : p[k] = Passed(s, k)
    /\ p[i][1] = s[i].on
    /\ p[i][2] < IF i = Len(s) THEN s[i].at ELSE s[i].at - 1

Ending(p) == ~PassesOn(p[Len(p)]) /\ Along(p, "delegate_to") = {}

OnItsWay(s, o, exception, news, whole) ==
  /\ Trail(s) /\ s # <<>> /\ s[1].on = o
  /\ \A i \in DOMAIN s : Carries(s[i], exception)
  /\ \A h \in news :
       \E n \in 1 .. Deepest : \E p \in Ways(o, n) :
         Ending(p) /\ Done(s, p) /\ h = News(p, exception)
  /\ whole =>
       /\ \A n \in 1 .. Cardinality(Objects) : \A p \in Ways(o, n) :
            Ending(p) /\ Done(s, p) => News(p, exception) \in news
       /\ \A p \in Ways(o, Deepest) : PassesOn(p[Deepest]) => ~Done(s, p)

HeardInv ==
  /\ owned \subseteq Objects /\ depth \in [Objects -> Nat]
  /\ handler = Idle \/ (handler.at \in {"func", "catch"} /\ handler.self \in Objects)
  /\ handler = Idle => stack = <<>>
  /\ handler.at = "func" /\ ~handler.emitted => heard = {} /\ stack = <<>>
  /\ flying => stack = <<>>
  /\ stack # <<>> =>
       /\ OnItsWay(stack, handler.self, handler.at = "catch", heard, owned = Objects)
       /\ \E d \in [1 .. Len(stack) -> 1 .. DepthLimit] : Numbered(stack, d)
  /\ HeardAlongEachWay

-----------------------------------------------------------------------------
(* Remainders, for ways that go round a loop.                               *)

LEMMA SmallMultiple ==
  ASSUME NEW a \in Int, NEW n \in Nat \ {0}, n * a >= 0, n * a < n
  PROVE  a = 0
<1>1. CASE a >= 1
  <2>1. n * a >= n
    BY <1>1
  <2> QED BY <2>1
<1>2. CASE a <= -1
  <2>1. n * a < 0
    BY <1>2
  <2> QED BY <2>1
<1> QED BY <1>1, <1>2

LEMMA Remainder ==
  ASSUME NEW k \in Nat, NEW n \in Nat \ {0}
  PROVE  /\ k % n \in 0 .. n - 1
         /\ (k + 1) % n = IF k % n = n - 1 THEN 0 ELSE (k % n) + 1
<1> DEFINE m == k % n
           q == k \div n
           l == (k + 1) % n
           r == (k + 1) \div n
<1>1. k = n * q + m /\ m \in 0 .. n - 1 /\ q \in Nat
  OBVIOUS
<1>2. k + 1 = n * r + l /\ l \in 0 .. n - 1 /\ r \in Nat
  OBVIOUS
<1> HIDE DEF m, q, l, r
<1>3. r - q \in Int /\ q - r \in Int /\ q + 1 - r \in Int
  BY <1>1, <1>2
<1>4. n * (r - q) = n * r - n * q /\ n * (q - r) = n * q - n * r
  BY <1>1, <1>2
<1>5. CASE m = n - 1
  <2>1. n * (q + 1) = n * q + n
    BY <1>1
  <2>2. n * (q + 1 - r) = n * (q + 1) - n * r
    BY <1>1, <1>2
  <2>3. n * (q + 1 - r) = l
    BY <2>1, <2>2, <1>1, <1>2, <1>5
  <2>4. q + 1 - r = 0
    BY <2>3, <1>2, <1>3, SmallMultiple
  <2>5. n * (q + 1) = n * r
    BY <2>4, <1>1, <1>2
  <2> QED BY <2>5, <2>1, <1>5, <1>1, <1>2 DEF m, l
<1>6. CASE m # n - 1
  <2>1. l = m + 1
    <3>1. CASE m + 1 >= l
      <4>1. n * (r - q) = m + 1 - l /\ m + 1 - l < n
        BY <1>1, <1>2, <1>4, <1>6
      <4>2. r - q = 0
        BY <4>1, <3>1, <1>1, <1>2, <1>3, SmallMultiple
      <4>3. n * (r - q) = 0
        BY <4>2
      <4> QED BY <4>1, <4>3, <1>1, <1>2
    <3>2. CASE m + 1 < l
      <4>1. n * (q - r) = l - (m + 1)
        BY <1>1, <1>2, <1>4
      <4>2. n * (q - r) >= 0 /\ n * (q - r) < n
        BY <4>1, <3>2, <1>1, <1>2
      <4>3. q - r = 0
        BY <4>2, <1>3, SmallMultiple
      <4>4. n * (q - r) = 0
        BY <4>3
      <4> QED BY <4>1, <4>4, <1>1, <1>2
    <3> QED BY <3>1, <3>2, <1>1, <1>2
  <2> QED BY <2>1, <1>1, <1>6 DEF m, l
<1> QED BY <1>1, <1>5, <1>6 DEF m, l

-----------------------------------------------------------------------------
(* Errors: what is emitted, wrapped or left is an error.                    *)

Fresh(e) == e \in Seq(Layers) /\ e # NoError /\ ~e[1].frozen

LEMMA AddIsFresh ==
  ASSUME NEW e, Fresh(e), NEW key \in Names
  PROVE  Fresh(Add(e, key))
<1>1. Len(e) \in Nat \ {0} /\ e[1] \in Layers
  BY DEF Fresh, NoError
<1>2. Add(e, key) = [e EXCEPT ![1].keys = Append(@, key)]
  BY DEF Fresh, Add, Frozen
<1> DEFINE l == [e[1] EXCEPT !.keys = Append(@, key)]
<1>3. l \in Layers /\ ~l.frozen
  <2>1. Append(e[1].keys, key) \in Seq(Names)
    BY <1>1 DEF Layers
  <2> QED BY <2>1, <1>1 DEF Layers, Fresh
<1>4. Add(e, key) = [e EXCEPT ![1] = l]
  BY <1>2
<1> HIDE DEF l
<1> QED BY <1>1, <1>3, <1>4 DEF Fresh, NoError

LEMMA NewIsFresh ==
  ASSUME NEW b \in BOOLEAN
  PROVE  Fresh(Layer(<<"description">>, b))
<1> DEFINE l == [keys |-> <<"description">>, frozen |-> FALSE, exception |-> b]
<1>1. <<"description">> \in Seq(Names)
  BY DEF Names
<1>2. l \in Layers /\ ~l.frozen
  BY <1>1 DEF Layers
<1> HIDE DEF l
<1>3. <<l>> \in Seq(Layers) /\ <<l>> # <<>> /\ <<l>>[1] = l
  BY <1>2
<1>4. Fresh(<<l>>)
  BY <1>2, <1>3 DEF Fresh, NoError
<1> QED BY <1>4, Zenon DEF Layer, l

LEMMA EmittedIsError ==
  /\ Plain \in Seq(Layers) /\ Plain # NoError
  /\ Raised \in Seq(Layers) /\ Raised # NoError
<1>1. Fresh(NewError) /\ Fresh(ExceptionError)
  BY NewIsFresh DEF NewError, ExceptionError
<1>2. "where" \in Names
  BY DEF Names
<1>3. Fresh(Plain) /\ Fresh(Raised)
  BY <1>1, <1>2, AddIsFresh, Zenon DEF Plain, Raised
<1> QED BY <1>3 DEF Fresh

LEMMA WrapIsError ==
  ASSUME NEW e \in Seq(Layers)
  PROVE  Wrap(e) \in Seq(Layers) /\ Wrap(e) # NoError
<1> DEFINE n == Add(Add(NewError, "derived_error"), "where")
<1>1. Fresh(n)
  <2>1. Fresh(NewError)
    BY NewIsFresh DEF NewError
  <2>2. "derived_error" \in Names /\ "where" \in Names
    BY DEF Names
  <2>3. Fresh(Add(NewError, "derived_error"))
    BY <2>1, <2>2, AddIsFresh
  <2> QED BY <2>2, <2>3, AddIsFresh DEF n
<1> HIDE DEF n
<1>2. Wrap(e) = <<Freeze(n)[1]>> \o e
  BY <1>1 DEF Wrap, AddChild, Fresh, Frozen, Copy, n
<1>3. Freeze(n)[1] \in Layers
  <2>1. n \in Seq(Layers) /\ 1 \in DOMAIN n /\ n[1] \in Layers
    BY <1>1 DEF Fresh, NoError
  <2> DEFINE l == [n[1] EXCEPT !.frozen = TRUE]
  <2>2. Freeze(n) = [n EXCEPT ![1] = l]
    BY DEF Freeze
  <2>3. l \in Layers
    BY <2>1 DEF Layers
  <2> HIDE DEF l
  <2> QED BY <2>1, <2>2, <2>3
<1> QED BY <1>2, <1>3 DEF NoError

LEMMA LeftIsError ==
  ASSUME NEW e \in Seq(Layers), e # NoError
  PROVE  Left(e) \in Seq(Layers) /\ Left(e) # NoError
<1> DEFINE l == [keys |-> <<>>, frozen |-> e[1].frozen, exception |-> FALSE]
<1>1. l \in Layers
  <2>1. e[1] \in Layers
    BY DEF NoError
  <2>2. <<>> \in Seq(Names)
    OBVIOUS
  <2> QED BY <2>1, <2>2 DEF Layers
<1> HIDE DEF l
<1>2. <<l>> \in Seq(Layers) /\ <<l>> # <<>>
  BY <1>1
<1> QED BY <1>2 DEF Left, NoError, l

-----------------------------------------------------------------------------
(* Ways through the wires.                                                  *)

\* Listeners that pass errors round in a circle make a loop as Loop has it,
\* however few they are: an error that goes round takes a way of any length.
LEMMA CircleIsLoop ==
  ASSUME NEW n \in Nat \ {0}, NEW c \in [0 .. n - 1 -> Wires],
         \A i \in 0 .. n - 1 :
           /\ PassesOn(c[i])
           /\ listeners[c[i][1]][c[i][2]].to = c[IF i = n - 1 THEN 0 ELSE i + 1][1]
  PROVE  Loop(c[0][1])
<1> DEFINE N == Cardinality(Objects)
           p == [k \in 1 .. N + 1 |-> c[(k - 1) % n]]
<1>1. N \in Nat
  BY FS_CardinalityType, DelegationAssumption
<1> HIDE DEF N
<1>2. \A k \in 1 .. N + 1 : k - 1 \in Nat /\ (k - 1) % n \in 0 .. n - 1
  BY <1>1, Remainder
<1>3. p \in [1 .. N + 1 -> Wires] /\ Len(p) = N + 1 /\ N + 1 \in 1 .. N + 1
  BY <1>1, <1>2
<1>4. p[1][1] = c[0][1]
  <2>1. 0 % n = 0
    OBVIOUS
  <2>2. p[1] = c[(1 - 1) % n]
    BY <1>1
  <2> QED BY <2>1, <2>2
<1>5. \A k \in 1 .. N + 1 : PassesOn(p[k])
  BY <1>2
<1>6. ASSUME NEW k \in 1 .. (N + 1) - 1
      PROVE  listeners[p[k][1]][p[k][2]].to = p[k + 1][1]
  <2> DEFINE i == (k - 1) % n
  <2>1. k - 1 \in Nat /\ k \in 1 .. N + 1 /\ k + 1 \in 1 .. N + 1 /\ (k + 1) - 1 = (k - 1) + 1
    BY <1>1
  <2>2. i \in 0 .. n - 1 /\ ((k + 1) - 1) % n = IF i = n - 1 THEN 0 ELSE i + 1
    BY <2>1, Remainder
  <2>3. p[k] = c[i] /\ p[k + 1] = c[((k + 1) - 1) % n]
    BY <2>1
  <2> HIDE DEF i, p
  <2> QED BY <2>2, <2>3
<1> HIDE DEF p
<1>7. p \in Ways(c[0][1], N + 1)
  BY <1>3, <1>4, <1>5, <1>6, <1>1 DEF Ways
<1> QED BY <1>3, <1>5, <1>7 DEF Loop, N

\* Emits on different objects are no more than there are objects.
LEMMA OneWayIsShort ==
  ASSUME NEW s, OneWay(s)
  PROVE  Len(s) \in Nat /\ Len(s) <= Cardinality(Objects)
<1> DEFINE f == [i \in 1 .. Len(s) |-> s[i].on]
<1>1. /\ s \in Seq(Emits) /\ Len(s) \in Nat /\ DOMAIN s = 1 .. Len(s)
      /\ \A i \in DOMAIN s : s[i] \in Emits
  BY DEF OneWay
<1>2. f \in [1 .. Len(s) -> Objects]
  BY <1>1 DEF Emits
<1>3. \A i, j \in 1 .. Len(s) : f[i] = f[j] => i = j
  BY <1>1 DEF OneWay
<1>4. f \in Injection(1 .. Len(s), Objects)
  BY <1>2, <1>3 DEF Injection, IsInjective
<1>5. Cardinality(1 .. Len(s)) <= Cardinality(Objects)
  BY <1>4, FS_Injection, DelegationAssumption
<1>6. Cardinality(1 .. Len(s)) = Len(s)
  <2> DEFINE n == Len(s)
  <2>1. n \in Nat
    BY <1>1
  <2> HIDE DEF n
  <2>2. Cardinality(1 .. n) = IF 1 > n THEN 0 ELSE n - 1 + 1
    BY <2>1, FS_Interval
  <2>3. (IF 1 > n THEN 0 ELSE n - 1 + 1) = n
    BY <2>1
  <2> QED BY <2>2, <2>3 DEF n
<1> QED BY <1>1, <1>5, <1>6

\* The listeners at which the emits of stack wait, and the one it is at.
Way == [i \in 1 .. Len(stack) |->
          <<stack[i].on, IF i = Len(stack) THEN stack[i].at ELSE stack[i].at - 1>>]
At(i) == listeners[Way[i][1]][Way[i][2]]

LEMMA WireIsPlace ==
  ASSUME Wired, NEW o \in Objects, NEW i \in Nat \ {0}, i <= Len(listeners[o])
  PROVE  <<o, i>> \in Wires /\ i \in DOMAIN listeners[o]
<1>1. listeners[o] \in Seq([kind : {"program", "on_error", "delegate_to"},
                            to : Objects \cup {NoObject}])
  BY DEF Wired
<1>2. Len(listeners[o]) <= MaxWires /\ Len(listeners[o]) \in Nat /\ MaxWires \in Nat
  BY <1>1, DelegationAssumption DEF Wired
<1>3. i \in 1 .. MaxWires
  BY <1>2
<1> QED BY <1>1, <1>2, <1>3 DEF Wires

LEMMA StackIsWay ==
  ASSUME Wired, OneWay(stack), stack # <<>>, Top.at <= Len(listeners[Top.on])
  PROVE  /\ Len(stack) \in Nat \ {0}
         /\ Way \in [1 .. Len(stack) -> Wires]
         /\ \A i \in 1 .. Len(stack) : Way[i][1] = stack[i].on
         /\ \A i \in 1 .. Len(stack) - 1 :
              /\ PassesOn(Way[i]) /\ At(i).to = stack[i + 1].on
              /\ stack[i + 1].error = NoError => At(i).kind = "delegate_to"
         /\ Way[Len(stack)] = <<Top.on, Top.at>>
<1> DEFINE n == Len(stack)
<1>1. /\ n \in Nat \ {0} /\ DOMAIN stack = 1 .. n
      /\ \A i \in 1 .. n : stack[i] \in Emits
  <2>1. stack \in Seq(Emits)
    BY DEF OneWay
  <2> QED BY <2>1
<1>2. \A i \in 1 .. n : stack[i].on \in Objects /\ stack[i].at \in Nat \ {0}
  BY <1>1 DEF Emits
<1>3. /\ \A i \in 1 .. n - 1 : Leads(stack[i], stack[i + 1].on, stack[i + 1].error)
      /\ \A i \in 1 .. n : stack[i].at <= Len(listeners[stack[i].on]) + 1
  BY <1>1 DEF OneWay
<1>4. Way = [i \in 1 .. n |-> <<stack[i].on, IF i = n THEN stack[i].at ELSE stack[i].at - 1>>]
  BY DEF Way
<1>5. Top = stack[n]
  BY DEF Top
<1> HIDE DEF n
<1>6. n \in 1 .. n /\ \A i \in 1 .. n - 1 : i \in 1 .. n /\ i # n
  BY <1>1
<1>7. Way[n] = <<Top.on, Top.at>>
  BY <1>4, <1>5, <1>6
<1>8. \A i \in 1 .. n - 1 : Way[i] = <<stack[i].on, stack[i].at - 1>>
  BY <1>4, <1>6
<1>9. \A i \in 1 .. n : Way[i][1] = stack[i].on
  BY <1>4
<1>10. ASSUME NEW i \in 1 .. n PROVE Way[i] \in Wires
  <2>1. CASE i = n
    <3>1. Top.on \in Objects /\ Top.at \in Nat \ {0}
      BY <1>2, <1>5, <1>6
    <3> QED BY <2>1, <3>1, <1>7, WireIsPlace
  <2>2. CASE i # n
    <3>1. i \in 1 .. n - 1
      BY <2>2, <1>1
    <3>2. stack[i].at > 1 /\ stack[i].at \in Nat /\ stack[i].on \in Objects
      BY <3>1, <1>2, <1>3 DEF Leads
    <3> DEFINE l == Len(listeners[stack[i].on])
               a == stack[i].at
    <3>3. l \in Nat
      BY <3>2 DEF Wired
    <3>4. a <= l + 1 /\ a > 1 /\ a \in Nat
      BY <3>2, <1>3
    <3> HIDE DEF l, a
    <3>5. a - 1 \in Nat \ {0} /\ a - 1 <= l
      BY <3>3, <3>4
    <3>6. <<stack[i].on, a - 1>> \in Wires
      BY <3>2, <3>5, WireIsPlace DEF l
    <3> QED BY <3>1, <3>6, <1>8 DEF a
  <2> QED BY <2>1, <2>2
<1>11. Way \in [1 .. n -> Wires]
  <2>1. Way = [i \in 1 .. n |-> Way[i]]
    BY <1>4
  <2> QED BY <2>1, <1>10
<1>12. ASSUME NEW i \in 1 .. n - 1
       PROVE  /\ PassesOn(Way[i]) /\ At(i).to = stack[i + 1].on
              /\ stack[i + 1].error = NoError => At(i).kind = "delegate_to"
  <2>1. Leads(stack[i], stack[i + 1].on, stack[i + 1].error)
    BY <1>3
  <2>2. Way[i] = <<stack[i].on, stack[i].at - 1>>
    BY <1>8
  <2>3. At(i) = listeners[stack[i].on][stack[i].at - 1]
    BY <2>2 DEF At
  <2> QED BY <2>1, <2>2, <2>3 DEF Leads
<1> QED BY <1>1, <1>7, <1>9, <1>11, <1>12 DEF n

\* A listener that passes an error on to an object whose emit has not returned
\* closes a circle.
LEMMA PassedOnIsNew ==
  ASSUME Wired, OneWay(stack), stack # <<>>, Top.at <= Len(listeners[Top.on]),
         PassesOn(<<Top.on, Top.at>>), \A o \in Objects : ~Loop(o)
  PROVE  To \in Objects /\ ~On(stack, To)
<1> DEFINE n == Len(stack)
<1>1. /\ n \in Nat \ {0} /\ Way \in [1 .. n -> Wires]
      /\ \A i \in 1 .. n : Way[i][1] = stack[i].on
      /\ \A i \in 1 .. n - 1 : PassesOn(Way[i]) /\ At(i).to = Way[i + 1][1]
      /\ Way[n] = <<Top.on, Top.at>>
  <2>1. \A i \in 1 .. n - 1 : i + 1 \in 1 .. n
    BY StackIsWay
  <2> QED BY <2>1, StackIsWay
<1>2. Way[n] \in Wires /\ At(n).to = To
  BY <1>1 DEF At, To
<1>3. To \in Objects
  BY <1>1, <1>2 DEF Wired, At, To
<1>4. ASSUME NEW j \in 1 .. n, stack[j].on = To
      PROVE  FALSE
  <2> DEFINE m == (n - j) + 1
             c == [i \in 0 .. m - 1 |-> Way[j + i]]
  <2>1. /\ m \in Nat \ {0}
        /\ \A i \in 0 .. m - 1 : j + i \in 1 .. n
        /\ \A i \in 0 .. m - 1 : i # m - 1 => j + i \in 1 .. n - 1 /\ (j + i) + 1 = j + (i + 1)
        /\ j + (m - 1) = n /\ j + 0 = j /\ 0 \in 0 .. m - 1
    BY <1>1
  <2> HIDE DEF m, n
  <2>2. c \in [0 .. m - 1 -> Wires]
    BY <2>1, <1>1
  <2>3. ASSUME NEW i \in 0 .. m - 1
        PROVE  /\ PassesOn(c[i])
               /\ listeners[c[i][1]][c[i][2]].to = c[IF i = m - 1 THEN 0 ELSE i + 1][1]
    <3>1. CASE i = m - 1
      <4>1. c[i] = Way[n] /\ c[0] = Way[j]
        BY <3>1, <2>1
      <4> QED BY <3>1, <4>1, <1>1, <1>2, <1>4 DEF At
    <3>2. CASE i # m - 1
      <4>1. i + 1 \in 0 .. m - 1
        BY <3>2, <2>1
      <4>2. c[i] = Way[j + i] /\ c[i + 1] = Way[(j + i) + 1] /\ j + i \in 1 .. n - 1
        BY <3>2, <4>1, <2>1
      <4> HIDE DEF c
      <4> QED BY <3>2, <4>2, <1>1 DEF At
    <3> QED BY <3>1, <3>2
  <2>4. c[0][1] \in Objects
    BY <2>1, <2>2 DEF Wires
  <2> HIDE DEF c
  <2>5. Loop(c[0][1])
    BY <2>1, <2>2, <2>3, CircleIsLoop
  <2> QED BY <2>4, <2>5
<1>5. DOMAIN stack = 1 .. n
  BY DEF OneWay
<1> QED BY <1>3, <1>4, <1>5 DEF On

\* Where an emit without an error meets a listener that takes one, the way came
\* by a delegate_to.
LEMMA MisfitFound ==
  ASSUME Wired, OneWay(stack), stack # <<>>, Top.error = NoError,
         AtListener("program") \/ AtListener("on_error")
  PROVE  \E o \in Objects : Misfit(o)
<1> DEFINE n == Len(stack)
<1>1. Top.at <= Len(listeners[Top.on])
  BY DEF AtListener
<1>2. /\ n \in Nat \ {0} /\ Way \in [1 .. n -> Wires]
      /\ \A i \in 1 .. n : Way[i][1] = stack[i].on
      /\ \A i \in 1 .. n - 1 :
           /\ PassesOn(Way[i]) /\ At(i).to = stack[i + 1].on
           /\ stack[i + 1].error = NoError => At(i).kind = "delegate_to"
      /\ Way[n] = <<Top.on, Top.at>>
  BY <1>1, StackIsWay
<1>3. n # 1
  BY DEF OneWay, Top
<1>4. n \in 2 .. Cardinality(Objects)
  <2> DEFINE N == Cardinality(Objects)
  <2>1. N \in Nat /\ n <= N
    BY FS_CardinalityType, DelegationAssumption, OneWayIsShort
  <2> HIDE DEF n, N
  <2>2. n \in 2 .. N
    BY <2>1, <1>2, <1>3
  <2> QED BY <2>2 DEF N
<1>5. n - 1 \in 1 .. n - 1 /\ (n - 1) + 1 = n /\ n \in 1 .. n /\ 1 \in 1 .. n
      /\ n - 1 \in 1 .. n /\ n - 1 # n
  <2>1. n \in Nat \ {0, 1}
    BY <1>2, <1>3
  <2> HIDE DEF n
  <2> QED BY <2>1
<1>6. Way[1][1] \in Objects
  BY <1>2, <1>5 DEF Wires
<1>7. Way \in Ways(Way[1][1], n)
  <2>1. \A k \in 1 .. n - 1 : At(k).to = Way[k + 1][1]
    <3>1. \A k \in 1 .. n - 1 : k + 1 \in 1 .. n
      BY <1>2
    <3> QED BY <3>1, <1>2
  <2> QED BY <2>1, <1>2 DEF Ways, At
<1>8. n - 1 \in Along(Way, "delegate_to") /\ n \notin Along(Way, "delegate_to")
  <2>1. DOMAIN Way = 1 .. n
    BY DEF Way
  <2>2. At(n - 1).kind = "delegate_to"
    BY <1>2, <1>5 DEF Top
  <2>3. At(n).kind # "delegate_to"
    BY <1>2 DEF AtListener, At
  <2> QED BY <2>1, <2>2, <2>3, <1>5 DEF Along, At
<1> HIDE DEF n
<1>9. Misfit(Way[1][1])
  BY <1>4, <1>5, <1>7, <1>8 DEF Misfit
<1> QED BY <1>6, <1>9

-----------------------------------------------------------------------------
(* The emits on the stack.                                                  *)

LEMMA TopIsEmit ==
  ASSUME OneWay(stack), stack # <<>>
  PROVE  /\ stack \in Seq(Emits) /\ DOMAIN stack = 1 .. Len(stack)
         /\ Len(stack) \in Nat \ {0} /\ Len(stack) \in 1 .. Len(stack)
         /\ Top = stack[Len(stack)] /\ Top \in Emits
  BY DEF OneWay, Top

\* s is the stack, its innermost loop one step on.
Moved(s) ==
  /\ s \in Seq(Emits) /\ Len(s) = Len(stack)
  /\ \A i \in 1 .. Len(stack) - 1 : s[i] = stack[i]
  /\ s[Len(stack)].on = Top.on /\ s[Len(stack)].at = Top.at + 1
  /\ s[Len(stack)].error = NoError => Top.error = NoError

LEMMA BeforeTop ==
  ASSUME OneWay(stack), stack # <<>>
  PROVE  \A i \in 1 .. Len(stack) - 1 : i \in 1 .. Len(stack) /\ i # Len(stack)
<1> DEFINE n == Len(stack)
<1>1. n \in Nat
  BY TopIsEmit
<1> HIDE DEF n
<1>2. \A i \in 1 .. n - 1 : i \in 1 .. n /\ i # n
  BY <1>1
<1> QED BY <1>2 DEF n

LEMMA StepIsEmit ==
  ASSUME NEW f \in Emits
  PROVE  LET g == [f EXCEPT !.at = @ + 1] IN
         g \in Emits /\ g.on = f.on /\ g.at = f.at + 1 /\ g.error = f.error
<1>1. f.at \in Nat \ {0} /\ f.at + 1 \in Nat \ {0}
  BY DEF Emits
<1> QED BY <1>1 DEF Emits

LEMMA AdvancedIsMoved ==
  ASSUME OneWay(stack), stack # <<>>
  PROVE  Moved(Advanced) /\ Advanced = [stack EXCEPT ![Len(stack)] = [Top EXCEPT !.at = @ + 1]]
<1> DEFINE n == Len(stack)
           f == [Top EXCEPT !.at = @ + 1]
<1>1. f \in Emits /\ f.on = Top.on /\ f.at = Top.at + 1 /\ f.error = Top.error
  <2>1. Top \in Emits /\ Top.error \in Seq(Layers)
    BY TopIsEmit DEF Emits
  <2> QED BY <2>1, StepIsEmit
<1>2. Advanced = [stack EXCEPT ![n] = f]
  BY DEF Advanced, Top
<1>3. /\ stack \in Seq(Emits) /\ n \in 1 .. n /\ n \in Nat /\ DOMAIN stack = 1 .. n
      /\ \A i \in 1 .. n - 1 : i \in 1 .. n /\ i # n
  BY TopIsEmit, BeforeTop
<1> HIDE DEF f
<1>4. Advanced \in Seq(Emits) /\ Len(Advanced) = n /\ Advanced[n] = f
  BY <1>1, <1>2, <1>3
<1>5. \A i \in 1 .. n - 1 : Advanced[i] = stack[i]
  BY <1>2, <1>3
<1> QED BY <1>1, <1>2, <1>4, <1>5 DEF Moved, f

LEMMA GivenAwayIsMoved ==
  ASSUME OneWay(stack), stack # <<>>, Top.error # NoError
  PROVE  Moved(GivenAway)
<1> DEFINE n == Len(stack)
           g == [Top EXCEPT !.at = @ + 1]
           f == [g EXCEPT !.error = Left(@)]
<1>1. Top \in Emits /\ Left(Top.error) \in Seq(Layers) /\ Left(Top.error) # NoError
  BY TopIsEmit, LeftIsError DEF Emits
<1>2. f \in Emits /\ f.on = Top.on /\ f.at = Top.at + 1 /\ f.error # NoError
  <2>1. g \in Emits /\ g.on = Top.on /\ g.at = Top.at + 1 /\ g.error = Top.error
    BY <1>1, StepIsEmit
  <2> HIDE DEF g
  <2> QED BY <2>1, <1>1 DEF Emits
<1>3. /\ stack \in Seq(Emits) /\ n \in 1 .. n /\ n \in Nat /\ DOMAIN stack = 1 .. n
      /\ \A i \in 1 .. n - 1 : i \in 1 .. n /\ i # n
  BY TopIsEmit, BeforeTop
<1>4. Advanced = [stack EXCEPT ![n] = g]
  BY AdvancedIsMoved
<1>5. GivenAway = [stack EXCEPT ![n] = f]
  <2> HIDE DEF g
  <2>1. GivenAway = [Advanced EXCEPT ![n] = f]
    BY <1>3, <1>4 DEF GivenAway
  <2> HIDE DEF f
  <2> QED BY <2>1, <1>3, <1>4
<1> HIDE DEF f
<1>6. GivenAway \in Seq(Emits) /\ Len(GivenAway) = n /\ GivenAway[n] = f
  BY <1>2, <1>3, <1>5
<1>7. \A i \in 1 .. n - 1 : GivenAway[i] = stack[i]
  BY <1>3, <1>5
<1> QED BY <1>2, <1>6, <1>7 DEF Moved

\* The facts about a moved stack, place by place.
LEMMA MovedFacts ==
  ASSUME Wired, OneWay(stack), stack # <<>>, Top.at <= Len(listeners[Top.on]), NEW s, Moved(s)
  PROVE  /\ DOMAIN s = 1 .. Len(stack) /\ Len(stack) \in Nat \ {0} /\ s # <<>>
         /\ \A i \in 1 .. Len(stack) : s[i].on = stack[i].on
         /\ \A i \in 1 .. Len(stack) : s[i].error = NoError => stack[i].error = NoError
         /\ \A i \in 1 .. Len(stack) : s[i].at <= Len(listeners[s[i].on]) + 1
         /\ \A o : On(s, o) <=> On(stack, o)
<1> DEFINE n == Len(stack)
<1>1. /\ n \in Nat \ {0} /\ DOMAIN stack = 1 .. n /\ Top = stack[n] /\ Top \in Emits
      /\ s \in Seq(Emits) /\ Len(s) = n /\ s # <<>> /\ DOMAIN s = 1 .. n
  BY TopIsEmit DEF Moved
<1>2. /\ \A i \in 1 .. n - 1 : s[i] = stack[i]
      /\ s[n].on = Top.on /\ s[n].at = Top.at + 1 /\ (s[n].error = NoError => Top.error = NoError)
  BY DEF Moved
<1>3. \A i \in 1 .. n : stack[i].at <= Len(listeners[stack[i].on]) + 1
  BY <1>1 DEF OneWay
<1>4. s[n].at <= Len(listeners[s[n].on]) + 1
  <2> DEFINE a == Top.at
             l == Len(listeners[Top.on])
  <2>1. a \in Nat /\ l \in Nat /\ a <= l
    BY <1>1 DEF Wired, Emits
  <2> HIDE DEF a, l
  <2>2. a + 1 <= l + 1
    BY <2>1
  <2> QED BY <2>2, <1>2 DEF a, l
<1> HIDE DEF n
<1>5. \A i \in 1 .. n : i = n \/ i \in 1 .. n - 1
  BY <1>1
<1>6. \A i \in 1 .. n : s[i].on = stack[i].on
  BY <1>1, <1>2, <1>5
<1>7. \A i \in 1 .. n : s[i].error = NoError => stack[i].error = NoError
  BY <1>1, <1>2, <1>5
<1>8. \A i \in 1 .. n : s[i].at <= Len(listeners[s[i].on]) + 1
  BY <1>2, <1>3, <1>4, <1>5
<1>9. \A o : On(s, o) <=> On(stack, o)
  BY <1>1, <1>6 DEF On
<1> QED BY <1>1, <1>6, <1>7, <1>8, <1>9 DEF n

LEMMA MovedIsOneWay ==
  ASSUME Wired, OneWay(stack), stack # <<>>, Top.at <= Len(listeners[Top.on]), NEW s, Moved(s)
  PROVE  OneWay(s)
<1> DEFINE n == Len(stack)
<1>1. /\ n \in Nat \ {0} /\ DOMAIN s = 1 .. n /\ DOMAIN stack = 1 .. n /\ s # <<>>
      /\ Len(s) = n /\ s \in Seq(Emits)
  BY MovedFacts, TopIsEmit DEF Moved
<1>2. /\ \A i \in 1 .. n : s[i].on = stack[i].on
      /\ \A i \in 1 .. n : s[i].error = NoError => stack[i].error = NoError
      /\ \A i \in 1 .. n : s[i].at <= Len(listeners[s[i].on]) + 1
      /\ \A i \in 1 .. n - 1 : s[i] = stack[i]
  BY MovedFacts DEF Moved
<1>3. /\ \A i, j \in 1 .. n : stack[i].on = stack[j].on => i = j
      /\ stack[1].error # NoError
      /\ \A i \in 1 .. n - 1 : Leads(stack[i], stack[i + 1].on, stack[i + 1].error)
  BY <1>1 DEF OneWay
<1> HIDE DEF n
<1>4. 1 \in 1 .. n /\ \A i \in 1 .. n - 1 : i + 1 \in 1 .. n
  BY <1>1
<1>5. ASSUME NEW i \in 1 .. n - 1 PROVE Leads(s[i], s[i + 1].on, s[i + 1].error)
  <2>1. Leads(stack[i], stack[i + 1].on, stack[i + 1].error)
    BY <1>3
  <2>2. /\ s[i] = stack[i] /\ s[i + 1].on = stack[i + 1].on
        /\ s[i + 1].error = NoError => stack[i + 1].error = NoError
    BY <1>2, <1>4
  <2> QED BY <2>1, <2>2 DEF Leads
<1>6. \A i, j \in 1 .. n : s[i].on = s[j].on => i = j
  BY <1>2, <1>3
<1>7. s[1].error # NoError
  BY <1>2, <1>3, <1>4
<1> QED BY <1>1, <1>2, <1>5, <1>6, <1>7 DEF OneWay

NewEmit(o, error, path) == [on |-> o, at |-> 1, error |-> error, path |-> path]

LEMMA NewEmitIsEmit ==
  ASSUME NEW o \in Objects, NEW error \in Seq(Layers), NEW path \in Seq(Objects \X Nat)
  PROVE  NewEmit(o, error, path) \in Emits
  BY DEF NewEmit, Emits

\* An emit from outside begins a way.
LEMMA FirstIsOneWay ==
  ASSUME Wired, NEW o \in Objects, NEW error \in Seq(Layers), error # NoError
  PROVE  LET s == Append(<<>>, NewEmit(o, error, <<>>)) IN
         OneWay(s) /\ s # <<>> /\ \A q : On(s, q) <=> q = o
<1> DEFINE f == NewEmit(o, error, <<>>)
           s == Append(<<>>, f)
<1>1. f \in Emits /\ f.on = o /\ f.at = 1 /\ f.error = error
  <2>1. <<>> \in Seq(Objects \X Nat)
    OBVIOUS
  <2> QED BY <2>1, NewEmitIsEmit DEF NewEmit
<1> HIDE DEF f
<1>2. s \in Seq(Emits) /\ Len(s) = 1 /\ s[1] = f /\ DOMAIN s = {1} /\ s # <<>>
  BY <1>1
<1> HIDE DEF s
<1>3. Len(listeners[o]) \in Nat
  BY DEF Wired
<1>4. f.at <= Len(listeners[f.on]) + 1
  BY <1>1, <1>3
<1>5. 1 .. Len(s) - 1 = {}
  BY <1>2
<1>6. OneWay(s)
  BY <1>1, <1>2, <1>4, <1>5 DEF OneWay
<1>7. \A q : On(s, q) <=> q = o
  BY <1>1, <1>2 DEF On
<1> QED BY <1>2, <1>6, <1>7 DEF s, f

\* An emit by a listener goes on with the way.
LEMMA NextIsOneWay ==
  ASSUME Wired, OneWay(stack), stack # <<>>, Top.at <= Len(listeners[Top.on]), NEW s, Moved(s),
         PassesOn(<<Top.on, Top.at>>), To \in Objects, ~On(stack, To),
         NEW error \in Seq(Layers), error = NoError => listeners[Top.on][Top.at].kind = "delegate_to"
  PROVE  LET t == Append(s, NewEmit(To, error, Here)) IN
         OneWay(t) /\ t # <<>> /\ \A q : On(t, q) <=> On(stack, q) \/ q = To
<1> DEFINE n == Len(stack)
           f == NewEmit(To, error, Here)
           t == Append(s, f)
<1>1. /\ n \in Nat \ {0} /\ Top = stack[n] /\ Top \in Emits /\ Len(s) = n
      /\ s \in Seq(Emits) /\ DOMAIN s = 1 .. n /\ OneWay(s) /\ s # <<>>
  BY TopIsEmit, MovedFacts, MovedIsOneWay DEF Moved
<1>2. f \in Emits /\ f.on = To /\ f.at = 1 /\ f.error = error
  <2>1. Here \in Seq(Objects \X Nat)
    <3>1. <<Top.on, Top.at>> \in Objects \X Nat /\ Top.path \in Seq(Objects \X Nat)
      BY <1>1 DEF Emits
    <3> QED BY <3>1 DEF Here
  <2> QED BY <2>1, NewEmitIsEmit DEF NewEmit
<1> HIDE DEF f
<1>3. /\ t \in Seq(Emits) /\ Len(t) = n + 1 /\ t[n + 1] = f /\ t # <<>>
      /\ DOMAIN t = 1 .. n + 1
      /\ \A i \in 1 .. n : t[i] = s[i]
  BY <1>1, <1>2
<1>4. /\ \A i \in 1 .. n : s[i].at <= Len(listeners[s[i].on]) + 1
      /\ \A i, j \in 1 .. n : s[i].on = s[j].on => i = j
      /\ s[1].error # NoError
      /\ \A i \in 1 .. n - 1 : Leads(s[i], s[i + 1].on, s[i + 1].error)
  BY <1>1 DEF OneWay
<1>5. s[n].on = Top.on /\ s[n].at = Top.at + 1
  BY DEF Moved
<1>6. \A q : On(s, q) <=> On(stack, q)
  BY MovedFacts
<1>7. \A i \in 1 .. n : s[i].on # To
  BY <1>1, <1>6 DEF On
<1> HIDE DEF n, t
<1>8. /\ \A i \in 1 .. n + 1 : i \in 1 .. n \/ i = n + 1
      /\ n + 1 \in 1 .. n + 1 /\ \A i \in 1 .. n : i \in 1 .. n + 1
      /\ 1 \in 1 .. n /\ n \in 1 .. n /\ \A i \in 1 .. n : i # n + 1
      /\ \A i \in 1 .. n : i = n \/ (i \in 1 .. n - 1 /\ i + 1 \in 1 .. n)
      /\ (n + 1) - 1 = n
  BY <1>1
<1>9. \A i \in 1 .. n + 1 : t[i].at <= Len(listeners[t[i].on]) + 1
  <2>1. f.at <= Len(listeners[f.on]) + 1
    <3>1. Len(listeners[To]) \in Nat
      BY DEF Wired
    <3> QED BY <3>1, <1>2
  <2> QED BY <2>1, <1>3, <1>4, <1>8
<1>10. ASSUME NEW i \in 1 .. n + 1, NEW j \in 1 .. n + 1, t[i].on = t[j].on PROVE i = j
  <2>1. t[n + 1].on = To /\ \A k \in 1 .. n : t[k].on = s[k].on /\ s[k].on # To
    BY <1>2, <1>3, <1>7
  <2>2. CASE i \in 1 .. n /\ j \in 1 .. n
    BY <2>1, <2>2, <1>4, <1>10
  <2>3. CASE i = n + 1 \/ j = n + 1
    BY <2>1, <2>3, <1>8, <1>10
  <2> QED BY <2>2, <2>3, <1>8
<1>11. t[1].error # NoError
  BY <1>3, <1>4, <1>8
<1>12. ASSUME NEW i \in 1 .. n PROVE Leads(t[i], t[i + 1].on, t[i + 1].error)
  <2>1. CASE i = n
    <3>1. t[i] = s[n] /\ t[i + 1] = f
      BY <2>1, <1>3
    <3>2. Top.at \in Nat \ {0}
      BY <1>1 DEF Emits
    <3>3. (Top.at + 1) - 1 = Top.at /\ Top.at + 1 > 1
      BY <3>2
    <3>4. s[n].at - 1 = Top.at /\ s[n].at > 1
      BY <3>3, <1>5
    <3>5. listeners[Top.on][Top.at].to = To
      BY DEF To
    <3> QED BY <3>1, <3>4, <3>5, <1>2, <1>5 DEF Leads
  <2>2. CASE i # n
    <3>1. t[i] = s[i] /\ t[i + 1] = s[i + 1] /\ i \in 1 .. n - 1
      BY <2>2, <1>3, <1>8
    <3> QED BY <3>1, <1>4
  <2> QED BY <2>1, <2>2
<1>13. OneWay(t)
  BY <1>3, <1>8, <1>9, <1>10, <1>11, <1>12 DEF OneWay
<1>14. ASSUME NEW q PROVE On(t, q) <=> On(s, q) \/ q = To
  BY <1>1, <1>2, <1>3, <1>8 DEF On
<1> QED BY <1>3, <1>6, <1>13, <1>14 DEF t, f

\* An emit that returns leaves the way that led to it.
LEMMA ReturnIsOneWay ==
  ASSUME OneWay(stack), stack # <<>>
  PROVE  LET s == SubSeq(stack, 1, Len(stack) - 1) IN
         OneWay(s) /\ (\A q : On(s, q) <=> On(stack, q) /\ q # Top.on) /\ On(stack, Top.on)
<1> DEFINE n == Len(stack)
           s == SubSeq(stack, 1, n - 1)
<1>1. n \in Nat \ {0} /\ stack \in Seq(Emits) /\ DOMAIN stack = 1 .. n /\ Top = stack[n]
  BY TopIsEmit
<1>2. s \in Seq(Emits) /\ Len(s) = n - 1 /\ DOMAIN s = 1 .. n - 1
  BY <1>1
<1>3. \A i \in 1 .. n - 1 : s[i] = stack[i]
  BY <1>1
<1>4. s # <<>> => 1 \in 1 .. n - 1
  BY <1>2, <1>1
<1>5. /\ \A i \in 1 .. n : stack[i].at <= Len(listeners[stack[i].on]) + 1
      /\ \A i, j \in 1 .. n : stack[i].on = stack[j].on => i = j
      /\ stack[1].error # NoError
      /\ \A i \in 1 .. n - 1 : Leads(stack[i], stack[i + 1].on, stack[i + 1].error)
  BY <1>1 DEF OneWay
<1> HIDE DEF n, s
<1>6. /\ \A i \in 1 .. n - 1 : i \in 1 .. n /\ i # n
      /\ \A i \in 1 .. (n - 1) - 1 : i \in 1 .. n - 1 /\ i + 1 \in 1 .. n - 1
      /\ \A i \in 1 .. n : i = n \/ i \in 1 .. n - 1
      /\ n \in 1 .. n
  BY <1>1
<1>7. \A i, j \in 1 .. n - 1 : s[i].on = s[j].on => i = j
  BY <1>3, <1>5, <1>6
<1>8. \A i \in 1 .. (n - 1) - 1 : Leads(s[i], s[i + 1].on, s[i + 1].error)
  BY <1>3, <1>5, <1>6
<1>9. \A i \in 1 .. n - 1 : s[i].at <= Len(listeners[s[i].on]) + 1
  BY <1>3, <1>5, <1>6
<1>10. s # <<>> => s[1].error # NoError
  BY <1>3, <1>4, <1>5
<1>11. OneWay(s)
  BY <1>2, <1>7, <1>8, <1>9, <1>10 DEF OneWay
<1>12. ASSUME NEW q PROVE On(s, q) <=> On(stack, q) /\ q # Top.on
  BY <1>1, <1>2, <1>3, <1>5, <1>6 DEF On
<1>13. On(stack, Top.on)
  BY <1>1, <1>6 DEF On
<1> QED BY <1>11, <1>12, <1>13 DEF s, n

-----------------------------------------------------------------------------
(* The steps.                                                               *)

LEMMA ConnectWired ==
  ASSUME Wired, NEW o \in Objects,
         NEW l \in [kind : {"program", "on_error", "delegate_to"}, to : Objects \cup {NoObject}],
         l.kind # "program" => l.to \in Objects, Connect(o, l)
  PROVE  Wired'
<1> DEFINE K == [kind : {"program", "on_error", "delegate_to"}, to : Objects \cup {NoObject}]
           n == Len(listeners[o])
<1>1. /\ listeners \in [Objects -> Seq(K)] /\ \A q \in Objects : Len(listeners[q]) <= MaxWires
      /\ n \in Nat /\ MaxWires \in Nat /\ l \in K
  <2>1. listeners \in [Objects -> Seq(K)] /\ \A q \in Objects : Len(listeners[q]) <= MaxWires
    BY DEF Wired
  <2> HIDE DEF K
  <2>2. n \in Nat
    BY <2>1
  <2> QED BY <2>1, <2>2, DelegationAssumption DEF K
<1> HIDE DEF K
<1>2. n < MaxWires
  <2> SUFFICES ASSUME n >= MaxWires PROVE FALSE
    BY <1>1
  <2> DEFINE f == [i \in 1 .. MaxWires |-> <<o, i>>]
  <2>1. IsFiniteSet(Wires)
    <3>1. IsFiniteSet(Objects \X (1 .. MaxWires))
      <4>1. IsFiniteSet(1 .. MaxWires)
        BY <1>1, FS_Interval
      <4> QED BY <4>1, FS_Product, DelegationAssumption
    <3>2. Wires \subseteq Objects \X (1 .. MaxWires)
      BY DEF Wires
    <3> QED BY <3>1, <3>2, FS_Subset
  <2>2. f \in Injection(1 .. MaxWires, Wires)
    <3>1. \A i \in 1 .. MaxWires : i <= n
      BY <1>1
    <3>2. \A i \in 1 .. MaxWires : <<o, i>> \in Wires
      BY <3>1 DEF Wires
    <3> QED BY <3>2 DEF Injection, IsInjective
  <2> DEFINE c == Cardinality(Wires)
             d == Cardinality(1 .. MaxWires)
  <2>3. d <= c /\ c \in Nat
    BY <2>1, <2>2, FS_Injection, FS_CardinalityType
  <2>4. d = MaxWires
    <3>1. Cardinality(1 .. MaxWires) = IF 1 > MaxWires THEN 0 ELSE MaxWires - 1 + 1
      BY <1>1, FS_Interval
    <3> HIDE DEF d
    <3> QED BY <3>1, <1>1 DEF d
  <2>5. c < MaxWires
    BY DEF Connect
  <2> HIDE DEF c, d
  <2> QED BY <2>3, <2>4, <2>5, <1>1
<1>3. listeners' = [listeners EXCEPT ![o] = Append(@, l)]
  BY DEF Connect
<1> DEFINE s == Append(listeners[o], l)
<1>4. /\ s \in Seq(K) /\ Len(s) = n + 1 /\ s[n + 1] = l
      /\ \A i \in 1 .. n : s[i] = listeners[o][i]
  BY <1>1
<1>5. /\ listeners' \in [Objects -> Seq(K)] /\ listeners'[o] = s
      /\ \A q \in Objects \ {o} : listeners'[q] = listeners[q]
  BY <1>1, <1>3, <1>4
<1>6. \A q \in Objects : Len(listeners'[q]) <= MaxWires
  <2>1. Len(listeners'[o]) <= MaxWires
    <3> HIDE DEF n, s
    <3> QED BY <1>1, <1>2, <1>4, <1>5
  <2> QED BY <2>1, <1>1, <1>5
<1>7. ASSUME NEW w \in Wires', listeners'[w[1]][w[2]].kind # "program"
      PROVE  listeners'[w[1]][w[2]].to \in Objects
  <2>1. w \in Objects \X (1 .. MaxWires) /\ w[2] <= Len(listeners'[w[1]])
    BY DEF Wires
  <2>2. CASE w \in Wires /\ listeners'[w[1]][w[2]] = listeners[w[1]][w[2]]
    BY <2>2, <1>7 DEF Wired, PassesOn
  <2>3. CASE w[1] # o
    BY <2>1, <2>2, <2>3, <1>5 DEF Wires
  <2>4. CASE w[1] = o
    <3>1. w[2] \in Nat \ {0} /\ w[2] <= n + 1
      BY <2>1, <2>4, <1>4, <1>5
    <3> HIDE DEF n, s
    <3>2. CASE w[2] = n + 1
      <4>1. listeners'[w[1]][w[2]] = l
        BY <2>4, <3>2, <1>4, <1>5
      <4> QED BY <4>1, <1>7
    <3>3. CASE w[2] # n + 1
      <4>1. w[2] \in 1 .. n
        BY <3>1, <3>3, <1>1
      <4>2. listeners'[w[1]][w[2]] = listeners[w[1]][w[2]]
        BY <4>1, <2>4, <1>4, <1>5
      <4>3. w[2] <= n
        BY <4>1, <1>1
      <4>4. w \in Wires
        BY <4>3, <2>1, <2>4 DEF Wires, n
      <4> QED BY <2>2, <4>2, <4>4
    <3> QED BY <3>2, <3>3
  <2> QED BY <2>3, <2>4
<1> QED BY <1>5, <1>6, <1>7 DEF Wired, PassesOn, K

LEMMA WiredNext == Wired /\ [Next]_vars => Wired'
<1> SUFFICES ASSUME Wired, [Next]_vars PROVE Wired'
  OBVIOUS
<1>1. CASE listeners' = listeners
  BY <1>1 DEF Wired, Wires, PassesOn
<1>2. ASSUME NEW o \in Objects, OnError(o) PROVE Wired'
  <2>1. Listener("program", NoObject) \in
          [kind : {"program", "on_error", "delegate_to"}, to : Objects \cup {NoObject}]
    BY DEF Listener
  <2> QED BY <1>2, <2>1, ConnectWired DEF OnError, Listener
<1>3. ASSUME NEW o \in Objects, NEW to \in Objects, OnErrorTo(o, to) PROVE Wired'
  <2>1. Listener("on_error", to) \in
          [kind : {"program", "on_error", "delegate_to"}, to : Objects \cup {NoObject}]
    BY DEF Listener
  <2> QED BY <1>3, <2>1, ConnectWired DEF OnErrorTo, Listener
<1>4. ASSUME NEW o \in Objects, NEW to \in Objects, DelegateTo(o, to) PROVE Wired'
  <2>1. Listener("delegate_to", to) \in
          [kind : {"program", "on_error", "delegate_to"}, to : Objects \cup {NoObject}]
    BY DEF Listener
  <2> QED BY <1>4, <2>1, ConnectWired DEF DelegateTo, Listener
<1>5. ASSUME NEW o \in Objects, Enter(o) PROVE listeners' = listeners
  BY <1>5 DEF Enter, wireVars
<1>6. CASE Deliver
  BY <1>1, <1>6 DEF Deliver, Hear, PassOn, Delegate, Mismatch, Return, wireVars
<1>7. CASE EmitError \/ FuncThrows \/ Catch \/ Escape \/ Leave
  BY <1>1, <1>7 DEF EmitError, FuncThrows, Catch, Escape, Leave, wireVars
<1>8. CASE UNCHANGED vars
  BY <1>1, <1>8 DEF vars, wireVars
<1> QED BY <1>1, <1>2, <1>3, <1>4, <1>5, <1>6, <1>7, <1>8 DEF Next

LEMMA ExcusedStays ==
  ASSUME Excused, listeners' = listeners, thrown => thrown'
  PROVE  Excused'
<1>1. CASE thrown
  BY <1>1 DEF Excused
<1>2. ASSUME NEW o \in Objects, Loop(o) PROVE Loop(o)'
  BY <1>2 DEF Loop, Ways, Wires, PassesOn
<1>3. ASSUME NEW o \in Objects, Misfit(o) PROVE Misfit(o)'
  <2>1. \A n : Ways(o, n)' = Ways(o, n)
    BY DEF Ways, Wires, PassesOn
  <2>2. \A p : Along(p, "delegate_to")' = Along(p, "delegate_to")
    BY DEF Along
  <2> QED BY <1>3, <2>1, <2>2 DEF Misfit
<1> QED BY <1>1, <1>2, <1>3 DEF Excused

\* What a step has to show of what is tidy: the new stack, one way again.
LEMMA TidyNext ==
  ASSUME NEW s, OneWay(s), stack' = s, listeners' = listeners,
         depth' = [q \in Objects |-> IF On(s, q) THEN 1 ELSE 0],
         handler' = Idle \/ (handler'.at \in {"func", "catch"} /\ handler'.self \in Objects),
         handler' = Idle => s = <<>>,
         flying' => handler'.at = "func" /\ s = <<>>,
         ~escaped'
  PROVE  Tidy'
<1>1. OneWay(stack)'
  BY DEF OneWay, Leads, PassesOn
<1> QED BY <1>1 DEF Tidy, On, Idle

\* An emit on an object that has none running is not refused.
LEMMA EmitFits ==
  ASSUME NEW o \in Objects, Tidy, ~On(stack, o),
         NEW s, NEW error, NEW path, Emit(s, o, error, path)
  PROVE  /\ stack' = Append(s, NewEmit(o, error, path)) /\ ~flying'
         /\ depth' = [q \in Objects |-> IF On(stack, q) \/ q = o THEN 1 ELSE 0]
<1>1. depth = [q \in Objects |-> IF On(stack, q) THEN 1 ELSE 0]
  BY DEF Tidy
<1>2. depth[o] = 0
  BY <1>1
<1>3. ~(depth[o] >= DepthLimit) /\ depth[o] + 1 = 1
  BY <1>2, DelegationAssumption
<1>4. stack' = Append(s, NewEmit(o, error, path)) /\ ~flying'
  BY <1>3 DEF Emit, NewEmit
<1>5. depth' = [depth EXCEPT ![o] = 1]
  BY <1>3 DEF Emit
<1>6. depth' = [q \in Objects |-> IF On(stack, q) \/ q = o THEN 1 ELSE 0]
  BY <1>1, <1>5
<1> QED BY <1>4, <1>6

\* What every delivery has: a running emit in a handler, and no exception.
LEMMA Delivering ==
  ASSUME Tidy, stack # <<>>
  PROVE  /\ OneWay(stack) /\ ~flying /\ ~escaped
         /\ depth = [q \in Objects |-> IF On(stack, q) THEN 1 ELSE 0]
         /\ handler # Idle /\ handler.at \in {"func", "catch"} /\ handler.self \in Objects
  BY DEF Tidy

\* A listener has returned, and the loop goes on.
LEMMA MovedIsTidy ==
  ASSUME Wired, Tidy, stack # <<>>, Top.at <= Len(listeners[Top.on]), NEW s, Moved(s),
         stack' = s, UNCHANGED <<depth, flying, handler, escaped, listeners>>
  PROVE  Tidy'
<1>1. OneWay(s) /\ s # <<>> /\ \A q : On(s, q) <=> On(stack, q)
  BY Delivering, MovedIsOneWay, MovedFacts
<1>2. depth' = [q \in Objects |-> IF On(s, q) THEN 1 ELSE 0]
  BY <1>1, Delivering
<1> QED BY <1>1, <1>2, TidyNext, Delivering

\* A listener emits on the object it knows.
LEMMA PassedIsTidy ==
  ASSUME Wired, Tidy, ~Excused, stack # <<>>, Top.at <= Len(listeners[Top.on]),
         NEW s, Moved(s), PassesOn(<<Top.on, Top.at>>),
         NEW error \in Seq(Layers), error = NoError => listeners[Top.on][Top.at].kind = "delegate_to",
         Emit(s, To, error, Here), UNCHANGED <<handler, escaped, listeners>>
  PROVE  Tidy'
<1>1. To \in Objects /\ ~On(stack, To)
  BY PassedOnIsNew, Delivering DEF Excused
<1> DEFINE t == Append(s, NewEmit(To, error, Here))
<1>2. OneWay(t) /\ t # <<>> /\ \A q : On(t, q) <=> On(stack, q) \/ q = To
  BY <1>1, NextIsOneWay, Delivering
<1>3. /\ stack' = t /\ ~flying'
      /\ depth' = [q \in Objects |-> IF On(stack, q) \/ q = To THEN 1 ELSE 0]
  BY <1>1, EmitFits
<1> HIDE DEF t
<1>4. depth' = [q \in Objects |-> IF On(t, q) THEN 1 ELSE 0]
  BY <1>2, <1>3
<1> QED BY <1>2, <1>3, <1>4, TidyNext, Delivering

\* An emit from a handler.
LEMMA FirstIsTidy ==
  ASSUME Wired, Tidy, stack = <<>>, NEW o \in Objects, NEW error \in Seq(Layers), error # NoError,
         Emit(<<>>, o, error, <<>>), listeners' = listeners, escaped' = escaped,
         handler'.at \in {"func", "catch"}, handler'.self \in Objects, handler' # Idle
  PROVE  Tidy'
<1>1. \A q : ~On(stack, q)
  BY DEF On
<1> DEFINE t == Append(<<>>, NewEmit(o, error, <<>>))
<1>2. OneWay(t) /\ t # <<>> /\ \A q : On(t, q) <=> q = o
  BY FirstIsOneWay
<1>3. /\ stack' = t /\ ~flying'
      /\ depth' = [q \in Objects |-> IF On(stack, q) \/ q = o THEN 1 ELSE 0]
  BY <1>1, EmitFits
<1> HIDE DEF t
<1>4. depth' = [q \in Objects |-> IF On(t, q) THEN 1 ELSE 0]
  BY <1>1, <1>2, <1>3
<1>5. ~escaped'
  BY DEF Tidy
<1> QED BY <1>2, <1>3, <1>4, <1>5, TidyNext

LEMMA ConnectTidy ==
  ASSUME handlers = 0 => Untouched, NEW o, NEW l, Connect(o, l)
  PROVE  Tidy' /\ (handlers' = 0 => Untouched')
<1>1. Untouched /\ UNCHANGED <<depth, stack, handler, flying, escaped, historyVars, handlers>>
  BY DEF Connect
<1>2. Untouched'
  BY <1>1 DEF Untouched, historyVars, Idle
<1>3. stack' = <<>> /\ depth' = [q \in Objects |-> 0] /\ handler' = Idle /\ ~flying' /\ ~escaped'
  BY <1>1 DEF Untouched
<1>4. <<>> \in Seq(Emits) /\ DOMAIN <<>> = {} /\ 1 .. Len(<<>>) - 1 = {}
  OBVIOUS
<1>5. OneWay(stack)'
  BY <1>3, <1>4 DEF OneWay
<1>6. \A q : ~On(stack, q)'
  BY <1>3, <1>4 DEF On
<1> QED BY <1>2, <1>3, <1>5, <1>6 DEF Tidy, Idle

LEMMA DeliverTidy ==
  ASSUME Wired, Tidy, ~Excused, Deliver
  PROVE  Tidy' \/ thrown'
<1>1. stack # <<>> /\ OneWay(stack) /\ Top \in Emits
  <2>1. stack # <<>>
    BY DEF Deliver, Hear, PassOn, Delegate, Mismatch, Return, AtListener
  <2> QED BY <2>1, Delivering, TopIsEmit
<1>2. ASSUME NEW kind, AtListener(kind), kind # "program"
      PROVE  Top.at <= Len(listeners[Top.on]) /\ PassesOn(<<Top.on, Top.at>>)
  BY <1>2 DEF AtListener, PassesOn
<1>3. CASE Hear
  <2>1. CASE thrown'
    BY <2>1
  <2>2. CASE ~thrown'
    <3>1. /\ Top.at <= Len(listeners[Top.on]) /\ Top.error # NoError /\ stack' = GivenAway
          /\ UNCHANGED <<depth, flying, handler, escaped, listeners>>
      BY <1>3, <2>2 DEF Hear, AtListener
    <3> QED BY <3>1, <1>1, GivenAwayIsMoved, MovedIsTidy
  <2> QED BY <2>1, <2>2
<1>4. CASE PassOn
  <2>1. /\ Top.at <= Len(listeners[Top.on]) /\ Top.error # NoError
        /\ PassesOn(<<Top.on, Top.at>>) /\ Moved(GivenAway)
        /\ UNCHANGED <<handler, escaped, listeners>>
    <3>1. AtListener("on_error") /\ Top.error # NoError
      BY <1>4 DEF PassOn
    <3> QED BY <1>1, <1>2, <1>4, <3>1, GivenAwayIsMoved DEF PassOn, wireVars
  <2>2. Wrap(Top.error) \in Seq(Layers) /\ Wrap(Top.error) # NoError
    BY <1>1, WrapIsError DEF Emits
  <2>3. CASE ~Alive(To)
    <3>1. stack' = GivenAway /\ UNCHANGED <<depth, flying>>
      BY <1>4, <2>2, <2>3 DEF PassOn
    <3> QED BY <1>1, <2>1, <3>1, MovedIsTidy
  <2>4. CASE Alive(To)
    <3>1. Emit(GivenAway, To, Wrap(Top.error), Here)
      BY <1>4, <2>2, <2>4 DEF PassOn
    <3> QED BY <1>1, <2>1, <2>2, <3>1, PassedIsTidy
  <2> QED BY <2>3, <2>4
<1>5. CASE Delegate
  <2>1. /\ Top.at <= Len(listeners[Top.on])
        /\ PassesOn(<<Top.on, Top.at>>) /\ Moved(Advanced)
        /\ listeners[Top.on][Top.at].kind = "delegate_to"
        /\ UNCHANGED <<handler, escaped, listeners>>
    <3>1. AtListener("delegate_to")
      BY <1>5 DEF Delegate
    <3>2. listeners[Top.on][Top.at].kind = "delegate_to"
      BY <3>1 DEF AtListener
    <3> QED BY <1>1, <1>2, <1>5, <3>1, <3>2, AdvancedIsMoved DEF Delegate, wireVars
  <2>2. CASE ~Alive(To)
    <3>1. stack' = Advanced /\ UNCHANGED <<depth, flying>>
      BY <1>5, <2>2 DEF Delegate
    <3> QED BY <1>1, <2>1, <3>1, MovedIsTidy
  <2>3. CASE Alive(To)
    <3>1. Emit(Advanced, To, NoError, Here)
      BY <1>5, <2>3 DEF Delegate
    <3>2. NoError \in Seq(Layers)
      BY DEF NoError
    <3> QED BY <1>1, <2>1, <3>1, <3>2, PassedIsTidy
  <2> QED BY <2>2, <2>3
<1>6. CASE Mismatch
  <2>1. Top.error = NoError /\ (AtListener("program") \/ AtListener("on_error"))
    BY <1>6 DEF Mismatch
  <2> QED BY <1>1, <2>1, MisfitFound DEF Excused
<1>7. CASE Return
  <2> DEFINE s == SubSeq(stack, 1, Len(stack) - 1)
  <2>1. OneWay(s) /\ (\A q : On(s, q) <=> On(stack, q) /\ q # Top.on) /\ On(stack, Top.on)
    BY <1>1, ReturnIsOneWay
  <2>2. stack' = s /\ UNCHANGED <<flying, handler, escaped, listeners>>
    BY <1>7 DEF Return, wireVars
  <2>3. depth' = [depth EXCEPT ![Top.on] = @ - 1] /\ Top.on \in Objects
    BY <1>1, <1>7 DEF Return, Emits
  <2> HIDE DEF s
  <2>4. depth' = [q \in Objects |-> IF On(s, q) THEN 1 ELSE 0]
    <3>1. depth = [q \in Objects |-> IF On(stack, q) THEN 1 ELSE 0]
      BY DEF Tidy
    <3>2. depth[Top.on] = 1
      BY <2>1, <2>3, <3>1
    <3>3. depth' = [depth EXCEPT ![Top.on] = 0]
      BY <2>3, <3>2
    <3> QED BY <2>1, <2>3, <3>1, <3>3
  <2> QED BY <1>1, <2>1, <2>2, <2>4, TidyNext, Delivering
<1> QED BY <1>3, <1>4, <1>5, <1>6, <1>7 DEF Deliver

LEMMA HandlerTidy ==
  ASSUME Wired, Tidy, EmitError \/ FuncThrows \/ Catch \/ Escape \/ Leave
  PROVE  Tidy'
<1>1. handler = Idle => stack = <<>> /\ ~flying
  BY DEF Tidy, Idle
<1>2. CASE EmitError
  <2>1. /\ stack = <<>> /\ handler.at = "func" /\ ~flying /\ ~escaped /\ handler.self \in Objects
    BY <1>2 DEF EmitError, InFunc, Tidy, Idle
  <2>2. /\ handler' = [handler EXCEPT !.emitted = TRUE] /\ Emit(<<>>, handler.self, Plain, <<>>)
        /\ escaped' = escaped /\ listeners' = listeners
    BY <1>2 DEF EmitError, wireVars
  <2>3. handler'.at = handler.at /\ handler'.self = handler.self
    BY <2>2
  <2>4. handler'.at \in {"func", "catch"} /\ handler'.self \in Objects /\ handler' # Idle
    BY <2>1, <2>3 DEF Idle
  <2> QED BY <2>1, <2>2, <2>4, FirstIsTidy, EmittedIsError
<1>3. CASE FuncThrows
  <2>1. stack = <<>> /\ handler.at = "func" /\ ~escaped /\ OneWay(stack)
    BY <1>3 DEF FuncThrows, InFunc, Tidy
  <2>2. UNCHANGED <<listeners, depth, stack, handler, escaped>>
    BY <1>3 DEF FuncThrows, wireVars
  <2> QED BY <2>1, <2>2, TidyNext DEF Tidy, Idle
<1>4. CASE Catch
  <2>1. /\ stack = <<>> /\ handler.at = "func" /\ handler.self \in Objects
    BY <1>4 DEF Catch, Tidy, Idle
  <2>2. /\ handler' = [handler EXCEPT !.at = "catch", !.emitted = TRUE]
        /\ Emit(<<>>, handler.self, Raised, <<>>)
        /\ escaped' = escaped /\ listeners' = listeners
    BY <1>4 DEF Catch, wireVars
  <2>3. handler'.at = "catch" /\ handler'.self = handler.self
    BY <2>2
  <2>4. handler'.at \in {"func", "catch"} /\ handler'.self \in Objects /\ handler' # Idle
    BY <2>1, <2>3 DEF Idle
  <2> QED BY <2>1, <2>2, <2>4, FirstIsTidy, EmittedIsError
<1>5. CASE Escape
  BY <1>5 DEF Escape, Tidy
<1>6. CASE Leave
  <2>1. stack = <<>> /\ ~flying /\ ~escaped /\ OneWay(stack)
    BY <1>6 DEF Leave, Tidy
  <2>2. handler' = Idle /\ UNCHANGED <<listeners, depth, stack, flying, escaped>>
    BY <1>6 DEF Leave, wireVars
  <2> QED BY <2>1, <2>2, TidyNext DEF Tidy
<1> QED BY <1>2, <1>3, <1>4, <1>5, <1>6

LEMMA NothingEscapesInvNext ==
  NothingEscapesInv /\ [Next]_vars => NothingEscapesInv'
<1> SUFFICES ASSUME NothingEscapesInv, [Next]_vars PROVE NothingEscapesInv'
  OBVIOUS
<1> USE DEF NothingEscapesInv
<1>1. Wired'
  BY WiredNext
<1>2. ASSUME NEW o, NEW l, Connect(o, l) PROVE NothingEscapesInv'
  BY <1>1, <1>2, ConnectTidy DEF Connect
<1>3. CASE \E o \in Objects : OnError(o)
  BY <1>2, <1>3 DEF OnError
<1>4. CASE \E o, to \in Objects : OnErrorTo(o, to) \/ DelegateTo(o, to)
  BY <1>2, <1>4 DEF OnErrorTo, DelegateTo
<1>5. ASSUME NEW o \in Objects, Enter(o) PROVE NothingEscapesInv'
  <2>1. /\ handlers' \in Nat /\ handlers' # 0
        /\ UNCHANGED <<listeners, depth, stack, flying, escaped, thrown>> /\ handler = Idle /\ ~escaped
        /\ handler' = [at |-> "func", self |-> o, emitted |-> FALSE]
    BY <1>5 DEF Enter, wireVars
  <2>2. Excused => Excused'
    BY <2>1, ExcusedStays
  <2>3. Tidy => Tidy'
    <3> SUFFICES ASSUME Tidy PROVE Tidy'
      OBVIOUS
    <3>1. stack = <<>> /\ OneWay(stack) /\ ~flying
      BY <2>1 DEF Tidy, Idle
    <3> QED BY <2>1, <3>1, TidyNext DEF Tidy, Idle
  <2> QED BY <1>1, <2>1, <2>2, <2>3
<1>6. CASE Deliver
  <2>1. /\ UNCHANGED <<listeners, handlers>> /\ (thrown => thrown') /\ stack # <<>>
    BY <1>6 DEF Deliver, Hear, PassOn, Delegate, Mismatch, Return, AtListener, wireVars, historyVars
  <2>2. handlers' \in Nat /\ handlers' # 0
    BY <2>1 DEF Untouched
  <2>3. Excused => Excused'
    BY <2>1, ExcusedStays
  <2>4. ~Excused => Tidy' \/ Excused'
    BY <1>6, DeliverTidy DEF Excused
  <2> QED BY <1>1, <2>2, <2>3, <2>4
<1>7. CASE EmitError \/ FuncThrows \/ Catch \/ Escape \/ Leave
  <2>1. UNCHANGED <<listeners, handlers, thrown>> /\ handler # Idle
    BY <1>7 DEF EmitError, FuncThrows, Catch, Escape, Leave, InFunc, Idle, wireVars, historyVars
  <2>2. handlers' \in Nat /\ handlers' # 0
    BY <2>1 DEF Untouched
  <2>3. Excused => Excused'
    BY <2>1, ExcusedStays
  <2>4. Tidy => Tidy'
    BY <1>7, HandlerTidy
  <2> QED BY <1>1, <2>2, <2>3, <2>4
<1>8. CASE UNCHANGED vars
  <2>1. UNCHANGED <<listeners, stack, depth, handler, flying, escaped, thrown, handlers>>
    BY <1>8 DEF vars, wireVars, historyVars
  <2>2. Excused => Excused'
    BY <2>1, ExcusedStays
  <2>3. Tidy => Tidy'
    BY <2>1 DEF Tidy, OneWay, Leads, PassesOn, On, Idle
  <2>4. handlers' = 0 => Untouched'
    BY <2>1 DEF Untouched, Idle
  <2> QED BY <1>1, <2>1, <2>2, <2>3, <2>4
<1> QED BY <1>3, <1>4, <1>5, <1>6, <1>7, <1>8 DEF Next

LEMMA NothingEscapesInvInit == Init => NothingEscapesInv
<1> SUFFICES ASSUME Init PROVE NothingEscapesInv
  OBVIOUS
<1> DEFINE K == [kind : {"program", "on_error", "delegate_to"}, to : Objects \cup {NoObject}]
<1>1. \A o \in Objects : listeners[o] = <<>>
  BY DEF Init
<1>2. <<>> \in Seq(K) /\ Len(<<>>) = 0 /\ Wires = {}
  BY <1>1 DEF Wires
<1>3. Wired
  BY <1>1, <1>2, DelegationAssumption DEF Init, Wired
<1>4. Untouched /\ handlers \in Nat
  BY DEF Init, Untouched
<1>5. <<>> \in Seq(Emits) /\ DOMAIN <<>> = {} /\ 1 .. Len(<<>>) - 1 = {}
  OBVIOUS
<1>6. OneWay(stack) /\ \A q : ~On(stack, q)
  BY <1>4, <1>5 DEF Untouched, OneWay, On
<1>7. Tidy
  BY <1>4, <1>6 DEF Untouched, Tidy
<1> QED BY <1>3, <1>4, <1>7 DEF NothingEscapesInv

\* Whatever objects are connected how, and however many errors they report: an
\* exception leaves run_if_valid only when a listener of "error" threw, when the
\* delegations form a loop, or when one by delegate_to leads to a listener that
\* takes an error.  In particular the depth limit, any above 0, refuses nothing
\* else: errors that are passed on by a tree of objects never come near it.
THEOREM ErrorsStayInside == Spec => []NothingEscapes
<1>1. NothingEscapesInv => NothingEscapes
  BY DEF NothingEscapesInv, NothingEscapes, Excused, Tidy
<1> QED BY <1>1, NothingEscapesInvInit, NothingEscapesInvNext, PTL DEF Spec

-----------------------------------------------------------------------------
(* What an error shows: its layers, a description, an exception.            *)

Whole(e, b) == Fresh(e) /\ Len(e) = 1 /\ Described(e[1]) /\ e[1].exception = b

LEMMA WholeLayer ==
  ASSUME NEW e, NEW b, Whole(e, b)
  PROVE  1 \in DOMAIN e /\ e[1] \in Layers
<1>1. e \in Seq(Layers) /\ Len(e) = 1
  BY DEF Whole, Fresh
<1>2. 1 \in DOMAIN e
  BY <1>1
<1> QED BY <1>1, <1>2, ElementOfSeq

LEMMA NewIsWhole ==
  ASSUME NEW b \in BOOLEAN
  PROVE  Whole(Layer(<<"description">>, b), b)
<1> DEFINE l == [keys |-> <<"description">>, frozen |-> FALSE, exception |-> b]
<1>1. Described(l) /\ l.exception = b
  <2>1. l.keys = <<"description">> /\ l.exception = b
    OBVIOUS
  <2>2. 1 \in DOMAIN <<"description">> /\ <<"description">>[1] = "description"
    OBVIOUS
  <2> HIDE DEF l
  <2> QED BY <2>1, <2>2 DEF Described
<1> HIDE DEF l
<1>2. Len(<<l>>) = 1 /\ <<l>>[1] = l
  OBVIOUS
<1>3. Layer(<<"description">>, b) = <<l>>
  BY DEF Layer, l
<1> QED BY <1>1, <1>2, <1>3, NewIsFresh DEF Whole

LEMMA AddKeepsWhole ==
  ASSUME NEW e, NEW b, Whole(e, b), NEW key \in Names
  PROVE  Whole(Add(e, key), b)
<1>1. Fresh(e) /\ Len(e) = 1 /\ e[1] \in Layers /\ Described(e[1]) /\ e[1].exception = b
  BY WholeLayer DEF Whole
<1> DEFINE l == [e[1] EXCEPT !.keys = Append(@, key)]
<1>2. Add(e, key) = [e EXCEPT ![1] = l]
  BY <1>1 DEF Fresh, Add, Frozen
<1>3. l.keys = Append(e[1].keys, key) /\ l.exception = b /\ e[1].keys \in Seq(Names)
  BY <1>1 DEF Layers
<1> HIDE DEF l
<1>4. Described(l)
  <2>1. PICK i \in DOMAIN e[1].keys : e[1].keys[i] = "description"
    BY <1>1 DEF Described
  <2> DEFINE keys == e[1].keys
  <2>2. keys \in Seq(Names) /\ i \in DOMAIN keys /\ keys[i] = "description"
    BY <1>3, <2>1
  <2> HIDE DEF keys
  <2>3. i \in DOMAIN Append(keys, key) /\ Append(keys, key)[i] = "description"
    BY <2>2
  <2>4. l.keys = Append(keys, key)
    BY <1>3 DEF keys
  <2> QED BY <2>3, <2>4 DEF Described
<1>5. Len(Add(e, key)) = 1 /\ Add(e, key)[1] = l
  BY <1>1, <1>2 DEF Fresh
<1> QED BY <1>1, <1>3, <1>4, <1>5, AddIsFresh DEF Whole

LEMMA WholeShows ==
  ASSUME NEW e, NEW b \in BOOLEAN, Whole(e, b)
  PROVE  Len(e) = 1 /\ Described(e[1]) /\ (HasException(e) <=> b)
<1>1. DOMAIN e = {1} /\ e[1].exception = b
  BY DEF Whole, Fresh
<1> QED BY <1>1 DEF Whole, HasException

LEMMA EmittedShows ==
  /\ Len(Plain) = 1 /\ Described(Plain[1]) /\ ~HasException(Plain)
  /\ Len(Raised) = 1 /\ Described(Raised[1]) /\ HasException(Raised)
<1>1. Whole(NewError, FALSE) /\ Whole(ExceptionError, TRUE) /\ "where" \in Names
  BY NewIsWhole DEF NewError, ExceptionError, Names
<1>2. Whole(Plain, FALSE) /\ Whole(Raised, TRUE)
  BY <1>1, AddKeepsWhole, Zenon DEF Plain, Raised
<1> QED BY <1>2, WholeShows

LEMMA WrapShows ==
  ASSUME NEW e \in Seq(Layers)
  PROVE  /\ Len(Wrap(e)) = Len(e) + 1 /\ Described(Wrap(e)[1])
         /\ HasException(Wrap(e)) <=> HasException(e)
<1> DEFINE n == Add(Add(NewError, "derived_error"), "where")
<1>1. Whole(n, FALSE)
  <2>1. Whole(NewError, FALSE) /\ "derived_error" \in Names /\ "where" \in Names
    BY NewIsWhole DEF NewError, Names
  <2>2. Whole(Add(NewError, "derived_error"), FALSE)
    BY <2>1, AddKeepsWhole
  <2> QED BY <2>1, <2>2, AddKeepsWhole
<1> HIDE DEF n
<1> DEFINE l == Freeze(n)[1]
<1>2. Wrap(e) = <<l>> \o e
  BY <1>1 DEF Wrap, AddChild, Whole, Fresh, Frozen, Copy, n
<1>3. Described(l) /\ ~l.exception
  <2>1. n[1] \in Layers /\ 1 \in DOMAIN n /\ Described(n[1]) /\ ~n[1].exception
    BY <1>1, WholeLayer DEF Whole
  <2>2. l = [n[1] EXCEPT !.frozen = TRUE]
    BY <2>1 DEF Freeze
  <2> HIDE DEF l
  <2>3. l.keys = n[1].keys /\ l.exception = n[1].exception
    BY <2>1, <2>2 DEF Layers
  <2> QED BY <2>1, <2>3 DEF Described
<1> HIDE DEF l
<1> DEFINE w == <<l>> \o e
<1>4. /\ Len(w) = Len(e) + 1 /\ w[1] = l
      /\ DOMAIN w = 1 .. Len(e) + 1 /\ DOMAIN e = 1 .. Len(e) /\ Len(e) \in Nat
      /\ \A i \in 1 .. Len(e) : w[i + 1] = e[i]
  OBVIOUS
<1> HIDE DEF w
<1>5. ASSUME HasException(w) PROVE HasException(e)
  <2>1. PICK i \in 1 .. Len(e) + 1 : w[i].exception
    BY <1>4, <1>5 DEF HasException
  <2>2. i # 1
    BY <1>3, <1>4, <2>1
  <2>3. i - 1 \in 1 .. Len(e) /\ (i - 1) + 1 = i
    <3> DEFINE L == Len(e)
    <3>1. L \in Nat /\ i \in 1 .. L + 1 /\ i # 1
      BY <1>4, <2>2
    <3> HIDE DEF L
    <3>2. i - 1 \in 1 .. L /\ (i - 1) + 1 = i
      BY <3>1
    <3> QED BY <3>2 DEF L
  <2>4. w[(i - 1) + 1] = e[i - 1]
    BY <1>4, <2>3
  <2> QED BY <1>4, <2>1, <2>3, <2>4 DEF HasException
<1>6. ASSUME HasException(e) PROVE HasException(w)
  <2>1. PICK i \in 1 .. Len(e) : e[i].exception
    BY <1>4, <1>6 DEF HasException
  <2>2. i + 1 \in 1 .. Len(e) + 1
    BY <1>4
  <2> QED BY <1>4, <2>1, <2>2 DEF HasException
<1> QED BY <1>2, <1>3, <1>4, <1>5, <1>6 DEF w

LEMMA LeftShows ==
  ASSUME NEW e
  PROVE  Len(Left(e)) = 1 /\ ~Described(Left(e)[1]) /\ ~HasException(Left(e))
<1> DEFINE l == [keys |-> <<>>, frozen |-> e[1].frozen, exception |-> FALSE]
<1>1. l.keys = <<>> /\ ~l.exception
  OBVIOUS
<1>2. Left(e) = <<l>>
  BY DEF Left
<1> HIDE DEF l
<1>3. Len(<<l>>) = 1 /\ <<l>>[1] = l /\ DOMAIN <<l>> = {1} /\ DOMAIN <<>> = {}
  OBVIOUS
<1> QED BY <1>1, <1>2, <1>3 DEF Described, HasException

-----------------------------------------------------------------------------
(* Ways that are longer than there are objects go round.                    *)

LEMMA WaysFacts ==
  ASSUME Wired, NEW o, NEW m \in Nat \ {0}, NEW p \in Ways(o, m)
  PROVE  /\ p \in [1 .. m -> Wires] /\ DOMAIN p = 1 .. m /\ Len(p) = m /\ p[1][1] = o
         /\ \A k \in 1 .. m : /\ p[k] = <<p[k][1], p[k][2]>> /\ p[k][1] \in Objects
                              /\ p[k][2] \in Nat \ {0} /\ p[k][2] <= Len(listeners[p[k][1]])
         /\ \A k \in 1 .. m - 1 :
              PassesOn(p[k]) /\ listeners[p[k][1]][p[k][2]].to = p[k + 1][1]
<1>1. p \in [1 .. m -> Wires]
  BY DEF Ways
<1>2. \A w \in Wires : /\ w = <<w[1], w[2]>> /\ w[1] \in Objects
                       /\ w[2] \in Nat \ {0} /\ w[2] <= Len(listeners[w[1]])
  BY DelegationAssumption DEF Wires
<1>3. \A k \in 1 .. m : p[k] \in Wires
  BY <1>1
<1>4. Len(p) = m
  BY <1>1
<1> QED BY <1>1, <1>2, <1>3, <1>4 DEF Ways

\* Where in 1 .. b - 1 one is after i places, going from b - 1 back to a.
Round(i, a, b) == IF i < a THEN i ELSE a + ((i - a) % (b - a))

LEMMA RoundStep ==
  ASSUME NEW a \in Nat \ {0}, NEW b \in Nat, a < b, NEW i \in Nat \ {0}
  PROVE  /\ Round(i, a, b) \in 1 .. b - 1 /\ Round(1, a, b) = 1
         /\ \/ Round(i + 1, a, b) = Round(i, a, b) + 1
            \/ Round(i, a, b) = b - 1 /\ Round(i + 1, a, b) = a
<1> DEFINE n == b - a
<1>1. n \in Nat \ {0} /\ 0 % n = 0
  OBVIOUS
<1>2. Round(1, a, b) = 1
  <2>1. CASE a = 1
    <3>1. Round(1, a, b) = a + ((1 - a) % n) /\ 1 - a = 0
      BY <2>1 DEF Round
    <3> QED BY <2>1, <3>1, <1>1
  <2>2. CASE a # 1
    BY <2>2 DEF Round
  <2> QED BY <2>1, <2>2
<1>3. CASE i + 1 < a
  BY <1>3 DEF Round
<1>4. CASE i + 1 = a
  <2>1. Round(i, a, b) = i /\ Round(i + 1, a, b) = a + (0 % n)
    <3>1. (i + 1) - a = 0 /\ i < a /\ ~(i + 1 < a)
      BY <1>4
    <3> QED BY <3>1 DEF Round
  <2>2. Round(i + 1, a, b) = a /\ Round(i + 1, a, b) = Round(i, a, b) + 1 /\ i \in 1 .. b - 1
    BY <1>1, <1>4, <2>1
  <2> QED BY <1>2, <2>1, <2>2
<1>5. CASE i >= a
  <2> DEFINE m == (i - a) % n
             l == ((i - a) + 1) % n
  <2>1. i - a \in Nat
    BY <1>5
  <2>2. m \in 0 .. n - 1 /\ l = IF m = n - 1 THEN 0 ELSE m + 1
    BY <1>1, <2>1, Remainder
  <2>3. Round(i, a, b) = a + m /\ Round(i + 1, a, b) = a + l
    <3>1. (i + 1) - a = (i - a) + 1 /\ ~(i < a) /\ ~(i + 1 < a)
      BY <1>5
    <3> QED BY <3>1 DEF Round
  <2> HIDE DEF m, l
  <2> QED BY <1>2, <2>2, <2>3
<1> QED BY <1>3, <1>4, <1>5

LEMMA LongWayGoesRound ==
  ASSUME Wired, NEW o, NEW n \in Nat, n > Cardinality(Objects), NEW p \in Ways(o, n),
         NEW N \in Nat \ {0}
  PROVE  \E q \in Ways(o, N) : PassesOn(q[N])
<1>0. Cardinality(Objects) \in Nat /\ n \in Nat \ {0}
  BY FS_CardinalityType, DelegationAssumption
<1>1. /\ \A k \in 1 .. n : p[k] \in Wires /\ p[k][1] \in Objects
      /\ p[1][1] = o
      /\ \A k \in 1 .. n - 1 :
           PassesOn(p[k]) /\ listeners[p[k][1]][p[k][2]].to = p[k + 1][1]
  BY <1>0, WaysFacts
<1>2. \E a, b \in 1 .. n : a < b /\ p[a][1] = p[b][1]
  <2> DEFINE f == [i \in 1 .. n |-> p[i][1]]
  <2>1. f \in [1 .. n -> Objects]
    BY <1>1
  <2>2. Cardinality(1 .. n) = n /\ IsFiniteSet(1 .. n)
    <3>1. Cardinality(1 .. n) = IF 1 > n THEN 0 ELSE n - 1 + 1
      BY <1>0, FS_Interval
    <3>2. (IF 1 > n THEN 0 ELSE n - 1 + 1) = n
      BY <1>0
    <3> QED BY <3>1, <3>2, <1>0, FS_Interval
  <2>3. \E a, b \in 1 .. n : a # b /\ f[a] = f[b]
    <3> HIDE DEF f
    <3> QED BY <2>1, <2>2, FS_PigeonHole, DelegationAssumption
  <2>4. PICK a \in 1 .. n, b \in 1 .. n : a # b /\ p[a][1] = p[b][1]
    BY <2>3
  <2>5. a < b \/ b < a
    BY <2>4
  <2> QED BY <2>4, <2>5
<1>3. PICK a \in 1 .. n, b \in 1 .. n : a < b /\ p[a][1] = p[b][1]
  BY <1>2
<1> DEFINE q == [i \in 1 .. N |-> p[Round(i, a, b)]]
<1>4. a \in Nat \ {0} /\ b \in Nat /\ b - 1 \in 1 .. n - 1
      /\ \A k \in 1 .. b - 1 : k \in 1 .. n /\ k \in 1 .. n - 1
  BY <1>3
<1>5. \A i \in 1 .. N : i \in Nat \ {0} /\ Round(i, a, b) \in 1 .. b - 1
  <2>1. \A i \in 1 .. N : i \in Nat \ {0}
    OBVIOUS
  <2>2. \A i \in Nat \ {0} : Round(i, a, b) \in 1 .. b - 1
    BY <1>3, <1>4, RoundStep
  <2> QED BY <2>1, <2>2
<1>6. q \in [1 .. N -> Wires] /\ \A i \in 1 .. N : PassesOn(q[i])
  BY <1>1, <1>4, <1>5
<1>7. q[1][1] = o
  <2>1. 1 \in 1 .. N /\ Round(1, a, b) = 1
    BY <1>3, <1>4, RoundStep
  <2> QED BY <1>1, <2>1
<1>8. ASSUME NEW i \in 1 .. N - 1
      PROVE  listeners[q[i][1]][q[i][2]].to = q[i + 1][1]
  <2> DEFINE k == Round(i, a, b)
             l == Round(i + 1, a, b)
  <2>1. i \in 1 .. N /\ i + 1 \in 1 .. N /\ i \in Nat \ {0}
    OBVIOUS
  <2>2. q[i] = p[k] /\ q[i + 1] = p[l]
    BY <2>1
  <2>3. k \in 1 .. b - 1 /\ (l = k + 1 \/ (k = b - 1 /\ l = a))
    BY <2>1, <1>3, <1>4, RoundStep
  <2> HIDE DEF q, k, l
  <2>4. listeners[p[k][1]][p[k][2]].to = p[k + 1][1]
    BY <1>1, <1>4, <2>3
  <2>5. p[k + 1][1] = p[l][1]
    <3>1. CASE l = k + 1
      BY <3>1
    <3>2. CASE k = b - 1 /\ l = a
      <4>1. k + 1 = b
        BY <3>2, <1>4
      <4> QED BY <4>1, <3>2, <1>3
    <3> QED BY <2>3, <3>1, <3>2
  <2> QED BY <2>2, <2>4, <2>5
<1> HIDE DEF q
<1>9. \A i \in 1 .. N - 1 : i \in 1 .. N
  OBVIOUS
<1>10. q \in Ways(o, N)
  BY <1>6, <1>7, <1>8, <1>9 DEF Ways
<1>11. N \in 1 .. N
  OBVIOUS
<1> QED BY <1>6, <1>10, <1>11

-----------------------------------------------------------------------------
(* What emits carry.                                                        *)

Gone(p) == {k \in DOMAIN p : Late(p[k])}

LEMMA NextWire ==
  ASSUME NEW f \in Emits
  PROVE  LET p == Append(f.path, <<f.on, f.at>>) IN
         /\ p \in Seq(Objects \X Nat) /\ Len(p) \in Nat \ {0} /\ Len(p) = Len(f.path) + 1
         /\ DOMAIN p = 1 .. Len(p) /\ p[Len(p)] = <<f.on, f.at>>
         /\ DOMAIN f.path = 1 .. Len(p) - 1 /\ \A k \in 1 .. Len(p) - 1 : p[k] = f.path[k]
<1>1. <<f.on, f.at>> \in Objects \X Nat /\ f.path \in Seq(Objects \X Nat)
  BY DEF Emits
<1> QED BY <1>1

\* What a listener of the program is to hear is what the emit carries.
LEMMA CarriedIsNews ==
  ASSUME NEW f \in Emits, NEW e \in BOOLEAN, Carries(f, e), f.error # NoError
  PROVE  LET p == Append(f.path, <<f.on, f.at>>) IN
         News(p, e) = [path |-> p, layers |-> Len(f.error),
                       described |-> Described(f.error[1]), exception |-> HasException(f.error)]
<1> DEFINE p == Append(f.path, <<f.on, f.at>>)
           gone == Gone(p)
           last == CHOOSE k \in gone : \A l \in gone : l <= k
<1>1. PICK begin \in 1 .. Len(p) :
        /\ IF gone = {} THEN begin = 1 ELSE begin \in gone /\ \A l \in gone : l <= begin
        /\ Len(f.error) = 1 + Len(p) - begin
  BY DEF Carries, Gone
<1>2. /\ Described(f.error[1]) <=> Len(p) \notin gone
      /\ HasException(f.error) <=> e /\ gone = {}
  BY DEF Carries, Gone
<1>3. DOMAIN p = 1 .. Len(p)
  BY NextWire
<1>4. \A k \in gone : k \in Nat
  BY <1>3 DEF Gone
<1>5. News(p, e) = [path |-> p, layers |-> 1 + Len(p) - (IF gone = {} THEN 1 ELSE last),
                    described |-> Len(p) \notin gone, exception |-> e /\ gone = {}]
  BY DEF News, Gone
<1> HIDE DEF p, gone
<1>6. (IF gone = {} THEN 1 ELSE last) = begin
  <2>1. CASE gone = {}
    BY <2>1, <1>1
  <2>2. CASE gone # {}
    <3>1. begin \in gone /\ \A l \in gone : l <= begin
      BY <2>2, <1>1
    <3>2. \A k \in gone : (\A l \in gone : l <= k) => k = begin
      BY <3>1, <1>4
    <3>3. last \in gone /\ \A l \in gone : l <= last
      BY <3>1
    <3> HIDE DEF last
    <3> QED BY <2>2, <3>2, <3>3
  <2> QED BY <2>1, <2>2
<1> HIDE DEF last
<1>7. (Len(p) \notin gone) = Described(f.error[1]) /\ (e /\ gone = {}) = HasException(f.error)
  BY <1>2 DEF Described, HasException
<1>8. News(p, e) = [path |-> p, layers |-> Len(f.error),
                    described |-> Described(f.error[1]), exception |-> HasException(f.error)]
  BY <1>1, <1>5, <1>6, <1>7
<1> QED BY <1>8 DEF p

LEMMA FirstIsOnTime ==
  ASSUME NEW o
  PROVE  ~Late(<<o, 1>>)
<1>1. 1 .. <<o, 1>>[2] - 1 = {}
  OBVIOUS
<1> QED BY <1>1 DEF Late

\* An error that a handler emits.
LEMMA FirstCarries ==
  ASSUME NEW o \in Objects
  PROVE  /\ Carries(NewEmit(o, Plain, <<>>), FALSE)
         /\ Carries(NewEmit(o, Raised, <<>>), TRUE)
<1> DEFINE p == Append(<<>>, <<o, 1>>)
<1>1. Len(p) = 1 /\ DOMAIN p = {1} /\ p[1] = <<o, 1>>
  OBVIOUS
<1> HIDE DEF p
<1>2. Gone(p) = {} /\ 1 \in 1 .. Len(p) /\ 1 = 1 + Len(p) - 1
  BY <1>1, FirstIsOnTime DEF Gone
<1>3. ASSUME NEW error, NEW e \in BOOLEAN,
             Len(error) = 1 /\ Described(error[1]) /\ (HasException(error) <=> e)
      PROVE  Carries(NewEmit(o, error, <<>>), e)
  <2> DEFINE f == NewEmit(o, error, <<>>)
  <2>1. f.path = <<>> /\ f.on = o /\ f.at = 1 /\ f.error = error
    BY DEF NewEmit
  <2> HIDE DEF f
  <2>2. Append(f.path, <<f.on, f.at>>) = p
    BY <2>1 DEF p
  <2>3. Carries(f, e)
    BY <2>1, <2>2, <1>2, <1>3 DEF Carries, Gone
  <2> QED BY <2>3 DEF f
<1> QED BY <1>3, EmittedShows

\* The next listener of an emit, when the one before took the error.
LEMMA LeftCarries ==
  ASSUME NEW f \in Emits, NEW g \in Emits, NEW e \in BOOLEAN,
         g.on = f.on, g.at = f.at + 1, g.path = f.path, g.error = Left(f.error),
         listeners[f.on][f.at].kind # "delegate_to"
  PROVE  Carries(g, e)
<1> DEFINE p == Append(g.path, <<g.on, g.at>>)
           n == Len(p)
<1>1. n \in Nat \ {0} /\ DOMAIN p = 1 .. n /\ p[n] = <<f.on, f.at + 1>> /\ f.at \in Nat \ {0}
  BY NextWire DEF Emits
<1> HIDE DEF p, n
<1>2. n \in Gone(p)
  <2>1. Late(<<f.on, f.at + 1>>)
    <3>1. f.at \in 1 .. <<f.on, f.at + 1>>[2] - 1
      BY <1>1
    <3> QED BY <3>1 DEF Late
  <2>2. n \in DOMAIN p
    BY <1>1
  <2> QED BY <1>1, <2>1, <2>2 DEF Gone
<1>3. \A l \in Gone(p) : l <= n
  BY <1>1 DEF Gone
<1>4. Gone(p) # {} /\ n \in 1 .. n /\ 1 = 1 + n - n
  BY <1>1, <1>2
<1>5. Len(g.error) = 1 /\ ~Described(g.error[1]) /\ ~HasException(g.error)
  BY LeftShows
<1> QED BY <1>2, <1>3, <1>4, <1>5 DEF Carries, Gone, p, n

\* The next listener, when the one before was delegate_to's.
LEMMA AdvancedCarries ==
  ASSUME NEW f \in Emits, NEW g \in Emits, NEW e \in BOOLEAN, Carries(f, e),
         g.on = f.on, g.at = f.at + 1, g.path = f.path, g.error = f.error,
         listeners[f.on][f.at].kind = "delegate_to"
  PROVE  Carries(g, e)
<1> DEFINE p == Append(f.path, <<f.on, f.at>>)
           q == Append(g.path, <<g.on, g.at>>)
           n == Len(p)
<1>1. n \in Nat \ {0} /\ DOMAIN p = 1 .. n /\ p[n] = <<f.on, f.at>> /\ f.at \in Nat \ {0}
  BY NextWire DEF Emits
<1>2. Len(q) = n /\ DOMAIN q = 1 .. n /\ q[n] = <<f.on, f.at + 1>>
  BY NextWire
<1>3. \A k \in 1 .. n - 1 : q[k] = p[k]
  BY NextWire
<1>4. Carries(f, e) /\ (f.error # NoError <=> g.error # NoError)
  OBVIOUS
<1> HIDE DEF p, q, n
<1>5. Late(<<f.on, f.at + 1>>) <=> Late(<<f.on, f.at>>)
  <2>1. \A i : i \in 1 .. (f.at + 1) - 1 <=> i = f.at \/ i \in 1 .. f.at - 1
    BY <1>1
  <2> QED BY <2>1 DEF Late
<1>6. \A k \in 1 .. n : Late(q[k]) <=> Late(p[k])
  <2>1. \A k \in 1 .. n : k = n \/ k \in 1 .. n - 1
    BY <1>1
  <2> QED BY <1>1, <1>2, <1>3, <1>5, <2>1
<1>7. Gone(q) = Gone(p)
  BY <1>1, <1>2, <1>6 DEF Gone
<1> QED BY <1>2, <1>4, <1>7 DEF Carries, Gone, p, q, n

\* An emit by on_error's listener.
LEMMA WrapCarries ==
  ASSUME NEW f \in Emits, NEW e \in BOOLEAN, Carries(f, e), f.error # NoError, NEW o \in Objects
  PROVE  Carries(NewEmit(o, Wrap(f.error), Append(f.path, <<f.on, f.at>>)), e)
<1> DEFINE p == Append(f.path, <<f.on, f.at>>)
           n == Len(p)
           g == NewEmit(o, Wrap(f.error), p)
           q == Append(p, <<o, 1>>)
<1>1. n \in Nat \ {0} /\ DOMAIN p = 1 .. n /\ p \in Seq(Objects \X Nat)
  BY NextWire
<1>2. f.error \in Seq(Layers) /\ Len(f.error) \in Nat
  BY DEF Emits
<1>3. PICK begin \in 1 .. n :
        /\ IF Gone(p) = {} THEN begin = 1 ELSE begin \in Gone(p) /\ \A l \in Gone(p) : l <= begin
        /\ Len(f.error) = 1 + n - begin
  BY DEF Carries, Gone
<1>4. /\ Described(f.error[1]) <=> n \notin Gone(p)
      /\ HasException(f.error) <=> e /\ Gone(p) = {}
  BY DEF Carries, Gone
<1>5. g.on = o /\ g.at = 1 /\ g.path = p /\ g.error = Wrap(f.error)
  BY DEF NewEmit
<1> HIDE DEF p, n, g
<1>6. Len(q) = n + 1 /\ DOMAIN q = 1 .. n + 1 /\ q[n + 1] = <<o, 1>> /\ \A k \in 1 .. n : q[k] = p[k]
  BY <1>1 DEF n
<1> HIDE DEF q
<1>7. Gone(q) = Gone(p) /\ n + 1 \notin Gone(p)
  <2>1. \A k \in 1 .. n + 1 : k = n + 1 \/ k \in 1 .. n
    BY <1>1
  <2>2. \A k \in 1 .. n : k \in 1 .. n + 1 /\ k # n + 1
    BY <1>1
  <2>3. ~Late(q[n + 1])
    BY <1>6, FirstIsOnTime
  <2> QED BY <1>1, <1>6, <2>1, <2>2, <2>3 DEF Gone
<1>8. begin \in 1 .. n + 1 /\ Len(f.error) + 1 = 1 + (n + 1) - begin
  <2> DEFINE m == Len(f.error)
  <2>1. m = 1 + n - begin /\ m \in Nat
    BY <1>2, <1>3
  <2> HIDE DEF m
  <2>2. begin \in 1 .. n + 1 /\ m + 1 = 1 + (n + 1) - begin
    BY <1>1, <2>1
  <2> QED BY <2>2 DEF m
<1>9. /\ Len(g.error) = 1 + Len(q) - begin /\ begin \in 1 .. Len(q) /\ Described(g.error[1])
      /\ HasException(g.error) <=> HasException(f.error)
  BY <1>2, <1>5, <1>6, <1>8, WrapShows
<1>10. IF Gone(q) = {} THEN begin = 1 ELSE begin \in Gone(q) /\ \A l \in Gone(q) : l <= begin
  BY <1>3, <1>7
<1>11. (Described(g.error[1]) <=> Len(q) \notin Gone(q)) /\ (HasException(g.error) <=> e /\ Gone(q) = {})
  BY <1>4, <1>6, <1>7, <1>9
<1>12. Append(g.path, <<g.on, g.at>>) = q
  BY <1>5 DEF q
<1>13. Carries(g, e)
  BY <1>9, <1>10, <1>11, <1>12 DEF Carries, Gone
<1> QED BY <1>13 DEF g, p

-----------------------------------------------------------------------------
(* Emits on their way: the innermost loop goes on, emits or returns.        *)

LEMMA TrailFacts ==
  ASSUME NEW s, Trail(s), s # <<>>
  PROVE  /\ s \in Seq(Emits) /\ DOMAIN s = 1 .. Len(s)
         /\ Len(s) \in Nat \ {0} /\ Len(s) \in 1 .. Len(s) /\ 1 \in 1 .. Len(s)
         /\ \A i \in 1 .. Len(s) : s[i] \in Emits /\ s[i].on \in Objects /\ s[i].at \in Nat \ {0}
<1>1. s \in Seq(Emits) /\ DOMAIN s = 1 .. Len(s) /\ Len(s) \in Nat \ {0}
  BY DEF Trail
<1>2. \A i \in 1 .. Len(s) : s[i] \in Emits
  BY <1>1, ElementOfSeq
<1> QED BY <1>1, <1>2 DEF Emits

\* t is s with its innermost loop one step on.
Stepped(s, t) ==
  /\ t \in Seq(Emits) /\ Len(t) = Len(s)
  /\ \A i \in 1 .. Len(s) - 1 : t[i] = s[i]
  /\ t[Len(s)].on = s[Len(s)].on /\ t[Len(s)].at = s[Len(s)].at + 1
  /\ t[Len(s)].path = s[Len(s)].path
  /\ t[Len(s)].error = NoError <=> s[Len(s)].error = NoError

LEMMA TopIsStepped ==
  ASSUME Trail(stack), stack # <<>>, NEW f \in Emits, NEW t,
         t = [stack EXCEPT ![Len(stack)] = f],
         f.on = Top.on, f.at = Top.at + 1, f.path = Top.path,
         f.error = NoError <=> Top.error = NoError
  PROVE  Stepped(stack, t) /\ t[Len(stack)] = f
<1> DEFINE n == Len(stack)
<1>1. n \in 1 .. n /\ n \in Nat \ {0} /\ DOMAIN stack = 1 .. n /\ stack \in Seq(Emits)
  BY TrailFacts
<1>2. t \in Seq(Emits) /\ Len(t) = n /\ t[n] = f
  BY <1>1
<1>3. \A i \in 1 .. n - 1 : i \in 1 .. n /\ i # n
  <2> HIDE DEF n
  <2> QED BY <1>1
<1>4. \A i \in 1 .. n - 1 : t[i] = stack[i]
  BY <1>1, <1>3
<1> QED BY <1>2, <1>4 DEF Stepped, Top

LEMMA AdvancedIsStepped ==
  ASSUME Trail(stack), stack # <<>>
  PROVE  Stepped(stack, Advanced) /\ Advanced[Len(stack)].error = Top.error
<1> DEFINE f == [Top EXCEPT !.at = @ + 1]
<1>1. Top \in Emits
  BY TrailFacts DEF Top
<1>2. f \in Emits /\ f.on = Top.on /\ f.at = Top.at + 1 /\ f.error = Top.error /\ f.path = Top.path
  <2>1. Top.at + 1 \in Nat \ {0}
    BY <1>1 DEF Emits
  <2> QED BY <1>1, <2>1 DEF Emits
<1>3. Advanced = [stack EXCEPT ![Len(stack)] = f]
  BY DEF Advanced, Top
<1> HIDE DEF f
<1> QED BY <1>2, <1>3, TopIsStepped

LEMMA GivenAwayIsStepped ==
  ASSUME Trail(stack), stack # <<>>, Top.error # NoError
  PROVE  Stepped(stack, GivenAway) /\ GivenAway[Len(stack)].error = Left(Top.error)
<1> DEFINE n == Len(stack)
           g == [Top EXCEPT !.at = @ + 1]
           f == [g EXCEPT !.error = Left(@)]
<1>1. Top \in Emits /\ Left(Top.error) \in Seq(Layers) /\ Left(Top.error) # NoError
      /\ n \in 1 .. n /\ DOMAIN stack = 1 .. n /\ stack \in Seq(Emits)
  <2>1. Top \in Emits
    BY TrailFacts DEF Top
  <2> QED BY <2>1, TrailFacts, LeftIsError DEF Emits
<1>2. /\ f \in Emits /\ f.on = Top.on /\ f.at = Top.at + 1 /\ f.path = Top.path
      /\ f.error = Left(Top.error) /\ f.error # NoError
  <2>1. Top.at + 1 \in Nat \ {0}
    BY <1>1 DEF Emits
  <2>2. g \in Emits /\ g.on = Top.on /\ g.at = Top.at + 1 /\ g.error = Top.error /\ g.path = Top.path
    BY <1>1, <2>1 DEF Emits
  <2> HIDE DEF g
  <2> QED BY <2>2, <1>1 DEF Emits
<1>3. Advanced = [stack EXCEPT ![n] = g]
  BY DEF Advanced, Top
<1>4. GivenAway = [stack EXCEPT ![n] = f]
  <2> HIDE DEF g
  <2>1. GivenAway = [Advanced EXCEPT ![n] = f]
    BY <1>1, <1>3 DEF GivenAway
  <2> HIDE DEF f
  <2> QED BY <2>1, <1>1, <1>3
<1> HIDE DEF f
<1> QED BY <1>2, <1>4, TopIsStepped

\* Emits know the way that led to them, and the listener that they are at is
\* one step further.
LEMMA PassedAreWires ==
  ASSUME Wired, NEW s, NEW n \in Nat \ {0}, Trail(s), Len(s) = n
  PROVE  \A k \in 1 .. n - 1 : Passed(s, k) \in Wires
<1>1. \A k \in 1 .. n - 1 : k \in 1 .. n
  OBVIOUS
<1>2. s # <<>>
  BY DEF Trail
<1> TAKE k \in 1 .. n - 1
<1>3. s[k].on \in Objects /\ s[k].at \in Nat \ {0} /\ s[k].at > 1
      /\ s[k].at <= Len(listeners[s[k].on]) + 1
  BY <1>1, <1>2, TrailFacts DEF Trail
<1> DEFINE l == Len(listeners[s[k].on])
           a == s[k].at
<1>4. l \in Nat
  BY <1>3 DEF Wired
<1>5. a - 1 \in Nat \ {0} /\ a - 1 <= l
  <2>1. a \in Nat /\ a > 1 /\ a <= l + 1
    BY <1>3
  <2> HIDE DEF a, l
  <2> QED BY <1>4, <2>1
<1> QED BY <1>3, <1>5, WireIsPlace DEF Passed

LEMMA HereIsWay ==
  ASSUME Wired, NEW s, NEW n \in Nat \ {0}, Trail(s), Len(s) = n,
         s[n].at <= Len(listeners[s[n].on])
  PROVE  LET p == Append(s[n].path, <<s[n].on, s[n].at>>) IN
         /\ p \in Ways(s[1].on, n) /\ Len(p) = n /\ DOMAIN p = 1 .. n
         /\ \A k \in 1 .. n - 1 : p[k] = Passed(s, k)
         /\ p[n] = <<s[n].on, s[n].at>>
         /\ Along(p, "delegate_to") = {} <=>
              s[n].error # NoError /\ listeners[s[n].on][s[n].at].kind # "delegate_to"
<1> DEFINE q == s[n].path
           w == <<s[n].on, s[n].at>>
           p == Append(q, w)
<1>0. s # <<>> /\ n \in 1 .. n /\ 1 \in 1 .. n
  BY DEF Trail
<1>1. s[n] \in Emits /\ s[n].on \in Objects /\ s[n].at \in Nat \ {0} /\ DOMAIN s = 1 .. n
      /\ s[1].on \in Objects
  BY <1>0, TrailFacts
<1>2. q = [k \in 1 .. n - 1 |-> Passed(s, k)] /\ (s[n].error = NoError <=> Along(q, "delegate_to") # {})
  BY <1>0, <1>1 DEF Trail
<1>3. w \in Wires
  BY <1>1, WireIsPlace
<1>4. q \in Seq(Objects \X Nat)
  BY <1>1 DEF Emits
<1>5. DOMAIN q = 1 .. n - 1 /\ Len(q) = n - 1
  <2>1. DOMAIN q = 1 .. n - 1
    BY <1>2
  <2> QED BY <2>1, <1>4
<1>6. w \in Objects \X Nat
  BY <1>1
<1> HIDE DEF q
<1>7. /\ p \in Seq(Objects \X Nat) /\ Len(p) = n /\ DOMAIN p = 1 .. n /\ p[n] = w
      /\ \A k \in 1 .. n - 1 : p[k] = q[k]
  <2> HIDE DEF w
  <2> QED BY <1>4, <1>5, <1>6
<1>8. \A k \in 1 .. n - 1 : p[k] = Passed(s, k)
  BY <1>2, <1>7
<1> HIDE DEF p, w
<1>9. \A k \in 1 .. n : k = n \/ (k \in 1 .. n - 1 /\ k + 1 \in 1 .. n)
  OBVIOUS
<1>10. p \in [1 .. n -> Wires]
  <2>1. \A k \in 1 .. n : p[k] \in Wires
    BY <1>3, <1>7, <1>8, <1>9, PassedAreWires
  <2>2. p = [k \in 1 .. n |-> p[k]]
    BY <1>7
  <2> QED BY <2>1, <2>2
<1>11. \A k \in 1 .. n : p[k][1] = s[k].on
  BY <1>7, <1>8, <1>9 DEF Passed, w
<1>12. \A k \in 1 .. n - 1 : PassesOn(p[k]) /\ listeners[p[k][1]][p[k][2]].to = p[k + 1][1]
  <2> TAKE k \in 1 .. n - 1
  <2>1. PassesOn(Passed(s, k)) /\ listeners[s[k].on][s[k].at - 1].to = s[k + 1].on
    BY DEF Trail
  <2>2. p[k] = Passed(s, k) /\ k \in 1 .. n /\ k + 1 \in 1 .. n
    BY <1>8, <1>9
  <2>3. p[k][1] = s[k].on /\ p[k + 1][1] = s[k + 1].on
    BY <2>2, <1>11
  <2>4. p[k][2] = s[k].at - 1
    BY <2>2 DEF Passed
  <2> QED BY <2>1, <2>2, <2>3, <2>4
<1>13. p \in Ways(s[1].on, n)
  BY <1>0, <1>10, <1>11, <1>12 DEF Ways
<1>14. Along(p, "delegate_to") = {} <=>
         Along(q, "delegate_to") = {} /\ listeners[s[n].on][s[n].at].kind # "delegate_to"
  <2>1. \A k \in 1 .. n - 1 : k \in 1 .. n
    OBVIOUS
  <2>2. w[1] = s[n].on /\ w[2] = s[n].at
    BY DEF w
  <2>3. \A k : k \in Along(p, "delegate_to") <=>
               k \in 1 .. n /\ listeners[p[k][1]][p[k][2]].kind = "delegate_to"
    BY <1>7 DEF Along
  <2>4. \A k : k \in Along(q, "delegate_to") <=>
               k \in 1 .. n - 1 /\ listeners[q[k][1]][q[k][2]].kind = "delegate_to"
    BY <1>5 DEF Along
  <2>5. \A k \in 1 .. n - 1 : k \in Along(p, "delegate_to") <=> k \in Along(q, "delegate_to")
    BY <1>7, <2>1, <2>3, <2>4
  <2>6. n \in Along(p, "delegate_to") <=> listeners[s[n].on][s[n].at].kind = "delegate_to"
    BY <1>0, <1>7, <2>2, <2>3
  <2>7. \A k : k \in Along(p, "delegate_to") => k = n \/ k \in 1 .. n - 1
    BY <1>9, <2>3
  <2>8. \A k : k \in Along(q, "delegate_to") => k \in 1 .. n - 1
    BY <2>4
  <2> HIDE DEF q
  <2> QED BY <2>5, <2>6, <2>7, <2>8, Zenon
<1> QED BY <1>2, <1>7, <1>8, <1>13, <1>14 DEF p, q, w

-----------------------------------------------------------------------------
(* Which ways are done, when the innermost loop goes on, emits or returns.  *)

\* p turns off from the emits in the i-th loop, and that is past p's listener.
Past(s, p, i) ==
  /\ \A k \in 1 .. i - 1 : p[k] = Passed(s, k)
  /\ p[i][1] = s[i].on
  /\ p[i][2] < IF i = Len(s) THEN s[i].at ELSE s[i].at - 1

\* p leads to the listener that the innermost loop is at, or further.
ToHere(s, p) ==
  /\ Len(s) <= Len(p)
  /\ \A k \in 1 .. Len(s) - 1 : p[k] = Passed(s, k)
  /\ p[Len(s)] = <<s[Len(s)].on, s[Len(s)].at>>

LEMMA DoneIsPast ==
  ASSUME Wired, NEW s, NEW n \in Nat \ {0}, Trail(s), Len(s) = n,
         NEW o, NEW m \in Nat \ {0}, NEW p \in Ways(o, m)
  PROVE  Done(s, p) <=> \E i \in 1 .. n : i \in 1 .. m /\ Past(s, p, i)
<1>1. DOMAIN s = 1 .. n /\ DOMAIN p = 1 .. m
  BY WaysFacts, TrailFacts
<1>2. \A i : i \in DOMAIN s \cap DOMAIN p <=> i \in 1 .. n /\ i \in 1 .. m
  BY <1>1
<1> QED BY <1>2 DEF Done, Past

LEMMA ListenersCount ==
  ASSUME Wired, NEW o \in Objects
  PROVE  Len(listeners[o]) \in Nat
  BY DEF Wired

LEMMA SteppedDone ==
  ASSUME Wired, NEW s, NEW n \in Nat \ {0}, Trail(s), Len(s) = n, NEW t, Trail(t), Stepped(s, t),
         NEW o, NEW m \in Nat \ {0}, NEW p \in Ways(o, m)
  PROVE  Done(t, p) <=> Done(s, p) \/ ToHere(s, p)
<1>1. Len(t) = n /\ Len(p) = m /\ s # <<>> /\ n \in 1 .. n
  BY WaysFacts DEF Stepped, Trail
<1>2. /\ Done(s, p) <=> \E i \in 1 .. n : i \in 1 .. m /\ Past(s, p, i)
      /\ Done(t, p) <=> \E i \in 1 .. n : i \in 1 .. m /\ Past(t, p, i)
  BY <1>1, DoneIsPast
<1>3. \A i \in 1 .. n : i = n \/ i \in 1 .. n - 1
  OBVIOUS
<1>4. \A i \in 1 .. n - 1 : i # n /\ t[i] = s[i]
  BY DEF Stepped
<1>5. \A i \in 1 .. n : \A k \in 1 .. i - 1 : k \in 1 .. n - 1
  OBVIOUS
<1>6. \A k \in 1 .. n - 1 : Passed(t, k) = Passed(s, k)
  BY <1>4 DEF Passed
<1>7. ASSUME NEW i \in 1 .. n - 1 PROVE Past(t, p, i) <=> Past(s, p, i)
  <2>1. i \in 1 .. n /\ i # n /\ t[i] = s[i]
    BY <1>4
  <2>2. \A k \in 1 .. i - 1 : Passed(t, k) = Passed(s, k)
    BY <2>1, <1>5, <1>6
  <2> QED BY <1>1, <2>1, <2>2 DEF Past
<1>8. ASSUME n \in 1 .. m PROVE Past(t, p, n) <=> Past(s, p, n) \/ ToHere(s, p)
  <2> DEFINE a == s[n].at
             w == p[n]
  <2>1. w = <<w[1], w[2]>> /\ w[2] \in Nat /\ a \in Nat
    BY <1>1, <1>8, WaysFacts, TrailFacts
  <2>2. t[n].on = s[n].on /\ t[n].at = a + 1
    BY DEF Stepped
  <2>3. n <= m
    BY <1>8
  <2>4. Past(t, p, n) <=> (\A k \in 1 .. n - 1 : p[k] = Passed(s, k)) /\ w[1] = s[n].on /\ w[2] < a + 1
    BY <1>1, <1>6, <2>2 DEF Past
  <2>5. Past(s, p, n) <=> (\A k \in 1 .. n - 1 : p[k] = Passed(s, k)) /\ w[1] = s[n].on /\ w[2] < a
    BY DEF Past
  <2>6. ToHere(s, p) <=> (\A k \in 1 .. n - 1 : p[k] = Passed(s, k)) /\ w = <<s[n].on, a>>
    BY <1>1, <2>3 DEF ToHere
  <2> HIDE DEF w, a
  <2>7. w[2] < a + 1 <=> w[2] < a \/ w[2] = a
    BY <2>1
  <2>8. w = <<s[n].on, a>> <=> w[1] = s[n].on /\ w[2] = a
    BY <2>1
  <2> QED BY <2>4, <2>5, <2>6, <2>7, <2>8
<1>9. ToHere(s, p) => n \in 1 .. m
  BY <1>1 DEF ToHere
<1> QED BY <1>1, <1>2, <1>3, <1>7, <1>8, <1>9

\* An emit that begins is done with nothing.
LEMMA PushedDone ==
  ASSUME Wired, NEW s, NEW n \in Nat \ {0}, Trail(s), Len(s) = n, NEW t, Stepped(s, t),
         NEW u, Trail(u), Len(u) = n + 1, \A i \in 1 .. n : u[i] = t[i], u[n + 1].at = 1,
         NEW o, NEW m \in Nat \ {0}, NEW p \in Ways(o, m)
  PROVE  Done(u, p) <=> Done(s, p)
<1>1. s # <<>> /\ n \in 1 .. n /\ n + 1 \in Nat \ {0} /\ n # n + 1
  BY DEF Trail
<1>2. /\ Done(s, p) <=> \E i \in 1 .. n : i \in 1 .. m /\ Past(s, p, i)
      /\ Done(u, p) <=> \E i \in 1 .. n + 1 : i \in 1 .. m /\ Past(u, p, i)
  BY <1>1, DoneIsPast
<1>3. \A i \in 1 .. n + 1 : i = n + 1 \/ i \in 1 .. n
  OBVIOUS
<1>4. \A i \in 1 .. n - 1 : i \in 1 .. n /\ i # n /\ i # n + 1 /\ t[i] = s[i]
  BY DEF Stepped
<1>5. \A i \in 1 .. n : i \in 1 .. n + 1 /\ i # n + 1 /\ \A k \in 1 .. i - 1 : k \in 1 .. n - 1
  OBVIOUS
<1>6. \A k \in 1 .. n - 1 : Passed(u, k) = Passed(s, k)
  BY <1>4 DEF Passed
<1>7. \A i \in 1 .. n : u[i].on = s[i].on
  <2>1. \A i \in 1 .. n : i = n \/ i \in 1 .. n - 1
    OBVIOUS
  <2>2. t[n].on = s[n].on
    BY DEF Stepped
  <2> QED BY <2>1, <2>2, <1>4
<1>8. \A i \in 1 .. n : u[i].at - 1 = IF i = n THEN s[i].at ELSE s[i].at - 1
  <2>1. \A i \in 1 .. n : i = n \/ i \in 1 .. n - 1
    OBVIOUS
  <2>2. u[n].at = s[n].at + 1 /\ s[n].at \in Nat
    BY <1>1, TrailFacts DEF Stepped
  <2>3. u[n].at - 1 = s[n].at
    BY <2>2
  <2> QED BY <2>1, <2>3, <1>4
<1>9. ASSUME NEW i \in 1 .. n PROVE Past(u, p, i) <=> Past(s, p, i)
  <2>1. i \in 1 .. n + 1 /\ i # n + 1 /\ \A k \in 1 .. i - 1 : Passed(u, k) = Passed(s, k)
    BY <1>5, <1>6
  <2>2. u[i].on = s[i].on /\ u[i].at - 1 = IF i = n THEN s[i].at ELSE s[i].at - 1
    BY <1>7, <1>8
  <2> QED BY <2>1, <2>2 DEF Past
<1>10. n + 1 \in 1 .. m => ~Past(u, p, n + 1)
  <2> SUFFICES ASSUME n + 1 \in 1 .. m PROVE ~(p[n + 1][2] < 1)
    BY DEF Past
  <2>1. p[n + 1][2] \in Nat \ {0}
    BY WaysFacts
  <2> QED BY <2>1
<1> QED BY <1>2, <1>3, <1>5, <1>9, <1>10

\* A loop that ends leaves to the one before what it was done with, and the
\* listener of that one, whose way it was.
LEMMA ReturnDone ==
  ASSUME Wired, NEW s, NEW n \in Nat \ {0, 1}, Trail(s), Len(s) = n,
         s[n].at > Len(listeners[s[n].on]),
         NEW r, Trail(r), Len(r) = n - 1, \A i \in 1 .. n - 1 : r[i] = s[i],
         NEW o, NEW m \in Nat \ {0}, NEW p \in Ways(o, m)
  PROVE  /\ Done(s, p) => Done(r, p)
         /\ Done(r, p) => Done(s, p) \/ (m = n - 1 /\ PassesOn(p[m]))
<1> DEFINE l == n - 1
<1>1. /\ s # <<>> /\ n \in 1 .. n /\ l \in Nat \ {0} /\ l \in 1 .. l /\ l \in 1 .. n /\ l # n /\ l + 1 = n
      /\ n - 1 = l
  BY DEF Trail
<1> HIDE DEF l
<1>2. /\ Done(s, p) <=> \E i \in 1 .. n : i \in 1 .. m /\ Past(s, p, i)
      /\ Done(r, p) <=> \E i \in 1 .. l : i \in 1 .. m /\ Past(r, p, i)
  BY <1>1, DoneIsPast
<1>3. \A i \in 1 .. n : i = n \/ i = l \/ i \in 1 .. l - 1
  BY <1>1
<1>4. \A i \in 1 .. l : i \in 1 .. n /\ i # n /\ r[i] = s[i] /\ \A k \in 1 .. i - 1 : k \in 1 .. l
  BY <1>1
<1>5. \A i \in 1 .. l - 1 : i \in 1 .. l /\ i # l
  BY <1>1
<1>6. \A k \in 1 .. l : Passed(r, k) = Passed(s, k)
  BY <1>4 DEF Passed
<1>7. ASSUME NEW i \in 1 .. l - 1 PROVE Past(r, p, i) <=> Past(s, p, i)
  <2>1. i # n /\ i # l /\ r[i] = s[i] /\ \A k \in 1 .. i - 1 : Passed(r, k) = Passed(s, k)
    BY <1>4, <1>5, <1>6
  <2> QED BY <1>1, <2>1 DEF Past
<1> DEFINE a == s[l].at
           w == p[l]
           same == \A k \in 1 .. l - 1 : p[k] = Passed(s, k)
<1>8. a \in Nat \ {0}
  BY <1>1, TrailFacts
<1>9. l \in 1 .. m => w = <<w[1], w[2]>> /\ w[2] \in Nat
  BY WaysFacts
<1>10. Past(r, p, l) <=> same /\ w[1] = s[l].on /\ w[2] < a
  BY <1>1, <1>4, <1>5, <1>6 DEF Past
<1>11. Past(s, p, l) <=> same /\ w[1] = s[l].on /\ w[2] < a - 1
  BY <1>1 DEF Past
<1>12. Passed(s, l) = <<s[l].on, a - 1>>
  BY DEF Passed
<1>13. (\A k \in 1 .. n - 1 : p[k] = Passed(s, k)) <=> same /\ w = Passed(s, l)
  <2>1. \A k : k \in 1 .. n - 1 <=> k = l \/ k \in 1 .. l - 1
    BY <1>1
  <2> QED BY <2>1
<1>14. n \in 1 .. m => l \in 1 .. m /\ l \in 1 .. m - 1
  BY <1>1
<1> HIDE DEF w, a
<1>15. l \in 1 .. m => /\ w[2] < a <=> w[2] < a - 1 \/ w[2] = a - 1
                       /\ w[2] = a - 1 => w[2] < a
  BY <1>8, <1>9
<1>16. ASSUME n \in 1 .. m, same, w = Passed(s, l) PROVE Past(s, p, n)
  <2>1. p[n][1] = s[n].on
    <3>1. listeners[w[1]][w[2]].to = p[n][1]
      BY <1>1, <1>14, <1>16, WaysFacts DEF w
    <3>2. listeners[s[l].on][s[l].at - 1].to = s[n].on
      BY <1>1 DEF Trail
    <3> QED BY <3>1, <3>2, <1>12, <1>16 DEF a
  <2>2. p[n][2] < s[n].at
    <3> DEFINE b == p[n][2]
               e == Len(listeners[s[n].on])
               c == s[n].at
    <3>0. b \in Nat /\ b <= Len(listeners[p[n][1]]) /\ s[n].on \in Objects
      BY <1>1, <1>16, WaysFacts, TrailFacts
    <3>1. b \in Nat /\ b <= e /\ e \in Nat
      BY <2>1, <3>0, ListenersCount
    <3>2. c > e /\ c \in Nat
      BY <1>1, TrailFacts
    <3> HIDE DEF b, e, c
    <3>3. b < c
      BY <3>1, <3>2
    <3> QED BY <3>3 DEF b, c
  <2> QED BY <1>13, <1>16, <2>1, <2>2 DEF Past
<1>17. Past(s, p, n) => same /\ w = Passed(s, l)
  BY <1>13 DEF Past
<1>18. l \in 1 .. m => (Past(r, p, l) <=> Past(s, p, l) \/ (same /\ w = Passed(s, l)))
  <2> SUFFICES ASSUME l \in 1 .. m
               PROVE  Past(r, p, l) <=> Past(s, p, l) \/ (same /\ w = Passed(s, l))
    OBVIOUS
  <2>1. w = Passed(s, l) <=> w[1] = s[l].on /\ w[2] = a - 1
    BY <1>9, <1>12
  <2> QED BY <1>10, <1>11, <1>15, <2>1
<1>19. l \in 1 .. n
  BY <1>1
<1> HIDE DEF same
<1>20. ASSUME Done(s, p) PROVE Done(r, p)
  <2>1. PICK i \in 1 .. n : i \in 1 .. m /\ Past(s, p, i)
    BY <1>2, <1>20
  <2>2. CASE i \in 1 .. l - 1
    BY <1>2, <1>5, <1>7, <2>1, <2>2
  <2>3. CASE i = l
    BY <1>1, <1>2, <1>18, <2>1, <2>3
  <2>4. CASE i = n
    BY <1>1, <1>2, <1>14, <1>17, <1>18, <2>1, <2>4
  <2> QED BY <1>3, <2>2, <2>3, <2>4
<1>21. ASSUME Done(r, p) PROVE Done(s, p) \/ (m = n - 1 /\ PassesOn(p[m]))
  <2>1. PICK i \in 1 .. l : i \in 1 .. m /\ Past(r, p, i)
    BY <1>2, <1>21
  <2>2. CASE i \in 1 .. l - 1
    BY <1>2, <1>4, <1>7, <2>1, <2>2
  <2>3. CASE i = l /\ Past(s, p, l)
    BY <1>2, <1>19, <2>1, <2>3
  <2>4. CASE i = l /\ same /\ w = Passed(s, l)
    <3>1. n \in 1 .. m \/ m = l
      BY <1>1, <2>1, <2>4
    <3>2. CASE n \in 1 .. m
      BY <1>1, <1>2, <1>16, <2>4, <3>2
    <3>3. CASE m = l
      <4>1. PassesOn(Passed(s, l))
        BY <1>1 DEF Trail
      <4> QED BY <1>1, <2>4, <3>3, <4>1 DEF w
    <3> QED BY <3>1, <3>2, <3>3
  <2> QED BY <1>4, <1>3, <1>18, <2>1, <2>2, <2>3, <2>4
<1> QED BY <1>20, <1>21

\* The outermost loop ends only when it is done with all.
LEMMA LastDone ==
  ASSUME Wired, NEW s, Trail(s), Len(s) = 1, s[1].at > Len(listeners[s[1].on]),
         NEW m \in Nat \ {0}, NEW p \in Ways(s[1].on, m)
  PROVE  Done(s, p)
<1>1. p[1][1] = s[1].on /\ 1 \in 1 .. m
  BY WaysFacts
<1>2. p[1][2] < s[1].at
  <2> DEFINE b == p[1][2]
             e == Len(listeners[s[1].on])
             c == s[1].at
  <2>0. s # <<>> /\ 1 \in 1 .. 1 /\ 1 \in Nat \ {0}
    <3>1. s \in Seq(Emits)
      BY DEF Trail
    <3>2. Len(<<>>) # 1
      OBVIOUS
    <3>3. s # <<>>
      BY <3>2, Zenon
    <3> QED BY <3>3
  <2>1. b \in Nat /\ b <= e /\ e \in Nat
    <3>1. b \in Nat /\ b <= Len(listeners[p[1][1]]) /\ s[1].on \in Objects
      BY <1>1, <2>0, WaysFacts, TrailFacts
    <3> QED BY <1>1, <3>1, ListenersCount
  <2>2. c > e /\ c \in Nat
    BY <2>0, TrailFacts
  <2> HIDE DEF b, e, c
  <2>3. b < c
    BY <2>1, <2>2
  <2> QED BY <2>3 DEF b, c
<1>3. 1 \in 1 .. 1 /\ 1 \in Nat \ {0} /\ 1 .. 1 - 1 = {}
  OBVIOUS
<1>4. Past(s, p, 1)
  BY <1>1, <1>2, <1>3 DEF Past
<1>5. Done(s, p) <=> \E i \in 1 .. 1 : i \in 1 .. m /\ Past(s, p, i)
  BY <1>3, DoneIsPast
<1> QED BY <1>1, <1>3, <1>4, <1>5

-----------------------------------------------------------------------------
(* The trail of the emits, when the innermost loop goes on, emits or returns. *)

LEMMA SteppedIsTrail ==
  ASSUME Wired, NEW s, NEW n \in Nat \ {0}, Trail(s), Len(s) = n,
         s[n].at <= Len(listeners[s[n].on]), NEW t, Stepped(s, t)
  PROVE  Trail(t) /\ t # <<>> /\ Len(t) = n /\ \A i \in 1 .. n : t[i].on = s[i].on
<1>1. s # <<>> /\ n \in 1 .. n /\ DOMAIN s = 1 .. n
  BY TrailFacts DEF Trail
<1>2. t \in Seq(Emits) /\ Len(t) = n /\ DOMAIN t = 1 .. n /\ t # <<>>
  BY DEF Stepped
<1>3. \A i \in 1 .. n : i = n \/ i \in 1 .. n - 1
  OBVIOUS
<1>4. \A i \in 1 .. n - 1 : t[i] = s[i] /\ i \in 1 .. n /\ i + 1 \in 1 .. n
  BY DEF Stepped
<1>5. \A i \in 1 .. n : t[i].on = s[i].on /\ t[i].path = s[i].path /\ (t[i].error = NoError <=> s[i].error = NoError)
  BY <1>3, <1>4 DEF Stepped
<1>6. \A i \in 1 .. n : t[i].at <= Len(listeners[t[i].on]) + 1
  <2>1. t[n].at <= Len(listeners[t[n].on]) + 1
    <3> DEFINE a == s[n].at
               l == Len(listeners[s[n].on])
    <3>1. t[n].at = a + 1 /\ t[n].on = s[n].on /\ a <= l
      BY DEF Stepped
    <3>2. a \in Nat /\ l \in Nat
      BY <1>1, TrailFacts, ListenersCount
    <3> HIDE DEF a, l
    <3>3. a + 1 <= l + 1
      BY <3>1, <3>2
    <3> QED BY <3>1, <3>3 DEF l
  <2>2. \A i \in 1 .. n - 1 : t[i].at <= Len(listeners[t[i].on]) + 1
    BY <1>1, <1>4 DEF Trail
  <2> QED BY <1>3, <2>1, <2>2
<1>7. \A k \in 1 .. n - 1 : Passed(t, k) = Passed(s, k)
  BY <1>4 DEF Passed
<1>8. \A i \in 1 .. n : t[i].path = [k \in 1 .. i - 1 |-> Passed(t, k)]
  <2> TAKE i \in 1 .. n
  <2>1. s[i].path = [k \in 1 .. i - 1 |-> Passed(s, k)]
    BY <1>1 DEF Trail
  <2>2. \A k \in 1 .. i - 1 : k \in 1 .. n - 1
    OBVIOUS
  <2>3. \A k \in 1 .. i - 1 : Passed(t, k) = Passed(s, k)
    BY <1>7, <2>2
  <2>4. [k \in 1 .. i - 1 |-> Passed(t, k)] = [k \in 1 .. i - 1 |-> Passed(s, k)]
    BY <2>3
  <2> QED BY <1>5, <2>1, <2>4
<1>9. \A i \in 1 .. n : t[i].error = NoError <=> Along(t[i].path, "delegate_to") # {}
  <2>1. \A i \in 1 .. n : s[i].error = NoError <=> Along(s[i].path, "delegate_to") # {}
    BY <1>1 DEF Trail
  <2> QED BY <1>5, <2>1
<1>10. \A i \in 1 .. n - 1 : /\ t[i].at > 1 /\ PassesOn(Passed(t, i))
                             /\ listeners[t[i].on][t[i].at - 1].to = t[i + 1].on
  BY <1>4, <1>5, <1>7 DEF Trail
<1> QED BY <1>2, <1>5, <1>6, <1>8, <1>9, <1>10 DEF Trail

\* A listener emits: f is the new emit, t the others, and u all.
Emitting(s, n, t, o, error, f, u) ==
  /\ n \in Nat \ {0} /\ Trail(s) /\ Len(s) = n /\ s[n].at <= Len(listeners[s[n].on])
  /\ Stepped(s, t) /\ PassesOn(<<s[n].on, s[n].at>>)
  /\ o \in Objects /\ listeners[s[n].on][s[n].at].to = o /\ error \in Seq(Layers)
  /\ error = NoError <=> s[n].error = NoError \/ listeners[s[n].on][s[n].at].kind = "delegate_to"
  /\ f = NewEmit(o, error, Append(s[n].path, <<s[n].on, s[n].at>>))
  /\ u = Append(t, f)

Pushed(s, n, t, u) ==
  /\ n \in Nat \ {0} /\ Len(s) = n /\ Stepped(s, t)
  /\ Trail(u) /\ u # <<>> /\ Len(u) = n + 1 /\ u[1].on = s[1].on /\ u[n + 1].at = 1
  /\ \A i \in 1 .. n : u[i] = t[i]

LEMMA PushedIsTrail ==
  ASSUME Wired, NEW s, NEW n, NEW t, NEW o, NEW error, NEW f, NEW u,
         Emitting(s, n, t, o, error, f, u)
  PROVE  Pushed(s, n, t, u) /\ u[n + 1] = f
<1>0. /\ n \in Nat \ {0} /\ Trail(s) /\ Len(s) = n /\ s[n].at <= Len(listeners[s[n].on])
      /\ Stepped(s, t) /\ PassesOn(<<s[n].on, s[n].at>>)
      /\ o \in Objects /\ listeners[s[n].on][s[n].at].to = o /\ error \in Seq(Layers)
      /\ error = NoError <=> s[n].error = NoError \/ listeners[s[n].on][s[n].at].kind = "delegate_to"
      /\ f = NewEmit(o, error, Append(s[n].path, <<s[n].on, s[n].at>>))
      /\ u = Append(t, f)
  BY DEF Emitting
<1> USE <1>0
<1>1. s # <<>> /\ n \in 1 .. n /\ 1 \in 1 .. n
  BY DEF Trail
<1>2. /\ Trail(t) /\ t \in Seq(Emits) /\ Len(t) = n /\ DOMAIN t = 1 .. n /\ t # <<>>
      /\ \A i \in 1 .. n : t[i].on = s[i].on
  BY SteppedIsTrail, TrailFacts
<1> DEFINE path == Append(s[n].path, <<s[n].on, s[n].at>>)
<1>3. /\ path \in Seq(Objects \X Nat) /\ DOMAIN path = 1 .. n
      /\ \A k \in 1 .. n - 1 : path[k] = Passed(s, k)
      /\ path[n] = <<s[n].on, s[n].at>>
      /\ error = NoError <=> Along(path, "delegate_to") # {}
  <2>1. s[n] \in Emits
    BY <1>1, TrailFacts
  <2>2. path \in Seq(Objects \X Nat)
    BY <2>1, NextWire
  <2>3. /\ DOMAIN path = 1 .. n /\ path[n] = <<s[n].on, s[n].at>>
        /\ \A k \in 1 .. n - 1 : path[k] = Passed(s, k)
        /\ Along(path, "delegate_to") = {} <=>
             s[n].error # NoError /\ listeners[s[n].on][s[n].at].kind # "delegate_to"
    BY HereIsWay, ZenonT(60)
  <2> HIDE DEF path
  <2> QED BY <2>2, <2>3
<1> HIDE DEF path
<1>4. f \in Emits /\ f.on = o /\ f.at = 1 /\ f.error = error /\ f.path = path
  BY <1>3, NewEmitIsEmit DEF NewEmit, path
<1>5. /\ u \in Seq(Emits) /\ Len(u) = n + 1 /\ DOMAIN u = 1 .. n + 1 /\ u # <<>>
      /\ u[n + 1] = f /\ \A i \in 1 .. n : u[i] = t[i]
  BY <1>2, <1>4
<1>6. \A i \in 1 .. n + 1 : i = n + 1 \/ i \in 1 .. n
  OBVIOUS
<1>7. \A i \in 1 .. n : i = n \/ i \in 1 .. n - 1
  OBVIOUS
<1>8. \A k \in 1 .. n : Passed(u, k) = Passed(t, k)
  BY <1>5 DEF Passed
<1>9. \A k \in 1 .. n : path[k] = Passed(u, k)
  <2>1. Passed(t, n) = <<s[n].on, s[n].at>>
    <3>1. t[n].on = s[n].on /\ t[n].at = s[n].at + 1 /\ s[n].at \in Nat
      BY <1>1, TrailFacts DEF Stepped
    <3>2. t[n].at - 1 = s[n].at
      BY <3>1
    <3> QED BY <3>1, <3>2 DEF Passed
  <2>2. \A k \in 1 .. n - 1 : Passed(t, k) = Passed(s, k)
    BY DEF Passed, Stepped
  <2> TAKE k \in 1 .. n
  <2>3. CASE k = n
    BY <1>3, <1>8, <2>1, <2>3
  <2>4. CASE k \in 1 .. n - 1
    BY <1>3, <1>8, <2>2, <2>4
  <2> QED BY <1>7, <2>3, <2>4
<1>10. \A i \in 1 .. n + 1 : u[i].at <= Len(listeners[u[i].on]) + 1
  <2>1. \A i \in 1 .. n : t[i].at <= Len(listeners[t[i].on]) + 1
    BY <1>2 DEF Trail
  <2>2. f.at <= Len(listeners[f.on]) + 1
    <3>1. Len(listeners[o]) \in Nat
      BY ListenersCount
    <3> QED BY <1>4, <3>1
  <2> QED BY <1>1, <1>5, <1>6, <2>1, <2>2
<1>11. \A i \in 1 .. n + 1 : u[i].path = [k \in 1 .. i - 1 |-> Passed(u, k)]
  <2> TAKE i \in 1 .. n + 1
  <2>1. CASE i = n + 1
    <3>1. path = [k \in 1 .. n |-> path[k]] /\ i - 1 = n
      <4>1. path = [k \in DOMAIN path |-> path[k]]
        BY <1>3
      <4> QED BY <1>3, <2>1, <4>1
    <3>2. path = [k \in 1 .. i - 1 |-> Passed(u, k)]
      BY <1>9, <3>1
    <3> QED BY <1>1, <1>4, <1>5, <2>1, <3>2
  <2>2. CASE i \in 1 .. n
    <3>1. t[i].path = [k \in 1 .. i - 1 |-> Passed(t, k)]
      BY <1>2, <2>2 DEF Trail
    <3>2. \A k \in 1 .. i - 1 : k \in 1 .. n
      BY <2>2
    <3>3. [k \in 1 .. i - 1 |-> Passed(t, k)] = [k \in 1 .. i - 1 |-> Passed(u, k)]
      BY <1>8, <3>2
    <3> QED BY <1>5, <2>2, <3>1, <3>3
  <2> QED BY <1>6, <2>1, <2>2
<1>12. \A i \in 1 .. n + 1 : u[i].error = NoError <=> Along(u[i].path, "delegate_to") # {}
  <2>1. \A i \in 1 .. n : t[i].error = NoError <=> Along(t[i].path, "delegate_to") # {}
    BY <1>2 DEF Trail
  <2>2. f.error = NoError <=> Along(f.path, "delegate_to") # {}
    BY <1>3, <1>4
  <2> TAKE i \in 1 .. n + 1
  <2>3. CASE i \in 1 .. n
    BY <1>5, <2>1, <2>3
  <2>4. CASE i = n + 1
    BY <1>5, <2>2, <2>4
  <2> QED BY <1>6, <2>3, <2>4
<1>13. \A i \in 1 .. n : /\ u[i].at > 1 /\ PassesOn(Passed(u, i))
                         /\ listeners[u[i].on][u[i].at - 1].to = u[i + 1].on
  <2> TAKE i \in 1 .. n
  <2>1. CASE i \in 1 .. n - 1
    <3>1. /\ t[i].at > 1 /\ PassesOn(Passed(t, i))
          /\ listeners[t[i].on][t[i].at - 1].to = t[i + 1].on
      BY <1>2, <2>1 DEF Trail
    <3>2. i + 1 \in 1 .. n
      BY <2>1
    <3> QED BY <1>5, <1>8, <3>1, <3>2
  <2>2. CASE i = n
    <3>1. /\ u[n].on = s[n].on /\ u[n].at = s[n].at + 1 /\ s[n].at \in Nat \ {0} /\ u[n + 1].on = o
      BY <1>1, <1>4, <1>5, TrailFacts DEF Stepped
    <3>2. u[n].at - 1 = s[n].at /\ u[n].at > 1
      <4> DEFINE a == s[n].at
                 b == u[n].at
      <4>1. a \in Nat \ {0} /\ b = a + 1
        BY <3>1
      <4> HIDE DEF a, b
      <4>2. b - 1 = a /\ b > 1
        BY <4>1
      <4> QED BY <4>2 DEF a, b
    <3> QED BY <2>2, <3>1, <3>2 DEF Passed
  <2> QED BY <1>7, <2>1, <2>2
<1>14. 1 .. Len(u) - 1 = 1 .. n
  <2>1. (n + 1) - 1 = n
    OBVIOUS
  <2> QED BY <1>5, <2>1
<1>15. Trail(u)
  <2>1. \A i \in DOMAIN u : /\ u[i].at <= Len(listeners[u[i].on]) + 1
                            /\ u[i].path = [k \in 1 .. i - 1 |-> Passed(u, k)]
                            /\ u[i].error = NoError <=> Along(u[i].path, "delegate_to") # {}
    <3> TAKE i \in DOMAIN u
    <3>1. i \in 1 .. n + 1
      BY <1>5
    <3>2. u[i].at <= Len(listeners[u[i].on]) + 1
      BY <1>10, <3>1, Zenon
    <3>3. u[i].path = [k \in 1 .. i - 1 |-> Passed(u, k)]
      BY <1>11, <3>1, Zenon
    <3>4. u[i].error = NoError <=> Along(u[i].path, "delegate_to") # {}
      BY <1>12, <3>1, Zenon
    <3> QED BY <3>2, <3>3, <3>4, Zenon
  <2>2. \A i \in 1 .. Len(u) - 1 : /\ u[i].at > 1 /\ PassesOn(Passed(u, i))
                                   /\ listeners[u[i].on][u[i].at - 1].to = u[i + 1].on
    BY <1>13, <1>14
  <2> QED BY <1>5, <2>1, <2>2 DEF Trail
<1>16. u[1].on = s[1].on
  BY <1>1, <1>2, <1>5
<1> QED BY <1>4, <1>5, <1>15, <1>16 DEF Pushed

\* The innermost emit returns into the one before: r are those that still run.
Popped(s, n, r) ==
  /\ n \in Nat \ {0, 1} /\ Len(s) = n /\ s[n].at > Len(listeners[s[n].on])
  /\ Trail(r) /\ r # <<>> /\ Len(r) = n - 1 /\ r[1].on = s[1].on
  /\ \A i \in 1 .. n - 1 : r[i] = s[i]

LEMMA ReturnIsTrail ==
  ASSUME NEW s, Trail(s), Len(s) \notin {0, 1}, s[Len(s)].at > Len(listeners[s[Len(s)].on])
  PROVE  Popped(s, Len(s), SubSeq(s, 1, Len(s) - 1))
<1> DEFINE n == Len(s)
           r == SubSeq(s, 1, n - 1)
<1>0. n \in Nat \ {0, 1} /\ Len(s) = n /\ s[n].at > Len(listeners[s[n].on])
  BY DEF Trail
<1> HIDE DEF n
<1> USE <1>0
<1>1. s \in Seq(Emits) /\ DOMAIN s = 1 .. n
  BY DEF Trail
<1> DEFINE l == n - 1
<1>2. l \in Nat \ {0} /\ l < n /\ 1 \in 1 .. l
  OBVIOUS
<1>3. /\ r \in Seq(Emits) /\ Len(r) = l /\ DOMAIN r = 1 .. l /\ r # <<>>
      /\ \A i \in 1 .. l : r[i] = s[i]
  BY <1>1, <1>2
<1>4. n - 1 = l
  OBVIOUS
<1> HIDE DEF l
<1>5. \A i \in 1 .. l : i \in 1 .. n /\ \A k \in 1 .. i - 1 : k \in 1 .. l
  BY <1>2
<1>6. \A i \in 1 .. l - 1 : i \in 1 .. l /\ i \in 1 .. n - 1 /\ i + 1 \in 1 .. l
  BY <1>2, <1>4
<1>7. \A k \in 1 .. l : Passed(r, k) = Passed(s, k)
  BY <1>3 DEF Passed
<1>8. ASSUME NEW i \in 1 .. l
      PROVE  /\ r[i].at <= Len(listeners[r[i].on]) + 1
             /\ r[i].path = [k \in 1 .. i - 1 |-> Passed(r, k)]
             /\ r[i].error = NoError <=> Along(r[i].path, "delegate_to") # {}
  <2>1. [k \in 1 .. i - 1 |-> Passed(r, k)] = [k \in 1 .. i - 1 |-> Passed(s, k)]
    BY <1>5, <1>7
  <2>2. i \in 1 .. n /\ r[i] = s[i]
    BY <1>3, <1>5
  <2>3. /\ s[i].at <= Len(listeners[s[i].on]) + 1
        /\ s[i].path = [k \in 1 .. i - 1 |-> Passed(s, k)]
        /\ s[i].error = NoError <=> Along(s[i].path, "delegate_to") # {}
    BY <1>1, <2>2 DEF Trail
  <2> QED BY <2>1, <2>2, <2>3
<1>9. \A i \in 1 .. l - 1 : /\ r[i].at > 1 /\ PassesOn(Passed(r, i))
                            /\ listeners[r[i].on][r[i].at - 1].to = r[i + 1].on
  BY <1>3, <1>6, <1>7 DEF Trail
<1>10. Trail(r)
  BY <1>3, <1>8, <1>9 DEF Trail
<1>11. Popped(s, n, r)
  BY <1>2, <1>3, <1>4, <1>10 DEF Popped
<1> QED BY <1>11 DEF n

LEMMA FirstIsTrail ==
  ASSUME Wired, NEW o \in Objects, NEW error \in Seq(Layers), error # NoError,
         NEW f, f = NewEmit(o, error, <<>>), NEW s, s = Append(<<>>, f)
  PROVE  Trail(s) /\ s # <<>> /\ Len(s) = 1 /\ s[1] = f /\ DOMAIN s = {1}
<1>1. f \in Emits /\ f.on = o /\ f.at = 1 /\ f.error = error /\ f.path = <<>>
  <2>1. <<>> \in Seq(Objects \X Nat)
    OBVIOUS
  <2> QED BY <2>1, NewEmitIsEmit DEF NewEmit
<1>2. s \in Seq(Emits) /\ Len(s) = 1 /\ DOMAIN s = {1} /\ s[1] = f /\ s # <<>>
  BY <1>1
<1>3. 1 .. 1 - 1 = {} /\ <<>> = [k \in 1 .. 1 - 1 |-> Passed(s, k)]
  OBVIOUS
<1>4. f.at <= Len(listeners[f.on]) + 1
  <2>1. Len(listeners[o]) \in Nat
    BY ListenersCount
  <2> QED BY <1>1, <2>1
<1>5. Along(f.path, "delegate_to") = {}
  BY <1>1 DEF Along
<1>6. \A i \in DOMAIN s : /\ s[i].at <= Len(listeners[s[i].on]) + 1
                          /\ s[i].path = [k \in 1 .. i - 1 |-> Passed(s, k)]
                          /\ s[i].error = NoError <=> Along(s[i].path, "delegate_to") # {}
  BY <1>1, <1>2, <1>3, <1>4, <1>5
<1>7. \A i \in 1 .. Len(s) - 1 : FALSE
  BY <1>2, <1>3
<1> QED BY <1>2, <1>6, <1>7 DEF Trail

-----------------------------------------------------------------------------
(* The counters of the emitters, of which each emit took a value of its own, *)
(* bound how many run at a time.                                             *)

\* Numbered, for the counters g.
Counted(s, d, g) ==
  /\ \A i \in DOMAIN s : d[i] <= g[s[i].on]
  /\ \A i, j \in DOMAIN s : i < j /\ s[i].on = s[j].on => d[i] < d[j]

LEMMA CountedIsShort ==
  ASSUME NEW s, NEW n \in Nat, DOMAIN s = 1 .. n, \A i \in 1 .. n : s[i].on \in Objects,
         NEW d \in [1 .. n -> 1 .. DepthLimit], NEW g, Counted(s, d, g)
  PROVE  n <= Deepest
<1> DEFINE f == [i \in 1 .. n |-> <<s[i].on, d[i]>>]
           T == Objects \X (1 .. DepthLimit)
<1>1. f \in [1 .. n -> T]
  BY DelegationAssumption
<1>2. \A i, j \in 1 .. n : f[i] = f[j] => i = j
  <2> SUFFICES ASSUME NEW i \in 1 .. n, NEW j \in 1 .. n, f[i] = f[j] PROVE i = j
    OBVIOUS
  <2>1. s[i].on = s[j].on /\ d[i] = d[j] /\ d[i] \in 1 .. DepthLimit
    OBVIOUS
  <2>2. i < j \/ j < i \/ i = j
    OBVIOUS
  <2>3. ~(d[i] < d[i])
    BY <2>1
  <2> QED BY <2>1, <2>2, <2>3 DEF Counted
<1>3. IsFiniteSet(T) /\ Cardinality(T) = Deepest
  <2>1. DepthLimit \in Nat \ {0} /\ IsFiniteSet(Objects)
    BY DelegationAssumption
  <2>2. IsFiniteSet(1 .. DepthLimit) /\ Cardinality(1 .. DepthLimit) = DepthLimit
    <3>1. Cardinality(1 .. DepthLimit) = IF 1 > DepthLimit THEN 0 ELSE DepthLimit - 1 + 1
      BY <2>1, FS_Interval
    <3>2. (IF 1 > DepthLimit THEN 0 ELSE DepthLimit - 1 + 1) = DepthLimit
      BY <2>1
    <3> QED BY <2>1, <3>1, <3>2, FS_Interval
  <2> QED BY <2>1, <2>2, FS_Product DEF Deepest
<1> HIDE DEF f, T
<1>4. Cardinality(1 .. n) <= Cardinality(T)
  <2>1. f \in Injection(1 .. n, T)
    BY <1>1, <1>2 DEF Injection, IsInjective, f
  <2> QED BY <1>3, <2>1, FS_Injection
<1>5. Cardinality(1 .. n) = n
  <2>1. Cardinality(1 .. n) = IF 1 > n THEN 0 ELSE n - 1 + 1
    BY FS_Interval
  <2>2. (IF 1 > n THEN 0 ELSE n - 1 + 1) = n
    OBVIOUS
  <2> QED BY <2>1, <2>2
<1> QED BY <1>3, <1>4, <1>5

LEMMA DeepestIsNat ==
  ASSUME NEW o \in Objects
  PROVE  /\ Deepest \in Nat \ {0} /\ Cardinality(Objects) \in Nat
         /\ Cardinality(Objects) <= Deepest
<1>1. Cardinality(Objects) \in Nat /\ Cardinality(Objects) # 0 /\ DepthLimit \in Nat \ {0}
  BY DelegationAssumption, FS_CardinalityType, FS_EmptySet
<1> DEFINE c == Cardinality(Objects)
<1> HIDE DEF c
<1>2. \A a \in Nat \ {0}, b \in Nat \ {0} : a * b \in Nat \ {0} /\ a <= a * b
  <2> TAKE a \in Nat \ {0}, b \in Nat \ {0}
  <2>1. b - 1 \in Nat
    OBVIOUS
  <2>2. a * (b - 1) \in Nat
    BY <2>1
  <2>3. a * b = a * (b - 1) + a
    OBVIOUS
  <2> QED BY <2>2, <2>3
<1> QED BY <1>1, <1>2 DEF Deepest

\* An emit takes the next value of its emitter's counter.
CountsUp(s, n, d, o, u) ==
  /\ n \in Nat /\ DOMAIN s = 1 .. n /\ \A i \in 1 .. n : s[i].on \in Objects
  /\ d \in [1 .. n -> 1 .. DepthLimit] /\ Counted(s, d, depth)
  /\ o \in Objects /\ ~(depth[o] >= DepthLimit)
  /\ DOMAIN u = 1 .. n + 1 /\ u[n + 1].on = o /\ \A i \in 1 .. n : u[i].on = s[i].on

LEMMA CountedPush ==
  ASSUME depth \in [Objects -> Nat], NEW s, NEW n, NEW d, NEW o, NEW u, CountsUp(s, n, d, o, u)
  PROVE  LET g == [depth EXCEPT ![o] = @ + 1] IN
         /\ g \in [Objects -> Nat]
         /\ \E c \in [1 .. n + 1 -> 1 .. DepthLimit] : Counted(u, c, g)
<1>0. /\ n \in Nat /\ DOMAIN s = 1 .. n /\ \A i \in 1 .. n : s[i].on \in Objects
      /\ d \in [1 .. n -> 1 .. DepthLimit] /\ Counted(s, d, depth)
      /\ o \in Objects /\ ~(depth[o] >= DepthLimit)
      /\ DOMAIN u = 1 .. n + 1 /\ u[n + 1].on = o /\ \A i \in 1 .. n : u[i].on = s[i].on
  BY DEF CountsUp
<1> USE <1>0
<1> DEFINE g == [depth EXCEPT ![o] = @ + 1]
<1> DEFINE k == depth[o] + 1
           c == [i \in 1 .. n + 1 |-> IF i = n + 1 THEN k ELSE d[i]]
<1>1. depth[o] \in Nat /\ DepthLimit \in Nat /\ k \in 1 .. DepthLimit
  BY DelegationAssumption
<1>2. /\ g \in [Objects -> Nat] /\ g[o] = k
      /\ \A q \in Objects : depth[q] <= g[q]
  BY <1>1
<1> HIDE DEF g
<1>3. \A i \in 1 .. n + 1 : i = n + 1 \/ i \in 1 .. n
  OBVIOUS
<1>4. \A i \in 1 .. n : i \in 1 .. n + 1 /\ i # n + 1 /\ d[i] \in 1 .. DepthLimit
  OBVIOUS
<1>5. c \in [1 .. n + 1 -> 1 .. DepthLimit]
  BY <1>1, <1>3
<1>6. c[n + 1] = k /\ \A i \in 1 .. n : c[i] = d[i]
  BY <1>4
<1> HIDE DEF c
<1>7. ASSUME NEW i \in 1 .. n + 1 PROVE c[i] <= g[u[i].on]
  <2>1. CASE i = n + 1
    BY <1>1, <1>2, <1>6, <2>1
  <2>2. CASE i \in 1 .. n
    <3>1. d[i] <= depth[s[i].on] /\ depth[s[i].on] <= g[s[i].on]
      BY <1>2, <2>2 DEF Counted
    <3>2. d[i] \in Nat /\ depth[s[i].on] \in Nat /\ g[s[i].on] \in Nat
      BY <1>2, <1>4, <2>2
    <3>3. d[i] <= g[s[i].on]
      <4> DEFINE a == d[i]
                 b == depth[s[i].on]
                 e == g[s[i].on]
      <4>1. a <= b /\ b <= e /\ a \in Nat /\ b \in Nat /\ e \in Nat
        BY <3>1, <3>2
      <4> HIDE DEF a, b, e
      <4>2. a <= e
        BY <4>1
      <4> QED BY <4>2 DEF a, e
    <3> QED BY <1>6, <2>2, <3>3
  <2> QED BY <1>3, <2>1, <2>2
<1>8. ASSUME NEW i \in 1 .. n + 1, NEW j \in 1 .. n + 1, i < j, u[i].on = u[j].on
      PROVE  c[i] < c[j]
  <2>1. i \in 1 .. n
    BY <1>8
  <2>2. CASE j \in 1 .. n
    <3>1. s[i].on = s[j].on /\ c[i] = d[i] /\ c[j] = d[j]
      BY <1>6, <1>8, <2>1, <2>2
    <3> QED BY <1>8, <2>1, <2>2, <3>1 DEF Counted
  <2>3. CASE j = n + 1
    <3>1. s[i].on = o /\ d[i] <= depth[s[i].on]
      BY <1>8, <2>1, <2>3 DEF Counted
    <3>2. d[i] \in Nat /\ d[i] <= depth[o]
      BY <1>4, <2>1, <3>1
    <3>3. d[i] < k
      BY <1>1, <3>2
    <3> QED BY <1>6, <2>1, <2>3, <3>3
  <2> QED BY <1>3, <2>2, <2>3
<1>9. Counted(u, c, g)
  BY <1>7, <1>8 DEF Counted
<1> QED BY <1>2, <1>5, <1>9 DEF g

\* One that returns gives it back; those below have lower ones.
CountsDown(s, n, d, r) ==
  /\ n \in Nat \ {0} /\ DOMAIN s = 1 .. n /\ \A i \in 1 .. n : s[i].on \in Objects
  /\ d \in [1 .. n -> 1 .. DepthLimit] /\ Counted(s, d, depth)
  /\ DOMAIN r = 1 .. n - 1 /\ \A i \in 1 .. n - 1 : r[i] = s[i]

LEMMA CountedReturn ==
  ASSUME depth \in [Objects -> Nat], NEW s, NEW n, NEW d, NEW r, CountsDown(s, n, d, r)
  PROVE  LET g == [depth EXCEPT ![s[n].on] = @ - 1] IN
         /\ g \in [Objects -> Nat]
         /\ \E c \in [1 .. n - 1 -> 1 .. DepthLimit] : Counted(r, c, g)
<1>0. /\ n \in Nat \ {0} /\ DOMAIN s = 1 .. n /\ \A i \in 1 .. n : s[i].on \in Objects
      /\ d \in [1 .. n -> 1 .. DepthLimit] /\ Counted(s, d, depth)
      /\ DOMAIN r = 1 .. n - 1 /\ \A i \in 1 .. n - 1 : r[i] = s[i]
  BY DEF CountsDown
<1> USE <1>0
<1> DEFINE g == [depth EXCEPT ![s[n].on] = @ - 1]
<1> DEFINE o == s[n].on
           c == [i \in 1 .. n - 1 |-> d[i]]
           k == depth[o]
<1>1. n \in 1 .. n /\ \A i \in 1 .. n - 1 : i \in 1 .. n /\ i < n
  OBVIOUS
<1>2. \A i \in 1 .. n : d[i] \in Nat \ {0}
  BY DelegationAssumption
<1>3. k \in Nat \ {0} /\ o \in Objects /\ d[n] <= k
  <2>1. d[n] <= k /\ d[n] \in Nat \ {0} /\ k \in Nat
    BY <1>1, <1>2 DEF Counted
  <2> QED BY <1>1, <2>1
<1>4. /\ k - 1 \in Nat
      /\ g = [depth EXCEPT ![o] = k - 1]
  BY <1>3
<1>5. /\ g \in [Objects -> Nat] /\ g[o] = k - 1
      /\ \A q \in Objects : q # o => g[q] = depth[q]
  BY <1>3, <1>4
<1>6. c \in [1 .. n - 1 -> 1 .. DepthLimit] /\ \A i \in 1 .. n - 1 : c[i] = d[i]
  BY <1>1
<1> HIDE DEF c, o, k, g
<1>7. ASSUME NEW i \in 1 .. n - 1 PROVE c[i] <= g[r[i].on]
  <2>1. /\ i \in 1 .. n /\ i < n /\ r[i] = s[i] /\ c[i] = d[i] /\ s[i].on \in Objects
        /\ d[i] <= depth[s[i].on]
    BY <1>1, <1>6 DEF Counted
  <2>2. CASE s[i].on = o
    <3>1. d[i] < d[n]
      BY <1>1, <2>1, <2>2 DEF Counted, o
    <3>2. d[i] \in Nat /\ d[n] \in Nat
      BY <1>1, <1>2, <2>1
    <3>3. d[i] <= k - 1
      BY <1>3, <3>1, <3>2
    <3> QED BY <1>5, <2>1, <2>2, <3>3
  <2>3. CASE s[i].on # o
    BY <1>5, <2>1, <2>3
  <2> QED BY <2>2, <2>3
<1>8. ASSUME NEW i \in 1 .. n - 1, NEW j \in 1 .. n - 1, i < j, r[i].on = r[j].on
      PROVE  c[i] < c[j]
  BY <1>1, <1>6, <1>8 DEF Counted
<1>9. Counted(r, c, g)
  BY <1>7, <1>8 DEF Counted
<1> QED BY <1>5, <1>6, <1>9 DEF g

-----------------------------------------------------------------------------
(* What has been heard, step by step.                                       *)

LEMMA OnItsWayFacts ==
  ASSUME NEW s, NEW o, NEW e, NEW news, NEW whole, OnItsWay(s, o, e, news, whole)
  PROVE  /\ Trail(s) /\ s # <<>> /\ s[1].on = o /\ o \in Objects
         /\ Len(s) \in Nat \ {0} /\ \A i \in 1 .. Len(s) : Carries(s[i], e)
         /\ \A h \in news : \E m \in 1 .. Deepest : \E p \in Ways(o, m) :
              Ending(p) /\ Done(s, p) /\ h = News(p, e)
         /\ whole =>
              /\ \A m \in 1 .. Cardinality(Objects) : \A p \in Ways(o, m) :
                   Ending(p) /\ Done(s, p) => News(p, e) \in news
              /\ \A p \in Ways(o, Deepest) : PassesOn(p[Deepest]) => ~Done(s, p)
<1>1. Trail(s) /\ s # <<>> /\ s[1].on = o
  BY DEF OnItsWay
<1>2. DOMAIN s = 1 .. Len(s) /\ Len(s) \in Nat \ {0} /\ o \in Objects
  BY <1>1, TrailFacts
<1> QED BY <1>1, <1>2 DEF OnItsWay

\* An emit from a handler.
LEMMA FirstOnItsWay ==
  ASSUME Wired, NEW o \in Objects, NEW error \in Seq(Layers), error # NoError,
         NEW f, f = NewEmit(o, error, <<>>), NEW s, s = Append(<<>>, f),
         NEW e, Carries(f, e), NEW whole
  PROVE  OnItsWay(s, o, e, {}, whole)
<1>1. Trail(s) /\ s # <<>> /\ Len(s) = 1 /\ s[1] = f /\ DOMAIN s = {1}
  BY FirstIsTrail
<1>2. s[1].on = o /\ s[1].at = 1
  BY <1>1 DEF NewEmit
<1>3. ASSUME NEW m \in Nat \ {0}, NEW p \in Ways(o, m) PROVE ~Done(s, p)
  <2>1. 1 \in Nat \ {0} /\ 1 \in 1 .. m /\ \A i \in 1 .. 1 : i = 1
    OBVIOUS
  <2>2. Done(s, p) <=> \E i \in 1 .. 1 : i \in 1 .. m /\ Past(s, p, i)
    <3>1. 1 \in Nat \ {0} /\ Trail(s) /\ Len(s) = 1
      BY <1>1
    <3> QED BY <3>1, DoneIsPast, Zenon
  <2>3. p[1][2] \in Nat \ {0}
    BY <2>1, WaysFacts
  <2>4. ~(p[1][2] < 1)
    BY <2>3
  <2>5. ~Past(s, p, 1)
    BY <1>1, <1>2, <2>4 DEF Past
  <2> QED BY <2>1, <2>2, <2>5
<1>4. Deepest \in Nat \ {0} /\ \A m \in 1 .. Cardinality(Objects) : m \in Nat \ {0}
  BY DeepestIsNat
<1> QED BY <1>1, <1>2, <1>3, <1>4 DEF OnItsWay

\* The innermost loop goes on.
LEMMA LoopGoesOn ==
  ASSUME Wired, NEW s, NEW o, NEW e, NEW news, NEW whole, OnItsWay(s, o, e, news, whole),
         NEW n \in Nat \ {0}, Len(s) = n, s[n].at <= Len(listeners[s[n].on]),
         NEW t, Stepped(s, t), Carries(t[n], e)
  PROVE  /\ Trail(t) /\ t # <<>> /\ t[1].on = o /\ Len(t) = n
         /\ \A i \in DOMAIN t : Carries(t[i], e)
<1>1. n \in Nat \ {0} /\ 1 \in 1 .. n /\ Trail(s)
  BY OnItsWayFacts
<1>2. Trail(t) /\ t # <<>> /\ Len(t) = n /\ \A i \in 1 .. n : t[i].on = s[i].on
  BY <1>1, SteppedIsTrail
<1>3. DOMAIN t = 1 .. n
  BY <1>2, TrailFacts
<1>4. \A i \in 1 .. n : i = n \/ i \in 1 .. n - 1
  BY <1>1
<1>5. \A i \in 1 .. n - 1 : i \in 1 .. n /\ t[i] = s[i]
  BY <1>1 DEF Stepped
<1> QED BY <1>1, <1>2, <1>3, <1>4, <1>5, OnItsWayFacts

\* A listener that knew an object which is gone.
LEMMA DeadOnItsWay ==
  ASSUME Wired, NEW s, NEW o, NEW e, NEW news, NEW whole, OnItsWay(s, o, e, news, whole),
         NEW n \in Nat \ {0}, Len(s) = n, s[n].at <= Len(listeners[s[n].on]),
         NEW t, Stepped(s, t), Carries(t[n], e)
  PROVE  OnItsWay(t, o, e, news, FALSE)
<1>1. /\ Trail(t) /\ t # <<>> /\ t[1].on = o /\ Len(t) = n
      /\ \A i \in DOMAIN t : Carries(t[i], e)
  BY LoopGoesOn
<1>2. n \in Nat \ {0} /\ Trail(s) /\ o \in Objects
  BY OnItsWayFacts
<1>3. \A m \in 1 .. Deepest : m \in Nat \ {0}
  BY <1>2, DeepestIsNat
<1>4. \A m \in 1 .. Deepest : \A p \in Ways(o, m) : Done(s, p) => Done(t, p)
  BY <1>1, <1>2, <1>3, SteppedDone
<1>5. \A h \in news : \E m \in 1 .. Deepest : \E p \in Ways(o, m) :
        Ending(p) /\ Done(t, p) /\ h = News(p, e)
  BY <1>4, OnItsWayFacts
<1> QED BY <1>1, <1>5 DEF OnItsWay

\* A listener that emits.
LEMMA PushedOnItsWay ==
  ASSUME Wired, NEW s, NEW o, NEW e, NEW news, NEW whole, OnItsWay(s, o, e, news, whole),
         NEW n, NEW t, NEW u, Pushed(s, n, t, u),
         \A i \in 1 .. n : Carries(t[i], e), Carries(u[n + 1], e)
  PROVE  OnItsWay(u, o, e, news, whole)
<1>0. /\ n \in Nat \ {0} /\ Len(s) = n /\ Stepped(s, t)
      /\ Trail(u) /\ u # <<>> /\ Len(u) = n + 1 /\ u[1].on = o /\ u[n + 1].at = 1
      /\ \A i \in 1 .. n : u[i] = t[i]
  BY OnItsWayFacts DEF Pushed
<1> USE <1>0
<1>1. Trail(s) /\ o \in Objects
  BY OnItsWayFacts
<1>2. DOMAIN u = 1 .. n + 1 /\ \A i \in 1 .. n + 1 : i = n + 1 \/ i \in 1 .. n
  BY TrailFacts
<1>3. \A i \in DOMAIN u : Carries(u[i], e)
  BY <1>2
<1>4. ASSUME NEW m \in Nat \ {0}, NEW p \in Ways(o, m) PROVE Done(u, p) <=> Done(s, p)
  BY <1>1, PushedDone
<1>5. /\ Deepest \in Nat \ {0}
      /\ \A m \in 1 .. Deepest : m \in Nat \ {0}
      /\ \A m \in 1 .. Cardinality(Objects) : m \in Nat \ {0}
  BY <1>1, DeepestIsNat
<1>6. \A h \in news : \E m \in 1 .. Deepest : \E p \in Ways(o, m) :
        Ending(p) /\ Done(u, p) /\ h = News(p, e)
  BY <1>4, <1>5, OnItsWayFacts
<1>7. whole =>
        /\ \A m \in 1 .. Cardinality(Objects) : \A p \in Ways(o, m) :
             Ending(p) /\ Done(u, p) => News(p, e) \in news
        /\ \A p \in Ways(o, Deepest) : PassesOn(p[Deepest]) => ~Done(u, p)
  BY <1>4, <1>5, OnItsWayFacts
<1> QED BY <1>3, <1>6, <1>7 DEF OnItsWay

\* An emit that returns into the one before.
LEMMA ReturnOnItsWay ==
  ASSUME Wired, NEW s, NEW o, NEW e, NEW news, NEW whole, OnItsWay(s, o, e, news, whole),
         NEW n, NEW r, Popped(s, n, r), n <= Deepest
  PROVE  OnItsWay(r, o, e, news, whole)
<1>0. /\ n \in Nat \ {0, 1} /\ Len(s) = n /\ s[n].at > Len(listeners[s[n].on])
      /\ Trail(r) /\ r # <<>> /\ Len(r) = n - 1 /\ r[1].on = o
      /\ \A i \in 1 .. n - 1 : r[i] = s[i]
  BY OnItsWayFacts DEF Popped
<1> USE <1>0
<1>1. Trail(s) /\ o \in Objects
  BY OnItsWayFacts
<1>2. DOMAIN r = 1 .. n - 1 /\ \A i \in 1 .. n - 1 : i \in 1 .. n
  BY TrailFacts
<1>3. \A i \in DOMAIN r : Carries(r[i], e)
  BY <1>2, OnItsWayFacts
<1>4. ASSUME NEW m \in Nat \ {0}, NEW p \in Ways(o, m)
      PROVE  /\ Done(s, p) => Done(r, p)
             /\ Done(r, p) => Done(s, p) \/ (m = n - 1 /\ PassesOn(p[m]))
  BY <1>1, ReturnDone, SMTT(30)
<1>5. /\ Deepest \in Nat \ {0} /\ Deepest # n - 1
      /\ \A m \in 1 .. Deepest : m \in Nat \ {0}
      /\ \A m \in 1 .. Cardinality(Objects) : m \in Nat \ {0}
  BY <1>1, DeepestIsNat
<1>6. ASSUME NEW m \in Nat \ {0}, NEW p \in Ways(o, m), Ending(p), Done(r, p) PROVE Done(s, p)
  <2>1. Len(p) = m
    BY WaysFacts
  <2> QED BY <1>4, <1>6, <2>1 DEF Ending
<1>7. \A h \in news : \E m \in 1 .. Deepest : \E p \in Ways(o, m) :
        Ending(p) /\ Done(r, p) /\ h = News(p, e)
  BY <1>4, <1>5, OnItsWayFacts
<1>8. whole =>
        /\ \A m \in 1 .. Cardinality(Objects) : \A p \in Ways(o, m) :
             Ending(p) /\ Done(r, p) => News(p, e) \in news
        /\ \A p \in Ways(o, Deepest) : PassesOn(p[Deepest]) => ~Done(r, p)
  <2> SUFFICES ASSUME whole
      PROVE  /\ \A m \in 1 .. Cardinality(Objects) : \A p \in Ways(o, m) :
                  Ending(p) /\ Done(r, p) => News(p, e) \in news
             /\ \A p \in Ways(o, Deepest) : PassesOn(p[Deepest]) => ~Done(r, p)
    OBVIOUS
  <2>1. /\ \A m \in 1 .. Cardinality(Objects) : \A p \in Ways(o, m) :
             Ending(p) /\ Done(s, p) => News(p, e) \in news
        /\ \A p \in Ways(o, Deepest) : PassesOn(p[Deepest]) => ~Done(s, p)
    BY OnItsWayFacts
  <2>2. ASSUME NEW m \in 1 .. Cardinality(Objects), NEW p \in Ways(o, m), Ending(p), Done(r, p)
        PROVE  News(p, e) \in news
    <3>1. m \in Nat \ {0}
      BY <1>5
    <3>2. Done(s, p)
      BY <1>6, <2>2, <3>1
    <3> QED BY <2>1, <2>2, <3>2
  <2>3. ASSUME NEW p \in Ways(o, Deepest), PassesOn(p[Deepest]) PROVE ~Done(r, p)
    BY <1>4, <1>5, <2>1, <2>3
  <2> QED BY <2>2, <2>3
<1> QED BY <1>3, <1>7, <1>8 DEF OnItsWay

\* The way to the listener that the innermost loop is at is not done.
LEMMA HereIsNotDone ==
  ASSUME Wired, NEW s, NEW n \in Nat \ {0}, Trail(s), Len(s) = n,
         NEW o, NEW p \in Ways(o, n), ToHere(s, p)
  PROVE  ~Done(s, p)
<1>1. s # <<>>
  BY DEF Trail
<1>2. \A i \in 1 .. n : i = n \/ i \in 1 .. n - 1
  OBVIOUS
<1>3. \A i \in 1 .. n : s[i].at \in Nat
  BY <1>1, TrailFacts
<1>4. \A a \in Nat : ~(a < a) /\ ~(a - 1 < a - 1)
  OBVIOUS
<1>5. ~Past(s, p, n)
  <2>1. p[n] = <<s[n].on, s[n].at>>
    BY DEF ToHere
  <2>2. p[n][2] = s[n].at /\ s[n].at \in Nat
    BY <1>3, <2>1
  <2>3. ~(p[n][2] < s[n].at)
    BY <1>4, <2>2
  <2> QED BY <2>3 DEF Past
<1>6. ASSUME NEW i \in 1 .. n - 1 PROVE ~Past(s, p, i)
  <2>1. p[i] = Passed(s, i) /\ i # n /\ i \in 1 .. n
    BY DEF ToHere
  <2>2. p[i][2] = s[i].at - 1 /\ s[i].at \in Nat
    BY <1>3, <2>1 DEF Passed
  <2>3. ~(p[i][2] < s[i].at - 1)
    BY <1>4, <2>2
  <2> QED BY <2>1, <2>3 DEF Past
<1>7. Done(s, p) <=> \E i \in 1 .. n : i \in 1 .. n /\ Past(s, p, i)
  BY DoneIsPast
<1> QED BY <1>2, <1>5, <1>6, <1>7

\* No other way leads to a listener of the program, or through it.
LEMMA HereIsTheEnd ==
  ASSUME Wired, NEW s, NEW n \in Nat \ {0}, Len(s) = n, ~PassesOn(<<s[n].on, s[n].at>>),
         NEW o, NEW p \in Ways(o, n), ToHere(s, p),
         NEW m \in Nat \ {0}, NEW q \in Ways(o, m), ToHere(s, q)
  PROVE  m = n /\ q = p
<1>1. Len(p) = n /\ Len(q) = m /\ DOMAIN p = 1 .. n /\ DOMAIN q = 1 .. m
      /\ p \in [1 .. n -> Wires] /\ q \in [1 .. m -> Wires]
  BY WaysFacts
<1>2. n <= m /\ q[n] = <<s[n].on, s[n].at>>
  BY <1>1 DEF ToHere
<1>3. n = m
  <2> SUFFICES ASSUME n # m PROVE FALSE
    OBVIOUS
  <2>1. n \in 1 .. m - 1
    BY <1>2
  <2>2. PassesOn(q[n])
    BY <2>1, WaysFacts
  <2> QED BY <1>2, <2>2
<1>4. \A k \in 1 .. n : k = n \/ k \in 1 .. n - 1
  OBVIOUS
<1>5. \A k \in 1 .. n - 1 : p[k] = q[k]
  BY DEF ToHere
<1>6. p[n] = q[n]
  BY DEF ToHere
<1>7. \A k \in 1 .. n : p[k] = q[k]
  BY <1>4, <1>5, <1>6
<1> QED BY <1>1, <1>3, <1>7

\* A listener of the program hears the error, at the end of way p.
LEMMA HeardOnItsWay ==
  ASSUME Wired, NEW s, NEW o, NEW e, NEW news, NEW whole, OnItsWay(s, o, e, news, whole),
         NEW n \in Nat \ {0}, Len(s) = n, n <= Deepest, s[n].at <= Len(listeners[s[n].on]),
         NEW t, Stepped(s, t), Carries(t[n], e),
         NEW p \in Ways(o, n), ToHere(s, p), Ending(p),
         NEW less, less => whole
  PROVE  OnItsWay(t, o, e, news \cup {News(p, e)}, less) /\ News(p, e) \notin news
<1>1. Trail(s) /\ s[1].on = o /\ o \in Objects
  BY OnItsWayFacts
<1>2. /\ Trail(t) /\ t # <<>> /\ t[1].on = o
      /\ \A i \in DOMAIN t : Carries(t[i], e)
  BY LoopGoesOn
<1>3. Len(p) = n /\ ~PassesOn(p[n]) /\ p[n] = <<s[n].on, s[n].at>>
  BY WaysFacts DEF Ending, ToHere
<1>4. ASSUME NEW m \in Nat \ {0}, NEW q \in Ways(o, m) PROVE Done(t, q) <=> Done(s, q) \/ ToHere(s, q)
  BY <1>1, <1>2, SteppedDone
<1>5. ASSUME NEW m \in Nat \ {0}, NEW q \in Ways(o, m), ToHere(s, q) PROVE m = n /\ q = p
  BY <1>3, <1>5, HereIsTheEnd
<1>6. ~Done(s, p)
  BY <1>1, HereIsNotDone
<1>7. /\ Deepest \in Nat \ {0} /\ n \in 1 .. Deepest
      /\ \A m \in 1 .. Deepest : m \in Nat \ {0}
      /\ \A m \in 1 .. Cardinality(Objects) : m \in Nat \ {0}
  BY <1>1, DeepestIsNat
<1> DEFINE news1 == news \cup {News(p, e)}
<1>8. ASSUME NEW h \in news1
      PROVE  \E m \in 1 .. Deepest : \E q \in Ways(o, m) :
               Ending(q) /\ Done(t, q) /\ h = News(q, e)
  <2>1. CASE h \in news
    BY <1>4, <1>7, <2>1, OnItsWayFacts
  <2>2. CASE h = News(p, e)
    BY <1>4, <1>7, <2>2
  <2> QED BY <2>1, <2>2
<1>9. less =>
        /\ \A m \in 1 .. Cardinality(Objects) : \A q \in Ways(o, m) :
             Ending(q) /\ Done(t, q) => News(q, e) \in news1
        /\ \A q \in Ways(o, Deepest) : PassesOn(q[Deepest]) => ~Done(t, q)
  <2> SUFFICES ASSUME less
               PROVE  /\ \A m \in 1 .. Cardinality(Objects) : \A q \in Ways(o, m) :
                           Ending(q) /\ Done(t, q) => News(q, e) \in news1
                      /\ \A q \in Ways(o, Deepest) : PassesOn(q[Deepest]) => ~Done(t, q)
    OBVIOUS
  <2>0. /\ \A m \in 1 .. Cardinality(Objects) : \A q \in Ways(o, m) :
             Ending(q) /\ Done(s, q) => News(q, e) \in news
        /\ \A q \in Ways(o, Deepest) : PassesOn(q[Deepest]) => ~Done(s, q)
    <3>1. whole
      OBVIOUS
    <3> QED BY <3>1, OnItsWayFacts
  <2>1. ASSUME NEW m \in 1 .. Cardinality(Objects), NEW q \in Ways(o, m), Ending(q), Done(t, q)
        PROVE  News(q, e) \in news1
    <3>1. CASE Done(s, q)
      BY <2>0, <2>1, <3>1
    <3>2. CASE ToHere(s, q)
      BY <1>5, <1>7, <3>2
    <3> QED BY <1>4, <1>7, <2>1, <3>1, <3>2
  <2>2. ASSUME NEW q \in Ways(o, Deepest), PassesOn(q[Deepest]) PROVE ~Done(t, q)
    <3>1. ~Done(s, q)
      BY <2>0, <2>2
    <3>2. ~ToHere(s, q)
      BY <1>3, <1>5, <1>7, <2>2
    <3> QED BY <1>4, <1>7, <3>1, <3>2
  <2> QED BY <2>1, <2>2
<1>10. News(p, e) \notin news
  <2> SUFFICES ASSUME News(p, e) \in news PROVE FALSE
    OBVIOUS
  <2>1. PICK m \in 1 .. Deepest : \E q \in Ways(o, m) :
               Ending(q) /\ Done(s, q) /\ News(p, e) = News(q, e)
    BY OnItsWayFacts
  <2>2. PICK q \in Ways(o, m) : Done(s, q) /\ News(p, e) = News(q, e)
    BY <2>1
  <2>3. \A w : News(w, e).path = w
    BY DEF News
  <2> QED BY <1>6, <2>2, <2>3
<1> HIDE DEF news1
<1>11. OnItsWay(t, o, e, news1, less)
  BY <1>2, <1>8, <1>9 DEF OnItsWay
<1> QED BY <1>10, <1>11 DEF news1

\* What has been heard is expected, but for loops.
LEMMA HeardIsExpected ==
  ASSUME Wired, NEW s, NEW o, NEW e, NEW news, NEW whole, OnItsWay(s, o, e, news, whole), ~Loop(o)
  PROVE  news \subseteq Expected(o, e)
<1> SUFFICES ASSUME NEW h \in news PROVE h \in Expected(o, e)
  OBVIOUS
<1>1. o \in Objects
  BY OnItsWayFacts
<1> DEFINE N == Cardinality(Objects)
<1>2. N \in Nat /\ N + 1 \in Nat \ {0} /\ Deepest \in Nat
  BY <1>1, DeepestIsNat
<1>3. PICK m \in 1 .. Deepest : \E p \in Ways(o, m) : Ending(p) /\ h = News(p, e)
  BY OnItsWayFacts
<1>4. PICK p \in Ways(o, m) : Ending(p) /\ h = News(p, e)
  BY <1>3
<1>5. m \in Nat /\ m \in Nat \ {0}
  BY <1>2
<1>6. ~(m > N)
  <2> SUFFICES ASSUME m > N PROVE Loop(o)
    OBVIOUS
  <2>1. \E q \in Ways(o, N + 1) : PassesOn(q[N + 1])
    BY <1>2, <1>5, LongWayGoesRound
  <2>2. \A q \in Ways(o, N + 1) : Len(q) = N + 1
    BY <1>2, WaysFacts
  <2> QED BY <2>1, <2>2 DEF Loop
<1>7. m \in 1 .. N
  BY <1>2, <1>5, <1>6
<1> QED BY <1>4, <1>7 DEF Expected, Ending

\* When the outermost loop ends, and no object is gone, all has been heard.
LEMMA AllIsHeard ==
  ASSUME Wired, NEW s, NEW o, NEW e, NEW news, OnItsWay(s, o, e, news, TRUE),
         Len(s) = 1, s[1].at > Len(listeners[s[1].on])
  PROVE  news = Expected(o, e)
<1> DEFINE N == Cardinality(Objects)
<1>1. Trail(s) /\ s[1].on = o /\ o \in Objects
  BY OnItsWayFacts
<1>2. /\ N \in Nat /\ N + 1 \in Nat \ {0} /\ Deepest \in Nat \ {0}
      /\ \A m \in 1 .. N : m \in Nat \ {0}
  BY <1>1, DeepestIsNat
<1>3. ASSUME NEW m \in Nat \ {0}, NEW p \in Ways(o, m) PROVE Done(s, p)
  BY <1>1, LastDone
<1>4. ~Loop(o)
  <2> SUFFICES ASSUME Loop(o) PROVE FALSE
    OBVIOUS
  <2>1. PICK p \in Ways(o, N + 1) : TRUE
    BY DEF Loop
  <2>2. N + 1 > N /\ N + 1 \in Nat
    BY <1>2
  <2>3. \E q \in Ways(o, Deepest) : PassesOn(q[Deepest])
    BY <1>2, <2>2, LongWayGoesRound
  <2> QED BY <1>2, <1>3, <2>3, OnItsWayFacts
<1>5. news \subseteq Expected(o, e)
  BY <1>4, HeardIsExpected
<1>6. ASSUME NEW m \in 1 .. N, NEW p \in Ways(o, m), Ending(p) PROVE News(p, e) \in news
  BY <1>2, <1>3, <1>6, OnItsWayFacts
<1>7. ASSUME NEW h \in Expected(o, e) PROVE h \in news
  <2>1. PICK p \in UNION {Ways(o, m) : m \in 1 .. N} :
          ~PassesOn(p[Len(p)]) /\ Along(p, "delegate_to") = {} /\ h = News(p, e)
    BY DEF Expected
  <2>2. PICK m \in 1 .. N : p \in Ways(o, m)
    BY <2>1
  <2> QED BY <1>6, <2>1, <2>2 DEF Ending
<1> QED BY <1>5, <1>7

-----------------------------------------------------------------------------
(* The steps.  listeners does not change while emits run, and so neither does *)
(* what is defined from it alone.                                           *)

LEMMA RigidWays ==
  ASSUME listeners' = listeners
  PROVE  /\ \A s : Trail(s)' <=> Trail(s)
         /\ \A f, e : Carries(f, e)' <=> Carries(f, e)
         /\ \A s, p : Done(s, p)' <=> Done(s, p)
         /\ \A p : Ending(p)' <=> Ending(p)
         /\ \A o, n : Ways(o, n)' = Ways(o, n)
         /\ \A p, e : News(p, e)' = News(p, e)
         /\ \A w : PassesOn(w)' <=> PassesOn(w)
<1>1. \A s : Trail(s)' <=> Trail(s)
  BY DEF Trail, Passed, PassesOn, Along
<1>2. \A f, e : Carries(f, e)' <=> Carries(f, e)
  BY DEF Carries, Late
<1>3. \A s, p : Done(s, p)' <=> Done(s, p)
  BY DEF Done, Passed
<1>4. \A p : Ending(p)' <=> Ending(p)
  BY DEF Ending, PassesOn, Along
<1>5. \A o, n : Ways(o, n)' = Ways(o, n)
  BY DEF Ways, Wires, PassesOn
<1>6. \A p, e : News(p, e)' = News(p, e)
  BY DEF News, Late
<1>7. \A w : PassesOn(w)' <=> PassesOn(w)
  BY DEF PassesOn
<1> QED BY <1>1, <1>2, <1>3, <1>4, <1>5, <1>6, <1>7

LEMMA RigidOnItsWay ==
  ASSUME listeners' = listeners
  PROVE  /\ \A s, o, e, news, whole : OnItsWay(s, o, e, news, whole)' <=> OnItsWay(s, o, e, news, whole)
         /\ \A o, e : Expected(o, e)' = Expected(o, e)
         /\ \A o : Loop(o)' <=> Loop(o)
<1>1. ASSUME NEW s, NEW o, NEW e, NEW news, NEW whole
      PROVE  OnItsWay(s, o, e, news, whole)' <=> OnItsWay(s, o, e, news, whole)
  BY RigidWays, SMT DEF OnItsWay, Deepest
<1>2. \A o, e : Expected(o, e)' = Expected(o, e)
  <2>1. \A p : Along(p, "delegate_to")' = Along(p, "delegate_to")
    BY DEF Along
  <2> QED BY <2>1, RigidWays DEF Expected
<1>3. \A o : Loop(o)' <=> Loop(o)
  BY RigidWays DEF Loop
<1> QED BY <1>1, <1>2, <1>3

\* What a step has to show that leaves emits running.
LEMMA HeardInvRuns ==
  ASSUME Wired, listeners' = listeners, owned' \subseteq Objects, depth' \in [Objects -> Nat],
         handler'.at \in {"func", "catch"}, handler'.at = "func" => handler'.emitted,
         ~flying', ~twice',
         NEW s, stack' = s, NEW o, handler'.self = o, NEW e, (handler'.at = "catch") = e,
         NEW news, heard' = news, NEW whole, (owned' = Objects) = whole,
         OnItsWay(s, o, e, news, whole),
         \E d \in [1 .. Len(s) -> 1 .. DepthLimit] : Counted(s, d, depth')
  PROVE  HeardInv'
<1>1. s # <<>> /\ o \in Objects
  BY OnItsWayFacts
<1>2. OnItsWay(stack, handler.self, handler.at = "catch", heard, owned = Objects)'
  BY RigidOnItsWay
<1>3. (\E d \in [1 .. Len(stack) -> 1 .. DepthLimit] : Numbered(stack, d))'
  BY DEF Numbered, Counted
<1>4. ~Loop(o) => news \subseteq Expected(o, e)
  BY HeardIsExpected
<1>5. /\ Loop(handler.self)' <=> Loop(o)
      /\ Expected(handler.self, handler.at = "catch")' = Expected(o, e)
  BY RigidOnItsWay
<1>6. HeardAlongEachWay'
  BY <1>1, <1>4, <1>5 DEF HeardAlongEachWay
<1>7. handler' # Idle
  BY DEF Idle
<1> QED BY <1>1, <1>2, <1>3, <1>6, <1>7 DEF HeardInv, Idle

\* And one that leaves none.
LEMMA HeardInvRests ==
  ASSUME owned' \subseteq Objects, depth' \in [Objects -> Nat], stack' = <<>>, ~twice',
         handler' = Idle \/ (handler'.at \in {"func", "catch"} /\ handler'.self \in Objects),
         handler'.at = "func" /\ ~handler'.emitted => heard' = {},
         ~flying' /\ handler'.emitted /\ owned' = Objects =>
           listeners' = listeners /\ heard' = Expected(handler'.self, handler'.at = "catch")
  PROVE  HeardInv'
<1>1. ~flying' /\ handler'.emitted /\ owned' = Objects =>
        heard' = Expected(handler.self, handler.at = "catch")'
  BY RigidOnItsWay
<1>2. HeardAlongEachWay'
  BY <1>1 DEF HeardAlongEachWay
<1> QED BY <1>2 DEF HeardInv, Idle

\* What holds while emits run.
LEMMA Running ==
  ASSUME HeardInv, stack # <<>>
  PROVE  /\ handler.at \in {"func", "catch"} /\ handler.self \in Objects /\ handler # Idle
         /\ handler.at = "func" => handler.emitted
         /\ ~flying /\ ~twice /\ owned \subseteq Objects /\ depth \in [Objects -> Nat]
         /\ OnItsWay(stack, handler.self, handler.at = "catch", heard, owned = Objects)
         /\ Trail(stack) /\ stack[1].on = handler.self
         /\ Len(stack) \in Nat \ {0} /\ DOMAIN stack = 1 .. Len(stack) /\ Len(stack) <= Deepest
         /\ Top = stack[Len(stack)] /\ Top \in Emits /\ Top.on \in Objects /\ Top.at \in Nat \ {0}
         /\ Carries(Top, handler.at = "catch")
         /\ \A i \in 1 .. Len(stack) : stack[i].on \in Objects
         /\ \E d \in [1 .. Len(stack) -> 1 .. DepthLimit] : Counted(stack, d, depth)
<1>1. OnItsWay(stack, handler.self, handler.at = "catch", heard, owned = Objects)
  BY DEF HeardInv
<1>2. /\ Trail(stack) /\ stack[1].on = handler.self /\ Len(stack) \in Nat \ {0}
      /\ \A i \in 1 .. Len(stack) : Carries(stack[i], handler.at = "catch")
  BY <1>1, OnItsWayFacts
<1>3. /\ DOMAIN stack = 1 .. Len(stack) /\ Len(stack) \in 1 .. Len(stack)
      /\ \A i \in 1 .. Len(stack) : stack[i] \in Emits /\ stack[i].on \in Objects /\ stack[i].at \in Nat \ {0}
  BY <1>2, TrailFacts
<1>4. \E d \in [1 .. Len(stack) -> 1 .. DepthLimit] : Counted(stack, d, depth)
  BY DEF HeardInv, Numbered, Counted
<1>5. Len(stack) <= Deepest
  BY <1>2, <1>3, <1>4, CountedIsShort
<1>6. /\ Top = stack[Len(stack)] /\ Top \in Emits /\ Top.on \in Objects /\ Top.at \in Nat \ {0}
      /\ Carries(Top, handler.at = "catch")
  BY <1>2, <1>3 DEF Top
<1>7. /\ handler.at \in {"func", "catch"} /\ handler.self \in Objects /\ handler # Idle
      /\ handler.at = "func" => handler.emitted
      /\ ~flying /\ ~twice /\ owned \subseteq Objects /\ depth \in [Objects -> Nat]
  BY DEF HeardInv, HeardAlongEachWay
<1> QED BY <1>1, <1>2, <1>3, <1>4, <1>5, <1>6, <1>7

-----------------------------------------------------------------------------
(* Each delivery.                                                           *)

\* The listener that the innermost loop is at knows an object.
LEMMA KnowsObject ==
  ASSUME Wired, HeardInv, NEW kind, AtListener(kind)
  PROVE  /\ stack # <<>> /\ Top.at <= Len(listeners[Top.on]) /\ listeners[Top.on][Top.at].kind = kind
         /\ kind # "program" => PassesOn(<<Top.on, Top.at>>) /\ To \in Objects
<1>1. stack # <<>> /\ Top.at <= Len(listeners[Top.on]) /\ listeners[Top.on][Top.at].kind = kind
  BY DEF AtListener
<1>2. <<Top.on, Top.at>> \in Wires
  BY <1>1, Running, WireIsPlace
<1>3. ASSUME kind # "program" PROVE PassesOn(<<Top.on, Top.at>>) /\ To \in Objects
  <2>1. PassesOn(<<Top.on, Top.at>>)
    BY <1>1, <1>3 DEF PassesOn
  <2>2. listeners[<<Top.on, Top.at>>[1]][<<Top.on, Top.at>>[2]].to \in Objects
    BY <1>2, <2>1 DEF Wired
  <2> QED BY <2>1, <2>2 DEF To
<1> QED BY <1>1, <1>3

LEMMA HearKeeps ==
  ASSUME Wired, HeardInv, Hear
  PROVE  HeardInv'
<1> DEFINE n == Len(stack)
           o == handler.self
           e == handler.at = "catch"
           news == heard \cup {News(Here, e)}
<1>1. /\ AtListener("program") /\ Top.error # NoError
      /\ UNCHANGED <<listeners, handler>>
  BY DEF Hear
<1>2. /\ stack # <<>> /\ Top.at <= Len(listeners[Top.on])
      /\ listeners[Top.on][Top.at].kind = "program"
  BY <1>1, KnowsObject
<1>3. /\ Here \in Ways(o, n) /\ Len(Here) = n /\ Here[n] = <<Top.on, Top.at>>
      /\ \A k \in 1 .. n - 1 : Here[k] = Passed(stack, k)
      /\ Along(Here, "delegate_to") = {}
  <2>1. /\ n \in Nat \ {0} /\ Trail(stack) /\ stack[1].on = o /\ Top = stack[n]
        /\ stack[n].at <= Len(listeners[stack[n].on])
    BY <1>2, Running
  <2> DEFINE p == Append(stack[n].path, <<stack[n].on, stack[n].at>>)
  <2>2. /\ p \in Ways(stack[1].on, n) /\ Len(p) = n /\ p[n] = <<stack[n].on, stack[n].at>>
        /\ \A k \in 1 .. n - 1 : p[k] = Passed(stack, k)
        /\ Along(p, "delegate_to") = {} <=>
             stack[n].error # NoError /\ listeners[stack[n].on][stack[n].at].kind # "delegate_to"
    BY <2>1, HereIsWay
  <2>3. Here = p
    BY <2>1 DEF Here
  <2> HIDE DEF p
  <2> QED BY <1>1, <1>2, <2>1, <2>2, <2>3
<1>4. ToHere(stack, Here) /\ Ending(Here)
  <2>1. ToHere(stack, Here)
    BY <1>2, <1>3, Running DEF ToHere
  <2>2. ~PassesOn(Here[n])
    BY <1>2, <1>3 DEF PassesOn
  <2> QED BY <1>3, <2>1, <2>2 DEF Ending
<1>5. News(Here, e) = [path |-> Here, layers |-> Len(Top.error),
                       described |-> Described(Top.error[1]), exception |-> HasException(Top.error)]
  BY <1>1, <1>2, Running, CarriedIsNews DEF Here
<1>6. heard' = news /\ twice' = (twice \/ News(Here, e) \in heard)
  BY <1>5 DEF Hear
<1>7. /\ Stepped(stack, GivenAway) /\ GivenAway[n].error = Left(Top.error)
  BY <1>1, <1>2, Running, GivenAwayIsStepped
<1>8. Carries(GivenAway[n], e)
  <2>1. GivenAway[n] \in Emits
    <3>1. GivenAway \in Seq(Emits) /\ Len(GivenAway) = n /\ n \in Nat \ {0}
      BY <1>2, <1>7, Running DEF Stepped
    <3>2. n \in DOMAIN GivenAway
      BY <3>1
    <3> QED BY <3>1, <3>2, ElementOfSeq
  <2>2. /\ GivenAway[n].on = Top.on /\ GivenAway[n].at = Top.at + 1 /\ GivenAway[n].path = Top.path
    BY <1>2, <1>7, Running DEF Stepped
  <2>3. listeners[Top.on][Top.at].kind # "delegate_to" /\ Top \in Emits /\ e \in BOOLEAN
    BY <1>2, Running
  <2> QED BY <1>7, <2>1, <2>2, <2>3, LeftCarries
<1>9. owned' \subseteq owned
  BY DEF Hear
<1>10. (owned' = Objects) => (owned = Objects)
  BY <1>2, <1>9, Running
<1>11. OnItsWay(GivenAway, o, e, news, owned' = Objects) /\ News(Here, e) \notin heard
  <2> HIDE DEF e
  <2>1. /\ n \in Nat \ {0} /\ n <= Deepest /\ OnItsWay(stack, o, e, heard, owned = Objects)
        /\ stack[n].at <= Len(listeners[stack[n].on])
    BY <1>2, Running DEF e
  <2> QED BY <1>3, <1>4, <1>7, <1>8, <1>10, <2>1, HeardOnItsWay
<1>12. ~twice'
  BY <1>2, <1>6, <1>11, Running
<1>13. \/ stack' = GivenAway /\ UNCHANGED <<depth, flying>>
       \/ stack' = <<>> /\ flying' /\ UNCHANGED depth
  BY DEF Hear, Throw
<1>14. CASE stack' = GivenAway /\ UNCHANGED <<depth, flying>>
  <2>1. PICK d \in [1 .. n -> 1 .. DepthLimit] : Counted(stack, d, depth)
    BY <1>2, Running
  <2>2. /\ Len(GivenAway) = n /\ DOMAIN GivenAway = 1 .. n /\ DOMAIN stack = 1 .. n
        /\ \A i \in 1 .. n : GivenAway[i].on = stack[i].on
    <3>1. n \in Nat \ {0} /\ Trail(stack) /\ stack[n].at <= Len(listeners[stack[n].on])
      BY <1>2, Running
    <3>2. Trail(GivenAway) /\ GivenAway # <<>> /\ Len(GivenAway) = n
          /\ \A i \in 1 .. n : GivenAway[i].on = stack[i].on
      BY <1>7, <3>1, SteppedIsTrail
    <3> QED BY <1>2, <3>2, TrailFacts, Running
  <2>3. Counted(GivenAway, d, depth')
    BY <1>14, <2>1, <2>2 DEF Counted
  <2>4. /\ handler'.at \in {"func", "catch"} /\ (handler'.at = "func" => handler'.emitted)
        /\ owned' \subseteq Objects /\ depth' \in [Objects -> Nat] /\ ~flying'
    BY <1>1, <1>2, <1>9, <1>14, Running
  <2> HIDE DEF news
  <2> QED BY <1>1, <1>6, <1>11, <1>12, <1>14, <2>1, <2>2, <2>3, <2>4, HeardInvRuns
<1>15. CASE stack' = <<>> /\ flying' /\ UNCHANGED depth
  <2>1. /\ handler'.at \in {"func", "catch"} /\ handler'.self \in Objects
        /\ (handler'.at = "func" => handler'.emitted)
        /\ owned' \subseteq Objects /\ depth' \in [Objects -> Nat]
    BY <1>1, <1>2, <1>9, <1>15, Running
  <2> QED BY <1>12, <1>15, <2>1, HeardInvRests
<1> QED BY <1>13, <1>14, <1>15

\* A loop that goes on runs the same emits, with the same counters.
LEMMA LoopIsCounted ==
  ASSUME Wired, HeardInv, stack # <<>>, Top.at <= Len(listeners[Top.on]), NEW t, Stepped(stack, t)
  PROVE  /\ Trail(t) /\ t # <<>> /\ Len(t) = Len(stack) /\ DOMAIN t = 1 .. Len(stack)
         /\ \A i \in 1 .. Len(stack) : t[i].on = stack[i].on
         /\ \A d : Counted(stack, d, depth) => Counted(t, d, depth)
<1> DEFINE n == Len(stack)
<1>1. n \in Nat \ {0} /\ Trail(stack) /\ stack[n].at <= Len(listeners[stack[n].on])
      /\ DOMAIN stack = 1 .. n
  BY Running
<1>2. Trail(t) /\ t # <<>> /\ Len(t) = n /\ \A i \in 1 .. n : t[i].on = stack[i].on
  BY <1>1, SteppedIsTrail
<1>3. DOMAIN t = 1 .. n
  BY <1>2, TrailFacts
<1> QED BY <1>1, <1>2, <1>3 DEF Counted

\* The object that a listener knew is gone.
LEMMA DeadKeeps ==
  ASSUME Wired, HeardInv, stack # <<>>, Top.at <= Len(listeners[Top.on]),
         To \in Objects, ~Alive(To),
         NEW t, Stepped(stack, t), Carries(t[Len(stack)], handler.at = "catch"), stack' = t,
         UNCHANGED <<owned, listeners, depth, handler, flying, heard, twice>>
  PROVE  HeardInv'
<1> DEFINE n == Len(stack)
           o == handler.self
           e == handler.at = "catch"
<1>1. owned' # Objects
  BY DEF Alive
<1>2. OnItsWay(t, o, e, heard, FALSE)
  <2> HIDE DEF e
  <2>1. /\ n \in Nat \ {0} /\ OnItsWay(stack, o, e, heard, owned = Objects)
        /\ stack[n].at <= Len(listeners[stack[n].on]) /\ Carries(t[n], e)
    BY Running DEF e
  <2> QED BY <2>1, DeadOnItsWay
<1>3. PICK d \in [1 .. n -> 1 .. DepthLimit] : Counted(stack, d, depth)
  BY Running
<1>4. Len(t) = n /\ Counted(t, d, depth')
  BY <1>3, LoopIsCounted
<1>5. /\ handler'.at \in {"func", "catch"} /\ (handler'.at = "func" => handler'.emitted)
      /\ owned' \subseteq Objects /\ depth' \in [Objects -> Nat] /\ ~flying' /\ ~twice'
  BY Running
<1>6. (owned' = Objects) = FALSE /\ (handler'.at = "catch") = e /\ handler'.self = o /\ heard' = heard
  BY <1>1
<1> HIDE DEF e
<1> QED BY <1>2, <1>3, <1>4, <1>5, <1>6, HeardInvRuns

\* A listener emits on the object it knows.
LEMMA EmitKeeps ==
  ASSUME Wired, HeardInv, stack # <<>>, Top.at <= Len(listeners[Top.on]),
         PassesOn(<<Top.on, Top.at>>), To \in Objects,
         NEW t, Stepped(stack, t), Carries(t[Len(stack)], handler.at = "catch"),
         NEW error \in Seq(Layers),
         error = NoError <=> Top.error = NoError \/ listeners[Top.on][Top.at].kind = "delegate_to",
         Carries(NewEmit(To, error, Here), handler.at = "catch"),
         Emit(t, To, error, Here),
         UNCHANGED <<owned, listeners, handler, heard, twice>>
  PROVE  HeardInv'
<1> DEFINE n == Len(stack)
           o == handler.self
           e == handler.at = "catch"
           f == NewEmit(To, error, Here)
           u == Append(t, f)
<1>1. /\ n \in Nat \ {0} /\ Trail(stack) /\ stack[1].on = o /\ Top = stack[n]
      /\ OnItsWay(stack, o, e, heard, owned = Objects) /\ depth \in [Objects -> Nat]
      /\ DOMAIN stack = 1 .. n /\ \A i \in 1 .. n : stack[i].on \in Objects
  BY Running
<1>2. PICK d \in [1 .. n -> 1 .. DepthLimit] : Counted(stack, d, depth)
  BY Running
<1>3. /\ handler'.at \in {"func", "catch"} /\ (handler'.at = "func" => handler'.emitted)
      /\ handler'.self \in Objects
      /\ owned' \subseteq Objects /\ ~twice'
      /\ (owned' = Objects) = (owned = Objects) /\ (handler'.at = "catch") = e
      /\ handler'.self = o /\ heard' = heard
  BY Running
<1>4. depth' = [depth EXCEPT ![To] = @ + 1] /\ depth' \in [Objects -> Nat]
  BY <1>1 DEF Emit
<1>5. CASE depth[To] >= DepthLimit
  <2>1. stack' = <<>> /\ flying'
    BY <1>5 DEF Emit
  <2> QED BY <1>3, <1>4, <2>1, HeardInvRests
<1>6. CASE ~(depth[To] >= DepthLimit)
  <2>1. stack' = u /\ ~flying'
    BY <1>6 DEF Emit, NewEmit
  <2>2. Emitting(stack, n, t, To, error, f, u)
    <3>1. f = NewEmit(To, error, Append(stack[n].path, <<stack[n].on, stack[n].at>>))
      BY <1>1 DEF Here
    <3> HIDE DEF f
    <3> QED BY <1>1, <3>1 DEF Emitting, To
  <2>3. f.at = 1 /\ f.on = To
    BY DEF NewEmit
  <2>4. /\ Len(t) = n /\ DOMAIN t = 1 .. n /\ \A i \in 1 .. n : t[i].on = stack[i].on
    BY LoopIsCounted
  <2>5. \A i \in 1 .. n : Carries(t[i], e)
    <3> HIDE DEF e
    <3>1. Carries(t[n], e) /\ stack[n].at <= Len(listeners[stack[n].on])
      BY <1>1 DEF e
    <3>2. \A i \in DOMAIN t : Carries(t[i], e)
      BY <1>1, <3>1, LoopGoesOn
    <3> QED BY <2>4, <3>2
  <2>6. Carries(f, e)
    OBVIOUS
  <2> HIDE DEF f, u, e
  <2>7. Pushed(stack, n, t, u) /\ u[n + 1] = f
    BY <2>2, PushedIsTrail
  <2>8. OnItsWay(u, o, e, heard, owned = Objects)
    BY <1>1, <2>5, <2>6, <2>7, PushedOnItsWay
  <2>9. /\ Len(u) = n + 1 /\ DOMAIN u = 1 .. n + 1 /\ u[n + 1].on = To
        /\ \A i \in 1 .. n : u[i].on = stack[i].on
    BY <2>3, <2>4, <2>7, TrailFacts DEF Pushed
  <2>10. CountsUp(stack, n, d, To, u)
    BY <1>1, <1>2, <1>6, <2>9 DEF CountsUp
  <2>11. \E c \in [1 .. n + 1 -> 1 .. DepthLimit] : Counted(u, c, depth')
    BY <1>1, <1>4, <2>10, CountedPush
  <2>12. \E c \in [1 .. Len(u) -> 1 .. DepthLimit] : Counted(u, c, depth')
    BY <2>9, <2>11
  <2> QED BY <1>3, <1>4, <2>1, <2>8, <2>12, HeardInvRuns
<1> QED BY <1>5, <1>6

LEMMA PassOnKeeps ==
  ASSUME Wired, HeardInv, PassOn
  PROVE  HeardInv'
<1> DEFINE n == Len(stack)
           e == handler.at = "catch"
<1>1. AtListener("on_error") /\ Top.error # NoError
  BY DEF PassOn
<1>2. /\ stack # <<>> /\ Top.at <= Len(listeners[Top.on])
      /\ listeners[Top.on][Top.at].kind = "on_error"
      /\ PassesOn(<<Top.on, Top.at>>) /\ To \in Objects
  BY <1>1, KnowsObject
<1>3. UNCHANGED <<owned, listeners, handler, heard, twice>>
  BY DEF PassOn, wireVars
<1>4. /\ n \in Nat \ {0} /\ Trail(stack) /\ Top = stack[n] /\ Top \in Emits /\ Carries(Top, e)
  BY <1>2, Running
<1>5. Stepped(stack, GivenAway) /\ GivenAway[n].error = Left(Top.error)
  BY <1>1, <1>2, <1>4, GivenAwayIsStepped
<1>6. Carries(GivenAway[n], e)
  <2>1. GivenAway[n] \in Emits
    <3>1. GivenAway \in Seq(Emits) /\ Len(GivenAway) = n
      BY <1>5 DEF Stepped
    <3>2. n \in DOMAIN GivenAway
      BY <1>4, <3>1
    <3> QED BY <3>1, <3>2, ElementOfSeq
  <2>2. GivenAway[n].on = Top.on /\ GivenAway[n].at = Top.at + 1 /\ GivenAway[n].path = Top.path
    BY <1>4, <1>5 DEF Stepped
  <2>3. listeners[Top.on][Top.at].kind # "delegate_to" /\ e \in BOOLEAN
    BY <1>2
  <2> QED BY <1>4, <1>5, <2>1, <2>2, <2>3, LeftCarries
<1>7. Wrap(Top.error) \in Seq(Layers) /\ Wrap(Top.error) # NoError
  BY <1>4, WrapIsError DEF Emits
<1>8. CASE ~Alive(To)
  <2>1. stack' = GivenAway /\ UNCHANGED <<depth, flying>>
    BY <1>7, <1>8 DEF PassOn
  <2> QED BY <1>2, <1>3, <1>5, <1>6, <1>8, <2>1, DeadKeeps
<1>9. CASE Alive(To)
  <2>1. Emit(GivenAway, To, Wrap(Top.error), Here)
    BY <1>7, <1>9 DEF PassOn
  <2>2. Carries(NewEmit(To, Wrap(Top.error), Here), e)
    <3>1. e \in BOOLEAN
      OBVIOUS
    <3> HIDE DEF e
    <3> QED BY <1>1, <1>2, <1>4, <3>1, WrapCarries DEF Here
  <2>3. Wrap(Top.error) = NoError <=> Top.error = NoError \/ listeners[Top.on][Top.at].kind = "delegate_to"
    BY <1>1, <1>2, <1>7
  <2> QED BY <1>2, <1>3, <1>5, <1>6, <1>7, <2>1, <2>2, <2>3, EmitKeeps
<1> QED BY <1>8, <1>9

LEMMA DelegateKeeps ==
  ASSUME Wired, HeardInv, Delegate
  PROVE  HeardInv'
<1> DEFINE n == Len(stack)
           e == handler.at = "catch"
<1>1. AtListener("delegate_to")
  BY DEF Delegate
<1>2. /\ stack # <<>> /\ Top.at <= Len(listeners[Top.on])
      /\ listeners[Top.on][Top.at].kind = "delegate_to"
      /\ PassesOn(<<Top.on, Top.at>>) /\ To \in Objects
  BY <1>1, KnowsObject
<1>3. UNCHANGED <<owned, listeners, handler, heard, twice>>
  BY DEF Delegate, wireVars
<1>4. /\ n \in Nat \ {0} /\ Trail(stack) /\ Top = stack[n] /\ Top \in Emits /\ Carries(Top, e)
  BY <1>2, Running
<1>5. Stepped(stack, Advanced) /\ Advanced[n].error = Top.error
  BY <1>2, <1>4, AdvancedIsStepped
<1>6. Carries(Advanced[n], e)
  <2>1. Advanced[n] \in Emits
    <3>1. Advanced \in Seq(Emits) /\ Len(Advanced) = n
      BY <1>5 DEF Stepped
    <3>2. n \in DOMAIN Advanced
      BY <1>4, <3>1
    <3> QED BY <3>1, <3>2, ElementOfSeq
  <2>2. Advanced[n].on = Top.on /\ Advanced[n].at = Top.at + 1 /\ Advanced[n].path = Top.path
    BY <1>4, <1>5 DEF Stepped
  <2>3. e \in BOOLEAN
    OBVIOUS
  <2> QED BY <1>2, <1>4, <1>5, <2>1, <2>2, <2>3, AdvancedCarries
<1>7. CASE ~Alive(To)
  <2>1. stack' = Advanced /\ UNCHANGED <<depth, flying>>
    BY <1>7 DEF Delegate
  <2> QED BY <1>2, <1>3, <1>5, <1>6, <1>7, <2>1, DeadKeeps
<1>8. CASE Alive(To)
  <2>1. Emit(Advanced, To, NoError, Here)
    BY <1>8 DEF Delegate
  <2>2. NewEmit(To, NoError, Here).error = NoError /\ NoError \in Seq(Layers)
    BY DEF NewEmit, NoError
  <2>3. Carries(NewEmit(To, NoError, Here), e)
    BY <2>2 DEF Carries
  <2> QED BY <1>2, <1>3, <1>5, <1>6, <2>1, <2>2, <2>3, EmitKeeps
<1> QED BY <1>7, <1>8

LEMMA ReturnKeeps ==
  ASSUME Wired, HeardInv, Return
  PROVE  HeardInv'
<1> DEFINE n == Len(stack)
           o == handler.self
           e == handler.at = "catch"
           r == SubSeq(stack, 1, n - 1)
<1>1. /\ stack # <<>> /\ Top.at > Len(listeners[Top.on])
      /\ depth' = [depth EXCEPT ![Top.on] = @ - 1] /\ stack' = r
      /\ UNCHANGED <<owned, listeners, handler, flying, heard, twice>>
  BY DEF Return, wireVars, historyVars
<1>2. /\ n \in Nat \ {0} /\ Trail(stack) /\ stack[1].on = o /\ Top = stack[n]
      /\ OnItsWay(stack, o, e, heard, owned = Objects) /\ depth \in [Objects -> Nat]
      /\ DOMAIN stack = 1 .. n /\ \A i \in 1 .. n : stack[i].on \in Objects
      /\ n <= Deepest
  BY <1>1, Running
<1>3. PICK d \in [1 .. n -> 1 .. DepthLimit] : Counted(stack, d, depth)
  BY <1>1, Running
<1>4. /\ handler'.at \in {"func", "catch"} /\ (handler'.at = "func" => handler'.emitted)
      /\ handler'.self \in Objects
      /\ owned' \subseteq Objects /\ ~twice' /\ ~flying'
      /\ (owned' = Objects) = (owned = Objects) /\ (handler'.at = "catch") = e
      /\ handler'.self = o /\ heard' = heard
  BY <1>1, Running
<1>5. DOMAIN r = 1 .. n - 1 /\ \A i \in 1 .. n - 1 : r[i] = stack[i]
  <2>1. stack \in Seq(Emits) /\ n - 1 \in Nat /\ n - 1 <= n
    BY <1>2 DEF Trail
  <2> QED BY <2>1
<1>6. /\ depth' \in [Objects -> Nat]
      /\ \E c \in [1 .. n - 1 -> 1 .. DepthLimit] : Counted(r, c, depth')
  <2>1. depth' = [depth EXCEPT ![stack[n].on] = @ - 1]
    BY <1>1, <1>2
  <2> HIDE DEF r, n
  <2>2. CountsDown(stack, n, d, r)
    BY <1>2, <1>3, <1>5 DEF CountsDown
  <2> QED BY <1>2, <2>1, <2>2, CountedReturn
<1>7. CASE n = 1
  <2>1. r = <<>>
    <3>1. stack \in Seq(Emits) /\ n - 1 = 0
      BY <1>2, <1>7 DEF Trail
    <3>2. r = SubSeq(stack, 1, 0)
      BY <3>1
    <3> HIDE DEF r
    <3>3. SubSeq(stack, 1, 0) = <<>>
      BY <3>1
    <3> QED BY <3>2, <3>3
  <2>2. ASSUME owned' = Objects PROVE heard = Expected(o, e)
    <3>1. owned = Objects
      BY <1>1, <2>2
    <3>2. (owned = Objects) = TRUE
      BY <3>1
    <3> HIDE DEF e
    <3>3. OnItsWay(stack, o, e, heard, TRUE)
      BY <1>2, <3>2
    <3>4. Len(stack) = 1 /\ stack[1].at > Len(listeners[stack[1].on])
      BY <1>1, <1>2, <1>7
    <3> QED BY <3>3, <3>4, AllIsHeard
  <2>3. owned' = Objects => heard' = Expected(handler'.self, handler'.at = "catch")
    BY <1>1, <2>2
  <2> HIDE DEF r, e
  <2> QED BY <1>1, <1>4, <1>6, <2>1, <2>3, HeardInvRests
<1>8. CASE n # 1
  <2>1. n \notin {0, 1} /\ stack[n].at > Len(listeners[stack[n].on])
    BY <1>1, <1>2, <1>8
  <2>2. Popped(stack, n, r)
    BY <1>2, <2>1, ReturnIsTrail
  <2> HIDE DEF r, e
  <2>3. OnItsWay(r, o, e, heard, owned = Objects)
    BY <1>2, <2>2, ReturnOnItsWay
  <2>4. \E c \in [1 .. Len(r) -> 1 .. DepthLimit] : Counted(r, c, depth')
    BY <1>6, <2>2 DEF Popped
  <2> QED BY <1>1, <1>4, <1>6, <2>3, <2>4, HeardInvRuns
<1> QED BY <1>7, <1>8

LEMMA MismatchKeeps ==
  ASSUME Wired, HeardInv, Mismatch
  PROVE  HeardInv'
<1>1. /\ stack # <<>> /\ stack' = <<>> /\ flying'
      /\ UNCHANGED <<owned, listeners, depth, handler, heard, twice>>
  BY DEF Mismatch, Throw, wireVars, historyVars
<1>2. /\ handler'.at \in {"func", "catch"} /\ handler'.self \in Objects
      /\ (handler'.at = "func" => handler'.emitted)
      /\ owned' \subseteq Objects /\ depth' \in [Objects -> Nat] /\ ~twice'
  BY <1>1, Running
<1> QED BY <1>1, <1>2, HeardInvRests

\* A handler emits: e is whether that is in the catch of run_if_valid.
LEMMA FirstKeeps ==
  ASSUME Wired, HeardInv, NEW e \in BOOLEAN, NEW error \in Seq(Layers), error # NoError,
         handler.self \in Objects, Carries(NewEmit(handler.self, error, <<>>), e),
         stack = <<>>, Emit(<<>>, handler.self, error, <<>>),
         handler' = [handler EXCEPT !.at = IF e THEN "catch" ELSE "func", !.emitted = TRUE],
         handler.at = "func", heard' = {}, ~twice',
         UNCHANGED <<owned, listeners>>
  PROVE  HeardInv'
<1> DEFINE o == handler.self
           f == NewEmit(o, error, <<>>)
           s == Append(<<>>, f)
<1>1. /\ handler'.at = (IF e THEN "catch" ELSE "func") /\ handler'.self = o /\ handler'.emitted
  BY DEF HeardInv, Idle
<1>2. owned \subseteq Objects /\ depth \in [Objects -> Nat]
  BY DEF HeardInv
<1>3. /\ handler'.at \in {"func", "catch"} /\ ((handler'.at = "catch") = e)
      /\ owned' \subseteq Objects
  BY <1>1, <1>2
<1>4. depth' = [depth EXCEPT ![o] = @ + 1] /\ depth' \in [Objects -> Nat]
  BY <1>2 DEF Emit
<1>5. CASE depth[o] >= DepthLimit
  <2>1. stack' = <<>> /\ flying'
    BY <1>5 DEF Emit
  <2> QED BY <1>1, <1>3, <1>4, <2>1, HeardInvRests
<1>6. CASE ~(depth[o] >= DepthLimit)
  <2>1. stack' = s /\ ~flying'
    BY <1>6 DEF Emit, NewEmit
  <2>2. OnItsWay(s, o, e, {}, owned' = Objects) /\ Len(s) = 1 /\ s[1].on = o /\ DOMAIN s = {1}
    <3>1. f.on = o
      BY DEF NewEmit
    <3>2. Carries(f, e)
      OBVIOUS
    <3> HIDE DEF f
    <3>3. f = NewEmit(o, error, <<>>)
      BY DEF f
    <3>4. Trail(s) /\ Len(s) = 1 /\ s[1] = f /\ DOMAIN s = {1}
      BY <3>3, FirstIsTrail
    <3>5. OnItsWay(s, o, e, {}, owned' = Objects)
      BY <3>2, <3>3, FirstOnItsWay
    <3> QED BY <3>1, <3>4, <3>5
  <2> HIDE DEF s
  <2>3. \E c \in [1 .. Len(s) -> 1 .. DepthLimit] : Counted(s, c, depth')
    <3>1. 1 \in 1 .. DepthLimit /\ depth'[o] >= 1
      <4>1. depth[o] \in Nat /\ DepthLimit \in Nat \ {0} /\ depth'[o] = depth[o] + 1
        BY <1>2, <1>4, DelegationAssumption
      <4> QED BY <4>1
    <3> DEFINE c == [i \in 1 .. 1 |-> 1]
    <3>2. c \in [1 .. 1 -> 1 .. DepthLimit] /\ c[1] = 1
      BY <3>1
    <3> HIDE DEF c
    <3>3. Counted(s, c, depth')
      BY <2>2, <3>1, <3>2 DEF Counted
    <3> QED BY <2>2, <3>2, <3>3
  <2> QED BY <1>1, <1>3, <1>4, <2>1, <2>2, <2>3, HeardInvRuns
<1> QED BY <1>5, <1>6

-----------------------------------------------------------------------------
(* The invariant, on top of that for NothingEscapes.                        *)

LEMMA HeardInvInit == Init => HeardInv
<1> SUFFICES ASSUME Init PROVE HeardInv
  OBVIOUS
<1>1. /\ owned = Objects /\ depth = [o \in Objects |-> 0] /\ stack = <<>> /\ handler = Idle
      /\ ~flying /\ ~twice /\ ~Idle.emitted /\ Idle.at = "idle"
  BY DEF Init, Idle
<1>2. HeardAlongEachWay
  BY <1>1 DEF HeardAlongEachWay
<1> QED BY <1>1, <1>2 DEF HeardInv

\* Objects are connected while no handler and no emit runs.
LEMMA ConnectHeard ==
  ASSUME NothingEscapesInv, HeardInv, NEW o, NEW l, Connect(o, l)
  PROVE  HeardInv'
<1>1. /\ stack = <<>> /\ handler = Idle
      /\ UNCHANGED <<owned, depth, stack, handler, heard, twice>>
  BY DEF Connect, NothingEscapesInv, Untouched, historyVars
<1>2. ~twice /\ owned \subseteq Objects /\ depth \in [Objects -> Nat]
  BY DEF HeardInv, HeardAlongEachWay
<1>3. handler' = Idle /\ Idle.at = "idle" /\ ~Idle.emitted
  BY <1>1 DEF Idle
<1>4. handler'.at # "func" /\ ~handler'.emitted
  BY <1>3
<1> QED BY <1>1, <1>2, <1>3, <1>4, HeardInvRests

\* What run_if_valid does besides emitting.
LEMMA HandlerHeard ==
  ASSUME Wired, HeardInv, EmitError \/ FuncThrows \/ Catch \/ Escape \/ Leave
  PROVE  HeardInv'
<1>1. /\ ~twice /\ owned \subseteq Objects /\ depth \in [Objects -> Nat]
      /\ handler = Idle \/ (handler.at \in {"func", "catch"} /\ handler.self \in Objects)
      /\ handler.at = "func" /\ ~handler.emitted => heard = {}
      /\ flying => stack = <<>>
      /\ Idle.at = "idle" /\ ~Idle.emitted
  BY DEF HeardInv, HeardAlongEachWay, Idle
<1>2. CASE EmitError
  <2>1. /\ stack = <<>> /\ handler.at = "func" /\ handler.self \in Objects /\ heard = {}
        /\ UNCHANGED <<owned, listeners, heard, twice>>
        /\ handler' = [handler EXCEPT !.emitted = TRUE]
        /\ Emit(<<>>, handler.self, Plain, <<>>)
    BY <1>1, <1>2 DEF EmitError, InFunc, wireVars
  <2>2. handler' = [handler EXCEPT !.at = IF FALSE THEN "catch" ELSE "func", !.emitted = TRUE]
    <3>1. [handler EXCEPT !.emitted = TRUE] = [handler EXCEPT !.at = "func", !.emitted = TRUE]
      BY <2>1
    <3> QED BY <2>1, <3>1
  <2>3. Carries(NewEmit(handler.self, Plain, <<>>), FALSE) /\ ~twice'
    BY <1>1, <2>1, FirstCarries
  <2> QED BY <2>1, <2>2, <2>3, FirstKeeps, EmittedIsError, Zenon
<1>3. CASE FuncThrows
  <2>1. /\ stack = <<>> /\ flying' /\ UNCHANGED <<owned, listeners, depth, stack, handler, heard, twice>>
    BY <1>3 DEF FuncThrows, InFunc, wireVars, historyVars
  <2> QED BY <1>1, <2>1, HeardInvRests
<1>4. CASE Catch
  <2>1. /\ stack = <<>> /\ handler.at = "func" /\ handler.self \in Objects
        /\ heard' = {} /\ ~twice' /\ UNCHANGED <<owned, listeners>>
        /\ handler' = [handler EXCEPT !.at = "catch", !.emitted = TRUE]
        /\ Emit(<<>>, handler.self, Raised, <<>>)
    BY <1>1, <1>4 DEF Catch, wireVars
  <2>2. handler' = [handler EXCEPT !.at = IF TRUE THEN "catch" ELSE "func", !.emitted = TRUE]
    BY <2>1
  <2>3. Carries(NewEmit(handler.self, Raised, <<>>), TRUE)
    BY <2>1, FirstCarries
  <2> QED BY <2>1, <2>2, <2>3, FirstKeeps, EmittedIsError, Zenon
<1>5. CASE Escape
  <2>1. /\ stack = <<>> /\ handler' = Idle
        /\ UNCHANGED <<owned, listeners, depth, stack, heard, twice>>
    BY <1>1, <1>5 DEF Escape, wireVars, historyVars
  <2> QED BY <1>1, <2>1, HeardInvRests
<1>6. CASE Leave
  <2>1. /\ stack = <<>> /\ handler' = Idle
        /\ UNCHANGED <<owned, listeners, depth, stack, heard, twice>>
    BY <1>6 DEF Leave, wireVars, historyVars
  <2> QED BY <1>1, <2>1, HeardInvRests
<1> QED BY <1>2, <1>3, <1>4, <1>5, <1>6

LEMMA EnterHeard ==
  ASSUME HeardInv, NEW o \in Objects, Enter(o)
  PROVE  HeardInv'
<1>1. /\ handler = Idle /\ handler' = [at |-> "func", self |-> o, emitted |-> FALSE]
      /\ heard' = {} /\ ~twice' /\ UNCHANGED <<owned, depth, stack>>
  BY DEF Enter, wireVars
<1>2. stack = <<>> /\ owned \subseteq Objects /\ depth \in [Objects -> Nat]
  BY <1>1 DEF HeardInv
<1>3. handler'.at = "func" /\ handler'.self = o /\ ~handler'.emitted
  BY <1>1
<1> QED BY <1>1, <1>2, <1>3, HeardInvRests

LEMMA StutterHeard ==
  ASSUME Wired, HeardInv, UNCHANGED vars
  PROVE  HeardInv'
<1>1. UNCHANGED <<owned, listeners, depth, stack, handler, flying, heard, twice>>
  BY DEF vars, wireVars, historyVars
<1>2. CASE stack # <<>>
  <2>1. PICK d \in [1 .. Len(stack) -> 1 .. DepthLimit] : Counted(stack, d, depth)
    BY <1>2, Running
  <2>2. Counted(stack, d, depth')
    BY <1>1, <2>1 DEF Counted
  <2> DEFINE e == handler.at = "catch"
             o == handler.self
  <2>3. OnItsWay(stack, o, e, heard, owned = Objects)
    BY <1>2, Running
  <2>4. /\ handler'.at \in {"func", "catch"} /\ (handler'.at = "func" => handler'.emitted)
        /\ owned' \subseteq Objects /\ depth' \in [Objects -> Nat] /\ ~twice' /\ ~flying'
        /\ (owned' = Objects) = (owned = Objects) /\ (handler'.at = "catch") = e
        /\ handler'.self = o /\ heard' = heard /\ stack' = stack
    BY <1>1, <1>2, Running
  <2> HIDE DEF e
  <2> QED BY <1>1, <2>2, <2>3, <2>4, HeardInvRuns
<1>3. CASE stack = <<>>
  <2>1. /\ ~twice' /\ owned' \subseteq Objects /\ depth' \in [Objects -> Nat] /\ stack' = <<>>
        /\ handler' = Idle \/ (handler'.at \in {"func", "catch"} /\ handler'.self \in Objects)
        /\ handler'.at = "func" /\ ~handler'.emitted => heard' = {}
    BY <1>1, <1>3 DEF HeardInv, HeardAlongEachWay
  <2>2. ~flying' /\ handler'.emitted /\ owned' = Objects =>
          heard' = Expected(handler'.self, handler'.at = "catch")
    <3>1. ~flying /\ handler.emitted /\ owned = Objects =>
            heard = Expected(handler.self, handler.at = "catch")
      BY <1>3 DEF HeardInv, HeardAlongEachWay
    <3> QED BY <1>1, <3>1
  <2> QED BY <1>1, <2>1, <2>2, HeardInvRests
<1> QED BY <1>2, <1>3

LEMMA HeardInvNext == NothingEscapesInv /\ HeardInv /\ [Next]_vars => HeardInv'
<1> SUFFICES ASSUME NothingEscapesInv, HeardInv, [Next]_vars PROVE HeardInv'
  OBVIOUS
<1>1. Wired
  BY DEF NothingEscapesInv
<1>2. CASE \E o \in Objects : OnError(o) \/ Enter(o)
  BY <1>2, ConnectHeard, EnterHeard DEF OnError
<1>3. CASE \E o, to \in Objects : OnErrorTo(o, to) \/ DelegateTo(o, to)
  BY <1>3, ConnectHeard DEF OnErrorTo, DelegateTo
<1>4. CASE Deliver
  BY <1>1, <1>4, HearKeeps, PassOnKeeps, DelegateKeeps, MismatchKeeps, ReturnKeeps DEF Deliver
<1>5. CASE EmitError \/ FuncThrows \/ Catch \/ Escape \/ Leave
  BY <1>1, <1>5, HandlerHeard
<1>6. CASE UNCHANGED vars
  BY <1>1, <1>6, StutterHeard
<1> QED BY <1>2, <1>3, <1>4, <1>5, <1>6 DEF Next

\* Whatever objects are connected how, in loops too, and whatever listeners throw
\* or let go: an error is heard at the end of every way of on_error listeners
\* from its object to a listener of the program, once each, and nowhere behind a
\* delegate_to.  It comes wrapped as often as it was passed on, without what an
\* earlier listener took from it, and with the exception that run_if_valid
\* caught, where nobody took it.  When an emit that threw nowhere returns and all
\* objects are still there, nothing is left out.
THEOREM ErrorsAreHeard == Spec => []HeardAlongEachWay
<1>1. HeardInv => HeardAlongEachWay
  BY DEF HeardInv
<1>2. Init => NothingEscapesInv /\ HeardInv
  BY NothingEscapesInvInit, HeardInvInit
<1>3. NothingEscapesInv /\ HeardInv /\ [Next]_vars => NothingEscapesInv' /\ HeardInv'
  BY NothingEscapesInvNext, HeardInvNext
<1> QED BY <1>1, <1>2, <1>3, PTL DEF Spec

=============================================================================
