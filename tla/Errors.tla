-------------------------------- MODULE Errors --------------------------------
(***************************************************************************)
(* Error: what went wrong as named values, with a child error, the child's  *)
(* child and so on.  An error is the sequence of these layers, its own the  *)
(* first; a layer is the names in the order they were added, whether it is  *)
(* frozen, and whether it holds an exception.                               *)
(***************************************************************************)
LOCAL INSTANCE Naturals
LOCAL INSTANCE Sequences
LOCAL INSTANCE FiniteSetsExt

NoError == <<>>   \* thrown instead of one, or emitted without one

Layer(keys, exception) ==
  <<[keys |-> keys, frozen |-> FALSE, exception |-> exception]>>

NewError == Layer(<<"description">>, FALSE)
CodeError == Layer(<<"description", "message", "category", "error_code">>, FALSE)
ExceptionError == Layer(<<"description">>, TRUE)

\* What is left of an error that was moved from.
Left(error) == <<[keys |-> <<>>, frozen |-> error[1].frozen, exception |-> FALSE]>>

\* Adding to a frozen error throws.  Only the layer itself is frozen.
Frozen(error) == error = NoError \/ error[1].frozen
Freeze(error) == [error EXCEPT ![1].frozen = TRUE]

Add(error, key) ==
  IF Frozen(error) THEN NoError ELSE [error EXCEPT ![1].keys = Append(@, key)]

\* A copy has copies of the children, and of pointers to the same exceptions.
Copy(error) == error

AddChild(error, child) ==
  IF Frozen(error) THEN NoError ELSE <<Freeze(error)[1]>> \o Copy(child)

\* get: the place of the first value of that name; it throws if there is none.
CanGet(error, key) == \E i \in DOMAIN error[1].keys : error[1].keys[i] = key
Get(error, key) == Min({i \in DOMAIN error[1].keys : error[1].keys[i] = key})

HasException(error) == \E i \in DOMAIN error : error[i].exception

\* throw_exception throws the innermost exception and keeps the others.
Innermost(error) == Max({i \in DOMAIN error : error[i].exception})
ThrowException(error) ==
  IF HasException(error) THEN [error EXCEPT ![Innermost(error)].exception = FALSE]
  ELSE error

\* to_string: the layers that it shows, up to one that has no description.
Described(layer) == \E i \in DOMAIN layer.keys : layer.keys[i] = "description"
Shown(error) ==
  {i \in DOMAIN error : \A j \in 1 .. i : Described(error[j])}

-----------------------------------------------------------------------------
(* What the variants of emit_error emit.                                    *)

Plain == Add(NewError, "where")
Coded == Add(CodeError, "where")
Raised == Add(ExceptionError, "where")

\* An error passed on: what it comes with becomes the child of a new one.
Wrap(child) == AddChild(Add(Add(NewError, "derived_error"), "where"), child)

-----------------------------------------------------------------------------
(* What holds of an error however it was put together, here from up to      *)
(* three emissions.                                                         *)

Emitted == {Plain, Coded, Raised}
Wrapped == {Wrap(child) : child \in Emitted}
Chains == Emitted \cup Wrapped \cup {Wrap(child) : child \in Wrapped}

\* Wrapping an error loses nothing: all that it showed is shown below, and its
\* exception can be thrown, once.
ASSUME WrappingKeeps ==
  \A error \in Chains :
    /\ Shown(Wrap(error)) = {1} \cup {i + 1 : i \in Shown(error)}
    /\ HasException(Wrap(error)) = HasException(error)
    /\ ~HasException(ThrowException(Wrap(error)))

\* Nobody that gets an error with a child can add to it: neither a name nor a
\* second child.
ASSUME WrappedIsFrozen ==
  \A error \in Chains :
    /\ Add(Wrap(error), "where") = NoError
    /\ AddChild(Wrap(error), Plain) = NoError

\* What wraps an error that was moved from shows itself and nothing below.
ASSUME LeftIsInvalid ==
  \A error \in Chains :
    /\ Shown(Left(error)) = {} /\ ~CanGet(Left(error), "description")
    /\ Shown(Wrap(Left(error))) = {1} /\ ~HasException(Wrap(Left(error)))

=============================================================================
