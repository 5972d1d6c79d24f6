---- MODULE Expected ----
(***************************************************************************)
(* A value or an error code (include/etcpal/cpp/error.h).  The storage is  *)
(* a flag and a union, whose members it neither constructs nor destructs   *)
(* by itself: the constructors and the destructor of Expected do.          *)
(*                                                                         *)
(* Objects of two value types are modelled, T and a U that converts to T.  *)
(* A constructor of T that throws leaves no Expected and no value behind,  *)
(* which is no step of the model.                                          *)
(***************************************************************************)
EXTENDS Integers

CONSTANTS Ts, Us,       \* the Expected<T>s and the Expected<U>s of the program
          Values,       \* of T and of U
          Converted,    \* the value of T that a value of U converts to
          Codes,        \* of etcpal_error_t
          MovedFrom,    \* what a move may leave of a value
          None

VARIABLES storage,  \* the memory of each object
          means     \* what the documentation says it is: a value, an error, nothing yet

vars == <<storage, means>>

Objects == Ts \cup Us

Contents == Values \cup {MovedFrom}

\* values: how many times a value was constructed there less how many it was destructed.
Storage ==
  [alive : BOOLEAN, has_value : BOOLEAN, member : {"none", "value", "error"},
   held : Contents \cup Codes \cup {None}, values : -1 .. 1]

Value(v) == [is |-> "value", of |-> v]
Error(e) == [is |-> "error", of |-> e]
Nothing == [is |-> "nothing", of |-> None]

Cell(alive, has_value, member, held, values) ==
  [alive |-> alive, has_value |-> has_value, member |-> member, held |-> held, values |-> values]

Memory == Cell(FALSE, FALSE, "none", None, 0)

TypeOK ==
  /\ storage \in [Objects -> Storage]
  /\ means \in [Objects -> {Value(v) : v \in Contents} \cup {Error(e) : e \in Codes} \cup {Nothing}]

Init ==
  /\ storage = [x \in Objects |-> Memory]
  /\ means = [x \in Objects |-> Nothing]

----
(* The storage. *)
Contained(has_value) == Cell(TRUE, has_value, "none", None, 0)

ConstructValue(o, v) == Cell(o.alive, o.has_value, "value", v, o.values + 1)

SetError(o, e) == Cell(o.alive, o.has_value, "error", e, o.values)

DestructValue(o) == Cell(o.alive, o.has_value, "none", None, o.values - 1)

\* A read of the member that is not in use finds no value of its type.
Read(o, member) == IF o.member = member THEN o.held ELSE None

\* A storage made from another, whose value becomes the one as gives for it.
CopyOf(other, as) ==
  LET o == Contained(other.has_value)
  IN IF o.has_value
     THEN ConstructValue(o, as[Read(other, "value")])
     ELSE SetError(o, Read(other, "error"))

\* Of the type it has already, and of T when it was of U; a value that was moved
\* away is still a value, and converts to one.
Same == [v \in Contents |-> v]
AsT == [v \in Contents |-> IF v = MovedFrom THEN MovedFrom ELSE Converted[v]]

----
(***************************************************************************)
(* Construction.                                                           *)
(***************************************************************************)
IsNew(x) == ~storage[x].alive

Make(x, o, m) ==
  /\ IsNew(x)
  /\ storage' = [storage EXCEPT ![x] = o]
  /\ means' = [means EXCEPT ![x] = m]

Default(x, v) == Make(x, ConstructValue(Contained(TRUE), v), Value(v))

FromValue(x, v) == Make(x, ConstructValue(Contained(TRUE), v), Value(v))

\* An Expected may be made from any code, kEtcPalErrOk too: it has no value then.
FromError(x, e) == Make(x, SetError(Contained(FALSE), e), Error(e))

\* What the documentation of the copy and move constructors says of the new object.
Meaning(other, as) ==
  IF means[other].is = "value" THEN Value(as[means[other].of]) ELSE means[other]

CopyFrom(x, other, as) ==
  /\ storage[other].alive
  /\ Make(x, CopyOf(storage[other], as), Meaning(other, as))

\* The source of a move keeps its flag: it has a value still, the one that T's own
\* move constructor leaves.
MoveFrom(x, other, as) ==
  /\ storage[other].alive /\ IsNew(x)
  /\ \E left \in {Read(storage[other], "value"), MovedFrom} :
       LET source == IF storage[other].has_value
                     THEN [storage[other] EXCEPT !.held = left]
                     ELSE storage[other]
       IN /\ storage' = [storage EXCEPT ![x] = CopyOf(storage[other], as), ![other] = source]
          /\ means' = [means EXCEPT ![x] = Meaning(other, as),
                                    ![other] = IF @.is = "value" THEN Value(left) ELSE @]

Copy(x, other) == (x \in Ts <=> other \in Ts) /\ CopyFrom(x, other, Same)
Move(x, other) == (x \in Ts <=> other \in Ts) /\ MoveFrom(x, other, Same)
ConvertingCopy(x, other) == x \in Ts /\ other \in Us /\ CopyFrom(x, other, AsT)
ConvertingMove(x, other) == x \in Ts /\ other \in Us /\ MoveFrom(x, other, AsT)

(* Destruction; the memory is then another object's. *)
Gone(o) == Cell(FALSE, FALSE, "none", None, o.values)

\* The mutant destructs a value that was never constructed.
DestroyAlways(x) ==
  /\ storage[x].alive
  /\ storage' = [storage EXCEPT ![x] = Gone(DestructValue(@))]
  /\ means' = [means EXCEPT ![x] = Nothing]

Destroy(x) ==
  /\ storage[x].alive
  /\ storage' = [storage EXCEPT ![x] = IF @.has_value THEN Gone(DestructValue(@)) ELSE Gone(@)]
  /\ means' = [means EXCEPT ![x] = Nothing]

Next ==
  \E x \in Objects :
    \/ \E v \in Values : FromValue(x, v)
    \/ Default(x, CHOOSE v \in Values : TRUE)
    \/ \E e \in Codes : FromError(x, e)
    \/ \E other \in Objects \ {x} :
         Copy(x, other) \/ Move(x, other) \/ ConvertingCopy(x, other) \/ ConvertingMove(x, other)
    \/ Destroy(x)

Spec == Init /\ [][Next]_vars

----
(***************************************************************************)
(* What an Expected answers.                                               *)
(***************************************************************************)
has_value(x) == storage[x].has_value

value(x) ==
  IF has_value(x) THEN Value(Read(storage[x], "value"))
                  ELSE [is |-> "BadExpectedAccess", of |-> Read(storage[x], "error")]

value_or(x, def_val) == IF has_value(x) THEN Read(storage[x], "value") ELSE def_val

\* Both assert what they need; without it they may not be called.
Star(x) == Read(storage[x], "value")
error_code(x) == Read(storage[x], "error")

Equal(x, y) ==
  IF has_value(x) # has_value(y) THEN FALSE
  ELSE IF ~has_value(x) THEN error_code(x) = error_code(y)
  ELSE Star(x) = Star(y)

EqualValue(x, v) == IF has_value(x) THEN Star(x) = v ELSE FALSE
EqualCode(x, e) == IF ~has_value(x) THEN error_code(x) = e ELSE FALSE

----
(* An object is constructed with its value and destructed with it: a value is alive *)
(* in the memory of an Expected exactly while the Expected is and says it has one.  *)
ValuesLiveOnce ==
  \A x \in Objects :
    storage[x].values = (IF storage[x].alive /\ has_value(x) THEN 1 ELSE 0)

(* Whatever it was made from, and moved to since, an Expected answers every question *)
(* as the value or the code it stands for does, and two are equal when those are.    *)
AnswersAsItMeans ==
  \A x \in Objects : storage[x].alive =>
    LET m == means[x] IN
    /\ has_value(x) <=> m.is = "value"
    /\ value(x) = (IF m.is = "value" THEN m ELSE [is |-> "BadExpectedAccess", of |-> m.of])
    /\ \A v \in Contents : /\ value_or(x, v) = (IF m.is = "value" THEN m.of ELSE v)
                           /\ EqualValue(x, v) <=> m = Value(v)
    /\ \A e \in Codes : EqualCode(x, e) <=> m = Error(e)
    /\ \A y \in Objects : storage[y].alive => (Equal(x, y) <=> m = means[y])

\* Both of them: what a function that returns an Expected relies on.
ValueOrError == ValuesLiveOnce /\ AnswersAsItMeans

----
\* A value of U converts to one of T, and there is one to begin with.
ExpectedAssumption == Values # {} /\ Converted \in [Values -> Values]

HoldsValue(v) == Cell(TRUE, TRUE, "value", v, 1)
HoldsError(e) == Cell(TRUE, FALSE, "error", e, 0)

\* The memory of an object is nobody's, or is just what the documentation says.
MemoryIs(o, m) ==
  \/ o = Memory /\ m = Nothing
  \/ \E v \in Contents : o = HoldsValue(v) /\ m = Value(v)
  \/ \E e \in Codes : o = HoldsError(e) /\ m = Error(e)

ExpectedInv == TypeOK /\ \A x \in Objects : MemoryIs(storage[x], means[x])
====
