---------------------------- MODULE CountedNest ----------------------------
(***************************************************************************)
(* What two nested loop controllers promise: the body gets the iterations  *)
(* of the inner loop once for every iteration of the outer one, in order,  *)
(* each inner loop closed by a last, and one hole for the end of the outer *)
(* loop.  A loop that can be broken may get its last before the bound.     *)
(***************************************************************************)
EXTENDS Integers

CONSTANTS OuterInitial, OuterBound, OuterStep,
          InnerInitial, InnerBound, InnerStep,
          Free

VARIABLES i, j,     \* the iteration to come
          over,     \* there is none
          wire,     \* to the body
          breakable \* can the inner loop be broken?  it never changes

vars == <<i, j, over, wire, breakable>>

Token(a, b) ==
  IF a < OuterBound
  THEN [value |-> b, condition |-> TRUE, last |-> b >= InnerBound]
  ELSE [value |-> InnerInitial, condition |-> FALSE, last |-> TRUE]

Init == i = OuterInitial /\ j = InnerInitial /\ ~over /\ wire = Free /\ breakable \in BOOLEAN

Advance(last) ==
  /\ i' = IF last /\ i < OuterBound THEN i + OuterStep ELSE i
  /\ j' = IF last THEN InnerInitial ELSE j + InnerStep
  /\ over' = (i >= OuterBound)

Emit == wire' = Token(i, j)

(* The value of a last that breaks a loop says nothing.                     *)
Break ==
  /\ breakable /\ i < OuterBound /\ j # InnerInitial
  /\ wire' # Free /\ wire'.condition /\ wire'.last

Send == ~over /\ wire = Free /\ (Emit \/ Break) /\ Advance(wire'.last) /\ UNCHANGED breakable

Clear == wire # Free /\ wire' = Free /\ UNCHANGED <<i, j, over, breakable>>

Next == Send \/ Clear

Spec == Init /\ [][Next]_vars
=============================================================================
