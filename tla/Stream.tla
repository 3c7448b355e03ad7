------------------------------- MODULE Stream -------------------------------
(***************************************************************************)
(* What every connection of the array promises: an ordered, lossless,      *)
(* bounded stream of tokens between the node that sends them and the node  *)
(* that consumes them.  Nothing sent is dropped, duplicated, overtaken or  *)
(* altered.  The detailed modules are shown to implement this one.         *)
(***************************************************************************)
EXTENDS Naturals, Sequences

CONSTANTS Capacity,   \* most tokens under way at a time
          Token

VARIABLE q            \* sent and not yet consumed, oldest first

TypeOK == q \in Seq(Token) /\ Len(q) <= Capacity

Init == q = << >>

Put(tok) == Len(q) < Capacity /\ q' = Append(q, tok)

Get == q # << >> /\ q' = Tail(q)

Next == Get \/ \E tok \in Token : Put(tok)

Spec == Init /\ [][Next]_q
=============================================================================
