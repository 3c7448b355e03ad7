-------------------------------- MODULE Join --------------------------------
(***************************************************************************)
(* What a processing element promises: it pairs the n-th tokens of its     *)
(* operand streams, and the results of the pairs that its control mode     *)
(* keeps leave it in that order.  Nothing is lost on the way in or out,    *)
(* nothing is paired twice, and what is inside is bounded.                 *)
(***************************************************************************)
EXTENDS Control, Sequences

CONSTANT OutDepth                \* of the buffer before the output

InCapacity == config.inDepth + 1  \* a buffer and a wire
OutCapacity == AluDepth + OutDepth

VARIABLES inq,       \* per operand port: accepted, not yet paired
          outq,      \* results that have not left
          broken     \* skipping to the end of a loop

vars == <<config, inq, outq, broken>>

Init == config \in Configs /\ inq = [p \in Operand |-> << >>] /\ outq = << >> /\ broken = FALSE

Put(p, tok) ==
  /\ Len(inq[p]) < InCapacity
  /\ inq' = [inq EXCEPT ![p] = Append(@, tok)]
  /\ UNCHANGED <<config, outq, broken>>

(* One set of operands is paired, and the result kept or dropped.           *)
Pair ==
  /\ \A p \in Operand : inq[p] # << >>
  /\ inq' = [p \in Operand |-> Tail(inq[p])]
  /\ LET args == [p \in Operand |-> Head(inq[p])]
     IN  /\ broken' = BrokenAfter(args, broken)
         /\ outq' = IF Dropped(args, broken) THEN outq ELSE Append(outq, Result(args))
         /\ Len(outq') <= OutCapacity
  /\ UNCHANGED config

Get ==
  /\ outq # << >>
  /\ outq' = Tail(outq)
  /\ UNCHANGED <<config, inq, broken>>

Next == Pair \/ Get \/ \E p \in Operand : \E tok \in config.sent[p] : Put(p, tok)

Spec == Init /\ [][Next]_vars
=============================================================================
