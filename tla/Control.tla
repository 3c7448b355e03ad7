------------------------------- MODULE Control -------------------------------
(***************************************************************************)
(* What a processing element makes of one set of operands: the control     *)
(* modes of getAluInput and the flags gatherOperands and Pealu put on the  *)
(* result (src/src/sim/Node/PE.cpp, src/src/sim/module/module.cpp).        *)
(*                                                                         *)
(* Operand port 2 carries the control operand.  A token whose condition is *)
(* false is a hole in the stream that only keeps its place; last marks the *)
(* end of a loop.                                                          *)
(***************************************************************************)
EXTENDS Naturals

CONSTANTS Value,         \* the data a token may carry; 0 is false
          Alu(_),        \* what the opcode computes from the operands
          Configs        \* the configurations of the element

(* A configuration: the ports operands are taken from, the control mode,   *)
(* the depth of the ALU (and but for null delay, of the opcode), is the    *)
(* opcode mul, the depth of the input buffers, and the tokens the upstream  *)
(* of each port sends.                                                      *)
ASSUME ValueAssumption == 0 \in Value
ASSUME ConfigAssumption ==
  \A c \in Configs :
    /\ c.operand \subseteq 0 .. 2 /\ 1 \in c.operand
    /\ c.mode \in {"data_flow", "cb", "cinvb", "break_pre", "break_post", "continue_"}
    /\ c.mode # "data_flow" => 2 \in c.operand
    /\ c.depth \in Nat /\ c.inDepth \in Nat \ {0} /\ c.mul \in BOOLEAN
    /\ c.mul => c.depth = 3

VARIABLE config          \* the configuration of this element; it never changes

Operand == config.operand
ControlMode == config.mode
AluDepth == config.depth
IsMul == config.mul

Token == [value : Value, condition : BOOLEAN, last : BOOLEAN]

(* alu_flag: the end of the loop on any operand ends the loop of the result. *)
IsLast(args) == \E p \in Operand : args[p].last

(* rs_cd: a false condition on any operand, or one decided by the control   *)
(* operand in the two conditional modes.                                    *)
IsHole(args) ==
  \/ \E p \in Operand : ~args[p].condition
  \/ ControlMode = "cb" /\ args[2].value = 0
  \/ ControlMode = "cinvb" /\ args[2].value # 0

(* The control operand asks for a break or a continue.                      *)
Asks(args) == args[2].value # 0 /\ ~args[2].last

(* oprand_collected is false: the operands are dropped.  In break_state     *)
(* everything is, up to the operands that end the loop.                     *)
Dropped(args, broken) ==
  IF broken THEN ~IsLast(args)
            ELSE ControlMode \in {"break_post", "continue_"} /\ Asks(args)

(* break_state after the operands: breakoccur sets it, the last resets it.  *)
BrokenAfter(args, broken) ==
  IF broken THEN ~IsLast(args)
            ELSE ControlMode \in {"break_pre", "break_post"} /\ Asks(args)

(* The token that leaves the ALU.  Holes and ends carry the second operand. *)
Result(args) ==
  [value     |-> IF IsHole(args) \/ IsLast(args) THEN args[1].value ELSE Alu(args),
   condition |-> ~IsHole(args),
   last      |-> IsLast(args)]
=============================================================================
