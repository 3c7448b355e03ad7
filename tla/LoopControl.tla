---------------------------- MODULE LoopControl ----------------------------
(***************************************************************************)
(* A loop controller (src/src/sim/Node/LC.cpp) as operators on its state.  *)
(* Register 0 holds the iteration of the enclosing loop for which this one *)
(* runs; initial value, bound and step are configured.  One update is      *)
(* simStep3, which takes a value out of muxout_buffer, steps and compares  *)
(* it and decides about the end of the whole nest, simStep2, which puts    *)
(* the first or the next value in, and simStep1, which takes a new         *)
(* iteration.  Tokens that come back from the end of the data flow arrive  *)
(* at the end ports.                                                       *)
(*                                                                         *)
(* End ports up to 3 carry the ends of the data flow, those from 4 on the   *)
(* comparisons that may break the loop.                                     *)
(* The members df_cnt, break_cnt and end_innum have no initialiser; this   *)
(* is the program when the memory they lie in is zero.                     *)
(***************************************************************************)
EXTENDS Integers

CONSTANTS Initial, Bound, Step,   \* reg[1], reg[2], reg[3]
          Outermost,
          BufferDepth,            \* lc_buffer_depth
          EndPort,                \* the connected end ports
          Free                    \* no token

(* A bound of zero or less is met by an empty wire, whose value is 0.       *)
LoopAssumption ==
  /\ Initial \in Nat /\ Bound \in Nat \ {0} /\ Step \in Nat \ {0}
  /\ Outermost \in BOOLEAN /\ BufferDepth \in Nat \ {0} /\ 0 \in EndPort
  /\ Free \notin [value : Nat, condition : BOOLEAN, last : BOOLEAN]

(* The last of a loop that is broken may be worth less than Initial.        *)
Token == [value : 0 .. (Initial + Bound + Step), condition : BOOLEAN, last : BOOLEAN]

(* end_innum counts the connected ports up to 3.                            *)
DfgEnd    == EndPort \cap 0 .. 3
BreakPort == EndPort \ DfgEnd

B == INSTANCE Ring WITH Depth <- BufferDepth

StateType ==
  [reg0       : [value : Nat, condition : BOOLEAN, last : BOOLEAN] \cup {Free},
   first_loop : BOOLEAN,
   buffer     : B!RingType,
   end_reg    : [EndPort -> [valued : BOOLEAN, last : BOOLEAN]],
   end_flag   : [DfgEnd -> BOOLEAN],
   df_cnt     : Nat, break_cnt : Nat,   \* loops under way
   last_flag  : BOOLEAN]

(* The constructor.                                                         *)
Start ==
  [reg0 |-> Free, first_loop |-> TRUE, buffer |-> B!EmptyRing,
   end_reg |-> [e \in EndPort |-> [valued |-> FALSE, last |-> FALSE]],
   end_flag |-> [e \in DfgEnd |-> FALSE], df_cnt |-> 0, break_cnt |-> 0, last_flag |-> Outermost]

(* Mutation: the consumers of the iteration are not asked.                  *)
BpOkInner(bp) == bp[1]

(* bpok: nothing goes on unless all outputs have credit.                    *)
BpOk(bp) == \A port \in DOMAIN bp : bp[port]

(* bufferout: what simStep3 takes out of the buffer.                        *)
BufferOut(c, bp) == IF BpOk(bp) THEN B!Front(c.buffer) ELSE Free

(* The value has met the bound, or ends the loop for another reason.        *)
Over(out) == out # Free /\ (out.last \/ out.value >= Bound)

(* lc_output[1].                                                            *)
Iteration(out) == IF out = Free THEN Free ELSE [out EXCEPT !.last = Over(out)]

(* stepout; the value is computed of an empty wire, too.                    *)
StepValue(out) == IF out = Free THEN Step ELSE out.value + Step

StepOut(out) ==
  IF out = Free \/ Over(out)
  THEN Free
  ELSE [value |-> StepValue(out), condition |-> TRUE, last |-> FALSE]

(* Register 0 after the comparison: the loop that is over makes room.       *)
RegAfter(c, out) == IF Over(out) THEN Free ELSE c.reg0

(* Every end port has delivered a last; the flag stays until it is used,    *)
(* and the end register behind it is never cleared.                         *)
EndFlags(c) == [e \in DfgEnd |-> c.end_flag[e] \/ c.end_reg[e].last]

LastFlag(c, reg0) == c.last_flag \/ (reg0 # Free /\ reg0.last)

(* Mutations: the iterations under way do not count; the register alone     *)
(* decides, not the flag that remembers it.                                 *)
EndSignalEarly(c, bp) ==
  LET reg0 == RegAfter(c, BufferOut(c, bp))
  IN  LastFlag(c, reg0) /\ \A e \in DfgEnd : EndFlags(c)[e]

EndSignalForgets(c, bp) ==
  LET reg0 == RegAfter(c, BufferOut(c, bp))
  IN  /\ reg0 # Free /\ reg0.last
      /\ (\A e \in DfgEnd : EndFlags(c)[e]) /\ c.df_cnt = 0

(* lc_output[3].valid: the last iteration of the enclosing loop has come    *)
(* and everything started has come back.                                    *)
EndSignal(c, bp) ==
  LET reg0 == RegAfter(c, BufferOut(c, bp))
  IN  /\ LastFlag(c, reg0)
      /\ \A e \in DfgEnd : EndFlags(c)[e]
      /\ c.df_cnt = 0

SimStep3(c, bp) ==
  LET out  == BufferOut(c, bp)
      reg0 == RegAfter(c, out)
      end  == EndSignal(c, bp)
  IN  [c EXCEPT !.buffer = IF out = Free THEN @ ELSE B!Reset(@),
                !.reg0 = reg0,
                !.last_flag = LastFlag(c, reg0) /\ ~end,
                !.end_flag = [e \in DfgEnd |-> EndFlags(c)[e] /\ ~end]]

(* muxout for the first value.  An iteration that is a hole, or the end of  *)
(* the enclosing loop, makes one token that is both.                        *)
First(reg0) ==
  LET skip == ~reg0.condition \/ reg0.last
  IN  [value |-> Initial, condition |-> ~skip, last |-> skip]

(* break_end, with no loop whose end has come back on one side only.  The   *)
(* comparison stays in the register until the next one.                     *)
BreakEnd(c) == (\E e \in BreakPort : c.end_reg[e].valued) /\ c.df_cnt = c.break_cnt

(* muxout.                                                                  *)
Mux(c, out) ==
  IF c.reg0 = Free THEN Free
  ELSE IF c.first_loop THEN First(c.reg0)
  ELSE IF BreakEnd(c) THEN [value |-> StepValue(out), condition |-> TRUE, last |-> TRUE]
  ELSE StepOut(out)

(* The next value waits in the buffer for the next simStep3.                *)
SimStep2(c, out) ==
  LET stored == Mux(c, out) # Free /\ B!NotFull(c.buffer)
  IN  [c EXCEPT !.buffer = IF stored THEN B!Input(@, Mux(c, out)) ELSE @,
                !.first_loop = @ /\ ~stored]

(* regInput on port 0.                                                      *)
RegInput(c, tok) ==
  IF tok = Free
  THEN c
  ELSE [c EXCEPT !.reg0 = tok, !.first_loop = TRUE,
                 !.df_cnt = IF Outermost THEN @ ELSE @ + 1,
                 !.break_cnt = IF Outermost THEN @ ELSE @ + 1]

Update(c, bp, tok) == RegInput(SimStep2(SimStep3(c, bp), BufferOut(c, bp)), tok)

EndReg(c, toks) ==
  [e \in EndPort |-> IF toks[e] = Free
                     THEN c.end_reg[e]
                     ELSE [valued |-> toks[e].value # 0, last |-> toks[e].last]]

Ended(toks, e) == ~Outermost /\ e \in EndPort /\ toks[e] # Free /\ toks[e].last

(* Mutation: every token on port 0 counts as the end of a loop.             *)
EndInputAll(c, toks) ==
  [c EXCEPT !.end_reg = EndReg(c, toks),
            !.df_cnt = IF ~Outermost /\ toks[0] # Free THEN @ - 1 ELSE @]

(* endInput, on every end port that has a token.                            *)
EndInput(c, toks) ==
  [c EXCEPT !.end_reg = EndReg(c, toks),
            !.df_cnt = IF Ended(toks, 0) THEN @ - 1 ELSE @,
            !.break_cnt = IF Ended(toks, 4) THEN @ - 1 ELSE @]

(* Mutation: an iteration is accepted while another one runs.               *)
GetBpAlways(c) == TRUE

(* Creditbp_reg of register 0.                                              *)
GetBp(c) == c.reg0 = Free
=============================================================================
