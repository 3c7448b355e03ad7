-------------------------- MODULE ProcessingElement --------------------------
(***************************************************************************)
(* A processing element (src/src/sim/Node/PE.cpp) whose operands come from *)
(* its input buffers and whose result leaves through its output buffer, in *)
(* the inbuffer_stall mode.  One update is simStep3, simStep2, simStep1    *)
(* and simBp, in that order; between two updates the upstream nodes put    *)
(* tokens on the input ports they hold credit for.                         *)
(*                                                                         *)
(* Pebp grants credit even on a full port when it expects the element to   *)
(* take operands in the next cycle.  Whether that promise is kept is what  *)
(* this module is about.                                                   *)
(***************************************************************************)
EXTENDS Control, Sequences

CONSTANTS Free,          \* no token
          OutDepth

ASSUME PEAssumption ==
  /\ OutDepth \in Nat \ {0} /\ Free \notin Token
  /\ \A c \in Configs : c.sent \in [c.operand -> SUBSET Token]
ASSUME AluAssumption ==
  \A c \in Configs : \A args \in [c.operand -> Token] : Alu(args) \in Value

In  == INSTANCE Ring WITH Depth <- config.inDepth
Out == INSTANCE Ring WITH Depth <- OutDepth

VARIABLES pc,            \* the next step of the element
          inbuf,         \* inbuffer, one ring per operand port
          input_port,    \* the wires from upstream
          thispe_bp,     \* credit, as the upstream holds it in this cycle
          pipeline,      \* the transactions in the ALU, oldest first
          break_state,
          stall_one,     \* never initialised by the constructor
          outbuf         \* outbuffer

vars == <<config, pc, inbuf, input_port, thispe_bp, pipeline, break_state, stall_one, outbuf>>

Transaction == [result : Token, cycle : 0 .. AluDepth - 1]

TypeOK ==
  /\ config \in Configs
  /\ pc \in {"simStep3", "simStep2", "simStep1"}
  /\ inbuf \in [Operand -> In!RingType] /\ outbuf \in Out!RingType
  /\ input_port \in [Operand -> Token \cup {Free}]
  /\ thispe_bp \in [Operand -> BOOLEAN]
  /\ pipeline \in Seq(Transaction) /\ Len(pipeline) <= AluDepth
  /\ break_state \in BOOLEAN /\ stall_one \in BOOLEAN

(* The upstream's next_bp is constructed true.                              *)
Init ==
  /\ config \in Configs
  /\ pc = "simStep3"
  /\ inbuf = [p \in Operand |-> In!EmptyRing]
  /\ input_port = [p \in Operand |-> Free]
  /\ thispe_bp = [p \in Operand |-> TRUE]
  /\ pipeline = << >>
  /\ break_state = FALSE
  /\ stall_one \in BOOLEAN
  /\ outbuf = Out!EmptyRing

-----------------------------------------------------------------------------
(* An upstream node, updated earlier in the cycle, sends.                   *)
Arrive(p, tok) ==
  /\ pc = "simStep3"
  /\ thispe_bp[p] /\ input_port[p] = Free
  /\ input_port' = [input_port EXCEPT ![p] = tok]
  /\ UNCHANGED <<config, pc, inbuf, thispe_bp, pipeline, break_state, stall_one, outbuf>>

(* outBufferSend: with the downstream's credit the oldest result leaves.    *)
SimStep3(next_bp) ==
  /\ pc = "simStep3" /\ pc' = "simStep2"
  /\ outbuf' = IF next_bp THEN Out!Reset(outbuf) ELSE outbuf
  /\ UNCHANGED <<config, inbuf, input_port, thispe_bp, pipeline, break_state, stall_one>>

(* Mutation: one cycle more than the delay.                                 *)
ReadyLate == pipeline # << >> /\ Head(pipeline).cycle = AluDepth

(* compute: the oldest transaction has spent its delay in the ALU.          *)
Ready == pipeline # << >> /\ Head(pipeline).cycle = AluDepth - 1

(* Mutation: the transactions behind a front that must wait go on.          *)
ClockedBehind ==
  LET tick(t) == IF t.cycle < AluDepth - 1 THEN [t EXCEPT !.cycle = @ + 1] ELSE t
  IN  [i \in DOMAIN pipeline |->
         IF Out!NotFull(outbuf) \/ i > 1 THEN tick(pipeline[i]) ELSE pipeline[i]]

(* aluUpdate clocks the pipeline if its result has a place to go, or if     *)
(* there is no result yet.                                                  *)
Clocked ==
  LET tick(t) == IF t.cycle < AluDepth - 1 THEN [t EXCEPT !.cycle = @ + 1] ELSE t
  IN  IF Out!NotFull(outbuf) \/ (pipeline # << >> /\ Head(pipeline).cycle < AluDepth - 1)
      THEN [i \in DOMAIN pipeline |-> tick(pipeline[i])]
      ELSE pipeline

(* toOutBuffer: the result moves to the output buffer if that accepts it.   *)
Delivered == Ready /\ Out!CanReceive(outbuf)

(* allAluOperandsGot, without its side effect on stall_one.                 *)
OperandsGot(bufs) == \A p \in Operand : In!NotEmpty(bufs[p])

(* Mutation: one transaction too many.                                      *)
RoomOneMore(pipe, out) == IF AluDepth = 0 THEN Out!NotFull(out) ELSE Len(pipe) <= AluDepth

(* Pealu::canReceiveInput; an ALU of depth 0 asks the output buffer.        *)
Room(pipe, out) == IF AluDepth = 0 THEN Out!NotFull(out) ELSE Len(pipe) < AluDepth

(* getAluInput: the front of every operand port.                            *)
AluInput == [p \in Operand |-> In!Front(inbuf[p])]

(* gatherOperands: the operands enter the ALU; one of depth 0 computes      *)
(* straight into the output buffer.                                         *)
IntoAlu(pipe, args) ==
  IF AluDepth = 0 THEN pipe ELSE Append(pipe, [result |-> Result(args), cycle |-> 0])

IntoOutbuffer(out, args) == IF AluDepth = 0 THEN Out!Input(out, Result(args)) ELSE out

(* aluUpdate, toOutBuffer and controlBlock.                                 *)
SimStep2 ==
  /\ pc = "simStep2" /\ pc' = "simStep1"
  /\ LET moved   == IF Delivered THEN Tail(Clocked) ELSE Clocked
         stepped == IF Delivered THEN Out!Input(outbuf, Head(pipeline).result) ELSE outbuf
         taken   == OperandsGot(inbuf) /\ ~stall_one /\ Room(moved, stepped)
         emitted == taken /\ ~Dropped(AluInput, break_state)
     IN  /\ inbuf' = IF taken THEN [p \in Operand |-> In!Reset(inbuf[p])] ELSE inbuf
         /\ break_state' = IF taken THEN BrokenAfter(AluInput, break_state) ELSE break_state
         /\ pipeline' = IF emitted THEN IntoAlu(moved, AluInput) ELSE moved
         /\ outbuf' = IF emitted THEN IntoOutbuffer(stepped, AluInput) ELSE stepped
         /\ stall_one' = (stall_one /\ ~OperandsGot(inbuf))
  /\ UNCHANGED <<config, input_port, thispe_bp>>

(* Mutation: the other operands are not asked about.                        *)
PromiseOwnPort(bufs) == Room(pipeline, outbuf) \/ (IsMul /\ Out!NotFull(outbuf))

(* Pebp::getBp for a port that is full: will operands be taken in the next  *)
(* cycle?  With an ALU of depth 0 the operands themselves are not asked     *)
(* about.                                                                   *)
Promise(bufs) ==
  IF AluDepth = 0
  THEN Out!NotFull(outbuf)
  ELSE /\ OperandsGot(bufs)
       /\ Room(pipeline, outbuf) \/ (IsMul /\ Out!NotFull(outbuf))

(* simStep1 stores what is on the wires, looking at no result of input(),   *)
(* and simBp recomputes the credit.  The first full port whose credit asks  *)
(* allAluOperandsGot clears stall_one and is refused.  wireReset follows.   *)
SimStep1 ==
  /\ pc = "simStep1" /\ pc' = "simStep3"
  /\ LET stored == [p \in Operand |-> IF input_port[p] = Free
                                      THEN inbuf[p]
                                      ELSE In!Input(inbuf[p], input_port[p])]
         full    == {p \in Operand : ~In!NotFull(stored[p])}
         stalled == stall_one /\ AluDepth # 0 /\ OperandsGot(stored)
         first(p) == \A r \in full : p <= r
     IN  /\ inbuf' = stored
         /\ thispe_bp' = [p \in Operand |-> \/ p \notin full
                                            \/ Promise(stored) /\ ~(stalled /\ first(p))]
         /\ stall_one' = (stall_one /\ ~(stalled /\ full # {}))
  /\ input_port' = [p \in Operand |-> Free]
  /\ UNCHANGED <<config, pipeline, break_state, outbuf>>

Next ==
  \/ \E p \in Operand : \E tok \in config.sent[p] : Arrive(p, tok)
  \/ \E next_bp \in BOOLEAN : SimStep3(next_bp)
  \/ SimStep2
  \/ SimStep1

(* run() updates every element in every cycle, and downstream credit comes  *)
(* back again and again (CreditLink).                                       *)
Fairness ==
  /\ WF_vars(\E next_bp \in BOOLEAN : SimStep3(next_bp))
  /\ SF_vars(SimStep3(TRUE))
  /\ WF_vars(SimStep2)
  /\ WF_vars(SimStep1)

Spec == Init /\ [][Next]_vars
FairSpec == Spec /\ Fairness

-----------------------------------------------------------------------------
(* A token sent on credit finds room when simStep1 stores it, also where    *)
(* the credit was granted on a full port.  buffer.h (line 83) says that     *)
(* under credit canReceiveInput is only there as an assertion.              *)
NeverRefused ==
  pc = "simStep1" =>
    \A p \in Operand : input_port[p] # Free => In!CanReceive(inbuf[p])

(* Whoever is in the pipeline longer is further along, so the code, which   *)
(* only ever looks at the front, looks at the one that is done first.       *)
PipelineInOrder ==
  \A i, j \in DOMAIN pipeline : i < j => pipeline[j].cycle <= pipeline[i].cycle

(* The element pairs its operand streams in order and loses nothing.        *)
UnderWay(p) ==
  In!Content(inbuf[p]) \o (IF input_port[p] = Free THEN << >> ELSE <<input_port[p]>>)

Results(pipe) == [i \in DOMAIN pipe |-> pipe[i].result]

J == INSTANCE Join WITH
       inq <- [p \in Operand |-> UnderWay(p)],
       outq <- Out!Content(outbuf) \o Results(pipeline),
       broken <- break_state

PairsOperands == J!Spec

(* Once every operand is there, each upstream gets credit again.            *)
CreditReturns ==
  \A p \in 0 .. 2 : (p \in Operand /\ OperandsGot(inbuf)) ~> (p \in Operand /\ thispe_bp[p])
-----------------------------------------------------------------------------
(***************************************************************************)
(* The inductive invariant.  Credit on a full port is a promise to take    *)
(* operands in the next simStep2.  An ALU that is not full keeps it, and   *)
(* so does the full pipeline of mul if its front is done and has somewhere *)
(* to go, which needs its transactions apart from each other.              *)
(***************************************************************************)
BuffersConsistent == (\A p \in Operand : In!RingOK(inbuf[p])) /\ Out!RingOK(outbuf)

WillTake ==
  /\ OperandsGot(inbuf) /\ ~stall_one
  /\ \/ Len(pipeline) < AluDepth
     \/ IsMul /\ Out!NotFull(outbuf) /\ pipeline[1].cycle = AluDepth - 1

(* The upstream may send, or has sent.                                      *)
Owed(p) == input_port[p] # Free \/ (pc = "simStep3" /\ thispe_bp[p])

CreditKept ==
  \A p \in Operand : Owed(p) /\ ~In!NotFull(inbuf[p]) => pc # "simStep1" /\ WillTake

(* Transactions come together only behind a full outbuffer, which simStep3  *)
(* may have relieved of one entry since.                                    *)
NotHeldUp ==
  Len(Out!Content(outbuf)) < IF pc = "simStep2" THEN OutDepth - 1 ELSE OutDepth

PipelineApart ==
  IsMul => /\ Len(pipeline) >= 2 => pipeline[1].cycle >= 1
           /\ Len(pipeline) = 3 /\ NotHeldUp
                => pipeline[1].cycle = 2 /\ pipeline[2].cycle >= 1

IInv ==
  /\ TypeOK /\ BuffersConsistent /\ PipelineInOrder
  /\ AluDepth # 0 => CreditKept /\ PipelineApart
=============================================================================
