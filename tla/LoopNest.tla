------------------------------ MODULE LoopNest ------------------------------
(***************************************************************************)
(* Two nested loop controllers, as in resource/input/no_balance.xml: the   *)
(* outer one is started by run(), its values are the iterations of the     *)
(* inner one, the inner values go to the body, the ends of the body go to  *)
(* the inner controller's end ports and the inner end signal to the outer  *)
(* one, whose end signal is task_finish.                                   *)
(*                                                                         *)
(* The body is a queue for each path through it, filled on credit from one *)
(* side and emptied at any pace at the other.  A path to end port 4 has a  *)
(* comparison that breaks the inner loop, as in break_test.xml.  The       *)
(* iteration that the inner controller passes on (lc_output[0]) goes to a  *)
(* queue of its own.                                                       *)
(* A cycle updates the outer controller, the inner one and the body.       *)
(***************************************************************************)
EXTENDS Integers, Sequences, FiniteSets

CONSTANTS OuterInitial, OuterBound, OuterStep,
          InnerInitial, InnerBound, InnerStep,
          BufferDepth,
          EndPorts,    \* the sets of connected end ports, a path for each port
          BreakValue,  \* the comparison is with this value
          Capacity,    \* tokens a path holds
          Free

VARIABLES pc,
          Path,                \* the paths of this nest; they never change
          started,             \* clk > 0
          outer, inner,        \* the controllers
          outer_bp, inner_bp,  \* their nextbp, by output port
          iteration,           \* the wire from outer to inner
          wire,                \* the wire to the body
          path,                \* the tokens in each path of the body
          passed,              \* the number of iterations in the other queue
          task_finish,
          i, j, over           \* history: the iteration to come

Outer == INSTANCE LoopControl WITH
           Initial <- OuterInitial, Bound <- OuterBound, Step <- OuterStep,
           Outermost <- TRUE, EndPort <- {0}

Inner == INSTANCE LoopControl WITH
           Initial <- InnerInitial, Bound <- InnerBound, Step <- InnerStep,
           Outermost <- FALSE, EndPort <- Path

ASSUME NestAssumption ==
  /\ Outer!LoopAssumption /\ Capacity \in Nat \ {0}
  /\ InnerInitial \in Nat /\ {InnerBound, InnerStep, BreakValue} \subseteq Nat \ {0}
  /\ \A ports \in EndPorts : 0 \in ports /\ ports \subseteq 0 .. 4

history == <<i, j, over>>
vars == <<pc, Path, started, outer, inner, outer_bp, inner_bp, iteration, wire, path,
          passed, task_finish, history>>

Nest == INSTANCE CountedNest WITH breakable <- 4 \in Path

TypeOK ==
  /\ pc \in {"outer", "inner", "body", "stop"} /\ Path \in EndPorts /\ started \in BOOLEAN
  /\ outer \in Outer!StateType /\ inner \in Inner!StateType
  /\ outer_bp \in [{1} -> BOOLEAN] /\ inner_bp \in [{0, 1} -> BOOLEAN]
  /\ iteration \in Outer!Token \cup {Free} /\ wire \in Inner!Token \cup {Free}
  /\ path \in [Path -> Seq(Inner!Token)] /\ \A p \in Path : Len(path[p]) <= Capacity
  /\ passed \in 0 .. Capacity /\ task_finish \in BOOLEAN

Init ==
  /\ pc = "outer" /\ Path \in EndPorts /\ started = FALSE
  /\ outer = Outer!Start /\ inner = Inner!Start
  /\ outer_bp = [p \in {1} |-> TRUE] /\ inner_bp = [p \in {0, 1} |-> TRUE]
  /\ iteration = Free /\ wire = Free
  /\ path = [p \in Path |-> << >>] /\ passed = 0
  /\ task_finish = FALSE
  /\ i = OuterInitial /\ j = InnerInitial /\ over = FALSE

-----------------------------------------------------------------------------
Begin == [value |-> 0, condition |-> TRUE, last |-> FALSE]

(* In cycle 0 run() puts the begin token on register 0.                     *)
OuterUpdate ==
  /\ pc = "outer" /\ pc' = "inner"
  /\ started' = TRUE
  /\ outer' = Outer!Update(outer, outer_bp, IF started THEN Free ELSE Begin)
  /\ iteration' = Outer!Iteration(Outer!BufferOut(outer, outer_bp))
  /\ task_finish' = Outer!EndSignal(outer, outer_bp)
  /\ UNCHANGED <<Path, inner, outer_bp, inner_bp, wire, path, passed, history>>

(* The end signal goes to a controller that has been visited already:       *)
(* reverseStep1 has it stored at once.                                      *)
InnerUpdate ==
  /\ pc = "inner" /\ pc' = "body"
  /\ LET out == Inner!BufferOut(inner, inner_bp)
         end == IF Inner!EndSignal(inner, inner_bp) THEN [Begin EXCEPT !.last = TRUE] ELSE Free
     IN  /\ inner' = Inner!Update(inner, inner_bp, iteration)
         /\ wire' = Inner!Iteration(out)
         /\ IF out = Free THEN UNCHANGED history ELSE Nest!Advance(wire'.last)
         /\ outer' = Outer!EndInput(outer, [e \in {0} |-> end])
  /\ UNCHANGED <<Path, started, outer_bp, inner_bp, iteration, path, passed, task_finish>>

(* The comparison of break_test.xml, eq with a constant.  A hole or an end  *)
(* comes out of the ALU with the constant itself.                           *)
Compared(tok) ==
  [tok EXCEPT !.value = IF tok.last THEN BreakValue ELSE IF @ = BreakValue THEN 1 ELSE 0]

Delivered(p) == IF p = 4 THEN Compared(Head(path[p])) ELSE Head(path[p])

(* The body: each path in `ends' delivers its oldest token, then each path  *)
(* stores what is on the wire; the other queue likewise.  The cycle ends    *)
(* with setAllBp and wireReset, and run() leaves the loop if task_finish.   *)
BodyUpdate(ends, take) ==
  /\ pc = "body" /\ pc' = IF task_finish THEN "stop" ELSE "outer"
  /\ \A p \in ends : path[p] # << >>
  /\ take => passed > 0
  /\ LET left   == [p \in Path |-> IF p \in ends THEN Tail(path[p]) ELSE path[p]]
         kept   == IF take THEN passed - 1 ELSE passed
         stored == [p \in Path |-> IF wire # Free /\ Len(left[p]) < Capacity
                                   THEN Append(left[p], wire) ELSE left[p]]
         count  == IF iteration # Free /\ kept < Capacity THEN kept + 1 ELSE kept
     IN  /\ path' = stored
         /\ passed' = count
         /\ inner_bp' = [o \in {0, 1} |-> IF o = 0 THEN count < Capacity
                                           ELSE \A p \in Path : Len(stored[p]) < Capacity]
  /\ inner' = Inner!EndInput(inner, [p \in Path |-> IF p \in ends THEN Delivered(p) ELSE Free])
  /\ outer_bp' = [o \in {1} |-> Inner!GetBp(inner)]
  /\ iteration' = Free /\ wire' = Free
  /\ UNCHANGED <<Path, started, outer, task_finish, history>>

Next ==
  \/ OuterUpdate
  \/ InnerUpdate
  \/ \E ends \in SUBSET Path, take \in BOOLEAN : BodyUpdate(ends, take)

(* run() goes on to the end of the task, and each node of the body takes    *)
(* its oldest token again and again.                                        *)
Fairness ==
  /\ WF_vars(OuterUpdate) /\ WF_vars(InnerUpdate)
  /\ WF_vars(\E ends \in SUBSET Path, take \in BOOLEAN : BodyUpdate(ends, take))
  /\ SF_vars(\E ends \in SUBSET Path : BodyUpdate(ends, TRUE))
  /\ \A p \in UNION EndPorts :
       SF_vars(\E ends \in SUBSET Path, take \in BOOLEAN : p \in ends /\ BodyUpdate(ends, take))

Spec == Init /\ [][Next]_vars
FairSpec == Spec /\ Fairness

-----------------------------------------------------------------------------
(* The body gets the iterations of the two loops, each once and in order,   *)
(* whatever the pace at which the consumers give credit.  A break, however  *)
(* late it comes, leaves one last in every loop and skips none.             *)
CountsIterations == Nest!Spec

(* An iteration is passed on as it arrives (lc_output[0] is reg_input[0]),  *)
(* without a look at the credit of the consumer it goes to: that there is   *)
(* room must follow from the credit of register 0.                          *)
PassedHasRoom == iteration # Free => passed < Capacity

(* The configuration rules (doc/HGRA5_config_spec.docx, End_From) combine   *)
(* the ends of the data flow by "and": the task is finished only when every *)
(* path has delivered the last of everything that was started.  A break is  *)
(* not waited for.                                                          *)
EndAfterBody ==
  task_finish => over /\ wire = Free /\ \A p \in Path \cap 0 .. 3 : path[p] = << >>

(* The task is finished at some time.                                       *)
Terminates == <>task_finish

-----------------------------------------------------------------------------
(***************************************************************************)
(* The inductive invariant.  While a break waits to be stored, the next    *)
(* value must not be in the buffer as well, or the loop gets two lasts: a  *)
(* loop that can be broken needs a buffer of one entry, as lcBufferDepth   *)
(* is in system.xml.                                                       *)
(***************************************************************************)
OneLast == BufferDepth = 1 \/ \A ports \in EndPorts : 4 \notin ports

(* An iteration has left the outer controller and the inner one has not     *)
(* sent its last.                                                           *)
Busy == inner.reg0 # Free \/ (pc = "inner" /\ iteration # Free)

OuterToken(a) == [value |-> a, condition |-> TRUE, last |-> a >= OuterBound]

PhaseOK ==
  /\ pc \in {"outer", "stop"} => iteration = Free
  /\ pc # "body" => wire = Free
  /\ pc = "outer" => (outer_bp[1] <=> inner.reg0 = Free)
  /\ pc = "inner" /\ iteration # Free => iteration = OuterToken(i) /\ inner.reg0 = Free /\ ~over
  /\ pc = "body" /\ iteration # Free => inner.reg0 # Free
  /\ ~started => pc = "outer"

(* The outer controller has the next iteration in its buffer, until it has  *)
(* sent the one that meets the bound.                                       *)
OuterValue == [value |-> IF Busy THEN i + OuterStep ELSE i, condition |-> TRUE, last |-> FALSE]

OuterOK ==
  /\ Outer!B!AtMostOne(outer.buffer) /\ outer.df_cnt = 0
  /\ ~started => outer.reg0 = Free /\ i = OuterInitial /\ ~Busy /\ ~over
  /\ outer.reg0 = Free =>
       /\ Outer!B!Front(outer.buffer) = Free
       /\ started => (Busy /\ i >= OuterBound) \/ over
  /\ outer.reg0 # Free =>
       /\ outer.reg0 = Begin /\ ~over
       /\ outer.first_loop => Outer!B!Front(outer.buffer) = Free /\ i = OuterInitial /\ ~Busy
       /\ ~outer.first_loop => /\ Outer!B!Front(outer.buffer) = OuterValue
                               /\ Busy => i < OuterBound

(* So has the inner controller, or a last in its place.                     *)
InnerValue ==
  IF i < OuterBound THEN [value |-> j, condition |-> TRUE, last |-> FALSE]
  ELSE [value |-> InnerInitial, condition |-> FALSE, last |-> TRUE]

Broken(tok) ==
  4 \in Path /\ i < OuterBound /\ j # InnerInitial /\ tok # Free /\ tok.condition /\ tok.last

InnerOK ==
  /\ Inner!B!AtMostOne(inner.buffer)
  /\ j >= InnerInitial
  /\ inner.reg0 = Free => Inner!B!Front(inner.buffer) = Free /\ j = InnerInitial
  /\ inner.reg0 # Free =>
       /\ inner.reg0 = OuterToken(i) /\ ~over
       /\ inner.first_loop => Inner!B!Front(inner.buffer) = Free /\ j = InnerInitial
       /\ ~inner.first_loop => \/ Inner!B!Front(inner.buffer) = InnerValue
                               \/ Broken(Inner!B!Front(inner.buffer))

(* Each loop that was started and has not come back has its last on the     *)
(* way, or still to be sent.                                                *)
Lasts(toks) == Cardinality({k \in DOMAIN toks : toks[k].last})

UnderWay(p) ==
  Lasts(path[p]) + (IF wire # Free /\ wire.last THEN 1 ELSE 0) + (IF inner.reg0 # Free THEN 1 ELSE 0)

CountsOK ==
  /\ inner.df_cnt = UnderWay(0)
  /\ 4 \in Path => inner.break_cnt = UnderWay(4)

RoomOK ==
  /\ inner_bp[0] \/ inner.reg0 = Free \/ iteration # Free => passed < Capacity
  /\ inner_bp[1] \/ wire # Free => \A p \in Path : Len(path[p]) < Capacity

(* What comes last to the body is a last, and when the outer controller has *)
(* the end signal there is nothing behind it.                               *)
Finished == over /\ wire = Free /\ path[0] = << >>

EndOK ==
  /\ inner.last_flag => over \/ (inner.reg0 # Free /\ i >= OuterBound)
  /\ over /\ wire # Free => wire.last
  /\ over /\ wire = Free /\ path[0] # << >> => path[0][Len(path[0])].last
  /\ outer.end_reg[0].last \/ outer.end_flag[0] \/ task_finish => Finished

IInv ==
  /\ TypeOK /\ i \in Nat /\ j \in Nat /\ over \in BOOLEAN
  /\ PhaseOK /\ OuterOK /\ InnerOK /\ CountsOK /\ RoomOK /\ EndOK
=============================================================================
