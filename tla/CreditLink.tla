----------------------------- MODULE CreditLink -----------------------------
(***************************************************************************)
(* One output port of a node, the input ports it fans out to, and the      *)
(* credit that comes back, cycle by cycle, in the inbuffer_stall mode of   *)
(* HgraArray::run.                                                         *)
(*                                                                         *)
(* A cycle visits the nodes in the order of the configuration.  A consumer *)
(* that comes after the source finds the token on its input port and       *)
(* stores it in its own update (simStep2, simStep1, simBp).  For a         *)
(* consumer that comes before the source, reverseStep1 stores the token    *)
(* right after the source has sent it, and recomputes the consumer's own   *)
(* back-pressure bit -- which the bridge, however, has already collected   *)
(* for this cycle.  At the end of the cycle setAllBp hands the source the  *)
(* conjunction of the collected bits.                                      *)
(***************************************************************************)
EXTENDS Ring, Sequences     \* Depth: of each consumer's buffer

CONSTANTS Before,     \* consumers visited before the source in a cycle
          After,      \* consumers visited after it
          Watched     \* any one of them, the one whose stream is followed

Port == Before \cup After

ASSUME PositionAssumption == Before \cap After = {}
ASSUME WatchedAssumption  == Watched \in Port

VARIABLES buf,            \* the consumers' buffers
          input_port,     \* the wire to each consumer, reset every cycle
          next_bp,        \* the credit the source acts on in this cycle
          bp_temporary,   \* the credit the bridge has collected so far
          todo,           \* the consumers not yet updated in this cycle
          source_done     \* has the source been updated in this cycle

vars == <<buf, input_port, next_bp, bp_temporary, todo, source_done>>

TypeOK ==
  /\ buf \in [Port -> RingType]
  /\ input_port \in [Port -> Token \cup {Free}]
  /\ next_bp \in BOOLEAN
  /\ bp_temporary \in BOOLEAN
  /\ todo \in SUBSET Port
  /\ source_done \in BOOLEAN

(* next_bp is constructed true, InitBp sets the collected credit to true.   *)
Init ==
  /\ buf = [p \in Port |-> EmptyRing]
  /\ input_port = [p \in Port |-> Free]
  /\ next_bp = TRUE
  /\ bp_temporary = TRUE
  /\ todo = Port
  /\ source_done = FALSE

(* simStep1(i): store what is on the wire; the result of input() is not     *)
(* looked at.                                                               *)
SimStep1(r, tok) == IF tok = Free THEN r ELSE Input(r, tok)

(* Mutation: as if the port were always granted.                            *)
GetBpAlways(r) == TRUE

(* Creditbp: the port can be sent to while its port_full flag is off.       *)
GetBp(r) == NotFull(r)

(* setBp: the source's credit is the conjunction over its consumers.        *)
SetBp(bp, bit) == bp /\ bit

(* A consumer visited in its turn.  Whether it takes its oldest entry in    *)
(* simStep2 depends on the rest of the node, so it may or may not.          *)
ConsumerUpdate(p, take) ==
  /\ p \in todo
  /\ (p \in After) = source_done
  /\ take => NotEmpty(buf[p])
  /\ LET taken  == IF take THEN Reset(buf[p]) ELSE buf[p]
         stored == SimStep1(taken, input_port[p])
     IN  /\ buf' = [buf EXCEPT ![p] = stored]
         /\ bp_temporary' = SetBp(bp_temporary, GetBp(stored))
  /\ todo' = todo \ {p}
  /\ UNCHANGED <<input_port, next_bp, source_done>>

(* The source puts a token on its output if it has one and holds credit.    *)
(* sendOutput copies it to every consumer's input port, reverseStep1 stores *)
(* it at once in the buffers of the consumers already visited.              *)
SourceUpdate(tok) ==
  /\ ~source_done
  /\ todo \cap Before = {}
  /\ tok # Free => next_bp
  /\ input_port' = [p \in Port |-> tok]
  /\ buf' = [p \in Port |-> IF p \in Before THEN SimStep1(buf[p], tok) ELSE buf[p]]
  /\ source_done' = TRUE
  /\ UNCHANGED <<next_bp, bp_temporary, todo>>

(* Mutation: the wires are not reset.                                       *)
EndCycleKeepsWires ==
  /\ source_done /\ todo = {}
  /\ next_bp' = bp_temporary /\ bp_temporary' = TRUE
  /\ todo' = Port /\ source_done' = FALSE
  /\ UNCHANGED <<buf, input_port>>

(* setAllBp, wireReset and, at the top of the next cycle, InitBp.           *)
EndCycle ==
  /\ source_done
  /\ todo = {}
  /\ next_bp' = bp_temporary
  /\ bp_temporary' = TRUE
  /\ input_port' = [p \in Port |-> Free]
  /\ todo' = Port
  /\ source_done' = FALSE
  /\ UNCHANGED buf

Next ==
  \/ \E p \in Port, take \in BOOLEAN : ConsumerUpdate(p, take)
  \/ \E tok \in Token \cup {Free} : SourceUpdate(tok)
  \/ EndCycle

(* The loop of run() never stops visiting nodes before maxclk, and a        *)
(* consumer that has something to take is not stalled for ever.             *)
Fairness ==
  /\ \A p \in Port : /\ WF_vars(\E take \in BOOLEAN : ConsumerUpdate(p, take))
                     /\ SF_vars(ConsumerUpdate(p, TRUE))
  /\ WF_vars(\E tok \in Token \cup {Free} : SourceUpdate(tok))
  /\ WF_vars(EndCycle)

Spec == Init /\ [][Next]_vars
FairSpec == Spec /\ Fairness

-----------------------------------------------------------------------------
(* Does the wire hold a token that consumer p has still to store?           *)
OnWire(p) == input_port[p] # Free /\ p \in todo

(* Is it the source's turn, with the credit to send?                        *)
MaySend == ~source_done /\ todo \cap Before = {} /\ next_bp

(* The three views of a buffer -- pointers, flags and valid bits -- agree   *)
(* for every port at every moment of a cycle.  The code keeps them in three *)
(* places and different callers look at different ones.                     *)
BuffersConsistent == \A p \in Port : RingOK(buf[p])

(* Under the credit protocol a token never meets a full buffer: in          *)
(* buffer.h (line 83) canReceiveInput is only an assertion when credits are *)
(* used, and simStep1 drops the token if it fails.  First the consumers the *)
(* source precedes, then those that precede the source.                     *)
ForwardNeverRefused == \A p \in After : OnWire(p) => CanReceive(buf[p])

BackNeverRefused == MaySend => \A p \in Before : CanReceive(buf[p])

(* Each consumer's side of the link is an ordered, lossless stream.  What   *)
(* is under way is the buffer and, until it is stored, the wire.            *)
UnderWay(p) == Content(buf[p]) \o (IF OnWire(p) THEN <<input_port[p]>> ELSE << >>)

Link == INSTANCE Stream WITH Capacity <- Depth, q <- UnderWay(Watched)

LinkIsStream == Link!Spec

(* The fan-out does not starve the source: whatever the consumers do, as    *)
(* long as none stalls for ever the credit comes back again and again.      *)
CreditReturns == []<>next_bp
-----------------------------------------------------------------------------
(***************************************************************************)
(* The inductive invariant.  Credit is a promise about buffers that nobody *)
(* has stored into since it was computed: a consumer that has reported     *)
(* room in this cycle still has it at the end of the cycle, and one that   *)
(* reported room in the last cycle still has it until its turn.            *)
(***************************************************************************)
PhaseOK ==
  /\ source_done => todo \cap Before = {}
  /\ ~source_done => After \subseteq todo

WireOK == \A p \in Port : input_port[p] # Free => source_done /\ next_bp

CreditKept ==
  /\ next_bp      => \A p \in todo \cap After : NotFull(buf[p])
  /\ bp_temporary => \A p \in After \ todo : NotFull(buf[p])

IInv == TypeOK /\ BuffersConsistent /\ PhaseOK /\ WireOK /\ CreditKept
=============================================================================
