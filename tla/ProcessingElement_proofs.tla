---------------------- MODULE ProcessingElement_proofs ----------------------
(***************************************************************************)
(* Proofs about the processing element, for every configuration: control   *)
(* mode, operand ports, depths of the buffers and of the ALU.              *)
(*                                                                         *)
(* ITyped, which every element has, is the first layer of the invariant.   *)
(* The second is the credit protocol, for an ALU that has a stage: a full  *)
(* port whose upstream may send will be taken from before the token is     *)
(* stored.  From both follows that the element implements Join.            *)
(***************************************************************************)
EXTENDS ProcessingElement, SequenceTheorems, TLAPS

InLemmas  == INSTANCE Ring_proofs WITH Depth <- config.inDepth
OutLemmas == INSTANCE Ring_proofs WITH Depth <- OutDepth

(* What the assumptions say of the configuration.                           *)
LEMMA ConfigFacts ==
  ASSUME config \in Configs
  PROVE  /\ Operand \subseteq 0 .. 2 /\ 1 \in Operand
         /\ AluDepth \in Nat /\ IsMul \in BOOLEAN /\ (IsMul => AluDepth = 3)
         /\ config.inDepth \in Nat \ {0}
         /\ config.sent \in [Operand -> SUBSET Token]
         /\ \A args \in [Operand -> Token] : Alu(args) \in Value
BY ConfigAssumption, PEAssumption, AluAssumption DEF Operand, AluDepth, IsMul

(* In and InLemmas instantiate the same definitions.                        *)
LEMMA SameIn ==
  /\ In!EmptyRing = InLemmas!EmptyRing /\ In!RingType = InLemmas!RingType
  /\ \A r : /\ In!RingOK(r) <=> InLemmas!RingOK(r)
            /\ In!NotFull(r) <=> InLemmas!NotFull(r)
            /\ In!NotEmpty(r) <=> InLemmas!NotEmpty(r)
            /\ In!CanReceive(r) <=> InLemmas!CanReceive(r)
            /\ In!Front(r) = InLemmas!Front(r)
            /\ In!Content(r) = InLemmas!Content(r)
            /\ In!Reset(r) = InLemmas!Reset(r)
            /\ \A tok : In!Input(r, tok) = InLemmas!Input(r, tok)
<1>1. In!Index = InLemmas!Index
  BY DEF In!Index,
            InLemmas!Index
<1>2. In!EmptyRing = InLemmas!EmptyRing /\ In!RingType = InLemmas!RingType
  BY <1>1 DEF In!EmptyRing, In!RingType,
            InLemmas!EmptyRing, InLemmas!RingType
<1>3. \A i : In!Succ(i) = InLemmas!Succ(i)
  BY DEF In!Succ,
            InLemmas!Succ
<1>4. ASSUME NEW r
      PROVE  /\ In!NotFull(r) <=> InLemmas!NotFull(r)
             /\ In!NotEmpty(r) <=> InLemmas!NotEmpty(r)
             /\ In!CanReceive(r) <=> InLemmas!CanReceive(r)
             /\ In!Front(r) = InLemmas!Front(r)
  BY DEF In!NotFull, In!NotEmpty, In!CanReceive, In!Front,
            InLemmas!NotFull, InLemmas!NotEmpty, InLemmas!CanReceive, InLemmas!Front
<1>5. ASSUME NEW r PROVE In!RingOK(r) <=> InLemmas!RingOK(r)
  <2>1. In!FlagsAgree(r) <=> InLemmas!FlagsAgree(r)
    BY DEF In!FlagsAgree,
            InLemmas!FlagsAgree
  <2>2. In!ValidBitsAgree(r) <=> InLemmas!ValidBitsAgree(r)
    BY <1>1 DEF In!ValidBitsAgree, In!Occupied,
            InLemmas!ValidBitsAgree, InLemmas!Occupied
  <2> QED BY <1>2, <2>1, <2>2 DEF In!RingOK,
            InLemmas!RingOK
<1>6. ASSUME NEW r PROVE In!Content(r) = InLemmas!Content(r)
  <2>1. In!Count(r) = InLemmas!Count(r)
    BY DEF In!Count,
            InLemmas!Count
  <2>2. \A k : In!Nth(r, k) = InLemmas!Nth(r, k)
    BY DEF In!Nth,
            InLemmas!Nth
  <2> QED BY <2>1, <2>2 DEF In!Content,
            InLemmas!Content
<1>7. ASSUME NEW r PROVE In!Reset(r) = InLemmas!Reset(r)
  <2>1. In!Front(r) = InLemmas!Front(r) /\ In!Succ(r.head) = InLemmas!Succ(r.head)
    BY <1>3, <1>4
  <2> QED BY <2>1 DEF In!Reset, InLemmas!Reset
<1>8. ASSUME NEW r, NEW tok PROVE In!Input(r, tok) = InLemmas!Input(r, tok)
  BY <1>3, <1>4 DEF In!Input, In!Write,
            InLemmas!Input, InLemmas!Write
<1> QED BY <1>2, <1>4, <1>5, <1>6, <1>7, <1>8

(* RingFacts, for In.                                                      *)
LEMMA InFacts ==
  ASSUME config \in Configs
  PROVE
  /\ In!RingOK(In!EmptyRing) /\ In!NotFull(In!EmptyRing) /\ In!Content(In!EmptyRing) = << >>
  /\ \A r : In!RingOK(r) =>
       /\ r \in In!RingType
       /\ In!Content(r) \in Seq(Token)
       /\ In!NotFull(r) <=> Len(In!Content(r)) < config.inDepth
       /\ Len(In!Content(r)) <= config.inDepth
       /\ In!NotEmpty(r) <=> In!Content(r) # << >>
       /\ In!CanReceive(r) <=> In!NotFull(r)
       /\ In!Front(r) = IF In!Content(r) = << >> THEN Free ELSE Head(In!Content(r))
       /\ In!RingOK(In!Reset(r))
       /\ In!Content(In!Reset(r)) = IF In!Content(r) = << >> THEN << >> ELSE Tail(In!Content(r))
       /\ In!NotFull(r) \/ In!NotEmpty(r) => In!NotFull(In!Reset(r))
       /\ \A tok \in Token :
            /\ In!RingOK(In!Input(r, tok))
            /\ In!Content(In!Input(r, tok)) =
                 IF In!NotFull(r) THEN Append(In!Content(r), tok) ELSE In!Content(r)
<1>1. config.inDepth \in Nat \ {0} /\ Free \notin Token
  BY ConfigFacts, PEAssumption
<1> QED BY <1>1, InLemmas!RingFacts, SameIn

(* Out and OutLemmas instantiate the same definitions.                      *)
LEMMA SameOut ==
  /\ Out!EmptyRing = OutLemmas!EmptyRing /\ Out!RingType = OutLemmas!RingType
  /\ \A r : /\ Out!RingOK(r) <=> OutLemmas!RingOK(r)
            /\ Out!NotFull(r) <=> OutLemmas!NotFull(r)
            /\ Out!NotEmpty(r) <=> OutLemmas!NotEmpty(r)
            /\ Out!CanReceive(r) <=> OutLemmas!CanReceive(r)
            /\ Out!Front(r) = OutLemmas!Front(r)
            /\ Out!Content(r) = OutLemmas!Content(r)
            /\ Out!Reset(r) = OutLemmas!Reset(r)
            /\ \A tok : Out!Input(r, tok) = OutLemmas!Input(r, tok)
<1>1. Out!Index = OutLemmas!Index
  BY DEF Out!Index,
            OutLemmas!Index
<1>2. Out!EmptyRing = OutLemmas!EmptyRing /\ Out!RingType = OutLemmas!RingType
  BY <1>1 DEF Out!EmptyRing, Out!RingType,
            OutLemmas!EmptyRing, OutLemmas!RingType
<1>3. \A i : Out!Succ(i) = OutLemmas!Succ(i)
  BY DEF Out!Succ,
            OutLemmas!Succ
<1>4. ASSUME NEW r
      PROVE  /\ Out!NotFull(r) <=> OutLemmas!NotFull(r)
             /\ Out!NotEmpty(r) <=> OutLemmas!NotEmpty(r)
             /\ Out!CanReceive(r) <=> OutLemmas!CanReceive(r)
             /\ Out!Front(r) = OutLemmas!Front(r)
  BY DEF Out!NotFull, Out!NotEmpty, Out!CanReceive, Out!Front,
            OutLemmas!NotFull, OutLemmas!NotEmpty, OutLemmas!CanReceive, OutLemmas!Front
<1>5. ASSUME NEW r PROVE Out!RingOK(r) <=> OutLemmas!RingOK(r)
  <2>1. Out!FlagsAgree(r) <=> OutLemmas!FlagsAgree(r)
    BY DEF Out!FlagsAgree,
            OutLemmas!FlagsAgree
  <2>2. Out!ValidBitsAgree(r) <=> OutLemmas!ValidBitsAgree(r)
    BY <1>1 DEF Out!ValidBitsAgree, Out!Occupied,
            OutLemmas!ValidBitsAgree, OutLemmas!Occupied
  <2> QED BY <1>2, <2>1, <2>2 DEF Out!RingOK,
            OutLemmas!RingOK
<1>6. ASSUME NEW r PROVE Out!Content(r) = OutLemmas!Content(r)
  <2>1. Out!Count(r) = OutLemmas!Count(r)
    BY DEF Out!Count,
            OutLemmas!Count
  <2>2. \A k : Out!Nth(r, k) = OutLemmas!Nth(r, k)
    BY DEF Out!Nth,
            OutLemmas!Nth
  <2> QED BY <2>1, <2>2 DEF Out!Content,
            OutLemmas!Content
<1>7. ASSUME NEW r PROVE Out!Reset(r) = OutLemmas!Reset(r)
  <2>1. Out!Front(r) = OutLemmas!Front(r) /\ Out!Succ(r.head) = OutLemmas!Succ(r.head)
    BY <1>3, <1>4
  <2> QED BY <2>1 DEF Out!Reset, OutLemmas!Reset
<1>8. ASSUME NEW r, NEW tok PROVE Out!Input(r, tok) = OutLemmas!Input(r, tok)
  BY <1>3, <1>4 DEF Out!Input, Out!Write,
            OutLemmas!Input, OutLemmas!Write
<1> QED BY <1>2, <1>4, <1>5, <1>6, <1>7, <1>8

(* RingFacts, for Out.                                                     *)
LEMMA OutFacts ==
  /\ Out!RingOK(Out!EmptyRing) /\ Out!NotFull(Out!EmptyRing) /\ Out!Content(Out!EmptyRing) = << >>
  /\ \A r : Out!RingOK(r) =>
       /\ r \in Out!RingType
       /\ Out!Content(r) \in Seq(Token)
       /\ Out!NotFull(r) <=> Len(Out!Content(r)) < OutDepth
       /\ Len(Out!Content(r)) <= OutDepth
       /\ Out!NotEmpty(r) <=> Out!Content(r) # << >>
       /\ Out!CanReceive(r) <=> Out!NotFull(r)
       /\ Out!Front(r) = IF Out!Content(r) = << >> THEN Free ELSE Head(Out!Content(r))
       /\ Out!RingOK(Out!Reset(r))
       /\ Out!Content(Out!Reset(r)) = IF Out!Content(r) = << >> THEN << >> ELSE Tail(Out!Content(r))
       /\ Out!NotFull(r) \/ Out!NotEmpty(r) => Out!NotFull(Out!Reset(r))
       /\ \A tok \in Token :
            /\ Out!RingOK(Out!Input(r, tok))
            /\ Out!Content(Out!Input(r, tok)) =
                 IF Out!NotFull(r) THEN Append(Out!Content(r), tok) ELSE Out!Content(r)
<1>1. OutDepth \in Nat \ {0} /\ Free \notin Token
  BY PEAssumption
<1> QED BY <1>1, OutLemmas!RingFacts, SameOut
(* The configuration never changes, and with it the ports' depth.           *)
LEMMA ConfigKept ==
  ASSUME config' = config
  PROVE  /\ Operand' = Operand /\ AluDepth' = AluDepth /\ IsMul' = IsMul
         /\ In!RingType' = In!RingType /\ Transaction' = Transaction
         /\ \A r : /\ In!RingOK(r)' <=> In!RingOK(r)
                   /\ In!Content(r)' = In!Content(r)
                   /\ In!NotFull(r)' <=> In!NotFull(r)
                   /\ In!NotEmpty(r)' <=> In!NotEmpty(r)
<1>1. Operand' = Operand /\ AluDepth' = AluDepth /\ IsMul' = IsMul
  BY DEF Operand, AluDepth, IsMul
<1>2. In!Index' = In!Index
  BY DEF In!Index
<1>3. In!RingType' = In!RingType
  BY <1>2 DEF In!RingType
<1>4. Transaction' = Transaction
  BY <1>1 DEF Transaction
<1>5. ASSUME NEW r PROVE In!RingOK(r)' <=> In!RingOK(r)
  <2>1. In!ValidBitsAgree(r)' <=> In!ValidBitsAgree(r)
    BY <1>2 DEF In!ValidBitsAgree, In!Occupied
  <2> QED BY <1>3, <2>1 DEF In!RingOK, In!FlagsAgree
<1>6. ASSUME NEW r PROVE In!Content(r)' = In!Content(r)
  BY DEF In!Content, In!Count, In!Nth
<1>7. \A r : (In!NotFull(r)' <=> In!NotFull(r)) /\ (In!NotEmpty(r)' <=> In!NotEmpty(r))
  BY DEF In!NotFull, In!NotEmpty
<1> QED BY <1>1, <1>3, <1>4, <1>5, <1>6, <1>7

-----------------------------------------------------------------------------
(***************************************************************************)
(* Types, buffers, and the order in the pipeline.                          *)
(***************************************************************************)
ITyped == TypeOK /\ BuffersConsistent /\ PipelineInOrder

(* Every buffer and the pipeline are empty.                                 *)
LEMMA InitTyped == Init => ITyped
<1> SUFFICES ASSUME Init PROVE ITyped
  OBVIOUS
<1>1. config \in Configs
  BY DEF Init
<1>2. In!RingOK(In!EmptyRing) /\ In!EmptyRing \in In!RingType
  BY <1>1, InFacts
<1>3. Out!RingOK(Out!EmptyRing) /\ Out!EmptyRing \in Out!RingType
  BY OutFacts
<1>4. pipeline \in Seq(Transaction) /\ Len(pipeline) = 0 /\ pipeline = << >>
  BY EmptySeq DEF Init
<1>5. TypeOK
  <2>1. AluDepth \in Nat
    BY <1>1, ConfigFacts
  <2>2. pipeline \in Seq(Transaction) /\ Len(pipeline) <= AluDepth
    BY <1>4, <2>1
  <2>3. inbuf \in [Operand -> In!RingType] /\ outbuf \in Out!RingType
    BY <1>2, <1>3 DEF Init
  <2> QED BY <1>1, <2>2, <2>3 DEF Init, TypeOK
<1>6. BuffersConsistent
  BY <1>2, <1>3 DEF Init, BuffersConsistent
<1>7. PipelineInOrder
  BY <1>4 DEF PipelineInOrder
<1> QED BY <1>5, <1>6, <1>7 DEF ITyped

(* An arrival changes one wire.                                             *)
LEMMA ArriveTyped ==
  ASSUME ITyped, NEW p \in Operand, NEW tok \in config.sent[p], Arrive(p, tok)
  PROVE  ITyped'
<1>1. /\ config' = config /\ input_port' = [input_port EXCEPT ![p] = tok]
      /\ UNCHANGED <<pc, inbuf, thispe_bp, pipeline, break_state, stall_one, outbuf>>
  BY DEF Arrive
<1>2. tok \in Token
  BY ConfigFacts DEF ITyped, TypeOK
<1>3. TypeOK'
  BY <1>1, <1>2, ConfigKept DEF ITyped, TypeOK
<1>4. BuffersConsistent' /\ PipelineInOrder'
  BY <1>1, ConfigKept DEF ITyped, BuffersConsistent, PipelineInOrder
<1> QED BY <1>3, <1>4 DEF ITyped

(* Sending takes at most the oldest result from outbuffer.                  *)
LEMMA SimStep3Typed ==
  ASSUME ITyped, NEW next_bp \in BOOLEAN, SimStep3(next_bp)
  PROVE  ITyped'
<1>1. /\ config' = config /\ pc' = "simStep2"
      /\ outbuf' = IF next_bp THEN Out!Reset(outbuf) ELSE outbuf
      /\ UNCHANGED <<inbuf, input_port, thispe_bp, pipeline, break_state, stall_one>>
  BY DEF SimStep3
<1>2. Out!RingOK(outbuf') /\ outbuf' \in Out!RingType
  BY <1>1, OutFacts DEF ITyped, BuffersConsistent
<1>3. TypeOK'
  BY <1>1, <1>2, ConfigKept DEF ITyped, TypeOK
<1>4. BuffersConsistent' /\ PipelineInOrder'
  BY <1>1, <1>2, ConfigKept DEF ITyped, BuffersConsistent, PipelineInOrder
<1> QED BY <1>3, <1>4 DEF ITyped

(* simStep1 stores what is on the wires.                                    *)
Stored == [p \in Operand |-> IF input_port[p] = Free
                             THEN inbuf[p]
                             ELSE In!Input(inbuf[p], input_port[p])]

(* A port that is not full appends the token, a full one drops it.          *)
LEMMA StoredOK ==
  ASSUME ITyped, NEW p \in Operand
  PROVE  /\ In!RingOK(Stored[p]) /\ Stored[p] \in In!RingType
         /\ In!Content(Stored[p]) =
              IF input_port[p] # Free /\ In!NotFull(inbuf[p])
              THEN Append(In!Content(inbuf[p]), input_port[p]) ELSE In!Content(inbuf[p])
<1>1. /\ In!RingOK(inbuf[p]) /\ input_port[p] \in Token \cup {Free} /\ config \in Configs
      /\ Stored[p] = IF input_port[p] = Free THEN inbuf[p] ELSE In!Input(inbuf[p], input_port[p])
  BY DEF ITyped, TypeOK, BuffersConsistent, Stored
<1>2. CASE input_port[p] = Free
  BY <1>1, <1>2, InFacts
<1>3. CASE input_port[p] # Free
  BY <1>1, <1>3, InFacts
<1> QED BY <1>2, <1>3

(* Storing keeps every port consistent.                                     *)
LEMMA SimStep1Typed == ITyped /\ SimStep1 => ITyped'
<1> SUFFICES ASSUME ITyped, SimStep1 PROVE ITyped'
  OBVIOUS
<1>1. /\ config' = config /\ pc' = "simStep3" /\ inbuf' = Stored
      /\ input_port' = [p \in Operand |-> Free]
      /\ thispe_bp' \in [Operand -> BOOLEAN] /\ stall_one' \in BOOLEAN
      /\ UNCHANGED <<pipeline, break_state, outbuf>>
  BY DEF SimStep1, Stored, ITyped, TypeOK
<1>2. inbuf' \in [Operand -> In!RingType]
  BY <1>1, StoredOK DEF Stored
<1>3. TypeOK'
  BY <1>1, <1>2, ConfigKept DEF ITyped, TypeOK
<1>4. BuffersConsistent' /\ PipelineInOrder'
  BY <1>1, StoredOK, ConfigKept DEF ITyped, BuffersConsistent, PipelineInOrder
<1> QED BY <1>3, <1>4 DEF ITyped

-----------------------------------------------------------------------------
(* The parts of simStep2.                                                   *)
Moved   == IF Delivered THEN Tail(Clocked) ELSE Clocked
Stepped == IF Delivered THEN Out!Input(outbuf, Head(pipeline).result) ELSE outbuf
Taken   == OperandsGot(inbuf) /\ ~stall_one /\ Room(Moved, Stepped)
Emitted == Taken /\ ~Dropped(AluInput, break_state)

(* simStep2, by these parts.                                                *)
LEMMA SimStep2Values ==
  ASSUME SimStep2
  PROVE  /\ pc = "simStep2" /\ pc' = "simStep1" /\ config' = config
         /\ input_port' = input_port /\ thispe_bp' = thispe_bp
         /\ inbuf' = IF Taken THEN [p \in Operand |-> In!Reset(inbuf[p])] ELSE inbuf
         /\ break_state' = IF Taken THEN BrokenAfter(AluInput, break_state) ELSE break_state
         /\ pipeline' = IF Emitted THEN IntoAlu(Moved, AluInput) ELSE Moved
         /\ outbuf' = IF Emitted THEN IntoOutbuffer(Stepped, AluInput) ELSE Stepped
         /\ stall_one' = (stall_one /\ ~OperandsGot(inbuf))
BY DEF SimStep2, Moved, Stepped, Taken, Emitted

(* aluUpdate moves every transaction on, or none.                           *)
Clocking == Out!NotFull(outbuf) \/ (pipeline # << >> /\ Head(pipeline).cycle < AluDepth - 1)

(* Clocking keeps every result and moves no transaction past the last cycle.*)
LEMMA ClockedFacts ==
  ASSUME ITyped
  PROVE  /\ Clocked \in Seq(Transaction) /\ Len(Clocked) = Len(pipeline)
         /\ \A i \in 1 .. Len(pipeline) :
              /\ Clocked[i].result = pipeline[i].result
              /\ Clocked[i].cycle = IF Clocking /\ pipeline[i].cycle < AluDepth - 1
                                    THEN pipeline[i].cycle + 1 ELSE pipeline[i].cycle
<1> DEFINE tick(t) == IF t.cycle < AluDepth - 1 THEN [t EXCEPT !.cycle = @ + 1] ELSE t
<1>1. /\ pipeline \in Seq(Transaction) /\ Len(pipeline) \in Nat /\ AluDepth \in Nat
      /\ DOMAIN pipeline = 1 .. Len(pipeline)
      /\ \A i \in 1 .. Len(pipeline) : pipeline[i] \in Transaction
  BY ConfigFacts, LenProperties DEF ITyped, TypeOK
<1>2. ASSUME NEW t \in Transaction
      PROVE  /\ tick(t) \in Transaction /\ tick(t).result = t.result
             /\ tick(t).cycle = IF t.cycle < AluDepth - 1 THEN t.cycle + 1 ELSE t.cycle
  BY <1>1, <1>2 DEF Transaction
<1>3. CASE Clocking
  <2>1. Clocked = [i \in 1 .. Len(pipeline) |-> tick(pipeline[i])]
    BY <1>1, <1>3 DEF Clocked, Clocking
  <2>2. Clocked \in [1 .. Len(pipeline) -> Transaction]
    BY <1>1, <1>2, <2>1
  <2>3. Clocked \in Seq(Transaction)
    BY <1>1, <2>2, SeqDef
  <2>4. Len(Clocked) = Len(pipeline)
    BY <1>1, <2>2, <2>3, LenProperties
  <2> QED BY <1>1, <1>2, <1>3, <2>1, <2>3, <2>4
<1>4. CASE ~Clocking
  BY <1>1, <1>4 DEF Clocked, Clocking
<1> QED BY <1>3, <1>4

(* A delivered front is gone from the pipeline; the others close up.        *)
LEMMA MovedFacts ==
  ASSUME ITyped
  PROVE  /\ Moved \in Seq(Transaction) /\ Len(Moved) \in Nat
         /\ ~Delivered => Moved = Clocked /\ Len(Moved) = Len(pipeline)
         /\ Delivered =>
              /\ pipeline # << >> /\ Head(pipeline) \in Transaction /\ Out!NotFull(outbuf)
              /\ Head(pipeline).cycle = AluDepth - 1
              /\ Len(Moved) = Len(pipeline) - 1
              /\ \A i \in 1 .. Len(Moved) : Moved[i] = Clocked[i + 1]
<1>1. /\ pipeline \in Seq(Transaction) /\ Clocked \in Seq(Transaction)
      /\ Len(Clocked) = Len(pipeline) /\ Len(pipeline) \in Nat
  BY ClockedFacts, LenProperties DEF ITyped, TypeOK
<1>2. CASE ~Delivered
  BY <1>1, <1>2 DEF Moved
<1>3. CASE Delivered
  <2>1. pipeline # << >> /\ Out!NotFull(outbuf) /\ Head(pipeline).cycle = AluDepth - 1
    BY <1>3, OutFacts DEF Delivered, Ready, ITyped, BuffersConsistent
  <2>2. Head(pipeline) \in Transaction
    BY <1>1, <2>1, HeadTailProperties
  <2>3. Clocked # << >>
    BY <1>1, <2>1, EmptySeq
  <2>4. Moved = Tail(Clocked)
    BY <1>3 DEF Moved
  <2> QED BY <1>1, <1>3, <2>1, <2>2, <2>3, <2>4, HeadTailProperties, LenProperties
<1> QED BY <1>2, <1>3

(* A delivered result is the last one of outbuffer.                         *)
LEMMA SteppedFacts ==
  ASSUME ITyped
  PROVE  /\ Out!RingOK(Stepped)
         /\ Out!Content(Stepped) =
              IF Delivered THEN Append(Out!Content(outbuf), Head(pipeline).result)
                           ELSE Out!Content(outbuf)
<1>1. Out!RingOK(outbuf)
  BY DEF ITyped, BuffersConsistent
<1>2. CASE Delivered
  <2>1. Head(pipeline).result \in Token /\ Out!NotFull(outbuf)
    BY <1>2, MovedFacts DEF Transaction
  <2> QED BY <1>1, <1>2, <2>1, OutFacts DEF Stepped
<1>3. CASE ~Delivered
  BY <1>1, <1>3 DEF Stepped
<1> QED BY <1>2, <1>3

(* The operands taken are the oldest of each port.                          *)
LEMMA ArgsTyped ==
  ASSUME ITyped, OperandsGot(inbuf)
  PROVE  /\ AluInput \in [Operand -> Token] /\ Result(AluInput) \in Token
         /\ \A p \in Operand : /\ In!Content(inbuf[p]) # << >>
                               /\ AluInput[p] = Head(In!Content(inbuf[p]))
<1>1. ASSUME NEW p \in Operand
      PROVE  /\ In!Content(inbuf[p]) # << >> /\ In!Content(inbuf[p]) \in Seq(Token)
             /\ In!Front(inbuf[p]) = Head(In!Content(inbuf[p]))
             /\ In!Front(inbuf[p]) \in Token
  <2>1. In!RingOK(inbuf[p]) /\ In!NotEmpty(inbuf[p]) /\ config \in Configs
    BY DEF ITyped, TypeOK, BuffersConsistent, OperandsGot
  <2>2. In!Content(inbuf[p]) # << >> /\ In!Content(inbuf[p]) \in Seq(Token)
    BY <2>1, InFacts
  <2>3. In!Front(inbuf[p]) = Head(In!Content(inbuf[p]))
    BY <2>1, <2>2, InFacts
  <2> QED BY <2>2, <2>3, HeadTailProperties
<1>2. AluInput \in [Operand -> Token]
  BY <1>1 DEF AluInput
<1>3. Result(AluInput) \in Token
  <2>1. 1 \in Operand /\ Alu(AluInput) \in Value
    BY <1>2, ConfigFacts DEF ITyped, TypeOK
  <2>2. AluInput[1].value \in Value
    BY <1>2, <2>1 DEF Token
  <2>3. IsHole(AluInput) \in BOOLEAN /\ IsLast(AluInput) \in BOOLEAN
    BY DEF IsHole, IsLast
  <2> QED BY <2>1, <2>2, <2>3 DEF Result, Token
<1> QED BY <1>1, <1>2, <1>3 DEF AluInput

(* Where a result goes.                                                     *)
LEMMA EmittedFacts ==
  ASSUME ITyped, SimStep2
  PROVE  /\ Emitted => Taken
         /\ Taken => OperandsGot(inbuf) /\ ~stall_one
         /\ Taken /\ AluDepth # 0 => Len(Moved) < AluDepth
         /\ Taken /\ AluDepth = 0 => Out!NotFull(Stepped)
         /\ pipeline' = IF Emitted /\ AluDepth # 0
                        THEN Append(Moved, [result |-> Result(AluInput), cycle |-> 0]) ELSE Moved
         /\ outbuf' = IF Emitted /\ AluDepth = 0
                      THEN Out!Input(Stepped, Result(AluInput)) ELSE Stepped
         /\ Emitted /\ AluDepth # 0 =>
              [result |-> Result(AluInput), cycle |-> 0] \in Transaction
<1>1. Emitted => Result(AluInput) \in Token
  BY ArgsTyped DEF Emitted, Taken
<1>2. AluDepth \in Nat
  BY ConfigFacts DEF ITyped, TypeOK
<1> QED
  BY <1>1, <1>2, SimStep2Values DEF Emitted, Taken, Room, IntoAlu, IntoOutbuffer, Transaction

(* One simStep2 keeps types, buffers and the order in the pipeline.         *)
LEMMA SimStep2Typed == ITyped /\ SimStep2 => ITyped'
<1> SUFFICES ASSUME ITyped, SimStep2 PROVE ITyped'
  OBVIOUS
<1>1. /\ pc' = "simStep1" /\ config' = config
      /\ input_port' = input_port /\ thispe_bp' = thispe_bp
      /\ inbuf' = IF Taken THEN [p \in Operand |-> In!Reset(inbuf[p])] ELSE inbuf
      /\ break_state' = IF Taken THEN BrokenAfter(AluInput, break_state) ELSE break_state
      /\ stall_one' = (stall_one /\ ~OperandsGot(inbuf))
  BY SimStep2Values
<1> DEFINE new == [result |-> Result(AluInput), cycle |-> 0]
<1>2. /\ pipeline' = IF Emitted /\ AluDepth # 0 THEN Append(Moved, new) ELSE Moved
      /\ Emitted /\ AluDepth # 0 => new \in Transaction /\ Len(Moved) < AluDepth
      /\ outbuf' = IF Emitted /\ AluDepth = 0
                   THEN Out!Input(Stepped, Result(AluInput)) ELSE Stepped
  BY EmittedFacts
<1>3. AluDepth \in Nat /\ Len(pipeline) \in Nat /\ Len(pipeline) <= AluDepth
  BY ConfigFacts, LenProperties DEF ITyped, TypeOK
<1>4. new.cycle = 0
  OBVIOUS
<1> HIDE DEF new
<1>5. \A p \in Operand : In!RingOK(inbuf'[p]) /\ inbuf'[p] \in In!RingType
  BY <1>1, InFacts DEF ITyped, TypeOK, BuffersConsistent
<1>6. inbuf' \in [Operand -> In!RingType]
  BY <1>1, <1>5 DEF ITyped, TypeOK
<1>7. Out!RingOK(outbuf') /\ outbuf' \in Out!RingType
  BY <1>2, SteppedFacts, ArgsTyped, OutFacts DEF Emitted, Taken
<1>8. pipeline' \in Seq(Transaction) /\ Len(pipeline') <= AluDepth
  <2>1. Moved \in Seq(Transaction) /\ Len(Moved) \in Nat /\ Len(Moved) <= AluDepth
    BY <1>3, MovedFacts
  <2> QED BY <1>2, <1>3, <2>1, AppendProperties
<1>9. TypeOK'
  <2>1. break_state' \in BOOLEAN /\ stall_one' \in BOOLEAN
    BY <1>1 DEF ITyped, TypeOK, BrokenAfter, IsLast, Asks
  <2> QED BY <1>1, <1>6, <1>7, <1>8, <2>1, ConfigKept DEF ITyped, TypeOK
<1>10. BuffersConsistent'
  BY <1>1, <1>5, <1>7, ConfigKept DEF BuffersConsistent
<1>11. PipelineInOrder'
  <2>1. \A i, j \in 1 .. Len(Clocked) : i < j => Clocked[j].cycle <= Clocked[i].cycle
    <3>1. \A i \in 1 .. Len(pipeline) : pipeline[i].cycle \in Nat
      <4>1. pipeline \in [1 .. Len(pipeline) -> Transaction]
        BY LenProperties DEF ITyped, TypeOK
      <4> QED BY <1>3, <4>1 DEF Transaction
    <3>2. \A i, j \in 1 .. Len(pipeline) : i < j => pipeline[j].cycle <= pipeline[i].cycle
      BY LenProperties DEF ITyped, TypeOK, PipelineInOrder
    <3> QED BY <1>3, <3>1, <3>2, ClockedFacts
  <2>2. \A i, j \in 1 .. Len(Moved) : i < j => Moved[j].cycle <= Moved[i].cycle
    <3> SUFFICES ASSUME NEW i \in 1 .. Len(Moved), NEW j \in 1 .. Len(Moved), i < j
                 PROVE  Moved[j].cycle <= Moved[i].cycle
      OBVIOUS
    <3>1. Len(Moved) \in Nat /\ Len(Clocked) = Len(pipeline)
      BY MovedFacts, ClockedFacts
    <3>2. CASE Delivered
      <4>1. /\ i + 1 \in 1 .. Len(Clocked) /\ j + 1 \in 1 .. Len(Clocked) /\ i + 1 < j + 1
            /\ Moved[i] = Clocked[i + 1] /\ Moved[j] = Clocked[j + 1]
        BY <1>3, <3>1, <3>2, MovedFacts
      <4> QED BY <2>1, <4>1
    <3>3. CASE ~Delivered
      BY <2>1, <3>1, <3>3, MovedFacts
    <3> QED BY <3>2, <3>3
  <2>3. Moved \in Seq(Transaction) /\ Len(Moved) \in Nat
    BY MovedFacts
  <2>4. \A i \in 1 .. Len(Moved) : Moved[i].cycle \in Nat
    <3>1. Moved \in [1 .. Len(Moved) -> Transaction]
      BY <2>3, LenProperties
    <3> QED BY <1>3, <3>1 DEF Transaction
  <2>5. DOMAIN pipeline' = 1 .. Len(pipeline')
    BY <1>8, LenProperties
  <2>6. CASE Emitted /\ AluDepth # 0
    <3>1. /\ Len(pipeline') = Len(Moved) + 1
          /\ \A i \in 1 .. Len(Moved) : pipeline'[i] = Moved[i]
          /\ pipeline'[Len(Moved) + 1] = new
      BY <1>2, <2>3, <2>6, AppendProperties
    <3> QED BY <1>4, <2>2, <2>3, <2>4, <2>5, <3>1 DEF PipelineInOrder
  <2>7. CASE ~(Emitted /\ AluDepth # 0)
    BY <1>2, <2>2, <2>5, <2>7 DEF PipelineInOrder
  <2> QED BY <2>6, <2>7
<1> QED BY <1>9, <1>10, <1>11 DEF ITyped

(* Every step keeps types, buffers and the order in the pipeline.           *)
LEMMA NextTyped == ITyped /\ [Next]_vars => ITyped'
<1> SUFFICES ASSUME ITyped, [Next]_vars PROVE ITyped'
  OBVIOUS
<1>1. CASE UNCHANGED vars
  <2>1. config' = config /\ UNCHANGED vars
    BY <1>1 DEF vars
  <2> QED BY <2>1, ConfigKept DEF vars, ITyped, TypeOK, BuffersConsistent, PipelineInOrder
<1> QED
  BY <1>1, ArriveTyped, SimStep3Typed, SimStep2Typed, SimStep1Typed DEF Next

-----------------------------------------------------------------------------
(***************************************************************************)
(* Credit.  AluDepth # 0 throughout.                                       *)
(***************************************************************************)
IKept == ITyped /\ CreditKept /\ PipelineApart

(* Every port has room at first.                                            *)
LEMMA InitKept == Init => CreditKept /\ PipelineApart
<1> SUFFICES ASSUME Init PROVE CreditKept /\ PipelineApart
  OBVIOUS
<1>1. In!NotFull(In!EmptyRing) /\ Len(pipeline) = 0
  BY InFacts, EmptySeq DEF Init
<1> QED BY <1>1 DEF Init, CreditKept, PipelineApart

(* A token is sent only where credit is held, so the promise is the old one.*)
LEMMA ArriveKept ==
  ASSUME IKept, NEW p \in Operand, NEW tok \in config.sent[p], Arrive(p, tok)
  PROVE  CreditKept' /\ PipelineApart'
<1>1. /\ config' = config /\ input_port' = [input_port EXCEPT ![p] = tok]
      /\ pc = "simStep3" /\ thispe_bp[p]
      /\ UNCHANGED <<pc, inbuf, thispe_bp, pipeline, break_state, stall_one, outbuf>>
  BY DEF Arrive
<1>2. ASSUME NEW r \in Operand, Owed(r)' PROVE Owed(r)
  BY <1>1, <1>2 DEF IKept, ITyped, TypeOK, Owed
<1>3. WillTake' = WillTake
  BY <1>1, ConfigKept DEF WillTake, OperandsGot
<1>4. CreditKept'
  BY <1>1, <1>2, <1>3, ConfigKept DEF IKept, CreditKept
<1>5. PipelineApart'
  BY <1>1, ConfigKept DEF IKept, PipelineApart, NotHeldUp
<1> QED BY <1>4, <1>5

(* Sending only makes room, for the promise and for the pipeline.           *)
LEMMA SimStep3Kept ==
  ASSUME IKept, NEW next_bp \in BOOLEAN, SimStep3(next_bp)
  PROVE  CreditKept' /\ PipelineApart'
<1>1. /\ config' = config /\ pc = "simStep3" /\ pc' = "simStep2"
      /\ outbuf' = IF next_bp THEN Out!Reset(outbuf) ELSE outbuf
      /\ UNCHANGED <<inbuf, input_port, thispe_bp, pipeline, break_state, stall_one>>
  BY DEF SimStep3
<1>2. Out!RingOK(outbuf)
  BY DEF IKept, ITyped, BuffersConsistent
<1>3. Out!NotFull(outbuf) => Out!NotFull(outbuf')
  BY <1>1, <1>2, OutFacts
<1>4. WillTake => WillTake'
  BY <1>1, <1>3, ConfigKept DEF WillTake, OperandsGot
<1>5. CreditKept'
  BY <1>1, <1>4, ConfigKept DEF IKept, CreditKept, Owed
<1>6. NotHeldUp' => NotHeldUp
  <2>1. /\ Out!Content(outbuf) \in Seq(Token)
        /\ Out!Content(Out!Reset(outbuf)) = IF Out!Content(outbuf) = << >> THEN << >>
                                            ELSE Tail(Out!Content(outbuf))
    BY <1>2, OutFacts
  <2>2. Len(Out!Content(outbuf)) \in Nat
    BY <2>1, LenProperties
  <2>3. Out!Content(outbuf) # << >> => Len(Tail(Out!Content(outbuf))) = Len(Out!Content(outbuf)) - 1
    BY <2>1, HeadTailProperties
  <2>4. Len(Out!Content(outbuf)) <= Len(Out!Content(outbuf')) + 1
    BY <1>1, <2>1, <2>2, <2>3, EmptySeq
  <2>5. Len(Out!Content(outbuf')) \in Nat /\ OutDepth \in Nat
    <3>1. Out!RingOK(outbuf')
      BY <1>1, <1>2, OutFacts
    <3> QED BY <3>1, OutFacts, LenProperties, PEAssumption
  <2> QED BY <1>1, <2>2, <2>4, <2>5 DEF NotHeldUp
<1>7. PipelineApart'
  BY <1>1, <1>6, ConfigKept DEF IKept, PipelineApart
<1> QED BY <1>5, <1>7

(* Who is promised room is given it.                                        *)
LEMMA PromiseKept ==
  ASSUME ITyped, SimStep2, WillTake
  PROVE  Taken
<1>1. AluDepth \in Nat /\ Len(pipeline) \in Nat /\ Len(pipeline) <= AluDepth /\ (IsMul => AluDepth = 3)
  BY ConfigFacts, LenProperties DEF ITyped, TypeOK
<1>2. AluDepth # 0
  BY <1>1 DEF WillTake
<1>3. Len(Moved) < AluDepth
  <2>1. CASE Len(pipeline) < AluDepth
    BY <1>1, <2>1, MovedFacts
  <2>2. CASE ~(Len(pipeline) < AluDepth)
    <3>1. IsMul /\ Out!NotFull(outbuf) /\ pipeline[1].cycle = AluDepth - 1
      BY <2>2 DEF WillTake
    <3>2. pipeline # << >>
      BY <1>1, <1>2, <2>2, EmptySeq
    <3>3. Out!CanReceive(outbuf)
      BY <3>1, OutFacts DEF ITyped, BuffersConsistent
    <3>4. Delivered
      BY <3>1, <3>2, <3>3 DEF Delivered, Ready
    <3> QED BY <1>1, <3>4, MovedFacts
  <2> QED BY <2>1, <2>2
<1> QED BY <1>2, <1>3 DEF WillTake, Taken, Room

(* simStep2 keeps the promise: a full port whose upstream sent is taken from.*)
LEMMA SimStep2Credit ==
  ASSUME IKept, SimStep2
  PROVE  CreditKept'
<1>1. /\ config' = config /\ pc = "simStep2" /\ pc' = "simStep1" /\ input_port' = input_port
      /\ inbuf' = IF Taken THEN [p \in Operand |-> In!Reset(inbuf[p])] ELSE inbuf
  BY SimStep2Values
<1> SUFFICES ASSUME NEW p \in Operand, input_port[p] # Free
             PROVE  In!NotFull(inbuf'[p])
  BY <1>1, ConfigKept DEF CreditKept, Owed
<1>2. In!RingOK(inbuf[p]) /\ config \in Configs
  BY DEF IKept, ITyped, TypeOK, BuffersConsistent
<1>3. CASE In!NotFull(inbuf[p])
  BY <1>1, <1>2, <1>3, InFacts
<1>4. CASE ~In!NotFull(inbuf[p])
  <2>1. WillTake
    BY <1>4 DEF IKept, CreditKept, Owed
  <2>2. Taken /\ In!NotEmpty(inbuf[p])
    BY <2>1, PromiseKept DEF IKept, WillTake, OperandsGot
  <2> QED BY <1>1, <1>2, <2>2, InFacts
<1> QED BY <1>3, <1>4

(* The pipeline of mul closes up only behind a full outbuffer.              *)
LEMMA SimStep2Apart ==
  ASSUME IKept, SimStep2
  PROVE  PipelineApart'
<1> SUFFICES ASSUME IsMul
             PROVE  /\ Len(pipeline') >= 2 => pipeline'[1].cycle >= 1
                    /\ Len(pipeline') = 3 /\ NotHeldUp'
                         => pipeline'[1].cycle = 2 /\ pipeline'[2].cycle >= 1
  BY SimStep2Values, ConfigKept DEF PipelineApart
<1>1. ITyped /\ pc = "simStep2" /\ pc' = "simStep1"
  BY SimStep2Values DEF IKept
<1>2. AluDepth = 3 /\ OutDepth \in Nat
  BY ConfigFacts, PEAssumption DEF IKept, ITyped, TypeOK
<1>3. /\ Len(pipeline) >= 2 => pipeline[1].cycle >= 1
      /\ Len(pipeline) = 3 /\ Len(Out!Content(outbuf)) < OutDepth - 1
           => pipeline[1].cycle = 2 /\ pipeline[2].cycle >= 1
  BY <1>1 DEF IKept, PipelineApart, NotHeldUp
<1>4. /\ Len(pipeline) \in Nat /\ Len(pipeline) <= 3
      /\ \A i \in 1 .. Len(pipeline) : pipeline[i].cycle \in 0 .. 2
      /\ \A i, j \in 1 .. Len(pipeline) : i < j => pipeline[j].cycle <= pipeline[i].cycle
  <2>1. pipeline \in [1 .. Len(pipeline) -> Transaction] /\ Len(pipeline) \in Nat
    BY <1>1, LenProperties DEF ITyped, TypeOK
  <2> QED BY <1>1, <1>2, <2>1 DEF ITyped, TypeOK, Transaction, PipelineInOrder
<1>5. /\ \A i \in 1 .. Len(pipeline) :
            Clocked[i].cycle = IF Clocking /\ pipeline[i].cycle < 2
                               THEN pipeline[i].cycle + 1 ELSE pipeline[i].cycle
      /\ Clocking <=> Out!NotFull(outbuf) \/ (pipeline # << >> /\ pipeline[1].cycle < 2)
  BY <1>1, <1>2, ClockedFacts DEF Clocking
<1> DEFINE new == [result |-> Result(AluInput), cycle |-> 0]
<1>6. /\ new.cycle = 0
      /\ Emitted => Taken /\ Len(Moved) < 3
      /\ pipeline' = IF Emitted THEN Append(Moved, new) ELSE Moved
      /\ outbuf' = Stepped
      /\ Emitted => new \in Transaction
  BY <1>1, <1>2, EmittedFacts
<1> HIDE DEF new
<1>7. /\ Moved \in Seq(Transaction) /\ Len(Moved) \in Nat
  BY <1>1, MovedFacts
<1>8. Emitted => /\ Len(pipeline') = Len(Moved) + 1
                 /\ \A i \in 1 .. Len(Moved) : pipeline'[i] = Moved[i]
                 /\ pipeline'[Len(Moved) + 1] = new
  BY <1>6, <1>7, AppendProperties
<1>9. /\ Out!RingOK(outbuf) /\ Out!Content(outbuf) \in Seq(Token)
      /\ Len(Out!Content(outbuf)) \in Nat
      /\ Out!NotFull(outbuf) <=> Len(Out!Content(outbuf)) < OutDepth
  BY <1>1, OutFacts, LenProperties DEF ITyped, BuffersConsistent
(* The front leaves: outbuffer is what it was before simStep3 or emptier.   *)
<1>10. CASE Delivered
  <2>1. /\ Len(pipeline) >= 1 /\ pipeline # << >> /\ pipeline[1].cycle = 2 /\ Clocking
        /\ Len(Moved) = Len(pipeline) - 1
        /\ \A i \in 1 .. Len(Moved) : Moved[i] = Clocked[i + 1]
    <3>1. pipeline # << >> /\ Out!NotFull(outbuf) /\ Head(pipeline).cycle = AluDepth - 1
      BY <1>1, <1>10, MovedFacts
    <3>2. Len(Moved) = Len(pipeline) - 1 /\ \A i \in 1 .. Len(Moved) : Moved[i] = Clocked[i + 1]
      BY <1>1, <1>10, MovedFacts
    <3> QED BY <1>2, <1>4, <1>5, <1>7, <3>1, <3>2
  <2>2. \A i \in 1 .. Len(Moved) :
          Moved[i].cycle = IF pipeline[i + 1].cycle < 2 THEN pipeline[i + 1].cycle + 1
                                                        ELSE pipeline[i + 1].cycle
    BY <1>4, <1>5, <2>1
  <2>3. Len(Moved) <= 2 /\ \A i \in 1 .. Len(Moved) : Moved[i].cycle >= 1
    BY <1>4, <2>1, <2>2
  <2>4. Len(pipeline') >= 2 => pipeline'[1].cycle >= 1
    BY <1>6, <1>7, <1>8, <2>3
  <2>5. ASSUME Len(pipeline') = 3, NotHeldUp'
        PROVE  pipeline'[1].cycle = 2 /\ pipeline'[2].cycle >= 1
    <3>1. Emitted /\ Len(Moved) = 2 /\ Len(pipeline) = 3
      <4>1. Len(Moved) \in Nat /\ Len(Moved) <= 2 /\ Len(pipeline') = 3
        BY ONLY <1>7, <2>3, <2>5
      <4>2. ~Emitted => pipeline' = Moved
        BY ONLY <1>6
      <4>3. Emitted
        BY ONLY <4>1, <4>2
      <4>4. Len(pipeline') = Len(Moved) + 1
        BY ONLY <1>8, <4>3
      <4>5. \A m, n \in Nat : m + 1 = 3 /\ m = n - 1 => m = 2 /\ n = 3
        OBVIOUS
      <4>6. Len(Moved) + 1 = 3 /\ Len(Moved) = Len(pipeline) - 1
        BY ONLY <2>1, <4>1, <4>4
      <4>7. Len(Moved) \in Nat /\ Len(pipeline) \in Nat
        BY ONLY <1>4, <4>1
      <4> QED BY ONLY <4>3, <4>5, <4>6, <4>7
    <3>2. Len(Out!Content(outbuf)) < OutDepth - 1
      <4>1. Out!Content(Stepped) = Append(Out!Content(outbuf), Head(pipeline).result)
        BY <1>1, <1>10, SteppedFacts
      <4>2. Head(pipeline).result \in Token
        BY <1>1, <1>10, MovedFacts DEF Transaction
      <4>3. Len(Out!Content(Stepped)) = Len(Out!Content(outbuf)) + 1
        BY <1>9, <4>1, <4>2, AppendProperties
      <4>4. Len(Out!Content(Stepped)) < OutDepth
        BY <1>1, <1>6, <2>5 DEF NotHeldUp
      <4> QED BY <1>2, <1>9, <4>3, <4>4
    <3>3. pipeline[2].cycle >= 1
      BY <1>3, <3>1, <3>2
    <3>4. pipeline'[1] = Moved[1] /\ pipeline'[2] = Moved[2]
      BY <1>8, <3>1
    <3>5. pipeline[2].cycle \in 1 .. 2
      BY <1>4, <3>1, <3>3
    <3>6. Moved[1].cycle = 2
      BY <2>2, <3>1, <3>5
    <3>7. Moved[2].cycle >= 1
      BY <2>3, <3>1
    <3> QED BY <3>4, <3>6, <3>7
  <2> QED BY <2>4, <2>5
(* The front stays: it is not done, or outbuffer is full.                   *)
<1>11. CASE ~Delivered
  <2>1. Moved = Clocked /\ Len(Moved) = Len(pipeline) /\ Stepped = outbuf
    BY <1>1, <1>11, MovedFacts DEF Stepped
  <2>2. Out!NotFull(outbuf) /\ Len(pipeline) >= 1 => pipeline[1].cycle # 2
    <3>1. Out!NotFull(outbuf) => Out!CanReceive(outbuf)
      BY <1>9, OutFacts
    <3>2. Len(pipeline) >= 1 => pipeline # << >>
      BY EmptySeq
    <3> QED BY <1>2, <1>11, <3>1, <3>2 DEF Delivered, Ready
  <2>3. Len(pipeline) >= 1 => pipeline # << >>
    BY EmptySeq
  <2>4. Len(pipeline) >= 1 => Moved[1].cycle >= 1
    BY <1>4, <1>5, <2>1, <2>3
  <2>5. Len(pipeline') >= 2 => pipeline'[1].cycle >= 1
    BY <1>4, <1>6, <1>8, <2>1, <2>4
  <2>6. ASSUME Len(pipeline') = 3, NotHeldUp'
        PROVE  pipeline'[1].cycle = 2 /\ pipeline'[2].cycle >= 1
    <3>1. Out!NotFull(outbuf)
      BY <1>1, <1>6, <1>9, <2>1, <2>6 DEF NotHeldUp
    <3>2. Len(pipeline) >= 2
      BY <1>4, <1>6, <1>8, <2>1, <2>6
    <3>3. pipeline'[1] = Moved[1] /\ pipeline'[2] = Moved[2]
      BY <1>4, <1>6, <1>8, <2>1, <3>2
    <3>4. pipeline[1].cycle = 1 /\ Clocking
      BY <1>3, <1>4, <1>5, <2>2, <3>1, <3>2
    <3>5. pipeline[2].cycle \in 0 .. 1
      BY <1>4, <3>2, <3>4
    <3>6. Moved[1].cycle = 2 /\ Moved[2].cycle >= 1
      BY <1>4, <1>5, <2>1, <3>2, <3>4, <3>5
    <3> QED BY <3>3, <3>6
  <2> QED BY <2>5, <2>6
<1> QED BY <1>10, <1>11

(* Pebp's promise is one that simStep2 can keep.                            *)
LEMMA SimStep1Kept ==
  ASSUME IKept, AluDepth # 0, SimStep1
  PROVE  CreditKept' /\ PipelineApart'
<1> DEFINE full     == {p \in Operand : ~In!NotFull(Stored[p])}
           stalled  == stall_one /\ AluDepth # 0 /\ OperandsGot(Stored)
           first(p) == \A r \in full : p <= r
<1>1. /\ config' = config /\ pc = "simStep1" /\ pc' = "simStep3" /\ inbuf' = Stored
      /\ input_port' = [p \in Operand |-> Free]
      /\ thispe_bp' = [p \in Operand |-> \/ p \notin full
                                         \/ Promise(Stored) /\ ~(stalled /\ first(p))]
      /\ stall_one' = (stall_one /\ ~(stalled /\ full # {}))
      /\ UNCHANGED <<pipeline, break_state, outbuf>>
  BY DEF SimStep1, Stored
<1>2. ASSUME NEW p \in Operand, Owed(p)', ~In!NotFull(inbuf'[p])
      PROVE  WillTake'
  <2>1. p \in full
    BY <1>1, <1>2
  <2>2. Promise(Stored)
    BY <1>1, <1>2, <2>1, ConfigKept DEF Owed
  <2>3. OperandsGot(Stored) /\ (Room(pipeline, outbuf) \/ (IsMul /\ Out!NotFull(outbuf)))
    BY <2>2 DEF Promise
  <2>4. ~stall_one'
    BY <1>1, <2>1, <2>3
  <2>5. Len(pipeline) < AluDepth
          \/ (IsMul /\ Out!NotFull(outbuf) /\ pipeline[1].cycle = AluDepth - 1)
    <3>1. CASE Room(pipeline, outbuf)
      BY <3>1 DEF Room
    <3>2. CASE IsMul /\ Out!NotFull(outbuf) /\ ~(Len(pipeline) < AluDepth)
      <4>1. AluDepth = 3 /\ Len(pipeline) \in Nat /\ Len(pipeline) <= AluDepth
        BY <3>2, ConfigFacts, LenProperties DEF IKept, ITyped, TypeOK
      <4>2. Len(pipeline) = 3
        <5>1. Len(pipeline) <= 3 /\ ~(Len(pipeline) < 3)
          BY <3>2, <4>1
        <5>2. \A n \in Nat : n <= 3 /\ ~(n < 3) => n = 3
          OBVIOUS
        <5> QED BY ONLY <4>1, <5>1, <5>2
      <4>3. NotHeldUp
        BY <1>1, <3>2, OutFacts DEF NotHeldUp, IKept, ITyped, BuffersConsistent
      <4> QED BY <3>2, <4>1, <4>2, <4>3 DEF IKept, PipelineApart
    <3> QED BY <2>3, <3>1, <3>2
  <2>6. OperandsGot(inbuf)'
    BY <1>1, <2>3, ConfigKept DEF OperandsGot
  <2>7. /\ AluDepth' = AluDepth /\ pipeline' = pipeline /\ (IsMul' <=> IsMul)
        /\ Out!NotFull(outbuf)' <=> Out!NotFull(outbuf)
    BY <1>1, ConfigKept
  <2> QED BY <2>4, <2>5, <2>6, <2>7 DEF WillTake
<1>3. CreditKept'
  BY <1>1, <1>2, ConfigKept DEF CreditKept
<1>4. PipelineApart'
  BY <1>1, ConfigKept DEF IKept, PipelineApart, NotHeldUp
<1> QED BY <1>3, <1>4

(* Every step keeps credit and the distance between transactions.           *)
LEMMA NextKept ==
  ASSUME IKept, AluDepth # 0, [Next]_vars
  PROVE  IKept'
<1>1. ITyped'
  BY NextTyped DEF IKept
<1>2. CreditKept' /\ PipelineApart'
  <2>1. CASE UNCHANGED vars
    <3>1. config' = config /\ UNCHANGED vars
      BY <2>1 DEF vars
    <3> QED BY <3>1, ConfigKept
        DEF vars, IKept, CreditKept, Owed, WillTake, OperandsGot, PipelineApart, NotHeldUp
  <2>2. CASE SimStep2
    BY <2>2, SimStep2Credit, SimStep2Apart
  <2> QED
    BY <2>1, <2>2, ArriveKept, SimStep3Kept, SimStep1Kept DEF Next
<1> QED BY <1>1, <1>2 DEF IKept

-----------------------------------------------------------------------------
(***************************************************************************)
(* The theorems.                                                           *)
(***************************************************************************)
LEMMA ConfigConstant ==
  ASSUME ITyped, [Next]_vars
  PROVE  AluDepth' = AluDepth
BY ConfigKept DEF Next, Arrive, SimStep3, SimStep2, SimStep1, vars, AluDepth

(* The invariant of the credit protocol holds in every reachable state.     *)
THEOREM Invariance == Spec => []IInv
<1>1. Init => IInv
  BY InitTyped, InitKept DEF IInv, ITyped
<1>2. IInv /\ [Next]_vars => IInv'
  <2> SUFFICES ASSUME IInv, [Next]_vars PROVE IInv'
    OBVIOUS
  <2>1. ITyped /\ ITyped'
    BY NextTyped DEF IInv, ITyped
  <2>2. AluDepth # 0 => CreditKept' /\ PipelineApart'
    BY <2>1, NextKept DEF IKept, IInv
  <2>3. AluDepth' = AluDepth
    BY <2>1, ConfigConstant
  <2> QED BY <2>1, <2>2, <2>3 DEF IInv, ITyped
<1> QED BY <1>1, <1>2, PTL DEF Spec

(* Every variable keeps its type: in particular no port overflows its       *)
(* entries and the ALU never holds more transactions than its depth.        *)
THEOREM TypeCorrect == Spec => []TypeOK
BY Invariance, PTL DEF IInv

(* The transaction compute looks at, the front, is always the one furthest  *)
(* along.                                                                   *)
THEOREM FrontDoneFirst == Spec => []PipelineInOrder
BY Invariance, PTL DEF IInv

(* If the ALU has a stage, a token that was sent on credit is stored.       *)
THEOREM CreditHonoured == Spec => [](AluDepth # 0 => NeverRefused)
<1>1. IInv => (AluDepth # 0 => NeverRefused)
  <2> SUFFICES ASSUME IInv, AluDepth # 0, pc = "simStep1", NEW p \in Operand,
                      input_port[p] # Free
               PROVE  In!CanReceive(inbuf[p])
    BY DEF NeverRefused
  <2>1. In!NotFull(inbuf[p])
    BY DEF IInv, CreditKept, Owed
  <2> QED BY <2>1, InFacts DEF IInv, TypeOK, BuffersConsistent
<1> QED BY <1>1, Invariance, PTL
-----------------------------------------------------------------------------
(***************************************************************************)
(* The element implements Join.  First, sequences.                         *)
(***************************************************************************)
LEMMA ConcatAppend ==
  ASSUME NEW S, NEW s \in Seq(S), NEW t \in Seq(S), NEW e \in S
  PROVE  s \o Append(t, e) = Append(s \o t, e)
<1>1. s \o t \in Seq(S) /\ <<e>> \in Seq(S)
  BY ConcatProperties
<1>2. Append(t, e) = t \o <<e>> /\ Append(s \o t, e) = (s \o t) \o <<e>>
  BY <1>1, AppendIsConcat
<1> QED BY <1>1, <1>2, ConcatAssociative

(* The head and the tail of a concatenation.                                *)
LEMMA ConcatTail ==
  ASSUME NEW S, NEW s \in Seq(S), NEW t \in Seq(S), s # << >>
  PROVE  s \o t # << >> /\ Head(s \o t) = Head(s) /\ Tail(s \o t) = Tail(s) \o t
<1>1. /\ s \o t \in Seq(S) /\ Len(s) \in Nat \ {0} /\ Len(t) \in Nat
      /\ Len(s \o t) = Len(s) + Len(t)
      /\ \A i \in 1 .. Len(s) + Len(t) :
           (s \o t)[i] = IF i <= Len(s) THEN s[i] ELSE t[i - Len(s)]
  BY ConcatProperties, LenProperties, EmptySeq
<1>2. s \o t # << >>
  BY <1>1, EmptySeq
<1>3. /\ Tail(s) \in Seq(S) /\ Len(Tail(s)) = Len(s) - 1
      /\ \A i \in 1 .. Len(Tail(s)) : Tail(s)[i] = s[i + 1]
  BY HeadTailProperties
<1>4. /\ Tail(s) \o t \in Seq(S)
      /\ Len(Tail(s) \o t) = Len(Tail(s)) + Len(t)
      /\ \A i \in 1 .. Len(Tail(s)) + Len(t) :
           (Tail(s) \o t)[i] = IF i <= Len(Tail(s)) THEN Tail(s)[i] ELSE t[i - Len(Tail(s))]
  BY <1>3, ConcatProperties
<1>5. /\ Tail(s \o t) \in Seq(S) /\ Len(Tail(s \o t)) = Len(s \o t) - 1
      /\ \A i \in 1 .. Len(Tail(s \o t)) : Tail(s \o t)[i] = (s \o t)[i + 1]
  BY <1>1, <1>2, HeadTailProperties
<1> DEFINE u == Tail(s \o t)
           v == Tail(s) \o t
<1>6. Len(u) = Len(s) + Len(t) - 1 /\ Len(v) = Len(u) /\ u \in Seq(S) /\ v \in Seq(S)
  BY <1>1, <1>3, <1>4, <1>5
<1>7. ASSUME NEW i \in 1 .. Len(u) PROVE u[i] = v[i]
  <2>1. i \in Nat /\ i >= 1 /\ i <= Len(s) + Len(t) - 1
    BY <1>1, <1>6
  <2>2. u[i] = (s \o t)[i + 1]
    BY <1>5
  <2>3. (s \o t)[i + 1] = IF i + 1 <= Len(s) THEN s[i + 1] ELSE t[i + 1 - Len(s)]
    BY <1>1, <2>1
  <2>4. v[i] = IF i <= Len(s) - 1 THEN Tail(s)[i] ELSE t[i - (Len(s) - 1)]
    BY <1>1, <1>3, <1>4, <2>1
  <2>5. i <= Len(s) - 1 => Tail(s)[i] = s[i + 1]
    BY <1>1, <1>3, <2>1
  <2>6. i + 1 - Len(s) = i - (Len(s) - 1) /\ (i + 1 <= Len(s) <=> i <= Len(s) - 1)
    BY <1>1, <2>1
  <2> HIDE DEF u, v
  <2> QED BY <2>2, <2>3, <2>4, <2>5, <2>6
<1>8. u = v
  <2> HIDE DEF u, v
  <2> QED BY <1>6, <1>7, SeqEqual
<1>9. Head(s \o t) = Head(s)
  <2>1. Head(s \o t) = (s \o t)[1] /\ Head(s) = s[1]
    BY <1>1, <1>2
  <2> QED BY <1>1, <2>1
<1> QED BY <1>2, <1>8, <1>9

(* Moving the head of the second sequence to the end of the first.          *)
LEMMA ConcatMove ==
  ASSUME NEW S, NEW s \in Seq(S), NEW t \in Seq(S), t # << >>
  PROVE  Append(s, Head(t)) \o Tail(t) = s \o t
<1> DEFINE h == Head(t)
<1>1. h \in S /\ Tail(t) \in Seq(S) /\ <<h>> \in Seq(S) /\ <<h>> # << >>
  BY HeadTailProperties
<1>2. <<h>> \o Tail(t) = t
  <2>1. /\ Len(t) \in Nat \ {0} /\ Len(Tail(t)) = Len(t) - 1
        /\ \A i \in 1 .. Len(Tail(t)) : Tail(t)[i] = t[i + 1]
    BY HeadTailProperties, EmptySeq
  <2>2. Len(<<h>>) = 1 /\ <<h>>[1] = t[1]
    OBVIOUS
  <2> HIDE DEF h
  <2>3. /\ <<h>> \o Tail(t) \in Seq(S) /\ Len(<<h>> \o Tail(t)) = Len(t)
        /\ \A i \in 1 .. Len(t) :
             (<<h>> \o Tail(t))[i] = IF i <= 1 THEN <<h>>[i] ELSE Tail(t)[i - 1]
    BY <1>1, <2>1, <2>2, ConcatProperties
  <2>4. \A i \in 1 .. Len(t) : (<<h>> \o Tail(t))[i] = t[i]
    BY <2>1, <2>2, <2>3
  <2> QED BY <2>3, <2>4, SeqEqual
<1> HIDE DEF h
<1>3. Append(s, h) = s \o <<h>>
  BY <1>1, AppendIsConcat
<1>4. (s \o <<h>>) \o Tail(t) = s \o t
  BY <1>1, <1>2, ConcatAssociative
<1> QED BY <1>3, <1>4 DEF h

(* The results in the pipeline.                                             *)
LEMMA ResultsType ==
  ASSUME NEW pipe \in Seq(Transaction)
  PROVE  /\ Results(pipe) \in Seq(Token) /\ Len(Results(pipe)) = Len(pipe)
         /\ \A i \in 1 .. Len(pipe) : Results(pipe)[i] = pipe[i].result
<1>1. /\ Len(pipe) \in Nat /\ DOMAIN pipe = 1 .. Len(pipe)
      /\ \A i \in 1 .. Len(pipe) : pipe[i].result \in Token
  <2>1. /\ Len(pipe) \in Nat /\ DOMAIN pipe = 1 .. Len(pipe)
        /\ pipe \in [1 .. Len(pipe) -> Transaction]
    BY LenProperties
  <2> QED BY <2>1 DEF Transaction
<1>2. Results(pipe) = [i \in 1 .. Len(pipe) |-> pipe[i].result]
  BY <1>1 DEF Results
<1>3. Results(pipe) \in [1 .. Len(pipe) -> Token]
  BY <1>1, <1>2
<1>4. Results(pipe) \in Seq(Token)
  BY <1>1, <1>3, SeqDef
<1>5. Len(Results(pipe)) = Len(pipe)
  BY <1>1, <1>2, <1>4, LenProperties
<1> QED BY <1>2, <1>4, <1>5

(* A transaction that enters brings its result.                             *)
LEMMA ResultsAppend ==
  ASSUME NEW pipe \in Seq(Transaction), NEW t \in Transaction
  PROVE  Results(Append(pipe, t)) = Append(Results(pipe), t.result)
<1> DEFINE u == Results(Append(pipe, t))
           v == Append(Results(pipe), t.result)
<1>1. /\ Append(pipe, t) \in Seq(Transaction) /\ Len(pipe) \in Nat
      /\ Len(Append(pipe, t)) = Len(pipe) + 1
      /\ \A i \in 1 .. Len(pipe) : Append(pipe, t)[i] = pipe[i]
      /\ Append(pipe, t)[Len(pipe) + 1] = t
  BY AppendProperties, LenProperties
<1>2. /\ Results(pipe) \in Seq(Token) /\ Len(Results(pipe)) = Len(pipe)
      /\ \A i \in 1 .. Len(pipe) : Results(pipe)[i] = pipe[i].result
  BY ResultsType
<1>3. /\ u \in Seq(Token) /\ Len(u) = Len(pipe) + 1
      /\ \A i \in 1 .. Len(pipe) + 1 : u[i] = Append(pipe, t)[i].result
  BY <1>1, ResultsType
<1>4. t.result \in Token
  BY DEF Transaction
<1>5. /\ v \in Seq(Token) /\ Len(v) = Len(pipe) + 1
      /\ \A i \in 1 .. Len(pipe) : v[i] = Results(pipe)[i]
      /\ v[Len(pipe) + 1] = t.result
  BY <1>2, <1>4, AppendProperties
<1> HIDE DEF u, v
<1>6. ASSUME NEW i \in 1 .. Len(u) PROVE u[i] = v[i]
  <2>1. CASE i \in 1 .. Len(pipe)
    BY <1>1, <1>2, <1>3, <1>5, <2>1
  <2>2. CASE i = Len(pipe) + 1
    BY <1>1, <1>3, <1>5, <2>2
  <2> QED BY <1>1, <1>3, <2>1, <2>2
<1> QED
  <2>1. u = v
    BY <1>3, <1>5, <1>6, SeqEqual
  <2> QED BY <2>1 DEF u, v

(* Clocking changes no result, and delivering removes the oldest.           *)
LEMMA ResultsMoved ==
  ASSUME ITyped
  PROVE  Results(Moved) = IF Delivered THEN Tail(Results(pipeline)) ELSE Results(pipeline)
<1>1. /\ pipeline \in Seq(Transaction) /\ Clocked \in Seq(Transaction)
      /\ Moved \in Seq(Transaction) /\ Len(Clocked) = Len(pipeline)
      /\ Len(pipeline) \in Nat /\ Len(Moved) \in Nat
      /\ \A i \in 1 .. Len(pipeline) : Clocked[i].result = pipeline[i].result
  BY ClockedFacts, MovedFacts, LenProperties DEF ITyped, TypeOK
<1>2. /\ Results(pipeline) \in Seq(Token) /\ Len(Results(pipeline)) = Len(pipeline)
      /\ \A i \in 1 .. Len(pipeline) : Results(pipeline)[i] = pipeline[i].result
  BY <1>1, ResultsType
<1>3. /\ Results(Moved) \in Seq(Token) /\ Len(Results(Moved)) = Len(Moved)
      /\ \A i \in 1 .. Len(Moved) : Results(Moved)[i] = Moved[i].result
  BY <1>1, ResultsType
<1>4. CASE Delivered
  <2>1. /\ pipeline # << >> /\ Len(Moved) = Len(pipeline) - 1
        /\ \A i \in 1 .. Len(Moved) : Moved[i] = Clocked[i + 1]
    BY <1>4, MovedFacts
  <2>2. Results(pipeline) # << >>
    BY <1>1, <1>2, <2>1, EmptySeq
  <2>3. /\ Tail(Results(pipeline)) \in Seq(Token)
        /\ Len(Tail(Results(pipeline))) = Len(Moved)
        /\ \A i \in 1 .. Len(Moved) : Tail(Results(pipeline))[i] = Results(pipeline)[i + 1]
    BY <1>2, <2>1, <2>2, HeadTailProperties
  <2>4. ASSUME NEW i \in 1 .. Len(Moved)
        PROVE  Results(Moved)[i] = Tail(Results(pipeline))[i]
    <3>1. i + 1 \in 1 .. Len(pipeline)
      BY <1>1, <2>1
    <3> QED BY <1>1, <1>2, <1>3, <2>1, <2>3, <3>1
  <2>5. Results(Moved) = Tail(Results(pipeline))
    BY <1>3, <2>3, <2>4, SeqEqual
  <2> QED BY <1>4, <2>5
<1>5. CASE ~Delivered
  <2>1. Moved = Clocked
    BY <1>5, MovedFacts
  <2>2. \A i \in 1 .. Len(Moved) : Results(Moved)[i] = Results(pipeline)[i]
    BY <1>1, <1>2, <1>3, <2>1
  <2>3. Results(Moved) = Results(pipeline)
    BY <1>1, <1>2, <1>3, <2>1, <2>2, SeqEqual
  <2> QED BY <1>5, <2>3
<1> QED BY <1>4, <1>5

(* The state of Join that the element's state stands for.                   *)
Inq  == [p \in Operand |-> UnderWay(p)]
Outq == Out!Content(outbuf) \o Results(pipeline)

(* What is under way on a port, by its buffer and its wire.                 *)
WayOf(buf, wire) == IF wire = Free THEN In!Content(buf) ELSE Append(In!Content(buf), wire)

(* What is under way, before a step.                                        *)
LEMMA UnderWayIs ==
  ASSUME ITyped, NEW p \in Operand
  PROVE  UnderWay(p) = WayOf(inbuf[p], input_port[p]) /\ In!Content(inbuf[p]) \in Seq(Token)
<1>1. In!Content(inbuf[p]) \in Seq(Token) /\ input_port[p] \in Token \cup {Free}
  BY InFacts DEF ITyped, TypeOK, BuffersConsistent
<1> QED BY <1>1, ConcatEmptySeq, AppendIsConcat DEF UnderWay, WayOf

(* What is under way, after it.                                             *)
LEMMA UnderWayNext ==
  ASSUME ITyped, ITyped', config' = config, NEW p \in Operand
  PROVE  UnderWay(p)' = WayOf(inbuf'[p], input_port'[p])
<1>1. In!RingOK(inbuf'[p]) /\ input_port'[p] \in Token \cup {Free}
  BY ConfigKept DEF ITyped, TypeOK, BuffersConsistent
<1>2. In!Content(inbuf'[p]) \in Seq(Token)
  BY <1>1, InFacts DEF ITyped, TypeOK
<1>3. UnderWay(p)' = In!Content(inbuf'[p]) \o
                       (IF input_port'[p] = Free THEN << >> ELSE <<input_port'[p]>>)
  BY ConfigKept DEF UnderWay
<1> QED BY <1>1, <1>2, <1>3, ConcatEmptySeq, AppendIsConcat DEF WayOf

(* What has yet to leave is bounded by outbuffer and pipeline.              *)
LEMMA OutqFacts ==
  ASSUME NEW out, Out!RingOK(out), NEW pipe \in Seq(Transaction)
  PROVE  /\ Out!Content(out) \in Seq(Token) /\ Results(pipe) \in Seq(Token)
         /\ Out!Content(out) \o Results(pipe) \in Seq(Token)
         /\ Len(Out!Content(out) \o Results(pipe)) = Len(Out!Content(out)) + Len(pipe)
<1>1. Out!Content(out) \in Seq(Token)
  BY OutFacts
<1>2. Results(pipe) \in Seq(Token) /\ Len(Results(pipe)) = Len(pipe)
  BY ResultsType
<1>3. /\ Out!Content(out) \o Results(pipe) \in Seq(Token)
      /\ Len(Out!Content(out) \o Results(pipe)) = Len(Out!Content(out)) + Len(Results(pipe))
  BY <1>1, <1>2, ConcatProperties
<1> QED BY <1>1, <1>2, <1>3

(* Both modules instantiate the same control logic.                         *)
LEMMA SameControl ==
  /\ J!Operand = Operand /\ J!AluDepth = AluDepth
  /\ J!InCapacity = config.inDepth + 1 /\ J!OutCapacity = AluDepth + OutDepth
  /\ \A args : /\ J!Result(args) = Result(args)
               /\ \A b : /\ J!Dropped(args, b) <=> Dropped(args, b)
                         /\ J!BrokenAfter(args, b) = BrokenAfter(args, b)
<1>1. J!Operand = Operand /\ J!AluDepth = AluDepth /\ J!ControlMode = ControlMode
  BY DEF J!Operand, Operand, J!AluDepth, AluDepth, J!ControlMode, ControlMode
<1>2. J!InCapacity = config.inDepth + 1 /\ J!OutCapacity = AluDepth + OutDepth
  BY <1>1 DEF J!InCapacity, J!OutCapacity
<1>3. ASSUME NEW args
      PROVE  /\ J!IsLast(args) = IsLast(args) /\ J!IsHole(args) = IsHole(args)
             /\ J!Asks(args) = Asks(args)
  BY DEF J!IsLast, IsLast, J!IsHole, IsHole, J!Asks, Asks,
         J!Operand, Operand, J!ControlMode, ControlMode
<1>4. ASSUME NEW args PROVE J!Result(args) = Result(args)
  BY <1>3 DEF J!Result, Result
<1>5. ASSUME NEW args, NEW b
      PROVE  (J!Dropped(args, b) <=> Dropped(args, b)) /\ J!BrokenAfter(args, b) = BrokenAfter(args, b)
  BY <1>1, <1>3 DEF J!Dropped, Dropped, J!BrokenAfter, BrokenAfter
<1> QED BY <1>1, <1>2, <1>4, <1>5

(* Sending is accepting an operand.                                         *)
LEMMA ArriveRefines ==
  ASSUME ITyped, ITyped', NEW p \in Operand, NEW tok \in config.sent[p], Arrive(p, tok)
  PROVE  J!Put(p, tok)
<1>1. /\ config' = config /\ input_port' = [input_port EXCEPT ![p] = tok]
      /\ input_port[p] = Free
      /\ UNCHANGED <<pc, inbuf, thispe_bp, pipeline, break_state, stall_one, outbuf>>
  BY DEF Arrive
<1>2. tok \in Token /\ tok # Free /\ config \in Configs
  BY ConfigFacts, PEAssumption DEF ITyped, TypeOK
<1>3. /\ UnderWay(p) = In!Content(inbuf[p]) /\ In!Content(inbuf[p]) \in Seq(Token)
      /\ Len(UnderWay(p)) < config.inDepth + 1
  <2>1. UnderWay(p) = In!Content(inbuf[p]) /\ In!Content(inbuf[p]) \in Seq(Token)
    BY <1>1, UnderWayIs DEF WayOf
  <2>2. Len(In!Content(inbuf[p])) <= config.inDepth
    BY <1>2, InFacts DEF ITyped, BuffersConsistent
  <2>3. Len(In!Content(inbuf[p])) \in Nat /\ config.inDepth \in Nat
    BY <1>2, <2>1, LenProperties, ConfigFacts
  <2> QED BY <2>1, <2>2, <2>3
<1>4. ASSUME NEW r \in Operand
      PROVE  UnderWay(r)' = IF r = p THEN Append(UnderWay(p), tok) ELSE UnderWay(r)
  <2>1. UnderWay(r)' = WayOf(inbuf[r], input_port'[r]) /\ UnderWay(r) = WayOf(inbuf[r], input_port[r])
    BY <1>1, UnderWayIs, UnderWayNext
  <2>2. input_port'[r] = IF r = p THEN tok ELSE input_port[r]
    BY <1>1 DEF ITyped, TypeOK
  <2> QED BY <1>2, <1>3, <2>1, <2>2 DEF WayOf
<1>5. Inq' = [Inq EXCEPT ![p] = Append(@, tok)]
  <2>1. Inq' = [r \in Operand |-> UnderWay(r)']
    BY <1>1, ConfigKept DEF Inq
  <2> QED BY <1>4, <2>1 DEF Inq
<1>6. Outq' = Outq
  BY <1>1 DEF Outq
<1> QED
  <2>1. Len(Inq[p]) < J!InCapacity
    BY <1>3, SameControl DEF Inq
  <2>2. Outq' = Outq /\ break_state' = break_state /\ config' = config
    BY <1>1, <1>6
  <2> QED BY <1>5, <2>1, <2>2 DEF J!Put, Inq, Outq

(* With credit the oldest result leaves, if there is one in outbuffer.      *)
LEMMA SimStep3Refines ==
  ASSUME ITyped, ITyped', NEW next_bp \in BOOLEAN, SimStep3(next_bp)
  PROVE  J!Get \/ UNCHANGED J!vars
<1>1. /\ config' = config /\ break_state' = break_state /\ pipeline' = pipeline
      /\ inbuf' = inbuf /\ input_port' = input_port
      /\ outbuf' = IF next_bp THEN Out!Reset(outbuf) ELSE outbuf
  BY DEF SimStep3
<1>2. Inq' = Inq
  BY <1>1, UnderWayIs, UnderWayNext, ConfigKept DEF Inq
<1>3. Out!RingOK(outbuf) /\ pipeline \in Seq(Transaction)
  BY DEF ITyped, TypeOK, BuffersConsistent
<1>4. Out!Content(outbuf) \in Seq(Token) /\ Results(pipeline) \in Seq(Token)
  BY <1>3, OutqFacts
<1>5. CASE next_bp /\ Out!Content(outbuf) # << >>
  <2>1. Out!Content(outbuf') = Tail(Out!Content(outbuf))
    BY <1>1, <1>3, <1>5, OutFacts
  <2>2. Outq # << >> /\ Tail(Outq) = Tail(Out!Content(outbuf)) \o Results(pipeline)
    BY <1>4, <1>5, ConcatTail DEF Outq
  <2>3. Outq' = Tail(Outq)
    BY <1>1, <2>1, <2>2 DEF Outq
  <2> QED BY <1>1, <1>2, <2>2, <2>3 DEF J!Get, Inq, Outq
<1>6. CASE ~(next_bp /\ Out!Content(outbuf) # << >>)
  <2>1. Out!Content(outbuf') = Out!Content(outbuf)
    BY <1>1, <1>3, <1>6, OutFacts
  <2>2. Outq' = Outq
    BY <1>1, <2>1 DEF Outq
  <2> QED BY <1>1, <1>2, <2>2 DEF J!vars, Inq, Outq
<1> QED BY <1>5, <1>6

(* Neither clocking nor delivering changes what has yet to leave.           *)
LEMMA OutqMoved ==
  ASSUME ITyped
  PROVE  /\ Out!Content(Stepped) \o Results(Moved) = Outq
         /\ Out!Content(Stepped) \in Seq(Token) /\ Results(Moved) \in Seq(Token)
<1>1. /\ Out!RingOK(outbuf) /\ Out!RingOK(Stepped)
      /\ pipeline \in Seq(Transaction) /\ Moved \in Seq(Transaction)
  BY SteppedFacts, MovedFacts DEF ITyped, TypeOK, BuffersConsistent
<1>2. /\ Out!Content(outbuf) \in Seq(Token) /\ Results(pipeline) \in Seq(Token)
      /\ Out!Content(Stepped) \in Seq(Token) /\ Results(Moved) \in Seq(Token)
  BY <1>1, OutqFacts
<1>3. CASE Delivered
  <2>1. /\ Out!Content(Stepped) = Append(Out!Content(outbuf), Head(pipeline).result)
        /\ Results(Moved) = Tail(Results(pipeline))
    BY <1>3, SteppedFacts, ResultsMoved
  <2>2. Results(pipeline) # << >> /\ Head(Results(pipeline)) = Head(pipeline).result
    <3>1. pipeline # << >> /\ Len(pipeline) \in Nat \ {0}
      BY <1>1, <1>3, MovedFacts, EmptySeq
    <3>2. Len(Results(pipeline)) = Len(pipeline) /\ Results(pipeline)[1] = pipeline[1].result
      BY <1>1, <3>1, ResultsType
    <3> QED BY <1>1, <1>2, <3>1, <3>2, EmptySeq
  <2> QED BY <1>2, <2>1, <2>2, ConcatMove DEF Outq
<1>4. CASE ~Delivered
  <2>1. Out!Content(Stepped) = Out!Content(outbuf) /\ Results(Moved) = Results(pipeline)
    BY <1>4, SteppedFacts, ResultsMoved
  <2> QED BY <1>2, <2>1 DEF Outq
<1> QED BY <1>3, <1>4

(* Taking operands is pairing the heads of the streams.                     *)
LEMMA SimStep2Refines ==
  ASSUME ITyped, ITyped', AluDepth # 0, SimStep2
  PROVE  J!Pair \/ UNCHANGED J!vars
<1>1. /\ config' = config /\ input_port' = input_port
      /\ inbuf' = IF Taken THEN [p \in Operand |-> In!Reset(inbuf[p])] ELSE inbuf
      /\ break_state' = IF Taken THEN BrokenAfter(AluInput, break_state) ELSE break_state
  BY SimStep2Values
<1> DEFINE new == [result |-> Result(AluInput), cycle |-> 0]
<1>2. /\ new.result = Result(AluInput)
      /\ Emitted => new \in Transaction /\ Result(AluInput) \in Token
      /\ pipeline' = IF Emitted THEN Append(Moved, new) ELSE Moved
      /\ outbuf' = Stepped
      /\ Taken => OperandsGot(inbuf)
      /\ Emitted <=> Taken /\ ~Dropped(AluInput, break_state)
  BY EmittedFacts, ArgsTyped DEF Emitted
<1> HIDE DEF new
<1>3. Outq' = IF Emitted THEN Append(Outq, Result(AluInput)) ELSE Outq
  <2>1. Outq' = Out!Content(Stepped) \o Results(pipeline')
    BY <1>2 DEF Outq, Results
  <2>2. Moved \in Seq(Transaction)
    BY MovedFacts
  <2>3. CASE Emitted
    <3>1. Results(pipeline') = Append(Results(Moved), Result(AluInput))
      BY <1>2, <2>2, <2>3, ResultsAppend
    <3>2. /\ Result(AluInput) \in Token
          /\ Out!Content(Stepped) \in Seq(Token) /\ Results(Moved) \in Seq(Token)
      BY <1>2, <2>3, OutqMoved
    <3>3. Out!Content(Stepped) \o Append(Results(Moved), Result(AluInput))
            = Append(Out!Content(Stepped) \o Results(Moved), Result(AluInput))
      BY <3>2, ConcatAppend
    <3> QED BY <2>1, <2>3, <3>1, <3>3, OutqMoved
  <2>4. CASE ~Emitted
    BY <1>2, <2>1, <2>4, OutqMoved
  <2> QED BY <2>3, <2>4
<1>4. CASE Taken
  <2>1. ASSUME NEW p \in Operand
        PROVE  /\ UnderWay(p) # << >> /\ Head(UnderWay(p)) = AluInput[p]
               /\ UnderWay(p)' = Tail(UnderWay(p))
    <3>1. /\ UnderWay(p) = WayOf(inbuf[p], input_port[p])
          /\ UnderWay(p)' = WayOf(In!Reset(inbuf[p]), input_port[p])
          /\ In!Content(inbuf[p]) \in Seq(Token)
      BY <1>1, <1>4, UnderWayIs, UnderWayNext
    <3>2. In!Content(inbuf[p]) # << >> /\ AluInput[p] = Head(In!Content(inbuf[p]))
      BY <1>2, <1>4, ArgsTyped
    <3>3. In!Content(In!Reset(inbuf[p])) = Tail(In!Content(inbuf[p]))
      BY <3>2, InFacts DEF ITyped, TypeOK, BuffersConsistent
    <3>4. CASE input_port[p] = Free
      BY <3>1, <3>2, <3>3, <3>4 DEF WayOf
    <3>5. CASE input_port[p] # Free
      <4>1. input_port[p] \in Token
        BY <3>5 DEF ITyped, TypeOK
      <4>2. /\ Append(In!Content(inbuf[p]), input_port[p]) # << >>
            /\ Head(Append(In!Content(inbuf[p]), input_port[p])) = Head(In!Content(inbuf[p]))
            /\ Tail(Append(In!Content(inbuf[p]), input_port[p]))
                 = Append(Tail(In!Content(inbuf[p])), input_port[p])
        BY <3>1, <3>2, <4>1, AppendProperties, HeadTailAppend
      <4> QED BY <3>1, <3>2, <3>3, <3>5, <4>2 DEF WayOf
    <3> QED BY <3>4, <3>5
  <2>2. Inq' = [p \in Operand |-> Tail(Inq[p])]
    <3>1. Inq' = [r \in Operand |-> UnderWay(r)']
      BY <1>1, ConfigKept DEF Inq
    <3> QED BY <2>1, <3>1 DEF Inq
  <2>3. [p \in Operand |-> Head(Inq[p])] = AluInput
    <3>1. AluInput = [p \in Operand |-> AluInput[p]]
      BY DEF AluInput
    <3> QED BY <2>1, <3>1 DEF Inq
  <2>4. \A p \in Operand : Inq[p] # << >>
    BY <2>1 DEF Inq
  <2>5. Len(Outq') <= AluDepth + OutDepth
    <3>1. /\ Out!RingOK(outbuf') /\ pipeline' \in Seq(Transaction)
          /\ Len(pipeline') <= AluDepth /\ AluDepth \in Nat
      BY <1>1, ConfigKept, ConfigFacts DEF ITyped, TypeOK, BuffersConsistent
    <3>2. Outq' = Out!Content(outbuf') \o Results(pipeline')
      BY DEF Outq, Results
    <3>3. Len(Outq') = Len(Out!Content(outbuf')) + Len(pipeline')
      BY <3>1, <3>2, OutqFacts
    <3>4. Len(Out!Content(outbuf')) <= OutDepth /\ Out!Content(outbuf') \in Seq(Token)
      BY <3>1, OutFacts
    <3>5. Len(Out!Content(outbuf')) \in Nat /\ Len(pipeline') \in Nat /\ OutDepth \in Nat
      BY <3>1, <3>4, LenProperties, PEAssumption
    <3> QED BY ONLY <3>1, <3>3, <3>4, <3>5
  <2>6. /\ break_state' = J!BrokenAfter(AluInput, break_state)
        /\ Outq' = IF J!Dropped(AluInput, break_state) THEN Outq
                   ELSE Append(Outq, J!Result(AluInput))
        /\ Len(Outq') <= J!OutCapacity
    BY <1>1, <1>2, <1>3, <1>4, <2>5, SameControl
  <2>7. J!Operand = Operand /\ config' = config
    BY <1>1, SameControl
  <2>8. J!Pair
    BY <2>2, <2>3, <2>4, <2>6, <2>7 DEF J!Pair, Inq, Outq
  <2> QED BY <2>8
<1>5. CASE ~Taken
  <2>1. ~Emitted /\ inbuf' = inbuf /\ break_state' = break_state
    BY <1>1, <1>2, <1>5
  <2>2. Inq' = Inq
    BY <1>1, <2>1, UnderWayIs, UnderWayNext, ConfigKept DEF Inq
  <2>3. Outq' = Outq
    BY <1>3, <2>1
  <2> QED BY <1>1, <2>1, <2>2, <2>3 DEF J!vars, Inq, Outq
<1> QED BY <1>4, <1>5

(* What was on a wire is now in the buffer, for it was never refused.       *)
LEMMA SimStep1Refines ==
  ASSUME IKept, ITyped', SimStep1
  PROVE  UNCHANGED J!vars
<1>1. /\ config' = config /\ pc = "simStep1" /\ inbuf' = Stored
      /\ input_port' = [p \in Operand |-> Free]
      /\ UNCHANGED <<pipeline, break_state, outbuf>>
  BY DEF SimStep1, Stored
<1>2. ASSUME NEW p \in Operand PROVE UnderWay(p)' = UnderWay(p)
  <2>1. UnderWay(p)' = In!Content(Stored[p]) /\ UnderWay(p) = WayOf(inbuf[p], input_port[p])
    BY <1>1, UnderWayIs, UnderWayNext DEF IKept, WayOf
  <2>2. input_port[p] # Free => In!NotFull(inbuf[p])
    BY <1>1 DEF IKept, CreditKept, Owed
  <2> QED BY <2>1, <2>2, StoredOK DEF IKept, WayOf
<1>3. Inq' = Inq
  BY <1>1, <1>2, ConfigKept DEF Inq
<1>4. Outq' = Outq
  BY <1>1 DEF Outq
<1> QED BY <1>1, <1>3, <1>4 DEF J!vars, Inq, Outq

(* An element whose ALU has a stage implements Join: it pairs the n-th      *)
(* tokens of its operand streams, whatever the depths of its buffers and    *)
(* ALU, and loses, repeats and reorders nothing.                            *)
THEOREM ElementJoins == Spec /\ AluDepth # 0 => PairsOperands
<1>1. Init => J!Init
  <2> SUFFICES ASSUME Init PROVE J!Init
    OBVIOUS
  <2>1. config \in Configs /\ In!Content(In!EmptyRing) = << >> /\ Out!Content(Out!EmptyRing) = << >>
    BY InFacts, OutFacts DEF Init
  <2>2. Inq = [p \in Operand |-> << >>]
    <3>1. \A p \in Operand : UnderWay(p) = << >>
      BY <2>1, InitTyped, UnderWayIs DEF Init, WayOf
    <3> QED BY <3>1 DEF Inq
  <2>3. Outq = << >>
    BY <2>1, EmptySeq, ConcatEmptySeq DEF Init, Outq, Results
  <2> QED BY <2>1, <2>2, <2>3, SameControl DEF Init, J!Init, Inq, Outq
<1>2. IInv /\ AluDepth # 0 /\ [Next]_vars => [J!Next]_(J!vars) /\ (AluDepth # 0)'
  <2> SUFFICES ASSUME IInv, AluDepth # 0, [Next]_vars
               PROVE  (J!Next \/ UNCHANGED J!vars) /\ (AluDepth # 0)'
    OBVIOUS
  <2>1. IKept /\ ITyped /\ ITyped'
    BY NextTyped DEF IInv, IKept, ITyped
  <2>2. (AluDepth # 0)'
    BY <2>1, ConfigConstant
  <2>3. CASE \E p \in Operand : \E tok \in config.sent[p] : Arrive(p, tok)
    BY <2>1, <2>2, <2>3, ArriveRefines, SameControl DEF J!Next
  <2>4. CASE \E next_bp \in BOOLEAN : SimStep3(next_bp)
    BY <2>1, <2>2, <2>4, SimStep3Refines DEF J!Next
  <2>5. CASE SimStep2
    BY <2>1, <2>2, <2>5, SimStep2Refines DEF J!Next
  <2>6. CASE SimStep1
    BY <2>1, <2>2, <2>6, SimStep1Refines
  <2>7. CASE UNCHANGED vars
    <3>1. config' = config /\ UNCHANGED vars
      BY <2>7 DEF vars
    <3>2. Inq' = Inq
      BY <2>1, <3>1, UnderWayIs, UnderWayNext, ConfigKept DEF Inq, vars
    <3> QED BY <2>2, <3>1, <3>2 DEF J!vars, Inq, Outq, vars
  <2> QED BY <2>2, <2>3, <2>4, <2>5, <2>6, <2>7 DEF Next
<1> QED BY <1>1, <1>2, Invariance, PTL DEF Spec, PairsOperands, J!Spec
=============================================================================
