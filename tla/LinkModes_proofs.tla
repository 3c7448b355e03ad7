-------------------------- MODULE LinkModes_proofs --------------------------
(***************************************************************************)
(* The link.  In the mode inbuffer_stall, credit never lies to a source    *)
(* that precedes its consumers, for every number of consumers, every       *)
(* buffer depth and every set of tokens, and the link is then an ordered,  *)
(* lossless, bounded stream.  In both stall modes the ports stay well      *)
(* formed, a consumer after the source has room for what it is sent,       *)
(* stores it at once in the mode none, and gets an ordered, lossless       *)
(* stream.                                                                 *)
(***************************************************************************)
EXTENDS LinkModes, Ring_proofs

-----------------------------------------------------------------------------
(* The mode inbuffer_stall alone: the specification of CreditLink.          *)
(* Storing what is on the wire keeps a port well formed.                    *)
LEMMA SimStep1OK ==
  ASSUME NEW r, RingOK(r), NEW tok \in Token \cup {Free}
  PROVE  RingOK(SimStep1(r, tok))
BY InputOK DEF SimStep1

(* The two steps of a consumer's update that touch its buffer.              *)
LEMMA TakenOK ==
  ASSUME IInv, NEW p \in Port, NEW take \in BOOLEAN
  PROVE  LET taken == IF take THEN Reset(buf[p]) ELSE buf[p]
         IN  /\ RingOK(taken)
             /\ NotFull(buf[p]) => NotFull(taken)
BY ResetOK DEF IInv, BuffersConsistent

(* Nothing is buffered, on a wire or owed.                                  *)
LEMMA InitIInv == Init => IInv
<1> SUFFICES ASSUME Init PROVE IInv
  OBVIOUS
<1>1. RingOK(EmptyRing) /\ EmptyRing \in RingType
  BY EmptyRingOK DEF RingOK
<1>2. TypeOK
  BY <1>1 DEF Init, TypeOK
<1>3. BuffersConsistent
  BY <1>1 DEF Init, BuffersConsistent
<1>4. PhaseOK
  BY DEF Init, PhaseOK, Port
<1>5. WireOK
  BY DEF Init, WireOK
<1>6. CreditKept
  BY DEF Init, CreditKept, NotFull, EmptyRing, Port
<1> QED BY <1>2, <1>3, <1>4, <1>5, <1>6 DEF IInv

(* A consumer takes, stores what is on its wire, and recomputes its credit. *)
LEMMA ConsumerUpdateIInv ==
  ASSUME IInv, NEW p \in Port, NEW take \in BOOLEAN, ConsumerUpdate(p, take)
  PROVE  IInv'
<1> DEFINE taken  == IF take THEN Reset(buf[p]) ELSE buf[p]
           stored == SimStep1(taken, input_port[p])
<1>1. /\ buf' = [buf EXCEPT ![p] = stored]
      /\ bp_temporary' = (bp_temporary /\ GetBp(stored))
      /\ todo' = todo \ {p}
      /\ input_port' = input_port /\ next_bp' = next_bp /\ source_done' = source_done
      /\ p \in todo
      /\ (p \in After) = source_done
  BY DEF ConsumerUpdate, SetBp
<1>2. RingOK(stored)
  <2>1. RingOK(taken)
    BY TakenOK
  <2>2. input_port[p] \in Token \cup {Free}
    BY DEF IInv, TypeOK
  <2> QED BY <2>1, <2>2, SimStep1OK
<1> HIDE DEF stored
<1>3. TypeOK'
  <2>1. stored \in RingType
    BY <1>2 DEF RingOK
  <2>2. GetBp(stored) \in BOOLEAN
    BY DEF GetBp, NotFull
  <2> QED BY <1>1, <2>1, <2>2 DEF IInv, TypeOK
<1>4. BuffersConsistent'
  BY <1>1, <1>2 DEF IInv, TypeOK, BuffersConsistent
<1>5. PhaseOK'
  BY <1>1, PositionAssumption DEF IInv, PhaseOK
<1>6. WireOK'
  BY <1>1 DEF IInv, WireOK
<1>7. CreditKept'
  <2>1. ASSUME next_bp', NEW r \in (todo \cap After)'
        PROVE  NotFull(buf'[r])
    <3>1. r # p /\ r \in todo \cap After /\ next_bp
      BY <1>1, <2>1
    <3>2. NotFull(buf[r])
      BY <3>1 DEF IInv, CreditKept
    <3>3. buf'[r] = buf[r]
      BY <1>1, <3>1 DEF IInv, TypeOK, Port
    <3> QED BY <3>2, <3>3
  <2>2. ASSUME bp_temporary', NEW r \in (After \ todo)'
        PROVE  NotFull(buf'[r])
    <3>1. bp_temporary /\ NotFull(stored)
      BY <1>1, <2>2 DEF GetBp
    <3>2. CASE r = p
      BY <1>1, <3>1, <3>2 DEF IInv, TypeOK
    <3>3. CASE r # p
      <4>1. r \in After \ todo
        BY <1>1, <2>2, <3>3
      <4>2. NotFull(buf[r])
        BY <3>1, <4>1 DEF IInv, CreditKept
      <4>3. buf'[r] = buf[r]
        BY <1>1, <3>3, <4>1 DEF IInv, TypeOK, Port
      <4> QED BY <4>2, <4>3
    <3> QED BY <3>2, <3>3
  <2> QED BY <2>1, <2>2 DEF CreditKept
<1> QED BY <1>3, <1>4, <1>5, <1>6, <1>7 DEF IInv

(* The source sends only where it sees credit.                              *)
LEMMA SourceUpdateIInv ==
  ASSUME IInv, NEW tok \in Token \cup {Free}, SourceUpdate(tok)
  PROVE  IInv'
<1>1. /\ ~source_done /\ todo \cap Before = {}
      /\ tok # Free => next_bp
      /\ input_port' = [p \in Port |-> tok]
      /\ buf' = [p \in Port |-> IF p \in Before THEN SimStep1(buf[p], tok) ELSE buf[p]]
      /\ source_done' = TRUE
      /\ next_bp' = next_bp /\ bp_temporary' = bp_temporary /\ todo' = todo
  BY DEF SourceUpdate
<1>2. BuffersConsistent'
  BY <1>1, SimStep1OK DEF IInv, BuffersConsistent
<1>3. TypeOK'
  <2>1. \A p \in Port : buf'[p] \in RingType
    BY <1>2 DEF BuffersConsistent, RingOK
  <2>2. buf' \in [Port -> RingType]
    BY <1>1, <2>1
  <2> QED BY <1>1, <2>2 DEF IInv, TypeOK
<1>4. PhaseOK'
  BY <1>1 DEF PhaseOK
<1>5. WireOK'
  BY <1>1 DEF WireOK
<1>6. CreditKept'
  <2>1. \A p \in After : buf'[p] = buf[p]
    BY <1>1, PositionAssumption DEF Port
  <2> QED BY <1>1, <2>1 DEF IInv, CreditKept
<1> QED BY <1>2, <1>3, <1>4, <1>5, <1>6 DEF IInv

(* At the end of a cycle every wire has been read.                          *)
LEMMA EndCycleIInv == IInv /\ EndCycle => IInv'
<1> SUFFICES ASSUME IInv, EndCycle PROVE IInv'
  OBVIOUS
<1> USE DEF IInv, EndCycle
<1>1. TypeOK'
  BY DEF TypeOK
<1>2. BuffersConsistent'
  BY DEF BuffersConsistent
<1>3. PhaseOK'
  BY DEF PhaseOK, Port
<1>4. WireOK'
  BY DEF WireOK
<1>5. CreditKept'
  <2>1. buf' = buf /\ (next_bp' => bp_temporary) /\ (After \ todo)' = {}
    BY DEF Port
  <2>2. next_bp' => \A p \in After : NotFull(buf[p])
    BY <2>1 DEF CreditKept
  <2> QED BY <2>1, <2>2 DEF CreditKept, NotFull
<1> QED BY <1>1, <1>2, <1>3, <1>4, <1>5

(* The invariant holds throughout.                                          *)
THEOREM Invariance == Spec => []IInv
<1>1. Init => IInv
  BY InitIInv
<1>2. IInv /\ [Next]_vars => IInv'
  <2> SUFFICES ASSUME IInv, [Next]_vars PROVE IInv'
    OBVIOUS
  <2>1. CASE \E p \in Port, take \in BOOLEAN : ConsumerUpdate(p, take)
    BY <2>1, ConsumerUpdateIInv
  <2>2. CASE \E tok \in Token \cup {Free} : SourceUpdate(tok)
    BY <2>2, SourceUpdateIInv
  <2>3. CASE EndCycle
    BY <2>3, EndCycleIInv
  <2>4. CASE UNCHANGED vars
    BY <2>4 DEF vars, IInv, TypeOK, BuffersConsistent, PhaseOK, WireOK, CreditKept
  <2> QED BY <2>1, <2>2, <2>3, <2>4 DEF Next
<1> QED BY <1>1, <1>2, PTL DEF Spec

(* TypeOK and BuffersConsistent are conjuncts of the invariant: pointers,   *)
(* flags and valid bits of every port agree whatever the order of the       *)
(* nodes, even when a back edge makes writers run into full buffers.        *)
THEOREM TypeCorrect == Spec => []TypeOK
BY Invariance, PTL DEF IInv

(* The flags, pointers and valid bits of every port agree.                  *)
THEOREM Consistency == Spec => []BuffersConsistent
BY Invariance, PTL DEF IInv

(* A consumer visited after its source always has room for the token it     *)
(* finds on its wire.                                                       *)
LEMMA IInvRoom == IInv => ForwardNeverRefused
<1> SUFFICES ASSUME IInv, NEW p \in After, OnWire(p)
             PROVE  CanReceive(buf[p])
  BY DEF ForwardNeverRefused
<1>1. p \in Port
  BY DEF Port
<1>2. next_bp /\ p \in todo \cap After
  BY <1>1 DEF IInv, WireOK, OnWire
<1>3. NotFull(buf[p]) /\ RingOK(buf[p])
  BY <1>1, <1>2 DEF IInv, CreditKept, BuffersConsistent
<1> QED BY <1>3, CanReceiveIsNotFull

(* On a consumer that its source precedes, a token sent on credit is stored.*)
THEOREM ForwardSafe == Spec => []ForwardNeverRefused
BY Invariance, IInvRoom, PTL

-----------------------------------------------------------------------------
(* The refinement.  The watched consumer's stream is empty at first, grows  *)
(* when the source sends, shrinks when the consumer takes, and is left      *)
(* alone when a token moves from the wire into the buffer.                  *)
LEMMA UnderWayType ==
  ASSUME IInv, NEW p \in Port
  PROVE  /\ Content(buf[p]) \in Seq(Token)
         /\ Len(Content(buf[p])) \in Nat
         /\ NotFull(buf[p]) => Len(Content(buf[p])) < Depth
         /\ OnWire(p) => input_port[p] \in Token /\ UnderWay(p) = Append(Content(buf[p]), input_port[p])
         /\ ~OnWire(p) => UnderWay(p) = Content(buf[p])
<1>1. RingOK(buf[p])
  BY DEF IInv, BuffersConsistent
<1>2. Content(buf[p]) \in Seq(Token) /\ Len(Content(buf[p])) = Count(buf[p])
  BY <1>1, ContentType
<1>3. NotFull(buf[p]) => Count(buf[p]) \in 0 .. Depth /\ Count(buf[p]) # Depth
  BY <1>1, NthOccupied DEF NotFull
<1>4. OnWire(p) => input_port[p] \in Token
  BY DEF OnWire, IInv, TypeOK
<1>5. OnWire(p) => UnderWay(p) = Append(Content(buf[p]), input_port[p])
  BY <1>2, <1>4, AppendIsConcat DEF UnderWay
<1>6. ~OnWire(p) => UnderWay(p) = Content(buf[p])
  BY <1>2, ConcatEmptySeq DEF UnderWay
<1>7. Len(Content(buf[p])) \in Nat
  BY <1>2, LenProperties
<1> QED BY <1>2, <1>3, <1>4, <1>5, <1>6, <1>7, DepthAssumption

(* A consumer's own turn: a Get when it takes an entry, else a stutter.     *)
LEMMA TurnRefines ==
  ASSUME IInv, Watched \in After, NEW take \in BOOLEAN, ConsumerUpdate(Watched, take)
  PROVE  Link!Get \/ UNCHANGED UnderWay(Watched)
<1> DEFINE p      == Watched
           b      == buf[p]
           taken  == IF take THEN Reset(b) ELSE b
           stored == SimStep1(taken, input_port[p])
<1>1. /\ buf' = [buf EXCEPT ![p] = stored]
      /\ todo' = todo \ {p} /\ input_port' = input_port
      /\ p \in todo /\ p \in Port
      /\ take => NotEmpty(b)
  BY DEF ConsumerUpdate, Port
<1>2. RingOK(b) /\ RingOK(taken) /\ (NotFull(b) => NotFull(taken))
  BY <1>1, TakenOK DEF IInv, BuffersConsistent
<1>3. buf'[p] = stored
  BY <1>1 DEF IInv, TypeOK
<1>4. ~OnWire(p)'
  BY <1>1 DEF OnWire
<1>5. RingOK(stored)
  <2>1. input_port[p] \in Token \cup {Free}
    BY <1>1 DEF IInv, TypeOK
  <2> QED BY <1>2, <2>1, SimStep1OK
<1>6. UnderWay(p)' = Content(stored)
  <2>1. Content(stored) \in Seq(Token)
    BY <1>5, ContentType
  <2>2. UnderWay(p)' = Content(buf'[p]) \o << >>
    BY <1>4 DEF UnderWay
  <2> QED BY <1>3, <2>1, <2>2, ConcatEmptySeq
<1>7. Content(b) \in Seq(Token) /\ Content(taken) \in Seq(Token)
  BY <1>2, ContentType
<1>8. take => Content(b) # << >> /\ Content(taken) = Tail(Content(b))
  BY <1>1, <1>2, FrontIsNotEmpty, ContentReset
<1>9. CASE OnWire(p)
  <2> DEFINE tok == input_port[p]
  <2>1. tok \in Token /\ UnderWay(p) = Append(Content(b), tok)
    BY <1>1, <1>9, UnderWayType
  <2>2. NotFull(taken)
    <3>1. CanReceive(b)
      BY <1>1, <1>9, IInvRoom DEF ForwardNeverRefused
    <3> QED BY <1>2, <3>1, CanReceiveIsNotFull
  <2>3. stored = Write(taken, tok)
    <3>1. CanReceive(taken)
      BY <1>2, <2>2, CanReceiveIsNotFull
    <3> QED BY <2>1, <3>1, FreeAssumption DEF SimStep1, Input
  <2>4. Content(stored) = Append(Content(taken), tok)
    BY <1>2, <2>1, <2>2, <2>3, ContentWrite
  <2>5. CASE take
    <3>1. UnderWay(p) # << >> /\ Tail(UnderWay(p)) = Append(Tail(Content(b)), tok)
      <4>1. UnderWay(p) # << >>
        BY <1>7, <2>1, AppendProperties
      <4>2. Tail(UnderWay(p)) = Append(Tail(Content(b)), tok)
        BY <1>7, <1>8, <2>1, <2>5, HeadTailAppend
      <4> QED BY <4>1, <4>2
    <3>2. UnderWay(p)' = Tail(UnderWay(p))
      BY <1>6, <1>8, <2>4, <2>5, <3>1
    <3> QED BY <3>1, <3>2 DEF Link!Get
  <2>6. CASE ~take
    BY <1>6, <2>1, <2>4, <2>6
  <2> QED BY <2>5, <2>6
<1>10. CASE ~OnWire(p)
  <2>1. UnderWay(p) = Content(b)
    BY <1>1, <1>10, UnderWayType
  <2>2. stored = taken
    BY <1>1, <1>10 DEF OnWire, SimStep1
  <2> QED BY <1>6, <1>8, <2>1, <2>2 DEF Link!Get
<1> QED BY <1>9, <1>10

(* The source's turn: a Put when it sends, else a stutter.                  *)
LEMMA SourceRefines ==
  ASSUME IInv, Watched \in After, NEW tok \in Token \cup {Free}, SourceUpdate(tok)
  PROVE  (tok \in Token /\ Link!Put(tok)) \/ UNCHANGED UnderWay(Watched)
<1> DEFINE p == Watched
<1>1. /\ p \in Port /\ p \notin Before
      /\ ~source_done /\ (tok # Free => next_bp)
      /\ input_port' = [r \in Port |-> tok] /\ todo' = todo
      /\ buf' = [r \in Port |-> IF r \in Before THEN SimStep1(buf[r], tok) ELSE buf[r]]
  BY PositionAssumption, WatchedAssumption DEF SourceUpdate
<1>2. p \in todo /\ input_port[p] = Free
  BY <1>1 DEF IInv, PhaseOK, WireOK
<1>3. UnderWay(p) = Content(buf[p]) /\ Content(buf[p]) \in Seq(Token)
  BY <1>1, <1>2, UnderWayType DEF OnWire
<1>4. buf'[p] = buf[p] /\ input_port'[p] = tok
  BY <1>1
<1>5. CASE tok = Free
  <2>1. ~OnWire(p)'
    BY <1>4, <1>5 DEF OnWire
  <2>2. UnderWay(p)' = Content(buf'[p]) \o << >>
    BY <2>1 DEF UnderWay
  <2> QED BY <1>3, <1>4, <2>2, ConcatEmptySeq
<1>6. CASE tok # Free
  <2>1. tok \in Token /\ OnWire(p)'
    BY <1>1, <1>2, <1>4, <1>6 DEF OnWire
  <2>2. UnderWay(p)' = Content(buf'[p]) \o <<input_port'[p]>>
    BY <2>1 DEF UnderWay
  <2>3. UnderWay(p)' = Append(UnderWay(p), tok)
    BY <1>3, <1>4, <2>1, <2>2, AppendIsConcat
  <2>4. NotFull(buf[p])
    BY <1>1, <1>2, <1>6 DEF IInv, CreditKept
  <2>5. Len(UnderWay(p)) < Depth
    BY <1>1, <1>3, <2>4, UnderWayType
  <2> QED BY <2>1, <2>3, <2>5 DEF Link!Put
<1> QED BY <1>5, <1>6

(* What is under way does not change in another consumer's turn, nor at the *)
(* end of a cycle, when everything on the wire has been stored.             *)
LEMMA OthersStutter ==
  ASSUME IInv, Watched \in After,
         \/ \E p \in Port \ {Watched}, take \in BOOLEAN : ConsumerUpdate(p, take)
         \/ EndCycle
         \/ UNCHANGED vars
  PROVE  UNCHANGED UnderWay(Watched)
<1>1. buf'[Watched] = buf[Watched]
  BY WatchedAssumption DEF ConsumerUpdate, EndCycle, vars, IInv, TypeOK
<1>2. CASE EndCycle
  <2>1. ~OnWire(Watched) /\ ~OnWire(Watched)'
    BY <1>2, WatchedAssumption DEF EndCycle, OnWire
  <2> QED BY <1>1, <2>1 DEF UnderWay
<1>3. CASE ~EndCycle
  <2>1. input_port' = input_port /\ (Watched \in todo' <=> Watched \in todo)
    BY <1>3 DEF ConsumerUpdate, vars
  <2>2. OnWire(Watched)' <=> OnWire(Watched)
    BY <2>1 DEF OnWire
  <2> QED BY <1>1, <2>1, <2>2 DEF UnderWay
<1> QED BY <1>2, <1>3

(* The link of every consumer that its source precedes implements the       *)
(* abstract stream: nothing sent is lost, duplicated, reordered or altered, *)
(* and never more than Depth tokens are under way.                          *)
THEOREM ForwardLinkIsStream ==
  ASSUME Watched \in After
  PROVE  Spec => LinkIsStream
<1>1. Init => Link!Init
  <2> SUFFICES ASSUME Init PROVE UnderWay(Watched) = << >>
    BY DEF Link!Init
  <2>1. UnderWay(Watched) = Content(EmptyRing) \o << >>
    BY WatchedAssumption DEF Init, UnderWay, OnWire
  <2>2. Content(EmptyRing) = << >>
    BY DEF Content, Count, EmptyRing
  <2> QED BY <2>1, <2>2, EmptySeq, ConcatEmptySeq
<1>2. IInv /\ [Next]_vars => [Link!Next]_(UnderWay(Watched))
  <2> SUFFICES ASSUME IInv, [Next]_vars
               PROVE  Link!Next \/ UNCHANGED UnderWay(Watched)
    OBVIOUS
  <2>1. CASE \E p \in Port, take \in BOOLEAN : ConsumerUpdate(p, take)
    <3>1. PICK p \in Port, take \in BOOLEAN : ConsumerUpdate(p, take)
      BY <2>1
    <3>2. CASE p = Watched
      BY <3>1, <3>2, TurnRefines DEF Link!Next
    <3>3. CASE p # Watched
      BY <3>1, <3>3, OthersStutter
    <3> QED BY <3>2, <3>3
  <2>2. CASE \E tok \in Token \cup {Free} : SourceUpdate(tok)
    BY <2>2, SourceRefines DEF Link!Next
  <2>3. CASE EndCycle \/ UNCHANGED vars
    BY <2>3, OthersStutter
  <2> QED BY <2>1, <2>2, <2>3 DEF Next
<1> QED BY <1>1, <1>2, Invariance, PTL DEF Spec, LinkIsStream, Link!Spec

-----------------------------------------------------------------------------
(* Both modes.                                                              *)

(* What a visit leaves in the buffer.                                       *)
LEMMA LeftOK ==
  ASSUME BuffersConsistent, NEW p \in Port, NEW take \in BOOLEAN
  PROVE  LET left == IF take THEN Reset(buf[p]) ELSE buf[p]
         IN  RingOK(left) /\ left \in RingType
<1>1. RingOK(buf[p])
  BY DEF BuffersConsistent
<1> QED BY <1>1, ResetOK DEF RingOK

(* Nothing is buffered or on a wire.                                        *)
LEMMA InitIInvNone == Init => IInvNone
<1> SUFFICES ASSUME Init PROVE IInvNone
  OBVIOUS
<1>1. TypeOK /\ BuffersConsistent
  BY InitIInv DEF IInv
<1>2. PhaseNone /\ WireNone /\ CreditNone
  BY DEF Init, PhaseNone, WireNone, CreditNone, Port
<1> QED BY <1>1, <1>2 DEF IInvNone

(* A consumer keeps its port consistent and clears its wire.                *)
LEMMA ConsumerVisitIInv ==
  ASSUME IInvNone, NEW p \in Port, NEW take \in BOOLEAN, ConsumerVisit(p, take)
  PROVE  IInvNone'
<1> DEFINE left == IF take THEN Reset(buf[p]) ELSE buf[p]
<1>1. /\ buf' = [buf EXCEPT ![p] = left]
      /\ bp_temporary' = (bp_temporary /\ NotFull(left))
      /\ todo' = todo \ {p}
      /\ input_port' = input_port /\ next_bp' = next_bp /\ source_done' = source_done
      /\ (p \in Before) = source_done
  BY DEF ConsumerVisit, SetBp, GetBp
<1>2. RingOK(left) /\ left \in RingType
  BY LeftOK DEF IInvNone
<1> HIDE DEF left
<1>3. TypeOK'
  <2>1. NotFull(left) \in BOOLEAN
    BY DEF NotFull
  <2> QED BY <1>1, <1>2, <2>1 DEF IInvNone, TypeOK
<1>4. BuffersConsistent'
  BY <1>1, <1>2 DEF IInvNone, TypeOK, BuffersConsistent
<1>5. PhaseNone'
  BY <1>1 DEF IInvNone, PhaseNone
<1>6. WireNone'
  BY <1>1 DEF IInvNone, WireNone
<1>7. CreditNone'
  <2> SUFFICES ASSUME ~source_done, bp_temporary', NEW r \in After \ (todo \ {p})
               PROVE  NotFull(buf'[r])
    BY <1>1 DEF CreditNone
  <2>1. bp_temporary /\ NotFull(left)
    BY <1>1
  <2>2. CASE r = p
    BY <1>1, <2>1, <2>2 DEF IInvNone, TypeOK
  <2>3. CASE r # p
    <3>1. r \in After \ todo
      BY <2>3
    <3>2. NotFull(buf[r])
      BY <2>1, <3>1 DEF IInvNone, CreditNone
    <3>3. buf'[r] = buf[r]
      BY <1>1, <2>3, <3>1 DEF IInvNone, TypeOK, Port
    <3> QED BY <3>2, <3>3
  <2> QED BY <2>2, <2>3
<1> QED BY <1>3, <1>4, <1>5, <1>6, <1>7 DEF IInvNone

(* The source drives its wire when its consumers can receive.               *)
LEMMA SourceVisitIInv ==
  ASSUME IInvNone, NEW tok \in Token \cup {Free}, SourceVisit(tok)
  PROVE  IInvNone'
<1>1. /\ ~source_done /\ todo \cap After = {}
      /\ next_bp' = bp_temporary
      /\ input_port' = [p \in Port |-> tok]
      /\ buf' = [p \in Port |-> SimStep1(buf[p], tok)]
      /\ source_done' = TRUE
      /\ bp_temporary' = bp_temporary /\ todo' = todo
  BY DEF SourceVisit, NextStep1
<1>2. BuffersConsistent'
  BY <1>1, SimStep1OK DEF IInvNone, BuffersConsistent
<1>3. TypeOK'
  <2>1. \A p \in Port : buf'[p] \in RingType
    BY <1>2 DEF BuffersConsistent, RingOK
  <2>2. buf' \in [Port -> RingType]
    BY <1>1, <2>1
  <2> QED BY <1>1, <2>2 DEF IInvNone, TypeOK
<1>4. PhaseNone' /\ WireNone' /\ CreditNone'
  BY <1>1 DEF PhaseNone, WireNone, CreditNone
<1> QED BY <1>2, <1>3, <1>4 DEF IInvNone

(* The end of a round touches no port.                                      *)
LEMMA EndVisitsIInv == IInvNone /\ EndVisits => IInvNone'
<1> SUFFICES ASSUME IInvNone, EndVisits PROVE IInvNone'
  OBVIOUS
<1> USE DEF IInvNone, EndVisits
<1>1. TypeOK'
  BY DEF TypeOK
<1>2. BuffersConsistent'
  BY DEF BuffersConsistent
<1>3. PhaseNone' /\ WireNone' /\ CreditNone'
  BY DEF PhaseNone, WireNone, CreditNone, Port
<1> QED BY <1>1, <1>2, <1>3

(* A step of either mode keeps the invariant of its mode.                   *)
LEMMA StepIInvModes == IInvModes /\ [NextModes]_modeVars => IInvModes'
<1> SUFFICES ASSUME IInvModes, [NextModes]_modeVars PROVE IInvModes'
  OBVIOUS
<1>1. stall_mode' = stall_mode
  BY DEF NextModes, modeVars, Stalling, ConsumerVisit, Sending, SourceVisit, Ending, EndVisits
<1>2. CASE stall_mode = "none"
  <2>1. IInvNone
    BY <1>2 DEF IInvModes
  <2>2. ASSUME NEW p \in Port, NEW take \in BOOLEAN, Stalling(p, take) \/ ConsumerVisit(p, take)
        PROVE  IInvNone'
    BY <1>2, <2>1, <2>2, ConsumerVisitIInv DEF Stalling
  <2>3. ASSUME NEW tok \in Token \cup {Free}, Sending(tok) \/ SourceVisit(tok)
        PROVE  IInvNone'
    BY <1>2, <2>1, <2>3, SourceVisitIInv DEF Sending
  <2>4. ASSUME EndVisits PROVE IInvNone'
    BY <2>1, <2>4, EndVisitsIInv
  <2>5. ASSUME UNCHANGED modeVars PROVE IInvNone'
    BY <2>1, <2>5 DEF modeVars, vars, IInvNone, TypeOK, BuffersConsistent, PhaseNone, WireNone,
                      CreditNone
  <2>6. IInvNone'
    BY <1>2, <2>2, <2>3, <2>4, <2>5 DEF NextModes, Ending
  <2> QED BY <1>1, <1>2, <2>6 DEF IInvModes
<1>3. CASE stall_mode = "inbuffer_stall"
  <2>1. IInv
    BY <1>3 DEF IInvModes
  <2>2. ASSUME NEW p \in Port, NEW take \in BOOLEAN, Stalling(p, take) \/ ConsumerVisit(p, take)
        PROVE  IInv'
    BY <1>3, <2>1, <2>2, ConsumerUpdateIInv DEF Stalling, ConsumerVisit
  <2>3. ASSUME NEW tok \in Token \cup {Free}, Sending(tok) \/ SourceVisit(tok)
        PROVE  IInv'
    BY <1>3, <2>1, <2>3, SourceUpdateIInv DEF Sending, SourceVisit
  <2>4. ASSUME Ending PROVE IInv'
    BY <2>1, <2>4, EndCycleIInv DEF Ending
  <2>5. ASSUME UNCHANGED modeVars PROVE IInv'
    BY <2>1, <2>5 DEF modeVars, vars, IInv, TypeOK, BuffersConsistent, PhaseOK, WireOK, CreditKept
  <2>6. IInv'
    BY <1>3, <2>2, <2>3, <2>4, <2>5 DEF NextModes, EndVisits
  <2> QED BY <1>1, <1>3, <2>6 DEF IInvModes
<1> QED BY <1>2, <1>3 DEF IInvModes

(* The invariant holds throughout, in either mode.                          *)
THEOREM InvarianceModes == SpecModes => []IInvModes
<1>1. InitModes => IInvModes
  BY InitIInv, InitIInvNone DEF InitModes, IInvModes
<1> QED BY <1>1, StepIInvModes, PTL DEF SpecModes

(* Pointers, flags and valid bits of every port agree, and a consumer after *)
(* the source has room for the token on its wire, in either mode.           *)
LEMMA IInvModesSafe == IInvModes => TypeOK /\ BuffersConsistent /\ ForwardNeverRefused
<1> SUFFICES ASSUME IInvModes PROVE TypeOK /\ BuffersConsistent /\ ForwardNeverRefused
  OBVIOUS
<1>1. CASE stall_mode = "none"
  <2>1. TypeOK /\ BuffersConsistent /\ PhaseNone /\ WireNone
    BY <1>1 DEF IInvModes, IInvNone
  <2>2. \A p \in After : ~OnWire(p)
    BY <2>1 DEF PhaseNone, WireNone, OnWire, Port
  <2> QED BY <2>1, <2>2 DEF ForwardNeverRefused
<1>2. CASE stall_mode = "inbuffer_stall"
  BY <1>2, IInvRoom DEF IInvModes, IInv
<1> QED BY <1>1, <1>2 DEF IInvModes

(* Every variable keeps its type, in all modes.                             *)
THEOREM TypeCorrectModes == SpecModes => []TypeOK
BY InvarianceModes, IInvModesSafe, PTL

(* The flags, pointers and valid bits of every port agree, in all modes.    *)
THEOREM ConsistencyModes == SpecModes => []BuffersConsistent
BY InvarianceModes, IInvModesSafe, PTL

(* In all modes a token sent to a consumer behind its source is stored.     *)
THEOREM ForwardSafeModes == SpecModes => []ForwardNeverRefused
BY InvarianceModes, IInvModesSafe, PTL

-----------------------------------------------------------------------------
(* What the source sends on the credit of its own cycle is stored in the    *)
(* buffers of the later consumers, which have room.                         *)
LEMMA SourceVisitStores ==
  ASSUME IInvNone, NEW tok \in Token \cup {Free}, SourceVisit(tok), NEW p \in After
  PROVE  /\ input_port'[p] = tok
         /\ tok # Free => NotFull(buf[p])
         /\ Content(buf[p]) \in Seq(Token)
         /\ Content(buf'[p]) = Content(buf[p]) \o (IF tok = Free THEN << >> ELSE <<tok>>)
<1>1. /\ p \in Port /\ ~source_done /\ p \notin todo
      /\ tok # Free => bp_temporary
      /\ input_port'[p] = tok
      /\ buf'[p] = SimStep1(buf[p], tok)
  BY DEF SourceVisit, NextStep1, Port
<1>2. RingOK(buf[p]) /\ (tok # Free => NotFull(buf[p]))
  BY <1>1 DEF IInvNone, BuffersConsistent, CreditNone
<1>3. Content(buf[p]) \in Seq(Token)
  BY <1>2, ContentType
<1>4. CASE tok = Free
  <2>1. buf'[p] = buf[p]
    BY <1>1, <1>4 DEF SimStep1
  <2> QED BY <1>1, <1>3, <1>4, <2>1, ConcatEmptySeq
<1>5. CASE tok # Free
  <2>1. tok \in Token /\ NotFull(buf[p])
    BY <1>2, <1>5
  <2>2. buf'[p] = Write(buf[p], tok)
    BY <1>1, <1>2, <1>5, <2>1, CanReceiveIsNotFull DEF SimStep1, Input
  <2>3. Content(buf'[p]) = Append(Content(buf[p]), tok)
    BY <1>2, <2>1, <2>2, ContentWrite
  <2> QED BY <1>1, <1>3, <1>5, <2>1, <2>3, AppendIsConcat
<1> QED BY <1>4, <1>5

(* In the mode none a token is never lost on the way to a later consumer.   *)
THEOREM StoredAtOnceHolds == SpecModes => StoredAtOnce
<1> DEFINE Stored == stall_mode = "none" /\ ~source_done /\ source_done' =>
                       \A p \in After : Content(buf'[p]) = Content(buf[p]) \o
                         (IF input_port'[p] = Free THEN << >> ELSE <<input_port'[p]>>)
<1>1. IInvModes /\ [NextModes]_modeVars => [Stored]_modeVars
  <2> SUFFICES ASSUME IInvModes, NextModes, stall_mode = "none", ~source_done, source_done'
               PROVE  \A p \in After : Content(buf'[p]) = Content(buf[p]) \o
                        (IF input_port'[p] = Free THEN << >> ELSE <<input_port'[p]>>)
    OBVIOUS
  <2>1. PICK tok \in Token \cup {Free} : SourceVisit(tok)
    BY DEF NextModes, Stalling, ConsumerVisit, Sending, Ending, EndVisits
  <2> QED BY <2>1, SourceVisitStores DEF IInvModes
<1> QED BY <1>1, InvarianceModes, PTL DEF SpecModes, StoredAtOnce

-----------------------------------------------------------------------------
(* The refinement in the mode none, where nothing waits on the wire of a    *)
(* later consumer: a visit takes, the source's turn sends.                  *)
LEMMA UnderWayNone ==
  ASSUME IInvNone, Watched \in After
  PROVE  /\ RingOK(buf[Watched])
         /\ Content(buf[Watched]) \in Seq(Token)
         /\ UnderWay(Watched) = Content(buf[Watched])
<1>1. RingOK(buf[Watched])
  BY WatchedAssumption DEF IInvNone, BuffersConsistent
<1>2. ~OnWire(Watched)
  BY WatchedAssumption DEF IInvNone, PhaseNone, WireNone, OnWire
<1> QED BY <1>1, <1>2, ContentType, ConcatEmptySeq DEF UnderWay

(* What is under way after a step, by the port and the wire.                *)
LEMMA UnderWayNoneNext ==
  ASSUME IInvNone', Watched \in After
  PROVE  /\ Content(buf'[Watched]) \in Seq(Token)
         /\ UnderWay(Watched)' = Content(buf'[Watched])
<1>1. RingOK(buf'[Watched])
  BY WatchedAssumption DEF IInvNone, BuffersConsistent
<1>2. ~OnWire(Watched)'
  BY WatchedAssumption DEF IInvNone, PhaseNone, WireNone, OnWire
<1>3. Content(buf'[Watched]) \in Seq(Token)
  BY <1>1, ContentType
<1>4. UnderWay(Watched)' = Content(buf'[Watched]) \o << >>
  BY <1>2 DEF UnderWay
<1> QED BY <1>3, <1>4, ConcatEmptySeq

(* A visit is a Put, a Get or a stutter.                                   *)
LEMMA NoneRefines ==
  ASSUME IInvNone, IInvNone', Watched \in After, stall_mode = "none",
         NextModes \/ UNCHANGED modeVars
  PROVE  Link!Next \/ UNCHANGED UnderWay(Watched)
<1> DEFINE p == Watched
<1>1. /\ RingOK(buf[p])
      /\ Content(buf[p]) \in Seq(Token)
      /\ UnderWay(p) = Content(buf[p])
      /\ UnderWay(p)' = Content(buf'[p])
  BY UnderWayNone, UnderWayNoneNext
<1>2. ASSUME NEW r \in Port, NEW take \in BOOLEAN, ConsumerVisit(r, take)
      PROVE  Link!Next \/ UNCHANGED UnderWay(p)
  <2>1. CASE r = p /\ take
    <3>1. NotEmpty(buf[p]) /\ buf'[p] = Reset(buf[p])
      BY <1>2, <2>1, WatchedAssumption DEF ConsumerVisit, IInvNone, TypeOK
    <3>2. Content(buf[p]) # << >> /\ Content(buf'[p]) = Tail(Content(buf[p]))
      BY <1>1, <3>1, FrontIsNotEmpty, ContentReset
    <3> QED BY <1>1, <3>2 DEF Link!Next, Link!Get
  <2>2. CASE ~(r = p /\ take)
    <3>1. buf'[p] = buf[p]
      BY <1>2, <2>2, WatchedAssumption DEF ConsumerVisit, IInvNone, TypeOK
    <3> QED BY <1>1, <3>1
  <2> QED BY <2>1, <2>2
<1>3. ASSUME NEW tok \in Token \cup {Free}, SourceVisit(tok)
      PROVE  Link!Next \/ UNCHANGED UnderWay(p)
  <2>1. /\ tok # Free => NotFull(buf[p])
        /\ Content(buf'[p]) = Content(buf[p]) \o (IF tok = Free THEN << >> ELSE <<tok>>)
    BY <1>3, SourceVisitStores
  <2>2. CASE tok = Free
    BY <1>1, <2>1, <2>2, ConcatEmptySeq
  <2>3. CASE tok # Free
    <3>1. tok \in Token /\ NotFull(buf[p])
      BY <2>1, <2>3
    <3>2. UnderWay(p)' = Append(UnderWay(p), tok)
      BY <1>1, <2>1, <2>3, <3>1, AppendIsConcat
    <3>3. Len(UnderWay(p)) < Depth
      <4>1. Len(Content(buf[p])) = Count(buf[p]) /\ Count(buf[p]) \in 0 .. Depth
        BY <1>1, ContentType, NthOccupied
      <4>2. Count(buf[p]) # Depth
        BY <1>1, <3>1, NthOccupied DEF NotFull
      <4> QED BY <1>1, <4>1, <4>2, DepthAssumption
    <3> QED BY <3>1, <3>2, <3>3 DEF Link!Next, Link!Put
  <2> QED BY <2>2, <2>3
<1>4. CASE EndVisits \/ UNCHANGED modeVars
  <2>1. buf' = buf
    BY <1>4 DEF EndVisits, modeVars, vars
  <2> QED BY <1>1, <2>1
<1> QED BY <1>2, <1>3, <1>4 DEF NextModes, Stalling, Sending, Ending

(* The refinement in the mode inbuffer_stall is that of CreditLink.         *)
LEMMA StallRefines ==
  ASSUME IInv, Watched \in After, stall_mode = "inbuffer_stall",
         NextModes \/ UNCHANGED modeVars
  PROVE  Link!Next \/ UNCHANGED UnderWay(Watched)
<1>1. ASSUME NEW p \in Port, NEW take \in BOOLEAN, Stalling(p, take)
      PROVE  Link!Next \/ UNCHANGED UnderWay(Watched)
  <2>1. ConsumerUpdate(p, take)
    BY <1>1 DEF Stalling
  <2>2. CASE p = Watched
    BY <2>1, <2>2, TurnRefines DEF Link!Next
  <2>3. CASE p # Watched
    BY <2>1, <2>3, OthersStutter
  <2> QED BY <2>2, <2>3
<1>2. ASSUME NEW tok \in Token \cup {Free}, Sending(tok)
      PROVE  Link!Next \/ UNCHANGED UnderWay(Watched)
  <2>1. SourceUpdate(tok)
    BY <1>2 DEF Sending
  <2> QED BY <2>1, SourceRefines DEF Link!Next
<1>3. CASE Ending \/ UNCHANGED modeVars
  BY <1>3, OthersStutter DEF Ending, modeVars
<1> QED BY <1>1, <1>2, <1>3 DEF NextModes, ConsumerVisit, SourceVisit, EndVisits

(* In either mode the link of every consumer after its source is the        *)
(* ordered, lossless, bounded stream.                                       *)
THEOREM LinkIsStreamModes ==
  ASSUME Watched \in After
  PROVE  SpecModes => LinkIsStream
<1>1. InitModes => Link!Init
  <2> SUFFICES ASSUME Init PROVE UnderWay(Watched) = << >>
    BY DEF Link!Init, InitModes
  <2>1. IInvNone
    BY InitIInvNone
  <2>2. UnderWay(Watched) = Content(EmptyRing)
    BY <2>1, UnderWayNone, WatchedAssumption DEF Init
  <2> QED BY <2>2 DEF Content, Count, EmptyRing
<1>2. IInvModes /\ IInvModes' /\ [NextModes]_modeVars => [Link!Next]_(UnderWay(Watched))
  <2> SUFFICES ASSUME IInvModes, IInvModes', NextModes \/ UNCHANGED modeVars
               PROVE  Link!Next \/ UNCHANGED UnderWay(Watched)
    OBVIOUS
  <2>1. stall_mode' = stall_mode
    BY DEF NextModes, modeVars, Stalling, ConsumerVisit, Sending, SourceVisit, Ending, EndVisits
  <2>2. CASE stall_mode = "none"
    <3>1. IInvNone /\ IInvNone'
      BY <2>1, <2>2 DEF IInvModes
    <3> QED BY <2>2, <3>1, NoneRefines
  <2>3. CASE stall_mode = "inbuffer_stall"
    BY <2>3, StallRefines DEF IInvModes
  <2> QED BY <2>2, <2>3 DEF IInvModes
<1> QED BY <1>1, <1>2, InvarianceModes, PTL DEF SpecModes, LinkIsStream, Link!Spec
=============================================================================
