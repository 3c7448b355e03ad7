---------------------------- MODULE Ring_proofs -----------------------------
(* What the operations of a port do to its three views, for every depth.    *)
EXTENDS Ring, SequenceTheorems, TLAPS

(* Moving a pointer stays inside the buffer.                                *)
LEMMA SuccType == \A i \in Index : Succ(i) \in Index
BY DepthAssumption DEF Succ, Index

(* A port whose views agree can be written exactly when its full flag is    *)
(* off: back-pressure (the flag) and the writer (the valid bit) agree.      *)
LEMMA CanReceiveIsNotFull ==
  ASSUME NEW r, RingOK(r)
  PROVE  CanReceive(r) <=> NotFull(r)
<1>1. r.tail \in Index /\ r.head \in Index /\ r.full \in BOOLEAN
  BY DEF RingOK, RingType
<1>2. CanReceive(r) <=> ~Occupied(r, r.tail)
  BY <1>1 DEF RingOK, ValidBitsAgree, CanReceive
<1>3. Occupied(r, r.tail) <=> r.full
  BY <1>1, DepthAssumption DEF Occupied, RingOK, FlagsAgree, Index
<1> QED BY <1>2, <1>3 DEF NotFull

(* Readers that test the empty flag and readers that test the valid bit of  *)
(* the head entry agree too.                                                *)
LEMMA FrontIsNotEmpty ==
  ASSUME NEW r, RingOK(r)
  PROVE  Front(r) # Free <=> NotEmpty(r)
<1>1. r.tail \in Index /\ r.head \in Index /\ r.full \in BOOLEAN /\ r.empty \in BOOLEAN
  BY DEF RingOK, RingType
<1>2. Front(r) # Free <=> Occupied(r, r.head)
  BY <1>1 DEF RingOK, ValidBitsAgree, Front
<1>3. Occupied(r, r.head) <=> ~r.empty
  BY <1>1, DepthAssumption DEF Occupied, RingOK, FlagsAgree, Index
<1> QED BY <1>2, <1>3 DEF NotEmpty

(* The state the constructors leave is well formed.                         *)
LEMMA EmptyRingOK == RingOK(EmptyRing)
<1>1. 0 \in Index
  BY DepthAssumption DEF Index
<1>2. EmptyRing \in RingType
  BY <1>1 DEF EmptyRing, RingType
<1>3. FlagsAgree(EmptyRing)
  BY DEF EmptyRing, FlagsAgree
<1>4. ValidBitsAgree(EmptyRing)
  BY DEF EmptyRing, ValidBitsAgree, Occupied, Index
<1> QED BY <1>2, <1>3, <1>4 DEF RingOK

(* Writing at the tail of a port that is not full keeps the views agreeing; *)
(* in particular the full flag comes on exactly at the last free entry.     *)
LEMMA WriteOK ==
  ASSUME NEW r, RingOK(r), NotFull(r), NEW tok \in Token
  PROVE  RingOK(Write(r, tok))
<1> DEFINE w == Write(r, tok)
<1>1. /\ r.slot \in [Index -> Token \cup {Free}]
      /\ r.head \in Index /\ r.tail \in Index
      /\ r.full = FALSE /\ r.empty \in BOOLEAN
  BY DEF RingOK, RingType, NotFull
<1>2. /\ w.slot = [r.slot EXCEPT ![r.tail] = tok]
      /\ w.head = r.head
      /\ w.tail = Succ(r.tail)
      /\ w.full = (Succ(r.tail) = r.head)
      /\ w.empty = FALSE
  BY DEF Write
<1>3. Succ(r.tail) \in Index
  BY <1>1, SuccType
<1>4. w \in RingType
  BY <1>1, <1>3 DEF Write, RingType
<1>5. FlagsAgree(w)
  <2>1. Succ(r.tail) = r.head => w.full
    BY <1>2
  <2> QED BY <1>2, <2>1 DEF FlagsAgree
<1>6. ValidBitsAgree(w)
  <2> SUFFICES ASSUME NEW i \in Index
               PROVE  w.slot[i] # Free <=> Occupied(w, i)
    BY DEF ValidBitsAgree
  <2>1. r.slot[i] # Free <=> Occupied(r, i)
    BY DEF RingOK, ValidBitsAgree
  <2>2. CASE i = r.tail
    <3>1. w.slot[i] # Free
      BY <1>1, <1>2, <2>2, FreeAssumption
    <3>2. CASE w.full
      BY <3>1, <3>2 DEF Occupied
    <3>3. CASE ~w.full
      <4>1. Succ(r.tail) # r.head
        BY <3>3, <1>2
      <4>2. \/ w.head < w.tail /\ w.head <= i /\ i < w.tail
            \/ w.tail < w.head /\ (w.head <= i \/ i < w.tail)
        BY <4>1, <1>1, <1>2, <2>2, DepthAssumption DEF Succ, Index
      <4> QED BY <3>1, <4>2 DEF Occupied
    <3> QED BY <3>2, <3>3
  <2>3. CASE i # r.tail
    <3>1. w.slot[i] = r.slot[i]
      BY <1>1, <1>2, <2>3
    <3>2. Occupied(r, i) <=> \/ r.head < r.tail /\ r.head <= i /\ i < r.tail
                             \/ r.tail < r.head /\ (r.head <= i \/ i < r.tail)
      BY <1>1 DEF Occupied
    <3>3. CASE w.full
      <4>1. Succ(r.tail) = r.head
        BY <3>3, <1>2
      <4>2. Occupied(r, i)
        BY <4>1, <3>2, <1>1, <2>3, DepthAssumption DEF Succ, Index
      <4> QED BY <3>1, <2>1, <4>2, <3>3 DEF Occupied
    <3>4. CASE ~w.full
      <4>1. Succ(r.tail) # r.head
        BY <3>4, <1>2
      <4>2. Occupied(w, i) <=> \/ w.head < w.tail /\ w.head <= i /\ i < w.tail
                               \/ w.tail < w.head /\ (w.head <= i \/ i < w.tail)
        BY <3>4 DEF Occupied
      <4>3. Occupied(w, i) <=> Occupied(r, i)
        BY <4>1, <4>2, <3>2, <1>1, <1>2, <2>3, DepthAssumption DEF Succ, Index
      <4> QED BY <3>1, <2>1, <4>3
    <3> QED BY <3>3, <3>4
  <2> QED BY <2>2, <2>3
<1> QED BY <1>4, <1>5, <1>6 DEF RingOK

(* input() keeps the views agreeing whether or not it is refused.           *)
LEMMA InputOK ==
  ASSUME NEW r, RingOK(r), NEW tok \in Token
  PROVE  RingOK(Input(r, tok))
BY WriteOK, CanReceiveIsNotFull DEF Input

(* Clearing the head entry keeps the views agreeing and leaves room: a port *)
(* that has just been read is never full.                                   *)
LEMMA ResetOK ==
  ASSUME NEW r, RingOK(r)
  PROVE  /\ RingOK(Reset(r))
         /\ Front(r) # Free => NotFull(Reset(r))
         /\ NotFull(r) => NotFull(Reset(r))
<1> DEFINE w == Reset(r)
<1>1. CASE Front(r) = Free
  BY <1>1 DEF Reset
<1>2. CASE Front(r) # Free
  <2>1. /\ r.slot \in [Index -> Token \cup {Free}]
        /\ r.head \in Index /\ r.tail \in Index
        /\ r.full \in BOOLEAN /\ r.empty = FALSE
    BY <1>2, FrontIsNotEmpty DEF RingOK, RingType, NotEmpty
  <2>2. /\ w.slot = [r.slot EXCEPT ![r.head] = Free]
        /\ w.head = Succ(r.head)
        /\ w.tail = r.tail
        /\ w.full = FALSE
        /\ w.empty = (Succ(r.head) = r.tail)
    BY <1>2 DEF Reset
  <2>3. Succ(r.head) \in Index
    BY <2>1, SuccType
  <2>4. w \in RingType
    BY <1>2, <2>1, <2>3 DEF Reset, RingType
  <2>5. FlagsAgree(w)
    BY <2>2 DEF FlagsAgree
  <2>6. ValidBitsAgree(w)
    <3> SUFFICES ASSUME NEW i \in Index
                 PROVE  w.slot[i] # Free <=> Occupied(w, i)
      BY DEF ValidBitsAgree
    <3>1. r.slot[i] # Free <=> Occupied(r, i)
      BY DEF RingOK, ValidBitsAgree
    <3>2. r.head = r.tail => r.full
      BY <2>1 DEF RingOK, FlagsAgree
    <3>3. CASE i = r.head
      <4>1. w.slot[i] = Free
        BY <2>1, <2>2, <3>3
      <4>2. ~Occupied(w, i)
        BY <2>1, <2>2, <3>3, <3>2, DepthAssumption DEF Occupied, Succ, Index
      <4> QED BY <4>1, <4>2
    <3>4. CASE i # r.head
      <4>1. w.slot[i] = r.slot[i]
        BY <2>1, <2>2, <3>4
      <4>2. r.full => r.head = r.tail
        BY DEF RingOK, FlagsAgree
      <4>3. Occupied(w, i) <=> Occupied(r, i)
        BY <2>1, <2>2, <3>4, <3>2, <4>2, DepthAssumption DEF Occupied, Succ, Index
      <4> QED BY <3>1, <4>1, <4>3
    <3> QED BY <3>3, <3>4
  <2> QED BY <2>2, <2>4, <2>5, <2>6 DEF RingOK, NotFull
<1> QED BY <1>1, <1>2

-----------------------------------------------------------------------------
(* The k-th entry from the head is an index, and an occupied one; the       *)
(* numbering is one-to-one.                                                 *)
LEMMA NthOccupied ==
  ASSUME NEW r, RingOK(r)
  PROVE  /\ Count(r) \in 0 .. Depth
         /\ r.full <=> Count(r) = Depth
         /\ r.empty <=> Count(r) = 0
         /\ \A k \in 1 .. Count(r) : Nth(r, k) \in Index /\ Occupied(r, Nth(r, k))
<1>1. r.tail \in Index /\ r.head \in Index /\ r.full \in BOOLEAN /\ r.empty \in BOOLEAN
  BY DEF RingOK, RingType
<1>2. (r.full => r.head = r.tail) /\ (r.empty <=> (r.head = r.tail /\ ~r.full))
  BY DEF RingOK, FlagsAgree
<1>3. Count(r) \in 0 .. Depth
  BY <1>1, DepthAssumption DEF Count, Index
<1>4. r.full <=> Count(r) = Depth
  BY <1>1, DepthAssumption DEF Count, Index
<1>5. r.empty <=> Count(r) = 0
  BY <1>1, <1>2, DepthAssumption DEF Count, Index
<1>6. ASSUME NEW k \in 1 .. Count(r)
      PROVE  Nth(r, k) \in Index /\ Occupied(r, Nth(r, k))
  <2>1. CASE r.full
    BY <1>1, <1>3, <2>1, DepthAssumption DEF Nth, Occupied, Index
  <2>2. CASE ~r.full /\ r.head <= r.tail
    <3>1. Count(r) = r.tail - r.head
      BY <2>2 DEF Count
    <3>2. Nth(r, k) = r.head + k - 1
      BY <1>1, <2>2, <3>1, DepthAssumption DEF Nth, Index
    <3> QED BY <1>1, <2>2, <3>1, <3>2, DepthAssumption DEF Occupied, Index
  <2>3. CASE ~r.full /\ ~(r.head <= r.tail)
    <3>1. Count(r) = r.tail + Depth - r.head
      BY <2>3 DEF Count
    <3> QED BY <1>1, <2>3, <3>1, DepthAssumption DEF Nth, Occupied, Index
  <2> QED BY <2>1, <2>2, <2>3
<1> QED BY <1>3, <1>4, <1>5, <1>6

(* What a well-formed port holds is a sequence of tokens, as long as the    *)
(* count says.                                                              *)
LEMMA ContentType ==
  ASSUME NEW r, RingOK(r)
  PROVE  Content(r) \in Seq(Token) /\ Len(Content(r)) = Count(r)
<1>1. Count(r) \in Nat
  BY NthOccupied, DepthAssumption
<1>2. ASSUME NEW k \in 1 .. Count(r)
      PROVE  r.slot[Nth(r, k)] \in Token
  <2>1. Nth(r, k) \in Index /\ Occupied(r, Nth(r, k))
    BY NthOccupied
  <2>2. r.slot[Nth(r, k)] # Free
    BY <2>1 DEF RingOK, ValidBitsAgree
  <2> QED BY <2>1, <2>2 DEF RingOK, RingType
<1>3. Content(r) \in [1 .. Count(r) -> Token]
  BY <1>2 DEF Content
<1>4. Content(r) \in Seq(Token)
  BY <1>1, <1>3, SeqDef
<1>5. Len(Content(r)) = Count(r)
  <2>1. DOMAIN Content(r) = 1 .. Len(Content(r)) /\ Len(Content(r)) \in Nat
    BY <1>4, LenProperties
  <2>2. DOMAIN Content(r) = 1 .. Count(r)
    BY DEF Content
  <2> QED BY <1>1, <2>1, <2>2
<1> QED BY <1>4, <1>5

(* Writing appends at the end of what the port holds ...                    *)
LEMMA ContentWrite ==
  ASSUME NEW r, RingOK(r), NotFull(r), NEW tok \in Token
  PROVE  Content(Write(r, tok)) = Append(Content(r), tok)
<1> DEFINE w == Write(r, tok)
<1>1. /\ r.slot \in [Index -> Token \cup {Free}]
      /\ r.head \in Index /\ r.tail \in Index
      /\ r.full = FALSE
  BY DEF RingOK, RingType, NotFull
<1>2. /\ w.slot = [r.slot EXCEPT ![r.tail] = tok]
      /\ w.head = r.head
      /\ w.tail = Succ(r.tail)
      /\ w.full = (Succ(r.tail) = r.head)
  BY DEF Write
<1>3. RingOK(w)
  BY WriteOK
<1>4. Count(w) = Count(r) + 1
  <2>1. CASE w.full
    <3>1. Succ(r.tail) = r.head /\ Count(w) = Depth
      BY <2>1, <1>2 DEF Count
    <3> QED BY <3>1, <1>1, DepthAssumption DEF Count, Succ, Index
  <2>2. CASE ~w.full
    <3>1. Succ(r.tail) # r.head
      BY <2>2, <1>2
    <3>2. Count(w) = IF w.head <= w.tail THEN w.tail - w.head ELSE w.tail + Depth - w.head
      BY <2>2 DEF Count
    <3> QED BY <3>1, <3>2, <1>1, <1>2, DepthAssumption DEF Count, Succ, Index
  <2> QED BY <2>1, <2>2
<1>5. /\ Content(w) \in Seq(Token) /\ Len(Content(w)) = Count(r) + 1
      /\ Content(r) \in Seq(Token) /\ Len(Content(r)) = Count(r)
      /\ Count(r) \in Nat
  BY <1>3, <1>4, ContentType, LenProperties
<1>6. ASSUME NEW k \in 1 .. Count(r)
      PROVE  Content(w)[k] = Content(r)[k]
  <2>1. Nth(r, k) \in Index /\ Occupied(r, Nth(r, k))
    BY NthOccupied
  <2>2. ~Occupied(r, r.tail)
    BY <1>1, DepthAssumption DEF Occupied, Index
  <2>3. Nth(w, k) = Nth(r, k)
    BY <1>2 DEF Nth
  <2>4. w.slot[Nth(r, k)] = r.slot[Nth(r, k)]
    BY <2>1, <2>2, <1>1, <1>2
  <2> QED BY <2>3, <2>4, <1>4, <1>5 DEF Content
<1>7. Content(w)[Count(r) + 1] = tok
  <2>1. Nth(w, Count(r) + 1) = r.tail
    BY <1>1, <1>2, DepthAssumption DEF Nth, Count, Index
  <2>2. w.slot[r.tail] = tok
    BY <1>1, <1>2
  <2> QED BY <2>1, <2>2, <1>4, <1>5 DEF Content
<1> DEFINE a == Append(Content(r), tok)
<1>8. /\ a \in Seq(Token) /\ Len(a) = Count(r) + 1
      /\ \A k \in 1 .. Count(r) : a[k] = Content(r)[k]
      /\ a[Count(r) + 1] = tok
  BY <1>5, AppendProperties
<1>9. \A k \in 1 .. Len(Content(w)) : Content(w)[k] = a[k]
  BY <1>5, <1>6, <1>7, <1>8
<1> HIDE DEF w, a
<1>10. Content(w) = a
  BY <1>5, <1>8, <1>9, SeqEqual
<1> QED BY <1>10 DEF w, a

(* ... and clearing the head entry removes the oldest.                      *)
LEMMA ContentReset ==
  ASSUME NEW r, RingOK(r), Front(r) # Free
  PROVE  /\ Content(r) # << >>
         /\ Content(Reset(r)) = Tail(Content(r))
<1> DEFINE w == Reset(r)
<1>1. /\ r.slot \in [Index -> Token \cup {Free}]
      /\ r.head \in Index /\ r.tail \in Index
      /\ r.full \in BOOLEAN /\ r.empty = FALSE
  BY FrontIsNotEmpty DEF RingOK, RingType, NotEmpty
<1>2. /\ w.slot = [r.slot EXCEPT ![r.head] = Free]
      /\ w.head = Succ(r.head)
      /\ w.tail = r.tail
      /\ w.full = FALSE
  BY DEF Reset
<1>3. RingOK(w)
  BY ResetOK
<1>4. Count(r) \in 1 .. Depth
  BY <1>1, NthOccupied, DepthAssumption
<1>5. Count(w) = Count(r) - 1
  <2>1. Count(w) = IF w.head <= w.tail THEN w.tail - w.head ELSE w.tail + Depth - w.head
    BY <1>2 DEF Count
  <2>2. (r.full => r.head = r.tail) /\ (r.head = r.tail => r.full)
    BY <1>1 DEF RingOK, FlagsAgree
  <2> QED BY <2>1, <2>2, <1>1, <1>2, DepthAssumption DEF Count, Succ, Index
<1>6. /\ Content(w) \in Seq(Token) /\ Len(Content(w)) = Count(r) - 1
      /\ Content(r) \in Seq(Token) /\ Len(Content(r)) = Count(r)
  BY <1>3, <1>5, ContentType
<1>7. Content(r) # << >>
  BY <1>4, <1>6, EmptySeq, DepthAssumption
<1>8. ASSUME NEW k \in 1 .. (Count(r) - 1)
      PROVE  Content(w)[k] = Content(r)[k + 1]
  <2>1. k + 1 \in 1 .. Count(r) /\ k \in Nat \ {0} /\ k < Depth
    BY <1>4, DepthAssumption
  <2>2. Nth(w, k) = Nth(r, k + 1)
    BY <2>1, <1>1, <1>2, DepthAssumption DEF Nth, Succ, Index
  <2>3. Nth(r, k + 1) \in Index /\ Nth(r, k + 1) # r.head
    BY <2>1, <1>1, DepthAssumption DEF Nth, Index
  <2>4. w.slot[Nth(r, k + 1)] = r.slot[Nth(r, k + 1)]
    BY <2>3, <1>1, <1>2
  <2> QED BY <2>1, <2>2, <2>4, <1>5 DEF Content
<1> DEFINE a == Tail(Content(r))
<1>9. /\ a \in Seq(Token) /\ Len(a) = Count(r) - 1
      /\ \A k \in 1 .. (Count(r) - 1) : a[k] = Content(r)[k + 1]
  BY <1>6, <1>7, HeadTailProperties
<1>10. \A k \in 1 .. Len(Content(w)) : Content(w)[k] = a[k]
  BY <1>6, <1>8, <1>9
<1> HIDE DEF w, a
<1>11. Content(w) = a
  BY <1>6, <1>9, <1>10, SeqEqual
<1> QED BY <1>7, <1>11 DEF w, a

-----------------------------------------------------------------------------
(* A reader gets the oldest token, and nothing from an empty port.          *)
LEMMA ContentFront ==
  ASSUME NEW r, RingOK(r)
  PROVE  /\ NotEmpty(r) <=> Content(r) # << >>
         /\ Front(r) # Free => Front(r) = Head(Content(r)) /\ Front(r) \in Token
<1>1. /\ Content(r) \in Seq(Token) /\ Len(Content(r)) = Count(r)
      /\ r.empty <=> Count(r) = 0
      /\ Count(r) \in Nat
  BY ContentType, NthOccupied, DepthAssumption
<1>2. NotEmpty(r) <=> Content(r) # << >>
  BY <1>1, EmptySeq DEF NotEmpty
<1>3. ASSUME Front(r) # Free
      PROVE  Front(r) = Head(Content(r)) /\ Front(r) \in Token
  <2>1. 1 \in 1 .. Count(r)
    BY <1>1, <1>3, FrontIsNotEmpty DEF NotEmpty
  <2>2. r.head \in Index /\ r.slot \in [Index -> Token \cup {Free}]
    BY DEF RingOK, RingType
  <2>3. Nth(r, 1) = r.head
    BY <2>2, DepthAssumption DEF Nth, Index
  <2>4. Content(r)[1] = Front(r)
    BY <2>1, <2>3 DEF Content, Front
  <2> QED BY <1>1, <1>2, <1>3, <2>2, <2>4, FrontIsNotEmpty, HeadTailProperties DEF Front
<1> QED BY <1>2, <1>3

(* All that the owner of a port needs to know about it.                     *)
THEOREM RingFacts ==
  /\ RingOK(EmptyRing) /\ NotFull(EmptyRing) /\ Content(EmptyRing) = << >>
  /\ \A r : RingOK(r) =>
       /\ r \in RingType
       /\ Content(r) \in Seq(Token)
       /\ NotFull(r) <=> Len(Content(r)) < Depth
       /\ Len(Content(r)) <= Depth
       /\ NotEmpty(r) <=> Content(r) # << >>
       /\ CanReceive(r) <=> NotFull(r)
       /\ Front(r) = IF Content(r) = << >> THEN Free ELSE Head(Content(r))
       /\ RingOK(Reset(r))
       /\ Content(Reset(r)) = IF Content(r) = << >> THEN << >> ELSE Tail(Content(r))
       /\ NotFull(r) \/ NotEmpty(r) => NotFull(Reset(r))
       /\ \A tok \in Token :
            /\ RingOK(Input(r, tok))
            /\ Content(Input(r, tok)) = IF NotFull(r) THEN Append(Content(r), tok) ELSE Content(r)
<1>1. RingOK(EmptyRing) /\ NotFull(EmptyRing)
  BY EmptyRingOK DEF NotFull, EmptyRing
<1>2. Content(EmptyRing) = << >>
  BY DEF Content, Count, EmptyRing
<1>3. ASSUME NEW r, RingOK(r)
      PROVE  /\ Content(r) \in Seq(Token)
             /\ NotFull(r) <=> Len(Content(r)) < Depth
             /\ Len(Content(r)) <= Depth
  <2>1. Content(r) \in Seq(Token) /\ Len(Content(r)) = Count(r)
    BY <1>3, ContentType
  <2>2. Count(r) \in 0 .. Depth /\ (r.full <=> Count(r) = Depth)
    BY <1>3, NthOccupied
  <2> QED BY <2>1, <2>2, DepthAssumption DEF NotFull
<1>4. ASSUME NEW r, RingOK(r)
      PROVE  /\ NotEmpty(r) <=> Content(r) # << >>
             /\ Front(r) = IF Content(r) = << >> THEN Free ELSE Head(Content(r))
  BY <1>4, ContentFront, FrontIsNotEmpty
<1>5. ASSUME NEW r, RingOK(r)
      PROVE  /\ RingOK(Reset(r))
             /\ Content(Reset(r)) = IF Content(r) = << >> THEN << >> ELSE Tail(Content(r))
             /\ NotFull(r) \/ NotEmpty(r) => NotFull(Reset(r))
  <2>1. Front(r) = Free => Reset(r) = r
    BY DEF Reset
  <2> QED BY <1>4, <1>5, <2>1, ResetOK, ContentReset, FrontIsNotEmpty
<1>6. ASSUME NEW r, RingOK(r), NEW tok \in Token
      PROVE  /\ RingOK(Input(r, tok))
             /\ Content(Input(r, tok)) = IF NotFull(r) THEN Append(Content(r), tok) ELSE Content(r)
  BY <1>6, InputOK, ContentWrite, CanReceiveIsNotFull DEF Input
<1>7. \A r : RingOK(r) => r \in RingType /\ (CanReceive(r) <=> NotFull(r))
  BY CanReceiveIsNotFull DEF RingOK
<1> QED BY <1>1, <1>2, <1>3, <1>4, <1>5, <1>6, <1>7

(* The valid bits decide the flags, and an empty port has no valid entry.   *)
LEMMA FlagsByEntries ==
  ASSUME NEW r, RingOK(r)
  PROVE  /\ r = [slot |-> r.slot, head |-> r.head, tail |-> r.tail,
                 full |-> r.slot[r.tail] # Free, empty |-> r.slot[r.head] = Free]
         /\ r.slot[r.head] = Free => r.tail = r.head /\ \A i \in Index : r.slot[i] = Free
<1>1. /\ r.head \in Index /\ r.tail \in Index /\ r.full \in BOOLEAN /\ r.empty \in BOOLEAN
      /\ r = [slot |-> r.slot, head |-> r.head, tail |-> r.tail, full |-> r.full, empty |-> r.empty]
  BY DEF RingOK, RingType
<1>2. r.full = (r.slot[r.tail] # Free) /\ r.empty = (r.slot[r.head] = Free)
  BY <1>1, CanReceiveIsNotFull, FrontIsNotEmpty DEF CanReceive, NotFull, Front, NotEmpty
<1>3. ASSUME r.slot[r.head] = Free
      PROVE  r.tail = r.head /\ \A i \in Index : r.slot[i] = Free
  <2>1. r.head = r.tail /\ ~r.full
    BY <1>1, <1>2, <1>3 DEF RingOK, FlagsAgree
  <2>2. \A i \in Index : ~Occupied(r, i)
    BY <1>1, <2>1 DEF Occupied, Index
  <2> QED BY <2>1, <2>2 DEF RingOK, ValidBitsAgree
<1> QED BY <1>1, <1>2, <1>3

(* Every valid entry is one position of the content.                        *)
LEMMA EveryEntryCounts ==
  ASSUME NEW r, RingOK(r)
  PROVE  \E f \in [1 .. Len(Content(r)) -> {i \in Index : r.slot[i] # Free}] :
           /\ \A k, l \in 1 .. Len(Content(r)) : f[k] = f[l] => k = l
           /\ \A i \in Index : r.slot[i] # Free => \E k \in 1 .. Len(Content(r)) : f[k] = i
<1> DEFINE valid == {i \in Index : r.slot[i] # Free}
           f     == [k \in 1 .. Count(r) |-> Nth(r, k)]
<1>1. /\ r.head \in Index /\ r.tail \in Index /\ r.full \in BOOLEAN
      /\ Count(r) \in Nat /\ Count(r) <= Depth /\ Depth \in Nat \ {0}
      /\ (r.full => r.head = r.tail)
  BY NthOccupied, DepthAssumption DEF RingOK, RingType, FlagsAgree
<1>2. ASSUME NEW k \in 1 .. Count(r) PROVE f[k] \in valid
  BY NthOccupied DEF RingOK, ValidBitsAgree
<1>3. ASSUME NEW k \in 1 .. Count(r), NEW l \in 1 .. Count(r), f[k] = f[l] PROVE k = l
  <2>1. Nth(r, k) = Nth(r, l)
    BY <1>3
  <2>2. k \in 1 .. Depth /\ l \in 1 .. Depth
    BY <1>1
  <2> QED BY <1>1, <2>1, <2>2 DEF Nth, Index
<1>4. ASSUME NEW i \in valid PROVE \E k \in 1 .. Count(r) : f[k] = i
  <2>1. i \in Index /\ Occupied(r, i)
    BY DEF RingOK, ValidBitsAgree
  <2> DEFINE k == IF r.head <= i THEN i - r.head + 1 ELSE i + Depth - r.head + 1
  <2>2. k \in 1 .. Count(r) /\ Nth(r, k) = i
    <3>1. CASE r.full
      <4>1. Count(r) = Depth
        BY <3>1 DEF Count
      <4> QED BY <1>1, <2>1, <4>1 DEF Nth, Index
    <3>2. CASE ~r.full /\ r.head < r.tail
      <4>1. Count(r) = r.tail - r.head /\ r.head <= i /\ i < r.tail
        BY <1>1, <2>1, <3>2 DEF Count, Occupied, Index
      <4> QED BY <1>1, <2>1, <3>2, <4>1 DEF Nth, Index
    <3>3. CASE ~r.full /\ r.tail < r.head
      <4>1. Count(r) = r.tail + Depth - r.head /\ (r.head <= i \/ i < r.tail)
        BY <1>1, <2>1, <3>3 DEF Count, Occupied, Index
      <4> QED BY <1>1, <2>1, <3>3, <4>1 DEF Nth, Index
    <3> QED BY <1>1, <2>1, <3>1, <3>2, <3>3 DEF Occupied, Index
  <2> QED BY <2>2
<1>5. f \in [1 .. Count(r) -> valid]
  BY <1>2
<1> HIDE DEF f
<1> QED BY <1>3, <1>4, <1>5, ContentType

(* A port with at most one token, read as a register: what the owner of one *)
(* needs to know.                                                           *)
LEMMA RegisterFacts ==
  /\ AtMostOne(EmptyRing) /\ Front(EmptyRing) = Free
  /\ \A r : AtMostOne(r) =>
       /\ r \in RingType /\ Front(r) \in Token \cup {Free}
       /\ Front(r) # Free => AtMostOne(Reset(r)) /\ Front(Reset(r)) = Free
       /\ Front(r) = Free =>
            /\ NotFull(r)
            /\ \A tok \in Token : AtMostOne(Input(r, tok)) /\ Front(Input(r, tok)) = tok
       /\ Front(r) # Free /\ Depth = 1 => ~NotFull(r)
<1>1. ASSUME NEW r, RingOK(r)
      PROVE  /\ Count(r) = Len(Content(r)) /\ Content(r) \in Seq(Token) /\ Count(r) \in Nat
             /\ Front(r) = IF Content(r) = << >> THEN Free ELSE Head(Content(r))
             /\ NotFull(r) <=> Count(r) < Depth
  BY <1>1, ContentType, RingFacts, LenProperties
<1>2. AtMostOne(EmptyRing) /\ Front(EmptyRing) = Free
  <2>1. RingOK(EmptyRing) /\ Content(EmptyRing) = << >>
    BY RingFacts
  <2>2. Count(EmptyRing) = 0
    BY <1>1, <2>1, EmptySeq
  <2> QED BY <1>1, <2>1, <2>2 DEF AtMostOne
<1>3. ASSUME NEW r, AtMostOne(r)
      PROVE  r \in RingType /\ Front(r) \in Token \cup {Free}
  BY <1>3, ContentFront DEF AtMostOne, RingOK
<1>4. ASSUME NEW r, AtMostOne(r), Front(r) # Free
      PROVE  /\ AtMostOne(Reset(r)) /\ Front(Reset(r)) = Free
             /\ Depth = 1 => ~NotFull(r)
  <2> DEFINE c == Content(r)
  <2>1. RingOK(r) /\ Count(r) <= 1 /\ RingOK(Reset(r)) /\ c # << >> /\ Content(Reset(r)) = Tail(c)
    BY <1>4, RingFacts, FrontIsNotEmpty DEF AtMostOne
  <2>2. c \in Seq(Token) /\ Len(c) = Count(r) /\ Len(c) \in Nat
    BY <1>1, <2>1
  <2> HIDE DEF c
  <2>3. Len(c) = 1 /\ Tail(c) = << >>
    <3>1. Len(c) # 0 /\ Len(Tail(c)) = Len(c) - 1 /\ Tail(c) \in Seq(Token)
      BY <2>1, <2>2, EmptySeq, HeadTailProperties
    <3>2. Len(c) = 1
      BY <2>1, <2>2, <3>1
    <3>3. Len(Tail(c)) = 0
      BY <3>1, <3>2
    <3>4. Tail(c) = << >>
      BY <3>1, <3>3, EmptySeq
    <3> QED BY <3>2, <3>4
  <2>4. Count(Reset(r)) = 0 /\ Front(Reset(r)) = Free
    BY <1>1, <2>1, <2>3, EmptySeq
  <2>5. Depth = 1 => ~NotFull(r)
    <3>1. NotFull(r) <=> Count(r) < Depth
      BY <1>1, <2>1
    <3>2. Count(r) = 1
      BY <2>2, <2>3
    <3> QED BY <3>1, <3>2
  <2> QED BY <2>1, <2>4, <2>5 DEF AtMostOne
<1>5. ASSUME NEW r, AtMostOne(r), Front(r) = Free
      PROVE  /\ NotFull(r)
             /\ \A tok \in Token : AtMostOne(Input(r, tok)) /\ Front(Input(r, tok)) = tok
  <2>1. RingOK(r) /\ Content(r) = << >>
    BY <1>5, RingFacts, FrontIsNotEmpty DEF AtMostOne
  <2>2. NotFull(r)
    <3>1. Len(Content(r)) = 0
      BY <2>1, EmptySeq
    <3> QED BY <2>1, <3>1, RingFacts, DepthAssumption
  <2>3. ASSUME NEW tok \in Token PROVE AtMostOne(Input(r, tok)) /\ Front(Input(r, tok)) = tok
    <3>1. RingOK(Input(r, tok)) /\ Content(Input(r, tok)) = Append(<< >>, tok)
      BY <2>1, <2>2, RingFacts
    <3>2. << >> \in Seq(Token) /\ Len(<< >>) = 0
      BY EmptySeq
    <3>3. /\ Len(Append(<< >>, tok)) = 1 /\ Append(<< >>, tok) # << >>
          /\ Head(Append(<< >>, tok)) = tok
      BY <3>2, AppendProperties, HeadTailAppend
    <3> DEFINE a == Append(<< >>, tok)
    <3> HIDE DEF a
    <3>4. Count(Input(r, tok)) = 1 /\ Front(Input(r, tok)) = tok
      BY <1>1, <3>1, <3>3 DEF a
    <3> QED BY <3>1, <3>4 DEF AtMostOne
  <2> QED BY <2>2, <2>3
<1> QED BY <1>2, <1>3, <1>4, <1>5
=============================================================================
