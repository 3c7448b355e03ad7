-------------------------- MODULE StorePair_proofs --------------------------
(***************************************************************************)
(* Proofs about the pair of store elements, for every number of slots, if  *)
(* the first pair is a store that is accepted in its cycle.  Each side's   *)
(* slots are read as a circular buffer with the head Oldest, so that the   *)
(* lemmas of Ring_proofs apply: storing a token is a write, clearing the   *)
(* pair that was taken or dropped is a reset.                              *)
(***************************************************************************)
EXTENDS StorePair, SequenceTheorems, FunctionTheorems, FiniteSetTheorems, TLAPS

RingLemmas == INSTANCE Ring_proofs

(* R and RingLemmas instantiate the same definitions.                       *)
LEMMA SameR ==
  /\ R!EmptyRing = RingLemmas!EmptyRing /\ R!RingType = RingLemmas!RingType
  /\ \A r : /\ R!RingOK(r) <=> RingLemmas!RingOK(r)
            /\ R!NotFull(r) <=> RingLemmas!NotFull(r)
            /\ R!NotEmpty(r) <=> RingLemmas!NotEmpty(r)
            /\ R!CanReceive(r) <=> RingLemmas!CanReceive(r)
            /\ R!Front(r) = RingLemmas!Front(r)
            /\ R!Content(r) = RingLemmas!Content(r)
            /\ R!Reset(r) = RingLemmas!Reset(r)
            /\ \A tok : R!Input(r, tok) = RingLemmas!Input(r, tok)
<1>1. R!Index = RingLemmas!Index
  BY DEF R!Index,
            RingLemmas!Index
<1>2. R!EmptyRing = RingLemmas!EmptyRing /\ R!RingType = RingLemmas!RingType
  BY <1>1 DEF R!EmptyRing, R!RingType,
            RingLemmas!EmptyRing, RingLemmas!RingType
<1>3. \A i : R!Succ(i) = RingLemmas!Succ(i)
  BY DEF R!Succ,
            RingLemmas!Succ
<1>4. ASSUME NEW r
      PROVE  /\ R!NotFull(r) <=> RingLemmas!NotFull(r)
             /\ R!NotEmpty(r) <=> RingLemmas!NotEmpty(r)
             /\ R!CanReceive(r) <=> RingLemmas!CanReceive(r)
             /\ R!Front(r) = RingLemmas!Front(r)
  BY DEF R!NotFull, R!NotEmpty, R!CanReceive, R!Front,
            RingLemmas!NotFull, RingLemmas!NotEmpty, RingLemmas!CanReceive, RingLemmas!Front
<1>5. ASSUME NEW r PROVE R!RingOK(r) <=> RingLemmas!RingOK(r)
  <2>1. R!FlagsAgree(r) <=> RingLemmas!FlagsAgree(r)
    BY DEF R!FlagsAgree,
            RingLemmas!FlagsAgree
  <2>2. R!ValidBitsAgree(r) <=> RingLemmas!ValidBitsAgree(r)
    BY <1>1 DEF R!ValidBitsAgree, R!Occupied,
            RingLemmas!ValidBitsAgree, RingLemmas!Occupied
  <2> QED BY <1>2, <2>1, <2>2 DEF R!RingOK,
            RingLemmas!RingOK
<1>6. ASSUME NEW r PROVE R!Content(r) = RingLemmas!Content(r)
  <2>1. R!Count(r) = RingLemmas!Count(r)
    BY DEF R!Count,
            RingLemmas!Count
  <2>2. \A k : R!Nth(r, k) = RingLemmas!Nth(r, k)
    BY DEF R!Nth,
            RingLemmas!Nth
  <2> QED BY <2>1, <2>2 DEF R!Content,
            RingLemmas!Content
<1>7. ASSUME NEW r PROVE R!Reset(r) = RingLemmas!Reset(r)
  <2>1. R!Front(r) = RingLemmas!Front(r) /\ R!Succ(r.head) = RingLemmas!Succ(r.head)
    BY <1>3, <1>4
  <2> QED BY <2>1 DEF R!Reset, RingLemmas!Reset
<1>8. ASSUME NEW r, NEW tok PROVE R!Input(r, tok) = RingLemmas!Input(r, tok)
  BY <1>3, <1>4 DEF R!Input, R!Write,
            RingLemmas!Input, RingLemmas!Write
<1> QED BY <1>2, <1>4, <1>5, <1>6, <1>7, <1>8

(* RingFacts, for R.                                                       *)
LEMMA RFacts ==
  /\ R!RingOK(R!EmptyRing) /\ R!NotFull(R!EmptyRing) /\ R!Content(R!EmptyRing) = << >>
  /\ \A r : R!RingOK(r) =>
       /\ r \in R!RingType
       /\ R!Content(r) \in Seq(Token)
       /\ R!NotFull(r) <=> Len(R!Content(r)) < Depth
       /\ Len(R!Content(r)) <= Depth
       /\ R!NotEmpty(r) <=> R!Content(r) # << >>
       /\ R!CanReceive(r) <=> R!NotFull(r)
       /\ R!Front(r) = IF R!Content(r) = << >> THEN Free ELSE Head(R!Content(r))
       /\ R!RingOK(R!Reset(r))
       /\ R!Content(R!Reset(r)) = IF R!Content(r) = << >> THEN << >> ELSE Tail(R!Content(r))
       /\ R!NotFull(r) \/ R!NotEmpty(r) => R!NotFull(R!Reset(r))
       /\ \A tok \in Token :
            /\ R!RingOK(R!Input(r, tok))
            /\ R!Content(R!Input(r, tok)) =
                 IF R!NotFull(r) THEN Append(R!Content(r), tok) ELSE R!Content(r)
<1>1. Depth \in Nat \ {0} /\ Free \notin Token
  BY StoreAssumption DEF Token
<1> QED BY <1>1, RingLemmas!RingFacts, SameR

(* What is in the slots of a port, and how the operations move the tags.    *)
LEMMA RShape ==
  ASSUME NEW r, R!RingOK(r)
  PROVE  /\ r.slot \in [Tag -> Token \cup {Free}] /\ r.head \in Tag /\ r.tail \in Tag
         /\ r = [slot |-> r.slot, head |-> r.head, tail |-> r.tail,
                 full |-> r.slot[r.tail] # Free, empty |-> r.slot[r.head] = Free]
         /\ r.slot[r.head] = Free => r.tail = r.head /\ \A t \in Tag : r.slot[t] = Free
         /\ Cardinality({t \in Tag : r.slot[t] # Free}) = Len(R!Content(r))
         /\ r.slot[r.tail] = Free <=> R!NotFull(r)
         /\ r.slot[r.head] = Free <=> R!Content(r) = << >>
         /\ r.slot[r.head] # Free => r.slot[r.head] = Head(R!Content(r))
         /\ r.slot[r.head] # Free =>
              /\ R!Reset(r).slot = [r.slot EXCEPT ![r.head] = Free]
              /\ R!Reset(r).head = NextTag(r.head) /\ R!Reset(r).tail = r.tail
         /\ \A tok : r.slot[r.tail] = Free =>
              /\ R!Input(r, tok).slot = [r.slot EXCEPT ![r.tail] = tok]
              /\ R!Input(r, tok).head = r.head /\ R!Input(r, tok).tail = NextTag(r.tail)
<1>1. Depth \in Nat \ {0} /\ Free \notin Token
  BY StoreAssumption DEF Token
<1>2. RingLemmas!RingOK(r) /\ r \in R!RingType
  BY SameR, RFacts
<1>3. RingLemmas!Index = Tag /\ R!Index = Tag
  BY DEF RingLemmas!Index, R!Index, Tag
<1>4. /\ r = [slot |-> r.slot, head |-> r.head, tail |-> r.tail,
              full |-> r.slot[r.tail] # Free, empty |-> r.slot[r.head] = Free]
      /\ r.slot[r.head] = Free => r.tail = r.head /\ \A t \in Tag : r.slot[t] = Free
  BY <1>1, <1>2, <1>3, RingLemmas!FlagsByEntries
<1>5. Cardinality({t \in Tag : r.slot[t] # Free}) = Len(R!Content(r))
  <2> DEFINE valid == {t \in Tag : r.slot[t] # Free}
             n     == Len(R!Content(r))
  <2>1. n \in Nat
    BY RFacts, LenProperties
  <2>2. PICK f \in [1 .. n -> valid] :
          /\ \A k, l \in 1 .. n : f[k] = f[l] => k = l
          /\ \A t \in Tag : r.slot[t] # Free => \E k \in 1 .. n : f[k] = t
    BY <1>1, <1>2, <1>3, RingLemmas!EveryEntryCounts, SameR
  <2>3. \A t \in valid : \E k \in 1 .. n : f[k] = t
    BY <2>2
  <2> HIDE DEF valid, n
  <2>4. ExistsBijection(1 .. n, valid)
    <3>1. f \in Bijection(1 .. n, valid)
      BY <2>2, <2>3, Fun_IsBij
    <3> QED BY <3>1 DEF ExistsBijection
  <2>5. IsFiniteSet(1 .. n) /\ Cardinality(1 .. n) = n
    BY <2>1, FS_Interval
  <2>6. Cardinality(valid) = n
    BY <2>4, <2>5, FS_Bijection
  <2> QED BY <2>6 DEF valid, n
<1>6. r.slot \in [Tag -> Token \cup {Free}] /\ r.head \in Tag /\ r.tail \in Tag
  BY <1>2, <1>3 DEF R!RingType
<1>7. r.slot[r.tail] = Free <=> R!NotFull(r)
  BY RFacts DEF R!CanReceive
<1>8. /\ r.slot[r.head] = Free <=> R!Content(r) = << >>
      /\ r.slot[r.head] # Free => r.slot[r.head] = Head(R!Content(r))
  <2>1. r.slot[r.head] = IF R!Content(r) = << >> THEN Free ELSE Head(R!Content(r))
    BY RFacts DEF R!Front
  <2>2. R!Content(r) \in Seq(Token)
    BY RFacts
  <2> QED BY <1>1, <2>1, <2>2, HeadTailProperties
<1>9. ASSUME r.slot[r.head] # Free
      PROVE  /\ R!Reset(r).slot = [r.slot EXCEPT ![r.head] = Free]
             /\ R!Reset(r).head = NextTag(r.head) /\ R!Reset(r).tail = r.tail
  BY <1>9 DEF R!Reset, R!Front, R!Succ, NextTag
<1>10. ASSUME NEW tok, r.slot[r.tail] = Free
       PROVE  /\ R!Input(r, tok).slot = [r.slot EXCEPT ![r.tail] = tok]
              /\ R!Input(r, tok).head = r.head /\ R!Input(r, tok).tail = NextTag(r.tail)
  BY <1>10 DEF R!Input, R!CanReceive, R!Write, R!Succ, NextTag
<1> QED BY <1>4, <1>5, <1>6, <1>7, <1>8, <1>9, <1>10

(* A side's ring is determined by its slots, its head and its tail.         *)
LEMMA RingOfIs ==
  ASSUME NEW r, R!RingOK(r), NEW s \in Side
  PROVE  /\ r.slot = slot[s] /\ r.head = Oldest /\ r.tail = tag_counter[s] => RingOf(s) = r
         /\ r.slot = slot'[s] /\ r.head = Oldest' /\ r.tail = tag_counter'[s] => RingOf(s)' = r
<1>1. r = [slot |-> r.slot, head |-> r.head, tail |-> r.tail,
           full |-> r.slot[r.tail] # Free, empty |-> r.slot[r.head] = Free]
  BY RShape
<1> QED BY <1>1 DEF RingOf

(* Tags.                                                                    *)
LEMMA TagFacts ==
  /\ 0 \in Tag /\ Depth \in Nat \ {0}
  /\ \A t \in Tag : NextTag(t) \in Tag /\ NextSeek(t) = NextTag(t)
BY StoreAssumption DEF Tag, NextTag, NextSeek

(* The search finds where it starts, if that is a match, or the only match. *)
LEMMA FirstMatchIs ==
  ASSUME NEW slots, NEW from \in Tag, NEW t \in Both(slots),
         t = from \/ Both(slots) = {t}
  PROVE  FirstMatch(slots, from) = t
<1>1. Both(slots) \subseteq Tag
  BY DEF Both
<1>2. \A u \in Tag : Distance(from, u) \in Nat /\ (Distance(from, u) = 0 <=> u = from)
  BY StoreAssumption DEF Distance, Tag
<1> DEFINE P(u) == u \in Both(slots) /\ \A v \in Both(slots) : Distance(from, u) <= Distance(from, v)
<1>3. P(t)
  BY <1>1, <1>2
<1>4. ASSUME NEW u, P(u) PROVE u = t
  <2>1. CASE Both(slots) = {t}
    BY <1>4, <2>1
  <2>2. CASE t = from
    <3>1. Distance(from, u) <= Distance(from, t) /\ u \in Tag
      BY <1>1, <1>4
    <3> QED BY <1>2, <2>2, <3>1
  <2> QED BY <2>1, <2>2
<1>5. FirstMatch(slots, from) = CHOOSE u : P(u)
  BY DEF FirstMatch
<1> HIDE DEF P
<1> QED BY <1>3, <1>4, <1>5
-----------------------------------------------------------------------------
(* A store is a function from the sides to their data.                      *)
LEMMA StoreIs == Store = [Side -> Data]
BY DEF Store, Side

(* What the invariant says of one side.                                     *)
LEMMA SideFacts ==
  ASSUME IInv, NEW s \in Side
  PROVE  /\ R!RingOK(RingOf(s)) /\ R!Content(RingOf(s)) \in Seq(Token)
         /\ RingOf(s).slot = slot[s] /\ RingOf(s).head = Oldest /\ RingOf(s).tail = tag_counter[s]
         /\ Oldest \in Tag /\ tag_counter[s] \in Tag
         /\ slot[s][Oldest] = Free <=> R!Content(RingOf(s)) = << >>
         /\ slot[s][tag_counter[s]] = Free <=> R!NotFull(RingOf(s))
         /\ slot[s] \in [Tag -> Token \cup {Free}]
         /\ input_port[s] \in Token \cup {Free}
         /\ Done => ~firstlsu /\ Oldest = sended_tag /\ R!Content(RingOf(s)) # << >>
         /\ line # Free => /\ ~Done /\ ~firstlsu /\ sended_tag = Oldest
                           /\ R!Content(RingOf(s)) # << >>
                           /\ line[s] = Head(R!Content(RingOf(s))) /\ line[s] \in Data
         /\ Held(s) \in Seq(Token)
         /\ sent[s] = IF input_port[s] = Free THEN Held(s) ELSE Append(Held(s), input_port[s])
<1>1. R!RingOK(RingOf(s)) /\ R!Content(RingOf(s)) \in Seq(Token)
  BY RFacts DEF IInv, SlotsConsistent
<1>2. RingOf(s).slot = slot[s] /\ RingOf(s).head = Oldest /\ RingOf(s).tail = tag_counter[s]
  BY DEF RingOf
<1>3. Oldest \in Tag /\ tag_counter[s] \in Tag
  BY TagFacts DEF IInv, TypeOK, Oldest
<1>4. Done => ~firstlsu /\ Oldest = sended_tag /\ R!Content(RingOf(s)) # << >>
  <2>1. Done => ~firstlsu /\ Oldest = sended_tag /\ slot[s][sended_tag] # Free
    BY DEF Done, Acked, Oldest, IInv, LineIsOldest
  <2>2. Done => RingOf(s).slot[RingOf(s).head] # Free
    BY <1>2, <2>1
  <2>3. R!Content(RingOf(s)) = << >> <=> RingOf(s).slot[RingOf(s).head] = Free
    BY <1>1, RShape
  <2> QED BY <2>1, <2>2, <2>3
<1>5. ASSUME line # Free
      PROVE  /\ ~Done /\ ~firstlsu /\ sended_tag = Oldest /\ R!Content(RingOf(s)) # << >>
             /\ line[s] = Head(R!Content(RingOf(s))) /\ line[s] \in Data
  <2>1. ~Done /\ ~firstlsu /\ sended_tag = Oldest /\ line = [t \in Side |-> slot[t][Oldest]]
    BY <1>5 DEF Done, IInv, LineIsOldest, AckedOnce
  <2>2. line[s] = slot[s][Oldest] /\ line[s] \in Data
    BY <1>5, <2>1, StoreIs DEF IInv, TypeOK
  <2>3. slot[s][Oldest] # Free
    BY <2>2, StoreAssumption
  <2> QED BY <1>1, <1>2, <2>1, <2>2, <2>3, RShape
<1>6. Held(s) \in Seq(Token)
  BY <1>1, <1>4, HeadTailProperties DEF Held
<1>7. sent[s] = IF input_port[s] = Free THEN Held(s) ELSE Append(Held(s), input_port[s])
  BY DEF IInv, SentIsHeld
<1>8. slot[s] \in [Tag -> Token \cup {Free}] /\ input_port[s] \in Token \cup {Free}
  BY DEF IInv, TypeOK
<1>9. /\ slot[s][Oldest] = Free <=> R!Content(RingOf(s)) = << >>
      /\ slot[s][tag_counter[s]] = Free <=> R!NotFull(RingOf(s))
  <2>1. /\ RingOf(s).slot[RingOf(s).head] = Free <=> R!Content(RingOf(s)) = << >>
        /\ RingOf(s).slot[RingOf(s).tail] = Free <=> R!NotFull(RingOf(s))
    BY <1>1, RShape
  <2> QED BY <1>2, <2>1
<1> QED BY <1>1, <1>2, <1>3, <1>4, <1>5, <1>6, <1>7, <1>8, <1>9

(* Nothing is held at first.                                                *)
LEMMA InitIInv == Init => IInv
<1> SUFFICES ASSUME Init PROVE IInv
  OBVIOUS
<1>1. TypeOK
  BY TagFacts, EmptySeq DEF Init, TypeOK
<1>2. /\ R!RingOK(R!EmptyRing) /\ R!Content(R!EmptyRing) = << >>
      /\ R!EmptyRing.slot = [t \in Tag |-> Free]
      /\ R!EmptyRing.head = 0 /\ R!EmptyRing.tail = 0
  BY RFacts DEF R!EmptyRing, R!Index, Tag
<1>3. ASSUME NEW s \in Side PROVE RingOf(s) = R!EmptyRing
  BY <1>2, RingOfIs DEF Init, Oldest
<1>4. SlotsConsistent
  BY <1>2, <1>3 DEF SlotsConsistent
<1>5. SentIsHeld
  BY <1>2, <1>3 DEF SentIsHeld, Held, Done, Acked, Init
<1>6. CreditKept
  BY TagFacts DEF CreditKept, Init
<1>7. LineIsOldest /\ AckedOnce
  BY DEF LineIsOldest, AckedOnce, Init, Acked
<1>8. BeforeFirst
  BY DEF BeforeFirst, Init, Empty, Side
<1> QED BY <1>1, <1>4, <1>5, <1>6, <1>7, <1>8 DEF IInv

(* A token is sent only where its slot is free, and the first is no hole.   *)
LEMMA ArriveIInv ==
  ASSUME IInv, GoodStart, NEW s \in Side, NEW tok \in Token, Arrive(s, tok)
  PROVE  IInv'
<1>1. /\ pc = "idle" /\ this_bp[s] /\ input_port[s] = Free
      /\ input_port' = [input_port EXCEPT ![s] = tok]
      /\ sent' = [sent EXCEPT ![s] = Append(sent[s], tok)]
      /\ firstlsu /\ sent[s] = << >> => tok \in Data
      /\ UNCHANGED <<pc, this_bp, slot, tag_counter, nextlsu_bp, firstlsu, sended_tag,
                     first_seektag, line, taken>>
  BY DEF Arrive
<1>2. tok # Free /\ sent[s] \in Seq(Token)
  BY StoreAssumption DEF Token, IInv, TypeOK
<1>3. TypeOK'
  BY <1>1, <1>2, AppendProperties DEF IInv, TypeOK
<1>4. /\ Oldest' = Oldest /\ Acked' = Acked /\ Done' = Done
      /\ \A r : RingOf(r)' = RingOf(r) /\ Held(r)' = Held(r)
  BY <1>1 DEF Oldest, Acked, Done, RingOf, Held
<1>5. SlotsConsistent'
  BY <1>4 DEF IInv, SlotsConsistent
<1>6. SentIsHeld'
  <2> SUFFICES ASSUME NEW r \in Side
               PROVE  sent'[r] = IF input_port'[r] = Free THEN Held(r)
                                                         ELSE Append(Held(r), input_port'[r])
    BY <1>4 DEF SentIsHeld
  <2>1. sent[r] = IF input_port[r] = Free THEN Held(r) ELSE Append(Held(r), input_port[r])
    BY DEF IInv, SentIsHeld
  <2>2. /\ input_port'[r] = IF r = s THEN tok ELSE input_port[r]
        /\ sent'[r] = IF r = s THEN Append(sent[s], tok) ELSE sent[r]
    BY <1>1 DEF IInv, TypeOK
  <2> QED BY <1>1, <1>2, <2>1, <2>2
<1>7. CreditKept'
  <2> SUFFICES ASSUME NEW r \in Side, this_bp[r] \/ input_port'[r] # Free
               PROVE  slot[r][tag_counter[r]] = Free
    BY <1>1 DEF CreditKept
  <2>1. this_bp[r] \/ input_port[r] # Free
    BY <1>1 DEF IInv, TypeOK
  <2> QED BY <2>1 DEF IInv, CreditKept
<1>8. LineIsOldest' /\ AckedOnce'
  BY <1>1, <1>4 DEF IInv, LineIsOldest, AckedOnce
<1>9. BeforeFirst'
  <2>1. ASSUME firstlsu, NEW r \in Side, sent'[r] # << >> PROVE Head(sent'[r]) \in Data
    <3>1. sent'[r] = IF r = s THEN Append(sent[s], tok) ELSE sent[r]
      BY <1>1 DEF IInv, TypeOK
    <3>2. Head(Append(sent[s], tok)) = IF sent[s] = << >> THEN tok ELSE Head(sent[s])
      BY <1>2, HeadTailAppend
    <3> QED BY <1>1, <2>1, <3>1, <3>2 DEF IInv, BeforeFirst
  <2>2. \A r : Empty(r)' = Empty(r) /\ AtMostOne(r)' = AtMostOne(r)
    BY <1>1 DEF Empty, AtMostOne
  <2> QED BY <1>1, <2>1, <2>2 DEF IInv, BeforeFirst
<1> QED BY <1>3, <1>5, <1>6, <1>7, <1>8, <1>9 DEF IInv

(* The pair on the line is taken; its slots are cleared later.              *)
LEMMA AcceptIInv ==
  ASSUME IInv, Accept
  PROVE  IInv'
<1>1. /\ pc = "idle" /\ line # Free /\ line' = Free /\ nextlsu_bp' = TRUE /\ taken' = TRUE
      /\ sent' = [s \in Side |-> Tail(sent[s])]
      /\ UNCHANGED <<pc, input_port, this_bp, slot, tag_counter, firstlsu, sended_tag, first_seektag>>
  BY DEF Accept
<1>2. ~firstlsu /\ sended_tag = Oldest /\ ~Done
  BY <1>1 DEF IInv, LineIsOldest, AckedOnce, Done
<1>3. Acked' /\ Done' /\ Oldest' = Oldest
  BY <1>1, <1>2 DEF Acked, Done, Oldest
<1>4. \A s : RingOf(s)' = RingOf(s)
  BY <1>1, <1>3 DEF RingOf
<1>5. ASSUME NEW s \in Side
      PROVE  /\ Held(s) = R!Content(RingOf(s)) /\ Held(s)' = Tail(R!Content(RingOf(s)))
             /\ Held(s) # << >> /\ Held(s) \in Seq(Token)
             /\ slot[s][sended_tag] # Free
  <2>1. Held(s) = R!Content(RingOf(s)) /\ Held(s)' = Tail(R!Content(RingOf(s)))
    BY <1>2, <1>3, <1>4 DEF Held
  <2>2. RingOf(s).slot[RingOf(s).head] # Free
    BY <1>1, SideFacts, RShape
  <2> QED BY <1>1, <1>2, <2>1, <2>2, SideFacts
<1>6. ASSUME NEW s \in Side
      PROVE  /\ sent[s] # << >> /\ sent[s] \in Seq(Token)
             /\ Tail(sent[s]) = IF input_port[s] = Free THEN Held(s)' ELSE Append(Held(s)', input_port[s])
  <2>1. sent[s] = IF input_port[s] = Free THEN Held(s) ELSE Append(Held(s), input_port[s])
    BY SideFacts
  <2>2. input_port[s] # Free =>
          /\ Append(Held(s), input_port[s]) # << >>
          /\ Tail(Append(Held(s), input_port[s])) = Append(Tail(Held(s)), input_port[s])
    BY <1>5, SideFacts, AppendProperties, HeadTailAppend
  <2> QED BY <1>5, <2>1, <2>2 DEF IInv, TypeOK
<1>7. TypeOK'
  <2>1. sent' \in [Side -> Seq(Token)]
    BY <1>1, <1>6, HeadTailProperties
  <2> QED BY <1>1, <2>1 DEF IInv, TypeOK
<1>8. SlotsConsistent'
  BY <1>4 DEF IInv, SlotsConsistent
<1>9. SentIsHeld'
  BY <1>1, <1>6 DEF SentIsHeld
<1>10. CreditKept'
  BY <1>1 DEF IInv, CreditKept
<1>11. LineIsOldest' /\ AckedOnce' /\ BeforeFirst'
  BY <1>1, <1>2, <1>5 DEF LineIsOldest, AckedOnce, BeforeFirst, Acked
<1> QED BY <1>7, <1>8, <1>9, <1>10, <1>11 DEF IInv

(* simStep1 moves the token from the wire into the slot of the tag counter. *)
LEMMA Stores ==
  ASSUME IInv, NEW s \in Side, SimStep1(s),
         pc' \in {"idle", "simStep2", "simStep1"},
         UNCHANGED <<nextlsu_bp, firstlsu, sended_tag, first_seektag, line, taken, sent>>
  PROVE  /\ TypeOK' /\ SlotsConsistent' /\ SentIsHeld' /\ CreditKept' /\ LineIsOldest'
         /\ \A r \in Side : r # s => slot'[r] = slot[r]
         /\ firstlsu /\ Empty(s) => AtMostOne(s)'
<1> DEFINE tok == input_port[s]
           tag == tag_counter[s]
<1>1. /\ slot' = [slot EXCEPT ![s] = StoreToken(s, slot[s])]
      /\ tag_counter' = [tag_counter EXCEPT ![s] = TagAfter(s, slot[s])]
      /\ this_bp' = [this_bp EXCEPT ![s] = GetBpTag(StoreToken(s, slot[s]), TagAfter(s, slot[s]))]
      /\ input_port' = [input_port EXCEPT ![s] = Free]
  BY DEF SimStep1
<1>2. /\ slot \in [Side -> [Tag -> Token \cup {Free}]] /\ tag_counter \in [Side -> Tag]
      /\ this_bp \in [Side -> BOOLEAN] /\ input_port \in [Side -> Token \cup {Free}]
      /\ tok # Free => slot[s][tag] = Free
  BY DEF IInv, TypeOK, CreditKept
<1>3. /\ slot'[s] = IF tok = Free THEN slot[s] ELSE [slot[s] EXCEPT ![tag] = tok]
      /\ tag_counter'[s] = IF tok = Free THEN tag ELSE NextTag(tag)
      /\ this_bp'[s] = (slot'[s][tag_counter'[s]] = Free)
      /\ input_port'[s] = Free
      /\ \A r \in Side : r # s => /\ slot'[r] = slot[r] /\ tag_counter'[r] = tag_counter[r]
                                  /\ this_bp'[r] = this_bp[r] /\ input_port'[r] = input_port[r]
  BY <1>1, <1>2 DEF StoreToken, TagAfter, GetBpTag
<1>4. ASSUME NEW r \in Side, NEW t \in Tag, slot[r][t] # Free
      PROVE  slot'[r][t] = slot[r][t]
  BY <1>2, <1>3, <1>4
<1>5. TypeOK'
  <2>1. /\ slot' \in [Side -> [Tag -> Token \cup {Free}]] /\ tag_counter' \in [Side -> Tag]
    <3>1. [slot[s] EXCEPT ![tag] = tok] \in [Tag -> Token \cup {Free}] /\ NextTag(tag) \in Tag
      BY <1>2, TagFacts
    <3>2. slot'[s] \in [Tag -> Token \cup {Free}] /\ tag_counter'[s] \in Tag
      BY <1>2, <1>3, <3>1
    <3>3. \A r \in Side : slot'[r] \in [Tag -> Token \cup {Free}] /\ tag_counter'[r] \in Tag
      BY <1>2, <1>3, <3>2
    <3> QED BY <1>1, <1>2, <3>3
  <2>2. this_bp' \in [Side -> BOOLEAN] /\ input_port' \in [Side -> Token \cup {Free}]
    BY <1>1, <1>2 DEF GetBpTag
  <2> QED BY <2>1, <2>2 DEF IInv, TypeOK
<1>6. Oldest' = Oldest /\ Acked' = Acked /\ Done' = Done
  BY DEF Oldest, Acked, Done
<1>7. \A r \in Side : r # s => RingOf(r)' = RingOf(r)
  BY <1>3, <1>6 DEF RingOf
<1>8. /\ R!RingOK(RingOf(s)) /\ RingOf(s).slot = slot[s]
      /\ RingOf(s).head = Oldest /\ RingOf(s).tail = tag
  BY SideFacts
<1>9. RingOf(s)' = IF tok = Free THEN RingOf(s) ELSE R!Input(RingOf(s), tok)
  <2>1. CASE tok = Free
    BY <1>3, <1>6, <1>8, <2>1, RingOfIs
  <2>2. CASE tok # Free
    <3>1. tok \in Token /\ RingOf(s).slot[RingOf(s).tail] = Free
      BY <1>2, <1>8, <2>2
    <3>2. R!RingOK(R!Input(RingOf(s), tok))
      BY <1>8, <3>1, RFacts
    <3>3. /\ R!Input(RingOf(s), tok).slot = [RingOf(s).slot EXCEPT ![RingOf(s).tail] = tok]
          /\ R!Input(RingOf(s), tok).head = RingOf(s).head
          /\ R!Input(RingOf(s), tok).tail = NextTag(RingOf(s).tail)
      BY <1>8, <3>1, RShape
    <3>4. /\ R!Input(RingOf(s), tok).slot = slot'[s]
          /\ R!Input(RingOf(s), tok).head = Oldest'
          /\ R!Input(RingOf(s), tok).tail = tag_counter'[s]
      BY <1>3, <1>6, <1>8, <2>2, <3>3
    <3> QED BY <2>2, <3>2, <3>4, RingOfIs
  <2> QED BY <2>1, <2>2
<1>10. SlotsConsistent'
  <2>1. tok # Free => R!RingOK(R!Input(RingOf(s), tok))
    BY <1>2, <1>8, RFacts
  <2> QED BY <1>7, <1>8, <1>9, <2>1, SideFacts DEF SlotsConsistent
<1>11. SentIsHeld'
  <2> SUFFICES ASSUME NEW r \in Side
               PROVE  sent[r] = IF input_port'[r] = Free THEN Held(r)'
                                                         ELSE Append(Held(r)', input_port'[r])
    BY DEF SentIsHeld
  <2>1. sent[r] = IF input_port[r] = Free THEN Held(r) ELSE Append(Held(r), input_port[r])
    BY SideFacts
  <2>2. CASE r # s \/ tok = Free
    <3>1. RingOf(r)' = RingOf(r) /\ input_port'[r] = input_port[r]
      BY <1>3, <1>7, <1>9, <2>2
    <3>2. Held(r)' = Held(r)
      BY <1>6, <3>1 DEF Held
    <3> QED BY <2>1, <3>1, <3>2
  <2>3. CASE r = s /\ tok # Free
    <3> DEFINE c == R!Content(RingOf(s))
    <3>1. tok \in Token /\ R!NotFull(RingOf(s)) /\ c \in Seq(Token)
      BY <1>2, <1>8, <2>3, RShape, SideFacts
    <3>2. R!Content(RingOf(s)') = Append(c, tok)
      BY <1>8, <1>9, <2>3, <3>1, RFacts
    <3>3. Held(s)' = IF Done THEN Tail(Append(c, tok)) ELSE Append(c, tok)
      BY <1>6, <3>2 DEF Held
    <3>4. Done => c # << >>
      BY SideFacts
    <3>5. c # << >> => Tail(Append(c, tok)) = Append(Tail(c), tok)
      BY <3>1, HeadTailAppend
    <3>6. Held(s) = IF Done THEN Tail(c) ELSE c
      BY DEF Held
    <3> HIDE DEF c
    <3>7. Held(s)' = Append(Held(s), tok)
      BY <3>3, <3>4, <3>5, <3>6
    <3> QED BY <1>3, <2>1, <2>3, <3>7
  <2> QED BY <2>2, <2>3
<1>12. CreditKept'
  <2> SUFFICES ASSUME NEW r \in Side, this_bp'[r] \/ input_port'[r] # Free
               PROVE  slot'[r][tag_counter'[r]] = Free
    BY DEF CreditKept
  <2>1. CASE r = s
    BY <1>3, <2>1
  <2>2. CASE r # s
    BY <1>3, <2>2 DEF IInv, CreditKept
  <2> QED BY <2>1, <2>2
<1>13. LineIsOldest'
  <2>1. ASSUME line # Free PROVE line = [r \in Side |-> slot'[r][Oldest]]
    <3>1. line = [r \in Side |-> slot[r][Oldest]]
      BY <2>1 DEF IInv, LineIsOldest
    <3>2. \A r \in Side : slot[r][Oldest] # Free
      BY <2>1, SideFacts
    <3> QED BY <1>4, <3>1, <3>2, SideFacts
  <2>2. ASSUME Acked, NEW r \in Side PROVE slot'[r][sended_tag] # Free
    <3>1. slot[r][sended_tag] # Free /\ sended_tag \in Tag
      BY <2>2 DEF IInv, TypeOK, LineIsOldest
    <3> QED BY <1>4, <3>1
  <2> QED BY <1>6, <2>1, <2>2 DEF IInv, LineIsOldest
<1>14. ASSUME firstlsu, Empty(s), NEW t \in Tag \ {0} PROVE slot'[s][t] = Free
  <2>1. Oldest = 0 /\ RingOf(s).slot[RingOf(s).head] = Free
    BY <1>8, <1>14, TagFacts DEF Oldest, Empty
  <2>2. tag = 0
    BY <1>8, <2>1, RShape
  <2>3. slot[s][t] = Free
    BY <1>14 DEF Empty
  <2> QED BY <1>2, <1>3, <2>2, <2>3
<1> QED BY <1>3, <1>5, <1>10, <1>11, <1>12, <1>13, <1>14 DEF AtMostOne

(* The address side stores.                                                 *)
LEMMA SeaUpdateIInv ==
  ASSUME IInv, GoodStart, SeaUpdate
  PROVE  IInv'
<1>1. /\ pc = "idle" /\ pc' = "simStep2" /\ SimStep1("addr") /\ (~taken => line = Free)
      /\ "addr" \in Side /\ "data" \in Side /\ "data" # "addr"
      /\ UNCHANGED <<nextlsu_bp, firstlsu, sended_tag, first_seektag, line, taken, sent>>
  BY DEF SeaUpdate, Side
<1>2. /\ TypeOK' /\ SlotsConsistent' /\ SentIsHeld' /\ CreditKept' /\ LineIsOldest'
      /\ slot'["data"] = slot["data"]
      /\ firstlsu /\ Empty("addr") => AtMostOne("addr")'
  BY <1>1, Stores
<1>3. AckedOnce'
  BY <1>1 DEF IInv, AckedOnce, Acked
<1>4. BeforeFirst'
  BY <1>1, <1>2 DEF IInv, BeforeFirst, AtMostOne
<1> QED BY <1>2, <1>3, <1>4 DEF IInv

(* The data side stores.                                                    *)
LEMMA SedSimStep1IInv ==
  ASSUME IInv, SedSimStep1
  PROVE  IInv'
<1>1. /\ pc = "simStep1" /\ pc' = "idle" /\ SimStep1("data")
      /\ "addr" \in Side /\ "data" \in Side /\ "data" # "addr"
      /\ UNCHANGED <<nextlsu_bp, firstlsu, sended_tag, first_seektag, line, taken, sent>>
  BY DEF SedSimStep1, Side
<1>2. /\ TypeOK' /\ SlotsConsistent' /\ SentIsHeld' /\ CreditKept' /\ LineIsOldest'
      /\ slot'["addr"] = slot["addr"]
      /\ firstlsu /\ Empty("data") => AtMostOne("data")'
  BY <1>1, Stores
<1>3. AckedOnce'
  BY <1>1 DEF IInv, AckedOnce, Acked
<1>4. BeforeFirst'
  BY <1>1, <1>2 DEF IInv, BeforeFirst, Empty
<1> QED BY <1>2, <1>3, <1>4 DEF IInv

-----------------------------------------------------------------------------
(* What the data side works on in sedSimStep2, after an acknowledgement has *)
(* been used up: the slots, the tag the search starts from, and the rings.  *)
KeptSlots == IF Acked THEN Clear(slot, sended_tag) ELSE slot
Seek      == IF Acked THEN NextSeek(sended_tag) ELSE first_seektag
Start     == IF firstlsu THEN 0 ELSE Seek
Kept(s)   == IF Acked THEN R!Reset(RingOf(s)) ELSE RingOf(s)
Found     == Both(KeptSlots) # {}
Drops     == Found /\ \E s \in Side : KeptSlots[s][Start] \in Pass
Puts      == Found /\ ~Drops

(* Clearing the acknowledged pair leaves a ring that holds what has been    *)
(* received and not used.                                                   *)
LEMMA KeptIs ==
  ASSUME IInv, pc = "simStep2", NEW s \in Side
  PROVE  /\ R!RingOK(Kept(s)) /\ Kept(s).slot = KeptSlots[s]
         /\ Kept(s).head = Start /\ Kept(s).tail = tag_counter[s]
         /\ Start \in Tag /\ Held(s) = R!Content(Kept(s))
         /\ \A t \in Tag : slot[s][t] = Free => KeptSlots[s][t] = Free
<1>1. /\ R!RingOK(RingOf(s)) /\ RingOf(s).slot = slot[s]
      /\ RingOf(s).head = Oldest /\ RingOf(s).tail = tag_counter[s] /\ Oldest \in Tag
      /\ slot[s] \in [Tag -> Token \cup {Free}]
  BY SideFacts
<1>2. CASE Acked
  <2>1. line = Free /\ ~firstlsu /\ Oldest = sended_tag /\ slot[s][sended_tag] # Free
    BY <1>2 DEF IInv, AckedOnce, LineIsOldest, Acked, Oldest
  <2>2. Done
    BY <1>2, <2>1 DEF Done
  <2>3. KeptSlots[s] = [slot[s] EXCEPT ![Oldest] = Free]
    BY <1>2, <2>1 DEF KeptSlots, Clear
  <2>4. Start = NextTag(Oldest) /\ Start \in Tag
    BY <1>1, <1>2, <2>1, TagFacts DEF Start, Seek
  <2>5. Kept(s) = R!Reset(RingOf(s))
    BY <1>2 DEF Kept
  <2>6. /\ Kept(s).slot = [RingOf(s).slot EXCEPT ![RingOf(s).head] = Free]
        /\ Kept(s).head = NextTag(RingOf(s).head) /\ Kept(s).tail = RingOf(s).tail
    <3>1. RingOf(s).slot[RingOf(s).head] # Free
      BY <1>1, <2>1
    <3>2. /\ R!Reset(RingOf(s)).slot = [RingOf(s).slot EXCEPT ![RingOf(s).head] = Free]
          /\ R!Reset(RingOf(s)).head = NextTag(RingOf(s).head)
          /\ R!Reset(RingOf(s)).tail = RingOf(s).tail
      BY <1>1, <3>1, RShape
    <3> QED BY <2>5, <3>2
  <2>7. R!Content(RingOf(s)) # << >>
    BY <2>2, SideFacts
  <2>8. R!RingOK(Kept(s)) /\ R!Content(Kept(s)) = Tail(R!Content(RingOf(s)))
    BY <1>1, <2>5, <2>7, RFacts
  <2>9. Held(s) = R!Content(Kept(s))
    BY <2>2, <2>8 DEF Held
  <2>10. \A t \in Tag : slot[s][t] = Free => KeptSlots[s][t] = Free
    BY <1>1, <2>3
  <2> QED BY <1>1, <2>3, <2>4, <2>6, <2>8, <2>9, <2>10
<1>3. CASE ~Acked
  <2>1. KeptSlots = slot /\ Start = Oldest /\ Kept(s) = RingOf(s) /\ Held(s) = R!Content(Kept(s))
    BY <1>3 DEF KeptSlots, Start, Seek, Oldest, Kept, Held, Done
  <2> QED BY <1>1, <2>1
<1> QED BY <1>2, <1>3

(* A pair is found exactly when both sides hold their oldest token, and it  *)
(* is those two.                                                            *)
LEMMA FoundIs ==
  ASSUME IInv, pc = "simStep2"
  PROVE  /\ Found => FirstMatch(KeptSlots, Seek) = Start
         /\ Found <=> \A s \in Side : KeptSlots[s][Start] # Free
<1>1. Start \in Tag /\ Seek \in Tag
  <2>1. "addr" \in Side /\ sended_tag \in Tag /\ first_seektag \in Tag
    BY DEF Side, IInv, TypeOK
  <2> QED BY <2>1, KeptIs, TagFacts DEF Seek
<1>2. ASSUME NEW t \in Both(KeptSlots) PROVE Start \in Both(KeptSlots)
  <2> SUFFICES ASSUME NEW s \in Side PROVE KeptSlots[s][Start] # Free
    BY <1>1 DEF Both
  <2>1. t \in Tag /\ KeptSlots[s][t] # Free
    BY DEF Both
  <2>2. R!RingOK(Kept(s)) /\ Kept(s).slot = KeptSlots[s] /\ Kept(s).head = Start
    BY KeptIs
  <2>3. Kept(s).slot[Kept(s).head] = Free => \A u \in Tag : Kept(s).slot[u] = Free
    BY <2>2, RShape
  <2> QED BY <2>1, <2>2, <2>3
<1>3. Found <=> Start \in Both(KeptSlots)
  BY <1>2 DEF Found
<1>4. ASSUME Found PROVE Start = Seek \/ Both(KeptSlots) = {Start}
  <2>1. CASE ~firstlsu
    BY <2>1 DEF Start
  <2>2. CASE firstlsu
    <3>1. KeptSlots = slot /\ Start = 0
      BY <2>2 DEF KeptSlots, Acked, Start
    <3>2. AtMostOne("addr") \/ AtMostOne("data")
      BY <2>2 DEF IInv, BeforeFirst
    <3>3. \A t \in Both(slot) : t = 0
      BY <3>2 DEF Both, AtMostOne, Side
    <3> QED BY <1>3, <1>4, <3>1, <3>3
  <2> QED BY <2>1, <2>2
<1>5. Found => FirstMatch(KeptSlots, Seek) = Start
  BY <1>1, <1>3, <1>4, FirstMatchIs
<1>6. Found <=> \A s \in Side : KeptSlots[s][Start] # Free
  BY <1>1, <1>3 DEF Both
<1> QED BY <1>5, <1>6

(* What is found has been received before everything else that is held.     *)
LEMMA FoundIsFirst ==
  ASSUME IInv, pc = "simStep2", NEW s \in Side
  PROVE  /\ R!Content(Kept(s)) \in Seq(Token)
         /\ sent[s] = IF input_port[s] = Free THEN R!Content(Kept(s))
                                              ELSE Append(R!Content(Kept(s)), input_port[s])
         /\ Found => /\ sent[s] # << >> /\ Head(sent[s]) = KeptSlots[s][Start]
                     /\ KeptSlots[s][Start] \in Token /\ R!Content(Kept(s)) # << >>
<1> DEFINE c == R!Content(Kept(s))
<1>1. c \in Seq(Token)
  BY KeptIs, RFacts
<1>2. sent[s] = IF input_port[s] = Free THEN c ELSE Append(c, input_port[s])
  BY KeptIs, SideFacts
<1>3. ASSUME Found PROVE c # << >> /\ Head(c) = KeptSlots[s][Start]
  <2>1. R!RingOK(Kept(s)) /\ Kept(s).slot[Kept(s).head] # Free /\ Kept(s).slot[Kept(s).head] = KeptSlots[s][Start]
    BY <1>3, KeptIs, FoundIs
  <2> QED BY <2>1, RShape
<1> HIDE DEF c
<1>4. input_port[s] # Free => input_port[s] \in Token
  BY DEF IInv, TypeOK
<1>5. c # << >> => /\ sent[s] # << >> /\ Head(sent[s]) = Head(c) /\ Head(c) \in Token
  BY <1>1, <1>2, <1>4, HeadTailProperties, HeadTailAppend, AppendProperties
<1> QED BY <1>1, <1>2, <1>3, <1>5 DEF c

(* The first pair is put on the line, and so is a pair that is on it.       *)
LEMMA PutsIs ==
  ASSUME IInv, pc = "simStep2"
  PROVE  /\ Found /\ firstlsu => Puts
         /\ line # Free => Puts /\ line = [s \in Side |-> KeptSlots[s][Start]] /\ sended_tag = Start
         /\ Puts => [s \in Side |-> KeptSlots[s][Start]] \in Store
<1>1. ASSUME Found, firstlsu PROVE Puts
  <2>1. \A s \in Side : KeptSlots[s][Start] \in Data
    BY <1>1, FoundIsFirst DEF IInv, BeforeFirst
  <2> QED BY <1>1, <2>1, StoreAssumption DEF Puts, Drops
<1>2. ASSUME line # Free
      PROVE  Puts /\ line = [s \in Side |-> KeptSlots[s][Start]] /\ sended_tag = Start
  <2>1. ~firstlsu /\ ~Acked /\ sended_tag = Oldest /\ line = [s \in Side |-> slot[s][Oldest]]
    BY <1>2 DEF IInv, AckedOnce, LineIsOldest
  <2>2. KeptSlots = slot /\ Start = Oldest
    BY <2>1 DEF KeptSlots, Start, Seek, Oldest
  <2>3. \A s \in Side : line[s] \in Data
    BY <1>2, SideFacts
  <2>4. \A s \in Side : KeptSlots[s][Start] \in Data
    BY <2>1, <2>2, <2>3
  <2>5. Found
    BY <2>4, FoundIs, StoreAssumption
  <2> QED BY <2>1, <2>2, <2>4, <2>5, StoreAssumption DEF Puts, Drops
<1>3. ASSUME Puts PROVE [s \in Side |-> KeptSlots[s][Start]] \in Store
  <2>1. \A s \in Side : KeptSlots[s][Start] \in Data
    BY <1>3, FoundIsFirst DEF Puts, Drops, Token
  <2> QED BY <2>1, StoreIs
<1> QED BY <1>1, <1>2, <1>3

(* sedSimStep2 in the terms above.                                          *)
LEMMA SedSimStep2Is ==
  ASSUME IInv, SedSimStep2
  PROVE  /\ pc = "simStep2" /\ pc' = "simStep1" /\ nextlsu_bp' = BpAfter
         /\ firstlsu' = (firstlsu /\ ~Found)
         /\ slot' = IF Drops THEN Clear(KeptSlots, Start) ELSE KeptSlots
         /\ first_seektag' = IF Drops THEN NextSeek(Start) ELSE Seek
         /\ line' = IF Puts THEN [s \in Side |-> KeptSlots[s][Start]] ELSE line
         /\ sended_tag' = IF Puts THEN Start ELSE sended_tag
         /\ sent' = IF Drops THEN [s \in Side |-> Tail(sent[s])] ELSE sent
         /\ UNCHANGED <<input_port, this_bp, tag_counter, taken>>
<1> DEFINE tag  == FirstMatch(KeptSlots, Seek)
           pass == Found /\ \E s \in Side : KeptSlots[s][tag] \in Pass
<1>1. /\ pc = "simStep2" /\ pc' = "simStep1" /\ nextlsu_bp' = BpAfter
      /\ firstlsu' = (firstlsu /\ ~Found)
      /\ slot' = IF pass THEN Clear(KeptSlots, tag) ELSE KeptSlots
      /\ first_seektag' = IF pass THEN NextSeek(tag) ELSE Seek
      /\ line' = IF Found /\ ~pass THEN [s \in Side |-> KeptSlots[s][tag]] ELSE line
      /\ sended_tag' = IF Found /\ ~pass THEN tag ELSE sended_tag
      /\ sent' = IF pass THEN [s \in Side |-> Tail(sent[s])] ELSE sent
      /\ UNCHANGED <<input_port, this_bp, tag_counter, taken>>
  BY DEF SedSimStep2, KeptSlots, Seek, Found
<1>2. Found => tag = Start
  BY <1>1, FoundIs
<1>3. pass <=> Drops
  BY <1>2 DEF Drops
<1>4. Found /\ ~pass <=> Puts
  BY <1>3 DEF Puts
<1>5. (Drops => tag = Start) /\ (Puts => tag = Start)
  BY <1>2 DEF Drops, Puts
<1> HIDE DEF tag, pass
<1> QED BY <1>1, <1>3, <1>4, <1>5

(* Where the oldest token is afterwards, and that nothing is left to be     *)
(* cleared.                                                                 *)
LEMMA OldestAfter ==
  ASSUME IInv, SedSimStep2
  PROVE  /\ Oldest' = IF Drops THEN NextTag(Start) ELSE Start
         /\ Acked' => firstlsu /\ Puts
         /\ ~Done'
<1>1. /\ pc = "simStep2" /\ nextlsu_bp' = BpAfter /\ firstlsu' = (firstlsu /\ ~Found)
      /\ first_seektag' = IF Drops THEN NextSeek(Start) ELSE Seek
      /\ line' = IF Puts THEN [s \in Side |-> KeptSlots[s][Start]] ELSE line
      /\ sended_tag' = IF Puts THEN Start ELSE sended_tag
  BY SedSimStep2Is
<1>2. /\ (Found /\ firstlsu => Puts) /\ (firstlsu => nextlsu_bp)
      /\ (Puts => [s \in Side |-> KeptSlots[s][Start]] \in Store)
      /\ (Puts => Found /\ ~Drops) /\ (Drops => Found) /\ (Found => Puts \/ Drops)
  BY <1>1, PutsIs DEF IInv, AckedOnce, Puts, Drops
<1>3. Acked' <=> firstlsu /\ Found
  BY <1>1, <1>2 DEF Acked, BpAfter, IInv, TypeOK
<1>4. ~Done'
  BY <1>1, <1>2, <1>3, FreeIsNoStore DEF Done
<1>5. Start \in Tag
  BY <1>1, KeptIs DEF Side
<1>6. Oldest' = IF Drops THEN NextTag(Start) ELSE Start
  <2>1. Oldest' = IF firstlsu' THEN 0 ELSE IF Acked' THEN sended_tag' ELSE first_seektag'
    BY DEF Oldest
  <2>2. CASE firstlsu
    BY <1>1, <1>2, <1>3, <2>1, <2>2 DEF Start
  <2>3. CASE ~firstlsu
    <3>1. Oldest' = first_seektag' /\ Start = Seek
      BY <1>1, <1>3, <2>1, <2>3 DEF Start
    <3> QED BY <1>1, <1>5, <3>1, TagFacts
  <2> QED BY <2>2, <2>3
<1> QED BY <1>2, <1>3, <1>4, <1>6

(* A side's ring afterwards: what was kept, without the pair that was       *)
(* dropped.                                                                 *)
LEMMA RingAfter ==
  ASSUME IInv, SedSimStep2, NEW s \in Side
  PROVE  /\ R!RingOK(RingOf(s)')
         /\ Held(s)' = IF Drops THEN Tail(R!Content(Kept(s))) ELSE R!Content(Kept(s))
         /\ slot'[s] \in [Tag -> Token \cup {Free}]
         /\ \A t \in Tag : slot[s][t] = Free => slot'[s][t] = Free
         /\ ~Drops => slot'[s] = KeptSlots[s]
<1> DEFINE r == IF Drops THEN R!Reset(Kept(s)) ELSE Kept(s)
<1>1. /\ R!RingOK(Kept(s)) /\ Kept(s).slot = KeptSlots[s]
      /\ Kept(s).head = Start /\ Kept(s).tail = tag_counter[s] /\ Start \in Tag
      /\ \A t \in Tag : slot[s][t] = Free => KeptSlots[s][t] = Free
  BY KeptIs, SedSimStep2Is
<1>2. /\ tag_counter' = tag_counter
      /\ slot' = IF Drops THEN Clear(KeptSlots, Start) ELSE KeptSlots
      /\ Oldest' = IF Drops THEN NextTag(Start) ELSE Start
  BY SedSimStep2Is, OldestAfter
<1>3. slot'[s] = IF Drops THEN [KeptSlots[s] EXCEPT ![Start] = Free] ELSE KeptSlots[s]
  BY <1>2 DEF Clear
<1>4. Drops => KeptSlots[s][Start] # Free /\ R!Content(Kept(s)) # << >>
  BY SedSimStep2Is, FoundIs, FoundIsFirst DEF Drops
<1>5. Drops => /\ R!Reset(Kept(s)).slot = [Kept(s).slot EXCEPT ![Kept(s).head] = Free]
               /\ R!Reset(Kept(s)).head = NextTag(Kept(s).head)
               /\ R!Reset(Kept(s)).tail = Kept(s).tail
  <2>1. Drops => Kept(s).slot[Kept(s).head] # Free
    BY <1>1, <1>4
  <2> QED BY <1>1, <2>1, RShape
<1>6. R!RingOK(r) /\ r.slot = slot'[s] /\ r.head = Oldest' /\ r.tail = tag_counter'[s]
  <2>1. CASE Drops
    <3>1. R!RingOK(R!Reset(Kept(s)))
      BY <1>1, RFacts
    <3> QED BY <1>1, <1>2, <1>3, <1>5, <2>1, <3>1
  <2>2. CASE ~Drops
    BY <1>1, <1>2, <1>3, <2>2
  <2> QED BY <2>1, <2>2
<1> HIDE DEF r
<1>7. RingOf(s)' = r
  BY <1>6, RingOfIs
<1>8. Held(s)' = R!Content(r)
  BY <1>7, OldestAfter DEF Held
<1>9. R!Content(r) = IF Drops THEN Tail(R!Content(Kept(s))) ELSE R!Content(Kept(s))
  BY <1>1, <1>4, RFacts DEF r
<1>10. slot'[s] \in [Tag -> Token \cup {Free}]
  BY <1>6, RShape
<1>11. ASSUME NEW t \in Tag, slot[s][t] = Free PROVE slot'[s][t] = Free
  <2>1. KeptSlots[s][t] = Free /\ KeptSlots[s] \in [Tag -> Token \cup {Free}]
    BY <1>1, <1>11, RShape
  <2> QED BY <1>3, <2>1
<1> QED BY <1>3, <1>6, <1>7, <1>8, <1>9, <1>10, <1>11

(* The pair that is found is put on the line, or dropped when it is no      *)
(* store.                                                                   *)
LEMMA SedSimStep2IInv ==
  ASSUME IInv, SedSimStep2
  PROVE  IInv'
<1>1. /\ pc = "simStep2" /\ pc' = "simStep1" /\ nextlsu_bp' = BpAfter
      /\ firstlsu' = (firstlsu /\ ~Found)
      /\ slot' = IF Drops THEN Clear(KeptSlots, Start) ELSE KeptSlots
      /\ first_seektag' = IF Drops THEN NextSeek(Start) ELSE Seek
      /\ line' = IF Puts THEN [s \in Side |-> KeptSlots[s][Start]] ELSE line
      /\ sended_tag' = IF Puts THEN Start ELSE sended_tag
      /\ sent' = IF Drops THEN [s \in Side |-> Tail(sent[s])] ELSE sent
      /\ UNCHANGED <<input_port, this_bp, tag_counter, taken>>
  BY SedSimStep2Is
<1>2. /\ Oldest' = IF Drops THEN NextTag(Start) ELSE Start
      /\ Acked' => firstlsu /\ Puts
      /\ ~Done'
  BY OldestAfter
<1>3. /\ Found /\ firstlsu => Puts
      /\ line # Free => Puts
      /\ Puts => [s \in Side |-> KeptSlots[s][Start]] \in Store
      /\ Puts <=> Found /\ ~Drops
      /\ Drops => Found
  BY <1>1, PutsIs DEF Puts, Drops
<1>4. Start \in Tag /\ NextTag(Start) \in Tag /\ Seek \in Tag /\ NextSeek(Start) \in Tag
  BY <1>1, KeptIs, TagFacts DEF Side, IInv, TypeOK, Seek
<1>5. TypeOK'
  <2>1. slot' \in [Side -> [Tag -> Token \cup {Free}]]
    <3>1. slot' = [s \in Side |-> slot'[s]]
      BY <1>1 DEF Clear, KeptSlots, IInv, TypeOK
    <3> QED BY <3>1, RingAfter
  <2>2. sent' \in [Side -> Seq(Token)]
    <3>1. Drops => \A s \in Side : sent[s] # << >> /\ sent[s] \in Seq(Token)
      BY <1>1, <1>3, FoundIsFirst DEF IInv, TypeOK
    <3>2. Drops => \A s \in Side : Tail(sent[s]) \in Seq(Token)
      BY <3>1, HeadTailProperties
    <3> QED BY <1>1, <3>2 DEF IInv, TypeOK
  <2>3. nextlsu_bp' \in BOOLEAN /\ firstlsu' \in BOOLEAN
    BY <1>1 DEF BpAfter
  <2>4. line' \in Store \cup {Free} /\ sended_tag' \in Tag /\ first_seektag' \in Tag
    BY <1>1, <1>3, <1>4 DEF IInv, TypeOK
  <2> QED BY <1>1, <2>1, <2>2, <2>3, <2>4 DEF IInv, TypeOK
<1>6. SlotsConsistent'
  BY RingAfter DEF SlotsConsistent
<1>7. SentIsHeld'
  <2> SUFFICES ASSUME NEW s \in Side
               PROVE  sent'[s] = IF input_port[s] = Free THEN Held(s)' ELSE Append(Held(s)', input_port[s])
    BY <1>1 DEF SentIsHeld
  <2> DEFINE c == R!Content(Kept(s))
  <2>1. /\ c \in Seq(Token) /\ (Drops => c # << >>)
        /\ sent[s] = IF input_port[s] = Free THEN c ELSE Append(c, input_port[s])
    BY <1>1, <1>3, FoundIsFirst
  <2>2. Held(s)' = IF Drops THEN Tail(c) ELSE c
    BY RingAfter
  <2>3. sent'[s] = IF Drops THEN Tail(sent[s]) ELSE sent[s]
    BY <1>1
  <2>4. input_port[s] # Free => input_port[s] \in Token
    BY DEF IInv, TypeOK
  <2> HIDE DEF c
  <2>5. Drops /\ input_port[s] # Free =>
          Tail(Append(c, input_port[s])) = Append(Tail(c), input_port[s])
    BY <2>1, <2>4, HeadTailAppend
  <2> QED BY <2>1, <2>2, <2>3, <2>5
<1>8. CreditKept'
  <2> SUFFICES ASSUME NEW s \in Side, this_bp[s] \/ input_port[s] # Free
               PROVE  slot'[s][tag_counter[s]] = Free
    BY <1>1 DEF CreditKept
  <2>1. slot[s][tag_counter[s]] = Free /\ tag_counter[s] \in Tag
    BY DEF IInv, CreditKept, TypeOK
  <2> QED BY <2>1, RingAfter
<1>9. LineIsOldest'
  <2>1. ASSUME Puts
        PROVE  /\ sended_tag' = Oldest' /\ line' = [s \in Side |-> slot'[s][Oldest']]
               /\ \A s \in Side : slot'[s][sended_tag'] # Free
    <3>1. ~Drops /\ slot' = KeptSlots /\ sended_tag' = Start /\ Oldest' = Start
      BY <1>1, <1>2, <1>3, <2>1
    <3>2. line' = [s \in Side |-> KeptSlots[s][Start]]
      BY <1>1, <2>1
    <3>3. \A s \in Side : KeptSlots[s][Start] # Free
      BY <1>1, <1>3, <2>1, FoundIs
    <3> QED BY <3>1, <3>2, <3>3
  <2>2. line' # Free => Puts
    BY <1>1, <1>3
  <2> QED BY <1>2, <2>1, <2>2 DEF LineIsOldest
<1>10. AckedOnce'
  <2>1. (line # Free => ~firstlsu) /\ (~firstlsu /\ ~taken => line # Free)
        /\ (firstlsu => nextlsu_bp /\ ~taken)
    BY DEF IInv, AckedOnce
  <2>2. Puts => line' # Free
    BY <1>1, <1>3, FreeIsNoStore
  <2>3. line' # Free => ~firstlsu' /\ (Acked' => ~taken')
    BY <1>1, <1>2, <1>3, <2>1
  <2>4. ~firstlsu' /\ ~taken' => line' # Free
    BY <1>1, <1>3, <2>1, <2>2
  <2>5. firstlsu' => nextlsu_bp' /\ ~taken'
    BY <1>1, <2>1 DEF BpAfter, Acked
  <2> QED BY <1>1, <2>3, <2>4, <2>5 DEF AckedOnce
<1>11. BeforeFirst'
  <2> SUFFICES ASSUME firstlsu, ~Found
               PROVE  /\ \A s \in Side : sent'[s] # << >> => Head(sent'[s]) \in Data
                      /\ Empty("addr")' \/ Empty("data")'
    BY <1>1 DEF BeforeFirst
  <2>1. ~Drops /\ sent' = sent
    BY <1>1, <1>3
  <2>2. PICK s \in Side : KeptSlots[s][Start] = Free
    BY <1>1, FoundIs
  <2>3. \A t \in Tag : KeptSlots[s][t] = Free
    <3>1. /\ R!RingOK(Kept(s)) /\ Kept(s).slot = KeptSlots[s]
          /\ Kept(s).slot[Kept(s).head] = Free
      BY <1>1, <2>2, KeptIs
    <3>2. \A t \in Tag : Kept(s).slot[t] = Free
      BY <3>1, RShape
    <3> QED BY <3>1, <3>2
  <2>4. Empty(s)'
    BY <2>1, <2>3, RingAfter DEF Empty
  <2>5. Empty("addr")' \/ Empty("data")'
    BY <2>4 DEF Side
  <2> QED BY <2>1, <2>5 DEF IInv, BeforeFirst
<1> QED BY <1>5, <1>6, <1>7, <1>8, <1>9, <1>10, <1>11 DEF IInv

-----------------------------------------------------------------------------
(* Every step of the pair, and a stutter, keeps the invariant.              *)
LEMMA NextIInv ==
  ASSUME GoodStart, IInv, [Next]_vars
  PROVE  IInv'
<1>1. ASSUME NEW s \in Side, NEW tok \in Token, Arrive(s, tok) PROVE IInv'
  BY <1>1, ArriveIInv
<1>2. CASE Accept
  BY <1>2, AcceptIInv
<1>3. CASE SeaUpdate
  BY <1>3, SeaUpdateIInv
<1>4. CASE SedSimStep2
  BY <1>4, SedSimStep2IInv
<1>5. CASE SedSimStep1
  BY <1>5, SedSimStep1IInv
<1>6. CASE UNCHANGED vars
  <2>1. UNCHANGED <<pc, input_port, this_bp, slot, tag_counter, nextlsu_bp, firstlsu,
                    sended_tag, first_seektag, line, taken, sent>>
    BY <1>6 DEF vars
  <2>2. /\ Oldest' = Oldest /\ Acked' = Acked /\ Done' = Done
        /\ \A s : /\ RingOf(s)' = RingOf(s) /\ Held(s)' = Held(s)
                  /\ Empty(s)' = Empty(s) /\ AtMostOne(s)' = AtMostOne(s)
    BY <2>1 DEF Oldest, Acked, Done, RingOf, Held, Empty, AtMostOne
  <2>3. TypeOK'
    BY <2>1 DEF IInv, TypeOK
  <2>4. SlotsConsistent' /\ SentIsHeld' /\ CreditKept'
    BY <2>1, <2>2 DEF IInv, SlotsConsistent, SentIsHeld, CreditKept
  <2>5. LineIsOldest' /\ AckedOnce' /\ BeforeFirst'
    BY <2>1, <2>2 DEF IInv, LineIsOldest, AckedOnce, BeforeFirst
  <2> QED BY <2>3, <2>4, <2>5 DEF IInv
<1> QED BY <1>1, <1>2, <1>3, <1>4, <1>5, <1>6 DEF Next

(* The inductive invariant, for every number of slots: with a good start,   *)
(* what the two sides hold stays aligned at a common oldest tag.            *)
THEOREM Invariance ==
  ASSUME GoodStart
  PROVE  Spec => []IInv
<1>1. Init => IInv
  BY InitIInv
<1>2. IInv /\ [Next]_vars => IInv'
  BY NextIInv
<1> QED BY <1>1, <1>2, PTL DEF Spec

(* The variables keep their types.                                          *)
THEOREM TypeCorrect ==
  ASSUME GoodStart
  PROVE  Spec => []TypeOK
<1>1. IInv => TypeOK
  BY DEF IInv
<1> QED BY <1>1, Invariance, PTL

(* An occupied slot counts once; the pair that has been taken is            *)
(* the one slot too many.                                                   *)
LEMMA HeldCount ==
  ASSUME IInv, NEW s \in Side
  PROVE  Len(sent[s]) = Cardinality({t \in Tag : slot[s][t] # Free})
                        + (IF input_port[s] = Free THEN 0 ELSE 1)
                        - (IF Acked /\ line = Free /\ slot[s][sended_tag] # Free THEN 1 ELSE 0)
<1> DEFINE c == R!Content(RingOf(s))
<1>1. /\ c \in Seq(Token) /\ Held(s) \in Seq(Token) /\ (Done => c # << >>)
      /\ sent[s] = IF input_port[s] = Free THEN Held(s) ELSE Append(Held(s), input_port[s])
      /\ input_port[s] \in Token \cup {Free}
  BY SideFacts
<1>2. Held(s) = IF Done THEN Tail(c) ELSE c
  BY DEF Held
<1>3. Cardinality({t \in Tag : slot[s][t] # Free}) = Len(c)
  <2>1. R!RingOK(RingOf(s)) /\ RingOf(s).slot = slot[s]
    BY SideFacts
  <2>2. Cardinality({t \in Tag : RingOf(s).slot[t] # Free}) = Len(c)
    BY <2>1, RShape
  <2> QED BY <2>1, <2>2
<1>4. (Acked /\ line = Free /\ slot[s][sended_tag] # Free) <=> Done
  BY DEF Done, IInv, LineIsOldest
<1> HIDE DEF c
<1>5. Len(c) \in Nat /\ Len(Held(s)) = Len(c) - (IF Done THEN 1 ELSE 0)
  <2>1. c # << >> => Len(Tail(c)) = Len(c) - 1
    BY <1>1, HeadTailProperties
  <2>2. Len(c) \in Nat
    BY <1>1, LenProperties
  <2> QED BY <1>1, <1>2, <2>1, <2>2
<1>6. Len(sent[s]) = Len(Held(s)) + (IF input_port[s] = Free THEN 0 ELSE 1)
  <2>1. Len(Held(s)) \in Nat
    BY <1>1, LenProperties
  <2>2. input_port[s] # Free => Len(Append(Held(s), input_port[s])) = Len(Held(s)) + 1
    BY <1>1, AppendProperties
  <2> QED BY <1>1, <2>1, <2>2
<1> DEFINE done == IF Done THEN 1 ELSE 0
           wire == IF input_port[s] = Free THEN 0 ELSE 1
<1>7. done \in Int /\ wire \in Int
  OBVIOUS
<1>8. done = IF Acked /\ line = Free /\ slot[s][sended_tag] # Free THEN 1 ELSE 0
  BY <1>4
<1>9. Len(sent[s]) = Len(c) - done + wire
  BY <1>5, <1>6
<1> HIDE DEF done, wire
<1>10. Len(sent[s]) = Len(c) + wire - done
  <2>1. \A n, m, k \in Int : n + k - m = n - m + k
    OBVIOUS
  <2> QED BY <1>5, <1>7, <1>9, <2>1
<1>11. Len(sent[s]) = Cardinality({t \in Tag : slot[s][t] # Free}) + wire - done
  BY <1>3, <1>10
<1> QED BY <1>8, <1>11 DEF wire

(* Between two cycles the tokens in the slots and on the wires are those    *)
(* received and not used, however deep the outbuffers are.                  *)
THEOREM NothingIsLost ==
  ASSUME GoodStart
  PROVE  Spec => []NothingLost
<1>1. IInv => NothingLost
  BY HeldCount DEF NothingLost
<1> QED BY <1>1, Invariance, PTL

(* A store stays on the line, unchanged, until the LSU has taken it.        *)
THEOREM StoreIsKept ==
  ASSUME GoodStart
  PROVE  Spec => StoreKept
<1>1. ASSUME IInv, [Next]_vars, line # Free PROVE line' \in {line, Free}
  <2>1. CASE SedSimStep2
    <3>1. line' = IF Puts THEN [s \in Side |-> KeptSlots[s][Start]] ELSE line
      BY <1>1, <2>1, SedSimStep2Is
    <3>2. Puts /\ line = [s \in Side |-> KeptSlots[s][Start]]
      BY <1>1, <2>1, SedSimStep2Is, PutsIs
    <3> QED BY <3>1, <3>2
  <2>2. CASE Accept
    BY <2>2 DEF Accept
  <2>3. CASE \E s \in Side, tok \in Token : Arrive(s, tok)
    BY <2>3 DEF Arrive
  <2>4. CASE SeaUpdate \/ SedSimStep1
    BY <2>4 DEF SeaUpdate, SedSimStep1
  <2>5. CASE UNCHANGED vars
    BY <2>5 DEF vars
  <2> QED BY <1>1, <2>1, <2>2, <2>3, <2>4, <2>5 DEF Next
<1>2. IInv /\ [Next]_vars => [line # Free => line' \in {line, Free}]_vars
  BY <1>1
<1> QED BY <1>2, Invariance, PTL DEF Spec, StoreKept

(* Addresses and data are paired as they were sent: what the LSU takes is   *)
(* the oldest token of each side, and what the pair drops has a hole or an  *)
(* end in it.                                                               *)
THEOREM PairsAreInOrder ==
  ASSUME GoodStart
  PROVE  Spec => PairedInOrder
<1> DEFINE Taken   == pc = "idle" /\ line # Free /\ line' = Free =>
                        \A s \in Side : sent[s] # << >> /\ line[s] = Head(sent[s])
           Dropped == pc = "simStep2" /\ sent' # sent =>
                        \E s \in Side : sent[s] # << >> /\ Head(sent[s]) \in Pass
<1>1. ASSUME IInv PROVE Taken
  <2> SUFFICES ASSUME line # Free, NEW s \in Side
               PROVE  sent[s] # << >> /\ line[s] = Head(sent[s])
    OBVIOUS
  <2> DEFINE c == R!Content(RingOf(s))
  <2>1. /\ c \in Seq(Token) /\ c # << >> /\ line[s] = Head(c) /\ ~Done
        /\ sent[s] = IF input_port[s] = Free THEN Held(s) ELSE Append(Held(s), input_port[s])
        /\ input_port[s] \in Token \cup {Free}
    BY <1>1, SideFacts
  <2>2. Held(s) = c
    BY <2>1 DEF Held
  <2> HIDE DEF c
  <2>3. input_port[s] # Free =>
          Append(c, input_port[s]) # << >> /\ Head(Append(c, input_port[s])) = Head(c)
    BY <2>1, AppendProperties, HeadTailAppend
  <2> QED BY <2>1, <2>2, <2>3
<1>2. ASSUME IInv, [Next]_vars PROVE Dropped
  <2> SUFFICES ASSUME pc = "simStep2", sent' # sent
               PROVE  \E s \in Side : sent[s] # << >> /\ Head(sent[s]) \in Pass
    OBVIOUS
  <2>1. SedSimStep2
    BY <1>2 DEF Next, Arrive, Accept, SeaUpdate, SedSimStep1, vars
  <2>2. Drops
    BY <1>2, <2>1, SedSimStep2Is
  <2>3. PICK s \in Side : KeptSlots[s][Start] \in Pass
    BY <2>2 DEF Drops
  <2>4. sent[s] # << >> /\ Head(sent[s]) = KeptSlots[s][Start]
    BY <1>2, <2>2, FoundIsFirst DEF Drops
  <2> QED BY <2>3, <2>4
<1>3. IInv /\ [Next]_vars => [Taken /\ Dropped]_vars
  BY <1>1, <1>2
<1> QED BY <1>3, Invariance, PTL DEF Spec, PairedInOrder
=============================================================================
