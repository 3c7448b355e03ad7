------------------------- MODULE LoadElement_proofs -------------------------
(***************************************************************************)
(* Proofs about the load element, for every number of lines and depth of   *)
(* its port.                                                               *)
(*                                                                         *)
(* IInv has two layers.  The first matches tags and lines: an accepted     *)
(* request has a line that is free for its answer, no two requests share   *)
(* one, and a line that waits for the memory's credit still has its token. *)
(* The second lays the lines out in a circle from head_ptr: the first k    *)
(* are waiting for their answers or to leave, in the order in which their  *)
(* tokens came, and the rest are free.                                     *)
(***************************************************************************)
EXTENDS LoadElement, SequenceTheorems, TLAPS

RingLemmas == INSTANCE Ring_proofs WITH Depth <- InDepth

(* In and RingLemmas instantiate the same definitions.                      *)
LEMMA SameIn ==
  /\ In!EmptyRing = RingLemmas!EmptyRing /\ In!RingType = RingLemmas!RingType
  /\ \A r : /\ In!RingOK(r) <=> RingLemmas!RingOK(r)
            /\ In!NotFull(r) <=> RingLemmas!NotFull(r)
            /\ In!NotEmpty(r) <=> RingLemmas!NotEmpty(r)
            /\ In!CanReceive(r) <=> RingLemmas!CanReceive(r)
            /\ In!Front(r) = RingLemmas!Front(r)
            /\ In!Content(r) = RingLemmas!Content(r)
            /\ In!Reset(r) = RingLemmas!Reset(r)
            /\ \A tok : In!Input(r, tok) = RingLemmas!Input(r, tok)
<1>1. In!Index = RingLemmas!Index
  BY DEF In!Index,
            RingLemmas!Index
<1>2. In!EmptyRing = RingLemmas!EmptyRing /\ In!RingType = RingLemmas!RingType
  BY <1>1 DEF In!EmptyRing, In!RingType,
            RingLemmas!EmptyRing, RingLemmas!RingType
<1>3. \A i : In!Succ(i) = RingLemmas!Succ(i)
  BY DEF In!Succ,
            RingLemmas!Succ
<1>4. ASSUME NEW r
      PROVE  /\ In!NotFull(r) <=> RingLemmas!NotFull(r)
             /\ In!NotEmpty(r) <=> RingLemmas!NotEmpty(r)
             /\ In!CanReceive(r) <=> RingLemmas!CanReceive(r)
             /\ In!Front(r) = RingLemmas!Front(r)
  BY DEF In!NotFull, In!NotEmpty, In!CanReceive, In!Front,
            RingLemmas!NotFull, RingLemmas!NotEmpty, RingLemmas!CanReceive, RingLemmas!Front
<1>5. ASSUME NEW r PROVE In!RingOK(r) <=> RingLemmas!RingOK(r)
  <2>1. In!FlagsAgree(r) <=> RingLemmas!FlagsAgree(r)
    BY DEF In!FlagsAgree,
            RingLemmas!FlagsAgree
  <2>2. In!ValidBitsAgree(r) <=> RingLemmas!ValidBitsAgree(r)
    BY <1>1 DEF In!ValidBitsAgree, In!Occupied,
            RingLemmas!ValidBitsAgree, RingLemmas!Occupied
  <2> QED BY <1>2, <2>1, <2>2 DEF In!RingOK,
            RingLemmas!RingOK
<1>6. ASSUME NEW r PROVE In!Content(r) = RingLemmas!Content(r)
  <2>1. In!Count(r) = RingLemmas!Count(r)
    BY DEF In!Count,
            RingLemmas!Count
  <2>2. \A k : In!Nth(r, k) = RingLemmas!Nth(r, k)
    BY DEF In!Nth,
            RingLemmas!Nth
  <2> QED BY <2>1, <2>2 DEF In!Content,
            RingLemmas!Content
<1>7. ASSUME NEW r PROVE In!Reset(r) = RingLemmas!Reset(r)
  <2>1. In!Front(r) = RingLemmas!Front(r) /\ In!Succ(r.head) = RingLemmas!Succ(r.head)
    BY <1>3, <1>4
  <2> QED BY <2>1 DEF In!Reset, RingLemmas!Reset
<1>8. ASSUME NEW r, NEW tok PROVE In!Input(r, tok) = RingLemmas!Input(r, tok)
  BY <1>3, <1>4 DEF In!Input, In!Write,
            RingLemmas!Input, RingLemmas!Write
<1> QED BY <1>2, <1>4, <1>5, <1>6, <1>7, <1>8

(* RingFacts, for In.                                                      *)
LEMMA InFacts ==
  /\ In!RingOK(In!EmptyRing) /\ In!NotFull(In!EmptyRing) /\ In!Content(In!EmptyRing) = << >>
  /\ \A r : In!RingOK(r) =>
       /\ r \in In!RingType
       /\ In!Content(r) \in Seq(Token)
       /\ In!NotFull(r) <=> Len(In!Content(r)) < InDepth
       /\ Len(In!Content(r)) <= InDepth
       /\ In!NotEmpty(r) <=> In!Content(r) # << >>
       /\ In!CanReceive(r) <=> In!NotFull(r)
       /\ In!Front(r) = IF In!Content(r) = << >> THEN Free ELSE Head(In!Content(r))
       /\ In!RingOK(In!Reset(r))
       /\ In!Content(In!Reset(r)) = IF In!Content(r) = << >> THEN << >> ELSE Tail(In!Content(r))
       /\ In!NotFull(r) \/ In!NotEmpty(r) => In!NotFull(In!Reset(r))
       /\ \A tok \in Token :
            /\ In!RingOK(In!Input(r, tok))
            /\ In!Content(In!Input(r, tok)) =
                 IF In!NotFull(r) THEN Append(In!Content(r), tok) ELSE In!Content(r)
<1>1. InDepth \in Nat \ {0} /\ Free \notin Token
  BY LoadAssumption DEF Token
<1> QED BY <1>1, RingLemmas!RingFacts, SameIn

(* What the assumptions say of the constants.                               *)
LEMMA ConstantTypes ==
  /\ OutDepth \in Nat \ {0} /\ Free \notin Token /\ Load \cap Pass = {}
  /\ Load \subseteq Token /\ Pass \subseteq Token /\ Token = Load \cup Pass
BY LoadAssumption DEF Token

(* Tags wrap around.                                                        *)
LEMMA NextTagType == \A t \in Tag : NextTag(t) \in Tag
BY LoadAssumption DEF Tag, NextTag

-----------------------------------------------------------------------------
(***************************************************************************)
(* Who owns a tag.  IOwner is the part of the invariant that does not look *)
(* at the order of the tokens.                                             *)
(***************************************************************************)
IOwner ==
  /\ TypeOK /\ In!RingOK(inbuf)
  /\ CreditKept /\ OneOwner /\ AnswerHasRoom /\ TagsDiffer /\ LineOwnsTag /\ Looked

(* No tag is given out and no line is looked up.                            *)
LEMMA InitOwner == Init => IOwner
<1> SUFFICES ASSUME Init PROVE IOwner
  OBVIOUS
<1>1. In!RingOK(inbuf) /\ inbuf \in In!RingType /\ In!NotFull(inbuf) /\ In!Front(inbuf) = Free
  BY InFacts DEF Init
<1>2. 0 \in Tag
  BY ConstantTypes DEF Tag
<1>3. TypeOK
  BY <1>1, <1>2 DEF Init, TypeOK
<1> QED
  BY <1>1, <1>3 DEF Init, IOwner, CreditKept, OneOwner, AnswerHasRoom, TagsDiffer, LineOwnsTag, Looked

(* A token arrives on a port that has room.                                 *)
LEMMA ArriveOwner ==
  ASSUME IOwner, NEW tok \in Token, Arrive(tok)
  PROVE  IOwner'
<1> USE DEF IOwner
<1>1. TypeOK'
  BY AppendProperties DEF Arrive, TypeOK, order
<1> QED
  BY <1>1 DEF Arrive, order, CreditKept, OneOwner, AnswerHasRoom, TagsDiffer, LineOwnsTag, Looked

(* The memory takes a request, and with it its tag.                         *)
LEMMA AcceptOwner == IOwner /\ Accept => IOwner'
<1> SUFFICES ASSUME IOwner, Accept PROVE IOwner'
  OBVIOUS
<1>1. /\ line # Free /\ line \in Request
      /\ accepted' = accepted \cup {line} /\ line' = Free /\ nextlsu_bp' = TRUE
      /\ UNCHANGED <<pc, inbuf, input_port, this_bp, slot, head_ptr, output_port, tag_counter,
                     maintain_order, firstlsu, wait_for_data, pending>>
  BY DEF IOwner, Accept, array, TypeOK
<1>2. TypeOK'
  BY <1>1 DEF IOwner, TypeOK
<1>3. OneOwner'
  BY <1>1 DEF IOwner, OneOwner
<1>4. AnswerHasRoom' /\ TagsDiffer' /\ LineOwnsTag'
  BY <1>1 DEF IOwner, AnswerHasRoom, TagsDiffer, LineOwnsTag
<1>5. CreditKept' /\ Looked' /\ In!RingOK(inbuf)'
  BY <1>1 DEF IOwner, CreditKept, Looked
<1> QED BY <1>2, <1>3, <1>4, <1>5 DEF IOwner

(* An answer finds the line that owns its tag.                              *)
LEMMA AnswerOwner ==
  ASSUME IOwner, NEW req \in accepted, Answer(req)
  PROVE  IOwner'
<1>1. /\ req \in Request /\ req.tag \in Tag /\ req.addr \in Token
      /\ slot[req.tag] = Free
      /\ accepted' = accepted \ {req}
      /\ slot' = [slot EXCEPT ![req.tag] = req.addr]
      /\ UNCHANGED <<pc, inbuf, input_port, this_bp, head_ptr, output_port, order, line, pending>>
  BY ConstantTypes DEF IOwner, Answer, TypeOK, AnswerHasRoom, Request
<1>2. UNCHANGED <<tag_counter, maintain_order, nextlsu_bp, firstlsu, wait_for_data>>
  BY <1>1 DEF order
<1>3. TypeOK'
  BY <1>1, <1>2 DEF IOwner, TypeOK
<1>4. OneOwner'
  BY <1>1, <1>2 DEF IOwner, OneOwner, TypeOK
<1>5. AnswerHasRoom'
  <2> SUFFICES ASSUME NEW r \in accepted' PROVE slot'[r.tag] = Free
    BY DEF AnswerHasRoom
  <2>1. r \in accepted /\ r # req /\ r.tag # req.tag /\ slot[r.tag] = Free /\ r.tag \in Tag
    BY <1>1 DEF IOwner, TagsDiffer, AnswerHasRoom, TypeOK, Request
  <2> QED BY <1>1, <2>1 DEF IOwner, TypeOK
<1>6. TagsDiffer'
  BY <1>1 DEF IOwner, TagsDiffer
<1>7. LineOwnsTag'
  <2> SUFFICES ASSUME line # Free
               PROVE  LineOwnsTag'
    BY <1>1 DEF LineOwnsTag
  <2>1. line.tag # req.tag /\ line.tag \in Tag
    BY ConstantTypes DEF IOwner, LineOwnsTag, TypeOK, Request
  <2> QED BY <1>1, <1>2, <2>1 DEF IOwner, LineOwnsTag, TypeOK
<1>8. CreditKept' /\ Looked' /\ In!RingOK(inbuf)'
  BY <1>1, <1>2 DEF IOwner, CreditKept, Looked
<1> QED BY <1>3, <1>4, <1>5, <1>6, <1>7, <1>8 DEF IOwner
(* What the element works with in leSimStep2.                               *)
Slots(next_bp) == IF Sends(next_bp) THEN [slot EXCEPT ![head_ptr] = Free] ELSE slot
Buffer == IF nextlsu_bp /\ ~wait_for_data THEN In!Reset(inbuf) ELSE inbuf
Tok    == In!Front(Buffer)
Fresh  == nextlsu_bp /\ Tok # Free
Loads(next_bp)  == Tok \in Load /\ Freed(next_bp)[TagOf(Fresh)]
Passes(next_bp) ==
  Tok \in Pass /\ Freed(next_bp)[TagOf(Fresh)] /\ Slots(next_bp)[TagOf(Fresh)] = Free

(* The step in these terms.                                                 *)
LEMMA SimStep2Values ==
  ASSUME NEW next_bp \in BOOLEAN, SimStep2(next_bp)
  PROVE  LET tag == TagOf(Fresh)
         IN  /\ pc = "simStep2" /\ pc' = "simStep1"
             /\ output_port' = IF Sends(next_bp) THEN slot[head_ptr] ELSE Free
             /\ head_ptr' = IF Sends(next_bp) THEN NextTag(head_ptr) ELSE head_ptr
             /\ inbuf' = Buffer
             /\ wait_for_data' = IF nextlsu_bp THEN Tok = Free ELSE wait_for_data
             /\ firstlsu' = (firstlsu /\ ~Fresh)
             /\ tag_counter' = tag
             /\ line' = IF Loads(next_bp) THEN [tag |-> tag, addr |-> Tok] ELSE line
             /\ slot' = IF Passes(next_bp) THEN [Slots(next_bp) EXCEPT ![tag] = Tok]
                                           ELSE Slots(next_bp)
             /\ maintain_order' = IF Loads(next_bp) \/ Passes(next_bp)
                                  THEN [Freed(next_bp) EXCEPT ![tag] = FALSE]
                                  ELSE Freed(next_bp)
             /\ nextlsu_bp' = BpAfter(Tok, Freed(next_bp)[tag], Passes(next_bp))
             /\ pending' = IF Sends(next_bp) /\ pending # << >> THEN Tail(pending) ELSE pending
             /\ UNCHANGED <<input_port, this_bp, accepted>>
BY DEF SimStep2, Slots, Buffer, Tok, Fresh, Loads, Passes

(* Sending the slot at the head on leaves the owners right.                 *)
LEMMA SendOwners ==
  ASSUME IOwner, NEW next_bp \in BOOLEAN
  PROVE  /\ Slots(next_bp) \in [Tag -> Token \cup {Free}]
         /\ Freed(next_bp) \in [Tag -> BOOLEAN]
         /\ \A t \in Tag : Freed(next_bp)[t] =>
              /\ Slots(next_bp)[t] = Free
              /\ \A req \in accepted : req.tag # t
              /\ line # Free => line.tag # t
         /\ \A req \in accepted : Slots(next_bp)[req.tag] = Free
         /\ line # Free => Slots(next_bp)[line.tag] = Free /\ ~Freed(next_bp)[line.tag]
<1>1. /\ slot \in [Tag -> Token \cup {Free}] /\ maintain_order \in [Tag -> BOOLEAN]
      /\ head_ptr \in Tag
      /\ \A req \in accepted : req.tag \in Tag /\ slot[req.tag] = Free
      /\ line # Free => line.tag \in Tag /\ slot[line.tag] = Free /\ ~maintain_order[line.tag]
  BY DEF IOwner, TypeOK, Request, AnswerHasRoom, LineOwnsTag
<1>2. CASE ~Sends(next_bp)
  BY <1>1, <1>2 DEF IOwner, OneOwner, Slots, Freed
<1>3. CASE Sends(next_bp)
  <2>1. /\ Slots(next_bp) = [slot EXCEPT ![head_ptr] = Free]
        /\ Freed(next_bp) = [maintain_order EXCEPT ![head_ptr] = TRUE]
        /\ slot[head_ptr] # Free
    BY <1>3 DEF Slots, Freed, Sends
  <2> QED BY <1>1, <2>1 DEF IOwner, OneOwner
<1> QED BY <1>2, <1>3

(* What simStep2 reads from its lines and ports.                            *)
LEMMA LookTypes ==
  ASSUME IOwner
  PROVE  /\ In!RingOK(Buffer) /\ Tok \in Token \cup {Free}
         /\ TagOf(Fresh) \in Tag
         /\ In!NotFull(inbuf) => In!NotFull(Buffer)
         /\ ~nextlsu_bp => Buffer = inbuf /\ TagOf(Fresh) = tag_counter
<1>1. In!RingOK(Buffer) /\ (In!NotFull(inbuf) => In!NotFull(Buffer))
  BY InFacts DEF IOwner, Buffer
<1>2. Tok \in Token \cup {Free}
  <2>1. /\ In!Content(Buffer) \in Seq(Token)
        /\ Tok = IF In!Content(Buffer) = << >> THEN Free ELSE Head(In!Content(Buffer))
    BY <1>1, InFacts DEF Tok
  <2> QED BY <2>1, HeadTailProperties
<1>3. TagOf(Fresh) \in Tag
  BY NextTagType DEF IOwner, TypeOK, TagOf
<1> QED BY <1>1, <1>2, <1>3 DEF Buffer, Fresh, TagOf

(* simStep2 sends the answered front and looks up the next line.            *)
LEMMA SimStep2Owner ==
  ASSUME IOwner, NEW next_bp \in BOOLEAN, SimStep2(next_bp)
  PROVE  IOwner'
<1> DEFINE slots == Slots(next_bp)
           owner == Freed(next_bp)
           tag   == TagOf(Fresh)
           load  == Loads(next_bp)
           pass  == Passes(next_bp)
<1>1. /\ pc = "simStep2" /\ pc' = "simStep1"
      /\ output_port' = IF Sends(next_bp) THEN slot[head_ptr] ELSE Free
      /\ head_ptr' = IF Sends(next_bp) THEN NextTag(head_ptr) ELSE head_ptr
      /\ inbuf' = Buffer
      /\ wait_for_data' = IF nextlsu_bp THEN Tok = Free ELSE wait_for_data
      /\ firstlsu' = (firstlsu /\ ~Fresh)
      /\ tag_counter' = tag
      /\ line' = IF load THEN [tag |-> tag, addr |-> Tok] ELSE line
      /\ slot' = IF pass THEN [slots EXCEPT ![tag] = Tok] ELSE slots
      /\ maintain_order' = IF load \/ pass THEN [owner EXCEPT ![tag] = FALSE] ELSE owner
      /\ nextlsu_bp' = BpAfter(Tok, owner[tag], pass)
      /\ pending' = IF Sends(next_bp) /\ pending # << >> THEN Tail(pending) ELSE pending
      /\ input_port' = input_port /\ this_bp' = this_bp /\ accepted' = accepted
  BY SimStep2Values
<1>2. /\ slots \in [Tag -> Token \cup {Free}] /\ owner \in [Tag -> BOOLEAN]
      /\ \A t \in Tag : owner[t] =>
           /\ slots[t] = Free
           /\ \A req \in accepted : req.tag # t
           /\ line # Free => line.tag # t
      /\ \A req \in accepted : slots[req.tag] = Free
      /\ line # Free => slots[line.tag] = Free /\ ~owner[line.tag]
  BY SendOwners
<1>3. /\ In!RingOK(Buffer) /\ Tok \in Token \cup {Free} /\ tag \in Tag
      /\ In!NotFull(inbuf) => In!NotFull(Buffer)
      /\ ~nextlsu_bp => Buffer = inbuf /\ tag = tag_counter
  BY LookTypes
<1>4. /\ load => Tok \in Load /\ owner[tag]
      /\ pass => Tok \in Pass /\ owner[tag] /\ slots[tag] = Free
      /\ load \in BOOLEAN /\ pass \in BOOLEAN
      /\ ~(load /\ pass)
  BY ConstantTypes DEF Loads, Passes
<1> HIDE DEF slots, owner, tag, load, pass
<1>5. load \/ pass => line = Free
  <2>1. line # Free => ~nextlsu_bp /\ line.tag = tag_counter
    BY DEF IOwner, LineOwnsTag
  <2> QED BY <1>2, <1>3, <1>4, <2>1
<1>6. TypeOK'
  <2>1. inbuf' \in In!RingType
    BY <1>1, <1>3, InFacts
  <2>2. line' \in Request \cup {Free}
    <3>1. load => [tag |-> tag, addr |-> Tok] \in Request
      BY <1>3, <1>4 DEF Request
    <3> QED BY <1>1, <3>1 DEF IOwner, TypeOK
  <2>3. slot' \in [Tag -> Token \cup {Free}] /\ maintain_order' \in [Tag -> BOOLEAN]
    BY <1>1, <1>2, <1>3
  <2>4. head_ptr' \in Tag /\ tag_counter' \in Tag
    BY <1>1, <1>3, NextTagType DEF IOwner, TypeOK
  <2>5. pending' \in Seq(Token)
    BY <1>1, HeadTailProperties DEF IOwner, TypeOK
  <2>6. output_port' \in Token \cup {Free}
    BY <1>1 DEF IOwner, TypeOK
  <2>7. nextlsu_bp' \in BOOLEAN /\ firstlsu' \in BOOLEAN /\ wait_for_data' \in BOOLEAN
    <3>1. nextlsu_bp' \in BOOLEAN
      BY <1>1, <1>4 DEF BpAfter
    <3> QED BY <1>1, <3>1 DEF IOwner, TypeOK
  <2> QED BY <1>1, <2>1, <2>2, <2>3, <2>4, <2>5, <2>6, <2>7 DEF IOwner, TypeOK
<1>7. CreditKept'
  BY <1>1, <1>3 DEF IOwner, CreditKept
<1>8. OneOwner'
  <2> SUFFICES ASSUME NEW t \in Tag, maintain_order'[t]
               PROVE  /\ slot'[t] = Free
                      /\ \A req \in accepted' : req.tag # t
                      /\ line' # Free => line'.tag # t
    BY DEF OneOwner
  <2>1. owner[t] /\ (load \/ pass => t # tag)
    BY <1>1, <1>2, <1>3
  <2>2. slot'[t] = Free
    BY <1>1, <1>2, <1>3, <2>1
  <2>3. line' # Free => line'.tag # t
    BY <1>1, <1>2, <2>1
  <2> QED BY <1>1, <1>2, <2>1, <2>2, <2>3
<1>9. AnswerHasRoom'
  <2> SUFFICES ASSUME NEW req \in accepted PROVE slot'[req.tag] = Free
    BY <1>1 DEF AnswerHasRoom
  <2>1. pass => req.tag # tag
    BY <1>2, <1>3, <1>4
  <2> QED BY <1>1, <1>2, <1>3, <2>1 DEF IOwner, TypeOK, Request
<1>10. TagsDiffer'
  BY <1>1 DEF IOwner, TagsDiffer
<1>11. LineOwnsTag'
  <2> SUFFICES ASSUME line' # Free
               PROVE  /\ ~nextlsu_bp' /\ line'.tag = tag_counter'
                      /\ slot'[line'.tag] = Free /\ ~maintain_order'[line'.tag]
                      /\ \A req \in accepted' : req.tag # line'.tag
    BY DEF LineOwnsTag
  <2>1. CASE load
    <3>1. line'.tag = tag /\ ~pass
      BY <1>1, <1>4, <2>1
    <3>2. ~nextlsu_bp'
      BY <1>1, <1>4, <2>1, <3>1 DEF BpAfter
    <3> QED BY <1>1, <1>2, <1>3, <1>4, <2>1, <3>1, <3>2
  <2>2. CASE ~load
    <3>1. line' = line /\ line # Free /\ ~pass
      BY <1>1, <1>5, <2>2
    <3>2. ~nextlsu_bp /\ tag = tag_counter /\ line.tag = tag_counter
      BY <1>3, <3>1 DEF IOwner, LineOwnsTag
    <3>3. ~nextlsu_bp'
      BY <1>1, <3>1, <3>2 DEF BpAfter
    <3> QED BY <1>1, <1>2, <2>2, <3>1, <3>2, <3>3 DEF IOwner, LineOwnsTag
  <2> QED BY <2>1, <2>2
<1>12. Looked'
  <2>1. CASE nextlsu_bp
    <3>1. Tok = Free => nextlsu_bp'
      BY <1>1, <1>4, <2>1, ConstantTypes DEF BpAfter
    <3>2. In!Front(inbuf)' = Tok
      BY <1>1 DEF Tok
    <3> QED BY <1>1, <2>1, <3>1, <3>2 DEF Looked, Fresh
  <2>2. CASE ~nextlsu_bp
    <3>1. /\ ~wait_for_data /\ ~firstlsu /\ In!Front(inbuf) # Free
      BY <2>2 DEF IOwner, Looked
    <3> QED BY <1>1, <1>3, <2>2, <3>1 DEF Looked
  <2> QED BY <2>1, <2>2
<1> QED
  BY <1>1, <1>3, <1>6, <1>7, <1>8, <1>9, <1>10, <1>11, <1>12 DEF IOwner

(* What waits is a sequence of tokens, the front of the buffer first.       *)
LEMMA WaitingTokens ==
  ASSUME NEW buf, In!RingOK(buf), NEW wire \in Token \cup {Free}
  PROVE  /\ In!Content(buf) \in Seq(Token) /\ WaitingIn(buf, wire) \in Seq(Token)
         /\ WaitingIn(buf, wire) = IF wire = Free THEN In!Content(buf)
                                                  ELSE Append(In!Content(buf), wire)
         /\ In!Front(buf) # Free => /\ In!Content(buf) # << >> /\ WaitingIn(buf, wire) # << >>
                                    /\ In!Front(buf) = WaitingIn(buf, wire)[1]
<1> DEFINE content == In!Content(buf)
           waiting == WaitingIn(buf, wire)
<1>1. /\ content \in Seq(Token)
      /\ In!Front(buf) = IF content = << >> THEN Free ELSE Head(content)
  BY InFacts
<1>2. waiting = IF wire = Free THEN content ELSE Append(content, wire)
  <2> HIDE DEF content
  <2>1. wire = Free => waiting = content
    BY <1>1, ConcatEmptySeq DEF WaitingIn, content
  <2>2. wire # Free => waiting = Append(content, wire)
    BY <1>1, AppendIsConcat DEF WaitingIn, content
  <2> QED BY <2>1, <2>2
<1> HIDE DEF content, waiting
<1>3. waiting \in Seq(Token)
  BY <1>1, <1>2, AppendProperties
<1>4. ASSUME In!Front(buf) # Free
      PROVE  content # << >> /\ waiting # << >> /\ In!Front(buf) = waiting[1]
  <2>1. content # << >> /\ In!Front(buf) = content[1] /\ content \in Seq(Token)
    BY <1>1, <1>4, HeadTailProperties
  <2>2. Len(content) \in Nat /\ 1 \in 1 .. Len(content)
    BY <2>1, EmptySeq
  <2>3. wire # Free => waiting # << >> /\ waiting[1] = content[1]
    BY <1>2, <2>1, <2>2, AppendProperties
  <2> QED BY <1>2, <2>1, <2>3
<1> QED BY <1>1, <1>2, <1>3, <1>4 DEF content, waiting

(* Resetting the buffer removes the oldest of what waits.                   *)
LEMMA WaitingReset ==
  ASSUME NEW buf, In!RingOK(buf), NEW wire \in Token \cup {Free}
  PROVE  WaitingIn(In!Reset(buf), wire) =
           IF In!Front(buf) = Free THEN WaitingIn(buf, wire) ELSE Tail(WaitingIn(buf, wire))
<1> DEFINE content == In!Content(buf)
           left    == In!Content(In!Reset(buf))
<1>1. /\ content \in Seq(Token) /\ left \in Seq(Token)
      /\ In!Front(buf) = IF content = << >> THEN Free ELSE Head(content)
      /\ left = IF content = << >> THEN << >> ELSE Tail(content)
      /\ In!RingOK(In!Reset(buf))
  BY InFacts
<1>2. /\ WaitingIn(buf, wire) = IF wire = Free THEN content ELSE Append(content, wire)
      /\ WaitingIn(In!Reset(buf), wire) = IF wire = Free THEN left ELSE Append(left, wire)
  BY <1>1, WaitingTokens
<1> HIDE DEF content, left
<1>3. In!Front(buf) = Free <=> content = << >>
  BY <1>1, HeadTailProperties, ConstantTypes
<1>4. content # << >> /\ wire # Free => Tail(Append(content, wire)) = Append(Tail(content), wire)
  BY <1>1, HeadTailAppend
<1> QED BY <1>1, <1>2, <1>3, <1>4

(* Under credit simStep1 stores what is on the wire.                        *)
Stored == IF input_port = Free THEN inbuf ELSE In!Input(inbuf, input_port)

(* What simStep1 stores is what was on the wires.                           *)
LEMMA StoredTokens ==
  ASSUME IOwner
  PROVE  /\ In!RingOK(Stored) /\ In!Content(Stored) = Waiting
         /\ In!Front(inbuf) # Free => In!Front(Stored) # Free
<1>1. In!RingOK(inbuf) /\ input_port \in Token \cup {Free}
  BY DEF IOwner, TypeOK
<1>2. In!RingOK(Stored)
  BY <1>1, InFacts DEF Stored
<1>3. In!Content(Stored) = Waiting
  <2>1. Waiting = IF input_port = Free THEN In!Content(inbuf)
                                       ELSE Append(In!Content(inbuf), input_port)
    BY <1>1, WaitingTokens DEF Waiting
  <2>2. input_port # Free => In!NotFull(inbuf)
    BY DEF IOwner, CreditKept
  <2>3. input_port # Free => In!Content(Stored) = Append(In!Content(inbuf), input_port)
    BY <1>1, <2>2, InFacts DEF Stored
  <2> QED BY <2>1, <2>3 DEF Stored
<1>4. ASSUME In!Front(inbuf) # Free PROVE In!Front(Stored) # Free
  <2>1. Waiting # << >> /\ Waiting \in Seq(Token)
    BY <1>1, <1>4, WaitingTokens DEF Waiting
  <2>2. In!Front(Stored) = Head(Waiting)
    BY <1>2, <1>3, <2>1, InFacts
  <2> QED BY <2>1, <2>2, HeadTailProperties, ConstantTypes
<1> QED BY <1>2, <1>3, <1>4

(* simStep1 stores the arrivals and gives a tag to the line it granted.     *)
LEMMA SimStep1Owner == IOwner /\ SimStep1 => IOwner'
<1> SUFFICES ASSUME IOwner, SimStep1 PROVE IOwner'
  OBVIOUS
<1>1. /\ pc' = "simStep2" /\ inbuf' = Stored /\ this_bp' = In!NotFull(Stored)
      /\ input_port' = Free /\ output_port' = Free /\ pc = "simStep1"
      /\ UNCHANGED <<slot, head_ptr, tag_counter, maintain_order, nextlsu_bp, firstlsu,
                     wait_for_data, line, accepted, pending>>
  BY DEF SimStep1, order, Stored
<1>2. In!RingOK(Stored) /\ Stored \in In!RingType
  BY StoredTokens, InFacts
<1>3. TypeOK'
  BY <1>1, <1>2 DEF IOwner, TypeOK, In!NotFull
<1>4. OneOwner' /\ AnswerHasRoom' /\ TagsDiffer' /\ LineOwnsTag'
  BY <1>1 DEF IOwner, OneOwner, AnswerHasRoom, TagsDiffer, LineOwnsTag
<1>5. CreditKept' /\ Looked'
  BY <1>1, StoredTokens DEF IOwner, CreditKept, Looked
<1> QED BY <1>1, <1>2, <1>3, <1>4, <1>5 DEF IOwner

(* Every step keeps tags and lines matched.                                 *)
LEMMA NextIOwner == IOwner /\ [Next]_vars => IOwner'
<1> SUFFICES ASSUME IOwner, [Next]_vars PROVE IOwner'
  OBVIOUS
<1>1. CASE UNCHANGED vars
  BY <1>1 DEF vars, array, order, IOwner, TypeOK, CreditKept, OneOwner, AnswerHasRoom, TagsDiffer,
              LineOwnsTag, Looked
<1> QED
  BY <1>1, ArriveOwner, AcceptOwner, AnswerOwner, SimStep2Owner, SimStep1Owner DEF Next
-----------------------------------------------------------------------------
(***************************************************************************)
(* The order of the tokens.                                                *)
(***************************************************************************)
(* The tags, counted from the head.                                         *)
LEMMA FromFacts ==
  ASSUME NEW h \in Tag
  PROVE  /\ \A i \in 0 .. OutDepth : From(h, i) \in Tag
         /\ From(h, 0) = h /\ From(h, OutDepth) = h
         /\ \A i, j \in Tag : From(h, i) = From(h, j) => i = j
         /\ \A i \in Tag : NextTag(From(h, i)) = From(h, i + 1)
         /\ \A i \in Tag : From(NextTag(h), i) = From(h, i + 1)
BY ConstantTypes DEF From, Tag, NextTag

(* The i-th line from the head.                                             *)
LEMMA AtFacts ==
  ASSUME IOwner
  PROVE  /\ \A i \in 0 .. OutDepth : At(i) \in Tag
         /\ At(0) = head_ptr /\ At(OutDepth) = head_ptr
         /\ \A i, j \in Tag : At(i) = At(j) => i = j
         /\ \A i \in Tag : NextTag(At(i)) = At(i + 1)
BY FromFacts DEF IOwner, TypeOK, At

(* The types the order of lines is stated with.                             *)
LEMMA OrderTypes ==
  ASSUME IOwner
  PROVE  /\ Waiting \in Seq(Token) /\ Len(Waiting) \in Nat
         /\ pending \in Seq(Token) /\ Len(pending) \in Nat
         /\ FrontGranted => Len(Waiting) > 0
<1>1. /\ In!RingOK(inbuf) /\ input_port \in Token \cup {Free} /\ pending \in Seq(Token)
      /\ FrontGranted => In!Front(inbuf) # Free
  BY DEF IOwner, TypeOK, FrontGranted, Looked
<1>2. Waiting \in Seq(Token) /\ (FrontGranted => Waiting # << >>)
  BY <1>1, WaitingTokens DEF Waiting
<1> QED BY <1>1, <1>2, EmptySeq, LenProperties

(* No line waits.                                                           *)
LEMMA InitOrder == Init => OrderKept
<1> SUFFICES ASSUME Init PROVE Ordered(0)
  BY ConstantTypes DEF OrderKept
<1>1. IOwner /\ In!Content(inbuf) = << >>
  BY InitOwner, InFacts DEF Init
<1>2. Waiting = << >>
  <2>1. Waiting = << >> \o << >>
    BY <1>1 DEF Init, Waiting, WaitingIn
  <2> QED BY <2>1, EmptySeq, ConcatEmptySeq
<1>3. At(0) = 0 /\ Len(Waiting) = 0
  BY <1>1, <1>2, AtFacts, EmptySeq DEF Init
<1>4. \A i \in Tag : maintain_order[At(i)] /\ i >= 0
  BY <1>1, AtFacts, ConstantTypes DEF Init, Tag
<1>5. ~FrontGranted /\ NextOwner = 0 /\ Len(pending) = 0
  BY EmptySeq DEF Init, NextOwner, FrontGranted
<1> QED BY <1>3, <1>4, <1>5 DEF Ordered

(* An arrival changes no line.                                              *)
LEMMA ArriveOrder ==
  ASSUME IInv, NEW tok \in Token, Arrive(tok)
  PROVE  OrderKept'
<1>1. PICK k \in 0 .. OutDepth : Ordered(k)
  BY DEF IInv, OrderKept
<1>2. IOwner
  BY DEF IInv, IOwner
<1>3. /\ input_port = Free /\ input_port' = tok /\ pending' = Append(pending, tok)
      /\ UNCHANGED <<inbuf, slot, head_ptr, tag_counter, maintain_order, nextlsu_bp, firstlsu,
                     wait_for_data, line, accepted>>
  BY DEF Arrive, order
<1>4. Waiting' = Append(Waiting, tok)
  <2>1. In!RingOK(inbuf) /\ tok # Free
    BY <1>2, ConstantTypes DEF IOwner
  <2>2. Waiting = In!Content(inbuf)
    BY <1>3, <2>1, WaitingTokens DEF Waiting
  <2>3. WaitingIn(inbuf, tok) = Append(In!Content(inbuf), tok)
    BY <2>1, WaitingTokens
  <2> QED BY <1>3, <2>2, <2>3 DEF Waiting
<1> DEFINE gone == IF FrontGranted THEN k - 1 ELSE k
<1>5. /\ gone \in Int /\ gone >= 0 /\ gone <= k
      /\ Len(pending) = gone + Len(Waiting) /\ Len(pending) >= k
      /\ \A j \in 1 .. Len(Waiting) : pending[gone + j] = Waiting[j]
  BY <1>1, <1>2, OrderTypes, ConstantTypes DEF Ordered
<1>6. /\ Len(pending') = Len(pending) + 1 /\ Len(Waiting') = Len(Waiting) + 1
      /\ \A i \in 1 .. Len(pending) : pending'[i] = pending[i]
      /\ \A i \in 1 .. Len(Waiting) : Waiting'[i] = Waiting[i]
      /\ pending'[Len(pending) + 1] = tok /\ Waiting'[Len(Waiting) + 1] = tok
  BY <1>2, <1>3, <1>4, OrderTypes, AppendProperties
<1>7. ASSUME NEW j \in 1 .. Len(Waiting')
      PROVE  pending'[gone + j] = Waiting'[j]
  <2>1. CASE j = Len(Waiting) + 1
    BY <1>5, <1>6, <2>1
  <2>2. CASE j # Len(Waiting) + 1
    <3>1. j \in 1 .. Len(Waiting) /\ gone + j \in 1 .. Len(pending)
      BY <1>2, <1>5, <1>6, <2>2, OrderTypes
    <3> QED BY <1>5, <1>6, <3>1
  <2> QED BY <2>1, <2>2
<1>8. \A i \in 1 .. k : Holds(At(i - 1), pending[i])' = Holds(At(i - 1), pending[i])
  <2>1. \A i \in 1 .. k : pending'[i] = pending[i]
    BY <1>2, <1>5, <1>6, OrderTypes, ConstantTypes
  <2> QED BY <1>3, <2>1 DEF Holds, At
<1>9. Ordered(k)'
  <2>1. FrontGranted' = FrontGranted /\ NextOwner' = NextOwner /\ \A i : At(i)' = At(i)
    BY <1>3 DEF FrontGranted, NextOwner, At
  <2> HIDE DEF gone
  <2>2. Len(pending') = gone + Len(Waiting')
    BY <1>2, <1>5, <1>6, OrderTypes
  <2> QED BY <1>1, <1>3, <1>7, <1>8, <2>1, <2>2 DEF Ordered, gone
<1> QED BY <1>9 DEF OrderKept
(* A request that moves to the LSU, or comes back, is still where it is     *)
(* looked for.                                                              *)
LEMMA AcceptOrder == IInv /\ Accept => OrderKept'
<1> SUFFICES ASSUME IInv, Accept PROVE OrderKept'
  OBVIOUS
<1>1. PICK k \in 0 .. OutDepth : Ordered(k)
  BY DEF IInv, OrderKept
<1>2. /\ line # Free /\ accepted' = accepted \cup {line} /\ line' = Free /\ nextlsu_bp' = TRUE
      /\ UNCHANGED <<inbuf, input_port, slot, head_ptr, tag_counter, maintain_order, firstlsu,
                     wait_for_data, pending>>
  BY DEF Accept, array
<1>3. ~nextlsu_bp
  BY <1>2 DEF IInv, LineOwnsTag
<1>4. FrontGranted' = FrontGranted /\ NextOwner' = NextOwner /\ Waiting' = Waiting
  <2>1. ~firstlsu /\ ~wait_for_data
    BY <1>3 DEF IInv, Looked
  <2> QED BY <1>2, <1>3, <2>1 DEF FrontGranted, NextOwner, Waiting
<1>5. \A i : At(i)' = At(i)
  BY <1>2 DEF At
<1>6. \A t, tok : Holds(t, tok) => Holds(t, tok)'
  BY <1>2 DEF Holds
<1>7. Ordered(k)'
  BY <1>1, <1>2, <1>4, <1>5, <1>6 DEF Ordered
<1> QED BY <1>7 DEF OrderKept

(* An answer fills one line and keeps its place.                            *)
LEMMA AnswerOrder ==
  ASSUME IInv, NEW req \in accepted, Answer(req)
  PROVE  OrderKept'
<1>1. PICK k \in 0 .. OutDepth : Ordered(k)
  BY DEF IInv, OrderKept
<1>2. /\ slot[req.tag] = Free /\ req.tag \in Tag /\ slot \in [Tag -> Token \cup {Free}]
      /\ accepted' = accepted \ {req} /\ slot' = [slot EXCEPT ![req.tag] = req.addr]
      /\ UNCHANGED <<inbuf, input_port, head_ptr, tag_counter, maintain_order, nextlsu_bp,
                     firstlsu, wait_for_data, line, pending>>
  BY DEF Answer, order, IInv, TypeOK, AnswerHasRoom, Request
<1>3. FrontGranted' = FrontGranted /\ NextOwner' = NextOwner /\ Waiting' = Waiting
  BY <1>2 DEF FrontGranted, NextOwner, Waiting
<1>4. \A i : At(i)' = At(i)
  BY <1>2 DEF At
<1>5. ASSUME NEW t \in Tag, NEW tok \in Token, Holds(t, tok)
      PROVE  Holds(t, tok)'
  <2>1. CASE slot[t] = tok
    BY <1>2, <1>5, <2>1, ConstantTypes DEF Holds
  <2>2. CASE [tag |-> t, addr |-> tok] \in accepted
    BY <1>2, <1>5, <2>2 DEF Holds
  <2>3. CASE line # Free /\ line = [tag |-> t, addr |-> tok]
    BY <1>2, <2>3 DEF Holds
  <2> QED BY <1>5, <2>1, <2>2, <2>3 DEF Holds
<1>6. \A i \in 1 .. k : Holds(At(i - 1), pending[i])'
  <2>1. ASSUME NEW i \in 1 .. k PROVE At(i - 1) \in Tag /\ pending[i] \in Token
    <3>1. IOwner
      BY DEF IInv, IOwner
    <3>2. Len(pending) >= k
      BY <1>1, <3>1, OrderTypes, ConstantTypes DEF Ordered
    <3>3. i - 1 \in 0 .. OutDepth /\ i \in 1 .. Len(pending)
      BY <3>1, <3>2, OrderTypes, ConstantTypes
    <3> QED BY <3>1, <3>3, AtFacts, OrderTypes, LenProperties
  <2> QED BY <1>1, <1>2, <1>4, <1>5, <2>1 DEF Ordered
<1>7. Ordered(k)'
  BY <1>1, <1>2, <1>3, <1>4, <1>6 DEF Ordered
<1> QED BY <1>7 DEF OrderKept

(* What is stored goes on waiting.                                          *)
LEMMA SimStep1Order == IInv /\ SimStep1 => OrderKept'
<1> SUFFICES ASSUME IInv, SimStep1 PROVE OrderKept'
  OBVIOUS
<1>1. PICK k \in 0 .. OutDepth : Ordered(k)
  BY DEF IInv, OrderKept
<1>2. IOwner
  BY DEF IInv, IOwner
<1>3. /\ inbuf' = Stored /\ input_port' = Free
      /\ UNCHANGED <<slot, head_ptr, tag_counter, maintain_order, nextlsu_bp, firstlsu,
                     wait_for_data, line, accepted, pending>>
  BY DEF SimStep1, order, Stored
<1>4. Waiting' = Waiting
  BY <1>2, <1>3, StoredTokens, WaitingTokens DEF Waiting
<1>5. FrontGranted' = FrontGranted /\ NextOwner' = NextOwner
  BY <1>3 DEF FrontGranted, NextOwner
<1>6. /\ \A i : At(i)' = At(i)
      /\ \A t, tok : Holds(t, tok)' = Holds(t, tok)
  BY <1>3 DEF At, Holds
<1>7. Ordered(k)'
  BY <1>1, <1>3, <1>4, <1>5, <1>6 DEF Ordered
<1> QED BY <1>7 DEF OrderKept

(* The token at the head is the oldest.                                     *)
LEMMA SendsOldest ==
  ASSUME IOwner, NEW k \in 0 .. OutDepth, Ordered(k), NEW next_bp \in BOOLEAN, Sends(next_bp)
  PROVE  k > 0 /\ pending # << >> /\ slot[head_ptr] = pending[1]
<1>1. slot[head_ptr] # Free /\ head_ptr \in Tag /\ At(0) = head_ptr
  BY AtFacts DEF Sends, IOwner, TypeOK
<1>2. k > 0
  <2>1. ~maintain_order[head_ptr]
    BY <1>1 DEF IOwner, OneOwner
  <2>2. 0 \in Tag
    BY ConstantTypes DEF Tag
  <2> QED BY <1>1, <2>1, <2>2, ConstantTypes DEF Ordered
<1>3. Len(pending) > 0
  BY <1>2, OrderTypes, ConstantTypes DEF Ordered
<1>4. Holds(head_ptr, pending[1])
  <2>1. 1 \in 1 .. k /\ 1 - 1 = 0
    BY <1>2, ConstantTypes
  <2> QED BY <1>1, <2>1 DEF Ordered
<1>5. slot[head_ptr] = pending[1]
  <2> DEFINE req == [tag |-> head_ptr, addr |-> pending[1]]
  <2>1. req.tag = head_ptr
    OBVIOUS
  <2> HIDE DEF req
  <2>2. req \notin accepted
    BY <1>1, <2>1 DEF IOwner, AnswerHasRoom
  <2>3. ~(line # Free /\ line = req)
    BY <1>1, <2>1 DEF IOwner, LineOwnsTag
  <2> QED BY <1>4, <2>2, <2>3 DEF Holds, req
<1> QED BY <1>2, <1>3, <1>5, EmptySeq
(* leSimStep2, first part: the slot at the head is sent on.  Then the n     *)
(* oldest tokens have the n tags from the new head; all but the `gone'      *)
(* oldest wait.                                                             *)
SentOn(next_bp, n, gone) ==
  /\ n \in 0 .. OutDepth
  /\ FrontGranted /\ ~nextlsu_bp => n > 0
  /\ NextOwner = From(head_ptr', n)
  /\ \A i \in Tag : Freed(next_bp)[From(head_ptr', i)] <=> i >= n
  /\ \A i \in 1 .. n :
       LET t   == From(head_ptr', i - 1)
           tok == pending'[i]
       IN  \/ Slots(next_bp)[t] = tok
           \/ [tag |-> t, addr |-> tok] \in accepted
           \/ line # Free /\ line = [tag |-> t, addr |-> tok]
  /\ Len(pending') = gone + Len(Waiting)
  /\ \A j \in 1 .. Len(Waiting) : gone + j > 0 => pending'[gone + j] = Waiting[j]

(* The line that leaves is the oldest.                                      *)
LEMMA SendOrder ==
  ASSUME IInv, NEW next_bp \in BOOLEAN, SimStep2(next_bp)
  PROVE  \E n \in 0 .. OutDepth : SentOn(next_bp, n, IF FrontGranted THEN n - 1 ELSE n)
<1>0. PICK k \in 0 .. OutDepth : Ordered(k)
  BY DEF IInv, OrderKept
<1> DEFINE gone == IF FrontGranted THEN k - 1 ELSE k
<1>1. IOwner
  BY DEF IInv, IOwner
<1>2. /\ head_ptr' = IF Sends(next_bp) THEN NextTag(head_ptr) ELSE head_ptr
      /\ pending' = IF Sends(next_bp) /\ pending # << >> THEN Tail(pending) ELSE pending
  BY SimStep2Values
<1>3. /\ FrontGranted => k > 0
      /\ NextOwner = At(k)
      /\ \A i \in Tag : maintain_order[At(i)] <=> i >= k
      /\ \A i \in 1 .. k : Holds(At(i - 1), pending[i])
      /\ Len(pending) = gone + Len(Waiting)
      /\ \A j \in 1 .. Len(Waiting) : pending[gone + j] = Waiting[j]
  BY <1>0 DEF Ordered
<1>4. gone \in Int /\ gone >= 0 /\ gone <= k /\ k \in Nat /\ OutDepth \in Nat \ {0}
  BY <1>3, ConstantTypes
<1>5. /\ Waiting \in Seq(Token) /\ Len(Waiting) \in Nat
      /\ pending \in Seq(Token) /\ Len(pending) \in Nat
      /\ FrontGranted => Len(Waiting) > 0
  BY <1>1, OrderTypes
<1> HIDE DEF gone
<1>6. ASSUME ~Sends(next_bp) PROVE SentOn(next_bp, k, gone)
  <2>1. head_ptr' = head_ptr /\ pending' = pending
    BY <1>2, <1>6
  <2>2. \A i : From(head_ptr', i) = At(i)
    BY <2>1 DEF At
  <2>3. Slots(next_bp) = slot /\ Freed(next_bp) = maintain_order
    BY <1>6 DEF Slots, Freed
  <2> QED BY <1>3, <1>4, <2>1, <2>2, <2>3 DEF Holds, SentOn
<1>7. ASSUME Sends(next_bp) PROVE SentOn(next_bp, k - 1, gone - 1)
  <2>1. k > 0 /\ pending # << >> /\ slot[head_ptr] = pending[1] /\ slot[head_ptr] # Free
    BY <1>0, <1>1, <1>7, SendsOldest DEF Sends
  <2>2. head_ptr' = NextTag(head_ptr) /\ pending' = Tail(pending)
    BY <1>2, <1>7, <2>1
  <2>3. \A i \in Tag : From(head_ptr', i) = At(i + 1)
    BY <1>1, <2>2, FromFacts DEF IOwner, TypeOK, At
  <2>4. /\ Slots(next_bp) = [slot EXCEPT ![head_ptr] = Free]
        /\ Freed(next_bp) = [maintain_order EXCEPT ![head_ptr] = TRUE]
    BY <1>7 DEF Slots, Freed
  <2>5. Len(pending') = Len(pending) - 1 /\ \A i \in 1 .. Len(pending') : pending'[i] = pending[i + 1]
    BY <1>5, <2>1, <2>2, HeadTailProperties
  <2>6. k - 1 \in Tag /\ k - 1 \in 0 .. OutDepth
    BY <1>4, <2>1 DEF Tag
  <2>7. FrontGranted /\ ~nextlsu_bp => k - 1 > 0
    <3> SUFFICES ASSUME FrontGranted, ~nextlsu_bp, k = 1
                 PROVE  FALSE
      BY <1>4, <2>1
    <3>1. line # Free /\ ~firstlsu
      BY DEF FrontGranted
    <3>2. line.tag = tag_counter /\ slot[tag_counter] = Free /\ tag_counter \in Tag
      BY <1>1, <3>1 DEF IOwner, LineOwnsTag, TypeOK
    <3>3. NextTag(tag_counter) = NextTag(head_ptr)
      <4>1. NextOwner = NextTag(tag_counter)
        BY <3>1 DEF NextOwner
      <4>2. 0 \in Tag /\ At(0) = head_ptr /\ NextTag(At(0)) = At(0 + 1)
        BY <1>1, <1>4, AtFacts DEF Tag
      <4> QED BY <1>3, <4>1, <4>2
    <3>4. tag_counter = head_ptr
      BY <1>1, <1>4, <3>2, <3>3 DEF NextTag, Tag, IOwner, TypeOK
    <3> QED BY <2>1, <3>2, <3>4
  <2>8. NextOwner = From(head_ptr', k - 1)
    BY <1>3, <1>4, <2>3, <2>6
  <2>9. ASSUME NEW i \in Tag
        PROVE  Freed(next_bp)[From(head_ptr', i)] <=> i >= k - 1
    <3>1. /\ From(head_ptr', i) = At(i + 1) /\ head_ptr \in Tag /\ maintain_order \in [Tag -> BOOLEAN]
          /\ i + 1 \in 0 .. OutDepth /\ At(i + 1) \in Tag
      <4>1. head_ptr \in Tag /\ maintain_order \in [Tag -> BOOLEAN]
        BY <1>1 DEF IOwner, TypeOK
      <4>2. i + 1 \in 0 .. OutDepth
        BY <1>4 DEF Tag
      <4> QED BY <1>1, <2>3, <4>1, <4>2, AtFacts
    <3>2. CASE i + 1 = OutDepth
      <4>1. From(head_ptr', i) = head_ptr /\ i >= k - 1
          <5>1. At(OutDepth) = head_ptr
          BY <1>1, AtFacts
        <5> QED BY <1>4, <3>1, <3>2, <5>1 DEF Tag
      <4> QED BY <2>4, <3>1, <4>1
    <3>3. CASE i + 1 # OutDepth
      <4>1. i + 1 \in Tag /\ 0 \in Tag /\ i + 1 # 0
        BY <1>4, <3>3 DEF Tag
      <4>2. At(i + 1) # head_ptr
        BY <1>1, <4>1, AtFacts
      <4>3. Freed(next_bp)[From(head_ptr', i)] = maintain_order[At(i + 1)]
        BY <2>4, <3>1, <4>2
      <4> QED BY <1>3, <1>4, <4>1, <4>3 DEF Tag
    <3> QED BY <3>2, <3>3
  <2>10. ASSUME NEW i \in 1 .. (k - 1)
         PROVE  LET t   == From(head_ptr', i - 1)
                    tok == pending'[i]
                IN  \/ Slots(next_bp)[t] = tok
                    \/ [tag |-> t, addr |-> tok] \in accepted
                    \/ line # Free /\ line = [tag |-> t, addr |-> tok]
    <3>1. /\ i - 1 \in Tag /\ From(head_ptr', i - 1) = At(i) /\ i \in Tag /\ 0 \in Tag /\ At(i) \in Tag
          /\ i # 0
      BY <1>1, <1>4, <2>3, <2>6, AtFacts DEF Tag
    <3>2. pending'[i] = pending[i + 1]
      <4>1. i \in 1 .. Len(pending')
        BY <1>3, <1>4, <1>5, <2>5 DEF gone
      <4> QED BY <2>5, <4>1
    <3>3. Holds(At(i), pending[i + 1])
      <4>1. i + 1 \in 1 .. k /\ (i + 1) - 1 = i
        BY <1>4
      <4> QED BY <1>3, <4>1
    <3>4. Slots(next_bp)[At(i)] = slot[At(i)]
      <4>1. At(i) # head_ptr
        BY <1>1, <3>1, AtFacts
      <4> QED BY <1>1, <2>4, <3>1, <4>1 DEF IOwner, TypeOK
    <3> QED BY <3>1, <3>2, <3>3, <3>4 DEF Holds
  <2>11. Len(pending') = gone - 1 + Len(Waiting)
    BY <1>3, <1>4, <1>5, <2>5
  <2>12. ASSUME NEW j \in 1 .. Len(Waiting), gone - 1 + j > 0
         PROVE  pending'[gone - 1 + j] = Waiting[j]
    <3>1. gone - 1 + j \in 1 .. Len(pending') /\ (gone - 1 + j) + 1 = gone + j
      BY <1>4, <1>5, <2>11, <2>12
    <3> QED BY <1>3, <2>5, <3>1
  <2> QED BY <2>6, <2>7, <2>8, <2>9, <2>10, <2>11, <2>12 DEF SentOn
<1>8. CASE ~Sends(next_bp)
  BY <1>6, <1>8 DEF gone
<1>9. CASE Sends(next_bp)
  <2>1. k - 1 \in 0 .. OutDepth /\ (gone - 1) = IF FrontGranted THEN (k - 1) - 1 ELSE k - 1
    BY <1>4, <1>7, <1>9 DEF SentOn, gone
  <2> QED BY <1>7, <1>9, <2>1
<1> QED BY <1>8, <1>9
(* leSimStep2, second part: the token looked at gets the next tag, if that  *)
(* is free.                                                                 *)
LEMMA SimStep2Order ==
  ASSUME IInv, NEW next_bp \in BOOLEAN, SimStep2(next_bp)
  PROVE  OrderKept'
<1> DEFINE slots == Slots(next_bp)
           owner == Freed(next_bp)
           tag   == TagOf(Fresh)
           load  == Loads(next_bp)
           pass  == Passes(next_bp)
           head  == head_ptr'
<1>1. IOwner /\ IOwner'
  <2>1. IOwner
    BY DEF IInv, IOwner
  <2> QED BY <2>1, SimStep2Owner
<1>2. /\ inbuf' = Buffer
      /\ wait_for_data' = IF nextlsu_bp THEN Tok = Free ELSE wait_for_data
      /\ firstlsu' = (firstlsu /\ ~Fresh)
      /\ tag_counter' = tag
      /\ line' = IF load THEN [tag |-> tag, addr |-> Tok] ELSE line
      /\ slot' = IF pass THEN [slots EXCEPT ![tag] = Tok] ELSE slots
      /\ maintain_order' = IF load \/ pass THEN [owner EXCEPT ![tag] = FALSE] ELSE owner
      /\ nextlsu_bp' = BpAfter(Tok, owner[tag], pass)
      /\ input_port' = input_port /\ accepted' = accepted
  BY SimStep2Values
<1>3. PICK n \in 0 .. OutDepth : SentOn(next_bp, n, IF FrontGranted THEN n - 1 ELSE n)
  BY SendOrder
<1>4. /\ slots \in [Tag -> Token \cup {Free}] /\ owner \in [Tag -> BOOLEAN]
      /\ \A t \in Tag : owner[t] => slots[t] = Free
  BY <1>1, SendOwners
<1>5. /\ In!RingOK(Buffer) /\ Tok \in Token \cup {Free} /\ tag \in Tag
      /\ ~nextlsu_bp => Buffer = inbuf /\ tag = tag_counter
  BY <1>1, LookTypes
<1>6. /\ head \in Tag /\ n \in Nat /\ OutDepth \in Nat \ {0}
      /\ \A i : At(i)' = From(head, i)
  BY <1>1, ConstantTypes DEF IOwner, TypeOK, At
<1>7. /\ Waiting \in Seq(Token) /\ Len(Waiting) \in Nat
      /\ pending' \in Seq(Token) /\ Len(pending') \in Nat
      /\ FrontGranted => Len(Waiting) > 0
  BY <1>1, OrderTypes, LenProperties DEF IOwner, TypeOK
<1>8. /\ load => Tok \in Load /\ owner[tag]
      /\ pass => Tok \in Pass /\ owner[tag]
      /\ load \in BOOLEAN /\ pass \in BOOLEAN /\ ~(load /\ pass)
      /\ Tok # Free /\ owner[tag] => load \/ pass
  BY <1>4, <1>5, ConstantTypes DEF Loads, Passes
<1> HIDE DEF slots, owner, tag, load, pass, head
(* A request on the line: nothing is looked at.                             *)
<1>9. CASE line # Free
  <2>1. /\ ~nextlsu_bp /\ tag_counter = line.tag /\ tag = tag_counter /\ ~owner[tag]
        /\ ~wait_for_data /\ ~firstlsu
    BY <1>1, <1>5, <1>9, SendOwners DEF owner, IOwner, LineOwnsTag, Looked
  <2>2. ~load /\ ~pass
    BY <1>8, <2>1
  <2>3. /\ line' = line /\ slot' = slots /\ maintain_order' = owner /\ ~nextlsu_bp'
        /\ inbuf' = inbuf /\ tag_counter' = tag_counter /\ ~wait_for_data' /\ ~firstlsu'
    BY <1>2, <1>5, <2>1, <2>2 DEF BpAfter, Fresh
  <2>4. FrontGranted /\ FrontGranted' /\ NextOwner' = NextOwner /\ Waiting' = Waiting
    BY <1>2, <1>9, <2>1, <2>3 DEF FrontGranted, NextOwner, Waiting
  <2>5. /\ n > 0 /\ NextOwner = From(head, n)
        /\ \A i \in Tag : owner[From(head, i)] <=> i >= n
        /\ Len(pending') = n - 1 + Len(Waiting)
        /\ \A j \in 1 .. Len(Waiting) : n - 1 + j > 0 => pending'[n - 1 + j] = Waiting[j]
    BY <1>3, <2>1, <2>4 DEF SentOn, owner, head
  <2>6. \A i \in 1 .. n : Holds(At(i - 1), pending[i])'
    <3>1. \A t, tok : Holds(t, tok)' <=>
            \/ slots[t] = tok
            \/ [tag |-> t, addr |-> tok] \in accepted
            \/ line # Free /\ line = [tag |-> t, addr |-> tok]
      BY <1>2, <2>3 DEF Holds
    <3> QED BY <1>3, <1>6, <3>1 DEF SentOn, slots, head
  <2>7. \A j \in 1 .. Len(Waiting) : n - 1 + j > 0
    BY <1>6, <2>5
  <2>8. Ordered(n)'
    BY <1>6, <2>3, <2>4, <2>5, <2>6, <2>7 DEF Ordered
  <2> QED BY <2>8 DEF OrderKept
<1>10. CASE line = Free
  <2>1. /\ Len(pending') = n + Len(Waiting') /\ Len(Waiting') \in Nat
        /\ \A j \in 1 .. Len(Waiting') : pending'[n + j] = Waiting'[j]
    <3>1. In!RingOK(inbuf) /\ input_port \in Token \cup {Free}
      BY <1>1 DEF IOwner, TypeOK
    <3>2. Waiting' = WaitingIn(Buffer, input_port)
      BY <1>2 DEF Waiting
    <3>3. CASE FrontGranted
      <4>1. nextlsu_bp /\ ~wait_for_data /\ In!Front(inbuf) # Free
        BY <1>1, <1>10, <3>3 DEF FrontGranted, IOwner, Looked
      <4>2. Waiting' = Tail(Waiting)
        BY <3>1, <3>2, <4>1, WaitingReset DEF Buffer, Waiting
      <4>3. Len(Waiting') = Len(Waiting) - 1 /\ \A j \in 1 .. Len(Waiting') : Waiting'[j] = Waiting[j + 1]
        <5>1. Waiting # << >>
          BY <1>7, <3>3, EmptySeq
        <5> QED BY <1>7, <4>2, <5>1, HeadTailProperties
      <4>4. /\ Len(pending') = n - 1 + Len(Waiting)
            /\ \A j \in 1 .. Len(Waiting) : n - 1 + j > 0 => pending'[n - 1 + j] = Waiting[j]
        BY <1>3, <3>3 DEF SentOn
      <4>5. ASSUME NEW j \in 1 .. Len(Waiting') PROVE pending'[n + j] = Waiting'[j]
        <5>1. j + 1 \in 1 .. Len(Waiting) /\ n - 1 + (j + 1) = n + j /\ n + j > 0
          BY <1>6, <1>7, <4>3
        <5> QED BY <4>3, <4>4, <5>1
      <4> QED BY <1>6, <1>7, <3>3, <4>3, <4>4, <4>5
    <3>4. CASE ~FrontGranted
      <4>1. Waiting' = Waiting
        <5>1. nextlsu_bp /\ ~wait_for_data => In!Front(inbuf) = Free
          BY <1>1, <3>4 DEF FrontGranted, IOwner, Looked
        <5> QED BY <3>1, <3>2, <5>1, WaitingReset DEF Buffer, Waiting
      <4>2. /\ Len(pending') = n + Len(Waiting)
            /\ \A j \in 1 .. Len(Waiting) : n + j > 0 => pending'[n + j] = Waiting[j]
        BY <1>3, <3>4 DEF SentOn
      <4> QED BY <1>6, <1>7, <4>1, <4>2
    <3> QED BY <3>3, <3>4
  <2>2. /\ NextOwner = From(head, n)
        /\ \A i \in Tag : owner[From(head, i)] <=> i >= n
        /\ \A i \in 1 .. n : \/ slots[From(head, i - 1)] = pending'[i]
                             \/ [tag |-> From(head, i - 1), addr |-> pending'[i]] \in accepted
    BY <1>3, <1>10 DEF SentOn, owner, head, slots
  <2>3. CASE Tok = Free
    <3>1. nextlsu_bp
      BY <1>1, <1>5, <2>3 DEF Tok, IOwner, Looked
    <3>2. ~load /\ ~pass
      BY <1>8, <2>3, ConstantTypes
    <3>3. /\ line' = line /\ slot' = slots /\ maintain_order' = owner /\ nextlsu_bp'
          /\ tag_counter' = tag_counter /\ wait_for_data' /\ firstlsu' = firstlsu
      <4>1. ~Fresh /\ firstlsu \in BOOLEAN
        BY <1>1, <2>3 DEF Fresh, IOwner, TypeOK
      <4>2. nextlsu_bp'
        BY <1>2, <2>3, <3>1, ConstantTypes DEF BpAfter
      <4> QED BY <1>2, <2>3, <3>1, <3>2, <4>1, <4>2 DEF TagOf, tag
    <3>4. ~FrontGranted' /\ NextOwner' = NextOwner
      BY <3>1, <3>3 DEF FrontGranted, NextOwner
    <3>5. \A i \in 1 .. n : Holds(At(i - 1), pending[i])'
      BY <1>2, <1>6, <2>2, <3>3 DEF Holds
    <3>6. Ordered(n)'
      BY <1>6, <2>1, <2>2, <3>3, <3>4, <3>5 DEF Ordered
    <3> QED BY <3>6 DEF OrderKept
  <2>4. CASE Tok # Free
    <3>1. ~wait_for_data' /\ ~firstlsu'
      BY <1>1, <1>2, <2>4 DEF Fresh, IOwner, Looked
    <3>2. tag = From(head, n)
      <4>1. nextlsu_bp => tag = NextOwner
        BY <2>4 DEF tag, TagOf, Fresh, NextOwner
      <4>2. ~nextlsu_bp => tag = NextOwner
        BY <1>5, <1>10 DEF NextOwner
      <4> QED BY <2>2, <4>1, <4>2
    <3>3. Len(Waiting') > 0 /\ Waiting'[1] = Tok
      <4>1. In!RingOK(Buffer) /\ input_port \in Token \cup {Free} /\ Waiting' = WaitingIn(Buffer, input_port)
        BY <1>1, <1>2, <1>5 DEF IOwner, TypeOK, Waiting
      <4>2. Waiting' \in Seq(Token) /\ Waiting' # << >> /\ Waiting'[1] = Tok
        BY <2>4, <4>1, WaitingTokens DEF Tok
      <4> QED BY <4>2, EmptySeq
    <3>4. CASE owner[tag]
      <4>1. load \/ pass
        BY <1>8, <2>4, <3>4
      <4>2. n \in Tag /\ n + 1 \in 0 .. OutDepth
        <5>1. n # OutDepth
          <6> SUFFICES ASSUME n = OutDepth PROVE FALSE
            OBVIOUS
          <6>1. From(head, n) = From(head, 0) /\ 0 \in Tag
            BY <1>6, FromFacts DEF Tag
          <6> QED BY <1>6, <2>2, <3>2, <3>4, <6>1
        <5> QED BY <1>6, <5>1 DEF Tag
      <4>3. FrontGranted' /\ NextOwner' = From(head, n + 1)
        <5>1. load => line' = [tag |-> tag, addr |-> Tok] /\ line' # Free
          BY <1>2, <1>5, <1>8, FreeIsNoRequest DEF Request
        <5>2. pass => nextlsu_bp'
          BY <1>2 DEF BpAfter
        <5>3. FrontGranted'
          BY <3>1, <4>1, <5>1, <5>2 DEF FrontGranted
        <5>4. NextOwner' = NextTag(tag)
          BY <1>2, <3>1, <4>1, <5>1, <5>2 DEF NextOwner
        <5> QED BY <1>6, <3>2, <4>2, <5>3, <5>4, FromFacts
      <4>4. ASSUME NEW i \in Tag
            PROVE  maintain_order'[From(head, i)] <=> i >= n + 1
        <5>1. maintain_order' = [owner EXCEPT ![tag] = FALSE]
          BY <1>2, <4>1
        <5>2. From(head, i) = tag <=> i = n
          BY <1>6, <3>2, <4>2, FromFacts
        <5>3. From(head, i) \in Tag
          BY <1>6, FromFacts DEF Tag
        <5>4. i \in Int
          BY DEF Tag
        <5> QED BY <1>4, <1>5, <1>6, <2>2, <5>1, <5>2, <5>3, <5>4
      <4>5. ASSUME NEW i \in 1 .. (n + 1)
            PROVE  Holds(At(i - 1), pending[i])'
        <5>1. CASE i = n + 1
          <6>1. pending'[i] = Tok /\ From(head, i - 1) = tag
            BY <1>6, <2>1, <3>2, <3>3, <5>1
          <6>2. load => line' # Free /\ line' = [tag |-> tag, addr |-> Tok]
            BY <1>2, <1>5, <1>8, FreeIsNoRequest DEF Request
          <6>3. pass => slot'[tag] = Tok
            BY <1>2, <1>4, <1>5
          <6>4. At(i - 1)' = tag
            BY <1>6, <6>1
          <6> QED BY <4>1, <6>1, <6>2, <6>3, <6>4 DEF Holds
        <5>2. CASE i # n + 1
          <6>1. i \in 1 .. n /\ i - 1 \in Tag /\ i - 1 # n
            BY <1>6, <4>2, <5>2 DEF Tag
          <6>2. From(head, i - 1) \in Tag /\ From(head, i - 1) # tag
            <7>1. i - 1 \in 0 .. OutDepth
              BY <1>6, <6>1
            <7> QED BY <1>6, <3>2, <4>2, <6>1, <7>1, FromFacts
          <6>3. slot'[From(head, i - 1)] = slots[From(head, i - 1)]
            BY <1>2, <1>4, <6>2
          <6>4. At(i - 1)' = From(head, i - 1)
            BY <1>6
          <6> QED BY <1>2, <2>2, <6>1, <6>3, <6>4 DEF Holds
        <5> QED BY <5>1, <5>2
      <4>6. Ordered(n + 1)'
        <5>1. (n + 1) - 1 = n /\ n + 1 > 0
          BY <1>6
        <5>2. \A i \in Tag : maintain_order'[At(i)'] <=> i >= n + 1
          BY <1>6, <4>4
        <5>3. NextOwner' = At(n + 1)'
          BY <1>6, <4>3
        <5> QED BY <2>1, <4>3, <4>5, <5>1, <5>2, <5>3 DEF Ordered
      <4> QED BY <4>2, <4>6 DEF OrderKept
    <3>5. CASE ~owner[tag]
      <4>1. ~load /\ ~pass
        BY <1>8, <3>5
      <4>2. line' = line /\ slot' = slots /\ maintain_order' = owner /\ ~nextlsu_bp'
        BY <1>2, <2>4, <3>5, <4>1 DEF BpAfter
      <4>3. ~FrontGranted' /\ NextOwner' = From(head, n)
        BY <1>2, <1>10, <3>1, <3>2, <4>2 DEF FrontGranted, NextOwner
      <4>4. \A i \in 1 .. n : Holds(At(i - 1), pending[i])'
        BY <1>2, <1>6, <2>2, <4>2 DEF Holds
      <4>5. Ordered(n)'
        BY <1>6, <2>1, <2>2, <4>2, <4>3, <4>4 DEF Ordered
      <4> QED BY <4>5 DEF OrderKept
    <3> QED BY <3>4, <3>5
  <2> QED BY <2>3, <2>4
<1> QED BY <1>9, <1>10
(* The invariant holds initially.                                           *)
LEMMA InitIInv == Init => IInv
BY InitOwner, InitOrder DEF IInv, IOwner

(* Every step keeps the invariant.                                          *)
LEMMA NextIInv == IInv /\ [Next]_vars => IInv'
<1> SUFFICES ASSUME IInv, [Next]_vars PROVE IInv'
  OBVIOUS
<1>1. IOwner'
  BY NextIOwner DEF IInv, IOwner
<1>2. OrderKept'
  <2>1. CASE UNCHANGED vars
    BY <2>1 DEF vars, array, order, IInv, OrderKept, Ordered, FrontGranted, NextOwner, At, Holds,
                Waiting
  <2> QED
    BY <2>1, ArriveOrder, AcceptOrder, AnswerOrder, SimStep2Order, SimStep1Order DEF Next
<1> QED BY <1>1, <1>2 DEF IInv, IOwner

(* The invariant holds throughout, for any number of slots, any depth of    *)
(* inbuf and any tokens.                                                    *)
THEOREM Invariance == Spec => []IInv
BY InitIInv, NextIInv, PTL DEF Spec

(* Every variable keeps its type; no port or line buffer overflows.         *)
THEOREM TypeCorrect == Spec => []TypeOK
BY Invariance, PTL DEF IInv

(* A slot that is free for a new occupant is empty and nothing is under way *)
(* to it.                                                                   *)
THEOREM OwnersUnique == Spec => []OneOwner
BY Invariance, PTL DEF IInv

(* No answer of the memory meets an occupied slot, where LSEcallback would  *)
(* drop it.                                                                 *)
THEOREM AnswersStored == Spec => []AnswerHasRoom
BY Invariance, PTL DEF IInv

(* The request on the line is never overwritten.                            *)
THEOREM RequestsKept == Spec => RequestKept
<1>1. IInv /\ [Next]_vars => [line # Free => line' \in {line, Free}]_vars
  <2> SUFFICES ASSUME IInv, Next, line # Free PROVE line' \in {line, Free}
    BY DEF vars
  <2>1. IOwner
    BY DEF IInv, IOwner
  <2>2. ASSUME NEW next_bp \in BOOLEAN, SimStep2(next_bp) PROVE line' = line
    <3>1. line' = IF Loads(next_bp) THEN [tag |-> TagOf(Fresh), addr |-> Tok] ELSE line
      BY <2>2, SimStep2Values
    <3>2. ~Freed(next_bp)[line.tag] /\ TagOf(Fresh) = line.tag
      BY <2>1, SendOwners, LookTypes DEF IOwner, LineOwnsTag
    <3> QED BY <3>1, <3>2 DEF Loads
  <2> QED BY <2>2 DEF Next, Arrive, Accept, Answer, SimStep1
<1> QED BY <1>1, Invariance, PTL DEF Spec, RequestKept

(* The tokens leave in the order in which they came, whatever the order in  *)
(* which the memory answers.                                                *)
THEOREM OrderKeptOut == Spec => InOrder
<1>1. IInv /\ [Next]_vars =>
        [output_port' # Free /\ output_port = Free
           => pending # << >> /\ output_port' = Head(pending)]_vars
  <2> SUFFICES ASSUME IInv, Next, output_port' # Free, output_port = Free
               PROVE  pending # << >> /\ output_port' = Head(pending)
    BY DEF vars
  <2>1. PICK k \in 0 .. OutDepth : Ordered(k)
    BY DEF IInv, OrderKept
  <2>2. IOwner
    BY DEF IInv, IOwner
  <2>3. ASSUME NEW next_bp \in BOOLEAN, SimStep2(next_bp)
        PROVE  pending # << >> /\ output_port' = Head(pending)
    <3>1. Sends(next_bp) /\ output_port' = slot[head_ptr]
      BY <2>3, SimStep2Values
    <3>2. pending # << >> /\ slot[head_ptr] = pending[1]
      BY <2>1, <2>2, <3>1, SendsOldest
    <3> QED BY <3>1, <3>2
  <2>4. (\E next_bp \in BOOLEAN : SimStep2(next_bp)) \/ output_port' \in {output_port, Free}
    BY DEF Next, Arrive, Accept, Answer, SimStep1, array
  <2> QED BY <2>3, <2>4
<1> QED BY <1>1, Invariance, PTL DEF Spec, InOrder
=============================================================================
