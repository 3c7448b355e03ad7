--------------------------- MODULE LoopNest_proofs ---------------------------
(***************************************************************************)
(* Proofs about the two nested loop controllers, for all bounds and steps  *)
(* of the loops, any capacity of the body and any pace at which it takes   *)
(* and delivers tokens.                                                    *)
(***************************************************************************)
EXTENDS LoopNest, SequenceTheorems, FiniteSetTheorems, TLAPS

OuterRing == INSTANCE Ring_proofs WITH Depth <- BufferDepth, Token <- Outer!Token
InnerRing == INSTANCE Ring_proofs WITH Depth <- BufferDepth, Token <- Inner!Token

(* The assumptions, read for both controllers.                              *)
LEMMA Assumed ==
  /\ BufferDepth \in Nat \ {0} /\ Capacity \in Nat \ {0}
  /\ {OuterInitial, InnerInitial} \subseteq Nat
  /\ {OuterBound, OuterStep, InnerBound, InnerStep, BreakValue} \subseteq Nat \ {0}
  /\ Free \notin [value : Nat, condition : BOOLEAN, last : BOOLEAN]
  /\ Free \notin Outer!Token /\ Free \notin Inner!Token
  /\ \A ports \in EndPorts : 0 \in ports /\ ports \subseteq 0 .. 4
<1>1. /\ BufferDepth \in Nat \ {0} /\ Capacity \in Nat \ {0}
      /\ {OuterInitial, InnerInitial} \subseteq Nat
      /\ {OuterBound, OuterStep, InnerBound, InnerStep, BreakValue} \subseteq Nat \ {0}
      /\ Free \notin [value : Nat, condition : BOOLEAN, last : BOOLEAN]
      /\ \A ports \in EndPorts : 0 \in ports /\ ports \subseteq 0 .. 4
  BY NestAssumption DEF Outer!LoopAssumption
<1>2. Free \notin Outer!Token
  <2>1. Outer!Token \subseteq [value : Nat, condition : BOOLEAN, last : BOOLEAN]
    BY <1>1 DEF Outer!Token
  <2> QED BY <1>1, <2>1
<1>3. Free \notin Inner!Token
  <2>1. Inner!Token \subseteq [value : Nat, condition : BOOLEAN, last : BOOLEAN]
    BY <1>1 DEF Inner!Token
  <2> QED BY <1>1, <2>1
<1> QED BY <1>1, <1>2, <1>3

(* RegisterFacts, for the buffer of the outer controller.               *)
LEMMA OuterRegister ==
  /\ Outer!B!AtMostOne(Outer!B!EmptyRing) /\ Outer!B!Front(Outer!B!EmptyRing) = Free
  /\ \A r : Outer!B!AtMostOne(r) =>
       /\ r \in Outer!B!RingType /\ Outer!B!Front(r) \in Outer!Token \cup {Free}
       /\ Outer!B!Front(r) # Free => Outer!B!AtMostOne(Outer!B!Reset(r)) /\ Outer!B!Front(Outer!B!Reset(r)) = Free
       /\ Outer!B!Front(r) = Free =>
            /\ Outer!B!NotFull(r)
            /\ \A tok \in Outer!Token :
                 Outer!B!AtMostOne(Outer!B!Input(r, tok)) /\ Outer!B!Front(Outer!B!Input(r, tok)) = tok
       /\ Outer!B!Front(r) # Free /\ BufferDepth = 1 => ~Outer!B!NotFull(r)
<1>1. BufferDepth \in Nat \ {0} /\ Free \notin Outer!Token
  BY Assumed
<1>2. Outer!B!Index = OuterRing!Index
  BY DEF Outer!B!Index,
            OuterRing!Index
<1>3. Outer!B!EmptyRing = OuterRing!EmptyRing /\ Outer!B!RingType = OuterRing!RingType
  BY <1>2 DEF Outer!B!EmptyRing, Outer!B!RingType,
            OuterRing!EmptyRing, OuterRing!RingType
<1>4. \A k : Outer!B!Succ(k) = OuterRing!Succ(k)
  BY DEF Outer!B!Succ,
            OuterRing!Succ
<1>5. ASSUME NEW r
      PROVE  Outer!B!Front(r) = OuterRing!Front(r) /\ (Outer!B!NotFull(r) <=> OuterRing!NotFull(r))
  BY DEF Outer!B!Front, Outer!B!NotFull,
            OuterRing!Front, OuterRing!NotFull
<1>6. ASSUME NEW r PROVE Outer!B!AtMostOne(r) <=> OuterRing!AtMostOne(r)
  <2>1. Outer!B!FlagsAgree(r) <=> OuterRing!FlagsAgree(r)
    BY DEF Outer!B!FlagsAgree,
            OuterRing!FlagsAgree
  <2>2. Outer!B!ValidBitsAgree(r) <=> OuterRing!ValidBitsAgree(r)
    BY <1>2 DEF Outer!B!ValidBitsAgree, Outer!B!Occupied,
            OuterRing!ValidBitsAgree, OuterRing!Occupied
  <2>3. Outer!B!Count(r) = OuterRing!Count(r)
    BY DEF Outer!B!Count,
            OuterRing!Count
  <2> QED BY <1>3, <2>1, <2>2, <2>3 DEF Outer!B!AtMostOne, Outer!B!RingOK,
            OuterRing!AtMostOne, OuterRing!RingOK
<1>7. ASSUME NEW r PROVE Outer!B!Reset(r) = OuterRing!Reset(r)
  <2>1. Outer!B!Front(r) = OuterRing!Front(r) /\ Outer!B!Succ(r.head) = OuterRing!Succ(r.head)
    BY <1>4, <1>5
  <2> QED BY <2>1 DEF Outer!B!Reset, OuterRing!Reset
<1>8. ASSUME NEW r, NEW tok PROVE Outer!B!Input(r, tok) = OuterRing!Input(r, tok)
  BY <1>4, <1>5 DEF Outer!B!Input, Outer!B!Write, Outer!B!CanReceive,
            OuterRing!Input, OuterRing!Write, OuterRing!CanReceive
<1>9. /\ OuterRing!AtMostOne(OuterRing!EmptyRing) /\ OuterRing!Front(OuterRing!EmptyRing) = Free
      /\ \A r : OuterRing!AtMostOne(r) =>
           /\ r \in OuterRing!RingType /\ OuterRing!Front(r) \in Outer!Token \cup {Free}
           /\ OuterRing!Front(r) # Free => OuterRing!AtMostOne(OuterRing!Reset(r)) /\ OuterRing!Front(OuterRing!Reset(r)) = Free
           /\ OuterRing!Front(r) = Free =>
                /\ OuterRing!NotFull(r)
                /\ \A tok \in Outer!Token :
                     OuterRing!AtMostOne(OuterRing!Input(r, tok)) /\ OuterRing!Front(OuterRing!Input(r, tok)) = tok
           /\ OuterRing!Front(r) # Free /\ BufferDepth = 1 => ~OuterRing!NotFull(r)
  BY <1>1, OuterRing!RegisterFacts
<1> QED BY <1>3, <1>5, <1>6, <1>7, <1>8, <1>9

(* RegisterFacts, for the buffer of the inner controller.               *)
LEMMA InnerRegister ==
  /\ Inner!B!AtMostOne(Inner!B!EmptyRing) /\ Inner!B!Front(Inner!B!EmptyRing) = Free
  /\ \A r : Inner!B!AtMostOne(r) =>
       /\ r \in Inner!B!RingType /\ Inner!B!Front(r) \in Inner!Token \cup {Free}
       /\ Inner!B!Front(r) # Free => Inner!B!AtMostOne(Inner!B!Reset(r)) /\ Inner!B!Front(Inner!B!Reset(r)) = Free
       /\ Inner!B!Front(r) = Free =>
            /\ Inner!B!NotFull(r)
            /\ \A tok \in Inner!Token :
                 Inner!B!AtMostOne(Inner!B!Input(r, tok)) /\ Inner!B!Front(Inner!B!Input(r, tok)) = tok
       /\ Inner!B!Front(r) # Free /\ BufferDepth = 1 => ~Inner!B!NotFull(r)
<1>1. BufferDepth \in Nat \ {0} /\ Free \notin Inner!Token
  BY Assumed
<1>2. Inner!B!Index = InnerRing!Index
  BY DEF Inner!B!Index,
            InnerRing!Index
<1>3. Inner!B!EmptyRing = InnerRing!EmptyRing /\ Inner!B!RingType = InnerRing!RingType
  BY <1>2 DEF Inner!B!EmptyRing, Inner!B!RingType,
            InnerRing!EmptyRing, InnerRing!RingType
<1>4. \A k : Inner!B!Succ(k) = InnerRing!Succ(k)
  BY DEF Inner!B!Succ,
            InnerRing!Succ
<1>5. ASSUME NEW r
      PROVE  Inner!B!Front(r) = InnerRing!Front(r) /\ (Inner!B!NotFull(r) <=> InnerRing!NotFull(r))
  BY DEF Inner!B!Front, Inner!B!NotFull,
            InnerRing!Front, InnerRing!NotFull
<1>6. ASSUME NEW r PROVE Inner!B!AtMostOne(r) <=> InnerRing!AtMostOne(r)
  <2>1. Inner!B!FlagsAgree(r) <=> InnerRing!FlagsAgree(r)
    BY DEF Inner!B!FlagsAgree,
            InnerRing!FlagsAgree
  <2>2. Inner!B!ValidBitsAgree(r) <=> InnerRing!ValidBitsAgree(r)
    BY <1>2 DEF Inner!B!ValidBitsAgree, Inner!B!Occupied,
            InnerRing!ValidBitsAgree, InnerRing!Occupied
  <2>3. Inner!B!Count(r) = InnerRing!Count(r)
    BY DEF Inner!B!Count,
            InnerRing!Count
  <2> QED BY <1>3, <2>1, <2>2, <2>3 DEF Inner!B!AtMostOne, Inner!B!RingOK,
            InnerRing!AtMostOne, InnerRing!RingOK
<1>7. ASSUME NEW r PROVE Inner!B!Reset(r) = InnerRing!Reset(r)
  <2>1. Inner!B!Front(r) = InnerRing!Front(r) /\ Inner!B!Succ(r.head) = InnerRing!Succ(r.head)
    BY <1>4, <1>5
  <2> QED BY <2>1 DEF Inner!B!Reset, InnerRing!Reset
<1>8. ASSUME NEW r, NEW tok PROVE Inner!B!Input(r, tok) = InnerRing!Input(r, tok)
  BY <1>4, <1>5 DEF Inner!B!Input, Inner!B!Write, Inner!B!CanReceive,
            InnerRing!Input, InnerRing!Write, InnerRing!CanReceive
<1>9. /\ InnerRing!AtMostOne(InnerRing!EmptyRing) /\ InnerRing!Front(InnerRing!EmptyRing) = Free
      /\ \A r : InnerRing!AtMostOne(r) =>
           /\ r \in InnerRing!RingType /\ InnerRing!Front(r) \in Inner!Token \cup {Free}
           /\ InnerRing!Front(r) # Free => InnerRing!AtMostOne(InnerRing!Reset(r)) /\ InnerRing!Front(InnerRing!Reset(r)) = Free
           /\ InnerRing!Front(r) = Free =>
                /\ InnerRing!NotFull(r)
                /\ \A tok \in Inner!Token :
                     InnerRing!AtMostOne(InnerRing!Input(r, tok)) /\ InnerRing!Front(InnerRing!Input(r, tok)) = tok
           /\ InnerRing!Front(r) # Free /\ BufferDepth = 1 => ~InnerRing!NotFull(r)
  BY <1>1, InnerRing!RegisterFacts
<1> QED BY <1>3, <1>5, <1>6, <1>7, <1>8, <1>9
-----------------------------------------------------------------------------
(* What an update of the outer controller makes of each member.                *)
LEMMA OuterMembers ==
  ASSUME NEW c \in Outer!StateType, NEW bp, NEW tok,
         NEW out, out = Outer!BufferOut(c, bp),
         NEW s, s = Outer!SimStep3(c, bp),
         NEW mux, mux = Outer!Mux(s, out),
         NEW u, u = Outer!Update(c, bp, tok)
  PROVE  /\ s.reg0 = Outer!RegAfter(c, out) /\ s.first_loop = c.first_loop
         /\ s.buffer = IF out = Free THEN c.buffer ELSE Outer!B!Reset(c.buffer)
         /\ s.df_cnt = c.df_cnt /\ s.break_cnt = c.break_cnt /\ s.end_reg = c.end_reg
         /\ u = [reg0       |-> IF tok = Free THEN s.reg0 ELSE tok,
                 first_loop |-> tok # Free \/ (c.first_loop /\ ~(mux # Free /\ Outer!B!NotFull(s.buffer))),
                 buffer     |-> IF mux # Free /\ Outer!B!NotFull(s.buffer)
                                THEN Outer!B!Input(s.buffer, mux) ELSE s.buffer,
                 end_reg    |-> c.end_reg,
                 end_flag   |-> [e \in Outer!DfgEnd |-> Outer!EndFlags(c)[e] /\ ~Outer!EndSignal(c, bp)],
                 df_cnt     |-> c.df_cnt,
                 break_cnt  |-> c.break_cnt,
                 last_flag  |-> Outer!LastFlag(c, s.reg0) /\ ~Outer!EndSignal(c, bp)]
<1> DEFINE w == Outer!SimStep2(s, out)
           stored == mux # Free /\ Outer!B!NotFull(s.buffer)
<1>1. c = [reg0 |-> c.reg0, first_loop |-> c.first_loop, buffer |-> c.buffer, end_reg |-> c.end_reg,
           end_flag |-> c.end_flag, df_cnt |-> c.df_cnt, break_cnt |-> c.break_cnt,
           last_flag |-> c.last_flag]
  BY DEF Outer!StateType
<1>2. s = [reg0 |-> Outer!RegAfter(c, out), first_loop |-> c.first_loop,
           buffer |-> IF out = Free THEN c.buffer ELSE Outer!B!Reset(c.buffer),
           end_reg |-> c.end_reg,
           end_flag |-> [e \in Outer!DfgEnd |-> Outer!EndFlags(c)[e] /\ ~Outer!EndSignal(c, bp)],
           df_cnt |-> c.df_cnt, break_cnt |-> c.break_cnt,
           last_flag |-> Outer!LastFlag(c, Outer!RegAfter(c, out)) /\ ~Outer!EndSignal(c, bp)]
  BY <1>1 DEF Outer!SimStep3
<1>3. /\ s.reg0 = Outer!RegAfter(c, out) /\ s.first_loop = c.first_loop
      /\ s.buffer = IF out = Free THEN c.buffer ELSE Outer!B!Reset(c.buffer)
      /\ s.end_flag = [e \in Outer!DfgEnd |-> Outer!EndFlags(c)[e] /\ ~Outer!EndSignal(c, bp)]
      /\ s.df_cnt = c.df_cnt /\ s.break_cnt = c.break_cnt /\ s.end_reg = c.end_reg
      /\ s.last_flag = (Outer!LastFlag(c, s.reg0) /\ ~Outer!EndSignal(c, bp))
  BY <1>2
<1>4. w = [reg0 |-> s.reg0, first_loop |-> s.first_loop /\ ~stored,
           buffer |-> IF stored THEN Outer!B!Input(s.buffer, mux) ELSE s.buffer,
           end_reg |-> s.end_reg, end_flag |-> s.end_flag,
           df_cnt |-> s.df_cnt, break_cnt |-> s.break_cnt, last_flag |-> s.last_flag]
  <2>1. s = [reg0 |-> s.reg0, first_loop |-> s.first_loop, buffer |-> s.buffer, end_reg |-> s.end_reg,
             end_flag |-> s.end_flag, df_cnt |-> s.df_cnt, break_cnt |-> s.break_cnt,
             last_flag |-> s.last_flag]
    BY <1>2
  <2>2. w = [s EXCEPT !.buffer = IF stored THEN Outer!B!Input(s.buffer, mux) ELSE s.buffer,
                      !.first_loop = s.first_loop /\ ~stored]
    BY <2>1 DEF Outer!SimStep2
  <2> HIDE DEF w, stored
  <2> QED BY <2>1, <2>2
<1>5. u = Outer!RegInput(w, tok)
  BY DEF Outer!Update
<1> HIDE DEF w, stored
<1>6. u = [reg0 |-> IF tok = Free THEN w.reg0 ELSE tok,
           first_loop |-> IF tok = Free THEN w.first_loop ELSE TRUE, buffer |-> w.buffer,
           end_reg |-> w.end_reg, end_flag |-> w.end_flag,
           df_cnt |-> w.df_cnt,
           break_cnt |-> w.break_cnt,
           last_flag |-> w.last_flag]
  BY <1>4, <1>5 DEF Outer!RegInput
<1> QED BY <1>3, <1>4, <1>6 DEF stored

(* What an update of the inner controller makes of each member.                *)
LEMMA InnerMembers ==
  ASSUME NEW c \in Inner!StateType, NEW bp, NEW tok,
         NEW out, out = Inner!BufferOut(c, bp),
         NEW s, s = Inner!SimStep3(c, bp),
         NEW mux, mux = Inner!Mux(s, out),
         NEW u, u = Inner!Update(c, bp, tok)
  PROVE  /\ s.reg0 = Inner!RegAfter(c, out) /\ s.first_loop = c.first_loop
         /\ s.buffer = IF out = Free THEN c.buffer ELSE Inner!B!Reset(c.buffer)
         /\ s.df_cnt = c.df_cnt /\ s.break_cnt = c.break_cnt /\ s.end_reg = c.end_reg
         /\ u = [reg0       |-> IF tok = Free THEN s.reg0 ELSE tok,
                 first_loop |-> tok # Free \/ (c.first_loop /\ ~(mux # Free /\ Inner!B!NotFull(s.buffer))),
                 buffer     |-> IF mux # Free /\ Inner!B!NotFull(s.buffer)
                                THEN Inner!B!Input(s.buffer, mux) ELSE s.buffer,
                 end_reg    |-> c.end_reg,
                 end_flag   |-> [e \in Inner!DfgEnd |-> Inner!EndFlags(c)[e] /\ ~Inner!EndSignal(c, bp)],
                 df_cnt     |-> IF tok = Free THEN c.df_cnt ELSE c.df_cnt + 1,
                 break_cnt  |-> IF tok = Free THEN c.break_cnt ELSE c.break_cnt + 1,
                 last_flag  |-> Inner!LastFlag(c, s.reg0) /\ ~Inner!EndSignal(c, bp)]
<1> DEFINE w == Inner!SimStep2(s, out)
           stored == mux # Free /\ Inner!B!NotFull(s.buffer)
<1>1. c = [reg0 |-> c.reg0, first_loop |-> c.first_loop, buffer |-> c.buffer, end_reg |-> c.end_reg,
           end_flag |-> c.end_flag, df_cnt |-> c.df_cnt, break_cnt |-> c.break_cnt,
           last_flag |-> c.last_flag]
  BY DEF Inner!StateType
<1>2. s = [reg0 |-> Inner!RegAfter(c, out), first_loop |-> c.first_loop,
           buffer |-> IF out = Free THEN c.buffer ELSE Inner!B!Reset(c.buffer),
           end_reg |-> c.end_reg,
           end_flag |-> [e \in Inner!DfgEnd |-> Inner!EndFlags(c)[e] /\ ~Inner!EndSignal(c, bp)],
           df_cnt |-> c.df_cnt, break_cnt |-> c.break_cnt,
           last_flag |-> Inner!LastFlag(c, Inner!RegAfter(c, out)) /\ ~Inner!EndSignal(c, bp)]
  BY <1>1 DEF Inner!SimStep3
<1>3. /\ s.reg0 = Inner!RegAfter(c, out) /\ s.first_loop = c.first_loop
      /\ s.buffer = IF out = Free THEN c.buffer ELSE Inner!B!Reset(c.buffer)
      /\ s.end_flag = [e \in Inner!DfgEnd |-> Inner!EndFlags(c)[e] /\ ~Inner!EndSignal(c, bp)]
      /\ s.df_cnt = c.df_cnt /\ s.break_cnt = c.break_cnt /\ s.end_reg = c.end_reg
      /\ s.last_flag = (Inner!LastFlag(c, s.reg0) /\ ~Inner!EndSignal(c, bp))
  BY <1>2
<1>4. w = [reg0 |-> s.reg0, first_loop |-> s.first_loop /\ ~stored,
           buffer |-> IF stored THEN Inner!B!Input(s.buffer, mux) ELSE s.buffer,
           end_reg |-> s.end_reg, end_flag |-> s.end_flag,
           df_cnt |-> s.df_cnt, break_cnt |-> s.break_cnt, last_flag |-> s.last_flag]
  <2>1. s = [reg0 |-> s.reg0, first_loop |-> s.first_loop, buffer |-> s.buffer, end_reg |-> s.end_reg,
             end_flag |-> s.end_flag, df_cnt |-> s.df_cnt, break_cnt |-> s.break_cnt,
             last_flag |-> s.last_flag]
    BY <1>2
  <2>2. w = [s EXCEPT !.buffer = IF stored THEN Inner!B!Input(s.buffer, mux) ELSE s.buffer,
                      !.first_loop = s.first_loop /\ ~stored]
    BY <2>1 DEF Inner!SimStep2
  <2> HIDE DEF w, stored
  <2> QED BY <2>1, <2>2
<1>5. u = Inner!RegInput(w, tok)
  BY DEF Inner!Update
<1> HIDE DEF w, stored
<1>6. u = [reg0 |-> IF tok = Free THEN w.reg0 ELSE tok,
           first_loop |-> IF tok = Free THEN w.first_loop ELSE TRUE, buffer |-> w.buffer,
           end_reg |-> w.end_reg, end_flag |-> w.end_flag,
           df_cnt |-> IF tok = Free THEN w.df_cnt ELSE w.df_cnt + 1,
           break_cnt |-> IF tok = Free THEN w.break_cnt ELSE w.break_cnt + 1,
           last_flag |-> w.last_flag]
  BY <1>4, <1>5 DEF Inner!RegInput
<1> QED BY <1>3, <1>4, <1>6 DEF stored
-----------------------------------------------------------------------------
(* The ports of the outer controller, and its values.                       *)
LEMMA OuterConstants ==
  /\ Outer!DfgEnd = {0} /\ Outer!BreakPort = {}
  /\ Begin \in [value : Nat, condition : BOOLEAN, last : BOOLEAN] /\ Begin # Free
  /\ Outer!First(Begin) = [value |-> OuterInitial, condition |-> TRUE, last |-> FALSE]
  /\ \A c : ~Outer!BreakEnd(c)
  /\ \A v \in 0 .. (OuterInitial + OuterBound + OuterStep) :
       [value |-> v, condition |-> TRUE, last |-> FALSE] \in Outer!Token
  /\ \A v \in Nat :
       LET tok == [value |-> v, condition |-> TRUE, last |-> FALSE]
       IN  /\ tok # Free /\ (Outer!Over(tok) <=> v >= OuterBound)
           /\ Outer!Iteration(tok) = OuterToken(v)
           /\ v < OuterBound => /\ v + OuterStep \in 0 .. (OuterInitial + OuterBound + OuterStep)
                                /\ Outer!StepOut(tok) =
                                     [value |-> v + OuterStep, condition |-> TRUE, last |-> FALSE]
           /\ OuterToken(v) # Free
           /\ OuterToken(v) \in [value : Nat, condition : BOOLEAN, last : BOOLEAN]
  /\ Outer!StepOut(Free) = Free /\ ~Outer!Over(Free) /\ Outer!Iteration(Free) = Free
<1>1. Outer!DfgEnd = {0} /\ Outer!BreakPort = {}
  BY DEF Outer!DfgEnd, Outer!BreakPort
<1> DEFINE AnyToken == [value : Nat, condition : BOOLEAN, last : BOOLEAN]
<1>0. /\ Free \notin AnyToken
      /\ OuterInitial \in Nat /\ OuterBound \in Nat \ {0} /\ OuterStep \in Nat \ {0}
  BY Assumed
<1>2. /\ Begin \in AnyToken /\ Begin # Free
      /\ Outer!First(Begin) = [value |-> OuterInitial, condition |-> TRUE, last |-> FALSE]
  <2>1. Begin \in AnyToken
    BY DEF Begin
  <2>2. Outer!First(Begin) = [value |-> OuterInitial, condition |-> TRUE, last |-> FALSE]
    BY DEF Begin, Outer!First
  <2> HIDE DEF AnyToken
  <2> QED BY <1>0, <2>1, <2>2
<1>3. \A c : ~Outer!BreakEnd(c)
  BY <1>1 DEF Outer!BreakEnd
<1>4. \A v \in 0 .. (OuterInitial + OuterBound + OuterStep) :
        [value |-> v, condition |-> TRUE, last |-> FALSE] \in Outer!Token
  BY DEF Outer!Token
<1>5. ASSUME NEW v \in Nat, NEW tok, tok = [value |-> v, condition |-> TRUE, last |-> FALSE]
      PROVE  /\ tok # Free /\ (Outer!Over(tok) <=> v >= OuterBound)
             /\ Outer!Iteration(tok) = OuterToken(v)
             /\ v < OuterBound => /\ v + OuterStep \in 0 .. (OuterInitial + OuterBound + OuterStep)
                                  /\ Outer!StepOut(tok) =
                                       [value |-> v + OuterStep, condition |-> TRUE, last |-> FALSE]
             /\ OuterToken(v) # Free
             /\ OuterToken(v) \in [value : Nat, condition : BOOLEAN, last : BOOLEAN]
  <2>1. tok # Free /\ tok \in AnyToken
    <3>1. tok \in AnyToken
      BY <1>5
    <3> HIDE DEF AnyToken
    <3> QED BY <1>0, <3>1
  <2>2. Outer!Over(tok) <=> v >= OuterBound
    BY <1>5, <2>1 DEF Outer!Over
  <2>3. Outer!Iteration(tok) = OuterToken(v)
    <3>1. Outer!Iteration(tok) = [tok EXCEPT !.last = Outer!Over(tok)]
      BY <2>1 DEF Outer!Iteration
    <3>2. Outer!Over(tok) = (v >= OuterBound)
      BY <2>1, <2>2 DEF Outer!Over
    <3> HIDE DEF AnyToken
    <3> QED BY <1>5, <3>1, <3>2 DEF OuterToken
  <2>4. ASSUME v < OuterBound
        PROVE  /\ v + OuterStep \in 0 .. (OuterInitial + OuterBound + OuterStep)
               /\ Outer!StepOut(tok) = [value |-> v + OuterStep, condition |-> TRUE, last |-> FALSE]
    <3>1. ~Outer!Over(tok)
      BY <2>2, <2>4, Assumed
    <3>2. Outer!StepOut(tok) = [value |-> v + OuterStep, condition |-> TRUE, last |-> FALSE]
      BY <1>5, <2>1, <3>1 DEF Outer!StepOut, Outer!StepValue
    <3> QED BY <2>4, <3>2, Assumed
  <2>5. OuterToken(v) # Free /\ OuterToken(v) \in AnyToken
    <3>1. OuterToken(v) \in AnyToken
      BY <1>0 DEF OuterToken
    <3> HIDE DEF AnyToken
    <3> QED BY <1>0, <3>1
  <2> QED BY <2>1, <2>2, <2>3, <2>4, <2>5
<1>6. Outer!StepOut(Free) = Free /\ ~Outer!Over(Free) /\ Outer!Iteration(Free) = Free
  BY DEF Outer!StepOut, Outer!Over, Outer!Iteration
<1> QED BY <1>1, <1>2, <1>3, <1>4, <1>5, <1>6

(* The outer controller in its turn: what it sends and what it keeps.       *)
LEMMA OuterTurn ==
  ASSUME IInv, OuterUpdate
  PROVE  /\ pc = "outer" /\ pc' = "inner" /\ started' = TRUE
         /\ UNCHANGED <<Path, inner, outer_bp, inner_bp, wire, path, passed, i, j, over>>
         /\ iteration' # Free => inner.reg0 = Free /\ ~over /\ iteration' = OuterToken(i)
         /\ iteration' \in Outer!Token \cup {Free}
         /\ OuterOK'
         /\ outer'.reg0 \in {Free, Begin} /\ outer'.first_loop \in BOOLEAN
<1> DEFINE c     == outer
           front == Outer!B!Front(outer.buffer)
           tok   == IF started THEN Free ELSE Begin
           out   == Outer!BufferOut(outer, outer_bp)
           s     == Outer!SimStep3(outer, outer_bp)
           mux   == Outer!Mux(s, out)
<1>1. /\ pc = "outer" /\ pc' = "inner" /\ started' = TRUE
      /\ outer' = Outer!Update(outer, outer_bp, tok) /\ iteration' = Outer!Iteration(out)
      /\ UNCHANGED <<Path, inner, outer_bp, inner_bp, wire, path, passed, i, j, over>>
  BY DEF OuterUpdate, history
<1>2. /\ outer \in Outer!StateType /\ started \in BOOLEAN
      /\ i \in Nat /\ over \in BOOLEAN /\ iteration = Free
      /\ Outer!B!AtMostOne(outer.buffer) /\ outer.df_cnt = 0
      /\ (Busy <=> inner.reg0 # Free)
  BY <1>1 DEF IInv, TypeOK, PhaseOK, OuterOK, Busy
<1>3. out = IF Busy THEN Free ELSE front
  BY <1>1, <1>2 DEF Outer!BufferOut, Outer!BpOk, IInv, TypeOK, PhaseOK
<1>4. /\ s.reg0 = IF Outer!Over(out) THEN Free ELSE outer.reg0
      /\ s.first_loop = outer.first_loop
      /\ s.buffer = IF out = Free THEN outer.buffer ELSE Outer!B!Reset(outer.buffer)
      /\ outer'.reg0 = IF tok = Free THEN s.reg0 ELSE tok
      /\ outer'.first_loop = (tok # Free \/ (outer.first_loop /\ ~(mux # Free /\ Outer!B!NotFull(s.buffer))))
      /\ outer'.buffer = IF mux # Free /\ Outer!B!NotFull(s.buffer)
                         THEN Outer!B!Input(s.buffer, mux) ELSE s.buffer
      /\ outer'.df_cnt = outer.df_cnt
  BY <1>1, <1>2, OuterMembers DEF Outer!RegAfter
<1>5. mux = IF s.reg0 = Free THEN Free
            ELSE IF outer.first_loop THEN Outer!First(s.reg0) ELSE Outer!StepOut(out)
  BY <1>4, OuterConstants DEF Outer!Mux
<1>6. Busy' <=> Busy \/ iteration' # Free
  BY <1>1, <1>2 DEF Busy
<1> HIDE DEF out, s, mux
<1> DEFINE Goal ==
                   /\ iteration' # Free => inner.reg0 = Free /\ ~over /\ iteration' = OuterToken(i)
                   /\ iteration' \in Outer!Token \cup {Free}
                   /\ OuterOK'
                   /\ outer'.reg0 \in {Free, Begin} /\ outer'.first_loop \in BOOLEAN
<1> SUFFICES Goal
  BY <1>1
<1>7. CASE ~started
  <2>1. outer.reg0 = Free /\ front = Free /\ i = OuterInitial /\ ~Busy /\ ~over
    BY <1>7 DEF IInv, OuterOK
  <2>2. out = Free /\ s.reg0 = Free /\ mux = Free
    BY <1>3, <1>4, <1>5, <2>1
  <2>3. /\ outer'.reg0 = Begin /\ outer'.first_loop = TRUE /\ outer'.buffer = outer.buffer
        /\ iteration' = Free
    BY <1>1, <1>4, <1>7, <2>2, OuterConstants
  <2> QED BY <1>1, <1>2, <1>4, <1>6, <2>1, <2>3, OuterConstants DEF OuterOK
<1>8. CASE started /\ outer.reg0 = Free
  <2>1. front = Free /\ ((Busy /\ i >= OuterBound) \/ over)
    BY <1>8 DEF IInv, OuterOK
  <2>2. out = Free /\ s.reg0 = Free /\ mux = Free
    BY <1>3, <1>4, <1>5, <1>8, <2>1
  <2>3. /\ outer'.reg0 = Free /\ outer'.buffer = outer.buffer /\ iteration' = Free
        /\ outer'.first_loop = outer.first_loop
    BY <1>1, <1>2, <1>4, <1>8, <2>2, OuterConstants DEF Outer!StateType
  <2> QED BY <1>1, <1>2, <1>4, <1>6, <1>8, <2>1, <2>3 DEF OuterOK, Outer!StateType
<1>9. CASE started /\ outer.reg0 # Free /\ outer.first_loop
  <2>1. outer.reg0 = Begin /\ ~over /\ front = Free /\ i = OuterInitial /\ ~Busy
    BY <1>9 DEF IInv, OuterOK
  <2>2. out = Free /\ s.reg0 = Begin /\ s.buffer = outer.buffer
    BY <1>3, <1>4, <2>1, OuterConstants
  <2>3. mux = [value |-> OuterInitial, condition |-> TRUE, last |-> FALSE] /\ mux \in Outer!Token /\ mux # Free
    BY <1>5, <1>9, <2>2, OuterConstants, Assumed
  <2>4. /\ Outer!B!NotFull(outer.buffer)
        /\ Outer!B!AtMostOne(Outer!B!Input(outer.buffer, mux))
        /\ Outer!B!Front(Outer!B!Input(outer.buffer, mux)) = mux
    BY <1>2, <2>1, <2>3, OuterRegister
  <2>5. /\ outer'.reg0 = Begin /\ outer'.first_loop = FALSE /\ iteration' = Free
        /\ Outer!B!AtMostOne(outer'.buffer) /\ Outer!B!Front(outer'.buffer) = mux
    BY <1>1, <1>4, <1>9, <2>2, <2>3, <2>4, OuterConstants
  <2>6. OuterValue' = mux /\ ~Busy'
    BY <1>1, <1>6, <2>1, <2>3, <2>5 DEF OuterValue
  <2> QED BY <1>1, <1>2, <1>4, <2>1, <2>5, <2>6, OuterConstants DEF OuterOK
<1>10. CASE started /\ outer.reg0 # Free /\ ~outer.first_loop /\ Busy
  <2>1. outer.reg0 = Begin /\ ~over /\ front = OuterValue /\ i < OuterBound
    BY <1>10 DEF IInv, OuterOK
  <2>2. out = Free /\ s.reg0 = Begin /\ s.buffer = outer.buffer /\ mux = Free
    BY <1>3, <1>4, <1>5, <1>10, <2>1, OuterConstants
  <2>3. /\ outer'.reg0 = Begin /\ outer'.first_loop = FALSE /\ iteration' = Free
        /\ outer'.buffer = outer.buffer
    BY <1>1, <1>4, <1>10, <2>2, OuterConstants
  <2>4. OuterValue' = OuterValue /\ Busy'
    BY <1>1, <1>6, <1>10, <2>3 DEF OuterValue
  <2> QED BY <1>1, <1>2, <1>4, <2>1, <2>3, <2>4, OuterConstants DEF OuterOK
<1>11. CASE started /\ outer.reg0 # Free /\ ~outer.first_loop /\ ~Busy
  <2>1. /\ outer.reg0 = Begin /\ ~over
        /\ front = [value |-> i, condition |-> TRUE, last |-> FALSE] /\ out = front
    BY <1>3, <1>11 DEF IInv, OuterOK, OuterValue
  <2>2. /\ front # Free /\ iteration' = OuterToken(i) /\ iteration' # Free
        /\ (Outer!Over(out) <=> i >= OuterBound)
    BY <1>1, <1>2, <2>1, OuterConstants
  <2>3. /\ s.buffer = Outer!B!Reset(outer.buffer)
        /\ Outer!B!AtMostOne(s.buffer) /\ Outer!B!Front(s.buffer) = Free
    BY <1>2, <1>4, <2>1, <2>2, OuterRegister
  <2>4. Busy' /\ inner.reg0 = Free
    BY <1>2, <1>6, <1>11, <2>2
  <2>5. iteration' \in Outer!Token
    <3>1. front \in Outer!Token \cup {Free}
      BY <1>2, OuterRegister
    <3>2. i \in 0 .. (OuterInitial + OuterBound + OuterStep)
      BY <2>1, <2>2, <3>1 DEF Outer!Token
    <3> QED BY <2>2, <3>2 DEF OuterToken, Outer!Token
  <2>6. CASE i >= OuterBound
    <3>1. s.reg0 = Free /\ mux = Free
      BY <1>4, <1>5, <2>2, <2>6
    <3>2. outer'.reg0 = Free /\ outer'.buffer = s.buffer /\ outer'.first_loop = FALSE
      BY <1>4, <1>11, <3>1
    <3> QED BY <1>1, <1>2, <1>4, <2>1, <2>2, <2>3, <2>4, <2>5, <2>6, <3>2 DEF OuterOK
  <2>7. CASE i < OuterBound
    <3>1. s.reg0 = Begin /\ mux = [value |-> i + OuterStep, condition |-> TRUE, last |-> FALSE]
      BY <1>2, <1>4, <1>5, <1>11, <2>1, <2>2, <2>7, OuterConstants, Assumed
    <3>2. mux \in Outer!Token /\ mux # Free
      BY <1>2, <2>7, <3>1, OuterConstants, Assumed
    <3>3. /\ outer'.reg0 = Begin /\ outer'.first_loop = FALSE
          /\ Outer!B!AtMostOne(outer'.buffer) /\ Outer!B!Front(outer'.buffer) = mux
      BY <1>4, <1>11, <2>3, <3>1, <3>2, OuterRegister
    <3>4. OuterValue' = mux
      BY <1>1, <2>4, <3>1 DEF OuterValue
    <3>5. outer'.reg0 # Free /\ ~over' /\ i' < OuterBound /\ started'
      BY <1>1, <2>1, <2>7, <3>3, OuterConstants
    <3>6. outer'.df_cnt = 0
      BY <1>2, <1>4
    <3>7. OuterOK'
      BY <3>3, <3>4, <3>5, <3>6 DEF OuterOK
    <3> QED BY <2>1, <2>2, <2>4, <2>5, <3>3, <3>7
  <2> QED BY <1>2, <2>6, <2>7, Assumed
<1> QED BY <1>2, <1>7, <1>8, <1>9, <1>10, <1>11

(* The cycle of the outer controller keeps the invariant: the end that it   *)
(* sees has been there before.                                              *)
LEMMA OuterUpdateIInv == IInv /\ OuterUpdate => IInv'
<1> SUFFICES ASSUME IInv, OuterUpdate PROVE IInv'
  OBVIOUS
<1> DEFINE tok == IF started THEN Free ELSE Begin
<1>1. /\ pc = "outer" /\ pc' = "inner" /\ started' = TRUE
      /\ Path' = Path /\ inner' = inner /\ outer_bp' = outer_bp /\ inner_bp' = inner_bp
      /\ wire' = wire /\ path' = path /\ passed' = passed /\ i' = i /\ j' = j /\ over' = over
      /\ iteration' # Free => inner.reg0 = Free /\ ~over /\ iteration' = OuterToken(i)
      /\ iteration' \in Outer!Token \cup {Free}
      /\ OuterOK'
      /\ outer'.reg0 \in {Free, Begin} /\ outer'.first_loop \in BOOLEAN
  BY OuterTurn
<1>2. /\ outer' = Outer!Update(outer, outer_bp, tok)
      /\ task_finish' = Outer!EndSignal(outer, outer_bp)
  BY DEF OuterUpdate
<1>3. TypeOK /\ iteration = Free /\ wire = Free
  BY <1>1 DEF IInv, PhaseOK
<1>4. /\ outer' = [reg0 |-> outer'.reg0, first_loop |-> outer'.first_loop, buffer |-> outer'.buffer,
                   end_reg |-> outer'.end_reg, end_flag |-> outer'.end_flag, df_cnt |-> outer'.df_cnt,
                   break_cnt |-> outer'.break_cnt, last_flag |-> outer'.last_flag]
      /\ outer'.end_reg = outer.end_reg
      /\ outer'.end_flag =
           [e \in Outer!DfgEnd |-> Outer!EndFlags(outer)[e] /\ ~Outer!EndSignal(outer, outer_bp)]
      /\ outer'.break_cnt = outer.break_cnt
      /\ outer'.last_flag \in BOOLEAN
  <2> DEFINE s   == Outer!SimStep3(outer, outer_bp)
             out == Outer!BufferOut(outer, outer_bp)
             mux == Outer!Mux(s, out)
  <2>1. outer \in Outer!StateType
    BY <1>3 DEF TypeOK
  <2>2. outer' = [reg0       |-> IF tok = Free THEN s.reg0 ELSE tok,
                  first_loop |-> tok # Free \/ (outer.first_loop /\ ~(mux # Free /\ Outer!B!NotFull(s.buffer))),
                  buffer     |-> IF mux # Free /\ Outer!B!NotFull(s.buffer)
                                 THEN Outer!B!Input(s.buffer, mux) ELSE s.buffer,
                  end_reg    |-> outer.end_reg,
                  end_flag   |-> [e \in Outer!DfgEnd |-> Outer!EndFlags(outer)[e]
                                                         /\ ~Outer!EndSignal(outer, outer_bp)],
                  df_cnt     |-> outer.df_cnt,
                  break_cnt  |-> outer.break_cnt,
                  last_flag  |-> Outer!LastFlag(outer, s.reg0) /\ ~Outer!EndSignal(outer, outer_bp)]
    BY <1>2, <2>1, OuterMembers
  <2> HIDE DEF s, out, mux, tok
  <2> QED BY <2>2
<1>5. TypeOK'
  <2>1. /\ outer'.reg0 \in [value : Nat, condition : BOOLEAN, last : BOOLEAN] \cup {Free}
        /\ outer'.buffer \in Outer!B!RingType /\ outer'.df_cnt \in Nat
    BY <1>1, OuterConstants, OuterRegister DEF OuterOK
  <2>2. outer'.end_flag \in [Outer!DfgEnd -> BOOLEAN] /\ Outer!EndSignal(outer, outer_bp) \in BOOLEAN
    BY <1>4 DEF Outer!EndSignal
  <2>3. outer' \in Outer!StateType
    BY <1>1, <1>3, <1>4, <2>1, <2>2 DEF TypeOK, Outer!StateType
  <2>4. inner' \in Inner!StateType'
    BY <1>1, <1>3 DEF TypeOK, Inner!StateType, Inner!DfgEnd
  <2>5. task_finish' \in BOOLEAN
    BY <1>2, <2>2
  <2> QED BY <1>1, <1>3, <2>3, <2>4, <2>5 DEF TypeOK
<1>6. PhaseOK'
  BY <1>1, <1>3 DEF PhaseOK
<1>7. InnerOK'
  BY <1>1 DEF IInv, InnerOK, InnerValue, Broken, OuterToken
<1>8. CountsOK'
  BY <1>1 DEF IInv, CountsOK, UnderWay
<1>9. RoomOK'
  BY <1>1 DEF IInv, RoomOK
<1>10. EndOK'
  <2>1. Outer!EndFlags(outer)[0] <=> outer.end_flag[0] \/ outer.end_reg[0].last
    BY OuterConstants DEF Outer!EndFlags
  <2>2. Outer!EndSignal(outer, outer_bp) => Outer!EndFlags(outer)[0]
    BY OuterConstants DEF Outer!EndSignal
  <2>3. outer'.end_reg[0].last \/ outer'.end_flag[0] \/ task_finish' => Finished
    BY <1>2, <1>4, <2>1, <2>2, OuterConstants DEF IInv, EndOK
  <2>4. Finished' <=> Finished
    BY <1>1 DEF Finished
  <2> QED BY <1>1, <2>3, <2>4 DEF IInv, EndOK
<1>11. i' \in Nat /\ j' \in Nat /\ over' \in BOOLEAN
  BY <1>1 DEF IInv
<1> QED BY <1>1, <1>5, <1>6, <1>7, <1>8, <1>9, <1>10, <1>11 DEF IInv

(* The ports of the inner controller, and its values.                       *)
LEMMA InnerConstants ==
  /\ Path \in EndPorts => Inner!DfgEnd \subseteq Path /\ 0 \in Inner!DfgEnd /\ 0 \in Path
                          /\ Path \subseteq 0 .. 4 /\ (Inner!BreakPort # {} => 4 \in Path)
  /\ \A v \in Nat, b, l \in BOOLEAN : [value |-> v, condition |-> b, last |-> l] # Free
  /\ \A tok \in [value : Nat, condition : BOOLEAN, last : BOOLEAN] :
       /\ tok # Free /\ (Inner!Over(tok) <=> tok.last \/ tok.value >= InnerBound)
       /\ Inner!Iteration(tok) = [value |-> tok.value, condition |-> tok.condition,
                                  last |-> tok.last \/ tok.value >= InnerBound]
       /\ ~tok.last /\ tok.value < InnerBound =>
            Inner!StepOut(tok) = [value |-> tok.value + InnerStep, condition |-> TRUE, last |-> FALSE]
       /\ Inner!First(tok) = [value |-> InnerInitial, condition |-> tok.condition /\ ~tok.last,
                              last |-> ~(tok.condition /\ ~tok.last)]
  /\ Inner!StepOut(Free) = Free /\ ~Inner!Over(Free) /\ Inner!Iteration(Free) = Free
<1> DEFINE AnyToken == [value : Nat, condition : BOOLEAN, last : BOOLEAN]
<1>1. Path \in EndPorts => Inner!DfgEnd \subseteq Path /\ 0 \in Inner!DfgEnd /\ 0 \in Path
                          /\ Path \subseteq 0 .. 4 /\ (Inner!BreakPort # {} => 4 \in Path)
  BY Assumed DEF Inner!DfgEnd, Inner!BreakPort
<1>2. Free \notin AnyToken /\ InnerInitial \in Nat /\ InnerBound \in Nat /\ InnerStep \in Nat
  BY Assumed
<1>3. ASSUME NEW v \in Nat, NEW b \in BOOLEAN, NEW l \in BOOLEAN
      PROVE  [value |-> v, condition |-> b, last |-> l] # Free
  <2>1. [value |-> v, condition |-> b, last |-> l] \in AnyToken
    OBVIOUS
  <2> HIDE DEF AnyToken
  <2> QED BY <1>2, <2>1
<1>4. ASSUME NEW tok \in AnyToken
      PROVE  /\ tok # Free /\ (Inner!Over(tok) <=> tok.last \/ tok.value >= InnerBound)
             /\ Inner!Iteration(tok) = [value |-> tok.value, condition |-> tok.condition,
                                        last |-> tok.last \/ tok.value >= InnerBound]
             /\ ~tok.last /\ tok.value < InnerBound =>
                  Inner!StepOut(tok) = [value |-> tok.value + InnerStep, condition |-> TRUE, last |-> FALSE]
             /\ Inner!First(tok) = [value |-> InnerInitial, condition |-> tok.condition /\ ~tok.last,
                                    last |-> ~(tok.condition /\ ~tok.last)]
  <2>1. tok # Free
    <3> HIDE DEF AnyToken
    <3> QED BY <1>2
  <2>2. Inner!Over(tok) = (tok.last \/ tok.value >= InnerBound)
    BY <2>1 DEF Inner!Over
  <2>3. Inner!Iteration(tok) = [tok EXCEPT !.last = Inner!Over(tok)]
    BY <2>1 DEF Inner!Iteration
  <2>4. tok.value \in Nat /\ tok.last \in BOOLEAN /\ tok.condition \in BOOLEAN
        /\ tok = [value |-> tok.value, condition |-> tok.condition, last |-> tok.last]
    OBVIOUS
  <2>5. Inner!Iteration(tok) = [value |-> tok.value, condition |-> tok.condition,
                                last |-> tok.last \/ tok.value >= InnerBound]
    <3> HIDE DEF AnyToken
    <3> QED BY <2>2, <2>3, <2>4
  <2>6. ~tok.last /\ tok.value < InnerBound =>
          Inner!StepOut(tok) = [value |-> tok.value + InnerStep, condition |-> TRUE, last |-> FALSE]
    <3>1. ~tok.last /\ tok.value < InnerBound => ~Inner!Over(tok)
      BY <1>2, <2>2, <2>4
    <3> QED BY <2>1, <3>1 DEF Inner!StepOut, Inner!StepValue
  <2>7. Inner!First(tok) = [value |-> InnerInitial, condition |-> tok.condition /\ ~tok.last,
                            last |-> ~(tok.condition /\ ~tok.last)]
    BY <2>4 DEF Inner!First
  <2> QED BY <2>1, <2>2, <2>5, <2>6, <2>7
<1>5. Inner!StepOut(Free) = Free /\ ~Inner!Over(Free) /\ Inner!Iteration(Free) = Free
  BY DEF Inner!StepOut, Inner!Over, Inner!Iteration
<1> HIDE DEF AnyToken
<1> QED BY <1>1, <1>3, <1>4, <1>5 DEF AnyToken

(* The inner controller in its turn.  Either nothing goes to the body, or   *)
(* the iteration whose turn it is, or the last of a loop that is broken.    *)
LEMMA InnerTurn ==
  ASSUME OneLast, IInv, InnerUpdate
  PROVE  /\ pc = "inner" /\ pc' = "body"
         /\ UNCHANGED <<Path, started, outer_bp, inner_bp, iteration, path, passed, task_finish>>
         /\ wire = Free /\ wire' \in Inner!Token \cup {Free}
         /\ \/ /\ wire' = Free /\ UNCHANGED <<i, j, over>>
               /\ inner'.reg0 # Free <=> inner.reg0 # Free \/ iteration # Free
            \/ /\ inner.reg0 # Free /\ iteration = Free /\ wire' # Free /\ ~over
               /\ inner_bp[0] /\ inner_bp[1]
               /\ wire' = Nest!Token(i, j) \/ Broken(wire')
               /\ Nest!Advance(wire'.last) /\ (wire'.last <=> inner'.reg0 = Free)
         /\ InnerOK'
         /\ inner'.reg0 \in [value : Nat, condition : BOOLEAN, last : BOOLEAN] \cup {Free}
         /\ inner'.first_loop \in BOOLEAN
         /\ inner'.last_flag => inner.last_flag \/ (inner'.reg0 # Free /\ inner'.reg0.last)
<1> DEFINE AnyToken == [value : Nat, condition : BOOLEAN, last : BOOLEAN]
           front == Inner!B!Front(inner.buffer)
           out   == Inner!BufferOut(inner, inner_bp)
           s     == Inner!SimStep3(inner, inner_bp)
           mux   == Inner!Mux(s, out)
           bp    == inner_bp[0] /\ inner_bp[1]
           Quiet == /\ wire' = Free /\ UNCHANGED <<i, j, over>>
                    /\ inner'.reg0 # Free <=> inner.reg0 # Free \/ iteration # Free
           Sent  == /\ inner.reg0 # Free /\ iteration = Free /\ wire' # Free /\ ~over
                    /\ inner_bp[0] /\ inner_bp[1]
                    /\ wire' = Nest!Token(i, j) \/ Broken(wire')
                    /\ Nest!Advance(wire'.last) /\ (wire'.last <=> inner'.reg0 = Free)
           Goal  == /\ wire' \in Inner!Token \cup {Free}
                    /\ Quiet \/ Sent
                    /\ InnerOK'
                    /\ inner'.reg0 \in AnyToken \cup {Free}
                    /\ inner'.first_loop \in BOOLEAN
<1>1. /\ pc = "inner" /\ pc' = "body"
      /\ UNCHANGED <<Path, started, outer_bp, inner_bp, iteration, path, passed, task_finish>>
      /\ inner' = Inner!Update(inner, inner_bp, iteration) /\ wire' = Inner!Iteration(out)
      /\ IF out = Free THEN UNCHANGED <<i, j, over>> ELSE Nest!Advance(wire'.last)
  BY DEF InnerUpdate, history
<1>2. /\ inner \in Inner!StateType /\ Path \in EndPorts
      /\ i \in Nat /\ j \in Nat /\ over \in BOOLEAN /\ wire = Free
      /\ Inner!B!AtMostOne(inner.buffer) /\ j >= InnerInitial
      /\ inner.first_loop \in BOOLEAN
      /\ iteration # Free => iteration = OuterToken(i) /\ inner.reg0 = Free /\ ~over
  BY <1>1 DEF IInv, TypeOK, PhaseOK, InnerOK, Inner!StateType
<1>3. out = IF bp THEN front ELSE Free
  BY <1>1, <1>2 DEF Inner!BufferOut, Inner!BpOk, IInv, TypeOK
<1>4. /\ s.reg0 = IF Inner!Over(out) THEN Free ELSE inner.reg0
      /\ s.first_loop = inner.first_loop
      /\ s.buffer = IF out = Free THEN inner.buffer ELSE Inner!B!Reset(inner.buffer)
      /\ inner'.reg0 = IF iteration = Free THEN s.reg0 ELSE iteration
      /\ inner'.first_loop =
           (iteration # Free \/ (inner.first_loop /\ ~(mux # Free /\ Inner!B!NotFull(s.buffer))))
      /\ inner'.buffer = IF mux # Free /\ Inner!B!NotFull(s.buffer)
                         THEN Inner!B!Input(s.buffer, mux) ELSE s.buffer
      /\ inner'.last_flag => Inner!LastFlag(inner, s.reg0)
  <2>1. /\ s.reg0 = Inner!RegAfter(inner, out) /\ s.first_loop = inner.first_loop
        /\ s.buffer = IF out = Free THEN inner.buffer ELSE Inner!B!Reset(inner.buffer)
    BY <1>1, <1>2, InnerMembers
  <2>2. inner' =
          [reg0       |-> IF iteration = Free THEN s.reg0 ELSE iteration,
           first_loop |-> iteration # Free
                          \/ (inner.first_loop /\ ~(mux # Free /\ Inner!B!NotFull(s.buffer))),
           buffer     |-> IF mux # Free /\ Inner!B!NotFull(s.buffer)
                          THEN Inner!B!Input(s.buffer, mux) ELSE s.buffer,
           end_reg    |-> inner.end_reg,
           end_flag   |-> [e \in Inner!DfgEnd |-> Inner!EndFlags(inner)[e]
                                                  /\ ~Inner!EndSignal(inner, inner_bp)],
           df_cnt     |-> IF iteration = Free THEN inner.df_cnt ELSE inner.df_cnt + 1,
           break_cnt  |-> IF iteration = Free THEN inner.break_cnt ELSE inner.break_cnt + 1,
           last_flag  |-> Inner!LastFlag(inner, s.reg0) /\ ~Inner!EndSignal(inner, inner_bp)]
    BY <1>1, <1>2, InnerMembers
  <2> HIDE DEF out, s, mux
  <2> QED BY <2>1, <2>2 DEF Inner!RegAfter
<1>5. mux = IF s.reg0 = Free THEN Free
            ELSE IF inner.first_loop THEN Inner!First(s.reg0)
            ELSE IF Inner!BreakEnd(s) THEN [value |-> Inner!StepValue(out), condition |-> TRUE, last |-> TRUE]
            ELSE Inner!StepOut(out)
  BY <1>4 DEF Inner!Mux
<1>6. /\ OuterToken(i) \in AnyToken /\ OuterToken(i) # Free
      /\ OuterToken(i).condition /\ (OuterToken(i).last <=> i >= OuterBound)
  BY <1>2, OuterConstants DEF OuterToken
<1>7. /\ InnerInitial \in Nat /\ InnerBound \in Nat \ {0} /\ InnerStep \in Nat \ {0}
      /\ OuterBound \in Nat /\ OuterStep \in Nat \ {0} /\ Free \notin Inner!Token
  BY Assumed
<1>8. Inner!BreakEnd(s) => 4 \in Path /\ BufferDepth = 1
  BY <1>2, InnerConstants DEF Inner!BreakEnd, OneLast
<1>9. inner'.last_flag => inner.last_flag \/ (inner'.reg0 # Free /\ inner'.reg0.last)
  BY <1>2, <1>4 DEF Inner!LastFlag
<1> HIDE DEF out, s, mux, bp
<1> SUFFICES Goal
  BY <1>1, <1>2, <1>9
<1> HIDE DEF AnyToken
<1>10. CASE inner.reg0 = Free
  <2>1. front = Free /\ j = InnerInitial
    BY <1>10 DEF IInv, InnerOK
  <2>2. out = Free /\ s.reg0 = Free /\ mux = Free /\ s.buffer = inner.buffer
    BY <1>3, <1>4, <1>5, <1>10, <2>1
  <2>3. /\ wire' = Free /\ i' = i /\ j' = j /\ over' = over
        /\ inner'.reg0 = iteration /\ inner'.buffer = inner.buffer
        /\ inner'.first_loop = (iteration # Free \/ inner.first_loop)
    BY <1>1, <1>4, <2>2, InnerConstants
  <2>4. InnerOK'
    BY <1>2, <2>1, <2>3 DEF InnerOK, OuterToken
  <2> QED BY <1>2, <1>6, <1>10, <2>3, <2>4
<1>11. CASE inner.reg0 # Free /\ inner.first_loop
  <2>1. inner.reg0 = OuterToken(i) /\ ~over /\ front = Free /\ j = InnerInitial /\ iteration = Free
    BY <1>2, <1>11 DEF IInv, InnerOK
  <2>2. out = Free /\ s.reg0 = OuterToken(i) /\ s.buffer = inner.buffer
    BY <1>3, <1>4, <2>1, InnerConstants
  <2>3. mux = InnerValue
    <3>1. mux = Inner!First(OuterToken(i))
      BY <1>5, <1>6, <1>11, <2>2
    <3>2. Inner!First(OuterToken(i)) =
            [value |-> InnerInitial, condition |-> OuterToken(i).condition /\ ~OuterToken(i).last,
             last |-> ~(OuterToken(i).condition /\ ~OuterToken(i).last)]
      BY <1>6, InnerConstants DEF AnyToken
    <3>3. OuterToken(i).condition = TRUE /\ OuterToken(i).last = (i >= OuterBound)
      BY DEF OuterToken
    <3>4. CASE i < OuterBound
      <4>1. (i >= OuterBound) = FALSE
        BY <1>2, <1>7, <3>4
      <4> QED BY <2>1, <3>1, <3>2, <3>3, <3>4, <4>1 DEF InnerValue
    <3>5. CASE ~(i < OuterBound)
      <4>1. (i >= OuterBound) = TRUE
        BY <1>2, <1>7, <3>5
      <4> QED BY <2>1, <3>1, <3>2, <3>3, <3>5, <4>1 DEF InnerValue
    <3> QED BY <3>4, <3>5
  <2>4. mux \in Inner!Token /\ mux # Free
    <3>1. InnerInitial \in 0 .. (InnerInitial + InnerBound + InnerStep)
      BY <1>7
    <3>2. InnerValue \in Inner!Token
      BY <2>1, <3>1 DEF InnerValue, Inner!Token
    <3> QED BY <1>7, <2>3, <3>2
  <2>5. /\ Inner!B!NotFull(inner.buffer)
        /\ Inner!B!AtMostOne(Inner!B!Input(inner.buffer, mux))
        /\ Inner!B!Front(Inner!B!Input(inner.buffer, mux)) = mux
    BY <1>2, <2>1, <2>4, InnerRegister
  <2>6. /\ wire' = Free /\ i' = i /\ j' = j /\ over' = over
        /\ inner'.reg0 = OuterToken(i) /\ inner'.first_loop = FALSE
        /\ Inner!B!AtMostOne(inner'.buffer) /\ Inner!B!Front(inner'.buffer) = mux
    BY <1>1, <1>4, <1>11, <2>1, <2>2, <2>4, <2>5, InnerConstants
  <2>7. InnerValue' = mux
    BY <2>3, <2>6 DEF InnerValue
  <2>8. InnerOK'
    BY <1>2, <1>6, <2>1, <2>6, <2>7 DEF InnerOK, OuterToken
  <2> QED BY <1>2, <1>6, <1>11, <2>6, <2>8
<1>12. CASE inner.reg0 # Free /\ ~inner.first_loop /\ ~bp
  <2>1. /\ inner.reg0 = OuterToken(i) /\ ~over /\ iteration = Free
        /\ front = InnerValue \/ Broken(front)
    BY <1>2, <1>12 DEF IInv, InnerOK
  <2>2. front # Free
    BY <1>2, <1>7, <2>1, InnerConstants DEF InnerValue, Broken
  <2>3. out = Free /\ s.reg0 = OuterToken(i) /\ s.buffer = inner.buffer
    BY <1>3, <1>4, <1>12, <2>1, InnerConstants
  <2>4. ~(mux # Free /\ Inner!B!NotFull(s.buffer))
    <3>1. CASE Inner!BreakEnd(s)
      BY <1>2, <1>8, <2>2, <2>3, <3>1, InnerRegister
    <3>2. CASE ~Inner!BreakEnd(s)
      BY <1>5, <1>12, <2>3, <3>2, InnerConstants
    <3> QED BY <3>1, <3>2
  <2>5. /\ wire' = Free /\ i' = i /\ j' = j /\ over' = over
        /\ inner'.reg0 = inner.reg0 /\ inner'.first_loop = FALSE /\ inner'.buffer = inner.buffer
    BY <1>1, <1>4, <1>12, <2>1, <2>3, <2>4, InnerConstants
  <2>6. InnerOK'
    BY <1>1, <1>12, <2>5 DEF IInv, InnerOK, InnerValue, Broken, OuterToken
  <2> QED BY <1>6, <1>12, <2>1, <2>5, <2>6
<1> DEFINE passes == [value |-> front.value, condition |-> front.condition,
                      last |-> front.last \/ front.value >= InnerBound]
<1>13. ASSUME inner.reg0 # Free, ~inner.first_loop, bp
       PROVE  /\ inner.reg0 = OuterToken(i) /\ ~over /\ iteration = Free
              /\ front = InnerValue \/ Broken(front)
              /\ out = front /\ front # Free /\ front \in Inner!Token /\ front \in AnyToken
              /\ s.buffer = Inner!B!Reset(inner.buffer)
              /\ Inner!B!AtMostOne(s.buffer) /\ Inner!B!Front(s.buffer) = Free
              /\ wire' = passes /\ wire' \in Inner!Token /\ wire' # Free
              /\ wire' = Nest!Token(i, j) \/ Broken(wire')
              /\ Inner!Over(out) <=> wire'.last
              /\ wire'.last <=> front.last \/ front.value >= InnerBound
              /\ Nest!Advance(wire'.last)
  <2>1. /\ inner.reg0 = OuterToken(i) /\ ~over /\ iteration = Free
        /\ front = InnerValue \/ Broken(front)
    BY <1>2, <1>13 DEF IInv, InnerOK
  <2>2. front # Free
    BY <1>2, <1>7, <2>1, InnerConstants DEF InnerValue, Broken
  <2>3. out = front /\ front \in Inner!Token
    BY <1>2, <1>3, <1>13, <2>2, InnerRegister
  <2>4. front \in AnyToken
    BY <1>7, <2>3 DEF Inner!Token, AnyToken
  <2>5. /\ s.buffer = Inner!B!Reset(inner.buffer)
        /\ Inner!B!AtMostOne(s.buffer) /\ Inner!B!Front(s.buffer) = Free
    BY <1>2, <1>4, <2>2, <2>3, InnerRegister
  <2>6. wire' = passes /\ (Inner!Over(out) <=> front.last \/ front.value >= InnerBound)
    BY <1>1, <2>3, <2>4, InnerConstants DEF AnyToken
  <2>7. /\ wire' \in Inner!Token /\ (Inner!Over(out) <=> wire'.last)
        /\ wire'.last <=> front.last \/ front.value >= InnerBound
    BY <2>3, <2>6 DEF Inner!Token
  <2>8. wire' = Nest!Token(i, j) \/ Broken(wire')
    <3>1. CASE front = InnerValue /\ i < OuterBound
      BY <2>6, <3>1 DEF InnerValue, Nest!Token
    <3>2. CASE front = InnerValue /\ ~(i < OuterBound)
      <4>1. front.value = InnerInitial /\ front.condition = FALSE /\ front.last = TRUE
        BY <3>2 DEF InnerValue
      <4>2. (front.last \/ front.value >= InnerBound) = TRUE
        BY <4>1
      <4>3. wire' = [value |-> InnerInitial, condition |-> FALSE, last |-> TRUE]
        BY <2>6, <4>1, <4>2
      <4> QED BY <3>2, <4>3 DEF Nest!Token
    <3>3. CASE Broken(front)
      BY <1>7, <2>6, <2>7, <3>3 DEF Broken
    <3> QED BY <2>1, <3>1, <3>2, <3>3
  <2>9. Nest!Advance(wire'.last)
    BY <1>1, <2>2, <2>3
  <2> HIDE DEF passes
  <2> QED BY <1>7, <2>1, <2>2, <2>3, <2>4, <2>5, <2>6, <2>7, <2>8, <2>9
<1> HIDE DEF passes
<1>14. CASE inner.reg0 # Free /\ ~inner.first_loop /\ bp /\ wire'.last
  <2>1. s.reg0 = Free /\ mux = Free
    BY <1>4, <1>5, <1>13, <1>14
  <2>2. /\ inner'.reg0 = Free /\ inner'.buffer = s.buffer /\ inner'.first_loop = FALSE
    BY <1>4, <1>13, <1>14, <2>1
  <2>3. j' = InnerInitial
    BY <1>13, <1>14 DEF Nest!Advance
  <2>4. Inner!B!AtMostOne(inner'.buffer) /\ Inner!B!Front(inner'.buffer) = Free
    BY <1>13, <1>14, <2>2
  <2>5. InnerOK'
    BY <1>7, <2>2, <2>3, <2>4 DEF InnerOK
  <2> QED BY <1>13, <1>14, <2>2, <2>5 DEF bp
<1>15. CASE inner.reg0 # Free /\ ~inner.first_loop /\ bp /\ ~wire'.last
  <2>1. /\ i < OuterBound /\ j < InnerBound
        /\ front = [value |-> j, condition |-> TRUE, last |-> FALSE]
    <3>1. ~front.last /\ ~(front.value >= InnerBound)
      BY <1>13, <1>15
    <3> QED BY <1>2, <1>7, <1>13, <1>15, <3>1 DEF InnerValue, Broken
  <2>2. s.reg0 = OuterToken(i)
    BY <1>4, <1>13, <1>15
  <2>3. /\ Inner!StepValue(out) = j + InnerStep
        /\ Inner!StepOut(out) = [value |-> j + InnerStep, condition |-> TRUE, last |-> FALSE]
    <3>0. out = front /\ front # Free /\ front \in AnyToken
      BY <1>13, <1>15
    <3>1. out # Free /\ out \in AnyToken /\ out.value = j /\ ~out.last
      <4> HIDE DEF front
      <4> QED BY <2>1, <3>0
    <3>2. Inner!StepValue(out) = j + InnerStep
      BY <3>1 DEF Inner!StepValue
    <3> QED BY <2>1, <3>1, <3>2, InnerConstants DEF AnyToken
  <2>4. i' = i /\ j' = j + InnerStep /\ over' = FALSE
    BY <1>2, <1>7, <1>13, <1>15, <2>1 DEF Nest!Advance
  <2>5. \/ mux = [value |-> j + InnerStep, condition |-> TRUE, last |-> FALSE]
        \/ mux = [value |-> j + InnerStep, condition |-> TRUE, last |-> TRUE] /\ 4 \in Path
    BY <1>5, <1>6, <1>8, <1>15, <2>2, <2>3
  <2>6. mux \in Inner!Token /\ mux # Free
    <3>1. j + InnerStep \in 0 .. (InnerInitial + InnerBound + InnerStep)
      BY <1>2, <1>7, <2>1
    <3>2. mux \in Inner!Token
      <4>1. \A l \in BOOLEAN : [value |-> j + InnerStep, condition |-> TRUE, last |-> l] \in Inner!Token
        BY <3>1 DEF Inner!Token
      <4> QED BY <2>5, <4>1
    <3> QED BY <1>7, <3>2
  <2>7. /\ inner'.reg0 = OuterToken(i) /\ inner'.first_loop = FALSE
        /\ Inner!B!AtMostOne(inner'.buffer) /\ Inner!B!Front(inner'.buffer) = mux
    <3>1. /\ Inner!B!NotFull(s.buffer)
          /\ Inner!B!AtMostOne(Inner!B!Input(s.buffer, mux))
          /\ Inner!B!Front(Inner!B!Input(s.buffer, mux)) = mux
      BY <1>13, <1>15, <2>6, InnerRegister
    <3> QED BY <1>4, <1>13, <1>15, <2>2, <2>6, <3>1
  <2>8. (front = InnerValue \/ Broken(front))'
    <3>1. i' < OuterBound /\ j' # InnerInitial /\ j' >= InnerInitial /\ Path' = Path
      BY <1>1, <1>2, <1>7, <2>1, <2>4
    <3>2. CASE mux = [value |-> j + InnerStep, condition |-> TRUE, last |-> FALSE]
      BY <2>4, <2>7, <3>1, <3>2 DEF InnerValue
    <3>3. CASE mux = [value |-> j + InnerStep, condition |-> TRUE, last |-> TRUE] /\ 4 \in Path
      BY <2>6, <2>7, <3>1, <3>3 DEF Broken
    <3> QED BY <2>5, <3>2, <3>3
  <2>9. InnerOK'
    <3>1. j' >= InnerInitial /\ inner'.reg0 # Free /\ ~over' /\ inner'.reg0 = OuterToken(i)'
      BY <1>2, <1>6, <1>7, <2>4, <2>7 DEF OuterToken
    <3> QED BY <2>7, <2>8, <3>1 DEF InnerOK
  <2> QED BY <1>6, <1>13, <1>15, <2>7, <2>9 DEF bp
<1> QED BY <1>2, <1>10, <1>11, <1>12, <1>14, <1>15, <1>13

-----------------------------------------------------------------------------
(* The number of lasts in a path of the body.                               *)
LEMMA LastsType ==
  ASSUME NEW S, NEW toks \in Seq(S)
  PROVE  /\ IsFiniteSet({k \in DOMAIN toks : toks[k].last}) /\ Lasts(toks) \in Nat
         /\ Lasts(toks) = 0 => \A k \in DOMAIN toks : ~toks[k].last
<1> DEFINE L == {k \in DOMAIN toks : toks[k].last}
<1>1. IsFiniteSet(L)
  <2>1. Len(toks) \in Nat /\ DOMAIN toks = 1 .. Len(toks)
    BY LenProperties
  <2>2. IsFiniteSet(1 .. Len(toks))
    BY <2>1, FS_Interval
  <2>3. L \in SUBSET (1 .. Len(toks))
    BY <2>1
  <2> HIDE DEF L
  <2> QED BY <2>2, <2>3, FS_Subset
<1>2. Cardinality(L) = 0 => L = {}
  <2> HIDE DEF L
  <2> QED BY <1>1, FS_EmptySet
<1>3. Cardinality(L) \in Nat
  <2> HIDE DEF L
  <2> QED BY <1>1, FS_CardinalityType
<1> QED BY <1>1, <1>2, <1>3 DEF Lasts

LEMMA LastsEmpty == Lasts(<< >>) = 0
<1>1. {k \in DOMAIN << >> : << >>[k].last} = {}
  OBVIOUS
<1> QED BY <1>1, FS_EmptySet DEF Lasts

LEMMA LastsAppend ==
  ASSUME NEW S, NEW toks \in Seq(S), NEW tok \in S
  PROVE  Lasts(Append(toks, tok)) = Lasts(toks) + IF tok.last THEN 1 ELSE 0
<1> DEFINE L == {k \in DOMAIN toks : toks[k].last}
           M == {k \in DOMAIN Append(toks, tok) : Append(toks, tok)[k].last}
           n == Len(toks)
<1>0. Lasts(toks) = Cardinality(L) /\ Lasts(Append(toks, tok)) = Cardinality(M)
  BY DEF Lasts
<1>1. IsFiniteSet(L) /\ Cardinality(L) \in Nat
  BY LastsType DEF Lasts
<1>2. n \in Nat /\ DOMAIN toks = 1 .. n /\ DOMAIN Append(toks, tok) = 1 .. (n + 1)
      /\ Append(toks, tok)[n + 1] = tok /\ \A k \in 1 .. n : Append(toks, tok)[k] = toks[k]
  BY LenProperties, AppendProperties
<1>3. n + 1 \notin L /\ \A k \in 1 .. (n + 1) : k \in 1 .. n \/ k = n + 1
  BY <1>2
<1>4. CASE tok.last
  <2>1. M = L \cup {n + 1}
    BY <1>2, <1>3, <1>4
  <2> HIDE DEF L, M, n
  <2>2. Cardinality(L \cup {n + 1}) = Cardinality(L) + 1
    BY <1>1, <1>3, FS_AddElement
  <2> QED BY <1>0, <1>4, <2>1, <2>2
<1>5. CASE ~tok.last
  <2>1. M = L
    BY <1>2, <1>3, <1>5
  <2> HIDE DEF L, M, n
  <2> QED BY <1>0, <1>1, <1>5, <2>1
<1> QED BY <1>4, <1>5

LEMMA LastsTail ==
  ASSUME NEW S, NEW toks \in Seq(S), toks # << >>
  PROVE  Lasts(toks) = Lasts(Tail(toks)) + IF Head(toks).last THEN 1 ELSE 0
<1> DEFINE L == {k \in DOMAIN toks : toks[k].last}
           M == {k \in DOMAIN Tail(toks) : Tail(toks)[k].last}
           n == Len(toks)
           f == [k \in M |-> k + 1]
<1>1. n \in Nat \ {0} /\ DOMAIN toks = 1 .. n /\ Head(toks) = toks[1]
      /\ Tail(toks) \in Seq(S) /\ DOMAIN Tail(toks) = 1 .. (n - 1)
      /\ \A k \in 1 .. (n - 1) : Tail(toks)[k] = toks[k + 1]
  BY LenProperties, EmptySeq, HeadTailProperties
<1>0. Lasts(toks) = Cardinality(L) /\ Lasts(Tail(toks)) = Cardinality(M)
  BY DEF Lasts
<1>2. IsFiniteSet(L) /\ Cardinality(L) \in Nat /\ IsFiniteSet(M) /\ Cardinality(M) \in Nat
  BY <1>1, LastsType DEF Lasts
<1>3. f \in Bijection(M, L \ {1})
  <2>1. \A k \in M : k \in Int /\ f[k] = k + 1 /\ k + 1 \in L \ {1}
    BY <1>1
  <2>2. \A m \in L \ {1} : m - 1 \in M /\ (m - 1) + 1 = m
    BY <1>1
  <2>3. f \in [M -> L \ {1}]
    BY <2>1
  <2>4. \A a, b \in M : f[a] = f[b] => a = b
    BY <2>1
  <2>5. \A m \in L \ {1} : \E k \in M : f[k] = m
    BY <2>1, <2>2
  <2> HIDE DEF f, L, M
  <2> QED BY <2>3, <2>4, <2>5 DEF Bijection, Injection, Surjection, IsInjective
<1>4. Cardinality(L \ {1}) = Cardinality(M)
  <2> HIDE DEF f, L, M
  <2>1. ExistsBijection(M, L \ {1})
    BY <1>3 DEF ExistsBijection
  <2> QED BY <1>2, <2>1, FS_Bijection
<1>5. 1 \in L <=> Head(toks).last
  BY <1>1
<1> HIDE DEF f, L, M
<1>6. Cardinality(L \ {1}) = IF 1 \in L THEN Cardinality(L) - 1 ELSE Cardinality(L)
  BY <1>2, FS_RemoveElement
<1> QED BY <1>0, <1>2, <1>4, <1>5, <1>6

-----------------------------------------------------------------------------
(* The types of the two controllers and of the paths, taken apart.          *)
LEMMA Typed ==
  ASSUME TypeOK
  PROVE  /\ inner \in Inner!StateType /\ outer \in Outer!StateType
         /\ inner.df_cnt \in Nat /\ inner.break_cnt \in Nat /\ inner.last_flag \in BOOLEAN
         /\ inner.end_reg \in [Path -> [valued : BOOLEAN, last : BOOLEAN]]
         /\ inner.end_flag \in [Inner!DfgEnd -> BOOLEAN]
         /\ outer.end_reg \in [{0} -> [valued : BOOLEAN, last : BOOLEAN]]
         /\ Path \in EndPorts /\ 0 \in Path
         /\ \A p \in Path : path[p] \in Seq(Inner!Token) /\ Lasts(path[p]) \in Nat
<1>1. Path \in EndPorts /\ 0 \in Path
  BY InnerConstants DEF TypeOK
<1>2. \A p \in Path : path[p] \in Seq(Inner!Token)
  BY DEF TypeOK
<1>3. \A p \in Path : Lasts(path[p]) \in Nat
  BY <1>2, LastsType
<1> QED BY <1>1, <1>2, <1>3 DEF TypeOK, Inner!StateType, Outer!StateType

(* The inner controller's end signal comes when nothing is behind it.       *)
LEMMA EndSignalLast ==
  ASSUME IInv, pc = "inner", Inner!EndSignal(inner, inner_bp)
  PROVE  Finished
<1> DEFINE reg0 == Inner!RegAfter(inner, Inner!BufferOut(inner, inner_bp))
<1>1. inner.df_cnt = 0 /\ Inner!LastFlag(inner, reg0)
  BY DEF Inner!EndSignal
<1>2. TypeOK /\ wire = Free
  BY DEF IInv, PhaseOK
<1>3. path[0] \in Seq(Inner!Token) /\ Lasts(path[0]) \in Nat
  BY <1>2, Typed
<1>4. inner.reg0 = Free /\ Lasts(path[0]) = 0
  BY <1>1, <1>2, <1>3 DEF IInv, CountsOK, UnderWay
<1>5. reg0 = Free
  BY <1>4 DEF Inner!RegAfter
<1>6. over
  BY <1>1, <1>4, <1>5 DEF Inner!LastFlag, IInv, EndOK
<1>7. path[0] = << >>
  <2> SUFFICES ASSUME path[0] # << >> PROVE FALSE
    OBVIOUS
  <2>1. path[0][Len(path[0])].last
    BY <1>2, <1>6 DEF IInv, EndOK
  <2>2. Len(path[0]) \in DOMAIN path[0]
    BY <1>3, LenProperties, EmptySeq
  <2> QED BY <1>3, <1>4, <2>1, <2>2, LastsType
<1> QED BY <1>2, <1>6, <1>7 DEF Finished

(* The cycle of the inner controller keeps the invariant.                   *)
LEMMA InnerUpdateIInv == OneLast /\ IInv /\ InnerUpdate => IInv'
<1> SUFFICES ASSUME OneLast, IInv, InnerUpdate PROVE IInv'
  OBVIOUS
<1> DEFINE ended == Inner!EndSignal(inner, inner_bp)
           Quiet == /\ wire' = Free /\ i' = i /\ j' = j /\ over' = over
                    /\ inner'.reg0 # Free <=> inner.reg0 # Free \/ iteration # Free
           Sent  == /\ inner.reg0 # Free /\ iteration = Free /\ wire' # Free /\ ~over
                    /\ inner_bp[0] /\ inner_bp[1]
                    /\ Nest!Advance(wire'.last) /\ (wire'.last <=> inner'.reg0 = Free)
<1>1. /\ pc = "inner" /\ pc' = "body"
      /\ Path' = Path /\ started' = started /\ outer_bp' = outer_bp /\ inner_bp' = inner_bp
      /\ iteration' = iteration /\ path' = path /\ passed' = passed /\ task_finish' = task_finish
      /\ wire = Free /\ wire' \in Inner!Token \cup {Free}
      /\ Quiet \/ Sent
      /\ InnerOK'
      /\ inner'.reg0 \in [value : Nat, condition : BOOLEAN, last : BOOLEAN] \cup {Free}
      /\ inner'.first_loop \in BOOLEAN
      /\ inner'.last_flag => inner.last_flag \/ (inner'.reg0 # Free /\ inner'.reg0.last)
  BY InnerTurn
<1>2. TypeOK /\ i \in Nat /\ j \in Nat /\ over \in BOOLEAN
  BY DEF IInv
<1>3. /\ inner' = [reg0 |-> inner'.reg0, first_loop |-> inner'.first_loop, buffer |-> inner'.buffer,
                   end_reg |-> inner'.end_reg, end_flag |-> inner'.end_flag, df_cnt |-> inner'.df_cnt,
                   break_cnt |-> inner'.break_cnt, last_flag |-> inner'.last_flag]
      /\ inner'.end_reg = inner.end_reg
      /\ inner'.end_flag = [e \in Inner!DfgEnd |-> Inner!EndFlags(inner)[e] /\ ~ended]
      /\ inner'.df_cnt = IF iteration = Free THEN inner.df_cnt ELSE inner.df_cnt + 1
      /\ inner'.break_cnt = IF iteration = Free THEN inner.break_cnt ELSE inner.break_cnt + 1
      /\ inner'.last_flag \in BOOLEAN
  <2> DEFINE s   == Inner!SimStep3(inner, inner_bp)
             out == Inner!BufferOut(inner, inner_bp)
             mux == Inner!Mux(s, out)
  <2>1. inner \in Inner!StateType /\ inner' = Inner!Update(inner, inner_bp, iteration)
    BY <1>2, Typed DEF InnerUpdate
  <2>2. inner' =
          [reg0       |-> IF iteration = Free THEN s.reg0 ELSE iteration,
           first_loop |-> iteration # Free
                          \/ (inner.first_loop /\ ~(mux # Free /\ Inner!B!NotFull(s.buffer))),
           buffer     |-> IF mux # Free /\ Inner!B!NotFull(s.buffer)
                          THEN Inner!B!Input(s.buffer, mux) ELSE s.buffer,
           end_reg    |-> inner.end_reg,
           end_flag   |-> [e \in Inner!DfgEnd |-> Inner!EndFlags(inner)[e]
                                                  /\ ~Inner!EndSignal(inner, inner_bp)],
           df_cnt     |-> IF iteration = Free THEN inner.df_cnt ELSE inner.df_cnt + 1,
           break_cnt  |-> IF iteration = Free THEN inner.break_cnt ELSE inner.break_cnt + 1,
           last_flag  |-> Inner!LastFlag(inner, s.reg0) /\ ~Inner!EndSignal(inner, inner_bp)]
    BY <2>1, InnerMembers
  <2> HIDE DEF out, s, mux
  <2> QED BY <2>2
<1>4. /\ outer' = [reg0 |-> outer.reg0, first_loop |-> outer.first_loop, buffer |-> outer.buffer,
                   end_reg |-> outer'.end_reg, end_flag |-> outer.end_flag, df_cnt |-> outer.df_cnt,
                   break_cnt |-> outer.break_cnt, last_flag |-> outer.last_flag]
      /\ outer'.end_reg \in [{0} -> [valued : BOOLEAN, last : BOOLEAN]]
      /\ outer'.end_reg[0].last => outer.end_reg[0].last \/ ended
  <2> DEFINE end  == IF ended THEN [Begin EXCEPT !.last = TRUE] ELSE Free
             toks == [e \in {0} |-> end]
  <2>1. outer' = Outer!EndInput(outer, toks)
    BY DEF InnerUpdate
  <2>2. outer \in Outer!StateType /\ outer.end_reg \in [{0} -> [valued : BOOLEAN, last : BOOLEAN]]
    BY <1>2, Typed
  <2>3. /\ Outer!EndReg(outer, toks) \in [{0} -> [valued : BOOLEAN, last : BOOLEAN]]
        /\ Outer!EndReg(outer, toks)[0].last => outer.end_reg[0].last \/ ended
    <3>1. end # Free => end = [value |-> 0, condition |-> TRUE, last |-> TRUE] /\ ended
      BY DEF Begin
    <3>2. Outer!EndReg(outer, toks) =
            [e \in {0} |-> IF end = Free THEN outer.end_reg[0] ELSE [valued |-> end.value # 0, last |-> end.last]]
      BY DEF Outer!EndReg
    <3> HIDE DEF end
    <3>3. CASE end = Free
      BY <2>2, <3>2, <3>3
    <3>4. CASE end # Free
      <4>1. Outer!EndReg(outer, toks) = [e \in {0} |-> [valued |-> FALSE, last |-> TRUE]] /\ ended
        <5>1. (end.value # 0) = FALSE /\ end.last = TRUE /\ ended
          BY <3>1, <3>4
        <5> QED BY <3>2, <3>4, <5>1
      <4>2. [valued |-> FALSE, last |-> TRUE] \in [valued : BOOLEAN, last : BOOLEAN]
        OBVIOUS
      <4> QED BY <4>1, <4>2
    <3> QED BY <3>3, <3>4
  <2>4. ~Outer!Ended(toks, 0) /\ ~Outer!Ended(toks, 4)
    BY DEF Outer!Ended
  <2>5. outer' = [outer EXCEPT !.end_reg = Outer!EndReg(outer, toks),
                               !.df_cnt = outer.df_cnt, !.break_cnt = outer.break_cnt]
    BY <2>1, <2>4 DEF Outer!EndInput
  <2>6. outer = [reg0 |-> outer.reg0, first_loop |-> outer.first_loop, buffer |-> outer.buffer,
                 end_reg |-> outer.end_reg, end_flag |-> outer.end_flag, df_cnt |-> outer.df_cnt,
                 break_cnt |-> outer.break_cnt, last_flag |-> outer.last_flag]
    BY <2>2 DEF Outer!StateType
  <2> HIDE DEF toks
  <2> QED BY <2>3, <2>5, <2>6
<1>5. i' \in Nat /\ j' \in Nat /\ over' \in BOOLEAN
  <2>1. /\ i + OuterStep \in Nat /\ j + InnerStep \in Nat /\ InnerInitial \in Nat
        /\ (i >= OuterBound) \in BOOLEAN
    BY <1>2, Assumed
  <2>2. CASE Quiet
    BY <1>2, <2>2
  <2>3. CASE Sent
    BY <1>2, <2>1, <2>3 DEF Nest!Advance
  <2> QED BY <1>1, <2>2, <2>3
<1>6. TypeOK'
  <2>1. inner'.buffer \in Inner!B!RingType
    BY <1>1, InnerRegister DEF InnerOK
  <2>2. inner'.end_flag \in [Inner!DfgEnd -> BOOLEAN]
    BY <1>3
  <2>3. inner'.df_cnt \in Nat /\ inner'.break_cnt \in Nat /\ inner'.end_reg \in [Path -> [valued : BOOLEAN, last : BOOLEAN]]
    BY <1>2, <1>3, Typed
  <2>4. inner' \in Inner!StateType
    BY <1>1, <1>3, <2>1, <2>2, <2>3 DEF Inner!StateType
  <2>5. inner' \in Inner!StateType'
    BY <1>1, <2>4 DEF Inner!StateType, Inner!DfgEnd
  <2>6. outer' \in Outer!StateType
    BY <1>2, <1>4, Typed DEF Outer!StateType
  <2> QED BY <1>1, <1>2, <2>5, <2>6 DEF TypeOK
<1>7. PhaseOK'
  BY <1>1 DEF IInv, PhaseOK
<1>8. iteration # Free => iteration = OuterToken(i) /\ inner.reg0 = Free /\ ~over
  BY <1>1 DEF IInv, PhaseOK
<1>9. Quiet => (Busy' <=> Busy)
  BY <1>1 DEF Busy
<1>10. OuterOK'
  <2>1. started /\ started'
    BY <1>1 DEF IInv, PhaseOK
  <2>2. outer'.reg0 = outer.reg0 /\ outer'.first_loop = outer.first_loop /\ outer'.buffer = outer.buffer
        /\ outer'.df_cnt = outer.df_cnt
    BY <1>4
  <2>3. CASE Quiet
    BY <1>9, <2>1, <2>2, <2>3 DEF IInv, OuterOK, OuterValue
  <2>4. CASE Sent /\ ~wire'.last
    <3>1. Busy' /\ Busy /\ i' = i /\ over' = (i >= OuterBound)
      BY <1>1, <2>4 DEF Busy, Nest!Advance
    <3>2. inner.reg0 = OuterToken(i)
      BY <2>4 DEF IInv, InnerOK
    <3>3. ~over' => ~over
      BY <2>4
    <3>4. outer.reg0 # Free => ~over'
      BY <1>2, <2>4, <3>1, Assumed DEF IInv, OuterOK
    <3> QED BY <2>1, <2>2, <2>4, <3>1, <3>4 DEF IInv, OuterOK, OuterValue
  <2>5. CASE Sent /\ wire'.last
    <3>1. Busy /\ ~Busy' /\ over' = (i >= OuterBound)
      BY <1>1, <2>5 DEF Busy, Nest!Advance
    <3>2. CASE i >= OuterBound
      <4>1. outer.reg0 = Free
        BY <1>2, <3>1, <3>2, Assumed DEF IInv, OuterOK
      <4> QED BY <2>1, <2>2, <3>1, <3>2, <4>1 DEF IInv, OuterOK
    <3>3. CASE i < OuterBound
      <4>1. i' = i + OuterStep /\ ~over'
        BY <1>2, <2>5, <3>1, <3>3, Assumed DEF Nest!Advance
      <4>2. outer.reg0 # Free /\ ~outer.first_loop
        BY <1>2, <2>1, <2>5, <3>1, <3>3, Assumed DEF IInv, OuterOK
      <4>3. OuterValue' = OuterValue
        BY <3>1, <4>1 DEF OuterValue
      <4> QED BY <2>1, <2>2, <3>1, <4>1, <4>2, <4>3 DEF IInv, OuterOK
    <3> QED BY <1>2, <3>2, <3>3, Assumed
  <2> QED BY <1>1, <2>3, <2>4, <2>5
<1>11. CountsOK'
  <2> DEFINE Sum == (IF wire' # Free /\ wire'.last THEN 1 ELSE 0) + (IF inner'.reg0 # Free THEN 1 ELSE 0)
             Old == IF inner.reg0 # Free THEN 1 ELSE 0
  <2>1. Sum = IF iteration = Free THEN Old ELSE Old + 1
    <3>1. CASE Quiet
      BY <1>8, <3>1
    <3>2. CASE Sent
      BY <3>2
    <3> QED BY <1>1, <3>1, <3>2
  <2>2. \A p \in Path : /\ UnderWay(p) = Lasts(path[p]) + Old
                        /\ UnderWay(p)' = Lasts(path[p]) + Sum
                        /\ Lasts(path[p]) \in Nat
    <3> SUFFICES ASSUME NEW p \in Path
                 PROVE  /\ UnderWay(p) = Lasts(path[p]) + Old
                        /\ UnderWay(p)' = Lasts(path[p]) + Sum
                        /\ Lasts(path[p]) \in Nat
      OBVIOUS
    <3>1. Lasts(path[p]) \in Nat
      BY <1>2, Typed
    <3> QED BY <1>1, <3>1 DEF UnderWay
  <2>3. Old \in Nat /\ 0 \in Path
    BY <1>2, Typed
  <2> HIDE DEF Sum, Old
  <2>4. \A p \in Path : UnderWay(p)' = IF iteration = Free THEN UnderWay(p) ELSE UnderWay(p) + 1
    BY <2>1, <2>2, <2>3
  <2> QED BY <1>1, <1>3, <2>3, <2>4 DEF IInv, CountsOK
<1>12. RoomOK'
  BY <1>1 DEF IInv, RoomOK
<1>13. EndOK'
  <2>1. inner'.last_flag => over' \/ (inner'.reg0 # Free /\ i' >= OuterBound)
    <3>1. inner'.reg0 # Free => inner'.reg0 = OuterToken(i')
      BY <1>1 DEF InnerOK, OuterToken
    <3>2. inner'.reg0 # Free /\ inner'.reg0.last => i' >= OuterBound
      <4>1. OuterToken(i').last = (i' >= OuterBound)
        BY DEF OuterToken
      <4>2. ASSUME inner'.reg0 # Free, inner'.reg0.last PROVE i' >= OuterBound
        <5>1. OuterToken(i').last
          BY <3>1, <4>2
        <5> QED BY <4>1, <5>1
      <4> QED BY <4>2
    <3>3. inner.last_flag => over \/ (inner.reg0 # Free /\ i >= OuterBound)
      BY DEF IInv, EndOK
    <3>4. CASE Quiet
      BY <1>1, <3>2, <3>3, <3>4
    <3>5. CASE Sent
      BY <1>1, <3>2, <3>3, <3>5 DEF Nest!Advance
    <3> QED BY <1>1, <3>4, <3>5
  <2>2. over' /\ wire' # Free => wire'.last
    <3> SUFFICES ASSUME Sent, over' PROVE wire'.last
      BY <1>1
    <3>1. i >= OuterBound
      BY DEF Nest!Advance
    <3>2. ASSUME inner'.reg0 # Free PROVE FALSE
      <4>1. ~over'
        BY <1>1, <3>2 DEF InnerOK
      <4> QED BY <4>1
    <3> QED BY <3>2
  <2>3. over' /\ wire' = Free /\ path'[0] # << >> => path'[0][Len(path'[0])].last
    BY <1>1 DEF IInv, EndOK
  <2>4. Finished => Finished'
    <3>1. Finished => Quiet
      BY <1>1 DEF Finished
    <3> QED BY <1>1, <3>1 DEF Finished
  <2>5. ended => Finished
    BY <1>1, EndSignalLast
  <2>6. outer'.end_reg[0].last \/ outer'.end_flag[0] \/ task_finish' => Finished'
    BY <1>1, <1>4, <2>4, <2>5 DEF IInv, EndOK
  <2> QED BY <2>1, <2>2, <2>3, <2>6 DEF EndOK
<1> QED BY <1>1, <1>5, <1>6, <1>7, <1>10, <1>11, <1>12, <1>13 DEF IInv

(* A path of the body in its turn: the oldest token may leave, and what is  *)
(* on the wire is stored.                                                   *)
LEMMA PathStep ==
  ASSUME IInv, NEW ends \in SUBSET Path, NEW take \in BOOLEAN, BodyUpdate(ends, take), NEW p \in Path
  PROVE  /\ path'[p] \in Seq(Inner!Token) /\ Len(path'[p]) <= Capacity
         /\ Lasts(path[p]) + (IF wire # Free /\ wire.last THEN 1 ELSE 0) =
              Lasts(path'[p]) + (IF p \in ends /\ Head(path[p]).last THEN 1 ELSE 0)
         /\ wire = Free /\ path[p] = << >> => path'[p] = << >>
         /\ path'[p] # << >> =>
              path'[p][Len(path'[p])] = IF wire # Free THEN wire ELSE path[p][Len(path[p])]
<1> DEFINE toks == path[p]
           tok  == wire
           left == IF p \in ends THEN Tail(toks) ELSE toks
           stored == path'[p]
           out == IF p \in ends /\ Head(toks).last THEN 1 ELSE 0
           in  == IF tok # Free /\ tok.last THEN 1 ELSE 0
<1>0. /\ toks \in Seq(Inner!Token) /\ Len(toks) <= Capacity
      /\ tok # Free => tok \in Inner!Token /\ Len(toks) < Capacity
      /\ p \in ends => toks # << >>
      /\ stored = IF tok # Free /\ Len(left) < Capacity THEN Append(left, tok) ELSE left
  <2>1. TypeOK /\ RoomOK
    BY DEF IInv
  <2>2. p \in ends => path[p] # << >>
    BY DEF BodyUpdate
  <2>3. path'[p] = IF wire # Free /\ Len(left) < Capacity THEN Append(left, wire) ELSE left
    BY DEF BodyUpdate
  <2> QED BY <2>1, <2>2, <2>3 DEF TypeOK, RoomOK
<1> HIDE DEF toks, tok, left, stored
<1>1. /\ left \in Seq(Inner!Token) /\ Len(left) <= Len(toks)
      /\ left # << >> => left[Len(left)] = toks[Len(toks)]
      /\ tok = Free /\ toks = << >> => left = << >>
      /\ Lasts(toks) = Lasts(left) + out
      /\ Lasts(left) \in Nat /\ Lasts(toks) \in Nat
  <2>0. left = IF p \in ends THEN Tail(toks) ELSE toks
    BY DEF left
  <2>1. CASE p \in ends
    <3>1. /\ Len(toks) \in Nat \ {0} /\ Tail(toks) \in Seq(Inner!Token) /\ Len(Tail(toks)) = Len(toks) - 1
          /\ \A k \in 1 .. (Len(toks) - 1) : Tail(toks)[k] = toks[k + 1]
      BY <1>0, <2>1, LenProperties, EmptySeq, HeadTailProperties
    <3>2. Tail(toks) # << >> => Len(Tail(toks)) \in Nat \ {0}
      BY <3>1, EmptySeq
    <3>3. Tail(toks) # << >> => Tail(toks)[Len(Tail(toks))] = toks[Len(toks)]
      BY <3>1, <3>2
    <3>4. left = Tail(toks) /\ toks # << >> /\ out = IF Head(toks).last THEN 1 ELSE 0
      BY <1>0, <2>0, <2>1
    <3>5. Lasts(toks) = Lasts(Tail(toks)) + IF Head(toks).last THEN 1 ELSE 0
      BY <1>0, <3>4, LastsTail
    <3> HIDE DEF out
    <3>6. Lasts(toks) = Lasts(left) + out
      BY <3>4, <3>5
    <3>7. Lasts(toks) \in Nat /\ Lasts(Tail(toks)) \in Nat
      BY <1>0, <3>1, LastsType
    <3> QED BY <3>1, <3>3, <3>4, <3>6, <3>7
  <2>2. CASE p \notin ends
    <3>1. left = toks /\ out = 0
      BY <2>0, <2>2
    <3>2. Len(toks) \in Nat /\ Lasts(toks) \in Nat
      BY <1>0, LenProperties, LastsType
    <3> HIDE DEF out
    <3> QED BY <1>0, <3>1, <3>2
  <2> QED BY <2>1, <2>2
<1>2. Len(left) \in Nat /\ Len(toks) \in Nat /\ Capacity \in Nat /\ out \in Nat
  BY <1>0, <1>1, LenProperties, Assumed
<1> HIDE DEF out
<1>3. CASE tok # Free
  <2>1. stored = Append(left, tok) /\ Len(toks) < Capacity /\ tok \in Inner!Token
    BY <1>0, <1>1, <1>2, <1>3
  <2>2. stored \in Seq(Inner!Token) /\ Len(stored) = Len(left) + 1 /\ stored[Len(left) + 1] = tok
    BY <1>1, <2>1, AppendProperties, LenProperties
  <2>3. Lasts(stored) = Lasts(left) + IF tok.last THEN 1 ELSE 0
    BY <1>1, <2>1, LastsAppend
  <2>4. in = IF tok.last THEN 1 ELSE 0
    BY <1>3
  <2>5. in \in Nat
    OBVIOUS
  <2> HIDE DEF in
  <2>6. Len(stored) <= Capacity /\ Lasts(toks) + in = Lasts(stored) + out
    BY <1>0, <1>1, <1>2, <2>1, <2>2, <2>3, <2>4, <2>5
  <2> QED BY <1>2, <1>3, <2>2, <2>6 DEF in, out, toks, tok, stored
<1>4. CASE tok = Free
  <2>1. stored = left /\ in = 0
    BY <1>0, <1>4
  <2> HIDE DEF in
  <2>2. Len(stored) <= Capacity /\ Lasts(toks) + in = Lasts(stored) + out
    BY <1>0, <1>1, <1>2, <2>1
  <2> QED BY <1>1, <1>4, <2>1, <2>2 DEF in, out, toks, tok, stored
<1> QED BY <1>3, <1>4

(* The cycle of the body keeps the invariant.                               *)
LEMMA BodyUpdateIInv ==
  ASSUME IInv, NEW ends \in SUBSET Path, NEW take \in BOOLEAN, BodyUpdate(ends, take)
  PROVE  IInv'
<1> DEFINE left   == [p \in Path |-> IF p \in ends THEN Tail(path[p]) ELSE path[p]]
           kept   == IF take THEN passed - 1 ELSE passed
           toks   == [p \in Path |-> IF p \in ends THEN Delivered(p) ELSE Free]
           Out(p) == IF p \in ends /\ Head(path[p]).last THEN 1 ELSE 0
           In     == IF wire # Free /\ wire.last THEN 1 ELSE 0
<1>1. /\ pc = "body" /\ pc' = IF task_finish THEN "stop" ELSE "outer"
      /\ \A p \in ends : path[p] # << >>
      /\ take => passed > 0
      /\ path' = [p \in Path |-> IF wire # Free /\ Len(left[p]) < Capacity
                                 THEN Append(left[p], wire) ELSE left[p]]
      /\ passed' = IF iteration # Free /\ kept < Capacity THEN kept + 1 ELSE kept
      /\ inner_bp' = [o \in {0, 1} |-> IF o = 0 THEN passed' < Capacity
                                       ELSE \A p \in Path : Len(path'[p]) < Capacity]
      /\ inner' = Inner!EndInput(inner, toks)
      /\ outer_bp' = [o \in {1} |-> Inner!GetBp(inner)]
      /\ iteration' = Free /\ wire' = Free
      /\ Path' = Path /\ started' = started /\ outer' = outer /\ task_finish' = task_finish
      /\ i' = i /\ j' = j /\ over' = over
  BY DEF BodyUpdate, history
<1>2. TypeOK /\ i \in Nat /\ j \in Nat /\ over \in BOOLEAN
  BY DEF IInv
<1>3. /\ inner \in Inner!StateType /\ 0 \in Path
      /\ wire # Free => wire \in Inner!Token
      /\ \A p \in Path : path[p] \in Seq(Inner!Token) /\ Len(path[p]) <= Capacity
                         /\ (wire # Free => Len(path[p]) < Capacity)
  BY <1>2, Typed DEF TypeOK, IInv, RoomOK
<1>4. ASSUME NEW p \in Path
      PROVE  /\ path'[p] \in Seq(Inner!Token) /\ Len(path'[p]) <= Capacity
             /\ Lasts(path[p]) + In = Lasts(path'[p]) + Out(p)
             /\ wire = Free /\ path[p] = << >> => path'[p] = << >>
             /\ path'[p] # << >> =>
                  path'[p][Len(path'[p])] = IF wire # Free THEN wire ELSE path[p][Len(path[p])]
  BY PathStep
<1>5. ASSUME NEW p \in ends
      PROVE  /\ Delivered(p) \in [value : Nat, condition : BOOLEAN, last : BOOLEAN] /\ Delivered(p) # Free
             /\ Delivered(p).last <=> Head(path[p]).last
  <2>1. Head(path[p]) \in Inner!Token
    BY <1>1, <1>3, HeadTailProperties
  <2>2. Head(path[p]) \in [value : Nat, condition : BOOLEAN, last : BOOLEAN]
    BY <2>1, Assumed DEF Inner!Token
  <2>3. ASSUME NEW tok \in [value : Nat, condition : BOOLEAN, last : BOOLEAN]
        PROVE  /\ Compared(tok) \in [value : Nat, condition : BOOLEAN, last : BOOLEAN]
               /\ Compared(tok).last <=> tok.last
    BY Assumed DEF Compared
  <2>4. /\ Delivered(p) \in [value : Nat, condition : BOOLEAN, last : BOOLEAN]
        /\ Delivered(p).last <=> Head(path[p]).last
    BY <2>2, <2>3 DEF Delivered
  <2> DEFINE AnyToken == [value : Nat, condition : BOOLEAN, last : BOOLEAN]
  <2>5. Free \notin AnyToken /\ Delivered(p) \in AnyToken
    BY <2>4, Assumed
  <2> HIDE DEF AnyToken
  <2>6. Delivered(p) # Free
    BY <2>5
  <2> QED BY <2>4, <2>6
<1>6. /\ inner' = [reg0 |-> inner.reg0, first_loop |-> inner.first_loop, buffer |-> inner.buffer,
                   end_reg |-> inner'.end_reg, end_flag |-> inner.end_flag, df_cnt |-> inner'.df_cnt,
                   break_cnt |-> inner'.break_cnt, last_flag |-> inner.last_flag]
      /\ inner'.end_reg = Inner!EndReg(inner, toks)
      /\ inner'.df_cnt = IF Inner!Ended(toks, 0) THEN inner.df_cnt - 1 ELSE inner.df_cnt
      /\ inner'.break_cnt = IF Inner!Ended(toks, 4) THEN inner.break_cnt - 1 ELSE inner.break_cnt
  <2>1. inner = [reg0 |-> inner.reg0, first_loop |-> inner.first_loop, buffer |-> inner.buffer,
                 end_reg |-> inner.end_reg, end_flag |-> inner.end_flag, df_cnt |-> inner.df_cnt,
                 break_cnt |-> inner.break_cnt, last_flag |-> inner.last_flag]
    BY <1>3 DEF Inner!StateType
  <2> HIDE DEF toks
  <2>2. inner' = [inner EXCEPT !.end_reg = Inner!EndReg(inner, toks),
                    !.df_cnt = IF Inner!Ended(toks, 0) THEN inner.df_cnt - 1 ELSE inner.df_cnt,
                    !.break_cnt = IF Inner!Ended(toks, 4) THEN inner.break_cnt - 1 ELSE inner.break_cnt]
    BY <1>1, <2>1 DEF Inner!EndInput
  <2> QED BY <2>1, <2>2
<1>7. \A p \in Path : toks[p] # Free <=> p \in ends
  BY <1>5
<1>8. \A p \in Path : Inner!Ended(toks, p) <=> p \in ends /\ Head(path[p]).last
  BY <1>5, <1>7 DEF Inner!Ended
<1>9. 4 \notin Path => ~Inner!Ended(toks, 4)
  BY DEF Inner!Ended
<1>10. inner'.end_reg \in [Path -> [valued : BOOLEAN, last : BOOLEAN]]
  <2>1. ASSUME NEW p \in Path
        PROVE  (IF toks[p] = Free THEN inner.end_reg[p] ELSE [valued |-> toks[p].value # 0, last |-> toks[p].last])
                 \in [valued : BOOLEAN, last : BOOLEAN]
    <3>1. CASE p \in ends
      <4>1. toks[p] = Delivered(p) /\ toks[p] # Free
        BY <1>5, <3>1
      <4>2. toks[p].last \in BOOLEAN
        BY <1>5, <3>1, <4>1
      <4> HIDE DEF toks
      <4> QED BY <4>1, <4>2
    <3>2. CASE p \notin ends
      BY <1>2, <1>7, <3>2, Typed
    <3> QED BY <3>1, <3>2
  <2> HIDE DEF toks
  <2> QED BY <1>6, <2>1 DEF Inner!EndReg
<1> HIDE DEF toks, left, kept
<1>11. CountsOK' /\ inner'.df_cnt \in Nat /\ inner'.break_cnt \in Nat
  <2> DEFINE One == IF inner.reg0 # Free THEN 1 ELSE 0
  <2>1. ASSUME NEW p \in Path
        PROVE  UnderWay(p)' \in Nat /\ UnderWay(p) \in Nat /\ UnderWay(p)' = UnderWay(p) - Out(p)
    <3>1. Lasts(path[p]) \in Nat /\ Lasts(path'[p]) \in Nat /\ Lasts(path[p]) + In = Lasts(path'[p]) + Out(p)
      BY <1>2, <1>4, Typed, LastsType
    <3>2. UnderWay(p) = Lasts(path[p]) + In + One
      BY DEF UnderWay
    <3>3. UnderWay(p)' = Lasts(path'[p]) + 0 + One
      BY <1>1, <1>6 DEF UnderWay
    <3>4. Out(p) \in Nat /\ In \in Nat /\ One \in Nat
      OBVIOUS
    <3> HIDE DEF Out, In, One
    <3> QED BY <3>1, <3>2, <3>3, <3>4
  <2>2. inner'.df_cnt = UnderWay(0)'
    <3>1. inner.df_cnt = UnderWay(0) /\ UnderWay(0)' = UnderWay(0) - Out(0) /\ UnderWay(0) \in Nat
      BY <1>3, <2>1 DEF IInv, CountsOK
    <3>2. Out(0) = IF Inner!Ended(toks, 0) THEN 1 ELSE 0
      BY <1>3, <1>8
    <3> HIDE DEF Out
    <3> QED BY <1>6, <3>1, <3>2
  <2>3. 4 \in Path => inner'.break_cnt = UnderWay(4)'
    <3> SUFFICES ASSUME 4 \in Path PROVE inner'.break_cnt = UnderWay(4)'
      OBVIOUS
    <3>1. inner.break_cnt = UnderWay(4) /\ UnderWay(4)' = UnderWay(4) - Out(4) /\ UnderWay(4) \in Nat
      BY <2>1 DEF IInv, CountsOK
    <3>2. Out(4) = IF Inner!Ended(toks, 4) THEN 1 ELSE 0
      BY <1>8
    <3> HIDE DEF Out
    <3> QED BY <1>6, <3>1, <3>2
  <2>4. 4 \notin Path => inner'.break_cnt \in Nat
    BY <1>2, <1>6, <1>9, Typed
  <2> QED BY <1>1, <1>3, <2>1, <2>2, <2>3, <2>4 DEF CountsOK
<1>12. kept \in 0 .. Capacity /\ passed' \in 0 .. Capacity /\ kept <= passed /\ passed \in 0 .. Capacity
  BY <1>1, <1>2, Assumed DEF TypeOK, kept
<1>13. TypeOK'
  <2>1. inner' \in Inner!StateType
    BY <1>3, <1>6, <1>10, <1>11 DEF Inner!StateType
  <2>2. inner' \in Inner!StateType'
    BY <1>1, <2>1 DEF Inner!StateType, Inner!DfgEnd
  <2>3. path' \in [Path -> Seq(Inner!Token)] /\ \A p \in Path : Len(path'[p]) <= Capacity
    BY <1>1, <1>4
  <2>4. inner_bp' \in [{0, 1} -> BOOLEAN] /\ outer_bp' \in [{1} -> BOOLEAN]
    BY <1>1 DEF Inner!GetBp
  <2>5. pc' \in {"outer", "inner", "body", "stop"}
    BY <1>1
  <2> QED BY <1>1, <1>2, <1>12, <2>2, <2>3, <2>4, <2>5 DEF TypeOK
<1>14. PhaseOK'
  <2>1. started
    BY <1>1 DEF IInv, PhaseOK
  <2>2. outer_bp'[1] <=> inner'.reg0 = Free
    <3>1. outer_bp'[1] = Inner!GetBp(inner)
      BY <1>1
    <3>2. Inner!GetBp(inner) <=> inner'.reg0 = Free
      BY <1>6 DEF Inner!GetBp
    <3> QED BY <3>1, <3>2
  <2>3. pc' # "inner" /\ pc' # "body"
    BY <1>1
  <2> QED BY <1>1, <2>1, <2>2, <2>3 DEF PhaseOK
<1>15. OuterOK'
  <2>1. Busy' <=> Busy
    BY <1>1, <1>6 DEF Busy
  <2>2. OuterValue' = OuterValue
    BY <1>1, <2>1 DEF OuterValue
  <2> QED BY <1>1, <2>1, <2>2 DEF IInv, OuterOK
<1>16. InnerOK'
  BY <1>1, <1>6 DEF IInv, InnerOK, InnerValue, Broken, OuterToken
<1>17. RoomOK'
  <2>1. inner'.reg0 = Free => passed' < Capacity
    <3> SUFFICES ASSUME inner.reg0 = Free PROVE passed' < Capacity
      BY <1>6
    <3>1. iteration = Free /\ passed < Capacity
      BY <1>1 DEF IInv, PhaseOK, RoomOK
    <3> QED BY <1>1, <1>12, <3>1, Assumed
  <2>2. inner_bp'[0] => passed' < Capacity
    BY <1>1
  <2>3. inner_bp'[1] => \A p \in Path : Len(path'[p]) < Capacity
    BY <1>1
  <2> QED BY <1>1, <2>1, <2>2, <2>3 DEF RoomOK
<1>18. EndOK'
  <2>1. over /\ path'[0] # << >> => path'[0][Len(path'[0])].last
    <3> SUFFICES ASSUME over, path'[0] # << >> PROVE path'[0][Len(path'[0])].last
      OBVIOUS
    <3>1. path'[0][Len(path'[0])] = IF wire # Free THEN wire ELSE path[0][Len(path[0])]
      BY <1>3, <1>4
    <3>2. wire = Free => path[0] # << >>
      BY <1>3, <1>4
    <3> QED BY <3>1, <3>2 DEF IInv, EndOK
  <2>2. Finished => Finished'
    BY <1>1, <1>3, <1>4 DEF Finished
  <2>3. outer'.end_reg[0].last \/ outer'.end_flag[0] \/ task_finish' => Finished'
    BY <1>1, <2>2 DEF IInv, EndOK
  <2>4. inner'.last_flag => over' \/ (inner'.reg0 # Free /\ i' >= OuterBound)
    BY <1>1, <1>6 DEF IInv, EndOK
  <2> QED BY <1>1, <2>1, <2>3, <2>4 DEF EndOK
<1> QED BY <1>1, <1>2, <1>11, <1>13, <1>14, <1>15, <1>16, <1>17, <1>18 DEF IInv

-----------------------------------------------------------------------------
(* Before the first cycle nothing is under way.                             *)
LEMMA InitIInv == Init => IInv
<1> SUFFICES ASSUME Init PROVE IInv
  OBVIOUS
<1>1. /\ pc = "outer" /\ Path \in EndPorts /\ started = FALSE
      /\ outer_bp = [p \in {1} |-> TRUE] /\ inner_bp = [p \in {0, 1} |-> TRUE]
      /\ iteration = Free /\ wire = Free /\ path = [p \in Path |-> << >>] /\ passed = 0
      /\ task_finish = FALSE /\ i = OuterInitial /\ j = InnerInitial /\ over = FALSE
  BY DEF Init
<1>2. outer = [reg0 |-> Free, first_loop |-> TRUE, buffer |-> Outer!B!EmptyRing,
               end_reg |-> [e \in {0} |-> [valued |-> FALSE, last |-> FALSE]],
               end_flag |-> [e \in Outer!DfgEnd |-> FALSE], df_cnt |-> 0, break_cnt |-> 0,
               last_flag |-> TRUE]
  BY DEF Init, Outer!Start
<1>3. inner = [reg0 |-> Free, first_loop |-> TRUE, buffer |-> Inner!B!EmptyRing,
               end_reg |-> [e \in Path |-> [valued |-> FALSE, last |-> FALSE]],
               end_flag |-> [e \in Inner!DfgEnd |-> FALSE], df_cnt |-> 0, break_cnt |-> 0,
               last_flag |-> FALSE]
  BY DEF Init, Inner!Start
<1>4. ~Busy /\ 0 \in Path /\ Capacity \in Nat \ {0} /\ OuterInitial \in Nat /\ InnerInitial \in Nat
  BY <1>1, <1>3, InnerConstants, Assumed DEF Busy
<1>5. TypeOK
  <2>1. Outer!B!EmptyRing \in Outer!B!RingType /\ Inner!B!EmptyRing \in Inner!B!RingType
    BY OuterRegister, InnerRegister
  <2>2. outer \in Outer!StateType
    BY <1>2, <2>1 DEF Outer!StateType
  <2>3. inner \in Inner!StateType
    BY <1>3, <2>1 DEF Inner!StateType
  <2>4. path \in [Path -> Seq(Inner!Token)] /\ \A p \in Path : Len(path[p]) <= Capacity
    BY <1>1, <1>4, EmptySeq
  <2>5. outer_bp \in [{1} -> BOOLEAN] /\ inner_bp \in [{0, 1} -> BOOLEAN] /\ passed \in 0 .. Capacity
    BY <1>1, <1>4
  <2>6. /\ pc \in {"outer", "inner", "body", "stop"} /\ Path \in EndPorts /\ started \in BOOLEAN
        /\ iteration \in Outer!Token \cup {Free} /\ wire \in Inner!Token \cup {Free}
        /\ task_finish \in BOOLEAN
    BY <1>1
  <2> QED BY <2>2, <2>3, <2>4, <2>5, <2>6 DEF TypeOK
<1>6. PhaseOK
  BY <1>1, <1>3 DEF PhaseOK
<1>7. OuterOK
  BY <1>1, <1>2, <1>4, OuterRegister DEF OuterOK
<1>8. InnerOK
  BY <1>1, <1>3, <1>4, InnerRegister DEF InnerOK
<1>9. CountsOK
  <2>1. \A p \in Path : UnderWay(p) = 0
    BY <1>1, <1>3, LastsEmpty DEF UnderWay
  <2> QED BY <1>3, <1>4, <2>1 DEF CountsOK
<1>10. RoomOK
  BY <1>1, <1>4, EmptySeq DEF RoomOK
<1>11. EndOK
  <2>1. ~outer.end_reg[0].last /\ ~outer.end_flag[0]
    BY <1>2, OuterConstants
  <2> QED BY <1>1, <1>3, <2>1 DEF EndOK
<1> QED BY <1>1, <1>4, <1>5, <1>6, <1>7, <1>8, <1>9, <1>10, <1>11 DEF IInv

LEMMA NextIInv == OneLast /\ IInv /\ [Next]_vars => IInv'
<1> SUFFICES ASSUME OneLast, IInv, [Next]_vars PROVE IInv'
  OBVIOUS
<1>1. CASE OuterUpdate
  BY <1>1, OuterUpdateIInv
<1>2. CASE InnerUpdate
  BY <1>2, InnerUpdateIInv
<1>3. ASSUME NEW ends \in SUBSET Path, NEW take \in BOOLEAN, BodyUpdate(ends, take) PROVE IInv'
  BY <1>3, BodyUpdateIInv
<1>4. CASE UNCHANGED vars
  <2>1. /\ pc' = pc /\ Path' = Path /\ started' = started /\ outer' = outer /\ inner' = inner
        /\ outer_bp' = outer_bp /\ inner_bp' = inner_bp /\ iteration' = iteration /\ wire' = wire
        /\ path' = path /\ passed' = passed /\ task_finish' = task_finish
        /\ i' = i /\ j' = j /\ over' = over
    BY <1>4 DEF vars, history
  <2>2. TypeOK'
    <3>1. inner' \in Inner!StateType'
      BY <2>1 DEF IInv, TypeOK, Inner!StateType, Inner!DfgEnd
    <3> QED BY <2>1, <3>1 DEF IInv, TypeOK
  <2>3. PhaseOK' /\ RoomOK'
    BY <2>1 DEF IInv, PhaseOK, RoomOK, OuterToken
  <2>4. OuterOK'
    BY <2>1 DEF IInv, OuterOK, OuterValue, Busy
  <2>5. InnerOK'
    BY <2>1 DEF IInv, InnerOK, InnerValue, Broken, OuterToken
  <2>6. CountsOK'
    BY <2>1 DEF IInv, CountsOK, UnderWay
  <2>7. EndOK'
    BY <2>1 DEF IInv, EndOK, Finished
  <2> QED BY <2>1, <2>2, <2>3, <2>4, <2>5, <2>6, <2>7 DEF IInv
<1> QED BY <1>1, <1>2, <1>3, <1>4 DEF Next

(* IInv holds in every reachable state: the value that waits in each        *)
(* controller's buffer, and the count of the loops that are still in the    *)
(* body, for every bound, step and pace.                                    *)
THEOREM Invariance == ASSUME OneLast PROVE Spec => []IInv
<1>1. IInv /\ [Next]_vars => IInv'
  BY NextIInv
<1> QED BY InitIInv, <1>1, PTL DEF Spec

(* The type invariant: among the rest, df_cnt and break_cnt never go below  *)
(* zero, and no register takes a token the program has no value for.        *)
THEOREM TypeCorrect == ASSUME OneLast PROVE Spec => []TypeOK
<1>1. IInv => TypeOK
  BY DEF IInv
<1> QED BY Invariance, <1>1, PTL

(* lc_output[0] is put out without a look at the credit of its consumer, and *)
(* there is room all the same: register 0 accepted it on that credit.       *)
THEOREM RoomForPassed == ASSUME OneLast PROVE Spec => []PassedHasRoom
<1>1. IInv => PassedHasRoom
  BY DEF IInv, RoomOK, PassedHasRoom
<1> QED BY Invariance, <1>1, PTL

(* When the outer controller sets task_finish the body is empty, provided   *)
(* port 0 is the only end port that the nest's data flow is connected to:   *)
(* df_cnt is counted down by that port alone.                               *)
THEOREM EndsAfterBody ==
  ASSUME OneLast, \A ports \in EndPorts : ports \cap 0 .. 3 = {0}
  PROVE  Spec => []EndAfterBody
<1>1. IInv => EndAfterBody
  <2> SUFFICES ASSUME IInv, task_finish PROVE over /\ wire = Free /\ \A p \in Path \cap 0 .. 3 : path[p] = << >>
    BY DEF EndAfterBody
  <2>1. Finished
    BY DEF IInv, EndOK
  <2>2. Path \cap 0 .. 3 = {0}
    BY DEF IInv, TypeOK
  <2> QED BY <2>1, <2>2 DEF Finished
<1> QED BY Invariance, <1>1, PTL

(* The two controllers implement CountedNest: the body gets each iteration  *)
(* of the two loops once and in order, and each inner loop has one last,    *)
(* however late a break comes.                                              *)
THEOREM Counting == ASSUME OneLast PROVE Spec => CountsIterations
<1>1. Init => Nest!Init
  <2>1. (4 \in Path) \in BOOLEAN
    OBVIOUS
  <2> QED BY <2>1 DEF Init, Nest!Init
<1>2. IInv /\ [Next]_vars => [Nest!Next]_(Nest!vars)
  <2> SUFFICES ASSUME IInv, [Next]_vars PROVE Nest!Next \/ UNCHANGED Nest!vars
    OBVIOUS
  <2>1. CASE OuterUpdate
    BY <2>1, OuterTurn DEF Nest!vars
  <2>2. CASE InnerUpdate
    <3>1. Path' = Path /\ wire = Free
      BY <2>2, InnerTurn
    <3>2. \/ wire' = Free /\ i' = i /\ j' = j /\ over' = over
          \/ /\ wire' # Free /\ ~over /\ (wire' = Nest!Token(i, j) \/ Broken(wire'))
             /\ Nest!Advance(wire'.last)
      BY <2>2, InnerTurn
    <3>3. Broken(wire') => Nest!Break
      BY DEF Broken, Nest!Break
    <3>4. CASE wire' = Free /\ i' = i /\ j' = j /\ over' = over
      BY <3>1, <3>4 DEF Nest!vars
    <3>5. CASE /\ wire' # Free /\ ~over /\ (wire' = Nest!Token(i, j) \/ Broken(wire'))
               /\ Nest!Advance(wire'.last)
      BY <3>1, <3>3, <3>5 DEF Nest!Next, Nest!Send, Nest!Emit
    <3> QED BY <3>2, <3>4, <3>5
  <2>3. ASSUME NEW ends \in SUBSET Path, NEW take \in BOOLEAN, BodyUpdate(ends, take)
        PROVE  Nest!Next \/ UNCHANGED Nest!vars
    <3>1. wire' = Free /\ Path' = Path /\ i' = i /\ j' = j /\ over' = over
      BY <2>3 DEF BodyUpdate, history
    <3> QED BY <3>1 DEF Nest!vars, Nest!Next, Nest!Clear
  <2>4. CASE UNCHANGED vars
    BY <2>4 DEF vars, history, Nest!vars
  <2> QED BY <2>1, <2>2, <2>3, <2>4 DEF Next
<1> QED BY Invariance, <1>1, <1>2, PTL DEF Spec, CountsIterations, Nest!Spec
=============================================================================
