----------------------------- MODULE LoadElement -----------------------------
(***************************************************************************)
(* A load element (src/src/sim/Node/LSE.cpp, ls_mode load, match off,      *)
(* order_force on) and the line it owns in the arbiter of the LSU.  An     *)
(* address gets a tag, the index of the slot of outbuffer its data comes   *)
(* back to; the memory answers in any order, the slots are emptied in the  *)
(* order of their tags.  A last token, or one whose condition is false, is *)
(* no request: it is put into its slot directly.                           *)
(*                                                                         *)
(* The LSU is the environment here: at any time between two updates of the *)
(* element it may accept the request on the line, which it acknowledges,   *)
(* and answer any request it has accepted.                                 *)
(***************************************************************************)
EXTENDS Naturals, Sequences

CONSTANTS InDepth,       \* lse_inbuffer_depth
          OutDepth,      \* le_outbuffer_depth_*
          Load,          \* tokens that are requests
          Pass,          \* tokens that only keep their place
          Free           \* no token

ASSUME LoadAssumption ==
  /\ InDepth \in Nat \ {0} /\ OutDepth \in Nat \ {0}
  /\ Load \cap Pass = {} /\ Free \notin Load \cup Pass

Token == Load \cup Pass
Tag   == 0 .. (OutDepth - 1)

In == INSTANCE Ring WITH Depth <- InDepth

VARIABLES pc,
          inbuf, input_port, this_bp,          \* towards the array, upstream
          slot, head_ptr, output_port,         \* towards the array, downstream
          tag_counter, maintain_order,         \* slot is free for a new occupant
          nextlsu_bp, firstlsu, wait_for_data, \* towards the LSU
          line,                                \* the ArbitratorLine
          accepted,                            \* requests the LSU has yet to answer
          pending                              \* history: received, not yet sent on

array == <<inbuf, input_port, this_bp, slot, head_ptr, output_port>>
order == <<tag_counter, maintain_order, nextlsu_bp, firstlsu, wait_for_data>>
vars  == <<pc, array, order, line, accepted, pending>>

Request == [tag : Tag, addr : Load]

ASSUME FreeIsNoRequest == Free \notin Request

TypeOK ==
  /\ pc \in {"simStep2", "simStep1"}
  /\ inbuf \in In!RingType /\ input_port \in Token \cup {Free} /\ this_bp \in BOOLEAN
  /\ slot \in [Tag -> Token \cup {Free}] /\ head_ptr \in Tag
  /\ output_port \in Token \cup {Free}
  /\ tag_counter \in Tag /\ maintain_order \in [Tag -> BOOLEAN]
  /\ nextlsu_bp \in BOOLEAN /\ firstlsu \in BOOLEAN /\ wait_for_data \in BOOLEAN
  /\ line \in Request \cup {Free} /\ accepted \subseteq Request
  /\ pending \in Seq(Token)

(* The constructor leaves wait_for_data uninitialised.                      *)
Init ==
  /\ pc = "simStep2"
  /\ inbuf = In!EmptyRing /\ input_port = Free /\ this_bp = TRUE
  /\ slot = [t \in Tag |-> Free] /\ head_ptr = 0 /\ output_port = Free
  /\ tag_counter = 0 /\ maintain_order = [t \in Tag |-> TRUE]
  /\ nextlsu_bp = TRUE /\ firstlsu = TRUE /\ wait_for_data \in BOOLEAN
  /\ line = Free /\ accepted = {} /\ pending = << >>

-----------------------------------------------------------------------------
(* The upstream node sends on credit.                                       *)
Arrive(tok) ==
  /\ pc = "simStep2" /\ this_bp /\ input_port = Free
  /\ input_port' = tok
  /\ pending' = Append(pending, tok)
  /\ UNCHANGED <<pc, inbuf, this_bp, slot, head_ptr, output_port, order, line, accepted>>

(* returnACK and callbackACK: the LSU takes the request off the line.       *)
Accept ==
  /\ pc = "simStep2" /\ line # Free
  /\ accepted' = accepted \cup {line} /\ line' = Free
  /\ nextlsu_bp' = TRUE
  /\ UNCHANGED <<pc, array, tag_counter, maintain_order, firstlsu, wait_for_data, pending>>

(* Mutation: the data goes to the slot of the current tag, as it does in    *)
(* leSimStep2NoMem.                                                         *)
AnswerCurrent(req) ==
  /\ pc = "simStep2"
  /\ accepted' = accepted \ {req}
  /\ slot' = [slot EXCEPT ![tag_counter] = IF @ = Free THEN req.addr ELSE @]
  /\ UNCHANGED <<pc, inbuf, input_port, this_bp, head_ptr, output_port, order, line, pending>>

(* LSEcallback: the data goes to the slot of its tag.  If the slot is       *)
(* occupied the data is dropped and a line is logged.                       *)
Answer(req) ==
  /\ pc = "simStep2"
  /\ accepted' = accepted \ {req}
  /\ slot' = [slot EXCEPT ![req.tag] = IF @ = Free THEN req.addr ELSE @]
  /\ UNCHANGED <<pc, inbuf, input_port, this_bp, head_ptr, output_port, order, line, pending>>

(* tag_counter_update, and update_head of outbuffer.                        *)
NextTag(t) == IF t + 1 = OutDepth THEN 0 ELSE t + 1

(* The slot at the head is sent on when the downstream grants credit.       *)
Sends(next_bp) == next_bp /\ slot[head_ptr] # Free

(* Mutations: the slot is freed when it has not been sent; order_force off. *)
FreedUnsent(next_bp) ==
  IF next_bp THEN [maintain_order EXCEPT ![head_ptr] = TRUE] ELSE maintain_order
FreedAll(next_bp) == [t \in Tag |-> TRUE]

(* Sending a slot on frees it for a new occupant.                           *)
Freed(next_bp) ==
  IF Sends(next_bp) THEN [maintain_order EXCEPT ![head_ptr] = TRUE] ELSE maintain_order

(* Mutation: the first token gets tag 1.                                    *)
TagOfFirst(fresh) == IF fresh THEN NextTag(tag_counter) ELSE tag_counter

(* A token looked at for the first time gets the next tag, the first of all *)
(* gets tag 0.                                                              *)
TagOf(fresh) == IF fresh /\ ~firstlsu THEN NextTag(tag_counter) ELSE tag_counter

(* Mutation: sending a request does not take the flag away.                 *)
BpAfterUncleared(tok, owned, pass) == pass \/ (nextlsu_bp /\ (tok = Free \/ owned))

(* nextlsu_bp after the step: a request waits for its acknowledgement, any  *)
(* other token for its slot.                                                *)
BpAfter(tok, owned, pass) ==
  pass \/ (nextlsu_bp /\ tok \notin Load /\ (tok = Free \/ owned))

(* leSimStep2.  The slot at the head is emptied when the downstream grants  *)
(* credit, which frees it for a new occupant.  When the LSU has taken the   *)
(* last request (nextlsu_bp) the next token is looked at and given the next *)
(* tag; until its slot is free it is looked at again in every cycle.        *)
SimStep2(next_bp) ==
  /\ pc = "simStep2" /\ pc' = "simStep1"
  /\ LET sends  == Sends(next_bp)
         slots  == IF sends THEN [slot EXCEPT ![head_ptr] = Free] ELSE slot
         owner  == Freed(next_bp)
         buffer == IF nextlsu_bp /\ ~wait_for_data THEN In!Reset(inbuf) ELSE inbuf
         tok    == In!Front(buffer)
         fresh  == nextlsu_bp /\ tok # Free
         tag    == TagOf(fresh)
         load   == tok \in Load /\ owner[tag]
         pass   == tok \in Pass /\ owner[tag] /\ slots[tag] = Free
     IN  /\ output_port' = IF sends THEN slot[head_ptr] ELSE Free
         /\ head_ptr' = IF sends THEN NextTag(head_ptr) ELSE head_ptr
         /\ inbuf' = buffer
         /\ wait_for_data' = IF nextlsu_bp THEN tok = Free ELSE wait_for_data
         /\ firstlsu' = (firstlsu /\ ~fresh)
         /\ tag_counter' = tag
         /\ line' = IF load THEN [tag |-> tag, addr |-> tok] ELSE line
         /\ slot' = IF pass THEN [slots EXCEPT ![tag] = tok] ELSE slots
         /\ maintain_order' = IF load \/ pass THEN [owner EXCEPT ![tag] = FALSE] ELSE owner
         /\ nextlsu_bp' = BpAfter(tok, owner[tag], pass)
         /\ pending' = IF sends /\ pending # << >> THEN Tail(pending) ELSE pending
  /\ UNCHANGED <<input_port, this_bp, accepted>>

(* leSimStep1, simBp and wireReset.  break_state is never set.              *)
SimStep1 ==
  /\ pc = "simStep1" /\ pc' = "simStep2"
  /\ LET stored == IF input_port = Free THEN inbuf ELSE In!Input(inbuf, input_port)
     IN  /\ inbuf' = stored
         /\ this_bp' = In!NotFull(stored)
  /\ input_port' = Free /\ output_port' = Free
  /\ UNCHANGED <<slot, head_ptr, order, line, accepted, pending>>

Next ==
  \/ \E tok \in Token : Arrive(tok)
  \/ Accept
  \/ \E req \in accepted : Answer(req)
  \/ \E next_bp \in BOOLEAN : SimStep2(next_bp)
  \/ SimStep1

(* run() updates every node and the LSU in every cycle.  The downstream     *)
(* grants credit again and again, and the LSU neither refuses a request for *)
(* ever nor leaves one unanswered.                                          *)
Fairness ==
  /\ WF_vars(\E next_bp \in BOOLEAN : SimStep2(next_bp))
  /\ SF_vars(SimStep2(TRUE))
  /\ WF_vars(SimStep1)
  /\ SF_vars(Accept)
  /\ \A req \in Request : SF_vars(req \in accepted /\ Answer(req))

Spec == Init /\ [][Next]_vars
FairSpec == Spec /\ Fairness

-----------------------------------------------------------------------------
(* A slot that is marked free for a new occupant is empty and no request    *)
(* that is under way will come back to it.                                  *)
OneOwner ==
  \A t \in Tag :
    maintain_order[t] => /\ slot[t] = Free
                         /\ \A req \in accepted : req.tag # t
                         /\ line # Free => line.tag # t

(* The memory's answer always finds its slot empty: LSEcallback only logs   *)
(* when it does not (LSE.cpp, the assertion after it is commented out).     *)
AnswerHasRoom == \A req \in accepted : slot[req.tag] = Free

(* A request that the LSU has not accepted stays on the line: AddTrans      *)
(* overwrites the line without looking.                                     *)
RequestKept == [][line # Free => line' \in {line, Free}]_vars

(* What leaves the element is the oldest token that entered it, whatever    *)
(* the order in which the memory answers.                                   *)
InOrder ==
  [][output_port' # Free /\ output_port = Free
       => pending # << >> /\ output_port' = Head(pending)]_vars

(* Nothing waits for ever in the element.                                   *)
KeepsMoving == []<>(pending = << >> \/ output_port # Free)
-----------------------------------------------------------------------------
(***************************************************************************)
(* The inductive invariant.  Credit is a promise of room; a request has    *)
(* its tag to itself; the element looks at the front of inbuf, and knows   *)
(* whether it has looked.                                                  *)
(***************************************************************************)
CreditKept ==
  (pc = "simStep2" /\ this_bp) \/ input_port # Free => In!NotFull(inbuf)

TagsDiffer == \A r1, r2 \in accepted : r1.tag = r2.tag => r1 = r2

LineOwnsTag ==
  line # Free => /\ ~nextlsu_bp /\ line.tag = tag_counter
                 /\ slot[line.tag] = Free /\ ~maintain_order[line.tag]
                 /\ \A req \in accepted : req.tag # line.tag

Looked ==
  /\ wait_for_data \/ firstlsu => nextlsu_bp
  /\ ~wait_for_data /\ ~firstlsu => In!Front(inbuf) # Free
  /\ ~wait_for_data /\ firstlsu => pc = "simStep2" /\ In!Front(inbuf) = Free

(* The front of inbuf has its slot.                                         *)
FrontGranted == ~wait_for_data /\ ~firstlsu /\ (nextlsu_bp \/ line # Free)

(* The tag that comes next, and the i-th tag from the head.                 *)
NextOwner ==
  IF firstlsu \/ (~nextlsu_bp /\ line = Free) THEN tag_counter ELSE NextTag(tag_counter)

From(h, i) == IF h + i < OutDepth THEN h + i ELSE h + i - OutDepth
At(i) == From(head_ptr, i)

(* A token that has its slot is there, or on its way there.                 *)
Holds(t, tok) ==
  \/ slot[t] = tok
  \/ [tag |-> t, addr |-> tok] \in accepted
  \/ line # Free /\ line = [tag |-> t, addr |-> tok]

WaitingIn(buf, wire) == In!Content(buf) \o (IF wire = Free THEN << >> ELSE <<wire>>)
Waiting == WaitingIn(inbuf, input_port)

(* The k oldest tokens have the k tags from the head, in their order; the   *)
(* others wait in inbuf and on the wire.                                    *)
Ordered(k) ==
  LET gone == IF FrontGranted THEN k - 1 ELSE k
  IN  /\ FrontGranted => k > 0
      /\ NextOwner = At(k)
      /\ \A i \in Tag : maintain_order[At(i)] <=> i >= k
      /\ \A i \in 1 .. k : Holds(At(i - 1), pending[i])
      /\ Len(pending) = gone + Len(Waiting)
      /\ \A j \in 1 .. Len(Waiting) : pending[gone + j] = Waiting[j]

OrderKept == \E k \in 0 .. OutDepth : Ordered(k)

IInv ==
  /\ TypeOK /\ In!RingOK(inbuf)
  /\ CreditKept /\ OneOwner /\ AnswerHasRoom /\ TagsDiffer /\ LineOwnsTag
  /\ Looked /\ OrderKept
=============================================================================
