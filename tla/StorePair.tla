------------------------------ MODULE StorePair ------------------------------
(***************************************************************************)
(* The two store elements that make one store unit (src/src/sim/Node/      *)
(* LSE.cpp, ls_mode store_addr and store_data) and the line the pair owns  *)
(* in the arbiter of the LSU.  Each side puts its tokens into the slots of *)
(* its own outbuffer by its own tag counter; sedSimStep2 looks for a tag   *)
(* that both sides hold, puts the pair on the line, and clears the pair's  *)
(* slots when the LSU has acknowledged it.  A pair with a hole or a last   *)
(* in it is no store and is cleared at once.                               *)
(*                                                                         *)
(* The acknowledgement is the flag nextlsu_bp, which the constructor sets: *)
(* the pair starts as if something had been acknowledged.                  *)
(***************************************************************************)
EXTENDS Integers, Sequences, FiniteSets

CONSTANTS Depth,         \* le_outbuffer_depth_* of both sides
          Data,          \* tokens with a value
          Pass,          \* holes and ends of loops
          Free,          \* no token
          GoodStart      \* is the first pair a store, accepted in its cycle?

ASSUME StoreAssumption ==
  /\ Depth \in Nat \ {0} /\ Data \cap Pass = {} /\ Free \notin Data \cup Pass
  /\ GoodStart \in BOOLEAN

Token == Data \cup Pass
Tag   == 0 .. (Depth - 1)
Side  == {"addr", "data"}

R == INSTANCE Ring

VARIABLES pc,
          input_port, this_bp,   \* per side, towards the array
          slot,                  \* per side, the outbuffer
          tag_counter,           \* per side, the tag of the next token
          nextlsu_bp, firstlsu,
          sended_tag, first_seektag, \* uninitialised in the constructor
          line,                  \* the ArbitratorLine
          taken,                 \* history: has the LSU ever taken a store?
          sent                   \* history: per side, received and not yet used

vars == <<pc, input_port, this_bp, slot, tag_counter, nextlsu_bp, firstlsu,
          sended_tag, first_seektag, line, taken, sent>>

Store == [addr : Data, data : Data]

ASSUME FreeIsNoStore == Free \notin Store

TypeOK ==
  /\ pc \in {"idle", "simStep2", "simStep1"}
  /\ input_port \in [Side -> Token \cup {Free}] /\ this_bp \in [Side -> BOOLEAN]
  /\ slot \in [Side -> [Tag -> Token \cup {Free}]] /\ tag_counter \in [Side -> Tag]
  /\ nextlsu_bp \in BOOLEAN /\ firstlsu \in BOOLEAN
  /\ sended_tag \in Tag /\ first_seektag \in Tag
  /\ line \in Store \cup {Free} /\ taken \in BOOLEAN /\ sent \in [Side -> Seq(Token)]

Init ==
  /\ pc = "idle"
  /\ input_port = [s \in Side |-> Free] /\ this_bp = [s \in Side |-> TRUE]
  /\ slot = [s \in Side |-> [t \in Tag |-> Free]]
  /\ tag_counter = [s \in Side |-> 0]
  /\ nextlsu_bp = TRUE /\ firstlsu = TRUE
  /\ sended_tag \in Tag /\ first_seektag \in Tag
  /\ line = Free /\ taken = FALSE /\ sent = [s \in Side |-> << >>]

-----------------------------------------------------------------------------
(* tag_counter_update.                                                      *)
NextTag(t) == IF t + 1 = Depth THEN 0 ELSE t + 1

(* value_update: where the next search starts.                              *)
NextSeek(t) == IF t = Depth - 1 THEN 0 ELSE t + 1

(* resetTag on both sides.                                                  *)
Clear(slots, t) == [s \in Side |-> [slots[s] EXCEPT ![t] = Free]]

(* getTagMatchIndex on both sides and findSameValueInVectors: the first tag *)
(* from where the search starts, going round, that both sides hold.         *)
Both(slots) == {t \in Tag : \A s \in Side : slots[s][t] # Free}

Distance(from, t) == IF from <= t THEN t - from ELSE t + Depth - from

(* Mutation: the search always starts at slot 0.                            *)
FirstMatchFromZero(slots, from) ==
  CHOOSE t \in Both(slots) : \A u \in Both(slots) : t <= u

FirstMatch(slots, from) ==
  CHOOSE t \in Both(slots) : \A u \in Both(slots) : Distance(from, t) <= Distance(from, u)

(* An upstream node sends on credit.                                        *)
Arrive(s, tok) ==
  /\ pc = "idle" /\ this_bp[s] /\ input_port[s] = Free
  /\ (GoodStart /\ firstlsu /\ sent[s] = << >>) => tok \in Data
  /\ input_port' = [input_port EXCEPT ![s] = tok]
  /\ sent' = [sent EXCEPT ![s] = Append(@, tok)]
  /\ UNCHANGED <<pc, this_bp, slot, tag_counter, nextlsu_bp, firstlsu,
                 sended_tag, first_seektag, line, taken>>

(* returnACK and callbackACK: the LSU takes the store off the line.  The    *)
(* history drops the oldest token of each side.                             *)
Accept ==
  /\ pc = "idle" /\ line # Free
  /\ line' = Free /\ nextlsu_bp' = TRUE /\ taken' = TRUE
  /\ sent' = [s \in Side |-> Tail(sent[s])]
  /\ UNCHANGED <<pc, input_port, this_bp, slot, tag_counter, firstlsu,
                 sended_tag, first_seektag>>

(* seSimStep1 and simBp on one side.                                        *)
StoreToken(s, slots) ==
  IF input_port[s] # Free /\ slots[tag_counter[s]] = Free
  THEN [slots EXCEPT ![tag_counter[s]] = input_port[s]]
  ELSE slots

(* Mutation: the counter goes on when nothing was stored.                   *)
TagAfterAlways(s, slots) == NextTag(tag_counter[s])

TagAfter(s, slots) ==
  IF input_port[s] # Free /\ slots[tag_counter[s]] = Free
  THEN NextTag(tag_counter[s])
  ELSE tag_counter[s]

(* Mutation: credit is granted on an occupied slot.                         *)
GetBpTagAlways(slots, tag) == TRUE

(* getBpTag: the slot of the next token is free.                            *)
GetBpTag(slots, tag) == slots[tag] = Free

SimStep1(s) ==
  LET tag    == TagAfter(s, slot[s])
      stored == StoreToken(s, slot[s])
  IN  /\ slot' = [slot EXCEPT ![s] = stored]
      /\ tag_counter' = [tag_counter EXCEPT ![s] = tag]
      /\ this_bp' = [this_bp EXCEPT ![s] = GetBpTag(stored, tag)]
      /\ input_port' = [input_port EXCEPT ![s] = Free]

(* The address side is configured just before the data side; its update     *)
(* only stores.  With GoodStart the LSU has taken the first store before    *)
(* the next cycle begins.                                                   *)
SeaUpdate ==
  /\ pc = "idle" /\ pc' = "simStep2"
  /\ (GoodStart /\ ~taken) => line = Free
  /\ SimStep1("addr")
  /\ UNCHANGED <<nextlsu_bp, firstlsu, sended_tag, first_seektag, line, taken, sent>>

(* The LSU has taken the last store.                                        *)
Acked == nextlsu_bp /\ ~firstlsu

(* Mutation: the acknowledgement is not used up.                            *)
BpAfterUncleared == nextlsu_bp

(* Acting on the acknowledgement uses it up.                                *)
BpAfter == nextlsu_bp /\ ~Acked

(* sedSimStep2 on the data side, for both.  What has been acknowledged is   *)
(* cleared; then the next pair is looked for, and looked for again in every *)
(* cycle until it is acknowledged.                                          *)
SedSimStep2 ==
  /\ pc = "simStep2" /\ pc' = "simStep1"
  /\ LET held  == IF Acked THEN Clear(slot, sended_tag) ELSE slot
         seek  == IF Acked THEN NextSeek(sended_tag) ELSE first_seektag
         found == Both(held) # {}
         tag   == FirstMatch(held, seek)
         pass  == found /\ \E s \in Side : held[s][tag] \in Pass
         store == found /\ ~pass
     IN  /\ nextlsu_bp' = BpAfter
         /\ firstlsu' = (firstlsu /\ ~found)
         /\ slot' = IF pass THEN Clear(held, tag) ELSE held
         /\ first_seektag' = IF pass THEN NextSeek(tag) ELSE seek
         /\ line' = IF store THEN [s \in Side |-> held[s][tag]] ELSE line
         /\ sended_tag' = IF store THEN tag ELSE sended_tag
         /\ sent' = IF pass THEN [s \in Side |-> Tail(sent[s])] ELSE sent
  /\ UNCHANGED <<input_port, this_bp, tag_counter, taken>>

SedSimStep1 ==
  /\ pc = "simStep1" /\ pc' = "idle"
  /\ SimStep1("data")
  /\ UNCHANGED <<nextlsu_bp, firstlsu, sended_tag, first_seektag, line, taken, sent>>

Next ==
  \/ \E s \in Side, tok \in Token : Arrive(s, tok)
  \/ Accept
  \/ SeaUpdate
  \/ SedSimStep2
  \/ SedSimStep1

(* run() updates both elements and the LSU in every cycle, and the LSU does *)
(* not refuse a store for ever.                                             *)
Fairness ==
  /\ WF_vars(SeaUpdate) /\ WF_vars(SedSimStep2) /\ WF_vars(SedSimStep1)
  /\ SF_vars(Accept)

Spec == Init /\ [][Next]_vars
FairSpec == Spec /\ Fairness

-----------------------------------------------------------------------------
(* "Transfers between LSE and LSU use the ack mechanism" (LSE.h, line 11):  *)
(* a store stays on the line until the LSU has taken it.                    *)
StoreKept == [][line # Free => line' \in {line, Free}]_vars

(* Addresses and data are paired as they were sent, and stores are taken in *)
(* that order, each once: what the LSU takes, or the pair drops as no       *)
(* store, is the oldest of what each side has received.                     *)
PairedInOrder ==
  [][/\ pc = "idle" /\ line # Free /\ line' = Free =>
          \A s \in Side : sent[s] # << >> /\ line[s] = Head(sent[s])
     /\ pc = "simStep2" /\ sent' # sent =>
          \E s \in Side : sent[s] # << >> /\ Head(sent[s]) \in Pass]_vars

(* Nothing is lost in the slots: the tokens a side holds or is about to     *)
(* hold are those it has received and not used, but for the pair that the   *)
(* LSU has taken and whose slots are cleared at the next update.            *)
NothingLost ==
  pc = "idle" =>
    \A s \in Side :
      LET held == Cardinality({t \in Tag : slot[s][t] # Free})
          wire == IF input_port[s] = Free THEN 0 ELSE 1
          done == IF Acked /\ line = Free /\ slot[s][sended_tag] # Free
                  THEN 1 ELSE 0
      IN  Len(sent[s]) = held + wire - done

(* The pair does not get stuck: while each side has something to be used,   *)
(* something is used again and again.                                       *)
Waiting == \A s \in Side : sent[s] # << >>
Used    == \E s \in Side : Len(sent'[s]) < Len(sent[s])

KeepsMoving == []<>(~Waiting) \/ []<><<Used>>_vars
-----------------------------------------------------------------------------
(***************************************************************************)
(* The inductive invariant, for a good start.  Each side's slots are a     *)
(* circular buffer whose tail is the tag counter and whose head is common  *)
(* to both sides: the pair on the line, the pair just taken and still to   *)
(* be cleared, or the one that is looked for.                              *)
(***************************************************************************)
Oldest == IF firstlsu THEN 0 ELSE IF Acked THEN sended_tag ELSE first_seektag

RingOf(s) == [slot  |-> slot[s],
              head  |-> Oldest,
              tail  |-> tag_counter[s],
              full  |-> slot[s][tag_counter[s]] # Free,
              empty |-> slot[s][Oldest] = Free]

SlotsConsistent == \A s \in Side : R!RingOK(RingOf(s))

(* The pair at the head has been taken.                                     *)
Done == Acked /\ line = Free

Held(s) == IF Done THEN Tail(R!Content(RingOf(s))) ELSE R!Content(RingOf(s))

SentIsHeld ==
  \A s \in Side : sent[s] = IF input_port[s] = Free THEN Held(s)
                                                    ELSE Append(Held(s), input_port[s])

CreditKept ==
  \A s \in Side : this_bp[s] \/ input_port[s] # Free => slot[s][tag_counter[s]] = Free

LineIsOldest ==
  /\ line # Free => sended_tag = Oldest /\ line = [s \in Side |-> slot[s][Oldest]]
  /\ Acked => \A s \in Side : slot[s][sended_tag] # Free

(* An acknowledgement with a store on the line is the constructor's, and    *)
(* the LSU takes that store before the pair is updated again.               *)
AckedOnce ==
  /\ line # Free => ~firstlsu /\ (Acked => ~taken /\ pc # "simStep2")
  /\ ~firstlsu /\ ~taken => line # Free
  /\ firstlsu => nextlsu_bp /\ ~taken

(* As long as there has been no pair, one side has nothing, or nothing but  *)
(* its first token, which is no hole.                                       *)
Empty(s)     == \A t \in Tag : slot[s][t] = Free
AtMostOne(s) == \A t \in Tag \ {0} : slot[s][t] = Free

BeforeFirst ==
  firstlsu =>
    /\ \A s \in Side : sent[s] # << >> => Head(sent[s]) \in Data
    /\ pc = "simStep1" => Empty("addr") \/ Empty("data")
    /\ pc = "idle"     => Empty("addr") \/ AtMostOne("data")
    /\ pc = "simStep2" => AtMostOne("addr") \/ AtMostOne("data")

IInv ==
  /\ TypeOK /\ SlotsConsistent /\ SentIsHeld /\ CreditKept
  /\ LineIsOldest /\ AckedOnce /\ BeforeFirst
=============================================================================
