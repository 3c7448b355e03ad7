------------------------------- MODULE Cache -------------------------------
(***************************************************************************)
(* The tag store of the cache (src/src/sim/mem_system/Cache.cpp, Cache.h)  *)
(* as operators on its state: which block each way of a set holds, whether *)
(* it was written (UPDATE_BIT) and the counter that orders the ways of a   *)
(* set by use (REPLACE_MODE 1, WRITE_MODE 1).  Only tags are kept: the     *)
(* program's data live in the functional memory.                           *)
(*                                                                         *)
(* A block is a line address; its low bits are the bank, the next ones the *)
(* index, so that bank and index together are the block modulo their       *)
(* number.  older is a history variable: in older[s] are the pairs of ways *)
(* of which the first was not used since the second was.                   *)
(***************************************************************************)
EXTENDS Integers

CONSTANTS Banks,        \* CACHE_BANK
          LinesEachWay, \* CACHE_LINE_EACH_WAY
          Ways,         \* CACHE_WAYS_NUM
          Blocks,       \* the line addresses in use
          Empty         \* no block

CacheAssumption ==
  /\ Banks \in Nat \ {0} /\ LinesEachWay \in Nat \ {0} /\ Ways \in Nat \ {0}
  /\ Blocks \subseteq Nat /\ Empty \notin Blocks

Way == 1 .. Ways
SetId == 0 .. (Banks * LinesEachWay - 1)

(* bank and lineIndex of an address.                                        *)
SetOf(block) == block % (Banks * LinesEachWay)
BankOf(block) == block % Banks

CacheType ==
  [block   : [SetId -> [Way -> Blocks \cup {Empty}]],
   dirty   : [SetId -> [Way -> BOOLEAN]],
   counter : [SetId -> [Way -> 0 .. (Ways - 1)]],
   older   : [SetId -> SUBSET (Way \X Way)]]

(* The constructor.                                                         *)
NoLines ==
  [block   |-> [s \in SetId |-> [w \in Way |-> Empty]],
   dirty   |-> [s \in SetId |-> [w \in Way |-> FALSE]],
   counter |-> [s \in SetId |-> [w \in Way |-> 0]],
   older   |-> [s \in SetId |-> {}]]

HitWays(c, block) == {w \in Way : c.block[SetOf(block)][w] = block}

(* do_lookup, do_writehit: the last way that matches.                       *)
HitWay(c, block) == CHOOSE w \in HitWays(c, block) : \A v \in HitWays(c, block) : v <= w

UsedLast(c, s, way) ==
  [c.older EXCEPT ![s] = {p \in @ : p[1] # way} \cup {<<w, way>> : w \in Way \ {way}}]

(* Mutation: the ways above the one hit keep their counters.                *)
HitUnordered(c, block) ==
  LET s == SetOf(block)  hit == HitWay(c, block)
  IN  [c EXCEPT !.counter[s][hit] = Ways - 1, !.older = UsedLast(c, s, hit)]

(* do_lookup finds the block: the way hit becomes the last one used.        *)
Hit(c, block) ==
  LET s == SetOf(block)
      hit == HitWay(c, block)
  IN  [c EXCEPT
        !.counter[s] = [w \in Way |-> IF w = hit THEN Ways - 1
                                      ELSE IF @[w] > @[hit] THEN @[w] - 1 ELSE @[w]],
        !.older = UsedLast(c, s, hit)]

(* do_writehit.                                                             *)
WriteHit(c, block) == [c EXCEPT !.dirty[SetOf(block)][HitWay(c, block)] = TRUE]

(* ReplaceWay: the first way with the least counter.                        *)
Victim(c, s) ==
  CHOOSE w \in Way : \A v \in Way :
    c.counter[s][v] >= c.counter[s][w] /\ (c.counter[s][v] = c.counter[s][w] => w <= v)

(* do_writeback is called for a victim that was written.                    *)
WritesBack(c, block) == c.dirty[SetOf(block)][Victim(c, SetOf(block))]
VictimBlock(c, block) == c.block[SetOf(block)][Victim(c, SetOf(block))]

(* Mutation: a counter of zero is decremented.                              *)
ReplaceBelowZero(c, block) ==
  LET s == SetOf(block)
      way == Victim(c, s)
  IN  [c EXCEPT !.block[s][way] = block, !.dirty[s][way] = FALSE,
                !.counter[s] = [w \in Way |-> IF w = way THEN Ways - 1 ELSE @[w] - 1],
                !.older = UsedLast(c, s, way)]

(* do_replacement: the block takes the place of the victim.                 *)
Replace(c, block) ==
  LET s == SetOf(block)
      way == Victim(c, s)
  IN  [block   |-> [c.block EXCEPT ![s][way] = block],
       dirty   |-> [c.dirty EXCEPT ![s][way] = FALSE],
       counter |-> [c.counter EXCEPT ![s] =
                      [w \in Way |-> IF w = way THEN Ways - 1
                                     ELSE IF @[w] > 0 THEN @[w] - 1 ELSE 0]],
       older   |-> UsedLast(c, s, way)]
=============================================================================
