-------------------------------- MODULE Lsu --------------------------------
(***************************************************************************)
(* The load/store unit (src/src/sim/mem_system/Lsu.cpp) with its cache.    *)
(* A request of a load/store element waits in the element's arbiter line   *)
(* (arb) until the unit accepts it into the FIFO of a bank.  The front of  *)
(* a FIFO goes to the cache through the bank's inflight register; a miss   *)
(* takes a line of the miss table (tab) and fetches the block from memory  *)
(* over the bus, requests for a block that is being fetched wait in the    *)
(* line's offset slots (post).  When the block is there, the unit answers  *)
(* at most one request per element and cycle.                              *)
(*                                                                         *)
(* u is the state of the unit, one update is the composition of the phases *)
(* of Lsu::update, in their order.  cfg holds the switches: allHit is      *)
(* cache_allhit, byCache cache_mode, stalls inflight_block, rbypass and    *)
(* wbypass the bypasses, bus bus_enable, vec the size of the vector group  *)
(* of element 0 (0: none), stores the elements that store; tags and addrs  *)
(* bound the requests of an element.                                       *)
(*                                                                         *)
(* Prefetch lines are left out: nothing ever fills pref_pointer.           *)
(***************************************************************************)
EXTENDS Integers, Sequences, FiniteSets, SequencesExt, FiniteSetsExt

CONSTANTS Elements,      \* lse_num
          Words,         \* CACHE_LINE_SIZE
          Tags,          \* the tags of an element
          FifoLines,     \* fifoline_num
          TabLines,      \* tabline_num
          PostDepth,     \* post_offset_depth
          InNum,         \* in_num
          BusDelay,      \* bus_delay
          MaxTransfers,  \* bound: with so many transfers the memory completes one first
          Configs,       \* the settings of the switches
          Banks, LinesEachWay, Ways, Blocks, Empty

VARIABLES cfg, u,
          waiting        \* waiting[e][t]: the address element e has asked for under tag t

vars == <<cfg, u, waiting>>

C == INSTANCE Cache

Lane == 0 .. (Elements - 1)
Bank == 0 .. (Banks - 1)
Word == 0 .. (Words - 1)
Slot == 1 .. PostDepth
Addr == {b * Words + w : b \in Blocks, w \in Word}

BlockOf(addr) == addr \div Words
NoOffsets == [w \in Word |-> Empty]
NoPosts == [k \in Slot |-> Empty]

Ordered == [addr : Addr, tag : Tags, wr : BOOLEAN]
Request == [lane : Lane, tag : Tags]
Offsets == [Word -> Request \cup {Empty}]
Line == [block : Blocks, wr : BOOLEAN, off : Offsets, tag : Tags, complete : BOOLEAN]
Entry == [block : Blocks, off : Offsets, tag : Tags, valid : BOOLEAN, complete : BOOLEAN]
Transfer == [block : Blocks, wr : BOOLEAN, age : 0 .. BusDelay]
Answered == [lane : Lane, tag : Tags, addr : Addr]

Unit ==
  [arb   : [Lane -> Ordered \cup {Empty}], fifo  : [Bank -> Seq(Line)],
   reg   : [Bank -> Line \cup {Empty}],    asked : [Bank -> BOOLEAN],
   pend  : Seq(Line),                      tab   : [1 .. TabLines -> Entry \cup {Empty}],
   post  : [1 .. TabLines -> [Slot -> Offsets \cup {Empty}]],
   poped : [Blocks -> {"none", "cached", "nocache", "both"}], mshr : 0 .. 1,
   cache : C!CacheType, wb : Seq(Blocks), bus : Seq(Transfer), mem : Seq(Transfer),
   clk   : 0 .. (Elements - 1), round : 0 .. (Banks - 1), out : SUBSET Answered]

LsuAssumption ==
  /\ Elements \in Nat \ {0, 1} /\ Words \in Nat \ {0} /\ IsFiniteSet(Tags)
  /\ FifoLines \in Nat \ {0} /\ TabLines \in Nat \ {0} /\ PostDepth \in Nat \ {0}
  /\ InNum \in Nat \ {0} /\ BusDelay \in Nat /\ MaxTransfers \in Nat \ {0}
  /\ Empty \notin Addr /\ Empty \notin Ordered /\ Empty \notin Request
  /\ Empty \notin Offsets /\ Empty \notin Line /\ Empty \notin Entry

GroupOf(c) == IF c.vec = 0 THEN {} ELSE 0 .. (c.vec - 1)

(* The elements of a group load or store together, from different addresses. *)
ConfigAssumption ==
  \A c \in Configs :
    /\ c.allHit \in BOOLEAN /\ c.byCache \in BOOLEAN /\ c.stalls \in BOOLEAN
    /\ c.rbypass \in BOOLEAN /\ c.wbypass \in BOOLEAN /\ c.bus \in BOOLEAN
    /\ c.tags \subseteq Tags /\ c.addrs \in [Lane -> SUBSET Addr] /\ c.stores \subseteq Lane
    /\ c.vec \in 0 .. Elements /\ c.step \in Int /\ c.base \in [Tags -> Int]
    /\ c.vec > 1 => c.step # 0
    /\ GroupOf(c) \subseteq c.stores \/ GroupOf(c) \cap c.stores = {}

ASSUME LsuConstants == C!CacheAssumption /\ LsuAssumption /\ ConfigAssumption

(* The constructors of Lsu, Arbitrator, TabLine and Cache.  They leave two  *)
(* flags as the memory had them, ArbitratorLine::valid (arb) and the valid  *)
(* of Cache::lookup_trans (asked).  Assumed: that memory was zero.  With    *)
(* anything else the unit starts with requests that no element has made.    *)
Start ==
  [arb   |-> [e \in Lane |-> Empty],  fifo  |-> [b \in Bank |-> <<>>],
   reg   |-> [b \in Bank |-> Empty],  asked |-> [b \in Bank |-> FALSE],
   pend  |-> <<>>,                    tab   |-> [i \in 1 .. TabLines |-> Empty],
   post  |-> [i \in 1 .. TabLines |-> NoPosts],
   poped |-> [b \in Blocks |-> "none"], mshr |-> 0,
   cache |-> C!NoLines, wb |-> <<>>, bus |-> <<>>, mem |-> <<>>,
   clk   |-> 0, round |-> 0, out |-> {}]

(* Op(Op(v, 1), 2) and so on until n.                                       *)
Each(Op(_, _), v, n) ==
  LET after[i \in 0 .. n] == IF i = 0 THEN v ELSE Op(after[i - 1], i) IN after[n]

Init ==
  /\ cfg \in Configs
  /\ u = Start
  /\ waiting = [e \in Lane |-> [t \in Tags |-> Empty]]
-----------------------------------------------------------------------------
(* Answers.  out holds the callbacks of this cycle; an element with one has *)
(* its channel occupied.                                                    *)
Busy(v) == {c.lane : c \in v.out}
Callback(block, w, lane, tag) == [lane |-> lane, tag |-> tag, addr |-> block * Words + w]

(* The requests of off that can be answered now.                            *)
Now(v, off) == {w \in Word : off[w] # Empty /\ off[w].lane \notin Busy(v)}
Rest(v, off) == [w \in Word |-> IF w \in Now(v, off) THEN Empty ELSE off[w]]

(* LSEcallback for the words that can be answered.                          *)
Answer(v, block, off) ==
  [v EXCEPT !.out = @ \cup {Callback(block, w, off[w].lane, off[w].tag) : w \in Now(v, off)}]
AnswerTagged(v, block, off, tag) ==
  [v EXCEPT !.out = @ \cup {Callback(block, w, off[w].lane, tag) : w \in Now(v, off)}]
-----------------------------------------------------------------------------
(* addpoped_addr: an address that is being fetched, for the cache or past it. *)
AddPoped(v, block, bypass) ==
  [v EXCEPT !.poped[block] =
     IF bypass THEN IF @ = "cached" THEN "both" ELSE "nocache"
               ELSE IF @ = "nocache" THEN "both" ELSE "cached"]

(* NotSameBlock, negated.                                                   *)
SameBlock(v, block) ==
  v.poped[block] \in {"both", IF cfg.rbypass THEN "nocache" ELSE "cached"}

Release(v, block) == [v EXCEPT !.poped[block] = "none"]

(* A transfer to memory goes over the bus when there is one.                *)
Send(v, block, wr) ==
  LET tran == [block |-> block, wr |-> wr, age |-> 0]
  IN  IF cfg.bus THEN [v EXCEPT !.bus = Append(@, tran)]
                 ELSE [v EXCEPT !.mem = Append(@, tran)]

(* The transfers at the front of the bus that have been on it long enough.  *)
Due(bus) ==
  CHOOSE n \in 0 .. Len(bus) : /\ \A i \in 1 .. n : bus[i].age = BusDelay
                               /\ n < Len(bus) => bus[n + 1].age # BusDelay

(* bus_update.                                                              *)
BusUpdate(v) ==
  LET n == Due(v.bus)
  IN  [v EXCEPT !.mem = @ \o SubSeq(v.bus, 1, n),
                !.bus = [i \in 1 .. (Len(v.bus) - n) |-> [v.bus[n + i] EXCEPT !.age = @ + 1]]]

(* do_replacement, do_writeback.                                            *)
Refill(v, block) ==
  LET old == C!VictimBlock(v.cache, block)
      kept == [v EXCEPT !.cache = C!Replace(@, block)]
  IN  IF C!WritesBack(v.cache, block)
      THEN [Send(kept, old, TRUE) EXCEPT !.wb = Append(@, old)]
      ELSE kept

Fetching(v, block) ==
  {i \in 1 .. TabLines : /\ v.tab[i] # Empty
                         /\ v.tab[i].valid /\ ~v.tab[i].complete /\ v.tab[i].block = block}

(* Mutation: every line of the block is completed by the first read.        *)
ReadMissCompleteAll(v, block) ==
  [v EXCEPT !.tab = [i \in 1 .. TabLines |-> IF i \in Fetching(v, block)
                                             THEN [@[i] EXCEPT !.complete = TRUE] ELSE @[i]],
            !.mshr = 1]

(* read_miss_complete: the first line that waits for the block is complete. *)
ReadMissComplete(v, block) ==
  IF Fetching(v, block) = {} THEN Release(v, block)
  ELSE [v EXCEPT !.tab[Min(Fetching(v, block))].complete = TRUE, !.mshr = 1]

(* mem_read_complete.                                                       *)
MemReadComplete(v, block) ==
  ReadMissComplete(IF v.poped[block] \in {"cached", "both"} THEN Refill(v, block) ELSE v, block)

(* mem_write_complete: the end of a write back.                             *)
MemWriteComplete(v, block) ==
  IF Contains(v.wb, block) THEN [v EXCEPT !.wb = RemoveFirst(@, block)]
  ELSE Refill(v, block)

-----------------------------------------------------------------------------
(* Pending lines: hits of which not every request could be answered at      *)
(* once, when the register does not wait for them.                          *)
DrainLine(v, line) ==
  LET left == Rest(v, line.off)
      w == Answer(v, line.block, line.off)
  IN  IF left = NoOffsets THEN w ELSE [w EXCEPT !.pend = Append(@, [line EXCEPT !.off = left])]

DrainPending(v) ==
  IF cfg.stalls THEN v
  ELSE Each(LAMBDA x, i : DrainLine(x, v.pend[i]), [v EXCEPT !.pend = <<>>], Len(v.pend))

(* read_hit_complete: answered with the tag of the line.                    *)
ReadHit(v, b) ==
  LET line == v.reg[b]
      left == Rest(v, line.off)
      w == AnswerTagged(v, line.block, line.off, line.tag)
      more == [line EXCEPT !.off = left, !.complete = TRUE]
  IN  IF left = NoOffsets THEN [w EXCEPT !.reg[b] = Empty]
      ELSE IF cfg.stalls THEN [w EXCEPT !.reg[b] = more]
      ELSE [w EXCEPT !.reg[b] = Empty, !.pend = Append(@, more)]

NewEntry(line) ==
  [block |-> line.block, off |-> line.off, tag |-> line.tag, valid |-> TRUE,
   complete |-> line.complete]

(* addTrans2post: a line of the table that nothing uses.                    *)
FreeLines(v) == {i \in 1 .. TabLines : v.tab[i] = Empty /\ v.post[i] = NoPosts}

(* Mutation: a miss that finds the table full is dropped.                   *)
ReadMissDropped(v, b, line) ==
  IF FreeLines(v) = {} THEN v
  ELSE AddPoped(Send([v EXCEPT !.tab[Min(FreeLines(v))] = NewEntry(line)], line.block, FALSE),
                line.block, FALSE)

(* A read that misses takes a line and is fetched; with the table full it   *)
(* goes back to the end of its FIFO.                                        *)
ReadMiss(v, b, line) ==
  IF FreeLines(v) = {} THEN [v EXCEPT !.fifo[b] = Append(@, line)]
  ELSE AddPoped(Send([v EXCEPT !.tab[Min(FreeLines(v))] = NewEntry(line)], line.block, FALSE),
                line.block, FALSE)

(* Cache::update for one bank.  A write that misses ends there.             *)
LookUp(v, b) ==
  LET line == v.reg[b]
      hit == C!HitWays(v.cache, line.block) # {}
      w == [v EXCEPT !.asked[b] = FALSE, !.cache = IF ~cfg.allHit /\ hit THEN C!Hit(@, line.block) ELSE @]
  IN  CASE ~v.asked[b] -> v
        [] v.asked[b] /\ line.wr ->
             [w EXCEPT !.reg[b] = Empty,
                       !.cache = IF ~cfg.allHit /\ hit THEN C!WriteHit(@, line.block) ELSE @]
        [] v.asked[b] /\ ~line.wr /\ (cfg.allHit \/ hit) -> ReadHit(w, b)
        [] OTHER -> ReadMiss([w EXCEPT !.reg[b] = Empty], b, line)

CacheUpdate(v) == Each(LAMBDA x, i : LookUp(x, i - 1), v, Banks)
-----------------------------------------------------------------------------
(* The miss table answers.  First the line itself, in a later cycle the     *)
(* requests in its offset slots.                                            *)
AnswerSlot(v, i, k) ==
  LET off == v.post[i][k]
      left == Rest(v, off)
      w == Answer(v, v.tab[i].block, off)
  IN  IF off = Empty THEN v
      ELSE [w EXCEPT !.post[i][k] = IF left = NoOffsets THEN Empty ELSE left]

AnswerEntry(v, i) ==
  LET entry == v.tab[i]
      left == Rest(v, entry.off)
  IN  CASE entry = Empty \/ ~entry.complete -> v
        [] entry # Empty /\ entry.complete /\ entry.valid ->
             [Answer(v, entry.block, entry.off) EXCEPT
                !.tab[i].off = left, !.tab[i].valid = left # NoOffsets]
        [] OTHER -> Each(LAMBDA x, k : AnswerSlot(x, i, k), v, PostDepth)

(* Mutation: the line is freed while requests wait in its slots.            *)
FreeEntryEarly(v, i) ==
  IF v.tab[i] # Empty /\ ~v.tab[i].valid
  THEN [Release(v, v.tab[i].block) EXCEPT !.tab[i] = Empty, !.post[i] = NoPosts] ELSE v

(* A line with nothing left to answer is free again.                        *)
FreeEntry(v, i) ==
  IF v.tab[i] # Empty /\ ~v.tab[i].valid /\ v.post[i] = NoPosts
  THEN [Release(v, v.tab[i].block) EXCEPT !.tab[i] = Empty] ELSE v

MshrReturn(v) ==
  IF v.mshr = 0 THEN v
  ELSE LET answered == Each(AnswerEntry, v, TabLines)
           freed == Each(FreeEntry, answered, TabLines)
           idle == /\ \A i \in 1 .. TabLines : freed.tab[i] = Empty
                   /\ answered.out = v.out
       IN  [freed EXCEPT !.mshr = IF idle THEN 0 ELSE 1]
-----------------------------------------------------------------------------
(* The front of a FIFO.                                                     *)
Pop(v, b) == [v EXCEPT !.fifo[b] = Tail(@)]
Rotate(v, b) == [v EXCEPT !.fifo[b] = Append(Tail(@), Head(@))]
RegFree(v, b) == v.reg[b] = Empty /\ ~v.asked[b]

ToCache(v, b) ==
  IF RegFree(v, b) THEN [Pop(v, b) EXCEPT !.reg[b] = Head(v.fifo[b]), !.asked[b] = TRUE] ELSE v

(* addreserve2post, and the same search in the bypass: a free slot of a     *)
(* line that holds the block.                                               *)
FreeSlots(v, block) ==
  {s \in (1 .. TabLines) \X Slot :
     /\ v.tab[s[1]] # Empty /\ v.tab[s[1]].valid /\ v.tab[s[1]].block = block
     /\ v.post[s[1]][s[2]] = Empty}

FirstSlot(free) ==
  CHOOSE s \in free : \A r \in free : s[1] < r[1] \/ (s[1] = r[1] /\ s[2] <= r[2])

Reserve(v, b) ==
  LET line == Head(v.fifo[b])
      free == FreeSlots(v, line.block)
      s == FirstSlot(free)
  IN  IF free = {} THEN Rotate(v, b)
      ELSE [Pop(v, b) EXCEPT !.post[s[1]][s[2]] = line.off]

(* A bypass takes a line that is not valid and has nothing in its slots.    *)
InvalidLines(v) ==
  {i \in 1 .. TabLines : (v.tab[i] = Empty \/ ~v.tab[i].valid) /\ v.post[i] = NoPosts}

Bypass(v, b) ==
  LET line == Head(v.fifo[b])
      w == [Pop(v, b) EXCEPT !.tab[Min(InvalidLines(v))] = NewEntry(line)]
  IN  IF InvalidLines(v) = {} THEN Rotate(v, b)
      ELSE AddPoped(Send(w, line.block, FALSE), line.block, TRUE)

FromFifo(v, b) ==
  LET line == Head(v.fifo[b])
  IN  CASE v.fifo[b] = <<>> -> v
        [] v.fifo[b] # <<>> /\ line.wr -> ToCache(v, b)
        [] v.fifo[b] # <<>> /\ ~line.wr /\ SameBlock(v, line.block) -> Reserve(v, b)
        [] v.fifo[b] # <<>> /\ ~line.wr /\ ~SameBlock(v, line.block) ->
             IF cfg.rbypass THEN Bypass(v, b) ELSE ToCache(v, b)

(* A register that waits for channels answers what it can.                  *)
AnswerReg(v, b) ==
  LET line == v.reg[b]
      left == Rest(v, line.off)
  IN  IF cfg.stalls /\ line # Empty /\ line.complete
      THEN [Answer(v, line.block, line.off) EXCEPT
              !.reg[b] = IF left = NoOffsets THEN Empty ELSE [line EXCEPT !.off = left]]
      ELSE v

FifoStage(v) ==
  LET turn(i) == (v.round + i - 1) % Banks
      w == Each(LAMBDA x, i : AnswerReg(FromFifo(x, turn(i)), turn(i)), v, Banks)
  IN  [w EXCEPT !.round = (@ + 1) % Banks]
-----------------------------------------------------------------------------
(* The arbiter.  Elements of a vector group other than its leader are       *)
(* accepted with the leader.                                                *)
Group == GroupOf(cfg)

Offers(v, e) ==
  IF e \in Group THEN e = 0 /\ \A k \in Group : v.arb[k] # Empty ELSE v.arb[e] # Empty

(* seek_bank: the first of the shortest FIFOs.                              *)
SeekBank(v) ==
  CHOOSE b \in Bank : \A d \in Bank :
    Len(v.fifo[b]) <= Len(v.fifo[d]) /\ (Len(v.fifo[b]) = Len(v.fifo[d]) => b <= d)

BankFor(v, block) == IF cfg.byCache THEN C!BankOf(block) ELSE SeekBank(v)

(* returnACK.                                                               *)
Acked(v, elements) == [v EXCEPT !.arb = [e \in Lane |-> IF e \in elements THEN Empty ELSE @[e]]]

Push(v, line) == [v EXCEPT !.fifo[BankFor(v, line.block)] = Append(@, line)]

NewLine(req, block, off) ==
  [block |-> block, wr |-> req.wr, off |-> off, tag |-> req.tag, complete |-> FALSE]

AcceptOne(v, e) ==
  LET req == v.arb[e]
      block == BlockOf(req.addr)
      off == [NoOffsets EXCEPT ![req.addr % Words] = [lane |-> e, tag |-> req.tag]]
  IN  IF Len(v.fifo[BankFor(v, block)]) < FifoLines
      THEN Acked(Push(v, NewLine(req, block, off)), {e}) ELSE v

(* The addresses of a group are the leader's plus multiples of the step.    *)
VecAddr(req, k) == req.addr + k * cfg.step

VecBlock(req, k) == BlockOf(VecAddr(req, k))

(* The elements until k that share a line with it, and the last of them.    *)
Run(req, k) == {j \in 0 .. k : \A i \in j .. k : VecBlock(req, i) = VecBlock(req, k)}
EndsRun(req, k) == k = cfg.vec - 1 \/ VecBlock(req, k + 1) # VecBlock(req, k)

VecOffsets(req, k) ==
  [w \in Word |->
     LET on == {j \in Run(req, k) : VecAddr(req, j) % Words = w}
     IN  IF on = {} THEN Empty ELSE [lane |-> Max(on), tag |-> req.tag]]

PushRun(v, req, k) ==
  IF EndsRun(req, k) THEN Push(v, NewLine(req, VecBlock(req, k), VecOffsets(req, k))) ELSE v

Spare(v, b) == FifoLines - Len(v.fifo[b])

(* The number of lines a group may need, and whether there is room for      *)
(* them; receive_enable adds unsigned numbers, where a FIFO that holds more *)
(* than FifoLines counts as a huge one.                                     *)
VecRoom(v, req) ==
  LET lines == BlockOf(req.addr + cfg.step * cfg.vec) - BlockOf(req.addr) + 1
      needs(b) == Cardinality({i \in 0 .. (lines - 1) :
                                 C!BankOf(BlockOf(req.addr) + i) = b})
      upTo(b) == Each(LAMBDA sum, i : sum + Spare(v, i - 1), 0, b + 1)
  IN  IF cfg.byCache THEN \A b \in Bank : Spare(v, b) < 0 \/ Spare(v, b) >= needs(b)
      ELSE \E b \in Bank : upTo(b) < 0 \/ upTo(b) >= lines

AcceptGroup(v, e) ==
  LET req == v.arb[e]
  IN  IF VecRoom(v, req)
      THEN Each(LAMBDA x, i : PushRun(x, req, i - 1), Acked(v, Group), cfg.vec) ELSE v

Accept(v, e) ==
  CASE v.arb[e].wr /\ cfg.wbypass -> Acked(v, {e})
    [] ~(v.arb[e].wr /\ cfg.wbypass) /\ e \in Group -> AcceptGroup(v, e)
    [] OTHER -> AcceptOne(v, e)

(* At most InNum requests are looked at, from the element whose turn it is. *)
Turn(v, i) == (v.clk + i - 1) % Elements
Looked(v, i) ==
  /\ Offers(v, Turn(v, i))
  /\ Cardinality({j \in 1 .. (i - 1) : Offers(v, Turn(v, j))}) < InNum

ArbiterStage(v) ==
  Each(LAMBDA x, i : IF Looked(v, i) THEN Accept(x, Turn(v, i)) ELSE x, v, Elements)
-----------------------------------------------------------------------------
(* An element that has been acknowledged calls AddTrans.  The addresses of  *)
(* the elements of a group go together, under the same tag.                 *)
Ask(e, t, addr) ==
  /\ u.arb[e] = Empty
  /\ waiting[e][t] = Empty
  /\ e \in Group => /\ addr = cfg.base[t] + e * cfg.step
                    /\ \A k \in Group : u.arb[k] # Empty => u.arb[k].tag = t
  /\ u' = [u EXCEPT !.arb[e] = [addr |-> addr, tag |-> t, wr |-> e \in cfg.stores]]
  /\ waiting' = IF e \in cfg.stores THEN waiting ELSE [waiting EXCEPT ![e][t] = addr]
  /\ UNCHANGED cfg

(* The memory completes its i-th transfer: a callback of mem->update(),     *)
(* which is the first thing Lsu::update calls.                              *)
Complete(i) ==
  LET tran == u.mem[i]
      v == [u EXCEPT !.mem = RemoveAt(@, i)]
  IN  /\ u' \in {IF tran.wr THEN MemWriteComplete(v, tran.block) ELSE MemReadComplete(v, tran.block)}
      /\ UNCHANGED <<cfg, waiting>>

Updated ==
  LET v == [u EXCEPT !.clk = (@ + 1) % Elements]
  IN  ArbiterStage(FifoStage(MshrReturn(CacheUpdate(DrainPending(BusUpdate(v))))))

(* The rest of Lsu::update, one cycle.                                      *)
Update ==
  /\ Len(u.mem) < MaxTransfers
  /\ \E v \in {Updated} :
       /\ u' = [v EXCEPT !.out = {}]
       /\ waiting' = [e \in Lane |-> [t \in Tags |->
             IF [lane |-> e, tag |-> t, addr |-> waiting[e][t]] \in v.out
             THEN Empty ELSE waiting[e][t]]]
  /\ UNCHANGED cfg

Next ==
  \/ \E e \in Lane, t \in cfg.tags : \E addr \in cfg.addrs[e] : Ask(e, t, addr)
  \/ \E i \in DOMAIN u.mem : Complete(i)
  \/ Update

(* The simulation loop never stops calling update, each time with the next  *)
(* clk, and the memory completes its oldest transfer in the end: weak       *)
(* fairness of Update and of Complete(1), told by what the steps change,    *)
(* which spares TLC the evaluation of ENABLED.                              *)
Ticks == u'.clk # u.clk
CompletesOldest ==
  /\ u.mem # <<>> /\ u'.mem # u.mem /\ ~Ticks
  /\ SubSeq(u'.mem, 1, Len(u.mem) - 1) = Tail(u.mem)
Fairness == /\ []<><<Ticks>>_vars
            /\ []<>(u.mem = <<>>) \/ []<><<CompletesOldest>>_vars
Spec == Init /\ [][Next]_vars /\ Fairness
-----------------------------------------------------------------------------
TypeOK ==
  /\ cfg \in Configs
  /\ waiting \in [Lane -> [Tags -> Addr \cup {Empty}]]
  /\ u \in Unit

(* Where a request may be, and what it asks for there.                      *)
In(at, block, off) ==
  {[at |-> at, lane |-> off[w].lane, tag |-> off[w].tag, addr |-> block * Words + w] :
     w \in {x \in Word : off[x] # Empty}}

Reads(at, line) == IF line = Empty \/ line.wr THEN {} ELSE In(at, line.block, line.off)
Asked(e) ==
  IF u.arb[e] = Empty \/ u.arb[e].wr THEN {}
  ELSE {[at |-> <<"arb", e>>, lane |-> e, tag |-> u.arb[e].tag, addr |-> u.arb[e].addr]}
InTable(i) ==
  IF u.tab[i] = Empty THEN {}
  ELSE In(<<"tab", i>>, u.tab[i].block, u.tab[i].off)
       \cup UNION {In(<<"post", i, k>>, u.tab[i].block, u.post[i][k]) :
                     k \in {x \in Slot : u.post[i][x] # Empty}}

Held ==
  UNION ({Asked(e) : e \in Lane} \cup {InTable(i) : i \in 1 .. TabLines}
    \cup {Reads(<<"reg", b>>, u.reg[b]) : b \in Bank}
    \cup {Reads(<<"pend", i>>, u.pend[i]) : i \in DOMAIN u.pend}
    \cup UNION {{Reads(<<"fifo", b, i>>, u.fifo[b][i]) : i \in DOMAIN u.fifo[b]} : b \in Bank})

Waiting ==
  {[lane |-> r[1], tag |-> r[2], addr |-> waiting[r[1]][r[2]]] :
     r \in {x \in Lane \X Tags : waiting[x[1]][x[2]] # Empty}}

(* Every read an element waits for is in one place of the unit, once, with  *)
(* its own element, tag and address, and nothing else is: no phase of       *)
(* update loses a request, answers it twice or answers another one.         *)
HeldOnce ==
  /\ {[lane |-> h.lane, tag |-> h.tag, addr |-> h.addr] : h \in Held} = Waiting
  /\ Cardinality(Held) = Cardinality(Waiting)

(* A block is on its way from memory exactly as many times as lines of the  *)
(* miss table wait for it: a line is never left without its fetch, and a    *)
(* fetch that comes back finds its line.                                    *)
Reading(transfers, b) == {i \in DOMAIN transfers : ~transfers[i].wr /\ transfers[i].block = b}

FetchedForALine ==
  \A b \in Blocks :
    Cardinality(Fetching(u, b)) = Cardinality(Reading(u.bus, b)) + Cardinality(Reading(u.mem, b))

(* A replacement takes a way that was never used or, when all were, the one *)
(* used longest ago: no other way is older.                                 *)
EvictsOldest ==
  [][\A s \in C!SetId, w \in 1 .. Ways :
       u.cache.block[s][w] # u'.cache.block[s][w] =>
         \A x \in 1 .. Ways : <<x, w>> \notin u.cache.older[s]]_vars

(* Every request, of a group once all its elements have asked, is accepted  *)
(* in the end, and every accepted read is answered.                         *)
Ready(e) == u.arb[e] # Empty /\ (e \in Group => \A k \in Group : u.arb[k] # Empty)
Accepted(e, t) == waiting[e][t] # Empty /\ (u.arb[e] # Empty => u.arb[e].tag # t)

Served ==
  \A e \in Lane :
    /\ Ready(e) ~> (u.arb[e] = Empty)
    /\ \A t \in Tags : Accepted(e, t) ~> (waiting[e][t] = Empty)
=============================================================================
