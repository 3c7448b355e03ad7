----------------------------- MODULE Lsu_proofs -----------------------------
(***************************************************************************)
(* The load/store unit and its cache, for every size and setting: every    *)
(* read is held once and answered as asked, a block is fetched once for    *)
(* every line that waits for it, and a replacement takes the oldest way.   *)
(*                                                                         *)
(* A request is in one of the places of the unit (Place).  Split(v, W)     *)
(* says that the places of v hold the requests of W, each one of them; an  *)
(* operator of the model takes requests out of a place (Taken) and puts    *)
(* them into another (Put).  Good(v, W) adds the types, what the lines of  *)
(* the registers, FIFOs and tables may be (Sound), the order of the        *)
(* counters of the cache (CacheOK) and the fetches (Counted).  Every phase *)
(* of an update keeps Good with the same W: a request that is answered is  *)
(* in out, and leaves at the end of the update, with the wait for it.      *)
(*                                                                         *)
(* The loops of the model are recursive functions; a loop is followed with *)
(* Chained, which gives the function, and Followed, which takes a fact     *)
(* along it.  Both rest on LeastElement.                                   *)
(***************************************************************************)
EXTENDS Lsu, FiniteSetTheorems, FunctionTheorems, SequenceTheorems, WellFoundedInduction, TLAPS

-----------------------------------------------------------------------------
(* Steps one after the other.                                               *)

(* Every set of natural numbers that is not empty has a least element.      *)
LEMMA LeastElement ==
  ASSUME NEW T, T \subseteq Nat, T # {}
  PROVE  \E x \in T : \A y \in T : x <= y
<1>1. IsWellFoundedOn(OpToRel(<, Nat), Nat)
  BY NatLessThanWellFounded
<1>2. PICK x \in T : \A y \in T : <<y, x>> \notin OpToRel(<, Nat)
  BY <1>1, WFMin
<1>3. ASSUME NEW y \in T PROVE x <= y
  <2>1. <<y, x>> \notin OpToRel(<, Nat) /\ <<y, x>> \in Nat \X Nat
    BY <1>2
  <2>2. ~ (y < x)
    BY <2>1 DEF OpToRel
  <2> QED BY <2>2
<1> QED
  BY <1>3

(* Induction for a set of natural numbers.                                  *)
LEMMA ByInduction ==
  ASSUME NEW M \in Nat, NEW S, 0 \in S, \A k \in 1 .. M : k - 1 \in S => k \in S
  PROVE  \A k \in 0 .. M : k \in S
<1> DEFINE T == {k \in 0 .. M : k \notin S}
<1> SUFFICES ASSUME T # {} PROVE FALSE
  OBVIOUS
<1>0. T \subseteq Nat
  OBVIOUS
<1> HIDE DEF T
<1>1. PICK x \in T : \A y \in T : x <= y
  BY <1>0, LeastElement
<1> USE DEF T
<1>2. x # 0 /\ x - 1 \in 0 .. M /\ x - 1 \notin T
  BY <1>1
<1> QED
  BY <1>1, <1>2

(* h goes from v through the functions of G.                                *)
Chain(h, M, v, G) == h[0] = v /\ \A k \in 1 .. M : h[k] = G[k][h[k-1]]

(* A chain of any length through functions that keep the sets V exists: the *)
(* folds of the model are defined.                                          *)
LEMMA Chained ==
  ASSUME NEW N \in Nat, NEW V, NEW v, v \in V[0], NEW G,
         \A k \in 1 .. N : \A x \in V[k-1] : G[k][x] \in V[k]
  PROVE  \E h \in [0 .. N -> UNION {V[k] : k \in 0 .. N}] :
           Chain(h, N, v, G) /\ \A k \in 0 .. N : h[k] \in V[k]
<1> DEFINE Rng == UNION {V[k] : k \in 0 .. N}
           S == {k \in 0 .. N : \E h \in [0 .. k -> Rng] :
                                  Chain(h, k, v, G) /\ \A m \in 0 .. k : h[m] \in V[m]}
<1>0. \A k \in 0 .. N : V[k] \subseteq Rng
  OBVIOUS
<1> HIDE DEF Rng
<1>1. 0 \in S
  <2> DEFINE h == [n \in 0 .. 0 |-> v]
  <2>1. h \in [0 .. 0 -> Rng] /\ Chain(h, 0, v, G) /\ \A m \in 0 .. 0 : h[m] \in V[m]
    BY <1>0 DEF Chain
  <2> HIDE DEF h
  <2> QED BY <2>1
<1>2. ASSUME NEW k \in 1 .. N, k - 1 \in S PROVE k \in S
  <2>1. PICK g \in [0 .. (k-1) -> Rng] : Chain(g, k-1, v, G) /\ \A m \in 0 .. (k-1) : g[m] \in V[m]
    BY <1>2
  <2> DEFINE h == [n \in 0 .. k |-> IF n = k THEN G[k][g[k-1]] ELSE g[n]]
  <2>2. G[k][g[k-1]] \in V[k] /\ k \in 0 .. N
    BY <2>1
  <2>3. \A m \in 0 .. k : h[m] \in V[m]
    <3>1. \A m \in 0 .. k : m # k => m \in 0 .. (k-1)
      OBVIOUS
    <3> QED BY <2>1, <2>2, <3>1
  <2>4. h \in [0 .. k -> Rng]
    <3>1. \A m \in 0 .. k : m \in 0 .. N
      OBVIOUS
    <3> QED BY <1>0, <2>3, <3>1
  <2>5. h[0] = v
    BY <2>1 DEF Chain
  <2>6. ASSUME NEW n \in 1 .. k PROVE h[n] = G[n][h[n-1]]
    <3>1. n - 1 \in 0 .. k /\ n - 1 # k /\ n \in 0 .. k
      OBVIOUS
    <3>2. h[n-1] = g[n-1]
      BY <3>1
    <3>3. CASE n = k
      BY <3>1, <3>2, <3>3
    <3>4. CASE n # k
      <4>1. h[n] = g[n] /\ n \in 1 .. (k-1)
        BY <3>1, <3>4
      <4> QED BY <2>1, <3>2, <4>1 DEF Chain
    <3> QED BY <3>3, <3>4
  <2>7. Chain(h, k, v, G)
    BY <2>5, <2>6 DEF Chain
  <2> HIDE DEF h
  <2> QED BY <2>2, <2>3, <2>4, <2>7
<1> HIDE DEF S
<1>3. \A k \in 0 .. N : k \in S
  BY <1>1, <1>2, ByInduction
<1>4. N \in S
  BY <1>3
<1> QED BY <1>4 DEF S, Rng

(* What each function of G takes to the next set of V is in the last one.   *)
LEMMA Followed ==
  ASSUME NEW N \in Nat, NEW V, NEW v, v \in V[0], NEW f, f[0] = v,
         \A k \in 1 .. N : f[k-1] \in V[k-1] => f[k] \in V[k]
  PROVE  f[N] \in V[N]
<1> DEFINE S == {k \in 0 .. N : f[k] \in V[k]}
<1>1. 0 \in S
  OBVIOUS
<1>2. \A k \in 1 .. N : k - 1 \in S => k \in S
  OBVIOUS
<1> HIDE DEF S
<1>3. \A k \in 0 .. N : k \in S
  BY <1>1, <1>2, ByInduction
<1>4. N \in S
  BY <1>3
<1> QED BY <1>4 DEF S
-----------------------------------------------------------------------------
(* The constants.                                                           *)
LEMMA Sizes ==
  /\ Elements \in Nat /\ Elements > 1 /\ Words \in Nat /\ Words > 0 /\ IsFiniteSet(Tags)
  /\ FifoLines \in Nat /\ FifoLines > 0 /\ TabLines \in Nat /\ TabLines > 0
  /\ PostDepth \in Nat /\ PostDepth > 0 /\ BusDelay \in Nat
  /\ Banks \in Nat /\ Banks > 0 /\ LinesEachWay \in Nat /\ LinesEachWay > 0
  /\ Ways \in Nat /\ Ways > 0 /\ Blocks \subseteq Nat
  BY LsuConstants DEF LsuAssumption, C!CacheAssumption

(* Empty is none of the data.                                               *)
LEMMA NoneIs ==
  /\ Empty \notin Blocks /\ Empty \notin Addr /\ Empty \notin Ordered /\ Empty \notin Request
  /\ Empty \notin Offsets /\ Empty \notin Line /\ Empty \notin Entry
  BY LsuConstants DEF LsuAssumption, C!CacheAssumption

(* A quotient and a remainder are the only ones.                            *)
LEMMA Division ==
  ASSUME NEW n \in Nat, n > 0, NEW b \in Nat, NEW w \in 0 .. (n - 1)
  PROVE  (b * n + w) \div n = b /\ (b * n + w) % n = w
<1> DEFINE a == b * n + w
           q == a \div n
           r == a % n
<1>1. a \in Nat /\ b * n \in Nat
  OBVIOUS
<1>2. q \in Int /\ r \in 0 .. (n - 1) /\ a = n * q + r
  <2> HIDE DEF a
  <2> QED BY <1>1
<1>3. CASE q > b
  <2>1. n * q >= n * (b + 1)
    BY <1>2, <1>3
  <2>2. n * (b + 1) = b * n + n
    OBVIOUS
  <2> QED BY <1>1, <1>2, <2>1, <2>2
<1>4. CASE q < b
  <2>1. n * b >= n * (q + 1)
    BY <1>2, <1>4
  <2>2. n * (q + 1) = n * q + n
    BY <1>2
  <2> QED BY <1>1, <1>2, <2>1, <2>2
<1>5. CASE q = b
  <2>1. n * q = b * n
    BY <1>5
  <2> QED BY <1>1, <1>2, <1>5, <2>1
<1> QED BY <1>2, <1>3, <1>4, <1>5

(* An address is a block and a word, in one way.                            *)
LEMMA AddressOf ==
  ASSUME NEW b \in Blocks, NEW w \in Word
  PROVE  /\ b * Words + w \in Addr
         /\ BlockOf(b * Words + w) = b /\ (b * Words + w) % Words = w
<1>1. b \in Nat /\ Words \in Nat /\ Words > 0 /\ w \in 0 .. (Words - 1)
  BY Sizes DEF Word
<1>2. (b * Words + w) \div Words = b /\ (b * Words + w) % Words = w
  BY <1>1, Division
<1>3. b * Words + w \in Addr
  BY DEF Addr
<1> QED BY <1>2, <1>3 DEF BlockOf

(* Two equal addresses are the same word of the same block.                 *)
LEMMA OneAddress ==
  ASSUME NEW a \in Blocks, NEW x \in Word, NEW b \in Blocks, NEW y \in Word,
         a * Words + x = b * Words + y
  PROVE  a = b /\ x = y
<1>1. BlockOf(a * Words + x) = a /\ (a * Words + x) % Words = x
  BY AddressOf
<1>2. BlockOf(b * Words + y) = b /\ (b * Words + y) % Words = y
  BY AddressOf
<1> QED BY <1>1, <1>2

(* The block and the word of an address give the address.                   *)
LEMMA AddressParts ==
  ASSUME NEW addr \in Addr
  PROVE  /\ BlockOf(addr) \in Blocks /\ addr % Words \in Word
         /\ BlockOf(addr) * Words + (addr % Words) = addr
<1>1. PICK b \in Blocks, w \in Word : addr = b * Words + w
  BY DEF Addr
<1>2. BlockOf(addr) = b /\ addr % Words = w
  BY <1>1, AddressOf
<1> QED BY <1>1, <1>2
-----------------------------------------------------------------------------
(* The places of the unit, and the requests in them.                        *)
Items(block, off) ==
  {Callback(block, w, off[w].lane, off[w].tag) : w \in {x \in Word : off[x] # Empty}}

LineItems(line) == IF line = Empty \/ line.wr THEN {} ELSE Items(line.block, line.off)
OrderItems(e, req) ==
  IF req = Empty \/ req.wr THEN {} ELSE {[lane |-> e, tag |-> req.tag, addr |-> req.addr]}

SeqItems(s) == UNION {LineItems(s[i]) : i \in DOMAIN s}
Apart(s) == \A i, j \in DOMAIN s : i # j => LineItems(s[i]) \cap LineItems(s[j]) = {}

(* Where words answer now, and where they are left.                         *)
Given(v, block, off) == {Callback(block, w, off[w].lane, off[w].tag) : w \in Now(v, off)}

(* The requests of a block are answers the unit may give.                   *)
LEMMA ItemsType ==
  ASSUME NEW block \in Blocks, NEW off \in Offsets
  PROVE  Items(block, off) \subseteq Answered
<1>1. ASSUME NEW w \in Word, off[w] # Empty
      PROVE  Callback(block, w, off[w].lane, off[w].tag) \in Answered
  <2>1. off[w] \in Request
    BY <1>1 DEF Offsets
  <2>2. block * Words + w \in Addr
    BY AddressOf
  <2> QED BY <2>1, <2>2 DEF Answered, Callback, Request
<1> QED BY <1>1 DEF Items

(* The words that are answered now and the words that are left share the    *)
(* requests.                                                                *)
LEMMA RestOf ==
  ASSUME NEW v, NEW block \in Blocks, NEW off \in Offsets
  PROVE  /\ Rest(v, off) \in Offsets
         /\ Given(v, block, off) \subseteq Items(block, off)
         /\ Items(block, Rest(v, off)) = Items(block, off) \ Given(v, block, off)
<1> DEFINE At(w) == Callback(block, w, off[w].lane, off[w].tag)
           left == Rest(v, off)
<1>1. left \in Offsets
  <2>1. \A w \in Word : off[w] \in Request \cup {Empty}
    BY DEF Offsets
  <2> QED BY <2>1 DEF Rest, Offsets
<1>2. Given(v, block, off) \subseteq Items(block, off)
  BY DEF Given, Items, Now
<1>3. ASSUME NEW w \in Word, NEW x \in Word, At(w) = At(x) PROVE w = x
  <2>1. block * Words + w = block * Words + x
    BY <1>3 DEF Callback
  <2> QED BY <2>1, OneAddress
<1>4. \A w \in Word : left[w] # Empty <=> off[w] # Empty /\ w \notin Now(v, off)
  BY DEF Rest, Now
<1>5. \A w \in Word : left[w] # Empty => left[w] = off[w]
  BY DEF Rest
<1>6. Items(block, left) = {At(w) : w \in {x \in Word : off[x] # Empty /\ x \notin Now(v, off)}}
  <2> HIDE DEF left
  <2>1. {x \in Word : left[x] # Empty} = {x \in Word : off[x] # Empty /\ x \notin Now(v, off)}
    BY <1>4
  <2>2. \A w \in {x \in Word : left[x] # Empty} : Callback(block, w, left[w].lane, left[w].tag) = At(w)
    BY <1>5
  <2> QED BY <2>1, <2>2 DEF Items
<1> HIDE DEF left
<1>7. Now(v, off) \subseteq {x \in Word : off[x] # Empty}
  BY DEF Now
<1>8. Items(block, off) = {At(w) : w \in {x \in Word : off[x] # Empty}}
  BY DEF Items
<1>9. Given(v, block, off) = {At(w) : w \in Now(v, off)}
  BY DEF Given
<1> HIDE DEF At
<1>10. Items(block, left) = Items(block, off) \ Given(v, block, off)
  BY <1>3, <1>6, <1>7, <1>8, <1>9
<1> QED BY <1>1, <1>2, <1>10 DEF left

Place ==
  {<<"arb", e, 0>> : e \in Lane} \cup {<<"reg", b, 0>> : b \in Bank}
  \cup {<<"fifo", b, 0>> : b \in Bank} \cup {<<"tab", i, 0>> : i \in 1 .. TabLines}
  \cup {<<"post", s[1], s[2]>> : s \in (1 .. TabLines) \X Slot}
  \cup {<<"pend", 0, 0>>, <<"out", 0, 0>>}

TabItems(v, i) == IF v.tab[i] = Empty THEN {} ELSE Items(v.tab[i].block, v.tab[i].off)
PostItems(v, i, k) ==
  IF v.tab[i] = Empty \/ v.post[i][k] = Empty THEN {} ELSE Items(v.tab[i].block, v.post[i][k])

Box(v, p) ==
  CASE p[1] = "arb"  -> OrderItems(p[2], v.arb[p[2]])
    [] p[1] = "reg"  -> LineItems(v.reg[p[2]])
    [] p[1] = "fifo" -> SeqItems(v.fifo[p[2]])
    [] p[1] = "tab"  -> TabItems(v, p[2])
    [] p[1] = "post" -> PostItems(v, p[2], p[3])
    [] p[1] = "pend" -> SeqItems(v.pend)
    [] p[1] = "out"  -> v.out

(* The requests of W are in the places of the unit, each in one.            *)
Split(v, W) ==
  /\ \A p \in Place : Box(v, p) \subseteq W
  /\ \A x \in W : \E p \in Place : x \in Box(v, p)
  /\ \A p, q \in Place : p # q => Box(v, p) \cap Box(v, q) = {}
  /\ Apart(v.pend) /\ \A b \in Bank : Apart(v.fifo[b])

(* w has the places of v, but for one.                                      *)
OneChanged(v, w, p) ==
  /\ p \in Place /\ \A q \in Place : q # p => Box(w, q) = Box(v, q)
  /\ Apart(w.pend) /\ \A b \in Bank : Apart(w.fifo[b])

(* Requests that leave one place leave the unit.                            *)
LEMMA Taken ==
  ASSUME NEW v, NEW w, NEW W, NEW p, NEW M, Split(v, W), OneChanged(v, w, p),
         M \subseteq Box(v, p), Box(w, p) = Box(v, p) \ M
  PROVE  Split(w, W \ M)
<1>1. \A q \in Place : Box(w, q) \subseteq W \ M
  BY DEF Split, OneChanged
<1>2. ASSUME NEW x \in W \ M PROVE \E q \in Place : x \in Box(w, q)
  BY <1>2 DEF Split, OneChanged
<1>3. \A q, r \in Place : q # r => Box(w, q) \cap Box(w, r) = {}
  BY DEF Split, OneChanged
<1> QED BY <1>1, <1>2, <1>3 DEF Split, OneChanged

(* Requests that were nowhere and enter one place are split as before.      *)
LEMMA Put ==
  ASSUME NEW v, NEW w, NEW W, NEW p, NEW M, Split(v, W), OneChanged(v, w, p),
         M \cap W = {}, Box(w, p) = Box(v, p) \cup M
  PROVE  Split(w, W \cup M)
<1>1. \A q \in Place : Box(w, q) \subseteq W \cup M
  BY DEF Split, OneChanged
<1>2. ASSUME NEW x \in W \cup M PROVE \E q \in Place : x \in Box(w, q)
  BY <1>2 DEF Split, OneChanged
<1>3. \A q, r \in Place : q # r => Box(w, q) \cap Box(w, r) = {}
  BY DEF Split, OneChanged
<1> QED BY <1>1, <1>2, <1>3 DEF Split, OneChanged

(* What two units have in common.                                           *)
Keeps(v, w, S) == DOMAIN w = DOMAIN v /\ \A f \in DOMAIN v : f \notin S => w[f] = v[f]
Fields == {"arb", "fifo", "reg", "asked", "pend", "tab", "post", "poped", "mshr", "cache",
           "wb", "bus", "mem", "clk", "round", "out"}

(* The types of the fields.                                                 *)
LEMMA UnitFields ==
  ASSUME NEW v \in Unit
  PROVE  /\ DOMAIN v = Fields
         /\ v.arb \in [Lane -> Ordered \cup {Empty}] /\ v.fifo \in [Bank -> Seq(Line)]
         /\ v.reg \in [Bank -> Line \cup {Empty}] /\ v.asked \in [Bank -> BOOLEAN]
         /\ v.pend \in Seq(Line) /\ v.tab \in [1 .. TabLines -> Entry \cup {Empty}]
         /\ v.post \in [1 .. TabLines -> [Slot -> Offsets \cup {Empty}]]
         /\ v.poped \in [Blocks -> {"none", "cached", "nocache", "both"}] /\ v.mshr \in 0 .. 1
         /\ v.cache \in C!CacheType /\ v.wb \in Seq(Blocks)
         /\ v.bus \in Seq(Transfer) /\ v.mem \in Seq(Transfer)
         /\ v.clk \in 0 .. (Elements - 1) /\ v.round \in 0 .. (Banks - 1)
         /\ v.out \in SUBSET Answered
  BY DEF Unit, Fields

(* The fields that are not places.                                          *)
Aside == {"asked", "poped", "mshr", "cache", "wb", "bus", "mem", "clk", "round"}

(* A field that is not in S is kept.                                        *)
LEMMA Kept ==
  ASSUME NEW v \in Unit, NEW w, NEW S, Keeps(v, w, S)
  PROVE  /\ "arb" \notin S => w.arb = v.arb
         /\ "fifo" \notin S => w.fifo = v.fifo
         /\ "reg" \notin S => w.reg = v.reg
         /\ "asked" \notin S => w.asked = v.asked
         /\ "pend" \notin S => w.pend = v.pend
         /\ "tab" \notin S => w.tab = v.tab
         /\ "post" \notin S => w.post = v.post
         /\ "poped" \notin S => w.poped = v.poped
         /\ "mshr" \notin S => w.mshr = v.mshr
         /\ "cache" \notin S => w.cache = v.cache
         /\ "wb" \notin S => w.wb = v.wb
         /\ "bus" \notin S => w.bus = v.bus
         /\ "mem" \notin S => w.mem = v.mem
         /\ "clk" \notin S => w.clk = v.clk
         /\ "round" \notin S => w.round = v.round
         /\ "out" \notin S => w.out = v.out
  BY UnitFields DEF Keeps, Fields

(* A change beside the places moves no request.                             *)
LEMMA NothingMoved ==
  ASSUME NEW v \in Unit, NEW w, NEW W, Split(v, W), Keeps(v, w, Aside)
  PROVE  Split(w, W)
<1>1. /\ w.arb = v.arb /\ w.fifo = v.fifo /\ w.reg = v.reg /\ w.pend = v.pend
      /\ w.tab = v.tab /\ w.post = v.post /\ w.out = v.out
  BY Kept DEF Aside
<1>2. ASSUME NEW q \in Place PROVE Box(w, q) = Box(v, q)
  BY <1>1 DEF Place, Box, TabItems, PostItems
<1> QED BY <1>1, <1>2 DEF Split

(* A change of the answers changes one place only; below, the same for the  *)
(* other places.                                                            *)
LEMMA OutChanged ==
  ASSUME NEW v \in Unit, NEW w, NEW W, Split(v, W), Keeps(v, w, Aside \cup {"out"})
  PROVE  /\ OneChanged(v, w, <<"out", 0, 0>>)
         /\ Box(v, <<"out", 0, 0>>) = v.out /\ Box(w, <<"out", 0, 0>>) = w.out
<1>1. /\ w.arb = v.arb /\ w.fifo = v.fifo /\ w.reg = v.reg /\ w.pend = v.pend
      /\ w.tab = v.tab /\ w.post = v.post
  BY Kept DEF Aside
<1>2. <<"out", 0, 0>> \in Place
  BY DEF Place
<1>3. ASSUME NEW q \in Place, q # <<"out", 0, 0>> PROVE Box(w, q) = Box(v, q)
  BY <1>1, <1>3 DEF Place, Box, TabItems, PostItems
<1>4. Box(v, <<"out", 0, 0>>) = v.out /\ Box(w, <<"out", 0, 0>>) = w.out
  BY DEF Box
<1> QED BY <1>1, <1>2, <1>3, <1>4 DEF OneChanged, Split

(* An element's arbiter line.                                               *)
LEMMA ArbChanged ==
  ASSUME NEW v \in Unit, NEW w, NEW W, Split(v, W), NEW e \in Lane,
         Keeps(v, w, Aside \cup {"arb"}), \A k \in Lane : k # e => w.arb[k] = v.arb[k]
  PROVE  /\ OneChanged(v, w, <<"arb", e, 0>>)
         /\ Box(v, <<"arb", e, 0>>) = OrderItems(e, v.arb[e])
         /\ Box(w, <<"arb", e, 0>>) = OrderItems(e, w.arb[e])
<1>1. /\ w.out = v.out /\ w.fifo = v.fifo /\ w.reg = v.reg /\ w.pend = v.pend
      /\ w.tab = v.tab /\ w.post = v.post
  BY Kept DEF Aside
<1>2. <<"arb", e, 0>> \in Place
  BY DEF Place
<1>3. ASSUME NEW q \in Place, q # <<"arb", e, 0>> PROVE Box(w, q) = Box(v, q)
  BY <1>1, <1>3 DEF Place, Box, TabItems, PostItems
<1>4. \A x : Box(x, <<"arb", e, 0>>) = OrderItems(e, x.arb[e])
  BY DEF Box
<1> QED BY <1>1, <1>2, <1>3, <1>4 DEF OneChanged, Split

(* A bank's register.                                                       *)
LEMMA RegChanged ==
  ASSUME NEW v \in Unit, NEW w, NEW W, Split(v, W), NEW b \in Bank,
         Keeps(v, w, Aside \cup {"reg"}), \A k \in Bank : k # b => w.reg[k] = v.reg[k]
  PROVE  /\ OneChanged(v, w, <<"reg", b, 0>>)
         /\ Box(v, <<"reg", b, 0>>) = LineItems(v.reg[b])
         /\ Box(w, <<"reg", b, 0>>) = LineItems(w.reg[b])
<1>1. /\ w.out = v.out /\ w.fifo = v.fifo /\ w.arb = v.arb /\ w.pend = v.pend
      /\ w.tab = v.tab /\ w.post = v.post
  BY Kept DEF Aside
<1>2. <<"reg", b, 0>> \in Place
  BY DEF Place
<1>3. ASSUME NEW q \in Place, q # <<"reg", b, 0>> PROVE Box(w, q) = Box(v, q)
  BY <1>1, <1>3 DEF Place, Box, TabItems, PostItems
<1>4. \A x : Box(x, <<"reg", b, 0>>) = LineItems(x.reg[b])
  BY DEF Box
<1> QED BY <1>1, <1>2, <1>3, <1>4 DEF OneChanged, Split

(* A bank's FIFO.                                                           *)
LEMMA FifoChanged ==
  ASSUME NEW v \in Unit, NEW w, NEW W, Split(v, W), NEW b \in Bank,
         Keeps(v, w, Aside \cup {"fifo"}), \A k \in Bank : k # b => w.fifo[k] = v.fifo[k],
         Apart(w.fifo[b])
  PROVE  /\ OneChanged(v, w, <<"fifo", b, 0>>)
         /\ Box(v, <<"fifo", b, 0>>) = SeqItems(v.fifo[b])
         /\ Box(w, <<"fifo", b, 0>>) = SeqItems(w.fifo[b])
<1>1. /\ w.out = v.out /\ w.reg = v.reg /\ w.arb = v.arb /\ w.pend = v.pend
      /\ w.tab = v.tab /\ w.post = v.post
  BY Kept DEF Aside
<1>2. <<"fifo", b, 0>> \in Place
  BY DEF Place
<1>3. ASSUME NEW q \in Place, q # <<"fifo", b, 0>> PROVE Box(w, q) = Box(v, q)
  BY <1>1, <1>3 DEF Place, Box, TabItems, PostItems
<1>4. \A x : Box(x, <<"fifo", b, 0>>) = SeqItems(x.fifo[b])
  BY DEF Box
<1> QED BY <1>1, <1>2, <1>3, <1>4 DEF OneChanged, Split

(* The pending lines.                                                       *)
LEMMA PendChanged ==
  ASSUME NEW v \in Unit, NEW w, NEW W, Split(v, W), Keeps(v, w, Aside \cup {"pend"}),
         Apart(w.pend)
  PROVE  /\ OneChanged(v, w, <<"pend", 0, 0>>)
         /\ Box(v, <<"pend", 0, 0>>) = SeqItems(v.pend)
         /\ Box(w, <<"pend", 0, 0>>) = SeqItems(w.pend)
<1>1. /\ w.out = v.out /\ w.reg = v.reg /\ w.arb = v.arb /\ w.fifo = v.fifo
      /\ w.tab = v.tab /\ w.post = v.post
  BY Kept DEF Aside
<1>2. <<"pend", 0, 0>> \in Place
  BY DEF Place
<1>3. ASSUME NEW q \in Place, q # <<"pend", 0, 0>> PROVE Box(w, q) = Box(v, q)
  BY <1>1, <1>3 DEF Place, Box, TabItems, PostItems
<1>4. \A x : Box(x, <<"pend", 0, 0>>) = SeqItems(x.pend)
  BY DEF Box
<1> QED BY <1>1, <1>2, <1>3, <1>4 DEF OneChanged, Split

(* A line of the table takes or gives up requests.  Its slots stay as they  *)
(* are when its block does, or when they are empty.                         *)
LEMMA TabChanged ==
  ASSUME NEW v \in Unit, NEW w, NEW W, Split(v, W), NEW i \in 1 .. TabLines,
         Keeps(v, w, Aside \cup {"tab"}), \A k \in 1 .. TabLines : k # i => w.tab[k] = v.tab[k],
         \/ v.post[i] = NoPosts
         \/ v.tab[i] # Empty /\ w.tab[i] # Empty /\ w.tab[i].block = v.tab[i].block
  PROVE  /\ OneChanged(v, w, <<"tab", i, 0>>)
         /\ Box(v, <<"tab", i, 0>>) = TabItems(v, i)
         /\ Box(w, <<"tab", i, 0>>) = TabItems(w, i)
<1>1. /\ w.out = v.out /\ w.reg = v.reg /\ w.arb = v.arb /\ w.fifo = v.fifo
      /\ w.pend = v.pend /\ w.post = v.post
  BY Kept DEF Aside
<1>2. <<"tab", i, 0>> \in Place
  BY DEF Place
<1>3. ASSUME NEW q \in Place, q # <<"tab", i, 0>> PROVE Box(w, q) = Box(v, q)
  <2>1. \A j \in 1 .. TabLines, k \in Slot : PostItems(w, j, k) = PostItems(v, j, k)
    <3> SUFFICES ASSUME NEW j \in 1 .. TabLines, NEW k \in Slot
                 PROVE  PostItems(w, j, k) = PostItems(v, j, k)
      OBVIOUS
    <3>1. CASE j # i
      BY <1>1, <3>1 DEF PostItems
    <3>2. CASE j = i /\ v.post[i] = NoPosts
      BY <1>1, <3>2 DEF PostItems, NoPosts
    <3>3. CASE j = i /\ v.post[i] # NoPosts
      BY <1>1, <3>3 DEF PostItems
    <3> QED BY <3>1, <3>2, <3>3
  <2>2. CASE q[1] # "post"
    BY <1>1, <1>3, <2>2 DEF Place, Box, TabItems
  <2>3. CASE q[1] = "post"
    <3>1. q[2] \in 1 .. TabLines /\ q[3] \in Slot
      BY <2>3 DEF Place
    <3> QED BY <2>1, <2>3, <3>1 DEF Box
  <2> QED BY <2>2, <2>3
<1>4. \A x : Box(x, <<"tab", i, 0>>) = TabItems(x, i)
  BY DEF Box
<1> QED BY <1>1, <1>2, <1>3, <1>4 DEF OneChanged, Split

(* An offset slot.                                                          *)
LEMMA PostChanged ==
  ASSUME NEW v \in Unit, NEW w, NEW W, Split(v, W), NEW i \in 1 .. TabLines, NEW k \in Slot,
         Keeps(v, w, Aside \cup {"post"}),
         \A j \in 1 .. TabLines, l \in Slot : j # i \/ l # k => w.post[j][l] = v.post[j][l]
  PROVE  /\ OneChanged(v, w, <<"post", i, k>>)
         /\ Box(v, <<"post", i, k>>) = PostItems(v, i, k)
         /\ Box(w, <<"post", i, k>>) = PostItems(w, i, k)
<1>1. /\ w.out = v.out /\ w.reg = v.reg /\ w.arb = v.arb /\ w.fifo = v.fifo
      /\ w.pend = v.pend /\ w.tab = v.tab
  BY Kept DEF Aside
<1>2. <<"post", i, k>> \in Place
  <2>1. <<i, k>> \in (1 .. TabLines) \X Slot
    OBVIOUS
  <2> QED BY <2>1 DEF Place
<1>3. ASSUME NEW q \in Place, q # <<"post", i, k>> PROVE Box(w, q) = Box(v, q)
  <2>1. CASE q[1] # "post"
    BY <1>1, <1>3, <2>1 DEF Place, Box, TabItems
  <2>2. CASE q[1] = "post"
    <3>1. q[2] \in 1 .. TabLines /\ q[3] \in Slot /\ q = <<"post", q[2], q[3]>>
      BY <2>2 DEF Place
    <3>2. w.post[q[2]][q[3]] = v.post[q[2]][q[3]]
      BY <1>3, <3>1
    <3> QED BY <1>1, <2>2, <3>2 DEF Box, PostItems
  <2> QED BY <2>1, <2>2
<1>4. \A x : Box(x, <<"post", i, k>>) = PostItems(x, i, k)
  BY DEF Box
<1> QED BY <1>1, <1>2, <1>3, <1>4 DEF OneChanged, Split
-----------------------------------------------------------------------------
(* Queues of lines.                                                         *)
LEMMA NoItems == SeqItems(<<>>) = {} /\ Apart(<<>>)
  BY DEF SeqItems, Apart

(* A line at the end of a sequence adds its requests.                       *)
LEMMA AppendItems ==
  ASSUME NEW s \in Seq(Line), NEW line \in Line
  PROVE  /\ Append(s, line) \in Seq(Line)
         /\ SeqItems(Append(s, line)) = SeqItems(s) \cup LineItems(line)
         /\ Apart(s) /\ LineItems(line) \cap SeqItems(s) = {} => Apart(Append(s, line))
<1> DEFINE a == Append(s, line)
<1>1. /\ a \in Seq(Line) /\ Len(a) = Len(s) + 1 /\ a[Len(s) + 1] = line
      /\ \A i \in 1 .. Len(s) : a[i] = s[i]
  BY AppendProperties
<1>2. Len(s) \in Nat /\ DOMAIN s = 1 .. Len(s) /\ DOMAIN a = 1 .. (Len(s) + 1)
  BY <1>1, LenProperties
<1> HIDE DEF a
<1>3. SeqItems(a) = SeqItems(s) \cup LineItems(line)
  <2>1. ASSUME NEW x \in SeqItems(a) PROVE x \in SeqItems(s) \cup LineItems(line)
    <3>1. PICK i \in DOMAIN a : x \in LineItems(a[i])
      BY DEF SeqItems
    <3>2. CASE i = Len(s) + 1
      BY <1>1, <3>1, <3>2
    <3>3. CASE i \in DOMAIN s
      BY <1>1, <1>2, <3>1, <3>3 DEF SeqItems
    <3> QED BY <1>2, <3>2, <3>3
  <2>2. ASSUME NEW i \in DOMAIN s PROVE LineItems(s[i]) \subseteq SeqItems(a)
    <3>1. i \in DOMAIN a /\ a[i] = s[i]
      BY <1>1, <1>2
    <3> QED BY <3>1 DEF SeqItems
  <2>3. LineItems(line) \subseteq SeqItems(a)
    <3>1. Len(s) + 1 \in DOMAIN a
      BY <1>2
    <3> QED BY <1>1, <3>1 DEF SeqItems
  <2>4. SeqItems(s) \subseteq SeqItems(a)
    BY <2>2 DEF SeqItems
  <2> QED BY <2>1, <2>3, <2>4
<1>4. ASSUME Apart(s), LineItems(line) \cap SeqItems(s) = {}, NEW i \in DOMAIN a, NEW j \in DOMAIN a, i # j
      PROVE  LineItems(a[i]) \cap LineItems(a[j]) = {}
  <2>1. \A k \in DOMAIN s : LineItems(s[k]) \subseteq SeqItems(s)
    BY DEF SeqItems
  <2>2. CASE i \in DOMAIN s /\ j \in DOMAIN s
    BY <1>1, <1>2, <1>4, <2>2 DEF Apart
  <2>3. CASE i \in DOMAIN s /\ j = Len(s) + 1
    BY <1>1, <1>2, <1>4, <2>1, <2>3
  <2>4. CASE i = Len(s) + 1 /\ j \in DOMAIN s
    BY <1>1, <1>2, <1>4, <2>1, <2>4
  <2> QED BY <1>2, <1>4, <2>2, <2>3, <2>4
<1>5. Apart(s) /\ LineItems(line) \cap SeqItems(s) = {} => Apart(a)
  BY <1>4 DEF Apart
<1> QED BY <1>1, <1>3, <1>5 DEF a

(* The front of a sequence takes its requests along.                        *)
LEMMA TailItems ==
  ASSUME NEW s \in Seq(Line), s # <<>>
  PROVE  /\ Head(s) \in Line /\ Tail(s) \in Seq(Line)
         /\ 1 \in DOMAIN s /\ Head(s) = s[1]
         /\ \A i \in DOMAIN Tail(s) : i + 1 \in DOMAIN s /\ Tail(s)[i] = s[i + 1]
         /\ SeqItems(s) = LineItems(Head(s)) \cup SeqItems(Tail(s))
         /\ Apart(s) => Apart(Tail(s)) /\ LineItems(Head(s)) \cap SeqItems(Tail(s)) = {}
<1> DEFINE t == Tail(s)
           h == Head(s)
<1>1. /\ h \in Line /\ t \in Seq(Line) /\ Len(t) = Len(s) - 1
      /\ \A i \in 1 .. Len(t) : t[i] = s[i + 1]
  BY HeadTailProperties
<1>2. Len(s) \in Nat /\ Len(s) # 0 /\ DOMAIN s = 1 .. Len(s) /\ DOMAIN t = 1 .. (Len(s) - 1)
  BY <1>1, LenProperties, EmptySeq
<1>3. h = s[1]
  OBVIOUS
<1> HIDE DEF t, h
<1>4. 1 \in DOMAIN s /\ \A i \in DOMAIN t : i + 1 \in DOMAIN s /\ t[i] = s[i + 1]
  BY <1>1, <1>2
<1>5. ASSUME NEW x \in SeqItems(s) PROVE x \in LineItems(h) \cup SeqItems(t)
  <2>1. PICK i \in DOMAIN s : x \in LineItems(s[i])
    BY DEF SeqItems
  <2>2. CASE i = 1
    BY <1>3, <2>1, <2>2
  <2>3. CASE i # 1
    <3>1. i - 1 \in DOMAIN t /\ t[i - 1] = s[i]
      BY <1>1, <1>2, <2>3
    <3> QED BY <2>1, <3>1 DEF SeqItems
  <2> QED BY <2>2, <2>3
<1>6. LineItems(h) \cup SeqItems(t) \subseteq SeqItems(s)
  BY <1>3, <1>4 DEF SeqItems
<1>7. ASSUME Apart(s) PROVE Apart(t) /\ LineItems(h) \cap SeqItems(t) = {}
  <2>1. Apart(t)
    <3>1. ASSUME NEW i \in DOMAIN t, NEW j \in DOMAIN t, i # j
          PROVE  LineItems(t[i]) \cap LineItems(t[j]) = {}
      <4>1. i + 1 # j + 1
        BY <1>2, <3>1
      <4> QED BY <1>4, <1>7, <4>1 DEF Apart
    <3> QED BY <3>1 DEF Apart
  <2>2. ASSUME NEW i \in DOMAIN t PROVE LineItems(h) \cap LineItems(t[i]) = {}
    <3>1. i + 1 # 1
      BY <1>2
    <3> QED BY <1>3, <1>4, <1>7, <3>1 DEF Apart
  <2> QED BY <2>1, <2>2 DEF SeqItems
<1>8. SeqItems(s) = LineItems(h) \cup SeqItems(t)
  BY <1>5, <1>6
<1> QED BY <1>1, <1>3, <1>4, <1>7, <1>8 DEF t, h
-----------------------------------------------------------------------------
(* The invariant, part by part.                                             *)

(* The requests of a line have its tag.                                     *)
OneTag(line) == \A w \in Word : line.off[w] # Empty => line.off[w].tag = line.tag

FifoOK(v) ==
  \A b \in Bank : \A i \in DOMAIN v.fifo[b] : ~v.fifo[b][i].complete /\ OneTag(v.fifo[b][i])

RegOK(v) ==
  \A b \in Bank :
    /\ v.reg[b] # Empty => (v.reg[b].complete => ~v.reg[b].wr) /\ OneTag(v.reg[b])
    /\ v.asked[b] => v.reg[b] # Empty /\ ~v.reg[b].complete

PendOK(v) == \A i \in DOMAIN v.pend : ~v.pend[i].wr

TabOK(v) ==
  \A i \in 1 .. TabLines :
    /\ v.tab[i] # Empty /\ ~v.tab[i].valid => v.tab[i].off = NoOffsets
    /\ v.post[i] # NoPosts => v.tab[i] # Empty

BusOK(v) == \A i, j \in DOMAIN v.bus : i <= j => v.bus[i].age >= v.bus[j].age

(* The counters of a set order its ways as their last uses do.              *)
InOrder(counter, older) ==
  /\ \A x, y \in C!Way : <<x, y>> \in older => counter[x] < counter[y]
  /\ \A x, y \in C!Way : counter[x] = counter[y] /\ counter[x] > 0 => x = y
  /\ \A x \in C!Way : counter[x] > 0 =>
       \A n \in counter[x] .. (Ways - 1) : \E y \in C!Way : counter[y] = n

CacheOK(c) ==
  \A s \in C!SetId :
    /\ InOrder(c.counter[s], c.older[s])
    /\ \A x \in C!Way : c.dirty[s][x] => c.block[s][x] # Empty

Counted(v) ==
  \A b \in Blocks :
    Cardinality(Fetching(v, b)) = Cardinality(Reading(v.bus, b)) + Cardinality(Reading(v.mem, b))

Sound(v) == FifoOK(v) /\ RegOK(v) /\ PendOK(v) /\ TabOK(v) /\ BusOK(v) /\ CacheOK(v.cache)

Good(v, W) == v \in Unit /\ Sound(v) /\ Counted(v) /\ Split(v, W)

(* What the phases of an update leave alone.                                *)
Still(v, w) == w.arb = v.arb /\ w.cache.block = v.cache.block

(* A part whose fields are not changed holds as before.                     *)
LEMMA SoundKept ==
  ASSUME NEW v \in Unit, NEW w, NEW S, Keeps(v, w, S), Sound(v)
  PROVE  /\ "fifo" \notin S => FifoOK(w)
         /\ "reg" \notin S /\ "asked" \notin S => RegOK(w)
         /\ "pend" \notin S => PendOK(w)
         /\ "tab" \notin S /\ "post" \notin S => TabOK(w)
         /\ "bus" \notin S => BusOK(w)
         /\ "cache" \notin S => CacheOK(w.cache)
<1>1. "fifo" \notin S => FifoOK(w)
  BY Kept DEF Sound, FifoOK
<1>2. "reg" \notin S /\ "asked" \notin S => RegOK(w)
  BY Kept DEF Sound, RegOK
<1>3. "pend" \notin S => PendOK(w)
  BY Kept DEF Sound, PendOK
<1>4. "tab" \notin S /\ "post" \notin S => TabOK(w)
  BY Kept DEF Sound, TabOK
<1>5. "bus" \notin S => BusOK(w)
  BY Kept DEF Sound, BusOK
<1>6. "cache" \notin S => CacheOK(w.cache)
  BY Kept DEF Sound
<1> QED BY <1>1, <1>2, <1>3, <1>4, <1>5, <1>6

(* Neither lines nor transfers change, so the fetches are counted as        *)
(* before.                                                                  *)
LEMMA CountedKept ==
  ASSUME NEW v \in Unit, NEW w, NEW S, Keeps(v, w, S), Counted(v),
         "tab" \notin S, "bus" \notin S, "mem" \notin S
  PROVE  Counted(w)
  BY Kept DEF Counted, Fetching

(* Neither the arbiter nor the cache changes.                               *)
LEMMA StillKept ==
  ASSUME NEW v \in Unit, NEW w, NEW S, Keeps(v, w, S), "arb" \notin S, "cache" \notin S
  PROVE  Still(v, w)
  BY Kept DEF Still
-----------------------------------------------------------------------------
(* Answers.                                                                 *)
LEMMA AnswerIs ==
  ASSUME NEW v \in Unit, NEW block \in Blocks, NEW off \in Offsets
  PROVE  /\ Answer(v, block, off) \in Unit
         /\ Keeps(v, Answer(v, block, off), {"out"})
         /\ Answer(v, block, off).out = v.out \cup Given(v, block, off)
<1> DEFINE w == Answer(v, block, off)
<1>1. w = [v EXCEPT !.out = v.out \cup Given(v, block, off)]
  BY DEF Answer, Given
<1>2. Given(v, block, off) \subseteq Answered
  BY RestOf, ItemsType
<1> HIDE DEF w
<1>3. w.out = v.out \cup Given(v, block, off)
  BY <1>1, UnitFields DEF Fields
<1>4. Keeps(v, w, {"out"})
  BY <1>1 DEF Keeps
<1>5. w \in Unit
  BY <1>1, <1>2, UnitFields DEF Unit
<1> QED BY <1>3, <1>4, <1>5 DEF w

(* With the tag of the line the answer is the same when the requests have   *)
(* that tag.                                                                *)
LEMMA AnswerTaggedIs ==
  ASSUME NEW v, NEW block, NEW line, OneTag(line)
  PROVE  AnswerTagged(v, block, line.off, line.tag) = Answer(v, block, line.off)
<1>1. \A w \in Now(v, line.off) : line.off[w].tag = line.tag
  BY DEF Now, OneTag
<1> QED BY <1>1 DEF Answer, AnswerTagged

(* Requests that are in no place are answered.                              *)
LEMMA HandOut ==
  ASSUME NEW v \in Unit, NEW W, Split(v, W), NEW block \in Blocks, NEW off \in Offsets,
         Items(block, off) \cap W = {}, NEW w \in Unit, Keeps(v, w, Aside \cup {"out"}),
         w.out = v.out \cup Given(v, block, off)
  PROVE  Split(w, W \cup Given(v, block, off))
<1>1. Given(v, block, off) \cap W = {}
  BY RestOf
<1>2. /\ OneChanged(v, w, <<"out", 0, 0>>)
      /\ Box(v, <<"out", 0, 0>>) = v.out /\ Box(w, <<"out", 0, 0>>) = w.out
  BY OutChanged
<1> QED BY <1>1, <1>2, Put

(* An empty offset table holds no request.                                  *)
LEMMA NothingLeft ==
  ASSUME NEW block
  PROVE  Items(block, NoOffsets) = {} /\ NoOffsets \in Offsets
  BY DEF Items, NoOffsets, Offsets

(* A pending line is answered as far as its channels are free.              *)
LEMMA DrainLineOK ==
  ASSUME NEW v, NEW W, Good(v, W), NEW line \in Line, ~line.wr, LineItems(line) \cap W = {}
  PROVE  Good(DrainLine(v, line), W \cup LineItems(line)) /\ Still(v, DrainLine(v, line))
<1> DEFINE left == Rest(v, line.off)
           a == Answer(v, line.block, line.off)
           rest == [line EXCEPT !.off = left]
           w == DrainLine(v, line)
           given == Given(v, line.block, line.off)
<1>1. v \in Unit /\ Sound(v) /\ Counted(v) /\ Split(v, W)
  BY DEF Good
<1>2. line.block \in Blocks /\ line.off \in Offsets /\ line # Empty
  BY NoneIs DEF Line
<1>3. LineItems(line) = Items(line.block, line.off)
  BY <1>2 DEF LineItems
<1>4. /\ left \in Offsets /\ given \subseteq LineItems(line)
      /\ Items(line.block, left) = LineItems(line) \ given
  BY <1>2, <1>3, RestOf
<1>5. a \in Unit /\ Keeps(v, a, {"out"}) /\ a.out = v.out \cup given
  BY <1>1, <1>2, AnswerIs
<1>6. Split(a, W \cup given)
  <2>1. Keeps(v, a, Aside \cup {"out"})
    BY <1>5 DEF Keeps
  <2> QED BY <1>1, <1>2, <1>3, <1>5, <2>1, HandOut
<1>7. w = IF left = NoOffsets THEN a ELSE [a EXCEPT !.pend = Append(a.pend, rest)]
  BY DEF DrainLine
<1>8. rest \in Line /\ ~rest.wr /\ LineItems(rest) = LineItems(line) \ given
  <2>1. rest \in Line /\ rest.block = line.block /\ rest.off = left /\ rest.wr = line.wr
    BY <1>4 DEF Line
  <2> HIDE DEF rest
  <2>2. rest # Empty
    BY <2>1, NoneIs
  <2> QED BY <1>4, <2>1, <2>2 DEF LineItems
<1> HIDE DEF left, a, rest, w, given
<1>9. CASE left = NoOffsets
  <2>1. w = a /\ W \cup LineItems(line) = W \cup given
    BY <1>4, <1>7, <1>9, NothingLeft
  <2>2. Sound(a) /\ Counted(a) /\ Still(v, a)
    BY <1>1, <1>5, SoundKept, CountedKept, StillKept DEF Sound
  <2> QED BY <1>5, <1>6, <2>1, <2>2 DEF Good, w
<1>10. CASE left # NoOffsets
  <2>1. w = [a EXCEPT !.pend = Append(a.pend, rest)]
    BY <1>7, <1>10
  <2>2. a.pend \in Seq(Line) /\ Append(a.pend, rest) \in Seq(Line)
    BY <1>5, <1>8, UnitFields, AppendItems
  <2>3. w \in Unit /\ w.pend = Append(a.pend, rest) /\ Keeps(a, w, {"pend"})
    BY <1>5, <2>1, <2>2, UnitFields DEF Unit, Keeps
  <2>4. Keeps(v, w, {"out", "pend"})
    BY <1>5, <2>3 DEF Keeps
  <2>5. Apart(a.pend) /\ SeqItems(a.pend) \subseteq W \cup given
    <3>1. <<"pend", 0, 0>> \in Place /\ Box(a, <<"pend", 0, 0>>) = SeqItems(a.pend)
      BY DEF Place, Box
    <3> QED BY <1>6, <3>1 DEF Split
  <2>6. SeqItems(w.pend) = SeqItems(a.pend) \cup (LineItems(line) \ given) /\ Apart(w.pend)
    <3>1. LineItems(rest) \cap SeqItems(a.pend) = {}
      BY <1>8, <2>5
    <3> QED BY <1>8, <2>2, <2>3, <2>5, <3>1, AppendItems
  <2>7. Split(w, (W \cup given) \cup (LineItems(line) \ given))
    <3>1. Keeps(a, w, Aside \cup {"pend"})
      BY <2>3 DEF Keeps
    <3>2. /\ OneChanged(a, w, <<"pend", 0, 0>>)
          /\ Box(a, <<"pend", 0, 0>>) = SeqItems(a.pend)
          /\ Box(w, <<"pend", 0, 0>>) = SeqItems(w.pend)
      BY <1>5, <1>6, <2>6, <3>1, PendChanged
    <3>3. (LineItems(line) \ given) \cap (W \cup given) = {}
      OBVIOUS
    <3> QED BY <1>6, <2>6, <3>2, <3>3, Put
  <2>8. Sound(w) /\ Counted(w) /\ Still(v, w)
    <3>1. PendOK(w)
      <4>1. PendOK(a)
        BY <1>1, <1>5, SoundKept
      <4>2. DOMAIN w.pend = 1 .. Len(a.pend) + 1 /\ DOMAIN a.pend = 1 .. Len(a.pend) /\ Len(a.pend) \in Nat
        BY <1>8, <2>2, <2>3, AppendProperties, LenProperties
      <4>3. \A i \in DOMAIN a.pend : w.pend[i] = a.pend[i]
        BY <1>8, <2>2, <2>3, <4>2, AppendProperties
      <4>4. w.pend[Len(a.pend) + 1] = rest
        BY <1>8, <2>2, <2>3, AppendProperties
      <4>5. \A i \in DOMAIN w.pend : i \in DOMAIN a.pend \/ i = Len(a.pend) + 1
        BY <4>2
      <4> QED BY <1>8, <4>1, <4>3, <4>4, <4>5 DEF PendOK
    <3> QED BY <1>1, <2>4, <3>1, SoundKept, CountedKept, StillKept DEF Sound
  <2>9. (W \cup given) \cup (LineItems(line) \ given) = W \cup LineItems(line)
    BY <1>4
  <2> QED BY <2>3, <2>7, <2>8, <2>9 DEF Good, w
<1> QED BY <1>9, <1>10
(* The lines until the k-th.                                                *)
Until(s, k) == UNION {LineItems(s[i]) : i \in 1 .. k}

(* The requests of one line more.                                           *)
LEMMA UntilNext ==
  ASSUME NEW s \in Seq(Line), NEW k \in 1 .. Len(s)
  PROVE  Until(s, k) = Until(s, k - 1) \cup LineItems(s[k])
<1>1. k \in Nat /\ 1 .. k = (1 .. (k - 1)) \cup {k}
  BY LenProperties
<1> QED BY <1>1 DEF Until

(* The requests of no line and of all lines.                                *)
LEMMA UntilEnds ==
  ASSUME NEW s \in Seq(Line)
  PROVE  Until(s, 0) = {} /\ Until(s, Len(s)) = SeqItems(s)
<1>1. DOMAIN s = 1 .. Len(s) /\ 1 .. 0 = {}
  BY LenProperties
<1> QED BY <1>1 DEF Until, SeqItems

(* The pending lines keep every request: each is answered or stays pending. *)
LEMMA DrainPendingOK ==
  ASSUME NEW v, NEW W, Good(v, W)
  PROVE  Good(DrainPending(v), W) /\ Still(v, DrainPending(v))
<1> DEFINE N == Len(v.pend)
           start == [v EXCEPT !.pend = <<>>]
           other == W \ SeqItems(v.pend)
           V == [k \in 0 .. N |-> {x \in Unit : Good(x, other \cup Until(v.pend, k)) /\ Still(v, x)}]
           G == [k \in 1 .. N |-> [x \in V[k-1] |-> DrainLine(x, v.pend[k])]]
           Satisfies(f) == f = [i \in 0 .. N |-> IF i = 0 THEN start ELSE DrainLine(f[i-1], v.pend[i])]
           after == CHOOSE f : Satisfies(f)
<1>1. v \in Unit /\ Sound(v) /\ Counted(v) /\ Split(v, W)
  BY DEF Good
<1>2. N \in Nat /\ DOMAIN v.pend = 1 .. N /\ v.pend \in Seq(Line)
  BY <1>1, UnitFields, LenProperties
<1>3. start \in V[0]
  <2>1. start \in Unit /\ start.pend = <<>> /\ Keeps(v, start, {"pend"})
    <3>1. <<>> \in Seq(Line)
      BY EmptySeq
    <3> QED BY <1>1, <3>1, UnitFields DEF Unit, Keeps
  <2> HIDE DEF start
  <2>2. Keeps(v, start, Aside \cup {"pend"})
    BY <2>1 DEF Keeps
  <2>3. Split(start, other)
    <3>1. Apart(start.pend) /\ SeqItems(start.pend) = {}
      BY <2>1, NoItems
    <3>2. /\ OneChanged(v, start, <<"pend", 0, 0>>)
          /\ Box(v, <<"pend", 0, 0>>) = SeqItems(v.pend)
          /\ Box(start, <<"pend", 0, 0>>) = SeqItems(start.pend)
      BY <1>1, <2>2, <3>1, PendChanged
    <3>3. SeqItems(v.pend) \subseteq Box(v, <<"pend", 0, 0>>)
      BY <3>2
    <3>4. Box(start, <<"pend", 0, 0>>) = Box(v, <<"pend", 0, 0>>) \ SeqItems(v.pend)
      BY <3>1, <3>2
    <3> QED BY <1>1, <3>2, <3>3, <3>4, Taken
  <2>4. Sound(start) /\ Counted(start) /\ Still(v, start)
    <3>1. PendOK(start)
      BY <2>1, EmptySeq DEF PendOK
    <3> QED BY <1>1, <2>1, <3>1, SoundKept, CountedKept, StillKept DEF Sound
  <2>5. other \cup Until(v.pend, 0) = other
    BY <1>2, UntilEnds
  <2>6. 0 \in 0 .. N
    BY <1>2
  <2> QED BY <2>1, <2>3, <2>4, <2>5, <2>6 DEF Good
<1>4. ASSUME NEW k \in 1 .. N, NEW x \in V[k-1] PROVE DrainLine(x, v.pend[k]) \in V[k]
  <2>1. k \in 0 .. N /\ k - 1 \in 0 .. N /\ k \in DOMAIN v.pend
    BY <1>2
  <2>2. x \in Unit /\ Good(x, other \cup Until(v.pend, k - 1)) /\ Still(v, x)
    BY <2>1
  <2>3. v.pend[k] \in Line /\ ~v.pend[k].wr
    BY <1>1, <1>2, <2>1, ElementOfSeq DEF Sound, PendOK
  <2>4. LineItems(v.pend[k]) \cap (other \cup Until(v.pend, k - 1)) = {}
    <3>1. LineItems(v.pend[k]) \subseteq SeqItems(v.pend)
      BY <2>1 DEF SeqItems
    <3>2. ASSUME NEW i \in 1 .. (k - 1) PROVE LineItems(v.pend[k]) \cap LineItems(v.pend[i]) = {}
      <4>1. i # k /\ i \in DOMAIN v.pend
        BY <1>2, <3>2
      <4> QED BY <1>1, <2>1, <4>1 DEF Split, Apart
    <3> QED BY <3>1, <3>2 DEF Until
  <2> DEFINE y == DrainLine(x, v.pend[k])
  <2> HIDE DEF y
  <2>5. Good(y, (other \cup Until(v.pend, k - 1)) \cup LineItems(v.pend[k])) /\ Still(x, y)
    BY <2>2, <2>3, <2>4, DrainLineOK DEF y
  <2>6. (other \cup Until(v.pend, k - 1)) \cup LineItems(v.pend[k]) = other \cup Until(v.pend, k)
    BY <1>2, UntilNext
  <2>7. y \in Unit /\ Still(v, y)
    BY <2>2, <2>5 DEF Good, Still
  <2> QED BY <2>1, <2>5, <2>6, <2>7 DEF y
<1> HIDE DEF V
<1>5. PICK h \in [0 .. N -> UNION {V[k] : k \in 0 .. N}] :
        Chain(h, N, start, G) /\ \A k \in 0 .. N : h[k] \in V[k]
  <2>1. \A k \in 1 .. N : \A x \in V[k-1] : G[k][x] \in V[k]
    BY <1>4
  <2> HIDE DEF G, start
  <2> QED BY <1>2, <1>3, <2>1, Chained
<1>6. Satisfies(h)
  <2>1. ASSUME NEW k \in 0 .. N, k # 0 PROVE h[k] = DrainLine(h[k-1], v.pend[k])
    <3>1. k \in 1 .. N /\ k - 1 \in 0 .. N
      BY <1>2, <2>1
    <3> QED BY <1>5, <3>1 DEF Chain
  <2> HIDE DEF start
  <2>2. h[0] = start
    BY <1>5 DEF Chain
  <2> QED BY <2>1, <2>2
<1>7. Satisfies(after)
  <2> HIDE DEF Satisfies
  <2> QED BY <1>6
<1>8. ~cfg.stalls => DrainPending(v) = after[N]
  BY DEF DrainPending, Each
<1> HIDE DEF after, start
<1>9. after[N] \in V[N]
  <2>1. after[0] = start
    BY <1>2, <1>7
  <2>2. \A k \in 1 .. N : after[k-1] \in V[k-1] => after[k] \in V[k]
    <3> SUFFICES ASSUME NEW k \in 1 .. N, after[k-1] \in V[k-1] PROVE after[k] \in V[k]
      OBVIOUS
    <3>1. k \in 0 .. N /\ k # 0
      BY <1>2
    <3>2. after[k] = DrainLine(after[k-1], v.pend[k])
      BY <1>7, <3>1
    <3> QED BY <1>4, <3>2
  <2> HIDE DEF Satisfies, N
  <2> QED BY <1>2, <1>3, <2>1, <2>2, Followed
<1>10. CASE cfg.stalls
  BY <1>10 DEF DrainPending, Still
<1>11. CASE ~cfg.stalls
  <2>1. after[N] \in Unit /\ Good(after[N], other \cup Until(v.pend, N)) /\ Still(v, after[N])
    <3>1. N \in 0 .. N
      BY <1>2
    <3> QED BY <1>9, <3>1 DEF V
  <2>2. SeqItems(v.pend) \subseteq W
    <3>1. <<"pend", 0, 0>> \in Place /\ Box(v, <<"pend", 0, 0>>) = SeqItems(v.pend)
      BY DEF Place, Box
    <3> QED BY <1>1, <3>1 DEF Split
  <2>3. other \cup Until(v.pend, N) = W
    BY <1>2, <2>2, UntilEnds
  <2> QED BY <1>8, <1>11, <2>1, <2>3
<1> QED BY <1>10, <1>11
-----------------------------------------------------------------------------
(* Transfers.                                                               *)
Alike(x, y) == x.block = y.block /\ x.wr = y.wr

(* The reads in a sequence of transfers can be counted.                     *)
LEMMA ReadingFinite ==
  ASSUME NEW s \in Seq(Transfer), NEW b
  PROVE  IsFiniteSet(Reading(s, b)) /\ Cardinality(Reading(s, b)) \in Nat
<1>1. Len(s) \in Nat /\ DOMAIN s = 1 .. Len(s)
  BY LenProperties
<1>2. IsFiniteSet(1 .. Len(s))
  BY <1>1, FS_Interval
<1>3. Reading(s, b) \in SUBSET (1 .. Len(s))
  BY <1>1 DEF Reading
<1>4. IsFiniteSet(Reading(s, b))
  BY <1>2, <1>3, FS_Subset
<1> QED BY <1>4, FS_CardinalityType

(* r is s and t, one after the other.                                       *)
Joined(r, s, t) ==
  /\ r \in Seq(Transfer) /\ s \in Seq(Transfer) /\ t \in Seq(Transfer)
  /\ Len(r) = Len(s) + Len(t) /\ \A i \in 1 .. Len(s) : Alike(r[i], s[i])
  /\ \A i \in 1 .. Len(t) : Alike(r[Len(s) + i], t[i])

(* The reads of a concatenation.                                            *)
LEMMA ReadingJoined ==
  ASSUME NEW r, NEW s, NEW t, NEW b, Joined(r, s, t)
  PROVE  Cardinality(Reading(r, b)) = Cardinality(Reading(s, b)) + Cardinality(Reading(t, b))
<1> DEFINE n == Len(s)
           A == Reading(s, b)
           B == Reading(t, b)
           moved == {i \in (n + 1) .. (n + Len(t)) : i - n \in B}
           f == [i \in B |-> i + n]
<1>1. /\ n \in Nat /\ Len(t) \in Nat /\ DOMAIN s = 1 .. n /\ DOMAIN t = 1 .. Len(t)
      /\ DOMAIN r = 1 .. (n + Len(t))
  BY LenProperties DEF Joined
<1>2. IsFiniteSet(A) /\ IsFiniteSet(B) /\ A \subseteq 1 .. n /\ B \subseteq 1 .. Len(t)
  BY <1>1, ReadingFinite DEF Reading, Joined
<1>3. Reading(r, b) = A \cup moved
  <2>1. ASSUME NEW i \in 1 .. n PROVE i \in Reading(r, b) <=> i \in A
    <3>1. i \in DOMAIN r /\ i \in DOMAIN s /\ Alike(r[i], s[i])
      BY <1>1 DEF Joined
    <3> QED BY <3>1 DEF Reading, Alike
  <2>2. ASSUME NEW i \in (n + 1) .. (n + Len(t)) PROVE i \in Reading(r, b) <=> i \in moved
    <3>1. i \in DOMAIN r /\ i - n \in 1 .. Len(t) /\ n + (i - n) = i
      BY <1>1
    <3>2. Alike(r[i], t[i - n])
      BY <3>1 DEF Joined
    <3>3. i \in moved <=> i - n \in B
      OBVIOUS
    <3> QED BY <1>1, <3>1, <3>2, <3>3 DEF Reading, Alike
  <2>3. ASSUME NEW i \in DOMAIN r PROVE i \in 1 .. n \/ i \in (n + 1) .. (n + Len(t))
    BY <1>1
  <2>4. ASSUME NEW i \in 1 .. n PROVE i \notin moved
    BY <1>1
  <2>5. ASSUME NEW i \in (n + 1) .. (n + Len(t)) PROVE i \notin A
    BY <1>1, <1>2
  <2>6. Reading(r, b) \subseteq DOMAIN r
    BY DEF Reading
  <2>7. moved \subseteq (n + 1) .. (n + Len(t))
    OBVIOUS
  <2> HIDE DEF A, moved
  <2> QED BY <1>2, <2>1, <2>2, <2>3, <2>6, <2>7
<1>4. f \in Bijection(B, moved)
  <2>1. f \in [B -> moved]
    <3>1. ASSUME NEW i \in B PROVE i + n \in moved
      <4>1. i \in 1 .. Len(t)
        BY <1>2
      <4>2. i + n \in (n + 1) .. (n + Len(t)) /\ (i + n) - n = i
        BY <1>1, <4>1
      <4> QED BY <4>2
    <3> QED BY <3>1
  <2>2. \A i, j \in B : f[i] = f[j] => i = j
    BY <1>1, <1>2
  <2>3. \A j \in moved : \E i \in B : f[i] = j
    <3>1. ASSUME NEW j \in moved PROVE j - n \in B /\ f[j - n] = j
      BY <1>1
    <3> QED BY <3>1
  <2> HIDE DEF f
  <2> QED BY <2>1, <2>2, <2>3, Fun_IsBij
<1>5. IsFiniteSet(moved) /\ Cardinality(moved) = Cardinality(B)
  <2>1. ExistsBijection(B, moved)
    BY <1>4 DEF ExistsBijection
  <2> HIDE DEF B, moved
  <2> QED BY <1>2, <2>1, FS_Bijection
<1>6. A \cap moved = {}
  BY <1>1, <1>2
<1>7. Cardinality(A) \in Nat /\ Cardinality(B) \in Nat
  BY ReadingFinite DEF Joined
<1> HIDE DEF A, B, moved
<1>8. Cardinality(A \cup moved) = Cardinality(A) + Cardinality(moved) - Cardinality(A \cap moved)
  BY <1>2, <1>5, FS_Union
<1>9. Cardinality(A \cap moved) = 0
  BY <1>6, FS_EmptySet
<1> QED BY <1>3, <1>5, <1>7, <1>8, <1>9 DEF A, B

(* The reads of one transfer.                                               *)
LEMMA ReadingOne ==
  ASSUME NEW x \in Transfer, NEW b
  PROVE  /\ <<x>> \in Seq(Transfer)
         /\ Cardinality(Reading(<<x>>, b)) = IF ~x.wr /\ x.block = b THEN 1 ELSE 0
<1>1. <<x>> \in Seq(Transfer) /\ DOMAIN <<x>> = {1} /\ <<x>>[1] = x
  OBVIOUS
<1>2. Reading(<<x>>, b) = IF ~x.wr /\ x.block = b THEN {1} ELSE {}
  BY <1>1 DEF Reading
<1> QED BY <1>1, <1>2, FS_EmptySet, FS_Singleton

(* A transfer at the end counts when it is a read.                          *)
LEMMA AppendReading ==
  ASSUME NEW s \in Seq(Transfer), NEW x \in Transfer, NEW b
  PROVE  /\ Append(s, x) \in Seq(Transfer)
         /\ Cardinality(Reading(Append(s, x), b)) =
              Cardinality(Reading(s, b)) + IF ~x.wr /\ x.block = b THEN 1 ELSE 0
<1> DEFINE r == Append(s, x)
           t == <<x>>
<1>1. /\ r \in Seq(Transfer) /\ Len(r) = Len(s) + 1 /\ r[Len(s) + 1] = x
      /\ \A i \in 1 .. Len(s) : r[i] = s[i]
  BY AppendProperties
<1>2. t \in Seq(Transfer) /\ Len(t) = 1 /\ t[1] = x
  OBVIOUS
<1>3. Cardinality(Reading(t, b)) = IF ~x.wr /\ x.block = b THEN 1 ELSE 0
  BY ReadingOne
<1> HIDE DEF r, t
<1>4. \A i \in 1 .. Len(s) : Alike(r[i], s[i])
  BY <1>1 DEF Alike
<1>5. \A i \in 1 .. Len(t) : Alike(r[Len(s) + i], t[i])
  BY <1>1, <1>2 DEF Alike
<1>6. Cardinality(Reading(r, b)) = Cardinality(Reading(s, b)) + Cardinality(Reading(t, b))
  <2>1. Joined(r, s, t)
    BY <1>1, <1>2, <1>4, <1>5 DEF Joined
  <2> QED BY <2>1, ReadingJoined
<1> QED BY <1>1, <1>3, <1>6 DEF r

(* What RemoveAt gives.                                                     *)
LEMMA RemoveAtIs ==
  ASSUME NEW S, NEW s \in Seq(S), NEW k \in 1 .. Len(s)
  PROVE  /\ RemoveAt(s, k) \in Seq(S) /\ Len(RemoveAt(s, k)) = Len(s) - 1
         /\ \A j \in 1 .. (Len(s) - 1) : RemoveAt(s, k)[j] = IF j < k THEN s[j] ELSE s[j + 1]
<1> DEFINE a == SubSeq(s, 1, k - 1)
           c == SubSeq(s, k + 1, Len(s))
<1>1. Len(s) \in Nat /\ k \in Nat
  BY LenProperties
<1>2. \A i \in 1 .. Len(s) : s[i] \in S
  BY ElementOfSeq
<1>3. a \in Seq(S) /\ Len(a) = k - 1 /\ \A j \in 1 .. (k - 1) : a[j] = s[j]
  <2>1. \A j \in 1 .. (k - 1) : s[j] \in S
    BY <1>1, <1>2
  <2>2. /\ a \in Seq(S) /\ Len(a) = (IF 1 <= k - 1 THEN (k - 1) - 1 + 1 ELSE 0)
        /\ \A j \in 1 .. (k - 1) - 1 + 1 : a[j] = s[1 + j - 1]
    BY <1>1, <2>1, SubSeqProperties
  <2> QED BY <1>1, <2>2
<1>4. c \in Seq(S) /\ Len(c) = Len(s) - k /\ \A j \in 1 .. (Len(s) - k) : c[j] = s[k + j]
  <2>1. \A j \in (k + 1) .. Len(s) : s[j] \in S
    BY <1>1, <1>2
  <2>2. /\ c \in Seq(S) /\ Len(c) = (IF k + 1 <= Len(s) THEN Len(s) - (k + 1) + 1 ELSE 0)
        /\ \A j \in 1 .. Len(s) - (k + 1) + 1 : c[j] = s[(k + 1) + j - 1]
    BY <1>1, <2>1, SubSeqProperties
  <2> QED BY <1>1, <2>2
<1>5. RemoveAt(s, k) = a \o c
  BY DEF RemoveAt
<1> HIDE DEF a, c
<1>6. /\ a \o c \in Seq(S) /\ Len(a \o c) = Len(a) + Len(c)
      /\ \A j \in 1 .. Len(a) + Len(c) : (a \o c)[j] = IF j <= Len(a) THEN a[j] ELSE c[j - Len(a)]
  BY <1>3, <1>4, ConcatProperties
<1>7. ASSUME NEW j \in 1 .. (Len(s) - 1)
      PROVE  (a \o c)[j] = IF j < k THEN s[j] ELSE s[j + 1]
  <2>1. j \in 1 .. Len(a) + Len(c)
    BY <1>1, <1>3, <1>4
  <2>2. CASE j < k
    <3>1. j <= Len(a) /\ j \in 1 .. (k - 1)
      BY <1>1, <1>3, <2>2
    <3> QED BY <1>3, <1>6, <2>1, <2>2, <3>1
  <2>3. CASE ~ (j < k)
    <3>1. ~ (j <= Len(a)) /\ j - Len(a) \in 1 .. (Len(s) - k) /\ k + (j - Len(a)) = j + 1
      BY <1>1, <1>3, <2>3
    <3> QED BY <1>4, <1>6, <2>1, <2>3, <3>1
  <2> QED BY <2>2, <2>3
<1> QED BY <1>1, <1>3, <1>4, <1>5, <1>6, <1>7

(* A transfer that is taken out no longer counts.                           *)
LEMMA RemovedReading ==
  ASSUME NEW s \in Seq(Transfer), NEW k \in 1 .. Len(s), NEW b
  PROVE  Cardinality(Reading(s, b)) =
           Cardinality(Reading(RemoveAt(s, k), b)) + IF ~s[k].wr /\ s[k].block = b THEN 1 ELSE 0
<1> DEFINE a == SubSeq(s, 1, k - 1)
           c == SubSeq(s, k + 1, Len(s))
           d == SubSeq(s, k, Len(s))
           o == <<s[k]>>
           r == RemoveAt(s, k)
<1>1. Len(s) \in Nat /\ k \in Nat
  BY LenProperties
<1>2. \A i \in 1 .. Len(s) : s[i] \in Transfer
  BY ElementOfSeq
<1>3. a \in Seq(Transfer) /\ Len(a) = k - 1 /\ \A j \in 1 .. (k - 1) : a[j] = s[j]
  <2>1. \A j \in 1 .. (k - 1) : s[j] \in Transfer
    BY <1>1, <1>2
  <2>2. /\ a \in Seq(Transfer) /\ Len(a) = (IF 1 <= k - 1 THEN (k - 1) - 1 + 1 ELSE 0)
        /\ \A j \in 1 .. (k - 1) - 1 + 1 : a[j] = s[1 + j - 1]
    BY <1>1, <2>1, SubSeqProperties
  <2> QED BY <1>1, <2>2
<1>4. c \in Seq(Transfer) /\ Len(c) = Len(s) - k /\ \A j \in 1 .. (Len(s) - k) : c[j] = s[k + j]
  <2>1. \A j \in (k + 1) .. Len(s) : s[j] \in Transfer
    BY <1>1, <1>2
  <2>2. /\ c \in Seq(Transfer) /\ Len(c) = (IF k + 1 <= Len(s) THEN Len(s) - (k + 1) + 1 ELSE 0)
        /\ \A j \in 1 .. Len(s) - (k + 1) + 1 : c[j] = s[(k + 1) + j - 1]
    BY <1>1, <2>1, SubSeqProperties
  <2> QED BY <1>1, <2>2
<1>5. /\ d \in Seq(Transfer) /\ Len(d) = Len(s) - k + 1
      /\ \A j \in 1 .. (Len(s) - k + 1) : d[j] = s[k + j - 1]
  <2>1. \A j \in k .. Len(s) : s[j] \in Transfer
    BY <1>1, <1>2
  <2>2. /\ d \in Seq(Transfer) /\ Len(d) = (IF k <= Len(s) THEN Len(s) - k + 1 ELSE 0)
        /\ \A j \in 1 .. Len(s) - k + 1 : d[j] = s[k + j - 1]
    BY <1>1, <2>1, SubSeqProperties
  <2> QED BY <1>1, <2>2
<1>6. o \in Seq(Transfer) /\ Len(o) = 1 /\ o[1] = s[k]
  BY <1>2
<1>7. Cardinality(Reading(o, b)) = IF ~s[k].wr /\ s[k].block = b THEN 1 ELSE 0
  BY <1>2, ReadingOne
<1>8. /\ r \in Seq(Transfer) /\ Len(r) = Len(s) - 1
      /\ \A j \in 1 .. (Len(s) - 1) : r[j] = IF j < k THEN s[j] ELSE s[j + 1]
  BY RemoveAtIs
<1> HIDE DEF a, c, d, o, r
<1>9. Cardinality(Reading(s, b)) = Cardinality(Reading(a, b)) + Cardinality(Reading(d, b))
  <2>1. Len(s) = Len(a) + Len(d)
    BY <1>1, <1>3, <1>5
  <2>2. \A i \in 1 .. Len(a) : Alike(s[i], a[i])
    BY <1>1, <1>3 DEF Alike
  <2>3. ASSUME NEW i \in 1 .. Len(d) PROVE Alike(s[Len(a) + i], d[i])
    <3>1. Len(a) + i = k + i - 1 /\ i \in 1 .. (Len(s) - k + 1)
      BY <1>1, <1>3, <1>5
    <3> QED BY <1>5, <3>1 DEF Alike
  <2>4. Joined(s, a, d)
    BY <1>3, <1>5, <2>1, <2>2, <2>3 DEF Joined
  <2> QED BY <2>4, ReadingJoined
<1>10. Cardinality(Reading(d, b)) = Cardinality(Reading(o, b)) + Cardinality(Reading(c, b))
  <2>1. Len(d) = Len(o) + Len(c)
    BY <1>1, <1>4, <1>5, <1>6
  <2>2. ASSUME NEW i \in 1 .. Len(o) PROVE Alike(d[i], o[i])
    <3>1. i = 1 /\ 1 \in 1 .. (Len(s) - k + 1) /\ k + 1 - 1 = k
      BY <1>1, <1>6
    <3>2. d[1] = s[k]
      BY <1>5, <3>1
    <3> QED BY <1>6, <3>1, <3>2 DEF Alike
  <2>3. ASSUME NEW i \in 1 .. Len(c) PROVE Alike(d[Len(o) + i], c[i])
    <3>1. /\ Len(o) + i = i + 1 /\ i + 1 \in 1 .. (Len(s) - k + 1) /\ k + (i + 1) - 1 = k + i
          /\ i \in 1 .. (Len(s) - k)
      BY <1>1, <1>4, <1>6
    <3>2. d[i + 1] = s[k + i] /\ c[i] = s[k + i]
      BY <1>4, <1>5, <3>1
    <3> QED BY <3>1, <3>2 DEF Alike
  <2>4. Joined(d, o, c)
    BY <1>4, <1>5, <1>6, <2>1, <2>2, <2>3 DEF Joined
  <2> QED BY <2>4, ReadingJoined
<1>11. Cardinality(Reading(r, b)) = Cardinality(Reading(a, b)) + Cardinality(Reading(c, b))
  <2>1. Len(r) = Len(a) + Len(c)
    BY <1>1, <1>3, <1>4, <1>8
  <2>2. ASSUME NEW i \in 1 .. Len(a) PROVE Alike(r[i], a[i])
    <3>1. i \in 1 .. (Len(s) - 1) /\ i < k /\ i \in 1 .. (k - 1)
      BY <1>1, <1>3
    <3> QED BY <1>3, <1>8, <3>1 DEF Alike
  <2>3. ASSUME NEW i \in 1 .. Len(c) PROVE Alike(r[Len(a) + i], c[i])
    <3>1. /\ Len(a) + i = k - 1 + i /\ k - 1 + i \in 1 .. (Len(s) - 1) /\ ~ (k - 1 + i < k)
          /\ (k - 1 + i) + 1 = k + i /\ i \in 1 .. (Len(s) - k)
      BY <1>1, <1>3, <1>4
    <3>2. r[k - 1 + i] = s[k + i]
      BY <1>8, <3>1
    <3> QED BY <1>4, <3>1, <3>2 DEF Alike
  <2>4. Joined(r, a, c)
    BY <1>3, <1>4, <1>8, <2>1, <2>2, <2>3 DEF Joined
  <2> QED BY <2>4, ReadingJoined
<1>12. Cardinality(Reading(a, b)) \in Nat /\ Cardinality(Reading(c, b)) \in Nat
  BY <1>3, <1>4, ReadingFinite
<1> QED BY <1>7, <1>9, <1>10, <1>11, <1>12 DEF r
-----------------------------------------------------------------------------
(* The cache.                                                               *)
LEMMA GreatestElement ==
  ASSUME NEW n \in Nat, NEW T, T \subseteq 0 .. n, T # {}
  PROVE  \E x \in T : \A y \in T : x >= y
<1> DEFINE U == {m \in 0 .. n : n - m \in T}
<1>1. U \subseteq Nat /\ U # {}
  <2>1. PICK x \in T : TRUE
    OBVIOUS
  <2>2. n - x \in 0 .. n /\ n - (n - x) = x
    OBVIOUS
  <2>3. n - x \in U
    BY <2>2
  <2>4. U \subseteq Nat
    OBVIOUS
  <2> HIDE DEF U
  <2> QED BY <2>3, <2>4
<1> HIDE DEF U
<1>2. PICK m \in U : \A k \in U : m <= k
  BY <1>1, LeastElement
<1> USE DEF U
<1>3. n - m \in T
  OBVIOUS
<1>4. ASSUME NEW y \in T PROVE n - m >= y
  <2>1. n - y \in U
    OBVIOUS
  <2>2. m <= n - y
    BY <1>2, <2>1
  <2> QED BY <2>2
<1> QED BY <1>3, <1>4

(* A hit has a way.                                                         *)
LEMMA HitWayIs ==
  ASSUME NEW c, NEW block, C!HitWays(c, block) # {}
  PROVE  C!HitWay(c, block) \in C!Way /\ c.block[C!SetOf(block)][C!HitWay(c, block)] = block
<1> DEFINE T == C!HitWays(c, block)
<1>1. Ways \in Nat /\ T \subseteq 0 .. Ways /\ T # {}
  BY Sizes DEF C!HitWays, C!Way
<1> HIDE DEF T
<1>2. \E w \in T : \A x \in T : w >= x
  BY <1>1, GreatestElement
<1>3. \E w \in T : \A x \in T : x <= w
  BY <1>1, <1>2
<1>4. C!HitWay(c, block) \in T
  BY <1>3 DEF T, C!HitWay
<1> QED BY <1>4 DEF T, C!HitWays

(* The victim is the first way with the least counter.                      *)
LEMMA VictimIs ==
  ASSUME NEW c, NEW s, c.counter[s] \in [C!Way -> 0 .. (Ways - 1)]
  PROVE  C!Victim(c, s) \in C!Way /\ \A x \in C!Way : c.counter[s][x] >= c.counter[s][C!Victim(c, s)]
<1> DEFINE k == c.counter[s]
           T == {k[w] : w \in C!Way}
<1>1. T \subseteq Nat /\ T # {} /\ C!Way \subseteq Nat
  <2>1. 1 \in C!Way /\ Ways \in Nat /\ C!Way \subseteq Nat
    BY Sizes DEF C!Way
  <2>2. \A w \in C!Way : k[w] \in Nat
    BY <2>1
  <2>3. T \subseteq Nat /\ T # {}
    BY <2>1, <2>2
  <2> QED BY <2>1, <2>3
<1>2. \A w \in C!Way : k[w] \in T
  OBVIOUS
<1>3. \A n \in T : \E w \in C!Way : k[w] = n
  OBVIOUS
<1> HIDE DEF T
<1>4. PICK n \in T : \A m \in T : n <= m
  BY <1>1, LeastElement
<1> DEFINE M == {w \in C!Way : k[w] = n}
<1>5. M \subseteq Nat /\ M # {}
  BY <1>1, <1>3
<1>6. \A w \in M : w \in C!Way /\ k[w] = n
  OBVIOUS
<1>7. \A w \in C!Way : k[w] = n => w \in M
  OBVIOUS
<1> HIDE DEF M
<1>8. PICK w \in M : \A x \in M : w <= x
  BY <1>5, LeastElement
<1>9. \A x \in C!Way : k[x] >= n
  BY <1>1, <1>2, <1>4
<1>10. \A x \in C!Way : k[x] >= k[w] /\ (k[x] = k[w] => w <= x)
  BY <1>6, <1>7, <1>8, <1>9
<1>11. w \in C!Way
  BY <1>6
<1>12. C!Victim(c, s) \in C!Way /\ \A x \in C!Way : k[x] >= k[C!Victim(c, s)]
  BY <1>10, <1>11 DEF C!Victim
<1> QED BY <1>12

(* Two ways of counter 0 and one of counter 1 are one too many.             *)
LEMMA OneIsZero ==
  ASSUME NEW k \in [C!Way -> 0 .. (Ways - 1)], NEW older, InOrder(k, older),
         NEW x \in C!Way, NEW y \in C!Way, NEW z \in C!Way, k[x] = 0, k[y] = 0, k[z] = 1
  PROVE  x = y
<1> SUFFICES ASSUME x # y PROVE FALSE
  OBVIOUS
<1>1. Ways \in Nat /\ Ways > 0 /\ C!Way = 1 .. Ways
  BY Sizes DEF C!Way
<1>2. \A n \in 1 .. (Ways - 1) : \E w \in C!Way : k[w] = n
  <2>1. \A n \in k[z] .. (Ways - 1) : \E w \in C!Way : k[w] = n
    <3>1. k[z] > 0
      OBVIOUS
    <3> QED BY <3>1 DEF InOrder
  <2> QED BY <2>1
<1> DEFINE f == [n \in 0 .. Ways |-> IF n = 0 THEN x ELSE IF n = Ways THEN y
                                     ELSE CHOOSE w \in C!Way : k[w] = n]
<1>3. ASSUME NEW n \in 0 .. Ways, n # 0, n # Ways PROVE f[n] \in C!Way /\ k[f[n]] = n
  <2>1. n \in 1 .. (Ways - 1)
    BY <1>1, <1>3
  <2>2. \E w \in C!Way : k[w] = n
    BY <1>2, <2>1
  <2>3. f[n] = CHOOSE w \in C!Way : k[w] = n
    BY <1>3
  <2> HIDE DEF f
  <2> QED BY <2>2, <2>3
<1>4. f[0] = x /\ f[Ways] = y /\ DOMAIN f = 0 .. Ways
  BY <1>1
<1>5. f = [n \in 0 .. Ways |-> f[n]]
  OBVIOUS
<1> HIDE DEF f
<1>6. f \in [0 .. Ways -> C!Way]
  <2>1. \A n \in 0 .. Ways : f[n] \in C!Way
    BY <1>3, <1>4
  <2> QED BY <1>5, <2>1
<1>7. PICK a \in 0 .. Ways, b \in 0 .. Ways : a # b /\ f[a] = f[b]
  <2>1. IsFiniteSet(0 .. Ways) /\ Cardinality(0 .. Ways) = Ways + 1
    <3>1. 0 \in Int /\ Ways \in Int /\ ~ (0 > Ways)
      BY <1>1
    <3>2. IsFiniteSet(0 .. Ways) /\ Cardinality(0 .. Ways) = IF 0 > Ways THEN 0 ELSE Ways - 0 + 1
      BY <3>1, FS_Interval
    <3> QED BY <1>1, <3>1, <3>2
  <2>2. IsFiniteSet(C!Way) /\ Cardinality(C!Way) = Ways
    <3>1. 1 \in Int /\ Ways \in Int /\ ~ (1 > Ways)
      BY <1>1
    <3>2. IsFiniteSet(1 .. Ways) /\ Cardinality(1 .. Ways) = IF 1 > Ways THEN 0 ELSE Ways - 1 + 1
      BY <3>1, FS_Interval
    <3> QED BY <1>1, <3>1, <3>2
  <2>3. Cardinality(C!Way) < Cardinality(0 .. Ways)
    BY <1>1, <2>1, <2>2
  <2>4. IsFiniteSet(0 .. Ways) /\ IsFiniteSet(C!Way)
    BY <2>1, <2>2
  <2> DEFINE D == 0 .. Ways
  <2>5. f \in [D -> C!Way] /\ IsFiniteSet(D) /\ Cardinality(C!Way) < Cardinality(D)
    BY <1>6, <2>3, <2>4
  <2> HIDE DEF D
  <2>6. \E a, b \in D : a # b /\ f[a] = f[b]
    BY <2>4, <2>5, FS_PigeonHole
  <2> QED BY <2>6 DEF D
<1>8. \A n \in 0 .. Ways : k[f[n]] = IF n = Ways THEN 0 ELSE n
  BY <1>3, <1>4
<1> QED BY <1>1, <1>4, <1>7, <1>8

(* The least counter is 0.                                                  *)
LEMMA LeastIsZero ==
  ASSUME NEW k \in [C!Way -> 0 .. (Ways - 1)], NEW older, InOrder(k, older),
         NEW v \in C!Way, \A x \in C!Way : k[x] >= k[v]
  PROVE  k[v] = 0
<1> SUFFICES ASSUME k[v] # 0 PROVE FALSE
  OBVIOUS
<1>1. Ways \in Nat /\ Ways > 0 /\ C!Way = 1 .. Ways
  BY Sizes DEF C!Way
<1>2. \A x \in C!Way : k[x] > 0
  BY <1>1
<1>3. k \in [C!Way -> 1 .. (Ways - 1)]
  BY <1>1, <1>2
<1>4. Ways - 1 \in Nat /\ Ways - 1 > 0
  BY <1>1, <1>2
<1>5. IsFiniteSet(1 .. (Ways - 1)) /\ Cardinality(1 .. (Ways - 1)) = Ways - 1
  <2>1. 1 \in Int /\ Ways - 1 \in Int /\ ~ (1 > Ways - 1)
    BY <1>1, <1>4
  <2>2. /\ IsFiniteSet(1 .. (Ways - 1))
        /\ Cardinality(1 .. (Ways - 1)) = IF 1 > Ways - 1 THEN 0 ELSE (Ways - 1) - 1 + 1
    BY <2>1, FS_Interval
  <2> QED BY <1>1, <2>1, <2>2
<1>6. IsFiniteSet(C!Way) /\ Cardinality(C!Way) = Ways
  <2>1. 1 \in Int /\ Ways \in Int /\ ~ (1 > Ways)
    BY <1>1
  <2>2. IsFiniteSet(1 .. Ways) /\ Cardinality(1 .. Ways) = IF 1 > Ways THEN 0 ELSE Ways - 1 + 1
    BY <2>1, FS_Interval
  <2> QED BY <1>1, <2>1, <2>2
<1>7. Cardinality(1 .. (Ways - 1)) < Cardinality(C!Way)
  BY <1>1, <1>5, <1>6
<1>8. PICK x \in C!Way, y \in C!Way : x # y /\ k[x] = k[y]
  BY <1>3, <1>5, <1>6, <1>7, FS_PigeonHole
<1> QED BY <1>2, <1>8 DEF InOrder

(* The pairs once way was used.                                             *)
Later(older, way) == {p \in older : p[1] # way} \cup {<<w, way>> : w \in C!Way \ {way}}

(* A way that is hit moves to the end of the order.                         *)
LEMMA HitInOrder ==
  ASSUME NEW k \in [C!Way -> 0 .. (Ways - 1)], NEW older, InOrder(k, older),
         older \subseteq C!Way \X C!Way, NEW hit \in C!Way, NEW j,
         j = [w \in C!Way |-> IF w = hit THEN Ways - 1
                              ELSE IF k[w] > k[hit] THEN k[w] - 1 ELSE k[w]]
  PROVE  j \in [C!Way -> 0 .. (Ways - 1)] /\ InOrder(j, Later(older, hit))
<1>1. Ways \in Nat /\ Ways > 0
  BY Sizes
<1>2. \A x \in C!Way : k[x] \in Nat /\ k[x] <= Ways - 1
  BY <1>1
<1>3. /\ j[hit] = Ways - 1
      /\ \A x \in C!Way : x # hit => j[x] = IF k[x] > k[hit] THEN k[x] - 1 ELSE k[x]
  OBVIOUS
<1>4. /\ \A x, y \in C!Way : <<x, y>> \in older => k[x] < k[y]
      /\ \A x, y \in C!Way : k[x] = k[y] /\ k[x] > 0 => x = y
      /\ \A x \in C!Way : k[x] > 0 =>
           \A n \in k[x] .. (Ways - 1) : \E y \in C!Way : k[y] = n
  BY DEF InOrder
<1>5. ASSUME NEW x \in C!Way, x # hit PROVE j[x] \in Nat /\ j[x] < Ways - 1
  <2>1. CASE k[x] > k[hit]
    <3>1. j[x] = k[x] - 1
      BY <1>3, <1>5, <2>1
    <3> QED BY <1>1, <1>2, <2>1, <3>1
  <2>2. CASE ~ (k[x] > k[hit])
    <3>1. j[x] = k[x]
      BY <1>3, <1>5, <2>2
    <3>2. CASE k[x] = Ways - 1
      <4>1. k[hit] = k[x]
        BY <1>1, <1>2, <2>2, <3>2
      <4>2. k[x] = 0
        BY <1>2, <1>4, <1>5, <4>1
      <4>3. Ways = 1
        BY <1>1, <3>2, <4>2
      <4> QED BY <1>5, <4>3 DEF C!Way
    <3> QED BY <1>1, <1>2, <3>1, <3>2
  <2> QED BY <2>1, <2>2
<1>6. j \in [C!Way -> 0 .. (Ways - 1)]
  <2>1. \A x \in C!Way : j[x] \in 0 .. (Ways - 1)
    BY <1>1, <1>3, <1>5
  <2> QED BY <2>1
<1>7. ASSUME NEW x \in C!Way, NEW y \in C!Way, <<x, y>> \in Later(older, hit)
      PROVE  j[x] < j[y]
  <2>1. x # hit /\ (y = hit \/ <<x, y>> \in older)
    BY <1>7 DEF Later
  <2>2. CASE y = hit
    BY <1>3, <1>5, <2>1, <2>2
  <2>3. CASE y # hit
    <3>1. k[x] < k[y]
      BY <1>4, <2>1, <2>3
    <3>2. CASE k[y] > k[hit] /\ ~ (k[x] > k[hit])
      <4>1. j[y] = k[y] - 1 /\ j[x] = k[x]
        BY <1>3, <2>1, <2>3, <3>2
      <4>2. CASE k[x] = k[y] - 1
        <5>1. k[x] = k[hit]
          BY <1>2, <3>2, <4>2
        <5>2. k[x] = 0
          BY <1>2, <1>4, <2>1, <5>1
        <5>3. k[hit] = 0 /\ k[y] = 1
          BY <1>2, <4>2, <5>1, <5>2
        <5> QED BY <2>1, <5>2, <5>3, OneIsZero
      <4> QED BY <1>2, <3>1, <4>1, <4>2
    <3>3. CASE k[y] > k[hit] /\ k[x] > k[hit]
      <4>1. j[y] = k[y] - 1 /\ j[x] = k[x] - 1
        BY <1>3, <2>1, <2>3, <3>3
      <4> QED BY <1>2, <3>1, <4>1
    <3>4. CASE ~ (k[y] > k[hit])
      <4>1. ~ (k[x] > k[hit])
        BY <1>2, <3>1, <3>4
      <4>2. j[y] = k[y] /\ j[x] = k[x]
        BY <1>3, <2>1, <2>3, <3>4, <4>1
      <4> QED BY <3>1, <4>2
    <3> QED BY <3>2, <3>3, <3>4
  <2> QED BY <2>2, <2>3
<1>8. ASSUME NEW x \in C!Way, NEW y \in C!Way, j[x] = j[y], j[x] > 0 PROVE x = y
  <2>1. CASE x = hit \/ y = hit
    BY <1>1, <1>3, <1>5, <1>8, <2>1
  <2>2. CASE x # hit /\ y # hit
    <3>1. CASE k[x] > k[hit] /\ k[y] > k[hit]
      <4>1. j[y] = k[y] - 1 /\ j[x] = k[x] - 1
        BY <1>3, <2>2, <3>1
      <4>2. k[x] = k[y] /\ k[x] > 0
        BY <1>2, <1>8, <4>1
      <4> QED BY <1>4, <4>2
    <3>2. CASE ~ (k[x] > k[hit]) /\ ~ (k[y] > k[hit])
      <4>1. j[y] = k[y] /\ j[x] = k[x]
        BY <1>3, <2>2, <3>2
      <4> QED BY <1>4, <1>8, <4>1
    <3>3. CASE k[x] > k[hit] /\ ~ (k[y] > k[hit])
      <4>1. j[y] = k[y] /\ j[x] = k[x] - 1
        BY <1>3, <2>2, <3>3
      <4>2. k[y] = k[hit] /\ k[y] > 0
        BY <1>2, <1>8, <3>3, <4>1
      <4> QED BY <1>4, <2>2, <4>2
    <3>4. CASE ~ (k[x] > k[hit]) /\ k[y] > k[hit]
      <4>1. j[x] = k[x] /\ j[y] = k[y] - 1
        BY <1>3, <2>2, <3>4
      <4>2. k[x] = k[hit] /\ k[x] > 0
        BY <1>2, <1>8, <3>4, <4>1
      <4> QED BY <1>4, <2>2, <4>2
    <3> QED BY <3>1, <3>2, <3>3, <3>4
  <2> QED BY <2>1, <2>2
<1>9. ASSUME NEW x \in C!Way, j[x] > 0, NEW n \in j[x] .. (Ways - 1)
      PROVE  \E y \in C!Way : j[y] = n
  <2>0. n \in Nat /\ n <= Ways - 1 /\ n >= j[x] /\ j[x] \in Nat
    BY <1>1, <1>6, <1>9
  <2>1. CASE n = Ways - 1
    BY <1>3, <2>1
  <2>2. CASE n # Ways - 1
    <3>1. x # hit
      BY <1>1, <1>3, <2>0, <2>2
    <3>2. CASE n >= k[hit]
      <4>1. k[x] > 0 /\ n + 1 \in k[x] .. (Ways - 1)
        BY <1>1, <1>2, <1>3, <1>9, <2>0, <2>2, <3>1
      <4>2. PICK y \in C!Way : k[y] = n + 1
        BY <1>4, <4>1
      <4>3. k[y] > k[hit] /\ y # hit
        BY <1>2, <2>0, <3>2, <4>2
      <4>4. j[y] = k[y] - 1
        BY <1>3, <4>3
      <4> QED BY <2>0, <4>2, <4>4
    <3>3. CASE n < k[hit]
      <4>1. ~ (k[x] > k[hit])
        <5>1. CASE k[x] > k[hit]
          <6>1. j[x] = k[x] - 1
            BY <1>3, <3>1, <5>1
          <6> QED BY <1>2, <2>0, <3>3, <5>1, <6>1
        <5> QED BY <5>1
      <4>2. k[x] = j[x]
        BY <1>3, <3>1, <4>1
      <4>3. k[x] > 0 /\ n \in k[x] .. (Ways - 1)
        BY <1>9, <4>2
      <4>4. PICK y \in C!Way : k[y] = n
        BY <1>4, <4>3
      <4>5. y # hit /\ ~ (k[y] > k[hit])
        BY <1>2, <2>0, <3>3, <4>4
      <4>6. j[y] = k[y]
        BY <1>3, <4>5
      <4> QED BY <4>4, <4>6
    <3> QED BY <1>2, <2>0, <3>2, <3>3
  <2> QED BY <2>1, <2>2
<1>10. InOrder(j, Later(older, hit))
  BY <1>7, <1>8, <1>9 DEF InOrder
<1> QED BY <1>6, <1>10

(* The way that is replaced moves to the end of the order.                  *)
LEMMA ReplaceInOrder ==
  ASSUME NEW k \in [C!Way -> 0 .. (Ways - 1)], NEW older, InOrder(k, older),
         older \subseteq C!Way \X C!Way, NEW way \in C!Way, \A x \in C!Way : k[x] >= k[way],
         NEW j,
         j = [w \in C!Way |-> IF w = way THEN Ways - 1 ELSE IF k[w] > 0 THEN k[w] - 1 ELSE 0]
  PROVE  /\ j \in [C!Way -> 0 .. (Ways - 1)] /\ InOrder(j, Later(older, way))
         /\ \A x \in C!Way : <<x, way>> \notin older
<1>1. Ways \in Nat /\ Ways > 0
  BY Sizes
<1>2. \A x \in C!Way : k[x] \in Nat /\ k[x] <= Ways - 1
  BY <1>1
<1>3. /\ j[way] = Ways - 1
      /\ \A x \in C!Way : x # way => j[x] = IF k[x] > 0 THEN k[x] - 1 ELSE 0
  OBVIOUS
<1>4. /\ \A x, y \in C!Way : <<x, y>> \in older => k[x] < k[y]
      /\ \A x, y \in C!Way : k[x] = k[y] /\ k[x] > 0 => x = y
      /\ \A x \in C!Way : k[x] > 0 =>
           \A n \in k[x] .. (Ways - 1) : \E y \in C!Way : k[y] = n
  BY DEF InOrder
<1>5. k[way] = 0
  BY LeastIsZero
<1>6. \A x \in C!Way : <<x, way>> \notin older
  BY <1>2, <1>4, <1>5
<1>7. ASSUME NEW x \in C!Way, x # way PROVE j[x] \in Nat /\ j[x] < Ways - 1
  <2>1. Ways > 1
    BY <1>1, <1>7 DEF C!Way
  <2> QED BY <1>1, <1>2, <1>3, <1>7, <2>1
<1>8. j \in [C!Way -> 0 .. (Ways - 1)]
  <2>1. \A x \in C!Way : j[x] \in 0 .. (Ways - 1)
    BY <1>1, <1>3, <1>7
  <2> QED BY <2>1
<1>9. ASSUME NEW x \in C!Way, NEW y \in C!Way, <<x, y>> \in Later(older, way)
      PROVE  j[x] < j[y]
  <2>1. x # way /\ (y = way \/ <<x, y>> \in older)
    BY <1>9 DEF Later
  <2>2. CASE y = way
    BY <1>3, <1>7, <2>1, <2>2
  <2>3. CASE y # way
    <3>1. k[x] < k[y]
      BY <1>4, <2>1, <2>3
    <3>2. k[y] > 0 /\ j[y] = k[y] - 1
      BY <1>2, <1>3, <2>3, <3>1
    <3>3. CASE k[x] > 0
      <4>1. j[x] = k[x] - 1
        BY <1>3, <2>1, <3>3
      <4> QED BY <1>2, <3>1, <3>2, <4>1
    <3>4. CASE k[x] = 0
      <4>1. k[y] # 1
        BY <1>5, <2>1, <3>4, OneIsZero
      <4>2. j[x] = 0
        BY <1>2, <1>3, <2>1, <3>4
      <4> QED BY <1>2, <3>2, <4>1, <4>2
    <3> QED BY <1>2, <3>3, <3>4
  <2> QED BY <2>2, <2>3
<1>10. ASSUME NEW x \in C!Way, NEW y \in C!Way, j[x] = j[y], j[x] > 0 PROVE x = y
  <2>1. CASE x = way \/ y = way
    BY <1>1, <1>3, <1>7, <1>10, <2>1
  <2>2. CASE x # way /\ y # way
    <3>1. k[x] > 0 /\ k[y] > 0
      BY <1>2, <1>3, <1>10, <2>2
    <3>2. j[x] = k[x] - 1 /\ j[y] = k[y] - 1
      BY <1>3, <2>2, <3>1
    <3>3. k[x] = k[y]
      BY <1>2, <1>10, <3>2
    <3> QED BY <1>4, <3>1, <3>3
  <2> QED BY <2>1, <2>2
<1>11. ASSUME NEW x \in C!Way, j[x] > 0, NEW n \in j[x] .. (Ways - 1)
      PROVE  \E y \in C!Way : j[y] = n
  <2>0. n \in Nat /\ n <= Ways - 1 /\ n >= j[x] /\ j[x] \in Nat
    BY <1>1, <1>8, <1>11
  <2>1. CASE n = Ways - 1
    BY <1>3, <2>1
  <2>2. CASE n # Ways - 1
    <3>1. x # way
      BY <1>1, <1>3, <2>0, <2>2
    <3>2. k[x] > 0
      BY <1>2, <1>3, <1>11, <3>1
    <3>3. j[x] = k[x] - 1
      BY <1>3, <3>1, <3>2
    <3>4. n + 1 \in k[x] .. (Ways - 1)
      BY <1>1, <1>2, <2>0, <2>2, <3>3
    <3>5. PICK y \in C!Way : k[y] = n + 1
      BY <1>4, <3>2, <3>4
    <3>6. y # way /\ k[y] > 0
      BY <1>5, <2>0, <3>5
    <3>7. j[y] = k[y] - 1
      BY <1>3, <3>6
    <3> QED BY <2>0, <3>5, <3>7
  <2> QED BY <2>1, <2>2
<1>12. InOrder(j, Later(older, way))
  BY <1>9, <1>10, <1>11 DEF InOrder
<1> QED BY <1>6, <1>8, <1>12

(* A block has a set.                                                       *)
LEMMA SetOfBlock ==
  ASSUME NEW block \in Blocks
  PROVE  C!SetOf(block) \in C!SetId
<1>1. Banks \in Nat /\ Banks > 0 /\ LinesEachWay \in Nat /\ LinesEachWay > 0 /\ block \in Nat
  BY Sizes
<1> DEFINE n == Banks * LinesEachWay
<1>2. n \in Nat /\ n > 0
  <2>1. Banks * LinesEachWay \in Nat
    BY <1>1
  <2>2. Banks * LinesEachWay # 0
    BY <1>1
  <2> QED BY <2>1, <2>2
<1> HIDE DEF n
<1>3. block % n \in 0 .. (n - 1)
  BY <1>1, <1>2
<1> QED BY <1>3 DEF n, C!SetOf, C!SetId

(* The types of the fields of the cache.                                    *)
LEMMA CacheFields ==
  ASSUME NEW c \in C!CacheType, NEW s \in C!SetId
  PROVE  /\ c.block \in [C!SetId -> [C!Way -> Blocks \cup {Empty}]]
         /\ c.dirty \in [C!SetId -> [C!Way -> BOOLEAN]]
         /\ c.counter \in [C!SetId -> [C!Way -> 0 .. (Ways - 1)]]
         /\ c.older \in [C!SetId -> SUBSET (C!Way \X C!Way)]
         /\ c.counter[s] \in [C!Way -> 0 .. (Ways - 1)]
         /\ c.older[s] \subseteq C!Way \X C!Way
         /\ DOMAIN c = {"block", "dirty", "counter", "older"}
  BY DEF C!CacheType

(* older relates ways.                                                      *)
LEMMA LaterType ==
  ASSUME NEW older, older \subseteq C!Way \X C!Way, NEW way \in C!Way
  PROVE  Later(older, way) \subseteq C!Way \X C!Way
  BY DEF Later

(* The way used last has every other way before it in its set.              *)
LEMMA UsedLastIs ==
  ASSUME NEW c \in C!CacheType, NEW s \in C!SetId, NEW way \in C!Way
  PROVE  /\ C!UsedLast(c, s, way) \in [C!SetId -> SUBSET (C!Way \X C!Way)]
         /\ C!UsedLast(c, s, way)[s] = Later(c.older[s], way)
         /\ \A r \in C!SetId : r # s => C!UsedLast(c, s, way)[r] = c.older[r]
<1>1. C!UsedLast(c, s, way) = [c.older EXCEPT ![s] = Later(c.older[s], way)]
  BY DEF C!UsedLast, Later
<1>2. Later(c.older[s], way) \subseteq C!Way \X C!Way
  BY CacheFields, LaterType
<1>3. c.older \in [C!SetId -> SUBSET (C!Way \X C!Way)]
  BY CacheFields
<1> QED BY <1>1, <1>2, <1>3

(* A hit keeps the counters in the order of the uses.                       *)
LEMMA HitOK ==
  ASSUME NEW c \in C!CacheType, CacheOK(c), NEW block \in Blocks, C!HitWays(c, block) # {}
  PROVE  /\ C!Hit(c, block) \in C!CacheType /\ CacheOK(C!Hit(c, block))
         /\ C!Hit(c, block).block = c.block
<1> DEFINE s == C!SetOf(block)
           hit == C!HitWay(c, block)
           k == c.counter[s]
           j == [w \in C!Way |-> IF w = hit THEN Ways - 1 ELSE IF k[w] > k[hit] THEN k[w] - 1 ELSE k[w]]
           d == C!Hit(c, block)
<1>1. s \in C!SetId /\ hit \in C!Way
  BY SetOfBlock, HitWayIs
<1>2. d = [c EXCEPT !.counter = [c.counter EXCEPT ![s] = j], !.older = C!UsedLast(c, s, hit)]
  BY <1>1, CacheFields DEF C!Hit
<1>3. d.counter = [c.counter EXCEPT ![s] = j] /\ d.older = C!UsedLast(c, s, hit)
      /\ d.block = c.block /\ d.dirty = c.dirty
  BY <1>1, <1>2, CacheFields
<1>4. j \in [C!Way -> 0 .. (Ways - 1)] /\ InOrder(j, Later(c.older[s], hit))
  <2>1. k \in [C!Way -> 0 .. (Ways - 1)] /\ InOrder(k, c.older[s]) /\ c.older[s] \subseteq C!Way \X C!Way
    BY <1>1, CacheFields DEF CacheOK
  <2> HIDE DEF k, hit, s
  <2> QED BY <1>1, <2>1, HitInOrder
<1> HIDE DEF s, hit, j
<1>5. d \in C!CacheType
  <2>1. [c.counter EXCEPT ![s] = j] \in [C!SetId -> [C!Way -> 0 .. (Ways - 1)]]
    BY <1>1, <1>4, CacheFields
  <2>2. C!UsedLast(c, s, hit) \in [C!SetId -> SUBSET (C!Way \X C!Way)]
    BY <1>1, UsedLastIs
  <2> QED BY <1>2, <2>1, <2>2 DEF C!CacheType
<1>6. CacheOK(d)
  <2>1. ASSUME NEW r \in C!SetId PROVE InOrder(d.counter[r], d.older[r])
    <3>1. CASE r = s
      <4>1. d.counter[r] = j /\ d.older[r] = Later(c.older[s], hit)
        BY <1>1, <1>3, <3>1, CacheFields, UsedLastIs
      <4> QED BY <1>4, <4>1
    <3>2. CASE r # s
      <4>1. d.counter[r] = c.counter[r] /\ d.older[r] = c.older[r]
        BY <1>1, <1>3, <3>2, CacheFields, UsedLastIs
      <4> QED BY <4>1 DEF CacheOK
    <3> QED BY <3>1, <3>2
  <2> QED BY <1>3, <2>1 DEF CacheOK
<1> HIDE DEF d
<1> QED BY <1>3, <1>5, <1>6 DEF d

(* A write hit only sets a dirty bit, of a way that has a block.            *)
LEMMA WriteHitOK ==
  ASSUME NEW c \in C!CacheType, CacheOK(c), NEW block \in Blocks, C!HitWays(c, block) # {}
  PROVE  /\ C!WriteHit(c, block) \in C!CacheType /\ CacheOK(C!WriteHit(c, block))
         /\ C!WriteHit(c, block).block = c.block
<1> DEFINE s == C!SetOf(block)
           hit == C!HitWay(c, block)
           d == C!WriteHit(c, block)
           dirty == [c.dirty EXCEPT ![s] = [c.dirty[s] EXCEPT ![hit] = TRUE]]
<1>1. s \in C!SetId /\ hit \in C!Way /\ c.block[s][hit] = block
  BY SetOfBlock, HitWayIs
<1>2. d = [c EXCEPT !.dirty = dirty]
  BY DEF C!WriteHit
<1> HIDE DEF s, hit, d
<1>3. c.dirty \in [C!SetId -> [C!Way -> BOOLEAN]]
  BY <1>1, CacheFields
<1>4. /\ dirty \in [C!SetId -> [C!Way -> BOOLEAN]]
      /\ \A r \in C!SetId, w \in C!Way : r # s \/ w # hit => dirty[r][w] = c.dirty[r][w]
  BY <1>1, <1>3
<1> HIDE DEF dirty
<1>5. /\ d \in C!CacheType /\ d.block = c.block /\ d.dirty = dirty
      /\ d.counter = c.counter /\ d.older = c.older
  BY <1>2, <1>4 DEF C!CacheType
<1>6. CacheOK(d)
  <2>1. ASSUME NEW r \in C!SetId, NEW w \in C!Way, d.dirty[r][w] PROVE d.block[r][w] # Empty
    <3>1. CASE r = s /\ w = hit
      BY <1>1, <1>5, <3>1, NoneIs
    <3>2. CASE r # s \/ w # hit
      <4>1. dirty[r][w] = c.dirty[r][w]
        BY <1>4, <3>2
      <4> QED BY <1>5, <2>1, <4>1 DEF CacheOK
    <3> QED BY <3>1, <3>2
  <2> QED BY <1>5, <2>1 DEF CacheOK
<1> QED BY <1>5, <1>6 DEF d

(* Only a way that no other is older than is replaced.                      *)
LEMMA ReplaceOK ==
  ASSUME NEW c \in C!CacheType, CacheOK(c), NEW block \in Blocks
  PROVE  /\ C!Replace(c, block) \in C!CacheType /\ CacheOK(C!Replace(c, block))
         /\ \A r \in C!SetId, w \in C!Way :
              C!Replace(c, block).block[r][w] # c.block[r][w] =>
                \A x \in C!Way : <<x, w>> \notin c.older[r]
         /\ C!WritesBack(c, block) => C!VictimBlock(c, block) \in Blocks
<1> DEFINE s == C!SetOf(block)
           way == C!Victim(c, s)
           k == c.counter[s]
           j == [w \in C!Way |-> IF w = way THEN Ways - 1 ELSE IF k[w] > 0 THEN k[w] - 1 ELSE 0]
           d == C!Replace(c, block)
           held == [c.block EXCEPT ![s] = [c.block[s] EXCEPT ![way] = block]]
           dirty == [c.dirty EXCEPT ![s] = [c.dirty[s] EXCEPT ![way] = FALSE]]
<1>1. s \in C!SetId
  BY SetOfBlock
<1>2. k \in [C!Way -> 0 .. (Ways - 1)] /\ InOrder(k, c.older[s]) /\ c.older[s] \subseteq C!Way \X C!Way
  BY <1>1, CacheFields DEF CacheOK
<1>3. way \in C!Way /\ \A x \in C!Way : k[x] >= k[way]
  <2> HIDE DEF s
  <2> QED BY <1>2, VictimIs
<1>4. d = [block |-> held, dirty |-> dirty, counter |-> [c.counter EXCEPT ![s] = j],
           older |-> C!UsedLast(c, s, way)]
  BY <1>1, CacheFields DEF C!Replace
<1>5. /\ j \in [C!Way -> 0 .. (Ways - 1)] /\ InOrder(j, Later(c.older[s], way))
      /\ \A x \in C!Way : <<x, way>> \notin c.older[s]
  <2> HIDE DEF k, way, s
  <2> QED BY <1>2, <1>3, ReplaceInOrder
<1>6. C!WritesBack(c, block) => C!VictimBlock(c, block) \in Blocks
  <2>1. C!WritesBack(c, block) = c.dirty[s][way] /\ C!VictimBlock(c, block) = c.block[s][way]
    BY DEF C!WritesBack, C!VictimBlock
  <2>2. c.dirty[s][way] => c.block[s][way] # Empty
    BY <1>1, <1>3 DEF CacheOK
  <2>3. c.block[s][way] \in Blocks \cup {Empty}
    BY <1>1, <1>3, CacheFields
  <2> QED BY <2>1, <2>2, <2>3
<1> HIDE DEF s, way, j, d
<1>7. c.dirty \in [C!SetId -> [C!Way -> BOOLEAN]] /\ c.block \in [C!SetId -> [C!Way -> Blocks \cup {Empty}]]
  BY <1>1, CacheFields
<1>8. /\ dirty \in [C!SetId -> [C!Way -> BOOLEAN]] /\ ~dirty[s][way]
      /\ \A r \in C!SetId, w \in C!Way : r # s \/ w # way => dirty[r][w] = c.dirty[r][w]
  BY <1>1, <1>3, <1>7
<1>9. /\ held \in [C!SetId -> [C!Way -> Blocks \cup {Empty}]]
      /\ \A r \in C!SetId, w \in C!Way : r # s \/ w # way => held[r][w] = c.block[r][w]
  BY <1>1, <1>3, <1>7
<1> HIDE DEF dirty, held
<1>10. d \in C!CacheType
  <2>1. [c.counter EXCEPT ![s] = j] \in [C!SetId -> [C!Way -> 0 .. (Ways - 1)]]
    BY <1>1, <1>5, CacheFields
  <2>2. C!UsedLast(c, s, way) \in [C!SetId -> SUBSET (C!Way \X C!Way)]
    BY <1>1, <1>3, UsedLastIs
  <2> QED BY <1>4, <1>8, <1>9, <2>1, <2>2 DEF C!CacheType
<1>11. CacheOK(d)
  <2>1. ASSUME NEW r \in C!SetId PROVE InOrder(d.counter[r], d.older[r])
    <3>1. CASE r = s
      <4>1. d.counter[r] = j /\ d.older[r] = Later(c.older[s], way)
        BY <1>1, <1>3, <1>4, <3>1, CacheFields, UsedLastIs
      <4> QED BY <1>5, <4>1
    <3>2. CASE r # s
      <4>1. d.counter[r] = c.counter[r] /\ d.older[r] = c.older[r]
        BY <1>1, <1>3, <1>4, <3>2, CacheFields, UsedLastIs
      <4> QED BY <4>1 DEF CacheOK
    <3> QED BY <3>1, <3>2
  <2>2. ASSUME NEW r \in C!SetId, NEW w \in C!Way, d.dirty[r][w] PROVE d.block[r][w] # Empty
    <3>1. r # s \/ w # way
      BY <1>4, <1>8, <2>2
    <3>2. dirty[r][w] = c.dirty[r][w] /\ held[r][w] = c.block[r][w]
      BY <1>8, <1>9, <3>1
    <3> QED BY <1>4, <2>2, <3>2 DEF CacheOK
  <2> QED BY <2>1, <2>2 DEF CacheOK
<1>12. ASSUME NEW r \in C!SetId, NEW w \in C!Way, d.block[r][w] # c.block[r][w]
       PROVE  \A x \in C!Way : <<x, w>> \notin c.older[r]
  <2>1. r = s /\ w = way
    BY <1>4, <1>9, <1>12
  <2> QED BY <1>5, <2>1
<1> QED BY <1>6, <1>10, <1>11, <1>12 DEF d
-----------------------------------------------------------------------------
(* Memory and bus.                                                          *)
Fit(v, W) == v \in Unit /\ Sound(v) /\ Split(v, W)

(* A change beside the places.                                              *)
LEMMA FitKept ==
  ASSUME NEW v, NEW w \in Unit, NEW W, Fit(v, W), NEW S, S \subseteq Aside, Keeps(v, w, S),
         BusOK(w), CacheOK(w.cache), "asked" \notin S
  PROVE  Fit(w, W)
<1>1. v \in Unit /\ Sound(v) /\ Split(v, W)
  BY DEF Fit
<1>2. Keeps(v, w, Aside)
  BY DEF Keeps
<1>3. Sound(w)
  <2>1. FifoOK(w) /\ RegOK(w) /\ PendOK(w) /\ TabOK(w)
    BY <1>1, SoundKept DEF Aside
  <2> QED BY <2>1 DEF Sound
<1> QED BY <1>1, <1>2, <1>3, NothingMoved DEF Fit

(* What is fetched, and how many reads are under way.                       *)
SameFetches(v, w) ==
  \A b \in Blocks :
    /\ Fetching(w, b) = Fetching(v, b)
    /\ Cardinality(Reading(w.bus, b)) + Cardinality(Reading(w.mem, b)) =
         Cardinality(Reading(v.bus, b)) + Cardinality(Reading(v.mem, b))

(* Due is the number of transfers that leave the bus.                       *)
LEMMA DueIs ==
  ASSUME NEW bus \in Seq(Transfer)
  PROVE  /\ Due(bus) \in 0 .. Len(bus) /\ \A i \in 1 .. Due(bus) : bus[i].age = BusDelay
         /\ Due(bus) < Len(bus) => bus[Due(bus) + 1].age # BusDelay
<1> DEFINE T == {n \in 0 .. Len(bus) : n < Len(bus) => bus[n + 1].age # BusDelay}
<1>1. Len(bus) \in Nat
  BY LenProperties
<1>2. T \subseteq Nat /\ T # {}
  <2>1. Len(bus) \in T
    BY <1>1
  <2>2. T \subseteq Nat
    BY <1>1
  <2> HIDE DEF T
  <2> QED BY <2>1, <2>2
<1> HIDE DEF T
<1>3. PICK n \in T : \A m \in T : n <= m
  BY <1>2, LeastElement
<1>4. n \in 0 .. Len(bus) /\ (n < Len(bus) => bus[n + 1].age # BusDelay)
  BY <1>3 DEF T
<1>5. ASSUME NEW i \in 1 .. n PROVE bus[i].age = BusDelay
  <2>1. i - 1 \in 0 .. Len(bus) /\ i - 1 < Len(bus) /\ ~ (n <= i - 1) /\ (i - 1) + 1 = i
    BY <1>1, <1>4, <1>5
  <2>2. i - 1 \notin T
    BY <1>3, <2>1
  <2> QED BY <2>1, <2>2 DEF T
<1>6. \E m \in 0 .. Len(bus) : /\ \A i \in 1 .. m : bus[i].age = BusDelay
                               /\ m < Len(bus) => bus[m + 1].age # BusDelay
  BY <1>4, <1>5
<1> QED BY <1>6 DEF Due

(* A cycle of the bus loses no transfer and keeps the oldest in front.      *)
LEMMA BusUpdateOK ==
  ASSUME NEW v, NEW W, Good(v, W)
  PROVE  Good(BusUpdate(v), W) /\ Still(v, BusUpdate(v))
<1> DEFINE bus == v.bus
           n == Due(bus)
           m == Len(bus) - n
           front == SubSeq(bus, 1, n)
           next == [i \in 1 .. m |-> [bus[n + i] EXCEPT !.age = @ + 1]]
           w == BusUpdate(v)
<1>1. v \in Unit /\ Sound(v) /\ Counted(v) /\ Split(v, W)
  BY DEF Good
<1>2. bus \in Seq(Transfer) /\ v.mem \in Seq(Transfer) /\ DOMAIN bus = 1 .. Len(bus) /\ Len(bus) \in Nat
  BY <1>1, UnitFields, LenProperties
<1>3. /\ n \in 0 .. Len(bus)
      /\ n < Len(bus) => bus[n + 1].age # BusDelay
  <2> HIDE DEF bus
  <2> QED BY <1>2, DueIs
<1>4. w = [v EXCEPT !.mem = v.mem \o front, !.bus = next]
  BY DEF BusUpdate
<1> HIDE DEF bus, n, w
<1>5. m \in Nat /\ \A i \in 1 .. Len(bus) : bus[i] \in Transfer
  BY <1>2, <1>3, ElementOfSeq
<1>6. front \in Seq(Transfer) /\ Len(front) = n /\ \A j \in 1 .. n : front[j] = bus[j]
  <2>1. \A j \in 1 .. n : bus[j] \in Transfer
    BY <1>2, <1>3, <1>5
  <2>2. /\ front \in Seq(Transfer) /\ Len(front) = (IF 1 <= n THEN n - 1 + 1 ELSE 0)
        /\ \A j \in 1 .. n - 1 + 1 : front[j] = bus[1 + j - 1]
    BY <1>3, <2>1, SubSeqProperties
  <2> QED BY <1>3, <2>2
<1>7. ASSUME NEW i \in 1 .. m
      PROVE  /\ next[i] \in Transfer /\ Alike(bus[n + i], next[i])
             /\ next[i].age = bus[n + i].age + 1
  <2>1. n + i \in 1 .. Len(bus) /\ n + 1 \in 1 .. Len(bus) /\ n < Len(bus) /\ n + 1 <= n + i
    BY <1>2, <1>3, <1>5
  <2>2. bus[n + i].age <= bus[n + 1].age /\ bus[n + 1].age # BusDelay
    BY <1>1, <1>2, <1>3, <2>1 DEF Sound, BusOK, bus
  <2>3. bus[n + i] \in Transfer /\ bus[n + 1] \in Transfer
    BY <1>5, <2>1
  <2>4. bus[n + i].age \in 0 .. BusDelay /\ bus[n + 1].age \in 0 .. BusDelay
    BY <2>3 DEF Transfer
  <2>5. bus[n + i].age + 1 \in 0 .. BusDelay
    BY <2>2, <2>4, Sizes
  <2>6. next[i] = [bus[n + i] EXCEPT !.age = bus[n + i].age + 1]
    OBVIOUS
  <2> HIDE DEF next
  <2> QED BY <2>3, <2>5, <2>6 DEF Transfer, Alike
<1>8. next \in Seq(Transfer) /\ Len(next) = m /\ DOMAIN next = 1 .. m
  <2>1. next \in [1 .. m -> Transfer]
    <3> DEFINE e(i) == next[i]
    <3> QED BY <1>7
  <2> HIDE DEF next, m
  <2> QED BY <1>5, <2>1
<1>9. /\ v.mem \o front \in Seq(Transfer) /\ Len(v.mem \o front) = Len(v.mem) + Len(front)
      /\ \A i \in 1 .. Len(v.mem) + Len(front) : (v.mem \o front)[i] =
                     IF i <= Len(v.mem) THEN v.mem[i] ELSE front[i - Len(v.mem)]
  BY <1>2, <1>6, ConcatProperties
<1> HIDE DEF front, next, m
<1>10. w \in Unit /\ w.mem = v.mem \o front /\ w.bus = next /\ Keeps(v, w, {"mem", "bus"})
  BY <1>1, <1>4, <1>8, <1>9, UnitFields DEF Unit, Keeps, Fields
<1>11. SameFetches(v, w)
  <2>1. ASSUME NEW b \in Blocks PROVE Fetching(w, b) = Fetching(v, b)
    BY <1>1, <1>10, Kept DEF Fetching
  <2>2. ASSUME NEW b \in Blocks
        PROVE  Cardinality(Reading(w.mem, b)) = Cardinality(Reading(v.mem, b)) + Cardinality(Reading(front, b))
    <3>1. Len(v.mem) \in Nat /\ Len(front) \in Nat
      BY <1>2, <1>6, LenProperties
    <3>2. ASSUME NEW i \in 1 .. Len(v.mem) PROVE Alike((v.mem \o front)[i], v.mem[i])
      BY <1>9, <3>1 DEF Alike
    <3>3. ASSUME NEW i \in 1 .. Len(front) PROVE Alike((v.mem \o front)[Len(v.mem) + i], front[i])
      <4>1. /\ Len(v.mem) + i \in 1 .. Len(v.mem) + Len(front) /\ ~ (Len(v.mem) + i <= Len(v.mem))
            /\ (Len(v.mem) + i) - Len(v.mem) = i
        BY <3>1
      <4> QED BY <1>9, <4>1 DEF Alike
    <3>4. Joined(v.mem \o front, v.mem, front)
      BY <1>2, <1>6, <1>9, <3>2, <3>3 DEF Joined
    <3> QED BY <1>10, <3>4, ReadingJoined
  <2>3. ASSUME NEW b \in Blocks
        PROVE  Cardinality(Reading(v.bus, b)) = Cardinality(Reading(front, b)) + Cardinality(Reading(next, b))
    <3>1. Len(bus) = Len(front) + Len(next)
      BY <1>2, <1>3, <1>6, <1>8 DEF m
    <3>2. ASSUME NEW i \in 1 .. Len(front) PROVE Alike(bus[i], front[i])
      BY <1>6, <3>2 DEF Alike
    <3>3. ASSUME NEW i \in 1 .. Len(next) PROVE Alike(bus[Len(front) + i], next[i])
      BY <1>6, <1>7, <1>8
    <3>4. Joined(bus, front, next)
      BY <1>2, <1>6, <1>8, <3>1, <3>2, <3>3 DEF Joined
    <3> QED BY <3>4, ReadingJoined DEF bus
  <2>4. ASSUME NEW b \in Blocks
        PROVE  /\ Cardinality(Reading(v.mem, b)) \in Nat /\ Cardinality(Reading(front, b)) \in Nat
               /\ Cardinality(Reading(next, b)) \in Nat
    BY <1>2, <1>6, <1>8, ReadingFinite
  <2> QED BY <1>10, <2>1, <2>2, <2>3, <2>4 DEF SameFetches
<1>12. BusOK(w)
  <2>1. ASSUME NEW i \in 1 .. m, NEW j \in 1 .. m, i <= j PROVE next[i].age >= next[j].age
    <3>1. n + i \in 1 .. Len(bus) /\ n + j \in 1 .. Len(bus) /\ n + i <= n + j
      BY <1>2, <1>3, <2>1 DEF m
    <3>2. bus[n + i].age >= bus[n + j].age
      BY <1>1, <1>2, <3>1 DEF Sound, BusOK, bus
    <3>3. bus[n + i] \in Transfer /\ bus[n + j] \in Transfer
      BY <1>5, <3>1
    <3>4. bus[n + i].age \in Int /\ bus[n + j].age \in Int
      BY <3>3 DEF Transfer
    <3> QED BY <1>7, <3>2, <3>4
  <2> QED BY <1>8, <1>10, <2>1 DEF BusOK
<1>13. Fit(w, W)
  <2>1. Fit(v, W) /\ CacheOK(w.cache)
    BY <1>1, <1>10, Kept DEF Fit, Sound
  <2> QED BY <1>10, <1>12, <2>1, FitKept DEF Aside
<1>14. Counted(w)
  BY <1>1, <1>11 DEF Counted, SameFetches
<1>15. Still(v, w)
  BY <1>1, <1>10, StillKept
<1> QED BY <1>13, <1>14, <1>15 DEF Fit, Good, w

(* A set of naturals that is not empty has its least element as Min.        *)
LEMMA MinIs ==
  ASSUME NEW T, T \subseteq Nat, T # {}
  PROVE  Min(T) \in T /\ \A x \in T : Min(T) <= x
<1>1. \E x \in T : \A y \in T : x <= y
  BY LeastElement
<1> QED BY <1>1 DEF Min

(* How many reads of a block are under way.                                 *)
ReadsOf(v, b) == Cardinality(Reading(v.bus, b)) + Cardinality(Reading(v.mem, b))

(* The number of reads of a block.                                          *)
LEMMA ReadsOfType ==
  ASSUME NEW v \in Unit, NEW b
  PROVE  ReadsOf(v, b) \in Nat
<1>1. v.bus \in Seq(Transfer) /\ v.mem \in Seq(Transfer)
  BY UnitFields
<1>2. Cardinality(Reading(v.bus, b)) \in Nat /\ Cardinality(Reading(v.mem, b)) \in Nat
  BY <1>1, ReadingFinite
<1> QED BY <1>2 DEF ReadsOf

(* The lines that wait for a block can be counted.                          *)
LEMMA FetchingFinite ==
  ASSUME NEW v, NEW b
  PROVE  IsFiniteSet(Fetching(v, b)) /\ Cardinality(Fetching(v, b)) \in Nat
<1>1. IsFiniteSet(1 .. TabLines)
  BY Sizes, FS_Interval
<1>2. Fetching(v, b) \in SUBSET (1 .. TabLines)
  BY DEF Fetching
<1>3. IsFiniteSet(Fetching(v, b))
  BY <1>1, <1>2, FS_Subset
<1> QED BY <1>3, FS_CardinalityType

(* A transfer that is sent counts once, on the bus or in the memory.        *)
LEMMA SendIs ==
  ASSUME NEW v \in Unit, BusOK(v), NEW block \in Blocks, NEW wr \in BOOLEAN
  PROVE  /\ Send(v, block, wr) \in Unit /\ Keeps(v, Send(v, block, wr), {"bus", "mem"})
         /\ BusOK(Send(v, block, wr))
         /\ \A b : ReadsOf(Send(v, block, wr), b) =
                     ReadsOf(v, b) + IF ~wr /\ block = b THEN 1 ELSE 0
<1> DEFINE tran == [block |-> block, wr |-> wr, age |-> 0]
           w == Send(v, block, wr)
<1>1. v.bus \in Seq(Transfer) /\ v.mem \in Seq(Transfer)
  BY UnitFields
<1>2. tran \in Transfer /\ tran.block = block /\ tran.wr = wr /\ tran.age = 0
  BY Sizes DEF Transfer
<1>3. w = IF cfg.bus THEN [v EXCEPT !.bus = Append(v.bus, tran)]
          ELSE [v EXCEPT !.mem = Append(v.mem, tran)]
  BY DEF Send
<1> HIDE DEF tran, w
<1>4. Append(v.bus, tran) \in Seq(Transfer) /\ Append(v.mem, tran) \in Seq(Transfer)
  BY <1>1, <1>2, AppendReading
<1>5. \A b : /\ Cardinality(Reading(v.bus, b)) \in Nat /\ Cardinality(Reading(v.mem, b)) \in Nat
             /\ Cardinality(Reading(Append(v.bus, tran), b)) =
                  Cardinality(Reading(v.bus, b)) + IF ~wr /\ block = b THEN 1 ELSE 0
             /\ Cardinality(Reading(Append(v.mem, tran), b)) =
                  Cardinality(Reading(v.mem, b)) + IF ~wr /\ block = b THEN 1 ELSE 0
  BY <1>1, <1>2, ReadingFinite, AppendReading
<1>6. CASE cfg.bus
  <2>1. /\ w \in Unit /\ Keeps(v, w, {"bus"})
        /\ w.bus = Append(v.bus, tran) /\ w.mem = v.mem
    BY <1>3, <1>4, <1>6, UnitFields DEF Unit, Keeps
  <2>2. Keeps(v, w, {"bus", "mem"})
    BY <2>1 DEF Keeps
  <2>3. BusOK(w)
    <3>1. /\ DOMAIN w.bus = 1 .. (Len(v.bus) + 1) /\ Len(v.bus) \in Nat
          /\ DOMAIN v.bus = 1 .. Len(v.bus)
      BY <1>1, <1>2, <1>4, <2>1, AppendProperties, LenProperties
    <3>2. \A i \in 1 .. Len(v.bus) : w.bus[i] = v.bus[i]
      BY <1>1, <1>2, <2>1, AppendProperties
    <3>3. w.bus[Len(v.bus) + 1] = tran
      BY <1>1, <1>2, <2>1, AppendProperties
    <3>4. ASSUME NEW i \in 1 .. Len(v.bus) PROVE w.bus[i].age \in Nat
      <4>1. v.bus[i] \in Transfer
        BY <1>1, ElementOfSeq
      <4> QED BY <3>2, <4>1, Sizes DEF Transfer
    <3>5. ASSUME NEW i \in DOMAIN w.bus, NEW j \in DOMAIN w.bus, i <= j
          PROVE  w.bus[i].age >= w.bus[j].age
      <4>1. CASE j \in 1 .. Len(v.bus)
        <5>1. i \in 1 .. Len(v.bus)
          BY <3>1, <3>5, <4>1
        <5> QED BY <3>1, <3>2, <3>5, <4>1, <5>1 DEF BusOK
      <4>2. CASE j = Len(v.bus) + 1 /\ i \in 1 .. Len(v.bus)
        BY <1>2, <3>3, <3>4, <4>2
      <4>3. CASE j = Len(v.bus) + 1 /\ i = Len(v.bus) + 1
        BY <1>2, <3>3, <4>3
      <4> QED BY <3>1, <3>5, <4>1, <4>2, <4>3
    <3> QED BY <3>5 DEF BusOK
  <2> QED BY <1>5, <2>1, <2>2, <2>3 DEF ReadsOf, w
<1>7. CASE ~cfg.bus
  <2>1. /\ w \in Unit /\ Keeps(v, w, {"mem"})
        /\ w.mem = Append(v.mem, tran) /\ w.bus = v.bus
    BY <1>3, <1>4, <1>7, UnitFields DEF Unit, Keeps
  <2>2. Keeps(v, w, {"bus", "mem"})
    BY <2>1 DEF Keeps
  <2>3. BusOK(w)
    BY <2>1 DEF BusOK
  <2> QED BY <1>5, <2>1, <2>2, <2>3 DEF ReadsOf, w
<1> QED BY <1>6, <1>7

(* addpoped_addr touches nothing else.                                      *)
LEMMA AddPopedIs ==
  ASSUME NEW v \in Unit, NEW block \in Blocks, NEW bypass \in BOOLEAN
  PROVE  AddPoped(v, block, bypass) \in Unit /\ Keeps(v, AddPoped(v, block, bypass), {"poped"})
<1> DEFINE p == [v.poped EXCEPT ![block] = IF bypass THEN IF v.poped[block] = "cached" THEN "both" ELSE "nocache"
                                           ELSE IF v.poped[block] = "nocache" THEN "both" ELSE "cached"]
           w == AddPoped(v, block, bypass)
<1>1. p \in [Blocks -> {"none", "cached", "nocache", "both"}]
  BY UnitFields
<1>2. w = [v EXCEPT !.poped = p]
  BY UnitFields DEF AddPoped, Fields
<1> HIDE DEF p, w
<1>3. w \in Unit /\ Keeps(v, w, {"poped"})
  BY <1>1, <1>2 DEF Unit, Keeps
<1> QED BY <1>3 DEF w

(* Release only forgets that a block is fetched.                            *)
LEMMA ReleaseIs ==
  ASSUME NEW v \in Unit, NEW block \in Blocks
  PROVE  Release(v, block) \in Unit /\ Keeps(v, Release(v, block), {"poped"})
<1> DEFINE p == [v.poped EXCEPT ![block] = "none"]
           w == Release(v, block)
<1>1. p \in [Blocks -> {"none", "cached", "nocache", "both"}]
  BY UnitFields
<1>2. w = [v EXCEPT !.poped = p]
  BY DEF Release
<1> HIDE DEF p, w
<1>3. w \in Unit /\ Keeps(v, w, {"poped"})
  BY <1>1, <1>2 DEF Unit, Keeps
<1> QED BY <1>3 DEF w

(* A block is replaced only in a way that no other is older than.           *)
ReplacesOldest(v, w) ==
  \A r \in C!SetId, x \in C!Way :
    w.cache.block[r][x] # v.cache.block[r][x] => \A y \in C!Way : <<y, x>> \notin v.cache.older[r]

(* A refill moves no request, keeps the reads under way and replaces the    *)
(* oldest way.                                                              *)
LEMMA RefillOK ==
  ASSUME NEW v, NEW W, Fit(v, W), NEW block \in Blocks
  PROVE  /\ Fit(Refill(v, block), W) /\ Keeps(v, Refill(v, block), {"cache", "wb", "bus", "mem"})
         /\ \A b : ReadsOf(Refill(v, block), b) = ReadsOf(v, b)
         /\ ReplacesOldest(v, Refill(v, block))
<1> DEFINE old == C!VictimBlock(v.cache, block)
           kept == [v EXCEPT !.cache = C!Replace(v.cache, block)]
           sent == Send(kept, old, TRUE)
           w == Refill(v, block)
<1>1. v \in Unit /\ Sound(v) /\ v.cache \in C!CacheType /\ CacheOK(v.cache) /\ BusOK(v)
  BY UnitFields DEF Fit, Sound
<1>2. C!Replace(v.cache, block) \in C!CacheType /\ CacheOK(C!Replace(v.cache, block))
  BY <1>1, ReplaceOK
<1>3. kept \in Unit /\ Keeps(v, kept, {"cache"}) /\ kept.cache = C!Replace(v.cache, block)
  BY <1>1, <1>2, UnitFields DEF Unit, Keeps, Fields
<1>4. w = IF C!WritesBack(v.cache, block) THEN [sent EXCEPT !.wb = Append(sent.wb, old)] ELSE kept
  BY DEF Refill
<1>5. ReplacesOldest(v, kept)
  BY <1>1, <1>3, ReplaceOK DEF ReplacesOldest
<1>6. C!WritesBack(v.cache, block) => old \in Blocks
  BY <1>1, ReplaceOK
<1> HIDE DEF old, kept, w
<1>7. kept.bus = v.bus /\ kept.mem = v.mem /\ BusOK(kept)
  BY <1>1, <1>3, Kept DEF BusOK
<1>8. CASE ~C!WritesBack(v.cache, block)
  <2>1. w = kept
    BY <1>4, <1>8
  <2>2. Fit(w, W)
    BY <1>2, <1>3, <1>7, <2>1, FitKept DEF Aside
  <2>3. Keeps(v, w, {"cache", "wb", "bus", "mem"})
    BY <1>3, <2>1 DEF Keeps
  <2> QED BY <1>5, <1>7, <2>1, <2>2, <2>3 DEF ReadsOf, w
<1>9. CASE C!WritesBack(v.cache, block)
  <2>1. /\ sent \in Unit /\ Keeps(kept, sent, {"bus", "mem"}) /\ BusOK(sent)
        /\ \A b : ReadsOf(sent, b) = ReadsOf(kept, b) + 0
    <3>1. old \in Blocks /\ TRUE \in BOOLEAN
      BY <1>6, <1>9
    <3>2. /\ sent \in Unit /\ Keeps(kept, sent, {"bus", "mem"}) /\ BusOK(sent)
          /\ \A b : ReadsOf(sent, b) = ReadsOf(kept, b) + IF ~TRUE /\ old = b THEN 1 ELSE 0
      BY <1>3, <1>7, <3>1, SendIs
    <3> HIDE DEF sent
    <3> QED BY <3>2
  <2>2. w = [sent EXCEPT !.wb = Append(sent.wb, old)]
    BY <1>4, <1>9
  <2> HIDE DEF sent
  <2>3. sent.wb \in Seq(Blocks) /\ Append(sent.wb, old) \in Seq(Blocks)
    BY <1>6, <1>9, <2>1, UnitFields, AppendProperties
  <2>4. w \in Unit /\ Keeps(sent, w, {"wb"})
    BY <2>1, <2>2, <2>3, UnitFields DEF Unit, Keeps
  <2>5. Keeps(v, w, {"cache", "wb", "bus", "mem"})
    BY <1>3, <2>1, <2>4 DEF Keeps
  <2>6. w.bus = sent.bus /\ w.mem = sent.mem /\ w.cache = kept.cache
    BY <1>3, <2>1, <2>4, Kept
  <2>7. BusOK(w) /\ CacheOK(w.cache)
    BY <1>2, <1>3, <2>1, <2>6 DEF BusOK
  <2>8. Fit(w, W)
    BY <2>4, <2>5, <2>7, FitKept DEF Aside
  <2>9. \A b : ReadsOf(w, b) = ReadsOf(v, b)
    <3>1. \A b : ReadsOf(w, b) = ReadsOf(sent, b) /\ ReadsOf(kept, b) = ReadsOf(v, b)
      BY <1>7, <2>6 DEF ReadsOf
    <3>2. \A b : ReadsOf(v, b) \in Nat
      BY <1>1, ReadsOfType
    <3> QED BY <2>1, <3>1, <3>2
  <2>10. ReplacesOldest(v, w)
    BY <1>5, <2>6 DEF ReplacesOldest
  <2> QED BY <2>5, <2>8, <2>9, <2>10 DEF w
<1> QED BY <1>8, <1>9

(* A line that is completed is fetched no more.                             *)
Completed(v, i) == [v EXCEPT !.tab[i].complete = TRUE, !.mshr = 1]

(* A line that is complete waits no longer.                                 *)
LEMMA CompletedIs ==
  ASSUME NEW v, NEW W, Fit(v, W), NEW block \in Blocks, NEW i \in Fetching(v, block),
         NEW w, w = Completed(v, i)
  PROVE  /\ Fit(w, W) /\ Keeps(v, w, {"tab", "mshr"})
         /\ Fetching(w, block) = Fetching(v, block) \ {i}
         /\ \A b \in Blocks : b # block => Fetching(w, b) = Fetching(v, b)
<1> DEFINE t == [v.tab EXCEPT ![i] = [v.tab[i] EXCEPT !.complete = TRUE]]
<1>1. v \in Unit /\ Sound(v) /\ Split(v, W)
  BY DEF Fit
<1>2. i \in 1 .. TabLines /\ v.tab[i] # Empty /\ v.tab[i].valid /\ ~v.tab[i].complete /\ v.tab[i].block = block
  BY DEF Fetching
<1>3. v.tab \in [1 .. TabLines -> Entry \cup {Empty}] /\ v.tab[i] \in Entry
  <2>1. v.tab \in [1 .. TabLines -> Entry \cup {Empty}]
    BY <1>1, UnitFields
  <2> QED BY <1>2, <2>1
<1>4. t \in [1 .. TabLines -> Entry \cup {Empty}]
  <2>1. [v.tab[i] EXCEPT !.complete = TRUE] \in Entry
    BY <1>3 DEF Entry
  <2> QED BY <1>3, <2>1
<1>5. /\ t[i] \in Entry /\ t[i].complete /\ t[i].valid /\ t[i].block = block /\ t[i].off = v.tab[i].off
      /\ \A j \in 1 .. TabLines : j # i => t[j] = v.tab[j]
  <2>1. t[i] = [v.tab[i] EXCEPT !.complete = TRUE]
    BY <1>2, <1>3
  <2>2. \A j \in 1 .. TabLines : j # i => t[j] = v.tab[j]
    BY <1>3
  <2> HIDE DEF t
  <2> QED BY <1>2, <1>3, <2>1, <2>2 DEF Entry
<1>6. w = [v EXCEPT !.tab = t, !.mshr = 1]
  BY DEF Completed
<1> HIDE DEF t
<1>7. w \in Unit /\ w.tab = t /\ Keeps(v, w, {"tab", "mshr"})
  <2>1. w \in Unit
    <3>1. 1 \in 0 .. 1
      OBVIOUS
    <3>2. v \in Unit
      BY <1>1
    <3> QED BY <1>4, <1>6, <3>1, <3>2 DEF Unit
  <2>2. w.tab = t
    BY <1>1, <1>6, UnitFields DEF Fields
  <2>3. Keeps(v, w, {"tab", "mshr"})
    BY <1>6 DEF Keeps
  <2> QED BY <2>1, <2>2, <2>3
<1>8. t[i] # Empty
  BY <1>5, NoneIs
<1>9. Split(w, W)
  <2>1. Keeps(v, w, Aside \cup {"tab"})
    BY <1>7 DEF Keeps, Aside
  <2>2. /\ OneChanged(v, w, <<"tab", i, 0>>)
        /\ Box(v, <<"tab", i, 0>>) = TabItems(v, i)
        /\ Box(w, <<"tab", i, 0>>) = TabItems(w, i)
    BY <1>1, <1>2, <1>5, <1>7, <1>8, <2>1, TabChanged
  <2>3. TabItems(w, i) = TabItems(v, i)
    BY <1>2, <1>5, <1>7, <1>8 DEF TabItems
  <2>4. Box(w, <<"tab", i, 0>>) = Box(v, <<"tab", i, 0>>) \cup {} /\ {} \cap W = {}
    BY <2>2, <2>3
  <2>5. Split(w, W \cup {})
    BY <1>1, <2>2, <2>4, Put
  <2> QED BY <2>5
<1>10. Sound(w)
  <2>1. FifoOK(w) /\ RegOK(w) /\ PendOK(w) /\ BusOK(w) /\ CacheOK(w.cache)
    BY <1>1, <1>7, SoundKept
  <2>2. w.post = v.post
    BY <1>1, <1>7, Kept
  <2>3. TabOK(w)
    BY <1>1, <1>5, <1>7, <1>8, <2>2 DEF Sound, TabOK
  <2> QED BY <2>1, <2>3 DEF Sound
<1>11. Fetching(w, block) = Fetching(v, block) \ {i}
  BY <1>5, <1>7 DEF Fetching
<1>12. \A b \in Blocks : b # block => Fetching(w, b) = Fetching(v, b)
  BY <1>2, <1>5, <1>7 DEF Fetching
<1> QED BY <1>7, <1>9, <1>10, <1>11, <1>12 DEF Fit

(* One read of the block has just left the memory.                          *)
Answering(v, block) ==
  \A b \in Blocks : Cardinality(Fetching(v, b)) = ReadsOf(v, b) + IF b = block THEN 1 ELSE 0

(* The read that comes back finds a line that waits for it.                 *)
LEMMA ReadMissCompleteOK ==
  ASSUME NEW v, NEW W, Fit(v, W), NEW block \in Blocks, Answering(v, block)
  PROVE  /\ Good(ReadMissComplete(v, block), W)
         /\ Keeps(v, ReadMissComplete(v, block), {"tab", "mshr"})
<1> DEFINE i == Min(Fetching(v, block))
           w == Completed(v, i)
<1>1. v \in Unit
  BY DEF Fit
<1>2. Fetching(v, block) # {}
  <2>1. Cardinality(Fetching(v, block)) = ReadsOf(v, block) + 1
    BY DEF Answering
  <2>2. Cardinality(Fetching(v, block)) # 0
    BY <1>1, <2>1, ReadsOfType
  <2> QED BY <2>2, FS_EmptySet
<1>3. i \in Fetching(v, block)
  <2>1. Fetching(v, block) \subseteq Nat
    BY DEF Fetching
  <2> QED BY <1>2, <2>1, MinIs
<1>4. ReadMissComplete(v, block) = w
  BY <1>2 DEF ReadMissComplete, Completed
<1> HIDE DEF i
<1>5. /\ Fit(w, W) /\ Keeps(v, w, {"tab", "mshr"})
      /\ Fetching(w, block) = Fetching(v, block) \ {i}
      /\ \A b \in Blocks : b # block => Fetching(w, b) = Fetching(v, b)
  BY <1>3, CompletedIs
<1> HIDE DEF w
<1>6. Counted(w)
  <2>1. \A b \in Blocks : ReadsOf(w, b) = ReadsOf(v, b) /\ ReadsOf(v, b) \in Nat
    BY <1>1, <1>5, Kept, ReadsOfType DEF ReadsOf
  <2>2. Cardinality(Fetching(w, block)) = Cardinality(Fetching(v, block)) - 1
    BY <1>3, <1>5, FetchingFinite, FS_RemoveElement
  <2>3. ASSUME NEW b \in Blocks PROVE Cardinality(Fetching(w, b)) = ReadsOf(w, b)
    <3>1. CASE b = block
      <4>1. Cardinality(Fetching(v, block)) = ReadsOf(v, block) + 1
        BY DEF Answering
      <4> QED BY <2>1, <2>2, <3>1, <4>1
    <3>2. CASE b # block
      <4>1. Cardinality(Fetching(v, b)) = ReadsOf(v, b) + 0
        BY <3>2 DEF Answering
      <4> QED BY <1>5, <2>1, <3>2, <4>1
    <3> QED BY <3>1, <3>2
  <2> QED BY <2>3 DEF Counted, ReadsOf
<1> QED BY <1>4, <1>5, <1>6 DEF Fit, Good

(* mem_read_complete.                                                       *)
LEMMA MemReadCompleteOK ==
  ASSUME NEW v, NEW W, Fit(v, W), NEW block \in Blocks, Answering(v, block)
  PROVE  /\ Good(MemReadComplete(v, block), W) /\ MemReadComplete(v, block).arb = v.arb
         /\ MemReadComplete(v, block).out = v.out
         /\ ReplacesOldest(v, MemReadComplete(v, block))
<1> DEFINE x == IF v.poped[block] \in {"cached", "both"} THEN Refill(v, block) ELSE v
           w == ReadMissComplete(x, block)
<1>1. v \in Unit
  BY DEF Fit
<1>2. MemReadComplete(v, block) = w
  BY DEF MemReadComplete
<1>3. /\ Fit(x, W) /\ Keeps(v, x, {"cache", "wb", "bus", "mem"})
      /\ \A b : ReadsOf(x, b) = ReadsOf(v, b)
      /\ ReplacesOldest(v, x)
  <2>1. CASE x = v
    BY <2>1 DEF Keeps, ReplacesOldest
  <2>2. CASE x = Refill(v, block)
    BY <2>2, RefillOK
  <2> QED BY <2>1, <2>2
<1> HIDE DEF x
<1>4. x \in Unit /\ x.arb = v.arb /\ x.out = v.out /\ x.tab = v.tab
  BY <1>1, <1>3, Kept DEF Fit
<1>5. Answering(x, block)
  BY <1>3, <1>4 DEF Answering, Fetching
<1>6. Good(w, W) /\ Keeps(x, w, {"tab", "mshr"})
  BY <1>3, <1>5, ReadMissCompleteOK
<1>7. w.arb = x.arb /\ w.out = x.out /\ w.cache = x.cache
  BY <1>4, <1>6, Kept
<1> QED BY <1>2, <1>3, <1>4, <1>6, <1>7 DEF ReplacesOldest

(* mem_write_complete.                                                      *)
LEMMA MemWriteCompleteOK ==
  ASSUME NEW v, NEW W, Good(v, W), NEW block \in Blocks
  PROVE  /\ Good(MemWriteComplete(v, block), W) /\ MemWriteComplete(v, block).arb = v.arb
         /\ MemWriteComplete(v, block).out = v.out
         /\ ReplacesOldest(v, MemWriteComplete(v, block))
<1> DEFINE w == MemWriteComplete(v, block)
<1>1. v \in Unit /\ Fit(v, W) /\ Counted(v)
  BY DEF Good, Fit
<1>2. CASE Contains(v.wb, block)
  <2>1. w = [v EXCEPT !.wb = RemoveFirst(v.wb, block)]
    BY <1>2 DEF MemWriteComplete
  <2>2. RemoveFirst(v.wb, block) \in Seq(Blocks)
    <3> DEFINE I == {i \in 1 .. Len(v.wb) : v.wb[i] = block}
    <3>1. I # {} /\ I \subseteq Nat
      BY <1>2 DEF Contains
    <3>2. Min(I) \in 1 .. Len(v.wb)
      <4>1. Min(I) \in I
        <5> HIDE DEF I
        <5> QED BY <3>1, MinIs
      <4> QED BY <4>1
    <3>3. SelectInSeq(v.wb, LAMBDA x : x = block) = Min(I)
      BY <3>1 DEF SelectInSeq
    <3>4. RemoveFirst(v.wb, block) = RemoveAt(v.wb, Min(I))
      <4>1. \E i \in 1 .. Len(v.wb) : v.wb[i] = block
        BY <1>2 DEF Contains
      <4> HIDE DEF I
      <4> QED BY <3>3, <4>1 DEF RemoveFirst
    <3> HIDE DEF I
    <3>5. v.wb \in Seq(Blocks)
      BY <1>1, UnitFields
    <3> QED BY <3>2, <3>4, <3>5, RemoveAtIs
  <2> HIDE DEF w
  <2>3. w \in Unit /\ Keeps(v, w, {"wb"})
    BY <1>1, <2>1, <2>2, UnitFields DEF Unit, Keeps
  <2>4. BusOK(w) /\ w.cache = v.cache /\ CacheOK(w.cache) /\ w.arb = v.arb /\ w.out = v.out
    BY <1>1, <2>3, Kept, SoundKept DEF Fit
  <2>5. Fit(w, W)
    BY <1>1, <2>3, <2>4, FitKept DEF Aside
  <2>6. Counted(w)
    BY <1>1, <2>3, CountedKept
  <2> QED BY <2>4, <2>5, <2>6 DEF Good, Fit, ReplacesOldest, w
<1>3. CASE ~Contains(v.wb, block)
  <2>1. w = Refill(v, block)
    BY <1>3 DEF MemWriteComplete
  <2> HIDE DEF w
  <2>2. /\ Fit(w, W) /\ Keeps(v, w, {"cache", "wb", "bus", "mem"})
        /\ \A b : ReadsOf(w, b) = ReadsOf(v, b)
        /\ ReplacesOldest(v, w)
    BY <1>1, <2>1, RefillOK
  <2>3. w.arb = v.arb /\ w.out = v.out /\ w.tab = v.tab
    BY <1>1, <2>2, Kept
  <2>4. Counted(w)
    BY <1>1, <2>2, <2>3 DEF Counted, ReadsOf, Fetching
  <2> QED BY <2>2, <2>3, <2>4 DEF Good, Fit, w
<1> QED BY <1>2, <1>3
-----------------------------------------------------------------------------
(* Requests from one place to another: taken out of the first, they are in  *)
(* no place until they are put into the second.                             *)
LEMMA Handed ==
  ASSUME NEW v, NEW W, Fit(v, W), NEW M, M \cap W = {}, NEW w \in Unit, Keeps(v, w, {"out"}),
         w.out = v.out \cup M
  PROVE  Fit(w, W \cup M)
<1>1. v \in Unit /\ Split(v, W) /\ Sound(v)
  BY DEF Fit
<1>2. Keeps(v, w, Aside \cup {"out"})
  BY DEF Keeps
<1>3. /\ OneChanged(v, w, <<"out", 0, 0>>)
      /\ Box(v, <<"out", 0, 0>>) = v.out /\ Box(w, <<"out", 0, 0>>) = w.out
  BY <1>1, <1>2, OutChanged
<1>4. Split(w, W \cup M)
  BY <1>1, <1>3, Put
<1>5. Sound(w)
  BY <1>1, SoundKept DEF Sound
<1> QED BY <1>4, <1>5 DEF Fit

WithReg(v, b, x) == [v EXCEPT !.reg[b] = x]

(* Only the register of b changes.                                          *)
LEMMA WithRegIs ==
  ASSUME NEW v \in Unit, NEW b \in Bank, NEW x \in Line \cup {Empty}
  PROVE  /\ WithReg(v, b, x) \in Unit /\ Keeps(v, WithReg(v, b, x), {"reg"})
         /\ WithReg(v, b, x).reg[b] = x
         /\ \A k \in Bank : k # b => WithReg(v, b, x).reg[k] = v.reg[k]
<1> DEFINE w == WithReg(v, b, x)
           r == [v.reg EXCEPT ![b] = x]
<1>1. v.reg \in [Bank -> Line \cup {Empty}]
  BY UnitFields
<1>2. /\ r \in [Bank -> Line \cup {Empty}] /\ r[b] = x
      /\ \A k \in Bank : k # b => r[k] = v.reg[k]
  BY <1>1
<1>3. w = [v EXCEPT !.reg = r]
  BY DEF WithReg
<1> HIDE DEF w, r
<1>4. w \in Unit
  BY <1>2, <1>3 DEF Unit
<1>5. w.reg = r /\ Keeps(v, w, {"reg"})
  BY <1>3, UnitFields DEF Keeps, Fields
<1> QED BY <1>2, <1>4, <1>5 DEF w

(* What a register may hold.                                                *)
RegLine(asked, x) ==
  /\ x # Empty => (x.complete => ~x.wr) /\ OneTag(x)
  /\ asked => x # Empty /\ ~x.complete

(* A register line as the cache expects it.                                 *)
LEMMA WithRegOK ==
  ASSUME NEW v, NEW W, Fit(v, W), NEW b \in Bank, NEW x \in Line \cup {Empty},
         RegLine(v.asked[b], x)
  PROVE  /\ Sound(WithReg(v, b, x))
         /\ OneChanged(v, WithReg(v, b, x), <<"reg", b, 0>>)
         /\ Box(v, <<"reg", b, 0>>) = LineItems(v.reg[b])
         /\ Box(WithReg(v, b, x), <<"reg", b, 0>>) = LineItems(x)
<1> DEFINE w == WithReg(v, b, x)
<1>1. v \in Unit /\ Split(v, W) /\ Sound(v)
  BY DEF Fit
<1>2. /\ w \in Unit /\ Keeps(v, w, {"reg"}) /\ w.reg[b] = x
      /\ \A k \in Bank : k # b => w.reg[k] = v.reg[k]
  BY <1>1, WithRegIs
<1> HIDE DEF w
<1>3. Keeps(v, w, Aside \cup {"reg"})
  BY <1>2 DEF Keeps
<1>4. /\ OneChanged(v, w, <<"reg", b, 0>>)
      /\ Box(v, <<"reg", b, 0>>) = LineItems(v.reg[b])
      /\ Box(w, <<"reg", b, 0>>) = LineItems(w.reg[b])
  BY <1>1, <1>2, <1>3, RegChanged
<1>5. Sound(w)
  <2>1. FifoOK(w) /\ PendOK(w) /\ TabOK(w) /\ BusOK(w) /\ CacheOK(w.cache)
    BY <1>1, <1>2, SoundKept
  <2>2. w.asked = v.asked
    BY <1>1, <1>2, Kept
  <2>3. RegOK(w)
    <3>1. ASSUME NEW k \in Bank PROVE RegLine(w.asked[k], w.reg[k])
      <4>1. CASE k = b
        BY <1>2, <2>2, <4>1
      <4>2. CASE k # b
        BY <1>1, <1>2, <2>2, <4>2 DEF Sound, RegOK, RegLine
      <4> QED BY <4>1, <4>2
    <3> QED BY <3>1 DEF RegOK, RegLine
  <2> QED BY <2>1, <2>3 DEF Sound
<1> QED BY <1>2, <1>4, <1>5 DEF w

(* A register gives up requests.                                            *)
LEMMA RegTaken ==
  ASSUME NEW v, NEW W, Fit(v, W), NEW b \in Bank, NEW x \in Line \cup {Empty},
         RegLine(v.asked[b], x), NEW M, M \subseteq LineItems(v.reg[b]),
         LineItems(x) = LineItems(v.reg[b]) \ M
  PROVE  Fit(WithReg(v, b, x), W \ M)
<1> DEFINE w == WithReg(v, b, x)
<1>1. /\ Sound(w) /\ OneChanged(v, w, <<"reg", b, 0>>)
      /\ Box(v, <<"reg", b, 0>>) = LineItems(v.reg[b])
      /\ Box(w, <<"reg", b, 0>>) = LineItems(x)
  BY WithRegOK
<1>2. v \in Unit /\ Split(v, W)
  BY DEF Fit
<1>3. w \in Unit
  BY <1>2, WithRegIs
<1> HIDE DEF w
<1>4. Split(w, W \ M)
  BY <1>1, <1>2, Taken
<1> QED BY <1>1, <1>3, <1>4 DEF Fit, w

(* An empty register takes a line.                                          *)
LEMMA RegPut ==
  ASSUME NEW v, NEW W, Fit(v, W), NEW b \in Bank, NEW x \in Line,
         RegLine(v.asked[b], x), v.reg[b] = Empty, LineItems(x) \cap W = {}
  PROVE  Fit(WithReg(v, b, x), W \cup LineItems(x))
<1> DEFINE w == WithReg(v, b, x)
<1>1. /\ Sound(w) /\ OneChanged(v, w, <<"reg", b, 0>>)
      /\ Box(v, <<"reg", b, 0>>) = LineItems(v.reg[b])
      /\ Box(w, <<"reg", b, 0>>) = LineItems(x)
  BY WithRegOK
<1>2. v \in Unit /\ Split(v, W)
  BY DEF Fit
<1>3. w \in Unit
  BY <1>2, WithRegIs
<1> HIDE DEF w
<1>4. LineItems(v.reg[b]) = {}
  BY DEF LineItems
<1>5. Box(w, <<"reg", b, 0>>) = Box(v, <<"reg", b, 0>>) \cup LineItems(x)
  BY <1>1, <1>4
<1>6. Split(w, W \cup LineItems(x))
  BY <1>1, <1>2, <1>5, Put
<1> QED BY <1>1, <1>3, <1>6 DEF Fit, w

AddPend(v, line) == [v EXCEPT !.pend = Append(@, line)]

(* A line of requests that were nowhere becomes pending.                    *)
LEMMA PendPut ==
  ASSUME NEW v, NEW W, Fit(v, W), NEW line \in Line, ~line.wr, LineItems(line) \cap W = {}
  PROVE  /\ Fit(AddPend(v, line), W \cup LineItems(line))
         /\ Keeps(v, AddPend(v, line), {"pend"})
<1> DEFINE w == AddPend(v, line)
           p == Append(v.pend, line)
<1>1. v \in Unit /\ Split(v, W) /\ Sound(v)
  BY DEF Fit
<1>2. v.pend \in Seq(Line) /\ p \in Seq(Line)
  BY <1>1, UnitFields, AppendItems
<1>3. w = [v EXCEPT !.pend = p]
  BY DEF AddPend
<1>4. /\ DOMAIN p = 1 .. (Len(v.pend) + 1) /\ DOMAIN v.pend = 1 .. Len(v.pend) /\ Len(v.pend) \in Nat
      /\ p[Len(v.pend) + 1] = line /\ \A i \in 1 .. Len(v.pend) : p[i] = v.pend[i]
  BY <1>2, AppendProperties, LenProperties
<1>5. SeqItems(v.pend) \subseteq W /\ Apart(v.pend)
  <2>1. <<"pend", 0, 0>> \in Place /\ Box(v, <<"pend", 0, 0>>) = SeqItems(v.pend)
    BY DEF Place, Box
  <2> QED BY <1>1, <2>1 DEF Split
<1>6. SeqItems(p) = SeqItems(v.pend) \cup LineItems(line) /\ Apart(p)
  <2>1. LineItems(line) \cap SeqItems(v.pend) = {}
    BY <1>5
  <2> QED BY <1>2, <1>5, <2>1, AppendItems
<1> HIDE DEF w, p
<1>7. w \in Unit
  BY <1>1, <1>2, <1>3 DEF Unit
<1>8. w.pend = p /\ Keeps(v, w, {"pend"})
  BY <1>1, <1>3, UnitFields DEF Keeps, Fields
<1>9. Split(w, W \cup LineItems(line))
  <2>1. Keeps(v, w, Aside \cup {"pend"})
    BY <1>8 DEF Keeps
  <2>2. /\ OneChanged(v, w, <<"pend", 0, 0>>)
        /\ Box(v, <<"pend", 0, 0>>) = SeqItems(v.pend)
        /\ Box(w, <<"pend", 0, 0>>) = SeqItems(w.pend)
    BY <1>1, <1>6, <1>8, <2>1, PendChanged
  <2> QED BY <1>1, <1>6, <1>8, <2>2, Put
<1>10. PendOK(w)
  <2>1. \A i \in 1 .. Len(v.pend) : ~v.pend[i].wr
    BY <1>1, <1>4 DEF Sound, PendOK
  <2>2. \A i \in 1 .. (Len(v.pend) + 1) : i \in 1 .. Len(v.pend) \/ i = Len(v.pend) + 1
    BY <1>4
  <2> QED BY <1>4, <1>8, <2>1, <2>2 DEF PendOK
<1>11. Sound(w)
  BY <1>1, <1>8, <1>10, SoundKept DEF Sound
<1> QED BY <1>7, <1>8, <1>9, <1>11 DEF Fit, w

WithFifo(v, b, s) == [v EXCEPT !.fifo[b] = s]

(* Only the FIFO of b changes.                                              *)
LEMMA WithFifoIs ==
  ASSUME NEW v \in Unit, NEW b \in Bank, NEW s \in Seq(Line)
  PROVE  /\ WithFifo(v, b, s) \in Unit /\ Keeps(v, WithFifo(v, b, s), {"fifo"})
         /\ WithFifo(v, b, s).fifo[b] = s
         /\ \A k \in Bank : k # b => WithFifo(v, b, s).fifo[k] = v.fifo[k]
<1> DEFINE w == WithFifo(v, b, s)
           r == [v.fifo EXCEPT ![b] = s]
<1>1. v.fifo \in [Bank -> Seq(Line)]
  BY UnitFields
<1>2. r \in [Bank -> Seq(Line)] /\ r[b] = s /\ \A k \in Bank : k # b => r[k] = v.fifo[k]
  BY <1>1
<1>3. w = [v EXCEPT !.fifo = r]
  BY DEF WithFifo
<1> HIDE DEF w, r
<1>4. w \in Unit
  BY <1>2, <1>3 DEF Unit
<1>5. w.fifo = r /\ Keeps(v, w, {"fifo"})
  BY <1>3, UnitFields DEF Keeps, Fields
<1> QED BY <1>2, <1>4, <1>5 DEF w

(* Lines as a FIFO holds them.                                              *)
LEMMA WithFifoOK ==
  ASSUME NEW v, NEW W, Fit(v, W), NEW b \in Bank, NEW s \in Seq(Line), Apart(s),
         \A i \in DOMAIN s : ~s[i].complete /\ OneTag(s[i])
  PROVE  /\ Sound(WithFifo(v, b, s)) /\ OneChanged(v, WithFifo(v, b, s), <<"fifo", b, 0>>)
         /\ Box(v, <<"fifo", b, 0>>) = SeqItems(v.fifo[b])
         /\ Box(WithFifo(v, b, s), <<"fifo", b, 0>>) = SeqItems(s)
<1> DEFINE w == WithFifo(v, b, s)
<1>1. v \in Unit /\ Split(v, W) /\ Sound(v)
  BY DEF Fit
<1>2. /\ w \in Unit /\ Keeps(v, w, {"fifo"}) /\ w.fifo[b] = s
      /\ \A k \in Bank : k # b => w.fifo[k] = v.fifo[k]
  BY <1>1, WithFifoIs
<1> HIDE DEF w
<1>3. Keeps(v, w, Aside \cup {"fifo"})
  BY <1>2 DEF Keeps
<1>4. /\ OneChanged(v, w, <<"fifo", b, 0>>)
      /\ Box(v, <<"fifo", b, 0>>) = SeqItems(v.fifo[b])
      /\ Box(w, <<"fifo", b, 0>>) = SeqItems(w.fifo[b])
  BY <1>1, <1>2, <1>3, FifoChanged
<1>5. FifoOK(w)
  <2>1. ASSUME NEW k \in Bank, NEW i \in DOMAIN w.fifo[k]
        PROVE  ~w.fifo[k][i].complete /\ OneTag(w.fifo[k][i])
    <3>1. CASE k = b
      BY <1>2, <2>1, <3>1
    <3>2. CASE k # b
      BY <1>1, <1>2, <2>1, <3>2 DEF Sound, FifoOK
    <3> QED BY <3>1, <3>2
  <2> QED BY <2>1 DEF FifoOK
<1>6. Sound(w)
  BY <1>1, <1>2, <1>5, SoundKept DEF Sound
<1> QED BY <1>2, <1>4, <1>6 DEF w

(* The FIFO of a bank.                                                      *)
LEMMA FifoOf ==
  ASSUME NEW v, NEW W, Fit(v, W), NEW b \in Bank
  PROVE  /\ v.fifo[b] \in Seq(Line) /\ Apart(v.fifo[b]) /\ SeqItems(v.fifo[b]) \subseteq W
         /\ \A i \in DOMAIN v.fifo[b] : ~v.fifo[b][i].complete /\ OneTag(v.fifo[b][i])
<1>1. v \in Unit /\ Split(v, W) /\ Sound(v)
  BY DEF Fit
<1>2. v.fifo[b] \in Seq(Line)
  BY <1>1, UnitFields
<1>3. <<"fifo", b, 0>> \in Place /\ Box(v, <<"fifo", b, 0>>) = SeqItems(v.fifo[b])
  BY DEF Place, Box
<1> QED BY <1>1, <1>2, <1>3 DEF Split, Sound, FifoOK

(* A FIFO takes a line.                                                     *)
LEMMA FifoPut ==
  ASSUME NEW v, NEW W, Fit(v, W), NEW b \in Bank, NEW line \in Line, ~line.complete, OneTag(line),
         LineItems(line) \cap W = {}
  PROVE  /\ Fit(WithFifo(v, b, Append(v.fifo[b], line)), W \cup LineItems(line))
         /\ Keeps(v, WithFifo(v, b, Append(v.fifo[b], line)), {"fifo"})
<1> DEFINE s == v.fifo[b]
           p == Append(s, line)
           w == WithFifo(v, b, p)
<1>1. v \in Unit /\ Split(v, W)
  BY DEF Fit
<1>2. /\ s \in Seq(Line) /\ Apart(s) /\ SeqItems(s) \subseteq W
      /\ \A i \in DOMAIN s : ~s[i].complete /\ OneTag(s[i])
  BY FifoOf
<1> HIDE DEF s
<1>3. /\ p \in Seq(Line) /\ SeqItems(p) = SeqItems(s) \cup LineItems(line) /\ Apart(p)
  <2>1. LineItems(line) \cap SeqItems(s) = {}
    BY <1>2
  <2> QED BY <1>2, <2>1, AppendItems
<1>4. /\ DOMAIN p = 1 .. (Len(s) + 1) /\ DOMAIN s = 1 .. Len(s) /\ Len(s) \in Nat
      /\ p[Len(s) + 1] = line /\ \A i \in 1 .. Len(s) : p[i] = s[i]
  BY <1>2, <1>3, AppendProperties, LenProperties
<1> HIDE DEF p
<1>5. \A i \in DOMAIN p : ~p[i].complete /\ OneTag(p[i])
  <2>1. \A i \in DOMAIN p : i \in DOMAIN s \/ i = Len(s) + 1
    BY <1>4
  <2> QED BY <1>2, <1>4, <2>1
<1>6. /\ Sound(w) /\ OneChanged(v, w, <<"fifo", b, 0>>)
      /\ Box(v, <<"fifo", b, 0>>) = SeqItems(v.fifo[b])
      /\ Box(w, <<"fifo", b, 0>>) = SeqItems(p)
  BY <1>3, <1>5, WithFifoOK
<1>7. w \in Unit /\ Keeps(v, w, {"fifo"})
  BY <1>1, <1>3, WithFifoIs
<1> HIDE DEF w
<1>8. Box(w, <<"fifo", b, 0>>) = Box(v, <<"fifo", b, 0>>) \cup LineItems(line)
  BY <1>3, <1>6 DEF s
<1>9. Split(w, W \cup LineItems(line))
  BY <1>1, <1>6, <1>8, Put
<1> QED BY <1>6, <1>7, <1>9 DEF Fit, w, p, s

(* A FIFO gives up the line at its front.                                   *)
LEMMA FifoTaken ==
  ASSUME NEW v, NEW W, Fit(v, W), NEW b \in Bank, v.fifo[b] # <<>>
  PROVE  /\ Fit(Pop(v, b), W \ LineItems(Head(v.fifo[b]))) /\ Keeps(v, Pop(v, b), {"fifo"})
         /\ Pop(v, b).fifo[b] = Tail(v.fifo[b])
         /\ \A k \in Bank : k # b => Pop(v, b).fifo[k] = v.fifo[k]
         /\ Head(v.fifo[b]) \in Line /\ ~Head(v.fifo[b]).complete /\ OneTag(Head(v.fifo[b]))
         /\ LineItems(Head(v.fifo[b])) \subseteq W
<1> DEFINE s == v.fifo[b]
           t == Tail(s)
           w == WithFifo(v, b, t)
<1>1. v \in Unit /\ Split(v, W)
  BY DEF Fit
<1>2. /\ s \in Seq(Line) /\ Apart(s) /\ SeqItems(s) \subseteq W /\ s # <<>>
      /\ \A i \in DOMAIN s : ~s[i].complete /\ OneTag(s[i])
  BY FifoOf
<1>3. Pop(v, b) = w
  BY <1>1, UnitFields DEF Pop, WithFifo, Fields
<1> HIDE DEF s
<1>4. /\ Head(s) \in Line /\ t \in Seq(Line) /\ 1 \in DOMAIN s /\ Head(s) = s[1]
      /\ \A i \in DOMAIN t : i + 1 \in DOMAIN s /\ t[i] = s[i + 1]
      /\ SeqItems(s) = LineItems(Head(s)) \cup SeqItems(t)
      /\ Apart(t) /\ LineItems(Head(s)) \cap SeqItems(t) = {}
  BY <1>2, TailItems
<1> HIDE DEF t
<1>5. \A i \in DOMAIN t : ~t[i].complete /\ OneTag(t[i])
  BY <1>2, <1>4
<1>6. /\ Sound(w) /\ OneChanged(v, w, <<"fifo", b, 0>>)
      /\ Box(v, <<"fifo", b, 0>>) = SeqItems(v.fifo[b])
      /\ Box(w, <<"fifo", b, 0>>) = SeqItems(t)
  BY <1>4, <1>5, WithFifoOK
<1>7. /\ w \in Unit /\ Keeps(v, w, {"fifo"}) /\ w.fifo[b] = t
      /\ \A k \in Bank : k # b => w.fifo[k] = v.fifo[k]
  BY <1>1, <1>4, WithFifoIs
<1> HIDE DEF w
<1>8. Box(w, <<"fifo", b, 0>>) = Box(v, <<"fifo", b, 0>>) \ LineItems(Head(s))
      /\ LineItems(Head(s)) \subseteq Box(v, <<"fifo", b, 0>>)
  BY <1>4, <1>6 DEF s
<1>9. Split(w, W \ LineItems(Head(s)))
  BY <1>1, <1>6, <1>8, Taken
<1>10. LineItems(Head(s)) \subseteq W /\ ~Head(s).complete /\ OneTag(Head(s))
  BY <1>2, <1>4
<1> QED BY <1>3, <1>4, <1>6, <1>7, <1>9, <1>10 DEF Fit, s, t

AnsweredReg(v, b, block, off, x) == [Answer(v, block, off) EXCEPT !.reg[b] = x]

(* A register answers what it can and keeps x.                              *)
LEMMA RegAnswered ==
  ASSUME NEW v, NEW W, Fit(v, W), NEW b \in Bank, v.reg[b] # Empty, ~v.reg[b].wr,
         NEW x \in Line \cup {Empty}, RegLine(v.asked[b], x), NEW N,
         Given(v, v.reg[b].block, v.reg[b].off) \subseteq N, N \subseteq LineItems(v.reg[b]),
         LineItems(x) = LineItems(v.reg[b]) \ N
  PROVE  /\ Fit(AnsweredReg(v, b, v.reg[b].block, v.reg[b].off, x),
                (W \ N) \cup Given(v, v.reg[b].block, v.reg[b].off))
         /\ Keeps(v, AnsweredReg(v, b, v.reg[b].block, v.reg[b].off, x), {"out", "reg"})
<1> DEFINE line == v.reg[b]
           a == Answer(v, line.block, line.off)
           given == Given(v, line.block, line.off)
           y == WithReg(v, b, x)
           w == AnsweredReg(v, b, line.block, line.off, x)
<1>1. v \in Unit
  BY DEF Fit
<1>2. line \in Line /\ line.block \in Blocks /\ line.off \in Offsets
  <2>1. line \in Line
    BY <1>1, UnitFields
  <2> QED BY <2>1 DEF Line
<1>3. a \in Unit /\ Keeps(v, a, {"out"}) /\ a.out = v.out \cup given
  BY <1>1, <1>2, AnswerIs
<1>4. Fit(y, W \ N)
  BY RegTaken
<1>5. /\ y \in Unit /\ Keeps(v, y, {"reg"}) /\ y.reg[b] = x
      /\ \A k \in Bank : k # b => y.reg[k] = v.reg[k]
  BY <1>1, WithRegIs
<1>6. w = WithReg(a, b, x)
  BY DEF AnsweredReg, WithReg
<1> HIDE DEF line, a, given, y, w
<1>7. /\ w \in Unit /\ Keeps(a, w, {"reg"}) /\ w.reg[b] = x
      /\ \A k \in Bank : k # b => w.reg[k] = a.reg[k]
  BY <1>3, <1>6, WithRegIs
<1>8. w.reg = y.reg
  <2>1. a.reg = v.reg
    BY <1>1, <1>3, Kept
  <2>2. w.reg \in [Bank -> Line \cup {Empty}] /\ y.reg \in [Bank -> Line \cup {Empty}]
    BY <1>5, <1>7, UnitFields
  <2>3. \A k \in Bank : w.reg[k] = y.reg[k]
    BY <1>5, <1>7, <2>1
  <2> QED BY <2>2, <2>3
<1>9. Keeps(v, w, {"out", "reg"})
  BY <1>3, <1>7 DEF Keeps
<1>10. Keeps(y, w, {"out"})
  <2>1. DOMAIN v = Fields /\ DOMAIN y = Fields /\ DOMAIN w = Fields
    BY <1>1, <1>5, <1>7, UnitFields
  <2>2. ASSUME NEW f \in Fields, f # "out", f # "reg" PROVE w[f] = y[f]
    <3>1. w[f] = v[f] /\ y[f] = v[f]
      BY <1>5, <1>9, <2>1, <2>2 DEF Keeps
    <3> QED BY <3>1
  <2>3. w["reg"] = y["reg"]
    BY <1>8
  <2> QED BY <2>1, <2>2, <2>3 DEF Keeps
<1>11. w.out = y.out \cup given
  <2>1. y.out = v.out
    BY <1>1, <1>5, Kept
  <2>2. w.out = a.out
    BY <1>3, <1>7, Kept
  <2> QED BY <1>3, <2>1, <2>2
<1>12. Fit(w, (W \ N) \cup given)
  <2>1. given \cap (W \ N) = {}
    BY DEF given, line
  <2> QED BY <1>4, <1>7, <1>10, <1>11, <2>1, Handed
<1> QED BY <1>9, <1>12 DEF w, line, given

(* Fit and counted.                                                         *)
LEMMA GoodIs ==
  ASSUME NEW v, NEW W, Fit(v, W), Counted(v)
  PROVE  Good(v, W)
  BY DEF Fit, Good

(* What is left of a line.                                                  *)
LEMMA LeftOf ==
  ASSUME NEW v, NEW line \in Line, ~line.wr
  PROVE  /\ line.block \in Blocks /\ line.off \in Offsets /\ Rest(v, line.off) \in Offsets
         /\ Given(v, line.block, line.off) \subseteq LineItems(line)
         /\ Rest(v, line.off) = NoOffsets => LineItems(line) = Given(v, line.block, line.off)
         /\ \A x \in Line : x.block = line.block /\ ~x.wr /\ x.off = Rest(v, line.off) =>
              /\ LineItems(x) = LineItems(line) \ Given(v, line.block, line.off)
              /\ x.tag = line.tag /\ OneTag(line) => OneTag(x)
<1>1. line.block \in Blocks /\ line.off \in Offsets /\ line # Empty
  BY NoneIs DEF Line
<1>2. LineItems(line) = Items(line.block, line.off)
  BY <1>1 DEF LineItems
<1> DEFINE left == Rest(v, line.off)
           given == Given(v, line.block, line.off)
<1>3. /\ left \in Offsets /\ given \subseteq LineItems(line)
      /\ Items(line.block, left) = LineItems(line) \ given
  <2>1. /\ left \in Offsets /\ given \subseteq Items(line.block, line.off)
        /\ Items(line.block, left) = Items(line.block, line.off) \ given
    BY <1>1, RestOf
  <2> QED BY <1>2, <2>1
<1>4. \A w \in Word : left[w] # Empty => left[w] = line.off[w]
  BY DEF Rest
<1> HIDE DEF left, given
<1>5. ASSUME left = NoOffsets PROVE LineItems(line) = given
  BY <1>3, <1>5, NothingLeft
<1>6. ASSUME NEW x \in Line, x.block = line.block, ~x.wr, x.off = left
      PROVE  LineItems(x) = LineItems(line) \ given
  <2>1. x # Empty
    BY NoneIs
  <2> QED BY <1>3, <1>6, <2>1 DEF LineItems
<1>7. ASSUME NEW x \in Line, x.off = left, x.tag = line.tag, OneTag(line) PROVE OneTag(x)
  BY <1>4, <1>7 DEF OneTag
<1> QED BY <1>1, <1>3, <1>5, <1>6, <1>7 DEF left, given

(* read_hit_complete: what is not answered stays in the register or becomes *)
(* pending.                                                                 *)
LEMMA ReadHitOK ==
  ASSUME NEW v, NEW W, Good(v, W), NEW b \in Bank, v.reg[b] # Empty, ~v.reg[b].wr, ~v.asked[b]
  PROVE  Good(ReadHit(v, b), W) /\ Keeps(v, ReadHit(v, b), {"out", "reg", "pend"})
<1> DEFINE line == v.reg[b]
           left == Rest(v, line.off)
           given == Given(v, line.block, line.off)
           more == [line EXCEPT !.off = left, !.complete = TRUE]
           w == ReadHit(v, b)
           done(x) == AnsweredReg(v, b, line.block, line.off, x)
<1>1. v \in Unit /\ Fit(v, W) /\ Counted(v) /\ Sound(v)
  BY DEF Good, Fit
<1>2. line \in Line /\ line # Empty /\ OneTag(line) /\ ~line.wr
  <2>1. line \in Line
    BY <1>1, UnitFields
  <2> QED BY <1>1, <2>1 DEF Sound, RegOK
<1>3. /\ line.block \in Blocks /\ left \in Offsets /\ given \subseteq LineItems(line)
      /\ left = NoOffsets => LineItems(line) = given
  BY <1>2, LeftOf
<1>4. more \in Line /\ more.block = line.block /\ ~more.wr /\ more.off = left /\ more.complete
      /\ more.tag = line.tag
  BY <1>2, <1>3 DEF Line
<1>5. LineItems(more) = LineItems(line) \ given /\ OneTag(more) /\ more # Empty
  <2> HIDE DEF more
  <2> QED BY <1>2, <1>4, LeftOf, NoneIs
<1>6. AnswerTagged(v, line.block, line.off, line.tag) = Answer(v, line.block, line.off)
  BY <1>2, AnswerTaggedIs
<1>7. w = IF left = NoOffsets THEN done(Empty)
          ELSE IF cfg.stalls THEN done(more)
          ELSE AddPend(done(Empty), more)
  BY <1>6 DEF ReadHit, AnsweredReg, AddPend
<1>8. Given(v, v.reg[b].block, v.reg[b].off) \subseteq LineItems(v.reg[b])
  BY <1>3
<1>9. LineItems(line) \subseteq W
  <2>1. <<"reg", b, 0>> \in Place /\ Box(v, <<"reg", b, 0>>) = LineItems(line)
    BY DEF Place, Box
  <2> QED BY <1>1, <2>1 DEF Fit, Split
<1>10. RegLine(v.asked[b], Empty) /\ RegLine(v.asked[b], more) /\ LineItems(Empty) = {}
  BY <1>4, <1>5 DEF RegLine, LineItems
<1>11. /\ Fit(done(Empty), (W \ LineItems(line)) \cup given)
       /\ Keeps(v, done(Empty), {"out", "reg"})
  BY <1>1, <1>2, <1>3, <1>10, RegAnswered
<1>12. /\ Fit(done(more), (W \ given) \cup given)
       /\ Keeps(v, done(more), {"out", "reg"})
  BY <1>1, <1>2, <1>3, <1>4, <1>5, <1>10, RegAnswered
<1> HIDE DEF line, left, given, more, w, done
<1>13. CASE left = NoOffsets
  <2>1. w = done(Empty) /\ (W \ LineItems(line)) \cup given = W
    BY <1>3, <1>7, <1>9, <1>13
  <2>2. Keeps(v, w, {"out", "reg", "pend"})
    BY <1>11, <2>1 DEF Keeps
  <2> QED BY <1>1, <1>11, <2>1, <2>2, CountedKept, GoodIs DEF w
<1>14. CASE left # NoOffsets /\ cfg.stalls
  <2>1. w = done(more) /\ (W \ given) \cup given = W
    BY <1>3, <1>7, <1>9, <1>14
  <2>2. Keeps(v, w, {"out", "reg", "pend"})
    BY <1>12, <2>1 DEF Keeps
  <2> QED BY <1>1, <1>12, <2>1, <2>2, CountedKept, GoodIs DEF w
<1>15. CASE left # NoOffsets /\ ~cfg.stalls
  <2>1. w = AddPend(done(Empty), more)
    BY <1>7, <1>15
  <2>2. LineItems(more) \cap ((W \ LineItems(line)) \cup given) = {}
    BY <1>5
  <2>3. /\ Fit(w, ((W \ LineItems(line)) \cup given) \cup LineItems(more))
        /\ Keeps(done(Empty), w, {"pend"})
    BY <1>4, <1>11, <2>1, <2>2, PendPut
  <2>4. ((W \ LineItems(line)) \cup given) \cup LineItems(more) = W
    BY <1>3, <1>5, <1>9
  <2>5. Keeps(v, w, {"out", "reg", "pend"})
    BY <1>11, <2>3 DEF Keeps
  <2> QED BY <1>1, <2>3, <2>4, <2>5, CountedKept, GoodIs DEF w
<1> QED BY <1>13, <1>14, <1>15

(* A line of the table that holds nothing takes a line.                     *)
TakenLine(v, i, line) == [v EXCEPT !.tab[i] = NewEntry(line)]

MayTake(v, W, i, line) ==
  /\ v.post[i] = NoPosts /\ (v.tab[i] = Empty \/ ~v.tab[i].valid)
  /\ ~line.wr /\ ~line.complete /\ LineItems(line) \cap W = {}

(* A free line takes requests that were nowhere.                            *)
LEMMA LineTaken ==
  ASSUME NEW v, NEW W, Fit(v, W), NEW i \in 1 .. TabLines, NEW line \in Line,
         MayTake(v, W, i, line)
  PROVE  /\ Fit(TakenLine(v, i, line), W \cup LineItems(line))
         /\ Keeps(v, TakenLine(v, i, line), {"tab"})
         /\ \A b \in Blocks : i \notin Fetching(v, b)
         /\ Fetching(TakenLine(v, i, line), line.block) = Fetching(v, line.block) \cup {i}
         /\ \A b \in Blocks : b # line.block => Fetching(TakenLine(v, i, line), b) = Fetching(v, b)
<1> DEFINE e == NewEntry(line)
           t == [v.tab EXCEPT ![i] = e]
           w == TakenLine(v, i, line)
<1>1. /\ v \in Unit /\ Sound(v) /\ Split(v, W) /\ v.post[i] = NoPosts
      /\ v.tab[i] = Empty \/ ~v.tab[i].valid
      /\ ~line.wr /\ ~line.complete /\ LineItems(line) \cap W = {}
  BY DEF Fit, MayTake
<1>2. v.tab \in [1 .. TabLines -> Entry \cup {Empty}]
  BY <1>1, UnitFields
<1>3. /\ e \in Entry /\ e.block = line.block /\ e.off = line.off /\ e.valid /\ ~e.complete
  BY <1>1 DEF NewEntry, Entry, Line
<1>4. e # Empty /\ line # Empty
  BY <1>3, NoneIs
<1> HIDE DEF e
<1>5. /\ t \in [1 .. TabLines -> Entry \cup {Empty}] /\ t[i] = e
      /\ \A j \in 1 .. TabLines : j # i => t[j] = v.tab[j]
  BY <1>2, <1>3
<1>6. w = [v EXCEPT !.tab = t]
  BY DEF TakenLine, e
<1> HIDE DEF t, w
<1>7. w \in Unit
  BY <1>1, <1>5, <1>6 DEF Unit
<1>8. w.tab = t /\ Keeps(v, w, {"tab"})
  BY <1>1, <1>6, UnitFields DEF Keeps, Fields
<1>9. TabItems(v, i) = {}
  <2>1. v.tab[i] # Empty => v.tab[i].off = NoOffsets
    BY <1>1 DEF Sound, TabOK
  <2> QED BY <2>1, NothingLeft DEF TabItems
<1>10. TabItems(w, i) = LineItems(line)
  BY <1>1, <1>3, <1>4, <1>5, <1>8 DEF TabItems, LineItems
<1>11. Split(w, W \cup LineItems(line))
  <2>1. Keeps(v, w, Aside \cup {"tab"})
    BY <1>8 DEF Keeps
  <2>2. /\ OneChanged(v, w, <<"tab", i, 0>>)
        /\ Box(v, <<"tab", i, 0>>) = TabItems(v, i)
        /\ Box(w, <<"tab", i, 0>>) = TabItems(w, i)
    BY <1>1, <1>5, <1>8, <2>1, TabChanged
  <2>3. Box(w, <<"tab", i, 0>>) = Box(v, <<"tab", i, 0>>) \cup LineItems(line)
    BY <1>9, <1>10, <2>2
  <2> QED BY <1>1, <2>2, <2>3, Put
<1>12. Sound(w)
  <2>1. FifoOK(w) /\ RegOK(w) /\ PendOK(w) /\ BusOK(w) /\ CacheOK(w.cache)
    BY <1>1, <1>8, SoundKept
  <2>2. w.post = v.post
    BY <1>1, <1>8, Kept
  <2>3. TabOK(w)
    BY <1>1, <1>3, <1>4, <1>5, <1>8, <2>2 DEF Sound, TabOK
  <2> QED BY <2>1, <2>3 DEF Sound
<1>13. \A b \in Blocks : i \notin Fetching(v, b)
  BY <1>1 DEF Fetching
<1>14. Fetching(w, line.block) = Fetching(v, line.block) \cup {i}
  BY <1>3, <1>4, <1>5, <1>8 DEF Fetching
<1>15. \A b \in Blocks : b # line.block => Fetching(w, b) = Fetching(v, b)
  BY <1>3, <1>5, <1>8, <1>13 DEF Fetching
<1> QED BY <1>7, <1>8, <1>11, <1>12, <1>13, <1>14, <1>15 DEF Fit, w

(* The block of the line is fetched for it.                                 *)
Fetched(v, i, line, bypass) ==
  AddPoped(Send(TakenLine(v, i, line), line.block, FALSE), line.block, bypass)

(* A line that is taken and its fetch come together.                        *)
LEMMA FetchLine ==
  ASSUME NEW v, NEW W, Good(v, W), NEW i \in 1 .. TabLines, NEW line \in Line,
         MayTake(v, W, i, line), NEW bypass \in BOOLEAN
  PROVE  /\ Good(Fetched(v, i, line, bypass), W \cup LineItems(line))
         /\ Keeps(v, Fetched(v, i, line, bypass), {"tab", "bus", "mem", "poped"})
<1> DEFINE x == TakenLine(v, i, line)
           y == Send(x, line.block, FALSE)
           w == Fetched(v, i, line, bypass)
<1>1. v \in Unit /\ Fit(v, W) /\ Counted(v) /\ line.block \in Blocks
  BY DEF Good, Fit, Line
<1>2. /\ Fit(x, W \cup LineItems(line)) /\ Keeps(v, x, {"tab"})
      /\ \A b \in Blocks : i \notin Fetching(v, b)
      /\ Fetching(x, line.block) = Fetching(v, line.block) \cup {i}
      /\ \A b \in Blocks : b # line.block => Fetching(x, b) = Fetching(v, b)
  <2>1. Fit(v, W)
    BY <1>1
  <2> HIDE DEF w, y
  <2> QED BY <2>1, LineTaken
<1> HIDE DEF x, w
<1>3. x \in Unit /\ BusOK(x) /\ CacheOK(x.cache)
  BY <1>2 DEF Fit, Sound
<1>4. /\ y \in Unit /\ Keeps(x, y, {"bus", "mem"}) /\ BusOK(y)
      /\ \A b : ReadsOf(y, b) = ReadsOf(x, b) + IF line.block = b THEN 1 ELSE 0
  <2>1. FALSE \in BOOLEAN
    OBVIOUS
  <2>2. /\ y \in Unit /\ Keeps(x, y, {"bus", "mem"}) /\ BusOK(y)
        /\ \A b : ReadsOf(y, b) = ReadsOf(x, b) + IF ~FALSE /\ line.block = b THEN 1 ELSE 0
    BY <1>1, <1>3, <2>1, SendIs
  <2> HIDE DEF y
  <2> QED BY <2>2
<1> HIDE DEF y
<1>5. w \in Unit /\ Keeps(y, w, {"poped"})
  <2>1. w = AddPoped(y, line.block, bypass)
    BY DEF w, Fetched, x, y
  <2> QED BY <1>1, <1>4, <2>1, AddPopedIs
<1>6. Keeps(x, w, {"bus", "mem", "poped"}) /\ Keeps(v, w, {"tab", "bus", "mem", "poped"})
  BY <1>2, <1>4, <1>5 DEF Keeps
<1>7. w.bus = y.bus /\ w.mem = y.mem /\ w.cache = x.cache /\ w.tab = x.tab
      /\ x.bus = v.bus /\ x.mem = v.mem
  <2>1. w.bus = y.bus /\ w.mem = y.mem
    BY <1>4, <1>5, Kept
  <2>2. w.cache = x.cache /\ w.tab = x.tab
    BY <1>3, <1>6, Kept
  <2>3. x.bus = v.bus /\ x.mem = v.mem
    BY <1>1, <1>2, Kept
  <2> QED BY <2>1, <2>2, <2>3
<1>8. Fit(w, W \cup LineItems(line))
  <2>1. BusOK(w) /\ CacheOK(w.cache)
    BY <1>3, <1>4, <1>7 DEF BusOK
  <2> QED BY <1>2, <1>5, <1>6, <2>1, FitKept DEF Aside
<1>9. Counted(w)
  <2>1. ASSUME NEW b \in Blocks PROVE Cardinality(Fetching(w, b)) = ReadsOf(w, b)
    <3>1. ReadsOf(w, b) = ReadsOf(v, b) + IF line.block = b THEN 1 ELSE 0
      BY <1>4, <1>7 DEF ReadsOf
    <3>2. Cardinality(Fetching(v, b)) = ReadsOf(v, b) /\ ReadsOf(v, b) \in Nat
      BY <1>1, ReadsOfType DEF Counted, ReadsOf
    <3>3. Fetching(w, b) = Fetching(x, b)
      BY <1>7 DEF Fetching
    <3>4. CASE b = line.block
      <4>1. Cardinality(Fetching(v, b) \cup {i}) = Cardinality(Fetching(v, b)) + 1
        BY <1>2, FetchingFinite, FS_AddElement
      <4> QED BY <1>2, <3>1, <3>2, <3>3, <3>4, <4>1
    <3>5. CASE b # line.block
      <4>1. Fetching(w, b) = Fetching(v, b)
        BY <1>2, <3>3, <3>5
      <4>2. ReadsOf(w, b) = ReadsOf(v, b) + 0
        BY <3>1, <3>5
      <4> QED BY <3>2, <4>1, <4>2
    <3> QED BY <3>4, <3>5
  <2> QED BY <2>1 DEF Counted, ReadsOf
<1> QED BY <1>6, <1>8, <1>9, GoodIs DEF w

(* A read that misses takes a line or goes back to its FIFO.                *)
LEMMA ReadMissOK ==
  ASSUME NEW v, NEW W, Good(v, W), NEW b \in Bank, NEW line \in Line, ~line.wr, ~line.complete,
         OneTag(line), LineItems(line) \cap W = {}
  PROVE  /\ Good(ReadMiss(v, b, line), W \cup LineItems(line))
         /\ Keeps(v, ReadMiss(v, b, line), {"fifo", "tab", "bus", "mem", "poped"})
<1> DEFINE w == ReadMiss(v, b, line)
           i == Min(FreeLines(v))
<1>1. v \in Unit /\ Fit(v, W) /\ Counted(v)
  BY DEF Good, Fit
<1>2. CASE FreeLines(v) = {}
  <2>1. w = WithFifo(v, b, Append(v.fifo[b], line))
    BY <1>1, <1>2, UnitFields DEF ReadMiss, WithFifo, Fields
  <2>2. Fit(w, W \cup LineItems(line)) /\ Keeps(v, w, {"fifo"})
    BY <1>1, <2>1, FifoPut
  <2> HIDE DEF w
  <2>3. Counted(w) /\ Keeps(v, w, {"fifo", "tab", "bus", "mem", "poped"})
    <3>1. Counted(w)
      BY <1>1, <2>2, CountedKept
    <3>2. Keeps(v, w, {"fifo", "tab", "bus", "mem", "poped"})
      BY <2>2 DEF Keeps
    <3> QED BY <3>1, <3>2
  <2> QED BY <2>2, <2>3, GoodIs DEF w
<1>3. CASE FreeLines(v) # {}
  <2>1. i \in FreeLines(v)
    <3>1. FreeLines(v) \subseteq Nat
      BY DEF FreeLines
    <3> QED BY <1>3, <3>1, MinIs
  <2> HIDE DEF i
  <2>2. i \in 1 .. TabLines /\ v.tab[i] = Empty /\ v.post[i] = NoPosts
    BY <2>1 DEF FreeLines
  <2>3. w = Fetched(v, i, line, FALSE)
    BY <1>3 DEF ReadMiss, TakenLine, Fetched, i
  <2> HIDE DEF w
  <2>4. FALSE \in BOOLEAN
    OBVIOUS
  <2>5. Good(w, W \cup LineItems(line)) /\ Keeps(v, w, {"tab", "bus", "mem", "poped"})
    <3>1. MayTake(v, W, i, line)
      BY <2>2 DEF MayTake
    <3>2. Good(Fetched(v, i, line, FALSE), W \cup LineItems(line))
      BY <2>2, <2>4, <3>1, FetchLine
    <3>3. Keeps(v, Fetched(v, i, line, FALSE), {"tab", "bus", "mem", "poped"})
      BY <2>2, <2>4, <3>1, FetchLine
    <3> QED BY <2>3, <3>2, <3>3
  <2>6. Keeps(v, w, {"fifo", "tab", "bus", "mem", "poped"})
    BY <2>5 DEF Keeps
  <2> QED BY <2>5, <2>6 DEF w
<1> QED BY <1>2, <1>3

(* The request of a bank has been seen by the cache.                        *)
Seen(v, b, c) == [v EXCEPT !.asked[b] = FALSE, !.cache = c]

(* The cache has looked at the register, whose line stays for the moment.   *)
LEMMA SeenOK ==
  ASSUME NEW v, NEW W, Good(v, W), NEW b \in Bank, NEW c \in C!CacheType, CacheOK(c),
         c.block = v.cache.block
  PROVE  /\ Good(Seen(v, b, c), W) /\ Still(v, Seen(v, b, c)) /\ ~Seen(v, b, c).asked[b]
         /\ Seen(v, b, c).reg = v.reg /\ Seen(v, b, c).cache = c
<1> DEFINE w == Seen(v, b, c)
           a == [v.asked EXCEPT ![b] = FALSE]
<1>1. v \in Unit /\ Fit(v, W) /\ Counted(v) /\ Sound(v) /\ Split(v, W)
  BY DEF Good, Fit
<1>2. a \in [Bank -> BOOLEAN] /\ ~a[b] /\ \A k \in Bank : a[k] => v.asked[k]
  BY <1>1, UnitFields
<1>3. w = [v EXCEPT !.asked = a, !.cache = c]
  BY DEF Seen
<1> HIDE DEF w, a
<1>4. w \in Unit
  BY <1>1, <1>2, <1>3 DEF Unit
<1>5. w.asked = a /\ w.cache = c /\ Keeps(v, w, {"asked", "cache"})
  BY <1>1, <1>3, UnitFields DEF Keeps, Fields
<1>6. w.reg = v.reg /\ w.arb = v.arb
  BY <1>1, <1>5, Kept
<1>7. RegOK(w)
  BY <1>1, <1>2, <1>5, <1>6 DEF Sound, RegOK
<1>8. Sound(w)
  BY <1>1, <1>5, <1>7, SoundKept DEF Sound
<1>9. Split(w, W)
  <2>1. Keeps(v, w, Aside)
    BY <1>5 DEF Keeps, Aside
  <2> QED BY <1>1, <2>1, NothingMoved
<1>10. Counted(w)
  BY <1>1, <1>5, CountedKept
<1> QED BY <1>2, <1>4, <1>5, <1>6, <1>8, <1>9, <1>10 DEF Good, Still, w

(* The requests of a register.                                              *)
LEMMA RegItems ==
  ASSUME NEW v, NEW W, Fit(v, W), NEW b \in Bank
  PROVE  /\ LineItems(v.reg[b]) \subseteq W /\ v.reg[b] \in Line \cup {Empty}
         /\ RegLine(v.asked[b], v.reg[b])
<1>1. v \in Unit /\ Sound(v) /\ Split(v, W)
  BY DEF Fit
<1>2. <<"reg", b, 0>> \in Place /\ Box(v, <<"reg", b, 0>>) = LineItems(v.reg[b])
  BY DEF Place, Box
<1>3. LineItems(v.reg[b]) \subseteq W
  BY <1>1, <1>2 DEF Split
<1>4. v.reg[b] \in Line \cup {Empty}
  BY <1>1, UnitFields
<1>5. RegLine(v.asked[b], v.reg[b])
  BY <1>1 DEF Sound, RegOK, RegLine
<1> QED BY <1>3, <1>4, <1>5

(* A register is emptied.                                                   *)
LEMMA RegEmptied ==
  ASSUME NEW v, NEW W, Good(v, W), NEW b \in Bank, ~v.asked[b]
  PROVE  /\ Good(WithReg(v, b, Empty), W \ LineItems(v.reg[b]))
         /\ Keeps(v, WithReg(v, b, Empty), {"reg"})
<1>1. v \in Unit /\ Fit(v, W) /\ Counted(v)
  BY DEF Good, Fit
<1>2. RegLine(v.asked[b], Empty) /\ LineItems(Empty) = {}
  BY DEF RegLine, LineItems
<1> DEFINE w == WithReg(v, b, Empty)
           M == LineItems(v.reg[b])
<1>3. Fit(w, W \ M)
  <2>1. M \subseteq LineItems(v.reg[b]) /\ LineItems(Empty) = LineItems(v.reg[b]) \ M
    BY <1>2
  <2> HIDE DEF M
  <2> QED BY <1>1, <1>2, <2>1, RegTaken
<1>4. Keeps(v, w, {"reg"})
  BY <1>1, WithRegIs
<1> HIDE DEF w
<1>5. Counted(w)
  BY <1>1, <1>4, CountedKept
<1> QED BY <1>3, <1>4, <1>5, GoodIs DEF w

(* Cache::update for one bank.                                              *)
LEMMA LookUpOK ==
  ASSUME NEW v, NEW W, Good(v, W), NEW b \in Bank
  PROVE  Good(LookUp(v, b), W) /\ Still(v, LookUp(v, b))
<1> DEFINE line == v.reg[b]
           hit == C!HitWays(v.cache, line.block) # {}
           c == IF ~cfg.allHit /\ hit THEN C!Hit(v.cache, line.block) ELSE v.cache
           w == Seen(v, b, c)
           d == IF ~cfg.allHit /\ hit THEN C!WriteHit(c, line.block) ELSE c
           y == WithReg(w, b, Empty)
           z == LookUp(v, b)
<1>1. v \in Unit /\ Fit(v, W) /\ v.cache \in C!CacheType /\ CacheOK(v.cache)
  BY UnitFields DEF Good, Fit, Sound
<1>2. CASE ~v.asked[b]
  BY <1>2 DEF LookUp, Still
<1> SUFFICES ASSUME v.asked[b] PROVE Good(z, W) /\ Still(v, z)
  BY <1>2
<1>3. line \in Line /\ line.block \in Blocks /\ ~line.complete /\ OneTag(line) /\ line # Empty
  <2>1. line \in Line \cup {Empty} /\ RegLine(v.asked[b], line)
    BY <1>1, RegItems
  <2> QED BY <2>1 DEF RegLine, Line
<1>4. LineItems(line) \subseteq W
  BY <1>1, RegItems
<1>5. z = IF line.wr THEN [y EXCEPT !.cache = d]
          ELSE IF cfg.allHit \/ hit THEN ReadHit(w, b) ELSE ReadMiss(y, b, line)
  BY DEF LookUp, Seen, WithReg
<1>6. c \in C!CacheType /\ CacheOK(c) /\ c.block = v.cache.block
  <2> HIDE DEF line
  <2> QED BY <1>1, <1>3, HitOK
<1>7. hit <=> C!HitWays(c, line.block) # {}
  BY <1>6 DEF C!HitWays
<1>8. d \in C!CacheType /\ CacheOK(d) /\ d.block = v.cache.block
  <2> HIDE DEF line, hit, c
  <2> QED BY <1>3, <1>6, <1>7, WriteHitOK
<1> HIDE DEF line, hit, c, d, w, y, z
<1>9. Good(w, W) /\ Still(v, w) /\ ~w.asked[b] /\ w.reg = v.reg /\ w.cache = c
  BY <1>6, SeenOK DEF w
<1>10. w.reg[b] = line
  BY <1>9 DEF line
<1>11. Good(y, W \ LineItems(line)) /\ Keeps(w, y, {"reg"})
  BY <1>9, <1>10, RegEmptied DEF y
<1>12. w \in Unit /\ y \in Unit /\ Fit(y, W \ LineItems(line)) /\ Counted(y)
  BY <1>9, <1>11 DEF Good, Fit
<1>13. CASE line.wr
  <2>1. z = [y EXCEPT !.cache = d]
    BY <1>5, <1>13
  <2>2. z \in Unit
    BY <1>8, <1>12, <2>1 DEF Unit
  <2>3. z.cache = d /\ Keeps(y, z, {"cache"})
    BY <1>12, <2>1, UnitFields DEF Keeps, Fields
  <2>4. BusOK(z)
    BY <1>12, <2>3, SoundKept DEF Fit
  <2>5. LineItems(line) = {} /\ W \ {} = W
    BY <1>13 DEF LineItems
  <2>6. Fit(z, W)
    BY <1>8, <1>12, <2>2, <2>3, <2>4, <2>5, FitKept DEF Aside
  <2>7. Counted(z)
    BY <1>12, <2>3, CountedKept
  <2>8. z.arb = v.arb
    BY <1>9, <1>11, <1>12, <2>3, Kept DEF Still
  <2> QED BY <1>8, <2>3, <2>6, <2>7, <2>8, GoodIs DEF Still
<1>14. CASE ~line.wr /\ (cfg.allHit \/ hit)
  <2>1. z = ReadHit(w, b)
    BY <1>5, <1>14
  <2>2. Good(z, W) /\ Keeps(w, z, {"out", "reg", "pend"})
    BY <1>3, <1>9, <1>10, <1>14, <2>1, ReadHitOK
  <2>3. Still(w, z)
    BY <1>12, <2>2, StillKept
  <2> QED BY <1>9, <2>2, <2>3 DEF Still
<1>15. CASE ~line.wr /\ ~(cfg.allHit \/ hit)
  <2>1. z = ReadMiss(y, b, line)
    BY <1>5, <1>15
  <2>2. LineItems(line) \cap (W \ LineItems(line)) = {}
    OBVIOUS
  <2>3. /\ Good(z, (W \ LineItems(line)) \cup LineItems(line))
        /\ Keeps(y, z, {"fifo", "tab", "bus", "mem", "poped"})
    BY <1>3, <1>11, <1>15, <2>1, <2>2, ReadMissOK
  <2>4. (W \ LineItems(line)) \cup LineItems(line) = W
    BY <1>4
  <2>5. Still(y, z) /\ Still(w, y)
    BY <1>11, <1>12, <2>3, StillKept
  <2> QED BY <1>9, <2>3, <2>4, <2>5 DEF Still
<1> QED BY <1>13, <1>14, <1>15

(* Cache::update for all banks.                                             *)
LEMMA CacheUpdateOK ==
  ASSUME NEW v, NEW W, Good(v, W)
  PROVE  Good(CacheUpdate(v), W) /\ Still(v, CacheUpdate(v))
<1> DEFINE N == Banks
           V == [k \in 0 .. N |-> {x \in Unit : Good(x, W) /\ Still(v, x)}]
           G == [k \in 1 .. N |-> [x \in V[k-1] |-> LookUp(x, k - 1)]]
           Satisfies(f) == f = [i \in 0 .. N |-> IF i = 0 THEN v ELSE LookUp(f[i-1], i - 1)]
           after == CHOOSE f : Satisfies(f)
<1>1. v \in Unit /\ N \in Nat /\ \A k \in 1 .. N : k - 1 \in Bank /\ k - 1 \in 0 .. N
  BY Sizes DEF Good, Bank
<1>2. v \in V[0]
  BY <1>1 DEF Still
<1>3. ASSUME NEW k \in 1 .. N, NEW x \in V[k-1] PROVE LookUp(x, k - 1) \in V[k]
  <2>1. k \in 0 .. N /\ k - 1 \in 0 .. N /\ k - 1 \in Bank
    BY <1>1
  <2>2. Good(x, W) /\ Still(v, x)
    BY <2>1
  <2> DEFINE y == LookUp(x, k - 1)
  <2> HIDE DEF y
  <2>3. Good(y, W) /\ Still(x, y)
    BY <2>1, <2>2, LookUpOK DEF y
  <2>4. y \in Unit /\ Still(v, y)
    BY <2>2, <2>3 DEF Good, Still
  <2> QED BY <2>1, <2>3, <2>4 DEF y
<1> HIDE DEF V
<1>4. PICK h \in [0 .. N -> UNION {V[k] : k \in 0 .. N}] :
        Chain(h, N, v, G) /\ \A k \in 0 .. N : h[k] \in V[k]
  <2>1. \A k \in 1 .. N : \A x \in V[k-1] : G[k][x] \in V[k]
    BY <1>3
  <2> HIDE DEF G
  <2> QED BY <1>1, <1>2, <2>1, Chained
<1>5. Satisfies(h)
  <2>1. ASSUME NEW k \in 0 .. N, k # 0 PROVE h[k] = LookUp(h[k-1], k - 1)
    <3>1. k \in 1 .. N /\ k - 1 \in 0 .. N
      BY <1>1, <2>1
    <3> QED BY <1>4, <3>1 DEF Chain
  <2>2. h[0] = v
    BY <1>4 DEF Chain
  <2> QED BY <2>1, <2>2
<1>6. Satisfies(after)
  <2> HIDE DEF Satisfies
  <2> QED BY <1>5
<1>7. CacheUpdate(v) = after[N]
  BY DEF CacheUpdate, Each
<1> HIDE DEF after
<1>8. after[N] \in V[N]
  <2>1. after[0] = v
    BY <1>1, <1>6
  <2>2. \A k \in 1 .. N : after[k-1] \in V[k-1] => after[k] \in V[k]
    <3> SUFFICES ASSUME NEW k \in 1 .. N, after[k-1] \in V[k-1] PROVE after[k] \in V[k]
      OBVIOUS
    <3>1. k \in 0 .. N /\ k # 0
      BY <1>1
    <3>2. after[k] = LookUp(after[k-1], k - 1)
      BY <1>6, <3>1
    <3> QED BY <1>3, <3>2
  <2> HIDE DEF Satisfies, N
  <2> QED BY <1>1, <1>2, <2>1, <2>2, Followed
<1>9. after[N] \in Unit /\ Good(after[N], W) /\ Still(v, after[N])
  <2>1. N \in 0 .. N
    BY <1>1
  <2> QED BY <1>8, <2>1 DEF V
<1> QED BY <1>7, <1>9

(* What y has given up is answered in w.                                    *)
LEMMA AnswersOf ==
  ASSUME NEW v \in Unit, NEW y, NEW w \in Unit, NEW X, NEW M, NEW f, Fit(y, X),
         Keeps(v, y, {f}), Keeps(v, w, {"out", f}), f # "out", w[f] = y[f],
         w.out = v.out \cup M, M \cap X = {}
  PROVE  Fit(w, X \cup M)
<1>1. y \in Unit
  BY DEF Fit
<1>2. DOMAIN v = Fields /\ DOMAIN y = Fields /\ DOMAIN w = Fields
  BY <1>1, UnitFields
<1>3. Keeps(y, w, {"out"})
  <2>1. ASSUME NEW g \in Fields, g # "out", g # f PROVE w[g] = y[g]
    <3>1. w[g] = v[g] /\ y[g] = v[g]
      BY <1>2, <2>1 DEF Keeps
    <3> QED BY <3>1
  <2> QED BY <1>2, <2>1 DEF Keeps
<1>4. y.out = v.out
  BY Kept
<1> QED BY <1>3, <1>4, Handed

(* The slots of a line.                                                     *)
LEMMA SlotsOf ==
  ASSUME NEW v \in Unit, NEW i \in 1 .. TabLines
  PROVE  /\ v.post[i] \in [Slot -> Offsets \cup {Empty}]
         /\ \A k \in Slot : v.post[i][k] \in Offsets \cup {Empty}
         /\ v.tab[i] \in Entry \cup {Empty}
<1>1. /\ v.post \in [1 .. TabLines -> [Slot -> Offsets \cup {Empty}]]
      /\ v.tab \in [1 .. TabLines -> Entry \cup {Empty}]
  BY UnitFields
<1>2. v.post[i] \in [Slot -> Offsets \cup {Empty}] /\ v.tab[i] \in Entry \cup {Empty}
  BY <1>1
<1> QED BY <1>2

(* Two functions with the same values are the same.                         *)
LEMMA SameFunction ==
  ASSUME NEW S, NEW T, NEW p \in [S -> T], NEW q \in [S -> T], \A s \in S : p[s] = q[s]
  PROVE  p = q
  OBVIOUS

WithPost(v, i, k, x) == [v EXCEPT !.post[i][k] = x]

(* Only one slot changes.                                                   *)
LEMMA WithPostIs ==
  ASSUME NEW v \in Unit, NEW i \in 1 .. TabLines, NEW k \in Slot, NEW x \in Offsets \cup {Empty}
  PROVE  /\ WithPost(v, i, k, x) \in Unit /\ Keeps(v, WithPost(v, i, k, x), {"post"})
         /\ WithPost(v, i, k, x).post[i][k] = x
         /\ \A j \in 1 .. TabLines, l \in Slot : j # i \/ l # k =>
              WithPost(v, i, k, x).post[j][l] = v.post[j][l]
<1> DEFINE w == WithPost(v, i, k, x)
           q == [v.post[i] EXCEPT ![k] = x]
           r == [v.post EXCEPT ![i] = q]
<1>1. v.post \in [1 .. TabLines -> [Slot -> Offsets \cup {Empty}]]
  BY UnitFields
<1>2. /\ q \in [Slot -> Offsets \cup {Empty}] /\ q[k] = x
      /\ \A l \in Slot : l # k => q[l] = v.post[i][l]
  BY <1>1
<1>3. w = [v EXCEPT !.post = r]
  BY DEF WithPost
<1> HIDE DEF w, q
<1>4. /\ r \in [1 .. TabLines -> [Slot -> Offsets \cup {Empty}]] /\ r[i] = q
      /\ \A j \in 1 .. TabLines : j # i => r[j] = v.post[j]
  BY <1>1, <1>2
<1> HIDE DEF r
<1>5. w \in Unit
  BY <1>3, <1>4 DEF Unit
<1>6. w.post = r /\ Keeps(v, w, {"post"})
  BY <1>3, UnitFields DEF Keeps, Fields
<1> QED BY <1>2, <1>4, <1>5, <1>6 DEF w

(* A slot is used only when its line is.                                    *)
LEMMA WithPostOK ==
  ASSUME NEW v, NEW W, Fit(v, W), NEW i \in 1 .. TabLines, NEW k \in Slot,
         NEW x \in Offsets \cup {Empty}, v.tab[i] # Empty
  PROVE  /\ Sound(WithPost(v, i, k, x)) /\ OneChanged(v, WithPost(v, i, k, x), <<"post", i, k>>)
         /\ Box(v, <<"post", i, k>>) = PostItems(v, i, k)
         /\ Box(WithPost(v, i, k, x), <<"post", i, k>>) =
              IF x = Empty THEN {} ELSE Items(v.tab[i].block, x)
<1> DEFINE w == WithPost(v, i, k, x)
<1>1. v \in Unit /\ Split(v, W) /\ Sound(v)
  BY DEF Fit
<1>2. /\ w \in Unit /\ Keeps(v, w, {"post"}) /\ w.post[i][k] = x
      /\ \A j \in 1 .. TabLines, l \in Slot : j # i \/ l # k => w.post[j][l] = v.post[j][l]
  BY <1>1, WithPostIs
<1> HIDE DEF w
<1>3. Keeps(v, w, Aside \cup {"post"})
  BY <1>2 DEF Keeps
<1>4. /\ OneChanged(v, w, <<"post", i, k>>)
      /\ Box(v, <<"post", i, k>>) = PostItems(v, i, k)
      /\ Box(w, <<"post", i, k>>) = PostItems(w, i, k)
  BY <1>1, <1>2, <1>3, PostChanged
<1>5. w.tab = v.tab
  BY <1>1, <1>2, Kept
<1>6. PostItems(w, i, k) = IF x = Empty THEN {} ELSE Items(v.tab[i].block, x)
  BY <1>2, <1>5 DEF PostItems
<1>7. TabOK(w)
  <2>1. ASSUME NEW j \in 1 .. TabLines, w.post[j] # NoPosts PROVE w.tab[j] # Empty
    <3>1. CASE j = i
      BY <1>5, <3>1
    <3>2. CASE j # i
      <4>1. /\ w.post[j] \in [Slot -> Offsets \cup {Empty}]
            /\ v.post[j] \in [Slot -> Offsets \cup {Empty}]
        BY <1>1, <1>2, SlotsOf
      <4>2. w.post[j] = v.post[j]
        <5>1. \A l \in Slot : w.post[j][l] = v.post[j][l]
          BY <1>2, <3>2
        <5> QED BY <4>1, <5>1, SameFunction
      <4> QED BY <1>1, <1>5, <2>1, <4>2 DEF Sound, TabOK
    <3> QED BY <3>1, <3>2
  <2> QED BY <1>1, <1>5, <2>1 DEF Sound, TabOK
<1>8. Sound(w)
  BY <1>1, <1>2, <1>7, SoundKept DEF Sound
<1> QED BY <1>4, <1>6, <1>8 DEF w

(* A slot gives up requests.                                                *)
LEMMA PostTaken ==
  ASSUME NEW v, NEW W, Fit(v, W), NEW i \in 1 .. TabLines, NEW k \in Slot,
         NEW x \in Offsets \cup {Empty}, v.tab[i] # Empty, NEW M, M \subseteq PostItems(v, i, k),
         (IF x = Empty THEN {} ELSE Items(v.tab[i].block, x)) = PostItems(v, i, k) \ M
  PROVE  Fit(WithPost(v, i, k, x), W \ M)
<1> DEFINE w == WithPost(v, i, k, x)
<1>1. /\ Sound(w) /\ OneChanged(v, w, <<"post", i, k>>)
      /\ Box(v, <<"post", i, k>>) = PostItems(v, i, k)
      /\ Box(w, <<"post", i, k>>) = PostItems(v, i, k) \ M
  BY WithPostOK
<1>2. v \in Unit /\ Split(v, W)
  BY DEF Fit
<1>3. w \in Unit
  BY <1>2, WithPostIs
<1> HIDE DEF w
<1>4. Split(w, W \ M)
  BY <1>1, <1>2, Taken
<1> QED BY <1>1, <1>3, <1>4 DEF Fit, w

(* An empty slot takes requests.                                            *)
LEMMA PostPut ==
  ASSUME NEW v, NEW W, Fit(v, W), NEW i \in 1 .. TabLines, NEW k \in Slot, NEW x \in Offsets,
         v.tab[i] # Empty, v.post[i][k] = Empty, Items(v.tab[i].block, x) \cap W = {}
  PROVE  Fit(WithPost(v, i, k, x), W \cup Items(v.tab[i].block, x))
<1> DEFINE w == WithPost(v, i, k, x)
           M == Items(v.tab[i].block, x)
<1>1. x # Empty
  BY NoneIs
<1>2. /\ Sound(w) /\ OneChanged(v, w, <<"post", i, k>>)
      /\ Box(v, <<"post", i, k>>) = {} /\ Box(w, <<"post", i, k>>) = M
  BY <1>1, WithPostOK DEF PostItems
<1>3. v \in Unit /\ Split(v, W)
  BY DEF Fit
<1>4. w \in Unit
  BY <1>3, WithPostIs
<1> HIDE DEF w, M
<1>5. Split(w, W \cup M)
  <2>1. Box(w, <<"post", i, k>>) = Box(v, <<"post", i, k>>) \cup M /\ M \cap W = {}
    BY <1>2 DEF M
  <2> QED BY <1>2, <1>3, <2>1, Put
<1> QED BY <1>2, <1>4, <1>5 DEF Fit, w, M

(* A slot keeps what it could not answer.                                   *)
LEMMA AnswerSlotOK ==
  ASSUME NEW v, NEW W, Good(v, W), NEW i \in 1 .. TabLines, NEW k \in Slot
  PROVE  Good(AnswerSlot(v, i, k), W) /\ Keeps(v, AnswerSlot(v, i, k), {"out", "post"})
<1> DEFINE off == v.post[i][k]
           block == v.tab[i].block
           left == Rest(v, off)
           x == IF left = NoOffsets THEN Empty ELSE left
           given == Given(v, block, off)
           a == Answer(v, block, off)
           y == WithPost(v, i, k, x)
           w == AnswerSlot(v, i, k)
<1>1. v \in Unit /\ Fit(v, W) /\ Counted(v) /\ Sound(v) /\ Split(v, W)
  BY DEF Good, Fit
<1>2. CASE off = Empty
  BY <1>2 DEF AnswerSlot, Keeps
<1> SUFFICES ASSUME off # Empty
             PROVE  Good(w, W) /\ Keeps(v, w, {"out", "post"})
  BY <1>2
<1>3. off \in Offsets
  <2>1. off \in Offsets \cup {Empty}
    BY <1>1, SlotsOf
  <2> QED BY <2>1
<1>4. v.tab[i] # Empty /\ v.tab[i] \in Entry /\ block \in Blocks
  <2>1. v.post[i] # NoPosts
    BY DEF NoPosts
  <2>2. v.tab[i] # Empty
    BY <1>1, <2>1 DEF Sound, TabOK
  <2>3. v.tab[i] \in Entry
    BY <1>1, <2>2, SlotsOf
  <2> QED BY <2>2, <2>3 DEF Entry
<1>5. PostItems(v, i, k) = Items(block, off)
  BY <1>4 DEF PostItems
<1>6. /\ left \in Offsets /\ given \subseteq Items(block, off)
      /\ Items(block, left) = Items(block, off) \ given
  BY <1>3, <1>4, RestOf
<1>7. w = WithPost(a, i, k, x)
  BY DEF AnswerSlot, WithPost
<1>8. a \in Unit /\ Keeps(v, a, {"out"}) /\ a.out = v.out \cup given
  BY <1>1, <1>3, <1>4, AnswerIs
<1> HIDE DEF off, block, left, given, a, w
<1>9. /\ x \in Offsets \cup {Empty}
      /\ (IF x = Empty THEN {} ELSE Items(block, x)) = PostItems(v, i, k) \ given
  <2>1. left # Empty
    BY <1>6, NoneIs
  <2> QED BY <1>5, <1>6, <2>1, NothingLeft
<1> HIDE DEF x
<1>10. Fit(y, W \ given)
  BY <1>1, <1>4, <1>5, <1>6, <1>9, PostTaken DEF block
<1>11. /\ y \in Unit /\ Keeps(v, y, {"post"}) /\ y.post[i][k] = x
       /\ \A j \in 1 .. TabLines, l \in Slot : j # i \/ l # k => y.post[j][l] = v.post[j][l]
  BY <1>1, <1>9, WithPostIs
<1>12. /\ w \in Unit /\ Keeps(a, w, {"post"}) /\ w.post[i][k] = x
       /\ \A j \in 1 .. TabLines, l \in Slot : j # i \/ l # k => w.post[j][l] = a.post[j][l]
  BY <1>7, <1>8, <1>9, WithPostIs
<1> HIDE DEF y
<1>13. a.post = v.post /\ w.out = v.out \cup given
  BY <1>1, <1>8, <1>12, Kept
<1>14. w.post = y.post
  <2>1. /\ w.post \in [1 .. TabLines -> [Slot -> Offsets \cup {Empty}]]
        /\ y.post \in [1 .. TabLines -> [Slot -> Offsets \cup {Empty}]]
    BY <1>11, <1>12, UnitFields
  <2>2. \A j \in 1 .. TabLines, l \in Slot : w.post[j][l] = y.post[j][l]
    BY <1>11, <1>12, <1>13
  <2>3. ASSUME NEW j \in 1 .. TabLines PROVE w.post[j] = y.post[j]
    <3>1. /\ w.post[j] \in [Slot -> Offsets \cup {Empty}]
          /\ y.post[j] \in [Slot -> Offsets \cup {Empty}]
      BY <1>11, <1>12, SlotsOf
    <3> QED BY <2>2, <3>1, SameFunction
  <2>4. \A j \in 1 .. TabLines : w.post[j] = y.post[j]
    BY <2>3
  <2> DEFINE p == w.post
             q == y.post
             S == 1 .. TabLines
             T == [Slot -> Offsets \cup {Empty}]
  <2>5. p \in [S -> T] /\ q \in [S -> T] /\ \A j \in S : p[j] = q[j]
    BY <2>1, <2>4
  <2> HIDE DEF p, q, S, T
  <2>6. p = q
    BY <2>5, SameFunction
  <2> QED BY <2>6 DEF p, q
<1>15. Keeps(v, w, {"out", "post"})
  BY <1>8, <1>12 DEF Keeps
<1>16. Fit(w, (W \ given) \cup given)
  <2>1. given \cap (W \ given) = {} /\ "post" # "out" /\ w["post"] = y["post"]
    BY <1>14
  <2> QED BY <1>1, <1>10, <1>11, <1>12, <1>13, <1>15, <2>1, AnswersOf
<1>17. (W \ given) \cup given = W
  <2>1. <<"post", i, k>> \in Place /\ Box(v, <<"post", i, k>>) = PostItems(v, i, k)
    <3>1. <<i, k>> \in (1 .. TabLines) \X Slot
      OBVIOUS
    <3> QED BY <3>1 DEF Place, Box
  <2>2. PostItems(v, i, k) \subseteq W
    BY <1>1, <2>1 DEF Split
  <2> QED BY <1>5, <1>6, <2>2
<1>18. Counted(w)
  BY <1>1, <1>15, CountedKept
<1> QED BY <1>15, <1>16, <1>17, <1>18, GoodIs DEF w

WithTab(v, i, x) == [v EXCEPT !.tab[i] = x]

(* Only one line of the table changes.                                      *)
LEMMA WithTabIs ==
  ASSUME NEW v \in Unit, NEW i \in 1 .. TabLines, NEW x \in Entry \cup {Empty}
  PROVE  /\ WithTab(v, i, x) \in Unit /\ Keeps(v, WithTab(v, i, x), {"tab"})
         /\ WithTab(v, i, x).tab[i] = x
         /\ \A j \in 1 .. TabLines : j # i => WithTab(v, i, x).tab[j] = v.tab[j]
<1> DEFINE w == WithTab(v, i, x)
           r == [v.tab EXCEPT ![i] = x]
<1>1. v.tab \in [1 .. TabLines -> Entry \cup {Empty}]
  BY UnitFields
<1>2. /\ r \in [1 .. TabLines -> Entry \cup {Empty}] /\ r[i] = x
      /\ \A j \in 1 .. TabLines : j # i => r[j] = v.tab[j]
  BY <1>1
<1>3. w = [v EXCEPT !.tab = r]
  BY DEF WithTab
<1> HIDE DEF w, r
<1>4. w \in Unit
  BY <1>2, <1>3 DEF Unit
<1>5. w.tab = r /\ Keeps(v, w, {"tab"})
  BY <1>3, UnitFields DEF Keeps, Fields
<1> QED BY <1>2, <1>4, <1>5 DEF w

(* What may stand in place of a line: the same block, or none.              *)
Succeeds(v, i, x) ==
  /\ v.tab[i] # Empty
  /\ x = Empty => v.post[i] = NoPosts
  /\ x # Empty => x.block = v.tab[i].block /\ (~x.valid => x.off = NoOffsets)

(* A line gives up requests.                                                *)
LEMMA TabTaken ==
  ASSUME NEW v, NEW W, Fit(v, W), NEW i \in 1 .. TabLines, NEW x \in Entry \cup {Empty},
         Succeeds(v, i, x), NEW M, M \subseteq TabItems(v, i),
         (IF x = Empty THEN {} ELSE Items(x.block, x.off)) = TabItems(v, i) \ M
  PROVE  Fit(WithTab(v, i, x), W \ M)
<1> DEFINE w == WithTab(v, i, x)
<1>1. v \in Unit /\ Split(v, W) /\ Sound(v)
  BY DEF Fit
<1>2. /\ w \in Unit /\ Keeps(v, w, {"tab"}) /\ w.tab[i] = x
      /\ \A j \in 1 .. TabLines : j # i => w.tab[j] = v.tab[j]
  BY <1>1, WithTabIs
<1> HIDE DEF w
<1>3. Keeps(v, w, Aside \cup {"tab"})
  BY <1>2 DEF Keeps
<1>4. w.post = v.post
  BY <1>1, <1>2, Kept
<1>5. /\ OneChanged(v, w, <<"tab", i, 0>>)
      /\ Box(v, <<"tab", i, 0>>) = TabItems(v, i)
      /\ Box(w, <<"tab", i, 0>>) = TabItems(w, i)
  <2>1. \/ v.post[i] = NoPosts
        \/ v.tab[i] # Empty /\ w.tab[i] # Empty /\ w.tab[i].block = v.tab[i].block
    BY <1>2 DEF Succeeds
  <2> QED BY <1>1, <1>2, <1>3, <2>1, TabChanged
<1>6. TabItems(w, i) = TabItems(v, i) \ M
  BY <1>2 DEF TabItems
<1>7. Split(w, W \ M)
  BY <1>1, <1>5, <1>6, Taken
<1>8. TabOK(w)
  <2>1. ASSUME NEW j \in 1 .. TabLines
        PROVE  /\ w.tab[j] # Empty /\ ~w.tab[j].valid => w.tab[j].off = NoOffsets
               /\ w.post[j] # NoPosts => w.tab[j] # Empty
    <3>1. CASE j = i
      BY <1>2, <1>4, <3>1 DEF Succeeds
    <3>2. CASE j # i
      BY <1>1, <1>2, <1>4, <3>2 DEF Sound, TabOK
    <3> QED BY <3>1, <3>2
  <2> QED BY <2>1 DEF TabOK
<1>9. Sound(w)
  BY <1>1, <1>2, <1>8, SoundKept DEF Sound
<1> QED BY <1>2, <1>7, <1>9 DEF Fit, w

(* A line that is not waiting may change without a change to what is        *)
(* fetched.                                                                 *)
LEMMA NotFetching ==
  ASSUME NEW v \in Unit, NEW w, NEW S, Keeps(v, w, S), "bus" \notin S, "mem" \notin S, Counted(v),
         NEW i \in 1 .. TabLines, \A j \in 1 .. TabLines : j # i => w.tab[j] = v.tab[j],
         v.tab[i] # Empty, v.tab[i].complete \/ ~v.tab[i].valid,
         w.tab[i] # Empty => w.tab[i].complete \/ ~w.tab[i].valid
  PROVE  Counted(w)
<1>1. w.bus = v.bus /\ w.mem = v.mem
  BY Kept
<1>2. \A b \in Blocks : i \notin Fetching(v, b) /\ i \notin Fetching(w, b)
  BY DEF Fetching
<1>3. \A b \in Blocks : Fetching(w, b) = Fetching(v, b)
  BY <1>2 DEF Fetching
<1> QED BY <1>1, <1>3 DEF Counted

(* A line is freed when it holds no request and waits for no fetch.         *)
LEMMA FreeEntryOK ==
  ASSUME NEW v, NEW W, Good(v, W), NEW i \in 1 .. TabLines
  PROVE  Good(FreeEntry(v, i), W) /\ Keeps(v, FreeEntry(v, i), {"tab", "poped"})
<1> DEFINE y == WithTab(v, i, Empty)
           w == FreeEntry(v, i)
           frees == v.tab[i] # Empty /\ ~v.tab[i].valid /\ v.post[i] = NoPosts
<1>1. v \in Unit /\ Fit(v, W) /\ Counted(v) /\ Sound(v)
  BY DEF Good, Fit
<1>2. CASE ~frees
  BY <1>2 DEF FreeEntry, Keeps
<1> SUFFICES ASSUME frees
             PROVE  Good(w, W) /\ Keeps(v, w, {"tab", "poped"})
  BY <1>2
<1>3. w = Release(y, v.tab[i].block)
  BY DEF FreeEntry, Release, WithTab
<1>4. v.tab[i].block \in Blocks
  BY <1>1, SlotsOf DEF Entry
<1>5. /\ y \in Unit /\ Keeps(v, y, {"tab"}) /\ y.tab[i] = Empty
      /\ \A j \in 1 .. TabLines : j # i => y.tab[j] = v.tab[j]
  BY <1>1, WithTabIs
<1>6. TabItems(v, i) = {}
  BY <1>1, NothingLeft DEF TabItems, Sound, TabOK
<1>7. Fit(y, W)
  <2>1. Succeeds(v, i, Empty)
    BY DEF Succeeds
  <2>2. {} \subseteq TabItems(v, i) /\ {} = TabItems(v, i) \ {} /\ W \ {} = W
    BY <1>6
  <2>3. Fit(y, W \ {})
    BY <1>1, <2>1, <2>2, TabTaken
  <2> QED BY <2>2, <2>3
<1>8. Counted(y)
  BY <1>1, <1>5, NotFetching
<1> HIDE DEF y, w
<1>9. w \in Unit /\ Keeps(y, w, {"poped"})
  BY <1>3, <1>4, <1>5, ReleaseIs
<1>10. Fit(w, W)
  <2>1. BusOK(w) /\ CacheOK(w.cache)
    BY <1>5, <1>7, <1>9, SoundKept DEF Fit
  <2> QED BY <1>7, <1>9, <2>1, FitKept DEF Aside
<1>11. Counted(w)
  BY <1>5, <1>8, <1>9, CountedKept
<1>12. Keeps(v, w, {"tab", "poped"})
  BY <1>5, <1>9 DEF Keeps
<1> QED BY <1>10, <1>11, <1>12, GoodIs DEF w

(* A complete line keeps what it could not answer, and stays valid as long  *)
(* as it has some.                                                          *)
LEMMA AnswerLineOK ==
  ASSUME NEW v, NEW W, Good(v, W), NEW i \in 1 .. TabLines, v.tab[i] # Empty,
         v.tab[i].complete, v.tab[i].valid
  PROVE  Good(AnswerEntry(v, i), W) /\ Keeps(v, AnswerEntry(v, i), {"out", "tab"})
<1> DEFINE entry == v.tab[i]
           left == Rest(v, entry.off)
           x == [entry EXCEPT !.off = left, !.valid = (left # NoOffsets)]
           given == Given(v, entry.block, entry.off)
           a == Answer(v, entry.block, entry.off)
           y == WithTab(v, i, x)
           w == AnswerEntry(v, i)
<1>1. v \in Unit /\ Fit(v, W) /\ Counted(v) /\ Split(v, W)
  BY DEF Good, Fit
<1>2. entry \in Entry /\ entry.block \in Blocks /\ entry.off \in Offsets
  BY <1>1, SlotsOf DEF Entry
<1>3. TabItems(v, i) = Items(entry.block, entry.off)
  BY DEF TabItems
<1>4. /\ left \in Offsets /\ given \subseteq Items(entry.block, entry.off)
      /\ Items(entry.block, left) = Items(entry.block, entry.off) \ given
  BY <1>2, RestOf
<1>5. w = WithTab(a, i, x)
  <2>1. a.tab = v.tab
    BY <1>1, <1>2, AnswerIs, Kept
  <2> QED BY <2>1 DEF AnswerEntry, WithTab
<1>6. a \in Unit /\ Keeps(v, a, {"out"}) /\ a.out = v.out \cup given
  BY <1>1, <1>2, AnswerIs
<1>7. /\ x \in Entry /\ x.block = entry.block /\ x.off = left /\ x.valid = (left # NoOffsets)
      /\ x.complete = entry.complete
  BY <1>2, <1>4 DEF Entry
<1> HIDE DEF left, given, a, w, x
<1>8. x # Empty
  BY <1>7, NoneIs
<1>9. /\ Succeeds(v, i, x)
      /\ (IF x = Empty THEN {} ELSE Items(x.block, x.off)) = TabItems(v, i) \ given
  BY <1>3, <1>4, <1>7, <1>8 DEF Succeeds
<1>10. Fit(y, W \ given)
  BY <1>1, <1>3, <1>4, <1>7, <1>9, TabTaken
<1>11. /\ y \in Unit /\ Keeps(v, y, {"tab"}) /\ y.tab[i] = x
       /\ \A j \in 1 .. TabLines : j # i => y.tab[j] = v.tab[j]
  BY <1>1, <1>7, WithTabIs
<1>12. /\ w \in Unit /\ Keeps(a, w, {"tab"}) /\ w.tab[i] = x
       /\ \A j \in 1 .. TabLines : j # i => w.tab[j] = a.tab[j]
  BY <1>5, <1>6, <1>7, WithTabIs
<1> HIDE DEF y
<1>13. a.tab = v.tab /\ w.out = v.out \cup given
  BY <1>1, <1>6, <1>12, Kept
<1>14. w.tab = y.tab
  <2> DEFINE p == w.tab
             q == y.tab
             S == 1 .. TabLines
             T == Entry \cup {Empty}
  <2>1. p \in [S -> T] /\ q \in [S -> T]
    BY <1>11, <1>12, UnitFields
  <2>2. \A j \in S : p[j] = q[j]
    BY <1>11, <1>12, <1>13
  <2> HIDE DEF p, q, S, T
  <2>3. p = q
    BY <2>1, <2>2, SameFunction
  <2> QED BY <2>3 DEF p, q
<1>15. Keeps(v, w, {"out", "tab"})
  BY <1>6, <1>12 DEF Keeps
<1>16. Fit(w, (W \ given) \cup given)
  <2>1. given \cap (W \ given) = {} /\ "tab" # "out" /\ w["tab"] = y["tab"]
    BY <1>14
  <2> QED BY <1>1, <1>10, <1>11, <1>12, <1>13, <1>15, <2>1, AnswersOf
<1>17. (W \ given) \cup given = W
  <2>1. <<"tab", i, 0>> \in Place /\ Box(v, <<"tab", i, 0>>) = TabItems(v, i)
    BY DEF Place, Box
  <2> QED BY <1>1, <1>3, <1>4, <2>1 DEF Split
<1>18. Counted(w)
  BY <1>1, <1>7, <1>12, <1>13, <1>15, NotFetching
<1> QED BY <1>15, <1>16, <1>17, <1>18, GoodIs DEF w

(* All slots of a line.                                                     *)
LEMMA AnswerSlotsOK ==
  ASSUME NEW v, NEW W, Good(v, W), NEW i \in 1 .. TabLines, v.tab[i] # Empty,
         v.tab[i].complete, ~v.tab[i].valid
  PROVE  Good(AnswerEntry(v, i), W) /\ Keeps(v, AnswerEntry(v, i), {"out", "post"})
<1> DEFINE N == PostDepth
           V == [k \in 0 .. N |-> {x \in Unit : Good(x, W) /\ Keeps(v, x, {"out", "post"})}]
           G == [k \in 1 .. N |-> [x \in V[k-1] |-> AnswerSlot(x, i, k)]]
           Satisfies(f) == f = [m \in 0 .. N |-> IF m = 0 THEN v ELSE AnswerSlot(f[m-1], i, m)]
           after == CHOOSE f : Satisfies(f)
<1>1. v \in Unit /\ N \in Nat /\ \A k \in 1 .. N : k \in Slot /\ k \in 0 .. N /\ k - 1 \in 0 .. N
  BY Sizes DEF Good, Slot
<1>2. v \in V[0]
  BY <1>1 DEF Keeps
<1>3. ASSUME NEW k \in 1 .. N, NEW x \in V[k-1] PROVE AnswerSlot(x, i, k) \in V[k]
  <2>1. k \in 0 .. N /\ k - 1 \in 0 .. N /\ k \in Slot
    BY <1>1
  <2>2. Good(x, W) /\ Keeps(v, x, {"out", "post"})
    BY <2>1
  <2> DEFINE y == AnswerSlot(x, i, k)
  <2> HIDE DEF y
  <2>3. Good(y, W) /\ Keeps(x, y, {"out", "post"})
    BY <2>1, <2>2, AnswerSlotOK DEF y
  <2>4. y \in Unit /\ Keeps(v, y, {"out", "post"})
    BY <2>2, <2>3 DEF Good, Keeps
  <2> QED BY <2>1, <2>3, <2>4 DEF y
<1> HIDE DEF V
<1>4. PICK h \in [0 .. N -> UNION {V[k] : k \in 0 .. N}] :
        Chain(h, N, v, G) /\ \A k \in 0 .. N : h[k] \in V[k]
  <2>1. \A k \in 1 .. N : \A x \in V[k-1] : G[k][x] \in V[k]
    BY <1>3
  <2> HIDE DEF G
  <2> QED BY <1>1, <1>2, <2>1, Chained
<1>5. Satisfies(h)
  <2>1. ASSUME NEW k \in 0 .. N, k # 0 PROVE h[k] = AnswerSlot(h[k-1], i, k)
    <3>1. k \in 1 .. N /\ k - 1 \in 0 .. N
      BY <1>1, <2>1
    <3> QED BY <1>4, <3>1 DEF Chain
  <2>2. h[0] = v
    BY <1>4 DEF Chain
  <2> QED BY <2>1, <2>2
<1>6. Satisfies(after)
  <2> HIDE DEF Satisfies
  <2> QED BY <1>5
<1>7. AnswerEntry(v, i) = after[N]
  BY DEF AnswerEntry, Each
<1> HIDE DEF after
<1>8. after[N] \in V[N]
  <2>1. after[0] = v
    BY <1>1, <1>6
  <2>2. \A k \in 1 .. N : after[k-1] \in V[k-1] => after[k] \in V[k]
    <3> SUFFICES ASSUME NEW k \in 1 .. N, after[k-1] \in V[k-1] PROVE after[k] \in V[k]
      OBVIOUS
    <3>1. k \in 0 .. N /\ k # 0
      BY <1>1
    <3>2. after[k] = AnswerSlot(after[k-1], i, k)
      BY <1>6, <3>1
    <3> QED BY <1>3, <3>2
  <2> HIDE DEF Satisfies, N
  <2> QED BY <1>1, <1>2, <2>1, <2>2, Followed
<1>9. after[N] \in Unit /\ Good(after[N], W) /\ Keeps(v, after[N], {"out", "post"})
  <2>1. N \in 0 .. N
    BY <1>1
  <2> QED BY <1>8, <2>1 DEF V
<1> QED BY <1>7, <1>9

(* The line first, then its slots.                                          *)
LEMMA AnswerEntryOK ==
  ASSUME NEW v, NEW W, Good(v, W), NEW i \in 1 .. TabLines
  PROVE  Good(AnswerEntry(v, i), W) /\ Still(v, AnswerEntry(v, i))
<1> DEFINE w == AnswerEntry(v, i)
<1>1. v \in Unit
  BY DEF Good
<1>2. CASE v.tab[i] = Empty \/ ~v.tab[i].complete
  <2>1. w = v
    BY <1>2 DEF AnswerEntry
  <2> QED BY <2>1 DEF Still
<1>3. CASE v.tab[i] # Empty /\ v.tab[i].complete /\ v.tab[i].valid
  <2>1. Good(w, W) /\ Keeps(v, w, {"out", "tab"})
    BY <1>3, AnswerLineOK
  <2> HIDE DEF w
  <2>2. Still(v, w)
    BY <1>1, <2>1, StillKept
  <2> QED BY <2>1, <2>2 DEF w
<1>4. CASE v.tab[i] # Empty /\ v.tab[i].complete /\ ~v.tab[i].valid
  <2>1. Good(w, W) /\ Keeps(v, w, {"out", "post"})
    BY <1>4, AnswerSlotsOK
  <2> HIDE DEF w
  <2>2. Still(v, w)
    BY <1>1, <2>1, StillKept
  <2> QED BY <2>1, <2>2 DEF w
<1> QED BY <1>2, <1>3, <1>4

(* All lines of the table.                                                  *)
LEMMA AllAnswered ==
  ASSUME NEW v, NEW W, Good(v, W)
  PROVE  Good(Each(AnswerEntry, v, TabLines), W) /\ Still(v, Each(AnswerEntry, v, TabLines))
<1> DEFINE N == TabLines
           V == [k \in 0 .. N |-> {x \in Unit : Good(x, W) /\ Still(v, x)}]
           G == [k \in 1 .. N |-> [x \in V[k-1] |-> AnswerEntry(x, k)]]
           Satisfies(f) == f = [i \in 0 .. N |-> IF i = 0 THEN v ELSE AnswerEntry(f[i-1], i)]
           after == CHOOSE f : Satisfies(f)
<1>1. v \in Unit /\ N \in Nat /\ \A k \in 1 .. N : k \in 0 .. N /\ k - 1 \in 0 .. N
  BY Sizes DEF Good
<1>2. v \in V[0]
  BY <1>1 DEF Still
<1>3. ASSUME NEW k \in 1 .. N, NEW x \in V[k-1] PROVE AnswerEntry(x, k) \in V[k]
  <2>1. k \in 0 .. N /\ k - 1 \in 0 .. N
    BY <1>1
  <2>2. Good(x, W) /\ Still(v, x) /\ x \in Unit
    BY <2>1
  <2> DEFINE y == AnswerEntry(x, k)
  <2> HIDE DEF y
  <2>3. Good(y, W) /\ Still(x, y)
    BY <2>2, AnswerEntryOK DEF y
  <2>4. y \in Unit /\ Still(v, y)
    BY <2>2, <2>3 DEF Good, Still
  <2> QED BY <2>1, <2>3, <2>4 DEF y
<1> HIDE DEF V
<1>4. PICK h \in [0 .. N -> UNION {V[k] : k \in 0 .. N}] :
        Chain(h, N, v, G) /\ \A k \in 0 .. N : h[k] \in V[k]
  <2>1. \A k \in 1 .. N : \A x \in V[k-1] : G[k][x] \in V[k]
    BY <1>3
  <2> HIDE DEF G
  <2> QED BY <1>1, <1>2, <2>1, Chained
<1>5. Satisfies(h)
  <2>1. ASSUME NEW k \in 0 .. N, k # 0 PROVE h[k] = AnswerEntry(h[k-1], k)
    <3>1. k \in 1 .. N /\ k - 1 \in 0 .. N
      BY <1>1, <2>1
    <3> QED BY <1>4, <3>1 DEF Chain
  <2>2. h[0] = v
    BY <1>4 DEF Chain
  <2> QED BY <2>1, <2>2
<1>6. Satisfies(after)
  <2> HIDE DEF Satisfies
  <2> QED BY <1>5
<1>7. Each(AnswerEntry, v, TabLines) = after[N]
  BY DEF Each
<1> HIDE DEF after
<1>8. after[N] \in V[N]
  <2>1. after[0] = v
    BY <1>1, <1>6
  <2>2. \A k \in 1 .. N : after[k-1] \in V[k-1] => after[k] \in V[k]
    <3> SUFFICES ASSUME NEW k \in 1 .. N, after[k-1] \in V[k-1] PROVE after[k] \in V[k]
      OBVIOUS
    <3>1. k \in 0 .. N /\ k # 0
      BY <1>1
    <3>2. after[k] = AnswerEntry(after[k-1], k)
      BY <1>6, <3>1
    <3> QED BY <1>3, <3>2
  <2> HIDE DEF Satisfies, N
  <2> QED BY <1>1, <1>2, <2>1, <2>2, Followed
<1>9. after[N] \in Unit /\ Good(after[N], W) /\ Still(v, after[N])
  <2>1. N \in 0 .. N
    BY <1>1
  <2> QED BY <1>8, <2>1 DEF V
<1> QED BY <1>7, <1>9

(* All lines that are done.                                                 *)
LEMMA AllFreed ==
  ASSUME NEW v, NEW W, Good(v, W)
  PROVE  Good(Each(FreeEntry, v, TabLines), W) /\ Still(v, Each(FreeEntry, v, TabLines))
<1> DEFINE N == TabLines
           V == [k \in 0 .. N |-> {x \in Unit : Good(x, W) /\ Still(v, x)}]
           G == [k \in 1 .. N |-> [x \in V[k-1] |-> FreeEntry(x, k)]]
           Satisfies(f) == f = [i \in 0 .. N |-> IF i = 0 THEN v ELSE FreeEntry(f[i-1], i)]
           after == CHOOSE f : Satisfies(f)
<1>1. v \in Unit /\ N \in Nat /\ \A k \in 1 .. N : k \in 0 .. N /\ k - 1 \in 0 .. N
  BY Sizes DEF Good
<1>2. v \in V[0]
  BY <1>1 DEF Still
<1>3. ASSUME NEW k \in 1 .. N, NEW x \in V[k-1] PROVE FreeEntry(x, k) \in V[k]
  <2>1. k \in 0 .. N /\ k - 1 \in 0 .. N
    BY <1>1
  <2>2. Good(x, W) /\ Still(v, x) /\ x \in Unit
    BY <2>1
  <2> DEFINE y == FreeEntry(x, k)
  <2> HIDE DEF y
  <2>3. Good(y, W) /\ Still(x, y)
    <3>1. Good(y, W) /\ Keeps(x, y, {"tab", "poped"})
      BY <2>2, FreeEntryOK DEF y
    <3> QED BY <2>2, <3>1, StillKept
  <2>4. y \in Unit /\ Still(v, y)
    BY <2>2, <2>3 DEF Good, Still
  <2> QED BY <2>1, <2>3, <2>4 DEF y
<1> HIDE DEF V
<1>4. PICK h \in [0 .. N -> UNION {V[k] : k \in 0 .. N}] :
        Chain(h, N, v, G) /\ \A k \in 0 .. N : h[k] \in V[k]
  <2>1. \A k \in 1 .. N : \A x \in V[k-1] : G[k][x] \in V[k]
    BY <1>3
  <2> HIDE DEF G
  <2> QED BY <1>1, <1>2, <2>1, Chained
<1>5. Satisfies(h)
  <2>1. ASSUME NEW k \in 0 .. N, k # 0 PROVE h[k] = FreeEntry(h[k-1], k)
    <3>1. k \in 1 .. N /\ k - 1 \in 0 .. N
      BY <1>1, <2>1
    <3> QED BY <1>4, <3>1 DEF Chain
  <2>2. h[0] = v
    BY <1>4 DEF Chain
  <2> QED BY <2>1, <2>2
<1>6. Satisfies(after)
  <2> HIDE DEF Satisfies
  <2> QED BY <1>5
<1>7. Each(FreeEntry, v, TabLines) = after[N]
  BY DEF Each
<1> HIDE DEF after
<1>8. after[N] \in V[N]
  <2>1. after[0] = v
    BY <1>1, <1>6
  <2>2. \A k \in 1 .. N : after[k-1] \in V[k-1] => after[k] \in V[k]
    <3> SUFFICES ASSUME NEW k \in 1 .. N, after[k-1] \in V[k-1] PROVE after[k] \in V[k]
      OBVIOUS
    <3>1. k \in 0 .. N /\ k # 0
      BY <1>1
    <3>2. after[k] = FreeEntry(after[k-1], k)
      BY <1>6, <3>1
    <3> QED BY <1>3, <3>2
  <2> HIDE DEF Satisfies, N
  <2> QED BY <1>1, <1>2, <2>1, <2>2, Followed
<1>9. after[N] \in Unit /\ Good(after[N], W) /\ Still(v, after[N])
  <2>1. N \in 0 .. N
    BY <1>1
  <2> QED BY <1>8, <2>1 DEF V
<1> QED BY <1>7, <1>9

(* The miss table in one cycle.                                             *)
LEMMA MshrReturnOK ==
  ASSUME NEW v, NEW W, Good(v, W)
  PROVE  Good(MshrReturn(v), W) /\ Still(v, MshrReturn(v))
<1> DEFINE answered == Each(AnswerEntry, v, TabLines)
           freed == Each(FreeEntry, answered, TabLines)
           idle == (\A i \in 1 .. TabLines : freed.tab[i] = Empty) /\ answered.out = v.out
           m == IF idle THEN 0 ELSE 1
           w == [freed EXCEPT !.mshr = m]
<1>1. v.mshr # 0 => MshrReturn(v) = w
  BY DEF MshrReturn
<1>2. Good(answered, W) /\ Still(v, answered)
  BY AllAnswered
<1> HIDE DEF answered
<1>3. Good(freed, W) /\ Still(answered, freed)
  BY <1>2, AllFreed
<1>4. m \in 0 .. 1
  OBVIOUS
<1> HIDE DEF freed, m
<1>5. freed \in Unit /\ Fit(freed, W) /\ Counted(freed)
  BY <1>3 DEF Good, Fit
<1>6. w \in Unit
  BY <1>4, <1>5 DEF Unit
<1>7. Keeps(freed, w, {"mshr"})
  BY DEF Keeps
<1> HIDE DEF w
<1>8. Fit(w, W)
  <2>1. BusOK(w) /\ CacheOK(w.cache)
    BY <1>5, <1>7, SoundKept DEF Fit
  <2> QED BY <1>5, <1>6, <1>7, <2>1, FitKept DEF Aside
<1>9. Counted(w)
  BY <1>5, <1>7, CountedKept
<1>10. Still(v, w)
  <2>1. Still(freed, w)
    BY <1>5, <1>7, StillKept
  <2> QED BY <1>2, <1>3, <2>1 DEF Still
<1>11. CASE v.mshr = 0
  BY <1>11 DEF MshrReturn, Still
<1>12. CASE v.mshr # 0
  BY <1>1, <1>8, <1>9, <1>10, <1>12, GoodIs
<1> QED BY <1>11, <1>12

(* What is known of the front of a FIFO when it is taken.                   *)
FrontTaken(v, W, b, x, line) ==
  /\ Good(x, W \ LineItems(line)) /\ Keeps(v, x, {"fifo"}) /\ x.fifo[b] = Tail(v.fifo[b])
  /\ line \in Line /\ ~line.complete /\ OneTag(line)
  /\ LineItems(line) \cap (W \ LineItems(line)) = {}
  /\ (W \ LineItems(line)) \cup LineItems(line) = W

(* The requests of a FIFO are those of its front and of its tail.           *)
LEMMA FifoItems ==
  ASSUME NEW v, NEW W, Good(v, W), NEW b \in Bank, v.fifo[b] # <<>>
  PROVE  FrontTaken(v, W, b, Pop(v, b), Head(v.fifo[b]))
<1> DEFINE w == Pop(v, b)
           line == Head(v.fifo[b])
<1>1. v \in Unit /\ Fit(v, W) /\ Counted(v)
  BY DEF Good, Fit
<1>2. /\ Fit(w, W \ LineItems(line)) /\ Keeps(v, w, {"fifo"}) /\ w.fifo[b] = Tail(v.fifo[b])
      /\ line \in Line /\ ~line.complete /\ OneTag(line) /\ LineItems(line) \subseteq W
  BY <1>1, FifoTaken
<1> HIDE DEF w, line
<1>3. Counted(w)
  BY <1>1, <1>2, CountedKept
<1>4. (W \ LineItems(line)) \cup LineItems(line) = W /\ LineItems(line) \cap (W \ LineItems(line)) = {}
  BY <1>2
<1> QED BY <1>2, <1>3, <1>4, GoodIs DEF w, line, FrontTaken

(* The front goes to the end.                                               *)
LEMMA RotateOK ==
  ASSUME NEW v, NEW W, Good(v, W), NEW b \in Bank, v.fifo[b] # <<>>
  PROVE  Good(Rotate(v, b), W) /\ Keeps(v, Rotate(v, b), {"fifo"})
<1> DEFINE x == Pop(v, b)
           line == Head(v.fifo[b])
           w == Rotate(v, b)
           y == WithFifo(x, b, Append(x.fifo[b], line))
<1>1. v \in Unit
  BY DEF Good
<1>2. /\ Good(x, W \ LineItems(line)) /\ Keeps(v, x, {"fifo"}) /\ x.fifo[b] = Tail(v.fifo[b])
      /\ line \in Line /\ ~line.complete /\ OneTag(line)
      /\ LineItems(line) \cap (W \ LineItems(line)) = {}
      /\ (W \ LineItems(line)) \cup LineItems(line) = W
  <2>1. FrontTaken(v, W, b, x, line)
    BY FifoItems
  <2> HIDE DEF w, x, y, line
  <2> QED BY <2>1 DEF FrontTaken
<1>3. x \in Unit /\ Fit(x, W \ LineItems(line)) /\ Counted(x)
  BY <1>2 DEF Good, Fit
<1>4. w = y
  <2>1. w.fifo = y.fifo
    <3>1. v.fifo \in [Bank -> Seq(Line)] /\ x.fifo = [v.fifo EXCEPT ![b] = Tail(v.fifo[b])]
      BY <1>1, UnitFields DEF Pop, Fields
    <3>2. w.fifo = [v.fifo EXCEPT ![b] = Append(Tail(v.fifo[b]), line)]
      BY <1>1, UnitFields DEF Rotate, Fields
    <3>3. y.fifo = [x.fifo EXCEPT ![b] = Append(Tail(v.fifo[b]), line)]
      BY <1>2, <1>3, UnitFields DEF WithFifo, Fields
    <3> HIDE DEF w, x, y, line
    <3> QED BY <3>1, <3>2, <3>3
  <2> QED BY <2>1 DEF Rotate, Pop, WithFifo
<1> HIDE DEF x, line, w
<1>5. Fit(y, (W \ LineItems(line)) \cup LineItems(line)) /\ Keeps(x, y, {"fifo"})
  BY <1>2, <1>3, FifoPut
<1> HIDE DEF y
<1>6. Counted(y)
  BY <1>3, <1>5, CountedKept
<1>7. Keeps(v, y, {"fifo"})
  BY <1>2, <1>5 DEF Keeps
<1> QED BY <1>2, <1>4, <1>5, <1>6, <1>7, GoodIs DEF w

(* A request goes to the cache.                                             *)
LEMMA ToCacheOK ==
  ASSUME NEW v, NEW W, Good(v, W), NEW b \in Bank, v.fifo[b] # <<>>
  PROVE  Good(ToCache(v, b), W) /\ Keeps(v, ToCache(v, b), {"fifo", "reg", "asked"})
<1> DEFINE x == Pop(v, b)
           line == Head(v.fifo[b])
           y == WithReg(x, b, line)
           a == [y.asked EXCEPT ![b] = TRUE]
           w == ToCache(v, b)
<1>1. v \in Unit
  BY DEF Good
<1>2. CASE ~RegFree(v, b)
  BY <1>2 DEF ToCache, Keeps
<1> SUFFICES ASSUME RegFree(v, b)
             PROVE  Good(w, W) /\ Keeps(v, w, {"fifo", "reg", "asked"})
  BY <1>2
<1>3. /\ Good(x, W \ LineItems(line)) /\ Keeps(v, x, {"fifo"})
      /\ line \in Line /\ ~line.complete /\ OneTag(line)
      /\ LineItems(line) \cap (W \ LineItems(line)) = {}
      /\ (W \ LineItems(line)) \cup LineItems(line) = W
  <2>1. FrontTaken(v, W, b, x, line)
    BY FifoItems
  <2> HIDE DEF w, x, y, line
  <2> QED BY <2>1 DEF FrontTaken
<1>4. w = [y EXCEPT !.asked = a]
  BY DEF ToCache, WithReg
<1> HIDE DEF x, line, w
<1>5. x \in Unit /\ Fit(x, W \ LineItems(line)) /\ Counted(x)
  BY <1>3 DEF Good, Fit
<1>6. x.reg[b] = Empty /\ RegLine(x.asked[b], line) /\ line # Empty
  <2>1. x.reg = v.reg /\ x.asked = v.asked
    BY <1>1, <1>3, Kept
  <2> QED BY <1>3, <2>1, NoneIs DEF RegFree, RegLine
<1>7. Fit(y, (W \ LineItems(line)) \cup LineItems(line))
  BY <1>3, <1>5, <1>6, RegPut
<1>8. y \in Unit /\ Keeps(x, y, {"reg"}) /\ y.reg[b] = line
  BY <1>3, <1>5, WithRegIs
<1> HIDE DEF y
<1>9. a \in [Bank -> BOOLEAN] /\ \A k \in Bank : k # b => a[k] = y.asked[k]
  BY <1>8, UnitFields
<1> HIDE DEF a
<1>10. w \in Unit
  BY <1>4, <1>8, <1>9 DEF Unit
<1>11. w.asked = a /\ Keeps(y, w, {"asked"})
  BY <1>4, <1>8, UnitFields DEF Keeps, Fields
<1>12. Fit(w, W)
  <2>1. Sound(y) /\ Split(y, W)
    BY <1>3, <1>7 DEF Fit
  <2>2. w.reg = y.reg
    BY <1>8, <1>11, Kept
  <2>3. RegOK(w)
    <3>1. ASSUME NEW k \in Bank
          PROVE  /\ w.reg[k] # Empty => (w.reg[k].complete => ~w.reg[k].wr) /\ OneTag(w.reg[k])
                 /\ w.asked[k] => w.reg[k] # Empty /\ ~w.reg[k].complete
      <4>1. CASE k = b
        BY <1>3, <1>6, <1>8, <2>2, <4>1
      <4>2. CASE k # b
        BY <1>9, <1>11, <2>1, <2>2, <4>2 DEF Sound, RegOK
      <4> QED BY <4>1, <4>2
    <3> QED BY <3>1 DEF RegOK
  <2>4. Sound(w)
    BY <1>8, <1>11, <2>1, <2>3, SoundKept DEF Sound
  <2>5. Keeps(y, w, Aside)
    BY <1>11 DEF Keeps, Aside
  <2>6. Split(w, W)
    BY <1>8, <2>1, <2>5, NothingMoved
  <2> QED BY <1>10, <2>4, <2>6 DEF Fit
<1>13. Keeps(v, w, {"fifo", "reg", "asked"})
  BY <1>3, <1>8, <1>11 DEF Keeps
<1>14. Counted(w)
  <2>1. Counted(v)
    BY DEF Good
  <2> QED BY <1>1, <1>13, <2>1, CountedKept
<1> QED BY <1>12, <1>13, <1>14, GoodIs DEF w

(* The first slot of a set, line by line.                                   *)
LEMMA FirstSlotIs ==
  ASSUME NEW free, free \subseteq (1 .. TabLines) \X Slot, free # {}
  PROVE  FirstSlot(free) \in free
<1> DEFINE A == {s[1] : s \in free}
<1>1. A \subseteq Nat /\ A # {}
  OBVIOUS
<1> HIDE DEF A
<1>2. PICK i \in A : \A j \in A : i <= j
  BY <1>1, LeastElement
<1> DEFINE B == {k \in Slot : <<i, k>> \in free}
<1>3. B \subseteq Nat /\ B # {}
  <2>1. PICK s \in free : s[1] = i
    BY <1>2 DEF A
  <2>2. s = <<s[1], s[2]>> /\ s[2] \in Slot
    OBVIOUS
  <2> QED BY <2>1, <2>2 DEF Slot
<1> HIDE DEF B
<1>4. PICK k \in B : \A l \in B : k <= l
  BY <1>3, LeastElement
<1>5. <<i, k>> \in free
  BY <1>4 DEF B
<1>6. ASSUME NEW r \in free PROVE i < r[1] \/ (i = r[1] /\ k <= r[2])
  <2>1. r[1] \in A /\ r[1] \in Nat /\ i \in Nat
    BY <1>1, <1>2 DEF A
  <2>2. CASE r[1] = i
    <3>1. r[2] \in Slot /\ r = <<i, r[2]>>
      BY <2>2
    <3>2. r[2] \in B
      BY <3>1 DEF B
    <3> QED BY <1>4, <2>2, <3>2
  <2>3. CASE r[1] # i
    BY <1>2, <2>1, <2>3
  <2> QED BY <2>2, <2>3
<1>7. \A r \in free : LET s == <<i, k>> IN s[1] < r[1] \/ (s[1] = r[1] /\ s[2] <= r[2])
  BY <1>6
<1> QED BY <1>5, <1>7 DEF FirstSlot

(* A request waits for a block that is being fetched.                       *)
LEMMA ReserveOK ==
  ASSUME NEW v, NEW W, Good(v, W), NEW b \in Bank, v.fifo[b] # <<>>, ~Head(v.fifo[b]).wr
  PROVE  Good(Reserve(v, b), W) /\ Keeps(v, Reserve(v, b), {"fifo", "post"})
<1> DEFINE x == Pop(v, b)
           line == Head(v.fifo[b])
           free == FreeSlots(v, line.block)
           s == FirstSlot(free)
           i == s[1]
           k == s[2]
           y == WithPost(x, i, k, line.off)
           w == Reserve(v, b)
<1>1. v \in Unit
  BY DEF Good
<1>2. CASE free = {}
  <2>1. w = Rotate(v, b)
    BY <1>2 DEF Reserve
  <2>2. Good(w, W) /\ Keeps(v, w, {"fifo"})
    BY <2>1, RotateOK
  <2>3. Keeps(v, w, {"fifo", "post"})
    BY <2>2 DEF Keeps
  <2> QED BY <2>2, <2>3
<1>3. CASE free # {}
  <2>1. w = y
    BY <1>3 DEF Reserve, WithPost
  <2>2. /\ i \in 1 .. TabLines /\ k \in Slot /\ v.tab[i] # Empty
        /\ v.tab[i].block = line.block /\ v.post[i][k] = Empty
    <3>1. s \in free
      <4>1. free \subseteq (1 .. TabLines) \X Slot
        BY DEF FreeSlots
      <4> HIDE DEF free
      <4> QED BY <1>3, <4>1, FirstSlotIs
    <3> QED BY <3>1 DEF FreeSlots
  <2> HIDE DEF w, y, x, line, i, k
  <2>3. /\ Good(x, W \ LineItems(line)) /\ Keeps(v, x, {"fifo"})
        /\ line \in Line /\ LineItems(line) \cap (W \ LineItems(line)) = {}
        /\ (W \ LineItems(line)) \cup LineItems(line) = W
    <3>1. FrontTaken(v, W, b, x, line)
      BY FifoItems DEF x, line
    <3> QED BY <3>1 DEF FrontTaken
  <2>4. x \in Unit /\ Fit(x, W \ LineItems(line)) /\ Counted(x) /\ x.tab = v.tab /\ x.post = v.post
    BY <1>1, <2>3, Kept DEF Good, Fit
  <2>5. line.off \in Offsets /\ line # Empty /\ ~line.wr
    BY <2>3, NoneIs DEF Line, line
  <2>6. LineItems(line) = Items(x.tab[i].block, line.off)
    BY <2>2, <2>4, <2>5 DEF LineItems
  <2>7. Fit(y, W)
    <3>1. Fit(y, (W \ LineItems(line)) \cup Items(x.tab[i].block, line.off))
      <4>1. Items(x.tab[i].block, line.off) \cap (W \ LineItems(line)) = {}
        BY <2>3, <2>6
      <4> QED BY <2>2, <2>4, <2>5, <4>1, PostPut DEF y
    <3> QED BY <2>3, <2>6, <3>1
  <2>8. Keeps(x, y, {"post"})
    BY <2>2, <2>4, <2>5, WithPostIs DEF y
  <2>9. Counted(y)
    BY <2>4, <2>8, CountedKept
  <2>10. Keeps(v, y, {"fifo", "post"})
    BY <2>3, <2>8 DEF Keeps
  <2> QED BY <2>1, <2>7, <2>9, <2>10, GoodIs DEF w
<1> QED BY <1>2, <1>3

(* The front takes a line past the cache.                                   *)
LEMMA BypassOK ==
  ASSUME NEW v, NEW W, Good(v, W), NEW b \in Bank, v.fifo[b] # <<>>, ~Head(v.fifo[b]).wr
  PROVE  Good(Bypass(v, b), W) /\ Keeps(v, Bypass(v, b), {"fifo", "tab", "bus", "mem", "poped"})
<1> DEFINE x == Pop(v, b)
           line == Head(v.fifo[b])
           i == Min(InvalidLines(v))
           y == Fetched(x, i, line, TRUE)
           w == Bypass(v, b)
<1>1. v \in Unit
  BY DEF Good
<1>2. CASE InvalidLines(v) = {}
  <2>1. w = Rotate(v, b)
    BY <1>2 DEF Bypass
  <2>2. Good(w, W) /\ Keeps(v, w, {"fifo"})
    BY <2>1, RotateOK
  <2>3. Keeps(v, w, {"fifo", "tab", "bus", "mem", "poped"})
    BY <2>2 DEF Keeps
  <2> QED BY <2>2, <2>3
<1>3. CASE InvalidLines(v) # {}
  <2>1. w = y
    BY <1>3 DEF Bypass, Fetched, TakenLine
  <2>2. i \in 1 .. TabLines /\ v.post[i] = NoPosts /\ (v.tab[i] = Empty \/ ~v.tab[i].valid)
    <3>1. i \in InvalidLines(v)
      <4>1. InvalidLines(v) \subseteq Nat
        BY DEF InvalidLines
      <4> QED BY <1>3, <4>1, MinIs
    <3> HIDE DEF i
    <3> QED BY <3>1 DEF InvalidLines
  <2> HIDE DEF w, y, x, line, i
  <2>3. /\ Good(x, W \ LineItems(line)) /\ Keeps(v, x, {"fifo"})
        /\ line \in Line /\ ~line.complete /\ LineItems(line) \cap (W \ LineItems(line)) = {}
        /\ (W \ LineItems(line)) \cup LineItems(line) = W
    <3>1. FrontTaken(v, W, b, x, line)
      BY FifoItems DEF x, line
    <3> QED BY <3>1 DEF FrontTaken
  <2>4. x.tab = v.tab /\ x.post = v.post
    BY <1>1, <2>3, Kept
  <2>5. MayTake(x, W \ LineItems(line), i, line)
    BY <2>2, <2>3, <2>4 DEF MayTake, line
  <2>6. TRUE \in BOOLEAN
    OBVIOUS
  <2>7. Good(y, (W \ LineItems(line)) \cup LineItems(line))
    BY <2>2, <2>3, <2>5, <2>6, FetchLine DEF y
  <2>8. Keeps(x, y, {"tab", "bus", "mem", "poped"})
    BY <2>2, <2>3, <2>5, <2>6, FetchLine DEF y
  <2>9. Keeps(v, y, {"fifo", "tab", "bus", "mem", "poped"})
    BY <2>3, <2>8 DEF Keeps
  <2> QED BY <2>1, <2>3, <2>7, <2>9 DEF w
<1> QED BY <1>2, <1>3

(* The front of a FIFO goes to the cache, a slot or a line, or stays in its *)
(* FIFO.                                                                    *)
LEMMA FromFifoOK ==
  ASSUME NEW v, NEW W, Good(v, W), NEW b \in Bank
  PROVE  Good(FromFifo(v, b), W) /\ Still(v, FromFifo(v, b))
<1> DEFINE w == FromFifo(v, b)
           line == Head(v.fifo[b])
<1>1. v \in Unit
  BY DEF Good
<1>2. /\ v.fifo[b] = <<>> => w = v
      /\ v.fifo[b] # <<>> /\ line.wr => w = ToCache(v, b)
      /\ v.fifo[b] # <<>> /\ ~line.wr /\ SameBlock(v, line.block) => w = Reserve(v, b)
      /\ v.fifo[b] # <<>> /\ ~line.wr /\ ~SameBlock(v, line.block) /\ cfg.rbypass => w = Bypass(v, b)
      /\ v.fifo[b] # <<>> /\ ~line.wr /\ ~SameBlock(v, line.block) /\ ~cfg.rbypass => w = ToCache(v, b)
  BY DEF FromFifo
<1> HIDE DEF w
<1>3. CASE v.fifo[b] = <<>>
  BY <1>2, <1>3 DEF Still, w
<1>4. CASE v.fifo[b] # <<>> /\ w = ToCache(v, b)
  <2>1. Good(w, W) /\ Keeps(v, w, {"fifo", "reg", "asked"})
    BY <1>4, ToCacheOK
  <2> QED BY <1>1, <2>1, StillKept DEF w
<1>5. CASE v.fifo[b] # <<>> /\ ~line.wr /\ w = Reserve(v, b)
  <2>1. Good(w, W) /\ Keeps(v, w, {"fifo", "post"})
    BY <1>5, ReserveOK
  <2> QED BY <1>1, <2>1, StillKept DEF w
<1>6. CASE v.fifo[b] # <<>> /\ ~line.wr /\ w = Bypass(v, b)
  <2>1. Good(w, W) /\ Keeps(v, w, {"fifo", "tab", "bus", "mem", "poped"})
    BY <1>6, BypassOK
  <2> QED BY <1>1, <2>1, StillKept DEF w
<1> HIDE DEF line
<1> QED BY <1>2, <1>3, <1>4, <1>5, <1>6

(* A register keeps what it could not answer.                               *)
LEMMA AnswerRegOK ==
  ASSUME NEW v, NEW W, Good(v, W), NEW b \in Bank
  PROVE  Good(AnswerReg(v, b), W) /\ Still(v, AnswerReg(v, b))
<1> DEFINE line == v.reg[b]
           left == Rest(v, line.off)
           given == Given(v, line.block, line.off)
           more == [line EXCEPT !.off = left]
           x == IF left = NoOffsets THEN Empty ELSE more
           w == AnswerReg(v, b)
<1>1. v \in Unit /\ Fit(v, W) /\ Counted(v) /\ Sound(v)
  BY DEF Good, Fit
<1>2. CASE ~(cfg.stalls /\ line # Empty /\ line.complete)
  BY <1>2 DEF AnswerReg, Still
<1> SUFFICES ASSUME cfg.stalls, line # Empty, line.complete
             PROVE  Good(w, W) /\ Still(v, w)
  BY <1>2
<1>3. line \in Line /\ OneTag(line) /\ ~line.wr /\ ~v.asked[b] /\ LineItems(line) \subseteq W
  <2>1. /\ line \in Line \cup {Empty} /\ RegLine(v.asked[b], line) /\ LineItems(line) \subseteq W
    BY <1>1, RegItems
  <2> QED BY <2>1 DEF RegLine
<1>4. w = AnsweredReg(v, b, line.block, line.off, x)
  BY DEF AnswerReg, AnsweredReg
<1>5. /\ left \in Offsets /\ given \subseteq LineItems(line)
      /\ left = NoOffsets => LineItems(line) = given
  BY <1>3, LeftOf
<1>6. more \in Line /\ more.block = line.block /\ ~more.wr /\ more.off = left /\ more.tag = line.tag
  BY <1>3, <1>5 DEF Line
<1>7. LineItems(more) = LineItems(line) \ given /\ OneTag(more) /\ more # Empty
  <2> HIDE DEF more
  <2> QED BY <1>3, <1>6, LeftOf, NoneIs
<1> HIDE DEF more, left, given, w
<1>8. /\ x \in Line \cup {Empty} /\ RegLine(v.asked[b], x)
      /\ LineItems(x) = LineItems(line) \ given
  <2>1. CASE left = NoOffsets
    BY <1>3, <1>5, <2>1 DEF RegLine, LineItems
  <2>2. CASE left # NoOffsets
    BY <1>3, <1>6, <1>7, <2>2 DEF RegLine
  <2> QED BY <2>1, <2>2
<1> HIDE DEF x
<1>9. Fit(w, (W \ given) \cup given) /\ Keeps(v, w, {"out", "reg"})
  <2>1. given \subseteq LineItems(line) /\ given \subseteq given
    BY <1>5
  <2> QED BY <1>1, <1>3, <1>4, <1>8, <2>1, RegAnswered DEF given
<1>10. (W \ given) \cup given = W
  BY <1>3, <1>5
<1>11. Counted(w)
  BY <1>1, <1>9, CountedKept
<1>12. Still(v, w)
  BY <1>1, <1>9, StillKept
<1> QED BY <1>9, <1>10, <1>11, <1>12, GoodIs DEF w

(* The bank whose turn it is.                                               *)
LEMMA TurnIs ==
  ASSUME NEW k \in Int, NEW i \in Int
  PROVE  (k + i - 1) % Banks \in Bank
  BY Sizes DEF Bank

(* The next round.                                                          *)
LEMMA NextRound ==
  ASSUME NEW v \in Unit
  PROVE  (v.round + 1) % Banks \in 0 .. (Banks - 1)
<1>1. v.round \in 0 .. (Banks - 1) /\ Banks \in Nat /\ Banks > 0
  BY UnitFields, Sizes
<1> QED BY <1>1

(* All banks, from the one whose turn it is.                                *)
LEMMA FifoStageOK ==
  ASSUME NEW v, NEW W, Good(v, W)
  PROVE  Good(FifoStage(v), W) /\ Still(v, FifoStage(v))
<1> DEFINE turn(i) == (v.round + i - 1) % Banks
<1> DEFINE N == Banks
           V == [k \in 0 .. N |-> {x \in Unit : Good(x, W) /\ Still(v, x)}]
           G == [k \in 1 .. N |-> [x \in V[k-1] |-> AnswerReg(FromFifo(x, turn(k)), turn(k))]]
           Satisfies(f) == f = [i \in 0 .. N |-> IF i = 0 THEN v ELSE AnswerReg(FromFifo(f[i-1], turn(i)), turn(i))]
           after == CHOOSE f : Satisfies(f)
           z == [after[N] EXCEPT !.round = (@ + 1) % Banks]
<1>1. v \in Unit /\ N \in Nat /\ \A k \in 1 .. N : turn(k) \in Bank /\ k \in 0 .. N /\ k - 1 \in 0 .. N
  <2>1. v \in Unit /\ N \in Nat
    BY Sizes DEF Good
  <2>2. v.round \in Int
    BY <2>1, UnitFields
  <2>3. \A k \in 1 .. N : turn(k) \in Bank
    BY <2>1, <2>2, TurnIs
  <2> HIDE DEF turn
  <2> QED BY <2>1, <2>3
<1>2. v \in V[0]
  BY <1>1 DEF Still
<1>3. ASSUME NEW k \in 1 .. N, NEW x \in V[k-1] PROVE AnswerReg(FromFifo(x, turn(k)), turn(k)) \in V[k]
  <2>1. k \in 0 .. N /\ k - 1 \in 0 .. N /\ turn(k) \in Bank
    BY <1>1
  <2> HIDE DEF turn
  <2>2. Good(x, W) /\ Still(v, x)
    BY <2>1
  <2> DEFINE y == FromFifo(x, turn(k))
             t == AnswerReg(y, turn(k))
  <2> HIDE DEF y, t
  <2>3. Good(y, W) /\ Still(x, y)
    BY <2>1, <2>2, FromFifoOK DEF y
  <2>4. Good(t, W) /\ Still(y, t)
    BY <2>1, <2>3, AnswerRegOK DEF t
  <2>5. t \in Unit /\ Still(v, t)
    BY <2>2, <2>3, <2>4 DEF Good, Still
  <2> QED BY <2>1, <2>4, <2>5 DEF y, t
<1> HIDE DEF V
<1>4. PICK h \in [0 .. N -> UNION {V[k] : k \in 0 .. N}] :
        Chain(h, N, v, G) /\ \A k \in 0 .. N : h[k] \in V[k]
  <2>1. \A k \in 1 .. N : \A x \in V[k-1] : G[k][x] \in V[k]
    BY <1>3
  <2> HIDE DEF G
  <2> QED BY <1>1, <1>2, <2>1, Chained
<1>5. Satisfies(h)
  <2>1. ASSUME NEW k \in 0 .. N, k # 0 PROVE h[k] = AnswerReg(FromFifo(h[k-1], turn(k)), turn(k))
    <3>1. k \in 1 .. N /\ k - 1 \in 0 .. N
      BY <1>1, <2>1
    <3> QED BY <1>4, <3>1 DEF Chain
  <2>2. h[0] = v
    BY <1>4 DEF Chain
  <2> QED BY <2>1, <2>2
<1>6. Satisfies(after)
  <2> HIDE DEF Satisfies
  <2> QED BY <1>5
<1>7. FifoStage(v) = z
  BY DEF FifoStage, Each
<1> HIDE DEF after
<1>8. after[N] \in V[N]
  <2>1. after[0] = v
    BY <1>1, <1>6
  <2>2. \A k \in 1 .. N : after[k-1] \in V[k-1] => after[k] \in V[k]
    <3> SUFFICES ASSUME NEW k \in 1 .. N, after[k-1] \in V[k-1] PROVE after[k] \in V[k]
      OBVIOUS
    <3>1. k \in 0 .. N /\ k # 0
      BY <1>1
    <3>2. after[k] = AnswerReg(FromFifo(after[k-1], turn(k)), turn(k))
      BY <1>6, <3>1
    <3> QED BY <1>3, <3>2
  <2> HIDE DEF Satisfies, N
  <2> QED BY <1>1, <1>2, <2>1, <2>2, Followed
<1>9. after[N] \in Unit /\ Good(after[N], W) /\ Still(v, after[N])
  <2>1. N \in 0 .. N
    BY <1>1
  <2> QED BY <1>8, <2>1 DEF V
<1> DEFINE a == after[N]
<1>10. z = [a EXCEPT !.round = (a.round + 1) % Banks]
  OBVIOUS
<1> HIDE DEF a, z
<1>11. Good(a, W) /\ Still(v, a) /\ a \in Unit /\ Fit(a, W) /\ Counted(a)
  BY <1>9 DEF a, Good, Fit
<1>12. (a.round + 1) % Banks \in 0 .. (Banks - 1)
  BY <1>11, NextRound
<1>13. z \in Unit
  BY <1>10, <1>11, <1>12 DEF Unit
<1>14. Keeps(a, z, {"round"})
  BY <1>10 DEF Keeps
<1>15. Fit(z, W)
  <2>1. BusOK(z) /\ CacheOK(z.cache)
    BY <1>11, <1>14, SoundKept DEF Fit
  <2> QED BY <1>11, <1>13, <1>14, <2>1, FitKept DEF Aside
<1>16. Counted(z) /\ Still(a, z)
  BY <1>11, <1>14, CountedKept, StillKept
<1>17. Still(v, z)
  BY <1>11, <1>16 DEF Still
<1> QED BY <1>7, <1>15, <1>16, <1>17, GoodIs

(* There is a first shortest FIFO.                                          *)
LEMMA SeekBankIs ==
  ASSUME NEW v \in Unit
  PROVE  SeekBank(v) \in Bank
<1> DEFINE k == [b \in Bank |-> Len(v.fifo[b])]
           T == {k[b] : b \in Bank}
<1>1. T \subseteq Nat /\ T # {} /\ Bank \subseteq Nat
  <2>1. 0 \in Bank /\ Banks \in Nat /\ Bank \subseteq Nat
    BY Sizes DEF Bank
  <2>2. \A b \in Bank : k[b] \in Nat
    <3>1. ASSUME NEW b \in Bank PROVE Len(v.fifo[b]) \in Nat
      <4>1. v.fifo[b] \in Seq(Line)
        BY UnitFields
      <4> QED BY <4>1, LenProperties
    <3> QED BY <3>1
  <2> HIDE DEF k
  <2>3. T \subseteq Nat /\ T # {}
    BY <2>1, <2>2
  <2> QED BY <2>1, <2>3
<1>2. \A b \in Bank : k[b] \in T
  OBVIOUS
<1>3. \A n \in T : \E b \in Bank : k[b] = n
  OBVIOUS
<1> HIDE DEF T
<1>4. PICK n \in T : \A m \in T : n <= m
  BY <1>1, LeastElement
<1> HIDE DEF k
<1> DEFINE M == {b \in Bank : k[b] = n}
<1>5. M \subseteq Nat /\ M # {}
  BY <1>1, <1>3
<1>6. \A b \in M : b \in Bank /\ k[b] = n
  OBVIOUS
<1>7. \A b \in Bank : k[b] = n => b \in M
  OBVIOUS
<1> HIDE DEF M
<1>8. PICK b \in M : \A d \in M : b <= d
  BY <1>5, LeastElement
<1>9. \A d \in Bank : n <= k[d]
  BY <1>1, <1>2, <1>4
<1>10. b \in Bank /\ \A d \in Bank : k[b] <= k[d] /\ (k[b] = k[d] => b <= d)
  BY <1>6, <1>7, <1>8, <1>9
<1>11. \A d \in Bank : k[d] = Len(v.fifo[d])
  BY DEF k
<1>12. \A d \in Bank : Len(v.fifo[b]) <= Len(v.fifo[d]) /\ (Len(v.fifo[b]) = Len(v.fifo[d]) => b <= d)
  BY <1>10, <1>11
<1> QED BY <1>10, <1>12 DEF SeekBank

(* A block has a bank.                                                      *)
LEMMA BankForIs ==
  ASSUME NEW v \in Unit, NEW block \in Blocks
  PROVE  BankFor(v, block) \in Bank
<1>1. block % Banks \in Bank
  <2>1. block \in Nat /\ Banks \in Nat /\ Banks > 0
    BY Sizes
  <2> QED BY <2>1 DEF Bank
<1> QED BY <1>1, SeekBankIs DEF BankFor, C!BankOf

(* The requests of the arbiter lines of some elements.                      *)
Orders(v, E) == UNION {OrderItems(e, v.arb[e]) : e \in E}

(* returnACK empties the arbiter lines of the elements.                     *)
LEMMA AckedIs ==
  ASSUME NEW v \in Unit, NEW E
  PROVE  /\ Acked(v, E) \in Unit /\ Keeps(v, Acked(v, E), {"arb"})
         /\ \A e \in Lane : Acked(v, E).arb[e] = IF e \in E THEN Empty ELSE v.arb[e]
<1> DEFINE w == Acked(v, E)
           r == [e \in Lane |-> IF e \in E THEN Empty ELSE v.arb[e]]
<1>1. r \in [Lane -> Ordered \cup {Empty}]
  <2>1. v.arb \in [Lane -> Ordered \cup {Empty}]
    BY UnitFields
  <2> QED BY <2>1
<1>2. w = [v EXCEPT !.arb = r]
  BY DEF Acked
<1>3. \A e \in Lane : r[e] = IF e \in E THEN Empty ELSE v.arb[e]
  OBVIOUS
<1> HIDE DEF w, r
<1>4. w \in Unit
  BY <1>1, <1>2 DEF Unit
<1>5. w.arb = r /\ Keeps(v, w, {"arb"})
  BY <1>2, UnitFields DEF Keeps, Fields
<1> QED BY <1>3, <1>4, <1>5 DEF w

(* The requests of the acknowledged lines are out of the unit.              *)
LEMMA AckedOK ==
  ASSUME NEW v, NEW W, Fit(v, W), NEW E, E \subseteq Lane
  PROVE  Fit(Acked(v, E), W \ Orders(v, E)) /\ Orders(v, E) \subseteq W
<1> DEFINE w == Acked(v, E)
           M == Orders(v, E)
<1>1. v \in Unit /\ Sound(v) /\ Split(v, W)
  BY DEF Fit
<1>2. /\ w \in Unit /\ Keeps(v, w, {"arb"})
      /\ \A e \in Lane : w.arb[e] = IF e \in E THEN Empty ELSE v.arb[e]
  BY <1>1, AckedIs
<1> HIDE DEF w
<1>3. /\ w.out = v.out /\ w.fifo = v.fifo /\ w.reg = v.reg /\ w.pend = v.pend
      /\ w.tab = v.tab /\ w.post = v.post
  BY <1>1, <1>2, Kept
<1> DEFINE Gone == {<<"arb", e, 0>> : e \in E}
<1>4. Gone \subseteq Place
  BY DEF Place
<1>5. \A e : Box(v, <<"arb", e, 0>>) = OrderItems(e, v.arb[e])
  BY DEF Box
<1>6. ASSUME NEW p \in Gone PROVE Box(w, p) = {} /\ Box(v, p) \subseteq M
  <2>1. PICK e \in E : p = <<"arb", e, 0>>
    OBVIOUS
  <2>2. w.arb[e] = Empty
    BY <1>2
  <2>3. Box(w, p) = {}
    BY <2>1, <2>2 DEF Box, OrderItems
  <2> QED BY <1>5, <2>1, <2>3 DEF Orders
<1>7. ASSUME NEW p \in Place, p \notin Gone PROVE Box(w, p) = Box(v, p)
  <2>1. CASE p[1] = "arb"
    <3>1. PICK e \in Lane : p = <<"arb", e, 0>>
      BY <2>1 DEF Place
    <3>2. e \notin E
      BY <1>7, <3>1
    <3>3. w.arb[e] = v.arb[e]
      BY <1>2, <3>2
    <3> QED BY <3>1, <3>3 DEF Box
  <2>2. CASE p[1] # "arb"
    BY <1>3, <2>2 DEF Place, Box, TabItems, PostItems
  <2> QED BY <2>1, <2>2
<1>8. \A x \in M : \E p \in Gone : x \in Box(v, p)
  <2>1. ASSUME NEW x \in M PROVE \E p \in Gone : x \in Box(v, p)
    <3>1. PICK e \in E : x \in OrderItems(e, v.arb[e])
      BY DEF Orders
    <3> QED BY <1>5, <3>1
  <2> QED BY <2>1
<1> HIDE DEF M, Gone
<1>9. M \subseteq W
  BY <1>1, <1>4, <1>8 DEF Split
<1>10. Split(w, W \ M)
  <2>1. ASSUME NEW p \in Place PROVE Box(w, p) \subseteq W \ M
    <3>1. CASE p \in Gone
      BY <1>6, <3>1
    <3>2. CASE p \notin Gone
      <4>1. Box(v, p) \cap M = {}
        BY <1>1, <1>4, <1>8, <3>2 DEF Split
      <4> QED BY <1>1, <1>7, <3>2, <4>1 DEF Split
    <3> QED BY <3>1, <3>2
  <2>2. ASSUME NEW x \in W \ M PROVE \E p \in Place : x \in Box(w, p)
    <3>1. PICK p \in Place : x \in Box(v, p)
      BY <1>1 DEF Split
    <3>2. p \notin Gone
      BY <1>6, <3>1
    <3> QED BY <1>7, <3>1, <3>2
  <2>3. ASSUME NEW p \in Place, NEW q \in Place, p # q PROVE Box(w, p) \cap Box(w, q) = {}
    <3>1. Box(v, p) \cap Box(v, q) = {}
      BY <1>1, <2>3 DEF Split
    <3>2. Box(w, p) \subseteq Box(v, p) /\ Box(w, q) \subseteq Box(v, q)
      BY <1>6, <1>7
    <3> QED BY <3>1, <3>2
  <2>4. Apart(w.pend) /\ \A b \in Bank : Apart(w.fifo[b])
    BY <1>1, <1>3 DEF Split
  <2> QED BY <2>1, <2>2, <2>3, <2>4 DEF Split
<1>11. Sound(w)
  BY <1>1, <1>2, SoundKept DEF Sound
<1> QED BY <1>2, <1>9, <1>10, <1>11 DEF Fit, w, M

(* Any line goes into a FIFO.                                               *)
LEMMA PushOK ==
  ASSUME NEW v, NEW W, Fit(v, W), NEW line \in Line, ~line.complete, OneTag(line),
         LineItems(line) \cap W = {}
  PROVE  Fit(Push(v, line), W \cup LineItems(line)) /\ Keeps(v, Push(v, line), {"fifo"})
<1> DEFINE b == BankFor(v, line.block)
           w == WithFifo(v, b, Append(v.fifo[b], line))
<1>1. v \in Unit
  BY DEF Fit
<1>2. line.block \in Blocks
  BY DEF Line
<1>3. b \in Bank
  BY <1>1, <1>2, BankForIs
<1>4. Push(v, line) = w
  BY DEF Push, WithFifo
<1> HIDE DEF b
<1>5. Fit(w, W \cup LineItems(line)) /\ Keeps(v, w, {"fifo"})
  BY <1>3, FifoPut
<1> HIDE DEF w
<1> QED BY <1>4, <1>5

(* Two units with the same fields are the same.                             *)
LEMMA SameUnit ==
  ASSUME NEW v \in Unit, NEW w \in Unit, \A f \in Fields : v[f] = w[f]
  PROVE  v = w
<1>1. DOMAIN v = Fields /\ DOMAIN w = Fields
  BY UnitFields
<1>2. v = [f \in DOMAIN v |-> v[f]] /\ w = [f \in DOMAIN w |-> w[f]]
  BY DEF Unit
<1> QED BY <1>1, <1>2

(* An acknowledge and a push in either order.                               *)
LEMMA AckedPushed ==
  ASSUME NEW v \in Unit, NEW E, NEW line \in Line
  PROVE  Acked(Push(v, line), E) = Push(Acked(v, E), line)
<1> DEFINE y == Acked(v, E)
           z == Push(y, line)
           p == Push(v, line)
           w == Acked(p, E)
           b == BankFor(v, line.block)
           s == Append(v.fifo[b], line)
<1>1. line.block \in Blocks
  BY DEF Line
<1>2. y \in Unit /\ Keeps(v, y, {"arb"})
  BY AckedIs
<1>3. y.fifo = v.fifo
  BY <1>2, Kept
<1>4. b \in Bank /\ BankFor(y, line.block) = b
  <2>1. SeekBank(y) = SeekBank(v)
    BY <1>3 DEF SeekBank
  <2> QED BY <1>1, <2>1, BankForIs DEF BankFor
<1>5. s \in Seq(Line)
  <2>1. v.fifo[b] \in Seq(Line)
    BY <1>4, UnitFields
  <2> QED BY <2>1, AppendItems
<1>6. p = WithFifo(v, b, s)
  BY DEF Push, WithFifo
<1>7. z = WithFifo(y, b, s)
  <2> HIDE DEF y
  <2> QED BY <1>3, <1>4 DEF Push, WithFifo
<1> HIDE DEF y, z, p, w, b, s
<1>8. /\ p \in Unit /\ Keeps(v, p, {"fifo"}) /\ p.fifo[b] = s
      /\ \A k \in Bank : k # b => p.fifo[k] = v.fifo[k]
  BY <1>4, <1>5, <1>6, WithFifoIs
<1>9. /\ z \in Unit /\ Keeps(y, z, {"fifo"}) /\ z.fifo[b] = s
      /\ \A k \in Bank : k # b => z.fifo[k] = y.fifo[k]
  BY <1>2, <1>4, <1>5, <1>7, WithFifoIs
<1>10. /\ w \in Unit /\ Keeps(p, w, {"arb"})
       /\ \A e \in Lane : w.arb[e] = IF e \in E THEN Empty ELSE p.arb[e]
  BY <1>8, AckedIs DEF w
<1>11. \A e \in Lane : y.arb[e] = IF e \in E THEN Empty ELSE v.arb[e]
  BY AckedIs DEF y
<1>12. w.fifo = z.fifo
  <2>1. w.fifo = p.fifo
    BY <1>8, <1>10, Kept
  <2> DEFINE f == p.fifo
             g == z.fifo
             T == Seq(Line)
  <2>2. f \in [Bank -> T] /\ g \in [Bank -> T]
    BY <1>8, <1>9, UnitFields
  <2>3. \A k \in Bank : f[k] = g[k]
    BY <1>3, <1>8, <1>9
  <2> HIDE DEF f, g, T
  <2>4. f = g
    BY <2>2, <2>3, SameFunction
  <2> QED BY <2>1, <2>4 DEF f, g
<1>13. w.arb = z.arb
  <2>1. z.arb = y.arb /\ p.arb = v.arb
    BY <1>2, <1>8, <1>9, Kept
  <2> DEFINE f == w.arb
             g == y.arb
             T == Ordered \cup {Empty}
  <2>2. f \in [Lane -> T] /\ g \in [Lane -> T]
    BY <1>2, <1>10, UnitFields
  <2>3. \A e \in Lane : f[e] = g[e]
    BY <1>10, <1>11, <2>1
  <2> HIDE DEF f, g, T
  <2>4. f = g
    BY <2>2, <2>3, SameFunction
  <2> QED BY <2>1, <2>4 DEF f, g
<1>14. ASSUME NEW f \in Fields PROVE w[f] = z[f]
  <2>1. DOMAIN v = Fields /\ DOMAIN y = Fields /\ DOMAIN p = Fields
    BY <1>2, <1>8, UnitFields
  <2>2. CASE f # "arb" /\ f # "fifo"
    <3>1. w[f] = p[f] /\ p[f] = v[f]
      BY <1>8, <1>10, <2>1, <2>2 DEF Keeps
    <3>2. z[f] = y[f] /\ y[f] = v[f]
      BY <1>2, <1>9, <2>1, <2>2 DEF Keeps
    <3> QED BY <3>1, <3>2
  <2> QED BY <1>12, <1>13, <2>2
<1>15. w = z
  BY <1>9, <1>10, <1>14, SameUnit
<1> QED BY <1>15 DEF w, z, p, y

(* The request of an arbiter line.                                          *)
LEMMA OrderOf ==
  ASSUME NEW v \in Unit, NEW e \in Lane, v.arb[e] # Empty
  PROVE  /\ v.arb[e] \in Ordered /\ v.arb[e].addr \in Addr /\ v.arb[e].tag \in Tags
         /\ v.arb[e].wr \in BOOLEAN
<1>1. v.arb[e] \in Ordered
  BY UnitFields
<1> QED BY <1>1 DEF Ordered

(* What the arbiter does to its lines.                                      *)
Accepts(v, w, E) ==
  /\ Keeps(v, w, {"arb", "fifo"})
  /\ \A k \in Lane : w.arb[k] = IF k \in E THEN Empty ELSE v.arb[k]

(* A request goes from its arbiter line into a FIFO, or stays.              *)
LEMMA AcceptOneOK ==
  ASSUME NEW v, NEW W, Good(v, W), NEW e \in Lane, v.arb[e] # Empty
  PROVE  /\ Good(AcceptOne(v, e), W)
         /\ Accepts(v, AcceptOne(v, e), {}) \/ Accepts(v, AcceptOne(v, e), {e})
<1> DEFINE req == v.arb[e]
           block == BlockOf(req.addr)
           word == req.addr % Words
           asks == [lane |-> e, tag |-> req.tag]
           off == [NoOffsets EXCEPT ![word] = asks]
           line == NewLine(req, block, off)
           y == Acked(v, {e})
           z == Push(y, line)
           w == AcceptOne(v, e)
<1>1. v \in Unit /\ Fit(v, W) /\ Counted(v)
  BY DEF Good, Fit
<1>2. req.addr \in Addr /\ req.tag \in Tags /\ req.wr \in BOOLEAN
  BY <1>1, OrderOf
<1>3. block \in Blocks /\ word \in Word /\ block * Words + word = req.addr
  BY <1>2, AddressParts
<1>4. /\ off \in Offsets /\ off[word] = asks /\ asks \in Request
      /\ \A x \in Word : x # word => off[x] = Empty
  <2>1. asks \in Request
    BY <1>2 DEF Request
  <2> HIDE DEF asks
  <2> QED BY <1>3, <2>1 DEF Offsets, NoOffsets
<1> HIDE DEF off
<1>5. /\ line \in Line /\ line.block = block /\ line.off = off /\ line.wr = req.wr
      /\ line.tag = req.tag /\ ~line.complete
  BY <1>2, <1>3, <1>4 DEF NewLine, Line
<1>6. w = v \/ w = z
  <2>1. w = v \/ w = Acked(Push(v, line), {e})
    BY DEF AcceptOne, off
  <2> HIDE DEF line, w
  <2>2. Acked(Push(v, line), {e}) = z
    BY <1>1, <1>5, AckedPushed
  <2> QED BY <2>1, <2>2
<1> HIDE DEF w, z, line, block, word
<1>7. OneTag(line)
  BY <1>4, <1>5 DEF OneTag
<1>8. LineItems(line) = OrderItems(e, req)
  <2>1. line # Empty
    BY <1>5, NoneIs
  <2>2. {x \in Word : off[x] # Empty} = {word}
    BY <1>3, <1>4, NoneIs
  <2>3. Items(block, off) = {[lane |-> e, tag |-> req.tag, addr |-> req.addr]}
    BY <1>3, <1>4, <2>2 DEF Items, Callback
  <2> QED BY <1>5, <2>1, <2>3 DEF LineItems, OrderItems
<1>9. Orders(v, {e}) = LineItems(line)
  BY <1>8 DEF Orders
<1>10. /\ y \in Unit /\ Keeps(v, y, {"arb"})
       /\ \A k \in Lane : y.arb[k] = IF k \in {e} THEN Empty ELSE v.arb[k]
  BY <1>1, AckedIs
<1>11. Fit(y, W \ LineItems(line)) /\ LineItems(line) \subseteq W
  <2>1. {e} \subseteq Lane
    OBVIOUS
  <2>2. Fit(y, W \ Orders(v, {e})) /\ Orders(v, {e}) \subseteq W
    BY <1>1, <2>1, AckedOK
  <2> QED BY <1>9, <2>2
<1> HIDE DEF y, req
<1>12. Fit(z, W) /\ Keeps(y, z, {"fifo"})
  <2>1. LineItems(line) \cap (W \ LineItems(line)) = {}
    OBVIOUS
  <2>2. Fit(z, (W \ LineItems(line)) \cup LineItems(line)) /\ Keeps(y, z, {"fifo"})
    BY <1>5, <1>7, <1>11, <2>1, PushOK DEF z
  <2>3. (W \ LineItems(line)) \cup LineItems(line) = W
    BY <1>11
  <2> QED BY <2>2, <2>3
<1>13. Accepts(v, z, {e})
  <2>1. z.arb = y.arb
    BY <1>10, <1>12, Kept
  <2>2. Keeps(v, z, {"arb", "fifo"})
    BY <1>10, <1>12 DEF Keeps
  <2> QED BY <1>10, <2>1, <2>2 DEF Accepts
<1>14. Counted(z)
  BY <1>1, <1>13, CountedKept DEF Accepts
<1>15. Accepts(v, v, {})
  BY DEF Accepts, Keeps
<1> QED BY <1>6, <1>12, <1>13, <1>14, <1>15, GoodIs DEF w

(* What is known of a setting.                                              *)
LEMMA Config ==
  ASSUME cfg \in Configs
  PROVE  /\ cfg.vec \in Nat /\ cfg.vec \in 0 .. Elements /\ cfg.step \in Int
         /\ cfg.base \in [Tags -> Int] /\ cfg.tags \subseteq Tags
         /\ cfg.addrs \in [Lane -> SUBSET Addr] /\ cfg.stores \subseteq Lane
         /\ cfg.vec > 1 => cfg.step # 0
         /\ Group \subseteq cfg.stores \/ Group \cap cfg.stores = {}
         /\ Group \subseteq Lane
         /\ \A e \in Group : cfg.vec > 0 /\ Group = 0 .. (cfg.vec - 1)
<1>1. ConfigAssumption
  BY LsuConstants
<1>2. /\ cfg.vec \in 0 .. Elements /\ cfg.step \in Int
      /\ cfg.base \in [Tags -> Int] /\ cfg.tags \subseteq Tags
      /\ cfg.addrs \in [Lane -> SUBSET Addr] /\ cfg.stores \subseteq Lane
      /\ cfg.vec > 1 => cfg.step # 0
      /\ GroupOf(cfg) \subseteq cfg.stores \/ GroupOf(cfg) \cap cfg.stores = {}
  BY <1>1 DEF ConfigAssumption
<1>3. Elements \in Nat
  BY Sizes
<1>4. cfg.vec \in Nat
  BY <1>2, <1>3
<1>5. Group = GroupOf(cfg) /\ (Group = IF cfg.vec = 0 THEN {} ELSE 0 .. (cfg.vec - 1))
  BY DEF Group, GroupOf
<1>6. Group \subseteq Lane
  BY <1>2, <1>3, <1>4, <1>5 DEF Lane
<1>7. \A e \in Group : cfg.vec > 0 /\ Group = 0 .. (cfg.vec - 1)
  BY <1>4, <1>5
<1> QED BY <1>2, <1>4, <1>5, <1>6, <1>7

(* Multiples of a number that is not zero.                                  *)
LEMMA SameFactor ==
  ASSUME NEW i \in Int, NEW j \in Int, NEW s \in Int, s # 0, i * s = j * s
  PROVE  i = j
<1>1. (i - j) * s = 0
  BY Z3
<1>2. i - j = 0
  BY <1>1, Z3
<1> QED BY <1>2

(* The runs of a group.                                                     *)
LEMMA RunsApart ==
  ASSUME NEW req, cfg.vec \in Nat, NEW k \in 0 .. (cfg.vec - 1), NEW m \in 0 .. (cfg.vec - 1),
         EndsRun(req, k), k < m
  PROVE  Run(req, k) \cap Run(req, m) = {}
<1> SUFFICES ASSUME NEW j \in Run(req, k), j \in Run(req, m) PROVE FALSE
  OBVIOUS
<1>1. /\ j \in 0 .. k /\ k + 1 \in j .. m /\ k \in j .. m
      /\ \A i \in j .. m : VecBlock(req, i) = VecBlock(req, m)
  BY DEF Run
<1>2. VecBlock(req, k + 1) = VecBlock(req, k)
  BY <1>1
<1>3. k # cfg.vec - 1
  OBVIOUS
<1> QED BY <1>2, <1>3 DEF EndsRun

(* Every element of a group is in the run of the element that ends it.      *)
LEMMA RunsCover ==
  ASSUME NEW req, cfg.vec \in Nat, NEW j \in 0 .. (cfg.vec - 1)
  PROVE  \E m \in 0 .. (cfg.vec - 1) : EndsRun(req, m) /\ j \in Run(req, m)
<1> DEFINE n == cfg.vec
           T == {m \in j .. (n - 1) : EndsRun(req, m)}
<1>1. T \subseteq Nat /\ T # {}
  <2>1. n - 1 \in j .. (n - 1) /\ EndsRun(req, n - 1)
    BY DEF EndsRun
  <2> QED BY <2>1
<1>2. \A m \in T : m \in j .. (n - 1) /\ EndsRun(req, m)
  OBVIOUS
<1>3. \A m \in j .. (n - 1) : EndsRun(req, m) => m \in T
  OBVIOUS
<1> HIDE DEF T
<1>4. PICK m \in T : \A k \in T : m <= k
  BY <1>1, LeastElement
<1>5. m \in 0 .. (n - 1) /\ m \in Nat /\ j <= m
  BY <1>2
<1>6. ASSUME NEW i \in Nat, j <= i, i < m PROVE VecBlock(req, i + 1) = VecBlock(req, i)
  <2>1. i \in j .. (n - 1) /\ ~(m <= i)
    BY <1>5, <1>6
  <2>2. ~EndsRun(req, i)
    BY <1>3, <1>4, <2>1
  <2> QED BY <2>2 DEF EndsRun
<1> DEFINE M == m - j
           S == {k \in 0 .. M : VecBlock(req, m - k) = VecBlock(req, m)}
<1>7. M \in Nat
  BY <1>5
<1>8. 0 \in S
  BY <1>5, <1>7
<1>9. ASSUME NEW k \in 1 .. M, k - 1 \in S PROVE k \in S
  <2>1. m - k \in Nat /\ j <= m - k /\ m - k < m /\ (m - k) + 1 = m - (k - 1) /\ k \in 0 .. M
    BY <1>5, <1>7
  <2>2. VecBlock(req, (m - k) + 1) = VecBlock(req, m - k)
    BY <1>6, <2>1
  <2>3. VecBlock(req, m - (k - 1)) = VecBlock(req, m)
    BY <1>9
  <2> QED BY <2>1, <2>2, <2>3
<1> HIDE DEF S
<1>10. \A k \in 0 .. M : k \in S
  BY <1>7, <1>8, <1>9, ByInduction
<1>11. ASSUME NEW i \in j .. m PROVE VecBlock(req, i) = VecBlock(req, m)
  <2>1. m - i \in 0 .. M /\ m - (m - i) = i
    BY <1>5
  <2>2. m - i \in S
    BY <1>10, <2>1
  <2> QED BY <2>1, <2>2 DEF S
<1>12. j \in Run(req, m)
  BY <1>5, <1>11 DEF Run
<1> QED BY <1>2, <1>5, <1>12

(* All the elements of a group have asked, together.                        *)
Gathered(v) ==
  /\ 0 \in Group
  /\ \A k \in Group : /\ v.arb[k] # Empty
                      /\ v.arb[k].tag = v.arb[0].tag /\ v.arb[k].wr = v.arb[0].wr
                      /\ v.arb[k].addr = VecAddr(v.arb[0], k)

RunLine(req, k) == NewLine(req, VecBlock(req, k), VecOffsets(req, k))

(* Max of a set with one element.                                           *)
LEMMA OneOf ==
  ASSUME NEW j \in Int
  PROVE  Max({j}) = j
<1>1. j \in {j} /\ \A y \in {j} : y <= j
  OBVIOUS
<1>2. \A x \in {j} : x = j
  OBVIOUS
<1> QED BY <1>1, <1>2 DEF Max

(* The line of a run holds the requests of its elements, each in its own    *)
(* word.                                                                    *)
LEMMA RunLineOK ==
  ASSUME cfg \in Configs, NEW v \in Unit, Gathered(v), NEW k \in 0 .. (cfg.vec - 1)
  PROVE  /\ RunLine(v.arb[0], k) \in Line /\ ~RunLine(v.arb[0], k).complete
         /\ OneTag(RunLine(v.arb[0], k))
         /\ LineItems(RunLine(v.arb[0], k)) = Orders(v, Run(v.arb[0], k))
         /\ Run(v.arb[0], k) \subseteq Group
<1> DEFINE req == v.arb[0]
           run == Run(req, k)
           block == VecBlock(req, k)
           word(j) == VecAddr(req, j) % Words
           off == VecOffsets(req, k)
           line == RunLine(req, k)
           asks(j) == [lane |-> j, tag |-> req.tag]
<1>1. /\ cfg.vec \in Nat /\ Group \subseteq Lane /\ Group = 0 .. (cfg.vec - 1) /\ cfg.step \in Int
      /\ cfg.vec > 1 => cfg.step # 0
  BY Config DEF Gathered
<1>2. \A j \in Group : /\ v.arb[j] # Empty /\ v.arb[j].tag = req.tag /\ v.arb[j].wr = req.wr
                       /\ v.arb[j].addr = VecAddr(req, j) /\ VecAddr(req, j) \in Addr
  <2>1. ASSUME NEW j \in Group
        PROVE  /\ v.arb[j] # Empty /\ v.arb[j].tag = req.tag /\ v.arb[j].wr = req.wr
               /\ v.arb[j].addr = VecAddr(req, j)
    BY DEF Gathered
  <2>2. ASSUME NEW j \in Group PROVE v.arb[j].addr \in Addr
    BY <1>1, <2>1, OrderOf
  <2> HIDE DEF req
  <2> QED BY <2>1, <2>2
<1>3. req.tag \in Tags /\ req.wr \in BOOLEAN /\ req.addr \in Int
  <2>1. 0 \in Lane /\ v.arb[0] # Empty
    BY <1>1 DEF Gathered
  <2>2. req.tag \in Tags /\ req.wr \in BOOLEAN /\ req.addr \in Addr
    BY <2>1, OrderOf
  <2>3. req.addr = BlockOf(req.addr) * Words + (req.addr % Words)
    BY <2>2, AddressParts
  <2>4. BlockOf(req.addr) \in Nat /\ req.addr % Words \in Nat /\ Words \in Nat
    <3>1. BlockOf(req.addr) \in Blocks /\ req.addr % Words \in Word
      BY <2>2, AddressParts
    <3>2. Blocks \subseteq Nat /\ Words \in Nat
      BY Sizes
    <3>3. req.addr % Words \in Nat
      BY <3>1, <3>2 DEF Word
    <3> QED BY <3>1, <3>2, <3>3
  <2> HIDE DEF req
  <2>5. BlockOf(req.addr) * Words + (req.addr % Words) \in Int
    BY <2>4
  <2> QED BY <2>2, <2>3, <2>5
<1> HIDE DEF req
<1>4. run \subseteq Group
  BY <1>1 DEF Run
<1>5. ASSUME NEW j \in Group PROVE VecBlock(req, j) \in Blocks /\ word(j) \in Word
                                   /\ VecBlock(req, j) * Words + word(j) = VecAddr(req, j)
  BY <1>2, AddressParts DEF VecBlock
<1>6. ASSUME NEW j \in run PROVE VecBlock(req, j) = block
  <2>1. j \in j .. k
    BY <1>1 DEF Run
  <2> QED BY <2>1 DEF Run
<1> HIDE DEF run, word
<1>7. ASSUME NEW i \in run, NEW j \in run, word(i) = word(j) PROVE i = j
  <2>1. VecAddr(req, i) = VecAddr(req, j)
    BY <1>4, <1>5, <1>6, <1>7
  <2>2. i \in Int /\ j \in Int /\ i \in 0 .. (cfg.vec - 1) /\ j \in 0 .. (cfg.vec - 1)
    BY <1>1, <1>4
  <2>3. i * cfg.step = j * cfg.step
    <3>1. req.addr + i * cfg.step = req.addr + j * cfg.step
      BY <2>1 DEF VecAddr
    <3>2. i * cfg.step \in Int /\ j * cfg.step \in Int
      BY <1>1, <2>2
    <3> DEFINE p == i * cfg.step
               q == j * cfg.step
    <3> HIDE DEF p, q
    <3>3. p \in Int /\ q \in Int /\ req.addr \in Int /\ req.addr + p = req.addr + q
      BY <1>3, <3>1, <3>2 DEF p, q
    <3>4. p = q
      BY <3>3
    <3> QED BY <3>4 DEF p, q
  <2>4. CASE cfg.vec > 1
    BY <1>1, <2>2, <2>3, <2>4, SameFactor
  <2>5. CASE ~(cfg.vec > 1)
    BY <1>1, <2>2, <2>5
  <2> QED BY <2>4, <2>5
<1>8. ASSUME NEW j \in run PROVE off[word(j)] = asks(j)
  <2>1. word(j) \in Word /\ j \in Int
    BY <1>1, <1>4, <1>5
  <2>2. {i \in run : word(i) = word(j)} = {j}
    BY <1>7
  <2>3. Max({j}) = j
    BY <2>1, OneOf
  <2>4. {i \in Run(req, k) : VecAddr(req, i) % Words = word(j)} = {j}
    BY <2>2 DEF run, word
  <2> QED BY <2>1, <2>3, <2>4 DEF VecOffsets
<1>9. ASSUME NEW w \in Word, \A j \in run : word(j) # w PROVE off[w] = Empty
  <2>1. {i \in Run(req, k) : VecAddr(req, i) % Words = w} = {}
    BY <1>9 DEF run, word
  <2> QED BY <2>1 DEF VecOffsets
<1>10. \A j \in run : asks(j) \in Request /\ asks(j) # Empty
  <2>1. \A j \in run : asks(j) \in Request
    BY <1>1, <1>3, <1>4 DEF Request
  <2> QED BY <2>1, NoneIs
<1>11. off \in [Word -> Request \cup {Empty}]
  <2>1. off = [w \in Word |-> off[w]]
    BY DEF VecOffsets
  <2>2. ASSUME NEW w \in Word PROVE off[w] \in Request \cup {Empty}
    <3>1. CASE \E j \in run : word(j) = w
      BY <1>8, <1>10, <3>1
    <3>2. CASE ~(\E j \in run : word(j) = w)
      BY <1>9, <3>2
    <3> QED BY <3>1, <3>2
  <2> HIDE DEF off
  <2> QED BY <2>1, <2>2
<1> HIDE DEF off
<1>12. block \in Blocks
  BY <1>1, <1>5
<1>13. /\ line \in Line /\ line.block = block /\ line.off = off /\ line.wr = req.wr
       /\ line.tag = req.tag /\ ~line.complete
  BY <1>3, <1>11, <1>12 DEF RunLine, NewLine, Line, Offsets, off
<1> HIDE DEF line, block
<1>14. \A w \in Word : off[w] # Empty => \E j \in run : w = word(j)
  BY <1>9
<1>15. OneTag(line)
  <2>1. ASSUME NEW w \in Word, off[w] # Empty PROVE off[w].tag = req.tag
    <3>1. PICK j \in run : w = word(j)
      BY <1>14, <2>1
    <3>2. off[w] = asks(j)
      BY <1>8, <3>1
    <3> QED BY <3>2
  <2> QED BY <1>13, <2>1 DEF OneTag
<1>16. LineItems(line) = Orders(v, run)
  <2>1. line # Empty
    BY <1>13, NoneIs
  <2>2. CASE req.wr
    <3>1. \A j \in run : OrderItems(j, v.arb[j]) = {}
      BY <1>2, <1>4, <2>2 DEF OrderItems
    <3>2. Orders(v, run) = {}
      BY <3>1 DEF Orders
    <3> QED BY <1>13, <2>2, <3>2 DEF LineItems
  <2>3. CASE ~req.wr
    <3> DEFINE at(j) == [lane |-> j, tag |-> req.tag, addr |-> VecAddr(req, j)]
    <3>1. \A j \in run : OrderItems(j, v.arb[j]) = {at(j)}
      BY <1>2, <1>4, <2>3 DEF OrderItems
    <3>2. Orders(v, run) = {at(j) : j \in run}
      <4> HIDE DEF at
      <4> QED BY <3>1 DEF Orders
    <3>3. ASSUME NEW j \in run
          PROVE  /\ word(j) \in Word /\ off[word(j)] # Empty
                 /\ Callback(block, word(j), off[word(j)].lane, off[word(j)].tag) = at(j)
      <4>1. word(j) \in Word /\ block * Words + word(j) = VecAddr(req, j)
        BY <1>4, <1>5, <1>6
      <4>2. off[word(j)] = asks(j) /\ off[word(j)] # Empty
        BY <1>8, <1>10
      <4>3. off[word(j)].lane = j /\ off[word(j)].tag = req.tag
        BY <4>2
      <4> QED BY <4>1, <4>2, <4>3 DEF Callback
    <3> DEFINE cb(w) == Callback(block, w, off[w].lane, off[w].tag)
    <3>4. Items(block, off) = {cb(w) : w \in {x \in Word : off[x] # Empty}}
      BY DEF Items
    <3>5. \A j \in run : word(j) \in Word /\ off[word(j)] # Empty /\ cb(word(j)) = at(j)
      BY <3>3
    <3> HIDE DEF cb, at
    <3>6. {cb(w) : w \in {x \in Word : off[x] # Empty}} = {at(j) : j \in run}
      BY <1>14, <3>5
    <3> QED BY <1>13, <2>1, <2>3, <3>2, <3>4, <3>6 DEF LineItems
  <2> QED BY <2>2, <2>3
<1> QED BY <1>4, <1>13, <1>15, <1>16 DEF line, run, req

(* The requests of two elements differ.                                     *)
LEMMA OrdersApart ==
  ASSUME NEW v, NEW E, NEW F, E \cap F = {}
  PROVE  Orders(v, E) \cap Orders(v, F) = {}
<1>1. \A e : \A x \in OrderItems(e, v.arb[e]) : x.lane = e
  BY DEF OrderItems
<1>2. (\A x \in Orders(v, E) : x.lane \in E) /\ \A x \in Orders(v, F) : x.lane \in F
  BY <1>1 DEF Orders
<1> QED BY <1>2

(* The requests of the runs that end before the k-th element.               *)
RunsUntil(req, k) == {m \in 0 .. (k - 1) : EndsRun(req, m)}
Sent(v, k) == UNION {Orders(v, Run(v.arb[0], m)) : m \in RunsUntil(v.arb[0], k)}

(* One run more is sent.                                                    *)
LEMMA SentNext ==
  ASSUME cfg \in Configs, NEW v \in Unit, Gathered(v), NEW k \in 1 .. cfg.vec
  PROVE  /\ EndsRun(v.arb[0], k - 1) =>
              /\ Sent(v, k) = Sent(v, k - 1) \cup Orders(v, Run(v.arb[0], k - 1))
              /\ Sent(v, k - 1) \cap Orders(v, Run(v.arb[0], k - 1)) = {}
         /\ ~EndsRun(v.arb[0], k - 1) => Sent(v, k) = Sent(v, k - 1)
<1> DEFINE req == v.arb[0]
<1>1. cfg.vec \in Nat /\ k - 1 \in 0 .. (cfg.vec - 1)
  BY Config
<1>2. RunsUntil(req, k) = RunsUntil(req, k - 1) \cup (IF EndsRun(req, k - 1) THEN {k - 1} ELSE {})
  <2>1. 0 .. (k - 1) = (0 .. ((k - 1) - 1)) \cup {k - 1}
    BY <1>1
  <2> HIDE DEF req
  <2> QED BY <2>1 DEF RunsUntil
<1>3. ASSUME EndsRun(req, k - 1), NEW m \in RunsUntil(req, k - 1)
      PROVE  Orders(v, Run(req, m)) \cap Orders(v, Run(req, k - 1)) = {}
  <2>1. m \in 0 .. (cfg.vec - 1) /\ EndsRun(req, m) /\ m < k - 1
    BY <1>1 DEF RunsUntil
  <2>2. Run(req, m) \cap Run(req, k - 1) = {}
    BY <1>1, <2>1, RunsApart
  <2> QED BY <2>2, OrdersApart
<1> HIDE DEF req
<1>4. Sent(v, k) = UNION {Orders(v, Run(req, m)) : m \in RunsUntil(req, k)}
      /\ Sent(v, k - 1) = UNION {Orders(v, Run(req, m)) : m \in RunsUntil(req, k - 1)}
  BY DEF Sent, req
<1>5. EndsRun(req, k - 1) => Sent(v, k - 1) \cap Orders(v, Run(req, k - 1)) = {}
  BY <1>3, <1>4
<1>6. EndsRun(req, k - 1) => Sent(v, k) = Sent(v, k - 1) \cup Orders(v, Run(req, k - 1))
  BY <1>2, <1>4
<1>7. ~EndsRun(req, k - 1) => Sent(v, k) = Sent(v, k - 1)
  BY <1>2, <1>4
<1> QED BY <1>5, <1>6, <1>7 DEF req

(* After the last element all of the group are sent.                        *)
LEMMA SentAll ==
  ASSUME cfg \in Configs, NEW v \in Unit, Gathered(v)
  PROVE  /\ Sent(v, 0) = {} /\ Sent(v, cfg.vec) = Orders(v, Group)
         /\ \A k \in 0 .. cfg.vec : Sent(v, k) \subseteq Orders(v, Group)
<1> DEFINE req == v.arb[0]
<1>1. cfg.vec \in Nat /\ Group = 0 .. (cfg.vec - 1)
  BY Config DEF Gathered
<1>2. Sent(v, 0) = {}
  BY DEF Sent, RunsUntil
<1>3. ASSUME NEW k \in 0 .. cfg.vec PROVE Sent(v, k) \subseteq Orders(v, Group)
  <2>1. ASSUME NEW m \in RunsUntil(req, k) PROVE Run(req, m) \subseteq Group
    BY <1>1 DEF RunsUntil, Run
  <2> QED BY <2>1 DEF Sent, Orders
<1>4. Orders(v, Group) \subseteq Sent(v, cfg.vec)
  <2>1. ASSUME NEW j \in Group PROVE \E m \in RunsUntil(req, cfg.vec) : j \in Run(req, m)
    <3>1. \E m \in 0 .. (cfg.vec - 1) : EndsRun(req, m) /\ j \in Run(req, m)
      BY <1>1, RunsCover
    <3> QED BY <3>1 DEF RunsUntil
  <2> QED BY <2>1 DEF Sent, Orders
<1>5. cfg.vec \in 0 .. cfg.vec
  BY <1>1
<1> QED BY <1>2, <1>3, <1>4, <1>5

(* One element of a group: its run ends here, or nothing happens.           *)
LEMMA PushRunOK ==
  ASSUME cfg \in Configs, NEW v \in Unit, Gathered(v), NEW k \in 1 .. cfg.vec,
         NEW x, NEW X, X \cap Orders(v, Group) = {}, Fit(x, X \cup Sent(v, k - 1))
  PROVE  /\ Fit(PushRun(x, v.arb[0], k - 1), X \cup Sent(v, k))
         /\ Keeps(x, PushRun(x, v.arb[0], k - 1), {"fifo"})
<1> DEFINE req == v.arb[0]
           line == RunLine(req, k - 1)
           run == Orders(v, Run(req, k - 1))
           w == PushRun(x, req, k - 1)
<1>1. cfg.vec \in Nat /\ k - 1 \in 0 .. (cfg.vec - 1)
  BY Config
<1>2. /\ EndsRun(req, k - 1) => Sent(v, k) = Sent(v, k - 1) \cup run /\ Sent(v, k - 1) \cap run = {}
      /\ ~EndsRun(req, k - 1) => Sent(v, k) = Sent(v, k - 1)
  BY SentNext
<1>3. /\ line \in Line /\ ~line.complete /\ OneTag(line) /\ LineItems(line) = run
      /\ Run(req, k - 1) \subseteq Group
  BY <1>1, RunLineOK
<1>4. w = IF EndsRun(req, k - 1) THEN Push(x, line) ELSE x
  BY DEF PushRun, RunLine
<1>5. run \subseteq Orders(v, Group)
  BY <1>3 DEF Orders
<1> HIDE DEF req, line, run, w
<1>6. CASE EndsRun(req, k - 1)
  <2>1. LineItems(line) \cap (X \cup Sent(v, k - 1)) = {}
    BY <1>2, <1>3, <1>5, <1>6
  <2>2. /\ Fit(Push(x, line), (X \cup Sent(v, k - 1)) \cup LineItems(line))
        /\ Keeps(x, Push(x, line), {"fifo"})
    BY <1>3, <2>1, PushOK
  <2>3. (X \cup Sent(v, k - 1)) \cup LineItems(line) = X \cup Sent(v, k)
    BY <1>2, <1>3, <1>6
  <2> QED BY <1>4, <1>6, <2>2, <2>3 DEF w, req
<1>7. CASE ~EndsRun(req, k - 1)
  BY <1>2, <1>4, <1>7 DEF Keeps, w, req
<1> QED BY <1>6, <1>7

(* A group goes from its arbiter lines into the FIFOs as a whole, or stays. *)
LEMMA AcceptGroupOK ==
  ASSUME cfg \in Configs, NEW v, NEW W, Good(v, W), Gathered(v)
  PROVE  /\ Good(AcceptGroup(v, 0), W)
         /\ Accepts(v, AcceptGroup(v, 0), {}) \/ Accepts(v, AcceptGroup(v, 0), Group)
<1> DEFINE req == v.arb[0]
           all == Orders(v, Group)
           start == Acked(v, Group)
           N == cfg.vec
           V == [k \in 0 .. N |-> {x \in Unit : Fit(x, (W \ all) \cup Sent(v, k)) /\ Keeps(start, x, {"fifo"})}]
           G == [k \in 1 .. N |-> [x \in V[k-1] |-> PushRun(x, req, k - 1)]]
           Satisfies(f) == f = [i \in 0 .. N |-> IF i = 0 THEN start ELSE PushRun(f[i-1], req, i - 1)]
           after == CHOOSE f : Satisfies(f)
<1>1. /\ v \in Unit /\ Fit(v, W) /\ Counted(v)
      /\ N \in Nat /\ Group \subseteq Lane /\ \A k \in 1 .. N : k \in 0 .. N /\ k - 1 \in 0 .. N
  <2>1. cfg.vec \in Nat /\ Group \subseteq Lane
    BY Config
  <2>2. \A k \in 1 .. N : k \in 0 .. N /\ k - 1 \in 0 .. N
    BY <2>1
  <2> QED BY <2>1, <2>2 DEF Good, Fit
<1>2. /\ Fit(start, W \ all) /\ all \subseteq W /\ start \in Unit /\ Keeps(v, start, {"arb"})
      /\ \A e \in Lane : start.arb[e] = IF e \in Group THEN Empty ELSE v.arb[e]
  <2>1. Fit(start, W \ all) /\ all \subseteq W
    BY <1>1, AckedOK
  <2>2. start \in Unit /\ Keeps(v, start, {"arb"})
    BY <1>1, AckedIs
  <2>3. \A e \in Lane : start.arb[e] = IF e \in Group THEN Empty ELSE v.arb[e]
    BY <1>1, AckedIs
  <2> QED BY <2>1, <2>2, <2>3
<1>3. start \in V[0]
  <2>1. 0 \in 0 .. N /\ (W \ all) \cup Sent(v, 0) = W \ all
    BY <1>1, SentAll
  <2>2. Keeps(start, start, {"fifo"})
    BY DEF Keeps
  <2> HIDE DEF start, all
  <2> QED BY <1>2, <2>1, <2>2
<1>4. ASSUME NEW k \in 1 .. N, NEW x \in V[k-1] PROVE PushRun(x, req, k - 1) \in V[k]
  <2>1. k \in 0 .. N /\ k - 1 \in 0 .. N
    BY <1>1
  <2>2. Fit(x, (W \ all) \cup Sent(v, k - 1)) /\ Keeps(start, x, {"fifo"})
    BY <2>1
  <2> DEFINE y == PushRun(x, req, k - 1)
  <2>3. Fit(y, (W \ all) \cup Sent(v, k)) /\ Keeps(x, y, {"fifo"})
    <3>1. (W \ all) \cap Orders(v, Group) = {}
      OBVIOUS
    <3> HIDE DEF start, all
    <3> QED BY <1>1, <2>2, <3>1, PushRunOK
  <2> HIDE DEF y, start, all
  <2>4. y \in Unit /\ Keeps(start, y, {"fifo"})
    BY <2>2, <2>3 DEF Fit, Keeps
  <2> QED BY <2>1, <2>3, <2>4 DEF y
<1> HIDE DEF V
<1>5. PICK h \in [0 .. N -> UNION {V[k] : k \in 0 .. N}] :
        Chain(h, N, start, G) /\ \A k \in 0 .. N : h[k] \in V[k]
  <2>1. \A k \in 1 .. N : \A x \in V[k-1] : G[k][x] \in V[k]
    BY <1>4
  <2> HIDE DEF G, start
  <2> QED BY <1>1, <1>3, <2>1, Chained
<1>6. Satisfies(h)
  <2>1. ASSUME NEW k \in 0 .. N, k # 0 PROVE h[k] = PushRun(h[k-1], req, k - 1)
    <3>1. k \in 1 .. N /\ k - 1 \in 0 .. N
      BY <1>1, <2>1
    <3> QED BY <1>5, <3>1 DEF Chain
  <2> HIDE DEF start
  <2>2. h[0] = start
    BY <1>5 DEF Chain
  <2> QED BY <2>1, <2>2
<1>7. Satisfies(after)
  <2> HIDE DEF Satisfies
  <2> QED BY <1>6
<1>8. AcceptGroup(v, 0) = IF VecRoom(v, req) THEN after[N] ELSE v
  BY DEF AcceptGroup, Each
<1> HIDE DEF after, start, all
<1>9. after[N] \in V[N]
  <2>1. after[0] = start
    BY <1>1, <1>7
  <2>2. \A k \in 1 .. N : after[k-1] \in V[k-1] => after[k] \in V[k]
    <3> SUFFICES ASSUME NEW k \in 1 .. N, after[k-1] \in V[k-1] PROVE after[k] \in V[k]
      OBVIOUS
    <3>1. k \in 0 .. N /\ k # 0
      BY <1>1
    <3>2. after[k] = PushRun(after[k-1], req, k - 1)
      BY <1>7, <3>1
    <3> QED BY <1>4, <3>2
  <2> HIDE DEF Satisfies, N
  <2> QED BY <1>1, <1>3, <2>1, <2>2, Followed
<1>10. /\ after[N] \in Unit /\ Fit(after[N], (W \ all) \cup Sent(v, N))
       /\ Keeps(start, after[N], {"fifo"})
  <2>1. N \in 0 .. N
    BY <1>1
  <2> QED BY <1>9, <2>1 DEF V
<1> DEFINE z == after[N]
<1> HIDE DEF z
<1>11. Fit(z, W) /\ Keeps(start, z, {"fifo"})
  <2>1. (W \ all) \cup Sent(v, N) = W
    BY <1>1, <1>2, SentAll DEF all
  <2> QED BY <1>10, <2>1 DEF z
<1>12. Accepts(v, z, Group)
  <2>1. z.arb = start.arb
    BY <1>2, <1>11, Kept
  <2>2. Keeps(v, z, {"arb", "fifo"})
    BY <1>2, <1>11 DEF Keeps
  <2> QED BY <1>2, <2>1, <2>2 DEF Accepts
<1>13. Counted(z)
  BY <1>1, <1>12, CountedKept DEF Accepts
<1>14. Accepts(v, v, {})
  BY DEF Accepts, Keeps
<1>15. AcceptGroup(v, 0) = z \/ AcceptGroup(v, 0) = v
  BY <1>8 DEF z
<1> QED BY <1>11, <1>12, <1>13, <1>14, <1>15, GoodIs

(* Element e asks to store or to load for ever, a group with one tag and    *)
(* from the addresses of that tag.                                          *)
Grouped(v) ==
  \A e \in Lane : v.arb[e] # Empty =>
    /\ v.arb[e].wr = (e \in cfg.stores)
    /\ e \in Group => /\ v.arb[e].addr = cfg.base[v.arb[e].tag] + e * cfg.step
                      /\ \A k \in Group : v.arb[k] # Empty => v.arb[k].tag = v.arb[e].tag

(* A group whose elements have all asked has one tag and consecutive        *)
(* addresses.                                                               *)
LEMMA GatheredIs ==
  ASSUME cfg \in Configs, NEW v \in Unit, Grouped(v), 0 \in Group,
         \A k \in Group : v.arb[k] # Empty
  PROVE  Gathered(v)
<1>1. /\ Group \subseteq Lane /\ cfg.step \in Int /\ cfg.base \in [Tags -> Int]
      /\ Group \subseteq cfg.stores \/ Group \cap cfg.stores = {}
      /\ Group = 0 .. (cfg.vec - 1)
  BY Config
<1>2. ASSUME NEW k \in Group
      PROVE  /\ v.arb[k].wr = (k \in cfg.stores) /\ v.arb[k].tag = v.arb[0].tag
             /\ v.arb[k].addr = cfg.base[v.arb[0].tag] + k * cfg.step
  <2>1. k \in Lane /\ 0 \in Lane /\ v.arb[k] # Empty /\ v.arb[0] # Empty
    BY <1>1
  <2>2. v.arb[k].tag = v.arb[0].tag
    BY <2>1 DEF Grouped
  <2>3. v.arb[k].wr = (k \in cfg.stores) /\ v.arb[k].addr = cfg.base[v.arb[k].tag] + k * cfg.step
    BY <2>1 DEF Grouped
  <2> QED BY <2>2, <2>3
<1>3. ASSUME NEW k \in Group PROVE v.arb[k].wr = v.arb[0].wr
  <2>1. v.arb[k].wr = (k \in cfg.stores) /\ v.arb[0].wr = (0 \in cfg.stores)
    BY <1>2
  <2>2. (k \in cfg.stores) = (0 \in cfg.stores)
    BY <1>1
  <2> QED BY <2>1, <2>2
<1>4. ASSUME NEW k \in Group PROVE v.arb[k].addr = VecAddr(v.arb[0], k)
  <2> DEFINE base == cfg.base[v.arb[0].tag]
  <2>1. base \in Int
    <3>1. 0 \in Lane /\ v.arb[0] # Empty
      BY <1>1
    <3>2. v.arb[0].tag \in Tags
      BY <3>1, OrderOf
    <3> QED BY <1>1, <3>2
  <2>2. v.arb[k].addr = base + k * cfg.step /\ v.arb[0].addr = base + 0 * cfg.step
    BY <1>2
  <2> HIDE DEF base
  <2>3. 0 * cfg.step = 0
    BY <1>1
  <2>4. v.arb[0].addr = base
    BY <2>1, <2>2, <2>3
  <2> QED BY <2>2, <2>4 DEF VecAddr
<1> QED BY <1>2, <1>3, <1>4 DEF Gathered

(* One request that is looked at: a bypassed write, a group or a single     *)
(* request.                                                                 *)
LEMMA AcceptOK ==
  ASSUME cfg \in Configs, NEW v, NEW W, Good(v, W), Grouped(v), NEW e \in Lane, Offers(v, e)
  PROVE  /\ Good(Accept(v, e), W)
         /\ \/ Accepts(v, Accept(v, e), {}) \/ Accepts(v, Accept(v, e), {e})
            \/ (e \in Group /\ Accepts(v, Accept(v, e), Group))
<1> DEFINE w == Accept(v, e)
           bypassed == v.arb[e].wr /\ cfg.wbypass
<1>1. v \in Unit /\ Fit(v, W) /\ Counted(v) /\ v.arb[e] # Empty
  BY DEF Good, Fit, Offers
<1>2. /\ bypassed => w = Acked(v, {e})
      /\ ~bypassed /\ e \in Group => w = AcceptGroup(v, e)
      /\ ~bypassed /\ e \notin Group => w = AcceptOne(v, e)
  BY DEF Accept
<1> HIDE DEF w
<1>3. CASE bypassed
  <2>1. Orders(v, {e}) = {} /\ {e} \subseteq Lane
    BY <1>3 DEF Orders, OrderItems
  <2>2. Fit(w, W \ {}) /\ W \ {} = W
    BY <1>1, <1>2, <1>3, <2>1, AckedOK
  <2>3. Accepts(v, w, {e})
    <3>1. Keeps(v, w, {"arb"})
      BY <1>1, <1>2, <1>3, AckedIs
    <3>2. \A k \in Lane : w.arb[k] = IF k \in {e} THEN Empty ELSE v.arb[k]
      BY <1>1, <1>2, <1>3, AckedIs
    <3> QED BY <3>1, <3>2 DEF Accepts, Keeps
  <2>4. Counted(w)
    BY <1>1, <2>3, CountedKept DEF Accepts
  <2> QED BY <2>2, <2>3, <2>4, GoodIs DEF w
<1>4. CASE ~bypassed /\ e \in Group
  <2>1. e = 0 /\ Gathered(v)
    BY <1>1, <1>4, GatheredIs DEF Offers
  <2>2. Good(w, W) /\ (Accepts(v, w, {}) \/ Accepts(v, w, Group))
    BY <1>2, <1>4, <2>1, AcceptGroupOK
  <2> QED BY <1>4, <2>2 DEF w
<1>5. CASE ~bypassed /\ e \notin Group
  <2>1. Good(w, W) /\ (Accepts(v, w, {}) \/ Accepts(v, w, {e}))
    BY <1>1, <1>2, <1>5, AcceptOneOK
  <2> QED BY <2>1 DEF w
<1> HIDE DEF bypassed
<1> QED BY <1>3, <1>4, <1>5

(* The element looked at in turn i.                                         *)
LEMMA TurnOf ==
  ASSUME NEW v \in Unit, NEW i \in 1 .. Elements
  PROVE  /\ Turn(v, i) \in Lane
         /\ Turn(v, i) = IF v.clk + i - 1 < Elements THEN v.clk + i - 1 ELSE v.clk + i - 1 - Elements
<1>1. Elements \in Nat /\ Elements > 0 /\ v.clk \in 0 .. (Elements - 1) /\ i \in 1 .. Elements
  BY Sizes, UnitFields
<1> DEFINE a == v.clk + i - 1
           n == Elements
<1>2. n \in Nat /\ n > 0 /\ a \in Nat /\ a < n + n
  BY <1>1
<1>3. Turn(v, i) = a % n
  BY DEF Turn
<1> HIDE DEF a, n
<1>4. CASE a < n
  <2>1. a \in 0 .. (n - 1) /\ 0 * n + a = a /\ 0 \in Nat
    BY <1>2, <1>4
  <2>2. (0 * n + a) % n = a
    BY <1>2, <2>1, Division
  <2> QED BY <1>3, <1>4, <2>1, <2>2 DEF a, n, Lane
<1>5. CASE ~(a < n)
  <2>1. a - n \in 0 .. (n - 1) /\ 1 * n + (a - n) = a /\ 1 \in Nat
    BY <1>2, <1>5
  <2>2. (1 * n + (a - n)) % n = a - n
    BY <1>2, <2>1, Division
  <2>3. Turn(v, i) = a - n /\ Turn(v, i) \in 0 .. (n - 1)
    <3>1. a % n = a - n
      <4> DEFINE d == a - n
      <4>1. a = 1 * n + d
        BY <1>2
      <4>2. (1 * n + d) % n = d
        BY <2>2
      <4> HIDE DEF d
      <4>3. a % n = d
        BY <4>1, <4>2
      <4> QED BY <4>3 DEF d
    <3> QED BY <1>3, <2>1, <3>1
  <2>4. Turn(v, i) \in Lane
    BY <2>3 DEF n, Lane
  <2>5. ~(v.clk + i - 1 < Elements)
    BY <1>5 DEF a, n
  <2>6. Turn(v, i) = v.clk + i - 1 - Elements
    <3>1. Turn(v, i) = a - n
      BY <2>3
    <3> QED BY <1>1, <3>1 DEF a, n
  <2> QED BY <2>4, <2>5, <2>6
<1> QED BY <1>4, <1>5

(* Two turns are two elements.                                              *)
LEMMA TurnsApart ==
  ASSUME NEW v \in Unit, NEW i \in 1 .. Elements, NEW j \in 1 .. Elements, i < j
  PROVE  Turn(v, i) # Turn(v, j)
<1>1. Elements \in Nat /\ v.clk \in 0 .. (Elements - 1) /\ i \in Nat /\ j \in Nat
      /\ i >= 1 /\ j <= Elements /\ v.clk \in Nat
  BY Sizes, UnitFields
<1> DEFINE a == Turn(v, i)
           b == Turn(v, j)
           c == v.clk
<1>2. a = IF c + i - 1 < Elements THEN c + i - 1 ELSE c + i - 1 - Elements
  BY TurnOf
<1>3. b = IF c + j - 1 < Elements THEN c + j - 1 ELSE c + j - 1 - Elements
  BY TurnOf
<1> HIDE DEF a, b
<1>4. c \in Nat
  BY <1>1
<1> HIDE DEF c
<1>5. a # b
  BY <1>1, <1>2, <1>3, <1>4
<1> QED BY <1>5 DEF a, b

(* x is v after some of its requests were acknowledged.                     *)
Remains(v, x) ==
  Keeps(v, x, {"arb", "fifo"}) /\ \A e \in Lane : x.arb[e] \in {v.arb[e], Empty}

Intact(v, x, e) == x.arb[e] = v.arb[e] /\ (e \in Group => \A g \in Group : x.arb[g] = v.arb[g])
Untouched(v, x, k) ==
  \A i \in 1 .. Elements : i > k /\ Looked(v, i) => Intact(v, x, Turn(v, i))

(* A group that has lost acknowledged requests is a group still.            *)
LEMMA GroupedRemains ==
  ASSUME cfg \in Configs, NEW v, NEW x, Grouped(v), Remains(v, x)
  PROVE  Grouped(x)
<1>1. \A e \in Lane : x.arb[e] # Empty => x.arb[e] = v.arb[e]
  BY DEF Remains
<1>2. Group \subseteq Lane
  BY Config
<1> QED BY <1>1, <1>2 DEF Grouped

(* What is accepted in a turn leaves the requests of the later turns alone. *)
LEMMA AcceptTurn ==
  ASSUME cfg \in Configs, NEW v \in Unit, NEW W, Grouped(v), NEW k \in 1 .. Elements, Looked(v, k),
         NEW x, Good(x, W), Remains(v, x), Untouched(v, x, k - 1)
  PROVE  /\ Good(Accept(x, Turn(v, k)), W) /\ Remains(v, Accept(x, Turn(v, k)))
         /\ Untouched(v, Accept(x, Turn(v, k)), k)
<1> DEFINE e == Turn(v, k)
           w == Accept(x, e)
<1>1. e \in Lane /\ Offers(v, e) /\ k > k - 1 /\ Group \subseteq Lane
  BY TurnOf, Config DEF Looked
<1>2. Intact(v, x, e)
  BY <1>1 DEF Untouched
<1>3. Offers(x, e)
  BY <1>1, <1>2 DEF Offers, Intact
<1> HIDE DEF e, w
<1>4. /\ Good(w, W)
      /\ Accepts(x, w, {}) \/ Accepts(x, w, {e}) \/ (e \in Group /\ Accepts(x, w, Group))
  BY <1>1, <1>3, AcceptOK, GroupedRemains DEF w
<1>5. PICK E : Accepts(x, w, E) /\ (E = {} \/ E = {e} \/ (e \in Group /\ E = Group))
  BY <1>4
<1>6. Remains(v, w)
  <2>1. Keeps(v, w, {"arb", "fifo"})
    BY <1>5 DEF Remains, Accepts, Keeps
  <2>2. \A f \in Lane : w.arb[f] \in {v.arb[f], Empty}
    BY <1>5 DEF Remains, Accepts
  <2> QED BY <2>1, <2>2 DEF Remains
<1>7. ASSUME NEW i \in 1 .. Elements, i > k, Looked(v, i) PROVE Intact(v, w, Turn(v, i))
  <2> DEFINE f == Turn(v, i)
  <2>1. f \in Lane /\ f # e /\ Offers(v, f) /\ i > k - 1
    <3>1. f # e
      BY <1>7, TurnsApart DEF e
    <3> QED BY <1>7, <3>1, TurnOf DEF Looked
  <2>2. Intact(v, x, f)
    BY <1>7, <2>1 DEF Untouched
  <2> HIDE DEF f
  <2>3. f \notin E
    BY <1>1, <1>5, <2>1 DEF Offers
  <2>4. f \in Group => E \cap Group = {}
    BY <1>1, <1>5, <2>1 DEF Offers
  <2>5. \A g \in Lane : g \notin E => w.arb[g] = x.arb[g]
    BY <1>5 DEF Accepts
  <2>6. w.arb[f] = x.arb[f]
    BY <2>1, <2>3, <2>5
  <2>7. ASSUME f \in Group, NEW g \in Group PROVE w.arb[g] = x.arb[g]
    BY <1>1, <2>4, <2>5, <2>7
  <2> QED BY <2>2, <2>6, <2>7 DEF Intact, f
<1> QED BY <1>4, <1>6, <1>7 DEF Untouched, w, e

(* The arbiter in one cycle.                                                *)
LEMMA ArbiterStageOK ==
  ASSUME cfg \in Configs, NEW v, NEW W, Good(v, W), Grouped(v)
  PROVE  Good(ArbiterStage(v), W) /\ Remains(v, ArbiterStage(v))
<1> DEFINE N == Elements
           V == [k \in 0 .. N |-> {x \in Unit : Good(x, W) /\ Remains(v, x) /\ Untouched(v, x, k)}]
           G == [k \in 1 .. N |-> [x \in V[k-1] |-> (IF Looked(v, k) THEN Accept(x, Turn(v, k)) ELSE x)]]
           Satisfies(f) == f = [i \in 0 .. N |-> IF i = 0 THEN v ELSE (IF Looked(v, i) THEN Accept(f[i-1], Turn(v, i)) ELSE f[i-1])]
           after == CHOOSE f : Satisfies(f)
<1>1. v \in Unit /\ N \in Nat /\ \A k \in 1 .. N : k \in 0 .. N /\ k - 1 \in 0 .. N
  BY Sizes DEF Good
<1>2. v \in V[0]
  BY <1>1 DEF Remains, Keeps, Untouched, Intact
<1>3. ASSUME NEW k \in 1 .. N, NEW x \in V[k-1]
      PROVE  (IF Looked(v, k) THEN Accept(x, Turn(v, k)) ELSE x) \in V[k]
  <2>1. k \in 0 .. N /\ k - 1 \in 0 .. N
    BY <1>1
  <2>2. Good(x, W) /\ Remains(v, x) /\ Untouched(v, x, k - 1)
    BY <2>1
  <2>3. CASE Looked(v, k)
    <3> DEFINE y == Accept(x, Turn(v, k))
    <3>1. Good(y, W) /\ Remains(v, y) /\ Untouched(v, y, k)
      BY <1>1, <2>2, <2>3, AcceptTurn
    <3> HIDE DEF y
    <3>2. y \in Unit
      BY <3>1 DEF Good
    <3>3. y \in V[k]
      BY <2>1, <3>1, <3>2
    <3> QED BY <2>3, <3>3 DEF y
  <2>4. CASE ~Looked(v, k)
    <3>1. Untouched(v, x, k)
      <4>1. \A i \in 1 .. Elements : i > k => i > k - 1
        BY <2>1
      <4> QED BY <2>2, <4>1 DEF Untouched
    <3>2. x \in Unit
      BY <2>2 DEF Good
    <3>3. x \in V[k]
      BY <2>1, <2>2, <3>1, <3>2
    <3> QED BY <2>4, <3>3
  <2> QED BY <2>3, <2>4
<1> HIDE DEF V
<1>4. PICK h \in [0 .. N -> UNION {V[k] : k \in 0 .. N}] :
        Chain(h, N, v, G) /\ \A k \in 0 .. N : h[k] \in V[k]
  <2>1. \A k \in 1 .. N : \A x \in V[k-1] : G[k][x] \in V[k]
    BY <1>3
  <2> HIDE DEF G
  <2> QED BY <1>1, <1>2, <2>1, Chained
<1>5. Satisfies(h)
  <2>1. ASSUME NEW k \in 0 .. N, k # 0 PROVE h[k] = (IF Looked(v, k) THEN Accept(h[k-1], Turn(v, k)) ELSE h[k-1])
    <3>1. k \in 1 .. N /\ k - 1 \in 0 .. N
      BY <1>1, <2>1
    <3> QED BY <1>4, <3>1 DEF Chain
  <2>2. h[0] = v
    BY <1>4 DEF Chain
  <2> QED BY <2>1, <2>2
<1>6. Satisfies(after)
  <2> HIDE DEF Satisfies
  <2> QED BY <1>5
<1>7. ArbiterStage(v) = after[N]
  BY DEF ArbiterStage, Each
<1> HIDE DEF after
<1>8. after[N] \in V[N]
  <2>1. after[0] = v
    BY <1>1, <1>6
  <2>2. \A k \in 1 .. N : after[k-1] \in V[k-1] => after[k] \in V[k]
    <3> SUFFICES ASSUME NEW k \in 1 .. N, after[k-1] \in V[k-1] PROVE after[k] \in V[k]
      OBVIOUS
    <3>1. k \in 0 .. N /\ k # 0
      BY <1>1
    <3>2. after[k] = (IF Looked(v, k) THEN Accept(after[k-1], Turn(v, k)) ELSE after[k-1])
      BY <1>6, <3>1
    <3> QED BY <1>3, <3>2
  <2> HIDE DEF Satisfies, N
  <2> QED BY <1>1, <1>2, <2>1, <2>2, Followed
<1>9. after[N] \in Unit /\ Good(after[N], W) /\ Remains(v, after[N])
  <2>1. N \in 0 .. N
    BY <1>1
  <2> QED BY <1>8, <2>1 DEF V
<1> QED BY <1>7, <1>9

-----------------------------------------------------------------------------
(* The steps.                                                               *)
WaitsFor(f) ==
  {[lane |-> r[1], tag |-> r[2], addr |-> f[r[1]][r[2]]] :
     r \in {x \in Lane \X Tags : f[x[1]][x[2]] # Empty}}

(* The members of Waiting.                                                  *)
LEMMA WaitsForIs ==
  ASSUME NEW f, NEW x
  PROVE  x \in WaitsFor(f) <=> \E e \in Lane, t \in Tags :
           f[e][t] # Empty /\ x = [lane |-> e, tag |-> t, addr |-> f[e][t]]
<1>1. ASSUME NEW e \in Lane, NEW t \in Tags, f[e][t] # Empty
      PROVE  [lane |-> e, tag |-> t, addr |-> f[e][t]] \in WaitsFor(f)
  <2> DEFINE r == <<e, t>>
  <2>1. r \in {y \in Lane \X Tags : f[y[1]][y[2]] # Empty} /\ r[1] = e /\ r[2] = t
    BY <1>1
  <2> QED BY <2>1 DEF WaitsFor
<1>2. ASSUME x \in WaitsFor(f)
      PROVE  \E e \in Lane, t \in Tags :
               f[e][t] # Empty /\ x = [lane |-> e, tag |-> t, addr |-> f[e][t]]
  <2>1. PICK r \in {y \in Lane \X Tags : f[y[1]][y[2]] # Empty} :
          x = [lane |-> r[1], tag |-> r[2], addr |-> f[r[1]][r[2]]]
    BY <1>2 DEF WaitsFor
  <2>2. r[1] \in Lane /\ r[2] \in Tags /\ f[r[1]][r[2]] # Empty
    BY <2>1
  <2> QED BY <2>1, <2>2
<1> QED BY <1>1, <1>2

(* The inductive invariant.                                                 *)
IInv == TypeOK /\ Good(u, Waiting) /\ Grouped(u) /\ u.out = {}

(* Grouped is about the arbiter lines.                                      *)
LEMMA GroupedSame ==
  ASSUME NEW v, NEW w, w.arb = v.arb, Grouped(v)
  PROVE  Grouped(w)
  BY DEF Grouped

(* The constructors give a unit.                                            *)
LEMMA StartIs ==
  /\ Start \in Unit
  /\ \A e \in Lane : Start.arb[e] = Empty
  /\ \A b \in Bank : Start.fifo[b] = <<>> /\ Start.reg[b] = Empty /\ ~Start.asked[b]
  /\ \A i \in 1 .. TabLines : Start.tab[i] = Empty /\ Start.post[i] = NoPosts
  /\ Start.pend = <<>> /\ Start.bus = <<>> /\ Start.mem = <<>> /\ Start.out = {}
  /\ Start.cache = C!NoLines
<1>1. C!NoLines \in C!CacheType
  <2>1. 0 \in 0 .. (Ways - 1)
    BY Sizes
  <2> QED BY <2>1 DEF C!NoLines, C!CacheType
<1>2. 0 \in 0 .. (Elements - 1) /\ 0 \in 0 .. (Banks - 1)
  BY Sizes
<1>3. NoPosts \in [Slot -> Offsets \cup {Empty}]
  BY DEF NoPosts
<1>4. <<>> \in Seq(Line) /\ <<>> \in Seq(Blocks) /\ <<>> \in Seq(Transfer)
  OBVIOUS
<1>5. Start \in Unit
  BY <1>1, <1>2, <1>3, <1>4 DEF Start, Unit
<1>6. /\ Start.arb = [e \in Lane |-> Empty] /\ Start.fifo = [b \in Bank |-> <<>>]
      /\ Start.reg = [b \in Bank |-> Empty] /\ Start.asked = [b \in Bank |-> FALSE]
      /\ Start.tab = [i \in 1 .. TabLines |-> Empty]
      /\ Start.post = [i \in 1 .. TabLines |-> NoPosts]
      /\ Start.pend = <<>> /\ Start.bus = <<>> /\ Start.mem = <<>> /\ Start.out = {}
      /\ Start.cache = C!NoLines
  BY DEF Start
<1> QED BY <1>5, <1>6

(* It is sound.                                                             *)
LEMMA StartSound == Sound(Start) /\ Counted(Start)
<1>1. FifoOK(Start) /\ PendOK(Start) /\ BusOK(Start)
  <2>1. DOMAIN <<>> = {}
    OBVIOUS
  <2> QED BY <2>1, StartIs DEF FifoOK, PendOK, BusOK
<1>2. RegOK(Start) /\ TabOK(Start)
  BY StartIs DEF RegOK, TabOK
<1>3. CacheOK(Start.cache)
  <2>1. ASSUME NEW s \in C!SetId PROVE InOrder(C!NoLines.counter[s], C!NoLines.older[s])
    <3> DEFINE counter == C!NoLines.counter[s]
               older == C!NoLines.older[s]
    <3>1. older = {} /\ \A x \in C!Way : counter[x] = 0
      BY DEF C!NoLines
    <3> HIDE DEF counter, older
    <3>2. InOrder(counter, older)
      BY <3>1 DEF InOrder
    <3> QED BY <3>2 DEF counter, older
  <2>2. \A s \in C!SetId, x \in C!Way : ~C!NoLines.dirty[s][x]
    BY DEF C!NoLines
  <2> QED BY <2>1, <2>2, StartIs DEF CacheOK
<1>4. Counted(Start)
  <2>1. ASSUME NEW b \in Blocks PROVE Fetching(Start, b) = {} /\ Reading(<<>>, b) = {}
    BY StartIs DEF Fetching, Reading
  <2>2. Cardinality({}) = 0 /\ Cardinality({}) + Cardinality({}) = 0
    BY FS_EmptySet
  <2>3. ASSUME NEW b \in Blocks
        PROVE  Cardinality(Fetching(Start, b)) =
                 Cardinality(Reading(Start.bus, b)) + Cardinality(Reading(Start.mem, b))
    <3>1. Fetching(Start, b) = {} /\ Reading(Start.bus, b) = {} /\ Reading(Start.mem, b) = {}
      BY <2>1, StartIs
    <3> QED BY <2>2, <3>1
  <2> QED BY <2>3 DEF Counted
<1> QED BY <1>1, <1>2, <1>3, <1>4 DEF Sound

(* It holds no request.                                                     *)
LEMMA StartEmpty == Split(Start, {})
<1>1. ASSUME NEW p \in Place PROVE Box(Start, p) = {}
  <2>1. CASE p[1] = "arb"
    BY <2>1, StartIs DEF Place, Box, OrderItems
  <2>2. CASE p[1] = "reg"
    BY <2>2, StartIs DEF Place, Box, LineItems
  <2>3. CASE p[1] = "fifo"
    BY <2>3, StartIs, NoItems DEF Place, Box
  <2>4. CASE p[1] = "tab"
    BY <2>4, StartIs DEF Place, Box, TabItems
  <2>5. CASE p[1] = "post"
    BY <2>5, StartIs DEF Place, Box, PostItems
  <2>6. CASE p[1] \in {"pend", "out"}
    BY <2>6, StartIs, NoItems DEF Place, Box
  <2> QED BY <2>1, <2>2, <2>3, <2>4, <2>5, <2>6 DEF Place
<1>2. Apart(Start.pend) /\ \A b \in Bank : Apart(Start.fifo[b])
  BY StartIs, NoItems
<1> QED BY <1>1, <1>2 DEF Split

(* Initially.                                                               *)
LEMMA InitOK == Init => IInv
<1> SUFFICES ASSUME Init PROVE IInv
  OBVIOUS
<1>1. cfg \in Configs /\ u = Start /\ waiting = [e \in Lane |-> [t \in Tags |-> Empty]]
  BY DEF Init
<1>2. Waiting = {}
  <2>1. \A x \in Lane \X Tags : waiting[x[1]][x[2]] = Empty
    BY <1>1
  <2> QED BY <2>1 DEF Waiting
<1>3. TypeOK
  BY <1>1, StartIs DEF TypeOK
<1>4. Good(u, Waiting)
  BY <1>1, <1>2, StartIs, StartSound, StartEmpty DEF Good
<1>5. Grouped(u) /\ u.out = {}
  BY <1>1, StartIs DEF Grouped
<1> QED BY <1>3, <1>4, <1>5 DEF IInv

WithArb(v, e, req) == [v EXCEPT !.arb[e] = req]

(* Only the arbiter line of e changes.                                      *)
LEMMA WithArbIs ==
  ASSUME NEW v \in Unit, NEW e \in Lane, NEW req \in Ordered
  PROVE  /\ WithArb(v, e, req) \in Unit /\ Keeps(v, WithArb(v, e, req), {"arb"})
         /\ WithArb(v, e, req).arb[e] = req
         /\ \A k \in Lane : k # e => WithArb(v, e, req).arb[k] = v.arb[k]
<1> DEFINE arb == [v.arb EXCEPT ![e] = req]
           w == WithArb(v, e, req)
<1>1. v.arb \in [Lane -> Ordered \cup {Empty}]
  BY UnitFields
<1>2. /\ arb \in [Lane -> Ordered \cup {Empty}] /\ arb[e] = req
      /\ \A k \in Lane : k # e => arb[k] = v.arb[k]
  BY <1>1
<1>3. w = [v EXCEPT !.arb = arb]
  BY DEF WithArb
<1> HIDE DEF arb, w
<1>4. w \in Unit
  BY <1>2, <1>3 DEF Unit
<1>5. w.arb = arb
  BY <1>3, UnitFields DEF Fields
<1>6. Keeps(v, w, {"arb"})
  BY <1>3 DEF Keeps
<1> QED BY <1>2, <1>4, <1>5, <1>6 DEF w

(* A new request goes to an arbiter line that was empty.                    *)
LEMMA ArbPut ==
  ASSUME NEW v \in Unit, NEW w, NEW W, Split(v, W), NEW e \in Lane, v.arb[e] = Empty,
         Keeps(v, w, {"arb"}), \A k \in Lane : k # e => w.arb[k] = v.arb[k],
         OrderItems(e, w.arb[e]) \cap W = {}
  PROVE  Split(w, W \cup OrderItems(e, w.arb[e]))
<1> DEFINE p == <<"arb", e, 0>>
<1>1. Keeps(v, w, Aside \cup {"arb"})
  BY DEF Keeps
<1>2. OneChanged(v, w, p)
  BY <1>1, ArbChanged
<1>3. Box(v, p) = {} /\ Box(w, p) = OrderItems(e, w.arb[e])
  BY DEF Box, OrderItems
<1> HIDE DEF p
<1> QED BY <1>2, <1>3, Put

(* An element asks: its request was nowhere before.                         *)
LEMMA AskOK ==
  ASSUME IInv, NEW e \in Lane, NEW t \in cfg.tags, NEW addr \in cfg.addrs[e], Ask(e, t, addr)
  PROVE  IInv' /\ u'.cache = u.cache
<1> DEFINE req == [addr |-> addr, tag |-> t, wr |-> e \in cfg.stores]
           x == [lane |-> e, tag |-> t, addr |-> addr]
           M == OrderItems(e, req)
<1>1. /\ TypeOK /\ Good(u, Waiting) /\ Grouped(u) /\ u.out = {}
      /\ cfg \in Configs /\ u \in Unit /\ Sound(u) /\ Counted(u) /\ Split(u, Waiting)
  BY DEF IInv, TypeOK, Good
<1>2. /\ u.arb[e] = Empty /\ waiting[e][t] = Empty
      /\ e \in Group => /\ addr = cfg.base[t] + e * cfg.step
                        /\ \A k \in Group : u.arb[k] # Empty => u.arb[k].tag = t
      /\ u' = WithArb(u, e, req)
      /\ waiting' = IF e \in cfg.stores THEN waiting ELSE [waiting EXCEPT ![e][t] = addr]
      /\ cfg' = cfg
  BY DEF Ask, WithArb
<1>3. t \in Tags /\ addr \in Addr /\ Empty \notin Addr /\ Empty \notin Ordered
  BY <1>1, Config, NoneIs
<1>4. req \in Ordered /\ req # Empty /\ req.addr = addr /\ req.tag = t /\ req.wr = (e \in cfg.stores)
  <2> DEFINE b == e \in cfg.stores
  <2>2. b \in BOOLEAN
    OBVIOUS
  <2> HIDE DEF b
  <2>3. [addr |-> addr, tag |-> t, wr |-> b] \in Ordered
    BY <1>3, <2>2 DEF Ordered
  <2>4. req \in Ordered
    BY <2>3 DEF b
  <2>5. req.wr = (e \in cfg.stores)
    OBVIOUS
  <2>6. req # Empty
    BY <1>3, <2>4
  <2> QED BY <2>4, <2>5, <2>6
<1>5. waiting \in [Lane -> [Tags -> Addr \cup {Empty}]]
  BY <1>1 DEF TypeOK
<1>6. M = IF e \in cfg.stores THEN {} ELSE {x}
  BY <1>4 DEF OrderItems
<1> HIDE DEF req
<1>7. /\ u' \in Unit /\ Keeps(u, u', {"arb"}) /\ u'.arb[e] = req
      /\ \A k \in Lane : k # e => u'.arb[k] = u.arb[k]
  BY <1>1, <1>2, <1>4, WithArbIs
<1>8. waiting' \in [Lane -> [Tags -> Addr \cup {Empty}]]
  BY <1>2, <1>3, <1>5
<1>9. M \cap Waiting = {}
  <2>1. x \notin WaitsFor(waiting)
    <3>1. \A d \in Lane, s \in Tags : waiting[d][s] # Empty => d # e \/ s # t
      BY <1>2
    <3> QED BY <3>1, WaitsForIs
  <2>2. Waiting = WaitsFor(waiting)
    BY DEF Waiting, WaitsFor
  <2> QED BY <1>6, <2>1, <2>2
<1>10. Waiting' = Waiting \cup M
  <2>1. Waiting = WaitsFor(waiting) /\ Waiting' = WaitsFor(waiting')
    BY DEF Waiting, WaitsFor
  <2>2. CASE e \in cfg.stores
    BY <1>2, <1>6, <2>1, <2>2
  <2>3. CASE e \notin cfg.stores
    <3> DEFINE f == waiting'
    <3>1. /\ f[e][t] = addr
          /\ \A d \in Lane, s \in Tags : d # e \/ s # t => f[d][s] = waiting[d][s]
      BY <1>2, <1>3, <1>5, <2>3
    <3> HIDE DEF f, x
    <3>2. ASSUME NEW y PROVE y \in WaitsFor(f) <=> y \in WaitsFor(waiting) \cup {x}
      <4>1. ASSUME y \in WaitsFor(f) PROVE y \in WaitsFor(waiting) \cup {x}
        <5>1. PICK d \in Lane, s \in Tags : f[d][s] # Empty /\ y = [lane |-> d, tag |-> s, addr |-> f[d][s]]
          BY <4>1, WaitsForIs
        <5>2. CASE d = e /\ s = t
          BY <3>1, <5>1, <5>2 DEF x
        <5>3. CASE d # e \/ s # t
          <6>1. f[d][s] = waiting[d][s]
            BY <3>1, <5>3
          <6>2. y \in WaitsFor(waiting)
            BY <5>1, <6>1, WaitsForIs
          <6> QED BY <6>2
        <5> QED BY <5>2, <5>3
      <4>2. ASSUME y \in WaitsFor(waiting) PROVE y \in WaitsFor(f)
        <5>1. PICK d \in Lane, s \in Tags :
                waiting[d][s] # Empty /\ y = [lane |-> d, tag |-> s, addr |-> waiting[d][s]]
          BY <4>2, WaitsForIs
        <5>2. f[d][s] = waiting[d][s]
          BY <1>2, <3>1, <5>1
        <5> QED BY <5>1, <5>2, WaitsForIs
      <4>3. x \in WaitsFor(f)
        BY <1>3, <3>1, WaitsForIs DEF x
      <4> QED BY <4>1, <4>2, <4>3
    <3>3. WaitsFor(f) = WaitsFor(waiting) \cup {x}
      BY <3>2
    <3> QED BY <1>6, <2>1, <2>3, <3>3 DEF f
  <2> QED BY <2>2, <2>3
<1>11. Split(u', Waiting \cup M)
  <2> DEFINE w == u'
  <2>1. w.arb[e] = req /\ Keeps(u, w, {"arb"}) /\ \A k \in Lane : k # e => w.arb[k] = u.arb[k]
    BY <1>7
  <2> HIDE DEF w
  <2> QED BY <1>1, <1>2, <1>9, <2>1, ArbPut DEF w
<1>12. /\ FifoOK(u') /\ RegOK(u') /\ PendOK(u') /\ TabOK(u') /\ BusOK(u') /\ CacheOK(u'.cache)
       /\ Counted(u')
  <2> DEFINE w == u'
  <2>1. Keeps(u, w, {"arb"})
    BY <1>7
  <2> HIDE DEF w
  <2>2. /\ FifoOK(w) /\ RegOK(w) /\ PendOK(w) /\ TabOK(w) /\ BusOK(w) /\ CacheOK(w.cache)
        /\ Counted(w)
    BY <1>1, <2>1, SoundKept, CountedKept
  <2> QED BY <2>2 DEF w
<1>13. Good(u', Waiting')
  BY <1>7, <1>10, <1>11, <1>12 DEF Good, Sound
<1>14. u'.out = {} /\ u'.cache = u.cache
  BY <1>1, <1>7, Kept
<1>15. Grouped(u')
  <2> DEFINE w == u'
  <2>1. w.arb[e] = req /\ \A k \in Lane : k # e => w.arb[k] = u.arb[k]
    BY <1>7
  <2> HIDE DEF w
  <2>2. Group \subseteq Lane
    BY <1>1, Config
  <2>3. ASSUME NEW d \in Lane, w.arb[d] # Empty
        PROVE  /\ w.arb[d].wr = (d \in cfg.stores)
               /\ d \in Group => w.arb[d].addr = cfg.base[w.arb[d].tag] + d * cfg.step
    <3>1. CASE d = e
      BY <1>2, <1>4, <2>1, <3>1
    <3>2. CASE d # e
      BY <1>1, <2>1, <2>3, <3>2 DEF Grouped
    <3> QED BY <3>1, <3>2
  <2>4. ASSUME NEW d \in Group, w.arb[d] # Empty, NEW k \in Group, w.arb[k] # Empty
        PROVE  w.arb[k].tag = w.arb[d].tag
    <3>1. CASE d # e /\ k # e
      BY <1>1, <2>1, <2>2, <2>4, <3>1 DEF Grouped
    <3>2. CASE d = e \/ k = e
      <4>1. e \in Group
        BY <3>2
      <4>2. \A j \in Group : w.arb[j] # Empty => w.arb[j].tag = t
        BY <1>2, <1>4, <2>1, <2>2, <4>1
      <4> QED BY <2>4, <4>2
    <3> QED BY <3>1, <3>2
  <2>5. Grouped(w)
    BY <2>3, <2>4 DEF Grouped
  <2> QED BY <2>5 DEF w
<1>16. (Grouped(u))'
  BY <1>2, <1>15 DEF Grouped, Group
<1>17. TypeOK'
  BY <1>1, <1>2, <1>7, <1>8 DEF TypeOK
<1> QED BY <1>13, <1>14, <1>16, <1>17 DEF IInv

WithMem(v, s) == [v EXCEPT !.mem = s]

(* Only the memory changes.                                                 *)
LEMMA WithMemIs ==
  ASSUME NEW v \in Unit, NEW s \in Seq(Transfer)
  PROVE  /\ WithMem(v, s) \in Unit /\ Keeps(v, WithMem(v, s), {"mem"})
         /\ WithMem(v, s).mem = s
<1> DEFINE w == WithMem(v, s)
<1>1. w = [v EXCEPT !.mem = s]
  BY DEF WithMem
<1> HIDE DEF w
<1>2. w \in Unit
  BY <1>1 DEF Unit
<1>3. w.mem = s
  BY <1>1, UnitFields DEF Fields
<1>4. Keeps(v, w, {"mem"})
  BY <1>1 DEF Keeps
<1> QED BY <1>2, <1>3, <1>4 DEF w

(* The memory after its k-th transfer.                                      *)
Left(v, k) == WithMem(v, RemoveAt(v.mem, k))

(* The transfer that is complete has left the memory.                       *)
LEMMA LeftIs ==
  ASSUME NEW v, NEW W, Good(v, W), NEW k \in DOMAIN v.mem
  PROVE  /\ Fit(Left(v, k), W) /\ Keeps(v, Left(v, k), {"mem"}) /\ v.mem[k] \in Transfer
         /\ v.mem[k].wr => Counted(Left(v, k))
         /\ ~v.mem[k].wr => Answering(Left(v, k), v.mem[k].block)
<1> DEFINE s == v.mem
           r == RemoveAt(s, k)
           w == Left(v, k)
<1>1. v \in Unit /\ Sound(v) /\ Counted(v) /\ Split(v, W) /\ Fit(v, W)
  BY DEF Good, Fit
<1>2. s \in Seq(Transfer) /\ k \in 1 .. Len(s)
  BY <1>1, UnitFields, LenProperties
<1> HIDE DEF s
<1>3. r \in Seq(Transfer) /\ s[k] \in Transfer
  BY <1>2, RemoveAtIs, ElementOfSeq
<1>4. ASSUME NEW b
      PROVE Cardinality(Reading(s, b)) =
              Cardinality(Reading(r, b)) + IF ~s[k].wr /\ s[k].block = b THEN 1 ELSE 0
  BY <1>2, RemovedReading
<1> HIDE DEF r
<1>5. w = WithMem(v, r)
  BY DEF Left, r, s
<1> HIDE DEF w
<1>6. w \in Unit /\ Keeps(v, w, {"mem"}) /\ w.mem = r
  BY <1>1, <1>3, <1>5, WithMemIs
<1>7. w.bus = v.bus /\ w.tab = v.tab /\ BusOK(w) /\ CacheOK(w.cache)
  BY <1>1, <1>6, Kept, SoundKept
<1>8. Fit(w, W)
  BY <1>1, <1>6, <1>7, FitKept DEF Aside
<1>9. ASSUME NEW b \in Blocks
      PROVE  Cardinality(Fetching(w, b)) = ReadsOf(w, b) + IF ~s[k].wr /\ s[k].block = b THEN 1 ELSE 0
  <2> DEFINE f == Cardinality(Fetching(v, b))
             x == Cardinality(Reading(v.bus, b))
             y == Cardinality(Reading(r, b))
             one == IF ~s[k].wr /\ s[k].block = b THEN 1 ELSE 0
  <2>1. f = x + Cardinality(Reading(s, b))
    BY <1>1 DEF Counted, s
  <2>2. f = x + (y + one)
    BY <1>4, <2>1
  <2>3. x \in Nat /\ y \in Nat /\ one \in Nat
    BY <1>1, <1>3, UnitFields, ReadingFinite, FS_CardinalityType
  <2>4. Cardinality(Fetching(w, b)) = f
    BY <1>7 DEF Fetching
  <2>5. ReadsOf(w, b) = x + y
    BY <1>6, <1>7 DEF ReadsOf
  <2> HIDE DEF f, x, y, one
  <2>6. f = (x + y) + one
    BY <2>2, <2>3
  <2> QED BY <2>4, <2>5, <2>6 DEF one
<1>10. s[k].wr => Counted(w)
  <2> SUFFICES ASSUME s[k].wr, NEW b \in Blocks
               PROVE Cardinality(Fetching(w, b)) = ReadsOf(w, b)
    BY DEF Counted, ReadsOf
  <2>1. Cardinality(Fetching(w, b)) = ReadsOf(w, b) + 0
    BY <1>9
  <2>2. ReadsOf(w, b) \in Nat
    BY <1>6, ReadsOfType
  <2> QED BY <2>1, <2>2
<1>11. ~s[k].wr => Answering(w, s[k].block)
  BY <1>9 DEF Answering
<1> QED BY <1>3, <1>6, <1>8, <1>10, <1>11 DEF s, w

(* The memory completes a transfer.                                         *)
LEMMA CompleteOK ==
  ASSUME IInv, NEW k \in DOMAIN u.mem, Complete(k)
  PROVE  IInv' /\ ReplacesOldest(u, u')
<1> DEFINE tran == u.mem[k]
           v == Left(u, k)
           w == IF tran.wr THEN MemWriteComplete(v, tran.block) ELSE MemReadComplete(v, tran.block)
<1>1. /\ TypeOK /\ Good(u, Waiting) /\ Grouped(u) /\ u.out = {} /\ u \in Unit
  BY DEF IInv, TypeOK
<1>2. u' = w /\ cfg' = cfg /\ waiting' = waiting
  BY DEF Complete, Left, WithMem
<1>3. /\ Fit(v, Waiting) /\ Keeps(u, v, {"mem"}) /\ tran \in Transfer
      /\ tran.wr => Counted(v)
      /\ ~tran.wr => Answering(v, tran.block)
  BY <1>1, LeftIs
<1>4. tran.block \in Blocks /\ tran.wr \in BOOLEAN
  BY <1>3 DEF Transfer
<1> HIDE DEF tran, v
<1>5. Good(w, Waiting) /\ w.arb = v.arb /\ w.out = v.out /\ ReplacesOldest(v, w)
  <2>1. CASE tran.wr
    <3>1. Good(v, Waiting)
      BY <1>3, <2>1, GoodIs
    <3> QED BY <1>4, <2>1, <3>1, MemWriteCompleteOK
  <2>2. CASE ~tran.wr
    BY <1>3, <1>4, <2>2, MemReadCompleteOK
  <2> QED BY <2>1, <2>2
<1> HIDE DEF w
<1>6. v.arb = u.arb /\ v.out = u.out /\ v.cache = u.cache
  BY <1>1, <1>3, Kept
<1>7. Waiting' = Waiting
  BY <1>2 DEF Waiting
<1>8. Good(u', Waiting') /\ u'.out = {} /\ ReplacesOldest(u, u')
  BY <1>1, <1>2, <1>5, <1>6, <1>7 DEF ReplacesOldest
<1>9. Grouped(w)
  BY <1>1, <1>5, <1>6, GroupedSame
<1>10. (Grouped(u))'
  BY <1>2, <1>9 DEF Grouped, Group
<1>11. w \in Unit
  BY <1>5 DEF Good
<1>12. TypeOK'
  BY <1>1, <1>2, <1>11 DEF TypeOK
<1> QED BY <1>8, <1>10, <1>12 DEF IInv

(* The callbacks of a cycle are out of the unit.                            *)
LEMMA Answers ==
  ASSUME NEW v, NEW w, NEW W, Good(v, W), w = [v EXCEPT !.out = {}]
  PROVE  Good(w, W \ v.out) /\ w.arb = v.arb /\ w.out = {} /\ w.cache = v.cache
<1> DEFINE p == <<"out", 0, 0>>
<1>1. v \in Unit /\ Sound(v) /\ Counted(v) /\ Split(v, W)
  BY DEF Good
<1>2. w \in Unit
  BY <1>1 DEF Unit
<1>3. Keeps(v, w, {"out"}) /\ w.out = {}
  BY <1>1, UnitFields DEF Keeps, Fields
<1>4. Keeps(v, w, Aside \cup {"out"})
  BY <1>3 DEF Keeps
<1>5. OneChanged(v, w, p) /\ Box(v, p) = v.out /\ Box(w, p) = {}
  BY <1>1, <1>3, <1>4, OutChanged
<1> HIDE DEF p
<1>6. Split(w, W \ v.out)
  BY <1>1, <1>5, Taken
<1>7. Sound(w) /\ Counted(w)
  BY <1>1, <1>3, SoundKept, CountedKept DEF Sound
<1>8. w.arb = v.arb /\ w.cache = v.cache
  BY <1>1, <1>3, Kept
<1> QED BY <1>2, <1>3, <1>6, <1>7, <1>8 DEF Good

WithClk(v, n) == [v EXCEPT !.clk = n]

(* The clock.                                                               *)
LEMMA WithClkOK ==
  ASSUME NEW v, NEW W, Good(v, W), NEW n \in 0 .. (Elements - 1)
  PROVE  Good(WithClk(v, n), W) /\ Still(v, WithClk(v, n))
<1> DEFINE w == WithClk(v, n)
<1>1. v \in Unit /\ Sound(v) /\ Counted(v) /\ Split(v, W)
  BY DEF Good
<1>2. w = [v EXCEPT !.clk = n]
  BY DEF WithClk
<1> HIDE DEF w
<1>3. w \in Unit
  BY <1>1, <1>2 DEF Unit
<1>4. Keeps(v, w, {"clk"})
  BY <1>2 DEF Keeps
<1>5. Keeps(v, w, Aside)
  BY <1>4 DEF Keeps, Aside
<1>6. Split(w, W)
  BY <1>1, <1>5, NothingMoved
<1>7. Sound(w) /\ Counted(w)
  BY <1>1, <1>4, SoundKept, CountedKept DEF Sound
<1>8. w.arb = v.arb /\ w.cache = v.cache
  BY <1>1, <1>4, Kept
<1> QED BY <1>3, <1>6, <1>7, <1>8 DEF Good, Still, w

(* The phases of an update, one after the other.                            *)
LEMMA UpdatedOK ==
  ASSUME IInv
  PROVE  Good(Updated, Waiting) /\ Grouped(Updated) /\ Updated.cache.block = u.cache.block
<1> DEFINE x0 == WithClk(u, (u.clk + 1) % Elements)
           x1 == BusUpdate(x0)
           x2 == DrainPending(x1)
           x3 == CacheUpdate(x2)
           x4 == MshrReturn(x3)
           x5 == FifoStage(x4)
           x6 == ArbiterStage(x5)
<1>1. TypeOK /\ Good(u, Waiting) /\ Grouped(u) /\ cfg \in Configs /\ u \in Unit
  BY DEF IInv, TypeOK
<1>2. Updated = x6
  BY DEF Updated, WithClk
<1> DEFINE n == (u.clk + 1) % Elements
<1>3. n \in 0 .. (Elements - 1)
  <2>1. Elements \in Nat /\ Elements > 0 /\ u.clk \in 0 .. (Elements - 1)
    BY <1>1, Sizes, UnitFields
  <2>2. u.clk + 1 \in Nat
    BY <2>1
  <2> DEFINE a == u.clk + 1
  <2> HIDE DEF a
  <2>3. a % Elements \in 0 .. (Elements - 1)
    BY <2>1, <2>2 DEF a
  <2> QED BY <2>3 DEF a
<1>4. x0 = WithClk(u, n)
  OBVIOUS
<1> HIDE DEF n, x0
<1>5. Good(x0, Waiting) /\ Still(u, x0)
  BY <1>1, <1>3, <1>4, WithClkOK
<1>6. Good(x1, Waiting) /\ Still(x0, x1)
  BY <1>5, BusUpdateOK
<1> HIDE DEF x1
<1>7. Good(x2, Waiting) /\ Still(x1, x2)
  BY <1>6, DrainPendingOK
<1> HIDE DEF x2
<1>8. Good(x3, Waiting) /\ Still(x2, x3)
  BY <1>7, CacheUpdateOK
<1> HIDE DEF x3
<1>9. Good(x4, Waiting) /\ Still(x3, x4)
  BY <1>8, MshrReturnOK
<1> HIDE DEF x4
<1>10. Good(x5, Waiting) /\ Still(x4, x5)
  BY <1>9, FifoStageOK
<1> HIDE DEF x5
<1>11. x5.arb = u.arb /\ x5.cache.block = u.cache.block
  BY <1>5, <1>6, <1>7, <1>8, <1>9, <1>10 DEF Still
<1>12. Grouped(x5)
  BY <1>1, <1>11, GroupedSame
<1>13. Good(x6, Waiting) /\ Remains(x5, x6)
  BY <1>1, <1>10, <1>12, ArbiterStageOK
<1> HIDE DEF x6
<1>14. Grouped(x6)
  BY <1>1, <1>12, <1>13, GroupedRemains
<1>15. x6.cache = x5.cache
  <2>1. x5 \in Unit /\ Keeps(x5, x6, {"arb", "fifo"})
    BY <1>10, <1>13 DEF Good, Remains
  <2> QED BY <2>1, Kept
<1> QED BY <1>2, <1>11, <1>13, <1>14, <1>15

(* The elements wait no longer for what was answered, and for nothing else  *)
(* less.                                                                    *)
LEMMA UpdateOK ==
  ASSUME IInv, Update
  PROVE  IInv' /\ u'.cache.block = u.cache.block
<1> DEFINE v == Updated
           f == waiting'
<1>1. TypeOK /\ waiting \in [Lane -> [Tags -> Addr \cup {Empty}]]
  BY DEF IInv, TypeOK
<1>2. /\ u' = [v EXCEPT !.out = {}] /\ cfg' = cfg
      /\ f = [e \in Lane |-> [t \in Tags |->
               IF [lane |-> e, tag |-> t, addr |-> waiting[e][t]] \in v.out
               THEN Empty ELSE waiting[e][t]]]
  BY DEF Update
<1>3. Good(v, Waiting) /\ Grouped(v) /\ v.cache.block = u.cache.block
  BY UpdatedOK
<1> HIDE DEF v
<1>4. Waiting' = Waiting \ v.out
  <2>1. Waiting = WaitsFor(waiting) /\ Waiting' = WaitsFor(f)
    BY DEF Waiting, WaitsFor
  <2> DEFINE It(e, t) == [lane |-> e, tag |-> t, addr |-> waiting[e][t]]
  <2>2. \A e \in Lane, t \in Tags : f[e][t] = IF It(e, t) \in v.out THEN Empty ELSE waiting[e][t]
    BY <1>2
  <2> HIDE DEF f
  <2>3. ASSUME NEW x PROVE x \in WaitsFor(f) <=> x \in WaitsFor(waiting) \ v.out
    <3>1. ASSUME x \in WaitsFor(f) PROVE x \in WaitsFor(waiting) \ v.out
      <4>1. PICK e \in Lane, t \in Tags : f[e][t] # Empty /\ x = [lane |-> e, tag |-> t, addr |-> f[e][t]]
        BY <3>1, WaitsForIs
      <4>2. It(e, t) \notin v.out /\ f[e][t] = waiting[e][t]
        BY <2>2, <4>1
      <4>3. x \in WaitsFor(waiting)
        BY <4>1, <4>2, WaitsForIs
      <4> QED BY <4>1, <4>2, <4>3
    <3>2. ASSUME x \in WaitsFor(waiting), x \notin v.out PROVE x \in WaitsFor(f)
      <4>1. PICK e \in Lane, t \in Tags :
              waiting[e][t] # Empty /\ x = [lane |-> e, tag |-> t, addr |-> waiting[e][t]]
        BY <3>2, WaitsForIs
      <4>2. f[e][t] = waiting[e][t]
        BY <2>2, <3>2, <4>1
      <4> QED BY <4>1, <4>2, WaitsForIs
    <3> QED BY <3>1, <3>2
  <2> QED BY <2>1, <2>3
<1>5. waiting' \in [Lane -> [Tags -> Addr \cup {Empty}]]
  BY <1>1, <1>2
<1> DEFINE w == u'
<1>6. w = [v EXCEPT !.out = {}]
  BY <1>2
<1> HIDE DEF w
<1>7. Good(w, Waiting \ v.out) /\ w.arb = v.arb /\ w.out = {} /\ w.cache = v.cache
  BY <1>3, <1>6, Answers
<1>8. Grouped(w) /\ w \in Unit
  BY <1>3, <1>7, GroupedSame DEF Good
<1>9. Good(u', Waiting') /\ u'.out = {} /\ u' \in Unit /\ u'.cache.block = u.cache.block
  BY <1>3, <1>4, <1>7, <1>8 DEF w
<1>10. (Grouped(u))'
  BY <1>2, <1>8 DEF Grouped, Group, w
<1>11. TypeOK'
  BY <1>1, <1>2, <1>5, <1>9 DEF TypeOK
<1> QED BY <1>9, <1>10, <1>11 DEF IInv

-----------------------------------------------------------------------------
(* Held, place by place.                                                    *)
Strip(h) == [lane |-> h.lane, tag |-> h.tag, addr |-> h.addr]
Named(at, X) == {[at |-> at, lane |-> x.lane, tag |-> x.tag, addr |-> x.addr] : x \in X}

HeldIn(h, p) ==
  CASE p[1] = "arb"  -> h \in Named(<<"arb", p[2]>>, Box(u, p))
    [] p[1] = "reg"  -> h \in Named(<<"reg", p[2]>>, Box(u, p))
    [] p[1] = "tab"  -> h \in Named(<<"tab", p[2]>>, Box(u, p))
    [] p[1] = "post" -> h \in Named(<<"post", p[2], p[3]>>, Box(u, p))
    [] p[1] = "fifo" -> \E i \in DOMAIN u.fifo[p[2]] :
                          h \in Named(<<"fifo", p[2], i>>, LineItems(u.fifo[p[2]][i]))
    [] p[1] = "pend" -> \E i \in DOMAIN u.pend : h \in Named(<<"pend", i>>, LineItems(u.pend[i]))
    [] p[1] = "out"  -> FALSE

(* In and Items list the same requests.                                     *)
LEMMA InIs ==
  ASSUME NEW at, NEW block, NEW off
  PROVE  In(at, block, off) = Named(at, Items(block, off))
<1> DEFINE It(w) == Callback(block, w, off[w].lane, off[w].tag)
           S == {x \in Word : off[x] # Empty}
<1>1. In(at, block, off) = {[at |-> at, lane |-> It(w).lane, tag |-> It(w).tag, addr |-> It(w).addr] : w \in S}
  BY DEF In, Callback
<1>2. Items(block, off) = {It(w) : w \in S}
  BY DEF Items
<1> HIDE DEF It, S
<1> QED BY <1>1, <1>2 DEF Named

(* A held request is the one of its place.                                  *)
LEMMA NamedIs ==
  ASSUME NEW at, NEW X, NEW W, X \subseteq WaitsFor(W), NEW h, h \in Named(at, X)
  PROVE  Strip(h) \in X /\ h = [at |-> at, lane |-> Strip(h).lane, tag |-> Strip(h).tag, addr |-> Strip(h).addr]
<1>1. PICK x \in X : h = [at |-> at, lane |-> x.lane, tag |-> x.tag, addr |-> x.addr]
  BY DEF Named
<1>2. x = [lane |-> x.lane, tag |-> x.tag, addr |-> x.addr]
  <2>1. x \in WaitsFor(W)
    BY <1>1
  <2>2. PICK e \in Lane, t \in Tags : x = [lane |-> e, tag |-> t, addr |-> W[e][t]]
    BY <2>1, WaitsForIs
  <2> QED BY <2>2
<1>3. Strip(h) = x
  BY <1>1, <1>2 DEF Strip
<1> QED BY <1>1, <1>3

(* Every request of a place is held there.                                  *)
LEMMA NamedHas ==
  ASSUME NEW at, NEW X, NEW W, X \subseteq WaitsFor(W), NEW x \in X
  PROVE  \E h \in Named(at, X) : Strip(h) = x
<1> DEFINE h == [at |-> at, lane |-> x.lane, tag |-> x.tag, addr |-> x.addr]
<1>1. h \in Named(at, X)
  BY DEF Named
<1>2. Strip(h) = x
  <2>1. PICK e \in Lane, t \in Tags : x = [lane |-> e, tag |-> t, addr |-> W[e][t]]
    BY WaitsForIs
  <2> QED BY <2>1 DEF Strip
<1> QED BY <1>1, <1>2

(* A request is held where a place of the unit has it, and nowhere else.    *)
LEMMA HeldIs ==
  ASSUME u.out = {}, NEW h
  PROVE  h \in Held <=> \E p \in Place : HeldIn(h, p)
<1>1. \A e \in Lane : Asked(e) = Named(<<"arb", e>>, Box(u, <<"arb", e, 0>>))
  <2> SUFFICES ASSUME NEW e \in Lane
               PROVE  Asked(e) = Named(<<"arb", e>>, OrderItems(e, u.arb[e]))
    BY DEF Box
  <2>1. CASE u.arb[e] = Empty \/ u.arb[e].wr
    BY <2>1 DEF Asked, Named, OrderItems
  <2>2. CASE ~(u.arb[e] = Empty \/ u.arb[e].wr)
    <3> DEFINE x == [lane |-> e, tag |-> u.arb[e].tag, addr |-> u.arb[e].addr]
    <3>1. OrderItems(e, u.arb[e]) = {x}
      BY <2>2 DEF OrderItems
    <3>2. Asked(e) = {[at |-> <<"arb", e>>, lane |-> x.lane, tag |-> x.tag, addr |-> x.addr]}
      BY <2>2 DEF Asked
    <3> HIDE DEF x
    <3> QED BY <3>1, <3>2 DEF Named
  <2> QED BY <2>1, <2>2
<1>2. \A at, line : Reads(at, line) = Named(at, LineItems(line))
  <2>1. \A at : Named(at, {}) = {}
    BY DEF Named
  <2> QED BY <2>1, InIs DEF Reads, LineItems
<1>3. ASSUME NEW i \in 1 .. TabLines, NEW k
      PROVE k \in InTable(i) <=> \/ k \in Named(<<"tab", i>>, Box(u, <<"tab", i, 0>>))
                                 \/ \E j \in Slot : k \in Named(<<"post", i, j>>, Box(u, <<"post", i, j>>))
  <2>1. \A at : Named(at, {}) = {}
    BY DEF Named
  <2>2. Box(u, <<"tab", i, 0>>) = TabItems(u, i) /\ \A j \in Slot : Box(u, <<"post", i, j>>) = PostItems(u, i, j)
    BY DEF Box
  <2>3. CASE u.tab[i] = Empty
    BY <2>1, <2>2, <2>3 DEF InTable, TabItems, PostItems
  <2>4. CASE u.tab[i] # Empty
    <3>1. TabItems(u, i) = Items(u.tab[i].block, u.tab[i].off)
      BY <2>4 DEF TabItems
    <3>2. \A j \in Slot : PostItems(u, i, j) = IF u.post[i][j] = Empty THEN {} ELSE Items(u.tab[i].block, u.post[i][j])
      BY <2>4 DEF PostItems
    <3>3. k \in InTable(i) <=>
            \/ k \in In(<<"tab", i>>, u.tab[i].block, u.tab[i].off)
            \/ \E j \in Slot : u.post[i][j] # Empty /\ k \in In(<<"post", i, j>>, u.tab[i].block, u.post[i][j])
      BY <2>4 DEF InTable
    <3> QED BY <2>1, <2>2, <3>1, <3>2, <3>3, InIs
  <2> QED BY <2>3, <2>4
<1>4. h \in Held <=>
        \/ \E e \in Lane : h \in Asked(e)
        \/ \E i \in 1 .. TabLines : h \in InTable(i)
        \/ \E b \in Bank : h \in Reads(<<"reg", b>>, u.reg[b])
        \/ \E i \in DOMAIN u.pend : h \in Reads(<<"pend", i>>, u.pend[i])
        \/ \E b \in Bank : \E i \in DOMAIN u.fifo[b] : h \in Reads(<<"fifo", b, i>>, u.fifo[b][i])
  <2> DEFINE A == {Asked(e) : e \in Lane}
             B == {InTable(i) : i \in 1 .. TabLines}
             R == {Reads(<<"reg", b>>, u.reg[b]) : b \in Bank}
             D == {Reads(<<"pend", i>>, u.pend[i]) : i \in DOMAIN u.pend}
             F(b) == {Reads(<<"fifo", b, i>>, u.fifo[b][i]) : i \in DOMAIN u.fifo[b]}
             E == UNION {F(b) : b \in Bank}
  <2>1. (\E X \in A : h \in X) <=> \E e \in Lane : h \in Asked(e)
    OBVIOUS
  <2>2. (\E X \in B : h \in X) <=> \E i \in 1 .. TabLines : h \in InTable(i)
    OBVIOUS
  <2>3. (\E X \in R : h \in X) <=> \E b \in Bank : h \in Reads(<<"reg", b>>, u.reg[b])
    OBVIOUS
  <2>4. (\E X \in D : h \in X) <=> \E i \in DOMAIN u.pend : h \in Reads(<<"pend", i>>, u.pend[i])
    OBVIOUS
  <2>5. \A b : (\E X \in F(b) : h \in X) <=> \E i \in DOMAIN u.fifo[b] : h \in Reads(<<"fifo", b, i>>, u.fifo[b][i])
    OBVIOUS
  <2>6. Held = UNION (A \cup B \cup R \cup D \cup E)
    BY DEF Held
  <2>7. (\E X \in E : h \in X) <=> \E b \in Bank : \E X \in F(b) : h \in X
    <3> HIDE DEF F
    <3> QED OBVIOUS
  <2> HIDE DEF A, B, R, D, E
  <2>8. h \in Held <=> \/ (\E X \in A : h \in X) \/ (\E X \in B : h \in X)
                      \/ (\E X \in R : h \in X) \/ (\E X \in D : h \in X)
                      \/ (\E X \in E : h \in X)
    BY <2>6
  <2> HIDE DEF F
  <2> QED BY <2>1, <2>2, <2>3, <2>4, <2>5, <2>7, <2>8
<1>5. ASSUME h \in Held PROVE \E p \in Place : HeldIn(h, p)
  <2>1. CASE \E e \in Lane : h \in Asked(e)
    <3>1. PICK e \in Lane : h \in Asked(e)
      BY <2>1
    <3>2. <<"arb", e, 0>> \in Place
      BY DEF Place
    <3>3. HeldIn(h, <<"arb", e, 0>>)
      BY <1>1, <3>1 DEF HeldIn
    <3> QED BY <3>2, <3>3
  <2>2. CASE \E b \in Bank : h \in Reads(<<"reg", b>>, u.reg[b])
    <3>1. PICK b \in Bank : h \in Reads(<<"reg", b>>, u.reg[b])
      BY <2>2
    <3>2. <<"reg", b, 0>> \in Place
      BY DEF Place
    <3>3. Box(u, <<"reg", b, 0>>) = LineItems(u.reg[b])
      BY DEF Box
    <3>4. HeldIn(h, <<"reg", b, 0>>)
      BY <1>2, <3>1, <3>3 DEF HeldIn
    <3> QED BY <3>2, <3>4
  <2>3. CASE \E i \in 1 .. TabLines : h \in InTable(i)
    <3>1. PICK i \in 1 .. TabLines : h \in InTable(i)
      BY <2>3
    <3>2. CASE h \in Named(<<"tab", i>>, Box(u, <<"tab", i, 0>>))
      <4>1. <<"tab", i, 0>> \in Place
        BY DEF Place
      <4>2. HeldIn(h, <<"tab", i, 0>>)
        BY <3>2 DEF HeldIn
      <4> QED BY <4>1, <4>2
    <3>3. CASE \E j \in Slot : h \in Named(<<"post", i, j>>, Box(u, <<"post", i, j>>))
      <4>1. PICK j \in Slot : h \in Named(<<"post", i, j>>, Box(u, <<"post", i, j>>))
        BY <3>3
      <4>2. <<"post", i, j>> \in Place
        <5>1. <<i, j>> \in (1 .. TabLines) \X Slot
          OBVIOUS
        <5> QED BY <5>1 DEF Place
      <4>3. HeldIn(h, <<"post", i, j>>)
        BY <4>1 DEF HeldIn
      <4> QED BY <4>2, <4>3
    <3> QED BY <1>3, <3>1, <3>2, <3>3
  <2>4. CASE \E i \in DOMAIN u.pend : h \in Reads(<<"pend", i>>, u.pend[i])
    <3>1. <<"pend", 0, 0>> \in Place
      BY DEF Place
    <3>2. HeldIn(h, <<"pend", 0, 0>>)
      BY <1>2, <2>4 DEF HeldIn
    <3> QED BY <3>1, <3>2
  <2>5. CASE \E b \in Bank : \E i \in DOMAIN u.fifo[b] : h \in Reads(<<"fifo", b, i>>, u.fifo[b][i])
    <3>1. PICK b \in Bank : \E i \in DOMAIN u.fifo[b] : h \in Reads(<<"fifo", b, i>>, u.fifo[b][i])
      BY <2>5
    <3>2. <<"fifo", b, 0>> \in Place
      BY DEF Place
    <3>3. HeldIn(h, <<"fifo", b, 0>>)
      BY <1>2, <3>1 DEF HeldIn
    <3> QED BY <3>2, <3>3
  <2> QED BY <1>4, <1>5, <2>1, <2>2, <2>3, <2>4, <2>5
<1>6. ASSUME NEW p \in Place, HeldIn(h, p) PROVE h \in Held
  <2>1. CASE p[1] = "arb"
    <3>1. PICK e \in Lane : p = <<"arb", e, 0>>
      BY <2>1 DEF Place
    <3>2. h \in Asked(e)
      BY <1>1, <1>6, <3>1 DEF HeldIn
    <3> QED BY <1>4, <3>2
  <2>2. CASE p[1] = "reg"
    <3>1. PICK b \in Bank : p = <<"reg", b, 0>>
      BY <2>2 DEF Place
    <3>2. Box(u, <<"reg", b, 0>>) = LineItems(u.reg[b])
      BY DEF Box
    <3>3. h \in Reads(<<"reg", b>>, u.reg[b])
      BY <1>2, <1>6, <3>1, <3>2 DEF HeldIn
    <3> QED BY <1>4, <3>3
  <2>3. CASE p[1] = "tab"
    <3>1. PICK i \in 1 .. TabLines : p = <<"tab", i, 0>>
      BY <2>3 DEF Place
    <3>2. h \in InTable(i)
      BY <1>3, <1>6, <3>1 DEF HeldIn
    <3> QED BY <1>4, <3>2
  <2>4. CASE p[1] = "post"
    <3>1. PICK s \in (1 .. TabLines) \X Slot : p = <<"post", s[1], s[2]>>
      BY <2>4 DEF Place
    <3>2. s[1] \in 1 .. TabLines /\ s[2] \in Slot
      BY <3>1
    <3>3. h \in Named(<<"post", s[1], s[2]>>, Box(u, <<"post", s[1], s[2]>>))
      BY <1>6, <3>1 DEF HeldIn
    <3>4. h \in InTable(s[1])
      BY <1>3, <3>2, <3>3
    <3> QED BY <1>4, <3>2, <3>4
  <2>5. CASE p[1] = "fifo"
    <3>1. PICK b \in Bank : p = <<"fifo", b, 0>>
      BY <2>5 DEF Place
    <3>2. \E i \in DOMAIN u.fifo[b] : h \in Reads(<<"fifo", b, i>>, u.fifo[b][i])
      BY <1>2, <1>6, <3>1 DEF HeldIn
    <3> QED BY <1>4, <3>2
  <2>6. CASE p[1] = "pend"
    <3>1. \E i \in DOMAIN u.pend : h \in Reads(<<"pend", i>>, u.pend[i])
      BY <1>2, <1>6, <2>6 DEF HeldIn
    <3> QED BY <1>4, <3>1
  <2>7. CASE p[1] = "out"
    BY <1>6, <2>7 DEF HeldIn
  <2> QED BY <2>1, <2>2, <2>3, <2>4, <2>5, <2>6, <2>7 DEF Place
<1> QED BY <1>5, <1>6

(* The kinds of places.                                                     *)
LEMMA PlaceIs ==
  ASSUME NEW p \in Place
  PROVE  p[1] \in {"arb", "reg", "fifo", "tab", "post", "pend", "out"}
  BY DEF Place

(* What is held in a place is a request of it.                              *)
LEMMA HeldThere ==
  ASSUME Split(u, Waiting), NEW p \in Place, NEW h, HeldIn(h, p)
  PROVE  Strip(h) \in Box(u, p)
<1>1. Box(u, p) \subseteq WaitsFor(waiting)
  BY DEF Split, Waiting, WaitsFor
<1>2. ASSUME NEW at, NEW X, X \subseteq Box(u, p), h \in Named(at, X) PROVE Strip(h) \in Box(u, p)
  <2>1. X \subseteq WaitsFor(waiting)
    BY <1>1, <1>2
  <2>2. Strip(h) \in X
    BY <1>2, <2>1, NamedIs
  <2> QED BY <1>2, <2>2
<1>3. CASE p[1] \in {"arb", "reg", "tab", "post"}
  BY <1>2, <1>3 DEF HeldIn
<1>4. CASE p[1] = "fifo"
  <2>1. PICK i \in DOMAIN u.fifo[p[2]] : h \in Named(<<"fifo", p[2], i>>, LineItems(u.fifo[p[2]][i]))
    BY <1>4 DEF HeldIn
  <2>2. LineItems(u.fifo[p[2]][i]) \subseteq Box(u, p)
    BY <1>4 DEF Box, SeqItems
  <2> QED BY <1>2, <2>1, <2>2
<1>5. CASE p[1] = "pend"
  <2>1. PICK i \in DOMAIN u.pend : h \in Named(<<"pend", i>>, LineItems(u.pend[i]))
    BY <1>5 DEF HeldIn
  <2>2. LineItems(u.pend[i]) \subseteq Box(u, p)
    BY <1>5 DEF Box, SeqItems
  <2> QED BY <1>2, <2>1, <2>2
<1>6. CASE p[1] = "out"
  BY <1>6 DEF HeldIn
<1> QED BY <1>3, <1>4, <1>5, <1>6, PlaceIs

(* One place holds a request once.                                          *)
LEMMA HeldApart ==
  ASSUME Split(u, Waiting), NEW p \in Place, NEW h, NEW g, HeldIn(h, p), HeldIn(g, p),
         Strip(h) = Strip(g)
  PROVE  h = g
<1>1. Box(u, p) \subseteq WaitsFor(waiting)
  BY DEF Split, Waiting, WaitsFor
<1>2. ASSUME NEW at, NEW X, X \subseteq Box(u, p), h \in Named(at, X), g \in Named(at, X) PROVE h = g
  <2>1. X \subseteq WaitsFor(waiting)
    BY <1>1, <1>2
  <2>2. h = [at |-> at, lane |-> Strip(h).lane, tag |-> Strip(h).tag, addr |-> Strip(h).addr]
    BY <1>2, <2>1, NamedIs
  <2>3. g = [at |-> at, lane |-> Strip(g).lane, tag |-> Strip(g).tag, addr |-> Strip(g).addr]
    BY <1>2, <2>1, NamedIs
  <2> QED BY <2>2, <2>3
<1>3. CASE p[1] \in {"arb", "reg", "tab", "post"}
  BY <1>2, <1>3 DEF HeldIn
<1>4. CASE p[1] = "fifo"
  <2> DEFINE s == u.fifo[p[2]]
  <2>1. PICK i \in DOMAIN s : h \in Named(<<"fifo", p[2], i>>, LineItems(s[i]))
    BY <1>4 DEF HeldIn
  <2>2. PICK j \in DOMAIN s : g \in Named(<<"fifo", p[2], j>>, LineItems(s[j]))
    BY <1>4 DEF HeldIn
  <2>3. \A k \in DOMAIN s : LineItems(s[k]) \subseteq Box(u, p)
    BY <1>4 DEF Box, SeqItems
  <2>4. Apart(s)
    BY <1>4 DEF Place, Split
  <2> HIDE DEF s
  <2>5. Strip(h) \in LineItems(s[i]) /\ Strip(g) \in LineItems(s[j])
    <3>1. LineItems(s[i]) \subseteq WaitsFor(waiting) /\ LineItems(s[j]) \subseteq WaitsFor(waiting)
      BY <1>1, <2>3
    <3> QED BY <2>1, <2>2, <3>1, NamedIs
  <2>6. i = j
    BY <2>4, <2>5 DEF Apart
  <2> QED BY <1>2, <2>1, <2>2, <2>3, <2>6
<1>5. CASE p[1] = "pend"
  <2> DEFINE s == u.pend
  <2>1. PICK i \in DOMAIN s : h \in Named(<<"pend", i>>, LineItems(s[i]))
    BY <1>5 DEF HeldIn
  <2>2. PICK j \in DOMAIN s : g \in Named(<<"pend", j>>, LineItems(s[j]))
    BY <1>5 DEF HeldIn
  <2>3. \A k \in DOMAIN s : LineItems(s[k]) \subseteq Box(u, p)
    BY <1>5 DEF Box, SeqItems
  <2>4. Apart(s)
    BY DEF Split
  <2> HIDE DEF s
  <2>5. Strip(h) \in LineItems(s[i]) /\ Strip(g) \in LineItems(s[j])
    <3>1. LineItems(s[i]) \subseteq WaitsFor(waiting) /\ LineItems(s[j]) \subseteq WaitsFor(waiting)
      BY <1>1, <2>3
    <3> QED BY <2>1, <2>2, <3>1, NamedIs
  <2>6. i = j
    BY <2>4, <2>5 DEF Apart
  <2> QED BY <1>2, <2>1, <2>2, <2>3, <2>6
<1>6. CASE p[1] = "out"
  BY <1>6 DEF HeldIn
<1> QED BY <1>3, <1>4, <1>5, <1>6, PlaceIs

(* What a place of the unit has is held there.                              *)
LEMMA HasHeld ==
  ASSUME Split(u, Waiting), u.out = {}, NEW p \in Place, NEW x, x \in Box(u, p)
  PROVE  \E h : HeldIn(h, p) /\ Strip(h) = x
<1>1. Box(u, p) \subseteq WaitsFor(waiting)
  BY DEF Split, Waiting, WaitsFor
<1>2. ASSUME NEW at, NEW X, X \subseteq Box(u, p), x \in X
      PROVE  \E h \in Named(at, X) : Strip(h) = x
  <2>1. X \subseteq WaitsFor(waiting)
    BY <1>1, <1>2
  <2> QED BY <1>2, <2>1, NamedHas
<1>3. CASE p[1] = "arb"
  <2>1. PICK h \in Named(<<"arb", p[2]>>, Box(u, p)) : Strip(h) = x
    BY <1>2
  <2> QED BY <1>3, <2>1 DEF HeldIn
<1>4. CASE p[1] = "reg"
  <2>1. PICK h \in Named(<<"reg", p[2]>>, Box(u, p)) : Strip(h) = x
    BY <1>2
  <2> QED BY <1>4, <2>1 DEF HeldIn
<1>5. CASE p[1] = "tab"
  <2>1. PICK h \in Named(<<"tab", p[2]>>, Box(u, p)) : Strip(h) = x
    BY <1>2
  <2> QED BY <1>5, <2>1 DEF HeldIn
<1>6. CASE p[1] = "post"
  <2>1. PICK h \in Named(<<"post", p[2], p[3]>>, Box(u, p)) : Strip(h) = x
    BY <1>2
  <2> QED BY <1>6, <2>1 DEF HeldIn
<1>7. CASE p[1] = "fifo"
  <2> DEFINE s == u.fifo[p[2]]
  <2>1. Box(u, p) = SeqItems(s)
    BY <1>7 DEF Box
  <2>2. PICK i \in DOMAIN s : x \in LineItems(s[i])
    BY <2>1 DEF SeqItems
  <2>3. LineItems(s[i]) \subseteq Box(u, p)
    BY <2>1 DEF SeqItems
  <2>4. PICK h \in Named(<<"fifo", p[2], i>>, LineItems(s[i])) : Strip(h) = x
    BY <1>2, <2>2, <2>3
  <2> QED BY <1>7, <2>4 DEF HeldIn
<1>8. CASE p[1] = "pend"
  <2> DEFINE s == u.pend
  <2>1. Box(u, p) = SeqItems(s)
    BY <1>8 DEF Box
  <2>2. PICK i \in DOMAIN s : x \in LineItems(s[i])
    BY <2>1 DEF SeqItems
  <2>3. LineItems(s[i]) \subseteq Box(u, p)
    BY <2>1 DEF SeqItems
  <2>4. PICK h \in Named(<<"pend", i>>, LineItems(s[i])) : Strip(h) = x
    BY <1>2, <2>2, <2>3
  <2> QED BY <1>8, <2>4 DEF HeldIn
<1>9. CASE p[1] = "out"
  BY <1>9 DEF Box
<1> QED BY <1>3, <1>4, <1>5, <1>6, <1>7, <1>8, <1>9, PlaceIs

(* The elements wait for finitely many requests.                            *)
LEMMA WaitingFinite == IsFiniteSet(Waiting)
<1> DEFINE f == [x \in Waiting |-> <<x.lane, x.tag>>]
<1>1. IsFiniteSet(Lane \X Tags)
  <2>1. IsFiniteSet(Lane)
    <3>1. 0 \in Int /\ Elements - 1 \in Int
      BY Sizes
    <3> QED BY <3>1, FS_Interval DEF Lane
  <2> QED BY <2>1, Sizes, FS_Product
<1>2. ASSUME NEW x \in Waiting
      PROVE  x.lane \in Lane /\ x.tag \in Tags
             /\ x = [lane |-> x.lane, tag |-> x.tag, addr |-> waiting[x.lane][x.tag]]
  <2>1. x \in WaitsFor(waiting)
    BY DEF Waiting, WaitsFor
  <2>2. PICK e \in Lane, t \in Tags : x = [lane |-> e, tag |-> t, addr |-> waiting[e][t]]
    BY <2>1, WaitsForIs
  <2> QED BY <2>2
<1>3. f \in [Waiting -> Lane \X Tags]
  BY <1>2
<1>4. ASSUME NEW x \in Waiting, NEW y \in Waiting, f[x] = f[y] PROVE x = y
  <2>1. x.lane = y.lane /\ x.tag = y.tag
    BY <1>4
  <2>2. x = [lane |-> x.lane, tag |-> x.tag, addr |-> waiting[x.lane][x.tag]]
    BY <1>2
  <2>3. y = [lane |-> y.lane, tag |-> y.tag, addr |-> waiting[y.lane][y.tag]]
    BY <1>2
  <2> QED BY <2>1, <2>2, <2>3
<1> HIDE DEF f
<1>5. f \in Injection(Waiting, Lane \X Tags)
  BY <1>3, <1>4, Fun_IsInj
<1> QED BY <1>1, <1>5, FS_Injection

(* The invariant gives the property.                                        *)
LEMMA OnceHeld == IInv => HeldOnce
<1> SUFFICES ASSUME IInv PROVE HeldOnce
  OBVIOUS
<1>1. Split(u, Waiting) /\ u.out = {}
  BY DEF IInv, Good
<1>2. ASSUME NEW h \in Held PROVE Strip(h) \in Waiting
  <2>1. PICK p \in Place : HeldIn(h, p)
    BY <1>1, HeldIs
  <2> QED BY <1>1, <2>1, HeldThere DEF Split
<1>3. ASSUME NEW x \in Waiting PROVE \E h \in Held : Strip(h) = x
  <2>1. PICK p \in Place : x \in Box(u, p)
    BY <1>1 DEF Split
  <2>2. PICK h : HeldIn(h, p) /\ Strip(h) = x
    BY <1>1, <2>1, HasHeld
  <2>3. h \in Held
    BY <1>1, <2>2, HeldIs
  <2> QED BY <2>2, <2>3
<1>4. ASSUME NEW h \in Held, NEW g \in Held, Strip(h) = Strip(g) PROVE h = g
  <2>1. PICK p \in Place : HeldIn(h, p)
    BY <1>1, HeldIs
  <2>2. PICK q \in Place : HeldIn(g, q)
    BY <1>1, HeldIs
  <2>3. Strip(h) \in Box(u, p) /\ Strip(h) \in Box(u, q)
    BY <1>1, <1>4, <2>1, <2>2, HeldThere
  <2>4. p = q
    BY <1>1, <2>3 DEF Split
  <2> QED BY <1>1, <1>4, <2>1, <2>2, <2>4, HeldApart
<1>5. {Strip(h) : h \in Held} = Waiting
  BY <1>2, <1>3
<1> DEFINE f == [h \in Held |-> Strip(h)]
<1>6. f \in [Held -> Waiting] /\ (\A h, g \in Held : f[h] = f[g] => h = g)
      /\ \A x \in Waiting : \E h \in Held : f[h] = x
  BY <1>2, <1>3, <1>4
<1> HIDE DEF f
<1>7. f \in Injection(Held, Waiting)
  BY <1>6, Fun_IsInj
<1>8. f \in Surjection(Held, Waiting)
  BY <1>6, Fun_IsSurj
<1>9. Cardinality(Held) = Cardinality(Waiting)
  BY <1>7, <1>8, WaitingFinite, FS_Injection
<1> QED BY <1>5, <1>9 DEF HeldOnce, Strip

(* Every step keeps the invariant, and replaces the oldest way when it      *)
(* replaces one.                                                            *)
LEMMA NextOK ==
  ASSUME IInv, [Next]_vars
  PROVE  IInv' /\ (u' = u \/ ReplacesOldest(u, u'))
<1>1. CASE UNCHANGED vars
  <2>1. cfg' = cfg /\ u' = u /\ waiting' = waiting
    BY <1>1 DEF vars
  <2>2. Waiting' = Waiting
    BY <2>1 DEF Waiting
  <2>3. (Grouped(u))'
    BY <2>1 DEF IInv, Grouped, Group
  <2>4. Good(u', Waiting') /\ u'.out = {}
    BY <2>1, <2>2 DEF IInv
  <2>5. TypeOK'
    BY <2>1 DEF IInv, TypeOK
  <2> QED BY <2>1, <2>3, <2>4, <2>5 DEF IInv
<1>2. CASE \E e \in Lane, t \in cfg.tags : \E addr \in cfg.addrs[e] : Ask(e, t, addr)
  <2>1. PICK e \in Lane, t \in cfg.tags : \E addr \in cfg.addrs[e] : Ask(e, t, addr)
    BY <1>2
  <2>2. PICK addr \in cfg.addrs[e] : Ask(e, t, addr)
    BY <2>1
  <2>3. IInv' /\ u'.cache = u.cache
    BY <2>2, AskOK
  <2> QED BY <2>3 DEF ReplacesOldest
<1>3. CASE \E k \in DOMAIN u.mem : Complete(k)
  BY <1>3, CompleteOK
<1>4. CASE Update
  <2>1. IInv' /\ u'.cache.block = u.cache.block
    BY <1>4, UpdateOK
  <2> QED BY <2>1 DEF ReplacesOldest
<1> QED BY <1>1, <1>2, <1>3, <1>4 DEF Next

(* Every state satisfies the inductive invariant.                           *)
THEOREM Invariance == Spec => []IInv
<1>1. Init => IInv
  BY InitOK
<1>2. IInv /\ [Next]_vars => IInv'
  BY NextOK
<1> QED BY <1>1, <1>2, PTL DEF Spec

(* Every field of the unit has its type, for every size and setting: the    *)
(* counters of a set stay below the number of ways, and a line of the table *)
(* or of a FIFO is never read where there is none.                          *)
THEOREM TypeCorrect == Spec => []TypeOK
<1>1. IInv => TypeOK
  BY DEF IInv
<1> QED BY <1>1, Invariance, PTL

(* Every read an element waits for is in one place of the unit, once, with  *)
(* its own element, tag and address: no phase of update loses a request,    *)
(* answers it twice or answers another one.                                 *)
THEOREM ReadsHeldOnce == Spec => []HeldOnce
<1>1. IInv => HeldOnce
  BY OnceHeld
<1> QED BY <1>1, Invariance, PTL

(* A block is on its way from memory exactly as many times as lines of the  *)
(* miss table wait for it.                                                  *)
THEOREM OneFetchALine == Spec => []FetchedForALine
<1>1. IInv => FetchedForALine
  BY DEF IInv, Good, Counted, FetchedForALine
<1> QED BY <1>1, Invariance, PTL

(* A replacement takes a way no other way is older than: the counters of    *)
(* do_lookup and do_replacement order the ways of a set by their last use.  *)
THEOREM OldestEvicted == Spec => EvictsOldest
<1> DEFINE A == \A s \in C!SetId, w \in 1 .. Ways :
                  u.cache.block[s][w] # u'.cache.block[s][w] =>
                    \A x \in 1 .. Ways : <<x, w>> \notin u.cache.older[s]
<1>1. IInv /\ [Next]_vars => [A]_vars
  <2>1. u' = u => A
    OBVIOUS
  <2>2. ReplacesOldest(u, u') => A
    BY DEF ReplacesOldest, C!Way
  <2> HIDE DEF A
  <2> QED BY <2>1, <2>2, NextOK
<1>2. Spec => [][A]_vars
  BY <1>1, Invariance, PTL DEF Spec
<1> QED BY <1>2 DEF EvictsOldest
=============================================================================
