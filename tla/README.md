# A TLA+ model of HGRASim

HGRASim (HGRA5) is a cycle simulator, in C++, of a coarse-grained
reconfigurable array: processing elements, load/store elements and loop
controllers that exchange tokens over point-to-point connections, and a memory
system (load/store unit, cache, DRAM) behind the load/store elements.  The
program is sequential, but what it simulates is not: every cycle is a sequence
of updates of nodes that read each other's wires and each other's
back-pressure, and the memory answers out of order.  This directory models the
protocols by which nothing is lost, duplicated or reordered in all that.

## The system

| part | state it keeps | operations | talks to |
|---|---|---|---|
| circular buffers (`sim/Buffer`) | per port: entries with valid bits, head, tail, `port_full`, `port_empty` | `input`, `output`, `output_ack`, `reset(port)`, queries | owned by every node |
| bridge (`bridge/`) | `bp_temporary`, the credit collected in a cycle; the edges | `setNextInput`, `setBp`, `InitBp`, `setAllBp` | all nodes, by callbacks |
| array cycle (`sim/HgraSystem.cpp`) | order of the nodes, clock | one loop body for each stall mode: update each node, deliver, collect credit, LSU, reset wires | everything |
| back-pressure protocols (`sim/protocol`) | none of their own | `getBp`, `getBpTag` | reads the node that asks |
| processing element (`Node/PE.cpp`, `module/module.cpp`) | `inbuffer`, ALU pipeline, `outbuffer`, `break_state`, `stall_one`, local register | `simStep3`, `simStep2`, `simStep1`, `simBp` | array |
| load/store element (`Node/LSE.cpp`) | `inbuffer`, tag-addressed `outbuffer`, `tag_counter`, `maintain_order`, `nextlsu_bp` | `leSimStep*`, `seSimStep1`, `sedSimStep2`, `LSEcallback`, `callbackACK` | array, LSU |
| loop controller (`Node/LC.cpp`) | loop registers, counters of started and ended loops, an output buffer | `simStep1..3`, `regInput`, `endInput` | array |
| load/store unit (`mem_system/Lsu.cpp`) | arbiter lines, pre-FIFO, inflight registers, `post_table` (MSHR), `post_offset`, post-FIFO | `AddTrans`, `returnACK`, `update`, hit and miss completion | LSE, cache, DRAM |
| cache (`mem_system/Cache.cpp`) | tags, ages, fifos | `addtranscation`, `update`, completions | LSU, DRAM |
| DRAM (`MultiChannelMemorySystem`, `MemoryController`, `CommandQueue`, `BankState`, `Rank`) | transaction and command queues, bank states of the controller and of each rank, busses, refresh and power-down counters | `addTransaction`, `update`, `pop`, `enqueue` | cache, LSU |
| front end (`preprocess/`, `app_graph/`) | the dictionaries of the nodes, the links | `xmlRead`, the conversions of words, `AppGraph::init`, the tables of array and bridge | user, array |
| placement (`pr/mapping/simulate_anneal`) | board, table, used positions; two boards and the cost of one | `randomGenerate`, `swapOnce`, `runEngine` | graphs |
| resource graph and routing (`pr/resource_graph`, `pr/mapping/routing_engine`) | resources and their edges; paths, occupation, weights, pool of conflicts | construction, `dijkstra`, `updateConflictPool`, `updateWeight`, `popNet` | placement |
| entry point, factories, utilities | | | listed in PROJECT.json |
| SPM and scheduler headers, unbuilt sources, tinyxml2 | | | not part of the program, or of somebody else |

What is hard about it, and what makes each part correct:

* **Credit.**  `simStep1` and `reverseStep1` ignore the result of
  `Buffer_in::input`: a token that meets a full buffer is gone.  The design
  answer is credit, computed from a buffer in one cycle and used in the next.
  It is correct if nothing happens in between that the computation did not
  foresee: for plain edges (`CreditLink`), and for processing elements, which
  grant credit on a *full* port when they expect to take operands in the next
  cycle (`ProcessingElement`).
* **One buffer, three views.**  Writers look at valid bits, back-pressure at
  `port_full`, readers at a valid bit or `port_empty`, and each is updated in a
  function of its own.  They must agree.
* **Pairing.**  A processing element must pair the n-th tokens of its streams
  and keep the order of results through a pipeline and through `break` and
  `continue`, which drop sets of operands up to the end of a loop.
* **Out-of-order answers.**  A load element hands out tags, which wrap round,
  and memory answers arrive in any order; each slot must have one owner.
* **Acknowledgements.**  `Arbitrator::AddTrans` overwrites a line without
  looking; only the flag `nextlsu_bp` keeps a waiting request there.
* **Ends of nests.**  A loop controller starts the next loop while the one
  before is still in the body, and has to find out from what comes back when
  everything is over.  A comparison that comes back may break the loop, late.
* **One request, many places.**  In the load/store unit a request moves from
  the arbiter line through a FIFO, an inflight register, a pending list, a line
  of the miss table and an offset slot, each of which may be full; it must be in
  one of them, once, and a block must be fetched once for each line that waits
  for it.
* **Two tables of bank states.**  The memory controller decides by its own copy
  of deadlines and each rank checks its own; the program exits where they
  differ.  Commands are reordered for open rows, across refreshes and
  power-downs, and still accesses of an address stay in order and nothing
  starves.
* **Parallel tables of the front end.**  The user may skip what cannot be read;
  five tables, made in different places, have to leave out the same nodes.
* **Search and negotiation.**  Annealing keeps two boards and their indices
  through swaps that are not undone; routing counts conflicts up and down and
  stops by the count.
* **Uninitialised members** (`stall_one`, `wait_for_data`, `sended_tag`,
  `first_seektag`): every initial value has to be good enough.  (`df_cnt`,
  `break_cnt` and `end_innum` of the loop controller are not: with anything but
  zero it cannot work.  `LoopControl` is the program on zeroed memory.)

## The modules

| module | what it is |
|---|---|
| `Ring` | a port of `Buffer_in`/`Buffer_out` as operators on a record: `Input`, `Write`, `Reset`, the flag queries, and what a well-formed port is |
| `Stream` | abstract: an ordered, lossless, bounded stream |
| `CreditLink` | one output, the consumers it fans out to, and the bridge, in the `inbuffer_stall` cycle of `HgraArray::run`; refines `Stream` |
| `LinkModes` | the same link in either stall mode: adds the cycle of `none`, which visits the nodes in the other direction |
| `Control` | what an element makes of one set of operands: control modes, holes, ends of loops |
| `Join` | abstract: pair the operand streams in order, keep or drop the result |
| `ProcessingElement` | `simStep3`, `simStep2`, `simStep1` with `simBp`, the ALU pipeline and `Pebp`; refines `Join` |
| `MCProcessingElement` | its instances for TLC |
| `LoadElement` | a load element and its arbiter line, against a memory that accepts late and answers in any order |
| `StorePair` | the address and data elements of a store unit and their arbiter line |
| `LoopControl` | one loop controller as operators on its state: registers, `muxout_buffer`, end flags, breaks and the counters of loops under way |
| `CountedNest` | abstract: the iterations of two nested loops, each once and in order, with one last a loop, before the bound if it may be broken |
| `LoopNest` | two loop controllers, the body between them as queues, and `task_finish`; refines `CountedNest` |
| `Cache` | sets of blocks with their ages, as operators: lookup, hit, victim, replacement |
| `Lsu` | `Lsu::update` phase by phase with the cache behind it, against elements that ask and a memory that answers in any order |
| `AddressMapping` | the schemes that cut an address into channel, rank, bank, row and column |
| `CommandQueue` | what may be enqueued and what `pop` picks |
| `Dram` | channels, controllers and ranks: one update is the composition of the controller's stages |
| `Configuration` | what the words of a node become, and which nodes can be read |
| `Loading` | `xmlRead`, `AppGraph::init` and the tables made from them |
| `Architecture`, `AppGraph` | the resource graph of an array and the graph of an application, as functions of their descriptions |
| `Placement` | boards, moves and the annealing |
| `Routing` | `dijkstra` step by step, occupation, pool and weights |
| `Flow` | loading, placing and routing, one after the other |
| `MCLsu`, `MCDram`, `MCFlow` | their instances for TLC |
| `Ring_proofs`, `LinkModes_proofs`, `ProcessingElement_proofs`, `LoadElement_proofs`, `StorePair_proofs`, `LoopNest_proofs`, `Flow_proofs`, `Lsu_proofs` | theorems |

State corresponds to code by name: `inbuf`, `outbuf` are `inbuffer`,
`outbuffer`; `next_bp` is the source node's `next_bp`, `thispe_bp` and
`this_bp` the bits a node reports; `bp_temporary` is the bridge's; `slot` is
the `entity` of a tag-addressed buffer.  A token is a model value, or in
`Control` a record of the fields the control modes look at.  An entry or wire
whose valid bit is off is `Free`.  `pc` says which of a node's steps comes
next; `todo` and `source_done` in `CreditLink` say how far the cycle has got.
`pending` (LoadElement) and `sent` (StorePair) are history: they record what
was received and not yet sent on, and no action's guard on the code's side
reads them (only the assumption `GoodStart` does, with `taken`).  `older` of
`Cache` is history too: the pairs of ways of a set of which the first was used
longer ago.  It is what the counters of the code are there to tell, and
`EvictsOldest` compares the two.  `i`, `j` and
`over` of LoopNest are the abstract module's state, advanced whenever the inner
controller sends: the refinement says that what it sends is what they call for.

Definitions headed "Mutation" are wrong on purpose.  Each is what a plausible
slip would make of the definition that follows it; PROJECT.json pairs each
property with one that breaks it.

## The runs

| run | instance | shows |
|---|---|---|
| CreditLink | `LinkModes`: depth 2, one consumer before the source, two after, two tokens, both stall modes | buffers consistent; on forward edges no token is refused and each edge is a `Stream`; credit comes back; in the mode `none` what is sent is stored in the same step |
| CreditLinkBack | one consumer before the source | **violated**: a token is lost on an edge to an earlier node |
| PE | four elements: `break_post` on ports 1 and 2 with ALU depth 1, `continue_`, `cb`, and `mul` with its pipeline of 3 and buffers of 1 | promises on full ports and on the full pipeline are kept; order in the pipeline; refines `Join` through breaks, continues and holes; credit comes back |
| PENop | `nop` in `break_pre`, ALU depth 0 | **violated**: credit is promised without the other operand |
| LoadElement | 2 slots, 2 addresses, one pass token | one owner per slot, answers have room, requests kept, order kept, progress |
| StorePair | 3 slots, 2 values, one pass token, good start | stores kept until acknowledged, paired and used in order, progress |
| StorePairFirst | first store not accepted at once | **violated**: it is overwritten on the line |
| LoopNest | 4 outer and 4 inner iterations, body of one path of 3 tokens, without and with a path that breaks | every iteration once and in order, one last a loop, passed-on iterations have room, the task ends after the body and ends at all |
| LoopEnds | two paths through the body | **violated**: the task ends while one path still holds tokens |
| Lsu | 2 elements, 2 banks, one-line FIFOs, 2 table lines with one slot, 5 blocks; eight settings of the switches, `system.xml` among them | every read is in one place, once; a fetch for each waiting line; the way thrown out is the oldest; everything accepted is answered |
| Dram | six memories of 1 or 2 channels, ranks and banks and 2 rows: open and closed pages, both queue structures and schedules, low power, short queues | no forbidden command, no collision on a bus, no answer without its read; refreshes kept; accesses of an address in order; every transaction done |
| Flow | four arrays and applications with ten configuration files, read, skipped or refused | tables agree with the file; boards agree; the pool is the occupation and the result has no shared resource; paths are cheapest and absent only if there is none; it all ends |

The four violations are real disagreements of the code with its comments and its configuration rules, in
PROJECT.json under "findings".

*Bounds.*  Depth 2 is the shipped depth of the input buffers and the least at
which a ring is empty, partly full, full and wraps separately; two token values
are enough to see a swap or a duplicate, since no modelled step looks inside
them.  Two consumers after the source are the least that can disagree.  For
`mul` depth-1 buffers are the tightest and the pipeline of 3 is the code's.
Two slots (three for stores, where the search wraps past a hole) let tags be
reused while older ones are out.  All state spaces are finite without
constraints: buffers and credit bound everything.

The delays of `Dram` are smaller than those of the shipped device file but keep
their order and the relations between them (which of two constraints on a
command is the later one), and the refresh period leaves time to close the
banks, as 325 cycles for 16 ranks do.  `MaxTransfers` of `Lsu` keeps the
elements from filling an infinitely slow memory, `MaxWeight` of `Routing` ends
the growth of weights; neither is met where a run would stop for it, since
deadlock is checked in both.  Queues, tables and slots have the least size at
which they are full while something else still moves.

The loops run over few values because only "below the bound" and "the
bound met" differ, but several times, with a body that holds less than one
loop, so that loops overlap in it and the controllers stall.

*Fairness.*  The loop of `run()` updates every node in every cycle, hence weak
fairness of each step.  Strong fairness appears where a step depends on
somebody else: the downstream's credit (that it comes back is what
`CreditReturns` of CreditLink shows), a consumer taking its oldest entry, the
LSU accepting a request that is on the line again and again, the memory
answering every accepted request, and each path of a loop body delivering its
oldest token.  In `Lsu` and `Dram` the fairness of `update` is written as
`[]<><<Ticks>>_vars`, which says that the clock goes on and needs no `ENABLED`;
the memory behind `Lsu` completes its oldest transfer in the end.  The annealing
of `Flow` ends a temperature because its moves are counted, and ends because
every temperature is at most 0.99 of the one before.

*`GoodStart`.*  With a first store that is accepted in its own cycle, the
surplus acknowledgement of the constructor is harmless; StorePair shows that
everything after it is right, StorePairFirst what happens otherwise.

## The proofs

`Ring_proofs` has the lemmas about buffers for every depth: writing into a port
that has room and resetting a port keep it well formed, a port that is not full
has a free tail entry, and what the reader sees is appended to by a write and
loses its first entry by a reset.
`RingFacts` collects them for the owners of a port, which instantiate the module
with their own depth (`INSTANCE Ring_proofs WITH Depth <- ...`) and use ports as
if they were sequences; `RegisterFacts` says the rest of a port of one entry.

`LinkModes_proofs` begins with `CreditLink` itself, the mode `inbuffer_stall`
alone, and proves, for every depth, token set and any sets `Before` and `After`:

* `Invariance`: `Spec => []IInv`.  `BuffersConsistent` alone does not give
  `ForwardNeverRefused`: that a token on a wire finds room depends on credit
  computed a cycle ago.  `IInv` adds where in the cycle we are (`PhaseOK`), that
  a token on a wire was sent on credit (`WireOK`), and that credit is kept
  (`CreditKept`): a later consumer that has reported room still has it at the
  end of the cycle, and if the source holds credit, every later consumer still
  to be updated has room.
* `TypeCorrect`, `Consistency`, `ForwardSafe` follow from it.
* `ForwardLinkIsStream`: with `Watched` after the source, every step of the
  link is a step of `Stream` or a stutter.

It then carries this over to both stall modes: `InvarianceModes`
keeps `IInv` in the mode `inbuffer_stall` and `IInvNone` in the mode `none`,
where the credit is that of the same cycle: the wires are clear until the
source's turn, every later consumer has reported by then, and one that has
reported room keeps it, since nobody else stores into its buffer.
`TypeCorrectModes`, `ConsistencyModes`, `ForwardSafeModes`, `StoredAtOnceHolds`
and `LinkIsStreamModes` state the run's safety properties for every depth and
fan-out.

`ProcessingElement_proofs` holds for every set of configurations: any control
mode, depths of ports and ALU, break and continue values.  That a promise on a
full port is kept depends on what `simStep3` and `simStep2` will do in the next
cycle, so `IInv` strengthens `TypeOK` and `PipelineInOrder` in three ways:
`ITyped` types what the run's instances fix; `PipelineApart` keeps the
transactions of `mul` a stage apart, so that one that is accepted on a promise
finds room; `CreditKept` says, step by step of the cycle, that a port whose
credit is on has room or is about to be emptied.  `CreditHonoured` and
`ElementJoins` (the refinement of `Join`) have `AluDepth # 0` as a hypothesis,
which is as it must be: with depth 0 the run PENop refutes the first of them.

`LoadElement_proofs` holds for any number of lines and any depth of the port.
None of `OneOwner`, `AnswerHasRoom`, `RequestKept` and `InOrder` is inductive.
One layer of `IInv` matches tags with lines: a request that was accepted has a
line that is free for its answer, no two share one, and a line that waits for
the memory's credit still has its token.  The other lays the lines out in a
circle from `head_ptr`: the first k wait for their answers or to leave, in the
order in which their tokens came, and the rest are free; hence the order out.

`StorePair_proofs` treats the tag-addressed slots of both sides as circular
buffers with one common head: the tag of the pair on the line, of the pair just
taken, or of the one that is looked for, whichever there is.  With that layout
what each side holds is what it received less what was used (`SentIsHeld`), a
pair that is found is the oldest, and the pair on the line is that one.
`GoodStart` is a hypothesis of all of them; StorePairFirst shows a store that is
overwritten without it.  Type correctness of this pair and of the links is a
theorem only: their runs spend their properties on what is harder to see.

`LoopNest_proofs` is about all bounds, steps, capacities and paces of the body.
The invariant says which value waits in each controller's buffer as a function
of the abstract counters `i`, `j` and `over`, and that `df_cnt` is the number of
lasts still under way in the body, which the lemmas about lasts in a queue
count.  `OneLast` is a hypothesis: if a loop can be broken, its buffer holds one
entry, as `system.xml` configures it.  It is needed: with an entry more, a
broken loop may leave a second last in the buffer, and TLC finds
`CountsIterations` violated with `BufferDepth` 2 and a break port.  It is no
restriction on nests that nothing breaks.  `EndsAfterBody` needs port 0 to be
the only end port of the data flow; LoopEnds shows the other case.

`Flow_proofs` is about every array, application and set of configuration files
that meet `SystemAssumption` (the blocks of an array are on cords of their own,
there is room for the nodes of each type, and what an array or a net of wires
counts is a natural number) and `NetAssumption` (the nets of the application
end at ports that the blocks of their nodes have).  For placement, `BoardOK` makes a
board a bijection, cord by cord and node by node, and one lemma for each way to
change a board (put, move, exchange, clear) keeps it; `StageOK` adds what is on
the boards: the nodes of the stages done (`Placed`), less those in `left` while
a stage is put down, on both boards as soon as moves are made.  `BoardsAgree`
without this is not inductive: `swapOnce` looks up nodes in a board that has to
hold them, and a board that is only consistent may be empty.  For routing,
`Busy` says that in the first pass nets whose turn is to come have no paths, so
that a net is recorded once on each resource, and that the pool is empty at the
end; `PoolIsOccupancy` then follows step by step from what recording and taking
up do to one list (`Appended`, `ErasedOne`) and to the counts (`PoolGrows`,
`PoolShrinks`).  `NetsApart`, what the negotiation is for, follows from the two.

`PathsCheapest` is about the search.  Its invariant, `SearchIInv`, has two halves:
`Grown`, that what has been reached was reached over something visited, at
exactly that distance, and `Closed`, that what follows the visited is no further
than they say and nothing in the queue is nearer than what is visited.  One
lemma, `RelaxOK`, keeps both when the nearest is visited.  From `Grown` comes
the path: there is one `Way` to each resource reached (`OneWay`), `PathTo` is that
way (`TracedIs`), its weight is the distance (`CountedIs`), and each of its
steps is one that the ends of wires and segments allow (`NextEntered`).  From
`Closed` comes that there is none cheaper: `Reach`, which knows nothing of the
search, never gets ahead of the distances (`WiderIs`, `ReachIs`), and that when the
queue is empty the search has been everywhere a path leads to (`Reachable`,
`ReachableIs`): the engine gives up on a target only if there is no path to it
at all.  The graph is
built by loops (`Listed`, `Mapped`, `FlattenSeq`); that each of these recursive
functions is defined and holds what was pushed is proved from `Chained` and
`Followed`, so that `EnteredIs`, `NextIs` and `PortIs` say what the graph is for
any array.

`Lsu_proofs` holds for any number of elements, banks and blocks, any depth of
FIFOs, tables and slots, and all settings of the switches together.  None of
`HeldOnce`, `FetchedForALine` and `EvictsOldest` is inductive: that a request is
held once after an update says nothing if, say, a line of the table were free
while its slots are not, or a line's tag were not its requests'.  So `IInv` puts
together:

* `Split`: the places of the unit (arbiter line, FIFO of a bank, register, pending
  lines, table line, offset slot, answers) hold exactly the reads that are waited
  for, and no two places hold the same one;
* `Sound`: what a place may hold.  The requests of a line have its tag, a line of
  the miss table that is not valid waits for none, one that is free has no slot
  in use, a bank that has asked the cache has its request in the register,
  pending lines are reads, and transfers on the bus are in the order of their age;
* `Counted`: block by block, as many reads on their way as lines of the miss
  table that wait for the block;
* `CacheOK`: the counters of a set order its ways as `older` does (`InOrder`), so
  that the way to be replaced, the first with the least counter, is an oldest one;
* `Grouped`: the elements of a vector group that have asked have one tag and the
  addresses of that tag.

An update is a composition of phases, and no invariant of the specification
holds between two of them.  `Good(v, W)` is what does: it is `IInv` of a value v of
the unit and a set W of reads, and each operator of the model has a lemma that it
keeps `Good` with the same W.  A read that is answered moves to `out`, one more
place, and only the end of the update takes it out of W with the wait for it.
`Taken` and `Put` say once what it is to leave a place and to enter one; the
lemma of a step names the two places and the requests that move.  `Each`, the
loops over lines, banks and elements, is a recursive function.  That such a
function is defined for each length (`Chained`) and that what every turn keeps
is kept by the whole (`Followed`) rest on the least element of a set of numbers,
a consequence of `WFMin` of the library, which needs no operator parameter.

The assumptions are those named in the modules: depths, capacities, bounds and
steps are positive; `Free` is no token, no request, no store and no value of a
loop; loads and passes are different tokens; `Before` and `After` are disjoint
and `Watched` is one of them; the ALU maps operands to values; the modes of
`Control` have the operand ports they read and `mul` the depth 3 that the code
gives it; a nest's end ports are among 0 to 4 and 0 is one; `SystemAssumption`
and `NetAssumption`;
in `Lsu`, `Empty` is none of the data, tags are finitely many, and the elements
of a vector group, if it has more than one, all load or all store, with a step
that is not zero.  With a step of zero all lanes ask for one word, where a line
has room for one request, and TLC finds `HeldOnce` violated.

Model-checked only:

* liveness (`CreditReturns`, `KeepsMoving`, `Terminates`, `Served`,
  `Completed`, `Ends`): it needs fairness, and `ENABLED` with it;
* `Dram` (`TypeOK`, `NoFault`, `SameAddressInOrder`, `RefreshKept`): what a
  controller sends is right because its copy of each bank's deadlines is never
  earlier than the rank's, for every command that is still in a buffer or on the
  bus between the two, over searches and folds of queues that are cut
  in the middle.  `NoFault` is also not a fact of every device: with `tCMD` 2 the
  controller sends a command while the last one is on the bus and TLC finds
  the stop.  Every device file of the repository has `tCMD=1`, and the run shows
  `NoFault` for a set of delays that keeps their relations;
* the front end (`WiredAsRead`): `Index2Order`, `FindIndex` and the links are
  searches, filters (`SelectSeq`) and folds over sequences of any length.  What
  a filter returns is a recursion over its sequence, the provers' library
  states nothing about it, and a proof would be an induction over data.

## What the models assume

* `LoopControl`: memory that is zero where the code reads members it never
  initialises.  The ports of a controller: `regin` 4 and `lcEndInNum` 8 make
  `end_innum` count the end ports 0 to 3; a comparison on port 4 breaks the
  loop.  A late break may cut off the next loop, which is what the code does;
  `CountedNest` allows it and asks only that each loop has one last.
* `Lsu`: `cache_allhit` is hard-wired by the constructor, so `AsBuilt` never
  misses; the settings with lookups run the code that a change of that line
  switches on.  The lanes of a vector group ask for consecutive words and tags
  go round together.  The model has addresses and no data, as the code.
  Memory that is zero where `ArbitratorLine` (`Lsu.cpp:55`) and
  `Cache::lookup_trans` (`Cache.h:108`) have flags that no constructor sets: with
  other contents the unit would start with requests that no element has made,
  and the model says nothing about such a start.
* `Dram`: additive latency 0 and no bank storage, as the code is built.  The
  clock crossing is no module: the memory runs at `1/tCK` and the simulation at
  500 MHz (`MultiChannelMemorySystem.cpp:103`), so that a cycle of the simulation
  makes one or two updates of the shipped memory (`tCK` 1.5 ns), and none or one
  of a slower device.  `AddTransaction` and `Update` interleave freely, which
  includes every ratio.
* `Flow`: the graph that placement and routing work on.  `AppGraph::_nodes` is
  never filled and the calls in `main` are commented out, so no run of the
  shipped program gets there with a node; the classes are modelled over any
  graph `_nodes` could hold.  A configuration with an index that is not there
  ends as "undefined".  No file gives two nodes of a type the same number, by
  which the tables find a node: `WiredAsRead` is not checked on a file that does.

## Not modelled, and the plan

Left out of the modelled parts: the ack variants of back-pressure (no shipped
configuration selects them); the `lr`, `keep` and `lr_out` operand modes,
`loop_activate`, `calc_activate`, `trans`, bypasses and `output_from` alu of
processing elements; the surplus `simBp` of `reverseStep1` on a processing
element; edges from a node to itself; loops with a bound of zero and the relayed
end inputs of the stall mode `none`; match mode, the memory-less variants and
context switching of load/store elements; prefetch lines of the load/store unit,
which nothing asks for; energy and statistics of the DRAM;
`MixedMapping::costFunction` and printed results.  The four-activate window of a
rank (`CountFaw`) is modelled, but with the few transactions of the run it is
never full.

Not modelled at all: `tinyxml2` (third-party), the sources that the project file
does not build (`PE_new`, `LSE_bak`, `Lsu(coleasor)`), `SPM.hpp` and
`Scheduler.hpp`, which no file includes, the converters to words, debug output
and `system.xml`, whose values are the constants.

Next, in this order:

1. `Lsu` as the environment of `LoadElement`: the abstract specification of
   what it promises to one element, and the refinement, for which `Split` has
   the parts.
2. The deadlines of `Dram`: that the controller's copy is never earlier than
   the rank's, one command at a time, which is the step of `NoFault` that needs
   no induction.
3. The remaining operand modes of the processing element and `Match_set`.
4. A composition of several nodes over `CreditLink`, with a self edge.
