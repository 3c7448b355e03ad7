----------------------------- MODULE Placement ------------------------------
(***************************************************************************)
(* Placement by simulated annealing: PlacementBoard                        *)
(* (src/src/pr/mapping/simulate_anneal/engine/placement_board.cpp), the    *)
(* engine (sa_engine.cpp), the cost functions and the two drivers          *)
(* (simulate_anneal.cpp).                                                  *)
(*                                                                         *)
(* A system is what is placed on what: arch and dfg, staged for the driver *)
(* that places the load/store nodes first, punished for the second cost    *)
(* function.                                                               *)
(*                                                                         *)
(* A temperature is not kept, only what depends on it: whether annealing   *)
(* starts (it does not when all sampled costs are equal), whether a move   *)
(* that is no improvement is accepted, and when the loop is over, which    *)
(* is any time as long as the cost is not 0.  The number of moves at one   *)
(* temperature is at least one.                                            *)
(***************************************************************************)
EXTENDS Architecture, AppGraph

CONSTANTS Systems,            \* the sequence of the systems
          NoNode              \* UINT_MAX, on a cord with no node

VARIABLES sys,                \* the index of the system
          placement,          \* *_placement, the board that is the result
          temp,               \* temp_place and temp_placement
          cost,               \* the cost of placement
          sa                  \* where the engine is

(* The application is connected, there is room for the nodes of each type,  *)
(* and no stage is empty: the engine draws from the nodes it places.        *)
SystemAssumption ==
  /\ Systems \in Seq(ToSet(Systems))
  /\ \A s \in DOMAIN Systems :
       /\ ArchOK(Systems[s].arch)
       /\ Connected(Systems[s].dfg)
       /\ \A n \in DOMAIN Systems[s].dfg : Systems[s].dfg[n].type \in DOMAIN Systems[s].arch.block
       /\ \A t \in DOMAIN Systems[s].arch.block :
            Cardinality({n \in DOMAIN Systems[s].dfg : Systems[s].dfg[n].type = t})
              <= Cardinality(Systems[s].arch.block[t].position)
       /\ DOMAIN Systems[s].dfg # {}
       /\ Systems[s].staged =>
            {Systems[s].dfg[n].type = "ls" : n \in DOMAIN Systems[s].dfg} = BOOLEAN

ASSUME SystemAssumption

AllLinks == Mapped(LAMBDA s : ToSet(GenerateAllLink(s.dfg)), Systems)
Dist == Mapped(LAMBDA s : [n \in DOMAIN s.dfg |-> [m \in DOMAIN s.dfg |-> GetDistance(s.dfg, n, m)]],
               Systems)

Arch == Systems[sys].arch
Dfg == Systems[sys].dfg
Node == DOMAIN Dfg
TypeOf(n) == Dfg[n].type
Position(t) == Arch.block[t].position
Cord == (0 .. (Arch.rows - 1)) \X (0 .. (Arch.rows - 1))

(* A board: who is where, where is who, and the used and unused cords of    *)
(* each type of block.  sound is FALSE once an assertion has failed.        *)
EmptyBoard(s) ==
  LET a == Systems[s].arch
  IN  [board |-> [c \in (0 .. (a.rows - 1)) \X (0 .. (a.rows - 1)) |-> NoNode],
       table |-> <<>>,
       used |-> [t \in DOMAIN a.block |-> {}],
       unused |-> [t \in DOMAIN a.block |-> a.block[t].position],
       sound |-> TRUE]

AddUsed(b, t, c) ==
  [b EXCEPT !.unused[t] = @ \ {c}, !.used[t] = @ \cup {c}, !.sound = @ /\ c \in b.unused[t]]

DeleteUsed(b, t, c) ==
  [b EXCEPT !.used[t] = @ \ {c}, !.unused[t] = @ \cup {c}, !.sound = @ /\ c \in b.used[t]]

AddRecord(b, n, c) ==
  [b EXCEPT !.board[c] = n, !.table = [m \in DOMAIN @ \cup {n} |-> IF m = n THEN c ELSE @[m]]]

DeleteRecord(b, n, c) ==
  [b EXCEPT !.board[c] = NoNode, !.table = [m \in DOMAIN @ \ {n} |-> @[m]],
            !.sound = @ /\ n \in DOMAIN b.table]

Exchange(b, n, c, m, d) ==
  AddRecord(AddRecord(DeleteRecord(DeleteRecord(b, n, c), m, d), n, d), m, c)

Move(b, n, c, d) ==
  AddRecord(AddUsed(DeleteRecord(DeleteUsed(b, TypeOf(n), c), n, c), TypeOf(n), d), n, d)

(* swapOnce with the cord getSwapTarget has drawn.                          *)
SwapOnce(b, n, d) ==
  LET c == b.table[n]
      m == b.board[d]
  IN  IF d \in b.used[TypeOf(n)]
      THEN IF m = n THEN b ELSE Exchange(b, n, c, m, d)
      ELSE Move(b, n, c, d)

SwapTargets(b, n) == b.used[TypeOf(n)] \cup b.unused[TypeOf(n)]

(* The nodes that are on the board are taken off it, with their cords.      *)
Clear(b, nodes) ==
  LET gone == nodes \cap DOMAIN b.table
      Cords(t) == {b.table[n] : n \in {m \in gone : TypeOf(m) = t}}
  IN  [board |-> [c \in DOMAIN b.board |-> IF \E n \in gone : b.table[n] = c THEN NoNode ELSE b.board[c]],
       table |-> [n \in DOMAIN b.table \ nodes |-> b.table[n]],
       used |-> [t \in DOMAIN b.used |-> b.used[t] \ Cords(t)],
       unused |-> [t \in DOMAIN b.unused |-> b.unused[t] \cup Cords(t)],
       sound |-> b.sound /\ \A n \in gone : b.table[n] \in b.used[TypeOf(n)]]

(* randomPutNode with the cord getOneUnusedCord has drawn.                  *)
RandomPutNode(b, n, c) == AddRecord(AddUsed(b, TypeOf(n), c), n, c)

(* The two cost functions.  The first counts the links that leave the nodes *)
(* of the stage; a node of a later stage has no place yet.                  *)
ChessboardDist(c, d) ==
  (IF c[1] < d[1] THEN d[1] - c[1] ELSE c[1] - d[1]) + (IF c[2] < d[2] THEN d[2] - c[2] ELSE c[2] - d[2])

PureChessBoard(s, nodes, b) ==
  MapThenSumSet(LAMBDA l : ChessboardDist(b.table[l.from[1]], b.table[l.to[1]]),
                {l \in AllLinks[s] : l.from[1] \in nodes /\ l.to[1] \in DOMAIN b.table})

PunishedChessBoard(s, nodes, b) ==
  MapThenSumSet(LAMBDA e : ChessboardDist(b.table[e[1]], b.table[e[2]]) * Dist[s][e[1]][e[2]] ^ 2,
                {e \in nodes \X nodes : e[1] < e[2]})

GetFunction(s, nodes, b) ==
  IF Systems[s].punished THEN PunishedChessBoard(s, nodes, b) ELSE PureChessBoard(s, nodes, b)

(* initStage, initPara: the nodes each run of the engine places, in the     *)
(* order of their numbers.                                                  *)
Stages ==
  LET ls == {n \in Node : TypeOf(n) = "ls"}
  IN  IF Systems[sys].staged THEN <<ls, Node \ ls>> ELSE <<Node>>

NodesToPlace == Stages[sa.stage]
CostFun(b) == GetFunction(sys, NodesToPlace, b)

placeVars == <<sys, placement, temp, cost, sa>>

PlaceInit ==
  /\ sys \in DOMAIN Systems
  /\ placement = EmptyBoard(sys) /\ temp = EmptyBoard(sys)
  /\ cost = 0
  /\ sa = [stage |-> 1, pc |-> "begin", left |-> {}, count |-> 0, seen |-> {}]

(* goSimulatedAnneal: randomGenerate takes up the nodes of the stage and    *)
(* puts them down one after the other.                                      *)
RandomGenerate ==
  /\ sa.pc = "begin"
  /\ placement' = Clear(placement, NodesToPlace)
  /\ sa' = [sa EXCEPT !.pc = "put", !.left = NodesToPlace]
  /\ UNCHANGED <<sys, temp, cost>>

PutNode ==
  /\ sa.pc = "put"
  /\ \E n \in sa.left : \E c \in placement.unused[TypeOf(n)] :
       /\ \A m \in sa.left : n <= m
       /\ placement' = RandomPutNode(placement, n, c)
       /\ sa' = [sa EXCEPT !.left = @ \ {n}]
  /\ UNCHANGED <<sys, temp, cost>>

InitCost ==
  /\ sa.pc = "put" /\ sa.left = {}
  /\ cost' = CostFun(placement)
  /\ temp' = placement
  /\ sa' = [sa EXCEPT !.pc = "sample", !.count = 0, !.seen = {}]
  /\ UNCHANGED <<sys, placement>>

(* What swapOnce can make of a board, with any node of the stage.           *)
Swapped(b) ==
  UNION {{SwapOnce(b, n, d) : d \in SwapTargets(b, n)} : n \in NodesToPlace}

(* initAStandardDeviation: as many moves as there are nodes.                *)
Sample ==
  /\ sa.pc = "sample" /\ sa.count < Cardinality(NodesToPlace)
  /\ \E moved \in Swapped(temp) :
       /\ temp' = moved
       /\ sa' = [sa EXCEPT !.count = @ + 1, !.seen = @ \cup {CostFun(moved)}]
  /\ UNCHANGED <<sys, placement, cost>>

NextStage == IF sa.stage = Len(Stages) THEN [sa EXCEPT !.pc = "end", !.seen = {}, !.count = 0]
                                       ELSE [sa EXCEPT !.pc = "begin", !.stage = @ + 1]

(* The temperature is 0 when no sampled cost differs from another.          *)
StandardDeviation ==
  /\ sa.pc = "sample" /\ sa.count = Cardinality(NodesToPlace)
  /\ sa' = IF Cardinality(sa.seen) = 1 THEN NextStage
                                       ELSE [sa EXCEPT !.pc = "cool", !.seen = {}, !.count = 0]
  /\ UNCHANGED <<sys, placement, temp, cost>>

(* The head of the main loop.                                               *)
Over ==
  /\ sa.pc = "cool" /\ cost > 0
  /\ sa' = NextStage
  /\ UNCHANGED <<sys, placement, temp, cost>>

StartMoves ==
  /\ sa.pc = "cool"
  /\ temp' = placement
  /\ sa' = [sa EXCEPT !.pc = "move"]
  /\ UNCHANGED <<sys, placement, cost>>

(* Mutation: the cost is that of the last board tried.                      *)
MoveOnceLast ==
  /\ sa.pc = "move"
  /\ \E moved \in Swapped(temp) : \E c \in {CostFun(moved)} :
       /\ cost' = c
       /\ \/ placement' = moved /\ temp' = placement
          \/ c >= cost /\ temp' = moved /\ placement' = placement
  /\ \E pc \in {"move", "cool"} : sa' = [sa EXCEPT !.pc = pc]
  /\ UNCHANGED sys

(* An accepted board changes places with the one before; from that one the  *)
(* moves go on.  A rejected one is not taken back.                          *)
MoveOnce ==
  /\ sa.pc = "move"
  /\ \E moved \in Swapped(temp) : \E c \in {CostFun(moved)} :
       \/ placement' = moved /\ temp' = placement /\ cost' = c
       \/ c >= cost /\ temp' = moved /\ UNCHANGED <<placement, cost>>
  /\ \E pc \in {"move", "cool"} : sa' = [sa EXCEPT !.pc = pc]
  /\ UNCHANGED sys

PlaceNext == RandomGenerate \/ PutNode \/ InitCost \/ Sample \/ StandardDeviation
               \/ Over \/ StartMoves \/ MoveOnce

(* A board is a placement: board and table are inverse to each other, the   *)
(* used cords of a type are those of its nodes, the rest is unused, and no  *)
(* assertion has failed.                                                    *)
Agrees(b) ==
  /\ b.sound
  /\ \A n \in DOMAIN b.table : b.table[n] \in Position(TypeOf(n)) /\ b.board[b.table[n]] = n
  /\ \A c \in Cord : b.board[c] # NoNode => b.board[c] \in DOMAIN b.table /\ b.table[b.board[c]] = c
  /\ \A t \in DOMAIN Arch.block :
       /\ b.used[t] = {b.table[n] : n \in {m \in DOMAIN b.table : TypeOf(m) = t}}
       /\ b.unused[t] = Position(t) \ b.used[t]

(* However the moves, the swaps of the two boards and the stages follow     *)
(* each other, both boards are placements, all the nodes put down so far    *)
(* are on them, and the cost the engine compares with is that of the board  *)
(* it holds (placement_board.cpp:139, sa_engine.cpp:63-79).                 *)
BoardsAgree ==
  /\ Agrees(placement) /\ Agrees(temp)
  /\ sa.pc \in {"sample", "cool", "move"} =>
       /\ cost = CostFun(placement)
       /\ DOMAIN placement.table = UNION {Stages[s] : s \in 1 .. sa.stage}
       /\ DOMAIN temp.table = DOMAIN placement.table

(* The inductive invariant.  Placed is what the stages up to k place; while *)
(* the nodes of a stage are put down, those in left are still missing; when *)
(* moves are made, all the nodes of the stage are on both boards.           *)
Placed(k) == UNION {Stages[s] : s \in 1 .. k}

IsBoard(b) == DOMAIN b = {"board", "table", "used", "unused", "sound"}

BoardOK(b) ==
  /\ IsBoard(b)
  /\ b.board \in [Cord -> Node \cup {NoNode}]
  /\ DOMAIN b.table \subseteq Node /\ b.table \in [DOMAIN b.table -> Cord]
  /\ b.used \in [DOMAIN Arch.block -> SUBSET Cord]
  /\ b.unused \in [DOMAIN Arch.block -> SUBSET Cord]
  /\ Agrees(b)

StageOK ==
  /\ DOMAIN sa = {"stage", "pc", "left", "count", "seen"}
  /\ sa.stage \in DOMAIN Stages
  /\ sa.pc = "begin" => DOMAIN placement.table = Placed(sa.stage - 1)
  /\ sa.pc = "put" => /\ sa.left \subseteq NodesToPlace
                      /\ DOMAIN placement.table = Placed(sa.stage) \ sa.left
  /\ sa.pc \in {"sample", "cool", "move"} =>
       /\ DOMAIN placement.table = Placed(sa.stage)
       /\ DOMAIN temp.table = Placed(sa.stage)
       /\ cost = CostFun(placement)
  /\ sa.pc = "end" => DOMAIN placement.table = Node

PlaceIInv == sys \in DOMAIN Systems /\ BoardOK(placement) /\ BoardOK(temp) /\ StageOK
=============================================================================
