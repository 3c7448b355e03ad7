------------------------------ MODULE Routing -------------------------------
(***************************************************************************)
(* The routing engine (src/src/pr/mapping/routing_engine/                  *)
(* routing_engine.cpp): every net is routed over the cheapest resources;   *)
(* while resources are shared, they get dearer and one of the nets on the  *)
(* worst of them is taken up and routed again.                             *)
(*                                                                         *)
(* A resource is its index in the resource graph.  at gives each node its  *)
(* cord.                                                                   *)
(***************************************************************************)
EXTENDS Placement

CONSTANT MaxWeight            \* no net is taken up once a weight is above

VARIABLES at,                 \* *_placement
          route,              \* target_paths of every net
          occupy, weight,     \* _state: the nets on a resource, and its weight
          pool,               \* _conflict_pool
          search,             \* the variables of dijkstra
          rt                  \* where the engine is

Graph == Mapped(LAMBDA s : ResourceGraph(s.arch), Systems)
AllNets == Mapped(LAMBDA s : GenerateAllNet(s.dfg), Systems)

(* The ends of the nets are ports that the blocks of their nodes have.      *)
NetAssumption ==
  \A s \in DOMAIN Systems :
    LET Ends(ports(_)) ==
          UNION {{n} \X (0 .. (ports(Systems[s].arch.block[Systems[s].dfg[n].type]) - 1)) :
                   n \in DOMAIN Systems[s].dfg}
    IN  GenerateAllNet(Systems[s].dfg) \in
          Seq([from : Ends(LAMBDA b : b.out), targets : Seq(Ends(LAMBDA b : b.in))])

ASSUME NetAssumption

Res == DOMAIN Graph[sys].res
NextOf(r) == Graph[sys].next[r]
Blocks == {r \in Res : Graph[sys].res[r].kind = "block"}
Nets == AllNets[sys]

NormalPort(end, direction) ==
  PortIndex(Graph[sys], PortPos(TypeOf(end[1]), at[end[1]], direction, "normal", end[2]))
Source(n) == NormalPort(Nets[n].from, "out")
Target(n, i) == NormalPort(Nets[n].targets[i], "in")

routeVars == <<at, route, occupy, weight, pool, search, rt>>

NoSearch == [visit |-> {}, dist |-> <<>>, path |-> <<>>]

RouteInit ==
  /\ at = <<>>
  /\ route = <<>> /\ occupy = <<>> /\ weight = <<>> /\ pool = <<>>
  /\ search = NoSearch
  /\ rt = [pc |-> "idle", net |-> 0, target |-> 0, first |-> TRUE]

(* dijkstra: visit closes the blocks, dist and path are defined on what has *)
(* been reached.  The queue holds what has been reached and not visited: a  *)
(* second copy of an entry, or one with an older distance, changes nothing. *)
(* Entries of the same distance leave it in any order.                      *)
NewSearch(source) ==
  [visit |-> Blocks, dist |-> [r \in {source} |-> 0], path |-> <<>>]

Queue == DOMAIN search.dist \ search.visit

(* Mutation: the comparison of the queue is the wrong way round.            *)
TopFurthest == {r \in Queue : \A s \in Queue : search.dist[r] >= search.dist[s]}

Top == {r \in Queue : \A s \in Queue : search.dist[r] <= search.dist[s]}

Relax(u) ==
  LET better == {r \in NextOf(u) \ (search.visit \cup {u}) :
                   r \notin DOMAIN search.dist \/ search.dist[u] + weight[r] < search.dist[r]}
  IN  [visit |-> search.visit \cup {u},
       dist |-> [r \in DOMAIN search.dist \cup better |->
                   IF r \in better THEN search.dist[u] + weight[r] ELSE search.dist[r]],
       path |-> [r \in DOMAIN search.path \cup better |-> IF r \in better THEN u ELSE search.path[r]]]

(* The path, from the target back to the source.                            *)
PathTo(t) ==
  LET back[r \in Res] == IF r \in DOMAIN search.path THEN Append(back[search.path[r]], r) ELSE <<r>>
  IN  back[t]

PathResources(n) == UNION {ToSet(route[n][i]) : i \in DOMAIN route[n]}

(* Monitor::updateState and ConflictPool::addResource.                      *)
AddResource(p, rs) ==
  [r \in DOMAIN p \cup rs |-> IF r \notin rs THEN p[r] ELSE IF r \in DOMAIN p THEN p[r] + 1 ELSE 2]

(* Mutation: a resource leaves the pool when one conflict is left.          *)
ReduceResourceEarly(p, rs) ==
  [r \in {q \in DOMAIN p : q \notin rs \/ p[q] > 3} |-> IF r \in rs THEN p[r] - 1 ELSE p[r]]

(* Monitor::popNet and ConflictPool::reduceResource.                        *)
ReduceResource(p, rs) ==
  [r \in {q \in DOMAIN p : q \notin rs \/ p[q] # 2} |-> IF r \in rs THEN p[r] - 1 ELSE p[r]]

UpdateState(n) ==
  LET rs == PathResources(n)
      occupied == [r \in Res |-> IF r \in rs THEN Append(occupy[r], n) ELSE occupy[r]]
  IN  /\ occupy' = occupied
      /\ pool' = AddResource(pool, {r \in Res : r \in rs /\ Len(occupied[r]) >= 2})

Erased(list, n) == RemoveAt(list, CHOOSE i \in DOMAIN list : list[i] = n)

PopNet(n) ==
  LET rs == PathResources(n)
  IN  /\ occupy' = [r \in Res |-> IF r \in rs THEN Erased(occupy[r], n) ELSE occupy[r]]
      /\ pool' = ReduceResource(pool, rs)

(* Mutation: the weights do not grow.                                       *)
UpdateWeightNever == UNCHANGED weight

(* updateWeight, from the pool before the net is taken up.                  *)
UpdateWeight == weight' = [r \in Res |-> IF r \in DOMAIN pool THEN weight[r] + pool[r] ELSE weight[r]]

(* updateMaxInfo, getNowConflictNet: the first net on one of the worst      *)
(* resources.                                                               *)
MaxConflict == {r \in DOMAIN pool : \A q \in DOMAIN pool : pool[q] <= pool[r]}
NowConflictNet == {Head(occupy[r]) : r \in MaxConflict}

(* goRouting: the nets in turn; after the last one the main loop.           *)
Turn(n) ==
  IF n \in DOMAIN Nets THEN [pc |-> "net", net |-> n, target |-> 1, first |-> TRUE]
                       ELSE [pc |-> "check", net |-> 0, target |-> 0, first |-> FALSE]

(* goMapping: the placement goes to the routing engine; goRouting clears    *)
(* the monitor and starts with the first net.                               *)
GoRouting ==
  /\ sa.pc = "end" /\ rt.pc = "idle"
  /\ at' = placement.table
  /\ route' = [n \in DOMAIN Nets |-> [i \in DOMAIN Nets[n].targets |-> <<>>]]
  /\ occupy' = [r \in Res |-> <<>>] /\ weight' = [r \in Res |-> 1] /\ pool' = <<>>
  /\ rt' = Turn(1)
  /\ UNCHANGED search

(* routingOneNet: the next target, or the net is recorded.                  *)
NextTarget ==
  /\ rt.pc = "net" /\ rt.target <= Len(Nets[rt.net].targets)
  /\ search' = NewSearch(Source(rt.net))
  /\ rt' = [rt EXCEPT !.pc = "search"]
  /\ UNCHANGED <<at, route, occupy, weight, pool>>

RecordNet ==
  /\ rt.pc = "net" /\ rt.target > Len(Nets[rt.net].targets)
  /\ UpdateState(rt.net)
  /\ rt' = IF rt.first THEN Turn(rt.net + 1)
                       ELSE [rt EXCEPT !.pc = "check", !.net = 0, !.target = 0]
  /\ UNCHANGED <<at, route, weight, search>>

Expand ==
  /\ rt.pc = "search"
  /\ \E u \in Top :
       /\ u # Target(rt.net, rt.target)
       /\ search' = Relax(u)
  /\ UNCHANGED <<at, route, occupy, weight, pool, rt>>

Found ==
  /\ rt.pc = "search" /\ Target(rt.net, rt.target) \in Top
  /\ route' = [route EXCEPT ![rt.net][rt.target] = PathTo(Target(rt.net, rt.target))]
  /\ rt' = [rt EXCEPT !.pc = "net", !.target = @ + 1]
  /\ search' = NoSearch
  /\ UNCHANGED <<at, occupy, weight, pool>>

(* There is no path: the engine throws.                                     *)
NoPath ==
  /\ rt.pc = "search" /\ Queue = {}
  /\ rt' = [rt EXCEPT !.pc = "thrown"]
  /\ UNCHANGED <<at, route, occupy, weight, pool, search>>

(* One turn of the main loop.                                               *)
RipUp ==
  /\ rt.pc = "check" /\ DOMAIN pool # {}
  /\ \A r \in Res : weight[r] <= MaxWeight
  /\ UpdateWeight
  /\ \E n \in NowConflictNet :
       /\ PopNet(n)
       /\ route' = [route EXCEPT ![n] = [i \in DOMAIN @ |-> <<>>]]
       /\ rt' = [rt EXCEPT !.pc = "net", !.net = n, !.target = 1]
  /\ UNCHANGED <<at, search>>

(* Mutation: the engine does not ask for conflicts after the first pass.    *)
GenerateResultUnasked ==
  /\ rt.pc = "check"
  /\ rt' = [rt EXCEPT !.pc = "done"]
  /\ UNCHANGED <<at, route, occupy, weight, pool, search>>

GenerateResult ==
  /\ rt.pc = "check" /\ DOMAIN pool = {}
  /\ rt' = [rt EXCEPT !.pc = "done"]
  /\ UNCHANGED <<at, route, occupy, weight, pool, search>>

RouteNext == GoRouting \/ NextTarget \/ RecordNet \/ Expand \/ Found \/ NoPath
               \/ RipUp \/ GenerateResult
=============================================================================
