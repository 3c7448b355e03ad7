-------------------------------- MODULE Flow --------------------------------
(***************************************************************************)
(* From the configuration to a routed array: a configuration is loaded,    *)
(* and the application is placed and routed, as MixedMapping::goMapping    *)
(* (src/src/pr/mapping/mixed_mapping.cpp) and the calls that main names    *)
(* put it together.                                                        *)
(*                                                                         *)
(* A system has one or more files; the first is the one its dfg comes      *)
(* from, the others stop or lose a node on the way, or hold other nodes.   *)
(***************************************************************************)
EXTENDS Routing, Loading

CONSTANT Files                \* of each system, the sequence of its files

VARIABLE file                 \* the index of the file that is loaded

vars == <<placeVars, routeVars, ld, file>>

Init == PlaceInit /\ RouteInit /\ LoadInit /\ file \in DOMAIN Files[sys]

Load == (XmlRead(Files[sys][file]) \/ LinkInput) /\ UNCHANGED <<placeVars, routeVars, file>>

(* Bound: an application is placed when its whole graph was loaded.         *)
Loaded ==
  /\ ld.pc = "built"
  /\ [n \in DOMAIN ld.order |-> ld.order[n].type] = [n \in Node |-> TypeOf(n)]
  /\ ld.links = InputLinks(Dfg)

Place == Loaded /\ PlaceNext /\ UNCHANGED <<routeVars, ld, file>>
Route == Loaded /\ RouteNext /\ UNCHANGED <<placeVars, ld, file>>

(* The program goes on when the nets are routed, and ends when the engine   *)
(* throws or loading ends it.                                               *)
Stopped ==
  \/ rt.pc \in {"done", "thrown"}
  \/ ld.pc \in {"terminated", "undefined"}
  \/ ld.pc = "built" /\ ~Loaded
Ended == Stopped /\ UNCHANGED vars

Next ==
  \/ Load
  \/ Place
  \/ Route
  \/ Ended

(* A single thread.  The moves at one temperature are counted, and every    *)
(* temperature is at most 0.99 of the one before (sa_temperature_function.hpp),  *)
(* so that the loop is over at some time when the cost is not 0.            *)
Fairness ==
  /\ WF_vars(Next)
  /\ WF_vars(Loaded /\ MoveOnce /\ sa'.pc = "cool" /\ UNCHANGED <<routeVars, ld, file>>)
  /\ SF_vars(Loaded /\ Over /\ UNCHANGED <<routeVars, ld, file>>)

Spec == Init /\ [][Next]_vars /\ Fairness

(* The array keeps its nodes in five tables made at different places from   *)
(* two dictionaries: when the configuration has been read, whatever was     *)
(* left out, an element is the node of its number and place (PE.cpp:9,      *)
(* HgraSystem.cpp:101) and is the one that gets what is sent to that number *)
(* (HgraSystem.cpp:27), and each input that was linked is sent to once, by  *)
(* the output its credit goes back to (bridge.cpp:136).                     *)
Output(in) == [element |-> <<in.type, in.index>>, port |-> in.port]
There(l, in) == FindIndex(l.order, in.type, in.index) # 0
AllThere(l, n, p) == \A q \in 1 .. p : IsRealNode(n.input_vec[q].type) => There(l, n.input_vec[q])

Wired(l) ==
  \A i \in DOMAIN l.order :
    LET n == l.order[i]
        At(p) == [element |-> Element(n), port |-> p - 1]
    IN  /\ Ele2Order(l, Element(n)) = i
        /\ Attribution(l, Element(n)) = n
        /\ Receiver(l, Element(n)) = Index2Order(l, Element(n))
        /\ \A p \in DOMAIN n.input_vec :
             LET in == n.input_vec[p]
                 senders == {k \in DOMAIN l.links : Location(l, l.links[k].to) = At(p)}
             IN  IF IsRealNode(in.type) /\ AllThere(l, n, p)
                 THEN /\ Cardinality(senders) = 1
                      /\ Contains(NextTable(l, Output(in)), At(p))
                      /\ PreTable(l, At(p)) = Output(in)
                 ELSE senders = {}

WiredAsRead == [][ld.pc # "built" /\ ld'.pc = "built" => Wired(ld')]_vars

Routed(n) == (rt.pc \in {"check", "done"} \/ n # rt.net) /\ PathResources(n) # {}

(* The pool of conflicts is what the engine decides by, and it is kept by   *)
(* counting (routing_engine.cpp:59-80): at any time it must hold exactly    *)
(* the resources that two or more routed nets have on their paths, with the *)
(* number of the nets, or the engine stops with a shared resource or looks  *)
(* for a net where there is none.                                           *)
PoolIsOccupancy ==
  rt.pc # "idle" =>
    /\ \A r \in Res :
         /\ ToSet(occupy[r]) = {n \in DOMAIN Nets : Routed(n) /\ r \in PathResources(n)}
         /\ IsInjective(occupy[r])
    /\ pool = [r \in {q \in Res : Len(occupy[q]) >= 2} |-> Len(occupy[r])]

(* What the negotiation is for: once the engine writes its result, no port, *)
(* wire or segment is on the paths of two nets, although the loop asks only *)
(* whether the counts are gone (routing_engine.cpp:204), and never whether  *)
(* the paths are apart.                                                     *)
NetsApart ==
  rt.pc = "done" =>
    \A r \in Res : \A n, m \in DOMAIN Nets :
      r \in PathResources(n) /\ r \in PathResources(m) => n = m

(* The inductive invariant of routing: in the first pass the nets that have *)
(* not had their turn have no paths.                                        *)
Busy ==
  /\ DOMAIN rt = {"pc", "net", "target", "first"}
  /\ route = [n \in DOMAIN Nets |-> route[n]]
  /\ occupy \in [Res -> Seq(DOMAIN Nets)]
  /\ rt.pc \in {"net", "search"} => rt.net \in DOMAIN Nets
  /\ rt.pc \in {"check", "done"} => ~rt.first
  /\ rt.pc = "done" => DOMAIN pool = {}
  /\ rt.first => /\ rt.net \in Nat \ {0}
                 /\ \A n \in DOMAIN Nets : n \notin 1 .. rt.net => PathResources(n) = {}

RouteIInv == rt.pc # "idle" => Busy /\ PoolIsOccupancy

IInv == PlaceIInv /\ RouteIInv

(* What is joined to what, read from the ends of the wires and segments.    *)
Joined(x, y) ==
  CASE x.kind = "wire" -> y.kind = "port" /\ x.to = y.pos
    [] y.kind = "wire" -> x.kind = "port" /\ y.from = x.pos
    [] x.kind = "segment" -> y.kind = "port" /\ y.pos \in x.to
    [] y.kind = "segment" -> x.kind = "port" /\ x.pos \in y.from
    [] OTHER -> x.kind = "port" /\ y.kind = "port" /\ x.pos.function = "router"
                  /\ x.pos.direction = "in" /\ y.pos = [x.pos EXCEPT !.direction = "out"]

Entered ==
  Mapped(LAMBDA g : Mapped(LAMBDA y : {q \in DOMAIN g.res : Joined(g.res[q], y)}, g.res), Graph)

(* The resources that can be reached at a weight of at most w, the source   *)
(* counting nothing.                                                        *)
Reach(source, w) ==
  LET R[v \in 0 .. w] ==
        IF v = 0 THEN <<{source}>>
        ELSE LET sets == R[v - 1]
             IN  Append(sets, Last(sets) \cup {r \in Res : weight[r] <= v
                                /\ Entered[sys][r] \cap sets[v - weight[r] + 1] # {}})
  IN  Last(R[w])

(* The resources that a path of any weight leads to from the source: a path *)
(* that comes by no resource twice has no more steps than there are         *)
(* resources.                                                               *)
Reachable(source) ==
  LET R[k \in 0 .. Len(Graph[sys].res)] ==
        IF k = 0 THEN {source}
        ELSE LET set == R[k - 1] IN set \cup {r \in Res : Entered[sys][r] \cap set # {}}
  IN  R[Len(Graph[sys].res)]

PathWeight(p) ==
  LET upTo[k \in 1 .. Len(p)] == IF k = 1 THEN 0 ELSE upTo[k - 1] + weight[p[k]] IN upTo[Len(p)]

IsCheapest(p, source, target) ==
  /\ p[1] = source /\ p[Len(p)] = target
  /\ \A k \in 1 .. (Len(p) - 1) : p[k] \in Entered[sys][p[k + 1]]
  /\ target \notin Reach(source, PathWeight(p) - 1)

CheapestStep ==
  /\ \A n \in DOMAIN Nets : \A i \in DOMAIN Nets[n].targets :
       (rt.pc = "search" /\ route'[n][i] # route[n][i]) =>
          IsCheapest(route'[n][i], Source(n), Target(n, i))
  /\ (rt.pc = "search" /\ rt'.pc = "thrown") =>
       Target(rt.net, rt.target) \notin Reachable(Source(rt.net))

(* A path that the search finds joins the port of the source on the block   *)
(* the source was placed on to the port of the target, over wires, segments *)
(* and routers but through no block, and there is no cheaper one, with the  *)
(* weights that grow while the nets are negotiated (routing_engine.cpp:378).*)
(* The engine gives up only when there is none at all: nothing that can be  *)
(* reached from the source, at whatever weight, is the target.              *)
CheapestPath == [][CheapestStep]_vars

(* Loading, placement and routing come to an end.                           *)
Ends == <>Stopped
=============================================================================
