---------------------------- MODULE Architecture ----------------------------
(***************************************************************************)
(* The array on which an application is placed and routed: the parameters  *)
(* read from ArchConfig.xml (src/src/preprocess/para.hpp), the nets of     *)
(* wires (arch_block_net.hpp) and the resource graph built from them       *)
(* (src/src/pr/resource_graph/).                                           *)
(*                                                                         *)
(* A cord is a pair <<x, y>>.  a is an ArchPara: block gives each type of  *)
(* block its number of ports and its positions, nets are the nets of       *)
(* wires, segments those of segments.  A port of a net is <<function,      *)
(* index>>.                                                                *)
(***************************************************************************)
EXTENDS Integers, Sequences, FiniteSets, SequencesExt, FiniteSetsExt

(* PortPos: which port of which block.                                      *)
PortPos(type, cord, direction, function, index) ==
  [type |-> type, cord |-> cord, direction |-> direction, function |-> function, index |-> index]

(* WireNet: where the blocks linked to a block lie.                         *)
Way4 == {<<-1, 0>>, <<0, 1>>, <<1, 0>>, <<0, -1>>}
Way8 == Way4 \cup {<<-1, 1>>, <<1, 1>>, <<1, -1>>, <<-1, -1>>}
Way4Hop1 == {<<k * o[1], k * o[2]>> : k \in 1 .. 2, o \in Way4}
Way4Hop2 == {<<k * o[1], k * o[2]>> : k \in 1 .. 3, o \in Way4}

Offsets == [way4 |-> Way4, way8 |-> Way8, way4hop1 |-> Way4Hop1, way4hop2 |-> Way4Hop2]

(* way8 asks for the block on the left before it links down left.           *)
Linked(position, mode, c) ==
  {d \in position :
     LET o == <<d[1] - c[1], d[2] - c[2]>>
     IN  /\ o \in Offsets[mode]
         /\ (mode = "way8" /\ o = <<1, -1>>) => <<c[1], c[2] - 1>> \in position}

(* generate_link: from each out port of the first to each in port of the    *)
(* second.                                                                  *)
Links(n, c, d) ==
  {<<PortPos(n.type, c, "out", p[1], p[2]), PortPos(n.type, d, "in", q[1], q[2])>> :
     p \in n.outs, q \in n.ins}

MeshConnect(a, n) ==
  UNION {Links(n, e[1], e[2]) : e \in
           {pair \in a.block[n.type].position \X a.block[n.type].position :
              pair[2] \in Linked(a.block[n.type].position, n.mode, pair[1])}}

FullConnect(n) ==
  UNION {Links(n, e[1], e[2]) : e \in {pair \in n.positions \X n.positions : pair[1] # pair[2]}}

MultiConnect(n) == n.sources \X n.targets

Generate(a, n) ==
  CASE n.mode = "full_connect" -> FullConnect(n)
    [] n.mode = "multi_connect" -> MultiConnect(n)
    [] OTHER -> MeshConnect(a, n)

BlocksOf(a) ==
  UNION {{[type |-> t, cord |-> c] : c \in a.block[t].position} : t \in DOMAIN a.block}

PortsOf(a) ==
  UNION {LET d == a.block[b.type]
             Of(direction, function, n) ==
               {PortPos(b.type, b.cord, direction, function, i) : i \in 0 .. (n - 1)}
         IN  Of("in", "normal", d.in) \cup Of("out", "normal", d.out)
               \cup Of("in", "router", d.router) \cup Of("out", "router", d.router) :
           b \in BlocksOf(a)}

(* What the program takes for granted: the number of columns is read from   *)
(* the number of rows, a block is looked for by its position alone, the     *)
(* type of a router port is read from the list of out ports, and a net      *)
(* names ports that are there.                                              *)
ArchOK(a) ==
  /\ a.rows \in Nat /\ IsFiniteSet(DOMAIN a.block)
  /\ \A t \in DOMAIN a.block : {a.block[t].in, a.block[t].out, a.block[t].router} \subseteq Nat
  /\ a.nets \in Seq(ToSet(a.nets)) /\ a.segments \in Seq(ToSet(a.segments))
  /\ \A i \in DOMAIN a.segments : a.segments[i].channels \in Nat
  /\ \A b \in BlocksOf(a) : b.cord \in (0 .. (a.rows - 1)) \X (0 .. (a.rows - 1))
  /\ \A b, c \in BlocksOf(a) : b.cord = c.cord => b = c
  /\ \A t \in DOMAIN a.block : a.block[t].router <= a.block[t].out
  /\ \A i \in DOMAIN a.nets : Generate(a, a.nets[i]) \subseteq PortsOf(a) \X PortsOf(a)
  /\ \A i \in DOMAIN a.segments :
       a.segments[i].sources \cup a.segments[i].targets \subseteq PortsOf(a)

(* The elements of a set, one after the other.                              *)
Listed(set) == FoldSet(LAMBDA x, list : Append(list, x), <<>>, set)

(* elementsConstruct, wireNetConstruct, segmentNetConstruct: the vector of  *)
(* resources, blocks first.                                                 *)
Elements(a) ==
  Listed({[kind |-> "block", type |-> b.type, cord |-> b.cord] : b \in BlocksOf(a)})
    \o Listed({[kind |-> "port", pos |-> p] : p \in PortsOf(a)})

WireNet(a) ==
  FlattenSeq([i \in DOMAIN a.nets |->
                Listed({[kind |-> "wire", from |-> w[1], to |-> w[2]] : w \in Generate(a, a.nets[i])})])

SegmentNet(a) ==
  FlattenSeq([i \in DOMAIN a.segments |->
                [ch \in 1 .. a.segments[i].channels |->
                   [kind |-> "segment", from |-> a.segments[i].sources, to |-> a.segments[i].targets]]])

Resources(a) == Elements(a) \o WireNet(a) \o SegmentNet(a)

(* getAllNextId: the resources that follow resource r.                      *)
Follows(r, s) ==
  CASE r.kind = "block" -> s.kind = "port" /\ s.pos.cord = r.cord
                             /\ s.pos.direction = "out" /\ s.pos.function = "normal"
    [] r.kind = "wire" -> s.kind = "port" /\ s.pos = r.to
    [] r.kind = "segment" -> s.kind = "port" /\ s.pos \in r.to
    [] OTHER ->
         CASE s.kind = "wire" -> s.from = r.pos
           [] s.kind = "segment" -> r.pos \in s.from
           [] s.kind = "block" -> s.cord = r.pos.cord /\ r.pos.direction = "in"
                                    /\ r.pos.function = "normal"
           [] OTHER -> r.pos.direction = "in" /\ r.pos.function = "router"
                         /\ s.pos = [r.pos EXCEPT !.direction = "out"]

(* push_back in a loop.                                                     *)
Mapped(Op(_), list) ==
  LET pushed[i \in 0 .. Len(list)] == IF i = 0 THEN <<>> ELSE Append(pushed[i - 1], Op(list[i]))
  IN  pushed[Len(list)]

ResourceGraph(a) ==
  LET res == Resources(a)
      NextId(r) == {j \in DOMAIN res : Follows(r, res[j])}
  IN  [res |-> res, next |-> Mapped(NextId, res)]

(* RGraphMonitor::queryPortIndex.                                           *)
PortIndex(g, pos) == CHOOSE i \in DOMAIN g.res : g.res[i].kind = "port" /\ g.res[i].pos = pos
=============================================================================
