------------------------------ MODULE AppGraph ------------------------------
(***************************************************************************)
(* The application graph (src/src/app_graph/app_graph.cpp) and the         *)
(* distances in it (graph_analysis.cpp).                                   *)
(*                                                                         *)
(* dfg is the sequence of nodes of the configuration: type is a node's     *)
(* type of block, input its inputs, each <<node, port>> of the source or   *)
(* <<>> for an input that comes from no real node.                         *)
(***************************************************************************)
EXTENDS Integers, Sequences, FiniteSets, SequencesExt, FiniteSetsExt

(* AppGraph::init: a link for each input from a real node.                  *)
InputLinks(dfg) ==
  FlattenSeq([m \in DOMAIN dfg |->
    SelectSeq([k \in DOMAIN dfg[m].input |->
                 [from |-> dfg[m].input[k], to |-> <<m, k - 1>>]],
              LAMBDA l : l.from # <<>>)])

NextNode(dfg, n) == SelectSeq(InputLinks(dfg), LAMBDA l : l.from[1] = n)

GenerateAllLink(dfg) == FlattenSeq([n \in DOMAIN dfg |-> NextNode(dfg, n)])

(* generateAllNet: the links that leave one port are one net.               *)
AddLink(nets, link) ==
  IF \E i \in DOMAIN nets : nets[i].from = link.from
  THEN [i \in DOMAIN nets |->
          IF nets[i].from = link.from THEN [nets[i] EXCEPT !.targets = Append(@, link.to)] ELSE nets[i]]
  ELSE Append(nets, [from |-> link.from, targets |-> <<link.to>>])

GenerateAllNet(dfg) == FoldLeft(AddLink, <<>>, GenerateAllLink(dfg))

(* AnalysisAppGraph: the number of nodes on the way from one node to the    *)
(* other, the direction of the links left out of account.                   *)
Neighbours(dfg, n) ==
  {m \in DOMAIN dfg : \E i \in DOMAIN InputLinks(dfg) :
     LET l == InputLinks(dfg)[i] IN {l.from[1], l.to[1]} = {n, m}}

Within(dfg, n) ==
  LET W[k \in Nat] == IF k = 0 THEN {n} ELSE W[k - 1] \cup UNION {Neighbours(dfg, m) : m \in W[k - 1]}
  IN  W

GetDistance(dfg, n, m) ==
  IF n = m THEN 0 ELSE 1 + Min({k \in DOMAIN dfg : m \in Within(dfg, n)[k]})

Connected(dfg) == \A n \in DOMAIN dfg : Within(dfg, n)[Len(dfg)] = DOMAIN dfg
=============================================================================
