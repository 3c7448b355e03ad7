------------------------------ MODULE Loading ------------------------------
(***************************************************************************)
(* A configuration is read (DFG::xmlRead, src/src/preprocess/              *)
(* preprocess.cpp), its nodes are linked (AppGraph::init,                  *)
(* src/src/app_graph/app_graph.cpp) and the tables of the array and the    *)
(* bridge are made from it (HgraSystem.cpp, bridge.cpp).  The user is      *)
(* asked about a node that cannot be read and about an input from a node   *)
(* that is not there, and answers y or n.                                  *)
(*                                                                         *)
(* ld is how far it has come: dict and order are the two dictionaries,     *)
(* links the links, at and port the node and the input at work.  pc is     *)
(* terminated after an exception nobody catches and undefined once memory  *)
(* is used that is not there: the index of a node that was not found, the  *)
(* null pointer of an lv node, the number of an fg node, never assigned.   *)
(***************************************************************************)
EXTENDS Configuration, SequencesExt

VARIABLE ld

LoadInit ==
  ld = [pc |-> "read", at |-> 1, port |-> 1, dict |-> [t \in {"pe", "fg", "ls", "lv", "lc"} |-> <<>>],
        order |-> <<>>, links |-> <<>>]

(* AppNode::operator== and Util::findIndex; 0 is UINT_MAX.                  *)
FindIndex(order, type, index) ==
  SelectInSeq(order, LAMBDA n : n.type = type /\ n.index = index)

(* The end of reading.  The numbers of fg nodes and lv nodes are not there. *)
Linking(l) ==
  [l EXCEPT !.pc = IF \E i \in DOMAIN l.order : l.order[i].type \in {"fg", "lv"}
                   THEN "undefined" ELSE "link",
            !.at = 1]

NextNodeXml(l, file) == IF l.at = Len(file) THEN Linking(l) ELSE [l EXCEPT !.at = @ + 1]

(* Mutation: a node that cannot be read stays half read in the dictionary   *)
(* of its type.                                                             *)
SkippedHalf(l, x) == [l EXCEPT !.dict[x.type] = Append(@, [type |-> x.type, index |-> x.index])]

(* A node that throws while it is read is in neither dictionary.            *)
Skipped(l, x) == l

XmlRead(file) ==
  LET x == file[ld.at]
      skipped == Skipped(ld, x)
      read == [ld EXCEPT !.dict[x.type] = Append(@, NodeRead(x)), !.order = Append(@, NodeRead(x))]
  IN  /\ ld.pc = "read"
      /\ \/ x.type \notin NodeType /\ ld' = [ld EXCEPT !.pc = "terminated"]
         \/ x.type \in NodeType /\ ~IsRealNode(x.type) /\ ld' = NextNodeXml(ld, file)
         \/ x.type \in NodeType /\ IsRealNode(x.type) /\ Reads(x) /\ ld' = NextNodeXml(read, file)
         \/ /\ x.type \in NodeType /\ IsRealNode(x.type) /\ ~Reads(x)
            /\ ld' \in {NextNodeXml(skipped, file), Linking(skipped)}

(* Generate link, one input of one node.                                    *)
NextLinked(l) ==
  IF l.at >= Len(l.order) THEN [l EXCEPT !.pc = "built"] ELSE [l EXCEPT !.at = @ + 1, !.port = 1]

LinkInput ==
  LET n == ld.order[ld.at]
      in == n.input_vec[ld.port]
      source == FindIndex(ld.order, in.type, in.index)
      link == [from |-> <<source, in.port>>,
               to |-> <<FindIndex(ld.order, n.type, n.index), ld.port - 1>>]
      next == [ld EXCEPT !.port = @ + 1]
  IN  /\ ld.pc = "link"
      /\ \/ ld.order = <<>> /\ ld' = [ld EXCEPT !.pc = "built"]
         \/ ld.order # <<>> /\ ld.port > Len(n.input_vec) /\ ld' = NextLinked(ld)
         \/ /\ ld.order # <<>> /\ ld.port <= Len(n.input_vec)
            /\ \/ ~IsRealNode(in.type) /\ ld' = next
               \/ /\ IsRealNode(in.type) /\ source # 0
                  /\ ld' = [next EXCEPT !.links = Append(@, link)]
               \/ /\ IsRealNode(in.type) /\ source = 0
                  /\ ld' \in {[ld EXCEPT !.pc = "undefined"], NextLinked(ld)}
-----------------------------------------------------------------------------
(* HgraArray::HgraArray and initIndex: the order of the configuration, the  *)
(* place of an element in it and among the elements of its type.  The first *)
(* of two nodes with the same type and number is entered.                   *)
Element(n) == <<n.type, n.index>>
Ele2Order(l, e) == FindIndex(l.order, e[1], e[2])
Index2Order(l, e) ==
  Len(SelectSeq(SubSeq(l.order, 1, Ele2Order(l, e)), LAMBDA n : n.type = e[1]))

(* An element takes its attributes from the dictionary of its type, by its  *)
(* place among them.                                                        *)
Attribution(l, e) == l.dict[e[1]][Index2Order(l, e)]

(* The bridge sends to an element by the number in its attributes, under    *)
(* which the array registers it; the last one registered replaces others.   *)
Registered(l, type) == Len(SelectSeq(l.order, LAMBDA n : n.type = type))
Receiver(l, e) ==
  SelectLastInSeq(SubSeq(l.dict[e[1]], 1, Registered(l, e[1])), LAMBDA a : Element(a) = e)

(* Bridge::initTable: where an output goes, and where an input comes from.  *)
(* A location is an element and a port.                                     *)
Location(l, end) == [element |-> Element(l.order[end[1]]), port |-> end[2]]

NextTable(l, s) ==
  LET sent == SelectSeq(l.links, LAMBDA k : Location(l, k.from) = s)
  IN  [i \in DOMAIN sent |-> Location(l, sent[i].to)]

PreTable(l, t) ==
  LET k == SelectLastInSeq(l.links, LAMBDA j : Location(l, j.to) = t)
  IN  Location(l, l.links[k].from)
=============================================================================
