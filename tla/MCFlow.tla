------------------------------- MODULE MCFlow -------------------------------
(* Arrays and applications for TLC.                                         *)
EXTENDS Flow

Block(in, out, router, position) == [in |-> in, out |-> out, router |-> router, position |-> position]
Normal == <<"normal", 0>>
Router == <<"router", 0>>
Ports(type, cords, direction, function) == {PortPos(type, c, direction, function, 0) : c \in cords}

(* Nodes of a file, with the words of the shipped configurations.           *)
In(type, index) == [type |-> type, index |-> index, port |-> 0]
Null == [type |-> "null"]
Pe(index, input) ==
  [type |-> "pe", index |-> index, opcode |-> "and", controlMode |-> "data_flow",
   buffer_mode |-> <<"buffer", "lr", "buffer">>, buffer_from |-> <<"in0", "null", "in2">>,
   input_bypass |-> "inbuffer", output_from |-> "outbuffer", input |-> input, reg |-> <<<<>>>>]
Ls(index, mode, input) ==
  [type |-> "ls", index |-> index, ls_mode |-> mode, tag_mode |-> TRUE, dae |-> FALSE,
   fifo_step |-> 0, buffer_size |-> "small", match |-> FALSE, input |-> input]
Vec(x, pss) == x @@ [vecmode |-> "vect", pss |-> pss]
Lc(index, input) ==
  [type |-> "lc", index |-> index, outermost |-> TRUE, input |-> input, reg |-> <<<<0>>, <<5>>, <<1>>>>]
Fg(index, input) ==
  [type |-> "fg", index |-> index, mode |-> "lbegin", mask |-> 0, lut |-> 0, tagMode |-> FALSE,
   combinePath |-> FALSE, tagBind |-> FALSE, input |-> input, reg |-> 0]

(* A node of an application graph.                                          *)
Dn(type, input) == [type |-> type, input |-> input]

Square == {0, 1} \X {0, 1}

(* Three nodes on a square of four elements: any board can be reached from  *)
(* any other.  The links are direct.                                        *)
Annealed ==
  [arch |-> [rows |-> 2, block |-> [pe |-> Block(1, 1, 0, Square)],
             nets |-> <<[mode |-> "way8", type |-> "pe", outs |-> {Normal}, ins |-> {Normal}]>>,
             segments |-> <<>>],
   dfg |-> <<Dn("pe", <<<<2, 0>>>>), Dn("pe", <<<<1, 0>>, <<>>>>), Dn("pe", <<<<1, 0>>>>)>>,
   staged |-> FALSE, punished |-> FALSE]

(* The nodes, with a node of an unknown opcode and one of type null between *)
(* them; in the other files a type of node or of input is unknown.          *)
AnnealedNodes ==
  <<Pe(4, <<In("pe", 7)>>),
    [Pe(5, <<>>) EXCEPT !.opcode = "shift"],
    Pe(7, <<In("pe", 4), Null>>),
    [type |-> "null"],
    Pe(5, <<In("pe", 4)>>)>>

AnnealedFiles ==
  <<AnnealedNodes,
    [AnnealedNodes EXCEPT ![3].type = "px"],
    [AnnealedNodes EXCEPT ![3].input[1].type = "px"]>>

(* Three nodes in a circle, over two routers and a segment of one channel:  *)
(* the nets want the segment, and each must get a way of its own.           *)
Diagonal == {<<0, 0>>, <<1, 1>>, <<2, 2>>}
Corners == {<<0, 1>>, <<1, 2>>}
Negotiated ==
  [arch |-> [rows |-> 3,
             block |-> [pe |-> Block(1, 1, 0, Diagonal), rt |-> Block(0, 1, 1, Corners)],
             nets |-> <<[mode |-> "multi_connect", sources |-> Ports("pe", Diagonal, "out", "normal"),
                         targets |-> Ports("rt", Corners, "in", "router")],
                        [mode |-> "multi_connect", sources |-> Ports("rt", Corners, "out", "router"),
                         targets |-> Ports("pe", Diagonal, "in", "normal")]>>,
             segments |-> <<[channels |-> 1, sources |-> Ports("pe", Diagonal, "out", "normal"),
                             targets |-> Ports("pe", Diagonal, "in", "normal")]>>],
   dfg |-> <<Dn("pe", <<<<2, 0>>>>), Dn("pe", <<<<3, 0>>>>), Dn("pe", <<<<1, 0>>>>)>>,
   staged |-> FALSE, punished |-> FALSE]

NegotiatedFiles ==
  <<<<Pe(1, <<In("pe", 0)>>), Pe(0, <<In("pe", 2)>>), Pe(2, <<In("pe", 1)>>)>>,
    <<Fg(0, <<>>), Lc(0, <<In("lc", 0), In("fg", 0)>>)>>,
    <<Lc(0, <<In("lc", 0), In("lc", 1), Null, In("pe", 0)>>), Lc(1, <<Null, In("lc", 0)>>)>>>>

(* Load/store nodes first, then the elements; the elements are in a row     *)
(* and reach each other over hops, the load/store nodes everything.         *)
Left == {<<0, 0>>, <<1, 0>>}
Row == {<<0, 1>>, <<1, 1>>, <<2, 1>>}
Staged ==
  [arch |-> [rows |-> 3, block |-> [ls |-> Block(1, 1, 0, Left), pe |-> Block(2, 1, 0, Row)],
             nets |-> <<[mode |-> "way4hop1", type |-> "pe", outs |-> {Normal}, ins |-> {<<"normal", 1>>}],
                        [mode |-> "full_connect",
                         positions |-> Left, type |-> "ls", outs |-> {Normal}, ins |-> {Normal}],
                        [mode |-> "multi_connect", sources |-> Ports("ls", Left, "out", "normal"),
                         targets |-> Ports("pe", Row, "in", "normal")]>>,
             segments |-> <<>>],
   dfg |-> <<Dn("ls", <<>>), Dn("ls", <<<<1, 0>>>>), Dn("pe", <<<<2, 0>>, <<4, 0>>>>),
             Dn("pe", <<<<1, 0>>, <<>>>>)>>,
   staged |-> TRUE, punished |-> TRUE]

StagedFiles ==
  <<<<Ls(0, "load", <<>>), Ls(1, "load", <<In("ls", 0)>>), Pe(0, <<In("ls", 1), In("pe", 1)>>),
      Pe(1, <<In("ls", 0), Null>>)>>,
    <<Vec(Ls(0, "load", <<>>), <<0, 1, 2>>), Vec(Ls(1, "store_addr", <<Null>>), <<0, 1>>),
      Ls(2, "store_data", <<In("pe", 0)>>), Pe(0, <<In("ls", 0)>>) @@ [key_cal |-> TRUE]>>>>

(* Two elements that no wire joins: what leaves them ends in a router.      *)
Cut ==
  [arch |-> [rows |-> 3,
             block |-> [pe |-> Block(1, 1, 0, {<<0, 0>>, <<2, 2>>}), rt |-> Block(0, 1, 1, {<<1, 1>>})],
             nets |-> <<[mode |-> "way4", type |-> "pe", outs |-> {Normal}, ins |-> {Normal}],
                        [mode |-> "way4hop2", type |-> "pe", outs |-> {Normal}, ins |-> {Normal}],
                        [mode |-> "multi_connect",
                         sources |-> Ports("pe", {<<0, 0>>, <<2, 2>>}, "out", "normal"),
                         targets |-> Ports("rt", {<<1, 1>>}, "in", "router")]>>,
             segments |-> <<>>],
   dfg |-> <<Dn("pe", <<<<>>>>), Dn("pe", <<<<1, 0>>>>)>>,
   staged |-> FALSE, punished |-> FALSE]

CutFiles ==
  <<<<Pe(0, <<Null>>), Pe(1, <<In("pe", 0)>>)>>,
    <<[Pe(0, <<>>) EXCEPT !.controlMode = "loop"]>>>>

MCSystems == <<Annealed, Negotiated, Staged, Cut>>
MCFiles == <<AnnealedFiles, NegotiatedFiles, StagedFiles, CutFiles>>
=============================================================================
