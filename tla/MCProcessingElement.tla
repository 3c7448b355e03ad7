------------------------ MODULE MCProcessingElement ------------------------
(* Configurations of a processing element for TLC.                          *)
EXTENDS ProcessingElement, TLC

T(v)    == [value |-> v, condition |-> TRUE, last |-> FALSE]
Hole(v) == [value |-> v, condition |-> FALSE, last |-> FALSE]
End(v)  == [value |-> v, condition |-> TRUE, last |-> TRUE]

(* A stand-in for add and mul that keeps two data operands apart; null      *)
(* forwards its second operand.                                             *)
Compute(args) ==
  IF 0 \in DOMAIN args THEN (2 * args[0].value + args[1].value) % 4 ELSE args[1].value

(* A data stream and the control operand that breaks it.                    *)
ControlSent == (1 :> {T(0), T(1), End(1)}) @@ (2 :> {T(0), T(1), End(0)})

Break == [operand |-> {1, 2}, mode |-> "break_post", depth |-> 1, mul |-> FALSE,
          inDepth |-> 2, sent |-> ControlSent]
Continue == [Break EXCEPT !.mode = "continue_", !.depth = 2, !.inDepth = 1]
Choose == [Break EXCEPT !.mode = "cb", !.inDepth = 1]
(* Two data streams, one of them with holes, into the pipeline of mul.      *)
Mul == [operand |-> {0, 1}, mode |-> "data_flow", depth |-> 3, mul |-> TRUE,
        inDepth |-> 1, sent |-> (0 :> {T(0), T(1)}) @@ (1 :> {T(0), Hole(1)})]
(* nop, an ALU of depth 0 that waits for two operands.                      *)
Nop == [Break EXCEPT !.mode = "break_pre", !.depth = 0]

PassConfigs == {Break, Continue, Choose, Mul}
NopConfig == {Nop}
=============================================================================
