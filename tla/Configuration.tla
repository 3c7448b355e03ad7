--------------------------- MODULE Configuration ---------------------------
(***************************************************************************)
(* The nodes of a configuration file (src/src/preprocess/): the words that *)
(* each attribute may hold (enum_definition.hpp, enum_converter.hpp) and   *)
(* what a node is read as (preprocess.cpp, dfg_node.hpp).                  *)
(*                                                                         *)
(* A node of the file is a record of words and numbers.  A converter is a  *)
(* function from its words, it throws on any other.  An input is a record  *)
(* with a type and, from a real node, an index and a port; a register is   *)
(* <<value>>, or <<>> for the word null.  Numbers are numbers, and the     *)
(* placement of a node, which nothing that runs reads, is left out.        *)
(***************************************************************************)
EXTENDS Integers, Sequences, TLC

IntMax == 2147483647

Kept(words) == [w \in words |-> w]

NodeType == {"pe", "fg", "ls", "lv", "lc", "null", "begin"}
IsRealNode(type) == type \notin {"begin", "null"}
NodeTypeOf == Kept(NodeType)

PEOpcode == {"null", "add", "mul", "sub", "div", "mod", "lt", "eq", "mux", "mac", "add1", "leshift",
             "rishift", "bit_and", "bit_or", "bit_xor", "cos", "sin", "smux", "neq", "lte", "bit_not",
             "merge", "hlt", "hadd"}
OpcodeOf ==
  ("nop" :> "null" @@ "and" :> "bit_and" @@ "or" :> "bit_or" @@ "xor" :> "bit_xor" @@ "not" :> "bit_not")
    @@ Kept(PEOpcode \ {"null", "bit_and", "bit_or", "bit_xor", "bit_not"})

ControlMode == {"data_flow", "loop_activate", "calc_activate", "loop_reset", "break_pre", "break_post",
                "continue_", "cb", "cinvb", "bind", "transout", "trans"}
ControlModeOf == Kept(ControlMode)

InBufferFrom == {"alu", "flr", "in0", "in1", "in2", "aluin1"}
InBufferFromOf == "null" :> "flr" @@ Kept(InBufferFrom \ {"flr"})

BufferMode == {"buffer", "keep", "lr", "lr_out"}
BufferModeOf == Kept(BufferMode)

InputBypass == {"inbuffer", "bypass"}
InputBypassOf == Kept(InputBypass)

OutputFrom == {"alu", "outbuffer"}
OutputFromOf == Kept(OutputFrom)

FGMode == {"null", "lbegin"}
FGModeOf == Kept(FGMode)

LSMode == {"load", "store_data", "store_addr", "dummy", "null"}
LSModeOf == Kept(LSMode \ {"null"})

BufferSize == {"small", "middle", "large"}
BufferSizeOf == Kept(BufferSize)

VecMode == {"vect", "vecr", "null"}
VecModeOf == Kept(VecMode)
-----------------------------------------------------------------------------
(* Input: an input that comes from no real node has number and port 0.      *)
InputOf(x) ==
  IF IsRealNode(NodeTypeOf[x.type])
  THEN [type |-> NodeTypeOf[x.type], index |-> x.index, port |-> x.port]
  ELSE [type |-> NodeTypeOf[x.type], index |-> 0, port |-> 0]

Inputs(x) == [k \in DOMAIN x.input |-> InputOf(x.input[k])]
InputWords(x) == {<<NodeTypeOf, x.input[k].type>> : k \in DOMAIN x.input}

Each(converter, list) == {<<converter, list[k]>> : k \in DOMAIN list}
Registers(x) == [k \in DOMAIN x.reg |-> IF x.reg[k] = <<>> THEN IntMax ELSE x.reg[k][1]]

(* For each type of node, the words that are converted while it is read     *)
(* (preprocess.cpp) and the node that is made (dfg_node.hpp).               *)
PeWords(x) ==
  InputWords(x)
    \cup {<<OpcodeOf, x.opcode>>, <<ControlModeOf, x.controlMode>>,
          <<InputBypassOf, x.input_bypass>>, <<OutputFromOf, x.output_from>>}
    \cup Each(InBufferFromOf, x.buffer_from) \cup Each(BufferModeOf, x.buffer_mode)

PeRead(x) ==
  [type |-> "pe", index |-> x.index, opcode |-> OpcodeOf[x.opcode],
   control_mode |-> ControlModeOf[x.controlMode], input_bypass |-> InputBypassOf[x.input_bypass],
   inbuffer_from |-> [k \in 1 .. 3 |-> InBufferFromOf[x.buffer_from[k]]],
   buffer_mode |-> [k \in 1 .. 3 |-> BufferModeOf[x.buffer_mode[k]]],
   output_from |-> <<OutputFromOf[x.output_from]>>, input_vec |-> Inputs(x), reg |-> Registers(x),
   key_cal |-> "key_cal" \in DOMAIN x /\ x.key_cal]

(* pss holds the pointer, the step and the size of a vector.                *)
IsVec(x) == "vecmode" \in DOMAIN x
LsWords(x) ==
  InputWords(x) \cup {<<LSModeOf, x.ls_mode>>, <<BufferSizeOf, x.buffer_size>>}
    \cup (IF IsVec(x) THEN {<<VecModeOf, x.vecmode>>} ELSE {})

LsRead(x) ==
  [type |-> "ls", index |-> x.index, ls_mode |-> LSModeOf[x.ls_mode], tag_bind |-> x.tag_mode,
   dae |-> x.dae, fifo_step |-> x.fifo_step, size |-> BufferSizeOf[x.buffer_size], match |-> x.match,
   input_vec |-> Inputs(x), vec_mode |-> IF IsVec(x) THEN VecModeOf[x.vecmode] ELSE "null",
   pss |-> IF IsVec(x) THEN x.pss ELSE <<0, 0, 0>>]

LcRead(x) ==
  [type |-> "lc", index |-> x.index, outermost |-> x.outermost, input_vec |-> Inputs(x),
   reg |-> Registers(x)]

FgWords(x) == InputWords(x) \cup {<<FGModeOf, x.mode>>}
FgRead(x) ==
  [type |-> "fg", index |-> x.index, mode |-> FGModeOf[x.mode], mask |-> x.mask, lut |-> x.lut,
   tag_mode |-> x.tagMode, combine_path |-> x.combinePath, tag_bind |-> x.tagBind,
   input_vec |-> Inputs(x), reg |-> x.reg]

(* lvRead returns a null pointer.                                           *)
LvRead(x) == [type |-> "lv"]

(* Whether the node is read, or a converter or the check of pss throws.     *)
Words(x) ==
  CASE x.type = "pe" -> PeWords(x)
    [] x.type = "ls" -> LsWords(x)
    [] x.type = "lc" -> InputWords(x)
    [] x.type = "fg" -> FgWords(x)
    [] OTHER -> {}

Reads(x) ==
  /\ \A c \in Words(x) : c[2] \in DOMAIN c[1]
  /\ (x.type = "ls" /\ IsVec(x)) => Len(x.pss) = 3

NodeRead(x) ==
  CASE x.type = "pe" -> PeRead(x)
    [] x.type = "ls" -> LsRead(x)
    [] x.type = "lc" -> LcRead(x)
    [] x.type = "fg" -> FgRead(x)
    [] OTHER -> LvRead(x)
=============================================================================
