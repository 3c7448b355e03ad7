--------------------------- MODULE AddressMapping ---------------------------
(***************************************************************************)
(* Where an address lies in the memory                                     *)
(* (src/src/sim/mem_system/AddressMapping.cpp).  An address is cut into    *)
(* fields, from its low bits up, in an order that the scheme gives; the    *)
(* bits of one transaction are thrown away first.  The program cuts bits,  *)
(* this module divides: the sizes are powers of two.                       *)
(***************************************************************************)
EXTENDS Integers, Sequences

CONSTANT TransactionSize  \* TRANSACTION_SIZE, in bytes

Fields == {"chan", "rank", "bank", "row", "col"}

(* The schemes, from the lowest field to the highest.                       *)
Order ==
  <<<<"bank", "col", "row", "rank", "chan">>,
    <<"rank", "bank", "col", "row", "chan">>,
    <<"row", "col", "bank", "rank", "chan">>,
    <<"col", "row", "bank", "rank", "chan">>,
    <<"bank", "rank", "col", "row", "chan">>,
    <<"col", "rank", "bank", "row", "chan">>,
    <<"chan", "bank", "rank", "col", "row">>>>

(* How many values the fields below the i-th take together.                 *)
Below(size, order, i) ==
  LET f[k \in 1 .. 5] == IF k = 1 THEN 1 ELSE f[k - 1] * size[order[k - 1]]
  IN  f[i]

(* addressMapping.                                                          *)
Mapped(size, scheme, addr) ==
  LET order == Order[scheme]
  IN  [f \in Fields |->
         LET i == CHOOSE k \in 1 .. 5 : order[k] = f
         IN  ((addr \div TransactionSize) \div Below(size, order, i)) % size[f]]
=============================================================================
