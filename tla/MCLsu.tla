------------------------------- MODULE MCLsu -------------------------------
(* Settings of the load/store unit for TLC: two elements, two banks.       *)
EXTENDS Lsu

Base == [allHit |-> TRUE, byCache |-> FALSE, stalls |-> TRUE, rbypass |-> FALSE,
         wbypass |-> FALSE, bus |-> TRUE, vec |-> 0, step |-> 1, base |-> [t \in Tags |-> 0],
         stores |-> {}, tags |-> Tags, addrs |-> [e \in Lane |-> {0, 2}]]

(* system.xml as it is, one element stores.                                *)
AsBuilt == [Base EXCEPT !.stores = {1}]
(* Without inflight_block, stores past the cache.                          *)
NoStall == [Base EXCEPT !.stalls = FALSE, !.wbypass = TRUE, !.stores = {1}]
(* Reads past the cache.                                                   *)
ReadBypass == [Base EXCEPT !.rbypass = TRUE, !.addrs = [e \in Lane |-> {0, 3}]]
(* Lookups, banks chosen by the address: blocks 0, 2 and 4 share a set.    *)
LookUps == [Base EXCEPT !.allHit = FALSE, !.byCache = TRUE, !.bus = FALSE, !.tags = {0},
              !.stores = {1}, !.addrs = [e \in Lane |-> IF e = 0 THEN {0, 4, 8} ELSE {0}]]
(* Lookups, banks chosen by the length of the FIFOs, one block.            *)
OneBlock == [Base EXCEPT !.allHit = FALSE, !.stalls = FALSE, !.addrs = [e \in Lane |-> {e}]]
OneBlockStall == [OneBlock EXCEPT !.stalls = TRUE]
(* More blocks than lines of the miss table.                               *)
FullTable == [Base EXCEPT !.allHit = FALSE, !.byCache = TRUE,
                !.addrs = [e \in Lane |-> IF e = 0 THEN {0, 2} ELSE {4}]]
(* Two elements that load as a group, within a line and across two.        *)
Vector == [Base EXCEPT !.vec = 2, !.allHit = FALSE, !.stalls = FALSE,
             !.base = [t \in Tags |-> t + 1], !.addrs = [e \in Lane |-> 0 .. 3]]

AllConfigs == {AsBuilt, NoStall, ReadBypass, LookUps, OneBlock, OneBlockStall, FullTable, Vector}
=============================================================================
