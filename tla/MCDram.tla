------------------------------- MODULE MCDram -------------------------------
(* Memories for TLC: delays that keep the relations of the device files,   *)
(* the policies of system.ini and the others.                              *)
EXTENDS Dram

Size(chans, ranks, banks, rows) ==
  [f \in Fields |-> CASE f = "chan" -> chans [] f = "rank" -> ranks [] f = "bank" -> banks
                      [] f = "row" -> rows [] OTHER -> 1]
Reads(addrs) == {[addr |-> a, wr |-> FALSE] : a \in addrs}
Writes(addrs) == {[addr |-> a, wr |-> TRUE] : a \in addrs}

(* system.ini: open page, scheme 2, rank then bank, a queue per rank, low  *)
(* power; two ranks.                                                        *)
AsBuilt == [size |-> Size(1, 2, 1, 2), scheme |-> 2, open |-> TRUE, perRank |-> TRUE,
            rankFirst |-> TRUE, lowPower |-> TRUE, period |-> 40, cmdDepth |-> 4, transDepth |-> 2,
            max |-> 2, requests |-> Reads({0}) \cup Writes({1})]
(* One rank and one address read and written, with another row, and three  *)
(* transactions at a time.                                                 *)
OneRank == [AsBuilt EXCEPT !.size = Size(1, 1, 1, 2), !.scheme = 1, !.lowPower = FALSE,
              !.rankFirst = FALSE, !.period = 24, !.max = 3, !.requests = Reads({0, 1}) \cup Writes({0})]
(* Two banks behind one queue.                                              *)
TwoBanks == [OneRank EXCEPT !.size = Size(1, 1, 2, 2), !.max = 2,
               !.requests = Reads({0, 2}) \cup Writes({0})]
(* Closed pages, with a queue per bank and with one per rank.              *)
ClosePage == [TwoBanks EXCEPT !.open = FALSE, !.perRank = FALSE,
                !.requests = Reads({0, 1}) \cup Writes({0})]
CloseRank == [AsBuilt EXCEPT !.open = FALSE]
(* Two channels with short queues.                                         *)
Channels == [OneRank EXCEPT !.size = Size(2, 1, 1, 2), !.scheme = 7, !.cmdDepth = 2,
               !.transDepth = 1, !.max = 3, !.requests = Reads({0}) \cup Writes({1})]

AllConfigs == {AsBuilt, OneRank, TwoBanks, ClosePage, CloseRank, Channels}
=============================================================================
