---------------------------- MODULE CommandQueue ----------------------------
(***************************************************************************)
(* The command queue of a memory controller                                *)
(* (src/src/sim/mem_system/CommandQueue.cpp): which command goes to the    *)
(* memory in a cycle.  It reads the controller's table of banks.           *)
(*                                                                         *)
(* v is the state of a channel.  The program keeps the cycle from which a  *)
(* command is allowed and compares it with the current cycle; here a time  *)
(* is the number of cycles still to wait, 0 when there is none.            *)
(***************************************************************************)
EXTENDS Integers, Sequences, SequencesExt

CONSTANTS CL, AL, HalfBurst,        \* HalfBurst is BL/2
          tRAS, tRCD, tRRD, tRC, tRP, tCCD, tRTP, tWTR, tWR, tRTRS, tRFC, tFAW,
          TotalRowAccesses,         \* TOTAL_ROW_ACCESSES
          Empty                     \* a null pointer

(* cfg: open, perRank and rankFirst are the policies of the ini file,       *)
(* cmdDepth is CMD_QUEUE_DEPTH, size the number of values of the fields of  *)
(* an address.                                                              *)
VARIABLE cfg

Rank == 0 .. (cfg.size["rank"] - 1)
Bank == 0 .. (cfg.size["bank"] - 1)

Later(x, y) == IF x < y THEN y ELSE x

(* SystemConfiguration.h.                                                   *)
RL == CL + AL
WL == RL - 1
ReadToPre == AL + HalfBurst + Later(tRTP, tCCD) - tCCD
WriteToPre == WL + HalfBurst + tWR
ReadToWrite == RL + HalfBurst + tRTRS - WL
ReadAutoPre == AL + tRTP + tRP
WriteAutoPre == WL + HalfBurst + tWR + tRP
WriteToReadBank == WL + HalfBurst + tWTR
WriteToReadRank == WL + HalfBurst + tRTRS - RL
Burst == Later(HalfBurst, tCCD)

TimingAssumption ==
  /\ {CL, HalfBurst, tRAS, tRCD, tRRD, tRC, tRP, tCCD, tRTP, tWTR, tWR, tRFC, tFAW} \subseteq Nat \ {0}
  /\ tRTRS \in Nat /\ AL \in {0, tRCD - 1}
  /\ TotalRowAccesses \in Nat \ {0}

ASSUME TimingAssumption

IsRead(p) == p.type \in {"READ", "READ_P"}
IsWrite(p) == p.type \in {"WRITE", "WRITE_P"}
IsColumn(p) == IsRead(p) \/ IsWrite(p)

(* new BusPacket for a command that carries no transaction.                 *)
Command(type, r, b) == [type |-> type, rank |-> r, bank |-> b, row |-> 0, addr |-> Empty]

(* getCommandQueue.                                                         *)
QueueOf(b) == IF cfg.perRank THEN 0 ELSE b
Queue(v, r, b) == v.queue[r][QueueOf(b)]

(* Mutation: the last place is counted twice.                               *)
HasRoomForOneLess(v, n, r, b) == cfg.cmdDepth - Len(Queue(v, r, b)) >= n - 1

(* Mutation: a place is kept free.                                          *)
HasRoomForOneMore(v, n, r, b) == cfg.cmdDepth - Len(Queue(v, r, b)) > n

HasRoomFor(v, n, r, b) == cfg.cmdDepth - Len(Queue(v, r, b)) >= n

Enqueue(v, p) == [v EXCEPT !.queue[p.rank][QueueOf(p.bank)] = Append(@, p)]

IsIdle(v, r) == \A b \in Bank : Queue(v, r, b) = <<>>

NeedRefresh(v, r) == [v EXCEPT !.refresh = r]

IsIssuable(v, p) ==
  LET bank == v.bank[p.rank][p.bank]
  IN  CASE p.type = "ACTIVATE" -> /\ bank.state \in {"Idle", "Refreshing"} /\ bank.act = 0
                                  /\ Len(v.faw[p.rank]) < 4
        [] IsColumn(p) -> /\ bank.state = "RowActive" /\ bank.row = p.row
                          /\ (IF IsRead(p) THEN bank.read ELSE bank.write) = 0
                          /\ v.hits[p.rank][p.bank] < TotalRowAccesses
        [] OTHER -> FALSE

(* nextRankAndBank.                                                         *)
NextRankAndBank(at) ==
  LET r == (at.rank + 1) % cfg.size["rank"]
      b == (at.bank + 1) % cfg.size["bank"]
  IN  IF cfg.rankFirst THEN [rank |-> r, bank |-> IF r = 0 THEN b ELSE at.bank]
      ELSE [bank |-> b, rank |-> IF b = 0 THEN r ELSE at.rank]

(* The next queue: of the next rank, when a rank has one queue.             *)
NextQueue(at) ==
  IF cfg.perRank THEN [at EXCEPT !.rank = (@ + 1) % cfg.size["rank"]] ELSE NextRankAndBank(at)

(* The places of a round robin from at, one round, by queues or by banks.   *)
Round(at, byQueue) ==
  LET n == cfg.size["rank"] * cfg.size["bank"]
      f[i \in 1 .. n] == IF i = 1 THEN at ELSE IF byQueue THEN NextQueue(f[i - 1]) ELSE NextRankAndBank(f[i - 1])
      again == {i \in 2 .. n : f[i] = at}
  IN  SubSeq(f, 1, IF again = {} THEN n ELSE (CHOOSE i \in again : \A j \in again : i <= j) - 1)

-----------------------------------------------------------------------------
Send(v, p) == [v EXCEPT !.popped = p]
TakeOut(v, r, b, i) == [v EXCEPT !.queue[r][QueueOf(b)] = RemoveAt(@, i)]
Take(v, r, b, i) == Send(TakeOut(v, r, b, i), Queue(v, r, b)[i])

(* A rank that waits for its refresh: the commands to its open rows go      *)
(* first, then, with open pages, the rows are closed.                       *)
ToOpenRow(v, r, b) ==
  SelectInSeq(Queue(v, r, b), LAMBDA p : p.bank = b /\ p.row = v.bank[r][b].row)

CloseForRefresh(v, r, b) ==
  LET i == ToOpenRow(v, r, b)
      column == i # 0 /\ IsColumn(Queue(v, r, b)[i])
  IN  CASE column /\ IsIssuable(v, Queue(v, r, b)[i]) -> Take(v, r, b, i)
        [] cfg.open /\ ~column /\ v.bank[r][b].pre = 0 ->
             Send([v EXCEPT !.hits[r][b] = 0], Command("PRECHARGE", r, b))
        [] OTHER -> v

SendRefresh(v) ==
  LET r == v.refresh
      early == {b \in Bank : v.bank[r][b].state = "RowActive" \/ v.bank[r][b].act > 0}
      b == CHOOSE x \in early : \A y \in early : x <= y
  IN  IF early # {}
      THEN IF v.bank[r][b].state = "RowActive" THEN CloseForRefresh(v, r, b) ELSE v
      ELSE IF v.bank[r][0].state = "PowerDown" THEN v
      ELSE Send([v EXCEPT !.refresh = Empty], Command("REFRESH", r, 0))

(* Mutation: a row hit overtakes an earlier access of its row.              *)
CandidateAny(v, q) == SelectInSeq(q, LAMBDA p : IsIssuable(v, p))

(* The command of a queue that may go, 0 when there is none.  With open     *)
(* pages none overtakes an access of the same row; with closed pages a      *)
(* column access waits for its activate.                                    *)
Candidate(v, q) ==
  LET may == {i \in DOMAIN q :
        /\ IsIssuable(v, q[i])
        /\ IF cfg.open
           THEN \A j \in 1 .. (i - 1) :
                  q[j].type = "ACTIVATE" \/ q[j].bank # q[i].bank \/ q[j].row # q[i].row
           ELSE IF cfg.perRank
           THEN i > 1 => q[i - 1].type # "ACTIVATE" \/ q[i - 1].addr # q[i].addr
           ELSE i = 1}
  IN  IF may = {} THEN 0 ELSE CHOOSE i \in may : \A j \in may : i <= j

(* With open pages the activate before a row hit is thrown away.            *)
TakeCandidate(v, r, b) ==
  LET q == Queue(v, r, b)
      i == Candidate(v, q)
      p == q[i]
      w == Take(v, r, b, i)
  IN  IF cfg.open /\ i > 1 /\ q[i - 1].type = "ACTIVATE"
      THEN [TakeOut(w, r, b, i - 1) EXCEPT !.hits[p.rank][p.bank] = @ + 1]
      ELSE w

SendCommand(v) ==
  LET round == Round(v.next, TRUE)
      k == SelectInSeq(round, LAMBDA at : at.rank # v.refresh
                                      /\ Candidate(v, Queue(v, at.rank, at.bank)) # 0)
  IN  IF k = 0 THEN v
      ELSE [TakeCandidate(v, round[k].rank, round[k].bank) EXCEPT !.next = round[k]]

(* Nothing to issue: a row that nothing waits for, or that was used often   *)
(* enough, is closed.                                                       *)
SendPrecharge(v) ==
  LET round == Round(v.nextPre, FALSE)
      k == SelectInSeq(round, LAMBDA at :
             LET bank == v.bank[at.rank][at.bank]
             IN  /\ bank.state = "RowActive" /\ bank.pre = 0
                 /\ \/ ToOpenRow(v, at.rank, at.bank) = 0
                    \/ v.hits[at.rank][at.bank] = TotalRowAccesses)
      at == round[k]
  IN  IF ~cfg.open \/ k = 0 THEN v
      ELSE Send([v EXCEPT !.nextPre = at, !.hits[at.rank][at.bank] = 0],
                Command("PRECHARGE", at.rank, at.bank))

(* The end of pop: posted commands send the activate and its column access  *)
(* before the round goes on.                                                *)
Popped(v) ==
  LET stay == AL > 0 /\ v.sendAct
      w == [v EXCEPT !.sendAct = ~stay, !.next = IF stay THEN @ ELSE NextRankAndBank(@)]
  IN  IF v.popped = Empty THEN v
      ELSE IF v.popped.type = "ACTIVATE" THEN [w EXCEPT !.faw[v.popped.rank] = Append(@, tFAW)]
      ELSE w

(* The windows of four activates.                                           *)
CountFaw(v) ==
  [v EXCEPT !.faw = [r \in Rank |->
     LET left == [i \in DOMAIN @[r] |-> @[r][i] - 1]
     IN  IF left # <<>> /\ Head(left) = 0 THEN Tail(left) ELSE left]]

Pop(v) ==
  LET counted == CountFaw([v EXCEPT !.popped = Empty])
      refreshed == IF v.refresh = Empty THEN counted ELSE SendRefresh(counted)
      sent == IF refreshed.popped = Empty THEN SendCommand(refreshed) ELSE refreshed
      closed == IF sent.popped = Empty THEN SendPrecharge(sent) ELSE sent
  IN  Popped(closed)
=============================================================================
