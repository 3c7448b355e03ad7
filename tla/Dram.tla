-------------------------------- MODULE Dram --------------------------------
(***************************************************************************)
(* The memory: channels of ranks behind a controller each                  *)
(* (src/src/sim/mem_system: MultiChannelMemorySystem, MemorySystem,        *)
(* MemoryController, Rank, BankState, Transaction, BusPacket).             *)
(*                                                                         *)
(* A controller keeps a table of the banks, with the state and the times   *)
(* from which each command is allowed, and decides from it alone what to   *)
(* send.  A rank keeps a table of its own and stops the program when a     *)
(* command breaks it; fault names the check that failed.  One update of    *)
(* the channels is one action, the composition of the phases of            *)
(* MemorySystem::update in their order.                                    *)
(*                                                                         *)
(* No data are kept, statistics and energy are left out.                   *)
(***************************************************************************)
EXTENDS CommandQueue, AddressMapping, FiniteSetsExt

CONSTANTS tCKE, tXP, tCMD,
          Configs           \* the systems

(* cfg, further: scheme, lowPower, period (REFRESH_PERIOD in cycles) and    *)
(* transDepth of the ini files, the requests that come and, a bound, how    *)
(* many can be in the memory at a time (max).                               *)
(* ch[c]: the state of a channel.  open: a history of the transactions its  *)
(* controller has accepted and not completed, in that order.                *)
VARIABLES ch, open

vars == <<cfg, ch, open>>

DramAssumption ==
  /\ {tCKE, tXP, tCMD} \subseteq Nat \ {0}

ASSUME DramAssumption

Chan == 0 .. (cfg.size["chan"] - 1)
States == {"Idle", "RowActive", "Precharging", "Refreshing", "PowerDown"}

(* BankState.                                                               *)
Closed ==
  [state |-> "Idle", row |-> 0, read |-> 0, write |-> 0, act |-> 0, pre |-> 0,
   last |-> "READ", left |-> 0]

(* MemorySystem, MemoryController, CommandQueue and Rank as they start.     *)
NewChannel ==
  [pend  |-> <<>>,  trans |-> <<>>,
   queue |-> [r \in Rank |-> [b \in Bank |-> <<>>]],
   bank  |-> [r \in Rank |-> [b \in Bank |-> Closed]],
   hits  |-> [r \in Rank |-> [b \in Bank |-> 0]],
   faw   |-> [r \in Rank |-> <<>>],
   next  |-> [rank |-> 0, bank |-> 0],  nextPre |-> [rank |-> 0, bank |-> 0],
   sendAct |-> TRUE,  popped |-> Empty,
   refresh |-> Empty,  due |-> 0,
   countdown |-> [r \in Rank |-> (cfg.period \div cfg.size["rank"]) * (r + 1)],
   down  |-> [r \in Rank |-> FALSE],  wake |-> [r \in Rank |-> 0],
   cmd   |-> Empty,  wdata |-> <<>>,  out |-> Empty,
   reads |-> <<>>,   ret   |-> <<>>,
   rbank |-> [r \in Rank |-> [b \in Bank |-> Closed]],
   rwait |-> [r \in Rank |-> FALSE],
   rret  |-> [r \in Rank |-> <<>>],  rout |-> [r \in Rank |-> Empty],
   done  |-> <<>>,   fault |-> "none"]

Init ==
  /\ cfg \in Configs
  /\ ch = [c \in Chan |-> NewChannel]
  /\ open = [c \in Chan |-> <<>>]

Fault(v, what) == [v EXCEPT !.fault = what]

(* ReturnReadData and WriteDataDone: the callbacks of this cycle.           *)
Complete(v, addr, wr) == [v EXCEPT !.done = Append(@, [addr |-> addr, wr |-> wr])]
-----------------------------------------------------------------------------
(* A rank.  receiveFromBus checks the command against the rank's own table, *)
(* then notes in it what the command forbids and for how long.              *)
Allowed(v, p) ==
  LET bank == v.rbank[p.rank][p.bank]
  IN  CASE IsColumn(p) -> /\ bank.state = "RowActive" /\ bank.row = p.row
                          /\ (IF IsRead(p) THEN bank.read ELSE bank.write) = 0
        [] p.type = "ACTIVATE" -> bank.state = "Idle" /\ bank.act = 0
        [] p.type = "PRECHARGE" -> bank.state = "RowActive" /\ bank.pre = 0
        [] OTHER -> \A b \in Bank : v.rbank[p.rank][b].state = "Idle"

RankColumn(banks, p) ==
  LET read == IF IsRead(p) THEN Burst ELSE WriteToReadBank
      write == IF IsRead(p) THEN ReadToWrite ELSE Burst
      spaced == [b \in Bank |-> [banks[b] EXCEPT !.read = Later(@, read), !.write = Later(@, write)]]
  IN  CASE p.type = "READ" -> [spaced EXCEPT ![p.bank].pre = Later(@, ReadToPre)]
        [] p.type = "WRITE" -> [spaced EXCEPT ![p.bank].pre = Later(@, WriteToPre)]
        [] p.type = "READ_P" ->
             [spaced EXCEPT ![p.bank].state = "Idle", ![p.bank].act = Later(@, ReadAutoPre)]
        [] OTHER ->
             [spaced EXCEPT ![p.bank].state = "Idle", ![p.bank].act = Later(@, WriteAutoPre)]

RankActivate(banks, p) ==
  [b \in Bank |->
     IF b = p.bank
     THEN [banks[b] EXCEPT !.state = "RowActive", !.row = p.row, !.act = tRC, !.pre = tRAS,
                           !.read = tRCD - AL, !.write = tRCD - AL]
     ELSE [banks[b] EXCEPT !.act = Later(@, tRRD)]]

RankTable(banks, p) ==
  CASE IsColumn(p) -> RankColumn(banks, p)
    [] p.type = "ACTIVATE" -> RankActivate(banks, p)
    [] p.type = "PRECHARGE" ->
         [banks EXCEPT ![p.bank].state = "Idle", ![p.bank].act = Later(@, tRP)]
    [] OTHER -> [b \in Bank |-> [banks[b] EXCEPT !.act = tRFC]]

Receive(v, p) ==
  LET w == [v EXCEPT !.rbank[p.rank] = RankTable(@, p),
                     !.rwait[p.rank] = @ /\ p.type # "REFRESH",
                     !.rret[p.rank] = IF IsRead(p) THEN Append(@, [addr |-> p.addr, left |-> RL]) ELSE @]
  IN  IF Allowed(v, p) THEN w ELSE Fault(v, p.type)

(* Rank::update: the read data on the bus, then the data whose time has come. *)
RankUpdate(v, r) ==
  LET bus == v.rout[r]
      kept == IF bus # Empty /\ bus.left > 1 THEN [bus EXCEPT !.left = @ - 1] ELSE Empty
      back == IF bus # Empty /\ kept = Empty THEN Append(v.ret, bus.addr) ELSE v.ret
      wait == [i \in DOMAIN v.rret[r] |-> [v.rret[r][i] EXCEPT !.left = @ - 1]]
      ready == wait # <<>> /\ Head(wait).left = 0
  IN  [v EXCEPT !.ret = back,
                !.rout[r] = IF ready THEN [addr |-> Head(wait).addr, left |-> HalfBurst] ELSE kept,
                !.rret[r] = IF ready THEN Tail(wait) ELSE wait]

PowerDown(v, r) ==
  LET w == [v EXCEPT !.down[r] = TRUE, !.wake[r] = tCKE,
                     !.bank[r] = [b \in Bank |-> [@[b] EXCEPT !.state = "PowerDown"]],
                     !.rbank[r] = [b \in Bank |-> [@[b] EXCEPT !.state = "PowerDown"]]]
  IN  IF \A b \in Bank : v.rbank[r][b].state = "Idle" THEN w ELSE Fault(v, "powerDown")

PowerUp(v, r) ==
  LET up(bank) == [bank EXCEPT !.state = "Idle", !.act = tXP]
  IN  [v EXCEPT !.down[r] = FALSE,
                !.bank[r] = [b \in Bank |-> up(@[b])],
                !.rbank[r] = [b \in Bank |-> up(@[b])]]
-----------------------------------------------------------------------------
(* The controller, phase by phase.                                          *)

(* The implicit changes of a bank's state.                                  *)
Changed(bank) ==
  CASE bank.left # 1 -> [bank EXCEPT !.left = IF @ > 0 THEN @ - 1 ELSE 0]
    [] bank.left = 1 /\ bank.last \in {"READ_P", "WRITE_P"} ->
         [bank EXCEPT !.state = "Precharging", !.last = "PRECHARGE", !.left = tRP]
    [] bank.left = 1 /\ bank.last \in {"REFRESH", "PRECHARGE"} ->
         [bank EXCEPT !.state = "Idle", !.left = 0]
    [] OTHER -> [bank EXCEPT !.left = 0]

BankStates(v) == [v EXCEPT !.bank = [r \in Rank |-> [b \in Bank |-> Changed(@[r][b])]]]

(* The command bus.                                                         *)
CommandBus(v) ==
  CASE v.cmd = Empty -> v
    [] v.cmd # Empty /\ v.cmd.left > 1 -> [v EXCEPT !.cmd.left = @ - 1]
    [] OTHER -> Receive([v EXCEPT !.cmd = Empty], v.cmd.packet)

(* The data bus, for writes: the end of a burst, then the next one.         *)
DataBus(v) ==
  LET ends == v.out # Empty /\ v.out.left = 1
      w == IF v.out = Empty THEN v
           ELSE IF ends THEN Complete([v EXCEPT !.out = Empty], v.out.addr, TRUE)
           ELSE [v EXCEPT !.out.left = @ - 1]
      wait == [i \in DOMAIN v.wdata |-> [v.wdata[i] EXCEPT !.left = @ - 1]]
  IN  IF wait = <<>> \/ Head(wait).left # 0 THEN [w EXCEPT !.wdata = wait]
      ELSE IF w.out # Empty THEN Fault(w, "data bus")
      ELSE [w EXCEPT !.wdata = Tail(wait), !.out = [addr |-> Head(wait).addr, left |-> HalfBurst]]

(* A rank whose time has come asks for its refresh; one that sleeps is      *)
(* woken for it.                                                            *)
AskRefresh(v) ==
  LET r == v.due
  IN  CASE v.countdown[r] = 0 ->
             [NeedRefresh(v, r) EXCEPT !.rwait[r] = TRUE, !.countdown[r] = cfg.period,
                                       !.due = (@ + 1) % cfg.size["rank"]]
        [] v.countdown[r] # 0 /\ v.down[r] /\ v.countdown[r] <= tXP -> [v EXCEPT !.rwait[r] = TRUE]
        [] OTHER -> v

(* What a command sent forbids, in the controller's table.                  *)
SentColumn(banks, p) ==
  LET same == [read |-> IF IsRead(p) THEN Burst ELSE WriteToReadBank,
               write |-> IF IsRead(p) THEN ReadToWrite ELSE Burst]
      other == [read |-> IF IsRead(p) THEN HalfBurst + tRTRS ELSE WriteToReadRank,
                write |-> IF IsRead(p) THEN ReadToWrite ELSE HalfBurst + tRTRS]
      own == [banks[p.rank][p.bank] EXCEPT
                !.last = p.type,
                !.pre = CASE p.type = "READ" -> Later(@, ReadToPre)
                          [] p.type = "WRITE" -> Later(@, WriteToPre)
                          [] OTHER -> @,
                !.act = CASE p.type = "READ_P" -> Later(@, ReadAutoPre)
                          [] p.type = "WRITE_P" -> Later(@, WriteAutoPre)
                          [] OTHER -> @,
                !.left = CASE p.type = "READ_P" -> ReadToPre
                           [] p.type = "WRITE_P" -> WriteToPre
                           [] OTHER -> @]
      spaced(bank, d) == [bank EXCEPT !.read = Later(@, d.read), !.write = Later(@, d.write)]
      closing == [own EXCEPT !.read = own.act, !.write = own.act]
  IN  [r \in Rank |-> [b \in Bank |->
        CASE r # p.rank -> IF banks[r][b].state = "RowActive" THEN spaced(banks[r][b], other)
                           ELSE banks[r][b]
          [] r = p.rank /\ b # p.bank -> spaced(banks[r][b], same)
          [] OTHER -> IF p.type \in {"READ_P", "WRITE_P"} THEN closing ELSE spaced(own, same)]]

(* Mutation: the other banks of the rank are not held back.                 *)
SentActivateAlone(banks, p) ==
  [banks EXCEPT ![p.rank][p.bank] =
     [@ EXCEPT !.state = "RowActive", !.last = "ACTIVATE", !.row = p.row,
               !.act = Later(@, tRC), !.pre = Later(@, tRAS),
               !.read = Later(@, tRCD - AL), !.write = Later(@, tRCD - AL)]]

SentActivate(banks, p) ==
  [banks EXCEPT ![p.rank] = [b \in Bank |->
     IF b = p.bank
     THEN [@[b] EXCEPT !.state = "RowActive", !.last = "ACTIVATE", !.row = p.row,
                       !.act = Later(@, tRC), !.pre = Later(@, tRAS),
                       !.read = Later(@, tRCD - AL), !.write = Later(@, tRCD - AL)]
     ELSE [@[b] EXCEPT !.act = Later(@, tRRD)]]]

Sent(banks, p) ==
  CASE IsColumn(p) -> SentColumn(banks, p)
    [] p.type = "ACTIVATE" -> SentActivate(banks, p)
    [] p.type = "PRECHARGE" ->
         [banks EXCEPT ![p.rank][p.bank] =
            [@ EXCEPT !.state = "Precharging", !.last = "PRECHARGE", !.left = tRP,
                      !.act = Later(@, tRP)]]
    [] OTHER ->
         [banks EXCEPT ![p.rank] = [b \in Bank |->
            [@[b] EXCEPT !.act = tRFC, !.state = "Refreshing", !.last = "REFRESH", !.left = tRFC]]]

Issue(v) ==
  LET p == v.popped
      w == [v EXCEPT
              !.bank = Sent(@, p),
              !.wdata = IF IsWrite(p) THEN Append(@, [addr |-> p.addr, left |-> WL]) ELSE @,
              !.cmd = [packet |-> p, left |-> tCMD]]
  IN  CASE p = Empty -> v
        [] p # Empty /\ v.cmd # Empty -> Fault(v, "command bus")
        [] OTHER -> w

(* The first transaction with room for its two commands becomes them.       *)
Place(addr) == Mapped(cfg.size, cfg.scheme, addr)

Packets(t) ==
  LET at == Place(t.addr)
      type == (IF t.wr THEN "WRITE" ELSE "READ") \o (IF cfg.open THEN "" ELSE "_P")
      packet(x) == [type |-> x, rank |-> at["rank"], bank |-> at["bank"], row |-> at["row"],
                    addr |-> t.addr]
  IN  <<packet("ACTIVATE"), packet(type)>>

Schedule(v) ==
  LET i == SelectInSeq(v.trans, LAMBDA t : HasRoomFor(v, 2, Place(t.addr)["rank"], Place(t.addr)["bank"]))
      t == v.trans[i]
  IN  IF i = 0 THEN v
      ELSE FoldLeft(Enqueue,
             [v EXCEPT !.trans = RemoveAt(@, i), !.reads = IF t.wr THEN @ ELSE Append(@, t.addr)],
             Packets(t))

(* Mutation: a rank sleeps through its refresh.                             *)
PowerAsleep(v, r) ==
  CASE IsIdle(v, r) /\ (\A b \in Bank : v.bank[r][b].state = "Idle") -> PowerDown(v, r)
    [] ~IsIdle(v, r) /\ v.down[r] /\ v.wake[r] = 0 -> PowerUp(v, r)
    [] OTHER -> v

Power(v, r) ==
  LET sleepy == IsIdle(v, r) /\ ~v.rwait[r]
  IN  CASE sleepy /\ (\A b \in Bank : v.bank[r][b].state = "Idle") -> PowerDown(v, r)
        [] ~sleepy /\ v.down[r] /\ v.wake[r] = 0 -> PowerUp(v, r)
        [] OTHER -> v

PowerStage(v) ==
  IF cfg.lowPower THEN FoldLeft(Power, v, [i \in 1 .. cfg.size["rank"] |-> i - 1]) ELSE v

(* One answer a cycle, to the first read of its address.                    *)
Return(v) ==
  IF v.ret = <<>> THEN v
  ELSE LET i == SelectInSeq(v.reads, LAMBDA a : a = Head(v.ret))
       IN  IF i = 0 THEN Fault(v, "no match")
           ELSE Complete([v EXCEPT !.reads = RemoveAt(@, i), !.ret = Tail(@)], Head(v.ret), FALSE)

(* step: the clocks advance.                                                *)
Clock(v) ==
  LET less(n) == IF n > 0 THEN n - 1 ELSE 0
      nearer(banks) == [r \in Rank |-> [b \in Bank |->
        [banks[r][b] EXCEPT !.read = less(@), !.write = less(@), !.act = less(@), !.pre = less(@)]]]
  IN  [v EXCEPT !.bank = nearer(@), !.rbank = nearer(@), !.wake = [r \in Rank |-> less(@[r])],
                !.countdown = [r \in Rank |-> @[r] - 1]]

(* A transaction that was waiting before the controller.                    *)
TakePending(v) ==
  IF v.pend # <<>> /\ Len(v.trans) < cfg.transDepth
  THEN [v EXCEPT !.trans = Append(@, Head(v.pend)), !.pend = Tail(@)] ELSE v

(* MemorySystem::update: the ranks, then the controller.                    *)
Accepted(v) == TakePending(FoldLeft(RankUpdate, v, [i \in 1 .. cfg.size["rank"] |-> i - 1]))
ControllerUpdate(v) ==
  Clock(Return(PowerStage(Schedule(Issue(Pop(AskRefresh(DataBus(CommandBus(BankStates(v))))))))))

Updated(v) == IF v.fault # "none" THEN v ELSE ControllerUpdate(Accepted([v EXCEPT !.done = <<>>]))
-----------------------------------------------------------------------------
(* The history.                                                             *)
Entered(h, seq) == h \o [i \in DOMAIN seq |-> [addr |-> seq[i].addr, wr |-> seq[i].wr, issued |-> FALSE]]

Issued(h, p) ==
  IF p = Empty \/ ~IsColumn(p) THEN h
  ELSE LET i == SelectInSeq(h, LAMBDA x : x.addr = p.addr /\ x.wr = IsWrite(p) /\ ~x.issued)
       IN  [h EXCEPT ![i].issued = TRUE]

Left(h, d) == RemoveAt(h, SelectInSeq(h, LAMBDA x : x.addr = d.addr /\ x.wr = d.wr /\ x.issued))

InMemory(c) == Len(ch[c].pend) + Len(open[c])

(* addTransaction: to the controller of its channel when it accepts one,    *)
(* or behind it.                                                            *)
AddTransaction(addr, wr) ==
  LET c == Place(addr)["chan"]
      t == [addr |-> addr, wr |-> wr]
      room == Len(ch[c].trans) < cfg.transDepth
  IN  /\ MapThenSumSet(InMemory, Chan) < cfg.max
      /\ ch' = IF room THEN [ch EXCEPT ![c].trans = Append(@, t)]
                       ELSE [ch EXCEPT ![c].pend = Append(@, t)]
      /\ open' = IF room THEN [open EXCEPT ![c] = Entered(@, <<t>>)] ELSE open
      /\ UNCHANGED cfg

(* MultiChannelMemorySystem::actual_update, one cycle of the memory.  The   *)
(* clock crossing calls it none, once or more times in a cycle of the       *)
(* simulation (ClockDomain.cpp:59-88); what comes between two transactions  *)
(* is any number of updates here, so every ratio of the clocks is there.    *)
Update ==
  \E new \in {[c \in Chan |-> Updated(ch[c])]} :
    /\ ch' = new
    /\ open' = [c \in Chan |->
         LET taken == SubSeq(ch[c].pend, 1, Len(ch[c].pend) - Len(new[c].pend))
         IN  FoldLeft(Left, Issued(Entered(open[c], taken), new[c].popped), new[c].done)]
    /\ UNCHANGED cfg

Next ==
  \/ \E t \in cfg.requests : AddTransaction(t.addr, t.wr)
  \/ Update

(* The simulation calls update every cycle, and the clock crossing passes   *)
(* on its share of the calls; a cycle of the memory always moves a clock.   *)
Ticks == \E c \in Chan : ch'[c].countdown # ch[c].countdown
Fairness == []<><<Ticks>>_vars
Spec == Init /\ [][Next]_vars /\ Fairness
-----------------------------------------------------------------------------
(* The tables hold what the classes of the source declare.                  *)
Time == 0 .. 64  \* bound: longer than any delay
BankType ==
  [state : States, row : 0 .. (cfg.size["row"] - 1), read : Time, write : Time, act : Time, pre : Time,
   last : {"READ", "WRITE", "READ_P", "WRITE_P", "ACTIVATE", "PRECHARGE", "REFRESH"}, left : Time]
Addresses == {t.addr : t \in cfg.requests}
Packet == [type : {"READ", "WRITE", "READ_P", "WRITE_P", "ACTIVATE", "PRECHARGE", "REFRESH"},
           rank : Rank, bank : Bank, row : 0 .. (cfg.size["row"] - 1), addr : Addresses \cup {Empty}]

TypeOK ==
  /\ cfg \in Configs
  /\ \A c \in Chan :
       /\ Len(ch[c].trans) <= cfg.transDepth
       /\ \A r \in Rank, b \in Bank :
            /\ Len(ch[c].queue[r][b]) <= cfg.cmdDepth
            /\ \A i \in DOMAIN ch[c].queue[r][b] : ch[c].queue[r][b][i] \in Packet
       /\ ch[c].bank \in [Rank -> [Bank -> BankType]]
       /\ ch[c].rbank \in [Rank -> [Bank -> BankType]]
       /\ ch[c].refresh \in Rank \cup {Empty} /\ ch[c].due \in Rank
       /\ \A r \in Rank : ch[c].countdown[r] \in 0 .. cfg.period

(* The controller never sends a rank what the rank's own table forbids,     *)
(* never puts two packets on a bus and never loses the read of an answer:   *)
(* none of the checks that stop the program ever fails.                     *)
NoFault == \A c \in Chan : ch[c].fault = "none"

(* A rank's turn to be refreshed ends with its refresh: the one register    *)
(* for the rank that waits is never overwritten by the next rank.           *)
RefreshKept ==
  [][\A c \in Chan :
       ch[c].refresh # Empty /\ ch'[c].refresh # ch[c].refresh =>
         ch'[c].popped = Command("REFRESH", ch[c].refresh, 0)]_vars

(* However commands are reordered, two transactions of an address that a    *)
(* controller has accepted reach the memory in that order.                  *)
SameAddressInOrder ==
  \A c \in Chan : \A i, j \in DOMAIN open[c] :
    i < j /\ open[c][i].addr = open[c][j].addr /\ open[c][j].issued => open[c][i].issued

(* No transaction that a controller has accepted waits for ever, whatever   *)
(* comes after it: row hits, other banks, refreshes and power-downs.        *)
Open(c) == IF c \in Chan THEN open[c] ELSE <<>>
OldestLeaves(c) ==
  /\ Ticks /\ Open(c) # <<>>
  /\ [addr |-> Head(Open(c)).addr, wr |-> Head(Open(c)).wr] \in ToSet(ch'[c].done)
Completed == \A c \in 0 .. 1 : []<>(Open(c) = <<>>) \/ []<><<OldestLeaves(c)>>_vars
=============================================================================
