-------------------------------- MODULE Dram --------------------------------
(***************************************************************************)
(* One memory as OCPWrappedMemory uses it: MemorySystem, MemoryController, *)
(* CommandQueue, BankState and Rank of DRAMSim2, clocked by                *)
(* MemorySystem::update.                                                   *)
(*                                                                         *)
(* Modelled as the platform configures it: one channel, one rank, closed   *)
(* pages (every column command precharges), a queue per bank, banks taken  *)
(* in turn, no power-down.  Times the code keeps as the cycle at which     *)
(* something is next allowed are kept as the number of cycles until then.  *)
(* Data, energy and statistics are left out.                               *)
(*                                                                         *)
(* A transaction is a number: its place in hist, where its type and        *)
(* address are.  The code matches a completion by address only; the number *)
(* shows which transaction was meant.                                      *)
(***************************************************************************)
EXTENDS DramTiming, Sequences, SequencesExt

CONSTANTS
  NumBanks,
  TransQueueDepth,   \* TRANS_QUEUE_DEPTH
  CmdQueueDepth,     \* CMD_QUEUE_DEPTH
  RefreshCycles,     \* REFRESH_PERIOD / tCK
  Addrs,             \* transaction-aligned addresses, in units of a transaction
  MaxTransactions,   \* bound on the transactions issued
  FirstArrival,      \* bounds on the cycle in which one is issued
  LastArrival

ASSUME DramAssumption ==
  /\ {NumBanks, TransQueueDepth, RefreshCycles} \subseteq Nat \ {0}
  /\ CmdQueueDepth \in Nat /\ CmdQueueDepth >= 2
  /\ Addrs \subseteq Nat

VARIABLES
  mem,      \* the memory system, as a record (Init lists its fields)
  clock,    \* cycles passed, up to LastArrival + 1
  hist,     \* the transactions issued, in order
  done      \* those completed

vars == <<mem, clock, hist, done>>

Banks == 0 .. (NumBanks - 1)

\* addressMapping, scheme 2 with one rank and one transaction per row.
BankOf(a) == a % NumBanks
RowOf(a) == a \div NumBanks

None == 0    \* no transaction
NoCommand == [type |-> "none", id |-> None]

Later(a, b) == Larger(a, b)
Sooner(n) == IF n = 0 THEN 0 ELSE n - 1

BankOfCmd(c) == BankOf(hist[c.id].addr)
RowOfCmd(c) == RowOf(hist[c.id].addr)

\* The first error of the run is kept: the code exits there.
Fail(s, what) == IF s.error = "none" THEN [s EXCEPT !.error = what] ELSE s

-----------------------------------------------------------------------------
(* Rank.cpp.  receiveFromBus checks each command against the rank's own    *)
(* bank states and exits when it is not allowed.                           *)
RankAllows(s, c) ==
  CASE c.type = "REFRESH" -> \A b \in Banks : s.rank[b].state = "Idle"
    [] c.type = "ACTIVATE" ->
         LET r == s.rank[BankOfCmd(c)] IN r.state = "Idle" /\ r.act = 0
    [] c.type = "READ_P" ->
         LET r == s.rank[BankOfCmd(c)]
         IN  r.state = "RowActive" /\ r.rd = 0 /\ r.row = RowOfCmd(c)
    [] c.type = "WRITE_P" ->
         LET r == s.rank[BankOfCmd(c)]
         IN  r.state = "RowActive" /\ r.wr = 0 /\ r.row = RowOfCmd(c)

RankBanks(r, c) ==
  IF c.type = "REFRESH" THEN [b \in Banks |-> [r[b] EXCEPT !.act = tRFC]]
  ELSE [b \in Banks |->
    LET own == (b = BankOfCmd(c)) IN
    CASE c.type = "ACTIVATE" ->
           IF own THEN [r[b] EXCEPT !.state = "RowActive", !.row = RowOfCmd(c),
                          !.act = tRC, !.rd = tRCD - AL, !.wr = tRCD - AL]
           ELSE [r[b] EXCEPT !.act = Later(@, tRRD)]
      [] c.type = "READ_P" ->
           [r[b] EXCEPT !.state = IF own THEN "Idle" ELSE @,
              !.act = IF own THEN Later(@, READ_AUTOPRE_DELAY) ELSE @,
              !.rd = Later(@, ColumnToColumn),
              !.wr = Later(@, READ_TO_WRITE_DELAY)]
      [] c.type = "WRITE_P" ->
           [r[b] EXCEPT !.state = IF own THEN "Idle" ELSE @,
              !.act = IF own THEN Later(@, WRITE_AUTOPRE_DELAY) ELSE @,
              !.wr = Later(@, ColumnToColumn),
              !.rd = Later(@, WRITE_TO_READ_DELAY_B)]]

RankReceives(s, c) ==
  IF ~RankAllows(s, c) THEN Fail(s, "CommandNotAllowed")
  ELSE [s EXCEPT !.rank = RankBanks(@, c),
          !.reading = IF c.type = "READ_P"
                        THEN Append(@, [id |-> c.id, left |-> RL]) ELSE @]

(* Rank::update: the packet on the bus moves on to the controller, and the *)
(* read whose latency has passed takes the bus, whatever is on it.         *)
RankUpdate(s) ==
  LET arrived == s.rankData.id # None /\ s.rankData.left = 1
      bus == IF s.rankData.id = None \/ arrived
               THEN [id |-> None, left |-> 0]
               ELSE [s.rankData EXCEPT !.left = @ - 1]
      waiting == [i \in DOMAIN s.reading |-> [s.reading[i] EXCEPT !.left = @ - 1]]
      ready == waiting # <<>> /\ Head(waiting).left = 0
      t == [s EXCEPT !.returning = IF arrived THEN Append(@, s.rankData.id) ELSE @,
              !.rankData = IF ready THEN [id |-> Head(waiting).id, left |-> Burst] ELSE bus,
              !.reading = IF ready THEN Tail(waiting) ELSE waiting]
  IN  IF ready /\ bus.id # None THEN Fail(t, "ReadDataOverwritten") ELSE t

-----------------------------------------------------------------------------
(* CommandQueue.cpp, for closed pages.                                     *)
IsIssuable(s, c) ==
  LET b == s.bank[BankOfCmd(c)] IN
  CASE c.type = "ACTIVATE" ->
         b.state \in {"Idle", "Refreshing"} /\ b.act = 0 /\ Len(s.faw) < 4
    [] c.type = "WRITE_P" -> b.state = "RowActive" /\ b.wr = 0 /\ b.row = RowOfCmd(c)
    [] c.type = "READ_P" -> b.state = "RowActive" /\ b.rd = 0 /\ b.row = RowOfCmd(c)

HasRoomFor(s, n, b) == CmdQueueDepth - Len(s.queue[b]) >= n

\* The sliding window of tFAW: one counter per activate.
FawTick(s) ==
  LET less == [i \in DOMAIN s.faw |-> s.faw[i] - 1]
  IN  [s EXCEPT !.faw = IF less # <<>> /\ Head(less) = 0 THEN Tail(less) ELSE less]

(* What the refresh logic may send: the column command an open bank is     *)
(* still waiting for, or the refresh when every bank is closed and rested. *)
\* The bank the loop over the banks stops at.
Blocking(s) == {b \in Banks : s.bank[b].state = "RowActive" \/ s.bank[b].act > 0}
FirstOf(S) == CHOOSE b \in S : \A c \in S : b <= c

\* Places in the queue of b of the first command for its open row.
OpenRowCommand(s, b) ==
  LET same == {i \in DOMAIN s.queue[b] : RowOfCmd(s.queue[b][i]) = s.bank[b].row}
  IN  IF s.bank[b].state = "RowActive" /\ same # {} THEN {FirstOf(same)} ELSE {}

\* Mutant: the flag is not reset when the refresh is sent.
RefreshChoiceKeep(s) ==
  IF ~s.refreshWaiting THEN {}
  ELSE IF Blocking(s) = {}
    THEN {[cmd |-> [type |-> "REFRESH", id |-> None], next |-> s]}
  ELSE LET b == FirstOf(Blocking(s)) IN
       {[cmd |-> s.queue[b][i],
         next |-> [s EXCEPT !.queue[b] = RemoveAt(@, i)]] :
           i \in {j \in OpenRowCommand(s, b) :
                    s.queue[b][j].type # "ACTIVATE" /\ IsIssuable(s, s.queue[b][j])}}

\* The choices of pop: records with the command and the state after it.
RefreshChoice(s) ==
  IF ~s.refreshWaiting THEN {}
  ELSE IF Blocking(s) = {}
    THEN {[cmd |-> [type |-> "REFRESH", id |-> None],
           next |-> [s EXCEPT !.refreshWaiting = FALSE]]}
  ELSE LET b == FirstOf(Blocking(s)) IN
       {[cmd |-> s.queue[b][i],
         next |-> [s EXCEPT !.queue[b] = RemoveAt(@, i)]] :
           i \in {j \in OpenRowCommand(s, b) :
                    s.queue[b][j].type # "ACTIVATE" /\ IsIssuable(s, s.queue[b][j])}}

Turn(s, k) == (s.nextBank + k) % NumBanks

NormalChoice(s) ==
  LET ok == {k \in 0 .. (NumBanks - 1) :
               /\ ~s.refreshWaiting
               /\ s.queue[Turn(s, k)] # <<>>
               /\ IsIssuable(s, Head(s.queue[Turn(s, k)]))}
  IN  IF ok = {} THEN {}
      ELSE LET b == Turn(s, FirstOf(ok)) IN
           {[cmd |-> Head(s.queue[b]),
             next |-> [s EXCEPT !.queue[b] = Tail(@), !.nextBank = b]]}

\* With posted CAS the index stays for the column command of an activate.
Advance(s) ==
  IF AL > 0 /\ s.sendAct THEN [s EXCEPT !.sendAct = FALSE]
  ELSE [s EXCEPT !.sendAct = TRUE, !.nextBank = (@ + 1) % NumBanks]

Pop(s) ==
  {[cmd |-> p.cmd,
    next |-> [Advance(p.next) EXCEPT
                !.faw = IF p.cmd.type = "ACTIVATE" THEN Append(@, tFAW) ELSE @]] :
      p \in IF RefreshChoice(s) # {} THEN RefreshChoice(s) ELSE NormalChoice(s)}

-----------------------------------------------------------------------------
(* MemoryController.cpp: the parts of update, in their order.              *)
BankTick(b) ==
  LET c == Sooner(b.change) IN
  IF b.change = 1 /\ b.last \in {"READ_P", "WRITE_P"}
    THEN [b EXCEPT !.state = "Precharging", !.last = "PRECHARGE", !.change = tRP]
  ELSE IF b.change = 1 /\ b.last \in {"REFRESH", "PRECHARGE"}
    THEN [b EXCEPT !.state = "Idle", !.change = 0]
  ELSE [b EXCEPT !.change = c]

UpdateBankStates(s) == [s EXCEPT !.bank = [b \in Banks |-> BankTick(@[b])]]

DeliverCommand(s) ==
  IF s.cmd = NoCommand THEN s
  ELSE IF s.cmdLeft > 1 THEN [s EXCEPT !.cmdLeft = @ - 1]
  ELSE RankReceives([s EXCEPT !.cmd = NoCommand, !.cmdLeft = 0], s.cmd)

\* The write is reported done when its data has left the bus.
DeliverData(s) ==
  IF s.data.id = None THEN s
  ELSE IF s.data.left > 1 THEN [s EXCEPT !.data.left = @ - 1]
  ELSE [s EXCEPT !.data = [id |-> None, left |-> 0],
          !.completed = Append(@, s.data.id)]

SendWriteData(s) ==
  LET waiting == [i \in DOMAIN s.writing |-> [s.writing[i] EXCEPT !.left = @ - 1]]
      t == [s EXCEPT !.writing = waiting]
  IN  IF waiting = <<>> \/ Head(waiting).left # 0 THEN t
      ELSE IF s.data.id # None THEN Fail(t, "DataBusCollision")
      ELSE [t EXCEPT !.writing = Tail(waiting),
              !.data = [id |-> Head(waiting).id, left |-> Burst]]

Refresh(s) ==
  IF s.refreshCountdown = 0
    THEN [s EXCEPT !.refreshWaiting = TRUE, !.refreshCountdown = RefreshCycles]
    ELSE s

\* The bank states after command c of bank b.
AfterRead(s, b) ==
  [d \in Banks |->
     IF d = b
       THEN LET act == Later(s.bank[d].act, READ_AUTOPRE_DELAY)
            IN  [s.bank[d] EXCEPT !.act = act, !.rd = act, !.wr = act,
                   !.last = "READ_P", !.change = READ_TO_PRE_DELAY]
       ELSE [s.bank[d] EXCEPT !.rd = Later(@, ColumnToColumn),
               !.wr = Later(@, READ_TO_WRITE_DELAY)]]

\* Mutant: a read may follow at the distance of another write.
AfterWriteNoTurnaround(s, b) ==
  [d \in Banks |->
     IF d = b
       THEN LET act == Later(s.bank[d].act, WRITE_AUTOPRE_DELAY)
            IN  [s.bank[d] EXCEPT !.act = act, !.rd = act, !.wr = act,
                   !.last = "WRITE_P", !.change = WRITE_TO_PRE_DELAY]
       ELSE [s.bank[d] EXCEPT !.wr = Later(@, ColumnToColumn),
               !.rd = Later(@, ColumnToColumn)]]

AfterWrite(s, b) ==
  [d \in Banks |->
     IF d = b
       THEN LET act == Later(s.bank[d].act, WRITE_AUTOPRE_DELAY)
            IN  [s.bank[d] EXCEPT !.act = act, !.rd = act, !.wr = act,
                   !.last = "WRITE_P", !.change = WRITE_TO_PRE_DELAY]
       ELSE [s.bank[d] EXCEPT !.wr = Later(@, ColumnToColumn),
               !.rd = Later(@, WRITE_TO_READ_DELAY_B)]]

AfterActivate(s, b, row) ==
  [d \in Banks |->
     IF d = b
       THEN [s.bank[d] EXCEPT !.state = "RowActive", !.last = "ACTIVATE",
               !.row = row, !.act = Later(@, tRC),
               !.rd = Later(@, tRCD - AL), !.wr = Later(@, tRCD - AL)]
       ELSE [s.bank[d] EXCEPT !.act = Later(@, tRRD)]]

AfterRefresh(s) ==
  [d \in Banks |-> [s.bank[d] EXCEPT !.act = tRFC, !.state = "Refreshing",
                      !.last = "REFRESH", !.change = tRFC]]

BankStatesAfter(s, c) ==
  CASE c.type = "REFRESH" -> AfterRefresh(s)
    [] c.type = "ACTIVATE" -> AfterActivate(s, BankOfCmd(c), RowOfCmd(c))
    [] c.type = "READ_P" -> AfterRead(s, BankOfCmd(c))
    [] c.type = "WRITE_P" -> AfterWrite(s, BankOfCmd(c))

\* Command p.cmd goes on the bus, p.next is the state pop left.
Issued(s, p) ==
  LET t == [p.next EXCEPT !.bank = BankStatesAfter(p.next, p.cmd),
              !.writing = IF p.cmd.type = "WRITE_P"
                            THEN Append(@, [id |-> p.cmd.id, left |-> WL])
                            ELSE @]
  IN  IF s.cmd # NoCommand THEN Fail(t, "CommandBusCollision")
      ELSE [t EXCEPT !.cmd = p.cmd, !.cmdLeft = tCMD]

IssueCommand(s) ==
  IF Pop(s) = {} THEN s ELSE CHOOSE t \in {Issued(s, p) : p \in Pop(s)} : TRUE

(* One transaction a cycle is broken up into an activate and a column      *)
(* command: the first whose bank has room for both.                        *)
Room(s) == {i \in DOMAIN s.transactionQueue :
              HasRoomFor(s, 2, BankOf(hist[s.transactionQueue[i]].addr))}

Scheduled(s, i) ==
  LET id == s.transactionQueue[i]
      column == IF hist[id].write THEN "WRITE_P" ELSE "READ_P"
  IN  [s EXCEPT !.transactionQueue = RemoveAt(@, i),
         !.queue[BankOf(hist[id].addr)] =
           @ \o <<[type |-> "ACTIVATE", id |-> id], [type |-> column, id |-> id]>>,
         !.pendingRead = IF hist[id].write THEN @ ELSE Append(@, id)]

\* Mutant: the youngest transaction first.
ScheduleLast(s) ==
  IF Room(s) = {} THEN s
  ELSE Scheduled(s, CHOOSE i \in Room(s) : \A j \in Room(s) : j <= i)

ScheduleTransaction(s) ==
  IF Room(s) = {} THEN s ELSE Scheduled(s, FirstOf(Room(s)))

\* Read data is stapled to the first pending read of its address.
ReturnData(s) ==
  IF s.returning = <<>> THEN s
  ELSE LET addr == hist[Head(s.returning)].addr
           match == {i \in DOMAIN s.pendingRead : hist[s.pendingRead[i]].addr = addr}
           t == [s EXCEPT !.returning = Tail(@)]
       IN  IF match = {} THEN Fail(t, "NoMatchingTransaction")
           ELSE [t EXCEPT !.completed = Append(@, s.pendingRead[FirstOf(match)]),
                   !.pendingRead = RemoveAt(@, FirstOf(match))]

\* What the controller or the rank waits for at a bank is a cycle closer.
Aged(k) == [k EXCEPT !.rd = Sooner(@), !.wr = Sooner(@), !.act = Sooner(@)]

\* The cycle ends.
Step(s) ==
  [s EXCEPT !.refreshCountdown = @ - 1,
     !.bank = [b \in Banks |-> Aged(@[b])],
     !.rank = [b \in Banks |-> Aged(@[b])]]

-----------------------------------------------------------------------------
(* MemorySystem.cpp.                                                       *)
WillAcceptTransaction(s) == Len(s.transactionQueue) < TransQueueDepth

AddPending(s) ==
  IF s.pendingTransactions # <<>> /\ WillAcceptTransaction(s)
    THEN [s EXCEPT !.transactionQueue = Append(@, Head(s.pendingTransactions)),
            !.pendingTransactions = Tail(@)]
    ELSE s

Init ==
  /\ mem = [bank |-> [b \in Banks |-> [state |-> "Idle", row |-> 0, rd |-> 0, wr |-> 0,
                                       act |-> 0, last |-> "READ", change |-> 0]],
            rank |-> [b \in Banks |-> [state |-> "Idle", row |-> 0, rd |-> 0, wr |-> 0,
                                       act |-> 0]],
            cmd |-> NoCommand, cmdLeft |-> 0,         \* the command bus
            data |-> [id |-> None, left |-> 0],       \* write data on the bus
            writing |-> <<>>,                         \* write data to send
            rankData |-> [id |-> None, left |-> 0],   \* read data on the bus
            reading |-> <<>>,                         \* read data to send
            returning |-> <<>>,                       \* returnTransaction
            queue |-> [b \in Banks |-> <<>>],         \* the command queues
            nextBank |-> 0, sendAct |-> TRUE, faw |-> <<>>,
            refreshWaiting |-> FALSE, refreshCountdown |-> RefreshCycles,
            transactionQueue |-> <<>>, pendingRead |-> <<>>,
            pendingTransactions |-> <<>>,
            completed |-> <<>>,                       \* callbacks of this cycle
            error |-> "none"]
  /\ clock = 0
  /\ hist = <<>>
  /\ done = {}

(* addTransaction(isWrite, addr), as OCPWrappedMemory calls it.            *)
AddTransaction(isWrite, a) ==
  LET id == Len(hist) + 1 IN
  /\ Len(hist) < MaxTransactions
  /\ clock \in FirstArrival .. LastArrival
  /\ hist' = Append(hist, [write |-> isWrite, addr |-> a])
  /\ mem' = IF WillAcceptTransaction(mem)
              THEN [mem EXCEPT !.transactionQueue = Append(@, id)]
              ELSE [mem EXCEPT !.pendingTransactions = Append(@, id)]
  /\ UNCHANGED <<clock, done>>

(* update: the rank, one pending transaction, the controller, then step.   *)
Update ==
  /\ mem.error = "none"
  /\ \E s1 \in {RankUpdate([mem EXCEPT !.completed = <<>>])} :
     \E s2 \in {UpdateBankStates(AddPending(s1))} :
     \E s3 \in {DeliverCommand(s2)} :
     \E s4 \in {DeliverData(s3)} :
     \E s5 \in {SendWriteData(s4)} :
     \E s6 \in {FawTick(Refresh(s5))} :
     \E s7 \in {IssueCommand(s6)} :
     \E s8 \in {ScheduleTransaction(s7)} :
     \E s9 \in {ReturnData(s8)} :
       mem' = Step(s9)
  /\ done' = done \cup {mem'.completed[i] : i \in DOMAIN mem'.completed}
  /\ clock' = IF clock > LastArrival THEN clock ELSE clock + 1
  /\ UNCHANGED hist

Next ==
  \/ \E w \in BOOLEAN, a \in Addrs : AddTransaction(w, a)
  \/ Update

Spec == Init /\ [][Next]_vars

\* update_method of the wrapper calls update every tCK.
FairSpec == Spec /\ WF_vars(Update)

-----------------------------------------------------------------------------
(* The scheduler keeps what the rank and the buses demand: no command is   *)
(* refused by the rank, nothing is put on a bus that is in use, no read    *)
(* data is overwritten, every read finds its transaction.                  *)
NoError == mem.error = "none"

(* The data bus carries read data (driven by the rank) or write data       *)
(* (driven by the controller), never both; no check in the code covers it. *)
OneDriver == mem.data.id = None \/ mem.rankData.id = None

(* The memory keeps what MemoryDevice promises: one completion at a time   *)
(* (the wrapper has one pointer for it), in order within a bank (the       *)
(* wrapper finds the payload by its address), and as long as there is work *)
(* some transaction is completed in the end, refreshes or not.  It holds   *)
(* while nothing is added behind a transaction that waits in               *)
(* pendingTransactions.                                                    *)
Device == INSTANCE MemoryDevice
RefinesDevice == Device!DeviceSpec

(* A refresh is issued before the next one is due: none is lost in the     *)
(* one flag needRefresh sets.                                              *)
NoRefreshLost == mem.refreshCountdown = 0 => ~mem.refreshWaiting
=============================================================================
