---------------------------- MODULE Dram_proofs ----------------------------
(***************************************************************************)
(* The scheduler of the memory controller keeps what the rank and the data *)
(* bus demand, for every timing of the device, every number of banks and   *)
(* every transaction.                                                      *)
(***************************************************************************)
EXTENDS Dram, SequenceTheorems, WellFoundedInduction, TLAPS

-----------------------------------------------------------------------------
\* Numbers and sequences

LEMMA TimingType ==
  /\ Burst \in Nat /\ Burst >= 1
  /\ RL \in Nat /\ RL >= 2 /\ WL = RL - 1
  /\ READ_TO_PRE_DELAY \in Nat /\ READ_TO_PRE_DELAY >= Burst
  /\ WRITE_TO_PRE_DELAY \in Nat /\ WRITE_TO_PRE_DELAY >= WL + Burst
  /\ READ_AUTOPRE_DELAY \in Nat /\ WRITE_AUTOPRE_DELAY \in Nat
  /\ WRITE_TO_READ_DELAY_B \in Nat /\ WRITE_TO_READ_DELAY_B >= WL + Burst
  /\ READ_TO_WRITE_DELAY \in Nat /\ READ_TO_WRITE_DELAY >= Burst + 2
  /\ ColumnToColumn \in Nat /\ ColumnToColumn >= Burst
  /\ {tRCD, tRC, tRP, tRFC, tRRD, tFAW} \subseteq Nat
  /\ AL \in Nat /\ tRCD - AL \in Nat /\ tRP >= 1 /\ tRFC >= 1 /\ tCMD = 1
<1>1. Burst \in Nat /\ Burst >= 1
  BY TimingAssumption, DeviceAssumption DEF Burst
<1>2. {CL, tRCD, tRC, tRP, tCCD, tRTP, tRFC, tFAW, tCMD} \subseteq Nat \ {0}
  BY TimingAssumption
<1>3. {AL, tRRD, tWTR, tWR, tRTRS} \subseteq Nat /\ AL <= tRCD
  BY TimingAssumption
<1>4. tCMD = 1 /\ CL + AL >= 2 /\ tRTRS >= 1
  BY DeviceAssumption
<1>5. RL \in Nat /\ RL >= 2 /\ WL = RL - 1 /\ WL \in Nat
  BY <1>2, <1>3, <1>4 DEF RL, WL
<1>6. READ_TO_PRE_DELAY \in Nat /\ READ_TO_PRE_DELAY >= Burst
  <2>1. Larger(tRTP, tCCD) \in Nat /\ Larger(tRTP, tCCD) >= tCCD
    BY <1>2 DEF Larger
  <2> QED BY <2>1, <1>1, <1>2, <1>3 DEF READ_TO_PRE_DELAY
<1>7. ColumnToColumn \in Nat /\ ColumnToColumn >= Burst
  BY <1>1, <1>2 DEF ColumnToColumn, Larger
<1>8. /\ WRITE_TO_PRE_DELAY \in Nat /\ WRITE_TO_PRE_DELAY >= WL + Burst
      /\ READ_AUTOPRE_DELAY \in Nat /\ WRITE_AUTOPRE_DELAY \in Nat
      /\ WRITE_TO_READ_DELAY_B \in Nat /\ WRITE_TO_READ_DELAY_B >= WL + Burst
  BY <1>1, <1>2, <1>3, <1>5
     DEF WRITE_TO_PRE_DELAY, READ_AUTOPRE_DELAY, WRITE_AUTOPRE_DELAY, WRITE_TO_READ_DELAY_B
<1>9. READ_TO_WRITE_DELAY \in Nat /\ READ_TO_WRITE_DELAY >= Burst + 2
  BY <1>1, <1>3, <1>4, <1>5 DEF READ_TO_WRITE_DELAY
<1> QED BY <1>1, <1>2, <1>3, <1>4, <1>5, <1>6, <1>7, <1>8, <1>9

LEMMA BankType ==
  /\ NumBanks \in Nat \ {0}
  /\ \A a \in Nat : BankOf(a) \in Banks /\ RowOf(a) \in Nat
  /\ \A n \in Nat : n % NumBanks \in Banks
<1>1. NumBanks \in Nat \ {0}
  BY DramAssumption
<1>2. ASSUME NEW a \in Nat
      PROVE  a % NumBanks \in Banks /\ a \div NumBanks \in Nat
  BY <1>1 DEF Banks
<1> QED BY <1>1, <1>2 DEF BankOf, RowOf

LEMMA RemoveAtProperties ==
  ASSUME NEW S, NEW q \in Seq(S), NEW i \in DOMAIN q
  PROVE  /\ RemoveAt(q, i) \in Seq(S)
         /\ Len(RemoveAt(q, i)) = Len(q) - 1
         /\ DOMAIN RemoveAt(q, i) = 1 .. (Len(q) - 1)
         /\ \A j \in 1 .. (Len(q) - 1) :
              RemoveAt(q, i)[j] = IF j < i THEN q[j] ELSE q[j + 1]
<1> DEFINE a == SubSeq(q, 1, i - 1)
           b == SubSeq(q, i + 1, Len(q))
<1>1. i \in 1 .. Len(q) /\ Len(q) \in Nat /\ \A j \in 1 .. Len(q) : q[j] \in S
  BY LenProperties, ElementOfSeq
<1>2. /\ a \in Seq(S) /\ Len(a) = i - 1
      /\ \A j \in 1 .. (i - 1) : a[j] = q[j]
  <2>1. \A j \in 1 .. (i - 1) : q[j] \in S
    BY <1>1
  <2> QED BY <1>1, <2>1, SubSeqProperties
<1>3. /\ b \in Seq(S) /\ Len(b) = Len(q) - i
      /\ \A j \in 1 .. (Len(q) - i) : b[j] = q[i + j]
  <2>1. \A j \in (i + 1) .. Len(q) : q[j] \in S
    BY <1>1
  <2>2. /\ b \in Seq(S)
        /\ Len(b) = IF i + 1 <= Len(q) THEN Len(q) - (i + 1) + 1 ELSE 0
        /\ \A j \in 1 .. (Len(q) - (i + 1) + 1) : b[j] = q[(i + 1) + j - 1]
    BY <1>1, <2>1, SubSeqProperties
  <2>3. Len(b) = Len(q) - i
    BY <2>2, <1>1
  <2>4. ASSUME NEW j \in 1 .. (Len(q) - i)
        PROVE  b[j] = q[i + j]
    <3>1. j \in 1 .. (Len(q) - (i + 1) + 1) /\ (i + 1) + j - 1 = i + j
      BY <1>1
    <3> QED BY <3>1, <2>2
  <2> QED BY <2>2, <2>3, <2>4
<1> HIDE DEF a, b
<1>4. RemoveAt(q, i) = a \o b
  BY DEF RemoveAt, a, b
<1>5. /\ a \o b \in Seq(S) /\ Len(a \o b) = Len(a) + Len(b)
      /\ \A j \in 1 .. (Len(a) + Len(b)) :
           (a \o b)[j] = IF j <= Len(a) THEN a[j] ELSE b[j - Len(a)]
  BY <1>2, <1>3, ConcatProperties
<1>6. Len(a) + Len(b) = Len(q) - 1
  BY <1>1, <1>2, <1>3
<1>7. ASSUME NEW j \in 1 .. (Len(q) - 1)
      PROVE  (a \o b)[j] = IF j < i THEN q[j] ELSE q[j + 1]
  <2>1. CASE j < i
    BY <2>1, <1>1, <1>2, <1>5, <1>6
  <2>2. CASE ~(j < i)
    <3>1. j - (i - 1) \in 1 .. (Len(q) - i) /\ i + (j - (i - 1)) = j + 1
      BY <2>2, <1>1
    <3>2. (a \o b)[j] = b[j - (i - 1)]
      BY <2>2, <1>1, <1>2, <1>5, <1>6, SMTT(30)
    <3> QED BY <3>1, <3>2, <1>3, <2>2
  <2> QED BY <2>1, <2>2
<1>8. DOMAIN (a \o b) = 1 .. (Len(q) - 1)
  BY <1>5, <1>6, LenProperties
<1> QED BY <1>4, <1>5, <1>6, <1>7, <1>8

LEMMA TailProperties ==
  ASSUME NEW S, NEW q \in Seq(S), q # <<>>
  PROVE  /\ Tail(q) \in Seq(S) /\ Len(Tail(q)) = Len(q) - 1
         /\ DOMAIN Tail(q) = 1 .. (Len(q) - 1)
         /\ \A j \in 1 .. (Len(q) - 1) : Tail(q)[j] = q[j + 1]
         /\ 1 \in DOMAIN q /\ Head(q) = q[1] /\ Head(q) \in S
OBVIOUS

LEMMA RemoveAtHead ==
  ASSUME NEW S, NEW q \in Seq(S), q # <<>>
  PROVE  RemoveAt(q, 1) = Tail(q)
<1>0. 1 \in DOMAIN q /\ Len(q) \in Nat
  OBVIOUS
<1>1. 1 \in DOMAIN q /\ Len(q) \in Nat
  OBVIOUS
<1>2. /\ RemoveAt(q, 1) \in Seq(S) /\ Len(RemoveAt(q, 1)) = Len(q) - 1
      /\ \A j \in 1 .. (Len(q) - 1) : RemoveAt(q, 1)[j] = q[j + 1]
  BY <1>1, RemoveAtProperties
<1>3. /\ Tail(q) \in Seq(S) /\ Len(Tail(q)) = Len(q) - 1
      /\ \A j \in 1 .. (Len(q) - 1) : Tail(q)[j] = q[j + 1]
  BY TailProperties
<1>4. \A j \in 1 .. Len(Tail(q)) : RemoveAt(q, 1)[j] = Tail(q)[j]
  BY <1>2, <1>3
<1> QED BY <1>2, <1>3, <1>4, SeqEqual

LEMMA LastProperties ==
  ASSUME NEW S, NEW q \in Seq(S), NEW e \in S
  PROVE  /\ Append(q, e) \in Seq(S) /\ Len(Append(q, e)) = Len(q) + 1
         /\ DOMAIN Append(q, e) = 1 .. (Len(q) + 1) /\ DOMAIN q = 1 .. Len(q)
         /\ \A i \in DOMAIN q : Append(q, e)[i] = q[i]
         /\ Append(q, e)[Len(q) + 1] = e
OBVIOUS

LEMMA LeastOf ==
  ASSUME NEW S, S \subseteq Nat, S # {}
  PROVE  FirstOf(S) \in S /\ \A n \in S : FirstOf(S) <= n
<1> DEFINE R == {e \in Nat \X Nat : e[1] < e[2]}
<1>1. IsWellFoundedOn(R, Nat)
  BY NatLessThanWellFounded DEF OpToRel
<1>2. \A m, n \in Nat : <<n, m>> \in R <=> n < m
  OBVIOUS
<1> HIDE DEF R
<1>3. PICK m \in S : \A n \in S : ~ (<<n, m>> \in R)
  BY <1>1, WFMin
<1>4. ASSUME NEW n \in S PROVE m <= n
  <2>1. n \in Nat /\ m \in Nat /\ ~ (n < m)
    BY <1>2, <1>3
  <2> QED BY <2>1
<1>5. \E m_1 \in S : \A n \in S : m_1 <= n
  BY <1>4
<1> QED BY <1>5 DEF FirstOf

-----------------------------------------------------------------------------
\* The memory system: its type, and what the parts of update change

Packets == [id : Nat, left : Int]

Commands ==
  [type : {"none", "REFRESH", "ACTIVATE", "READ_P", "WRITE_P"}, id : Nat]

BankStates ==
  [state : {"Idle", "RowActive", "Precharging", "Refreshing"}, row : Nat, rd : Nat,
   wr : Nat, act : Nat, change : Nat,
   last : {"READ", "ACTIVATE", "READ_P", "WRITE_P", "REFRESH", "PRECHARGE"}]

RankStates ==
  [state : {"Idle", "RowActive"}, row : Nat, rd : Nat, wr : Nat, act : Nat]

Errors ==
  {"none", "CommandNotAllowed", "ReadDataOverwritten", "DataBusCollision",
   "CommandBusCollision", "NoMatchingTransaction"}

Memories ==
  [bank : [Banks -> BankStates], rank : [Banks -> RankStates],
   cmd : Commands, cmdLeft : Nat, data : Packets, writing : Seq(Packets),
   rankData : Packets, reading : Seq(Packets), returning : Seq(Nat),
   queue : [Banks -> Seq(Commands)], nextBank : Banks, sendAct : BOOLEAN,
   faw : Seq(Int), refreshWaiting : BOOLEAN, refreshCountdown : Nat,
   transactionQueue : Seq(Nat), pendingRead : Seq(Nat),
   pendingTransactions : Seq(Nat), completed : Seq(Nat), error : Errors]

Transactions == [write : BOOLEAN, addr : Addrs]

\* A cycle less for everything that waits.
Waiting(q) == [i \in DOMAIN q |-> [q[i] EXCEPT !.left = @ - 1]]

LEMMA WaitingProperties ==
  ASSUME NEW q \in Seq(Packets)
  PROVE  /\ Waiting(q) \in Seq(Packets) /\ Len(Waiting(q)) = Len(q)
         /\ DOMAIN Waiting(q) = DOMAIN q /\ DOMAIN q = 1 .. Len(q)
         /\ \A i \in DOMAIN q :
              Waiting(q)[i].id = q[i].id /\ Waiting(q)[i].left = q[i].left - 1
         /\ Waiting(q) = <<>> <=> q = <<>>
<1>1. \A i \in DOMAIN q : q[i] \in Packets
  OBVIOUS
<1>2. \A i \in DOMAIN q : /\ [q[i] EXCEPT !.left = @ - 1] \in Packets
                          /\ [q[i] EXCEPT !.left = @ - 1].id = q[i].id
                          /\ [q[i] EXCEPT !.left = @ - 1].left = q[i].left - 1
  BY <1>1 DEF Packets
<1>3. DOMAIN q = 1 .. Len(q) /\ Len(q) \in Nat
  OBVIOUS
<1>4. Waiting(q) \in Seq(Packets) /\ Len(Waiting(q)) = Len(q)
  BY <1>2, <1>3 DEF Waiting
<1>5. Waiting(q) = <<>> <=> q = <<>>
  BY <1>4
<1> QED BY <1>2, <1>3, <1>4, <1>5 DEF Waiting

LEMMA FailFields ==
  ASSUME NEW s \in Memories, NEW w \in Errors, NEW t, t = Fail(s, w)
  PROVE  /\ t \in Memories
         /\ t.bank = s.bank /\ t.rank = s.rank /\ t.cmd = s.cmd /\ t.cmdLeft = s.cmdLeft
         /\ t.data = s.data /\ t.writing = s.writing /\ t.queue = s.queue
         /\ t.rankData = s.rankData /\ t.reading = s.reading /\ t.returning = s.returning
         /\ t.transactionQueue = s.transactionQueue /\ t.pendingRead = s.pendingRead
         /\ t.pendingTransactions = s.pendingTransactions
         /\ t.refreshCountdown = s.refreshCountdown /\ t.refreshWaiting = s.refreshWaiting
         /\ t.completed = s.completed
<1> DEFINE u == [s EXCEPT !.error = w]
<1>1. /\ u \in Memories
      /\ u.bank = s.bank /\ u.rank = s.rank /\ u.cmd = s.cmd /\ u.cmdLeft = s.cmdLeft
      /\ u.data = s.data /\ u.writing = s.writing /\ u.queue = s.queue
      /\ u.rankData = s.rankData /\ u.reading = s.reading /\ u.returning = s.returning
      /\ u.transactionQueue = s.transactionQueue /\ u.pendingRead = s.pendingRead
      /\ u.pendingTransactions = s.pendingTransactions
      /\ u.refreshCountdown = s.refreshCountdown /\ u.refreshWaiting = s.refreshWaiting
      /\ u.completed = s.completed
  BY DEF Memories
<1>2. t = IF s.error = "none" THEN u ELSE s
  BY Zenon DEF Fail
<1> HIDE DEF u
<1> QED BY <1>1, <1>2

\* What the rank's update leaves alone, and what it makes of the reads.
RankUpdated(s, t) ==
  /\ t \in Memories
  /\ t.bank = s.bank /\ t.rank = s.rank /\ t.cmd = s.cmd /\ t.cmdLeft = s.cmdLeft
  /\ t.data = s.data /\ t.writing = s.writing /\ t.queue = s.queue
  /\ t.transactionQueue = s.transactionQueue /\ t.pendingRead = s.pendingRead
  /\ t.pendingTransactions = s.pendingTransactions
  /\ t.refreshCountdown = s.refreshCountdown /\ t.refreshWaiting = s.refreshWaiting
  /\ t.completed = s.completed
  /\ t.returning = IF s.rankData.id # None /\ s.rankData.left = 1
                     THEN Append(s.returning, s.rankData.id) ELSE s.returning
  /\ LET w == Waiting(s.reading)
         ready == w # <<>> /\ Head(w).left = 0
         idle == s.rankData.id = None \/ s.rankData.left = 1
     IN  /\ t.reading = IF ready THEN Tail(w) ELSE w
         /\ t.rankData = IF ready THEN [id |-> Head(w).id, left |-> Burst]
                         ELSE IF idle THEN [id |-> None, left |-> 0]
                         ELSE [id |-> s.rankData.id, left |-> s.rankData.left - 1]
         /\ ~ready \/ idle => t.error = s.error

LEMMA RankUpdateFields ==
  ASSUME NEW s \in Memories, s.rankData.id # None => s.rankData.left >= 1,
         NEW t, t = RankUpdate(s)
  PROVE  RankUpdated(s, t)
<1> USE DEF RankUpdated
<1> DEFINE w == Waiting(s.reading)
           ready == w # <<>> /\ Head(w).left = 0
           arrived == s.rankData.id # None /\ s.rankData.left = 1
           bus == IF s.rankData.id = None \/ arrived
                    THEN [id |-> None, left |-> 0]
                    ELSE [s.rankData EXCEPT !.left = @ - 1]
           ret == IF arrived THEN Append(s.returning, s.rankData.id) ELSE s.returning
           rdt == IF ready THEN [id |-> Head(w).id, left |-> Burst] ELSE bus
           rdg == IF ready THEN Tail(w) ELSE w
           u == [s EXCEPT !.returning = ret, !.rankData = rdt, !.reading = rdg]
<1>1. t = IF ready /\ bus.id # None THEN Fail(u, "ReadDataOverwritten") ELSE u
  BY Zenon DEF RankUpdate, Waiting
<1>2. s.rankData \in Packets /\ s.reading \in Seq(Packets) /\ s.returning \in Seq(Nat)
  BY DEF Memories
<1>3. w \in Seq(Packets)
  BY <1>2, WaitingProperties
<1>4. ready => Head(w) \in Packets /\ Tail(w) \in Seq(Packets)
  BY <1>3, TailProperties
<1>5. s.rankData.id \in Nat /\ s.rankData.left \in Int
  BY <1>2 DEF Packets
<1>6. ~(s.rankData.id = None \/ arrived) =>
        bus = [id |-> s.rankData.id, left |-> s.rankData.left - 1]
  BY <1>2 DEF Packets
<1>7. bus \in Packets
  BY <1>5, <1>6 DEF Packets, None
<1>8. rdt \in Packets /\ rdg \in Seq(Packets) /\ ret \in Seq(Nat)
  <2>1. ready => [id |-> Head(w).id, left |-> Burst] \in Packets
    BY <1>4, TimingType DEF Packets
  <2>2. rdt \in Packets
    BY <2>1, <1>7
  <2>3. rdg \in Seq(Packets)
    BY <1>3, <1>4
  <2>4. ret \in Seq(Nat)
    BY <1>2, <1>5
  <2> QED BY <2>2, <2>3, <2>4
<1>9. /\ ready /\ bus.id # None => s.rankData.id # None /\ s.rankData.left # 1
  BY DEF None
<1> HIDE DEF w, ready, arrived, bus, ret, rdt, rdg
<1>10. u \in Memories
  BY <1>8 DEF Memories
<1>11. /\ u.returning = ret /\ u.rankData = rdt /\ u.reading = rdg /\ u.error = s.error
       /\ u.bank = s.bank /\ u.rank = s.rank /\ u.cmd = s.cmd /\ u.cmdLeft = s.cmdLeft
       /\ u.data = s.data /\ u.writing = s.writing /\ u.queue = s.queue
       /\ u.transactionQueue = s.transactionQueue /\ u.pendingRead = s.pendingRead
       /\ u.pendingTransactions = s.pendingTransactions
       /\ u.refreshCountdown = s.refreshCountdown /\ u.refreshWaiting = s.refreshWaiting
       /\ u.completed = s.completed
  BY DEF Memories
<1> HIDE DEF u
<1>12. CASE ready /\ bus.id # None
  <2>1. t = Fail(u, "ReadDataOverwritten")
    BY <1>1, <1>12
  <2>2. "ReadDataOverwritten" \in Errors
    BY DEF Errors
  <2>3. /\ t \in Memories
        /\ t.bank = u.bank /\ t.rank = u.rank /\ t.cmd = u.cmd /\ t.cmdLeft = u.cmdLeft
    BY <1>10, <2>1, <2>2, FailFields
  <2>4. /\ t.data = u.data /\ t.writing = u.writing /\ t.queue = u.queue
        /\ t.rankData = u.rankData /\ t.reading = u.reading /\ t.returning = u.returning
    BY <1>10, <2>1, <2>2, FailFields
  <2>5. /\ t.transactionQueue = u.transactionQueue /\ t.pendingRead = u.pendingRead
        /\ t.pendingTransactions = u.pendingTransactions
        /\ t.refreshCountdown = u.refreshCountdown /\ t.refreshWaiting = u.refreshWaiting
        /\ t.completed = u.completed
    BY <1>10, <2>1, <2>2, FailFields
  <2> QED BY <1>9, <1>11, <1>12, <2>3, <2>4, <2>5 DEF w, ready, arrived, bus, ret, rdt, rdg
<1>13. CASE ~(ready /\ bus.id # None)
  <2>1. t = u
    BY <1>1, <1>13
  <2> QED BY <1>6, <1>10, <1>11, <2>1 DEF w, ready, arrived, bus, ret, rdt, rdg
<1> QED BY <1>12, <1>13

\* What taking a transaction from pendingTransactions changes.
PendingAdded(s, t) ==
  /\ t \in Memories
  /\ t.bank = s.bank /\ t.rank = s.rank /\ t.cmd = s.cmd /\ t.cmdLeft = s.cmdLeft
  /\ t.data = s.data /\ t.writing = s.writing /\ t.queue = s.queue
  /\ t.rankData = s.rankData /\ t.reading = s.reading /\ t.returning = s.returning
  /\ t.pendingRead = s.pendingRead /\ t.error = s.error
  /\ t.refreshCountdown = s.refreshCountdown /\ t.refreshWaiting = s.refreshWaiting
  /\ t.completed = s.completed
  /\ \/ /\ t.transactionQueue = s.transactionQueue
        /\ t.pendingTransactions = s.pendingTransactions
     \/ /\ s.pendingTransactions # <<>>
        /\ t.transactionQueue = Append(s.transactionQueue, Head(s.pendingTransactions))
        /\ t.pendingTransactions = Tail(s.pendingTransactions)

LEMMA AddPendingFields ==
  ASSUME NEW s \in Memories, NEW t, t = AddPending(s)
  PROVE  PendingAdded(s, t)
<1> USE DEF PendingAdded
<1>1. CASE s.pendingTransactions # <<>> /\ WillAcceptTransaction(s)
  <2>1. s.pendingTransactions \in Seq(Nat) /\ s.transactionQueue \in Seq(Nat)
    BY DEF Memories
  <2>2. /\ Head(s.pendingTransactions) \in Nat /\ Tail(s.pendingTransactions) \in Seq(Nat)
        /\ Append(s.transactionQueue, Head(s.pendingTransactions)) \in Seq(Nat)
    BY <1>1, <2>1
  <2>3. t = [s EXCEPT !.transactionQueue = Append(@, Head(s.pendingTransactions)),
               !.pendingTransactions = Tail(@)]
    BY <1>1 DEF AddPending
  <2>4. t \in Memories
    BY <2>2, <2>3 DEF Memories
  <2>5. /\ t.transactionQueue = Append(s.transactionQueue, Head(s.pendingTransactions))
        /\ t.pendingTransactions = Tail(s.pendingTransactions)
    BY <2>3 DEF Memories
  <2>6. /\ t.bank = s.bank /\ t.rank = s.rank /\ t.cmd = s.cmd /\ t.cmdLeft = s.cmdLeft
        /\ t.data = s.data /\ t.writing = s.writing /\ t.queue = s.queue
        /\ t.rankData = s.rankData /\ t.reading = s.reading /\ t.returning = s.returning
        /\ t.pendingRead = s.pendingRead /\ t.error = s.error
        /\ t.refreshCountdown = s.refreshCountdown /\ t.refreshWaiting = s.refreshWaiting
        /\ t.completed = s.completed
    BY <2>3 DEF Memories
  <2> QED BY <1>1, <2>4, <2>5, <2>6
<1>2. CASE ~(s.pendingTransactions # <<>> /\ WillAcceptTransaction(s))
  BY <1>2 DEF AddPending
<1> QED BY <1>1, <1>2

LEMMA BankTickType ==
  ASSUME NEW k \in BankStates, NEW l, l = BankTick(k)
  PROVE  /\ l \in BankStates
         /\ l.row = k.row /\ l.rd = k.rd /\ l.wr = k.wr /\ l.act = k.act
         /\ \/ l.state = k.state /\ l.last = k.last /\ l.change = Sooner(k.change)
               /\ (k.last \in {"READ_P", "WRITE_P"} => k.change # 1)
            \/ /\ k.last \in {"READ_P", "WRITE_P"} /\ k.change = 1
               /\ l.state = "Precharging" /\ l.last = "PRECHARGE"
            \/ /\ k.last \in {"REFRESH", "PRECHARGE"} /\ k.change = 1
               /\ l.state = "Idle" /\ l.last = k.last
<1>1. Sooner(k.change) \in Nat
  BY DEF Sooner, BankStates
<1>2. CASE k.change = 1 /\ k.last \in {"READ_P", "WRITE_P"}
  <2>1. l = [k EXCEPT !.state = "Precharging", !.last = "PRECHARGE", !.change = tRP]
    BY <1>2 DEF BankTick
  <2>2. tRP \in Nat
    BY TimingType
  <2>3. l \in BankStates
    BY <2>1, <2>2 DEF BankStates
  <2>4. /\ l.row = k.row /\ l.rd = k.rd /\ l.wr = k.wr /\ l.act = k.act
        /\ l.state = "Precharging" /\ l.last = "PRECHARGE"
    BY <2>1 DEF BankStates
  <2> QED BY <1>2, <2>3, <2>4
<1>3. CASE k.change = 1 /\ k.last \in {"REFRESH", "PRECHARGE"}
  <2>1. l = [k EXCEPT !.state = "Idle", !.change = 0]
    BY <1>3 DEF BankTick
  <2>2. l \in BankStates
    <3>1. l = [state |-> "Idle", row |-> k.row, rd |-> k.rd, wr |-> k.wr, act |-> k.act,
               change |-> 0, last |-> k.last]
      BY <2>1 DEF BankStates
    <3> QED BY <3>1 DEF BankStates
  <2>3. /\ l.row = k.row /\ l.rd = k.rd /\ l.wr = k.wr /\ l.act = k.act
        /\ l.state = "Idle" /\ l.last = k.last
    BY <2>1 DEF BankStates
  <2> QED BY <1>3, <2>2, <2>3
<1>4. CASE /\ ~(k.change = 1 /\ k.last \in {"READ_P", "WRITE_P"})
           /\ ~(k.change = 1 /\ k.last \in {"REFRESH", "PRECHARGE"})
  <2>1. l = [k EXCEPT !.change = Sooner(k.change)]
    BY <1>4 DEF BankTick
  <2>2. l \in BankStates /\ l.row = k.row /\ l.rd = k.rd /\ l.wr = k.wr /\ l.act = k.act
        /\ l.state = k.state /\ l.last = k.last /\ l.change = Sooner(k.change)
    BY <1>1, <2>1 DEF BankStates
  <2> QED BY <1>4, <2>2
<1> QED BY <1>2, <1>3, <1>4, Zenon

\* What the update of the bank states changes.
BanksUpdated(s, t) ==
  /\ t \in Memories
  /\ t.bank = [b \in Banks |-> BankTick(s.bank[b])]
  /\ t.rank = s.rank /\ t.cmd = s.cmd /\ t.cmdLeft = s.cmdLeft
  /\ t.data = s.data /\ t.writing = s.writing /\ t.queue = s.queue
  /\ t.rankData = s.rankData /\ t.reading = s.reading /\ t.returning = s.returning
  /\ t.pendingRead = s.pendingRead /\ t.error = s.error
  /\ t.refreshCountdown = s.refreshCountdown /\ t.refreshWaiting = s.refreshWaiting
  /\ t.completed = s.completed
  /\ t.transactionQueue = s.transactionQueue
  /\ t.pendingTransactions = s.pendingTransactions

LEMMA UpdateBankStatesFields ==
  ASSUME NEW s \in Memories, NEW t, t = UpdateBankStates(s)
  PROVE  BanksUpdated(s, t)
<1> USE DEF BanksUpdated
<1>1. \A b \in Banks : s.bank[b] \in BankStates
  BY DEF Memories
<1>2. [b \in Banks |-> BankTick(s.bank[b])] \in [Banks -> BankStates]
  BY <1>1, BankTickType
<1> DEFINE n == [b \in Banks |-> BankTick(s.bank[b])]
<1>3. t = [s EXCEPT !.bank = n]
  BY Zenon DEF UpdateBankStates
<1> HIDE DEF n
<1> QED BY <1>2, <1>3 DEF Memories, n

LEMMA DeliverDataFields ==
  ASSUME NEW s \in Memories, NEW t, t = DeliverData(s)
  PROVE  /\ t \in Memories
         /\ t.bank = s.bank /\ t.rank = s.rank /\ t.cmd = s.cmd /\ t.cmdLeft = s.cmdLeft
         /\ t.writing = s.writing /\ t.queue = s.queue
         /\ t.rankData = s.rankData /\ t.reading = s.reading /\ t.returning = s.returning
         /\ t.pendingRead = s.pendingRead /\ t.error = s.error
         /\ t.refreshCountdown = s.refreshCountdown /\ t.refreshWaiting = s.refreshWaiting
         /\ t.transactionQueue = s.transactionQueue
         /\ t.pendingTransactions = s.pendingTransactions
         /\ t.data = IF s.data.id = None THEN s.data
                     ELSE IF s.data.left > 1
                       THEN [id |-> s.data.id, left |-> s.data.left - 1]
                     ELSE [id |-> None, left |-> 0]
         /\ t.completed = IF s.data.id # None /\ ~(s.data.left > 1)
                            THEN Append(s.completed, s.data.id) ELSE s.completed
<1>1. s.data \in Packets /\ s.completed \in Seq(Nat) /\ s.data.id \in Nat /\ s.data.left \in Int
  BY DEF Memories, Packets
<1>2. CASE s.data.id = None
  BY <1>2 DEF DeliverData
<1>3. CASE s.data.id # None /\ s.data.left > 1
  <2>1. t = [s EXCEPT !.data.left = @ - 1]
    BY <1>3 DEF DeliverData
  <2>2. t = [s EXCEPT !.data = [id |-> s.data.id, left |-> s.data.left - 1]]
    BY <2>1, <1>1 DEF Memories, Packets
  <2>3. [id |-> s.data.id, left |-> s.data.left - 1] \in Packets
    BY <1>1 DEF Packets
  <2> QED BY <1>3, <2>2, <2>3 DEF Memories
<1>4. CASE s.data.id # None /\ ~(s.data.left > 1)
  <2>1. t = [s EXCEPT !.data = [id |-> None, left |-> 0],
               !.completed = Append(@, s.data.id)]
    BY <1>4 DEF DeliverData
  <2>2. [id |-> None, left |-> 0] \in Packets /\ Append(s.completed, s.data.id) \in Seq(Nat)
    BY <1>1 DEF Packets, None
  <2> QED BY <1>4, <2>1, <2>2, ZenonT(40) DEF Memories
<1> QED BY <1>2, <1>3, <1>4

LEMMA SendWriteDataFields ==
  ASSUME NEW s \in Memories, NEW t, t = SendWriteData(s)
  PROVE  /\ t \in Memories
         /\ t.bank = s.bank /\ t.rank = s.rank /\ t.cmd = s.cmd /\ t.cmdLeft = s.cmdLeft
         /\ t.queue = s.queue
         /\ t.rankData = s.rankData /\ t.reading = s.reading /\ t.returning = s.returning
         /\ t.pendingRead = s.pendingRead
         /\ t.refreshCountdown = s.refreshCountdown /\ t.refreshWaiting = s.refreshWaiting
         /\ t.completed = s.completed
         /\ t.transactionQueue = s.transactionQueue
         /\ t.pendingTransactions = s.pendingTransactions
         /\ LET w == Waiting(s.writing)
                ready == w # <<>> /\ Head(w).left = 0
            IN  ~ready \/ s.data.id = None =>
                  /\ t.error = s.error
                  /\ t.writing = IF ready THEN Tail(w) ELSE w
                  /\ t.data = IF ready THEN [id |-> Head(w).id, left |-> Burst] ELSE s.data
<1> DEFINE w == Waiting(s.writing)
           u == [s EXCEPT !.writing = w]
           v == [u EXCEPT !.writing = Tail(w), !.data = [id |-> Head(w).id, left |-> Burst]]
<1>1. t = IF w = <<>> \/ Head(w).left # 0 THEN u
          ELSE IF s.data.id # None THEN Fail(u, "DataBusCollision") ELSE v
  BY Zenon DEF SendWriteData, Waiting
<1>2. w \in Seq(Packets)
  BY WaitingProperties DEF Memories
<1> HIDE DEF w
<1>3. u \in Memories
  BY <1>2 DEF Memories
<1>4. /\ u.bank = s.bank /\ u.rank = s.rank /\ u.cmd = s.cmd /\ u.cmdLeft = s.cmdLeft
      /\ u.queue = s.queue
      /\ u.rankData = s.rankData /\ u.reading = s.reading /\ u.returning = s.returning
      /\ u.pendingRead = s.pendingRead
      /\ u.refreshCountdown = s.refreshCountdown /\ u.refreshWaiting = s.refreshWaiting
      /\ u.completed = s.completed
      /\ u.transactionQueue = s.transactionQueue
      /\ u.pendingTransactions = s.pendingTransactions
      /\ u.writing = w /\ u.data = s.data /\ u.error = s.error
  BY <1>2 DEF Memories
<1>5. CASE w = <<>> \/ Head(w).left # 0
  <2>1. t = u
    BY <1>1, <1>5, Zenon
  <2> QED BY <1>3, <1>4, <1>5, <2>1 DEF w
<1> HIDE DEF u
<1>6. CASE w # <<>> /\ Head(w).left = 0 /\ s.data.id = None
  <2>1. Head(w) \in Packets /\ Tail(w) \in Seq(Packets)
    BY <1>2, <1>6
  <2>2. [id |-> Head(w).id, left |-> Burst] \in Packets
    <3>1. Burst \in Int
      BY TimingType
    <3>2. Head(w).id \in Nat
      BY <2>1 DEF Packets
    <3> QED BY <3>1, <3>2 DEF Packets
  <2>3. t = v
    BY <1>1, <1>6
  <2>4. t \in Memories
    BY <1>3, <2>1, <2>2, <2>3 DEF Memories
  <2>5. /\ t.writing = Tail(w) /\ t.data = [id |-> Head(w).id, left |-> Burst]
        /\ t.error = u.error
    BY <1>3, <2>3 DEF Memories
  <2>6. /\ t.bank = u.bank /\ t.rank = u.rank /\ t.cmd = u.cmd /\ t.cmdLeft = u.cmdLeft
        /\ t.queue = u.queue
        /\ t.rankData = u.rankData /\ t.reading = u.reading /\ t.returning = u.returning
        /\ t.pendingRead = u.pendingRead
        /\ t.refreshCountdown = u.refreshCountdown /\ t.refreshWaiting = u.refreshWaiting
        /\ t.completed = u.completed
        /\ t.transactionQueue = u.transactionQueue
        /\ t.pendingTransactions = u.pendingTransactions
    BY <1>3, <2>3 DEF Memories
  <2> QED BY <1>4, <1>6, <2>4, <2>5, <2>6 DEF w
<1>7. CASE w # <<>> /\ Head(w).left = 0 /\ s.data.id # None
  <2>1. t = Fail(u, "DataBusCollision")
    BY <1>1, <1>7, Zenon
  <2>2. /\ t \in Memories
        /\ t.bank = u.bank /\ t.rank = u.rank /\ t.cmd = u.cmd /\ t.cmdLeft = u.cmdLeft
        /\ t.queue = u.queue
        /\ t.rankData = u.rankData /\ t.reading = u.reading /\ t.returning = u.returning
        /\ t.pendingRead = u.pendingRead
        /\ t.refreshCountdown = u.refreshCountdown /\ t.refreshWaiting = u.refreshWaiting
        /\ t.completed = u.completed
        /\ t.transactionQueue = u.transactionQueue
        /\ t.pendingTransactions = u.pendingTransactions
    <3>1. "DataBusCollision" \in Errors
      BY DEF Errors
    <3> QED BY <1>3, <2>1, <3>1, FailFields
  <2> QED BY <1>4, <1>7, <2>2 DEF w
<1> QED BY <1>5, <1>6, <1>7

LEMMA FawTickFields ==
  ASSUME NEW s \in Memories, NEW t, t = FawTick(Refresh(s))
  PROVE  /\ t \in Memories
         /\ t.bank = s.bank /\ t.rank = s.rank /\ t.cmd = s.cmd /\ t.cmdLeft = s.cmdLeft
         /\ t.data = s.data /\ t.writing = s.writing /\ t.queue = s.queue
         /\ t.rankData = s.rankData /\ t.reading = s.reading /\ t.returning = s.returning
         /\ t.pendingRead = s.pendingRead /\ t.error = s.error
         /\ t.transactionQueue = s.transactionQueue
         /\ t.pendingTransactions = s.pendingTransactions /\ t.completed = s.completed
         /\ t.refreshCountdown =
              IF s.refreshCountdown = 0 THEN RefreshCycles ELSE s.refreshCountdown
         /\ t.refreshCountdown >= 1
         /\ t.refreshWaiting = (s.refreshWaiting \/ s.refreshCountdown = 0)
<1> DEFINE u == Refresh(s)
           less == [i \in DOMAIN u.faw |-> u.faw[i] - 1]
<1>1. s.refreshCountdown \in Nat /\ s.refreshWaiting \in BOOLEAN
      /\ RefreshCycles \in Nat /\ RefreshCycles >= 1
  BY DramAssumption DEF Memories
<1>2. /\ u \in Memories
      /\ u.bank = s.bank /\ u.rank = s.rank /\ u.cmd = s.cmd /\ u.cmdLeft = s.cmdLeft
      /\ u.data = s.data /\ u.writing = s.writing /\ u.queue = s.queue
      /\ u.rankData = s.rankData /\ u.reading = s.reading /\ u.returning = s.returning
      /\ u.pendingRead = s.pendingRead /\ u.error = s.error
      /\ u.transactionQueue = s.transactionQueue
      /\ u.pendingTransactions = s.pendingTransactions /\ u.completed = s.completed
      /\ u.refreshCountdown =
           IF s.refreshCountdown = 0 THEN RefreshCycles ELSE s.refreshCountdown
      /\ u.refreshWaiting = (s.refreshWaiting \/ s.refreshCountdown = 0)
  <2>1. CASE s.refreshCountdown = 0
    <3>1. u = [s EXCEPT !.refreshWaiting = TRUE, !.refreshCountdown = RefreshCycles]
      BY <2>1 DEF Refresh
    <3>2. u \in Memories
      BY <1>1, <3>1 DEF Memories
    <3>3. u.refreshCountdown = RefreshCycles /\ u.refreshWaiting = TRUE
      BY <3>1 DEF Memories
    <3>4. /\ u.bank = s.bank /\ u.rank = s.rank /\ u.cmd = s.cmd /\ u.cmdLeft = s.cmdLeft
          /\ u.data = s.data /\ u.writing = s.writing /\ u.queue = s.queue
          /\ u.rankData = s.rankData /\ u.reading = s.reading /\ u.returning = s.returning
          /\ u.pendingRead = s.pendingRead /\ u.error = s.error
          /\ u.transactionQueue = s.transactionQueue
          /\ u.pendingTransactions = s.pendingTransactions /\ u.completed = s.completed
      BY <3>1 DEF Memories
    <3> HIDE DEF u
    <3> QED BY <2>1, <3>2, <3>3, <3>4
  <2>2. CASE s.refreshCountdown # 0
    <3>1. u = s
      BY <2>2 DEF Refresh
    <3> QED BY <1>1, <2>2, <3>1
  <2> QED BY <2>1, <2>2
<1> HIDE DEF u
<1>3. u.faw \in Seq(Int)
  BY <1>2 DEF Memories
<1>4. less \in Seq(Int)
  <2>1. DOMAIN u.faw = 1 .. Len(u.faw) /\ Len(u.faw) \in Nat
    BY <1>3
  <2>2. \A i \in DOMAIN u.faw : u.faw[i] - 1 \in Int
    BY <1>3
  <2> QED BY <2>1, <2>2
<1>5. t = [u EXCEPT !.faw = IF less # <<>> /\ Head(less) = 0 THEN Tail(less) ELSE less]
  BY Zenon DEF FawTick, u
<1> HIDE DEF less
<1>6. (IF less # <<>> /\ Head(less) = 0 THEN Tail(less) ELSE less) \in Seq(Int)
  BY <1>4
<1>7. t \in Memories
  BY <1>2, <1>5, <1>6 DEF Memories
<1>8. /\ t.bank = u.bank /\ t.rank = u.rank /\ t.cmd = u.cmd /\ t.cmdLeft = u.cmdLeft
      /\ t.data = u.data /\ t.writing = u.writing /\ t.queue = u.queue
      /\ t.rankData = u.rankData /\ t.reading = u.reading /\ t.returning = u.returning
      /\ t.pendingRead = u.pendingRead /\ t.error = u.error
      /\ t.transactionQueue = u.transactionQueue
      /\ t.pendingTransactions = u.pendingTransactions /\ t.completed = u.completed
      /\ t.refreshCountdown = u.refreshCountdown /\ t.refreshWaiting = u.refreshWaiting
  BY <1>2, <1>5 DEF Memories
<1>9. t.refreshCountdown >= 1
  BY <1>1, <1>2, <1>8
<1> QED BY <1>2, <1>7, <1>8, <1>9

-----------------------------------------------------------------------------
\* Commands

ValidCommand(c) ==
  \/ c = [type |-> "REFRESH", id |-> None]
  \/ c.type \in {"ACTIVATE", "READ_P", "WRITE_P"} /\ c.id \in DOMAIN hist

LEMMA HistType ==
  ASSUME hist \in Seq(Transactions), NEW id \in DOMAIN hist
  PROVE  /\ hist[id].addr \in Nat /\ hist[id].write \in BOOLEAN
         /\ BankOf(hist[id].addr) \in Banks /\ RowOf(hist[id].addr) \in Nat
         /\ id \in Nat /\ id # None
<1>1. hist[id] \in Transactions /\ id \in Nat /\ id >= 1
  OBVIOUS
<1>2. hist[id].addr \in Nat /\ hist[id].write \in BOOLEAN
  BY <1>1, DramAssumption DEF Transactions
<1>3. BankOf(hist[id].addr) \in Banks /\ RowOf(hist[id].addr) \in Nat
  BY <1>2, BankType
<1>4. id # None
  BY <1>1 DEF None
<1> QED BY <1>1, <1>2, <1>3, <1>4

\* What the rank knows once the command on the bus has reached it.
View(rank, cmd) == IF cmd = NoCommand THEN rank ELSE RankBanks(rank, cmd)

LEMMA LargerType ==
  ASSUME NEW a \in Nat, NEW b \in Nat
  PROVE  /\ Larger(a, b) \in Nat /\ Later(a, b) = Larger(a, b)
         /\ Larger(a, b) >= a /\ Larger(a, b) >= b
         /\ Larger(a, b) = a \/ Larger(a, b) = b
BY DEF Larger, Later

LEMMA RankBanksFields ==
  ASSUME hist \in Seq(Transactions), NEW r \in [Banks -> RankStates],
         NEW c \in Commands, ValidCommand(c), NEW b \in Banks,
         NEW v, v = RankBanks(r, c)[b]
  PROVE  /\ v \in RankStates
         /\ c.type = "REFRESH" =>
              /\ v.state = r[b].state /\ v.row = r[b].row
              /\ v.rd = r[b].rd /\ v.wr = r[b].wr /\ v.act = tRFC
         /\ c.type = "ACTIVATE" /\ b = BankOfCmd(c) =>
              /\ v.state = "RowActive" /\ v.row = RowOfCmd(c)
              /\ v.rd = tRCD - AL /\ v.wr = tRCD - AL /\ v.act = tRC
         /\ c.type = "ACTIVATE" /\ b # BankOfCmd(c) =>
              /\ v.state = r[b].state /\ v.row = r[b].row
              /\ v.rd = r[b].rd /\ v.wr = r[b].wr /\ v.act = Larger(r[b].act, tRRD)
         /\ c.type = "READ_P" =>
              /\ v.state = (IF b = BankOfCmd(c) THEN "Idle" ELSE r[b].state)
              /\ v.row = r[b].row
              /\ v.rd = Larger(r[b].rd, ColumnToColumn)
              /\ v.wr = Larger(r[b].wr, READ_TO_WRITE_DELAY)
              /\ v.act = IF b = BankOfCmd(c) THEN Larger(r[b].act, READ_AUTOPRE_DELAY)
                         ELSE r[b].act
         /\ c.type = "WRITE_P" =>
              /\ v.state = (IF b = BankOfCmd(c) THEN "Idle" ELSE r[b].state)
              /\ v.row = r[b].row
              /\ v.rd = Larger(r[b].rd, WRITE_TO_READ_DELAY_B)
              /\ v.wr = Larger(r[b].wr, ColumnToColumn)
              /\ v.act = IF b = BankOfCmd(c) THEN Larger(r[b].act, WRITE_AUTOPRE_DELAY)
                         ELSE r[b].act
<1> DEFINE k == r[b]
<1>1. /\ k \in RankStates /\ k.act \in Nat /\ k.rd \in Nat /\ k.wr \in Nat /\ k.row \in Nat
      /\ k.state \in {"Idle", "RowActive"}
      /\ k = [state |-> k.state, row |-> k.row, rd |-> k.rd, wr |-> k.wr, act |-> k.act]
  BY DEF RankStates
<1>2. /\ tRFC \in Nat /\ tRC \in Nat /\ tRRD \in Nat /\ tRCD - AL \in Nat
      /\ READ_AUTOPRE_DELAY \in Nat /\ WRITE_AUTOPRE_DELAY \in Nat /\ ColumnToColumn \in Nat
      /\ READ_TO_WRITE_DELAY \in Nat /\ WRITE_TO_READ_DELAY_B \in Nat
  BY TimingType
<1>3. CASE c.type = "REFRESH"
  <2>1. v = [k EXCEPT !.act = tRFC]
    BY <1>3 DEF RankBanks
  <2>2. v = [state |-> k.state, row |-> k.row, rd |-> k.rd, wr |-> k.wr, act |-> tRFC]
    BY <2>1, <1>1
  <2> HIDE DEF k
  <2>3. v \in RankStates
    BY <2>2, <1>1, <1>2 DEF RankStates
  <2> QED BY <2>2, <2>3, <1>3 DEF k
<1>4. CASE c.type = "ACTIVATE" /\ b = BankOfCmd(c)
  <2>1. v = [k EXCEPT !.state = "RowActive", !.row = RowOfCmd(c),
               !.act = tRC, !.rd = tRCD - AL, !.wr = tRCD - AL]
    BY <1>4 DEF RankBanks
  <2>2. v = [state |-> "RowActive", row |-> RowOfCmd(c), rd |-> tRCD - AL,
             wr |-> tRCD - AL, act |-> tRC]
    BY <2>1, <1>1
  <2>3. RowOfCmd(c) \in Nat
    BY <1>4, HistType DEF ValidCommand, RowOfCmd
  <2> HIDE DEF k
  <2>4. v \in RankStates
    BY <2>2, <2>3, <1>1, <1>2 DEF RankStates
  <2> QED BY <2>2, <2>4, <1>4 DEF k
<1>5. CASE c.type = "ACTIVATE" /\ b # BankOfCmd(c)
  <2>1. v = [k EXCEPT !.act = Larger(@, tRRD)]
    BY <1>5 DEF RankBanks, Later
  <2>2. v = [state |-> k.state, row |-> k.row, rd |-> k.rd, wr |-> k.wr,
             act |-> Larger(k.act, tRRD)]
    BY <2>1, <1>1
  <2> HIDE DEF k
  <2>3. Larger(k.act, tRRD) \in Nat
    BY <1>1, <1>2, LargerType
  <2>4. v \in RankStates
    BY <2>2, <2>3, <1>1 DEF RankStates
  <2> QED BY <2>2, <2>4, <1>5 DEF k
<1>6. CASE c.type = "READ_P"
  <2>1. v = [k EXCEPT !.state = IF b = BankOfCmd(c) THEN "Idle" ELSE @,
               !.act = IF b = BankOfCmd(c) THEN Larger(@, READ_AUTOPRE_DELAY) ELSE @,
               !.rd = Larger(@, ColumnToColumn),
               !.wr = Larger(@, READ_TO_WRITE_DELAY)]
    BY <1>6 DEF RankBanks, Later
  <2>2. v = [state |-> IF b = BankOfCmd(c) THEN "Idle" ELSE k.state, row |-> k.row,
             rd |-> Larger(k.rd, ColumnToColumn), wr |-> Larger(k.wr, READ_TO_WRITE_DELAY),
             act |-> IF b = BankOfCmd(c) THEN Larger(k.act, READ_AUTOPRE_DELAY) ELSE k.act]
    BY <2>1, <1>1
  <2> HIDE DEF k
  <2>3. /\ Larger(k.rd, ColumnToColumn) \in Nat /\ Larger(k.wr, READ_TO_WRITE_DELAY) \in Nat
        /\ Larger(k.act, READ_AUTOPRE_DELAY) \in Nat
    BY <1>1, <1>2, LargerType
  <2>4. v \in RankStates
    <3>1. (IF b = BankOfCmd(c) THEN "Idle" ELSE k.state) \in {"Idle", "RowActive"}
      BY <1>1
    <3>2. (IF b = BankOfCmd(c) THEN Larger(k.act, READ_AUTOPRE_DELAY) ELSE k.act) \in Nat
      BY <1>1, <2>3
    <3> QED BY <2>2, <2>3, <3>1, <3>2, <1>1 DEF RankStates
  <2> QED BY <2>2, <2>4, <1>6 DEF k
<1>7. CASE c.type = "WRITE_P"
  <2>1. v = [k EXCEPT !.state = IF b = BankOfCmd(c) THEN "Idle" ELSE @,
               !.act = IF b = BankOfCmd(c) THEN Larger(@, WRITE_AUTOPRE_DELAY) ELSE @,
               !.wr = Larger(@, ColumnToColumn),
               !.rd = Larger(@, WRITE_TO_READ_DELAY_B)]
    BY <1>7 DEF RankBanks, Later
  <2>2. v = [state |-> IF b = BankOfCmd(c) THEN "Idle" ELSE k.state, row |-> k.row,
             rd |-> Larger(k.rd, WRITE_TO_READ_DELAY_B), wr |-> Larger(k.wr, ColumnToColumn),
             act |-> IF b = BankOfCmd(c) THEN Larger(k.act, WRITE_AUTOPRE_DELAY) ELSE k.act]
    BY <2>1, <1>1
  <2> HIDE DEF k
  <2>3. /\ Larger(k.rd, WRITE_TO_READ_DELAY_B) \in Nat /\ Larger(k.wr, ColumnToColumn) \in Nat
        /\ Larger(k.act, WRITE_AUTOPRE_DELAY) \in Nat
    BY <1>1, <1>2, LargerType
  <2>4. v \in RankStates
    BY <2>2, <2>3, <1>1 DEF RankStates
  <2> QED BY <2>2, <2>4, <1>7 DEF k
<1>8. c.type \in {"REFRESH", "ACTIVATE", "READ_P", "WRITE_P"}
  BY DEF ValidCommand
<1> QED BY <1>3, <1>4, <1>5, <1>6, <1>7, <1>8, Zenon

LEMMA ViewType ==
  ASSUME hist \in Seq(Transactions), NEW r \in [Banks -> RankStates],
         NEW c \in Commands, c # NoCommand => ValidCommand(c)
  PROVE  View(r, c) \in [Banks -> RankStates]
<1>1. CASE c = NoCommand
  BY <1>1 DEF View
<1>2. CASE c # NoCommand
  <2>1. \A b \in Banks : RankBanks(r, c)[b] \in RankStates
    BY <1>2, RankBanksFields
  <2>2. /\ DOMAIN RankBanks(r, c) = Banks
        /\ RankBanks(r, c) = [b \in Banks |-> RankBanks(r, c)[b]]
    <3>1. CASE c.type = "REFRESH"
      BY <3>1 DEF RankBanks
    <3>2. CASE c.type = "ACTIVATE"
      BY <3>2 DEF RankBanks
    <3>3. CASE c.type = "READ_P"
      BY <3>3 DEF RankBanks
    <3>4. CASE c.type = "WRITE_P"
      BY <3>4 DEF RankBanks
    <3>5. c.type \in {"REFRESH", "ACTIVATE", "READ_P", "WRITE_P"}
      BY <1>2 DEF ValidCommand
    <3> QED BY <3>1, <3>2, <3>3, <3>4, <3>5
  <2> QED BY <1>2, <2>1, <2>2 DEF View
<1> QED BY <1>1, <1>2

\* What the delivery of the command on the bus changes.
Delivered(s, t) ==
  /\ t \in Memories
  /\ t.bank = s.bank /\ t.data = s.data /\ t.writing = s.writing /\ t.queue = s.queue
  /\ t.rankData = s.rankData /\ t.returning = s.returning
  /\ t.transactionQueue = s.transactionQueue /\ t.pendingRead = s.pendingRead
  /\ t.pendingTransactions = s.pendingTransactions
  /\ t.refreshCountdown = s.refreshCountdown /\ t.refreshWaiting = s.refreshWaiting
  /\ t.completed = s.completed
  /\ t.error = s.error
  /\ t.cmd = NoCommand /\ t.rank = View(s.rank, s.cmd)
  /\ t.reading = IF s.cmd.type = "READ_P"
                   THEN Append(s.reading, [id |-> s.cmd.id, left |-> RL])
                   ELSE s.reading

LEMMA DeliverCommandFields ==
  ASSUME hist \in Seq(Transactions), NEW s \in Memories, NEW t, t = DeliverCommand(s),
         s.cmd # NoCommand => s.cmdLeft = 1 /\ ValidCommand(s.cmd) /\ RankAllows(s, s.cmd)
  PROVE  Delivered(s, t)
<1> USE DEF Delivered
<1>1. CASE s.cmd = NoCommand
  <2>1. t = s
    BY <1>1 DEF DeliverCommand
  <2>2. s.cmd.type # "READ_P"
    BY <1>1 DEF NoCommand
  <2> QED BY <1>1, <2>1, <2>2 DEF View
<1>2. CASE s.cmd # NoCommand
  <2> DEFINE c == s.cmd
             u == [s EXCEPT !.cmd = NoCommand, !.cmdLeft = 0]
             rdg == IF c.type = "READ_P"
                      THEN Append(s.reading, [id |-> c.id, left |-> RL]) ELSE s.reading
             bks == RankBanks(s.rank, c)
  <2>1. t = RankReceives(u, c)
    BY <1>2 DEF DeliverCommand
  <2>2. u.rank = s.rank /\ u.reading = s.reading /\ u \in Memories
    <3>1. NoCommand \in Commands
      BY DEF NoCommand, Commands, None
    <3> QED BY <3>1 DEF Memories
  <2>3. RankAllows(u, c)
    BY <1>2, <2>2 DEF RankAllows
  <2>4. t = [u EXCEPT !.rank = bks, !.reading = rdg]
    <3>1. t = [u EXCEPT !.rank = RankBanks(@, c),
                 !.reading = IF c.type = "READ_P"
                               THEN Append(@, [id |-> c.id, left |-> RL]) ELSE @]
      BY <2>1, <2>3 DEF RankReceives
    <3> QED BY <2>2, <3>1
  <2>5. bks = View(s.rank, c)
    BY <1>2 DEF View
  <2>6. bks \in [Banks -> RankStates]
    <3>1. s.rank \in [Banks -> RankStates] /\ s.cmd \in Commands
      BY DEF Memories
    <3> QED BY <1>2, <2>5, <3>1, ViewType
  <2>7. rdg \in Seq(Packets)
    <3>1. s.reading \in Seq(Packets) /\ c.id \in Nat /\ RL \in Int
      BY TimingType DEF Memories, Commands
    <3>2. [id |-> c.id, left |-> RL] \in Packets
      BY <3>1 DEF Packets
    <3> QED BY <3>1, <3>2
  <2> HIDE DEF bks, rdg
  <2>8. /\ u.bank = s.bank /\ u.data = s.data /\ u.writing = s.writing /\ u.queue = s.queue
        /\ u.rankData = s.rankData /\ u.returning = s.returning
        /\ u.transactionQueue = s.transactionQueue /\ u.pendingRead = s.pendingRead
        /\ u.pendingTransactions = s.pendingTransactions
        /\ u.refreshCountdown = s.refreshCountdown /\ u.refreshWaiting = s.refreshWaiting
        /\ u.completed = s.completed
        /\ u.error = s.error
        /\ u.cmd = NoCommand
    BY DEF Memories
  <2> HIDE DEF u
  <2>9. t \in Memories
    <3>1. [u EXCEPT !.rank = bks, !.reading = rdg] \in Memories
      BY <2>2, <2>6, <2>7 DEF Memories
    <3> QED BY <2>4, <3>1
  <2>10. t.rank = bks /\ t.reading = rdg
    BY <2>2, <2>4 DEF Memories
  <2>11. /\ t.bank = u.bank /\ t.data = u.data /\ t.writing = u.writing /\ t.queue = u.queue
         /\ t.rankData = u.rankData /\ t.returning = u.returning
         /\ t.transactionQueue = u.transactionQueue /\ t.pendingRead = u.pendingRead
         /\ t.pendingTransactions = u.pendingTransactions
         /\ t.refreshCountdown = u.refreshCountdown /\ t.refreshWaiting = u.refreshWaiting
         /\ t.completed = u.completed
         /\ t.error = u.error
         /\ t.cmd = u.cmd
    BY <2>2, <2>4 DEF Memories
  <2> QED BY <2>5, <2>8, <2>9, <2>10, <2>11 DEF rdg
<1> QED BY <1>1, <1>2

LEMMA AfterBankFields ==
  ASSUME hist \in Seq(Transactions), NEW s \in Memories,
         NEW c \in Commands, ValidCommand(c), NEW b \in Banks,
         NEW l, l = BankStatesAfter(s, c)[b]
  PROVE  /\ l \in BankStates
         /\ c.type = "REFRESH" =>
              /\ l.state = "Refreshing" /\ l.last = "REFRESH" /\ l.act = tRFC
              /\ l.rd = s.bank[b].rd /\ l.wr = s.bank[b].wr /\ l.row = s.bank[b].row
              /\ l.change = tRFC
         /\ c.type = "ACTIVATE" /\ b = BankOfCmd(c) =>
              /\ l.state = "RowActive" /\ l.last = "ACTIVATE" /\ l.row = RowOfCmd(c)
              /\ l.act = Larger(s.bank[b].act, tRC)
              /\ l.rd = Larger(s.bank[b].rd, tRCD - AL)
              /\ l.wr = Larger(s.bank[b].wr, tRCD - AL)
              /\ l.change = s.bank[b].change
         /\ c.type = "ACTIVATE" /\ b # BankOfCmd(c) =>
              /\ l.state = s.bank[b].state /\ l.last = s.bank[b].last
              /\ l.row = s.bank[b].row /\ l.change = s.bank[b].change
              /\ l.rd = s.bank[b].rd /\ l.wr = s.bank[b].wr
              /\ l.act = Larger(s.bank[b].act, tRRD)
         /\ c.type \in {"READ_P", "WRITE_P"} /\ b = BankOfCmd(c) =>
              /\ l.state = s.bank[b].state /\ l.last = c.type /\ l.row = s.bank[b].row
              /\ l.act = Larger(s.bank[b].act, IF c.type = "READ_P" THEN READ_AUTOPRE_DELAY
                                               ELSE WRITE_AUTOPRE_DELAY)
              /\ l.change = IF c.type = "READ_P" THEN READ_TO_PRE_DELAY
                            ELSE WRITE_TO_PRE_DELAY
              /\ l.rd = l.act /\ l.wr = l.act
         /\ c.type \in {"READ_P", "WRITE_P"} /\ b # BankOfCmd(c) =>
              /\ l.state = s.bank[b].state /\ l.last = s.bank[b].last
              /\ l.row = s.bank[b].row /\ l.change = s.bank[b].change
              /\ l.act = s.bank[b].act
              /\ l.rd = Larger(s.bank[b].rd, IF c.type = "READ_P" THEN ColumnToColumn
                                             ELSE WRITE_TO_READ_DELAY_B)
              /\ l.wr = Larger(s.bank[b].wr, IF c.type = "READ_P" THEN READ_TO_WRITE_DELAY
                                             ELSE ColumnToColumn)
<1> DEFINE k == s.bank[b]
<1>1. /\ k \in BankStates /\ k.act \in Nat /\ k.rd \in Nat /\ k.wr \in Nat /\ k.row \in Nat
      /\ k.change \in Nat
      /\ k.state \in {"Idle", "RowActive", "Precharging", "Refreshing"}
      /\ k.last \in {"READ", "ACTIVATE", "READ_P", "WRITE_P", "REFRESH", "PRECHARGE"}
      /\ k = [state |-> k.state, row |-> k.row, rd |-> k.rd, wr |-> k.wr, act |-> k.act,
              change |-> k.change, last |-> k.last]
  BY DEF BankStates, Memories
<1>2. /\ tRFC \in Nat /\ tRC \in Nat /\ tRRD \in Nat /\ tRCD - AL \in Nat
      /\ READ_AUTOPRE_DELAY \in Nat /\ WRITE_AUTOPRE_DELAY \in Nat /\ ColumnToColumn \in Nat
      /\ READ_TO_WRITE_DELAY \in Nat /\ WRITE_TO_READ_DELAY_B \in Nat
      /\ READ_TO_PRE_DELAY \in Nat /\ WRITE_TO_PRE_DELAY \in Nat
  BY TimingType
<1>3. CASE c.type = "REFRESH"
  <2>1. l = [k EXCEPT !.act = tRFC, !.state = "Refreshing", !.last = "REFRESH", !.change = tRFC]
    BY <1>3 DEF BankStatesAfter, AfterRefresh
  <2>2. l = [state |-> "Refreshing", row |-> k.row, rd |-> k.rd, wr |-> k.wr, act |-> tRFC,
             change |-> tRFC, last |-> "REFRESH"]
    BY <2>1, <1>1
  <2> HIDE DEF k
  <2>3. l \in BankStates
    BY <2>2, <1>1, <1>2 DEF BankStates
  <2> QED BY <2>2, <2>3, <1>3 DEF k
<1>4. CASE c.type = "ACTIVATE" /\ b = BankOfCmd(c)
  <2>1. l = [k EXCEPT !.state = "RowActive", !.last = "ACTIVATE",
               !.row = RowOfCmd(c), !.act = Larger(@, tRC),
               !.rd = Larger(@, tRCD - AL), !.wr = Larger(@, tRCD - AL)]
    BY <1>4 DEF BankStatesAfter, AfterActivate, Later
  <2>2. l = [state |-> "RowActive", row |-> RowOfCmd(c), rd |-> Larger(k.rd, tRCD - AL),
             wr |-> Larger(k.wr, tRCD - AL), act |-> Larger(k.act, tRC),
             change |-> k.change, last |-> "ACTIVATE"]
    BY <2>1, <1>1
  <2>3. RowOfCmd(c) \in Nat
    BY <1>4, HistType DEF ValidCommand, RowOfCmd
  <2> HIDE DEF k
  <2>4. /\ Larger(k.rd, tRCD - AL) \in Nat /\ Larger(k.wr, tRCD - AL) \in Nat
        /\ Larger(k.act, tRC) \in Nat
    BY <1>1, <1>2, LargerType
  <2>5. l \in BankStates
    BY <2>2, <2>3, <2>4, <1>1 DEF BankStates
  <2> QED BY <2>2, <2>5, <1>4 DEF k
<1>5. CASE c.type = "ACTIVATE" /\ b # BankOfCmd(c)
  <2>1. l = [k EXCEPT !.act = Larger(@, tRRD)]
    BY <1>5 DEF BankStatesAfter, AfterActivate, Later
  <2>2. l = [state |-> k.state, row |-> k.row, rd |-> k.rd, wr |-> k.wr,
             act |-> Larger(k.act, tRRD), change |-> k.change, last |-> k.last]
    BY <2>1, <1>1
  <2> HIDE DEF k
  <2>3. Larger(k.act, tRRD) \in Nat
    BY <1>1, <1>2, LargerType
  <2>4. l \in BankStates
    BY <2>2, <2>3, <1>1 DEF BankStates
  <2> QED BY <2>2, <2>4, <1>5 DEF k
<1>6. CASE c.type \in {"READ_P", "WRITE_P"} /\ b = BankOfCmd(c)
  <2> DEFINE delay == IF c.type = "READ_P" THEN READ_AUTOPRE_DELAY ELSE WRITE_AUTOPRE_DELAY
             change == IF c.type = "READ_P" THEN READ_TO_PRE_DELAY ELSE WRITE_TO_PRE_DELAY
             act == Larger(k.act, delay)
  <2>1. l = [k EXCEPT !.act = act, !.rd = act, !.wr = act, !.last = c.type, !.change = change]
    <3>1. CASE c.type = "READ_P"
      BY <1>6, <3>1 DEF BankStatesAfter, AfterRead, Later
    <3>2. CASE c.type = "WRITE_P"
      BY <1>6, <3>2 DEF BankStatesAfter, AfterWrite, Later
    <3> QED BY <1>6, <3>1, <3>2
  <2>2. delay \in Nat /\ change \in Nat
    BY <1>2
  <2>3. act \in Nat
    BY <1>1, <2>2, LargerType
  <2> HIDE DEF act, change
  <2>4. l = [state |-> k.state, row |-> k.row, rd |-> act, wr |-> act, act |-> act,
             change |-> change, last |-> c.type]
    BY <2>1, <1>1
  <2> HIDE DEF k
  <2>5. l \in BankStates
    BY <2>2, <2>3, <2>4, <1>1, <1>6 DEF BankStates
  <2> QED BY <2>4, <2>5, <1>6 DEF k, act, change
<1>7. CASE c.type \in {"READ_P", "WRITE_P"} /\ b # BankOfCmd(c)
  <2> DEFINE rd == Larger(k.rd, IF c.type = "READ_P" THEN ColumnToColumn
                                ELSE WRITE_TO_READ_DELAY_B)
             wr == Larger(k.wr, IF c.type = "READ_P" THEN READ_TO_WRITE_DELAY
                                ELSE ColumnToColumn)
  <2>1. l = [k EXCEPT !.rd = rd, !.wr = wr]
    <3>1. CASE c.type = "READ_P"
      BY <1>7, <3>1 DEF BankStatesAfter, AfterRead, Later
    <3>2. CASE c.type = "WRITE_P"
      <4>1. l = [k EXCEPT !.wr = Larger(@, ColumnToColumn), !.rd = Larger(@, WRITE_TO_READ_DELAY_B)]
        BY <1>7, <3>2 DEF BankStatesAfter, AfterWrite, Later
      <4> QED BY <4>1, <3>2, <1>1
    <3> QED BY <1>7, <3>1, <3>2
  <2>2. rd \in Nat /\ wr \in Nat
    <3>1. CASE c.type = "READ_P"
      BY <1>1, <1>2, <3>1, LargerType
    <3>2. CASE c.type # "READ_P"
      BY <1>1, <1>2, <3>2, LargerType
    <3> QED BY <3>1, <3>2
  <2> HIDE DEF rd, wr
  <2>3. l = [state |-> k.state, row |-> k.row, rd |-> rd, wr |-> wr, act |-> k.act,
             change |-> k.change, last |-> k.last]
    BY <2>1, <1>1
  <2> HIDE DEF k
  <2>4. l \in BankStates
    BY <2>2, <2>3, <1>1 DEF BankStates
  <2> QED BY <2>3, <2>4, <1>7 DEF k, rd, wr
<1>8. c.type \in {"REFRESH", "ACTIVATE", "READ_P", "WRITE_P"}
  BY DEF ValidCommand
<1> QED BY <1>3, <1>4, <1>5, <1>6, <1>7, <1>8, Zenon

-----------------------------------------------------------------------------
\* The command queues

\* A row of the bank is open and its column command not sent yet.
Open(k) == k.state = "RowActive" /\ k.last = "ACTIVATE"

Column(id) == IF hist[id].write THEN "WRITE_P" ELSE "READ_P"

(* The queue of bank b, whose state is k: an activate and a column command *)
(* for each transaction; of the first one only the column command is left  *)
(* when the bank is open.                                                  *)
QueueShape(q, k, b) ==
  /\ \A i \in DOMAIN q : q[i].id \in DOMAIN hist /\ BankOfCmd(q[i]) = b
  /\ \A i \in DOMAIN q : q[i].type = "ACTIVATE" =>
       i + 1 \in DOMAIN q /\ q[i + 1].id = q[i].id /\ q[i + 1].type # "ACTIVATE"
  /\ \A i \in DOMAIN q : q[i].type # "ACTIVATE" =>
       /\ q[i].type = Column(q[i].id)
       /\ i > 1 => q[i - 1].type = "ACTIVATE" /\ q[i - 1].id = q[i].id
  /\ q # <<>> => (q[1].type = "ACTIVATE" <=> ~Open(k))
  /\ Open(k) => q # <<>> /\ RowOfCmd(q[1]) = k.row

QueuesShaped(s) == \A b \in Banks : QueueShape(s.queue[b], s.bank[b], b)

LEMMA ShapedCommand ==
  ASSUME hist \in Seq(Transactions), NEW q \in Seq(Commands), NEW k, NEW b,
         QueueShape(q, k, b), NEW i \in DOMAIN q
  PROVE  /\ q[i] \in Commands /\ ValidCommand(q[i]) /\ BankOfCmd(q[i]) = b
         /\ q[i].type \in {"ACTIVATE", "READ_P", "WRITE_P"} /\ q[i].id \in DOMAIN hist
<1>1. q[i] \in Commands /\ q[i].id \in DOMAIN hist /\ BankOfCmd(q[i]) = b
  BY DEF QueueShape
<1>2. q[i].type \in {"ACTIVATE", "READ_P", "WRITE_P"}
  BY DEF QueueShape, Column
<1> QED BY <1>1, <1>2 DEF ValidCommand

(* The command a refresh waits for is at the head of its queue.            *)
LEMMA OpenRowIsHead ==
  ASSUME hist \in Seq(Transactions), NEW s \in Memories, NEW b \in Banks,
         QueueShape(s.queue[b], s.bank[b], b),
         NEW i \in OpenRowCommand(s, b), s.queue[b][i].type # "ACTIVATE"
  PROVE  i = 1 /\ s.queue[b] # <<>> /\ Open(s.bank[b])
<1> DEFINE q == s.queue[b]
           row == s.bank[b].row
           same == {j \in DOMAIN q : RowOfCmd(q[j]) = row}
<1>1. q \in Seq(Commands) /\ DOMAIN q \subseteq Nat /\ DOMAIN q = 1 .. Len(q) /\ Len(q) \in Nat
  BY DEF Memories
<1>2. same # {} /\ i = FirstOf(same)
  BY DEF OpenRowCommand
<1>3. i \in same /\ \A j \in same : i <= j
  BY <1>1, <1>2, LeastOf
<1>4. CASE i > 1
  <2>1. q[i - 1].id = q[i].id /\ i - 1 \in DOMAIN q
    BY <1>1, <1>3, <1>4 DEF QueueShape
  <2>2. RowOfCmd(q[i - 1]) = row
    BY <1>3, <2>1 DEF RowOfCmd
  <2> QED BY <2>1, <2>2, <1>1, <1>3
<1>5. i = 1 /\ q # <<>>
  BY <1>1, <1>3, <1>4
<1>6. Open(s.bank[b])
  BY <1>5 DEF QueueShape
<1> QED BY <1>5, <1>6

LEMMA TurnType ==
  ASSUME NEW s \in Memories, NEW k \in Nat
  PROVE  Turn(s, k) \in Banks
<1>1. s.nextBank \in Nat
  BY DEF Memories, Banks
<1>2. s.nextBank + k \in Nat
  BY <1>1
<1> QED BY <1>2, BankType DEF Turn

\* Command c is chosen in s; t is the state in which it was taken.
Chosen(s, c, t) ==
  \/ /\ c = [type |-> "REFRESH", id |-> None]
     /\ s.refreshWaiting /\ Blocking(s) = {}
     /\ t.queue = s.queue /\ t.refreshWaiting = FALSE
  \/ \E b \in Banks :
       /\ s.queue[b] # <<>> /\ c = Head(s.queue[b]) /\ IsIssuable(s, c)
       /\ t.queue = [s.queue EXCEPT ![b] = Tail(@)]
       /\ t.refreshWaiting = s.refreshWaiting
       /\ s.refreshWaiting => c.type # "ACTIVATE" /\ b = FirstOf(Blocking(s))

Untouched(s, t) ==
  /\ t.bank = s.bank /\ t.rank = s.rank /\ t.cmd = s.cmd /\ t.cmdLeft = s.cmdLeft
  /\ t.data = s.data /\ t.writing = s.writing /\ t.rankData = s.rankData
  /\ t.reading = s.reading /\ t.returning = s.returning
  /\ t.transactionQueue = s.transactionQueue /\ t.pendingRead = s.pendingRead
  /\ t.pendingTransactions = s.pendingTransactions
  /\ t.refreshCountdown = s.refreshCountdown /\ t.completed = s.completed
  /\ t.error = s.error

LEMMA HeadChosen ==
  ASSUME hist \in Seq(Transactions), NEW s \in Memories, QueuesShaped(s),
         NEW b \in Banks, s.queue[b] # <<>>, NEW c, c = Head(s.queue[b]), IsIssuable(s, c),
         s.refreshWaiting => c.type # "ACTIVATE" /\ b = FirstOf(Blocking(s)),
         NEW n \in Banks, NEW t, t = [s EXCEPT !.queue[b] = Tail(@), !.nextBank = n]
  PROVE  /\ c \in Commands /\ ValidCommand(c) /\ Chosen(s, c, t)
         /\ t \in Memories /\ Untouched(s, t)
<1>1. /\ s.queue \in [Banks -> Seq(Commands)] /\ s.bank \in [Banks -> BankStates]
      /\ \A d \in Banks : QueueShape(s.queue[d], s.bank[d], d)
  BY DEF Memories, QueuesShaped
<1> DEFINE qs == [s.queue EXCEPT ![b] = Tail(@)]
<1>2. s.queue[b] \in Seq(Commands) /\ QueueShape(s.queue[b], s.bank[b], b)
  BY <1>1
<1>3. 1 \in DOMAIN s.queue[b] /\ c = s.queue[b][1] /\ Tail(s.queue[b]) \in Seq(Commands)
  BY <1>2, TailProperties
<1>4. c \in Commands /\ ValidCommand(c)
  BY <1>2, <1>3, ShapedCommand
<1>5. qs \in [Banks -> Seq(Commands)]
  BY <1>1, <1>3
<1>6. t = [s EXCEPT !.queue = qs, !.nextBank = n]
  BY DEF Memories
<1> HIDE DEF qs
<1>7. /\ t \in Memories /\ t.queue = qs /\ t.refreshWaiting = s.refreshWaiting
      /\ Untouched(s, t)
  <2>1. t \in Memories
    <3>1. \A q \in [Banks -> Seq(Commands)], m \in Banks :
            [s EXCEPT !.queue = q, !.nextBank = m] \in Memories
      BY DEF Memories
    <3> QED BY <1>5, <1>6, <3>1, Zenon
  <2>2. t.queue = qs /\ t.refreshWaiting = s.refreshWaiting
    BY <1>5, <1>6 DEF Memories
  <2>3. Untouched(s, t)
    BY <1>5, <1>6 DEF Memories, Untouched
  <2> QED BY <2>1, <2>2, <2>3
<1>8. Chosen(s, c, t)
  BY <1>7 DEF Chosen, qs
<1> QED BY <1>4, <1>7, <1>8
LEMMA ChoiceFields ==
  ASSUME hist \in Seq(Transactions), NEW s \in Memories, QueuesShaped(s),
         NEW p \in RefreshChoice(s) \cup NormalChoice(s), NEW t, t = p.next
  PROVE  /\ p.cmd \in Commands /\ ValidCommand(p.cmd) /\ Chosen(s, p.cmd, t)
         /\ t \in Memories
         /\ Untouched(s, t)
<1>1. /\ s.queue \in [Banks -> Seq(Commands)] /\ s.bank \in [Banks -> BankStates]
      /\ \A b \in Banks : QueueShape(s.queue[b], s.bank[b], b)
  BY DEF Memories, QueuesShaped
<1>2. CASE p \in RefreshChoice(s) /\ Blocking(s) = {}
  <2>1. /\ p = [cmd |-> [type |-> "REFRESH", id |-> None],
                next |-> [s EXCEPT !.refreshWaiting = FALSE]]
        /\ s.refreshWaiting
    BY <1>2 DEF RefreshChoice
  <2>2. p.cmd = [type |-> "REFRESH", id |-> None] /\ t = [s EXCEPT !.refreshWaiting = FALSE]
    BY <2>1
  <2>3. p.cmd \in Commands /\ ValidCommand(p.cmd)
    BY <2>2 DEF Commands, None, ValidCommand
  <2>4. /\ t \in Memories /\ t.queue = s.queue /\ t.refreshWaiting = FALSE
        /\ Untouched(s, t)
    <3>1. t \in Memories
      BY <2>2 DEF Memories
    <3>2. t.queue = s.queue /\ t.refreshWaiting = FALSE
      BY <2>2 DEF Memories
    <3>3. Untouched(s, t)
      BY <2>2 DEF Memories, Untouched
    <3> QED BY <3>1, <3>2, <3>3
  <2>5. Chosen(s, p.cmd, t)
    BY <1>2, <2>1, <2>2, <2>4 DEF Chosen
  <2> QED BY <2>3, <2>4, <2>5
<1>4. CASE p \in RefreshChoice(s) /\ Blocking(s) # {}
  <2> DEFINE b == FirstOf(Blocking(s))
  <2>1. /\ s.refreshWaiting
        /\ \E i \in {j \in OpenRowCommand(s, b) :
                       s.queue[b][j].type # "ACTIVATE" /\ IsIssuable(s, s.queue[b][j])} :
             p = [cmd |-> s.queue[b][i], next |-> [s EXCEPT !.queue[b] = RemoveAt(@, i)]]
    BY <1>4 DEF RefreshChoice
  <2>2. PICK i \in OpenRowCommand(s, b) :
          /\ s.queue[b][i].type # "ACTIVATE" /\ IsIssuable(s, s.queue[b][i])
          /\ p = [cmd |-> s.queue[b][i], next |-> [s EXCEPT !.queue[b] = RemoveAt(@, i)]]
    BY <2>1
  <2>3. b \in Banks
    <3>1. Blocking(s) \subseteq Banks /\ Blocking(s) \subseteq Nat
      BY DEF Blocking, Banks
    <3> QED BY <3>1, <1>4, LeastOf
  <2> HIDE DEF b
  <2>4. i = 1 /\ s.queue[b] # <<>> /\ s.queue[b] \in Seq(Commands)
    BY <1>1, <2>2, <2>3, OpenRowIsHead
  <2>5. Head(s.queue[b]) = s.queue[b][1] /\ RemoveAt(s.queue[b], 1) = Tail(s.queue[b])
    BY <2>4, TailProperties, RemoveAtHead
  <2>6. /\ p.cmd = Head(s.queue[b]) /\ IsIssuable(s, p.cmd) /\ p.cmd.type # "ACTIVATE"
        /\ t = [s EXCEPT !.queue[b] = RemoveAt(@, 1)]
    BY <2>2, <2>4, <2>5
  <2>7. s.nextBank \in Banks /\ t = [s EXCEPT !.queue[b] = Tail(@), !.nextBank = s.nextBank]
    <3>1. s.nextBank \in Banks
      BY DEF Memories
    <3>2. t = [s EXCEPT !.queue = [s.queue EXCEPT ![b] = Tail(@)]]
      BY <2>3, <2>5, <2>6 DEF Memories
    <3>3. t = [s EXCEPT !.queue = [s.queue EXCEPT ![b] = Tail(@)], !.nextBank = s.nextBank]
      BY <3>1, <3>2 DEF Memories
    <3> QED BY <3>1, <3>3 DEF Memories
  <2>8. b = FirstOf(Blocking(s))
    BY DEF b
  <2>9. s.refreshWaiting => p.cmd.type # "ACTIVATE" /\ b = FirstOf(Blocking(s))
    BY <2>6, <2>8
  <2> QED BY <2>3, <2>4, <2>6, <2>7, <2>9, HeadChosen, Zenon
<1>5. CASE p \in NormalChoice(s)
  <2> DEFINE ok == {k \in 0 .. (NumBanks - 1) :
                      /\ ~s.refreshWaiting
                      /\ s.queue[Turn(s, k)] # <<>>
                      /\ IsIssuable(s, Head(s.queue[Turn(s, k)]))}
             b == Turn(s, FirstOf(ok))
  <2>1. /\ ok # {}
        /\ p = [cmd |-> Head(s.queue[b]),
                next |-> [s EXCEPT !.queue[b] = Tail(@), !.nextBank = b]]
    BY <1>5, Zenon DEF NormalChoice
  <2>2. FirstOf(ok) \in ok
    <3>1. ok \subseteq Nat
      OBVIOUS
    <3> HIDE DEF ok
    <3> QED BY <2>1, <3>1, LeastOf
  <2>3. b \in Banks
    BY <2>2, TurnType
  <2>4. ~s.refreshWaiting /\ s.queue[b] # <<>> /\ IsIssuable(s, Head(s.queue[b]))
    BY <2>2
  <2> HIDE DEF b
  <2>5. p.cmd = Head(s.queue[b]) /\ t = [s EXCEPT !.queue[b] = Tail(@), !.nextBank = b]
    BY <2>1
  <2>6. s.refreshWaiting => p.cmd.type # "ACTIVATE" /\ b = FirstOf(Blocking(s))
    BY <2>4
  <2> QED BY <2>3, <2>4, <2>5, <2>6, HeadChosen, Zenon
<1> QED BY <1>2, <1>4, <1>5

LEMMA AdvanceFields ==
  ASSUME NEW s \in Memories, NEW t, t = Advance(s)
  PROVE  t \in Memories /\ Untouched(s, t) /\ t.queue = s.queue
         /\ t.refreshWaiting = s.refreshWaiting
<1>1. (s.nextBank + 1) % NumBanks \in Banks
  <2>1. s.nextBank \in Nat
    BY DEF Memories, Banks
  <2> QED BY <2>1, BankType
<1>2. CASE AL > 0 /\ s.sendAct
  <2>1. t = [s EXCEPT !.sendAct = FALSE]
    BY <1>2 DEF Advance
  <2>2. t \in Memories
    BY <2>1 DEF Memories
  <2>3. Untouched(s, t) /\ t.queue = s.queue /\ t.refreshWaiting = s.refreshWaiting
    BY <2>1 DEF Memories, Untouched
  <2> QED BY <2>2, <2>3
<1>3. CASE ~(AL > 0 /\ s.sendAct)
  <2> DEFINE n == (s.nextBank + 1) % NumBanks
  <2>1. t = [s EXCEPT !.sendAct = TRUE, !.nextBank = n]
    BY <1>3 DEF Advance
  <2> HIDE DEF n
  <2>2. n \in Banks
    BY <1>1 DEF n
  <2>3. t \in Memories
    BY <2>1, <2>2 DEF Memories
  <2>4. Untouched(s, t) /\ t.queue = s.queue /\ t.refreshWaiting = s.refreshWaiting
    BY <2>1 DEF Memories, Untouched
  <2> QED BY <2>3, <2>4
<1> QED BY <1>2, <1>3

LEMMA PopFields ==
  ASSUME hist \in Seq(Transactions), NEW s \in Memories, QueuesShaped(s),
         NEW p \in Pop(s), NEW t, t = p.next
  PROVE  /\ p.cmd \in Commands /\ ValidCommand(p.cmd) /\ Chosen(s, p.cmd, t)
         /\ t \in Memories /\ Untouched(s, t)
<1>1. PICK o \in RefreshChoice(s) \cup NormalChoice(s) :
        p = [cmd |-> o.cmd,
             next |-> [Advance(o.next) EXCEPT
                         !.faw = IF o.cmd.type = "ACTIVATE" THEN Append(@, tFAW) ELSE @]]
  BY DEF Pop
<1> DEFINE u == o.next
           v == Advance(u)
           faw == IF o.cmd.type = "ACTIVATE" THEN Append(v.faw, tFAW) ELSE v.faw
<1>2. p.cmd = o.cmd /\ t = [v EXCEPT !.faw = faw]
  BY <1>1
<1>3. /\ o.cmd \in Commands /\ ValidCommand(o.cmd) /\ Chosen(s, o.cmd, u)
      /\ u \in Memories /\ Untouched(s, u)
  BY ChoiceFields
<1> HIDE DEF u
<1>4. v \in Memories /\ Untouched(u, v) /\ v.queue = u.queue
      /\ v.refreshWaiting = u.refreshWaiting
  BY <1>3, AdvanceFields
<1> HIDE DEF v
<1>5. faw \in Seq(Int)
  <2>1. v.faw \in Seq(Int) /\ tFAW \in Int
    BY <1>4, TimingType DEF Memories
  <2> QED BY <2>1
<1> HIDE DEF faw
<1>6. t \in Memories
  BY <1>2, <1>4, <1>5 DEF Memories
<1>7. Untouched(v, t) /\ t.queue = v.queue /\ t.refreshWaiting = v.refreshWaiting
  BY <1>2, <1>4 DEF Memories, Untouched
<1>8. Untouched(s, t)
  BY <1>3, <1>4, <1>7 DEF Untouched
<1>9. Chosen(s, p.cmd, t)
  BY <1>2, <1>3, <1>4, <1>7 DEF Chosen
<1> QED BY <1>2, <1>3, <1>6, <1>8, <1>9

(* Command c is sent in a cycle that takes s to t.                         *)
Sends(s, c, t) ==
  /\ c \in Commands /\ ValidCommand(c) /\ Chosen(s, c, t)
  /\ t.cmd = c /\ t.cmdLeft = 1
  /\ t.bank = BankStatesAfter(s, c)
  /\ t.writing = IF c.type = "WRITE_P"
                   THEN Append(s.writing, [id |-> c.id, left |-> WL]) ELSE s.writing

LEMMA IssueCommandFields ==
  ASSUME hist \in Seq(Transactions), NEW s \in Memories, QueuesShaped(s),
         s.cmd = NoCommand, NEW t, t = IssueCommand(s)
  PROVE  /\ t \in Memories
         /\ t.rank = s.rank /\ t.data = s.data /\ t.rankData = s.rankData
         /\ t.reading = s.reading /\ t.returning = s.returning
         /\ t.transactionQueue = s.transactionQueue /\ t.pendingRead = s.pendingRead
         /\ t.pendingTransactions = s.pendingTransactions
         /\ t.refreshCountdown = s.refreshCountdown /\ t.completed = s.completed
         /\ t.error = s.error
         /\ t = s \/ \E c \in Commands : Sends(s, c, t)
         /\ RefreshChoice(s) = {} \/ \E c \in Commands : Sends(s, c, t)
<1>1. CASE Pop(s) = {}
  <2>1. t = s
    BY <1>1 DEF IssueCommand
  <2>2. RefreshChoice(s) = {}
    BY <1>1, Zenon DEF Pop
  <2> QED BY <2>1, <2>2
<1>2. CASE Pop(s) # {}
  <2>1. PICK p \in Pop(s) : t = Issued(s, p)
    <3>1. {Issued(s, p) : p \in Pop(s)} # {}
      BY <1>2
    <3> QED BY <3>1, <1>2 DEF IssueCommand
  <2> DEFINE c == p.cmd
             u == p.next
             wr == IF c.type = "WRITE_P"
                     THEN Append(s.writing, [id |-> c.id, left |-> WL]) ELSE s.writing
             bks == BankStatesAfter(s, c)
  <2>2. c \in Commands /\ ValidCommand(c) /\ Chosen(s, c, u) /\ u \in Memories /\ Untouched(s, u)
    BY PopFields
  <2>3. u.bank = s.bank /\ u.writing = s.writing
    BY <2>2 DEF Untouched
  <2>4. BankStatesAfter(u, c) = bks
    BY <2>3 DEF BankStatesAfter, AfterRefresh, AfterActivate, AfterRead, AfterWrite
  <2>5. t = [[u EXCEPT !.bank = BankStatesAfter(u, c),
                !.writing = IF c.type = "WRITE_P"
                              THEN Append(@, [id |-> c.id, left |-> WL]) ELSE @]
               EXCEPT !.cmd = c, !.cmdLeft = tCMD]
    BY <2>1, Zenon DEF Issued
  <2>6. bks \in [Banks -> BankStates]
    <3>1. \A b \in Banks : bks[b] \in BankStates
      BY <2>2, AfterBankFields
    <3>2. bks = [b \in Banks |-> bks[b]]
      <4>1. CASE c.type = "REFRESH"
        BY <4>1 DEF BankStatesAfter, AfterRefresh
      <4>2. CASE c.type = "ACTIVATE"
        BY <4>2 DEF BankStatesAfter, AfterActivate
      <4>3. CASE c.type = "READ_P"
        BY <4>3 DEF BankStatesAfter, AfterRead
      <4>4. CASE c.type = "WRITE_P"
        BY <4>4 DEF BankStatesAfter, AfterWrite
      <4>5. c.type \in {"REFRESH", "ACTIVATE", "READ_P", "WRITE_P"}
        BY <2>2 DEF ValidCommand
      <4> QED BY <4>1, <4>2, <4>3, <4>4, <4>5
    <3> QED BY <3>1, <3>2
  <2>7. wr \in Seq(Packets)
    <3>1. s.writing \in Seq(Packets)
      BY DEF Memories
    <3>2. c.id \in Nat
      BY <2>2 DEF Commands
    <3>3. WL \in Int
      BY TimingType
    <3>4. [id |-> c.id, left |-> WL] \in Packets
      BY <3>2, <3>3 DEF Packets
    <3> QED BY <3>1, <3>4
  <2>8. tCMD = 1
    BY TimingType
  <2>9. t = [[u EXCEPT !.bank = bks, !.writing = wr] EXCEPT !.cmd = c, !.cmdLeft = 1]
    BY <2>2, <2>3, <2>4, <2>5, <2>8
  <2> HIDE DEF c, u, wr, bks
  <2> DEFINE v == [u EXCEPT !.bank = bks, !.writing = wr]
  <2>10. v \in Memories
    BY <2>2, <2>6, <2>7 DEF Memories
  <2>11. /\ v.bank = bks /\ v.writing = wr /\ v.queue = u.queue
         /\ v.refreshWaiting = u.refreshWaiting
         /\ v.rank = u.rank /\ v.data = u.data /\ v.rankData = u.rankData
         /\ v.reading = u.reading /\ v.returning = u.returning
         /\ v.transactionQueue = u.transactionQueue /\ v.pendingRead = u.pendingRead
         /\ v.pendingTransactions = u.pendingTransactions
         /\ v.refreshCountdown = u.refreshCountdown /\ v.completed = u.completed
         /\ v.error = u.error
    BY <2>2 DEF Memories
  <2> HIDE DEF v
  <2>12. t = [v EXCEPT !.cmd = c, !.cmdLeft = 1]
    BY <2>9 DEF v
  <2>13. t \in Memories
    <3>1. \A d \in Commands : [v EXCEPT !.cmd = d, !.cmdLeft = 1] \in Memories
      BY <2>10 DEF Memories
    <3>2. c \in Commands
      BY <2>2
    <3> QED BY <2>12, <3>1, <3>2, Zenon
  <2>14. /\ t.cmd = c /\ t.cmdLeft = 1 /\ t.bank = v.bank /\ t.writing = v.writing
         /\ t.queue = v.queue /\ t.refreshWaiting = v.refreshWaiting
         /\ t.rank = v.rank /\ t.data = v.data /\ t.rankData = v.rankData
         /\ t.reading = v.reading /\ t.returning = v.returning
         /\ t.transactionQueue = v.transactionQueue /\ t.pendingRead = v.pendingRead
         /\ t.pendingTransactions = v.pendingTransactions
         /\ t.refreshCountdown = v.refreshCountdown /\ t.completed = v.completed
         /\ t.error = v.error
    BY <2>10, <2>12 DEF Memories
  <2>15. Chosen(s, c, t)
    <3>1. t.queue = u.queue /\ t.refreshWaiting = u.refreshWaiting
      BY <2>11, <2>14
    <3> QED BY <2>2, <3>1, Zenon DEF Chosen
  <2>16. Sends(s, c, t)
    BY <2>2, <2>11, <2>14, <2>15 DEF Sends, bks, wr
  <2> QED BY <2>2, <2>11, <2>13, <2>14, <2>16 DEF Untouched
<1> QED BY <1>1, <1>2

-----------------------------------------------------------------------------
\* The rest of update

LEMMA ConcatTwo ==
  ASSUME NEW S, NEW q \in Seq(S), NEW x \in S, NEW y \in S
  PROVE  LET r == q \o <<x, y>> IN
         /\ r \in Seq(S) /\ Len(r) = Len(q) + 2 /\ Len(q) \in Nat
         /\ DOMAIN r = 1 .. (Len(q) + 2) /\ DOMAIN q = 1 .. Len(q)
         /\ \A i \in DOMAIN q : r[i] = q[i]
         /\ r[Len(q) + 1] = x /\ r[Len(q) + 2] = y
OBVIOUS

\* Transaction i of the transaction queue is broken up.
Schedules(s, i, t) ==
  LET id == s.transactionQueue[i]
      b == BankOf(hist[id].addr)
  IN  /\ i \in DOMAIN s.transactionQueue
      /\ i \in Room(s) /\ \A j \in Room(s) : i <= j
      /\ t.transactionQueue = RemoveAt(s.transactionQueue, i)
      /\ t.queue = [s.queue EXCEPT ![b] =
                      @ \o <<[type |-> "ACTIVATE", id |-> id], [type |-> Column(id), id |-> id]>>]
      /\ t.pendingRead = IF hist[id].write THEN s.pendingRead ELSE Append(s.pendingRead, id)

\* What the scheduling of a transaction leaves alone.
ScheduleDone(s, t) ==
  /\ t \in Memories
  /\ t.bank = s.bank /\ t.rank = s.rank /\ t.cmd = s.cmd /\ t.cmdLeft = s.cmdLeft
  /\ t.data = s.data /\ t.writing = s.writing
  /\ t.rankData = s.rankData /\ t.reading = s.reading /\ t.returning = s.returning
  /\ t.pendingTransactions = s.pendingTransactions
  /\ t.refreshCountdown = s.refreshCountdown /\ t.completed = s.completed
  /\ t.error = s.error
  /\ t.refreshWaiting = s.refreshWaiting
  /\ t = s \/ \E i \in DOMAIN s.transactionQueue : Schedules(s, i, t)

LEMMA ScheduleFields ==
  ASSUME hist \in Seq(Transactions), NEW s \in Memories,
         \A i \in DOMAIN s.transactionQueue : s.transactionQueue[i] \in DOMAIN hist,
         NEW t, t = ScheduleTransaction(s)
  PROVE  ScheduleDone(s, t)
<1> USE DEF ScheduleDone
<1>1. CASE Room(s) = {}
  BY <1>1 DEF ScheduleTransaction
<1>2. CASE Room(s) # {}
  <2> DEFINE i == FirstOf(Room(s))
             id == s.transactionQueue[i]
             b == BankOf(hist[id].addr)
             x == [type |-> "ACTIVATE", id |-> id]
             y == [type |-> Column(id), id |-> id]
             qs == [s.queue EXCEPT ![b] = @ \o <<x, y>>]
             tq == RemoveAt(s.transactionQueue, i)
             pr == IF hist[id].write THEN s.pendingRead ELSE Append(s.pendingRead, id)
  <2>1. /\ s.transactionQueue \in Seq(Nat) /\ s.pendingRead \in Seq(Nat)
        /\ s.queue \in [Banks -> Seq(Commands)]
    BY DEF Memories
  <2>2. i \in DOMAIN s.transactionQueue /\ i \in Room(s) /\ \A j \in Room(s) : i <= j
    <3>1. Room(s) \subseteq DOMAIN s.transactionQueue /\ DOMAIN s.transactionQueue \subseteq Nat
      BY <2>1 DEF Room
    <3>2. FirstOf(Room(s)) \in Room(s) /\ \A j \in Room(s) : FirstOf(Room(s)) <= j
      BY <1>2, <3>1, LeastOf
    <3> QED BY <3>1, <3>2
  <2>3. /\ t = Scheduled(s, i)
    BY <1>2 DEF ScheduleTransaction
  <2>4. t = [s EXCEPT !.transactionQueue = tq, !.queue[b] = @ \o <<x, y>>, !.pendingRead = pr]
    <3>1. t = [s EXCEPT !.transactionQueue = RemoveAt(@, i), !.queue[b] = @ \o <<x, y>>,
                 !.pendingRead = IF hist[id].write THEN @ ELSE Append(@, id)]
      BY <2>3, Zenon DEF Scheduled, Column
    <3> HIDE DEF i, b, x, y
    <3> QED BY <3>1 DEF Memories
  <2>5. id \in DOMAIN hist
    BY <2>2
  <2>6. b \in Banks /\ id \in Nat /\ Column(id) \in {"READ_P", "WRITE_P"}
    BY <2>5, HistType DEF Column
  <2>7. x \in Commands /\ y \in Commands
    BY <2>6 DEF Commands
  <2>8. tq \in Seq(Nat)
    BY <2>1, <2>2, RemoveAtProperties
  <2>9. pr \in Seq(Nat)
    BY <2>1, <2>6
  <2> HIDE DEF i, id, b, x, y, tq, pr
  <2>10. s.queue[b] \o <<x, y>> \in Seq(Commands)
    BY <2>1, <2>6, <2>7, ConcatTwo
  <2>11. qs \in [Banks -> Seq(Commands)]
    BY <2>1, <2>6, <2>10
  <2>12. t = [s EXCEPT !.transactionQueue = tq, !.queue = qs, !.pendingRead = pr]
    BY <2>4 DEF Memories
  <2> HIDE DEF qs
  <2>13. t \in Memories
    <3>1. \A p, q \in Seq(Nat), f \in [Banks -> Seq(Commands)] :
            [s EXCEPT !.transactionQueue = q, !.queue = f, !.pendingRead = p] \in Memories
      BY DEF Memories
    <3>2. [s EXCEPT !.transactionQueue = tq, !.queue = qs, !.pendingRead = pr] \in Memories
      BY <2>8, <2>9, <2>11, <3>1, Zenon
    <3> QED BY <2>12, <3>2, Zenon
  <2>14. t.transactionQueue = tq /\ t.queue = qs /\ t.pendingRead = pr
    BY <2>12 DEF Memories
  <2>15. /\ t.bank = s.bank /\ t.rank = s.rank /\ t.cmd = s.cmd /\ t.cmdLeft = s.cmdLeft
         /\ t.data = s.data /\ t.writing = s.writing
         /\ t.rankData = s.rankData /\ t.reading = s.reading /\ t.returning = s.returning
         /\ t.pendingTransactions = s.pendingTransactions
         /\ t.refreshCountdown = s.refreshCountdown /\ t.completed = s.completed
         /\ t.error = s.error
         /\ t.refreshWaiting = s.refreshWaiting
    BY <2>12 DEF Memories
  <2>16. Schedules(s, i, t)
    BY <2>2, <2>14, Zenon DEF Schedules, i, id, b, x, y, tq, pr, qs
  <2> QED BY <2>2, <2>13, <2>15, <2>16
<1> QED BY <1>1, <1>2

\* Place m of pendingRead is that of the transaction whose data comes back.
Matches(s, m) ==
  /\ m \in DOMAIN s.pendingRead /\ s.pendingRead[m] = s.returning[1]
  /\ \A n \in DOMAIN s.pendingRead :
       hist[s.pendingRead[n]].addr = hist[s.returning[1]].addr => m <= n

\* What the return of read data to the controller changes.
DataReturned(s, t) ==
  /\ t \in Memories /\ t.returning = <<>>
  /\ t.bank = s.bank /\ t.rank = s.rank /\ t.cmd = s.cmd /\ t.cmdLeft = s.cmdLeft
  /\ t.data = s.data /\ t.writing = s.writing /\ t.queue = s.queue
  /\ t.rankData = s.rankData /\ t.reading = s.reading
  /\ t.transactionQueue = s.transactionQueue
  /\ t.pendingTransactions = s.pendingTransactions
  /\ t.refreshCountdown = s.refreshCountdown /\ t.error = s.error
  /\ t.refreshWaiting = s.refreshWaiting
  /\ s.returning = <<>> => t.pendingRead = s.pendingRead /\ t.completed = s.completed
  /\ s.returning # <<>> =>
       \E m \in Nat : /\ Matches(s, m)
                      /\ t.pendingRead = RemoveAt(s.pendingRead, m)
                      /\ t.completed = Append(s.completed, s.pendingRead[m])

LEMMA ReturnDataFields ==
  ASSUME NEW s \in Memories, NEW t, t = ReturnData(s), Len(s.returning) <= 1,
         s.returning # <<>> => \E m \in Nat : Matches(s, m)
  PROVE  DataReturned(s, t)
<1> USE DEF DataReturned
<1>1. CASE s.returning = <<>>
  BY <1>1 DEF ReturnData
<1>2. CASE s.returning # <<>>
  <2>1. PICK m \in Nat : Matches(s, m)
    BY <1>2
  <2> DEFINE addr == hist[Head(s.returning)].addr
             match == {i \in DOMAIN s.pendingRead : hist[s.pendingRead[i]].addr = addr}
             u == [s EXCEPT !.returning = Tail(@)]
             done_m == Append(s.completed, s.pendingRead[m])
             pr == RemoveAt(s.pendingRead, m)
  <2>2. /\ s.returning \in Seq(Nat) /\ s.pendingRead \in Seq(Nat) /\ s.completed \in Seq(Nat)
        /\ DOMAIN s.pendingRead = 1 .. Len(s.pendingRead) /\ DOMAIN s.pendingRead \subseteq Nat
    <3> HIDE DEF addr, match, u, done_m, pr
    <3>1. s.returning \in Seq(Nat) /\ s.pendingRead \in Seq(Nat) /\ s.completed \in Seq(Nat)
      BY DEF Memories
    <3>2. \A q \in Seq(Nat) : DOMAIN q = 1 .. Len(q) /\ DOMAIN q \subseteq Nat
      OBVIOUS
    <3> QED BY <3>1, <3>2, Zenon
  <2>3. Head(s.returning) = s.returning[1] /\ Tail(s.returning) = <<>>
    BY <1>2, <2>2
  <2>4. m \in match /\ \A n \in match : m <= n
    BY <2>1, <2>3 DEF Matches
  <2>5. FirstOf(match) = m
    <3>1. match \subseteq Nat /\ match # {}
      BY <2>2, <2>4
    <3> HIDE DEF match
    <3>2. FirstOf(match) \in match /\ FirstOf(match) <= m /\ m <= FirstOf(match)
      BY <2>4, <3>1, LeastOf
    <3>3. FirstOf(match) \in Nat
      BY <3>1, <3>2
    <3> QED BY <3>2, <3>3
  <2>6. t = IF match = {} THEN Fail(u, "NoMatchingTransaction")
            ELSE [u EXCEPT !.completed = Append(@, s.pendingRead[FirstOf(match)]),
                    !.pendingRead = RemoveAt(@, FirstOf(match))]
    BY <1>2, Zenon DEF ReturnData
  <2>7. match # {}
    BY <2>4
  <2> HIDE DEF match
  <2>8. t = [u EXCEPT !.completed = Append(@, s.pendingRead[m]), !.pendingRead = RemoveAt(@, m)]
    BY <2>5, <2>6, <2>7
  <2>9. u = [s EXCEPT !.returning = <<>>]
    BY <2>3
  <2>10. u.completed = s.completed /\ u.pendingRead = s.pendingRead
    BY <2>9 DEF Memories
  <2> HIDE DEF u
  <2>11. t = [u EXCEPT !.completed = done_m, !.pendingRead = pr]
    BY <2>8, <2>10
  <2>12. m \in DOMAIN s.pendingRead
    BY <2>1 DEF Matches
  <2>13. done_m \in Seq(Nat)
    <3>1. s.pendingRead[m] \in Nat
      BY <2>2, <2>12, ElementOfSeq
    <3> QED BY <2>2, <3>1
  <2>14. pr \in Seq(Nat)
    BY <2>2, <2>12, RemoveAtProperties
  <2> HIDE DEF done_m, pr
  <2>15. t = [s EXCEPT !.returning = <<>>, !.completed = done_m, !.pendingRead = pr]
    BY <2>9, <2>11
  <2>16. t \in Memories
    <3>1. \A p, q, r \in Seq(Nat) :
            [s EXCEPT !.returning = r, !.completed = q, !.pendingRead = p] \in Memories
      BY DEF Memories
    <3>2. <<>> \in Seq(Nat)
      OBVIOUS
    <3>3. [s EXCEPT !.returning = <<>>, !.completed = done_m, !.pendingRead = pr] \in Memories
      BY <2>13, <2>14, <3>1, <3>2, Zenon
    <3> QED BY <2>15, <3>3, Zenon
  <2>17. t.returning = <<>> /\ t.pendingRead = pr /\ t.completed = done_m
    BY <2>15 DEF Memories
  <2>18. /\ t.bank = s.bank /\ t.rank = s.rank /\ t.cmd = s.cmd /\ t.cmdLeft = s.cmdLeft
         /\ t.data = s.data /\ t.writing = s.writing /\ t.queue = s.queue
         /\ t.rankData = s.rankData /\ t.reading = s.reading
         /\ t.transactionQueue = s.transactionQueue
         /\ t.pendingTransactions = s.pendingTransactions
         /\ t.refreshCountdown = s.refreshCountdown /\ t.error = s.error
         /\ t.refreshWaiting = s.refreshWaiting
    BY <2>15 DEF Memories
  <2> QED BY <1>2, <2>1, <2>16, <2>17, <2>18 DEF pr, done_m
<1> QED BY <1>1, <1>2

LEMMA AgedBank ==
  ASSUME NEW k \in BankStates
  PROVE  /\ Aged(k) \in BankStates
         /\ Aged(k).state = k.state /\ Aged(k).last = k.last /\ Aged(k).row = k.row
         /\ Aged(k).change = k.change /\ Aged(k).act = Sooner(k.act)
         /\ Aged(k).rd = Sooner(k.rd) /\ Aged(k).wr = Sooner(k.wr)
<1>1. Sooner(k.rd) \in Nat /\ Sooner(k.wr) \in Nat /\ Sooner(k.act) \in Nat
  BY DEF BankStates, Sooner
<1>2. Aged(k) \in BankStates
  BY <1>1 DEF BankStates, Aged
<1> QED BY <1>2 DEF BankStates, Aged

LEMMA AgedRank ==
  ASSUME NEW k \in RankStates
  PROVE  /\ Aged(k) \in RankStates
         /\ Aged(k).state = k.state /\ Aged(k).row = k.row /\ Aged(k).act = Sooner(k.act)
         /\ Aged(k).rd = Sooner(k.rd) /\ Aged(k).wr = Sooner(k.wr)
<1>1. Sooner(k.rd) \in Nat /\ Sooner(k.wr) \in Nat /\ Sooner(k.act) \in Nat
  BY DEF RankStates, Sooner
<1>2. Aged(k) \in RankStates
  BY <1>1 DEF RankStates, Aged
<1> QED BY <1>2 DEF RankStates, Aged

\* What the end of a cycle changes.
Stepped(s, t) ==
  /\ t \in Memories
  /\ t.bank = [b \in Banks |-> Aged(s.bank[b])]
  /\ t.rank = [b \in Banks |-> Aged(s.rank[b])]
  /\ t.cmd = s.cmd /\ t.cmdLeft = s.cmdLeft
  /\ t.data = s.data /\ t.writing = s.writing /\ t.queue = s.queue
  /\ t.rankData = s.rankData /\ t.reading = s.reading /\ t.returning = s.returning
  /\ t.transactionQueue = s.transactionQueue /\ t.pendingRead = s.pendingRead
  /\ t.pendingTransactions = s.pendingTransactions /\ t.completed = s.completed
  /\ t.error = s.error
  /\ t.refreshCountdown = s.refreshCountdown - 1
  /\ t.refreshWaiting = s.refreshWaiting

LEMMA StepFields ==
  ASSUME NEW s \in Memories, s.refreshCountdown >= 1, NEW t, t = Step(s)
  PROVE  Stepped(s, t)
<1> USE DEF Stepped
<1> DEFINE bs == [b \in Banks |-> Aged(s.bank[b])]
           rs == [b \in Banks |-> Aged(s.rank[b])]
           n == s.refreshCountdown - 1
<1>1. t = [s EXCEPT !.refreshCountdown = n, !.bank = bs, !.rank = rs]
  BY Zenon DEF Step
<1>2. /\ \A b \in Banks : s.bank[b] \in BankStates /\ s.rank[b] \in RankStates
      /\ s.refreshCountdown \in Nat
  BY DEF Memories
<1>3. bs \in [Banks -> BankStates]
  BY <1>2, AgedBank
<1>4. rs \in [Banks -> RankStates]
  BY <1>2, AgedRank
<1>5. n \in Nat
  BY <1>2
<1> HIDE DEF bs, rs, n
<1>6. t \in Memories
  <2>1. \A f \in [Banks -> BankStates], g \in [Banks -> RankStates], k \in Nat :
          [s EXCEPT !.refreshCountdown = k, !.bank = f, !.rank = g] \in Memories
    BY DEF Memories
  <2>2. [s EXCEPT !.refreshCountdown = n, !.bank = bs, !.rank = rs] \in Memories
    BY <1>3, <1>4, <1>5, <2>1, Zenon
  <2> QED BY <1>1, <2>2, Zenon
<1>7. t.bank = bs /\ t.rank = rs /\ t.refreshCountdown = n
  BY <1>1 DEF Memories
<1>8. /\ t.cmd = s.cmd /\ t.cmdLeft = s.cmdLeft
      /\ t.data = s.data /\ t.writing = s.writing /\ t.queue = s.queue
      /\ t.rankData = s.rankData /\ t.reading = s.reading /\ t.returning = s.returning
      /\ t.transactionQueue = s.transactionQueue /\ t.pendingRead = s.pendingRead
      /\ t.pendingTransactions = s.pendingTransactions /\ t.completed = s.completed
      /\ t.error = s.error
      /\ t.refreshWaiting = s.refreshWaiting
  BY <1>1 DEF Memories
<1> QED BY <1>6, <1>7, <1>8 DEF bs, rs, n

-----------------------------------------------------------------------------
\* A lane of the data bus: the packet p on it and those in q that wait

(* Packets are sent in order, a burst apart, and not before the one on the *)
(* bus has left it.                                                        *)
Lane(p, q) ==
  /\ \A i, j \in DOMAIN q : i < j => q[i].left + Burst <= q[j].left
  /\ \A i \in DOMAIN q : q[i].left >= 1 /\ q[i].id # None
  /\ p.id # None => /\ p.left \in 1 .. Burst
                    /\ \A i \in DOMAIN q : p.left <= q[i].left

\* The cycles, from now, in which the bursts of a lane start.
Starts(p, q) ==
  {q[i].left : i \in DOMAIN q} \cup {x \in {p.left - Burst} : p.id # None}

Ready(q) == Waiting(q) # <<>> /\ Head(Waiting(q)).left = 0
Idle(p) == p.id = None \/ p.left = 1

\* A lane a cycle later.
NextOn(p, q) ==
  IF Ready(q) THEN [id |-> Head(Waiting(q)).id, left |-> Burst]
  ELSE IF Idle(p) THEN [id |-> None, left |-> 0]
  ELSE [id |-> p.id, left |-> p.left - 1]
NextLeft(q) == IF Ready(q) THEN Tail(Waiting(q)) ELSE Waiting(q)

LEMMA LaneNext ==
  ASSUME NEW p \in Packets, NEW q \in Seq(Packets), Lane(p, q)
  PROVE  /\ Ready(q) => Idle(p) /\ q # <<>> /\ q[1].left = 1
         /\ NextOn(p, q) \in Packets /\ NextLeft(q) \in Seq(Packets)
         /\ Lane(NextOn(p, q), NextLeft(q))
         /\ \A x \in Starts(NextOn(p, q), NextLeft(q)) : x + 1 \in Starts(p, q)
<1> DEFINE w == Waiting(q)
           m == NextOn(p, q)
           r == NextLeft(q)
<1>1. /\ w \in Seq(Packets) /\ Len(w) = Len(q) /\ Len(q) \in Nat
      /\ DOMAIN w = 1 .. Len(q) /\ DOMAIN q = 1 .. Len(q)
      /\ \A i \in 1 .. Len(q) : w[i].id = q[i].id /\ w[i].left = q[i].left - 1
      /\ w = <<>> <=> q = <<>>
  BY WaitingProperties
<1>2. p.id \in Nat /\ p.left \in Int /\ \A i \in 1 .. Len(q) : q[i].id \in Nat /\ q[i].left \in Int
  <2>1. \A i \in 1 .. Len(q) : q[i] \in Packets
    BY ElementOfSeq
  <2>2. \A e \in Packets : e.id \in Nat /\ e.left \in Int
    BY DEF Packets
  <2> QED BY <2>1, <2>2
<1>3. Burst \in Nat /\ Burst >= 1
  BY TimingType
<1>4. w # <<>> => 1 \in 1 .. Len(q) /\ Head(w) = w[1] /\ Head(w).id = q[1].id
                  /\ Head(w).left = q[1].left - 1
  BY <1>1
<1>5. Ready(q) => Idle(p) /\ q # <<>> /\ q[1].left = 1 /\ q[1].id # None
  BY <1>1, <1>2, <1>4 DEF Ready, Idle, Lane
<1>6. CASE Ready(q)
  <2>1. m = [id |-> q[1].id, left |-> Burst] /\ r = Tail(w)
    BY <1>4, <1>6 DEF NextOn, NextLeft, Ready
  <2>2. /\ r \in Seq(Packets) /\ DOMAIN r = 1 .. (Len(q) - 1)
        /\ \A j \in 1 .. (Len(q) - 1) : r[j] = w[j + 1]
    BY <1>1, <1>6, <2>1, TailProperties DEF Ready
  <2>3. \A j \in DOMAIN r : /\ j \in DOMAIN q /\ j + 1 \in DOMAIN q
                            /\ r[j].id = q[j + 1].id /\ r[j].left = q[j + 1].left - 1
    BY <1>1, <2>2
  <2>4. m.id = q[1].id /\ m.left = Burst /\ m \in Packets /\ m.id # None
    BY <1>2, <1>3, <1>5, <1>6, <1>1, <2>1 DEF Packets
  <2> HIDE DEF m, r, w
  <2>5. 1 \in DOMAIN q /\ q[1].left = 1
    BY <1>1, <1>5, <1>6
  <2>6. \A j \in DOMAIN r : m.left <= r[j].left /\ r[j].left >= 1 /\ r[j].id # None
    <3>1. ASSUME NEW j \in DOMAIN r
          PROVE  m.left <= r[j].left /\ r[j].left >= 1 /\ r[j].id # None
      <4>1. j + 1 \in DOMAIN q /\ 1 < j + 1 /\ j \in 1 .. (Len(q) - 1)
        BY <1>1, <2>2
      <4>2. q[j + 1].left \in Int
        BY <1>1, <1>2, <4>1
      <4>3. q[1].left + Burst <= q[j + 1].left /\ q[j + 1].id # None
        BY <2>5, <4>1 DEF Lane
      <4> QED BY <4>1, <4>2, <4>3, <1>3, <2>3, <2>4, <2>5
    <3> QED BY <3>1
  <2>7. \A i, j \in DOMAIN r : i < j => r[i].left + Burst <= r[j].left
    <3>1. ASSUME NEW i \in DOMAIN r, NEW j \in DOMAIN r, i < j
          PROVE  r[i].left + Burst <= r[j].left
      <4>1. q[i + 1].left + Burst <= q[j + 1].left
        BY <1>1, <2>2, <2>3, <3>1 DEF Lane
      <4> QED BY <4>1, <1>1, <1>2, <1>3, <2>3, SMTT(30)
    <3> QED BY <3>1
  <2>8. Lane(m, r)
    BY <1>3, <2>4, <2>6, <2>7 DEF Lane
  <2>9. ASSUME NEW x \in Starts(m, r)
        PROVE  x + 1 \in Starts(p, q)
    <3>1. CASE x = m.left - Burst
      BY <1>3, <2>4, <2>5, <3>1 DEF Starts
    <3>2. CASE \E j \in DOMAIN r : x = r[j].left
      <4>1. PICK j \in DOMAIN r : x = r[j].left
        BY <3>2
      <4>2. x + 1 = q[j + 1].left /\ j + 1 \in DOMAIN q
        BY <1>1, <1>2, <2>3, <4>1
      <4> QED BY <4>2 DEF Starts
    <3> QED BY <2>9, <3>1, <3>2 DEF Starts
  <2> QED BY <1>5, <2>2, <2>4, <2>8, <2>9 DEF m, r
<1>7. CASE ~Ready(q)
  <2>1. r = w /\ m = IF Idle(p) THEN [id |-> None, left |-> 0]
                     ELSE [id |-> p.id, left |-> p.left - 1]
    BY <1>7 DEF NextOn, NextLeft
  <2>2. \A i \in DOMAIN q : q[i].left >= 2
    <3>1. q # <<>> => q[1].left # 1
      BY <1>1, <1>2, <1>4, <1>7 DEF Ready
    <3>2. ASSUME NEW i \in DOMAIN q
          PROVE  q[i].left >= 2
      <4>1. q[1].left >= 1 /\ 1 \in DOMAIN q /\ q[1].left \in Int /\ q[1].left # 1
        BY <1>1, <1>2, <3>1 DEF Lane
      <4>2. i > 1 => q[1].left + Burst <= q[i].left
        BY <1>1, <4>1 DEF Lane
      <4> QED BY <1>1, <1>2, <1>3, <4>1, <4>2
    <3> QED BY <3>2
  <2>3. m \in Packets
    BY <1>2, <2>1 DEF Packets, None
  <2>4. m.id # None => /\ p.id # None /\ m.id = p.id /\ m.left = p.left - 1 /\ p.left # 1
                       /\ p.left \in 1 .. Burst /\ \A i \in DOMAIN q : p.left <= q[i].left
    BY <2>1 DEF Idle, Lane
  <2> HIDE DEF m, r, w
  <2>5. \A i \in DOMAIN r : /\ i \in DOMAIN q /\ r[i].left = q[i].left - 1
                            /\ r[i].id = q[i].id /\ q[i].left \in Int
    BY <1>1, <1>2, <2>1
  <2>6. \A i \in DOMAIN r : r[i].left >= 1 /\ r[i].id # None
    BY <2>2, <2>5 DEF Lane
  <2>7. \A i, j \in DOMAIN r : i < j => r[i].left + Burst <= r[j].left
    <3>1. ASSUME NEW i \in DOMAIN r, NEW j \in DOMAIN r, i < j
          PROVE  r[i].left + Burst <= r[j].left
      <4>1. q[i].left + Burst <= q[j].left
        BY <2>5, <3>1 DEF Lane
      <4>2. /\ r[i].left = q[i].left - 1 /\ r[j].left = q[j].left - 1
            /\ q[i].left \in Int /\ q[j].left \in Int
        BY <2>5
      <4>3. PICK a \in Int, c \in Int : a = q[i].left /\ c = q[j].left
        BY <4>2
      <4>4. a + Burst <= c /\ r[i].left = a - 1 /\ r[j].left = c - 1
        BY <4>1, <4>2, <4>3
      <4> QED BY <4>3, <4>4, <1>3, SMTT(30)
    <3> QED BY <3>1
  <2>8. Lane(m, r)
    <3>1. ASSUME m.id # None
          PROVE  m.left \in 1 .. Burst /\ \A i \in DOMAIN r : m.left <= r[i].left
      <4>1. /\ m.left = p.left - 1 /\ p.left # 1 /\ p.left \in 1 .. Burst
            /\ \A i \in DOMAIN q : p.left <= q[i].left
        BY <2>4, <3>1
      <4>2. m.left \in 1 .. Burst
        BY <4>1, <1>3
      <4>3. ASSUME NEW i \in DOMAIN r
            PROVE  m.left <= r[i].left
        <5>1. /\ r[i].left = q[i].left - 1 /\ q[i].left \in Int /\ p.left <= q[i].left
          BY <4>1, <2>5
        <5> QED BY <5>1, <4>1, <1>3
      <4> QED BY <4>2, <4>3
    <3> QED BY <2>6, <2>7, <3>1 DEF Lane
  <2>9. ASSUME NEW x \in Starts(m, r)
        PROVE  x + 1 \in Starts(p, q)
    <3>1. CASE m.id # None /\ x = m.left - Burst
      <4>1. x + 1 = p.left - Burst
        <5>1. m.left = p.left - 1 /\ x = m.left - Burst
          BY <2>4, <3>1
        <5> QED BY <5>1, <1>2, <1>3
      <4> QED BY <4>1, <2>4, <3>1 DEF Starts
    <3>2. CASE \E j \in DOMAIN r : x = r[j].left
      <4>1. PICK j \in DOMAIN r : x = r[j].left
        BY <3>2
      <4>2. x + 1 = q[j].left /\ j \in DOMAIN q
        BY <2>5, <4>1
      <4> QED BY <4>2 DEF Starts
    <3> QED BY <2>9, <3>1, <3>2 DEF Starts
  <2>10. r \in Seq(Packets)
    BY <1>1, <2>1
  <2> QED BY <1>5, <1>7, <2>3, <2>8, <2>9, <2>10 DEF m, r
<1> QED BY <1>6, <1>7

LEMMA LaneAppend ==
  ASSUME NEW p \in Packets, NEW q \in Seq(Packets), Lane(p, q),
         NEW id \in Nat, id # None, NEW n \in Nat, n >= 1,
         \A x \in Starts(p, q) : x + Burst <= n,
         NEW r, r = Append(q, [id |-> id, left |-> n])
  PROVE  /\ r \in Seq(Packets) /\ Lane(p, r)
         /\ \A x \in Starts(p, r) : x = n \/ x \in Starts(p, q)
<1> DEFINE e == [id |-> id, left |-> n]
<1>1. e \in Packets /\ e.id = id /\ e.left = n
  BY DEF Packets
<1>2. /\ r \in Seq(Packets) /\ DOMAIN r = 1 .. (Len(q) + 1) /\ DOMAIN q = 1 .. Len(q)
      /\ Len(q) \in Nat /\ \A i \in DOMAIN q : r[i] = q[i]
      /\ r[Len(q) + 1] = e
  BY <1>1, LastProperties
<1> HIDE DEF e
<1>3. /\ Burst \in Nat /\ Burst >= 1 /\ p.left \in Int
      /\ \A i \in DOMAIN q : q[i].left \in Int /\ q[i].id \in Nat
  <2>1. \A i \in DOMAIN q : q[i] \in Packets
    BY <1>2, ElementOfSeq
  <2>2. \A m \in Packets : m.id \in Nat /\ m.left \in Int
    BY DEF Packets
  <2>3. Burst \in Nat /\ Burst >= 1
    BY TimingType
  <2> QED BY <2>1, <2>2, <2>3
<1>4. \A i \in DOMAIN q : q[i].left + Burst <= n
  BY DEF Starts
<1>5. p.id # None => p.left <= n
  <2>1. p.id # None => (p.left - Burst) + Burst <= n
    BY DEF Starts
  <2> QED BY <2>1, <1>3
<1>6. \A i \in DOMAIN r : \/ i \in DOMAIN q /\ r[i] = q[i]
                          \/ i = Len(q) + 1 /\ r[i].left = n /\ r[i].id = id
  BY <1>1, <1>2
<1>7. \A i, j \in DOMAIN r : i < j => r[i].left + Burst <= r[j].left
  <2>1. ASSUME NEW i \in DOMAIN r, NEW j \in DOMAIN r, i < j
        PROVE  r[i].left + Burst <= r[j].left
    <3>1. i \in DOMAIN q /\ r[i] = q[i]
      BY <1>2, <2>1
    <3>2. CASE j \in DOMAIN q
      BY <1>2, <2>1, <3>1, <3>2 DEF Lane
    <3>3. CASE j \notin DOMAIN q
      BY <1>4, <1>6, <3>1, <3>3
    <3> QED BY <3>2, <3>3
  <2> QED BY <2>1
<1>8. \A i \in DOMAIN r : r[i].left >= 1 /\ r[i].id # None
  BY <1>6 DEF Lane
<1>9. p.id # None => p.left \in 1 .. Burst /\ \A i \in DOMAIN r : p.left <= r[i].left
  BY <1>5, <1>6 DEF Lane
<1>10. Lane(p, r)
  BY <1>7, <1>8, <1>9 DEF Lane
<1>11. ASSUME NEW x \in Starts(p, r)
       PROVE  x = n \/ x \in Starts(p, q)
  BY <1>6 DEF Starts
<1> QED BY <1>2, <1>10, <1>11

-----------------------------------------------------------------------------
\* The data bus and the banks

(* Cycles a bank is sure to wait before its next column command, other     *)
(* than for the distance of column commands: an open bank may have one at  *)
(* once, a closed one is activated first, and one with a column command on *)
(* its way precharges before.                                              *)
Base(k) ==
  IF Open(k) THEN 0
  ELSE IF k.state = "RowActive" THEN k.change + 1
  ELSE 1

\* A burst that starts in cycle x has left the bus before the first data of
\* a read and of a write which bank k may take next.
RoomAfter(x, k) ==
  /\ x + Burst <= RL + 2 + Larger(k.rd, Base(k))
  /\ x + Burst <= RL + Larger(k.wr, Base(k))

\* A bank that is active but not open has a precharge to come.
WellClosed(k) ==
  k.state = "RowActive" /\ ~Open(k) => k.last \in {"READ_P", "WRITE_P"} /\ k.change >= 1

Apart(x, y) == x + Burst <= y \/ y + Burst <= x

ReadStarts(s) ==
  Starts(s.rankData, s.reading) \cup {x \in {RL + 1} : s.cmd.type = "READ_P"}
WriteStarts(s) == Starts(s.data, s.writing)

BusKept(s) ==
  /\ Lane(s.rankData, s.reading) /\ Lane(s.data, s.writing)
  /\ s.data.id = None => s.data.left = 0
  /\ s.cmd.type = "READ_P" => \A x \in Starts(s.rankData, s.reading) : x + Burst <= RL + 1
  /\ \A x \in ReadStarts(s), y \in WriteStarts(s) : Apart(x, y)
  /\ \A b \in Banks : WellClosed(s.bank[b])
  /\ \A b \in Banks : \A x \in ReadStarts(s) \cup WriteStarts(s) : RoomAfter(x, s.bank[b])

LEMMA StartsType ==
  ASSUME NEW p \in Packets, NEW q \in Seq(Packets)
  PROVE  Starts(p, q) \subseteq Int
<1>1. \A i \in DOMAIN q : q[i] \in Packets
  BY ElementOfSeq
<1>2. \A m \in Packets : m.left \in Int
  BY DEF Packets
<1>3. Burst \in Nat
  BY TimingType
<1> QED BY <1>1, <1>2, <1>3 DEF Starts

LEMMA BankValues ==
  ASSUME NEW k \in BankStates
  PROVE  /\ k.rd \in Nat /\ k.wr \in Nat /\ k.act \in Nat /\ k.change \in Nat
         /\ Base(k) \in Nat
BY DEF BankStates, Base

LEMMA TickBase ==
  ASSUME NEW k \in BankStates, WellClosed(k), NEW l, l = BankTick(k)
  PROVE  /\ l \in BankStates /\ WellClosed(l)
         /\ Base(l) >= Base(k) - 1
         /\ l.state # "RowActive" => Base(k) <= 2
         /\ l.state \in {"Idle", "Refreshing"} => Base(k) = 1
         /\ Open(l) <=> Open(k)
<1>1. k.change \in Nat /\ l \in BankStates /\ l.change \in Nat
  BY BankTickType, BankValues
<1>2. \/ l.state = k.state /\ l.last = k.last /\ l.change = Sooner(k.change)
         /\ (k.last \in {"READ_P", "WRITE_P"} => k.change # 1)
      \/ /\ k.last \in {"READ_P", "WRITE_P"} /\ k.change = 1
         /\ l.state = "Precharging" /\ l.last = "PRECHARGE"
      \/ /\ k.last \in {"REFRESH", "PRECHARGE"} /\ k.change = 1
         /\ l.state = "Idle" /\ l.last = k.last
  BY BankTickType
<1> QED BY <1>1, <1>2 DEF Base, WellClosed, Open, Sooner

(* What a command leaves of the waiting of a bank: l is the bank before it *)
(* was sent, to this bank or another, m the bank after.  Either nothing    *)
(* came closer or the bank was free for a column command and got it.       *)
Holds(l, m) ==
  \/ /\ m.rd >= l.rd /\ m.wr >= l.wr
     /\ Base(m) >= Base(l) \/ l.state \in {"Idle", "Refreshing"}
  \/ Open(l) /\ (l.rd = 0 \/ l.wr = 0) /\ Base(m) >= 1

(* What was clear of a bank's next column command is clear of it a cycle   *)
(* later: l is the bank k after its tick.                                  *)
LEMMA RoomNext ==
  ASSUME NEW k \in BankStates, WellClosed(k), NEW l, l = BankTick(k),
         NEW m \in BankStates, Holds(l, m),
         NEW x \in Int, RoomAfter(x + 1, k)
  PROVE  RoomAfter(x, Aged(m))
<1> DEFINE n == Aged(m)
<1>1. /\ n.rd = Sooner(m.rd) /\ n.wr = Sooner(m.wr)
      /\ n.state = m.state /\ n.last = m.last /\ n.change = m.change /\ n \in BankStates
  BY AgedBank
<1>2. Base(n) = Base(m)
  BY <1>1 DEF Base, Open
<1>3. l.rd = k.rd /\ l.wr = k.wr
  BY BankTickType
<1>4. /\ Base(l) >= Base(k) - 1 /\ l \in BankStates
      /\ l.state \in {"Idle", "Refreshing"} => Base(k) = 1
  BY TickBase
<1>5. /\ k.rd \in Nat /\ k.wr \in Nat /\ m.rd \in Nat /\ m.wr \in Nat
      /\ Base(k) \in Nat /\ Base(l) \in Nat /\ Base(m) \in Nat
  BY <1>4, BankValues
<1>6. RL \in Nat /\ Burst \in Nat
  BY TimingType
<1>7. /\ x + 1 + Burst <= RL + 2 + Larger(k.rd, Base(k))
      /\ x + 1 + Burst <= RL + Larger(k.wr, Base(k))
  BY DEF RoomAfter
<1> HIDE DEF n
<1>8. /\ x + Burst <= RL + 2 + Larger(n.rd, Base(n))
      /\ x + Burst <= RL + Larger(n.wr, Base(n))
  <2>1. CASE /\ m.rd >= l.rd /\ m.wr >= l.wr
             /\ Base(m) >= Base(l) \/ l.state \in {"Idle", "Refreshing"}
    BY <1>1, <1>2, <1>3, <1>4, <1>5, <1>6, <1>7, <2>1 DEF Larger, Sooner
  <2>2. CASE Open(l) /\ (l.rd = 0 \/ l.wr = 0) /\ Base(m) >= 1
    <3>1. Base(k) = 0
      BY <2>2, TickBase DEF Base
    <3>2. x + Burst <= RL + 1
      BY <1>3, <1>5, <1>6, <1>7, <2>2, <3>1 DEF Larger
    <3> QED BY <1>1, <1>2, <1>5, <1>6, <2>2, <3>2 DEF Larger, Sooner
  <2> QED BY <2>1, <2>2 DEF Holds
<1> QED BY <1>8 DEF RoomAfter, n


\* The command a bank is sent is the first of its queue.
LEMMA HeadSent ==
  ASSUME hist \in Seq(Transactions), NEW s \in Memories, QueuesShaped(s),
         NEW c \in Commands, NEW t, Chosen(s, c, t), c.type # "REFRESH"
  PROVE  /\ BankOfCmd(c) \in Banks /\ s.queue[BankOfCmd(c)] # <<>>
         /\ c = s.queue[BankOfCmd(c)][1] /\ c.id \in DOMAIN hist
         /\ c.type \in {"ACTIVATE", "READ_P", "WRITE_P"}
         /\ t.queue = [s.queue EXCEPT ![BankOfCmd(c)] = Tail(@)]
         /\ IsIssuable(s, c)
         /\ c.type # "ACTIVATE" =>
              Open(s.bank[BankOfCmd(c)]) /\ s.bank[BankOfCmd(c)].row = RowOfCmd(c)
         /\ c.type = "ACTIVATE" => s.bank[BankOfCmd(c)].state \in {"Idle", "Refreshing"}
                                   /\ s.bank[BankOfCmd(c)].act = 0
         /\ c.type = "READ_P" => s.bank[BankOfCmd(c)].rd = 0
         /\ c.type = "WRITE_P" => s.bank[BankOfCmd(c)].wr = 0
<1>1. PICK b \in Banks :
        /\ s.queue[b] # <<>> /\ c = Head(s.queue[b]) /\ IsIssuable(s, c)
        /\ t.queue = [s.queue EXCEPT ![b] = Tail(@)]
  <2>1. c # [type |-> "REFRESH", id |-> None]
    OBVIOUS
  <2> QED BY <2>1, Zenon DEF Chosen
<1>2. s.queue[b] \in Seq(Commands) /\ QueueShape(s.queue[b], s.bank[b], b)
  BY DEF Memories, QueuesShaped
<1>3. 1 \in DOMAIN s.queue[b] /\ c = s.queue[b][1]
  BY <1>1, <1>2, TailProperties
<1>4. /\ BankOfCmd(c) = b /\ c.type \in {"ACTIVATE", "READ_P", "WRITE_P"}
      /\ c.id \in DOMAIN hist
  BY <1>2, <1>3, ShapedCommand
<1>5. c.type # "ACTIVATE" => Open(s.bank[b]) /\ s.bank[b].row = RowOfCmd(c)
  BY <1>1, <1>2, <1>3 DEF QueueShape
<1>6. /\ c.type = "ACTIVATE" => s.bank[b].state \in {"Idle", "Refreshing"} /\ s.bank[b].act = 0
      /\ c.type = "READ_P" => s.bank[b].rd = 0
      /\ c.type = "WRITE_P" => s.bank[b].wr = 0
  BY <1>1, <1>4 DEF IsIssuable
<1> QED BY <1>1, <1>3, <1>4, <1>5, <1>6

\* A refresh is sent when no bank is active or waits.
LEMMA RefreshSent ==
  ASSUME hist \in Seq(Transactions), NEW s \in Memories, QueuesShaped(s),
         NEW t \in Memories, NEW c, Sends(s, c, t), c.type = "REFRESH"
  PROVE  /\ Blocking(s) = {} /\ s.refreshWaiting /\ t.refreshWaiting = FALSE
         /\ t.queue = s.queue
<1>1. Chosen(s, c, t)
  BY DEF Sends
<1>2. ASSUME NEW d \in Banks, s.queue[d] # <<>>
      PROVE  Head(s.queue[d]).type # "REFRESH"
  <2>1. s.queue[d] \in Seq(Commands) /\ QueueShape(s.queue[d], s.bank[d], d)
    BY DEF Memories, QueuesShaped
  <2>2. 1 \in DOMAIN s.queue[d] /\ Head(s.queue[d]) = s.queue[d][1]
    BY <1>2, <2>1, TailProperties
  <2>3. s.queue[d][1].type \in {"ACTIVATE", "READ_P", "WRITE_P"}
    BY <2>1, <2>2, ShapedCommand
  <2> QED BY <2>2, <2>3
<1> QED BY <1>1, <1>2 DEF Chosen

\* A bank in the state s and after a command was sent.
LEMMA SentBank ==
  ASSUME hist \in Seq(Transactions), NEW s \in Memories, QueuesShaped(s),
         NEW t \in Memories, NEW c, Sends(s, c, t), NEW b \in Banks,
         WellClosed(s.bank[b]), NEW l, l = s.bank[b], NEW m, m = t.bank[b]
  PROVE  m \in BankStates /\ Holds(l, m) /\ WellClosed(m)
<1>1. /\ c \in Commands /\ ValidCommand(c) /\ Chosen(s, c, t)
      /\ m = BankStatesAfter(s, c)[b]
  BY DEF Sends
<1>2. l \in BankStates /\ m \in BankStates
  BY DEF Memories
<1>3. /\ l.rd \in Nat /\ l.wr \in Nat /\ l.act \in Nat /\ l.change \in Nat
      /\ m.rd \in Nat /\ m.wr \in Nat /\ m.act \in Nat /\ m.change \in Nat
  BY <1>2, BankValues
<1>4. /\ tRCD - AL \in Nat /\ ColumnToColumn \in Nat /\ WRITE_TO_READ_DELAY_B \in Nat
      /\ READ_TO_WRITE_DELAY \in Nat
      /\ READ_TO_PRE_DELAY \in Nat /\ READ_TO_PRE_DELAY >= 1
      /\ WRITE_TO_PRE_DELAY \in Nat /\ WRITE_TO_PRE_DELAY >= 1
  BY TimingType
<1>5. CASE c.type = "REFRESH"
  <2>1. /\ m.state = "Refreshing" /\ m.rd = l.rd /\ m.wr = l.wr
    BY <1>1, <1>5, AfterBankFields
  <2>2. l.state # "RowActive"
    <3>1. Blocking(s) = {}
      BY <1>5, RefreshSent
    <3> QED BY <3>1 DEF Blocking
  <2>3. Base(l) = 1 /\ Base(m) = 1 /\ WellClosed(m)
    BY <2>1, <2>2 DEF Base, Open, WellClosed
  <2> QED BY <1>2, <1>3, <2>1, <2>3 DEF Holds
<1>6. CASE c.type = "ACTIVATE"
  <2>1. CASE b = BankOfCmd(c)
    <3>1. /\ m.state = "RowActive" /\ m.last = "ACTIVATE"
          /\ m.rd = Larger(l.rd, tRCD - AL) /\ m.wr = Larger(l.wr, tRCD - AL)
      BY <1>1, <1>6, <2>1, AfterBankFields
    <3>2. l.state \in {"Idle", "Refreshing"}
      BY <1>1, <1>6, <2>1, HeadSent
    <3>3. m.rd >= l.rd /\ m.wr >= l.wr
      <4>1. Larger(l.rd, tRCD - AL) >= l.rd /\ Larger(l.wr, tRCD - AL) >= l.wr
        BY <1>3, <1>4, LargerType
      <4> QED BY <3>1, <4>1
    <3> QED BY <1>2, <3>1, <3>2, <3>3 DEF WellClosed, Open, Holds
  <2>2. CASE b # BankOfCmd(c)
    <3>1. /\ m.state = l.state /\ m.last = l.last /\ m.change = l.change
          /\ m.rd = l.rd /\ m.wr = l.wr
      BY <1>1, <1>6, <2>2, AfterBankFields
    <3>2. Base(m) = Base(l) /\ WellClosed(m)
      BY <3>1 DEF Base, Open, WellClosed
    <3> QED BY <1>2, <1>3, <3>1, <3>2, BankValues DEF Holds
  <2> QED BY <2>1, <2>2
<1>7. CASE c.type \in {"READ_P", "WRITE_P"}
  <2>1. CASE b = BankOfCmd(c)
    <3>1. /\ m.state = l.state /\ m.last = c.type
          /\ m.change = (IF c.type = "READ_P" THEN READ_TO_PRE_DELAY ELSE WRITE_TO_PRE_DELAY)
      BY <1>1, <1>7, <2>1, AfterBankFields
    <3>2. Open(l)
      BY <1>1, <1>7, <2>1, HeadSent
    <3>3. Base(m) >= 1 /\ WellClosed(m)
      <4>1. m.change >= 1 /\ m.change + 1 >= 1
        BY <1>3, <1>4, <1>7, <3>1
      <4>2. ~Open(m) /\ m.state = "RowActive" /\ m.last \in {"READ_P", "WRITE_P"}
        BY <1>7, <3>1, <3>2 DEF Open
      <4> QED BY <4>1, <4>2 DEF Base, WellClosed
    <3>4. l.rd = 0 \/ l.wr = 0
      BY <1>1, <1>7, <2>1, HeadSent
    <3> QED BY <1>2, <3>2, <3>3, <3>4 DEF Holds
  <2>2. CASE b # BankOfCmd(c)
    <3>1. /\ m.state = l.state /\ m.last = l.last /\ m.change = l.change
          /\ m.rd = Larger(l.rd, IF c.type = "READ_P" THEN ColumnToColumn
                                 ELSE WRITE_TO_READ_DELAY_B)
          /\ m.wr = Larger(l.wr, IF c.type = "READ_P" THEN READ_TO_WRITE_DELAY
                                 ELSE ColumnToColumn)
      BY <1>1, <1>7, <2>2, AfterBankFields
    <3>2. Base(m) = Base(l) /\ WellClosed(m)
      BY <3>1 DEF Base, Open, WellClosed
    <3>3. m.rd >= l.rd /\ m.wr >= l.wr
      <4>1. \A d \in Nat : Larger(l.rd, d) >= l.rd /\ Larger(l.wr, d) >= l.wr
        BY <1>3, LargerType
      <4> QED BY <1>4, <1>7, <3>1, <4>1
    <3> QED BY <1>2, <3>2, <3>3, BankValues DEF Holds
  <2> QED BY <2>1, <2>2
<1> QED BY <1>1, <1>5, <1>6, <1>7 DEF ValidCommand


\* The rank and the controller move on: m is s when the commands, the data
\* and the banks have moved.
Moved(s, m) ==
  /\ m.rankData = NextOn(s.rankData, s.reading)
  /\ m.reading = IF s.cmd.type = "READ_P"
                   THEN Append(NextLeft(s.reading), [id |-> s.cmd.id, left |-> RL])
                   ELSE NextLeft(s.reading)
  /\ m.data = NextOn(s.data, s.writing) /\ m.writing = NextLeft(s.writing)
  /\ m.bank = [b \in Banks |-> BankTick(s.bank[b])]
  /\ m.cmd = NoCommand

LEMMA MovedBus ==
  ASSUME NEW s \in Memories, BusKept(s), s.cmd.type = "READ_P" => s.cmd.id # None,
         NEW m \in Memories, Moved(s, m)
  PROVE  /\ Lane(m.rankData, m.reading) /\ Lane(m.data, m.writing)
         /\ m.data.id = None => m.data.left = 0
         /\ \A x \in Starts(m.rankData, m.reading) : x + 1 \in ReadStarts(s)
         /\ \A x \in Starts(m.data, m.writing) : x + 1 \in WriteStarts(s)
<1>1. /\ s.rankData \in Packets /\ s.reading \in Seq(Packets) /\ s.cmd.id \in Nat
      /\ s.data \in Packets /\ s.writing \in Seq(Packets)
  BY DEF Memories, Commands
<1>2. /\ Lane(s.rankData, s.reading) /\ Lane(s.data, s.writing)
      /\ s.data.id = None => s.data.left = 0
      /\ s.cmd.type = "READ_P" => \A x \in Starts(s.rankData, s.reading) : x + Burst <= RL + 1
  BY DEF BusKept
<1>3. /\ Lane(m.data, m.writing)
      /\ \A x \in Starts(m.data, m.writing) : x + 1 \in WriteStarts(s)
  <2>1. m.data = NextOn(s.data, s.writing) /\ m.writing = NextLeft(s.writing)
    BY DEF Moved
  <2> QED BY <1>1, <1>2, <2>1, LaneNext DEF WriteStarts
<1>4. m.data.id = None => m.data.left = 0
  <2>1. m.data = NextOn(s.data, s.writing)
    BY DEF Moved
  <2>2. CASE Ready(s.writing)
    <3>1. s.writing # <<>> /\ m.data.id = Head(Waiting(s.writing)).id
      <4>1. s.writing # <<>>
        BY <1>1, <1>2, <2>2, LaneNext
      <4>2. m.data = [id |-> Head(Waiting(s.writing)).id, left |-> Burst]
        BY <2>1, <2>2 DEF NextOn
      <4> QED BY <4>1, <4>2
    <3>2. 1 \in DOMAIN s.writing /\ Head(Waiting(s.writing)).id = s.writing[1].id
      <4>1. /\ Waiting(s.writing) \in Seq(Packets) /\ Waiting(s.writing) # <<>>
            /\ DOMAIN Waiting(s.writing) = DOMAIN s.writing
            /\ \A i \in DOMAIN s.writing : Waiting(s.writing)[i].id = s.writing[i].id
        BY <1>1, <3>1, WaitingProperties
      <4>2. /\ 1 \in DOMAIN Waiting(s.writing)
            /\ Head(Waiting(s.writing)) = Waiting(s.writing)[1]
        BY <4>1, TailProperties
      <4> QED BY <4>1, <4>2
    <3> QED BY <1>2, <3>1, <3>2 DEF Lane
  <2>3. CASE ~Ready(s.writing) /\ Idle(s.data)
    BY <2>1, <2>3 DEF NextOn
  <2>4. CASE ~Ready(s.writing) /\ ~Idle(s.data)
    BY <2>1, <2>4 DEF NextOn, Idle
  <2> QED BY <2>2, <2>3, <2>4
<1>5. /\ Lane(m.rankData, m.reading)
      /\ \A x \in Starts(m.rankData, m.reading) : x + 1 \in ReadStarts(s)
  <2> DEFINE p == NextOn(s.rankData, s.reading)
             q == NextLeft(s.reading)
  <2>1. /\ p \in Packets /\ q \in Seq(Packets) /\ Lane(p, q)
        /\ \A x \in Starts(p, q) : x + 1 \in Starts(s.rankData, s.reading)
    BY <1>1, <1>2, LaneNext
  <2>2. /\ m.rankData = p
        /\ m.reading = IF s.cmd.type = "READ_P" THEN Append(q, [id |-> s.cmd.id, left |-> RL])
                       ELSE q
    BY DEF Moved
  <2> HIDE DEF p, q
  <2>3. CASE s.cmd.type # "READ_P"
    BY <2>1, <2>2, <2>3 DEF ReadStarts
  <2>4. CASE s.cmd.type = "READ_P"
    <3>1. RL \in Nat /\ RL >= 1 /\ Burst \in Nat
      BY TimingType
    <3>2. \A x \in Starts(p, q) : x + Burst <= RL
      <4>1. ASSUME NEW x \in Starts(p, q)
            PROVE  x + Burst <= RL
        <5>1. x \in Int
          BY <2>1, StartsType
        <5>2. (x + 1) + Burst <= RL + 1
          BY <1>2, <2>1, <2>4
        <5> QED BY <3>1, <5>1, <5>2
      <4> QED BY <4>1
    <3>3. /\ Lane(p, m.reading)
          /\ \A x \in Starts(p, m.reading) : x = RL \/ x \in Starts(p, q)
      <4>1. m.reading = Append(q, [id |-> s.cmd.id, left |-> RL])
        BY <2>2, <2>4
      <4>2. s.cmd.id # None
        BY <2>4
      <4>3. RL \in Nat /\ RL >= 1 /\ s.cmd.id \in Nat /\ p \in Packets /\ q \in Seq(Packets)
        BY <1>1, <2>1, <3>1
      <4> QED BY <2>1, <3>2, <4>1, <4>2, <4>3, LaneAppend, Zenon
    <3>4. RL + 1 \in ReadStarts(s)
      BY <2>4 DEF ReadStarts
    <3> QED BY <2>1, <2>2, <3>3, <3>4 DEF ReadStarts
  <2> QED BY <2>3, <2>4
<1> QED BY <1>3, <1>4, <1>5

\* The bursts on their way when the controller has issued, t, are those of
\* m and the one of the command.
LEMMA SentStarts ==
  ASSUME hist \in Seq(Transactions), NEW m \in Memories, QueuesShaped(m), m.cmd = NoCommand,
         Lane(m.data, m.writing),
         NEW t \in Memories, NEW c, Sends(m, c, t), t.data = m.data,
         c.type = "WRITE_P" => \A x \in WriteStarts(m) : x + Burst <= WL
  PROVE  /\ Lane(t.data, t.writing)
         /\ \A x \in WriteStarts(t) : x \in WriteStarts(m) \/ (c.type = "WRITE_P" /\ x = WL)
<1>1. /\ c \in Commands
      /\ t.writing = IF c.type = "WRITE_P"
                       THEN Append(m.writing, [id |-> c.id, left |-> WL]) ELSE m.writing
      /\ Chosen(m, c, t)
  BY DEF Sends
<1>2. m.data \in Packets /\ m.writing \in Seq(Packets)
  BY DEF Memories
<1>3. CASE c.type # "WRITE_P"
  BY <1>1, <1>3 DEF WriteStarts
<1>4. CASE c.type = "WRITE_P"
  <2>1. c.id \in Nat /\ c.id # None
    <3>1. c.id \in DOMAIN hist
      BY <1>1, <1>4, HeadSent
    <3> QED BY <3>1, HistType
  <2>2. WL \in Nat /\ WL >= 1
    BY TimingType
  <2>3. \A x \in Starts(m.data, m.writing) : x + Burst <= WL
    BY <1>4 DEF WriteStarts
  <2>4. t.writing = Append(m.writing, [id |-> c.id, left |-> WL])
    BY <1>1, <1>4
  <2>5. /\ Lane(m.data, t.writing)
        /\ \A x \in Starts(m.data, t.writing) : x = WL \/ x \in Starts(m.data, m.writing)
    BY <1>2, <2>1, <2>2, <2>3, <2>4, LaneAppend
  <2> QED BY <1>4, <2>5 DEF WriteStarts
<1> QED BY <1>3, <1>4


\* The distance of a new burst to the next column command of a bank.
LEMMA NewBurst ==
  ASSUME hist \in Seq(Transactions), NEW m \in Memories, QueuesShaped(m),
         NEW t \in Memories, NEW c, Sends(m, c, t), NEW b \in Banks
  PROVE  /\ c.type = "READ_P" => RoomAfter(RL + 1, Aged(t.bank[b]))
         /\ c.type = "WRITE_P" => RoomAfter(WL, Aged(t.bank[b]))
<1> DEFINE k == t.bank[b]
           n == Aged(k)
           l == m.bank[b]
<1>1. /\ c \in Commands /\ ValidCommand(c) /\ Chosen(m, c, t)
      /\ k = BankStatesAfter(m, c)[b]
  BY DEF Sends
<1>2. l \in BankStates /\ k \in BankStates
  BY DEF Memories
<1>3. /\ n \in BankStates /\ n.rd = Sooner(k.rd) /\ n.wr = Sooner(k.wr)
      /\ n.state = k.state /\ n.last = k.last /\ n.change = k.change
  BY <1>2, AgedBank
<1>4. /\ l.rd \in Nat /\ l.wr \in Nat /\ n.rd \in Nat /\ n.wr \in Nat /\ Base(n) \in Nat
  BY <1>2, <1>3, BankValues
<1>5. /\ Burst \in Nat /\ Burst >= 1 /\ RL \in Nat /\ RL >= 2 /\ WL = RL - 1
      /\ READ_TO_PRE_DELAY \in Nat /\ READ_TO_PRE_DELAY >= Burst
      /\ WRITE_TO_PRE_DELAY \in Nat /\ WRITE_TO_PRE_DELAY >= WL + Burst
      /\ WRITE_TO_READ_DELAY_B \in Nat /\ WRITE_TO_READ_DELAY_B >= WL + Burst
      /\ READ_TO_WRITE_DELAY \in Nat /\ READ_TO_WRITE_DELAY >= Burst + 2
      /\ ColumnToColumn \in Nat /\ ColumnToColumn >= Burst
  BY TimingType
<1>6. \A d \in Nat : /\ Larger(l.rd, d) >= d /\ Larger(l.wr, d) >= d
                     /\ Larger(l.rd, d) \in Nat /\ Larger(l.wr, d) \in Nat
  BY <1>4, LargerType
<1>7. /\ Larger(n.rd, Base(n)) \in Nat /\ Larger(n.wr, Base(n)) \in Nat
      /\ Larger(n.rd, Base(n)) >= n.rd /\ Larger(n.rd, Base(n)) >= Base(n)
      /\ Larger(n.wr, Base(n)) >= n.wr /\ Larger(n.wr, Base(n)) >= Base(n)
  BY <1>4, LargerType
<1> HIDE DEF n
\* In terms of the waits of the bank.
<1>8. /\ Base(n) >= Burst + 1 \/ (n.rd >= Burst - 1 /\ n.wr >= Burst + 1) =>
           RoomAfter(RL + 1, n)
      /\ Base(n) >= Burst + 1 \/ (n.rd >= Burst - 1 /\ n.wr >= Burst - 1) => RoomAfter(WL, n)
  <2> DEFINE rd == Larger(n.rd, Base(n))
             wr == Larger(n.wr, Base(n))
  <2>1. /\ rd \in Nat /\ wr \in Nat /\ rd >= n.rd /\ rd >= Base(n)
        /\ wr >= n.wr /\ wr >= Base(n)
    BY <1>7
  <2> HIDE DEF rd, wr
  <2>2. Base(n) >= Burst + 1 \/ (n.rd >= Burst - 1 /\ n.wr >= Burst + 1) =>
          rd >= Burst - 1 /\ wr >= Burst + 1
    <3>1. Base(n) >= Burst + 1 => rd >= Burst - 1 /\ wr >= Burst + 1
      BY <1>4, <1>5, <2>1
    <3>2. n.rd >= Burst - 1 => rd >= Burst - 1
      BY <1>4, <1>5, <2>1
    <3>3. n.wr >= Burst + 1 => wr >= Burst + 1
      BY <1>4, <1>5, <2>1
    <3> QED BY <3>1, <3>2, <3>3
  <2>3. Base(n) >= Burst + 1 \/ (n.rd >= Burst - 1 /\ n.wr >= Burst - 1) =>
          rd >= Burst - 1 /\ wr >= Burst - 1
    BY <1>4, <1>5, <2>1
  <2>4. /\ rd >= Burst - 1 /\ wr >= Burst + 1 =>
             RL + 1 + Burst <= RL + 2 + rd /\ RL + 1 + Burst <= RL + wr
        /\ rd >= Burst - 1 /\ wr >= Burst - 1 =>
             WL + Burst <= RL + 2 + rd /\ WL + Burst <= RL + wr
    BY <1>5, <2>1
  <2> QED BY <2>2, <2>3, <2>4 DEF RoomAfter, rd, wr
<1>9. CASE b = BankOfCmd(c) /\ c.type \in {"READ_P", "WRITE_P"}
  <2>1. /\ k.state = l.state /\ k.last = c.type
        /\ k.change = (IF c.type = "READ_P" THEN READ_TO_PRE_DELAY ELSE WRITE_TO_PRE_DELAY)
    BY <1>1, <1>9, AfterBankFields
  <2>2. Open(l)
    BY <1>1, <1>9, HeadSent
  <2>3. Base(n) = n.change + 1
    BY <1>3, <1>9, <2>1, <2>2 DEF Base, Open
  <2>4. n.change >= Burst /\ n.change \in Int
    BY <1>3, <1>5, <1>9, <2>1
  <2>5. Base(n) >= Burst + 1
    BY <1>5, <2>3, <2>4
  <2> QED BY <1>8, <2>5 DEF n
<1>10. CASE b # BankOfCmd(c) /\ c.type \in {"READ_P", "WRITE_P"}
  <2>1. /\ k.rd = Larger(l.rd, IF c.type = "READ_P" THEN ColumnToColumn
                               ELSE WRITE_TO_READ_DELAY_B)
        /\ k.wr = Larger(l.wr, IF c.type = "READ_P" THEN READ_TO_WRITE_DELAY
                               ELSE ColumnToColumn)
    BY <1>1, <1>10, AfterBankFields
  <2>2. /\ k.rd >= Burst /\ k.wr >= Burst /\ k.rd \in Nat /\ k.wr \in Nat
        /\ c.type = "READ_P" => k.wr >= Burst + 2
    <3> HIDE DEF k, l
    <3>1. \A d \in Nat, e \in Nat : d >= e => Larger(l.rd, d) >= e /\ Larger(l.wr, d) >= e
      <4>1. ASSUME NEW d \in Nat, NEW e \in Nat, d >= e
            PROVE  Larger(l.rd, d) >= e /\ Larger(l.wr, d) >= e
        <5>1. /\ Larger(l.rd, d) >= d /\ Larger(l.wr, d) >= d
              /\ Larger(l.rd, d) \in Nat /\ Larger(l.wr, d) \in Nat
          BY <1>6
        <5> QED BY <4>1, <5>1
      <4> QED BY <4>1
    <3>2. CASE c.type = "READ_P"
      <4>1. k.rd = Larger(l.rd, ColumnToColumn) /\ k.wr = Larger(l.wr, READ_TO_WRITE_DELAY)
        BY <2>1, <3>2
      <4>2. /\ Larger(l.rd, ColumnToColumn) >= Burst
            /\ Larger(l.wr, READ_TO_WRITE_DELAY) >= Burst
            /\ Larger(l.wr, READ_TO_WRITE_DELAY) >= Burst + 2
        BY <1>5, <3>1
      <4> QED BY <1>5, <1>6, <4>1, <4>2
    <3>3. CASE c.type = "WRITE_P"
      <4>1. k.rd = Larger(l.rd, WRITE_TO_READ_DELAY_B) /\ k.wr = Larger(l.wr, ColumnToColumn)
        BY <2>1, <3>3
      <4>2. /\ Larger(l.rd, WRITE_TO_READ_DELAY_B) >= Burst
            /\ Larger(l.wr, ColumnToColumn) >= Burst
        BY <1>5, <3>1
      <4> QED BY <1>5, <1>6, <3>3, <4>1, <4>2
    <3> QED BY <1>10, <3>2, <3>3
  <2>3. /\ n.rd >= Burst - 1 /\ n.wr >= Burst - 1
        /\ c.type = "READ_P" => n.wr >= Burst + 1
    <3> HIDE DEF k
    <3>1. \A a \in Nat, e \in Nat : a >= e => Sooner(a) >= e - 1
      BY DEF Sooner
    <3>2. Sooner(k.rd) >= Burst - 1 /\ Sooner(k.wr) >= Burst - 1
      BY <1>5, <2>2, <3>1
    <3>3. c.type = "READ_P" => Sooner(k.wr) >= Burst + 1
      <4>1. Burst + 2 \in Nat /\ (Burst + 2) - 1 = Burst + 1
        BY <1>5
      <4> QED BY <2>2, <3>1, <4>1
    <3> QED BY <1>3, <3>2, <3>3
  <2> QED BY <1>8, <2>3 DEF n
<1> QED BY <1>9, <1>10 DEF n

(* A read issued goes to a bank whose counter for reads has run out, so    *)
(* every burst leaves the bus before its data; a write likewise.           *)
LEMMA IssuedLast ==
  ASSUME hist \in Seq(Transactions), NEW s \in Memories, BusKept(s),
         s.cmd.type = "READ_P" => s.cmd.id # None,
         NEW m \in Memories, Moved(s, m), QueuesShaped(m),
         NEW t \in Memories, NEW c \in Commands, Sends(m, c, t)
  PROVE  /\ c.type = "READ_P" =>
              \A x \in Starts(m.rankData, m.reading) \cup WriteStarts(m) : x + Burst <= RL + 1
         /\ c.type = "WRITE_P" =>
              \A x \in Starts(m.rankData, m.reading) \cup WriteStarts(m) : x + Burst <= WL
<1>1. /\ \A x \in Starts(m.rankData, m.reading) : x + 1 \in ReadStarts(s)
      /\ \A x \in Starts(m.data, m.writing) : x + 1 \in WriteStarts(s)
  BY MovedBus
<1>2. \A b \in Banks : m.bank[b] = BankTick(s.bank[b])
  BY DEF Moved
<1>3. /\ Starts(m.rankData, m.reading) \subseteq Int /\ WriteStarts(m) \subseteq Int
      /\ ReadStarts(s) \subseteq Int /\ WriteStarts(s) \subseteq Int
  <2>1. RL + 1 \in Int
    BY TimingType
  <2>2. \A r \in Memories : /\ r.rankData \in Packets /\ r.reading \in Seq(Packets)
                            /\ r.data \in Packets /\ r.writing \in Seq(Packets)
    BY DEF Memories
  <2>3. \A r \in Memories : /\ Starts(r.rankData, r.reading) \subseteq Int
                            /\ WriteStarts(r) \subseteq Int
    BY <2>2, StartsType DEF WriteStarts
  <2> QED BY <2>1, <2>3 DEF ReadStarts
<1>4. Burst \in Nat /\ Burst >= 1 /\ RL \in Nat /\ RL >= 2 /\ WL = RL - 1
  BY TimingType
<1>5. /\ \A b \in Banks : WellClosed(s.bank[b]) /\ s.bank[b] \in BankStates
      /\ \A b \in Banks, x \in ReadStarts(s) \cup WriteStarts(s) : RoomAfter(x, s.bank[b])
  BY DEF BusKept, Memories
<1>6. Chosen(m, c, t)
  BY DEF Sends
<1> SUFFICES ASSUME c.type \in {"READ_P", "WRITE_P"},
                    NEW x \in Starts(m.rankData, m.reading) \cup WriteStarts(m)
             PROVE  /\ c.type = "READ_P" => x + Burst <= RL + 1
                    /\ c.type = "WRITE_P" => x + Burst <= WL
  OBVIOUS
<1> DEFINE b == BankOfCmd(c)
           k == s.bank[b]
           l == m.bank[b]
<1>7. /\ b \in Banks /\ Open(l)
      /\ c.type = "READ_P" => l.rd = 0
      /\ c.type = "WRITE_P" => l.wr = 0
  BY <1>6, HeadSent
<1>8. l = BankTick(k) /\ k \in BankStates /\ WellClosed(k)
  BY <1>2, <1>5, <1>7
<1>9. Open(k) /\ Base(k) = 0 /\ k.rd = l.rd /\ k.wr = l.wr /\ k.rd \in Nat /\ k.wr \in Nat
  BY <1>7, <1>8, TickBase, BankTickType, BankValues DEF Base
<1>10. x \in Int /\ RoomAfter(x + 1, k)
  BY <1>1, <1>3, <1>5, <1>7 DEF WriteStarts
<1>11. /\ x + 1 + Burst <= RL + 2 + Larger(k.rd, Base(k))
       /\ x + 1 + Burst <= RL + Larger(k.wr, Base(k))
  BY <1>10 DEF RoomAfter
<1> HIDE DEF k, l, b
<1>12. CASE c.type = "READ_P"
  <2>1. Larger(k.rd, Base(k)) = 0
    BY <1>7, <1>9, <1>12 DEF Larger
  <2> QED BY <1>4, <1>10, <1>11, <1>12, <2>1
<1>13. CASE c.type = "WRITE_P"
  <2>1. Larger(k.wr, Base(k)) = 0
    BY <1>7, <1>9, <1>13 DEF Larger
  <2> QED BY <1>4, <1>10, <1>11, <1>13, <2>1
<1> QED BY <1>12, <1>13

(* The whole cycle: s before it, m when everything has moved, t when the   *)
(* controller has issued, u at the end.                                    *)
LEMMA BusStep ==
  ASSUME hist \in Seq(Transactions), NEW s \in Memories, BusKept(s),
         s.cmd.type = "READ_P" => s.cmd.id # None,
         NEW m \in Memories, Moved(s, m), QueuesShaped(m),
         NEW t \in Memories, t = m \/ \E c \in Commands : Sends(m, c, t),
         t.rankData = m.rankData, t.reading = m.reading, t.data = m.data,
         NEW u \in Memories, u.rankData = t.rankData, u.reading = t.reading,
         u.data = t.data, u.writing = t.writing, u.cmd = t.cmd,
         u.bank = [b \in Banks |-> Aged(t.bank[b])]
  PROVE  BusKept(u)
<1>1. /\ Lane(m.rankData, m.reading) /\ Lane(m.data, m.writing)
      /\ m.data.id = None => m.data.left = 0
      /\ \A x \in Starts(m.rankData, m.reading) : x + 1 \in ReadStarts(s)
      /\ \A x \in Starts(m.data, m.writing) : x + 1 \in WriteStarts(s)
  BY MovedBus
<1>2. /\ m.cmd = NoCommand
      /\ \A b \in Banks : m.bank[b] = BankTick(s.bank[b])
  BY DEF Moved
<1>3. /\ Starts(m.rankData, m.reading) \subseteq Int /\ WriteStarts(m) \subseteq Int
      /\ ReadStarts(s) \subseteq Int /\ WriteStarts(s) \subseteq Int
  <2>1. RL + 1 \in Int
    BY TimingType
  <2>2. \A r \in Memories : /\ r.rankData \in Packets /\ r.reading \in Seq(Packets)
                            /\ r.data \in Packets /\ r.writing \in Seq(Packets)
    BY DEF Memories
  <2>3. \A r \in Memories : /\ Starts(r.rankData, r.reading) \subseteq Int
                            /\ WriteStarts(r) \subseteq Int
    BY <2>2, StartsType DEF WriteStarts
  <2> QED BY <2>1, <2>3 DEF ReadStarts
<1>4. Burst \in Nat /\ Burst >= 1 /\ RL \in Nat /\ RL >= 2 /\ WL = RL - 1
  BY TimingType
<1>5. /\ \A b \in Banks : WellClosed(s.bank[b]) /\ s.bank[b] \in BankStates
      /\ \A b \in Banks, x \in ReadStarts(s) \cup WriteStarts(s) : RoomAfter(x, s.bank[b])
      /\ \A x \in ReadStarts(s), y \in WriteStarts(s) : Apart(x, y)
  BY DEF BusKept, Memories
<1>6. /\ NoCommand.type # "READ_P" /\ NoCommand.type # "WRITE_P"
  BY DEF NoCommand
<1>7. ASSUME NEW c \in Commands, Sends(m, c, t)
      PROVE  /\ c.type = "READ_P" =>
                  \A x \in Starts(m.rankData, m.reading) \cup WriteStarts(m) : x + Burst <= RL + 1
             /\ c.type = "WRITE_P" =>
                  \A x \in Starts(m.rankData, m.reading) \cup WriteStarts(m) : x + Burst <= WL
  BY <1>7, IssuedLast, Zenon
\* Where the bursts of u are from.
<1> DEFINE
  ReadsFrom == \A x \in ReadStarts(u) :
    \/ x \in Int /\ x + 1 \in ReadStarts(s) /\ x \in Starts(m.rankData, m.reading)
    \/ x = RL + 1 /\ \E c \in Commands : Sends(m, c, t) /\ c.type = "READ_P"
  WritesFrom == \A x \in WriteStarts(u) :
    \/ x \in Int /\ x + 1 \in WriteStarts(s) /\ x \in WriteStarts(m)
    \/ x = WL /\ \E c \in Commands : Sends(m, c, t) /\ c.type = "WRITE_P"
<1>8. Lane(u.rankData, u.reading) /\ Lane(u.data, u.writing) /\ ReadsFrom /\ WritesFrom
  <2>1. \A x \in WriteStarts(m) : x \in Int /\ x + 1 \in WriteStarts(s)
    BY <1>1, <1>3 DEF WriteStarts
  <2>2. \A x \in Starts(m.rankData, m.reading) : x \in Int /\ x + 1 \in ReadStarts(s)
    BY <1>1, <1>3
  <2>3. CASE t = m
    <3>1. u.cmd.type # "READ_P"
      BY <1>2, <1>6, <2>3
    <3>2. ReadStarts(u) = Starts(m.rankData, m.reading) /\ WriteStarts(u) = WriteStarts(m)
      BY <2>3, <3>1 DEF ReadStarts, WriteStarts
    <3> QED BY <1>1, <2>1, <2>2, <2>3, <3>2
  <2>4. ASSUME NEW c \in Commands, Sends(m, c, t)
        PROVE  Lane(u.data, u.writing) /\ ReadsFrom /\ WritesFrom
    <3>1. /\ Lane(t.data, t.writing)
          /\ \A x \in WriteStarts(t) : x \in WriteStarts(m) \/ (c.type = "WRITE_P" /\ x = WL)
      BY <1>1, <1>2, <1>7, <2>4, SentStarts
    <3>2. u.cmd = c
      BY <2>4 DEF Sends
    <3>3. WriteStarts(u) = WriteStarts(t)
      BY DEF WriteStarts
    <3>4. \A x \in ReadStarts(u) : x \in Starts(m.rankData, m.reading)
                                   \/ (x = RL + 1 /\ c.type = "READ_P")
      BY <3>2 DEF ReadStarts
    <3> QED BY <2>1, <2>2, <2>4, <3>1, <3>3, <3>4
  <2> QED BY <1>1, <2>3, <2>4
<1>9. \A x \in ReadStarts(u), y \in WriteStarts(u) : Apart(x, y)
  <2>1. ASSUME NEW x \in ReadStarts(u), NEW y \in WriteStarts(u)
        PROVE  Apart(x, y)
    <3>1. CASE /\ x \in Int /\ x + 1 \in ReadStarts(s)
               /\ y \in Int /\ y + 1 \in WriteStarts(s)
      <4>1. Apart(x + 1, y + 1)
        BY <1>5, <3>1
      <4> QED BY <1>4, <3>1, <4>1 DEF Apart
    <3>2. ASSUME NEW c \in Commands, Sends(m, c, t), c.type = "READ_P", x = RL + 1,
                 y \in WriteStarts(m)
          PROVE  Apart(x, y)
      BY <1>7, <3>2 DEF Apart
    <3>3. ASSUME NEW c \in Commands, Sends(m, c, t), c.type = "WRITE_P", y = WL,
                 x \in Starts(m.rankData, m.reading)
          PROVE  Apart(x, y)
      BY <1>7, <3>3 DEF Apart
    <3>4. ASSUME NEW c \in Commands, Sends(m, c, t), NEW d \in Commands, Sends(m, d, t)
          PROVE  c = d
      BY <3>4 DEF Sends
    <3> QED BY <1>8, <2>1, <3>1, <3>2, <3>3, <3>4
  <2> QED BY <2>1
<1>10. \A b \in Banks : /\ t.bank[b] \in BankStates /\ WellClosed(t.bank[b])
                        /\ Holds(m.bank[b], t.bank[b])
  <2> SUFFICES ASSUME NEW b \in Banks
               PROVE  /\ t.bank[b] \in BankStates /\ WellClosed(t.bank[b])
                      /\ Holds(m.bank[b], t.bank[b])
    OBVIOUS
  <2>1. m.bank[b] \in BankStates /\ WellClosed(m.bank[b])
    BY <1>2, <1>5, TickBase
  <2>2. CASE t = m
    <3>1. m.bank[b].rd \in Nat /\ m.bank[b].wr \in Nat /\ Base(m.bank[b]) \in Nat
      BY <2>1, BankValues
    <3> QED BY <2>1, <2>2, <3>1 DEF Holds
  <2>3. ASSUME NEW c \in Commands, Sends(m, c, t)
        PROVE  /\ t.bank[b] \in BankStates /\ WellClosed(t.bank[b])
               /\ Holds(m.bank[b], t.bank[b])
    BY <2>1, <2>3, SentBank
  <2> QED BY <2>2, <2>3
<1>11. \A b \in Banks : WellClosed(u.bank[b])
  <2> SUFFICES ASSUME NEW b \in Banks
               PROVE  WellClosed(u.bank[b])
    OBVIOUS
  <2>1. /\ u.bank[b].state = t.bank[b].state /\ u.bank[b].last = t.bank[b].last
        /\ u.bank[b].change = t.bank[b].change
    BY <1>10, AgedBank
  <2> QED BY <1>10, <2>1 DEF WellClosed, Open
<1>12. \A b \in Banks, x \in ReadStarts(u) \cup WriteStarts(u) : RoomAfter(x, u.bank[b])
  <2> SUFFICES ASSUME NEW b \in Banks, NEW x \in ReadStarts(u) \cup WriteStarts(u)
               PROVE  RoomAfter(x, Aged(t.bank[b]))
    OBVIOUS
  <2>1. ASSUME x \in Int, x + 1 \in ReadStarts(s) \cup WriteStarts(s)
        PROVE  RoomAfter(x, Aged(t.bank[b]))
    BY <1>2, <1>5, <1>10, <2>1, RoomNext
  <2>2. ASSUME NEW c \in Commands, Sends(m, c, t),
               (x = RL + 1 /\ c.type = "READ_P") \/ (x = WL /\ c.type = "WRITE_P")
        PROVE  RoomAfter(x, Aged(t.bank[b]))
    BY <2>2, NewBurst
  <2> QED BY <1>8, <2>1, <2>2
<1>13. u.cmd.type = "READ_P" => \A x \in Starts(u.rankData, u.reading) : x + Burst <= RL + 1
  <2>1. CASE t = m
    BY <1>2, <1>6, <2>1
  <2>2. ASSUME NEW c \in Commands, Sends(m, c, t)
        PROVE  u.cmd = c
    BY <2>2 DEF Sends
  <2> QED BY <1>7, <2>1, <2>2
<1> HIDE DEF ReadsFrom, WritesFrom
<1> QED BY <1>1, <1>8, <1>9, <1>11, <1>12, <1>13 DEF BusKept

\* Bursts a burst apart are not on the bus at once.
LEMMA OneOnTheBus ==
  ASSUME NEW s \in Memories, BusKept(s)
  PROVE  s.data.id = None \/ s.rankData.id = None
<1> SUFFICES ASSUME s.data.id # None, s.rankData.id # None
             PROVE  FALSE
  OBVIOUS
<1>1. s.data.left \in 1 .. Burst /\ s.rankData.left \in 1 .. Burst
  BY DEF BusKept, Lane
<1>2. Burst \in Nat
  BY TimingType
<1>3. /\ s.rankData.left - Burst \in ReadStarts(s)
      /\ s.data.left - Burst \in WriteStarts(s)
  BY DEF ReadStarts, WriteStarts, Starts
<1>4. Apart(s.rankData.left - Burst, s.data.left - Burst)
  BY <1>3 DEF BusKept
<1> QED BY <1>1, <1>2, <1>4 DEF Apart


-----------------------------------------------------------------------------
\* What the rank knows of a bank, v, and the controller, k

(* The rank has a bank active while it is open for the controller, and     *)
(* waits at most a cycle longer: it receives a command a cycle after the   *)
(* controller has counted it.                                              *)
Follows(v, k) ==
  /\ v.state = "RowActive" <=> Open(k)
  /\ Open(k) => v.row = k.row /\ v.rd <= k.rd + 1 /\ v.wr <= k.wr + 1
  /\ v.act <= k.act + 1

Agreement(rank, bank, cmd) ==
  /\ cmd # NoCommand => RankAllows([rank |-> rank], cmd)
  /\ \A b \in Banks : Follows(View(rank, cmd)[b], bank[b])

LEMMA LateEnough ==
  ASSUME NEW a \in Nat, NEW b \in Nat, a <= b + 1
  PROVE  /\ Sooner(a) <= b /\ Sooner(a) <= Sooner(b) + 1
         /\ b = 0 => Sooner(a) = 0
         /\ \A d \in Nat : Larger(Sooner(a), d) <= Sooner(Larger(b, d)) + 1
BY DEF Sooner, Larger

LEMMA CountedFirst ==
  ASSUME NEW b \in Nat, NEW d \in Nat
  PROVE  d <= Sooner(Larger(b, d)) + 1 /\ d <= Sooner(d) + 1
BY DEF Sooner, Larger

LEMMA RankValues ==
  ASSUME NEW v \in RankStates
  PROVE  /\ v.rd \in Nat /\ v.wr \in Nat /\ v.act \in Nat
         /\ v.state = "Idle" \/ v.state = "RowActive"
BY DEF RankStates

\* No command was sent.
LEMMA FollowsAged ==
  ASSUME NEW v \in RankStates, NEW k \in BankStates, Follows(v, k)
  PROVE  Follows(Aged(v), Aged(k))
<1>1. /\ v.rd \in Nat /\ v.wr \in Nat /\ v.act \in Nat
      /\ k.rd \in Nat /\ k.wr \in Nat /\ k.act \in Nat
  BY RankValues, BankValues
<1>2. /\ Aged(v).state = v.state /\ Aged(v).row = v.row /\ Aged(v).act = Sooner(v.act)
      /\ Aged(v).rd = Sooner(v.rd) /\ Aged(v).wr = Sooner(v.wr)
  BY AgedRank
<1>3. /\ Aged(k).state = k.state /\ Aged(k).last = k.last /\ Aged(k).row = k.row
      /\ Aged(k).act = Sooner(k.act) /\ Aged(k).rd = Sooner(k.rd) /\ Aged(k).wr = Sooner(k.wr)
  BY AgedBank
<1>4. Open(Aged(k)) <=> Open(k)
  BY <1>3 DEF Open
<1>5. v.act <= k.act + 1 => Sooner(v.act) <= Sooner(k.act) + 1
  BY <1>1, LateEnough
<1>6. v.rd <= k.rd + 1 => Sooner(v.rd) <= Sooner(k.rd) + 1
  BY <1>1, LateEnough
<1>7. v.wr <= k.wr + 1 => Sooner(v.wr) <= Sooner(k.wr) + 1
  BY <1>1, LateEnough
<1> QED BY <1>2, <1>3, <1>4, <1>5, <1>6, <1>7 DEF Follows

(* The rank accepts the command the controller chose, one cycle after.     *)
LEMMA SentAllowed ==
  ASSUME hist \in Seq(Transactions), NEW m \in Memories, QueuesShaped(m),
         \A b \in Banks : Follows(m.rank[b], m.bank[b]),
         NEW t \in Memories, NEW c, Sends(m, c, t),
         NEW r, r = [b \in Banks |-> Aged(m.rank[b])]
  PROVE  RankAllows([rank |-> r], c)
<1>1. c \in Commands /\ ValidCommand(c) /\ Chosen(m, c, t)
  BY DEF Sends
<1>2. \A b \in Banks : /\ m.rank[b] \in RankStates /\ m.bank[b] \in BankStates
                       /\ r[b].state = m.rank[b].state /\ r[b].row = m.rank[b].row
                       /\ r[b].act = Sooner(m.rank[b].act)
                       /\ r[b].rd = Sooner(m.rank[b].rd) /\ r[b].wr = Sooner(m.rank[b].wr)
  BY AgedRank DEF Memories
<1>3. CASE c.type = "REFRESH"
  <2>1. Blocking(m) = {}
    BY <1>3, RefreshSent
  <2>2. \A b \in Banks : m.bank[b].state # "RowActive"
    BY <2>1 DEF Blocking
  <2>3. \A b \in Banks : r[b].state = "Idle"
    BY <1>2, <2>2, RankValues DEF Follows, Open
  <2> QED BY <1>3, <2>3 DEF RankAllows
<1>4. CASE c.type # "REFRESH"
  <2> DEFINE b == BankOfCmd(c)
             v == m.rank[b]
             k == m.bank[b]
  <2>1. /\ b \in Banks /\ c.type \in {"ACTIVATE", "READ_P", "WRITE_P"}
        /\ c.type # "ACTIVATE" => Open(k) /\ k.row = RowOfCmd(c)
        /\ c.type = "ACTIVATE" => k.state \in {"Idle", "Refreshing"} /\ k.act = 0
        /\ c.type = "READ_P" => k.rd = 0
        /\ c.type = "WRITE_P" => k.wr = 0
    BY <1>1, <1>4, HeadSent
  <2>2. /\ v.rd \in Nat /\ v.wr \in Nat /\ v.act \in Nat
        /\ v.state = "Idle" \/ v.state = "RowActive"
        /\ k.rd \in Nat /\ k.wr \in Nat /\ k.act \in Nat
    BY <1>2, <2>1, RankValues, BankValues
  <2>3. Follows(v, k)
    BY <2>1
  <2>4. /\ r[b].state = v.state /\ r[b].row = v.row /\ r[b].act = Sooner(v.act)
        /\ r[b].rd = Sooner(v.rd) /\ r[b].wr = Sooner(v.wr)
    BY <1>2, <2>1
  <2> HIDE DEF v, k, b
  <2>5. CASE c.type = "ACTIVATE"
    <3>1. v.state = "Idle"
      BY <2>1, <2>2, <2>3, <2>5 DEF Follows, Open
    <3>2. Sooner(v.act) = 0
      BY <2>1, <2>2, <2>3, <2>5, LateEnough DEF Follows
    <3> QED BY <2>4, <2>5, <3>1, <3>2 DEF RankAllows, b
  <2>6. CASE c.type = "READ_P"
    <3>1. v.state = "RowActive" /\ v.row = RowOfCmd(c)
      BY <2>1, <2>3, <2>6 DEF Follows
    <3>2. Sooner(v.rd) = 0
      BY <2>1, <2>2, <2>3, <2>6, LateEnough DEF Follows
    <3> QED BY <2>4, <2>6, <3>1, <3>2 DEF RankAllows, b
  <2>7. CASE c.type = "WRITE_P"
    <3>1. v.state = "RowActive" /\ v.row = RowOfCmd(c)
      BY <2>1, <2>3, <2>7 DEF Follows
    <3>2. Sooner(v.wr) = 0
      BY <2>1, <2>2, <2>3, <2>7, LateEnough DEF Follows
    <3> QED BY <2>4, <2>7, <3>1, <3>2 DEF RankAllows, b
  <2> QED BY <2>1, <2>5, <2>6, <2>7
<1> QED BY <1>3, <1>4


(* What the command does to the banks of the rank, it has done to those of *)
(* the controller.                                                         *)
LEMMA FollowsSent ==
  ASSUME hist \in Seq(Transactions), NEW m \in Memories, QueuesShaped(m),
         \A b \in Banks : Follows(m.rank[b], m.bank[b]),
         NEW t \in Memories, NEW c, Sends(m, c, t),
         NEW r, r = [b \in Banks |-> Aged(m.rank[b])],
         NEW d \in Banks
  PROVE  Follows(RankBanks(r, c)[d], Aged(t.bank[d]))
<1> DEFINE v == m.rank[d]
           l == m.bank[d]
           k == t.bank[d]
           n == Aged(k)
           w == RankBanks(r, c)[d]
<1>1. /\ c \in Commands /\ ValidCommand(c) /\ Chosen(m, c, t)
      /\ k = BankStatesAfter(m, c)[d]
  BY DEF Sends
<1>2. v \in RankStates /\ l \in BankStates /\ k \in BankStates
  BY DEF Memories
<1>3. /\ n.rd = Sooner(k.rd) /\ n.wr = Sooner(k.wr) /\ n.act = Sooner(k.act)
      /\ n.state = k.state /\ n.last = k.last /\ n.row = k.row
  BY <1>2, AgedBank
<1>4. /\ r[d].rd = Sooner(v.rd) /\ r[d].wr = Sooner(v.wr) /\ r[d].act = Sooner(v.act)
      /\ r[d].state = v.state /\ r[d].row = v.row
      /\ r \in [Banks -> RankStates]
  <2>1. \A b \in Banks : m.rank[b] \in RankStates
    BY DEF Memories
  <2> QED BY <1>2, <2>1, AgedRank
<1>5. /\ v.rd \in Nat /\ v.wr \in Nat /\ v.act \in Nat
      /\ v.state = "Idle" \/ v.state = "RowActive"
      /\ l.rd \in Nat /\ l.wr \in Nat /\ l.act \in Nat
  BY <1>2, RankValues, BankValues
<1>6. Follows(v, l)
  OBVIOUS
<1>7. /\ tRFC \in Nat /\ tRC \in Nat /\ tRRD \in Nat /\ tRCD - AL \in Nat
      /\ READ_AUTOPRE_DELAY \in Nat /\ WRITE_AUTOPRE_DELAY \in Nat
      /\ WRITE_TO_READ_DELAY_B \in Nat /\ READ_TO_WRITE_DELAY \in Nat
      /\ ColumnToColumn \in Nat
  BY TimingType
<1>8. /\ v.act <= l.act + 1
      /\ Sooner(v.act) <= Sooner(l.act) + 1
      /\ \A e \in Nat : Larger(Sooner(v.act), e) <= Sooner(Larger(l.act, e)) + 1
  BY <1>5, <1>6, LateEnough DEF Follows
<1>9. Open(l) =>
        /\ Sooner(v.rd) <= Sooner(l.rd) + 1 /\ Sooner(v.wr) <= Sooner(l.wr) + 1
        /\ \A e \in Nat : /\ Larger(Sooner(v.rd), e) <= Sooner(Larger(l.rd, e)) + 1
                          /\ Larger(Sooner(v.wr), e) <= Sooner(Larger(l.wr, e)) + 1
  <2>1. Open(l) => v.rd <= l.rd + 1 /\ v.wr <= l.wr + 1
    BY <1>6 DEF Follows
  <2>2. v.rd <= l.rd + 1 =>
          /\ Sooner(v.rd) <= Sooner(l.rd) + 1
          /\ \A e \in Nat : Larger(Sooner(v.rd), e) <= Sooner(Larger(l.rd, e)) + 1
    BY <1>5, LateEnough
  <2>3. v.wr <= l.wr + 1 =>
          /\ Sooner(v.wr) <= Sooner(l.wr) + 1
          /\ \A e \in Nat : Larger(Sooner(v.wr), e) <= Sooner(Larger(l.wr, e)) + 1
    BY <1>5, LateEnough
  <2> QED BY <2>1, <2>2, <2>3
<1>10. CASE c.type = "REFRESH"
  <2>1. l.state # "RowActive"
    <3>1. Blocking(m) = {}
      BY <1>10, RefreshSent
    <3> QED BY <3>1 DEF Blocking
  <2>2. k.state = "Refreshing" /\ k.act = tRFC
    BY <1>1, <1>10, AfterBankFields
  <2>3. w.state = v.state /\ w.act = tRFC
    BY <1>1, <1>4, <1>10, RankBanksFields
  <2>4. w.state # "RowActive" /\ ~Open(n)
    BY <1>3, <1>6, <2>1, <2>2, <2>3 DEF Follows, Open
  <2>5. w.act <= n.act + 1
    BY <1>3, <1>7, <2>2, <2>3, CountedFirst
  <2> QED BY <2>4, <2>5 DEF Follows
<1>11. CASE c.type = "ACTIVATE" /\ d = BankOfCmd(c)
  <2>1. /\ k.state = "RowActive" /\ k.last = "ACTIVATE" /\ k.row = RowOfCmd(c)
        /\ k.act = Larger(l.act, tRC)
        /\ k.rd = Larger(l.rd, tRCD - AL) /\ k.wr = Larger(l.wr, tRCD - AL)
    BY <1>1, <1>11, AfterBankFields
  <2>2. /\ w.state = "RowActive" /\ w.row = RowOfCmd(c)
        /\ w.rd = tRCD - AL /\ w.wr = tRCD - AL /\ w.act = tRC
    <3>1. c.type = "ACTIVATE" /\ d = BankOfCmd(c) =>
            /\ w.state = "RowActive" /\ w.row = RowOfCmd(c)
            /\ w.rd = tRCD - AL /\ w.wr = tRCD - AL /\ w.act = tRC
      <4>1. w = RankBanks(r, c)[d]
        OBVIOUS
      <4>2. r \in [Banks -> RankStates] /\ c \in Commands /\ ValidCommand(c)
        BY <1>1, <1>4
      <4> HIDE DEF w
      <4>3. c.type = "ACTIVATE" /\ d = BankOfCmd(c) => w.state = "RowActive" /\ w.row = RowOfCmd(c)
        BY <4>1, <4>2, RankBanksFields
      <4>4. c.type = "ACTIVATE" /\ d = BankOfCmd(c) => w.rd = tRCD - AL
        BY <4>1, <4>2, RankBanksFields
      <4>5. c.type = "ACTIVATE" /\ d = BankOfCmd(c) => w.wr = tRCD - AL
        BY <4>1, <4>2, RankBanksFields
      <4>6. c.type = "ACTIVATE" /\ d = BankOfCmd(c) => w.act = tRC
        BY <4>1, <4>2, RankBanksFields
      <4> QED BY <4>3, <4>4, <4>5, <4>6
    <3> QED BY <1>11, <3>1
  <2>3. Open(n)
    BY <1>3, <2>1 DEF Open
  <2>4. /\ w.rd <= n.rd + 1 /\ w.wr <= n.wr + 1 /\ w.act <= n.act + 1
    BY <1>3, <1>5, <1>7, <2>1, <2>2, CountedFirst
  <2> QED BY <1>3, <2>1, <2>2, <2>3, <2>4 DEF Follows
<1>12. CASE c.type = "ACTIVATE" /\ d # BankOfCmd(c)
  <2>1. /\ k.state = l.state /\ k.last = l.last /\ k.row = l.row
        /\ k.rd = l.rd /\ k.wr = l.wr /\ k.act = Larger(l.act, tRRD)
    BY <1>1, <1>12, AfterBankFields
  <2>2. /\ w.state = v.state /\ w.row = v.row
        /\ w.rd = Sooner(v.rd) /\ w.wr = Sooner(v.wr)
        /\ w.act = Larger(Sooner(v.act), tRRD)
    BY <1>1, <1>4, <1>12, RankBanksFields
  <2>3. Open(n) <=> Open(l)
    BY <1>3, <2>1 DEF Open
  <2>4. w.act <= n.act + 1
    BY <1>3, <1>7, <1>8, <2>1, <2>2
  <2>5. Open(n) => w.row = n.row /\ w.rd <= n.rd + 1 /\ w.wr <= n.wr + 1
    BY <1>3, <1>6, <1>9, <2>1, <2>2, <2>3 DEF Follows
  <2>6. w.state = "RowActive" <=> Open(n)
    BY <1>6, <2>2, <2>3 DEF Follows
  <2> QED BY <2>4, <2>5, <2>6 DEF Follows
<1>13. CASE c.type \in {"READ_P", "WRITE_P"} /\ d = BankOfCmd(c)
  <2>1. /\ k.last = c.type
        /\ k.act = Larger(l.act, IF c.type = "READ_P" THEN READ_AUTOPRE_DELAY
                                 ELSE WRITE_AUTOPRE_DELAY)
    BY <1>1, <1>13, AfterBankFields
  <2>2. /\ w.state = "Idle"
        /\ w.act = Larger(Sooner(v.act), IF c.type = "READ_P" THEN READ_AUTOPRE_DELAY
                                         ELSE WRITE_AUTOPRE_DELAY)
    BY <1>1, <1>4, <1>13, RankBanksFields
  <2>3. ~Open(n)
    BY <1>3, <1>13, <2>1 DEF Open
  <2>4. w.act <= n.act + 1
    BY <1>3, <1>7, <1>8, <1>13, <2>1, <2>2
  <2> QED BY <2>2, <2>3, <2>4 DEF Follows
<1>14. CASE c.type \in {"READ_P", "WRITE_P"} /\ d # BankOfCmd(c)
  <2> DEFINE rd == IF c.type = "READ_P" THEN ColumnToColumn ELSE WRITE_TO_READ_DELAY_B
             wr == IF c.type = "READ_P" THEN READ_TO_WRITE_DELAY ELSE ColumnToColumn
  <2>1. /\ k.state = l.state /\ k.last = l.last /\ k.row = l.row
        /\ k.rd = Larger(l.rd, rd) /\ k.wr = Larger(l.wr, wr) /\ k.act = l.act
    BY <1>1, <1>14, AfterBankFields
  <2>2. /\ w.state = v.state /\ w.row = v.row
        /\ w.rd = Larger(Sooner(v.rd), rd) /\ w.wr = Larger(Sooner(v.wr), wr)
        /\ w.act = Sooner(v.act)
    <3>1. CASE c.type = "READ_P"
      BY <1>1, <1>4, <1>14, <3>1, RankBanksFields
    <3>2. CASE c.type = "WRITE_P"
      BY <1>1, <1>4, <1>14, <3>2, RankBanksFields
    <3> QED BY <1>14, <3>1, <3>2
  <2>3. rd \in Nat /\ wr \in Nat
    BY <1>7
  <2> HIDE DEF rd, wr
  <2>4. Open(n) <=> Open(l)
    BY <1>3, <2>1 DEF Open
  <2>5. w.act <= n.act + 1
    BY <1>3, <1>8, <2>1, <2>2
  <2>6. Open(n) => w.row = n.row /\ w.rd <= n.rd + 1 /\ w.wr <= n.wr + 1
    BY <1>3, <1>6, <1>9, <2>1, <2>2, <2>3, <2>4 DEF Follows
  <2>7. w.state = "RowActive" <=> Open(n)
    BY <1>6, <2>2, <2>4 DEF Follows
  <2> QED BY <2>5, <2>6, <2>7 DEF Follows
<1>15. c.type = "REFRESH" \/ c.type = "ACTIVATE" \/ c.type \in {"READ_P", "WRITE_P"}
  BY <1>1 DEF ValidCommand
<1> QED BY <1>10, <1>11, <1>12, <1>13, <1>14, <1>15, Zenon

LEMMA AgreementStep ==
  ASSUME hist \in Seq(Transactions), NEW s \in Memories, BusKept(s),
         s.cmd # NoCommand => ValidCommand(s.cmd), Agreement(s.rank, s.bank, s.cmd),
         NEW m \in Memories, m.rank = View(s.rank, s.cmd), m.cmd = NoCommand,
         m.bank = [b \in Banks |-> BankTick(s.bank[b])], QueuesShaped(m),
         NEW t \in Memories, t = m \/ \E c \in Commands : Sends(m, c, t),
         t.rank = m.rank,
         NEW u \in Memories, u.cmd = t.cmd,
         u.bank = [b \in Banks |-> Aged(t.bank[b])],
         u.rank = [b \in Banks |-> Aged(t.rank[b])]
  PROVE  Agreement(u.rank, u.bank, u.cmd)
<1>1. \A b \in Banks : Follows(m.rank[b], m.bank[b])
  <2> SUFFICES ASSUME NEW b \in Banks
               PROVE  Follows(m.rank[b], m.bank[b])
    OBVIOUS
  <2>1. Follows(m.rank[b], s.bank[b])
    BY DEF Agreement
  <2>2. s.bank[b] \in BankStates /\ WellClosed(s.bank[b])
    BY DEF Memories, BusKept
  <2>3. m.bank[b] = BankTick(s.bank[b])
    OBVIOUS
  <2>4. Open(m.bank[b]) <=> Open(s.bank[b])
    BY <2>2, <2>3, TickBase
  <2>5. /\ m.bank[b].row = s.bank[b].row /\ m.bank[b].rd = s.bank[b].rd
        /\ m.bank[b].wr = s.bank[b].wr /\ m.bank[b].act = s.bank[b].act
    BY <2>2, <2>3, BankTickType
  <2> QED BY <2>1, <2>4, <2>5 DEF Follows
<1>2. \A b \in Banks : m.rank[b] \in RankStates /\ m.bank[b] \in BankStates
  BY DEF Memories
<1>3. CASE t = m
  <2>1. \A b \in Banks : Follows(u.rank[b], u.bank[b])
    BY <1>1, <1>2, <1>3, FollowsAged
  <2>2. u.cmd = NoCommand /\ View(u.rank, u.cmd) = u.rank
    BY <1>3 DEF View
  <2> QED BY <2>1, <2>2 DEF Agreement
<1>4. ASSUME NEW c \in Commands, Sends(m, c, t)
      PROVE  Agreement(u.rank, u.bank, u.cmd)
  <2>1. u.cmd = c /\ ValidCommand(c)
    BY <1>4 DEF Sends
  <2>2. c # NoCommand
    BY <2>1 DEF ValidCommand, NoCommand
  <2>3. u.rank = [b \in Banks |-> Aged(m.rank[b])]
    OBVIOUS
  <2>4. RankAllows([rank |-> u.rank], c)
    BY <1>1, <1>4, <2>3, SentAllowed
  <2>5. \A b \in Banks : Follows(RankBanks(u.rank, c)[b], u.bank[b])
    BY <1>1, <1>4, <2>3, FollowsSent
  <2> QED BY <2>1, <2>2, <2>4, <2>5 DEF Agreement, View
<1> QED BY <1>3, <1>4


-----------------------------------------------------------------------------
\* The command queues keep their shape

LEMMA SameShape ==
  ASSUME NEW q, NEW k, NEW l, NEW b, QueueShape(q, k, b), Open(l) <=> Open(k), l.row = k.row
  PROVE  QueueShape(q, l, b)
BY DEF QueueShape

\* The first command is sent: an activate opens the bank and a column
\* command closes it.
LEMMA TailShape ==
  ASSUME NEW q \in Seq(Commands), NEW k, NEW b, QueueShape(q, k, b), q # <<>>,
         NEW l, Open(l) <=> q[1].type = "ACTIVATE", Open(l) => l.row = RowOfCmd(q[1])
  PROVE  QueueShape(Tail(q), l, b)
<1> DEFINE r == Tail(q)
<1>1. /\ r \in Seq(Commands) /\ DOMAIN r = 1 .. (Len(q) - 1)
      /\ \A j \in DOMAIN r : r[j] = q[j + 1]
      /\ 1 \in DOMAIN q /\ DOMAIN q = 1 .. Len(q) /\ Len(q) \in Nat /\ Len(r) = Len(q) - 1
  BY TailProperties
<1> HIDE DEF r
<1>2. \A j \in DOMAIN r : j \in DOMAIN q /\ j + 1 \in DOMAIN q /\ j \in Int /\ j >= 1
                          /\ r[j] = q[j + 1]
  BY <1>1
<1>3. \A i \in DOMAIN r : r[i].id \in DOMAIN hist /\ BankOfCmd(r[i]) = b
  BY <1>2 DEF QueueShape
<1>4. ASSUME NEW i \in DOMAIN r, r[i].type = "ACTIVATE"
      PROVE  i + 1 \in DOMAIN r /\ r[i + 1].id = r[i].id /\ r[i + 1].type # "ACTIVATE"
  <2>1. /\ (i + 1) + 1 \in DOMAIN q /\ q[(i + 1) + 1].id = q[i + 1].id
        /\ q[(i + 1) + 1].type # "ACTIVATE"
    BY <1>2, <1>4 DEF QueueShape
  <2>2. i + 1 \in DOMAIN r
    BY <1>1, <1>2, <2>1
  <2> QED BY <1>2, <2>1, <2>2
<1>5. ASSUME NEW i \in DOMAIN r, r[i].type # "ACTIVATE"
      PROVE  /\ r[i].type = Column(r[i].id)
             /\ i > 1 => r[i - 1].type = "ACTIVATE" /\ r[i - 1].id = r[i].id
  <2>1. /\ q[i + 1].type = Column(q[i + 1].id)
        /\ i + 1 > 1 => q[(i + 1) - 1].type = "ACTIVATE" /\ q[(i + 1) - 1].id = q[i + 1].id
    BY <1>2, <1>5 DEF QueueShape
  <2>2. (i + 1) - 1 = i /\ i + 1 > 1
    BY <1>2
  <2>3. i > 1 => i - 1 \in DOMAIN r /\ (i - 1) + 1 = i
    BY <1>1, <1>2
  <2> QED BY <1>2, <2>1, <2>2, <2>3
<1>6. r # <<>> => 1 \in DOMAIN r /\ 2 \in DOMAIN q /\ r[1] = q[2]
  BY <1>1
<1>7. q[1].type = "ACTIVATE" =>
        2 \in DOMAIN q /\ q[2].id = q[1].id /\ q[2].type # "ACTIVATE"
  <2>1. q[1].type = "ACTIVATE" =>
          1 + 1 \in DOMAIN q /\ q[1 + 1].id = q[1].id /\ q[1 + 1].type # "ACTIVATE"
    BY <1>1, Zenon DEF QueueShape
  <2> QED BY <2>1
<1>8. q[1].type # "ACTIVATE" /\ 2 \in DOMAIN q => q[2].type = "ACTIVATE"
  <2>1. 2 \in DOMAIN q /\ q[2].type # "ACTIVATE" => q[2 - 1].type = "ACTIVATE"
    BY DEF QueueShape
  <2> QED BY <2>1
<1>9. r # <<>> => (r[1].type = "ACTIVATE" <=> ~Open(l))
  BY <1>6, <1>7, <1>8
<1>10. Open(l) => r # <<>> /\ RowOfCmd(r[1]) = l.row
  <2>1. Open(l) => 2 \in DOMAIN q /\ q[2].id = q[1].id /\ l.row = RowOfCmd(q[1])
    BY <1>7
  <2>2. 2 \in DOMAIN q => r # <<>> /\ r[1] = q[2]
    BY <1>1
  <2> QED BY <2>1, <2>2 DEF RowOfCmd
<1>11. QueueShape(r, l, b)
  BY <1>3, <1>4, <1>5, <1>9, <1>10 DEF QueueShape
<1> QED BY <1>11 DEF r

LEMMA SentShape ==
  ASSUME hist \in Seq(Transactions), NEW m \in Memories, QueuesShaped(m),
         NEW t \in Memories, NEW c, Sends(m, c, t)
  PROVE  QueuesShaped(t)
<1>1. /\ c \in Commands /\ ValidCommand(c) /\ Chosen(m, c, t)
      /\ t.bank = BankStatesAfter(m, c)
  BY DEF Sends
<1> SUFFICES ASSUME NEW b \in Banks
             PROVE  QueueShape(t.queue[b], t.bank[b], b)
  BY DEF QueuesShaped
<1>2. /\ QueueShape(m.queue[b], m.bank[b], b) /\ m.queue[b] \in Seq(Commands)
      /\ m.queue \in [Banks -> Seq(Commands)]
  BY DEF QueuesShaped, Memories
<1>3. CASE c.type = "REFRESH"
  <2>1. t.queue[b] = m.queue[b]
    BY <1>3, RefreshSent
  <2>2. t.bank[b].state = "Refreshing" /\ t.bank[b].row = m.bank[b].row
    BY <1>1, <1>3, AfterBankFields
  <2>3. m.bank[b].state # "RowActive"
    <3>1. Blocking(m) = {}
      BY <1>3, RefreshSent
    <3> QED BY <3>1 DEF Blocking
  <2>4. Open(t.bank[b]) <=> Open(m.bank[b])
    BY <2>2, <2>3 DEF Open
  <2> QED BY <1>2, <2>1, <2>2, <2>4, SameShape
<1>4. CASE c.type # "REFRESH"
  <2>1. /\ BankOfCmd(c) \in Banks /\ m.queue[BankOfCmd(c)] # <<>>
        /\ c = m.queue[BankOfCmd(c)][1]
        /\ c.type \in {"ACTIVATE", "READ_P", "WRITE_P"}
        /\ t.queue = [m.queue EXCEPT ![BankOfCmd(c)] = Tail(@)]
    <3>1. /\ BankOfCmd(c) \in Banks /\ m.queue[BankOfCmd(c)] # <<>>
          /\ c = m.queue[BankOfCmd(c)][1]
          /\ c.type \in {"ACTIVATE", "READ_P", "WRITE_P"}
      BY <1>1, <1>4, HeadSent
    <3>2. t.queue = [m.queue EXCEPT ![BankOfCmd(c)] = Tail(@)]
      BY <1>1, <1>4, HeadSent
    <3> QED BY <3>1, <3>2
  <2>2. CASE b # BankOfCmd(c)
    <3>1. t.queue[b] = m.queue[b]
      BY <1>2, <2>1, <2>2
    <3>2. /\ t.bank[b].state = m.bank[b].state /\ t.bank[b].last = m.bank[b].last
          /\ t.bank[b].row = m.bank[b].row
      BY <1>1, <2>1, <2>2, AfterBankFields
    <3>3. Open(t.bank[b]) <=> Open(m.bank[b])
      BY <3>2 DEF Open
    <3> QED BY <1>2, <3>1, <3>2, <3>3, SameShape
  <2>3. CASE b = BankOfCmd(c)
    <3>1. t.queue[b] = Tail(m.queue[b]) /\ c = m.queue[b][1] /\ m.queue[b] # <<>>
      BY <1>2, <2>1, <2>3
    <3>2. CASE c.type = "ACTIVATE"
      <4>1. /\ t.bank[b].state = "RowActive" /\ t.bank[b].last = "ACTIVATE"
            /\ t.bank[b].row = RowOfCmd(c)
        BY <1>1, <2>3, <3>2, AfterBankFields
      <4>2. Open(t.bank[b])
        BY <4>1 DEF Open
      <4> QED BY <1>2, <3>1, <3>2, <4>1, <4>2, TailShape
    <3>3. CASE c.type \in {"READ_P", "WRITE_P"}
      <4>1. t.bank[b].last = c.type
        BY <1>1, <2>3, <3>3, AfterBankFields
      <4>2. ~Open(t.bank[b])
        BY <3>3, <4>1 DEF Open
      <4> QED BY <1>2, <3>1, <3>3, <4>2, TailShape
    <3> QED BY <2>1, <3>2, <3>3
  <2> QED BY <2>2, <2>3
<1> QED BY <1>3, <1>4


\* A transaction is added at the end of the queue of its bank.
LEMMA ConcatShape ==
  ASSUME hist \in Seq(Transactions), NEW q \in Seq(Commands), NEW k, NEW b,
         QueueShape(q, k, b), NEW id \in DOMAIN hist, b = BankOf(hist[id].addr),
         NEW r, r = q \o <<[type |-> "ACTIVATE", id |-> id],
                           [type |-> Column(id), id |-> id]>>
  PROVE  QueueShape(r, k, b)
<1> DEFINE x == [type |-> "ACTIVATE", id |-> id]
           y == [type |-> Column(id), id |-> id]
           n == Len(q)
<1>1. id \in Nat /\ Column(id) \in {"READ_P", "WRITE_P"}
  BY HistType DEF Column
<1>2. /\ x \in Commands /\ y \in Commands
      /\ x.id = id /\ y.id = id /\ x.type = "ACTIVATE" /\ y.type = Column(id)
      /\ y.type # "ACTIVATE"
  BY <1>1 DEF Commands
<1>3. /\ r \in Seq(Commands) /\ n \in Nat
      /\ DOMAIN r = 1 .. (n + 2) /\ DOMAIN q = 1 .. n
      /\ \A i \in 1 .. n : r[i] = q[i]
      /\ r[n + 1] = x /\ r[n + 2] = y
  BY <1>2, ConcatTwo
<1> HIDE DEF x, y, n
<1>4. BankOfCmd(x) = b /\ BankOfCmd(y) = b
  BY <1>2 DEF BankOfCmd
<1>5. \A i \in DOMAIN r : \/ i \in DOMAIN q /\ r[i] = q[i]
                          \/ i = n + 1 /\ r[i] = x
                          \/ i = n + 2 /\ r[i] = y
  <2>1. \A i \in DOMAIN r : i \in 1 .. n \/ i = n + 1 \/ i = n + 2
    <3>1. n \in Nat /\ DOMAIN r = 1 .. (n + 2)
      BY <1>3
    <3>2. \A i \in 1 .. (n + 2) : i \in 1 .. n \/ i = n + 1 \/ i = n + 2
      BY <3>1
    <3> QED BY <3>1, <3>2, Zenon
  <2> QED BY <1>3, <2>1
<1>6. \A i \in DOMAIN r : r[i].id \in DOMAIN hist /\ BankOfCmd(r[i]) = b
  BY <1>2, <1>4, <1>5 DEF QueueShape
<1>7. ASSUME NEW i \in DOMAIN r, r[i].type = "ACTIVATE"
      PROVE  i + 1 \in DOMAIN r /\ r[i + 1].id = r[i].id /\ r[i + 1].type # "ACTIVATE"
  <2>1. CASE i \in DOMAIN q /\ r[i] = q[i]
    <3>1. i + 1 \in DOMAIN q /\ q[i + 1].id = q[i].id /\ q[i + 1].type # "ACTIVATE"
      BY <1>7, <2>1 DEF QueueShape
    <3>2. r[i + 1] = q[i + 1] /\ i + 1 \in DOMAIN r
      BY <1>3, <3>1
    <3> QED BY <2>1, <3>1, <3>2
  <2>2. CASE i = n + 1 /\ r[i] = x
    <3>1. i + 1 = n + 2 /\ i + 1 \in DOMAIN r
      BY <1>3, <2>2
    <3> QED BY <1>2, <1>3, <2>2, <3>1
  <2>3. CASE i = n + 2 /\ r[i] = y
    BY <1>2, <1>7, <2>3
  <2> QED BY <1>5, <2>1, <2>2, <2>3
<1>8. ASSUME NEW i \in DOMAIN r, r[i].type # "ACTIVATE"
      PROVE  /\ r[i].type = Column(r[i].id)
             /\ i > 1 => r[i - 1].type = "ACTIVATE" /\ r[i - 1].id = r[i].id
  <2>1. CASE i \in DOMAIN q /\ r[i] = q[i]
    <3>1. /\ q[i].type = Column(q[i].id)
          /\ i > 1 => q[i - 1].type = "ACTIVATE" /\ q[i - 1].id = q[i].id
      BY <1>8, <2>1 DEF QueueShape
    <3>2. i > 1 => r[i - 1] = q[i - 1]
      <4>1. i > 1 => i - 1 \in 1 .. n
        BY <1>3, <2>1
      <4> QED BY <1>3, <4>1
    <3> QED BY <2>1, <3>1, <3>2
  <2>2. CASE i = n + 1 /\ r[i] = x
    BY <1>2, <1>8, <2>2
  <2>3. CASE i = n + 2 /\ r[i] = y
    <3>1. i - 1 = n + 1
      BY <1>3, <2>3
    <3> QED BY <1>2, <1>3, <2>3, <3>1
  <2> QED BY <1>5, <2>1, <2>2, <2>3
<1>9. r # <<>> /\ (q # <<>> => r[1] = q[1]) /\ (q = <<>> => r[1] = x)
  <2>1. q # <<>> => 1 \in 1 .. n
    BY <1>3, TailProperties
  <2>2. q = <<>> => n + 1 = 1
    BY DEF n
  <2>3. r # <<>>
    BY <1>3
  <2> QED BY <1>3, <2>1, <2>2, <2>3
<1>10. r # <<>> => (r[1].type = "ACTIVATE" <=> ~Open(k))
  BY <1>2, <1>9 DEF QueueShape
<1>11. Open(k) => r # <<>> /\ RowOfCmd(r[1]) = k.row
  BY <1>9 DEF QueueShape
<1> QED BY <1>6, <1>7, <1>8, <1>10, <1>11 DEF QueueShape

LEMMA ScheduledShape ==
  ASSUME hist \in Seq(Transactions), NEW s \in Memories, QueuesShaped(s),
         \A i \in DOMAIN s.transactionQueue : s.transactionQueue[i] \in DOMAIN hist,
         NEW t \in Memories, t.bank = s.bank, NEW i, Schedules(s, i, t)
  PROVE  QueuesShaped(t)
<1> DEFINE id == s.transactionQueue[i]
           b == BankOf(hist[id].addr)
<1>1. /\ i \in DOMAIN s.transactionQueue
      /\ t.queue = [s.queue EXCEPT ![b] =
           @ \o <<[type |-> "ACTIVATE", id |-> id], [type |-> Column(id), id |-> id]>>]
  BY Zenon DEF Schedules
<1>2. id \in DOMAIN hist
  BY <1>1
<1> HIDE DEF id
<1>3. b \in Banks
  BY <1>2, HistType
<1>4. s.queue \in [Banks -> Seq(Commands)]
  BY DEF Memories
<1> SUFFICES ASSUME NEW d \in Banks
             PROVE  QueueShape(t.queue[d], t.bank[d], d)
  BY DEF QueuesShaped
<1>5. QueueShape(s.queue[d], t.bank[d], d)
  BY DEF QueuesShaped
<1>6. CASE d # b
  <2>1. t.queue[d] = s.queue[d]
    BY <1>1, <1>4, <1>6
  <2> QED BY <1>5, <2>1
<1>7. CASE d = b
  <2>1. t.queue[d] = s.queue[d] \o <<[type |-> "ACTIVATE", id |-> id],
                                     [type |-> Column(id), id |-> id]>>
    BY <1>1, <1>4, <1>7
  <2>2. d = BankOf(hist[id].addr)
    BY <1>7
  <2> QED BY <1>2, <1>4, <1>5, <2>1, <2>2, ConcatShape
<1> QED BY <1>6, <1>7

LEMMA TickShape ==
  ASSUME NEW s \in Memories, QueuesShaped(s), BusKept(s),
         NEW t \in Memories, t.queue = s.queue,
         t.bank = [b \in Banks |-> BankTick(s.bank[b])]
  PROVE  QueuesShaped(t)
<1> SUFFICES ASSUME NEW b \in Banks
             PROVE  QueueShape(s.queue[b], BankTick(s.bank[b]), b)
  BY DEF QueuesShaped
<1>1. s.bank[b] \in BankStates /\ WellClosed(s.bank[b])
  BY DEF Memories, BusKept
<1>2. Open(BankTick(s.bank[b])) <=> Open(s.bank[b])
  BY <1>1, TickBase
<1>3. BankTick(s.bank[b]).row = s.bank[b].row
  BY <1>1, BankTickType
<1>4. QueueShape(s.queue[b], s.bank[b], b)
  BY DEF QueuesShaped
<1> QED BY <1>2, <1>3, <1>4, SameShape

LEMMA AgedShape ==
  ASSUME NEW s \in Memories, QueuesShaped(s),
         NEW t \in Memories, t.queue = s.queue,
         t.bank = [b \in Banks |-> Aged(s.bank[b])]
  PROVE  QueuesShaped(t)
<1> SUFFICES ASSUME NEW b \in Banks
             PROVE  QueueShape(s.queue[b], Aged(s.bank[b]), b)
  BY DEF QueuesShaped
<1>1. s.bank[b] \in BankStates
  BY DEF Memories
<1>2. /\ Aged(s.bank[b]).state = s.bank[b].state /\ Aged(s.bank[b]).last = s.bank[b].last
      /\ Aged(s.bank[b]).row = s.bank[b].row
  BY <1>1, AgedBank
<1>3. Open(Aged(s.bank[b])) <=> Open(s.bank[b])
  BY <1>2 DEF Open
<1>4. QueueShape(s.queue[b], s.bank[b], b)
  BY DEF QueuesShaped
<1> QED BY <1>2, <1>3, <1>4, SameShape


-----------------------------------------------------------------------------
\* Sequences without repetitions

LEMMA AppendElements ==
  ASSUME NEW S, NEW q \in Seq(S), NEW e \in S
  PROVE  /\ ToSet(Append(q, e)) = ToSet(q) \cup {e}
         /\ IsInjective(q) /\ e \notin ToSet(q) => IsInjective(Append(q, e))
<1>1. /\ DOMAIN Append(q, e) = 1 .. (Len(q) + 1) /\ DOMAIN q = 1 .. Len(q) /\ Len(q) \in Nat
      /\ \A i \in DOMAIN q : Append(q, e)[i] = q[i]
      /\ Append(q, e)[Len(q) + 1] = e
  BY LastProperties
<1>2. /\ \A i \in DOMAIN Append(q, e) : i \in DOMAIN q \/ i = Len(q) + 1
      /\ Len(q) + 1 \in DOMAIN Append(q, e)
      /\ \A i \in DOMAIN q : i \in DOMAIN Append(q, e)
  <2>1. /\ \A i \in 1 .. (Len(q) + 1) : i \in 1 .. Len(q) \/ i = Len(q) + 1
        /\ Len(q) + 1 \in 1 .. (Len(q) + 1)
        /\ \A i \in 1 .. Len(q) : i \in 1 .. (Len(q) + 1)
    BY <1>1
  <2> QED BY <1>1, <2>1, Zenon
<1> QED BY <1>1, <1>2 DEF ToSet, IsInjective

LEMMA RemoveAtElements ==
  ASSUME NEW S, NEW q \in Seq(S), IsInjective(q), NEW i \in DOMAIN q
  PROVE  /\ ToSet(RemoveAt(q, i)) = ToSet(q) \ {q[i]}
         /\ IsInjective(RemoveAt(q, i))
<1> DEFINE r == RemoveAt(q, i)
<1>1. /\ DOMAIN r = 1 .. (Len(q) - 1) /\ DOMAIN q = 1 .. Len(q) /\ Len(q) \in Nat
      /\ \A j \in 1 .. (Len(q) - 1) : r[j] = IF j < i THEN q[j] ELSE q[j + 1]
  BY RemoveAtProperties
<1> HIDE DEF r
<1>2. \A a, b \in DOMAIN q : q[a] = q[b] => a = b
  BY DEF IsInjective
<1>3. \A j \in DOMAIN r : \E k \in DOMAIN q : k # i /\ r[j] = q[k] /\ j = IF k < i THEN k ELSE k - 1
  <2>1. ASSUME NEW j \in DOMAIN r
        PROVE  \E k \in DOMAIN q : k # i /\ r[j] = q[k] /\ j = IF k < i THEN k ELSE k - 1
    <3>1. CASE j < i
      BY <1>1, <3>1
    <3>2. CASE ~(j < i)
      <4>1. j + 1 \in DOMAIN q /\ j + 1 # i /\ r[j] = q[j + 1] /\ ~(j + 1 < i) /\ j = (j + 1) - 1
        BY <1>1, <3>2
      <4> QED BY <4>1
    <3> QED BY <3>1, <3>2
  <2> QED BY <2>1
<1>4. \A k \in DOMAIN q : k # i => \E j \in DOMAIN r : r[j] = q[k]
  <2>1. ASSUME NEW k \in DOMAIN q, k # i
        PROVE  \E j \in DOMAIN r : r[j] = q[k]
    <3>1. CASE k < i
      <4>1. k \in DOMAIN r /\ r[k] = q[k]
        BY <1>1, <3>1
      <4> QED BY <4>1
    <3>2. CASE ~(k < i)
      <4>1. k - 1 \in DOMAIN r /\ ~(k - 1 < i) /\ (k - 1) + 1 = k
        BY <1>1, <2>1, <3>2
      <4>2. r[k - 1] = q[k]
        BY <1>1, <4>1
      <4> QED BY <4>1, <4>2
    <3> QED BY <3>1, <3>2
  <2> QED BY <2>1
<1>5. ToSet(r) = ToSet(q) \ {q[i]}
  <2>1. \A e \in ToSet(r) : e \in ToSet(q) /\ e # q[i]
    BY <1>2, <1>3 DEF ToSet
  <2>2. \A e \in ToSet(q) : e # q[i] => e \in ToSet(r)
    BY <1>4 DEF ToSet
  <2> QED BY <2>1, <2>2
<1>6. IsInjective(r)
  <2>1. ASSUME NEW a \in DOMAIN r, NEW b \in DOMAIN r, r[a] = r[b]
        PROVE  a = b
    BY <1>2, <1>3, <2>1
  <2> QED BY <2>1 DEF IsInjective
<1> QED BY <1>5, <1>6 DEF r

LEMMA TailElements ==
  ASSUME NEW S, NEW q \in Seq(S), IsInjective(q), q # <<>>
  PROVE  /\ ToSet(Tail(q)) = ToSet(q) \ {Head(q)} /\ Head(q) \in ToSet(q)
         /\ IsInjective(Tail(q))
<1>1. 1 \in DOMAIN q /\ Head(q) = q[1] /\ RemoveAt(q, 1) = Tail(q)
  BY TailProperties, RemoveAtHead
<1>2. ToSet(RemoveAt(q, 1)) = ToSet(q) \ {q[1]} /\ IsInjective(RemoveAt(q, 1))
  BY <1>1, RemoveAtElements
<1>3. q[1] \in ToSet(q)
  BY <1>1 DEF ToSet
<1> QED BY <1>1, <1>2, <1>3, Zenon

-----------------------------------------------------------------------------
\* The reads on their way

\* The read of transaction id is in place i of the queue of its bank.
Queued(s, id, i) ==
  \E d \in Banks : /\ i \in DOMAIN s.queue[d]
                   /\ s.queue[d][i] = [type |-> "READ_P", id |-> id]

(* It is in place p of all those on their way: what is returned is in place *)
(* 0, then come the data on the bus, the data the rank will send, the      *)
(* command on the bus and the queue of the bank.                           *)
At(s, id, p) ==
  \/ p = 0 /\ s.returning # <<>> /\ s.returning[1] = id
  \/ p = 1 /\ s.rankData.id = id
  \/ p - 1 \in DOMAIN s.reading /\ s.reading[p - 1].id = id
  \/ p = Len(s.reading) + 2 /\ s.cmd.type = "READ_P" /\ s.cmd.id = id
  \/ Queued(s, id, p - 2 - Len(s.reading))

InFlight(s) == {id \in Nat \ {None} : \E p \in Nat : At(s, id, p)}

\* A place of x is before a place of y.
Before(s, x, y) == \E p, q \in Nat : p < q /\ At(s, x, p) /\ At(s, y, q)

SameBank(x, y) == BankOf(hist[x].addr) = BankOf(hist[y].addr)

(* The pending reads are the ones on their way, each in one place, and     *)
(* those of a bank in their order.                                         *)
PendingKept(s) ==
  /\ ToSet(s.pendingRead) = InFlight(s)
  /\ \A m, n \in DOMAIN s.pendingRead :
       m <= n /\ SameBank(s.pendingRead[m], s.pendingRead[n]) =>
         ~Before(s, s.pendingRead[n], s.pendingRead[m])

\* What moves in order stays in order.
LEMMA InOrder ==
  ASSUME NEW s \in Memories, PendingKept(s),
         NEW t \in Memories, t.pendingRead = s.pendingRead, InFlight(t) = InFlight(s),
         \A x, y \in InFlight(s) : SameBank(x, y) /\ Before(t, x, y) => Before(s, x, y)
  PROVE  PendingKept(t)
<1>1. \A n \in DOMAIN s.pendingRead : s.pendingRead[n] \in InFlight(s)
  BY DEF PendingKept, ToSet
<1>2. ToSet(t.pendingRead) = InFlight(t)
  BY DEF PendingKept
<1>3. ASSUME NEW m \in DOMAIN s.pendingRead, NEW n \in DOMAIN s.pendingRead,
             m <= n, SameBank(s.pendingRead[m], s.pendingRead[n])
      PROVE  ~Before(t, s.pendingRead[n], s.pendingRead[m])
  <2>1. SameBank(s.pendingRead[n], s.pendingRead[m])
    BY <1>3 DEF SameBank
  <2>2. ~Before(s, s.pendingRead[n], s.pendingRead[m])
    BY <1>3 DEF PendingKept
  <2> QED BY <1>1, <2>1, <2>2
<1> QED BY <1>2, <1>3 DEF PendingKept


\* The reads the rank has left after a cycle are the ones it had, less the
\* one it sends.
LEMMA NextLeftIds ==
  ASSUME NEW q \in Seq(Packets), NEW r, r = NextLeft(q),
         NEW z \in {0, 1}, z = 1 <=> Ready(q)
  PROVE  /\ r \in Seq(Packets) /\ Len(r) \in Nat /\ Len(r) = Len(q) - z
         /\ DOMAIN r = 1 .. Len(r) /\ DOMAIN q = 1 .. Len(q) /\ Len(q) \in Nat
         /\ \A i \in DOMAIN r : i + z \in DOMAIN q /\ r[i].id = q[i + z].id
         /\ \A i \in DOMAIN q : i > z => i - z \in DOMAIN r /\ r[i - z].id = q[i].id
         /\ Ready(q) => 1 \in DOMAIN q /\ Head(Waiting(q)).id = q[1].id
<1> DEFINE w == Waiting(q)
<1>1. /\ w \in Seq(Packets) /\ Len(w) = Len(q) /\ Len(q) \in Nat
      /\ DOMAIN w = DOMAIN q /\ DOMAIN q = 1 .. Len(q)
      /\ \A i \in DOMAIN q : w[i].id = q[i].id
  BY WaitingProperties
<1>2. CASE Ready(q)
  <2>1. w # <<>> /\ r = Tail(w) /\ z = 1
    BY <1>2 DEF Ready, NextLeft
  <2> HIDE DEF w
  <2>2. /\ r \in Seq(Packets) /\ Len(r) = Len(w) - 1 /\ DOMAIN r = 1 .. (Len(w) - 1)
        /\ \A j \in 1 .. (Len(w) - 1) : r[j] = w[j + 1]
        /\ 1 \in DOMAIN w /\ Head(w) = w[1]
    BY <1>1, <2>1, TailProperties
  <2>3. \A i \in DOMAIN r : i + 1 \in DOMAIN q /\ r[i].id = q[i + 1].id
    BY <1>1, <2>2
  <2>4. \A i \in DOMAIN q : i > 1 => i - 1 \in DOMAIN r /\ (i - 1) + 1 = i
    BY <1>1, <2>2
  <2> QED BY <1>1, <1>2, <2>1, <2>2, <2>3, <2>4 DEF w
<1>3. CASE ~Ready(q)
  <2>1. r = w /\ z = 0
    BY <1>3 DEF NextLeft
  <2>2. \A i \in DOMAIN q : i + 0 = i /\ i - 0 = i
    BY <1>1
  <2> HIDE DEF w
  <2> QED BY <1>1, <1>3, <2>1, <2>2
<1> QED BY <1>2, <1>3

\* The data the rank has sent is returned.
Returned(s, m) ==
  /\ m.queue = s.queue
  /\ m.returning = IF s.rankData.id # None /\ s.rankData.left = 1
                     THEN <<s.rankData.id>> ELSE <<>>

LEMMA NextReading ==
  ASSUME NEW q \in Seq(Packets), NEW z \in {0, 1}, z = 1 <=> Ready(q),
         NEW e \in Packets, NEW f, f = Append(NextLeft(q), e)
  PROVE  /\ Len(f) \in Nat /\ Len(f) = Len(q) - z + 1 /\ Len(q) \in Nat
         /\ DOMAIN f = 1 .. Len(f) /\ Len(f) \in DOMAIN f
         /\ \A i \in DOMAIN f : \/ i + z \in DOMAIN q /\ f[i].id = q[i + z].id
                                \/ i = Len(f) /\ f[i].id = e.id
         /\ \A i \in DOMAIN q : i > z => i - z \in DOMAIN f /\ f[i - z].id = q[i].id
         /\ f[Len(f)] = e
<1> DEFINE r == NextLeft(q)
<1>1. /\ r \in Seq(Packets) /\ Len(r) \in Nat /\ Len(r) = Len(q) - z
      /\ DOMAIN r = 1 .. Len(r) /\ DOMAIN q = 1 .. Len(q) /\ Len(q) \in Nat
      /\ \A i \in DOMAIN r : i + z \in DOMAIN q /\ r[i].id = q[i + z].id
      /\ \A i \in DOMAIN q : i > z => i - z \in DOMAIN r /\ r[i - z].id = q[i].id
  BY NextLeftIds
<1> HIDE DEF r
<1>2. f = Append(r, e)
  BY DEF r
<1>3. /\ Len(f) = Len(r) + 1 /\ DOMAIN f = 1 .. (Len(r) + 1)
      /\ \A i \in DOMAIN r : f[i] = r[i]
      /\ f[Len(r) + 1] = e
  BY <1>1, <1>2, LastProperties
<1>4. /\ \A i \in DOMAIN f : i \in DOMAIN r \/ i = Len(r) + 1
      /\ \A i \in DOMAIN r : i \in DOMAIN f
      /\ Len(r) + 1 \in DOMAIN f
  <2>1. /\ \A i \in 1 .. (Len(r) + 1) : i \in 1 .. Len(r) \/ i = Len(r) + 1
        /\ \A i \in 1 .. Len(r) : i \in 1 .. (Len(r) + 1)
        /\ Len(r) + 1 \in 1 .. (Len(r) + 1)
    BY <1>1
  <2> QED BY <1>1, <1>3, <2>1, Zenon
<1>5. z \in {0, 1}
  OBVIOUS
<1>6. Len(f) \in Nat /\ Len(f) = Len(q) - z + 1 /\ DOMAIN f = 1 .. Len(f)
  BY <1>1, <1>3, <1>5
<1> QED BY <1>1, <1>3, <1>4, <1>6

(* The reads of the rank in m were in s: z counts the one it has sent, c   *)
(* the one it has received.                                                *)
Shifted(s, m, z, c) ==
  /\ Len(s.reading) \in Nat /\ Len(m.reading) \in Nat
  /\ Len(m.reading) = Len(s.reading) - z + c
  /\ DOMAIN s.reading = 1 .. Len(s.reading) /\ DOMAIN m.reading = 1 .. Len(m.reading)
  /\ \A i \in DOMAIN m.reading :
       \/ i + z \in DOMAIN s.reading /\ m.reading[i].id = s.reading[i + z].id
       \/ i = Len(m.reading) /\ c = 1 /\ m.reading[i].id = s.cmd.id
  /\ \A i \in DOMAIN s.reading :
       i > z => i - z \in DOMAIN m.reading /\ m.reading[i - z].id = s.reading[i].id
  /\ c = 1 => Len(m.reading) \in DOMAIN m.reading /\ m.reading[Len(m.reading)].id = s.cmd.id
  /\ z = 1 => 1 \in DOMAIN s.reading /\ m.rankData.id = s.reading[1].id

LEMMA ReadingMoved ==
  ASSUME NEW s \in Memories, NEW m \in Memories, Moved(s, m),
         NEW z \in {0, 1}, z = 1 <=> Ready(s.reading),
         NEW c \in {0, 1}, c = 1 <=> s.cmd.type = "READ_P"
  PROVE  Shifted(s, m, z, c)
<1>1. PICK q \in Seq(Packets) : q = s.reading
  BY DEF Memories
<1>2. PICK f : f = m.reading
  OBVIOUS
<1>3. /\ DOMAIN q = 1 .. Len(q) /\ Len(q) \in Nat
      /\ Ready(q) => 1 \in DOMAIN q /\ Head(Waiting(q)).id = q[1].id
  BY <1>1, NextLeftIds
<1>4. z = 1 => 1 \in DOMAIN q /\ m.rankData.id = q[1].id
  <2>1. z = 1 => Ready(q)
    BY <1>1
  <2>2. Ready(q) => m.rankData = [id |-> Head(Waiting(q)).id, left |-> Burst]
    BY <1>1 DEF Moved, NextOn
  <2> QED BY <1>3, <2>1, <2>2
<1>5. z = 1 <=> Ready(q)
  BY <1>1
<1>6. CASE c = 0
  <2>1. f = NextLeft(q) /\ c # 1
    BY <1>1, <1>2, <1>6 DEF Moved
  <2>2. /\ Len(f) \in Nat /\ Len(f) = Len(q) - z
        /\ DOMAIN f = 1 .. Len(f)
        /\ \A i \in DOMAIN f : i + z \in DOMAIN q /\ f[i].id = q[i + z].id
        /\ \A i \in DOMAIN q : i > z => i - z \in DOMAIN f /\ f[i - z].id = q[i].id
    BY <1>5, <2>1, NextLeftIds
  <2>3. Len(f) = Len(q) - z + c
    BY <1>3, <1>5, <1>6, <2>2
  <2> QED BY <1>1, <1>2, <1>3, <1>4, <2>1, <2>2, <2>3 DEF Shifted
<1>7. CASE c = 1
  <2>1. PICK e \in Packets : e = [id |-> s.cmd.id, left |-> RL]
    <3>1. RL \in Int /\ s.cmd.id \in Nat
      BY TimingType DEF Memories, Commands
    <3> QED BY <3>1 DEF Packets
  <2>2. f = Append(NextLeft(q), e) /\ e.id = s.cmd.id
    BY <1>1, <1>2, <1>7, <2>1 DEF Moved
  <2>3. /\ Len(f) \in Nat /\ Len(f) = Len(q) - z + 1
        /\ DOMAIN f = 1 .. Len(f) /\ Len(f) \in DOMAIN f
        /\ \A i \in DOMAIN f : \/ i + z \in DOMAIN q /\ f[i].id = q[i + z].id
                               \/ i = Len(f) /\ f[i].id = e.id
        /\ \A i \in DOMAIN q : i > z => i - z \in DOMAIN f /\ f[i - z].id = q[i].id
        /\ f[Len(f)] = e
    <3>1. f = Append(NextLeft(q), e)
      BY <2>2
    <3>2. Len(f) \in Nat /\ Len(f) = Len(q) - z + 1
      BY <1>5, <3>1, NextReading
    <3>3. DOMAIN f = 1 .. Len(f) /\ Len(f) \in DOMAIN f
      BY <1>5, <3>1, NextReading
    <3>4. \A i \in DOMAIN f : \/ i + z \in DOMAIN q /\ f[i].id = q[i + z].id
                              \/ i = Len(f) /\ f[i].id = e.id
      <4>1. ASSUME NEW i \in DOMAIN f, i # Len(f)
            PROVE  i + z \in DOMAIN q /\ f[i].id = q[i + z].id
        BY <1>5, <3>1, <4>1, NextReading
      <4>2. f[Len(f)].id = e.id
        BY <1>5, <3>1, NextReading
      <4> QED BY <4>1, <4>2
    <3>5. ASSUME NEW i \in DOMAIN q, i > z
          PROVE  i - z \in DOMAIN f /\ f[i - z].id = q[i].id
      <4>1. \A j \in DOMAIN q : j > z => j - z \in DOMAIN f /\ f[j - z].id = q[j].id
        BY <1>5, <3>1, NextReading, SMTT(30)
      <4> QED BY <3>5, <4>1
    <3>6. f[Len(f)] = e
      BY <1>5, <3>1, NextReading
    <3> QED BY <3>2, <3>3, <3>4, <3>5, <3>6
  <2> QED BY <1>1, <1>2, <1>3, <1>4, <1>7, <2>2, <2>3 DEF Shifted
<1> QED BY <1>6, <1>7


\* Where the reads of m were when everything was about to move.
LEMMA MovedAt ==
  ASSUME NEW s \in Memories, NEW m \in Memories, Moved(s, m), Returned(s, m),
         NEW z \in {0, 1}, z = 1 <=> Ready(s.reading),
         NEW c \in {0, 1}, c = 1 <=> s.cmd.type = "READ_P",
         NEW x \in Nat \ {None}, NEW p \in Nat, At(m, x, p)
  PROVE  \/ p = 0 /\ Idle(s.rankData) /\ At(s, x, 1)
         \/ /\ p >= 1 /\ p <= Len(m.reading) + 1 /\ At(s, x, p + z)
            /\ p = 1 => z = 1 \/ ~Idle(s.rankData)
         \/ p > Len(m.reading) + 2 /\ At(s, x, p + z - c)
<1>0. Shifted(s, m, z, c)
  BY ReadingMoved, Zenon
<1>1. /\ Len(s.reading) \in Nat /\ Len(m.reading) \in Nat
      /\ Len(m.reading) = Len(s.reading) - z + c
      /\ DOMAIN s.reading = 1 .. Len(s.reading) /\ DOMAIN m.reading = 1 .. Len(m.reading)
      /\ \A i \in DOMAIN m.reading :
           \/ i + z \in DOMAIN s.reading /\ m.reading[i].id = s.reading[i + z].id
           \/ i = Len(m.reading) /\ c = 1 /\ m.reading[i].id = s.cmd.id
      /\ z = 1 => 1 \in DOMAIN s.reading /\ m.rankData.id = s.reading[1].id
  BY <1>0 DEF Shifted
<1>2. CASE p = 0 /\ m.returning # <<>> /\ m.returning[1] = x
  <2>1. s.rankData.id = x /\ s.rankData.left = 1
    BY <1>2 DEF Returned
  <2> QED BY <1>2, <2>1 DEF At, Idle
<1>3. CASE p = 1 /\ m.rankData.id = x
  <2>1. CASE z = 1
    <3>1. 2 - 1 = 1 /\ p + z = 2
      BY <1>3, <2>1
    <3>2. At(s, x, 2)
      BY <1>1, <1>3, <2>1, <3>1 DEF At
    <3> QED BY <1>1, <1>3, <2>1, <3>1, <3>2
  <2>2. CASE z = 0
    <3>1. m.rankData = IF Idle(s.rankData) THEN [id |-> None, left |-> 0]
                       ELSE [id |-> s.rankData.id, left |-> s.rankData.left - 1]
      BY <2>2 DEF Moved, NextOn
    <3>2. ~Idle(s.rankData)
      BY <1>3, <3>1
    <3>3. s.rankData.id = x
      BY <1>3, <3>1, <3>2
    <3>4. At(s, x, 1) /\ p + z = 1
      BY <1>3, <2>2, <3>3 DEF At
    <3> QED BY <1>1, <1>3, <3>2, <3>4
  <2> QED BY <2>1, <2>2
<1>4. CASE p - 1 \in DOMAIN m.reading /\ m.reading[p - 1].id = x
  <2>1. p >= 2 /\ p <= Len(m.reading) + 1
    BY <1>1, <1>4
  <2>2. CASE (p - 1) + z \in DOMAIN s.reading /\ m.reading[p - 1].id = s.reading[(p - 1) + z].id
    <3>1. (p + z) - 1 = (p - 1) + z
      OBVIOUS
    <3>2. At(s, x, p + z)
      BY <1>4, <2>2, <3>1 DEF At
    <3> QED BY <2>1, <3>2
  <2>3. CASE p - 1 = Len(m.reading) /\ c = 1 /\ m.reading[p - 1].id = s.cmd.id
    <3>1. p + z = Len(s.reading) + 2
      BY <1>1, <2>3
    <3>2. At(s, x, p + z)
      BY <1>4, <2>3, <3>1 DEF At
    <3> QED BY <2>1, <3>2
  <2> QED BY <1>1, <1>4, <2>2, <2>3
<1>5. CASE p = Len(m.reading) + 2 /\ m.cmd.type = "READ_P" /\ m.cmd.id = x
  <2>1. m.cmd = NoCommand
    BY DEF Moved
  <2> QED BY <1>5, <2>1 DEF NoCommand
<1>6. CASE Queued(m, x, p - 2 - Len(m.reading))
  <2>1. m.queue = s.queue /\ \A d \in Banks : m.queue[d] \in Seq(Commands)
    BY DEF Returned, Memories
  <2>2. \A d \in Banks : \A i \in DOMAIN m.queue[d] : i \in Nat /\ i >= 1
    BY <2>1
  <2>3. p - 2 - Len(m.reading) >= 1
    BY <1>6, <2>2 DEF Queued
  <2>4. (p + z - c) - 2 - Len(s.reading) = p - 2 - Len(m.reading)
    BY <1>1
  <2>5. Queued(s, x, (p + z - c) - 2 - Len(s.reading))
    BY <1>6, <2>1, <2>4, Zenon DEF Queued
  <2>6. At(s, x, p + z - c)
    BY <2>5, Zenon DEF At
  <2>7. p > Len(m.reading) + 2
    <3>1. \A k \in Nat : p - 2 - k >= 1 => p > k + 2
      OBVIOUS
    <3> QED BY <1>1, <2>3, <3>1, Zenon
  <2> QED BY <2>6, <2>7
<1> QED BY <1>2, <1>3, <1>4, <1>5, <1>6 DEF At

\* No read is lost.
LEMMA MovedOn ==
  ASSUME NEW s \in Memories, BusKept(s), s.returning = <<>>,
         NEW m \in Memories, Moved(s, m), Returned(s, m),
         NEW z \in {0, 1}, z = 1 <=> Ready(s.reading),
         NEW c \in {0, 1}, c = 1 <=> s.cmd.type = "READ_P",
         NEW x \in Nat \ {None}, NEW p \in Nat, At(s, x, p)
  PROVE  \E q \in Nat : At(m, x, q)
<1>0. Shifted(s, m, z, c)
  BY ReadingMoved, Zenon
<1>1. /\ Len(s.reading) \in Nat /\ Len(m.reading) \in Nat
      /\ Len(m.reading) = Len(s.reading) - z + c
      /\ DOMAIN s.reading = 1 .. Len(s.reading) /\ DOMAIN m.reading = 1 .. Len(m.reading)
      /\ \A i \in DOMAIN s.reading :
           i > z => i - z \in DOMAIN m.reading /\ m.reading[i - z].id = s.reading[i].id
      /\ c = 1 => Len(m.reading) \in DOMAIN m.reading /\ m.reading[Len(m.reading)].id = s.cmd.id
      /\ z = 1 => 1 \in DOMAIN s.reading /\ m.rankData.id = s.reading[1].id
  BY <1>0 DEF Shifted
<1>2. CASE p = 1 /\ s.rankData.id = x
  <2>1. CASE s.rankData.left = 1
    <3>1. m.returning = <<x>>
      BY <1>2, <2>1 DEF Returned
    <3>2. At(m, x, 0)
      BY <3>1 DEF At
    <3> QED BY <3>2
  <2>2. CASE s.rankData.left # 1
    <3>1. ~Idle(s.rankData)
      BY <1>2, <2>2 DEF Idle
    <3>2. ~Ready(s.reading)
      <4>1. /\ s.rankData \in Packets /\ s.reading \in Seq(Packets)
            /\ Lane(s.rankData, s.reading)
        BY DEF Memories, BusKept
      <4> QED BY <3>1, <4>1, LaneNext
    <3>3. m.rankData = [id |-> s.rankData.id, left |-> s.rankData.left - 1]
      BY <3>1, <3>2 DEF Moved, NextOn
    <3>4. At(m, x, 1)
      BY <1>2, <3>3 DEF At
    <3> QED BY <3>4
  <2> QED BY <2>1, <2>2
<1>3. CASE p - 1 \in DOMAIN s.reading /\ s.reading[p - 1].id = x
  <2>1. CASE p - 1 > z
    <3>1. (p - z) - 1 = (p - 1) - z /\ p - z \in Nat
      BY <2>1
    <3>2. At(m, x, p - z)
      BY <1>1, <1>3, <2>1, <3>1 DEF At
    <3> QED BY <3>1, <3>2
  <2>2. CASE ~(p - 1 > z)
    <3>1. p - 1 = 1 /\ z = 1
      BY <1>1, <1>3, <2>2
    <3>2. At(m, x, 1)
      BY <1>1, <1>3, <3>1 DEF At
    <3> QED BY <3>2
  <2> QED BY <2>1, <2>2
<1>4. CASE p = Len(s.reading) + 2 /\ s.cmd.type = "READ_P" /\ s.cmd.id = x
  <2>1. (Len(m.reading) + 1) - 1 = Len(m.reading)
    BY <1>1
  <2>2. At(m, x, Len(m.reading) + 1)
    BY <1>1, <1>4, <2>1 DEF At
  <2> QED BY <1>1, <2>2
<1>5. CASE Queued(s, x, p - 2 - Len(s.reading))
  <2>1. m.queue = s.queue /\ \A d \in Banks : s.queue[d] \in Seq(Commands)
    BY DEF Returned, Memories
  <2>2. \A d \in Banks : \A i \in DOMAIN s.queue[d] : i \in Nat /\ i >= 1
    BY <2>1
  <2>3. p - 2 - Len(s.reading) >= 1
    BY <1>5, <2>2 DEF Queued
  <2>4. (p - z + c) - 2 - Len(m.reading) = p - 2 - Len(s.reading)
    <3>1. \A n, k \in Nat : k = n - z + c => (p - z + c) - 2 - k = p - 2 - n
      OBVIOUS
    <3> QED BY <1>1, <3>1, Zenon
  <2>5. Queued(m, x, (p - z + c) - 2 - Len(m.reading))
    BY <1>5, <2>1, <2>4, Zenon DEF Queued
  <2>6. At(m, x, p - z + c)
    BY <2>5, Zenon DEF At
  <2>7. p - z + c \in Nat
    BY <1>1, <2>3
  <2> QED BY <2>6, <2>7
<1> QED BY <1>2, <1>3, <1>4, <1>5 DEF At

LEMMA PendingMoved ==
  ASSUME NEW s \in Memories, PendingKept(s), BusKept(s), s.returning = <<>>,
         NEW m \in Memories, Moved(s, m), Returned(s, m), m.pendingRead = s.pendingRead
  PROVE  PendingKept(m)
<1>1. PICK z \in {0, 1} : z = 1 <=> Ready(s.reading)
  <2>1. (IF Ready(s.reading) THEN 1 ELSE 0) \in {0, 1}
    OBVIOUS
  <2> QED BY <2>1
<1>2. PICK c \in {0, 1} : c = 1 <=> s.cmd.type = "READ_P"
  <2>1. (IF s.cmd.type = "READ_P" THEN 1 ELSE 0) \in {0, 1}
    OBVIOUS
  <2> QED BY <2>1
<1>3. PICK k \in Nat, l \in Nat : k = Len(m.reading) /\ l = Len(s.reading) /\ k = l - z + c
  <2>1. Shifted(s, m, z, c)
    BY <1>1, <1>2, ReadingMoved, Zenon
  <2> QED BY <2>1 DEF Shifted
<1> DEFINE From(p, u) == \/ p = 0 /\ Idle(s.rankData) /\ u = 1
                         \/ /\ p >= 1 /\ p <= k + 1 /\ u = p + z
                            /\ p = 1 => z = 1 \/ ~Idle(s.rankData)
                         \/ p > k + 2 /\ u = p + z - c
<1>4. ASSUME NEW x \in Nat \ {None}, NEW p \in Nat, At(m, x, p)
      PROVE  \E u \in Nat : From(p, u) /\ At(s, x, u)
  <2>1. \/ p = 0 /\ Idle(s.rankData) /\ At(s, x, 1)
        \/ /\ p >= 1 /\ p <= k + 1 /\ At(s, x, p + z)
           /\ p = 1 => z = 1 \/ ~Idle(s.rankData)
        \/ p > k + 2 /\ At(s, x, p + z - c)
    BY <1>1, <1>2, <1>3, <1>4, MovedAt, Zenon
  <2>2. p + z \in Nat /\ 1 \in Nat /\ (p > k + 2 => p + z - c \in Nat)
    OBVIOUS
  <2>3. CASE p = 0 /\ Idle(s.rankData) /\ At(s, x, 1)
    BY <2>2, <2>3, Zenon
  <2>4. CASE /\ p >= 1 /\ p <= k + 1 /\ At(s, x, p + z)
             /\ p = 1 => z = 1 \/ ~Idle(s.rankData)
    BY <2>2, <2>4, Zenon
  <2>5. CASE p > k + 2 /\ At(s, x, p + z - c)
    BY <2>2, <2>5, Zenon
  <2> QED BY <2>1, <2>3, <2>4, <2>5, Zenon
<1>5. ASSUME NEW p \in Nat, NEW q \in Nat, p < q, NEW u \in Nat, From(p, u),
             NEW v \in Nat, From(q, v)
      PROVE  u < v
  <2>1. CASE p = 0
    <3>1. CASE q >= 1 /\ q <= k + 1 /\ v = q + z
      BY <1>5, <2>1, <3>1
    <3>2. CASE q > k + 2 /\ v = q + z - c
      <4>1. u = 1
        BY <1>5, <2>1
      <4>2. k = l - z + c
        BY <1>3
      <4> HIDE DEF From
      <4> QED BY <3>2, <4>1, <4>2
    <3> QED BY <1>5, <2>1, <3>1, <3>2
  <2>2. CASE p >= 1 /\ p <= k + 1 /\ u = p + z
    <3>1. CASE v = q + z
      BY <1>5, <2>2, <3>1
    <3>2. CASE q > k + 2 /\ v = q + z - c
      BY <1>5, <2>2, <3>2
    <3> QED BY <1>5, <2>2, <3>1, <3>2
  <2>3. CASE p > k + 2 /\ u = p + z - c
    <3>1. q > k + 2 /\ v = q + z - c
      BY <1>5, <2>3
    <3> QED BY <1>5, <2>3, <3>1
  <2> QED BY <1>5, <2>1, <2>2, <2>3
<1> HIDE DEF From
<1>6. InFlight(m) = InFlight(s)
  <2>1. ASSUME NEW x \in InFlight(m)
        PROVE  x \in InFlight(s)
    <3>1. x \in Nat \ {None} /\ \E p \in Nat : At(m, x, p)
      BY DEF InFlight
    <3> QED BY <1>4, <3>1 DEF InFlight
  <2>2. ASSUME NEW x \in InFlight(s)
        PROVE  x \in InFlight(m)
    <3>1. x \in Nat \ {None} /\ \E p \in Nat : At(s, x, p)
      BY DEF InFlight
    <3>2. \E p \in Nat : At(m, x, p)
      BY <1>1, <1>2, <3>1, MovedOn, Zenon
    <3> QED BY <3>1, <3>2 DEF InFlight
  <2> QED BY <2>1, <2>2
<1>7. ASSUME NEW x \in InFlight(s), NEW y \in InFlight(s), Before(m, x, y)
      PROVE  Before(s, x, y)
  <2>1. x \in Nat \ {None} /\ y \in Nat \ {None}
    BY DEF InFlight
  <2>2. PICK p \in Nat, q \in Nat : p < q /\ At(m, x, p) /\ At(m, y, q)
    BY <1>7 DEF Before
  <2>3. PICK u \in Nat : From(p, u) /\ At(s, x, u)
    BY <1>4, <2>1, <2>2, Zenon
  <2>4. PICK v \in Nat : From(q, v) /\ At(s, y, v)
    BY <1>4, <2>1, <2>2, Zenon
  <2>5. u < v
    BY <1>5, <2>2, <2>3, <2>4, Zenon
  <2> QED BY <2>3, <2>4, <2>5 DEF Before
<1> QED BY <1>6, <1>7, InOrder, Zenon

-----------------------------------------------------------------------------
\* The controller sends a command: what is in its queue moves up

LEMMA QueuePlace ==
  ASSUME NEW s \in Memories, NEW d \in Banks, NEW i \in DOMAIN s.queue[d]
  PROVE  i \in Nat /\ i >= 1
<1>1. PICK q \in Seq(Commands) : q = s.queue[d]
  BY DEF Memories
<1> QED BY <1>1

LEMMA QueuedBank ==
  ASSUME NEW s \in Memories, QueuesShaped(s), NEW d \in Banks, NEW x \in Nat,
         NEW i \in DOMAIN s.queue[d], s.queue[d][i] = [type |-> "READ_P", id |-> x]
  PROVE  BankOf(hist[x].addr) = d /\ x \in DOMAIN hist /\ i \in Nat /\ i >= 1
<1>1. s.queue[d] \in Seq(Commands)
  BY DEF Memories
<1>2. i \in Nat /\ i >= 1
  BY <1>1
<1>3. s.queue[d][i].id = x
  OBVIOUS
<1>4. BankOfCmd(s.queue[d][i]) = d /\ s.queue[d][i].id \in DOMAIN hist
  BY DEF QueuesShaped, QueueShape
<1>5. BankOf(hist[x].addr) = d
  BY <1>3, <1>4, Zenon DEF BankOfCmd
<1> QED BY <1>2, <1>3, <1>4, <1>5, Zenon

LEMMA SentQueued ==
  ASSUME hist \in Seq(Transactions), NEW m \in Memories, QueuesShaped(m),
         NEW t \in Memories, NEW c, Sends(m, c, t), c.type # "REFRESH", NEW x \in Nat
  PROVE  /\ \A i \in Nat : Queued(t, x, i) =>
              IF BankOf(hist[x].addr) = BankOfCmd(c) THEN Queued(m, x, i + 1)
              ELSE Queued(m, x, i)
         /\ \A i \in Nat : Queued(m, x, i) =>
              \/ Queued(t, x, i)
              \/ i >= 1 /\ Queued(t, x, i - 1)
              \/ i = 1 /\ c.type = "READ_P" /\ c.id = x
         /\ c.type = "READ_P" /\ c.id = x =>
              Queued(m, x, 1) /\ BankOf(hist[x].addr) = BankOfCmd(c)
<1>0. /\ BankOfCmd(c) \in Banks /\ m.queue[BankOfCmd(c)] # <<>>
      /\ c = m.queue[BankOfCmd(c)][1] /\ c.id \in DOMAIN hist
      /\ t.queue = [m.queue EXCEPT ![BankOfCmd(c)] = Tail(@)]
  <2>1. c \in Commands /\ Chosen(m, c, t)
    BY DEF Sends
  <2>2. /\ BankOfCmd(c) \in Banks /\ m.queue[BankOfCmd(c)] # <<>>
        /\ c = m.queue[BankOfCmd(c)][1] /\ c.id \in DOMAIN hist
    BY <2>1, HeadSent
  <2>3. t.queue = [m.queue EXCEPT ![BankOfCmd(c)] = Tail(@)]
    BY <2>1, HeadSent
  <2> QED BY <2>2, <2>3
<1>1. PICK b \in Banks : b = BankOfCmd(c)
  BY <1>0
<1>2. PICK q \in Seq(Commands) : q = m.queue[b]
  BY DEF Memories
<1>3. /\ q # <<>> /\ c = q[1] /\ c.id \in DOMAIN hist
      /\ t.queue = [m.queue EXCEPT ![b] = Tail(@)]
  BY <1>0, <1>1, <1>2
<1>4. /\ t.queue[b] = Tail(q)
      /\ \A d \in Banks : d # b => t.queue[d] = m.queue[d]
  <2>1. m.queue \in [Banks -> Seq(Commands)]
    BY DEF Memories
  <2> QED BY <1>2, <1>3, <2>1
<1>5. /\ Len(q) \in Nat /\ DOMAIN q = 1 .. Len(q) /\ 1 \in DOMAIN q
      /\ DOMAIN Tail(q) = 1 .. (Len(q) - 1)
      /\ \A j \in 1 .. (Len(q) - 1) : Tail(q)[j] = q[j + 1]
  BY <1>3, TailProperties
<1>6. \A i \in Nat : Queued(t, x, i) =>
        IF BankOf(hist[x].addr) = b THEN Queued(m, x, i + 1) ELSE Queued(m, x, i)
  <2> SUFFICES ASSUME NEW i \in Nat, Queued(t, x, i)
               PROVE  IF BankOf(hist[x].addr) = b THEN Queued(m, x, i + 1)
                      ELSE Queued(m, x, i)
    OBVIOUS
  <2>1. PICK d \in Banks : i \in DOMAIN t.queue[d] /\ t.queue[d][i] = [type |-> "READ_P", id |-> x]
    BY DEF Queued
  <2>2. CASE d = b
    <3>1. i \in 1 .. (Len(q) - 1) /\ q[i + 1] = [type |-> "READ_P", id |-> x]
      BY <1>4, <1>5, <2>1, <2>2
    <3>2. i + 1 \in DOMAIN q
      BY <1>5, <3>1
    <3>3. Queued(m, x, i + 1)
      BY <1>2, <3>1, <3>2 DEF Queued
    <3>4. BankOf(hist[x].addr) = b
      BY <1>2, <3>1, <3>2, QueuedBank
    <3> QED BY <3>3, <3>4
  <2>3. CASE d # b
    <3>1. i \in DOMAIN m.queue[d] /\ m.queue[d][i] = [type |-> "READ_P", id |-> x]
      BY <1>4, <2>1, <2>3
    <3>2. Queued(m, x, i)
      BY <3>1 DEF Queued
    <3>3. BankOf(hist[x].addr) = d
      BY <3>1, QueuedBank
    <3> QED BY <2>3, <3>2, <3>3
  <2> QED BY <2>2, <2>3
<1>7. ASSUME NEW i \in Nat, Queued(m, x, i)
      PROVE  \/ Queued(t, x, i)
             \/ i >= 1 /\ Queued(t, x, i - 1)
             \/ i = 1 /\ c.type = "READ_P" /\ c.id = x
  <2>1. PICK d \in Banks : i \in DOMAIN m.queue[d] /\ m.queue[d][i] = [type |-> "READ_P", id |-> x]
    BY <1>7 DEF Queued
  <2>2. CASE d # b
    BY <1>4, <2>1, <2>2 DEF Queued
  <2>3. CASE d = b /\ i = 1
    BY <1>2, <1>3, <2>1, <2>3
  <2>4. CASE d = b /\ i # 1
    <3>1. i \in DOMAIN q /\ q[i] = [type |-> "READ_P", id |-> x]
      BY <1>2, <2>1, <2>4
    <3>2. i - 1 \in 1 .. (Len(q) - 1) /\ (i - 1) + 1 = i /\ i >= 1
      BY <1>5, <2>4, <3>1
    <3>3. Tail(q)[i - 1] = [type |-> "READ_P", id |-> x]
      BY <1>5, <3>1, <3>2
    <3>4. Queued(t, x, i - 1)
      BY <1>4, <1>5, <3>2, <3>3, Zenon DEF Queued
    <3> QED BY <3>2, <3>4
  <2> QED BY <2>2, <2>3, <2>4
<1>8. c.type = "READ_P" /\ c.id = x => Queued(m, x, 1) /\ BankOf(hist[x].addr) = b
  <2> SUFFICES ASSUME c.type = "READ_P", c.id = x
               PROVE  Queued(m, x, 1) /\ BankOf(hist[x].addr) = b
    OBVIOUS
  <2>1. c = [type |-> "READ_P", id |-> x]
    BY DEF Sends, Commands
  <2>2. Queued(m, x, 1)
    BY <1>2, <1>3, <1>5, <2>1 DEF Queued
  <2> QED BY <1>1, <2>2 DEF BankOfCmd
<1> QED BY <1>1, <1>6, <1>7, <1>8, Zenon

(* Where the reads of t were before the command was sent: those of its     *)
(* bank move up by one place, those behind the controller stay.            *)
LEMMA SentAt ==
  ASSUME hist \in Seq(Transactions), NEW m \in Memories, QueuesShaped(m), m.cmd = NoCommand,
         NEW t \in Memories, NEW c, Sends(m, c, t),
         t.reading = m.reading, t.rankData = m.rankData, t.returning = m.returning,
         NEW l \in Nat, l = Len(m.reading),
         NEW x \in Nat \ {None}
  PROVE  /\ \A p \in Nat : At(t, x, p) =>
              \/ p <= l + 1 /\ At(m, x, p)
              \/ /\ p >= l + 2
                 /\ IF c.type # "REFRESH" /\ BankOf(hist[x].addr) = BankOfCmd(c)
                      THEN At(m, x, p + 1) ELSE At(m, x, p)
         /\ \A p \in Nat : At(m, x, p) => \E q \in Nat : At(t, x, q)
<1> DEFINE own == c.type # "REFRESH" /\ BankOf(hist[x].addr) = BankOfCmd(c)
<1>1. t.cmd = c /\ m.cmd.type = "none" /\ Len(t.reading) = l
  BY DEF Sends, NoCommand
<1>2. m.reading \in Seq(Packets) /\ DOMAIN m.reading = 1 .. l /\ DOMAIN t.reading = 1 .. l
  BY DEF Memories
<1>3. \A i : Queued(m, x, i) \/ Queued(t, x, i) => i \in Nat /\ i >= 1
  <2>1. \A d \in Banks : /\ \A i \in DOMAIN m.queue[d] : i \in Nat /\ i >= 1
                         /\ \A i \in DOMAIN t.queue[d] : i \in Nat /\ i >= 1
    BY QueuePlace, Zenon
  <2> QED BY <2>1 DEF Queued
<1>4. /\ \A i \in Nat : Queued(t, x, i) => IF own THEN Queued(m, x, i + 1)
                                           ELSE Queued(m, x, i)
      /\ \A i \in Nat : Queued(m, x, i) =>
           \/ Queued(t, x, i)
           \/ i >= 1 /\ Queued(t, x, i - 1)
           \/ i = 1 /\ c.type = "READ_P" /\ c.id = x
      /\ c.type = "READ_P" /\ c.id = x => Queued(m, x, 1) /\ own
  <2>1. CASE c.type = "REFRESH"
    <3>1. t.queue = m.queue
      BY <2>1, RefreshSent
    <3> QED BY <2>1, <3>1 DEF Queued
  <2>2. CASE c.type # "REFRESH"
    <3>1. own <=> BankOf(hist[x].addr) = BankOfCmd(c)
      BY <2>2
    <3> HIDE DEF own
    <3>2. \A i \in Nat : Queued(t, x, i) =>
            IF BankOf(hist[x].addr) = BankOfCmd(c) THEN Queued(m, x, i + 1)
            ELSE Queued(m, x, i)
      BY <2>2, SentQueued
    <3>3. \A i \in Nat : Queued(m, x, i) =>
            \/ Queued(t, x, i)
            \/ i >= 1 /\ Queued(t, x, i - 1)
            \/ i = 1 /\ c.type = "READ_P" /\ c.id = x
      BY <2>2, SentQueued
    <3>4. c.type = "READ_P" /\ c.id = x =>
            Queued(m, x, 1) /\ BankOf(hist[x].addr) = BankOfCmd(c)
      BY <2>2, SentQueued
    <3> QED BY <3>1, <3>2, <3>3, <3>4, Zenon
  <2> QED BY <2>1, <2>2
<1> HIDE DEF own
<1>5. ASSUME NEW p \in Nat, At(t, x, p)
      PROVE  \/ p <= l + 1 /\ At(m, x, p)
             \/ p >= l + 2 /\ IF own THEN At(m, x, p + 1) ELSE At(m, x, p)
  <2>1. CASE p = 0 /\ t.returning # <<>> /\ t.returning[1] = x
    BY <2>1 DEF At
  <2>2. CASE p = 1 /\ t.rankData.id = x
    BY <2>2 DEF At
  <2>3. CASE p - 1 \in DOMAIN t.reading /\ t.reading[p - 1].id = x
    <3>1. p <= l + 1
      BY <1>2, <2>3
    <3> QED BY <2>3, <3>1 DEF At
  <2>4. CASE p = Len(t.reading) + 2 /\ t.cmd.type = "READ_P" /\ t.cmd.id = x
    <3>1. Queued(m, x, 1) /\ own
      BY <1>1, <1>4, <2>4
    <3>2. p >= l + 2 /\ (p + 1) - 2 - l = 1
      BY <1>1, <2>4
    <3>3. At(m, x, p + 1)
      BY <3>1, <3>2, Zenon DEF At
    <3> QED BY <3>1, <3>2, <3>3
  <2>5. CASE Queued(t, x, p - 2 - Len(t.reading))
    <3>1. PICK i \in Nat : i = p - 2 - l /\ i >= 1 /\ Queued(t, x, i)
      BY <1>1, <1>3, <2>5
    <3>2. IF own THEN Queued(m, x, i + 1) ELSE Queued(m, x, i)
      BY <1>4, <3>1, Zenon
    <3>3. p >= l + 2 /\ (p + 1) - 2 - l = i + 1 /\ p - 2 - l = i
      BY <3>1
    <3>4. IF own THEN At(m, x, p + 1) ELSE At(m, x, p)
      BY <3>2, <3>3, Zenon DEF At
    <3> QED BY <3>3, <3>4
  <2> QED BY <1>5, <2>1, <2>2, <2>3, <2>4, <2>5, Zenon DEF At
<1>6. ASSUME NEW p \in Nat, At(m, x, p)
      PROVE  \E q \in Nat : At(t, x, q)
  <2>1. CASE p = 0 /\ m.returning # <<>> /\ m.returning[1] = x
    BY <2>1 DEF At
  <2>2. CASE p = 1 /\ m.rankData.id = x
    BY <2>2 DEF At
  <2>3. CASE p - 1 \in DOMAIN m.reading /\ m.reading[p - 1].id = x
    BY <2>3 DEF At
  <2>4. CASE p = Len(m.reading) + 2 /\ m.cmd.type = "READ_P" /\ m.cmd.id = x
    BY <1>1, <2>4
  <2>5. CASE Queued(m, x, p - 2 - Len(m.reading))
    <3>1. PICK i \in Nat : i = p - 2 - l /\ i >= 1 /\ Queued(m, x, i)
      BY <1>3, <2>5
    <3>2. CASE Queued(t, x, i)
      BY <1>1, <3>1, <3>2, Zenon DEF At
    <3>3. CASE Queued(t, x, i - 1)
      <4>1. p - 1 \in Nat /\ (p - 1) - 2 - l = i - 1
        BY <3>1
      <4> QED BY <1>1, <3>3, <4>1, Zenon DEF At
    <3>4. CASE i = 1 /\ c.type = "READ_P" /\ c.id = x
      <4>1. l + 2 \in Nat
        OBVIOUS
      <4> QED BY <1>1, <3>4, <4>1, Zenon DEF At
    <3> QED BY <1>4, <3>1, <3>2, <3>3, <3>4, Zenon
  <2> QED BY <1>6, <2>1, <2>2, <2>3, <2>4, <2>5, Zenon DEF At
<1> QED BY <1>5, <1>6 DEF own

LEMMA SentPending ==
  ASSUME hist \in Seq(Transactions), NEW m \in Memories, QueuesShaped(m), m.cmd = NoCommand,
         PendingKept(m),
         NEW t \in Memories, NEW c, Sends(m, c, t),
         t.reading = m.reading, t.rankData = m.rankData, t.returning = m.returning,
         t.pendingRead = m.pendingRead
  PROVE  PendingKept(t)
<1>1. PICK l \in Nat : l = Len(m.reading)
  BY DEF Memories
<1> DEFINE Own(x) == c.type # "REFRESH" /\ BankOf(hist[x].addr) = BankOfCmd(c)
           From(x, p, u) == \/ p <= l + 1 /\ u = p
                            \/ p >= l + 2 /\ u = IF Own(x) THEN p + 1 ELSE p
<1>2. ASSUME NEW x \in Nat \ {None}, NEW p \in Nat, At(t, x, p)
      PROVE  \E u \in Nat : From(x, p, u) /\ At(m, x, u)
  <2>1. \/ p <= l + 1 /\ At(m, x, p)
        \/ p >= l + 2 /\ IF Own(x) THEN At(m, x, p + 1) ELSE At(m, x, p)
    BY <1>1, <1>2, SentAt, Zenon
  <2>2. p + 1 \in Nat
    OBVIOUS
  <2> QED BY <2>1, <2>2, Zenon
<1>3. ASSUME NEW x, NEW y, SameBank(x, y),
             NEW p \in Nat, NEW q \in Nat, p < q,
             NEW u \in Nat, From(x, p, u), NEW v \in Nat, From(y, q, v)
      PROVE  u < v
  <2>1. Own(x) <=> Own(y)
    BY <1>3 DEF SameBank
  <2> HIDE DEF Own
  <2> QED BY <1>3, <2>1
<1> HIDE DEF From
<1>4. InFlight(t) = InFlight(m)
  <2>1. ASSUME NEW x \in InFlight(t)
        PROVE  x \in InFlight(m)
    <3>1. x \in Nat \ {None} /\ \E p \in Nat : At(t, x, p)
      BY DEF InFlight
    <3> QED BY <1>2, <3>1 DEF InFlight
  <2>2. ASSUME NEW x \in InFlight(m)
        PROVE  x \in InFlight(t)
    <3>1. x \in Nat \ {None} /\ \E p \in Nat : At(m, x, p)
      BY DEF InFlight
    <3>2. \E p \in Nat : At(t, x, p)
      BY <1>1, <3>1, SentAt, Zenon
    <3> QED BY <3>1, <3>2 DEF InFlight
  <2> QED BY <2>1, <2>2
<1>5. ASSUME NEW x \in InFlight(m), NEW y \in InFlight(m), SameBank(x, y), Before(t, x, y)
      PROVE  Before(m, x, y)
  <2>1. x \in Nat \ {None} /\ y \in Nat \ {None}
    BY DEF InFlight
  <2>2. PICK p \in Nat, q \in Nat : p < q /\ At(t, x, p) /\ At(t, y, q)
    BY <1>5 DEF Before
  <2>3. PICK u \in Nat : From(x, p, u) /\ At(m, x, u)
    BY <1>2, <2>1, <2>2, Zenon
  <2>4. PICK v \in Nat : From(y, q, v) /\ At(m, y, v)
    BY <1>2, <2>1, <2>2, Zenon
  <2>5. u < v
    BY <1>3, <1>5, <2>2, <2>3, <2>4, Zenon
  <2> QED BY <2>3, <2>4, <2>5 DEF Before
<1> QED BY <1>4, <1>5, InOrder, Zenon

-----------------------------------------------------------------------------
\* A transaction is broken up: its read is the last of its bank

LEMMA ScheduledQueued ==
  ASSUME hist \in Seq(Transactions), NEW s \in Memories, NEW t \in Memories,
         NEW i, Schedules(s, i, t), NEW id \in DOMAIN hist, id = s.transactionQueue[i],
         NEW b, b = BankOf(hist[id].addr), NEW n, n = Len(s.queue[b])
  PROVE  \A x \in Nat : \A j : Queued(t, x, j) <=>
              Queued(s, x, j) \/ (~hist[id].write /\ x = id /\ j = n + 2)
<1> SUFFICES ASSUME NEW x \in Nat, NEW j
             PROVE  Queued(t, x, j) <=>
                      Queued(s, x, j) \/ (~hist[id].write /\ x = id /\ j = n + 2)
  OBVIOUS
<1>1. b \in Banks /\ id \in Nat
  BY HistType
<1>2. PICK q \in Seq(Commands) : q = s.queue[b]
  BY <1>1 DEF Memories
<1>3. n \in Nat
  BY <1>2
<1> DEFINE act == [type |-> "ACTIVATE", id |-> id]
           col == [type |-> Column(id), id |-> id]
           r == q \o <<act, col>>
<1>4. act \in Commands /\ col \in Commands
  BY <1>1 DEF Commands, Column
<1>5. t.queue[b] = r /\ \A d \in Banks : d # b => t.queue[d] = s.queue[d]
  <2>1. s.queue \in [Banks -> Seq(Commands)]
    BY DEF Memories
  <2>2. t.queue = [s.queue EXCEPT ![b] = @ \o <<act, col>>]
    BY DEF Schedules
  <2> HIDE DEF act, col
  <2>3. t.queue = [s.queue EXCEPT ![b] = r]
    BY <1>2, <2>2, Zenon
  <2> HIDE DEF r
  <2> QED BY <1>1, <2>1, <2>3
<1>6. /\ DOMAIN r = 1 .. (n + 2) /\ DOMAIN q = 1 .. n
      /\ \A k \in DOMAIN q : r[k] = q[k]
      /\ r[n + 1] = act /\ r[n + 2] = col
  <2> HIDE DEF act, col
  <2>1. Len(q) = n
    BY <1>2
  <2>2. act \in Commands /\ col \in Commands
    BY <1>4
  <2>3. /\ DOMAIN r = 1 .. (Len(q) + 2) /\ DOMAIN q = 1 .. Len(q)
        /\ \A k \in DOMAIN q : r[k] = q[k]
        /\ r[Len(q) + 1] = act /\ r[Len(q) + 2] = col
    BY <2>2, ConcatTwo
  <2> QED BY <2>1, <2>3, Zenon
<1>10. /\ act.type = "ACTIVATE"
       /\ col = [type |-> "READ_P", id |-> x] <=> ~hist[id].write /\ x = id
  BY DEF Column
<1> HIDE DEF act, col, r
<1>11. /\ \A k \in DOMAIN r : k \in DOMAIN q \/ k = n + 1 \/ k = n + 2
       /\ \A k \in DOMAIN q : k \in DOMAIN r
       /\ n + 2 \in DOMAIN r
  <2>1. \A k \in 1 .. (n + 2) : k \in 1 .. n \/ k = n + 1 \/ k = n + 2
    <3>1. \A a \in Nat : \A k \in 1 .. (a + 2) : k \in 1 .. a \/ k = a + 1 \/ k = a + 2
      OBVIOUS
    <3> QED BY <1>3, <3>1, Zenon
  <2>2. \A k \in 1 .. n : k \in 1 .. (n + 2)
    BY <1>3
  <2>3. n + 2 \in 1 .. (n + 2)
    BY <1>3
  <2> QED BY <1>6, <2>1, <2>2, <2>3, Zenon
<1>7. ASSUME Queued(t, x, j)
      PROVE  Queued(s, x, j) \/ (~hist[id].write /\ x = id /\ j = n + 2)
  <2>1. PICK d \in Banks : j \in DOMAIN t.queue[d] /\ t.queue[d][j] = [type |-> "READ_P", id |-> x]
    BY <1>7 DEF Queued
  <2>2. CASE d # b
    BY <1>5, <2>1, <2>2 DEF Queued
  <2>3. CASE d = b
    <3>1. j \in DOMAIN r /\ r[j] = [type |-> "READ_P", id |-> x]
      BY <1>5, <2>1, <2>3
    <3>2. j \in DOMAIN q \/ j = n + 1 \/ j = n + 2
      BY <1>11, <3>1
    <3>3. CASE j \in DOMAIN q
      <4>1. j \in DOMAIN s.queue[b] /\ s.queue[b][j] = [type |-> "READ_P", id |-> x]
        BY <1>2, <1>6, <3>1, <3>3, Zenon
      <4> QED BY <1>1, <4>1 DEF Queued
    <3>4. CASE j = n + 1
      <4>1. act = [type |-> "READ_P", id |-> x]
        BY <1>6, <3>1, <3>4, Zenon
      <4>2. act.type = "READ_P"
        BY <4>1
      <4> QED BY <1>10, <4>2
    <3>5. CASE j = n + 2
      <4>1. col = [type |-> "READ_P", id |-> x]
        BY <1>6, <3>1, <3>5, Zenon
      <4> QED BY <1>10, <3>5, <4>1
    <3> QED BY <3>2, <3>3, <3>4, <3>5
  <2> QED BY <2>2, <2>3
<1>8. ASSUME Queued(s, x, j)
      PROVE  Queued(t, x, j)
  <2>1. PICK d \in Banks : j \in DOMAIN s.queue[d] /\ s.queue[d][j] = [type |-> "READ_P", id |-> x]
    BY <1>8 DEF Queued
  <2>2. CASE d # b
    BY <1>5, <2>1, <2>2 DEF Queued
  <2>3. CASE d = b
    <3>1. j \in DOMAIN q /\ q[j] = [type |-> "READ_P", id |-> x]
      BY <1>2, <2>1, <2>3
    <3>2. j \in DOMAIN r /\ r[j] = [type |-> "READ_P", id |-> x]
      BY <1>6, <1>11, <3>1, Zenon
    <3> QED BY <1>1, <1>5, <3>2, Zenon DEF Queued
  <2> QED BY <2>2, <2>3
<1>9. ASSUME ~hist[id].write, x = id, j = n + 2
      PROVE  Queued(t, x, j)
  <2>1. col = [type |-> "READ_P", id |-> x]
    BY <1>9, <1>10
  <2>2. j \in DOMAIN r /\ r[j] = [type |-> "READ_P", id |-> x]
    BY <1>6, <1>9, <1>11, <2>1, Zenon
  <2> QED BY <1>1, <1>5, <2>2 DEF Queued
<1> QED BY <1>7, <1>8, <1>9, Zenon

LEMMA SchedulePending ==
  ASSUME hist \in Seq(Transactions), NEW s \in Memories, QueuesShaped(s), PendingKept(s),
         IsInjective(s.pendingRead), ToSet(s.pendingRead) \subseteq DOMAIN hist,
         NEW t \in Memories, t.cmd = s.cmd, t.rankData = s.rankData, t.reading = s.reading,
         t.returning = s.returning,
         NEW i, Schedules(s, i, t), s.transactionQueue[i] \in DOMAIN hist,
         s.transactionQueue[i] \notin ToSet(s.pendingRead)
  PROVE  PendingKept(t)
<1>1. PICK id \in DOMAIN hist : id = s.transactionQueue[i]
  OBVIOUS
<1>2. PICK b, n : b = BankOf(hist[id].addr) /\ n = Len(s.queue[b])
  OBVIOUS
<1>3. id \in Nat \ {None} /\ id \notin InFlight(s) /\ id \notin ToSet(s.pendingRead)
  BY <1>1, HistType DEF PendingKept
<1>4. PICK l \in Nat : l = Len(s.reading) /\ l = Len(t.reading)
  BY DEF Memories
<1>5. b \in Banks /\ n \in Nat
  <2>1. b \in Banks
    BY <1>1, <1>2, HistType
  <2> QED BY <1>2, <2>1 DEF Memories
<1>9. \A x \in Nat : \A j : Queued(t, x, j) <=>
        Queued(s, x, j) \/ (~hist[id].write /\ x = id /\ j = n + 2)
  BY <1>1, <1>2, ScheduledQueued, SMTT(30)
<1>6. ASSUME NEW x \in Nat, NEW p \in Nat
      PROVE  At(t, x, p) <=> At(s, x, p) \/ (~hist[id].write /\ x = id /\ p = l + n + 4)
  <2>1. Queued(t, x, p - 2 - l) <=>
          Queued(s, x, p - 2 - l) \/ (~hist[id].write /\ x = id /\ p - 2 - l = n + 2)
    BY <1>9, Zenon
  <2>2. p - 2 - l = n + 2 <=> p = l + n + 4
    BY <1>5
  <2> QED BY <1>4, <2>1, <2>2, Zenon DEF At
<1>7. CASE hist[id].write
  <2>1. \A x \in Nat, p \in Nat : At(t, x, p) <=> At(s, x, p)
    BY <1>6, <1>7
  <2>2. t.pendingRead = s.pendingRead
    BY <1>1, <1>7 DEF Schedules
  <2>3. InFlight(t) = InFlight(s)
    BY <2>1, Zenon DEF InFlight
  <2>4. \A x, y \in InFlight(s) : Before(t, x, y) => Before(s, x, y)
    BY <2>1, Zenon DEF InFlight, Before
  <2> QED BY <2>2, <2>3, <2>4, InOrder, Zenon
<1>8. CASE ~hist[id].write
  <2>1. PICK q \in Seq(Nat) : q = s.pendingRead
    BY DEF Memories
  <2>2. t.pendingRead = Append(q, id)
    BY <1>1, <1>8, <2>1 DEF Schedules
  <2>3. /\ Len(q) \in Nat /\ DOMAIN Append(q, id) = 1 .. (Len(q) + 1) /\ DOMAIN q = 1 .. Len(q)
        /\ \A k \in DOMAIN q : Append(q, id)[k] = q[k]
        /\ Append(q, id)[Len(q) + 1] = id
        /\ ToSet(Append(q, id)) = ToSet(q) \cup {id}
    BY <1>3, LastProperties, AppendElements
  <2>4. InFlight(t) = InFlight(s) \cup {id}
    <3>1. l + n + 4 \in Nat
      BY <1>5
    <3> QED BY <1>3, <1>6, <1>8, <3>1, Zenon DEF InFlight
  <2>5. ToSet(t.pendingRead) = InFlight(t)
    BY <2>1, <2>2, <2>3, <2>4 DEF PendingKept
  <2>6. \A x \in InFlight(s), p \in Nat : At(t, x, p) <=> At(s, x, p)
    BY <1>3, <1>6 DEF InFlight
  <2>7. \A p \in Nat : At(t, id, p) => p = l + n + 4
    BY <1>3, <1>6 DEF InFlight
  <2>8. ASSUME NEW y \in InFlight(s), SameBank(y, id), NEW p \in Nat, At(s, y, p)
        PROVE  p < l + n + 4
    <3>1. y \in Nat
      BY DEF InFlight
    <3>2. CASE p = 0 \/ p = 1 \/ p = l + 2
      BY <1>5, <3>2
    <3>3. CASE p - 1 \in DOMAIN s.reading
      <4>1. DOMAIN s.reading = 1 .. l
        BY <1>4 DEF Memories
      <4> QED BY <1>5, <3>3, <4>1
    <3>4. CASE Queued(s, y, p - 2 - l)
      <4>1. PICK d \in Banks : /\ p - 2 - l \in DOMAIN s.queue[d]
                               /\ s.queue[d][p - 2 - l] = [type |-> "READ_P", id |-> y]
        BY <3>4 DEF Queued
      <4>2. d = b
        BY <1>2, <2>8, <3>1, <4>1, QueuedBank DEF SameBank
      <4>3. PICK r \in Seq(Commands) : r = s.queue[b]
        BY <1>5 DEF Memories
      <4>4. DOMAIN r = 1 .. n
        BY <1>2, <4>3
      <4>5. p - 2 - l \in 1 .. n
        BY <4>1, <4>2, <4>3, <4>4, Zenon
      <4> QED BY <1>5, <4>5
    <3> QED BY <1>4, <2>8, <3>2, <3>3, <3>4, Zenon DEF At
  <2>9. ASSUME NEW m \in DOMAIN t.pendingRead, NEW k \in DOMAIN t.pendingRead, m <= k,
               SameBank(t.pendingRead[m], t.pendingRead[k]),
               Before(t, t.pendingRead[k], t.pendingRead[m])
        PROVE  FALSE
    <3>1. PICK u \in Nat, v \in Nat :
            u < v /\ At(t, t.pendingRead[k], u) /\ At(t, t.pendingRead[m], v)
      BY <2>9 DEF Before
    <3>2. m \in 1 .. (Len(q) + 1) /\ k \in 1 .. (Len(q) + 1)
      BY <2>2, <2>3
    <3>3. \A j \in DOMAIN q : q[j] \in InFlight(s)
      BY <2>1 DEF PendingKept, ToSet
    <3>4. CASE k # Len(q) + 1
      <4>1. m \in DOMAIN q /\ k \in DOMAIN q
        BY <2>3, <2>9, <3>2, <3>4
      <4>2. t.pendingRead[m] = q[m] /\ t.pendingRead[k] = q[k]
        BY <2>2, <2>3, <4>1
      <4>3. Before(s, q[k], q[m])
        BY <2>6, <3>1, <3>3, <4>1, <4>2 DEF Before
      <4> QED BY <2>1, <2>9, <4>1, <4>2, <4>3 DEF PendingKept
    <3>5. CASE k = Len(q) + 1
      <4>1. t.pendingRead[k] = id /\ u = l + n + 4
        BY <2>2, <2>3, <2>7, <3>1, <3>5
      <4>2. CASE m = Len(q) + 1
        <5>1. t.pendingRead[m] = id
          BY <2>2, <2>3, <4>2
        <5>2. v = l + n + 4
          BY <2>7, <3>1, <5>1
        <5> QED BY <3>1, <4>1, <5>2
      <4>3. CASE m # Len(q) + 1
        <5>1. m \in DOMAIN q
          BY <2>3, <3>2, <4>3
        <5>2. t.pendingRead[m] = q[m] /\ q[m] \in InFlight(s)
          BY <2>2, <2>3, <3>3, <5>1
        <5>3. At(s, q[m], v)
          BY <2>6, <3>1, <5>2
        <5>4. v < l + n + 4
          BY <2>8, <2>9, <4>1, <5>2, <5>3
        <5> QED BY <1>5, <3>1, <4>1, <5>4
      <4> QED BY <4>2, <4>3
    <3> QED BY <3>4, <3>5
  <2> QED BY <2>5, <2>9 DEF PendingKept
<1> QED BY <1>7, <1>8

-----------------------------------------------------------------------------
\* Data comes back

\* Only what is returned is in place 0.
LEMMA FirstPlace ==
  ASSUME NEW s \in Memories, NEW x \in Nat, At(s, x, 0)
  PROVE  s.returning # <<>> /\ s.returning[1] = x
<1>1. PICK r \in Seq(Packets) : r = s.reading
  BY DEF Memories
<1>2. 0 - 1 \notin DOMAIN s.reading /\ 0 # Len(s.reading) + 2 /\ ~(0 - 2 - Len(s.reading) >= 1)
  BY <1>1
<1>3. ~Queued(s, x, 0 - 2 - Len(s.reading))
  BY <1>2, QueuePlace, Zenon DEF Queued
<1>4. 0 # 1
  OBVIOUS
<1> QED BY <1>2, <1>3, <1>4, Zenon DEF At

\* It is the first of its bank, so the first of its address.
LEMMA FirstPending ==
  ASSUME NEW s \in Memories, PendingKept(s), IsInjective(s.pendingRead),
         NEW id \in Nat \ {None}, s.returning = <<id>>
  PROVE  \E m \in Nat : Matches(s, m)
<1>1. PICK q \in Seq(Nat) : q = s.pendingRead
  BY DEF Memories
<1>2. s.returning # <<>> /\ s.returning[1] = id
  OBVIOUS
<1>3. At(s, id, 0)
  BY <1>2 DEF At
<1>4. id \in ToSet(q)
  <2>1. 0 \in Nat
    OBVIOUS
  <2>2. id \in InFlight(s)
    BY <1>3, <2>1, Zenon DEF InFlight
  <2> QED BY <1>1, <2>2 DEF PendingKept
<1>5. PICK m \in DOMAIN q : q[m] = id
  BY <1>4 DEF ToSet
<1>6. m \in Nat /\ \A n \in DOMAIN q : n \in Nat
  BY <1>1, <1>5
<1>7. ASSUME NEW n \in DOMAIN q, hist[q[n]].addr = hist[id].addr, ~(m <= n)
      PROVE  FALSE
  <2>1. n <= m /\ n # m
    BY <1>6, <1>7
  <2>2. SameBank(q[n], q[m])
    BY <1>5, <1>7 DEF SameBank
  <2>3. q[n] # id
    BY <1>1, <1>5, <2>1 DEF IsInjective
  <2>4. q[n] \in InFlight(s)
    BY <1>1 DEF PendingKept, ToSet
  <2>5. PICK p \in Nat : At(s, q[n], p)
    BY <2>4 DEF InFlight
  <2>6. p # 0
    <3>1. q[n] \in Nat
      BY <2>4 DEF InFlight
    <3> QED BY <1>2, <2>3, <2>5, <3>1, FirstPlace
  <2>7. 0 < p /\ 0 \in Nat
    BY <2>6
  <2>8. Before(s, q[m], q[n])
    BY <1>3, <1>5, <2>5, <2>7, Zenon DEF Before
  <2> QED BY <1>1, <2>1, <2>2, <2>8, Zenon DEF PendingKept
<1>8. Matches(s, m)
  BY <1>1, <1>2, <1>5, <1>7, Zenon DEF Matches
<1> QED BY <1>6, <1>8

LEMMA ReturnPending ==
  ASSUME NEW s \in Memories, PendingKept(s), IsInjective(s.pendingRead),
         NEW id \in Nat \ {None}, s.returning = <<id>>,
         NEW m \in Nat, Matches(s, m),
         NEW t \in Memories, t.returning = <<>>, t.queue = s.queue, t.cmd = s.cmd,
         t.rankData = s.rankData, t.reading = s.reading,
         t.pendingRead = RemoveAt(s.pendingRead, m)
  PROVE  PendingKept(t)
<1>1. PICK q \in Seq(Nat) : q = s.pendingRead
  BY DEF Memories
<1>2. m \in DOMAIN q /\ q[m] = id
  BY <1>1 DEF Matches
<1>3. At(s, id, 0)
  BY DEF At
<1>4. ASSUME NEW x \in Nat, NEW p \in Nat
      PROVE  At(t, x, p) => At(s, x, p)
  BY DEF At, Queued
<1>5. ASSUME NEW x \in Nat, NEW p \in Nat, At(s, x, p), p # 0
      PROVE  At(t, x, p)
  BY <1>5 DEF At, Queued
<1>6. ASSUME NEW p \in Nat, At(t, id, p)
      PROVE  FALSE
  <2>1. p # 0
    BY <1>6, FirstPlace
  <2>2. 0 < p /\ 0 \in Nat /\ At(s, id, p)
    BY <1>4, <1>6, <2>1
  <2>3. Before(s, q[m], q[m])
    BY <1>2, <1>3, <2>2, Zenon DEF Before
  <2>4. m <= m /\ SameBank(q[m], q[m])
    BY DEF SameBank
  <2> QED BY <1>1, <1>2, <2>3, <2>4, Zenon DEF PendingKept
<1>7. InFlight(t) = InFlight(s) \ {id}
  <2>1. ASSUME NEW x \in InFlight(t)
        PROVE  x \in InFlight(s) \ {id}
    BY <1>4, <1>6 DEF InFlight
  <2>2. ASSUME NEW x \in InFlight(s), x # id
        PROVE  x \in InFlight(t)
    <3>1. PICK p \in Nat : At(s, x, p)
      BY DEF InFlight
    <3>2. x \in Nat \ {None}
      BY DEF InFlight
    <3>3. p # 0
      BY <2>2, <3>1, <3>2, FirstPlace
    <3> QED BY <1>5, <3>1, <3>2, <3>3 DEF InFlight
  <2> QED BY <2>1, <2>2
<1>8. ToSet(t.pendingRead) = InFlight(t)
  <2>1. ToSet(RemoveAt(q, m)) = ToSet(q) \ {q[m]}
    BY <1>1, <1>2, RemoveAtElements
  <2> QED BY <1>1, <1>2, <1>7, <2>1 DEF PendingKept
<1>9. ASSUME NEW i \in DOMAIN t.pendingRead, NEW j \in DOMAIN t.pendingRead, i <= j,
             SameBank(t.pendingRead[i], t.pendingRead[j]),
             Before(t, t.pendingRead[j], t.pendingRead[i])
      PROVE  FALSE
  <2>1. /\ DOMAIN t.pendingRead = 1 .. (Len(q) - 1) /\ DOMAIN q = 1 .. Len(q) /\ Len(q) \in Nat
        /\ \A k \in 1 .. (Len(q) - 1) :
             t.pendingRead[k] = IF k < m THEN q[k] ELSE q[k + 1]
    <3>1. t.pendingRead = RemoveAt(q, m)
      BY <1>1
    <3>2. DOMAIN RemoveAt(q, m) = 1 .. (Len(q) - 1)
      BY <1>1, <1>2, RemoveAtProperties
    <3>3. \A k \in 1 .. (Len(q) - 1) :
            RemoveAt(q, m)[k] = IF k < m THEN q[k] ELSE q[k + 1]
      BY <1>1, <1>2, RemoveAtProperties
    <3>4. DOMAIN q = 1 .. Len(q) /\ Len(q) \in Nat
      BY <1>1
    <3> QED BY <3>1, <3>2, <3>3, <3>4, Zenon
  <2>2. PICK k, l : /\ k \in 1 .. Len(q) /\ t.pendingRead[i] = q[k]
                    /\ l \in 1 .. Len(q) /\ t.pendingRead[j] = q[l]
                    /\ k <= l
    <3>1. i \in 1 .. (Len(q) - 1) /\ j \in 1 .. (Len(q) - 1)
      BY <2>1
    <3>2. i \in 1 .. Len(q) /\ i + 1 \in 1 .. Len(q) /\ j \in 1 .. Len(q) /\ j + 1 \in 1 .. Len(q)
      BY <2>1, <3>1
    <3>3. CASE i < m /\ j < m
      BY <1>9, <2>1, <3>1, <3>2, <3>3
    <3>4. CASE i < m /\ ~(j < m)
      <4>1. i <= j + 1
        BY <1>9, <3>1
      <4> QED BY <2>1, <3>1, <3>2, <3>4, <4>1
    <3>5. CASE ~(i < m)
      <4>1. i \in Nat /\ j \in Nat
        BY <2>1, <3>1
      <4>2. i + 1 <= j + 1 /\ ~(j < m)
        BY <1>9, <3>5, <4>1
      <4> QED BY <2>1, <3>1, <3>2, <3>5, <4>2
    <3> QED BY <3>3, <3>4, <3>5
  <2>3. q[k] \in Nat /\ q[l] \in Nat
    BY <1>1, <2>1, <2>2, ElementOfSeq
  <2>4. Before(s, q[l], q[k])
    BY <1>4, <1>9, <2>2, <2>3 DEF Before
  <2> QED BY <1>1, <1>9, <2>1, <2>2, <2>4 DEF PendingKept
<1> QED BY <1>8, <1>9 DEF PendingKept

\* Nothing of a read has changed.
LEMMA SamePending ==
  ASSUME NEW s \in Memories, PendingKept(s),
         NEW t \in Memories, t.returning = s.returning, t.queue = s.queue, t.cmd = s.cmd,
         t.rankData = s.rankData, t.reading = s.reading, t.pendingRead = s.pendingRead
  PROVE  PendingKept(t)
<1>1. \A x, p : At(t, x, p) <=> At(s, x, p)
  <2> SUFFICES ASSUME NEW x, NEW p
               PROVE  At(t, x, p) <=> At(s, x, p)
    OBVIOUS
  <2>1. \A i : Queued(t, x, i) <=> Queued(s, x, i)
    BY Zenon DEF Queued
  <2> QED BY <2>1 DEF At
<1>2. InFlight(t) = InFlight(s)
  BY <1>1, Zenon DEF InFlight
<1>3. \A x, y : Before(t, x, y) => Before(s, x, y)
  BY <1>1, Zenon DEF Before
<1> QED BY <1>2, <1>3, Zenon DEF PendingKept

-----------------------------------------------------------------------------
\* The transactions the memory has

(* A transaction waits in one place until it is broken up, and a read is   *)
(* then pending once.                                                      *)
Fresh(s) ==
  /\ IsInjective(s.transactionQueue) /\ IsInjective(s.pendingTransactions)
  /\ IsInjective(s.pendingRead)
  /\ ToSet(s.transactionQueue) \cap ToSet(s.pendingTransactions) = {}
  /\ ToSet(s.transactionQueue) \cap ToSet(s.pendingRead) = {}
  /\ ToSet(s.pendingTransactions) \cap ToSet(s.pendingRead) = {}
  /\ ToSet(s.transactionQueue) \subseteq DOMAIN hist
  /\ ToSet(s.pendingTransactions) \subseteq DOMAIN hist
  /\ ToSet(s.pendingRead) \subseteq DOMAIN hist

LEMMA SeqFields ==
  ASSUME NEW s \in Memories
  PROVE  /\ s.transactionQueue \in Seq(Nat) /\ s.pendingTransactions \in Seq(Nat)
         /\ s.pendingRead \in Seq(Nat)
BY DEF Memories

LEMMA FreshAdded ==
  ASSUME NEW s \in Memories, Fresh(s),
         NEW t \in Memories, t.pendingRead = s.pendingRead,
         \/ /\ t.transactionQueue = s.transactionQueue
            /\ t.pendingTransactions = s.pendingTransactions
         \/ /\ s.pendingTransactions # <<>>
            /\ t.transactionQueue = Append(s.transactionQueue, Head(s.pendingTransactions))
            /\ t.pendingTransactions = Tail(s.pendingTransactions)
  PROVE  Fresh(t)
<1>1. CASE /\ t.transactionQueue = s.transactionQueue
           /\ t.pendingTransactions = s.pendingTransactions
  BY <1>1 DEF Fresh
<1>2. CASE /\ s.pendingTransactions # <<>>
           /\ t.transactionQueue = Append(s.transactionQueue, Head(s.pendingTransactions))
           /\ t.pendingTransactions = Tail(s.pendingTransactions)
  <2>1. PICK q \in Seq(Nat), p \in Seq(Nat) :
          q = s.transactionQueue /\ p = s.pendingTransactions
    BY SeqFields
  <2> DEFINE r == ToSet(s.pendingRead)
  <2>2. /\ IsInjective(q) /\ IsInjective(p) /\ p # <<>>
        /\ ToSet(q) \cap ToSet(p) = {} /\ ToSet(q) \cap r = {} /\ ToSet(p) \cap r = {}
        /\ ToSet(q) \subseteq DOMAIN hist /\ ToSet(p) \subseteq DOMAIN hist
        /\ r \subseteq DOMAIN hist /\ IsInjective(s.pendingRead)
    BY <1>2, <2>1 DEF Fresh
  <2> HIDE DEF r
  <2>3. PICK e \in Nat : e = Head(p) /\ e \in ToSet(p)
    BY <2>2, TailElements, TailProperties
  <2>4. ToSet(Tail(p)) = ToSet(p) \ {e} /\ IsInjective(Tail(p))
    BY <2>2, <2>3, TailElements
  <2>5. ToSet(Append(q, e)) = ToSet(q) \cup {e} /\ IsInjective(Append(q, e))
    BY <2>2, <2>3, AppendElements
  <2>6. /\ t.transactionQueue = Append(q, e) /\ t.pendingTransactions = Tail(p)
        /\ ToSet(t.pendingRead) = r /\ IsInjective(t.pendingRead)
    BY <1>2, <2>1, <2>2, <2>3 DEF r
  <2> QED BY <2>2, <2>3, <2>4, <2>5, <2>6, Zenon DEF Fresh
<1> QED BY <1>1, <1>2

LEMMA FreshScheduled ==
  ASSUME NEW s \in Memories, Fresh(s),
         NEW t \in Memories, t.pendingTransactions = s.pendingTransactions,
         NEW i \in DOMAIN s.transactionQueue, Schedules(s, i, t)
  PROVE  Fresh(t)
<1>1. PICK q \in Seq(Nat), p \in Seq(Nat), r \in Seq(Nat) :
        q = s.transactionQueue /\ p = s.pendingTransactions /\ r = s.pendingRead
  BY SeqFields
<1>2. /\ IsInjective(q) /\ IsInjective(p) /\ IsInjective(r)
      /\ ToSet(q) \cap ToSet(p) = {} /\ ToSet(q) \cap ToSet(r) = {}
      /\ ToSet(p) \cap ToSet(r) = {}
      /\ ToSet(q) \subseteq DOMAIN hist /\ ToSet(p) \subseteq DOMAIN hist
      /\ ToSet(r) \subseteq DOMAIN hist
  BY <1>1 DEF Fresh
<1>3. i \in DOMAIN q /\ q[i] \in Nat /\ q[i] \in ToSet(q)
  BY <1>1, ElementOfSeq DEF ToSet
<1>4. ToSet(RemoveAt(q, i)) = ToSet(q) \ {q[i]} /\ IsInjective(RemoveAt(q, i))
  BY <1>1, <1>2, <1>3, RemoveAtElements
<1>5. ToSet(Append(r, q[i])) = ToSet(r) \cup {q[i]} /\ IsInjective(Append(r, q[i]))
  <2>1. q[i] \notin ToSet(r)
    BY <1>2, <1>3
  <2> QED BY <1>1, <1>2, <1>3, <2>1, AppendElements
<1>6. /\ t.transactionQueue = RemoveAt(q, i) /\ t.pendingTransactions = p
      /\ t.pendingRead = r \/ t.pendingRead = Append(r, q[i])
  <2>1. t.transactionQueue = RemoveAt(s.transactionQueue, i)
    BY Zenon DEF Schedules
  <2>2. \/ t.pendingRead = s.pendingRead
        \/ t.pendingRead = Append(s.pendingRead, s.transactionQueue[i])
    BY Zenon DEF Schedules
  <2> QED BY <1>1, <2>1, <2>2, Zenon
<1>7. /\ ToSet(t.pendingRead) = ToSet(r) \/ ToSet(t.pendingRead) = ToSet(r) \cup {q[i]}
      /\ IsInjective(t.pendingRead)
  BY <1>2, <1>5, <1>6, Zenon
<1> QED BY <1>2, <1>3, <1>4, <1>6, <1>7, Zenon DEF Fresh

LEMMA FreshReturned ==
  ASSUME NEW s \in Memories, Fresh(s),
         NEW t \in Memories, t.pendingTransactions = s.pendingTransactions,
         t.transactionQueue = s.transactionQueue,
         NEW m \in DOMAIN s.pendingRead, t.pendingRead = RemoveAt(s.pendingRead, m)
  PROVE  Fresh(t)
<1>1. PICK r \in Seq(Nat) : r = s.pendingRead
  BY SeqFields
<1>2. IsInjective(r) /\ m \in DOMAIN r
  BY <1>1 DEF Fresh
<1>3. ToSet(RemoveAt(r, m)) \subseteq ToSet(r) /\ IsInjective(RemoveAt(r, m))
  BY <1>1, <1>2, RemoveAtElements
<1>4. ToSet(t.pendingRead) \subseteq ToSet(s.pendingRead) /\ IsInjective(t.pendingRead)
  BY <1>1, <1>3
<1> QED BY <1>4, Zenon DEF Fresh

LEMMA SameFresh ==
  ASSUME NEW s, Fresh(s), NEW t, t.pendingTransactions = s.pendingTransactions,
         t.transactionQueue = s.transactionQueue, t.pendingRead = s.pendingRead
  PROVE  Fresh(t)
BY DEF Fresh

-----------------------------------------------------------------------------
\* A cycle of the memory

(* Between two calls of update: nothing has failed, no data is kept back,  *)
(* the rank will accept the command on the bus, the queues hold what the   *)
(* banks can do next, the bursts on their way are apart, and the pending   *)
(* reads are the ones on their way, in order.                              *)
Good(s) ==
  /\ s \in Memories /\ s.error = "none" /\ s.returning = <<>>
  /\ s.cmd # NoCommand => s.cmdLeft = 1 /\ ValidCommand(s.cmd)
  /\ Agreement(s.rank, s.bank, s.cmd)
  /\ QueuesShaped(s)
  /\ BusKept(s)
  /\ PendingKept(s)
  /\ Fresh(s)

\* The first part of update: everything that is on its way moves on.
Moves(s) ==
  FawTick(Refresh(SendWriteData(DeliverData(DeliverCommand(UpdateBankStates(
    AddPending(RankUpdate([s EXCEPT !.completed = <<>>]))))))))

LEMMA ReadMoves ==
  ASSUME NEW s \in Memories, Lane(s.rankData, s.reading), s.returning = <<>>,
         NEW t, t = RankUpdate([s EXCEPT !.completed = <<>>])
  PROVE  /\ t \in Memories
         /\ t.bank = s.bank /\ t.rank = s.rank /\ t.cmd = s.cmd /\ t.cmdLeft = s.cmdLeft
         /\ t.data = s.data /\ t.writing = s.writing /\ t.queue = s.queue
         /\ t.transactionQueue = s.transactionQueue /\ t.pendingRead = s.pendingRead
         /\ t.pendingTransactions = s.pendingTransactions
         /\ t.refreshCountdown = s.refreshCountdown /\ t.refreshWaiting = s.refreshWaiting
         /\ t.error = s.error
         /\ t.rankData = NextOn(s.rankData, s.reading) /\ t.reading = NextLeft(s.reading)
         /\ t.returning = IF s.rankData.id # None /\ s.rankData.left = 1
                            THEN <<s.rankData.id>> ELSE <<>>
         /\ t.completed = <<>>
<1>1. PICK r : r = [s EXCEPT !.completed = <<>>]
  OBVIOUS
<1>2. /\ r \in Memories
      /\ r.bank = s.bank /\ r.rank = s.rank /\ r.cmd = s.cmd /\ r.cmdLeft = s.cmdLeft
      /\ r.data = s.data /\ r.writing = s.writing /\ r.queue = s.queue
      /\ r.rankData = s.rankData /\ r.reading = s.reading /\ r.returning = <<>>
      /\ r.transactionQueue = s.transactionQueue /\ r.pendingRead = s.pendingRead
      /\ r.pendingTransactions = s.pendingTransactions
      /\ r.refreshCountdown = s.refreshCountdown /\ r.refreshWaiting = s.refreshWaiting
      /\ r.error = s.error /\ r.completed = <<>>
  <2>1. <<>> \in Seq(Nat)
    OBVIOUS
  <2>2. \A f \in Seq(Nat) : [s EXCEPT !.completed = f] \in Memories
    BY DEF Memories
  <2>3. r \in Memories
    BY <1>1, <2>1, <2>2, Zenon
  <2> QED BY <1>1, <2>3 DEF Memories
<1>3. t = RankUpdate(r)
  BY <1>1
<1>4. s.rankData \in Packets /\ s.reading \in Seq(Packets)
  BY DEF Memories
<1>5. Ready(s.reading) => Idle(s.rankData)
  BY <1>4, LaneNext
<1>6. r.rankData.id # None => r.rankData.left >= 1
  <2>1. s.rankData.id # None => s.rankData.left \in 1 .. Burst
    BY DEF Lane
  <2> QED BY <1>2, <2>1
<1>6a. RankUpdated(r, t)
  BY <1>2, <1>3, <1>6, RankUpdateFields, Zenon
<1>7. /\ t \in Memories
      /\ t.bank = r.bank /\ t.rank = r.rank /\ t.cmd = r.cmd /\ t.cmdLeft = r.cmdLeft
      /\ t.data = r.data /\ t.writing = r.writing /\ t.queue = r.queue
      /\ t.transactionQueue = r.transactionQueue /\ t.pendingRead = r.pendingRead
      /\ t.pendingTransactions = r.pendingTransactions
      /\ t.refreshCountdown = r.refreshCountdown /\ t.refreshWaiting = r.refreshWaiting
      /\ t.completed = r.completed
  BY <1>6a, Zenon DEF RankUpdated
<1>8. t.returning = IF r.rankData.id # None /\ r.rankData.left = 1
                      THEN Append(r.returning, r.rankData.id) ELSE r.returning
  BY <1>6a, Zenon DEF RankUpdated
<1>9. LET w == Waiting(r.reading)
          ready == w # <<>> /\ Head(w).left = 0
          idle == r.rankData.id = None \/ r.rankData.left = 1
      IN  /\ t.reading = IF ready THEN Tail(w) ELSE w
          /\ t.rankData = IF ready THEN [id |-> Head(w).id, left |-> Burst]
                          ELSE IF idle THEN [id |-> None, left |-> 0]
                          ELSE [id |-> r.rankData.id, left |-> r.rankData.left - 1]
          /\ ~ready \/ idle => t.error = r.error
  BY <1>6a, Zenon DEF RankUpdated
<1>10. /\ t.reading = NextLeft(s.reading) /\ t.rankData = NextOn(s.rankData, s.reading)
       /\ t.error = s.error
  BY <1>2, <1>5, <1>9, Zenon DEF NextOn, NextLeft, Ready, Idle
<1>11. t.returning = IF s.rankData.id # None /\ s.rankData.left = 1
                       THEN <<s.rankData.id>> ELSE <<>>
  <2>1. Append(<<>>, s.rankData.id) = <<s.rankData.id>>
    OBVIOUS
  <2> QED BY <1>2, <1>8, <2>1, Zenon
<1> QED BY <1>2, <1>7, <1>10, <1>11, Zenon

LEMMA WriteMoves ==
  ASSUME NEW s \in Memories, Lane(s.data, s.writing), s.data.id = None => s.data.left = 0,
         NEW t, t = SendWriteData(DeliverData(s))
  PROVE  /\ t \in Memories
         /\ t.bank = s.bank /\ t.rank = s.rank /\ t.cmd = s.cmd /\ t.cmdLeft = s.cmdLeft
         /\ t.queue = s.queue
         /\ t.rankData = s.rankData /\ t.reading = s.reading /\ t.returning = s.returning
         /\ t.transactionQueue = s.transactionQueue /\ t.pendingRead = s.pendingRead
         /\ t.pendingTransactions = s.pendingTransactions
         /\ t.refreshCountdown = s.refreshCountdown /\ t.refreshWaiting = s.refreshWaiting
         /\ t.error = s.error
         /\ t.data = NextOn(s.data, s.writing) /\ t.writing = NextLeft(s.writing)
         /\ t.completed = IF s.data.id # None /\ s.data.left = 1
                            THEN Append(s.completed, s.data.id) ELSE s.completed
<1>1. PICK r : r = DeliverData(s)
  OBVIOUS
<1>2. /\ r \in Memories
      /\ r.bank = s.bank /\ r.rank = s.rank /\ r.cmd = s.cmd /\ r.cmdLeft = s.cmdLeft
      /\ r.writing = s.writing /\ r.queue = s.queue
      /\ r.rankData = s.rankData /\ r.reading = s.reading /\ r.returning = s.returning
      /\ r.transactionQueue = s.transactionQueue /\ r.pendingRead = s.pendingRead
      /\ r.pendingTransactions = s.pendingTransactions
      /\ r.refreshCountdown = s.refreshCountdown /\ r.refreshWaiting = s.refreshWaiting
      /\ r.error = s.error
  BY <1>1, DeliverDataFields, Zenon
<1>3. s.data \in Packets /\ s.writing \in Seq(Packets)
  BY DEF Memories
<1>4. Ready(s.writing) => Idle(s.data)
  BY <1>3, LaneNext
<1>5. r.data = IF Idle(s.data) THEN [id |-> None, left |-> 0]
               ELSE [id |-> s.data.id, left |-> s.data.left - 1]
  <2>1. r.data = IF s.data.id = None THEN s.data
                 ELSE IF s.data.left > 1 THEN [id |-> s.data.id, left |-> s.data.left - 1]
                 ELSE [id |-> None, left |-> 0]
    BY <1>1, DeliverDataFields, Zenon
  <2>2. CASE s.data.id = None
    BY <1>3, <2>1, <2>2 DEF Packets, Idle
  <2>3. CASE s.data.id # None
    <3>1. s.data.left \in 1 .. Burst /\ s.data.left \in Int
      BY <1>3, <2>3, TimingType DEF Lane, Packets
    <3>2. s.data.left > 1 <=> s.data.left # 1
      BY <3>1, TimingType
    <3> QED BY <2>1, <2>3, <3>2, Zenon DEF Idle
  <2> QED BY <2>2, <2>3
<1>6. t = SendWriteData(r)
  BY <1>1
<1>12. r.completed = IF s.data.id # None /\ s.data.left = 1
                       THEN Append(s.completed, s.data.id) ELSE s.completed
  <2>1. r.completed = IF s.data.id # None /\ ~(s.data.left > 1)
                        THEN Append(s.completed, s.data.id) ELSE s.completed
    BY <1>1, DeliverDataFields, Zenon
  <2>2. s.data.id # None => (~(s.data.left > 1) <=> s.data.left = 1)
    <3>1. s.data.id # None => s.data.left \in 1 .. Burst
      BY DEF Lane
    <3>2. \A n \in 1 .. Burst : ~(n > 1) <=> n = 1
      BY TimingType
    <3> QED BY <3>1, <3>2, Zenon
  <2> QED BY <2>1, <2>2, Zenon
<1>7. /\ t \in Memories
      /\ t.bank = r.bank /\ t.rank = r.rank /\ t.cmd = r.cmd /\ t.cmdLeft = r.cmdLeft
      /\ t.queue = r.queue
      /\ t.rankData = r.rankData /\ t.reading = r.reading /\ t.returning = r.returning
      /\ t.transactionQueue = r.transactionQueue /\ t.pendingRead = r.pendingRead
      /\ t.pendingTransactions = r.pendingTransactions
      /\ t.refreshCountdown = r.refreshCountdown /\ t.refreshWaiting = r.refreshWaiting
      /\ t.completed = r.completed
  BY <1>2, <1>6, SendWriteDataFields, ZenonT(40)
<1>8. LET w == Waiting(r.writing)
          ready == w # <<>> /\ Head(w).left = 0
      IN  ~ready \/ r.data.id = None =>
            /\ t.error = r.error
            /\ t.writing = IF ready THEN Tail(w) ELSE w
            /\ t.data = IF ready THEN [id |-> Head(w).id, left |-> Burst] ELSE r.data
  BY <1>2, <1>6, SendWriteDataFields, Zenon
<1>9. ~Ready(s.writing) \/ r.data.id = None
  BY <1>4, <1>5
<1>10. /\ t.error = s.error /\ t.writing = NextLeft(s.writing)
       /\ t.data = IF Ready(s.writing) THEN [id |-> Head(Waiting(s.writing)).id, left |-> Burst]
                   ELSE r.data
  BY <1>2, <1>8, <1>9, Zenon DEF NextLeft, Ready
<1>11. t.data = NextOn(s.data, s.writing)
  BY <1>5, <1>10, Zenon DEF NextOn
<1> QED BY <1>2, <1>7, <1>10, <1>11, <1>12, Zenon

\* The first pending transaction has entered the transaction queue, or none.
Entered(s, t) ==
  \/ /\ t.transactionQueue = s.transactionQueue
     /\ t.pendingTransactions = s.pendingTransactions
  \/ /\ s.pendingTransactions # <<>>
     /\ t.transactionQueue = Append(s.transactionQueue, Head(s.pendingTransactions))
     /\ t.pendingTransactions = Tail(s.pendingTransactions)

\* The refresh falls due, and the countdown starts again, or it goes on.
RefreshDue(s, m) ==
  /\ m.refreshCountdown = IF s.refreshCountdown = 0 THEN RefreshCycles ELSE s.refreshCountdown
  /\ m.refreshWaiting = (s.refreshWaiting \/ s.refreshCountdown = 0)

LEMMA MovesFields ==
  ASSUME hist \in Seq(Transactions), NEW s, Good(s), NEW m, m = Moves(s)
  PROVE  /\ m \in Memories /\ m.error = "none" /\ Moved(s, m) /\ Returned(s, m)
         /\ m.rank = View(s.rank, s.cmd) /\ m.pendingRead = s.pendingRead
         /\ Fresh(m) /\ m.refreshCountdown >= 1 /\ Entered(s, m)
         /\ m.completed = IF s.data.id # None /\ s.data.left = 1 THEN <<s.data.id>> ELSE <<>>
         /\ RefreshDue(s, m)
<1>1. /\ s \in Memories /\ s.error = "none" /\ s.returning = <<>>
      /\ s.cmd # NoCommand => s.cmdLeft = 1 /\ ValidCommand(s.cmd)
      /\ Agreement(s.rank, s.bank, s.cmd)
      /\ Lane(s.rankData, s.reading) /\ Lane(s.data, s.writing)
      /\ s.data.id = None => s.data.left = 0
      /\ Fresh(s)
  BY DEF Good, BusKept
<1>2. PICK s1 : s1 = RankUpdate([s EXCEPT !.completed = <<>>])
  OBVIOUS
<1>3. PICK s2 : s2 = AddPending(s1)
  OBVIOUS
<1>4. PICK s3 : s3 = UpdateBankStates(s2)
  OBVIOUS
<1>5. PICK s4 : s4 = DeliverCommand(s3)
  OBVIOUS
<1>6. PICK s5 : s5 = SendWriteData(DeliverData(s4))
  OBVIOUS
<1>7. m = FawTick(Refresh(s5))
  BY <1>2, <1>3, <1>4, <1>5, <1>6 DEF Moves
<1>8. /\ s1 \in Memories
      /\ s1.bank = s.bank /\ s1.rank = s.rank /\ s1.cmd = s.cmd /\ s1.cmdLeft = s.cmdLeft
      /\ s1.data = s.data /\ s1.writing = s.writing /\ s1.queue = s.queue
      /\ s1.transactionQueue = s.transactionQueue /\ s1.pendingRead = s.pendingRead
      /\ s1.pendingTransactions = s.pendingTransactions
      /\ s1.error = s.error /\ s1.completed = <<>>
      /\ s1.rankData = NextOn(s.rankData, s.reading) /\ s1.reading = NextLeft(s.reading)
      /\ s1.returning = IF s.rankData.id # None /\ s.rankData.left = 1
                          THEN <<s.rankData.id>> ELSE <<>>
  <2>1. /\ s1 \in Memories
        /\ s1.bank = s.bank /\ s1.rank = s.rank /\ s1.cmd = s.cmd /\ s1.cmdLeft = s.cmdLeft
    BY <1>1, <1>2, ReadMoves, Zenon
  <2>2. /\ s1.data = s.data /\ s1.writing = s.writing /\ s1.queue = s.queue
        /\ s1.transactionQueue = s.transactionQueue /\ s1.pendingRead = s.pendingRead
    BY <1>1, <1>2, ReadMoves, Zenon
  <2>3. /\ s1.pendingTransactions = s.pendingTransactions /\ s1.error = s.error
        /\ s1.completed = <<>>
    BY <1>1, <1>2, ReadMoves, Zenon
  <2>4. /\ s1.rankData = NextOn(s.rankData, s.reading) /\ s1.reading = NextLeft(s.reading)
        /\ s1.returning = IF s.rankData.id # None /\ s.rankData.left = 1
                            THEN <<s.rankData.id>> ELSE <<>>
    BY <1>1, <1>2, ReadMoves, Zenon
  <2> QED BY <2>1, <2>2, <2>3, <2>4, Zenon
<1>9. /\ s2 \in Memories
      /\ s2.bank = s1.bank /\ s2.rank = s1.rank /\ s2.cmd = s1.cmd /\ s2.cmdLeft = s1.cmdLeft
      /\ s2.data = s1.data /\ s2.writing = s1.writing /\ s2.queue = s1.queue
      /\ s2.rankData = s1.rankData /\ s2.reading = s1.reading /\ s2.returning = s1.returning
      /\ s2.pendingRead = s1.pendingRead /\ s2.error = s1.error
      /\ s2.completed = s1.completed
      /\ \/ /\ s2.transactionQueue = s1.transactionQueue
            /\ s2.pendingTransactions = s1.pendingTransactions
         \/ /\ s1.pendingTransactions # <<>>
            /\ s2.transactionQueue = Append(s1.transactionQueue, Head(s1.pendingTransactions))
            /\ s2.pendingTransactions = Tail(s1.pendingTransactions)
  <2>1. PendingAdded(s1, s2)
    BY <1>3, <1>8, AddPendingFields, Zenon
  <2> QED BY <2>1, Zenon DEF PendingAdded
<1>10. Fresh(s2)
  <2>1. Fresh(s1)
    BY <1>1, <1>8, SameFresh, Zenon
  <2> QED BY <1>8, <1>9, <2>1, FreshAdded, Zenon
<1>11. /\ s3 \in Memories
       /\ s3.bank = [b \in Banks |-> BankTick(s2.bank[b])]
       /\ s3.rank = s2.rank /\ s3.cmd = s2.cmd /\ s3.cmdLeft = s2.cmdLeft
       /\ s3.data = s2.data /\ s3.writing = s2.writing /\ s3.queue = s2.queue
       /\ s3.rankData = s2.rankData /\ s3.reading = s2.reading /\ s3.returning = s2.returning
       /\ s3.pendingRead = s2.pendingRead /\ s3.error = s2.error
       /\ s3.completed = s2.completed
       /\ s3.transactionQueue = s2.transactionQueue
       /\ s3.pendingTransactions = s2.pendingTransactions
  <2>1. BanksUpdated(s2, s3)
    BY <1>4, <1>9, UpdateBankStatesFields, Zenon
  <2> QED BY <2>1, Zenon DEF BanksUpdated
<1>12. s3.cmd # NoCommand =>
         s3.cmdLeft = 1 /\ ValidCommand(s3.cmd) /\ RankAllows(s3, s3.cmd)
  <2>1. s3.cmd = s.cmd /\ s3.cmdLeft = s.cmdLeft /\ s3.rank = s.rank
    BY <1>8, <1>9, <1>11
  <2>2. s.cmd # NoCommand => RankAllows([rank |-> s.rank], s.cmd)
    BY <1>1 DEF Agreement
  <2>3. RankAllows([rank |-> s.rank], s.cmd) => RankAllows(s3, s.cmd)
    <3>1. [rank |-> s.rank].rank = s3.rank
      BY <2>1
    <3> QED BY <3>1, Zenon DEF RankAllows
  <2> QED BY <1>1, <2>1, <2>2, <2>3
<1>13. /\ s4 \in Memories
       /\ s4.bank = s3.bank /\ s4.data = s3.data /\ s4.writing = s3.writing
       /\ s4.queue = s3.queue
       /\ s4.rankData = s3.rankData /\ s4.returning = s3.returning
       /\ s4.transactionQueue = s3.transactionQueue /\ s4.pendingRead = s3.pendingRead
       /\ s4.pendingTransactions = s3.pendingTransactions
       /\ s4.error = s3.error /\ s4.completed = s3.completed
       /\ s4.cmd = NoCommand /\ s4.rank = View(s3.rank, s3.cmd)
       /\ s4.reading = IF s3.cmd.type = "READ_P"
                         THEN Append(s3.reading, [id |-> s3.cmd.id, left |-> RL])
                         ELSE s3.reading
  <2>1. Delivered(s3, s4)
    BY <1>5, <1>11, <1>12, DeliverCommandFields, Zenon
  <2> QED BY <2>1, Zenon DEF Delivered
<1>14. Lane(s4.data, s4.writing) /\ (s4.data.id = None => s4.data.left = 0)
  BY <1>1, <1>8, <1>9, <1>11, <1>13
<1>15. /\ s5 \in Memories
       /\ s5.bank = s4.bank /\ s5.rank = s4.rank /\ s5.cmd = s4.cmd
       /\ s5.queue = s4.queue
       /\ s5.rankData = s4.rankData /\ s5.reading = s4.reading /\ s5.returning = s4.returning
       /\ s5.transactionQueue = s4.transactionQueue /\ s5.pendingRead = s4.pendingRead
       /\ s5.pendingTransactions = s4.pendingTransactions
       /\ s5.error = s4.error
       /\ s5.data = NextOn(s4.data, s4.writing) /\ s5.writing = NextLeft(s4.writing)
       /\ s5.completed = IF s4.data.id # None /\ s4.data.left = 1
                         THEN Append(s4.completed, s4.data.id) ELSE s4.completed
  <2>1. /\ s5 \in Memories
        /\ s5.bank = s4.bank /\ s5.rank = s4.rank /\ s5.cmd = s4.cmd
        /\ s5.queue = s4.queue
    BY <1>6, <1>13, <1>14, WriteMoves, Zenon
  <2>2. /\ s5.rankData = s4.rankData /\ s5.reading = s4.reading
        /\ s5.returning = s4.returning
    BY <1>6, <1>13, <1>14, WriteMoves, Zenon
  <2>3. /\ s5.transactionQueue = s4.transactionQueue /\ s5.pendingRead = s4.pendingRead
        /\ s5.pendingTransactions = s4.pendingTransactions
        /\ s5.error = s4.error
    BY <1>6, <1>13, <1>14, WriteMoves, Zenon
  <2>4. s5.data = NextOn(s4.data, s4.writing) /\ s5.writing = NextLeft(s4.writing)
    BY <1>6, <1>13, <1>14, WriteMoves, Zenon
  <2>5. s5.completed = IF s4.data.id # None /\ s4.data.left = 1
                       THEN Append(s4.completed, s4.data.id) ELSE s4.completed
    BY <1>6, <1>13, <1>14, WriteMoves, Zenon
  <2> QED BY <2>1, <2>2, <2>3, <2>4, <2>5, Zenon
<1>16. /\ m \in Memories
       /\ m.bank = s5.bank /\ m.rank = s5.rank /\ m.cmd = s5.cmd
       /\ m.data = s5.data /\ m.writing = s5.writing /\ m.queue = s5.queue
       /\ m.rankData = s5.rankData /\ m.reading = s5.reading /\ m.returning = s5.returning
       /\ m.pendingRead = s5.pendingRead /\ m.error = s5.error
       /\ m.transactionQueue = s5.transactionQueue
       /\ m.pendingTransactions = s5.pendingTransactions
       /\ m.refreshCountdown >= 1 /\ m.completed = s5.completed
  <2>1. /\ m \in Memories
        /\ m.bank = s5.bank /\ m.rank = s5.rank /\ m.cmd = s5.cmd
    BY <1>7, <1>15, FawTickFields, Zenon
  <2>2. m.data = s5.data /\ m.writing = s5.writing /\ m.queue = s5.queue
    BY <1>7, <1>15, FawTickFields, Zenon
  <2>3. m.rankData = s5.rankData /\ m.reading = s5.reading /\ m.returning = s5.returning
    BY <1>7, <1>15, FawTickFields, Zenon
  <2>4. /\ m.pendingRead = s5.pendingRead /\ m.error = s5.error
        /\ m.transactionQueue = s5.transactionQueue
    BY <1>7, <1>15, FawTickFields, Zenon
  <2>5. /\ m.pendingTransactions = s5.pendingTransactions /\ m.refreshCountdown >= 1
        /\ m.completed = s5.completed
    BY <1>7, <1>15, FawTickFields, Zenon
  <2> QED BY <2>1, <2>2, <2>3, <2>4, <2>5, Zenon
<1>17. m.data = NextOn(s.data, s.writing) /\ m.writing = NextLeft(s.writing)
  BY <1>8, <1>9, <1>11, <1>13, <1>15, <1>16
<1>18. /\ m.rankData = NextOn(s.rankData, s.reading)
       /\ m.reading = IF s.cmd.type = "READ_P"
                        THEN Append(NextLeft(s.reading), [id |-> s.cmd.id, left |-> RL])
                        ELSE NextLeft(s.reading)
  BY <1>8, <1>9, <1>11, <1>13, <1>15, <1>16
<1>19. m.bank = [b \in Banks |-> BankTick(s.bank[b])] /\ m.cmd = NoCommand
  BY <1>8, <1>9, <1>11, <1>13, <1>15, <1>16
<1>20. m.rank = View(s.rank, s.cmd) /\ m.pendingRead = s.pendingRead /\ m.error = "none"
  BY <1>1, <1>8, <1>9, <1>11, <1>13, <1>15, <1>16
<1>21. Returned(s, m)
  BY <1>8, <1>9, <1>11, <1>13, <1>15, <1>16 DEF Returned
<1>22. Fresh(m)
  <2>1. /\ m.transactionQueue = s2.transactionQueue /\ m.pendingRead = s2.pendingRead
        /\ m.pendingTransactions = s2.pendingTransactions
    BY <1>11, <1>13, <1>15, <1>16
  <2> QED BY <1>10, <2>1, SameFresh, Zenon
<1>23. Entered(s, m)
  <2>1. /\ m.transactionQueue = s2.transactionQueue
        /\ m.pendingTransactions = s2.pendingTransactions
    BY <1>11, <1>13, <1>15, <1>16
  <2> QED BY <1>8, <1>9, <2>1, Zenon DEF Entered
<1>24. m.completed = IF s.data.id # None /\ s.data.left = 1 THEN <<s.data.id>> ELSE <<>>
  <2>1. s4.data = s.data /\ s4.completed = <<>> /\ m.completed = s5.completed
    BY <1>8, <1>9, <1>11, <1>13, <1>16
  <2>2. Append(<<>>, s.data.id) = <<s.data.id>>
    OBVIOUS
  <2> QED BY <1>15, <2>1, <2>2, Zenon
<1>25. RefreshDue(s, m)
  <2>1. s1.refreshCountdown = s.refreshCountdown /\ s1.refreshWaiting = s.refreshWaiting
    BY <1>1, <1>2, ReadMoves, Zenon
  <2>2. s2.refreshCountdown = s1.refreshCountdown /\ s2.refreshWaiting = s1.refreshWaiting
    <3>1. PendingAdded(s1, s2)
      BY <1>3, <1>8, AddPendingFields, Zenon
    <3> QED BY <3>1, Zenon DEF PendingAdded
  <2>3. s3.refreshCountdown = s2.refreshCountdown /\ s3.refreshWaiting = s2.refreshWaiting
    <3>1. BanksUpdated(s2, s3)
      BY <1>4, <1>9, UpdateBankStatesFields, Zenon
    <3> QED BY <3>1, Zenon DEF BanksUpdated
  <2>4. s4.refreshCountdown = s3.refreshCountdown /\ s4.refreshWaiting = s3.refreshWaiting
    <3>1. Delivered(s3, s4)
      BY <1>5, <1>11, <1>12, DeliverCommandFields, Zenon
    <3> QED BY <3>1, Zenon DEF Delivered
  <2>5. s5.refreshCountdown = s4.refreshCountdown /\ s5.refreshWaiting = s4.refreshWaiting
    BY <1>6, <1>13, <1>14, WriteMoves, Zenon
  <2>6. RefreshDue(s5, m)
    BY <1>7, <1>15, FawTickFields, Zenon DEF RefreshDue
  <2> QED BY <2>1, <2>2, <2>3, <2>4, <2>5, <2>6, Zenon DEF RefreshDue
<1> QED BY <1>16, <1>17, <1>18, <1>19, <1>20, <1>21, <1>22, <1>23, <1>24, <1>25 DEF Moved

\* The whole of update.
Cycle(s) == Step(ReturnData(ScheduleTransaction(IssueCommand(Moves(s)))))

\* The packet whose last cycle on the bus has come, and those of both lanes.
Ending(p) == {x \in {p.id} : x # None /\ p.left = 1}
Finished(s) == Ending(s.data) \cup Ending(s.rankData)

\* Nothing of the bursts on their way has changed.
SameBursts(s, t) ==
  /\ t.cmd = s.cmd /\ t.data = s.data /\ t.writing = s.writing
  /\ t.rankData = s.rankData /\ t.reading = s.reading

(* A cycle from s to u: m when everything has moved on, t when a command   *)
(* is sent, v when a transaction is broken up.                             *)
Parts(s, m, t, v, u) ==
  /\ Moved(s, m) /\ m.queue = s.queue /\ Entered(s, m) /\ QueuesShaped(m)
  /\ t = m \/ \E c \in Commands : Sends(m, c, t)
  /\ t.rankData = m.rankData /\ t.reading = m.reading /\ t.data = m.data
  /\ t.transactionQueue = m.transactionQueue
  /\ t.pendingTransactions = m.pendingTransactions
  /\ QueuesShaped(t)
  /\ v = t \/ \E i \in DOMAIN t.transactionQueue : Schedules(t, i, v)
  /\ SameBursts(t, v) /\ v.pendingTransactions = t.pendingTransactions
  /\ SameBursts(v, u) /\ u.queue = v.queue
  /\ u.transactionQueue = v.transactionQueue
  /\ u.pendingTransactions = v.pendingTransactions
  /\ RefreshDue(s, m)
  /\ RefreshChoice(m) = {} \/ \E c \in Commands : Sends(m, c, t)
  /\ u.refreshWaiting = t.refreshWaiting /\ u.refreshCountdown = m.refreshCountdown - 1
  /\ u.bank = [b \in Banks |-> Aged(t.bank[b])]

LEMMA CycleGood ==
  ASSUME hist \in Seq(Transactions), NEW s, Good(s), NEW u, u = Cycle(s)
  PROVE  /\ Good(u) /\ ToSet(u.completed) = Finished(s)
         /\ \E m, t, v \in Memories : Parts(s, m, t, v, u)
<1>1. /\ s \in Memories /\ s.returning = <<>>
      /\ s.cmd # NoCommand => ValidCommand(s.cmd)
      /\ s.cmd.type = "READ_P" => s.cmd.id # None
      /\ Agreement(s.rank, s.bank, s.cmd)
      /\ QueuesShaped(s) /\ BusKept(s) /\ PendingKept(s)
  <2>1. s.cmd.type = "READ_P" => s.cmd # NoCommand /\ s.cmd # [type |-> "REFRESH", id |-> None]
    BY DEF NoCommand
  <2>2. s.cmd.type = "READ_P" => s.cmd.id \in DOMAIN hist
    BY <2>1 DEF Good, ValidCommand
  <2> QED BY <2>2, HistType DEF Good
<1>2. PICK m : m = Moves(s)
  OBVIOUS
<1>3. PICK t : t = IssueCommand(m)
  OBVIOUS
<1>4. PICK v : v = ScheduleTransaction(t)
  OBVIOUS
<1>5. PICK w : w = ReturnData(v)
  OBVIOUS
<1>6. u = Step(w)
  BY <1>2, <1>3, <1>4, <1>5 DEF Cycle
<1>7. /\ m \in Memories /\ m.error = "none" /\ Moved(s, m) /\ Returned(s, m)
      /\ m.rank = View(s.rank, s.cmd) /\ m.pendingRead = s.pendingRead
      /\ Fresh(m) /\ m.refreshCountdown >= 1 /\ Entered(s, m)
      /\ m.completed = IF s.data.id # None /\ s.data.left = 1 THEN <<s.data.id>> ELSE <<>>
      /\ RefreshDue(s, m)
  BY <1>2, MovesFields, Zenon
<1>8. /\ m.bank = [b \in Banks |-> BankTick(s.bank[b])] /\ m.cmd = NoCommand
      /\ m.queue = s.queue
      /\ m.returning = IF s.rankData.id # None /\ s.rankData.left = 1
                         THEN <<s.rankData.id>> ELSE <<>>
  BY <1>7 DEF Moved, Returned
<1>9. QueuesShaped(m)
  BY <1>1, <1>7, <1>8, TickShape, Zenon
<1>10. PendingKept(m)
  BY <1>1, <1>7, PendingMoved, Zenon
<1>11. /\ t \in Memories
       /\ t.rank = m.rank /\ t.data = m.data /\ t.rankData = m.rankData
       /\ t.reading = m.reading /\ t.returning = m.returning
       /\ t.transactionQueue = m.transactionQueue /\ t.pendingRead = m.pendingRead
       /\ t.pendingTransactions = m.pendingTransactions
       /\ t.refreshCountdown = m.refreshCountdown /\ t.error = m.error
       /\ t.completed = m.completed
       /\ t = m \/ \E c \in Commands : Sends(m, c, t)
  <2>1. /\ t \in Memories
        /\ t.rank = m.rank /\ t.data = m.data /\ t.rankData = m.rankData
        /\ t.reading = m.reading /\ t.returning = m.returning
    BY <1>3, <1>7, <1>8, <1>9, IssueCommandFields, Zenon
  <2>2. /\ t.transactionQueue = m.transactionQueue /\ t.pendingRead = m.pendingRead
        /\ t.pendingTransactions = m.pendingTransactions
        /\ t.refreshCountdown = m.refreshCountdown /\ t.error = m.error
        /\ t.completed = m.completed
    BY <1>3, <1>7, <1>8, <1>9, IssueCommandFields, Zenon
  <2>3. t = m \/ \E c \in Commands : Sends(m, c, t)
    BY <1>3, <1>7, <1>8, <1>9, IssueCommandFields, Zenon
  <2> QED BY <2>1, <2>2, <2>3, Zenon
<1>12. /\ QueuesShaped(t) /\ PendingKept(t) /\ Fresh(t)
       /\ t.cmd # NoCommand => t.cmdLeft = 1 /\ ValidCommand(t.cmd)
  <2>1. Fresh(t)
    BY <1>7, <1>11, SameFresh, Zenon
  <2>2. CASE t = m
    BY <1>8, <1>9, <1>10, <2>1, <2>2
  <2>3. CASE \E c \in Commands : Sends(m, c, t)
    <3>1. PICK c \in Commands : Sends(m, c, t)
      BY <2>3
    <3>2. QueuesShaped(t)
      BY <1>7, <1>9, <1>11, <3>1, SentShape, Zenon
    <3>3. PendingKept(t)
      BY <1>7, <1>8, <1>9, <1>10, <1>11, <3>1, SentPending, Zenon
    <3>4. t.cmdLeft = 1 /\ ValidCommand(t.cmd)
      BY <3>1, Zenon DEF Sends
    <3> QED BY <2>1, <3>2, <3>3, <3>4
  <2> QED BY <1>11, <2>2, <2>3, Zenon
<1>13. \A i \in DOMAIN t.transactionQueue : t.transactionQueue[i] \in ToSet(t.transactionQueue)
  BY DEF ToSet
<1>14. /\ \A i \in DOMAIN t.transactionQueue : t.transactionQueue[i] \in DOMAIN hist
       /\ \A i \in DOMAIN t.transactionQueue : t.transactionQueue[i] \notin ToSet(t.pendingRead)
       /\ IsInjective(t.pendingRead) /\ ToSet(t.pendingRead) \subseteq DOMAIN hist
  BY <1>12, <1>13 DEF Fresh
<1>15. /\ v \in Memories
       /\ v.bank = t.bank /\ v.rank = t.rank /\ v.cmd = t.cmd /\ v.cmdLeft = t.cmdLeft
       /\ v.data = t.data /\ v.writing = t.writing
       /\ v.rankData = t.rankData /\ v.reading = t.reading /\ v.returning = t.returning
       /\ v.pendingTransactions = t.pendingTransactions
       /\ v.refreshCountdown = t.refreshCountdown /\ v.error = t.error
       /\ v.completed = t.completed
       /\ v = t \/ \E i \in DOMAIN t.transactionQueue : Schedules(t, i, v)
  <2>1. ScheduleDone(t, v)
    BY <1>4, <1>11, <1>14, ScheduleFields, Zenon
  <2> QED BY <2>1, Zenon DEF ScheduleDone
<1>16. QueuesShaped(v) /\ PendingKept(v) /\ Fresh(v)
  <2>1. CASE v = t
    BY <1>12, <2>1
  <2>2. CASE \E i \in DOMAIN t.transactionQueue : Schedules(t, i, v)
    <3>1. PICK i \in DOMAIN t.transactionQueue : Schedules(t, i, v)
      BY <2>2
    <3>2. QueuesShaped(v)
      BY <1>11, <1>12, <1>14, <1>15, <3>1, ScheduledShape, Zenon
    <3>3. PendingKept(v)
      BY <1>11, <1>12, <1>14, <1>15, <3>1, SchedulePending, Zenon
    <3>4. Fresh(v)
      BY <1>11, <1>12, <1>15, <3>1, FreshScheduled, Zenon
    <3> QED BY <3>2, <3>3, <3>4
  <2> QED BY <1>15, <2>1, <2>2, Zenon
<1>17. v.returning = <<>> \/ \E id \in Nat \ {None} : v.returning = <<id>>
  <2>1. s.rankData.id \in Nat
    BY <1>1 DEF Memories, Packets
  <2>2. v.returning = IF s.rankData.id # None /\ s.rankData.left = 1
                        THEN <<s.rankData.id>> ELSE <<>>
    BY <1>8, <1>11, <1>15
  <2> QED BY <2>1, <2>2
<1>18. Len(v.returning) <= 1
  <2>1. Len(<<>>) <= 1 /\ \A id \in Nat : Len(<<id>>) <= 1
    OBVIOUS
  <2> QED BY <1>17, <2>1, Zenon
<1>19. v.returning # <<>> => \E k \in Nat : Matches(v, k)
  BY <1>15, <1>16, <1>17, FirstPending, Zenon DEF Fresh
<1>20. /\ w \in Memories /\ w.returning = <<>>
       /\ w.bank = v.bank /\ w.rank = v.rank /\ w.cmd = v.cmd /\ w.cmdLeft = v.cmdLeft
       /\ w.data = v.data /\ w.writing = v.writing /\ w.queue = v.queue
       /\ w.rankData = v.rankData /\ w.reading = v.reading
       /\ w.transactionQueue = v.transactionQueue
       /\ w.pendingTransactions = v.pendingTransactions
       /\ w.refreshCountdown = v.refreshCountdown /\ w.error = v.error
       /\ v.returning = <<>> => w.pendingRead = v.pendingRead /\ w.completed = v.completed
       /\ v.returning # <<>> =>
            \E k \in Nat : /\ Matches(v, k)
                           /\ w.pendingRead = RemoveAt(v.pendingRead, k)
                           /\ w.completed = Append(v.completed, v.pendingRead[k])
  <2>1. DataReturned(v, w)
    BY <1>5, <1>15, <1>18, <1>19, ReturnDataFields, Zenon
  <2> QED BY <2>1, Zenon DEF DataReturned
<1>21. QueuesShaped(w)
  BY <1>16, <1>20, Zenon DEF QueuesShaped
<1>22. PendingKept(w) /\ Fresh(w)
  <2>1. CASE v.returning = <<>>
    <3>1. w.pendingRead = v.pendingRead
      BY <1>20, <2>1
    <3> QED BY <1>15, <1>16, <1>20, <2>1, <3>1, SamePending, SameFresh, Zenon
  <2>2. CASE v.returning # <<>>
    <3>1. PICK id \in Nat \ {None} : v.returning = <<id>>
      BY <1>17, <2>2
    <3>2. PICK k \in Nat : Matches(v, k) /\ w.pendingRead = RemoveAt(v.pendingRead, k)
      BY <1>20, <2>2
    <3>3. k \in DOMAIN v.pendingRead /\ IsInjective(v.pendingRead)
      BY <1>16, <3>2 DEF Matches, Fresh
    <3>4. PendingKept(w)
      BY <1>15, <1>16, <1>20, <3>1, <3>2, <3>3, ReturnPending, Zenon
    <3>5. Fresh(w)
      BY <1>15, <1>16, <1>20, <3>2, <3>3, FreshReturned, Zenon
    <3> QED BY <3>4, <3>5
  <2> QED BY <2>1, <2>2
<1>23. w.refreshCountdown >= 1
  BY <1>7, <1>11, <1>15, <1>20
<1>24. /\ u \in Memories
       /\ u.bank = [b \in Banks |-> Aged(w.bank[b])]
       /\ u.rank = [b \in Banks |-> Aged(w.rank[b])]
       /\ u.cmd = w.cmd /\ u.cmdLeft = w.cmdLeft
       /\ u.data = w.data /\ u.writing = w.writing /\ u.queue = w.queue
       /\ u.rankData = w.rankData /\ u.reading = w.reading /\ u.returning = w.returning
       /\ u.transactionQueue = w.transactionQueue /\ u.pendingRead = w.pendingRead
       /\ u.pendingTransactions = w.pendingTransactions /\ u.error = w.error
       /\ u.completed = w.completed
  <2>1. Stepped(w, u)
    BY <1>6, <1>20, <1>23, StepFields, Zenon
  <2> QED BY <2>1, Zenon DEF Stepped
<1>25. /\ u.bank = [b \in Banks |-> Aged(t.bank[b])]
       /\ u.rank = [b \in Banks |-> Aged(t.rank[b])]
       /\ u.rankData = t.rankData /\ u.reading = t.reading
       /\ u.data = t.data /\ u.writing = t.writing /\ u.cmd = t.cmd /\ u.cmdLeft = t.cmdLeft
       /\ u.returning = <<>> /\ u.error = "none"
  BY <1>7, <1>11, <1>15, <1>20, <1>24
<1>26. BusKept(u)
  BY <1>1, <1>7, <1>9, <1>11, <1>24, <1>25, BusStep, Zenon
<1>27. Agreement(u.rank, u.bank, u.cmd)
  BY <1>1, <1>7, <1>8, <1>9, <1>11, <1>24, <1>25, AgreementStep, Zenon
<1>28. QueuesShaped(u)
  BY <1>20, <1>21, <1>24, AgedShape, Zenon
<1>29. PendingKept(u) /\ Fresh(u)
  BY <1>20, <1>22, <1>24, SamePending, SameFresh, Zenon
<1>30. Good(u)
  BY <1>12, <1>24, <1>25, <1>26, <1>27, <1>28, <1>29, Zenon DEF Good
<1>31. ToSet(u.completed) = Finished(s)
  <2>1. s.data.id \in Nat /\ s.rankData.id \in Nat
    BY <1>1 DEF Memories, Packets
  <2>2. u.completed = w.completed /\ v.completed = m.completed
    BY <1>11, <1>15, <1>24
  <2>3. ToSet(m.completed) = Ending(s.data) /\ m.completed \in Seq(Nat)
    <3>1. CASE s.data.id # None /\ s.data.left = 1
      <4>1. m.completed = <<s.data.id>>
        BY <1>7, <3>1
      <4>2. \A x \in Nat : ToSet(<<x>>) = {x} /\ <<x>> \in Seq(Nat)
        BY DEF ToSet
      <4> QED BY <2>1, <3>1, <4>1, <4>2 DEF Ending
    <3>2. CASE ~(s.data.id # None /\ s.data.left = 1)
      <4>1. m.completed = <<>>
        BY <1>7, <3>2
      <4>2. ToSet(<<>>) = {} /\ <<>> \in Seq(Nat)
        BY DEF ToSet
      <4>3. Ending(s.data) = {}
        BY <3>2 DEF Ending
      <4> QED BY <4>1, <4>2, <4>3
    <3> QED BY <3>1, <3>2
  <2>4. v.returning = IF s.rankData.id # None /\ s.rankData.left = 1
                        THEN <<s.rankData.id>> ELSE <<>>
    BY <1>8, <1>11, <1>15
  <2>5. CASE s.rankData.id # None /\ s.rankData.left = 1
    <3>1. v.returning = <<s.rankData.id>>
      BY <2>4, <2>5
    <3>2. v.returning # <<>> /\ v.returning[1] = s.rankData.id
      BY <3>1
    <3>3. PICK k \in Nat : Matches(v, k) /\ w.completed = Append(v.completed, v.pendingRead[k])
      BY <1>20, <3>2
    <3>4. u.completed = Append(m.completed, s.rankData.id)
      BY <2>2, <3>2, <3>3 DEF Matches
    <3>5. ToSet(u.completed) = ToSet(m.completed) \cup {s.rankData.id}
      BY <2>1, <2>3, <3>4, AppendElements
    <3>6. Ending(s.rankData) = {s.rankData.id}
      BY <2>5 DEF Ending
    <3> QED BY <2>3, <3>5, <3>6 DEF Finished
  <2>6. CASE ~(s.rankData.id # None /\ s.rankData.left = 1)
    <3>1. u.completed = m.completed
      BY <1>20, <2>2, <2>4, <2>6
    <3>2. Ending(s.rankData) = {}
      BY <2>6 DEF Ending
    <3> QED BY <2>3, <3>1, <3>2 DEF Finished
  <2> QED BY <2>5, <2>6
<1>32. Parts(s, m, t, v, u)
  <2>4. RefreshChoice(m) = {} \/ \E c \in Commands : Sends(m, c, t)
    BY <1>3, <1>7, <1>8, <1>9, IssueCommandFields, Zenon
  <2>5. v.refreshWaiting = t.refreshWaiting
    <3>1. ScheduleDone(t, v)
      BY <1>4, <1>11, <1>14, ScheduleFields, Zenon
    <3> QED BY <3>1, Zenon DEF ScheduleDone
  <2>6. w.refreshWaiting = v.refreshWaiting
    <3>1. DataReturned(v, w)
      BY <1>5, <1>15, <1>18, <1>19, ReturnDataFields, Zenon
    <3> QED BY <3>1, Zenon DEF DataReturned
  <2>7. u.refreshWaiting = w.refreshWaiting /\ u.refreshCountdown = w.refreshCountdown - 1
    <3>1. Stepped(w, u)
      BY <1>6, <1>20, <1>23, StepFields, Zenon
    <3> QED BY <3>1, Zenon DEF Stepped
  <2>8. u.refreshWaiting = t.refreshWaiting /\ u.refreshCountdown = m.refreshCountdown - 1
    BY <1>11, <1>15, <1>20, <2>5, <2>6, <2>7
  <2>1. SameBursts(t, v)
    BY <1>15 DEF SameBursts
  <2>2. SameBursts(v, u) /\ u.queue = v.queue
    BY <1>20, <1>24 DEF SameBursts
  <2>3. /\ u.transactionQueue = v.transactionQueue
        /\ u.pendingTransactions = v.pendingTransactions
    BY <1>20, <1>24
  <2> QED BY <1>7, <1>8, <1>9, <1>11, <1>12, <1>15, <1>25, <2>1, <2>2, <2>3, <2>4, <2>8, Zenon
             DEF Parts
<1> QED BY <1>7, <1>11, <1>15, <1>30, <1>31, <1>32

-----------------------------------------------------------------------------
\* Transactions added to hist change nothing of those issued before

Grows == /\ DOMAIN hist \subseteq DOMAIN hist'
         /\ \A i \in DOMAIN hist : hist'[i] = hist[i]

LEMMA GrownQueues ==
  ASSUME Grows, mem' \in Memories, QueuesShaped(mem')
  PROVE  QueuesShaped(mem)'
<1> SUFFICES ASSUME NEW b \in Banks
             PROVE  QueueShape(mem.queue[b], mem.bank[b], b)'
  BY DEF QueuesShaped
<1>1. PICK q, k : q = mem'.queue[b] /\ k = mem'.bank[b]
  OBVIOUS
<1>2. QueueShape(q, k, b)
  BY <1>1 DEF QueuesShaped
<1>3. \A i \in DOMAIN q : q[i].id \in DOMAIN hist /\ q[i].id \in DOMAIN hist'
                          /\ hist'[q[i].id] = hist[q[i].id]
  BY <1>2 DEF QueueShape, Grows
<1>4. \A i \in DOMAIN q : q[i].id \in DOMAIN hist' /\ BankOf(hist'[q[i].id].addr) = b
  BY <1>2, <1>3, Zenon DEF QueueShape, BankOfCmd
<1>5. \A i \in DOMAIN q : q[i].type # "ACTIVATE" =>
        /\ q[i].type = IF hist'[q[i].id].write THEN "WRITE_P" ELSE "READ_P"
        /\ i > 1 => q[i - 1].type = "ACTIVATE" /\ q[i - 1].id = q[i].id
  BY <1>2, <1>3, Zenon DEF QueueShape, Column
<1>6. Open(k) => q # <<>> /\ RowOf(hist'[q[1].id].addr) = k.row
  <2>1. q \in Seq(Commands)
    BY <1>1 DEF Memories
  <2>2. q # <<>> => 1 \in DOMAIN q
    BY <2>1
  <2> QED BY <1>2, <1>3, <2>2, Zenon DEF QueueShape, RowOfCmd
<1>7. /\ \A i \in DOMAIN q : q[i].type = "ACTIVATE" =>
           i + 1 \in DOMAIN q /\ q[i + 1].id = q[i].id /\ q[i + 1].type # "ACTIVATE"
      /\ q # <<>> => (q[1].type = "ACTIVATE" <=> ~Open(k))
  BY <1>2 DEF QueueShape
<1> QED BY <1>1, <1>4, <1>5, <1>6, <1>7, Zenon DEF QueueShape, Open, BankOfCmd, RowOfCmd, Column

LEMMA GrownPending ==
  ASSUME Grows, PendingKept(mem'), ToSet(mem'.pendingRead) \subseteq DOMAIN hist
  PROVE  PendingKept(mem)'
<1>1. \A m \in DOMAIN mem'.pendingRead : hist'[mem'.pendingRead[m]] = hist[mem'.pendingRead[m]]
  BY DEF Grows, ToSet
<1>2. \A m, n \in DOMAIN mem'.pendingRead :
        SameBank(mem.pendingRead[m], mem.pendingRead[n])' =>
          SameBank(mem'.pendingRead[m], mem'.pendingRead[n])
  BY <1>1, Zenon DEF SameBank
<1>3. ToSet(mem'.pendingRead) = InFlight(mem)'
  BY DEF PendingKept, InFlight, At, Queued
<1>4. \A x, y : Before(mem, x, y)' <=> Before(mem', x, y)
  BY DEF Before, At, Queued
<1> QED BY <1>2, <1>3, <1>4 DEF PendingKept

LEMMA GrownAgreement ==
  ASSUME Grows, Agreement(mem'.rank, mem'.bank, mem'.cmd),
         mem'.cmd # NoCommand => ValidCommand(mem'.cmd)
  PROVE  /\ Agreement(mem.rank, mem.bank, mem.cmd)'
         /\ (mem.cmd # NoCommand => ValidCommand(mem.cmd))'
<1>1. (mem.cmd # NoCommand => ValidCommand(mem.cmd))'
  BY DEF Grows, ValidCommand, NoCommand, None
<1>2. \/ mem'.cmd = NoCommand
      \/ mem'.cmd.type = "REFRESH"
      \/ hist'[mem'.cmd.id] = hist[mem'.cmd.id]
  BY DEF ValidCommand, Grows
<1>3. View(mem.rank, mem.cmd)' = View(mem'.rank, mem'.cmd)
  <2>1. CASE mem'.cmd = NoCommand
    BY <2>1 DEF View, NoCommand, None
  <2>2. CASE mem'.cmd.type = "REFRESH"
    BY <2>2 DEF View, NoCommand, None, RankBanks
  <2>3. CASE hist'[mem'.cmd.id] = hist[mem'.cmd.id]
    <3> DEFINE After(r, c, a) ==
          [b \in Banks |->
            LET own == (b = BankOf(a)) IN
            CASE c.type = "ACTIVATE" ->
                   IF own THEN [r[b] EXCEPT !.state = "RowActive", !.row = RowOf(a),
                                  !.act = tRC, !.rd = tRCD - AL, !.wr = tRCD - AL]
                   ELSE [r[b] EXCEPT !.act = Later(@, tRRD)]
              [] c.type = "READ_P" ->
                   [r[b] EXCEPT !.state = IF own THEN "Idle" ELSE @,
                      !.act = IF own THEN Later(@, READ_AUTOPRE_DELAY) ELSE @,
                      !.rd = Later(@, ColumnToColumn),
                      !.wr = Later(@, READ_TO_WRITE_DELAY)]
              [] c.type = "WRITE_P" ->
                   [r[b] EXCEPT !.state = IF own THEN "Idle" ELSE @,
                      !.act = IF own THEN Later(@, WRITE_AUTOPRE_DELAY) ELSE @,
                      !.wr = Later(@, ColumnToColumn),
                      !.rd = Later(@, WRITE_TO_READ_DELAY_B)]]
    <3>1. CASE mem'.cmd.type # "REFRESH"
      <4>1. RankBanks(mem'.rank, mem'.cmd) = After(mem'.rank, mem'.cmd, hist[mem'.cmd.id].addr)
        BY <3>1, Zenon DEF RankBanks, BankOfCmd, RowOfCmd
      <4>2. RankBanks(mem.rank, mem.cmd)' = After(mem'.rank, mem'.cmd, hist'[mem'.cmd.id].addr)
        BY <3>1, Zenon DEF RankBanks, BankOfCmd, RowOfCmd
      <4> HIDE DEF After
      <4>3. RankBanks(mem.rank, mem.cmd)' = RankBanks(mem'.rank, mem'.cmd)
        BY <2>3, <4>1, <4>2, Zenon
      <4> QED BY <4>3, Zenon DEF View, NoCommand, None
    <3> QED BY <2>2, <3>1, Zenon
  <2> QED BY <1>2, <2>1, <2>2, <2>3, Zenon
<1>4. mem'.cmd # NoCommand =>
        (RankAllows([rank |-> mem.rank], mem.cmd)' <=> RankAllows([rank |-> mem'.rank], mem'.cmd))
  <2>1. CASE mem'.cmd.type = "REFRESH"
    BY <2>1 DEF RankAllows
  <2>2. CASE hist'[mem'.cmd.id] = hist[mem'.cmd.id]
    BY <2>2, Zenon DEF RankAllows, BankOfCmd, RowOfCmd
  <2> QED BY <1>2, <2>1, <2>2, Zenon
<1> QED BY <1>1, <1>3, <1>4, Zenon DEF Agreement, NoCommand, None, Follows, Open

LEMMA GrownBus ==
  ASSUME BusKept(mem')
  PROVE  BusKept(mem)'
BY Zenon DEF BusKept, Lane, ReadStarts, WriteStarts, Starts, RoomAfter, Base, WellClosed, Open,
   Apart

LEMMA GoodGrown ==
  ASSUME Grows, mem' \in Memories, mem'.error = "none", mem'.returning = <<>>,
         mem'.cmd # NoCommand => mem'.cmdLeft = 1 /\ ValidCommand(mem'.cmd),
         Agreement(mem'.rank, mem'.bank, mem'.cmd), QueuesShaped(mem'), BusKept(mem'),
         PendingKept(mem'), ToSet(mem'.pendingRead) \subseteq DOMAIN hist, Fresh(mem)'
  PROVE  Good(mem)'
<1>1. QueuesShaped(mem)'
  BY GrownQueues
<1>2. PendingKept(mem)'
  BY GrownPending
<1>3. Agreement(mem.rank, mem.bank, mem.cmd)' /\ (mem.cmd # NoCommand => ValidCommand(mem.cmd))'
  BY GrownAgreement
<1>4. BusKept(mem)'
  BY GrownBus
<1>5. (mem \in Memories)' /\ (mem.error = "none")' /\ (mem.returning = <<>>)'
  BY DEF Memories
<1>6. (mem.cmd # NoCommand => mem.cmdLeft = 1)'
  BY DEF NoCommand, None
<1> QED BY <1>1, <1>2, <1>3, <1>4, <1>5, <1>6 DEF Good

(* The inductive invariant.                                                *)
Inv == hist \in Seq(Transactions) /\ Good(mem)

LEMMA UpdateGood ==
  ASSUME Inv, Update
  PROVE  Inv'
<1>1. hist' = hist /\ hist \in Seq(Transactions) /\ Good(mem)
  BY DEF Update, Inv
<1>2. PICK u : u = Cycle(mem)
  OBVIOUS
<1>3. mem' = u
  BY <1>2 DEF Update, Cycle, Moves
<1>4. Good(u)
  BY <1>1, <1>2, CycleGood, Zenon
<1>5. Grows
  BY <1>1 DEF Grows
<1>6. Fresh(u)
  BY <1>4 DEF Good
<1>7. Fresh(mem)' /\ ToSet(u.pendingRead) \subseteq DOMAIN hist
  BY <1>1, <1>3, <1>6, Zenon DEF Fresh
<1>8. Good(mem)'
  BY <1>3, <1>4, <1>5, <1>7, GoodGrown, Zenon DEF Good
<1> QED BY <1>1, <1>8 DEF Inv

LEMMA AddTransactionGood ==
  ASSUME Inv, NEW isWrite \in BOOLEAN, NEW a \in Addrs, AddTransaction(isWrite, a)
  PROVE  Inv'
<1>1. hist \in Seq(Transactions) /\ Good(mem)
  BY DEF Inv
<1> DEFINE e == [write |-> isWrite, addr |-> a]
<1>2. PICK id : id = Len(hist) + 1
  OBVIOUS
<1>3. PICK u : u = mem'
  OBVIOUS
<1>4. hist' = Append(hist, e) /\ e \in Transactions
  BY DEF AddTransaction, Transactions
<1> HIDE DEF e
<1>5. /\ hist' \in Seq(Transactions) /\ DOMAIN hist' = 1 .. id /\ DOMAIN hist = 1 .. (id - 1)
      /\ id \in Nat /\ id >= 1
      /\ \A i \in DOMAIN hist : hist'[i] = hist[i]
  BY <1>1, <1>2, <1>4, LastProperties
<1>6. Grows /\ id \in DOMAIN hist' /\ id \notin DOMAIN hist
  BY <1>5 DEF Grows
<1>7. /\ mem \in Memories /\ mem.error = "none" /\ mem.returning = <<>>
      /\ mem.cmd # NoCommand => mem.cmdLeft = 1 /\ ValidCommand(mem.cmd)
      /\ Agreement(mem.rank, mem.bank, mem.cmd)
      /\ QueuesShaped(mem) /\ BusKept(mem) /\ PendingKept(mem) /\ Fresh(mem)
  BY <1>1 DEF Good
<1>8. PICK q \in Seq(Nat), p \in Seq(Nat) : q = mem.transactionQueue /\ p = mem.pendingTransactions
  BY <1>7, SeqFields
<1>9. Append(q, id) \in Seq(Nat) /\ Append(p, id) \in Seq(Nat)
  BY <1>5, LastProperties
<1>10. \/ u = [mem EXCEPT !.transactionQueue = Append(q, id)]
       \/ u = [mem EXCEPT !.pendingTransactions = Append(p, id)]
  BY <1>2, <1>3, <1>8 DEF AddTransaction
<1>11. /\ u \in Memories
       /\ u.bank = mem.bank /\ u.rank = mem.rank /\ u.cmd = mem.cmd /\ u.cmdLeft = mem.cmdLeft
       /\ u.data = mem.data /\ u.writing = mem.writing /\ u.queue = mem.queue
       /\ u.rankData = mem.rankData /\ u.reading = mem.reading
       /\ u.returning = mem.returning /\ u.pendingRead = mem.pendingRead
       /\ u.error = mem.error
       /\ \/ u.transactionQueue = Append(q, id) /\ u.pendingTransactions = p
          \/ u.transactionQueue = q /\ u.pendingTransactions = Append(p, id)
  <2>1. \A f \in Seq(Nat) : /\ [mem EXCEPT !.transactionQueue = f] \in Memories
                            /\ [mem EXCEPT !.pendingTransactions = f] \in Memories
    BY <1>7 DEF Memories
  <2>2. u \in Memories
    BY <1>9, <1>10, <2>1, Zenon
  <2>3. CASE u = [mem EXCEPT !.transactionQueue = Append(q, id)]
    BY <1>7, <1>8, <2>2, <2>3 DEF Memories
  <2>4. CASE u = [mem EXCEPT !.pendingTransactions = Append(p, id)]
    BY <1>7, <1>8, <2>2, <2>4 DEF Memories
  <2> QED BY <1>10, <2>3, <2>4
<1>12. /\ QueuesShaped(u) /\ BusKept(u) /\ PendingKept(u)
       /\ ToSet(u.pendingRead) \subseteq DOMAIN hist
  <2>1. QueuesShaped(u)
    BY <1>7, <1>11, Zenon DEF QueuesShaped
  <2>2. BusKept(u)
    BY <1>7, <1>11, Zenon DEF BusKept, ReadStarts, WriteStarts
  <2>3. PendingKept(u)
    BY <1>7, <1>11, SamePending, Zenon
  <2> QED BY <1>7, <1>11, <2>1, <2>2, <2>3 DEF Fresh
<1>13. Fresh(mem)'
  <2>1. PICK r : r = mem.pendingRead
    OBVIOUS
  <2>2. /\ IsInjective(q) /\ IsInjective(p) /\ IsInjective(r)
        /\ ToSet(q) \cap ToSet(p) = {} /\ ToSet(q) \cap ToSet(r) = {}
        /\ ToSet(p) \cap ToSet(r) = {}
        /\ ToSet(q) \subseteq DOMAIN hist /\ ToSet(p) \subseteq DOMAIN hist
        /\ ToSet(r) \subseteq DOMAIN hist
    BY <1>7, <1>8, <2>1 DEF Fresh
  <2>3. id \notin ToSet(q) /\ id \notin ToSet(p) /\ id \notin ToSet(r)
    BY <1>6, <2>2
  <2>4. /\ ToSet(Append(q, id)) = ToSet(q) \cup {id} /\ IsInjective(Append(q, id))
        /\ ToSet(Append(p, id)) = ToSet(p) \cup {id} /\ IsInjective(Append(p, id))
    BY <1>5, <1>8, <2>2, <2>3, AppendElements
  <2>5. DOMAIN hist \subseteq DOMAIN hist'
    BY <1>6 DEF Grows
  <2>6. mem'.pendingRead = r
    BY <1>3, <1>11, <2>1
  <2>7. CASE mem'.transactionQueue = Append(q, id) /\ mem'.pendingTransactions = p
    BY <1>6, <2>2, <2>3, <2>4, <2>5, <2>6, <2>7, Zenon DEF Fresh
  <2>8. CASE mem'.transactionQueue = q /\ mem'.pendingTransactions = Append(p, id)
    BY <1>6, <2>2, <2>3, <2>4, <2>5, <2>6, <2>8, Zenon DEF Fresh
  <2> QED BY <1>3, <1>11, <2>7, <2>8
<1>14. /\ mem' \in Memories /\ mem'.error = "none" /\ mem'.returning = <<>>
       /\ mem'.cmd # NoCommand => mem'.cmdLeft = 1 /\ ValidCommand(mem'.cmd)
       /\ Agreement(mem'.rank, mem'.bank, mem'.cmd)
       /\ QueuesShaped(mem') /\ BusKept(mem') /\ PendingKept(mem')
       /\ ToSet(mem'.pendingRead) \subseteq DOMAIN hist
  BY <1>3, <1>7, <1>11, <1>12, Zenon
<1>15. Good(mem)'
  BY <1>6, <1>13, <1>14, GoodGrown, Zenon
<1> QED BY <1>5, <1>15 DEF Inv

LEMMA InitGood ==
  ASSUME Init
  PROVE  Inv
<1>1. hist = <<>> /\ hist \in Seq(Transactions)
  BY DEF Init
<1>2. /\ mem.cmd = NoCommand /\ mem.cmdLeft = 0 /\ mem.error = "none"
      /\ mem.data = [id |-> None, left |-> 0] /\ mem.rankData = [id |-> None, left |-> 0]
      /\ mem.writing = <<>> /\ mem.reading = <<>> /\ mem.returning = <<>>
      /\ mem.transactionQueue = <<>> /\ mem.pendingRead = <<>>
      /\ mem.pendingTransactions = <<>>
      /\ \A b \in Banks : mem.queue[b] = <<>> /\ mem.bank[b].state = "Idle"
                          /\ mem.bank[b].act = 0
                          /\ mem.rank[b].state = "Idle" /\ mem.rank[b].act = 0
  BY DEF Init
<1>3. mem \in Memories
  <2>1. 0 \in Banks /\ RefreshCycles \in Nat /\ NoCommand \in Commands
    <3>1. RefreshCycles \in Nat /\ NumBanks \in Nat \ {0}
      BY DramAssumption
    <3> QED BY <3>1 DEF Banks, NoCommand, None, Commands
  <2>2. [id |-> None, left |-> 0] \in Packets
    BY DEF Packets, None
  <2>3. /\ [state |-> "Idle", row |-> 0, rd |-> 0, wr |-> 0, act |-> 0, last |-> "READ",
            change |-> 0] \in BankStates
        /\ [state |-> "Idle", row |-> 0, rd |-> 0, wr |-> 0, act |-> 0] \in RankStates
    BY DEF BankStates, RankStates
  <2> QED BY <2>1, <2>2, <2>3 DEF Init, Memories, Errors
<1>4. Agreement(mem.rank, mem.bank, mem.cmd)
  <2>1. \A b \in Banks : Follows(mem.rank[b], mem.bank[b])
    BY <1>2 DEF Follows, Open
  <2> QED BY <1>2, <2>1 DEF Agreement, View
<1>5. QueuesShaped(mem)
  BY <1>2 DEF QueuesShaped, QueueShape, Open
<1>6. BusKept(mem)
  <2>1. mem.cmd.type # "READ_P"
    BY <1>2 DEF NoCommand
  <2>2. Lane(mem.rankData, mem.reading) /\ Lane(mem.data, mem.writing)
    BY <1>2 DEF Lane
  <2>3. ReadStarts(mem) = {} /\ WriteStarts(mem) = {}
    BY <1>2, <2>1 DEF ReadStarts, WriteStarts, Starts
  <2>4. \A b \in Banks : WellClosed(mem.bank[b])
    BY <1>2 DEF WellClosed
  <2> QED BY <1>2, <2>1, <2>2, <2>3, <2>4 DEF BusKept
<1>7. PendingKept(mem)
  <2>1. ASSUME NEW x \in Nat \ {None}, NEW p \in Nat, At(mem, x, p)
        PROVE  FALSE
    BY <1>2, <2>1 DEF At, Queued, NoCommand
  <2>2. InFlight(mem) = {}
    BY <2>1 DEF InFlight
  <2> QED BY <1>2, <2>2 DEF PendingKept, ToSet
<1>8. Fresh(mem)
  <2>1. ToSet(<<>>) = {} /\ IsInjective(<<>>)
    BY DEF ToSet, IsInjective
  <2> QED BY <1>2, <2>1 DEF Fresh
<1> QED BY <1>1, <1>2, <1>3, <1>4, <1>5, <1>6, <1>7, <1>8 DEF Inv, Good

LEMMA StutterGood ==
  ASSUME Inv, UNCHANGED vars
  PROVE  Inv'
<1>1. hist' = hist /\ mem' = mem
  BY DEF vars
<1>2. Good(mem') /\ Grows
  BY <1>1 DEF Inv, Grows
<1>3. Fresh(mem)' /\ ToSet(mem'.pendingRead) \subseteq DOMAIN hist
  BY <1>1, <1>2 DEF Good, Fresh
<1>4. Good(mem)'
  BY <1>2, <1>3, GoodGrown, Zenon DEF Good
<1> QED BY <1>1, <1>4 DEF Inv

-----------------------------------------------------------------------------
(* The invariant holds in every state the memory reaches: what the         *)
(* controller keeps of its banks is what the rank will find, every command *)
(* it may still send is one the rank will accept, and the reads come back  *)
(* in the order in which those of a bank were taken.                       *)
THEOREM Invariant == Spec => []Inv
<1>1. Inv /\ [Next]_vars => Inv'
  BY UpdateGood, AddTransactionGood, StutterGood DEF Next
<1> QED BY <1>1, InitGood, PTL DEF Spec

(* No command is refused by the rank, the command bus is free when one is  *)
(* issued, no data is put on a bus in use or over data not yet returned,   *)
(* and every read finds its transaction: none of the exits of              *)
(* MemoryController and Rank is taken.                                     *)
THEOREM NeverFails == Spec => []NoError
<1>1. Inv => NoError
  BY DEF Inv, Good, NoError
<1> QED BY <1>1, Invariant, PTL

(* Read data and write data are never on the data bus in the same cycle,   *)
(* which no check of the code covers.                                      *)
THEOREM BusHasOneDriver == Spec => []OneDriver
<1>1. Inv => OneDriver
  BY OneOnTheBus DEF Inv, Good, OneDriver
<1> QED BY <1>1, Invariant, PTL

-----------------------------------------------------------------------------
\* The bursts on their way, by transaction

(* The burst of transaction x starts a cycles from now: in the lane of p   *)
(* and q, or in s, where a read may still be a command.                    *)
InLane(p, q, x, a) ==
  \/ p.id = x /\ a = p.left - Burst
  \/ \E i \in DOMAIN q : q[i].id = x /\ a = q[i].left

BurstAt(s, x, a) ==
  \/ InLane(s.rankData, s.reading, x, a)
  \/ s.cmd.type = "READ_P" /\ s.cmd.id = x /\ a = RL + 1
  \/ InLane(s.data, s.writing, x, a)

Sent(s) == {x \in Nat \ {None} : \E a \in Int : BurstAt(s, x, a)}

LEMMA InLaneStarts ==
  ASSUME NEW p, NEW q, NEW x, x # None, NEW a, InLane(p, q, x, a)
  PROVE  a \in Starts(p, q)
BY DEF InLane, Starts

LEMMA LaneShift ==
  ASSUME NEW p \in Packets, NEW q \in Seq(Packets), Lane(p, q),
         NEW x \in Nat \ {None}, NEW a \in Int
  PROVE  /\ InLane(NextOn(p, q), NextLeft(q), x, a) => InLane(p, q, x, a + 1)
         /\ InLane(p, q, x, a + 1) =>
              InLane(NextOn(p, q), NextLeft(q), x, a) \/ x \in Ending(p)
<1>1. PICK w \in Seq(Packets) : w = Waiting(q)
  BY WaitingProperties
<1>2. /\ Len(w) = Len(q) /\ DOMAIN w = DOMAIN q /\ DOMAIN q = 1 .. Len(q) /\ Len(q) \in Nat
      /\ \A i \in DOMAIN q : w[i].id = q[i].id /\ w[i].left = q[i].left - 1
      /\ w = <<>> <=> q = <<>>
  BY <1>1, WaitingProperties
<1>3. \A i \in DOMAIN q : q[i].left \in Int
  <2>1. \A i \in DOMAIN q : q[i] \in Packets
    BY ElementOfSeq
  <2> QED BY <2>1 DEF Packets
<1>4. p.id \in Nat /\ p.left \in Int /\ Burst \in Nat /\ Burst >= 1
  BY TimingType DEF Packets
<1>5. x # None
  OBVIOUS
<1>6. CASE ~Ready(q)
  <2>1. NextLeft(q) = w
    BY <1>1, <1>6 DEF NextLeft
  <2>2. CASE Idle(p)
    <3>1. NextOn(p, q).id = None
      BY <1>6, <2>2 DEF NextOn
    <3>2. InLane(NextOn(p, q), w, x, a) <=> \E i \in DOMAIN q : q[i].id = x /\ a = q[i].left - 1
      BY <1>2, <1>5, <3>1 DEF InLane
    <3>3. p.id = x => x \in Ending(p)
      BY <1>5, <2>2 DEF Idle, Ending
    <3>4. \A i \in DOMAIN q : a = q[i].left - 1 <=> a + 1 = q[i].left
      BY <1>3
    <3> QED BY <2>1, <3>2, <3>3, <3>4 DEF InLane
  <2>3. CASE ~Idle(p)
    <3>1. NextOn(p, q).id = p.id /\ NextOn(p, q).left = p.left - 1
      BY <1>6, <2>3 DEF NextOn
    <3>2. InLane(NextOn(p, q), w, x, a) <=>
            \/ p.id = x /\ a = p.left - 1 - Burst
            \/ \E i \in DOMAIN q : q[i].id = x /\ a = q[i].left - 1
      BY <1>2, <3>1 DEF InLane
    <3>3. a = p.left - 1 - Burst <=> a + 1 = p.left - Burst
      <4>1. \A n \in Int : a = n - 1 - Burst <=> a + 1 = n - Burst
        BY <1>4
      <4> QED BY <1>4, <4>1, Zenon
    <3>4. \A i \in DOMAIN q : a = q[i].left - 1 <=> a + 1 = q[i].left
      BY <1>3
    <3> QED BY <2>1, <3>2, <3>3, <3>4 DEF InLane
  <2> QED BY <2>2, <2>3
<1>7. CASE Ready(q)
  <2>1. w # <<>> /\ Head(w).left = 0 /\ NextLeft(q) = Tail(w)
        /\ NextOn(p, q) = [id |-> Head(w).id, left |-> Burst]
    BY <1>1, <1>7 DEF Ready, NextLeft, NextOn
  <2>2. /\ DOMAIN Tail(w) = 1 .. (Len(w) - 1) /\ 1 \in DOMAIN w /\ Head(w) = w[1]
        /\ \A i \in 1 .. (Len(w) - 1) : Tail(w)[i] = w[i + 1]
    BY <2>1, TailProperties
  <2>3. Idle(p)
    BY <1>7, LaneNext
  <2>4. p.id = x => x \in Ending(p)
    BY <1>5, <2>3 DEF Idle, Ending
  <2>5. q[1].left = 1 /\ 1 \in DOMAIN q /\ Head(w).id = q[1].id
    BY <1>2, <1>3, <2>1, <2>2
  <2>6. InLane(NextOn(p, q), NextLeft(q), x, a) =>
          \E i \in DOMAIN q : q[i].id = x /\ a + 1 = q[i].left
    <3>1. CASE Head(w).id = x /\ a = Burst - Burst
      BY <1>4, <2>5, <3>1
    <3>2. ASSUME NEW i \in DOMAIN Tail(w), Tail(w)[i].id = x, a = Tail(w)[i].left
          PROVE  \E j \in DOMAIN q : q[j].id = x /\ a + 1 = q[j].left
      <4>1. i + 1 \in DOMAIN q /\ Tail(w)[i] = w[i + 1]
        BY <1>2, <2>2
      <4>2. q[i + 1].id = x /\ a + 1 = q[i + 1].left
        BY <1>2, <1>3, <3>2, <4>1
      <4> QED BY <4>1, <4>2
    <3> QED BY <2>1, <3>1, <3>2 DEF InLane
  <2>7. ASSUME NEW i \in DOMAIN q, q[i].id = x, a + 1 = q[i].left
        PROVE  InLane(NextOn(p, q), NextLeft(q), x, a)
    <3>1. CASE i = 1
      <4>1. a = Burst - Burst
        BY <1>4, <2>5, <2>7, <3>1
      <4> QED BY <2>1, <2>5, <2>7, <3>1, <4>1 DEF InLane
    <3>2. CASE i # 1
      <4>1. i - 1 \in 1 .. (Len(w) - 1) /\ i - 1 + 1 = i
        BY <1>2, <3>2
      <4>2. Tail(w)[i - 1] = w[i] /\ i - 1 \in DOMAIN Tail(w)
        BY <2>2, <4>1
      <4>3. Tail(w)[i - 1].id = x /\ a = Tail(w)[i - 1].left
        <5>1. Tail(w)[i - 1].id = q[i].id /\ Tail(w)[i - 1].left = q[i].left - 1
          BY <1>2, <4>2
        <5>2. a = q[i].left - 1
          BY <1>3, <2>7
        <5> QED BY <2>7, <5>1, <5>2
      <4> QED BY <2>1, <4>2, <4>3 DEF InLane
    <3> QED BY <3>1, <3>2
  <2> QED BY <2>4, <2>6, <2>7 DEF InLane
<1> QED BY <1>6, <1>7

LEMMA BurstStarts ==
  ASSUME NEW s \in Memories, NEW x, x # None, NEW a, BurstAt(s, x, a)
  PROVE  a \in ReadStarts(s) \cup WriteStarts(s)
<1>1. CASE InLane(s.rankData, s.reading, x, a)
  BY <1>1, InLaneStarts DEF ReadStarts
<1>2. CASE s.cmd.type = "READ_P" /\ a = RL + 1
  BY <1>2 DEF ReadStarts
<1>3. CASE InLane(s.data, s.writing, x, a)
  BY <1>3, InLaneStarts DEF WriteStarts
<1> QED BY <1>1, <1>2, <1>3 DEF BurstAt

\* A packet that waits starts after the last cycle of one on the bus.
LEMMA LaneFirst ==
  ASSUME NEW p \in Packets, NEW q \in Seq(Packets), Lane(p, q),
         NEW x, x # None, NEW a, InLane(p, q, x, a)
  PROVE  /\ a \in Int /\ a >= 1 - Burst
         /\ a = 1 - Burst => x \in Ending(p)
<1>1. Burst \in Nat /\ Burst >= 1
  BY TimingType
<1>2. CASE p.id = x /\ a = p.left - Burst
  <2>1. p.left \in 1 .. Burst
    BY <1>2 DEF Lane
  <2>2. a \in Int /\ a >= 1 - Burst /\ (a = 1 - Burst => p.left = 1)
    BY <1>1, <1>2, <2>1
  <2> QED BY <1>2, <2>2 DEF Ending
<1>3. ASSUME NEW i \in DOMAIN q, a = q[i].left
      PROVE  a \in Int /\ a >= 1 - Burst /\ a # 1 - Burst
  <2>1. q[i] \in Packets
    BY ElementOfSeq
  <2>2. q[i].left \in Int /\ q[i].left >= 1
    BY <2>1 DEF Packets, Lane
  <2> QED BY <1>1, <1>3, <2>2
<1> QED BY <1>2, <1>3 DEF InLane

\* The burst that ends is the only one that has begun so early.
LEMMA FinishedFirst ==
  ASSUME NEW s \in Memories, Lane(s.rankData, s.reading), Lane(s.data, s.writing),
         NEW x \in Nat \ {None}, NEW a, BurstAt(s, x, a)
  PROVE  /\ a \in Int /\ a >= 1 - Burst
         /\ a = 1 - Burst => x \in Finished(s)
<1>1. /\ s.data \in Packets /\ s.rankData \in Packets
      /\ s.writing \in Seq(Packets) /\ s.reading \in Seq(Packets)
  BY DEF Memories
<1>3. CASE InLane(s.rankData, s.reading, x, a)
  BY <1>1, <1>3, LaneFirst DEF Finished
<1>4. CASE InLane(s.data, s.writing, x, a)
  BY <1>1, <1>4, LaneFirst DEF Finished
<1>5. CASE a = RL + 1
  BY <1>5, TimingType
<1> QED BY <1>3, <1>4, <1>5 DEF BurstAt

LEMMA FinishedBurst ==
  ASSUME NEW s \in Memories, BusKept(s), NEW x \in Finished(s)
  PROVE  /\ x \in Nat \ {None} /\ 1 - Burst \in Int /\ BurstAt(s, x, 1 - Burst)
         /\ \A y \in Finished(s) : y = x
<1>1. /\ \A y \in Ending(s.data) : y = s.data.id /\ y # None /\ s.data.left = 1
      /\ \A y \in Ending(s.rankData) : y = s.rankData.id /\ y # None /\ s.rankData.left = 1
  BY DEF Ending
<1>2. s.data.id \in Nat /\ s.rankData.id \in Nat
  BY DEF Memories, Packets
<1>3. \A y \in Finished(s) : y = x
  BY <1>1, OneOnTheBus DEF Finished
<1>4. BurstAt(s, x, 1 - Burst)
  BY <1>1 DEF Finished, BurstAt, InLane
<1> QED BY <1>1, <1>2, <1>3, <1>4, TimingType DEF Finished

\* A cycle later every burst is a cycle closer; one has ended or none.
LEMMA MovedBursts ==
  ASSUME NEW s \in Memories, BusKept(s), NEW m \in Memories, Moved(s, m),
         NEW x \in Nat \ {None}, NEW a \in Int
  PROVE  /\ BurstAt(m, x, a) => BurstAt(s, x, a + 1)
         /\ BurstAt(s, x, a + 1) => BurstAt(m, x, a) \/ x \in Finished(s)
<1>1. /\ s.data \in Packets /\ s.rankData \in Packets
      /\ s.writing \in Seq(Packets) /\ s.reading \in Seq(Packets) /\ s.cmd.id \in Nat
  BY DEF Memories, Commands
<1>2. Lane(s.data, s.writing) /\ Lane(s.rankData, s.reading)
  BY DEF BusKept
<1>3. /\ InLane(m.data, m.writing, x, a) => InLane(s.data, s.writing, x, a + 1)
      /\ InLane(s.data, s.writing, x, a + 1) =>
           InLane(m.data, m.writing, x, a) \/ x \in Finished(s)
  BY <1>1, <1>2, LaneShift DEF Moved, Finished
<1> DEFINE n == NextOn(s.rankData, s.reading)
           r == NextLeft(s.reading)
<1>4. /\ InLane(n, r, x, a) => InLane(s.rankData, s.reading, x, a + 1)
      /\ InLane(s.rankData, s.reading, x, a + 1) => InLane(n, r, x, a) \/ x \in Finished(s)
  BY <1>1, <1>2, LaneShift DEF Finished
<1>5. r \in Seq(Packets)
  BY <1>1, <1>2, LaneNext
<1>6. m.cmd.type # "READ_P"
  BY DEF Moved, NoCommand
<1>7. m.rankData = n /\ m.reading = IF s.cmd.type = "READ_P"
                                      THEN Append(r, [id |-> s.cmd.id, left |-> RL]) ELSE r
  BY DEF Moved
<1> HIDE DEF n, r
<1>8. InLane(m.rankData, m.reading, x, a) <=>
        InLane(n, r, x, a) \/ (s.cmd.type = "READ_P" /\ s.cmd.id = x /\ a = RL)
  <2>1. CASE s.cmd.type # "READ_P"
    BY <1>7, <2>1
  <2>2. CASE s.cmd.type = "READ_P"
    <3> DEFINE e == [id |-> s.cmd.id, left |-> RL]
    <3>1. e \in Packets /\ m.reading = Append(r, e) /\ e.id = s.cmd.id /\ e.left = RL
      BY <1>1, <1>7, <2>2, TimingType DEF Packets
    <3> HIDE DEF e
    <3>2. /\ DOMAIN m.reading = 1 .. (Len(r) + 1) /\ DOMAIN r = 1 .. Len(r) /\ Len(r) \in Nat
          /\ \A i \in DOMAIN r : m.reading[i] = r[i]
          /\ m.reading[Len(r) + 1] = e
      BY <1>5, <3>1, LastProperties
    <3>3. (\E i \in DOMAIN m.reading : m.reading[i].id = x /\ a = m.reading[i].left) <=>
            (\E i \in DOMAIN r : r[i].id = x /\ a = r[i].left) \/ (e.id = x /\ a = e.left)
      BY <3>2
    <3> QED BY <1>7, <2>2, <3>1, <3>3 DEF InLane
  <2> QED BY <2>1, <2>2
<1>9. a + 1 = RL + 1 <=> a = RL
  BY TimingType
<1>10. BurstAt(m, x, a) => BurstAt(s, x, a + 1)
  BY <1>3, <1>4, <1>6, <1>8, <1>9 DEF BurstAt
<1>11. BurstAt(s, x, a + 1) => BurstAt(m, x, a) \/ x \in Finished(s)
  BY <1>3, <1>4, <1>8, <1>9 DEF BurstAt
<1> QED BY <1>10, <1>11

-----------------------------------------------------------------------------
\* The order of the transactions

InQueues(s) == {x \in Nat : \E d \in Banks : \E i \in DOMAIN s.queue[d] : s.queue[d][i].id = x}
Waits(s) == ToSet(s.transactionQueue) \cup ToSet(s.pendingTransactions)

\* The transactions the memory has not completed.
Outstanding(s) == Sent(s) \cup InQueues(s) \cup Waits(s)

Increasing(q) == \A i, j \in DOMAIN q : i < j => q[i] < q[j]

WaitsOrdered(s) ==
  /\ Increasing(s.transactionQueue) /\ Increasing(s.pendingTransactions)
  /\ \A x \in ToSet(s.transactionQueue), y \in ToSet(s.pendingTransactions) : x < y

\* A column command is the last command of its transaction.
QueueOrder(q) ==
  \A i, j \in DOMAIN q :
    i < j => q[i].id <= q[j].id /\ (q[i].type # "ACTIVATE" => q[i].id < q[j].id)

\* Within a bank the transactions of X were added before those of Y.
Precede(X, Y) == \A x \in X, y \in Y : SameBank(x, y) => x < y

BusOrder(s) ==
  \A x, y \in Nat \ {None} : \A a, b \in Int :
    BurstAt(s, x, a) /\ BurstAt(s, y, b) /\ a < b /\ SameBank(x, y) => x < y

(* The transactions of a bank are in the order in which they were added:   *)
(* on the bus, in its queue and where they wait.                           *)
Ordered(s) ==
  /\ BusOrder(s) /\ WaitsOrdered(s)
  /\ \A d \in Banks : QueueOrder(s.queue[d])
  /\ Precede(Sent(s), InQueues(s)) /\ Precede(Sent(s), Waits(s))
  /\ Precede(InQueues(s), Waits(s))

LEMMA SentMoved ==
  ASSUME NEW s \in Memories, BusKept(s), BusOrder(s), s.cmd.type = "READ_P" => s.cmd.id # None,
         NEW m \in Memories, Moved(s, m)
  PROVE  BusOrder(m) /\ Sent(m) = Sent(s) \ Finished(s)
<1>1. \A x \in Nat \ {None}, a \in Int :
        /\ BurstAt(m, x, a) => BurstAt(s, x, a + 1)
        /\ BurstAt(s, x, a + 1) => BurstAt(m, x, a) \/ x \in Finished(s)
  BY MovedBursts
<1>2. \A a \in Int : a + 1 \in Int /\ a - 1 \in Int /\ (a - 1) + 1 = a
  OBVIOUS
<1>3. BusOrder(m)
  <2>1. ASSUME NEW x \in Nat \ {None}, NEW y \in Nat \ {None}, NEW a \in Int, NEW b \in Int,
               BurstAt(m, x, a), BurstAt(m, y, b), a < b, SameBank(x, y)
        PROVE  x < y
    <3>1. BurstAt(s, x, a + 1) /\ BurstAt(s, y, b + 1) /\ a + 1 < b + 1
      BY <1>1, <2>1
    <3> QED BY <1>2, <2>1, <3>1 DEF BusOrder
  <2> QED BY <2>1 DEF BusOrder
<1>4. ASSUME NEW x \in Sent(m)
      PROVE  x \in Sent(s) /\ x \notin Finished(s)
  <2>1. PICK a \in Int : x \in Nat \ {None} /\ BurstAt(m, x, a)
    BY <1>4 DEF Sent
  <2>2. BurstAt(s, x, a + 1)
    BY <1>1, <2>1
  <2>3. a >= 1 - Burst
    BY <2>1, MovedBus, FinishedFirst
  <2>4. x \notin Finished(s)
    <3>1. SUFFICES ASSUME x \in Finished(s)
                   PROVE  FALSE
      OBVIOUS
    <3>2. BurstAt(s, x, 1 - Burst) /\ 1 - Burst \in Int
      BY <3>1, FinishedBurst
    <3>3. 1 - Burst < a + 1
      BY <2>3, TimingType
    <3>4. SameBank(x, x)
      BY DEF SameBank
    <3>5. x < x
      BY <1>2, <2>1, <2>2, <3>2, <3>3, <3>4 DEF BusOrder
    <3> QED BY <2>1, <3>5
  <2> QED BY <1>2, <2>1, <2>2, <2>4 DEF Sent
<1>5. ASSUME NEW x \in Sent(s), x \notin Finished(s)
      PROVE  x \in Sent(m)
  <2>1. PICK a \in Int : x \in Nat \ {None} /\ BurstAt(s, x, a)
    BY DEF Sent
  <2>2. BurstAt(m, x, a - 1)
    BY <1>1, <1>2, <1>5, <2>1
  <2> QED BY <1>2, <2>1, <2>2 DEF Sent
<1> QED BY <1>3, <1>4, <1>5

LEMMA IncreasingAppend ==
  ASSUME NEW q \in Seq(Nat), Increasing(q), NEW h \in Nat, \A x \in ToSet(q) : x < h
  PROVE  Increasing(Append(q, h))
<1>1. /\ DOMAIN Append(q, h) = 1 .. (Len(q) + 1) /\ DOMAIN q = 1 .. Len(q) /\ Len(q) \in Nat
      /\ \A i \in DOMAIN q : Append(q, h)[i] = q[i]
      /\ Append(q, h)[Len(q) + 1] = h
  BY LastProperties
<1>2. ASSUME NEW i \in DOMAIN Append(q, h), NEW j \in DOMAIN Append(q, h), i < j
      PROVE  Append(q, h)[i] < Append(q, h)[j]
  <2>1. i \in DOMAIN q /\ (j \in DOMAIN q \/ j = Len(q) + 1)
    BY <1>1, <1>2
  <2>2. q[i] \in ToSet(q)
    BY <2>1 DEF ToSet
  <2>3. CASE j \in DOMAIN q
    BY <1>1, <1>2, <2>1, <2>3 DEF Increasing
  <2>4. CASE j = Len(q) + 1
    BY <1>1, <2>1, <2>2, <2>4
  <2> QED BY <2>1, <2>3, <2>4
<1> QED BY <1>2 DEF Increasing

LEMMA WaitsEntered ==
  ASSUME NEW s \in Memories, NEW m \in Memories, Entered(s, m), WaitsOrdered(s)
  PROVE  WaitsOrdered(m) /\ Waits(m) = Waits(s)
<1>1. CASE /\ m.transactionQueue = s.transactionQueue
           /\ m.pendingTransactions = s.pendingTransactions
  BY <1>1 DEF WaitsOrdered, Waits
<1>2. CASE /\ s.pendingTransactions # <<>>
           /\ m.transactionQueue = Append(s.transactionQueue, Head(s.pendingTransactions))
           /\ m.pendingTransactions = Tail(s.pendingTransactions)
  <2> DEFINE q == s.transactionQueue
             p == s.pendingTransactions
             h == Head(p)
  <2>1. q \in Seq(Nat) /\ p \in Seq(Nat)
    BY DEF Memories
  <2>2. Increasing(q) /\ Increasing(p) /\ \A x \in ToSet(q), y \in ToSet(p) : x < y
    BY DEF WaitsOrdered
  <2>3. p # <<>> /\ m.transactionQueue = Append(q, h) /\ m.pendingTransactions = Tail(p)
    BY <1>2
  <2> HIDE DEF q, p, h
  <2>4. /\ Tail(p) \in Seq(Nat) /\ DOMAIN Tail(p) = 1 .. (Len(p) - 1)
        /\ \A j \in 1 .. (Len(p) - 1) : Tail(p)[j] = p[j + 1]
        /\ 1 \in DOMAIN p /\ h = p[1] /\ h \in Nat
    BY <2>1, <2>3, TailProperties DEF h
  <2>5. DOMAIN p = 1 .. Len(p) /\ Len(p) \in Nat
    BY <2>1
  <2>7. \A j \in 1 .. (Len(p) - 1) : j + 1 \in DOMAIN p /\ 1 < j + 1
    BY <2>5
  <2>8. h \in ToSet(p) /\ \A y \in ToSet(Tail(p)) : y \in ToSet(p) /\ h < y
    BY <2>2, <2>4, <2>7 DEF ToSet, Increasing
  <2>9. ToSet(Append(q, h)) = ToSet(q) \cup {h}
    BY <2>1, <2>4, AppendElements
  <2>10. ToSet(p) = ToSet(Tail(p)) \cup {h}
    <3>1. ASSUME NEW i \in DOMAIN p
          PROVE  p[i] = h \/ p[i] \in ToSet(Tail(p))
      <4>1. CASE i = 1
        BY <2>4, <4>1
      <4>2. CASE i # 1
        <5>1. i - 1 \in 1 .. (Len(p) - 1) /\ (i - 1) + 1 = i
          BY <2>5, <4>2
        <5>2. i - 1 \in DOMAIN Tail(p) /\ Tail(p)[i - 1] = p[i]
          BY <2>4, <5>1
        <5> QED BY <5>2 DEF ToSet
      <4> QED BY <4>1, <4>2
    <3> QED BY <2>8, <3>1 DEF ToSet
  <2>11. Increasing(Tail(p))
    <3>1. ASSUME NEW i \in DOMAIN Tail(p), NEW j \in DOMAIN Tail(p), i < j
          PROVE  Tail(p)[i] < Tail(p)[j]
      <4>1. i \in 1 .. (Len(p) - 1) /\ j \in 1 .. (Len(p) - 1)
        BY <2>4
      <4>2. i + 1 \in DOMAIN p /\ j + 1 \in DOMAIN p /\ i + 1 < j + 1
        BY <2>7, <3>1, <4>1
      <4>3. p[i + 1] < p[j + 1]
        BY <2>2, <4>2 DEF Increasing
      <4> QED BY <2>4, <4>1, <4>3
    <3> QED BY <3>1 DEF Increasing
  <2>12. Increasing(Append(q, h))
    BY <2>1, <2>2, <2>4, <2>8, IncreasingAppend
  <2>13. \A x \in ToSet(Append(q, h)), y \in ToSet(Tail(p)) : x < y
    BY <2>2, <2>8, <2>9
  <2>14. WaitsOrdered(m)
    BY <2>3, <2>11, <2>12, <2>13 DEF WaitsOrdered
  <2>15. Waits(m) = Waits(s)
    BY <2>3, <2>9, <2>10 DEF Waits, q, p
  <2> QED BY <2>14, <2>15
<1> QED BY <1>1, <1>2 DEF Entered

-----------------------------------------------------------------------------
\* A command is sent

\* The cycle in which the data of column command c is on the bus, from now.
DataAfter(c) == IF c.type = "READ_P" THEN RL + 1 ELSE WL

LEMMA DataAfterType ==
  ASSUME NEW c
  PROVE  DataAfter(c) \in Int
<1>1. RL \in Nat /\ WL = RL - 1
  BY TimingType
<1>2. RL + 1 \in Int /\ WL \in Int
  BY <1>1
<1> QED BY <1>2 DEF DataAfter

LEMMA SentBursts ==
  ASSUME NEW m \in Memories, m.cmd = NoCommand, NEW t \in Memories,
         NEW c, Sends(m, c, t),
         t.rankData = m.rankData, t.reading = m.reading, t.data = m.data,
         NEW x, NEW a
  PROVE  BurstAt(t, x, a) <=>
           \/ BurstAt(m, x, a)
           \/ c.type \in {"READ_P", "WRITE_P"} /\ x = c.id /\ a = DataAfter(c)
<1>1. /\ c \in Commands /\ t.cmd = c /\ m.cmd.type # "READ_P"
      /\ t.writing = IF c.type = "WRITE_P"
                       THEN Append(m.writing, [id |-> c.id, left |-> WL]) ELSE m.writing
  BY DEF Sends, NoCommand
<1>2. CASE c.type # "WRITE_P"
  <2>1. InLane(t.data, t.writing, x, a) <=> InLane(m.data, m.writing, x, a)
    BY <1>1, <1>2
  <2>2. CASE c.type = "READ_P"
    BY <1>1, <2>1, <2>2, Zenon DEF BurstAt, DataAfter
  <2>3. CASE c.type # "READ_P"
    BY <1>1, <1>2, <2>1, <2>3 DEF BurstAt
  <2> QED BY <2>2, <2>3
<1>3. CASE c.type = "WRITE_P"
  <2> DEFINE e == [id |-> c.id, left |-> WL]
             q == m.writing
  <2>1. q \in Seq(Packets) /\ e \in Packets /\ e.id = c.id /\ e.left = WL
    BY <1>1, TimingType DEF Memories, Packets, Commands
  <2>2. t.writing = Append(q, e)
    BY <1>1, <1>3
  <2> HIDE DEF e, q
  <2>3. /\ DOMAIN t.writing = 1 .. (Len(q) + 1) /\ DOMAIN q = 1 .. Len(q) /\ Len(q) \in Nat
        /\ \A i \in DOMAIN q : t.writing[i] = q[i]
        /\ t.writing[Len(q) + 1] = e
    BY <2>1, <2>2, LastProperties
  <2>4. (\E i \in DOMAIN t.writing : t.writing[i].id = x /\ a = t.writing[i].left) <=>
          (\E i \in DOMAIN q : q[i].id = x /\ a = q[i].left) \/ (e.id = x /\ a = e.left)
    BY <2>3
  <2>5. InLane(t.data, t.writing, x, a) <=>
          InLane(m.data, m.writing, x, a) \/ (x = c.id /\ a = WL)
    BY <2>1, <2>4 DEF InLane, q
  <2>6. InLane(t.rankData, t.reading, x, a) <=> InLane(m.rankData, m.reading, x, a)
    OBVIOUS
  <2>7. t.cmd.type # "READ_P" /\ DataAfter(c) = WL
    BY <1>1, <1>3 DEF DataAfter
  <2>8. BurstAt(t, x, a) <=> BurstAt(m, x, a) \/ (x = c.id /\ a = WL)
    BY <1>1, <2>5, <2>6, <2>7, Zenon DEF BurstAt
  <2> QED BY <1>3, <2>7, <2>8
<1> QED BY <1>2, <1>3

\* What is left of a queue whose first command is sent.
LEMMA QueueSent ==
  ASSUME hist \in Seq(Transactions), NEW q \in Seq(Commands), q # <<>>, QueueOrder(q),
         NEW k, NEW b, QueueShape(q, k, b)
  PROVE  /\ QueueOrder(Tail(q))
         /\ \A i \in DOMAIN Tail(q) : i + 1 \in DOMAIN q /\ Tail(q)[i] = q[i + 1]
         /\ \A i \in DOMAIN q : i = 1 \/ (i - 1 \in DOMAIN Tail(q) /\ Tail(q)[i - 1] = q[i])
         /\ q[1].type = "ACTIVATE" => 1 \in DOMAIN Tail(q) /\ Tail(q)[1].id = q[1].id
         /\ q[1].type # "ACTIVATE" => \A i \in DOMAIN Tail(q) : q[1].id < Tail(q)[i].id
<1>1. /\ Tail(q) \in Seq(Commands) /\ DOMAIN Tail(q) = 1 .. (Len(q) - 1)
      /\ \A j \in 1 .. (Len(q) - 1) : Tail(q)[j] = q[j + 1]
      /\ 1 \in DOMAIN q
  BY TailProperties
<1>2. DOMAIN q = 1 .. Len(q) /\ Len(q) \in Nat
  OBVIOUS
<1>3. \A j \in 1 .. (Len(q) - 1) : j + 1 \in DOMAIN q /\ 1 < j + 1
  BY <1>2
<1>4. \A i \in DOMAIN Tail(q) : i + 1 \in DOMAIN q /\ Tail(q)[i] = q[i + 1]
  BY <1>1, <1>3
<1>5. ASSUME NEW i \in DOMAIN q, i # 1
      PROVE  i - 1 \in DOMAIN Tail(q) /\ Tail(q)[i - 1] = q[i]
  <2>1. i - 1 \in 1 .. (Len(q) - 1) /\ (i - 1) + 1 = i
    BY <1>2, <1>5
  <2> QED BY <1>1, <2>1
<1>6. ASSUME NEW i \in DOMAIN Tail(q), NEW j \in DOMAIN Tail(q), i < j
      PROVE  /\ Tail(q)[i].id <= Tail(q)[j].id
             /\ Tail(q)[i].type # "ACTIVATE" => Tail(q)[i].id < Tail(q)[j].id
  <2>1. i \in 1 .. (Len(q) - 1) /\ j \in 1 .. (Len(q) - 1)
    BY <1>1
  <2>2. i + 1 \in DOMAIN q /\ j + 1 \in DOMAIN q /\ i + 1 < j + 1
    BY <1>3, <1>6, <2>1
  <2>3. q[i + 1].id <= q[j + 1].id /\ (q[i + 1].type # "ACTIVATE" => q[i + 1].id < q[j + 1].id)
    BY <2>2 DEF QueueOrder
  <2> QED BY <1>4, <2>3
<1>7. QueueOrder(Tail(q))
  BY <1>6 DEF QueueOrder
<1>8. ASSUME q[1].type = "ACTIVATE"
      PROVE  1 \in DOMAIN Tail(q) /\ Tail(q)[1].id = q[1].id
  <2>1. 1 + 1 \in DOMAIN q /\ q[1 + 1].id = q[1].id
    BY <1>1, <1>8 DEF QueueShape
  <2>2. 1 \in 1 .. (Len(q) - 1)
    BY <1>2, <2>1
  <2> QED BY <1>1, <2>1, <2>2
<1>9. ASSUME q[1].type # "ACTIVATE", NEW i \in DOMAIN Tail(q)
      PROVE  q[1].id < Tail(q)[i].id
  <2>1. i \in 1 .. (Len(q) - 1)
    BY <1>1
  <2> QED BY <1>1, <1>3, <1>4, <1>9, <2>1 DEF QueueOrder
<1> QED BY <1>4, <1>5, <1>7, <1>8, <1>9

\* What is left of the queues: the transaction of a column command is gone,
\* and was the first of its bank.
LEMMA QueuesSent ==
  ASSUME hist \in Seq(Transactions), NEW m \in Memories, QueuesShaped(m),
         \A d \in Banks : QueueOrder(m.queue[d]),
         NEW t \in Memories, NEW c, Sends(m, c, t)
  PROVE  /\ \A d \in Banks : QueueOrder(t.queue[d])
         /\ InQueues(t) \subseteq InQueues(m)
         /\ c.type \notin {"READ_P", "WRITE_P"} => InQueues(t) = InQueues(m)
         /\ c.type \in {"READ_P", "WRITE_P"} =>
              /\ c.id \in Nat \ {None} /\ InQueues(m) = InQueues(t) \cup {c.id}
              /\ \A y \in InQueues(t) : SameBank(c.id, y) => c.id < y
<1>1. CASE c.type = "REFRESH"
  BY <1>1, RefreshSent DEF InQueues
<1>2. CASE c.type # "REFRESH"
  <2> DEFINE b == BankOfCmd(c)
             q == m.queue[b]
  <2>1. c \in Commands /\ Chosen(m, c, t)
    BY DEF Sends
  <2>2. /\ b \in Banks /\ q # <<>> /\ c = q[1] /\ c.id \in DOMAIN hist
        /\ c.type \in {"ACTIVATE", "READ_P", "WRITE_P"}
        /\ t.queue = [m.queue EXCEPT ![b] = Tail(@)]
    BY <1>2, <2>1, HeadSent
  <2>3. /\ q \in Seq(Commands) /\ QueueShape(q, m.bank[b], b) /\ QueueOrder(q)
    BY <2>2 DEF QueuesShaped, Memories
  <2>4. \A d \in Banks : t.queue[d] = IF d = b THEN Tail(q) ELSE m.queue[d]
    BY <2>2 DEF Memories
  <2>5. \A d \in Banks : \A i \in DOMAIN m.queue[d] :
          m.queue[d][i].id \in Nat \ {None} /\ BankOf(hist[m.queue[d][i].id].addr) = d
    BY HistType DEF QueuesShaped, QueueShape, BankOfCmd
  <2>6. b = BankOf(hist[c.id].addr)
    BY DEF BankOfCmd
  <2> HIDE DEF b
  <2>7. /\ QueueOrder(Tail(q))
        /\ \A i \in DOMAIN Tail(q) : i + 1 \in DOMAIN q /\ Tail(q)[i] = q[i + 1]
        /\ \A i \in DOMAIN q : i = 1 \/ (i - 1 \in DOMAIN Tail(q) /\ Tail(q)[i - 1] = q[i])
        /\ q[1].type = "ACTIVATE" => 1 \in DOMAIN Tail(q) /\ Tail(q)[1].id = q[1].id
        /\ q[1].type # "ACTIVATE" => \A i \in DOMAIN Tail(q) : q[1].id < Tail(q)[i].id
    BY <2>2, <2>3, QueueSent
  <2>8. 1 \in DOMAIN q
    BY <2>2, <2>3
  <2> HIDE DEF q
  <2>9. \A d \in Banks : QueueOrder(t.queue[d])
    BY <2>4, <2>7
  <2>10. ASSUME NEW y \in InQueues(t)
         PROVE  y \in InQueues(m)
    <3>1. PICK d, i : /\ d \in Banks /\ i \in DOMAIN t.queue[d] /\ y \in Nat
                     /\ t.queue[d][i].id = y
      BY <2>10 DEF InQueues
    <3>2. CASE d = b
      <4>1. i + 1 \in DOMAIN m.queue[b] /\ m.queue[b][i + 1].id = y
        BY <2>4, <2>7, <3>1, <3>2 DEF q
      <4> QED BY <2>2, <3>1, <4>1 DEF InQueues
    <3>3. CASE d # b
      BY <2>4, <3>1, <3>3 DEF InQueues
    <3> QED BY <3>2, <3>3
  <2>11. ASSUME NEW y \in InQueues(m)
         PROVE  y \in InQueues(t) \/ (y = c.id /\ c.type # "ACTIVATE")
    <3>1. PICK d, i : /\ d \in Banks /\ i \in DOMAIN m.queue[d] /\ y \in Nat
                     /\ m.queue[d][i].id = y
      BY <2>11 DEF InQueues
    <3>2. CASE d = b /\ i = 1
      <4>1. y = c.id
        BY <2>2, <3>1, <3>2 DEF q
      <4>2. c.type = "ACTIVATE" => 1 \in DOMAIN t.queue[d] /\ t.queue[d][1].id = y
        BY <2>2, <2>4, <2>7, <3>2, <4>1
      <4> QED BY <3>1, <4>1, <4>2 DEF InQueues
    <3>3. CASE d = b /\ i # 1
      <4>1. i - 1 \in DOMAIN t.queue[d] /\ t.queue[d][i - 1].id = y
        BY <2>4, <2>7, <3>1, <3>3 DEF q
      <4> QED BY <3>1, <4>1 DEF InQueues
    <3>4. CASE d # b
      BY <2>4, <3>1, <3>4 DEF InQueues
    <3> QED BY <3>2, <3>3, <3>4
  <2>12. c.id \in InQueues(m) /\ c.id \in Nat \ {None}
    BY <2>2, <2>5, <2>8 DEF InQueues, q
  <2>13. ASSUME c.type # "ACTIVATE", NEW y \in InQueues(t), SameBank(c.id, y)
         PROVE  c.id < y
    <3>1. PICK d, i : /\ d \in Banks /\ i \in DOMAIN t.queue[d] /\ y \in Nat
                     /\ t.queue[d][i].id = y
      BY <2>13 DEF InQueues
    <3>2. BankOf(hist[y].addr) = d
      <4>1. CASE d = b
        <5>1. i + 1 \in DOMAIN m.queue[b] /\ m.queue[b][i + 1].id = y
          BY <2>4, <2>7, <3>1, <4>1 DEF q
        <5> QED BY <2>2, <2>5, <4>1, <5>1
      <4>2. CASE d # b
        BY <2>4, <2>5, <3>1, <4>2
      <4> QED BY <4>1, <4>2
    <3>3. d = b
      BY <2>6, <2>13, <3>2 DEF SameBank
    <3> QED BY <2>2, <2>4, <2>7, <2>13, <3>1, <3>3
  <2>14. c.type \notin {"READ_P", "WRITE_P"} <=> c.type = "ACTIVATE"
    BY <2>2
  <2> QED BY <2>9, <2>10, <2>11, <2>12, <2>13, <2>14
<1> QED BY <1>1, <1>2

LEMMA IssuedOrdered ==
  ASSUME hist \in Seq(Transactions), NEW s \in Memories, BusKept(s),
         s.cmd.type = "READ_P" => s.cmd.id # None,
         NEW m \in Memories, Moved(s, m), QueuesShaped(m), Ordered(m),
         NEW t \in Memories, NEW c \in Commands, Sends(m, c, t),
         t.rankData = m.rankData, t.reading = m.reading, t.data = m.data,
         t.transactionQueue = m.transactionQueue,
         t.pendingTransactions = m.pendingTransactions
  PROVE  Ordered(t) /\ Outstanding(t) = Outstanding(m)
<1>1. m.cmd = NoCommand
  BY DEF Moved
<1>2. PICK e : e = DataAfter(c)
  OBVIOUS
<1>3. PICK col \in BOOLEAN : col <=> c.type \in {"READ_P", "WRITE_P"}
  OBVIOUS
<1>4. \A x, a : BurstAt(t, x, a) <=> BurstAt(m, x, a) \/ (col /\ x = c.id /\ a = e)
  BY <1>1, <1>2, <1>3, SentBursts
<1>5. /\ BusOrder(m) /\ WaitsOrdered(m) /\ \A d \in Banks : QueueOrder(m.queue[d])
      /\ Precede(Sent(m), InQueues(m)) /\ Precede(Sent(m), Waits(m))
      /\ Precede(InQueues(m), Waits(m))
  BY DEF Ordered
<1>6. /\ \A d \in Banks : QueueOrder(t.queue[d])
      /\ InQueues(t) \subseteq InQueues(m)
      /\ ~col => InQueues(t) = InQueues(m)
      /\ col => /\ c.id \in Nat \ {None} /\ InQueues(m) = InQueues(t) \cup {c.id}
                /\ \A y \in InQueues(t) : SameBank(c.id, y) => c.id < y
  BY <1>3, <1>5, QueuesSent
<1>7. ASSUME col, NEW x \in Nat \ {None}, NEW a \in Int, BurstAt(m, x, a)
      PROVE  ~(e < a)
  <2>1. a \in ReadStarts(m) \cup WriteStarts(m)
    BY <1>7, BurstStarts
  <2>2. a \in Starts(m.rankData, m.reading) \cup WriteStarts(m)
    BY <1>1, <2>1 DEF ReadStarts, NoCommand
  <2>3. /\ c.type = "READ_P" => a + Burst <= RL + 1
        /\ c.type = "WRITE_P" => a + Burst <= WL
    BY <2>2, IssuedLast
  <2> QED BY <1>2, <1>3, <1>7, <2>3, TimingType DEF DataAfter
<1>8. e \in Int
  BY <1>2, DataAfterType
<1>9. Sent(t) = Sent(m) \cup {x \in {c.id} : col}
  <2>1. ASSUME NEW x \in Sent(t)
        PROVE  x \in Sent(m) \/ (col /\ x = c.id)
    BY <1>4 DEF Sent
  <2>2. ASSUME NEW x, x \in Sent(m) \/ (col /\ x = c.id)
        PROVE  x \in Sent(t)
    BY <1>4, <1>6, <1>8, <2>2 DEF Sent
  <2> QED BY <2>1, <2>2
<1>10. BusOrder(t)
  <2>1. ASSUME NEW x \in Nat \ {None}, NEW y \in Nat \ {None}, NEW a \in Int, NEW b \in Int,
               BurstAt(t, x, a), BurstAt(t, y, b), a < b, SameBank(x, y)
        PROVE  x < y
    <3>1. CASE BurstAt(m, x, a) /\ BurstAt(m, y, b)
      BY <1>5, <2>1, <3>1 DEF BusOrder
    <3>2. CASE BurstAt(m, x, a) /\ col /\ y = c.id /\ b = e
      <4>1. x \in Sent(m)
        BY <3>2 DEF Sent
      <4> QED BY <1>5, <1>6, <2>1, <3>2, <4>1 DEF Precede
    <3>3. CASE col /\ x = c.id /\ a = e /\ BurstAt(m, y, b)
      BY <1>7, <2>1, <3>3
    <3>4. CASE a = e /\ b = e
      BY <2>1, <3>4
    <3> QED BY <1>4, <2>1, <3>1, <3>2, <3>3, <3>4
  <2> QED BY <2>1 DEF BusOrder
<1>11. Waits(t) = Waits(m) /\ WaitsOrdered(t)
  BY <1>5 DEF Waits, WaitsOrdered
<1>12. Precede(Sent(t), InQueues(t)) /\ Precede(Sent(t), Waits(t)) /\ Precede(InQueues(t), Waits(t))
  BY <1>5, <1>6, <1>9, <1>11 DEF Precede
<1>13. Outstanding(t) = Outstanding(m)
  BY <1>6, <1>9, <1>11 DEF Outstanding
<1> QED BY <1>6, <1>10, <1>11, <1>12, <1>13 DEF Ordered

-----------------------------------------------------------------------------
\* A transaction is broken up

LEMMA IncreasingInjective ==
  ASSUME NEW q \in Seq(Nat), Increasing(q)
  PROVE  IsInjective(q)
<1>1. ASSUME NEW i \in DOMAIN q, NEW j \in DOMAIN q, q[i] = q[j]
      PROVE  i = j
  <2>1. i \in Nat /\ j \in Nat /\ q[i] \in Nat
    BY ElementOfSeq
  <2>2. ~(i < j) /\ ~(j < i)
    BY <1>1, <2>1 DEF Increasing
  <2> QED BY <2>1, <2>2
<1> QED BY <1>1 DEF IsInjective

LEMMA IncreasingRemoved ==
  ASSUME NEW q \in Seq(Nat), Increasing(q), NEW i \in DOMAIN q
  PROVE  Increasing(RemoveAt(q, i))
<1>1. /\ DOMAIN RemoveAt(q, i) = 1 .. (Len(q) - 1)
      /\ \A j \in 1 .. (Len(q) - 1) : RemoveAt(q, i)[j] = IF j < i THEN q[j] ELSE q[j + 1]
  BY RemoveAtProperties
<1>2. DOMAIN q = 1 .. Len(q) /\ Len(q) \in Nat
  OBVIOUS
<1>3. ASSUME NEW j \in DOMAIN RemoveAt(q, i), NEW k \in DOMAIN RemoveAt(q, i), j < k
      PROVE  RemoveAt(q, i)[j] < RemoveAt(q, i)[k]
  <2> DEFINE jj == IF j < i THEN j ELSE j + 1
             kk == IF k < i THEN k ELSE k + 1
  <2>1. j \in 1 .. (Len(q) - 1) /\ k \in 1 .. (Len(q) - 1)
    BY <1>1
  <2>2. jj \in DOMAIN q /\ kk \in DOMAIN q /\ jj < kk
    <3>1. i \in 1 .. Len(q)
      BY <1>2
    <3>2. \A n \in Nat : \A u \in 1 .. n : \A v, w \in 1 .. (n - 1) :
            /\ (IF v < u THEN v ELSE v + 1) \in 1 .. n
            /\ v < w => (IF v < u THEN v ELSE v + 1) < (IF w < u THEN w ELSE w + 1)
      OBVIOUS
    <3> QED BY <1>2, <1>3, <2>1, <3>1, <3>2, Zenon
  <2>3. RemoveAt(q, i)[j] = q[jj] /\ RemoveAt(q, i)[k] = q[kk]
    BY <1>1, <2>1
  <2> HIDE DEF jj, kk
  <2> QED BY <2>2, <2>3 DEF Increasing
<1> QED BY <1>3 DEF Increasing

\* Queue r is q and two commands of transaction id.
Extended(q, r, id) ==
  /\ QueueOrder(r)
  /\ \A i \in DOMAIN r : (i \in DOMAIN q /\ r[i] = q[i]) \/ r[i].id = id
  /\ \A i \in DOMAIN q : i \in DOMAIN r /\ r[i] = q[i]
  /\ \E i \in DOMAIN r : r[i].id = id

\* Two commands of a transaction behind those of earlier ones.
LEMMA OrderConcat ==
  ASSUME NEW q \in Seq(Commands), QueueOrder(q), NEW x \in Commands, NEW y \in Commands,
         x.type = "ACTIVATE", x.id = y.id, \A i \in DOMAIN q : q[i].id < x.id
  PROVE  Extended(q, q \o <<x, y>>, x.id)
<1> DEFINE r == q \o <<x, y>>
<1>1. /\ Len(q) \in Nat
      /\ DOMAIN r = 1 .. (Len(q) + 2) /\ DOMAIN q = 1 .. Len(q)
      /\ \A i \in DOMAIN q : r[i] = q[i]
      /\ r[Len(q) + 1] = x /\ r[Len(q) + 2] = y
  BY ConcatTwo
<1> HIDE DEF r
<1>2. PICK n : n = Len(q) /\ n \in Nat
  BY <1>1
<1>3. \A i \in DOMAIN r : i \in DOMAIN q \/ i = n + 1 \/ i = n + 2
  BY <1>1, <1>2
<1>4. n + 1 \in DOMAIN r /\ \A i \in DOMAIN q : i \in DOMAIN r
  BY <1>1, <1>2
<1>5. ASSUME NEW i \in DOMAIN r, NEW j \in DOMAIN r, i < j
      PROVE  r[i].id <= r[j].id /\ (r[i].type # "ACTIVATE" => r[i].id < r[j].id)
  <2>1. CASE j \in DOMAIN q
    <3>1. i \in DOMAIN q
      BY <1>1, <1>5, <2>1
    <3> QED BY <1>1, <1>5, <2>1, <3>1 DEF QueueOrder
  <2>2. CASE i \in DOMAIN q /\ j \notin DOMAIN q
    <3>1. r[j].id = x.id
      BY <1>1, <1>2, <1>3, <2>2
    <3>2. q[i].id < x.id /\ q[i].id \in Nat /\ x.id \in Nat /\ r[i] = q[i]
      <4>1. q[i] \in Commands
        BY <2>2, ElementOfSeq
      <4> QED BY <1>1, <2>2, <4>1 DEF Commands
    <3>3. r[i].id < r[j].id /\ r[i].id <= r[j].id
      <4>1. \A u, v \in Nat : u < v => u <= v
        OBVIOUS
      <4> QED BY <3>1, <3>2, <4>1, Zenon
    <3> QED BY <3>3
  <2>3. CASE i \notin DOMAIN q
    <3>1. i = n + 1 /\ j = n + 2
      BY <1>1, <1>2, <1>3, <1>5, <2>3
    <3>2. r[i] = x /\ r[j] = y
      BY <1>1, <1>2, <3>1
    <3> QED BY <3>2 DEF Commands
  <2> QED BY <2>1, <2>2, <2>3
<1>6. \A i \in DOMAIN r : (i \in DOMAIN q /\ r[i] = q[i]) \/ r[i].id = x.id
  BY <1>1, <1>2, <1>3
<1>7. r[n + 1].id = x.id /\ \A i \in DOMAIN q : r[i] = q[i]
  BY <1>1, <1>2
<1>8. QueueOrder(r)
  BY <1>5 DEF QueueOrder
<1>9. Extended(q, r, x.id)
  BY <1>4, <1>6, <1>7, <1>8, Zenon DEF Extended
<1> QED BY <1>9 DEF r

LEMMA ScheduledOrdered ==
  ASSUME hist \in Seq(Transactions), NEW s \in Memories, QueuesShaped(s), Ordered(s),
         Outstanding(s) \subseteq DOMAIN hist,
         NEW t \in Memories, NEW i, Schedules(s, i, t), SameBursts(s, t),
         t.pendingTransactions = s.pendingTransactions
  PROVE  Ordered(t) /\ Outstanding(t) = Outstanding(s)
<1> DEFINE q == s.transactionQueue
           p == s.pendingTransactions
           id == q[i]
           b == BankOf(hist[id].addr)
           x == [type |-> "ACTIVATE", id |-> id]
           y == [type |-> Column(id), id |-> id]
<1>1. /\ q \in Seq(Nat) /\ p \in Seq(Nat) /\ i \in DOMAIN q
      /\ i \in Room(s) /\ \A j \in Room(s) : i <= j
      /\ t.transactionQueue = RemoveAt(q, i) /\ t.pendingTransactions = p
      /\ t.queue = [s.queue EXCEPT ![b] = @ \o <<x, y>>]
  BY Zenon, SeqFields DEF Schedules
<1>2. id \in ToSet(q) /\ id \in Waits(s) /\ id \in DOMAIN hist
  <2>1. id \in ToSet(q)
    BY <1>1 DEF ToSet
  <2>2. id \in Waits(s)
    BY <2>1 DEF Waits
  <2> QED BY <2>1, <2>2 DEF Outstanding
<1>3. b \in Banks /\ id \in Nat /\ id # None
  BY <1>2, HistType
<1>4. x \in Commands /\ y \in Commands /\ x.type = "ACTIVATE" /\ x.id = id /\ y.id = id
  BY <1>3 DEF Commands, Column
<1>5. \A j \in DOMAIN q : BankOf(hist[q[j]].addr) = b => j \in Room(s)
  <2>1. HasRoomFor(s, 2, b)
    BY <1>1, Zenon DEF Room
  <2> HIDE DEF b
  <2> QED BY <2>1 DEF Room
<1> HIDE DEF b, x, y
<1>6. \A d \in Banks : t.queue[d] = IF d = b THEN s.queue[d] \o <<x, y>> ELSE s.queue[d]
  BY <1>1, <1>3 DEF Memories
<1>7. /\ BusOrder(s) /\ \A d \in Banks : QueueOrder(s.queue[d])
      /\ Increasing(q) /\ Increasing(p) /\ \A v \in ToSet(q), w \in ToSet(p) : v < w
      /\ Precede(Sent(s), InQueues(s)) /\ Precede(Sent(s), Waits(s))
      /\ Precede(InQueues(s), Waits(s))
  BY DEF Ordered, WaitsOrdered
<1>8. ToSet(RemoveAt(q, i)) = ToSet(q) \ {id}
  BY <1>1, <1>7, IncreasingInjective, RemoveAtElements
<1>9. Increasing(RemoveAt(q, i))
  BY <1>1, <1>7, IncreasingRemoved
<1>10. id \notin ToSet(p)
  BY <1>2, <1>3, <1>7
<1> HIDE DEF id, q, p
<1>11. Waits(t) = Waits(s) \ {id}
  BY <1>1, <1>8, <1>10 DEF Waits, q, p
<1>12. WaitsOrdered(t)
  BY <1>1, <1>7, <1>8, <1>9 DEF WaitsOrdered
<1>13. \A j \in DOMAIN s.queue[b] : s.queue[b][j].id < id
  <2>1. ASSUME NEW j \in DOMAIN s.queue[b]
        PROVE  s.queue[b][j].id < id
    <3>1. s.queue[b][j].id \in DOMAIN hist /\ BankOf(hist[s.queue[b][j].id].addr) = b
      BY <1>3 DEF QueuesShaped, QueueShape, BankOfCmd
    <3>2. s.queue[b][j].id \in InQueues(s)
      BY <1>3, <3>1, HistType DEF InQueues
    <3>3. SameBank(s.queue[b][j].id, id)
      BY <3>1 DEF SameBank, b
    <3> QED BY <1>2, <1>7, <3>2, <3>3 DEF Precede
  <2> QED BY <2>1
<1>14. s.queue[b] \in Seq(Commands)
  BY <1>3 DEF Memories
<1>15. PICK r : r = s.queue[b] \o <<x, y>>
  OBVIOUS
<1>16. /\ QueueOrder(r)
       /\ \A j \in DOMAIN r : (j \in DOMAIN s.queue[b] /\ r[j] = s.queue[b][j]) \/ r[j].id = id
       /\ \A j \in DOMAIN s.queue[b] : j \in DOMAIN r /\ r[j] = s.queue[b][j]
       /\ \E j \in DOMAIN r : r[j].id = id
  <2>1. \A j \in DOMAIN s.queue[b] : s.queue[b][j].id < x.id
    BY <1>4, <1>13, Zenon
  <2>2. QueueOrder(s.queue[b])
    BY <1>3, <1>7
  <2> HIDE DEF id
  <2>3. x.id = y.id /\ x.type = "ACTIVATE"
    BY <1>4
  <2>4. Extended(s.queue[b], s.queue[b] \o <<x, y>>, x.id)
    BY <1>4, <1>14, <2>1, <2>2, <2>3, OrderConcat, Zenon
  <2> QED BY <1>4, <1>15, <2>4, Zenon DEF Extended
<1>17. \A d \in Banks : t.queue[d] = IF d = b THEN r ELSE s.queue[d]
  BY <1>6, <1>15
<1>18. \A d \in Banks : QueueOrder(t.queue[d])
  BY <1>7, <1>16, <1>17
<1>19. InQueues(t) = InQueues(s) \cup {id}
  <2>1. ASSUME NEW z \in InQueues(t)
        PROVE  z \in InQueues(s) \/ z = id
    <3>1. PICK d, j : d \in Banks /\ j \in DOMAIN t.queue[d] /\ z \in Nat /\ t.queue[d][j].id = z
      BY <2>1 DEF InQueues
    <3> QED BY <1>16, <1>17, <3>1 DEF InQueues
  <2>2. ASSUME NEW z \in InQueues(s)
        PROVE  z \in InQueues(t)
    <3>1. PICK d, j : d \in Banks /\ j \in DOMAIN s.queue[d] /\ z \in Nat /\ s.queue[d][j].id = z
      BY <2>2 DEF InQueues
    <3>2. j \in DOMAIN t.queue[d] /\ t.queue[d][j].id = z
      BY <1>16, <1>17, <3>1
    <3> QED BY <3>1, <3>2 DEF InQueues
  <2>3. id \in InQueues(t)
    BY <1>3, <1>16, <1>17 DEF InQueues
  <2> QED BY <2>1, <2>2, <2>3
<1>20. \A z, a : BurstAt(t, z, a) <=> BurstAt(s, z, a)
  BY Zenon DEF BurstAt, SameBursts
<1>21. Sent(t) = Sent(s)
  BY <1>20 DEF Sent
<1>22. BusOrder(t)
  BY <1>7, <1>20, Zenon DEF BusOrder
<1>23. ASSUME NEW z \in Waits(t), SameBank(id, z)
       PROVE  id < z
  <2>1. CASE z \in ToSet(p)
    BY <1>2, <1>7, <2>1
  <2>2. CASE z \in ToSet(q) /\ z # id
    <3>1. PICK j \in DOMAIN q : z = q[j]
      BY <2>2 DEF ToSet
    <3>2. j \in Room(s)
      BY <1>5, <1>23, <3>1 DEF SameBank, b
    <3>3. i <= j /\ i # j /\ i \in Nat /\ j \in Nat
      BY <1>1, <2>2, <3>1, <3>2 DEF id
    <3>4. i < j
      BY <3>3
    <3> QED BY <1>1, <1>7, <3>1, <3>4 DEF Increasing, id
  <2> QED BY <1>11, <2>1, <2>2 DEF Waits, q, p
<1>24. Precede(Sent(t), InQueues(t)) /\ Precede(Sent(t), Waits(t))
  BY <1>2, <1>7, <1>11, <1>19, <1>21 DEF Precede
<1>25. Precede(InQueues(t), Waits(t))
  BY <1>7, <1>11, <1>19, <1>23 DEF Precede
<1>26. Outstanding(t) = Outstanding(s)
  BY <1>2, <1>11, <1>19, <1>21 DEF Outstanding
<1> QED BY <1>12, <1>18, <1>22, <1>24, <1>25, <1>26 DEF Ordered

-----------------------------------------------------------------------------
\* A cycle of the memory completes a transaction or none

LEMMA CycleOrdered ==
  ASSUME hist \in Seq(Transactions), NEW s, Good(s), Ordered(s),
         Outstanding(s) \subseteq DOMAIN hist, NEW u, u = Cycle(s)
  PROVE  Ordered(u) /\ Outstanding(u) = Outstanding(s) \ Finished(s)
<1>1. PICK m \in Memories, t \in Memories, v \in Memories : Parts(s, m, t, v, u)
  BY CycleGood, Zenon
<1>2. u \in Memories /\ s \in Memories /\ BusKept(s)
  <2>1. Good(u)
    BY CycleGood, Zenon
  <2> QED BY <2>1 DEF Good
<1>3. s.cmd.type = "READ_P" => s.cmd.id # None
  <2>1. s.cmd # NoCommand => ValidCommand(s.cmd)
    BY DEF Good
  <2> QED BY <2>1, HistType DEF ValidCommand, NoCommand
<1>4. /\ Moved(s, m) /\ m.queue = s.queue /\ Entered(s, m) /\ QueuesShaped(m)
      /\ t = m \/ \E c \in Commands : Sends(m, c, t)
      /\ t.rankData = m.rankData /\ t.reading = m.reading /\ t.data = m.data
      /\ t.transactionQueue = m.transactionQueue
      /\ t.pendingTransactions = m.pendingTransactions
      /\ QueuesShaped(t)
      /\ v = t \/ \E i \in DOMAIN t.transactionQueue : Schedules(t, i, v)
      /\ SameBursts(t, v) /\ v.pendingTransactions = t.pendingTransactions
      /\ SameBursts(v, u) /\ u.queue = v.queue
      /\ u.transactionQueue = v.transactionQueue
      /\ u.pendingTransactions = v.pendingTransactions
  BY <1>1, Zenon DEF Parts
<1>5. /\ BusOrder(s) /\ WaitsOrdered(s) /\ \A d \in Banks : QueueOrder(s.queue[d])
      /\ Precede(Sent(s), InQueues(s)) /\ Precede(Sent(s), Waits(s))
      /\ Precede(InQueues(s), Waits(s))
  BY DEF Ordered
<1>6. BusOrder(m) /\ Sent(m) = Sent(s) \ Finished(s)
  BY <1>2, <1>3, <1>4, <1>5, SentMoved
<1>7. WaitsOrdered(m) /\ Waits(m) = Waits(s)
  BY <1>2, <1>4, <1>5, WaitsEntered
<1>8. InQueues(m) = InQueues(s)
  BY <1>4 DEF InQueues
<1>9. Ordered(m)
  <2>1. Precede(Sent(m), InQueues(m)) /\ Precede(Sent(m), Waits(m))
    BY <1>5, <1>6, <1>7, <1>8 DEF Precede
  <2> QED BY <1>4, <1>5, <1>6, <1>7, <1>8, <2>1 DEF Ordered
<1>10. Outstanding(m) = Outstanding(s) \ Finished(s)
  <2>1. ASSUME NEW x \in Finished(s)
        PROVE  x \notin InQueues(s) /\ x \notin Waits(s)
    <3>1. x \in Sent(s) /\ x \in Nat
      BY <1>2, FinishedBurst DEF Sent
    <3>2. SameBank(x, x) /\ ~(x < x)
      BY <3>1 DEF SameBank
    <3> QED BY <1>5, <3>1, <3>2 DEF Precede
  <2> QED BY <1>6, <1>7, <1>8, <2>1 DEF Outstanding
<1>11. Ordered(t) /\ Outstanding(t) = Outstanding(m)
  <2>1. CASE t = m
    BY <1>9, <2>1
  <2>2. CASE \E c \in Commands : Sends(m, c, t)
    <3>1. PICK c \in Commands : Sends(m, c, t)
      BY <2>2
    <3> QED BY <1>2, <1>3, <1>4, <1>9, <3>1, IssuedOrdered
  <2> QED BY <1>4, <2>1, <2>2
<1>12. Ordered(v) /\ Outstanding(v) = Outstanding(t)
  <2>1. CASE v = t
    BY <1>11, <2>1
  <2>2. CASE \E i \in DOMAIN t.transactionQueue : Schedules(t, i, v)
    <3>1. PICK i \in DOMAIN t.transactionQueue : Schedules(t, i, v)
      BY <2>2
    <3>2. Outstanding(t) \subseteq DOMAIN hist
      BY <1>10, <1>11
    <3> QED BY <1>4, <1>11, <3>1, <3>2, ScheduledOrdered
  <2> QED BY <1>4, <2>1, <2>2
<1>13. Sent(u) = Sent(v) /\ (BusOrder(v) => BusOrder(u))
  <2>1. \A z, a : BurstAt(u, z, a) <=> BurstAt(v, z, a)
    BY <1>4, Zenon DEF BurstAt, SameBursts
  <2>2. Sent(u) = Sent(v)
    BY <2>1 DEF Sent
  <2>3. BusOrder(v) => BusOrder(u)
    BY <2>1, Zenon DEF BusOrder
  <2> QED BY <2>2, <2>3
<1>14. /\ InQueues(u) = InQueues(v) /\ Waits(u) = Waits(v) /\ (WaitsOrdered(v) => WaitsOrdered(u))
  BY <1>4 DEF InQueues, Waits, WaitsOrdered
<1>15. Ordered(u)
  BY <1>4, <1>12, <1>13, <1>14, Zenon DEF Ordered
<1>16. Outstanding(u) = Outstanding(s) \ Finished(s)
  BY <1>10, <1>11, <1>12, <1>13, <1>14, Zenon DEF Outstanding
<1> QED BY <1>15, <1>16

\* What ends is the earliest of its bank.
LEMMA CompletesFirst ==
  ASSUME NEW s \in Memories, BusKept(s), Ordered(s), NEW x \in Finished(s),
         NEW y \in Outstanding(s) \cap Nat, SameBank(x, y)
  PROVE  ~(y < x)
<1>1. /\ x \in Nat \ {None} /\ 1 - Burst \in Int /\ BurstAt(s, x, 1 - Burst)
      /\ \A z \in Finished(s) : z = x
  BY FinishedBurst
<1>2. x \in Sent(s)
  BY <1>1 DEF Sent
<1>3. CASE y \in Sent(s)
  <2>1. PICK a \in Int : y \in Nat \ {None} /\ BurstAt(s, y, a)
    BY <1>3 DEF Sent
  <2>2. a >= 1 - Burst /\ (a = 1 - Burst => y \in Finished(s))
    BY <2>1, FinishedFirst DEF BusKept
  <2>3. CASE a = 1 - Burst
    BY <1>1, <2>2, <2>3
  <2>4. CASE 1 - Burst < a
    <3>1. x < y
      BY <1>1, <2>1, <2>4 DEF Ordered, BusOrder
    <3> QED BY <1>1, <3>1
  <2> QED BY <1>1, <2>2, <2>3, <2>4
<1>4. CASE y \in InQueues(s) \cup Waits(s)
  <2>1. x < y
    BY <1>2, <1>4 DEF Ordered, Precede
  <2> QED BY <1>1, <2>1
<1> QED BY <1>3, <1>4 DEF Outstanding

-----------------------------------------------------------------------------
(* The memory keeps the order while nothing is added behind a transaction  *)
(* that waits in pendingTransactions: it would take the place in the       *)
(* transaction queue that the waiting one is to have.                      *)
NoOvertaking ==
  hist' # hist => mem.pendingTransactions = <<>> \/ ~WillAcceptTransaction(mem)

(* A transaction is on its way or completed, and what is on its way is in  *)
(* order.                                                                  *)
DeviceInv ==
  /\ Inv /\ Ordered(mem)
  /\ Outstanding(mem) \cup done = DOMAIN hist
  /\ Outstanding(mem) \cap done = {}

\* What is in order in a state is so in the next, when nothing was added.
LEMMA OrderedNext ==
  ASSUME hist' = hist, NEW u, mem' = u, Ordered(u)
  PROVE  Ordered(mem)' /\ Outstanding(mem)' = Outstanding(u)
<1>1. /\ Sent(mem)' = Sent(u) /\ InQueues(mem)' = InQueues(u) /\ Waits(mem)' = Waits(u)
      /\ Outstanding(mem)' = Outstanding(u)
  <2>1. Sent(mem)' = Sent(mem')
    BY DEF Sent, BurstAt, InLane
  <2>2. InQueues(mem)' = InQueues(mem') /\ Waits(mem)' = Waits(mem')
    BY DEF InQueues, Waits
  <2>3. Outstanding(mem)' = Sent(mem)' \cup InQueues(mem)' \cup Waits(mem)'
    BY DEF Outstanding
  <2>4. Outstanding(u) = Sent(u) \cup InQueues(u) \cup Waits(u)
    BY DEF Outstanding
  <2> QED BY <2>1, <2>2, <2>3, <2>4
<1>2. Ordered(mem)'
  <2>1. /\ BusOrder(u) /\ WaitsOrdered(u) /\ \A d \in Banks : QueueOrder(u.queue[d])
        /\ Precede(Sent(u), InQueues(u)) /\ Precede(Sent(u), Waits(u))
        /\ Precede(InQueues(u), Waits(u))
    BY DEF Ordered
  <2>2. BusOrder(mem)'
    <3>1. BusOrder(mem')
      BY <2>1
    <3> QED BY <3>1 DEF BusOrder, BurstAt, InLane, SameBank
  <2>3. WaitsOrdered(mem)' /\ \A d \in Banks : QueueOrder(mem.queue[d])'
    BY <2>1, Zenon DEF WaitsOrdered, Increasing, QueueOrder
  <2>4. /\ Precede(Sent(mem), InQueues(mem))' /\ Precede(Sent(mem), Waits(mem))'
        /\ Precede(InQueues(mem), Waits(mem))'
    BY <1>1, <2>1 DEF Precede, SameBank
  <2> QED BY <2>2, <2>3, <2>4, Zenon DEF Ordered
<1> QED BY <1>1, <1>2

LEMMA UpdateDevice ==
  ASSUME DeviceInv, Update
  PROVE  DeviceInv' /\ (UNCHANGED <<hist, done>> \/ Device!DeviceNext)
<1>1. hist' = hist /\ hist \in Seq(Transactions) /\ Good(mem)
  BY DEF Update, DeviceInv, Inv
<1>2. PICK u : u = Cycle(mem)
  OBVIOUS
<1>3. mem' = u
  BY <1>2 DEF Update, Cycle, Moves
<1>4. /\ Ordered(mem) /\ Outstanding(mem) \cup done = DOMAIN hist
      /\ Outstanding(mem) \cap done = {}
  BY DEF DeviceInv
<1>5. Ordered(u) /\ Outstanding(u) = Outstanding(mem) \ Finished(mem)
  BY <1>1, <1>2, <1>4, CycleOrdered
<1>6. ToSet(u.completed) = Finished(mem)
  BY <1>1, <1>2, CycleGood, Zenon
<1>7. done' = done \cup Finished(mem)
  BY <1>3, <1>6 DEF Update, ToSet
<1>8. Ordered(mem)' /\ Outstanding(mem)' = Outstanding(u)
  BY <1>1, <1>3, <1>5, OrderedNext
<1>9. \A x \in Finished(mem) : x \in Outstanding(mem) /\ \A y \in Finished(mem) : y = x
  <2>1. mem \in Memories /\ BusKept(mem)
    BY <1>1 DEF Good
  <2> QED BY <2>1, FinishedBurst DEF Outstanding, Sent
<1>10. (Outstanding(mem) \cup done = DOMAIN hist)' /\ (Outstanding(mem) \cap done = {})'
  BY <1>1, <1>4, <1>5, <1>7, <1>8, <1>9
<1>11. DeviceInv'
  BY <1>8, <1>10, UpdateGood DEF DeviceInv
<1>12. CASE Finished(mem) = {}
  BY <1>1, <1>7, <1>11, <1>12
<1>13. CASE Finished(mem) # {}
  <2>1. PICK x : x \in Finished(mem)
    BY <1>13
  <2>2. DOMAIN hist = 1 .. Len(hist) /\ Len(hist) \in Nat
    BY <1>1
  <2>3. x \in 1 .. Len(hist) /\ x \notin done
    BY <1>4, <1>9, <2>1, <2>2
  <2>4. ASSUME NEW j \in 1 .. (x - 1), BankOf(hist[j].addr) = BankOf(hist[x].addr)
        PROVE  j \in done
    <3>1. j \in DOMAIN hist /\ j < x /\ j \in Nat
      BY <2>2, <2>3
    <3>2. SameBank(x, j)
      BY <2>4 DEF SameBank
    <3>3. j \notin Outstanding(mem)
      BY <1>1, <1>4, <2>1, <3>1, <3>2, CompletesFirst DEF Good
    <3> QED BY <1>4, <3>1, <3>3
  <2>5. done' = done \cup {x}
    BY <1>7, <1>9, <2>1
  <2>6. Device!Complete(x) /\ x \in Device!Added
    BY <1>1, <2>3, <2>4, <2>5 DEF Device!Complete, Device!Added, Device!Earlier
  <2> QED BY <1>11, <2>6 DEF Device!DeviceNext
<1> QED BY <1>12, <1>13

LEMMA AddTransactionDevice ==
  ASSUME DeviceInv, NEW isWrite \in BOOLEAN, NEW a \in Addrs, AddTransaction(isWrite, a),
         NoOvertaking
  PROVE  DeviceInv' /\ Device!DeviceNext
<1> DEFINE e == [write |-> isWrite, addr |-> a]
<1>1. /\ hist \in Seq(Transactions) /\ Inv /\ Ordered(mem) /\ mem \in Memories
      /\ Outstanding(mem) \cup done = DOMAIN hist /\ Outstanding(mem) \cap done = {}
  BY DEF DeviceInv, Inv, Good
<1>2. PICK id : id = Len(hist) + 1
  OBVIOUS
<1>3. hist' = Append(hist, e) /\ e \in Transactions /\ done' = done
  BY DEF AddTransaction, Transactions
<1>4. Device!DeviceNext
  BY <1>3 DEF Device!DeviceNext, Device!Add
<1> HIDE DEF e
<1>5. /\ DOMAIN hist' = 1 .. id /\ DOMAIN hist = 1 .. (id - 1) /\ id \in Nat /\ id >= 1
      /\ \A i \in DOMAIN hist : hist'[i] = hist[i]
  BY <1>1, <1>2, <1>3, LastProperties
<1>6. /\ DOMAIN hist' = DOMAIN hist \cup {id} /\ id \notin DOMAIN hist
      /\ \A i \in DOMAIN hist : i < id /\ i \in Nat
  BY <1>5
<1>7. \A x, y \in DOMAIN hist :
        BankOf(hist'[x].addr) = BankOf(hist'[y].addr) => SameBank(x, y)
  BY <1>5 DEF SameBank
<1>8. PICK q \in Seq(Nat), p \in Seq(Nat) : q = mem.transactionQueue /\ p = mem.pendingTransactions
  BY <1>1, SeqFields
<1>9. \/ mem' = [mem EXCEPT !.transactionQueue = Append(q, id)] /\ WillAcceptTransaction(mem)
      \/ mem' = [mem EXCEPT !.pendingTransactions = Append(p, id)]
  BY <1>2, <1>8 DEF AddTransaction
<1>10. hist' # hist
  BY <1>6
<1>11. /\ mem'.cmd = mem.cmd /\ mem'.data = mem.data /\ mem'.writing = mem.writing
       /\ mem'.rankData = mem.rankData /\ mem'.reading = mem.reading
       /\ mem'.queue = mem.queue
       /\ \/ mem'.transactionQueue = Append(q, id) /\ mem'.pendingTransactions = p /\ p = <<>>
          \/ mem'.transactionQueue = q /\ mem'.pendingTransactions = Append(p, id)
  <2>1. CASE mem' = [mem EXCEPT !.transactionQueue = Append(q, id)] /\ WillAcceptTransaction(mem)
    <3>1. p = <<>>
      BY <1>8, <1>10, <2>1 DEF NoOvertaking
    <3> QED BY <1>1, <1>8, <2>1, <3>1 DEF Memories
  <2>2. CASE mem' = [mem EXCEPT !.pendingTransactions = Append(p, id)]
    BY <1>1, <1>8, <2>2 DEF Memories
  <2> QED BY <1>9, <2>1, <2>2
<1>12. /\ ToSet(Append(q, id)) = ToSet(q) \cup {id}
       /\ ToSet(Append(p, id)) = ToSet(p) \cup {id}
  BY <1>5, AppendElements
<1>13. Waits(mem) = ToSet(q) \cup ToSet(p)
  BY <1>8 DEF Waits
<1>14. /\ Sent(mem) \subseteq DOMAIN hist /\ InQueues(mem) \subseteq DOMAIN hist
       /\ Waits(mem) \subseteq DOMAIN hist
  BY <1>1 DEF Outstanding
<1>15. \A x, n : BurstAt(mem', x, n) <=> BurstAt(mem, x, n)
  BY <1>11, Zenon DEF BurstAt
<1>16. Sent(mem)' = Sent(mem)
  <2>1. Sent(mem)' = Sent(mem')
    BY DEF Sent, BurstAt, InLane
  <2>2. Sent(mem') = Sent(mem)
    BY <1>15 DEF Sent
  <2> QED BY <2>1, <2>2
<1>17. InQueues(mem)' = InQueues(mem)
  BY <1>11 DEF InQueues
<1>18. Waits(mem)' = Waits(mem) \cup {id}
  <2>1. Waits(mem)' = ToSet(mem'.transactionQueue) \cup ToSet(mem'.pendingTransactions)
    BY DEF Waits
  <2> QED BY <1>11, <1>12, <1>13, <2>1
<1>19. WaitsOrdered(mem)'
  <2>1. /\ Increasing(q) /\ Increasing(p) /\ \A x \in ToSet(q), y \in ToSet(p) : x < y
    BY <1>1, <1>8 DEF Ordered, WaitsOrdered
  <2>2. \A x \in ToSet(q) \cup ToSet(p) : x < id
    BY <1>6, <1>13, <1>14
  <2>3. Increasing(Append(q, id)) /\ Increasing(Append(p, id))
    BY <1>5, <2>1, <2>2, IncreasingAppend
  <2>4. ToSet(<<>>) = {}
    BY DEF ToSet
  <2>5. WaitsOrdered(mem')
    <3>1. CASE /\ mem'.transactionQueue = Append(q, id) /\ mem'.pendingTransactions = p
               /\ p = <<>>
      BY <2>1, <2>3, <2>4, <3>1 DEF WaitsOrdered
    <3>2. CASE mem'.transactionQueue = q /\ mem'.pendingTransactions = Append(p, id)
      BY <1>12, <2>1, <2>2, <2>3, <3>2 DEF WaitsOrdered
    <3> QED BY <1>11, <3>1, <3>2
  <2> QED BY <2>5 DEF WaitsOrdered, Increasing
<1>20. Ordered(mem)'
  <2>1. /\ BusOrder(mem) /\ \A d \in Banks : QueueOrder(mem.queue[d])
        /\ Precede(Sent(mem), InQueues(mem)) /\ Precede(Sent(mem), Waits(mem))
        /\ Precede(InQueues(mem), Waits(mem))
    BY <1>1 DEF Ordered
  <2>2. ASSUME NEW x \in Nat \ {None}, NEW y \in Nat \ {None}, NEW n \in Int, NEW b \in Int,
               BurstAt(mem', x, n), BurstAt(mem', y, b), n < b,
               BankOf(hist'[x].addr) = BankOf(hist'[y].addr)
        PROVE  x < y
    <3>1. BurstAt(mem, x, n) /\ BurstAt(mem, y, b)
      BY <1>15, <2>2
    <3>2. x \in DOMAIN hist /\ y \in DOMAIN hist
      BY <1>14, <3>1 DEF Sent
    <3>3. SameBank(x, y)
      BY <1>7, <2>2, <3>2
    <3> QED BY <2>1, <2>2, <3>1, <3>3 DEF BusOrder
  <2>3. BusOrder(mem)'
    BY <2>2 DEF BusOrder, BurstAt, InLane, SameBank
  <2>4. \A d \in Banks : QueueOrder(mem.queue[d])'
    BY <1>11, <2>1, Zenon DEF QueueOrder
  <2>5. Precede(Sent(mem), InQueues(mem))'
    BY <1>7, <1>14, <1>16, <1>17, <2>1 DEF Precede, SameBank
  <2>6. Precede(Sent(mem), Waits(mem))'
    BY <1>6, <1>7, <1>14, <1>16, <1>18, <2>1 DEF Precede, SameBank
  <2>7. Precede(InQueues(mem), Waits(mem))'
    BY <1>6, <1>7, <1>14, <1>17, <1>18, <2>1 DEF Precede, SameBank
  <2> QED BY <1>19, <2>3, <2>4, <2>5, <2>6, <2>7, Zenon DEF Ordered
<1>21. (Outstanding(mem) \cup done = DOMAIN hist)' /\ (Outstanding(mem) \cap done = {})'
  <2>1. Outstanding(mem)' = Outstanding(mem) \cup {id}
    BY <1>16, <1>17, <1>18 DEF Outstanding
  <2> QED BY <1>1, <1>3, <1>6, <2>1
<1>22. Inv'
  BY <1>1, AddTransactionGood
<1> QED BY <1>4, <1>20, <1>21, <1>22 DEF DeviceInv

LEMMA InitDevice ==
  ASSUME Init
  PROVE  DeviceInv /\ Device!DeviceInit
<1>1. /\ mem.cmd = NoCommand /\ mem.data.id = None /\ mem.rankData.id = None
      /\ mem.writing = <<>> /\ mem.reading = <<>>
      /\ mem.transactionQueue = <<>> /\ mem.pendingTransactions = <<>>
      /\ \A d \in Banks : mem.queue[d] = <<>>
      /\ hist = <<>> /\ done = {}
  BY DEF Init
<1>2. \A x \in Nat \ {None} : \A a : ~BurstAt(mem, x, a)
  BY <1>1 DEF BurstAt, InLane, NoCommand
<1>3. Sent(mem) = {} /\ InQueues(mem) = {} /\ Waits(mem) = {}
  BY <1>1, <1>2 DEF Sent, InQueues, Waits, ToSet
<1>4. Ordered(mem)
  BY <1>1, <1>2, <1>3 DEF Ordered, BusOrder, WaitsOrdered, Increasing, QueueOrder, Precede, ToSet
<1>5. Outstanding(mem) = {} /\ DOMAIN hist = {}
  BY <1>1, <1>3 DEF Outstanding
<1> QED BY <1>1, <1>4, <1>5, InitGood DEF DeviceInv, Device!DeviceInit

LEMMA StutterDevice ==
  ASSUME DeviceInv, UNCHANGED vars
  PROVE  DeviceInv' /\ UNCHANGED <<hist, done>>
<1>1. mem' = mem /\ hist' = hist /\ done' = done
  BY DEF vars
<1>2. /\ Inv' /\ Ordered(mem)
      /\ Outstanding(mem) \cup done = DOMAIN hist /\ Outstanding(mem) \cap done = {}
  BY StutterGood DEF DeviceInv
<1>3. Ordered(mem)' /\ Outstanding(mem)' = Outstanding(mem)
  BY <1>1, <1>2, OrderedNext
<1> QED BY <1>1, <1>2, <1>3 DEF DeviceInv

(* The memory implements the safety of MemoryDevice: every transaction     *)
(* added is completed at most once, at most one in a cycle, and those of a *)
(* bank in the order in which they were added, whatever the scheduler, the *)
(* refresh and the two lanes of the data bus do with them.                 *)
THEOREM ImplementsDevice ==
  Spec /\ [][NoOvertaking]_vars =>
    Device!DeviceInit /\ [][Device!DeviceNext]_(Device!deviceVars)
<1>1. ASSUME DeviceInv, [Next]_vars, [NoOvertaking]_vars
      PROVE  DeviceInv' /\ [Device!DeviceNext]_(Device!deviceVars)
  <2>1. ASSUME NEW w \in BOOLEAN, NEW a \in Addrs, AddTransaction(w, a)
        PROVE  DeviceInv' /\ Device!DeviceNext
    <3>1. hist' # hist
      <4>1. hist \in Seq(Transactions) /\ hist' = Append(hist, [write |-> w, addr |-> a])
        BY <1>1, <2>1 DEF DeviceInv, Inv, AddTransaction
      <4> QED BY <4>1
    <3>2. NoOvertaking
      BY <1>1, <3>1 DEF vars
    <3> QED BY <1>1, <2>1, <3>2, AddTransactionDevice
  <2>2. CASE Update
    BY <1>1, <2>2, UpdateDevice DEF Device!deviceVars
  <2>3. CASE UNCHANGED vars
    BY <1>1, <2>3, StutterDevice DEF Device!deviceVars
  <2> QED BY <1>1, <2>1, <2>2, <2>3 DEF Next
<1> QED BY <1>1, InitDevice, PTL DEF Spec

-----------------------------------------------------------------------------
\* No refresh is lost

(* What a column command may add to the time a bank needs, and what any    *)
(* command may.                                                            *)
ColumnDelays ==
  {READ_AUTOPRE_DELAY, WRITE_AUTOPRE_DELAY, READ_TO_PRE_DELAY, WRITE_TO_PRE_DELAY,
   ColumnToColumn, READ_TO_WRITE_DELAY, WRITE_TO_READ_DELAY_B}
Delays == ColumnDelays \cup {tRFC, tRC, tRRD, tRCD - AL, tRP}

(* Between two refreshes every bank can come to rest (w cycles), and on    *)
(* the way each be given one column command more (k cycles each).          *)
Slack(k, w) ==
  /\ k \in Nat /\ w \in Nat
  /\ \A d \in ColumnDelays : d <= k
  /\ \A d \in Delays : d <= w
  /\ w + NumBanks * k < RefreshCycles

RefreshSlack == \E k, w \in Nat : Slack(k, w)

\* Nothing is further away than w at bank state l.
Rested(l, w) == l.act <= w /\ l.rd <= w /\ l.wr <= w /\ l.change <= w

(* Bank b in state l waits for at most x cycles (y for its precharge) and, *)
(* if it has a column command to send, is one of those from g on.          *)
Closing(l, b, x, y, g) ==
  /\ l.act <= x
  /\ Open(l) => l.rd <= x /\ l.wr <= x /\ g <= b
  /\ l.state = "RowActive" /\ ~Open(l) => l.change <= y

RefreshKept(s, k, w) ==
  /\ \A b \in Banks : Rested(s.bank[b], w)
  /\ s.refreshWaiting =>
       \E x \in Nat, g \in 0 .. NumBanks :
         /\ \A b \in Banks : Closing(s.bank[b], b, x, x + 1, g)
         /\ x + (NumBanks - g) * k < s.refreshCountdown

LEMMA SlackDelays ==
  ASSUME NEW k, NEW w, Slack(k, w)
  PROVE  /\ k \in Nat /\ w \in Nat /\ k >= 1
         /\ READ_AUTOPRE_DELAY <= k /\ WRITE_AUTOPRE_DELAY <= k
         /\ READ_TO_PRE_DELAY <= k /\ WRITE_TO_PRE_DELAY <= k
         /\ ColumnToColumn <= k /\ READ_TO_WRITE_DELAY <= k /\ WRITE_TO_READ_DELAY_B <= k
         /\ READ_AUTOPRE_DELAY <= w /\ WRITE_AUTOPRE_DELAY <= w
         /\ READ_TO_PRE_DELAY <= w /\ WRITE_TO_PRE_DELAY <= w
         /\ ColumnToColumn <= w /\ READ_TO_WRITE_DELAY <= w /\ WRITE_TO_READ_DELAY_B <= w
         /\ tRFC <= w /\ tRC <= w /\ tRRD <= w /\ tRCD - AL <= w /\ tRP <= w
<1>1. k \in Nat /\ w \in Nat /\ ColumnToColumn >= 1 /\ ColumnToColumn \in Nat
  BY TimingType DEF Slack
<1>2. \A d \in ColumnDelays : d <= k /\ d <= w
  BY DEF Slack, Delays
<1>3. /\ READ_AUTOPRE_DELAY <= k /\ WRITE_AUTOPRE_DELAY <= k
      /\ READ_TO_PRE_DELAY <= k /\ WRITE_TO_PRE_DELAY <= k
      /\ ColumnToColumn <= k /\ READ_TO_WRITE_DELAY <= k /\ WRITE_TO_READ_DELAY_B <= k
      /\ READ_AUTOPRE_DELAY <= w /\ WRITE_AUTOPRE_DELAY <= w
      /\ READ_TO_PRE_DELAY <= w /\ WRITE_TO_PRE_DELAY <= w
      /\ ColumnToColumn <= w /\ READ_TO_WRITE_DELAY <= w /\ WRITE_TO_READ_DELAY_B <= w
  BY <1>2 DEF ColumnDelays
<1>4. tRFC <= w /\ tRC <= w /\ tRRD <= w /\ tRCD - AL <= w /\ tRP <= w
  BY DEF Slack, Delays
<1> QED BY <1>1, <1>3, <1>4

\* The banks tick.
LEMMA RestedTick ==
  ASSUME NEW k \in BankStates, NEW w \in Nat, tRP <= w, Rested(k, w), NEW l, l = BankTick(k)
  PROVE  Rested(l, w)
<1>1. l.rd = k.rd /\ l.wr = k.wr /\ l.act = k.act
  BY BankTickType
<1>2. k.change \in Nat /\ k.change <= w
  BY DEF Rested, BankStates
<1>3. l.change <= w
  BY <1>2 DEF BankTick, BankStates, Sooner
<1> QED BY <1>1, <1>3 DEF Rested

LEMMA ClosingTick ==
  ASSUME NEW k \in BankStates, WellClosed(k), NEW b, NEW x \in Nat, NEW g,
         Closing(k, b, x, x + 1, g), NEW l, l = BankTick(k)
  PROVE  Closing(l, b, x, x, g)
<1>1. /\ l.rd = k.rd /\ l.wr = k.wr /\ l.act = k.act
      /\ \/ l.state = k.state /\ l.last = k.last /\ l.change = Sooner(k.change)
         \/ l.state # "RowActive"
  BY BankTickType
<1>2. (Open(l) <=> Open(k)) /\ k.change \in Nat
  BY TickBase, BankValues
<1>3. ASSUME l.state = "RowActive", ~Open(l)
      PROVE  l.change <= x
  <2>1. k.state = "RowActive" /\ ~Open(k) /\ l.change = Sooner(k.change)
    BY <1>1, <1>2, <1>3
  <2>2. k.change <= x + 1 /\ k.change >= 1
    BY <2>1 DEF Closing, WellClosed
  <2> QED BY <1>2, <2>1, <2>2 DEF Sooner
<1> QED BY <1>1, <1>2, <1>3 DEF Closing

\* A cycle passes.
LEMMA RestedAged ==
  ASSUME NEW l \in BankStates, NEW w \in Nat, Rested(l, w)
  PROVE  Rested(Aged(l), w)
<1>1. /\ Aged(l).change = l.change /\ Aged(l).act = Sooner(l.act)
      /\ Aged(l).rd = Sooner(l.rd) /\ Aged(l).wr = Sooner(l.wr)
      /\ l.act \in Nat /\ l.rd \in Nat /\ l.wr \in Nat
  BY AgedBank, BankValues
<1> QED BY <1>1 DEF Rested, Sooner

LEMMA ClosingAged ==
  ASSUME NEW l \in BankStates, NEW b, NEW x \in Nat, x >= 1, NEW g, Closing(l, b, x, x, g)
  PROVE  Closing(Aged(l), b, x - 1, (x - 1) + 1, g)
<1>1. /\ Aged(l).change = l.change /\ Aged(l).act = Sooner(l.act)
      /\ Aged(l).state = l.state /\ Aged(l).last = l.last
      /\ Aged(l).rd = Sooner(l.rd) /\ Aged(l).wr = Sooner(l.wr)
      /\ l.act \in Nat /\ l.rd \in Nat /\ l.wr \in Nat
  BY AgedBank, BankValues
<1>2. Open(Aged(l)) <=> Open(l)
  BY <1>1 DEF Open
<1>3. \A n \in Nat : n <= x => Sooner(n) <= x - 1
  BY DEF Sooner
<1>4. (x - 1) + 1 = x
  OBVIOUS
<1> QED BY <1>1, <1>2, <1>3, <1>4, Zenon DEF Closing

\* A command is sent.
LEMMA RestedSent ==
  ASSUME hist \in Seq(Transactions), NEW m \in Memories, NEW c \in Commands, ValidCommand(c),
         NEW k, NEW w, Slack(k, w), NEW b \in Banks, Rested(m.bank[b], w),
         NEW l, l = BankStatesAfter(m, c)[b]
  PROVE  Rested(l, w)
<1> DEFINE n == m.bank[b]
<1>1. /\ n.act \in Nat /\ n.rd \in Nat /\ n.wr \in Nat /\ n.change \in Nat
      /\ n.act <= w /\ n.rd <= w /\ n.wr <= w /\ n.change <= w /\ w \in Nat
  <2>1. n \in BankStates
    BY DEF Memories
  <2> QED BY <2>1, BankValues, SlackDelays DEF Rested
<1>2. \A e, d : e <= w /\ d <= w => Larger(e, d) <= w
  BY DEF Larger
<1>3. CASE c.type = "REFRESH"
  <2>1. l.act = tRFC /\ l.rd = n.rd /\ l.wr = n.wr /\ l.change = tRFC
    BY <1>3, AfterBankFields
  <2> QED BY <1>1, <2>1, SlackDelays DEF Rested
<1>4. CASE c.type = "ACTIVATE" /\ b = BankOfCmd(c)
  <2>1. /\ l.act = Larger(n.act, tRC) /\ l.rd = Larger(n.rd, tRCD - AL)
        /\ l.wr = Larger(n.wr, tRCD - AL) /\ l.change = n.change
    BY <1>4, AfterBankFields
  <2> QED BY <1>1, <1>2, <2>1, SlackDelays, Zenon DEF Rested
<1>5. CASE c.type = "ACTIVATE" /\ b # BankOfCmd(c)
  <2>1. /\ l.act = Larger(n.act, tRRD) /\ l.rd = n.rd
        /\ l.wr = n.wr /\ l.change = n.change
    BY <1>5, AfterBankFields
  <2> QED BY <1>1, <1>2, <2>1, SlackDelays, Zenon DEF Rested
<1>6. CASE c.type \in {"READ_P", "WRITE_P"} /\ b = BankOfCmd(c)
  <2>1. /\ l.act = Larger(n.act, IF c.type = "READ_P" THEN READ_AUTOPRE_DELAY
                                 ELSE WRITE_AUTOPRE_DELAY)
        /\ l.change = IF c.type = "READ_P" THEN READ_TO_PRE_DELAY ELSE WRITE_TO_PRE_DELAY
        /\ l.rd = l.act /\ l.wr = l.act
    BY <1>6, AfterBankFields
  <2>2. l.act <= w /\ l.change <= w
    BY <1>1, <1>2, <2>1, SlackDelays, Zenon
  <2> QED BY <2>1, <2>2 DEF Rested
<1>7. CASE c.type \in {"READ_P", "WRITE_P"} /\ b # BankOfCmd(c)
  <2>1. /\ l.act = n.act /\ l.change = n.change
        /\ l.rd = Larger(n.rd, IF c.type = "READ_P" THEN ColumnToColumn
                               ELSE WRITE_TO_READ_DELAY_B)
        /\ l.wr = Larger(n.wr, IF c.type = "READ_P" THEN READ_TO_WRITE_DELAY
                               ELSE ColumnToColumn)
    BY <1>7, AfterBankFields
  <2>2. l.rd <= w /\ l.wr <= w
    BY <1>1, <1>2, <2>1, SlackDelays, Zenon
  <2> QED BY <1>1, <2>1, <2>2 DEF Rested
<1>8. c.type \in {"REFRESH", "ACTIVATE", "READ_P", "WRITE_P"}
  BY DEF ValidCommand
<1> QED BY <1>3, <1>4, <1>5, <1>6, <1>7, <1>8, Zenon

LEMMA ClosingSent ==
  ASSUME hist \in Seq(Transactions), NEW m \in Memories, NEW c \in Commands, ValidCommand(c),
         c.type \in {"READ_P", "WRITE_P"},
         NEW k, NEW w, Slack(k, w), NEW x \in Nat, NEW g, NEW b \in Banks,
         Closing(m.bank[b], b, x, x, g),
         Open(m.bank[b]) => BankOfCmd(c) <= b, BankOfCmd(c) \in Nat,
         NEW l, l = BankStatesAfter(m, c)[b]
  PROVE  Closing(l, b, x + k, x + k, BankOfCmd(c) + 1)
<1> DEFINE n == m.bank[b]
<1>1. /\ n.act \in Nat /\ n.rd \in Nat /\ n.wr \in Nat /\ n.change \in Nat /\ b \in Nat
      /\ n.act <= x /\ k \in Nat
  <2>1. n \in BankStates
    BY DEF Memories
  <2> QED BY <2>1, BankValues, SlackDelays DEF Closing, Banks
<1>2. /\ \A e, d \in Nat : e <= x /\ d <= k => Larger(e, d) <= x + k
      /\ \A d \in Nat : d <= k => d <= x + k
      /\ \A d \in Nat : d <= x => d <= x + k
  <2>1. \A y, z, e, d \in Nat : e <= y /\ d <= z =>
          Larger(e, d) <= y + z /\ e <= y + z /\ d <= y + z
    BY DEF Larger
  <2>2. x \in Nat /\ k \in Nat /\ 0 \in Nat /\ 0 <= x /\ 0 <= k
    BY <1>1
  <2> QED BY <2>1, <2>2, Zenon
<1>3. CASE b = BankOfCmd(c)
  <2> DEFINE delay == IF c.type = "READ_P" THEN READ_AUTOPRE_DELAY ELSE WRITE_AUTOPRE_DELAY
             change == IF c.type = "READ_P" THEN READ_TO_PRE_DELAY ELSE WRITE_TO_PRE_DELAY
  <2>1. l.act = Larger(n.act, delay) /\ l.change = change /\ l.last = c.type
    BY <1>3, AfterBankFields
  <2>2. delay \in Nat /\ change \in Nat /\ delay <= k /\ change <= k
    BY TimingType, SlackDelays
  <2>3. l.act <= x + k /\ l.change <= x + k
    BY <1>1, <1>2, <2>1, <2>2
  <2>4. ~Open(l)
    BY <2>1 DEF Open
  <2> QED BY <2>3, <2>4 DEF Closing
<1>4. CASE b # BankOfCmd(c)
  <2> DEFINE rd == IF c.type = "READ_P" THEN ColumnToColumn ELSE WRITE_TO_READ_DELAY_B
             wr == IF c.type = "READ_P" THEN READ_TO_WRITE_DELAY ELSE ColumnToColumn
  <2>1. /\ l.act = n.act /\ l.change = n.change /\ l.state = n.state /\ l.last = n.last
        /\ l.rd = Larger(n.rd, rd) /\ l.wr = Larger(n.wr, wr)
    BY <1>4, AfterBankFields
  <2>2. rd \in Nat /\ wr \in Nat /\ rd <= k /\ wr <= k
    BY TimingType, SlackDelays
  <2> HIDE DEF rd, wr
  <2>3. Open(l) <=> Open(n)
    BY <2>1 DEF Open
  <2>4. l.act <= x + k
    BY <1>1, <1>2, <2>1
  <2>5. ASSUME Open(n)
        PROVE  l.rd <= x + k /\ l.wr <= x + k /\ BankOfCmd(c) + 1 <= b
    <3>1. n.rd <= x /\ n.wr <= x
      BY <2>5 DEF Closing
    <3>2. BankOfCmd(c) + 1 <= b
      BY <1>1, <1>4, <2>5
    <3> QED BY <1>1, <1>2, <2>1, <2>2, <3>1, <3>2
  <2>6. ASSUME n.state = "RowActive", ~Open(n)
        PROVE  l.change <= x + k
    BY <1>1, <1>2, <2>1, <2>6 DEF Closing
  <2> QED BY <2>1, <2>3, <2>4, <2>5, <2>6 DEF Closing
<1> QED BY <1>3, <1>4

\* While a bank keeps the refresh waiting and nothing is sent, time passes.
LEMMA BlockedWaits ==
  ASSUME hist \in Seq(Transactions), NEW m \in Memories, QueuesShaped(m),
         \A b \in Banks : WellClosed(m.bank[b]),
         m.refreshWaiting, RefreshChoice(m) = {},
         NEW x \in Nat, NEW g, \A b \in Banks : Closing(m.bank[b], b, x, x, g)
  PROVE  x >= 1
<1>1. Blocking(m) # {}
  BY DEF RefreshChoice
<1>2. PICK b : b = FirstOf(Blocking(m))
  OBVIOUS
<1>3. b \in Banks /\ (m.bank[b].state = "RowActive" \/ m.bank[b].act > 0)
  <2>1. Blocking(m) \subseteq Nat
    BY DEF Blocking, Banks
  <2>2. b \in Blocking(m)
    BY <1>1, <1>2, <2>1, LeastOf
  <2> QED BY <2>2 DEF Blocking
<1>4. PICK n, q : n = m.bank[b] /\ q = m.queue[b]
  OBVIOUS
<1>5. /\ n.act \in Nat /\ n.rd \in Nat /\ n.wr \in Nat /\ n.change \in Nat
      /\ q \in Seq(Commands) /\ QueueShape(q, n, b) /\ WellClosed(n) /\ Closing(n, b, x, x, g)
  <2>1. n \in BankStates /\ q \in Seq(Commands)
    BY <1>3, <1>4 DEF Memories
  <2> QED BY <1>3, <1>4, <2>1, BankValues DEF QueuesShaped
<1>6. CASE n.act > 0
  BY <1>5, <1>6 DEF Closing
<1>7. CASE n.state = "RowActive" /\ ~Open(n)
  BY <1>5, <1>7 DEF Closing, WellClosed
<1>8. CASE Open(n)
  <2>1. q # <<>> /\ RowOfCmd(q[1]) = n.row /\ q[1].type # "ACTIVATE"
    BY <1>5, <1>8 DEF QueueShape
  <2>2. 1 \in DOMAIN q /\ \A i \in DOMAIN q : 1 <= i
    BY <1>5, <2>1
  <2>3. q[1].type \in {"READ_P", "WRITE_P"} /\ BankOfCmd(q[1]) = b
    BY <1>5, <2>1, <2>2, ShapedCommand
  <2>4. OpenRowCommand(m, b) = {1}
    <3> DEFINE same == {i \in DOMAIN q : RowOfCmd(q[i]) = n.row}
    <3>1. 1 \in same /\ same \subseteq Nat /\ \A i \in same : 1 <= i
      BY <1>5, <2>1, <2>2
    <3>2. FirstOf(same) \in same /\ \A i \in same : FirstOf(same) <= i
      BY <3>1, LeastOf
    <3>3. FirstOf(same) = 1
      <4> HIDE DEF same
      <4>1. FirstOf(same) <= 1 /\ 1 <= FirstOf(same) /\ FirstOf(same) \in Nat
        BY <3>1, <3>2
      <4> QED BY <4>1
    <3>4. n.state = "RowActive" /\ same # {}
      BY <1>8, <3>1 DEF Open
    <3> QED BY <1>4, <3>3, <3>4 DEF OpenRowCommand
  <2>5. ~IsIssuable(m, q[1])
    <3>1. RefreshChoice(m) =
            {[cmd |-> m.queue[b][i], next |-> [m EXCEPT !.queue[b] = RemoveAt(@, i)]] :
               i \in {j \in OpenRowCommand(m, b) :
                        m.queue[b][j].type # "ACTIVATE" /\ IsIssuable(m, m.queue[b][j])}}
      BY <1>1, <1>2, Zenon DEF RefreshChoice
    <3>2. {j \in OpenRowCommand(m, b) :
             m.queue[b][j].type # "ACTIVATE" /\ IsIssuable(m, m.queue[b][j])} = {}
      BY <3>1, Zenon
    <3> QED BY <1>4, <2>1, <2>4, <3>2, Zenon
  <2>6. n.state = "RowActive" /\ n.rd <= x /\ n.wr <= x
    BY <1>5, <1>8 DEF Closing, Open
  <2>7. n.rd # 0 \/ n.wr # 0
    BY <1>4, <2>1, <2>3, <2>5, <2>6 DEF IsIssuable
  <2> QED BY <1>5, <2>6, <2>7
<1> QED BY <1>3, <1>4, <1>5, <1>6, <1>7, <1>8

\* Only the column command of the first bank is sent before the refresh.
LEMMA SentColumn ==
  ASSUME hist \in Seq(Transactions), NEW m \in Memories, QueuesShaped(m), m.refreshWaiting,
         NEW c, NEW t, Chosen(m, c, t), t.refreshWaiting
  PROVE  /\ c.type \in {"READ_P", "WRITE_P"}
         /\ BankOfCmd(c) \in Banks /\ Open(m.bank[BankOfCmd(c)])
         /\ \A b \in Banks : Open(m.bank[b]) => BankOfCmd(c) <= b
<1>1. PICK b \in Banks : /\ m.queue[b] # <<>> /\ c = Head(m.queue[b])
                         /\ c.type # "ACTIVATE" /\ b = FirstOf(Blocking(m))
  BY Zenon DEF Chosen
<1>2. PICK n, q : n = m.bank[b] /\ q = m.queue[b]
  OBVIOUS
<1>3. q \in Seq(Commands) /\ q # <<>> /\ QueueShape(q, n, b)
  BY <1>1, <1>2 DEF Memories, QueuesShaped
<1>4. 1 \in DOMAIN q /\ c = q[1]
  BY <1>1, <1>2, <1>3
<1>5. c.type \in {"READ_P", "WRITE_P"} /\ BankOfCmd(c) = b
  BY <1>1, <1>3, <1>4, ShapedCommand
<1>6. Open(n)
  BY <1>1, <1>3, <1>4 DEF QueueShape
<1>7. ASSUME NEW d \in Banks, Open(m.bank[d])
      PROVE  b <= d
  <2>1. Blocking(m) \subseteq Nat /\ d \in Blocking(m)
    BY <1>7 DEF Blocking, Banks, Open
  <2> QED BY <1>1, <2>1, LeastOf
<1> QED BY <1>1, <1>2, <1>5, <1>6, <1>7

\* The time for one bank less.
LEMMA BankPaid ==
  ASSUME NEW n \in Nat, NEW g \in Nat, NEW b \in Nat, g <= b, b + 1 <= n, NEW k \in Nat
  PROVE  (n - (b + 1)) * k + k <= (n - g) * k
<1>1. PICK p \in Nat, r \in Nat : p = n - (b + 1) /\ r = b - g
  OBVIOUS
<1>2. n - g = (p + r) + 1
  BY <1>1
<1>3. \A i, j \in Nat : (i + j) * k = i * k + j * k /\ i * k \in Nat /\ 1 * k = k
  OBVIOUS
<1>4. (n - g) * k = (p * k + r * k) + k
  BY <1>2, <1>3
<1> QED BY <1>1, <1>3, <1>4

LEMMA RefreshCycle ==
  ASSUME hist \in Seq(Transactions), NEW s, Good(s), NEW k, NEW w, Slack(k, w),
         RefreshKept(s, k, w), NEW u, u = Cycle(s)
  PROVE  RefreshKept(u, k, w)
<1>1. PICK m \in Memories, t \in Memories, v \in Memories : Parts(s, m, t, v, u)
  BY CycleGood, Zenon
<1>2. /\ m.bank = [b \in Banks |-> BankTick(s.bank[b])]
      /\ QueuesShaped(m) /\ RefreshDue(s, m)
      /\ t = m \/ \E c \in Commands : Sends(m, c, t)
      /\ RefreshChoice(m) = {} \/ \E c \in Commands : Sends(m, c, t)
      /\ u.refreshWaiting = t.refreshWaiting /\ u.refreshCountdown = m.refreshCountdown - 1
      /\ u.bank = [b \in Banks |-> Aged(t.bank[b])]
  BY <1>1, Zenon DEF Parts, Moved
<1>3. /\ s.refreshWaiting \in BOOLEAN /\ s.refreshCountdown \in Nat
      /\ m.refreshWaiting \in BOOLEAN /\ m.refreshCountdown \in Nat
      /\ \A b \in Banks : /\ s.bank[b] \in BankStates /\ WellClosed(s.bank[b])
                          /\ m.bank[b] \in BankStates /\ t.bank[b] \in BankStates
  <2>1. s \in Memories /\ BusKept(s)
    BY DEF Good
  <2> QED BY <2>1 DEF Memories, BusKept
<1>4. /\ k \in Nat /\ k >= 1 /\ w \in Nat /\ tRP <= w
      /\ NumBanks \in Nat /\ w + NumBanks * k < RefreshCycles /\ RefreshCycles \in Nat
      /\ Banks \subseteq Nat /\ \A b \in Banks : b + 1 <= NumBanks
  <2>1. k \in Nat /\ k >= 1 /\ w \in Nat /\ tRP <= w
    BY SlackDelays
  <2>2. w + NumBanks * k < RefreshCycles
    BY DEF Slack
  <2>3. NumBanks \in Nat /\ RefreshCycles \in Nat
    BY DramAssumption
  <2>4. Banks \subseteq Nat /\ \A b \in Banks : b + 1 <= NumBanks
    BY <2>3 DEF Banks
  <2> QED BY <2>1, <2>2, <2>3, <2>4, Zenon
<1>5. \A b \in Banks : WellClosed(m.bank[b])
  BY <1>2, <1>3, TickBase
<1>6. \A b \in Banks : Rested(m.bank[b], w)
  BY <1>2, <1>3, <1>4, RestedTick DEF RefreshKept
<1>7. \A b \in Banks : Rested(t.bank[b], w)
  <2>1. CASE t = m
    BY <1>6, <2>1
  <2>2. CASE \E c \in Commands : Sends(m, c, t)
    <3>1. PICK c \in Commands : Sends(m, c, t)
      BY <2>2
    <3>2. ValidCommand(c) /\ t.bank = BankStatesAfter(m, c)
      BY <3>1 DEF Sends
    <3> QED BY <1>6, <3>2, RestedSent
  <2> QED BY <1>2, <2>1, <2>2
<1>8. \A b \in Banks : Rested(u.bank[b], w)
  BY <1>2, <1>3, <1>4, <1>7, RestedAged
<1>9. ASSUME u.refreshWaiting
      PROVE  \E x \in Nat, g \in 0 .. NumBanks :
               /\ \A b \in Banks : Closing(u.bank[b], b, x, x + 1, g)
               /\ x + (NumBanks - g) * k < u.refreshCountdown
  <2>1. m.refreshWaiting /\ t.refreshWaiting
    <3>1. CASE t = m
      BY <1>2, <1>9, <3>1
    <3>2. ASSUME NEW c \in Commands, Sends(m, c, t)
          PROVE  m.refreshWaiting
      BY <1>2, <1>9, <3>2, Zenon DEF Sends, Chosen
    <3> QED BY <1>2, <1>9, <3>1, <3>2
  <2>2. PICK x \in Nat, g \in 0 .. NumBanks :
          /\ \A b \in Banks : Closing(m.bank[b], b, x, x, g)
          /\ x + (NumBanks - g) * k < m.refreshCountdown
    <3>1. CASE s.refreshCountdown = 0
      <4>1. \A b \in Banks : Closing(m.bank[b], b, w, w, 0)
        BY <1>4, <1>6 DEF Closing, Rested
      <4>2. w + (NumBanks - 0) * k < m.refreshCountdown /\ 0 \in 0 .. NumBanks
        <5>1. m.refreshCountdown = RefreshCycles
          BY <1>2, <3>1 DEF RefreshDue
        <5>2. NumBanks - 0 = NumBanks
          BY <1>4
        <5> QED BY <1>4, <5>1, <5>2
      <4> QED BY <1>4, <4>1, <4>2
    <3>2. CASE s.refreshCountdown # 0
      <4>1. s.refreshWaiting /\ m.refreshCountdown = s.refreshCountdown
        BY <1>2, <2>1, <3>2 DEF RefreshDue
      <4>2. PICK x \in Nat, g \in 0 .. NumBanks :
              /\ \A b \in Banks : Closing(s.bank[b], b, x, x + 1, g)
              /\ x + (NumBanks - g) * k < s.refreshCountdown
        BY <4>1 DEF RefreshKept
      <4>3. \A b \in Banks : Closing(m.bank[b], b, x, x, g)
        BY <1>2, <1>3, <4>2, ClosingTick
      <4> QED BY <4>1, <4>2, <4>3
    <3> QED BY <3>1, <3>2
  <2>3. CASE RefreshChoice(m) = {} /\ t = m
    <3>1. x >= 1
      BY <1>5, <1>2, <2>1, <2>2, <2>3, BlockedWaits
    <3>2. \A b \in Banks : Closing(u.bank[b], b, x - 1, (x - 1) + 1, g)
      BY <1>2, <1>3, <2>2, <2>3, <3>1, ClosingAged
    <3>3. PICK rest \in Int : rest = (NumBanks - g) * k
      BY <1>4
    <3>4. (x - 1) + (NumBanks - g) * k < u.refreshCountdown /\ x - 1 \in Nat
      BY <1>2, <1>3, <2>2, <3>1, <3>3
    <3> QED BY <3>2, <3>4
  <2>4. CASE \E c \in Commands : Sends(m, c, t)
    <3>1. PICK c \in Commands : Sends(m, c, t)
      BY <2>4
    <3>2. ValidCommand(c) /\ t.bank = BankStatesAfter(m, c) /\ Chosen(m, c, t)
      BY <3>1 DEF Sends
    <3>3. PICK b0 : b0 = BankOfCmd(c)
      OBVIOUS
    <3>4. /\ c.type \in {"READ_P", "WRITE_P"} /\ b0 \in Banks /\ Open(m.bank[b0])
          /\ \A b \in Banks : Open(m.bank[b]) => b0 <= b
      BY <1>2, <2>1, <3>2, <3>3, SentColumn
    <3>5. b0 \in Nat /\ g <= b0 /\ b0 + 1 <= NumBanks
      BY <1>4, <2>2, <3>4 DEF Closing
    <3>6. \A b \in Banks : Closing(t.bank[b], b, x + k, x + k, b0 + 1)
      BY <2>2, <3>2, <3>3, <3>4, <3>5, ClosingSent
    <3>7. x + k \in Nat /\ x + k >= 1
      BY <1>4
    <3>8. \A b \in Banks : Closing(u.bank[b], b, (x + k) - 1, ((x + k) - 1) + 1, b0 + 1)
      BY <1>2, <1>3, <3>6, <3>7, ClosingAged
    <3>9. (NumBanks - (b0 + 1)) * k + k <= (NumBanks - g) * k
      BY <1>4, <3>5, BankPaid
    <3>10. PICK less \in Int, rest \in Int :
             less = (NumBanks - (b0 + 1)) * k /\ rest = (NumBanks - g) * k
      BY <1>4, <3>5
    <3>11. ((x + k) - 1) + (NumBanks - (b0 + 1)) * k < u.refreshCountdown
      <4>1. less + k <= rest /\ x + rest < m.refreshCountdown
        BY <2>2, <3>9, <3>10
      <4>2. ((x + k) - 1) + less < u.refreshCountdown
        BY <1>2, <1>3, <1>4, <4>1
      <4> QED BY <3>10, <4>2
    <3>12. (x + k) - 1 \in Nat /\ b0 + 1 \in 0 .. NumBanks
      BY <1>4, <3>5, <3>7
    <3> QED BY <3>8, <3>11, <3>12
  <2> QED BY <1>2, <2>3, <2>4
<1> QED BY <1>8, <1>9 DEF RefreshKept

-----------------------------------------------------------------------------
RefreshInv == Inv /\ \E k, w \in Nat : Slack(k, w) /\ RefreshKept(mem, k, w)

LEMMA InitRefresh ==
  ASSUME RefreshSlack, Init
  PROVE  RefreshInv
<1>1. Inv
  BY InitGood
<1>2. PICK k \in Nat, w \in Nat : Slack(k, w)
  BY DEF RefreshSlack
<1>3. /\ mem.refreshWaiting = FALSE
      /\ \A b \in Banks : /\ mem.bank[b].rd = 0 /\ mem.bank[b].wr = 0
                          /\ mem.bank[b].act = 0 /\ mem.bank[b].change = 0
  BY DEF Init
<1>4. RefreshKept(mem, k, w)
  BY <1>3 DEF RefreshKept, Rested
<1> QED BY <1>1, <1>2, <1>4 DEF RefreshInv

\* What does not touch the banks and the refresh keeps it.
LEMMA SameRefresh ==
  ASSUME RefreshInv, Inv', mem'.bank = mem.bank, mem'.refreshWaiting = mem.refreshWaiting,
         mem'.refreshCountdown = mem.refreshCountdown
  PROVE  RefreshInv'
<1>1. PICK k \in Nat, w \in Nat : Slack(k, w) /\ RefreshKept(mem, k, w)
  BY DEF RefreshInv
<1>2. RefreshKept(mem', k, w)
  BY <1>1, Zenon DEF RefreshKept
<1> QED BY <1>1, <1>2 DEF RefreshInv

LEMMA NextRefresh ==
  ASSUME RefreshInv, [Next]_vars
  PROVE  RefreshInv'
<1>1. Inv /\ hist \in Seq(Transactions) /\ Good(mem)
  BY DEF RefreshInv, Inv
<1>2. ASSUME NEW isWrite \in BOOLEAN, NEW a \in Addrs, AddTransaction(isWrite, a)
      PROVE  RefreshInv'
  <2>1. Inv'
    BY <1>1, <1>2, AddTransactionGood
  <2>2. mem \in Memories
    BY <1>1 DEF Good
  <2>3. /\ mem'.bank = mem.bank /\ mem'.refreshWaiting = mem.refreshWaiting
        /\ mem'.refreshCountdown = mem.refreshCountdown
    BY <1>2, <2>2 DEF AddTransaction, Memories
  <2> QED BY <2>1, <2>3, SameRefresh
<1>3. CASE Update
  <2>1. Inv'
    BY <1>1, <1>3, UpdateGood
  <2>2. PICK u : u = Cycle(mem)
    OBVIOUS
  <2>3. mem' = u
    BY <1>3, <2>2 DEF Update, Cycle, Moves
  <2>4. PICK k \in Nat, w \in Nat : Slack(k, w) /\ RefreshKept(mem, k, w)
    BY DEF RefreshInv
  <2>5. RefreshKept(u, k, w)
    BY <1>1, <2>2, <2>4, RefreshCycle, Zenon
  <2> QED BY <2>1, <2>3, <2>4, <2>5 DEF RefreshInv
<1>4. CASE UNCHANGED vars
  <2>1. Inv'
    BY <1>1, <1>4, StutterGood
  <2> QED BY <1>4, <2>1, SameRefresh DEF vars
<1> QED BY <1>2, <1>3, <1>4 DEF Next

(* No refresh is lost, when there is time between two of them for every    *)
(* bank to rest and to be given one command more: needRefresh finds the    *)
(* flag of the last one cleared.                                           *)
THEOREM RefreshInTime == Spec /\ RefreshSlack => []NoRefreshLost
<1>1. RefreshSlack /\ Init => RefreshInv
  BY InitRefresh
<1>2. RefreshInv /\ [Next]_vars => RefreshInv'
  BY NextRefresh
<1>3. RefreshInv => NoRefreshLost
  <2> SUFFICES ASSUME RefreshInv, mem.refreshCountdown = 0, mem.refreshWaiting
               PROVE  FALSE
    BY DEF NoRefreshLost
  <2>1. PICK k \in Nat, w \in Nat : Slack(k, w) /\ RefreshKept(mem, k, w)
    BY DEF RefreshInv
  <2>2. PICK x \in Nat, g \in 0 .. NumBanks : x + (NumBanks - g) * k < 0
    BY <2>1 DEF RefreshKept
  <2>3. NumBanks \in Nat
    BY DramAssumption
  <2>4. PICK n \in Nat : n = NumBanks - g
    BY <2>2, <2>3
  <2>5. n * k \in Nat
    OBVIOUS
  <2> QED BY <2>2, <2>4, <2>5
<1> QED BY <1>1, <1>2, <1>3, PTL DEF Spec
=============================================================================
