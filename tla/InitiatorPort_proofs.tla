------------------------ MODULE InitiatorPort_proofs ------------------------
(***************************************************************************)
(* What holds of the requesting side of a PE for every trace, every number *)
(* of requests and every set of waits and transfer times.                  *)
(***************************************************************************)
EXTENDS InitiatorPort, PayloadEventQueue_proofs

Types ==
  /\ cmds \in Seq({"RD", "WR"}) /\ Len(cmds) <= MaxRequests
  /\ genLeft \in Nat /\ rxLeft \in Nat
  /\ mapping \subseteq Issued
  /\ req_ip_peq_ \in Queue(Ids) /\ rsp_noc_peq_ \in Queue(Ids)
  /\ sent \in Seq(Ids) /\ answered \in Seq(Ids)

(* The queue of requests holds what was issued and not yet sent, in order: *)
(* a request is put there with no delay, so none overtakes another.        *)
Pending ==
  /\ Len(sent) + Len(req_ip_peq_.due) = Len(cmds)
  /\ \A i \in 1 .. Len(sent) : sent[i] = i
  /\ \A i \in 1 .. Len(req_ip_peq_.due) :
       Trans(req_ip_peq_, i) = Len(sent) + i /\ Left(req_ip_peq_, i) = 0

(* Only a read that was issued is ever answered.                           *)
AnswersIssued == \A t \in Payloads(rsp_noc_peq_) \cup Range(answered) : IsRead(t)

IInv == Types /\ Pending /\ AnswersIssued /\ IssueTimeKept /\ SleepsSafely

-----------------------------------------------------------------------------
LEMMA RangeAppended ==
  ASSUME NEW S, NEW s \in Seq(S), NEW e \in S
  PROVE  /\ Append(s, e) \in Seq(S) /\ Len(Append(s, e)) = Len(s) + 1
         /\ \A i \in 1 .. Len(s) : Append(s, e)[i] = s[i]
         /\ Append(s, e)[Len(s) + 1] = e
         /\ Range(Append(s, e)) = Range(s) \cup {e}
<1>1. /\ Append(s, e) \in Seq(S) /\ Len(Append(s, e)) = Len(s) + 1
      /\ \A i \in 1 .. Len(s) : Append(s, e)[i] = s[i]
      /\ Append(s, e)[Len(s) + 1] = e
  BY AppendProperties
<1>2. Len(s) \in Nat /\ DOMAIN s = 1 .. Len(s) /\ DOMAIN Append(s, e) = 1 .. Len(s) + 1
  BY <1>1, LenProperties
<1>3. 1 .. Len(s) + 1 = (1 .. Len(s)) \cup {Len(s) + 1}
  BY <1>2
<1>4. Range(s) = {s[i] : i \in 1 .. Len(s)}
  BY <1>2 DEF Range
<1>5. Range(Append(s, e)) = {Append(s, e)[i] : i \in 1 .. Len(s) + 1}
  BY <1>2 DEF Range
<1>6. Range(Append(s, e)) = Range(s) \cup {e}
  BY <1>1, <1>3, <1>4, <1>5, Zenon
<1> QED BY <1>1, <1>6

LEMMA MovedOne ==
  ASSUME NEW a \in Nat, NEW b \in Nat
  PROVE  (a + 1) + (b - 1) = a + b
OBVIOUS

LEMMA InitHolds == Init => IInv
<1> SUFFICES ASSUME Init PROVE IInv
  OBVIOUS
<1>1. Len(<<>>) = 0 /\ Range(<<>>) = {} /\ 1 .. 0 = {} /\ DOMAIN <<>> = {}
  BY DEF Range
<1>2. MaxRequests \in Nat
  BY TraceAssumption
<1>3. EmptyQueue \in Queue(Ids) /\ EmptyQueue.due = <<>> /\ Payloads(EmptyQueue) = {}
  BY EmptyIsQueue DEF EmptyQueue
<1>4. Types
  BY <1>1, <1>2, <1>3 DEF Init, Types, Issued
<1>5. Pending
  BY <1>1, <1>3 DEF Init, Pending
<1>6. AnswersIssued
  BY <1>1, <1>3 DEF Init, AnswersIssued
<1>7. IssueTimeKept
  BY <1>1 DEF Init, IssueTimeKept, Issued
<1>8. SleepsSafely
  BY DEF Init, SleepsSafely
<1> QED BY <1>4, <1>5, <1>6, <1>7, <1>8 DEF IInv

-----------------------------------------------------------------------------
\* One lemma per action that does more than move a thread.

LEMMA IssueKeeps ==
  ASSUME IInv, NEW cmd \in {"RD", "WR"}, Issue(cmd)
  PROVE  IInv'
<1> DEFINE t == Len(cmds) + 1
           q == req_ip_peq_
<1>1. /\ cmds \in Seq({"RD", "WR"}) /\ Len(cmds) \in Nat /\ Len(cmds) <= MaxRequests
      /\ MaxRequests \in Nat /\ mapping \subseteq Issued /\ q \in Queue(Ids)
      /\ Len(sent) \in Nat /\ Len(q.due) \in Nat
  BY TraceAssumption, LenProperties, QueueFields DEF IInv, Types
<1>2. /\ t \in Ids /\ cmds' = Append(cmds, cmd) /\ q' = Notify(q, t, 0)
      /\ mapping' = mapping \cup {t}
      /\ UNCHANGED <<genLeft, tx, sent, rsp_noc_peq_, rx, rxLeft, answered>>
  BY <1>1 DEF Issue, rxVars, Ids
<1>3. /\ cmds' \in Seq({"RD", "WR"}) /\ Len(cmds') = Len(cmds) + 1
      /\ \A i \in 1 .. Len(cmds) : cmds'[i] = cmds[i]
      /\ cmds'[t] = cmd
  BY <1>1, <1>2, RangeAppended
<1>4. Issued' = Issued \cup {t} /\ t \notin Issued
  BY <1>1, <1>3 DEF Issued
<1>5. Types'
  <2>1. q' \in Queue(Ids)
    BY <1>1, <1>2, NotifyShape
  <2>2. Len(cmds') <= MaxRequests
    BY <1>1, <1>2, <1>3 DEF Ids
  <2> QED BY <1>2, <1>3, <1>4, <2>1, <2>2 DEF IInv, Types
<1>6. \A u \in Issued : IsRead(u)' <=> IsRead(u)
  BY <1>3, <1>4 DEF IsRead, Issued
<1>7. Pending'
  <2>1. \A i \in 1 .. Len(q.due) : Left(q, i) = 0
    BY DEF IInv, Pending
  <2>2. SoonerThan(q, 0) = 1 .. Len(q.due)
    BY <2>1, <1>1, QueueFields DEF SoonerThan, Left
  <2>3. Place(q, 0) = Len(q.due) + 1
    <3>1. Cardinality(1 .. Len(q.due)) = IF 1 > Len(q.due) THEN 0 ELSE Len(q.due) - 1 + 1
      <4>1. 1 \in Int /\ Len(q.due) \in Int
        BY <1>1
      <4> QED BY <4>1, FS_Interval
    <3>2. (IF 1 > Len(q.due) THEN 0 ELSE Len(q.due) - 1 + 1) = Len(q.due)
      BY <1>1
    <3> QED BY <2>2, <3>1, <3>2 DEF Place
  <2>4. /\ Len(q'.due) = Len(q.due) + 1
        /\ Trans(q', Len(q.due) + 1) = t /\ Left(q', Len(q.due) + 1) = 0
        /\ \A i \in 1 .. Len(q.due) + 1 : i < Len(q.due) + 1 =>
             Trans(q', i) = Trans(q, i) /\ Left(q', i) = Left(q, i)
    <3>1. /\ Len(Notify(q, t, 0).due) = Len(q.due) + 1
          /\ Trans(Notify(q, t, 0), Place(q, 0)) = t
          /\ Left(Notify(q, t, 0), Place(q, 0)) = 0
      <4>1. 0 \in Nat
        OBVIOUS
      <4> QED BY <1>1, <1>2, <4>1, NotifyShape
    <3>2. \A i \in 1 .. Len(q.due) + 1 : i < Place(q, 0) =>
            /\ Trans(Notify(q, t, 0), i) = Trans(q, i)
            /\ Left(Notify(q, t, 0), i) = Left(q, i)
      BY <1>1, <1>2, NotifyShape
    <3> QED BY <1>2, <2>3, <3>1, <3>2
  <2>5. /\ Len(sent) + Len(q.due) = Len(cmds)
        /\ \A i \in 1 .. Len(q.due) : Trans(q, i) = Len(sent) + i
    BY DEF IInv, Pending
  <2>6. ASSUME NEW i \in 1 .. Len(q.due) + 1
        PROVE  Trans(q', i) = Len(sent) + i /\ Left(q', i) = 0
    <3>1. CASE i = Len(q.due) + 1
      <4>1. t = Len(sent) + i
        BY <3>1, <1>1, <2>5
      <4> QED BY <3>1, <4>1, <2>4
    <3>2. CASE i # Len(q.due) + 1
      <4>1. i \in 1 .. Len(q.due) /\ i < Len(q.due) + 1
        BY <3>2, <1>1
      <4> QED BY <4>1, <2>1, <2>4, <2>5
    <3> QED BY <3>1, <3>2
  <2>7. Len(sent) + (Len(q.due) + 1) = Len(cmds) + 1
    BY <1>1, <2>5
  <2> QED BY <1>2, <1>3, <2>4, <2>6, <2>7 DEF IInv, Pending
<1>8. AnswersIssued'
  <2>1. \A u : IsRead(u) => IsRead(u)'
    BY <1>6 DEF IsRead
  <2> QED BY <2>1, <1>2 DEF IInv, AnswersIssued
<1>9. IssueTimeKept'
  <2>1. t \notin Range(answered)
    BY <1>4 DEF IInv, AnswersIssued, IsRead
  <2>2. \A u \in Range(answered) : u \in Issued
    BY DEF IInv, AnswersIssued, IsRead
  <2>3. {u \in Issued : IsRead(u)} \ Range(answered) = {u \in mapping : IsRead(u)}
    BY DEF IInv, IssueTimeKept
  <2>4. ASSUME NEW u
        PROVE  u \in Issued' /\ IsRead(u)' /\ u \notin Range(answered)
                 <=> u \in mapping' /\ IsRead(u)'
    <3>1. CASE u = t
      BY <3>1, <1>2, <1>4, <2>1
    <3>2. CASE u # t
      <4>1. u \in Issued' <=> u \in Issued
        BY <3>2, <1>4
      <4>2. u \in mapping' <=> u \in mapping
        BY <3>2, <1>2
      <4>3. CASE u \in Issued
        BY <4>1, <4>2, <4>3, <1>6, <2>3
      <4>4. CASE u \notin Issued
        BY <4>1, <4>2, <4>4, <1>1
      <4> QED BY <4>3, <4>4
    <3> QED BY <3>1, <3>2
  <2> QED BY <2>4, <1>2 DEF IssueTimeKept
<1>10. SleepsSafely'
  <2>1. WakesInTime(q) => WakesInTime(q')
    BY <1>1, <1>2, NotifyKeepsWaking
  <2> QED BY <2>1, <1>2 DEF IInv, SleepsSafely
<1> QED BY <1>5, <1>7, <1>8, <1>9, <1>10 DEF IInv

LEMMA TxTakeKeeps ==
  ASSUME IInv, TxTake
  PROVE  IInv'
<1> DEFINE q == req_ip_peq_
           t == NextTransaction(q)
<1>1. /\ tx = "run" /\ q.due # <<>> /\ q' = Taken(q) /\ sent' = Append(sent, t)
      /\ UNCHANGED <<cmds, gen, genLeft, mapping, tx, rsp_noc_peq_, rx, rxLeft, answered>>
  BY DEF TxTake, HasNext, genVars, rxVars
<1>2. q \in Queue(Ids) /\ sent \in Seq(Ids) /\ Len(sent) \in Nat
  BY LenProperties DEF IInv, Types
<1>3. /\ q' \in Queue(Ids) /\ Len(q'.due) = Len(q.due) - 1
      /\ \A i \in 1 .. Len(q.due) - 1 : q'.due[i] = q.due[i + 1]
      /\ t = Trans(q, 1) /\ t \in Ids
  BY <1>1, <1>2, TakenShape
<1>4. Len(q.due) \in Nat /\ Len(q.due) >= 1
  BY <1>1, <1>2, QueueFields
<1>5. /\ sent' \in Seq(Ids) /\ Len(sent') = Len(sent) + 1
      /\ \A i \in 1 .. Len(sent) : sent'[i] = sent[i]
      /\ sent'[Len(sent) + 1] = t
  BY <1>1, <1>2, <1>3, RangeAppended
<1>6. Types'
  BY <1>1, <1>3, <1>5 DEF IInv, Types, Issued
<1>7. Pending'
  <2>1. /\ Len(sent) + Len(q.due) = Len(cmds)
        /\ \A i \in 1 .. Len(sent) : sent[i] = i
        /\ \A i \in 1 .. Len(q.due) : Trans(q, i) = Len(sent) + i /\ Left(q, i) = 0
    BY DEF IInv, Pending
  <2>2. t = Len(sent) + 1
    BY <1>3, <1>4, <2>1
  <2>3. \A i \in 1 .. Len(sent) + 1 : sent'[i] = i
    BY <1>2, <1>5, <2>1, <2>2
  <2>4. ASSUME NEW i \in 1 .. Len(q.due) - 1
        PROVE  Trans(q', i) = (Len(sent) + 1) + i /\ Left(q', i) = 0
    <3>1. i + 1 \in 1 .. Len(q.due) /\ Len(sent) + (i + 1) = (Len(sent) + 1) + i
      BY <1>2, <1>4
    <3>2. Trans(q', i) = Trans(q, i + 1) /\ Left(q', i) = Left(q, i + 1)
      BY <1>3 DEF Trans, Left
    <3> QED BY <3>1, <3>2, <2>1
  <2>5. (Len(sent) + 1) + (Len(q.due) - 1) = Len(cmds)
    <3>1. Len(sent) + Len(q.due) = Len(cmds)
      BY <2>1
    <3>2. (Len(sent) + 1) + (Len(q.due) - 1) = Len(sent) + Len(q.due)
      BY <1>2, <1>4, MovedOne
    <3> QED BY <3>1, <3>2
  <2> QED BY <1>1, <1>3, <1>5, <2>3, <2>4, <2>5 DEF Pending
<1>8. AnswersIssued' /\ IssueTimeKept'
  BY <1>1 DEF IInv, AnswersIssued, IssueTimeKept, Issued, IsRead
<1>9. SleepsSafely'
  BY <1>1 DEF IInv, SleepsSafely
<1> QED BY <1>6, <1>7, <1>8, <1>9 DEF IInv

LEMMA RspNocNiFwKeeps ==
  ASSUME IInv, NEW t \in Ids, RspNocNiFw(t)
  PROVE  IInv'
<1> DEFINE q == rsp_noc_peq_
<1>1. /\ IsRead(t) /\ q' = Notify(q, t, 0)
      /\ UNCHANGED <<cmds, gen, genLeft, mapping, req_ip_peq_, tx, sent, rx, rxLeft, answered>>
  BY DEF RspNocNiFw, genVars, txVars
<1>2. q \in Queue(Ids)
  BY DEF IInv, Types
<1>3. q' \in Queue(Ids) /\ Payloads(q') = Payloads(q) \cup {t}
  BY <1>1, <1>2, NotifyShape, NotifyPayloads
<1>4. Types' /\ Pending'
  BY <1>1, <1>3 DEF IInv, Types, Pending, Issued
<1>5. AnswersIssued'
  BY <1>1, <1>3 DEF IInv, AnswersIssued, IsRead, Issued
<1>6. IssueTimeKept'
  BY <1>1 DEF IInv, IssueTimeKept, Issued, IsRead
<1>7. SleepsSafely'
  <2>1. WakesInTime(q) => WakesInTime(q')
    BY <1>1, <1>2, NotifyKeepsWaking
  <2> QED BY <2>1, <1>1 DEF IInv, SleepsSafely
<1> QED BY <1>4, <1>5, <1>6, <1>7 DEF IInv

LEMMA RxTakeKeeps ==
  ASSUME IInv, NEW d \in Delays, RxTake(d)
  PROVE  IInv'
<1> DEFINE q == rsp_noc_peq_
           t == NextTransaction(q)
<1>1. /\ q.due # <<>> /\ q' = Taken(q) /\ answered' = Append(answered, t)
      /\ mapping' = mapping \ {t} /\ rx' = "wait" /\ rxLeft' = d
      /\ UNCHANGED <<cmds, gen, genLeft, req_ip_peq_, tx, sent>>
  BY DEF RxTake, HasNext, genVars, txVars
<1>2. q \in Queue(Ids) /\ answered \in Seq(Ids) /\ d \in Nat
  BY TraceAssumption DEF IInv, Types
<1>3. q' \in Queue(Ids) /\ t \in Ids /\ t \in Payloads(q) /\ Payloads(q') \subseteq Payloads(q)
  BY <1>1, <1>2, TakenShape, TakenKeeps
<1>4. answered' \in Seq(Ids) /\ Range(answered') = Range(answered) \cup {t}
  BY <1>1, <1>2, <1>3, RangeAppended
<1>5. Types' /\ Pending'
  BY <1>1, <1>2, <1>3, <1>4 DEF IInv, Types, Pending, Issued
<1>6. AnswersIssued'
  BY <1>1, <1>3, <1>4 DEF IInv, AnswersIssued, IsRead, Issued
<1>7. IssueTimeKept'
  BY <1>1, <1>4 DEF IInv, IssueTimeKept, Issued, IsRead
<1>8. SleepsSafely'
  BY <1>1 DEF IInv, SleepsSafely
<1> QED BY <1>5, <1>6, <1>7, <1>8 DEF IInv

LEMMA TickKeeps ==
  ASSUME IInv, Tick
  PROVE  IInv'
<1> DEFINE q == req_ip_peq_
           r == rsp_noc_peq_
<1>1. /\ genLeft' = Sooner(genLeft) /\ rxLeft' = Sooner(rxLeft)
      /\ q' = Elapsed(q) /\ r' = Elapsed(r)
      /\ UNCHANGED <<cmds, gen, mapping, tx, sent, rx, answered>>
  BY DEF Tick
<1>2. /\ q \in Queue(Ids) /\ r \in Queue(Ids)
      /\ Sooner(genLeft) \in Nat /\ Sooner(rxLeft) \in Nat
  BY SoonerType DEF IInv, Types
<1>3. /\ q' \in Queue(Ids) /\ Len(q'.due) = Len(q.due)
      /\ \A i \in 1 .. Len(q.due) : /\ Trans(q', i) = Trans(q, i)
                                   /\ Left(q', i) = Sooner(Left(q, i))
  BY <1>1, <1>2, ElapsedShape
<1>4. r' \in Queue(Ids) /\ Payloads(r') = Payloads(r)
  BY <1>1, <1>2, ElapsedShape
<1>5. Types'
  BY <1>1, <1>2, <1>3, <1>4 DEF IInv, Types, Issued
<1>6. Pending'
  BY <1>1, <1>3 DEF IInv, Pending, Sooner
<1>7. AnswersIssued' /\ IssueTimeKept'
  BY <1>1, <1>4 DEF IInv, AnswersIssued, IssueTimeKept, Issued, IsRead
<1>8. SleepsSafely'
  <2>1. (WakesInTime(q) => WakesInTime(q')) /\ (WakesInTime(r) => WakesInTime(r'))
    BY <1>1, <1>2, ElapsedKeeps
  <2> QED BY <2>1, <1>1 DEF IInv, SleepsSafely
<1> QED BY <1>5, <1>6, <1>7, <1>8 DEF IInv

(* The actions that only move a thread or use up an event.                 *)
LEMMA SwitchKeeps ==
  ASSUME IInv,
         \/ \E d \in Waits : GenWait(d)
         \/ GenResume \/ GenEnd \/ RxResume
         \/ TxSleep \/ TxEvent \/ RxSleep \/ RxEvent
         \/ UNCHANGED vars
  PROVE  IInv'
<1> DEFINE q == req_ip_peq_
           r == rsp_noc_peq_
<1>1. q \in Queue(Ids) /\ r \in Queue(Ids) /\ genLeft \in Nat /\ rxLeft \in Nat
  BY DEF IInv, Types
<1>2. /\ NothingTaken(q) \in Queue(Ids) /\ NothingTaken(q).due = q.due
      /\ WakesInTime(NothingTaken(q))
      /\ Fired(q) \in Queue(Ids) /\ Fired(q).due = q.due
  BY <1>1, NothingTakenWakes, FiredShape
<1>3. /\ NothingTaken(r) \in Queue(Ids) /\ NothingTaken(r).due = r.due
      /\ WakesInTime(NothingTaken(r))
      /\ Fired(r) \in Queue(Ids) /\ Fired(r).due = r.due
  BY <1>1, NothingTakenWakes, FiredShape
<1>4. Waits \subseteq Nat
  BY TraceAssumption
<1>5. /\ UNCHANGED <<cmds, mapping, sent, answered>>
      /\ q' \in Queue(Ids) /\ q'.due = q.due /\ r' \in Queue(Ids) /\ r'.due = r.due
      /\ genLeft' \in Nat /\ rxLeft' \in Nat
  BY <1>1, <1>2, <1>3, <1>4
     DEF GenWait, GenResume, GenEnd, RxResume, TxSleep, TxEvent, RxSleep, RxEvent,
         vars, genVars, txVars, rxVars
<1>6. Types'
  BY <1>5 DEF IInv, Types, Issued
<1>7. Pending'
  BY <1>5 DEF IInv, Pending, Trans, Left
<1>8. AnswersIssued' /\ IssueTimeKept'
  BY <1>5 DEF IInv, AnswersIssued, IssueTimeKept, Issued, IsRead, Payloads
<1>9. tx' = "sleep" => WakesInTime(q')
  BY <1>2 DEF IInv, SleepsSafely, GenWait, GenResume, GenEnd, RxResume, TxSleep,
              TxEvent, RxSleep, RxEvent, vars, genVars, txVars, rxVars
<1>10. rx' = "sleep" => WakesInTime(r')
  BY <1>3 DEF IInv, SleepsSafely, GenWait, GenResume, GenEnd, RxResume, TxSleep,
              TxEvent, RxSleep, RxEvent, vars, genVars, txVars, rxVars
<1> QED BY <1>6, <1>7, <1>8, <1>9, <1>10 DEF IInv, SleepsSafely

LEMMA NextHolds == IInv /\ [Next]_vars => IInv'
<1> SUFFICES ASSUME IInv, [Next]_vars PROVE IInv'
  OBVIOUS
<1>1. CASE \E cmd \in {"RD", "WR"} : Issue(cmd)
  BY <1>1, IssueKeeps
<1>2. CASE TxTake
  BY <1>2, TxTakeKeeps
<1>3. CASE \E t \in Ids : RspNocNiFw(t)
  BY <1>3, RspNocNiFwKeeps
<1>4. CASE \E d \in Delays : RxTake(d)
  BY <1>4, RxTakeKeeps
<1>5. CASE Tick
  BY <1>5, TickKeeps
<1>6. CASE \/ \E d \in Waits : GenWait(d)
           \/ GenResume \/ GenEnd \/ RxResume
           \/ TxSleep \/ TxEvent \/ RxSleep \/ RxEvent
           \/ UNCHANGED vars
  BY <1>6, SwitchKeeps
<1> QED BY <1>1, <1>2, <1>3, <1>4, <1>5, <1>6 DEF Next, Generate, ReqTx, RspRx

LEMMA IInvHolds == Spec => []IInv
BY InitHolds, NextHolds, PTL DEF Spec

-----------------------------------------------------------------------------
(* The requests of every trace enter the NoC in its order, each once       *)
(* (InitNI::req_tx_ni_thread).                                             *)
THEOREM SentInOrder == Spec => []InIssueOrder
<1>1. IInv => InIssueOrder
  <2> SUFFICES ASSUME IInv PROVE InIssueOrder
    OBVIOUS
  <2>1. DOMAIN sent = 1 .. Len(sent)
    BY LenProperties DEF IInv, Types
  <2> QED BY <2>1 DEF IInv, Pending, InIssueOrder
<1> QED BY <1>1, IInvHolds, PTL

(* A read has an issue time exactly until its answer is logged, whatever   *)
(* the order of the answers (TrafficGen::nb_transport_bw).                 *)
THEOREM TimesKept == Spec => []IssueTimeKept
<1>1. IInv => IssueTimeKept
  BY DEF IInv
<1> QED BY <1>1, IInvHolds, PTL

(* Neither thread of the NI sleeps on work, whatever events are lost       *)
(* (InitNI::req_tx_ni_thread, rsp_rx_ni_thread).                           *)
THEOREM NeverSleepsOnWork == Spec => []SleepsSafely
<1>1. IInv => SleepsSafely
  BY DEF IInv
<1> QED BY <1>1, IInvHolds, PTL
=============================================================================
