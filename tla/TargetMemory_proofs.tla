------------------------ MODULE TargetMemory_proofs -------------------------
(***************************************************************************)
(* What holds of the memory of a PE for every set of sources, every number *)
(* of requests and all latencies.                                          *)
(***************************************************************************)
EXTENDS TargetMemory, PayloadEventQueue_proofs

Requests == [write : BOOLEAN, source : Sources]
Answer == [trans : Ids, to : Nat]
Answers == {answered[i].trans : i \in DOMAIN answered}

Types ==
  /\ req \in Seq(Requests) /\ Len(req) <= MaxRequests
  /\ req_noc_peq_ \in Queue(Ids) /\ m_resp_peq \in Queue(Ids) /\ rsp_ip_peq_ \in Queue(Ids)
  /\ rxLeft \in Nat
  /\ trans_sourceID_map_ \in [Ids -> SUBSET Sources]
  /\ answered \in Seq(Answer)

\* A payload was issued, and is in one of the queues or answered, once.
Arrived ==
  Payloads(req_noc_peq_) \cup Payloads(m_resp_peq) \cup Payloads(rsp_ip_peq_)
    \cup Answers \subseteq Issued

Apart ==
  /\ \A t \in Payloads(req_noc_peq_) :
       t \notin Payloads(m_resp_peq) /\ t \notin Payloads(rsp_ip_peq_) /\ t \notin Answers
  /\ \A t \in Payloads(m_resp_peq) : t \notin Payloads(rsp_ip_peq_) /\ t \notin Answers
  /\ \A t \in Payloads(rsp_ip_peq_) : t \notin Answers

Once == Distinct(req_noc_peq_) /\ Distinct(m_resp_peq) /\ Distinct(rsp_ip_peq_)

\* The answers wait in the order they come due, and the event comes for one.
InTime == Sorted(m_resp_peq) /\ EventIsDue(m_resp_peq)

IInv ==
  Types /\ Arrived /\ Apart /\ Once /\ InTime /\ AnsweredToSource /\ SleepsSafely

-----------------------------------------------------------------------------
LEMMA Appended ==
  ASSUME NEW S, NEW s \in Seq(S), NEW e \in S
  PROVE  /\ Append(s, e) \in Seq(S) /\ Len(Append(s, e)) = Len(s) + 1
         /\ DOMAIN s = 1 .. Len(s) /\ DOMAIN Append(s, e) = 1 .. Len(s) + 1
         /\ Len(s) \in Nat
         /\ \A i \in 1 .. Len(s) : Append(s, e)[i] = s[i]
         /\ Append(s, e)[Len(s) + 1] = e
<1>1. /\ Append(s, e) \in Seq(S) /\ Len(Append(s, e)) = Len(s) + 1
      /\ \A i \in 1 .. Len(s) : Append(s, e)[i] = s[i]
      /\ Append(s, e)[Len(s) + 1] = e
  BY AppendProperties
<1>2. Len(s) \in Nat /\ DOMAIN s = 1 .. Len(s)
  BY LenProperties
<1>3. DOMAIN Append(s, e) = 1 .. Len(s) + 1
  BY <1>1, LenProperties
<1> QED BY <1>1, <1>2, <1>3

LEMMA InitHolds == Init => IInv
<1> SUFFICES ASSUME Init PROVE IInv
  OBVIOUS
<1>1. Len(<<>>) = 0 /\ 1 .. 0 = {} /\ DOMAIN <<>> = {}
  OBVIOUS
<1>2. /\ EmptyQueue \in Queue(Ids) /\ Payloads(EmptyQueue) = {}
      /\ Sorted(EmptyQueue) /\ Distinct(EmptyQueue) /\ EventIsDue(EmptyQueue)
  BY EmptyIsQueue
<1>3. Answers = {}
  BY <1>1 DEF Init, Answers
<1>4. Types
  BY <1>1, <1>2, LatencyAssumption DEF Init, Types
<1>5. Arrived /\ Apart /\ Once /\ InTime
  BY <1>2, <1>3 DEF Init, Arrived, Apart, Once, InTime
<1>6. AnsweredToSource
  BY <1>1, <1>2 DEF Init, AnsweredToSource
<1>7. SleepsSafely
  BY DEF Init, SleepsSafely
<1> QED BY <1>4, <1>5, <1>6, <1>7 DEF IInv

-----------------------------------------------------------------------------
\* The actions on payloads

LEMMA ReqNocNiFwKeeps ==
  ASSUME IInv, NEW s \in Sources, NEW w \in BOOLEAN, ReqNocNiFw(s, w)
  PROVE  IInv'
<1> DEFINE t == Len(req) + 1
           q == req_noc_peq_
           e == [write |-> w, source |-> s]
<1>1. /\ t <= MaxRequests /\ req' = Append(req, e) /\ q' = Notify(q, t, 0)
      /\ UNCHANGED <<rx, rxLeft, trans_sourceID_map_, m_resp_peq, overlapped,
                     rsp_ip_peq_, tx, answered>>
  BY DEF ReqNocNiFw, memVars, txVars
<1>2. req \in Seq(Requests) /\ q \in Queue(Ids) /\ e \in Requests
  BY DEF IInv, Types, Requests
<1>3. /\ req' \in Seq(Requests) /\ Len(req') = t /\ Len(req) \in Nat
      /\ \A i \in 1 .. Len(req) : req'[i] = req[i]
  BY <1>1, <1>2, Appended
<1>4. t \in Ids /\ 0 \in Nat
  BY <1>1, <1>3, LatencyAssumption DEF Ids
<1>5. q' \in Queue(Ids) /\ Payloads(q') = Payloads(q) \cup {t}
  BY <1>1, <1>2, <1>4, NotifyShape, NotifyPayloads
<1>6. Issued' = Issued \cup {t} /\ t \notin Issued
  BY <1>3 DEF Issued
<1>7. Types'
  BY <1>1, <1>3, <1>5 DEF IInv, Types
<1>8. t \notin Payloads(q) /\ Arrived'
  BY <1>1, <1>5, <1>6 DEF IInv, Arrived, Answers
<1>9. Apart'
  <2>1. t \notin Payloads(m_resp_peq) /\ t \notin Payloads(rsp_ip_peq_) /\ t \notin Answers
    BY <1>6 DEF IInv, Arrived
  <2> QED BY <2>1, <1>1, <1>5 DEF IInv, Apart, Answers
<1>10. Once'
  <2>1. Distinct(q')
    BY <1>1, <1>2, <1>4, <1>8, NotifyKeepsDistinct DEF IInv, Once
  <2> QED BY <2>1, <1>1 DEF IInv, Once
<1>11. InTime'
  BY <1>1 DEF IInv, InTime
<1>12. AnsweredToSource'
  <2>1. \A u \in Issued : req'[u] = req[u]
    BY <1>3 DEF Issued
  <2>2. \A i \in DOMAIN answered : answered[i].trans \in Issued
    BY DEF IInv, Arrived, Answers
  <2>3. \A u \in Payloads(m_resp_peq) \cup Payloads(rsp_ip_peq_) : u \in Issued
    BY DEF IInv, Arrived
  <2> QED BY <2>1, <2>2, <2>3, <1>1 DEF IInv, AnsweredToSource
<1>13. SleepsSafely'
  <2>1. WakesInTime(q) => WakesInTime(q')
    BY <1>1, <1>2, <1>4, NotifyKeepsWaking
  <2> QED BY <2>1, <1>1 DEF IInv, SleepsSafely
<1> QED BY <1>7, <1>8, <1>9, <1>10, <1>11, <1>12, <1>13 DEF IInv

LEMMA ReqRxTakeKeeps ==
  ASSUME IInv, NEW d \in Delays, ReqRxTake(d)
  PROVE  IInv'
<1> DEFINE q == req_noc_peq_
           m == m_resp_peq
           t == NextTransaction(q)
           l == d + m_read_latency
<1>1. /\ q.due # <<>> /\ q' = Taken(q) /\ rx = "run" /\ rx' \in {"run", "wait"}
      /\ UNCHANGED <<req, rsp_ip_peq_, tx, answered>>
  BY DEF ReqRxTake, HasNext, txVars
<1>2. /\ q \in Queue(Ids) /\ m \in Queue(Ids) /\ l \in Nat /\ d + m_write_latency \in Nat
      /\ trans_sourceID_map_ \in [Ids -> SUBSET Sources]
      /\ rxLeft \in Nat
  BY LatencyAssumption DEF IInv, Types
<1>3. /\ q' \in Queue(Ids) /\ t \in Ids /\ t \in Payloads(q)
      /\ Distinct(q') /\ Payloads(q') = Payloads(q) \ {t}
  BY <1>1, <1>2, TakenShape, TakenKeeps DEF IInv, Once
<1>4. /\ t \in Issued /\ t \notin Payloads(m) /\ t \notin Payloads(rsp_ip_peq_)
      /\ t \notin Answers
  BY <1>3 DEF IInv, Arrived, Apart
<1>5. Answers' = Answers /\ Issued' = Issued
  BY <1>1 DEF Answers, Issued
<1>6. SleepsSafely'
  BY <1>1 DEF IInv, SleepsSafely
<1>7. CASE req[t].write
  <2>1. rxLeft' = d + m_write_latency /\ UNCHANGED <<trans_sourceID_map_, m>>
    BY <1>7 DEF ReqRxTake, memVars
  <2>2. Types'
    BY <2>1, <1>1, <1>2, <1>3 DEF IInv, Types
  <2>3. Arrived' /\ Apart' /\ Once'
    BY <2>1, <1>1, <1>3, <1>5 DEF IInv, Arrived, Apart, Once
  <2>4. InTime' /\ AnsweredToSource'
    BY <2>1, <1>1 DEF IInv, InTime, AnsweredToSource
  <2> QED BY <2>2, <2>3, <2>4, <1>6 DEF IInv
<1>8. CASE ~ req[t].write
  <2>1. /\ trans_sourceID_map_' = [trans_sourceID_map_ EXCEPT ![t] = {req[t].source}]
        /\ m' = Notify(m, t, l) /\ rxLeft' = rxLeft
    BY <1>8 DEF ReqRxTake, ReadRequest
  <2>2. m' \in Queue(Ids) /\ Payloads(m') = Payloads(m) \cup {t}
    <3>1. Notify(m, t, l) \in Queue(Ids)
      BY <1>2, <1>3, NotifyShape
    <3>2. Payloads(Notify(m, t, l)) = Payloads(m) \cup {t}
      BY <1>2, <1>3, NotifyPayloads
    <3> QED BY <3>1, <3>2, <2>1
  <2>3. Distinct(m')
    BY <2>1, <1>2, <1>3, <1>4, NotifyKeepsDistinct DEF IInv, Once
  <2>4. Sorted(m') /\ EventIsDue(m')
    BY <2>1, <1>2, <1>3, NotifyKeepsSorted, NotifyKeepsEventDue DEF IInv, InTime
  <2>5. req[t].source \in Sources
    <3>1. req \in Seq(Requests) /\ t \in 1 .. Len(req)
      BY <1>4 DEF IInv, Types, Issued
    <3>2. req[t] \in Requests
      BY <3>1, ElementOfSeq
    <3> QED BY <3>2 DEF Requests
  <2>6. /\ trans_sourceID_map_' \in [Ids -> SUBSET Sources]
        /\ trans_sourceID_map_'[t] = {req[t].source}
        /\ \A u : u # t => trans_sourceID_map_'[u] = trans_sourceID_map_[u]
    <3>1. \A u \in Ids : u # t => trans_sourceID_map_'[u] = trans_sourceID_map_[u]
      BY <2>1, <1>2
    <3>2. DOMAIN trans_sourceID_map_ = Ids
      BY <1>2
    <3> QED BY <2>1, <2>5, <3>1, <3>2, <1>2, <1>3
  <2>7. Types'
    BY <2>1, <2>2, <2>6, <1>1, <1>2, <1>3 DEF IInv, Types
  <2>8. Arrived' /\ Apart'
    BY <2>2, <1>1, <1>3, <1>4, <1>5 DEF IInv, Arrived, Apart
  <2>9. Once' /\ InTime'
    BY <2>3, <2>4, <1>1, <1>3 DEF IInv, Once, InTime
  <2>10. AnsweredToSource'
    BY <2>2, <2>6, <1>1, <1>4 DEF IInv, AnsweredToSource
  <2> QED BY <2>7, <2>8, <2>9, <2>10, <1>6 DEF IInv
<1> QED BY <1>7, <1>8

LEMMA BeginRespProcessKeeps ==
  ASSUME IInv, BeginRespProcess
  PROVE  IInv'
<1> DEFINE m == m_resp_peq
           f == Fired(m)
           r == rsp_ip_peq_
           t == NextTransaction(m)
<1>1. /\ m.due # <<>> /\ m' = Taken(f) /\ r' = Notify(r, t, 0)
      /\ UNCHANGED <<req, req_noc_peq_, rx, rxLeft, trans_sourceID_map_, tx, answered>>
  BY DEF BeginRespProcess, HasNext, rxVars
<1>2. m \in Queue(Ids) /\ r \in Queue(Ids) /\ 0 \in Nat
  BY DEF IInv, Types
<1>3. /\ f \in Queue(Ids) /\ f.due = m.due /\ f.event = {}
      /\ Payloads(f) = Payloads(m) /\ NextTransaction(f) = t
      /\ Sorted(f) /\ Distinct(f)
  <2>1. f \in Queue(Ids) /\ f.due = m.due /\ f.event = {}
    BY <1>2, FiredShape
  <2> QED BY <2>1 DEF Payloads, NextTransaction, Sorted, Distinct, Left, Trans,
                      IInv, Once, InTime
<1>4. /\ m' \in Queue(Ids) /\ t \in Ids /\ t \in Payloads(m)
      /\ Payloads(m') = Payloads(m) \ {t} /\ Sorted(m') /\ Distinct(m')
      /\ m'.event = {}
  BY <1>1, <1>3, TakenShape, TakenKeeps
<1>5. r' \in Queue(Ids) /\ Payloads(r') = Payloads(r) \cup {t}
  <2>1. Notify(r, t, 0) \in Queue(Ids)
    BY <1>2, <1>4, NotifyShape
  <2>2. Payloads(Notify(r, t, 0)) = Payloads(r) \cup {t}
    BY <1>2, <1>4, NotifyPayloads
  <2> QED BY <2>1, <2>2, <1>1
<1>6. t \in Issued /\ t \notin Payloads(r) /\ t \notin Payloads(req_noc_peq_) /\ t \notin Answers
  BY <1>4 DEF IInv, Arrived, Apart
<1>7. Distinct(r')
  BY <1>1, <1>2, <1>4, <1>6, NotifyKeepsDistinct DEF IInv, Once
<1>8. Answers' = Answers /\ Issued' = Issued
  BY <1>1 DEF Answers, Issued
<1>9. Types'
  BY <1>1, <1>4, <1>5 DEF IInv, Types
<1>10. Arrived' /\ Apart'
  BY <1>1, <1>4, <1>5, <1>6, <1>8 DEF IInv, Arrived, Apart
<1>11. Once' /\ InTime'
  BY <1>1, <1>4, <1>7 DEF IInv, Once, InTime, EventIsDue
<1>12. AnsweredToSource'
  BY <1>1, <1>4, <1>5 DEF IInv, AnsweredToSource
<1>13. SleepsSafely'
  <2>1. WakesInTime(r) => WakesInTime(r')
    BY <1>1, <1>2, <1>4, NotifyKeepsWaking
  <2> QED BY <2>1, <1>1 DEF IInv, SleepsSafely
<1> QED BY <1>9, <1>10, <1>11, <1>12, <1>13 DEF IInv

LEMMA RspTxTakeKeeps ==
  ASSUME IInv, RspTxTake
  PROVE  IInv'
<1> DEFINE r == rsp_ip_peq_
           t == NextTransaction(r)
           map == trans_sourceID_map_
           a == [trans |-> t, to |-> Lookup(map, t)]
<1>1. /\ r.due # <<>> /\ r' = Taken(r) /\ answered' = Append(answered, a)
      /\ map' = [map EXCEPT ![t] = {}] /\ tx = "run"
      /\ UNCHANGED <<req, req_noc_peq_, rx, rxLeft, m_resp_peq, tx>>
  BY DEF RspTxTake, HasNext, rxVars, memVars
<1>2. r \in Queue(Ids) /\ map \in [Ids -> SUBSET Sources] /\ answered \in Seq(Answer)
  BY DEF IInv, Types
<1>3. /\ r' \in Queue(Ids) /\ t \in Ids /\ t \in Payloads(r)
      /\ Distinct(r') /\ Payloads(r') = Payloads(r) \ {t}
  BY <1>1, <1>2, TakenShape, TakenKeeps DEF IInv, Once
<1>4. /\ t \in Issued /\ t \notin Payloads(req_noc_peq_) /\ t \notin Payloads(m_resp_peq)
      /\ t \notin Answers
  BY <1>3 DEF IInv, Arrived, Apart
<1>5. map[t] = {req[t].source} /\ Lookup(map, t) = req[t].source
  <2>1. map[t] = {req[t].source}
    BY <1>3 DEF IInv, AnsweredToSource
  <2> QED BY <2>1 DEF Lookup
<1>6. req[t].source \in Nat
  <2>1. req[t].source \in Sources
    BY <1>2, <1>3, <1>5
  <2> QED BY <2>1, LatencyAssumption
<1>7. a \in Answer /\ a.trans = t /\ a.to = req[t].source
  BY <1>3, <1>5, <1>6 DEF Answer
<1> HIDE DEF a
<1>8. /\ answered' \in Seq(Answer) /\ Len(answered) \in Nat
      /\ DOMAIN answered = 1 .. Len(answered)
      /\ DOMAIN answered' = 1 .. Len(answered) + 1
      /\ \A i \in 1 .. Len(answered) : answered'[i] = answered[i]
      /\ answered'[Len(answered) + 1] = a
  BY <1>1, <1>2, <1>7, Appended
<1>9. \A i \in DOMAIN answered' : i \in DOMAIN answered \/ i = Len(answered) + 1
  BY <1>8
<1>10. Answers' = Answers \cup {t}
  <2>1. \A i \in DOMAIN answered' : answered'[i].trans \in Answers \cup {t}
    BY <1>7, <1>8, <1>9 DEF Answers
  <2>2. \A i \in DOMAIN answered : answered[i].trans \in Answers'
    <3>1. \A i \in 1 .. Len(answered) : i \in 1 .. Len(answered) + 1
      BY <1>8
    <3> QED BY <3>1, <1>8 DEF Answers
  <2>3. t \in Answers'
    <3>1. Len(answered) + 1 \in 1 .. Len(answered) + 1
      BY <1>8
    <3> QED BY <3>1, <1>7, <1>8 DEF Answers
  <2> QED BY <2>1, <2>2, <2>3 DEF Answers
<1>11. Types'
  BY <1>1, <1>2, <1>3, <1>8 DEF IInv, Types
<1>12. Arrived' /\ Apart'
  BY <1>1, <1>3, <1>4, <1>10 DEF IInv, Arrived, Apart, Issued
<1>13. Once' /\ InTime'
  BY <1>1, <1>3 DEF IInv, Once, InTime
<1>14. AnsweredToSource'
  <2>1. \A u \in Payloads(m_resp_peq) \cup Payloads(r') : map'[u] = map[u]
    <3>1. DOMAIN map = Ids /\ \A u \in Payloads(m_resp_peq) \cup Payloads(r') : u # t
      BY <1>2, <1>3, <1>4
    <3>2. \A u \in Ids : u # t => map'[u] = map[u]
      BY <1>1, <1>2
    <3>3. \A u \in Payloads(m_resp_peq) \cup Payloads(r') : u \in Ids
      <4>1. Payloads(m_resp_peq) \cup Payloads(r') \subseteq Issued
        BY <1>3 DEF IInv, Arrived
      <4>2. Len(req) \in Nat /\ Len(req) <= MaxRequests /\ MaxRequests \in Nat
        BY LenProperties, LatencyAssumption DEF IInv, Types
      <4>3. Issued \subseteq Ids
        BY <4>2 DEF Issued, Ids
      <4> QED BY <4>1, <4>3
    <3> QED BY <3>1, <3>2, <3>3
  <2>2. \A u \in Payloads(m_resp_peq)' \cup Payloads(r)' : map'[u] = {req'[u].source}
    BY <2>1, <1>1, <1>3 DEF IInv, AnsweredToSource
  <2>3. \A i \in DOMAIN answered' : answered'[i].to = req'[answered'[i].trans].source
    BY <1>1, <1>7, <1>8, <1>9 DEF IInv, AnsweredToSource
  <2>4. \A i \in DOMAIN answered : answered[i].trans # t
    BY <1>4 DEF Answers
  <2>5. ASSUME NEW i \in DOMAIN answered', NEW j \in DOMAIN answered',
               answered'[i].trans = answered'[j].trans
        PROVE  i = j
    <3>1. CASE i \in DOMAIN answered /\ j \in DOMAIN answered
      BY <3>1, <2>5, <1>8 DEF IInv, AnsweredToSource
    <3>2. CASE i \in DOMAIN answered /\ j = Len(answered) + 1
      BY <3>2, <2>4, <2>5, <1>7, <1>8
    <3>3. CASE i = Len(answered) + 1 /\ j \in DOMAIN answered
      BY <3>3, <2>4, <2>5, <1>7, <1>8
    <3> QED BY <3>1, <3>2, <3>3, <1>9
  <2> QED BY <2>2, <2>3, <2>5 DEF AnsweredToSource
<1>15. SleepsSafely'
  BY <1>1 DEF IInv, SleepsSafely
<1> QED BY <1>11, <1>12, <1>13, <1>14, <1>15 DEF IInv

-----------------------------------------------------------------------------
\* Time and the threads

LEMMA TickKeeps ==
  ASSUME IInv, Tick
  PROVE  IInv'
<1> DEFINE q == req_noc_peq_
           m == m_resp_peq
           r == rsp_ip_peq_
<1>1. /\ rxLeft' = Sooner(rxLeft)
      /\ q' = Elapsed(q) /\ m' = Elapsed(m) /\ r' = Elapsed(r)
      /\ UNCHANGED <<req, rx, trans_sourceID_map_, tx, answered>>
  BY DEF Tick
<1>2. q \in Queue(Ids) /\ m \in Queue(Ids) /\ r \in Queue(Ids) /\ Sooner(rxLeft) \in Nat
  BY SoonerType DEF IInv, Types
<1>3. /\ q' \in Queue(Ids) /\ Payloads(q') = Payloads(q)
      /\ m' \in Queue(Ids) /\ Payloads(m') = Payloads(m)
      /\ r' \in Queue(Ids) /\ Payloads(r') = Payloads(r)
  BY <1>1, <1>2, ElapsedShape
<1>4. /\ Distinct(q') /\ Distinct(m') /\ Distinct(r') /\ Sorted(m') /\ EventIsDue(m')
      /\ WakesInTime(q) => WakesInTime(q')
      /\ WakesInTime(r) => WakesInTime(r')
  BY <1>1, <1>2, ElapsedKeeps DEF IInv, Once, InTime
<1>5. Types'
  BY <1>1, <1>2, <1>3 DEF IInv, Types
<1>6. Arrived' /\ Apart' /\ AnsweredToSource'
  BY <1>1, <1>3 DEF IInv, Arrived, Apart, AnsweredToSource, Answers, Issued
<1>7. Once' /\ InTime' /\ SleepsSafely'
  BY <1>1, <1>4 DEF IInv, Once, InTime, SleepsSafely
<1> QED BY <1>5, <1>6, <1>7 DEF IInv

(* The actions that only move a thread or use up an event.                 *)
LEMMA SwitchKeeps ==
  ASSUME IInv,
         ReqRxSleep \/ ReqRxResume \/ ReqRxEvent \/ RspTxSleep \/ RspTxEvent
           \/ UNCHANGED vars
  PROVE  IInv'
<1> DEFINE q == req_noc_peq_
           r == rsp_ip_peq_
<1>1. q \in Queue(Ids) /\ r \in Queue(Ids)
  BY DEF IInv, Types
<1>2. /\ NothingTaken(q) \in Queue(Ids) /\ NothingTaken(q).due = q.due
      /\ WakesInTime(NothingTaken(q))
      /\ Fired(q) \in Queue(Ids) /\ Fired(q).due = q.due
  BY <1>1, NothingTakenWakes, FiredShape
<1>3. /\ NothingTaken(r) \in Queue(Ids) /\ NothingTaken(r).due = r.due
      /\ WakesInTime(NothingTaken(r))
      /\ Fired(r) \in Queue(Ids) /\ Fired(r).due = r.due
  BY <1>1, NothingTakenWakes, FiredShape
<1>4. /\ UNCHANGED <<req, rxLeft, trans_sourceID_map_, m_resp_peq, answered>>
      /\ q' \in Queue(Ids) /\ q'.due = q.due /\ r' \in Queue(Ids) /\ r'.due = r.due
  BY <1>1, <1>2, <1>3
     DEF ReqRxSleep, ReqRxResume, ReqRxEvent, RspTxSleep, RspTxEvent,
         vars, rxVars, memVars, txVars
<1>5. Payloads(q') = Payloads(q) /\ Payloads(r') = Payloads(r)
  BY <1>4 DEF Payloads
<1>6. Types'
  BY <1>4 DEF IInv, Types
<1>7. Arrived' /\ Apart' /\ AnsweredToSource'
  BY <1>4, <1>5 DEF IInv, Arrived, Apart, AnsweredToSource, Answers, Issued
<1>8. Once' /\ InTime'
  BY <1>4 DEF IInv, Once, InTime, Distinct, Trans
<1>9. rx' = "sleep" => WakesInTime(q')
  BY <1>2 DEF IInv, SleepsSafely, ReqRxSleep, ReqRxResume, ReqRxEvent, RspTxSleep,
              RspTxEvent, vars, rxVars, txVars
<1>10. tx' = "sleep" => WakesInTime(r')
  BY <1>3 DEF IInv, SleepsSafely, ReqRxSleep, ReqRxResume, ReqRxEvent, RspTxSleep,
              RspTxEvent, vars, rxVars, txVars
<1> QED BY <1>6, <1>7, <1>8, <1>9, <1>10 DEF IInv, SleepsSafely

LEMMA NextHolds == IInv /\ [Next]_vars => IInv'
<1> SUFFICES ASSUME IInv, [Next]_vars PROVE IInv'
  OBVIOUS
<1>1. CASE \E s \in Sources, w \in BOOLEAN : ReqNocNiFw(s, w)
  BY <1>1, ReqNocNiFwKeeps
<1>2. CASE \E d \in Delays : ReqRxTake(d)
  BY <1>2, ReqRxTakeKeeps
<1>3. CASE BeginRespProcess
  BY <1>3, BeginRespProcessKeeps
<1>4. CASE RspTxTake
  BY <1>4, RspTxTakeKeeps
<1>5. CASE Tick
  BY <1>5, TickKeeps
<1>6. CASE ReqRxSleep \/ ReqRxResume \/ ReqRxEvent \/ RspTxSleep \/ RspTxEvent
             \/ UNCHANGED vars
  BY <1>6, SwitchKeeps
<1> QED BY <1>1, <1>2, <1>3, <1>4, <1>5, <1>6 DEF Next, ReqRx, RspTx

LEMMA IInvHolds == Spec => []IInv
BY InitHolds, NextHolds, PTL DEF Spec

-----------------------------------------------------------------------------
(* Neither thread of the NI sleeps on work, whatever events are lost       *)
(* (TargetNI::req_rx_ni_thread, rsp_tx_ni_thread).                         *)
THEOREM NeverSleepsOnWork == Spec => []SleepsSafely
<1>1. IInv => SleepsSafely
  BY DEF IInv
<1> QED BY <1>1, IInvHolds, PTL

(* Every answer goes, once, to the PE that asked, whatever the order in    *)
(* which the memory answers (TargetNI::rsp_tx_ni_thread).                  *)
THEOREM AnswersReturn == Spec => []AnsweredToSource
<1>1. IInv => AnsweredToSource
  BY DEF IInv
<1> QED BY <1>1, IInvHolds, PTL

(* At its event, the response method of the memory always finds an answer  *)
(* that is due: its assertion holds (Logger::begin_resp_process).          *)
THEOREM AnAnswerIsDue == Spec => []AnswerIsDue
<1>1. IInv => AnswerIsDue
  <2> SUFFICES ASSUME IInv, 0 \in m_resp_peq.event PROVE HasNext(m_resp_peq)
    BY DEF AnswerIsDue, Fires
  <2>1. m_resp_peq \in Queue(Ids) /\ m_resp_peq.due # <<>> /\ Left(m_resp_peq, 1) <= 0
    BY DEF IInv, Types, InTime, EventIsDue
  <2>2. Head(m_resp_peq.due).left = Left(m_resp_peq, 1) /\ 1 \in 1 .. Len(m_resp_peq.due)
    BY <2>1, QueueFields DEF Left
  <2>3. Left(m_resp_peq, 1) \in Nat
    BY <2>1, <2>2, EntryFields
  <2>4. Left(m_resp_peq, 1) = 0
    BY <2>1, <2>3
  <2> QED BY <2>1, <2>2, <2>4 DEF HasNext
<1> QED BY <1>1, IInvHolds, PTL
=============================================================================
