---------------------------- MODULE TargetMemory ----------------------------
(***************************************************************************)
(* The memory of a PE: ni/TargetNI.cpp with traffic_modules_ocp/Logger.cpp *)
(* behind it.  Requests come from the NoC, two threads of the NI carry     *)
(* requests in and answers out, a method of the memory answers reads.      *)
(*                                                                         *)
(* Time passes in units, and only when no process can run.  Payloads are   *)
(* numbered in the order they arrive.  What is stored is left out.         *)
(***************************************************************************)
EXTENDS PayloadEventQueue

CONSTANTS
  Sources,        \* the PEs that send requests
  Delays,         \* what forwarding a request can take, by its length
  m_read_latency,
  m_write_latency,
  MaxRequests     \* bound on the requests

ASSUME LatencyAssumption ==
  /\ Sources \subseteq Nat /\ Delays \subseteq Nat \ {0} /\ MaxRequests \in Nat
  /\ m_read_latency \in Nat /\ m_write_latency \in Nat

VARIABLES
  req,            \* the requests, in the order they arrived
  req_noc_peq_,
  rx,             \* req_rx_ni_thread: "run", "sleep" or "wait"
  rxLeft,         \* how long it still waits
  trans_sourceID_map_,
  m_resp_peq,
  rsp_ip_peq_,
  tx,             \* rsp_tx_ni_thread: "run" or "sleep"
  answered,       \* the answers sent into the NoC, in order
  overlapped      \* a read came to the memory while another was waiting there

rxVars == <<req_noc_peq_, rx, rxLeft>>
txVars == <<rsp_ip_peq_, tx, answered>>
memVars == <<m_resp_peq, overlapped>>
vars == <<req, rxVars, trans_sourceID_map_, memVars, txVars>>

Ids == 1 .. MaxRequests
Issued == 1 .. Len(req)

\* trans_sourceID_map_: an absent payload has no source, but reads as 0.
Lookup(map, t) == IF map[t] = {} THEN 0 ELSE CHOOSE s \in map[t] : TRUE
IsEmpty(map) == \A t \in Ids : map[t] = {}

(* req_noc_ni_fw: the NoC delivers a request; it can be taken at once.     *)
ReqNocNiFw(s, isWrite) ==
  LET t == Len(req) + 1 IN
  /\ t <= MaxRequests
  /\ req' = Append(req, [write |-> isWrite, source |-> s])
  /\ req_noc_peq_' = Notify(req_noc_peq_, t, 0)
  /\ UNCHANGED <<rx, rxLeft, trans_sourceID_map_, memVars, txVars>>

(* Logger::nb_transport_fw, called by the thread of the NI with a delay:   *)
(* a read will be answered later; a write adds to the delay of the caller. *)
\* Mutant: the event of the answer leaves out the latency of the memory.
ReadRequestEarlyEvent(t, d) ==
  m_resp_peq' = [Notify(m_resp_peq, t, d + m_read_latency)
                   EXCEPT !.event = NotifyEvent(@, d)]

ReadRequest(t, d) ==
  m_resp_peq' = Notify(m_resp_peq, t, d + m_read_latency)

(* req_rx_ni_thread takes a request: the source of a read is recorded and  *)
(* the thread goes on at once, after a write it waits.                     *)
\* Mutant: back to sleep after every read.
ReqRxTakeSleep(d) ==
  LET t == NextTransaction(req_noc_peq_) IN
  /\ rx = "run" /\ HasNext(req_noc_peq_)
  /\ req_noc_peq_' = Taken(req_noc_peq_)
  /\ \/ /\ req[t].write
        /\ rx' = "wait" /\ rxLeft' = d + m_write_latency
        /\ UNCHANGED <<trans_sourceID_map_, memVars>>
     \/ /\ ~req[t].write
        /\ trans_sourceID_map_' = [trans_sourceID_map_ EXCEPT ![t] = {req[t].source}]
        /\ ReadRequest(t, d)
        /\ overlapped' = (overlapped \/ m_resp_peq.due # <<>>)
        /\ rx' = "sleep" /\ UNCHANGED rxLeft
  /\ UNCHANGED <<req, txVars>>

ReqRxTake(d) ==
  LET t == NextTransaction(req_noc_peq_) IN
  /\ rx = "run" /\ HasNext(req_noc_peq_)
  /\ req_noc_peq_' = Taken(req_noc_peq_)
  /\ \/ /\ req[t].write
        /\ rx' = "wait" /\ rxLeft' = d + m_write_latency
        /\ UNCHANGED <<trans_sourceID_map_, memVars>>
     \/ /\ ~req[t].write
        /\ trans_sourceID_map_' = [trans_sourceID_map_ EXCEPT ![t] = {req[t].source}]
        /\ ReadRequest(t, d)
        /\ overlapped' = (overlapped \/ m_resp_peq.due # <<>>)
        /\ UNCHANGED <<rx, rxLeft>>
  /\ UNCHANGED <<req, txVars>>

\* It finds none, and sleeps until the event of the queue.
ReqRxSleep ==
  /\ rx = "run" /\ ~HasNext(req_noc_peq_)
  /\ rx' = "sleep"
  /\ req_noc_peq_' = NothingTaken(req_noc_peq_)
  /\ UNCHANGED <<req, rxLeft, trans_sourceID_map_, memVars, txVars>>

\* The event wakes the thread if it sleeps, and is lost if it does not.
ReqRxEvent ==
  /\ Fires(req_noc_peq_)
  /\ req_noc_peq_' = Fired(req_noc_peq_)
  /\ rx' = IF rx = "sleep" THEN "run" ELSE rx
  /\ UNCHANGED <<req, rxLeft, trans_sourceID_map_, memVars, txVars>>

ReqRxResume ==
  /\ rx = "wait" /\ rxLeft = 0
  /\ rx' = "run"
  /\ UNCHANGED <<req, req_noc_peq_, rxLeft, trans_sourceID_map_, memVars, txVars>>

(* begin_resp_process, a method run at the event of m_resp_peq, takes one  *)
(* read from it and hands it to the NI (oterm_ni_bw, BEGIN_RESP).          *)
\* Mutant: the answer is lost if the NI still sends another one.
BeginRespIfAsleep ==
  /\ Fires(m_resp_peq) /\ HasNext(m_resp_peq)
  /\ m_resp_peq' = Taken(Fired(m_resp_peq))
  /\ rsp_ip_peq_' = IF rx = "wait" THEN rsp_ip_peq_
                    ELSE Notify(rsp_ip_peq_, NextTransaction(m_resp_peq), 0)
  /\ UNCHANGED <<req, rxVars, trans_sourceID_map_, overlapped, tx, answered>>

BeginRespProcess ==
  /\ Fires(m_resp_peq) /\ HasNext(m_resp_peq)
  /\ m_resp_peq' = Taken(Fired(m_resp_peq))
  /\ rsp_ip_peq_' = Notify(rsp_ip_peq_, NextTransaction(m_resp_peq), 0)
  /\ UNCHANGED <<req, rxVars, trans_sourceID_map_, overlapped, tx, answered>>

(* rsp_tx_ni_thread takes an answer, looks up and erases where it goes,    *)
(* and sends it into the NoC.  While the map is empty it would sleep.      *)
\* Mutant: clear in place of erase.
RspTxTakeClear ==
  LET t == NextTransaction(rsp_ip_peq_) IN
  /\ tx = "run" /\ HasNext(rsp_ip_peq_) /\ ~IsEmpty(trans_sourceID_map_)
  /\ rsp_ip_peq_' = Taken(rsp_ip_peq_)
  /\ answered' = Append(answered, [trans |-> t, to |-> Lookup(trans_sourceID_map_, t)])
  /\ trans_sourceID_map_' = [u \in Ids |-> {}]
  /\ UNCHANGED <<req, rxVars, memVars, tx>>

RspTxTake ==
  LET t == NextTransaction(rsp_ip_peq_) IN
  /\ tx = "run" /\ HasNext(rsp_ip_peq_) /\ ~IsEmpty(trans_sourceID_map_)
  /\ rsp_ip_peq_' = Taken(rsp_ip_peq_)
  /\ answered' = Append(answered, [trans |-> t, to |-> Lookup(trans_sourceID_map_, t)])
  /\ trans_sourceID_map_' = [trans_sourceID_map_ EXCEPT ![t] = {}]
  /\ UNCHANGED <<req, rxVars, memVars, tx>>

RspTxSleep ==
  /\ tx = "run" /\ ~HasNext(rsp_ip_peq_)
  /\ tx' = "sleep"
  /\ rsp_ip_peq_' = NothingTaken(rsp_ip_peq_)
  /\ UNCHANGED <<req, rxVars, trans_sourceID_map_, memVars, answered>>

RspTxEvent ==
  /\ Fires(rsp_ip_peq_)
  /\ rsp_ip_peq_' = Fired(rsp_ip_peq_)
  /\ tx' = "run"
  /\ UNCHANGED <<req, rxVars, trans_sourceID_map_, memVars, answered>>

-----------------------------------------------------------------------------
Init ==
  /\ req = <<>>
  /\ req_noc_peq_ = EmptyQueue /\ m_resp_peq = EmptyQueue /\ rsp_ip_peq_ = EmptyQueue
  /\ rx = "run" /\ rxLeft = 0 /\ tx = "run"
  /\ trans_sourceID_map_ = [t \in Ids |-> {}]
  /\ answered = <<>>
  /\ overlapped = FALSE

(* The kernel lets time pass when no process can run.                      *)
Quiet ==
  /\ rx = "sleep" \/ (rx = "wait" /\ rxLeft > 0)
  /\ tx = "sleep"
  /\ ~Fires(req_noc_peq_) /\ ~Fires(m_resp_peq) /\ ~Fires(rsp_ip_peq_)

Tick ==
  /\ Quiet
  /\ rxLeft' = Sooner(rxLeft)
  /\ req_noc_peq_' = Elapsed(req_noc_peq_)
  /\ m_resp_peq' = Elapsed(m_resp_peq)
  /\ rsp_ip_peq_' = Elapsed(rsp_ip_peq_)
  /\ UNCHANGED <<req, rx, trans_sourceID_map_, overlapped, tx, answered>>

ReqRx == (\E d \in Delays : ReqRxTake(d)) \/ ReqRxSleep \/ ReqRxResume
RspTx == RspTxTake \/ RspTxSleep

Next ==
  \/ \E s \in Sources, w \in BOOLEAN : ReqNocNiFw(s, w)
  \/ ReqRx \/ ReqRxEvent
  \/ BeginRespProcess
  \/ RspTx \/ RspTxEvent
  \/ Tick

Spec == Init /\ [][Next]_vars

(* The kernel runs every process that can run, and then lets time pass;    *)
(* when requests arrive is up to the NoC.                                  *)
FairSpec ==
  /\ Spec
  /\ WF_vars(ReqRx) /\ WF_vars(ReqRxEvent)
  /\ WF_vars(BeginRespProcess)
  /\ WF_vars(RspTx) /\ WF_vars(RspTxEvent)
  /\ WF_vars(Tick)

-----------------------------------------------------------------------------
(* A thread of the NI never sleeps on work: while it sleeps, the event of  *)
(* its queue is due no later than the first payload in it, also when       *)
(* events before were lost because the thread was waiting elsewhere.       *)
SleepsSafely ==
  /\ rx = "sleep" => WakesInTime(req_noc_peq_)
  /\ tx = "sleep" => WakesInTime(rsp_ip_peq_)

(* The assertion of begin_resp_process (on what it takes) never meets an   *)
(* empty-handed queue: at the event some answer is due.                    *)
AnswerIsDue == Fires(m_resp_peq) => HasNext(m_resp_peq)

(* Every read the memory or the NI still holds has its source in the map,  *)
(* and every answer went to the PE that asked, once.                       *)
AnsweredToSource ==
  /\ \A t \in Payloads(m_resp_peq) \cup Payloads(rsp_ip_peq_) :
       trans_sourceID_map_[t] = {req[t].source}
  /\ \A i \in DOMAIN answered : answered[i].to = req[answered[i].trans].source
  /\ \A i, j \in DOMAIN answered : answered[i].trans = answered[j].trans => i = j

(* Every request is taken from the NI's queue and given to the memory.     *)
AllForwarded ==
  \A t \in Ids : t \in Issued ~> (t \in Issued /\ t \notin Payloads(req_noc_peq_))

IsAnswered(t) == \E i \in DOMAIN answered : answered[i].trans = t
IsRead(t) == t \in Issued /\ ~req[t].write

(* As long as no two reads are in the memory at once, every read is        *)
(* answered.                                                               *)
AnsweredUnlessOverlapped ==
  \A t \in Ids : IsRead(t) ~> IsAnswered(t) \/ overlapped

(* Every read is answered: TargetNI.cpp, "read is responsed through other  *)
(* path with rsp_ip_peq_ in oterm_ni_bw".                                  *)
EveryReadAnswered == \A t \in Ids : IsRead(t) ~> IsAnswered(t)
=============================================================================
