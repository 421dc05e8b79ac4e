--------------------------- MODULE InitiatorPort ---------------------------
(***************************************************************************)
(* The requesting side of a PE: traffic_modules_ocp/TrafficGen.cpp replays *)
(* a trace into ni/InitNI.cpp, which has one thread for requests and one   *)
(* for answers.  The NoC takes a request when it is sent and answers a     *)
(* read whenever it likes, in any order.                                   *)
(*                                                                         *)
(* Time passes in units, and only when no process can run.  Payloads are   *)
(* numbered in the order of the trace.                                     *)
(***************************************************************************)
EXTENDS PayloadEventQueue

CONSTANTS
  Waits,          \* the times a trace waits
  Delays,         \* what handing an answer to the PE can take, by its length
  MaxRequests     \* bound on the requests of a trace

ASSUME TraceAssumption ==
  /\ Waits \subseteq Nat \ {0} /\ Delays \subseteq Nat \ {0}
  /\ MaxRequests \in Nat

VARIABLES
  cmds,           \* the commands issued so far, "RD" or "WR"
  gen,            \* generate_traffic_nb: "run", "wait", "done" or "aborted"
  genLeft,        \* how long it still waits
  mapping,        \* the payloads with an issue time
  req_ip_peq_,
  tx,             \* req_tx_ni_thread: "run" or "sleep"
  sent,           \* the requests sent into the NoC, in order
  rsp_noc_peq_,
  rx,             \* rsp_rx_ni_thread: "run", "sleep" or "wait"
  rxLeft,
  answered        \* the answers the PE got, in order

genVars == <<cmds, gen, genLeft>>
txVars == <<req_ip_peq_, tx, sent>>
rxVars == <<rsp_noc_peq_, rx, rxLeft, answered>>
vars == <<genVars, mapping, txVars, rxVars>>

Ids == 1 .. MaxRequests
Issued == 1 .. Len(cmds)
IsRead(t) == t \in Issued /\ cmds[t] = "RD"

(* generate_traffic_nb issues the next transaction of the trace.  The NI   *)
(* accepts it (iterm_ni_fw puts it into req_ip_peq_), and on TLM_ACCEPTED  *)
(* the generator asserts that it was a read.                               *)
\* Mutant: the NI's queue delays a request by its transfer.
IssueDelayed(cmd) ==
  LET t == Len(cmds) + 1 IN
  /\ gen = "run" /\ t <= MaxRequests
  /\ cmds' = Append(cmds, cmd)
  /\ \E d \in Delays : req_ip_peq_' = Notify(req_ip_peq_, t, d)
  /\ mapping' = mapping \cup {t}
  /\ gen' = IF cmd = "RD" THEN "run" ELSE "aborted"
  /\ UNCHANGED <<genLeft, tx, sent, rxVars>>

Issue(cmd) ==
  LET t == Len(cmds) + 1 IN
  /\ gen = "run" /\ t <= MaxRequests
  /\ cmds' = Append(cmds, cmd)
  /\ req_ip_peq_' = Notify(req_ip_peq_, t, 0)
  /\ mapping' = mapping \cup {t}
  /\ gen' = IF cmd = "RD" THEN "run" ELSE "aborted"
  /\ UNCHANGED <<genLeft, tx, sent, rxVars>>

\* The trace says to wait (test_gen_wait, test_gen_wait_until) ...
GenWait(d) ==
  /\ gen = "run"
  /\ gen' = "wait" /\ genLeft' = d
  /\ UNCHANGED <<cmds, mapping, txVars, rxVars>>

GenResume ==
  /\ gen = "wait" /\ genLeft = 0
  /\ gen' = "run"
  /\ UNCHANGED <<cmds, genLeft, mapping, txVars, rxVars>>

\* ... or ends.
GenEnd ==
  /\ gen = "run"
  /\ gen' = "done"
  /\ UNCHANGED <<cmds, genLeft, mapping, txVars, rxVars>>

(* req_tx_ni_thread wraps a request and sends it; the NoC completes the    *)
(* call at once, and the thread goes on in the next delta cycle.           *)
TxTake ==
  LET t == NextTransaction(req_ip_peq_) IN
  /\ tx = "run" /\ HasNext(req_ip_peq_)
  /\ req_ip_peq_' = Taken(req_ip_peq_)
  /\ sent' = Append(sent, t)
  /\ UNCHANGED <<genVars, mapping, tx, rxVars>>

TxSleep ==
  /\ tx = "run" /\ ~HasNext(req_ip_peq_)
  /\ tx' = "sleep"
  /\ req_ip_peq_' = NothingTaken(req_ip_peq_)
  /\ UNCHANGED <<genVars, mapping, sent, rxVars>>

TxEvent ==
  /\ Fires(req_ip_peq_)
  /\ req_ip_peq_' = Fired(req_ip_peq_)
  /\ tx' = "run"
  /\ UNCHANGED <<genVars, mapping, sent, rxVars>>

(* rsp_noc_ni_fw: the NoC brings the answer to a read, once.               *)
RspNocNiFw(t) ==
  /\ IsRead(t) /\ t \in Range(sent)
  /\ t \notin Payloads(rsp_noc_peq_) \cup Range(answered)
  /\ rsp_noc_peq_' = Notify(rsp_noc_peq_, t, 0)
  /\ UNCHANGED <<genVars, mapping, txVars, rx, rxLeft, answered>>

(* rsp_rx_ni_thread hands an answer to the generator, whose                *)
(* nb_transport_bw looks up and erases the issue time, and waits for the   *)
(* time of the transfer.                                                   *)
\* Mutant: the oldest entry is erased.
RxTakeOldest(d) ==
  LET t == NextTransaction(rsp_noc_peq_) IN
  /\ rx = "run" /\ HasNext(rsp_noc_peq_)
  /\ rsp_noc_peq_' = Taken(rsp_noc_peq_)
  /\ answered' = Append(answered, t)
  /\ mapping' = mapping \ {CHOOSE u \in mapping : \A v \in mapping : u <= v}
  /\ rx' = "wait" /\ rxLeft' = d
  /\ UNCHANGED <<genVars, txVars>>

RxTake(d) ==
  LET t == NextTransaction(rsp_noc_peq_) IN
  /\ rx = "run" /\ HasNext(rsp_noc_peq_)
  /\ rsp_noc_peq_' = Taken(rsp_noc_peq_)
  /\ answered' = Append(answered, t)
  /\ mapping' = mapping \ {t}
  /\ rx' = "wait" /\ rxLeft' = d
  /\ UNCHANGED <<genVars, txVars>>

\* Mutant: after a transfer the thread waits for the event first.
RxResumeAsleep ==
  /\ rx = "wait" /\ rxLeft = 0
  /\ rx' = "sleep"
  /\ UNCHANGED <<genVars, mapping, txVars, rsp_noc_peq_, rxLeft, answered>>

RxResume ==
  /\ rx = "wait" /\ rxLeft = 0
  /\ rx' = "run"
  /\ UNCHANGED <<genVars, mapping, txVars, rsp_noc_peq_, rxLeft, answered>>

RxSleep ==
  /\ rx = "run" /\ ~HasNext(rsp_noc_peq_)
  /\ rx' = "sleep"
  /\ rsp_noc_peq_' = NothingTaken(rsp_noc_peq_)
  /\ UNCHANGED <<genVars, mapping, txVars, rxLeft, answered>>

\* The event wakes the thread if it sleeps, and is lost if it does not.
RxEvent ==
  /\ Fires(rsp_noc_peq_)
  /\ rsp_noc_peq_' = Fired(rsp_noc_peq_)
  /\ rx' = IF rx = "sleep" THEN "run" ELSE rx
  /\ UNCHANGED <<genVars, mapping, txVars, rxLeft, answered>>

-----------------------------------------------------------------------------
Init ==
  /\ cmds = <<>> /\ gen = "run" /\ genLeft = 0
  /\ mapping = {}
  /\ req_ip_peq_ = EmptyQueue /\ tx = "run" /\ sent = <<>>
  /\ rsp_noc_peq_ = EmptyQueue /\ rx = "run" /\ rxLeft = 0 /\ answered = <<>>

(* The kernel lets time pass when no process can run.                      *)
Tick ==
  /\ gen = "done" \/ (gen = "wait" /\ genLeft > 0)
  /\ tx = "sleep"
  /\ rx = "sleep" \/ (rx = "wait" /\ rxLeft > 0)
  /\ ~Fires(req_ip_peq_) /\ ~Fires(rsp_noc_peq_)
  /\ genLeft' = Sooner(genLeft) /\ rxLeft' = Sooner(rxLeft)
  /\ req_ip_peq_' = Elapsed(req_ip_peq_)
  /\ rsp_noc_peq_' = Elapsed(rsp_noc_peq_)
  /\ UNCHANGED <<cmds, gen, mapping, tx, sent, rx, answered>>

Generate ==
  (\E cmd \in {"RD", "WR"} : Issue(cmd)) \/ (\E d \in Waits : GenWait(d))
    \/ GenResume \/ GenEnd
ReqTx == TxTake \/ TxSleep
RspRx == (\E d \in Delays : RxTake(d)) \/ RxResume \/ RxSleep

Running == gen # "aborted"

Next ==
  /\ Running
  /\ \/ Generate
     \/ ReqTx \/ TxEvent
     \/ \E t \in Ids : RspNocNiFw(t)
     \/ RspRx \/ RxEvent
     \/ Tick

Spec == Init /\ [][Next]_vars

(* The kernel runs every process that can run, and then lets time pass.    *)
(* Of the NoC it is assumed that it answers every read.                    *)
FairSpec ==
  /\ Spec
  /\ WF_vars(Running /\ Generate)
  /\ WF_vars(Running /\ ReqTx) /\ WF_vars(Running /\ TxEvent)
  /\ \A t \in Ids : WF_vars(Running /\ RspNocNiFw(t))
  /\ WF_vars(Running /\ RspRx) /\ WF_vars(Running /\ RxEvent)
  /\ WF_vars(Running /\ Tick)

-----------------------------------------------------------------------------
(* The requests of a PE enter the NoC in the order of its trace, each      *)
(* once: the delays inside the queue of the NI never reorder them.         *)
InIssueOrder == \A i \in DOMAIN sent : sent[i] = i

(* A read has an issue time exactly until its answer is logged, in         *)
(* whatever order the answers come: the latency the platform reports is    *)
(* never computed from the default of a missing entry.                     *)
IssueTimeKept ==
  {t \in Issued : IsRead(t)} \ Range(answered) = {t \in mapping : IsRead(t)}

(* No thread of the NI sleeps on work, although events are lost while the  *)
(* answering thread is busy with a transfer.                               *)
SleepsSafely ==
  /\ tx = "sleep" => WakesInTime(req_ip_peq_)
  /\ rx = "sleep" => WakesInTime(rsp_noc_peq_)

(* Every read of a trace is answered, if the NoC answers and no assertion  *)
(* stops the program.                                                      *)
EveryReadLogged == \A t \in Ids : IsRead(t) ~> t \in Range(answered) \/ ~Running
=============================================================================
