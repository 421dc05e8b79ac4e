-------------------------- MODULE OCPWrappedMemory --------------------------
(***************************************************************************)
(* DRAMSim2/OCPWrappedMemory.cpp: the payloads of the crossbar in front of *)
(* a DRAM that knows addresses only.                                       *)
(*                                                                         *)
(* A payload is the number of its request.  Requests enter the payload     *)
(* queue (req_peq_) and the deque (return_trans_queue) in the order of     *)
(* these numbers, so the queue is the numbers not yet in hist, and the     *)
(* deque is kept as a set whose order is that of the numbers.  The DRAM is *)
(* MemoryDevice.  Data: a write stores its own number in its words, all    *)
(* byte enables set.                                                       *)
(***************************************************************************)
EXTENDS MemoryDevice

CONSTANTS
  Words,        \* the words of the memory
  Bursts,       \* the bursts asked for: records [addr, len]
  MaxRequests   \* bound on the requests

\* A burst is of one bank (INCR over words of one DRAM burst).
ASSUME BurstAssumption ==
  /\ MaxRequests \in Nat /\ Words \subseteq Nat /\ Addrs \subseteq Words
  /\ Bursts \subseteq [addr : Addrs, len : Nat]
  /\ \A r \in Bursts : r.addr .. (r.addr + r.len - 1) \subseteq Words
  /\ \A r, q \in Bursts :
       (\E x \in r.addr .. (r.addr + r.len - 1) : x \in q.addr .. (q.addr + q.len - 1))
         => BankOf(r.addr) = BankOf(q.addr)

VARIABLES
  asked,         \* the requests, in order
  queue,         \* return_trans_queue
  returnTrans,   \* return_trans_ptr
  respEvent,     \* send_resp_event is notified
  memory,        \* m_memory
  data,          \* the data buffer of each payload
  answered       \* the reads answered with BEGIN_RESP, in order

payloadVars == <<asked, queue, returnTrans, respEvent, memory, data, answered>>
vars == <<hist, done, payloadVars>>

Ids == 1 .. MaxRequests
Nobody == 0

Span(p) == asked[p].addr .. (asked[p].addr + asked[p].len - 1)

(* nb_transport_fw, BEGIN_REQ: the payload goes into req_peq_.             *)
\* Mutant: pushed on the deque at once, before the DRAM knows of it.
RequestPushed(isWrite, r) ==
  LET p == Len(asked) + 1 IN
  /\ p <= MaxRequests
  /\ asked' = Append(asked, [write |-> isWrite, addr |-> r.addr, len |-> r.len])
  /\ data' = [data EXCEPT ![p] = [x \in Words |-> IF isWrite THEN p ELSE 0]]
  /\ queue' = queue \cup {p}
  /\ UNCHANGED <<hist, done, returnTrans, respEvent, memory, answered>>

Request(isWrite, r) ==
  LET p == Len(asked) + 1 IN
  /\ p <= MaxRequests
  /\ asked' = Append(asked, [write |-> isWrite, addr |-> r.addr, len |-> r.len])
  /\ data' = [data EXCEPT ![p] = [x \in Words |-> IF isWrite THEN p ELSE 0]]
  /\ UNCHANGED <<hist, done, queue, returnTrans, respEvent, memory, answered>>

(* req_process: the next payload is added to the DRAM and pushed on the    *)
(* deque, in one go.                                                       *)
\* Mutant: only reads are kept for their answer.
ReqProcessReadsOnly ==
  LET p == Len(hist) + 1 IN
  /\ p <= Len(asked)
  /\ Add(asked[p].write, asked[p].addr)
  /\ queue' = IF asked[p].write THEN queue ELSE queue \cup {p}
  /\ UNCHANGED <<asked, returnTrans, respEvent, memory, data, answered>>

ReqProcess ==
  LET p == Len(hist) + 1 IN
  /\ p <= Len(asked)
  /\ Add(asked[p].write, asked[p].addr)
  /\ queue' = queue \cup {p}
  /\ UNCHANGED <<asked, returnTrans, respEvent, memory, data, answered>>

\* find_trans_in_deque: the first payload with that address.
\* Mutant: the last one.
FindLast(p, a) ==
  /\ p \in queue /\ asked[p].addr = a
  /\ \A q \in queue : asked[q].addr = a => q <= p

FindTransInDeque(p, a) ==
  /\ p \in queue /\ asked[p].addr = a
  /\ \A q \in queue : asked[q].addr = a => p <= q

(* read_complete_CB and write_complete_CB, for the payload found.          *)
ReadComplete(p) ==
  /\ data' = [data EXCEPT ![p] =
                [x \in Words |-> IF x \in Span(p) THEN memory[x] ELSE @[x]]]
  /\ UNCHANGED memory

WriteComplete(p) ==
  /\ memory' = [x \in Words |-> IF x \in Span(p) THEN data[p][x] ELSE memory[x]]
  /\ UNCHANGED data

(* update_method: the DRAM completes a transaction and calls back.  It     *)
(* runs once in tCK; the method the callback notifies runs before time     *)
(* goes on.                                                                *)
UpdateMethod(i) ==
  /\ ~respEvent
  /\ Complete(i)
  /\ \E p \in queue :
       /\ FindTransInDeque(p, hist[i].addr)
       /\ returnTrans' = p
       /\ IF hist[i].write THEN WriteComplete(p) ELSE ReadComplete(p)
  /\ respEvent' = TRUE
  /\ UNCHANGED <<asked, queue, answered>>

(* response_method: a read is answered; the payload leaves the deque.      *)
\* Mutant: a write stays in the deque.
ResponseKeepsWrites ==
  /\ respEvent
  /\ respEvent' = FALSE
  /\ queue' = IF asked[returnTrans].write THEN queue ELSE queue \ {returnTrans}
  /\ answered' = IF asked[returnTrans].write THEN answered
                                              ELSE Append(answered, returnTrans)
  /\ UNCHANGED <<hist, done, asked, returnTrans, memory, data>>

\* Mutant: the answer is given before the payload is taken off.
ResponseNotOnce ==
  /\ respEvent
  /\ respEvent' = (returnTrans \in queue)
  /\ queue' = queue \ {returnTrans}
  /\ answered' = IF asked[returnTrans].write THEN answered
                                              ELSE Append(answered, returnTrans)
  /\ UNCHANGED <<hist, done, asked, returnTrans, memory, data>>

ResponseMethod ==
  /\ respEvent
  /\ respEvent' = FALSE
  /\ queue' = queue \ {returnTrans}
  /\ answered' = IF asked[returnTrans].write THEN answered
                                              ELSE Append(answered, returnTrans)
  /\ UNCHANGED <<hist, done, asked, returnTrans, memory, data>>

-----------------------------------------------------------------------------
Init ==
  /\ DeviceInit
  /\ asked = <<>>
  /\ queue = {}
  /\ returnTrans = Nobody
  /\ respEvent = FALSE
  /\ memory = [x \in Words |-> 0]
  /\ data = [p \in Ids |-> [x \in Words |-> 0]]
  /\ answered = <<>>

Next ==
  \/ \E w \in BOOLEAN, r \in Bursts : Request(w, r)
  \/ ReqProcess
  \/ \E i \in Added : UpdateMethod(i)
  \/ ResponseMethod

Spec == Init /\ [][Next]_vars

(* The kernel runs req_process when its queue has a payload,               *)
(* response_method when its event is notified, and update_method every     *)
(* tCK; MemoryDevice completes some transaction in the end.                *)
FairSpec ==
  /\ Spec
  /\ WF_vars(ReqProcess)
  /\ WF_vars(\E i \in Added : UpdateMethod(i))
  /\ WF_vars(ResponseMethod)

-----------------------------------------------------------------------------
TypeOK ==
  /\ asked \in Seq([write : BOOLEAN, addr : Addrs, len : Nat])
  /\ Len(asked) <= MaxRequests
  /\ hist \in Seq([write : BOOLEAN, addr : Addrs])
  /\ Len(hist) <= Len(asked)
  /\ done \subseteq Added
  /\ queue \subseteq Added
  /\ returnTrans \in 0 .. Len(hist)
  /\ respEvent \in BOOLEAN
  /\ memory \in [Words -> 0 .. MaxRequests]
  /\ data \in [Ids -> [Words -> 0 .. MaxRequests]]
  /\ answered \in Seq(Ids)

(* The deque holds the payloads of exactly the transactions the DRAM has   *)
(* not completed, and the one whose answer is being given: the address     *)
(* alone always found the payload that was meant.                          *)
DequeIsOutstanding ==
  queue = (Added \ done) \cup (IF respEvent THEN {returnTrans} ELSE {})

(* v is the last write in the set W of request numbers, 0 if it is empty.  *)
IsLast(v, W) == v \in W \cup {0} /\ \A j \in W : j <= v

WritesTo(x, S) == {j \in S : asked[j].write /\ x \in Span(j)}

(* A read is answered with the data of the last write before it of each of *)
(* its words, whatever the DRAM reordered between banks.                   *)
ReadsLatestWrite ==
  \A p \in done : ~asked[p].write =>
    \A x \in Span(p) : IsLast(data[p][x], WritesTo(x, 1 .. (p - 1)))

(* Each read is answered once, and only after the DRAM has completed it.   *)
AnsweredOnce ==
  /\ \A m, n \in DOMAIN answered : m # n => answered[m] # answered[n]
  /\ \A n \in DOMAIN answered : answered[n] \in done

(* Every request is carried out, and every read answered.                  *)
CarriedOut(p) ==
  /\ p \in done
  /\ ~asked[p].write => \E n \in DOMAIN answered : answered[n] = p

AllCarriedOut ==
  \A p \in Ids : p \in 1 .. Len(asked) ~> (p \in 1 .. Len(asked) /\ CarriedOut(p))
=============================================================================
