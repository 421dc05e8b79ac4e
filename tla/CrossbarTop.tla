----------------------------- MODULE CrossbarTop -----------------------------
(***************************************************************************)
(* The memory side of the platform around the crossbar: per channel the    *)
(* four threads of memsys/CrossbarTop.cpp, the two threads of the target   *)
(* NI that feeds the channel (ni/TargetNI.cpp) and the memory it ends in,  *)
(* here only what DRAMSim2/OCPWrappedMemory.cpp lets the channel see: it   *)
(* acknowledges every request and answers reads, in any order.             *)
(*                                                                         *)
(* One payload pointer travels the whole way.  Its address is rebased in   *)
(* place on the memory side of the crossbar, and its source is forgotten   *)
(* there and looked up again in a map keyed by the pointer: mapping<c> in  *)
(* CrossbarTop, trans_sourceID_map_ in the NI.  A read payload is reused   *)
(* for another request once its answer has left; a write payload never is  *)
(* (the memory keeps its reference).                                       *)
(***************************************************************************)
EXTENDS Crossbar

CONSTANTS
  Sources,      \* the PEs that issue requests
  Addrs,        \* the external-memory addresses they issue
  MaxRequests   \* bound on the number of requests issued

ASSUME EnvironmentAssumption == Sources \subseteq PE /\ Addrs \subseteq ExtAddr

ASSUME MaxRequestsAssumption == MaxRequests \in Nat

VARIABLES
  req,       \* req[t]: the request t carries, as the NoC delivered it
  mapping,   \* mapping[c][t]: source recorded by crb_to_mem, or NoSource
  niMap,     \* niMap[c][t]: source recorded by NI 16 + c, or NoSource
  ackWait,   \* crb_to_mem of the channel waits for otermAckEvent
  ackEvent,  \* a notification of that event is pending (an sc_event has one)
  niWait,    \* req_rx_ni_thread of the NI waits for otermAckEvent_
  niEvent,   \* a notification of that event is pending
  issued     \* number of requests issued

acks == <<ackWait, ackEvent, niWait, niEvent>>
topVars == <<req, mapping, niMap, acks, issued>>
allVars == <<at, addr, topVars>>

TopStages == FabricStages \cup
  {"req_noc_peq", "noc_to_crb", "mem_req_peq", "return_trans_queue",
   "rsp_ip_peq", "mem_to_crb", "ni_rsp_peq"}

ASSUME TopStagesAssumption == TopStages \subseteq Stages

Idle == [kind |-> "idle", source |-> NoSource, addr |-> 0]

Request == [kind : {"read", "write", "written"}, source : PE, addr : ExtAddr]

IsRead(t) == req[t].kind = "read"

\* operator[] of a std::map<payload*, int>: an absent key reads as 0.
MapLookup(map, t) == IF map[t] = NoSource THEN 0 ELSE map[t]

\* std::map::insert: an entry that is there already stays.
MapInsertIf(cond, map, c, t, s) ==
  IF cond /\ map[c][t] = NoSource THEN [map EXCEPT ![c][t] = s] ELSE map

MapEmpty(map) == \A t \in Trans : map[t] = NoSource

-----------------------------------------------------------------------------
(* req_rx_ni_thread of NI 16 + c takes a request from the NoC, records the *)
(* source of a read and forwards the request to the channel; after a write *)
(* it waits for an acknowledge.                                            *)
NIForward(t, s, a, kind) ==
  LET c == Redirect(16 + ForeDest(a), s) - 16 IN
  /\ req[t] = Idle
  /\ ~niWait[c]
  /\ issued < MaxRequests
  /\ issued' = issued + 1
  /\ req' = [req EXCEPT ![t] = [kind |-> kind, source |-> s, addr |-> a]]
  /\ addr' = [addr EXCEPT ![t] = a]
  /\ niMap' = MapInsertIf(kind = "read", niMap, c, t, s)
  /\ niWait' = [niWait EXCEPT ![c] = (kind = "write")]
  /\ at' = [at EXCEPT ![<<"req_noc_peq", c>>] =
                        @ \cup {[trans |-> t, source |-> s, chan |-> c]}]
  /\ UNCHANGED <<mapping, ackWait, ackEvent, niEvent>>

(* noc_to_crb_<c>_process takes a request from its queue and sends END_REQ *)
(* before it has written the request anywhere (oterm_ni_bw of the NI       *)
(* notifies otermAckEvent_ with the delay of the call) ...                 *)
NocToCrb(c) ==
  /\ Pass(<<"req_noc_peq", c>>, <<"noc_to_crb", c>>)
  /\ niEvent' = [niEvent EXCEPT ![c] = TRUE]
  /\ UNCHANGED <<req, mapping, niMap, ackWait, ackEvent, niWait, issued>>

(* The notification wakes the NI's thread, if it waits.                    *)
NIAckFires(c) ==
  /\ niEvent[c]
  /\ niEvent' = [niEvent EXCEPT ![c] = FALSE]
  /\ niWait' = [niWait EXCEPT ![c] = FALSE]
  /\ UNCHANGED <<at, addr, req, mapping, niMap, ackWait, ackEvent, issued>>

(* ... and writes it to the crossbar when there is room.                   *)
\* Mutant: a write that does not wait for room.
NocToCrbWriteAnyway(c) ==
  /\ \E m \in at[<<"noc_to_crb", c>>] :
       Move(m, <<"noc_to_crb", c>>, <<"noc_to_sch", c>>)
  /\ UNCHANGED <<addr, topVars>>

NocToCrbWrite(c) ==
  /\ Pass(<<"noc_to_crb", c>>, <<"noc_to_sch", c>>)
  /\ UNCHANGED topVars

(* crb_to_mem_<c>_process: rebase the address, record the source of a      *)
(* read, hand the payload to the memory, and after a write wait for the    *)
(* acknowledge.                                                            *)
CrbToMem(c) ==
  /\ ~ackWait[c]
  /\ \E m \in at[<<"sch_to_mem", c>>] :
       LET t == m.trans IN
       /\ addr' = [addr EXCEPT ![t] = Rebase(@)]
       /\ mapping' = MapInsertIf(IsRead(t), mapping, c, t, m.source)
       /\ ackWait' = [ackWait EXCEPT ![c] = ~IsRead(t)]
       /\ Carry(m, <<"sch_to_mem", c>>,
                [trans |-> t, source |-> NoSource, chan |-> c],
                <<"mem_req_peq", c>>)
  /\ UNCHANGED <<req, niMap, ackEvent, niWait, niEvent, issued>>

(* The memory takes a request (req_process): END_REQ, whatever the         *)
(* command, notifies otermAckEvent of the channel (crossbar_<c>_bw).       *)
\* Mutant: END_REQ for reads only.
MemAcceptSilent(c) ==
  /\ \E m \in at[<<"mem_req_peq", c>>] :
       /\ Move(m, <<"mem_req_peq", c>>, <<"return_trans_queue", c>>)
       /\ ackEvent' = [ackEvent EXCEPT ![c] = @ \/ IsRead(m.trans)]
  /\ UNCHANGED <<addr, req, mapping, niMap, ackWait, niWait, niEvent, issued>>

MemAccept(c) ==
  /\ \E m \in at[<<"mem_req_peq", c>>] :
       Move(m, <<"mem_req_peq", c>>, <<"return_trans_queue", c>>)
  /\ ackEvent' = [ackEvent EXCEPT ![c] = TRUE]
  /\ UNCHANGED <<addr, req, mapping, niMap, ackWait, niWait, niEvent, issued>>

(* The notification wakes crb_to_mem, if it waits.                         *)
AckFires(c) ==
  /\ ackEvent[c]
  /\ ackEvent' = [ackEvent EXCEPT ![c] = FALSE]
  /\ ackWait' = [ackWait EXCEPT ![c] = FALSE]
  /\ UNCHANGED <<at, addr, req, mapping, niMap, niWait, niEvent, issued>>

(* The memory completes a read: BEGIN_RESP puts it into rsp_ip_peq.        *)
\* Mutant: the completed read is not erased from the queue.
MemReadDoneKeep(c) ==
  /\ \E m \in at[<<"return_trans_queue", c>>] :
       /\ IsRead(m.trans)
       /\ at' = [at EXCEPT ![<<"rsp_ip_peq", c>>] = @ \cup {m}]
  /\ UNCHANGED <<addr, topVars>>

MemReadDone(c) ==
  /\ \E m \in at[<<"return_trans_queue", c>>] :
       /\ IsRead(m.trans)
       /\ Move(m, <<"return_trans_queue", c>>, <<"rsp_ip_peq", c>>)
  /\ UNCHANGED <<addr, topVars>>

(* The memory completes a write: no response, and no release.              *)
MemWriteDone(c) ==
  /\ \E m \in at[<<"return_trans_queue", c>>] :
       /\ ~IsRead(m.trans)
       /\ at' = [at EXCEPT ![<<"return_trans_queue", c>>] = @ \ {m}]
       /\ req' = [req EXCEPT ![m.trans].kind = "written"]
  /\ UNCHANGED <<addr, mapping, niMap, acks, issued>>

(* mem_to_crb_<c>_process takes an answer, finds and erases its source ... *)
\* Mutant: clear in place of erase.
MemToCrbClear(c) ==
  /\ Free(<<"mem_to_crb", c>>)
  /\ ~MapEmpty(mapping[c])
  /\ \E m \in at[<<"rsp_ip_peq", c>>] :
       LET t == m.trans IN
       /\ Carry(m, <<"rsp_ip_peq", c>>,
                [trans |-> t, source |-> MapLookup(mapping[c], t), chan |-> c],
                <<"mem_to_crb", c>>)
       /\ mapping' = [mapping EXCEPT ![c] = [u \in Trans |-> NoSource]]
  /\ UNCHANGED <<addr, req, niMap, acks, issued>>

MemToCrb(c) ==
  /\ Free(<<"mem_to_crb", c>>)
  /\ ~MapEmpty(mapping[c])
  /\ \E m \in at[<<"rsp_ip_peq", c>>] :
       LET t == m.trans IN
       /\ Carry(m, <<"rsp_ip_peq", c>>,
                [trans |-> t, source |-> MapLookup(mapping[c], t), chan |-> c],
                <<"mem_to_crb", c>>)
       /\ mapping' = [mapping EXCEPT ![c][t] = NoSource]
  /\ UNCHANGED <<addr, req, niMap, acks, issued>>

(* ... and writes it to the crossbar when there is room.                   *)
MemToCrbWrite(c) ==
  /\ Pass(<<"mem_to_crb", c>>, <<"mem_to_sch", c>>)
  /\ UNCHANGED topVars

(* crb_to_noc_<c>_process hands the payload to NI 16 + c (BEGIN_RESP).     *)
CrbToNoc(c) ==
  /\ \E m \in at[<<"sch_to_noc", c>>] :
       Move(m, <<"sch_to_noc", c>>, <<"ni_rsp_peq", c>>)
  /\ UNCHANGED <<addr, topVars>>

(* rsp_tx_ni_thread of NI 16 + c looks up where the answer goes, erases    *)
(* the entry and sends the answer into the NoC.                            *)
\* Mutant: the entry is not erased.
NIRespondKeep(c) ==
  /\ ~MapEmpty(niMap[c])
  /\ \E m \in at[<<"ni_rsp_peq", c>>] :
       /\ at' = [at EXCEPT ![<<"ni_rsp_peq", c>>] = @ \ {m}]
       /\ req' = [req EXCEPT ![m.trans] = Idle]
  /\ UNCHANGED <<addr, mapping, niMap, acks, issued>>

NIRespond(c) ==
  /\ ~MapEmpty(niMap[c])
  /\ \E m \in at[<<"ni_rsp_peq", c>>] :
       /\ at' = [at EXCEPT ![<<"ni_rsp_peq", c>>] = @ \ {m}]
       /\ niMap' = [niMap EXCEPT ![c][m.trans] = NoSource]
       /\ req' = [req EXCEPT ![m.trans] = Idle]
  /\ UNCHANGED <<addr, mapping, acks, issued>>

-----------------------------------------------------------------------------
TopInit ==
  /\ at = [x \in Place |-> {}]
  /\ addr = [t \in Trans |-> 0]
  /\ req = [t \in Trans |-> Idle]
  /\ mapping = [c \in Chan |-> [t \in Trans |-> NoSource]]
  /\ niMap = [c \in Chan |-> [t \in Trans |-> NoSource]]
  /\ ackWait = [c \in Chan |-> FALSE]
  /\ ackEvent = [c \in Chan |-> FALSE]
  /\ niWait = [c \in Chan |-> FALSE]
  /\ niEvent = [c \in Chan |-> FALSE]
  /\ issued = 0

Fabric(c) == FabricStep(c) /\ UNCHANGED topVars

Threads(c) ==
  \/ Fabric(c)
  \/ NocToCrb(c) \/ NIAckFires(c) \/ NocToCrbWrite(c)
  \/ CrbToMem(c) \/ MemAccept(c) \/ AckFires(c)
  \/ MemReadDone(c) \/ MemWriteDone(c)
  \/ MemToCrb(c) \/ MemToCrbWrite(c) \/ CrbToNoc(c) \/ NIRespond(c)

TopNext ==
  \/ \E t \in Trans, s \in Sources, a \in Addrs, k \in {"read", "write"} :
       NIForward(t, s, a, k)
  \/ \E c \in Chan : Threads(c)

TopSpec == TopInit /\ [][TopNext]_allVars

(* Every SC_THREAD that can run is run by the simulation kernel; when a    *)
(* request is issued is up to the traffic.                                 *)
Fairness ==
  \A c \in Chan :
    /\ WF_allVars(ForeRouterRead(c) /\ UNCHANGED topVars)
    /\ WF_allVars(ForeRouterWrite(c) /\ UNCHANGED topVars)
    /\ WF_allVars(ForeSelecterRead(c) /\ UNCHANGED topVars)
    /\ WF_allVars(ForeSelecterWrite(c) /\ UNCHANGED topVars)
    /\ WF_allVars(BackRouterRead(c) /\ UNCHANGED topVars)
    /\ WF_allVars(BackRouterWrite(c) /\ UNCHANGED topVars)
    /\ WF_allVars(BackSelecterRead(c) /\ UNCHANGED topVars)
    /\ WF_allVars(BackSelecterWrite(c) /\ UNCHANGED topVars)
    /\ WF_allVars(NIAckFires(c)) /\ WF_allVars(AckFires(c))
    /\ WF_allVars(NocToCrb(c)) /\ WF_allVars(NocToCrbWrite(c))
    /\ WF_allVars(CrbToMem(c)) /\ WF_allVars(MemAccept(c))
    /\ WF_allVars(MemReadDone(c)) /\ WF_allVars(MemWriteDone(c))
    /\ WF_allVars(MemToCrb(c)) /\ WF_allVars(MemToCrbWrite(c))
    /\ WF_allVars(CrbToNoc(c)) /\ WF_allVars(NIRespond(c))

FairSpec == TopSpec /\ Fairness

-----------------------------------------------------------------------------
TopTypeOK ==
  /\ TypeOK
  /\ req \in [Trans -> Request \cup {Idle}]
  /\ mapping \in [Chan -> [Trans -> PE \cup {NoSource}]]
  /\ niMap \in [Chan -> [Trans -> PE \cup {NoSource}]]
  /\ ackWait \in [Chan -> BOOLEAN]
  /\ ackEvent \in [Chan -> BOOLEAN]
  /\ niWait \in [Chan -> BOOLEAN]
  /\ niEvent \in [Chan -> BOOLEAN]
  /\ issued \in 0..MaxRequests

(* What the memory of a channel is asked is what the requester asked of    *)
(* it: the payload reached the memory its address names, and its rebased   *)
(* address, back on the map, is the requested one.                         *)
MemoryStages == {"mem_req_peq", "return_trans_queue", "rsp_ip_peq"}

OwnMemory ==
  \A c \in Chan : \A st \in MemoryStages : \A m \in at[<<st, c>>] :
    /\ addr[m.trans] \in 0 .. (MemSize - 1)
    /\ req[m.trans].addr = MemBegin(c) + addr[m.trans]

(* While a read is with the memory of channel c, mapping<c> has the PE     *)
(* that issued it, so the lookup never falls back on PE 0.                 *)
SourceRecorded ==
  \A c \in Chan : \A st \in MemoryStages : \A m \in at[<<st, c>>] :
    IsRead(m.trans) => mapping[c][m.trans] = req[m.trans].source

(* An answer is given to the NI that forwarded the request, and that NI    *)
(* still knows who asked.                                                  *)
AnswerAtItsNI ==
  \A c \in Chan : \A m \in at[<<"ni_rsp_peq", c>>] :
    niMap[c][m.trans] = req[m.trans].source

(* No entry of either map outlives its request: a pointer that is reused   *)
(* is never found with the source of an earlier request (insert would      *)
(* keep the old one).                                                      *)
NoStaleSource ==
  \A t \in Trans : req[t] = Idle =>
    \A c \in Chan : mapping[c][t] = NoSource /\ niMap[c][t] = NoSource

(* Every request is completed: a read answered, a write carried out.       *)
Completed(t) == req[t].kind \in {"idle", "written"}

EveryRequestCompletes == \A t \in Trans : ~Completed(t) ~> Completed(t)
=============================================================================
