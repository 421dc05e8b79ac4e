----------------------------- MODULE NtsNetwork -----------------------------
(***************************************************************************)
(* The network simulator (noc/NTS/simulator.cpp).  A packet handed over    *)
(* waits for the next window; at its end the timing of the new packets is  *)
(* computed, and again that of packets still on their way that they may    *)
(* meet.  The delivery of each is scheduled for the time computed, and     *)
(* moved when a later window changes it.                                   *)
(*                                                                         *)
(* A thread runs until it waits, so while simulator_main computes or       *)
(* simulator_send delivers nothing else happens.  What they do in that     *)
(* time is split into the steps of their loops, and the calls of the       *)
(* recursive search are kept on a stack.                                   *)
(***************************************************************************)
EXTENDS NtsSearch

CONSTANTS Flows,         \* packets to send: src, dst, len (bytes), at (the times it may be sent)
          MaxPackets,    \* how many are sent
          Unset          \* the sets of ports that may start with what was in memory

ASSUME NtsNetworkAssumption ==
  /\ \A f \in Flows : /\ f.src \in PE /\ f.dst \in PE /\ f.len \in Nat /\ f.len > 0 /\ f.len % 4 = 0
                       /\ f.at \subseteq Nat
  /\ MaxPackets \in Nat

VARIABLES now,
          payload,           \* per transaction: where from and to, send_time, finish_time, pkt_ptr
          pkt_peq, complete_peq, recompute_peq,   \* entries: trans, at
          arrived,           \* per transaction: when it was delivered
          main,              \* simulator_main: state, the end of its window (wake), its place in a loop
          sender,            \* simulator_send: whether it delivers, and its recompute_list
          pkt,               \* the packet objects, Traffic_Packets
          Deleted_Packets,   \* the objects to be used again
          Finish_Packets,    \* objects given up
          Unfinished_Packets, newPacket_num,      \* the objects to compute, the new ones first
          stack,             \* the calls of the search that have not returned, the last first
          claims,            \* what the pass has written at the ports
          ports,
          unset              \* the ports whose minArrival holds what was in memory

queues == <<pkt_peq, complete_peq, recompute_peq>>
pool == <<Deleted_Packets, Finish_Packets>>
round == <<Unfinished_Packets, newPacket_num, stack, claims>>
vars == <<now, payload, queues, arrived, main, sender, pkt, pool, round, ports, unset>>

Transactions == DOMAIN payload
Window == 4 * Clk
Idle == [state |-> "idle", wake |-> 0, place |-> 0]
At(state, place) == [state |-> state, wake |-> 0, place |-> place]
Waiting == [sends |-> FALSE, recompute_list |-> <<>>]
NoClaims == [claims |-> <<>>, going |-> TRUE, jammed |-> {}]

\* A thread is running: it is in one of its loops.
Computing == main.state \in {"accept", "search", "claim", "transfer"}
Running == Computing \/ sender.sends

PortsInUse ==
  UNION {Range(RxPath[<<f.src, f.dst>>]) \union
         {TxPath[<<f.src, f.dst>>][i] : i \in 2 .. Len(TxPath[<<f.src, f.dst>>]) - 1} : f \in Flows}

\* peq_with_get: entries in the order of their times.
UpTo(q, t) == Filtered(q, {e \in Range(q) : e.at <= t})
Behind(q, t) == Filtered(q, {e \in Range(q) : e.at > t})
NotifyAt(q, t, at) == UpTo(q, at) \o <<[trans |-> t, at |-> at]>> \o Behind(q, at)
IsDue(q) == q # <<>> /\ Head(q).at <= now

-----------------------------------------------------------------------------
Init ==
  /\ now = 0
  /\ payload = <<>> /\ arrived = <<>>
  /\ pkt_peq = <<>> /\ complete_peq = <<>> /\ recompute_peq = <<>>
  /\ main = Idle /\ sender = Waiting
  /\ pkt = <<>> /\ Deleted_Packets = <<>> /\ Finish_Packets = <<>>
  /\ Unfinished_Packets = <<>> /\ newPacket_num = 0 /\ stack = <<>> /\ claims = NoClaims
  /\ ports = [x \in PortsInUse |-> NewPort]
  /\ unset \in Unset

\* nb_transport_fw: a NI hands over a packet, at most one in a cycle.  (The NIs
\* always call with the same delay; send is the time it has passed.)
Send(f) ==
  /\ ~Running
  /\ Len(payload) < MaxPackets /\ now \in f.at
  /\ \A t \in Transactions : payload[t].src = f.src => payload[t].send < now
  /\ payload' = Append(payload, [src |-> f.src, dst |-> f.dst, size |-> f.len,
                                 send |-> now, finish |-> 0, pkt |-> 0])
  /\ arrived' = Append(arrived, <<>>)
  /\ pkt_peq' = NotifyAt(pkt_peq, Len(payload) + 1, now)
  /\ UNCHANGED <<now, complete_peq, recompute_peq, main, sender, pkt, pool, round, ports, unset>>

-----------------------------------------------------------------------------
\* simulator_main wakes up, and waits for the packets of the next cycles.
OpenWindow ==
  /\ ~Running /\ main = Idle /\ IsDue(pkt_peq)
  /\ main' = [state |-> "window", wake |-> now + Window, place |-> 0]
  /\ UNCHANGED <<now, payload, queues, arrived, sender, pkt, pool, round, ports, unset>>

\* DeletePortFlitInf
Forget(ps, o, p) ==
  [x \in DOMAIN ps |->
     IF x \in Range(Rx(p))
     THEN [ps[x] EXCEPT !.passed = Filtered(@, {e \in Range(@) : e.pkt # o}),
                        !.total = Filtered(@, {g \in Range(@) : g.id # p.id})]
     ELSE ps[x]]

\* The window ends, after what is due at that time has been delivered.
CloseWindow ==
  /\ ~Running /\ main.state = "window" /\ main.wake = now /\ ~IsDue(complete_peq)
  /\ ports' = Fold(LAMBDA ps, o : Forget(ps, o, pkt[o]), ports, Finish_Packets)
  /\ Deleted_Packets' = Deleted_Packets \o Finish_Packets
  /\ Finish_Packets' = <<>>
  /\ main' = At("accept", 0)
  /\ UNCHANGED <<now, payload, queues, arrived, sender, pkt, round, unset>>

\* A new packet; SetPacket, when its object is used again.
NewPacket(t) ==
  [id |-> t, trans |-> t,
   rx |-> RxPath[<<payload[t].src, payload[t].dst>>],
   tx |-> TxPath[<<payload[t].src, payload[t].dst>>],
   flits |-> (payload[t].size + 8) \div 4, send |-> payload[t].send,
   finished |-> 0, reCompute |-> TRUE, header |-> <<>>, tail |-> <<>>]

\* Mutant: an object that is used again stays in the pool.
LeftFree(free) == free

\* The objects left once one is used again.
StillFree(free) == IF free = <<>> THEN free ELSE Tail(free)

Accept ==
  /\ main.state = "accept" /\ IsDue(pkt_peq)
  /\ LET t == Head(pkt_peq).trans
         o == IF Deleted_Packets = <<>> THEN Len(pkt) + 1 ELSE Head(Deleted_Packets)
     IN  /\ \E p \in {Guessed(new) : new \in {NewPacket(t)}} :
              /\ pkt' = IF Deleted_Packets = <<>> THEN Append(pkt, p) ELSE [pkt EXCEPT ![o] = p]
              /\ ports' = Registered(ports, o, p)
         /\ payload' = [payload EXCEPT ![t].pkt = o]
         /\ Unfinished_Packets' = Append(Unfinished_Packets, o)
  /\ Deleted_Packets' = StillFree(Deleted_Packets)
  /\ pkt_peq' = Tail(pkt_peq)
  /\ newPacket_num' = newPacket_num + 1
  /\ UNCHANGED <<now, complete_peq, recompute_peq, arrived, main, sender, Finish_Packets,
                 stack, claims, unset>>

-----------------------------------------------------------------------------
\* The search.  A call is one of DeleteLaterPkt(o) ("later"), SearchCongFlit(o)
\* ("search"), the rest of it from a place on ("meet"), the lines that take a
\* packet in when it is not yet to be computed ("involve"), and those that make
\* the loser wait ("delay").

Call(what, o) == [call |-> what, pkt |-> o]
Meet(o, from) == [call |-> "meet", pkt |-> o, from |-> from]
Delay(o, i, by) == [call |-> "delay", pkt |-> o, at |-> i, by |-> by]

Calls(what) == main.state = "search" /\ stack # <<>> /\ Head(stack).call = what

StartSearch ==
  /\ main.state = "accept" /\ ~IsDue(pkt_peq)
  /\ main' = At("search", 0)
  /\ stack' = [i \in DOMAIN Unfinished_Packets |-> Call("search", Unfinished_Packets[i])]
  /\ UNCHANGED <<now, payload, queues, arrived, sender, pkt, pool,
                 Unfinished_Packets, newPacket_num, claims, ports, unset>>

\* o is to be computed (again), and all that come after it.
Recompute(o) ==
  /\ pkt' = [pkt EXCEPT ![o].reCompute = TRUE]
  /\ Unfinished_Packets' = Append(Unfinished_Packets, o)

SearchUnchanged == UNCHANGED <<now, payload, queues, arrived, main, sender, pool,
                               newPacket_num, claims, ports, unset>>

Return ==
  /\ stack' = Tail(stack)
  /\ UNCHANGED <<pkt, Unfinished_Packets>>

DeleteLaterPkt ==
  /\ Calls("later")
  /\ LET later == FirstOf(LaterThan(pkt, ports, Head(stack).pkt))
     IN  \/ /\ later = {}
            /\ Return
         \/ \E x \in later :
              LET other == Entry(ports, pkt[Head(stack).pkt], x).pkt
              IN  /\ Recompute(other)
                  /\ stack' = <<Call("later", other)>> \o stack
  /\ SearchUnchanged

Involve ==
  /\ Calls("involve")
  /\ LET o == Head(stack).pkt
     IN  IF pkt[o].reCompute THEN Return
         ELSE /\ Recompute(o)
              /\ stack' = <<Call("later", o)>> \o Tail(stack)
  /\ SearchUnchanged

SearchCongFlit ==
  /\ Calls("search")
  /\ LET o == Head(stack).pkt
     IN  stack' = <<Call("later", o), Meet(o, <<2, 1>>)>> \o Tail(stack)
  /\ UNCHANGED <<pkt, Unfinished_Packets>> /\ SearchUnchanged

\* When the other was there first the loop starts again, otherwise the other is
\* searched for and the loop goes on.
SearchOn ==
  /\ Calls("meet")
  /\ LET o == Head(stack).pkt
         p == pkt[o]
         meets == FirstOf(MeetsFrom(pkt, ports, o, Head(stack).from))
     IN  \/ /\ meets = {}
            /\ Return
         \/ \E x \in meets :
              LET i == x[1]
                  c == Entry(ports, p, x).pkt
                  b == Entry(ports, p, x).at
                  both == <<Call("involve", c), Call("involve", o)>>
              IN  /\ stack' =
                       IF Overlaps(pkt[c], b, p, i)
                       THEN both \o <<Delay(o, i, pkt[c].tail[b] - p.header[i - 1]),
                                      Meet(o, <<2, 1>>)>> \o Tail(stack)
                       ELSE both \o <<Delay(c, b, p.tail[i] - pkt[c].header[b - 1]),
                                      Call("search", c), Meet(o, <<i, x[2] + 1>>)>> \o Tail(stack)
                  /\ UNCHANGED <<pkt, Unfinished_Packets>>
  /\ SearchUnchanged

DelayLoser ==
  /\ Calls("delay")
  /\ pkt' = [pkt EXCEPT ![Head(stack).pkt] = Delayed(@, Head(stack).at, Head(stack).by)]
  /\ stack' = Tail(stack)
  /\ UNCHANGED Unfinished_Packets /\ SearchUnchanged

-----------------------------------------------------------------------------
\* The ports before the first claim of a pass.  The first pass of all meets what
\* was in memory.
Unclaimed(min) ==
  [claims |-> [x \in {x \in PortsInUse : x[1] # "tx"} |-> ClaimOf(IF x \in min THEN 1 ELSE 0)],
   going |-> TRUE, jammed |-> {}]

\* The packets are sorted by the time they were sent; std::sort keeps the order
\* of equal ones, as long as they are at most sixteen.
InOrder(perm) ==
  \A i, j \in DOMAIN perm :
    i < j => LET a == pkt[Unfinished_Packets[perm[i]]].send
                 b == pkt[Unfinished_Packets[perm[j]]].send
             IN  a < b \/ (a = b /\ perm[i] < perm[j])

\* The ids a port has in re_id: of the packets that go through it and are
\* computed again.
ReIds(x) ==
  {pkt[o].id : o \in {o \in {Unfinished_Packets[i] :
                               i \in newPacket_num + 1 .. Len(Unfinished_Packets)} :
                        x \in Range(Rx(pkt[o])) \union Range(Tx(pkt[o]))}}

\* The search is over: CorrectTxRxPort.
StartPasses ==
  /\ main.state = "search" /\ stack = <<>>
  /\ \E perm \in Bijection(DOMAIN Unfinished_Packets, DOMAIN Unfinished_Packets) :
       /\ InOrder(perm)
       /\ Unfinished_Packets' = [i \in DOMAIN Unfinished_Packets |-> Unfinished_Packets[perm[i]]]
  /\ ports' = [x \in DOMAIN ports |->
                 IF ReIds(x) = {} THEN ports[x] ELSE CorrectPort(ports[x], ReIds(x))]
  /\ newPacket_num' = 0
  /\ claims' = Unclaimed(unset)
  /\ main' = At("claim", 1)
  /\ UNCHANGED <<now, payload, queues, arrived, sender, pkt, pool, stack, unset>>

-----------------------------------------------------------------------------
\* A pass: all packets claim their ports; one that has all of its path is
\* transferred, and the packet behind it in the list has to wait for the next
\* pass (the loop goes on past the place of the erased one).

Claim ==
  /\ main.state = "claim" /\ main.place \in DOMAIN Unfinished_Packets
  /\ LET o == Unfinished_Packets[main.place]
     IN  claims' = SimulateHeaderTimetoRx(claims, ports, o, pkt[o])
  /\ main' = IF main.place < Len(Unfinished_Packets) THEN At("claim", main.place + 1)
             ELSE At("transfer", 1)
  /\ UNCHANGED <<now, payload, queues, arrived, sender, pkt, pool,
                 Unfinished_Packets, newPacket_num, stack, ports, unset>>

\* Mutant: only the first time.
ScheduleOnce(p) ==
  LET old == payload[p.trans].finish
  IN  /\ payload' = [payload EXCEPT ![p.trans].finish = p.finished]
      /\ complete_peq' = IF old = 0 THEN NotifyAt(complete_peq, p.trans, p.finished)
                         ELSE complete_peq
      /\ UNCHANGED <<recompute_peq, Finish_Packets>>

\* The delivery of a packet is scheduled, or cancelled, or scheduled anew.
Schedule(p) ==
  LET old == payload[p.trans].finish
      late == p.finished < now
      moved == ~late /\ old # p.finished
  IN  /\ Finish_Packets' = IF late THEN Append(Finish_Packets, payload[p.trans].pkt)
                           ELSE Finish_Packets
      /\ recompute_peq' = IF late \/ (moved /\ old > p.finished)
                          THEN NotifyAt(recompute_peq, p.trans, old) ELSE recompute_peq
      /\ complete_peq' = IF moved THEN NotifyAt(complete_peq, p.trans, p.finished)
                         ELSE complete_peq
      /\ payload' = IF moved THEN [payload EXCEPT ![p.trans].finish = p.finished] ELSE payload

HeadersOf(p) == Whole([i \in Hops(p) |-> claims.claims[Rx(p)[i]].header])

FlitsOf(o, p, header) ==
  IF o \in claims.jammed THEN SimulateFIFOSizeTime(p, ports, header)
  ELSE SimulateTailTimetoRxWithoutCongestion(p, header)

Transfer ==
  /\ main.state = "transfer" /\ main.place \in DOMAIN Unfinished_Packets
  /\ LET o == Unfinished_Packets[main.place]
         p == pkt[o]
     IN  /\ CheckWormHolePath(claims.claims, o, p)
         /\ \E header \in {HeadersOf(p)} : \E flits \in {FlitsOf(o, p, header)} :
              /\ ports' = Left(ports, p, flits)
              /\ pkt' = [pkt EXCEPT ![o] = Transferred(p, header, flits)]
              /\ Schedule(Transferred(p, header, flits))
  /\ Unfinished_Packets' = RemoveAt(Unfinished_Packets, main.place)
  /\ main' = At("transfer", main.place + 1)
  /\ UNCHANGED <<now, pkt_peq, arrived, sender, Deleted_Packets, newPacket_num, stack,
                 claims, unset>>

WaitForPath ==
  /\ main.state = "transfer" /\ main.place \in DOMAIN Unfinished_Packets
  /\ LET o == Unfinished_Packets[main.place] IN ~CheckWormHolePath(claims.claims, o, pkt[o])
  /\ main' = At("transfer", main.place + 1)
  /\ UNCHANGED <<now, payload, queues, arrived, sender, pkt, pool, round, ports, unset>>

\* The end of a pass, ResetTxRxPort; the round ends with the last packet.
EndPass ==
  /\ main.state = "transfer" /\ main.place \notin DOMAIN Unfinished_Packets
  /\ unset' = {}
  /\ main' = IF Unfinished_Packets = <<>> THEN Idle ELSE At("claim", 1)
  /\ claims' = IF Unfinished_Packets = <<>> THEN NoClaims ELSE Unclaimed({})
  /\ UNCHANGED <<now, payload, queues, arrived, sender, pkt, pool,
                 Unfinished_Packets, newPacket_num, stack, ports>>

-----------------------------------------------------------------------------
\* simulator_send

SenderWakes ==
  /\ ~Running /\ IsDue(complete_peq)
  /\ sender' = [sends |-> TRUE, recompute_list |-> [i \in DOMAIN UpTo(recompute_peq, now) |->
                                                      UpTo(recompute_peq, now)[i].trans]]
  /\ recompute_peq' = Behind(recompute_peq, now)
  /\ UNCHANGED <<now, payload, pkt_peq, complete_peq, arrived, main, pkt, pool, round, ports, unset>>

Cancelled(t) == \E i \in DOMAIN sender.recompute_list : sender.recompute_list[i] = t
FirstAt(s, t) == CHOOSE i \in DOMAIN s : s[i] = t /\ \A j \in 1 .. i - 1 : s[j] # t

\* The packet has left the network, and its object is free.
HandOver(t) ==
  LET o == payload[t].pkt
  IN  /\ arrived' = [arrived EXCEPT ![t] = Append(@, now)]
      /\ ports' = Forget(ports, o, pkt[o])
      /\ Deleted_Packets' = Append(Deleted_Packets, o)

\* Mutant: a delivery is made even if it has been moved.
DeliverMoved(t) ==
  IF Cancelled(t)
  THEN /\ sender' = [sender EXCEPT !.recompute_list = RemoveAt(@, FirstAt(@, t))]
       /\ UNCHANGED <<arrived, ports, Deleted_Packets>>
  ELSE HandOver(t) /\ UNCHANGED sender

\* What is due is delivered, unless it was cancelled or moved.
Deliver(t) ==
  IF Cancelled(t)
  THEN /\ sender' = [sender EXCEPT !.recompute_list = RemoveAt(@, FirstAt(@, t))]
       /\ UNCHANGED <<arrived, ports, Deleted_Packets>>
  ELSE IF payload[t].finish = now THEN HandOver(t) /\ UNCHANGED sender
  ELSE UNCHANGED <<sender, arrived, ports, Deleted_Packets>>

SimulatorSend ==
  /\ sender.sends /\ IsDue(complete_peq)
  /\ Deliver(Head(complete_peq).trans)
  /\ complete_peq' = Tail(complete_peq)
  /\ UNCHANGED <<now, payload, pkt_peq, recompute_peq, main, pkt, Finish_Packets, round, unset>>

SenderWaits ==
  /\ sender.sends /\ ~IsDue(complete_peq)
  /\ sender' = Waiting
  /\ UNCHANGED <<now, payload, queues, arrived, main, pkt, pool, round, ports, unset>>

-----------------------------------------------------------------------------
\* Time passes to the next cycle, once nothing is left to do now.
Quiet ==
  /\ ~Running /\ ~IsDue(complete_peq)
  /\ main = Idle => ~IsDue(pkt_peq)
  /\ main.state = "window" => main.wake > now

Pending == pkt_peq # <<>> \/ complete_peq # <<>> \/ main.state = "window"

Tick ==
  /\ Quiet
  /\ Pending \/ \E f \in Flows : \E t \in f.at : now < t
  /\ now' = now + Clk
  /\ UNCHANGED <<payload, queues, arrived, main, sender, pkt, pool, round, ports, unset>>

Search == DeleteLaterPkt \/ Involve \/ SearchCongFlit \/ SearchOn \/ DelayLoser
Passes == Claim \/ Transfer \/ WaitForPath \/ EndPass
Simulate == OpenWindow \/ CloseWindow \/ Accept \/ StartSearch \/ Search \/ StartPasses \/ Passes
Deliveries == SenderWakes \/ SimulatorSend \/ SenderWaits

Next == (\E f \in Flows : Send(f)) \/ Simulate \/ Deliveries \/ Tick

Spec == Init /\ [][Next]_vars

\* The simulation's scheduler runs a thread that can run, and time passes when
\* none can.
FairSpec == Spec /\ WF_vars(Simulate) /\ WF_vars(Deliveries) /\ WF_vars(Tick)

-----------------------------------------------------------------------------
\* The packet objects in use: of a packet that has not arrived.
Live == {o \in DOMAIN pkt : payload[pkt[o].trans].pkt = o /\ arrived[pkt[o].trans] = <<>>}

\* A packet is delivered at most once, at the time last computed for it, however
\* often its delivery was moved (simulator.cpp:506-531, 111-140), and is not
\* computed again after it has left the network.
DeliveredOnce == \A t \in Transactions : arrived[t] \in {<<>>, <<payload[t].finish>>}

\* No two packets on their way are at the same input of a switch or of a PE at
\* the same time, although they may have been computed in different windows:
\* what a packet computed again had left at a port is gone before it is computed
\* (simulator.cpp:456, port.h:138), and the next one waits for all that is left.
OneAtAPort ==
  \A a, b \in Live \ Range(Unfinished_Packets) : a # b =>
    \A i \in Hops(pkt[a]), j \in Hops(pkt[b]) :
      Rx(pkt[a])[i] = Rx(pkt[b])[j] =>
        \/ pkt[a].tail[i] < pkt[b].header[j]
        \/ pkt[b].tail[j] < pkt[a].header[i]

\* No packet is delivered sooner than it would be in an empty network: a cycle
\* for every port of its path and one for every flit behind the header.
NoFasterThanAlone ==
  \A t \in Transactions : arrived[t] # <<>> =>
    LET p == payload[t]
        hops == Len(RxPath[<<p.src, p.dst>>])
    IN  Head(arrived[t]) >= p.send + Clk * (hops + (p.size + 8) \div 4 - 1)

\* The pool of packet objects: one that is free is free once and not in use, so
\* no two packets ever share an object, and none is lost
\* (simulator.cpp:384-393, 156).
PoolSound ==
  /\ IsInjective(Deleted_Packets)
  /\ Live \intersect Range(Deleted_Packets) = {}
  /\ DOMAIN pkt = Live \union Range(Deleted_Packets) \union Range(Finish_Packets)

\* Computing again moves an arrival only to a later time, never to an earlier
\* one and never to one that has passed, which would lose the packet
\* (simulator.cpp:506-531).
MovedLater ==
  /\ \A t \in Transactions : payload[t].finish <= payload'[t].finish
  /\ Finish_Packets' = <<>>

NeverEarlier == [][MovedLater]_vars

\* Every packet that is handed over arrives, as long as the simulation of each
\* window ends (simulator.cpp:473; NeverHung is about that).
EveryPacketArrives ==
  ([]<>~Computing) => []<>(\A t \in Transactions : arrived[t] # <<>>)

\* simulator.cpp:561 says of the loop over the passes that it is "simulation one
\* time": it ends, with every packet of the window transferred.  The code does
\* not keep this.
NeverHung == []<>~Computing
=============================================================================
