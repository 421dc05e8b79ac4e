----------------------------- MODULE NtsTiming -----------------------------
(***************************************************************************)
(* The timing simulation of the network: when each flit of each packet is  *)
(* received at each port of its path.  It is a function of the packets to  *)
(* compute and of what earlier packets left at the ports.                  *)
(*                                                                         *)
(* The build runs all PEs and switches at one clock, without the optional  *)
(* pipeline stages and with FIFO arbitration (platform/PE_freq, SW_freq,   *)
(* switch_config).                                                         *)
(*                                                                         *)
(* What stays at a port: the packets registered there with their place on  *)
(* the path (passed), the times of the last flits, of the latest packet    *)
(* (last) and of all of them (total), and the times the port was released  *)
(* (released).  A port of a switch's output keeps only the last of these.  *)
(***************************************************************************)
EXTENDS NtsMesh, FiniteSets, FiniteSetsExt

CONSTANT Clk     \* the cycle, in units of which half a cycle is a whole number

ASSUME ClkAssumption == Clk \in Nat /\ Clk > 0 /\ Clk % 2 = 0

FIFO_size == 2
Half == Clk \div 2

RxPath == [pair \in PE \X PE |-> SearchRxPath(pair[1], pair[2])]
TxPath == [pair \in PE \X PE |-> SearchTxPath(pair[1], pair[2])]

\* The paths of a packet, TrPath_rx and TrPath_tx.
Rx(p) == p.rx
Tx(p) == p.tx
Hops(p) == DOMAIN Rx(p)
Inner(p) == 2 .. Len(Rx(p)) - 1      \* the places that are switches

NoFlits == [id |-> 0, times |-> <<0, 0, 0>>]
NewPort == [passed |-> <<>>, last |-> NoFlits, total |-> <<>>, released |-> <<>>]

ReleaseTime(released) == IF released = <<>> THEN 0 ELSE Last(released).time

-----------------------------------------------------------------------------
\* Clocks and the FIFOs between them

\* Mutant: without the cycle of the synchronisation.
ThroughAtOnce(t) == ((t + Half) \div Clk) * Clk

Through_BiSyncFIFO(t) == ((t + Half) \div Clk + 1) * Clk

\* When a flit received at t has made room in the FIFO before it.
ReadFromFIFO(t) ==
  LET sync == (t \div Clk + 1) * Clk
  IN  IF sync - t <= Half THEN sync + Half ELSE t

\* The first cycle of those that start at t after the time bound.
After(t, bound) == IF t > bound THEN t ELSE t + ((bound - t) \div Clk + 1) * Clk

-----------------------------------------------------------------------------
\* Headers.  In a pass every packet claims the ports of its path one by one, as
\* far as it gets.  What a pass writes at a port: whether it is taken (busy), by
\* whom (owner) and when the header is received (header), when it arrived
\* (arrival), the earliest that came (minArrival) and where it goes on (out).
\* The constructor of a port leaves minArrival as it finds it; every pass
\* resets it.

ClaimOf(min) == [busy |-> FALSE, owner |-> 0, header |-> 0, arrival |-> 0,
                 minArrival |-> min, out |-> <<>>]

\* Of the claims in a switch on one output the earliest wins, and among those
\* the last direction.
ArbitrateTxPort(claims, out) ==
  LET wants == {x \in DOMAIN claims :
                  x[1] = "rx" /\ x[2] = out[2] /\ claims[x].busy /\ claims[x].out = out}
      first == {x \in wants : \A y \in wants : claims[x].arrival <= claims[y].arrival}
  IN  claims[CHOOSE x \in first : \A y \in first : y[3] <= x[3]].owner

\* The header at the first place, at a switch, and at the receiver.  queued is
\* the time it gets the port after those before it.
Queued(port, temp) ==
  LET free == ReleaseTime(port.released) IN IF free >= temp THEN free + Clk ELSE temp

\* Behind the latest packet on the output, if that leaves later: once the
\* first of its last flits is out of the next FIFO.
BehindOutput(header, free, nextLast) ==
  IF free >= header THEN After(free + Clk, ReadFromFIFO(nextLast.times[1])) ELSE header

Refused(claim, temp) ==
  \/ claim.busy /\ claim.header < temp
  \/ temp > claim.minArrival /\ claim.minArrival # 0

\* One step of SimulateHeaderTimetoRx: c is a record of claims, going (whether
\* the header has got so far) and jammed, the packets held up at an output.
ClaimPlace(c, ports, o, p, i) ==
  LET x == Rx(p)[i]
      out == Tx(p)[i]
      temp == IF i = 1 THEN p.send + Clk
              ELSE Through_BiSyncFIFO(c.claims[Rx(p)[i - 1]].header)
      came == IF i = 1 THEN c.claims[x] ELSE [c.claims[x] EXCEPT !.arrival = temp]
      won == [came EXCEPT !.busy = TRUE, !.minArrival = temp]
      free == ReleaseTime(ports[x].released)
      queued == Queued(ports[x], temp)
      header == IF i \in Inner(p)
                THEN BehindOutput(queued, ReleaseTime(ports[out].released),
                                  ports[Rx(p)[i + 1]].last)
                ELSE queued
      arrival == IF i \in Inner(p) /\ free >= temp THEN free ELSE temp
      owned == [c.claims EXCEPT ![x] = [won EXCEPT !.header = header,
                                                   !.arrival = arrival, !.owner = o]]
  IN  IF ~c.going THEN c
      ELSE IF Refused(came, temp)
      THEN [c EXCEPT !.claims[x] = came, !.going = FALSE]
      ELSE IF i = 1 /\ came.arrival # 0 /\ temp >= came.arrival
      THEN [c EXCEPT !.claims[x] = won, !.going = FALSE]
      ELSE [claims |-> owned,
            going |-> i \in Inner(p) => \E all \in {owned} : ArbitrateTxPort(all, out) = o,
            jammed |-> IF header # queued THEN c.jammed \union {o} ELSE c.jammed]

SimulateHeaderTimetoRx(c, ports, o, p) ==
  LET outputs == [x \in DOMAIN c.claims |->
                    IF \E i \in Inner(p) : Rx(p)[i] = x
                    THEN [c.claims[x] EXCEPT
                            !.out = Tx(p)[CHOOSE i \in Inner(p) : Rx(p)[i] = x]]
                    ELSE c.claims[x]]
  IN  Fold(LAMBDA d, i : ClaimPlace(d, ports, o, p, i),
               [claims |-> outputs, going |-> TRUE, jammed |-> c.jammed \ {o}],
               [i \in Hops(p) |-> i])

CheckWormHolePath(claims, o, p) == \A i \in Hops(p) : claims[Rx(p)[i]].owner = o

-----------------------------------------------------------------------------
\* Flits.  flits[i] are the times at place i: of the last two of the packet
\* before, which fill the FIFO, of the header and of those that follow.

Header == FIFO_size + 1
Bound(flits, i, k) == IF k <= Header THEN 0 ELSE flits[i][k] - flits[i][k - 1]

\* A header that got its port when it was released, from a place nobody had
\* used: while it waited, the flits behind it stood still.
Stops(p, ports, header) ==
  {i \in 3 .. Len(header) :
     /\ ReleaseTime(ports[Rx(p)[i]].released) + Clk = header[i]
     /\ ports[Rx(p)[i - 1]].last.times[Header] = 0}

StandStill(stops, header, t) ==
  LET hit == {i \in stops : header[i - 2] < t /\ t < header[i - 1]}
  IN  IF hit = {} THEN t ELSE header[Min(hit) - 1]

\* CheckNextStage: the flit before the one just sent from place i was received
\* at the next places before it can have been there, and is sent again.
ResendFlit(flits, i, f) ==
  LET prev == flits[f - 1]
      written == Last(prev) - Half
      kept == Front(flits[f])
      cycle == After(Last(kept) + Clk,
                     IF f = i + 1 THEN written ELSE prev[Len(kept) + 1] + Half)
      ahead == flits[f + 1][Len(kept) - FIFO_size]
      sync == (ahead \div Clk + 1) * Clk
      read == IF sync - ahead <= Half THEN sync + Half ELSE flits[i + 1][Len(kept) - FIFO_size]
  IN  [flits EXCEPT ![f] =
         Append(kept, IF f = Len(flits) THEN cycle ELSE After(cycle, read))]

CheckNextStage(flits, i) ==
  Fold(LAMBDA r, f :
             IF r.done \/ Last(r.flits[f - 1]) - Half < r.flits[f][Len(r.flits[f - 1]) - 1]
             THEN [r EXCEPT !.done = TRUE]
             ELSE [r EXCEPT !.flits = ResendFlit(@, i, f)],
           [flits |-> flits, done |-> Len(flits[i]) - 1 <= Header],
           [k \in 1 .. Len(flits) - i |-> i + k]).flits

\* Place i sends its next flit: one cycle after the one before, after the place
\* before it has written it, and once the FIFO to the next place has room.
SendFlit(flits, stops, header, i) ==
  LET n == Len(flits[i])
      start == StandStill(stops, header, Last(flits[i]) + Clk)
      written == IF i = 1 THEN start ELSE After(start, flits[i - 1][n + 1] + Half)
      time == IF i = Len(flits) THEN written
              ELSE After(written, ReadFromFIFO(flits[i + 1][n - FIFO_size]))
      sent == [flits EXCEPT ![i] = Append(@, time)]
  IN  IF /\ i < Len(flits)
         /\ Bound(sent, i, n + 1) > Bound(sent, i, n)
         /\ i > 1 => Bound(sent, i, n + 1) > Bound(sent, i - 1, n + 1)
      THEN CheckNextStage(sent, i)
      ELSE sent

\* One flit after the other, at one place after the other.
SendRound(flits, stops, header) ==
  Fold(LAMBDA fl, i : SendFlit(fl, stops, header, i), flits, [i \in DOMAIN header |-> i])

SimulateFIFOSizeTime(p, ports, header) ==
  Fold(LAMBDA flits, k : SendRound(flits, Stops(p, ports, header), header),
       Whole([i \in DOMAIN header |-> Tail(ports[Rx(p)[i]].last.times) \o <<header[i]>>]),
       [k \in 1 .. p.flits - 1 |-> k])

\* Without congestion the flits follow the header in every cycle.
SimulateTailTimetoRxWithoutCongestion(p, header) ==
  Whole([i \in DOMAIN header |-> Whole([k \in 1 .. p.flits |-> header[i] + (k - 1) * Clk])])

\* Mutant: the time of the release is not kept.
LeftUnreleased(ports, p, flits) ==
  LET lasts(i) == [id |-> p.id,
                   times |-> SubSeq(flits[i], Len(flits[i]) - FIFO_size, Len(flits[i]))]
      At(x) == {i \in Hops(p) : Rx(p)[i] = x}
  IN  [x \in DOMAIN ports |->
         IF At(x) = {} THEN ports[x]
         ELSE LET i == CHOOSE i \in At(x) : TRUE
              IN  [ports[x] EXCEPT !.last = lasts(i), !.total = Append(@, lasts(i))]]

\* UpdateTxRxReleaseTime and release_port: what a packet that has all its ports
\* leaves at them.
Left(ports, p, flits) ==
  LET tail(i) == [id |-> p.id, time |-> Last(flits[i])]
      lasts(i) == [id |-> p.id,
                   times |-> SubSeq(flits[i], Len(flits[i]) - FIFO_size, Len(flits[i]))]
      At(path, x) == {i \in DOMAIN path : path[i] = x}
  IN  [x \in DOMAIN ports |->
         IF At(Rx(p), x) # {}
         THEN LET i == CHOOSE i \in At(Rx(p), x) : TRUE
              IN  [ports[x] EXCEPT !.released = Append(@, tail(i)), !.last = lasts(i),
                                   !.total = Append(@, lasts(i))]
         ELSE IF At(Tx(p), x) # {}
         THEN [ports[x] EXCEPT !.released =
                 Append(@, tail(CHOOSE i \in At(Tx(p), x) : TRUE))]
         ELSE ports[x]]

Transferred(p, header, flits) ==
  [p EXCEPT !.header = header, !.tail = Whole([i \in DOMAIN header |-> Last(flits[i])]),
            !.finished = Last(Last(flits)), !.reCompute = FALSE]
=============================================================================
