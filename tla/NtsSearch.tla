----------------------------- MODULE NtsSearch -----------------------------
(***************************************************************************)
(* Which packets the arrival of new ones makes the network simulator       *)
(* compute again: those that may meet a new packet at a port, those that   *)
(* these may meet, and all that come later to their ports.  Here is what   *)
(* a step of the search looks for and what it changes; the steps are       *)
(* actions of NtsNetwork.                                                  *)
(***************************************************************************)
EXTENDS NtsTiming

\* The elements of s that are in keep, in their order.
Filtered(s, keep) == Fold(LAMBDA r, e : IF e \in keep THEN Append(r, e) ELSE r, <<>>, s)

-----------------------------------------------------------------------------
\* The first guess of a new packet, as if it were alone.

HeaderGuess(p) ==
  LET header[i \in Hops(p)] ==
        IF i = 1 THEN p.send + Clk ELSE Through_BiSyncFIFO(header[i - 1])
  IN  Whole([i \in Hops(p) |-> header[i]])

Guessed(p) ==
  LET header == HeaderGuess(p)
  IN  [p EXCEPT !.header = header,
                !.tail = Whole([i \in Hops(p) |-> header[i] + p.flits * Clk])]

\* ... with which it is registered at the ports from its first switch on.
Registered(ports, o, p) ==
  [x \in DOMAIN ports |->
     IF \E i \in Hops(p) : i > 1 /\ Rx(p)[i] = x
     THEN [ports[x] EXCEPT !.passed =
             Append(@, [pkt |-> o, at |-> CHOOSE i \in Hops(p) : i > 1 /\ Rx(p)[i] = x])]
     ELSE ports[x]]

-----------------------------------------------------------------------------
\* What is registered at the ports of a packet, from its first switch on: the
\* pairs of a place of its path and a place in the list of the port there.
\* The loops go through them in this order.

Entries(ports, p) == UNION {{i} \X DOMAIN ports[Rx(p)[i]].passed : i \in 2 .. Len(Rx(p))}
Entry(ports, p, x) == ports[Rx(p)[x[1]]].passed[x[2]]

Before(x, y) == x[1] < y[1] \/ (x[1] = y[1] /\ x[2] < y[2])
FirstOf(xs) == {x \in xs : \A y \in xs \ {x} : Before(x, y)}

\* Mutant: those that are on their way stay as they are.
LaterNone(pkts, ports, o) == {}

\* DeleteLaterPkt: packets not yet to be computed that come to a port after o.
LaterThan(pkts, ports, o) ==
  {x \in Entries(ports, pkts[o]) :
     LET e == Entry(ports, pkts[o], x)
     IN  pkts[o].header[x[1]] < pkts[e.pkt].header[e.at] /\ ~pkts[e.pkt].reCompute}

\* The loser at place i waits where it is, and everything behind moves.
Delayed(p, i, d) ==
  [p EXCEPT !.header = [k \in Hops(p) |-> IF k < i THEN @[k] ELSE @[k] + d],
            !.tail = [k \in Hops(p) |-> @[k] + d]]

Overlaps(first, a, second, b) ==
  first.header[a] <= second.header[b] /\ second.header[b] < first.tail[a]

\* SearchCongFlit: what meets o at a port while it, or o, is there.
MeetsFrom(pkts, ports, o, from) ==
  {x \in Entries(ports, pkts[o]) :
     LET e == Entry(ports, pkts[o], x)
     IN  /\ ~Before(x, from) /\ e.pkt # o
         /\ \/ Overlaps(pkts[e.pkt], e.at, pkts[o], x[1])
            \/ Overlaps(pkts[o], x[1], pkts[e.pkt], e.at)}

\* Mutant: everything at the port is taken away.
CorrectAll(port, ids) == [port EXCEPT !.total = <<>>, !.released = <<>>, !.last = NoFlits]

\* What the packets computed again had left at the ports is taken away.
CorrectPort(port, ids) ==
  LET total == Filtered(port.total, {g \in Range(port.total) : g.id \notin ids})
  IN  [port EXCEPT !.total = total,
                   !.released = Filtered(@, {r \in Range(@) : r.id \notin ids}),
                   !.last = IF total = <<>> THEN NoFlits ELSE Last(total)]
=============================================================================
