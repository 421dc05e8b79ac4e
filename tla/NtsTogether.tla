---------------------------- MODULE NtsTogether ----------------------------
(***************************************************************************)
(* What the network simulator's windows are compared with: all packets     *)
(* ever sent, computed together.                                           *)
(***************************************************************************)
EXTENDS NtsNetwork, TLC

\* A pass over the packets d.unfinished, as functions: the claims of all, then
\* the transfers.
ClaimedTogether(d) ==
  Fold(LAMBDA c, o : SimulateHeaderTimetoRx(c, d.ports, o, d.pkt[o]), Unclaimed({}), d.unfinished)

RECURSIVE TransferFrom(_, _, _)
TransferFrom(d, c, i) ==
  LET o == d.unfinished[i]
      p == d.pkt[o]
      header == Whole([k \in Hops(p) |-> c.claims[Rx(p)[k]].header])
      flits == IF o \in c.jammed THEN SimulateFIFOSizeTime(p, d.ports, header)
               ELSE SimulateTailTimetoRxWithoutCongestion(p, header)
  IN  IF i > Len(d.unfinished) THEN d
      ELSE IF ~CheckWormHolePath(c.claims, o, p) THEN TransferFrom(d, c, i + 1)
      ELSE TransferFrom([ports |-> Left(d.ports, p, flits),
                         pkt |-> [d.pkt EXCEPT ![o] = Transferred(p, header, flits)],
                         unfinished |-> RemoveAt(d.unfinished, i)], c, i + 1)

\* Passes until no more packet is transferred.
RECURSIVE PassesTogether(_)
PassesTogether(d) ==
  LET next == TransferFrom(d, ClaimedTogether(d), 1)
  IN  IF next.unfinished = d.unfinished THEN d ELSE PassesTogether(next)

AllAtOnce ==
  LET order == SortSeq([t \in Transactions |-> [pkt |-> t, send |-> payload[t].send]],
                       LAMBDA a, b : a.send < b.send)
  IN  PassesTogether(
        [ports |-> [x \in PortsInUse |-> NewPort],
         pkt |-> Whole([t \in Transactions |-> Guessed(NewPacket(t))]),
         unfinished |-> [t \in Transactions |-> order[t].pkt]])

\* The windows are only how the simulator saves work: once everything has
\* arrived, each packet has arrived when it would have if all packets ever sent
\* had been computed together, so the search has found every packet that had to
\* be computed again (simulator.cpp:433-440).
WindowIndependent ==
  main = Idle /\ ~Pending /\ ~Running =>
    LET together == AllAtOnce
    IN  together.unfinished = <<>> =>
          \A t \in Transactions : arrived[t] = <<together.pkt[t].finished>>
=============================================================================
