---------------------------- MODULE MemoryDevice ----------------------------
(***************************************************************************)
(* What a memory promises the code that adds transactions to it: each is   *)
(* completed once, one at a time, and in the order they were added within  *)
(* a bank.  Dram implements it while nothing is added behind a transaction *)
(* that waits in pendingTransactions; OCPWrappedMemory is built on it.     *)
(***************************************************************************)
EXTENDS Integers, Sequences

CONSTANTS
  Addrs,      \* the addresses
  BankOf(_)   \* the bank an address is in

VARIABLES
  hist,   \* the transactions added, in order
  done    \* the numbers of those completed

deviceVars == <<hist, done>>

Added == 1 .. Len(hist)

Earlier(i) == {j \in 1 .. (i - 1) : BankOf(hist[j].addr) = BankOf(hist[i].addr)}

DeviceInit == hist = <<>> /\ done = {}

Add(isWrite, a) ==
  /\ hist' = Append(hist, [write |-> isWrite, addr |-> a])
  /\ UNCHANGED done

Complete(i) ==
  /\ i \in Added \ done
  /\ Earlier(i) \subseteq done
  /\ done' = done \cup {i}
  /\ UNCHANGED hist

DeviceNext ==
  \/ \E w \in BOOLEAN, a \in Addrs : Add(w, a)
  \/ \E i \in Added : Complete(i)

DeviceSpec ==
  /\ DeviceInit /\ [][DeviceNext]_deviceVars
  /\ WF_deviceVars(\E i \in Added : Complete(i))
=============================================================================
