----------------------------- MODULE ClockDomain -----------------------------
(***************************************************************************)
(* The crossing from the CPU's clock to the DRAM's (ClockDomain.cpp): each *)
(* update is a cycle of the CPU, each callback one of the DRAM.            *)
(***************************************************************************)
EXTENDS Integers

CONSTANTS DramClkFreqHz, CpuClkFreqsHz, MaxUpdates

ASSUME ClockAssumption ==
  /\ DramClkFreqHz \in Nat \ {0}
  /\ CpuClkFreqsHz \subseteq Nat
  /\ MaxUpdates \in Nat

VARIABLES clock1, clock2, counter1, counter2,
          running,            \* in update(), from counter1 on
          updates, ticks      \* the calls of update and of the callback so far

vars == <<clock1, clock2, counter1, counter2, running, updates, ticks>>

Init ==
  /\ clock1 = 1 /\ clock2 = 1 /\ counter1 = 0 /\ counter2 = 0
  /\ running = FALSE
  /\ updates = 0 /\ ticks = 0

\* Mutant: without the case of 0.
SetAsGiven(hz) ==
  /\ updates = 0
  /\ clock1' = DramClkFreqHz /\ clock2' = hz
  /\ UNCHANGED <<counter1, counter2, running, updates, ticks>>

\* Called before the first update; 0, which is what the memory wrapper passes,
\* stands for 1:1.
SetCPUClockSpeed(hz) ==
  /\ updates = 0
  /\ clock1' = DramClkFreqHz
  /\ clock2' = IF hz = 0 THEN DramClkFreqHz ELSE hz
  /\ UNCHANGED <<counter1, counter2, running, updates, ticks>>

\* The short circuit for equal clocks.
UpdateOneToOne ==
  /\ ~running /\ clock1 = clock2
  /\ updates < MaxUpdates
  /\ updates' = updates + 1 /\ ticks' = ticks + 1
  /\ UNCHANGED <<clock1, clock2, counter1, counter2, running>>

Update ==
  /\ ~running /\ clock1 # clock2
  /\ updates < MaxUpdates
  /\ counter1' = counter1 + clock1
  /\ running' = TRUE
  /\ updates' = updates + 1
  /\ UNCHANGED <<clock1, clock2, counter2, ticks>>

\* Mutant: one tick too many when the clocks meet.
CallbackWhenEqual ==
  /\ running /\ counter2 <= counter1
  /\ counter2' = counter2 + clock2
  /\ ticks' = ticks + 1
  /\ UNCHANGED <<clock1, clock2, counter1, running, updates>>

Callback ==
  /\ running /\ counter2 < counter1
  /\ counter2' = counter2 + clock2
  /\ ticks' = ticks + 1
  /\ UNCHANGED <<clock1, clock2, counter1, running, updates>>

\* Mutant: the counters are not reset.
ReturnWithoutReset ==
  /\ running /\ counter1 <= counter2
  /\ running' = FALSE
  /\ UNCHANGED <<clock1, clock2, counter1, counter2, updates, ticks>>

\* The end of update: when both counters agree they start from 0 again.
Return ==
  /\ running /\ counter1 <= counter2
  /\ running' = FALSE
  /\ counter1' = IF counter1 = counter2 THEN 0 ELSE counter1
  /\ counter2' = IF counter1 = counter2 THEN 0 ELSE counter2
  /\ UNCHANGED <<clock1, clock2, updates, ticks>>

Next ==
  \/ \E hz \in CpuClkFreqsHz : SetCPUClockSpeed(hz)
  \/ UpdateOneToOne
  \/ Update
  \/ Callback
  \/ Return

Spec == Init /\ [][Next]_vars

-----------------------------------------------------------------------------
\* No clock is ever 0, with which the loop of update (ClockDomain.cpp:71) would
\* not end.
ClockTypeOK ==
  /\ clock1 \in Nat \ {0} /\ clock2 \in Nat \ {0}
  /\ counter1 \in Nat /\ counter2 \in Nat
  /\ running \in BOOLEAN
  /\ updates \in Nat /\ ticks \in Nat

\* Between two updates the DRAM has made exactly the cycles that fit in the
\* CPU's, the last begun one included: however long the program runs, and
\* although the counters are reset now and then, it is never a cycle behind and
\* never one ahead (ClockDomain.cpp:69-81).
NoDrift ==
  ~running => /\ updates * clock1 <= ticks * clock2
              /\ ticks * clock2 < updates * clock1 + clock2

\* The counters do not grow with the run: the reset always comes, so 64 bits are
\* enough while the product of the two frequencies fits (ClockDomain.cpp:83-87).
CountersBounded ==
  counter1 <= clock1 * clock2 /\ counter2 <= clock1 * clock2
=============================================================================
