------------------------ MODULE DramArithmetic_proofs ------------------------
(***************************************************************************)
(* The arithmetic around the DRAM: the clock crossing neither drifts nor   *)
(* overflows, for every pair of frequencies and runs of any length, and    *)
(* every address mapping cuts an address into the parts it names.          *)
(***************************************************************************)
EXTENDS ClockDomain, AddressMapping, TLAPS

\* One more of the same.
LEMMA OneMore == ASSUME NEW n \in Nat, NEW c \in Nat PROVE (n + 1) * c = n * c + c
  BY SMT

\* None of them.
LEMMA NoneOf == ASSUME NEW c \in Nat PROVE 0 * c = 0
  BY SMT

\* A cycle begun from nothing is ahead of it.
LEMMA FromNothing == ASSUME NEW c \in Nat, 0 < c PROVE 0 < 0 + c
  BY SMT

\* What is less than n + 1 multiples of c is at most n of them.
LEMMA AtMostN ==
  ASSUME NEW k \in Nat, NEW n \in Nat, NEW c \in Nat \ {0}, k * c < n * c + c
  PROVE  k <= n
<1> SUFFICES ASSUME n + 1 <= k PROVE FALSE
  OBVIOUS
<1>1. PICK d \in Nat : k = (n + 1) + d
  <2>1. k - (n + 1) \in Nat /\ k = (n + 1) + (k - (n + 1))
    OBVIOUS
  <2> QED  BY <2>1
<1>2. k * c = (n + 1) * c + d * c
  BY <1>1
<1>3. d * c \in Nat /\ (n + 1) * c = n * c + c
  BY OneMore
<1> QED  BY <1>2, <1>3

\* More multiples of c are more.
LEMMA Grows ==
  ASSUME NEW k \in Nat, NEW n \in Nat, NEW c \in Nat, k <= n
  PROVE  k * c <= n * c
<1>1. PICK d \in Nat : n = k + d
  <2>1. n - k \in Nat /\ n = k + (n - k)
    OBVIOUS
  <2> QED  BY <2>1
<1>2. n * c = k * c + d * c
  BY <1>1
<1>3. d * c \in Nat /\ k * c \in Nat
  OBVIOUS
<1> QED  BY <1>2, <1>3

-----------------------------------------------------------------------------
\* Nothing has happened before the first update, and with equal clocks the
\* counters are never used.
Unused ==
  /\ updates = 0 => counter1 = 0 /\ counter2 = 0 /\ ticks = 0 /\ ~running
  /\ clock1 = clock2 => counter1 = 0 /\ counter2 = 0 /\ ~running

\* The counters are the two times, less what the resets took from both.
Balance == updates * clock1 + counter2 = ticks * clock2 + counter1

\* The DRAM is less than a cycle ahead, and behind only within an update.
Close ==
  /\ counter2 < counter1 + clock2
  /\ ~running => counter1 <= counter2

\* The counters hold whole cycles, of the CPU at most as many as the DRAM's
\* frequency divides into the product of both: then they meet.
Whole ==
  \E m \in Nat, n \in Nat :
    /\ counter1 = m * clock1 /\ counter2 = n * clock2
    /\ m <= clock2
    /\ ~running => m < clock2

IInv == ClockTypeOK /\ Unused /\ Balance /\ Close /\ Whole

LEMMA Initially == ASSUME Init PROVE IInv
<1>1. ClockTypeOK
  <2>1. running \in BOOLEAN
    BY Zenon DEF Init
  <2> QED  BY <2>1 DEF Init, ClockTypeOK
<1>2. Unused /\ Close
  BY DEF Init, Unused, Close
<1>3. Balance
  <2>1. 0 * 1 = 0
    OBVIOUS
  <2> QED  BY <2>1 DEF Init, Balance
<1>4. Whole
  <2>1. counter1 = 0 * clock1 /\ counter2 = 0 * clock2 /\ 0 <= clock2 /\ 0 < clock2
    BY DEF Init
  <2>2. 0 \in Nat
    OBVIOUS
  <2> QED  BY <2>1, <2>2, Zenon DEF Whole
<1> QED  BY <1>1, <1>2, <1>3, <1>4 DEF IInv

\* Setting the clocks before the first update changes nothing else.
LEMMA SetKeeps ==
  ASSUME IInv, NEW hz \in CpuClkFreqsHz, SetCPUClockSpeed(hz)
  PROVE  IInv'
<1>1. ClockTypeOK'
  BY ClockAssumption DEF SetCPUClockSpeed, IInv, ClockTypeOK
<1>2. /\ updates = 0 /\ ticks = 0 /\ counter1 = 0 /\ counter2 = 0 /\ ~running
  BY DEF SetCPUClockSpeed, IInv, Unused
<1>3. /\ updates' = 0 /\ ticks' = 0 /\ counter1' = 0 /\ counter2' = 0
      /\ ~running'
  BY <1>2 DEF SetCPUClockSpeed
<1>4. 0 <= clock2' /\ 0 < clock2'
  BY <1>1 DEF ClockTypeOK
<1>5. Unused' /\ Close'
  <2>1. Unused'
    BY <1>3, Zenon DEF Unused
  <2>2. clock2' \in Nat /\ 0 <= 0
    BY <1>1 DEF ClockTypeOK
  <2>3. 0 < 0 + clock2'
    BY <1>4, <2>2, FromNothing
  <2>4. Close'
    BY <1>3, <2>2, <2>3, Zenon DEF Close
  <2> QED  BY <2>1, <2>4
<1>6. 0 * clock1' = 0 /\ 0 * clock2' = 0
  <2>1. clock1' \in Nat /\ clock2' \in Nat
    BY <1>1 DEF ClockTypeOK
  <2> QED  BY <2>1, NoneOf
<1>7. Balance'
  BY <1>3, <1>6 DEF Balance
<1>8. Whole'
  <2>1. /\ counter1' = 0 * clock1' /\ counter2' = 0 * clock2'
        /\ 0 <= clock2' /\ 0 < clock2'
    BY <1>3, <1>4, <1>6, Zenon
  <2>2. 0 \in Nat
    OBVIOUS
  <2> QED  BY <2>1, <2>2, Zenon DEF Whole
<1> QED  BY <1>1, <1>5, <1>7, <1>8 DEF IInv

\* The short circuit leaves the counters at 0.
LEMMA OneToOneKeeps == ASSUME IInv, UpdateOneToOne PROVE IInv'
<1> USE DEF IInv
<1>1. ClockTypeOK'
  BY DEF UpdateOneToOne, ClockTypeOK
<1>2. Unused' /\ Close'
  BY DEF UpdateOneToOne, Unused, Close, ClockTypeOK
<1>3. Balance'
  <2>1. (updates + 1) * clock1 = updates * clock1 + clock1
    BY OneMore DEF ClockTypeOK
  <2>2. (ticks + 1) * clock2 = ticks * clock2 + clock2
    BY OneMore DEF ClockTypeOK
  <2>3. updates * clock1 \in Nat /\ ticks * clock2 \in Nat
    BY DEF ClockTypeOK
  <2> QED  BY <2>1, <2>2, <2>3 DEF UpdateOneToOne, Balance, ClockTypeOK
<1>4. Whole'
  BY DEF UpdateOneToOne, Whole
<1> QED  BY <1>1, <1>2, <1>3, <1>4

\* A cycle of the CPU begins.
LEMMA UpdateKeeps == ASSUME IInv, Update PROVE IInv'
<1> USE DEF IInv
<1>1. ClockTypeOK'
  BY DEF Update, ClockTypeOK
<1>2. Unused' /\ Close'
  BY DEF Update, Unused, Close, ClockTypeOK
<1>3. Balance'
  <2>1. (updates + 1) * clock1 = updates * clock1 + clock1
    BY OneMore DEF ClockTypeOK
  <2>2. updates * clock1 \in Nat /\ ticks * clock2 \in Nat
    BY DEF ClockTypeOK
  <2> QED  BY <2>1, <2>2 DEF Update, Balance, ClockTypeOK
<1>4. Whole'
  <2>1. PICK m \in Nat, n \in Nat :
          counter1 = m * clock1 /\ counter2 = n * clock2 /\ m < clock2
    BY DEF Whole, Update
  <2>2. (m + 1) * clock1 = m * clock1 + clock1
    BY OneMore DEF ClockTypeOK
  <2>3. /\ counter1' = (m + 1) * clock1' /\ counter2' = n * clock2'
        /\ m + 1 <= clock2' /\ running'
    BY <2>1, <2>2 DEF Update, ClockTypeOK
  <2>4. m + 1 \in Nat
    OBVIOUS
  <2> QED  BY <2>3, <2>4 DEF Whole
<1> QED  BY <1>1, <1>2, <1>3, <1>4

\* A cycle of the DRAM.
LEMMA CallbackKeeps == ASSUME IInv, Callback PROVE IInv'
<1> USE DEF IInv
<1>1. ClockTypeOK'
  BY DEF Callback, ClockTypeOK
<1>2. Unused' /\ Close'
  BY DEF Callback, Unused, Close, ClockTypeOK
<1>3. Balance'
  <2>1. (ticks + 1) * clock2 = ticks * clock2 + clock2
    BY OneMore DEF ClockTypeOK
  <2>2. updates * clock1 \in Nat /\ ticks * clock2 \in Nat
    BY DEF ClockTypeOK
  <2> QED  BY <2>1, <2>2 DEF Callback, Balance, ClockTypeOK
<1>4. Whole'
  <2>1. PICK m \in Nat, n \in Nat :
          counter1 = m * clock1 /\ counter2 = n * clock2 /\ m <= clock2
    BY DEF Whole
  <2>2. (n + 1) * clock2 = n * clock2 + clock2
    BY OneMore DEF ClockTypeOK
  <2>3. /\ counter1' = m * clock1' /\ counter2' = (n + 1) * clock2'
        /\ m <= clock2' /\ running'
    BY <2>1, <2>2 DEF Callback, ClockTypeOK
  <2>4. n + 1 \in Nat
    OBVIOUS
  <2> QED  BY <2>3, <2>4 DEF Whole
<1> QED  BY <1>1, <1>2, <1>3, <1>4

\* At the end of an update the counters have met, and are reset, or have room
\* for one more cycle of the CPU.
LEMMA ReturnKeeps == ASSUME IInv, Return PROVE IInv'
<1> USE DEF IInv
<1>1. ClockTypeOK'
  BY DEF Return, ClockTypeOK
<1>2. Unused' /\ Close'
  BY DEF Return, Unused, Close, ClockTypeOK
<1>3. Balance'
  <2>1. updates * clock1 \in Nat /\ ticks * clock2 \in Nat
    BY DEF ClockTypeOK
  <2> QED  BY <2>1 DEF Return, Balance, ClockTypeOK
<1>4. Whole'
  <2>1. PICK m \in Nat, n \in Nat :
          counter1 = m * clock1 /\ counter2 = n * clock2 /\ m <= clock2
    BY DEF Whole
  <2>2. CASE counter1 = counter2
    <3>1. clock1' \in Nat /\ clock2' \in Nat
      BY <1>1 DEF ClockTypeOK
    <3>2. 0 * clock1' = 0 /\ 0 * clock2' = 0
      BY <3>1, NoneOf
    <3>3. /\ counter1' = 0 * clock1' /\ counter2' = 0 * clock2'
          /\ 0 <= clock2' /\ 0 < clock2'
      BY <2>2, <1>1, <3>2 DEF Return, ClockTypeOK
    <3>4. 0 \in Nat
      OBVIOUS
    <3> QED  BY <3>3, <3>4, Zenon DEF Whole
  <2>3. CASE counter1 # counter2
    <3>1. m # clock2
      <4> SUFFICES ASSUME m = clock2 PROVE FALSE
        OBVIOUS
      <4>1. counter1 = clock1 * clock2
        BY <2>1 DEF ClockTypeOK
      <4>2. n * clock2 < clock1 * clock2 + clock2
        BY <2>1, <4>1 DEF Close
      <4>3. n <= clock1
        BY <4>2, AtMostN DEF ClockTypeOK
      <4>4. n * clock2 <= clock1 * clock2
        BY <4>3, Grows DEF ClockTypeOK
      <4> QED  BY <2>1, <2>3, <4>1, <4>4 DEF Return, ClockTypeOK
    <3>2. /\ counter1' = m * clock1' /\ counter2' = n * clock2'
          /\ m <= clock2' /\ m < clock2'
      BY <2>1, <2>3, <3>1 DEF Return, ClockTypeOK
    <3> QED  BY <3>2, Zenon DEF Whole
  <2> QED  BY <2>2, <2>3
<1> QED  BY <1>1, <1>2, <1>3, <1>4

LEMMA Preserved == ASSUME IInv, [Next]_vars PROVE IInv'
<1>1. ASSUME NEW hz \in CpuClkFreqsHz, SetCPUClockSpeed(hz) PROVE IInv'
  BY <1>1, SetKeeps
<1>2. CASE UpdateOneToOne
  BY <1>2, OneToOneKeeps
<1>3. CASE Update
  BY <1>3, UpdateKeeps
<1>4. CASE Callback
  BY <1>4, CallbackKeeps
<1>5. CASE Return
  BY <1>5, ReturnKeeps
<1>6. CASE UNCHANGED vars
  BY <1>6 DEF IInv, ClockTypeOK, Unused, Balance, Close, Whole, vars
<1> QED  BY <1>1, <1>2, <1>3, <1>4, <1>5, <1>6 DEF Next

-----------------------------------------------------------------------------
\* The types hold: no clock is 0, so the loop of update ends.
THEOREM TypesHold == Spec => []ClockTypeOK
<1>1. IInv => ClockTypeOK
  BY DEF IInv
<1> QED  BY Initially, Preserved, <1>1, PTL DEF Spec

LEMMA NotDrifted == ASSUME IInv PROVE NoDrift
<1>1. /\ updates * clock1 \in Nat /\ ticks * clock2 \in Nat
      /\ counter1 \in Nat /\ counter2 \in Nat /\ clock2 \in Nat
  BY DEF IInv, ClockTypeOK
<1> QED  BY <1>1 DEF IInv, Balance, Close, NoDrift

\* The DRAM never drifts from the CPU's clock, for any two frequencies and
\* however many updates.
THEOREM NeverDrifts == Spec => []NoDrift
  BY Initially, Preserved, NotDrifted, PTL DEF Spec

LEMMA Bounded == ASSUME IInv PROVE CountersBounded
<1> USE DEF IInv
<1>1. PICK m \in Nat, n \in Nat :
        counter1 = m * clock1 /\ counter2 = n * clock2 /\ m <= clock2
  BY DEF Whole
<1>2. clock1 * clock2 = clock2 * clock1
  BY DEF ClockTypeOK
<1>3. counter1 <= clock1 * clock2
  BY <1>1, <1>2, Grows DEF ClockTypeOK
<1>4. n * clock2 < clock1 * clock2 + clock2
  <2>1. clock1 * clock2 \in Nat /\ n * clock2 \in Nat
    BY DEF ClockTypeOK
  <2> QED  BY <1>1, <1>3, <2>1 DEF Close, ClockTypeOK
<1>5. n <= clock1
  BY <1>4, AtMostN DEF ClockTypeOK
<1>6. n * clock2 <= clock1 * clock2
  BY <1>5, Grows DEF ClockTypeOK
<1> QED  BY <1>1, <1>3, <1>6 DEF CountersBounded

\* The counters stay within the product of the frequencies, so 64 bits are
\* enough however long the program runs.
THEOREM NeverOverflows == Spec => []CountersBounded
  BY Initially, Preserved, Bounded, PTL DEF Spec

-----------------------------------------------------------------------------
\* The mapping of addresses

\* A quotient and a remainder that fit are the ones.
LEMMA Quotient ==
  ASSUME NEW a \in Nat, NEW m \in Nat \ {0}, NEW q \in Nat, NEW r \in Nat,
         a = q * m + r, r < m
  PROVE  a \div m = q /\ a % m = r
<1>1. /\ a \div m \in Nat /\ a % m \in Nat /\ a % m < m
      /\ a = (a \div m) * m + (a % m)
  OBVIOUS
<1>2. (a \div m) * m < q * m + m /\ q * m < (a \div m) * m + m
  <2>1. (a \div m) * m \in Nat /\ q * m \in Nat
    BY <1>1
  <2> QED BY <1>1, <2>1
<1>3. a \div m <= q /\ q <= a \div m
  BY <1>1, <1>2, AtMostN
<1>4. a \div m = q
  BY <1>1, <1>3
<1>5. (a \div m) * m \in Nat /\ (a \div m) * m = q * m
  BY <1>1, <1>4
<1> QED BY <1>1, <1>4, <1>5

LEMMA Divided ==
  ASSUME NEW a \in Nat, NEW m \in Nat \ {0}
  PROVE  /\ a \div m \in Nat /\ a % m \in 0 .. m - 1
         /\ a = (a \div m) * m + (a % m)
  OBVIOUS

\* Divided by m and then by n is divided by their product, and the remainder
\* consists of the two.
LEMMA DividedTwice ==
  ASSUME NEW a \in Nat, NEW m \in Nat \ {0}, NEW n \in Nat \ {0}
  PROVE  /\ m * n \in Nat \ {0}
         /\ (a \div m) \div n = a \div (m * n)
         /\ a % (m * n) = ((a \div m) % n) * m + (a % m)
<1> DEFINE b == a \div m
           r == a % m
           c == b \div n
           s == b % n
<1>1. /\ b \in Nat /\ r \in Nat /\ r < m /\ a = b * m + r
      /\ c \in Nat /\ s \in Nat /\ s <= n - 1 /\ b = c * n + s
  <2>1. b \in Nat /\ r \in 0 .. m - 1 /\ a = b * m + r
    BY Divided
  <2> HIDE DEF b, r
  <2>2. c \in Nat /\ s \in 0 .. n - 1 /\ b = c * n + s
    BY <2>1, Divided
  <2> HIDE DEF c, s
  <2> QED BY <2>1, <2>2
<1> HIDE DEF b, r, c, s
<1>2. m * n \in Nat \ {0}
  BY SMT
<1>3. a = c * (m * n) + (s * m + r)
  <2>1. b * m = c * (m * n) + s * m
    BY <1>1
  <2>2. b * m \in Nat /\ c * (m * n) \in Nat /\ s * m \in Nat
    BY <1>1, <1>2
  <2> QED BY <1>1, <2>1, <2>2
<1>4. s * m + r \in Nat /\ s * m + r < m * n
  <2>1. s * m <= (n - 1) * m
    BY <1>1, Grows
  <2>2. (n - 1) * m = m * n - m /\ s * m \in Nat
    BY <1>1
  <2> QED BY <1>1, <1>2, <2>1, <2>2
<1>5. a \div (m * n) = c /\ a % (m * n) = s * m + r
  BY <1>1, <1>2, <1>3, <1>4, Quotient
<1> QED BY <1>2, <1>5 DEF b, r, c, s

LEMMA TwoQuotients ==
  \A a \in Nat : \A m, n \in Nat \ {0} : (a \div m) \div n = a \div (m * n)
<1> TAKE a \in Nat
<1> TAKE m, n \in Nat \ {0}
<1>1. /\ m * n \in Nat \ {0}
      /\ (a \div m) \div n = a \div (m * n)
      /\ a % (m * n) = ((a \div m) % n) * m + (a % m)
  BY DividedTwice, Zenon
<1> QED BY <1>1, Zenon

\* The fields in the order in which they are cut off, their sizes, and what
\* each counts in.
Cuts == LowToHigh(scheme)
Low(k) == Size[Cuts[k]]
Counts(k) ==
  CASE k = 1 -> Unit
    [] k = 2 -> Unit * Low(1)
    [] k = 3 -> Unit * Low(1) * Low(2)
    [] k = 4 -> Unit * Low(1) * Low(2) * Low(3)
    [] k = 5 -> Unit * Low(1) * Low(2) * Low(3) * Low(4)
    [] k = 6 -> Unit * Low(1) * Low(2) * Low(3) * Low(4) * Low(5)

MappingTypes ==
  /\ Size \in [Fields -> Nat \ {0}] /\ scheme \in 1 .. 7
  /\ address \in Nat /\ taken \in 0 .. 5
  /\ DOMAIN new = Fields

\* What has been cut off are the lower parts of the address, and what is left
\* is the rest of it.
MappingInv ==
  /\ MappingTypes
  /\ physicalAddress = address \div Counts(taken + 1)
  /\ \A k \in 1 .. taken : new[Cuts[k]] = (address \div Counts(k)) % Low(k)

\* Every scheme cuts off every field once, from the low end of its layout.
LEMMA CutsFields ==
  ASSUME scheme \in 1 .. 7
  PROVE  /\ \A k \in 1 .. 5 : /\ Cuts[k] \in Fields
                               /\ Layout[scheme][k] = Cuts[6 - k]
         /\ \A j, k \in 1 .. 5 : Cuts[j] = Cuts[k] => j = k
<1>1. \A k \in 1 .. 5 : k = 1 \/ k = 2 \/ k = 3 \/ k = 4 \/ k = 5
  OBVIOUS
<1>2. CASE scheme = 1
  BY <1>1, <1>2 DEF Cuts, LowToHigh, Fields, Layout
<1>3. CASE scheme = 2
  BY <1>1, <1>3 DEF Cuts, LowToHigh, Fields, Layout
<1>4. CASE scheme = 3
  BY <1>1, <1>4 DEF Cuts, LowToHigh, Fields, Layout
<1>5. CASE scheme = 4
  BY <1>1, <1>5 DEF Cuts, LowToHigh, Fields, Layout
<1>6. CASE scheme = 5
  BY <1>1, <1>6 DEF Cuts, LowToHigh, Fields, Layout
<1>7. CASE scheme = 6
  BY <1>1, <1>7 DEF Cuts, LowToHigh, Fields, Layout
<1>8. CASE scheme = 7
  BY <1>1, <1>8 DEF Cuts, LowToHigh, Fields, Layout
<1> QED BY <1>2, <1>3, <1>4, <1>5, <1>6, <1>7, <1>8

LEMMA PositiveProduct ==
  ASSUME NEW m \in Nat \ {0}, NEW n \in Nat \ {0} PROVE m * n \in Nat \ {0}
  BY SMT

\* A field counts in what the one below it counts in, times its size.
LEMMA CountsGrow ==
  ASSUME MappingTypes, NEW k \in 1 .. 5
  PROVE  /\ Counts(k) \in Nat \ {0} /\ Low(k) \in Nat \ {0}
         /\ Counts(k + 1) = Counts(k) * Low(k)
<1>1. \A j \in 1 .. 5 : Low(j) \in Nat \ {0}
  BY CutsFields DEF MappingTypes, Low
<1>2. Unit \in Nat \ {0}
  BY MappingAssumption
<1>3. \A m, n \in Nat \ {0} : m * n \in Nat \ {0}
  BY PositiveProduct
<1>4. /\ Counts(1) = Unit /\ Counts(2) = Counts(1) * Low(1)
      /\ Counts(3) = Counts(2) * Low(2) /\ Counts(4) = Counts(3) * Low(3)
      /\ Counts(5) = Counts(4) * Low(4) /\ Counts(6) = Counts(5) * Low(5)
  BY DEF Counts
<1>5. /\ Low(1) \in Nat \ {0} /\ Low(2) \in Nat \ {0} /\ Low(3) \in Nat \ {0}
      /\ Low(4) \in Nat \ {0}
  BY <1>1
<1>6. /\ Counts(1) \in Nat \ {0} /\ Counts(2) \in Nat \ {0} /\ Counts(3) \in Nat \ {0}
      /\ Counts(4) \in Nat \ {0} /\ Counts(5) \in Nat \ {0}
  <2> HIDE DEF Counts, Low
  <2>1. Counts(1) \in Nat \ {0}
    BY <1>2, <1>4
  <2>2. Counts(2) \in Nat \ {0}
    BY <1>3, <1>4, <1>5, <2>1, Zenon
  <2>3. Counts(3) \in Nat \ {0}
    BY <1>3, <1>4, <1>5, <2>2, Zenon
  <2>4. Counts(4) \in Nat \ {0}
    BY <1>3, <1>4, <1>5, <2>3, Zenon
  <2>5. Counts(5) \in Nat \ {0}
    BY <1>3, <1>4, <1>5, <2>4, Zenon
  <2> QED BY <2>1, <2>2, <2>3, <2>4, <2>5
<1>7. k = 1 \/ k = 2 \/ k = 3 \/ k = 4 \/ k = 5
  OBVIOUS
<1> QED BY <1>1, <1>4, <1>6, <1>7

LEMMA MappingStart ==
  ASSUME MappingInit
  PROVE  MappingInv
<1>1. MappingTypes
  BY MappingAssumption DEF MappingInit, Schemes, MappingTypes
<1>2. Counts(1) = Unit
  BY DEF Counts
<1> QED BY <1>1, <1>2 DEF MappingInv, MappingInit

LEMMA MappingStep ==
  ASSUME MappingInv, CutField
  PROVE  MappingInv'
<1> DEFINE k == taken + 1
           x == physicalAddress
           s == Low(k)
<1>1. /\ k \in 1 .. 5 /\ taken' = k /\ taken \in 0 .. 5
      /\ UNCHANGED <<Size, scheme, address>>
  BY DEF CutField, MappingInv, MappingTypes
<1>2. /\ Cuts' = Cuts /\ \A j : Low(j)' = Low(j) /\ Counts(j)' = Counts(j)
  BY <1>1 DEF Cuts, Low, Counts
<1>3. /\ Counts(k) \in Nat \ {0} /\ s \in Nat \ {0} /\ Counts(k + 1) = Counts(k) * s
      /\ x = address \div Counts(k) /\ address \in Nat
  BY <1>1, CountsGrow DEF MappingInv, MappingTypes
<1>4. /\ physicalAddress' = x \div s
      /\ new' = [new EXCEPT ![Cuts[k]] = x - (x \div s) * s]
  BY DEF CutField, Cuts, Low
<1>5. x \in Nat /\ x \div s = address \div Counts(k + 1) /\ x - (x \div s) * s = x % s
  <2>1. x \in Nat
    BY <1>3, Divided
  <2>2. x \div s = address \div Counts(k + 1)
    <3>1. (address \div Counts(k)) \div s = address \div (Counts(k) * s)
      <4> HIDE DEF k, s
      <4> QED BY <1>3, TwoQuotients, Zenon
    <3> QED BY <1>3, <3>1
  <2>3. /\ x \div s \in Nat /\ x % s \in 0 .. s - 1 /\ x = (x \div s) * s + (x % s)
    BY <1>3, <2>1, Divided
  <2>4. \A p, q, r \in Nat : p = q + r => p - q = r
    OBVIOUS
  <2>5. (x \div s) * s \in Nat /\ x % s \in Nat
    <3>1. \A p, q \in Nat : p * q \in Nat
      OBVIOUS
    <3>2. x \div s \in Nat /\ s \in Nat /\ x % s \in Nat
      BY <1>3, <2>3
    <3> QED BY <3>1, <3>2, Zenon
  <2> QED BY <2>1, <2>2, <2>3, <2>4, <2>5
<1>6. Cuts[k] \in Fields /\ \A j \in 1 .. taken : Cuts[j] # Cuts[k]
  BY <1>1, CutsFields DEF MappingInv, MappingTypes
<1> HIDE DEF x, s
<1>7. new'[Cuts[k]] = x % s /\ \A j \in 1 .. taken : new'[Cuts[j]] = new[Cuts[j]]
  BY <1>4, <1>5, <1>6 DEF MappingInv, MappingTypes
<1>8. ASSUME NEW j \in 1 .. k
      PROVE  new'[Cuts[j]] = (address \div Counts(j)) % Low(j)
  <2>1. CASE j = k
    BY <1>3, <1>7, <2>1 DEF s
  <2>2. CASE j # k
    <3>1. j \in 1 .. taken
      BY <1>1, <2>2
    <3> QED BY <1>7, <3>1 DEF MappingInv
  <2> QED BY <2>1, <2>2
<1>9. MappingTypes'
  BY <1>1, <1>4 DEF MappingInv, MappingTypes
<1> QED BY <1>1, <1>2, <1>4, <1>5, <1>8, <1>9 DEF MappingInv

\* What the mapping has done, and is going to do, is cut the address into the
\* parts the schemes list.
LEMMA MappingKept == MappingSpec => []MappingInv
<1>1. MappingInv /\ [CutField]_mappingVars => MappingInv'
  <2> SUFFICES ASSUME MappingInv, [CutField]_mappingVars PROVE MappingInv'
    OBVIOUS
  <2>1. CASE CutField
    BY <2>1, MappingStep
  <2>2. CASE UNCHANGED mappingVars
    BY <2>2 DEF mappingVars, MappingInv, MappingTypes, Counts, Low, Cuts
  <2> QED BY <2>1, <2>2
<1>2. MappingInit => MappingInv
  BY MappingStart
<1> QED BY <1>1, <1>2, PTL DEF MappingSpec

(* With every scheme, for fields of any size and every address, each number *)
(* is the part of the address the layout in the comments says.              *)
THEOREM CutsAsLaidOut == MappingSpec => []MatchesLayout
<1>1. MappingInv => MatchesLayout
  <2> SUFFICES ASSUME MappingInv PROVE MatchesLayout
    OBVIOUS
  <2> SUFFICES ASSUME taken = 5, NEW k \in 1 .. 5
               PROVE  new[Layout[scheme][k]]
                        = (address \div Weight(Layout[scheme], k))
                            % Size[Layout[scheme][k]]
    BY DEF MatchesLayout
  <2>1. \A j \in 1 .. 5 : Layout[scheme][j] = Cuts[6 - j]
    BY CutsFields DEF MappingInv, MappingTypes
  <2>2. Weight(Layout[scheme], k) = Counts(6 - k)
    <3> HIDE DEF Cuts
    <3>1. /\ Layout[scheme][5] = Cuts[1] /\ Layout[scheme][4] = Cuts[2]
          /\ Layout[scheme][3] = Cuts[3] /\ Layout[scheme][2] = Cuts[4]
      BY <2>1
    <3>2. k = 1 \/ k = 2 \/ k = 3 \/ k = 4 \/ k = 5
      OBVIOUS
    <3> QED BY <3>1, <3>2 DEF Weight, Counts, Low
  <2>3. 6 - k \in 1 .. taken
    OBVIOUS
  <2>4. new[Cuts[6 - k]] = (address \div Counts(6 - k)) % Low(6 - k)
    BY <2>3 DEF MappingInv
  <2> QED BY <2>1, <2>2, <2>4 DEF Low
<1> QED BY <1>1, MappingKept, PTL

(* With scheme 2, one channel and one rank, the transactions go round the   *)
(* banks, and what is left of the address is row and column: BankOf and     *)
(* RowOf of Dram.                                                           *)
THEOREM GoesRoundTheBanks == MappingSpec => []DramMapping
<1>1. MappingInv => DramMapping
  <2> SUFFICES ASSUME MappingInv PROVE DramMapping
    OBVIOUS
  <2> DEFINE txn == address \div Unit
  <2> SUFFICES ASSUME taken = 5, scheme = 2, Size["rank"] = 1, Size["chan"] = 1
               PROVE  /\ new["bank"] = txn % Size["bank"]
                      /\ new["row"] * Size["col"] + new["col"]
                           = (txn \div Size["bank"]) % (Size["row"] * Size["col"])
    BY DEF DramMapping
  <2> DEFINE b == Size["bank"]
             c == Size["col"]
             r == Size["row"]
  <2>1. /\ Cuts[1] = "rank" /\ Cuts[2] = "bank" /\ Cuts[3] = "col" /\ Cuts[4] = "row"
    BY DEF Cuts, LowToHigh
  <2>2. /\ b \in Nat \ {0} /\ c \in Nat \ {0} /\ r \in Nat \ {0} /\ Unit \in Nat \ {0}
        /\ address \in Nat
    BY MappingAssumption DEF MappingInv, MappingTypes, Fields
  <2>3. /\ Low(1) = 1 /\ Low(2) = b /\ Low(3) = c /\ Low(4) = r
    BY <2>1 DEF Low
  <2>4. Counts(2) = Unit /\ Counts(3) = Unit * b /\ Counts(4) = (Unit * b) * c
    BY <2>2, <2>3 DEF Counts
  <2>5. /\ new["bank"] = (address \div Unit) % b
        /\ new["col"] = (address \div (Unit * b)) % c
        /\ new["row"] = (address \div ((Unit * b) * c)) % r
    <3>1. \A k \in 1 .. 5 : new[Cuts[k]] = (address \div Counts(k)) % Low(k)
      BY DEF MappingInv
    <3> HIDE DEF b, c, r
    <3> QED BY <2>1, <2>3, <2>4, <3>1
  <2> HIDE DEF b, c, r
  <2>6. /\ Unit * b \in Nat \ {0} /\ txn \div b = address \div (Unit * b) /\ txn \in Nat
    <3>1. (address \div Unit) \div b = address \div (Unit * b)
      BY <2>2, TwoQuotients, Zenon
    <3>2. Unit * b \in Nat \ {0}
      BY <2>2, PositiveProduct, Zenon
    <3>3. address \div Unit \in Nat
      BY <2>2, Divided
    <3> QED BY <3>1, <3>2, <3>3
  <2> DEFINE y == txn \div b
  <2>7. y \in Nat
    BY <2>2, <2>6, Divided
  <2>8. y \div c = address \div ((Unit * b) * c)
    <3>1. (address \div (Unit * b)) \div c = address \div ((Unit * b) * c)
      BY <2>2, <2>6, TwoQuotients, Zenon
    <3> QED BY <2>6, <3>1
  <2> HIDE DEF y
  <2>9. y % (c * r) = ((y \div c) % r) * c + (y % c)
    BY <2>2, <2>7, DividedTwice, Zenon
  <2>10. c * r = r * c
    BY <2>2
  <2> QED BY <2>5, <2>6, <2>8, <2>9, <2>10 DEF b, c, r, y
<1> QED BY <1>1, MappingKept, PTL
=============================================================================
