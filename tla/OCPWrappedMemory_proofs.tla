----------------------- MODULE OCPWrappedMemory_proofs -----------------------
(***************************************************************************)
(* The deque of OCPWrappedMemory always has exactly the payloads that are  *)
(* outstanding, reads return the last write before them, and each read is  *)
(* answered once: for every number of requests, every set of bursts and    *)
(* every map of addresses to banks.                                        *)
(***************************************************************************)
EXTENDS OCPWrappedMemory, TLAPS

HistIsAsked ==
  \A i \in Added : hist[i].write = asked[i].write /\ hist[i].addr = asked[i].addr

OrderKept == \A i \in done : Earlier(i) \subseteq done

AreBursts ==
  \A p \in 1 .. Len(asked) : [addr |-> asked[p].addr, len |-> asked[p].len] \in Bursts

WriteDataKept ==
  \A p \in 1 .. Len(asked) : asked[p].write => \A x \in Words : data[p][x] = p

MemoryIsLast == \A x \in Words : IsLast(memory[x], WritesTo(x, done))

Answering == respEvent => returnTrans \in done

AnsweredGone ==
  /\ \A n \in DOMAIN answered : answered[n] \in done \ queue
  /\ \A m, n \in DOMAIN answered : m # n => answered[m] # answered[n]

IInv ==
  /\ TypeOK
  /\ HistIsAsked
  /\ OrderKept
  /\ AreBursts
  /\ WriteDataKept
  /\ MemoryIsLast
  /\ Answering
  /\ DequeIsOutstanding
  /\ AnsweredGone
  /\ ReadsLatestWrite

-----------------------------------------------------------------------------
\* Two bursts that share a word are of one bank.
LEMMA SharedWord ==
  ASSUME AreBursts, NEW p \in 1 .. Len(asked), NEW q \in 1 .. Len(asked),
         NEW x, x \in Span(p), x \in Span(q)
  PROVE  BankOf(asked[p].addr) = BankOf(asked[q].addr)
<1> DEFINE rp == [addr |-> asked[p].addr, len |-> asked[p].len]
           rq == [addr |-> asked[q].addr, len |-> asked[q].len]
<1>1. rp \in Bursts /\ rq \in Bursts
  BY DEF AreBursts
<1>2. /\ x \in rp.addr .. (rp.addr + rp.len - 1)
      /\ x \in rq.addr .. (rq.addr + rq.len - 1)
  BY DEF Span
<1>3. BankOf(rp.addr) = BankOf(rq.addr)
  <2> HIDE DEF rp, rq
  <2> QED BY <1>1, <1>2, BurstAssumption
<1> QED BY <1>3

\* The words of a burst are words of the memory.
LEMMA SpanInWords ==
  ASSUME AreBursts, NEW p \in 1 .. Len(asked)
  PROVE  Span(p) \subseteq Words
<1> DEFINE rp == [addr |-> asked[p].addr, len |-> asked[p].len]
<1>1. rp \in Bursts
  BY DEF AreBursts
<1>2. rp.addr .. (rp.addr + rp.len - 1) \subseteq Words
  <2> HIDE DEF rp
  <2> QED BY <1>1, BurstAssumption
<1> QED BY <1>2 DEF Span

\* The payload found for a completed transaction is its own.
LEMMA FoundIsMeant ==
  ASSUME TypeOK, HistIsAsked, DequeIsOutstanding, ~respEvent,
         NEW i, Complete(i),
         NEW p \in queue, FindTransInDeque(p, hist[i].addr)
  PROVE  p = i
<1>1. i \in Added \ done /\ Earlier(i) \subseteq done /\ queue = Added \ done
  BY DEF Complete, DequeIsOutstanding
<1>2. i \in queue /\ asked[i].addr = hist[i].addr /\ p \in Added
  BY <1>1 DEF HistIsAsked
<1>3. p <= i
  BY <1>2 DEF FindTransInDeque
<1>4. CASE p < i
  <2>1. hist[p].addr = hist[i].addr
    BY <1>2 DEF FindTransInDeque, HistIsAsked
  <2>2. p \in 1 .. (i - 1)
    BY <1>1, <1>2, <1>4 DEF Added, TypeOK
  <2>3. p \in Earlier(i)
    BY <2>1, <2>2 DEF Earlier
  <2> QED BY <1>1, <2>3
<1>5. p \in Int /\ i \in Int
  BY <1>1, <1>2 DEF Added
<1> QED BY <1>3, <1>4, <1>5

-----------------------------------------------------------------------------
LEMMA InitHolds == Init => IInv
<1> SUFFICES ASSUME Init PROVE IInv
  OBVIOUS
<1> USE BurstAssumption DEF Init, DeviceInit
<1>1. TypeOK
  <2>1. memory \in [Words -> 0 .. MaxRequests] /\ data \in [Ids -> [Words -> 0 .. MaxRequests]]
    OBVIOUS
  <2>2. Len(asked) = 0 /\ Len(hist) = 0 /\ Len(asked) <= MaxRequests
    OBVIOUS
  <2>3. hist \in Seq([write : BOOLEAN, addr : Addrs]) /\ answered \in Seq(Ids)
    OBVIOUS
  <2>4. asked \in Seq([write : BOOLEAN, addr : Addrs, len : Nat])
    OBVIOUS
  <2>5. returnTrans \in 0 .. Len(hist)
    BY <2>2 DEF Nobody
  <2>6. done \subseteq Added /\ queue \subseteq Added /\ respEvent \in BOOLEAN
    OBVIOUS
  <2>7. Len(hist) <= Len(asked)
    BY <2>2
  <2> HIDE DEF Init, DeviceInit
  <2> QED BY <2>1, <2>2, <2>3, <2>4, <2>5, <2>6, <2>7 DEF TypeOK
<1>2. HistIsAsked /\ OrderKept /\ AreBursts /\ WriteDataKept
  BY DEF HistIsAsked, OrderKept, AreBursts, WriteDataKept, Added
<1>3. MemoryIsLast BY DEF MemoryIsLast, IsLast, WritesTo
<1>4. Answering /\ DequeIsOutstanding /\ AnsweredGone /\ ReadsLatestWrite
  BY DEF Answering, DequeIsOutstanding, AnsweredGone, ReadsLatestWrite, Added
<1> QED BY <1>1, <1>2, <1>3, <1>4 DEF IInv

\* A new request leaves what is known of the older ones.
LEMMA RequestStep ==
  ASSUME IInv, NEW w \in BOOLEAN, NEW r \in Bursts, Request(w, r)
  PROVE  IInv'
<1> USE BurstAssumption
<1> DEFINE p == Len(asked) + 1
           new == [write |-> w, addr |-> r.addr, len |-> r.len]
<1>1. /\ p \in Ids /\ p \notin 1 .. Len(asked) /\ Len(asked) \in Nat
      /\ asked' = Append(asked, new)
      /\ data' = [data EXCEPT ![p] = [x \in Words |-> IF w THEN p ELSE 0]]
      /\ r.addr \in Addrs /\ r.len \in Nat
  BY DEF IInv, TypeOK, Request, Ids
<1>2. UNCHANGED <<hist, done, queue, returnTrans, respEvent, memory, answered>>
  BY DEF Request
<1>3. /\ Len(asked') = p /\ asked'[p] = new
      /\ \A q \in 1 .. Len(asked) : asked'[q] = asked[q] /\ data'[q] = data[q]
      /\ data'[p] = [x \in Words |-> IF w THEN p ELSE 0]
  BY <1>1 DEF IInv, TypeOK, Ids
<1>4. Len(hist) \in Nat /\ Len(hist) <= Len(asked) /\ Len(asked) \in Nat /\ done \subseteq 1 .. Len(hist)
  BY DEF IInv, TypeOK, Added
<1>14. done \subseteq 1 .. Len(asked) /\ \A j \in done : asked'[j] = asked[j]
  BY <1>3, <1>4
<1>5. TypeOK'
  <2>1. asked' \in Seq([write : BOOLEAN, addr : Addrs, len : Nat])
    BY <1>1 DEF IInv, TypeOK
  <2>2. data' \in [Ids -> [Words -> 0 .. MaxRequests]]
    <3>1. p \in 0 .. MaxRequests /\ 0 \in 0 .. MaxRequests
      BY <1>1 DEF Ids
    <3>2. [x \in Words |-> IF w THEN p ELSE 0] \in [Words -> 0 .. MaxRequests]
      BY <3>1
    <3> QED BY <1>1, <3>2 DEF IInv, TypeOK
  <2>3. Len(asked') <= MaxRequests /\ Len(hist) <= Len(asked')
    BY <1>1, <1>3, <1>4 DEF Ids
  <2> QED BY <1>2, <2>1, <2>2, <2>3 DEF IInv, TypeOK, Added
<1>6. HistIsAsked' /\ OrderKept'
  BY <1>2, <1>3, <1>4 DEF IInv, HistIsAsked, OrderKept, Added, Earlier
<1>7. AreBursts'
  <2>1. [addr |-> new.addr, len |-> new.len] = r
    BY DEF p
  <2> QED BY <1>1, <1>3, <2>1 DEF IInv, AreBursts
<1>8. WriteDataKept'
  <2> SUFFICES ASSUME NEW q \in 1 .. Len(asked'), asked'[q].write, NEW x \in Words
               PROVE  data'[q][x] = q
    BY DEF WriteDataKept
  <2>1. CASE q = p
    BY <1>3, <2>1
  <2>2. CASE q # p
    <3>1. q \in 1 .. Len(asked)
      BY <1>1, <1>3, <2>2
    <3> QED BY <1>3, <3>1 DEF IInv, WriteDataKept
  <2> QED BY <2>1, <2>2
<1>10. MemoryIsLast'
  <2>1. \A x : WritesTo(x, done)' = WritesTo(x, done)
    BY <1>2, <1>14 DEF WritesTo, Span
  <2> QED BY <1>2, <2>1 DEF IInv, MemoryIsLast, IsLast
<1>11. ReadsLatestWrite'
  <2> SUFFICES ASSUME NEW q \in done, ~asked[q].write, NEW x \in Span(q)
               PROVE  IsLast(data[q][x], WritesTo(x, 1 .. (q - 1)))'
    BY <1>2, <1>14 DEF ReadsLatestWrite, Span
  <2>1. IsLast(data[q][x], WritesTo(x, 1 .. (q - 1)))
    BY DEF IInv, ReadsLatestWrite
  <2>2. q \in 1 .. Len(asked) /\ data'[q] = data[q]
    BY <1>3, <1>14
  <2>3. WritesTo(x, 1 .. (q - 1))' = WritesTo(x, 1 .. (q - 1))
    <3>1. \A j \in 1 .. (q - 1) : asked'[j] = asked[j]
      BY <1>1, <1>3, <2>2
    <3> QED BY <3>1 DEF WritesTo, Span
  <2> QED BY <2>1, <2>2, <2>3 DEF IsLast
<1>12. Answering' /\ DequeIsOutstanding' /\ AnsweredGone'
  BY <1>2 DEF IInv, Answering, DequeIsOutstanding, AnsweredGone, Added
<1> QED BY <1>5, <1>6, <1>7, <1>8, <1>10, <1>11, <1>12 DEF IInv

\* A payload enters the DRAM and the deque together.
LEMMA ReqProcessStep ==
  ASSUME IInv, ReqProcess
  PROVE  IInv'
<1> DEFINE p == Len(hist) + 1
           new == [write |-> asked[p].write, addr |-> asked[p].addr]
<1>1. /\ p \in 1 .. Len(asked) /\ Len(hist) \in Nat /\ p \notin Added /\ Len(asked) \in Nat
      /\ hist' = Append(hist, new)
      /\ queue' = queue \cup {p}
      /\ asked[p] \in [write : BOOLEAN, addr : Addrs, len : Nat]
  <2>1. p <= Len(asked) /\ Len(hist) \in Nat /\ Len(asked) \in Nat
    BY DEF IInv, TypeOK, ReqProcess
  <2>2. p \in 1 .. Len(asked) /\ p \notin Added
    BY <2>1 DEF Added
  <2>3. asked[p] \in [write : BOOLEAN, addr : Addrs, len : Nat]
    <3> DEFINE R == [write : BOOLEAN, addr : Addrs, len : Nat]
    <3>1. asked \in Seq(R)
      BY DEF IInv, TypeOK
    <3> HIDE DEF p, R
    <3>2. asked[p] \in R
      BY <2>2, <3>1
    <3> QED BY <3>2 DEF R
  <2> QED BY <2>1, <2>2, <2>3 DEF ReqProcess, Add
<1>2. UNCHANGED <<done, asked, returnTrans, respEvent, memory, data, answered>>
  BY DEF ReqProcess, Add
<1>3. /\ Len(hist') = p /\ hist'[p] = new /\ Added' = Added \cup {p}
      /\ \A i \in Added : hist'[i] = hist[i]
  BY <1>1 DEF IInv, TypeOK, Added
<1>4. done \subseteq Added
  BY DEF IInv, TypeOK
<1>5. TypeOK'
  <2>1. hist' \in Seq([write : BOOLEAN, addr : Addrs])
    BY <1>1 DEF IInv, TypeOK
  <2>2. Len(hist') <= Len(asked) /\ returnTrans \in 0 .. Len(hist')
    BY <1>1, <1>3 DEF IInv, TypeOK
  <2> QED BY <1>1, <1>2, <1>3, <2>1, <2>2 DEF IInv, TypeOK
<1>6. HistIsAsked'
  BY <1>2, <1>3 DEF IInv, HistIsAsked
<1>7. OrderKept'
  <2> SUFFICES ASSUME NEW i \in done PROVE Earlier(i)' \subseteq done
    BY <1>2 DEF OrderKept
  <2>1. i \in 1 .. Len(hist)
    BY <1>4 DEF Added
  <2>2. Earlier(i)' = Earlier(i)
    BY <1>1, <1>3, <2>1 DEF Earlier, Added
  <2> QED BY <2>2 DEF IInv, OrderKept
<1>8. AreBursts' /\ WriteDataKept' /\ MemoryIsLast' /\ ReadsLatestWrite'
  BY <1>2 DEF IInv, AreBursts, WriteDataKept, MemoryIsLast, ReadsLatestWrite,
              IsLast, WritesTo, Span
<1>9. Answering' /\ DequeIsOutstanding'
  BY <1>1, <1>2, <1>3, <1>4 DEF IInv, Answering, DequeIsOutstanding
<1>10. AnsweredGone'
  BY <1>1, <1>2, <1>4 DEF IInv, AnsweredGone
<1> QED BY <1>5, <1>6, <1>7, <1>8, <1>9, <1>10 DEF IInv

\* The transaction completed is found, and is carried out in order.
LEMMA UpdateStep ==
  ASSUME IInv, NEW i \in Added, UpdateMethod(i)
  PROVE  IInv'
<1>1. PICK p \in queue :
        /\ FindTransInDeque(p, hist[i].addr)
        /\ returnTrans' = p
        /\ IF hist[i].write THEN WriteComplete(p) ELSE ReadComplete(p)
  BY DEF UpdateMethod
<1>2. p = i
  BY <1>1, FoundIsMeant DEF IInv, UpdateMethod
<1>3. /\ ~respEvent /\ respEvent' = TRUE /\ returnTrans' = i
      /\ i \in Added \ done /\ Earlier(i) \subseteq done
      /\ done' = done \cup {i}
      /\ hist[i].write => WriteComplete(i)
      /\ ~hist[i].write => ReadComplete(i)
  BY <1>1, <1>2 DEF UpdateMethod, Complete
<1>4. UNCHANGED <<hist, asked, queue, answered>>
  BY DEF UpdateMethod, Complete
<1>5. /\ hist[i].write = asked[i].write
      /\ Len(hist) \in Nat /\ Len(asked) \in Nat /\ i \in 1 .. Len(asked) /\ i \in Nat
      /\ Added \subseteq 1 .. Len(asked) /\ done \subseteq Added /\ i \in Ids
      /\ Added \subseteq Nat
  <2>1. Len(hist) \in Nat /\ Len(asked) \in Nat /\ Len(hist) <= Len(asked)
        /\ Len(asked) <= MaxRequests /\ done \subseteq Added
    BY DEF IInv, TypeOK
  <2> QED BY <2>1, BurstAssumption DEF IInv, HistIsAsked, Added, Ids
<1>6. Span(i) \subseteq Words
  BY <1>5, SpanInWords DEF IInv
<1>7. \A j \in done : j > i => \A x \in Span(i) : x \notin Span(j)
  \* Otherwise j, of the same bank, could not be done before i.
  <2> SUFFICES ASSUME NEW j \in done, j > i, NEW x \in Span(i), x \in Span(j)
               PROVE  FALSE
    OBVIOUS
  <2>1. j \in 1 .. Len(asked) /\ j \in Added
    BY <1>5
  <2>2. BankOf(asked[i].addr) = BankOf(asked[j].addr)
    BY <1>5, <2>1, SharedWord DEF IInv
  <2>3. hist[i].addr = asked[i].addr /\ hist[j].addr = asked[j].addr
    BY <2>1 DEF IInv, HistIsAsked
  <2>4. i \in 1 .. (j - 1)
    BY <1>5, <2>1
  <2>5. i \in Earlier(j)
    BY <2>2, <2>3, <2>4 DEF Earlier
  <2> QED BY <1>3, <2>5 DEF IInv, OrderKept
<1>8. \A j \in 1 .. (i - 1) : \A x \in Span(i) : x \in Span(j) => j \in done
  <2> SUFFICES ASSUME NEW j \in 1 .. (i - 1), NEW x \in Span(i), x \in Span(j)
               PROVE  j \in done
    OBVIOUS
  <2>1. j \in 1 .. Len(asked) /\ j \in Added
    BY <1>5 DEF Added
  <2>2. BankOf(asked[i].addr) = BankOf(asked[j].addr)
    BY <1>5, <2>1, SharedWord DEF IInv
  <2>3. hist[i].addr = asked[i].addr /\ hist[j].addr = asked[j].addr
    BY <2>1 DEF IInv, HistIsAsked
  <2> QED BY <1>3, <2>2, <2>3 DEF Earlier
<1>9. TypeOK'
  <2>1. memory' \in [Words -> 0 .. MaxRequests] /\ data' \in [Ids -> [Words -> 0 .. MaxRequests]]
    <3>1. memory \in [Words -> 0 .. MaxRequests] /\ data \in [Ids -> [Words -> 0 .. MaxRequests]]
      BY DEF IInv, TypeOK
    <3>2. CASE hist[i].write
      BY <1>3, <1>5, <3>1, <3>2 DEF WriteComplete
    <3>3. CASE ~hist[i].write
      <4>1. [x \in Words |-> IF x \in Span(i) THEN memory[x] ELSE data[i][x]]
              \in [Words -> 0 .. MaxRequests]
        BY <1>5, <3>1
      <4>2. /\ data' = [data EXCEPT ![i] =
                   [x \in Words |-> IF x \in Span(i) THEN memory[x] ELSE data[i][x]]]
            /\ memory' = memory
        BY <1>3, <3>3 DEF ReadComplete
      <4> QED BY <1>5, <3>1, <4>1, <4>2
    <3> QED BY <3>2, <3>3
  <2>2. returnTrans' \in 0 .. Len(hist) /\ done' \subseteq Added
    BY <1>3, <1>5 DEF Added
  <2> QED BY <1>3, <1>4, <2>1, <2>2 DEF IInv, TypeOK, Added
<1>10. HistIsAsked' /\ AreBursts'
  BY <1>4 DEF IInv, HistIsAsked, AreBursts, Added
<1>11. OrderKept'
  BY <1>3, <1>4 DEF IInv, OrderKept, Earlier
<1>12. \A q \in 1 .. Len(asked) : q # i \/ asked[q].write => data'[q] = data[q]
  <2>1. CASE asked[i].write
    BY <1>3, <1>5, <2>1 DEF WriteComplete
  <2>2. CASE ~asked[i].write
    <3>1. \A q \in Ids : q # i => data'[q] = data[q]
      BY <1>3, <1>5, <2>2 DEF ReadComplete, IInv, TypeOK
    <3>2. 1 .. Len(asked) \subseteq Ids
      BY <1>5, BurstAssumption DEF IInv, TypeOK, Ids
    <3> QED BY <2>2, <3>1, <3>2
  <2> QED BY <2>1, <2>2
<1>13. WriteDataKept'
  BY <1>4, <1>12 DEF IInv, WriteDataKept
<1>14. MemoryIsLast'
  <2> SUFFICES ASSUME NEW x \in Words
               PROVE  IsLast(memory[x], WritesTo(x, done))'
    BY DEF MemoryIsLast
  <2>1. IsLast(memory[x], WritesTo(x, done))
    BY DEF IInv, MemoryIsLast
  <2>2. CASE asked[i].write /\ x \in Span(i)
    <3>1. memory'[x] = i
      BY <1>3, <1>5, <2>2 DEF WriteComplete, IInv, WriteDataKept
    <3>2. WritesTo(x, done)' = WritesTo(x, done) \cup {i}
      BY <1>3, <1>4, <2>2 DEF WritesTo, Span
    <3>3. \A j \in WritesTo(x, done) : j <= i
      BY <1>5, <1>7, <2>2 DEF WritesTo
    <3> QED BY <1>5, <3>1, <3>2, <3>3 DEF IsLast
  <2>3. CASE ~(asked[i].write /\ x \in Span(i))
    <3>1. memory'[x] = memory[x]
      BY <1>3, <1>5, <2>3 DEF WriteComplete, ReadComplete
    <3>2. WritesTo(x, done)' = WritesTo(x, done)
      BY <1>3, <1>4, <2>3 DEF WritesTo, Span
    <3> QED BY <2>1, <3>1, <3>2 DEF IsLast
  <2> QED BY <2>2, <2>3
<1>15. ReadsLatestWrite'
  <2> SUFFICES ASSUME NEW q \in done', ~asked[q].write, NEW x \in Span(q)
               PROVE  IsLast(data[q][x], WritesTo(x, 1 .. (q - 1)))'
    BY <1>4 DEF ReadsLatestWrite, Span
  <2>1. WritesTo(x, 1 .. (q - 1))' = WritesTo(x, 1 .. (q - 1))
    BY <1>4 DEF WritesTo, Span
  <2>2. CASE q # i
    <3>1. q \in done /\ data'[q] = data[q]
      BY <1>3, <1>5, <1>12, <2>2
    <3> QED BY <2>1, <3>1 DEF IInv, ReadsLatestWrite, IsLast
  <2>3. CASE q = i
    <3>1. data'[i][x] = memory[x] /\ x \in Words
      BY <1>3, <1>5, <1>6, <2>3 DEF ReadComplete, IInv, TypeOK
    <3>2. IsLast(memory[x], WritesTo(x, done))
      BY <3>1 DEF IInv, MemoryIsLast
    <3>3. WritesTo(x, done) = WritesTo(x, 1 .. (i - 1))
      <4>1. \A j \in WritesTo(x, done) : j \in 1 .. (i - 1)
        <5> SUFFICES ASSUME NEW j \in done, x \in Span(j)
                     PROVE  j \in 1 .. (i - 1)
          BY DEF WritesTo
        <5>1. j \in Added /\ j # i /\ ~(j > i)
          BY <1>3, <1>5, <1>7, <2>3
        <5> QED BY <1>5, <5>1 DEF Added
      <4>2. \A j \in WritesTo(x, 1 .. (i - 1)) : j \in done
        BY <1>8, <2>3 DEF WritesTo
      <4> QED BY <4>1, <4>2 DEF WritesTo
    <3> QED BY <2>1, <2>3, <3>1, <3>2, <3>3 DEF IsLast
  <2> QED BY <2>2, <2>3
<1>16. Answering' /\ DequeIsOutstanding'
  BY <1>3, <1>4 DEF IInv, Answering, DequeIsOutstanding, Added
<1>17. AnsweredGone'
  BY <1>3, <1>4 DEF IInv, AnsweredGone
<1> QED BY <1>9, <1>10, <1>11, <1>13, <1>14, <1>15, <1>16, <1>17 DEF IInv

\* An answer takes its payload off the deque.
LEMMA ResponseStep ==
  ASSUME IInv, ResponseMethod
  PROVE  IInv'
<1>1. /\ respEvent /\ respEvent' = FALSE /\ queue' = queue \ {returnTrans}
      /\ answered' = IF asked[returnTrans].write THEN answered
                                                  ELSE Append(answered, returnTrans)
      /\ UNCHANGED <<hist, done, asked, returnTrans, memory, data>>
  BY DEF ResponseMethod
<1>2. /\ returnTrans \in done /\ returnTrans \in queue /\ returnTrans \in Ids
      /\ queue = (Added \ done) \cup {returnTrans}
  <2>1. returnTrans \in done
    BY <1>1 DEF IInv, Answering
  <2>2. Len(hist) \in Nat /\ Len(asked) \in Nat /\ Len(hist) <= Len(asked)
        /\ Len(asked) <= MaxRequests /\ done \subseteq Added
    BY DEF IInv, TypeOK
  <2> QED BY <1>1, <2>1, <2>2, BurstAssumption DEF IInv, DequeIsOutstanding, Added, Ids
<1>3. TypeOK'
  <2>1. answered' \in Seq(Ids)
    BY <1>1, <1>2 DEF IInv, TypeOK
  <2>2. queue' \subseteq Added /\ respEvent' \in BOOLEAN
    BY <1>1 DEF IInv, TypeOK
  <2> QED BY <1>1, <2>1, <2>2 DEF IInv, TypeOK, Added
<1>4. HistIsAsked' /\ OrderKept' /\ AreBursts' /\ WriteDataKept'
  BY <1>1 DEF IInv, HistIsAsked, OrderKept, AreBursts, WriteDataKept, Added, Earlier
<1>5. MemoryIsLast' /\ ReadsLatestWrite'
  BY <1>1 DEF IInv, MemoryIsLast, ReadsLatestWrite, IsLast, WritesTo, Span
<1>6. Answering' /\ DequeIsOutstanding'
  BY <1>1, <1>2 DEF Answering, DequeIsOutstanding, Added
<1>7. AnsweredGone'
  <2>1. CASE asked[returnTrans].write
    BY <1>1, <2>1 DEF IInv, AnsweredGone
  <2>2. CASE ~asked[returnTrans].write
    <3> DEFINE n == Len(answered)
    <3>1. /\ n \in Nat /\ DOMAIN answered = 1 .. n /\ DOMAIN answered' = 1 .. (n + 1)
          /\ answered'[n + 1] = returnTrans
          /\ \A k \in 1 .. n : answered'[k] = answered[k]
      BY <1>1, <1>2, <2>2 DEF IInv, TypeOK
    <3>2. \A k \in 1 .. n : answered[k] # returnTrans /\ answered[k] \in done \ queue
      BY <1>2, <3>1 DEF IInv, AnsweredGone
    <3>3. returnTrans \in done' \ queue' /\ done' = done /\ queue' \subseteq queue
      BY <1>1, <1>2
    <3>4. \A k \in 1 .. (n + 1) : k = n + 1 \/ k \in 1 .. n
      BY <3>1
    <3>5. \A k \in DOMAIN answered' : answered'[k] \in done' \ queue'
      BY <3>1, <3>2, <3>3, <3>4
    <3>6. \A k, l \in DOMAIN answered' : k # l => answered'[k] # answered'[l]
      <4>1. \A k, l \in 1 .. n : k # l => answered[k] # answered[l]
        BY <3>1 DEF IInv, AnsweredGone
      <4> HIDE DEF n
      <4> QED BY <3>1, <3>2, <3>4, <4>1
    <3> QED BY <3>5, <3>6 DEF AnsweredGone
  <2> QED BY <2>1, <2>2
<1> QED BY <1>3, <1>4, <1>5, <1>6, <1>7 DEF IInv

\* IInv is preserved by every step.
LEMMA NextStep == IInv /\ [Next]_vars => IInv'
<1> SUFFICES ASSUME IInv, [Next]_vars PROVE IInv'
  OBVIOUS
<1>1. ASSUME NEW w \in BOOLEAN, NEW r \in Bursts, Request(w, r) PROVE IInv'
  BY <1>1, RequestStep
<1>2. CASE ReqProcess
  BY <1>2, ReqProcessStep
<1>3. ASSUME NEW i \in Added, UpdateMethod(i) PROVE IInv'
  BY <1>3, UpdateStep
<1>4. CASE ResponseMethod
  BY <1>4, ResponseStep
<1>5. CASE UNCHANGED vars
  BY <1>5 DEF vars, payloadVars, IInv, TypeOK, HistIsAsked, OrderKept, AreBursts,
      WriteDataKept, MemoryIsLast, Answering, DequeIsOutstanding, AnsweredGone,
      ReadsLatestWrite, IsLast, WritesTo, Span, Earlier, Added
<1> QED BY <1>1, <1>2, <1>3, <1>4, <1>5 DEF Next

\* The inductive invariant holds in every reachable state.
THEOREM Inductive == Spec => []IInv
<1>1. Init => IInv
  BY InitHolds
<1>2. IInv /\ [Next]_vars => IInv'
  BY NextStep
<1> QED BY <1>1, <1>2, PTL DEF Spec

-----------------------------------------------------------------------------
\* The types hold: no more requests than were asked are ever known.
THEOREM TypesHold == Spec => []TypeOK
<1>1. IInv => TypeOK
  BY DEF IInv
<1> QED BY <1>1, Inductive, PTL

\* The address alone always finds the payload that was meant: the deque holds
\* exactly the payloads of the outstanding transactions.
THEOREM DequeHolds == Spec => []DequeIsOutstanding
<1>1. IInv => DequeIsOutstanding
  BY DEF IInv
<1> QED BY <1>1, Inductive, PTL

\* A read returns, word by word, the last write that was asked before it.
THEOREM ReadsAreLatest == Spec => []ReadsLatestWrite
<1>1. IInv => ReadsLatestWrite
  BY DEF IInv
<1> QED BY <1>1, Inductive, PTL

\* No read is answered twice or before the DRAM has completed it.
THEOREM OneAnswer == Spec => []AnsweredOnce
<1>1. IInv => AnsweredOnce
  BY DEF IInv, AnsweredGone, AnsweredOnce
<1> QED BY <1>1, Inductive, PTL
=============================================================================
