--------------------------- MODULE NtsNetwork_proofs ---------------------------
(***************************************************************************)
(* The network simulator, for every set of packets, every cycle and runs   *)
(* of any length: as long as computing again moves no arrival to an        *)
(* earlier time or to one that has passed (NeverEarlier), every packet is  *)
(* delivered at most once, no sooner than in an empty network and behind   *)
(* all that left its ports before it, and no two share an object.          *)
(*                                                                         *)
(* First what the folds of the model compute: the flits of a packet, its   *)
(* claims and the paths.  Then the inductive invariant, what of it each    *)
(* step can disturb, and the theorems at the end.                          *)
(***************************************************************************)
EXTENDS NtsNetwork, SequenceTheorems, WellFoundedInduction, TLAPS

-----------------------------------------------------------------------------
\* Recursion

Least(ns) == CHOOSE n \in ns : \A m \in ns : n <= m

\* A set of naturals that is not empty has a least element.
LEMMA LeastIn ==
  ASSUME NEW ns, ns \subseteq Nat, ns # {}
  PROVE  Least(ns) \in ns /\ \A m \in ns : Least(ns) <= m
<1> DEFINE less == {e \in Nat \X Nat : e[1] < e[2]}
<1>1. IsWellFoundedOn(less, Nat)
  BY NatLessThanWellFounded DEF OpToRel
<1>2. \A m, n \in Nat : <<n, m>> \in less <=> n < m
  OBVIOUS
<1> HIDE DEF less
<1>3. PICK m \in ns : \A n \in ns : ~ (<<n, m>> \in less)
  BY <1>1, WFMin
<1>4. ASSUME NEW n \in ns PROVE m <= n
  <2>1. n \in Nat /\ m \in Nat /\ ~ (n < m)
    BY <1>2, <1>3
  <2> QED BY <2>1
<1>5. \E k \in ns : \A n \in ns : k <= n
  BY <1>4
<1> QED BY <1>5 DEF Least

\* What holds at 0 and is kept by every step holds up to n.
LEMMA Reaches ==
  ASSUME NEW n \in Nat, NEW T, NEW r, r[0] \in T[0],
         \A k \in 1 .. n : r[k - 1] \in T[k - 1] => r[k] \in T[k]
  PROVE  \A k \in 0 .. n : r[k] \in T[k]
<1> DEFINE bad == {k \in 0 .. n : r[k] \notin T[k]}
<1>1. SUFFICES ASSUME bad # {} PROVE FALSE
  OBVIOUS
<1>2. bad \subseteq Nat
  OBVIOUS
<1>3. Least(bad) \in bad /\ \A m \in bad : Least(bad) <= m
  BY <1>1, <1>2, LeastIn
<1> DEFINE k == Least(bad)
<1>4. k \in 0 .. n /\ r[k] \notin T[k] /\ \A m \in bad : k <= m
  BY <1>3
<1> HIDE DEF k
<1>5. k # 0
  BY <1>4
<1>6. k - 1 \in 0 .. n /\ k \in 1 .. n
  BY <1>4, <1>5
<1>7. k - 1 \notin bad
  BY <1>4, <1>6
<1>8. r[k - 1] \in T[k - 1]
  BY <1>6, <1>7
<1> QED BY <1>4, <1>6, <1>8

\* A function that is defined step by step exists.
StepsWithin(n, T, b, step) ==
  /\ n \in Nat /\ b \in T[0]
  /\ \A k \in 1 .. n : \A a \in T[k - 1] : step[k][a] \in T[k]

Run(r, n, T, b, step) ==
  /\ r = [k \in 0 .. n |-> r[k]] /\ r[0] = b
  /\ \A k \in 1 .. n : r[k] = step[k][r[k - 1]]
  /\ \A k \in 0 .. n : r[k] \in T[k]

\* A recursion whose steps stay within T has a function that satisfies it.
LEMMA Recursion ==
  ASSUME NEW n, NEW T, NEW b, NEW step, StepsWithin(n, T, b, step)
  PROVE  \E r : Run(r, n, T, b, step)
<1> USE DEF StepsWithin, Run
<1> DEFINE Is(r, m) == /\ r = [k \in 0 .. m |-> r[k]] /\ r[0] = b
                       /\ \A k \in 1 .. m : r[k] = step[k][r[k - 1]]
                       /\ \A k \in 0 .. m : r[k] \in T[k]
           bad == {m \in 0 .. n : ~ \E r : Is(r, m)}
<1>1. SUFFICES ASSUME bad # {} PROVE FALSE
  <2>1. bad = {} => \E r : Is(r, n)
    OBVIOUS
  <2> QED BY <2>1
<1>2. bad \subseteq Nat
  OBVIOUS
<1>3. Least(bad) \in bad /\ \A m \in bad : Least(bad) <= m
  BY <1>1, <1>2, LeastIn
<1> DEFINE m == Least(bad)
<1>4. m \in 0 .. n /\ ~ (\E r : Is(r, m)) /\ \A i \in bad : m <= i
  BY <1>3
<1> HIDE DEF m
<1>5. CASE m = 0
  <2> DEFINE r == [k \in 0 .. 0 |-> b]
  <2>1. 0 .. 0 = {0} /\ 1 .. 0 = {}
    OBVIOUS
  <2>2. r = [k \in 0 .. 0 |-> r[k]] /\ r[0] = b /\ \A k \in 0 .. 0 : r[k] \in T[k]
    BY <2>1
  <2>3. Is(r, m)
    BY <1>5, <2>1, <2>2
  <2> QED BY <1>4, <2>3
<1>6. CASE m # 0
  <2>1. m - 1 \in 0 .. n /\ m \in 1 .. n /\ m - 1 \notin bad
    BY <1>4, <1>6
  <2>2. PICK r : Is(r, m - 1)
    BY <2>1
  <2> DEFINE q == [k \in 0 .. m |-> IF k = m THEN step[m][r[m - 1]] ELSE r[k]]
  <2>3. \A k \in 0 .. m : k # m => k \in 0 .. m - 1
    BY <2>1
  <2>4. m \in 0 .. m /\ m - 1 \in 0 .. m - 1 /\ m - 1 \in 0 .. m /\ m - 1 # m /\ 0 \in 0 .. m
    BY <2>1
  <2>5. q[m] = step[m][q[m - 1]] /\ r[m - 1] \in T[m - 1] /\ q[m - 1] = r[m - 1]
    BY <2>2, <2>4
  <2>6. q[m] \in T[m]
    BY <2>1, <2>5
  <2>7. q = [k \in 0 .. m |-> q[k]] /\ q[0] = b
    BY <1>6, <2>2, <2>4
  <2>8. ASSUME NEW k \in 0 .. m
        PROVE  q[k] \in T[k] /\ (k # 0 => q[k] = step[k][q[k - 1]])
    <3>1. CASE k = m
      BY <2>5, <2>6, <3>1
    <3>2. CASE k # m
      <4>1. k \in 0 .. m - 1 /\ q[k] = r[k]
        BY <2>3, <3>2
      <4>2. k # 0 => k \in 1 .. m - 1 /\ k - 1 \in 0 .. m /\ k - 1 # m
        BY <4>1, <2>1
      <4>3. k # 0 => q[k - 1] = r[k - 1] /\ r[k] = step[k][r[k - 1]]
        BY <2>2, <4>2
      <4> QED BY <2>2, <4>1, <4>3
    <3> QED BY <3>1, <3>2
  <2>9. \A k \in 1 .. m : k \in 0 .. m /\ k # 0
    OBVIOUS
  <2> HIDE DEF q
  <2>10. Is(q, m)
    BY <2>7, <2>8, <2>9
  <2> QED BY <1>4, <2>10
<1> QED BY <1>5, <1>6

\* The element of a set that has one.
LEMMA Only == ASSUME NEW e PROVE (CHOOSE v \in {e} : TRUE) = e
OBVIOUS

\* What Append gives, from either end.
LEMMA Appended ==
  ASSUME NEW M, NEW s \in Seq(M), NEW e \in M
  PROVE  /\ Append(s, e) \in Seq(M) /\ Len(Append(s, e)) = Len(s) + 1 /\ Len(s) \in Nat
         /\ \A i \in 1 .. Len(s) : Append(s, e)[i] = s[i]
         /\ Append(s, e)[Len(s) + 1] = e
         /\ Last(Append(s, e)) = e /\ Front(Append(s, e)) = s
<1>1. Append(s, e) \in Seq(M) /\ Len(Append(s, e)) = Len(s) + 1 /\ Len(s) \in Nat
  OBVIOUS
<1>2. /\ \A i \in 1 .. Len(s) : Append(s, e)[i] = s[i]
      /\ Append(s, e)[Len(s) + 1] = e
  OBVIOUS
<1>3. Last(Append(s, e)) = e
  BY <1>1, <1>2 DEF Last
<1>4. Front(Append(s, e)) = s
  <2>1. /\ SubSeq(Append(s, e), 1, Len(s)) \in Seq(M)
        /\ Len(SubSeq(Append(s, e), 1, Len(s))) = Len(s)
        /\ \A i \in 1 .. Len(s) : SubSeq(Append(s, e), 1, Len(s))[i] = Append(s, e)[i]
    BY <1>1, SubSeqProperties
  <2>2. Front(Append(s, e)) = SubSeq(Append(s, e), 1, Len(s))
    BY <1>1 DEF Front
  <2> HIDE DEF Front
  <2> QED BY <1>1, <1>2, <2>1, <2>2, SeqEqual
<1> QED BY <1>1, <1>2, <1>3, <1>4

\* r has the elements of s that are in keep, in their order.
LEMMA FilteredProperties ==
  ASSUME NEW M, NEW s \in Seq(M), NEW keep, NEW rel,
         \A i, j \in 1 .. Len(s) : i < j => <<s[i], s[j]>> \in rel
  PROVE  /\ Filtered(s, keep) \in Seq(M)
         /\ Range(Filtered(s, keep)) = Range(s) \intersect keep
         /\ \A i, j \in 1 .. Len(Filtered(s, keep)) :
              i < j => <<Filtered(s, keep)[i], Filtered(s, keep)[j]>> \in rel
<1> DEFINE n == Len(s)
           op(r, e) == IF e \in keep THEN Append(r, e) ELSE r
           Good(u, k) == /\ \A j \in 1 .. Len(u) :
                             u[j] \in keep /\ \E i \in 1 .. k : u[j] = s[i]
                         /\ \A i \in 1 .. k : s[i] \in keep => \E j \in 1 .. Len(u) : u[j] = s[i]
                         /\ \A i, j \in 1 .. Len(u) : i < j => <<u[i], u[j]>> \in rel
           T == [k \in 0 .. n |-> {u \in Seq(M) : Good(u, k)}]
           step == [k \in 1 .. n |-> [a \in T[k - 1] |-> op(a, s[k])]]
           Is(f) == f = [k \in 0 .. n |-> IF k = 0 THEN <<>> ELSE
                            CHOOSE v \in {op(a, s[k]) : a \in {f[k - 1]}} : TRUE]
           r == CHOOSE f : Is(f)
<1>1. n \in Nat
  OBVIOUS
<1>2. <<>> \in T[0]
  <2>1. <<>> \in Seq(M) /\ Len(<<>>) = 0 /\ 1 .. 0 = {}
    OBVIOUS
  <2>2. Good(<<>>, 0)
    BY <2>1
  <2> QED BY <1>1, <2>1, <2>2
<1>3. ASSUME NEW k \in 1 .. n, NEW a \in T[k - 1] PROVE op(a, s[k]) \in T[k]
  <2>1. k - 1 \in 0 .. n /\ k \in 0 .. n /\ s[k] \in M /\ k \in Nat
    BY <1>1
  <2>2. a \in Seq(M) /\ Good(a, k - 1)
    BY <2>1
  <2>3. \A i \in 1 .. k : i = k \/ i \in 1 .. k - 1
    BY <2>1
  <2>4. \A i \in 1 .. k - 1 : i \in 1 .. k /\ i \in 1 .. n /\ i < k
    BY <2>1, <1>1
  <2>5. CASE s[k] \notin keep
    <3>1. op(a, s[k]) = a
      BY <2>5
    <3>2. Good(a, k)
      BY <2>2, <2>3, <2>4, <2>5
    <3> QED BY <2>1, <2>2, <3>1, <3>2
  <2>6. CASE s[k] \in keep
    <3> DEFINE u == Append(a, s[k])
    <3>1. /\ u \in Seq(M) /\ Len(u) = Len(a) + 1 /\ Len(a) \in Nat
          /\ \A i \in 1 .. Len(a) : u[i] = a[i]
          /\ u[Len(a) + 1] = s[k]
      BY <2>1, <2>2, Appended
    <3>2. op(a, s[k]) = u
      BY <2>6
    <3> HIDE DEF u
    <3>3. \A j \in 1 .. Len(u) : j \in 1 .. Len(a) \/ j = Len(a) + 1
      BY <3>1
    <3>4. \A j \in 1 .. Len(a) : j \in 1 .. Len(u) /\ j < Len(a) + 1
      BY <3>1
    <3>5. Len(a) + 1 \in 1 .. Len(u) /\ k \in 1 .. k
      BY <3>1, <2>1
    <3>6. ASSUME NEW j \in 1 .. Len(u)
          PROVE  u[j] \in keep /\ \E i \in 1 .. k : u[j] = s[i]
      <4>1. CASE j \in 1 .. Len(a)
        BY <2>2, <2>4, <3>1, <4>1
      <4>2. CASE j = Len(a) + 1
        BY <2>6, <3>1, <3>5, <4>2
      <4> QED BY <3>3, <4>1, <4>2
    <3>7. ASSUME NEW i \in 1 .. k, s[i] \in keep
          PROVE  \E j \in 1 .. Len(u) : u[j] = s[i]
      <4>1. CASE i = k
        BY <3>1, <3>5, <4>1
      <4>2. CASE i \in 1 .. k - 1
        <5>1. PICK j \in 1 .. Len(a) : a[j] = s[i]
          BY <2>2, <3>7, <4>2
        <5> QED BY <3>1, <3>4, <5>1
      <4> QED BY <2>3, <4>1, <4>2
    <3>8. ASSUME NEW i \in 1 .. Len(u), NEW j \in 1 .. Len(u), i < j
          PROVE  <<u[i], u[j]>> \in rel
      <4>1. i \in 1 .. Len(a)
        BY <3>1, <3>8
      <4>2. CASE j \in 1 .. Len(a)
        BY <2>2, <3>1, <3>8, <4>1, <4>2
      <4>3. CASE j = Len(a) + 1
        <5>1. PICK m \in 1 .. k - 1 : a[i] = s[m]
          BY <2>2, <4>1
        <5>2. <<s[m], s[k]>> \in rel
          BY <2>4, <1>1, <5>1
        <5> QED BY <3>1, <4>1, <4>3, <5>1, <5>2
      <4> QED BY <3>3, <4>2, <4>3
    <3>9. Good(u, k)
      BY <3>6, <3>7, <3>8
    <3> HIDE DEF Good, op
    <3>10. u \in T[k]
      BY <2>1, <3>1, <3>9
    <3> QED BY <3>2, <3>10
  <2> QED BY <2>5, <2>6
<1> HIDE DEF T, n
<1>4. \A k \in 1 .. n : \A a \in T[k - 1] : step[k][a] = op(a, s[k])
  OBVIOUS
<1>5. \A k \in 1 .. n : \A a \in T[k - 1] : step[k][a] \in T[k]
  BY <1>3, <1>4
<1> HIDE DEF step
<1>6. PICK g : Run(g, n, T, <<>>, step)
  <2>1. StepsWithin(n, T, <<>>, step)
    BY <1>1, <1>2, <1>5 DEF StepsWithin
  <2> QED BY <2>1, Recursion
<1> HIDE DEF op
<1>7. \A f, k : (CHOOSE v \in {op(a, s[k]) : a \in {f[k - 1]}} : TRUE) = op(f[k - 1], s[k])
  <2> TAKE f, k
  <2>1. {op(a, s[k]) : a \in {f[k - 1]}} = {op(f[k - 1], s[k])}
    OBVIOUS
  <2> QED BY <2>1, Only, Zenon
<1>8. Is(g)
  <2> DEFINE F(k) == IF k = 0 THEN <<>> ELSE
                       CHOOSE v \in {op(a, s[k]) : a \in {g[k - 1]}} : TRUE
  <2>1. ASSUME NEW k \in 0 .. n PROVE g[k] = F(k)
    <3>1. CASE k = 0
      BY <1>6, <3>1 DEF Run
    <3>2. CASE k # 0
      <4>1. k \in 1 .. n /\ k - 1 \in 0 .. n
        BY <1>1, <3>2
      <4>2. g[k] = op(g[k - 1], s[k])
        BY <1>4, <1>6, <4>1 DEF Run
      <4>3. F(k) = op(g[k - 1], s[k])
        BY <1>7, <3>2, Zenon
      <4> QED BY <4>2, <4>3
    <3> QED BY <3>1, <3>2
  <2> HIDE DEF F
  <2>2. g = [k \in 0 .. n |-> F(k)]
    BY <1>6, <2>1 DEF Run
  <2> QED BY <2>2, Zenon DEF F
<1>9. Is(r)
  BY <1>8, Zenon
<1>10. r[0] = <<>> /\ \A k \in 1 .. n : r[k] = op(r[k - 1], s[k])
  <2> HIDE DEF r
  <2>1. r[0] = <<>>
    BY <1>1, <1>9
  <2>2. ASSUME NEW k \in 1 .. n PROVE r[k] = op(r[k - 1], s[k])
    <3>1. k \in 0 .. n /\ k # 0
      BY <1>1
    <3>2. r[k] = CHOOSE v \in {op(a, s[k]) : a \in {r[k - 1]}} : TRUE
      BY <1>9, <3>1
    <3> QED BY <1>7, <3>2
  <2> QED BY <2>1, <2>2
<1> HIDE DEF Is, r
<1>11. \A k \in 1 .. n : r[k - 1] \in T[k - 1] => r[k] \in T[k]
  BY <1>3, <1>10
<1>12. r[n] \in T[n]
  <2>1. \A k \in 0 .. n : r[k] \in T[k]
    BY <1>1, <1>2, <1>10, <1>11, Reaches
  <2> QED BY <1>1, <2>1
<1>13. Filtered(s, keep) = r[n]
  BY DEF Filtered, Fold, r, Is, op, n
<1>14. r[n] \in Seq(M) /\ Good(r[n], n)
  BY <1>1, <1>12 DEF T
<1>15. Range(r[n]) = Range(s) \intersect keep
  <2> DEFINE u == r[n]
  <2>1. u \in Seq(M) /\ Good(u, n)
    BY <1>14
  <2> HIDE DEF u
  <2>2. DOMAIN u = 1 .. Len(u) /\ DOMAIN s = 1 .. n
    BY <2>1, LenProperties DEF n
  <2>3. ASSUME NEW e \in Range(u) PROVE e \in Range(s) \intersect keep
    <3>1. PICK j \in 1 .. Len(u) : e = u[j]
      BY <2>2 DEF Range
    <3>2. u[j] \in keep /\ \E i \in 1 .. n : u[j] = s[i]
      BY <2>1
    <3> QED BY <2>2, <3>1, <3>2 DEF Range
  <2>4. ASSUME NEW e \in Range(s) \intersect keep PROVE e \in Range(u)
    <3>1. PICK i \in 1 .. n : e = s[i]
      BY <2>2 DEF Range
    <3>2. \E j \in 1 .. Len(u) : u[j] = s[i]
      BY <2>1, <3>1
    <3> QED BY <2>2, <3>1, <3>2 DEF Range
  <2>5. Range(u) = Range(s) \intersect keep
    BY <2>3, <2>4
  <2> QED BY <2>5 DEF u
<1>16. \A i, j \in 1 .. Len(r[n]) : i < j => <<r[n][i], r[n][j]>> \in rel
  BY <1>14
<1> HIDE DEF Good
<1> QED BY <1>13, <1>14, <1>15, <1>16

\* The times at which something happens at a port: the beginnings of cycles.
Times == {t \in Int : t % Clk = 0}

\* The cycle and its half.
LEMMA ClkType == Clk \in Int /\ Clk > 0 /\ Half \in Int /\ 0 <= Half /\ Half < Clk
BY ClkAssumption DEF Half

\* A multiple and the ones next to it.
LEMMA Products ==
  ASSUME NEW a \in Int, NEW c \in Int
  PROVE  /\ a * c \in Int /\ (a + 1) * c = a * c + c /\ (a - 1) * c = a * c - c
         /\ a >= 0 /\ c >= 0 => a * c >= 0
OBVIOUS

\* Different multiples of the cycle are a cycle apart.
LEMMA Factors ==
  ASSUME NEW a \in Int, NEW b \in Int, a * Clk < b * Clk
  PROVE  a * Clk + Clk <= b * Clk
<1>1. a < b
  <2>1. SUFFICES ASSUME b <= a PROVE FALSE
    OBVIOUS
  <2>2. a - b \in Int /\ a - b >= 0
    BY <2>1
  <2>3. (a - b) * Clk >= 0
    BY <2>2, ClkType, Products
  <2>4. (a - b) * Clk = a * Clk - b * Clk
    BY ClkType
  <2> QED BY <2>3, <2>4, ClkType
<1>2. b - a - 1 \in Int /\ b - a - 1 >= 0
  BY <1>1
<1>3. (b - a - 1) * Clk >= 0
  BY <1>2, ClkType, Products
<1>4. (b - a - 1) * Clk = b * Clk - a * Clk - Clk
  BY ClkType
<1> QED BY <1>3, <1>4, ClkType

\* The times of the simulation are the multiples of the cycle.
LEMMA TimesAre ==
  ASSUME NEW t
  PROVE  t \in Times <=> \E k \in Int : t = k * Clk
<1>1. Clk \in Int /\ Clk > 0
  BY ClkType
<1>2. ASSUME t \in Times PROVE \E k \in Int : t = k * Clk
  <2>1. t \in Int /\ t % Clk = 0
    BY <1>2 DEF Times
  <2>2. t \div Clk \in Int /\ t = (t \div Clk) * Clk
    BY <1>1, <2>1
  <2> QED BY <2>2
<1>3. ASSUME NEW k \in Int, t = k * Clk PROVE t \in Times
  <2>1. t \in Int /\ t % Clk = 0
    BY <1>1, <1>3, Z3
  <2> QED BY <2>1 DEF Times
<1> QED BY <1>2, <1>3

\* A time, whole cycles later, is a time; the next one is a cycle later.
LEMMA TimesType ==
  ASSUME NEW t \in Times
  PROVE  /\ t \in Int /\ t + Clk \in Times
         /\ \A m \in Int : t + m * Clk \in Times
         /\ \A u \in Times : t < u => t + Clk <= u
<1>1. PICK k \in Int : t = k * Clk
  BY TimesAre
<1>2. t \in Int
  BY <1>1, ClkType
<1>3. t + Clk \in Times
  <2>1. t + Clk = (k + 1) * Clk /\ k + 1 \in Int
    BY <1>1, ClkType
  <2> QED BY <2>1, TimesAre
<1>4. ASSUME NEW m \in Int PROVE t + m * Clk \in Times
  <2>1. t + m * Clk = (k + m) * Clk /\ k + m \in Int
    BY <1>1, ClkType
  <2> QED BY <2>1, TimesAre
<1>5. ASSUME NEW u \in Times, t < u PROVE t + Clk <= u
  <2>1. PICK j \in Int : u = j * Clk
    BY TimesAre
  <2> QED BY <1>1, <1>5, <2>1, Factors
<1> QED BY <1>2, <1>3, <1>4, <1>5

\* The simulation starts at a time.
LEMMA ZeroTime == 0 \in Times
<1>1. 0 = 0 * Clk
  BY ClkType
<1> QED BY <1>1, TimesAre

\* How many cycles have passed.
LEMMA Quotients ==
  ASSUME NEW a \in Int
  PROVE  a \div Clk \in Int /\ (a >= 0 => a \div Clk >= 0)
<1>1. Clk \in Int /\ Clk > 0
  BY ClkType
<1> QED BY <1>1

\* A bi-synchronous FIFO delays by a cycle, when both its sides have the same clock.
LEMMA ThroughLater ==
  ASSUME NEW t \in Times
  PROVE  Through_BiSyncFIFO(t) = t + Clk
<1>1. PICK k \in Int : t = k * Clk
  BY TimesAre
<1>2. (k * Clk + Half) \div Clk = k
  <2>1. Clk \in Int /\ Clk > 0 /\ Half \in Int /\ 0 <= Half /\ Half < Clk
    BY ClkType
  <2> QED BY <2>1, Z3
<1>3. (k + 1) * Clk = k * Clk + Clk
  BY ClkType, Products
<1> QED BY <1>1, <1>2, <1>3 DEF Through_BiSyncFIFO

\* The first time after a bound is not before the time it starts from.
LEMMA AfterLater ==
  ASSUME NEW t \in Times, NEW bound \in Int
  PROVE  After(t, bound) \in Times /\ After(t, bound) >= t
<1>1. t \in Int
  BY TimesType
<1>2. CASE t > bound
  BY <1>1, <1>2 DEF After
<1>3. CASE ~ (t > bound)
  <2> DEFINE q == (bound - t) \div Clk
  <2>1. q \in Int /\ q >= 0
    BY <1>1, <1>3, Quotients
  <2> HIDE DEF q
  <2>2. (q + 1) * Clk >= 0 /\ (q + 1) * Clk \in Int /\ q + 1 \in Int
    BY <2>1, ClkType, Products
  <2>3. After(t, bound) = t + (q + 1) * Clk
    BY <1>3 DEF After, q
  <2> QED BY <1>1, <2>2, <2>3, TimesType
<1> QED BY <1>2, <1>3

\* When a FIFO is read is a number, whatever clock edge it waits for.
LEMMA ReadType ==
  ASSUME NEW t \in Int
  PROVE  ReadFromFIFO(t) \in Int /\ (t \div Clk + 1) * Clk \in Int
<1>1. t \div Clk \in Int
  BY Quotients
<1>2. (t \div Clk + 1) * Clk \in Int
  BY <1>1, ClkType
<1> QED BY <1>2, ClkType DEF ReadFromFIFO

\* Every PE sits at a switch.
LEMMA SwitchRange ==
  ASSUME NEW pe \in PE
  PROVE  SwitchOf(pe) \in 0 .. 15
BY DEF PE, SwitchOf

\* A packet goes through no switch twice.
LEMMA SwitchesDiffer ==
  ASSUME NEW src \in PE, NEW dst \in PE
  PROVE  \E n \in Nat :
           /\ n >= 1 /\ DOMAIN TrPath_SW(src, dst) = 1 .. n
           /\ TrPath_SW(src, dst) \in [1 .. n -> Int]
           /\ \A i, j \in 1 .. n : TrPath_SW(src, dst)[i] = TrPath_SW(src, dst)[j] => i = j
<1> DEFINE from == SwitchOf(src)
           to == SwitchOf(dst)
           dc == ColOf(to) - ColOf(from)
           dr == RowOf(to) - RowOf(from)
           n == Dist(dc) + Dist(dr) + 1
           At1(k) == from + Sign(dc) * (k - 1)
           At2(k) == from + dc + 4 * Sign(dr) * (k - 1 - Dist(dc))
           sw == [k \in 1 .. n |-> IF k - 1 <= Dist(dc) THEN At1(k) ELSE At2(k)]
<1>1. from \in 0 .. 15 /\ to \in 0 .. 15
  BY SwitchRange
<1> HIDE DEF from, to
<1>2. dc \in Int /\ dr \in Int /\ dc >= -3 /\ dc <= 3
  BY <1>1 DEF ColOf, RowOf
<1> HIDE DEF dc, dr
<1>3. /\ Dist(dc) \in Nat /\ Dist(dr) \in Nat /\ Dist(dc) <= 3
      /\ Sign(dc) \in {-1, 0, 1} /\ Sign(dr) \in {-1, 0, 1}
      /\ (Sign(dc) = 1 /\ dc = Dist(dc)) \/ (Sign(dc) = -1 /\ dc = - Dist(dc))
         \/ (Sign(dc) = 0 /\ Dist(dc) = 0 /\ dc = 0)
      /\ Sign(dr) # 0 \/ Dist(dr) = 0
  BY <1>2 DEF Dist, Sign
<1>4. n \in Nat /\ n >= 1
  BY <1>3
<1>5. TrPath_SW(src, dst) = sw
  BY DEF TrPath_SW, from, to, dc, dr
<1>6. ASSUME NEW k \in 1 .. n PROVE sw[k] \in Int
  <2>1. At1(k) \in Int /\ At2(k) \in Int
    BY <1>1, <1>2, <1>3
  <2> QED BY <2>1
<1>7. ASSUME NEW i \in 1 .. n, NEW j \in 1 .. n, i < j PROVE sw[i] # sw[j]
  <2> DEFINE a == i - 1
             b == j - 1
             d == Dist(dc)
             e == Dist(dr)
             u == Sign(dc)
             v == Sign(dr)
  <2>1. /\ a \in Nat /\ b \in Nat /\ d \in Nat /\ e \in Nat /\ a < b /\ b <= d + e /\ d <= 3
        /\ u \in {-1, 0, 1} /\ v \in {-1, 0, 1}
        /\ (u = 1 /\ dc = d) \/ (u = -1 /\ dc = - d) \/ (u = 0 /\ d = 0 /\ dc = 0)
        /\ v # 0 \/ e = 0
    BY <1>3, <1>7
  <2>2. /\ sw[i] = (IF a <= d THEN from + u * a ELSE from + dc + 4 * v * (a - d))
        /\ sw[j] = (IF b <= d THEN from + u * b ELSE from + dc + 4 * v * (b - d))
    OBVIOUS
  <2> HIDE DEF a, b, d, e, u, v, sw
  <2>3. u * a = a \/ u * a = - a \/ (u = 0 /\ u * a = 0)
    BY <2>1
  <2>4. from \in Int /\ dc \in Int
    BY <1>1, <1>2
  <2>5. CASE b <= d
    <3>1. sw[i] = from + u * a /\ sw[j] = from + u * b /\ u # 0
      BY <2>1, <2>2, <2>5
    <3>2. CASE u = 1
      BY <2>1, <2>4, <3>1, <3>2
    <3>3. CASE u = -1
      BY <2>1, <2>4, <3>1, <3>3
    <3> QED BY <2>1, <3>1, <3>2, <3>3
  <2>6. CASE b > d
    <3>1. v # 0 /\ sw[j] = from + dc + 4 * v * (b - d) /\ (v = 1 \/ v = -1)
      BY <2>1, <2>2, <2>6
    <3>2. CASE a > d
      <4>1. sw[i] = from + dc + 4 * v * (a - d)
        BY <2>1, <2>2, <3>2
      <4> QED BY <2>1, <2>4, <3>1, <3>2, <4>1
    <3>3. CASE a <= d
      <4>1. sw[i] = from + u * a
        BY <2>1, <2>2, <3>3
      <4>2. dc - u * a \in -3 .. 3
        BY <2>1, <3>3
      <4>3. 4 * v * (b - d) >= 4 \/ 4 * v * (b - d) <= -4
        BY <2>1, <2>6, <3>1
      <4> QED BY <2>1, <2>4, <3>1, <4>1, <4>2, <4>3
    <3> QED BY <2>1, <3>2, <3>3
  <2> QED BY <2>1, <2>5, <2>6
<1> HIDE DEF sw, n
<1>8. DOMAIN sw = 1 .. n /\ sw \in [1 .. n -> Int]
  BY <1>6 DEF sw
<1>9. \A i, j \in 1 .. n : sw[i] = sw[j] => i = j
  <2> TAKE i, j \in 1 .. n
  <2>1. i < j \/ j < i \/ i = j
    BY <1>4
  <2> QED BY <1>7, <2>1
<1> QED BY <1>4, <1>5, <1>8, <1>9

\* A function on 1 .. n is a sequence.
LEMMA AsSeq ==
  ASSUME NEW M, NEW n \in Nat, NEW f \in [1 .. n -> M]
  PROVE  f \in Seq(M) /\ Len(f) = n /\ DOMAIN f = 1 .. n
<1>1. f \in Seq(M)
  BY SeqDef
<1>2. Len(f) \in Nat /\ DOMAIN f = 1 .. Len(f) /\ DOMAIN f = 1 .. n
  BY <1>1, LenProperties
<1>3. Len(f) = n
  BY <1>2
<1> QED BY <1>1, <1>2, <1>3

\* A sequence between two elements.
LEMMA Between ==
  ASSUME NEW M, NEW n \in Nat, NEW f \in [1 .. n -> M], NEW a \in M, NEW b \in M
  PROVE  LET s == <<a>> \o f \o <<b>>
         IN  /\ s \in Seq(M) /\ Len(s) = n + 2 /\ DOMAIN s = 1 .. n + 2
             /\ s[1] = a /\ s[n + 2] = b
             /\ \A i \in 2 .. n + 1 : s[i] = f[i - 1]
<1>1. f \in Seq(M) /\ Len(f) = n
  BY AsSeq
<1>2. <<a>> \in Seq(M) /\ <<b>> \in Seq(M) /\ Len(<<a>>) = 1 /\ Len(<<b>>) = 1
      /\ <<a>>[1] = a /\ <<b>>[1] = b
  OBVIOUS
<1> DEFINE g == <<a>> \o f
<1>3. /\ g \in Seq(M) /\ Len(g) = n + 1 /\ g[1] = a
      /\ \A i \in 2 .. n + 1 : g[i] = f[i - 1]
  BY <1>1, <1>2
<1> HIDE DEF g
<1>4. /\ g \o <<b>> \in Seq(M) /\ Len(g \o <<b>>) = n + 2 /\ (g \o <<b>>)[n + 2] = b
      /\ \A i \in 1 .. n + 1 : (g \o <<b>>)[i] = g[i]
  BY <1>2, <1>3
<1>5. DOMAIN (g \o <<b>>) = 1 .. n + 2
  BY <1>4
<1> QED BY <1>3, <1>4, <1>5 DEF g

RxOf(src, dst) == RxPath[<<src, dst>>]
TxOf(src, dst) == TxPath[<<src, dst>>]

\* A path has as many outputs as inputs, all inputs differ, and none is an output of a switch.
IsPath(rx, tx) ==
  \E n \in Nat :
    /\ n >= 3 /\ DOMAIN rx = 1 .. n /\ DOMAIN tx = 1 .. n /\ Len(rx) = n /\ Len(tx) = n
    /\ \A i, j \in 1 .. n : rx[i] = rx[j] => i = j
    /\ \A i \in 1 .. n : rx[i][1] # "tx"
    /\ \A i \in 2 .. n - 1 : tx[i][1] = "tx"
    /\ tx[1] = rx[1] /\ tx[n] = rx[n]

\* The path between two PEs has three ports or more, none twice: inputs of switches and the two
\* ends, left by outputs of switches in between.
LEMMA Paths ==
  ASSUME NEW src \in PE, NEW dst \in PE
  PROVE  IsPath(RxOf(src, dst), TxOf(src, dst))
<1> DEFINE sw == TrPath_SW(src, dst)
           in(i) == <<"rx", sw[i], IF i = 1 THEN WiredTo(src) ELSE EntersBy(sw[i - 1], sw[i])>>
           out(i) == <<"tx", sw[i], IF i = Len(sw) THEN WiredTo(dst)
                                    ELSE LeavesBy(sw[i], sw[i + 1])>>
           a == <<"out", src, IP>>
           b == <<"in", dst, IP>>
           f == [i \in DOMAIN sw |-> in(i)]
           g == [i \in DOMAIN sw |-> out(i)]
           rx == <<a>> \o f \o <<b>>
           tx == <<a>> \o g \o <<b>>
<1>1. RxOf(src, dst) = rx /\ TxOf(src, dst) = tx
  BY DEF RxOf, TxOf, RxPath, TxPath, SearchRxPath, SearchTxPath
<1>2. PICK n \in Nat : /\ n >= 1 /\ DOMAIN sw = 1 .. n
                       /\ \A i, j \in 1 .. n : sw[i] = sw[j] => i = j
  BY SwitchesDiffer
<1> HIDE DEF sw
<1>3. f = [i \in 1 .. n |-> in(i)] /\ g = [i \in 1 .. n |-> out(i)]
  BY <1>2
<1> DEFINE M == {f[i] : i \in 1 .. n} \union {g[i] : i \in 1 .. n} \union {a, b}
<1>4. f \in [1 .. n -> M] /\ g \in [1 .. n -> M] /\ a \in M /\ b \in M
  BY <1>3
<1>5. /\ \A i \in 1 .. n : f[i][1] = "rx" /\ f[i][2] = sw[i] /\ g[i][1] = "tx"
      /\ a[1] = "out" /\ b[1] = "in"
  BY <1>3
<1> HIDE DEF M, f, g, a, b
<1>6. /\ Len(rx) = n + 2 /\ DOMAIN rx = 1 .. n + 2 /\ rx[1] = a /\ rx[n + 2] = b
      /\ \A i \in 2 .. n + 1 : rx[i] = f[i - 1]
  BY <1>4, Between
<1>7. /\ Len(tx) = n + 2 /\ DOMAIN tx = 1 .. n + 2 /\ tx[1] = a /\ tx[n + 2] = b
      /\ \A i \in 2 .. n + 1 : tx[i] = g[i - 1]
  BY <1>4, Between
<1> HIDE DEF rx, tx
<1>8. \A i \in 1 .. n + 2 : i = 1 \/ i = n + 2 \/ (i \in 2 .. n + 1 /\ i - 1 \in 1 .. n)
  BY <1>2
<1>9. \A i \in 1 .. n + 2 : rx[i][1] # "tx"
  BY <1>5, <1>6, <1>8
<1>10. \A i, j \in 1 .. n + 2 : rx[i] = rx[j] => i = j
  BY <1>2, <1>5, <1>6, <1>8, SMTT(40)
<1>11. \A i \in 2 .. n + 1 : tx[i][1] = "tx"
  BY <1>5, <1>7, <1>8
<1>12. n + 2 >= 3 /\ n + 2 \in Nat /\ n + 2 - 1 = n + 1
  BY <1>2
<1> QED BY <1>1, <1>6, <1>7, <1>9, <1>10, <1>11, <1>12, SMTT(40) DEF IsPath

\* The ports of a path are among those in use.
LEMMA PathPorts ==
  ASSUME NEW f \in Flows
  PROVE  /\ \A i \in 1 .. Len(RxOf(f.src, f.dst)) : RxOf(f.src, f.dst)[i] \in PortsInUse
         /\ \A i \in 2 .. Len(TxOf(f.src, f.dst)) - 1 : TxOf(f.src, f.dst)[i] \in PortsInUse
<1>1. f.src \in PE /\ f.dst \in PE
  BY NtsNetworkAssumption
<1>2. PICK n \in Nat : DOMAIN RxOf(f.src, f.dst) = 1 .. n /\ Len(RxOf(f.src, f.dst)) = n
  BY <1>1, Paths DEF IsPath
<1>3. \A i \in 1 .. n : RxOf(f.src, f.dst)[i] \in Range(RxOf(f.src, f.dst))
  BY <1>2 DEF Range
<1> DEFINE mine == Range(RxPath[<<f.src, f.dst>>]) \union
                   {TxPath[<<f.src, f.dst>>][i] : i \in 2 .. Len(TxPath[<<f.src, f.dst>>]) - 1}
<1>4. mine \subseteq PortsInUse
  BY Zenon DEF PortsInUse
<1>5. \A i \in 1 .. n : RxOf(f.src, f.dst)[i] \in mine
  BY <1>3, Zenon DEF RxOf
<1>6. \A i \in 2 .. Len(TxOf(f.src, f.dst)) - 1 : TxOf(f.src, f.dst)[i] \in mine
  BY Zenon DEF TxOf
<1> QED BY <1>2, <1>4, <1>5, <1>6

\* From the header, which comes at h, each flit comes at least a cycle after the one before.
Grows(s, h, n) ==
  /\ s \in Seq(Times) /\ Len(s) = n
  /\ \A m \in 3 .. n : s[m] >= h + (m - 3) * Clk

\* The first j of the m places have sent one flit more than the others.
Stage(flits, header, m, n, j) ==
  /\ flits = [i \in 1 .. m |-> flits[i]]
  /\ \A i \in 1 .. m : Grows(flits[i], header[i], IF i <= j THEN n + 1 ELSE n)

\* What follows from the times of the flits at a place so far.
LEMMA GrowsType ==
  ASSUME NEW s, NEW h \in Times, NEW n \in Nat, n >= 3, Grows(s, h, n)
  PROVE  /\ s \in Seq(Times) /\ Len(s) = n /\ \A m \in 1 .. n : s[m] \in Times /\ s[m] \in Int
         /\ Last(s) = s[n] /\ Last(s) \in Times /\ Last(s) \in Int
         /\ Last(s) >= h + (n - 3) * Clk /\ (n - 3) * Clk >= 0 /\ (n - 3) * Clk \in Int
         /\ h \in Int
<1>1. s \in Seq(Times) /\ Len(s) = n
  BY DEF Grows
<1>2. \A m \in 1 .. n : s[m] \in Times
  BY <1>1
<1>3. \A t \in Times : t \in Int
  BY TimesType
<1>4. n \in 1 .. n /\ n \in 3 .. n /\ n - 3 \in Int /\ n - 3 >= 0
  OBVIOUS
<1>5. Last(s) = s[n]
  BY <1>1 DEF Last
<1>6. s[n] >= h + (n - 3) * Clk
  BY <1>4 DEF Grows
<1>7. (n - 3) * Clk >= 0 /\ (n - 3) * Clk \in Int
  BY <1>4, ClkType, Products
<1> QED BY <1>1, <1>2, <1>3, <1>4, <1>5, <1>6, <1>7

\* One more flit, a cycle or more behind the last.
LEMMA GrowsOn ==
  ASSUME NEW s, NEW h \in Times, NEW n \in Nat, n >= 3, Grows(s, h, n),
         NEW t \in Times, t >= Last(s) + Clk
  PROVE  Grows(Append(s, t), h, n + 1)
<1>1. /\ s \in Seq(Times) /\ Len(s) = n /\ Last(s) \in Int
      /\ Last(s) >= h + (n - 3) * Clk /\ (n - 3) * Clk \in Int /\ h \in Int
  BY GrowsType
<1>2. /\ Append(s, t) \in Seq(Times) /\ Len(Append(s, t)) = n + 1
      /\ \A i \in 1 .. n : Append(s, t)[i] = s[i]
      /\ Append(s, t)[n + 1] = t
  BY <1>1, Appended
<1>3. (n + 1 - 3) * Clk = (n - 3) * Clk + Clk
  BY ClkType
<1>4. t \in Int
  BY TimesType
<1>5. t >= h + (n + 1 - 3) * Clk
  BY <1>1, <1>3, <1>4, ClkType
<1>6. \A m \in 3 .. n : s[m] >= h + (m - 3) * Clk
  BY DEF Grows
<1>7. \A m \in 3 .. n + 1 : m = n + 1 \/ (m \in 3 .. n /\ m \in 1 .. n)
  OBVIOUS
<1> HIDE DEF Grows
<1>8. \A m \in 3 .. n + 1 : Append(s, t)[m] >= h + (m - 3) * Clk
  BY <1>2, <1>5, <1>6, <1>7
<1> QED BY <1>2, <1>8 DEF Grows

\* One flit less.
LEMMA GrowsFront ==
  ASSUME NEW s, NEW h \in Times, NEW n \in Nat, n >= 4, Grows(s, h, n)
  PROVE  Grows(Front(s), h, n - 1)
<1>1. s \in Seq(Times) /\ Len(s) = n /\ \A m \in 3 .. n : s[m] >= h + (m - 3) * Clk
  BY DEF Grows
<1>2. Front(s) = SubSeq(s, 1, n - 1)
  BY <1>1 DEF Front
<1>3. /\ Front(s) \in Seq(Times) /\ Len(Front(s)) = n - 1
      /\ \A i \in 1 .. n - 1 : Front(s)[i] = s[i]
  BY <1>1, <1>2, SubSeqProperties
<1>4. \A m \in 3 .. n - 1 : m \in 1 .. n - 1 /\ m \in 3 .. n
  OBVIOUS
<1> QED BY <1>1, <1>3, <1>4 DEF Grows

\* What follows from the times of the flits at all places so far.
LEMMA StageType ==
  ASSUME NEW m \in Nat, NEW n \in Nat, n >= 3, NEW j, NEW header \in [1 .. m -> Times],
         NEW flits, Stage(flits, header, m, n, j)
  PROVE  /\ flits \in [1 .. m -> Seq(Times)] /\ Len(flits) = m /\ DOMAIN flits = 1 .. m
         /\ \A i \in 1 .. m : header[i] \in Times
<1>1. \A i \in 1 .. m : flits[i] \in Seq(Times)
  BY DEF Stage, Grows
<1>2. flits \in [1 .. m -> Seq(Times)]
  <2>1. flits = [i \in 1 .. m |-> flits[i]]
    BY DEF Stage
  <2> QED BY <1>1, <2>1
<1> QED BY <1>2, AsSeq

\* Replacing the flits of one place.
LEMMA StagePut ==
  ASSUME NEW m \in Nat, NEW n \in Nat, n >= 3, NEW j, NEW k, NEW header \in [1 .. m -> Times],
         NEW flits, Stage(flits, header, m, n, j), NEW i \in 1 .. m, NEW s,
         Grows(s, header[i], IF i <= k THEN n + 1 ELSE n),
         \A h \in 1 .. m : h # i => (h <= j <=> h <= k)
  PROVE  Stage([flits EXCEPT ![i] = s], header, m, n, k)
<1> DEFINE new == [flits EXCEPT ![i] = s]
<1>1. flits = [h \in 1 .. m |-> flits[h]]
  BY DEF Stage
<1>2. new = [h \in 1 .. m |-> new[h]] /\ new[i] = s /\ \A h \in 1 .. m : h # i => new[h] = flits[h]
  BY <1>1
<1> HIDE DEF new
<1>3. ASSUME NEW h \in 1 .. m PROVE Grows(new[h], header[h], IF h <= k THEN n + 1 ELSE n)
  <2>1. CASE h = i
    BY <1>2, <2>1
  <2>2. CASE h # i
    <3>1. Grows(flits[h], header[h], IF h <= j THEN n + 1 ELSE n)
      BY DEF Stage
    <3>2. (IF h <= k THEN n + 1 ELSE n) = (IF h <= j THEN n + 1 ELSE n)
      BY <2>2
    <3> QED BY <1>2, <2>2, <3>1, <3>2
  <2> QED BY <2>1, <2>2
<1>4. Stage(new, header, m, n, k)
  BY <1>2, <1>3 DEF Stage
<1> QED BY <1>4 DEF new

\* Other times at a place that has sent as many flits.
LEMMA StageKept ==
  ASSUME NEW m \in Nat, NEW n \in Nat, n >= 3, NEW j, NEW header \in [1 .. m -> Times],
         NEW flits, Stage(flits, header, m, n, j), NEW i \in 1 .. m, NEW s,
         Grows(s, header[i], IF i <= j THEN n + 1 ELSE n)
  PROVE  Stage([flits EXCEPT ![i] = s], header, m, n, j)
<1>1. \A h \in 1 .. m : h # i => (h <= j <=> h <= j)
  OBVIOUS
<1> QED BY <1>1, StagePut

\* A flit that is sent again at a next place is still a cycle behind the one before.
LEMMA Resent ==
  ASSUME NEW m \in Nat, NEW n \in Nat, n >= 4, NEW header \in [1 .. m -> Times],
         NEW flits, NEW i \in 1 .. m, Stage(flits, header, m, n, i),
         NEW f \in i + 1 .. m
  PROVE  Stage(ResendFlit(flits, i, f), header, m, n, i)
<1> DEFINE prev == flits[f - 1]
           written == Last(prev) - Half
           kept == Front(flits[f])
           bound == IF f = i + 1 THEN written ELSE prev[Len(kept) + 1] + Half
           cycle == After(Last(kept) + Clk, bound)
           ahead == flits[f + 1][Len(kept) - FIFO_size]
           sync == (ahead \div Clk + 1) * Clk
           read == IF sync - ahead <= Half THEN sync + Half
                   ELSE flits[i + 1][Len(kept) - FIFO_size]
           last == IF f = Len(flits) THEN cycle ELSE After(cycle, read)
<1>1. ResendFlit(flits, i, f) = [flits EXCEPT ![f] = Append(kept, last)]
  BY DEF ResendFlit
<1>2. f \in 1 .. m /\ f - 1 \in 1 .. m /\ ~ (f <= i) /\ n - 1 \in Nat /\ n - 1 >= 3
      /\ i + 1 \in 1 .. m
  OBVIOUS
<1>3. Len(flits) = m /\ \A h \in 1 .. m : header[h] \in Times
  BY StageType
<1>4. Grows(flits[f], header[f], n)
  BY <1>2 DEF Stage
<1>5. Grows(kept, header[f], n - 1)
  BY <1>2, <1>3, <1>4, GrowsFront
<1>6. Len(kept) = n - 1 /\ Last(kept) \in Times /\ Last(kept) \in Int
  BY <1>2, <1>3, <1>5, GrowsType
<1>7. \A h \in 1 .. m : /\ Grows(flits[h], header[h], n) \/ Grows(flits[h], header[h], n + 1)
                        /\ h > i => Grows(flits[h], header[h], n)
  BY DEF Stage
<1>8. \A h \in 1 .. m : Last(flits[h]) \in Int /\ \A k \in 1 .. n : flits[h][k] \in Int
  <2> TAKE h \in 1 .. m
  <2>1. CASE Grows(flits[h], header[h], n)
    BY <1>3, <2>1, GrowsType
  <2>2. CASE Grows(flits[h], header[h], n + 1)
    <3>1. n + 1 \in Nat /\ n + 1 >= 3 /\ \A k \in 1 .. n : k \in 1 .. n + 1
      OBVIOUS
    <3> QED BY <1>3, <2>2, <3>1, GrowsType
  <2> QED BY <1>7, <2>1, <2>2
<1>9. Half \in Int
  BY ClkType
<1> HIDE DEF kept
<1>10. bound \in Int
  <2>1. written \in Int
    BY <1>2, <1>8, <1>9
  <2>2. Len(kept) + 1 \in 1 .. n
    BY <1>6
  <2>3. prev[Len(kept) + 1] \in Int
    BY <1>2, <1>8, <2>2
  <2> QED BY <1>9, <2>1, <2>3
<1> HIDE DEF bound
<1>11. Last(kept) + Clk \in Times
  BY <1>6, TimesType
<1>12. cycle \in Times /\ cycle >= Last(kept) + Clk
  BY <1>10, <1>11, AfterLater
<1> HIDE DEF cycle
<1>13. CASE f = Len(flits)
  <2>1. last = cycle
    BY <1>13
  <2>2. Grows(Append(kept, cycle), header[f], n - 1 + 1)
    BY <1>2, <1>3, <1>5, <1>12, GrowsOn
  <2>3. n - 1 + 1 = n
    OBVIOUS
  <2>4. Grows(Append(kept, last), header[f], IF f <= i THEN n + 1 ELSE n)
    BY <1>2, <2>1, <2>2, <2>3
  <2> HIDE DEF last
  <2> HIDE DEF last
  <2>20. n >= 3 /\ f \in 1 .. m
    BY <1>2
  <2>21. Stage([flits EXCEPT ![f] = Append(kept, last)], header, m, n, i)
    BY <2>4, <2>20, StageKept, Zenon
  <2> QED BY <1>1, <2>21
<1>14. CASE f # Len(flits)
  <2>1. f + 1 \in 1 .. m
    BY <1>3, <1>14
  <2>2. Len(kept) - FIFO_size \in 1 .. n
    BY <1>6 DEF FIFO_size
  <2>3. ahead \in Int /\ flits[i + 1][Len(kept) - FIFO_size] \in Int
    BY <1>2, <1>8, <2>1, <2>2
  <2> HIDE DEF ahead
  <2>4. sync \in Int
    BY <2>3, ReadType
  <2> HIDE DEF sync
  <2>5. read \in Int
    BY <1>9, <2>3, <2>4
  <2> HIDE DEF read
  <2>6. last = After(cycle, read)
    BY <1>14
  <2>7. last \in Times /\ last >= cycle
    BY <1>12, <2>5, <2>6, AfterLater
  <2> HIDE DEF last
  <2>8. last >= Last(kept) + Clk
    <3>1. last \in Int /\ cycle \in Int /\ Last(kept) + Clk \in Int
      BY <1>11, <1>12, <2>7, TimesType
    <3> QED BY <1>12, <2>7, <3>1
  <2>9. Grows(Append(kept, last), header[f], n - 1 + 1)
    BY <1>2, <1>3, <1>5, <2>7, <2>8, GrowsOn
  <2>10. n - 1 + 1 = n
    OBVIOUS
  <2>11. Grows(Append(kept, last), header[f], IF f <= i THEN n + 1 ELSE n)
    BY <1>2, <2>9, <2>10
  <2> HIDE DEF last
  <2>20. n >= 3 /\ f \in 1 .. m
    BY <1>2
  <2>21. Stage([flits EXCEPT ![f] = Append(kept, last)], header, m, n, i)
    BY <2>11, <2>20, StageKept, Zenon
  <2> QED BY <1>1, <2>21
<1> QED BY <1>13, <1>14

\* Sending flits again keeps their number and their distance.
LEMMA NextStageChecked ==
  ASSUME NEW m \in Nat, NEW q \in Nat, q >= 3, NEW header \in [1 .. m -> Times],
         NEW flits, NEW i \in 1 .. m, Stage(flits, header, m, q, i)
  PROVE  Stage(CheckNextStage(flits, i), header, m, q, i)
<1> DEFINE s == [k \in 1 .. Len(flits) - i |-> i + k]
           n == Len(s)
           b == [flits |-> flits, done |-> Len(flits[i]) - 1 <= Header]
           op(a, f) == IF a.done \/ Last(a.flits[f - 1]) - Half < a.flits[f][Len(a.flits[f - 1]) - 1]
                       THEN [a EXCEPT !.done = TRUE]
                       ELSE [a EXCEPT !.flits = ResendFlit(@, i, f)]
           All == {a \in [flits : [1 .. m -> Seq(Times)], done : BOOLEAN] :
                     Stage(a.flits, header, m, q, i) /\ (q = 3 => a.done)}
           T == [k \in 0 .. n |-> All]
           step == [k \in 1 .. n |-> [a \in T[k - 1] |-> op(a, s[k])]]
           Is(f) == f = [k \in 0 .. n |-> IF k = 0 THEN b ELSE
                            CHOOSE v \in {op(a, s[k]) : a \in {f[k - 1]}} : TRUE]
           r == CHOOSE f : Is(f)
<1>0. /\ Len(flits) = m /\ m - i \in Nat
  BY StageType
<1>1. n = m - i /\ n \in Nat /\ \A k \in 1 .. n : s[k] = i + k
  <2>1. s = [k \in 1 .. m - i |-> i + k]
    BY <1>0
  <2>2. s \in [1 .. m - i -> Nat]
    BY <2>1
  <2> HIDE DEF s
  <2>3. Len(s) = m - i
    BY <1>0, <2>2, AsSeq
  <2> QED BY <1>0, <2>1, <2>3
<1>2. b \in T[0]
  <2>1. Grows(flits[i], header[i], q + 1)
    BY DEF Stage
  <2>2. Len(flits[i]) = q + 1
    BY <2>1 DEF Grows
  <2>3. (Len(flits[i]) - 1 <= Header) = (q <= 3)
    BY <2>2 DEF Header, FIFO_size
  <2>4. flits \in [1 .. m -> Seq(Times)]
    BY StageType
  <2>5. b = [flits |-> flits, done |-> q <= 3]
    BY <2>3
  <2>6. b \in All
    <3>1. CASE q = 3
      <4>1. b = [flits |-> flits, done |-> TRUE]
        BY <2>5, <3>1
      <4> HIDE DEF b
      <4> QED BY <2>4, <4>1
    <3>2. CASE q # 3
      <4>1. b = [flits |-> flits, done |-> FALSE]
        <5>1. (q <= 3) = FALSE
          BY <3>2
        <5> QED BY <2>5, <5>1
      <4> HIDE DEF b
      <4> QED BY <2>4, <3>2, <4>1
    <3> QED BY <3>1, <3>2
  <2> HIDE DEF b, n, All
  <2> QED BY <1>1, <2>6
<1>3. ASSUME NEW k \in 1 .. n, NEW a \in T[k - 1] PROVE op(a, s[k]) \in T[k]
  <2>1. k - 1 \in 0 .. n /\ k \in 0 .. n /\ s[k] = i + k /\ s[k] \in i + 1 .. m
    BY <1>0, <1>1
  <2>2. a \in All /\ T[k] = All
    BY <2>1
  <2> HIDE DEF s, T
  <2>3. CASE a.done \/ Last(a.flits[s[k] - 1]) - Half < a.flits[s[k]][Len(a.flits[s[k] - 1]) - 1]
    <3>1. op(a, s[k]) = [a EXCEPT !.done = TRUE]
      BY <2>3
    <3> QED BY <2>2, <3>1
  <2>4. CASE ~ (a.done \/ Last(a.flits[s[k] - 1]) - Half < a.flits[s[k]][Len(a.flits[s[k] - 1]) - 1])
    <3>1. op(a, s[k]) = [a EXCEPT !.flits = ResendFlit(@, i, s[k])]
      BY <2>4
    <3>2. q >= 4 /\ Stage(a.flits, header, m, q, i)
      BY <2>2, <2>4
    <3> DEFINE new == ResendFlit(a.flits, i, s[k])
    <3>3. Stage(new, header, m, q, i)
      BY <2>1, <3>2, Resent
    <3> HIDE DEF new
    <3>4. new \in [1 .. m -> Seq(Times)]
      BY <3>3, StageType
    <3>5. op(a, s[k]) = [a EXCEPT !.flits = new]
      BY <3>1 DEF new
    <3> HIDE DEF op
    <3> QED BY <2>2, <3>2, <3>3, <3>4, <3>5
  <2> QED BY <2>3, <2>4
<1>30. \A a \in T[n] : Stage(a.flits, header, m, q, i)
  <2> HIDE DEF n
  <2>1. n \in 0 .. n
    BY <1>1
  <2> QED BY <2>1
<1> HIDE DEF T, n, b, s
<1>4. \A k \in 1 .. n : \A a \in T[k - 1] : step[k][a] = op(a, s[k])
  OBVIOUS
<1>5. \A k \in 1 .. n : \A a \in T[k - 1] : step[k][a] \in T[k]
  BY <1>3, <1>4
<1> HIDE DEF step
<1>6. PICK g : Run(g, n, T, b, step)
  <2>1. StepsWithin(n, T, b, step)
    BY <1>1, <1>2, <1>5 DEF StepsWithin
  <2> QED BY <2>1, Recursion
<1> HIDE DEF op
<1>7. \A f, k : (CHOOSE v \in {op(a, s[k]) : a \in {f[k - 1]}} : TRUE) = op(f[k - 1], s[k])
  <2> TAKE f, k
  <2>1. {op(a, s[k]) : a \in {f[k - 1]}} = {op(f[k - 1], s[k])}
    OBVIOUS
  <2> QED BY <2>1, Only, Zenon
<1>8. Is(g)
  <2> DEFINE F(k) == IF k = 0 THEN b ELSE
                       CHOOSE v \in {op(a, s[k]) : a \in {g[k - 1]}} : TRUE
  <2>1. ASSUME NEW k \in 0 .. n PROVE g[k] = F(k)
    <3>1. CASE k = 0
      BY <1>6, <3>1 DEF Run
    <3>2. CASE k # 0
      <4>1. k \in 1 .. n /\ k - 1 \in 0 .. n
        BY <1>1, <3>2
      <4>2. g[k] = op(g[k - 1], s[k])
        BY <1>4, <1>6, <4>1 DEF Run
      <4>3. F(k) = op(g[k - 1], s[k])
        BY <1>7, <3>2, Zenon
      <4> QED BY <4>2, <4>3
    <3> QED BY <3>1, <3>2
  <2> HIDE DEF F
  <2>2. g = [k \in 0 .. n |-> F(k)]
    BY <1>6, <2>1 DEF Run
  <2> QED BY <2>2, Zenon DEF F
<1>9. Is(r)
  BY <1>8, Zenon
<1>10. r[0] = b /\ \A k \in 1 .. n : r[k] = op(r[k - 1], s[k])
  <2> HIDE DEF r
  <2>1. r[0] = b
    BY <1>1, <1>9
  <2>2. ASSUME NEW k \in 1 .. n PROVE r[k] = op(r[k - 1], s[k])
    <3>1. k \in 0 .. n /\ k # 0
      BY <1>1
    <3>2. r[k] = CHOOSE v \in {op(a, s[k]) : a \in {r[k - 1]}} : TRUE
      BY <1>9, <3>1
    <3> QED BY <1>7, <3>2
  <2> QED BY <2>1, <2>2
<1> HIDE DEF Is, r
<1>11. \A k \in 1 .. n : r[k - 1] \in T[k - 1] => r[k] \in T[k]
  BY <1>3, <1>10
<1>12. r[n] \in T[n]
  <2>1. \A k \in 0 .. n : r[k] \in T[k]
    BY <1>1, <1>2, <1>10, <1>11, Reaches
  <2> QED BY <1>1, <2>1
<1>13. CheckNextStage(flits, i) = r[n].flits
  BY DEF CheckNextStage, Fold, r, Is, op, n, b, s
<1> QED BY <1>12, <1>13, <1>30

\* The least of a set of naturals is in it.
LEMMA MinIn ==
  ASSUME NEW ns, ns \subseteq Nat, ns # {}
  PROVE  Min(ns) \in ns
<1>1. Least(ns) \in ns /\ \A k \in ns : Least(ns) <= k
  BY LeastIn
<1>2. \E k \in ns : \A j \in ns : k <= j
  BY <1>1
<1> QED BY <1>2 DEF Min

\* Standing still only delays.
LEMMA StandStillLater ==
  ASSUME NEW m \in Nat, NEW stops, stops \subseteq 3 .. m, NEW header \in [1 .. m -> Times],
         NEW t \in Times
  PROVE  StandStill(stops, header, t) \in Times /\ StandStill(stops, header, t) >= t
<1> DEFINE hit == {i \in stops : header[i - 2] < t /\ t < header[i - 1]}
<1>1. t \in Int /\ \A u \in Times : u \in Int
  BY TimesType
<1>2. StandStill(stops, header, t) = IF hit = {} THEN t ELSE header[Min(hit) - 1]
  BY DEF StandStill
<1>3. CASE hit = {}
  BY <1>1, <1>2, <1>3
<1>4. CASE hit # {}
  <2>1. hit \subseteq Nat
    <3>1. hit \subseteq stops /\ 3 .. m \subseteq Nat
      OBVIOUS
    <3> QED BY <3>1, Zenon
  <2>2. Min(hit) \in hit
    BY <1>4, <2>1, MinIn
  <2>3. Min(hit) \in 3 .. m /\ t < header[Min(hit) - 1]
    BY <2>2
  <2> HIDE DEF hit
  <2>4. Min(hit) - 1 \in 1 .. m
    BY <2>3
  <2> DEFINE u == header[Min(hit) - 1]
  <2>5. u \in Times /\ t < u
    BY <2>3, <2>4
  <2>6. StandStill(stops, header, t) = u
    BY <1>2, <1>4
  <2> HIDE DEF u
  <2> QED BY <1>1, <2>5, <2>6
<1> QED BY <1>3, <1>4

\* A place sends its next flit.
LEMMA FlitSent ==
  ASSUME NEW m \in Nat, NEW q \in Nat, q >= 3, NEW header \in [1 .. m -> Times],
         NEW stops, stops \subseteq 3 .. m,
         NEW flits, NEW i \in 1 .. m, Stage(flits, header, m, q, i - 1)
  PROVE  Stage(SendFlit(flits, stops, header, i), header, m, q, i)
<1> DEFINE n == Len(flits[i])
           start == StandStill(stops, header, Last(flits[i]) + Clk)
           written == IF i = 1 THEN start ELSE After(start, flits[i - 1][n + 1] + Half)
           room == ReadFromFIFO(flits[i + 1][n - FIFO_size])
           time == IF i = Len(flits) THEN written ELSE After(written, room)
           sent == [flits EXCEPT ![i] = Append(@, time)]
<1>1. Len(flits) = m /\ \A h \in 1 .. m : header[h] \in Times
  BY StageType
<1>2. Grows(flits[i], header[i], q)
  BY DEF Stage
<1>3. n = q /\ Last(flits[i]) \in Times /\ Last(flits[i]) \in Int
  BY <1>1, <1>2, GrowsType
<1> HIDE DEF n
<1>4. Last(flits[i]) + Clk \in Times
  BY <1>3, TimesType
<1>5. start \in Times /\ start >= Last(flits[i]) + Clk
  BY <1>4, StandStillLater
<1> HIDE DEF start
<1>6. Half \in Int /\ Clk \in Int
  BY ClkType
<1>7. written \in Times /\ written >= start
  <2>1. CASE i = 1
    <3>1. written = start
      BY <2>1
    <3>2. start \in Int
      BY <1>5, TimesType
    <3> HIDE DEF written
    <3> QED BY <1>5, <3>1, <3>2
  <2>2. CASE i # 1
    <3>1. i - 1 \in 1 .. m
      BY <2>2
    <3>2. Grows(flits[i - 1], header[i - 1], q + 1)
      BY <3>1 DEF Stage
    <3>3. header[i - 1] \in Times /\ q + 1 \in Nat /\ q + 1 >= 3 /\ n + 1 \in 1 .. q + 1
      BY <1>3, <3>1
    <3>4. flits[i - 1][n + 1] \in Int
      BY <3>2, <3>3, GrowsType
    <3>5. flits[i - 1][n + 1] + Half \in Int
      BY <1>6, <3>4
    <3> QED BY <1>5, <2>2, <3>5, AfterLater
  <2> QED BY <2>1, <2>2
<1> HIDE DEF written
<1>8. time \in Times /\ time >= written
  <2>1. CASE i = Len(flits)
    <3>1. time = written
      BY <2>1
    <3>2. written \in Int
      BY <1>7, TimesType
    <3> HIDE DEF time
    <3> QED BY <1>7, <3>1, <3>2
  <2>2. CASE i # Len(flits)
    <3>1. i + 1 \in 1 .. m /\ ~ (i + 1 <= i - 1)
      BY <1>1, <2>2
    <3>2. Grows(flits[i + 1], header[i + 1], q)
      BY <3>1 DEF Stage
    <3>3. header[i + 1] \in Times /\ n - FIFO_size \in 1 .. q
      BY <1>3, <3>1 DEF FIFO_size
    <3>4. flits[i + 1][n - FIFO_size] \in Int
      BY <3>2, <3>3, GrowsType
    <3>5. room \in Int
      BY <3>4, ReadType
    <3> HIDE DEF room
    <3> QED BY <1>7, <2>2, <3>5, AfterLater
  <2> QED BY <2>1, <2>2
<1> HIDE DEF time
<1>9. time >= Last(flits[i]) + Clk
  <2>1. time \in Int /\ written \in Int /\ start \in Int
    BY <1>5, <1>7, <1>8, TimesType
  <2> QED BY <1>3, <1>5, <1>6, <1>7, <1>8, <2>1
<1>10. Grows(Append(flits[i], time), header[i], q + 1)
  BY <1>1, <1>2, <1>8, <1>9, GrowsOn
<1>11. sent = [flits EXCEPT ![i] = Append(flits[i], time)]
  OBVIOUS
<1> DEFINE new == Append(flits[i], time)
<1>12. Stage(sent, header, m, q, i)
  <2>1. \A h \in 1 .. m : h # i => (h <= i - 1 <=> h <= i)
    OBVIOUS
  <2>2. Grows(new, header[i], IF i <= i THEN q + 1 ELSE q)
    BY <1>10
  <2> HIDE DEF new
  <2>3. Stage([flits EXCEPT ![i] = new], header, m, q, i)
    BY <2>1, <2>2, StagePut
  <2> QED BY <1>11, <2>3 DEF new
<1> HIDE DEF new, sent
<1>13. Stage(CheckNextStage(sent, i), header, m, q, i)
  BY <1>12, NextStageChecked
<1>14. SendFlit(flits, stops, header, i) \in {sent, CheckNextStage(sent, i)}
  BY Zenon DEF SendFlit, sent, time, written, start, n, room
<1> QED BY <1>12, <1>13, <1>14

\* All places send their next flit.
LEMMA RoundSent ==
  ASSUME NEW m \in Nat, NEW q \in Nat, q >= 3, NEW header \in [1 .. m -> Times],
         NEW stops, stops \subseteq 3 .. m, NEW flits, Stage(flits, header, m, q, 0)
  PROVE  Stage(SendRound(flits, stops, header), header, m, q, m)
<1> DEFINE s == [i \in DOMAIN header |-> i]
           n == Len(s)
           b == flits
           op(a, i) == SendFlit(a, stops, header, i)
           T == [k \in 0 .. n |-> {a \in [1 .. m -> Seq(Times)] : Stage(a, header, m, q, k)}]
           step == [k \in 1 .. n |-> [a \in T[k - 1] |-> op(a, s[k])]]
           Is(f) == f = [k \in 0 .. n |-> IF k = 0 THEN b ELSE
                            CHOOSE v \in {op(a, s[k]) : a \in {f[k - 1]}} : TRUE]
           r == CHOOSE f : Is(f)
<1>1. n = m /\ n \in Nat /\ \A k \in 1 .. n : s[k] = k
  <2>1. s = [k \in 1 .. m |-> k]
    OBVIOUS
  <2>2. s \in [1 .. m -> Nat]
    BY <2>1
  <2> HIDE DEF s
  <2>3. Len(s) = m
    BY <2>2, AsSeq
  <2> QED BY <2>1, <2>3
<1> HIDE DEF s, n
<1>2. b \in T[0]
  <2>1. flits \in [1 .. m -> Seq(Times)]
    BY StageType
  <2>2. 0 \in 0 .. n
    BY <1>1
  <2> QED BY <2>1, <2>2
<1>3. ASSUME NEW k \in 1 .. n, NEW a \in T[k - 1] PROVE op(a, s[k]) \in T[k]
  <2>1. k - 1 \in 0 .. n /\ k \in 0 .. n /\ s[k] = k /\ k \in 1 .. m
    BY <1>1
  <2>2. Stage(a, header, m, q, k - 1)
    BY <2>1
  <2> DEFINE new == SendFlit(a, stops, header, k)
  <2>3. Stage(new, header, m, q, k)
    BY <2>1, <2>2, FlitSent
  <2> HIDE DEF new
  <2>4. new \in [1 .. m -> Seq(Times)]
    BY <2>3, StageType
  <2>5. new \in T[k]
    BY <2>1, <2>3, <2>4
  <2>6. op(a, s[k]) = new
    BY <2>1 DEF new
  <2> HIDE DEF op, T
  <2> QED BY <2>5, <2>6
<1>30. \A a \in T[n] : Stage(a, header, m, q, m)
  <2>1. n \in 0 .. n
    BY <1>1
  <2> QED BY <1>1, <2>1
<1> HIDE DEF T, n, b, s
<1>4. \A k \in 1 .. n : \A a \in T[k - 1] : step[k][a] = op(a, s[k])
  OBVIOUS
<1>5. \A k \in 1 .. n : \A a \in T[k - 1] : step[k][a] \in T[k]
  BY <1>3, <1>4
<1> HIDE DEF step
<1>6. PICK g : Run(g, n, T, b, step)
  <2>1. StepsWithin(n, T, b, step)
    BY <1>1, <1>2, <1>5 DEF StepsWithin
  <2> QED BY <2>1, Recursion
<1> HIDE DEF op
<1>7. \A f, k : (CHOOSE v \in {op(a, s[k]) : a \in {f[k - 1]}} : TRUE) = op(f[k - 1], s[k])
  <2> TAKE f, k
  <2>1. {op(a, s[k]) : a \in {f[k - 1]}} = {op(f[k - 1], s[k])}
    OBVIOUS
  <2> QED BY <2>1, Only, Zenon
<1>8. Is(g)
  <2> DEFINE F(k) == IF k = 0 THEN b ELSE
                       CHOOSE v \in {op(a, s[k]) : a \in {g[k - 1]}} : TRUE
  <2>1. ASSUME NEW k \in 0 .. n PROVE g[k] = F(k)
    <3>1. CASE k = 0
      BY <1>6, <3>1 DEF Run
    <3>2. CASE k # 0
      <4>1. k \in 1 .. n /\ k - 1 \in 0 .. n
        BY <1>1, <3>2
      <4>2. g[k] = op(g[k - 1], s[k])
        BY <1>4, <1>6, <4>1 DEF Run
      <4>3. F(k) = op(g[k - 1], s[k])
        BY <1>7, <3>2, Zenon
      <4> QED BY <4>2, <4>3
    <3> QED BY <3>1, <3>2
  <2> HIDE DEF F
  <2>2. g = [k \in 0 .. n |-> F(k)]
    BY <1>6, <2>1 DEF Run
  <2> QED BY <2>2, Zenon DEF F
<1>9. Is(r)
  BY <1>8, Zenon
<1>10. r[0] = b /\ \A k \in 1 .. n : r[k] = op(r[k - 1], s[k])
  <2> HIDE DEF r
  <2>1. r[0] = b
    BY <1>1, <1>9
  <2>2. ASSUME NEW k \in 1 .. n PROVE r[k] = op(r[k - 1], s[k])
    <3>1. k \in 0 .. n /\ k # 0
      BY <1>1
    <3>2. r[k] = CHOOSE v \in {op(a, s[k]) : a \in {r[k - 1]}} : TRUE
      BY <1>9, <3>1
    <3> QED BY <1>7, <3>2
  <2> QED BY <2>1, <2>2
<1> HIDE DEF Is, r
<1>11. \A k \in 1 .. n : r[k - 1] \in T[k - 1] => r[k] \in T[k]
  BY <1>3, <1>10
<1>12. r[n] \in T[n]
  <2>1. \A k \in 0 .. n : r[k] \in T[k]
    BY <1>1, <1>2, <1>10, <1>11, Reaches
  <2> QED BY <1>1, <2>1
<1>13. SendRound(flits, stops, header) = r[n]
  BY DEF SendRound, Fold, r, Is, op, n, b, s
<1> QED BY <1>12, <1>13, <1>30

\* A sequence is empty if its length is zero.
LEMMA NotEmpty ==
  ASSUME NEW M, NEW s \in Seq(M)
  PROVE  s # <<>> <=> Len(s) >= 1
<1>1. Len(s) \in Nat /\ DOMAIN s = 1 .. Len(s)
  OBVIOUS
<1>2. Len(s) = 0 => s = <<>>
  BY EmptySeq
<1>3. s = <<>> => Len(s) = 0
  BY EmptySeq
<1> QED BY <1>1, <1>2, <1>3

\* What concatenation gives.
LEMMA Joined ==
  ASSUME NEW M, NEW s \in Seq(M), NEW t \in Seq(M)
  PROVE  /\ s \o t \in Seq(M) /\ Len(s \o t) = Len(s) + Len(t)
         /\ \A i \in 1 .. Len(s) : (s \o t)[i] = s[i]
         /\ \A i \in 1 .. Len(t) : (s \o t)[Len(s) + i] = t[i]
OBVIOUS

\* The element behind a sequence.
LEMMA JoinedLast ==
  ASSUME NEW M, NEW s \in Seq(M), NEW t \in Seq(M), Len(t) = 1
  PROVE  (s \o t)[Len(s) + 1] = t[1]
<1> DEFINE k == Len(s) + 1
<1>1. Len(s) \in Nat
  OBVIOUS
<1>2. k \in 1 .. Len(s) + Len(t) /\ ~ (k <= Len(s)) /\ k - Len(s) = 1
  BY <1>1
<1> HIDE DEF k
<1>3. (s \o t)[k] = IF k <= Len(s) THEN s[k] ELSE t[k - Len(s)]
  BY <1>2, ConcatProperties
<1>4. (s \o t)[k] = t[1]
  BY <1>2, <1>3
<1> QED BY <1>4 DEF k

\* Whole(s) is s.
LEMMA WholeIs ==
  ASSUME NEW M, NEW m \in Nat, NEW s \in [1 .. m -> M]
  PROVE  Whole(s) = s
<1>1. s \in Seq(M)
  BY AsSeq
<1> QED BY <1>1 DEF Whole

\* A round after which the next one starts.
LEMMA RoundsDone ==
  ASSUME NEW m \in Nat, NEW header \in [1 .. m -> Times], NEW stops, stops \subseteq 3 .. m,
         NEW q \in Nat, q >= 3, NEW flits, Stage(flits, header, m, q, 0)
  PROVE  Stage(SendRound(flits, stops, header), header, m, q + 1, 0)
<1> DEFINE new == SendRound(flits, stops, header)
<1>1. Stage(new, header, m, q, m)
  BY RoundSent
<1> HIDE DEF new
<1>2. Stage(new, header, m, q + 1, 0)
  <2>1. \A i \in 1 .. m : i <= m /\ ~ (i <= 0)
    OBVIOUS
  <2>2. new = [i \in 1 .. m |-> new[i]]
    BY <1>1 DEF Stage
  <2>3. \A i \in 1 .. m : Grows(new[i], header[i], q + 1)
    BY <1>1, <2>1 DEF Stage
  <2> QED BY <2>1, <2>2, <2>3 DEF Stage
<1> QED BY <1>2 DEF new

\* The flits of a packet held up at an output are a cycle or more apart, from its header on.
LEMMA Congested ==
  ASSUME NEW p, NEW ps, NEW m \in Nat, NEW header \in [1 .. m -> Times],
         p.flits \in Nat, p.flits >= 1,
         \A i \in 1 .. m : /\ ps[Rx(p)[i]].last.times \in Seq(Times)
                           /\ Len(ps[Rx(p)[i]].last.times) = 3
  PROVE  Stage(SimulateFIFOSizeTime(p, ps, header), header, m, p.flits + 2, 0)
<1> DEFINE s == [k \in 1 .. p.flits - 1 |-> k]
           n == Len(s)
           first == [i \in DOMAIN header |-> Tail(ps[Rx(p)[i]].last.times) \o <<header[i]>>]
           b == Whole(first)
           stops == Stops(p, ps, header)
           op(a, k) == SendRound(a, stops, header)
           T == [k \in 0 .. n |-> {a \in [1 .. m -> Seq(Times)] : Stage(a, header, m, 3 + k, 0)}]
           step == [k \in 1 .. n |-> [a \in T[k - 1] |-> op(a, s[k])]]
           Is(f) == f = [k \in 0 .. n |-> IF k = 0 THEN b ELSE
                            CHOOSE v \in {op(a, s[k]) : a \in {f[k - 1]}} : TRUE]
           r == CHOOSE f : Is(f)
<1>1. n = p.flits - 1 /\ n \in Nat
  <2>1. s \in [1 .. p.flits - 1 -> Nat] /\ p.flits - 1 \in Nat
    OBVIOUS
  <2> HIDE DEF s
  <2> QED BY <2>1, AsSeq
<1>21. stops \subseteq 3 .. m
  <2>1. Len(header) = m
    BY AsSeq
  <2> QED BY <2>1 DEF Stops
<1> HIDE DEF s, n, stops
<1>2. b \in T[0]
  <2>1. ASSUME NEW i \in 1 .. m PROVE Grows(first[i], header[i], 3)
    <3> DEFINE t == ps[Rx(p)[i]].last.times
    <3>1. t \in Seq(Times) /\ Len(t) = 3 /\ header[i] \in Times
      OBVIOUS
    <3>2. first[i] = Tail(t) \o <<header[i]>>
      OBVIOUS
    <3> HIDE DEF t
    <3>29. t \in Seq(Times) /\ Len(t) >= 1
      BY <3>1
    <3>30. t # <<>>
      BY <3>29, NotEmpty, Zenon
    <3>3. Tail(t) \in Seq(Times) /\ Len(Tail(t)) = 2
      BY <3>1, <3>30, HeadTailProperties
    <3> DEFINE u == <<header[i]>>
    <3>31. u \in Seq(Times) /\ Len(u) = 1 /\ u[1] = header[i]
      BY <3>1
    <3> HIDE DEF u
    <3> DEFINE v == Tail(t)
    <3>33. v \in Seq(Times) /\ Len(v) = 2
      BY <3>3
    <3> HIDE DEF v
    <3>34. v \o u \in Seq(Times) /\ Len(v \o u) = 3 /\ (v \o u)[3] = u[1]
      <4>1. v \o u \in Seq(Times) /\ Len(v \o u) = Len(v) + Len(u)
        BY <3>31, <3>33, Joined, Zenon
      <4>3. 1 \in 1 .. Len(u) /\ Len(v) + 1 = 3 /\ Len(v) + Len(u) = 3
        BY <3>31, <3>33
      <4>2. (v \o u)[Len(v) + 1] = u[1]
        BY <3>31, <3>33, <4>3, JoinedLast, Zenon
      <4>4. (v \o u)[3] = u[1]
        BY <4>2, <4>3, Zenon
      <4> QED BY <4>1, <4>3, <4>4, Zenon
    <3>35. first[i] = v \o u
      BY <3>2 DEF v, u
    <3> HIDE DEF first
    <3>4. /\ first[i] \in Seq(Times) /\ Len(first[i]) = 3 /\ first[i][3] = header[i]
      BY <3>31, <3>34, <3>35
    <3>5. header[i] \in Int /\ (3 - 3) * Clk = 0
      BY <3>1, TimesType, ClkType
    <3>6. \A k \in 3 .. 3 : k = 3
      OBVIOUS
    <3> HIDE DEF first
    <3>7. \A k \in 3 .. 3 : first[i][k] >= header[i] + (k - 3) * Clk
      BY <3>4, <3>5, <3>6
    <3> QED BY <3>4, <3>7 DEF Grows
  <2>2. first = [i \in 1 .. m |-> first[i]]
    OBVIOUS
  <2> HIDE DEF first
  <2>3. Stage(first, header, m, 3, 0)
    BY <2>1, <2>2 DEF Stage
  <2>4. first \in [1 .. m -> Seq(Times)]
    <3> DEFINE q == 3
    <3>1. q \in Nat /\ q >= 3 /\ Stage(first, header, m, q, 0)
      BY <2>3
    <3> HIDE DEF q
    <3> QED BY <3>1, StageType
  <2>5. b = first
    BY <2>4, WholeIs
  <2>6. 0 \in 0 .. n /\ 3 + 0 = 3
    BY <1>1
  <2> HIDE DEF b
  <2> QED BY <2>3, <2>4, <2>5, <2>6
<1>3. ASSUME NEW k \in 1 .. n, NEW a \in T[k - 1] PROVE op(a, s[k]) \in T[k]
  <2>1. k - 1 \in 0 .. n /\ k \in 0 .. n /\ 3 + (k - 1) + 1 = 3 + k /\ 3 + (k - 1) \in Nat
        /\ 3 + (k - 1) >= 3 /\ 3 + k \in Nat /\ 3 + k >= 3
    BY <1>1
  <2>2. Stage(a, header, m, 3 + (k - 1), 0)
    BY <2>1
  <2> DEFINE new == SendRound(a, stops, header)
  <2>3. Stage(new, header, m, 3 + (k - 1) + 1, 0)
    BY <1>21, <2>1, <2>2, RoundsDone
  <2> HIDE DEF new
  <2>4. Stage(new, header, m, 3 + k, 0)
    BY <2>1, <2>3
  <2>5. new \in [1 .. m -> Seq(Times)]
    BY <2>1, <2>4, StageType
  <2>6. new \in T[k]
    BY <2>1, <2>4, <2>5
  <2>7. op(a, s[k]) = new
    BY DEF new
  <2> HIDE DEF op, T
  <2> QED BY <2>6, <2>7
<1>30. \A a \in T[n] : Stage(a, header, m, p.flits + 2, 0)
  <2>1. n \in 0 .. n /\ 3 + n = p.flits + 2
    BY <1>1
  <2>2. \A a \in T[n] : Stage(a, header, m, 3 + n, 0)
    BY <2>1
  <2> QED BY <2>1, <2>2
<1> HIDE DEF T, n, b, s
<1>4. \A k \in 1 .. n : \A a \in T[k - 1] : step[k][a] = op(a, s[k])
  OBVIOUS
<1>5. \A k \in 1 .. n : \A a \in T[k - 1] : step[k][a] \in T[k]
  BY <1>3, <1>4
<1> HIDE DEF step
<1>6. PICK g : Run(g, n, T, b, step)
  <2>1. StepsWithin(n, T, b, step)
    BY <1>1, <1>2, <1>5 DEF StepsWithin
  <2> QED BY <2>1, Recursion
<1> HIDE DEF op
<1>7. \A f, k : (CHOOSE v \in {op(a, s[k]) : a \in {f[k - 1]}} : TRUE) = op(f[k - 1], s[k])
  <2> TAKE f, k
  <2>1. {op(a, s[k]) : a \in {f[k - 1]}} = {op(f[k - 1], s[k])}
    OBVIOUS
  <2> QED BY <2>1, Only, Zenon
<1>8. Is(g)
  <2> DEFINE F(k) == IF k = 0 THEN b ELSE
                       CHOOSE v \in {op(a, s[k]) : a \in {g[k - 1]}} : TRUE
  <2>1. ASSUME NEW k \in 0 .. n PROVE g[k] = F(k)
    <3>1. CASE k = 0
      BY <1>6, <3>1 DEF Run
    <3>2. CASE k # 0
      <4>1. k \in 1 .. n /\ k - 1 \in 0 .. n
        BY <1>1, <3>2
      <4>2. g[k] = op(g[k - 1], s[k])
        BY <1>4, <1>6, <4>1 DEF Run
      <4>3. F(k) = op(g[k - 1], s[k])
        BY <1>7, <3>2, Zenon
      <4> QED BY <4>2, <4>3
    <3> QED BY <3>1, <3>2
  <2> HIDE DEF F
  <2>2. g = [k \in 0 .. n |-> F(k)]
    BY <1>6, <2>1 DEF Run
  <2> QED BY <2>2, Zenon DEF F
<1>9. Is(r)
  BY <1>8, Zenon
<1>10. r[0] = b /\ \A k \in 1 .. n : r[k] = op(r[k - 1], s[k])
  <2> HIDE DEF r
  <2>1. r[0] = b
    BY <1>1, <1>9
  <2>2. ASSUME NEW k \in 1 .. n PROVE r[k] = op(r[k - 1], s[k])
    <3>1. k \in 0 .. n /\ k # 0
      BY <1>1
    <3>2. r[k] = CHOOSE v \in {op(a, s[k]) : a \in {r[k - 1]}} : TRUE
      BY <1>9, <3>1
    <3> QED BY <1>7, <3>2
  <2> QED BY <2>1, <2>2
<1> HIDE DEF Is, r
<1>11. \A k \in 1 .. n : r[k - 1] \in T[k - 1] => r[k] \in T[k]
  BY <1>3, <1>10
<1>12. r[n] \in T[n]
  <2>1. \A k \in 0 .. n : r[k] \in T[k]
    BY <1>1, <1>2, <1>10, <1>11, Reaches
  <2> QED BY <1>1, <2>1
<1>13. SimulateFIFOSizeTime(p, ps, header) = r[n]
  BY DEF SimulateFIFOSizeTime, Fold, r, Is, op, n, b, s, stops
<1> QED BY <1>12, <1>13, <1>30

\* The last flit is received a cycle or more after the header for every flit behind it.
LEMMA FlitsReceived ==
  ASSUME NEW o, NEW p, NEW m \in Nat, NEW header \in [1 .. m -> Times],
         p.flits \in Nat, p.flits >= 3,
         \A i \in 1 .. m : /\ ports[Rx(p)[i]].last.times \in Seq(Times)
                           /\ Len(ports[Rx(p)[i]].last.times) = 3
  PROVE  LET flits == FlitsOf(o, p, header)
         IN  /\ flits \in [1 .. m -> Seq(Times)] /\ Len(flits) = m
             /\ \A i \in 1 .. m :
                  /\ Len(flits[i]) >= 3 /\ Last(flits[i]) \in Times
                  /\ Last(flits[i]) >= header[i] + (p.flits - 1) * Clk
                  /\ header[i] <= Last(flits[i])
<1> DEFINE flits == FlitsOf(o, p, header)
<1>0. (p.flits - 1) * Clk >= 0 /\ (p.flits - 1) * Clk \in Int
  BY ClkType, Products
<1>1. CASE o \in claims.jammed
  <2>1. flits = SimulateFIFOSizeTime(p, ports, header)
    BY <1>1 DEF FlitsOf
  <2> HIDE DEF flits
  <2> DEFINE q == p.flits + 2
  <2>20. q \in Nat /\ q >= 3 /\ p.flits >= 1
    OBVIOUS
  <2> DEFINE ps == ports
  <2>21. \A i \in 1 .. m : /\ ps[Rx(p)[i]].last.times \in Seq(Times)
                           /\ Len(ps[Rx(p)[i]].last.times) = 3
    OBVIOUS
  <2>22. flits = SimulateFIFOSizeTime(p, ps, header)
    BY <2>1
  <2> HIDE DEF ps
  <2>23. Stage(SimulateFIFOSizeTime(p, ps, header), header, m, p.flits + 2, 0)
    BY <2>20, <2>21, Congested
  <2>2. Stage(flits, header, m, q, 0)
    BY <2>22, <2>23
  <2> HIDE DEF q
  <2>3. flits \in [1 .. m -> Seq(Times)] /\ Len(flits) = m
    BY <2>2, <2>20, StageType
  <2>4. ASSUME NEW i \in 1 .. m
        PROVE  /\ Len(flits[i]) >= 3 /\ Last(flits[i]) \in Times
               /\ Last(flits[i]) >= header[i] + (p.flits - 1) * Clk
               /\ header[i] <= Last(flits[i])
    <3>0. ~ (i <= 0)
      OBVIOUS
    <3>1. Grows(flits[i], header[i], q) /\ header[i] \in Times
      BY <2>2, <3>0 DEF Stage
    <3>2. q - 3 = p.flits - 1 /\ q >= 3
      BY <2>20 DEF q
    <3> DEFINE u == flits[i]
               h == header[i]
    <3>30. Grows(u, h, q) /\ h \in Times
      BY <3>1
    <3> HIDE DEF u, h
    <3>3. /\ Len(u) = q /\ Last(u) \in Times /\ Last(u) \in Int
          /\ Last(u) >= h + (q - 3) * Clk /\ h \in Int
      BY <3>30, <2>20, GrowsType
    <3>4. Len(u) >= 3 /\ Last(u) \in Times /\ Last(u) >= h + (p.flits - 1) * Clk /\ h <= Last(u)
      BY <1>0, <3>2, <3>3
    <3> QED BY <3>4 DEF u, h
  <2> QED BY <2>3, <2>4 DEF flits
<1>2. CASE o \notin claims.jammed
  <2> DEFINE row(i) == [k \in 1 .. p.flits |-> header[i] + (k - 1) * Clk]
             all == [i \in DOMAIN header |-> Whole(row(i))]
  <2>1. flits = Whole(all)
    BY <1>2, Zenon DEF FlitsOf, SimulateTailTimetoRxWithoutCongestion
  <2>2. ASSUME NEW i \in 1 .. m
        PROVE  /\ Whole(row(i)) \in Seq(Times) /\ Len(Whole(row(i))) = p.flits
               /\ Last(Whole(row(i))) = header[i] + (p.flits - 1) * Clk
               /\ Last(Whole(row(i))) \in Times /\ header[i] \in Int
    <3> DEFINE u == row(i)
    <3>1. header[i] \in Times
      OBVIOUS
    <3>2. \A k \in 1 .. p.flits : k - 1 \in Int
      OBVIOUS
    <3>3. \A k \in 1 .. p.flits : header[i] + (k - 1) * Clk \in Times
      BY <3>1, <3>2, TimesType
    <3>4. u \in [1 .. p.flits -> Times]
      BY <3>3
    <3>5. p.flits \in 1 .. p.flits
      OBVIOUS
    <3>6. u[p.flits] = header[i] + (p.flits - 1) * Clk
      BY <3>5
    <3> HIDE DEF u
    <3>7. Whole(u) = u /\ u \in Seq(Times) /\ Len(u) = p.flits
      BY <3>4, WholeIs, AsSeq
    <3>8. Last(u) = u[p.flits]
      BY <3>7 DEF Last
    <3>9. u[p.flits] \in Times /\ header[i] \in Int
      BY <3>1, <3>4, <3>5, TimesType
    <3>10. Whole(u) \in Seq(Times) /\ Len(Whole(u)) = p.flits
           /\ Last(Whole(u)) = header[i] + (p.flits - 1) * Clk
           /\ Last(Whole(u)) \in Times
      BY <3>6, <3>7, <3>8, <3>9
    <3> QED BY <3>9, <3>10, Zenon DEF u
  <2> HIDE DEF row
  <2>3. all \in [1 .. m -> Seq(Times)] /\ \A i \in 1 .. m : all[i] = Whole(row(i))
    BY <2>2
  <2> HIDE DEF all, flits
  <2>4. flits = all
    BY <2>1, <2>3, WholeIs
  <2>5. Len(all) = m
    BY <2>3, AsSeq
  <2>6. ASSUME NEW i \in 1 .. m
        PROVE  /\ Len(flits[i]) >= 3 /\ Last(flits[i]) \in Times
               /\ Last(flits[i]) >= header[i] + (p.flits - 1) * Clk
               /\ header[i] <= Last(flits[i])
    <3>1. flits[i] = Whole(row(i))
      BY <2>3, <2>4
    <3> QED BY <1>0, <2>2, <3>1
  <2> QED BY <2>3, <2>4, <2>5, <2>6 DEF flits
<1> QED BY <1>1, <1>2

LastSet == [id : Nat, times : {s \in Seq(Times) : Len(s) = 3}]
PortSet == [passed : Seq([pkt : Nat, at : Nat]), last : LastSet, total : Seq(LastSet),
            released : Seq([id : Nat, time : Times])]
ClaimPorts == {x \in PortsInUse : x[1] # "tx"}
ClaimSet == [busy : BOOLEAN, owner : Nat, header : Times, arrival : Times, minArrival : Int,
             out : PortsInUse \union {<<>>}]
PassSet == [claims : [ClaimPorts -> ClaimSet], going : BOOLEAN, jammed : SUBSET Nat]

\* p is a packet whose path has n places.
HasPath(p, n) ==
  /\ n \in Nat /\ n >= 3 /\ p.send \in Times
  /\ DOMAIN Rx(p) = 1 .. n /\ Len(Rx(p)) = n /\ DOMAIN Tx(p) = 1 .. n /\ Len(Tx(p)) = n
  /\ \A i, j \in 1 .. n : Rx(p)[i] = Rx(p)[j] => i = j
  /\ \A i \in 1 .. n : Rx(p)[i] \in ClaimPorts
  /\ \A i \in 2 .. n - 1 : Tx(p)[i] \in PortsInUse /\ Tx(p)[i][1] = "tx"
  /\ Tx(p)[1] = Rx(p)[1] /\ Tx(p)[n] = Rx(p)[n]

\* The claim of p at its place i is behind all that left the port, and not too early.
Given(cl, ps, p, i) ==
  /\ cl[Rx(p)[i]].header > ReleaseTime(ps[Rx(p)[i]].released)
  /\ i = 1 => cl[Rx(p)[i]].header >= p.send + Clk
  /\ i > 1 => cl[Rx(p)[i]].header >= cl[Rx(p)[i - 1]].header + Clk

Same(a, b) == a.owner = b.owner /\ a.header = b.header

\* The last element of a sequence.
LEMMA LastOf ==
  ASSUME NEW M, NEW s \in Seq(M), s # <<>>
  PROVE  Last(s) \in M /\ Last(s) = s[Len(s)] /\ Len(s) \in 1 .. Len(s)
<1>1. Len(s) \in Nat /\ Len(s) >= 1
  BY NotEmpty
<1>2. Len(s) \in 1 .. Len(s)
  BY <1>1
<1>3. s[Len(s)] \in M
  BY <1>2, ElementOfSeq
<1> QED BY <1>2, <1>3 DEF Last

\* The last release of a port is at a time.
LEMMA ReleaseTimeType ==
  ASSUME NEW s \in Seq([id : Nat, time : Times])
  PROVE  ReleaseTime(s) \in Times
<1>1. CASE s = <<>>
  BY <1>1, ZeroTime DEF ReleaseTime
<1>2. CASE s # <<>>
  <2>1. Last(s) \in [id : Nat, time : Times]
    BY <1>2, LastOf
  <2> HIDE DEF Times
  <2>2. Last(s).time \in Times
    BY <2>1
  <2> QED BY <1>2, <2>2 DEF ReleaseTime
<1> QED BY <1>1, <1>2

\* What is at a port.
LEMMA PortType ==
  ASSUME NEW ps \in [PortsInUse -> PortSet], NEW x \in PortsInUse
  PROVE  /\ ps[x].released \in Seq([id : Nat, time : Times])
         /\ ps[x].passed \in Seq([pkt : Nat, at : Nat])
         /\ ps[x].last \in LastSet /\ ps[x].total \in Seq(LastSet)
         /\ ps[x].last.times \in Seq(Times) /\ Len(ps[x].last.times) = 3
         /\ \A k \in 1 .. 3 : ps[x].last.times[k] \in Int
         /\ ReleaseTime(ps[x].released) \in Times
<1>1. ps[x] \in PortSet
  OBVIOUS
<1>2. /\ ps[x].released \in Seq([id : Nat, time : Times])
      /\ ps[x].passed \in Seq([pkt : Nat, at : Nat])
      /\ ps[x].last \in LastSet /\ ps[x].total \in Seq(LastSet)
  BY <1>1 DEF PortSet
<1>3. ps[x].last.times \in {s \in Seq(Times) : Len(s) = 3}
  BY <1>2 DEF LastSet
<1> DEFINE t == ps[x].last.times
<1>4. t \in Seq(Times) /\ Len(t) = 3
  BY <1>3
<1> HIDE DEF t
<1>5. \A k \in 1 .. 3 : t[k] \in Times
  BY <1>4, ElementOfSeq
<1>6. \A k \in 1 .. 3 : t[k] \in Int
  BY <1>5, TimesType
<1>7. ReleaseTime(ps[x].released) \in Times
  BY <1>2, ReleaseTimeType
<1> QED BY <1>2, <1>4, <1>6, <1>7 DEF t

\* A claim is written at one port and no other.
LEMMA ClaimPut ==
  ASSUME NEW cl \in [ClaimPorts -> ClaimSet], NEW x \in ClaimPorts, NEW e \in ClaimSet
  PROVE  /\ [cl EXCEPT ![x] = e] \in [ClaimPorts -> ClaimSet]
         /\ [cl EXCEPT ![x] = e][x] = e
         /\ \A y \in ClaimPorts : y # x => [cl EXCEPT ![x] = e][y] = cl[y]
OBVIOUS

\* What a pass has written.
LEMMA PassType ==
  ASSUME NEW c \in PassSet
  PROVE  /\ c.claims \in [ClaimPorts -> ClaimSet] /\ c.going \in BOOLEAN /\ c.jammed \subseteq Nat
         /\ c = [claims |-> c.claims, going |-> c.going, jammed |-> c.jammed]
BY DEF PassSet

\* A place is claimed, with a header behind what comes before, or stays whose it was.
LEMMA PlaceClaimed ==
  ASSUME NEW c \in PassSet, NEW ps \in [PortsInUse -> PortSet], NEW o \in Nat,
         NEW p, NEW n, HasPath(p, n), NEW i \in 1 .. n
  PROVE  LET d == ClaimPlace(c, ps, o, p, i)
         IN  /\ d \in PassSet
             /\ \A x \in ClaimPorts : x # Rx(p)[i] => Same(d.claims[x], c.claims[x])
             /\ \/ Same(d.claims[Rx(p)[i]], c.claims[Rx(p)[i]])
                \/ d.claims[Rx(p)[i]].owner = o /\ Given(d.claims, ps, p, i)
<1> DEFINE x == Rx(p)[i]
           out == Tx(p)[i]
           before == Rx(p)[i - 1]
           temp == IF i = 1 THEN p.send + Clk
                   ELSE Through_BiSyncFIFO(c.claims[before].header)
           came == IF i = 1 THEN c.claims[x] ELSE [c.claims[x] EXCEPT !.arrival = temp]
           won == [came EXCEPT !.busy = TRUE, !.minArrival = temp]
           free == ReleaseTime(ps[x].released)
           queued == Queued(ps[x], temp)
           header == IF i \in Inner(p)
                     THEN BehindOutput(queued, ReleaseTime(ps[out].released),
                                       ps[Rx(p)[i + 1]].last)
                     ELSE queued
           arrival == IF i \in Inner(p) /\ free >= temp THEN free ELSE temp
           claim == [won EXCEPT !.header = header, !.arrival = arrival, !.owner = o]
           owned == [c.claims EXCEPT ![x] = claim]
           on == i \in Inner(p) => \E all \in {owned} : ArbitrateTxPort(all, out) = o
           late == i = 1 /\ came.arrival # 0 /\ temp >= came.arrival
           jammed == IF header # queued THEN c.jammed \union {o} ELSE c.jammed
           d == ClaimPlace(c, ps, o, p, i)
<1>1. d = IF ~c.going THEN c
          ELSE IF Refused(came, temp)
          THEN [c EXCEPT !.claims[x] = came, !.going = FALSE]
          ELSE IF late
          THEN [c EXCEPT !.claims[x] = won, !.going = FALSE]
          ELSE [claims |-> owned, going |-> on, jammed |-> jammed]
  BY Zenon DEF ClaimPlace
<1>2. /\ c.claims \in [ClaimPorts -> ClaimSet] /\ c.going \in BOOLEAN /\ c.jammed \subseteq Nat
      /\ c = [claims |-> c.claims, going |-> c.going, jammed |-> c.jammed]
  BY PassType
<1>3. x \in ClaimPorts /\ n \in Nat /\ n >= 3 /\ i \in Nat
  BY DEF HasPath
<1>4. ClaimPorts \subseteq PortsInUse
  BY DEF ClaimPorts
<1>5. c.claims[x] \in ClaimSet
  BY <1>2, <1>3
<1>6. i # 1 => before \in ClaimPorts /\ before # x /\ c.claims[before].header \in Times
  <2>1. SUFFICES ASSUME i # 1
                 PROVE before \in ClaimPorts /\ before # x /\ c.claims[before].header \in Times
    OBVIOUS
  <2>2. i - 1 \in 1 .. n /\ i - 1 # i
    BY <1>3, <2>1
  <2>3. before \in ClaimPorts /\ before # x
    BY <2>2 DEF HasPath
  <2>4. c.claims[before] \in ClaimSet
    BY <1>2, <2>3
  <2> HIDE DEF before, x
  <2>5. c.claims[before].header \in Times
    BY <2>4 DEF ClaimSet
  <2> QED BY <2>3, <2>5
<1>7. /\ temp \in Times /\ (i = 1 => temp = p.send + Clk)
      /\ i # 1 => temp = c.claims[before].header + Clk
  <2>1. CASE i = 1
    <3>1. p.send \in Times
      BY DEF HasPath
    <3> QED BY <2>1, <3>1, TimesType
  <2>2. CASE i # 1
    <3> DEFINE h == c.claims[before].header
    <3>1. h \in Times
      BY <1>6, <2>2
    <3>2. temp = Through_BiSyncFIFO(h)
      BY <2>2
    <3> HIDE DEF h, temp
    <3>3. temp = h + Clk /\ temp \in Times
      BY <3>1, <3>2, ThroughLater, TimesType
    <3> QED BY <2>2, <3>3 DEF h
  <2> QED BY <2>1, <2>2
<1> HIDE DEF temp
<1>8. temp \in Int
  BY <1>7, TimesType
<1>9. came \in ClaimSet /\ Same(came, c.claims[x])
  BY <1>5, <1>7 DEF ClaimSet, Same
<1> HIDE DEF came
<1>10. won \in ClaimSet /\ Same(won, c.claims[x])
  BY <1>8, <1>9 DEF ClaimSet, Same
<1> HIDE DEF won
<1>11. free \in Times /\ free \in Int
  BY <1>3, <1>4, PortType, TimesType
<1>12. queued \in Times /\ queued > free /\ queued >= temp
  <2>1. queued = IF free >= temp THEN free + Clk ELSE temp
    BY DEF Queued
  <2>2. free + Clk \in Times /\ Clk \in Int /\ Clk > 0
    BY <1>11, TimesType, ClkType
  <2> HIDE DEF queued, free
  <2> QED BY <1>7, <1>8, <1>11, <2>1, <2>2
<1> HIDE DEF free, queued
<1>13. queued \in Int
  BY <1>12, TimesType
<1>14. header \in Times /\ header >= queued
  <2>1. CASE i \in Inner(p)
    <3>1. i \in 2 .. n - 1
      BY <2>1 DEF Inner, HasPath
    <3>2. i + 1 \in 1 .. n
      BY <3>1, <1>3
    <3>3. out \in PortsInUse /\ Rx(p)[i + 1] \in PortsInUse
      BY <3>1, <3>2, <1>4 DEF HasPath
    <3> DEFINE f == ReleaseTime(ps[out].released)
               l == ps[Rx(p)[i + 1]].last
               bound == ReadFromFIFO(l.times[1])
    <3>4. f \in Times /\ f \in Int
      BY <3>3, PortType, TimesType
    <3>5. l.times[1] \in Int
      BY <3>3, PortType
    <3>6. bound \in Int
      BY <3>5, ReadType
    <3>7. header = IF f >= queued THEN After(f + Clk, bound) ELSE queued
      BY <2>1 DEF BehindOutput
    <3>8. f + Clk \in Times
      BY <3>4, TimesType
    <3> HIDE DEF f, bound, header
    <3>9. After(f + Clk, bound) \in Times /\ After(f + Clk, bound) >= f + Clk
      BY <3>6, <3>8, AfterLater
    <3>10. After(f + Clk, bound) \in Int /\ Clk \in Int /\ Clk > 0
      BY <3>9, TimesType, ClkType
    <3> QED BY <1>12, <1>13, <3>4, <3>7, <3>9, <3>10
  <2>2. CASE i \notin Inner(p)
    BY <1>12, <1>13, <2>2
  <2> QED BY <2>1, <2>2
<1> HIDE DEF header
<1>15. header \in Int
  BY <1>14, TimesType
<1>16. arrival \in Times
  BY <1>7, <1>11
<1> HIDE DEF arrival
<1>17. claim \in ClaimSet /\ claim.owner = o /\ claim.header = header
  BY <1>10, <1>14, <1>16 DEF ClaimSet
<1> HIDE DEF claim
<1>18. /\ owned \in [ClaimPorts -> ClaimSet] /\ owned[x] = claim
       /\ \A y \in ClaimPorts : y # x => owned[y] = c.claims[y]
  BY <1>2, <1>3, <1>17, ClaimPut
<1> HIDE DEF owned
<1>19. jammed \subseteq Nat
  BY <1>2
<1> HIDE DEF jammed
<1>20. \A a : Same(a, a)
  BY DEF Same
<1>21. ASSUME NEW e \in ClaimSet, Same(e, c.claims[x]), d = [c EXCEPT !.claims[x] = e, !.going = FALSE]
       PROVE  /\ d \in PassSet /\ Same(d.claims[x], c.claims[x])
              /\ \A y \in ClaimPorts : y # x => Same(d.claims[y], c.claims[y])
  <2> DEFINE new == [c.claims EXCEPT ![x] = e]
  <2> HIDE DEF d, x
  <2>1. d = [claims |-> new, going |-> FALSE, jammed |-> c.jammed]
    BY <1>2, <1>21
  <2>2. /\ new \in [ClaimPorts -> ClaimSet] /\ new[x] = e
        /\ \A y \in ClaimPorts : y # x => new[y] = c.claims[y]
    BY <1>2, <1>3, ClaimPut
  <2> HIDE DEF new
  <2>3. d \in PassSet /\ d.claims = new
    BY <1>2, <2>1, <2>2 DEF PassSet
  <2> QED BY <1>20, <1>21, <2>2, <2>3
<1> HIDE DEF d
<1>22. CASE ~c.going
  BY <1>1, <1>20, <1>22 DEF d
<1>23. CASE c.going /\ Refused(came, temp)
  BY <1>1, <1>9, <1>21, <1>23 DEF d
<1>24. CASE c.going /\ ~Refused(came, temp) /\ late
  BY <1>1, <1>10, <1>21, <1>24 DEF d
<1>25. CASE c.going /\ ~Refused(came, temp) /\ ~late
  <2>1. d = [claims |-> owned, going |-> on, jammed |-> jammed]
    BY <1>1, <1>25
  <2> HIDE DEF x
  <2>2. d.claims = owned
    BY <2>1
  <2>3. d \in PassSet
    <3>1. on \in BOOLEAN
      OBVIOUS
    <3> HIDE DEF on
    <3> QED BY <1>18, <1>19, <2>1, <3>1, Zenon DEF PassSet
  <2>4. \A y \in ClaimPorts : y # x => Same(d.claims[y], c.claims[y])
    BY <1>18, <1>20, <2>2
  <2>5. d.claims[x].owner = o /\ d.claims[x].header = header
    BY <1>17, <1>18, <2>2
  <2>6. header > free /\ header >= temp
    BY <1>8, <1>11, <1>12, <1>13, <1>14, <1>15
  <2>7. i # 1 => d.claims[before].header = c.claims[before].header
    BY <1>6, <2>4 DEF Same
  <2>8. i = 1 => header >= p.send + Clk
    BY <1>7, <2>6
  <2>9. i > 1 => header >= d.claims[before].header + Clk
    <3>1. i > 1 => i # 1
      BY <1>3
    <3> QED BY <1>7, <2>6, <2>7, <3>1
  <2>10. Given(d.claims, ps, p, i)
    BY <2>5, <2>6, <2>8, <2>9 DEF Given, x, free
  <2> QED BY <2>3, <2>4, <2>5, <2>10 DEF d, x
<1> QED BY <1>22, <1>23, <1>24, <1>25

\* A packet claims some of the places of its path and nothing else.
LEMMA HeaderSimulated ==
  ASSUME NEW c \in PassSet, NEW ps \in [PortsInUse -> PortSet], NEW o \in Nat,
         NEW p, NEW m, HasPath(p, m), \A x \in ClaimPorts : c.claims[x].owner # o
  PROVE  LET d == SimulateHeaderTimetoRx(c, ps, o, p)
         IN  /\ d \in PassSet
             /\ \A x \in ClaimPorts : Same(d.claims[x], c.claims[x]) \/ d.claims[x].owner = o
             /\ \A i \in 1 .. m : d.claims[Rx(p)[i]].owner = o => Given(d.claims, ps, p, i)
<1> DEFINE s == [i \in Hops(p) |-> i]
           n == Len(s)
           there(x) == {i \in Inner(p) : Rx(p)[i] = x}
           outputs == [x \in DOMAIN c.claims |->
                         IF \E i \in Inner(p) : Rx(p)[i] = x
                         THEN [c.claims[x] EXCEPT
                                 !.out = Tx(p)[CHOOSE i \in Inner(p) : Rx(p)[i] = x]]
                         ELSE c.claims[x]]
           b == [claims |-> outputs, going |-> TRUE, jammed |-> c.jammed \ {o}]
           op(a, i) == ClaimPlace(a, ps, o, p, i)
           Mine(a, k) == \A i \in 1 .. m :
                           a.claims[Rx(p)[i]].owner = o => i <= k /\ Given(a.claims, ps, p, i)
           Others(a) == \A x \in ClaimPorts : Same(a.claims[x], c.claims[x]) \/ a.claims[x].owner = o
           T == [k \in 0 .. n |-> {a \in PassSet : Mine(a, k) /\ Others(a)}]
           step == [k \in 1 .. n |-> [a \in T[k - 1] |-> op(a, s[k])]]
           Is(f) == f = [k \in 0 .. n |-> IF k = 0 THEN b ELSE
                            CHOOSE v \in {op(a, s[k]) : a \in {f[k - 1]}} : TRUE]
           r == CHOOSE f : Is(f)
<1>21. m \in Nat /\ DOMAIN Rx(p) = 1 .. m /\ Len(Rx(p)) = m
       /\ \A i \in 1 .. m : Rx(p)[i] \in ClaimPorts
  BY DEF HasPath
<1>1. n = m /\ n \in Nat /\ \A k \in 1 .. n : s[k] = k
  <2>1. s = [i \in 1 .. m |-> i]
    BY <1>21 DEF Hops
  <2>2. s \in [1 .. m -> Nat]
    BY <2>1, <1>21
  <2> HIDE DEF s
  <2>3. Len(s) = m
    BY <1>21, <2>2, AsSeq
  <2> QED BY <1>21, <2>1, <2>3
<1> HIDE DEF s, n
<1>22. /\ c.claims \in [ClaimPorts -> ClaimSet] /\ c.jammed \subseteq Nat
  BY PassType
<1>23. ASSUME NEW x \in ClaimPorts
       PROVE  outputs[x] \in ClaimSet /\ Same(outputs[x], c.claims[x])
  <2>1. c.claims[x] \in ClaimSet
    BY <1>22
  <2>2. CASE \E i \in Inner(p) : Rx(p)[i] = x
    <3> DEFINE i == CHOOSE i \in Inner(p) : Rx(p)[i] = x
    <3>1. i \in Inner(p)
      BY <2>2
    <3> HIDE DEF i
    <3>2. Tx(p)[i] \in PortsInUse
      BY <3>1 DEF Inner, HasPath
    <3>3. outputs[x] = [c.claims[x] EXCEPT !.out = Tx(p)[i]]
      BY <1>22, <2>2 DEF i
    <3> HIDE DEF outputs
    <3> QED BY <2>1, <3>2, <3>3 DEF ClaimSet, Same
  <2>3. CASE ~ \E i \in Inner(p) : Rx(p)[i] = x
    <3>1. outputs[x] = c.claims[x]
      BY <1>22, <2>3
    <3> HIDE DEF outputs
    <3> QED BY <2>1, <3>1 DEF Same
  <2> QED BY <2>2, <2>3
<1>24. outputs \in [ClaimPorts -> ClaimSet]
  BY <1>22, <1>23
<1> HIDE DEF outputs
<1>2. b \in T[0]
  <2>1. b \in PassSet /\ b.claims = outputs
    BY <1>22, <1>24 DEF PassSet
  <2>2. Others(b)
    BY <1>23, <2>1
  <2>3. \A i \in 1 .. m : outputs[Rx(p)[i]].owner # o
    BY <1>21, <1>23 DEF Same
  <2>4. Mine(b, 0)
    BY <2>1, <2>3
  <2>5. 0 \in 0 .. n
    BY <1>1
  <2> HIDE DEF b, Others, Mine
  <2> QED BY <2>1, <2>2, <2>4, <2>5
<1>3. ASSUME NEW k \in 1 .. n, NEW a \in T[k - 1] PROVE op(a, s[k]) \in T[k]
  <2>1. k - 1 \in 0 .. n /\ k \in 0 .. n /\ s[k] = k /\ k \in 1 .. m
    BY <1>1
  <2>2. a \in PassSet /\ Mine(a, k - 1) /\ Others(a)
    BY <2>1
  <2> DEFINE d == ClaimPlace(a, ps, o, p, k)
             x == Rx(p)[k]
  <2>3. /\ d \in PassSet
        /\ \A y \in ClaimPorts : y # x => Same(d.claims[y], a.claims[y])
        /\ \/ Same(d.claims[x], a.claims[x])
           \/ d.claims[x].owner = o /\ Given(d.claims, ps, p, k)
    BY <2>1, <2>2, PlaceClaimed
  <2> HIDE DEF d
  <2>4. x \in ClaimPorts
    BY <1>21, <2>1
  <2>5. Others(d)
    <3> TAKE y \in ClaimPorts
    <3>1. Same(a.claims[y], c.claims[y]) \/ a.claims[y].owner = o
      BY <2>2
    <3>2. Same(d.claims[y], a.claims[y]) \/ d.claims[y].owner = o
      BY <2>3
    <3> QED BY <3>1, <3>2 DEF Same
  <2>6. Mine(d, k)
    <3> SUFFICES ASSUME NEW i \in 1 .. m, d.claims[Rx(p)[i]].owner = o
                 PROVE  i <= k /\ Given(d.claims, ps, p, i)
      OBVIOUS
    <3>1. CASE i = k
      <4>1. ~ Same(d.claims[x], a.claims[x])
        <5>1. Same(d.claims[x], a.claims[x]) => a.claims[Rx(p)[k]].owner = o
          BY <3>1 DEF Same
        <5>2. ~ (k <= k - 1)
          BY <2>1
        <5> QED BY <2>1, <2>2, <5>1, <5>2
      <4>2. Given(d.claims, ps, p, k)
        BY <2>3, <4>1
      <4> QED BY <2>1, <3>1, <4>2
    <3>2. CASE i # k
      <4>1. Rx(p)[i] # x /\ Rx(p)[i] \in ClaimPorts
        BY <2>1, <3>2 DEF HasPath
      <4>2. Same(d.claims[Rx(p)[i]], a.claims[Rx(p)[i]])
        BY <2>3, <4>1
      <4>3. a.claims[Rx(p)[i]].owner = o
        BY <4>2 DEF Same
      <4>4. i <= k - 1 /\ Given(a.claims, ps, p, i)
        BY <2>2, <4>3
      <4>5. i <= k
        BY <2>1, <4>4
      <4>6. i > 1 => d.claims[Rx(p)[i - 1]].header = a.claims[Rx(p)[i - 1]].header
        <5> SUFFICES ASSUME i > 1 PROVE Same(d.claims[Rx(p)[i - 1]], a.claims[Rx(p)[i - 1]])
          BY DEF Same
        <5>1. i - 1 \in 1 .. m /\ i - 1 # k
          BY <1>21, <2>1, <4>4
        <5>2. Rx(p)[i - 1] # x /\ Rx(p)[i - 1] \in ClaimPorts
          BY <2>1, <5>1 DEF HasPath
        <5> QED BY <2>3, <5>2
      <4>7. d.claims[Rx(p)[i]].header = a.claims[Rx(p)[i]].header
        BY <4>2 DEF Same
      <4>8. Given(d.claims, ps, p, i)
        BY <4>4, <4>6, <4>7 DEF Given
      <4> QED BY <4>5, <4>8
    <3> QED BY <3>1, <3>2
  <2> HIDE DEF Mine, Others
  <2>7. d \in T[k]
    BY <2>1, <2>3, <2>5, <2>6
  <2>8. op(a, s[k]) = d
    BY <2>1 DEF d
  <2> HIDE DEF op, T
  <2> QED BY <2>7, <2>8
<1>30. \A a \in T[n] : a \in PassSet /\ Mine(a, n) /\ Others(a)
  <2>1. n \in 0 .. n
    BY <1>1
  <2> QED BY <2>1
<1> HIDE DEF Mine, Others
<1> HIDE DEF T, n, b, s
<1>4. \A k \in 1 .. n : \A a \in T[k - 1] : step[k][a] = op(a, s[k])
  OBVIOUS
<1>5. \A k \in 1 .. n : \A a \in T[k - 1] : step[k][a] \in T[k]
  BY <1>3, <1>4
<1> HIDE DEF step
<1>6. PICK g : Run(g, n, T, b, step)
  <2>1. StepsWithin(n, T, b, step)
    BY <1>1, <1>2, <1>5 DEF StepsWithin
  <2> QED BY <2>1, Recursion
<1> HIDE DEF op
<1>7. \A f, k : (CHOOSE v \in {op(a, s[k]) : a \in {f[k - 1]}} : TRUE) = op(f[k - 1], s[k])
  <2> TAKE f, k
  <2>1. {op(a, s[k]) : a \in {f[k - 1]}} = {op(f[k - 1], s[k])}
    OBVIOUS
  <2> QED BY <2>1, Only, Zenon
<1>8. Is(g)
  <2> DEFINE F(k) == IF k = 0 THEN b ELSE
                       CHOOSE v \in {op(a, s[k]) : a \in {g[k - 1]}} : TRUE
  <2>1. ASSUME NEW k \in 0 .. n PROVE g[k] = F(k)
    <3>1. CASE k = 0
      BY <1>6, <3>1 DEF Run
    <3>2. CASE k # 0
      <4>1. k \in 1 .. n /\ k - 1 \in 0 .. n
        BY <1>1, <3>2
      <4>2. g[k] = op(g[k - 1], s[k])
        BY <1>4, <1>6, <4>1 DEF Run
      <4>3. F(k) = op(g[k - 1], s[k])
        BY <1>7, <3>2, Zenon
      <4> QED BY <4>2, <4>3
    <3> QED BY <3>1, <3>2
  <2> HIDE DEF F
  <2>2. g = [k \in 0 .. n |-> F(k)]
    BY <1>6, <2>1 DEF Run
  <2> QED BY <2>2, Zenon DEF F
<1>9. Is(r)
  BY <1>8, Zenon
<1>10. r[0] = b /\ \A k \in 1 .. n : r[k] = op(r[k - 1], s[k])
  <2> HIDE DEF r
  <2>1. r[0] = b
    BY <1>1, <1>9
  <2>2. ASSUME NEW k \in 1 .. n PROVE r[k] = op(r[k - 1], s[k])
    <3>1. k \in 0 .. n /\ k # 0
      BY <1>1
    <3>2. r[k] = CHOOSE v \in {op(a, s[k]) : a \in {r[k - 1]}} : TRUE
      BY <1>9, <3>1
    <3> QED BY <1>7, <3>2
  <2> QED BY <2>1, <2>2
<1> HIDE DEF Is, r
<1>11. \A k \in 1 .. n : r[k - 1] \in T[k - 1] => r[k] \in T[k]
  BY <1>3, <1>10
<1>12. r[n] \in T[n]
  <2>1. \A k \in 0 .. n : r[k] \in T[k]
    BY <1>1, <1>2, <1>10, <1>11, Reaches
  <2> QED BY <1>1, <2>1
<1>13. SimulateHeaderTimetoRx(c, ps, o, p) = r[n]
  BY DEF SimulateHeaderTimetoRx, Fold, r, Is, op, n, b, s, outputs
<1>14. r[n] \in PassSet /\ Mine(r[n], n) /\ Others(r[n])
  BY <1>12, <1>30
<1> QED BY <1>13, <1>14 DEF Mine, Others

EntrySet == [trans : Nat, at : Times]
PayloadSet == [src : PE, dst : PE, size : Nat, send : Times, finish : Times, pkt : Nat]
States == {"idle", "window", "accept", "search", "claim", "transfer"}
MainSet == [state : States, wake : Times, place : Nat]
SenderSet == [sends : BOOLEAN, recompute_list : {<<>>}]

\* A sequence, of whatever elements.
Listed(s) == s \in Seq(Range(s))

\* The transactions.
FlowOf(p) == \E f \in Flows : p.src = f.src /\ p.dst = f.dst /\ p.size = f.len

PayloadsHold ==
  /\ payload \in Seq(PayloadSet) /\ \A t \in 1 .. Len(payload) : FlowOf(payload[t])
  /\ arrived \in Seq(Seq(Times)) /\ Len(arrived) = Len(payload)

\* When a packet is received in an empty network.
Soonest(p) == p.send + Clk * (Len(RxPath[<<p.src, p.dst>>]) + (p.size + 8) \div 4 - 1)

\* No transaction waits twice to be accepted, none is scheduled twice for the
\* same time, and none that has arrived is scheduled; what is scheduled is not
\* past, and the last of it is the delivery.
Waits(t) == \E i \in 1 .. Len(pkt_peq) : pkt_peq[i].trans = t

Scheduled(e) ==
  /\ e.trans \in 1 .. Len(payload) /\ arrived[e.trans] = <<>> /\ payload[e.trans].pkt # 0
  /\ e.at >= now /\ e.at <= payload[e.trans].finish
  /\ payload[e.trans].finish >= Soonest(payload[e.trans])

QueuesHold ==
  /\ now \in Times
  /\ pkt_peq \in Seq(EntrySet) /\ complete_peq \in Seq(EntrySet) /\ recompute_peq = <<>>
  /\ \A i, j \in 1 .. Len(complete_peq) : i < j =>
       complete_peq[i].at <= complete_peq[j].at /\ complete_peq[i] # complete_peq[j]
  /\ \A i \in 1 .. Len(complete_peq) : Scheduled(complete_peq[i])
  /\ \A i \in 1 .. Len(pkt_peq) : pkt_peq[i].trans \in 1 .. Len(payload)
  /\ \A i, j \in 1 .. Len(pkt_peq) : i < j => pkt_peq[i].trans # pkt_peq[j].trans

\* A transaction has a packet object from when it is accepted until it arrives.
InNetwork(t) == payload[t].pkt \in DOMAIN pkt /\ pkt[payload[t].pkt].trans = t

ArrivalsHold ==
  \A t \in 1 .. Len(payload) :
    /\ Waits(t) => payload[t].pkt = 0 /\ arrived[t] = <<>>
    /\ ~Waits(t) /\ arrived[t] = <<>> => InNetwork(t)
    /\ arrived[t] \in {<<>>, <<payload[t].finish>>}
    /\ arrived[t] # <<>> => payload[t].finish >= Soonest(payload[t])

ThreadsHold ==
  /\ main \in MainSet /\ sender \in SenderSet /\ newPacket_num \in Nat
  /\ main.state \in {"idle", "window"} => Unfinished_Packets = <<>>
  /\ main.state # "search" => stack = <<>>
  /\ sender.sends => main.state \in {"idle", "window"}

IsPacket(p) ==
  /\ p = [id |-> p.id, trans |-> p.trans, rx |-> p.rx, tx |-> p.tx, flits |-> p.flits,
          send |-> p.send, finished |-> p.finished, reCompute |-> p.reCompute,
          header |-> p.header, tail |-> p.tail]
  /\ p.trans \in 1 .. Len(payload) /\ p.id = p.trans /\ p.reCompute \in BOOLEAN
  /\ p.rx = RxPath[<<payload[p.trans].src, payload[p.trans].dst>>]
  /\ p.tx = TxPath[<<payload[p.trans].src, payload[p.trans].dst>>]
  /\ p.flits = (payload[p.trans].size + 8) \div 4 /\ p.send = payload[p.trans].send

PacketsHold == Listed(pkt) /\ \A o \in DOMAIN pkt : IsPacket(pkt[o])

\* The objects to be used again are not in use and no object is twice among
\* them; the packets to be computed are in use and are those marked.
PoolHolds ==
  /\ Deleted_Packets \in Seq(Nat) /\ Finish_Packets = <<>> /\ Unfinished_Packets \in Seq(Nat)
  /\ IsInjective(Deleted_Packets)
  /\ Live \intersect Range(Deleted_Packets) = {}
  /\ DOMAIN pkt = Live \union Range(Deleted_Packets)
  /\ IsInjective(Unfinished_Packets)
  /\ Range(Unfinished_Packets) \subseteq Live
  /\ \A o \in Live : pkt[o].reCompute <=> o \in Range(Unfinished_Packets)

\* Only packets on their way are registered at a port, at a place where they go
\* through it.
IsThere(e, x) == e.pkt \in Live /\ e.at \in DOMAIN pkt[e.pkt].rx /\ pkt[e.pkt].rx[e.at] = x

PortsHold ==
  /\ ports \in [PortsInUse -> PortSet]
  /\ \A x \in PortsInUse : \A k \in 1 .. Len(ports[x].passed) : IsThere(ports[x].passed[k], x)
  /\ \A x \in ClaimPorts : \A i, j \in 1 .. Len(ports[x].released) :
       i < j => ports[x].released[i].time <= ports[x].released[j].time

\* Every call of the search is about a packet on its way, and a packet is made
\* to wait only after it is among those to be computed.
Involved(k) ==
  \/ stack[k].pkt \in Range(Unfinished_Packets)
  \/ \E j \in 1 .. k - 1 : stack[j].call = "involve" /\ stack[j].pkt = stack[k].pkt

StackHolds ==
  /\ Listed(stack)
  /\ \A k \in 1 .. Len(stack) : stack[k].pkt \in Live /\ (stack[k].call = "delay" => Involved(k))

\* What a packet that is computed has left at its ports.
OnItsWay(p) ==
  /\ p.header \in [DOMAIN p.rx -> Times] /\ p.tail \in [DOMAIN p.rx -> Times]
  /\ \A i \in DOMAIN p.rx :
       /\ p.header[i] <= p.tail[i]
       /\ \E m \in 1 .. Len(ports[p.rx[i]].released) :
            ports[p.rx[i]].released[m] = [id |-> p.id, time |-> p.tail[i]]

TimesHold == (\A o \in Live \ Range(Unfinished_Packets) : OnItsWay(pkt[o])) /\ OneAtAPort

\* A claim is behind all that has left the port, and comes a cycle or more after
\* the claim before it on the path.
Granted(o, i) ==
  LET x == pkt[o].rx[i]
  IN  /\ claims.claims[x].header > ReleaseTime(ports[x].released)
      /\ i = 1 => claims.claims[x].header >= pkt[o].send + Clk
      /\ i > 1 /\ claims.claims[pkt[o].rx[i - 1]].owner = o =>
           claims.claims[x].header >= claims.claims[pkt[o].rx[i - 1]].header + Clk

ClaimsHold ==
  main.state \in {"claim", "transfer"} =>
    /\ claims \in PassSet /\ main.place >= 1
    /\ main.state = "claim" =>
         \A x \in ClaimPorts :
           \/ claims.claims[x].owner = 0
           \/ \E j \in 1 .. Len(Unfinished_Packets) :
                j < main.place /\ claims.claims[x].owner = Unfinished_Packets[j]
    /\ \A o \in Range(Unfinished_Packets) : \A i \in DOMAIN pkt[o].rx :
         claims.claims[pkt[o].rx[i]].owner = o => Granted(o, i)

Inv == /\ PayloadsHold /\ QueuesHold /\ ArrivalsHold /\ ThreadsHold /\ PacketsHold /\ PoolHolds
       /\ PortsHold /\ StackHolds /\ TimesHold /\ ClaimsHold
-----------------------------------------------------------------------------
\* Sequences

\* What follows from being a sequence of elements of M.
LEMMA SeqFacts ==
  ASSUME NEW M, NEW s \in Seq(M)
  PROVE  /\ Len(s) \in Nat /\ DOMAIN s = 1 .. Len(s) /\ \A i \in 1 .. Len(s) : s[i] \in M
         /\ s # <<>> <=> Len(s) >= 1
         /\ \A i \in 1 .. Len(s) : s[i] \in Range(s)
         /\ \A e \in Range(s) : \E i \in 1 .. Len(s) : e = s[i]
<1>1. Len(s) \in Nat /\ DOMAIN s = 1 .. Len(s) /\ \A i \in 1 .. Len(s) : s[i] \in M
  BY LenProperties, ElementOfSeq
<1>2. s # <<>> <=> Len(s) >= 1
  BY NotEmpty
<1>3. /\ \A i \in 1 .. Len(s) : s[i] \in Range(s)
      /\ \A e \in Range(s) : \E i \in 1 .. Len(s) : e = s[i]
  BY <1>1 DEF Range
<1> QED BY <1>1, <1>2, <1>3

\* The first element of a sequence and the others.
LEMMA TailFacts ==
  ASSUME NEW M, NEW s \in Seq(M), s # <<>>
  PROVE  /\ Head(s) = s[1] /\ Head(s) \in M /\ 1 \in 1 .. Len(s)
         /\ Tail(s) \in Seq(M) /\ Len(Tail(s)) = Len(s) - 1
         /\ \A i \in 1 .. Len(s) - 1 : Tail(s)[i] = s[i + 1] /\ i + 1 \in 1 .. Len(s)
<1>1. /\ Head(s) \in M /\ Tail(s) \in Seq(M) /\ Len(Tail(s)) = Len(s) - 1
      /\ \A i \in 1 .. Len(Tail(s)) : Tail(s)[i] = s[i + 1]
  BY HeadTailProperties
<1>2. Len(s) \in Nat /\ Len(s) >= 1
  BY SeqFacts
<1>3. Head(s) = s[1]
  OBVIOUS
<1> QED BY <1>1, <1>2, <1>3

\* The sequence e in front of s.
LEMMA PushedFacts ==
  ASSUME NEW M, NEW s \in Seq(M), NEW e \in M
  PROVE  /\ <<e>> \o s \in Seq(M) /\ Len(<<e>> \o s) = Len(s) + 1
         /\ (<<e>> \o s)[1] = e /\ \A i \in 1 .. Len(s) : (<<e>> \o s)[i + 1] = s[i]
<1> DEFINE a == <<e>>
<1>1. a \in Seq(M) /\ Len(a) = 1 /\ a[1] = e
  OBVIOUS
<1> HIDE DEF a
<1>2. /\ a \o s \in Seq(M) /\ Len(a \o s) = Len(a) + Len(s)
      /\ \A i \in 1 .. Len(a) + Len(s) : (a \o s)[i] =
           IF i <= Len(a) THEN a[i] ELSE s[i - Len(a)]
  BY <1>1, ConcatProperties
<1>3. Len(s) \in Nat
  BY SeqFacts
<1>4. 1 \in 1 .. Len(a) + Len(s) /\ 1 <= Len(a)
  BY <1>1, <1>3
<1>5. (a \o s)[1] = e
  BY <1>1, <1>2, <1>4
<1>6. ASSUME NEW i \in 1 .. Len(s) PROVE (a \o s)[i + 1] = s[i]
  <2>1. i + 1 \in 1 .. Len(a) + Len(s) /\ ~ (i + 1 <= Len(a)) /\ i + 1 - Len(a) = i
    BY <1>1, <1>3
  <2> QED BY <1>2, <2>1
<1> QED BY <1>1, <1>2, <1>3, <1>5, <1>6 DEF a

\* A sequence is one of the elements it has.
LEMMA ListedFacts ==
  ASSUME NEW M, NEW s \in Seq(M)
  PROVE  Listed(s)
<1>1. Len(s) \in Nat /\ \A i \in 1 .. Len(s) : s[i] \in Range(s)
  BY SeqFacts
<1>2. s = [i \in 1 .. Len(s) |-> s[i]]
  OBVIOUS
<1>3. s \in [1 .. Len(s) -> Range(s)]
  BY <1>1, <1>2
<1> QED BY <1>1, <1>3, SeqDef DEF Listed

\* One element is taken out.
LEMMA Removed ==
  ASSUME NEW M, NEW s \in Seq(M), IsInjective(s), NEW k \in 1 .. Len(s)
  PROVE  /\ RemoveAt(s, k) \in Seq(M) /\ IsInjective(RemoveAt(s, k))
         /\ Range(RemoveAt(s, k)) = Range(s) \ {s[k]}
<1> DEFINE a == SubSeq(s, 1, k - 1)
           b == SubSeq(s, k + 1, Len(s))
           r == a \o b
           n == Len(s)
<1>1. n \in Nat /\ DOMAIN s = 1 .. n /\ k \in Nat /\ k >= 1 /\ k <= n
  BY SeqFacts
<1>2. \A i \in 1 .. k - 1 : i \in 1 .. n
  BY <1>1
<1>3. \A i \in k + 1 .. n : i \in 1 .. n
  BY <1>1
<1>4. /\ a \in Seq(M) /\ Len(a) = k - 1 /\ \A i \in 1 .. k - 1 : a[i] = s[i]
  <2>1. \A i \in 1 .. k - 1 : s[i] \in M
    BY <1>2, ElementOfSeq
  <2>2. k - 1 >= 0 /\ k - 1 \in Nat
    BY <1>1, SMTT(40)
  <2> QED BY <1>1, <2>1, <2>2
<1>5. /\ b \in Seq(M) /\ Len(b) = n - k /\ \A i \in 1 .. n - k : b[i] = s[k + i]
  <2>1. \A i \in k + 1 .. n : s[i] \in M
    BY <1>3, ElementOfSeq
  <2>2. n - k \in Nat /\ k + 1 \in Nat /\ n - (k + 1) + 1 = n - k
    BY <1>1
  <2>3. /\ b \in Seq(M)
        /\ Len(b) = IF k + 1 <= n THEN n - (k + 1) + 1 ELSE 0
        /\ \A i \in 1 .. n - (k + 1) + 1 : b[i] = s[k + 1 + i - 1]
    BY <1>1, <2>1, <2>2, SubSeqProperties
  <2>4. (IF k + 1 <= n THEN n - (k + 1) + 1 ELSE 0) = n - k
    <3> HIDE DEF n
    <3>1. CASE k = n
      BY <1>1, <3>1
    <3>2. CASE k < n
      BY <1>1, <3>2
    <3> QED BY <1>1, <3>1, <3>2
  <2>5. \A i \in 1 .. n - k : k + 1 + i - 1 = k + i
    BY <1>1
  <2> HIDE DEF b
  <2> QED BY <2>2, <2>3, <2>4, <2>5
<1> HIDE DEF a, b
<1>6. /\ r \in Seq(M) /\ Len(r) = n - 1
      /\ \A i \in 1 .. n - 1 : r[i] = IF i <= k - 1 THEN a[i] ELSE b[i - (k - 1)]
  <2>1. /\ r \in Seq(M) /\ Len(r) = Len(a) + Len(b)
        /\ \A i \in 1 .. Len(a) + Len(b) : r[i] = IF i <= Len(a) THEN a[i] ELSE b[i - Len(a)]
    BY <1>4, <1>5, ConcatProperties
  <2>2. Len(a) + Len(b) = n - 1
    BY <1>1, <1>4, <1>5
  <2> QED BY <1>4, <2>1, <2>2
<1> DEFINE old(i) == IF i < k THEN i ELSE i + 1
<1>7. \A i \in 1 .. n - 1 : old(i) \in 1 .. n /\ old(i) # k /\ r[i] = s[old(i)]
  <2> TAKE i \in 1 .. n - 1
  <2>1. old(i) \in 1 .. n /\ old(i) # k
    BY <1>1
  <2>2. CASE i < k
    <3>1. i <= k - 1 /\ i \in 1 .. k - 1
      BY <1>1, <2>2
    <3>2. r[i] = a[i]
      BY <1>6, <3>1
    <3>3. a[i] = s[i] /\ old(i) = i
      BY <1>4, <2>2, <3>1
    <3> HIDE DEF old, r
    <3> QED BY <2>1, <3>2, <3>3
  <2>3. CASE ~ (i < k)
    <3>1. ~ (i <= k - 1) /\ i - (k - 1) \in 1 .. n - k /\ k + (i - (k - 1)) = i + 1
      BY <1>1, <2>3
    <3>2. r[i] = b[i - (k - 1)]
      BY <1>6, <3>1
    <3>3. b[i - (k - 1)] = s[i + 1] /\ old(i) = i + 1
      BY <1>5, <2>3, <3>1
    <3> HIDE DEF old, r
    <3> QED BY <2>1, <3>2, <3>3
  <2> QED BY <2>2, <2>3
<1> HIDE DEF r
<1>8. \A i, j \in 1 .. n - 1 : old(i) = old(j) => i = j
  BY <1>1
<1>9. \A h \in 1 .. n : h # k => \E i \in 1 .. n - 1 : old(i) = h
  <2> TAKE h \in 1 .. n
  <2> SUFFICES ASSUME h # k PROVE \E i \in 1 .. n - 1 : old(i) = h
    OBVIOUS
  <2>1. CASE h < k
    <3>1. h \in 1 .. n - 1 /\ old(h) = h
      BY <1>1, <2>1
    <3> QED BY <3>1
  <2>2. CASE h > k
    <3>1. h - 1 \in 1 .. n - 1 /\ old(h - 1) = h
      BY <1>1, <2>2
    <3> QED BY <3>1
  <2> QED BY <1>1, <2>1, <2>2
<1> HIDE DEF old
<1>10. DOMAIN r = 1 .. n - 1
  BY <1>6, SeqFacts
<1>11. IsInjective(r)
  <2> SUFFICES ASSUME NEW i \in 1 .. n - 1, NEW j \in 1 .. n - 1, r[i] = r[j] PROVE i = j
    BY <1>10 DEF IsInjective
  <2>1. old(i) = old(j)
    BY <1>1, <1>7 DEF IsInjective
  <2> QED BY <1>8, <2>1
<1>12. Range(r) = Range(s) \ {s[k]}
  <2>1. \A i \in 1 .. n - 1 : r[i] \in Range(s) /\ r[i] # s[k]
    <3> TAKE i \in 1 .. n - 1
    <3>1. s[old(i)] # s[k]
      BY <1>1, <1>7 DEF IsInjective
    <3> QED BY <1>7, <3>1, SeqFacts
  <2>2. \A h \in 1 .. n : h # k => \E i \in 1 .. n - 1 : r[i] = s[h]
    <3> TAKE h \in 1 .. n
    <3> SUFFICES ASSUME h # k PROVE \E i \in 1 .. n - 1 : r[i] = s[h]
      OBVIOUS
    <3>1. PICK i \in 1 .. n - 1 : old(i) = h
      BY <1>9
    <3> QED BY <1>7, <3>1
  <2>3. Range(r) = {r[i] : i \in 1 .. n - 1} /\ Range(s) = {s[h] : h \in 1 .. n}
    BY <1>1, <1>10 DEF Range
  <2>4. Range(r) \subseteq Range(s) \ {s[k]}
    BY <2>1, <2>3
  <2>5. ASSUME NEW e \in Range(s) \ {s[k]} PROVE e \in Range(r)
    <3>1. PICK h \in 1 .. n : e = s[h]
      BY <2>3
    <3>2. h # k
      BY <3>1
    <3>3. PICK i \in 1 .. n - 1 : r[i] = s[h]
      BY <2>2, <3>2
    <3> QED BY <2>3, <3>1, <3>3
  <2> QED BY <2>4, <2>5
<1>13. RemoveAt(s, k) = r
  BY DEF RemoveAt, r, a, b
<1> QED BY <1>6, <1>11, <1>12, <1>13

\* The elements that are kept.
LEMMA FilteredMembers ==
  ASSUME NEW M, NEW s \in Seq(M), NEW keep
  PROVE  Filtered(s, keep) \in Seq(M) /\ Range(Filtered(s, keep)) = Range(s) \intersect keep
<1> DEFINE rel == {<<s[i], s[j]>> : i \in 1 .. Len(s), j \in 1 .. Len(s)}
<1>1. \A i, j \in 1 .. Len(s) : i < j => <<s[i], s[j]>> \in rel
  OBVIOUS
<1> HIDE DEF rel
<1> QED BY <1>1, FilteredProperties

\* Nothing can be kept of nothing.
LEMMA FilteredNothing ==
  ASSUME NEW keep
  PROVE  Filtered(<<>>, keep) = <<>>
<1> DEFINE s == <<>>
           r == Filtered(s, keep)
<1>1. s \in Seq({})
  BY EmptySeq
<1> HIDE DEF s
<1>2. r \in Seq({})
  BY <1>1, FilteredMembers
<1> HIDE DEF r
<1>3. r = <<>>
  <2>1. \A i \in 1 .. Len(r) : r[i] \in {}
    BY <1>2, SeqFacts
  <2>2. Len(r) \in Nat /\ (r # <<>> <=> Len(r) >= 1)
    BY <1>2, SeqFacts
  <2>3. ~ (Len(r) >= 1)
    BY <2>1, <2>2
  <2> QED BY <2>2, <2>3
<1> QED BY <1>3 DEF r, s

\* The entries of q are related in their order, and e fits among them.
Joins(q, e, rel) ==
  /\ \A i, j \in 1 .. Len(q) : i < j => <<q[i], q[j]>> \in rel
  /\ \A i \in 1 .. Len(q) : /\ q[i].at <= e.at => <<q[i], e>> \in rel
                            /\ q[i].at > e.at => <<e, q[i]>> \in rel
  /\ \A i, j \in 1 .. Len(q) : q[i].at <= e.at /\ e.at < q[j].at => <<q[i], q[j]>> \in rel

\* r is q with e.
Grown(r, q, e, rel) ==
  /\ r \in Seq(EntrySet)
  /\ \A i \in 1 .. Len(r) : r[i] = e \/ \E j \in 1 .. Len(q) : r[i] = q[j]
  /\ \A j \in 1 .. Len(q) : \E i \in 1 .. Len(r) : r[i] = q[j]
  /\ \E i \in 1 .. Len(r) : r[i] = e
  /\ \A i, j \in 1 .. Len(r) : i < j => <<r[i], r[j]>> \in rel

\* An entry is put in its place.
LEMMA Notified ==
  ASSUME NEW q \in Seq(EntrySet), NEW t \in Nat, NEW at \in Times, NEW rel, NEW e,
         e = [trans |-> t, at |-> at], Joins(q, e, rel)
  PROVE  Grown(NotifyAt(q, t, at), q, e, rel)
<1> SUFFICES ASSUME
         \A i, j \in 1 .. Len(q) : i < j => <<q[i], q[j]>> \in rel,
         \A i \in 1 .. Len(q) : /\ q[i].at <= at => <<q[i], e>> \in rel
                                /\ q[i].at > at => <<e, q[i]>> \in rel,
         \A i, j \in 1 .. Len(q) : q[i].at <= at /\ at < q[j].at => <<q[i], q[j]>> \in rel
    PROVE LET r == NotifyAt(q, t, at)
         IN  /\ r \in Seq(EntrySet)
             /\ \A i \in 1 .. Len(r) : r[i] = e \/ \E j \in 1 .. Len(q) : r[i] = q[j]
             /\ \A j \in 1 .. Len(q) : \E i \in 1 .. Len(r) : r[i] = q[j]
             /\ \E i \in 1 .. Len(r) : r[i] = e
             /\ \A i, j \in 1 .. Len(r) : i < j => <<r[i], r[j]>> \in rel
  <2>1. e.at = at
    OBVIOUS
  <2>2. /\ \A i, j \in 1 .. Len(q) : i < j => <<q[i], q[j]>> \in rel
        /\ \A i \in 1 .. Len(q) : /\ q[i].at <= at => <<q[i], e>> \in rel
                                  /\ q[i].at > at => <<e, q[i]>> \in rel
        /\ \A i, j \in 1 .. Len(q) : q[i].at <= at /\ at < q[j].at => <<q[i], q[j]>> \in rel
    BY <2>1 DEF Joins
  <2> QED BY <2>2, Zenon DEF Grown
<1> DEFINE ka == {x \in Range(q) : x.at <= at}
           kb == {x \in Range(q) : x.at > at}
           a == Filtered(q, ka)
           b == Filtered(q, kb)
           m == <<e>>
           am == a \o m
           r == am \o b
<1>0. NotifyAt(q, t, at) = r
  BY DEF NotifyAt, UpTo, Behind
<1>1. /\ a \in Seq(EntrySet)
      /\ \A j \in 1 .. Len(a) : a[j] \in ka /\ \E i \in 1 .. Len(q) : a[j] = q[i]
      /\ \A i \in 1 .. Len(q) : q[i] \in ka => \E j \in 1 .. Len(a) : a[j] = q[i]
      /\ \A i, j \in 1 .. Len(a) : i < j => <<a[i], a[j]>> \in rel
  <2> HIDE DEF ka
  <2>1. a \in Seq(EntrySet) /\ Range(a) = Range(q) \intersect ka
        /\ \A i, j \in 1 .. Len(a) : i < j => <<a[i], a[j]>> \in rel
    BY FilteredProperties
  <2> HIDE DEF a
  <2>2. \A j \in 1 .. Len(a) : a[j] \in Range(q) \intersect ka
    BY <2>1, SeqFacts
  <2>3. \A e1 \in Range(q) : \E i \in 1 .. Len(q) : e1 = q[i]
    BY SeqFacts
  <2>4. \A i \in 1 .. Len(q) : q[i] \in Range(q)
    BY SeqFacts
  <2>5. \A e1 \in Range(a) : \E i \in 1 .. Len(a) : e1 = a[i]
    BY <2>1, SeqFacts
  <2> QED BY <2>1, <2>2, <2>3, <2>4, <2>5
<1>2. /\ b \in Seq(EntrySet)
      /\ \A j \in 1 .. Len(b) : b[j] \in kb /\ \E i \in 1 .. Len(q) : b[j] = q[i]
      /\ \A i \in 1 .. Len(q) : q[i] \in kb => \E j \in 1 .. Len(b) : b[j] = q[i]
      /\ \A i, j \in 1 .. Len(b) : i < j => <<b[i], b[j]>> \in rel
  <2> HIDE DEF kb
  <2>1. b \in Seq(EntrySet) /\ Range(b) = Range(q) \intersect kb
        /\ \A i, j \in 1 .. Len(b) : i < j => <<b[i], b[j]>> \in rel
    BY FilteredProperties
  <2> HIDE DEF b
  <2>2. \A j \in 1 .. Len(b) : b[j] \in Range(q) \intersect kb
    BY <2>1, SeqFacts
  <2>3. \A e1 \in Range(q) : \E i \in 1 .. Len(q) : e1 = q[i]
    BY SeqFacts
  <2>4. \A i \in 1 .. Len(q) : q[i] \in Range(q)
    BY SeqFacts
  <2>5. \A e1 \in Range(b) : \E i \in 1 .. Len(b) : e1 = b[i]
    BY <2>1, SeqFacts
  <2> QED BY <2>1, <2>2, <2>3, <2>4, <2>5
<1> HIDE DEF a, b
<1>3. m \in Seq(EntrySet) /\ Len(m) = 1 /\ m[1] = e
  <2>1. e \in EntrySet
    BY DEF EntrySet
  <2> QED BY <2>1
<1> HIDE DEF m
<1> DEFINE n == Len(a)
<1>4. n \in Nat /\ Len(b) \in Nat
  BY <1>1, <1>2, SeqFacts
<1>5. /\ am \in Seq(EntrySet) /\ Len(am) = n + 1
      /\ \A i \in 1 .. n + 1 : am[i] = IF i <= n THEN a[i] ELSE m[i - n]
  <2>1. /\ am \in Seq(EntrySet) /\ Len(am) = Len(a) + Len(m)
        /\ \A i \in 1 .. Len(a) + Len(m) : am[i] = IF i <= Len(a) THEN a[i] ELSE m[i - Len(a)]
    <3>1. a \in Seq(EntrySet) /\ m \in Seq(EntrySet)
      BY <1>1, <1>3
    <3> QED BY <3>1, ConcatProperties
  <2> HIDE DEF am
  <2>2. Len(a) + Len(m) = n + 1
    BY <1>3
  <2> QED BY <2>1, <2>2
<1> HIDE DEF am
<1>6. /\ r \in Seq(EntrySet) /\ Len(r) = n + 1 + Len(b)
      /\ \A i \in 1 .. n + 1 + Len(b) : r[i] = IF i <= n + 1 THEN am[i] ELSE b[i - (n + 1)]
  <2>1. /\ r \in Seq(EntrySet) /\ Len(r) = Len(am) + Len(b)
        /\ \A i \in 1 .. Len(am) + Len(b) : r[i] = IF i <= Len(am) THEN am[i] ELSE b[i - Len(am)]
    BY <1>2, <1>5, ConcatProperties, ZenonT(40)
  <2> HIDE DEF r
  <2>2. Len(am) = n + 1
    BY <1>5
  <2> QED BY <2>1, <2>2
<1> HIDE DEF r, n
<1>7. \A i \in 1 .. n : i \in 1 .. Len(r) /\ r[i] = a[i]
  <2> TAKE i \in 1 .. n
  <2>1. i \in 1 .. n + 1 /\ i <= n + 1 /\ i <= n /\ i \in 1 .. n + 1 + Len(b)
    BY <1>4
  <2> QED BY <1>5, <1>6, <2>1
<1>8. n + 1 \in 1 .. Len(r) /\ r[n + 1] = e
  <2> DEFINE k == n + 1
  <2>1. k \in 1 .. n + 1 /\ k <= n + 1 /\ ~ (k <= n) /\ k \in 1 .. n + 1 + Len(b) /\ k - n = 1
    BY <1>4
  <2> HIDE DEF k
  <2>2. am[k] = m[k - n]
    BY <1>5, <2>1
  <2>3. r[k] = am[k]
    BY <1>6, <2>1
  <2>4. k \in 1 .. Len(r) /\ r[k] = e
    BY <1>3, <1>6, <2>1, <2>2, <2>3
  <2> QED BY <2>4 DEF k
<1>9. \A i \in 1 .. Len(b) : n + 1 + i \in 1 .. Len(r) /\ r[n + 1 + i] = b[i]
  <2> TAKE i \in 1 .. Len(b)
  <2> DEFINE k == n + 1 + i
  <2>1. k \in 1 .. n + 1 + Len(b) /\ ~ (k <= n + 1) /\ k - (n + 1) = i
    BY <1>4
  <2> HIDE DEF k
  <2>2. r[k] = b[k - (n + 1)]
    BY <1>6, <2>1
  <2>3. k \in 1 .. Len(r) /\ r[k] = b[i]
    BY <1>6, <2>1, <2>2
  <2> QED BY <2>3 DEF k
<1>10. \A i \in 1 .. Len(r) : \/ i \in 1 .. n
                              \/ i = n + 1
                              \/ i - (n + 1) \in 1 .. Len(b) /\ i = n + 1 + (i - (n + 1))
  BY <1>4, <1>6
<1>11. n = Len(a)
  BY DEF n
<1>12. \A i \in 1 .. Len(r) : r[i] = e \/ \E j \in 1 .. Len(q) : r[i] = q[j]
  <2> TAKE i \in 1 .. Len(r)
  <2>1. CASE i \in 1 .. n
    BY <1>1, <1>7, <1>11, <2>1
  <2>2. CASE i = n + 1
    BY <1>8, <2>2
  <2>3. CASE i - (n + 1) \in 1 .. Len(b) /\ i = n + 1 + (i - (n + 1))
    <3> DEFINE k == i - (n + 1)
    <3>1. r[i] = b[k] /\ \E h \in 1 .. Len(q) : b[k] = q[h]
      BY <1>2, <1>9, <2>3
    <3> HIDE DEF k
    <3> QED BY <3>1
  <2> QED BY <1>10, <2>1, <2>2, <2>3
<1>13. \A j \in 1 .. Len(q) : \E i \in 1 .. Len(r) : r[i] = q[j]
  <2> TAKE j \in 1 .. Len(q)
  <2>1. q[j] \in Range(q) /\ q[j].at \in Int /\ at \in Int
    <3>1. q[j] \in EntrySet /\ q[j] \in Range(q)
      BY SeqFacts
    <3>2. q[j].at \in Times
      BY <3>1 DEF EntrySet
    <3> QED BY <3>1, <3>2, TimesType
  <2>2. q[j] \in ka \/ q[j] \in kb
    BY <2>1
  <2>3. CASE q[j] \in ka
    BY <1>1, <1>7, <1>11, <2>3
  <2>4. CASE q[j] \in kb
    BY <1>2, <1>9, <2>4
  <2> QED BY <2>2, <2>3, <2>4
<1>14. ASSUME NEW i \in 1 .. Len(r), NEW j \in 1 .. Len(r), i < j
       PROVE  <<r[i], r[j]>> \in rel
  <2>1. CASE i \in 1 .. n
    <3>1. r[i] = a[i] /\ a[i] \in ka /\ \E h \in 1 .. Len(q) : a[i] = q[h]
      BY <1>1, <1>7, <1>11, <2>1
    <3>2. CASE j \in 1 .. n
      BY <1>1, <1>7, <1>11, <1>14, <2>1, <3>2
    <3>3. CASE j = n + 1
      BY <1>8, <3>1, <3>3
    <3>4. CASE j - (n + 1) \in 1 .. Len(b) /\ j = n + 1 + (j - (n + 1))
      <4> DEFINE k == j - (n + 1)
      <4>1. r[j] = b[k] /\ b[k] \in kb /\ \E h \in 1 .. Len(q) : b[k] = q[h]
        BY <1>2, <1>9, <3>4
      <4> HIDE DEF k
      <4> QED BY <3>1, <4>1
    <3> QED BY <1>10, <3>2, <3>3, <3>4
  <2>2. CASE i = n + 1
    <3>1. j - (n + 1) \in 1 .. Len(b) /\ j = n + 1 + (j - (n + 1))
      BY <1>4, <1>10, <1>14, <2>2
    <3> DEFINE k == j - (n + 1)
    <3>2. r[j] = b[k] /\ b[k] \in kb /\ \E h \in 1 .. Len(q) : b[k] = q[h]
      BY <1>2, <1>9, <3>1
    <3> HIDE DEF k
    <3> QED BY <1>8, <2>2, <3>2
  <2>3. CASE i - (n + 1) \in 1 .. Len(b) /\ i = n + 1 + (i - (n + 1))
    <3> DEFINE k == i - (n + 1)
               h == j - (n + 1)
    <3>1. k \in 1 .. Len(b) /\ h \in 1 .. Len(b) /\ k < h /\ i = n + 1 + k /\ j = n + 1 + h
      BY <1>4, <1>6, <1>14, <2>3
    <3> HIDE DEF k, h
    <3>2. r[n + 1 + k] = b[k] /\ r[n + 1 + h] = b[h] /\ <<b[k], b[h]>> \in rel
      BY <1>2, <1>9, <3>1
    <3> QED BY <3>1, <3>2
  <2> QED BY <1>10, <2>1, <2>2, <2>3
<1> QED BY <1>0, <1>6, <1>8, <1>12, <1>13, <1>14

-----------------------------------------------------------------------------
\* The packets of a state

\* The path of a transaction's packet.
LEMMA PathOf ==
  ASSUME NEW y \in PayloadSet, FlowOf(y), NEW p, p.send = y.send,
         p.rx = RxPath[<<y.src, y.dst>>], p.tx = TxPath[<<y.src, y.dst>>]
  PROVE  /\ HasPath(p, Len(p.rx)) /\ p.rx = Rx(p) /\ DOMAIN p.rx = 1 .. Len(p.rx)
         /\ (y.size + 8) \div 4 \in Nat /\ (y.size + 8) \div 4 >= 3
<1> DEFINE n == Len(p.rx)
<1>1. p.rx = RxOf(y.src, y.dst) /\ p.tx = TxOf(y.src, y.dst)
  BY DEF RxOf, TxOf
<1>2. y.src \in PE /\ y.dst \in PE /\ y.send \in Times
  BY DEF PayloadSet
<1>3. PICK f \in Flows : y.src = f.src /\ y.dst = f.dst /\ y.size = f.len
  BY DEF FlowOf
<1>4. f.len \in Nat /\ f.len > 0 /\ f.len % 4 = 0
  BY NtsNetworkAssumption
<1>5. (y.size + 8) \div 4 \in Nat /\ (y.size + 8) \div 4 >= 3
  <2>1. (f.len + 8) \div 4 \in Nat /\ (f.len + 8) \div 4 >= 3
    BY <1>4
  <2> QED BY <1>3, <2>1
<1>6. IsPath(p.rx, p.tx)
  BY <1>1, <1>2, Paths
<1>7. /\ n \in Nat /\ n >= 3 /\ DOMAIN p.rx = 1 .. n /\ DOMAIN p.tx = 1 .. n /\ Len(p.tx) = n
      /\ \A i, j \in 1 .. n : p.rx[i] = p.rx[j] => i = j
      /\ \A i \in 1 .. n : p.rx[i][1] # "tx"
      /\ \A i \in 2 .. n - 1 : p.tx[i][1] = "tx"
      /\ p.tx[1] = p.rx[1] /\ p.tx[n] = p.rx[n]
  BY <1>6 DEF IsPath
<1>8. /\ \A i \in 1 .. n : p.rx[i] \in PortsInUse
      /\ \A i \in 2 .. n - 1 : p.tx[i] \in PortsInUse
  <2>1. p.rx = RxOf(f.src, f.dst) /\ p.tx = TxOf(f.src, f.dst)
    BY <1>1, <1>3
  <2>2. /\ \A i \in 1 .. Len(RxOf(f.src, f.dst)) : RxOf(f.src, f.dst)[i] \in PortsInUse
        /\ \A i \in 2 .. Len(TxOf(f.src, f.dst)) - 1 : TxOf(f.src, f.dst)[i] \in PortsInUse
    BY PathPorts
  <2> QED BY <1>7, <2>1, <2>2
<1>9. Rx(p) = p.rx /\ Tx(p) = p.tx
  BY DEF Rx, Tx
<1>10. HasPath(p, n)
  <2>1. p.send \in Times
    BY <1>2
  <2>2. \A i \in 1 .. n : p.rx[i] \in ClaimPorts
    BY <1>7, <1>8 DEF ClaimPorts
  <2> HIDE DEF n
  <2> QED BY <1>7, <1>8, <1>9, <2>1, <2>2 DEF HasPath, n
<1> QED BY <1>5, <1>7, <1>9, <1>10

\* What follows of a packet object.
LEMMA PacketFacts ==
  ASSUME PayloadsHold, PacketsHold, NEW o \in DOMAIN pkt
  PROVE  /\ pkt[o].trans \in 1 .. Len(payload) /\ pkt[o].id = pkt[o].trans
         /\ HasPath(pkt[o], Len(pkt[o].rx)) /\ pkt[o].rx = Rx(pkt[o])
         /\ DOMAIN pkt[o].rx = 1 .. Len(pkt[o].rx)
         /\ pkt[o].flits \in Nat /\ pkt[o].flits >= 3
         /\ Soonest(payload[pkt[o].trans]) =
              pkt[o].send + Clk * (Len(pkt[o].rx) + pkt[o].flits - 1)
         /\ o \in Nat /\ o >= 1
<1> DEFINE p == pkt[o]
           t == p.trans
           y == payload[t]
           n == Len(p.rx)
<1>1. IsPacket(p)
  BY DEF PacketsHold
<1>2. t \in 1 .. Len(payload) /\ p.id = t /\ p.send = y.send /\ p.flits = (y.size + 8) \div 4
      /\ p.rx = RxPath[<<y.src, y.dst>>] /\ p.tx = TxPath[<<y.src, y.dst>>]
  BY <1>1 DEF IsPacket
<1>3. y \in PayloadSet /\ FlowOf(y)
  BY <1>2 DEF PayloadsHold
<1>4. HasPath(p, n) /\ p.rx = Rx(p) /\ DOMAIN p.rx = 1 .. n /\ p.flits \in Nat /\ p.flits >= 3
  <2> HIDE DEF p, y
  <2> QED BY <1>2, <1>3, PathOf DEF n
<1>5. Soonest(y) = p.send + Clk * (n + p.flits - 1)
  BY <1>2 DEF Soonest
<1>6. o \in Nat /\ o >= 1
  <2>1. pkt \in Seq(Range(pkt))
    BY DEF PacketsHold, Listed
  <2>2. Len(pkt) \in Nat /\ DOMAIN pkt = 1 .. Len(pkt)
    BY <2>1, SeqFacts
  <2> QED BY <2>2
<1> QED BY <1>2, <1>4, <1>5, <1>6

\* A packet object belongs to one transaction on its way.
LEMMA LiveFacts ==
  ASSUME NEW o \in Live
  PROVE  /\ o \in DOMAIN pkt /\ payload[pkt[o].trans].pkt = o /\ arrived[pkt[o].trans] = <<>>
         /\ \A a \in Live : pkt[a].trans = pkt[o].trans => a = o
BY DEF Live

-----------------------------------------------------------------------------
\* What does not change

\* The transactions, in a step that does not change them.
LEMMA PayloadsKept ==
  ASSUME PayloadsHold, UNCHANGED <<payload, arrived>>
  PROVE  PayloadsHold'
BY DEF PayloadsHold

\* The queues, in a step that does not change them.
LEMMA QueuesKept ==
  ASSUME QueuesHold, UNCHANGED <<now, payload, queues, arrived>>
  PROVE  QueuesHold'
BY DEF QueuesHold, queues, Scheduled, Soonest

\* The arrivals, in a step that changes no packet but its times.
LEMMA ArrivalsKept ==
  ASSUME ArrivalsHold, UNCHANGED <<payload, pkt_peq, arrived>>, DOMAIN pkt' = DOMAIN pkt,
         \A o \in DOMAIN pkt : pkt'[o].trans = pkt[o].trans
  PROVE  ArrivalsHold'
BY DEF ArrivalsHold, Waits, Soonest, InNetwork

\* The packet objects, in a step that does not change them.
LEMMA PacketsKept ==
  ASSUME PacketsHold, UNCHANGED <<payload, pkt>>
  PROVE  PacketsHold'
BY DEF PacketsHold, Listed, IsPacket

\* The packets on their way, in a step that changes no packet but its times.
LEMMA LiveKept ==
  ASSUME UNCHANGED <<payload, arrived>>, DOMAIN pkt' = DOMAIN pkt,
         \A o \in DOMAIN pkt : pkt'[o].trans = pkt[o].trans
  PROVE  Live' = Live
BY DEF Live

\* The pool, in a step that does not change it.
LEMMA PoolKept ==
  ASSUME PoolHolds, UNCHANGED <<payload, pkt, arrived, pool, Unfinished_Packets>>
  PROVE  PoolHolds'
<1>1. Live' = Live
  BY LiveKept
<1> QED BY <1>1 DEF PoolHolds, pool

\* The ports, in a step that changes no packet but its times.
LEMMA PortsKept ==
  ASSUME PortsHold, UNCHANGED <<payload, arrived, ports>>, DOMAIN pkt' = DOMAIN pkt,
         \A o \in DOMAIN pkt : pkt'[o].trans = pkt[o].trans /\ pkt'[o].rx = pkt[o].rx
  PROVE  PortsHold'
<1>1. Live' = Live
  BY LiveKept
<1>2. \A o \in Live : o \in DOMAIN pkt
  BY LiveFacts
<1>3. \A e, x : IsThere(e, x) => IsThere(e, x)'
  BY <1>1, <1>2 DEF IsThere
<1> QED BY <1>3 DEF PortsHold

\* The calls of the search, in a step that does not change them.
LEMMA StackKept ==
  ASSUME StackHolds, UNCHANGED <<payload, pkt, arrived, stack, Unfinished_Packets>>
  PROVE  StackHolds'
<1>1. Live' = Live
  BY LiveKept
<1> QED BY <1>1 DEF StackHolds, Listed, Involved

\* Without a call of the search there is nothing to show.
LEMMA NoStack ==
  ASSUME stack' = <<>>
  PROVE  StackHolds'
<1> DEFINE s == stack'
<1>1. Len(s) = 0 /\ s \in Seq({})
  BY EmptySeq
<1> HIDE DEF s
<1>2. Listed(s)
  BY <1>1, ListedFacts
<1> QED BY <1>1, <1>2 DEF StackHolds, s, Listed

\* The times of the packets on their way, in a step that does not change them.
LEMMA TimesKept ==
  ASSUME TimesHold, UNCHANGED <<payload, pkt, arrived, ports, Unfinished_Packets>>
  PROVE  TimesHold'
<1>1. Live' = Live
  BY LiveKept
<1> QED BY <1>1 DEF TimesHold, OnItsWay, OneAtAPort, Hops, Rx

\* The claims of a pass, in a step that does not change them.
LEMMA ClaimsKept ==
  ASSUME ClaimsHold, UNCHANGED <<main, claims, ports, pkt, Unfinished_Packets>>
  PROVE  ClaimsHold'
BY DEF ClaimsHold, Granted

\* Outside a pass there are no claims.
LEMMA NoClaim ==
  ASSUME main'.state \notin {"claim", "transfer"}
  PROVE  ClaimsHold'
BY DEF ClaimsHold

\* What the threads may be doing.
LEMMA ThreadFacts ==
  ASSUME ThreadsHold
  PROVE  /\ main.state \in States /\ main.wake \in Times /\ main.place \in Nat
         /\ main = [state |-> main.state, wake |-> main.wake, place |-> main.place]
         /\ ~Running => main.state \in {"idle", "window"} /\ ~sender.sends
BY DEF ThreadsHold, MainSet, SenderSet, Running, Computing, States

\* A state of simulator_main.
LEMMA MainAt ==
  ASSUME NEW s \in States, NEW w \in Times, NEW k \in Nat
  PROVE  [state |-> s, wake |-> w, place |-> k] \in MainSet
BY DEF MainSet

\* simulator_main wakes up.
LEMMA OpenWindowKeeps == Inv /\ OpenWindow => Inv'
<1> SUFFICES ASSUME Inv, OpenWindow PROVE Inv'
  OBVIOUS
<1>1. /\ main = Idle /\ main' = [state |-> "window", wake |-> now + Window, place |-> 0]
      /\ UNCHANGED <<now, payload, queues, arrived, sender, pkt, pool, round, ports, unset>>
      /\ ~Running
  BY DEF OpenWindow
<1>2. UNCHANGED <<newPacket_num, Unfinished_Packets, stack>>
  BY <1>1 DEF round
<1> USE DEF Inv
<1>3. PayloadsHold' /\ QueuesHold' /\ PacketsHold' /\ PoolHolds' /\ StackHolds' /\ TimesHold'
  BY <1>1, <1>2, PayloadsKept, QueuesKept, PacketsKept, PoolKept, StackKept, TimesKept
<1>4. ArrivalsHold' /\ PortsHold'
  <2>1. UNCHANGED pkt_peq
    BY <1>1 DEF queues
  <2> QED BY <1>1, <2>1, ArrivalsKept, PortsKept
<1>5. main'.state = "window"
  BY <1>1
<1>6. ThreadsHold'
  <2>1. now + Window \in Times
    <3>1. now \in Times
      BY DEF QueuesHold
    <3>2. \A m \in Int : now + m * Clk \in Times
      BY <3>1, TimesType
    <3> QED BY <3>2 DEF Window
  <2>2. main' \in MainSet
    BY <1>1, <2>1, MainAt DEF States
  <2>3. ~sender.sends
    BY <1>1 DEF Running
  <2>4. main.state = "idle"
    BY <1>1 DEF Idle
  <2> QED BY <1>1, <1>2, <1>5, <2>2, <2>3, <2>4 DEF ThreadsHold
<1>7. ClaimsHold'
  BY <1>5, NoClaim
<1> QED BY <1>3, <1>4, <1>6, <1>7

\* A packet without all of its path waits for the next pass.
LEMMA WaitForPathKeeps == Inv /\ WaitForPath => Inv'
<1> SUFFICES ASSUME Inv, WaitForPath PROVE Inv'
  OBVIOUS
<1>1. /\ main.state = "transfer" /\ main' = At("transfer", main.place + 1)
      /\ UNCHANGED <<now, payload, queues, arrived, sender, pkt, pool, round, ports, unset>>
  BY DEF WaitForPath
<1>2. UNCHANGED <<newPacket_num, Unfinished_Packets, stack, claims>>
  BY <1>1 DEF round
<1> USE DEF Inv
<1>3. PayloadsHold' /\ QueuesHold' /\ PacketsHold' /\ PoolHolds' /\ StackHolds' /\ TimesHold'
  BY <1>1, <1>2, PayloadsKept, QueuesKept, PacketsKept, PoolKept, StackKept, TimesKept
<1>4. ArrivalsHold' /\ PortsHold'
  <2>1. UNCHANGED pkt_peq
    BY <1>1 DEF queues
  <2> QED BY <1>1, <2>1, ArrivalsKept, PortsKept
<1>5. main'.state = "transfer" /\ main'.place = main.place + 1 /\ main.place \in Nat
  BY <1>1, ThreadFacts DEF At
<1>6. ThreadsHold'
  <2>1. main' \in MainSet
    BY <1>1, <1>5, MainAt, ZeroTime DEF At, States
  <2> QED BY <1>1, <1>2, <1>5, <2>1 DEF ThreadsHold
<1>7. ClaimsHold'
  BY <1>1, <1>2, <1>5, SMTT(40) DEF ClaimsHold, Granted
<1> QED BY <1>3, <1>4, <1>6, <1>7

\* The claims of a pass that begins.
LEMMA PassBegins ==
  ASSUME NEW min
  PROVE  /\ Unclaimed(min) \in PassSet
         /\ \A x \in ClaimPorts : Unclaimed(min).claims[x].owner = 0
<1> DEFINE cl == [x \in {x \in PortsInUse : x[1] # "tx"} |->
                    ClaimOf(IF x \in min THEN 1 ELSE 0)]
<1>1. Unclaimed(min) = [claims |-> cl, going |-> TRUE, jammed |-> {}]
  BY DEF Unclaimed
<1>2. \A v \in {0, 1} : ClaimOf(v) \in ClaimSet /\ ClaimOf(v).owner = 0
  BY ZeroTime DEF ClaimOf, ClaimSet
<1>3. cl = [x \in ClaimPorts |-> ClaimOf(IF x \in min THEN 1 ELSE 0)]
  BY DEF ClaimPorts
<1>4. cl \in [ClaimPorts -> ClaimSet] /\ \A x \in ClaimPorts : cl[x].owner = 0
  <2> HIDE DEF cl
  <2>1. \A x \in ClaimPorts : cl[x] \in {ClaimOf(0), ClaimOf(1)}
    BY <1>3
  <2>2. cl \in [ClaimPorts -> ClaimSet]
    BY <1>2, <1>3, <2>1
  <2> QED BY <1>2, <2>1, <2>2
<1> HIDE DEF cl
<1> QED BY <1>1, <1>4 DEF PassSet

\* The next pass starts, or the round is over.
LEMMA EndPassKeeps == Inv /\ EndPass => Inv'
<1> SUFFICES ASSUME Inv, EndPass PROVE Inv'
  OBVIOUS
<1>1. /\ main.state = "transfer"
      /\ main' = IF Unfinished_Packets = <<>> THEN Idle ELSE At("claim", 1)
      /\ claims' = IF Unfinished_Packets = <<>> THEN NoClaims ELSE Unclaimed({})
      /\ UNCHANGED <<now, payload, queues, arrived, sender, pkt, pool,
                     Unfinished_Packets, newPacket_num, stack, ports>>
  BY DEF EndPass
<1> USE DEF Inv
<1>3. PayloadsHold' /\ QueuesHold' /\ PacketsHold' /\ PoolHolds' /\ StackHolds' /\ TimesHold'
  BY <1>1, PayloadsKept, QueuesKept, PacketsKept, PoolKept, StackKept, TimesKept
<1>4. ArrivalsHold' /\ PortsHold'
  <2>1. UNCHANGED pkt_peq
    BY <1>1 DEF queues
  <2> QED BY <1>1, <2>1, ArrivalsKept, PortsKept
<1>5. CASE Unfinished_Packets = <<>>
  <2>1. main' = Idle /\ main'.state = "idle"
    BY <1>1, <1>5 DEF Idle
  <2>2. main' \in MainSet
    BY <2>1, MainAt, ZeroTime DEF Idle, States
  <2>3. ThreadsHold'
    BY <1>1, <1>5, <2>1, <2>2 DEF ThreadsHold
  <2> QED BY <1>3, <1>4, <2>1, <2>3, NoClaim
<1>6. CASE Unfinished_Packets # <<>>
  <2>1. main' = At("claim", 1) /\ main'.state = "claim" /\ main'.place = 1
    BY <1>1, <1>6 DEF At
  <2>2. main' \in MainSet
    BY <2>1, MainAt, ZeroTime DEF At, States
  <2>3. ThreadsHold'
    BY <1>1, <2>1, <2>2 DEF ThreadsHold
  <2>4. claims' \in PassSet /\ \A x \in ClaimPorts : claims'.claims[x].owner = 0
    BY <1>1, <1>6, PassBegins
  <2>5. \A o \in Range(Unfinished_Packets) : o # 0 /\ \A i \in DOMAIN pkt[o].rx : pkt[o].rx[i] \in ClaimPorts
    <3> TAKE o \in Range(Unfinished_Packets)
    <3>1. o \in DOMAIN pkt
      BY LiveFacts DEF PoolHolds
    <3>2. HasPath(pkt[o], Len(pkt[o].rx)) /\ pkt[o].rx = Rx(pkt[o]) /\ o >= 1 /\ o \in Nat
      BY <3>1, PacketFacts
    <3> QED BY <3>2 DEF HasPath
  <2>6. ClaimsHold'
    BY <1>1, <2>1, <2>4, <2>5 DEF ClaimsHold
  <2> QED BY <1>3, <1>4, <2>3, <2>6
<1> QED BY <1>5, <1>6

\* simulator_send has nothing left to deliver now.
LEMMA SenderWaitsKeeps == Inv /\ SenderWaits => Inv'
<1> SUFFICES ASSUME Inv, SenderWaits PROVE Inv'
  OBVIOUS
<1>1. /\ sender.sends /\ sender' = Waiting
      /\ UNCHANGED <<now, payload, queues, arrived, main, pkt, pool, round, ports, unset>>
  BY DEF SenderWaits
<1>2. UNCHANGED <<newPacket_num, Unfinished_Packets, stack, claims>>
  BY <1>1 DEF round
<1> USE DEF Inv
<1>3. PayloadsHold' /\ QueuesHold' /\ PacketsHold' /\ PoolHolds' /\ StackHolds' /\ TimesHold' /\ ClaimsHold'
  BY <1>1, <1>2, PayloadsKept, QueuesKept, PacketsKept, PoolKept, StackKept, TimesKept, ClaimsKept
<1>4. ArrivalsHold' /\ PortsHold'
  <2>1. UNCHANGED pkt_peq
    BY <1>1 DEF queues
  <2> QED BY <1>1, <2>1, ArrivalsKept, PortsKept
<1>5. ThreadsHold'
  <2>1. sender' \in SenderSet /\ ~sender'.sends
    BY <1>1 DEF Waiting, SenderSet
  <2> QED BY <1>1, <1>2, <2>1 DEF ThreadsHold
<1> QED BY <1>3, <1>4, <1>5

\* simulator_send wakes up: nothing was cancelled, since no arrival is moved to an earlier time.
LEMMA SenderWakesKeeps == Inv /\ SenderWakes => Inv'
<1> SUFFICES ASSUME Inv, SenderWakes PROVE Inv'
  OBVIOUS
<1>1. /\ ~Running
      /\ sender' = [sends |-> TRUE,
                    recompute_list |-> [i \in DOMAIN UpTo(recompute_peq, now) |->
                                          UpTo(recompute_peq, now)[i].trans]]
      /\ recompute_peq' = Behind(recompute_peq, now)
      /\ UNCHANGED <<now, payload, pkt_peq, complete_peq, arrived, main, pkt, pool, round, ports, unset>>
  BY DEF SenderWakes
<1>2. UNCHANGED <<newPacket_num, Unfinished_Packets, stack, claims>>
  BY <1>1 DEF round
<1> USE DEF Inv
<1>3. recompute_peq = <<>>
  BY DEF QueuesHold
<1>4. UpTo(recompute_peq, now) = <<>> /\ recompute_peq' = <<>>
  BY <1>1, <1>3, FilteredNothing DEF UpTo, Behind
<1>5. UNCHANGED queues
  BY <1>1, <1>3, <1>4 DEF queues
<1>6. PayloadsHold' /\ QueuesHold' /\ PacketsHold' /\ PoolHolds' /\ StackHolds' /\ TimesHold' /\ ClaimsHold'
  BY <1>1, <1>2, <1>5, PayloadsKept, QueuesKept, PacketsKept, PoolKept, StackKept, TimesKept, ClaimsKept
<1>7. ArrivalsHold' /\ PortsHold'
  BY <1>1, ArrivalsKept, PortsKept
<1>8. ThreadsHold'
  <2>1. [i \in DOMAIN UpTo(recompute_peq, now) |-> UpTo(recompute_peq, now)[i].trans] = <<>>
    BY <1>4
  <2>2. sender' \in SenderSet
    BY <1>1, <2>1 DEF SenderSet
  <2>3. main.state \in {"idle", "window"}
    BY <1>1, ThreadFacts
  <2> QED BY <1>1, <1>2, <2>2, <2>3 DEF ThreadsHold
<1> QED BY <1>6, <1>7, <1>8

\* The window ends, and no object was given up.
LEMMA CloseWindowKeeps == Inv /\ CloseWindow => Inv'
<1> SUFFICES ASSUME Inv, CloseWindow PROVE Inv'
  OBVIOUS
<1>1. /\ ~Running /\ main.state = "window"
      /\ ports' = Fold(LAMBDA ps, o : Forget(ps, o, pkt[o]), ports, Finish_Packets)
      /\ Deleted_Packets' = Deleted_Packets \o Finish_Packets
      /\ Finish_Packets' = <<>> /\ main' = At("accept", 0)
      /\ UNCHANGED <<now, payload, queues, arrived, sender, pkt, round, unset>>
  BY DEF CloseWindow
<1>2. UNCHANGED <<newPacket_num, Unfinished_Packets, stack, claims>>
  BY <1>1 DEF round
<1> USE DEF Inv
<1>3. Finish_Packets = <<>> /\ Deleted_Packets \in Seq(Nat)
  BY DEF PoolHolds
<1>4. ports' = ports
  <2> DEFINE op(a, o) == Forget(a, o, pkt[o])
             Is(f) == f = [k \in 0 .. 0 |-> IF k = 0 THEN ports ELSE
                            CHOOSE v \in {op(a, Finish_Packets[k]) : a \in {f[k - 1]}} : TRUE]
             r == CHOOSE f : Is(f)
             g == [k \in 0 .. 0 |-> ports]
  <2>1. Len(Finish_Packets) = 0 /\ \A k \in 0 .. 0 : k = 0
    BY <1>3
  <2>2. ports' = r[0]
    BY <1>1, <2>1 DEF Fold
  <2>3. Is(g)
    <3> DEFINE F(k) == IF k = 0 THEN ports ELSE
                         CHOOSE v \in {op(a, Finish_Packets[k]) : a \in {g[k - 1]}} : TRUE
    <3>1. \A k \in 0 .. 0 : F(k) = ports
      BY <2>1
    <3> HIDE DEF F
    <3>2. g = [k \in 0 .. 0 |-> F(k)]
      BY <3>1
    <3> QED BY <3>2, Zenon DEF F
  <2> HIDE DEF op
  <2>4. Is(r)
    BY <2>3, Zenon
  <2> HIDE DEF r
  <2>5. 0 \in 0 .. 0
    OBVIOUS
  <2>6. r[0] = ports
    BY <2>4, <2>5
  <2> QED BY <2>2, <2>6
<1>5. UNCHANGED pool
  <2>1. Deleted_Packets \o Finish_Packets = Deleted_Packets
    BY <1>3, ConcatEmptySeq
  <2> QED BY <1>1, <1>3, <2>1 DEF pool
<1>6. PayloadsHold' /\ QueuesHold' /\ PacketsHold' /\ PoolHolds' /\ StackHolds' /\ TimesHold'
  BY <1>1, <1>2, <1>4, <1>5, PayloadsKept, QueuesKept, PacketsKept, PoolKept, StackKept, TimesKept
<1>7. ArrivalsHold' /\ PortsHold'
  <2>1. UNCHANGED pkt_peq
    BY <1>1 DEF queues
  <2> QED BY <1>1, <1>4, <2>1, ArrivalsKept, PortsKept
<1>8. main'.state = "accept"
  BY <1>1 DEF At
<1>9. ThreadsHold'
  <2>1. main' \in MainSet
    BY <1>1, MainAt, ZeroTime DEF At, States
  <2>2. ~sender.sends
    BY <1>1 DEF Running
  <2> QED BY <1>1, <1>2, <1>8, <2>1, <2>2 DEF ThreadsHold
<1> QED BY <1>6, <1>7, <1>8, <1>9, NoClaim

-----------------------------------------------------------------------------
\* The stack of calls

\* StackHolds of the calls s, when the packets on their way are l and those to be computed u.
CallsHold(s, l, u) ==
  /\ Listed(s)
  /\ \A k \in 1 .. Len(s) :
       /\ s[k].pkt \in l
       /\ s[k].call = "delay" =>
            s[k].pkt \in u \/ \E j \in 1 .. k - 1 : s[j].call = "involve" /\ s[j].pkt = s[k].pkt

\* The calls of the search that have not returned.
LEMMA CallsAre == StackHolds <=> CallsHold(stack, Live, Range(Unfinished_Packets))
BY DEF StackHolds, CallsHold, Involved

\* ... and after a step.
LEMMA CallsAreNext == StackHolds' <=> CallsHold(stack', Live', Range(Unfinished_Packets'))
BY DEF StackHolds, CallsHold, Involved, Listed

\* More packets are to be computed.
LEMMA MoreToCompute ==
  ASSUME NEW s, NEW l, NEW u, CallsHold(s, l, u), NEW v, u \subseteq v
  PROVE  CallsHold(s, l, v)
BY DEF CallsHold

\* The last call returns.
LEMMA CallReturns ==
  ASSUME NEW s, NEW l, NEW u, CallsHold(s, l, u), s # <<>>,
         Head(s).call = "involve" => Head(s).pkt \in u
  PROVE  CallsHold(Tail(s), l, u) /\ Head(s).pkt \in l /\ (Head(s).call = "delay" => Head(s).pkt \in u)
<1>1. s \in Seq(Range(s))
  BY DEF CallsHold, Listed
<1>2. /\ Head(s) = s[1] /\ 1 \in 1 .. Len(s)
      /\ Tail(s) \in Seq(Range(s)) /\ Len(Tail(s)) = Len(s) - 1
      /\ \A i \in 1 .. Len(s) - 1 : Tail(s)[i] = s[i + 1] /\ i + 1 \in 1 .. Len(s)
  BY <1>1, TailFacts
<1> DEFINE t == Tail(s)
<1>3. Listed(t)
  BY <1>2, ListedFacts
<1>4. Len(s) \in Nat
  BY <1>1, SeqFacts
<1> HIDE DEF t
<1>5. ASSUME NEW k \in 1 .. Len(s) - 1
      PROVE  /\ t[k].pkt \in l
             /\ t[k].call = "delay" =>
                  t[k].pkt \in u \/ \E j \in 1 .. k - 1 : t[j].call = "involve" /\ t[j].pkt = t[k].pkt
  <2>1. t[k] = s[k + 1] /\ k + 1 \in 1 .. Len(s)
    BY <1>2 DEF t
  <2>2. t[k].pkt \in l
    BY <2>1 DEF CallsHold
  <2>3. ASSUME t[k].call = "delay", t[k].pkt \notin u
        PROVE  \E j \in 1 .. k - 1 : t[j].call = "involve" /\ t[j].pkt = t[k].pkt
    <3>1. PICK j \in 1 .. k + 1 - 1 : s[j].call = "involve" /\ s[j].pkt = t[k].pkt
      BY <2>1, <2>3 DEF CallsHold
    <3>2. j # 1
      BY <1>2, <2>3, <3>1
    <3>3. j - 1 \in 1 .. k - 1 /\ j - 1 \in 1 .. Len(s) - 1 /\ j - 1 + 1 = j
      BY <1>4, <3>2
    <3>4. t[j - 1] = s[j]
      BY <1>2, <3>3 DEF t
    <3> QED BY <3>1, <3>3, <3>4
  <2> QED BY <2>2, <2>3
<1>6. CallsHold(t, l, u)
  BY <1>2, <1>3, <1>5 DEF CallsHold, t
<1>7. s[1].pkt \in l /\ (s[1].call = "delay" => s[1].pkt \in u)
  BY <1>2 DEF CallsHold
<1> QED BY <1>2, <1>6, <1>7 DEF t

\* One more call.
LEMMA Called ==
  ASSUME NEW s, NEW l, NEW u, NEW e, e.pkt \in l, e.call = "delay" => e.pkt \in u,
         CallsHold(s, l, u) \/ (e.call = "involve" /\ CallsHold(s, l, u \union {e.pkt}))
  PROVE  CallsHold(<<e>> \o s, l, u)
<1> DEFINE M == Range(s) \union {e}
           t == <<e>> \o s
<1>1. s \in Seq(Range(s)) /\ s \in Seq(M)
  <2>1. s \in Seq(Range(s))
    BY DEF CallsHold, Listed
  <2> QED BY <2>1, SeqMonotonic
<1> HIDE DEF M
<1>2. /\ t \in Seq(M) /\ Len(t) = Len(s) + 1
      /\ t[1] = e /\ \A i \in 1 .. Len(s) : t[i + 1] = s[i]
  <2>1. e \in M
    BY DEF M
  <2> QED BY <1>1, <2>1, PushedFacts
<1>3. Listed(t)
  BY <1>2, ListedFacts
<1>4. Len(s) \in Nat
  BY <1>1, SeqFacts
<1> HIDE DEF t
<1>5. ASSUME NEW k \in 1 .. Len(t)
      PROVE  /\ t[k].pkt \in l
             /\ t[k].call = "delay" =>
                  t[k].pkt \in u \/ \E j \in 1 .. k - 1 : t[j].call = "involve" /\ t[j].pkt = t[k].pkt
  <2>1. CASE k = 1
    BY <1>2, <2>1
  <2>2. CASE k # 1
    <3>1. k - 1 \in 1 .. Len(s) /\ k - 1 + 1 = k
      BY <1>2, <1>4, <2>2
    <3>2. t[k] = s[k - 1]
      BY <1>2, <3>1
    <3>3. t[k].pkt \in l
      BY <3>1, <3>2 DEF CallsHold
    <3>4. ASSUME t[k].call = "delay", t[k].pkt \notin u
          PROVE  \E j \in 1 .. k - 1 : t[j].call = "involve" /\ t[j].pkt = t[k].pkt
      <4>1. CASE e.call = "involve" /\ e.pkt = t[k].pkt
        <5>1. 1 \in 1 .. k - 1
          BY <3>1
        <5> QED BY <1>2, <4>1, <5>1
      <4>2. CASE ~ (e.call = "involve" /\ e.pkt = t[k].pkt)
        <5>1. \E j \in 1 .. k - 1 - 1 : s[j].call = "involve" /\ s[j].pkt = s[k - 1].pkt
          BY <3>1, <3>2, <3>4, <4>2 DEF CallsHold
        <5>2. PICK j \in 1 .. k - 1 - 1 : s[j].call = "involve" /\ s[j].pkt = s[k - 1].pkt
          BY <5>1
        <5>3. j + 1 \in 1 .. k - 1 /\ j \in 1 .. Len(s)
          BY <1>4, <3>1
        <5>4. t[j + 1] = s[j]
          BY <1>2, <5>3
        <5> QED BY <3>2, <5>2, <5>3, <5>4
      <4> QED BY <4>1, <4>2
    <3> QED BY <3>3, <3>4
  <2> QED BY <2>1, <2>2
<1> QED BY <1>3, <1>5 DEF CallsHold, t

\* A sequence before another, one element at a time.
LEMMA TwoBefore ==
  ASSUME NEW M, NEW s \in Seq(M), NEW a, NEW b
  PROVE  <<a, b>> \o s = <<a>> \o (<<b>> \o s)
<1> DEFINE K == M \union {a, b}
           x == <<a>>
           y == <<b>>
<1>1. s \in Seq(K)
  BY SeqMonotonic
<1>2. x \in Seq(K) /\ y \in Seq(K)
  OBVIOUS
<1>3. <<a, b>> = x \o y
  <2> DEFINE l == <<a, b>>
             r == x \o y
  <2>1. Len(x) = 1 /\ Len(y) = 1 /\ x[1] = a /\ y[1] = b
    OBVIOUS
  <2>2. l \in Seq(K) /\ Len(l) = 2 /\ l[1] = a /\ l[2] = b
    OBVIOUS
  <2>3. r \in Seq(K) /\ Len(r) = 2 /\ r[1] = a /\ r[2] = b
    <3> HIDE DEF x, y, K
    <3>1. /\ x \o y \in Seq(K) /\ Len(x \o y) = Len(x) + Len(y)
          /\ \A i \in 1 .. Len(x) + Len(y) : (x \o y)[i] =
               IF i <= Len(x) THEN x[i] ELSE y[i - Len(x)]
      BY <1>2, ConcatProperties
    <3> QED BY <2>1, <3>1
  <2> HIDE DEF l, r, x, y, K
  <2>4. \A i \in 1 .. Len(l) : l[i] = r[i]
    BY <2>2, <2>3
  <2>5. l = r
    BY <2>2, <2>3, <2>4, SeqEqual
  <2> QED BY <2>5 DEF l, r
<1> HIDE DEF x, y, K
<1>4. (x \o y) \o s = x \o (y \o s)
  BY <1>1, <1>2, ConcatAssociative
<1> QED BY <1>3, <1>4 DEF x, y

\* Two calls before others that come before the rest.
LEMMA TwoInFront ==
  ASSUME NEW M, NEW s \in Seq(M), NEW K, NEW y \in Seq(K), NEW a, NEW b
  PROVE  <<a, b>> \o y \o s = <<a>> \o (<<b>> \o (y \o s))
<1> DEFINE L == M \union K \union {a, b}
           x == <<a, b>>
           z == y \o s
<1>1. s \in Seq(L) /\ y \in Seq(L)
  BY SeqMonotonic
<1>2. x \in Seq(L)
  OBVIOUS
<1> HIDE DEF x, L
<1>3. (x \o y) \o s = x \o z /\ z \in Seq(L)
  BY <1>1, <1>2, ConcatAssociative
<1> HIDE DEF z
<1>4. x \o z = <<a>> \o (<<b>> \o z)
  BY <1>3, TwoBefore DEF x
<1> QED BY <1>3, <1>4 DEF x, z

\* Three calls, one after the other.
LEMMA ThreeBefore ==
  ASSUME NEW M, NEW s \in Seq(M), NEW a, NEW b, NEW c
  PROVE  <<a, b, c>> \o s = <<a>> \o (<<b>> \o (<<c>> \o s))
<1> DEFINE y == <<c>>
           K == M \union {c}
<1>1. y \in Seq({c})
  OBVIOUS
<1>2. <<a, b, c>> = <<a, b>> \o y
  OBVIOUS
<1> HIDE DEF y
<1>3. <<a, b>> \o y \o s = <<a>> \o (<<b>> \o (y \o s))
  BY <1>1, TwoInFront, SMTT(40)
<1> QED BY <1>2, <1>3 DEF y

-----------------------------------------------------------------------------
\* The search

\* q is p with other times, to be computed or not.
Still(p, q) ==
  /\ q = [id |-> p.id, trans |-> p.trans, rx |-> p.rx, tx |-> p.tx, flits |-> p.flits,
          send |-> p.send, finished |-> q.finished, reCompute |-> q.reCompute,
          header |-> q.header, tail |-> q.tail]
  /\ q.reCompute \in BOOLEAN

\* What stays of a packet whose times change.
LEMMA StillFacts ==
  ASSUME NEW p, NEW q, Still(p, q)
  PROVE  /\ q.id = p.id /\ q.trans = p.trans /\ q.rx = p.rx /\ q.tx = p.tx
         /\ q.flits = p.flits /\ q.send = p.send
BY DEF Still

\* One packet gets other times.
LEMMA PacketReplaced ==
  ASSUME PacketsHold, NEW o \in DOMAIN pkt, NEW q, Still(pkt[o], q), pkt' = [pkt EXCEPT ![o] = q],
         Len(payload') = Len(payload),
         \A t \in 1 .. Len(payload) :
           /\ payload'[t].src = payload[t].src /\ payload'[t].dst = payload[t].dst
           /\ payload'[t].size = payload[t].size /\ payload'[t].send = payload[t].send
  PROVE  /\ PacketsHold' /\ DOMAIN pkt' = DOMAIN pkt /\ pkt'[o] = q
         /\ \A a \in DOMAIN pkt : /\ a # o => pkt'[a] = pkt[a]
                                  /\ pkt'[a].trans = pkt[a].trans /\ pkt'[a].rx = pkt[a].rx
                                  /\ pkt'[a].id = pkt[a].id
<1> DEFINE s == pkt'
           M == Range(pkt) \union {q}
<1>1. pkt \in Seq(Range(pkt))
  BY DEF PacketsHold, Listed
<1>2. Len(pkt) \in Nat /\ DOMAIN pkt = 1 .. Len(pkt) /\ \A a \in 1 .. Len(pkt) : pkt[a] \in Range(pkt)
  BY <1>1, SeqFacts
<1>3. DOMAIN s = DOMAIN pkt /\ s[o] = q /\ \A a \in DOMAIN pkt : a # o => s[a] = pkt[a]
  OBVIOUS
<1>4. s = [a \in 1 .. Len(pkt) |-> IF a = o THEN q ELSE pkt[a]]
  BY <1>2
<1>5. s \in [1 .. Len(pkt) -> M]
  BY <1>2, <1>4
<1> HIDE DEF M
<1>6. s \in Seq(M)
  BY <1>2, <1>5, SeqDef, ZenonT(40)
<1> HIDE DEF s
<1>7. Listed(s)
  BY <1>6, ListedFacts
<1>8. ASSUME NEW a \in DOMAIN pkt
      PROVE  IsPacket(pkt[a])'
  <2>1. IsPacket(pkt[a])
    BY DEF PacketsHold
  <2>2. CASE a = o
    <3>1. pkt'[a] = q
      BY <1>3, <2>2 DEF s
    <3>2. IsPacket(pkt[o])
      BY <2>1, <2>2
    <3>3. pkt[o].trans \in 1 .. Len(payload)
      BY <3>2 DEF IsPacket
    <3>4. /\ q.id = pkt[o].id /\ q.trans = pkt[o].trans /\ q.rx = pkt[o].rx /\ q.tx = pkt[o].tx
          /\ q.flits = pkt[o].flits /\ q.send = pkt[o].send
      BY StillFacts
    <3>5. /\ q = [id |-> q.id, trans |-> q.trans, rx |-> q.rx, tx |-> q.tx, flits |-> q.flits,
                  send |-> q.send, finished |-> q.finished, reCompute |-> q.reCompute,
                  header |-> q.header, tail |-> q.tail]
          /\ q.reCompute \in BOOLEAN
      BY <3>4 DEF Still
    <3> DEFINE t == q.trans
    <3>6. /\ t \in 1 .. Len(payload') /\ payload'[t].src = payload[t].src
          /\ payload'[t].dst = payload[t].dst /\ payload'[t].size = payload[t].size
          /\ payload'[t].send = payload[t].send
      BY <3>3, <3>4
    <3>7. /\ q.id = t /\ q.rx = RxPath[<<payload[t].src, payload[t].dst>>]
          /\ q.tx = TxPath[<<payload[t].src, payload[t].dst>>]
          /\ q.flits = (payload[t].size + 8) \div 4 /\ q.send = payload[t].send
      BY <3>2, <3>4 DEF IsPacket
    <3>8. /\ q.rx = RxPath[<<payload'[t].src, payload'[t].dst>>]
          /\ q.tx = TxPath[<<payload'[t].src, payload'[t].dst>>]
          /\ q.flits = (payload'[t].size + 8) \div 4 /\ q.send = payload'[t].send
      BY <3>6, <3>7
    <3> QED BY <3>1, <3>5, <3>6, <3>7, <3>8 DEF IsPacket
  <2>3. CASE a # o
    <3>1. pkt'[a] = pkt[a]
      BY <1>3, <2>3 DEF s
    <3>2. pkt[a].trans \in 1 .. Len(payload)
      BY <2>1 DEF IsPacket
    <3> QED BY <2>1, <3>1, <3>2 DEF IsPacket
  <2> QED BY <2>2, <2>3
<1>9. PacketsHold'
  <2>1. Listed(pkt)'
    BY <1>7 DEF s, Listed
  <2>2. DOMAIN pkt' = DOMAIN pkt
    BY <1>3 DEF s
  <2> QED BY <1>8, <2>1, <2>2 DEF PacketsHold
<1> QED BY <1>3, <1>9, StillFacts DEF s

\* What a step of the search leaves as it is.
LEMMA SearchKeeps ==
  ASSUME Inv, main.state = "search", SearchUnchanged, DOMAIN pkt' = DOMAIN pkt,
         \A a \in DOMAIN pkt : pkt'[a].trans = pkt[a].trans /\ pkt'[a].rx = pkt[a].rx
  PROVE  /\ PayloadsHold' /\ QueuesHold' /\ ArrivalsHold' /\ ThreadsHold' /\ PortsHold' /\ ClaimsHold'
         /\ Live' = Live
<1> USE DEF Inv
<1>1. UNCHANGED <<now, payload, queues, arrived, main, sender, pool, newPacket_num, claims, ports, unset>>
  BY DEF SearchUnchanged
<1>2. PayloadsHold' /\ QueuesHold' /\ PortsHold' /\ Live' = Live
  BY <1>1, PayloadsKept, QueuesKept, PortsKept, LiveKept
<1>3. ArrivalsHold'
  <2>1. UNCHANGED pkt_peq
    BY <1>1 DEF queues
  <2> QED BY <1>1, <2>1, ArrivalsKept
<1>4. ThreadsHold'
  BY <1>1 DEF ThreadsHold
<1>5. ClaimsHold'
  BY <1>1, NoClaim
<1> QED BY <1>2, <1>3, <1>4, <1>5

\* A packet is marked, and taken among those to be computed.
LEMMA Recomputed ==
  ASSUME Inv, NEW o \in Live, ~ pkt[o].reCompute, Recompute(o), UNCHANGED <<payload, arrived, pool, ports>>
  PROVE  /\ PacketsHold' /\ PoolHolds' /\ TimesHold'
         /\ Range(Unfinished_Packets') = Range(Unfinished_Packets) \union {o}
         /\ DOMAIN pkt' = DOMAIN pkt
         /\ \A a \in DOMAIN pkt : pkt'[a].trans = pkt[a].trans /\ pkt'[a].rx = pkt[a].rx
<1> USE DEF Inv
<1> DEFINE q == [pkt[o] EXCEPT !.reCompute = TRUE]
           u == Unfinished_Packets
           v == Append(u, o)
<1>1. o \in DOMAIN pkt /\ o \in Nat
  BY LiveFacts, PacketFacts
<1>2. pkt' = [pkt EXCEPT ![o] = q] /\ Unfinished_Packets' = v
  BY DEF Recompute
<1>3. Still(pkt[o], q) /\ q.reCompute
  <2>1. IsPacket(pkt[o])
    BY <1>1 DEF PacketsHold
  <2> DEFINE p == pkt[o]
  <2>2. p = [id |-> p.id, trans |-> p.trans, rx |-> p.rx, tx |-> p.tx, flits |-> p.flits,
             send |-> p.send, finished |-> p.finished, reCompute |-> p.reCompute,
             header |-> p.header, tail |-> p.tail]
    BY <2>1 DEF IsPacket
  <2>3. q = [p EXCEPT !.reCompute = TRUE]
    OBVIOUS
  <2> HIDE DEF p, q
  <2>4. q = [id |-> p.id, trans |-> p.trans, rx |-> p.rx, tx |-> p.tx, flits |-> p.flits,
             send |-> p.send, finished |-> p.finished, reCompute |-> TRUE,
             header |-> p.header, tail |-> p.tail]
    BY <2>2, <2>3
  <2>5. /\ q.finished = p.finished /\ q.reCompute = TRUE /\ q.header = p.header
        /\ q.tail = p.tail
    BY <2>4
  <2>6. Still(p, q)
    BY <2>4, <2>5 DEF Still
  <2> QED BY <2>5, <2>6 DEF p
<1> HIDE DEF q
<1>4. /\ PacketsHold' /\ DOMAIN pkt' = DOMAIN pkt /\ pkt'[o] = q
      /\ \A a \in DOMAIN pkt : /\ a # o => pkt'[a] = pkt[a]
                               /\ pkt'[a].trans = pkt[a].trans /\ pkt'[a].rx = pkt[a].rx
                               /\ pkt'[a].id = pkt[a].id
  BY <1>1, <1>2, <1>3, PacketReplaced
<1>5. Live' = Live /\ \A a \in Live : a \in DOMAIN pkt
  BY <1>4, LiveKept, LiveFacts
<1>6. u \in Seq(Nat) /\ IsInjective(u) /\ o \notin Range(u)
  BY DEF PoolHolds
<1>7. v \in Seq(Nat) /\ IsInjective(v) /\ Range(v) = Range(u) \union {o}
  <2> HIDE DEF u, v
  <2>1. Len(u) \in Nat /\ DOMAIN u = 1 .. Len(u) /\ \A i \in 1 .. Len(u) : u[i] \in Range(u)
    BY <1>6, SeqFacts
  <2>2. /\ v \in Seq(Nat) /\ Len(v) = Len(u) + 1 /\ v[Len(u) + 1] = o
        /\ \A i \in 1 .. Len(u) : v[i] = u[i]
    BY <1>1, <1>6, AppendProperties DEF v
  <2>3. DOMAIN v = 1 .. Len(u) + 1
    BY <2>2, SeqFacts
  <2>4. Range(v) = Range(u) \union {o}
    BY <2>1, <2>2, <2>3, SMTT(40) DEF Range
  <2>5. IsInjective(v)
    BY <1>6, <2>1, <2>2, <2>3, SMTT(40) DEF IsInjective
  <2> QED BY <2>2, <2>4, <2>5
<1> HIDE DEF u, v
<1>8. PoolHolds'
  <2>1. UNCHANGED <<Deleted_Packets, Finish_Packets>>
    BY DEF pool
  <2>2. \A a \in Live : pkt'[a].reCompute <=> a \in Range(v)
    <3> TAKE a \in Live
    <3>1. CASE a = o
      BY <1>3, <1>4, <1>7, <3>1
    <3>2. CASE a # o
      <4>1. pkt'[a] = pkt[a]
        BY <1>4, <1>5, <3>2
      <4> QED BY <1>7, <3>2, <4>1 DEF PoolHolds, u
    <3> QED BY <3>1, <3>2
  <2> QED BY <1>2, <1>4, <1>5, <1>7, <2>1, <2>2 DEF PoolHolds, u
<1>9. TimesHold'
  <2>1. \A a \in Live \ Range(v) : a \in Live \ Range(u) /\ pkt'[a] = pkt[a]
    BY <1>4, <1>5, <1>7
  <2>2. Live' \ Range(Unfinished_Packets') = Live \ Range(v)
    BY <1>2, <1>5
  <2>3. \A a \in Live \ Range(v) : OnItsWay(pkt[a])'
    <3> TAKE a \in Live \ Range(v)
    <3>1. OnItsWay(pkt[a]) /\ pkt'[a] = pkt[a]
      BY <2>1 DEF TimesHold, u
    <3>2. ports' = ports
      OBVIOUS
    <3> HIDE DEF Inv
    <3> QED BY <3>1, <3>2 DEF OnItsWay
  <2>4. OneAtAPort'
    BY <2>1, <2>2 DEF TimesHold, OneAtAPort, Hops, Rx, u
  <2> QED BY <2>2, <2>3, <2>4 DEF TimesHold
<1> QED BY <1>2, <1>4, <1>7, <1>8, <1>9 DEF u

\* What is registered at a port of a packet's path is of a packet on its way.
LEMMA EntryLive ==
  ASSUME Inv, NEW o \in Live, NEW x \in Entries(ports, pkt[o])
  PROVE  Entry(ports, pkt[o], x).pkt \in Live
<1> USE DEF Inv
<1>1. o \in DOMAIN pkt
  BY LiveFacts
<1> DEFINE p == pkt[o]
           n == Len(p.rx)
<1>2. HasPath(p, n) /\ p.rx = Rx(p)
  BY <1>1, PacketFacts
<1>3. PICK i \in 2 .. Len(Rx(p)) : x \in {i} \X DOMAIN ports[Rx(p)[i]].passed
  BY DEF Entries
<1>4. x[1] = i /\ x[2] \in DOMAIN ports[Rx(p)[i]].passed
  BY <1>3
<1> DEFINE y == Rx(p)[i]
<1>5. y \in ClaimPorts /\ y \in PortsInUse
  <2>1. i \in 1 .. n
    BY <1>2, <1>3 DEF HasPath
  <2> QED BY <1>2, <2>1 DEF HasPath, ClaimPorts
<1>6. ports[y].passed \in Seq([pkt : Nat, at : Nat])
  BY <1>5, PortType DEF PortsHold
<1> DEFINE s == ports[y].passed
<1>7. x[2] \in 1 .. Len(s)
  <2> HIDE DEF y
  <2>1. x[2] \in DOMAIN s
    BY <1>4 DEF y
  <2> QED BY <1>6, <2>1, SeqFacts
<1>8. IsThere(s[x[2]], y)
  BY <1>5, <1>7 DEF PortsHold
<1> QED BY <1>4, <1>8 DEF IsThere, Entry

\* The call that is made and what follows it.
LEMMA CallFacts ==
  ASSUME NEW o, NEW what, NEW i, NEW by
  PROVE  /\ Call(what, o).call = what /\ Call(what, o).pkt = o
         /\ Meet(o, i).call = "meet" /\ Meet(o, i).pkt = o
         /\ Delay(o, i, by).call = "delay" /\ Delay(o, i, by).pkt = o
BY DEF Call, Meet, Delay

\* SearchCongFlit calls DeleteLaterPkt and goes through the ports.
LEMMA SearchCongFlitKeeps == Inv /\ SearchCongFlit => Inv'
<1> SUFFICES ASSUME Inv, SearchCongFlit PROVE Inv'
  OBVIOUS
<1> USE DEF Inv
<1> DEFINE o == Head(stack).pkt
           a == Call("later", o)
           b == Meet(o, <<2, 1>>)
           s == Tail(stack)
           u == Range(Unfinished_Packets)
<1>1. /\ main.state = "search" /\ stack # <<>> /\ Head(stack).call = "search"
      /\ stack' = <<a, b>> \o s /\ UNCHANGED <<pkt, Unfinished_Packets>> /\ SearchUnchanged
  BY DEF SearchCongFlit, Calls
<1>2. UNCHANGED <<payload, arrived, pool, ports>>
  BY <1>1 DEF SearchUnchanged
<1>3. /\ PayloadsHold' /\ QueuesHold' /\ ArrivalsHold' /\ ThreadsHold' /\ PortsHold' /\ ClaimsHold'
      /\ Live' = Live
  BY <1>1, SearchKeeps
<1>4. PacketsHold' /\ PoolHolds' /\ TimesHold'
  BY <1>1, <1>2, PacketsKept, PoolKept, TimesKept
<1>5. CallsHold(stack, Live, u)
  BY CallsAre
<1>6. CallsHold(s, Live, u) /\ o \in Live
  <2> HIDE DEF u, s, o
  <2> QED BY <1>1, <1>5, CallReturns DEF s, o
<1>7. a.call = "later" /\ a.pkt = o /\ b.call = "meet" /\ b.pkt = o
  BY CallFacts
<1> HIDE DEF a, b, s, o, u
<1>8. CallsHold(<<b>> \o s, Live, u)
  BY <1>6, <1>7, Called
<1> DEFINE r == <<b>> \o s
<1>9. CallsHold(<<a>> \o r, Live, u)
  <2> HIDE DEF r
  <2>1. CallsHold(r, Live, u)
    BY <1>8 DEF r
  <2> QED BY <1>6, <1>7, <2>1, Called
<1>10. <<a, b>> \o s = <<a>> \o r
  BY <1>6, TwoBefore DEF CallsHold, Listed
<1>11. CallsHold(stack', Live', Range(Unfinished_Packets'))
  BY <1>1, <1>3, <1>9, <1>10 DEF u
<1> QED BY <1>3, <1>4, <1>11, CallsAreNext

\* The loser waits; it is among those to be computed.
LEMMA DelayLoserKeeps == Inv /\ DelayLoser => Inv'
<1> SUFFICES ASSUME Inv, DelayLoser PROVE Inv'
  OBVIOUS
<1> USE DEF Inv
<1> DEFINE h == Head(stack)
           o == h.pkt
           p == pkt[o]
           q == Delayed(p, h.at, h.by)
           u == Range(Unfinished_Packets)
<1>1. /\ main.state = "search" /\ stack # <<>> /\ h.call = "delay"
      /\ pkt' = [pkt EXCEPT ![o] = q] /\ stack' = Tail(stack)
      /\ UNCHANGED Unfinished_Packets /\ SearchUnchanged
  BY DEF DelayLoser, Calls
<1>2. UNCHANGED <<payload, arrived, pool, ports>>
  BY <1>1 DEF SearchUnchanged
<1>3. CallsHold(stack, Live, u)
  BY CallsAre
<1>4. CallsHold(Tail(stack), Live, u) /\ o \in Live /\ o \in u
  <2> HIDE DEF u
  <2> QED BY <1>1, <1>3, CallReturns
<1>5. o \in DOMAIN pkt
  BY <1>4, LiveFacts
<1>6. Still(p, q) /\ q.reCompute = p.reCompute
  <2>1. IsPacket(p)
    BY <1>5 DEF PacketsHold
  <2>2. p = [id |-> p.id, trans |-> p.trans, rx |-> p.rx, tx |-> p.tx, flits |-> p.flits,
             send |-> p.send, finished |-> p.finished, reCompute |-> p.reCompute,
             header |-> p.header, tail |-> p.tail] /\ p.reCompute \in BOOLEAN
    BY <2>1 DEF IsPacket
  <2>3. PICK hd, tl : q = [p EXCEPT !.header = hd, !.tail = tl]
    BY DEF Delayed
  <2> HIDE DEF p, q
  <2>4. q = [id |-> p.id, trans |-> p.trans, rx |-> p.rx, tx |-> p.tx, flits |-> p.flits,
             send |-> p.send, finished |-> p.finished, reCompute |-> p.reCompute,
             header |-> hd, tail |-> tl]
    BY <2>2, <2>3
  <2>5. q.finished = p.finished /\ q.reCompute = p.reCompute /\ q.header = hd /\ q.tail = tl
    BY <2>4
  <2> QED BY <2>2, <2>4, <2>5, Zenon DEF Still
<1> HIDE DEF q
<1>7. /\ PacketsHold' /\ DOMAIN pkt' = DOMAIN pkt /\ pkt'[o] = q
      /\ \A a \in DOMAIN pkt : /\ a # o => pkt'[a] = pkt[a]
                               /\ pkt'[a].trans = pkt[a].trans /\ pkt'[a].rx = pkt[a].rx
                               /\ pkt'[a].id = pkt[a].id
  <2> HIDE DEF o, p
  <2>1. Still(pkt[o], q)
    BY <1>6 DEF p
  <2> QED BY <1>1, <1>2, <1>5, <2>1, PacketReplaced
<1>8. /\ PayloadsHold' /\ QueuesHold' /\ ArrivalsHold' /\ ThreadsHold' /\ PortsHold' /\ ClaimsHold'
      /\ Live' = Live
  BY <1>1, <1>7, SearchKeeps
<1>9. \A a \in Live : a \in DOMAIN pkt
  BY LiveFacts
<1>10. PoolHolds'
  <2>1. UNCHANGED <<Deleted_Packets, Finish_Packets>>
    BY <1>2 DEF pool
  <2>2. \A a \in Live : pkt'[a].reCompute = pkt[a].reCompute
    BY <1>6, <1>7, <1>9
  <2> QED BY <1>1, <1>7, <1>8, <2>1, <2>2 DEF PoolHolds
<1>11. TimesHold'
  <2>1. Live' \ Range(Unfinished_Packets') = Live \ u
    BY <1>1, <1>8
  <2>2. \A a \in Live \ u : pkt'[a] = pkt[a]
    BY <1>4, <1>7, <1>9
  <2>3. \A a \in Live \ u : OnItsWay(pkt[a])'
    <3> TAKE a \in Live \ u
    <3>1. OnItsWay(pkt[a]) /\ pkt'[a] = pkt[a]
      BY <2>2 DEF TimesHold
    <3> QED BY <1>2, <3>1 DEF OnItsWay
  <2>4. OneAtAPort'
    BY <2>1, <2>2 DEF TimesHold, OneAtAPort, Hops, Rx
  <2> QED BY <2>1, <2>3, <2>4 DEF TimesHold
<1>12. StackHolds'
  <2>1. CallsHold(stack', Live', Range(Unfinished_Packets'))
    BY <1>1, <1>4, <1>8
  <2> QED BY <2>1, CallsAreNext
<1> QED BY <1>7, <1>8, <1>10, <1>11, <1>12

\* A step of the search that only changes the stack.
LEMMA OnlyStack ==
  ASSUME Inv, main.state = "search", SearchUnchanged, UNCHANGED <<pkt, Unfinished_Packets>>,
         CallsHold(stack', Live, Range(Unfinished_Packets))
  PROVE  Inv'
<1> USE DEF Inv
<1>1. UNCHANGED <<payload, arrived, pool, ports>>
  BY DEF SearchUnchanged
<1>2. /\ PayloadsHold' /\ QueuesHold' /\ ArrivalsHold' /\ ThreadsHold' /\ PortsHold' /\ ClaimsHold'
      /\ Live' = Live
  BY SearchKeeps
<1>3. PacketsHold' /\ PoolHolds' /\ TimesHold'
  BY <1>1, PacketsKept, PoolKept, TimesKept
<1>4. StackHolds'
  BY <1>2, CallsAreNext
<1> QED BY <1>2, <1>3, <1>4

\* A step that takes a packet among those to be computed.
LEMMA TakesIn ==
  ASSUME Inv, main.state = "search", SearchUnchanged, NEW o \in Live, ~ pkt[o].reCompute, Recompute(o),
         CallsHold(stack', Live, Range(Unfinished_Packets) \union {o})
  PROVE  Inv'
<1> USE DEF Inv
<1>1. UNCHANGED <<payload, arrived, pool, ports>>
  BY DEF SearchUnchanged
<1>2. /\ PacketsHold' /\ PoolHolds' /\ TimesHold'
      /\ Range(Unfinished_Packets') = Range(Unfinished_Packets) \union {o}
      /\ DOMAIN pkt' = DOMAIN pkt
      /\ \A a \in DOMAIN pkt : pkt'[a].trans = pkt[a].trans /\ pkt'[a].rx = pkt[a].rx
  BY <1>1, Recomputed
<1>3. /\ PayloadsHold' /\ QueuesHold' /\ ArrivalsHold' /\ ThreadsHold' /\ PortsHold' /\ ClaimsHold'
      /\ Live' = Live
  BY <1>2, SearchKeeps
<1>4. StackHolds'
  BY <1>2, <1>3, CallsAreNext
<1> QED BY <1>2, <1>3, <1>4

\* A packet that comes later is taken in, or there is none.
LEMMA DeleteLaterPktKeeps == Inv /\ DeleteLaterPkt => Inv'
<1> SUFFICES ASSUME Inv, DeleteLaterPkt PROVE Inv'
  OBVIOUS
<1> DEFINE o == Head(stack).pkt
           later == FirstOf(LaterThan(pkt, ports, o))
           u == Range(Unfinished_Packets)
           s == stack
<1>1. /\ main.state = "search" /\ s # <<>> /\ Head(s).call = "later" /\ SearchUnchanged
      /\ \/ Return
         \/ \E x \in later : /\ Recompute(Entry(ports, pkt[o], x).pkt)
                             /\ stack' = <<Call("later", Entry(ports, pkt[o], x).pkt)>> \o s
  BY DEF DeleteLaterPkt, Calls
<1>2. CallsHold(s, Live, u)
  BY CallsAre DEF Inv
<1>3. CallsHold(Tail(s), Live, u) /\ o \in Live
  <2> DEFINE h == Head(s)
  <2> HIDE DEF u, s
  <2>1. h.call # "involve"
    BY <1>1
  <2> QED BY <1>1, <1>2, <2>1, CallReturns DEF s
<1>4. CASE Return
  BY <1>1, <1>3, <1>4, OnlyStack DEF Return
<1>5. ASSUME NEW x \in later, Recompute(Entry(ports, pkt[o], x).pkt),
             stack' = <<Call("later", Entry(ports, pkt[o], x).pkt)>> \o s
      PROVE  Inv'
  <2> DEFINE c == Entry(ports, pkt[o], x).pkt
             e == Call("later", c)
  <2>1. x \in Entries(ports, pkt[o]) /\ ~ pkt[c].reCompute
    BY DEF FirstOf, LaterThan
  <2>2. c \in Live
    <3> HIDE DEF o, later
    <3> QED BY <1>3, <2>1, EntryLive
  <2>3. e.pkt = c /\ e.call = "later"
    BY CallFacts
  <2> DEFINE v == u \union {c}
  <2>4. CallsHold(s, Live, v)
    <3> HIDE DEF s, u, c
    <3>1. u \subseteq u \union {c}
      OBVIOUS
    <3> QED BY <1>2, <3>1, MoreToCompute
  <2>5. CallsHold(<<e>> \o s, Live, v)
    <3> HIDE DEF s, v, e, c
    <3> QED BY <2>2, <2>3, <2>4, Called
  <2>6. stack' = <<e>> \o s /\ Recompute(c)
    BY <1>5
  <2> HIDE DEF c, e, s, o, later
  <2> QED BY <1>1, <2>1, <2>2, <2>5, <2>6, TakesIn
<1> QED BY <1>1, <1>4, <1>5

\* A packet that was met is taken in.
LEMMA InvolveKeeps == Inv /\ Involve => Inv'
<1> SUFFICES ASSUME Inv, Involve PROVE Inv'
  OBVIOUS
<1> DEFINE o == Head(stack).pkt
           u == Range(Unfinished_Packets)
           s == stack
           r == Tail(s)
           e == Call("later", o)
<1>1. /\ main.state = "search" /\ s # <<>> /\ Head(s).call = "involve" /\ SearchUnchanged
      /\ pkt[o].reCompute => Return
      /\ ~ pkt[o].reCompute => Recompute(o) /\ stack' = <<e>> \o r
  BY DEF Involve, Calls
<1>2. CallsHold(s, Live, u)
  BY CallsAre DEF Inv
<1>3. o \in Live
  <2>1. s \in Seq(Range(s))
    BY <1>2 DEF CallsHold, Listed
  <2> HIDE DEF s
  <2>2. Head(s) = s[1] /\ 1 \in 1 .. Len(s)
    BY <1>1, <2>1, TailFacts
  <2>3. s[1].pkt \in Live
    BY <1>2, <2>2 DEF CallsHold
  <2> QED BY <2>2, <2>3 DEF s
<1> DEFINE v == u \union {o}
<1>4. CallsHold(r, Live, v)
  <2> HIDE DEF s, u
  <2>1. u \subseteq v /\ Head(s).pkt \in v
    BY DEF s
  <2> HIDE DEF v
  <2>2. CallsHold(s, Live, v)
    BY <1>2, <2>1, MoreToCompute
  <2> QED BY <1>1, <2>1, <2>2, CallReturns
<1>5. CASE pkt[o].reCompute
  <2>1. o \in u
    BY <1>3, <1>5 DEF Inv, PoolHolds
  <2>2. v = u
    BY <2>1
  <2> QED BY <1>1, <1>4, <1>5, <2>2, OnlyStack DEF Return
<1>6. CASE ~ pkt[o].reCompute
  <2>1. e.pkt = o /\ e.call = "later"
    BY CallFacts
  <2>2. CallsHold(<<e>> \o r, Live, v)
    <3> HIDE DEF r, v, e, o
    <3> QED BY <1>3, <1>4, <2>1, Called
  <2> HIDE DEF o, e, r, s
  <2> QED BY <1>1, <1>3, <1>6, <2>2, TakesIn
<1> QED BY <1>5, <1>6

\* The calls that a meeting makes: both are involved before the loser waits.
LEMMA MeetCalls ==
  ASSUME NEW s, NEW l, NEW u, CallsHold(s, l, u), NEW o \in l, NEW c \in l,
         NEW loser, loser = c \/ loser = o, NEW i, NEW by
  PROVE  CallsHold(<<Call("involve", c)>> \o (<<Call("involve", o)>> \o (<<Delay(loser, i, by)>> \o s)), l, u)
<1> DEFINE a == Call("involve", c)
           b == Call("involve", o)
           d == Delay(loser, i, by)
           v == (u \union {c}) \union {o}
<1>1. a.call = "involve" /\ a.pkt = c /\ b.call = "involve" /\ b.pkt = o /\ d.call = "delay" /\ d.pkt = loser
  BY CallFacts
<1>2. u \subseteq v /\ c \in v /\ o \in v
  OBVIOUS
<1> HIDE DEF a, b, d, v
<1>3. CallsHold(s, l, v)
  BY <1>2, MoreToCompute
<1> DEFINE x == <<d>> \o s
<1>4. CallsHold(x, l, v)
  BY <1>1, <1>2, <1>3, Called
<1> HIDE DEF x
<1> DEFINE y == <<b>> \o x
           w == u \union {c}
<1>5. CallsHold(x, l, w \union {b.pkt})
  BY <1>1, <1>4 DEF v
<1> HIDE DEF w
<1>6. CallsHold(y, l, w)
  BY <1>1, <1>5, Called
<1> HIDE DEF y
<1>7. CallsHold(y, l, u \union {a.pkt})
  BY <1>1, <1>6 DEF w
<1>8. CallsHold(<<a>> \o y, l, u)
  BY <1>1, <1>7, Called
<1> QED BY <1>8 DEF a, b, d, x, y

\* The packet itself has to wait, and the loop starts again.
LEMMA ItselfWaits ==
  ASSUME NEW s, NEW l, NEW u, CallsHold(s, l, u), NEW o \in l, NEW c \in l, NEW i, NEW by, NEW e
  PROVE  CallsHold(<<Call("involve", c), Call("involve", o)>> \o <<Delay(o, i, by), Meet(o, e)>> \o s,
                   l, u)
<1> DEFINE a == Call("involve", c)
           b == Call("involve", o)
           d == Delay(o, i, by)
           m == Meet(o, e)
           t == <<m>> \o s
           y == <<d, m>>
<1>1. m.call = "meet" /\ m.pkt = o
  BY CallFacts
<1>2. s \in Seq(Range(s))
  BY DEF CallsHold, Listed
<1> HIDE DEF a, b, d, m
<1>3. CallsHold(t, l, u)
  BY <1>1, Called
<1>4. y \in Seq({d, m})
  OBVIOUS
<1>5. y \o s = <<d>> \o t
  BY <1>2, TwoBefore
<1> HIDE DEF t, y
<1>6. <<a, b>> \o y \o s = <<a>> \o (<<b>> \o (y \o s))
  BY <1>2, <1>4, TwoInFront
<1>7. CallsHold(<<a>> \o (<<b>> \o (<<d>> \o t)), l, u)
  BY <1>3, MeetCalls DEF a, b, d
<1> QED BY <1>5, <1>6, <1>7 DEF a, b, d, m, y

\* The other has to wait: it is searched for in turn, and the loop goes on.
LEMMA OtherWaits ==
  ASSUME NEW s, NEW l, NEW u, CallsHold(s, l, u), NEW o \in l, NEW c \in l, NEW i, NEW by, NEW e
  PROVE  CallsHold(<<Call("involve", c), Call("involve", o)>>
                   \o <<Delay(c, i, by), Call("search", c), Meet(o, e)>> \o s, l, u)
<1> DEFINE a == Call("involve", c)
           b == Call("involve", o)
           d == Delay(c, i, by)
           f == Call("search", c)
           m == Meet(o, e)
           t == <<m>> \o s
           z == <<f>> \o t
           y == <<d, f, m>>
<1>1. m.call = "meet" /\ m.pkt = o /\ f.call = "search" /\ f.pkt = c
  BY CallFacts
<1>2. s \in Seq(Range(s))
  BY DEF CallsHold, Listed
<1> HIDE DEF a, b, d, m, f
<1>3. CallsHold(t, l, u)
  BY <1>1, Called
<1>4. y \in Seq({d, f, m})
  OBVIOUS
<1>5. y \o s = <<d>> \o z
  BY <1>2, ThreeBefore, SMTT(40)
<1> HIDE DEF t, y
<1>6. CallsHold(z, l, u)
  BY <1>1, <1>3, Called
<1> HIDE DEF z
<1>7. <<a, b>> \o y \o s = <<a>> \o (<<b>> \o (y \o s))
  BY <1>2, <1>4, TwoInFront, SMTT(40)
<1>8. CallsHold(<<a>> \o (<<b>> \o (<<d>> \o z)), l, u)
  BY <1>6, MeetCalls DEF a, b, d
<1> QED BY <1>5, <1>7, <1>8 DEF a, b, d, m, f, y

\* The search meets a packet, or there is none left to meet.
LEMMA SearchOnKeeps == Inv /\ SearchOn => Inv'
<1> SUFFICES ASSUME Inv, SearchOn PROVE Inv'
  OBVIOUS
<1> DEFINE h == Head(stack)
           o == h.pkt
           p == pkt[o]
           meets == FirstOf(MeetsFrom(pkt, ports, o, h.from))
           u == Range(Unfinished_Packets)
           s == stack
           r == Tail(s)
           C(x) == Entry(ports, p, x).pkt
           both(x) == <<Call("involve", C(x)), Call("involve", o)>>
<1>1. main.state = "search" /\ s # <<>> /\ Head(s).call = "meet" /\ SearchUnchanged
  BY DEF SearchOn, Calls
<1>2. \/ Return
      \/ \E x \in meets : \E i, b, d, e :
           /\ \/ stack' = both(x) \o <<Delay(o, i, d), Meet(o, e)>> \o r
              \/ stack' = both(x) \o <<Delay(C(x), b, d), Call("search", C(x)), Meet(o, e)>> \o r
           /\ UNCHANGED <<pkt, Unfinished_Packets>>
  <2>1. SearchOn
    OBVIOUS
  <2> QED BY <2>1 DEF SearchOn
<1>3. CallsHold(s, Live, u)
  BY CallsAre DEF Inv
<1>4. CallsHold(r, Live, u) /\ o \in Live
  <2> HIDE DEF u, s
  <2>1. Head(s).call # "involve"
    BY <1>1
  <2> QED BY <1>1, <1>3, <2>1, CallReturns DEF s
<1>5. CASE Return
  BY <1>1, <1>4, <1>5, OnlyStack DEF Return
<1>6. ASSUME NEW x \in meets, NEW i, NEW b, NEW d, NEW e, UNCHANGED <<pkt, Unfinished_Packets>>,
             \/ stack' = both(x) \o <<Delay(o, i, d), Meet(o, e)>> \o r
             \/ stack' = both(x) \o <<Delay(C(x), b, d), Call("search", C(x)), Meet(o, e)>> \o r
      PROVE  Inv'
  <2>1. x \in Entries(ports, pkt[o])
    BY DEF FirstOf, MeetsFrom
  <2> DEFINE c == C(x)
  <2>2. c \in Live
    <3> HIDE DEF o
    <3> QED BY <1>4, <2>1, EntryLive
  <2> HIDE DEF c, r, o, u
  <2>3. CallsHold(<<Call("involve", c), Call("involve", o)>> \o <<Delay(o, i, d), Meet(o, e)>> \o r, Live, u)
    BY <1>4, <2>2, ItselfWaits
  <2>4. CallsHold(<<Call("involve", c), Call("involve", o)>>
                  \o <<Delay(c, b, d), Call("search", c), Meet(o, e)>> \o r, Live, u)
    BY <1>4, <2>2, OtherWaits
  <2>5. CallsHold(stack', Live, Range(Unfinished_Packets))
    BY <1>6, <2>3, <2>4 DEF u, c, o
  <2> QED BY <1>1, <1>6, <2>5, OnlyStack
<1> QED BY <1>2, <1>5, <1>6

\* All that is due has been accepted, and the search starts.
LEMMA StartSearchKeeps == Inv /\ StartSearch => Inv'
<1> SUFFICES ASSUME Inv, StartSearch PROVE Inv'
  OBVIOUS
<1> USE DEF Inv
<1> DEFINE u == Unfinished_Packets
           F(i) == Call("search", u[i])
           s == [i \in DOMAIN u |-> F(i)]
<1>1. /\ main.state = "accept" /\ main' = At("search", 0)
      /\ stack' = s
      /\ UNCHANGED <<now, payload, queues, arrived, sender, pkt, pool,
                     Unfinished_Packets, newPacket_num, claims, ports, unset>>
  BY DEF StartSearch
<1>2. PayloadsHold' /\ QueuesHold' /\ PacketsHold' /\ PoolHolds' /\ TimesHold' /\ PortsHold'
      /\ Live' = Live
  BY <1>1, PayloadsKept, QueuesKept, PacketsKept, PoolKept, TimesKept, PortsKept, LiveKept
<1>3. ArrivalsHold'
  <2>1. UNCHANGED pkt_peq
    BY <1>1 DEF queues
  <2> QED BY <1>1, <2>1, ArrivalsKept
<1>4. main'.state = "search"
  BY <1>1 DEF At
<1>5. ThreadsHold'
  <2>1. main' \in MainSet
    BY <1>1, MainAt, ZeroTime DEF At, States
  <2> QED BY <1>1, <1>4, <2>1 DEF ThreadsHold
<1>6. StackHolds'
  <2>1. u \in Seq(Nat) /\ Range(u) \subseteq Live
    BY DEF PoolHolds
  <2> HIDE DEF u
  <2>2. Len(u) \in Nat /\ DOMAIN u = 1 .. Len(u) /\ \A i \in 1 .. Len(u) : u[i] \in Range(u)
    BY <2>1, SeqFacts
  <2>3. \A i \in 1 .. Len(u) : F(i).call = "search" /\ F(i).pkt = u[i]
    BY CallFacts
  <2> DEFINE M == {F(i) : i \in 1 .. Len(u)}
  <2>4. s = [i \in 1 .. Len(u) |-> F(i)]
    BY <2>2
  <2> HIDE DEF F
  <2>5. s \in [1 .. Len(u) -> M]
    BY <2>4
  <2> HIDE DEF M
  <2>6. s \in Seq(M)
    <3> HIDE DEF s
    <3> QED BY <2>2, <2>5, SeqDef
  <2>7. Len(s) = Len(u) /\ \A i \in 1 .. Len(u) : s[i] = F(i)
    BY <2>2, <2>4
  <2> HIDE DEF s
  <2>8. Listed(s)
    BY <2>6, ListedFacts
  <2>9. \A i \in 1 .. Len(s) : s[i].pkt \in Live /\ s[i].call # "delay"
    BY <2>1, <2>2, <2>3, <2>7
  <2>10. CallsHold(s, Live, Range(Unfinished_Packets))
    BY <2>8, <2>9 DEF CallsHold
  <2>11. CallsHold(stack', Live', Range(Unfinished_Packets'))
    BY <1>1, <1>2, <2>10 DEF s
  <2> QED BY <2>11, CallsAreNext
<1> QED BY <1>2, <1>3, <1>4, <1>5, <1>6, NoClaim

\* What is scheduled for delivery comes in the order of its times.
LEMMA NextDelivery ==
  ASSUME QueuesHold, NEW i \in 1 .. Len(complete_peq)
  PROVE  /\ complete_peq # <<>> /\ Head(complete_peq).at <= complete_peq[i].at
         /\ complete_peq[i].at \in Times /\ Head(complete_peq).at \in Times
<1> DEFINE q == complete_peq
<1>1. q \in Seq(EntrySet)
  BY DEF QueuesHold
<1> HIDE DEF q
<1>2. Len(q) \in Nat /\ (q # <<>> <=> Len(q) >= 1) /\ \A j \in 1 .. Len(q) : q[j] \in EntrySet
  BY <1>1, SeqFacts
<1>3. i \in 1 .. Len(q)
  BY DEF q
<1>4. q # <<>>
  BY <1>2, <1>3
<1>5. Head(q) = q[1] /\ 1 \in 1 .. Len(q)
  BY <1>1, <1>4, TailFacts
<1>6. q[i].at \in Times /\ q[1].at \in Times
  <2>1. q[i] \in EntrySet /\ q[1] \in EntrySet
    BY <1>2, <1>3, <1>5
  <2> HIDE DEF Times
  <2> QED BY <2>1 DEF EntrySet
<1>7. q[1].at <= q[i].at
  <2>1. q[1].at \in Int
    BY <1>6, TimesType
  <2>2. CASE i = 1
    BY <2>1, <2>2
  <2>3. CASE i # 1
    <3>1. 1 < i
      BY <1>2, <1>3, <2>3
    <3> QED BY <1>3, <1>5, <3>1 DEF QueuesHold, q
  <2> QED BY <2>2, <2>3
<1> QED BY <1>4, <1>5, <1>6, <1>7 DEF q

\* Time passes: no delivery is missed.
LEMMA TickKeeps == Inv /\ Tick => Inv'
<1> SUFFICES ASSUME Inv, Tick PROVE Inv'
  OBVIOUS
<1> USE DEF Inv
<1>1. /\ ~ IsDue(complete_peq) /\ now' = now + Clk
      /\ UNCHANGED <<payload, queues, arrived, main, sender, pkt, pool, round, ports, unset>>
  BY DEF Tick, Quiet
<1>2. UNCHANGED <<newPacket_num, Unfinished_Packets, stack, claims, pkt_peq, complete_peq, recompute_peq>>
  BY <1>1 DEF round, queues
<1>3. /\ PayloadsHold' /\ ArrivalsHold' /\ PacketsHold' /\ PoolHolds' /\ PortsHold' /\ StackHolds'
      /\ TimesHold' /\ ClaimsHold'
  BY <1>1, <1>2, PayloadsKept, ArrivalsKept, PacketsKept, PoolKept, PortsKept, StackKept, TimesKept, ClaimsKept
<1>4. ThreadsHold'
  BY <1>1, <1>2 DEF ThreadsHold
<1>5. now \in Times /\ now' \in Times
  <2>1. now \in Times
    BY DEF QueuesHold
  <2> QED BY <1>1, <2>1, TimesType
<1>6. \A i \in 1 .. Len(complete_peq) : complete_peq[i].at >= now'
  <2> TAKE i \in 1 .. Len(complete_peq)
  <2> DEFINE a == complete_peq[i].at
             h == Head(complete_peq).at
  <2>1. complete_peq # <<>> /\ h <= a /\ a \in Times /\ h \in Times
    BY NextDelivery
  <2>2. ~ (h <= now)
    BY <1>1, <2>1 DEF IsDue
  <2> HIDE DEF a, h, Times
  <2>3. a \in Int /\ h \in Int /\ now \in Int
    BY <1>5, <2>1, TimesType
  <2>4. now < a
    BY <2>1, <2>2, <2>3
  <2>5. now + Clk <= a
    BY <1>5, <2>1, <2>4, TimesType
  <2>6. now' \in Int
    BY <1>5, TimesType
  <2> QED BY <1>1, <2>3, <2>5, <2>6 DEF a
<1>7. QueuesHold'
  <2>1. \A i \in 1 .. Len(complete_peq) : Scheduled(complete_peq[i])'
    <3> TAKE i \in 1 .. Len(complete_peq)
    <3>1. Scheduled(complete_peq[i])
      BY DEF QueuesHold
    <3> QED BY <1>1, <1>2, <1>6, <3>1 DEF Scheduled, Soonest
  <2> QED BY <1>1, <1>2, <1>5, <2>1 DEF QueuesHold
<1> QED BY <1>3, <1>4, <1>7

\* A packet claims its ports: what it gets is behind all that has left them.
LEMMA ClaimKeeps == Inv /\ Claim => Inv'
<1> SUFFICES ASSUME Inv, Claim PROVE Inv'
  OBVIOUS
<1> DEFINE k == main.place
           u == Unfinished_Packets
           o == u[k]
           p == pkt[o]
           n == Len(p.rx)
           d == SimulateHeaderTimetoRx(claims, ports, o, p)
<1>1. /\ main.state = "claim" /\ k \in DOMAIN u /\ claims' = d
      /\ main' = IF k < Len(u) THEN At("claim", k + 1) ELSE At("transfer", 1)
      /\ UNCHANGED <<now, payload, queues, arrived, sender, pkt, pool,
                     Unfinished_Packets, newPacket_num, stack, ports, unset>>
  BY DEF Claim
<1>2. UNCHANGED pkt_peq
  BY <1>1 DEF queues
<1>3. /\ PayloadsHold' /\ QueuesHold' /\ ArrivalsHold' /\ PacketsHold' /\ PoolHolds' /\ PortsHold'
      /\ StackHolds' /\ TimesHold'
  BY <1>1, <1>2, PayloadsKept, QueuesKept, ArrivalsKept, PacketsKept, PoolKept, PortsKept, StackKept, TimesKept
     DEF Inv
<1>4. main'.state \in {"claim", "transfer"} /\ main'.place >= 1 /\ main' \in MainSet
      /\ (main'.state = "claim" => main'.place = k + 1)
  <2>1. k \in Nat
    BY ThreadFacts DEF Inv
  <2>2. CASE k < Len(u)
    <3>1. main' = At("claim", k + 1) /\ k + 1 \in Nat
      BY <1>1, <2>1, <2>2
    <3> QED BY <2>1, <3>1, MainAt, ZeroTime DEF At, States
  <2>3. CASE ~ (k < Len(u))
    <3>1. main' = At("transfer", 1)
      BY <1>1, <2>3
    <3> QED BY <3>1, MainAt, ZeroTime DEF At, States
  <2> QED BY <2>2, <2>3
<1>5. ThreadsHold'
  BY <1>1, <1>4 DEF Inv, ThreadsHold
<1>6. u \in Seq(Nat) /\ IsInjective(u) /\ Range(u) \subseteq Live
  BY DEF Inv, PoolHolds
<1> HIDE DEF k, u
<1>7. /\ DOMAIN u = 1 .. Len(u) /\ k \in 1 .. Len(u) /\ o \in Range(u) /\ o \in Nat
      /\ \A j \in 1 .. Len(u) : u[j] \in Range(u)
  BY <1>1, <1>6, SeqFacts
<1>8. \A a \in Range(u) : a \in DOMAIN pkt /\ HasPath(pkt[a], Len(pkt[a].rx)) /\ pkt[a].rx = Rx(pkt[a])
                          /\ DOMAIN pkt[a].rx = 1 .. Len(pkt[a].rx) /\ a >= 1
  <2> TAKE a \in Range(u)
  <2>1. a \in DOMAIN pkt
    BY <1>6, LiveFacts
  <2> QED BY <2>1, PacketFacts DEF Inv
<1>9. claims \in PassSet /\ ports \in [PortsInUse -> PortSet]
  BY <1>1 DEF Inv, ClaimsHold, PortsHold
<1>10. \A x \in ClaimPorts : \/ claims.claims[x].owner = 0
                            \/ \E j \in 1 .. Len(u) : j < k /\ claims.claims[x].owner = u[j]
  BY <1>1 DEF Inv, ClaimsHold, u, k
<1>11. \A x \in ClaimPorts : claims.claims[x].owner # o
  <2> TAKE x \in ClaimPorts
  <2>1. o >= 1
    BY <1>7, <1>8
  <2>2. \A j \in 1 .. Len(u) : j < k => u[j] # o
    BY <1>6, <1>7 DEF IsInjective
  <2> HIDE DEF o
  <2> QED BY <1>10, <2>1, <2>2
<1> HIDE DEF o
<1>12. HasPath(p, n) /\ p.rx = Rx(p) /\ DOMAIN p.rx = 1 .. n
  BY <1>7, <1>8
<1> HIDE DEF p, n
<1>13. /\ d \in PassSet
       /\ \A x \in ClaimPorts : Same(d.claims[x], claims.claims[x]) \/ d.claims[x].owner = o
       /\ \A i \in 1 .. n : d.claims[Rx(p)[i]].owner = o => Given(d.claims, ports, p, i)
  BY <1>7, <1>9, <1>11, <1>12, HeaderSimulated
<1> HIDE DEF d
<1>14. ClaimsHold'
  <2>1. ASSUME main'.state = "claim", NEW x \in ClaimPorts
        PROVE  \/ d.claims[x].owner = 0
               \/ \E j \in 1 .. Len(u) : j < main'.place /\ d.claims[x].owner = u[j]
    <3>1. main'.place = k + 1
      BY <1>4, <2>1
    <3>2. CASE d.claims[x].owner = o
      <4>1. o = u[k] /\ k \in 1 .. Len(u) /\ k < k + 1
        BY <1>7 DEF o
      <4> QED BY <3>1, <3>2, <4>1
    <3>3. CASE Same(d.claims[x], claims.claims[x])
      <4>1. d.claims[x].owner = claims.claims[x].owner
        BY <3>3 DEF Same
      <4>2. \A j \in 1 .. Len(u) : j < k => j < k + 1
        BY <1>7
      <4> QED BY <1>10, <3>1, <4>1, <4>2
    <3> QED BY <1>13, <3>2, <3>3
  <2>2. ASSUME NEW a \in Range(u), NEW i \in DOMAIN pkt[a].rx, d.claims[pkt[a].rx[i]].owner = a
        PROVE  Granted(a, i)'
    <3> DEFINE y == pkt[a].rx
    <3>1. HasPath(pkt[a], Len(y)) /\ y = Rx(pkt[a]) /\ DOMAIN y = 1 .. Len(y) /\ Len(y) \in Nat
      BY <1>8 DEF HasPath
    <3>2. \A j \in 1 .. Len(y) : y[j] \in ClaimPorts
      BY <3>1 DEF HasPath
    <3>3. CASE a = o
      <4>1. Given(d.claims, ports, p, i)
        BY <1>12, <1>13, <2>2, <3>1, <3>3 DEF p
      <4> QED BY <1>1, <3>1, <3>3, <4>1 DEF Given, Granted, p
    <3>4. CASE a # o
      <4>1. Same(d.claims[y[i]], claims.claims[y[i]])
        BY <1>13, <2>2, <3>1, <3>2, <3>4
      <4>2. claims.claims[y[i]].owner = a
        BY <2>2, <4>1 DEF Same
      <4>3. Granted(a, i)
        BY <1>1, <2>2, <4>2 DEF Inv, ClaimsHold, u
      <4>4. i > 1 /\ d.claims[y[i - 1]].owner = a => Same(d.claims[y[i - 1]], claims.claims[y[i - 1]])
        <5>1. i > 1 => i - 1 \in 1 .. Len(y)
          BY <3>1
        <5> HIDE DEF y
        <5> QED BY <1>13, <3>2, <3>4, <5>1
      <4> QED BY <1>1, <4>1, <4>3, <4>4 DEF Granted, Same
    <3> QED BY <3>3, <3>4
  <2> QED BY <1>1, <1>4, <1>13, <2>1, <2>2 DEF ClaimsHold, u
<1> QED BY <1>3, <1>5, <1>14 DEF Inv

\* A port from which the packets with the ids are taken.
LEMMA PortCorrected ==
  ASSUME NEW c \in PortSet, NEW ids
  PROVE  LET d == CorrectPort(c, ids)
         IN  /\ d \in PortSet /\ d.passed = c.passed
             /\ \A m \in 1 .. Len(c.released) : c.released[m].id \notin ids =>
                  \E l \in 1 .. Len(d.released) : d.released[l] = c.released[m]
             /\ (\A i, j \in 1 .. Len(c.released) :
                   i < j => c.released[i].time <= c.released[j].time) =>
                \A i, j \in 1 .. Len(d.released) :
                   i < j => d.released[i].time <= d.released[j].time
<1> DEFINE R == [id : Nat, time : Times]
           s == c.released
           a == c.total
           f == Filtered(s, {r \in Range(s) : r.id \notin ids})
           g == Filtered(a, {e \in Range(a) : e.id \notin ids})
           l == IF g = <<>> THEN NoFlits ELSE Last(g)
           d == CorrectPort(c, ids)
<1>1. /\ s \in Seq(R) /\ a \in Seq(LastSet) /\ c.passed \in Seq([pkt : Nat, at : Nat])
      /\ c = [passed |-> c.passed, last |-> c.last, total |-> a, released |-> s]
  BY DEF PortSet
<1>2. d = [c EXCEPT !.total = g, !.released = f, !.last = l]
  BY DEF CorrectPort
<1> HIDE DEF R, s, a
<1>3. f \in Seq(R) /\ Range(f) = Range(s) \intersect {r \in Range(s) : r.id \notin ids}
  BY <1>1, FilteredMembers
<1>4. g \in Seq(LastSet)
  BY <1>1, FilteredMembers
<1>5. (\A i, j \in 1 .. Len(s) : i < j => s[i].time <= s[j].time) =>
      \A i, j \in 1 .. Len(f) : i < j => f[i].time <= f[j].time
  <2> SUFFICES ASSUME \A i, j \in 1 .. Len(s) : i < j => s[i].time <= s[j].time
               PROVE  \A i, j \in 1 .. Len(f) : i < j => f[i].time <= f[j].time
    OBVIOUS
  <2> DEFINE rel == {z \in R \X R : z[1].time <= z[2].time}
  <2>1. \A i, j \in 1 .. Len(s) : i < j => <<s[i], s[j]>> \in rel
    <3>1. \A i \in 1 .. Len(s) : s[i] \in R
      BY <1>1, SeqFacts
    <3> QED BY <3>1
  <2> HIDE DEF rel, f
  <2>2. \A i, j \in 1 .. Len(f) : i < j => <<f[i], f[j]>> \in rel
    BY <1>1, <2>1, FilteredProperties DEF f
  <2> QED BY <2>2 DEF rel
<1> HIDE DEF f, g
<1>6. l \in LastSet
  <2>1. NoFlits \in LastSet
    BY ZeroTime DEF NoFlits, LastSet
  <2>2. g # <<>> => Last(g) \in LastSet
    BY <1>4, LastOf
  <2> QED BY <2>1, <2>2
<1> HIDE DEF l, d
<1>7. d = [passed |-> c.passed, last |-> l, total |-> g, released |-> f]
  BY <1>1, <1>2
<1>8. d \in PortSet /\ d.passed = c.passed /\ d.released = f
  BY <1>1, <1>3, <1>4, <1>6, <1>7 DEF PortSet, R
<1>9. \A m \in 1 .. Len(s) : s[m].id \notin ids => \E k \in 1 .. Len(f) : f[k] = s[m]
  <2> TAKE m \in 1 .. Len(s)
  <2> SUFFICES ASSUME s[m].id \notin ids PROVE \E k \in 1 .. Len(f) : f[k] = s[m]
    OBVIOUS
  <2>1. s[m] \in Range(s)
    BY <1>1, SeqFacts
  <2>2. s[m] \in Range(f)
    BY <1>3, <2>1
  <2> QED BY <1>3, <2>2, SeqFacts
<1> QED BY <1>5, <1>8, <1>9 DEF d, s

\* The packets in another order.
LEMMA Reordered ==
  ASSUME NEW u \in Seq(Nat), IsInjective(u), NEW perm \in Bijection(DOMAIN u, DOMAIN u)
  PROVE  LET v == [i \in DOMAIN u |-> u[perm[i]]]
         IN  v \in Seq(Nat) /\ IsInjective(v) /\ Range(v) = Range(u)
<1> DEFINE v == [i \in DOMAIN u |-> u[perm[i]]]
           D == DOMAIN u
<1>1. Len(u) \in Nat /\ D = 1 .. Len(u) /\ \A i \in 1 .. Len(u) : u[i] \in Nat
  BY SeqFacts
<1>2. perm \in [D -> D] /\ IsInjective(perm) /\ \A t \in D : \E i \in D : perm[i] = t
  BY DEF Bijection, Injection, Surjection
<1> HIDE DEF D
<1>3. v = [i \in D |-> u[perm[i]]] /\ DOMAIN u = D
  BY DEF D
<1> HIDE DEF v
<1>4. DOMAIN v = D /\ \A i \in D : v[i] = u[perm[i]] /\ perm[i] \in D
  BY <1>2, <1>3
<1>5. v \in Seq(Nat)
  <2>1. v \in [1 .. Len(u) -> Nat]
    BY <1>1, <1>3, <1>4
  <2> QED BY <1>1, <2>1, SeqDef
<1>6. IsInjective(v)
  <2> SUFFICES ASSUME NEW i \in D, NEW j \in D, v[i] = v[j] PROVE i = j
    BY <1>4 DEF IsInjective
  <2>1. perm[i] = perm[j]
    BY <1>3, <1>4 DEF IsInjective
  <2> QED BY <1>2, <2>1 DEF IsInjective
<1>7. Range(v) = Range(u)
  <2>1. Range(v) = {v[i] : i \in D} /\ Range(u) = {u[i] : i \in D}
    BY <1>3, <1>4 DEF Range
  <2>2. \A i \in D : v[i] \in Range(u)
    BY <1>4, <2>1
  <2>3. \A j \in D : u[j] \in Range(v)
    BY <1>2, <1>4, <2>1
  <2> QED BY <2>1, <2>2, <2>3
<1> QED BY <1>5, <1>6, <1>7 DEF v

\* What is taken from a port is of a packet to be computed.
LEMMA TakenBack ==
  ASSUME Inv, NEW a \in Live \ Range(Unfinished_Packets), NEW x
  PROVE  pkt[a].id \notin ReIds(x)
<1> SUFFICES ASSUME pkt[a].id \in ReIds(x) PROVE FALSE
  OBVIOUS
<1> DEFINE u == Unfinished_Packets
<1>1. PICK o \in {u[i] : i \in newPacket_num + 1 .. Len(u)} : pkt[a].id = pkt[o].id
  BY DEF ReIds
<1>2. PICK i \in newPacket_num + 1 .. Len(u) : o = u[i]
  BY <1>1
<1>3. u \in Seq(Nat) /\ Range(u) \subseteq Live /\ newPacket_num \in Nat
  BY DEF Inv, PoolHolds, ThreadsHold
<1>4. i \in 1 .. Len(u)
  <2>1. Len(u) \in Nat
    BY <1>3, SeqFacts
  <2> HIDE DEF u
  <2> QED BY <1>2, <1>3, <2>1
<1>5. o \in Range(u)
  <2> HIDE DEF u
  <2> QED BY <1>2, <1>3, <1>4, SeqFacts
<1>6. o \in Live /\ a # o
  BY <1>3, <1>5
<1>7. o \in DOMAIN pkt /\ a \in DOMAIN pkt
  BY <1>6, LiveFacts
<1>8. pkt[a].id = pkt[a].trans /\ pkt[o].id = pkt[o].trans
  BY <1>7, PacketFacts DEF Inv
<1>9. pkt[a].trans = pkt[o].trans
  BY <1>1, <1>8
<1> QED BY <1>6, <1>9, LiveFacts

\* What the packets computed again had left at the ports is taken away, and nothing else.
LEMMA StartPassesKeeps == Inv /\ StartPasses => Inv'
<1> SUFFICES ASSUME Inv, StartPasses PROVE Inv'
  OBVIOUS
<1> DEFINE u == Unfinished_Packets
           C(x) == IF ReIds(x) = {} THEN ports[x] ELSE CorrectPort(ports[x], ReIds(x))
<1>1. /\ main.state = "search" /\ stack = <<>>
      /\ \E perm \in Bijection(DOMAIN u, DOMAIN u) : u' = [i \in DOMAIN u |-> u[perm[i]]]
      /\ ports' = [x \in DOMAIN ports |-> C(x)]
      /\ newPacket_num' = 0 /\ claims' = Unclaimed(unset) /\ main' = At("claim", 1)
      /\ UNCHANGED <<now, payload, queues, arrived, sender, pkt, pool, stack, unset>>
  BY DEF StartPasses
<1>2. UNCHANGED <<pkt_peq, Deleted_Packets, Finish_Packets>>
  BY <1>1 DEF queues, pool
<1>3. PayloadsHold' /\ QueuesHold' /\ ArrivalsHold' /\ PacketsHold' /\ Live' = Live
  BY <1>1, <1>2, PayloadsKept, QueuesKept, ArrivalsKept, PacketsKept, LiveKept DEF Inv
<1>4. StackHolds'
  BY <1>1, NoStack
<1>5. main'.state = "claim" /\ main'.place = 1 /\ main' \in MainSet
  BY <1>1, MainAt, ZeroTime DEF At, States
<1>6. ThreadsHold'
  BY <1>1, <1>5 DEF Inv, ThreadsHold
<1>7. u' \in Seq(Nat) /\ IsInjective(u') /\ Range(u') = Range(u)
  <2> DEFINE w == u'
  <2>1. PICK perm \in Bijection(DOMAIN u, DOMAIN u) : w = [i \in DOMAIN u |-> u[perm[i]]]
    BY <1>1
  <2>2. u \in Seq(Nat) /\ IsInjective(u)
    BY DEF Inv, PoolHolds
  <2> HIDE DEF u, w
  <2>3. w \in Seq(Nat) /\ IsInjective(w) /\ Range(w) = Range(u)
    BY <2>1, <2>2, Reordered
  <2> QED BY <2>3 DEF w
<1>8. PoolHolds'
  BY <1>1, <1>2, <1>3, <1>7 DEF Inv, PoolHolds
<1>9. ports \in [PortsInUse -> PortSet] /\ DOMAIN ports = PortsInUse
  BY DEF Inv, PortsHold
<1>10. ASSUME NEW x \in PortsInUse
       PROVE  /\ ports'[x] \in PortSet /\ ports'[x].passed = ports[x].passed
              /\ \A m \in 1 .. Len(ports[x].released) : ports[x].released[m].id \notin ReIds(x) =>
                   \E l \in 1 .. Len(ports'[x].released) : ports'[x].released[l] = ports[x].released[m]
              /\ (\A i, j \in 1 .. Len(ports[x].released) :
                    i < j => ports[x].released[i].time <= ports[x].released[j].time) =>
                 \A i, j \in 1 .. Len(ports'[x].released) :
                    i < j => ports'[x].released[i].time <= ports'[x].released[j].time
  <2> DEFINE c == ports[x]
             ids == ReIds(x)
             d == ports'[x]
  <2>1. d = IF ids = {} THEN c ELSE CorrectPort(c, ids)
    BY <1>1, <1>9
  <2>2. c \in PortSet
    BY <1>9
  <2> HIDE DEF c, ids, d
  <2>3. /\ d \in PortSet /\ d.passed = c.passed
        /\ \A m \in 1 .. Len(c.released) : c.released[m].id \notin ids =>
             \E l \in 1 .. Len(d.released) : d.released[l] = c.released[m]
        /\ (\A i, j \in 1 .. Len(c.released) :
              i < j => c.released[i].time <= c.released[j].time) =>
           \A i, j \in 1 .. Len(d.released) :
              i < j => d.released[i].time <= d.released[j].time
    <3>1. CASE ids = {}
      BY <2>1, <2>2, <3>1
    <3>2. CASE ids # {}
      <4>1. d = CorrectPort(c, ids)
        BY <2>1, <3>2
      <4> QED BY <2>2, <4>1, PortCorrected
    <3> QED BY <3>1, <3>2
  <2> QED BY <2>3 DEF c, ids, d
<1>11. PortsHold'
  <2>1. ports' \in [PortsInUse -> PortSet]
    BY <1>1, <1>9, <1>10
  <2>2. \A x \in PortsInUse : \A k \in 1 .. Len(ports'[x].passed) : IsThere(ports[x].passed[k], x)'
    <3> TAKE x \in PortsInUse
    <3>1. ports'[x].passed = ports[x].passed
      BY <1>10
    <3> TAKE k \in 1 .. Len(ports'[x].passed)
    <3>2. IsThere(ports[x].passed[k], x)
      BY <3>1 DEF Inv, PortsHold
    <3> DEFINE e == ports[x].passed[k]
    <3>3. e.pkt \in Live' /\ e.at \in DOMAIN pkt[e.pkt].rx /\ pkt[e.pkt].rx[e.at] = x
      BY <1>3, <3>2 DEF IsThere
    <3>4. e' = e
      BY <3>1
    <3>5. pkt' = pkt
      BY <1>1
    <3> HIDE DEF e
    <3>6. IsThere(e, x)'
      BY <3>3, <3>4, <3>5 DEF IsThere
    <3> QED BY <3>6 DEF e
  <2>3. \A x \in ClaimPorts : \A i, j \in 1 .. Len(ports'[x].released) :
          i < j => ports'[x].released[i].time <= ports'[x].released[j].time
    <3> TAKE x \in ClaimPorts
    <3>1. \A i, j \in 1 .. Len(ports[x].released) :
            i < j => ports[x].released[i].time <= ports[x].released[j].time
      BY DEF Inv, PortsHold
    <3>2. x \in PortsInUse
      BY DEF ClaimPorts
    <3> QED BY <1>10, <3>1, <3>2
  <2> QED BY <2>1, <2>2, <2>3 DEF PortsHold
<1>12. TimesHold'
  <2>1. Live' \ Range(Unfinished_Packets') = Live \ Range(u)
    BY <1>3, <1>7
  <2>2. \A a \in Live \ Range(u) : OnItsWay(pkt[a])'
    <3> TAKE a \in Live \ Range(u)
    <3> DEFINE p == pkt[a]
    <3>1. OnItsWay(p) /\ a \in DOMAIN pkt
      BY LiveFacts DEF Inv, TimesHold
    <3>2. HasPath(p, Len(p.rx)) /\ p.rx = Rx(p) /\ DOMAIN p.rx = 1 .. Len(p.rx)
      BY <3>1, PacketFacts DEF Inv
    <3>3. \A i \in DOMAIN p.rx : p.rx[i] \in PortsInUse
      BY <3>2 DEF HasPath, ClaimPorts
    <3>4. \A i \in DOMAIN p.rx : p.id \notin ReIds(p.rx[i])
      BY TakenBack
    <3>5. ASSUME NEW i \in DOMAIN p.rx
          PROVE  \E m \in 1 .. Len(ports'[p.rx[i]].released) :
                   ports'[p.rx[i]].released[m] = [id |-> p.id, time |-> p.tail[i]]
      <4> DEFINE x == p.rx[i]
                 e == [id |-> p.id, time |-> p.tail[i]]
      <4>1. PICK m \in 1 .. Len(ports[x].released) : ports[x].released[m] = e
        BY <3>1 DEF OnItsWay
      <4>2. ports[x].released[m].id \notin ReIds(x)
        BY <3>4, <4>1
      <4>3. \E l \in 1 .. Len(ports'[x].released) : ports'[x].released[l] = ports[x].released[m]
        <5>1. x \in PortsInUse
          BY <3>3
        <5> HIDE DEF x
        <5> QED BY <1>10, <4>2, <5>1
      <4> QED BY <4>1, <4>3
    <3>6. pkt' = pkt
      BY <1>1
    <3> QED BY <3>1, <3>5, <3>6 DEF OnItsWay
  <2>3. OneAtAPort'
    BY <1>1, <2>1 DEF Inv, TimesHold, OneAtAPort, Hops, Rx
  <2> QED BY <2>1, <2>2, <2>3 DEF TimesHold
<1>13. ClaimsHold'
  <2>1. claims' \in PassSet /\ \A x \in ClaimPorts : claims'.claims[x].owner = 0
    BY <1>1, PassBegins
  <2>2. \A o \in Range(u) : o # 0 /\ \A i \in DOMAIN pkt[o].rx : pkt[o].rx[i] \in ClaimPorts
    <3> TAKE o \in Range(u)
    <3>1. o \in DOMAIN pkt
      BY LiveFacts DEF Inv, PoolHolds
    <3>2. HasPath(pkt[o], Len(pkt[o].rx)) /\ pkt[o].rx = Rx(pkt[o]) /\ o >= 1 /\ o \in Nat
          /\ DOMAIN pkt[o].rx = 1 .. Len(pkt[o].rx)
      BY <3>1, PacketFacts DEF Inv
    <3> QED BY <3>2 DEF HasPath
  <2>3. ASSUME NEW o \in Range(u'), NEW i \in DOMAIN pkt'[o].rx, claims'.claims[pkt'[o].rx[i]].owner = o
        PROVE  FALSE
    <3>1. o \in Range(u) /\ i \in DOMAIN pkt[o].rx /\ claims'.claims[pkt[o].rx[i]].owner = o
      BY <1>1, <1>7, <2>3
    <3> HIDE DEF u
    <3> QED BY <2>1, <2>2, <3>1
  <2> HIDE DEF Live
  <2> QED BY <1>5, <2>1, <2>3 DEF ClaimsHold
<1> QED BY <1>3, <1>4, <1>6, <1>8, <1>11, <1>12, <1>13 DEF Inv

\* A NI hands over a packet.
LEMMA SendKeeps ==
  ASSUME NEW f \in Flows, Inv, Send(f)
  PROVE  Inv'
<1> DEFINE n == Len(payload)
           y == [src |-> f.src, dst |-> f.dst, size |-> f.len, send |-> now, finish |-> 0, pkt |-> 0]
           q == pkt_peq
           t1 == n + 1
           r == NotifyAt(q, t1, now)
<1>1. /\ ~ Running
      /\ payload' = Append(payload, y) /\ arrived' = Append(arrived, <<>>) /\ pkt_peq' = r
      /\ UNCHANGED <<now, complete_peq, recompute_peq, main, sender, pkt, pool, round, ports, unset>>
  BY DEF Send
<1>2. UNCHANGED <<newPacket_num, Unfinished_Packets, stack, claims, Deleted_Packets, Finish_Packets>>
  BY <1>1 DEF round, pool
<1>3. /\ payload \in Seq(PayloadSet) /\ arrived \in Seq(Seq(Times)) /\ Len(arrived) = n /\ now \in Times
      /\ q \in Seq(EntrySet)
  BY DEF Inv, PayloadsHold, QueuesHold
<1>4. y \in PayloadSet /\ FlowOf(y)
  <2>1. f.src \in PE /\ f.dst \in PE /\ f.len \in Nat
    BY NtsNetworkAssumption
  <2>2. y \in PayloadSet
    BY <1>3, <2>1, ZeroTime DEF PayloadSet
  <2> QED BY <2>2 DEF FlowOf
<1>5. /\ payload' \in Seq(PayloadSet) /\ Len(payload') = t1 /\ payload'[t1] = y
      /\ \A t \in 1 .. n : payload'[t] = payload[t]
  <2> HIDE DEF y
  <2> QED BY <1>1, <1>3, <1>4, AppendProperties
<1>6. /\ arrived' \in Seq(Seq(Times)) /\ Len(arrived') = t1 /\ arrived'[t1] = <<>>
      /\ \A t \in 1 .. n : arrived'[t] = arrived[t]
  <2> DEFINE e == <<>>
  <2>1. e \in Seq(Times)
    BY EmptySeq
  <2> HIDE DEF e
  <2>2. /\ Append(arrived, e) \in Seq(Seq(Times)) /\ Len(Append(arrived, e)) = Len(arrived) + 1
        /\ Append(arrived, e)[Len(arrived) + 1] = e
        /\ \A t \in 1 .. Len(arrived) : Append(arrived, e)[t] = arrived[t]
    BY <1>3, <2>1, AppendProperties
  <2> QED BY <1>1, <1>3, <2>2 DEF e
<1>7. n \in Nat
  BY <1>3, SeqFacts
<1>8. PayloadsHold'
  <2>1. \A t \in 1 .. n : FlowOf(payload[t])
    BY DEF Inv, PayloadsHold
  <2>2. ASSUME NEW t \in 1 .. t1 PROVE FlowOf(payload'[t])
    <3>1. t = t1 \/ t \in 1 .. n
      BY <1>7
    <3> QED BY <1>4, <1>5, <2>1, <3>1
  <2> QED BY <1>5, <1>6, <2>2 DEF PayloadsHold, FlowOf
<1> HIDE DEF y
<1>9. \A i \in 1 .. Len(q) : q[i].trans \in 1 .. n
  BY DEF Inv, QueuesHold
<1>10. /\ r \in Seq(EntrySet)
       /\ \A i \in 1 .. Len(r) : r[i].trans = t1 \/ \E j \in 1 .. Len(q) : r[i] = q[j]
       /\ \A j \in 1 .. Len(q) : \E i \in 1 .. Len(r) : r[i] = q[j]
       /\ \E i \in 1 .. Len(r) : r[i].trans = t1
       /\ \A i, j \in 1 .. Len(r) : i < j => r[i].trans # r[j].trans
  <2> DEFINE e == [trans |-> t1, at |-> now]
             rel == {z \in EntrySet \X EntrySet : z[1].trans # z[2].trans}
  <2>1. e \in EntrySet /\ e.trans = t1
    BY <1>3, <1>7 DEF EntrySet
  <2> HIDE DEF e
  <2>2. \A i \in 1 .. Len(q) : q[i] \in EntrySet
    BY <1>3, SeqFacts
  <2>3. \A i, j \in 1 .. Len(q) : i < j => <<q[i], q[j]>> \in rel
    <3>1. \A i, j \in 1 .. Len(q) : i < j => q[i].trans # q[j].trans
      BY DEF Inv, QueuesHold
    <3> QED BY <2>2, <3>1
  <2>4. \A i \in 1 .. Len(q) : /\ q[i].at <= now => <<q[i], e>> \in rel
                               /\ q[i].at > now => <<e, q[i]>> \in rel
    <3>1. \A i \in 1 .. Len(q) : q[i].trans # t1
      BY <1>7, <1>9
    <3> QED BY <2>1, <2>2, <3>1
  <2>5. \A i, j \in 1 .. Len(q) : q[i].at <= now /\ now < q[j].at => <<q[i], q[j]>> \in rel
    <3> SUFFICES ASSUME NEW i \in 1 .. Len(q), NEW j \in 1 .. Len(q), q[i].at <= now, now < q[j].at
                 PROVE  <<q[i], q[j]>> \in rel
      OBVIOUS
    <3>1. Len(q) \in Nat
      BY <1>3, SeqFacts
    <3>2. now \in Int /\ q[i].at \in Int
      <4>1. q[i].at \in Times
        <5> HIDE DEF Times
        <5> QED BY <2>2 DEF EntrySet
      <4> QED BY <1>3, <4>1, TimesType
    <3>3. i # j
      BY <3>2
    <3>4. q[i].trans # q[j].trans
      <4>1. i < j \/ j < i
        BY <3>1, <3>3
      <4> QED BY <4>1 DEF Inv, QueuesHold
    <3> QED BY <2>2, <3>4
  <2>6. e = [trans |-> t1, at |-> now] /\ t1 \in Nat
    BY <1>7 DEF e
  <2>7. Grown(r, q, e, rel)
    <3>1. Joins(q, e, rel) /\ e.trans = t1 /\ e.at = now
      BY <2>3, <2>4, <2>5, <2>6 DEF Joins
    <3> HIDE DEF rel, q, t1
    <3> QED BY <1>3, <2>6, <3>1, Notified
  <2> HIDE DEF r
  <2>8. \A i, j \in 1 .. Len(r) : i < j => r[i].trans # r[j].trans
    BY <2>7 DEF rel, Grown
  <2> HIDE DEF rel
  <2> QED BY <2>1, <2>7, <2>8 DEF Grown
<1> HIDE DEF r
<1>11. QueuesHold'
  <2>1. \A i \in 1 .. Len(complete_peq) : Scheduled(complete_peq[i])'
    <3> TAKE i \in 1 .. Len(complete_peq)
    <3> DEFINE e == complete_peq[i]
    <3>1. Scheduled(e)
      BY DEF Inv, QueuesHold
    <3>2. e' = e /\ e.trans \in 1 .. n /\ e.trans \in 1 .. t1
      BY <1>1, <1>7, <3>1 DEF Scheduled
    <3> HIDE DEF e
    <3>3. Scheduled(e)'
      BY <1>1, <1>5, <1>6, <3>1, <3>2 DEF Scheduled, Soonest
    <3> QED BY <3>3 DEF e
  <2>2. \A i \in 1 .. Len(r) : r[i].trans \in 1 .. t1
    <3> TAKE i \in 1 .. Len(r)
    <3>1. CASE r[i].trans = t1
      BY <1>7, <3>1
    <3>2. CASE \E j \in 1 .. Len(q) : r[i] = q[j]
      <4>1. PICK j \in 1 .. Len(q) : r[i] = q[j]
        BY <3>2
      <4>2. q[j].trans \in 1 .. n
        BY <1>9
      <4> HIDE DEF n, q
      <4> QED BY <1>7, <4>1, <4>2
    <3> QED BY <1>10, <3>1, <3>2
  <2> QED BY <1>1, <1>3, <1>5, <1>10, <2>1, <2>2 DEF Inv, QueuesHold
<1>12. \A t \in 1 .. n : (\E i \in 1 .. Len(r) : r[i].trans = t) => \E j \in 1 .. Len(q) : q[j].trans = t
  <2> SUFFICES ASSUME NEW t \in 1 .. n, NEW i \in 1 .. Len(r), r[i].trans = t
               PROVE  \E j \in 1 .. Len(q) : q[j].trans = t
    OBVIOUS
  <2>1. t # t1
    BY <1>7
  <2>2. PICK j \in 1 .. Len(q) : r[i] = q[j]
    BY <1>10, <2>1
  <2> QED BY <2>2
<1>13. \A t \in 1 .. n : (\E j \in 1 .. Len(q) : q[j].trans = t) => \E i \in 1 .. Len(r) : r[i].trans = t
  BY <1>10
<1>14. ArrivalsHold'
  <2> SUFFICES ASSUME NEW t \in 1 .. t1
               PROVE  /\ Waits(t)' => payload'[t].pkt = 0 /\ arrived'[t] = <<>>
                      /\ ~ Waits(t)' /\ arrived'[t] = <<>> => InNetwork(t)'
                      /\ arrived'[t] \in {<<>>, <<payload'[t].finish>>}
                      /\ arrived'[t] # <<>> => payload'[t].finish >= Soonest(payload[t])'
    BY <1>5 DEF ArrivalsHold
  <2>1. Waits(t)' <=> \E i \in 1 .. Len(r) : r[i].trans = t
    BY <1>1 DEF Waits
  <2>2. CASE t = t1
    BY <1>5, <1>6, <1>10, <2>1, <2>2 DEF y
  <2>3. CASE t \in 1 .. n
    <3>1. Waits(t)' <=> Waits(t)
      BY <1>12, <1>13, <2>1, <2>3 DEF Waits
    <3>2. payload'[t] = payload[t] /\ arrived'[t] = arrived[t] /\ pkt' = pkt
      BY <1>1, <1>5, <1>6, <2>3
    <3> QED BY <2>3, <3>1, <3>2 DEF Inv, ArrivalsHold, InNetwork, Soonest
  <2> QED BY <1>7, <2>2, <2>3
<1>15. \A o \in DOMAIN pkt : pkt[o].trans \in 1 .. n
  BY PacketFacts DEF Inv
<1>16. PacketsHold'
  <2>1. \A o \in DOMAIN pkt : IsPacket(pkt[o])'
    <3> TAKE o \in DOMAIN pkt
    <3> DEFINE p == pkt[o]
    <3>1. IsPacket(p) /\ p.trans \in 1 .. n /\ p' = p
      BY <1>1 DEF Inv, PacketsHold, IsPacket
    <3> HIDE DEF p
    <3>2. p.trans \in 1 .. t1
      BY <1>7, <3>1
    <3>3. IsPacket(p)'
      BY <1>5, <3>1, <3>2 DEF IsPacket
    <3> QED BY <3>3 DEF p
  <2> QED BY <1>1, <2>1 DEF Inv, PacketsHold, Listed
<1>17. Live' = Live
  BY <1>1, <1>5, <1>6, <1>15 DEF Live
<1>18. PoolHolds' /\ StackHolds'
  BY <1>1, <1>2, <1>17 DEF Inv, PoolHolds, StackHolds, Involved, Listed
<1>19. PortsHold'
  <2>1. \A x \in PortsInUse : \A k \in 1 .. Len(ports[x].passed) : IsThere(ports[x].passed[k], x)'
    <3> TAKE x \in PortsInUse
    <3> TAKE k \in 1 .. Len(ports[x].passed)
    <3>1. IsThere(ports[x].passed[k], x)
      BY DEF Inv, PortsHold
    <3> QED BY <1>1, <1>17, <3>1 DEF IsThere
  <2> QED BY <1>1, <2>1 DEF Inv, PortsHold
<1>20. TimesHold'
  <2>1. Live' \ Range(Unfinished_Packets') = Live \ Range(Unfinished_Packets)
    BY <1>2, <1>17
  <2>2. \A a \in Live \ Range(Unfinished_Packets) : OnItsWay(pkt[a])'
    BY <1>1 DEF Inv, TimesHold, OnItsWay
  <2>3. OneAtAPort'
    BY <1>1, <2>1 DEF Inv, TimesHold, OneAtAPort, Hops, Rx
  <2> QED BY <2>1, <2>2, <2>3 DEF TimesHold
<1>21. ThreadsHold' /\ ClaimsHold'
  BY <1>1, <1>2, ClaimsKept DEF Inv, ThreadsHold
<1> QED BY <1>8, <1>11, <1>14, <1>16, <1>18, <1>19, <1>20, <1>21 DEF Inv

\* The objects after one of them has become p, the first that is free or a new one.
LEMMA ObjectTaken ==
  ASSUME Listed(pkt), PoolHolds, NEW o, NEW p,
         o = IF Deleted_Packets = <<>> THEN Len(pkt) + 1 ELSE Head(Deleted_Packets),
         pkt' = IF Deleted_Packets = <<>> THEN Append(pkt, p) ELSE [pkt EXCEPT ![o] = p],
         Deleted_Packets' = StillFree(Deleted_Packets)
  PROVE  /\ Listed(pkt)' /\ o \in Nat /\ o \notin Live /\ o # 0
         /\ DOMAIN pkt' = DOMAIN pkt \union {o} /\ pkt'[o] = p
         /\ \A a \in DOMAIN pkt : a # o => pkt'[a] = pkt[a]
         /\ Deleted_Packets' \in Seq(Nat) /\ IsInjective(Deleted_Packets')
         /\ Range(Deleted_Packets') = Range(Deleted_Packets) \ {o}
<1> DEFINE d == Deleted_Packets
           n == Len(pkt)
           s == pkt'
           M == Range(pkt) \union {p}
<1>1. pkt \in Seq(Range(pkt)) /\ d \in Seq(Nat) /\ IsInjective(d)
  BY DEF Listed, PoolHolds
<1>2. n \in Nat /\ DOMAIN pkt = 1 .. n /\ \A a \in 1 .. n : pkt[a] \in Range(pkt)
  BY <1>1, SeqFacts
<1>3. pkt \in Seq(M) /\ p \in M
  BY <1>1, SeqMonotonic
<1> HIDE DEF M
<1>4. CASE d = <<>>
  <2>1. o = n + 1 /\ s = Append(pkt, p) /\ Deleted_Packets' = <<>>
    BY <1>4 DEF StillFree
  <2>2. s \in Seq(M) /\ Len(s) = n + 1 /\ s[n + 1] = p /\ \A a \in 1 .. n : s[a] = pkt[a]
    BY <1>3, <2>1, AppendProperties
  <2> HIDE DEF s
  <2>3. Listed(s)
    BY <2>2, ListedFacts
  <2>4. DOMAIN s = 1 .. n + 1
    BY <2>2, SeqFacts
  <2>5. o \notin Live
    BY <1>2, <2>1, LiveFacts
  <2>6. Range(d) = {} /\ o \notin Range(d)
    BY <1>4 DEF Range
  <2>7. DOMAIN s = DOMAIN pkt \union {o}
    BY <1>2, <2>1, <2>4
  <2>8. \A a \in DOMAIN pkt : a # o => s[a] = pkt[a]
    BY <1>2, <2>2
  <2>9. /\ Deleted_Packets' \in Seq(Nat) /\ IsInjective(Deleted_Packets')
        /\ Range(Deleted_Packets') = Range(Deleted_Packets) \ {o}
    <3>1. Deleted_Packets' = d
      BY <1>4, <2>1
    <3> QED BY <1>1, <2>6, <3>1
  <2>10. o \in Nat /\ o # 0 /\ s[o] = p
    BY <1>2, <2>1, <2>2
  <2> QED BY <2>3, <2>5, <2>7, <2>8, <2>9, <2>10 DEF s, Listed
<1>5. CASE d # <<>>
  <2>1. o = Head(d) /\ s = [pkt EXCEPT ![o] = p] /\ Deleted_Packets' = Tail(d)
    BY <1>5 DEF StillFree
  <2> HIDE DEF d
  <2>2. /\ Head(d) = d[1] /\ Head(d) \in Nat /\ 1 \in 1 .. Len(d)
        /\ Tail(d) \in Seq(Nat) /\ Len(Tail(d)) = Len(d) - 1
        /\ \A i \in 1 .. Len(d) - 1 : Tail(d)[i] = d[i + 1] /\ i + 1 \in 1 .. Len(d)
    BY <1>1, <1>5, TailFacts
  <2>3. Len(d) \in Nat /\ DOMAIN d = 1 .. Len(d) /\ \A i \in 1 .. Len(d) : d[i] \in Range(d)
    BY <1>1, SeqFacts
  <2>4. o \in Range(d)
    BY <2>1, <2>2, <2>3
  <2>5. o \in DOMAIN pkt /\ o \notin Live
    BY <2>4 DEF PoolHolds, d
  <2>6. DOMAIN s = DOMAIN pkt /\ s[o] = p /\ \A a \in DOMAIN pkt : a # o => s[a] = pkt[a]
    BY <2>1, <2>5
  <2>7. Listed(s)
    <3>1. s = [a \in 1 .. n |-> IF a = o THEN p ELSE pkt[a]]
      BY <1>2, <2>1
    <3>2. \A a \in 1 .. n : pkt[a] \in M
      BY <1>3, SeqFacts
    <3>3. s \in [1 .. n -> M]
      BY <1>3, <3>1, <3>2
    <3> HIDE DEF s
    <3>4. s \in Seq(M)
      BY <1>2, <3>3, SeqDef
    <3> QED BY <3>4, ListedFacts
  <2> DEFINE t == Tail(d)
  <2>8. t \in Seq(Nat) /\ DOMAIN t = 1 .. Len(d) - 1 /\ \A i \in 1 .. Len(d) - 1 : t[i] = d[i + 1]
    <3> HIDE DEF t
    <3>1. t \in Seq(Nat) /\ Len(t) = Len(d) - 1 /\ \A i \in 1 .. Len(d) - 1 : t[i] = d[i + 1]
      BY <2>2 DEF t
    <3> QED BY <3>1, SeqFacts
  <2> HIDE DEF t
  <2>9. IsInjective(t)
    <3> SUFFICES ASSUME NEW i \in 1 .. Len(d) - 1, NEW j \in 1 .. Len(d) - 1, t[i] = t[j] PROVE i = j
      BY <2>8 DEF IsInjective
    <3>1. d[i + 1] = d[j + 1] /\ i + 1 \in 1 .. Len(d) /\ j + 1 \in 1 .. Len(d)
      BY <2>2, <2>8
    <3>2. i + 1 = j + 1
      BY <1>1, <2>3, <3>1 DEF IsInjective
    <3> QED BY <3>2
  <2>10. Range(t) = Range(d) \ {o}
    <3>1. Range(t) = {t[i] : i \in 1 .. Len(d) - 1} /\ Range(d) = {d[i] : i \in 1 .. Len(d)}
      BY <2>3, <2>8 DEF Range
    <3>2. ASSUME NEW i \in 1 .. Len(d) - 1 PROVE t[i] \in Range(d) \ {o}
      <4>1. t[i] = d[i + 1] /\ i + 1 \in 1 .. Len(d) /\ i + 1 # 1
        BY <2>2, <2>8, SMTT(40)
      <4>2. d[i + 1] # d[1]
        BY <1>1, <2>2, <2>3, <4>1 DEF IsInjective
      <4> QED BY <2>1, <2>2, <2>3, <4>1, <4>2
    <3>3. ASSUME NEW i \in 1 .. Len(d), d[i] # o PROVE d[i] \in Range(t)
      <4>1. i # 1
        BY <2>1, <2>2, <3>3
      <4>2. i - 1 \in 1 .. Len(d) - 1 /\ i - 1 + 1 = i
        BY <2>3, <4>1
      <4>3. t[i - 1] = d[i]
        BY <2>8, <4>2
      <4> QED BY <3>1, <4>2, <4>3
    <3> QED BY <3>1, <3>2, <3>3
  <2>11. o \in Nat /\ o # 0
    <3>1. o \in 1 .. n
      BY <1>2, <2>5
    <3> QED BY <1>2, <3>1
  <2> HIDE DEF s
  <2>12. DOMAIN s = DOMAIN pkt \union {o}
    BY <2>5, <2>6
  <2> QED BY <2>1, <2>5, <2>6, <2>7, <2>8, <2>9, <2>10, <2>11, <2>12 DEF s, t, d, Listed
<1> QED BY <1>4, <1>5

\* What is registered at a port, d, is what was there, c, and o at its place.
Enlisted(d, c, o, p, x) ==
  /\ d \in PortSet /\ d.released = c.released
  /\ \A k \in 1 .. Len(d.passed) :
       \/ k \in 1 .. Len(c.passed) /\ d.passed[k] = c.passed[k]
       \/ \E i \in Hops(p) : Rx(p)[i] = x /\ d.passed[k] = [pkt |-> o, at |-> i]

\* A packet that is registered at its ports.
LEMMA PortRegistered ==
  ASSUME NEW ps \in [PortsInUse -> PortSet], NEW o \in Nat, NEW p, NEW n, HasPath(p, n), NEW x \in PortsInUse
  PROVE  Enlisted(Registered(ps, o, p)[x], ps[x], o, p, x)
<1> DEFINE r == Registered(ps, o, p)
           c == ps[x]
           e == [pkt |-> o, at |-> CHOOSE i \in Hops(p) : i > 1 /\ Rx(p)[i] = x]
           s == c.passed
           l == c.last
           g == c.total
           f == c.released
           Hop == [pkt : Nat, at : Nat]
<1>2. r[x] = IF \E i \in Hops(p) : i > 1 /\ Rx(p)[i] = x THEN [c EXCEPT !.passed = Append(s, e)] ELSE c
  BY DEF Registered
<1>3. /\ c \in PortSet /\ s \in Seq(Hop) /\ f \in Seq([id : Nat, time : Times])
      /\ l \in LastSet /\ g \in Seq(LastSet) /\ c = [passed |-> s, last |-> l, total |-> g, released |-> f]
  BY DEF PortSet
<1>4. CASE ~ \E i \in Hops(p) : i > 1 /\ Rx(p)[i] = x
  <2>1. r[x] = c
    BY <1>2, <1>4
  <2> QED BY <1>3, <2>1 DEF Enlisted
<1>5. CASE \E i \in Hops(p) : i > 1 /\ Rx(p)[i] = x
  <2> DEFINE i == CHOOSE i \in Hops(p) : i > 1 /\ Rx(p)[i] = x
  <2>1. i \in Hops(p) /\ Rx(p)[i] = x
    BY <1>5
  <2>2. e = [pkt |-> o, at |-> i]
    OBVIOUS
  <2> HIDE DEF i, e
  <2>3. i \in Nat
    BY <2>1 DEF HasPath, Hops
  <2>4. e \in Hop
    BY <2>2, <2>3
  <2> HIDE DEF r, c, Hop, s, l, g, f
  <2> DEFINE t == Append(s, e)
  <2>5. /\ t \in Seq(Hop) /\ Len(t) = Len(s) + 1 /\ t[Len(s) + 1] = e
        /\ \A k \in 1 .. Len(s) : t[k] = s[k]
    BY <1>3, <2>4, AppendProperties
  <2>6. Len(s) \in Nat
    BY <1>3, SeqFacts
  <2>7. r[x] = [c EXCEPT !.passed = t]
    BY <1>2, <1>5
  <2> HIDE DEF t
  <2>8. r[x] = [passed |-> t, last |-> l, total |-> g, released |-> f]
    BY <1>3, <2>7
  <2>9. r[x] \in PortSet /\ r[x].released = f /\ r[x].passed = t
    BY <1>3, <2>5, <2>8 DEF PortSet, Hop
  <2>10. \A k \in 1 .. Len(t) : (k \in 1 .. Len(s) /\ t[k] = s[k]) \/ t[k] = e
    BY <2>5, <2>6
  <2> QED BY <2>1, <2>2, <2>9, <2>10 DEF r, c, s, f, Enlisted
<1> QED BY <1>4, <1>5

\* The first guess has the path of the packet.
LEMMA GuessIs ==
  ASSUME NEW t
  PROVE  LET p == Guessed(NewPacket(t))
             y == payload[t]
         IN  p = [id |-> t, trans |-> t, rx |-> RxPath[<<y.src, y.dst>>], tx |-> TxPath[<<y.src, y.dst>>],
                  flits |-> (y.size + 8) \div 4, send |-> y.send, finished |-> 0, reCompute |-> TRUE,
                  header |-> p.header, tail |-> p.tail]
<1> DEFINE q == NewPacket(t)
           y == payload[t]
           p == Guessed(q)
           r == RxPath[<<y.src, y.dst>>]
           x == TxPath[<<y.src, y.dst>>]
           f == (y.size + 8) \div 4
<1>1. q = [id |-> t, trans |-> t, rx |-> r, tx |-> x, flits |-> f, send |-> y.send,
           finished |-> 0, reCompute |-> TRUE, header |-> <<>>, tail |-> <<>>]
  BY DEF NewPacket
<1>2. PICK h, l : p = [q EXCEPT !.header = h, !.tail = l]
  BY DEF Guessed
<1> HIDE DEF p, q, r, x, f, y
<1>3. p = [id |-> t, trans |-> t, rx |-> r, tx |-> x, flits |-> f, send |-> y.send,
           finished |-> 0, reCompute |-> TRUE, header |-> h, tail |-> l]
  BY <1>1, <1>2
<1>4. p.header = h /\ p.tail = l
  BY <1>3
<1> QED BY <1>3, <1>4 DEF p, q, r, x, f, y

\* A packet gets an object that is not in use, and is registered at its ports.
LEMMA AcceptKeeps == Inv /\ Accept => Inv'
<1> SUFFICES ASSUME Inv, Accept PROVE Inv'
  OBVIOUS
<1> DEFINE q == pkt_peq
           t == Head(q).trans
           d == Deleted_Packets
           o == IF d = <<>> THEN Len(pkt) + 1 ELSE Head(d)
           p == Guessed(NewPacket(t))
           u == Unfinished_Packets
           n == Len(payload)
<1>1. /\ main.state = "accept" /\ q # <<>>
      /\ pkt' = IF d = <<>> THEN Append(pkt, p) ELSE [pkt EXCEPT ![o] = p]
      /\ ports' = Registered(ports, o, p)
      /\ payload' = [payload EXCEPT ![t].pkt = o]
      /\ Unfinished_Packets' = Append(u, o)
      /\ Deleted_Packets' = StillFree(d) /\ pkt_peq' = Tail(q) /\ newPacket_num' = newPacket_num + 1
      /\ UNCHANGED <<now, complete_peq, recompute_peq, arrived, main, sender, Finish_Packets,
                     stack, claims, unset>>
  BY DEF Accept, IsDue
<1>2. /\ payload \in Seq(PayloadSet) /\ q \in Seq(EntrySet) /\ n \in Nat
      /\ \A i \in 1 .. n : FlowOf(payload[i])
      /\ \A i \in 1 .. Len(q) : q[i].trans \in 1 .. n
      /\ \A i, j \in 1 .. Len(q) : i < j => q[i].trans # q[j].trans
  <2>1. payload \in Seq(PayloadSet)
    BY DEF Inv, PayloadsHold
  <2> QED BY <2>1, SeqFacts DEF Inv, PayloadsHold, QueuesHold
<1>3. /\ Head(q) = q[1] /\ 1 \in 1 .. Len(q) /\ Tail(q) \in Seq(EntrySet) /\ Len(Tail(q)) = Len(q) - 1
      /\ \A i \in 1 .. Len(q) - 1 : Tail(q)[i] = q[i + 1] /\ i + 1 \in 1 .. Len(q)
      /\ Len(q) \in Nat
  <2> HIDE DEF q
  <2> QED BY <1>1, <1>2, TailFacts, SeqFacts
<1>4. t \in 1 .. n /\ Waits(t) /\ payload[t].pkt = 0 /\ arrived[t] = <<>>
  <2>1. t \in 1 .. n /\ Waits(t)
    BY <1>2, <1>3 DEF Waits
  <2> HIDE DEF t
  <2> QED BY <2>1 DEF Inv, ArrivalsHold
<1>5. /\ Listed(pkt)' /\ o \in Nat /\ o \notin Live /\ o # 0
      /\ DOMAIN pkt' = DOMAIN pkt \union {o} /\ pkt'[o] = p
      /\ \A a \in DOMAIN pkt : a # o => pkt'[a] = pkt[a]
      /\ Deleted_Packets' \in Seq(Nat) /\ IsInjective(Deleted_Packets')
      /\ Range(Deleted_Packets') = Range(d) \ {o}
  <2> DEFINE v == p
             c == o
  <2>1. Listed(pkt) /\ PoolHolds
    BY DEF Inv, PacketsHold
  <2>2. c = IF Deleted_Packets = <<>> THEN Len(pkt) + 1 ELSE Head(Deleted_Packets)
    OBVIOUS
  <2>3. /\ pkt' = IF Deleted_Packets = <<>> THEN Append(pkt, v) ELSE [pkt EXCEPT ![c] = v]
        /\ Deleted_Packets' = StillFree(Deleted_Packets)
    BY <1>1
  <2> HIDE DEF p, o, v, c
  <2>4. /\ Listed(pkt)' /\ c \in Nat /\ c \notin Live /\ c # 0
        /\ DOMAIN pkt' = DOMAIN pkt \union {c} /\ pkt'[c] = v
        /\ \A a \in DOMAIN pkt : a # c => pkt'[a] = pkt[a]
        /\ Deleted_Packets' \in Seq(Nat) /\ IsInjective(Deleted_Packets')
        /\ Range(Deleted_Packets') = Range(Deleted_Packets) \ {c}
    BY <2>1, <2>2, <2>3, ObjectTaken, ZenonT(40)
  <2> QED BY <2>4 DEF c, v
<1>6. /\ p = [id |-> t, trans |-> t, rx |-> RxPath[<<payload[t].src, payload[t].dst>>],
              tx |-> TxPath[<<payload[t].src, payload[t].dst>>],
              flits |-> (payload[t].size + 8) \div 4, send |-> payload[t].send,
              finished |-> 0, reCompute |-> TRUE, header |-> p.header, tail |-> p.tail]
  BY GuessIs
<1>7. p.trans = t /\ p.id = t /\ p.reCompute = TRUE
  <2> HIDE DEF p, t
  <2> QED BY <1>6
<1> HIDE DEF p, t, o
<1>8. /\ payload' \in Seq(PayloadSet) /\ Len(payload') = n /\ payload'[t].pkt = o
      /\ \A i \in 1 .. n : /\ i # t => payload'[i] = payload[i]
                           /\ payload'[i].src = payload[i].src /\ payload'[i].dst = payload[i].dst
                           /\ payload'[i].size = payload[i].size /\ payload'[i].send = payload[i].send
                           /\ payload'[i].finish = payload[i].finish
  <2>1. payload' = [payload EXCEPT ![t] = [payload[t] EXCEPT !.pkt = o]]
    BY <1>1
  <2> DEFINE y == payload[t]
             z == [y EXCEPT !.pkt = o]
             s == payload'
  <2>2. y \in PayloadSet
    BY <1>2, <1>4, SeqFacts
  <2> HIDE DEF y
  <2>3. z \in PayloadSet /\ z.pkt = o /\ z.src = y.src /\ z.dst = y.dst /\ z.size = y.size
        /\ z.send = y.send /\ z.finish = y.finish
    <3> HIDE DEF Times, PE
    <3> QED BY <1>5, <2>2 DEF PayloadSet
  <2> HIDE DEF z
  <2>4. DOMAIN payload = 1 .. n /\ \A i \in 1 .. n : payload[i] \in PayloadSet
    BY <1>2, SeqFacts
  <2>5. s = [i \in 1 .. n |-> IF i = t THEN z ELSE payload[i]]
    BY <1>4, <2>1, <2>4 DEF z, y
  <2>6. s \in [1 .. n -> PayloadSet]
    BY <2>3, <2>4, <2>5
  <2>7. s \in Seq(PayloadSet) /\ Len(s) = n
    <3>1. DOMAIN s = 1 .. n
      BY <2>5
    <3> HIDE DEF s, n
    <3>2. s \in Seq(PayloadSet)
      BY <1>2, <2>6, SeqDef
    <3> QED BY <1>2, <3>1, <3>2, LenProperties
  <2>8. s[t] = z /\ \A i \in 1 .. n : i # t => s[i] = payload[i]
    BY <1>4, <2>5
  <2> HIDE DEF s
  <2> QED BY <2>3, <2>7, <2>8 DEF s, y
<1>9. PayloadsHold'
  BY <1>1, <1>2, <1>8 DEF Inv, PayloadsHold, FlowOf
<1>10. \A a \in DOMAIN pkt : pkt[a].trans \in 1 .. n /\ a >= 1
  BY PacketFacts DEF Inv
<1>11. PacketsHold'
  <2> SUFFICES ASSUME NEW a \in DOMAIN pkt' PROVE IsPacket(pkt[a])'
    BY <1>5 DEF PacketsHold
  <2>1. CASE a = o
    <3>1. pkt'[a] = p
      BY <1>5, <2>1
    <3>2. /\ p.rx = RxPath[<<payload[t].src, payload[t].dst>>]
          /\ p.tx = TxPath[<<payload[t].src, payload[t].dst>>]
          /\ p.flits = (payload[t].size + 8) \div 4 /\ p.send = payload[t].send /\ p.finished = 0
      BY <1>6
    <3>3. payload'[t].src = payload[t].src /\ payload'[t].dst = payload[t].dst
          /\ payload'[t].size = payload[t].size /\ payload'[t].send = payload[t].send
          /\ t \in 1 .. Len(payload')
      BY <1>4, <1>8
    <3>4. p = [id |-> p.id, trans |-> p.trans, rx |-> p.rx, tx |-> p.tx, flits |-> p.flits,
               send |-> p.send, finished |-> p.finished, reCompute |-> p.reCompute,
               header |-> p.header, tail |-> p.tail]
      BY <1>6, <1>7, <3>2
    <3> QED BY <1>7, <3>1, <3>2, <3>3, <3>4, ZenonT(40) DEF IsPacket
  <2>2. CASE a # o
    <3>1. a \in DOMAIN pkt /\ pkt'[a] = pkt[a]
      BY <1>5, <2>2
    <3>2. IsPacket(pkt[a]) /\ pkt[a].trans \in 1 .. n
      BY <1>10, <3>1 DEF Inv, PacketsHold
    <3> HIDE DEF n
    <3> QED BY <1>8, <3>1, <3>2 DEF IsPacket, n
  <2> QED BY <2>1, <2>2
<1>12. Live' = Live \union {o}
  <2>1. o \in Live'
    <3>1. arrived'[t] = <<>>
      BY <1>1, <1>4
    <3> QED BY <1>5, <1>7, <1>8, <3>1 DEF Live
  <2>2. ASSUME NEW a \in DOMAIN pkt, a # o PROVE a \in Live' <=> a \in Live
    <3>1. pkt'[a] = pkt[a] /\ a \in DOMAIN pkt' /\ pkt[a].trans \in 1 .. n /\ a >= 1
      BY <1>5, <1>10, <2>2
    <3>2. CASE pkt[a].trans = t
      <4>1. a \notin Live
        BY <1>4, <3>1, <3>2 DEF Live
      <4>2. a \notin Live'
        BY <1>8, <2>2, <3>1, <3>2 DEF Live
      <4> QED BY <4>1, <4>2
    <3>3. CASE pkt[a].trans # t
      <4>1. payload'[pkt[a].trans] = payload[pkt[a].trans] /\ arrived' = arrived
        BY <1>1, <1>8, <3>1, <3>3
      <4> QED BY <2>2, <3>1, <4>1 DEF Live
    <3> QED BY <3>2, <3>3
  <2>3. Live \subseteq DOMAIN pkt /\ Live' \subseteq DOMAIN pkt'
    BY DEF Live
  <2> QED BY <1>5, <2>1, <2>2, <2>3
<1> DEFINE v == Append(u, o)
<1>13. u \in Seq(Nat) /\ IsInjective(u) /\ Range(u) \subseteq Live
  BY DEF Inv, PoolHolds
<1>14. v \in Seq(Nat) /\ IsInjective(v) /\ Range(v) = Range(u) \union {o}
  <2> HIDE DEF u, v
  <2>1. Len(u) \in Nat /\ DOMAIN u = 1 .. Len(u) /\ \A i \in 1 .. Len(u) : u[i] \in Range(u)
    BY <1>13, SeqFacts
  <2>2. /\ v \in Seq(Nat) /\ Len(v) = Len(u) + 1 /\ v[Len(u) + 1] = o
        /\ \A i \in 1 .. Len(u) : v[i] = u[i]
    BY <1>5, <1>13, AppendProperties DEF v
  <2>3. DOMAIN v = 1 .. Len(u) + 1
    BY <2>2, SeqFacts
  <2>4. Range(v) = Range(u) \union {o}
    BY <2>1, <2>2, <2>3, SMTT(40) DEF Range
  <2>5. o \notin Range(u)
    BY <1>5, <1>13
  <2>6. IsInjective(v)
    BY <1>13, <2>1, <2>2, <2>3, <2>5, SMTT(40) DEF IsInjective
  <2> QED BY <2>2, <2>4, <2>6
<1> HIDE DEF v
<1>15. PoolHolds'
  <2>1. Unfinished_Packets' = v
    BY <1>1 DEF v
  <2>2. Finish_Packets' = <<>>
    BY <1>1 DEF Inv, PoolHolds
  <2>3. Live \subseteq DOMAIN pkt /\ Live \intersect Range(d) = {} /\ DOMAIN pkt = Live \union Range(d)
    BY DEF Inv, PoolHolds
  <2>4. Live' \intersect Range(Deleted_Packets') = {}
    BY <1>5, <1>12, <2>3
  <2>5. DOMAIN pkt' = Live' \union Range(Deleted_Packets')
    BY <1>5, <1>12, <2>3
  <2>6. ASSUME NEW a \in Live' PROVE pkt'[a].reCompute <=> a \in Range(v)
    <3>1. CASE a = o
      BY <1>5, <1>7, <1>14, <3>1
    <3>2. CASE a # o
      <4>1. a \in Live /\ pkt'[a] = pkt[a]
        BY <1>5, <1>12, <2>3, <3>2
      <4>2. pkt[a].reCompute <=> a \in Range(u)
        BY <4>1 DEF Inv, PoolHolds
      <4> QED BY <1>14, <3>2, <4>1, <4>2
    <3> QED BY <3>1, <3>2
  <2>7. Range(v) \subseteq Live'
    BY <1>12, <1>13, <1>14
  <2> HIDE DEF Live
  <2> QED BY <1>5, <1>14, <2>1, <2>2, <2>4, <2>5, <2>6, <2>7 DEF PoolHolds
<1> DEFINE r == Tail(q)
<1>16. \A i \in 1 .. n : (\E k \in 1 .. Len(r) : r[k].trans = i) <=> Waits(i) /\ i # t
  <2>1. t = q[1].trans
    BY <1>3 DEF t
  <2>2. ASSUME NEW k \in 1 .. Len(r) PROVE r[k].trans # t /\ \E j \in 1 .. Len(q) : q[j] = r[k]
    <3>1. r[k] = q[k + 1] /\ k + 1 \in 1 .. Len(q) /\ 1 < k + 1
      BY <1>3
    <3>2. q[1].trans # q[k + 1].trans
      BY <1>2, <1>3, <3>1
    <3> QED BY <2>1, <3>1, <3>2
  <2>3. ASSUME NEW j \in 1 .. Len(q), q[j].trans # t PROVE \E k \in 1 .. Len(r) : r[k] = q[j]
    <3>1. j # 1
      BY <2>1, <2>3
    <3>2. j - 1 \in 1 .. Len(q) - 1 /\ j - 1 + 1 = j
      BY <1>3, <3>1
    <3> QED BY <1>3, <3>2
  <2> TAKE i \in 1 .. n
  <2> HIDE DEF r, q, n
  <2>4. ASSUME NEW k \in 1 .. Len(r), r[k].trans = i PROVE Waits(i) /\ i # t
    BY <2>2, <2>4 DEF Waits, q
  <2>5. ASSUME Waits(i), i # t PROVE \E k \in 1 .. Len(r) : r[k].trans = i
    <3>1. PICK j \in 1 .. Len(q) : q[j].trans = i
      BY <2>5 DEF Waits, q
    <3>2. PICK k \in 1 .. Len(r) : r[k] = q[j]
      BY <2>3, <2>5, <3>1
    <3> QED BY <3>1, <3>2
  <2> QED BY <2>4, <2>5
<1>17. QueuesHold'
  <2>1. ASSUME NEW k \in 1 .. Len(complete_peq) PROVE Scheduled(complete_peq[k])'
    <3> DEFINE e == complete_peq[k]
    <3>1. Scheduled(e) /\ e' = e
      BY <1>1 DEF Inv, QueuesHold
    <3> HIDE DEF e
    <3>2. e.trans \in 1 .. n /\ arrived[e.trans] = <<>> /\ e.at >= now /\ e.at <= payload[e.trans].finish
          /\ payload[e.trans].finish >= Soonest(payload[e.trans]) /\ payload[e.trans].pkt # 0
      BY <3>1 DEF Scheduled
    <3>3. payload'[e.trans].pkt # 0
      BY <1>5, <1>8, <3>2
    <3>4. /\ payload'[e.trans].finish = payload[e.trans].finish
          /\ Soonest(payload[e.trans])' = Soonest(payload[e.trans])
      BY <1>8, <3>1, <3>2 DEF Soonest
    <3>5. arrived' = arrived /\ now' = now
      BY <1>1
    <3>6. Scheduled(e)'
      BY <1>8, <3>1, <3>2, <3>3, <3>4, <3>5 DEF Scheduled
    <3> QED BY <3>6 DEF e
  <2>2. \A k \in 1 .. Len(r) : r[k].trans \in 1 .. n
    BY <1>2, <1>3
  <2>3. \A i, j \in 1 .. Len(r) : i < j => r[i].trans # r[j].trans
    <3> SUFFICES ASSUME NEW i \in 1 .. Len(r), NEW j \in 1 .. Len(r), i < j PROVE r[i].trans # r[j].trans
      OBVIOUS
    <3>1. r[i] = q[i + 1] /\ r[j] = q[j + 1] /\ i + 1 \in 1 .. Len(q) /\ j + 1 \in 1 .. Len(q) /\ i + 1 < j + 1
      BY <1>3
    <3> QED BY <1>2, <3>1
  <2> HIDE DEF r, n
  <2>4. pkt_peq' = r /\ r \in Seq(EntrySet)
    BY <1>1, <1>3 DEF r
  <2>5. /\ now \in Times /\ complete_peq \in Seq(EntrySet) /\ recompute_peq = <<>>
        /\ \A i, j \in 1 .. Len(complete_peq) : i < j =>
             complete_peq[i].at <= complete_peq[j].at /\ complete_peq[i] # complete_peq[j]
    BY DEF Inv, QueuesHold
  <2>6. now' = now /\ complete_peq' = complete_peq /\ recompute_peq' = recompute_peq /\ Len(payload') = n
    BY <1>1, <1>8
  <2> QED BY <2>1, <2>2, <2>3, <2>4, <2>5, <2>6 DEF QueuesHold
<1>18. ArrivalsHold'
  <2> SUFFICES ASSUME NEW i \in 1 .. n
               PROVE  /\ Waits(i)' => payload'[i].pkt = 0 /\ arrived'[i] = <<>>
                      /\ ~ Waits(i)' /\ arrived'[i] = <<>> => InNetwork(i)'
                      /\ arrived'[i] \in {<<>>, <<payload'[i].finish>>}
                      /\ arrived'[i] # <<>> => payload'[i].finish >= Soonest(payload[i])'
    BY <1>8 DEF ArrivalsHold
  <2>1. Waits(i)' <=> \E k \in 1 .. Len(r) : r[k].trans = i
    BY <1>1 DEF Waits
  <2>2. arrived' = arrived /\ Soonest(payload[i])' = Soonest(payload[i])
        /\ payload'[i].finish = payload[i].finish
    BY <1>1, <1>8 DEF Soonest
  <2>3. CASE i = t
    <3>1. ~ Waits(i)' /\ InNetwork(i)'
      BY <1>5, <1>7, <1>8, <1>16, <2>1, <2>3 DEF InNetwork
    <3> QED BY <1>4, <2>2, <2>3, <3>1
  <2>4. CASE i # t
    <3>1. Waits(i)' <=> Waits(i)
      BY <1>16, <2>1, <2>4
    <3>2. payload'[i] = payload[i]
      BY <1>8, <2>4
    <3>3. ASSUME InNetwork(i), arrived[i] = <<>> PROVE InNetwork(i)'
      <4> DEFINE b == payload[i].pkt
      <4>1. b \in DOMAIN pkt /\ pkt[b].trans = i
        BY <3>3 DEF InNetwork
      <4>2. b \in Live
        BY <3>3, <4>1 DEF Live
      <4>3. b # o
        BY <1>5, <4>2
      <4>4. b \in DOMAIN pkt' /\ pkt'[b] = pkt[b]
        BY <1>5, <4>1, <4>3
      <4> QED BY <3>2, <4>1, <4>4 DEF InNetwork
    <3> QED BY <2>2, <3>1, <3>2, <3>3 DEF Inv, ArrivalsHold
  <2> QED BY <2>3, <2>4
<1>19. ThreadsHold'
  <2>1. newPacket_num' \in Nat
    BY <1>1 DEF Inv, ThreadsHold
  <2> QED BY <1>1, <2>1 DEF Inv, ThreadsHold
<1>20. StackHolds'
  <2>1. stack' = <<>>
    BY <1>1 DEF Inv, ThreadsHold
  <2> QED BY <2>1, NoStack
<1>21. \A a \in Live : a \in DOMAIN pkt /\ a # o /\ pkt'[a] = pkt[a]
  BY <1>5, LiveFacts
<1>22. HasPath(p, Len(p.rx)) /\ p.rx = Rx(p) /\ DOMAIN p.rx = 1 .. Len(p.rx)
  <2> DEFINE y == payload[t]
  <2>1. y \in PayloadSet /\ FlowOf(y)
    BY <1>2, <1>4, SeqFacts
  <2>2. p.send = y.send /\ p.rx = RxPath[<<y.src, y.dst>>] /\ p.tx = TxPath[<<y.src, y.dst>>]
    BY <1>6
  <2> HIDE DEF y
  <2> QED BY <2>1, <2>2, PathOf
<1>23. ASSUME NEW x \in PortsInUse
       PROVE  /\ DOMAIN ports' = PortsInUse /\ ports'[x] \in PortSet /\ ports'[x].released = ports[x].released
              /\ \A k \in 1 .. Len(ports'[x].passed) :
                   \/ k \in 1 .. Len(ports[x].passed) /\ ports'[x].passed[k] = ports[x].passed[k]
                   \/ \E i \in Hops(p) : Rx(p)[i] = x /\ ports'[x].passed[k] = [pkt |-> o, at |-> i]
  <2>1. ports \in [PortsInUse -> PortSet]
    BY DEF Inv, PortsHold
  <2>2. ports' = Registered(ports, o, p)
    BY <1>1
  <2> DEFINE m == Len(p.rx)
             rs == Registered(ports, o, p)
  <2>3. o \in Nat /\ HasPath(p, m)
    BY <1>5, <1>22
  <2> HIDE DEF m
  <2>4. Enlisted(rs[x], ports[x], o, p, x)
    BY <2>1, <2>3, PortRegistered
  <2>5. DOMAIN ports' = PortsInUse
    BY <2>1, <2>2 DEF Registered
  <2> QED BY <2>2, <2>4, <2>5 DEF Enlisted
<1>24. PortsHold'
  <2>1. ports' \in [PortsInUse -> PortSet]
    <3>1. DOMAIN ports' = PortsInUse /\ ports' = [x \in DOMAIN ports' |-> ports'[x]]
      BY <1>1 DEF Registered, Inv, PortsHold
    <3> QED BY <1>23, <3>1
  <2>2. ASSUME NEW x \in PortsInUse, NEW k \in 1 .. Len(ports'[x].passed)
        PROVE  IsThere(ports[x].passed[k], x)'
    <3> DEFINE e == ports'[x].passed[k]
    <3>1. e.pkt \in Live' /\ e.at \in DOMAIN pkt'[e.pkt].rx /\ pkt'[e.pkt].rx[e.at] = x
      <4>1. CASE k \in 1 .. Len(ports[x].passed) /\ e = ports[x].passed[k]
        <5>1. IsThere(e, x)
          BY <4>1 DEF Inv, PortsHold
        <5> HIDE DEF e
        <5> QED BY <1>12, <1>21, <5>1 DEF IsThere
      <4>2. CASE \E i \in Hops(p) : Rx(p)[i] = x /\ e = [pkt |-> o, at |-> i]
        <5>1. PICK i \in Hops(p) : Rx(p)[i] = x /\ e = [pkt |-> o, at |-> i]
          BY <4>2
        <5>2. e.pkt = o /\ e.at = i /\ i \in DOMAIN p.rx /\ p.rx[i] = x
          BY <1>22, <5>1 DEF Hops
        <5> HIDE DEF e
        <5> QED BY <1>5, <1>12, <5>2
      <4> QED BY <1>23, <4>1, <4>2
    <3> QED BY <3>1 DEF IsThere
  <2>3. \A x \in ClaimPorts : \A i, j \in 1 .. Len(ports'[x].released) :
          i < j => ports'[x].released[i].time <= ports'[x].released[j].time
    <3>1. \A x \in ClaimPorts : x \in PortsInUse
      BY DEF ClaimPorts
    <3> QED BY <1>23, <3>1 DEF Inv, PortsHold
  <2> QED BY <2>1, <2>2, <2>3 DEF PortsHold
<1>25. TimesHold'
  <2>1. Live' \ Range(Unfinished_Packets') = Live \ Range(u)
    <3>1. Range(Unfinished_Packets') = Range(u) \union {o}
      BY <1>1, <1>14 DEF v
    <3> HIDE DEF u
    <3> QED BY <1>5, <1>12, <3>1
  <2>2. ASSUME NEW a \in Live \ Range(u) PROVE OnItsWay(pkt[a])'
    <3>1. OnItsWay(pkt[a]) /\ pkt'[a] = pkt[a]
      BY <1>21 DEF Inv, TimesHold
    <3>2. \A i \in DOMAIN pkt[a].rx : pkt[a].rx[i] \in PortsInUse
      <4>1. HasPath(pkt[a], Len(pkt[a].rx)) /\ pkt[a].rx = Rx(pkt[a]) /\ DOMAIN pkt[a].rx = 1 .. Len(pkt[a].rx)
        BY <1>21, PacketFacts DEF Inv
      <4> QED BY <4>1 DEF HasPath, ClaimPorts
    <3>3. \A x \in PortsInUse : ports'[x].released = ports[x].released
      BY <1>23
    <3> DEFINE c == pkt[a]
    <3>4. c' = c /\ OnItsWay(c) /\ \A i \in DOMAIN c.rx : ports'[c.rx[i]].released = ports[c.rx[i]].released
      BY <3>1, <3>2, <3>3
    <3> HIDE DEF c
    <3>5. OnItsWay(c)'
      BY <3>4 DEF OnItsWay
    <3> QED BY <3>5 DEF c
  <2>3. OneAtAPort'
    <3>1. OneAtAPort
      BY DEF Inv, TimesHold
    <3>2. \A a \in Live \ Range(u) : pkt'[a] = pkt[a]
      BY <1>21
    <3> QED BY <2>1, <3>1, <3>2 DEF OneAtAPort, Hops, Rx
  <2> QED BY <2>1, <2>2, <2>3 DEF TimesHold
<1>26. ClaimsHold'
  <2>1. main'.state \notin {"claim", "transfer"}
    BY <1>1
  <2> QED BY <2>1, NoClaim
<1> QED BY <1>9, <1>11, <1>15, <1>17, <1>18, <1>19, <1>20, <1>24, <1>25, <1>26 DEF Inv

\* The rest of what is scheduled once the delivery of t that is due has been made or skipped.
LEMMA RestScheduled ==
  ASSUME Inv, IsDue(complete_peq)
  PROVE  LET e == Head(complete_peq)
             r == Tail(complete_peq)
         IN  /\ Scheduled(e) /\ e.at = now
             /\ r \in Seq(EntrySet)
             /\ \A i, j \in 1 .. Len(r) : i < j => r[i].at <= r[j].at /\ r[i] # r[j]
             /\ \A i \in 1 .. Len(r) :
                  Scheduled(r[i]) /\ (payload[e.trans].finish = now => r[i].trans # e.trans)
<1> DEFINE q == complete_peq
           e == Head(q)
           r == Tail(q)
<1>1. q \in Seq(EntrySet) /\ q # <<>> /\ e.at <= now /\ now \in Times
  BY DEF Inv, QueuesHold, IsDue
<1>2. /\ \A i, j \in 1 .. Len(q) : i < j => q[i].at <= q[j].at /\ q[i] # q[j]
      /\ \A i \in 1 .. Len(q) : Scheduled(q[i])
  BY DEF Inv, QueuesHold
<1> HIDE DEF q
<1>3. /\ e = q[1] /\ 1 \in 1 .. Len(q) /\ r \in Seq(EntrySet) /\ Len(r) = Len(q) - 1
      /\ \A i \in 1 .. Len(q) - 1 : r[i] = q[i + 1] /\ i + 1 \in 1 .. Len(q)
      /\ Len(q) \in Nat /\ \A i \in 1 .. Len(q) : q[i] \in EntrySet
  BY <1>1, TailFacts, SeqFacts
<1> HIDE DEF e, r
<1>4. \A i \in 1 .. Len(q) : q[i].at \in Int /\ q[i].at >= now /\ q[i].at <= payload[q[i].trans].finish
  <2> TAKE i \in 1 .. Len(q)
  <2>1. q[i].at \in Times
    <3>1. q[i] \in EntrySet
      BY <1>3
    <3> HIDE DEF Times
    <3> QED BY <3>1 DEF EntrySet
  <2> QED BY <1>2, <2>1, TimesType DEF Scheduled
<1>5. Scheduled(e) /\ e.at = now
  <2>1. now \in Int
    BY <1>1, TimesType
  <2> QED BY <1>1, <1>2, <1>3, <1>4, <2>1
<1>6. \A i, j \in 1 .. Len(r) : i < j => r[i].at <= r[j].at /\ r[i] # r[j]
  <2> SUFFICES ASSUME NEW i \in 1 .. Len(r), NEW j \in 1 .. Len(r), i < j PROVE r[i].at <= r[j].at /\ r[i] # r[j]
    OBVIOUS
  <2>1. r[i] = q[i + 1] /\ r[j] = q[j + 1] /\ i + 1 \in 1 .. Len(q) /\ j + 1 \in 1 .. Len(q) /\ i + 1 < j + 1
    BY <1>3
  <2> QED BY <1>2, <2>1
<1>7. ASSUME NEW i \in 1 .. Len(r)
      PROVE  Scheduled(r[i]) /\ (payload[e.trans].finish = now => r[i].trans # e.trans)
  <2>1. r[i] = q[i + 1] /\ i + 1 \in 1 .. Len(q) /\ 1 < i + 1
    BY <1>3
  <2>2. Scheduled(r[i])
    BY <1>2, <2>1
  <2>3. ASSUME payload[e.trans].finish = now, r[i].trans = e.trans PROVE FALSE
    <3>1. r[i].at = now
      <4>1. now \in Int
        BY <1>1, TimesType
      <4>2. q[i + 1].at \in Int /\ q[i + 1].at >= now /\ q[i + 1].at <= now
        BY <1>4, <2>1, <2>3
      <4> QED BY <2>1, <4>1, <4>2
    <3>2. r[i] \in EntrySet /\ e \in EntrySet
      BY <1>3, <2>1
    <3>3. r[i] = e
      <4> HIDE DEF Times
      <4> QED BY <1>5, <2>3, <3>1, <3>2 DEF EntrySet
    <3>4. q[1] # q[i + 1]
      BY <1>2, <1>3, <2>1
    <3> QED BY <1>3, <2>1, <3>3, <3>4
  <2> QED BY <2>2, <2>3
<1> QED BY <1>3, <1>5, <1>6, <1>7 DEF e, r, q

\* A port that forgets a packet.
LEMMA PortForgets ==
  ASSUME NEW ps \in [PortsInUse -> PortSet], NEW o, NEW p, NEW x \in PortsInUse
  PROVE  LET c == ps[x]
             d == Forget(ps, o, p)[x]
         IN  /\ d \in PortSet /\ d.released = c.released
             /\ \A k \in 1 .. Len(d.passed) :
                  /\ d.passed[k] \in Range(c.passed)
                  /\ x \in Range(Rx(p)) => d.passed[k].pkt # o
<1> DEFINE c == ps[x]
           d == Forget(ps, o, p)[x]
           s == c.passed
           g == c.total
           f == Filtered(s, {e \in Range(s) : e.pkt # o})
           h == Filtered(g, {e \in Range(g) : e.id # p.id})
           Hop == [pkt : Nat, at : Nat]
<1>1. d = IF x \in Range(Rx(p)) THEN [c EXCEPT !.passed = f, !.total = h] ELSE c
  BY DEF Forget
<1>2. /\ s \in Seq(Hop) /\ g \in Seq(LastSet) /\ c.last \in LastSet
      /\ c.released \in Seq([id : Nat, time : Times])
      /\ c = [passed |-> s, last |-> c.last, total |-> g, released |-> c.released]
  BY DEF PortSet
<1> HIDE DEF s, g, Hop
<1>3. f \in Seq(Hop) /\ Range(f) = Range(s) \intersect {e \in Range(s) : e.pkt # o}
  BY <1>2, FilteredMembers
<1>4. h \in Seq(LastSet)
  BY <1>2, FilteredMembers
<1> HIDE DEF f, h, d
<1>5. CASE x \in Range(Rx(p))
  <2> HIDE DEF c
  <2>1. d = [passed |-> f, last |-> c.last, total |-> h, released |-> c.released]
    BY <1>1, <1>2, <1>5
  <2>2. d \in PortSet /\ d.released = c.released /\ d.passed = f
    BY <1>2, <1>3, <1>4, <2>1 DEF PortSet, Hop
  <2>3. \A k \in 1 .. Len(f) : f[k] \in Range(f)
    BY <1>3, SeqFacts
  <2> QED BY <1>3, <2>2, <2>3 DEF c, d, s
<1>6. CASE x \notin Range(Rx(p))
  <2>1. d = c /\ c \in PortSet
    BY <1>1, <1>6
  <2>2. \A k \in 1 .. Len(s) : s[k] \in Range(s)
    BY <1>2, SeqFacts
  <2> QED BY <1>6, <2>1, <2>2 DEF c, d, s
<1> QED BY <1>5, <1>6

\* A delivery that has been moved is skipped.
LEMMA SkipKeeps ==
  ASSUME Inv, IsDue(complete_peq), complete_peq' = Tail(complete_peq),
         UNCHANGED <<now, payload, pkt_peq, recompute_peq, arrived, main, sender, pkt, pool, round, ports>>
  PROVE  Inv'
<1>1. UNCHANGED <<newPacket_num, Unfinished_Packets, stack, claims>>
  BY DEF round
<1>2. /\ PayloadsHold' /\ ArrivalsHold' /\ PacketsHold' /\ PoolHolds' /\ PortsHold' /\ StackHolds'
      /\ TimesHold' /\ ClaimsHold'
  BY <1>1, PayloadsKept, ArrivalsKept, PacketsKept, PoolKept, PortsKept, StackKept, TimesKept, ClaimsKept
     DEF Inv
<1>3. ThreadsHold'
  BY <1>1 DEF Inv, ThreadsHold
<1>4. QueuesHold'
  <2> DEFINE r == Tail(complete_peq)
  <2>1. /\ r \in Seq(EntrySet)
        /\ \A i, j \in 1 .. Len(r) : i < j => r[i].at <= r[j].at /\ r[i] # r[j]
        /\ \A i \in 1 .. Len(r) : Scheduled(r[i])
    BY RestScheduled
  <2> HIDE DEF r
  <2>2. complete_peq' = r
    BY DEF r
  <2>3. \A i \in 1 .. Len(r) : Scheduled(complete_peq[i])'
    <3> TAKE i \in 1 .. Len(r)
    <3> DEFINE e == complete_peq'[i]
    <3>1. Scheduled(r[i]) /\ e = r[i]
      BY <2>1, <2>2
    <3> QED BY <3>1 DEF Scheduled, Soonest
  <2> QED BY <2>1, <2>2, <2>3 DEF Inv, QueuesHold
<1> QED BY <1>2, <1>3, <1>4 DEF Inv

\* A packet is delivered, and leaves the network.
LEMMA HandOverKeeps ==
  ASSUME Inv, sender.sends, IsDue(complete_peq), complete_peq' = Tail(complete_peq),
         NEW t, t = Head(complete_peq).trans, payload[t].finish = now, HandOver(t), UNCHANGED sender,
         UNCHANGED <<now, payload, pkt_peq, recompute_peq, main, pkt, Finish_Packets, round, unset>>
  PROVE  Inv'
<1> DEFINE o == payload[t].pkt
           r == Tail(complete_peq)
           e == Head(complete_peq)
           d == <<now>>
<1>1. UNCHANGED <<newPacket_num, Unfinished_Packets, stack, claims>>
  BY DEF round
<1>2. /\ Scheduled(e) /\ r \in Seq(EntrySet)
      /\ \A i, j \in 1 .. Len(r) : i < j => r[i].at <= r[j].at /\ r[i] # r[j]
      /\ \A i \in 1 .. Len(r) : Scheduled(r[i]) /\ r[i].trans # t
  BY RestScheduled
<1>3. complete_peq' = r
  OBVIOUS
<1>4. /\ t \in 1 .. Len(payload) /\ arrived[t] = <<>> /\ o # 0
      /\ payload[t].finish >= Soonest(payload[t])
  <2> HIDE DEF e, r
  <2>1. e.trans = t
    BY DEF e
  <2> QED BY <1>2, <2>1 DEF Scheduled
<1> HIDE DEF e, r
<1>5. arrived \in Seq(Seq(Times)) /\ Len(arrived) = Len(payload) /\ now \in Times
      /\ DOMAIN arrived = 1 .. Len(payload) /\ Len(payload) \in Nat
  <2>1. arrived \in Seq(Seq(Times)) /\ Len(arrived) = Len(payload) /\ now \in Times
    BY DEF Inv, PayloadsHold, QueuesHold
  <2> QED BY <2>1, SeqFacts
<1>6. /\ arrived' \in Seq(Seq(Times)) /\ Len(arrived') = Len(payload) /\ arrived'[t] = d /\ d # <<>>
      /\ \A u \in 1 .. Len(payload) : u # t => arrived'[u] = arrived[u]
  <2>1. d \in Seq(Times) /\ d # <<>>
    BY <1>5
  <2>2. arrived' = [arrived EXCEPT ![t] = Append(@, now)]
    BY DEF HandOver
  <2>3. arrived' = [arrived EXCEPT ![t] = d]
    BY <1>4, <2>2
  <2> HIDE DEF d
  <2>4. [arrived EXCEPT ![t] = d] \in Seq(Seq(Times)) /\ Len([arrived EXCEPT ![t] = d]) = Len(arrived)
    BY <1>4, <1>5, <2>1, ExceptSeq
  <2> QED BY <1>4, <1>5, <2>1, <2>3, <2>4
<1> HIDE DEF d
<1>7. InNetwork(t)
  <2>1. ~ Waits(t)
    BY <1>4 DEF Inv, ArrivalsHold
  <2> QED BY <1>4, <2>1 DEF Inv, ArrivalsHold
<1>8. o \in DOMAIN pkt /\ pkt[o].trans = t /\ o \in Live
  BY <1>4, <1>7 DEF InNetwork, Live
<1>9. \A a \in DOMAIN pkt : pkt[a].trans \in 1 .. Len(payload)
  BY PacketFacts DEF Inv
<1>10. Live' = Live \ {o}
  <2>1. \A a \in DOMAIN pkt : pkt[a].trans = t /\ a \in Live => a = o
    BY DEF Live
  <2>2. \A a \in DOMAIN pkt : pkt[a].trans # t => arrived'[pkt[a].trans] = arrived[pkt[a].trans]
    BY <1>6, <1>9
  <2>3. \A a \in DOMAIN pkt : a \in Live' <=> payload[pkt[a].trans].pkt = a /\ arrived'[pkt[a].trans] = <<>>
    BY DEF Live
  <2>4. \A a \in DOMAIN pkt : a \in Live' <=> a \in Live /\ a # o
    <3> TAKE a \in DOMAIN pkt
    <3>1. CASE pkt[a].trans = t
      BY <1>6, <2>1, <2>3, <3>1
    <3>2. CASE pkt[a].trans # t
      BY <1>8, <2>2, <2>3, <3>2 DEF Live
    <3> QED BY <3>1, <3>2
  <2>5. Live \subseteq DOMAIN pkt /\ Live' \subseteq DOMAIN pkt
    BY DEF Live
  <2> QED BY <2>4, <2>5
<1>11. main.state \in {"idle", "window"} /\ Unfinished_Packets = <<>> /\ stack = <<>>
  <2>1. main.state \in {"idle", "window"}
    BY DEF Inv, ThreadsHold
  <2> QED BY <2>1 DEF Inv, ThreadsHold
<1>12. PayloadsHold'
  BY <1>5, <1>6 DEF Inv, PayloadsHold
<1>13. QueuesHold'
  <2>1. \A i \in 1 .. Len(r) : Scheduled(complete_peq[i])'
    <3> TAKE i \in 1 .. Len(r)
    <3> DEFINE z == complete_peq'[i]
    <3>1. z = r[i] /\ Scheduled(r[i]) /\ r[i].trans # t
      BY <1>2, <1>3
    <3>2. arrived'[r[i].trans] = arrived[r[i].trans]
      BY <1>6, <3>1 DEF Scheduled
    <3> QED BY <3>1, <3>2 DEF Scheduled, Soonest
  <2> QED BY <1>2, <1>3, <2>1 DEF Inv, QueuesHold
<1>14. ArrivalsHold'
  <2> SUFFICES ASSUME NEW u \in 1 .. Len(payload)
               PROVE  /\ Waits(u)' => payload[u].pkt = 0 /\ arrived'[u] = <<>>
                      /\ ~ Waits(u)' /\ arrived'[u] = <<>> => InNetwork(u)'
                      /\ arrived'[u] \in {<<>>, <<payload[u].finish>>}
                      /\ arrived'[u] # <<>> => payload[u].finish >= Soonest(payload[u])
    BY DEF ArrivalsHold, Soonest
  <2>1. (Waits(u)' <=> Waits(u)) /\ (InNetwork(u)' <=> InNetwork(u))
    BY DEF Waits, InNetwork
  <2>2. CASE u = t
    <3>1. ~ Waits(t)
      BY <1>4 DEF Inv, ArrivalsHold
    <3>2. arrived'[t] = <<payload[t].finish>> /\ arrived'[t] # <<>>
      BY <1>6 DEF d
    <3> QED BY <1>4, <2>1, <2>2, <3>1, <3>2
  <2>3. CASE u # t
    <3>1. arrived'[u] = arrived[u]
      BY <1>6, <2>3
    <3> QED BY <2>1, <3>1 DEF Inv, ArrivalsHold
  <2> QED BY <2>2, <2>3
<1>15. ThreadsHold'
  BY <1>1 DEF Inv, ThreadsHold
<1>16. PacketsHold'
  BY PacketsKept DEF Inv
<1>17. PoolHolds'
  <2> DEFINE D == Deleted_Packets
             D1 == Append(Deleted_Packets, o)
  <2>1. /\ D \in Seq(Nat) /\ IsInjective(D) /\ Live \intersect Range(D) = {}
        /\ DOMAIN pkt = Live \union Range(D)
    BY DEF Inv, PoolHolds
  <2>2. o \in Nat
    BY <1>8, PacketFacts DEF Inv
  <2>3. Deleted_Packets' = D1
    BY DEF HandOver
  <2> HIDE DEF D, o
  <2>4. /\ D1 \in Seq(Nat) /\ Len(D1) = Len(D) + 1 /\ Len(D) \in Nat
        /\ \A i \in 1 .. Len(D) : D1[i] = D[i]
        /\ D1[Len(D) + 1] = o
    BY <2>1, <2>2, Appended DEF D
  <2> HIDE DEF D1
  <2>5. DOMAIN D1 = 1 .. Len(D) + 1 /\ DOMAIN D = 1 .. Len(D)
    BY <2>1, <2>4, SeqFacts
  <2>6. Range(D1) = Range(D) \union {o}
    <3>1. \A i \in 1 .. Len(D) + 1 : i \in 1 .. Len(D) \/ i = Len(D) + 1
      BY <2>4
    <3>2. \A i \in 1 .. Len(D) : i \in 1 .. Len(D) + 1
      BY <2>4
    <3>3. Len(D) + 1 \in 1 .. Len(D) + 1
      BY <2>4
    <3> QED BY <2>4, <2>5, <3>1, <3>2, <3>3 DEF Range
  <2>7. o \notin Range(D)
    BY <1>8, <2>1
  <2>8. IsInjective(D1)
    <3>1. \A i \in 1 .. Len(D) : D[i] \in Range(D)
      BY <2>1, SeqFacts
    <3>2. \A i \in 1 .. Len(D) + 1 : i \in 1 .. Len(D) \/ i = Len(D) + 1
      BY <2>4
    <3> QED BY <2>1, <2>4, <2>5, <2>7, <3>1, <3>2 DEF IsInjective
  <2>9. /\ Live' \intersect Range(D1) = {} /\ DOMAIN pkt = Live' \union Range(D1)
    BY <1>8, <1>10, <2>1, <2>6
  <2>10. Range(<<>>) = {}
    BY DEF Range
  <2>11. /\ Unfinished_Packets' = <<>> /\ IsInjective(<<>>) /\ <<>> \in Seq(Nat)
         /\ \A a \in Live' : ~ pkt[a].reCompute
    BY <1>1, <1>10, <1>11, <2>10 DEF Inv, PoolHolds
  <2>12. Finish_Packets' = <<>> /\ pkt' = pkt
    BY DEF Inv, PoolHolds
  <2> QED BY <2>3, <2>4, <2>8, <2>9, <2>10, <2>11, <2>12 DEF PoolHolds
<1>18. PortsHold'
  <2> DEFINE p == pkt[o]
  <2>1. ports \in [PortsInUse -> PortSet]
    BY DEF Inv, PortsHold
  <2>2. ports' = Forget(ports, o, p)
    BY DEF HandOver
  <2>3. p.rx = Rx(p) /\ DOMAIN p.rx = 1 .. Len(p.rx)
    BY <1>8, PacketFacts DEF Inv
  <2> HIDE DEF p
  <2>4. DOMAIN ports' = PortsInUse
    BY <2>1, <2>2 DEF Forget
  <2>5. ASSUME NEW x \in PortsInUse
        PROVE  /\ ports'[x] \in PortSet /\ ports'[x].released = ports[x].released
               /\ \A k \in 1 .. Len(ports'[x].passed) :
                    /\ ports'[x].passed[k] \in Range(ports[x].passed)
                    /\ x \in Range(Rx(p)) => ports'[x].passed[k].pkt # o
    <3> DEFINE was == ports[x]
               left == Forget(ports, o, p)[x]
    <3>1. /\ left \in PortSet /\ left.released = was.released
          /\ \A k \in 1 .. Len(left.passed) :
               /\ left.passed[k] \in Range(was.passed)
               /\ x \in Range(Rx(p)) => left.passed[k].pkt # o
      BY <2>1, PortForgets
    <3>2. ports'[x] = left
      BY <2>2
    <3> QED BY <3>1, <3>2
  <2>6. ports' \in [PortsInUse -> PortSet]
    <3>1. ports' = [x \in PortsInUse |-> ports'[x]]
      BY <2>1, <2>2, <2>4 DEF Forget
    <3> QED BY <2>5, <3>1
  <2>7. ASSUME NEW x \in PortsInUse, NEW k \in 1 .. Len(ports'[x].passed)
        PROVE  IsThere(ports[x].passed[k], x)'
    <3> DEFINE z == ports'[x].passed[k]
    <3>1. z \in Range(ports[x].passed) /\ (x \in Range(Rx(p)) => z.pkt # o)
      BY <2>5
    <3> HIDE DEF z
    <3>2. PICK j \in 1 .. Len(ports[x].passed) : z = ports[x].passed[j]
      <4>1. ports[x].passed \in Seq([pkt : Nat, at : Nat])
        BY <2>1, PortType
      <4> QED BY <3>1, <4>1, SeqFacts
    <3>3. IsThere(z, x)
      BY <3>2 DEF Inv, PortsHold
    <3>4. z.pkt # o
      <4> SUFFICES ASSUME z.pkt = o PROVE FALSE
        OBVIOUS
      <4>1. z.at \in DOMAIN Rx(p) /\ Rx(p)[z.at] = x
        BY <2>3, <3>3 DEF IsThere, p
      <4>2. x \in Range(Rx(p))
        BY <4>1 DEF Range
      <4> QED BY <3>1, <4>2
    <3>5. z.pkt \in Live' /\ z.at \in DOMAIN pkt[z.pkt].rx /\ pkt[z.pkt].rx[z.at] = x
      BY <1>10, <3>3, <3>4 DEF IsThere
    <3> QED BY <3>5 DEF z, IsThere
  <2>8. \A x \in ClaimPorts : x \in PortsInUse
    BY DEF ClaimPorts
  <2> QED BY <2>5, <2>6, <2>7, <2>8 DEF Inv, PortsHold
<1>19. TimesHold'
  <2>1. ports \in [PortsInUse -> PortSet]
    BY DEF Inv, PortsHold
  <2>2. ports' = Forget(ports, o, pkt[o])
    BY DEF HandOver
  <2>3. ASSUME NEW x \in PortsInUse PROVE ports'[x].released = ports[x].released
    <3>1. Forget(ports, o, pkt[o])[x].released = ports[x].released
      BY <2>1, PortForgets
    <3> QED BY <2>2, <3>1
  <2>4. Live' \ Range(Unfinished_Packets') \subseteq Live \ Range(Unfinished_Packets)
    BY <1>1, <1>10
  <2>5. ASSUME NEW a \in Live \ Range(Unfinished_Packets) PROVE OnItsWay(pkt[a])'
    <3> DEFINE p == pkt[a]
    <3>1. OnItsWay(p)
      BY DEF Inv, TimesHold
    <3>2. \A i \in DOMAIN p.rx : p.rx[i] \in PortsInUse
      <4>1. HasPath(p, Len(p.rx)) /\ p.rx = Rx(p) /\ DOMAIN p.rx = 1 .. Len(p.rx)
        BY PacketFacts, LiveFacts DEF Inv
      <4> QED BY <4>1 DEF HasPath, ClaimPorts
    <3>3. p' = p
      OBVIOUS
    <3> HIDE DEF p
    <3>4. OnItsWay(p)'
      BY <2>3, <3>1, <3>2, <3>3 DEF OnItsWay
    <3> QED BY <3>4 DEF p
  <2>6. OneAtAPort'
    BY <2>4 DEF Inv, TimesHold, OneAtAPort, Hops, Rx
  <2> QED BY <2>4, <2>5, <2>6 DEF TimesHold
<1>20. StackHolds' /\ ClaimsHold'
  <2>1. stack' = <<>> /\ main'.state \notin {"claim", "transfer"}
    BY <1>1, <1>11
  <2> QED BY <2>1, NoStack, NoClaim
<1> QED BY <1>12, <1>13, <1>14, <1>15, <1>16, <1>17, <1>18, <1>19, <1>20 DEF Inv

\* What is due is delivered; a delivery that has been moved is skipped.
LEMMA SimulatorSendKeeps == Inv /\ SimulatorSend => Inv'
<1> SUFFICES ASSUME Inv, SimulatorSend PROVE Inv'
  OBVIOUS
<1> DEFINE t == Head(complete_peq).trans
<1>1. /\ sender.sends /\ IsDue(complete_peq) /\ Deliver(t) /\ complete_peq' = Tail(complete_peq)
      /\ UNCHANGED <<now, payload, pkt_peq, recompute_peq, main, pkt, Finish_Packets, round, unset>>
  BY DEF SimulatorSend
<1>2. ~ Cancelled(t)
  <2>1. sender.recompute_list = <<>>
    BY DEF Inv, ThreadsHold, SenderSet
  <2> QED BY <2>1 DEF Cancelled
<1> HIDE DEF t
<1>3. CASE payload[t].finish = now
  <2>1. HandOver(t) /\ UNCHANGED sender
    BY <1>1, <1>2, <1>3 DEF Deliver
  <2>2. t = Head(complete_peq).trans
    BY DEF t
  <2> QED BY <1>1, <1>3, <2>1, <2>2, HandOverKeeps
<1>4. CASE payload[t].finish # now
  <2>1. UNCHANGED <<sender, arrived, ports, Deleted_Packets>>
    BY <1>1, <1>2, <1>4 DEF Deliver
  <2>2. UNCHANGED pool
    BY <1>1, <2>1 DEF pool
  <2> QED BY <1>1, <2>1, <2>2, SkipKeeps
<1> QED BY <1>3, <1>4

-----------------------------------------------------------------------------
\* The transfer of a packet that has all of its path

\* The headers it has claimed: each is behind what has left the port, and the last is received no
\* sooner than in an empty network.
LEMMA PathGranted ==
  ASSUME Inv, main.state = "transfer", NEW o \in Range(Unfinished_Packets), NEW p, p = pkt[o],
         CheckWormHolePath(claims.claims, o, p), NEW n, n = Len(p.rx), NEW header, header = HeadersOf(p)
  PROVE  /\ HasPath(p, n) /\ header \in [1 .. n -> Times] /\ header[n] >= p.send + n * Clk
         /\ \A i \in 1 .. n : header[i] > ReleaseTime(ports[Rx(p)[i]].released)
<1> DEFINE c == claims.claims
           raw == [i \in Hops(p) |-> c[Rx(p)[i]].header]
<1>1. o \in Live
  BY DEF Inv, PoolHolds
<1>2. HasPath(p, n) /\ p.rx = Rx(p) /\ DOMAIN p.rx = 1 .. n
  BY <1>1, PacketFacts, LiveFacts DEF Inv
<1>3. n \in Nat /\ n >= 3 /\ p.send \in Times /\ Hops(p) = 1 .. n /\ \A i \in 1 .. n : Rx(p)[i] \in ClaimPorts
  BY <1>2 DEF HasPath, Hops
<1>4. c \in [ClaimPorts -> ClaimSet]
  <2>1. claims \in PassSet
    BY DEF Inv, ClaimsHold
  <2> QED BY <2>1, PassType
<1>5. \A i \in 1 .. n : c[Rx(p)[i]].owner = o
  BY <1>3 DEF CheckWormHolePath
<1>6. \A i \in 1 .. n : Granted(o, i)
  BY <1>2, <1>5 DEF Inv, ClaimsHold
<1> HIDE DEF c
<1>7. raw \in [1 .. n -> Times]
  <2>1. \A i \in 1 .. n : c[Rx(p)[i]].header \in Times
    <3> TAKE i \in 1 .. n
    <3>1. c[Rx(p)[i]] \in ClaimSet
      BY <1>3, <1>4
    <3> HIDE DEF Times
    <3> QED BY <3>1 DEF ClaimSet
  <2> HIDE DEF Times
  <2> QED BY <1>3, <2>1
<1>8. header = raw
  <2>1. header = Whole(raw)
    BY DEF HeadersOf, c
  <2> HIDE DEF raw
  <2> QED BY <1>3, <1>7, <2>1, WholeIs
<1>9. \A i \in 1 .. n : header[i] = c[Rx(p)[i]].header
  BY <1>3, <1>8
<1>10. header \in [1 .. n -> Times]
  BY <1>7, <1>8
<1> HIDE DEF raw
<1>11. ASSUME NEW i \in 1 .. n
       PROVE  /\ header[i] > ReleaseTime(ports[Rx(p)[i]].released)
              /\ i = 1 => header[i] >= p.send + Clk
              /\ i > 1 => header[i] >= header[i - 1] + Clk
  <2>1. i > 1 => i - 1 \in 1 .. n
    BY <1>3
  <2>2. Granted(o, i) /\ p.rx = Rx(p)
    BY <1>2, <1>6
  <2>3. i > 1 => c[Rx(p)[i - 1]].owner = o /\ header[i - 1] = c[Rx(p)[i - 1]].header
    BY <1>5, <1>9, <2>1
  <2> QED BY <1>9, <2>2, <2>3 DEF Granted, c
<1>12. header[n] >= p.send + n * Clk
  <2> DEFINE T == [k \in 0 .. n |-> {x \in Int : x >= p.send + k * Clk}]
             r == [k \in 0 .. n |-> IF k = 0 THEN p.send ELSE header[k]]
  <2>1. p.send \in Int /\ \A k \in 1 .. n : header[k] \in Int
    BY <1>3, <1>10, TimesType
  <2>2. r[0] \in T[0]
    <3>1. 0 * Clk = 0 /\ 0 \in 0 .. n
      BY <1>3, ClkType
    <3> QED BY <2>1, <3>1
  <2>3. \A k \in 1 .. n : r[k - 1] \in T[k - 1] => r[k] \in T[k]
    <3> SUFFICES ASSUME NEW k \in 1 .. n, r[k - 1] \in T[k - 1] PROVE r[k] \in T[k]
      OBVIOUS
    <3>1. k - 1 \in 0 .. n /\ k \in 0 .. n /\ k \in Int /\ k # 0
      BY <1>3
    <3>2. (k - 1) * Clk = k * Clk - Clk /\ k * Clk \in Int /\ Clk \in Int
      BY <3>1, ClkType, Products
    <3>3. r[k] = header[k] /\ header[k] \in Int
      BY <2>1, <3>1
    <3>4. CASE k = 1
      <4>1. 1 * Clk = Clk
        BY ClkType
      <4>2. header[k] >= p.send + k * Clk
        BY <1>11, <3>4, <4>1
      <4> QED BY <3>1, <3>3, <4>2
    <3>5. CASE k # 1
      <4>1. k > 1 /\ k - 1 # 0 /\ k - 1 \in 1 .. n
        BY <1>3, <3>5
      <4>2. r[k - 1] = header[k - 1] /\ header[k - 1] \in Int
        BY <2>1, <3>1, <4>1
      <4>3. header[k - 1] >= p.send + (k - 1) * Clk
        BY <3>1, <4>2
      <4>4. header[k] >= header[k - 1] + Clk
        BY <1>11, <4>1
      <4>5. header[k] >= p.send + k * Clk
        BY <2>1, <3>2, <3>3, <4>2, <4>3, <4>4, SMTT(40)
      <4> QED BY <3>1, <3>3, <4>5
    <3> QED BY <3>4, <3>5
  <2> HIDE DEF T, r
  <2>4. \A k \in 0 .. n : r[k] \in T[k]
    BY <1>3, <2>2, <2>3, Reaches
  <2>5. n \in 0 .. n /\ n # 0
    BY <1>3
  <2> QED BY <2>4, <2>5 DEF T, r
<1> QED BY <1>2, <1>10, <1>11, <1>12

\* What a packet that is transferred keeps, and when its last flits are received.
TailsHold(p, q, header, flits, n) ==
  /\ Still(p, q) /\ q.header = header /\ ~ q.reCompute
  /\ q.tail \in [1 .. n -> Times] /\ q.finished = q.tail[n]
  /\ \A i \in 1 .. n : q.tail[i] = Last(flits[i]) /\ header[i] <= q.tail[i]
  /\ q.finished >= p.send + Clk * (n + p.flits - 1)

\* The packet is received no sooner than in an empty network.
LEMMA TransferredFacts ==
  ASSUME NEW p, p = [id |-> p.id, trans |-> p.trans, rx |-> p.rx, tx |-> p.tx, flits |-> p.flits,
                     send |-> p.send, finished |-> p.finished, reCompute |-> p.reCompute,
                     header |-> p.header, tail |-> p.tail],
         NEW n, HasPath(p, n), p.flits \in Nat, p.flits >= 3,
         NEW header \in [1 .. n -> Times], header[n] >= p.send + n * Clk,
         NEW flits \in [1 .. n -> Seq(Times)], Len(flits) = n,
         \A i \in 1 .. n : /\ Last(flits[i]) \in Times /\ header[i] <= Last(flits[i])
                           /\ Last(flits[i]) >= header[i] + (p.flits - 1) * Clk
  PROVE  TailsHold(p, Transferred(p, header, flits), header, flits, n)
<1> DEFINE raw == [i \in DOMAIN header |-> Last(flits[i])]
           q == Transferred(p, header, flits)
<1>1. n \in Nat /\ n >= 3 /\ p.send \in Times /\ DOMAIN header = 1 .. n /\ n \in 1 .. n
  BY DEF HasPath
<1>2. raw \in [1 .. n -> Times] /\ \A i \in 1 .. n : raw[i] = Last(flits[i])
  BY <1>1
<1>3. Whole(raw) = raw
  <2> HIDE DEF raw
  <2> QED BY <1>1, <1>2, WholeIs
<1>4. Last(Last(flits)) = raw[n]
  BY <1>1, <1>2 DEF Last
<1>5. q = [p EXCEPT !.header = header, !.tail = raw, !.finished = raw[n], !.reCompute = FALSE]
  BY <1>3, <1>4 DEF Transferred
<1> HIDE DEF raw
<1>6. q = [id |-> p.id, trans |-> p.trans, rx |-> p.rx, tx |-> p.tx, flits |-> p.flits,
           send |-> p.send, finished |-> raw[n], reCompute |-> FALSE, header |-> header, tail |-> raw]
  <2> HIDE DEF q
  <2> QED BY <1>5
<1> HIDE DEF q
<1>7. Still(p, q) /\ q.header = header /\ ~ q.reCompute /\ q.tail = raw /\ q.finished = raw[n]
  BY <1>6, Zenon DEF Still
<1>8. raw[n] >= p.send + Clk * (n + p.flits - 1)
  <2>1. raw[n] >= header[n] + (p.flits - 1) * Clk /\ header[n] >= p.send + n * Clk
    BY <1>1, <1>2
  <2>2. p.send \in Int /\ header[n] \in Int /\ raw[n] \in Int
    BY <1>1, <1>2, TimesType
  <2> DEFINE a == p.flits - 1
  <2>3. a \in Int /\ Clk \in Int /\ n \in Int
    BY <1>1, ClkType
  <2>4. Clk * (n + p.flits - 1) = n * Clk + a * Clk /\ n * Clk \in Int /\ a * Clk \in Int
    <3>1. n + p.flits - 1 = n + a
      BY <1>1
    <3> HIDE DEF a
    <3>2. Clk * (n + a) = n * Clk + a * Clk
      BY <2>3
    <3> QED BY <2>3, <3>1, <3>2, Products
  <2> HIDE DEF a
  <2>5. raw[n] >= header[n] + a * Clk
    BY <2>1 DEF a
  <2> QED BY <2>1, <2>2, <2>4, <2>5
<1> QED BY <1>1, <1>2, <1>7, <1>8 DEF TailsHold, q

\* What a packet leaves at a port: c before, d afterwards.
LeftBehind(d, c, p, flits, n, x) ==
  /\ d \in PortSet /\ d.passed = c.passed
  /\ \A i \in 1 .. n : Rx(p)[i] = x => d.released = Append(c.released, [id |-> p.id, time |-> Last(flits[i])])
  /\ x \in ClaimPorts /\ (\A i \in 1 .. n : Rx(p)[i] # x) => d.released = c.released

\* The last three flits.
LEMMA LastThree ==
  ASSUME NEW s \in Seq(Times), Len(s) >= 3
  PROVE  SubSeq(s, Len(s) - FIFO_size, Len(s)) \in {t \in Seq(Times) : Len(t) = 3}
<1> HIDE DEF Times
<1> DEFINE n == Len(s)
           t == SubSeq(s, n - 2, n)
<1>1. n \in Nat /\ n - 2 \in 1 .. n /\ n \in 1 .. n /\ s \in Seq(Times)
  OBVIOUS
<1>2. n - (n - 2) + 1 = 3
  BY <1>1
<1>3. t \in Seq(Times) /\ Len(t) = 3
  <2>1. \A i \in n - 2 .. n : i \in 1 .. n /\ s[i] \in Times
    BY <1>1
  <2>2. n - 2 \in Int /\ n \in Int /\ n - 2 <= n
    BY <1>1
  <2> HIDE DEF n
  <2> QED BY <1>2, <2>1, <2>2, SubSeqProperties DEF n
<1> QED BY <1>3 DEF FIFO_size

\* ... at every port.
LEMMA PortsLeft ==
  ASSUME NEW ps \in [PortsInUse -> PortSet], NEW p, p.id \in Nat, NEW n, HasPath(p, n),
         NEW flits \in [1 .. n -> Seq(Times)],
         \A i \in 1 .. n : Len(flits[i]) >= 3 /\ Last(flits[i]) \in Times,
         NEW x \in PortsInUse
  PROVE  LeftBehind(Left(ps, p, flits)[x], ps[x], p, flits, n, x)
<1> DEFINE c == ps[x]
           d == Left(ps, p, flits)[x]
           tl(i) == [id |-> p.id, time |-> Last(flits[i])]
           ls(i) == [id |-> p.id, times |-> SubSeq(flits[i], Len(flits[i]) - FIFO_size, Len(flits[i]))]
           AtRx == {i \in DOMAIN Rx(p) : Rx(p)[i] = x}
           AtTx == {i \in DOMAIN Tx(p) : Tx(p)[i] = x}
           a == CHOOSE i \in AtRx : TRUE
           b == CHOOSE i \in AtTx : TRUE
           R == [id : Nat, time : Times]
<1>1. /\ n \in Nat /\ n >= 3 /\ DOMAIN Rx(p) = 1 .. n /\ DOMAIN Tx(p) = 1 .. n
      /\ \A i, j \in 1 .. n : Rx(p)[i] = Rx(p)[j] => i = j
      /\ \A i \in 2 .. n - 1 : Tx(p)[i][1] = "tx"
      /\ Tx(p)[1] = Rx(p)[1] /\ Tx(p)[n] = Rx(p)[n]
  BY DEF HasPath
<1>2. d = IF AtRx # {}
          THEN [c EXCEPT !.released = Append(@, tl(a)), !.last = ls(a), !.total = Append(@, ls(a))]
          ELSE IF AtTx # {} THEN [c EXCEPT !.released = Append(@, tl(b))] ELSE c
  BY Zenon DEF Left
<1>3. /\ c.passed \in Seq([pkt : Nat, at : Nat]) /\ c.last \in LastSet /\ c.total \in Seq(LastSet)
      /\ c.released \in Seq(R)
      /\ c = [passed |-> c.passed, last |-> c.last, total |-> c.total, released |-> c.released]
      /\ c \in PortSet
  BY DEF PortSet
<1>4. ASSUME NEW i \in 1 .. n
      PROVE  tl(i) \in R /\ ls(i) \in LastSet
  <2>1. Last(flits[i]) \in Times /\ flits[i] \in Seq(Times) /\ Len(flits[i]) >= 3
    OBVIOUS
  <2> DEFINE s == SubSeq(flits[i], Len(flits[i]) - FIFO_size, Len(flits[i]))
  <2>2. s \in {t \in Seq(Times) : Len(t) = 3}
    BY <2>1, LastThree
  <2> HIDE DEF s, Times
  <2>3. [id |-> p.id, times |-> s] \in LastSet
    BY <2>2 DEF LastSet
  <2>4. tl(i) \in R
    BY <2>1
  <2> QED BY <2>3, <2>4 DEF s
<1> HIDE DEF tl, ls, c, d
<1>5. ASSUME NEW i \in 1 .. n, Rx(p)[i] = x
      PROVE  d \in PortSet /\ d.passed = c.passed /\ d.released = Append(c.released, tl(i))
  <2>1. AtRx = {i}
    BY <1>1, <1>5
  <2>2. a = i
    BY <2>1
  <2> HIDE DEF AtRx, AtTx, a, b
  <2>3. d = [c EXCEPT !.released = Append(@, tl(i)), !.last = ls(i), !.total = Append(@, ls(i))]
    <3>1. AtRx # {}
      BY <2>1
    <3>2. d = [c EXCEPT !.released = Append(@, tl(a)), !.last = ls(a), !.total = Append(@, ls(a))]
      BY <1>2, <3>1
    <3> QED BY <2>2, <3>2
  <2>4. d = [passed |-> c.passed, last |-> ls(i), total |-> Append(c.total, ls(i)),
             released |-> Append(c.released, tl(i))]
    BY <1>3, <2>3
  <2>5. Append(c.total, ls(i)) \in Seq(LastSet)
    BY <1>3, <1>4, AppendProperties
  <2>6. Append(c.released, tl(i)) \in Seq(R)
    <3> HIDE DEF R
    <3> QED BY <1>3, <1>4, AppendProperties
  <2> DEFINE u == Append(c.total, ls(i))
             v == Append(c.released, tl(i))
  <2>7. u \in Seq(LastSet) /\ v \in Seq(R) /\ ls(i) \in LastSet
        /\ d = [passed |-> c.passed, last |-> ls(i), total |-> u, released |-> v]
    BY <1>4, <2>4, <2>5, <2>6
  <2> HIDE DEF u, v
  <2>8. d \in PortSet /\ d.passed = c.passed /\ d.released = v
    BY <1>3, <2>7 DEF PortSet
  <2> QED BY <2>8 DEF v
<1>6. ASSUME \A i \in 1 .. n : Rx(p)[i] # x
      PROVE  d \in PortSet /\ d.passed = c.passed /\ (x \in ClaimPorts => d.released = c.released)
  <2>1. AtRx = {}
    BY <1>1, <1>6
  <2>2. CASE AtTx # {}
    <3>1. b \in AtTx
      BY <2>2
    <3>2. b \in 1 .. n /\ Tx(p)[b] = x
      BY <1>1, <3>1
    <3> HIDE DEF AtRx, AtTx, b
    <3>3. b # 1 /\ b # n
      BY <1>1, <1>6, <3>2
    <3>4. b \in 2 .. n - 1
      BY <1>1, <3>2, <3>3
    <3>5. x \notin ClaimPorts
      BY <1>1, <3>2, <3>4 DEF ClaimPorts
    <3>6. d = [c EXCEPT !.released = Append(@, tl(b))]
      BY <1>2, <2>1, <2>2
    <3> DEFINE v == Append(c.released, tl(b))
    <3>7. v \in Seq(R)
      <4> HIDE DEF R
      <4> QED BY <1>3, <1>4, <3>2, AppendProperties
    <3>8. d = [passed |-> c.passed, last |-> c.last, total |-> c.total, released |-> v]
      BY <1>3, <3>6
    <3> HIDE DEF v
    <3> QED BY <1>3, <3>5, <3>7, <3>8 DEF PortSet
  <2>3. CASE AtTx = {}
    <3> HIDE DEF AtRx, AtTx
    <3>1. d = c
      BY <1>2, <2>1, <2>3
    <3> QED BY <1>3, <3>1
  <2> QED BY <2>2, <2>3
<1>7. d \in PortSet /\ d.passed = c.passed
  BY <1>5, <1>6
<1> QED BY <1>5, <1>6, <1>7 DEF LeftBehind, c, d, tl

\* The delivery of a packet is scheduled at the end of its transfer, as long as the time of an earlier
\* transfer is moved only to a later one, that has not passed.
LEMMA Rescheduled ==
  ASSUME Inv, NEW o \in Live, NEW t, t = pkt[o].trans, NEW q, q.trans = t,
         q.finished \in Times, q.finished >= Soonest(payload[t]), Schedule(q),
         payload[t].finish <= payload'[t].finish, Finish_Packets' = <<>>,
         UNCHANGED <<now, pkt_peq, arrived>>
  PROVE  /\ PayloadsHold' /\ QueuesHold' /\ Len(payload') = Len(payload)
         /\ \A u \in 1 .. Len(payload) :
              /\ payload'[u].src = payload[u].src /\ payload'[u].dst = payload[u].dst
              /\ payload'[u].size = payload[u].size /\ payload'[u].send = payload[u].send
              /\ payload'[u].pkt = payload[u].pkt
              /\ u # t => payload'[u] = payload[u]
<1> DEFINE old == payload[t].finish
           fin == q.finished
           y == payload[t]
           z == [y EXCEPT !.finish = fin]
           Q == complete_peq
           e == [trans |-> t, at |-> fin]
<1>1. /\ payload \in Seq(PayloadSet) /\ now \in Times /\ Q \in Seq(EntrySet) /\ recompute_peq = <<>>
      /\ Len(payload) \in Nat /\ DOMAIN payload = 1 .. Len(payload) /\ t \in 1 .. Len(payload)
      /\ arrived[t] = <<>> /\ payload[t].pkt = o /\ o # 0
  <2>1. payload \in Seq(PayloadSet) /\ now \in Times /\ Q \in Seq(EntrySet) /\ recompute_peq = <<>>
    BY DEF Inv, PayloadsHold, QueuesHold
  <2>2. Len(payload) \in Nat /\ DOMAIN payload = 1 .. Len(payload)
    BY <2>1, SeqFacts
  <2>3. o \in DOMAIN pkt /\ arrived[t] = <<>> /\ payload[t].pkt = o
    BY LiveFacts
  <2>4. t \in 1 .. Len(payload) /\ o >= 1 /\ o \in Nat
    BY <2>3, PacketFacts DEF Inv
  <2> QED BY <2>1, <2>2, <2>3, <2>4
<1>2. y \in PayloadSet /\ old \in Int /\ fin \in Int /\ now \in Int
  <2>1. y \in PayloadSet
    BY <1>1
  <2>2. old \in Times
    <3> HIDE DEF Times
    <3> QED BY <2>1 DEF PayloadSet
  <2> QED BY <1>1, <2>1, <2>2, TimesType
<1> DEFINE late == fin < now
           moved == ~ late /\ old # fin
<1>3. ~ late
  <2> SUFFICES ASSUME late PROVE FALSE
    OBVIOUS
  <2>1. Finish_Packets' = Append(Finish_Packets, payload[t].pkt)
    BY DEF Schedule
  <2>2. Finish_Packets = <<>>
    BY DEF Inv, PoolHolds
  <2>3. Append(<<>>, payload[t].pkt) # <<>>
    OBVIOUS
  <2> QED BY <2>1, <2>2, <2>3
<1>4. /\ payload' = IF moved THEN [payload EXCEPT ![t].finish = fin] ELSE payload
      /\ Q' = IF moved THEN NotifyAt(Q, t, fin) ELSE Q
      /\ recompute_peq' = IF late \/ (moved /\ old > fin) THEN NotifyAt(recompute_peq, t, old)
                          ELSE recompute_peq
  BY DEF Schedule
<1>5. z \in PayloadSet /\ z.finish = fin /\ z.src = y.src /\ z.dst = y.dst /\ z.size = y.size
      /\ z.send = y.send /\ z.pkt = y.pkt
  <2> HIDE DEF Times, y
  <2> QED BY <1>2 DEF PayloadSet
<1>6. [payload EXCEPT ![t].finish = fin] = [payload EXCEPT ![t] = z]
  BY <1>1
<1>7. /\ payload' \in Seq(PayloadSet) /\ Len(payload') = Len(payload)
      /\ \A u \in 1 .. Len(payload) : u # t => payload'[u] = payload[u]
      /\ payload'[t] = (IF moved THEN z ELSE y)
  <2>1. CASE moved
    <3>1. payload' = [payload EXCEPT ![t] = z]
      BY <1>4, <1>6, <2>1
    <3> HIDE DEF z
    <3>2. [payload EXCEPT ![t] = z] \in Seq(PayloadSet) /\ Len([payload EXCEPT ![t] = z]) = Len(payload)
      BY <1>1, <1>5, ExceptSeq
    <3> HIDE DEF moved
    <3> QED BY <1>1, <2>1, <3>1, <3>2
  <2>2. CASE ~ moved
    <3>1. payload' = payload
      BY <1>4, <2>2
    <3> HIDE DEF moved
    <3> QED BY <1>1, <2>2, <3>1
  <2> QED BY <2>1, <2>2
<1>8. moved => old < fin
  BY <1>2, <1>5, <1>7
<1>9. payload'[t].finish = fin
  BY <1>3, <1>5, <1>7
<1>10. recompute_peq' = <<>>
  BY <1>1, <1>2, <1>3, <1>4, <1>8
<1> HIDE DEF z, y, late
<1>11. \A u \in 1 .. Len(payload) :
              /\ payload'[u].src = payload[u].src /\ payload'[u].dst = payload[u].dst
              /\ payload'[u].size = payload[u].size /\ payload'[u].send = payload[u].send
              /\ payload'[u].pkt = payload[u].pkt
              /\ u # t => payload'[u] = payload[u]
  BY <1>5, <1>7 DEF y
<1>12. PayloadsHold'
  <2>1. ASSUME NEW u \in 1 .. Len(payload) PROVE FlowOf(payload'[u])
    <3>1. FlowOf(payload[u])
      BY DEF Inv, PayloadsHold
    <3> QED BY <1>11, <3>1 DEF FlowOf
  <2>2. arrived \in Seq(Seq(Times)) /\ Len(arrived) = Len(payload)
    BY DEF Inv, PayloadsHold
  <2> QED BY <1>7, <2>1, <2>2 DEF PayloadsHold, FlowOf
<1>13. \A u \in 1 .. Len(payload) : Soonest(payload'[u]) = Soonest(payload[u])
  BY <1>11 DEF Soonest
<1>14. ASSUME NEW g, Scheduled(g), g.at \in Times
       PROVE  /\ g.trans \in 1 .. Len(payload) /\ arrived[g.trans] = <<>> /\ payload'[g.trans].pkt # 0
              /\ g.at >= now /\ g.at <= payload'[g.trans].finish
              /\ payload'[g.trans].finish >= Soonest(payload'[g.trans])
  <2>1. g.trans \in 1 .. Len(payload) /\ g.at \in Int
    BY <1>14, TimesType DEF Scheduled
  <2>2. CASE g.trans = t
    <3>1. g.at <= fin
      <4>1. g.at <= old /\ old <= fin
        BY <1>9, <1>14, <2>2 DEF Scheduled
      <4> QED BY <1>2, <2>1, <4>1
    <3> QED BY <1>1, <1>9, <1>11, <1>13, <1>14, <2>1, <2>2, <3>1 DEF Scheduled
  <2>3. CASE g.trans # t
    BY <1>11, <1>14, <2>1, <2>3 DEF Scheduled
  <2> QED BY <2>2, <2>3
<1>15. \A i \in 1 .. Len(Q) : Q[i] \in EntrySet /\ Q[i].at \in Times /\ Q[i].at \in Int /\ Scheduled(Q[i])
  <2> TAKE i \in 1 .. Len(Q)
  <2>1. Q[i] \in EntrySet
    BY <1>1, SeqFacts
  <2>2. Q[i].at \in Times
    <3> HIDE DEF Times
    <3> QED BY <2>1 DEF EntrySet
  <2> QED BY <2>1, <2>2, TimesType DEF Inv, QueuesHold
<1> DEFINE rel == {w \in EntrySet \X EntrySet : w[1].at <= w[2].at /\ w[1] # w[2]}
<1>16. \A i, j \in 1 .. Len(Q) : i < j => <<Q[i], Q[j]>> \in rel
  <2>1. \A i, j \in 1 .. Len(Q) : i < j => Q[i].at <= Q[j].at /\ Q[i] # Q[j]
    BY DEF Inv, QueuesHold
  <2> QED BY <1>15, <2>1
<1>17. moved => Grown(NotifyAt(Q, t, fin), Q, e, rel)
  <2> SUFFICES ASSUME moved PROVE Grown(NotifyAt(Q, t, fin), Q, e, rel)
    OBVIOUS
  <2>1. e \in EntrySet /\ e.trans = t /\ e.at = fin /\ t \in Nat
    <3>1. t \in Nat
      BY <1>1
    <3> HIDE DEF Times
    <3> QED BY <3>1 DEF EntrySet
  <2>2. \A i \in 1 .. Len(Q) : Q[i] # e
    <3> SUFFICES ASSUME NEW i \in 1 .. Len(Q), Q[i] = e PROVE FALSE
      OBVIOUS
    <3>1. Scheduled(e)
      BY <1>15
    <3>2. fin <= old
      BY <2>1, <3>1 DEF Scheduled
    <3> QED BY <1>2, <1>8, <3>2
  <2>3. e = [trans |-> t, at |-> fin]
    OBVIOUS
  <2> HIDE DEF e, moved
  <2>4. Joins(Q, e, rel)
    <3>1. \A i \in 1 .. Len(Q) : /\ Q[i].at <= e.at => <<Q[i], e>> \in rel
                                 /\ Q[i].at > e.at => <<e, Q[i]>> \in rel
      BY <1>2, <1>15, <2>1, <2>2
    <3>2. \A i, j \in 1 .. Len(Q) : Q[i].at <= e.at /\ e.at < Q[j].at => <<Q[i], Q[j]>> \in rel
      BY <1>2, <1>15, <2>1
    <3> HIDE DEF rel, Q
    <3> QED BY <1>16, <3>1, <3>2 DEF Joins
  <2>5. fin \in Times /\ Q \in Seq(EntrySet)
    BY <1>1
  <2> HIDE DEF rel, Q, fin
  <2> QED BY <2>1, <2>3, <2>4, <2>5, Notified
<1> HIDE DEF moved
<1>18. QueuesHold'
  <2> DEFINE r == Q'
  <2>1. /\ r \in Seq(EntrySet)
        /\ \A i, j \in 1 .. Len(r) : i < j => <<r[i], r[j]>> \in rel
        /\ \A i \in 1 .. Len(r) : r[i] = e \/ \E j \in 1 .. Len(Q) : r[i] = Q[j]
    <3>1. CASE moved
      <4>1. r = NotifyAt(Q, t, fin)
        BY <1>4, <3>1
      <4> HIDE DEF r, rel, e, Q
      <4> QED BY <1>17, <3>1, <4>1 DEF Grown
    <3>2. CASE ~ moved
      <4>1. r = Q
        BY <1>4, <3>2
      <4> HIDE DEF r, rel, e
      <4> QED BY <1>1, <1>16, <4>1
    <3> QED BY <3>1, <3>2
  <2> HIDE DEF r
  <2>2. \A i, j \in 1 .. Len(r) : i < j => r[i].at <= r[j].at /\ r[i] # r[j]
    BY <2>1
  <2> HIDE DEF rel
  <2>3. ASSUME NEW i \in 1 .. Len(r)
        PROVE  /\ r[i].trans \in 1 .. Len(payload) /\ arrived[r[i].trans] = <<>>
               /\ payload'[r[i].trans].pkt # 0
               /\ r[i].at >= now /\ r[i].at <= payload'[r[i].trans].finish
               /\ payload'[r[i].trans].finish >= Soonest(payload'[r[i].trans])
    <3>1. CASE r[i] = e
      <4>1. r[i].trans = t /\ r[i].at = fin
        BY <3>1
      <4>2. fin >= now /\ fin <= fin
        BY <1>2, <1>3 DEF late
      <4> HIDE DEF e
      <4>3. payload'[t].pkt # 0 /\ Soonest(payload'[t]) = Soonest(payload[t])
        BY <1>1, <1>11, <1>13
      <4> QED BY <1>1, <1>9, <4>1, <4>2, <4>3
    <3>2. CASE \E j \in 1 .. Len(Q) : r[i] = Q[j]
      <4>1. PICK j \in 1 .. Len(Q) : r[i] = Q[j]
        BY <3>2
      <4> DEFINE g == Q[j]
      <4>2. Scheduled(g) /\ g.at \in Times
        BY <1>15
      <4> HIDE DEF g
      <4>3. /\ g.trans \in 1 .. Len(payload) /\ arrived[g.trans] = <<>> /\ payload'[g.trans].pkt # 0
            /\ g.at >= now /\ g.at <= payload'[g.trans].finish
            /\ payload'[g.trans].finish >= Soonest(payload'[g.trans])
        BY <1>14, <4>2
      <4>4. r[i] = g
        BY <4>1 DEF g
      <4> QED BY <4>3, <4>4
    <3> QED BY <2>1, <3>1, <3>2
  <2>4. \A i \in 1 .. Len(r) : Scheduled(complete_peq[i])'
    <3> TAKE i \in 1 .. Len(r)
    <3>1. complete_peq'[i] = r[i]
      BY DEF r
    <3> QED BY <1>7, <2>3, <3>1 DEF Scheduled, Soonest
  <2> QED BY <1>1, <1>7, <1>10, <2>1, <2>2, <2>4 DEF Inv, QueuesHold, r
<1> QED BY <1>7, <1>11, <1>12, <1>18

\* The release times of a port are in their order, so none is after the last of them.
LEMMA LastRelease ==
  ASSUME NEW s \in Seq([id : Nat, time : Times]), NEW m \in 1 .. Len(s),
         \A i, j \in 1 .. Len(s) : i < j => s[i].time <= s[j].time
  PROVE  s[m].time <= ReleaseTime(s)
<1> DEFINE R == [id : Nat, time : Times]
<1> HIDE DEF R
<1>1. s \in Seq(R)
  BY DEF R
<1>2. Len(s) \in Nat /\ s # <<>> /\ Len(s) \in 1 .. Len(s)
  <2>1. Len(s) \in Nat /\ (s # <<>> <=> Len(s) >= 1)
    BY <1>1, SeqFacts
  <2> QED BY <2>1
<1>3. ReleaseTime(s) = s[Len(s)].time
  BY <1>1, <1>2, LastOf DEF ReleaseTime
<1>4. s[Len(s)].time \in Int
  <2>1. s[Len(s)] \in R
    BY <1>1, <1>2, SeqFacts
  <2>2. s[Len(s)].time \in Times
    <3> HIDE DEF Times
    <3> QED BY <2>1 DEF R
  <2> QED BY <2>2, TimesType
<1>5. m < Len(s) \/ m = Len(s)
  BY <1>2
<1> QED BY <1>2, <1>3, <1>4, <1>5

\* A time that is after all of them is put behind them.
LEMMA OneMoreRelease ==
  ASSUME NEW s \in Seq([id : Nat, time : Times]), NEW e \in [id : Nat, time : Times],
         \A i, j \in 1 .. Len(s) : i < j => s[i].time <= s[j].time, e.time > ReleaseTime(s)
  PROVE  LET r == Append(s, e)
         IN  /\ \A i, j \in 1 .. Len(r) : i < j => r[i].time <= r[j].time
             /\ \A m \in 1 .. Len(s) : m \in 1 .. Len(r) /\ r[m] = s[m]
             /\ \E m \in 1 .. Len(r) : r[m] = e
<1> DEFINE r == Append(s, e)
           R == [id : Nat, time : Times]
<1>1. \A m \in 1 .. Len(s) : s[m].time <= ReleaseTime(s)
  BY LastRelease
<1>2. ReleaseTime(s) \in Int /\ e.time \in Int /\ \A m \in 1 .. Len(s) : s[m].time \in Int
  <2>1. ReleaseTime(s) \in Times
    BY ReleaseTimeType
  <2>2. e.time \in Times /\ \A m \in 1 .. Len(s) : s[m].time \in Times
    <3>1. \A m \in 1 .. Len(s) : s[m] \in R
      <4>1. s \in Seq(R)
        OBVIOUS
      <4> HIDE DEF R
      <4> QED BY <4>1, SeqFacts
    <3> HIDE DEF Times
    <3> QED BY <3>1
  <2> QED BY <2>1, <2>2, TimesType
<1>3. s \in Seq(R) /\ e \in R
  OBVIOUS
<1> HIDE DEF R
<1>4. /\ Len(r) = Len(s) + 1 /\ Len(s) \in Nat
      /\ \A i \in 1 .. Len(s) : r[i] = s[i]
      /\ r[Len(s) + 1] = e
  BY <1>3, Appended
<1> HIDE DEF r
<1>5. ASSUME NEW i \in 1 .. Len(r), NEW j \in 1 .. Len(r), i < j PROVE r[i].time <= r[j].time
  <2>1. i \in 1 .. Len(s) /\ r[i] = s[i]
    BY <1>4, <1>5
  <2>2. CASE j = Len(s) + 1
    BY <1>1, <1>2, <1>4, <2>1, <2>2
  <2>3. CASE j # Len(s) + 1
    <3>1. j \in 1 .. Len(s) /\ r[j] = s[j]
      BY <1>4, <2>3
    <3> QED BY <1>5, <2>1, <3>1
  <2> QED BY <2>2, <2>3
<1>6. Len(s) + 1 \in 1 .. Len(r) /\ \A m \in 1 .. Len(s) : m \in 1 .. Len(r) /\ r[m] = s[m]
  BY <1>4
<1> QED BY <1>4, <1>5, <1>6 DEF r

\* What a packet that is transferred leaves at its ports: later than all that was there.
PortsAfter(p, q, n) ==
  /\ ports' \in [PortsInUse -> PortSet]
  /\ \A x \in PortsInUse : ports'[x].passed = ports[x].passed
  /\ \A x \in ClaimPorts :
       /\ \A i, j \in 1 .. Len(ports'[x].released) :
            i < j => ports'[x].released[i].time <= ports'[x].released[j].time
       /\ \A m \in 1 .. Len(ports[x].released) :
            m \in 1 .. Len(ports'[x].released) /\ ports'[x].released[m] = ports[x].released[m]
       /\ (\A i \in 1 .. n : Rx(p)[i] # x) => ports'[x].released = ports[x].released
  /\ \A i \in 1 .. n : \E m \in 1 .. Len(ports'[Rx(p)[i]].released) :
       ports'[Rx(p)[i]].released[m] = [id |-> p.id, time |-> q.tail[i]]

\* All of them.
LEMMA PortsReleased ==
  ASSUME PortsHold, NEW p, p.id \in Nat, NEW n, HasPath(p, n),
         NEW header \in [1 .. n -> Times], NEW flits \in [1 .. n -> Seq(Times)],
         \A i \in 1 .. n : Len(flits[i]) >= 3 /\ Last(flits[i]) \in Times,
         \A i \in 1 .. n : header[i] > ReleaseTime(ports[Rx(p)[i]].released),
         NEW q, TailsHold(p, q, header, flits, n), ports' = Left(ports, p, flits)
  PROVE  PortsAfter(p, q, n)
<1>1. ports \in [PortsInUse -> PortSet]
  BY DEF PortsHold
<1>2. \A x \in PortsInUse : LeftBehind(ports'[x], ports[x], p, flits, n, x)
  BY <1>1, PortsLeft
<1>3. ports' \in [PortsInUse -> PortSet]
  <2>1. ports' = [x \in PortsInUse |-> ports'[x]]
    BY <1>1 DEF Left
  <2>2. \A x \in PortsInUse : ports'[x] \in PortSet
    BY <1>2 DEF LeftBehind
  <2> QED BY <2>1, <2>2
<1>4. \A i \in 1 .. n : Rx(p)[i] \in ClaimPorts
  BY DEF HasPath
<1>5. ASSUME NEW x \in ClaimPorts, NEW i \in 1 .. n, Rx(p)[i] = x
      PROVE  /\ \A k, j \in 1 .. Len(ports'[x].released) :
                  k < j => ports'[x].released[k].time <= ports'[x].released[j].time
             /\ \A m \in 1 .. Len(ports[x].released) :
                  m \in 1 .. Len(ports'[x].released) /\ ports'[x].released[m] = ports[x].released[m]
             /\ \E m \in 1 .. Len(ports'[x].released) :
                  ports'[x].released[m] = [id |-> p.id, time |-> q.tail[i]]
  <2> DEFINE s == ports[x].released
             e == [id |-> p.id, time |-> q.tail[i]]
             r == Append(s, e)
  <2>1. x \in PortsInUse
    BY DEF ClaimPorts
  <2>2. s \in Seq([id : Nat, time : Times]) /\ ReleaseTime(s) \in Times
    BY <1>1, <2>1, PortType
  <2>3. \A k, j \in 1 .. Len(s) : k < j => s[k].time <= s[j].time
    BY DEF PortsHold
  <2>4. /\ q.tail[i] = Last(flits[i]) /\ header[i] <= q.tail[i] /\ q.tail[i] \in Times
        /\ header[i] > ReleaseTime(s)
    BY <1>5 DEF TailsHold
  <2>5. ports'[x].released = r
    BY <1>2, <1>5, <2>1, <2>4 DEF LeftBehind
  <2>6. q.tail[i] > ReleaseTime(s)
    <3>1. header[i] \in Int /\ q.tail[i] \in Int /\ ReleaseTime(s) \in Int
      BY <2>2, <2>4, TimesType
    <3> HIDE DEF s
    <3> QED BY <2>4, <3>1
  <2>7. e \in [id : Nat, time : Times] /\ e.time > ReleaseTime(s)
    <3> HIDE DEF Times, s
    <3> QED BY <2>4, <2>6
  <2> HIDE DEF s, e
  <2>8. /\ \A k, j \in 1 .. Len(r) : k < j => r[k].time <= r[j].time
        /\ \A m \in 1 .. Len(s) : m \in 1 .. Len(r) /\ r[m] = s[m]
        /\ \E m \in 1 .. Len(r) : r[m] = e
    BY <2>2, <2>3, <2>7, OneMoreRelease
  <2> HIDE DEF r
  <2> QED BY <2>5, <2>8 DEF s, e
<1>6. ASSUME NEW x \in ClaimPorts, \A i \in 1 .. n : Rx(p)[i] # x
      PROVE  ports'[x].released = ports[x].released
  BY <1>2, <1>6 DEF LeftBehind, ClaimPorts
<1>7. \A x \in PortsInUse : ports'[x].passed = ports[x].passed
  BY <1>2 DEF LeftBehind
<1>8. ASSUME NEW x \in ClaimPorts
      PROVE  /\ \A i, j \in 1 .. Len(ports'[x].released) :
                  i < j => ports'[x].released[i].time <= ports'[x].released[j].time
             /\ \A m \in 1 .. Len(ports[x].released) :
                  m \in 1 .. Len(ports'[x].released) /\ ports'[x].released[m] = ports[x].released[m]
  <2>1. CASE \E i \in 1 .. n : Rx(p)[i] = x
    BY <1>5, <2>1
  <2>2. CASE ~ \E i \in 1 .. n : Rx(p)[i] = x
    <3>1. ports'[x].released = ports[x].released
      BY <1>6, <2>2
    <3> QED BY <3>1 DEF PortsHold
  <2> QED BY <2>1, <2>2
<1>9. \A i \in 1 .. n : \E m \in 1 .. Len(ports'[Rx(p)[i]].released) :
        ports'[Rx(p)[i]].released[m] = [id |-> p.id, time |-> q.tail[i]]
  BY <1>4, <1>5
<1> QED BY <1>3, <1>6, <1>7, <1>8, <1>9 DEF PortsAfter

\* The packets on their way once o, which is behind all that has left its ports, is one of them.
LEMMA TimesAfter ==
  ASSUME Inv, NEW o \in Range(Unfinished_Packets), NEW p, p = pkt[o], NEW n, n = Len(p.rx),
         NEW header \in [1 .. n -> Times],
         \A i \in 1 .. n : header[i] > ReleaseTime(ports[Rx(p)[i]].released),
         NEW flits, NEW q, TailsHold(p, q, header, flits, n), PortsAfter(p, q, n),
         pkt'[o] = q, \A a \in Live : a # o => pkt'[a] = pkt[a], Live' = Live,
         Range(Unfinished_Packets') = Range(Unfinished_Packets) \ {o}
  PROVE  TimesHold'
<1> DEFINE On == Live \ Range(Unfinished_Packets)
<1>1. o \in Live /\ Live' \ Range(Unfinished_Packets') = On \union {o} /\ o \notin On
  BY DEF Inv, PoolHolds
<1>2. \A a \in Live : /\ DOMAIN pkt[a].rx = 1 .. Len(pkt[a].rx) /\ pkt[a].rx = Rx(pkt[a])
                      /\ \A i \in 1 .. Len(pkt[a].rx) : pkt[a].rx[i] \in ClaimPorts
  <2> TAKE a \in Live
  <2>1. HasPath(pkt[a], Len(pkt[a].rx)) /\ pkt[a].rx = Rx(pkt[a]) /\ DOMAIN pkt[a].rx = 1 .. Len(pkt[a].rx)
    BY PacketFacts, LiveFacts DEF Inv
  <2> QED BY <2>1 DEF HasPath
<1>3. /\ q.rx = p.rx /\ q.id = p.id /\ q.header = header /\ q.tail \in [1 .. n -> Times]
      /\ \A i \in 1 .. n : header[i] <= q.tail[i]
  BY StillFacts DEF TailsHold
<1>4. p.rx = Rx(p) /\ DOMAIN p.rx = 1 .. n /\ \A i \in 1 .. n : p.rx[i] \in ClaimPorts
  BY <1>1, <1>2
<1>5. \A x \in ClaimPorts : x \in PortsInUse
  BY DEF ClaimPorts
<1>6. ASSUME NEW a \in On PROVE OnItsWay(pkt[a])'
  <2> DEFINE b == pkt[a]
  <2>1. OnItsWay(b) /\ a # o /\ a \in Live
    BY <1>1 DEF Inv, TimesHold
  <2>2. pkt'[a] = b
    BY <2>1
  <2>3. \A i \in DOMAIN b.rx : b.rx[i] \in ClaimPorts
    BY <1>2
  <2>4. \A x \in ClaimPorts : \A m \in 1 .. Len(ports[x].released) :
          m \in 1 .. Len(ports'[x].released) /\ ports'[x].released[m] = ports[x].released[m]
    BY DEF PortsAfter
  <2> HIDE DEF b
  <2>5. \A i \in DOMAIN b.rx : \E m \in 1 .. Len(ports'[b.rx[i]].released) :
          ports'[b.rx[i]].released[m] = [id |-> b.id, time |-> b.tail[i]]
    <3> TAKE i \in DOMAIN b.rx
    <3> DEFINE x == b.rx[i]
    <3>1. x \in ClaimPorts
      BY <2>3
    <3>2. PICK m \in 1 .. Len(ports[x].released) : ports[x].released[m] = [id |-> b.id, time |-> b.tail[i]]
      BY <2>1 DEF OnItsWay
    <3> HIDE DEF x
    <3>3. m \in 1 .. Len(ports'[x].released) /\ ports'[x].released[m] = [id |-> b.id, time |-> b.tail[i]]
      BY <2>4, <3>1, <3>2
    <3> QED BY <3>3 DEF x
  <2> QED BY <2>1, <2>2, <2>5 DEF OnItsWay
<1>7. OnItsWay(pkt[o])'
  <2>1. \A i \in 1 .. n : \E m \in 1 .. Len(ports'[p.rx[i]].released) :
          ports'[p.rx[i]].released[m] = [id |-> p.id, time |-> q.tail[i]]
    BY <1>4 DEF PortsAfter
  <2>2. /\ q.header \in [DOMAIN q.rx -> Times] /\ q.tail \in [DOMAIN q.rx -> Times]
        /\ \A i \in DOMAIN q.rx :
             /\ q.header[i] <= q.tail[i]
             /\ \E m \in 1 .. Len(ports'[q.rx[i]].released) :
                  ports'[q.rx[i]].released[m] = [id |-> q.id, time |-> q.tail[i]]
    <3>1. DOMAIN q.rx = 1 .. n
      BY <1>3, <1>4
    <3>2. q.header \in [1 .. n -> Times] /\ q.tail \in [1 .. n -> Times]
      BY <1>3
    <3>3. \A i \in 1 .. n : q.header[i] <= q.tail[i]
      BY <1>3
    <3>4. \A i \in 1 .. n : \E m \in 1 .. Len(ports'[q.rx[i]].released) :
            ports'[q.rx[i]].released[m] = [id |-> q.id, time |-> q.tail[i]]
      <4> TAKE i \in 1 .. n
      <4>1. q.rx = p.rx /\ q.id = p.id
        BY <1>3
      <4>2. PICK m \in 1 .. Len(ports'[p.rx[i]].released) :
              ports'[p.rx[i]].released[m] = [id |-> p.id, time |-> q.tail[i]]
        BY <2>1
      <4>3. m \in 1 .. Len(ports'[q.rx[i]].released)
        BY <4>1, <4>2
      <4>4. ports'[q.rx[i]].released[m] = [id |-> q.id, time |-> q.tail[i]]
        BY <4>1, <4>2
      <4> QED BY <4>3, <4>4
    <3> QED BY <3>1, <3>2, <3>3, <3>4, Zenon
  <2>3. pkt'[o] = q
    OBVIOUS
  <2> HIDE DEF Times
  <2> QED BY <2>2, <2>3 DEF OnItsWay
<1>8. \A a \in On : pkt'[a] = pkt[a] /\ a \in Live
  BY <1>1
<1>9. ASSUME NEW a \in On, NEW i \in 1 .. Len(pkt[a].rx), NEW j \in 1 .. n, pkt[a].rx[i] = p.rx[j]
      PROVE  pkt[a].tail[i] < header[j]
  <2> DEFINE x == p.rx[j]
             s == ports[x].released
             b == pkt[a]
  <2>1. OnItsWay(b) /\ i \in DOMAIN b.rx /\ b.rx[i] = x
    BY <1>2, <1>8, <1>9 DEF Inv, TimesHold
  <2>2. x \in ClaimPorts /\ x \in PortsInUse
    BY <1>4, <1>5
  <2>3. s \in Seq([id : Nat, time : Times]) /\ ReleaseTime(s) \in Times
    BY <2>2, PortType DEF Inv, PortsHold
  <2>4. \A k, l \in 1 .. Len(s) : k < l => s[k].time <= s[l].time
    BY <2>2 DEF Inv, PortsHold
  <2> HIDE DEF b
  <2>5. b.tail[i] \in Times /\ \E m \in 1 .. Len(s) : s[m] = [id |-> b.id, time |-> b.tail[i]]
    BY <2>1 DEF OnItsWay
  <2>6. header[j] > ReleaseTime(s) /\ header[j] \in Times
    BY <1>4
  <2> HIDE DEF s, x
  <2>7. b.tail[i] <= ReleaseTime(s)
    <3>1. PICK m \in 1 .. Len(s) : s[m] = [id |-> b.id, time |-> b.tail[i]]
      BY <2>5
    <3>2. s[m].time <= ReleaseTime(s)
      BY <2>3, <2>4, LastRelease
    <3> QED BY <3>1, <3>2
  <2>8. b.tail[i] \in Int /\ ReleaseTime(s) \in Int /\ header[j] \in Int
    BY <2>3, <2>5, <2>6, TimesType
  <2>9. b.tail[i] < header[j]
    BY <2>6, <2>7, <2>8
  <2> QED BY <2>9 DEF b
<1>10. OneAtAPort'
  <2> SUFFICES ASSUME NEW a \in On \union {o}, NEW b \in On \union {o}, a # b,
                      NEW i \in Hops(pkt'[a]), NEW j \in Hops(pkt'[b]), Rx(pkt'[a])[i] = Rx(pkt'[b])[j]
               PROVE  pkt'[a].tail[i] < pkt'[b].header[j] \/ pkt'[b].tail[j] < pkt'[a].header[i]
    BY <1>1 DEF OneAtAPort, Hops, Rx
  <2>1. CASE a # o /\ b # o
    <3>1. a \in On /\ b \in On /\ pkt'[a] = pkt[a] /\ pkt'[b] = pkt[b]
      BY <1>8, <2>1
    <3> QED BY <3>1 DEF Inv, TimesHold, OneAtAPort
  <2>2. CASE a # o /\ b = o
    <3>1. a \in On /\ pkt'[a] = pkt[a] /\ pkt'[b] = q /\ a \in Live
      BY <1>8, <2>2
    <3>2. i \in 1 .. Len(pkt[a].rx) /\ j \in 1 .. n /\ pkt[a].rx[i] = p.rx[j]
      BY <1>2, <1>3, <1>4, <3>1 DEF Hops, Rx
    <3>3. pkt[a].tail[i] < header[j]
      BY <1>9, <3>1, <3>2
    <3> QED BY <1>3, <3>1, <3>3
  <2>3. CASE a = o /\ b # o
    <3>1. b \in On /\ pkt'[b] = pkt[b] /\ pkt'[a] = q /\ b \in Live
      BY <1>8, <2>3
    <3>2. j \in 1 .. Len(pkt[b].rx) /\ i \in 1 .. n /\ pkt[b].rx[j] = p.rx[i]
      BY <1>2, <1>3, <1>4, <3>1 DEF Hops, Rx
    <3>3. pkt[b].tail[j] < header[i]
      BY <1>9, <3>1, <3>2
    <3> QED BY <1>3, <3>1, <3>3
  <2> QED BY <2>1, <2>2, <2>3
<1> QED BY <1>1, <1>6, <1>7, <1>10 DEF TimesHold

\* A packet is transferred; its arrival is moved only to a later time that has not passed.
LEMMA TransferKeeps ==
  ASSUME Inv, Transfer, Finish_Packets' = <<>>,
         \A t \in Transactions : payload[t].finish <= payload'[t].finish
  PROVE  Inv'
<1> DEFINE k == main.place
           U == Unfinished_Packets
           o == U[k]
           p == pkt[o]
           n == Len(p.rx)
           header == HeadersOf(p)
           flits == FlitsOf(o, p, header)
           q == Transferred(p, header, flits)
           t == p.trans
<1>1. /\ main.state = "transfer" /\ k \in DOMAIN U /\ CheckWormHolePath(claims.claims, o, p)
      /\ ports' = Left(ports, p, flits) /\ pkt' = [pkt EXCEPT ![o] = q] /\ Schedule(q)
      /\ Unfinished_Packets' = RemoveAt(U, k) /\ main' = At("transfer", k + 1)
      /\ UNCHANGED <<now, pkt_peq, arrived, sender, Deleted_Packets, newPacket_num, stack, claims, unset>>
  BY DEF Transfer
<1>2. /\ U \in Seq(Nat) /\ IsInjective(U) /\ k \in 1 .. Len(U) /\ o \in Range(U) /\ o \in Live
      /\ o \in DOMAIN pkt
  <2>1. U \in Seq(Nat) /\ IsInjective(U) /\ Range(U) \subseteq Live
    BY DEF Inv, PoolHolds
  <2> HIDE DEF U
  <2>2. k \in 1 .. Len(U)
    BY <1>1, <2>1, SeqFacts
  <2>3. U[k] \in Range(U)
    BY <2>1, <2>2, SeqFacts
  <2> QED BY <2>1, <2>2, <2>3, LiveFacts
<1>3. /\ Range(Unfinished_Packets') = Range(U) \ {o} /\ Unfinished_Packets' \in Seq(Nat)
      /\ IsInjective(Unfinished_Packets')
  <2> HIDE DEF U
  <2> QED BY <1>1, <1>2, Removed
<1> HIDE DEF U, k, o, p, n, header, flits, q
<1>4. /\ t \in 1 .. Len(payload) /\ p.id = t /\ HasPath(p, n) /\ p.rx = Rx(p) /\ DOMAIN p.rx = 1 .. n
      /\ p.flits \in Nat /\ p.flits >= 3
      /\ Soonest(payload[t]) = p.send + Clk * (n + p.flits - 1)
  BY <1>2, PacketFacts DEF Inv, p, n
<1>5. /\ header \in [1 .. n -> Times] /\ header[n] >= p.send + n * Clk
      /\ \A i \in 1 .. n : header[i] > ReleaseTime(ports[Rx(p)[i]].released)
  <2>1. p = pkt[o] /\ n = Len(p.rx) /\ header = HeadersOf(p) /\ o \in Range(Unfinished_Packets)
    BY <1>2 DEF p, n, header, U
  <2> QED BY <1>1, <2>1, PathGranted
<1>6. n \in Nat /\ n >= 3 /\ \A i \in 1 .. n : Rx(p)[i] \in PortsInUse /\ Rx(p)[i] \in ClaimPorts
  BY <1>4 DEF HasPath, ClaimPorts
<1>7. /\ flits \in [1 .. n -> Seq(Times)] /\ Len(flits) = n
      /\ \A i \in 1 .. n :
           /\ Len(flits[i]) >= 3 /\ Last(flits[i]) \in Times
           /\ Last(flits[i]) >= header[i] + (p.flits - 1) * Clk
           /\ header[i] <= Last(flits[i])
  <2>1. \A i \in 1 .. n : /\ ports[Rx(p)[i]].last.times \in Seq(Times)
                          /\ Len(ports[Rx(p)[i]].last.times) = 3
    <3>1. ports \in [PortsInUse -> PortSet]
      BY DEF Inv, PortsHold
    <3> QED BY <1>6, <3>1, PortType
  <2>2. flits = FlitsOf(o, p, header)
    BY DEF flits
  <2>3. n \in Nat /\ header \in [1 .. n -> Times] /\ p.flits \in Nat /\ p.flits >= 3
    BY <1>4, <1>5, <1>6
  <2> HIDE DEF Times
  <2>4. LET fl == FlitsOf(o, p, header)
        IN  /\ fl \in [1 .. n -> Seq(Times)] /\ Len(fl) = n
            /\ \A i \in 1 .. n :
                 /\ Len(fl[i]) >= 3 /\ Last(fl[i]) \in Times
                 /\ Last(fl[i]) >= header[i] + (p.flits - 1) * Clk
                 /\ header[i] <= Last(fl[i])
    BY <2>1, <2>3, FlitsReceived
  <2> QED BY <2>2, <2>4
<1>8. TailsHold(p, q, header, flits, n)
  <2>1. p = [id |-> p.id, trans |-> p.trans, rx |-> p.rx, tx |-> p.tx, flits |-> p.flits,
             send |-> p.send, finished |-> p.finished, reCompute |-> p.reCompute,
             header |-> p.header, tail |-> p.tail]
    BY <1>2 DEF Inv, PacketsHold, IsPacket, p
  <2>2. q = Transferred(p, header, flits)
    BY DEF q
  <2>3. TailsHold(p, Transferred(p, header, flits), header, flits, n)
    BY <1>4, <1>5, <1>7, <2>1, TransferredFacts
  <2> QED BY <2>2, <2>3
<1>9. PortsAfter(p, q, n)
  <2>1. p.id \in Nat /\ ports' = Left(ports, p, flits) /\ PortsHold
    BY <1>1, <1>4 DEF Inv
  <2> QED BY <1>4, <1>5, <1>7, <1>8, <2>1, PortsReleased
<1>10. Still(p, q) /\ q.trans = t /\ q.finished \in Times /\ q.finished >= Soonest(payload[t])
       /\ ~ q.reCompute
  <2>1. Still(p, q) /\ q.finished = q.tail[n] /\ q.tail \in [1 .. n -> Times]
        /\ q.finished >= p.send + Clk * (n + p.flits - 1) /\ ~ q.reCompute
    BY <1>8 DEF TailsHold
  <2>2. q.trans = t
    BY <2>1, StillFacts
  <2>3. n \in 1 .. n
    BY <1>6
  <2>4. q.tail[n] \in Times
    BY <2>1, <2>3
  <2>5. q.finished >= Soonest(payload[t])
    BY <1>4, <2>1
  <2> QED BY <2>1, <2>2, <2>4, <2>5
<1>11. /\ PayloadsHold' /\ QueuesHold' /\ Len(payload') = Len(payload)
       /\ \A u \in 1 .. Len(payload) :
              /\ payload'[u].src = payload[u].src /\ payload'[u].dst = payload[u].dst
              /\ payload'[u].size = payload[u].size /\ payload'[u].send = payload[u].send
              /\ payload'[u].pkt = payload[u].pkt
              /\ u # t => payload'[u] = payload[u]
  <2>1. payload[t].finish <= payload'[t].finish
    <3>1. Transactions = 1 .. Len(payload)
      <4>1. payload \in Seq(PayloadSet)
        BY DEF Inv, PayloadsHold
      <4> QED BY <4>1, SeqFacts DEF Transactions
    <3> QED BY <1>4, <3>1
  <2>2. t = pkt[o].trans
    BY DEF p
  <2> HIDE DEF t
  <2> QED BY <1>1, <1>2, <1>10, <2>1, <2>2, Rescheduled
<1> HIDE DEF t
<1>12. /\ PacketsHold' /\ DOMAIN pkt' = DOMAIN pkt /\ pkt'[o] = q
       /\ \A a \in DOMAIN pkt : /\ a # o => pkt'[a] = pkt[a]
                                /\ pkt'[a].trans = pkt[a].trans /\ pkt'[a].rx = pkt[a].rx
                                /\ pkt'[a].id = pkt[a].id
  <2>1. PacketsHold /\ Still(pkt[o], q) /\ pkt' = [pkt EXCEPT ![o] = q]
    BY <1>1, <1>10 DEF Inv, p
  <2> QED BY <1>2, <1>11, <2>1, PacketReplaced
<1>13. \A a \in DOMAIN pkt : pkt[a].trans \in 1 .. Len(payload)
  BY PacketFacts DEF Inv
<1>14. Live' = Live
  BY <1>1, <1>11, <1>12, <1>13 DEF Live
<1>15. ArrivalsHold'
  <2> SUFFICES ASSUME NEW u \in 1 .. Len(payload)
               PROVE  /\ Waits(u)' => payload'[u].pkt = 0 /\ arrived[u] = <<>>
                      /\ ~ Waits(u)' /\ arrived[u] = <<>> => InNetwork(u)'
                      /\ arrived[u] \in {<<>>, <<payload'[u].finish>>}
                      /\ arrived[u] # <<>> => payload'[u].finish >= Soonest(payload'[u])
    BY <1>1, <1>11 DEF ArrivalsHold, Soonest
  <2>1. (Waits(u)' <=> Waits(u)) /\ (InNetwork(u)' <=> InNetwork(u)) /\ payload'[u].pkt = payload[u].pkt
    BY <1>1, <1>11, <1>12 DEF Waits, InNetwork
  <2>2. CASE u = t
    <3>1. arrived[t] = <<>>
      BY <1>2, LiveFacts DEF t, p
    <3> QED BY <2>1, <2>2, <3>1 DEF Inv, ArrivalsHold
  <2>3. CASE u # t
    <3>1. payload'[u] = payload[u]
      BY <1>11, <2>3
    <3> QED BY <2>1, <3>1 DEF Inv, ArrivalsHold
  <2> QED BY <2>2, <2>3
<1>16. ThreadsHold'
  <2>1. k \in Nat /\ k + 1 \in Nat
    BY <1>2
  <2>2. main' = [state |-> "transfer", wake |-> 0, place |-> k + 1]
    BY <1>1 DEF At
  <2>3. main' \in MainSet
    BY <2>1, <2>2, ZeroTime, MainAt DEF States
  <2>4. main'.state = "transfer"
    BY <2>2
  <2>5. /\ sender \in SenderSet /\ newPacket_num \in Nat /\ stack = <<>>
        /\ (sender.sends => main.state \in {"idle", "window"})
    BY <1>1 DEF Inv, ThreadsHold
  <2> QED BY <1>1, <2>3, <2>4, <2>5 DEF ThreadsHold
<1>17. PoolHolds'
  <2>1. /\ Deleted_Packets \in Seq(Nat) /\ IsInjective(Deleted_Packets)
        /\ Live \intersect Range(Deleted_Packets) = {}
        /\ DOMAIN pkt = Live \union Range(Deleted_Packets)
        /\ Range(U) \subseteq Live
        /\ \A a \in Live : pkt[a].reCompute <=> a \in Range(U)
    BY DEF Inv, PoolHolds, U
  <2>2. \A a \in Live : pkt'[a].reCompute <=> a \in Range(Unfinished_Packets')
    <3> TAKE a \in Live
    <3>1. a \in DOMAIN pkt
      BY LiveFacts
    <3>2. CASE a = o
      BY <1>3, <1>10, <1>12, <3>2
    <3>3. CASE a # o
      BY <1>3, <1>12, <2>1, <3>1, <3>3
    <3> QED BY <3>2, <3>3
  <2>3. Deleted_Packets' = Deleted_Packets
    BY <1>1
  <2>4. Range(Unfinished_Packets') \subseteq Live
    BY <1>3, <2>1
  <2> QED BY <1>3, <1>12, <1>14, <2>1, <2>2, <2>3, <2>4 DEF PoolHolds
<1>18. PortsHold'
  <2>1. /\ ports' \in [PortsInUse -> PortSet]
        /\ \A x \in PortsInUse : ports'[x].passed = ports[x].passed
        /\ \A x \in ClaimPorts : \A i, j \in 1 .. Len(ports'[x].released) :
             i < j => ports'[x].released[i].time <= ports'[x].released[j].time
    BY <1>9 DEF PortsAfter
  <2>2. ASSUME NEW x \in PortsInUse, NEW l \in 1 .. Len(ports[x].passed)
        PROVE  IsThere(ports[x].passed[l], x)'
    <3> DEFINE z == ports[x].passed[l]
    <3>1. IsThere(z, x) /\ ports'[x].passed[l] = z
      BY <2>1 DEF Inv, PortsHold
    <3> HIDE DEF z
    <3>2. z.pkt \in DOMAIN pkt
      BY <3>1, LiveFacts DEF IsThere
    <3>3. pkt'[z.pkt].rx = pkt[z.pkt].rx
      BY <1>12, <3>2
    <3> QED BY <1>14, <3>1, <3>3 DEF IsThere
  <2> QED BY <2>1, <2>2 DEF PortsHold
<1>19. StackHolds'
  <2>1. stack' = <<>>
    BY <1>1 DEF Inv, ThreadsHold
  <2> QED BY <2>1, NoStack
<1>20. TimesHold'
  <2>1. p = pkt[o] /\ n = Len(p.rx) /\ o \in Range(Unfinished_Packets)
        /\ Range(Unfinished_Packets') = Range(Unfinished_Packets) \ {o}
    BY <1>2, <1>3 DEF p, n, U
  <2>2. \A a \in Live : a # o => pkt'[a] = pkt[a]
    BY <1>12, LiveFacts
  <2> QED BY <1>5, <1>8, <1>9, <1>12, <1>14, <2>1, <2>2, TimesAfter
<1>21. ClaimsHold'
  <2>1. main'.state = "transfer" /\ main'.place >= 1
    BY <1>1, <1>2 DEF At
  <2>2. claims' = claims /\ claims \in PassSet
    BY <1>1 DEF Inv, ClaimsHold
  <2>3. ASSUME NEW a \in Range(Unfinished_Packets'), NEW i \in DOMAIN pkt'[a].rx,
               claims.claims[pkt'[a].rx[i]].owner = a
        PROVE  Granted(a, i)'
    <3> DEFINE b == pkt[a]
               x == b.rx[i]
    <3>1. a \in Range(Unfinished_Packets) /\ a # o /\ a \in DOMAIN pkt /\ a \in Live
      BY <1>3, LiveFacts DEF Inv, PoolHolds, U
    <3>2. pkt'[a] = b
      BY <1>12, <3>1
    <3>3. i \in DOMAIN b.rx /\ claims.claims[x].owner = a
      BY <2>3, <3>2
    <3>4. Granted(a, i)
      BY <1>1, <3>1, <3>3 DEF Inv, ClaimsHold
    <3>5. x \in ClaimPorts
      <4>1. HasPath(b, Len(b.rx)) /\ b.rx = Rx(b) /\ DOMAIN b.rx = 1 .. Len(b.rx)
        BY <3>1, PacketFacts DEF Inv
      <4> QED BY <3>3, <4>1 DEF HasPath
    <3>6. \A j \in 1 .. n : Rx(p)[j] # x
      <4>1. \A j \in 1 .. n : claims.claims[Rx(p)[j]].owner = o
        <5>1. Hops(p) = 1 .. n
          BY <1>4 DEF Hops
        <5> QED BY <1>1, <5>1 DEF CheckWormHolePath
      <4> QED BY <3>1, <3>3, <4>1
    <3>7. ports'[x].released = ports[x].released
      BY <1>9, <3>5, <3>6 DEF PortsAfter
    <3> QED BY <2>2, <3>2, <3>4, <3>7 DEF Granted
  <2> QED BY <2>1, <2>2, <2>3 DEF ClaimsHold
<1> QED BY <1>11, <1>12, <1>15, <1>16, <1>17, <1>18, <1>19, <1>20, <1>21 DEF Inv

-----------------------------------------------------------------------------
\* The invariant is inductive

\* A port that was not used yet.
LEMMA NewPortType == NewPort \in PortSet
<1>1. 0 \in Times
  BY ZeroTime
<1> DEFINE z == <<0, 0, 0>>
<1>2. z \in Seq(Times) /\ Len(z) = 3
  BY <1>1
<1> HIDE DEF z, Times
<1>3. NoFlits \in LastSet
  BY <1>2 DEF NoFlits, LastSet, z
<1> QED BY <1>3, EmptySeq DEF NewPort, PortSet

\* The empty sequence.
LEMMA NothingListed == Listed(<<>>) /\ Range(<<>>) = {} /\ IsInjective(<<>>) /\ DOMAIN <<>> = {} /\ Len(<<>>) = 0
BY DEF Listed, Range, IsInjective

\* It holds when the simulation starts.
LEMMA InitHolds == Init => Inv
<1> SUFFICES ASSUME Init PROVE Inv
  OBVIOUS
<1>1. /\ now = 0 /\ payload = <<>> /\ arrived = <<>> /\ pkt_peq = <<>> /\ complete_peq = <<>>
      /\ recompute_peq = <<>> /\ main = Idle /\ sender = Waiting /\ pkt = <<>>
      /\ Deleted_Packets = <<>> /\ Finish_Packets = <<>> /\ Unfinished_Packets = <<>>
      /\ newPacket_num = 0 /\ stack = <<>> /\ ports = [x \in PortsInUse |-> NewPort]
  BY DEF Init
<1>2. \A M : <<>> \in Seq(M)
  BY EmptySeq
<1>3. Live = {} /\ DOMAIN pkt = {}
  BY <1>1, NothingListed DEF Live
<1>4. PayloadsHold
  BY <1>1, <1>2, NothingListed DEF PayloadsHold
<1>5. QueuesHold
  BY <1>1, <1>2, NothingListed, ZeroTime DEF QueuesHold
<1>6. ArrivalsHold
  BY <1>1, NothingListed DEF ArrivalsHold
<1>7. ThreadsHold
  <2>1. Idle \in MainSet
    BY ZeroTime, MainAt DEF Idle, States
  <2> QED BY <1>1, <2>1 DEF ThreadsHold, SenderSet, Waiting, Idle
<1>8. PacketsHold
  BY <1>1, <1>3, NothingListed DEF PacketsHold
<1>9. PoolHolds
  BY <1>1, <1>2, <1>3, NothingListed DEF PoolHolds
<1>10. PortsHold
  <2>1. \A x \in PortsInUse : ports[x] = NewPort
    BY <1>1
  <2>2. ports \in [PortsInUse -> PortSet]
    BY <1>1, NewPortType
  <2>3. NewPort.passed = <<>> /\ NewPort.released = <<>>
    BY DEF NewPort
  <2>4. \A x \in ClaimPorts : x \in PortsInUse
    BY DEF ClaimPorts
  <2> QED BY <2>1, <2>2, <2>3, <2>4, NothingListed DEF PortsHold
<1>11. StackHolds
  BY <1>1, NothingListed DEF StackHolds
<1>12. TimesHold
  BY <1>3 DEF TimesHold, OneAtAPort
<1>13. ClaimsHold
  BY <1>1 DEF ClaimsHold, Idle
<1> QED BY <1>4, <1>5, <1>6, <1>7, <1>8, <1>9, <1>10, <1>11, <1>12, <1>13 DEF Inv

\* A step that changes nothing keeps it.
LEMMA StutterKeeps == Inv /\ UNCHANGED vars => Inv'
<1> SUFFICES ASSUME Inv, UNCHANGED vars PROVE Inv'
  OBVIOUS
<1>1. /\ UNCHANGED <<now, payload, queues, arrived, main, sender, pkt, pool, round, ports>>
      /\ UNCHANGED <<pkt_peq, newPacket_num, Unfinished_Packets, stack, claims>>
  BY DEF vars, queues, round
<1>2. /\ PayloadsHold' /\ QueuesHold' /\ ArrivalsHold' /\ PacketsHold' /\ PoolHolds' /\ PortsHold'
      /\ StackHolds' /\ TimesHold' /\ ClaimsHold'
  BY <1>1, PayloadsKept, QueuesKept, ArrivalsKept, PacketsKept, PoolKept, PortsKept, StackKept, TimesKept,
     ClaimsKept DEF Inv
<1>3. ThreadsHold'
  BY <1>1 DEF Inv, ThreadsHold
<1> QED BY <1>2, <1>3 DEF Inv

\* So does every step that moves no arrival to an earlier time or to one that has passed.
LEMMA StepKeeps == Inv /\ [Next]_vars /\ [MovedLater]_vars => Inv'
<1> SUFFICES ASSUME Inv, [Next]_vars, [MovedLater]_vars PROVE Inv'
  OBVIOUS
<1>1. CASE UNCHANGED vars
  BY <1>1, StutterKeeps
<1>2. CASE Next /\ MovedLater
  <2>1. CASE \E f \in Flows : Send(f)
    BY <2>1, SendKeeps
  <2>2. CASE Simulate
    <3>1. CASE OpenWindow \/ CloseWindow \/ Accept \/ StartSearch \/ StartPasses
      BY <3>1, OpenWindowKeeps, CloseWindowKeeps, AcceptKeeps, StartSearchKeeps, StartPassesKeeps
    <3>2. CASE Search
      BY <3>2, DeleteLaterPktKeeps, InvolveKeeps, SearchCongFlitKeeps, SearchOnKeeps, DelayLoserKeeps
         DEF Search
    <3>3. CASE Passes
      <4>1. CASE Transfer
        BY <1>2, <4>1, TransferKeeps DEF MovedLater
      <4>2. CASE Claim \/ WaitForPath \/ EndPass
        BY <4>2, ClaimKeeps, WaitForPathKeeps, EndPassKeeps
      <4> QED BY <3>3, <4>1, <4>2 DEF Passes
    <3> QED BY <2>2, <3>1, <3>2, <3>3 DEF Simulate
  <2>3. CASE Deliveries
    BY <2>3, SenderWakesKeeps, SimulatorSendKeeps, SenderWaitsKeeps DEF Deliveries
  <2>4. CASE Tick
    BY <2>4, TickKeeps
  <2> QED BY <1>2, <2>1, <2>2, <2>3, <2>4 DEF Next
<1> QED BY <1>1, <1>2

\* As long as no arrival is moved to an earlier time or to one that has passed, the inductive
\* invariant holds: the state of the simulator is what its parts say it is.
THEOREM NtsInvariant == Spec /\ NeverEarlier => []Inv
<1>1. Init => Inv
  BY InitHolds
<1>2. Inv /\ [Next]_vars /\ [MovedLater]_vars => Inv'
  BY StepKeeps
<1> QED BY <1>1, <1>2, PTL DEF Spec, NeverEarlier

\* ... every packet is delivered at most once, at the time last computed for it, however often its
\* delivery was moved (simulator.cpp:506-531, 111-140).
THEOREM NtsDeliveredOnce == Spec /\ NeverEarlier => []DeliveredOnce
<1>1. Inv => DeliveredOnce
  <2>1. ASSUME Inv PROVE Transactions = 1 .. Len(payload)
    <3>1. payload \in Seq(PayloadSet)
      BY <2>1 DEF Inv, PayloadsHold
    <3> QED BY <3>1, SeqFacts DEF Transactions
  <2> QED BY <2>1 DEF Inv, ArrivalsHold, DeliveredOnce
<1> QED BY <1>1, NtsInvariant, PTL

\* ... a packet object that is free is free once and not in use, so no two packets ever share one,
\* and none is lost (simulator.cpp:384-393, 156).
THEOREM NtsPoolSound == Spec /\ NeverEarlier => []PoolSound
<1>1. Inv => PoolSound
  <2> SUFFICES ASSUME Inv PROVE PoolSound
    OBVIOUS
  <2>1. Range(Finish_Packets) = {}
    BY NothingListed DEF Inv, PoolHolds
  <2> QED BY <2>1 DEF Inv, PoolHolds, PoolSound
<1> QED BY <1>1, NtsInvariant, PTL

\* ... no two packets on their way are at the same input at the same time, although they may have been
\* computed in different windows (simulator.cpp:456, port.h:138).
THEOREM NtsOneAtAPort == Spec /\ NeverEarlier => []OneAtAPort
<1>1. Inv => OneAtAPort
  BY DEF Inv, TimesHold
<1> QED BY <1>1, NtsInvariant, PTL

\* ... no packet is delivered sooner than in an empty network, a cycle for every port of its path and
\* one for every flit behind the header, whatever it meets and however often it is computed.
THEOREM NtsNoFasterThanAlone == Spec /\ NeverEarlier => []NoFasterThanAlone
<1>1. Inv => NoFasterThanAlone
  <2> SUFFICES ASSUME Inv PROVE NoFasterThanAlone
    OBVIOUS
  <2>1. Transactions = 1 .. Len(payload)
    <3>1. payload \in Seq(PayloadSet)
      BY DEF Inv, PayloadsHold
    <3> QED BY <3>1, SeqFacts DEF Transactions
  <2>2. ASSUME NEW t \in Transactions, arrived[t] # <<>>
        PROVE  Head(arrived[t]) >= Soonest(payload[t])
    <3>1. arrived[t] = <<payload[t].finish>> /\ payload[t].finish >= Soonest(payload[t])
      BY <2>1, <2>2 DEF Inv, ArrivalsHold
    <3> QED BY <3>1
  <2> QED BY <2>2 DEF NoFasterThanAlone, Soonest
<1> QED BY <1>1, NtsInvariant, PTL
================================================================================
