------------------------------ MODULE NtsMesh ------------------------------
(***************************************************************************)
(* The mesh the network simulator routes in: 4x4 switches with a           *)
(* processing element each, four external memories at the rim, and the     *)
(* XY path of a packet as the ports it goes through.                       *)
(***************************************************************************)
EXTENDS Integers, Sequences, SequencesExt

\* op over seq from its front (FoldLeft, which is slow to evaluate here).
Fold(op(_, _), base, seq) ==
  LET r[k \in 0 .. Len(seq)] ==
        IF k = 0 THEN base ELSE CHOOSE v \in {op(a, seq[k]) : a \in {r[k - 1]}} : TRUE
  IN  r[Len(seq)]

\* The sequence s itself, which TLC then evaluates once and not at every use.
Whole(s) == s \o <<>>

PE == 0 .. 19
Switches == 0 .. 15

\* DIR
IP == 0
N == 1
E == 2
S == 3
W == 4
Dirs == {IP, N, E, S, W}

RowOf(s) == s \div 4
ColOf(s) == s % 4

\* The switch a PE sits at; the external memories are 16(0,1), 17(1,3),
\* 18(3,2), 19(2,0).
SwitchOf(pe) == CASE pe < 16 -> pe [] pe = 16 -> 1 [] pe = 17 -> 7
                  [] pe = 18 -> 14 [] OTHER -> 8

\* The port of that switch it is wired to.
WiredTo(pe) == IF pe < 16 THEN IP ELSE pe - 15

Sign(n) == IF n < 0 THEN -1 ELSE IF n > 0 THEN 1 ELSE 0
Dist(n) == IF n < 0 THEN -n ELSE n

\* The switches from src to dst: along the columns first, then the rows.
TrPath_SW(src, dst) ==
  LET from == SwitchOf(src)  to == SwitchOf(dst)
      dc == ColOf(to) - ColOf(from)
      dr == RowOf(to) - RowOf(from)
  IN  [k \in 1 .. Dist(dc) + Dist(dr) + 1 |->
         IF k - 1 <= Dist(dc) THEN from + Sign(dc) * (k - 1)
         ELSE from + dc + 4 * Sign(dr) * (k - 1 - Dist(dc))]

\* Mutant: rows first, then columns.
RowsFirst(src, dst) ==
  LET from == SwitchOf(src)  to == SwitchOf(dst)
      dc == ColOf(to) - ColOf(from)
      dr == RowOf(to) - RowOf(from)
  IN  [k \in 1 .. Dist(dc) + Dist(dr) + 1 |->
         IF k - 1 <= Dist(dr) THEN from + 4 * Sign(dr) * (k - 1)
         ELSE from + 4 * dr + Sign(dc) * (k - 1 - Dist(dr))]

\* The port by which a packet leaves switch a for its neighbour b, and the one
\* by which it enters b.
LeavesBy(a, b) == CASE ColOf(a) > ColOf(b) -> W [] ColOf(a) < ColOf(b) -> E
                    [] RowOf(a) > RowOf(b) -> N [] OTHER -> S
EntersBy(a, b) == CASE ColOf(b) > ColOf(a) -> W [] ColOf(b) < ColOf(a) -> E
                    [] RowOf(b) > RowOf(a) -> N [] OTHER -> S

\* A port is named by where it is: <<"rx", switch, direction>> and
\* <<"tx", switch, direction>> for the inputs and outputs of a switch,
\* <<"out", pe, IP>> and <<"in", pe, IP>> for those of a PE.
\* TrPath_rx starts with the sender's port and ends with the receiver's;
\* TrPath_tx has, in between, the port by which each switch is left.
SearchRxPath(src, dst) ==
  LET sw == TrPath_SW(src, dst)
  IN  <<<<"out", src, IP>>>>
      \o [i \in DOMAIN sw |->
            <<"rx", sw[i], IF i = 1 THEN WiredTo(src) ELSE EntersBy(sw[i - 1], sw[i])>>]
      \o <<<<"in", dst, IP>>>>

SearchTxPath(src, dst) ==
  LET sw == TrPath_SW(src, dst)
  IN  <<<<"out", src, IP>>>>
      \o [i \in DOMAIN sw |->
            <<"tx", sw[i], IF i = Len(sw) THEN WiredTo(dst) ELSE LeavesBy(sw[i], sw[i + 1])>>]
      \o <<<<"in", dst, IP>>>>
=============================================================================
