---------------------------- MODULE MCNtsNetwork ----------------------------
(* Packets that meet: at the inputs and outputs of switches 1 to 3 and at PEs   *)
(* 2 and 3, sent in the same window and while others are on their way.          *)
EXTENDS NtsTogether

\* In half cycles, and bytes.
MCFlows == {
  [src |-> 0, dst |-> 2, len |-> 4, at |-> {0, 4, 10}],
  [src |-> 1, dst |-> 2, len |-> 12, at |-> {4, 8}],
  [src |-> 4, dst |-> 3, len |-> 12, at |-> {0, 6}],
  [src |-> 2, dst |-> 3, len |-> 4, at |-> {6, 10}],
  [src |-> 4, dst |-> 16, len |-> 4, at |-> {4, 10}]}

\* Four packets, each sent once: two from PE 2, crossing those from 5 and 6.
HangFlows == {
  [src |-> 2, dst |-> 4, len |-> 4, at |-> {0}],
  [src |-> 2, dst |-> 0, len |-> 4, at |-> {2}],
  [src |-> 6, dst |-> 4, len |-> 4, at |-> {2}],
  [src |-> 5, dst |-> 0, len |-> 4, at |-> {2}]}

\* The ports start with zeroes, as after the first pass.
Zeroed == {{}}
=============================================================================
