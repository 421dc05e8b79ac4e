------------------------------- MODULE MemMap -------------------------------
(***************************************************************************)
(* The platform's address constants (noc/pe_mmap.h) and the three tables   *)
(* that must agree for a request to reach its memory and its response to   *)
(* find its way back:                                                      *)
(*   - the redirection table of SimpleAddressMap::crossbar_decode, which   *)
(*     sends every external-memory request of a PE to the NI of the PE's   *)
(*     own cluster;                                                        *)
(*   - the address ranges the four fore routers of the Crossbar compare,   *)
(*     and the rebasing CrossbarTop::crb_to_mem does after them;           *)
(*   - the cluster table the four back routers of the Crossbar compare.    *)
(* Channels are numbered 0..3 as the code's arrays are; NI 16 + c is the   *)
(* target NI of channel c.                                                 *)
(***************************************************************************)
EXTENDS Integers

CONSTANTS
  CoreSize,   \* GLOBAL_VIEW_MEMORY_SIZE_PER_CORE
  ExtBase,    \* GLOBAL_VIEW_EXTERNAL_MEMORY_BEGIN, and the mask 0xfffffff + 1
  MemSize     \* EXTERNAL_MEMORY_SIZE_PER_ONE

\* The 16 cores lie below the external memories, and memory 0 fits below
\* 2 * ExtBase, so that masking with 0xfffffff subtracts its base.
ASSUME MapAssumption ==
  /\ CoreSize \in Nat \ {0}
  /\ MemSize \in Nat \ {0}
  /\ ExtBase \in Nat \ {0}
  /\ 16 * CoreSize <= ExtBase
  /\ MemSize <= ExtBase

PE == 0..15
Chan == 0..3

MemBegin(c) == ExtBase + c * MemSize

\* The addresses the map gives to an external memory.
ExtAddr == ExtBase .. (ExtBase + 4 * MemSize - 1)

-----------------------------------------------------------------------------
(* crossbar_decode: the NI of each cluster, when the target is another     *)
(* external memory's.  A source outside the four lists keeps its target.   *)
\* Mutant: PE 5 listed with its right-hand neighbours.
DecodeClusterMisplaced ==
  [c \in Chan |-> CASE c = 0 -> {0, 1, 2}
                    [] c = 1 -> {3, 5, 6, 7, 11}
                    [] c = 2 -> {10, 13, 14, 15}
                    [] c = 3 -> {4, 8, 9, 12}]

DecodeCluster ==
  [c \in Chan |-> CASE c = 0 -> {0, 1, 2, 5}
                    [] c = 1 -> {3, 6, 7, 11}
                    [] c = 2 -> {10, 13, 14, 15}
                    [] c = 3 -> {4, 8, 9, 12}]

Redirect(target, source) ==
  LET own == {c \in Chan : source \in DecodeCluster[c]}
  IN  IF target \in 16..19 /\ own # {}
        THEN 16 + (CHOOSE c \in own : TRUE)
        ELSE target

(* The comparison chain of fore0_router .. fore3_router.                   *)
ForeDest(a) ==
  IF a >= MemBegin(0) /\ a < MemBegin(1) THEN 0
  ELSE IF a >= MemBegin(1) /\ a < MemBegin(2) THEN 1
  ELSE IF a >= MemBegin(2) /\ a < MemBegin(3) THEN 2
  ELSE 3

(* What crb_to_mem_<c>_process makes of the address: the mask for the      *)
(* first memory, a subtraction for the others.                             *)
\* Mutant: the last channel with the base of the one it was copied from.
RebaseCopied(a) ==
  IF a < MemBegin(1) THEN a % ExtBase
  ELSE IF a < MemBegin(2) THEN a - MemBegin(1)
  ELSE a - MemBegin(2)

Rebase(a) ==
  IF a < MemBegin(1) THEN a % ExtBase
  ELSE IF a < MemBegin(2) THEN a - MemBegin(1)
  ELSE IF a < MemBegin(3) THEN a - MemBegin(2)
  ELSE a - MemBegin(3)

(* The comparison chain of back0_router .. back3_router: the fourth        *)
(* cluster is the else branch.                                             *)
BackDest(source) ==
  IF source \in {0, 1, 2, 5} THEN 0
  ELSE IF source \in {3, 6, 7, 11} THEN 1
  ELSE IF source \in {10, 13, 14, 15} THEN 2
  ELSE 3
=============================================================================
