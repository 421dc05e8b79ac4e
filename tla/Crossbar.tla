------------------------------ MODULE Crossbar ------------------------------
(***************************************************************************)
(* The 4x4 crossbar of memsys/Crossbar.cpp: in each direction four router  *)
(* threads and four selecter threads, connected by sc_fifos of size one.   *)
(*                                                                         *)
(*   noc_to_sch[c] -> fore<c>_router -> fore_fifo[d]                       *)
(*                 -> fore<d>_selecter -> sch_to_mem[d]                    *)
(*   mem_to_sch[c] -> back<c>_router -> back_fifo[d]                       *)
(*                 -> back<d>_selecter -> sch_to_noc[d]                    *)
(*                                                                         *)
(* A place is a FIFO, a payload event queue or the local variable of a     *)
(* thread, and at[place] is what it holds.  A thread that has read a       *)
(* message keeps it in its local variable until the FIFO it writes to has  *)
(* room, so reading and writing are two steps.                             *)
(*                                                                         *)
(* CrossbarTop extends this module with the threads around the crossbar,   *)
(* which fill the input FIFOs and empty the output FIFOs.                  *)
(***************************************************************************)
EXTENDS MemMap, Sequences

CONSTANTS
  Trans,     \* payload pointers
  Stages     \* the kinds of places: FabricStages, or more

VARIABLES
  at,        \* at[<<stage, channel>>]: the messages held there
  addr       \* addr[t]: the address field of payload t

FabricStages ==
  {"noc_to_sch", "fore_router", "fore_fifo", "fore_selecter", "sch_to_mem",
   "mem_to_sch", "back_router", "back_fifo", "back_selecter", "sch_to_noc"}

ASSUME StagesAssumption == FabricStages \subseteq Stages

Place == Stages \X Chan

NoSource == -1

(* A NoC transaction: the payload it carries, its source_id extension and  *)
(* the channel its target address 16 + chan names.                         *)
Msg == [trans : Trans, source : PE \cup {NoSource}, chan : Chan]

Free(x) == at[x] = {}

(* m leaves place x and arrives at place y as n.                           *)
Carry(m, x, n, y) ==
  at' = [at EXCEPT ![x] = @ \ {m}, ![y] = @ \cup {n}]

Move(m, x, y) == Carry(m, x, m, y)

(* A thread that holds message m in x passes it to y, which has room.      *)
Transfer(m, x, y) ==
  /\ Free(y)
  /\ Move(m, x, y)
  /\ UNCHANGED addr

(* A thread reads what x holds into y.                                     *)
Pass(x, y) == \E m \in at[x] : Transfer(m, x, y)

-----------------------------------------------------------------------------
ForeRouterRead(c) == Pass(<<"noc_to_sch", c>>, <<"fore_router", c>>)

ForeRouterWrite(c) ==
  \E m \in at[<<"fore_router", c>>] :
    Transfer(m, <<"fore_router", c>>, <<"fore_fifo", ForeDest(addr[m.trans])>>)

\* Mutant: the selecter reads again before it has written.
ForeSelecterReadAgain(d) ==
  /\ \E m \in at[<<"fore_fifo", d>>] :
       at' = [at EXCEPT ![<<"fore_fifo", d>>] = @ \ {m},
                        ![<<"fore_selecter", d>>] = {m}]
  /\ UNCHANGED addr

ForeSelecterRead(d) == Pass(<<"fore_fifo", d>>, <<"fore_selecter", d>>)

ForeSelecterWrite(d) == Pass(<<"fore_selecter", d>>, <<"sch_to_mem", d>>)

BackRouterRead(c) == Pass(<<"mem_to_sch", c>>, <<"back_router", c>>)

BackRouterWrite(c) ==
  \E m \in at[<<"back_router", c>>] :
    Transfer(m, <<"back_router", c>>, <<"back_fifo", BackDest(m.source)>>)

BackSelecterRead(d) == Pass(<<"back_fifo", d>>, <<"back_selecter", d>>)

BackSelecterWrite(d) == Pass(<<"back_selecter", d>>, <<"sch_to_noc", d>>)

FabricStep(c) ==
  \/ ForeRouterRead(c) \/ ForeRouterWrite(c)
  \/ ForeSelecterRead(c) \/ ForeSelecterWrite(c)
  \/ BackRouterRead(c) \/ BackRouterWrite(c)
  \/ BackSelecterRead(c) \/ BackSelecterWrite(c)

-----------------------------------------------------------------------------
TypeOK ==
  /\ at \in [Place -> SUBSET Msg]
  /\ addr \in [Trans -> Nat]
  /\ \A st \in FabricStages, c \in Chan : \A m, n \in at[<<st, c>>] : m = n

(* A payload is in at most one place: no message is duplicated on its way, *)
(* although up to four routers write the same FIFO.                        *)
AtMostOnce ==
  \A x, y \in Place : \A m \in at[x], n \in at[y] :
    m.trans = n.trans => x = y /\ m = n

(* The crossbar implements the router ChannelRouter describes: per input   *)
(* and output nothing is lost, duplicated, misdelivered or reordered, for  *)
(* every interleaving of its sixteen threads.                              *)
AsSeq(S) == IF S = {} THEN <<>> ELSE <<CHOOSE m \in S : TRUE>>

Dest(d, m) == IF d = "fore" THEN ForeDest(addr[m.trans]) ELSE BackDest(m.source)

Tagged(d, S) == {[trans |-> m.trans, chan |-> m.chan, to |-> Dest(d, m)] : m \in S}

FirstStage == [fore |-> "noc_to_sch", back |-> "mem_to_sch"]
LastStage == [fore |-> "sch_to_mem", back |-> "sch_to_noc"]
Router == [fore |-> "fore_router", back |-> "back_router"]
Fifo == [fore |-> "fore_fifo", back |-> "back_fifo"]
Selecter == [fore |-> "fore_selecter", back |-> "back_selecter"]

InTransit(d, i, o) ==
  LET held(st, c) ==
        AsSeq({m \in Tagged(d, at[<<st, c>>]) : m.chan = i /\ m.to = o})
  IN  held(Selecter[d], o) \o held(Fifo[d], o) \o held(Router[d], i)

Abstract ==
  INSTANCE ChannelRouter WITH
    Dir <- {"fore", "back"},
    Message <- [trans : Trans, chan : Chan, to : Chan],
    input <- [d \in {"fore", "back"} |->
               [i \in Chan |-> Tagged(d, at[<<FirstStage[d], i>>])]],
    queue <- [d \in {"fore", "back"} |->
               [i \in Chan |-> [o \in Chan |-> InTransit(d, i, o)]]],
    output <- [d \in {"fore", "back"} |->
               [o \in Chan |-> Tagged(d, at[<<LastStage[d], o>>])]]

RefinesRouter == Abstract!Spec
=============================================================================
