-------------------------- MODULE CrossbarTop_proofs --------------------------
(***************************************************************************)
(* Every answer goes back to the PE that asked, and the threads of the     *)
(* crossbar implement ChannelRouter, for every number of payloads and      *)
(* requests and every size of the memories.  The requests come to the      *)
(* right NI: the two keys per region that SimpleAddressMap keeps answer    *)
(* what a search of the regions would, after every insertion and for every *)
(* size of the regions, and the redirection sends every request to the NI  *)
(* that gets its answer.                                                   *)
(***************************************************************************)
EXTENDS CrossbarTop, AddressMap, SequenceTheorems, TLAPS

-----------------------------------------------------------------------------
\* The tables of the memory map

(* A request for an external memory is redirected to the channel whose     *)
(* back router gets the response: the table of crossbar_decode is the one  *)
(* of back0_router .. back3_router.                                        *)
THEOREM RedirectAgrees ==
  \A s \in PE, c \in Chan : Redirect(16 + c, s) = 16 + BackDest(s)
<1> SUFFICES ASSUME NEW s \in PE, NEW c \in Chan
             PROVE  Redirect(16 + c, s) = 16 + BackDest(s)
  OBVIOUS
<1> DEFINE own == {d \in Chan : s \in DecodeCluster[d]}
<1>1. DecodeCluster[0] = {0, 1, 2, 5} /\ DecodeCluster[1] = {3, 6, 7, 11}
      /\ DecodeCluster[2] = {10, 13, 14, 15} /\ DecodeCluster[3] = {4, 8, 9, 12}
  BY DEF DecodeCluster, Chan
<1>2. own = {BackDest(s)}
  <2>1. ASSUME NEW d \in Chan
        PROVE  s \in DecodeCluster[d] <=> d = BackDest(s)
    BY <1>1 DEF Chan, PE, BackDest
  <2>2. BackDest(s) \in Chan
    BY DEF BackDest, Chan
  <2> QED BY <2>1, <2>2
<1>3. 16 + c \in 16..19
  BY DEF Chan
<1> QED BY <1>2, <1>3 DEF Redirect

LEMMA BackDestType == \A s : BackDest(s) \in Chan
BY DEF BackDest, Chan

LEMMA ForeDestType == \A a : ForeDest(a) \in Chan
BY DEF ForeDest, Chan

LEMMA ModOnce ==
  ASSUME NEW a \in Nat, NEW n \in Nat \ {0}, n <= a, a < 2 * n
  PROVE  a % n = a - n
<1> DEFINE q == a \div n
           r == a % n
<1>1. q \in Int /\ r \in 0 .. (n - 1) /\ a = n * q + r
  OBVIOUS
<1> HIDE DEF q, r
<1>2. q = 1
  <2>1. CASE q >= 2
    <3>1. n * q >= n * 2
      BY <1>1, <2>1
    <3> QED BY <3>1, <1>1
  <2>2. CASE q <= 0
    <3>1. n * q <= 0
      BY <1>1, <2>2
    <3> QED BY <3>1, <1>1
  <2> QED BY <1>1, <2>1, <2>2
<1>3. r = a - n
  BY <1>1, <1>2
<1> QED BY <1>3 DEF r

(* Rebasing undoes the memory map: the address a fore router sends to      *)
(* channel c becomes an offset inside memory c, the one it names.          *)
THEOREM RebaseIsOffset ==
  \A a \in ExtAddr :
    /\ Rebase(a) \in 0 .. (MemSize - 1)
    /\ a = MemBegin(ForeDest(a)) + Rebase(a)
<1> SUFFICES ASSUME NEW a \in ExtAddr
             PROVE  /\ Rebase(a) \in 0 .. (MemSize - 1)
                    /\ a = MemBegin(ForeDest(a)) + Rebase(a)
  OBVIOUS
<1> USE MapAssumption
<1>1. a \in Nat /\ a >= ExtBase /\ a < ExtBase + 4 * MemSize
  BY DEF ExtAddr
<1>2. /\ MemBegin(0) = ExtBase
      /\ MemBegin(1) = ExtBase + MemSize
      /\ MemBegin(2) = ExtBase + 2 * MemSize
      /\ MemBegin(3) = ExtBase + 3 * MemSize
  BY DEF MemBegin
<1>3. CASE a < MemBegin(1)
  <2>1. a % ExtBase = a - ExtBase
    <3>1. a < 2 * ExtBase
      BY <1>1, <1>2, <1>3
    <3> QED BY <3>1, <1>1, ModOnce
  <2> QED BY <1>1, <1>2, <1>3, <2>1 DEF Rebase, ForeDest
<1>4. CASE a >= MemBegin(1)
  BY <1>1, <1>2, <1>4 DEF Rebase, ForeDest
<1> QED BY <1>1, <1>2, <1>3, <1>4

-----------------------------------------------------------------------------
\* The stages of a message

ForeStages == {"req_noc_peq", "noc_to_crb", "noc_to_sch", "fore_router",
               "fore_fifo", "fore_selecter", "sch_to_mem"}
ForeRouted == {"fore_fifo", "fore_selecter", "sch_to_mem"}

BackStages == {"mem_to_crb", "mem_to_sch", "back_router", "back_fifo",
               "back_selecter", "sch_to_noc", "ni_rsp_peq"}
BackRouted == {"back_fifo", "back_selecter", "sch_to_noc", "ni_rsp_peq"}

(* What holds of a message m on channel c at stage st.                     *)
Unmapped(t) == \A d \in Chan : mapping[d][t] = NoSource

\* The NI the answer will come back to, and no other, knows who asked.
Known(t) ==
  /\ req[t].kind \in {"read", "write"}
  /\ IsRead(t) => niMap[BackDest(req[t].source)][t] = req[t].source
  /\ \A d \in Chan : niMap[d][t] # NoSource => d = BackDest(req[t].source)

OnTheWayIn(st, c, m) ==
  /\ m.source = req[m.trans].source
  /\ addr[m.trans] = req[m.trans].addr
  /\ Unmapped(m.trans)
  /\ st \in ForeRouted => ForeDest(addr[m.trans]) = c

InMemory(c, m) ==
  /\ addr[m.trans] \in 0 .. (MemSize - 1)
  /\ req[m.trans].addr = MemBegin(c) + addr[m.trans]
  /\ IsRead(m.trans) => mapping[c][m.trans] = req[m.trans].source
  /\ \A d \in Chan : mapping[d][m.trans] # NoSource => d = c

OnTheWayOut(st, c, m) ==
  /\ m.source = req[m.trans].source
  /\ Unmapped(m.trans)
  /\ st \in BackRouted => BackDest(m.source) = c

Good(st, c, m) ==
  /\ st \in TopStages
  /\ Known(m.trans)
  /\ st \in ForeStages => OnTheWayIn(st, c, m)
  /\ st \in MemoryStages => InMemory(c, m)
  /\ st \in BackStages => OnTheWayOut(st, c, m)
  /\ st \in BackStages \cup {"rsp_ip_peq"} => IsRead(m.trans)

AllGood == \A st \in Stages, c \in Chan : \A m \in at[<<st, c>>] : Good(st, c, m)

AtType == at \in [Place -> SUBSET Msg]

OnePerPlace == \A st \in FabricStages, c \in Chan : \A m, n \in at[<<st, c>>] : m = n

IInv == TopTypeOK /\ AtMostOnce /\ AllGood /\ NoStaleSource

(* Nothing an action does with payload t touches another payload.          *)
Frame(t) ==
  \A u \in Trans : u # t =>
    /\ req'[u] = req[u]
    /\ addr'[u] = addr[u]
    /\ \A d \in Chan : mapping'[d][u] = mapping[d][u] /\ niMap'[d][u] = niMap[d][u]

-----------------------------------------------------------------------------
LEMMA StageFacts ==
  /\ TopStages = ForeStages \cup MemoryStages \cup BackStages
  /\ FabricStages \subseteq TopStages
  /\ TopStages \subseteq Stages
BY TopStagesAssumption
   DEF TopStages, FabricStages, ForeStages, MemoryStages, BackStages

LEMMA PlaceIn == \A st \in TopStages, c \in Chan : <<st, c>> \in Place
BY StageFacts DEF Place

(* Carrying a message from one place to another moves it and duplicates    *)
(* nothing.                                                                *)
LEMMA CarryMoves ==
  ASSUME AtType, AtMostOnce, NEW x \in Place, NEW y \in Place,
         NEW m \in at[x], NEW n \in Msg, n.trans = m.trans,
         Carry(m, x, n, y)
  PROVE  /\ AtType'
         /\ \A z \in Place : \A k \in at'[z] :
              (z = y /\ k = n) \/ (k \in at[z] /\ k.trans # m.trans)
         /\ AtMostOnce'
<1>1. AtType'
  BY DEF AtType, Carry
<1>2. ASSUME NEW z \in Place, NEW k \in at'[z]
      PROVE  (z = y /\ k = n) \/ (k \in at[z] /\ k.trans # m.trans)
  <2>1. \/ k \in at[z] /\ ~(z = x /\ k = m)
        \/ z = y /\ k = n
    BY DEF Carry, AtType
  <2>2. k \in at[z] /\ ~(z = x /\ k = m) => k.trans # m.trans
    BY DEF AtMostOnce
  <2> QED BY <2>1, <2>2
<1>3. AtMostOnce'
  <2> SUFFICES ASSUME NEW p \in Place, NEW q \in Place,
                      NEW k \in at'[p], NEW l \in at'[q], k.trans = l.trans
               PROVE  p = q /\ k = l
    BY DEF AtMostOnce
  <2>1. (p = y /\ k = n) \/ (k \in at[p] /\ k.trans # m.trans)
    BY <1>2
  <2>2. (q = y /\ l = n) \/ (l \in at[q] /\ l.trans # m.trans)
    BY <1>2
  <2>3. CASE p = y /\ k = n
    BY <2>2, <2>3
  <2>4. CASE k \in at[p] /\ k.trans # m.trans
    <3>1. l \in at[q]
      BY <2>2, <2>4
    <3> QED BY <2>4, <3>1 DEF AtMostOnce
  <2> QED BY <2>1, <2>3, <2>4
<1> QED BY <1>1, <1>2, <1>3

LEMMA GoodFrame ==
  ASSUME NEW t, Frame(t), NEW st, NEW c \in Chan, NEW k \in Msg, k.trans # t,
         Good(st, c, k)
  PROVE  Good(st, c, k)'
<1>1. k.trans \in Trans
  BY DEF Msg
<1>2. /\ req'[k.trans] = req[k.trans]
      /\ addr'[k.trans] = addr[k.trans]
      /\ \A d \in Chan : mapping'[d][k.trans] = mapping[d][k.trans]
                         /\ niMap'[d][k.trans] = niMap[d][k.trans]
  BY <1>1 DEF Frame
<1>3. BackDest(req[k.trans].source) \in Chan
  BY BackDestType
<1>4. Known(k.trans)'
  BY <1>2, <1>3 DEF Good, Known, IsRead
<1>5. OnTheWayIn(st, c, k) => OnTheWayIn(st, c, k)'
  BY <1>2 DEF OnTheWayIn, Unmapped
<1>6. InMemory(c, k) => InMemory(c, k)'
  BY <1>2 DEF InMemory, IsRead
<1>7. OnTheWayOut(st, c, k) => OnTheWayOut(st, c, k)'
  BY <1>2 DEF OnTheWayOut, Unmapped
<1> QED BY <1>2, <1>4, <1>5, <1>6, <1>7 DEF Good, IsRead

(* The step every thread takes: message m becomes n on its way from place  *)
(* <<sx, c>> to <<sy, d>>, and no other payload is touched.                *)
LEMMA CarryKeeps ==
  ASSUME AtType, OnePerPlace, AtMostOnce, AllGood,
         NEW sx \in TopStages, NEW sy \in TopStages,
         NEW c \in Chan, NEW d \in Chan,
         NEW m \in at[<<sx, c>>], NEW n \in Msg, n.trans = m.trans,
         Carry(m, <<sx, c>>, n, <<sy, d>>),
         sy \in FabricStages => Free(<<sy, d>>),
         Frame(m.trans), Good(sy, d, n)'
  PROVE  AtType' /\ OnePerPlace' /\ AtMostOnce' /\ AllGood'
<1>1. <<sx, c>> \in Place /\ <<sy, d>> \in Place
  BY PlaceIn
<1>2. /\ AtType' /\ AtMostOnce'
      /\ \A z \in Place : \A k \in at'[z] :
           (z = <<sy, d>> /\ k = n) \/ (k \in at[z] /\ k.trans # m.trans)
  BY <1>1, CarryMoves
<1>3. OnePerPlace'
  <2> SUFFICES ASSUME NEW st \in FabricStages, NEW e \in Chan,
                      NEW k \in at'[<<st, e>>], NEW l \in at'[<<st, e>>]
               PROVE  k = l
    BY DEF OnePerPlace
  <2>1. <<st, e>> \in Place
    BY PlaceIn, StageFacts
  <2>2. <<st, e>> = <<sy, d>> => at[<<st, e>>] = {}
    BY DEF Free
  <2>3. k \in at[<<st, e>>] /\ l \in at[<<st, e>>] => k = l
    BY DEF OnePerPlace
  <2> QED BY <1>2, <2>1, <2>2, <2>3
<1>4. AllGood'
  <2> SUFFICES ASSUME NEW st \in Stages, NEW e \in Chan, NEW k \in at'[<<st, e>>]
               PROVE  Good(st, e, k)'
    BY DEF AllGood
  <2>1. <<st, e>> \in Place
    BY DEF Place
  <2>2. CASE <<st, e>> = <<sy, d>> /\ k = n
    <3>1. st = sy /\ e = d
      BY <2>2
    <3> QED BY <2>2, <3>1
  <2>3. CASE k \in at[<<st, e>>] /\ k.trans # m.trans
    <3>1. k \in Msg /\ Good(st, e, k)
      BY <2>1, <2>3 DEF AtType, AllGood
    <3> QED BY <2>3, <3>1, GoodFrame
  <2> QED BY <1>2, <2>1, <2>2, <2>3
<1> QED BY <1>2, <1>3, <1>4

-----------------------------------------------------------------------------
PayloadTypes ==
  /\ addr \in [Trans -> Nat]
  /\ req \in [Trans -> Request \cup {Idle}]
  /\ mapping \in [Chan -> [Trans -> PE \cup {NoSource}]]
  /\ niMap \in [Chan -> [Trans -> PE \cup {NoSource}]]

AckTypes ==
  /\ ackWait \in [Chan -> BOOLEAN]
  /\ ackEvent \in [Chan -> BOOLEAN]
  /\ niWait \in [Chan -> BOOLEAN]
  /\ niEvent \in [Chan -> BOOLEAN]
  /\ issued \in 0..MaxRequests

LEMMA Parts ==
  IInv <=> /\ AtType /\ OnePerPlace /\ PayloadTypes /\ AckTypes
           /\ AtMostOnce /\ AllGood /\ NoStaleSource
BY DEF IInv, TopTypeOK, TypeOK, AtType, OnePerPlace, PayloadTypes, AckTypes

LEMMA PartsNext ==
  (/\ AtType /\ OnePerPlace /\ PayloadTypes /\ AckTypes
   /\ AtMostOnce /\ AllGood /\ NoStaleSource)' => IInv'
BY DEF IInv, TopTypeOK, TypeOK, AtType, OnePerPlace, PayloadTypes, AckTypes

\* What a message in a place is known to be.
LEMMA Held ==
  ASSUME IInv, NEW st \in TopStages, NEW c \in Chan, NEW m \in at[<<st, c>>]
  PROVE  m \in Msg /\ m.trans \in Trans /\ Good(st, c, m)
<1>1. AtType /\ AllGood
  BY Parts
<1>2. m \in Msg
  BY <1>1, PlaceIn DEF AtType
<1>3. Good(st, c, m)
  BY <1>1, StageFacts DEF AllGood
<1> QED BY <1>2, <1>3 DEF Msg

(* A step that only moves a message, of the crossbar or around it.         *)
LEMMA MoveKeeps ==
  ASSUME IInv, NEW sx \in TopStages, NEW sy \in TopStages,
         NEW c \in Chan, NEW d \in Chan, NEW m \in at[<<sx, c>>],
         Move(m, <<sx, c>>, <<sy, d>>),
         sy \in FabricStages => Free(<<sy, d>>),
         UNCHANGED <<addr, req, mapping, niMap>>, AckTypes',
         Good(sy, d, m)
  PROVE  IInv'
<1>1. /\ AtType /\ OnePerPlace /\ PayloadTypes /\ AckTypes
      /\ AtMostOnce /\ AllGood /\ NoStaleSource
  BY Parts
<1>2. m \in Msg /\ m.trans \in Trans
  BY Held
<1>3. Frame(m.trans)
  BY DEF Frame
<1>4. Good(sy, d, m)'
  BY DEF Good, Known, OnTheWayIn, InMemory, OnTheWayOut, Unmapped, IsRead
<1>5. AtType' /\ OnePerPlace' /\ AtMostOnce' /\ AllGood'
  BY <1>1, <1>2, <1>3, <1>4, CarryKeeps DEF Move
<1>6. PayloadTypes'
  BY <1>1 DEF PayloadTypes
<1>7. NoStaleSource'
  BY <1>1 DEF NoStaleSource
<1> QED BY <1>5, <1>6, <1>7, PartsNext

(* A step that moves no message.                                           *)
LEMMA AckKeeps ==
  ASSUME IInv, UNCHANGED <<at, addr, req, mapping, niMap>>, AckTypes'
  PROVE  IInv'
BY Parts, PartsNext
   DEF AtType, OnePerPlace, PayloadTypes, AtMostOnce, AllGood, NoStaleSource,
       Good, Known, OnTheWayIn, InMemory, OnTheWayOut, Unmapped, IsRead

(* The links between stages of one channel, behind the same router or not  *)
(* before one: what is known of a message is known on both sides.          *)
Links ==
  {<<"req_noc_peq", "noc_to_crb">>, <<"noc_to_crb", "noc_to_sch">>,
   <<"noc_to_sch", "fore_router">>, <<"fore_fifo", "fore_selecter">>,
   <<"fore_selecter", "sch_to_mem">>, <<"mem_req_peq", "return_trans_queue">>,
   <<"mem_to_crb", "mem_to_sch">>, <<"mem_to_sch", "back_router">>,
   <<"back_fifo", "back_selecter">>, <<"back_selecter", "sch_to_noc">>,
   <<"sch_to_noc", "ni_rsp_peq">>}

LEMMA LinkKeeps ==
  ASSUME IInv, NEW sx, NEW sy, <<sx, sy>> \in Links, NEW c \in Chan,
         NEW m \in at[<<sx, c>>], Move(m, <<sx, c>>, <<sy, c>>),
         sy \in FabricStages => Free(<<sy, c>>),
         UNCHANGED <<addr, req, mapping, niMap>>, AckTypes'
  PROVE  IInv'
<1>1. sx \in TopStages /\ sy \in TopStages
  BY DEF Links, TopStages, FabricStages
<1>2. Good(sx, c, m)
  BY <1>1, Held
<1>3. Good(sy, c, m)
  <2>1. CASE sx \in ForeStages
    BY <1>1, <1>2, <2>1
       DEF Links, Good, OnTheWayIn, ForeStages, ForeRouted, MemoryStages, BackStages
  <2>2. CASE sx \in MemoryStages
    BY <1>1, <1>2, <2>2 DEF Links, Good, ForeStages, MemoryStages, BackStages
  <2>3. CASE sx \in BackStages
    BY <1>1, <1>2, <2>3
       DEF Links, Good, OnTheWayOut, ForeStages, BackRouted, MemoryStages, BackStages
  <2> QED BY <1>1, <2>1, <2>2, <2>3, StageFacts
<1> QED BY <1>1, <1>3, MoveKeeps

LEMMA PassKeeps ==
  ASSUME IInv, NEW sx, NEW sy, <<sx, sy>> \in Links, NEW c \in Chan,
         Pass(<<sx, c>>, <<sy, c>>), UNCHANGED <<req, mapping, niMap>>, AckTypes'
  PROVE  IInv'
<1>1. PICK m \in at[<<sx, c>>] : Transfer(m, <<sx, c>>, <<sy, c>>)
  BY DEF Pass
<1> QED BY <1>1, LinkKeeps DEF Transfer

\* The acknowledge variables are left alone.
LEMMA AcksStay == IInv /\ UNCHANGED <<acks, issued>> => AckTypes'
BY Parts DEF AckTypes, acks

LEMMA FabricKeeps ==
  ASSUME IInv, NEW c \in Chan, Fabric(c)
  PROVE  IInv'
<1>1. AckTypes' /\ UNCHANGED <<req, mapping, niMap>>
  BY AcksStay DEF Fabric, topVars
<1>2. CASE ForeRouterRead(c)
  BY <1>1, <1>2, PassKeeps DEF ForeRouterRead, Links
<1>3. CASE ForeRouterWrite(c)
  <2>1. PICK m \in at[<<"fore_router", c>>] :
          Transfer(m, <<"fore_router", c>>, <<"fore_fifo", ForeDest(addr[m.trans])>>)
    BY <1>3 DEF ForeRouterWrite
  <2>2. Good("fore_router", c, m)
    BY Held DEF TopStages, FabricStages
  <2>3. Good("fore_fifo", ForeDest(addr[m.trans]), m)
    BY <2>2 DEF Good, OnTheWayIn, TopStages, FabricStages, ForeStages,
                MemoryStages, BackStages
  <2> QED BY <2>1, <2>3, <1>1, ForeDestType, MoveKeeps
          DEF Transfer, TopStages, FabricStages
<1>4. CASE ForeSelecterRead(c)
  BY <1>1, <1>4, PassKeeps DEF ForeSelecterRead, Links
<1>5. CASE ForeSelecterWrite(c)
  BY <1>1, <1>5, PassKeeps DEF ForeSelecterWrite, Links
<1>6. CASE BackRouterRead(c)
  BY <1>1, <1>6, PassKeeps DEF BackRouterRead, Links
<1>7. CASE BackRouterWrite(c)
  <2>1. PICK m \in at[<<"back_router", c>>] :
          Transfer(m, <<"back_router", c>>, <<"back_fifo", BackDest(m.source)>>)
    BY <1>7 DEF BackRouterWrite
  <2>2. Good("back_router", c, m)
    BY Held DEF TopStages, FabricStages
  <2>3. Good("back_fifo", BackDest(m.source), m)
    BY <2>2 DEF Good, OnTheWayOut, TopStages, FabricStages, ForeStages,
                MemoryStages, BackStages
  <2> QED BY <2>1, <2>3, <1>1, BackDestType, MoveKeeps
          DEF Transfer, TopStages, FabricStages
<1>8. CASE BackSelecterRead(c)
  BY <1>1, <1>8, PassKeeps DEF BackSelecterRead, Links
<1>9. CASE BackSelecterWrite(c)
  BY <1>1, <1>9, PassKeeps DEF BackSelecterWrite, Links
<1> QED BY <1>2, <1>3, <1>4, <1>5, <1>6, <1>7, <1>8, <1>9 DEF Fabric, FabricStep

-----------------------------------------------------------------------------
(* The threads around the crossbar.                                        *)
LEMMA NocToCrbKeeps ==
  ASSUME IInv, NEW c \in Chan, NocToCrb(c)
  PROVE  IInv'
<1>1. AckTypes' /\ UNCHANGED <<req, mapping, niMap>>
  BY Parts DEF NocToCrb, AckTypes
<1> QED BY <1>1, PassKeeps DEF NocToCrb, Links

LEMMA WritesKeep ==
  ASSUME IInv, NEW c \in Chan, NocToCrbWrite(c) \/ MemToCrbWrite(c)
  PROVE  IInv'
<1>1. AckTypes' /\ UNCHANGED <<req, mapping, niMap>>
  BY AcksStay DEF NocToCrbWrite, MemToCrbWrite, topVars
<1> QED BY <1>1, PassKeeps DEF NocToCrbWrite, MemToCrbWrite, Links

LEMMA AckFiresKeep ==
  ASSUME IInv, NEW c \in Chan, NIAckFires(c) \/ AckFires(c)
  PROVE  IInv'
<1>1. AckTypes'
  BY Parts DEF NIAckFires, AckFires, AckTypes
<1> QED BY <1>1, AckKeeps DEF NIAckFires, AckFires

LEMMA MemAcceptKeeps ==
  ASSUME IInv, NEW c \in Chan, MemAccept(c)
  PROVE  IInv'
<1>1. AckTypes'
  BY Parts DEF MemAccept, AckTypes
<1>2. <<"mem_req_peq", "return_trans_queue">> \in Links
      /\ "return_trans_queue" \notin FabricStages
  BY DEF Links, FabricStages
<1> QED BY <1>1, <1>2, LinkKeeps DEF MemAccept

LEMMA CrbToNocKeeps ==
  ASSUME IInv, NEW c \in Chan, CrbToNoc(c)
  PROVE  IInv'
<1>1. AckTypes' /\ UNCHANGED <<addr, req, mapping, niMap>>
  BY AcksStay DEF CrbToNoc, topVars
<1>2. <<"sch_to_noc", "ni_rsp_peq">> \in Links /\ "ni_rsp_peq" \notin FabricStages
  BY DEF Links, FabricStages
<1> QED BY <1>1, <1>2, LinkKeeps DEF CrbToNoc

LEMMA MemReadDoneKeeps ==
  ASSUME IInv, NEW c \in Chan, MemReadDone(c)
  PROVE  IInv'
<1>1. AckTypes' /\ UNCHANGED <<addr, req, mapping, niMap>>
  BY AcksStay DEF MemReadDone, topVars
<1>2. PICK m \in at[<<"return_trans_queue", c>>] :
        IsRead(m.trans) /\ Move(m, <<"return_trans_queue", c>>, <<"rsp_ip_peq", c>>)
  BY DEF MemReadDone
<1>3. {"return_trans_queue", "rsp_ip_peq"} \subseteq TopStages \ FabricStages
  BY DEF TopStages, FabricStages
<1>4. Good("rsp_ip_peq", c, m)
  <2>1. Good("return_trans_queue", c, m)
    BY Held, <1>3
  <2> QED BY <2>1, <1>2, <1>3 DEF Good, ForeStages, MemoryStages, BackStages
<1> QED BY <1>1, <1>2, <1>3, <1>4, MoveKeeps

\* The memory takes the payload: the address is an offset inside the memory
\* the fore router chose, and the map of the channel has the source.
LEMMA CrbToMemKeeps ==
  ASSUME IInv, NEW c \in Chan, CrbToMem(c)
  PROVE  IInv'
<1>1. PICK m \in at[<<"sch_to_mem", c>>] :
        LET t == m.trans IN
        /\ addr' = [addr EXCEPT ![t] = Rebase(@)]
        /\ mapping' = MapInsertIf(IsRead(t), mapping, c, t, m.source)
        /\ ackWait' = [ackWait EXCEPT ![c] = ~IsRead(t)]
        /\ Carry(m, <<"sch_to_mem", c>>,
                 [trans |-> t, source |-> NoSource, chan |-> c],
                 <<"mem_req_peq", c>>)
  BY DEF CrbToMem
<1> DEFINE t == m.trans
           n == [trans |-> t, source |-> NoSource, chan |-> c]
<1>2. UNCHANGED <<req, niMap, ackEvent, niWait, niEvent, issued>>
  BY DEF CrbToMem
<1>3. "sch_to_mem" \in TopStages /\ "mem_req_peq" \in TopStages \ FabricStages
  BY DEF TopStages, FabricStages
<1>4. /\ AtType /\ OnePerPlace /\ PayloadTypes /\ AckTypes
      /\ AtMostOnce /\ AllGood /\ NoStaleSource
  BY Parts
<1>5. t \in Trans /\ n \in Msg /\ Good("sch_to_mem", c, m)
  BY Held, <1>3 DEF Msg
<1>6. Known(t) /\ OnTheWayIn("sch_to_mem", c, m)
  BY <1>5 DEF Good, ForeStages
<1>7. req[t] \in Request
  BY <1>4, <1>5, <1>6 DEF PayloadTypes, Known, Idle
<1>8. req[t].source \in PE /\ req[t].addr \in ExtAddr /\ m.source = req[t].source
  BY <1>6, <1>7 DEF OnTheWayIn, Request
<1>9. Rebase(addr[t]) \in 0 .. (MemSize - 1)
      /\ req[t].addr = MemBegin(c) + Rebase(addr[t])
  BY <1>6, <1>8, RebaseIsOffset DEF OnTheWayIn, ForeRouted
<1>10. Rebase(addr[t]) \in Nat
  BY <1>9, MapAssumption
<1>11. /\ addr'[t] = Rebase(addr[t])
       /\ \A u \in Trans : u # t => addr'[u] = addr[u]
       /\ addr' \in [Trans -> Nat]
  BY <1>1, <1>4, <1>5, <1>10 DEF PayloadTypes
<1>12. /\ mapping' \in [Chan -> [Trans -> PE \cup {NoSource}]]
       /\ IsRead(t) => mapping'[c][t] = m.source
       /\ \A d \in Chan, u \in Trans : u # t \/ d # c => mapping'[d][u] = mapping[d][u]
  <2>1. mapping[c][t] = NoSource
    BY <1>6 DEF OnTheWayIn, Unmapped
  <2>2. CASE IsRead(t)
    <3>1. mapping' = [mapping EXCEPT ![c][t] = m.source]
      BY <1>1, <2>1, <2>2 DEF MapInsertIf
    <3> QED BY <3>1, <1>4, <1>5, <1>8 DEF PayloadTypes
  <2>3. CASE ~IsRead(t)
    <3>1. mapping' = mapping
      BY <1>1, <2>3 DEF MapInsertIf
    <3> QED BY <3>1, <2>3, <1>4 DEF PayloadTypes
  <2> QED BY <2>2, <2>3
<1>13. Frame(t)
  BY <1>2, <1>11, <1>12 DEF Frame
<1>14. Good("mem_req_peq", c, n)'
  <2>1. Known(t)'
    BY <1>2, <1>6 DEF Known, IsRead
  <2>2. InMemory(c, n)'
    <3>1. \A d \in Chan : d # c => mapping'[d][t] = NoSource
      BY <1>12, <1>5, <1>6 DEF OnTheWayIn, Unmapped
    <3> QED BY <3>1, <1>2, <1>8, <1>9, <1>11, <1>12 DEF InMemory, IsRead
  <2> QED BY <2>1, <2>2, <1>3 DEF Good, ForeStages, MemoryStages, BackStages
<1>15. AtType' /\ OnePerPlace' /\ AtMostOnce' /\ AllGood'
  BY <1>1, <1>3, <1>4, <1>5, <1>13, <1>14, CarryKeeps
<1>16. PayloadTypes' /\ AckTypes'
  <2>1. IsRead(t) \in BOOLEAN
    BY DEF IsRead
  <2> QED BY <2>1, <1>1, <1>2, <1>4, <1>11, <1>12 DEF PayloadTypes, AckTypes
<1>17. NoStaleSource'
  <2>1. req[t] # Idle
    BY <1>6 DEF Known, Idle
  <2> QED BY <2>1, <1>2, <1>4, <1>12 DEF NoStaleSource
<1> QED BY <1>15, <1>16, <1>17, PartsNext

\* The answer leaves the memory with the source the map had.
LEMMA MemToCrbKeeps ==
  ASSUME IInv, NEW c \in Chan, MemToCrb(c)
  PROVE  IInv'
<1>1. PICK m \in at[<<"rsp_ip_peq", c>>] :
        LET t == m.trans IN
        /\ Carry(m, <<"rsp_ip_peq", c>>,
                 [trans |-> t, source |-> MapLookup(mapping[c], t), chan |-> c],
                 <<"mem_to_crb", c>>)
        /\ mapping' = [mapping EXCEPT ![c][t] = NoSource]
  BY DEF MemToCrb
<1> DEFINE t == m.trans
<1>2. UNCHANGED <<addr, req, niMap>> /\ AckTypes'
  BY AcksStay DEF MemToCrb
<1>3. "rsp_ip_peq" \in TopStages /\ "mem_to_crb" \in TopStages \ FabricStages
  BY DEF TopStages, FabricStages
<1>4. /\ AtType /\ OnePerPlace /\ PayloadTypes
      /\ AtMostOnce /\ AllGood /\ NoStaleSource
  BY Parts
<1>5. t \in Trans /\ Good("rsp_ip_peq", c, m)
  BY Held, <1>3
<1>6. Known(t) /\ IsRead(t) /\ InMemory(c, m)
  BY <1>5 DEF Good, MemoryStages
<1>7. req[t].source \in PE
  BY <1>4, <1>5, <1>6 DEF PayloadTypes, Known, Idle, Request
<1>8. MapLookup(mapping[c], t) = req[t].source
  BY <1>6, <1>7 DEF InMemory, MapLookup, NoSource, PE
<1>9. PICK n \in Msg : n = [trans |-> t, source |-> req[t].source, chan |-> c]
  BY <1>5, <1>7 DEF Msg
<1>10. /\ mapping' \in [Chan -> [Trans -> PE \cup {NoSource}]]
       /\ mapping'[c][t] = NoSource
       /\ \A d \in Chan, u \in Trans : u # t \/ d # c => mapping'[d][u] = mapping[d][u]
  BY <1>1, <1>4, <1>5 DEF PayloadTypes
<1>11. Frame(t)
  BY <1>2, <1>10 DEF Frame
<1>12. Good("mem_to_crb", c, n)'
  <2>1. Known(t)' /\ IsRead(t)'
    BY <1>2, <1>6 DEF Known, IsRead
  <2>2. Unmapped(t)'
    <3>1. \A d \in Chan : d # c => mapping[d][t] = NoSource
      BY <1>6 DEF InMemory
    <3> QED BY <3>1, <1>5, <1>10 DEF Unmapped
  <2>3. OnTheWayOut("mem_to_crb", c, n)'
    BY <2>2, <1>2, <1>9 DEF OnTheWayOut, BackRouted
  <2> QED BY <1>9, <2>1, <2>3, <1>3 DEF Good, ForeStages, MemoryStages, BackStages
<1>13. AtType' /\ OnePerPlace' /\ AtMostOnce' /\ AllGood'
  BY <1>1, <1>3, <1>4, <1>5, <1>8, <1>9, <1>11, <1>12, CarryKeeps
<1>14. PayloadTypes'
  BY <1>2, <1>4, <1>10 DEF PayloadTypes
<1>15. NoStaleSource'
  BY <1>2, <1>4, <1>10 DEF NoStaleSource
<1> QED BY <1>2, <1>13, <1>14, <1>15, PartsNext

\* A payload leaves the model's places: taken by the PE, or a write done.
LEMMA RemoveKeeps ==
  ASSUME AtType, OnePerPlace, AtMostOnce, AllGood,
         NEW st \in TopStages, NEW c \in Chan, NEW m \in at[<<st, c>>],
         at' = [at EXCEPT ![<<st, c>>] = @ \ {m}],
         Frame(m.trans)
  PROVE  AtType' /\ OnePerPlace' /\ AtMostOnce' /\ AllGood'
<1>1. <<st, c>> \in Place
  BY PlaceIn
<1>2. \A z \in Place : \A k \in at'[z] : k \in at[z] /\ k.trans # m.trans
  <2> SUFFICES ASSUME NEW z \in Place, NEW k \in at'[z]
               PROVE  k \in at[z] /\ k.trans # m.trans
    OBVIOUS
  <2>1. k \in at[z] /\ ~(z = <<st, c>> /\ k = m)
    BY <1>1 DEF AtType
  <2> QED BY <2>1, <1>1 DEF AtMostOnce
<1>3. AtType'
  BY <1>1 DEF AtType
<1>4. OnePerPlace'
  <2>1. \A sf \in FabricStages, e \in Chan : <<sf, e>> \in Place
    BY PlaceIn, StageFacts
  <2> QED BY <1>2, <2>1 DEF OnePerPlace
<1>5. AtMostOnce'
  BY <1>2 DEF AtMostOnce
<1>6. AllGood'
  <2> SUFFICES ASSUME NEW sg \in Stages, NEW e \in Chan, NEW k \in at'[<<sg, e>>]
               PROVE  Good(sg, e, k)'
    BY DEF AllGood
  <2>1. <<sg, e>> \in Place
    BY DEF Place
  <2>2. k \in Msg /\ Good(sg, e, k) /\ k.trans # m.trans
    BY <1>2, <2>1 DEF AtType, AllGood
  <2> QED BY <2>2, GoodFrame
<1> QED BY <1>3, <1>4, <1>5, <1>6

LEMMA MemWriteDoneKeeps ==
  ASSUME IInv, NEW c \in Chan, MemWriteDone(c)
  PROVE  IInv'
<1>1. PICK m \in at[<<"return_trans_queue", c>>] :
        /\ ~IsRead(m.trans)
        /\ at' = [at EXCEPT ![<<"return_trans_queue", c>>] = @ \ {m}]
        /\ req' = [req EXCEPT ![m.trans].kind = "written"]
  BY DEF MemWriteDone
<1>2. UNCHANGED <<addr, mapping, niMap>> /\ AckTypes'
  BY AcksStay DEF MemWriteDone
<1>3. /\ AtType /\ OnePerPlace /\ PayloadTypes
      /\ AtMostOnce /\ AllGood /\ NoStaleSource
  BY Parts
<1>4. "return_trans_queue" \in TopStages
  BY DEF TopStages
<1>5. m.trans \in Trans /\ Known(m.trans)
  BY Held, <1>4 DEF Good
<1>6. req[m.trans] \in Request
  BY <1>3, <1>5 DEF PayloadTypes, Known, Idle
<1>7. /\ req' \in [Trans -> Request \cup {Idle}]
      /\ req'[m.trans] # Idle
      /\ \A u \in Trans : u # m.trans => req'[u] = req[u]
  BY <1>1, <1>3, <1>5, <1>6 DEF PayloadTypes, Request, Idle
<1>8. AtType' /\ OnePerPlace' /\ AtMostOnce' /\ AllGood'
  BY <1>1, <1>2, <1>3, <1>4, <1>7, RemoveKeeps DEF Frame
<1>9. PayloadTypes' /\ NoStaleSource'
  BY <1>2, <1>3, <1>7 DEF PayloadTypes, NoStaleSource
<1> QED BY <1>2, <1>8, <1>9, PartsNext

\* The answer leaves at the NI that knows the source, the only one.
LEMMA NIRespondKeeps ==
  ASSUME IInv, NEW c \in Chan, NIRespond(c)
  PROVE  IInv'
<1>1. PICK m \in at[<<"ni_rsp_peq", c>>] :
        /\ at' = [at EXCEPT ![<<"ni_rsp_peq", c>>] = @ \ {m}]
        /\ niMap' = [niMap EXCEPT ![c][m.trans] = NoSource]
        /\ req' = [req EXCEPT ![m.trans] = Idle]
  BY DEF NIRespond
<1>2. UNCHANGED <<addr, mapping>> /\ AckTypes'
  BY AcksStay DEF NIRespond
<1>3. /\ AtType /\ OnePerPlace /\ PayloadTypes
      /\ AtMostOnce /\ AllGood /\ NoStaleSource
  BY Parts
<1>4. "ni_rsp_peq" \in TopStages
  BY DEF TopStages
<1> DEFINE t == m.trans
<1>5. t \in Trans /\ Known(t) /\ OnTheWayOut("ni_rsp_peq", c, m)
  BY Held, <1>4 DEF Good, BackStages
<1>6. /\ req' \in [Trans -> Request \cup {Idle}]
      /\ req'[t] = Idle
      /\ \A u \in Trans : u # t => req'[u] = req[u]
  BY <1>1, <1>3, <1>5 DEF PayloadTypes
<1>7. /\ niMap' \in [Chan -> [Trans -> PE \cup {NoSource}]]
      /\ niMap'[c][t] = NoSource
      /\ \A d \in Chan, u \in Trans : u # t \/ d # c => niMap'[d][u] = niMap[d][u]
  BY <1>1, <1>3, <1>5 DEF PayloadTypes
<1>8. AtType' /\ OnePerPlace' /\ AtMostOnce' /\ AllGood'
  BY <1>1, <1>2, <1>3, <1>4, <1>6, <1>7, RemoveKeeps DEF Frame
<1>9. PayloadTypes'
  BY <1>2, <1>3, <1>6, <1>7 DEF PayloadTypes
<1>10. NoStaleSource'
  <2>1. BackDest(req[t].source) = c
    BY <1>5 DEF OnTheWayOut, BackRouted
  <2>2. \A d \in Chan : mapping'[d][t] = NoSource /\ niMap'[d][t] = NoSource
    BY <1>2, <1>5, <1>7, <2>1 DEF Known, OnTheWayOut, Unmapped
  <2> QED BY <1>2, <1>3, <1>6, <1>7, <2>2 DEF NoStaleSource
<1> QED BY <1>2, <1>8, <1>9, <1>10, PartsNext

\* A request enters: nothing of an earlier request of the payload is left,
\* and the NI that records its source is the one its answer returns to.
LEMMA NIForwardKeeps ==
  ASSUME IInv, NEW t \in Trans, NEW s \in Sources, NEW a \in Addrs,
         NEW kind \in {"read", "write"}, NIForward(t, s, a, kind)
  PROVE  IInv'
<1> DEFINE c == BackDest(s)
           n == [trans |-> t, source |-> s, chan |-> c]
           x == <<"req_noc_peq", c>>
<1>1. s \in PE /\ a \in ExtAddr /\ a \in Nat /\ c \in Chan
  BY EnvironmentAssumption, MapAssumption, BackDestType DEF ExtAddr
<1>2. Redirect(16 + ForeDest(a), s) - 16 = c
  <2>1. Redirect(16 + ForeDest(a), s) = 16 + c
    BY <1>1, ForeDestType, RedirectAgrees
  <2> QED BY <2>1, <1>1 DEF Chan
<1>3. /\ req[t] = Idle /\ issued < MaxRequests /\ issued' = issued + 1
      /\ req' = [req EXCEPT ![t] = [kind |-> kind, source |-> s, addr |-> a]]
      /\ addr' = [addr EXCEPT ![t] = a]
      /\ niMap' = MapInsertIf(kind = "read", niMap, c, t, s)
      /\ niWait' = [niWait EXCEPT ![c] = (kind = "write")]
      /\ at' = [at EXCEPT ![x] = @ \cup {n}]
      /\ UNCHANGED <<mapping, ackWait, ackEvent, niEvent>>
  BY <1>2 DEF NIForward
<1>4. /\ AtType /\ OnePerPlace /\ PayloadTypes /\ AckTypes
      /\ AtMostOnce /\ AllGood /\ NoStaleSource
  BY Parts
<1>5. x \in Place /\ n \in Msg
  BY <1>1, PlaceIn DEF TopStages, Msg
<1>6. \A z \in Place : \A k \in at[z] : k.trans # t
  <2> SUFFICES ASSUME NEW st \in Stages, NEW e \in Chan, NEW k \in at[<<st, e>>]
               PROVE  k.trans # t
    BY DEF Place
  <2>1. Known(k.trans)
    BY <1>4 DEF AllGood, Good
  <2> QED BY <2>1, <1>3 DEF Known, Idle
<1>7. \A z \in Place : \A k \in at'[z] : (z = x /\ k = n) \/ k \in at[z]
  BY <1>3, <1>4, <1>5 DEF AtType
<1>8. AtType'
  BY <1>3, <1>4, <1>5 DEF AtType
<1>9. AtMostOnce'
  <2> SUFFICES ASSUME NEW p \in Place, NEW q \in Place,
                      NEW k \in at'[p], NEW l \in at'[q], k.trans = l.trans
               PROVE  p = q /\ k = l
    BY DEF AtMostOnce
  <2>1. ((p = x /\ k = n) \/ k \in at[p]) /\ ((q = x /\ l = n) \/ l \in at[q])
    BY <1>7
  <2>2. k \in at[p] /\ l \in at[q] => p = q /\ k = l
    BY <1>4 DEF AtMostOnce
  <2> QED BY <1>6, <2>1, <2>2
<1>10. OnePerPlace'
  <2> SUFFICES ASSUME NEW st \in FabricStages, NEW e \in Chan,
                      NEW k \in at'[<<st, e>>], NEW l \in at'[<<st, e>>]
               PROVE  k = l
    BY DEF OnePerPlace
  <2>1. <<st, e>> \in Place /\ <<st, e>> # x
    BY PlaceIn, StageFacts DEF FabricStages
  <2> QED BY <1>4, <1>7, <2>1 DEF OnePerPlace
<1>11. \A d \in Chan : mapping[d][t] = NoSource /\ niMap[d][t] = NoSource
  BY <1>3, <1>4 DEF NoStaleSource
<1>12. /\ niMap' \in [Chan -> [Trans -> PE \cup {NoSource}]]
       /\ kind = "read" => niMap'[c][t] = s
       /\ \A d \in Chan, u \in Trans : u # t \/ d # c => niMap'[d][u] = niMap[d][u]
  <2>1. CASE kind = "read"
    <3>1. niMap' = [niMap EXCEPT ![c][t] = s]
      BY <1>1, <1>3, <1>11, <2>1 DEF MapInsertIf
    <3> QED BY <3>1, <1>1, <1>4 DEF PayloadTypes
  <2>2. CASE kind # "read"
    <3>1. niMap' = niMap
      BY <1>3, <2>2 DEF MapInsertIf
    <3> QED BY <3>1, <2>2, <1>4 DEF PayloadTypes
  <2> QED BY <2>1, <2>2
<1>13. /\ req' \in [Trans -> Request \cup {Idle}]
       /\ req'[t] = [kind |-> kind, source |-> s, addr |-> a]
       /\ \A u \in Trans : u # t => req'[u] = req[u]
       /\ addr' \in [Trans -> Nat]
       /\ addr'[t] = a
       /\ \A u \in Trans : u # t => addr'[u] = addr[u]
  BY <1>1, <1>3, <1>4 DEF PayloadTypes, Request
<1>14. Frame(t)
  BY <1>3, <1>12, <1>13 DEF Frame
<1>15. Good("req_noc_peq", c, n)'
  <2>1. Known(t)'
    BY <1>11, <1>12, <1>13 DEF Known, IsRead
  <2>2. OnTheWayIn("req_noc_peq", c, n)'
    BY <1>3, <1>11, <1>13 DEF OnTheWayIn, Unmapped, ForeRouted
  <2> QED BY <2>1, <2>2
          DEF Good, TopStages, ForeStages, MemoryStages, BackStages
<1>16. AllGood'
  <2> SUFFICES ASSUME NEW st \in Stages, NEW e \in Chan, NEW k \in at'[<<st, e>>]
               PROVE  Good(st, e, k)'
    BY DEF AllGood
  <2>1. <<st, e>> \in Place
    BY DEF Place
  <2>2. CASE <<st, e>> = x /\ k = n
    <3>1. st = "req_noc_peq" /\ e = c
      BY <2>2
    <3> QED BY <2>2, <3>1, <1>15
  <2>3. CASE k \in at[<<st, e>>]
    <3>1. k \in Msg /\ Good(st, e, k) /\ k.trans # t
      BY <1>4, <1>6, <2>1, <2>3 DEF AtType, AllGood
    <3> QED BY <3>1, <1>14, GoodFrame
  <2> QED BY <1>7, <2>1, <2>2, <2>3
<1>17. PayloadTypes' /\ AckTypes'
  BY <1>1, <1>3, <1>4, <1>12, <1>13, MaxRequestsAssumption DEF PayloadTypes, AckTypes
<1>18. NoStaleSource'
  <2>1. req'[t] # Idle
    BY <1>13 DEF Idle
  <2> QED BY <2>1, <1>3, <1>4, <1>12, <1>13 DEF NoStaleSource
<1> QED BY <1>8, <1>9, <1>10, <1>16, <1>17, <1>18, PartsNext

-----------------------------------------------------------------------------
LEMMA InitEstablishes == TopInit => IInv
<1> SUFFICES ASSUME TopInit PROVE IInv
  OBVIOUS
<1>1. \A x \in Place : at[x] = {}
  BY DEF TopInit
<1>2. AtType /\ AtMostOnce
  BY <1>1 DEF TopInit, AtType, AtMostOnce
<1>3. OnePerPlace
  <2>1. \A st \in FabricStages, c \in Chan : <<st, c>> \in Place
    BY PlaceIn, StageFacts
  <2> QED BY <1>1, <2>1 DEF OnePerPlace
<1>4. AllGood
  BY <1>1 DEF AllGood, Place
<1>5. PayloadTypes /\ AckTypes /\ NoStaleSource
  BY MaxRequestsAssumption
     DEF TopInit, PayloadTypes, AckTypes, NoStaleSource, NoSource
<1> QED BY <1>2, <1>3, <1>4, <1>5, Parts

LEMMA StepKeeps == IInv /\ [TopNext]_allVars => IInv'
<1> SUFFICES ASSUME IInv, [TopNext]_allVars PROVE IInv'
  OBVIOUS
<1>1. CASE UNCHANGED allVars
  <2>1. AckTypes'
    BY <1>1, AcksStay DEF allVars, topVars
  <2> QED BY <1>1, <2>1, AckKeeps DEF allVars, topVars
<1>2. ASSUME NEW t \in Trans, NEW s \in Sources, NEW a \in Addrs,
             NEW k \in {"read", "write"}, NIForward(t, s, a, k)
      PROVE  IInv'
  BY <1>2, NIForwardKeeps
<1>3. ASSUME NEW c \in Chan, Threads(c)
      PROVE  IInv'
  BY <1>3, FabricKeeps, NocToCrbKeeps, WritesKeep, AckFiresKeep, CrbToMemKeeps,
     MemAcceptKeeps, MemReadDoneKeeps, MemWriteDoneKeeps, MemToCrbKeeps,
     CrbToNocKeeps, NIRespondKeeps
     DEF Threads
<1> QED BY <1>1, <1>2, <1>3 DEF TopNext

(* The invariant IInv: the types, no payload in two places, what is known  *)
(* of each message where it is, and no entry without a request.            *)
THEOREM Inductive == TopSpec => []IInv
<1>1. TopInit => IInv
  BY InitEstablishes
<1>2. IInv /\ [TopNext]_allVars => IInv'
  BY StepKeeps
<1> QED BY <1>1, <1>2, PTL DEF TopSpec

\* A message of the memory stages is on a place of the table.
LEMMA MemoryHeld ==
  ASSUME IInv, NEW st \in MemoryStages, NEW c \in Chan, NEW m \in at[<<st, c>>]
  PROVE  Known(m.trans) /\ InMemory(c, m)
<1>1. st \in TopStages
  BY StageFacts
<1>2. Good(st, c, m)
  BY <1>1, Held
<1> QED BY <1>2 DEF Good

(* The values stay in their types, and no FIFO or thread ever holds two    *)
(* messages.                                                               *)
THEOREM TypesHold == TopSpec => []TopTypeOK
<1>1. IInv => TopTypeOK
  BY DEF IInv
<1> QED BY <1>1, Inductive, PTL

(* No payload is ever in two places.                                       *)
THEOREM NeverTwice == TopSpec => []AtMostOnce
<1>1. IInv => AtMostOnce
  BY DEF IInv
<1> QED BY <1>1, Inductive, PTL

(* Every request is carried out by the memory its address names, at the    *)
(* offset it names.                                                        *)
THEOREM ReachesItsMemory == TopSpec => []OwnMemory
<1>1. IInv => OwnMemory
  BY MemoryHeld DEF OwnMemory, InMemory
<1> QED BY <1>1, Inductive, PTL

(* A read in a memory has its source in the map of the channel.            *)
THEOREM SourceNeverLost == TopSpec => []SourceRecorded
<1>1. IInv => SourceRecorded
  BY MemoryHeld DEF SourceRecorded, InMemory
<1> QED BY <1>1, Inductive, PTL

(* An answer arrives at the NI that still knows who asked.                 *)
THEOREM AnswerReturns == TopSpec => []AnswerAtItsNI
<1>1. ASSUME IInv, NEW c \in Chan, NEW m \in at[<<"ni_rsp_peq", c>>]
      PROVE  niMap[c][m.trans] = req[m.trans].source
  <2>1. Good("ni_rsp_peq", c, m)
    BY <1>1, Held DEF TopStages
  <2>2. Known(m.trans) /\ IsRead(m.trans) /\ BackDest(req[m.trans].source) = c
    BY <2>1 DEF Good, OnTheWayOut, BackStages, BackRouted
  <2> QED BY <2>2 DEF Known
<1>2. IInv => AnswerAtItsNI
  BY <1>1 DEF AnswerAtItsNI
<1> QED BY <1>2, Inductive, PTL

(* A payload that is free to be reused is in neither map.                  *)
THEOREM NothingStale == TopSpec => []NoStaleSource
<1>1. IInv => NoStaleSource
  BY DEF IInv
<1> QED BY <1>1, Inductive, PTL

-----------------------------------------------------------------------------
(* The sixteen threads implement ChannelRouter.  The state of the abstract *)
(* router, as the refinement mapping of Crossbar builds it:                *)
Dirs == {"fore", "back"}

AInput == [d \in Dirs |-> [i \in Chan |-> Tagged(d, at[<<FirstStage[d], i>>])]]
AQueue == [d \in Dirs |-> [i \in Chan |-> [o \in Chan |-> InTransit(d, i, o)]]]
AOutput == [d \in Dirs |-> [o \in Chan |-> Tagged(d, at[<<LastStage[d], o>>])]]

Tag(d, m) == [trans |-> m.trans, chan |-> m.chan, to |-> Dest(d, m)]

HeldAt(d, st, c, i, o) ==
  AsSeq({m \in Tagged(d, at[<<st, c>>]) : m.chan = i /\ m.to = o})

DirStages(d) == {FirstStage[d], Router[d], Fifo[d], Selecter[d], LastStage[d]}

(* Before a router, a message is on the channel it entered; behind it, on  *)
(* the channel it is bound for.                                            *)
Plain == TopStages \ (ForeRouted \cup BackRouted)

ChanKept == \A st \in Plain, c \in Chan : \A m \in at[<<st, c>>] : m.chan = c

\* Place x holds what it held, bound for where it was bound.
Stays(d, x) ==
  at'[x] = at[x] /\ \A m \in at[x] : Dest(d, m)' = Dest(d, m)

OthersStay(X) ==
  \A d \in Dirs : \A st \in DirStages(d), c \in Chan :
    <<st, c>> \notin X => Stays(d, <<st, c>>)

LEMMA StageNames ==
  ASSUME NEW d \in Dirs
  PROVE  /\ DirStages(d) \subseteq FabricStages
         /\ FirstStage[d] \in Plain /\ Router[d] \in Plain
         /\ FirstStage[d] # Router[d] /\ FirstStage[d] # Fifo[d]
         /\ FirstStage[d] # Selecter[d] /\ FirstStage[d] # LastStage[d]
         /\ Router[d] # Fifo[d] /\ Router[d] # Selecter[d] /\ Router[d] # LastStage[d]
         /\ Fifo[d] # Selecter[d] /\ Fifo[d] # LastStage[d] /\ Selecter[d] # LastStage[d]
         /\ \A e \in Dirs : e # d => DirStages(d) \cap DirStages(e) = {}
BY DEF Dirs, DirStages, FirstStage, Router, Fifo, Selecter, LastStage, FabricStages,
       TopStages, Plain, ForeRouted, BackRouted

LEMMA DestType == \A d, m : Dest(d, m) \in Chan /\ Dest(d, m)' \in Chan
BY BackDestType, ForeDestType DEF Dest

-----------------------------------------------------------------------------
\* Sequences of at most one message

LEMMA AsSeqOf ==
  /\ AsSeq({}) = <<>>
  /\ \A x : AsSeq({x}) = <<x>>
BY DEF AsSeq

LEMMA HeldNone ==
  ASSUME NEW d, NEW st, NEW c, NEW i, NEW o
  PROVE  /\ at[<<st, c>>] = {} => HeldAt(d, st, c, i, o) = <<>>
         /\ at'[<<st, c>>] = {} => HeldAt(d, st, c, i, o)' = <<>>
<1>1. HeldAt(d, st, c, i, o)' = AsSeq({m \in Tagged(d, at[<<st, c>>])' : m.chan = i /\ m.to = o})
  BY DEF HeldAt, AsSeq
<1>2. HeldAt(d, st, c, i, o) = AsSeq({m \in Tagged(d, at[<<st, c>>]) : m.chan = i /\ m.to = o})
  BY DEF HeldAt
<1>3. /\ at[<<st, c>>] = {} => {m \in Tagged(d, at[<<st, c>>]) : m.chan = i /\ m.to = o} = {}
      /\ at'[<<st, c>>] = {} => {m \in Tagged(d, at[<<st, c>>])' : m.chan = i /\ m.to = o} = {}
  BY DEF Tagged
<1> QED BY <1>1, <1>2, <1>3, AsSeqOf

LEMMA HeldOne ==
  ASSUME NEW d, NEW st, NEW c, NEW i, NEW o, NEW m, at[<<st, c>>] = {m}
  PROVE  HeldAt(d, st, c, i, o) =
           IF m.chan = i /\ Dest(d, m) = o THEN <<Tag(d, m)>> ELSE <<>>
<1> DEFINE S == {k \in Tagged(d, at[<<st, c>>]) : k.chan = i /\ k.to = o}
<1>1. HeldAt(d, st, c, i, o) = AsSeq(S)
  BY DEF HeldAt
<1>2. Tagged(d, at[<<st, c>>]) = {Tag(d, m)}
  BY DEF Tagged, Tag
<1>3. Tag(d, m).chan = m.chan /\ Tag(d, m).to = Dest(d, m)
  BY DEF Tag
<1>4. S = IF m.chan = i /\ Dest(d, m) = o THEN {Tag(d, m)} ELSE {}
  BY <1>2, <1>3
<1> HIDE DEF S
<1> QED BY <1>1, <1>4, AsSeqOf

LEMMA HeldOneNext ==
  ASSUME NEW d, NEW st, NEW c, NEW i, NEW o, NEW m, at'[<<st, c>>] = {m}
  PROVE  HeldAt(d, st, c, i, o)' =
           IF m.chan = i /\ Dest(d, m)' = o THEN <<Tag(d, m)'>> ELSE <<>>
<1> DEFINE S == {k \in Tagged(d, at[<<st, c>>])' : k.chan = i /\ k.to = o}
<1>1. HeldAt(d, st, c, i, o)' = AsSeq(S)
  BY DEF HeldAt, AsSeq
<1>2. Tagged(d, at[<<st, c>>])' = {Tag(d, m)'}
  BY DEF Tagged, Tag
<1>3. Tag(d, m)'.chan = m.chan /\ Tag(d, m)'.to = Dest(d, m)'
  BY DEF Tag
<1>4. S = IF m.chan = i /\ Dest(d, m)' = o THEN {Tag(d, m)'} ELSE {}
  BY <1>2, <1>3
<1> HIDE DEF S
<1> QED BY <1>1, <1>4, AsSeqOf

LEMMA StaysTagged ==
  ASSUME NEW d, NEW x, Stays(d, x)
  PROVE  Tagged(d, at[x])' = Tagged(d, at[x])
BY DEF Stays, Tagged

LEMMA StaysHeld ==
  ASSUME NEW d, NEW st, NEW c, NEW i, NEW o, Stays(d, <<st, c>>)
  PROVE  HeldAt(d, st, c, i, o)' = HeldAt(d, st, c, i, o)
<1> DEFINE S == Tagged(d, at[<<st, c>>])
           T == Tagged(d, at[<<st, c>>])'
<1>1. T = S
  BY StaysTagged
<1>2. HeldAt(d, st, c, i, o)' = AsSeq({m \in T : m.chan = i /\ m.to = o})
  BY DEF HeldAt, AsSeq
<1>3. HeldAt(d, st, c, i, o) = AsSeq({m \in S : m.chan = i /\ m.to = o})
  BY DEF HeldAt
<1> HIDE DEF S, T
<1> QED BY <1>1, <1>2, <1>3

(* What is on the way from i to o: what the selecter, the FIFO and the     *)
(* router hold of it, each at most one message.                            *)
LEMMA TransitParts ==
  ASSUME NEW d, NEW i, NEW o
  PROVE  /\ InTransit(d, i, o) =
              (HeldAt(d, Selecter[d], o, i, o) \o HeldAt(d, Fifo[d], o, i, o))
                \o HeldAt(d, Router[d], i, i, o)
         /\ InTransit(d, i, o)' =
              (HeldAt(d, Selecter[d], o, i, o)' \o HeldAt(d, Fifo[d], o, i, o)')
                \o HeldAt(d, Router[d], i, i, o)'
BY DEF InTransit, HeldAt, AsSeq

AMessage == [trans : Trans, chan : Chan, to : Chan]

LEMMA TagType ==
  ASSUME NEW d, NEW m \in Msg
  PROVE  Tag(d, m) \in AMessage /\ Tag(d, m)' \in AMessage
<1>1. Dest(d, m) \in Chan /\ Dest(d, m)' \in Chan
  BY DestType
<1>2. m.trans \in Trans /\ m.chan \in Chan
  BY DEF Msg
<1>3. Tag(d, m)' = [trans |-> m.trans, chan |-> m.chan, to |-> Dest(d, m)']
  BY DEF Tag
<1> QED BY <1>1, <1>2, <1>3 DEF Tag, AMessage

LEMMA HeldType ==
  ASSUME IInv, NEW d \in Dirs, NEW st \in DirStages(d), NEW c \in Chan, NEW i, NEW o
  PROVE  HeldAt(d, st, c, i, o) \in Seq(AMessage)
<1>1. st \in FabricStages /\ <<st, c>> \in Place
  BY StageNames, StageFacts, PlaceIn
<1>2. at[<<st, c>>] \in SUBSET Msg /\ \A m, n \in at[<<st, c>>] : m = n
  BY <1>1, Parts DEF AtType, OnePerPlace
<1>3. CASE at[<<st, c>>] = {}
  <2>1. HeldAt(d, st, c, i, o) = <<>>
    BY <1>3, HeldNone
  <2> QED BY <2>1
<1>4. ASSUME NEW m \in at[<<st, c>>] PROVE HeldAt(d, st, c, i, o) \in Seq(AMessage)
  <2>1. at[<<st, c>>] = {m} /\ m \in Msg
    BY <1>2, <1>4
  <2>2. <<Tag(d, m)>> \in Seq(AMessage) /\ <<>> \in Seq(AMessage)
    BY <2>1, TagType
  <2>3. \/ HeldAt(d, st, c, i, o) = <<Tag(d, m)>>
        \/ HeldAt(d, st, c, i, o) = <<>>
    BY <2>1, HeldOne
  <2> QED BY <2>2, <2>3
<1> QED BY <1>3, <1>4

-----------------------------------------------------------------------------
\* Functions that differ in one place

IsTable(D, C, f) == f = [d \in D |-> [i \in C |-> f[d][i]]]

Differ(D, C, f, g, x, y, v) ==
  \A d \in D, i \in C : g[d][i] = IF d = x /\ i = y THEN v ELSE f[d][i]

LEMMA Except2 ==
  ASSUME NEW D, NEW C, NEW f, NEW g, NEW x \in D, NEW y \in C, NEW v,
         IsTable(D, C, f), IsTable(D, C, g), Differ(D, C, f, g, x, y, v)
  PROVE  g = [f EXCEPT ![x][y] = v]
<1> USE DEF IsTable, Differ
<1> DEFINE h == [f EXCEPT ![x][y] = v]
<1>1. DOMAIN f = D /\ DOMAIN g = D /\ \A d \in D : DOMAIN f[d] = C /\ DOMAIN g[d] = C
  OBVIOUS
<1>2. h = [d \in D |-> h[d]]
  BY <1>1
<1>3. ASSUME NEW d \in D PROVE h[d] = g[d]
  <2>1. h[d] = IF d = x THEN [f[x] EXCEPT ![y] = v] ELSE f[d]
    BY <1>1
  <2>2. f[d] = [i \in C |-> f[d][i]] /\ g[d] = [i \in C |-> g[d][i]]
    OBVIOUS
  <2>3. CASE d = x
    <3>1. h[d] = [i \in C |-> IF i = y THEN v ELSE f[d][i]]
      BY <2>1, <2>2, <2>3
    <3> QED BY <3>1, <2>2, <2>3
  <2>4. CASE d # x
    BY <2>1, <2>2, <2>4
  <2> QED BY <2>3, <2>4
<1>4. g = [d \in D |-> g[d]]
  BY <1>1
<1> QED BY <1>2, <1>3, <1>4

IsTable3(D, C, f) ==
  IsTable(D, C, f) /\ \A d \in D, i \in C : f[d][i] = [o \in C |-> f[d][i][o]]

Differ3(D, C, f, g, x, y, z, v) ==
  \A d \in D, i \in C, o \in C :
    g[d][i][o] = IF d = x /\ i = y /\ o = z THEN v ELSE f[d][i][o]

LEMMA Except3 ==
  ASSUME NEW D, NEW C, NEW f, NEW g, NEW x \in D, NEW y \in C, NEW z \in C, NEW v,
         IsTable3(D, C, f), IsTable3(D, C, g), Differ3(D, C, f, g, x, y, z, v)
  PROVE  g = [f EXCEPT ![x][y][z] = v]
<1> USE DEF IsTable3, Differ3
<1> DEFINE w == [f[x][y] EXCEPT ![z] = v]
<1>3. ASSUME NEW d \in D, NEW i \in C
      PROVE  g[d][i] = IF d = x /\ i = y THEN w ELSE f[d][i]
  <2>1. CASE d = x /\ i = y
    <3> DEFINE p == f[x][y]  q == g[x][y]
    <3>1. p = [o \in C |-> p[o]] /\ q = [o \in C |-> q[o]]
      OBVIOUS
    <3>2. \A o \in C : q[o] = IF o = z THEN v ELSE p[o]
      OBVIOUS
    <3>3. w = [p EXCEPT ![z] = v]
      OBVIOUS
    <3> HIDE DEF p, q, w
    <3>4. q = w
      BY <3>1, <3>2, <3>3
    <3> QED BY <3>4, <2>1 DEF q
  <2>2. CASE ~ (d = x /\ i = y)
    <3> DEFINE p == f[d][i]  q == g[d][i]
    <3>1. p = [o \in C |-> p[o]] /\ q = [o \in C |-> q[o]]
      OBVIOUS
    <3>2. \A o \in C : q[o] = p[o]
      BY <2>2
    <3> HIDE DEF p, q
    <3>3. q = p
      BY <3>1, <3>2
    <3> QED BY <3>3, <2>2 DEF p, q
  <2> QED BY <2>1, <2>2
<1>4. Differ(D, C, f, g, x, y, w)
  BY <1>3 DEF Differ
<1> HIDE DEF w
<1>5. g = [f EXCEPT ![x][y] = w]
  BY <1>4, Except2
<1>6. [f EXCEPT ![x][y][z] = v] = [f EXCEPT ![x] = [f[x] EXCEPT ![y] = w]]
  BY DEF w
<1>7. [f EXCEPT ![x][y] = w] = [f EXCEPT ![x] = [f[x] EXCEPT ![y] = w]]
  OBVIOUS
<1> QED BY <1>5, <1>6, <1>7

LEMMA AShapes ==
  /\ IsTable(Dirs, Chan, AInput) /\ IsTable(Dirs, Chan, AInput')
  /\ IsTable(Dirs, Chan, AOutput) /\ IsTable(Dirs, Chan, AOutput')
  /\ IsTable3(Dirs, Chan, AQueue) /\ IsTable3(Dirs, Chan, AQueue')
BY DEF IsTable, IsTable3, AInput, AQueue, AOutput

LEMMA AValues ==
  ASSUME NEW d \in Dirs, NEW i \in Chan, NEW o \in Chan
  PROVE  /\ AInput[d][i] = Tagged(d, at[<<FirstStage[d], i>>])
         /\ AInput'[d][i] = Tagged(d, at[<<FirstStage[d], i>>])'
         /\ AOutput[d][i] = Tagged(d, at[<<LastStage[d], i>>])
         /\ AOutput'[d][i] = Tagged(d, at[<<LastStage[d], i>>])'
         /\ AQueue[d][i][o] = InTransit(d, i, o)
         /\ AQueue'[d][i][o] = InTransit(d, i, o)'
BY DEF AInput, AOutput, AQueue

\* The actions of ChannelRouter in these terms.
LEMMA AbstractEnter ==
  ASSUME NEW d \in Dirs, NEW c \in Chan, NEW n \in AInput[d][c],
         AQueue' = [AQueue EXCEPT ![d][c][n.to] = Append(@, n)],
         AInput' = [AInput EXCEPT ![d][c] = {}],
         AOutput' = AOutput
  PROVE  Abstract!Enter(d, c)
BY DEF Abstract!Enter, AInput, AQueue, AOutput, Dirs

LEMMA AbstractLeave ==
  ASSUME NEW d \in Dirs, NEW i \in Chan, NEW o \in Chan,
         AQueue[d][i][o] # <<>>, AOutput[d][o] = {},
         AOutput' = [AOutput EXCEPT ![d][o] = {Head(AQueue[d][i][o])}],
         AQueue' = [AQueue EXCEPT ![d][i][o] = Tail(@)],
         AInput' = AInput
  PROVE  Abstract!Leave(d, i, o)
BY DEF Abstract!Leave, AInput, AQueue, AOutput, Dirs

LEMMA AbstractPut ==
  ASSUME NEW d \in Dirs, NEW i \in Chan, NEW n \in AMessage, n.chan = i,
         AInput[d][i] = {}, AInput' = [AInput EXCEPT ![d][i] = {n}],
         AQueue' = AQueue, AOutput' = AOutput
  PROVE  Abstract!Put(d, i)
BY DEF Abstract!Put, AInput, AQueue, AOutput, Dirs, AMessage

LEMMA AbstractGet ==
  ASSUME NEW d \in Dirs, NEW o \in Chan,
         AOutput[d][o] # {}, AOutput' = [AOutput EXCEPT ![d][o] = {}],
         AInput' = AInput, AQueue' = AQueue
  PROVE  Abstract!Get(d, o)
BY DEF Abstract!Get, AInput, AQueue, AOutput, Dirs

LEMMA AbstractStutter ==
  ASSUME AInput' = AInput, AQueue' = AQueue, AOutput' = AOutput
  PROVE  UNCHANGED Abstract!vars
BY DEF Abstract!vars, AInput, AQueue, AOutput, Dirs

-----------------------------------------------------------------------------
\* What stays when a step touches only the places of X

LEMMA StaysQueue ==
  ASSUME NEW d \in Dirs, NEW i \in Chan, NEW o \in Chan,
         Stays(d, <<Selecter[d], o>>), Stays(d, <<Fifo[d], o>>), Stays(d, <<Router[d], i>>)
  PROVE  InTransit(d, i, o)' = InTransit(d, i, o)
<1>1. HeldAt(d, Selecter[d], o, i, o)' = HeldAt(d, Selecter[d], o, i, o)
  BY StaysHeld
<1>2. HeldAt(d, Fifo[d], o, i, o)' = HeldAt(d, Fifo[d], o, i, o)
  BY StaysHeld
<1>3. HeldAt(d, Router[d], i, i, o)' = HeldAt(d, Router[d], i, i, o)
  BY StaysHeld
<1> QED BY <1>1, <1>2, <1>3, TransitParts, Zenon

\* A message of the crossbar is alone in its place, and where it should be.
LEMMA Placed ==
  ASSUME IInv, ChanKept, NEW d \in Dirs, NEW st \in DirStages(d), NEW c \in Chan,
         NEW m \in at[<<st, c>>]
  PROVE  /\ m \in Msg /\ at[<<st, c>>] = {m}
         /\ st \in {FirstStage[d], Router[d]} => m.chan = c
         /\ st \in {Fifo[d], Selecter[d], LastStage[d]} => Dest(d, m) = c
<1>1. st \in FabricStages /\ st \in TopStages
  BY StageNames, StageFacts
<1>2. m \in Msg /\ Good(st, c, m)
  BY <1>1, Held
<1>3. at[<<st, c>>] = {m}
  BY <1>1, Parts DEF OnePerPlace
<1>4. st \in {FirstStage[d], Router[d]} => m.chan = c
  BY StageNames DEF ChanKept
<1>5. st \in {Fifo[d], Selecter[d], LastStage[d]} => Dest(d, m) = c
  BY <1>2 DEF Dirs, Fifo, Selecter, LastStage, Dest, Good, OnTheWayIn, OnTheWayOut,
              ForeStages, ForeRouted, BackStages, BackRouted
<1> QED BY <1>2, <1>3, <1>4, <1>5

LEMMA SameTable ==
  ASSUME NEW D, NEW C, NEW f, NEW g, IsTable(D, C, f), IsTable(D, C, g),
         \A d \in D, i \in C : g[d][i] = f[d][i]
  PROVE  g = f
<1>1. ASSUME NEW d \in D PROVE g[d] = f[d]
  <2> DEFINE p == f[d]  q == g[d]
  <2>1. p = [i \in C |-> p[i]] /\ q = [i \in C |-> q[i]]
    BY DEF IsTable
  <2>2. \A i \in C : q[i] = p[i]
    OBVIOUS
  <2> HIDE DEF p, q
  <2>3. q = p
    BY <2>1, <2>2
  <2> QED BY <2>3 DEF p, q
<1>2. f = [d \in D |-> f[d]] /\ g = [d \in D |-> g[d]]
  BY DEF IsTable
<1> QED BY <1>1, <1>2

LEMMA CellStays ==
  ASSUME NEW d \in Dirs, NEW c \in Chan
  PROVE  /\ Stays(d, <<FirstStage[d], c>>) => AInput'[d][c] = AInput[d][c]
         /\ Stays(d, <<LastStage[d], c>>) => AOutput'[d][c] = AOutput[d][c]
<1>1. /\ AInput[d][c] = Tagged(d, at[<<FirstStage[d], c>>])
      /\ AInput'[d][c] = Tagged(d, at[<<FirstStage[d], c>>])'
  BY AValues
<1>2. /\ AOutput[d][c] = Tagged(d, at[<<LastStage[d], c>>])
      /\ AOutput'[d][c] = Tagged(d, at[<<LastStage[d], c>>])'
  BY AValues
<1>3. ASSUME Stays(d, <<FirstStage[d], c>>) PROVE AInput'[d][c] = AInput[d][c]
  <2>1. Tagged(d, at[<<FirstStage[d], c>>])' = Tagged(d, at[<<FirstStage[d], c>>])
    BY <1>3, StaysTagged
  <2> QED BY <1>1, <2>1
<1>4. ASSUME Stays(d, <<LastStage[d], c>>) PROVE AOutput'[d][c] = AOutput[d][c]
  <2>1. Tagged(d, at[<<LastStage[d], c>>])' = Tagged(d, at[<<LastStage[d], c>>])
    BY <1>4, StaysTagged
  <2> QED BY <1>2, <2>1
<1> QED BY <1>3, <1>4

LEMMA TaggedOne ==
  ASSUME NEW d, NEW x, NEW m
  PROVE  /\ at[x] = {} => Tagged(d, at[x]) = {}
         /\ at[x] = {m} => Tagged(d, at[x]) = {Tag(d, m)}
         /\ at'[x] = {} => Tagged(d, at[x])' = {}
         /\ at'[x] = {m} => Tagged(d, at[x])' = {Tag(d, m)'}
BY DEF Tagged, Tag

LEMMA CellEmpty ==
  ASSUME NEW d \in Dirs, NEW c \in Chan
  PROVE  /\ at[<<FirstStage[d], c>>] = {} => AInput[d][c] = {}
         /\ at'[<<FirstStage[d], c>>] = {} => AInput'[d][c] = {}
         /\ at[<<LastStage[d], c>>] = {} => AOutput[d][c] = {}
         /\ at'[<<LastStage[d], c>>] = {} => AOutput'[d][c] = {}
<1>1. /\ AInput[d][c] = Tagged(d, at[<<FirstStage[d], c>>])
      /\ AInput'[d][c] = Tagged(d, at[<<FirstStage[d], c>>])'
  BY AValues
<1>2. /\ AOutput[d][c] = Tagged(d, at[<<LastStage[d], c>>])
      /\ AOutput'[d][c] = Tagged(d, at[<<LastStage[d], c>>])'
  BY AValues
<1> QED BY <1>1, <1>2, TaggedOne

LEMMA InputHolds ==
  ASSUME NEW d \in Dirs, NEW c \in Chan, NEW m, at[<<FirstStage[d], c>>] = {m}
  PROVE  AInput[d][c] = {Tag(d, m)}
<1>1. AInput[d][c] = Tagged(d, at[<<FirstStage[d], c>>])
  BY AValues
<1>2. Tagged(d, at[<<FirstStage[d], c>>]) = {Tag(d, m)}
  BY DEF Tagged, Tag
<1> QED BY <1>1, <1>2

LEMMA InputGets ==
  ASSUME NEW d \in Dirs, NEW c \in Chan, NEW m, at'[<<FirstStage[d], c>>] = {m}
  PROVE  AInput'[d][c] = {Tag(d, m)'}
<1>1. AInput'[d][c] = Tagged(d, at[<<FirstStage[d], c>>])'
  BY AValues
<1>2. Tagged(d, at[<<FirstStage[d], c>>])' = {Tag(d, m)'}
  BY DEF Tagged, Tag
<1> QED BY <1>1, <1>2

LEMMA OutputHolds ==
  ASSUME NEW d \in Dirs, NEW c \in Chan, NEW m, at[<<LastStage[d], c>>] = {m}
  PROVE  AOutput[d][c] = {Tag(d, m)}
<1>1. AOutput[d][c] = Tagged(d, at[<<LastStage[d], c>>])
  BY AValues
<1>2. Tagged(d, at[<<LastStage[d], c>>]) = {Tag(d, m)}
  BY DEF Tagged, Tag
<1> QED BY <1>1, <1>2

LEMMA OutputGets ==
  ASSUME NEW d \in Dirs, NEW c \in Chan, NEW m, at'[<<LastStage[d], c>>] = {m}
  PROVE  AOutput'[d][c] = {Tag(d, m)'}
<1>1. AOutput'[d][c] = Tagged(d, at[<<LastStage[d], c>>])'
  BY AValues
<1>2. Tagged(d, at[<<LastStage[d], c>>])' = {Tag(d, m)'}
  BY DEF Tagged, Tag
<1> QED BY <1>1, <1>2

LEMMA QueueParts ==
  ASSUME NEW d \in Dirs, NEW i \in Chan, NEW o \in Chan
  PROVE  /\ AQueue[d][i][o] =
              (HeldAt(d, Selecter[d], o, i, o) \o HeldAt(d, Fifo[d], o, i, o))
                \o HeldAt(d, Router[d], i, i, o)
         /\ AQueue'[d][i][o] =
              (HeldAt(d, Selecter[d], o, i, o)' \o HeldAt(d, Fifo[d], o, i, o)')
                \o HeldAt(d, Router[d], i, i, o)'
<1>1. AQueue[d][i][o] = InTransit(d, i, o) /\ AQueue'[d][i][o] = InTransit(d, i, o)'
  BY AValues
<1> QED BY <1>1, TransitParts

LEMMA QueueCellStays ==
  ASSUME NEW d \in Dirs, NEW i \in Chan, NEW o \in Chan,
         Stays(d, <<Selecter[d], o>>), Stays(d, <<Fifo[d], o>>), Stays(d, <<Router[d], i>>)
  PROVE  AQueue'[d][i][o] = AQueue[d][i][o]
<1>1. AQueue[d][i][o] = InTransit(d, i, o) /\ AQueue'[d][i][o] = InTransit(d, i, o)'
  BY AValues
<1>2. InTransit(d, i, o)' = InTransit(d, i, o)
  BY StaysQueue
<1> QED BY <1>1, <1>2

LEMMA InputStays ==
  ASSUME \A d \in Dirs, i \in Chan : Stays(d, <<FirstStage[d], i>>)
  PROVE  AInput' = AInput
<1>1. ASSUME NEW d \in Dirs, NEW i \in Chan PROVE AInput'[d][i] = AInput[d][i]
  BY CellStays
<1> QED BY <1>1, AShapes, SameTable

LEMMA OutputStays ==
  ASSUME \A d \in Dirs, o \in Chan : Stays(d, <<LastStage[d], o>>)
  PROVE  AOutput' = AOutput
<1>1. ASSUME NEW d \in Dirs, NEW o \in Chan PROVE AOutput'[d][o] = AOutput[d][o]
  BY CellStays
<1> QED BY <1>1, AShapes, SameTable

LEMMA QueueStays ==
  ASSUME \A d \in Dirs, i \in Chan, o \in Chan : AQueue'[d][i][o] = AQueue[d][i][o]
  PROVE  AQueue' = AQueue
<1>1. ASSUME NEW d \in Dirs, NEW i \in Chan PROVE AQueue'[d][i] = AQueue[d][i]
  <2> DEFINE p == AQueue[d][i]  q == AQueue'[d][i]
  <2>1. p = [o \in Chan |-> p[o]] /\ q = [o \in Chan |-> q[o]]
    BY AShapes DEF IsTable3
  <2>2. \A o \in Chan : q[o] = p[o]
    OBVIOUS
  <2> HIDE DEF p, q
  <2>3. q = p
    BY <2>1, <2>2
  <2> QED BY <2>3 DEF p, q
<1>2. IsTable(Dirs, Chan, AQueue) /\ IsTable(Dirs, Chan, AQueue')
  BY AShapes DEF IsTable3
<1> QED BY <1>1, <1>2, SameTable

\* One input, output or queue changes.
LEMMA InputBecomes ==
  ASSUME NEW d \in Dirs, NEW c \in Chan, NEW v, AInput'[d][c] = v,
         \A e \in Dirs, i \in Chan : ~ (e = d /\ i = c) => Stays(e, <<FirstStage[e], i>>)
  PROVE  AInput' = [AInput EXCEPT ![d][c] = v]
<1>1. ASSUME NEW e \in Dirs, NEW i \in Chan
      PROVE  AInput'[e][i] = IF e = d /\ i = c THEN v ELSE AInput[e][i]
  <2>1. ~ (e = d /\ i = c) => AInput'[e][i] = AInput[e][i]
    BY CellStays
  <2> QED BY <2>1
<1>2. Differ(Dirs, Chan, AInput, AInput', d, c, v)
  BY <1>1 DEF Differ
<1> QED BY <1>2, AShapes, Except2

LEMMA OutputBecomes ==
  ASSUME NEW d \in Dirs, NEW c \in Chan, NEW v, AOutput'[d][c] = v,
         \A e \in Dirs, i \in Chan : ~ (e = d /\ i = c) => Stays(e, <<LastStage[e], i>>)
  PROVE  AOutput' = [AOutput EXCEPT ![d][c] = v]
<1>1. ASSUME NEW e \in Dirs, NEW i \in Chan
      PROVE  AOutput'[e][i] = IF e = d /\ i = c THEN v ELSE AOutput[e][i]
  <2>1. ~ (e = d /\ i = c) => AOutput'[e][i] = AOutput[e][i]
    BY CellStays
  <2> QED BY <2>1
<1>2. Differ(Dirs, Chan, AOutput, AOutput', d, c, v)
  BY <1>1 DEF Differ
<1> QED BY <1>2, AShapes, Except2

LEMMA QueueBecomes ==
  ASSUME NEW d \in Dirs, NEW c \in Chan, NEW o \in Chan, NEW v,
         Differ3(Dirs, Chan, AQueue, AQueue', d, c, o, v)
  PROVE  AQueue' = [AQueue EXCEPT ![d][c][o] = v]
BY AShapes, Except3

LEMMA Concatenated ==
  ASSUME NEW T, NEW s \in Seq(T), NEW e \in T
  PROVE  /\ s \o <<>> = s /\ <<>> \o s = s
         /\ s \o <<e>> = Append(s, e)
         /\ <<e>> \o s # <<>> /\ Head(<<e>> \o s) = e /\ Tail(<<e>> \o s) = s
         /\ <<e>> \in Seq(T) /\ <<>> \in Seq(T)
OBVIOUS

\* What a place that holds only m shows of the queue from i to o.
Shown(d, m, i, o) == IF m.chan = i /\ Dest(d, m) = o THEN <<Tag(d, m)>> ELSE <<>>

LEMMA ShownStays ==
  ASSUME NEW d, NEW m, NEW i, NEW o, Dest(d, m)' = Dest(d, m)
  PROVE  Shown(d, m, i, o)' = Shown(d, m, i, o) /\ Tag(d, m)' = Tag(d, m)
BY DEF Shown, Tag

(* A router thread reads its FIFO: the message enters the router.          *)
LEMMA EnterStep ==
  ASSUME IInv, ChanKept, NEW d \in Dirs, NEW c \in Chan, NEW m,
         at[<<FirstStage[d], c>>] = {m}, at'[<<FirstStage[d], c>>] = {},
         at[<<Router[d], c>>] = {}, at'[<<Router[d], c>>] = {m},
         Dest(d, m)' = Dest(d, m),
         OthersStay({<<FirstStage[d], c>>, <<Router[d], c>>})
  PROVE  Abstract!Enter(d, c)
<1>0. PICK n : n = Tag(d, m)
  OBVIOUS
<1>1. \A e \in Dirs : {FirstStage[e], Router[e], Fifo[e], Selecter[e], LastStage[e]} \subseteq DirStages(e)
  BY DEF DirStages
<1>2. m \in Msg /\ m.chan = c
  BY <1>1, Placed
<1>3. n.to = Dest(d, m) /\ n.chan = c /\ n \in AMessage /\ n.to \in Chan /\ Tag(d, m)' = n
  BY <1>0, <1>2, TagType, DestType, ShownStays DEF Tag
<1>4. ASSUME NEW e \in Dirs, NEW st \in DirStages(e), NEW k \in Chan,
             e # d \/ k # c \/ (st # FirstStage[d] /\ st # Router[d])
      PROVE  Stays(e, <<st, k>>)
  <2>1. <<st, k>> \notin {<<FirstStage[d], c>>, <<Router[d], c>>}
    BY <1>1, <1>4, StageNames
  <2> QED BY <2>1 DEF OthersStay
<1>5. AInput' = [AInput EXCEPT ![d][c] = {}]
  <2>1. AInput'[d][c] = {}
    BY CellEmpty
  <2> QED BY <2>1, <1>1, <1>4, InputBecomes
<1>6. AOutput' = AOutput
  <2>1. LastStage[d] # FirstStage[d] /\ LastStage[d] # Router[d]
    BY StageNames
  <2> QED BY <2>1, <1>1, <1>4, OutputStays
<1>7. AQueue' = [AQueue EXCEPT ![d][c][n.to] = Append(@, n)]
  <2>1. ASSUME NEW e \in Dirs, NEW i \in Chan, NEW o \in Chan
        PROVE  AQueue'[e][i][o] =
                 IF e = d /\ i = c /\ o = n.to THEN Append(AQueue[d][c][n.to], n)
                 ELSE AQueue[e][i][o]
    <3> DEFINE S == HeldAt(e, Selecter[e], o, i, o)
               F == HeldAt(e, Fifo[e], o, i, o)
               R == HeldAt(e, Router[e], i, i, o)
    <3>1. /\ Selecter[d] # FirstStage[d] /\ Selecter[d] # Router[d]
          /\ Fifo[d] # FirstStage[d] /\ Fifo[d] # Router[d]
      BY StageNames
    <3>2. Stays(e, <<Selecter[e], o>>)
      BY <1>1, <3>1, <1>4
    <3>3. Stays(e, <<Fifo[e], o>>)
      BY <1>1, <3>1, <1>4
    <3>4. CASE ~ (e = d /\ i = c)
      <4>1. Stays(e, <<Router[e], i>>)
        BY <3>4, <1>1, <1>4
      <4> QED BY <3>2, <3>3, <3>4, <4>1, QueueCellStays
    <3>5. CASE e = d /\ i = c
      <4>1. S' = S
        BY <3>2, StaysHeld
      <4>2. F' = F
        BY <3>3, StaysHeld
      <4>3. R = <<>>
        BY <3>5, HeldNone
      <4>4. R' = IF m.chan = c /\ Dest(d, m)' = o THEN <<Tag(d, m)'>> ELSE <<>>
        BY <3>5, HeldOneNext
      <4>5. R' = IF o = n.to THEN <<n>> ELSE <<>>
        BY <4>4, <1>2, <1>3
      <4>6. S \in Seq(AMessage) /\ F \in Seq(AMessage)
        BY <1>1, HeldType
      <4>7. AQueue[e][i][o] = (S \o F) \o R /\ AQueue'[e][i][o] = (S' \o F') \o R'
        BY QueueParts
      <4> HIDE DEF S, F, R
      <4>8. S \o F \in Seq(AMessage)
        BY <4>6
      <4>a. (S \o F) \o <<n>> = Append(S \o F, n) /\ (S \o F) \o <<>> = S \o F
        BY <4>8, <1>3, Concatenated
      <4>9. AQueue'[e][i][o] = IF o = n.to THEN Append(S \o F, n) ELSE S \o F
        BY <4>1, <4>2, <4>5, <4>7, <4>a
      <4>10. AQueue[e][i][o] = S \o F
        BY <4>3, <4>7, <4>a
      <4> QED BY <4>9, <4>10, <3>5
    <3> QED BY <3>4, <3>5
  <2>2. PICK v : v = Append(AQueue[d][c][n.to], n)
    OBVIOUS
  <2>3. Differ3(Dirs, Chan, AQueue, AQueue', d, c, n.to, v)
    BY <2>1, <2>2 DEF Differ3
  <2>4. AQueue' = [AQueue EXCEPT ![d][c][n.to] = v]
    BY <2>3, <1>3, QueueBecomes
  <2> QED BY <2>2, <2>4
<1>8. n \in AInput[d][c]
  <2>1. AInput[d][c] = {Tag(d, m)}
    BY InputHolds
  <2> QED BY <2>1, <1>0
<1> QED BY <1>5, <1>6, <1>7, <1>8, AbstractEnter

(* A router thread writes: the message stays in its queue.                 *)
LEMMA RouteStep ==
  ASSUME IInv, ChanKept, NEW d \in Dirs, NEW c \in Chan, NEW m,
         at[<<Router[d], c>>] = {m}, at'[<<Router[d], c>>] = {},
         at[<<Fifo[d], Dest(d, m)>>] = {}, at'[<<Fifo[d], Dest(d, m)>>] = {m},
         Dest(d, m)' = Dest(d, m),
         OthersStay({<<Router[d], c>>, <<Fifo[d], Dest(d, m)>>})
  PROVE  UNCHANGED Abstract!vars
<1>1. \A e \in Dirs : {FirstStage[e], Router[e], Fifo[e], Selecter[e], LastStage[e]} \subseteq DirStages(e)
  BY DEF DirStages
<1>2. m \in Msg /\ m.chan = c
  BY <1>1, Placed
<1>3. PICK n : n = Tag(d, m)
  OBVIOUS
<1>4. PICK t : t = Dest(d, m)
  OBVIOUS
<1>5. t \in Chan /\ n \in AMessage /\ Tag(d, m)' = n
  BY <1>2, <1>3, <1>4, TagType, DestType, ShownStays
<1>6. ASSUME NEW e \in Dirs, NEW st \in DirStages(e), NEW k \in Chan,
             e # d \/ ((st # Router[d] \/ k # c) /\ (st # Fifo[d] \/ k # t))
      PROVE  Stays(e, <<st, k>>)
  <2>1. <<st, k>> \notin {<<Router[d], c>>, <<Fifo[d], Dest(d, m)>>}
    BY <1>1, <1>4, <1>6, StageNames
  <2> QED BY <2>1 DEF OthersStay
<1>7. AInput' = AInput
  <2>1. FirstStage[d] # Router[d] /\ FirstStage[d] # Fifo[d]
    BY StageNames
  <2> QED BY <2>1, <1>1, <1>6, InputStays
<1>8. AOutput' = AOutput
  <2>1. LastStage[d] # Router[d] /\ LastStage[d] # Fifo[d]
    BY StageNames
  <2> QED BY <2>1, <1>1, <1>6, OutputStays
<1>9. AQueue' = AQueue
  <2>1. ASSUME NEW e \in Dirs, NEW i \in Chan, NEW o \in Chan
        PROVE  AQueue'[e][i][o] = AQueue[e][i][o]
    <3> DEFINE S == HeldAt(e, Selecter[e], o, i, o)
               F == HeldAt(e, Fifo[e], o, i, o)
               R == HeldAt(e, Router[e], i, i, o)
    <3>1. /\ Selecter[d] # Router[d] /\ Selecter[d] # Fifo[d] /\ Fifo[d] # Router[d]
      BY StageNames
    <3>2. Stays(e, <<Selecter[e], o>>)
      BY <1>1, <3>1, <1>6
    <3>3. S' = S
      BY <3>2, StaysHeld
    <3>4. AQueue[e][i][o] = (S \o F) \o R /\ AQueue'[e][i][o] = (S' \o F') \o R'
      BY QueueParts
    <3>5. CASE e = d /\ i = c /\ o = t
      <4>1. F = <<>> /\ R' = <<>>
        BY <1>4, <3>5, HeldNone
      <4>2. R = IF m.chan = c /\ Dest(d, m) = o THEN <<Tag(d, m)>> ELSE <<>>
        BY <3>5, HeldOne
      <4>3. F' = IF m.chan = c /\ Dest(d, m)' = o THEN <<Tag(d, m)'>> ELSE <<>>
        BY <1>4, <3>5, HeldOneNext
      <4>4. R = <<n>> /\ F' = <<n>>
        BY <4>2, <4>3, <1>2, <1>3, <1>4, <1>5, <3>5
      <4>5. S \in Seq(AMessage)
        BY <1>1, HeldType
      <4> HIDE DEF S, F, R
      <4>6. (S \o <<>>) \o <<n>> = (S \o <<n>>) \o <<>>
        BY <4>5, <1>5
      <4> QED BY <3>3, <3>4, <4>1, <4>4, <4>6
    <3>6. CASE ~ (e = d /\ i = c /\ o = t)
      <4>1. F' = F
        <5>1. CASE e = d /\ o = t
          <6>1. F = <<>>
            BY <1>4, <5>1, HeldNone
          <6>2. F' = IF m.chan = i /\ Dest(d, m)' = o THEN <<Tag(d, m)'>> ELSE <<>>
            BY <1>4, <5>1, HeldOneNext
          <6> QED BY <6>1, <6>2, <5>1, <3>6, <1>2
        <5>2. CASE ~ (e = d /\ o = t)
          <6>1. Stays(e, <<Fifo[e], o>>)
            BY <5>2, <1>1, <3>1, <1>6
          <6> QED BY <6>1, StaysHeld
        <5> QED BY <5>1, <5>2
      <4>2. R' = R
        <5>1. CASE e = d /\ i = c
          <6>1. R' = <<>>
            BY <5>1, HeldNone
          <6>2. R = IF m.chan = i /\ Dest(d, m) = o THEN <<Tag(d, m)>> ELSE <<>>
            BY <5>1, HeldOne
          <6> QED BY <6>1, <6>2, <5>1, <3>6, <1>4
        <5>2. CASE ~ (e = d /\ i = c)
          <6>1. Stays(e, <<Router[e], i>>)
            BY <5>2, <1>1, <3>1, <1>6
          <6> QED BY <6>1, StaysHeld
        <5> QED BY <5>1, <5>2
      <4> HIDE DEF S, F, R
      <4> QED BY <3>3, <3>4, <4>1, <4>2
    <3> QED BY <3>5, <3>6
  <2> QED BY <2>1, QueueStays
<1> QED BY <1>7, <1>8, <1>9, AbstractStutter

(* A selecter reads its FIFO: the message stays in its queue.              *)
LEMMA SelectStep ==
  ASSUME IInv, ChanKept, NEW d \in Dirs, NEW c \in Chan, NEW m,
         at[<<Fifo[d], c>>] = {m}, at'[<<Fifo[d], c>>] = {},
         at[<<Selecter[d], c>>] = {}, at'[<<Selecter[d], c>>] = {m},
         Dest(d, m)' = Dest(d, m),
         OthersStay({<<Fifo[d], c>>, <<Selecter[d], c>>})
  PROVE  UNCHANGED Abstract!vars
<1>1. \A e \in Dirs : {FirstStage[e], Router[e], Fifo[e], Selecter[e], LastStage[e]} \subseteq DirStages(e)
  BY DEF DirStages
<1>2. m \in Msg
  BY <1>1, Placed
<1>3. \A i, o : /\ Shown(d, m, i, o)' = Shown(d, m, i, o)
                /\ Shown(d, m, i, o) = <<>> \/ Shown(d, m, i, o) = <<Tag(d, m)>>
  BY ShownStays DEF Shown
<1>4. Tag(d, m) \in AMessage
  BY <1>2, TagType
<1>6. ASSUME NEW e \in Dirs, NEW st \in DirStages(e), NEW k \in Chan,
             e # d \/ k # c \/ (st # Fifo[d] /\ st # Selecter[d])
      PROVE  Stays(e, <<st, k>>)
  <2>1. <<st, k>> \notin {<<Fifo[d], c>>, <<Selecter[d], c>>}
    BY <1>1, <1>6, StageNames
  <2> QED BY <2>1 DEF OthersStay
<1>7. AInput' = AInput
  <2>1. FirstStage[d] # Selecter[d] /\ FirstStage[d] # Fifo[d]
    BY StageNames
  <2> QED BY <2>1, <1>1, <1>6, InputStays
<1>8. AOutput' = AOutput
  <2>1. LastStage[d] # Selecter[d] /\ LastStage[d] # Fifo[d]
    BY StageNames
  <2> QED BY <2>1, <1>1, <1>6, OutputStays
<1>9. AQueue' = AQueue
  <2>1. ASSUME NEW e \in Dirs, NEW i \in Chan, NEW o \in Chan
        PROVE  AQueue'[e][i][o] = AQueue[e][i][o]
    <3> DEFINE S == HeldAt(e, Selecter[e], o, i, o)
               F == HeldAt(e, Fifo[e], o, i, o)
               R == HeldAt(e, Router[e], i, i, o)
    <3>1. /\ Router[d] # Selecter[d] /\ Router[d] # Fifo[d]
      BY StageNames
    <3>2. Stays(e, <<Router[e], i>>)
      BY <1>1, <3>1, <1>6
    <3>4. AQueue[e][i][o] = (S \o F) \o R /\ AQueue'[e][i][o] = (S' \o F') \o R'
      BY QueueParts
    <3>5. CASE e = d /\ o = c
      <4>1. S = <<>> /\ F' = <<>>
        BY <3>5, HeldNone
      <4>2. F = Shown(d, m, i, o)
        BY <3>5, HeldOne DEF Shown
      <4>3. S' = Shown(d, m, i, o)'
        BY <3>5, HeldOneNext DEF Shown
      <4>4. R' = R
        BY <3>2, StaysHeld
      <4>5. S' = F
        BY <4>2, <4>3, <1>3
      <4>6. F \in Seq(AMessage)
        BY <1>1, HeldType
      <4> HIDE DEF S, F, R
      <4>7. F \o <<>> = F /\ <<>> \o F = F
        BY <4>6
      <4> QED BY <3>4, <4>1, <4>4, <4>5, <4>7
    <3>6. CASE ~ (e = d /\ o = c)
      <4>1. Stays(e, <<Selecter[e], o>>)
        BY <3>6, <1>1, <1>6
      <4>2. Stays(e, <<Fifo[e], o>>)
        BY <3>6, <1>1, <1>6
      <4> QED BY <3>2, <4>1, <4>2, QueueCellStays
    <3> QED BY <3>5, <3>6
  <2> QED BY <2>1, QueueStays
<1> QED BY <1>7, <1>8, <1>9, AbstractStutter

(* A selecter writes: the message leaves.                                  *)
LEMMA LeaveStep ==
  ASSUME IInv, ChanKept, NEW d \in Dirs, NEW c \in Chan, NEW m,
         at[<<Selecter[d], c>>] = {m}, at'[<<Selecter[d], c>>] = {},
         at[<<LastStage[d], c>>] = {}, at'[<<LastStage[d], c>>] = {m},
         Dest(d, m)' = Dest(d, m),
         OthersStay({<<Selecter[d], c>>, <<LastStage[d], c>>})
  PROVE  \E i \in Chan : Abstract!Leave(d, i, c)
<1>1. \A e \in Dirs : {FirstStage[e], Router[e], Fifo[e], Selecter[e], LastStage[e]} \subseteq DirStages(e)
  BY DEF DirStages
<1>2. m \in Msg /\ Dest(d, m) = c
  BY <1>1, Placed
<1>3. PICK n : n = Tag(d, m)
  OBVIOUS
<1>4. PICK t : t = m.chan
  OBVIOUS
<1>5. t \in Chan /\ n \in AMessage /\ Tag(d, m)' = n
  BY <1>2, <1>3, <1>4, TagType, ShownStays DEF Msg
<1>6. ASSUME NEW e \in Dirs, NEW st \in DirStages(e), NEW k \in Chan,
             e # d \/ k # c \/ (st # Selecter[d] /\ st # LastStage[d])
      PROVE  Stays(e, <<st, k>>)
  <2>1. <<st, k>> \notin {<<Selecter[d], c>>, <<LastStage[d], c>>}
    BY <1>1, <1>6, StageNames
  <2> QED BY <2>1 DEF OthersStay
<1>7. AInput' = AInput
  <2>1. FirstStage[d] # Selecter[d] /\ FirstStage[d] # LastStage[d]
    BY StageNames
  <2> QED BY <2>1, <1>1, <1>6, InputStays
<1>8. AOutput[d][c] = {} /\ AOutput' = [AOutput EXCEPT ![d][c] = {n}]
  <2>1. AOutput[d][c] = {}
    BY CellEmpty
  <2>2. AOutput'[d][c] = {Tag(d, m)'}
    BY OutputGets
  <2>3. AOutput'[d][c] = {n}
    BY <2>2, <1>5
  <2>4. \A e \in Dirs, o \in Chan : ~ (e = d /\ o = c) => Stays(e, <<LastStage[e], o>>)
    BY <1>1, <1>6
  <2>5. AOutput' = [AOutput EXCEPT ![d][c] = {n}]
    BY <2>3, <2>4, OutputBecomes
  <2> QED BY <2>1, <2>5
<1>9. /\ AQueue[d][t][c] # <<>> /\ Head(AQueue[d][t][c]) = n
      /\ AQueue' = [AQueue EXCEPT ![d][t][c] = Tail(@)]
  <2>1. ASSUME NEW e \in Dirs, NEW i \in Chan, NEW o \in Chan
        PROVE  IF e = d /\ i = t /\ o = c
               THEN /\ AQueue[e][i][o] # <<>> /\ Head(AQueue[e][i][o]) = n
                    /\ AQueue'[e][i][o] = Tail(AQueue[e][i][o])
               ELSE AQueue'[e][i][o] = AQueue[e][i][o]
    <3> DEFINE S == HeldAt(e, Selecter[e], o, i, o)
               F == HeldAt(e, Fifo[e], o, i, o)
               R == HeldAt(e, Router[e], i, i, o)
    <3>1. /\ Router[d] # Selecter[d] /\ Router[d] # LastStage[d]
          /\ Fifo[d] # Selecter[d] /\ Fifo[d] # LastStage[d]
      BY StageNames
    <3>2. Stays(e, <<Router[e], i>>)
      BY <1>1, <3>1, <1>6
    <3>3. Stays(e, <<Fifo[e], o>>)
      BY <1>1, <3>1, <1>6
    <3>4. AQueue[e][i][o] = (S \o F) \o R /\ AQueue'[e][i][o] = (S' \o F') \o R'
      BY QueueParts
    <3>5. CASE e = d /\ o = c
      <4>1. S' = <<>>
        BY <3>5, HeldNone
      <4>2. S = IF m.chan = i /\ Dest(d, m) = o THEN <<Tag(d, m)>> ELSE <<>>
        BY <3>5, HeldOne
      <4>3. S = IF i = t THEN <<n>> ELSE <<>>
        BY <4>2, <3>5, <1>2, <1>3, <1>4
      <4>4. R' = R
        BY <3>2, StaysHeld
      <4>5. F' = F
        BY <3>3, StaysHeld
      <4>6. F \in Seq(AMessage) /\ R \in Seq(AMessage)
        BY <1>1, HeldType
      <4> HIDE DEF S, F, R
      <4>7. /\ <<>> \o F = F /\ (<<n>> \o F) \o R = <<n>> \o (F \o R)
            /\ F \o R \in Seq(AMessage)
        BY <4>6, <1>5
      <4>8. /\ <<n>> \o (F \o R) # <<>> /\ Head(<<n>> \o (F \o R)) = n
            /\ Tail(<<n>> \o (F \o R)) = F \o R
        BY <4>7, <1>5, Concatenated
      <4>9. CASE i = t
        <5>1. AQueue[e][i][o] = <<n>> \o (F \o R) /\ AQueue'[e][i][o] = F \o R
          BY <3>4, <4>1, <4>3, <4>4, <4>5, <4>7, <4>9
        <5> QED BY <5>1, <4>8, <4>9, <3>5
      <4>10. CASE i # t
        BY <3>4, <4>1, <4>3, <4>4, <4>5, <4>7, <4>10, <3>5
      <4> QED BY <4>9, <4>10
    <3>6. CASE ~ (e = d /\ o = c)
      <4>1. Stays(e, <<Selecter[e], o>>)
        BY <3>6, <1>1, <1>6
      <4>2. AQueue'[e][i][o] = AQueue[e][i][o]
        BY <3>2, <3>3, <4>1, QueueCellStays
      <4> QED BY <3>6, <4>2
    <3> QED BY <3>5, <3>6
  <2>2. PICK v : v = Tail(AQueue[d][t][c])
    OBVIOUS
  <2>3. Differ3(Dirs, Chan, AQueue, AQueue', d, t, c, v)
    BY <2>1, <2>2 DEF Differ3
  <2>4. AQueue' = [AQueue EXCEPT ![d][t][c] = v]
    BY <2>3, <1>5, QueueBecomes
  <2>5. AQueue[d][t][c] # <<>> /\ Head(AQueue[d][t][c]) = n
    BY <2>1, <1>5
  <2> QED BY <2>2, <2>4, <2>5
<1>10. Abstract!Leave(d, t, c)
  BY <1>5, <1>7, <1>8, <1>9, AbstractLeave
<1> QED BY <1>5, <1>10

(* A step that leaves the places of the queues alone.                      *)
LEMMA QueuesStay ==
  ASSUME \A e \in Dirs : \A st \in DirStages(e), k \in Chan :
           st \notin {FirstStage[e], LastStage[e]} => Stays(e, <<st, k>>)
  PROVE  AQueue' = AQueue
<1>1. ASSUME NEW e \in Dirs, NEW i \in Chan, NEW o \in Chan
      PROVE  AQueue'[e][i][o] = AQueue[e][i][o]
  <2>1. /\ {Selecter[e], Fifo[e], Router[e]} \subseteq DirStages(e)
        /\ Selecter[e] \notin {FirstStage[e], LastStage[e]}
        /\ Fifo[e] \notin {FirstStage[e], LastStage[e]}
        /\ Router[e] \notin {FirstStage[e], LastStage[e]}
    BY StageNames DEF DirStages
  <2>2. Stays(e, <<Selecter[e], o>>)
    BY <2>1
  <2>3. Stays(e, <<Fifo[e], o>>)
    BY <2>1
  <2>4. Stays(e, <<Router[e], i>>)
    BY <2>1
  <2> QED BY <2>2, <2>3, <2>4, QueueCellStays
<1> QED BY <1>1, QueueStays

(* A message is written to an input.                                       *)
LEMMA PutStep ==
  ASSUME NEW d \in Dirs, NEW c \in Chan, NEW m \in Msg, m.chan = c,
         at[<<FirstStage[d], c>>] = {}, at'[<<FirstStage[d], c>>] = {m},
         OthersStay({<<FirstStage[d], c>>})
  PROVE  Abstract!Put(d, c)
<1>1. \A e \in Dirs : {FirstStage[e], Router[e], Fifo[e], Selecter[e], LastStage[e]} \subseteq DirStages(e)
  BY DEF DirStages
<1>2. PICK n : n = Tag(d, m)'
  OBVIOUS
<1>3. n \in AMessage /\ n.chan = c
  BY <1>2, TagType DEF Tag
<1>4. ASSUME NEW e \in Dirs, NEW st \in DirStages(e), NEW k \in Chan,
             e # d \/ k # c \/ st # FirstStage[d]
      PROVE  Stays(e, <<st, k>>)
  <2>1. <<st, k>> \notin {<<FirstStage[d], c>>}
    BY <1>1, <1>4, StageNames
  <2> QED BY <2>1 DEF OthersStay
<1>5. AInput[d][c] = {} /\ AInput' = [AInput EXCEPT ![d][c] = {n}]
  <2>1. AInput[d][c] = {}
    BY CellEmpty
  <2>2. AInput'[d][c] = {Tag(d, m)'}
    BY InputGets
  <2>3. AInput'[d][c] = {n}
    BY <2>2, <1>2
  <2>4. \A e \in Dirs, o \in Chan : ~ (e = d /\ o = c) => Stays(e, <<FirstStage[e], o>>)
    BY <1>1, <1>4
  <2>5. AInput' = [AInput EXCEPT ![d][c] = {n}]
    BY <2>3, <2>4, InputBecomes
  <2> QED BY <2>1, <2>5
<1>6. AOutput' = AOutput
  <2>1. LastStage[d] # FirstStage[d]
    BY StageNames
  <2> QED BY <2>1, <1>1, <1>4, OutputStays
<1>7. AQueue' = AQueue
  BY <1>4, QueuesStay
<1> QED BY <1>3, <1>5, <1>6, <1>7, AbstractPut

(* A message is taken from an output.                                      *)
LEMMA GetStep ==
  ASSUME NEW d \in Dirs, NEW c \in Chan, NEW m,
         at[<<LastStage[d], c>>] = {m}, at'[<<LastStage[d], c>>] = {},
         OthersStay({<<LastStage[d], c>>})
  PROVE  Abstract!Get(d, c)
<1>1. \A e \in Dirs : {FirstStage[e], Router[e], Fifo[e], Selecter[e], LastStage[e]} \subseteq DirStages(e)
  BY DEF DirStages
<1>4. ASSUME NEW e \in Dirs, NEW st \in DirStages(e), NEW k \in Chan,
             e # d \/ k # c \/ st # LastStage[d]
      PROVE  Stays(e, <<st, k>>)
  <2>1. <<st, k>> \notin {<<LastStage[d], c>>}
    BY <1>1, <1>4, StageNames
  <2> QED BY <2>1 DEF OthersStay
<1>5. AOutput[d][c] # {} /\ AOutput' = [AOutput EXCEPT ![d][c] = {}]
  <2>1. AOutput[d][c] = {Tag(d, m)}
    BY OutputHolds
  <2>2. AOutput'[d][c] = {}
    BY CellEmpty
  <2>3. \A e \in Dirs, o \in Chan : ~ (e = d /\ o = c) => Stays(e, <<LastStage[e], o>>)
    BY <1>1, <1>4
  <2>4. AOutput' = [AOutput EXCEPT ![d][c] = {}]
    BY <2>2, <2>3, OutputBecomes
  <2> QED BY <2>1, <2>4
<1>6. AInput' = AInput
  <2>1. LastStage[d] # FirstStage[d]
    BY StageNames
  <2> QED BY <2>1, <1>1, <1>4, InputStays
<1>7. AQueue' = AQueue
  BY <1>4, QueuesStay
<1> QED BY <1>5, <1>6, <1>7, AbstractGet

(* Nothing in the crossbar changes.                                        *)
LEMMA NoStep ==
  ASSUME OthersStay({})
  PROVE  UNCHANGED Abstract!vars
<1>1. \A e \in Dirs : {FirstStage[e], Router[e], Fifo[e], Selecter[e], LastStage[e]} \subseteq DirStages(e)
  BY DEF DirStages
<1>2. ASSUME NEW e \in Dirs, NEW st \in DirStages(e), NEW k \in Chan
      PROVE  Stays(e, <<st, k>>)
  BY DEF OthersStay
<1>3. AInput' = AInput
  BY <1>1, <1>2, InputStays
<1>4. AOutput' = AOutput
  BY <1>1, <1>2, OutputStays
<1>5. AQueue' = AQueue
  BY <1>2, QueuesStay
<1> QED BY <1>3, <1>4, <1>5, AbstractStutter

-----------------------------------------------------------------------------
\* What the actions of CrossbarTop do to the crossbar

AbstractStep == Abstract!Next \/ UNCHANGED Abstract!vars

LEMMA ActionsOfNext ==
  ASSUME NEW d \in Dirs, NEW c \in Chan
  PROVE  /\ Abstract!Put(d, c) => AbstractStep
         /\ Abstract!Enter(d, c) => AbstractStep
         /\ (\E i \in Chan : Abstract!Leave(d, i, c)) => AbstractStep
         /\ Abstract!Get(d, c) => AbstractStep
BY DEF AbstractStep, Abstract!Next, Dirs

LEMMA OthersStayIf ==
  ASSUME UNCHANGED addr, NEW X, \A z \in Place : z \notin X => at'[z] = at[z]
  PROVE  OthersStay(X)
<1> SUFFICES ASSUME NEW d \in Dirs, NEW st \in DirStages(d), NEW c \in Chan, <<st, c>> \notin X
             PROVE  Stays(d, <<st, c>>)
  BY DEF OthersStay
<1>1. <<st, c>> \in Place
  BY StageNames, StageFacts, PlaceIn
<1>2. \A m : Dest(d, m)' = Dest(d, m)
  BY DEF Dest
<1> QED BY <1>1, <1>2 DEF Stays

\* Message m, alone in x, moves to y, which was free; it is bound for where it was.
Moved(m, x, y) ==
  /\ at[x] = {m} /\ at'[x] = {} /\ at[y] = {} /\ at'[y] = {m}
  /\ \A d : Dest(d, m)' = Dest(d, m)
  /\ OthersStay({x, y})

LEMMA FabricMove ==
  ASSUME IInv, NEW sx \in FabricStages, NEW sy \in FabricStages, NEW c \in Chan, NEW e \in Chan,
         sx # sy, NEW m \in at[<<sx, c>>], Transfer(m, <<sx, c>>, <<sy, e>>)
  PROVE  Moved(m, <<sx, c>>, <<sy, e>>)
<1>1. AtType /\ OnePerPlace
  BY Parts
<1>2. <<sx, c>> \in Place /\ <<sy, e>> \in Place /\ <<sx, c>> # <<sy, e>>
  BY PlaceIn, StageFacts
<1>3. at[<<sx, c>>] = {m} /\ at[<<sy, e>>] = {}
  BY <1>1 DEF OnePerPlace, Transfer, Free
<1>4. at' = [at EXCEPT ![<<sx, c>>] = @ \ {m}, ![<<sy, e>>] = @ \cup {m}]
  BY DEF Transfer, Move, Carry
<1>5. at'[<<sx, c>>] = {} /\ at'[<<sy, e>>] = {m}
  BY <1>1, <1>2, <1>3, <1>4 DEF AtType
<1>6. \A z \in Place : z \notin {<<sx, c>>, <<sy, e>>} => at'[z] = at[z]
  BY <1>1, <1>4 DEF AtType
<1>7. UNCHANGED addr
  BY DEF Transfer
<1>8. OthersStay({<<sx, c>>, <<sy, e>>})
  BY <1>6, <1>7, OthersStayIf
<1>9. \A d : Dest(d, m)' = Dest(d, m)
  BY <1>7 DEF Dest
<1> QED BY <1>3, <1>5, <1>8, <1>9 DEF Moved

LEMMA CarryKeepsChan ==
  ASSUME AtType, ChanKept, NEW sx \in TopStages, NEW sy \in TopStages,
         NEW c \in Chan, NEW e \in Chan, NEW m, NEW n,
         Carry(m, <<sx, c>>, n, <<sy, e>>), sy \in Plain => n.chan = e
  PROVE  ChanKept'
<1> SUFFICES ASSUME NEW st \in Plain, NEW k \in Chan, NEW l \in at'[<<st, k>>]
             PROVE  l.chan = k
  BY DEF ChanKept
<1>1. <<st, k>> \in Place
  BY PlaceIn DEF Plain
<1>2. l \in at[<<st, k>>] \/ (<<st, k>> = <<sy, e>> /\ l = n)
  BY <1>1 DEF Carry, AtType
<1>3. l \in at[<<st, k>>] => l.chan = k
  BY DEF ChanKept
<1> QED BY <1>2, <1>3

LEMMA PassKeepsChan ==
  ASSUME IInv, ChanKept, NEW sx \in Plain, NEW sy \in TopStages, NEW c \in Chan,
         NEW m \in at[<<sx, c>>], Move(m, <<sx, c>>, <<sy, c>>)
  PROVE  ChanKept'
<1>1. m.chan = c /\ AtType /\ sx \in TopStages
  BY Parts DEF ChanKept, Plain
<1> QED BY <1>1, CarryKeepsChan DEF Move

LEMMA RoutedKeepsChan ==
  ASSUME IInv, ChanKept, NEW sx \in TopStages, NEW sy \in TopStages \ Plain,
         NEW c \in Chan, NEW e \in Chan, NEW m, Move(m, <<sx, c>>, <<sy, e>>)
  PROVE  ChanKept'
<1>1. AtType
  BY Parts
<1> QED BY <1>1, CarryKeepsChan DEF Move

LEMMA DirNames ==
  /\ "fore" \in Dirs /\ "back" \in Dirs
  /\ FirstStage["fore"] = "noc_to_sch" /\ FirstStage["back"] = "mem_to_sch"
  /\ Router["fore"] = "fore_router" /\ Router["back"] = "back_router"
  /\ Fifo["fore"] = "fore_fifo" /\ Fifo["back"] = "back_fifo"
  /\ Selecter["fore"] = "fore_selecter" /\ Selecter["back"] = "back_selecter"
  /\ LastStage["fore"] = "sch_to_mem" /\ LastStage["back"] = "sch_to_noc"
  /\ {"req_noc_peq", "noc_to_crb", "noc_to_sch", "fore_router", "mem_req_peq",
      "return_trans_queue", "rsp_ip_peq", "mem_to_crb", "mem_to_sch", "back_router"} = Plain
  /\ {"fore_fifo", "fore_selecter", "sch_to_mem", "back_fifo", "back_selecter",
      "sch_to_noc", "ni_rsp_peq"} = TopStages \ Plain
BY DEF Dirs, FirstStage, Router, Fifo, Selecter, LastStage, Plain, TopStages, FabricStages,
       ForeRouted, BackRouted

LEMMA FabricRefines ==
  ASSUME IInv, ChanKept, NEW c \in Chan, Fabric(c)
  PROVE  AbstractStep /\ ChanKept'
<1>1. CASE ForeRouterRead(c)
  <2>1. PICK m \in at[<<"noc_to_sch", c>>] : Transfer(m, <<"noc_to_sch", c>>, <<"fore_router", c>>)
    BY <1>1 DEF ForeRouterRead, Pass
  <2>2. c \in Chan
    BY ForeDestType, BackDestType
  <2>3. Moved(m, <<"noc_to_sch", c>>, <<"fore_router", c>>)
    <3>1. "noc_to_sch" \in FabricStages /\ "fore_router" \in FabricStages /\ "noc_to_sch" # "fore_router"
      BY DEF FabricStages
    <3> QED BY <2>1, <2>2, <3>1, FabricMove
  <2>4. AbstractStep
    BY <2>3, EnterStep, DirNames, ActionsOfNext DEF Moved
  <2>5. ChanKept'
    BY <2>1, <2>2, PassKeepsChan, DirNames, StageFacts DEF Transfer, FabricStages
  <2> QED BY <2>4, <2>5
<1>2. CASE ForeRouterWrite(c)
  <2>1. PICK m \in at[<<"fore_router", c>>] : Transfer(m, <<"fore_router", c>>, <<"fore_fifo", ForeDest(addr[m.trans])>>)
    BY <1>2 DEF ForeRouterWrite, Pass
  <2>2. ForeDest(addr[m.trans]) \in Chan
    BY ForeDestType, BackDestType
  <2>3. Moved(m, <<"fore_router", c>>, <<"fore_fifo", ForeDest(addr[m.trans])>>)
    <3>1. "fore_router" \in FabricStages /\ "fore_fifo" \in FabricStages /\ "fore_router" # "fore_fifo"
      BY DEF FabricStages
    <3> QED BY <2>1, <2>2, <3>1, FabricMove
  <2>4. AbstractStep
    BY <2>3, RouteStep, DirNames DEF AbstractStep, Moved, Dest
  <2>5. ChanKept'
    BY <2>1, <2>2, RoutedKeepsChan, DirNames, StageFacts DEF Transfer, FabricStages
  <2> QED BY <2>4, <2>5
<1>3. CASE ForeSelecterRead(c)
  <2>1. PICK m \in at[<<"fore_fifo", c>>] : Transfer(m, <<"fore_fifo", c>>, <<"fore_selecter", c>>)
    BY <1>3 DEF ForeSelecterRead, Pass
  <2>2. c \in Chan
    BY ForeDestType, BackDestType
  <2>3. Moved(m, <<"fore_fifo", c>>, <<"fore_selecter", c>>)
    <3>1. "fore_fifo" \in FabricStages /\ "fore_selecter" \in FabricStages /\ "fore_fifo" # "fore_selecter"
      BY DEF FabricStages
    <3> QED BY <2>1, <2>2, <3>1, FabricMove
  <2>4. AbstractStep
    BY <2>3, SelectStep, DirNames DEF AbstractStep, Moved
  <2>5. ChanKept'
    BY <2>1, <2>2, RoutedKeepsChan, DirNames, StageFacts DEF Transfer, FabricStages
  <2> QED BY <2>4, <2>5
<1>4. CASE ForeSelecterWrite(c)
  <2>1. PICK m \in at[<<"fore_selecter", c>>] : Transfer(m, <<"fore_selecter", c>>, <<"sch_to_mem", c>>)
    BY <1>4 DEF ForeSelecterWrite, Pass
  <2>2. c \in Chan
    BY ForeDestType, BackDestType
  <2>3. Moved(m, <<"fore_selecter", c>>, <<"sch_to_mem", c>>)
    <3>1. "fore_selecter" \in FabricStages /\ "sch_to_mem" \in FabricStages /\ "fore_selecter" # "sch_to_mem"
      BY DEF FabricStages
    <3> QED BY <2>1, <2>2, <3>1, FabricMove
  <2>4. AbstractStep
    BY <2>3, LeaveStep, DirNames, ActionsOfNext DEF Moved
  <2>5. ChanKept'
    BY <2>1, <2>2, RoutedKeepsChan, DirNames, StageFacts DEF Transfer, FabricStages
  <2> QED BY <2>4, <2>5
<1>5. CASE BackRouterRead(c)
  <2>1. PICK m \in at[<<"mem_to_sch", c>>] : Transfer(m, <<"mem_to_sch", c>>, <<"back_router", c>>)
    BY <1>5 DEF BackRouterRead, Pass
  <2>2. c \in Chan
    BY ForeDestType, BackDestType
  <2>3. Moved(m, <<"mem_to_sch", c>>, <<"back_router", c>>)
    <3>1. "mem_to_sch" \in FabricStages /\ "back_router" \in FabricStages /\ "mem_to_sch" # "back_router"
      BY DEF FabricStages
    <3> QED BY <2>1, <2>2, <3>1, FabricMove
  <2>4. AbstractStep
    BY <2>3, EnterStep, DirNames, ActionsOfNext DEF Moved
  <2>5. ChanKept'
    BY <2>1, <2>2, PassKeepsChan, DirNames, StageFacts DEF Transfer, FabricStages
  <2> QED BY <2>4, <2>5
<1>6. CASE BackRouterWrite(c)
  <2>1. PICK m \in at[<<"back_router", c>>] : Transfer(m, <<"back_router", c>>, <<"back_fifo", BackDest(m.source)>>)
    BY <1>6 DEF BackRouterWrite, Pass
  <2>2. BackDest(m.source) \in Chan
    BY ForeDestType, BackDestType
  <2>3. Moved(m, <<"back_router", c>>, <<"back_fifo", BackDest(m.source)>>)
    <3>1. "back_router" \in FabricStages /\ "back_fifo" \in FabricStages /\ "back_router" # "back_fifo"
      BY DEF FabricStages
    <3> QED BY <2>1, <2>2, <3>1, FabricMove
  <2>4. AbstractStep
    BY <2>3, RouteStep, DirNames DEF AbstractStep, Moved, Dest
  <2>5. ChanKept'
    BY <2>1, <2>2, RoutedKeepsChan, DirNames, StageFacts DEF Transfer, FabricStages
  <2> QED BY <2>4, <2>5
<1>7. CASE BackSelecterRead(c)
  <2>1. PICK m \in at[<<"back_fifo", c>>] : Transfer(m, <<"back_fifo", c>>, <<"back_selecter", c>>)
    BY <1>7 DEF BackSelecterRead, Pass
  <2>2. c \in Chan
    BY ForeDestType, BackDestType
  <2>3. Moved(m, <<"back_fifo", c>>, <<"back_selecter", c>>)
    <3>1. "back_fifo" \in FabricStages /\ "back_selecter" \in FabricStages /\ "back_fifo" # "back_selecter"
      BY DEF FabricStages
    <3> QED BY <2>1, <2>2, <3>1, FabricMove
  <2>4. AbstractStep
    BY <2>3, SelectStep, DirNames DEF AbstractStep, Moved
  <2>5. ChanKept'
    BY <2>1, <2>2, RoutedKeepsChan, DirNames, StageFacts DEF Transfer, FabricStages
  <2> QED BY <2>4, <2>5
<1>8. CASE BackSelecterWrite(c)
  <2>1. PICK m \in at[<<"back_selecter", c>>] : Transfer(m, <<"back_selecter", c>>, <<"sch_to_noc", c>>)
    BY <1>8 DEF BackSelecterWrite, Pass
  <2>2. c \in Chan
    BY ForeDestType, BackDestType
  <2>3. Moved(m, <<"back_selecter", c>>, <<"sch_to_noc", c>>)
    <3>1. "back_selecter" \in FabricStages /\ "sch_to_noc" \in FabricStages /\ "back_selecter" # "sch_to_noc"
      BY DEF FabricStages
    <3> QED BY <2>1, <2>2, <3>1, FabricMove
  <2>4. AbstractStep
    BY <2>3, LeaveStep, DirNames, ActionsOfNext DEF Moved
  <2>5. ChanKept'
    BY <2>1, <2>2, RoutedKeepsChan, DirNames, StageFacts DEF Transfer, FabricStages
  <2> QED BY <2>4, <2>5
<1> QED BY <1>1, <1>2, <1>3, <1>4, <1>5, <1>6, <1>7, <1>8 DEF Fabric, FabricStep

(* The places around the crossbar.                                         *)
Outside == TopStages \ FabricStages

LEMMA OutsideNames ==
  /\ {"req_noc_peq", "noc_to_crb", "mem_req_peq", "return_trans_queue",
      "rsp_ip_peq", "mem_to_crb", "ni_rsp_peq"} = Outside
  /\ {"req_noc_peq", "noc_to_crb", "mem_req_peq", "return_trans_queue",
      "rsp_ip_peq", "mem_to_crb"} \subseteq Plain
BY DEF Outside, TopStages, FabricStages, Plain, ForeRouted, BackRouted

(* A step that touches places around the crossbar only, and no address.    *)
LEMMA AroundStep ==
  ASSUME UNCHANGED addr,
         \A st \in FabricStages, k \in Chan : at'[<<st, k>>] = at[<<st, k>>]
  PROVE  AbstractStep
<1>1. ASSUME NEW d \in Dirs, NEW st \in DirStages(d), NEW k \in Chan
      PROVE  Stays(d, <<st, k>>)
  <2>1. at'[<<st, k>>] = at[<<st, k>>]
    BY StageNames
  <2>2. \A m : Dest(d, m)' = Dest(d, m)
    BY DEF Dest
  <2> QED BY <2>1, <2>2 DEF Stays
<1>2. OthersStay({})
  BY <1>1 DEF OthersStay
<1> QED BY <1>2, NoStep DEF AbstractStep

LEMMA AroundMove ==
  ASSUME IInv, ChanKept, UNCHANGED addr, NEW sx \in Outside, NEW sy \in Outside,
         NEW c \in Chan, NEW m, NEW n, n.chan = c,
         Carry(m, <<sx, c>>, n, <<sy, c>>)
  PROVE  AbstractStep /\ ChanKept'
<1>1. AtType /\ sx \in TopStages /\ sy \in TopStages
  BY Parts DEF Outside
<1>2. ASSUME NEW st \in FabricStages, NEW k \in Chan PROVE at'[<<st, k>>] = at[<<st, k>>]
  <2>1. <<st, k>> \in Place /\ <<st, k>> # <<sx, c>> /\ <<st, k>> # <<sy, c>>
    BY StageFacts, PlaceIn DEF Outside
  <2> QED BY <1>1, <2>1 DEF AtType, Carry
<1>3. AbstractStep
  BY <1>2, AroundStep
<1>4. ChanKept'
  BY <1>1, CarryKeepsChan
<1> QED BY <1>3, <1>4

LEMMA AroundRemove ==
  ASSUME IInv, ChanKept, UNCHANGED addr, NEW sx \in Outside, NEW c \in Chan, NEW m,
         at' = [at EXCEPT ![<<sx, c>>] = @ \ {m}]
  PROVE  AbstractStep /\ ChanKept'
<1>1. AtType /\ sx \in TopStages
  BY Parts DEF Outside
<1>2. ASSUME NEW st \in FabricStages, NEW k \in Chan PROVE at'[<<st, k>>] = at[<<st, k>>]
  <2>1. <<st, k>> \in Place /\ <<st, k>> # <<sx, c>>
    BY StageFacts, PlaceIn DEF Outside
  <2> QED BY <1>1, <2>1 DEF AtType
<1>3. AbstractStep
  BY <1>2, AroundStep
<1>4. ASSUME NEW st \in Plain, NEW k \in Chan, NEW l \in at'[<<st, k>>] PROVE l.chan = k
  <2>1. <<st, k>> \in Place
    BY PlaceIn DEF Plain
  <2>2. l \in at[<<st, k>>]
    BY <1>1, <2>1 DEF AtType
  <2> QED BY <2>2 DEF ChanKept
<1> QED BY <1>3, <1>4 DEF ChanKept

LEMMA StillStep ==
  ASSUME ChanKept, UNCHANGED <<at, addr>>
  PROVE  AbstractStep /\ ChanKept'
<1>1. AbstractStep
  BY AroundStep
<1>2. ChanKept'
  BY DEF ChanKept
<1> QED BY <1>1, <1>2

LEMMA AroundRefines ==
  ASSUME IInv, ChanKept, NEW c \in Chan,
         \/ NocToCrb(c) \/ MemAccept(c) \/ MemReadDone(c) \/ MemToCrb(c)
         \/ MemWriteDone(c) \/ NIRespond(c) \/ NIAckFires(c) \/ AckFires(c)
  PROVE  AbstractStep /\ ChanKept'
<1>0. \A sx \in Plain : \A m \in at[<<sx, c>>] : m.chan = c
  BY DEF ChanKept
<1>a. /\ "req_noc_peq" \in Outside /\ "noc_to_crb" \in Outside /\ "mem_req_peq" \in Outside
      /\ "return_trans_queue" \in Outside /\ "rsp_ip_peq" \in Outside
      /\ "mem_to_crb" \in Outside /\ "ni_rsp_peq" \in Outside
      /\ "req_noc_peq" \in Plain /\ "mem_req_peq" \in Plain /\ "return_trans_queue" \in Plain
  BY OutsideNames
<1>1. CASE NocToCrb(c)
  <2>1. PICK m \in at[<<"req_noc_peq", c>>] :
          Carry(m, <<"req_noc_peq", c>>, m, <<"noc_to_crb", c>>) /\ UNCHANGED addr
    BY <1>1 DEF NocToCrb, Pass, Transfer, Move
  <2>2. m.chan = c
    BY <1>0, <1>a
  <2> QED BY <2>1, <2>2, <1>a, AroundMove
<1>2. CASE MemAccept(c)
  <2>1. PICK m \in at[<<"mem_req_peq", c>>] :
          Carry(m, <<"mem_req_peq", c>>, m, <<"return_trans_queue", c>>) /\ UNCHANGED addr
    BY <1>2 DEF MemAccept, Move
  <2>2. m.chan = c
    BY <1>0, <1>a
  <2> QED BY <2>1, <2>2, <1>a, AroundMove
<1>3. CASE MemReadDone(c)
  <2>1. PICK m \in at[<<"return_trans_queue", c>>] :
          Carry(m, <<"return_trans_queue", c>>, m, <<"rsp_ip_peq", c>>) /\ UNCHANGED addr
    BY <1>3 DEF MemReadDone, Move
  <2>2. m.chan = c
    BY <1>0, <1>a
  <2> QED BY <2>1, <2>2, <1>a, AroundMove
<1>4. CASE MemToCrb(c)
  <2>1. PICK m, n : n.chan = c /\ Carry(m, <<"rsp_ip_peq", c>>, n, <<"mem_to_crb", c>>)
                    /\ UNCHANGED addr
    BY <1>4 DEF MemToCrb
  <2> QED BY <2>1, <1>a, AroundMove
<1>5. CASE MemWriteDone(c)
  <2>1. PICK m : at' = [at EXCEPT ![<<"return_trans_queue", c>>] = @ \ {m}] /\ UNCHANGED addr
    BY <1>5 DEF MemWriteDone
  <2> QED BY <2>1, <1>a, AroundRemove
<1>6. CASE NIRespond(c)
  <2>1. PICK m : at' = [at EXCEPT ![<<"ni_rsp_peq", c>>] = @ \ {m}] /\ UNCHANGED addr
    BY <1>6 DEF NIRespond
  <2> QED BY <2>1, <1>a, AroundRemove
<1>7. CASE NIAckFires(c) \/ AckFires(c)
  BY <1>7, StillStep DEF NIAckFires, AckFires
<1> QED BY <1>1, <1>2, <1>3, <1>4, <1>5, <1>6, <1>7

(* Dest reads the address of the payload, so a message stays bound for     *)
(* where it was when only the address of another payload changes.          *)
LEMMA OtherPayloadStays ==
  ASSUME IInv, NEW t, \A u \in Trans : u # t => addr'[u] = addr[u],
         NEW d \in Dirs, NEW st \in DirStages(d), NEW c \in Chan,
         at'[<<st, c>>] = at[<<st, c>>], \A m \in at[<<st, c>>] : m.trans # t
  PROVE  Stays(d, <<st, c>>)
<1>1. st \in TopStages
  BY StageNames, StageFacts
<1>2. \A m \in at[<<st, c>>] : m.trans \in Trans
  BY <1>1, Held
<1>3. \A m \in at[<<st, c>>] : addr'[m.trans] = addr[m.trans]
  BY <1>2
<1>4. \A m \in at[<<st, c>>] : Dest(d, m)' = Dest(d, m)
  BY <1>3 DEF Dest
<1> QED BY <1>4 DEF Stays

(* A thread in front of the crossbar writes to an input that has room.     *)
LEMMA PutRefines ==
  ASSUME IInv, ChanKept, NEW d \in Dirs, NEW sx \in Outside, sx \in Plain,
         NEW c \in Chan, Pass(<<sx, c>>, <<FirstStage[d], c>>)
  PROVE  AbstractStep /\ ChanKept'
<1>1. PICK m \in at[<<sx, c>>] : Transfer(m, <<sx, c>>, <<FirstStage[d], c>>)
  BY DEF Pass
<1>2. AtType /\ sx \in TopStages /\ FirstStage[d] \in FabricStages
      /\ FirstStage[d] \in Plain /\ FirstStage[d] \in TopStages
  BY Parts, StageNames, StageFacts DEF Outside, DirStages
<1>3. m \in Msg /\ m.chan = c
  BY <1>2, Held DEF ChanKept
<1>4. /\ at[<<FirstStage[d], c>>] = {} /\ UNCHANGED addr
      /\ at' = [at EXCEPT ![<<sx, c>>] = @ \ {m}, ![<<FirstStage[d], c>>] = @ \cup {m}]
  BY <1>1 DEF Transfer, Free, Move, Carry
<1>5. <<sx, c>> \in Place /\ <<FirstStage[d], c>> \in Place /\ sx # FirstStage[d]
  BY <1>2, PlaceIn DEF Outside
<1>6. at'[<<FirstStage[d], c>>] = {m}
  BY <1>2, <1>4, <1>5 DEF AtType
<1>7. OthersStay({<<FirstStage[d], c>>})
  <2>1. ASSUME NEW e \in Dirs, NEW st \in DirStages(e), NEW k \in Chan,
               <<st, k>> \notin {<<FirstStage[d], c>>}
        PROVE  Stays(e, <<st, k>>)
    <3>1. st \in FabricStages
      BY StageNames
    <3>2. <<st, k>> \in Place /\ <<st, k>> # <<sx, c>>
      BY <3>1, StageFacts, PlaceIn DEF Outside
    <3>3. at'[<<st, k>>] = at[<<st, k>>]
      BY <1>2, <1>4, <2>1, <3>2 DEF AtType
    <3>4. \A l : Dest(e, l)' = Dest(e, l)
      BY <1>4 DEF Dest
    <3> QED BY <3>3, <3>4 DEF Stays
  <2> QED BY <2>1 DEF OthersStay
<1>8. Abstract!Put(d, c)
  BY <1>3, <1>4, <1>6, <1>7, PutStep
<1>9. AbstractStep
  BY <1>8, ActionsOfNext
<1>10. Move(m, <<sx, c>>, <<FirstStage[d], c>>)
  BY <1>1 DEF Transfer
<1>11. ChanKept'
  BY <1>2, <1>10, PassKeepsChan
<1> QED BY <1>9, <1>11

(* A thread behind the crossbar takes from an output, and may give the     *)
(* payload another address.                                                *)
LEMMA GetRefines ==
  ASSUME IInv, ChanKept, NEW d \in Dirs, NEW sy \in Outside,
         NEW c \in Chan, NEW m \in at[<<LastStage[d], c>>], NEW n,
         sy \in Plain => n.chan = c,
         Carry(m, <<LastStage[d], c>>, n, <<sy, c>>),
         \A u \in Trans : u # m.trans => addr'[u] = addr[u]
  PROVE  AbstractStep /\ ChanKept'
<1>1. AtType /\ AtMostOnce /\ OnePerPlace
  BY Parts DEF IInv
<1>2. /\ sy \in TopStages /\ LastStage[d] \in FabricStages /\ LastStage[d] \in TopStages
  BY StageNames, StageFacts DEF Outside, DirStages
<1>3. <<sy, c>> \in Place /\ <<LastStage[d], c>> \in Place /\ sy # LastStage[d]
  BY <1>2, PlaceIn DEF Outside
<1>4. at[<<LastStage[d], c>>] = {m}
  BY <1>1, <1>2 DEF OnePerPlace
<1>5. at'[<<LastStage[d], c>>] = {}
  BY <1>1, <1>3, <1>4 DEF AtType, Carry
<1>6. OthersStay({<<LastStage[d], c>>})
  <2>1. ASSUME NEW e \in Dirs, NEW st \in DirStages(e), NEW k \in Chan,
               <<st, k>> \notin {<<LastStage[d], c>>}
        PROVE  Stays(e, <<st, k>>)
    <3>1. st \in FabricStages
      BY StageNames
    <3>2. <<st, k>> \in Place /\ <<st, k>> # <<sy, c>>
      BY <3>1, StageFacts, PlaceIn DEF Outside
    <3>3. at'[<<st, k>>] = at[<<st, k>>]
      BY <1>1, <2>1, <3>2 DEF AtType, Carry
    <3>4. \A l \in at[<<st, k>>] : l.trans # m.trans
      BY <1>1, <1>3, <2>1, <3>2 DEF AtMostOnce
    <3> QED BY <3>3, <3>4, OtherPayloadStays
  <2> QED BY <2>1 DEF OthersStay
<1>7. Abstract!Get(d, c)
  BY <1>4, <1>5, <1>6, GetStep
<1>8. AbstractStep
  BY <1>7, ActionsOfNext
<1>9. ChanKept'
  BY <1>1, <1>2, CarryKeepsChan
<1> QED BY <1>8, <1>9

LEMMA EndsRefine ==
  ASSUME IInv, ChanKept, NEW c \in Chan,
         NocToCrbWrite(c) \/ MemToCrbWrite(c) \/ CrbToMem(c) \/ CrbToNoc(c)
  PROVE  AbstractStep /\ ChanKept'
<1>0. /\ "fore" \in Dirs /\ "back" \in Dirs
      /\ FirstStage["fore"] = "noc_to_sch" /\ FirstStage["back"] = "mem_to_sch"
      /\ LastStage["fore"] = "sch_to_mem" /\ LastStage["back"] = "sch_to_noc"
  BY DirNames
<1>a. /\ "noc_to_crb" \in Outside /\ "mem_to_crb" \in Outside
      /\ "mem_req_peq" \in Outside /\ "ni_rsp_peq" \in Outside
      /\ "noc_to_crb" \in Plain /\ "mem_to_crb" \in Plain
  BY OutsideNames
<1>b. "ni_rsp_peq" \notin Plain
  BY DEF Plain, BackRouted
<1>1. CASE NocToCrbWrite(c)
  <2>1. Pass(<<"noc_to_crb", c>>, <<FirstStage["fore"], c>>)
    BY <1>0, <1>1 DEF NocToCrbWrite
  <2> QED BY <2>1, <1>0, <1>a, PutRefines
<1>2. CASE MemToCrbWrite(c)
  <2>1. Pass(<<"mem_to_crb", c>>, <<FirstStage["back"], c>>)
    BY <1>0, <1>2 DEF MemToCrbWrite
  <2> QED BY <2>1, <1>0, <1>a, PutRefines
<1>3. CASE CrbToMem(c)
  <2>1. PICK m \in at[<<"sch_to_mem", c>>] :
          /\ addr' = [addr EXCEPT ![m.trans] = Rebase(@)]
          /\ Carry(m, <<"sch_to_mem", c>>,
                   [trans |-> m.trans, source |-> NoSource, chan |-> c],
                   <<"mem_req_peq", c>>)
    BY <1>3 DEF CrbToMem
  <2>3. PICK n : n = [trans |-> m.trans, source |-> NoSource, chan |-> c]
    OBVIOUS
  <2>4. /\ m \in at[<<LastStage["fore"], c>>] /\ n.chan = c
        /\ Carry(m, <<LastStage["fore"], c>>, n, <<"mem_req_peq", c>>)
    BY <1>0, <2>1, <2>3
  <2>2. \A u \in Trans : u # m.trans => addr'[u] = addr[u]
    <3>1. addr \in [Trans -> Nat]
      BY Parts DEF PayloadTypes
    <3> QED BY <2>1, <3>1
  <2> QED BY <2>2, <2>4, <1>0, <1>a, GetRefines
<1>4. CASE CrbToNoc(c)
  <2>1. PICK m \in at[<<LastStage["back"], c>>] :
          Carry(m, <<LastStage["back"], c>>, m, <<"ni_rsp_peq", c>>) /\ UNCHANGED addr
    BY <1>0, <1>4 DEF CrbToNoc, Move
  <2> QED BY <2>1, <1>0, <1>a, <1>b, GetRefines
<1> QED BY <1>1, <1>2, <1>3, <1>4

(* A request enters the NI: its payload is nowhere, and its message is on  *)
(* the channel of the NI.                                                  *)
LEMMA ForwardRefines ==
  ASSUME IInv, ChanKept, NEW t \in Trans, NEW s \in Sources, NEW a \in Addrs,
         NEW kind \in {"read", "write"}, NIForward(t, s, a, kind)
  PROVE  AbstractStep /\ ChanKept'
<1>1. PICK c : c = Redirect(16 + ForeDest(a), s) - 16
  OBVIOUS
<1>2. c \in Chan
  <2>1. s \in PE /\ BackDest(s) \in Chan
    BY EnvironmentAssumption, BackDestType
  <2>2. Redirect(16 + ForeDest(a), s) = 16 + BackDest(s)
    BY <2>1, ForeDestType, RedirectAgrees
  <2> QED BY <1>1, <2>1, <2>2 DEF Chan
<1>3. PICK n : n.chan = c /\ at' = [at EXCEPT ![<<"req_noc_peq", c>>] = @ \cup {n}]
  <2>1. at' = [at EXCEPT ![<<"req_noc_peq", c>>] = @ \cup {[trans |-> t, source |-> s, chan |-> c]}]
    BY <1>1 DEF NIForward
  <2> QED BY <2>1
<1>4. AtType /\ PayloadTypes /\ AllGood
  BY Parts
<1>5. req[t] = Idle /\ \A u \in Trans : u # t => addr'[u] = addr[u]
  BY <1>4 DEF NIForward, PayloadTypes
<1>6. "req_noc_peq" \in Outside
  BY OutsideNames
<1>7. AbstractStep
  <2>1. ASSUME NEW d \in Dirs, NEW st \in DirStages(d), NEW k \in Chan
        PROVE  Stays(d, <<st, k>>)
    <3>1. st \in FabricStages /\ st \in TopStages
      BY StageNames, StageFacts
    <3>2. <<st, k>> \in Place /\ <<st, k>> # <<"req_noc_peq", c>>
      BY <1>6, <3>1, PlaceIn DEF Outside
    <3>3. at'[<<st, k>>] = at[<<st, k>>]
      BY <1>3, <1>4, <3>2 DEF AtType
    <3>4. \A l \in at[<<st, k>>] : Known(l.trans)
      BY <3>1, Held DEF Good
    <3>5. \A l \in at[<<st, k>>] : l.trans # t
      BY <1>5, <3>4 DEF Known, Idle
    <3> QED BY <1>5, <3>3, <3>5, OtherPayloadStays
  <2>2. OthersStay({})
    BY <2>1 DEF OthersStay
  <2> QED BY <2>2, NoStep DEF AbstractStep
<1>8. ASSUME NEW st \in Plain, NEW k \in Chan, NEW l \in at'[<<st, k>>] PROVE l.chan = k
  <2>1. <<st, k>> \in Place
    BY PlaceIn DEF Plain
  <2>2. l \in at[<<st, k>>] \/ (<<st, k>> = <<"req_noc_peq", c>> /\ l = n)
    BY <1>3, <1>4, <2>1 DEF AtType
  <2>3. l \in at[<<st, k>>] => l.chan = k
    BY DEF ChanKept
  <2> QED BY <1>3, <2>2, <2>3
<1> QED BY <1>7, <1>8 DEF ChanKept

LEMMA StepRefines ==
  ASSUME IInv, ChanKept, [TopNext]_allVars
  PROVE  AbstractStep /\ ChanKept'
<1>1. CASE UNCHANGED allVars
  BY <1>1, StillStep DEF allVars
<1>2. ASSUME NEW t \in Trans, NEW s \in Sources, NEW a \in Addrs,
             NEW k \in {"read", "write"}, NIForward(t, s, a, k)
      PROVE  AbstractStep /\ ChanKept'
  BY <1>2, ForwardRefines
<1>3. ASSUME NEW c \in Chan, Threads(c)
      PROVE  AbstractStep /\ ChanKept'
  <2>1. CASE Fabric(c)
    BY <2>1, FabricRefines
  <2>2. CASE \/ NocToCrb(c) \/ MemAccept(c) \/ MemReadDone(c) \/ MemToCrb(c)
             \/ MemWriteDone(c) \/ NIRespond(c) \/ NIAckFires(c) \/ AckFires(c)
    BY <2>2, AroundRefines
  <2>3. CASE NocToCrbWrite(c) \/ MemToCrbWrite(c) \/ CrbToMem(c) \/ CrbToNoc(c)
    BY <2>3, EndsRefine
  <2> QED BY <1>3, <2>1, <2>2, <2>3 DEF Threads
<1> QED BY <1>1, <1>2, <1>3 DEF TopNext

LEMMA InitRefines ==
  ASSUME TopInit
  PROVE  Abstract!Init /\ ChanKept
<1>1. \A st \in TopStages, c \in Chan : at[<<st, c>>] = {}
  <2> SUFFICES ASSUME NEW st \in TopStages, NEW c \in Chan PROVE at[<<st, c>>] = {}
    OBVIOUS
  <2>1. <<st, c>> \in Place
    BY PlaceIn
  <2> QED BY <2>1 DEF TopInit
<1>2. \A d \in Dirs : DirStages(d) \subseteq TopStages
  BY StageNames, StageFacts
<1>3. ASSUME NEW d \in Dirs, NEW i \in Chan
      PROVE  AInput[d][i] = {} /\ AOutput[d][i] = {}
  <2>1. at[<<FirstStage[d], i>>] = {} /\ at[<<LastStage[d], i>>] = {}
    BY <1>1, <1>2 DEF DirStages
  <2> QED BY <2>1, CellEmpty
<1>4. ASSUME NEW d \in Dirs, NEW i \in Chan, NEW o \in Chan
      PROVE  AQueue[d][i][o] = <<>>
  <2>1. at[<<Selecter[d], o>>] = {} /\ at[<<Fifo[d], o>>] = {} /\ at[<<Router[d], i>>] = {}
    BY <1>1, <1>2 DEF DirStages
  <2>2. HeldAt(d, Selecter[d], o, i, o) = <<>>
    BY <2>1, HeldNone
  <2>3. HeldAt(d, Fifo[d], o, i, o) = <<>>
    BY <2>1, HeldNone
  <2>4. HeldAt(d, Router[d], i, i, o) = <<>>
    BY <2>1, HeldNone
  <2>5. AQueue[d][i][o] = (<<>> \o <<>>) \o <<>>
    BY <2>2, <2>3, <2>4, QueueParts
  <2> QED BY <2>5
<1>5. /\ AInput = [d \in Dirs |-> [i \in Chan |-> {}]]
      /\ AOutput = [d \in Dirs |-> [o \in Chan |-> {}]]
  BY <1>3 DEF AInput, AOutput
<1>6. AQueue = [d \in Dirs |-> [i \in Chan |-> [o \in Chan |-> <<>>]]]
  BY <1>4 DEF AQueue
<1>7. Abstract!Init
  BY <1>5, <1>6 DEF Abstract!Init, AInput, AQueue, AOutput, Dirs
<1>8. ChanKept
  BY <1>1 DEF ChanKept, Plain
<1> QED BY <1>7, <1>8

(* The sixteen threads implement ChannelRouter: every step of the crossbar *)
(* and of the threads around it is a step of the abstract router, or one   *)
(* it does not see.                                                        *)
THEOREM ImplementsRouter == TopSpec => RefinesRouter
<1>1. TopInit => IInv /\ ChanKept /\ Abstract!Init
  BY InitEstablishes, InitRefines
<1>2. IInv /\ ChanKept /\ [TopNext]_allVars => IInv' /\ ChanKept' /\ [Abstract!Next]_(Abstract!vars)
  BY StepKeeps, StepRefines DEF AbstractStep
<1> QED BY <1>1, <1>2, PTL DEF TopSpec, RefinesRouter, Abstract!Spec

-----------------------------------------------------------------------------
\* The address map

Lo(i) == 2 * (Regions[i].base + 1) - 1
Hi(i) == 2 * (Regions[i].high + 1)

-----------------------------------------------------------------------------
\* The regions

LEMMA TimesMonotone ==
  ASSUME NEW a \in Nat, NEW b \in Nat, NEW c \in Nat, a <= b
  PROVE  a * c <= b * c
<1> DEFINE d == b - a
<1>1. d \in Nat /\ b = a + d
  OBVIOUS
<1>2. d * c >= 0
  BY <1>1
<1>3. b * c = a * c + d * c
  BY <1>1
<1> QED BY <1>2, <1>3

LEMMA RegionFields ==
  ASSUME NEW i \in 1 .. 20
  PROVE  /\ i <= 16 => /\ Regions[i].base = (i - 1) * CoreSize
                       /\ Regions[i].high = i * CoreSize - 1
         /\ i > 16 => /\ Regions[i].base = ExtBase + (i - 17) * MemSize
                      /\ Regions[i].high = (ExtBase + (i - 16) * MemSize) - 1
         /\ Regions[i].port = i - 1
<1>1. CASE i <= 16
  <2>1. Regions[i] = [base |-> (i - 1) * CoreSize, high |-> i * CoreSize - 1, port |-> i - 1]
    BY <1>1 DEF Regions
  <2>2. /\ Regions[i].base = (i - 1) * CoreSize /\ Regions[i].high = i * CoreSize - 1
        /\ Regions[i].port = i - 1
    BY <2>1
  <2> QED BY <2>2, <1>1
<1>2. CASE i > 16
  <2>1. Regions[i] = [base |-> MemBegin(i - 17), high |-> MemBegin(i - 16) - 1, port |-> i - 1]
    BY <1>2 DEF Regions
  <2>2. MemBegin(i - 17) = ExtBase + (i - 17) * MemSize
    BY DEF MemBegin
  <2>3. MemBegin(i - 16) = ExtBase + (i - 16) * MemSize
    BY DEF MemBegin
  <2>4. /\ Regions[i].base = MemBegin(i - 17) /\ Regions[i].high = MemBegin(i - 16) - 1
        /\ Regions[i].port = i - 1
    BY <2>1
  <2>5. Regions[i].base = ExtBase + (i - 17) * MemSize
    BY <2>2, <2>4
  <2>6. Regions[i].high = (ExtBase + (i - 16) * MemSize) - 1
    BY <2>3, <2>4
  <2> QED BY <2>4, <2>5, <2>6, <1>2
<1> QED BY <1>1, <1>2

LEMMA IntervalEnd ==
  ASSUME NEW n \in Nat, NEW m \in Nat, 1 .. n = 1 .. m
  PROVE  n = m
<1>1. CASE n < m
  <2>1. m \in 1 .. m /\ m \notin 1 .. n
    BY <1>1
  <2> QED BY <2>1
<1>2. CASE m < n
  <2>1. n \in 1 .. n /\ n \notin 1 .. m
    BY <1>2
  <2> QED BY <2>1
<1> QED BY <1>1, <1>2

LEMMA RegionsCount == Len(Regions) = 20
<1>1. DOMAIN Regions = 1 .. 20 /\ Regions \in [1 .. 20 -> {Regions[i] : i \in 1 .. 20}]
  BY DEF Regions
<1>2. Regions \in Seq({Regions[i] : i \in 1 .. 20})
  BY <1>1, SeqDef
<1>3. Len(Regions) \in Nat /\ 1 .. Len(Regions) = 1 .. 20
  BY <1>1, <1>2, LenProperties
<1> QED BY <1>3, IntervalEnd

\* Each region has an address, and lies behind those inserted before it.
LEMMA RegionsOrdered ==
  /\ \A i \in 1 .. 20 : /\ Regions[i].base \in Nat /\ Regions[i].high \in Nat
                        /\ Regions[i].base <= Regions[i].high
  /\ \A i, j \in 1 .. 20 : i < j => Regions[i].high < Regions[j].base
<1> USE MapAssumption
<1>1. ASSUME NEW i \in 1 .. 20
      PROVE  /\ Regions[i].base \in Nat /\ Regions[i].high \in Nat
             /\ Regions[i].base <= Regions[i].high
  <2>1. CASE i <= 16
    <3>1. (i - 1) * CoreSize \in Nat /\ i * CoreSize = (i - 1) * CoreSize + CoreSize
      BY <2>1
    <3> QED BY <3>1, <2>1, RegionFields
  <2>2. CASE i > 16
    <3>1. /\ (i - 17) * MemSize \in Nat
          /\ (i - 16) * MemSize = (i - 17) * MemSize + MemSize
      BY <2>2
    <3> QED BY <3>1, <2>2, RegionFields
  <2> QED BY <2>1, <2>2
<1>2. ASSUME NEW i \in 1 .. 20, NEW j \in 1 .. 20, i < j
      PROVE  Regions[i].high < Regions[j].base
  <2>1. CASE j <= 16
    <3>1. i * CoreSize <= (j - 1) * CoreSize
      BY <1>2, TimesMonotone
    <3>2. i * CoreSize \in Int /\ (j - 1) * CoreSize \in Int
      OBVIOUS
    <3> QED BY <3>1, <3>2, <2>1, <1>2, RegionFields
  <2>2. CASE i <= 16 /\ j > 16
    <3>1. i * CoreSize <= 16 * CoreSize
      BY <2>2, TimesMonotone
    <3>2. (j - 17) * MemSize \in Nat
      BY <2>2
    <3>3. i * CoreSize \in Int
      OBVIOUS
    <3> QED BY <3>1, <3>2, <3>3, <2>2, RegionFields
  <2>3. CASE i > 16
    <3>1. (i - 16) * MemSize <= (j - 17) * MemSize
      BY <1>2, <2>3, TimesMonotone
    <3>2. (i - 16) * MemSize \in Int /\ (j - 17) * MemSize \in Int
      OBVIOUS
    <3> QED BY <3>1, <3>2, <2>3, <1>2, RegionFields
  <2> QED BY <2>1, <2>2, <2>3
<1> QED BY <1>1, <1>2

\* The keys come in the order of the regions.
LEMMA KeysOrdered ==
  /\ \A i \in 1 .. 20 : Lo(i) \in Nat /\ Hi(i) \in Nat /\ Lo(i) < Hi(i)
  /\ \A i, j \in 1 .. 20 : i < j => Hi(i) < Lo(j)
<1>1. ASSUME NEW i \in 1 .. 20
      PROVE  Lo(i) \in Nat /\ Hi(i) \in Nat /\ Lo(i) < Hi(i)
  <2> DEFINE base == Regions[i].base
             high == Regions[i].high
  <2>1. base \in Nat /\ high \in Nat /\ base <= high
    BY RegionsOrdered
  <2>2. Lo(i) = 2 * (base + 1) - 1 /\ Hi(i) = 2 * (high + 1)
    BY DEF Lo, Hi
  <2> HIDE DEF base, high
  <2> QED BY <2>1, <2>2
<1>2. ASSUME NEW i \in 1 .. 20, NEW j \in 1 .. 20, i < j
      PROVE  Hi(i) < Lo(j)
  <2> DEFINE high == Regions[i].high
             base == Regions[j].base
  <2>1. high \in Nat /\ base \in Nat /\ high < base
    BY <1>2, RegionsOrdered
  <2>2. Lo(j) = 2 * (base + 1) - 1 /\ Hi(i) = 2 * (high + 1)
    BY DEF Lo, Hi
  <2> HIDE DEF base, high
  <2> QED BY <2>1, <2>2
<1> QED BY <1>1, <1>2

-----------------------------------------------------------------------------
\* What is in the map after n insertions.

Keys(n) == {<<Lo(i), NoPort>> : i \in 1 .. n} \cup {<<Hi(i), Regions[i].port>> : i \in 1 .. n}

LEMMA InsertAddsKeys ==
  ASSUME NEW n \in 0 .. 19
  PROVE  Insert(Keys(n), Regions[n + 1]) = Keys(n + 1)
<1> DEFINE m == n + 1
<1>1. m \in 1 .. 20 /\ 1 .. m = (1 .. n) \cup {m}
  OBVIOUS
<1>2. \A e \in Keys(n) : e[1] < Lo(m)
  <2>1. \A i \in 1 .. n : Lo(i) < Lo(m) /\ Hi(i) < Lo(m)
    BY KeysOrdered
  <2> QED BY <2>1 DEF Keys
<1>3. Lo(m) \in Nat /\ Hi(m) \in Nat /\ Lo(m) < Hi(m)
  BY <1>1, KeysOrdered
<1>4. \A e \in Keys(n) : e[1] # Lo(m) /\ e[1] # Hi(m)
  <2>1. \A i \in 1 .. n : /\ Lo(i) # Lo(m) /\ Hi(i) # Lo(m)
                          /\ Lo(i) # Hi(m) /\ Hi(i) # Hi(m)
    BY <1>1, KeysOrdered
  <2> QED BY <2>1 DEF Keys
<1>5. MapInsert(Keys(n), Lo(m), NoPort) = Keys(n) \cup {<<Lo(m), NoPort>>}
  BY <1>4 DEF MapInsert
<1>6. MapInsert(Keys(n) \cup {<<Lo(m), NoPort>>}, Hi(m), Regions[m].port)
        = Keys(n) \cup {<<Lo(m), NoPort>>} \cup {<<Hi(m), Regions[m].port>>}
  <2>1. ~ \E e \in Keys(n) \cup {<<Lo(m), NoPort>>} : e[1] = Hi(m)
    BY <1>3, <1>4
  <2> QED BY <2>1 DEF MapInsert
<1>7. Insert(Keys(n), Regions[m])
        = Keys(n) \cup {<<Lo(m), NoPort>>} \cup {<<Hi(m), Regions[m].port>>}
  BY <1>5, <1>6 DEF Insert, Lo, Hi
<1>8. Keys(m) = Keys(n) \cup {<<Lo(m), NoPort>>} \cup {<<Hi(m), Regions[m].port>>}
  BY <1>1 DEF Keys
<1> QED BY <1>7, <1>8

\* lower_bound finds the upper key of the region an address lies in ...
LEMMA DecodeInside ==
  ASSUME NEW n \in 0 .. 20, NEW i \in 1 .. n, NEW a \in Nat,
         Regions[i].base <= a, a <= Regions[i].high
  PROVE  Decode(Keys(n), a) = Regions[i].port
<1> DEFINE q == 2 * (a + 1)
           found == <<Hi(i), Regions[i].port>>
<1>1. Lo(i) < q /\ q <= Hi(i) /\ Hi(i) \in Nat
  BY RegionsOrdered DEF Lo, Hi
<1>2. \A j \in 1 .. n : /\ Lo(j) >= q => Lo(j) > Hi(i)
                        /\ Hi(j) >= q => j = i \/ Hi(j) > Hi(i)
  <2> TAKE j \in 1 .. n
  <2>0. /\ i \in 1 .. 20 /\ j \in 1 .. 20 /\ q \in Nat
        /\ Lo(j) \in Nat /\ Hi(j) \in Nat /\ Lo(j) < Hi(j) /\ Lo(i) \in Nat /\ Hi(i) \in Nat
    BY KeysOrdered
  <2>1. j < i => Hi(j) < Lo(i)
    BY <2>0, KeysOrdered
  <2>2. j > i => Hi(i) < Lo(j)
    BY <2>0, KeysOrdered
  <2> HIDE DEF q
  <2> QED BY <2>0, <2>1, <2>2, <1>1
<1>3. LowerBound(Keys(n), q) = {found}
  <2>1. found \in Keys(n)
    BY DEF Keys
  <2>2. \A e \in Keys(n) : e[1] >= q => e = found \/ (e[1] > Hi(i) /\ e[1] \in Int)
    <3>1. \A j \in 1 .. n : Lo(j) \in Int /\ Hi(j) \in Int
      BY KeysOrdered
    <3> HIDE DEF q
    <3> QED BY <1>2, <3>1 DEF Keys
  <2>3. found[1] = Hi(i)
    OBVIOUS
  <2> HIDE DEF q, found
  <2>4. found \in LowerBound(Keys(n), q)
    BY <2>1, <2>2, <2>3, <1>1 DEF LowerBound
  <2>5. \A e \in LowerBound(Keys(n), q) : e = found
    BY <2>1, <2>2, <2>3, <1>1 DEF LowerBound
  <2> QED BY <2>4, <2>5
<1>4. found[2] = Regions[i].port
  OBVIOUS
<1> HIDE DEF q, found
<1>5. LowerBound(Keys(n), 2 * (a + 1)) = {found}
  BY <1>3 DEF q
<1>6. (CHOOSE e \in {found} : TRUE) = found
  OBVIOUS
<1> QED BY <1>4, <1>5, <1>6 DEF Decode

\* ... and a lower key, or none, if it lies in no region.
LEMMA DecodeOutside ==
  ASSUME NEW n \in 0 .. 20, NEW a \in Nat,
         \A i \in 1 .. n : ~(Regions[i].base <= a /\ a <= Regions[i].high)
  PROVE  Decode(Keys(n), a) = NoPort
<1> DEFINE q == 2 * (a + 1)
<1>1. \A i \in 1 .. n : Hi(i) >= q => Lo(i) >= q /\ Lo(i) < Hi(i) /\ Lo(i) \in Nat /\ Hi(i) \in Nat
  <2> SUFFICES ASSUME NEW i \in 1 .. n, Hi(i) >= q
               PROVE  Lo(i) >= q
    BY KeysOrdered
  <2> DEFINE base == Regions[i].base
             high == Regions[i].high
  <2>1. base \in Nat /\ high \in Nat /\ ~(base <= a /\ a <= high)
    BY RegionsOrdered
  <2>2. Lo(i) = 2 * (base + 1) - 1 /\ Hi(i) = 2 * (high + 1)
    BY DEF Lo, Hi
  <2> HIDE DEF base, high
  <2> QED BY <2>1, <2>2
<1>2. \A e \in LowerBound(Keys(n), q) : e[2] = NoPort
  <2> SUFFICES ASSUME NEW e \in LowerBound(Keys(n), q), e[2] # NoPort
               PROVE  FALSE
    OBVIOUS
  <2>1. e \in Keys(n) /\ e[1] >= q /\ \A f \in Keys(n) : f[1] >= q => e[1] <= f[1]
    BY DEF LowerBound
  <2>2. PICK i \in 1 .. n : e = <<Hi(i), Regions[i].port>>
    BY <2>1 DEF Keys
  <2>3. <<Lo(i), NoPort>> \in Keys(n)
    BY DEF Keys
  <2>4. Hi(i) >= q
    BY <2>1, <2>2
  <2>5. Hi(i) <= Lo(i)
    BY <2>1, <2>2, <2>3, <2>4, <1>1
  <2> QED BY <2>4, <2>5, <1>1
<1>3. CASE LowerBound(Keys(n), q) = {}
  BY <1>3 DEF Decode
<1>4. CASE LowerBound(Keys(n), q) # {}
  <2>1. (CHOOSE e \in LowerBound(Keys(n), q) : TRUE) \in LowerBound(Keys(n), q)
    BY <1>4
  <2> QED BY <1>4, <1>2, <2>1 DEF Decode
<1> QED BY <1>3, <1>4
-----------------------------------------------------------------------------
\* The inductive invariant: the map holds the keys of what was inserted, and
\* every look-up is one in the full map.

MapHoldsKeys == inserted \in 0 .. 20 /\ m_addressMap = Keys(inserted)

LookedUp ==
  lookup.target # NoPort =>
    /\ inserted = 20
    /\ lookup.addr \in 0 .. MaxAddress /\ lookup.source \in PE
    /\ lookup.target = CrossbarDecode(m_addressMap, lookup.addr, lookup.source)

MapInv == MapHoldsKeys /\ LookedUp

LEMMA MapInitHolds == MapInit => MapInv
<1> SUFFICES ASSUME MapInit PROVE MapInv
  OBVIOUS
<1>1. Keys(0) = {}
  BY DEF Keys
<1>2. inserted = 0 /\ m_addressMap = {} /\ lookup.target = NoPort
  BY DEF MapInit
<1> QED BY <1>1, <1>2 DEF MapInv, MapHoldsKeys, LookedUp

LEMMA MapStepKeeps == MapInv /\ [MapNext]_mapVars => MapInv'
<1> SUFFICES ASSUME MapInv, [MapNext]_mapVars PROVE MapInv'
  OBVIOUS
<1>1. CASE SetMemoryMap
  <2>1. inserted \in 0 .. 19 /\ inserted' = inserted + 1 /\ lookup' = lookup
    BY <1>1, RegionsCount DEF SetMemoryMap, MapInv, MapHoldsKeys
  <2>2. m_addressMap' = Keys(inserted + 1)
    BY <1>1, <2>1, InsertAddsKeys DEF SetMemoryMap, MapInv, MapHoldsKeys
  <2>3. lookup.target = NoPort
    BY <2>1 DEF MapInv, LookedUp
  <2> QED BY <2>1, <2>2, <2>3 DEF MapInv, MapHoldsKeys, LookedUp
<1>2. ASSUME NEW a \in 0 .. MaxAddress, NEW s \in PE, LookUp(a, s)
      PROVE  MapInv'
  <2>1. inserted = 20 /\ UNCHANGED <<m_addressMap, inserted>>
    BY <1>2, RegionsCount DEF LookUp
  <2>2. /\ lookup'.addr = a /\ lookup'.source = s
        /\ lookup'.target = CrossbarDecode(m_addressMap, a, s)
    BY <1>2 DEF LookUp
  <2>3. MapHoldsKeys'
    BY <2>1 DEF MapInv, MapHoldsKeys
  <2>4. LookedUp'
    BY <2>1, <2>2 DEF LookedUp, CrossbarDecode, Decode, LowerBound
  <2> QED BY <2>3, <2>4 DEF MapInv
<1>3. CASE UNCHANGED mapVars
  BY <1>3 DEF mapVars, MapInv, MapHoldsKeys, LookedUp, CrossbarDecode, Decode, LowerBound
<1> QED BY <1>1, <1>2, <1>3 DEF MapNext

LEMMA MapInvHolds == MapSpec => []MapInv
BY MapInitHolds, MapStepKeeps, PTL DEF MapSpec

-----------------------------------------------------------------------------
(* SimpleAddressMap answers what a search of the regions would, after      *)
(* every insertion, for all sizes of the regions (decode, insert).         *)
LEMMA MapInvGivesRegionSearch == MapInv => DecodeIsRegionSearch
<1> SUFFICES ASSUME MapInv, NEW a \in 0 .. MaxAddress
             PROVE  Decode(m_addressMap, a) =
                      IF RegionOf(a) = {} THEN NoPort ELSE CHOOSE p \in RegionOf(a) : TRUE
  BY DEF DecodeIsRegionSearch
<1> DEFINE n == inserted
<1>1. n \in 0 .. 20 /\ m_addressMap = Keys(n) /\ a \in Nat
  BY AddressAssumption DEF MapInv, MapHoldsKeys
<1>2. CASE \E i \in 1 .. n : Regions[i].base <= a /\ a <= Regions[i].high
  <2>1. PICK i \in 1 .. n : Regions[i].base <= a /\ a <= Regions[i].high
    BY <1>2
  <2>2. \A j \in 1 .. n : Regions[j].base <= a /\ a <= Regions[j].high => j = i
    <3> SUFFICES ASSUME NEW j \in 1 .. n, Regions[j].base <= a, a <= Regions[j].high, j # i
                 PROVE  FALSE
      OBVIOUS
    <3>1. i \in 1 .. 20 /\ j \in 1 .. 20 /\ (i < j \/ j < i)
      BY <1>1
    <3> QED BY <3>1, <2>1, <1>1, RegionsOrdered
  <2>3. RegionOf(a) = {Regions[i].port}
    BY <2>1, <2>2 DEF RegionOf
  <2>4. Decode(Keys(n), a) = Regions[i].port
    BY <1>1, <2>1, DecodeInside
  <2> QED BY <1>1, <2>3, <2>4
<1>3. CASE ~ \E i \in 1 .. n : Regions[i].base <= a /\ a <= Regions[i].high
  <2>1. RegionOf(a) = {}
    BY <1>3 DEF RegionOf
  <2>2. Decode(Keys(n), a) = NoPort
    BY <1>1, <1>3, DecodeOutside
  <2> QED BY <1>1, <2>1, <2>2
<1> QED BY <1>2, <1>3

THEOREM DecodesRegions == MapSpec => []DecodeIsRegionSearch
BY MapInvHolds, MapInvGivesRegionSearch, PTL

LEMMA QuotientBetween ==
  ASSUME NEW a \in Nat, NEW c \in Nat \ {0}, NEW k \in Nat, k * c <= a, a < k * c + c
  PROVE  a \div c = k
<1> DEFINE d == a \div c
           r == a % c
<1>1. d \in Int /\ r \in 0 .. (c - 1) /\ a = c * d + r
  OBVIOUS
<1> HIDE DEF d, r
<1>2. CASE d > k
  <2>1. c * d >= c * (k + 1)
    BY <1>1, <1>2
  <2>2. c * (k + 1) = k * c + c
    OBVIOUS
  <2> QED BY <2>1, <2>2, <1>1
<1>3. CASE d < k
  <2>1. c * (d + 1) <= c * k
    BY <1>1, <1>3
  <2>2. c * (d + 1) = c * d + c /\ c * k = k * c
    BY <1>1
  <2> QED BY <2>1, <2>2, <1>1
<1>4. CASE d = k
  BY <1>4 DEF d
<1> QED BY <1>1, <1>2, <1>3, <1>4

(* A request is sent to the core whose memory it names, or to the NI of    *)
(* the channel that will bring back its answer (crossbar_decode against    *)
(* back0_router .. back3_router).                                          *)
LEMMA MapInvGivesAnsweringNI == MapInv => SentToAnsweringNI
<1> SUFFICES ASSUME MapInv, lookup.target # NoPort
             PROVE  IF lookup.addr \in ExtAddr
                      THEN lookup.target = 16 + BackDest(lookup.source)
                      ELSE lookup.target = lookup.addr \div CoreSize
  BY DEF SentToAnsweringNI
<1> DEFINE a == lookup.addr
           s == lookup.source
<1>1. /\ a \in Nat /\ s \in PE
      /\ lookup.target = CrossbarDecode(Keys(20), a, s)
  BY AddressAssumption DEF MapInv, MapHoldsKeys, LookedUp
<1>2. Decode(Keys(20), a) # NoPort
  BY <1>1 DEF CrossbarDecode
<1>3. PICK i \in 1 .. 20 : Regions[i].base <= a /\ a <= Regions[i].high
  BY <1>1, <1>2, DecodeOutside
<1>4. Decode(Keys(20), a) = i - 1
  BY <1>1, <1>3, DecodeInside, RegionFields
<1>5. lookup.target = Redirect(i - 1, s)
  BY <1>1, <1>2, <1>4 DEF CrossbarDecode
<1> USE MapAssumption
<1>6. CASE i <= 16
  <2>1. /\ (i - 1) * CoreSize \in Nat /\ i * CoreSize = (i - 1) * CoreSize + CoreSize
        /\ i - 1 \in Nat
    BY <1>6
  <2>2. (i - 1) * CoreSize <= a /\ a < (i - 1) * CoreSize + CoreSize
    BY <1>1, <1>3, <1>6, <2>1, RegionFields
  <2>3. a \div CoreSize = i - 1
    BY <1>1, <2>1, <2>2, QuotientBetween
  <2>4. i * CoreSize <= 16 * CoreSize
    BY <1>6, TimesMonotone
  <2>5. a \notin ExtAddr
    BY <1>1, <2>1, <2>2, <2>4 DEF ExtAddr
  <2>6. Redirect(i - 1, s) = i - 1
    BY <1>6 DEF Redirect
  <2> QED BY <1>5, <2>3, <2>5, <2>6
<1>7. CASE i > 16
  <2>1. (i - 17) * MemSize \in Nat /\ (i - 16) * MemSize <= 4 * MemSize
    BY <1>7, TimesMonotone
  <2>2. (i - 16) * MemSize \in Int
    OBVIOUS
  <2>3. a \in ExtAddr
    BY <1>1, <1>3, <1>7, <2>1, <2>2, RegionFields DEF ExtAddr
  <2>4. i - 17 \in Chan /\ i - 1 = 16 + (i - 17)
    BY <1>7 DEF Chan
  <2>5. Redirect(i - 1, s) = 16 + BackDest(s)
    BY <1>1, <2>4, RedirectAgrees
  <2> QED BY <1>5, <2>3, <2>5
<1> QED BY <1>6, <1>7

THEOREM SendsToAnsweringNI == MapSpec => []SentToAnsweringNI
BY MapInvHolds, MapInvGivesAnsweringNI, PTL
=============================================================================
