----------------------------- MODULE AddressMap -----------------------------
(***************************************************************************)
(* SimpleAddressMap (noc/SimpleAddressMap.h): an ordered map with two keys *)
(* per region, an odd one below it that holds 255 and an even one at its   *)
(* end that holds the port, searched with lower_bound.  Mesh2D fills it    *)
(* once (set_memory_map); every InitNI then asks it where a request goes   *)
(* (crossbar_decode).                                                      *)
(***************************************************************************)
EXTENDS MemMap, Sequences

CONSTANT MaxAddress   \* largest address looked up

ASSUME AddressAssumption == MaxAddress \in Nat

VARIABLES
  m_addressMap,   \* the std::map, as a set of <<key, value>>
  inserted,       \* regions set_memory_map has inserted so far
  lookup          \* the last call of crossbar_decode and its result

mapVars == <<m_addressMap, inserted, lookup>>

NoPort == 255     \* the "no region here" value, also the result on error

(* The regions in the order the two loops of set_memory_map insert them.   *)
Regions ==
  [i \in 1..20 |->
     IF i <= 16
       THEN [base |-> (i-1) * CoreSize, high |-> i * CoreSize - 1,
             port |-> i - 1]
       ELSE [base |-> MemBegin(i-17), high |-> MemBegin(i-16) - 1,
             port |-> i - 1]]

(* std::map::insert leaves an existing key alone.                          *)
MapInsert(map, k, v) ==
  IF \E e \in map : e[1] = k THEN map ELSE map \cup {<<k, v>>}

Insert(map, r) ==
  MapInsert(MapInsert(map, 2 * (r.base + 1) - 1, NoPort),
            2 * (r.high + 1), r.port)

(* lower_bound: the entry with the least key not below k, if there is one. *)
\* Mutant: upper_bound in its place.
UpperBound(map, k) ==
  {e \in map : e[1] > k /\ \A f \in map : f[1] > k => e[1] <= f[1]}

LowerBound(map, k) ==
  {e \in map : e[1] >= k /\ \A f \in map : f[1] >= k => e[1] <= f[1]}

Decode(map, a) ==
  LET lbound == LowerBound(map, 2 * (a + 1))
  IN  IF lbound = {} THEN NoPort ELSE (CHOOSE e \in lbound : TRUE)[2]

(* crossbar_decode returns 255 after SC_REPORT_ERROR on an unmapped        *)
(* address and redirects the others.                                       *)
CrossbarDecode(map, a, source) ==
  IF Decode(map, a) = NoPort THEN NoPort
  ELSE Redirect(Decode(map, a), source)

-----------------------------------------------------------------------------
MapInit ==
  /\ m_addressMap = {}
  /\ inserted = 0
  /\ lookup = [addr |-> 0, source |-> 0, target |-> NoPort]

SetMemoryMap ==
  /\ inserted < Len(Regions)
  /\ m_addressMap' = Insert(m_addressMap, Regions[inserted + 1])
  /\ inserted' = inserted + 1
  /\ UNCHANGED lookup

\* Simulation starts after elaboration, so every look-up sees the full map.
LookUp(a, source) ==
  /\ inserted = Len(Regions)
  /\ lookup' = [addr |-> a, source |-> source,
                target |-> CrossbarDecode(m_addressMap, a, source)]
  /\ UNCHANGED <<m_addressMap, inserted>>

MapNext ==
  \/ SetMemoryMap
  \/ \E a \in 0..MaxAddress, s \in PE : LookUp(a, s)

MapSpec == MapInit /\ [][MapNext]_mapVars

-----------------------------------------------------------------------------
(* The two-keys-per-region encoding answers what a search of the regions   *)
(* would: the first and the last address of a region belong to it, the     *)
(* addresses on either side do not, whatever was inserted before or after. *)
RegionOf(a) ==
  {Regions[i].port : i \in {j \in 1..inserted :
                              Regions[j].base <= a /\ a <= Regions[j].high}}

DecodeIsRegionSearch ==
  \A a \in 0..MaxAddress :
    Decode(m_addressMap, a) =
      IF RegionOf(a) = {} THEN NoPort ELSE CHOOSE p \in RegionOf(a) : TRUE

(* A request for an external memory is sent to the NI whose channel the    *)
(* back routers of the Crossbar will choose for its response, so that the  *)
(* NI that recorded the request is the NI that gets the answer; a request  *)
(* for a core is sent to that core.                                        *)
SentToAnsweringNI ==
  LET t == lookup.target
  IN  t # NoPort =>
        IF lookup.addr \in ExtAddr
          THEN t = 16 + BackDest(lookup.source)
          ELSE t = lookup.addr \div CoreSize
=============================================================================
