--------------------------- MODULE AddressMapping ---------------------------
(***************************************************************************)
(* DRAMSim2/AddressMapping.cpp: an address is cut, from its low end, into  *)
(* the numbers of a channel, rank, bank, row and column.  One step cuts    *)
(* off one field.  A shift by the width of a field is a division by the    *)
(* number of its values, and tempA ^ tempB is what the shift threw away.   *)
(***************************************************************************)
EXTENDS Integers, Sequences

CONSTANTS
  Devices,       \* the values of each field: 2^NUM_CHANS_LOG, ..., 2^colHighBitWidth
  Unit,          \* the bytes of a transaction: 2^(byteOffsetWidth + colLowBitWidth)
  MaxAddress     \* bound on the addresses tried

Fields == {"chan", "rank", "bank", "row", "col"}
Schemes == 1 .. 7

ASSUME MappingAssumption ==
  /\ \A d \in Devices : d \in [Fields -> Nat \ {0}]
  /\ Unit \in Nat \ {0} /\ MaxAddress \in Nat

VARIABLES
  Size,              \* the values of each field, of the device simulated
  scheme,            \* addressMappingScheme
  address,           \* the address to map
  physicalAddress,   \* what is left of it
  new,               \* newTransactionChan, ..., newTransactionColumn
  taken              \* the number of fields cut off

mappingVars == <<Size, scheme, address, physicalAddress, new, taken>>

\* Mutant: schemes 3 and 4 as each other.
LowToHighSwapped(s) ==
  CASE s = 1 -> <<"bank", "col", "row", "rank", "chan">>
    [] s = 2 -> <<"rank", "bank", "col", "row", "chan">>
    [] s = 3 -> <<"col", "row", "bank", "rank", "chan">>
    [] s = 4 -> <<"row", "col", "bank", "rank", "chan">>
    [] s = 5 -> <<"bank", "rank", "col", "row", "chan">>
    [] s = 6 -> <<"col", "rank", "bank", "row", "chan">>
    [] s = 7 -> <<"chan", "bank", "rank", "col", "row">>

\* The order in which the branch of a scheme cuts the fields off.
LowToHigh(s) ==
  CASE s = 1 -> <<"bank", "col", "row", "rank", "chan">>
    [] s = 2 -> <<"rank", "bank", "col", "row", "chan">>
    [] s = 3 -> <<"row", "col", "bank", "rank", "chan">>
    [] s = 4 -> <<"col", "row", "bank", "rank", "chan">>
    [] s = 5 -> <<"bank", "rank", "col", "row", "chan">>
    [] s = 6 -> <<"col", "rank", "bank", "row", "chan">>
    [] s = 7 -> <<"chan", "bank", "rank", "col", "row">>

MappingInit ==
  /\ Size \in Devices
  /\ scheme \in Schemes
  /\ address \in 0 .. MaxAddress
  /\ physicalAddress = address \div Unit
  /\ new = [f \in Fields |-> 0]
  /\ taken = 0

\* Mutant: what is left is recorded, not what was cut off.
CutFieldRest ==
  /\ taken < 5
  /\ LET f == LowToHigh(scheme)[taken + 1] IN
     /\ physicalAddress' = physicalAddress \div Size[f]
     /\ new' = [new EXCEPT ![f] = physicalAddress']
  /\ taken' = taken + 1
  /\ UNCHANGED <<Size, scheme, address>>

CutField ==
  /\ taken < 5
  /\ LET f == LowToHigh(scheme)[taken + 1] IN
     /\ physicalAddress' = physicalAddress \div Size[f]
     /\ new' = [new EXCEPT ![f] = physicalAddress - physicalAddress' * Size[f]]
  /\ taken' = taken + 1
  /\ UNCHANGED <<Size, scheme, address>>

MappingSpec == MappingInit /\ [][CutField]_mappingVars

-----------------------------------------------------------------------------
\* The layouts as the comments give them, high end first.
Layout ==
  << <<"chan", "rank", "row", "col", "bank">>,
     <<"chan", "row", "col", "bank", "rank">>,
     <<"chan", "rank", "bank", "col", "row">>,
     <<"chan", "rank", "bank", "row", "col">>,
     <<"chan", "row", "col", "rank", "bank">>,
     <<"chan", "row", "bank", "rank", "col">>,
     <<"row", "col", "rank", "bank", "chan">> >>

\* What the field at place k of a layout counts in.
Weight(layout, k) ==
  LET size(i) == Size[layout[i]] IN
  CASE k = 5 -> Unit
    [] k = 4 -> Unit * size(5)
    [] k = 3 -> Unit * size(5) * size(4)
    [] k = 2 -> Unit * size(5) * size(4) * size(3)
    [] k = 1 -> Unit * size(5) * size(4) * size(3) * size(2)

(* The numbers are those parts of the address the layout of the scheme     *)
(* says.                                                                   *)
MatchesLayout ==
  taken = 5 =>
    \A k \in 1 .. 5 :
      LET f == Layout[scheme][k] IN
      new[f] = (address \div Weight(Layout[scheme], k)) % Size[f]

(* With scheme 2 and one rank, transactions next to each other are in      *)
(* different banks, a row apart after a round: what Dram assumes of BankOf *)
(* and RowOf, columns put to the row.                                      *)
DramMapping ==
  taken = 5 /\ scheme = 2 /\ Size["rank"] = 1 /\ Size["chan"] = 1 =>
    LET txn == address \div Unit IN
    /\ new["bank"] = txn % Size["bank"]
    /\ new["row"] * Size["col"] + new["col"]
         = (txn \div Size["bank"]) % (Size["row"] * Size["col"])
=============================================================================
