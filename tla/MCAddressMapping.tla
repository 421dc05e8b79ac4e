-------------------------- MODULE MCAddressMapping --------------------------
EXTENDS AddressMapping

\* One channel, one rank, as the platform, the other fields of different widths.
OneRank == [chan |-> 1, rank |-> 1, bank |-> 2, row |-> 8, col |-> 4]
\* Every field in use.
AllFields == [chan |-> 2, rank |-> 2, bank |-> 4, row |-> 8, col |-> 2]
MCDevices == {OneRank, AllFields}
=============================================================================
