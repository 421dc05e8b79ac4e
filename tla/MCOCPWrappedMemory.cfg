SPECIFICATION FairSpec
CHECK_DEADLOCK FALSE
CONSTANTS
  Addrs = {0, 1, 2}
  BankOf <- MCBankOf
  Words = {0, 1, 2}
  Bursts <- MCBursts
  MaxRequests = 4
INVARIANTS
  TypeOK
  DequeIsOutstanding
  ReadsLatestWrite
  AnsweredOnce
PROPERTIES
  AllCarriedOut
