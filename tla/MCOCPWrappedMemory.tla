------------------------- MODULE MCOCPWrappedMemory -------------------------
EXTENDS OCPWrappedMemory

\* Two words of bank 0, one of bank 1; a burst of both words of bank 0.
MCBankOf(a) == a \div 2
MCBursts == {[addr |-> 0, len |-> 2], [addr |-> 1, len |-> 1], [addr |-> 2, len |-> 1]}
=============================================================================
