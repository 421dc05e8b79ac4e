------------------------------- MODULE MCDram -------------------------------
EXTENDS Dram

\* With two banks: two rows of bank 0 and one of bank 1.  With three banks:
\* one row of each.
ThreeRows == {0, 1, 2}
=============================================================================
