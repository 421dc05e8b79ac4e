----------------------------- MODULE DramTiming -----------------------------
(***************************************************************************)
(* The timing parameters of a DRAM device (the device ini file) and the    *)
(* delays DRAMSim2/SystemConfiguration.h derives from them, in clock       *)
(* cycles.                                                                 *)
(***************************************************************************)
EXTENDS Integers

CONSTANTS
  CL, AL, BL, tRCD, tRRD, tRC, tRP, tCCD, tRTP, tWTR, tWR, tRTRS, tRFC, tFAW, tCMD

ASSUME TimingAssumption ==
  /\ {CL, BL, tRCD, tRC, tRP, tCCD, tRTP, tRFC, tFAW, tCMD} \subseteq Nat \ {0}
  /\ {AL, tRRD, tWTR, tWR, tRTRS} \subseteq Nat
  /\ AL <= tRCD

(* What every device of ini/ has: a command is on its bus for one cycle,   *)
(* a burst is at least a cycle of data, data is not sent before the cycle  *)
(* after its command, and the driver of the data bus changes after an idle *)
(* cycle.                                                                  *)
ASSUME DeviceAssumption ==
  tCMD = 1 /\ BL >= 2 /\ CL + AL >= 2 /\ tRTRS >= 1

Larger(a, b) == IF a >= b THEN a ELSE b

Burst == BL \div 2           \* cycles a burst is on the data bus
RL == CL + AL
WL == RL - 1
ColumnToColumn == Larger(tCCD, Burst)

READ_TO_PRE_DELAY == AL + Burst + Larger(tRTP, tCCD) - tCCD
WRITE_TO_PRE_DELAY == WL + Burst + tWR
READ_AUTOPRE_DELAY == AL + tRTP + tRP
WRITE_AUTOPRE_DELAY == WL + Burst + tWR + tRP
WRITE_TO_READ_DELAY_B == WL + Burst + tWTR

\* Mutant: the burst is forgotten.
ReadToWriteNoBurst == RL + tRTRS - WL

READ_TO_WRITE_DELAY == RL + Burst + tRTRS - WL
=============================================================================
