--------------------------- MODULE MC_TdpBackend ---------------------------
(***************************************************************************)
(* Instances of TdpBackend for TLC: the small values the runs share.       *)
(***************************************************************************)
EXTENDS TdpBackend

OneDomain == <<"intel-rapl:0">>
TwoDomains == <<"intel-rapl:0", "intel-rapl-mmio:0">>

(* No ceiling in the first domain; a burst ceiling below most policies in  *)
(* the second.                                                             *)
OneShortMax == <<None>>
TwoShortMax == <<None, 20>>

(* Firmware leaves 30 W / 32 W, a value a slider may hold as well.         *)
FirmwareRapl == [pl1 |-> 30, pl2 |-> 32]
FirmwareEc == [pl1 |-> 30, pl2 |-> 32, shift |-> Comfort]

=============================================================================
