---------------------------- MODULE MCAcornsLedger ----------------------------
(* AcornsLedger with two trades, which settle on the next day.               *)
EXTENDS AcornsLedger

MCMonth == [d \in Day |-> 1]
===============================================================================
