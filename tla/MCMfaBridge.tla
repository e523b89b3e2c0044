----------------------------- MODULE MCMfaBridge -----------------------------
(* MfaBridge with two institutions and three connector runs: two of the    *)
(* polling kind for one institution (a refresh and the next one), one that *)
(* blocks for the other.                                                   *)
EXTENDS MfaBridge, TLC

CONSTANTS mypay1, mypay2, tsp1, mypay, tsp

MCRun == {mypay1, mypay2, tsp1}
MCInstitution == {mypay, tsp}
MCInstOf == (mypay1 :> mypay) @@ (mypay2 :> mypay) @@ (tsp1 :> tsp)
MCPolling == {mypay1, mypay2}
===============================================================================
