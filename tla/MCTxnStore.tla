------------------------------ MODULE MCTxnStore ------------------------------
(* TxnStore with coffees on two days and a lunch whose description begins    *)
(* differently; or with a purchase and its refund on one day.                *)
EXTENDS TxnStore

CONSTANTS session, zombie, coffee, lunch

MCWorker == {session, zombie}
MCDay == {1, 2}
MCText == {coffee, lunch}
MCFrag == [t \in MCText |-> t]

Spent(d, t) == [day |-> d, text |-> t, debit |-> TRUE]

MCPurchases == { Spent(1, coffee), Spent(2, coffee), Spent(2, lunch) }
MCRefunds == { Spent(1, coffee), [Spent(1, coffee) EXCEPT !.debit = FALSE] }
===============================================================================
