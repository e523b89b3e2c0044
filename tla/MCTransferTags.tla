---------------------------- MODULE MCTransferTags ----------------------------
(* TransferTags over a checking account of one bank and a card and a savings *)
(* account of another.  Of the three days the first two are one day apart,   *)
(* the last two three, the first and the last four: inside and outside of    *)
(* the windows.                                                              *)
EXTENDS TransferTags, TLC

CONSTANTS checking, card, savings, nfcu, chase

MCAccount == {checking, card, savings}
MCInstOf == [a \in MCAccount |-> IF a = checking THEN nfcu ELSE chase]
MCLiability == {card}
MCLiquid == {checking, savings}
MCDay == {0, 1, 4}

X(a, d, debit, text) == [account |-> a, day |-> d, debit |-> debit, text |-> text]

\* The bank's side of an Acorns deposit, a payment from savings, and a payment
\* received on the card, which fits both.
MCImport ==
    { X(checking, 4, TRUE, "acorns"), X(savings, 1, TRUE, "plain"),
      X(card, 1, FALSE, "like") }

\* A purchase of Acorns and a deposit at Fidelity.
MCLedger == { [day |-> 4, kind |-> "acorns"], [day |-> 0, kind |-> "deposit"] }

\* Pairing alone, between the two banks.
MCBanks ==
    { X(checking, 0, TRUE, "like"), X(savings, 0, FALSE, "plain"),
      X(savings, 1, FALSE, "plain") }

MCSymmetry == Permutations(Pipeline)
===============================================================================
