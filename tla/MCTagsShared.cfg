\* A second run of the pairing takes a leg from a pair of the first.
CONSTANTS
    Pipeline = {p1}
    checking = checking
    card = card
    savings = savings
    nfcu = nfcu
    chase = chase
    Account <- MCAccount
    InstOf <- MCInstOf
    Liability <- MCLiability
    Liquid <- MCLiquid
    Day <- MCDay
    Import <- MCBanks
    Ledger <- MCLedger
    MaxTxns = 3
    MaxRows = 0
SPECIFICATION Spec
INVARIANT
    TagsAreShared
