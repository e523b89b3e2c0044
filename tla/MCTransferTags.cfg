\* Two pipelines beside each other, three transactions, two ledger rows.
CONSTANTS
    Pipeline = {p1, p2}
    checking = checking
    card = card
    savings = savings
    nfcu = nfcu
    chase = chase
    Account <- MCAccount
    InstOf <- MCInstOf
    Liability <- MCLiability
    Liquid <- MCLiquid
    Day <- MCDay
    Import <- MCImport
    Ledger <- MCLedger
    MaxTxns = 3
    MaxRows = 2
SYMMETRY MCSymmetry
SPECIFICATION Spec
INVARIANTS
    TypeOK
    TagsAreJustified
    InvestTagHasRow
PROPERTIES
    WrittenInPairs
    NothingLeftOver
