\* A code typed for one institution reaches the connector of another.
CONSTANTS
    mypay1 = mypay1
    mypay2 = mypay2
    tsp1 = tsp1
    mypay = mypay
    tsp = tsp
    Run <- MCRun
    Institution <- MCInstitution
    InstOf <- MCInstOf
    Polling <- MCPolling
    NoInst = NoInst
    NoCode = NoCode
    NoRun = NoRun
    MaxCodes = 2
    MaxAbandoned = 1
SPECIFICATION Spec
INVARIANT
    CodeIsForInstitution
