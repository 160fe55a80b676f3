SPECIFICATION Spec
CONSTANTS
    MaxCents = 18004999
    MaxAmount = 8998000
    Ledgers <- MCLedgers
CHECK_DEADLOCK FALSE
INVARIANTS
    ReturnsReconcile
    InvoiceValueAdds
    RoundingIsBounded
    CentsSuffice
