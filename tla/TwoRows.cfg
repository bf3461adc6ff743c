\* Two rows of one address in a monthly campaign, two requests at a time.
SPECIFICATION Spec
CONSTANTS
    UserId = {u1, u2}
    Customer = {k1, k2}
    Email = {e1}
    Course = {c1}
    Daily = {c1}
    Worker = {w1, w2}
    None = None
    MaxInvoices = 0
    MayCrash = FALSE
SYMMETRY Symmetry
VIEW Present
INVARIANTS
    OneRowPerCustomer
    PaidBeforeActive
PROPERTIES
    CancelOnlyRequested
    RulesKept
