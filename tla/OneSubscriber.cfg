\* One row, two requests on it at a time, any of which may die.
SPECIFICATION Spec
CONSTANTS
    UserId = {u1}
    Customer = {k1}
    Email = {e1}
    Course = {c1}
    Daily = {c1}
    Worker = {w1, w2}
    None = None
    MaxInvoices = 1
    MayCrash = TRUE
SYMMETRY Symmetry
INVARIANTS
    TypeOK
    NoPaymentLost
    NoSubscriptionLost
    ConfirmedNeverCharged
    TransferAfterActivation
PROPERTY RulesKept
