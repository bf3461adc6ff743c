\* A webhook delivered after the owner has left.
SPECIFICATION Spec
CONSTANTS
    UserId = {u1}
    Customer = {k1}
    Email = {e1}
    Course = {c1}
    Daily = {c1}
    Worker = {w1}
    None = None
    MaxInvoices = 0
    MayCrash = FALSE
INVARIANT StaysUnsubscribed
