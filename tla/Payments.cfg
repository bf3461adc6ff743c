\* Stripe retries until acknowledged; no worker dies.
SPECIFICATION LiveSpec
CONSTANTS
    UserId = {u1}
    Customer = {k1}
    Email = {e1}
    Course = {c1}
    Daily = {c1}
    Worker = {w1, w2}
    None = None
    MaxInvoices = 0
    MayCrash = FALSE
PROPERTIES
    PaidLeadsToActive
    LinkStopsCharges
