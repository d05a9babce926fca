\* Two campaigns, one invocation, no crashes: is a customer on the phone called again?
SPECIFICATION Spec
CONSTANTS
    a1 = a1
    b1 = b1
    spring = spring
    autumn = autumn
    ann = ann
    Contacts = {a1, b1}
    Campaigns = {spring, autumn}
    Customers = {ann}
    CampaignOf <- MCCampaignOf
    CustomerOf <- MCCustomerOf
    Dispatchers = {d1}
    BatchSize = 2
    MaxAttempts <- MCOneAttempt
    AttemptLimit = 1
    CanCrash = FALSE
INVARIANT
    OneCallPerCustomer
