\* Two campaigns, two invocations, crashes.
SPECIFICATION FairSpec
CONSTANTS
    a1 = a1
    b1 = b1
    spring = spring
    autumn = autumn
    ann = ann
    Contacts = {a1, b1}
    Campaigns = {spring, autumn}
    Customers = {ann}
    CampaignOf <- MCCampaignOf
    CustomerOf <- MCCustomerOf
    Dispatchers = {d1, d2}
    BatchSize = 2
    MaxAttempts <- MCMaxAttempts
    AttemptLimit = 2
    CanCrash = TRUE
INVARIANTS
    OneOngoingCallPerCustomer
    NeverRedialed
    RowMatchesCarrier
PROPERTIES
    DecisionsStand
    EveryCallIsAccounted
