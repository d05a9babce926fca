\* A request and a cron invocation, one workflow that is edited, crashes.
SPECIFICATION FairSpec
CONSTANTS
    notify = notify
    followup = followup
    unknown = unknown
    wf1 = wf1
    Procs = {p1, p2}
    Workflows = {wf1}
    Events = {e1, e2}
    Actions = {notify, followup, unknown}
    Registered = {notify, followup}
    Followup = followup
    Library <- MCLibrary
    StepIds = {s1, s2, s3}
    s1 = s1
    s2 = s2
    s3 = s3
    MaxRunAttempts = 2
    BatchSize = 2
    MaxVersion = 2
    CanCrash = TRUE
INVARIANTS
    RunIsExclusive
    CompletedStepsNeverRerun
    UncertainIsParked
PROPERTIES
    RunsFinish
