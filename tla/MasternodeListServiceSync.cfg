SPECIFICATION LiveSpec
CONSTANTS
    None = None
    h = h
    f = f
    Honest = {h}
    Faulty = {f}
    FirstTip = 2
    LastTip = 3
    Needs <- OneIsNeeded
    Outdated = 0
    MaxFaulty = 1
    MaxRetries = 2
    MaxAnswers = 2
    MaxSetbacks = 2
INVARIANT TypeOK
INVARIANT CurrentIsVerified
INVARIANT RequestsAreTimed
 
 
PROPERTY ServedQueueEmpties
\* Once no setback is left nothing may happen any more.
CHECK_DEADLOCK FALSE
