SPECIFICATION FairSpec
CONSTANTS
    a1 = a1  a2 = a2  r1 = r1  r2 = r2  c1 = c1  c2 = c2
    Apply = {a1, a2}
    OnDemand = {a2}
    Forced = {a2}
    Resources <- MCResources
    HasTimeToLive = {r1}
    Conditions <- MCConditions
    NoCondition = NoCondition
    MaxFaults = 1
INVARIANTS TypeOK NoUpdateLeftBehind OutcomeIsOwn LinkIsUsedCondition
PROPERTIES AnswerIsFinal Settled
CHECK_DEADLOCK FALSE
