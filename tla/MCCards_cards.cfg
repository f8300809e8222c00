SPECIFICATION Spec

CONSTANTS
    c1 = c1
    r1 = r1
    r2 = r2
    r3 = r3
    Cards = {c1}
    Requests = {r1, r2, r3}
    NoRequest = NoRequest
    Webhooks = {"discord", "telegram"}
    Timeout = 60
    MaxRetries = 2
    Took = {1, 60}
    Faults = {"db", "file", "web", "crash"}

INVARIANT CardsIInv
INVARIANT LlmWithinBudget
INVARIANT NotifiedIsDecidable
INVARIANT ViaIsTrue
INVARIANT AnsweredDecisionStood
INVARIANT RemoteNeedsToken
PROPERTY DecisionSurvives

SYMMETRY RequestSymmetry
CHECK_DEADLOCK FALSE
