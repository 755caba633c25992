CONSTANTS
    good = good
    older = older
    other = other
    huge = huge
    Payloads <- MCPayloads
    SizeOf <- MCSizeOf
    MaxPayload = 2
    Replies <- MCReplies
    MaxRetries = 3
    Reuse = TRUE
    NotASig = NotASig
    NoFile = NoFile
    Torn = Torn
    NoOffer = NoOffer
    Faults = {"crash", "io", "token"}
    MaxFaults = 3
    MaxFailures = 9
SPECIFICATION Spec
INVARIANTS TypeOK StagedIsVerified OkMeansThisArtifact
PROPERTY DegradedStagesNothing
