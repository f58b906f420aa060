SPECIFICATION ResultsSpec
CONSTANTS
    MaxResults = 2
    MaxScopes = 2
INVARIANTS InOrder NoneMissed
PROPERTIES UnaskedNotKept
