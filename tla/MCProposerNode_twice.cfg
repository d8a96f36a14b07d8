CONSTANTS
    Validators = {1, 2}
    Rounds = {1, 2}
    Versions = {1, 2, 3}
    MaxPrepares = 2
    MaxTimeouts = 0
    MaxCrashes = 1
SPECIFICATION MCSpec
INVARIANT CoeffsSurvive
