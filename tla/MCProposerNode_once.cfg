CONSTANTS
    Validators = {1, 2}
    Rounds = {1, 2}
    Versions = {1, 2, 3}
    MaxPrepares = 1
    MaxTimeouts = 1
    MaxCrashes = 1
SPECIFICATION MCSpec
INVARIANT AckersHoldShares
PROPERTIES InjectorsSufficeOnce SecretsForgotten
