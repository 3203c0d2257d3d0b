SPECIFICATION Spec
CONSTANTS
    MaxChanges = 3
    MaxEvents = 2
INVARIANTS ChargerSettled LevelSettled
PROPERTIES ChargerHeard CounterHonest
