SPECIFICATION LifecycleSpec
CONSTANTS
    Starts = {s1, s2}
    Stops = {o1, o2}
    Forceful = {o2}
    Codes = {code1, code2}
    None = None
SYMMETRY Calls
INVARIANTS
    NoChildIsLost
    KeysAreOwned
    SharersAreServed
PROPERTIES
    StopWins
