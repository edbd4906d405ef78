SPECIFICATION Spec
CONSTANTS
    Apps = {a1, a2}
    None = None
    ThreadCount = 1
    Configs = {{}}
    Centers = {h1}
    MaxOpenConnections = 1
SYMMETRY Symmetry
INVARIANTS PoolsAreKeyed WaitersAreAtRegisteredPool LostPoolsAreSmall
