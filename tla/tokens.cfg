SPECIFICATION Spec
CONSTANTS
    Apps = {a1, a2}
    None = None
    ThreadCount = 1
    Configs <- SomeConfigs
    TokenExpireDuration = 2
    DefaultExpireDuration = 1
    Ciphertexts <- SomeCiphertexts
    MaxTime = 3
SYMMETRY Symmetry
INVARIANTS TypeOK ReadyWhenSettled PromiseIsKept
