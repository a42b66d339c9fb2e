SPECIFICATION Spec
CONSTANTS
    Threads = {w1, w2}
    MaxStores = 2
    None = None
INVARIANTS
    HandlersShareOneStore
