SPECIFICATION Spec
CONSTANTS
    k1 = k1  k2 = k2  k3 = k3
    old = old  exec = exec  new = new  bare = bare
    Keys = {k1, k2, k3}
    Identities = {old, exec, new, bare}
    StartOf <- MCStartOf
    Capacity = 3
    Nobody = Nobody
INVARIANTS
    CacheConsistent
    CacheOneGeneration
PROPERTIES
    IsOpenLog
