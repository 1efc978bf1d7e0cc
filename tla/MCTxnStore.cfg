CONSTANTS
    MaxMaps = 2
    MaxEntries = 2
    MaxOps = 2
    t1 = t1
    k1 = k1  k2 = k2  k3 = k3
    v1 = v1  v2 = v2
    Txns = {t1}
    Keys = {k1, k2, k3}
    Values = {v1, v2}
    OpTypes = {"INSERT", "UPDATE", "UPSERT", "DELETE", "REPLACE_ALL", "BAD"}
    Destroyable = {1}
    Unused = Unused
SPECIFICATION Spec
SYMMETRY Symmetry
INVARIANT MapsConsistent
PROPERTIES ImplementsAtomic
