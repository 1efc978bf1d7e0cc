CONSTANTS
    p1 = p1  p2 = p2  p3 = p3
    Paths = {p1, p2, p3}
    Ids = {0, 1}
    Cap = 1
    Limited = {"map_mem"}
    MaxQuota = 2
    WordMod = 4
    Amounts = {1, 2}
    FlagSets = {{}}
    MaxWrites = 3
    NoSig = NoSig
    f1 = f1  f2 = f2
    Files = {f1, f2}
    s1 = s1  s2 = s2
    Signers = {s1, s2}
    c1 = c1  c2 = c2
    Procs = {c1, c2}
    Builds <- MCBuilds
    NoObject = NoObject
    EmptyFile = EmptyFile
    NoSigner = NoSigner
    k1 = k1  k2 = k2
    Keys = {k1, k2}
    n1 = n1  n2 = n2
    Nonces = {n1, n2}
    MaxSeq = 3
    Absent = Absent
    Blank = Blank
SPECIFICATION PlaneSpec
SYMMETRY Symmetry
INVARIANTS
    NarrowOnly
    SignedVerifies
    QuotesVerify
PROPERTIES
    SigningKeeps
    NumbersRise
CHECK_DEADLOCK FALSE
