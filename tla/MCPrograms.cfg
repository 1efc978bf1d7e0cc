CONSTANTS
    t1 = t1  t2 = t2  k1 = k1
    p1 = p1  p2 = p2  p3 = p3
    f0 = f0  f1 = f1  f2 = f2
    Tasks = {t1, t2, k1}
    KernelTasks = {k1}
    Progs = {p1, p2, p3}
    Fds = {f0, f1, f2}
    ForeignFds = {f0}
    MaxId = 2
    FdFailure = FALSE
    NoProg = NoProg
    Foreign = Foreign
    Jits = {"passthrough", "x86_64", "NULL"}
    r1 = r1  r2 = r2  r3 = r3
    Threads = {r1, r2, r3}
    MaxProgs = 2
    Bufs = {p1, p2, p3}
    IdMod = 5
    MaxLoads = 4
    Sharing = FALSE
    NULL = NULL
    u1 = u1  u2 = u2
    FairTasks = {u1, u2}
    q1 = q1  q2 = q2
    FairProgs = {q1, q2}
    g1 = g1  g2 = g2
    FairFds = {g1, g2}
SPECIFICATION ProgramsSpec
SYMMETRY Symmetry
INVARIANTS
    TypeOK
    NoUseAfterFree
    RefsExact
    RegistryExact
    TextOutlivesRun
    HandleStable
    TextOwned
    NoLeakNoDoubleFree
    VerifiedThenPublished
PROPERTIES
    NoResurrection
    FairReclaimed
    ImplementsLifecycle
CHECK_DEADLOCK FALSE
