CONSTANTS
    t1 = t1  t2 = t2  k1 = k1
    p1 = p1
    f0 = f0  f1 = f1  f2 = f2
    Tasks = {t1, t2, k1}
    KernelTasks = {k1}
    Progs = {p1}
    Fds = {f0, f1, f2}
    ForeignFds = {f0}
    MaxId = 2
    FdFailure = TRUE
    NoProg = NoProg
    Foreign = Foreign
SPECIFICATION Spec
INVARIANT RefConsumedOnce
