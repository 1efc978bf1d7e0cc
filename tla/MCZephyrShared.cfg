CONSTANTS
    t1 = t1  t2 = t2  t3 = t3
    b1 = b1  b2 = b2  b3 = b3
    Threads = {t1, t2}
    MaxProgs = 2
    Bufs = {b1, b2, b3}
    IdMod = 5
    MaxLoads = 4
    Sharing = TRUE
    NULL = NULL
SPECIFICATION RuntimeSpec
INVARIANT TextOutlivesRun
CHECK_DEADLOCK FALSE
