SPECIFICATION KeysSpec
CONSTANTS
    t1 = t1
    t2 = t2
    k1 = k1
    k2 = k2
    Threads = {t1, t2}
    Objects = {k1, k2}
    Ids = {0, 1, 2}
    Zero = 0
    MaxSeals = 3
INVARIANTS
    UniquePerKey
CHECK_DEADLOCK FALSE
