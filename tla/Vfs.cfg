CONSTANTS
    r = r
    i0 = i0
    n1 = n1
    n2 = n2
    nil = nil
    na = na
    nb = nb
    noname = noname
    U32 = 8
    MIN_CAP = 1
    Byte = {0, 1}
    Addr <- SomeAddr
    Root <- r
    InitrdNode <- i0
    Null <- nil
    Name <- SomeNames
    InitrdName <- na
    InitrdSize = 1
    NoName <- noname
    Path <- SomePaths
    VFS_MAX_CHILDREN = 2
    MAX_OPEN_FILES = 1
    Workloads <- EitherWorkload
    SeekTo = {0, 3, 9}
    Sizes = {1}
SPECIFICATION Spec
SYMMETRY Alike
CHECK_DEADLOCK FALSE
INVARIANTS TreeSound DataKept FdSound 
PROPERTY NothingLost
