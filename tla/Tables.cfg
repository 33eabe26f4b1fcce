SPECIFICATION Spec
CONSTANTS
    t1 = t1
    t2 = t2
    Threads = {t1, t2}
    MaxNodes = 9
    Jobs <- MCJobs
    NoJob <- MCNoJob
    c1 = c1
    c2 = c2
    m1 = m1
    m2 = m2
    Nobody = Nobody
    Callers = {c1, c2}
    Mnodes = {m1, m2}
    MaxEnt = 3
    Blocks = 2
    Works <- MCWorks
    NoWork <- MCNoWork
INVARIANT NodesSound
INVARIANT ResultsTrue
INVARIANT EntriesSound
INVARIANT FreshAcl
