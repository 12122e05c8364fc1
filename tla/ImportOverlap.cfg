\* Two overlapping imports, each full or narrowed to a type, from every state of a small
\* cache, and an edit of the tenant or a reset of the N/A list.
SPECIFICATION FairSpec
CONSTANTS
    t1 = t1  t2 = t2  o1 = o1  k1 = k1
    Run = {r1, r2}
    Type = {t1, t2}
    Obj = {o1, k1}
    Candidate = {k1}
    TypeOf <- MCTypeOf
    Config = {c1}
    Absent = Absent
    Filters <- MCFilters
    MaxEdits = 1
    MaxResets = 1
    MaxOutside = 1
INVARIANTS
    TypeOK
    QuietRunRepairsWhatItReads
    SuccessMeansMirror
PROPERTIES
    RowsChangeOnlyInFilter
    CandidatesUntouched
    RunsEnd
\* Each run ends once and starts nothing: the system may stop.
CHECK_DEADLOCK FALSE
