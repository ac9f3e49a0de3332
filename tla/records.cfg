\* Two calls or commands that overlap. Exchange: any two of a day that passes
\* for a directory, an edit, a save or a restart of AutoCAD, an update of the
\* manifest. Checkpoint: one page, two revisions.
CONSTANTS
    call1 = call1
    call2 = call2
    k1 = k1
    k2 = k2
    p1 = p1
    Lease = Lease
    Calls = {call1, call2}
    Kinds = {k1, k2}
    MaxEvents = 2
    Pages = {p1}
    Runs = {call1, call2}
    MaxRevision = 2
    MaxEdits = 1
SPECIFICATION RecordsSpec
INVARIANTS
    EvidenceIsKept
    PackagesAreTrue
    ManifestIsExplained
SYMMETRY Interchangeable
CHECK_DEADLOCK FALSE
