\* Two requests of one address at a time; two log paths, two sizes, one backup,
\* and two errors: what a gap on disk takes.
SPECIFICATION LoginSpec
CONSTANTS
    Address = {a1}
    Request = {r1, r2}
    Limit = 2
    Window = 2
    Path = {p1, p2}
    NoFile = NoFile
    Size = {1, 2}
    Kept = 1
    MaxLines = 3
    MaxSlips = 2
    MaxBoots = 2
SYMMETRY Symmetry
INVARIANTS LimitIsExact LinesKept SwitchIsWhole
