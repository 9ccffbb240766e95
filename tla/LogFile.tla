------------------------------- MODULE LogFile -------------------------------
(***************************************************************************)
(* The half of internal/system/logger.go that keeps the log on disk: the   *)
(* file lines are appended to, its rotation into backups, the pruning of   *)
(* those, and the switch to another path or size.  WriteLine is a critical *)
(* section of l.mu, and UpdateConfig one that is taken apart here: its     *)
(* assignments, and then the opening or the roll-back.                     *)
(*                                                                         *)
(* A line is its number, and sizes are counted in lines.  Stamps of        *)
(* backups grow with the clock, so sorting their names sorts them by age;  *)
(* the names of the paths are no prefixes of each other.  A process that   *)
(* dies inside a rotation leaves what one whose later calls fail leaves.   *)
(***************************************************************************)
EXTENDS Naturals, FiniteSets

CONSTANTS
    Path,       \* log paths in use
    NoFile,     \* nil, for l.file
    Size,       \* l.maxSizeMB, in lines; 0: never rotate
    Kept,       \* maxKeptBackups
    MaxLines,   \* bound: lines logged
    MaxSlips,   \* bound: lines whose write or rotation met an error
    MaxBoots    \* bound: starts of the daemon

ASSUME LogFileConstants ==
    /\ Path # {}
    /\ NoFile \notin Path
    /\ Size \subseteq Nat
    /\ Kept \in Nat \ {0}
    /\ MaxLines \in Nat
    /\ MaxSlips \in Nat
    /\ MaxBoots \in Nat \ {0}

VARIABLES
    target,    \* l.filePath
    limit,     \* l.maxSizeMB
    handle,    \* l.file: the path it was opened at
    old,       \* oldPath, oldMax and oldFile of the UpdateConfig under way
    reported,  \* the settings in force by the last answer or warning
    file,      \* per path, the lines in the file of that name
    backups,   \* per path, its rotated files
    lines,     \* lines logged so far
    wrote,     \* per path, the lines that reached the file when logged
    slips,     \* lines whose write or rotation met an error so far
    boots      \* calls of InitLogger so far

settingVars == <<target, limit, handle, old, reported>>
diskVars == <<file, backups, wrote>>
fileVars == <<settingVars, diskVars, lines, slips, boots>>

Line == 1..MaxLines
Settings == [path : Path, size : Size, file : Path \cup {NoFile}]
Backup == [stamp : Line, lines : SUBSET Line]

Current == [path |-> target, size |-> limit, file |-> handle]

FileTypeOK ==
    /\ Current \in Settings
    /\ old \subseteq Settings
    /\ reported \in Settings
    /\ file \in [Path -> SUBSET Line]
    /\ backups \in [Path -> SUBSET Backup]
    /\ wrote \in [Path -> SUBSET Line]
    /\ lines \in 0..MaxLines
    /\ slips \in 0..MaxSlips
    /\ boots \in 1..MaxBoots

FileInit ==
    /\ target \in Path
    /\ limit \in Size
    /\ handle \in {target, NoFile}
    /\ old = {}
    /\ reported = Current
    /\ file = [p \in Path |-> {}]
    /\ backups = [p \in Path |-> {}]
    /\ wrote = [p \in Path |-> {}]
    /\ lines = 0
    /\ slips = 0
    /\ boots = 1

(* Some call of the step failed, or none did. *)
SlipUnless(fine) ==
    IF fine THEN UNCHANGED slips
            ELSE slips < MaxSlips /\ slips' = slips + 1

Newer(b, found) == {c \in found : c.stamp > b.stamp}

(* Mutant: the newest backups are removed. *)
DueFromTheEnd(found) ==
    {b \in found : Cardinality({c \in found : c.stamp < b.stamp}) >= Kept}

(* The backups to remove: all but the last maxKeptBackups by name. *)
Due(found) == {b \in found : Cardinality(Newer(b, found)) >= Kept}

RotationDue(content) == limit > 0 /\ Cardinality(content) >= limit

Found(now, renamed) ==
    IF renamed
        THEN backups[target] \cup {[stamp |-> lines', lines |-> now[target]]}
        ELSE backups[target]

(* rotateAndCleanup: close, rename, prune file by file, reopen.  A failed  *)
(* rename leaves the file to grow, a failed removal leaves that backup,    *)
(* and when the reopening fails, l.file is nil.                            *)
RotateAndCleanup(now, renamed, gone, reopened) ==
    /\ file' = [now EXCEPT ![target] = IF renamed THEN {} ELSE @]
    /\ backups' = [backups EXCEPT ![target] = Found(now, renamed) \ gone]
    /\ handle' = IF reopened THEN target ELSE NoFile
    /\ reported' = [reported EXCEPT !.file = handle']

Rotate(now, written) ==
    \E renamed, reopened \in BOOLEAN :
        LET due == Due(Found(now, renamed)) IN
        \E gone \in SUBSET due :
            /\ RotateAndCleanup(now, renamed, gone, reopened)
            /\ SlipUnless(written /\ renamed /\ gone = due /\ reopened)

NoRotation(now, fine) ==
    /\ file' = now
    /\ SlipUnless(fine)
    /\ UNCHANGED <<backups, handle, reported>>

Grown(ms, written) == IF written THEN ms \cup {lines'} ELSE ms

(* The file half of log: a write whose error is dropped, then              *)
(* checkRotation, by the size the file has now if that can be read.        *)
WriteOut(written) ==
    LET now == [file EXCEPT ![handle] = Grown(@, written)] IN
    /\ wrote' = [wrote EXCEPT ![handle] = Grown(@, written)]
    /\ \/ RotationDue(now[handle]) /\ Rotate(now, written)
       \/ NoRotation(now, written /\ ~RotationDue(now[handle]))

WriteLine ==
    /\ old = {}
    /\ lines < MaxLines
    /\ lines' = lines + 1
    /\ IF handle # NoFile THEN \E written \in BOOLEAN : WriteOut(written)
                          ELSE UNCHANGED <<handle, reported, diskVars, slips>>
    /\ UNCHANGED <<target, limit, old, boots>>

(* UpdateConfig, whose empty arguments stand for the current values: with  *)
(* nothing to change it returns at once, also when l.file is nil.  Else it *)
(* saves path, size and handle, and overwrites each ..                     *)
BeginSwitch(p, n) ==
    /\ old = {}
    /\ <<p, n>> # <<target, limit>>
    /\ old' = {Current}
    /\ target' = p
    /\ limit' = n
    /\ handle' = NoFile
    /\ UNCHANGED <<reported, diskVars, lines, slips, boots>>

(* .. a file that opens completes the switch ..                            *)
SwitchOpens ==
    /\ old # {}
    /\ handle' = target
    /\ reported' = [path |-> target, size |-> limit, file |-> target]
    /\ old' = {}
    /\ UNCHANGED <<target, limit, diskVars, lines, slips, boots>>

(* Mutant: the path is not rolled back. *)
SwitchFailsHalfway ==
    \E was \in old :
        /\ limit' = was.size
        /\ handle' = was.file
        /\ old' = {}
        /\ UNCHANGED <<target, reported, diskVars, lines, slips, boots>>

(* .. and one that does not is answered with an error, after all three     *)
(* have been put back.                                                     *)
SwitchFails ==
    \E was \in old :
        /\ target' = was.path
        /\ limit' = was.size
        /\ handle' = was.file
        /\ old' = {}
        /\ UNCHANGED <<reported, diskVars, lines, slips, boots>>

UpdateConfig ==
    \/ \E p \in Path, n \in (Size \ {0}) \cup {limit} : BeginSwitch(p, n)
    \/ SwitchOpens
    \/ SwitchFails

(* InitLogger in a new process, with the path and size the settings file   *)
(* holds by then.  The files are where they were.                          *)
InitLogger ==
    /\ boots < MaxBoots
    /\ boots' = boots + 1
    /\ target' \in Path
    /\ limit' \in Size
    /\ handle' \in {target', NoFile}
    /\ old' = {}
    /\ reported' = Current'
    /\ UNCHANGED <<diskVars, lines, slips>>

FileNext == WriteLine \/ UpdateConfig \/ InitLogger

FileSpec == FileInit /\ [][FileNext]_fileVars

-----------------------------------------------------------------------------
(* The lines found on disk under a path, and those that were there once. *)
OnDisk(p) == file[p] \cup UNION {b.lines : b \in backups[p]}
Lost(p) == wrote[p] \ OnDisk(p)

AllBelow(ms, ks) == \A m \in ms, k \in ks : m < k

(* Rotation loses nothing but the oldest lines, over restarts, switches to *)
(* and fro and steps that fail (logger.go:98-145).  A line is lost only    *)
(* when Kept whole backups of later lines are there.  While nothing        *)
(* failed, every line that is lost is older than every line found; after   *)
(* an error there may be a gap, where an old backup could not be removed   *)
(* and a later one could.  Each backup beyond Kept is one error.  And the  *)
(* backups, by their names, and then the file hold the lines in order.     *)
LinesKept ==
    \A p \in Path :
        /\ \A m \in Lost(p) :
              Cardinality({b \in backups[p] : AllBelow({m}, b.lines)}) >= Kept
        /\ slips = 0 => AllBelow(Lost(p), OnDisk(p))
        /\ Cardinality(backups[p]) <= Kept + slips
        /\ \A b \in backups[p] :
              /\ AllBelow(b.lines, file[p])
              /\ \A c \in Newer(b, backups[p]) : AllBelow(b.lines, c.lines)

(* A settings request moves the log or leaves it alone, as a whole: with   *)
(* no request under way, path, size and handle are those of the last       *)
(* answer (all new ones with an open file when it was given without an     *)
(* error, all those of before when it was given with one) or of what a     *)
(* rotation or a boot reported since; and a file that is open is the one   *)
(* of the path that rotation renames (logger.go:160-196).                  *)
SwitchIsWhole ==
    old = {} => Current = reported /\ handle \in {target, NoFile}

=============================================================================
