--------------------------- MODULE LogFileRotation ---------------------------
(***************************************************************************)
(* LogFileWriter of src/wafnotify/logfilewriter/logfilewriter.go: writes,  *)
(* size-triggered rotation access.log -> access.log.1.log -> .2.log ...,   *)
(* ClearLogFile and UpdateConfig, all under lw.mu, and the two goroutines *)
(* every rotation starts without the lock: compressFile for              *)
(* access.log.1.log (when compressing) and cleanOldFiles.  Close is left  *)
(* out: the next write reopens the same file with its size, so closing    *)
(* changes nothing the properties see.                                    *)
(*                                                                         *)
(* The content of a log file is the generation (the run of lines written  *)
(* between two rotations or truncations) it holds, and its size is counted *)
(* in lines.  A file's modification time is that of its generation's last *)
(* line (a rename keeps it, and compressFile runs right after rotation):   *)
(* "aged" says which generations are older than maxDays.  NotifyBatch is a *)
(* sequence of NotifySingle steps under one lock.  openFile's I/O errors   *)
(* (MkdirAll, OpenFile, Stat failing) are not modelled.                    *)
(***************************************************************************)
EXTENDS Naturals, Sequences, FiniteSetsExt

CONSTANTS
    Paths,          \* the values of lw.filePath
    MaxBackupsSet,  \* the values of lw.maxBackups
    MaxLinesSet,    \* the values of lw.maxSize * 1024 * 1024, in lines
    Compress,       \* the values of lw.compress
    MaxGen,         \* generations explored
    Absent

ASSUME MaxBackupsSet \subseteq Nat /\ MaxLinesSet \subseteq Nat \ {0}
ASSUME Compress \subseteq BOOLEAN /\ MaxGen \in Nat \ {0}

\* access.log, access.log.<i>.log and access.log.<i>.log.gz
Slots == 1..Max(MaxBackupsSet \cup {1})
Cur == <<"cur", 0>>
Log(i) == <<"log", i>>
Gz(i) == <<"gz", i>>
Names == {Cur} \cup {Log(i) : i \in Slots} \cup {Gz(i) : i \in Slots}
Gens == 1..MaxGen

VARIABLES
    path,       \* lw.filePath
    files,      \* for each path and name, the generation it holds, or Absent
    lines,      \* lines of each path's access.log (lw.currentSize)
    nextGen,    \* the next fresh generation
    maxBackups, maxLines, compress,
    maxDays,    \* lw.maxDays > 0
    aged,       \* generations last written more than maxDays ago
    cpc,        \* compressFile goroutine of each rotation: its pc ...
    cpath,      \* ... the path it was given ...
    held,       \* ... and the generation it has open
    cln,        \* cleanOldFiles goroutine of each rotation: its pc ...
    cdir,       \* ... the lw.filePath it read ...
    entries,    \* ... the names os.ReadDir listed, not yet looked at ...
    cage,       \* ... whether maxDays > 0 when it computed maxAge ...
    victim,     \* ... and the name it judged expired, to remove
    kept,       \* per path: what the rotations so far keep, newest first (history)
    bgLost      \* kept, unexpired generations a goroutine deleted (history)

rotVars == <<path, files, lines, nextGen, kept>>
cfgVars == <<maxBackups, maxLines, compress, maxDays>>
bgVars == <<cpc, cpath, held, cln, cdir, entries, cage, victim>>
vars == <<rotVars, cfgVars, aged, bgVars, bgLost>>

CPCs == {"none", "open", "copy", "remove", "done"}
CLNs == {"none", "readdir", "info", "remove", "done"}

TypeOK ==
    /\ path \in Paths
    /\ files \in [Paths -> [Names -> Gens \cup {Absent}]]
    /\ \A p \in Paths : lines[p] \in 0..Max(MaxLinesSet)
    /\ nextGen \in Gens \cup {MaxGen + 1}
    /\ cpc \in [Gens -> CPCs] /\ cln \in [Gens -> CLNs]
    /\ held \in [Gens -> Gens \cup {Absent}]
    /\ entries \in [Gens -> SUBSET Names]
    /\ aged \subseteq Gens /\ bgLost \subseteq Gens

\* NewLogFileWriter: openFile creates an empty access.log.
Init ==
    /\ path \in Paths
    /\ files = [p \in Paths |-> [n \in Names |->
                   IF n = Cur /\ p = path THEN 1 ELSE Absent]]
    /\ lines = [p \in Paths |-> 0]
    /\ nextGen = 2
    /\ maxBackups \in MaxBackupsSet /\ maxLines \in MaxLinesSet
    /\ compress \in Compress /\ maxDays \in BOOLEAN
    /\ aged = {}
    /\ cpc = [g \in Gens |-> "none"] /\ cpath = [g \in Gens |-> Absent]
    /\ held = [g \in Gens |-> Absent]
    /\ cln = [g \in Gens |-> "none"] /\ cdir = [g \in Gens |-> Absent]
    /\ entries = [g \in Gens |-> {}] /\ cage = [g \in Gens |-> FALSE]
    /\ victim = [g \in Gens |-> Absent]
    /\ kept = [p \in Paths |-> <<>>]
    /\ bgLost = {}

\* openFile: open lw.filePath for appending (creating it empty with a
\* fresh generation if absent); currentSize is the file's size.
OpenFile(p) ==
    IF files[p][Cur] = Absent
    THEN /\ nextGen <= MaxGen
         /\ files' = [files EXCEPT ![p][Cur] = nextGen]
         /\ nextGen' = nextGen + 1
    ELSE UNCHANGED <<files, nextGen>>

(***************************************************************************)
(* rotate(), under lw.mu                                                   *)
(***************************************************************************)

\* The bug of running the backup loop upwards (i = 1 first).
RECURSIVE ShiftBackupsAscending(_, _)
ShiftBackupsAscending(fs, i) ==
    IF i = 0 THEN fs
    ELSE LET j == maxBackups - i + 1
             step(f, n, m) ==
                 IF f[n] = Absent THEN f
                 ELSE IF j = maxBackups THEN [f EXCEPT ![n] = Absent]
                 ELSE [f EXCEPT ![m] = f[n], ![n] = Absent]
         IN ShiftBackupsAscending(step(step(fs, Log(j), Log(j + 1)), Gz(j), Gz(j + 1)), i - 1)

RECURSIVE ShiftBackups(_, _)
ShiftBackups(fs, i) ==
    IF i = 0 THEN fs
    ELSE LET step(f, n, m) ==
                 IF f[n] = Absent THEN f
                 ELSE IF i = maxBackups THEN [f EXCEPT ![n] = Absent]
                 ELSE [f EXCEPT ![m] = f[n], ![n] = Absent]
         IN ShiftBackups(step(step(fs, Log(i), Log(i + 1)), Gz(i), Gz(i + 1)), i - 1)

\* What the scheme promises: the newest maxBackups rotated generations.
KeepNewest(g) ==
    kept' = [kept EXCEPT ![path] = SubSeq(<<g>> \o @, 1, Min({maxBackups, Len(@) + 1}))]

\* The goroutines rotate starts for the generation g it rotated out.
StartBackground(g) ==
    /\ cpc' = IF compress THEN [cpc EXCEPT ![g] = "open"] ELSE cpc
    /\ cpath' = IF compress THEN [cpath EXCEPT ![g] = path] ELSE cpath
    /\ cln' = [cln EXCEPT ![g] = "readdir"]
    /\ UNCHANGED <<held, cdir, entries, cage, victim>>

\* The bug of not resetting currentSize after a rotation.
RotateNoReset ==
    LET g == files[path][Cur]
        shifted == ShiftBackups(files[path], maxBackups)
    IN /\ files' = [files EXCEPT ![path] = [shifted EXCEPT ![Log(1)] = g, ![Cur] = nextGen]]
       /\ nextGen' = nextGen + 1
       /\ lines' = [lines EXCEPT ![path] = @ + 1]
       /\ KeepNewest(g)
       /\ StartBackground(g)

\* Close access.log, shift the backups, rename access.log to .1.log,
\* start compressFile(.1.log) when compressing and cleanOldFiles, and
\* openFile a new, empty access.log.
Rotate ==
    LET g == files[path][Cur]
        shifted == ShiftBackups(files[path], maxBackups)
    IN /\ files' = [files EXCEPT ![path] = [shifted EXCEPT ![Log(1)] = g, ![Cur] = nextGen]]
       /\ nextGen' = nextGen + 1
       /\ lines' = [lines EXCEPT ![path] = 0]
       /\ KeepNewest(g)
       /\ StartBackground(g)

(***************************************************************************)
(* The operations of LogFileWriter, each under lw.mu                       *)
(***************************************************************************)

\* NotifySingle: reopen if closed (access.log of lw.filePath always exists
\* here, so currentSize is its size), write one line, rotate once
\* currentSize >= maxSize.
NotifySingle ==
    /\ nextGen <= MaxGen
    /\ \/ /\ lines[path] + 1 >= maxLines
          /\ Rotate
       \/ /\ lines[path] + 1 < maxLines
          /\ lines' = [lines EXCEPT ![path] = @ + 1]
          /\ UNCHANGED <<files, nextGen, kept, bgVars>>
    /\ UNCHANGED <<path, cfgVars, aged, bgLost>>

\* ClearLogFile: close, truncate access.log (its lines are gone), reopen.
ClearLogFile ==
    /\ nextGen <= MaxGen
    /\ files' = [files EXCEPT ![path][Cur] = nextGen]
    /\ nextGen' = nextGen + 1
    /\ lines' = [lines EXCEPT ![path] = 0]
    /\ UNCHANGED <<path, kept, cfgVars, aged, bgVars, bgLost>>

\* UpdateConfig: take the new limits; on a new filePath close the file
\* and openFile the new one (which may already hold lines).
UpdateConfig(p, k, m, c, d) ==
    /\ maxBackups' = k /\ maxLines' = m /\ compress' = c /\ maxDays' = d
    /\ IF p # path
         THEN /\ path' = p
              /\ OpenFile(p)
         ELSE UNCHANGED <<path, files, nextGen>>
    /\ UNCHANGED <<lines, kept, aged, bgVars, bgLost>>

\* Days pass: the oldest generation not yet older than maxDays becomes so.
Age ==
    /\ \E g \in Gens \ aged :
          /\ g < nextGen
          /\ \A h \in 1..(g - 1) : h \in aged
          /\ aged' = aged \cup {g}
    /\ UNCHANGED <<rotVars, cfgVars, bgVars, bgLost>>

(***************************************************************************)
(* compressFile(backup1): the path is access.log.1.log of the path rotate  *)
(* used, whatever that file holds by then.                                 *)
(***************************************************************************)
\* os.Open(srcPath); a missing file ends the goroutine.
CompressOpen(c) ==
    /\ cpc[c] = "open"
    /\ LET g == files[cpath[c]][Log(1)] IN
       /\ held' = [held EXCEPT ![c] = g]
       /\ cpc' = [cpc EXCEPT ![c] = IF g = Absent THEN "done" ELSE "copy"]
       /\ cpath' = IF g = Absent THEN [cpath EXCEPT ![c] = Absent] ELSE cpath
    /\ UNCHANGED <<rotVars, cfgVars, aged, cln, cdir, entries, cage, victim, bgLost>>


\* A goroutine deleting (or overwriting) generation g of path p loses it
\* when the rotations still keep g and g is not older than maxDays.
Lost(p, g) == IF g # Absent /\ g \notin aged /\ \E i \in DOMAIN kept[p] : kept[p][i] = g
              THEN {g} ELSE {}

\* os.Create(srcPath + ".gz") and io.Copy from the open file.
CompressCopy(c) ==
    /\ cpc[c] = "copy"
    /\ LET p == cpath[c] IN
       /\ files' = [files EXCEPT ![p][Gz(1)] = held[c]]
       /\ bgLost' = bgLost \cup (Lost(p, files[p][Gz(1)]) \ {held[c]})
    /\ cpc' = [cpc EXCEPT ![c] = "remove"]
    /\ UNCHANGED <<path, lines, nextGen, kept, cfgVars, aged, cpath, held,
                   cln, cdir, entries, cage, victim>>

\* os.Remove(srcPath)
CompressRemove(c) ==
    /\ cpc[c] = "remove"
    /\ LET p == cpath[c] IN
       /\ files' = [files EXCEPT ![p][Log(1)] = Absent]
       /\ bgLost' = bgLost \cup (Lost(p, files[p][Log(1)]) \ {held[c]})
    /\ cpc' = [cpc EXCEPT ![c] = "done"]
    /\ held' = [held EXCEPT ![c] = Absent]
    /\ cpath' = [cpath EXCEPT ![c] = Absent]
    /\ UNCHANGED <<path, lines, nextGen, kept, cfgVars, aged,
                   cln, cdir, entries, cage, victim>>

CompressStep(c) == CompressOpen(c) \/ CompressCopy(c) \/ CompressRemove(c)

(***************************************************************************)
(* cleanOldFiles: read lw.filePath and list its directory, compute maxAge  *)
(* from lw.maxDays once, then for each backup name in os.ReadDir's (name)  *)
(* order stat it, re-read lw.maxDays, and remove it when it is older than  *)
(* maxAge.  maxAge = 0 (maxDays was 0) makes every file older than maxAge. *)
(***************************************************************************)
NameRank(n) == 2 * n[2] + (IF n[1] = "gz" THEN 1 ELSE 0)

\* The loop is over: the goroutine returns (its locals are dropped).
CleanDone(c) ==
    /\ cln' = [cln EXCEPT ![c] = "done"]
    /\ cdir' = [cdir EXCEPT ![c] = Absent]
    /\ cage' = [cage EXCEPT ![c] = FALSE]

\* Go on with the next entry, or return after the last.
CleanContinue(c, rest) ==
    IF rest = {} THEN CleanDone(c)
    ELSE /\ cln' = [cln EXCEPT ![c] = "info"]
         /\ UNCHANGED <<cdir, cage>>

CleanReadDir(c) ==
    /\ cln[c] = "readdir"
    /\ LET ns == {n \in Names \ {Cur} : files[path][n] # Absent} IN
       \/ /\ ns = {}
          /\ CleanDone(c)
          /\ UNCHANGED entries
       \/ /\ ns # {}
          /\ cdir' = [cdir EXCEPT ![c] = path]
          /\ entries' = [entries EXCEPT ![c] = ns]
          /\ cage' = [cage EXCEPT ![c] = maxDays]
          /\ cln' = [cln EXCEPT ![c] = "info"]
    /\ UNCHANGED <<rotVars, cfgVars, aged, cpc, cpath, held, victim, bgLost>>

\* The age test: it re-reads lw.maxDays but uses the maxAge computed
\* before the loop (0 when maxDays was 0 then: every file is older).
Expired(c, g) == g # Absent /\ maxDays /\ (cage[c] => g \in aged)

\* entry.Info() (a vanished file is skipped) and the age test.
CleanInfo(c) ==
    /\ cln[c] = "info"
    /\ LET n == CHOOSE x \in entries[c] : \A y \in entries[c] : NameRank(x) <= NameRank(y)
           g == files[cdir[c]][n]
           rest == entries[c] \ {n}
       IN /\ entries' = [entries EXCEPT ![c] = rest]
          /\ \/ /\ Expired(c, g)
                /\ victim' = [victim EXCEPT ![c] = n]
                /\ cln' = [cln EXCEPT ![c] = "remove"]
                /\ UNCHANGED <<cdir, cage>>
             \/ /\ ~Expired(c, g)
                /\ CleanContinue(c, rest)
                /\ UNCHANGED victim
    /\ UNCHANGED <<rotVars, cfgVars, aged, cpc, cpath, held, bgLost>>

\* os.Remove(fullPath), whatever the name holds by now.
CleanRemove(c) ==
    /\ cln[c] = "remove"
    /\ LET p == cdir[c]
           n == victim[c]
       IN /\ files' = [files EXCEPT ![p][n] = Absent]
          /\ bgLost' = bgLost \cup Lost(p, files[p][n])
    /\ victim' = [victim EXCEPT ![c] = Absent]
    /\ CleanContinue(c, entries[c])
    /\ UNCHANGED <<path, lines, nextGen, kept, cfgVars, aged, cpc, cpath, held,
                   entries>>

CleanStep(c) == CleanReadDir(c) \/ CleanInfo(c) \/ CleanRemove(c)

Next ==
    \/ NotifySingle \/ ClearLogFile \/ Age
    \/ \E p \in Paths, k \in MaxBackupsSet, m \in MaxLinesSet, c \in Compress, d \in BOOLEAN :
          UpdateConfig(p, k, m, c, d)
    \/ \E c \in Gens : CompressStep(c) \/ CleanStep(c)

Spec == Init /\ [][Next]_vars

(***************************************************************************)
(* Properties                                                              *)
(***************************************************************************)

OnDisk(p, g) == \E n \in Names \ {Cur} : files[p][n] = g

\* The backup loop of rotate, run from maxBackups down to 1 over .log and
\* .log.gz, keeps on disk the newest maxBackups generations as the limit
\* stood at each rotation, across UpdateConfig changing the limit, the
\* compression or the path; only maxDays expiry and the unlocked
\* goroutines (NoBackgroundLoss) remove one of them.
RotationKeepsNewest ==
    \A p \in Paths : \A i \in DOMAIN kept[p] :
        kept[p][i] \in aged \cup bgLost \/ OnDisk(p, kept[p][i])

\* compressFile deletes or overwrites only the generation it compressed, and
\* cleanOldFiles only generations older than maxDays: neither goroutine
\* ever deletes a backup the rotation scheme still keeps.
NoBackgroundLoss == bgLost = {}

====
