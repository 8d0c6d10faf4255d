--------------------------- MODULE IPLocationAdmin ---------------------------
(***************************************************************************)
(* The administrative handlers of src/api/waf_iplocation.go over the      *)
(* manager of IPLocationManager and the data directory on disk.            *)
(*                                                                         *)
(* UploadIPDBFileApi saves the upload to <final>.tmp, reads it back, loads *)
(* it into the manager, sets GCONFIG_IP_V4/V6_SOURCE, and renames the      *)
(* temporary file over the final one; a failed load removes the temporary  *)
(* file.  ReloadIPDBApi reloads each family from the file its configured   *)
(* source names, IPv4 first, and stops at the first failed load.           *)
(*                                                                         *)
(* Every manager method is atomic (it runs under m.mu, see                 *)
(* IPLocationRWLock); the handler steps between them are not, and several  *)
(* HTTP requests (Req) run the handlers concurrently.  The file extension  *)
(* is abstracted to the backend kind it selects (.xdb ip2region, .mmdb     *)
(* geolite2); requests with another type or extension return before any   *)
(* state changes and are left out.                                         *)
(***************************************************************************)
EXTENDS IPLocationManager

CONSTANTS
    Req,        \* concurrent HTTP requests to the two handlers
    CfgFormat,  \* GCONFIG_IP_V4_FORMAT / GCONFIG_IP_V6_FORMAT per family
    Absent,     \* no such file
    CorruptFiles \* final files that may hold bytes no loader accepts at start

ASSUME CfgFormat \in [Families -> Formats]

\* The files of the data directory the handlers use.
Paths == {"ip2region.xdb", "ip2region_v6.xdb", "GeoLite2-Country.mmdb"}

\* finalPath of UploadIPDBFileApi and the paths of ReloadIPDBApi: both
\* families share one GeoLite2 file.
FinalPath(f, src) ==
    IF src = "geolite2" THEN "GeoLite2-Country.mmdb"
    ELSE IF f = "v4" THEN "ip2region.xdb" ELSE "ip2region_v6.xdb"

ASSUME CorruptFiles \subseteq Paths

\* The images a file of this path may hold when the service starts.
StartImages(p) == IF p = "GeoLite2-Country.mmdb" THEN MmdbData ELSE XdbData

\* What a file may hold at start: a valid image, or, for CorruptFiles, bytes
\* an earlier run left there (an upload that renamed another request's
\* temporary file, a copy by hand).
StartContent(p) ==
    StartImages(p) \cup (IF p \in CorruptFiles THEN BadData ELSE {})

VARIABLES
    cfgSource,  \* global.GCONFIG_IP_V4_SOURCE / GCONFIG_IP_V6_SOURCE
    disk,       \* content of each final file, or Absent
    tmp,        \* content of each <final>.tmp file, or Absent
    pc,         \* handler step of each request
    req,        \* the family and backend kind a request works on
    buf         \* fileData / data: the bytes a request has read

adminVars == <<cfgSource, disk, tmp, pc, req, buf>>
vars == <<mgrVars, adminVars>>

Steps == {"idle", "uRead", "uLoad", "uSet", "uRename", "rRead", "rLoad"}
NoReq == [f |-> "v4", src |-> "ip2region"]

\* The service after startup: the manager constructed and configured from
\* the global configuration, the data files valid or missing.
Init ==
    /\ cfgSource \in [Families -> Sources]
    /\ source = cfgSource
    /\ format = CfgFormat
    /\ searcher = [f \in Families |-> Nil]
    /\ geoReader = [f \in Families |-> Nil]
    /\ loaded = [f \in Families |-> Nil]
    /\ disk \in {d \in [Paths -> Data \cup {Absent}] :
                    \A p \in Paths : d[p] \in StartContent(p) \cup {Absent}}
    /\ tmp = [p \in Paths |-> Absent]
    /\ pc = [r \in Req |-> "idle"]
    /\ req = [r \in Req |-> NoReq]
    /\ buf = [r \in Req |-> Absent]

\* The loader a handler calls for a family and backend kind.
Load(f, src, d) ==
    IF src = "ip2region" THEN LoadIp2Region(f, d, CfgFormat[f])
                         ELSE LoadGeoLite2(f, d)

TmpOf(r) == FinalPath(req[r].f, req[r].src)

Finish(r) ==
    /\ pc' = [pc EXCEPT ![r] = "idle"]
    /\ req' = [req EXCEPT ![r] = NoReq]
    /\ buf' = [buf EXCEPT ![r] = Absent]

(***************************************************************************)
(* UploadIPDBFileApi                                                       *)
(***************************************************************************)

\* c.SaveUploadedFile(file, tempPath)
UploadSave(r, f, src, d) ==
    /\ pc[r] = "idle"
    /\ tmp' = [tmp EXCEPT ![FinalPath(f, src)] = d]
    /\ pc' = [pc EXCEPT ![r] = "uRead"]
    /\ req' = [req EXCEPT ![r] = [f |-> f, src |-> src]]
    /\ UNCHANGED <<mgrVars, cfgSource, disk, buf>>

\* ioutil.ReadFile(tempPath); on error the temporary file is removed.
UploadRead(r) ==
    /\ pc[r] = "uRead"
    /\ IF tmp[TmpOf(r)] = Absent
         THEN /\ Finish(r) /\ UNCHANGED tmp
         ELSE /\ buf' = [buf EXCEPT ![r] = tmp[TmpOf(r)]]
              /\ pc' = [pc EXCEPT ![r] = "uLoad"]
              /\ UNCHANGED <<tmp, req>>
    /\ UNCHANGED <<mgrVars, cfgSource, disk>>

\* The bug of going on after a load error (a missing return).
UploadLoadIgnoringError(r) ==
    /\ pc[r] = "uLoad"
    /\ Load(req[r].f, req[r].src, buf[r])
    /\ pc' = [pc EXCEPT ![r] = "uSet"]
    /\ UNCHANGED <<tmp, req, buf, cfgSource, disk>>

\* The hot load; on error os.Remove(tempPath) and return.
UploadLoad(r) ==
    /\ pc[r] = "uLoad"
    /\ Load(req[r].f, req[r].src, buf[r])
    /\ IF LoadSucceeds(req[r].src, buf[r])
         THEN /\ pc' = [pc EXCEPT ![r] = "uSet"]
              /\ UNCHANGED <<tmp, req, buf>>
         ELSE /\ tmp' = [tmp EXCEPT ![TmpOf(r)] = Absent]
              /\ Finish(r)
    /\ UNCHANGED <<cfgSource, disk>>

\* global.GCONFIG_IP_V*_SOURCE = ..., after the manager's lock is released.
UploadSetSource(r) ==
    /\ pc[r] = "uSet"
    /\ cfgSource' = [cfgSource EXCEPT ![req[r].f] = req[r].src]
    /\ pc' = [pc EXCEPT ![r] = "uRename"]
    /\ UNCHANGED <<mgrVars, disk, tmp, req, buf>>

\* os.Rename(tempPath, finalPath); on error os.Remove(tempPath).
UploadRename(r) ==
    /\ pc[r] = "uRename"
    /\ LET p == TmpOf(r) IN
       /\ disk' = IF tmp[p] = Absent THEN disk ELSE [disk EXCEPT ![p] = tmp[p]]
       /\ tmp' = [tmp EXCEPT ![p] = Absent]
    /\ Finish(r)
    /\ UNCHANGED <<mgrVars, cfgSource>>

(***************************************************************************)
(* ReloadIPDBApi                                                           *)
(***************************************************************************)

ReloadStart(r) ==
    /\ pc[r] = "idle"
    /\ pc' = [pc EXCEPT ![r] = "rRead"]
    /\ req' = [req EXCEPT ![r] = [f |-> "v4", src |-> cfgSource["v4"]]]
    /\ UNCHANGED <<mgrVars, cfgSource, disk, tmp, buf>>

\* After a family: the IPv6 half, or the success response.
NextFamily(r) ==
    IF req[r].f = "v4"
    THEN /\ pc' = [pc EXCEPT ![r] = "rRead"]
         /\ req' = [req EXCEPT ![r] = [f |-> "v6", src |-> cfgSource["v6"]]]
         /\ buf' = [buf EXCEPT ![r] = Absent]
    ELSE Finish(r)

\* The bug of taking the IPv4 path in the IPv6 half.
ReloadReadV4Path(r) ==
    /\ pc[r] = "rRead"
    /\ LET p == FinalPath("v4", cfgSource[req[r].f]) IN
       IF disk[p] = Absent
         THEN NextFamily(r)
         ELSE /\ buf' = [buf EXCEPT ![r] = disk[p]]
              /\ req' = [req EXCEPT ![r].src = cfgSource[req[r].f]]
              /\ pc' = [pc EXCEPT ![r] = "rLoad"]
    /\ UNCHANGED <<mgrVars, cfgSource, disk, tmp>>

\* The configured source picks the path; os.Stat and ioutil.ReadFile.  A
\* missing file skips the family.
ReloadRead(r) ==
    /\ pc[r] = "rRead"
    /\ LET p == FinalPath(req[r].f, cfgSource[req[r].f]) IN
       IF disk[p] = Absent
         THEN NextFamily(r)
         ELSE /\ buf' = [buf EXCEPT ![r] = disk[p]]
              /\ req' = [req EXCEPT ![r].src = cfgSource[req[r].f]]
              /\ pc' = [pc EXCEPT ![r] = "rLoad"]
    /\ UNCHANGED <<mgrVars, cfgSource, disk, tmp>>

\* The load; a failure returns the error response at once.
ReloadLoad(r) ==
    /\ pc[r] = "rLoad"
    /\ Load(req[r].f, req[r].src, buf[r])
    /\ IF LoadSucceeds(req[r].src, buf[r]) THEN NextFamily(r) ELSE Finish(r)
    /\ UNCHANGED <<cfgSource, disk, tmp>>

Next ==
    \E r \in Req :
        \/ \E f \in Families, src \in Sources, d \in Data : UploadSave(r, f, src, d)
        \/ UploadRead(r) \/ UploadLoad(r) \/ UploadSetSource(r) \/ UploadRename(r)
        \/ ReloadStart(r) \/ ReloadRead(r) \/ ReloadLoad(r)

Spec == Init /\ [][Next]_vars

(***************************************************************************)
(* Properties                                                              *)
(***************************************************************************)

Quiescent == \A r \in Req : pc[r] = "idle"

\* Once no handler is running, the configured source of each family
\* (GCONFIG_IP_V*_SOURCE, which the next ReloadIPDBApi and the next start
\* read) is the source the manager answers with: an upload sets the global
\* only after its load succeeded, and a reload loads what the global names.
ConfigMatchesManager ==
    Quiescent => \A f \in Families : cfgSource[f] = source[f]

\* A final data file only ever holds an image its loader accepts: an
\* upload renames its temporary file over the final one only after that
\* very file's bytes loaded successfully.
InstalledFilesValid ==
    \A p \in Paths : disk[p] \in StartImages(p) \cup {Absent}

\* When ReloadIPDBApi answers success, each family whose configured file
\* exists answers lookups from that file's image (the shared GeoLite2 file
\* included): the reload reads the path matching family and source.
ReloadRestoresDisk ==
    [][\A r \in Req :
          (pc[r] \in {"rRead", "rLoad"} /\ req[r].f = "v6" /\ pc'[r] = "idle"
             /\ (pc[r] = "rLoad" => LoadSucceeds(req[r].src, buf[r])))
          => \A f \in Families :
                 LET p == FinalPath(f, cfgSource[f]) IN
                 disk[p] # Absent => LookupFamily(f)'.db = disk[p]]_vars

=============================================================================
