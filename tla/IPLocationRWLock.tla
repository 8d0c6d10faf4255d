--------------------------- MODULE IPLocationRWLock ---------------------------
(***************************************************************************)
(* The m.mu sync.RWMutex protocol of src/iplocation/manager.go.  Request   *)
(* goroutines (Readers) call Lookup concurrently while administrative      *)
(* goroutines (Writers) call the loaders, Close, SetSource and SetFormat.  *)
(*                                                                         *)
(* Lookup takes RLock, reads the source and the searcher/reader pointer,   *)
(* searches through that object and releases the lock on return.  A       *)
(* loader takes Lock, closes the old object and sets the field to nil,     *)
(* then constructs and installs the new object, and unlocks on return.     *)
(*                                                                         *)
(* Go's RWMutex blocks new readers while a writer waits in Lock, and its   *)
(* Mutex hands the lock to a starving waiter; both are modelled (wwait,    *)
(* strong fairness on WriterLock).                                         *)
(***************************************************************************)
EXTENDS IPLocationManager

CONSTANTS
    Readers,    \* goroutines calling Lookup
    Writers     \* goroutines calling the mutating methods

VARIABLES
    rlocked,    \* readers holding m.mu.RLock
    wlocked,    \* the writer holding m.mu.Lock, or Nil
    wwait,      \* writers blocked in m.mu.Lock
    rpc,        \* reader program counter
    rkind,      \* the address family net.ParseIP/To4 gave the looked-up IP
    rsnap,      \* what lookupV4/V6 read: source, pointer, format
    wpc,        \* writer program counter
    wop,        \* the method a writer is executing, with its arguments
    wsaved      \* the object a loader closed and has not yet replaced

lockVars == <<rlocked, wlocked, wwait>>
rdVars == <<rpc, rkind, rsnap>>
wrVars == <<wpc, wop, wsaved>>
vars == <<mgrVars, lockVars, rdVars, wrVars>>

Kinds == Families \cup {"invalid"}

Ops ==
    [op : {"ip2region"}, f : Families, d : Data, fm : Formats]
      \cup [op : {"geolite2"}, f : Families, d : Data]
      \cup [op : {"close"}]
      \cup [op : {"setSource"}, f : Families, src : Sources]
      \cup [op : {"setFormat"}, f : Families, fm : Formats]

NoOp == [op |-> "none"]
NoSnap == [src |-> Nil, ptr |-> Nil]

Init ==
    /\ NewManager
    /\ rlocked = {} /\ wlocked = Nil /\ wwait = {}
    /\ rpc = [r \in Readers |-> "idle"]
    /\ rkind = [r \in Readers |-> "invalid"]
    /\ rsnap = [r \in Readers |-> NoSnap]
    /\ wpc = [w \in Writers |-> "idle"]
    /\ wop = [w \in Writers |-> NoOp]
    /\ wsaved = [w \in Writers |-> Nil]

(***************************************************************************)
(* Lookup                                                                  *)
(***************************************************************************)

\* The bug of reading the fields without the lock (a writer may hold it).
LookupRLockIgnoringWriter(r, kind) ==
    /\ rpc[r] = "idle"
    /\ wwait = {}
    /\ rlocked' = rlocked \cup {r}
    /\ rpc' = [rpc EXCEPT ![r] = "locked"]
    /\ rkind' = [rkind EXCEPT ![r] = kind]
    /\ UNCHANGED <<mgrVars, wlocked, wwait, rsnap, wrVars>>

\* A read lock that does not give way to a waiting writer.
LookupRLockNoWriterPreference(r, kind) ==
    /\ rpc[r] = "idle"
    /\ wlocked = Nil
    /\ rlocked' = rlocked \cup {r}
    /\ rpc' = [rpc EXCEPT ![r] = "locked"]
    /\ rkind' = [rkind EXCEPT ![r] = kind]
    /\ UNCHANGED <<mgrVars, wlocked, wwait, rsnap, wrVars>>

\* m.mu.RLock(): granted when no writer holds or waits for the lock.
LookupRLock(r, kind) ==
    /\ rpc[r] = "idle"
    /\ wlocked = Nil /\ wwait = {}
    /\ rlocked' = rlocked \cup {r}
    /\ rpc' = [rpc EXCEPT ![r] = "locked"]
    /\ rkind' = [rkind EXCEPT ![r] = kind]
    /\ UNCHANGED <<mgrVars, wlocked, wwait, rsnap, wrVars>>

\* lookupV4/lookupV6 test the source and the pointer and keep the object.
\* An invalid address returns before any field is read.
LookupRead(r) ==
    /\ rpc[r] = "locked"
    /\ LET f == rkind[r] IN
       rsnap' = [rsnap EXCEPT ![r] =
                   IF f = "invalid" THEN NoSnap
                   ELSE IF source[f] = "ip2region" /\ searcher[f] # Nil
                        THEN [src |-> "ip2region", ptr |-> searcher[f]]
                   ELSE IF source[f] = "geolite2" /\ geoReader[f] # Nil
                        THEN [src |-> "geolite2", ptr |-> geoReader[f]]
                   ELSE NoSnap]
    /\ rpc' = [rpc EXCEPT ![r] = "read"]
    /\ UNCHANGED <<mgrVars, lockVars, rkind, wrVars>>

\* SearchByStr / Country on the kept object, ParseRegion with the format,
\* then the deferred RUnlock.
LookupSearch(r) ==
    /\ rpc[r] = "read"
    /\ rlocked' = rlocked \ {r}
    /\ rpc' = [rpc EXCEPT ![r] = "idle"]
    /\ rsnap' = [rsnap EXCEPT ![r] = NoSnap]
    /\ rkind' = [rkind EXCEPT ![r] = "invalid"]
    /\ UNCHANGED <<mgrVars, wlocked, wwait, wrVars>>

(***************************************************************************)
(* Mutating methods                                                        *)
(***************************************************************************)

\* A writer goroutine enters a method and blocks in m.mu.Lock().
WriterCall(w, o) ==
    /\ wpc[w] = "idle"
    /\ wpc' = [wpc EXCEPT ![w] = "wait"]
    /\ wop' = [wop EXCEPT ![w] = o]
    /\ wwait' = wwait \cup {w}
    /\ UNCHANGED <<mgrVars, rlocked, wlocked, rdVars, wsaved>>

\* m.mu.Lock() returns once no reader and no writer holds the lock.
WriterLock(w) ==
    /\ wpc[w] = "wait"
    /\ wlocked = Nil /\ rlocked = {}
    /\ wlocked' = w
    /\ wwait' = wwait \ {w}
    /\ wpc' = [wpc EXCEPT ![w] = "locked"]
    /\ UNCHANGED <<mgrVars, rlocked, rdVars, wop, wsaved>>

IsLoad(o) == o.op \in Sources

\* The object field a load replaces.
Field(o) == IF o.op = "ip2region" THEN searcher[o.f] ELSE geoReader[o.f]

\* Loaders, first half: close the old object and set the field to nil.
LoadCloseOld(w) ==
    LET o == wop[w] IN
    /\ wpc[w] = "locked" /\ IsLoad(o)
    /\ wsaved' = [wsaved EXCEPT ![w] = Field(o)]
    /\ IF o.op = "ip2region"
         THEN /\ searcher' = [searcher EXCEPT ![o.f] = Nil]
              /\ UNCHANGED geoReader
         ELSE /\ geoReader' = [geoReader EXCEPT ![o.f] = Nil]
              /\ UNCHANGED searcher
    /\ wpc' = [wpc EXCEPT ![w] = "closed"]
    /\ UNCHANGED <<source, format, loaded, lockVars, rdVars, wop>>

\* Loaders, second half: construct, install on success, deferred Unlock.
LoadInstall(w) ==
    LET o == wop[w] IN
    /\ wpc[w] = "closed"
    /\ IF o.op = "ip2region" THEN LoadIp2Region(o.f, o.d, o.fm)
                             ELSE LoadGeoLite2(o.f, o.d)
    /\ wlocked' = Nil
    /\ wpc' = [wpc EXCEPT ![w] = "idle"]
    /\ wop' = [wop EXCEPT ![w] = NoOp]
    /\ wsaved' = [wsaved EXCEPT ![w] = Nil]
    /\ UNCHANGED <<rlocked, wwait, rdVars>>

\* Close, SetSource, SetFormat: one critical section, deferred Unlock.
WriterApply(w) ==
    LET o == wop[w] IN
    /\ wpc[w] = "locked" /\ ~IsLoad(o)
    /\ CASE o.op = "close"     -> Close
         [] o.op = "setSource" -> SetSource(o.f, o.src)
         [] o.op = "setFormat" -> SetFormat(o.f, o.fm)
    /\ wlocked' = Nil
    /\ wpc' = [wpc EXCEPT ![w] = "idle"]
    /\ wop' = [wop EXCEPT ![w] = NoOp]
    /\ UNCHANGED <<rlocked, wwait, rdVars, wsaved>>

Next ==
    \/ \E r \in Readers, k \in Kinds : LookupRLock(r, k)
    \/ \E r \in Readers : LookupRead(r) \/ LookupSearch(r)
    \/ \E w \in Writers, o \in Ops : WriterCall(w, o)
    \/ \E w \in Writers :
          \/ WriterLock(w)
          \/ LoadCloseOld(w)
          \/ LoadInstall(w)
          \/ WriterApply(w)

\* A goroutine that holds or is granted the lock keeps running (weak
\* fairness); sync.Mutex's starvation mode eventually hands the lock to a
\* writer that keeps waiting for it (strong fairness).  Nothing forces a
\* request or an administrator to call a method.
Fairness ==
    /\ \A r \in Readers : WF_vars(LookupRead(r)) /\ WF_vars(LookupSearch(r))
    /\ \A w \in Writers :
          /\ SF_vars(WriterLock(w))
          /\ WF_vars(LoadCloseOld(w)) /\ WF_vars(LoadInstall(w))
          /\ WF_vars(WriterApply(w))

Spec == Init /\ [][Next]_vars /\ Fairness

(***************************************************************************)
(* The committed backend: between LoadCloseOld and LoadInstall the        *)
(* manager's field is nil; the committed field is the one saved.          *)
(***************************************************************************)
Closing(f, op) ==
    {w \in Writers : wpc[w] = "closed" /\ wop[w].op = op /\ wop[w].f = f}

Committed(f, op, cur) ==
    IF Closing(f, op) # {} THEN wsaved[CHOOSE w \in Closing(f, op) : TRUE] ELSE cur

absSearcher == [f \in Families |-> Committed(f, "ip2region", searcher[f])]
absGeoReader == [f \in Families |-> Committed(f, "geolite2", geoReader[f])]

(***************************************************************************)
(* Properties                                                              *)
(***************************************************************************)

\* While a Lookup searches, the object it read is the committed one (not
\* closed, not a nil left by a loader midway) and the source it read is the
\* committed source: a lookup racing a
\* reload never uses a closed or half-replaced backend (spec section 8).
LookupSeesCommittedBackend ==
    \A r \in Readers :
        rpc[r] = "read" /\ rkind[r] # "invalid" =>
            LET f == rkind[r] IN
            rsnap[r] = IF source[f] = "ip2region" /\ absSearcher[f] # Nil
                         THEN [src |-> "ip2region", ptr |-> absSearcher[f]]
                       ELSE IF source[f] = "geolite2" /\ absGeoReader[f] # Nil
                         THEN [src |-> "geolite2", ptr |-> absGeoReader[f]]
                       ELSE NoSnap

\* Every method call an administrator makes eventually returns, however
\* many lookups keep arriving: no lookup keeps its read lock for ever and
\* the writer is not starved.
WriterCompletes == \A w \in Writers : wpc[w] = "wait" ~> wpc[w] = "idle"

=============================================================================
