-------------------------- MODULE IPLocationManager --------------------------
(***************************************************************************)
(* The IP geolocation manager of src/iplocation/manager.go, one step per   *)
(* exported method.  Every mutating method runs under m.mu.Lock() and      *)
(* Lookup/GetStatus under m.mu.RLock(), so here each method is a single    *)
(* atomic step; IPLocationRWLock refines these steps into the lock        *)
(* protocol and shows that it implements this module.                     *)
(*                                                                         *)
(* A database image is a model value.  xdb.NewWithBuffer accepts exactly   *)
(* the images in XdbData, geoip2.FromBytes exactly those in MmdbData.      *)
(* A searcher/reader object is identified by the image it was built from: *)
(* two objects built from the same bytes answer alike.                     *)
(***************************************************************************)
EXTENDS Naturals, FiniteSets

CONSTANTS
    XdbData,      \* images xdb.NewWithBuffer accepts
    MmdbData,     \* images geoip2.FromBytes accepts
    BadData,      \* images both constructors reject
    Formats,      \* DBFormat values passed to the loaders
    Nil           \* the nil pointer

ASSUME XdbData \cap MmdbData = {} /\ BadData \cap (XdbData \cup MmdbData) = {}
ASSUME "legacy" \in Formats

Data == XdbData \cup MmdbData \cup BadData
Families == {"v4", "v6"}
\* DBSource values: SourceIp2Region and SourceGeoLite2 (types.go)
Sources == {"ip2region", "geolite2"}

VARIABLES
    source,     \* v4Source / v6Source
    format,     \* v4Format / v6Format
    searcher,   \* v4Searcher / v6Searcher (ip2region xdb.Searcher or Nil)
    geoReader,  \* v4GeoReader / v6GeoReader (geoip2.Reader or Nil)
    loaded      \* v*LoadTime/v*FileSize/v*CreateTime: the image of the last
                \* successful load, Nil while the time is still zero

mgrVars == <<source, format, searcher, geoReader, loaded>>

\* NewManager: ip2region for IPv4, GeoLite2 for IPv6, legacy format, nothing loaded.
NewManager ==
    /\ source = [f \in Families |-> IF f = "v4" THEN "ip2region" ELSE "geolite2"]
    /\ format = [f \in Families |-> "legacy"]
    /\ searcher = [f \in Families |-> Nil]
    /\ geoReader = [f \in Families |-> Nil]
    /\ loaded = [f \in Families |-> Nil]

(***************************************************************************)
(* Lookup and GetStatus change nothing; they are operators.                *)
(* kind = "v4", "v6" or "invalid" is what net.ParseIP/To4 classify.        *)
(* An answer names the image and format a lookup is computed from;         *)
(* the per-address content (region string, query errors) is abstracted.   *)
(***************************************************************************)
Answer(kind, d, fm) == [kind |-> kind, db |-> d, fmt |-> fm]

AnswerOf(f, src, srch, rdr, fm) ==
    IF src = "ip2region" /\ srch # Nil THEN Answer("region", srch, fm)
    ELSE IF src = "geolite2" /\ rdr # Nil THEN Answer("country", rdr, Nil)
    ELSE Answer("unconfigured", Nil, Nil)

\* lookupV4 / lookupV6
LookupFamily(f) == AnswerOf(f, source[f], searcher[f], geoReader[f], format[f])

\* Lookup: an unparsable address is answered "无效IP" before any backend is read.
Lookup(kind) ==
    IF kind = "invalid" THEN Answer("invalid", Nil, Nil) ELSE LookupFamily(kind)

\* GetStatus: source, format and the last successful load per family.
GetStatus(f) == [source |-> source[f], format |-> format[f], loaded |-> loaded[f]]

(***************************************************************************)
(* Loaders.  The old object is closed and the field set to nil BEFORE the  *)
(* new one is constructed; a constructor error returns with the field     *)
(* left nil.                                                               *)
(***************************************************************************)
LoadIp2Region(f, d, fm) ==
    IF d \in XdbData
    THEN /\ searcher' = [searcher EXCEPT ![f] = d]
         /\ source' = [source EXCEPT ![f] = "ip2region"]
         /\ format' = [format EXCEPT ![f] = fm]
         /\ loaded' = [loaded EXCEPT ![f] = d]
         /\ UNCHANGED geoReader
    ELSE /\ searcher' = [searcher EXCEPT ![f] = Nil]
         /\ UNCHANGED <<source, format, geoReader, loaded>>

LoadGeoLite2(f, d) ==
    IF d \in MmdbData
    THEN /\ geoReader' = [geoReader EXCEPT ![f] = d]
         /\ source' = [source EXCEPT ![f] = "geolite2"]
         /\ loaded' = [loaded EXCEPT ![f] = d]
         /\ UNCHANGED <<format, searcher>>
    ELSE /\ geoReader' = [geoReader EXCEPT ![f] = Nil]
         /\ UNCHANGED <<source, format, searcher, loaded>>

\* Whether the loader returns nil (no error).
LoadSucceeds(src, d) ==
    \/ src = "ip2region" /\ d \in XdbData
    \/ src = "geolite2" /\ d \in MmdbData

LoadV4Ip2Region(d, fm) == LoadIp2Region("v4", d, fm)
LoadV4GeoLite2(d) == LoadGeoLite2("v4", d)
LoadV6Ip2Region(d, fm) == LoadIp2Region("v6", d, fm)
LoadV6GeoLite2(d) == LoadGeoLite2("v6", d)

\* ReloadV4 / ReloadV6: dispatch on the source; an unknown source is an error.
Reload(f, d, src, fm) ==
    CASE src = "ip2region" -> LoadIp2Region(f, d, fm)
      [] src = "geolite2"  -> LoadGeoLite2(f, d)
      [] OTHER             -> UNCHANGED mgrVars

\* Close: every searcher and reader is closed and set to nil.
Close ==
    /\ searcher' = [f \in Families |-> Nil]
    /\ geoReader' = [f \in Families |-> Nil]
    /\ UNCHANGED <<source, format, loaded>>

SetSource(f, src) ==
    /\ source' = [source EXCEPT ![f] = src]
    /\ UNCHANGED <<format, searcher, geoReader, loaded>>

SetFormat(f, fm) ==
    /\ format' = [format EXCEPT ![f] = fm]
    /\ UNCHANGED <<source, searcher, geoReader, loaded>>

(***************************************************************************)
(* The manager on its own: any caller invokes any method in any order.     *)
(***************************************************************************)
ReloadSources == Sources \cup {"unknown"}

MgrNext ==
    \/ \E d \in Data, fm \in Formats :
          \/ LoadV4Ip2Region(d, fm)
          \/ LoadV6Ip2Region(d, fm)
    \/ \E d \in Data :
          \/ LoadV4GeoLite2(d)
          \/ LoadV6GeoLite2(d)
    \/ \E f \in Families, d \in Data, src \in ReloadSources, fm \in Formats :
          Reload(f, d, src, fm)
    \/ Close
    \/ \E f \in Families, src \in Sources : SetSource(f, src)
    \/ \E f \in Families, fm \in Formats : SetFormat(f, fm)

MgrSpec == NewManager /\ [][MgrNext]_mgrVars

=============================================================================
