----------------------------- MODULE RegionFormat -----------------------------
(***************************************************************************)
(* ParseRegion of src/iplocation/format.go and IPLocationResult.ToSlice of *)
(* src/iplocation/types.go: an ip2region row "f0|f1|...", split on "|",    *)
(* is read into the result fields by the positional layout of the          *)
(* family's DBFormat; "0" and blank fields read as empty; a row whose last *)
(* field contains "内网IP" reads as an intranet address.                    *)
(*                                                                         *)
(* A string is a sequence of tokens: "|" and " " are the separator and the *)
(* blank TrimSpace removes, "0" the placeholder, "内网IP" the intranet      *)
(* marker (INTRA), and any other token one character of a name.            *)
(***************************************************************************)
EXTENDS Naturals, Sequences, FiniteSets

\* The DBFormat values (types.go); any other string takes the default case.
DBFormats == {"legacy", "opensource", "full", "standard", "compact"}

\* The IPLocationResult fields.
ResultFields == {"Country", "Province", "City", "ISP", "Region", "District"}

BAR == "|"
BLANK == " "
ZERO == "0"
INTRA == "INTRA"
LAN == <<"LAN">>   \* the text "内网"

\* strings.Split(s, "|")
RECURSIVE SplitBar(_)
SplitBar(s) ==
    LET at == {i \in DOMAIN s : s[i] = BAR} IN
    IF at = {} THEN <<s>>
    ELSE LET i == CHOOSE i \in at : \A j \in at : i <= j IN
         <<SubSeq(s, 1, i - 1)>> \o SplitBar(SubSeq(s, i + 1, Len(s)))

\* strings.TrimSpace
RECURSIVE TrimSpace(_)
TrimSpace(s) ==
    IF s = <<>> THEN s
    ELSE IF Head(s) = BLANK THEN TrimSpace(Tail(s))
    ELSE IF s[Len(s)] = BLANK THEN TrimSpace(SubSeq(s, 1, Len(s) - 1))
    ELSE s

\* The bug of keeping the "0" placeholder.
GetFieldKeepZero(fields, index) ==
    IF index >= Len(fields) THEN <<>> ELSE TrimSpace(fields[index + 1])

\* getField: the trimmed field at a 0-based index; "", "0" and missing
\* fields are empty.
GetField(fields, index) ==
    LET val == TrimSpace(fields[index + 1]) IN
    IF index >= Len(fields) \/ val = <<ZERO>> THEN <<>> ELSE val

\* The switch on format: the field each 0-based position fills.  The
\* default case is the legacy layout.
Layout(fm) ==
    CASE fm = "opensource" -> <<"Country", "Province", "City", "ISP">>
      [] fm = "full"       -> <<"Region", "Country", "Province", "City", "District", "ISP">>
      [] fm = "standard"   -> <<"Country", "Province", "City", "District", "ISP">>
      [] fm = "compact"    -> <<"Country", "Province", "City", "ISP">>
      [] OTHER            -> <<"Country", "Region", "Province", "City", "ISP">>

\* ParseRegion(region, fm)
ParseRegion(region, fm) ==
    LET fields == SplitBar(region)
        lay    == Layout(fm)
        result == [k \in ResultFields |->
                     IF \E i \in DOMAIN lay : lay[i] = k
                     THEN GetField(fields, (CHOOSE i \in DOMAIN lay : lay[i] = k) - 1)
                     ELSE <<>>]
        last   == fields[Len(fields)]
    IN IF region = <<>> THEN [k \in ResultFields |-> <<>>]
       ELSE IF \E i \in DOMAIN last : last[i] = INTRA
       THEN [result EXCEPT !.Country = LAN, !.Province = LAN, !.City = LAN,
                           !.Region = <<>>, !.ISP = <<>>]
       ELSE result

\* ToSlice: the legacy-compatible [Country, Region, Province, City, ISP].
ToSlice(r) == <<r.Country, r.Region, r.Province, r.City, r.ISP>>

(***************************************************************************)
(* Reference: the rows an ip2region database of a layout holds.            *)
(***************************************************************************)

\* A location: which fields are known; a known field's name is its text.
\* A row writes a known field with or without blanks around it, an unknown
\* one as "0" or empty, and the "其他" column the three newer layouts end
\* with as "0".
Styles == [pad : BOOLEAN, unknown : {<<ZERO>>, <<>>}]
Cell(known, k, st) ==
    IF k \in known THEN (IF st.pad THEN <<BLANK, k, BLANK>> ELSE <<k>>) ELSE st.unknown
RECURSIVE JoinBar(_)
JoinBar(cells) ==
    IF Len(cells) <= 1 THEN (IF cells = <<>> THEN <<>> ELSE cells[1])
    ELSE cells[1] \o <<BAR>> \o JoinBar(Tail(cells))
Row(known, fm, st) ==
    LET lay == Layout(fm)
        cells == [i \in DOMAIN lay |-> Cell(known, lay[i], st)]
    IN JoinBar(IF fm \in {"full", "standard", "compact"}
               THEN Append(cells, <<ZERO>>) ELSE cells)

\* What a lookup should answer for such a row.
Expected(known, fm) ==
    [k \in ResultFields |->
        IF k \in known /\ \E i \in DOMAIN Layout(fm) : Layout(fm)[i] = k
        THEN <<k>> ELSE <<>>]

\* For every layout (and an unknown format, read as legacy), every set of
\* known fields and every way of writing blanks and unknowns, ParseRegion
\* reads each field back from its own column, unknowns as empty, and
\* ToSlice gives the legacy columns in legacy order; a row whose last
\* column is the intranet marker reads as 内网 with no region or ISP.
RowsReadBack ==
    \A fm \in DBFormats \cup {"other"}, known \in SUBSET ResultFields, st \in Styles :
        LET r == ParseRegion(Row(known, fm, st), fm) IN
        /\ r = Expected(known, fm)
        /\ fm \in {"legacy", "other"} =>
              ToSlice(r) = [i \in 1..5 |-> IF Layout("legacy")[i] \in known
                                          THEN <<Layout("legacy")[i]>> ELSE <<>>]
        /\ LET ri == ParseRegion(Row(known, fm, st) \o <<BAR, INTRA>>, fm) IN
           /\ ri.Country = LAN /\ ri.Province = LAN /\ ri.City = LAN
           /\ ri.Region = <<>> /\ ri.ISP = <<>>

=============================================================================
