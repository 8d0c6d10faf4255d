-------------------------- MODULE MCIPLocationAdmin --------------------------
(* Model-checking instance of IPLocationAdmin: one image of each kind and  *)
(* a corrupt one; IPv4 rows in the full layout, IPv6 in the legacy one.    *)
EXTENDS IPLocationAdmin, RegionFormat

MCFormats == {"legacy", "full"}
MCCfgFormat == [f \in Families |-> IF f = "v4" THEN "full" ELSE "legacy"]

\* A region answer is ParseRegion of the image's row with the family's
\* current format (manager.go lookupV4/lookupV6): every row of every
\* layout reads back field by field (RowsReadBack), and so does a fully
\* known, padded row of the layout the answering family is set to.
RegionLookupsReadTheirLayout ==
    /\ RowsReadBack
    /\ \A f \in Families : LookupFamily(f).kind = "region" =>
          LET st == [pad |-> TRUE, unknown |-> <<ZERO>>] IN
          ParseRegion(Row(ResultFields, format[f], st), format[f])
              = Expected(ResultFields, format[f])
=============================================================================
