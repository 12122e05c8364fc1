---------------------------- MODULE MCImportCache ----------------------------
(* Instances of ImportCache for TLC. *)
EXTENDS ImportCache, TLC

CONSTANTS t1, t2, o1, k1

\* An object and a candidate key of one type; the tenant has none of the other.
MCTypeOf == (o1 :> t1) @@ (k1 :> t1)

\* A full import and one narrowed to the type that has no objects.
MCFilters == {{t1, t2}, {t2}}
=============================================================================
