----------------------------- MODULE SidecarRows -----------------------------
(***************************************************************************)
(* What the sidecars of a store have in common: typed OIDs, and a row that  *)
(* is a value, deleted, or not there.  A value is a record of its Python    *)
(* type and a number.                                                       *)
(***************************************************************************)
CONSTANTS
    Types,          \* typenames
    Oids,
    TypeOf,         \* the type of an OID
    Deleted,        \* marks a delete: _TOMBSTONE in the mirror
    Absent,         \* no row
    NoFile          \* a path that names no file

ASSUME RowConstants == TypeOf \in [Oids -> Types]

OidsOf(t) == {o \in Oids : TypeOf[o] = t}
NoRows == [o \in Oids |-> Absent]
IsRow(x) == x \notin {Absent, Deleted}
Live(rows) == [o \in Oids |-> IF rows[o] = Deleted THEN Absent ELSE rows[o]]

=============================================================================
