---------------------------- MODULE RecordStore ----------------------------
(***************************************************************************)
(* What a table file promises the layers above it: a record stays under    *)
(* the rid its insertion returned, with the value last written to it,      *)
(* until it is deleted.  Closing the file and opening it again is          *)
(* invisible, except for a table whose header page somebody has brought    *)
(* into the buffer pool: that table is empty when it is opened again.      *)
(***************************************************************************)
CONSTANTS Rids,     \* record identifiers
          Values    \* record contents

VARIABLES records,  \* the records of the table, by rid
          exposed   \* the header page is in the buffer pool

Live == DOMAIN records
NoRecords == [r \in {} |-> {}]

Init == records = NoRecords /\ exposed = FALSE

\* The rid is the table's choice; it is never that of a live record.
Insert(r, v) ==
    /\ r \notin Live
    /\ records' = [q \in Live \cup {r} |-> IF q = r THEN v ELSE records[q]]
    /\ UNCHANGED exposed

Delete(r) ==
    /\ r \in Live
    /\ records' = [q \in Live \ {r} |-> records[q]]
    /\ UNCHANGED exposed

Update(r, v) ==
    /\ r \in Live
    /\ records' = [records EXCEPT ![r] = v]
    /\ UNCHANGED exposed

\* Somebody reads the header page through the pool.
Expose ==
    /\ exposed' = TRUE
    /\ UNCHANGED records

\* The table is closed and opened again.
Reopen ==
    /\ records' = IF exposed THEN NoRecords ELSE records
    /\ exposed' = FALSE

Next ==
    \/ \E r \in Rids :
          \/ Delete(r)
          \/ \E v \in Values : Insert(r, v) \/ Update(r, v)
    \/ Expose
    \/ Reopen

Spec == Init /\ [][Next]_<<records, exposed>>

=============================================================================
