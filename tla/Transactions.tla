---------------------------- MODULE Transactions ----------------------------
(***************************************************************************)
(* Statements and transactions: Interp::interp_sql (interp.h), the         *)
(* TransactionManager (transaction/transaction_manager.cpp) and the write  *)
(* side of the insert, delete and update executors, run by several client  *)
(* threads (client_handler in rmdb.cpp) without a lock: the LockManager    *)
(* grants everything.                                                      *)
(*                                                                         *)
(* One table of one page stands for the database.  In such a file (see     *)
(* RmFile) insert_record takes the first free slot, so a rid is a slot.    *)
(* A thread's step ends where another thread can see what it did: at each  *)
(* record operation, between reading and advancing next_txn_id_, and at    *)
(* the end of a statement.                                                 *)
(***************************************************************************)
EXTENDS Integers, Sequences, FiniteSets, SequencesExt

CONSTANTS
    Threads,     \* client threads
    Capacity,    \* slots of the table
    Values,      \* record contents
    Loaded,      \* records inserted, as many as may be, before anything else
    Ops,         \* the kinds of writes statements do
    MaxTxns,     \* bound: transactions begun
    MaxWrites    \* bound: writes of one transaction, per thread

WTypes == {"insert", "delete", "update"}

ASSUME TxnAssumption ==
    /\ Capacity \in Nat \ {0}
    /\ MaxTxns \in Nat
    /\ MaxWrites \in [Threads -> Nat]
    /\ Ops \subseteq WTypes
    /\ Values # {}
    /\ Loaded \in Seq(Values) /\ Len(Loaded) <= Capacity

INVALID_TXN_ID == -1
Slots == 0 .. Capacity - 1

VARIABLES
    used,          \* the bitmap of the table
    data,          \* data[r]: what slot r holds, a record or what is left of one
    txn,           \* the Transaction objects, in the order of their creation
    txn_map,       \* txn_map[id]: the object registered under id, 0 for none
    next_txn_id_,
    txn_id,        \* txn_id[t]: client_handler's "latest transaction's txn_id"
    ctx,           \* ctx[t]: context->txn_ of the statement being executed
    pc,            \* pc[t]: what thread t is doing (see Places)
    todo           \* todo[t]: the rids t's statement has still to write

table == <<used, data>>
client == <<txn_id, ctx, pc, todo>>
vars == <<table, txn, txn_map, next_txn_id_, client>>

Places == {"idle", "begin", "run", "delete", "update", "done", "undo", "gone"}
Ids == 0 .. MaxTxns - 1
Objects == 1 .. MaxTxns

WriteRecords == [wtype : WTypes, rid : Slots, record : Values]
TransactionStates == {"DEFAULT", "COMMITTED", "ABORTED"}

TypeOK ==
    /\ used \subseteq Slots
    /\ data \in [Slots -> Values]
    /\ Len(txn) <= MaxTxns
    /\ \A o \in DOMAIN txn :
          /\ txn[o].id \in Ids
          /\ txn[o].state \in TransactionStates
          /\ txn[o].txn_mode \in BOOLEAN
          /\ txn[o].thread \in Threads
          /\ txn[o].write_set \in Seq(WriteRecords)
          /\ txn[o].deletes \in BOOLEAN
    /\ txn_map \in [Ids -> 0 .. Len(txn)]
    /\ next_txn_id_ \in 0 .. MaxTxns
    /\ txn_id \in [Threads -> Ids \cup {INVALID_TXN_ID}]
    /\ ctx \in [Threads -> 0 .. Len(txn)]
    /\ pc \in [Threads -> Places]
    /\ todo \in [Threads -> SUBSET Slots]

Init ==
    /\ used \in {0 .. n - 1 : n \in 0 .. Len(Loaded)}
    /\ data = [r \in Slots |-> IF r \in used THEN Loaded[r + 1] ELSE CHOOSE v \in Values : TRUE]
    /\ txn = <<>>
    /\ txn_map = [i \in Ids |-> 0]
    /\ next_txn_id_ = 0
    /\ txn_id = [t \in Threads |-> INVALID_TXN_ID]
    /\ ctx = [t \in Threads |-> 0]
    /\ pc = [t \in Threads |-> "idle"]
    /\ todo = [t \in Threads |-> {}]

-----------------------------------------------------------------------------
(* TransactionManager                                                      *)

\* GetTransaction(*txn_id): the object, 0 for none.  It asserts that the
\* calling thread is the one that created the object.
GetTransaction(t) == IF txn_id[t] = INVALID_TXN_ID THEN 0 ELSE txn_map[txn_id[t]]
OwnsTransaction(t) == GetTransaction(t) # 0 => txn[GetTransaction(t)].thread = t

Running(o) == txn[o].state = "DEFAULT"

NoHistory == [used |-> {}, data |-> [r \in Slots |-> CHOOSE v \in Values : TRUE]]

\* The Transaction object; "deletes" and "before" are history: whether it has
\* deleted a record, and the table when it began.
FreshTransaction(t, txn_mode) ==
    [id |-> next_txn_id_, state |-> "DEFAULT", txn_mode |-> txn_mode, thread |-> t,
     write_set |-> <<>>, deletes |-> FALSE, before |-> [used |-> used, data |-> data]]

\* Begin(nullptr): the object is created with the id read from next_txn_id_.
NewTransaction(t, txn_mode) ==
    /\ Len(txn) < MaxTxns
    /\ next_txn_id_ \in Ids
    /\ txn' = Append(txn, FreshTransaction(t, txn_mode))
    /\ ctx' = [ctx EXCEPT ![t] = Len(txn) + 1]
    /\ pc' = [pc EXCEPT ![t] = "begin"]

\* Begin goes on: next_txn_id_ += 1, and the object is entered in txn_map.  The
\* statement begin ends here; SetTransaction returns to its statement.
Register(t) ==
    /\ pc[t] = "begin"
    /\ next_txn_id_' = next_txn_id_ + 1
    /\ txn_map' = [txn_map EXCEPT ![txn[ctx[t]].id] = ctx[t]]
    /\ txn_id' = [txn_id EXCEPT ![t] = txn[ctx[t]].id]
    /\ pc' = [pc EXCEPT ![t] = IF txn[ctx[t]].txn_mode THEN "idle" ELSE "run"]
    /\ UNCHANGED <<table, txn, ctx, todo>>

\* Mutant: the write set outlives the transaction.
EndAsKeepingWrites(o, state) ==
    txn' = [txn EXCEPT ![o].state = state]

\* Commit and the end of Abort: the write set is dropped (and the history).
EndAs(o, state) ==
    txn' = [txn EXCEPT ![o].state = state, ![o].write_set = <<>>,
                       ![o].deletes = FALSE, ![o].before = NoHistory]

-----------------------------------------------------------------------------
(* Interp                                                                  *)

\* Mutant: a transaction that is over is used again.
NoneYet(o) == o = 0

\* SetTransaction begins a transaction when there is none or it is over.
NeedsTransaction(o) == IF o = 0 THEN TRUE ELSE ~Running(o)

\* A statement other than begin, commit and abort: SetTransaction goes on with
\* the client's transaction unless that is over.
Statement(t) ==
    /\ pc[t] = "idle"
    /\ OwnsTransaction(t)
    /\ LET o == GetTransaction(t) IN
        \/ /\ NeedsTransaction(o)
           /\ NewTransaction(t, FALSE)
        \/ /\ ~NeedsTransaction(o)
           /\ ctx' = [ctx EXCEPT ![t] = o]
           /\ pc' = [pc EXCEPT ![t] = "run"]
           /\ UNCHANGED txn
    /\ UNCHANGED <<table, txn_map, next_txn_id_, txn_id, todo>>

\* begin; also while a transaction of the client is running.
BeginStatement(t) ==
    /\ pc[t] = "idle"
    /\ NewTransaction(t, TRUE)
    /\ UNCHANGED <<table, txn_map, next_txn_id_, txn_id, todo>>

\* commit; of whatever transaction txn_id names, in whatever state.
CommitStatement(t) ==
    /\ pc[t] = "idle"
    /\ GetTransaction(t) # 0 /\ OwnsTransaction(t)
    /\ EndAs(GetTransaction(t), "COMMITTED")
    /\ UNCHANGED <<table, txn_map, next_txn_id_, client>>

\* abort; and rollback;
AbortStatement(t) ==
    /\ pc[t] = "idle"
    /\ GetTransaction(t) # 0 /\ OwnsTransaction(t)
    /\ ctx' = [ctx EXCEPT ![t] = GetTransaction(t)]
    /\ pc' = [pc EXCEPT ![t] = "undo"]
    /\ UNCHANGED <<table, txn, txn_map, next_txn_id_, txn_id, todo>>

\* The assert of GetTransaction fails: the process is gone.
AssertFails(t) ==
    /\ pc[t] = "idle"
    /\ ~OwnsTransaction(t)
    /\ pc' = [u \in Threads |-> "gone"]
    /\ UNCHANGED <<table, txn, txn_map, next_txn_id_, txn_id, ctx, todo>>

\* The statement is over; outside begin ... commit it commits by itself.
EndStatement(t) ==
    /\ pc[t] = "done"
    /\ IF txn[ctx[t]].txn_mode THEN UNCHANGED txn ELSE EndAs(ctx[t], "COMMITTED")
    /\ pc' = [pc EXCEPT ![t] = "idle"]
    /\ UNCHANGED <<table, txn_map, next_txn_id_, txn_id, ctx, todo>>

\* A RedBaseError ends the statement where it is: client_handler reports it and
\* neither commits nor aborts.  INSERT and UPDATE log a write before they insert its
\* index entries, so they can also throw after the last one.
LastIsNoDelete(o) == txn[o].write_set # <<>> /\ Last(txn[o].write_set).wtype # "delete"
Throw(t) ==
    /\ pc[t] \in {"run", "delete", "update"} \/ (pc[t] = "done" /\ LastIsNoDelete(ctx[t]))
    /\ pc' = [pc EXCEPT ![t] = "idle"]
    /\ todo' = [todo EXCEPT ![t] = {}]
    /\ UNCHANGED <<table, txn, txn_map, next_txn_id_, txn_id, ctx>>

-----------------------------------------------------------------------------
(* Executors                                                               *)

FirstFree == CHOOSE r \in Slots \ used : \A q \in Slots \ used : r <= q
First(S) == CHOOSE r \in S : \A q \in S : r <= q

\* AppendWriteRecord
Logged(o, wtype, r, record) ==
    /\ Len(txn[o].write_set) < MaxWrites[txn[o].thread]
    /\ txn' = [txn EXCEPT ![o].write_set =
                   Append(@, [wtype |-> wtype, rid |-> r, record |-> record]),
                       ![o].deletes = @ \/ wtype = "delete"]

WriteSlot(r, v) == data' = [data EXCEPT ![r] = v]

\* InsertExecutor::Next
Insert(t, v) ==
    /\ pc[t] = "run" /\ "insert" \in Ops
    /\ used # Slots
    /\ used' = used \cup {FirstFree}
    /\ WriteSlot(FirstFree, v)
    /\ Logged(ctx[t], "insert", FirstFree, v)
    /\ pc' = [pc EXCEPT ![t] = "done"]
    /\ UNCHANGED <<txn_map, next_txn_id_, txn_id, ctx, todo>>

\* SeqScanExecutor: a select returns the records it finds ...
Select(t) ==
    /\ pc[t] = "run"
    /\ pc' = [pc EXCEPT ![t] = "done"]
    /\ UNCHANGED <<table, txn, txn_map, next_txn_id_, txn_id, ctx, todo>>

\* ... and delete and update collect the rids that satisfy the condition before
\* they write the first one.
Collect(t, op, rids) ==
    /\ pc[t] = "run" /\ op \in Ops \ {"insert"}
    /\ rids # {} /\ rids \subseteq used
    /\ todo' = [todo EXCEPT ![t] = rids]
    /\ pc' = [pc EXCEPT ![t] = op]
    /\ UNCHANGED <<table, txn, txn_map, next_txn_id_, txn_id, ctx>>

Done(t, r) ==
    /\ todo' = [todo EXCEPT ![t] = @ \ {r}]
    /\ pc' = [pc EXCEPT ![t] = IF todo[t] = {r} THEN "done" ELSE @]

\* DeleteExecutor::Next, one rid.  get_record reads the slot and delete_record
\* clears its bit, whether or not it still holds the record that was found.
Delete(t) ==
    /\ pc[t] = "delete"
    /\ LET r == First(todo[t]) IN
        /\ used' = used \ {r}
        /\ Logged(ctx[t], "delete", r, data[r])
        /\ Done(t, r)
    /\ UNCHANGED <<data, txn_map, next_txn_id_, txn_id, ctx>>

\* Mutant: the new value goes into the write set instead of the old one.
UpdateLogsNew(t, v) ==
    /\ pc[t] = "update"
    /\ LET r == First(todo[t]) IN
        /\ WriteSlot(r, v)
        /\ Logged(ctx[t], "update", r, v)
        /\ Done(t, r)
    /\ UNCHANGED <<used, txn_map, next_txn_id_, txn_id, ctx>>

\* UpdateExecutor::Next, one rid.
Update(t, v) ==
    /\ pc[t] = "update"
    /\ LET r == First(todo[t]) IN
        /\ WriteSlot(r, v)
        /\ Logged(ctx[t], "update", r, data[r])
        /\ Done(t, r)
    /\ UNCHANGED <<used, txn_map, next_txn_id_, txn_id, ctx>>

-----------------------------------------------------------------------------
(* TransactionManager::Abort: the write set is undone from its end.        *)

\* Mutant: an insertion is not undone.
UndoWriteNoInsert(o) ==
    LET w == Last(txn[o].write_set) IN
    \/ /\ w.wtype = "insert"
       /\ UNCHANGED table
    \/ /\ w.wtype = "delete"
       /\ used # Slots
       /\ used' = used \cup {FirstFree}
       /\ WriteSlot(FirstFree, w.record)
    \/ /\ w.wtype = "update"
       /\ WriteSlot(w.rid, w.record)
       /\ UNCHANGED used

\* The inverse of the last write.  A deleted record goes back into the first
\* free slot, which need not be its own; the bound Capacity keeps one free (the
\* program would add a page).
UndoWrite(o) ==
    LET w == Last(txn[o].write_set) IN
    \/ /\ w.wtype = "insert"
       /\ used' = used \ {w.rid}
       /\ UNCHANGED data
    \/ /\ w.wtype = "delete"
       /\ used # Slots
       /\ used' = used \cup {FirstFree}
       /\ WriteSlot(FirstFree, w.record)
    \/ /\ w.wtype = "update"
       /\ WriteSlot(w.rid, w.record)
       /\ UNCHANGED used

Undo(t) ==
    /\ pc[t] = "undo"
    /\ txn[ctx[t]].write_set # <<>>
    /\ UndoWrite(ctx[t])
    /\ txn' = [txn EXCEPT ![ctx[t]].write_set = Front(@)]
    /\ UNCHANGED <<txn_map, next_txn_id_, client>>

EndAbort(t) ==
    /\ pc[t] = "undo"
    /\ txn[ctx[t]].write_set = <<>>
    /\ EndAs(ctx[t], "ABORTED")
    /\ pc' = [pc EXCEPT ![t] = "idle"]
    /\ UNCHANGED <<table, txn_map, next_txn_id_, txn_id, ctx, todo>>

-----------------------------------------------------------------------------

Step(t) ==
    \/ Statement(t)
    \/ BeginStatement(t)
    \/ CommitStatement(t)
    \/ AbortStatement(t)
    \/ AssertFails(t)
    \/ Register(t)
    \/ EndStatement(t)
    \/ Throw(t)
    \/ \E v \in Values : Insert(t, v) \/ Update(t, v)
    \/ Select(t)
    \/ \E op \in WTypes, rids \in SUBSET Slots : Collect(t, op, rids)
    \/ Delete(t)
    \/ Undo(t)
    \/ EndAbort(t)

Next == \E t \in Threads : Step(t)

Spec == Init /\ [][Next]_vars

-----------------------------------------------------------------------------
(* Properties                                                              *)

\* A statement works in a transaction that its own thread began and that is
\* not over, whatever other threads begin, commit or abort meanwhile.
StatementsRunInLiveTransaction ==
    \A t \in Threads :
        pc[t] \in {"run", "delete", "update", "done"} =>
            txn[ctx[t]].thread = t /\ Running(ctx[t])

\* The write set of a transaction that is over is empty: it is never undone a
\* second time, also when abort or commit is called again.
NothingToUndoOnceOver ==
    \A o \in DOMAIN txn : ~Running(o) => txn[o].write_set = <<>>

\* Abort has undone all writes of t's transaction.
Undone(t) == pc[t] = "undo" /\ Running(ctx[t]) /\ txn[ctx[t]].write_set = <<>>

NumberOf(v, U, d) == Cardinality({r \in U : d[r] = v})

\* When abort has undone all writes, the table holds the records it held when
\* the transaction began, in whatever slots.
AbortRestoresRecords ==
    \A t \in Threads : Undone(t) =>
        \A v \in Values : NumberOf(v, used, data)
                            = NumberOf(v, txn[ctx[t]].before.used, txn[ctx[t]].before.data)

\* No other client has begun a transaction; with others, whose writes nothing
\* keeps apart from t's, abort promises nothing.
IsOnlyClient(t) == \A o \in DOMAIN txn : txn[o].thread = t

\* Without deletions the undo is exact: every record is back under its own rid
\* with its own value, and no other slot is in use, however often the
\* transaction updated what it or an earlier one had inserted.
AbortRestoresTable ==
    \A t \in Threads : Undone(t) /\ IsOnlyClient(t) /\ ~txn[ctx[t]].deletes =>
        /\ used = txn[ctx[t]].before.used
        /\ \A r \in used : data[r] = txn[ctx[t]].before.data[r]

\* With deletions, whose undo may go to other slots, the table has as many
\* records as it had when the transaction began.
AbortRestoresCount ==
    \A t \in Threads : Undone(t) /\ IsOnlyClient(t) =>
        Cardinality(used) = Cardinality(txn[ctx[t]].before.used)

\* The transaction GetTransaction finds under a client's id is the client's.
TransactionIsOwn == \A t \in Threads : pc[t] # "gone"

=============================================================================
