----------------------------- MODULE ChangeLog ------------------------------
(***************************************************************************)
(* The database change log of internal/dbchangelog: a table of changes     *)
(* that row triggers fill, which the bank's tests print.                   *)
(*                                                                         *)
(* Setup runs its three statements next to transactions that write the     *)
(* tables.  A trigger runs in the transaction that fires it, so its entry  *)
(* is committed or rolled back with the change it describes.               *)
(*                                                                         *)
(* PostgreSQL (external) is modelled from how the repository uses it:      *)
(* READ COMMITTED with row locks until the end of the transaction; the     *)
(* creation of a trigger locks its table against writers until Setup's     *)
(* third statement ends; a clock that advances between two entries.  A     *)
(* deadlock or a failure is a Rollback or a SetupFails, at any time.       *)
(***************************************************************************)
EXTENDS Integers, Sequences, SequencesExt, FiniteSets, TLC

CONSTANTS
    Table,          \* the tables, without the change log itself
    Key,            \* primary keys
    Value,          \* what a row holds besides its key
    Tx,             \* the transactions, one per connection
    FirstTxID,      \* the first transaction ID
    MaxWrites,      \* bound: statements of all transactions together
    MaxSetups,      \* bound: how often Setup is called
    None            \* no row, no lock holder, no transaction ID

ASSUME ChangeLogAssumption ==
    /\ FirstTxID \in Nat /\ MaxWrites \in Nat /\ MaxSetups \in Nat
    /\ None \notin Value \cup Tx

Row == Table \X Key

VARIABLES
    exists,     \* tables that have been created
    rows,       \* committed content of each row
    log,        \* committed entries of the change log table
    objects,    \* what Setup has created: "table", "function"
    logged,     \* tables with the trigger
    setup,      \* how far a call of Setup is
    setups,     \* calls of Setup so far
    looped,     \* tables that the loop of Setup has done and locked
    toLoop,     \* tables that it has not reached yet
    ended,      \* transactions that have committed or rolled back
    txid,       \* the TXID_CURRENT of each, once it has written
    nextTxID,   \* the next transaction ID
    view,       \* the rows as it sees them, where it has written
    entries,    \* the entries of its triggers
    writes,     \* how many statements have run
    rowLock,    \* the transaction that has locked each row
    clock,      \* CLOCK_TIMESTAMP, which only triggers read
    base        \* history: the rows of each table when it got its trigger

tables    == <<exists, rows, log>>
setupVars == <<objects, logged, setup, setups, looped, toLoop, base>>
txVars    == <<ended, txid, nextTxID, view, entries, writes, rowLock, clock>>
vars      == <<tables, setupVars, txVars>>

Operation == {"INSERT", "UPDATE", "DELETE"}

(* An entry.  old and new hold what diffs does for an UPDATE; None for the   *)
(* NULL of the other operations.                                             *)
Entry ==
    [table : Table, operation : Operation, pk : Key, rowData : Value,
     old : Value \cup {None}, new : Value \cup {None},
     txid : Nat, changedAt : Nat]

TypeOK ==
    /\ exists \subseteq Table
    /\ rows \in [Row -> Value \cup {None}]
    /\ log \subseteq Entry
    /\ objects \subseteq {"table", "function"}
    /\ logged \subseteq exists
    /\ setup \in {"idle", "table", "function", "triggers", "loop"}
    /\ setups \in 0..MaxSetups
    /\ looped \subseteq exists
    /\ toLoop \subseteq exists \ looped
    /\ ended \subseteq Tx
    /\ txid \in [Tx -> Nat \cup {None}]
    /\ nextTxID \in Nat
    /\ \A x \in Tx : /\ DOMAIN view[x] \subseteq Row
                     /\ view[x] \in [DOMAIN view[x] -> Value \cup {None}]
                     /\ entries[x] \subseteq Entry
    /\ writes \in 0..MaxWrites
    /\ rowLock \in [Row -> Tx \cup {None}]
    /\ clock \in Nat
    /\ DOMAIN base \subseteq exists
    /\ base \in [DOMAIN base -> [Key -> Value \cup {None}]]

Init ==
    /\ exists = {}
    /\ rows = [r \in Row |-> None]
    /\ log = {}
    /\ objects = {}
    /\ logged = {}
    /\ setup = "idle"
    /\ setups = 0
    /\ looped = {}
    /\ toLoop = {}
    /\ ended = {}
    /\ txid = [x \in Tx |-> None]
    /\ nextTxID = FirstTxID
    /\ view = [x \in Tx |-> <<>>]
    /\ entries = [x \in Tx |-> {}]
    /\ writes = 0
    /\ rowLock = [r \in Row |-> None]
    /\ clock = 0
    /\ base = <<>>

-----------------------------------------------------------------------------
(* The trigger function.                                                     *)

(* Mutant: the row snapshot of a DELETE is the new row, too.                *)
src_AlwaysNew(op, old, new) == new

(* The row snapshot.                                                         *)
src(op, old, new) == IF op = "DELETE" THEN old ELSE new

(* The entry that the trigger inserts.  A column is in diffs if it differs.  *)
Trigger(row, op, old, new, id, now) ==
    LET differs == op = "UPDATE" /\ old # new
    IN  [table |-> row[1], operation |-> op, pk |-> row[2],
         rowData |-> src(op, old, new),
         old |-> IF differs THEN old ELSE None,
         new |-> IF differs THEN new ELSE None,
         txid |-> id, changedAt |-> now]

(* AFTER INSERT OR UPDATE OR DELETE, for each row.                           *)
Fires(table, op) == table \in logged /\ op \in Operation

-----------------------------------------------------------------------------
(* Transactions that write the tables.                                       *)

Open(x) == x \notin ended

(* f where it has a value, else g: f @@ g of TLC, which provers cannot open. *)
Over(f, g) ==
    [r \in DOMAIN f \cup DOMAIN g |-> IF r \in DOMAIN f THEN f[r] ELSE g[r]]

Sees(x, row) == IF row \in DOMAIN view[x] THEN view[x][row] ELSE rows[row]

(* x changes a row, but not its key: v = None deletes it.  The row, and the  *)
(* table against Setup, stay locked until the end of x.  A statement whose   *)
(* trigger lacks its function or the log table fails, which is a Rollback.   *)
Write(x, row, v) ==
    LET old == Sees(x, row)
        op  == CASE old = None -> "INSERT" [] v = None -> "DELETE" [] OTHER -> "UPDATE"
        id  == IF txid[x] = None THEN nextTxID ELSE txid[x]
        fired == Fires(row[1], op)
    IN  /\ Open(x)
        /\ writes < MaxWrites
        /\ row[1] \in exists \ looped
        /\ rowLock[row] \in {None, x}
        /\ old # None \/ v # None
        /\ fired => objects = {"table", "function"}
        /\ txid' = [txid EXCEPT ![x] = id]
        /\ nextTxID' = IF id = nextTxID THEN nextTxID + 1 ELSE nextTxID
        /\ view' = [view EXCEPT ![x] = Over([r \in {row} |-> v], @)]
        /\ entries' = [entries EXCEPT ![x] = @ \cup
               (IF fired THEN {Trigger(row, op, old, v, id, clock)} ELSE {})]
        /\ writes' = writes + 1
        /\ rowLock' = [rowLock EXCEPT ![row] = x]
        /\ clock' = IF fired THEN clock + 1 ELSE clock
        /\ UNCHANGED <<tables, setupVars, ended>>

(* The end of x gives up its locks and forgets what it alone could see.      *)
End(x) ==
    /\ ended' = ended \cup {x}
    /\ txid' = [txid EXCEPT ![x] = None]
    /\ view' = [view EXCEPT ![x] = <<>>]
    /\ entries' = [entries EXCEPT ![x] = {}]
    /\ rowLock' = [r \in Row |-> IF rowLock[r] = x THEN None ELSE rowLock[r]]
    /\ UNCHANGED <<exists, setupVars, nextTxID, writes, clock>>

Commit(x) ==
    /\ Open(x)
    /\ rows' = Over(view[x], rows)
    /\ log' = log \cup entries[x]
    /\ End(x)

(* A rollback, a failed statement, or the victim of a deadlock.              *)
Rollback(x) ==
    /\ Open(x)
    /\ End(x)
    /\ UNCHANGED <<rows, log>>

(* A migration creates a table.                                              *)
CreateTable(t) ==
    /\ t \notin exists
    /\ exists' = exists \cup {t}
    /\ UNCHANGED <<rows, log, setupVars, txVars>>

-----------------------------------------------------------------------------
(* Setup.                                                                    *)

SetupStarts ==
    /\ setup = "idle"
    /\ setups < MaxSetups
    /\ setups' = setups + 1
    /\ setup' = "table"
    /\ UNCHANGED <<tables, objects, logged, looped, toLoop, base, txVars>>

CreateLogTable ==
    /\ setup = "table"
    /\ objects' = objects \cup {"table"}
    /\ setup' = "function"
    /\ UNCHANGED <<tables, logged, setups, looped, toLoop, base, txVars>>

CreateTriggerFunc ==
    /\ setup = "function"
    /\ objects' = objects \cup {"function"}
    /\ setup' = "triggers"
    /\ UNCHANGED <<tables, logged, setups, looped, toLoop, base, txVars>>

(* The third statement begins: its loop runs over the tables there are.      *)
CreateTriggers ==
    /\ setup = "triggers"
    /\ toLoop' = exists
    /\ setup' = "loop"
    /\ UNCHANGED <<tables, objects, logged, setups, looped, base, txVars>>

WritersOf(t) == {x \in Tx : Open(x) /\ \E row \in DOMAIN view[x] : row[1] = t}

(* Mutant: the old trigger is dropped in a transaction of its own.           *)
CreateTrigger_DropsFirst(t) ==
    /\ setup = "loop"
    /\ t \in toLoop
    /\ WritersOf(t) = {}
    /\ IF t \in logged
       THEN logged' = logged \ {t} /\ UNCHANGED <<looped, toLoop>>
       ELSE /\ looped' = looped \cup {t}
            /\ toLoop' = toLoop \ {t}
            /\ UNCHANGED logged
    /\ UNCHANGED <<tables, objects, setup, setups, base, txVars>>

(* One round of the loop drops and creates a trigger, which waits for the    *)
(* writers of the table and locks it; the order of the tables is open.       *)
CreateTrigger(t) ==
    /\ setup = "loop"
    /\ t \in toLoop
    /\ WritersOf(t) = {}
    /\ looped' = looped \cup {t}
    /\ toLoop' = toLoop \ {t}
    /\ UNCHANGED <<tables, objects, logged, setup, setups, base, txVars>>

(* The end of the third statement commits all triggers.                      *)
SetupReturns ==
    /\ setup = "loop"
    /\ toLoop = {}
    /\ logged' = logged \cup looped
    /\ base' = Over(base, [t \in looped |-> [k \in Key |-> rows[<<t, k>>]]])
    /\ looped' = {}
    /\ setup' = "idle"
    /\ UNCHANGED <<tables, objects, setups, toLoop, txVars>>

(* Mutant: Setup goes on although the first statement has failed; to create  *)
(* the function and the triggers PostgreSQL does not need the log table.     *)
SetupFails_GoesOn ==
    /\ setup # "idle"
    /\ setup' = IF setup = "table" THEN "function" ELSE "idle"
    /\ looped' = {}
    /\ toLoop' = {}
    /\ UNCHANGED <<tables, objects, logged, setups, base, txVars>>

(* A statement fails: Setup returns its error, the statement leaves nothing. *)
SetupFails ==
    /\ setup # "idle"
    /\ setup' = "idle"
    /\ looped' = {}
    /\ toLoop' = {}
    /\ UNCHANGED <<tables, objects, logged, setups, base, txVars>>

-----------------------------------------------------------------------------

Next ==
    \/ \E x \in Tx, row \in Row, v \in Value \cup {None} : Write(x, row, v)
    \/ \E x \in Tx : Commit(x)
    \/ \E x \in Tx : Rollback(x)
    \/ \E t \in Table : CreateTable(t)
    \/ SetupStarts
    \/ CreateLogTable
    \/ CreateTriggerFunc
    \/ CreateTriggers
    \/ \E t \in Table : CreateTrigger(t)
    \/ SetupReturns
    \/ SetupFails

Spec == Init /\ [][Next]_vars

-----------------------------------------------------------------------------
(* Reading the log.                                                          *)

(* GetLogs: entries of the named tables in no particular order.              *)
GetLogs(names) == {e \in log : e.table \in names}

digits[n \in Nat] == IF n < 10 THEN <<n>> ELSE Append(digits[n \div 10], n % 10)

(* The order of the strings "Tx 9" and "Tx 10": digit by digit, not by value. *)
(* Where they first differ, a ends or has the smaller digit.                 *)
KeyBefore(a, b) ==
    LET d == digits[a]
        e == digits[b]
    IN  \E i \in DOMAIN e : /\ \A j \in 1..i - 1 : j \in DOMAIN d /\ d[j] = e[j]
                            /\ i \in DOMAIN d => d[i] < e[i]

Earlier(a, b) == a.changedAt < b.changedAt

(* The elements of S in the order that less gives them, if it is total: the  *)
(* n-th has n - 1 before it.                                                 *)
Sorted(S, less(_, _)) ==
    [n \in 1..Cardinality(S) |->
        CHOOSE i \in S : Cardinality({j \in S : less(j, i)}) = n - 1]

(* The entries by time.  No two have the same, so that it does not matter    *)
(* that sort.Slice may swap equal ones.                                      *)
ByTime(found) ==
    LET order == Sorted(DOMAIN found, LAMBDA i, j : Earlier(found[i], found[j]))
    IN  [n \in DOMAIN order |-> found[order[n]]]

(* Those of one transaction, in the order of the sequence.                   *)
Group(sorted, id) ==
    LET own == Sorted({i \in DOMAIN sorted : sorted[i].txid = id}, <)
    IN  [n \in DOMAIN own |-> sorted[own[n]]]

(* Mutant: the entries are not sorted before they are grouped.               *)
ToAsciiTreeString_Unsorted(found) ==
    LET keys == Sorted({found[i].txid : i \in DOMAIN found}, KeyBefore)
        Show(id, group) == [txid |-> id, at |-> group[1].changedAt, changes |-> group]
    IN  [k \in DOMAIN keys |-> Show(keys[k], Group(found, keys[k]))]

(* The groups that are printed: the changes of each transaction in the order *)
(* of their time, under the time of the first.                               *)
ToAsciiTreeString(found) ==
    LET sorted == ByTime(found)
        keys == Sorted({found[i].txid : i \in DOMAIN found}, KeyBefore)
        Show(id, group) == [txid |-> id, at |-> group[1].changedAt, changes |-> group]
    IN  [k \in DOMAIN keys |-> Show(keys[k], Group(sorted, keys[k]))]

-----------------------------------------------------------------------------
(* Properties.                                                               *)

Before(e) ==
    CASE e.operation = "INSERT"                  -> None
      [] e.operation = "UPDATE" /\ e.old # None -> e.old
      [] OTHER                                   -> e.rowData

After(e) == IF e.operation = "DELETE" THEN None ELSE e.rowData

EntriesOf(history, row) == {e \in history : <<e.table, e.pk>> = row}

(* Replayed in the order of changed_at, a row's history leaves value.        *)
Leaves(history, start, value) ==
    \/ history = {} /\ value = start
    \/ \E last \in history : /\ \A e \in history \ {last} : Earlier(e, last)
                            /\ value = After(last)

(* The same, and every entry fits what the ones before it leave.             *)
Explains(history, start, value) ==
    /\ \A e \in history : Leaves({f \in history : Earlier(f, e)}, start, Before(e))
    /\ Leaves(history, start, value)

(* The log is the history of every table with a trigger: replayed from what  *)
(* the table held when it got the trigger, in the order of changed_at, every *)
(* entry fits what the one before it left, and the last leaves the row as it *)
(* is.  No change of a concurrent transaction is missing or out of order,    *)
(* none that was rolled back appears, and a Setup that is called again, or   *)
(* fails, leaves no gap.                                                     *)
LogReplays ==
    \A t \in DOMAIN base, k \in Key :
        Explains(EntriesOf(log, <<t, k>>), base[t][k], rows[<<t, k>>])

(* Setup never harms the program it watches: a table has a trigger only if   *)
(* the function and the log table are there, so that no statement fails for  *)
(* the sake of the log, although a Setup may fail at any of its statements   *)
(* (lines 170 to 188) and is called again next to running transactions.      *)
TriggersWork == logged # {} => objects = {"table", "function"}

(* A group has every change of its transaction once, in the order of time,  *)
(* under the time of the earliest.                                           *)
ShowsChanges(group, found) ==
    LET own == {e \in found : e.txid = group.txid}
        changes == group.changes
    IN  /\ ToSet(changes) = own
        /\ \A i \in 1..Len(changes) - 1 : Earlier(changes[i], changes[i + 1])
        /\ group.at \in {e.changedAt : e \in own}
        /\ \A e \in own : group.at <= e.changedAt

(* ToAsciiTreeString shows the same tree in whatever order GetLogs returns   *)
(* the rows, which has no ORDER BY: one group per transaction, sorted by the *)
(* text of their IDs, in it every change of that transaction once, in the    *)
(* order of time.                                                            *)
TreeShowsTransactions ==
    \A names \in SUBSET Table :
        LET found == GetLogs(names)
            ids == {e.txid : e \in found}
            tree == ToAsciiTreeString(SetToSeq(found))
        IN  /\ \A order \in SetToSeqs(found) : ToAsciiTreeString(order) = tree
            /\ {tree[k].txid : k \in DOMAIN tree} = ids
            /\ Len(tree) = Cardinality(ids)
            /\ \A k \in DOMAIN tree : ShowsChanges(tree[k], found)
            /\ \A k \in 1..Len(tree) - 1 :
                   KeyBefore(tree[k].txid, tree[k + 1].txid)

=============================================================================
