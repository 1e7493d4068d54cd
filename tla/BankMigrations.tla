--------------------------- MODULE BankMigrations ---------------------------
(***************************************************************************)
(* The migration runner of the bank (internal/bank_migrations): processes  *)
(* that call Up or Down on one database, over and over.                    *)
(*                                                                         *)
(* A call connects, makes sure that __db_migrations exists, reads the      *)
(* highest applied version once, and then runs one transaction for each    *)
(* migration between there and its target.  It returns at the first error. *)
(*                                                                         *)
(* A migration's transaction creates or drops its table and inserts or     *)
(* deletes its row.  PostgreSQL (external) locks both until the end, so    *)
(* the transactions of one version take effect one after the other: each   *)
(* is one action.  Everything may fail at any time, which also stands for  *)
(* a process that is killed: its open transaction is rolled back.          *)
(*                                                                         *)
(* overlapped is a history variable: no action reads it.                   *)
(***************************************************************************)
EXTENDS Integers, FiniteSets

CONSTANTS
    Process,        \* processes that run migrations
    LastVersion,    \* len(Migrations); the versions are 1 .. LastVersion
    References,     \* the tables that a version's table REFERENCES
    Target          \* the target versions that Up and Down are called with

Version == 1..LastVersion

ASSUME MigrationsAssumption ==
    /\ LastVersion \in Nat
    /\ References \in [Version -> SUBSET Version]
    /\ Target \subseteq Nat /\ Target # {}

VARIABLES
    versionTable,   \* __db_migrations exists
    applied,        \* its rows
    tables,         \* the tables that exist, by the version that creates them
    pc,             \* where each process is
    call,           \* the call it makes: Up or Down, and the target
    next,           \* the version its loop handles next
    outcome,        \* what its last call returned
    overlapped      \* an Up and a Down have changed the database side by side

vars == <<versionTable, applied, tables, pc, call, next, outcome, overlapped>>

Call == [op : {"Up", "Down"}, target : Target]

TypeOK ==
    /\ versionTable \in BOOLEAN
    /\ applied \subseteq Version
    /\ tables \subseteq Version
    /\ pc \in [Process -> {"idle", "ensure", "getMax", "loop"}]
    /\ call \in [Process -> Call]
    /\ next \in [Process -> 0..LastVersion + 1]
    /\ outcome \in [Process -> {"none", "nil", "error"}]
    /\ overlapped \in BOOLEAN

(* What call holds before a process has made one: no action reads it.        *)
NoCall == CHOOSE c \in Call : TRUE

Init ==
    /\ versionTable = FALSE
    /\ applied = {}
    /\ tables = {}
    /\ pc = [p \in Process |-> "idle"]
    /\ call = [p \in Process |-> NoCall]
    /\ next = [p \in Process |-> 0]
    /\ outcome = [p \in Process |-> "none"]
    /\ overlapped = FALSE

-----------------------------------------------------------------------------

Return(p, result) ==
    /\ pc' = [pc EXCEPT ![p] = "idle"]
    /\ outcome' = [outcome EXCEPT ![p] = result]

(* pgx.Connect.                                                              *)
Start(p, c) ==
    /\ pc[p] = "idle"
    /\ pc' = [pc EXCEPT ![p] = "ensure"]
    /\ call' = [call EXCEPT ![p] = c]
    /\ outcome' = [outcome EXCEPT ![p] = "none"]
    /\ UNCHANGED <<versionTable, applied, tables, next, overlapped>>

ensureVersionTable(p) ==
    /\ pc[p] = "ensure"
    /\ pc' = [pc EXCEPT ![p] = "getMax"]
    /\ versionTable' = TRUE
    /\ UNCHANGED <<applied, tables, call, next, outcome, overlapped>>

(* Mutant: -1 stands for no rows.                                            *)
MaxApplied_MinusOne ==
    IF applied = {} THEN -1 ELSE CHOOSE v \in applied : \A w \in applied : w <= v

(* The highest applied version, 0 if there are no rows.                      *)
MaxApplied ==
    IF applied = {} THEN 0 ELSE CHOOSE v \in applied : \A w \in applied : w <= v

(* Where the loop begins: Up skips the versions up to the highest applied    *)
(* one, Down the versions above it.                                          *)
getMaxAppliedVersion(p) ==
    /\ pc[p] = "getMax"
    /\ pc' = [pc EXCEPT ![p] = "loop"]
    /\ next' = [next EXCEPT ![p] =
                   IF call[p].op = "Up" THEN MaxApplied + 1 ELSE MaxApplied]
    /\ UNCHANGED <<versionTable, applied, tables, call, outcome, overlapped>>

(* Mutant: Up stops before its target.                                       *)
LoopEnds_BeforeTarget(p) ==
    \/ next[p] \notin Version
    \/ call[p].op = "Up" /\ next[p] >= call[p].target
    \/ call[p].op = "Down" /\ next[p] < call[p].target

(* The loop runs out of migrations or breaks at the target; Down undoes the  *)
(* target version too.                                                       *)
LoopEnds(p) ==
    \/ next[p] \notin Version
    \/ call[p].op = "Up" /\ next[p] > call[p].target
    \/ call[p].op = "Down" /\ next[p] < call[p].target

Finish(p) ==
    /\ pc[p] = "loop"
    /\ LoopEnds(p)
    /\ Return(p, "nil")
    /\ UNCHANGED <<versionTable, applied, tables, call, next, overlapped>>

(* A transaction of p commits while a call of the other kind is in its loop. *)
NoteOverlap(p) ==
    overlapped' = (overlapped \/ \E q \in Process :
                       pc[q] = "loop" /\ call[q].op # call[p].op)

(* CREATE TABLE and INSERT can succeed; a table may refer to itself.         *)
CanApply(v) ==
    v \notin tables /\ References[v] \ {v} \subseteq tables /\ v \notin applied

(* DROP TABLE can succeed; a DELETE of no rows is not an error.              *)
CanRevert(v) == v \in tables /\ \A w \in tables \ {v} : v \notin References[w]

Up(p) ==
    LET v == next[p]
    IN  /\ pc[p] = "loop"
        /\ call[p].op = "Up"
        /\ ~ LoopEnds(p)
        /\ CanApply(v)
        /\ tables' = tables \cup {v}
        /\ applied' = applied \cup {v}
        /\ next' = [next EXCEPT ![p] = v + 1]
        /\ NoteOverlap(p)
        /\ UNCHANGED <<versionTable, pc, call, outcome>>

(* Mutant: the row is not deleted.                                           *)
Down_KeepsRow(p) ==
    LET v == next[p]
    IN  /\ pc[p] = "loop"
        /\ call[p].op = "Down"
        /\ ~ LoopEnds(p)
        /\ CanRevert(v)
        /\ tables' = tables \ {v}
        /\ next' = [next EXCEPT ![p] = v - 1]
        /\ NoteOverlap(p)
        /\ UNCHANGED <<versionTable, applied, pc, call, outcome>>

Down(p) ==
    LET v == next[p]
    IN  /\ pc[p] = "loop"
        /\ call[p].op = "Down"
        /\ ~ LoopEnds(p)
        /\ CanRevert(v)
        /\ tables' = tables \ {v}
        /\ applied' = applied \ {v}
        /\ next' = [next EXCEPT ![p] = v - 1]
        /\ NoteOverlap(p)
        /\ UNCHANGED <<versionTable, pc, call, outcome>>

(* Mutant: the loop goes on with the next migration after an error.          *)
Fail_GoesOn(p) ==
    /\ pc[p] = "loop"
    /\ ~ LoopEnds(p)
    /\ next' = [next EXCEPT ![p] = IF call[p].op = "Up" THEN @ + 1 ELSE @ - 1]
    /\ UNCHANGED <<versionTable, applied, tables, pc, call, outcome, overlapped>>

(* A statement cannot succeed, the connection is lost or the process is      *)
(* killed: what is not committed is rolled back and the call is over.        *)
Fail(p) ==
    /\ pc[p] # "idle"
    /\ pc[p] = "loop" => ~ LoopEnds(p)
    /\ Return(p, "error")
    /\ UNCHANGED <<versionTable, applied, tables, call, next, overlapped>>

Next ==
    \E p \in Process :
        \/ \E c \in Call : Start(p, c)
        \/ ensureVersionTable(p)
        \/ getMaxAppliedVersion(p)
        \/ Up(p)
        \/ Down(p)
        \/ Finish(p)
        \/ Fail(p)

Spec == Init /\ [][Next]_vars

-----------------------------------------------------------------------------
(* Properties.                                                               *)

(* __db_migrations tells the truth: a version has a row exactly while its    *)
(* table exists, through failures at every statement, killed processes and   *)
(* any number of concurrent calls (runner.go:86, one transaction for both).  *)
AppliedMatchesTables == applied = tables

(* The applied versions have no gap, which later calls of Up would never     *)
(* fill (runner.go:82): concurrent and interrupted Ups, or Downs, cannot     *)
(* leave one.  Only an Up and a Down that overlap can.                       *)
GapNeedsOverlap ==
    overlapped \/ \A v \in applied : 1..v \subseteq applied

(* A call that returns nil has done its work: after Up every version up to   *)
(* the target is applied, after Down none from the target on, unless an Up   *)
(* and a Down overlap.                                                       *)
NilMeansDone ==
    [][\A p \in Process :
        outcome'[p] = "nil" /\ outcome[p] # "nil" /\ ~ overlapped' =>
            \A v \in Version :
                /\ call[p].op = "Up" /\ v <= call[p].target => v \in applied'
                /\ call[p].op = "Down" /\ v >= call[p].target => v \notin applied'
      ]_vars

=============================================================================
