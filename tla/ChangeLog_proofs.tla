-------------------------- MODULE ChangeLog_proofs ---------------------------
(***************************************************************************)
(* Theorems about ChangeLog, for any tables, rows, transactions and calls  *)
(* of Setup: the log is the history of the tables, and the tree that is    *)
(* printed shows it right.                                                 *)
(***************************************************************************)
EXTENDS ChangeLog, FiniteSetTheorems, NaturalsInduction, TLAPS

-----------------------------------------------------------------------------
(* The inductive invariant.                                                  *)

(* view and entries have a value for every transaction.                      *)
MapsInv ==
    /\ view = [x \in Tx |-> view[x]]
    /\ entries = [x \in Tx |-> entries[x]]
    /\ base = [t \in DOMAIN base |-> base[t]]

(* The locks of Setup's loop last as long as the loop.                       *)
SetupInv ==
    /\ logged = DOMAIN base
    /\ setup # "loop" => looped = {} /\ toLoop = {}

(* What x has written it has locked, and no table that Setup has locked.     *)
WriterInv(x) ==
    /\ \A row \in DOMAIN view[x] : rowLock[row] = x /\ row[1] \in exists \ looped
    /\ x \in ended => DOMAIN view[x] = {} /\ entries[x] = {}

(* The entries of x are of rows it has written, later than the row's history *)
(* so far, and that history with them explains what x sees.                  *)
EntriesInv(x) ==
    /\ \A e \in entries[x] :
           /\ <<e.table, e.pk>> \in DOMAIN view[x]
           /\ e.table \in logged
           /\ e.changedAt < clock
           /\ \A f \in EntriesOf(log, <<e.table, e.pk>>) : Earlier(f, e)
    /\ \A row \in DOMAIN view[x] : row[1] \in logged =>
           Explains(EntriesOf(entries[x], row), rows[row], view[x][row])

LogInv == \A e \in log : e.table \in logged /\ e.changedAt < clock

ReplayInv ==
    /\ TypeOK
    /\ MapsInv
    /\ SetupInv
    /\ \A x \in Tx : WriterInv(x) /\ EntriesInv(x)
    /\ LogInv
    /\ LogReplays

-----------------------------------------------------------------------------
(* Histories.                                                                *)

Timed(history) == \A e \in history : e.changedAt \in Nat

LEMMA NothingExplains ==
    ASSUME NEW v
    PROVE  Explains({}, v, v)
  BY DEF Explains, Leaves

LEMMA EntryExplains ==
    ASSUME NEW e, e.changedAt \in Nat
    PROVE  Explains({e}, Before(e), After(e))
  <1>1. {f \in {e} : Earlier(f, e)} = {}
    BY DEF Earlier
  <1> QED
    BY <1>1 DEF Explains, Leaves

(* A history that goes on from where an earlier one stopped.                 *)
LEMMA LeavesUnion ==
    ASSUME NEW H, NEW G, NEW s, NEW u, NEW v, Leaves(H, s, u), Leaves(G, u, v),
           \A f \in H, e \in G : Earlier(f, e)
    PROVE  Leaves(H \cup G, s, v)
  <1>1. CASE G = {}
    <2>1. H \cup G = H /\ v = u
      BY <1>1 DEF Leaves
    <2> QED
      BY <2>1
  <1>2. CASE G # {}
    <2>1. PICK last \in G : (\A e \in G \ {last} : Earlier(e, last)) /\ v = After(last)
      BY <1>2 DEF Leaves
    <2>2. \A e \in (H \cup G) \ {last} : Earlier(e, last)
      BY <2>1
    <2> QED
      BY <2>1, <2>2 DEF Leaves
  <1> QED
    BY <1>1, <1>2

LEMMA ExplainsUnion ==
    ASSUME NEW H, NEW G, NEW s, NEW u, NEW v, Explains(H, s, u), Explains(G, u, v),
           Timed(H), Timed(G), \A f \in H, e \in G : Earlier(f, e)
    PROVE  Explains(H \cup G, s, v)
  <1>1. Leaves(H \cup G, s, v)
    BY LeavesUnion DEF Explains
  <1>2. ASSUME NEW e \in H
        PROVE  Leaves({f \in H \cup G : Earlier(f, e)}, s, Before(e))
    <2>1. \A f \in G : ~ Earlier(f, e)
      <3>1. ASSUME NEW f \in G PROVE ~ Earlier(f, e)
        <4>1. Earlier(e, f) /\ e.changedAt \in Nat /\ f.changedAt \in Nat
          BY DEF Timed
        <4> QED
          BY <4>1 DEF Earlier
      <3> QED
        BY <3>1
    <2>2. {f \in H \cup G : Earlier(f, e)} = {f \in H : Earlier(f, e)}
      BY <2>1
    <2> QED
      BY <2>2 DEF Explains
  <1>3. ASSUME NEW e \in G
        PROVE  Leaves({f \in H \cup G : Earlier(f, e)}, s, Before(e))
    <2> DEFINE P == {f \in G : Earlier(f, e)}
    <2>1. {f \in H \cup G : Earlier(f, e)} = H \cup P
      OBVIOUS
    <2>2. Leaves(H, s, u) /\ Leaves(P, u, Before(e))
      BY DEF Explains
    <2>3. \A f \in H, g \in P : Earlier(f, g)
      OBVIOUS
    <2> HIDE DEF P
    <2>4. Leaves(H \cup P, s, Before(e))
      BY <2>2, <2>3, LeavesUnion
    <2> QED
      BY <2>1, <2>4
  <1> QED
    BY <1>1, <1>2, <1>3 DEF Explains

(* The operation of a change, as PostgreSQL tells it to the trigger.         *)
OpOf(old, new) ==
    CASE old = None -> "INSERT" [] new = None -> "DELETE" [] OTHER -> "UPDATE"

(* The entry of a change tells what was there before and what is there       *)
(* after, although an UPDATE that changes nothing has no diffs.              *)
LEMMA TriggerTells ==
    ASSUME NEW row \in Row, NEW old \in Value \cup {None}, NEW new \in Value \cup {None},
           old # None \/ new # None, NEW id \in Nat, NEW now \in Nat
    PROVE  LET e == Trigger(row, OpOf(old, new), old, new, id, now)
           IN  /\ e \in Entry
               /\ <<e.table, e.pk>> = row
               /\ e.table = row[1]
               /\ e.changedAt = now
               /\ Before(e) = old
               /\ After(e) = new
  <1> DEFINE e == Trigger(row, OpOf(old, new), old, new, id, now)
  <1>1. None \notin Value
    BY ChangeLogAssumption
  <1>2. row = <<row[1], row[2]>> /\ row[1] \in Table /\ row[2] \in Key
    BY DEF Row
  <1>3. CASE old = None
    BY <1>1, <1>2, <1>3 DEF Trigger, OpOf, src, Entry, Operation, Before, After
  <1>4. CASE old # None /\ new = None
    BY <1>1, <1>2, <1>4 DEF Trigger, OpOf, src, Entry, Operation, Before, After
  <1>5. CASE old # None /\ new # None
    BY <1>1, <1>2, <1>5 DEF Trigger, OpOf, src, Entry, Operation, Before, After
  <1> QED
    BY <1>3, <1>4, <1>5

-----------------------------------------------------------------------------
(* Setup.                                                                    *)

LEMMA InitReplays == Init => ReplayInv
  <1> SUFFICES ASSUME Init PROVE ReplayInv
    OBVIOUS
  <1> USE DEF Init
  <1>1. TypeOK
    <2>1. \A x \in Tx : view[x] = <<>> /\ entries[x] = {}
      OBVIOUS
    <2>2. DOMAIN <<>> = {} /\ <<>> \in [{} -> Value \cup {None}]
      OBVIOUS
    <2>3. base \in [DOMAIN base -> [Key -> Value \cup {None}]] /\ DOMAIN base = {}
      OBVIOUS
    <2> QED
      BY <2>1, <2>2, <2>3, ChangeLogAssumption DEF TypeOK
  <1>2. DOMAIN base = {}
    OBVIOUS
  <1>3. MapsInv
    <2>1. <<>> = [t \in {} |-> base[t]]
      OBVIOUS
    <2> QED
      BY <1>2, <2>1 DEF MapsInv
  <1>4. \A x \in Tx : DOMAIN view[x] = {} /\ entries[x] = {}
    OBVIOUS
  <1>5. \A x \in Tx : WriterInv(x) /\ EntriesInv(x)
    BY <1>4 DEF WriterInv, EntriesInv
  <1>6. SetupInv /\ LogInv /\ LogReplays
    BY <1>2 DEF SetupInv, LogInv, LogReplays
  <1> QED
    BY <1>1, <1>3, <1>5, <1>6 DEF ReplayInv

(* A step of Setup that installs no trigger, and locks no table that a       *)
(* transaction has written.                                                  *)
LEMMA SetupStep ==
    ASSUME ReplayInv, UNCHANGED <<tables, logged, base, txVars>>, TypeOK', SetupInv',
           \A x \in Tx : \A row \in DOMAIN view[x] : row[1] \notin looped'
    PROVE  ReplayInv'
  <1> USE DEF ReplayInv
  <1>0. /\ UNCHANGED <<exists, rows, log, logged, base, ended, view, entries>>
        /\ UNCHANGED <<rowLock, clock>>
    BY DEF tables, txVars
  <1>1. MapsInv' /\ LogInv' /\ LogReplays'
    BY <1>0 DEF MapsInv, LogInv, LogReplays
  <1>2. ASSUME NEW x \in Tx PROVE WriterInv(x)' /\ EntriesInv(x)'
    <2>1. WriterInv(x)'
      BY <1>0 DEF WriterInv
    <2>2. EntriesInv(x)'
      BY <1>0 DEF EntriesInv
    <2> QED
      BY <2>1, <2>2
  <1> QED
    BY <1>1, <1>2

LEMMA SetupStartsKeeps == ReplayInv /\ SetupStarts => ReplayInv'
  <1> SUFFICES ASSUME ReplayInv, SetupStarts PROVE ReplayInv'
    OBVIOUS
  <1>1. TypeOK'
    BY ChangeLogAssumption DEF ReplayInv, SetupStarts, TypeOK, tables, txVars
  <1>2. SetupInv' /\ looped' = {}
    BY DEF ReplayInv, SetupStarts, SetupInv
  <1> QED
    BY <1>1, <1>2, SetupStep DEF SetupStarts

LEMMA CreateLogTableKeeps == ReplayInv /\ CreateLogTable => ReplayInv'
  <1> SUFFICES ASSUME ReplayInv, CreateLogTable PROVE ReplayInv'
    OBVIOUS
  <1>1. TypeOK'
    BY DEF ReplayInv, CreateLogTable, TypeOK, tables, txVars
  <1>2. SetupInv' /\ looped' = {}
    BY DEF ReplayInv, CreateLogTable, SetupInv
  <1> QED
    BY <1>1, <1>2, SetupStep DEF CreateLogTable

LEMMA CreateTriggerFuncKeeps == ReplayInv /\ CreateTriggerFunc => ReplayInv'
  <1> SUFFICES ASSUME ReplayInv, CreateTriggerFunc PROVE ReplayInv'
    OBVIOUS
  <1>1. TypeOK'
    BY DEF ReplayInv, CreateTriggerFunc, TypeOK, tables, txVars
  <1>2. SetupInv' /\ looped' = {}
    BY DEF ReplayInv, CreateTriggerFunc, SetupInv
  <1> QED
    BY <1>1, <1>2, SetupStep DEF CreateTriggerFunc

LEMMA CreateTriggersKeeps == ReplayInv /\ CreateTriggers => ReplayInv'
  <1> SUFFICES ASSUME ReplayInv, CreateTriggers PROVE ReplayInv'
    OBVIOUS
  <1>1. SetupInv' /\ looped' = {} /\ looped = {}
    BY DEF ReplayInv, CreateTriggers, SetupInv
  <1>2. TypeOK'
    BY <1>1 DEF ReplayInv, CreateTriggers, TypeOK, tables, txVars
  <1> QED
    BY <1>1, <1>2, SetupStep DEF CreateTriggers

LEMMA CreateTriggerKeeps ==
    ASSUME NEW t \in Table, ReplayInv, CreateTrigger(t)
    PROVE  ReplayInv'
  <1>1. SetupInv'
    BY DEF ReplayInv, CreateTrigger, SetupInv
  <1>2. TypeOK'
    BY DEF ReplayInv, CreateTrigger, TypeOK, tables, txVars
  <1>3. ASSUME NEW x \in Tx, NEW row \in DOMAIN view[x] PROVE row[1] \notin looped'
    <2>1. row[1] # t
      BY DEF CreateTrigger, WritersOf, Open, ReplayInv, WriterInv
    <2> QED
      BY <2>1 DEF CreateTrigger, ReplayInv, WriterInv
  <1> QED
    BY <1>1, <1>2, <1>3, SetupStep DEF CreateTrigger

LEMMA SetupFailsKeeps == ReplayInv /\ SetupFails => ReplayInv'
  <1> SUFFICES ASSUME ReplayInv, SetupFails PROVE ReplayInv'
    OBVIOUS
  <1>1. TypeOK'
    BY DEF ReplayInv, SetupFails, TypeOK, tables, txVars
  <1>2. SetupInv' /\ looped' = {}
    BY DEF ReplayInv, SetupFails, SetupInv
  <1> QED
    BY <1>1, <1>2, SetupStep DEF SetupFails

(* A table that gets its trigger has neither entries nor a writer.           *)
LEMMA SetupReturnsKeeps == ReplayInv /\ SetupReturns => ReplayInv'
  <1> SUFFICES ASSUME ReplayInv, SetupReturns PROVE ReplayInv'
    OBVIOUS
  <1> DEFINE now == [t \in looped |-> [k \in Key |-> rows[<<t, k>>]]]
  <1>0. /\ UNCHANGED <<exists, rows, log, ended, txid, nextTxID, view, entries>>
        /\ UNCHANGED <<writes, rowLock, clock, objects, setups, toLoop>>
        /\ logged' = logged \cup looped /\ looped' = {} /\ toLoop = {}
        /\ setup' = "idle" /\ base' = Over(base, now)
    BY DEF SetupReturns, tables, txVars
  <1>1. /\ DOMAIN base' = DOMAIN base \cup looped
        /\ base' = [t \in DOMAIN base' |-> base'[t]]
        /\ \A t \in DOMAIN base : base'[t] = base[t]
        /\ \A t \in looped \ DOMAIN base : base'[t] = [k \in Key |-> rows[<<t, k>>]]
    <2>1. base' = [t \in DOMAIN base \cup looped |->
                      IF t \in DOMAIN base THEN base[t] ELSE now[t]]
      BY <1>0 DEF Over
    <2> QED
      BY <2>1
  <1>2. logged = DOMAIN base /\ looped \subseteq exists /\ exists \subseteq Table
    BY DEF ReplayInv, TypeOK, SetupInv
  <1>3. ASSUME NEW t \in DOMAIN base' PROVE base'[t] \in [Key -> Value \cup {None}]
    <2>1. CASE t \in DOMAIN base
      BY <1>1, <2>1 DEF ReplayInv, TypeOK
    <2>2. CASE t \in looped \ DOMAIN base
      <3>1. \A k \in Key : rows[<<t, k>>] \in Value \cup {None}
        BY <1>2, <2>2 DEF ReplayInv, TypeOK, Row
      <3> QED
        BY <1>1, <2>2, <3>1
    <2> QED
      BY <1>1, <2>1, <2>2
  <1>4. base' \in [DOMAIN base' -> [Key -> Value \cup {None}]] /\ DOMAIN base' \subseteq exists'
    <2>1. DOMAIN base \subseteq exists
      BY DEF ReplayInv, TypeOK
    <2> HIDE DEF now
    <2> QED
      BY <1>0, <1>1, <1>2, <1>3, <2>1
  <1> HIDE DEF now
  <1>5. TypeOK'
    BY <1>0, <1>2, <1>4 DEF ReplayInv, TypeOK
  <1>6. MapsInv' /\ SetupInv'
    BY <1>0, <1>1 DEF ReplayInv, MapsInv, SetupInv
  <1>7. ASSUME NEW x \in Tx PROVE WriterInv(x)' /\ EntriesInv(x)'
    <2>1. WriterInv(x) /\ EntriesInv(x)
      BY DEF ReplayInv
    <2>2. \A row \in DOMAIN view[x] : row[1] \in logged' => row[1] \in logged
      BY <1>0, <2>1 DEF WriterInv
    <2>3. WriterInv(x)'
      BY <1>0, <2>1 DEF WriterInv
    <2>4. EntriesInv(x)'
      BY <1>0, <2>1, <2>2 DEF EntriesInv
    <2> QED
      BY <2>3, <2>4
  <1>8. LogInv'
    BY <1>0 DEF ReplayInv, LogInv
  <1>9. ASSUME NEW t \in DOMAIN base', NEW k \in Key
        PROVE  Explains(EntriesOf(log, <<t, k>>), base'[t][k], rows[<<t, k>>])
    <2>1. CASE t \in DOMAIN base
      BY <1>1, <2>1 DEF ReplayInv, LogReplays
    <2>2. CASE t \in looped \ DOMAIN base
      <3>1. EntriesOf(log, <<t, k>>) = {}
        BY <1>2, <2>2 DEF ReplayInv, LogInv, EntriesOf
      <3>2. base'[t][k] = rows[<<t, k>>]
        BY <1>1, <2>2
      <3> QED
        BY <3>1, <3>2, NothingExplains
    <2> QED
      BY <1>1, <2>1, <2>2
  <1>10. LogReplays'
    BY <1>0, <1>9 DEF LogReplays
  <1> QED
    BY <1>5, <1>6, <1>7, <1>8, <1>10 DEF ReplayInv

LEMMA CreateTableKeeps ==
    ASSUME NEW t \in Table, ReplayInv, CreateTable(t)
    PROVE  ReplayInv'
  <1>0. /\ UNCHANGED <<rows, log, setupVars, txVars>>
        /\ UNCHANGED <<rows, log, objects, logged, setup, setups, looped, toLoop, base>>
        /\ UNCHANGED <<ended, txid, nextTxID, view, entries, writes, rowLock, clock>>
        /\ exists' = exists \cup {t}
    BY DEF CreateTable, setupVars, txVars
  <1>1. TypeOK'
    BY <1>0 DEF ReplayInv, TypeOK
  <1>2. MapsInv' /\ SetupInv' /\ LogInv' /\ LogReplays'
    BY <1>0 DEF ReplayInv, MapsInv, SetupInv, LogInv, LogReplays
  <1>3. ASSUME NEW x \in Tx PROVE WriterInv(x)' /\ EntriesInv(x)'
    <2>1. WriterInv(x) /\ EntriesInv(x)
      BY DEF ReplayInv
    <2>2. WriterInv(x)'
      BY <1>0, <2>1 DEF WriterInv
    <2>3. EntriesInv(x)'
      BY <1>0, <2>1 DEF EntriesInv
    <2> QED
      BY <2>2, <2>3
  <1> QED
    BY <1>1, <1>2, <1>3 DEF ReplayInv

-----------------------------------------------------------------------------
(* The end of a transaction.                                                 *)

(* What a transaction leaves to the others.                                  *)
LEMMA EndLeaves ==
    ASSUME ReplayInv, NEW x \in Tx, End(x)
    PROVE  /\ UNCHANGED <<exists, objects, logged, setup, setups, looped, toLoop, base>>
           /\ UNCHANGED <<nextTxID, writes, clock>>
           /\ ended' = ended \cup {x}
           /\ view' = [y \in Tx |-> view'[y]] /\ entries' = [y \in Tx |-> entries'[y]]
           /\ DOMAIN view'[x] = {} /\ entries'[x] = {}
           /\ \A y \in Tx \ {x} : view'[y] = view[y] /\ entries'[y] = entries[y]
           /\ \A r \in Row : rowLock[r] # x => rowLock'[r] = rowLock[r]
  <1>1. view = [y \in Tx |-> view[y]] /\ entries = [y \in Tx |-> entries[y]]
    BY DEF ReplayInv, MapsInv
  <1>2. view' = [view EXCEPT ![x] = <<>>] /\ entries' = [entries EXCEPT ![x] = {}]
    BY DEF End
  <1>3. /\ view' = [y \in Tx |-> view'[y]] /\ entries' = [y \in Tx |-> entries'[y]]
        /\ view'[x] = <<>> /\ entries'[x] = {}
        /\ \A y \in Tx \ {x} : view'[y] = view[y] /\ entries'[y] = entries[y]
    BY <1>1, <1>2
  <1>4. DOMAIN <<>> = {}
    OBVIOUS
  <1> QED
    BY <1>3, <1>4 DEF End, setupVars

LEMMA EndTypes ==
    ASSUME ReplayInv, NEW x \in Tx, End(x),
           rows' \in [Row -> Value \cup {None}], log' \subseteq Entry
    PROVE  TypeOK' /\ MapsInv' /\ SetupInv'
  <1>1. /\ UNCHANGED <<exists, objects, logged, setup, setups, looped, toLoop, base>>
        /\ UNCHANGED <<nextTxID, writes, clock>>
        /\ ended' = ended \cup {x}
        /\ view' = [y \in Tx |-> view'[y]] /\ entries' = [y \in Tx |-> entries'[y]]
        /\ DOMAIN view'[x] = {} /\ entries'[x] = {}
        /\ \A y \in Tx \ {x} : view'[y] = view[y] /\ entries'[y] = entries[y]
    BY EndLeaves
  <1>2. MapsInv' /\ SetupInv'
    BY <1>1 DEF ReplayInv, MapsInv, SetupInv
  <1>3. view'[x] = <<>>
    BY DEF End, ReplayInv, MapsInv
  <1>4. txid' \in [Tx -> Nat \cup {None}] /\ rowLock' \in [Row -> Tx \cup {None}]
    BY DEF End, ReplayInv, TypeOK
  <1>5. ASSUME NEW y \in Tx
        PROVE  /\ DOMAIN view'[y] \subseteq Row
               /\ view'[y] \in [DOMAIN view'[y] -> Value \cup {None}]
               /\ entries'[y] \subseteq Entry
    <2>1. CASE y = x
      <3>1. <<>> \in [{} -> Value \cup {None}] /\ DOMAIN <<>> = {}
        OBVIOUS
      <3> QED
        BY <1>1, <1>3, <2>1, <3>1
    <2>2. CASE y # x
      BY <1>1, <2>2 DEF ReplayInv, TypeOK
    <2> QED
      BY <2>1, <2>2
  <1>6. TypeOK'
    BY <1>1, <1>4, <1>5 DEF ReplayInv, TypeOK
  <1> QED
    BY <1>2, <1>6

LEMMA EndWriters ==
    ASSUME ReplayInv, NEW x \in Tx, End(x)
    PROVE  \A y \in Tx : WriterInv(y)'
  <1>1. /\ UNCHANGED <<exists, looped>>
        /\ ended' = ended \cup {x}
        /\ DOMAIN view'[x] = {} /\ entries'[x] = {}
        /\ \A y \in Tx \ {x} : view'[y] = view[y] /\ entries'[y] = entries[y]
        /\ \A r \in Row : rowLock[r] # x => rowLock'[r] = rowLock[r]
    BY EndLeaves
  <1>2. ASSUME NEW y \in Tx PROVE WriterInv(y)'
    <2>1. CASE y = x
      BY <1>1, <2>1 DEF WriterInv
    <2>2. CASE y # x
      <3>1. WriterInv(y) /\ DOMAIN view[y] \subseteq Row
        BY DEF ReplayInv, TypeOK
      <3> QED
        BY <1>1, <2>2, <3>1 DEF WriterInv
    <2> QED
      BY <2>1, <2>2
  <1> QED
    BY <1>2

LEMMA RollbackKeeps ==
    ASSUME ReplayInv, NEW x \in Tx, Rollback(x)
    PROVE  ReplayInv'
  <1>0. End(x) /\ UNCHANGED <<rows, log>>
    BY DEF Rollback
  <1>1. /\ UNCHANGED <<logged, base, clock>>
        /\ DOMAIN view'[x] = {} /\ entries'[x] = {}
        /\ \A y \in Tx \ {x} : view'[y] = view[y] /\ entries'[y] = entries[y]
    BY <1>0, EndLeaves
  <1>2. TypeOK' /\ MapsInv' /\ SetupInv'
    BY <1>0, EndTypes DEF ReplayInv, TypeOK
  <1>3. LogInv' /\ LogReplays'
    BY <1>0, <1>1 DEF ReplayInv, LogInv, LogReplays
  <1>4. ASSUME NEW y \in Tx PROVE EntriesInv(y)'
    <2>1. CASE y = x
      BY <1>1, <2>1 DEF EntriesInv
    <2>2. CASE y # x
      BY <1>0, <1>1, <2>2 DEF ReplayInv, EntriesInv
    <2> QED
      BY <2>1, <2>2
  <1> QED
    BY <1>0, <1>2, <1>3, <1>4, EndWriters DEF ReplayInv

(* Row locks keep two transactions from writing one row.                     *)
LEMMA WritersApart ==
    ASSUME ReplayInv, NEW x \in Tx, NEW y \in Tx \ {x}, NEW row \in DOMAIN view[y]
    PROVE  row \notin DOMAIN view[x]
  BY DEF ReplayInv, WriterInv

(* The entries of x join the history of the rows that x has written.         *)
LEMMA CommitKeeps ==
    ASSUME ReplayInv, NEW x \in Tx, Commit(x)
    PROVE  ReplayInv'
  <1>0. End(x) /\ rows' = Over(view[x], rows) /\ log' = log \cup entries[x]
    BY DEF Commit
  <1>1. /\ UNCHANGED <<logged, base, clock>>
        /\ DOMAIN view'[x] = {} /\ entries'[x] = {}
        /\ \A y \in Tx \ {x} : view'[y] = view[y] /\ entries'[y] = entries[y]
    BY <1>0, EndLeaves
  <1>2. TypeOK /\ WriterInv(x) /\ EntriesInv(x)
    BY DEF ReplayInv
  <1>3. /\ rows' \in [Row -> Value \cup {None}]
        /\ \A row \in DOMAIN view[x] : rows'[row] = view[x][row]
        /\ \A row \in Row \ DOMAIN view[x] : rows'[row] = rows[row]
    <2>1. /\ rows \in [Row -> Value \cup {None}] /\ DOMAIN view[x] \subseteq Row
          /\ view[x] \in [DOMAIN view[x] -> Value \cup {None}]
      BY <1>2 DEF TypeOK
    <2>2. rows' = [r \in DOMAIN view[x] \cup Row |->
                      IF r \in DOMAIN view[x] THEN view[x][r] ELSE rows[r]]
      BY <1>0, <2>1 DEF Over
    <2> QED
      BY <2>1, <2>2
  <1>4. TypeOK' /\ MapsInv' /\ SetupInv'
    <2>1. log' \subseteq Entry
      BY <1>0, <1>2 DEF TypeOK
    <2> QED
      BY <1>0, <1>3, <2>1, EndTypes
  <1>5. ASSUME NEW row, row \notin DOMAIN view[x]
        PROVE  EntriesOf(log', row) = EntriesOf(log, row)
    BY <1>0, <1>2, <1>5 DEF EntriesInv, EntriesOf
  <1>6. LogInv'
    BY <1>0, <1>1, <1>2 DEF ReplayInv, LogInv, EntriesInv
  <1>7. ASSUME NEW y \in Tx PROVE EntriesInv(y)'
    <2>1. CASE y = x
      BY <1>1, <2>1 DEF EntriesInv
    <2>2. CASE y # x
      <3>1. EntriesInv(y) /\ DOMAIN view[y] \subseteq Row
        BY DEF ReplayInv, TypeOK
      <3>2. \A row \in DOMAIN view[y] :
                /\ EntriesOf(log', row) = EntriesOf(log, row)
                /\ rows'[row] = rows[row]
        BY <1>3, <1>5, <2>2, <3>1, WritersApart
      <3>3. \A e \in entries[y] : /\ <<e.table, e.pk>> \in DOMAIN view[y]
                                  /\ e.table \in logged
                                  /\ e.changedAt < clock
        BY <3>1 DEF EntriesInv
      <3>4. \A e \in entries[y] : \A f \in EntriesOf(log', <<e.table, e.pk>>) : Earlier(f, e)
        BY <3>1, <3>2, <3>3 DEF EntriesInv
      <3>5. \A row \in DOMAIN view[y] : row[1] \in logged =>
                Explains(EntriesOf(entries[y], row), rows'[row], view[y][row])
        BY <3>1, <3>2 DEF EntriesInv
      <3> QED
        BY <1>1, <2>2, <3>3, <3>4, <3>5 DEF EntriesInv
    <2> QED
      BY <2>1, <2>2
  <1>8. ASSUME NEW t \in DOMAIN base, NEW k \in Key
        PROVE  Explains(EntriesOf(log', <<t, k>>), base[t][k], rows'[<<t, k>>])
    <2> DEFINE row == <<t, k>>
    <2>1. row \in Row /\ row[1] = t /\ t \in logged
      BY DEF ReplayInv, TypeOK, SetupInv, Row
    <2>2. Explains(EntriesOf(log, row), base[t][k], rows[row])
      BY DEF ReplayInv, LogReplays
    <2>3. CASE row \in DOMAIN view[x]
      <3>1. Explains(EntriesOf(entries[x], row), rows[row], rows'[row])
        BY <1>2, <1>3, <2>1, <2>3 DEF EntriesInv
      <3>2. EntriesOf(log', row) = EntriesOf(log, row) \cup EntriesOf(entries[x], row)
        BY <1>0 DEF EntriesOf
      <3>3. Timed(EntriesOf(log, row)) /\ Timed(EntriesOf(entries[x], row))
        BY <1>2 DEF TypeOK, Entry, Timed, EntriesOf
      <3>4. \A f \in EntriesOf(log, row), e \in EntriesOf(entries[x], row) : Earlier(f, e)
        <4>1. \A e \in EntriesOf(entries[x], row) : e \in entries[x] /\ <<e.table, e.pk>> = row
          BY DEF EntriesOf
        <4> QED
          BY <1>2, <4>1 DEF EntriesInv
      <3> HIDE DEF row
      <3>5. Explains(EntriesOf(log', row), base[t][k], rows'[row])
        BY <2>2, <3>1, <3>2, <3>3, <3>4, ExplainsUnion
      <3> QED
        BY <3>5 DEF row
    <2>4. CASE row \notin DOMAIN view[x]
      BY <1>3, <1>5, <2>1, <2>2, <2>4
    <2> QED
      BY <2>3, <2>4
  <1>9. LogReplays'
    BY <1>1, <1>8 DEF LogReplays
  <1> QED
    BY <1>0, <1>4, <1>6, <1>7, <1>9, EndWriters DEF ReplayInv

-----------------------------------------------------------------------------
(* A statement.                                                              *)

WriteID(x) == IF txid[x] = None THEN nextTxID ELSE txid[x]

(* The entries that the statement's trigger adds.                            *)
Added(x, row, v) ==
    IF row[1] \in logged
    THEN {Trigger(row, OpOf(Sees(x, row), v), Sees(x, row), v, WriteID(x), clock)}
    ELSE {}

TxIDs(x) == [txid EXCEPT ![x] = WriteID(x)]

ViewOf(x, row, v) == [view EXCEPT ![x] = Over([r \in {row} |-> v], view[x])]

EntriesWith(x, row, v) == [entries EXCEPT ![x] = entries[x] \cup Added(x, row, v)]

Locks(x, row) == [rowLock EXCEPT ![row] = x]

LEMMA WriteSets ==
    ASSUME ReplayInv, NEW x \in Tx, NEW row \in Row, NEW v \in Value \cup {None},
           Write(x, row, v)
    PROVE  /\ UNCHANGED <<exists, rows, log, objects, logged, setup, setups, looped, toLoop>>
           /\ UNCHANGED <<base, ended>>
           /\ x \notin ended /\ row[1] \in exists \ looped /\ rowLock[row] \in {None, x}
           /\ Sees(x, row) # None \/ v # None
           /\ txid' = TxIDs(x)
           /\ nextTxID' \in {nextTxID, nextTxID + 1}
           /\ view' = ViewOf(x, row, v) /\ entries' = EntriesWith(x, row, v)
           /\ writes < MaxWrites /\ writes' = writes + 1
           /\ rowLock' = Locks(x, row)
           /\ clock' = IF row[1] \in logged THEN clock + 1 ELSE clock
  <1>1. \A old, new : OpOf(old, new) \in Operation
    BY DEF OpOf, Operation
  <1>2. \A op \in Operation : Fires(row[1], op) <=> row[1] \in logged
    BY DEF Fires
  <1> QED
    BY <1>1, <1>2 DEF Write, Open, tables, setupVars, WriteID, OpOf, Added,
                         TxIDs, ViewOf, EntriesWith, Locks

(* What x sees of the row it writes, and what becomes of its own rows.       *)
LEMMA WriteViews ==
    ASSUME ReplayInv, NEW x \in Tx, NEW row \in Row, NEW v \in Value \cup {None},
           Write(x, row, v)
    PROVE  /\ view' = [y \in Tx |-> view'[y]] /\ entries' = [y \in Tx |-> entries'[y]]
           /\ DOMAIN view'[x] = DOMAIN view[x] \cup {row}
           /\ view'[x] = [r \in DOMAIN view'[x] |-> view'[x][r]]
           /\ view'[x][row] = v
           /\ \A r \in DOMAIN view[x] \ {row} : view'[x][r] = view[x][r]
           /\ entries'[x] = entries[x] \cup Added(x, row, v)
           /\ \A y \in Tx \ {x} : view'[y] = view[y] /\ entries'[y] = entries[y]
  <1> DEFINE mine == [r \in {row} \cup DOMAIN view[x] |->
                         IF r \in {row} THEN v ELSE view[x][r]]
  <1>1. view = [y \in Tx |-> view[y]] /\ entries = [y \in Tx |-> entries[y]]
    BY DEF ReplayInv, MapsInv
  <1>2. Over([r \in {row} |-> v], view[x]) = mine
    BY DEF Over
  <1>3. view' = [view EXCEPT ![x] = mine]
    <2>1. view' = ViewOf(x, row, v)
      BY WriteSets
    <2> QED
      BY <1>2, <2>1 DEF ViewOf
  <1>4. /\ DOMAIN mine = DOMAIN view[x] \cup {row}
        /\ mine = [r \in DOMAIN mine |-> mine[r]]
        /\ mine[row] = v
        /\ \A r \in DOMAIN view[x] \ {row} : mine[r] = view[x][r]
    OBVIOUS
  <1> HIDE DEF mine
  <1>5. view' = [y \in Tx |-> view'[y]] /\ view'[x] = mine
        /\ \A y \in Tx \ {x} : view'[y] = view[y]
    BY <1>1, <1>3
  <1>6. entries' = [entries EXCEPT ![x] = entries[x] \cup Added(x, row, v)]
    <2>1. entries' = EntriesWith(x, row, v)
      BY WriteSets
    <2> QED
      BY <2>1 DEF EntriesWith
  <1>7. /\ entries' = [y \in Tx |-> entries'[y]]
        /\ entries'[x] = entries[x] \cup Added(x, row, v)
        /\ \A y \in Tx \ {x} : entries'[y] = entries[y]
    BY <1>1, <1>6
  <1> QED
    BY <1>4, <1>5, <1>7

LEMMA SeesTyped ==
    ASSUME ReplayInv, NEW x \in Tx, NEW row \in Row
    PROVE  Sees(x, row) \in Value \cup {None}
  BY DEF ReplayInv, TypeOK, Sees

LEMMA SeesExplained ==
    ASSUME ReplayInv, NEW x \in Tx, NEW row \in Row, row[1] \in logged
    PROVE  Explains(EntriesOf(entries[x], row), rows[row], Sees(x, row))
  <1>0. EntriesInv(x)
    BY DEF ReplayInv
  <1>1. CASE row \in DOMAIN view[x]
    BY <1>0, <1>1 DEF EntriesInv, Sees
  <1>2. CASE row \notin DOMAIN view[x]
    <2>1. EntriesOf(entries[x], row) = {}
      BY <1>0, <1>2 DEF EntriesInv, EntriesOf
    <2> QED
      BY <1>2, <2>1, NothingExplains DEF Sees
  <1> QED
    BY <1>1, <1>2

(* What the trigger adds, if there is one.                                   *)
LEMMA AddedEntry ==
    ASSUME ReplayInv, NEW x \in Tx, NEW row \in Row, NEW v \in Value \cup {None},
           Sees(x, row) # None \/ v # None
    PROVE  /\ \A e \in Added(x, row, v) :
                  /\ e \in Entry
                  /\ <<e.table, e.pk>> = row
                  /\ e.table = row[1] /\ row[1] \in logged
                  /\ e.changedAt = clock
           /\ row[1] \in logged => Explains(Added(x, row, v), Sees(x, row), v)
  <1>1. WriteID(x) \in Nat /\ clock \in Nat
    BY DEF ReplayInv, TypeOK, WriteID
  <1>2. Sees(x, row) \in Value \cup {None}
    BY SeesTyped
  <1> DEFINE old == Sees(x, row)
             e == Trigger(row, OpOf(old, v), old, v, WriteID(x), clock)
  <1>3. /\ e \in Entry
        /\ <<e.table, e.pk>> = row
        /\ e.table = row[1]
        /\ e.changedAt = clock
        /\ Before(e) = old
        /\ After(e) = v
    BY <1>1, <1>2, TriggerTells
  <1>4. Added(x, row, v) = IF row[1] \in logged THEN {e} ELSE {}
    BY DEF Added
  <1> HIDE DEF old, e
  <1>5. Explains({e}, old, v)
    BY <1>1, <1>3, EntryExplains
  <1> QED
    BY <1>3, <1>4, <1>5 DEF old

LEMMA WriteTypes ==
    ASSUME ReplayInv, NEW x \in Tx, NEW row \in Row, NEW v \in Value \cup {None},
           Write(x, row, v)
    PROVE  TypeOK' /\ MapsInv' /\ SetupInv'
  <1>0. TypeOK /\ MapsInv /\ SetupInv
    BY DEF ReplayInv
  <1>1. /\ UNCHANGED <<exists, rows, log, objects, logged, setup, setups, looped, toLoop>>
        /\ UNCHANGED <<base, ended>>
        /\ Sees(x, row) # None \/ v # None
        /\ nextTxID' \in {nextTxID, nextTxID + 1}
        /\ writes < MaxWrites /\ writes' = writes + 1
        /\ clock' = IF row[1] \in logged THEN clock + 1 ELSE clock
    BY WriteSets
  <1>2. txid' = TxIDs(x) /\ rowLock' = Locks(x, row)
    BY WriteSets
  <1>3. txid' \in [Tx -> Nat \cup {None}] /\ rowLock' \in [Row -> Tx \cup {None}]
    BY <1>0, <1>2 DEF TypeOK, TxIDs, Locks, WriteID
  <1>4. /\ view' = [y \in Tx |-> view'[y]] /\ entries' = [y \in Tx |-> entries'[y]]
        /\ DOMAIN view'[x] = DOMAIN view[x] \cup {row}
        /\ view'[x] = [r \in DOMAIN view'[x] |-> view'[x][r]]
        /\ view'[x][row] = v
        /\ \A r \in DOMAIN view[x] \ {row} : view'[x][r] = view[x][r]
        /\ entries'[x] = entries[x] \cup Added(x, row, v)
        /\ \A y \in Tx \ {x} : view'[y] = view[y] /\ entries'[y] = entries[y]
    BY WriteViews
  <1>5. ASSUME NEW y \in Tx
        PROVE  /\ DOMAIN view'[y] \subseteq Row
               /\ view'[y] \in [DOMAIN view'[y] -> Value \cup {None}]
               /\ entries'[y] \subseteq Entry
    <2>1. /\ DOMAIN view[y] \subseteq Row
          /\ view[y] \in [DOMAIN view[y] -> Value \cup {None}]
          /\ entries[y] \subseteq Entry
      BY <1>0 DEF TypeOK
    <2>2. CASE y = x
      <3>1. \A r \in DOMAIN view'[x] : view'[x][r] \in Value \cup {None}
        BY <1>4, <2>1, <2>2
      <3>2. Added(x, row, v) \subseteq Entry
        BY <1>1, AddedEntry
      <3> QED
        BY <1>4, <2>1, <2>2, <3>1, <3>2
    <2>3. CASE y # x
      BY <1>4, <2>1, <2>3
    <2> QED
      BY <2>2, <2>3
  <1>6. clock' \in Nat /\ nextTxID' \in Nat /\ writes' \in 0..MaxWrites
    BY <1>0, <1>1, ChangeLogAssumption DEF TypeOK
  <1>7. TypeOK'
    BY <1>0, <1>1, <1>3, <1>5, <1>6 DEF TypeOK
  <1>8. MapsInv' /\ SetupInv'
    BY <1>0, <1>1, <1>4 DEF MapsInv, SetupInv
  <1> QED
    BY <1>7, <1>8

LEMMA WriteWriters ==
    ASSUME ReplayInv, NEW x \in Tx, NEW row \in Row, NEW v \in Value \cup {None},
           Write(x, row, v), NEW y \in Tx
    PROVE  WriterInv(y)'
  <1>0. WriterInv(y) /\ DOMAIN view[y] \subseteq Row
    BY DEF ReplayInv, TypeOK
  <1>1. /\ UNCHANGED <<exists, looped, ended>>
        /\ x \notin ended /\ row[1] \in exists \ looped /\ rowLock[row] \in {None, x}
        /\ rowLock' = Locks(x, row)
    BY WriteSets
  <1>2. rowLock'[row] = x /\ \A r \in Row \ {row} : rowLock'[r] = rowLock[r]
    BY <1>1 DEF ReplayInv, TypeOK, Locks
  <1>3. CASE y = x
    <2>1. DOMAIN view'[x] = DOMAIN view[x] \cup {row}
      BY WriteViews
    <2> QED
      BY <1>0, <1>1, <1>2, <1>3, <2>1 DEF WriterInv
  <1>4. CASE y # x
    <2>1. view'[y] = view[y] /\ entries'[y] = entries[y]
      BY <1>4, WriteViews
    <2>2. row \notin DOMAIN view[y]
      BY <1>0, <1>1, <1>4, ChangeLogAssumption DEF WriterInv
    <2> QED
      BY <1>0, <1>1, <1>2, <2>1, <2>2 DEF WriterInv
  <1> QED
    BY <1>3, <1>4

(* The history of the row that x writes goes on with the trigger's entry.    *)
LEMMA WriteEntries ==
    ASSUME ReplayInv, NEW x \in Tx, NEW row \in Row, NEW v \in Value \cup {None},
           Write(x, row, v), NEW y \in Tx
    PROVE  EntriesInv(y)'
  <1>0. EntriesInv(y) /\ LogInv /\ TypeOK
    BY DEF ReplayInv
  <1>1. /\ UNCHANGED <<rows, log, logged>>
        /\ Sees(x, row) # None \/ v # None
        /\ clock' = IF row[1] \in logged THEN clock + 1 ELSE clock
    BY WriteSets
  <1>2. clock \in Nat /\ clock' \in Nat /\ clock <= clock'
        /\ (row[1] \in logged => clock < clock')
    BY <1>0, <1>1 DEF TypeOK
  <1>3. \A e \in entries[y] : e.changedAt \in Nat /\ e.changedAt < clock'
    <2>1. \A e \in entries[y] : e.changedAt \in Nat /\ e.changedAt < clock
      BY <1>0 DEF TypeOK, EntriesInv, Entry
    <2> QED
      BY <1>2, <2>1
  <1>4. CASE y # x
    <2>1. view'[y] = view[y] /\ entries'[y] = entries[y]
      BY <1>4, WriteViews
    <2> QED
      BY <1>0, <1>1, <1>3, <2>1 DEF EntriesInv
  <1>5. CASE y = x
    <2>1. /\ view' = [z \in Tx |-> view'[z]] /\ entries' = [z \in Tx |-> entries'[z]]
          /\ DOMAIN view'[x] = DOMAIN view[x] \cup {row}
          /\ view'[x] = [r \in DOMAIN view'[x] |-> view'[x][r]]
          /\ view'[x][row] = v
          /\ \A r \in DOMAIN view[x] \ {row} : view'[x][r] = view[x][r]
          /\ entries'[x] = entries[x] \cup Added(x, row, v)
          /\ \A z \in Tx \ {x} : view'[z] = view[z] /\ entries'[z] = entries[z]
      BY WriteViews
    <2>2. \A e \in Added(x, row, v) :
              /\ e \in Entry
              /\ <<e.table, e.pk>> = row
              /\ e.table = row[1] /\ row[1] \in logged
              /\ e.changedAt = clock
      BY <1>1, AddedEntry
    <2>3. ASSUME NEW e \in entries'[x]
          PROVE  /\ <<e.table, e.pk>> \in DOMAIN view'[x]
                 /\ e.table \in logged
                 /\ e.changedAt < clock'
                 /\ \A f \in EntriesOf(log, <<e.table, e.pk>>) : Earlier(f, e)
      <3>1. CASE e \in entries[x]
        BY <1>0, <1>3, <1>5, <2>1, <3>1 DEF EntriesInv
      <3>2. CASE e \in Added(x, row, v)
        <4>1. \A f \in log : f.changedAt < clock
          BY <1>0 DEF LogInv
        <4>2. \A f \in EntriesOf(log, <<e.table, e.pk>>) : Earlier(f, e)
          BY <2>2, <3>2, <4>1 DEF EntriesOf, Earlier
        <4> QED
          BY <1>2, <2>1, <2>2, <3>2, <4>2
      <3> QED
        BY <2>1, <3>1, <3>2
    <2>4. ASSUME NEW r \in DOMAIN view'[x], r[1] \in logged
          PROVE  Explains(EntriesOf(entries'[x], r), rows[r], view'[x][r])
      <3>1. CASE r # row
        <4>1. EntriesOf(entries'[x], r) = EntriesOf(entries[x], r)
          BY <2>1, <2>2, <3>1 DEF EntriesOf
        <4>2. r \in DOMAIN view[x] /\ view'[x][r] = view[x][r]
          BY <2>1, <3>1
        <4> QED
          BY <1>0, <1>5, <2>4, <4>1, <4>2 DEF EntriesInv
      <3>2. CASE r = row
        <4> DEFINE H == EntriesOf(entries[x], row)
                   G == Added(x, row, v)
        <4>1. Explains(H, rows[row], Sees(x, row))
          BY <2>4, <3>2, SeesExplained
        <4>2. Explains(G, Sees(x, row), v)
          BY <1>1, <2>4, <3>2, AddedEntry
        <4>3. EntriesOf(entries'[x], row) = H \cup G
          BY <2>1, <2>2 DEF EntriesOf
        <4>4. \A f \in H : f.changedAt \in Nat /\ f.changedAt < clock
          BY <1>0, <1>3, <1>5 DEF EntriesInv, EntriesOf
        <4>5. \A e \in G : e.changedAt = clock
          BY <2>2
        <4> HIDE DEF H, G
        <4>6. Timed(H) /\ Timed(G) /\ \A f \in H, e \in G : Earlier(f, e)
          BY <1>2, <4>4, <4>5 DEF Timed, Earlier
        <4>7. Explains(H \cup G, rows[row], v)
          BY <4>1, <4>2, <4>6, ExplainsUnion
        <4> QED
          BY <2>1, <3>2, <4>3, <4>7
      <3> QED
        BY <3>1, <3>2
    <2>5. \A e \in entries'[x] :
              /\ <<e.table, e.pk>> \in DOMAIN view'[x]
              /\ e.table \in logged'
              /\ e.changedAt < clock'
              /\ \A f \in EntriesOf(log', <<e.table, e.pk>>) : Earlier(f, e)
      BY <1>1, <2>3
    <2>6. \A r \in DOMAIN view'[x] : r[1] \in logged' =>
              Explains(EntriesOf(entries'[x], r), rows'[r], view'[x][r])
      BY <1>1, <2>4
    <2> QED
      BY <1>5, <2>5, <2>6 DEF EntriesInv
  <1> QED
    BY <1>4, <1>5

LEMMA WriteKeeps ==
    ASSUME ReplayInv, NEW x \in Tx, NEW row \in Row, NEW v \in Value \cup {None},
           Write(x, row, v)
    PROVE  ReplayInv'
  <1>1. TypeOK' /\ MapsInv' /\ SetupInv'
    BY WriteTypes
  <1>2. \A y \in Tx : WriterInv(y)' /\ EntriesInv(y)'
    BY WriteWriters, WriteEntries
  <1>3. /\ UNCHANGED <<rows, log, logged, base>>
        /\ clock' = IF row[1] \in logged THEN clock + 1 ELSE clock
    BY WriteSets
  <1>4. LogInv'
    <2>1. \A e \in log : e.table \in logged /\ e.changedAt < clock /\ e.changedAt \in Nat
      BY DEF ReplayInv, LogInv, TypeOK, Entry
    <2>2. clock \in Nat
      BY DEF ReplayInv, TypeOK
    <2> QED
      BY <1>3, <2>1, <2>2 DEF LogInv
  <1>5. LogReplays'
    BY <1>3 DEF ReplayInv, LogReplays
  <1> QED
    BY <1>1, <1>2, <1>4, <1>5 DEF ReplayInv

-----------------------------------------------------------------------------
(* Theorems.                                                                 *)

LEMMA NextReplays == ReplayInv /\ [Next]_vars => ReplayInv'
  <1> SUFFICES ASSUME ReplayInv, [Next]_vars PROVE ReplayInv'
    OBVIOUS
  <1>1. CASE \E x \in Tx, row \in Row, v \in Value \cup {None} : Write(x, row, v)
    BY <1>1, WriteKeeps
  <1>2. CASE \E x \in Tx : Commit(x)
    BY <1>2, CommitKeeps
  <1>3. CASE \E x \in Tx : Rollback(x)
    BY <1>3, RollbackKeeps
  <1>4. CASE \E t \in Table : CreateTable(t)
    BY <1>4, CreateTableKeeps
  <1>5. CASE SetupStarts
    BY <1>5, SetupStartsKeeps
  <1>6. CASE CreateLogTable
    BY <1>6, CreateLogTableKeeps
  <1>7. CASE CreateTriggerFunc
    BY <1>7, CreateTriggerFuncKeeps
  <1>8. CASE CreateTriggers
    BY <1>8, CreateTriggersKeeps
  <1>9. CASE \E t \in Table : CreateTrigger(t)
    BY <1>9, CreateTriggerKeeps
  <1>10. CASE SetupReturns
    BY <1>10, SetupReturnsKeeps
  <1>11. CASE SetupFails
    BY <1>11, SetupFailsKeeps
  <1>12. CASE UNCHANGED vars
    <2>0. /\ UNCHANGED <<tables, logged, base, txVars>>
          /\ UNCHANGED <<exists, rows, log, objects, logged, setup, setups, looped, toLoop>>
          /\ UNCHANGED <<base, ended, txid, nextTxID, view, entries, writes, rowLock, clock>>
      BY <1>12 DEF vars, tables, setupVars, txVars
    <2>1. TypeOK'
      BY <2>0 DEF ReplayInv, TypeOK
    <2>2. SetupInv'
      BY <2>0 DEF ReplayInv, SetupInv
    <2>3. \A x \in Tx : \A row \in DOMAIN view[x] : row[1] \notin looped'
      BY <2>0 DEF ReplayInv, WriterInv
    <2> QED
      BY <2>0, <2>1, <2>2, <2>3, SetupStep
  <1> QED
    BY <1>1, <1>2, <1>3, <1>4, <1>5, <1>6, <1>7, <1>8, <1>9, <1>10, <1>11, <1>12 DEF Next

LEMMA Replays == Spec => []ReplayInv
  BY InitReplays, NextReplays, PTL DEF Spec

(* Every variable of the change log keeps its type: only tables that exist   *)
(* have a trigger, and Setup's loop never reaches a table twice.             *)
THEOREM TypeCorrect == Spec => []TypeOK
  <1>1. ReplayInv => TypeOK
    BY DEF ReplayInv
  <1> QED
    BY <1>1, Replays, PTL

(* The change log of Setup's triggers is the history of every table that has *)
(* one: with any number of transactions that interleave, commit or roll      *)
(* back, and Setups that fail or run again.                                  *)
THEOREM LogIsHistory == Spec => []LogReplays
  <1>1. ReplayInv => LogReplays
    BY DEF ReplayInv
  <1> QED
    BY <1>1, Replays, PTL

-----------------------------------------------------------------------------
(* What the triggers need.                                                   *)

(* A statement of Setup runs only after those before it have succeeded, and  *)
(* what they have created stays.                                             *)
ObjectsInv ==
    /\ objects \subseteq {"table", "function"}
    /\ setup = "function" => "table" \in objects
    /\ setup \in {"triggers", "loop"} => objects = {"table", "function"}
    /\ TriggersWork

LEMMA NextObjects == ObjectsInv /\ [Next]_vars => ObjectsInv'
  <1> SUFFICES ASSUME ObjectsInv, [Next]_vars PROVE ObjectsInv'
    OBVIOUS
  <1>1. CASE UNCHANGED setupVars
    BY <1>1 DEF ObjectsInv, TriggersWork, setupVars
  <1>2. CASE \E x \in Tx, row \in Row, v \in Value \cup {None} : Write(x, row, v)
    BY <1>1, <1>2 DEF Write
  <1>3. CASE \E x \in Tx : Commit(x) \/ Rollback(x)
    BY <1>1, <1>3 DEF Commit, Rollback, End
  <1>4. CASE \E t \in Table : CreateTable(t)
    BY <1>1, <1>4 DEF CreateTable
  <1>5. CASE SetupStarts
    BY <1>5 DEF SetupStarts, ObjectsInv, TriggersWork
  <1>6. CASE CreateLogTable
    BY <1>6 DEF CreateLogTable, ObjectsInv, TriggersWork
  <1>7. CASE CreateTriggerFunc
    BY <1>7 DEF CreateTriggerFunc, ObjectsInv, TriggersWork
  <1>8. CASE CreateTriggers
    BY <1>8 DEF CreateTriggers, ObjectsInv, TriggersWork
  <1>9. CASE \E t \in Table : CreateTrigger(t)
    BY <1>9 DEF CreateTrigger, ObjectsInv, TriggersWork
  <1>10. CASE SetupReturns
    BY <1>10 DEF SetupReturns, ObjectsInv, TriggersWork
  <1>11. CASE SetupFails
    BY <1>11 DEF SetupFails, ObjectsInv, TriggersWork
  <1>12. CASE UNCHANGED vars
    BY <1>1, <1>12 DEF vars
  <1> QED
    BY <1>2, <1>3, <1>4, <1>5, <1>6, <1>7, <1>8, <1>9, <1>10, <1>11, <1>12 DEF Next

(* A trigger never exists without its function and the log table, however    *)
(* often Setup fails at one of its statements and is called again: no        *)
(* statement of the program fails for the sake of the log.                   *)
THEOREM TriggersNeverFail == Spec => []TriggersWork
  <1>1. Init => ObjectsInv
    BY DEF Init, ObjectsInv, TriggersWork
  <1>2. ObjectsInv => TriggersWork
    BY DEF ObjectsInv
  <1> QED
    BY <1>1, <1>2, NextObjects, PTL DEF Spec

-----------------------------------------------------------------------------
(* Sorting.  A relation is a set of pairs, so that the lemmas need no        *)
(* operator parameter.                                                       *)

IsOrder(S, R) ==
    /\ \A a \in S : <<a, a>> \notin R
    /\ \A a, b \in S : a # b => <<a, b>> \in R \/ <<b, a>> \in R
    /\ \A a, b, c \in S : <<a, b>> \in R /\ <<b, c>> \in R => <<a, c>> \in R

Below(S, R, i) == {j \in S : <<j, i>> \in R}

Rank(S, R, i) == Cardinality(Below(S, R, i))

LEMMA RankType ==
    ASSUME NEW S, IsFiniteSet(S), NEW R, IsOrder(S, R), NEW i \in S
    PROVE  Rank(S, R, i) \in 0..Cardinality(S) - 1
  <1>1. Below(S, R, i) \in SUBSET S /\ i \notin Below(S, R, i)
    BY DEF Below, IsOrder
  <1>2. /\ Cardinality(Below(S, R, i)) \in Nat /\ Cardinality(S) \in Nat
        /\ Cardinality(Below(S, R, i)) <= Cardinality(S)
        /\ Cardinality(S) # Cardinality(Below(S, R, i))
    BY <1>1, FS_Subset, FS_CardinalityType
  <1> QED
    BY <1>2 DEF Rank

LEMMA RankGrows ==
    ASSUME NEW S, IsFiniteSet(S), NEW R, IsOrder(S, R), NEW i \in S, NEW j \in S,
           <<i, j>> \in R
    PROVE  Rank(S, R, i) < Rank(S, R, j)
  <1>1. /\ Below(S, R, i) \in SUBSET Below(S, R, j)
        /\ i \in Below(S, R, j) /\ i \notin Below(S, R, i)
        /\ Below(S, R, j) \in SUBSET S
    BY DEF Below, IsOrder
  <1>2. IsFiniteSet(Below(S, R, j))
    BY <1>1, FS_Subset
  <1>3. /\ Cardinality(Below(S, R, i)) <= Cardinality(Below(S, R, j))
        /\ Cardinality(Below(S, R, j)) # Cardinality(Below(S, R, i))
    BY <1>1, <1>2, FS_Subset
  <1>4. Rank(S, R, i) \in Nat /\ Rank(S, R, j) \in Nat
    BY RankType, FS_CardinalityType
  <1> QED
    BY <1>3, <1>4 DEF Rank

LEMMA RankOrders ==
    ASSUME NEW S, IsFiniteSet(S), NEW R, IsOrder(S, R), NEW i \in S, NEW j \in S
    PROVE  /\ <<i, j>> \in R <=> Rank(S, R, i) < Rank(S, R, j)
           /\ Rank(S, R, i) = Rank(S, R, j) => i = j
  <1>1. Rank(S, R, i) \in Int /\ Rank(S, R, j) \in Int
    BY RankType, FS_CardinalityType
  <1>2. <<i, j>> \in R => Rank(S, R, i) < Rank(S, R, j)
    BY RankGrows
  <1>3. <<j, i>> \in R => Rank(S, R, j) < Rank(S, R, i)
    BY RankGrows
  <1>4. i # j => <<i, j>> \in R \/ <<j, i>> \in R
    BY DEF IsOrder
  <1> QED
    BY <1>1, <1>2, <1>3, <1>4

(* An injection between sets of the same size misses nothing.                *)
LEMMA InjectionCovers ==
    ASSUME NEW S, NEW T, IsFiniteSet(T), Cardinality(S) = Cardinality(T),
           NEW f \in [S -> T], \A a, b \in S : f[a] = f[b] => a = b
    PROVE  \A t \in T : \E s \in S : f[s] = t
  <1>1. f \in Injection(S, T)
    BY DEF Injection, IsInjective
  <1>2. f \in Surjection(S, T)
    BY <1>1, FS_Injection
  <1> QED
    BY <1>2 DEF Surjection

LEMMA RankCovers ==
    ASSUME NEW S, IsFiniteSet(S), NEW R, IsOrder(S, R),
           NEW n \in 0..Cardinality(S) - 1
    PROVE  \E i \in S : Rank(S, R, i) = n
  <1> DEFINE T == 0..Cardinality(S) - 1
             f == [i \in S |-> Rank(S, R, i)]
  <1>1. Cardinality(S) \in Nat
    BY FS_CardinalityType
  <1>2. IsFiniteSet(T) /\ Cardinality(T) = Cardinality(S)
    BY <1>1, FS_Interval
  <1>3. f \in [S -> T]
    BY RankType
  <1>4. ASSUME NEW a \in S, NEW b \in S, f[a] = f[b] PROVE a = b
    <2>1. Rank(S, R, a) = Rank(S, R, b)
      BY <1>4
    <2> QED
      BY <2>1, RankOrders
  <1>5. \A t \in T : \E s \in S : f[s] = t
    <2> HIDE DEF f, T
    <2> QED
      BY <1>2, <1>3, <1>4, InjectionCovers
  <1> QED
    BY <1>5

InRank(S, R) == [n \in 1..Cardinality(S) |-> CHOOSE i \in S : Rank(S, R, i) = n - 1]

(* The sequence by rank has every element once, in order.                    *)
LEMMA InRankSorts ==
    ASSUME NEW S, IsFiniteSet(S), NEW R, IsOrder(S, R)
    PROVE  LET s == InRank(S, R)
           IN  /\ s \in [1..Cardinality(S) -> S]
               /\ \A e \in S : /\ Rank(S, R, e) + 1 \in 1..Cardinality(S)
                               /\ s[Rank(S, R, e) + 1] = e
               /\ \A i, j \in 1..Cardinality(S) : i < j <=> <<s[i], s[j]>> \in R
               /\ \A i, j \in 1..Cardinality(S) : s[i] = s[j] => i = j
  <1> DEFINE s == InRank(S, R)
             C == Cardinality(S)
  <1>1. C \in Nat
    BY FS_CardinalityType
  <1>2. ASSUME NEW n \in 1..C PROVE s[n] \in S /\ Rank(S, R, s[n]) = n - 1
    <2>1. n - 1 \in 0..C - 1
      BY <1>1
    <2>2. \E i \in S : Rank(S, R, i) = n - 1
      BY <2>1, RankCovers
    <2>3. s[n] = CHOOSE i \in S : Rank(S, R, i) = n - 1
      BY DEF InRank
    <2> HIDE DEF s
    <2> QED
      BY <2>2, <2>3
  <1>3. s \in [1..C -> S]
    BY <1>2 DEF InRank
  <1>4. ASSUME NEW e \in S
        PROVE  Rank(S, R, e) + 1 \in 1..C /\ s[Rank(S, R, e) + 1] = e
    <2>1. Rank(S, R, e) \in 0..C - 1
      BY RankType
    <2>2. Rank(S, R, e) + 1 \in 1..C /\ (Rank(S, R, e) + 1) - 1 = Rank(S, R, e)
      BY <1>1, <2>1
    <2> HIDE DEF s
    <2>3. s[Rank(S, R, e) + 1] \in S /\ Rank(S, R, s[Rank(S, R, e) + 1]) = Rank(S, R, e)
      BY <1>2, <2>2
    <2>4. s[Rank(S, R, e) + 1] = e
      BY <2>3, RankOrders
    <2> QED
      BY <2>2, <2>4
  <1> HIDE DEF s
  <1>5. ASSUME NEW i \in 1..C, NEW j \in 1..C
        PROVE  (i < j <=> <<s[i], s[j]>> \in R) /\ (s[i] = s[j] => i = j)
    <2>1. /\ s[i] \in S /\ Rank(S, R, s[i]) = i - 1
          /\ s[j] \in S /\ Rank(S, R, s[j]) = j - 1
      BY <1>2
    <2>2. <<s[i], s[j]>> \in R <=> i - 1 < j - 1
      BY <2>1, RankOrders
    <2>3. s[i] = s[j] => i - 1 = j - 1
      BY <2>1
    <2> QED
      BY <1>1, <2>2, <2>3
  <1> QED
    BY <1>3, <1>4, <1>5 DEF s

-----------------------------------------------------------------------------
(* The entries in the order of time.                                         *)

(* Finitely many entries, no two at the same time.                           *)
Clocked(F) ==
    /\ IsFiniteSet(F)
    /\ \A e \in F : e.changedAt \in Nat /\ e.txid \in Nat
    /\ \A e, f \in F : e.changedAt = f.changedAt => e = f

EarlierIn(F) == {p \in F \X F : Earlier(p[1], p[2])}

LEMMA TimesOrder ==
    ASSUME NEW F, Clocked(F)
    PROVE  IsOrder(F, EarlierIn(F))
  BY DEF Clocked, IsOrder, EarlierIn, Earlier

(* A sequence that GetLogs may return has every entry once.                  *)
LEMMA SeqsCover ==
    ASSUME NEW F, IsFiniteSet(F), NEW order \in SetToSeqs(F)
    PROVE  /\ Cardinality(F) \in Nat
           /\ order \in [1..Cardinality(F) -> F]
           /\ \A i, j \in 1..Cardinality(F) : order[i] = order[j] => i = j
           /\ \A e \in F : \E i \in 1..Cardinality(F) : order[i] = e
  <1> DEFINE D == 1..Cardinality(F)
  <1>1. Cardinality(F) \in Nat
    BY FS_CardinalityType
  <1>2. order \in [D -> F] /\ \A i, j \in D : order[i] = order[j] => i = j
    BY DEF SetToSeqs
  <1>3. Cardinality(D) = Cardinality(F)
    BY <1>1, FS_Interval
  <1> HIDE DEF D
  <1>4. \A e \in F : \E i \in D : order[i] = e
    BY <1>2, <1>3, InjectionCovers
  <1> QED
    BY <1>1, <1>2, <1>4 DEF D

LEMMA SeqIsOne ==
    ASSUME NEW F, IsFiniteSet(F)
    PROVE  SetToSeq(F) \in SetToSeqs(F)
  <1> DEFINE D == 1..Cardinality(F)
  <1>1. \E f \in [D -> F] : IsInjective(f)
    BY FS_CardinalityType DEF ExistsBijection, Bijection, Injection, IsInjective
  <1>2. SetToSeq(F) \in [D -> F] /\ IsInjective(SetToSeq(F))
    BY <1>1 DEF SetToSeq
  <1> QED
    BY <1>2 DEF SetToSeqs, IsInjective

LEMMA ByTimeIs ==
    ASSUME NEW F, Clocked(F), NEW order \in SetToSeqs(F)
    PROVE  ByTime(order) = InRank(F, EarlierIn(F))
  <1> DEFINE C == Cardinality(F)
             D == 1..C
             R == {p \in D \X D : Earlier(order[p[1]], order[p[2]])}
             E == EarlierIn(F)
             o == Sorted(D, LAMBDA i, j : Earlier(order[i], order[j]))
  <1>1. /\ C \in Nat /\ order \in [D -> F]
        /\ \A i, j \in D : order[i] = order[j] => i = j
        /\ \A e \in F : \E i \in D : order[i] = e
    BY SeqsCover DEF Clocked
  <1>2. IsFiniteSet(D) /\ Cardinality(D) = C
    BY <1>1, FS_Interval
  <1>3. IsOrder(D, R)
    <2>1. \A i \in D : order[i] \in F /\ order[i].changedAt \in Nat
      BY <1>1 DEF Clocked
    <2>2. \A i, j \in D : order[i].changedAt = order[j].changedAt => i = j
      BY <1>1, <2>1 DEF Clocked
    <2> HIDE DEF D
    <2> QED
      BY <2>1, <2>2 DEF IsOrder, Earlier
  <1>4. o = InRank(D, R)
    <2>1. \A i \in D : {j \in D : Earlier(order[j], order[i])} = Below(D, R, i)
      BY DEF Below
    <2> DEFINE x(n) == CHOOSE i \in D :
                           Cardinality({j \in D : Earlier(order[j], order[i])}) = n - 1
               y(n) == CHOOSE i \in D : Rank(D, R, i) = n - 1
    <2>2. o = [n \in 1..Cardinality(D) |-> x(n)]
      BY DEF Sorted
    <2>3. InRank(D, R) = [n \in 1..Cardinality(D) |-> y(n)]
      BY DEF InRank
    <2> HIDE DEF o, D, R
    <2>4. \A n : x(n) = y(n)
      BY <2>1 DEF Rank
    <2> HIDE DEF x, y
    <2> QED
      BY <2>2, <2>3, <2>4
  <1>5. ASSUME NEW i \in D PROVE Rank(F, E, order[i]) = Rank(D, R, i)
    <2> DEFINE B == Below(D, R, i)
               G == Below(F, E, order[i])
               f == [j \in B |-> order[j]]
    <2>1. B = {j \in D : Earlier(order[j], order[i])}
      BY DEF Below
    <2>2. G = {e \in F : Earlier(e, order[i])}
      BY <1>1 DEF Below, EarlierIn
    <2>3. f \in Bijection(B, G)
      <3>1. f \in [B -> G]
        BY <1>1, <2>1, <2>2
      <3>2. \A a, b \in B : f[a] = f[b] => a = b
        BY <1>1, <2>1
      <3>3. \A e \in G : \E j \in B : f[j] = e
        BY <1>1, <2>1, <2>2
      <3> QED
        BY <3>1, <3>2, <3>3 DEF Bijection, Injection, Surjection, IsInjective
    <2>4. IsFiniteSet(B)
      BY <1>2, <2>1, FS_Subset
    <2> HIDE DEF B, G, f
    <2>5. Cardinality(G) = Cardinality(B)
      BY <2>3, <2>4, FS_Bijection DEF ExistsBijection
    <2> QED
      BY <2>5 DEF Rank, B, G
  <1>6. ByTime(order) = [n \in DOMAIN o |-> order[o[n]]]
    <2>1. DOMAIN order = D
      BY <1>1
    <2> QED
      BY <2>1 DEF ByTime
  <1> HIDE DEF o, R, E
  <1>7. /\ o \in [D -> D]
        /\ \A n \in D : Rank(D, R, o[n]) = n - 1
    <2>1. /\ o \in [1..Cardinality(D) -> D]
          /\ \A e \in D : o[Rank(D, R, e) + 1] = e
          /\ \A i, j \in 1..Cardinality(D) : o[i] = o[j] => i = j
          /\ \A e \in D : Rank(D, R, e) + 1 \in 1..Cardinality(D)
      <3> HIDE DEF D
      <3> QED
        BY <1>2, <1>3, <1>4, InRankSorts
    <2>2. ASSUME NEW n \in D PROVE Rank(D, R, o[n]) = n - 1
      <3>1. o[n] \in D
        BY <1>2, <2>1
      <3>2. Rank(D, R, o[n]) \in 0..C - 1
        BY <1>2, <1>3, <3>1, RankType
      <3>3. o[Rank(D, R, o[n]) + 1] = o[n] /\ Rank(D, R, o[n]) + 1 \in D
        BY <1>2, <2>1, <3>1
      <3>4. Rank(D, R, o[n]) + 1 = n
        BY <1>2, <2>1, <3>3
      <3> QED
        BY <1>1, <3>2, <3>4
    <2> QED
      BY <1>2, <2>1, <2>2
  <1>8. ASSUME NEW n \in D PROVE order[o[n]] = InRank(F, E)[n]
    <2>1. o[n] \in D /\ order[o[n]] \in F
      BY <1>1, <1>7
    <2>2. Rank(F, E, order[o[n]]) = n - 1
      BY <1>5, <1>7, <2>1
    <2>3. InRank(F, E)[Rank(F, E, order[o[n]]) + 1] = order[o[n]]
      BY <2>1, TimesOrder, InRankSorts DEF Clocked, E
    <2>4. (n - 1) + 1 = n
      BY <1>1
    <2> QED
      BY <2>2, <2>3, <2>4
  <1>9. InRank(F, E) = [n \in D |-> InRank(F, E)[n]]
    BY DEF InRank
  <1> QED
    BY <1>6, <1>7, <1>8, <1>9 DEF E

-----------------------------------------------------------------------------
(* The group of a transaction.                                               *)

LEMMA GroupShows ==
    ASSUME NEW F, Clocked(F), NEW id
    PROVE  LET g   == Group(InRank(F, EarlierIn(F)), id)
               own == {e \in F : e.txid = id}
           IN  /\ Len(g) \in Nat /\ DOMAIN g = 1..Len(g)
               /\ ToSet(g) = own
               /\ \A i, j \in DOMAIN g : i < j => Earlier(g[i], g[j])
  <1> DEFINE E == EarlierIn(F)
             s == InRank(F, E)
             D == 1..Cardinality(F)
             I == {i \in D : s[i].txid = id}
             R == {p \in I \X I : p[1] < p[2]}
             o == Sorted(I, <)
             g == Group(s, id)
             N == 1..Cardinality(I)
  <1>1. Cardinality(F) \in Nat /\ IsFiniteSet(F) /\ IsOrder(F, E)
    BY FS_CardinalityType, TimesOrder DEF Clocked
  <1>2. /\ s \in [D -> F]
        /\ \A e \in F : \E i \in D : s[i] = e
        /\ \A i, j \in D : i < j => Earlier(s[i], s[j])
    <2> HIDE DEF E
    <2>1. /\ s \in [D -> F]
          /\ \A e \in F : Rank(F, E, e) + 1 \in D /\ s[Rank(F, E, e) + 1] = e
          /\ \A i, j \in D : i < j <=> <<s[i], s[j]>> \in E
      BY <1>1, InRankSorts
    <2>2. \A e \in F : \E i \in D : s[i] = e
      BY <2>1
    <2>3. \A i, j \in D : i < j => Earlier(s[i], s[j])
      BY <2>1 DEF E, EarlierIn
    <2> QED
      BY <2>1, <2>2, <2>3
  <1> HIDE DEF s, E
  <1>3. IsFiniteSet(I) /\ Cardinality(I) \in Nat
    <2>1. IsFiniteSet(D) /\ I \in SUBSET D
      BY <1>1, FS_Interval
    <2> HIDE DEF I
    <2> QED
      BY <2>1, FS_Subset, FS_CardinalityType
  <1>4. IsOrder(I, R)
    BY <1>1 DEF IsOrder
  <1>5. o = InRank(I, R)
    <2>1. \A i \in I : {j \in I : j < i} = Below(I, R, i)
      BY DEF Below
    <2> DEFINE x(n) == CHOOSE i \in I : Cardinality({j \in I : j < i}) = n - 1
               y(n) == CHOOSE i \in I : Rank(I, R, i) = n - 1
    <2>2. o = [n \in N |-> x(n)]
      BY DEF Sorted
    <2>3. InRank(I, R) = [n \in N |-> y(n)]
      BY DEF InRank
    <2> HIDE DEF o, I, R
    <2>4. \A n : x(n) = y(n)
      BY <2>1 DEF Rank
    <2> HIDE DEF x, y
    <2> QED
      BY <2>2, <2>3, <2>4
  <1>6. DOMAIN s = D
    BY <1>2
  <1>7. g = [n \in DOMAIN o |-> s[o[n]]]
    BY <1>6 DEF Group
  <1>8. /\ o \in [N -> I]
        /\ \A i \in I : \E n \in N : o[n] = i
        /\ \A m, n \in N : m < n => o[m] < o[n]
    <2> HIDE DEF I, o
    <2>1. /\ o \in [N -> I]
          /\ \A i \in I : Rank(I, R, i) + 1 \in N /\ o[Rank(I, R, i) + 1] = i
          /\ \A m, n \in N : m < n <=> <<o[m], o[n]>> \in R
      <3> HIDE DEF R
      <3> QED
        BY <1>3, <1>4, <1>5, InRankSorts
    <2>2. \A i \in I : \E n \in N : o[n] = i
      BY <2>1
    <2>3. \A m, n \in N : m < n => o[m] < o[n]
      BY <2>1
    <2> QED
      BY <2>1, <2>2, <2>3
  <1> HIDE DEF o, g, R
  <1>9. DOMAIN g = N /\ \A n \in N : g[n] = s[o[n]]
    BY <1>7, <1>8
  <1>10. g \in Seq(F)
    BY <1>2, <1>3, <1>7, <1>8
  <1>11. Len(g) \in Nat /\ DOMAIN g = 1..Len(g)
    BY <1>10
  <1>12. ToSet(g) = {e \in F : e.txid = id}
    <2>1. ASSUME NEW n \in N PROVE g[n] \in {e \in F : e.txid = id}
      BY <1>2, <1>8, <1>9
    <2>2. ASSUME NEW e \in F, e.txid = id PROVE \E n \in N : g[n] = e
      <3>1. PICK i \in D : s[i] = e
        BY <1>2
      <3>2. i \in I
        BY <2>2, <3>1
      <3>3. PICK n \in N : o[n] = i
        BY <1>8, <3>2
      <3> QED
        BY <1>9, <3>1, <3>3
    <2> QED
      BY <1>9, <2>1, <2>2 DEF ToSet
  <1>13. ASSUME NEW m \in N, NEW n \in N, m < n PROVE Earlier(g[m], g[n])
    <2>1. o[m] \in D /\ o[n] \in D /\ o[m] < o[n]
      BY <1>8, <1>13
    <2> QED
      BY <1>2, <1>9, <2>1
  <1> QED
    BY <1>9, <1>11, <1>12, <1>13 DEF g, s, E

-----------------------------------------------------------------------------
(* Numbers and their texts.                                                  *)

(* Induction, as a statement about sets.                                     *)
LEMMA NatSetInduction ==
    ASSUME NEW A, 0 \in A, \A n \in Nat : n \in A => n + 1 \in A
    PROVE  \A n \in Nat : n \in A
  <1> SUFFICES ASSUME \E n \in Nat : n \notin A PROVE FALSE
    OBVIOUS
  <1> DEFINE B == {n \in Nat : n \notin A}
  <1>1. B # {} /\ B \subseteq Nat
    OBVIOUS
  <1>2. PICK v \in B : \A y \in B : ~ (<<y, v>> \in OpToRel(<, Nat))
    BY <1>1, WFMin, NatLessThanWellFounded
  <1>3. v \in Nat /\ v # 0 /\ v - 1 \in Nat /\ v - 1 < v
    OBVIOUS
  <1>4. v - 1 \in B
    <2>1. v - 1 \in A => v \in A
      BY <1>3
    <2> QED
      BY <1>3, <2>1
  <1>5. <<v - 1, v>> \in OpToRel(<, Nat)
    <2>1. OpToRel(<, Nat) = {ss \in Nat \X Nat : ss[1] < ss[2]}
      BY DEF OpToRel
    <2> QED
      BY <1>3, <2>1
  <1> QED
    BY <1>2, <1>4, <1>5

LEMMA NatSetStrongInduction ==
    ASSUME NEW A, \A n \in Nat : (\A m \in 0..n - 1 : m \in A) => n \in A
    PROVE  \A n \in Nat : n \in A
  <1> DEFINE B == {n \in Nat : \A m \in 0..n : m \in A}
  <1>1. 0 \in B
    <2>1. 0 \in A
      <3>1. \A m \in 0..0 - 1 : m \in A
        OBVIOUS
      <3> QED
        BY <3>1
    <2> QED
      BY <2>1
  <1>2. ASSUME NEW n \in Nat, n \in B PROVE n + 1 \in B
    <2>1. \A m \in 0..(n + 1) - 1 : m \in A
      BY <1>2
    <2>2. n + 1 \in A
      BY <2>1
    <2> QED
      BY <1>2, <2>2
  <1> HIDE DEF B
  <1>3. \A n \in Nat : n \in B
    BY <1>1, <1>2, NatSetInduction
  <1> QED
    BY <1>3 DEF B

-----------------------------------------------------------------------------
(* The text of a transaction ID.                                             *)

Text(f, n) == IF n < 10 THEN <<n>> ELSE Append(f[n \div 10], n % 10)

LEMMA Tenth ==
    ASSUME NEW n \in Nat
    PROVE  /\ n \div 10 \in Nat
           /\ n % 10 \in 0..9
           /\ n >= 10 => n \div 10 < n
  OBVIOUS

(* f holds the texts of the numbers up to n.                                 *)
TextsTo(f, n) == f \in [0..n -> Seq(Nat)] /\ \A m \in 0..n : f[m] = Text(f, m)

LEMMA TextsExist ==
    \A n \in Nat : \E f : TextsTo(f, n)
  <1> DEFINE A == {n \in Nat : \E f : TextsTo(f, n)}
  <1>1. 0 \in A
    <2> DEFINE f == [m \in 0..0 |-> <<0>>]
    <2>1. f \in [0..0 -> Seq(Nat)]
      OBVIOUS
    <2>2. \A m \in 0..0 : f[m] = Text(f, m)
      BY DEF Text
    <2> QED
      BY <2>1, <2>2 DEF TextsTo
  <1>2. ASSUME NEW n \in Nat, n \in A PROVE n + 1 \in A
    <2>1. PICK f : TextsTo(f, n)
      BY <1>2
    <2> DEFINE h == [m \in 0..n + 1 |-> IF m = n + 1 THEN Text(f, n + 1) ELSE f[m]]
    <2>2. \A m \in 0..n + 1 : m >= 10 => m \div 10 \in 0..n
      <3>1. ASSUME NEW m \in 0..n + 1, m >= 10 PROVE m \div 10 \in 0..n
        <4>1. m \in Nat /\ m \div 10 \in Nat /\ m \div 10 < m
          BY <3>1, Tenth
        <4> QED
          BY <4>1
      <3> QED
        BY <3>1
    <2>3. f \in [0..n -> Seq(Nat)] /\ \A m \in 0..n : f[m] = Text(f, m)
      BY <2>1 DEF TextsTo
    <2>4. \A m \in 0..n + 1 : Text(h, m) = Text(f, m)
      <3>1. ASSUME NEW m \in 0..n + 1, m >= 10 PROVE h[m \div 10] = f[m \div 10]
        <4>1. m \div 10 \in 0..n
          BY <2>2, <3>1
        <4> QED
          BY <4>1
      <3> HIDE DEF h
      <3> QED
        BY <3>1 DEF Text
    <2>5. Text(f, n + 1) \in Seq(Nat)
      <3>1. CASE n + 1 < 10
        BY <3>1 DEF Text
      <3>2. CASE ~ (n + 1 < 10)
        <4>1. f[(n + 1) \div 10] \in Seq(Nat) /\ (n + 1) % 10 \in Nat
          BY <2>2, <2>3, <3>2, Tenth
        <4> QED
          BY <3>2, <4>1 DEF Text
      <3> QED
        BY <3>1, <3>2
    <2>6. h \in [0..n + 1 -> Seq(Nat)]
      BY <2>3, <2>5
    <2>7. \A m \in 0..n + 1 : h[m] = Text(f, m)
      BY <2>3
    <2> HIDE DEF h
    <2>8. TextsTo(h, n + 1)
      BY <2>4, <2>6, <2>7 DEF TextsTo
    <2> QED
      BY <2>8
  <1> HIDE DEF A
  <1>3. \A n \in Nat : n \in A
    BY <1>1, <1>2, NatSetInduction
  <1> QED
    BY <1>3 DEF A

LEMMA TextsAgree ==
    ASSUME NEW n \in Nat, NEW f, TextsTo(f, n), NEW m \in Nat, NEW g, TextsTo(g, m)
    PROVE  \A k \in Nat : k <= n /\ k <= m => f[k] = g[k]
  <1> DEFINE A == {k \in Nat : k <= n /\ k <= m => f[k] = g[k]}
  <1>1. ASSUME NEW k \in Nat, \A j \in 0..k - 1 : j \in A PROVE k \in A
    <2>1. ASSUME k <= n, k <= m PROVE f[k] = g[k]
      <3>1. f[k] = Text(f, k) /\ g[k] = Text(g, k)
        BY <2>1 DEF TextsTo
      <3>2. CASE k < 10
        BY <3>1, <3>2 DEF Text
      <3>3. CASE ~ (k < 10)
        <4>1. k \div 10 \in 0..k - 1
          BY <3>3, Tenth
        <4>2. f[k \div 10] = g[k \div 10]
          BY <1>1, <2>1, <4>1
        <4> QED
          BY <3>1, <3>3, <4>2 DEF Text
      <3> QED
        BY <3>2, <3>3
    <2> QED
      BY <2>1
  <1> HIDE DEF A
  <1>2. \A k \in Nat : k \in A
    BY <1>1, NatSetStrongInduction
  <1> QED
    BY <1>2 DEF A

(* The recursion that defines digits has a solution.                         *)
LEMMA DigitsAre ==
    /\ digits \in [Nat -> Seq(Nat)]
    /\ \A n \in Nat : digits[n] = Text(digits, n)
  <1> DEFINE T(n) == CHOOSE f : TextsTo(f, n)
             h == [n \in Nat |-> T(n)[n]]
             Rec(f) == f = [n \in Nat |-> Text(f, n)]
  <1>1. ASSUME NEW n \in Nat PROVE TextsTo(T(n), n)
    BY TextsExist
  <1> HIDE DEF T
  <1>2. ASSUME NEW n \in Nat PROVE h[n] = Text(h, n) /\ h[n] \in Seq(Nat)
    <2>1. h[n] = T(n)[n]
      OBVIOUS
    <2>2. T(n)[n] = Text(T(n), n) /\ T(n)[n] \in Seq(Nat)
      <3> DEFINE f == T(n)
      <3>1. TextsTo(f, n)
        BY <1>1
      <3> HIDE DEF f, h
      <3>2. n \in 0..n
        OBVIOUS
      <3>3. f[n] = Text(f, n) /\ f[n] \in Seq(Nat)
        BY <3>1, <3>2 DEF TextsTo
      <3> QED
        BY <3>3 DEF f
    <2>3. n >= 10 => h[n \div 10] = T(n)[n \div 10]
      <3>1. ASSUME n >= 10 PROVE h[n \div 10] = T(n)[n \div 10]
        <4> DEFINE t == n \div 10
        <4>1. t \in Nat /\ t <= n
          BY <3>1, Tenth
        <4>2. h[t] = T(t)[t] /\ TextsTo(T(t), t) /\ TextsTo(T(n), n) /\ t <= t
          BY <1>1, <4>1
        <4> HIDE DEF t, h
        <4>3. T(t)[t] = T(n)[t]
          BY <4>1, <4>2, TextsAgree
        <4> QED
          BY <4>2, <4>3 DEF t
      <3> QED
        BY <3>1
    <2> HIDE DEF h
    <2> QED
      BY <2>1, <2>2, <2>3 DEF Text
  <1>3. Rec(h)
    <2>1. \A n \in Nat : h[n] = Text(h, n)
      BY <1>2
    <2>2. h = [n \in Nat |-> h[n]]
      OBVIOUS
    <2> HIDE DEF h
    <2> QED
      BY <2>1, <2>2
  <1>4. digits = CHOOSE f : Rec(f)
    BY Zenon DEF digits, Text
  <1> HIDE DEF Rec, h
  <1>5. Rec(digits)
    BY <1>3, <1>4
  <1>6. \A n \in Nat : digits[n] = Text(digits, n)
    BY <1>5 DEF Rec
  <1>7. digits = [n \in Nat |-> Text(digits, n)]
    BY <1>5 DEF Rec
  <1> DEFINE A == {n \in Nat : digits[n] \in Seq(Nat)}
  <1>8. ASSUME NEW n \in Nat, \A m \in 0..n - 1 : m \in A PROVE n \in A
    <2>1. CASE n < 10
      <3>1. digits[n] = <<n>>
        BY <1>6, <2>1 DEF Text
      <3>2. <<n>> \in Seq(Nat)
        OBVIOUS
      <3> QED
        BY <3>1, <3>2
    <2>2. CASE ~ (n < 10)
      <3>1. n \div 10 \in 0..n - 1 /\ n % 10 \in Nat
        BY <2>2, Tenth
      <3>2. digits[n \div 10] \in Seq(Nat)
        BY <1>8, <3>1
      <3>3. digits[n] = Append(digits[n \div 10], n % 10)
        BY <1>6, <2>2 DEF Text
      <3>4. Append(digits[n \div 10], n % 10) \in Seq(Nat)
        BY <3>1, <3>2
      <3>5. digits[n] \in Seq(Nat)
        BY <3>3, <3>4
      <3> QED
        BY <3>5
    <2> QED
      BY <2>1, <2>2
  <1> HIDE DEF A
  <1>9. \A n \in Nat : n \in A
    BY <1>8, NatSetStrongInduction
  <1> QED
    BY <1>6, <1>7, <1>9 DEF A

(* Different IDs have different texts.                                       *)
LEMMA DigitsDiffer ==
    ASSUME NEW a \in Nat, NEW b \in Nat, digits[a] = digits[b]
    PROVE  a = b
  <1>1. ASSUME NEW n \in Nat
        PROVE  /\ digits[n] \in Seq(Nat)
               /\ n < 10 => digits[n] = <<n>>
               /\ n >= 10 => digits[n] = Append(digits[n \div 10], n % 10)
    <2>1. digits[n] \in Seq(Nat) /\ digits[n] = Text(digits, n)
      BY DigitsAre
    <2>2. n < 10 => Text(digits, n) = <<n>>
      BY DEF Text
    <2>3. n >= 10 => ~ (n < 10)
      OBVIOUS
    <2>4. n >= 10 => Text(digits, n) = Append(digits[n \div 10], n % 10)
      BY <2>3 DEF Text
    <2> QED
      BY <2>1, <2>2, <2>4
  <1>2. ASSUME NEW n \in Nat PROVE Len(digits[n]) >= 1
    <2>1. CASE n < 10
      <3>1. digits[n] = <<n>>
        BY <1>1, <2>1
      <3> QED
        BY <3>1
    <2>2. CASE n >= 10
      <3>1. digits[n] = Append(digits[n \div 10], n % 10) /\ digits[n \div 10] \in Seq(Nat)
        BY <1>1, <2>2, Tenth
      <3> QED
        BY <3>1
    <2> QED
      BY <2>1, <2>2
  <1>3. ASSUME NEW n \in Nat, n >= 10 PROVE Len(digits[n]) >= 2
    <2>1. /\ digits[n] = Append(digits[n \div 10], n % 10)
          /\ digits[n \div 10] \in Seq(Nat) /\ Len(digits[n \div 10]) >= 1
      BY <1>1, <1>2, <1>3, Tenth
    <2> QED
      BY <2>1
  <1> DEFINE A == {n \in Nat : \A m \in Nat : digits[n] = digits[m] => n = m}
  <1>4. ASSUME NEW n \in Nat, \A k \in 0..n - 1 : k \in A,
               NEW m \in Nat, digits[n] = digits[m]
        PROVE  n = m
    <2>1. CASE n < 10
      <3>1. digits[n] = <<n>>
        BY <1>1, <2>1
      <3>2. Len(digits[m]) = 1
        <4>1. Len(<<n>>) = 1
          OBVIOUS
        <4> QED
          BY <1>4, <3>1, <4>1
      <3>3. m < 10
        <4>1. m >= 10 => Len(digits[m]) >= 2
          BY <1>3
        <4> QED
          BY <3>2, <4>1
      <3>4. digits[m] = <<m>>
        BY <1>1, <3>3
      <3>5. <<n>> = <<m>>
        BY <1>4, <3>1, <3>4
      <3> QED
        BY <3>5
    <2>2. CASE n >= 10
      <3>1. m >= 10
        <4>1. Len(digits[m]) >= 2
          <5>1. Len(digits[n]) >= 2
            BY <1>3, <2>2
          <5> QED
            BY <1>4, <5>1
        <4>2. ASSUME m < 10 PROVE FALSE
          <5>1. digits[m] = <<m>>
            BY <1>1, <4>2
          <5>2. Len(<<m>>) = 1
            OBVIOUS
          <5>3. Len(digits[m]) = 1
            BY <5>1, <5>2
          <5> QED
            BY <4>1, <5>3
        <4> QED
          BY <4>2
      <3> DEFINE x == digits[n \div 10]
                 y == digits[m \div 10]
                 p == n % 10
                 q == m % 10
      <3>2. x \in Seq(Nat) /\ y \in Seq(Nat) /\ p \in Nat /\ q \in Nat
        BY <1>1, Tenth
      <3>3. Append(x, p) = Append(y, q)
        BY <1>1, <1>4, <2>2, <3>1
      <3>4. x = y /\ p = q
        <4> HIDE DEF x, y, p, q
        <4>1. Len(x) = Len(y)
          <5>1. Len(Append(x, p)) = Len(x) + 1 /\ Len(Append(y, q)) = Len(y) + 1
            BY <3>2
          <5> QED
            BY <3>2, <3>3, <5>1
        <4>2. p = q
          <5>1. Append(x, p)[Len(x) + 1] = p /\ Append(y, q)[Len(y) + 1] = q
            BY <3>2
          <5> QED
            BY <3>3, <4>1, <5>1
        <4>3. \A i \in 1..Len(x) : x[i] = y[i]
          <5>1. \A i \in 1..Len(x) : Append(x, p)[i] = x[i]
            BY <3>2
          <5>2. \A i \in 1..Len(y) : Append(y, q)[i] = y[i]
            BY <3>2
          <5> QED
            BY <3>3, <4>1, <5>1, <5>2
        <4>4. x = y
          <5>1. x = [i \in 1..Len(x) |-> x[i]] /\ y = [i \in 1..Len(y) |-> y[i]]
            BY <3>2
          <5> QED
            BY <4>1, <4>3, <5>1
        <4> QED
          BY <4>2, <4>4
      <3>5. n \div 10 \in 0..n - 1 /\ m \div 10 \in Nat
        BY <2>2, Tenth
      <3>6. n \div 10 \in A
        BY <1>4, <3>5
      <3>7. n \div 10 = m \div 10
        BY <3>4, <3>5, <3>6
      <3> QED
        BY <3>4, <3>7
    <2> QED
      BY <2>1, <2>2
  <1>5. ASSUME NEW n \in Nat, \A k \in 0..n - 1 : k \in A PROVE n \in A
    BY <1>4, <1>5
  <1> HIDE DEF A
  <1>6. \A n \in Nat : n \in A
    BY <1>5, NatSetStrongInduction
  <1> QED
    BY <1>6 DEF A

(* The order of texts.                                                       *)
TextBefore(d, e) ==
    \E i \in DOMAIN e : /\ \A j \in 1..i - 1 : j \in DOMAIN d /\ d[j] = e[j]
                        /\ i \in DOMAIN d => d[i] < e[i]

LEMMA TextBeforeTotal ==
    ASSUME NEW d \in Seq(Nat), NEW e \in Seq(Nat), d # e
    PROVE  TextBefore(d, e) \/ TextBefore(e, d)
  <1> DEFINE A == {i \in Nat : i > 0 => i \in DOMAIN d /\ i \in DOMAIN e /\ d[i] = e[i]}
  <1>1. Len(d) \in Nat /\ DOMAIN d = 1..Len(d) /\ Len(e) \in Nat /\ DOMAIN e = 1..Len(e)
    OBVIOUS
  <1>2. Len(d) + 1 \in Nat /\ Len(d) + 1 \notin A
    BY <1>1
  <1>3. PICK n \in Nat : (\A m \in 0..n - 1 : m \in A) /\ n \notin A
    <2> HIDE DEF A
    <2> QED
      BY <1>2, NatSetStrongInduction
  <1>4. n > 0 /\ \A j \in 1..n - 1 : j \in DOMAIN d /\ j \in DOMAIN e /\ d[j] = e[j]
    BY <1>3
  <1>5. CASE n \in DOMAIN d /\ n \in DOMAIN e
    <2>1. d[n] # e[n] /\ d[n] \in Nat /\ e[n] \in Nat
      BY <1>3, <1>5
    <2>2. d[n] < e[n] \/ e[n] < d[n]
      BY <2>1
    <2> QED
      BY <1>4, <1>5, <2>2 DEF TextBefore
  <1>6. CASE n \notin DOMAIN d /\ n \in DOMAIN e
    BY <1>4, <1>6 DEF TextBefore
  <1>7. CASE n \in DOMAIN d /\ n \notin DOMAIN e
    BY <1>4, <1>7 DEF TextBefore
  <1>8. CASE n \notin DOMAIN d /\ n \notin DOMAIN e
    <2>1. Len(d) = n - 1 /\ Len(e) = n - 1
      <3>1. n - 1 \in 1..n - 1 \/ n - 1 = 0
        BY <1>4
      <3> QED
        BY <1>1, <1>4, <1>8, <3>1
    <2>2. \A j \in 1..Len(d) : d[j] = e[j]
      BY <1>4, <2>1
    <2>3. d = e
      BY <2>1, <2>2
    <2> QED
      BY <2>3
  <1> QED
    BY <1>5, <1>6, <1>7, <1>8

LEMMA TextBeforeStrict ==
    ASSUME NEW d \in Seq(Nat)
    PROVE  ~ TextBefore(d, d)
  <1>1. \A i \in DOMAIN d : d[i] \in Nat
    OBVIOUS
  <1> QED
    BY <1>1 DEF TextBefore

LEMMA TextBeforeTransitive ==
    ASSUME NEW d \in Seq(Nat), NEW e \in Seq(Nat), NEW f \in Seq(Nat),
           TextBefore(d, e), TextBefore(e, f)
    PROVE  TextBefore(d, f)
  <1>1. /\ DOMAIN d = 1..Len(d) /\ DOMAIN e = 1..Len(e) /\ DOMAIN f = 1..Len(f)
        /\ Len(d) \in Nat /\ Len(e) \in Nat /\ Len(f) \in Nat
        /\ \A i \in DOMAIN d : d[i] \in Nat
        /\ \A i \in DOMAIN e : e[i] \in Nat
        /\ \A i \in DOMAIN f : f[i] \in Nat
    OBVIOUS
  <1>2. PICK i \in DOMAIN e : /\ \A j \in 1..i - 1 : j \in DOMAIN d /\ d[j] = e[j]
                              /\ i \in DOMAIN d => d[i] < e[i]
    BY DEF TextBefore
  <1>3. PICK k \in DOMAIN f : /\ \A j \in 1..k - 1 : j \in DOMAIN e /\ e[j] = f[j]
                              /\ k \in DOMAIN e => e[k] < f[k]
    BY DEF TextBefore
  <1>4. i \in Nat /\ i >= 1 /\ k \in Nat /\ k >= 1
    BY <1>1
  <1>5. CASE i < k
    <2>1. i \in DOMAIN f /\ i \in 1..k - 1
      BY <1>1, <1>4, <1>5
    <2>2. ASSUME NEW j \in 1..i - 1 PROVE j \in DOMAIN d /\ d[j] = f[j]
      <3>1. j \in 1..k - 1
        BY <1>4, <1>5
      <3> QED
        BY <1>2, <1>3, <3>1
    <2>3. i \in DOMAIN d => d[i] < f[i]
      BY <1>2, <1>3, <2>1
    <2> QED
      BY <2>1, <2>2, <2>3 DEF TextBefore
  <1>6. CASE i = k
    <2>1. \A j \in 1..i - 1 : j \in DOMAIN d /\ d[j] = f[j]
      BY <1>2, <1>3, <1>6
    <2>2. i \in DOMAIN d => d[i] < f[i]
      BY <1>1, <1>2, <1>3, <1>6
    <2> QED
      BY <1>6, <2>1, <2>2 DEF TextBefore
  <1>7. CASE k < i
    <2>1. k \in 1..i - 1 /\ k \in DOMAIN e
      BY <1>1, <1>4, <1>7
    <2>2. ASSUME NEW j \in 1..k - 1 PROVE j \in DOMAIN d /\ d[j] = f[j]
      <3>1. j \in 1..i - 1
        BY <1>4, <1>7
      <3> QED
        BY <1>2, <1>3, <3>1
    <2>3. k \in DOMAIN d => d[k] < f[k]
      BY <1>2, <1>3, <2>1
    <2> QED
      BY <2>2, <2>3 DEF TextBefore
  <1> QED
    BY <1>4, <1>5, <1>6, <1>7

KeysIn(S) == {p \in S \X S : KeyBefore(p[1], p[2])}

-----------------------------------------------------------------------------
(* The tree.                                                                 *)

(* The texts of transaction IDs are in a total order.                        *)
LEMMA KeysOrder ==
    ASSUME NEW S \in SUBSET Nat
    PROVE  IsOrder(S, KeysIn(S))
  <1>1. ASSUME NEW a, NEW b PROVE KeyBefore(a, b) <=> TextBefore(digits[a], digits[b])
    BY DEF KeyBefore, TextBefore
  <1>2. \A a \in S : a \in Nat /\ digits[a] \in Seq(Nat)
    BY DigitsAre
  <1>3. \A a, b \in S : <<a, b>> \in KeysIn(S) <=> TextBefore(digits[a], digits[b])
    BY <1>1 DEF KeysIn
  <1>4. ASSUME NEW a \in S PROVE <<a, a>> \notin KeysIn(S)
    BY <1>2, <1>3, TextBeforeStrict
  <1>5. ASSUME NEW a \in S, NEW b \in S, a # b
        PROVE  <<a, b>> \in KeysIn(S) \/ <<b, a>> \in KeysIn(S)
    <2>1. digits[a] # digits[b]
      BY <1>2, <1>5, DigitsDiffer
    <2> QED
      BY <1>2, <1>3, <2>1, TextBeforeTotal
  <1>6. ASSUME NEW a \in S, NEW b \in S, NEW c \in S,
               <<a, b>> \in KeysIn(S), <<b, c>> \in KeysIn(S)
        PROVE  <<a, c>> \in KeysIn(S)
    <2>1. TextBefore(digits[a], digits[b]) /\ TextBefore(digits[b], digits[c])
      BY <1>3, <1>6
    <2>2. TextBefore(digits[a], digits[c])
      BY <1>2, <2>1, TextBeforeTransitive
    <2> QED
      BY <1>3, <2>2
  <1> QED
    BY <1>4, <1>5, <1>6 DEF IsOrder

LEMMA KeysSorted ==
    ASSUME NEW S
    PROVE  Sorted(S, KeyBefore) = InRank(S, KeysIn(S))
  <1>1. \A i \in S : {j \in S : KeyBefore(j, i)} = Below(S, KeysIn(S), i)
    BY DEF Below, KeysIn
  <1> DEFINE x(n) == CHOOSE i \in S : Cardinality({j \in S : KeyBefore(j, i)}) = n - 1
             y(n) == CHOOSE i \in S : Rank(S, KeysIn(S), i) = n - 1
  <1>2. Sorted(S, KeyBefore) = [n \in 1..Cardinality(S) |-> x(n)]
    BY DEF Sorted
  <1>3. InRank(S, KeysIn(S)) = [n \in 1..Cardinality(S) |-> y(n)]
    BY DEF InRank
  <1>4. \A n : x(n) = y(n)
    BY <1>1 DEF Rank
  <1> HIDE DEF x, y
  <1> QED
    BY <1>2, <1>3, <1>4

IDsOf(F) == {e.txid : e \in F}

LEMMA IDsFinite ==
    ASSUME NEW F, Clocked(F)
    PROVE  IDsOf(F) \in SUBSET Nat /\ IsFiniteSet(IDsOf(F))
  <1> DEFINE f == [e \in F |-> e.txid]
  <1>1. f \in Surjection(F, IDsOf(F))
    BY DEF IDsOf, Surjection
  <1>2. IDsOf(F) \in SUBSET Nat
    BY DEF IDsOf, Clocked
  <1> HIDE DEF f
  <1> QED
    BY <1>1, <1>2, FS_Surjection DEF Clocked

(* The tree, without the order in which the entries came.                    *)
Tree(F) ==
    LET keys == InRank(IDsOf(F), KeysIn(IDsOf(F)))
        group(k) == Group(InRank(F, EarlierIn(F)), keys[k])
    IN  [k \in DOMAIN keys |->
            [txid |-> keys[k], at |-> group(k)[1].changedAt, changes |-> group(k)]]

LEMMA TreeIs ==
    ASSUME NEW F, Clocked(F), NEW order \in SetToSeqs(F)
    PROVE  ToAsciiTreeString(order) = Tree(F)
  <1>1. ByTime(order) = InRank(F, EarlierIn(F))
    BY ByTimeIs
  <1>2. {order[i].txid : i \in DOMAIN order} = IDsOf(F)
    <2>1. /\ order \in [1..Cardinality(F) -> F]
          /\ \A e \in F : \E i \in 1..Cardinality(F) : order[i] = e
      BY SeqsCover DEF Clocked
    <2> QED
      BY <2>1 DEF IDsOf
  <1>3. Sorted(IDsOf(F), KeyBefore) = InRank(IDsOf(F), KeysIn(IDsOf(F)))
    BY KeysSorted
  <1> QED
    BY <1>1, <1>2, <1>3, Zenon DEF ToAsciiTreeString, Tree

(* The tree has a group for each transaction, in the order of their texts.   *)
LEMMA TreeGroups ==
    ASSUME NEW F, Clocked(F)
    PROVE  LET tree == Tree(F)
           IN  /\ Len(tree) \in Nat /\ DOMAIN tree = 1..Len(tree)
               /\ {tree[k].txid : k \in DOMAIN tree} = IDsOf(F)
               /\ Len(tree) = Cardinality(IDsOf(F))
               /\ \A k \in 1..Len(tree) - 1 : KeyBefore(tree[k].txid, tree[k + 1].txid)
  <1> DEFINE I == IDsOf(F)
             K == KeysIn(I)
             keys == InRank(I, K)
             N == 1..Cardinality(I)
             G(k) == Group(InRank(F, EarlierIn(F)), keys[k])
             tree == Tree(F)
  <1>1. I \in SUBSET Nat /\ IsFiniteSet(I) /\ IsOrder(I, K) /\ Cardinality(I) \in Nat
    BY IDsFinite, KeysOrder, FS_CardinalityType
  <1>2. /\ keys \in [N -> I]
        /\ \A e \in I : Rank(I, K, e) + 1 \in N /\ keys[Rank(I, K, e) + 1] = e
        /\ \A i, j \in N : i < j <=> <<keys[i], keys[j]>> \in K
    <2> HIDE DEF I, K
    <2> QED
      BY <1>1, InRankSorts
  <1>3. tree = [k \in N |-> [txid |-> keys[k], at |-> G(k)[1].changedAt, changes |-> G(k)]]
    <2>1. DOMAIN keys = N
      BY <1>2
    <2>2. tree = [k \in DOMAIN keys |->
                     [txid |-> keys[k], at |-> G(k)[1].changedAt, changes |-> G(k)]]
      BY Zenon DEF Tree
    <2> HIDE DEF tree, keys, G, N
    <2> QED
      BY <2>1, <2>2
  <1> HIDE DEF keys, tree, G, I, K
  <1>4. DOMAIN tree = N /\ \A k \in N : tree[k].txid = keys[k]
    BY <1>3
  <1>5. Len(tree) = Cardinality(I)
    <2>1. Cardinality(I) \in Nat /\ DOMAIN tree = 1..Cardinality(I)
      BY <1>1, <1>4
    <2>2. tree \in Seq({tree[k] : k \in N})
      BY <1>3, <2>1
    <2> QED
      BY <2>1, <2>2
  <1>6. {tree[k].txid : k \in DOMAIN tree} = I
    BY <1>2, <1>4
  <1>7. ASSUME NEW k \in 1..Len(tree) - 1 PROVE KeyBefore(tree[k].txid, tree[k + 1].txid)
    <2>1. k \in N /\ k + 1 \in N /\ k < k + 1
      BY <1>1, <1>5
    <2>2. <<keys[k], keys[k + 1]>> \in K
      BY <1>2, <2>1
    <2>3. KeyBefore(keys[k], keys[k + 1])
      BY <2>2 DEF K, KeysIn
    <2> QED
      BY <1>4, <2>1, <2>3
  <1> QED
    BY <1>1, <1>4, <1>5, <1>6, <1>7 DEF tree, I

(* A group shows the changes of its transaction.                             *)
LEMMA TreeShows ==
    ASSUME NEW F, Clocked(F), NEW k \in DOMAIN Tree(F)
    PROVE  ShowsChanges(Tree(F)[k], F)
  <1> DEFINE keys == InRank(IDsOf(F), KeysIn(IDsOf(F)))
             id == keys[k]
             g == Group(InRank(F, EarlierIn(F)), id)
             own == {e \in F : e.txid = id}
  <1>1. Tree(F)[k] = [txid |-> id, at |-> g[1].changedAt, changes |-> g]
    BY DEF Tree
  <1>2. own # {}
    <2>1. Tree(F)[k].txid \in IDsOf(F)
      BY TreeGroups
    <2>2. id \in IDsOf(F)
      BY <1>1, <2>1
    <2> HIDE DEF id
    <2> QED
      BY <2>2 DEF IDsOf
  <1> HIDE DEF keys, id
  <1>3. /\ Len(g) \in Nat /\ DOMAIN g = 1..Len(g)
        /\ ToSet(g) = own
        /\ \A i, j \in DOMAIN g : i < j => Earlier(g[i], g[j])
    BY GroupShows
  <1> HIDE DEF g
  <1>4. /\ \A i \in DOMAIN g : g[i] \in own
        /\ \A e \in own : \E i \in DOMAIN g : g[i] = e
    BY <1>3 DEF ToSet
  <1>5. 1 \in DOMAIN g
    BY <1>2, <1>3, <1>4
  <1>6. \A i \in 1..Len(g) - 1 : Earlier(g[i], g[i + 1])
    BY <1>3
  <1>7. g[1].changedAt \in {e.changedAt : e \in own}
    BY <1>4, <1>5
  <1>8. ASSUME NEW e \in own PROVE g[1].changedAt <= e.changedAt
    <2>1. PICK i \in DOMAIN g : g[i] = e
      BY <1>4
    <2>2. g[1] \in F /\ e \in F /\ g[1].changedAt \in Nat /\ e.changedAt \in Nat
      BY <1>4, <1>5 DEF Clocked
    <2>3. i = 1 \/ (1 < i /\ Earlier(g[1], g[i]))
      BY <1>3, <1>5
    <2> QED
      BY <2>1, <2>2, <2>3 DEF Earlier
  <1> QED
    BY <1>1, <1>3, <1>6, <1>7, <1>8 DEF ShowsChanges

-----------------------------------------------------------------------------
(* Times.                                                                    *)

Written == log \cup UNION {entries[x] : x \in Tx}

(* Entries are finitely many, and no two, committed or not, have one time.   *)
TimesInv ==
    /\ IsFiniteSet(log)
    /\ \A x \in Tx : IsFiniteSet(entries[x])
    /\ \A e, f \in Written : e.changedAt = f.changedAt => e = f

LEMMA InitTimes == Init => TimesInv
  <1> SUFFICES ASSUME Init PROVE TimesInv
    OBVIOUS
  <1>1. log = {} /\ \A x \in Tx : entries[x] = {}
    BY DEF Init
  <1>2. Written = {}
    BY <1>1 DEF Written
  <1> QED
    BY <1>1, <1>2, FS_EmptySet DEF TimesInv

(* A step that writes no entry.                                              *)
LEMMA TimesStay ==
    ASSUME TimesInv, Written' \subseteq Written, IsFiniteSet(log'),
           \A x \in Tx : IsFiniteSet(entries'[x])
    PROVE  TimesInv'
  BY DEF TimesInv

LEMMA SameEntries ==
    ASSUME TimesInv, UNCHANGED <<log, entries>>
    PROVE  TimesInv'
  BY DEF TimesInv, Written

LEMMA WrittenEarlier ==
    ASSUME ReplayInv
    PROVE  \A e \in Written : e.changedAt \in Nat /\ e.changedAt < clock
  <1>1. \A e \in log : e.changedAt \in Nat /\ e.changedAt < clock
    BY DEF ReplayInv, LogInv, TypeOK, Entry
  <1>2. \A x \in Tx : \A e \in entries[x] : e.changedAt \in Nat /\ e.changedAt < clock
    BY DEF ReplayInv, EntriesInv, TypeOK, Entry
  <1> QED
    BY <1>1, <1>2 DEF Written

LEMMA WriteTimes ==
    ASSUME ReplayInv, TimesInv,
           NEW x \in Tx, NEW row \in Row, NEW v \in Value \cup {None}, Write(x, row, v)
    PROVE  TimesInv'
  <1> DEFINE new == Added(x, row, v)
  <1>1. log' = log /\ entries' = EntriesWith(x, row, v)
    BY WriteSets
  <1>2. entries = [y \in Tx |-> entries[y]]
    BY DEF ReplayInv, MapsInv
  <1>3. /\ entries'[x] = entries[x] \cup new
        /\ \A y \in Tx \ {x} : entries'[y] = entries[y]
    BY <1>1, <1>2 DEF EntriesWith
  <1>4. \A e \in new : e.changedAt = clock
    BY WriteSets, AddedEntry
  <1>5. IsFiniteSet(new) /\ \A e, f \in new : e = f
    BY FS_EmptySet, FS_Singleton DEF Added
  <1> HIDE DEF new
  <1>6. \A e \in Written' : e \in Written \/ e \in new
    BY <1>1, <1>3 DEF Written
  <1>7. \A y \in Tx : IsFiniteSet(entries'[y])
    <2>1. IsFiniteSet(entries[x] \cup new)
      BY <1>5, FS_Union DEF TimesInv
    <2> QED
      BY <1>3, <2>1 DEF TimesInv
  <1>8. ASSUME NEW e \in Written', NEW f \in Written', e.changedAt = f.changedAt
        PROVE  e = f
    <2>1. clock \in Nat
      BY DEF ReplayInv, TypeOK
    <2>2. CASE e \in Written /\ f \in Written
      BY <1>8, <2>2 DEF TimesInv
    <2>3. CASE e \in new /\ f \in new
      BY <1>5, <2>3
    <2>4. CASE e \in Written /\ f \in new
      BY <1>4, <1>8, <2>1, <2>4, WrittenEarlier
    <2>5. CASE e \in new /\ f \in Written
      BY <1>4, <1>8, <2>1, <2>5, WrittenEarlier
    <2> QED
      BY <1>6, <2>2, <2>3, <2>4, <2>5
  <1> QED
    BY <1>1, <1>7, <1>8 DEF TimesInv

LEMMA CommitTimes ==
    ASSUME ReplayInv, TimesInv, NEW x \in Tx, Commit(x)
    PROVE  TimesInv'
  <1>1. log' = log \cup entries[x] /\ End(x)
    BY DEF Commit
  <1>2. entries'[x] = {} /\ \A y \in Tx \ {x} : entries'[y] = entries[y]
    BY <1>1, EndLeaves
  <1>3. Written' \subseteq Written
    BY <1>1, <1>2 DEF Written
  <1>4. IsFiniteSet(log')
    BY <1>1, FS_Union DEF TimesInv
  <1>5. \A y \in Tx : IsFiniteSet(entries'[y])
    BY <1>2, FS_EmptySet DEF TimesInv
  <1> QED
    BY <1>3, <1>4, <1>5, TimesStay

LEMMA RollbackTimes ==
    ASSUME ReplayInv, TimesInv, NEW x \in Tx, Rollback(x)
    PROVE  TimesInv'
  <1>1. log' = log /\ End(x)
    BY DEF Rollback
  <1>2. entries'[x] = {} /\ \A y \in Tx \ {x} : entries'[y] = entries[y]
    BY <1>1, EndLeaves
  <1>3. Written' \subseteq Written
    BY <1>1, <1>2 DEF Written
  <1>4. IsFiniteSet(log')
    BY <1>1 DEF TimesInv
  <1>5. \A y \in Tx : IsFiniteSet(entries'[y])
    BY <1>2, FS_EmptySet DEF TimesInv
  <1> QED
    BY <1>3, <1>4, <1>5, TimesStay

LEMMA NextTimes == ReplayInv /\ TimesInv /\ [Next]_vars => TimesInv'
  <1> SUFFICES ASSUME ReplayInv, TimesInv, [Next]_vars PROVE TimesInv'
    OBVIOUS
  <1>1. CASE \E x \in Tx, row \in Row, v \in Value \cup {None} : Write(x, row, v)
    BY <1>1, WriteTimes
  <1>2. CASE \E x \in Tx : Commit(x)
    BY <1>2, CommitTimes
  <1>3. CASE \E x \in Tx : Rollback(x)
    BY <1>3, RollbackTimes
  <1>4. CASE \E t \in Table : CreateTable(t)
    BY <1>4, SameEntries DEF CreateTable, txVars
  <1>5. CASE SetupStarts \/ CreateLogTable \/ CreateTriggerFunc \/ CreateTriggers
    BY <1>5, SameEntries
       DEF SetupStarts, CreateLogTable, CreateTriggerFunc, CreateTriggers, tables, txVars
  <1>6. CASE \E t \in Table : CreateTrigger(t)
    BY <1>6, SameEntries DEF CreateTrigger, tables, txVars
  <1>7. CASE SetupReturns \/ SetupFails
    BY <1>7, SameEntries DEF SetupReturns, SetupFails, tables, txVars
  <1>8. CASE UNCHANGED vars
    BY <1>8, SameEntries DEF vars, tables, txVars
  <1> QED
    BY <1>1, <1>2, <1>3, <1>4, <1>5, <1>6, <1>7, <1>8 DEF Next

LEMMA TimesDiffer == Spec => [](ReplayInv /\ TimesInv)
  BY InitReplays, NextReplays, InitTimes, NextTimes, PTL DEF Spec

(* What GetLogs returns can be sorted by time.                               *)
LEMMA LogsClocked ==
    ASSUME ReplayInv, TimesInv, NEW names
    PROVE  Clocked(GetLogs(names))
  <1>1. GetLogs(names) \in SUBSET log
    BY DEF GetLogs
  <1>2. IsFiniteSet(GetLogs(names))
    BY <1>1, FS_Subset DEF TimesInv
  <1>3. \A e \in log : e.changedAt \in Nat /\ e.txid \in Nat
    BY DEF ReplayInv, TypeOK, Entry
  <1>4. \A e, f \in log : e.changedAt = f.changedAt => e = f
    BY DEF TimesInv, Written
  <1> QED
    BY <1>1, <1>2, <1>3, <1>4 DEF Clocked

(* ToAsciiTreeString shows the same tree in whatever order GetLogs returns   *)
(* the rows: a group for every transaction in the order of the texts of      *)
(* their IDs, whatever the IDs are, in it each change once and in the order  *)
(* of time; no two changes of the log have the same time.                    *)
THEOREM TreeIsRight == Spec => []TreeShowsTransactions
  <1>1. ASSUME ReplayInv, TimesInv PROVE TreeShowsTransactions
    <2> SUFFICES ASSUME NEW names \in SUBSET Table
                 PROVE  LET found == GetLogs(names)
                            tree == ToAsciiTreeString(SetToSeq(found))
                        IN  /\ \A order \in SetToSeqs(found) :
                                   ToAsciiTreeString(order) = tree
                            /\ {tree[k].txid : k \in DOMAIN tree} = IDsOf(found)
                            /\ Len(tree) = Cardinality(IDsOf(found))
                            /\ \A k \in DOMAIN tree : ShowsChanges(tree[k], found)
                            /\ \A k \in 1..Len(tree) - 1 :
                                   KeyBefore(tree[k].txid, tree[k + 1].txid)
      BY Zenon DEF TreeShowsTransactions, IDsOf
    <2> DEFINE found == GetLogs(names)
    <2>1. Clocked(found)
      BY <1>1, LogsClocked
    <2>2. SetToSeq(found) \in SetToSeqs(found)
      BY <2>1, SeqIsOne DEF Clocked
    <2> HIDE DEF found
    <2>3. \A order \in SetToSeqs(found) : ToAsciiTreeString(order) = Tree(found)
      BY <2>1, TreeIs
    <2>4. ToAsciiTreeString(SetToSeq(found)) = Tree(found)
      BY <2>2, <2>3
    <2> QED
      BY <2>1, <2>3, <2>4, TreeGroups, TreeShows DEF found
  <1> QED
    BY <1>1, TimesDiffer, PTL

=============================================================================
