------------------------ MODULE BankMigrations_proofs ------------------------
(***************************************************************************)
(* Proofs about BankMigrations, for any processes, versions, references    *)
(* and targets.                                                            *)
(***************************************************************************)
EXTENDS BankMigrations, WellFoundedInduction, TLAPS

(* The versions up to m are applied, and every call in its loop agrees with  *)
(* m: an Up has passed nothing that is not applied, a Down nothing that is.  *)
Height(m) ==
    /\ applied = 1..m
    /\ \A p \in Process : pc[p] = "loop" =>
        /\ call[p].op = "Up" => next[p] \in 1..m + 1
        /\ call[p].op = "Down" => next[p] \in m..LastVersion

(* The inductive invariant.  Without an overlap, only calls of one kind move *)
(* the height while a call is in its loop, each by one and at the top.       *)
Ordered ==
    /\ applied = tables
    /\ overlapped \/ \E m \in 0..LastVersion : Height(m)

IInv == TypeOK /\ Ordered

USE MigrationsAssumption

-----------------------------------------------------------------------------

(* A set of naturals that is not empty has a least element.                  *)
LEMMA LeastNatural ==
    ASSUME NEW S, S \subseteq Nat, S # {}
    PROVE  \E n \in S : \A k \in S : n <= k
<1> DEFINE Less == OpToRel(<, Nat)
<1>1. IsWellFoundedOn(Less, Nat)
    BY NatLessThanWellFounded
<1>2. \A i, j \in Nat : i < j => <<i, j>> \in Less
    BY DEF OpToRel
<1> HIDE DEF Less
<1>3. PICK n \in S : \A k \in S : ~ (<<k, n>> \in Less)
    BY <1>1, WFMin, Zenon
<1>4. \A k \in S : ~ (k < n)
    BY <1>2, <1>3
<1>5. \A k \in S : n <= k
    BY <1>4
<1> QED BY <1>5

(* What getMaxAppliedVersion reads (runner.go:26) is 0 or the highest row.   *)
LEMMA MaxAppliedIsHighest ==
    ASSUME applied \subseteq Version
    PROVE  /\ MaxApplied \in 0..LastVersion
           /\ applied = {} => MaxApplied = 0
           /\ applied # {} => /\ MaxApplied \in applied
                              /\ \A w \in applied : w <= MaxApplied
<1>1. CASE applied = {}
    BY <1>1 DEF MaxApplied
<1>2. CASE applied # {}
    <2> DEFINE Below == {LastVersion - v : v \in applied}
    <2>0. \A v \in applied : LastVersion - v \in Nat
        BY DEF Version
    <2>1. Below \subseteq Nat /\ Below # {}
        <3>1. PICK v \in applied : TRUE
            BY <1>2
        <3>2. LastVersion - v \in Below
            BY <3>1
        <3> QED BY <2>0, <3>2
    <2> HIDE DEF Below
    <2>2. PICK n \in Below : \A k \in Below : n <= k
        BY <2>1, LeastNatural
    <2>3. PICK v \in applied : n = LastVersion - v
        BY <2>2 DEF Below
    <2>4. \A w \in applied : w <= v
        <3>1. \A w \in applied : LastVersion - w \in Below
            BY DEF Below
        <3>2. \A w \in applied : LastVersion - v <= LastVersion - w
            BY <2>2, <2>3, <3>1
        <3> QED BY <3>2 DEF Version
    <2>5. MaxApplied \in applied /\ \A w \in applied : w <= MaxApplied
        BY <1>2, <2>4 DEF MaxApplied
    <2> QED BY <1>2, <2>5 DEF Version
<1> QED BY <1>1, <1>2

(* If the applied versions have no gap, it is their number.                  *)
LEMMA MaxAppliedIsHeight ==
    ASSUME NEW m \in 0..LastVersion, applied = 1..m
    PROVE  MaxApplied = m
<1>1. applied \subseteq Version
    BY DEF Version
<1>2. CASE m = 0
    BY <1>1, <1>2, MaxAppliedIsHighest
<1>3. CASE m # 0
    <2>1. m \in applied
        BY <1>3
    <2>2. MaxApplied \in 1..m /\ m <= MaxApplied
        BY <1>1, <2>1, MaxAppliedIsHighest
    <2> QED BY <2>2
<1> QED BY <1>2, <1>3

-----------------------------------------------------------------------------

(* The runner starts on an empty database, which is ordered.                 *)
LEMMA InitOrdered == Init => IInv
<1> SUFFICES ASSUME Init PROVE IInv
    OBVIOUS
<1>1. TypeOK
    <2>1. PICK t \in Target : TRUE
        OBVIOUS
    <2>2. [op |-> "Up", target |-> t] \in Call
        BY <2>1 DEF Call
    <2>3. NoCall \in Call
        BY <2>2 DEF NoCall
    <2>4. call \in [Process -> Call]
        BY <2>3 DEF Init
    <2>5. next \in [Process -> 0..LastVersion + 1]
        BY DEF Init
    <2>6. versionTable \in BOOLEAN /\ overlapped \in BOOLEAN
        BY DEF Init
    <2> QED BY <2>4, <2>5, <2>6 DEF Init, TypeOK
<1>2. Height(0)
    BY DEF Init, Height
<1>3. 0 \in 0..LastVersion
    OBVIOUS
<1> QED BY <1>1, <1>2, <1>3 DEF Init, IInv, Ordered

(* Every action keeps the types: the loop counter stays within one of the    *)
(* versions because the loops stop there.                                    *)
LEMMA TypeStep == TypeOK /\ [Next]_vars => TypeOK'
<1> SUFFICES ASSUME TypeOK, [Next]_vars PROVE TypeOK'
    OBVIOUS
<1> USE DEF TypeOK
<1>1. ASSUME NEW p \in Process, NEW c \in Call, Start(p, c) PROVE TypeOK'
    BY <1>1 DEF Start
<1>2. ASSUME NEW p \in Process, ensureVersionTable(p) PROVE TypeOK'
    BY <1>2 DEF ensureVersionTable
<1>3. ASSUME NEW p \in Process, getMaxAppliedVersion(p) PROVE TypeOK'
    <2>1. MaxApplied \in 0..LastVersion
        BY MaxAppliedIsHighest
    <2> QED BY <1>3, <2>1 DEF getMaxAppliedVersion
<1>4. ASSUME NEW p \in Process, Up(p) PROVE TypeOK'
    <2>1. next[p] \in Version
        BY <1>4 DEF Up, LoopEnds
    <2>2. overlapped' \in BOOLEAN
        BY <1>4 DEF Up, NoteOverlap
    <2>3. next' \in [Process -> 0..LastVersion + 1]
        BY <1>4, <2>1 DEF Up, Version
    <2> QED BY <1>4, <2>1, <2>2, <2>3 DEF Up
<1>5. ASSUME NEW p \in Process, Down(p) PROVE TypeOK'
    <2>1. next[p] \in Version
        BY <1>5 DEF Down, LoopEnds
    <2>2. overlapped' \in BOOLEAN
        BY <1>5 DEF Down, NoteOverlap
    <2>3. next' \in [Process -> 0..LastVersion + 1]
        BY <1>5, <2>1 DEF Down, Version
    <2> QED BY <1>5, <2>1, <2>2, <2>3 DEF Down
<1>6. ASSUME NEW p \in Process, Finish(p) PROVE TypeOK'
    BY <1>6 DEF Finish, Return
<1>7. ASSUME NEW p \in Process, Fail(p) PROVE TypeOK'
    BY <1>7 DEF Fail, Return
<1>8. CASE UNCHANGED vars
    BY <1>8 DEF vars
<1> QED BY <1>1, <1>2, <1>3, <1>4, <1>5, <1>6, <1>7, <1>8 DEF Next

(* Calls that are outside their loop, and the one that has just left it, do   *)
(* not bear on the height.                                                    *)
LEMMA HeightKept ==
    ASSUME NEW m \in 0..LastVersion, Height(m), TypeOK,
           UNCHANGED <<applied, next>>,
           \A q \in Process : pc'[q] = "loop" => pc[q] = "loop" /\ call'[q] = call[q]
    PROVE  Height(m)'
BY DEF Height, TypeOK

(* Every step keeps the order: a call that reads the highest version agrees  *)
(* with it, an Up extends the applied versions and a Down removes the last.  *)
LEMMA OrderedStep == IInv /\ [Next]_vars => Ordered'
<1> SUFFICES ASSUME TypeOK, Ordered, [Next]_vars PROVE Ordered'
    BY DEF IInv
<1>a. ASSUME UNCHANGED <<applied, tables, next, overlapped>>,
             \A q \in Process : pc'[q] = "loop" => pc[q] = "loop" /\ call'[q] = call[q]
      PROVE  Ordered'
    <2>1. CASE overlapped
        BY <1>a, <2>1 DEF Ordered
    <2>2. CASE ~ overlapped
        <3>1. PICK m \in 0..LastVersion : Height(m)
            BY <2>2 DEF Ordered
        <3>2. Height(m)'
            BY <1>a, <3>1, HeightKept
        <3> QED BY <1>a, <3>2 DEF Ordered
    <2> QED BY <2>1, <2>2
<1>1. ASSUME NEW p \in Process, NEW c \in Call, Start(p, c) PROVE Ordered'
    BY <1>1, <1>a DEF Start, TypeOK
<1>2. ASSUME NEW p \in Process, ensureVersionTable(p) PROVE Ordered'
    BY <1>2, <1>a DEF ensureVersionTable, TypeOK
<1>3. ASSUME NEW p \in Process, getMaxAppliedVersion(p) PROVE Ordered'
    <2>1. CASE overlapped
        BY <1>3, <2>1 DEF Ordered, getMaxAppliedVersion
    <2>2. CASE ~ overlapped
        <3>1. PICK m \in 0..LastVersion : Height(m)
            BY <2>2 DEF Ordered
        <3>2. MaxApplied = m
            BY <3>1, MaxAppliedIsHeight DEF Height
        <3>3. Height(m)'
            BY <1>3, <3>1, <3>2 DEF Height, getMaxAppliedVersion, TypeOK
        <3> QED BY <1>3, <3>3 DEF Ordered, getMaxAppliedVersion
    <2> QED BY <2>1, <2>2
<1>4. ASSUME NEW p \in Process, Up(p) PROVE Ordered'
    <2>0. applied' = tables'
        BY <1>4 DEF Up, Ordered
    <2>1. CASE overlapped'
        BY <2>0, <2>1 DEF Ordered
    <2>2. CASE ~ overlapped'
        <3>0. /\ ~ overlapped
              /\ \A q \in Process : pc[q] = "loop" => call[q].op = "Up"
            BY <1>4, <2>2 DEF Up, NoteOverlap
        <3>1. PICK m \in 0..LastVersion : Height(m)
            BY <3>0 DEF Ordered
        <3>2. next[p] = m + 1 /\ next[p] \in Version
            BY <1>4, <3>1 DEF Up, LoopEnds, CanApply, Height, Version
        <3>3. m + 1 \in 0..LastVersion /\ applied' = 1..m + 1
            BY <1>4, <3>1, <3>2 DEF Up, Height, Version
        <3>4. ASSUME NEW q \in Process, pc'[q] = "loop"
              PROVE  call'[q].op = "Up" /\ next'[q] \in 1..(m + 1) + 1
            <4>1. pc[q] = "loop" /\ call'[q] = call[q] /\ call[q].op = "Up"
                BY <1>4, <3>0, <3>4 DEF Up
            <4>2. next[q] \in 1..m + 1
                BY <3>1, <4>1 DEF Height
            <4>3. next'[q] = next[q] \/ next'[q] = m + 2
                BY <1>4, <3>2 DEF Up, TypeOK
            <4> QED BY <4>1, <4>2, <4>3
        <3>5. Height(m + 1)'
            BY <3>3, <3>4 DEF Height
        <3> QED BY <2>0, <3>3, <3>5 DEF Ordered
    <2> QED BY <2>1, <2>2
<1>5. ASSUME NEW p \in Process, Down(p) PROVE Ordered'
    <2>0. applied' = tables'
        BY <1>5 DEF Down, Ordered
    <2>1. CASE overlapped'
        BY <2>0, <2>1 DEF Ordered
    <2>2. CASE ~ overlapped'
        <3>0. /\ ~ overlapped
              /\ \A q \in Process : pc[q] = "loop" => call[q].op = "Down"
            BY <1>5, <2>2 DEF Down, NoteOverlap
        <3>1. PICK m \in 0..LastVersion : Height(m)
            BY <3>0 DEF Ordered
        <3>2. next[p] = m /\ m \in Version
            BY <1>5, <3>1 DEF Down, LoopEnds, CanRevert, Height, Version, Ordered
        <3>3. m - 1 \in 0..LastVersion /\ applied' = 1..m - 1
            BY <1>5, <3>1, <3>2 DEF Down, Height, Version
        <3>4. ASSUME NEW q \in Process, pc'[q] = "loop"
              PROVE  call'[q].op = "Down" /\ next'[q] \in m - 1..LastVersion
            <4>1. pc[q] = "loop" /\ call'[q] = call[q] /\ call[q].op = "Down"
                BY <1>5, <3>0, <3>4 DEF Down
            <4>2. next[q] \in m..LastVersion
                BY <3>1, <4>1 DEF Height
            <4>3. next'[q] = next[q] \/ next'[q] = m - 1
                BY <1>5, <3>2 DEF Down, TypeOK
            <4> QED BY <4>1, <4>2, <4>3
        <3>5. Height(m - 1)'
            BY <3>3, <3>4 DEF Height
        <3> QED BY <2>0, <3>3, <3>5 DEF Ordered
    <2> QED BY <2>1, <2>2
<1>6. ASSUME NEW p \in Process, Finish(p) PROVE Ordered'
    BY <1>6, <1>a DEF Finish, Return, TypeOK
<1>7. ASSUME NEW p \in Process, Fail(p) PROVE Ordered'
    BY <1>7, <1>a DEF Fail, Return, TypeOK
<1>8. CASE UNCHANGED vars
    BY <1>8, <1>a DEF vars
<1> QED BY <1>1, <1>2, <1>3, <1>4, <1>5, <1>6, <1>7, <1>8 DEF Next

-----------------------------------------------------------------------------

(* The order holds in every reachable state.                                 *)
THEOREM AlwaysOrdered == Spec => []IInv
<1>1. IInv /\ [Next]_vars => IInv'
    BY TypeStep, OrderedStep DEF IInv
<1> QED BY <1>1, InitOrdered, PTL DEF Spec

(* The loops of Up and Down never leave the versions by more than one, and   *)
(* every other variable keeps its type.                                      *)
THEOREM TypeCorrect == Spec => []TypeOK
<1>1. IInv => TypeOK
    BY DEF IInv
<1> QED BY <1>1, AlwaysOrdered, PTL

(* The rows of __db_migrations and the tables agree in every reachable       *)
(* state, whatever fails and whatever runs at once (runner.go:86).           *)
THEOREM RowsMatchTables == Spec => []AppliedMatchesTables
<1>1. IInv => AppliedMatchesTables
    BY DEF IInv, Ordered, AppliedMatchesTables
<1> QED BY <1>1, AlwaysOrdered, PTL

(* Concurrent and interrupted Ups, or Downs, never leave a gap that later    *)
(* Ups would skip (runner.go:82): an Up and a Down must overlap.             *)
THEOREM NoGapWithoutOverlap == Spec => []GapNeedsOverlap
<1>1. IInv => GapNeedsOverlap
    <2> SUFFICES ASSUME IInv, ~ overlapped, NEW v \in applied
                 PROVE  1..v \subseteq applied
        BY DEF GapNeedsOverlap
    <2>1. PICK m \in 0..LastVersion : applied = 1..m
        BY DEF IInv, Ordered, Height
    <2> QED BY <2>1
<1> QED BY <1>1, AlwaysOrdered, PTL

(* A call that returns nil has done its work, unless an Up and a Down have   *)
(* overlapped: every other way out of the loop is an error (runner.go:109).  *)
THEOREM NilIsDone == Spec => NilMeansDone
<1> DEFINE Done(p) ==
        outcome'[p] = "nil" /\ outcome[p] # "nil" /\ ~ overlapped' =>
            \A v \in Version :
                /\ call[p].op = "Up" /\ v <= call[p].target => v \in applied'
                /\ call[p].op = "Down" /\ v >= call[p].target => v \notin applied'
<1>1. IInv /\ [Next]_vars => [\A p \in Process : Done(p)]_vars
    <2> SUFFICES ASSUME TypeOK, Ordered, Next, NEW p \in Process,
                        outcome'[p] = "nil", outcome[p] # "nil", ~ overlapped',
                        NEW v \in Version
                 PROVE  /\ call[p].op = "Up" /\ v <= call[p].target => v \in applied'
                        /\ call[p].op = "Down" /\ v >= call[p].target => v \notin applied'
        BY DEF IInv
    <2>1. Finish(p)
        BY DEF Next, Start, ensureVersionTable, getMaxAppliedVersion, Up, Down,
               Finish, Fail, Return, TypeOK
    <2>2. PICK m \in 0..LastVersion : Height(m)
        BY <2>1 DEF Finish, Ordered
    <2>3. applied' = 1..m
        BY <2>1, <2>2 DEF Finish, Height
    <2>4. call[p].target \in Nat
        BY DEF TypeOK, Call
    <2>5. ASSUME call[p].op = "Up", v <= call[p].target PROVE v \in applied'
        <3>1. next[p] \in 1..m + 1
            BY <2>1, <2>2, <2>5 DEF Finish, Height
        <3>2. next[p] = LastVersion + 1 \/ next[p] > call[p].target
            BY <2>1, <2>2, <2>5, <3>1 DEF Finish, LoopEnds, Version
        <3> QED BY <2>3, <2>4, <2>5, <3>1, <3>2 DEF Version
    <2>6. ASSUME call[p].op = "Down", v >= call[p].target PROVE v \notin applied'
        <3>1. next[p] \in m..LastVersion
            BY <2>1, <2>2, <2>6 DEF Finish, Height
        <3>2. next[p] = 0 \/ next[p] < call[p].target
            BY <2>1, <2>2, <2>6, <3>1 DEF Finish, LoopEnds, Version
        <3> QED BY <2>3, <2>4, <2>6, <3>1, <3>2 DEF Version
    <2> QED BY <2>5, <2>6
<1> QED BY <1>1, AlwaysOrdered, PTL DEF Spec, NilMeansDone

=============================================================================
