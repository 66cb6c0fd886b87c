---------------------------- MODULE MemoryProofs ----------------------------
(***************************************************************************)
(* Theorems about the stores an agent remembers with, and the API server's *)
(* settings and ticks: SqliteLifecycle, VectorMemory and SettingsStore,    *)
(* each for any value of its constants, and the three side by side.        *)
(***************************************************************************)
EXTENDS MCMemory, SetFacts

LEMMA SqliteInitInv == SqliteInit => SqliteInv
  BY StoreBoundsAssumption
     DEF SqliteInit, SqliteInv, SqliteTypeOK, TablesAgree, SameRowInv,
         DecisionIds, Stored

-----------------------------------------------------------------------------
(* What one append_raw does to the tables.                                 *)

TablesTyped ==
  /\ lastId \in Nat
  /\ \A e \in experiences : e.id \in 1..lastId /\ e.row \in Row
  /\ DOMAIN executions = DecisionIds /\ DOMAIN outcomes = DecisionIds

LEMMA AppendRawAgrees ==
  ASSUME TablesTyped, TablesAgree, NEW row \in Row,
         AppendRaw(row)
  PROVE  TablesTyped' /\ TablesAgree'
<1> DEFINE new == [id |-> lastId + 1, row |-> row]
<1>1. new.id = lastId + 1 /\ new.row = row /\ row.decision \in DecisionIds
  BY DEF Row
<1>2. /\ experiences' = {e \in experiences : e.row.decision # row.decision} \cup {new}
      /\ lastId' = lastId + 1
      /\ executions' = [executions EXCEPT ![row.decision] =
                          IF row.execution = "none" THEN 0 ELSE 1]
      /\ outcomes' = [outcomes EXCEPT ![row.decision] = row.closed]
  BY DEF AppendRaw
<1> HIDE DEF new
<1>3. TablesTyped'
  BY <1>1, <1>2 DEF TablesTyped, DecisionIds
<1>4. \A e, f \in experiences' :
        (e.row.decision = f.row.decision \/ e.id = f.id) => e = f
  BY <1>1, <1>2 DEF TablesTyped, TablesAgree
<1>5. ASSUME NEW e \in experiences'
      PROVE  /\ executions'[e.row.decision] =
                  (IF e.row.execution = "none" THEN 0 ELSE 1)
             /\ outcomes'[e.row.decision] = e.row.closed
  <2>1. CASE e = new
    BY <1>1, <1>2, <2>1 DEF TablesTyped
  <2>2. CASE e \in experiences /\ e.row.decision # row.decision
    BY <1>2, <2>2 DEF TablesTyped, TablesAgree
  <2>3. QED
    BY <1>2, <1>5, <2>1, <2>2
<1>6. ASSUME NEW d \in DecisionIds, d \notin Stored'
      PROVE  executions'[d] = 0 /\ outcomes'[d] = <<>>
  <2>1. d # row.decision
    BY <1>1, <1>2, <1>6 DEF Stored
  <2>2. d \notin Stored
    BY <1>2, <1>6, <2>1 DEF Stored
  <2>3. QED
    BY <1>2, <2>1, <2>2 DEF TablesTyped, TablesAgree
<1>7. QED
  BY <1>3, <1>4, <1>5, <1>6 DEF TablesAgree

(* A row that says of its decision what is stored already keeps the rows   *)
(* as they are.                                                            *)
LEMMA AppendRawRows ==
  ASSUME NEW row, AppendRaw(row), NEW e \in experiences'
  PROVE  e.row = row \/ e \in experiences
  BY DEF AppendRaw

-----------------------------------------------------------------------------
(* The inductive step, by what the action does to the tables and the file. *)
LEMMA SqliteStep ==
  ASSUME SqliteInv, [SqliteNext]_sqliteVars
  PROVE  SqliteInv'
<1> USE StoreBoundsAssumption
<1>0. /\ TablesTyped /\ made \in 0..MaxDecisions /\ file \in Seq(Row)
      /\ opened \subseteq [decision : DecisionIds, symbol : Symbols]
  BY DEF SqliteInv, SqliteTypeOK, TablesTyped
<1>9. /\ \A i \in DOMAIN file : file[i].decision \in Nat
      /\ \A e \in experiences : e.row.decision \in Nat
  <2>1. \A row \in Row : row.decision \in Nat
    BY DEF Row, DecisionIds
  <2>2. QED
    BY <1>0, <2>1 DEF TablesTyped
<1>1. ASSUME NEW s \in Symbols, RecordCycle(s) PROVE SqliteInv'
  <2>1. PICK row \in Experiences(s) :
          /\ made' = made + 1
          /\ opened' = IF row.execution = "accepted"
                         THEN {t \in opened : t.symbol # s}
                                \cup {[decision |-> row.decision, symbol |-> s]}
                         ELSE IF row.closed # <<>> THEN opened \ OnSymbol(s)
                         ELSE opened
          /\ IF backend = "sqlite"
               THEN AppendRaw(row) /\ UNCHANGED file
               ELSE file' = file \o <<row>> /\ UNCHANGED tables
    BY <1>1 DEF RecordCycle
  <2>2. /\ made < MaxDecisions
        /\ UNCHANGED <<backend, importing, read, imports>>
    BY <1>1 DEF RecordCycle
  <2>3. row.decision = made + 1 /\ row.decision \in DecisionIds
    BY <1>0, <2>1, <2>2 DEF Experiences, DecisionIds
  <2>7. row \in Row
    <3>1. row.closed \in Seq(Closed)
      <4>1. row.closed = <<>> \/ \E t \in OnSymbol(s), r \in {-1, 2} :
                                   row.closed = <<[trade |-> t.decision, r |-> r]>>
        BY <2>1 DEF Experiences
      <4>2. ASSUME NEW t \in OnSymbol(s), NEW r \in {-1, 2}
            PROVE  <<[trade |-> t.decision, r |-> r]>> \in Seq(Closed)
        <5>1. [trade |-> t.decision, r |-> r] \in Closed
          BY <1>0, <4>2 DEF OnSymbol, Closed
        <5>2. QED
          BY <5>1
      <4>3. <<>> \in Seq(Closed)
        OBVIOUS
      <4>4. QED
        BY <4>1, <4>2, <4>3
    <3>2. QED
      BY <2>1, <2>3, <3>1 DEF Experiences, Row
  <2>8. opened' \subseteq [decision : DecisionIds, symbol : Symbols]
    BY <1>0, <2>1, <2>3 DEF OnSymbol
  <2>4. CASE backend = "sqlite"
    <3>1. AppendRaw(row) /\ UNCHANGED file
      BY <2>1, <2>4
    <3>2. TablesTyped' /\ TablesAgree'
      BY <1>0, <2>7, <3>1, AppendRawAgrees DEF SqliteInv
    <3>3. SameRowInv'
      <4>1. \A i \in DOMAIN file : file[i].decision # row.decision
        BY <1>0, <2>3 DEF SqliteInv, SameRowInv
      <4>2. \A e \in experiences : e.row.decision <= made'
        BY <1>0, <1>9, <2>1 DEF SqliteInv, SameRowInv
      <4>3. \A i \in DOMAIN file : file[i].decision <= made'
        BY <1>0, <1>9, <2>1 DEF SqliteInv, SameRowInv
      <4>4. \A e \in experiences' : e.row.decision <= made'
        BY <1>0, <2>1, <2>3, <3>1, <4>2, AppendRawRows
      <4>5. \A e \in experiences' : \A i \in DOMAIN file :
              e.row.decision = file[i].decision => e.row = file[i]
        BY <3>1, <4>1, AppendRawRows DEF SqliteInv, SameRowInv
      <4>6. QED
        BY <3>1, <4>3, <4>4, <4>5 DEF SqliteInv, SameRowInv
    <3>4. SqliteTypeOK'
      BY <1>0, <2>1, <2>2, <2>8, <3>1, <3>2 DEF SqliteInv, SqliteTypeOK, TablesTyped
    <3>5. QED
      BY <3>2, <3>3, <3>4 DEF SqliteInv
  <2>5. CASE backend # "sqlite"
    <3>1. file' = file \o <<row>> /\ UNCHANGED tables
      BY <2>1, <2>5
    <3>2. /\ Len(file') = Len(file) + 1 /\ DOMAIN file' = 1..Len(file) + 1
          /\ \A i \in DOMAIN file : file'[i] = file[i]
          /\ file'[Len(file) + 1] = row
          /\ DOMAIN file = 1..Len(file) /\ Len(file) \in Nat
          /\ file' \in Seq(Row)
      BY <1>0, <2>7, <3>1
    <3>3. SameRowInv'
      <4>1. \A i \in DOMAIN file' : file'[i] = row \/ (i \in DOMAIN file /\ file'[i] = file[i])
        BY <3>2
      <4>2. \A i \in DOMAIN file : file[i].decision # row.decision
        BY <1>0, <2>3 DEF SqliteInv, SameRowInv
      <4>3. \A e \in experiences : e.row.decision # row.decision
        BY <1>0, <2>3 DEF SqliteInv, SameRowInv
      <4>4. experiences' = experiences
        BY <3>1 DEF tables
      <4>5. QED
        <5>1. \A i \in DOMAIN file : file[i].decision <= made'
          BY <1>0, <1>9, <2>1 DEF SqliteInv, SameRowInv
        <5>2. \A e \in experiences : e.row.decision <= made'
          BY <1>0, <1>9, <2>1 DEF SqliteInv, SameRowInv
        <5>3. \A i \in DOMAIN file' : file'[i].decision <= made'
          BY <1>0, <2>1, <2>3, <4>1, <5>1
        <5>4. \A i, j \in DOMAIN file' :
                file'[i].decision = file'[j].decision => file'[i] = file'[j]
          BY <4>1, <4>2 DEF SqliteInv, SameRowInv
        <5>5. \A e \in experiences : \A i \in DOMAIN file' :
                e.row.decision = file'[i].decision => e.row = file'[i]
          BY <4>1, <4>3 DEF SqliteInv, SameRowInv
        <5>6. QED
          BY <4>4, <5>2, <5>3, <5>4, <5>5 DEF SameRowInv
    <3>4. SqliteTypeOK'
      <4>1. made' \in 0..MaxDecisions /\ read' <= Len(file')
        BY <1>0, <2>1, <2>2, <3>2 DEF SqliteInv, SqliteTypeOK
      <4>2. UNCHANGED <<backend, importing, read, imports, lastId, experiences,
                        executions, outcomes>>
        BY <2>2, <3>1 DEF tables
      <4>3. QED
        BY <2>8, <3>2, <4>1, <4>2 DEF SqliteInv, SqliteTypeOK
    <3>5. TablesAgree'
      BY <3>1 DEF SqliteInv, TablesAgree, Stored, tables
    <3>6. QED
      BY <3>3, <3>4, <3>5 DEF SqliteInv
  <2>6. QED
    BY <2>4, <2>5
<1>2. CASE SwitchBackend
  BY <1>2 DEF SwitchBackend, SqliteInv, SqliteTypeOK, TablesAgree, SameRowInv,
     Stored, tables
<1>3. CASE StartImport
  BY <1>3 DEF StartImport, SqliteInv, SqliteTypeOK, TablesAgree, SameRowInv,
     Stored, tables
<1>4. CASE ImportRow
  <2>1. /\ importing \in 0..read - 1 /\ importing' = importing + 1
        /\ AppendRaw(file[importing + 1])
        /\ UNCHANGED <<backend, file, made, read, imports>>
    BY <1>4 DEF ImportRow
  <2>2. importing + 1 \in DOMAIN file /\ file[importing + 1] \in Row
    BY <1>0, <2>1 DEF SqliteInv, SqliteTypeOK
  <2>3. TablesTyped' /\ TablesAgree'
    BY <1>0, <2>1, <2>2, AppendRawAgrees DEF SqliteInv
  <2>4. SameRowInv'
    BY <2>1, <2>2, AppendRawRows DEF SqliteInv, SameRowInv
  <2>5. SqliteTypeOK'
    <3>1. UNCHANGED opened
      BY <1>4 DEF ImportRow
    <3>2. QED
      BY <2>1, <2>3, <3>1 DEF SqliteInv, SqliteTypeOK, TablesTyped
  <2>6. QED
    BY <2>3, <2>4, <2>5 DEF SqliteInv
<1>5. CASE EndImport
  BY <1>5 DEF EndImport, SqliteInv, SqliteTypeOK, TablesAgree, SameRowInv,
     Stored, tables
<1>6. CASE CutImport
  BY <1>6 DEF CutImport, SqliteInv, SqliteTypeOK, TablesAgree, SameRowInv,
     Stored, tables
<1>7. CASE UNCHANGED sqliteVars
  BY <1>7 DEF sqliteVars, SqliteInv, SqliteTypeOK, TablesAgree, SameRowInv,
     Stored, tables
<1>8. QED
  BY <1>1, <1>2, <1>3, <1>4, <1>5, <1>6, <1>7 DEF SqliteNext

(* The tables and the file agree on every decision that was made.          *)
THEOREM SqliteInvariance == SqliteSpec => []SqliteInv
  BY SqliteInitInv, SqliteStep, PTL DEF SqliteSpec

(* The three tables tell one story about every decision, for any number of *)
(* decisions, imports, cuts and repetitions.                               *)
THEOREM TablesAlwaysAgree == SqliteSpec => []TablesAgree
<1>1. SqliteInv => TablesAgree
  BY DEF SqliteInv
<1>2. QED
  BY SqliteInvariance, <1>1, PTL

(* No decision leaves the store, and a lifecycle that was over stays over, *)
(* also while an import or the agent writes the tables.                    *)
THEOREM TerminalForGood == SqliteSpec => TerminalStays
<1> DEFINE Stays ==
      \A d \in Stored :
        /\ d \in Stored'
        /\ Lifecycle(d).terminal => Lifecycle(d)'.terminal
<1>1. SqliteInv /\ SqliteInv' /\ [SqliteNext]_sqliteVars => [Stays]_sqliteVars
  <2> SUFFICES ASSUME SqliteInv, SqliteInv', [SqliteNext]_sqliteVars,
                      NEW d \in Stored
               PROVE  /\ d \in Stored'
                      /\ Lifecycle(d).terminal => Lifecycle(d)'.terminal
    OBVIOUS
  <2> DEFINE e == CHOOSE x \in experiences : x.row.decision = d
  <2>1. e \in experiences /\ e.row.decision = d
    BY DEF Stored
  <2>2. \E f \in experiences' : f.row = e.row
    <3>1. CASE experiences' = experiences
      BY <2>1, <3>1
    <3>2. ASSUME NEW s \in Symbols, RecordCycle(s), experiences' # experiences
          PROVE  \E f \in experiences' : f.row = e.row
      <4>1. PICK row \in Experiences(s) : AppendRaw(row)
        BY <3>2 DEF RecordCycle, tables
      <4>2. row.decision = made + 1
        BY <4>1 DEF Experiences
      <4>3. e.row.decision # row.decision
        BY <2>1, <4>2 DEF SqliteInv, SameRowInv, SqliteTypeOK
      <4>4. QED
        BY <2>1, <4>1, <4>3 DEF AppendRaw
    <3>3. CASE ImportRow
      <4>1. importing + 1 \in DOMAIN file /\ AppendRaw(file[importing + 1])
        BY <3>3 DEF ImportRow, SqliteInv, SqliteTypeOK
      <4>2. CASE e.row.decision = file[importing + 1].decision
        <5>1. e.row = file[importing + 1]
          BY <2>1, <4>1, <4>2 DEF SqliteInv, SameRowInv
        <5>2. [id |-> lastId + 1, row |-> file[importing + 1]] \in experiences'
          BY <4>1 DEF AppendRaw
        <5>3. [id |-> lastId + 1, row |-> file[importing + 1]].row = e.row
          BY <5>1
        <5>4. QED
          BY <5>2, <5>3
      <4>3. CASE e.row.decision # file[importing + 1].decision
        BY <2>1, <4>1, <4>3 DEF AppendRaw
      <4>4. QED
        BY <4>2, <4>3
    <3>4. experiences' = experiences \/ ImportRow
            \/ \E s \in Symbols : RecordCycle(s)
      BY DEF SqliteNext, SwitchBackend, StartImport, EndImport, CutImport,
         tables, sqliteVars
    <3>5. QED
      BY <3>1, <3>2, <3>3, <3>4
  <2> DEFINE g == CHOOSE x \in experiences' : x.row.decision = d
  <2>3. d \in Stored' /\ g \in experiences' /\ g.row.decision = d
    BY <2>1, <2>2 DEF Stored
  <2>4. g.row = e.row
    BY <2>1, <2>2, <2>3 DEF SqliteInv, TablesAgree
  <2>5. outcomes[d] = e.row.closed /\ outcomes'[d] = e.row.closed
    BY <2>1, <2>3, <2>4 DEF SqliteInv, TablesAgree
  <2>6. Lifecycle(d).terminal <=> \/ e.row.status = "rejected"
                                  \/ e.row.execution = "refused"
                                  \/ e.row.execution = "accepted" /\ outcomes[d] # <<>>
    BY DEF Lifecycle
  <2>7. Lifecycle(d)'.terminal <=> \/ g.row.status = "rejected"
                                   \/ g.row.execution = "refused"
                                   \/ g.row.execution = "accepted" /\ outcomes'[d] # <<>>
    BY DEF Lifecycle
  <2>8. QED
    BY <2>3, <2>4, <2>5, <2>6, <2>7
<1>2. QED
  BY SqliteInvariance, <1>1, PTL DEF SqliteSpec, TerminalStays

-----------------------------------------------------------------------------
(* ImportKeepsContext.  The file has each decision once; a running import  *)
(* has stored the rows it is through with, with ids in the file's order;   *)
(* undisturbed, it has read the whole file, and all other rows are older   *)
(* than those; after it the table reads like its own rows and the file.    *)
FileOnce == \A i, j \in DOMAIN file : file[i].decision = file[j].decision => i = j

Through == 1..importing

OrderInv ==
  importing >= 0 =>
    /\ \A i \in Through : \E e \in experiences : e.row = file[i]
    /\ \A i, j \in Through : \A e, f \in experiences :
         e.row = file[i] /\ f.row = file[j] /\ i < j => e.id < f.id

OthersOlder ==
  importing >= 0 /\ undisturbed =>
    /\ read = Len(file)
    /\ \A i \in Through : \A e, f \in experiences :
         e.row = file[i] /\ (\A j \in Through : f.row # file[j]) => f.id < e.id

MirrorInv == Mirrored => ReadRaw = ById(Own) \o file

ImportInv == FileOnce /\ OrderInv /\ OthersOlder /\ MirrorInv

TablesFinite == IsFiniteSet(experiences)

LEMMA FirstOnes ==
  ASSUME NEW S, NEW n \in Nat, NEW g \in Injection(1..n, S), NEW i \in 1..n
  PROVE  Cardinality({g[j] : j \in 1..i - 1}) = i - 1
<1> DEFINE T == {g[j] : j \in 1..i - 1}
           h == [j \in 1..i - 1 |-> g[j]]
<1>1. g \in [1..n -> S] /\ \A a, b \in 1..n : g[a] = g[b] => a = b
  BY DEF Injection, IsInjective
<1>2. 1..i - 1 \subseteq 1..n /\ i - 1 \in Nat
  OBVIOUS
<1>3. h \in [1..i - 1 -> T] /\ \A a, b \in 1..i - 1 : h[a] = h[b] => a = b
  BY <1>1, <1>2
<1>4. \A t \in T : \E a \in 1..i - 1 : h[a] = t
  OBVIOUS
<1>5. h \in Bijection(1..i - 1, T)
  <2> HIDE DEF T, h
  <2> QED BY <1>3, <1>4 DEF Bijection, Injection, Surjection, IsInjective
<1>6. QED
  BY <1>2, <1>5, FS_CountingElements DEF ExistsBijection

(* A table with the rows of the file, in its order, after all of its own   *)
(* reads like its own rows and the file.                                   *)
LEMMA ReadsOwnAndFile ==
  ASSUME SqliteInv, FileOnce, OrderInv, OthersOlder, importing = Len(file), undisturbed,
         IsFiniteSet(experiences)
  PROVE  ReadRaw = ById(Own) \o file
<1> DEFINE n == Len(file)
           m == Cardinality(Own)
           g == [i \in 1..n |-> CHOOSE e \in experiences : e.row = file[i]]
           T == {g[i] : i \in 1..n}
<1>1. n \in Nat /\ DOMAIN file = 1..n /\ file \in Seq(Row) /\ file \in [1..n -> Row]
  BY DEF SqliteInv, SqliteTypeOK
<1>2. Through = 1..n /\ importing >= 0
  BY <1>1 DEF Through
<1>3. \A i \in 1..n : g[i] \in experiences /\ g[i].row = file[i]
  BY <1>2 DEF OrderInv
<1>4. g \in [1..n -> experiences]
  BY <1>3
<1> HIDE DEF g
<1>5. \A i, j \in 1..n : g[i] = g[j] => i = j
  BY <1>1, <1>3 DEF FileOnce
<1>6. g \in Injection(1..n, experiences) /\ g \in Injection(1..n, T)
  <2>1. g \in [1..n -> T]
    BY <1>4
  <2> HIDE DEF T
  <2>2. QED
    BY <1>4, <1>5, <2>1 DEF Injection, IsInjective
<1>7. \A e, f \in experiences : e.row = f.row => e = f
  BY DEF SqliteInv, TablesAgree
<1>8. \A e \in experiences : e \in Own \/ \E i \in 1..n : e = g[i]
  BY <1>1, <1>3, <1>7 DEF Own
<1>9. \A i \in 1..n : g[i] \notin Own
  BY <1>1, <1>3 DEF Own
<1>10. /\ Own \subseteq experiences /\ IsFiniteSet(Own) /\ m \in Nat
       /\ experiences = Own \cup T /\ Own \cap T = {}
  BY <1>3, <1>8, <1>9, SizeGrows DEF Own
<1>11. Cardinality(experiences) = m + n
  <2>1. IsFiniteSet(T) /\ Cardinality(T) = n
    <3>1. g \in Bijection(1..n, T)
      <4>1. \A t \in T : \E i \in 1..n : g[i] = t
        OBVIOUS
      <4> HIDE DEF T
      <4>2. QED
        BY <1>6, <4>1 DEF Bijection, Injection, Surjection
    <3>2. IsFiniteSet(T)
      BY <1>10, SizeGrows
    <3> HIDE DEF T
    <3>3. ExistsBijection(1..n, T)
      BY <3>1 DEF ExistsBijection
    <3>4. Cardinality(T) = n
      BY <1>1, <3>3, FS_CountingElements
    <3>5. QED
      BY <3>2, <3>4
  <2>2. QED
    BY <1>10, <2>1, SizeDisjoint
<1>12. \A e \in experiences : e.id \in Nat
  BY DEF SqliteInv, SqliteTypeOK
<1>13. \A a, b \in 1..n : a < b => g[a].id < g[b].id
  BY <1>2, <1>3 DEF OrderInv
<1>14. \A a \in 1..n : \A f \in Own : f.id < g[a].id
  BY <1>1, <1>2, <1>3, <1>10 DEF OthersOlder, Own
<1> HIDE DEF T
<1>15. ASSUME NEW i \in 1..n
       PROVE  Cardinality({f \in experiences : f.id < g[i].id}) = m + (i - 1)
  <2> DEFINE P == {g[j] : j \in 1..i - 1}
             B == {f \in experiences : f.id < g[i].id}
  <2>1. Cardinality(P) = i - 1
    BY <1>1, <1>6, FirstOnes
  <2>2. B = Own \cup P
    <3>1. ASSUME NEW f \in B PROVE f \in Own \cup P
      <4>1. CASE f \in Own
        BY <4>1
      <4>2. ASSUME NEW j \in 1..n, f = g[j] PROVE f \in P
        <5>1. i = j => FALSE
          BY <1>3, <1>12, <4>2
        <5>2. i < j => FALSE
          BY <1>3, <1>12, <1>13, <4>2
        <5>3. j \in 1..i - 1
          BY <1>1, <5>1, <5>2
        <5>4. QED
          BY <4>2, <5>3
      <4>3. QED
        BY <1>8, <4>1, <4>2
    <3>2. ASSUME NEW j \in 1..i - 1 PROVE g[j] \in B
      <4>1. j \in 1..n /\ j < i
        BY <1>1
      <4>2. QED
        BY <1>3, <1>13, <4>1
    <3>3. Own \subseteq B
      BY <1>10, <1>14
    <3>4. QED
      BY <3>1, <3>2, <3>3
  <2>3. Own \cap P = {} /\ P \subseteq experiences
    <3>1. \A j \in 1..i - 1 : j \in 1..n
      BY <1>1
    <3>2. QED
      BY <1>3, <1>9, <3>1
  <2> HIDE DEF P, B
  <2>4. IsFiniteSet(P)
    BY <2>3, SizeGrows
  <2>5. Cardinality(B) = m + (i - 1)
    BY <1>10, <2>1, <2>2, <2>3, <2>4, SizeDisjoint
  <2>6. QED
    BY <2>5 DEF B
<1>16. ASSUME NEW e \in Own
       PROVE  /\ {f \in experiences : f.id < e.id} = {f \in Own : f.id < e.id}
              /\ Cardinality({f \in experiences : f.id < e.id}) \in Nat
              /\ Cardinality({f \in experiences : f.id < e.id}) < m
  <2> DEFINE B == {f \in Own : f.id < e.id}
  <2>1. e \in experiences /\ e.id \in Nat
    BY <1>10, <1>12
  <2>2. ASSUME NEW f \in experiences, f.id < e.id PROVE f \in Own
    <3>1. ASSUME NEW j \in 1..n, f = g[j] PROVE FALSE
      BY <1>3, <1>12, <1>14, <2>1, <2>2, <3>1
    <3>2. QED
      BY <1>8, <3>1
  <2>3. {f \in experiences : f.id < e.id} = B
    BY <1>10, <2>2
  <2>4. B \subseteq Own \ {e}
    BY <2>1
  <2> HIDE DEF B
  <2>5. Cardinality(B) \in Nat /\ Cardinality(B) < m
    <3>1. /\ Cardinality(B) \in Nat /\ Cardinality(Own) \in Nat
          /\ Cardinality(B) + 1 <= Cardinality(Own)
      BY <1>10, <2>4, SizeLess
    <3>2. QED
      BY <3>1
  <2>6. QED
    BY <2>3, <2>5 DEF B
<1>17. ASSUME NEW k \in 1..m
       PROVE  Ranked(experiences, k - 1) = Ranked(Own, k - 1)
  <2>1. ASSUME NEW e \in Ranked(experiences, k - 1) PROVE e \in Ranked(Own, k - 1)
    <3>1. e \in experiences /\ Cardinality({f \in experiences : f.id < e.id}) = k - 1
      BY DEF Ranked
    <3>2. ASSUME NEW j \in 1..n, e = g[j] PROVE FALSE
      BY <1>1, <1>10, <1>15, <3>1, <3>2
    <3>3. e \in Own
      BY <1>8, <3>1, <3>2
    <3>4. QED
      BY <1>16, <3>1, <3>3 DEF Ranked
  <2>2. ASSUME NEW e \in Ranked(Own, k - 1) PROVE e \in Ranked(experiences, k - 1)
    <3>1. e \in Own /\ Cardinality({f \in Own : f.id < e.id}) = k - 1
      BY DEF Ranked
    <3>2. QED
      BY <1>10, <1>16, <3>1 DEF Ranked
  <2>3. QED
    BY <2>1, <2>2
<1>18. ASSUME NEW i \in 1..n
       PROVE  Ranked(experiences, m + (i - 1)) = {g[i]}
  <2>1. g[i] \in Ranked(experiences, m + (i - 1))
    BY <1>3, <1>15 DEF Ranked
  <2>2. ASSUME NEW e \in Ranked(experiences, m + (i - 1)) PROVE e = g[i]
    <3>1. e \in experiences /\ Cardinality({f \in experiences : f.id < e.id}) = m + (i - 1)
      BY DEF Ranked
    <3>2. e \notin Own
      BY <1>1, <1>10, <1>16, <3>1
    <3>3. PICK j \in 1..n : e = g[j]
      BY <1>8, <3>1, <3>2
    <3>4. m + (j - 1) = m + (i - 1)
      BY <1>15, <3>1, <3>3
    <3>5. j = i
      BY <1>1, <1>10, <3>4
    <3>6. QED
      BY <3>3, <3>5
  <2>3. QED
    BY <2>1, <2>2
<1> DEFINE r(k) == (CHOOSE e \in Ranked(experiences, k - 1) : TRUE).row
           o == ById(Own)
<1>19. ReadRaw = [k \in 1..m + n |-> r(k)]
  BY <1>11 DEF ReadRaw, ById
<1>20. o = [k \in 1..m |-> r(k)]
  <2>1. \A k \in 1..m : (CHOOSE e \in Ranked(Own, k - 1) : TRUE).row = r(k)
    BY <1>17
  <2> HIDE DEF r
  <2>2. QED
    BY <2>1, Zenon DEF ById
<1>21. \A i \in 1..n : r(m + i) = file[i]
  <2> SUFFICES ASSUME NEW i \in 1..n PROVE r(m + i) = file[i]
    OBVIOUS
  <2>1. (m + i) - 1 = m + (i - 1)
    BY <1>1, <1>10
  <2>2. Ranked(experiences, (m + i) - 1) = {g[i]}
    BY <1>18, <2>1
  <2>3. QED
    BY <1>3, <2>2
<1> HIDE DEF r, o
<1> DEFINE Rows == {r(k) : k \in 1..m + n} \cup Row
<1>22. \A k \in 1..m + n : r(k) \in Rows
  OBVIOUS
<1>23. o \in Seq(Rows) /\ Len(o) = m /\ \A k \in 1..m : o[k] = r(k)
  BY <1>1, <1>10, <1>20, <1>22
<1>24. ReadRaw \in Seq(Rows) /\ Len(ReadRaw) = m + n /\ \A k \in 1..m + n : ReadRaw[k] = r(k)
  BY <1>1, <1>10, <1>19, <1>22
<1>25. file \in Seq(Rows)
  BY <1>1
<1> HIDE DEF Rows, n, m
<1>26. /\ o \o file \in Seq(Rows) /\ Len(o \o file) = m + n
       /\ \A k \in 1..m + n : (o \o file)[k] = IF k <= m THEN o[k] ELSE file[k - m]
  BY <1>23, <1>25, ConcatProperties DEF n
<1>27. ASSUME NEW k \in 1..m + n PROVE ReadRaw[k] = (o \o file)[k]
  <2>1. CASE k <= m
    BY <1>10, <1>23, <1>24, <1>26, <2>1
  <2>2. CASE ~(k <= m)
    <3>1. k - m \in 1..n /\ m + (k - m) = k
      BY <1>1, <1>10, <2>2
    <3>2. r(m + (k - m)) = file[k - m]
      BY <1>21, <3>1
    <3>3. QED
      BY <1>24, <1>26, <2>2, <3>1, <3>2
  <2>3. QED
    BY <2>1, <2>2
<1>28. ReadRaw = o \o file
  BY <1>24, <1>26, <1>27, SeqEqual
<1>29. QED
  BY <1>28 DEF o

(* What is not written to is read as before.                               *)
LEMMA ReadingStays ==
  ASSUME ImportInv, UNCHANGED <<file, experiences, importing, read, undisturbed>>
  PROVE  ImportInv'
<1>1. ReadRaw' = ReadRaw /\ ById(Own)' = ById(Own)
  BY DEF ReadRaw, Own, ById, Ranked
<1>2. MirrorInv'
  BY <1>1 DEF ImportInv, MirrorInv, Mirrored
<1>3. FileOnce' /\ OrderInv'
  BY DEF ImportInv, FileOnce, OrderInv, Through
<1>4. OthersOlder'
  BY DEF ImportInv, OthersOlder, Through
<1>5. QED
  BY <1>2, <1>3, <1>4 DEF ImportInv

LEMMA ImportStep ==
  ASSUME SqliteInv, SqliteInv', ImportInv, IsFiniteSet(experiences), SqliteNext
  PROVE  ImportInv' /\ IsFiniteSet(experiences')
<1>0. /\ made \in Nat /\ file \in Seq(Row) /\ DOMAIN file = 1..Len(file) /\ Len(file) \in Nat
      /\ read \in Nat /\ read <= Len(file) /\ importing \in -1..read
      /\ lastId \in Nat /\ \A e \in experiences : e.id \in 1..lastId
  BY StoreBoundsAssumption DEF SqliteInv, SqliteTypeOK
<1>1. ASSUME NEW row, AppendRaw(row)
      PROVE  IsFiniteSet(experiences')
  <2>1. IsFiniteSet({e \in experiences : e.row.decision # row.decision})
    BY SizeGrows
  <2>2. QED
    BY <1>1, <2>1, FS_AddElement DEF AppendRaw
<1>2. ASSUME NEW row, AppendRaw(row), UNCHANGED <<file, importing>>,
             \A i \in DOMAIN file : file[i].decision # row.decision
      PROVE  OrderInv'
  <2>1. \A i \in Through : i \in DOMAIN file
    BY <1>0 DEF Through
  <2>2. \A e \in experiences' : e \in experiences \/ e.row = row
    BY <1>2 DEF AppendRaw
  <2>3. ASSUME NEW i \in Through, importing >= 0 PROVE \E e \in experiences' : e.row = file[i]
    <3>1. PICK e \in experiences : e.row = file[i]
      BY <2>3 DEF OrderInv, ImportInv
    <3>2. e \in experiences'
      BY <1>2, <2>1, <3>1 DEF AppendRaw
    <3>3. QED
      BY <3>1, <3>2
  <2>4. \A e \in experiences' : \A i \in Through : e.row = file[i] => e \in experiences
    BY <1>2, <2>1, <2>2
  <2>5. QED
    BY <1>2, <2>3, <2>4 DEF OrderInv, ImportInv, Through
<1>3. ASSUME NEW s \in Symbols, RecordCycle(s)
      PROVE  ImportInv' /\ IsFiniteSet(experiences')
  <2>1. PICK row \in Experiences(s) :
          IF backend = "sqlite" THEN AppendRaw(row) /\ UNCHANGED file
                                ELSE file' = file \o <<row>> /\ UNCHANGED tables
    BY <1>3 DEF RecordCycle
  <2>2. row.decision = made + 1 /\ undisturbed' = FALSE /\ importing' = importing
    BY <1>3, <2>1 DEF RecordCycle, Experiences
  <2>3. MirrorInv' /\ OthersOlder'
    BY <2>2 DEF MirrorInv, Mirrored, OthersOlder
  <2>4. \A i \in DOMAIN file : file[i].decision # row.decision
    BY <1>0, <2>2 DEF SqliteInv, SameRowInv
  <2>5. CASE backend = "sqlite"
    <3>1. AppendRaw(row) /\ UNCHANGED file
      BY <2>1, <2>5
    <3>2. OrderInv' /\ IsFiniteSet(experiences')
      BY <1>1, <1>2, <2>2, <2>4, <3>1
    <3>3. QED
      BY <2>3, <3>1, <3>2 DEF ImportInv, FileOnce
  <2>6. CASE backend # "sqlite"
    <3>1. file' = file \o <<row>> /\ UNCHANGED experiences
      BY <2>1, <2>6 DEF tables
    <3>2. row \in Row
      <4>1. file' \in Seq(Row)
        BY DEF SqliteInv, SqliteTypeOK
      <4>2. file' = Append(file, row)
        BY <1>0, <3>1
      <4>3. Len(file') = Len(file) + 1 /\ file'[Len(file) + 1] = row
        BY <1>0, <4>2
      <4>4. QED
        BY <1>0, <4>1, <4>3
    <3>3. /\ DOMAIN file' = 1..Len(file) + 1 /\ file'[Len(file) + 1] = row
          /\ \A i \in DOMAIN file : file'[i] = file[i]
      BY <1>0, <3>1, <3>2
    <3>4. \A i \in DOMAIN file' : i = Len(file) + 1 \/ i \in DOMAIN file
      BY <1>0, <3>3
    <3>5. FileOnce'
      <4> SUFFICES ASSUME NEW i \in DOMAIN file', NEW j \in DOMAIN file',
                          file'[i].decision = file'[j].decision
                   PROVE  i = j
        BY DEF FileOnce
      <4>1. CASE i \in DOMAIN file /\ j \in DOMAIN file
        BY <3>3, <4>1 DEF ImportInv, FileOnce
      <4>2. CASE i = Len(file) + 1 /\ j \in DOMAIN file
        BY <2>4, <3>3, <4>2
      <4>3. CASE i \in DOMAIN file /\ j = Len(file) + 1
        BY <2>4, <3>3, <4>3
      <4>4. QED
        BY <3>4, <4>1, <4>2, <4>3
    <3>6. \A i \in Through : file'[i] = file[i]
      BY <1>0, <3>3 DEF Through
    <3>7. OrderInv'
      <4>1. Through' = Through /\ experiences' = experiences /\ importing' = importing
        BY <2>2, <3>1 DEF Through
      <4>2. OrderInv
        BY DEF ImportInv
      <4> HIDE DEF Through
      <4>3. QED
        BY <3>6, <4>1, <4>2, SMTT(30) DEF OrderInv
    <3>8. QED
      BY <2>3, <3>1, <3>5, <3>7 DEF ImportInv
  <2>7. QED
    BY <2>5, <2>6
<1>4. ASSUME ImportRow PROVE ImportInv' /\ IsFiniteSet(experiences')
  <2> DEFINE k == importing + 1
  <2>1. /\ importing \in 0..read - 1 /\ AppendRaw(file[k]) /\ importing' = k
        /\ UNCHANGED <<file, undisturbed, read>>
    BY <1>4 DEF ImportRow
  <2>2. k \in DOMAIN file /\ k \in Nat /\ importing >= 0 /\ Through' = Through \cup {k}
        /\ Through \subseteq DOMAIN file /\ k \notin Through
        /\ \A i \in Through : i < k
    BY <1>0, <2>1 DEF Through
  <2> HIDE DEF k
  <2>3. /\ experiences' = {e \in experiences : e.row.decision # file[k].decision}
                            \cup {[id |-> lastId + 1, row |-> file[k]]}
    BY <2>1 DEF AppendRaw
  <2> DEFINE new == [id |-> lastId + 1, row |-> file[k]]
  <2>4. new.id = lastId + 1 /\ new.row = file[k] /\ new \in experiences'
    BY <2>3
  <2>5. \A e \in experiences' : e = new \/ e \in experiences
    BY <2>3
  <2> HIDE DEF new
  <2>6. \A i \in Through : file[i].decision # file[k].decision
    BY <2>2 DEF ImportInv, FileOnce
  <2>7. ASSUME NEW i \in Through' PROVE \E e \in experiences' : e.row = file[i]
    <3>1. CASE i = k
      BY <2>4, <3>1
    <3>2. CASE i \in Through
      <4>1. PICK e \in experiences : e.row = file[i]
        BY <2>2, <3>2 DEF ImportInv, OrderInv
      <4>2. e \in experiences'
        BY <2>3, <2>6, <3>2, <4>1
      <4>3. QED
        BY <4>1, <4>2
    <3>3. QED
      BY <2>2, <3>1, <3>2
  <2>8. ASSUME NEW i \in Through', NEW j \in Through', NEW e \in experiences',
               NEW f \in experiences', e.row = file[i], f.row = file[j], i < j
        PROVE  e.id < f.id
    <3>1. i \in Through
      BY <1>0, <2>1, <2>2, <2>8 DEF Through
    <3>2. e \in experiences
      BY <2>4, <2>5, <2>6, <2>8, <3>1
    <3>3. CASE j = k
      <4>1. f = new
        BY <2>3, <2>8, <3>3 DEF new
      <4>2. QED
        BY <1>0, <2>4, <3>2, <4>1
    <3>4. CASE j \in Through
      <4>1. f \in experiences
        BY <2>4, <2>5, <2>6, <2>8, <3>4
      <4>2. QED
        BY <2>2, <2>8, <3>1, <3>2, <3>4, <4>1 DEF ImportInv, OrderInv
    <3>5. QED
      BY <2>2, <3>3, <3>4
  <2>9. OrderInv'
    <3>1. file' = file
      BY <2>1
    <3>2. \A i \in Through' : \E e \in experiences' : e.row = file'[i]
      BY <2>7, <3>1
    <3>3. \A i, j \in Through' : \A e, f \in experiences' :
            e.row = file'[i] /\ f.row = file'[j] /\ i < j => e.id < f.id
      BY <2>8, <3>1
    <3>4. QED
      BY <3>2, <3>3, Zenon DEF OrderInv
  <2>10. FileOnce' /\ MirrorInv'
    BY <2>1, <2>2 DEF ImportInv, FileOnce, MirrorInv, Mirrored
  <2>11. IsFiniteSet(experiences')
    BY <1>1, <2>1
  <2>12. ASSUME undisturbed, NEW i \in Through', NEW e \in experiences', NEW f \in experiences',
                e.row = file[i], \A j \in Through' : f.row # file[j]
         PROVE  f.id < e.id
    <3>1. f \in experiences /\ f.id \in 1..lastId
      BY <1>0, <2>2, <2>4, <2>5, <2>12
    <3>2. CASE i = k
      <4>1. e = new
        BY <2>3, <2>12, <3>2 DEF new
      <4>2. QED
        BY <1>0, <2>4, <3>1, <4>1
    <3>3. CASE i \in Through
      <4>1. e \in experiences
        BY <2>4, <2>5, <2>6, <2>12, <3>3
      <4>2. \A j \in Through : f.row # file[j]
        BY <2>2, <2>12
      <4>3. QED
        BY <2>2, <2>12, <3>1, <3>3, <4>1, <4>2 DEF ImportInv, OthersOlder
    <3>4. QED
      BY <2>2, <3>2, <3>3
  <2>13. OthersOlder'
    <3>1. file' = file /\ undisturbed' = undisturbed /\ read' = read
      BY <2>1
    <3>2. undisturbed => read = Len(file)
      BY <2>2 DEF ImportInv, OthersOlder
    <3>3. undisturbed => \A i \in Through' : \A e, f \in experiences' :
            e.row = file'[i] /\ (\A j \in Through' : f.row # file'[j]) => f.id < e.id
      BY <2>12, <3>1
    <3>4. QED
      BY <3>1, <3>2, <3>3, Zenon DEF OthersOlder
  <2>14. QED
    BY <2>9, <2>10, <2>11, <2>13 DEF ImportInv
<1>5. ASSUME SwitchBackend PROVE ImportInv' /\ IsFiniteSet(experiences')
  <2>1. UNCHANGED <<file, experiences, importing, read, undisturbed>>
    BY <1>5 DEF SwitchBackend, tables
  <2>2. QED
    BY <2>1, ReadingStays
<1>6. ASSUME StartImport PROVE ImportInv' /\ IsFiniteSet(experiences')
  <2>1. importing' = 0 /\ read' = Len(file) /\ UNCHANGED <<file, experiences>>
    BY <1>6 DEF StartImport, tables
  <2>2. Through' = {}
    BY <2>1 DEF Through
  <2>3. QED
    BY <2>1, <2>2 DEF ImportInv, FileOnce, OrderInv, OthersOlder, MirrorInv, Mirrored
<1>7. ASSUME EndImport PROVE ImportInv' /\ IsFiniteSet(experiences')
  <2>1. /\ importing = read /\ importing' = -1 /\ importing >= 0
        /\ UNCHANGED <<file, experiences, undisturbed>>
    BY <1>0, <1>7 DEF EndImport, tables
  <2>2. undisturbed => ReadRaw = ById(Own) \o file
    <3>1. SUFFICES ASSUME undisturbed PROVE ReadRaw = ById(Own) \o file
      OBVIOUS
    <3>2. importing = Len(file)
      BY <2>1, <3>1 DEF ImportInv, OthersOlder
    <3>3. QED
      BY <3>1, <3>2, ReadsOwnAndFile DEF ImportInv
  <2>3. ~(importing' >= 0) /\ ReadRaw' = ReadRaw /\ ById(Own)' = ById(Own)
    BY <2>1 DEF ReadRaw, Own, ById, Ranked
  <2>4. FileOnce' /\ OrderInv' /\ OthersOlder'
    BY <2>1, <2>3 DEF ImportInv, FileOnce, OrderInv, OthersOlder
  <2>5. MirrorInv'
    BY <2>1, <2>2, <2>3 DEF MirrorInv, Mirrored
  <2>6. QED
    BY <2>1, <2>4, <2>5 DEF ImportInv
<1>8. ASSUME CutImport PROVE ImportInv' /\ IsFiniteSet(experiences')
  <2>1. importing' = -1 /\ undisturbed' = FALSE /\ UNCHANGED <<file, experiences>>
    BY <1>8 DEF CutImport, tables
  <2>2. QED
    BY <2>1 DEF ImportInv, FileOnce, OrderInv, OthersOlder, MirrorInv, Mirrored
<1>9. QED
  BY <1>3, <1>4, <1>5, <1>6, <1>7, <1>8 DEF SqliteNext

(* After a whole import with no decision beside it, whatever was imported, *)
(* cut off or written to the table before, the tables read like the rows   *)
(* the agent wrote to them itself and then the file, row by row, so that   *)
(* every memory context made of either is the same.                        *)
THEOREM ImportsKeepContext == SqliteSpec => []ImportKeepsContext
<1>1. SqliteInit => ImportInv /\ TablesFinite
  <2> SUFFICES ASSUME SqliteInit PROVE ImportInv /\ TablesFinite
    OBVIOUS
  <2>1. file = <<>> /\ experiences = {} /\ importing = -1 /\ undisturbed = FALSE
    BY DEF SqliteInit
  <2>2. DOMAIN file = {} /\ ~(importing >= 0)
    BY <2>1
  <2>3. QED
    BY <2>1, <2>2, FS_EmptySet
       DEF TablesFinite, ImportInv, FileOnce, OrderInv, OthersOlder, MirrorInv, Mirrored
<1>2. SqliteInv /\ SqliteInv' /\ ImportInv /\ TablesFinite /\ [SqliteNext]_sqliteVars
        => ImportInv' /\ TablesFinite'
  <2>1. ASSUME UNCHANGED sqliteVars, ImportInv, TablesFinite
        PROVE  ImportInv' /\ TablesFinite'
    BY <2>1, ReadingStays DEF sqliteVars, tables, TablesFinite
  <2>2. QED
    BY <2>1, ImportStep DEF TablesFinite
<1>3. ImportInv => ImportKeepsContext
  <2> SUFFICES ASSUME ImportInv, Mirrored, NEW s \in Symbols
               PROVE  Context(ReadSymbolRaw(s)) = Context(JsonlSymbolRows(ById(Own) \o file, s))
    BY DEF ImportKeepsContext
  <2>1. ReadRaw = ById(Own) \o file
    BY DEF ImportInv, MirrorInv
  <2>2. ReadSymbolRaw(s) = JsonlSymbolRows(ById(Own) \o file, s)
    BY <2>1 DEF ReadSymbolRaw, JsonlSymbolRows
  <2>3. QED
    BY <2>2
<1>4. QED
  BY <1>1, <1>2, <1>3, SqliteInvariance, PTL DEF SqliteSpec

-----------------------------------------------------------------------------
(* VectorMemory.                                                           *)

LEMMA VectorInitInv == VectorInit => VectorInv
<1> SUFFICES ASSUME VectorInit PROVE VectorInv
  OBVIOUS
<1>1. Covered = {}
  BY DEF VectorInit, Covered
<1>2. QED
  BY <1>1, VectorBoundsAssumption
     DEF VectorInit, VectorInv, VectorTypeOK, IndexerInv, NothingForgotten, At

-----------------------------------------------------------------------------
LEMMA VectorStepInv ==
  ASSUME VectorInv, NEW p \in Indexers, VectorStep(p)
  PROVE  VectorInv'
<1> USE VectorBoundsAssumption
    DEF VectorInv, VectorTypeOK, IndexerInv, At, Advance, tableVars
<1>1. ASSUME NEW s \in Tickers, Decides(p, s) PROVE VectorInv'
  <2> DEFINE new == [created |-> clock + 1, symbol |-> s]
  <2>1. new \in Document /\ new.created = clock + 1
    BY <1>1 DEF Decides, Document
  <2>2. /\ document' = [document EXCEPT ![p] = new]
        /\ stage' = [stage EXCEPT ![p] = "upsert"] /\ stage[p] = "idle"
        /\ clock' = clock + 1 /\ clock' \in 0..MaxStamps
        /\ UNCHANGED <<documents, compacted, summaries, batch, aborts, dropped, told>>
    BY <1>1 DEF Decides
  <2> HIDE DEF new
  <2>3. \A d \in Document : d.created \in Nat
    BY DEF Document
  <2>4. VectorTypeOK'
    BY <2>1, <2>2
  <2>5. Covered' = Covered
    BY <2>2 DEF Covered
  <2>6. \A d \in documents : d.created <= clock' /\ d # new
    BY <2>1, <2>2, <2>3
  <2>7. \A q \in Indexers : stage[q] # "idle" =>
          document[q].created <= clock' /\ document[q] # new
    BY <2>1, <2>2, <2>3
  <2>8. IndexerInv'
    BY <2>1, <2>2, <2>5, <2>6, <2>7
  <2>9. NothingForgotten'
    BY <2>2, <2>5 DEF NothingForgotten
  <2>10. QED
    BY <2>4, <2>8, <2>9
<1>2. CASE Upsert(p)
  <2>1. /\ documents' = documents \cup {document[p]}
        /\ compacted' = compacted \ {document[p]}
        /\ stage' = [stage EXCEPT ![p] = "read"] /\ stage[p] = "upsert"
        /\ UNCHANGED <<summaries, clock, document, batch, aborts, dropped, told>>
    BY <1>2 DEF Upsert
  <2>2. document[p] \notin documents /\ document[p] \in Document
    BY <2>1
  <2>3. compacted' = compacted
    BY <2>1, <2>2
  <2>4. Covered' = Covered
    BY <2>1 DEF Covered
  <2>5. VectorTypeOK'
    BY <2>1, <2>2, <2>3
  <2>6. IndexerInv'
    BY <2>1, <2>2, <2>3, <2>4
  <2>7. NothingForgotten'
    BY <2>1, <2>3, <2>4 DEF NothingForgotten
  <2>8. QED
    BY <2>5, <2>6, <2>7
<1>3. CASE ReadRows(p)
  <2>1. Candidates(document[p].symbol) \subseteq documents
    BY DEF Candidates, Active
  <2>2. /\ batch' = [batch EXCEPT ![p] = Candidates(document[p].symbol)]
        /\ stage' = [stage EXCEPT ![p] = IF batch'[p] = {} THEN "idle" ELSE "mark"]
        /\ stage[p] = "read"
        /\ UNCHANGED <<documents, compacted, summaries, clock, document, aborts, dropped, told>>
    BY <1>3 DEF ReadRows
  <2>3. Covered' = Covered
    BY <2>2 DEF Covered
  <2>4. VectorTypeOK'
    BY <2>1, <2>2
  <2>5. IndexerInv'
    BY <2>1, <2>2, <2>3
  <2>6. NothingForgotten'
    BY <2>2, <2>3 DEF NothingForgotten
  <2>7. QED
    BY <2>4, <2>5, <2>6
<1>4. CASE Mark(p)
  <2>1. /\ compacted' = compacted \cup batch[p]
        /\ stage' = [stage EXCEPT ![p] = "summarize"] /\ stage[p] = "mark"
        /\ UNCHANGED <<documents, summaries, clock, document, batch, aborts, dropped, told>>
    BY <1>4 DEF Mark
  <2>2. Covered' = Covered
    BY <2>1 DEF Covered
  <2>3. VectorTypeOK' /\ IndexerInv'
    BY <2>1, <2>2
  <2>4. NothingForgotten'
    BY <2>1, <2>2 DEF NothingForgotten
  <2>5. QED
    BY <2>3, <2>4
<1>5. CASE Summarize(p)
  <2> DEFINE new == [symbol |-> document[p].symbol, covers |-> batch[p]]
  <2>1. /\ summaries' = summaries \cup {new}
        /\ batch' = [batch EXCEPT ![p] = {}]
        /\ stage' = [stage EXCEPT ![p] = "idle"] /\ stage[p] = "summarize"
        /\ told' = [told EXCEPT ![p] = @ \cup batch[p]]
        /\ UNCHANGED <<documents, compacted, clock, document, aborts, dropped>>
    BY <1>5 DEF Summarize
  <2>2. new.covers = batch[p] /\ new \in [symbol : Tickers, covers : SUBSET documents]
    BY <2>1 DEF Document
  <2> HIDE DEF new
  <2>3. Covered' = Covered \cup batch[p]
    BY <2>1, <2>2 DEF Covered
  <2>4. VectorTypeOK'
    BY <2>1, <2>2
  <2>5. IndexerInv'
    BY <2>1, <2>3
  <2>6. NothingForgotten'
    BY <2>1, <2>3 DEF NothingForgotten
  <2>7. QED
    BY <2>4, <2>5, <2>6
<1>6. CASE Abort(p)
  <2>1. /\ dropped' = (IF stage[p] = "summarize" THEN dropped \cup batch[p] ELSE dropped)
        /\ batch' = [batch EXCEPT ![p] = {}]
        /\ stage' = [stage EXCEPT ![p] = "idle"]
        /\ aborts' \in 0..MaxAborts
        /\ UNCHANGED <<documents, compacted, summaries, clock, document, told>>
    BY <1>6 DEF Abort
  <2>2. Covered' = Covered
    BY <2>1 DEF Covered
  <2>3. VectorTypeOK' /\ IndexerInv'
    BY <2>1, <2>2
  <2>4. NothingForgotten'
    BY <2>1, <2>2 DEF NothingForgotten
  <2>5. QED
    BY <2>3, <2>4
<1>7. QED
  BY <1>1, <1>2, <1>3, <1>4, <1>5, <1>6 DEF VectorStep

(* A document is active, in a batch about to be summarized, or summarized. *)
THEOREM VectorInvariance == VectorSpec => []VectorInv
<1>1. VectorInv /\ [VectorNext]_vectorVars => VectorInv'
  <2> SUFFICES ASSUME VectorInv, [VectorNext]_vectorVars PROVE VectorInv'
    OBVIOUS
  <2>1. CASE UNCHANGED vectorVars
    BY <2>1 DEF vectorVars, tableVars, VectorInv, VectorTypeOK, IndexerInv,
       NothingForgotten, Covered, At
  <2>2. CASE VectorNext
    BY <2>2, VectorStepInv DEF VectorNext
  <2>3. QED
    BY <2>1, <2>2
<1>2. QED
  BY VectorInitInv, <1>1, PTL DEF VectorSpec

TellersFinite ==
  /\ IsFiniteSet(summaries)
  /\ IsFiniteSet({p \in Indexers : told[p] # {}})

ToldInv == TellersFinite /\ OnceInv

(* A step that leaves the summaries alone, and takes into hand at most     *)
(* documents that are in none.                                             *)
LEMMA NothingTold ==
  ASSUME VectorInv, ToldInv, UNCHANGED <<summaries, told>>, documents \subseteq documents',
         \A p \in Indexers : batch'[p] \cap Covered \subseteq batch[p],
         \A d \in documents' \ documents : d \notin Covered
  PROVE  ToldInv'
<1>1. Covered' = Covered
  BY DEF Covered
<1>2. TellersFinite'
  BY DEF ToldInv, TellersFinite
<1>3. ASSUME NEW p \in Indexers
      PROVE  batch'[p] \cap told'[p] = {} /\ told'[p] \subseteq Covered'
  BY <1>1, <1>3 DEF ToldInv, OnceInv
<1>4. ASSUME NEW d \in documents'
      PROVE  Cardinality({m \in summaries' : d \in m.covers})
               <= Cardinality({p \in Indexers : d \in told'[p]})
  <2>1. CASE d \in documents
    BY <2>1 DEF ToldInv, OnceInv, OnceEach
  <2>2. CASE d \notin documents
    <3>1. {m \in summaries : d \in m.covers} = {}
      BY <2>2 DEF Covered
    <3>2. {p \in Indexers : d \in told[p]} = {}
      BY <2>2 DEF VectorInv, VectorTypeOK
    <3>3. QED
      BY <3>1, <3>2, FS_EmptySet
  <2>3. QED
    BY <2>1, <2>2
<1>5. QED
  BY <1>2, <1>3, <1>4 DEF ToldInv, OnceInv, OnceEach

LEMMA ToldStep ==
  ASSUME VectorInv, VectorInv', ToldInv, NEW p \in Indexers, VectorStep(p)
  PROVE  ToldInv'
<1> USE DEF At, Advance, tableVars
<1>0. Covered \subseteq compacted /\ compacted \subseteq documents
  BY DEF VectorInv, VectorTypeOK, IndexerInv
<1>1. ASSUME NEW s \in Tickers, Decides(p, s) PROVE ToldInv'
  BY <1>1, NothingTold DEF Decides
<1>2. CASE Upsert(p)
  <2>1. \A d \in documents' \ documents : d \notin Covered
    BY <1>0, <1>2 DEF Upsert
  <2>2. QED
    BY <1>2, <2>1, NothingTold DEF Upsert
<1>3. CASE ReadRows(p)
  <2>1. Candidates(document[p].symbol) \cap Covered = {}
    BY <1>0 DEF Candidates, Active
  <2>2. /\ batch' = [batch EXCEPT ![p] = Candidates(document[p].symbol)]
        /\ UNCHANGED <<summaries, told, documents>>
    BY <1>3 DEF ReadRows
  <2>3. \A q \in Indexers : batch'[q] \cap Covered \subseteq batch[q]
    <3>1. batch \in [Indexers -> SUBSET documents]
      BY DEF VectorInv, VectorTypeOK
    <3>2. QED
      BY <2>1, <2>2, <3>1
  <2>4. QED
    BY <2>2, <2>3, NothingTold
<1>4. CASE Mark(p)
  BY <1>4, NothingTold DEF Mark
<1>5. CASE Summarize(p)
  <2> DEFINE new == [symbol |-> document[p].symbol, covers |-> batch[p]]
  <2>1. /\ summaries' = summaries \cup {new}
        /\ batch' = [batch EXCEPT ![p] = {}]
        /\ told' = [told EXCEPT ![p] = @ \cup batch[p]]
        /\ UNCHANGED documents
    BY <1>5 DEF Summarize
  <2>2. new.covers = batch[p]
    OBVIOUS
  <2> HIDE DEF new
  <2>3. Covered' = Covered \cup batch[p]
    BY <2>1, <2>2 DEF Covered
  <2>4. batch \in [Indexers -> SUBSET documents] /\ told \in [Indexers -> SUBSET documents]
    BY DEF VectorInv, VectorTypeOK
  <2>5. /\ batch'[p] = {} /\ told'[p] = told[p] \cup batch[p]
        /\ \A q \in Indexers \ {p} : batch'[q] = batch[q] /\ told'[q] = told[q]
    BY <2>1, <2>4
  <2>6. TellersFinite'
    <3>1. IsFiniteSet(summaries')
      BY <2>1, FS_AddElement DEF ToldInv, TellersFinite
    <3>2. {q \in Indexers : told'[q] # {}} \subseteq {q \in Indexers : told[q] # {}} \cup {p}
      BY <2>5
    <3>3. QED
      BY <3>1, <3>2, SizeByOne DEF ToldInv, TellersFinite
  <2>7. ASSUME NEW q \in Indexers
        PROVE  batch'[q] \cap told'[q] = {} /\ told'[q] \subseteq Covered'
    BY <2>3, <2>5 DEF ToldInv, OnceInv
  <2>8. ASSUME NEW d \in documents
        PROVE  Cardinality({m \in summaries' : d \in m.covers})
                 <= Cardinality({q \in Indexers : d \in told'[q]})
    <3> DEFINE M == {m \in summaries : d \in m.covers}
               N == {m \in summaries' : d \in m.covers}
               P == {q \in Indexers : d \in told[q]}
               Q == {q \in Indexers : d \in told'[q]}
    <3>1. IsFiniteSet(M)
      <4>1. M \subseteq summaries
        OBVIOUS
      <4>2. QED
        BY <4>1, SizeGrows DEF ToldInv, TellersFinite
    <3>2. IsFiniteSet(Q)
      <4>1. Q \subseteq {q \in Indexers : told'[q] # {}}
        OBVIOUS
      <4>2. QED
        BY <2>6, <4>1, SizeGrows DEF TellersFinite
    <3>3. Cardinality(M) <= Cardinality(P)
      BY DEF ToldInv, OnceInv, OnceEach
    <3>4. CASE d \in batch[p]
      <4>1. p \in Q /\ P \subseteq Q \ {p}
        BY <2>5, <3>4 DEF ToldInv, OnceInv
      <4>2. N \subseteq M \cup {new}
        BY <2>1
      <4> HIDE DEF M, N, P, Q
      <4>3. /\ Cardinality(P) \in Nat /\ Cardinality(Q) \in Nat
            /\ Cardinality(P) + 1 <= Cardinality(Q)
        BY <3>2, <4>1, SizeLess
      <4>4. /\ Cardinality(N) \in Nat /\ Cardinality(M) \in Nat
            /\ Cardinality(N) <= Cardinality(M) + 1
        BY <3>1, <4>2, SizeByOne
      <4>5. Cardinality(N) <= Cardinality(Q)
        BY <3>3, <4>3, <4>4
      <4>6. QED
        BY <4>5 DEF N, Q
    <3>5. CASE d \notin batch[p]
      <4>1. N = M
        BY <2>1, <2>2, <3>5
      <4>2. Q = P
        BY <2>5, <3>5
      <4>3. QED
        BY <3>3, <4>1, <4>2
    <3>6. QED
      BY <3>4, <3>5
  <2>9. QED
    BY <2>1, <2>6, <2>7, <2>8 DEF ToldInv, OnceInv, OnceEach
<1>6. CASE Abort(p)
  <2>1. batch' = [batch EXCEPT ![p] = {}] /\ UNCHANGED <<summaries, told, documents>>
    BY <1>6 DEF Abort
  <2>2. batch \in [Indexers -> SUBSET documents]
    BY DEF VectorInv, VectorTypeOK
  <2>3. \A q \in Indexers : batch'[q] \subseteq batch[q]
    BY <2>1, <2>2
  <2>4. QED
    BY <2>1, <2>3, NothingTold
<1>7. QED
  BY <1>1, <1>2, <1>3, <1>4, <1>5, <1>6 DEF VectorStep

(* Whatever leaves the search is in a summary or in the hands of a process *)
(* about to write it, but for what a failure kept from being written; no   *)
(* document is found by the search and in a summary; and it is in no more  *)
(* summaries than there are processes that compacted it, each once, for    *)
(* any number of them and however their compactions overlap.               *)
THEOREM CompactionKeepsEachOnce == VectorSpec => []FoundOrSummarized
<1>1. VectorInv => NothingForgotten
  BY DEF VectorInv
<1>2. VectorInv => NeverBoth
  BY DEF VectorInv, IndexerInv, NeverBoth
<1>3. VectorInv /\ ToldInv => FoundOrSummarized
  BY <1>1, <1>2 DEF FoundOrSummarized, ToldInv, OnceInv
<1>4. VectorInit => ToldInv
  <2> SUFFICES ASSUME VectorInit PROVE ToldInv
    OBVIOUS
  <2>1. summaries = {} /\ documents = {} /\ {p \in Indexers : told[p] # {}} = {}
    BY DEF VectorInit
  <2>2. \A p \in Indexers : batch[p] = {} /\ told[p] = {}
    BY DEF VectorInit
  <2>3. QED
    BY <2>1, <2>2, FS_EmptySet DEF ToldInv, TellersFinite, OnceInv, OnceEach
<1>5. VectorInv /\ VectorInv' /\ ToldInv /\ [VectorNext]_vectorVars => ToldInv'
  <2> SUFFICES ASSUME VectorInv, VectorInv', ToldInv, [VectorNext]_vectorVars PROVE ToldInv'
    OBVIOUS
  <2>1. CASE UNCHANGED vectorVars
    BY <2>1, NothingTold DEF vectorVars, tableVars
  <2>2. CASE VectorNext
    BY <2>2, ToldStep DEF VectorNext
  <2>3. QED
    BY <2>1, <2>2
<1>6. QED
  BY VectorInvariance, <1>3, <1>4, <1>5, PTL DEF VectorSpec

-----------------------------------------------------------------------------
(* SearchWindow.  No two documents have the same time; a document that is  *)
(* compacted, or about to be, has its newer ones beside it; and whatever   *)
(* of the compactions under way will be marked, the documents left in the  *)
(* search are few, but for those of the calls that have not read them.     *)
Newer(d) == {e \in documents : e.symbol = d.symbol /\ e.created > d.created}
Waiting == {p \in Indexers : ~At(p, "idle")}

StampInv ==
  /\ \A d, e \in documents : d.created = e.created => d = e
  /\ \A p \in Indexers : At(p, "upsert") =>
       \A d \in documents : d.created # document[p].created
  /\ \A p, q \in Indexers : At(p, "upsert") /\ At(q, "upsert")
       /\ document[p].created = document[q].created => p = q

Gone == compacted \cup UNION {batch[p] : p \in Indexers}
KeptInv == \A d \in Gone : Cardinality(Newer(d)) >= TargetDocuments

Compacting(s) == {p \in Indexers : (At(p, "read") \/ At(p, "mark")) /\ document[p].symbol = s}
Marking(s) == {p \in Compacting(s) : At(p, "mark")}
Left(s, M) == Active(s) \ UNION {batch[p] : p \in M}
Room(s, M) == MaxDocuments + Cardinality(Compacting(s) \ M) + aborts
WindowInv == \A s \in Tickers : \A M \in SUBSET Marking(s) : Cardinality(Left(s, M)) <= Room(s, M)

SizesFinite == IsFiniteSet(documents) /\ IsFiniteSet(Waiting)
SearchInv == SizesFinite /\ StampInv /\ KeptInv /\ WindowInv

LEMMA SizesStep ==
  ASSUME VectorInv, SizesFinite, NEW p \in Indexers, VectorStep(p)
  PROVE  SizesFinite'
<1>1. documents' \subseteq documents \cup {document[p]} /\ Waiting' \subseteq Waiting \cup {p}
  BY DEF VectorStep, Decides, Upsert, ReadRows, Mark, Summarize, Abort, tableVars, Advance,
         At, Waiting, VectorInv, VectorTypeOK
<1>2. QED
  BY <1>1, SizeByOne DEF SizesFinite

LEMMA StampStep ==
  ASSUME VectorInv, StampInv, NEW p \in Indexers, VectorStep(p)
  PROVE  StampInv'
<1>1. /\ stage \in [Indexers -> {"idle", "upsert", "read", "mark", "summarize"}]
      /\ document \in [Indexers -> Document \cup {NoDocument}]
      /\ clock \in Nat /\ documents \subseteq Document
  BY VectorBoundsAssumption DEF VectorInv, VectorTypeOK
<1>2. ASSUME NEW s \in Tickers, Decides(p, s) PROVE StampInv'
  <2> DEFINE new == [created |-> clock + 1, symbol |-> s]
  <2>1. /\ stage' = [stage EXCEPT ![p] = "upsert"] /\ document' = [document EXCEPT ![p] = new]
        /\ documents' = documents
    BY <1>2 DEF Decides, Advance, tableVars
  <2>2. new.created = clock + 1 /\ \A d \in Document : d.created \in Nat
    BY DEF Document
  <2> HIDE DEF new
  <2>3. \A d \in documents : d.created # new.created
    BY <1>1, <2>2 DEF VectorInv, IndexerInv
  <2>4. \A q \in Indexers : At(q, "upsert") => document[q].created # new.created
    BY <1>1, <2>2 DEF VectorInv, IndexerInv, At
  <2>5. QED
    BY <1>1, <2>1, <2>3, <2>4 DEF StampInv, At
<1>3. CASE Upsert(p)
  BY <1>1, <1>3 DEF Upsert, Advance, StampInv, At
<1>4. CASE ReadRows(p) \/ Mark(p) \/ Summarize(p) \/ Abort(p)
  <2>1. /\ UNCHANGED <<documents, document>>
        /\ \E place \in {"idle", "mark", "summarize"} : stage' = [stage EXCEPT ![p] = place]
    BY <1>4 DEF ReadRows, Mark, Summarize, Abort, Advance, tableVars
  <2>2. \A q \in Indexers : At(q, "upsert")' => At(q, "upsert")
    BY <1>1, <2>1 DEF At
  <2>3. QED
    BY <2>1, <2>2 DEF StampInv
<1>5. QED
  BY <1>2, <1>3, <1>4 DEF VectorStep

-----------------------------------------------------------------------------
(* Candidates.                                                             *)

(* Of a set of documents of different times, at most n have fewer than n   *)
(* newer ones.                                                             *)
LEMMA FewAreNew ==
  ASSUME NEW S, IsFiniteSet(S), NEW n \in Nat \ {0},
         \A d \in S : d.created \in Nat,
         \A d, e \in S : d.created = e.created => d = e
  PROVE  Cardinality({d \in S : Cardinality({e \in S : e.created > d.created}) < n}) <= n
<1> DEFINE After(d) == {e \in S : e.created > d.created}
           F == {d \in S : Cardinality(After(d)) < n}
<1>1. CASE F = {}
  <2>1. Cardinality(F) = 0
    BY <1>1, FS_EmptySet
  <2>2. QED
    BY <2>1
<1>2. CASE F # {}
  <2> DEFINE T == {d.created : d \in F}
  <2>1. T \in SUBSET Nat /\ T # {}
    BY <1>2
  <2>0. PICK m \in T : \A k \in T : m <= k
    BY <2>1, SmallestOf
  <2> HIDE DEF F
  <2>2. PICK d \in F : \A e \in F : d.created <= e.created
    <3>1. PICK d \in F : d.created = m
      OBVIOUS
    <3>2. \A e \in F : m <= e.created
      BY <2>0
    <3>3. QED
      BY <3>1, <3>2
  <2> USE DEF F
  <2>3. F \subseteq After(d) \cup {d}
    BY <2>2
  <2>4. IsFiniteSet(After(d)) /\ Cardinality(After(d)) \in Nat
    BY SizeGrows
  <2>5. Cardinality(After(d)) < n
    BY <2>2
  <2> HIDE DEF F, After
  <2>6. Cardinality(F) \in Nat /\ Cardinality(F) <= Cardinality(After(d)) + 1
    BY <2>3, <2>4, SizeByOne
  <2>7. Cardinality(F) <= n
    BY <2>4, <2>5, <2>6
  <2>8. QED
    BY <2>7 DEF F, After
<1>3. QED
  BY <1>1, <1>2

LEMMA CandidatesAreOld ==
  ASSUME VectorInv, SizesFinite, StampInv, NEW s
  PROVE  /\ Candidates(s) \subseteq Active(s) /\ Active(s) \subseteq documents
         /\ \A d \in Candidates(s) : Cardinality(Newer(d)) >= TargetDocuments
         /\ Cardinality(Active(s) \ Candidates(s)) <= MaxDocuments
<1> DEFINE After(d) == {e \in Active(s) : e.created > d.created}
<1>1. Candidates(s) \subseteq Active(s) /\ Active(s) \subseteq documents /\ documents \subseteq Document
  BY DEF Candidates, Active, VectorInv, VectorTypeOK
<1>2. IsFiniteSet(Active(s))
  BY <1>1, SizeGrows DEF SizesFinite
<1>3. ASSUME NEW d \in Candidates(s) PROVE Cardinality(Newer(d)) >= TargetDocuments
  <2>1. After(d) \subseteq Newer(d) /\ Newer(d) \subseteq documents
    BY <1>1 DEF Active, Newer
  <2>2. IsFiniteSet(Newer(d))
    BY <2>1, SizeGrows DEF SizesFinite
  <2>3. Cardinality(After(d)) \in Nat /\ Cardinality(Newer(d)) \in Nat
        /\ Cardinality(After(d)) <= Cardinality(Newer(d))
    BY <2>1, <2>2, SizeGrows
  <2>4. Cardinality(After(d)) >= TargetDocuments
    BY DEF Candidates
  <2> HIDE DEF After
  <2>5. QED
    BY <2>3, <2>4, DocumentsAssumption
<1>4. Cardinality(Active(s) \ Candidates(s)) <= MaxDocuments
  <2>1. CASE Cardinality(Active(s)) <= MaxDocuments
    BY <1>2, <2>1, SizeGrows, FS_CardinalityType, DocumentsAssumption DEF Candidates
  <2>2. CASE ~(Cardinality(Active(s)) <= MaxDocuments)
    <3>1. \A d \in Active(s) : Cardinality(After(d)) \in Nat
      BY <1>2, SizeGrows
    <3> DEFINE F == {d \in Active(s) : Cardinality(After(d)) < TargetDocuments}
    <3>2. Active(s) \ Candidates(s) \subseteq F
      <4> HIDE DEF After
      <4>1. Candidates(s) = {d \in Active(s) : Cardinality(After(d)) >= TargetDocuments}
        BY <2>2 DEF Candidates, After
      <4>2. QED
        BY <3>1, <4>1, DocumentsAssumption
    <3>3. \A d \in Active(s) : d.created \in Nat
      BY <1>1 DEF Document
    <3>4. \A d, e \in Active(s) : d.created = e.created => d = e
      BY <1>1 DEF StampInv
    <3>5. Cardinality(F) <= TargetDocuments
      BY <1>2, <3>3, <3>4, FewAreNew, DocumentsAssumption
    <3>6. IsFiniteSet(F)
      BY <1>2, SizeGrows
    <3> HIDE DEF F
    <3>7. Cardinality(Active(s) \ Candidates(s)) \in Nat /\ Cardinality(F) \in Nat
          /\ Cardinality(Active(s) \ Candidates(s)) <= Cardinality(F)
      BY <3>2, <3>6, SizeGrows
    <3>8. QED
      BY <3>5, <3>7, DocumentsAssumption
  <2>3. QED
    BY <2>1, <2>2
<1>5. QED
  BY <1>1, <1>3, <1>4

LEMMA KeptStep ==
  ASSUME VectorInv, SizesFinite, SizesFinite', StampInv, KeptInv, NEW p \in Indexers, VectorStep(p)
  PROVE  KeptInv'
<1>1. /\ batch \in [Indexers -> SUBSET documents] /\ compacted \subseteq documents
  BY DEF VectorInv, VectorTypeOK
<1>2. documents \subseteq documents'
  BY DEF VectorStep, Decides, Upsert, ReadRows, Mark, Summarize, Abort, tableVars
<1>3. Gone' \subseteq Gone \cup Candidates(document[p].symbol)
  <2>1. CASE ReadRows(p)
    BY <1>1, <2>1 DEF ReadRows, tableVars, Gone
  <2>2. CASE ~ReadRows(p)
    BY <1>1, <2>2 DEF VectorStep, Decides, Upsert, Mark, Summarize, Abort, tableVars, Gone
  <2>3. QED
    BY <2>1, <2>2
<1>4. \A d \in Gone' : Cardinality(Newer(d)) >= TargetDocuments
  BY <1>3, CandidatesAreOld DEF KeptInv
<1>5. ASSUME NEW d \in Gone'
      PROVE  Cardinality(Newer(d)') >= TargetDocuments
  <2>1. Newer(d) \subseteq Newer(d)' /\ Newer(d)' \subseteq documents'
    BY <1>2 DEF Newer
  <2>2. IsFiniteSet(Newer(d)')
    BY <2>1, SizeGrows DEF SizesFinite
  <2>3. Cardinality(Newer(d)) \in Nat /\ Cardinality(Newer(d)') \in Nat
        /\ Cardinality(Newer(d)) <= Cardinality(Newer(d)')
    BY <2>1, <2>2, SizeGrows
  <2>4. QED
    BY <1>4, <2>3, DocumentsAssumption
<1>6. QED
  BY <1>5 DEF KeptInv, Newer

-----------------------------------------------------------------------------
(* What a step does to the documents left in the search: for every choice  *)
(* of compactions after it there is one before it that left as many, or    *)
(* one fewer while the room grew by one.                                   *)

LEMMA WindowStep ==
  ASSUME VectorInv, VectorInv', SizesFinite, SizesFinite', StampInv, WindowInv,
         NEW p \in Indexers, VectorStep(p)
  PROVE  WindowInv'
<1> DEFINE K(s) == Compacting(s)
           U(M) == UNION {batch[q] : q \in M}
<1>1. /\ stage \in [Indexers -> {"idle", "upsert", "read", "mark", "summarize"}]
      /\ document \in [Indexers -> Document \cup {NoDocument}]
      /\ batch \in [Indexers -> SUBSET documents]
      /\ aborts \in Nat /\ aborts' \in Nat /\ compacted \subseteq documents
  BY VectorBoundsAssumption DEF VectorInv, VectorTypeOK
<1>2. \A s : IsFiniteSet(Active(s)) /\ IsFiniteSet(K(s))
  <2>1. \A s : Active(s) \subseteq documents /\ K(s) \subseteq Waiting
    BY DEF Active, Waiting, Compacting, At
  <2>2. QED
    BY <2>1, SizeGrows DEF SizesFinite
<1>3. \A s : IsFiniteSet(Active(s)') /\ IsFiniteSet(K(s)')
  <2>1. \A s : Active(s)' \subseteq documents' /\ K(s)' \subseteq Waiting'
    BY DEF Active, Waiting, Compacting, At
  <2>2. QED
    BY <2>1, SizeGrows DEF SizesFinite
<1> DEFINE Same(s, M) == \E N \in SUBSET Marking(s) :
             /\ Left(s, M)' \subseteq Left(s, N)
             /\ K(s) \ N \subseteq K(s)' \ M
             /\ aborts' = aborts
           More(s, M) == \E d : \E N \in SUBSET Marking(s) :
             /\ Left(s, M)' \subseteq Left(s, N) \cup {d}
             /\ p \in K(s)' \ M /\ K(s) \ N \subseteq (K(s)' \ M) \ {p}
             /\ aborts' = aborts
           Failed(s, M) == \E N \in SUBSET Marking(s) :
             /\ Left(s, M)' \subseteq Left(s, N)
             /\ K(s) \ N \subseteq (K(s)' \ M) \cup {p}
             /\ aborts' = aborts + 1
           Few(s, M) == \E S : IsFiniteSet(S) /\ Left(s, M)' \subseteq S /\ Cardinality(S) <= MaxDocuments
<1>4. ASSUME NEW s \in Tickers, NEW M \in SUBSET Marking(s)',
             Same(s, M) \/ More(s, M) \/ Failed(s, M) \/ Few(s, M)
      PROVE  Cardinality(Left(s, M)') <= Room(s, M)'
  <2>1. IsFiniteSet(K(s)' \ M) /\ Cardinality(K(s)' \ M) \in Nat
    BY <1>3, SizeGrows
  <2>2. Room(s, M)' = MaxDocuments + Cardinality(K(s)' \ M) + aborts'
    BY DEF Room
  <2>3. ASSUME NEW N \in SUBSET Marking(s)
        PROVE  /\ IsFiniteSet(Left(s, N)) /\ Cardinality(Left(s, N)) \in Nat
               /\ Cardinality(K(s) \ N) \in Nat
               /\ Cardinality(Left(s, N)) <= MaxDocuments + Cardinality(K(s) \ N) + aborts
    <3>1. Cardinality(Left(s, N)) <= MaxDocuments + Cardinality(K(s) \ N) + aborts
      BY DEF WindowInv, Room
    <3>2. IsFiniteSet(Left(s, N)) /\ Cardinality(Left(s, N)) \in Nat
      BY <1>2, SizeGrows DEF Left
    <3>3. Cardinality(K(s) \ N) \in Nat
      BY <1>2, SizeGrows
    <3>4. QED
      BY <3>1, <3>2, <3>3
  <2> HIDE DEF K
  <2>4. CASE Same(s, M)
    <3>1. PICK N \in SUBSET Marking(s) :
            Left(s, M)' \subseteq Left(s, N) /\ K(s) \ N \subseteq K(s)' \ M /\ aborts' = aborts
      BY <2>4
    <3>2. Cardinality(Left(s, M)') \in Nat /\ Cardinality(Left(s, M)') <= Cardinality(Left(s, N))
      BY <2>3, <3>1, SizeGrows
    <3>3. Cardinality(K(s) \ N) <= Cardinality(K(s)' \ M)
      BY <2>1, <3>1, SizeGrows
    <3>4. QED
      BY <1>1, <2>1, <2>2, <2>3, <3>1, <3>2, <3>3, DocumentsAssumption
  <2>5. CASE More(s, M)
    <3> PICK d : \E N \in SUBSET Marking(s) :
             /\ Left(s, M)' \subseteq Left(s, N) \cup {d}
             /\ p \in K(s)' \ M /\ K(s) \ N \subseteq (K(s)' \ M) \ {p}
             /\ aborts' = aborts
      BY <2>5
    <3>1. PICK N \in SUBSET Marking(s) :
             /\ Left(s, M)' \subseteq Left(s, N) \cup {d}
             /\ p \in K(s)' \ M /\ K(s) \ N \subseteq (K(s)' \ M) \ {p}
             /\ aborts' = aborts
      OBVIOUS
    <3>2. Cardinality(Left(s, M)') \in Nat /\ Cardinality(Left(s, M)') <= Cardinality(Left(s, N)) + 1
      BY <2>3, <3>1, SizeByOne
    <3>3. Cardinality(K(s) \ N) + 1 <= Cardinality(K(s)' \ M)
      BY <2>1, <3>1, SizeLess
    <3>4. QED
      BY <1>1, <2>1, <2>2, <2>3, <3>1, <3>2, <3>3, DocumentsAssumption
  <2>6. CASE Failed(s, M)
    <3>1. PICK N \in SUBSET Marking(s) :
             /\ Left(s, M)' \subseteq Left(s, N)
             /\ K(s) \ N \subseteq (K(s)' \ M) \cup {p}
             /\ aborts' = aborts + 1
      BY <2>6
    <3>2. Cardinality(Left(s, M)') \in Nat /\ Cardinality(Left(s, M)') <= Cardinality(Left(s, N))
      BY <2>3, <3>1, SizeGrows
    <3>3. Cardinality(K(s) \ N) <= Cardinality(K(s)' \ M) + 1
      BY <2>1, <3>1, SizeByOne
    <3>4. QED
      BY <1>1, <2>1, <2>2, <2>3, <3>1, <3>2, <3>3, DocumentsAssumption
  <2>7. CASE Few(s, M)
    <3>1. PICK S : IsFiniteSet(S) /\ Left(s, M)' \subseteq S /\ Cardinality(S) <= MaxDocuments
      BY <2>7
    <3>2. Cardinality(Left(s, M)') \in Nat /\ Cardinality(S) \in Nat
          /\ Cardinality(Left(s, M)') <= Cardinality(S)
      BY <3>1, SizeGrows
    <3>3. QED
      BY <1>1, <2>1, <2>2, <3>1, <3>2, DocumentsAssumption
  <2>8. QED
    BY <1>4, <2>4, <2>5, <2>6, <2>7
<1> SUFFICES ASSUME NEW s \in Tickers, NEW M \in SUBSET Marking(s)'
             PROVE  Same(s, M) \/ More(s, M) \/ Failed(s, M) \/ Few(s, M)
  BY <1>4 DEF WindowInv
<1> USE <1>1 DEF At
<1>5. ASSUME NEW t \in Tickers, Decides(p, t) PROVE Same(s, M)
  <2>1. /\ stage[p] = "idle" /\ stage' = [stage EXCEPT ![p] = "upsert"]
        /\ \A q \in Indexers : q # p => document'[q] = document[q]
        /\ UNCHANGED <<documents, compacted, batch, aborts>>
    BY <1>5 DEF Decides, Advance, tableVars
  <2>2. K(s)' = K(s) /\ Marking(s)' = Marking(s)
    BY <2>1 DEF Compacting, Marking
  <2>3. Left(s, M)' = Left(s, M)
    BY <2>1 DEF Left, Active
  <2>4. QED
    BY <2>1, <2>2, <2>3
<1>6. CASE Upsert(p)
  <2>1. /\ documents' = documents \cup {document[p]} /\ compacted' = compacted \ {document[p]}
        /\ stage[p] = "upsert" /\ stage' = [stage EXCEPT ![p] = "read"]
        /\ UNCHANGED <<document, batch, aborts>>
    BY <1>6 DEF Upsert, Advance
  <2>2. M \in SUBSET Marking(s) /\ p \notin M /\ p \notin K(s)
    BY <2>1 DEF Compacting, Marking
  <2>3. CASE document[p].symbol = s
    <3>1. K(s)' = K(s) \cup {p}
      BY <2>1, <2>3 DEF Compacting
    <3>2. Left(s, M)' \subseteq Left(s, M) \cup {document[p]}
      BY <2>1 DEF Left, Active
    <3>3. More(s, M)
      BY <2>1, <2>2, <3>1, <3>2
    <3>4. QED
      BY <3>3
  <2>4. CASE document[p].symbol # s
    <3>1. K(s)' = K(s)
      BY <2>1, <2>4 DEF Compacting
    <3>2. Left(s, M)' \subseteq Left(s, M)
      BY <2>1, <2>4 DEF Left, Active
    <3>3. QED
      BY <2>1, <2>2, <3>1, <3>2
  <2>5. QED
    BY <2>3, <2>4
<1>7. CASE ReadRows(p)
  <2>1. /\ batch' = [batch EXCEPT ![p] = Candidates(document[p].symbol)]
        /\ stage[p] = "read"
        /\ stage' = [stage EXCEPT ![p] = IF batch'[p] = {} THEN "idle" ELSE "mark"]
        /\ UNCHANGED <<documents, compacted, document, aborts>>
    BY <1>7 DEF ReadRows, Advance, tableVars
  <2>2. Active(s)' = Active(s)
    BY <2>1 DEF Active
  <2>3. CASE document[p].symbol = s /\ (p \in M \/ Candidates(s) = {})
    <3>1. Left(s, M)' \subseteq Active(s) \ Candidates(s)
      BY <2>1, <2>2, <2>3 DEF Left, Marking, Compacting
    <3>2. IsFiniteSet(Active(s) \ Candidates(s)) /\ Cardinality(Active(s) \ Candidates(s)) <= MaxDocuments
      BY <1>2, SizeGrows, CandidatesAreOld
    <3>3. QED
      BY <3>1, <3>2
  <2>4. CASE document[p].symbol = s /\ p \notin M /\ Candidates(s) # {}
    <3>1. stage' = [stage EXCEPT ![p] = "mark"]
      BY <2>1, <2>4
    <3>2. K(s)' = K(s) /\ M \in SUBSET Marking(s)
      BY <2>1, <2>4, <3>1 DEF Compacting, Marking
    <3>3. Left(s, M)' = Left(s, M)
      BY <2>1, <2>2, <2>4, <3>2 DEF Left, Marking, Compacting
    <3>4. QED
      BY <2>1, <3>2, <3>3
  <2>5. CASE document[p].symbol # s
    <3>1. K(s)' = K(s) /\ M \in SUBSET Marking(s) /\ p \notin M
      BY <2>1, <2>5 DEF Compacting, Marking
    <3>2. Left(s, M)' = Left(s, M)
      BY <2>1, <2>2, <3>1 DEF Left, Marking, Compacting
    <3>3. QED
      BY <2>1, <3>1, <3>2
  <2>6. QED
    BY <2>3, <2>4, <2>5
<1>8. CASE Mark(p)
  <2>1. /\ compacted' = compacted \cup batch[p]
        /\ stage[p] = "mark" /\ stage' = [stage EXCEPT ![p] = "summarize"]
        /\ UNCHANGED <<documents, document, batch, aborts>>
    BY <1>8 DEF Mark, Advance
  <2>2. CASE document[p].symbol = s
    <3>1. M \cup {p} \in SUBSET Marking(s)
      BY <2>1, <2>2 DEF Compacting, Marking
    <3>2. Left(s, M)' \subseteq Left(s, M \cup {p})
      BY <2>1 DEF Left, Active
    <3>3. K(s) \ (M \cup {p}) \subseteq K(s)' \ M
      BY <2>1 DEF Compacting
    <3>4. QED
      BY <2>1, <3>1, <3>2, <3>3
  <2>3. CASE document[p].symbol # s
    <3>1. M \in SUBSET Marking(s) /\ K(s)' = K(s)
      BY <2>1, <2>3 DEF Compacting, Marking
    <3>2. Left(s, M)' \subseteq Left(s, M)
      BY <2>1 DEF Left, Active
    <3>3. QED
      BY <2>1, <3>1, <3>2
  <2>4. QED
    BY <2>2, <2>3
<1>9. CASE Summarize(p)
  <2>1. /\ stage[p] = "summarize" /\ stage' = [stage EXCEPT ![p] = "idle"]
        /\ batch' = [batch EXCEPT ![p] = {}]
        /\ UNCHANGED <<documents, compacted, document, aborts>>
    BY <1>9 DEF Summarize, Advance
  <2>2. K(s)' = K(s) /\ M \in SUBSET Marking(s) /\ p \notin M
    BY <2>1 DEF Compacting, Marking
  <2>3. Left(s, M)' = Left(s, M)
    BY <2>1, <2>2 DEF Left, Active, Marking, Compacting
  <2>4. QED
    BY <2>1, <2>2, <2>3
<1>10. CASE Abort(p)
  <2>1. /\ stage' = [stage EXCEPT ![p] = "idle"]
        /\ batch' = [batch EXCEPT ![p] = {}] /\ aborts' = aborts + 1
        /\ UNCHANGED <<documents, compacted, document>>
    BY <1>10 DEF Abort, Advance, tableVars
  <2>2. K(s)' = K(s) \ {p} /\ M \in SUBSET Marking(s) /\ p \notin M
    BY <2>1 DEF Compacting, Marking
  <2>3. Left(s, M)' = Left(s, M)
    BY <2>1, <2>2 DEF Left, Active, Marking, Compacting
  <2>4. Failed(s, M)
    BY <2>1, <2>2, <2>3
  <2>5. QED
    BY <2>4
<1>11. QED
  BY <1>5, <1>6, <1>7, <1>8, <1>9, <1>10 DEF VectorStep

(* Every document a summary took out of the search has TargetDocuments     *)
(* newer ones of its symbol beside it, and the search stays within its     *)
(* maximum but for the calls that have not compacted yet, or could not:    *)
(* for any number of processes compacting at once.                         *)
THEOREM SearchKeepsNewest == VectorSpec => []SearchWindow
<1>1. VectorInit => SearchInv
  <2> SUFFICES ASSUME VectorInit PROVE SearchInv
    OBVIOUS
  <2>1. documents = {} /\ Waiting = {} /\ compacted = {} /\ aborts = 0
        /\ batch = [p \in Indexers |-> {}] /\ \A p \in Indexers : stage[p] = "idle"
    BY DEF VectorInit, Waiting, At
  <2>2. SizesFinite
    BY <2>1, FS_EmptySet DEF SizesFinite
  <2>3. StampInv /\ KeptInv
    BY <2>1 DEF StampInv, KeptInv, Gone, At
  <2>4. ASSUME NEW s \in Tickers, NEW M \in SUBSET Marking(s)
        PROVE  Cardinality(Left(s, M)) <= Room(s, M)
    <3>1. Left(s, M) = {} /\ Compacting(s) \ M = {}
      BY <2>1 DEF Left, Active, Compacting, At
    <3>2. QED
      BY <2>1, <3>1, FS_EmptySet, DocumentsAssumption DEF Room
  <2>5. QED
    BY <2>2, <2>3, <2>4 DEF SearchInv, WindowInv
<1>2. VectorInv /\ VectorInv' /\ SearchInv /\ [VectorNext]_vectorVars => SearchInv'
  <2> SUFFICES ASSUME VectorInv, VectorInv', SearchInv, [VectorNext]_vectorVars PROVE SearchInv'
    OBVIOUS
  <2>1. CASE UNCHANGED vectorVars
    BY <2>1 DEF vectorVars, tableVars, SearchInv, SizesFinite, StampInv, KeptInv, WindowInv,
       Waiting, Gone, Newer, Compacting, Marking, Left, Room, Active, At
  <2>2. ASSUME NEW p \in Indexers, VectorStep(p) PROVE SearchInv'
    <3>1. SizesFinite /\ StampInv /\ KeptInv /\ WindowInv
      BY DEF SearchInv
    <3>2. SizesFinite'
      BY <2>2, <3>1, SizesStep
    <3>3. StampInv' /\ KeptInv' /\ WindowInv'
      BY <2>2, <3>1, <3>2, StampStep, KeptStep, WindowStep
    <3>4. QED
      BY <3>2, <3>3 DEF SearchInv
  <2>3. QED
    BY <2>1, <2>2 DEF VectorNext
<1>3. VectorInv /\ SearchInv => SearchWindow
  <2> SUFFICES ASSUME VectorInv, SearchInv PROVE SearchWindow
    OBVIOUS
  <2>1. RecentKept
    BY DEF SearchInv, KeptInv, RecentKept, Newer, Gone
  <2>2. ASSUME NEW s \in Tickers
        PROVE  Cardinality(Active(s)) <=
                 MaxDocuments + Cardinality({p \in Indexers : stage[p] \in {"read", "mark"}}) + aborts
    <3> DEFINE B == {p \in Indexers : stage[p] \in {"read", "mark"}}
    <3>1. Left(s, {}) = Active(s) /\ Compacting(s) \ {} = Compacting(s)
      BY DEF Left
    <3>2. Cardinality(Active(s)) <= MaxDocuments + Cardinality(Compacting(s)) + aborts
      BY <3>1 DEF SearchInv, WindowInv, Room
    <3>3. Compacting(s) \subseteq B /\ B \subseteq Waiting /\ Active(s) \subseteq documents
      BY DEF Compacting, Waiting, At, Active
    <3> HIDE DEF B
    <3>4. IsFiniteSet(B)
      BY <3>3, SizeGrows DEF SearchInv, SizesFinite
    <3>5. /\ Cardinality(Compacting(s)) \in Nat /\ Cardinality(B) \in Nat
          /\ Cardinality(Compacting(s)) <= Cardinality(B)
      BY <3>3, <3>4, SizeGrows
    <3>6. Cardinality(Active(s)) \in Nat
      BY <3>3, SizeGrows DEF SearchInv, SizesFinite
    <3>7. aborts \in Nat
      BY VectorBoundsAssumption DEF VectorInv, VectorTypeOK
    <3>8. Cardinality(Active(s)) <= MaxDocuments + Cardinality(B) + aborts
      BY <3>2, <3>5, <3>6, <3>7, DocumentsAssumption
    <3>9. QED
      BY <3>8 DEF B
  <2>3. QED
    BY <2>1, <2>2 DEF SearchWindow, ActiveBounded
<1>4. QED
  BY <1>1, <1>2, <1>3, VectorInvariance, PTL DEF VectorSpec

-----------------------------------------------------------------------------
(* SettingsStore: the ticks.                                               *)

(* What is kept of a sequence is its end, of at most TickLimit.            *)
LEMMA KeptIs ==
  ASSUME NEW s \in Seq(Nat)
  PROVE  /\ Kept(s) \in Seq(Nat) /\ Len(s) \in Nat
         /\ Len(Kept(s)) = IF Len(s) <= TickLimit THEN Len(s) ELSE TickLimit
         /\ \A i \in 1..Len(Kept(s)) : Kept(s)[i] = s[i + (Len(s) - Len(Kept(s)))]
<1> DEFINE n == Len(s)
           m == n - TickLimit + 1
<1>1. n \in Nat /\ \A i \in 1..n : s[i] \in Nat
  BY LenProperties, ElementOfSeq
<1>2. CASE n <= TickLimit
  <2>1. Kept(s) = s
    BY <1>2 DEF Kept
  <2>2. \A i \in 1..n : s[i] = s[i + (n - n)]
    BY <1>1
  <2>3. QED
    BY <1>1, <1>2, <2>1, <2>2
<1>3. CASE ~(n <= TickLimit)
  <2>1. Kept(s) = SubSeq(s, m, n)
    BY <1>3 DEF Kept
  <2>2. m \in Int /\ n \in Int /\ m \in 1..n /\ n - m + 1 = TickLimit /\ m <= n
    BY <1>1, <1>3, TickAssumption
  <2>3. \A i \in m..n : s[i] \in Nat
    BY <1>1, <2>2
  <2> HIDE DEF m, n
  <2>4. /\ SubSeq(s, m, n) \in Seq(Nat) /\ Len(SubSeq(s, m, n)) = TickLimit
        /\ \A i \in 1..TickLimit : SubSeq(s, m, n)[i] = s[m + i - 1]
    BY <2>2, <2>3, SubSeqProperties
  <2>5. \A i \in 1..TickLimit : i + (n - TickLimit) = m + i - 1
    BY <1>1, TickAssumption DEF m
  <2>6. QED
    BY <1>1, <1>3, <2>1, <2>4, <2>5 DEF n
<1>4. QED
  BY <1>2, <1>3

(* Trimming before an addition makes no difference to the trimming after.  *)
LEMMA KeptAgain ==
  ASSUME NEW s \in Seq(Nat), NEW x \in Nat
  PROVE  Kept(Kept(s) \o <<x>>) = Kept(s \o <<x>>)
<1> DEFINE k == Kept(s)
           a == k \o <<x>>
           b == s \o <<x>>
           n == Len(s)
           m == Len(k)
           u == Len(Kept(a))
           v == Len(Kept(b))
<1>1. /\ k \in Seq(Nat) /\ n \in Nat /\ m \in Nat
      /\ m = IF n <= TickLimit THEN n ELSE TickLimit
      /\ \A i \in 1..m : k[i] = s[i + (n - m)]
  BY KeptIs, LenProperties
<1>2. <<x>> \in Seq(Nat) /\ Len(<<x>>) = 1 /\ <<x>>[1] = x
  OBVIOUS
<1> HIDE DEF k
<1>3. /\ a \in Seq(Nat) /\ Len(a) = m + 1
      /\ \A i \in 1..m + 1 : a[i] = IF i <= m THEN k[i] ELSE <<x>>[i - m]
  BY <1>1, <1>2, ConcatProperties
<1>4. /\ b \in Seq(Nat) /\ Len(b) = n + 1
      /\ \A i \in 1..n + 1 : b[i] = IF i <= n THEN s[i] ELSE <<x>>[i - n]
  BY <1>1, <1>2, ConcatProperties
<1> HIDE DEF a, b, u, v
<1>5. /\ Kept(a) \in Seq(Nat) /\ u = IF m + 1 <= TickLimit THEN m + 1 ELSE TickLimit
      /\ \A i \in 1..u : Kept(a)[i] = a[i + ((m + 1) - u)]
  <2>1. /\ Kept(a) \in Seq(Nat) /\ u = IF Len(a) <= TickLimit THEN Len(a) ELSE TickLimit
        /\ \A i \in 1..u : Kept(a)[i] = a[i + (Len(a) - u)]
    BY <1>3, KeptIs DEF u
  <2>2. Len(a) = m + 1
    BY <1>3
  <2> HIDE DEF m
  <2>3. u = IF m + 1 <= TickLimit THEN m + 1 ELSE TickLimit
    BY <2>1, <2>2, Zenon
  <2>4. ASSUME NEW i \in 1..u PROVE Kept(a)[i] = a[i + ((m + 1) - u)]
    <3>1. Kept(a)[i] = a[i + (Len(a) - u)]
      BY <2>1
    <3>2. QED
      BY <2>2, <3>1, Zenon
  <2>5. QED
    BY <2>1, <2>3, <2>4
<1>6. /\ Kept(b) \in Seq(Nat) /\ v = IF n + 1 <= TickLimit THEN n + 1 ELSE TickLimit
      /\ \A i \in 1..v : Kept(b)[i] = b[i + ((n + 1) - v)]
  <2>1. /\ Kept(b) \in Seq(Nat) /\ v = IF Len(b) <= TickLimit THEN Len(b) ELSE TickLimit
        /\ \A i \in 1..v : Kept(b)[i] = b[i + (Len(b) - v)]
    BY <1>4, KeptIs DEF v
  <2>2. Len(b) = n + 1
    BY <1>4
  <2> HIDE DEF n
  <2>3. v = IF n + 1 <= TickLimit THEN n + 1 ELSE TickLimit
    BY <2>1, <2>2, Zenon
  <2>4. ASSUME NEW i \in 1..v PROVE Kept(b)[i] = b[i + ((n + 1) - v)]
    <3>1. Kept(b)[i] = b[i + (Len(b) - v)]
      BY <2>1
    <3>2. QED
      BY <2>2, <3>1, Zenon
  <2>5. QED
    BY <2>1, <2>3, <2>4
<1> HIDE DEF n, m
<1>7. \A i \in 1..m + 1 : a[i] = b[i + (n - m)]
  <2> SUFFICES ASSUME NEW i \in 1..m + 1 PROVE a[i] = b[i + (n - m)]
    OBVIOUS
  <2>1. i + (n - m) \in 1..n + 1 /\ (i <= m <=> i + (n - m) <= n)
        /\ (i + (n - m)) - n = i - m
    BY <1>1, TickAssumption
  <2>2. CASE i <= m
    <3>1. a[i] = k[i] /\ i \in 1..m
      BY <1>1, <1>3, <2>2
    <3>2. b[i + (n - m)] = s[i + (n - m)]
      BY <1>4, <2>1, <2>2
    <3>3. QED
      BY <1>1, <3>1, <3>2
  <2>3. CASE ~(i <= m)
    <3>1. a[i] = <<x>>[i - m]
      BY <1>3, <2>3
    <3>2. b[i + (n - m)] = <<x>>[(i + (n - m)) - n]
      <4> DEFINE j == i + (n - m)
      <4>1. j \in 1..n + 1 /\ ~(j <= n)
        BY <2>1, <2>3
      <4> HIDE DEF j
      <4>2. b[j] = <<x>>[j - n]
        BY <1>4, <4>1
      <4>3. QED
        BY <4>2 DEF j
    <3>3. QED
      BY <2>1, <3>1, <3>2
  <2>4. QED
    BY <2>2, <2>3
<1>8. u = v /\ u \in Nat /\ u <= m + 1
  BY <1>1, <1>5, <1>6, TickAssumption
<1>9. ASSUME NEW i \in 1..u PROVE Kept(a)[i] = Kept(b)[i]
  <2>0. u \in Nat /\ m \in Nat /\ n \in Nat /\ u = v /\ u <= m + 1
    BY <1>1, <1>8
  <2>1. i + ((m + 1) - u) \in 1..m + 1 /\ i + ((m + 1) - u) + (n - m) = i + ((n + 1) - v)
    BY <2>0
  <2>2. Kept(a)[i] = a[i + ((m + 1) - u)] /\ Kept(b)[i] = b[i + ((n + 1) - v)]
    BY <1>5, <1>6, <1>8
  <2>3. QED
    BY <1>7, <2>1, <2>2
<1>10. Kept(a) = Kept(b)
  BY <1>5, <1>6, <1>8, <1>9, SeqEqual DEF u, v
<1>11. QED
  BY <1>10 DEF k, a, b

(* A tape that ends in the middle of a line has one more tick to lose, or  *)
(* two, without a write that fails.                                        *)
ToLose == IF tail = "ended" THEN 0 ELSE IF tail = "torn" THEN 1 ELSE 2

Writes == {"whole", "unended", "torn", "none"}

TapeInv ==
  /\ tape \in Seq(Nat) /\ tail \in {"ended", "unended", "torn"} /\ failed \in Nat
  /\ Len(tape) <= lastTick /\ lastTick \in 0..MaxTicks
  /\ tail = "unended" => 1 <= Len(tape)
  /\ lastTick + ToLose <= Len(tape) + 2 * failed

TickInv ==
  /\ TapeInv
  /\ ticks \in Seq(Nat) /\ untaped \in BOOLEAN
  /\ Len(ticks) <= TickLimit
  /\ ~untaped => ticks = Kept(tape)

(* What a write leaves of the tape.                                        *)
LEMMA TapeStep ==
  ASSUME TapeInv, NEW written \in Writes, lastTick < MaxTicks,
         lastTick' = lastTick + 1, Taped(lastTick + 1, written)
  PROVE  TapeInv'
<1> DEFINE x == lastTick + 1
           n == Len(tape)
<1>1. /\ tape \in Seq(Nat) /\ lastTick \in Nat /\ MaxTicks \in Nat /\ x \in Nat
      /\ n \in Nat /\ n <= lastTick /\ failed \in Nat
      /\ tail = "unended" => 1 <= n
      /\ lastTick + ToLose <= n + 2 * failed
      /\ tail \in {"ended", "unended", "torn"}
  BY ApiBoundsAssumption, LenProperties DEF TapeInv
<1>2. lastTick' = x /\ lastTick' \in 0..MaxTicks
  BY <1>1
<1>3. failed' = failed + (IF written = "whole" THEN 0 ELSE 1)
  BY DEF Taped
<1>4. CASE written = "none"
  BY <1>1, <1>2, <1>3, <1>4 DEF Taped, TapeInv, ToLose
<1>5. ASSUME tail = "ended", written \in {"whole", "unended"} PROVE TapeInv'
  <2>1. tape' = tape \o <<x>> /\ tail' = IF written = "whole" THEN "ended" ELSE "unended"
    BY <1>5 DEF Taped
  <2>2. <<x>> \in Seq(Nat) /\ Len(<<x>>) = 1
    BY <1>1
  <2> HIDE DEF x
  <2>3. tape \o <<x>> \in Seq(Nat) /\ Len(tape \o <<x>>) = n + 1
    BY <1>1, <2>2, ConcatProperties
  <2>4. tape' \in Seq(Nat) /\ Len(tape') = n + 1
    BY <2>1, <2>3
  <2>5. QED
    BY <1>1, <1>2, <1>3, <1>5, <2>1, <2>4 DEF TapeInv, ToLose, x
<1>6. ASSUME written # "none", tail = "unended" PROVE TapeInv'
  <2>1. tape' = SubSeq(tape, 1, n - 1) /\ tail' = IF written = "whole" THEN "ended" ELSE "torn"
    BY <1>6 DEF Taped, Front
  <2>2. 1 \in Int /\ n - 1 \in Int /\ \A i \in 1..n - 1 : tape[i] \in Nat
    BY <1>1, ElementOfSeq
  <2> HIDE DEF n
  <2>3. /\ SubSeq(tape, 1, n - 1) \in Seq(Nat)
        /\ Len(SubSeq(tape, 1, n - 1)) = IF 1 <= n - 1 THEN (n - 1) - 1 + 1 ELSE 0
    BY <2>2, SubSeqProperties
  <2>4. tape' \in Seq(Nat) /\ Len(tape') = n - 1
    BY <1>1, <1>6, <2>1, <2>3
  <2>5. QED
    BY <1>1, <1>2, <1>3, <1>6, <2>1, <2>4 DEF TapeInv, ToLose
<1>7. ASSUME written # "none", tail = "torn" \/ (tail = "ended" /\ written = "torn") PROVE TapeInv'
  <2>1. tape' = tape /\ tail' = IF written = "whole" THEN "ended" ELSE "torn"
    BY <1>7 DEF Taped
  <2>2. QED
    BY <1>1, <1>2, <1>3, <1>7, <2>1 DEF TapeInv, ToLose
<1>8. QED
  BY <1>1, <1>4, <1>5, <1>6, <1>7 DEF Writes

LEMMA TickStep ==
  ASSUME TickInv, \/ \E written \in Writes : IngestTick(written)
                  \/ Restart
                  \/ UNCHANGED tickVars
  PROVE  TickInv'
<1> USE ApiBoundsAssumption
<1>1. ASSUME NEW written \in Writes, IngestTick(written) PROVE TickInv'
  <2> DEFINE x == lastTick + 1
  <2>1. /\ lastTick < MaxTicks /\ lastTick' = x /\ ticks' = Kept(ticks \o <<x>>)
        /\ Taped(x, written)
        /\ untaped' = (untaped \/ written # "whole" \/ tail # "ended")
    BY <1>1 DEF IngestTick, Taped
  <2>2. TapeInv'
    BY <2>1, TapeStep DEF TickInv
  <2>3. x \in Nat /\ ticks \in Seq(Nat) /\ tape \in Seq(Nat)
        /\ <<x>> \in Seq(Nat) /\ Len(<<x>>) = 1
    BY DEF TickInv, TapeInv
  <2> HIDE DEF x
  <2>4. ticks \o <<x>> \in Seq(Nat)
    BY <2>3, ConcatProperties
  <2>5. ticks' \in Seq(Nat) /\ Len(ticks') <= TickLimit
    <3>1. /\ Kept(ticks \o <<x>>) \in Seq(Nat) /\ Len(ticks \o <<x>>) \in Nat
          /\ Len(Kept(ticks \o <<x>>)) =
               IF Len(ticks \o <<x>>) <= TickLimit THEN Len(ticks \o <<x>>) ELSE TickLimit
      BY <2>4, KeptIs
    <3>2. QED
      BY <2>1, <3>1, TickAssumption
  <2>6. ~untaped' => ticks' = Kept(tape')
    <3>1. SUFFICES ASSUME ~untaped' PROVE ticks' = Kept(tape')
      OBVIOUS
    <3>2. written = "whole" /\ tail = "ended" /\ ~untaped
      BY <2>1, <3>1
    <3>3. ticks = Kept(tape) /\ tape' = tape \o <<x>>
      BY <2>1, <3>2 DEF TickInv, Taped
    <3>4. QED
      BY <2>1, <2>3, <3>3, KeptAgain
  <2>7. untaped' \in BOOLEAN
    BY <2>1
  <2>8. QED
    BY <2>2, <2>5, <2>6, <2>7 DEF TickInv
<1>2. CASE Restart
  <2>1. ticks' = Kept(tape) /\ untaped' = FALSE /\ UNCHANGED <<tape, tail, failed, lastTick>>
    BY <1>2 DEF Restart
  <2>2. tape \in Seq(Nat) /\ TapeInv'
    BY <2>1 DEF TickInv, TapeInv, ToLose
  <2>3. Kept(tape) \in Seq(Nat) /\ Len(Kept(tape)) <= TickLimit
    BY <2>2, KeptIs, TickAssumption
  <2>4. QED
    BY <2>1, <2>2, <2>3 DEF TickInv
<1>3. CASE UNCHANGED tickVars
  BY <1>3 DEF tickVars, TickInv, TapeInv, ToLose
<1>4. QED
  BY <1>1, <1>2, <1>3

-----------------------------------------------------------------------------
(* SettingsStore: the settings and the key in use.                         *)

Configs == {"default"} \cup {p.config : p \in Patches}
AnyKey == Keys \cup {NoKey}
Asked == Patches \cup {IdlePut.patch}
Settings == [config : Configs, key : AnyKey]
PutRecord == [at : {"idle", "config", "key", "read", "apply"},
              patch : Asked, read : AnyKey, alone : BOOLEAN]
Everything == {"config", "key", "env"}

SettingsShape ==
  /\ stored \in Settings /\ patched \in Settings
  /\ env \in AnyKey /\ kept \in AnyKey
  /\ put \in [Puts -> PutRecord]
  /\ doubt \in SUBSET Everything

(* What is in doubt or not written yet.                                    *)
Unsure == doubt \cup UNION {Missing(put[r]) : r \in Puts}

(* All else is as the patches ask for.                                     *)
SettingsTrue ==
  /\ "config" \notin Unsure => stored.config = patched.config
  /\ "key" \notin Unsure => stored.key = patched.key
  /\ "env" \notin Unsure => env = IF stored.key # NoKey THEN stored.key ELSE kept

(* A request that has met no other is the only one, and its patch the last *)
(* of all; where two have met, everything is in doubt.                     *)
Progress(r) ==
  /\ put[r].alone =>
       /\ put[r].at # "idle"
       /\ \A q \in Puts \ {r} : put[q].at = "idle"
       /\ "config" \in Missing(put[r]) => patched.config = put[r].patch.config
       /\ "key" \in Missing(put[r]) => patched.key = put[r].patch.key
       /\ "env" \in Missing(put[r]) => stored.key = put[r].patch.key
       /\ put[r].at = "apply" => put[r].read = stored.key
  /\ put[r].at # "idle" /\ ~put[r].alone => doubt = Everything

PutInv == SettingsShape /\ SettingsTrue /\ \A r \in Puts : Progress(r)

LEMMA PatchedShape ==
  ASSUME NEW s \in Settings, NEW p \in Asked
  PROVE  /\ Patched(s, p) \in Settings
         /\ Patched(s, p).config = IF p.config = Unasked THEN s.config ELSE p.config
         /\ Patched(s, p).key = IF p.key = Unasked THEN s.key ELSE p.key
         /\ [s EXCEPT !.config = Patched(s, p).config] \in Settings
         /\ [s EXCEPT !.key = Patched(s, p).key] \in Settings
<1>1. p.config = Unasked \/ p.config \in Configs
  BY DEF Asked, Configs, IdlePut
<1>2. p.key = Unasked \/ p.key \in AnyKey
  BY PatchAssumption DEF Asked, AnyKey, IdlePut
<1>3. /\ Patched(s, p).config = IF p.config = Unasked THEN s.config ELSE p.config
      /\ Patched(s, p).key = IF p.key = Unasked THEN s.key ELSE p.key
  BY DEF Patched
<1>4. Patched(s, p).config \in Configs /\ Patched(s, p).key \in AnyKey
  BY <1>1, <1>2, <1>3 DEF Settings
<1>5. Patched(s, p) \in Settings
  BY <1>4 DEF Patched, Settings
<1>6. QED
  BY <1>3, <1>4, <1>5 DEF Settings

LEMMA IdleIs ==
  /\ IdlePut \in PutRecord /\ IdlePut.at = "idle" /\ IdlePut.alone = FALSE
BY DEF IdlePut, PutRecord, Asked, AnyKey

(* A request that is not in flight misses nothing.                         *)
LEMMA MissingIs ==
  ASSUME NEW t
  PROVE  /\ Missing(t) \subseteq Everything
         /\ t.at = "idle" => Missing(t) = {}
         /\ "config" \in Missing(t) <=> t.at = "config" /\ t.patch.config # Unasked
         /\ "key" \in Missing(t) <=> t.at \in {"config", "key"} /\ t.patch.key # Unasked
         /\ "env" \in Missing(t) <=> t.at \in {"read", "apply"} /\ t.patch.key \in Keys
<1> DEFINE p == t.patch
           C == IF t.at = "config" /\ p.config # Unasked THEN {"config"} ELSE {}
           K == IF t.at \in {"config", "key"} /\ p.key # Unasked THEN {"key"} ELSE {}
           E == IF t.at \in {"read", "apply"} /\ p.key \in Keys THEN {"env"} ELSE {}
<1>1. Missing(t) = C \cup K \cup E
  BY DEF Missing
<1>2. /\ C \subseteq {"config"} /\ K \subseteq {"key"} /\ E \subseteq {"env"}
      /\ "config" \in C <=> t.at = "config" /\ p.config # Unasked
      /\ "key" \in K <=> t.at \in {"config", "key"} /\ p.key # Unasked
      /\ "env" \in E <=> t.at \in {"read", "apply"} /\ p.key \in Keys
      /\ t.at = "idle" => C = {} /\ K = {} /\ E = {}
  OBVIOUS
<1> HIDE DEF C, K, E
<1>3. QED
  BY <1>1, <1>2 DEF Everything

(* Of one request and idle ones, what is unsure is what it misses.         *)
LEMMA OneMisses ==
  ASSUME NEW f, NEW d, NEW r \in Puts, \A q \in Puts \ {r} : f[q].at = "idle"
  PROVE  d \cup UNION {Missing(f[q]) : q \in Puts} = d \cup Missing(f[r])
<1>1. \A q \in Puts \ {r} : Missing(f[q]) = {}
  BY MissingIs
<1>2. QED
  BY <1>1

(* A step of a request that has met another, and so finds all in doubt.    *)
LEMMA InCompany ==
  ASSUME PutInv, NEW r \in Puts, put[r].at # "idle", ~put[r].alone,
         NEW new \in PutRecord, ~new.alone, put' = [put EXCEPT ![r] = new],
         Everything \subseteq doubt', SettingsShape'
  PROVE  PutInv'
<1>1. put \in [Puts -> PutRecord] /\ doubt' = Everything
  BY DEF PutInv, SettingsShape
<1>2. SettingsTrue'
  BY <1>1 DEF SettingsTrue, Unsure, Everything
<1>3. ASSUME NEW q \in Puts PROVE ~put'[q].alone
  BY <1>1, <1>3 DEF PutInv, Progress
<1>4. \A q \in Puts : Progress(q)'
  BY <1>1, <1>3 DEF Progress
<1>5. QED
  BY <1>2, <1>4 DEF PutInv

(* A step of a request that has met no other.                              *)
LEMMA InSolitude ==
  ASSUME PutInv, NEW r \in Puts, put[r].alone,
         NEW new \in PutRecord, put' = [put EXCEPT ![r] = new]
  PROVE  /\ put'[r] = new
         /\ \A q \in Puts \ {r} : put'[q].at = "idle" /\ Progress(q)'
         /\ Unsure = doubt \cup Missing(put[r]) /\ Unsure' = doubt' \cup Missing(new)
<1>1. put \in [Puts -> PutRecord] /\ \A q \in Puts \ {r} : put[q].at = "idle"
  BY DEF PutInv, SettingsShape, Progress
<1>2. put'[r] = new /\ \A q \in Puts \ {r} : put'[q] = put[q]
  BY <1>1
<1>3. ASSUME NEW q \in Puts \ {r} PROVE put'[q].at = "idle" /\ Progress(q)'
  BY <1>1, <1>2 DEF PutInv, Progress
<1>4. Unsure = doubt \cup Missing(put[r])
  BY <1>1, OneMisses DEF Unsure
<1>5. Unsure' = doubt' \cup Missing(put'[r])
  <2>1. Unsure' = doubt' \cup UNION {Missing(put'[q]) : q \in Puts}
    BY DEF Unsure, Missing
  <2>2. \A q \in Puts \ {r} : Missing(put'[q]) = {}
    BY <1>3, MissingIs
  <2>3. UNION {Missing(put'[q]) : q \in Puts} = Missing(put'[r])
    BY <2>2
  <2>4. QED
    BY <2>1, <2>3
<1>6. QED
  BY <1>2, <1>3, <1>4, <1>5

(* No step of a request leaves anything but what the patches ask for       *)
(* beyond doubt.                                                           *)
LEMMA PutStep ==
  ASSUME PutInv, NEW r \in Puts,
         \/ StartPut(r) \/ SetConfig(r) \/ SetKey(r)
         \/ ReadKey(r) \/ ApplyKey(r) \/ FailPut(r)
  PROVE  PutInv'
<1>1. /\ stored \in Settings /\ patched \in Settings /\ env \in AnyKey /\ kept \in AnyKey
      /\ put \in [Puts -> PutRecord] /\ doubt \in SUBSET Everything
  BY DEF PutInv, SettingsShape
<1>2. /\ put[r] \in PutRecord /\ put[r].patch \in Asked /\ put[r].read \in AnyKey
      /\ Patched(stored, put[r].patch) \in Settings
      /\ [stored EXCEPT !.config = Patched(stored, put[r].patch).config] \in Settings
      /\ [stored EXCEPT !.key = Patched(stored, put[r].patch).key] \in Settings
  BY <1>1, PatchedShape DEF PutRecord
<1>3. Settled(r, {"config"}) \in SUBSET Everything /\ Settled(r, {"key"}) \in SUBSET Everything
      /\ Settled(r, {"env"}) \in SUBSET Everything
  BY <1>1 DEF Settled
<1>4. SettingsTrue /\ Progress(r) /\ (put[r].at # "idle" /\ ~put[r].alone => doubt = Everything)
  BY DEF PutInv, Progress
<1>5. ASSUME StartPut(r) PROVE PutInv'
  <2> DEFINE company == {q \in Puts \ {r} : put[q].at # "idle"}
  <2>1. PICK p \in Patches :
          /\ put' = [q \in Puts |->
               IF q = r THEN [at |-> "config", patch |-> p, read |-> NoKey, alone |-> company = {}]
               ELSE [put[q] EXCEPT !.alone = FALSE]]
          /\ patched' = Patched(patched, p)
          /\ doubt' = IF company = {} THEN doubt ELSE Everything
    BY <1>5 DEF StartPut, Everything
  <2> DEFINE new == [at |-> "config", patch |-> p, read |-> NoKey, alone |-> company = {}]
  <2>2. p \in Asked /\ new \in PutRecord /\ new.at = "config" /\ new.patch = p
        /\ new.alone = (company = {})
    BY <2>1 DEF Asked, AnyKey, PutRecord
  <2>3. UNCHANGED <<stored, env, kept>> /\ put[r].at = "idle"
    BY <1>5 DEF StartPut
  <2>4. /\ put'[r] = new
        /\ \A q \in Puts \ {r} : /\ put'[q] \in PutRecord /\ put'[q].at = put[q].at
                                 /\ put'[q].alone = FALSE
    BY <1>1, <2>1 DEF PutRecord
  <2> HIDE DEF new
  <2>5. SettingsShape'
    <3>1. put' \in [Puts -> PutRecord]
      BY <2>1, <2>2, <2>4
    <3>2. patched' \in Settings /\ doubt' \in SUBSET Everything
      BY <1>1, <2>1, <2>2, PatchedShape
    <3>3. QED
      BY <1>1, <2>3, <3>1, <3>2 DEF SettingsShape
  <2>6. CASE company # {}
    <3>1. doubt' = Everything
      BY <2>1, <2>6
    <3>2. SettingsTrue'
      BY <3>1 DEF SettingsTrue, Unsure, Everything
    <3>3. \A q \in Puts : Progress(q)'
      BY <2>2, <2>4, <2>6, <3>1 DEF Progress
    <3>4. QED
      BY <2>5, <3>2, <3>3 DEF PutInv
  <2>7. CASE company = {}
    <3>1. doubt' = doubt /\ \A q \in Puts : put[q].at = "idle"
      BY <2>1, <2>3, <2>7
    <3>2. Unsure = doubt
      <4>1. \A q \in Puts : Missing(put[q]) = {}
        BY <3>1, MissingIs
      <4>2. QED
        BY <4>1 DEF Unsure
    <3>3. Unsure' = doubt \cup Missing(new)
      <4>1. Unsure' = doubt' \cup UNION {Missing(put'[q]) : q \in Puts}
        BY DEF Unsure, Missing
      <4>2. \A q \in Puts \ {r} : Missing(put'[q]) = {}
        BY <2>4, <3>1, MissingIs
      <4>3. UNION {Missing(put'[q]) : q \in Puts} = Missing(new)
        BY <2>4, <4>2
      <4>4. QED
        BY <3>1, <4>1, <4>3
    <3>4. /\ "config" \in Missing(new) <=> p.config # Unasked
          /\ "key" \in Missing(new) <=> p.key # Unasked
          /\ "env" \notin Missing(new)
      BY <2>2, MissingIs
    <3>5. /\ patched'.config = IF p.config = Unasked THEN patched.config ELSE p.config
          /\ patched'.key = IF p.key = Unasked THEN patched.key ELSE p.key
      BY <1>1, <2>1, <2>2, PatchedShape
    <3>6. SettingsTrue'
      BY <1>4, <2>3, <3>2, <3>3, <3>4, <3>5 DEF SettingsTrue
    <3>7. Progress(r)'
      BY <2>2, <2>4, <2>7, <3>1, <3>4, <3>5 DEF Progress
    <3>8. \A q \in Puts \ {r} : Progress(q)'
      BY <2>4, <3>1 DEF Progress
    <3>9. QED
      BY <2>5, <3>6, <3>7, <3>8 DEF PutInv
  <2>8. QED
    BY <2>6, <2>7
<1>6. ASSUME SetConfig(r) PROVE PutInv'
  <2> DEFINE new == [put[r] EXCEPT !.at = "key"]
  <2>1. /\ put' = [put EXCEPT ![r] = new] /\ put[r].at = "config"
        /\ stored' = [stored EXCEPT !.config = Patched(stored, put[r].patch).config]
        /\ doubt' = IF put[r].patch.config = Unasked THEN doubt ELSE Settled(r, {"config"})
        /\ UNCHANGED <<env, patched, kept>>
    BY <1>6 DEF SetConfig
  <2>2. /\ new.at = "key" /\ new.patch = put[r].patch /\ new.alone = put[r].alone
        /\ new \in PutRecord
    BY <1>2 DEF PutRecord
  <2> HIDE DEF new
  <2>3. SettingsShape'
    BY <1>1, <1>2, <1>3, <2>1, <2>2 DEF SettingsShape
  <2>4. CASE ~put[r].alone
    <3>1. doubt' = Everything
      BY <1>4, <2>1, <2>4 DEF Settled
    <3>2. QED
      BY <2>1, <2>2, <2>3, <2>4, <3>1, InCompany
  <2>5. CASE put[r].alone
    <3>1. /\ put'[r] = new
          /\ \A q \in Puts \ {r} : put'[q].at = "idle" /\ Progress(q)'
          /\ Unsure = doubt \cup Missing(put[r]) /\ Unsure' = doubt' \cup Missing(new)
      BY <2>1, <2>2, <2>5, InSolitude
    <3>2. doubt' = IF put[r].patch.config = Unasked THEN doubt ELSE doubt \ {"config"}
      BY <2>1, <2>5 DEF Settled
    <3>3. /\ stored'.key = stored.key
          /\ stored'.config = IF put[r].patch.config = Unasked THEN stored.config
                              ELSE put[r].patch.config
      BY <1>1, <1>2, <2>1, PatchedShape DEF Settings
    <3>4. /\ "config" \in Missing(put[r]) <=> put[r].patch.config # Unasked
          /\ "config" \notin Missing(new)
          /\ "key" \in Missing(put[r]) <=> put[r].patch.key # Unasked
          /\ "key" \in Missing(new) <=> put[r].patch.key # Unasked
          /\ "env" \notin Missing(put[r]) /\ "env" \notin Missing(new)
      BY <2>1, <2>2, MissingIs
    <3>5. SettingsTrue'
      BY <1>4, <2>1, <2>5, <3>1, <3>2, <3>3, <3>4 DEF SettingsTrue, Progress
    <3>6. Progress(r)'
      BY <1>4, <2>1, <2>2, <2>5, <3>1, <3>4 DEF Progress
    <3>7. QED
      BY <2>3, <3>1, <3>5, <3>6 DEF PutInv
  <2>6. QED
    BY <2>4, <2>5
<1>7. ASSUME SetKey(r) PROVE PutInv'
  <2> DEFINE new == [put[r] EXCEPT !.at = "read"]
  <2>1. /\ put' = [put EXCEPT ![r] = new] /\ put[r].at = "key"
        /\ stored' = [stored EXCEPT !.key = Patched(stored, put[r].patch).key]
        /\ kept' = IF put[r].patch.key = NoKey THEN env ELSE kept
        /\ doubt' = IF put[r].patch.key = Unasked THEN doubt ELSE Settled(r, {"key"})
        /\ UNCHANGED <<env, patched>>
    BY <1>7 DEF SetKey
  <2>2. /\ new.at = "read" /\ new.patch = put[r].patch /\ new.alone = put[r].alone
        /\ new \in PutRecord
    BY <1>2 DEF PutRecord
  <2> HIDE DEF new
  <2>3. SettingsShape'
    BY <1>1, <1>2, <1>3, <2>1, <2>2 DEF SettingsShape
  <2>4. CASE ~put[r].alone
    <3>1. doubt' = Everything
      BY <1>4, <2>1, <2>4 DEF Settled
    <3>2. QED
      BY <2>1, <2>2, <2>3, <2>4, <3>1, InCompany
  <2>5. CASE put[r].alone
    <3>1. /\ put'[r] = new
          /\ \A q \in Puts \ {r} : put'[q].at = "idle" /\ Progress(q)'
          /\ Unsure = doubt \cup Missing(put[r]) /\ Unsure' = doubt' \cup Missing(new)
      BY <2>1, <2>2, <2>5, InSolitude
    <3>2. doubt' = IF put[r].patch.key = Unasked THEN doubt ELSE doubt \ {"key"}
      BY <2>1, <2>5 DEF Settled
    <3>3. /\ stored'.config = stored.config
          /\ stored'.key = IF put[r].patch.key = Unasked THEN stored.key
                           ELSE put[r].patch.key
      BY <1>1, <1>2, <2>1, PatchedShape DEF Settings
    <3>4. /\ "config" \notin Missing(put[r]) /\ "config" \notin Missing(new)
          /\ "key" \in Missing(put[r]) <=> put[r].patch.key # Unasked
          /\ "key" \notin Missing(new)
          /\ "env" \notin Missing(put[r])
          /\ "env" \in Missing(new) <=> put[r].patch.key \in Keys
      BY <2>1, <2>2, MissingIs
    <3>5. put[r].patch.key \in Keys \cup {NoKey, Unasked} /\ NoKey # Unasked
          /\ NoKey \notin Keys /\ Unasked \notin Keys
      <4>1. NoKey # Unasked
        BY Zenon DEF NoKey, Unasked
      <4>2. QED
        BY <1>2, <4>1, PatchAssumption DEF Asked, IdlePut
    <3>6. SettingsTrue'
      <4>1. "config" \notin Unsure' => stored'.config = patched'.config
        BY <1>4, <2>1, <3>1, <3>2, <3>3, <3>4 DEF SettingsTrue
      <4>2. "key" \notin Unsure' => stored'.key = patched'.key
        BY <1>4, <2>1, <2>5, <3>1, <3>2, <3>3, <3>4 DEF SettingsTrue, Progress
      <4>3. "env" \notin Unsure' => env' = IF stored'.key # NoKey THEN stored'.key ELSE kept'
        BY <1>4, <2>1, <3>1, <3>2, <3>3, <3>4, <3>5 DEF SettingsTrue
      <4>4. QED
        BY <4>1, <4>2, <4>3 DEF SettingsTrue
    <3>7. Progress(r)'
      BY <2>2, <2>5, <3>1, <3>3, <3>4, <3>5 DEF Progress
    <3>8. QED
      BY <2>3, <3>1, <3>6, <3>7 DEF PutInv
  <2>6. QED
    BY <2>4, <2>5
<1>8. ASSUME ReadKey(r) PROVE PutInv'
  <2> DEFINE new == [put[r] EXCEPT !.at = "apply", !.read = stored.key]
  <2>1. /\ put' = [put EXCEPT ![r] = new] /\ put[r].at = "read"
        /\ UNCHANGED <<stored, env, patched, doubt, kept>>
    BY <1>8 DEF ReadKey
  <2>2. /\ new.at = "apply" /\ new.patch = put[r].patch /\ new.alone = put[r].alone
        /\ new.read = stored.key /\ new \in PutRecord
    BY <1>1, <1>2 DEF PutRecord, Settings
  <2> HIDE DEF new
  <2>3. SettingsShape'
    BY <1>1, <2>1, <2>2 DEF SettingsShape
  <2>4. CASE ~put[r].alone
    BY <1>4, <2>1, <2>2, <2>3, <2>4, InCompany
  <2>5. CASE put[r].alone
    <3>1. /\ put'[r] = new
          /\ \A q \in Puts \ {r} : put'[q].at = "idle" /\ Progress(q)'
          /\ Unsure = doubt \cup Missing(put[r]) /\ Unsure' = doubt' \cup Missing(new)
      BY <2>1, <2>2, <2>5, InSolitude
    <3>2. /\ Missing(put[r]) \subseteq Everything /\ Missing(new) \subseteq Everything
          /\ "config" \notin Missing(put[r]) /\ "config" \notin Missing(new)
          /\ "key" \notin Missing(put[r]) /\ "key" \notin Missing(new)
          /\ "env" \in Missing(new) <=> "env" \in Missing(put[r])
      BY <2>1, <2>2, MissingIs
    <3>3. SettingsTrue'
      BY <1>4, <2>1, <3>1, <3>2 DEF SettingsTrue
    <3>4. Progress(r)'
      BY <1>4, <2>1, <2>2, <2>5, <3>1, <3>2 DEF Progress
    <3>5. QED
      BY <2>3, <3>1, <3>3, <3>4 DEF PutInv
  <2>6. QED
    BY <2>4, <2>5
<1>9. ASSUME ApplyKey(r) PROVE PutInv'
  <2>1. /\ put' = [put EXCEPT ![r] = IdlePut] /\ put[r].at = "apply"
        /\ env' = IF put[r].read # NoKey THEN put[r].read ELSE env
        /\ doubt' = IF put[r].read = NoKey THEN doubt ELSE Settled(r, {"env"})
        /\ UNCHANGED <<stored, patched, kept>>
    BY <1>9 DEF ApplyKey
  <2>2. SettingsShape'
    BY <1>1, <1>2, <1>3, <2>1, IdleIs DEF SettingsShape
  <2>3. CASE ~put[r].alone
    <3>1. doubt' = Everything
      BY <1>4, <2>1, <2>3 DEF Settled
    <3>2. QED
      BY <2>1, <2>2, <2>3, <3>1, IdleIs, InCompany
  <2>4. CASE put[r].alone
    <3>1. /\ put'[r] = IdlePut
          /\ \A q \in Puts \ {r} : put'[q].at = "idle" /\ Progress(q)'
          /\ Unsure = doubt \cup Missing(put[r]) /\ Unsure' = doubt' \cup Missing(IdlePut)
      BY <2>1, <2>4, IdleIs, InSolitude
    <3>2. doubt' = IF put[r].read = NoKey THEN doubt ELSE doubt \ {"env"}
      BY <2>1, <2>4 DEF Settled
    <3>3. /\ Missing(IdlePut) = {}
          /\ "config" \notin Missing(put[r]) /\ "key" \notin Missing(put[r])
          /\ "env" \in Missing(put[r]) <=> put[r].patch.key \in Keys
      BY <2>1, IdleIs, MissingIs
    <3>4. put[r].read = stored.key /\ ("env" \in Missing(put[r]) => stored.key \in Keys)
          /\ NoKey \notin Keys
      BY <1>4, <2>1, <2>4, <3>3, PatchAssumption DEF Progress
    <3>5. SettingsTrue'
      BY <1>4, <2>1, <3>1, <3>2, <3>3, <3>4 DEF SettingsTrue
    <3>6. Progress(r)'
      BY <3>1, IdleIs DEF Progress
    <3>7. QED
      BY <2>2, <3>1, <3>5, <3>6 DEF PutInv
  <2>5. QED
    BY <2>3, <2>4
<1>10. ASSUME FailPut(r) PROVE PutInv'
  <2>1. /\ put' = [put EXCEPT ![r] = IdlePut] /\ put[r].at # "idle"
        /\ doubt' = doubt \cup Missing(put[r])
        /\ UNCHANGED <<stored, env, patched, kept>>
    BY <1>10 DEF FailPut
  <2>2. doubt' \in SUBSET Everything
    BY <1>1, <2>1, MissingIs
  <2>3. SettingsShape'
    BY <1>1, <2>1, <2>2, IdleIs DEF SettingsShape
  <2>4. CASE ~put[r].alone
    BY <1>4, <2>1, <2>3, <2>4, IdleIs, InCompany
  <2>5. CASE put[r].alone
    <3>1. /\ put'[r] = IdlePut
          /\ \A q \in Puts \ {r} : put'[q].at = "idle" /\ Progress(q)'
          /\ Unsure = doubt \cup Missing(put[r]) /\ Unsure' = doubt' \cup Missing(IdlePut)
      BY <2>1, <2>5, IdleIs, InSolitude
    <3>2. Unsure' = Unsure
      BY <2>1, <3>1, IdleIs, MissingIs
    <3>3. SettingsTrue'
      BY <1>4, <2>1, <3>2 DEF SettingsTrue
    <3>4. Progress(r)'
      BY <3>1, IdleIs DEF Progress
    <3>5. QED
      BY <2>3, <3>1, <3>3, <3>4 DEF PutInv
  <2>6. QED
    BY <2>4, <2>5
<1>11. QED
  BY <1>5, <1>6, <1>7, <1>8, <1>9, <1>10

LEMMA PutRestarts ==
  ASSUME PutInv, Restart
  PROVE  PutInv'
<1>1. /\ put' = [r \in Puts |-> IdlePut] /\ stored' = stored /\ patched' = patched
      /\ env' = IF stored.key # NoKey THEN stored.key ELSE ShellKey
      /\ kept' = ShellKey
      /\ doubt' = Unsure \ {"env"}
  BY DEF Restart, Reborn, Unsure
<1>2. /\ stored \in Settings /\ patched \in Settings /\ doubt \in SUBSET Everything
      /\ stored.key \in AnyKey /\ ShellKey \in AnyKey
  BY PatchAssumption DEF PutInv, SettingsShape, Settings, AnyKey
<1>3. Unsure \subseteq Everything
  BY <1>2, MissingIs DEF Unsure
<1>4. SettingsShape'
  BY <1>1, <1>2, <1>3, IdleIs DEF SettingsShape
<1>5. Unsure' = Unsure \ {"env"}
  <2>1. Unsure' = doubt' \cup UNION {Missing(put'[r]) : r \in Puts}
    BY DEF Unsure, Missing
  <2>2. \A r \in Puts : Missing(put'[r]) = {}
    BY <1>1, IdleIs, MissingIs
  <2>3. QED
    BY <1>1, <2>1, <2>2
<1>6. SettingsTrue'
  BY <1>1, <1>5 DEF PutInv, SettingsTrue
<1>7. \A r \in Puts : Progress(r)'
  BY <1>1, IdleIs DEF Progress
<1>8. QED
  BY <1>4, <1>6, <1>7 DEF PutInv

(* When no request is in flight nothing is missing.                        *)
LEMMA QuietIsTrue == PutInv => KeyInUse
<1> SUFFICES ASSUME PutInv, Quiet PROVE Unsure = doubt
  BY DEF PutInv, SettingsTrue, KeyInUse
<1>1. \A r \in Puts : Missing(put[r]) = {}
  BY MissingIs DEF Quiet
<1>2. QED
  BY <1>1 DEF Unsure

Counters == restarts \in 0..MaxRestarts /\ patches \in 0..MaxPatches

ApiInv == PutInv /\ TickInv /\ Counters

(* Whatever requests, failures and restarts come at whatever moment, the   *)
(* server's settings, key and ticks are in step with what it has on disk.  *)
THEOREM ApiInvariance == ApiSpec => []ApiInv
<1>1. ApiInit => ApiInv
  <2> SUFFICES ASSUME ApiInit PROVE ApiInv
    OBVIOUS
  <2>1. PutInv
    <3>1. NoKey \in AnyKey /\ ShellKey \in AnyKey /\ "default" \in Configs
      BY PatchAssumption DEF AnyKey, Configs
    <3>2. SettingsShape
      BY <3>1, IdleIs DEF ApiInit, SettingsShape, Settings
    <3>3. \A r \in Puts : put[r] = IdlePut
      BY DEF ApiInit
    <3>4. SettingsTrue /\ \A r \in Puts : Progress(r)
      BY <3>3, IdleIs DEF ApiInit, SettingsTrue, Progress
    <3>5. QED
      BY <3>2, <3>4 DEF PutInv
  <2>2. TickInv
    <3>1. <<>> \in Seq(Nat) /\ Len(<<>>) = 0 /\ Kept(<<>>) = <<>>
      BY TickAssumption DEF Kept
    <3>2. 0 \in 0..MaxTicks /\ 0 <= TickLimit
      BY ApiBoundsAssumption, TickAssumption
    <3>3. /\ ticks = <<>> /\ tape = <<>> /\ untaped = FALSE /\ lastTick = 0
          /\ tail = "ended" /\ failed = 0
      BY DEF ApiInit
    <3>4. ticks = Kept(tape) /\ Len(ticks) = 0 /\ Len(tape) = 0
      BY <3>1, <3>3, Zenon
    <3>5. ticks \in Seq(Nat) /\ tape \in Seq(Nat)
      BY <3>1, <3>3, Zenon
    <3>6. lastTick \in 0..MaxTicks /\ Len(tape) <= lastTick /\ Len(ticks) <= TickLimit
      BY <3>2, <3>3, <3>4
    <3>7. TapeInv
      BY <3>3, <3>4, <3>5, <3>6 DEF TapeInv, ToLose
    <3>8. QED
      BY <3>3, <3>4, <3>5, <3>6, <3>7, Zenon DEF TickInv
  <2>3. Counters
    BY ApiBoundsAssumption DEF ApiInit, Counters
  <2>4. QED
    BY <2>1, <2>2, <2>3 DEF ApiInv
<1>2. ApiInv /\ [ApiNext]_apiVars => ApiInv'
  <2> SUFFICES ASSUME ApiInv, [ApiNext]_apiVars PROVE ApiInv'
    OBVIOUS
  <2>0. PutInv /\ TickInv /\ Counters
    BY DEF ApiInv
  <2>1. ASSUME NEW r \in Puts,
               \/ StartPut(r) \/ SetConfig(r) \/ SetKey(r)
               \/ ReadKey(r) \/ ApplyKey(r) \/ FailPut(r)
        PROVE  ApiInv'
    <3>1. UNCHANGED tickVars /\ Counters'
      <4>1. /\ UNCHANGED tickVars /\ restarts' = restarts
            /\ patches' = patches \/ (patches < MaxPatches /\ patches' = patches + 1)
        BY <2>1 DEF StartPut, SetConfig, SetKey, ReadKey, ApplyKey, FailPut
      <4>2. QED
        BY <2>0, <4>1, ApiBoundsAssumption DEF Counters
    <3>2. PutInv' /\ TickInv'
      BY <2>0, <2>1, <3>1, PutStep, TickStep
    <3>3. QED
      BY <3>1, <3>2 DEF ApiInv
  <2>2. ASSUME NEW written \in Writes, IngestTick(written) PROVE ApiInv'
    <3>1. UNCHANGED <<settingsVars, restarts>>
      BY <2>2 DEF IngestTick
    <3>2. PutInv' /\ Counters'
      BY <2>0, <3>1 DEF settingsVars, PutInv, SettingsShape, SettingsTrue, Unsure, Progress, Counters
    <3>3. TickInv'
      BY <2>0, <2>2, TickStep
    <3>4. QED
      BY <3>2, <3>3 DEF ApiInv
  <2>3. CASE Restart
    <3>1. Counters'
      BY <2>0, <2>3, ApiBoundsAssumption DEF Restart, Reborn, Counters
    <3>2. QED
      BY <2>0, <2>3, <3>1, PutRestarts, TickStep DEF ApiInv
  <2>4. CASE UNCHANGED apiVars
    <3>1. PutInv' /\ Counters'
      BY <2>0, <2>4 DEF apiVars, settingsVars, PutInv, SettingsShape, SettingsTrue, Unsure, Progress,
         Counters
    <3>2. TickInv'
      BY <2>0, <2>4, TickStep DEF apiVars
    <3>3. QED
      BY <3>1, <3>2 DEF ApiInv
  <2>5. QED
    BY <2>1, <2>2, <2>3, <2>4 DEF ApiNext, Writes
<1>3. QED
  BY <1>1, <1>2, PTL DEF ApiSpec

(* Whatever requests meet, fail or are cut off by a restart, at any place: *)
(* the settings and the planner's key are what the patches ask for, but    *)
(* for what a failed request had not written and what requests that met    *)
(* left; a cleared key is used until the next restart.  The tape tells the *)
(* ticks in memory unless a write of it failed, and lacks two of each.     *)
THEOREM ServerRestartsAsItWas == ApiSpec => []ServerMatchesDisk
<1>1. ApiInv => KeyInUse
  BY QuietIsTrue DEF ApiInv
<1>2. ApiInv => TapeKeepsTicks
  <2> SUFFICES ASSUME TickInv PROVE lastTick - Len(tape) <= 2 * failed
    BY DEF ApiInv, TickInv, TapeKeepsTicks
  <2>1. Len(tape) \in Nat
    BY LenProperties DEF TickInv, TapeInv
  <2>2. QED
    BY <2>1, ApiBoundsAssumption DEF TickInv, TapeInv, ToLose
<1>3. QED
  BY <1>1, <1>2, ApiInvariance, PTL DEF ServerMatchesDisk

-----------------------------------------------------------------------------
(* The three side by side.                                                 *)

LEMMA MemoryParts == Spec => SqliteSpec /\ VectorSpec /\ ApiSpec
<1>1. Init => SqliteInit /\ VectorInit /\ ApiInit
  BY DEF Init
<1>2. [Next]_<<sqliteVars, vectorVars, apiVars>> =>
        [SqliteNext]_sqliteVars /\ [VectorNext]_vectorVars /\ [ApiNext]_apiVars
  BY DEF Next
<1>3. QED
  BY <1>1, <1>2, PTL DEF Spec, SqliteSpec, VectorSpec, ApiSpec

(* In a system of all three the state keeps its shape, for any number of   *)
(* symbols, processes and requests, and any limits.                        *)
THEOREM MemoryTypeCorrect == Spec => []TypeOK
<1>1. SqliteInv /\ VectorInv /\ ApiInv => TypeOK
  <2>1. ApiInv => ApiTypeOK
    <3> SUFFICES ASSUME ApiInv PROVE ApiTypeOK
      OBVIOUS
    <3>1. stored.key \in AnyKey /\ \A r \in Puts : put[r].at \in {"idle", "config", "key", "read", "apply"}
      BY DEF ApiInv, PutInv, SettingsShape, Settings, PutRecord
    <3>2. QED
      BY <3>1 DEF ApiInv, PutInv, SettingsShape, TickInv, TapeInv, Counters, ApiTypeOK, AnyKey
  <2>2. QED
    BY <2>1 DEF SqliteInv, VectorInv, TypeOK
<1>2. QED
  BY <1>1, MemoryParts, SqliteInvariance, VectorInvariance, ApiInvariance, PTL

=============================================================================
