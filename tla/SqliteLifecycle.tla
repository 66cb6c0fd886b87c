-------------------------- MODULE SqliteLifecycle --------------------------
(***************************************************************************)
(* The experience stores and what is read back from them: the JSONL file   *)
(* an agent appends to, the SQLite tables (experiences, executions,        *)
(* outcomes) that take its place when the settings name a .db file, the    *)
(* import of one into the other (`import-memory`), which anybody may start *)
(* at any time, again after it was cut off, or beside a running agent, and *)
(* the reads: the memory context of the planner and decision_lifecycle.    *)
(*                                                                         *)
(* append_raw is one transaction and so one step.  An experience is told   *)
(* from others by its decision, symbol, verdict, execution and the trades  *)
(* its cycle closed; a trade is named by the decision that opened it.      *)
(***************************************************************************)
EXTENDS Integers, FiniteSets, SequencesExt

CONSTANTS
  Symbols,
  RecentLimit,   \* recent_limit of the memory context (80 in the code)
  ShownLimit,    \* recent decisions a context shows (8 in the code)
  MaxDecisions,  \* bound: decisions a behaviour makes
  MaxImports     \* bound: imports started in a behaviour

ASSUME LimitAssumption == RecentLimit \in Nat \ {0} /\ ShownLimit \in Nat \ {0}
ASSUME StoreBoundsAssumption == MaxDecisions \in Nat /\ MaxImports \in Nat

VARIABLES
  backend,     \* the experience store the settings name: "jsonl" or "sqlite"
  file,        \* the rows of the JSONL file that can be read, in its order
  experiences, \* table experiences: rows with their autoincrement id
  lastId,      \* the last id given out
  executions,  \* table executions: how many rows each decision has
  outcomes,    \* table outcomes: the trades filed under each decision
  opened,      \* trades not closed yet: the decision that opened each, with its symbol
  made,        \* decisions made so far
  importing,   \* rows the running import has done; -1: none runs
  read,        \* rows the running import found in the file
  imports,     \* imports started so far
  undisturbed  \* the last import has not been cut, and no decision was made since it began

tables == <<experiences, lastId, executions, outcomes>>
sqliteVars == <<backend, file, tables, opened, made, importing, read, imports, undisturbed>>

DecisionIds == 1..MaxDecisions

(* A closed trade with its R multiple: the stop loses 1, the target wins 2. *)
Closed == [trade : DecisionIds, r : {-1, 2}]

Row == [decision : DecisionIds, symbol : Symbols,
        status : {"approved", "rejected"},
        reason : {"none", "spread_above_limit", "symbol_already_has_open_paper_position"},
        execution : {"none", "accepted", "refused"},
        closed : Seq(Closed)]

SqliteInit ==
  /\ backend = "jsonl" /\ file = <<>>
  /\ experiences = {} /\ lastId = 0
  /\ executions = [d \in DecisionIds |-> 0]
  /\ outcomes = [d \in DecisionIds |-> <<>>]
  /\ opened = {} /\ made = 0
  /\ importing = -1 /\ read = 0 /\ imports = 0 /\ undisturbed = FALSE

-----------------------------------------------------------------------------
(* Writing.                                                                *)

(* Mutant: the child rows of an earlier version are not deleted first.     *)
AppendRawOver(row) ==
  /\ experiences' = {e \in experiences : e.row.decision # row.decision}
                      \cup {[id |-> lastId + 1, row |-> row]}
  /\ lastId' = lastId + 1
  /\ executions' = [executions EXCEPT ![row.decision] =
                      @ + (IF row.execution = "none" THEN 0 ELSE 1)]
  /\ outcomes' = [outcomes EXCEPT ![row.decision] = @ \o row.closed]

(* Mutant: the executions and outcomes of a row are written by its first   *)
(* version only, and deleted by every one.                                 *)
AppendRawBare(row) ==
  /\ experiences' = {e \in experiences : e.row.decision # row.decision}
                      \cup {[id |-> lastId + 1, row |-> row]}
  /\ lastId' = lastId + 1
  /\ LET new == \A e \in experiences : e.row.decision # row.decision
     IN  /\ executions' = [executions EXCEPT ![row.decision] =
                             IF new /\ row.execution # "none" THEN 1 ELSE 0]
         /\ outcomes' = [outcomes EXCEPT ![row.decision] =
                           IF new THEN row.closed ELSE <<>>]

(* Mutant: the id counter is not moved on.                                 *)
AppendRawReusingId(row) ==
  /\ experiences' = {e \in experiences : e.row.decision # row.decision}
                      \cup {[id |-> lastId + 1, row |-> row]}
  /\ lastId' = lastId
  /\ executions' = [executions EXCEPT ![row.decision] =
                      IF row.execution = "none" THEN 0 ELSE 1]
  /\ outcomes' = [outcomes EXCEPT ![row.decision] = row.closed]

(* Mutant: a row that is known keeps its id.                               *)
AppendRawInPlace(row) ==
  LET old == {e \in experiences : e.row.decision = row.decision}
      id == IF old = {} THEN lastId + 1 ELSE (CHOOSE e \in old : TRUE).id
  IN  /\ experiences' = (experiences \ old) \cup {[id |-> id, row |-> row]}
      /\ lastId' = lastId + 1
      /\ executions' = [executions EXCEPT ![row.decision] =
                          IF row.execution = "none" THEN 0 ELSE 1]
      /\ outcomes' = [outcomes EXCEPT ![row.decision] = row.closed]

(* append_raw: `insert or replace` deletes the row of the decision and     *)
(* gives the new one a new id; its executions and outcomes are written     *)
(* again, the outcomes under the decision that observed the closes.        *)
AppendRaw(row) ==
  /\ experiences' = {e \in experiences : e.row.decision # row.decision}
                      \cup {[id |-> lastId + 1, row |-> row]}
  /\ lastId' = lastId + 1
  /\ executions' = [executions EXCEPT ![row.decision] =
                      IF row.execution = "none" THEN 0 ELSE 1]
  /\ outcomes' = [outcomes EXCEPT ![row.decision] = row.closed]

OnSymbol(s) == {t \in opened : t.symbol = s}

(* What one cycle of the agent may put on record about symbol s: the trade *)
(* it closed, if one is open and is hit, and a decision, which is rejected *)
(* while a trade stays open.                                               *)
Experiences(s) ==
  {row \in [decision : {made + 1}, symbol : {s}, status : {"approved", "rejected"},
            reason : {"none", "spread_above_limit", "symbol_already_has_open_paper_position"},
            execution : {"none", "accepted", "refused"},
            closed : {<<>>} \cup {<<[trade |-> t.decision, r |-> r]>> :
                                    t \in OnSymbol(s), r \in {-1, 2}}] :
     LET busy == row.closed = <<>> /\ OnSymbol(s) # {}
     IN  \/ /\ row.status = "approved" /\ ~busy
            /\ row.reason = "none" /\ row.execution # "none"
         \/ /\ row.status = "rejected" /\ row.execution = "none"
            /\ row.reason = IF busy THEN "symbol_already_has_open_paper_position"
                                    ELSE "spread_above_limit"}

(* run_once ends with memory.append of the store the settings name.        *)
RecordCycle(s) ==
  /\ made < MaxDecisions
  /\ \E row \in Experiences(s) :
       /\ made' = made + 1
       /\ opened' = IF row.execution = "accepted"
                      THEN {t \in opened : t.symbol # s}
                             \cup {[decision |-> row.decision, symbol |-> s]}
                      ELSE IF row.closed # <<>> THEN opened \ OnSymbol(s)
                      ELSE opened
       /\ IF backend = "sqlite"
            THEN AppendRaw(row) /\ UNCHANGED file
            ELSE file' = file \o <<row>> /\ UNCHANGED tables
  /\ undisturbed' = FALSE
  /\ UNCHANGED <<backend, importing, read, imports>>

(* The agent is started again with the other store as its memory.          *)
SwitchBackend ==
  /\ backend' = IF backend = "jsonl" THEN "sqlite" ELSE "jsonl"
  /\ UNCHANGED <<file, tables, opened, made, importing, read, imports, undisturbed>>

(* import-memory reads the whole file first; rows the agent appends later  *)
(* are not in this import.                                                 *)
StartImport ==
  /\ importing = -1 /\ imports < MaxImports /\ file # <<>>
  /\ importing' = 0 /\ read' = Len(file)
  /\ imports' = imports + 1
  /\ undisturbed' = TRUE
  /\ UNCHANGED <<backend, file, tables, opened, made>>

(* Mutant: the file is imported from its end.                              *)
ImportRowBackwards ==
  /\ importing \in 0..read - 1
  /\ AppendRaw(file[read - importing])
  /\ importing' = importing + 1
  /\ UNCHANGED <<backend, file, opened, made, read, imports, undisturbed>>

(* import_jsonl: a transaction for each row.  It passes over a row that    *)
(* names no decision; the rows of the file are those an agent appended,    *)
(* which all name one.                                                     *)
ImportRow ==
  /\ importing \in 0..read - 1
  /\ AppendRaw(file[importing + 1])
  /\ importing' = importing + 1
  /\ UNCHANGED <<backend, file, opened, made, read, imports, undisturbed>>

EndImport ==
  /\ importing = read
  /\ importing' = -1
  /\ UNCHANGED <<backend, file, tables, opened, made, read, imports, undisturbed>>

(* The import is killed, or cannot get the lock of the database.           *)
CutImport ==
  /\ importing >= 0
  /\ importing' = -1 /\ undisturbed' = FALSE
  /\ UNCHANGED <<backend, file, tables, opened, made, read, imports>>

SqliteNext ==
  \/ \E s \in Symbols : RecordCycle(s)
  \/ SwitchBackend
  \/ StartImport \/ ImportRow \/ EndImport \/ CutImport

SqliteSpec == SqliteInit /\ [][SqliteNext]_sqliteVars

-----------------------------------------------------------------------------
(* Reading.                                                                *)

OfSymbol(rows, s) ==
  LET Is(row) == row.symbol = s IN SelectSeq(rows, Is)

Newest(rows, n) == SubSeq(rows, Len(rows) - n + 1, Len(rows))

(* The last n of a sequence, or all of it: rows[-n:].                      *)
LastOf(rows, n) == IF Len(rows) <= n THEN rows ELSE Newest(rows, n)

(* What has i others of the set before it, and the rows in that order.     *)
Ranked(set, i) == {e \in set : Cardinality({f \in set : f.id < e.id}) = i}
ById(set) == [i \in 1..Cardinality(set) |-> (CHOOSE e \in Ranked(set, i - 1) : TRUE).row]

(* read_raw: the rows in the order of their ids.                           *)
ReadRaw == ById(experiences)

(* read_symbol_raw: the newest rows of the symbol, oldest of them first.   *)
ReadSymbolRaw(s) == LastOf(OfSymbol(ReadRaw, s), RecentLimit)

(* JsonlExperienceStore.context_summary reads the same from its rows.      *)
JsonlSymbolRows(rows, s) == LastOf(OfSymbol(rows, s), RecentLimit)

Rs(rows) == FlattenSeq([i \in DOMAIN rows |->
                          [j \in DOMAIN rows[i].closed |-> rows[i].closed[j].r]])

CountIn(seq, Test(_)) == Cardinality({i \in DOMAIN seq : Test(seq[i])})

(* context_summary_from_rows; the split of the trades by reason is left    *)
(* out, a context of no rows is the general one.                           *)
Summary(rows) ==
  LET rs == Rs(rows) IN
  [sample_size |-> Len(rows),
   recent      |-> [i \in DOMAIN rows |-> <<rows[i].status, rows[i].execution>>],
   rejections  |-> [reason \in {"spread_above_limit",
                               "symbol_already_has_open_paper_position"} |->
                      CountIn(rows, LAMBDA row : row.reason = reason)],
   count       |-> Len(rs),
   win_count   |-> CountIn(rs, LAMBDA r : r > 0),
   loss_count  |-> CountIn(rs, LAMBDA r : r < 0),
   total_r     |-> FoldSeq(LAMBDA r, sum : r + sum, 0, rs)]

(* MemoryContextBuilder._lessons, without the teacher's: 20 closed trades  *)
(* are many, a quarter R on average is good.                               *)
Lessons(summary) ==
  {IF summary.count = 0 THEN "no closed trades yet"
   ELSE IF summary.count < 20 THEN "sample still small"
   ELSE IF summary.total_r < 0 THEN "expectancy negative"
   ELSE IF 4 * summary.total_r > summary.count THEN "expectancy positive"
   ELSE "none"}
  \cup {IF summary.rejections["spread_above_limit"] > 0
          THEN "spread caused rejections" ELSE "none"}
  \cup {IF summary.rejections["symbol_already_has_open_paper_position"] > 0
          THEN "scans while a position was open" ELSE "none"}

(* MemoryContextBuilder.build and _compact: what the planner is given.     *)
Context(rows) ==
  LET summary == Summary(rows) IN
  [summary EXCEPT !.recent = LastOf(@, ShownLimit)] @@ [lessons |-> Lessons(summary)]

(* decision_lifecycle and _lifecycle_status of a stored decision.          *)
Lifecycle(d) ==
  LET row == (CHOOSE e \in experiences : e.row.decision = d).row
      accepted == row.execution = "accepted"
  IN  [terminal |-> \/ row.status = "rejected"
                    \/ row.execution = "refused"
                    \/ accepted /\ outcomes[d] # <<>>,
       gaps |-> {gap \in {"execution_not_indexed", "without_closed_outcome",
                          "approved_missing_execution"} :
                  \/ /\ gap = "execution_not_indexed"
                     /\ row.execution # "none" /\ executions[d] = 0
                  \/ /\ gap = "without_closed_outcome"
                     /\ accepted /\ outcomes[d] = <<>>
                  \/ /\ gap = "approved_missing_execution"
                     /\ row.status = "approved" /\ row.execution = "none"},
       outcomes |-> outcomes[d]]

Stored == {e.row.decision : e \in experiences}

-----------------------------------------------------------------------------
(* Properties.                                                             *)

(* The shape of the stores; ids only grow.                                 *)
SqliteTypeOK ==
  /\ backend \in {"jsonl", "sqlite"}
  /\ file \in Seq(Row)
  /\ opened \subseteq [decision : DecisionIds, symbol : Symbols]
  /\ lastId \in Nat
  /\ \A e \in experiences : e.id \in 1..lastId /\ e.row \in Row
  /\ DOMAIN executions = DecisionIds /\ DOMAIN outcomes = DecisionIds
  /\ made \in 0..MaxDecisions
  /\ imports \in 0..MaxImports
  /\ read \in Nat /\ read <= Len(file) /\ importing \in -1..read

(* The three tables tell one story, however often imports were cut off and *)
(* repeated beside a running agent: one row for a decision, and in the     *)
(* child tables exactly the executions and closed trades of those rows, so *)
(* that a report that counts table rows and one that reads raw rows agree. *)
TablesAgree ==
  /\ \A e, f \in experiences :
       (e.row.decision = f.row.decision \/ e.id = f.id) => e = f
  /\ \A e \in experiences :
       /\ executions[e.row.decision] = (IF e.row.execution = "none" THEN 0 ELSE 1)
       /\ outcomes[e.row.decision] = e.row.closed
  /\ \A d \in DecisionIds \ Stored : executions[d] = 0 /\ outcomes[d] = <<>>

Mirrored == undisturbed /\ importing = -1

(* What the agent wrote to the table itself and the file does not have.    *)
Own == {e \in experiences : \A i \in DOMAIN file : e.row # file[i]}

(* Moving from JSONL to SQLite takes the file's history along, in its      *)
(* order: after a whole import with no decision beside it, whatever was    *)
(* imported, cut off or written to the table before, the memory context of *)
(* every symbol is the one a file would give that has the rows the agent   *)
(* wrote to the table itself first and then its own.  The imported rows    *)
(* count as the newer ones, although they may have been decided earlier;   *)
(* with no own rows of the symbol in the table it is the context of the    *)
(* JSONL store.                                                            *)
ImportKeepsContext ==
  Mirrored => \A s \in Symbols :
                Context(ReadSymbolRaw(s)) = Context(JsonlSymbolRows(ById(Own) \o file, s))

(* A decision whose lifecycle was over stays so, and nothing that was      *)
(* stored is lost, also while an import rewrites it.                       *)
TerminalStays ==
  [][\A d \in Stored : /\ d \in Stored'
                       /\ Lifecycle(d).terminal => Lifecycle(d)'.terminal]_sqliteVars

-----------------------------------------------------------------------------
(* The inductive strengthening of TablesAgree and TerminalStays.           *)

(* A decision is the same wherever it is stored, and only decisions that   *)
(* were made are.                                                          *)
SameRowInv ==
  /\ \A e \in experiences : e.row.decision <= made
  /\ \A i \in DOMAIN file : file[i].decision <= made
  /\ \A i, j \in DOMAIN file : file[i].decision = file[j].decision => file[i] = file[j]
  /\ \A e \in experiences : \A i \in DOMAIN file :
       e.row.decision = file[i].decision => e.row = file[i]

SqliteInv == SqliteTypeOK /\ TablesAgree /\ SameRowInv

=============================================================================
