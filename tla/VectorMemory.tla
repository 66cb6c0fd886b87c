---------------------------- MODULE VectorMemory ----------------------------
(***************************************************************************)
(* The local vector store as the agents' indexers use it: after a decision *)
(* its document is upserted and the documents of its symbol are compacted  *)
(* when there are too many.  The agents of the console and of the command  *)
(* line are two processes on one database file; each SQL statement block   *)
(* is a transaction of its own, so between the rows a compaction read, its *)
(* update and its summary anything may happen, an exception included,      *)
(* which run_once swallows.                                                *)
(*                                                                         *)
(* Text, embedding and score are left out: a document is its creation time *)
(* and its symbol, a summary the documents it was made of.                 *)
(***************************************************************************)
EXTENDS Integers, FiniteSets

CONSTANTS
  Tickers,          \* the symbols
  Indexers,         \* processes with an agent
  MaxDocuments,     \* compact_after_documents (500 in the code)
  TargetDocuments,  \* compact_to_documents (300 in the code)
  MaxStamps,        \* bound: decisions a behaviour makes
  MaxAborts         \* bound: indexing calls that fail

ASSUME DocumentsAssumption ==
  MaxDocuments \in Nat /\ TargetDocuments \in Nat \ {0} /\ TargetDocuments <= MaxDocuments
ASSUME VectorBoundsAssumption == MaxStamps \in Nat /\ MaxAborts \in Nat

VARIABLES
  documents,  \* the experience documents in vector_documents
  compacted,  \* those of them with compacted = 1
  summaries,  \* the context_summary documents
  clock,      \* timestamps given out so far
  stage,      \* where each process is in append_record
  document,   \* the document each process is indexing
  batch,      \* candidates of each process's running compaction
  aborts,     \* indexing calls that failed so far
  dropped,    \* history: documents whose summary a failure prevented
  told        \* history: documents each process has put into a summary

tableVars == <<documents, compacted, summaries>>
vectorVars == <<tableVars, clock, stage, document, batch, aborts, dropped, told>>

Document == [created : 1..MaxStamps, symbol : Tickers]
NoDocument == [created |-> 0, symbol |-> "none"]

VectorInit ==
  /\ documents = {} /\ compacted = {} /\ summaries = {}
  /\ clock = 0
  /\ stage = [p \in Indexers |-> "idle"]
  /\ document = [p \in Indexers |-> NoDocument]
  /\ batch = [p \in Indexers |-> {}]
  /\ aborts = 0 /\ dropped = {}
  /\ told = [p \in Indexers |-> {}]

At(p, place) == stage[p] = place
Advance(p, place) == stage' = [stage EXCEPT ![p] = place]

(* Mutant: the document carries the time of the decision before.           *)
DecidesStale(p, s) ==
  /\ At(p, "idle") /\ clock < MaxStamps
  /\ clock' = clock + 1
  /\ document' = [document EXCEPT ![p] = [created |-> clock, symbol |-> s]]
  /\ Advance(p, "upsert")
  /\ UNCHANGED <<tableVars, batch, aborts, dropped, told>>

(* document_from_record: the document carries the decision's time, which   *)
(* need not be the order in which documents are stored.                    *)
Decides(p, s) ==
  /\ At(p, "idle") /\ clock < MaxStamps
  /\ clock' = clock + 1
  /\ document' = [document EXCEPT ![p] = [created |-> clock + 1, symbol |-> s]]
  /\ Advance(p, "upsert")
  /\ UNCHANGED <<tableVars, batch, aborts, dropped, told>>

(* upsert: a document that was there is active again.                      *)
Upsert(p) ==
  /\ At(p, "upsert")
  /\ documents' = documents \cup {document[p]}
  /\ compacted' = compacted \ {document[p]}
  /\ Advance(p, "read")
  /\ UNCHANGED <<summaries, clock, document, batch, aborts, dropped, told>>

(* _rows: active experience documents of one symbol.                       *)
Active(s) == {d \in documents \ compacted : d.symbol = s}

(* Mutant: sorted the other way round, the newest go first.                *)
CandidatesNewest(s) ==
  IF Cardinality(Active(s)) <= MaxDocuments THEN {}
  ELSE {d \in Active(s) :
          Cardinality({e \in Active(s) : e.created < d.created}) >= TargetDocuments}

(* Mutant: documents compacted before are read with the active ones.       *)
CandidatesAgain(s) ==
  IF Cardinality(Active(s)) <= MaxDocuments THEN {}
  ELSE {d \in documents :
          /\ d.symbol = s
          /\ Cardinality({e \in Active(s) : e.created > d.created}) >= TargetDocuments}

(* The oldest documents beyond the target, once there are more than the    *)
(* maximum.                                                                *)
Candidates(s) ==
  IF Cardinality(Active(s)) <= MaxDocuments THEN {}
  ELSE {d \in Active(s) :
          Cardinality({e \in Active(s) : e.created > d.created}) >= TargetDocuments}

(* compact reads the rows, chooses the candidates and writes their summary *)
(* text in memory.                                                         *)
ReadRows(p) ==
  /\ At(p, "read")
  /\ batch' = [batch EXCEPT ![p] = Candidates(document[p].symbol)]
  /\ Advance(p, IF batch'[p] = {} THEN "idle" ELSE "mark")
  /\ UNCHANGED <<tableVars, clock, document, aborts, dropped, told>>

(* Mutant: the update matches no row.                                      *)
MarkNone(p) ==
  /\ At(p, "mark")
  /\ Advance(p, "summarize")
  /\ UNCHANGED <<tableVars, clock, document, batch, aborts, dropped, told>>

(* Mutant: rows are matched by their age, also those of other symbols.     *)
MarkOlder(p) ==
  /\ At(p, "mark")
  /\ compacted' = compacted \cup {d \in documents : \E e \in batch[p] : d.created <= e.created}
  /\ Advance(p, "summarize")
  /\ UNCHANGED <<documents, summaries, clock, document, batch, aborts, dropped, told>>

(* update ... set compacted = 1                                            *)
Mark(p) ==
  /\ At(p, "mark")
  /\ compacted' = compacted \cup batch[p]
  /\ Advance(p, "summarize")
  /\ UNCHANGED <<documents, summaries, clock, document, batch, aborts, dropped, told>>

(* The summary is upserted under a name made of its documents' names: two  *)
(* processes that took the same documents write the same summary.          *)
Summarize(p) ==
  /\ At(p, "summarize")
  /\ summaries' = summaries \cup {[symbol |-> document[p].symbol, covers |-> batch[p]]}
  /\ batch' = [batch EXCEPT ![p] = {}]
  /\ Advance(p, "idle")
  /\ told' = [told EXCEPT ![p] = @ \cup batch[p]]
  /\ UNCHANGED <<documents, compacted, clock, document, aborts, dropped>>

(* The database is locked, the process is killed: the call ends where it   *)
(* is, and what it had marked has no summary of it.                        *)
Abort(p) ==
  /\ stage[p] # "idle" /\ aborts < MaxAborts
  /\ aborts' = aborts + 1
  /\ dropped' = IF At(p, "summarize") THEN dropped \cup batch[p] ELSE dropped
  /\ batch' = [batch EXCEPT ![p] = {}]
  /\ Advance(p, "idle")
  /\ UNCHANGED <<tableVars, clock, document, told>>

VectorStep(p) ==
  \/ \E s \in Tickers : Decides(p, s)
  \/ Upsert(p) \/ ReadRows(p) \/ Mark(p) \/ Summarize(p) \/ Abort(p)

VectorNext == \E p \in Indexers : VectorStep(p)

VectorSpec == VectorInit /\ [][VectorNext]_vectorVars

-----------------------------------------------------------------------------
Covered == UNION {m.covers : m \in summaries}

(* The shape of the store and of the indexers' progress.                   *)
VectorTypeOK ==
  /\ documents \subseteq Document /\ compacted \subseteq documents
  /\ summaries \subseteq [symbol : Tickers, covers : SUBSET documents]
  /\ clock \in 0..MaxStamps
  /\ stage \in [Indexers -> {"idle", "upsert", "read", "mark", "summarize"}]
  /\ document \in [Indexers -> Document \cup {NoDocument}]
  /\ batch \in [Indexers -> SUBSET documents]
  /\ aborts \in 0..MaxAborts /\ dropped \subseteq documents
  /\ told \in [Indexers -> SUBSET documents]

(* What leaves the search stays in a summary: a compacted document is in   *)
(* one, or in the hands of a process about to write it, or a failure came  *)
(* in that process's way.                                                  *)
NothingForgotten ==
  compacted \subseteq
    Covered \cup dropped \cup UNION {batch[p] : p \in {q \in Indexers : At(q, "summarize")}}

(* A document the search still finds is in no summary, whatever two        *)
(* compactions do at once.                                                 *)
NeverBoth == (documents \ compacted) \cap Covered = {}

(* A document is in no more summaries than there are processes that        *)
(* compacted it, each of them once.  It is in two when two compactions     *)
(* read it before either had marked it: the code has nothing against that, *)
(* and the planner is then told of it twice.                               *)
OnceEach ==
  \A d \in documents :
    Cardinality({m \in summaries : d \in m.covers})
      <= Cardinality({p \in Indexers : d \in told[p]})

(* Each document reaches the planner as it is or in a summary, not in both *)
(* ways, but for those a cut compaction has lost; and in two summaries     *)
(* only when two processes compacted it at the same time.                  *)
FoundOrSummarized == NothingForgotten /\ NeverBoth /\ OnceEach

(* The newest documents of a symbol stay searchable as they are: one that  *)
(* was compacted has at least TargetDocuments newer ones beside it, also   *)
(* when documents are stored out of order while a compaction is under way. *)
RecentKept ==
  \A d \in compacted :
    Cardinality({e \in documents : e.symbol = d.symbol /\ e.created > d.created})
      >= TargetDocuments

(* The experiences the search ranks never grow beyond the maximum but for  *)
(* the calls that have not compacted yet, or could not.  The summaries it  *)
(* ranks with them are not counted: nothing compacts those.                *)
ActiveBounded ==
  \A s \in Tickers :
    Cardinality(Active(s)) <=
      MaxDocuments + Cardinality({p \in Indexers : stage[p] \in {"read", "mark"}}) + aborts

(* Of the experiences of a symbol the search looks at the newest, all of   *)
(* them and not many more.                                                 *)
SearchWindow == RecentKept /\ ActiveBounded

-----------------------------------------------------------------------------
(* The inductive strengthening of NothingForgotten and NeverBoth.          *)

(* What a process is about to summarize is compacted, and only it holds a  *)
(* batch; a document about to be stored has not been stored before.        *)
IndexerInv ==
  /\ \A p \in Indexers :
       /\ At(p, "summarize") => batch[p] \subseteq compacted
       /\ stage[p] \notin {"mark", "summarize"} => batch[p] = {}
       /\ stage[p] # "idle" => document[p] \in Document /\ document[p].created <= clock
       /\ At(p, "upsert") => document[p] \notin documents
  /\ \A p, q \in Indexers : At(p, "upsert") /\ At(q, "upsert")
       /\ document[p] = document[q] => p = q
  /\ \A d \in documents : d.created <= clock
  /\ Covered \subseteq compacted

VectorInv == VectorTypeOK /\ IndexerInv /\ NothingForgotten

(* And of OnceEach: no process holds a document it has summarized before.  *)
OnceInv ==
  /\ \A p \in Indexers : batch[p] \cap told[p] = {} /\ told[p] \subseteq Covered
  /\ OnceEach

=============================================================================
