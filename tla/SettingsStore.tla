---------------------------- MODULE SettingsStore ----------------------------
(***************************************************************************)
(* The API server's settings (SettingsStore) and ticks (AutonomousRuntime).*)
(*                                                                         *)
(* A PUT of settings runs in a thread of its own: it writes each setting   *)
(* of the patch in a transaction of its own and then copies the stored API *)
(* key into the environment, where planners and analysts look for it.      *)
(* A transaction may fail, and what was written before it stays.  A tick   *)
(* of the EA is kept in memory and appended to a tape, from which a server *)
(* that starts takes its ticks; a write of the tape may fail or be cut     *)
(* short.  The server may die at any time.                                 *)
(***************************************************************************)
EXTENDS Integers, SequencesExt

CONSTANTS
  Puts,       \* requests in flight at a time
  Patches,    \* what a request may ask for
  Keys,       \* API keys
  ShellKey,   \* OPENAI_API_KEY of the shell the server is started from
  TickLimit,  \* ticks kept in memory (500 in the code)
  MaxPatches, MaxTicks, MaxRestarts   \* bounds

NoKey == "no key"
Unasked == "unasked"

(* A patch: the setting `config`, and the key: kept, cleared or replaced.  *)
(* The other settings are stored like `config`.                            *)
ASSUME PatchAssumption ==
  /\ NoKey \notin Keys /\ Unasked \notin Keys
  /\ ShellKey \in Keys \cup {NoKey}
  /\ \A p \in Patches : p.key \in Keys \cup {NoKey, Unasked}
ASSUME TickAssumption == TickLimit \in Nat \ {0}
ASSUME ApiBoundsAssumption == MaxPatches \in Nat /\ MaxTicks \in Nat /\ MaxRestarts \in Nat

VARIABLES
  stored,   \* app_settings: config, key
  env,      \* os.environ's OPENAI_API_KEY
  put,      \* each request: where it is, its patch, the key it has read,
            \* and whether no other has been in flight beside it
  patched,  \* what the patches would leave behind, each done in whole and in order
  doubt,    \* what may differ from that: requests met, or one of them failed
  kept,     \* the key in use when the stored one was last deleted
  patches, restarts,
  ticks,    \* ticks in memory
  tape,     \* the ticks on the tape's readable lines
  tail,     \* how the tape ends: its last line ended, unended, or torn
  untaped,  \* since the server started, a write failed or met an unended line
  failed,   \* writes of the tape that failed
  lastTick

settingsVars == <<stored, env, put, patched, doubt, kept, patches>>
tickVars == <<ticks, tape, tail, untaped, failed, lastTick>>
apiVars == <<settingsVars, tickVars, restarts>>

IdlePut == [at |-> "idle", patch |-> [config |-> Unasked, key |-> Unasked],
            read |-> NoKey, alone |-> FALSE]

ApiInit ==
  /\ stored = [config |-> "default", key |-> NoKey] /\ patched = stored
  /\ env = ShellKey /\ kept = ShellKey /\ doubt = {}
  /\ put = [r \in Puts |-> IdlePut]
  /\ patches = 0 /\ restarts = 0
  /\ ticks = <<>> /\ tape = <<>> /\ tail = "ended"
  /\ untaped = FALSE /\ failed = 0 /\ lastTick = 0

-----------------------------------------------------------------------------
(* PUT /api/settings.                                                      *)

Patched(settings, p) ==
  [config |-> IF p.config = Unasked THEN settings.config ELSE p.config,
   key    |-> IF p.key = Unasked THEN settings.key ELSE p.key]

StartPut(r) ==
  /\ put[r].at = "idle" /\ patches < MaxPatches
  /\ patches' = patches + 1
  /\ LET company == {q \in Puts \ {r} : put[q].at # "idle"}
     IN \E p \in Patches :
          /\ put' = [q \in Puts |->
               IF q = r THEN [at |-> "config", patch |-> p, read |-> NoKey, alone |-> company = {}]
               ELSE [put[q] EXCEPT !.alone = FALSE]]
          /\ patched' = Patched(patched, p)
          /\ doubt' = IF company = {} THEN doubt ELSE {"config", "key", "env"}
  /\ UNCHANGED <<stored, env, kept, tickVars, restarts>>

(* What a request that had no other beside it wrote is beyond doubt.       *)
Settled(r, what) == IF put[r].alone THEN doubt \ what ELSE doubt

SetConfig(r) ==
  /\ put[r].at = "config"
  /\ stored' = [stored EXCEPT !.config = Patched(stored, put[r].patch).config]
  /\ put' = [put EXCEPT ![r].at = "key"]
  /\ doubt' = IF put[r].patch.config = Unasked THEN doubt ELSE Settled(r, {"config"})
  /\ UNCHANGED <<env, patched, kept, patches, tickVars, restarts>>

(* Mutant: a key to clear is taken for a key that was not asked for.       *)
SetKeyNeverClearing(r) ==
  /\ put[r].at = "key"
  /\ stored' = IF put[r].patch.key = NoKey THEN stored
               ELSE [stored EXCEPT !.key = Patched(stored, put[r].patch).key]
  /\ put' = [put EXCEPT ![r].at = "read"]
  /\ kept' = IF put[r].patch.key = NoKey THEN env ELSE kept
  /\ doubt' = IF put[r].patch.key = Unasked THEN doubt ELSE Settled(r, {"key"})
  /\ UNCHANGED <<env, patched, patches, tickVars, restarts>>

(* delete, or set, of openai_api_key.                                      *)
SetKey(r) ==
  /\ put[r].at = "key"
  /\ stored' = [stored EXCEPT !.key = Patched(stored, put[r].patch).key]
  /\ put' = [put EXCEPT ![r].at = "read"]
  /\ kept' = IF put[r].patch.key = NoKey THEN env ELSE kept
  /\ doubt' = IF put[r].patch.key = Unasked THEN doubt ELSE Settled(r, {"key"})
  /\ UNCHANGED <<env, patched, patches, tickVars, restarts>>

(* apply_environment reads the key ...                                     *)
ReadKey(r) ==
  /\ put[r].at = "read"
  /\ put' = [put EXCEPT ![r].at = "apply", ![r].read = stored.key]
  /\ UNCHANGED <<stored, env, patched, doubt, kept, patches, tickVars, restarts>>

(* Mutant: a key the environment has is not replaced.                      *)
ApplyKeyIfMissing(r) ==
  /\ put[r].at = "apply"
  /\ env' = IF env = NoKey THEN put[r].read ELSE env
  /\ put' = [put EXCEPT ![r] = IdlePut]
  /\ doubt' = IF put[r].read = NoKey THEN doubt ELSE Settled(r, {"env"})
  /\ UNCHANGED <<stored, patched, kept, patches, tickVars, restarts>>

(* ... and puts it into the environment, if there is one: a key that was   *)
(* cleared stays there.                                                    *)
ApplyKey(r) ==
  /\ put[r].at = "apply"
  /\ env' = IF put[r].read # NoKey THEN put[r].read ELSE env
  /\ put' = [put EXCEPT ![r] = IdlePut]
  /\ doubt' = IF put[r].read = NoKey THEN doubt ELSE Settled(r, {"env"})
  /\ UNCHANGED <<stored, patched, kept, patches, tickVars, restarts>>

(* What a request that ends where it is leaves undone of its patch.        *)
Missing(request) ==
  LET p == request.patch
  IN  (IF request.at = "config" /\ p.config # Unasked THEN {"config"} ELSE {})
      \cup (IF request.at \in {"config", "key"} /\ p.key # Unasked THEN {"key"} ELSE {})
      \cup (IF request.at \in {"read", "apply"} /\ p.key \in Keys THEN {"env"} ELSE {})

(* sqlite raises, locked or full: the request is answered with an error,   *)
(* and the settings that were written before stay.                         *)
FailPut(r) ==
  /\ put[r].at # "idle"
  /\ put' = [put EXCEPT ![r] = IdlePut]
  /\ doubt' = doubt \cup Missing(put[r])
  /\ UNCHANGED <<stored, env, patched, kept, patches, tickVars, restarts>>

-----------------------------------------------------------------------------
(* /bridge/tick: in memory and on the tape, under tick_lock.               *)

(* rows[-500:]                                                             *)
Kept(rows) == IF Len(rows) <= TickLimit THEN rows
              ELSE SubSeq(rows, Len(rows) - TickLimit + 1, Len(rows))

(* The tick's line on the tape: whole, without its end, torn, or not       *)
(* there.  A line that is not at the start of one makes one line of both,  *)
(* which no reader understands.                                            *)
Taped(tick, written) ==
  /\ IF written = "none" THEN UNCHANGED <<tape, tail>>
     ELSE /\ tape' = IF tail = "ended" /\ written # "torn" THEN tape \o <<tick>>
                     ELSE IF tail = "unended" THEN Front(tape) ELSE tape
          /\ tail' = IF written = "whole" THEN "ended"
                     ELSE IF tail = "ended" THEN written ELSE "torn"
  /\ untaped' = (untaped \/ written # "whole" \/ tail # "ended")
  /\ failed' = failed + (IF written = "whole" THEN 0 ELSE 1)

(* Mutant: the tape is trimmed before the tick is added.                   *)
IngestTickAfterTrim(written) ==
  /\ lastTick < MaxTicks
  /\ lastTick' = lastTick + 1
  /\ ticks' = Kept(ticks) \o <<lastTick + 1>>
  /\ Taped(lastTick + 1, written)
  /\ UNCHANGED <<settingsVars, restarts>>

(* When the write fails the tick is in memory already, and the clients of  *)
(* /events are not told.                                                   *)
IngestTick(written) ==
  /\ lastTick < MaxTicks
  /\ lastTick' = lastTick + 1
  /\ ticks' = Kept(ticks \o <<lastTick + 1>>)
  /\ Taped(lastTick + 1, written)
  /\ UNCHANGED <<settingsVars, restarts>>

-----------------------------------------------------------------------------
(* The server dies, its requests with it, and starts from the same shell:  *)
(* apply_environment and _load_recent_ticks.                               *)

Reborn ==
  /\ restarts < MaxRestarts
  /\ restarts' = restarts + 1
  /\ env' = IF stored.key # NoKey THEN stored.key ELSE ShellKey
  /\ kept' = ShellKey
  /\ put' = [r \in Puts |-> IdlePut]
  /\ doubt' = (doubt \cup UNION {Missing(put[r]) : r \in Puts}) \ {"env"}
  /\ UNCHANGED <<stored, patched, patches>>

(* Mutant: the ticks are read from the start of the tape.                  *)
RestartFromOldest ==
  /\ Reborn
  /\ ticks' = SubSeq(tape, 1, Len(Kept(tape))) /\ untaped' = FALSE
  /\ UNCHANGED <<tape, tail, failed, lastTick>>

Restart ==
  /\ Reborn
  /\ ticks' = Kept(tape) /\ untaped' = FALSE
  /\ UNCHANGED <<tape, tail, failed, lastTick>>

ApiNext ==
  \/ \E r \in Puts : \/ StartPut(r) \/ SetConfig(r) \/ SetKey(r)
                     \/ ReadKey(r) \/ ApplyKey(r) \/ FailPut(r)
  \/ \E written \in {"whole", "unended", "torn", "none"} : IngestTick(written)
  \/ Restart

ApiSpec == ApiInit /\ [][ApiNext]_apiVars

-----------------------------------------------------------------------------
(* Properties.                                                             *)

(* The shape of the state; the buffer of ticks keeps its limit, and the    *)
(* tape has no tick that did not arrive.                                   *)
ApiTypeOK ==
  /\ stored.key \in Keys \cup {NoKey} /\ env \in Keys \cup {NoKey}
  /\ \A r \in Puts : put[r].at \in {"idle", "config", "key", "read", "apply"}
  /\ Len(ticks) <= TickLimit /\ Len(tape) <= lastTick
  /\ restarts \in 0..MaxRestarts /\ patches \in 0..MaxPatches

Quiet == \A r \in Puts : put[r].at = "idle"

(* When no request is in flight each setting is what the patches ask for   *)
(* in their order.  In doubt is only what a request that failed, or died   *)
(* with the server, had not written yet, and all of them after requests    *)
(* that met; a later request that is alone settles again what it writes.   *)
(* The planner uses the stored key, a restart included; a key that was     *)
(* cleared stays in use until the next restart, which returns to the       *)
(* shell's.                                                                *)
KeyInUse ==
  Quiet => /\ "config" \notin doubt => stored.config = patched.config
           /\ "key" \notin doubt => stored.key = patched.key
           /\ "env" \notin doubt =>
                env = IF stored.key # NoKey THEN stored.key ELSE kept

(* The tape is a whole account of the ticks in memory, in their order,     *)
(* unless a write of it has failed or has met what a failed one left: a    *)
(* restart does not change what the charts show.  A write that fails costs *)
(* the tape two ticks at most, its own and one beside it.                  *)
TapeKeepsTicks ==
  /\ ~untaped => ticks = Kept(tape)
  /\ lastTick - Len(tape) <= 2 * failed

(* What the server works with is what its files tell it after a restart:   *)
(* the settings, the planner's key and the ticks.                          *)
ServerMatchesDisk == KeyInUse /\ TapeKeepsTicks

=============================================================================
