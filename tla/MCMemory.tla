------------------------------ MODULE MCMemory ------------------------------
(* TLC instance of what is stored: the two stores of an agent's memory,    *)
(* and the API server's settings and ticks.  They share no state, so a     *)
(* behaviour is of one of them while the others have not begun; so are the *)
(* API's settings and ticks, which only a restart of the server joins.     *)
EXTENDS SqliteLifecycle, VectorMemory, SettingsStore

EveryPatch == [config : {"demo", Unasked}, key : {"k1", "k2", NoKey, Unasked}]

Init == SqliteInit /\ VectorInit /\ ApiInit

Next == \/ VectorInit /\ ApiInit /\ SqliteNext /\ UNCHANGED <<vectorVars, apiVars>>
        \/ SqliteInit /\ ApiInit /\ VectorNext /\ UNCHANGED <<sqliteVars, apiVars>>
        \/ /\ SqliteInit /\ VectorInit /\ ApiNext /\ UNCHANGED <<sqliteVars, vectorVars>>
           /\ patches' = 0 \/ lastTick' = 0

Spec == Init /\ [][Next]_<<sqliteVars, vectorVars, apiVars>>

(* The state keeps its shape in each of the three: ids grow, what a        *)
(* process holds was stored, the buffer of ticks keeps its limit.          *)
TypeOK == SqliteTypeOK /\ VectorTypeOK /\ ApiTypeOK

=============================================================================
