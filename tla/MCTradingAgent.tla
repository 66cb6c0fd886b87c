--------------------------- MODULE MCTradingAgent ---------------------------
(* TLC instances of TradingAgent.                                          *)
EXTENDS TradingAgent, TLC

Symmetry == Permutations(Symbols)

EverySetting == [store : {"jsonl", "sqlite"}, cooldown : {"none", "until_closed"}]
NoCooldown   == [store : {"jsonl", "sqlite"}, cooldown : {"none"}]

=============================================================================
