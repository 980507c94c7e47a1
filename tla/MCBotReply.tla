----------------------------- MODULE MCBotReply -----------------------------
(* BotReply on small instances, with its properties and the mutants' forms. *)
EXTENDS BotReply, TLC

SymRuns == Permutations(Runs)
=============================================================================
