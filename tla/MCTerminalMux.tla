---------------------------- MODULE MCTerminalMux ----------------------------
(* TerminalMux for the model checker: the connections are interchangeable.  *)
EXTENDS TerminalMux, TLC

Connections == Permutations(Client)
=============================================================================
