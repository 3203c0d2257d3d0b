----------------------------- MODULE SignalRelayMC ---------------------------
(* Every class of the library that relays bus signals. *)
EXTENDS SignalRelay, TLC
Everything == AllClasses
Symmetry == Permutations(Threads) \cup Permutations(Receivers)
=============================================================================
