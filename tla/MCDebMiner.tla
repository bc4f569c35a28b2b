----------------------------- MODULE MCDebMiner -----------------------------
(***************************************************************************)
(* Scenarios of DebMiner for TLC: slow and skip make large state spaces,   *)
(* so that one league has to do there.                                     *)
(***************************************************************************)
EXTENDS DebMiner

MCScenarios ==
    {[faults |-> {}, leagues |-> 2, rounds |-> 3],
     [faults |-> {"slow", "pool"}, leagues |-> 1, rounds |-> 2],
     [faults |-> {"skip", "lose", "late", "pool"}, leagues |-> 1, rounds |-> 2],
     [faults |-> {"lose", "late", "pool"}, leagues |-> 2, rounds |-> 2],
     [faults |-> {"race", "late"}, leagues |-> 2, rounds |-> 2]}

=============================================================================
