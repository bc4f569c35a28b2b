----------------------------- MODULE FinalChain -----------------------------
(***************************************************************************)
(* What the leader fairnode promises of its database: ballots are only     *)
(* ever added, and the final chain grows one height at a time, each time   *)
(* by a block elected by enough of the ballots cast so far.  Nothing is    *)
(* ever removed or replaced.                                               *)
(***************************************************************************)
EXTENDS Integers, FiniteSets

CONSTANTS
    Ballot,     \* records with the field block, a record with otprn and num
    Base,       \* height below which the chain is taken as given
    MinMiner

VARIABLES ballots, final

\* The ballots for block b outnumber, or equal, those for any rival.
Leads(vs, b) ==
    \A c \in {v.block : v \in vs} :
        Cardinality({v \in vs : v.block = c}) <= Cardinality({v \in vs : v.block = b})

\* f.voters is a vote on f.block's league and height that f.block has won.
Elected(f) ==
    /\ f.voters \subseteq ballots
    /\ \A v \in f.voters : /\ v.block.otprn = f.block.otprn
                           /\ v.block.num = f.block.num
    /\ Cardinality(f.voters) >= MinMiner - 1
    /\ \E v \in f.voters : v.block = f.block
    /\ Leads(f.voters, f.block)

Height == Base + Cardinality(final)

Init == ballots = {} /\ final = {}

Cast == /\ ballots \subseteq ballots' /\ ballots' \subseteq Ballot
        /\ UNCHANGED final

Extend == /\ \E f \in final' :
                /\ f.block.num = Height + 1
                /\ Elected(f)
                /\ final' = final \cup {f}
          /\ UNCHANGED ballots

Next == Cast \/ Extend

Spec == Init /\ [][Next]_<<ballots, final>>

=============================================================================
