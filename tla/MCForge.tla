-------------------------------- MODULE MCForge --------------------------------
EXTENDS Forge, TLC
CONSTANTS github, gitlab, com, own, c1, c2
MCProviders == {gitlab}
MCFixed == {}
MCHosts == {com, own}
MCCallers == {c1, c2}
MCSettings == {NoEntry, [base |-> Nothing, client |-> TRUE], [base |-> own, client |-> TRUE],
            [base |-> com, client |-> FALSE]}
MCOlder == {[p \in MCProviders |-> entry] : entry \in {NoEntry, [base |-> own, client |-> TRUE]}}
Symmetry == Permutations(MCCallers)
===============================================================================
