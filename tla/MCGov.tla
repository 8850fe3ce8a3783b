-------------------------------- MODULE MCGov --------------------------------
(* The stakes of the governance runs: validators v and w and a delegator d.      *)
EXTENDS Gov

\* v was slashed and d's shares do not divide v's, so that every division rounds.
OneValidator ==
    [bonded |-> {"v"}, totalBonded |-> 5, tokens |-> [v |-> 5], shares |-> [v |-> 7 * One],
     delegations |-> [v |-> [v |-> 4 * One], w |-> [v |-> 0], d |-> [v |-> 3 * One]]]

\* v was jailed in this block: it is still bonded in the pool, not in the index.
JailedValidator == [OneValidator EXCEPT !.bonded = {}]

NothingBonded == [JailedValidator EXCEPT !.totalBonded = 0]

\* v has also delegated to w.
TwoValidators ==
    [bonded |-> {"v", "w"}, totalBonded |-> 9, tokens |-> [v |-> 5, w |-> 4],
     shares |-> [v |-> 7 * One, w |-> 4 * One],
     delegations |-> [v |-> [v |-> 4 * One, w |-> One], w |-> [v |-> 0, w |-> 2 * One],
                      d |-> [v |-> 3 * One, w |-> One]]]

AllStakes == {OneValidator, JailedValidator, NothingBonded, TwoValidators}
=============================================================================
