--------------------------- MODULE MCProcessDeal ---------------------------
(***************************************************************************)
(* Small instances of ProcessDeal: searches that find nothing, one offer   *)
(* or two, and prices that change between attempts.                        *)
(***************************************************************************)
EXTENDS ProcessDeal, TLC

CONSTANTS a, b       \* two offers

At1(o) == [offer |-> o, price |-> 1]
At2(o) == [offer |-> o, price |-> 2]

TwoOffers == {a, b}
OneSkuEach == [o \in TwoOffers |-> o]
OneSkuForAll == [o \in TwoOffers |-> a]

NoneOneOrTwo == {<<>>, <<At1(a)>>, <<At1(b), At1(a)>>}
NoneOrOne == {<<>>, <<At1(a)>>}
PriceChanges == {<<At1(a)>>, <<At2(a)>>}

Symmetry == Permutations(Worker)
=============================================================================
