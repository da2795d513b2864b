------------------------------ MODULE MCParty ------------------------------
(***************************************************************************)
(* A small instance of Party: three slots, two rules that differ in the    *)
(* age at which a child is an adult, and one whose bounds are the wrong    *)
(* way round, as the configuration admits.  Jobs are interchangeable.      *)
(***************************************************************************)
EXTENDS Party, TLC

MCRules == {[donja |-> 1, gornja |-> 2], [donja |-> 1, gornja |-> 3], [donja |-> 3, gornja |-> 2]}

MCEntries ==
  {[adults |-> 2, fallback |-> Blank, ages |-> <<4, 0, 2>>],
   [adults |-> Blank, fallback |-> 1, ages |-> <<1, 3, 4>>],
   [adults |-> Blank, fallback |-> Blank, ages |-> <<2, 3, 3>>]}

JobSymmetry == Permutations(Job)
=============================================================================
