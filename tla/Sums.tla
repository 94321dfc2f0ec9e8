-------------------------------- MODULE Sums --------------------------------
(***************************************************************************)
(* The sum of a function's values: the stacks of State.score and           *)
(* State.maxScore (src/basics/State.js), and the cards that are missing.   *)
(***************************************************************************)
EXTENDS Integers, Functions

Sum(f) == FoldFunction(LAMBDA a, b : a + b, 0, f)
=============================================================================
