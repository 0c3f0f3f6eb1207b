---- MODULE MCPages ----
(***************************************************************************)
(* Page sizes scaled down from 20 and 100, so that three or four rows fill *)
(* several pages; one asked size is above the maximum and one is absent.   *)
(***************************************************************************)
EXTENDS Pages, TLC

SmallDefault == 2
SmallMax == 3
SmallSizes == {0, 1, 2, 4}

CreatorSymmetry == Permutations(Creators)
====
