---------------------------- MODULE MCOrderReturn ----------------------------
(* Instances of OrderReturn for TLC: two users, and a product that is sold   *)
(* by the piece and purchased by the pair.                                   *)
EXTENDS OrderReturn, TLC

CONSTANTS v1, v2

FewPackings == {[line |-> 1, purchase |-> 2]}

WizardSymmetry == Permutations(User)

==============================================================================
