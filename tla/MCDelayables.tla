----------------------------- MODULE MCDelayables -----------------------------
(* An instance of Delayables: three delayables, two chains or groups.        *)
EXTENDS Delayables, TLC

DelaySymmetry ==
  Permutations(Delayable) \cup Permutations(Compound) \cup Permutations(Single)
    \cup Permutations(Key)

==============================================================================
