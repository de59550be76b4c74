----------------------------- MODULE MCLruCache -----------------------------
(* Small instances of the cache for TLC.                                   *)
EXTENDS LruCache, TLC

Symmetry == Permutations(Procs) \cup Permutations(Keys) \cup Permutations(Items)

(* <<idle, update>> in ticks; <<0, 0>> disables expiry.                     *)
SomeTimeouts == {<<0, 0>>, <<1, 0>>, <<0, 1>>}
=============================================================================
