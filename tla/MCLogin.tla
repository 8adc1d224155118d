------------------------------- MODULE MCLogin -------------------------------
(* One browser with two tabs, two accounts, and two runtimes. *)
EXTENDS Login, TLC

Interchangeable ==
    Permutations(User) \union Permutations(Tab) \union Permutations(Runtime)
===============================================================================
