------------------------------ MODULE MCWorklist ------------------------------
(* Worklist for TLC: what the owner does, by name.                          *)
EXTENDS Worklist

\* Discusses the item, reads the answers and hides it.
Discusser == {"post", "read", "hide"}

\* Posts, or asks for a review, and comes back to the page.
Poster == {"post", "resume"}
Reviewer == {"review", "resume"}
===============================================================================
