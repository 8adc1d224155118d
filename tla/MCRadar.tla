------------------------------- MODULE MCRadar -------------------------------
(* Radar for TLC: a few items, and what models may say of them.             *)
EXTENDS Radar

ItemFacts ==
    {[comments |-> 0, reactions |-> 0, labels |-> {}, deadline |-> 0],
     [comments |-> 30, reactions |-> 5, labels |-> {"bug", "security"}, deadline |-> 5]}

\* Sensible axes, and numbers out of range.
ModelProposals ==
    {[relevance |-> 700, urgency |-> 400, impact |-> 300, engagement |-> 200],
     [relevance |-> 1500, urgency |-> -200, impact |-> 2000, engagement |-> 1000]}

ModelResearches ==
    {[relevance |-> 300, urgency |-> 150, impact |-> 200, engagement |-> -50],
     [relevance |-> 100, urgency |-> 0, impact |-> 100, engagement |-> 100]}
=============================================================================
