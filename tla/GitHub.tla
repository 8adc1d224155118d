------------------------------- MODULE GitHub --------------------------------
(***************************************************************************)
(* What package github makes of the answers of the GitHub API: the user's  *)
(* relations to an item (FetchWorklist), whose turn it is according to the *)
(* item's timeline (ItemActivity), and the pages of a file that is too     *)
(* long to be read at once (fileWindow).                                   *)
(*                                                                         *)
(* Requests are left out: one that fails makes the whole call fail, and    *)
(* nothing is kept of it.  Instants are numbers from 1 on; 0 is the zero   *)
(* time.                                                                   *)
(***************************************************************************)
EXTENDS Integers, Sequences, FiniteSets, FiniteSetsExt

CONSTANTS Me,           \* the login the credential belongs to
          Others,       \* further accounts
          Nobody,       \* the author of what a deleted account wrote
          MaxFileBytes, \* the file window
          MaxRune       \* the length of the longest rune

ASSUME GitHubAssumption ==
    /\ Me \notin Others /\ Nobody \notin Others \union {Me}
    /\ MaxRune \in Nat \ {0}
    /\ MaxFileBytes \in Nat /\ MaxFileBytes >= MaxRune

-----------------------------------------------------------------------------
(***************************************************************************)
(* FetchWorklist                                                           *)
(***************************************************************************)

\* The searches, in the order they are made.
SearchSignals == <<"author", "assignee", "review_requested", "commented">>

\* appendReason
WithReason(reasons, r) ==
    IF \E i \in DOMAIN reasons : reasons[i] = r THEN reasons ELSE Append(reasons, r)

-----------------------------------------------------------------------------
(***************************************************************************)
(* ItemActivity                                                            *)
(***************************************************************************)

\* Of a timeline event: its kind, its author, whether it is a review that
\* approves or requests changes, whom it requests a review of, its instant.
Event(Instants) ==
    [kind : {"commented"}, who : Others \union {Me, Nobody},
     decisive : {FALSE}, of : {Nobody}, at : Instants]
      \union
    [kind : {"cross-referenced"}, who : Others,
     decisive : {FALSE}, of : {Nobody}, at : Instants]
      \union
    [kind : {"reviewed"}, who : Others \union {Me, Nobody},
     decisive : BOOLEAN, of : {Nobody}, at : Instants]
      \union
    [kind : {"review_requested"}, who : Others,
     decisive : {FALSE}, of : Others \union {Me}, at : Instants]

\* What the loop over the events carries along.
NothingSeen ==
    [requestedAt |-> 0, requestedBy |-> Nobody, mine |-> 0,
     last |-> 0, lastActor |-> Nobody, lastDecisive |-> FALSE,
     participants |-> {}, reviewers |-> {}, inbound |-> 0]

\* mutant: only a review counts as an answer to a request
AnswersReviewsOnly(e) == e.who = Me /\ e.kind = "reviewed"

\* The user has engaged.
Answers(e) == e.who = Me

\* A comment or a review by someone known.
Spoke(seen, e) ==
    LET later == e.at > seen.last
    IN  [seen EXCEPT
           !.participants = @ \union {e.who},
           !.last         = IF later THEN e.at ELSE @,
           !.lastActor    = IF later THEN e.who ELSE @,
           !.lastDecisive = IF later THEN e.decisive ELSE @,
           !.mine         = IF Answers(e) /\ e.at > @ THEN e.at ELSE @]

\* The body of the loop.
Seen(seen, e) ==
    CASE e.kind = "commented" /\ e.who # Nobody -> Spoke(seen, e)
      [] e.kind = "reviewed" /\ e.who # Nobody ->
           [Spoke(seen, e) EXCEPT
              !.reviewers = IF e.who = Me THEN @ ELSE @ \union {e.who}]
      [] e.kind = "cross-referenced" -> [seen EXCEPT !.inbound = @ + 1]
      [] e.kind = "review_requested" /\ e.of = Me /\ e.at > seen.requestedAt ->
           [seen EXCEPT !.requestedAt = e.at, !.requestedBy = e.who]
      [] OTHER -> seen

\* Whose court the ball is in.
Activity(seen) ==
    LET me     == IF seen.requestedAt > seen.mine THEN seen.requestedAt ELSE 0
        others == CASE seen.lastActor = Me /\ seen.mine # 0 -> seen.mine
                    [] seen.lastDecisive                   -> seen.last
                    [] OTHER                               -> 0
        mine   == me > others
    IN  [participants   |-> Cardinality(seen.participants),
         inboundRefs    |-> seen.inbound,
         otherReviewers |-> Cardinality(seen.reviewers),
         awaitingMe     |-> IF mine THEN me ELSE 0,
         requestedBy    |-> IF mine THEN seen.requestedBy ELSE Nobody,
         awaitingOthers |-> IF mine THEN 0 ELSE others]

-----------------------------------------------------------------------------
(***************************************************************************)
(* fileWindow.  A text is the sequence that tells of each of its bytes     *)
(* whether a rune starts with it; offsets count from 0.                    *)
(***************************************************************************)

\* The valid texts of n bytes.
TextsOf(n) ==
    {text \in [1..n -> BOOLEAN] :
        /\ n > 0 => text[1]
        /\ \A i \in 1..n :
             \/ i + MaxRune > n
             \/ \E j \in (i + 1)..(i + MaxRune) : text[j]}

\* A rune starts here (RuneStart), or the text ends.
Boundary(text, offset) == offset = Len(text) \/ text[offset + 1]

Clamped(offset, low, high) ==
    IF offset < low THEN low ELSE IF offset > high THEN high ELSE offset

\* An offset inside a rune is moved behind it.
From(text, offset) ==
    Min({o \in Clamped(offset, 0, Len(text))..Len(text) : Boundary(text, o)})

\* mutant: the window is cut at its size
ToCut(text, from) == Clamped(from + MaxFileBytes, from, Len(text))

\* The window is shortened until it is valid.
To(text, from) ==
    Max({o \in from..Clamped(from + MaxFileBytes, from, Len(text)) :
            o = from \/ Boundary(text, o)})

Window(text, offset) ==
    [from |-> From(text, offset), to |-> To(text, From(text, offset))]

\* Whether the window tells its reader an offset to request next.
HasMore(text, window) == window.to < Len(text)
=============================================================================
