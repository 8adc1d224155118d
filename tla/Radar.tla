-------------------------------- MODULE Radar --------------------------------
(***************************************************************************)
(* GitHub and Ranking put to work.  A behaviour is one of three:           *)
(*   - an item's way to the radar: the searches find it (ingest), its      *)
(*     timeline is read event by event and turned into signals (enrich),   *)
(*     a ranker and the research of its thread judge it, days pass and the *)
(*     list is scored anew whenever it is shown (Resolve);                 *)
(*   - a file read page by page with the github_read_file tool;            *)
(*   - a list put in order.                                                *)
(***************************************************************************)
EXTENDS GitHub, Ranking

CONSTANTS Facts,      \* what a search tells of an item besides its reason
          Proposals,  \* what models propose, any numbers
          Researches, \* what models find the thread to change, any numbers
          Ranks,      \* the ranks in lists
          MaxEvents,  \* bound: events on the page of the timeline that is read
          MaxDay,     \* bound: the last day
          MaxText,    \* bound: bytes of a file
          MaxRows     \* bound: rows of a list

\* Everything is counted from 0; what models say may be any number.
ASSUME RadarAssumption ==
    /\ Facts \subseteq [comments : Nat, reactions : Nat,
                       labels : SUBSET DOMAIN LabelImpact, deadline : Nat]
    /\ Proposals \subseteq [Axis -> Int] /\ Researches \subseteq [Axis -> Int]
    /\ Ranks \subseteq Int
    /\ MaxEvents \in Nat /\ MaxDay \in Nat /\ MaxText \in Nat /\ MaxRows \in Nat

VARIABLES
    doing,    \* what is under way
    asked,    \* how many searches were made
    timeline, \* the events read so far
    seen,     \* what the loop has made of them
    item,     \* the item's signals
    now,      \* the day of the reader
    text,     \* the file
    pages,    \* the windows of it the model was given
    list      \* the rows, how they are wanted, and whether they are in order

vars == <<doing, asked, timeline, seen, item, now, text, pages, list>>

NoSignals ==
    [reasons |-> <<>>, comments |-> 0, reactions |-> 0, labels |-> {}, deadline |-> 0,
     participants |-> 0, inboundRefs |-> 0, awaitingMe |-> 0,
     proposed |-> NoProposal, research |-> NoResearch]

\* What a search result says of the item (toWorkItem).
Found(facts) ==
    [NoSignals EXCEPT !.comments = facts.comments, !.reactions = facts.reactions,
                      !.labels = facts.labels, !.deadline = facts.deadline]

NoList == [rows |-> <<>>, key |-> "rank", desc |-> TRUE, done |-> TRUE]

Row == [unread : BOOLEAN, rank : Ranks, updated : 1..2, id : 1..MaxRows]

Lists ==
    [rows : {rows \in [1..MaxRows -> Row] :
               \A i, j \in 1..MaxRows : rows[i].id = rows[j].id => i = j},
     key : SortKey, desc : BOOLEAN, done : {FALSE}]

Init ==
    /\ asked = 0 /\ timeline = <<>> /\ seen = NothingSeen
    /\ now = MaxEvents /\ pages = <<>>
    /\ \/ /\ doing = "search" /\ text = <<>> /\ list = NoList
          /\ item \in {Found(facts) : facts \in Facts}
       \/ /\ doing = "file" /\ item = NoSignals /\ list = NoList
          /\ text \in UNION {TextsOf(n) : n \in 0..MaxText}
       \/ /\ doing = "list" /\ item = NoSignals /\ text = <<>>
          /\ list \in Lists

-----------------------------------------------------------------------------
(***************************************************************************)
(* An item's way                                                           *)
(***************************************************************************)

\* The next search lists the item, or does not.
Search(listed) ==
    /\ doing = "search" /\ asked < Len(SearchSignals)
    /\ asked' = asked + 1
    /\ item' = IF listed
               THEN [item EXCEPT !.reasons = WithReason(@, SearchSignals[asked + 1])]
               ELSE item
    /\ UNCHANGED <<doing, timeline, seen, now, text, pages, list>>

\* Found by some search, so stored; enrich takes it up.
StartEnrich ==
    /\ doing = "search" /\ asked = Len(SearchSignals) /\ item.reasons # <<>>
    /\ doing' = "timeline"
    /\ UNCHANGED <<asked, timeline, seen, item, now, text, pages, list>>

\* The events may come in any order; no two of them are of the same instant.
ReadEvent(e) ==
    /\ doing = "timeline" /\ Len(timeline) < MaxEvents
    /\ \A i \in DOMAIN timeline : timeline[i].at # e.at
    /\ timeline' = Append(timeline, e)
    /\ seen' = Seen(seen, e)
    /\ UNCHANGED <<doing, asked, item, now, text, pages, list>>

\* runEnrich writes what the timeline says into the item.
Enrich ==
    /\ doing = "timeline"
    /\ doing' = "enriched"
    /\ item' = LET a == Activity(seen)
               IN  [item EXCEPT !.participants = a.participants,
                                !.inboundRefs = a.inboundRefs,
                                !.awaitingMe = a.awaitingMe]
    /\ timeline' = <<>> /\ seen' = NothingSeen
    /\ UNCHANGED <<asked, now, text, pages, list>>

\* A ranker proposes or does not (the stub proposes the baseline), and the
\* item's thread may have been weighed.
Judge(p, r) ==
    /\ doing = "enriched"
    /\ doing' = "listed"
    /\ item' = [item EXCEPT !.proposed = p, !.research = r]
    /\ UNCHANGED <<asked, timeline, seen, now, text, pages, list>>

Day ==
    /\ doing = "listed" /\ now < MaxDay
    /\ now' = now + 1
    /\ UNCHANGED <<doing, asked, timeline, seen, item, text, pages, list>>

-----------------------------------------------------------------------------
(***************************************************************************)
(* A file and a list                                                       *)
(***************************************************************************)

\* The model asks for any offset first ...
ReadFile(offset) ==
    /\ doing = "file" /\ pages = <<>>
    /\ pages' = <<Window(text, offset)>>
    /\ UNCHANGED <<doing, asked, timeline, seen, item, now, text, list>>

\* ... and then for the one it is told.
ReadOn ==
    /\ doing = "file" /\ pages # <<>>
    /\ LET page == pages[Len(pages)]
       IN  /\ HasMore(text, page)
           /\ pages' = Append(pages, Window(text, page.to))
    /\ UNCHANGED <<doing, asked, timeline, seen, item, now, text, list>>

Order ==
    /\ doing = "list" /\ ~list.done
    /\ list' = [list EXCEPT !.rows = Sorted(@, list.key, list.desc), !.done = TRUE]
    /\ UNCHANGED <<doing, asked, timeline, seen, item, now, text, pages>>

Next ==
    \/ \E listed \in BOOLEAN : Search(listed)
    \/ StartEnrich
    \/ \E e \in Event(1..MaxEvents) : ReadEvent(e)
    \/ Enrich
    \/ \E p \in Proposals \union {NoProposal, BaselineAxes(item, now)},
          r \in Researches \union {NoResearch} : Judge(p, r)
    \/ Day
    \/ \E offset \in -1..(MaxText + 1) : ReadFile(offset)
    \/ ReadOn
    \/ Order

Spec == Init /\ [][Next]_vars

-----------------------------------------------------------------------------
(***************************************************************************)
(* What the reads and the judgement promise                                *)
(***************************************************************************)

\* Whose turn it is (ItemActivity), told from the events as a set, so in
\* whatever order they came: it is the user's since the latest request if she
\* has not spoken since and no decisive review was the last word since; else it
\* is the others' since the last word if that is hers or decisive; else it is
\* nobody's, and it is never both's.
CourtIsRight ==
    LET events == {timeline[i] : i \in DOMAIN timeline}
        words  == {e \in events : /\ e.kind \in {"commented", "reviewed"}
                                  /\ e.who # Nobody}
        asking == {e \in events : e.kind = "review_requested" /\ e.of = Me}
        IsLast(e) == \A w \in words : w.at <= e.at
        asks  == {e \in asking :
                    /\ \A f \in asking : f.at <= e.at
                    /\ \A w \in words : w.at > e.at =>
                         w.who # Me /\ ~(w.decisive /\ IsLast(w))}
        moves == {w \in words : IsLast(w) /\ (w.who = Me \/ w.decisive)}
        a     == Activity(seen)
    IN  /\ a.awaitingMe = Max({0} \union {e.at : e \in asks})
        /\ \A e \in asks : a.requestedBy = e.who
        /\ a.awaitingOthers =
             IF asks # {} THEN 0 ELSE Max({0} \union {w.at : w \in moves})
        /\ a.participants = Cardinality({w.who : w \in words})

\* Following the offsets a read reports (fileWindow) loses nothing, repeats
\* nothing and cuts no rune: a window starts and ends between runes and keeps
\* to its size, each starts where the one before ended, and each advances.
PagesCover ==
    \A i \in DOMAIN pages :
        LET page == pages[i]
        IN  /\ Boundary(text, page.from) /\ Boundary(text, page.to)
            /\ page.to - page.from <= MaxFileBytes
            /\ page.from < Len(text) => page.to > page.from
            /\ i > 1 => page.from = pages[i - 1].to

Judged == Rank(Axes(item, now))

\* Days that bring no news never lower an item's rank, and no rank leaves the
\* unit interval, whatever models propose and find (Score, Resolve).
RankHolds ==
    [][doing' = "listed" =>
         /\ Judged' \in 0..One
         /\ doing = "listed" => Judged' >= Judged]_vars

\* A list in order (Sort) has the unread rows first whatever is asked for, each
\* of the two groups is in the order asked for, ties go to the newest row and
\* then to the name: so the order does not depend on the one before.
OneOrder ==
    list.done =>
        \A i, j \in DOMAIN list.rows :
            LET a == list.rows[i]
                b == list.rows[j]
                x == Value(a, list.key)
                y == Value(b, list.key)
            IN  i < j =>
                  /\ b.unread => a.unread
                  /\ a.unread = b.unread =>
                       /\ IF list.desc THEN x >= y ELSE x <= y
                       /\ x = y => a.updated >= b.updated
                       /\ x = y /\ a.updated = b.updated => a.id < b.id
=============================================================================
