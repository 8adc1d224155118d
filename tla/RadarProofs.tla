----------------------------- MODULE RadarProofs -----------------------------
(***************************************************************************)
(* What Radar promises, for every valid file, timeline, list and item.     *)
(*                                                                         *)
(* The invariant has a part for each way through the system:               *)
(*   - FileInv: the pages read so far cover the file up to where the last  *)
(*     one ends; a window that holds a rune finds a place to end behind    *)
(*     where it starts.                                                    *)
(*   - ListInv: no name comes twice, so the comparison of Sort decides     *)
(*     between any two rows.                                               *)
(*   - TimelineInv: what the loop over the events carries along is what    *)
(*     they say as a set (Told): the latest request, the latest word, the  *)
(*     user's latest word and who has spoken.  Whose turn it is follows by *)
(*     comparing these (AskFacts, MoveFacts).                              *)
(*   - ItemInv: the signals of an item are numbers from 0 on, and what     *)
(*     models say of it are any numbers.                                   *)
(***************************************************************************)
EXTENDS Radar, RankingProofs, SequenceTheorems

(***************************************************************************)
(* A file                                                                  *)
(***************************************************************************)

\* A window starts between two runes, and where it is asked to if it can.
LEMMA FromFacts ==
  ASSUME NEW n \in Nat, NEW content \in TextsOf(n), NEW offset \in Int
  PROVE  /\ From(content, offset) \in 0..n
         /\ Boundary(content, From(content, offset))
         /\ offset \in 0..n /\ Boundary(content, offset) => From(content, offset) = offset
<1> DEFINE c == Clamped(offset, 0, Len(content))
           S == {o \in c..Len(content) : Boundary(content, o)}
<1>1. Len(content) = n
  BY DEF TextsOf
<1>2. c \in Int /\ 0 <= c /\ c <= n /\ (offset \in 0..n => c = offset)
  BY <1>1 DEF Clamped
<1> HIDE DEF c
<1>3. n \in S
  BY <1>1, <1>2 DEF Boundary
<1>4. S \in SUBSET (c..n)
  BY <1>1
<1>5. Min(S) \in S
  <2> HIDE DEF S
  <2>1. S # {} /\ c \in Int /\ n \in Int
    BY <1>2, <1>3
  <2> QED
    BY <1>4, <2>1, MinBetween
<1>6. From(content, offset) = Min(S)
  BY DEF From, c
<1>7. ASSUME offset \in 0..n, Boundary(content, offset)
      PROVE  Min(S) = offset
  <2>1. offset \in S
    BY <1>1, <1>2, <1>7
  <2>2. S \in SUBSET Int /\ \A o \in S : offset <= o
    BY <1>1, <1>2, <1>7
  <2> HIDE DEF S
  <2> QED
    BY <2>1, <2>2, MinIs
<1> QED
  BY <1>1, <1>2, <1>5, <1>6, <1>7

\* A window ends between two runes within its size, and if anything is left of
\* the text it is not empty: no rune is longer than a window.
LEMMA ToFacts ==
  ASSUME NEW n \in Nat, NEW content \in TextsOf(n), NEW from \in 0..n, Boundary(content, from)
  PROVE  /\ To(content, from) \in from..n
         /\ Boundary(content, To(content, from))
         /\ To(content, from) - from <= MaxFileBytes
         /\ from < n => To(content, from) > from
<1> DEFINE c == Clamped(from + MaxFileBytes, from, Len(content))
           S == {o \in from..c : o = from \/ Boundary(content, o)}
<1>1. Len(content) = n /\ MaxFileBytes \in Nat /\ MaxRune \in Nat \ {0} /\ MaxRune <= MaxFileBytes
  BY GitHubAssumption DEF TextsOf
<1>2. /\ c \in Int /\ from <= c /\ c <= n /\ c <= from + MaxFileBytes
      /\ from + MaxFileBytes <= n => c = from + MaxFileBytes
      /\ from + MaxFileBytes > n => c = n
  BY <1>1 DEF Clamped
<1> HIDE DEF c
<1>3. from \in S /\ S \in SUBSET (from..c)
  BY <1>2
<1>4. Max(S) \in S /\ \A o \in S : Max(S) >= o
  <2> HIDE DEF S
  <2>1. S # {} /\ c \in Int /\ from \in Int
    BY <1>2, <1>3
  <2> QED
    BY <1>3, <2>1, MaxBetween
<1>5. To(content, from) = Max(S)
  BY DEF To, c
<1>6. ASSUME from < n
      PROVE  \E o \in S : o > from
  <2>1. CASE from + 1 + MaxRune > n
    <3>1. c = n
      BY <1>1, <1>2, <2>1
    <3>2. n \in S
      BY <1>1, <1>6, <3>1 DEF Boundary
    <3> QED
      BY <1>6, <3>2
  <2>2. CASE from + 1 + MaxRune <= n
    <3>1. from + 1 \in 1..n
      BY <1>6
    <3>2. PICK j \in (from + 1 + 1)..(from + 1 + MaxRune) : content[j]
      <4>1. \A i \in 1..n : \/ i + MaxRune > n
                            \/ \E j \in (i + 1)..(i + MaxRune) : content[j]
        BY DEF TextsOf
      <4> DEFINE i == from + 1
      <4>2. i \in 1..n /\ ~(i + MaxRune > n)
        BY <1>1, <2>2, <3>1
      <4> HIDE DEF i
      <4>3. \E j \in (i + 1)..(i + MaxRune) : content[j]
        BY <4>1, <4>2
      <4> QED
        BY <4>3 DEF i
    <3>3. j \in Int /\ j - 1 > from /\ j - 1 <= from + MaxRune /\ j - 1 < n
      BY <1>1, <2>2, <3>2
    <3>4. j - 1 <= c
      BY <1>1, <1>2, <3>3
    <3>5. Boundary(content, j - 1)
      BY <3>2, <3>3 DEF Boundary
    <3>6. j - 1 \in S
      BY <1>2, <3>3, <3>4, <3>5
    <3> QED
      BY <3>3, <3>6
  <2> QED
    BY <1>1, <2>1, <2>2
<1>7. Max(S) \in from..c /\ (Max(S) = from \/ Boundary(content, Max(S)))
  BY <1>4
<1>8. from < n => Max(S) > from
  <2>1. \A o \in S : o \in Int
    BY <1>2
  <2> HIDE DEF S
  <2> QED
    BY <1>4, <1>6, <2>1
<1> HIDE DEF S
<1> QED
  BY <1>1, <1>2, <1>5, <1>7, <1>8

\* The file is a valid text, and what the model was given of it covers it.
FileInv ==
    /\ \E n \in Nat : text \in TextsOf(n)
    /\ pages \in Seq([from : 0..Len(text), to : 0..Len(text)])
    /\ PagesCover

LEMMA WindowFacts ==
  ASSUME NEW n \in Nat, NEW content \in TextsOf(n), NEW offset \in Int
  PROVE  LET page == Window(content, offset)
         IN  /\ page \in [from : 0..n, to : 0..n]
             /\ Boundary(content, page.from) /\ Boundary(content, page.to)
             /\ page.to - page.from <= MaxFileBytes
             /\ page.from < n => page.to > page.from
             /\ offset \in 0..n /\ Boundary(content, offset) => page.from = offset
<1> DEFINE f == From(content, offset)
           t == To(content, f)
<1>1. /\ f \in 0..n /\ Boundary(content, f)
      /\ offset \in 0..n /\ Boundary(content, offset) => f = offset
  BY FromFacts
<1> HIDE DEF f
<1>2. /\ t \in f..n /\ Boundary(content, t) /\ t - f <= MaxFileBytes
      /\ f < n => t > f
  BY <1>1, ToFacts
<1>3. t \in 0..n
  BY <1>1, <1>2
<1>4. Window(content, offset) = [from |-> f, to |-> t]
  BY DEF Window, f
<1> HIDE DEF t
<1> QED
  BY <1>1, <1>2, <1>3, <1>4

LEMMA FileStart ==
  ASSUME Init
  PROVE  FileInv
<1>1. pages = <<>>
  BY DEF Init
<1>2. \E n \in Nat : text \in TextsOf(n)
  <2>1. CASE text = <<>>
    <3>1. <<>> \in TextsOf(0)
      BY DEF TextsOf
    <3> QED
      BY <2>1, <3>1
  <2>2. CASE text \in UNION {TextsOf(n) : n \in 0..MaxText}
    BY <2>2, RadarAssumption
  <2> QED
    BY <2>1, <2>2 DEF Init
<1> QED
  BY <1>1, <1>2 DEF FileInv, PagesCover

LEMMA FirstPage ==
  ASSUME FileInv, NEW offset \in Int, ReadFile(offset)
  PROVE  FileInv'
<1>1. PICK n \in Nat : text \in TextsOf(n)
  BY DEF FileInv
<1>2. Len(text) = n /\ text' = text
  BY <1>1 DEF TextsOf, ReadFile
<1> DEFINE page == Window(text, offset)
<1>3. pages' = <<page>>
  BY DEF ReadFile
<1>4. /\ page \in [from : 0..n, to : 0..n]
      /\ Boundary(text, page.from) /\ Boundary(text, page.to)
      /\ page.to - page.from <= MaxFileBytes
      /\ page.from < n => page.to > page.from
  BY <1>1, WindowFacts
<1> HIDE DEF page
<1>5. pages' \in Seq([from : 0..n, to : 0..n])
  BY <1>3, <1>4
<1>6. DOMAIN pages' = {1} /\ pages'[1] = page
  BY <1>3
<1>7. PagesCover'
  BY <1>2, <1>4, <1>6 DEF PagesCover
<1> QED
  BY <1>1, <1>2, <1>5, <1>7 DEF FileInv

LEMMA NextPage ==
  ASSUME FileInv, ReadOn
  PROVE  FileInv'
<1>1. PICK n \in Nat : text \in TextsOf(n)
  BY DEF FileInv
<1>2. Len(text) = n /\ text' = text
  BY <1>1 DEF TextsOf, ReadOn
<1> DEFINE before == pages[Len(pages)]
           page == Window(text, before.to)
           k == Len(pages)
<1>3. pages' = Append(pages, page) /\ pages # <<>>
  BY DEF ReadOn
<1>4. pages \in Seq([from : 0..n, to : 0..n])
  BY <1>2 DEF FileInv
<1>5. k \in Nat /\ k \in DOMAIN pages /\ k > 0
  BY <1>3, <1>4, EmptySeq
<1>6. before \in [from : 0..n, to : 0..n]
  <2> DEFINE Pages == [from : 0..n, to : 0..n]
  <2>1. pages \in Seq(Pages)
    BY <1>4
  <2> HIDE DEF Pages
  <2>2. pages[k] \in Pages
    BY <1>5, <2>1
  <2> QED
    BY <2>2 DEF Pages
<1>7. before.to \in 0..n /\ Boundary(text, before.to)
  BY <1>5, <1>6 DEF FileInv, PagesCover
<1>8. /\ page \in [from : 0..n, to : 0..n]
      /\ Boundary(text, page.from) /\ Boundary(text, page.to)
      /\ page.to - page.from <= MaxFileBytes
      /\ page.from < n => page.to > page.from
      /\ page.from = before.to
  <2> HIDE DEF before
  <2>1. before.to \in Int
    BY <1>7
  <2> QED
    BY <1>1, <1>7, <2>1, WindowFacts
<1> HIDE DEF page
<1>9. pages' \in Seq([from : 0..n, to : 0..n])
  BY <1>3, <1>4, <1>8, AppendProperties
<1>10. /\ Len(pages') = k + 1 /\ pages'[k + 1] = page
       /\ \A i \in 1..k : pages'[i] = pages[i]
  BY <1>3, <1>4, <1>8, AppendProperties
<1>11. ASSUME NEW i \in DOMAIN pages'
       PROVE  /\ Boundary(text, pages'[i].from) /\ Boundary(text, pages'[i].to)
              /\ pages'[i].to - pages'[i].from <= MaxFileBytes
              /\ pages'[i].from < Len(text) => pages'[i].to > pages'[i].from
              /\ i > 1 => pages'[i].from = pages'[i - 1].to
  <2>1. i \in 1..(k + 1)
    BY <1>5, <1>9, <1>10
  <2>2. CASE i = k + 1
    <3>1. pages'[i] = page /\ i - 1 = k /\ pages'[i - 1] = before
      BY <1>5, <1>10, <2>2
    <3> QED
      BY <1>2, <1>8, <3>1
  <2>3. CASE i \in 1..k
    <3>1. i \in DOMAIN pages /\ pages'[i] = pages[i]
      BY <1>4, <1>10, <2>3
    <3>2. i > 1 => pages'[i - 1] = pages[i - 1]
      BY <1>5, <1>10, <2>3
    <3>3. PagesCover
      BY DEF FileInv
    <3> QED
      BY <3>1, <3>2, <3>3 DEF PagesCover
  <2> QED
    BY <1>5, <2>1, <2>2, <2>3
<1>12. PagesCover'
  BY <1>2, <1>11 DEF PagesCover
<1> QED
  BY <1>1, <1>2, <1>9, <1>12 DEF FileInv

LEMMA FileKept ==
  ASSUME FileInv, UNCHANGED <<text, pages>>
  PROVE  FileInv'
  BY DEF FileInv, PagesCover

-----------------------------------------------------------------------------
(***************************************************************************)
(* A list                                                                  *)
(***************************************************************************)

ListOf(n) == [rows : [1..n -> AnyRow], key : SortKey, desc : BOOLEAN, done : BOOLEAN]

\* No name comes twice, and a list that is in order is in that of Sort.
ListInv ==
    /\ \E n \in Nat : list \in ListOf(n)
    /\ \A i, j \in DOMAIN list.rows : list.rows[i].id = list.rows[j].id => i = j
    /\ list.done =>
         \A i, j \in DOMAIN list.rows :
           i < j => Before(list.rows[i], list.rows[j], list.key, list.desc)

LEMMA ListStart ==
  ASSUME Init
  PROVE  ListInv
<1>1. CASE list = NoList
  <2>1. list.rows = <<>> /\ list.key = "rank" /\ list.desc = TRUE /\ list.done = TRUE
    BY <1>1 DEF NoList
  <2>2. list \in ListOf(0)
    BY <1>1 DEF NoList, ListOf, SortKey
  <2>3. DOMAIN list.rows = {}
    BY <2>1
  <2> QED
    BY <2>2, <2>3 DEF ListInv
<1>2. CASE list \in Lists
  <2>1. /\ list \in [rows : [1..MaxRows -> Row], key : SortKey, desc : BOOLEAN, done : {FALSE}]
        /\ \A i, j \in 1..MaxRows : list.rows[i].id = list.rows[j].id => i = j
    BY <1>2 DEF Lists
  <2>2. \A r \in Row : r \in AnyRow
    <3>1. \A x \in Ranks : x \in Int
      BY RadarAssumption
    <3>2. \A x \in 1..MaxRows : x \in Int
      OBVIOUS
    <3> QED
      BY <3>1, <3>2 DEF Row, AnyRow
  <2>3. list \in ListOf(MaxRows) /\ list.done = FALSE
    BY <2>1, <2>2 DEF ListOf
  <2>4. DOMAIN list.rows = 1..MaxRows /\ MaxRows \in Nat
    BY <2>3, RadarAssumption DEF ListOf
  <2> QED
    BY <2>1, <2>3, <2>4 DEF ListInv
<1> QED
  BY <1>1, <1>2 DEF Init

LEMMA ListOrdered ==
  ASSUME ListInv, Order
  PROVE  ListInv'
<1>1. PICK n \in Nat : list \in ListOf(n)
  BY DEF ListInv
<1>2. /\ list.rows \in [1..n -> AnyRow] /\ list.key \in SortKey /\ list.desc \in BOOLEAN
      /\ \A i, j \in 1..n : list.rows[i].id = list.rows[j].id => i = j
  BY <1>1 DEF ListOf, ListInv
<1> DEFINE sorted == Sorted(list.rows, list.key, list.desc)
<1>3. list' = [list EXCEPT !.rows = sorted, !.done = TRUE]
  BY DEF Order
<1>4. /\ \E f \in Bijection(1..n, 1..n) : sorted = [p \in 1..n |-> list.rows[f[p]]]
      /\ \A p, q \in 1..n : p < q => Before(sorted[p], sorted[q], list.key, list.desc)
  <2> DEFINE rows == list.rows
             key == list.key
             desc == list.desc
  <2>1. /\ rows \in [1..n -> AnyRow] /\ key \in SortKey /\ desc \in BOOLEAN
        /\ \A i, j \in 1..n : rows[i].id = rows[j].id => i = j
    BY <1>2
  <2>2. sorted = Sorted(rows, key, desc)
    OBVIOUS
  <2> HIDE DEF sorted, rows, key, desc
  <2>3. /\ \E f \in Bijection(1..n, 1..n) : Sorted(rows, key, desc) = [p \in 1..n |-> rows[f[p]]]
        /\ \A p, q \in 1..n :
             p < q => Before(Sorted(rows, key, desc)[p], Sorted(rows, key, desc)[q], key, desc)
    BY <2>1, SortedOrders
  <2> QED
    BY <2>2, <2>3 DEF rows, key, desc
<1> HIDE DEF sorted
<1>5. PICK f \in Bijection(1..n, 1..n) : sorted = [p \in 1..n |-> list.rows[f[p]]]
  BY <1>4
<1>6. \A p, q \in 1..n : f[p] \in 1..n /\ (f[p] = f[q] => p = q)
  BY DEF Bijection, Injection, IsInjective
<1>7. sorted \in [1..n -> AnyRow]
  BY <1>2, <1>5, <1>6
<1>8. \A p, q \in 1..n : sorted[p].id = sorted[q].id => p = q
  BY <1>2, <1>5, <1>6
<1>9. /\ list' \in ListOf(n) /\ list'.rows = sorted
      /\ list'.key = list.key /\ list'.desc = list.desc
  BY <1>1, <1>3, <1>7 DEF ListOf
<1>10. DOMAIN sorted = 1..n
  BY <1>7
<1> QED
  BY <1>4, <1>8, <1>9, <1>10 DEF ListInv

LEMMA ListKept ==
  ASSUME ListInv, UNCHANGED list
  PROVE  ListInv'
  BY DEF ListInv

\* What the comparison of Sort says of two rows in order.
LEMMA BeforeSays ==
  ASSUME NEW a \in AnyRow, NEW b \in AnyRow, NEW key \in SortKey, NEW desc \in BOOLEAN,
         Before(a, b, key, desc)
  PROVE  /\ b.unread => a.unread
         /\ a.unread = b.unread =>
              /\ IF desc THEN Value(a, key) >= Value(b, key) ELSE Value(a, key) <= Value(b, key)
              /\ Value(a, key) = Value(b, key) => a.updated >= b.updated
              /\ Value(a, key) = Value(b, key) /\ a.updated = b.updated => a.id < b.id
<1>1. Value(a, key) \in Int /\ Value(b, key) \in Int
  BY ValueType
<1>2. /\ a.updated \in Int /\ b.updated \in Int /\ a.id \in Int /\ b.id \in Int
      /\ a.unread \in BOOLEAN /\ b.unread \in BOOLEAN
  BY DEF AnyRow
<1> QED
  BY <1>1, <1>2 DEF Before

LEMMA InOrder ==
  ASSUME ListInv
  PROVE  OneOrder
<1>1. PICK n \in Nat : list \in ListOf(n)
  BY DEF ListInv
<1>2. /\ list.rows \in [1..n -> AnyRow] /\ list.key \in SortKey /\ list.desc \in BOOLEAN
      /\ DOMAIN list.rows = 1..n
  BY <1>1 DEF ListOf
<1> SUFFICES ASSUME list.done, NEW i \in DOMAIN list.rows, NEW j \in DOMAIN list.rows, i < j
             PROVE  LET a == list.rows[i]
                        b == list.rows[j]
                        x == Value(a, list.key)
                        y == Value(b, list.key)
                    IN  /\ b.unread => a.unread
                        /\ a.unread = b.unread =>
                             /\ IF list.desc THEN x >= y ELSE x <= y
                             /\ x = y => a.updated >= b.updated
                             /\ x = y /\ a.updated = b.updated => a.id < b.id
  BY DEF OneOrder
<1>3. Before(list.rows[i], list.rows[j], list.key, list.desc)
  BY DEF ListInv
<1>4. list.rows[i] \in AnyRow /\ list.rows[j] \in AnyRow
  BY <1>2
<1> QED
  BY <1>2, <1>3, <1>4, BeforeSays

-----------------------------------------------------------------------------
(***************************************************************************)
(* The timeline                                                            *)
(***************************************************************************)

People == Others \union {Me, Nobody}

IsEvent(e) == e.who \in People /\ e.of \in People /\ e.decisive \in BOOLEAN /\ e.at \in Nat \ {0}

LEMMA EventsAre ==
  ASSUME NEW e \in Event(1..MaxEvents)
  PROVE  IsEvent(e)
<1>1. \A at \in 1..MaxEvents : at \in Nat \ {0}
  BY RadarAssumption
<1>2. e.at \in 1..MaxEvents /\ e.decisive \in BOOLEAN
  BY DEF Event
<1>3. e.who \in People /\ e.of \in People
  BY DEF Event, People
<1> QED
  BY <1>1, <1>2, <1>3 DEF IsEvent

\* Of a set of events: what was said by someone known, by the user, and the
\* requests of a review by the user.
Words(E) == {e \in E : e.kind \in {"commented", "reviewed"} /\ e.who # Nobody}

Own(E) == {w \in Words(E) : w.who = Me}

Asking(E) == {e \in E : e.kind = "review_requested" /\ e.of = Me}

IsLatest(e, S) == e \in S /\ \A f \in S : f.at <= e.at

SeenType ==
    [requestedAt : Nat, requestedBy : People, mine : Nat,
     last : Nat, lastActor : People, lastDecisive : BOOLEAN,
     participants : SUBSET People, reviewers : SUBSET People, inbound : Nat]

\* What the loop of ItemActivity carries along, told from the events as a set.
AskTold(s, E) ==
    IF Asking(E) = {} THEN s.requestedAt = 0
    ELSE \E e : /\ IsLatest(e, Asking(E))
                /\ s.requestedAt = e.at /\ s.requestedBy = e.who

LastTold(s, E) ==
    IF Words(E) = {} THEN s.last = 0 /\ s.lastActor = Nobody /\ s.lastDecisive = FALSE
    ELSE \E w : /\ IsLatest(w, Words(E)) /\ s.last = w.at
                /\ s.lastActor = w.who /\ s.lastDecisive = w.decisive

MineTold(s, E) ==
    IF Own(E) = {} THEN s.mine = 0
    ELSE \E w : IsLatest(w, Own(E)) /\ s.mine = w.at

PeopleTold(s, E) ==
    s.participants = {w.who : w \in Words(E)} /\ IsFiniteSet(s.participants)

Told(s, E) ==
    s \in SeenType /\ AskTold(s, E) /\ LastTold(s, E) /\ MineTold(s, E) /\ PeopleTold(s, E)

\* Nothing is told of no events.
LEMMA NothingTold == Told(NothingSeen, {})
<1>1. Words({}) = {} /\ Own({}) = {} /\ Asking({}) = {}
  BY DEF Words, Own, Asking
<1>2. NothingSeen \in SeenType
  BY DEF NothingSeen, SeenType, People
<1>3. AskTold(NothingSeen, {}) /\ LastTold(NothingSeen, {}) /\ MineTold(NothingSeen, {})
  BY <1>1 DEF NothingSeen, AskTold, LastTold, MineTold
<1>4. PeopleTold(NothingSeen, {})
  BY <1>1, FS_EmptySet DEF NothingSeen, PeopleTold
<1> QED
  BY <1>2, <1>3, <1>4 DEF Told

\* The latest event of one more.
LEMMA LatestOfMore ==
  ASSUME NEW S, NEW e, NEW f, e.at \in Nat, f.at \in Nat, \A g \in S : g.at \in Nat,
         IsLatest(f, S)
  PROVE  IF e.at > f.at THEN IsLatest(e, S \union {e}) ELSE IsLatest(f, S \union {e})
<1>1. CASE e.at > f.at
  BY <1>1 DEF IsLatest
<1>2. CASE ~(e.at > f.at)
  BY <1>2 DEF IsLatest
<1> QED
  BY <1>1, <1>2

\* What a comment or a review leaves behind, field by field.
LEMMA SpokeFields ==
  ASSUME NEW s \in SeenType, NEW e, IsEvent(e)
  PROVE  LET r == Spoke(s, e)
         IN  /\ r \in SeenType
             /\ r.requestedAt = s.requestedAt /\ r.requestedBy = s.requestedBy
             /\ r.participants = s.participants \union {e.who}
             /\ r.reviewers = s.reviewers /\ r.inbound = s.inbound
             /\ e.at > s.last => /\ r.last = e.at /\ r.lastActor = e.who
                                 /\ r.lastDecisive = e.decisive
             /\ ~(e.at > s.last) => /\ r.last = s.last /\ r.lastActor = s.lastActor
                                    /\ r.lastDecisive = s.lastDecisive
             /\ e.who = Me /\ e.at > s.mine => r.mine = e.at
             /\ ~(e.who = Me /\ e.at > s.mine) => r.mine = s.mine
<1>1. e.who \in People /\ e.decisive \in BOOLEAN /\ e.at \in Nat
  BY DEF IsEvent
<1>2. s.participants \union {e.who} \in SUBSET People
  BY <1>1 DEF SeenType
<1> DEFINE p == s.participants \union {e.who}
           l == IF e.at > s.last THEN e.at ELSE s.last
           a == IF e.at > s.last THEN e.who ELSE s.lastActor
           d == IF e.at > s.last THEN e.decisive ELSE s.lastDecisive
           m == IF e.who = Me /\ e.at > s.mine THEN e.at ELSE s.mine
<1>3. l \in Nat /\ a \in People /\ m \in Nat
  BY <1>1 DEF SeenType
<1>4. d \in BOOLEAN
  BY <1>1 DEF SeenType
<1>5. Spoke(s, e) = [s EXCEPT !.participants = p, !.last = l, !.lastActor = a,
                              !.lastDecisive = d, !.mine = m]
  BY DEF Spoke, Answers, SeenType
<1>6. p \in SUBSET People
  BY <1>2
<1>7. LET r == Spoke(s, e)
      IN  /\ r \in SeenType
          /\ r.requestedAt = s.requestedAt /\ r.requestedBy = s.requestedBy
          /\ r.participants = p
          /\ r.reviewers = s.reviewers /\ r.inbound = s.inbound
          /\ r.last = l /\ r.lastActor = a /\ r.lastDecisive = d /\ r.mine = m
  <2> HIDE DEF p, l, a, d, m
  <2> QED
    BY <1>3, <1>4, <1>5, <1>6 DEF SeenType
<1> QED
  BY <1>7

\* One more comment or review.
LEMMA WordTold ==
  ASSUME NEW s, NEW E, NEW e, NEW r, IsEvent(e), \A f \in E : IsEvent(f), Told(s, E),
         e.kind \in {"commented", "reviewed"}, e.who # Nobody,
         r \in SeenType, r.requestedAt = s.requestedAt, r.requestedBy = s.requestedBy,
         r.participants = s.participants \union {e.who},
         e.at > s.last => r.last = e.at /\ r.lastActor = e.who /\ r.lastDecisive = e.decisive,
         ~(e.at > s.last) => /\ r.last = s.last /\ r.lastActor = s.lastActor
                             /\ r.lastDecisive = s.lastDecisive,
         e.who = Me /\ e.at > s.mine => r.mine = e.at,
         ~(e.who = Me /\ e.at > s.mine) => r.mine = s.mine
  PROVE  Told(r, E \union {e})
<1> DEFINE F == E \union {e}
<1>1. /\ Words(F) = Words(E) \union {e} /\ Asking(F) = Asking(E)
      /\ e.who = Me => Own(F) = Own(E) \union {e}
      /\ e.who # Me => Own(F) = Own(E)
  BY DEF Words, Asking, Own
<1>2. /\ \A w \in Words(E) : w.at \in Nat /\ w.at > 0
      /\ \A w \in Own(E) : w.at \in Nat /\ w.at > 0
      /\ e.at \in Nat /\ e.at > 0
  BY DEF Words, Own, IsEvent
<1>3. s \in SeenType /\ AskTold(s, E) /\ LastTold(s, E) /\ MineTold(s, E) /\ PeopleTold(s, E)
  BY DEF Told
<1> HIDE DEF F
<1>4. AskTold(r, F)
  BY <1>1, <1>3 DEF AskTold
<1>5. LastTold(r, F)
  <2>1. CASE Words(E) = {}
    <3>1. s.last = 0
      BY <1>3, <2>1 DEF LastTold
    <3>2. e.at > s.last
      BY <1>2, <3>1
    <3>3. Words(F) = {e}
      BY <1>1, <2>1
    <3>4. IsLatest(e, Words(F))
      BY <1>2, <3>3 DEF IsLatest
    <3> QED
      BY <3>2, <3>3, <3>4 DEF LastTold
  <2>2. CASE Words(E) # {}
    <3>1. PICK w : /\ IsLatest(w, Words(E)) /\ s.last = w.at
                   /\ s.lastActor = w.who /\ s.lastDecisive = w.decisive
      BY <1>3, <2>2 DEF LastTold
    <3>2. w.at \in Nat
      BY <1>2, <3>1 DEF IsLatest
    <3>3. IF e.at > w.at THEN IsLatest(e, Words(F)) ELSE IsLatest(w, Words(F))
      <4> DEFINE S == Words(E)
      <4>1. IsLatest(w, S) /\ \A g \in S : g.at \in Nat
        BY <3>1, <1>2
      <4>2. Words(F) = S \union {e} /\ e.at \in Nat
        BY <1>1, <1>2
      <4> HIDE DEF S
      <4>3. IF e.at > w.at THEN IsLatest(e, S \union {e}) ELSE IsLatest(w, S \union {e})
        BY <3>2, <4>1, <4>2, LatestOfMore
      <4> QED
        BY <4>2, <4>3
    <3>4. Words(F) # {}
      BY <1>1
    <3> QED
      BY <3>1, <3>3, <3>4 DEF LastTold
  <2> QED
    BY <2>1, <2>2
<1>6. MineTold(r, F)
  <2>1. CASE e.who # Me
    BY <1>1, <1>3, <2>1 DEF MineTold
  <2>2. CASE e.who = Me /\ Own(E) = {}
    <3>1. s.mine = 0
      BY <1>3, <2>2 DEF MineTold
    <3>2. r.mine = e.at
      BY <1>2, <2>2, <3>1
    <3>3. Own(F) = {e}
      BY <1>1, <2>2
    <3>4. IsLatest(e, Own(F))
      BY <1>2, <3>3 DEF IsLatest
    <3> QED
      BY <3>2, <3>3, <3>4 DEF MineTold
  <2>3. CASE e.who = Me /\ Own(E) # {}
    <3>1. PICK w : IsLatest(w, Own(E)) /\ s.mine = w.at
      BY <1>3, <2>3 DEF MineTold
    <3>2. w.at \in Nat
      BY <1>2, <3>1 DEF IsLatest
    <3>3. IF e.at > w.at THEN IsLatest(e, Own(F)) ELSE IsLatest(w, Own(F))
      <4>1. Own(F) = Own(E) \union {e}
        BY <1>1, <2>3
      <4>2. e.at \in Nat /\ \A g \in Own(E) : g.at \in Nat
        BY <1>2
      <4> QED
        <5> DEFINE S == Own(E)
        <5>1. IsLatest(w, S) /\ \A g \in S : g.at \in Nat
          BY <3>1, <4>2
        <5>2. Own(F) = S \union {e}
          BY <4>1
        <5> HIDE DEF S
        <5>3. IF e.at > w.at THEN IsLatest(e, S \union {e}) ELSE IsLatest(w, S \union {e})
          BY <3>2, <4>2, <5>1, LatestOfMore
        <5> QED
          BY <5>2, <5>3
    <3>4. Own(F) # {}
      BY <1>1, <2>3
    <3> QED
      BY <2>3, <3>1, <3>3, <3>4 DEF MineTold
  <2> QED
    BY <2>1, <2>2, <2>3
<1>7. PeopleTold(r, F)
  <2>1. s.participants = {w.who : w \in Words(E)} /\ IsFiniteSet(s.participants)
    BY <1>3 DEF PeopleTold
  <2>2. r.participants = {w.who : w \in Words(F)}
    <3> DEFINE W == Words(E)
    <3>1. {w.who : w \in W \union {e}} = {w.who : w \in W} \union {e.who}
      OBVIOUS
    <3> QED
      BY <1>1, <2>1, <3>1
  <2>3. IsFiniteSet(r.participants)
    <3> DEFINE P == s.participants
    <3>1. IsFiniteSet(P)
      BY <2>1
    <3> HIDE DEF P
    <3>2. IsFiniteSet(P \union {e.who})
      BY <3>1, FS_AddElement
    <3> QED
      BY <3>2 DEF P
  <2> QED
    BY <2>2, <2>3 DEF PeopleTold
<1> QED
  BY <1>4, <1>5, <1>6, <1>7 DEF Told, F

\* One more event that is no comment or review of someone known.
LEMMA OtherTold ==
  ASSUME NEW s, NEW E, NEW e, NEW r, IsEvent(e), \A f \in E : IsEvent(f), Told(s, E),
         ~(e.kind \in {"commented", "reviewed"} /\ e.who # Nobody),
         r \in SeenType, r.participants = s.participants, r.mine = s.mine,
         r.last = s.last, r.lastActor = s.lastActor, r.lastDecisive = s.lastDecisive,
         IF e.kind = "review_requested" /\ e.of = Me /\ e.at > s.requestedAt
         THEN r.requestedAt = e.at /\ r.requestedBy = e.who
         ELSE r.requestedAt = s.requestedAt /\ r.requestedBy = s.requestedBy
  PROVE  Told(r, E \union {e})
<1> DEFINE F == E \union {e}
           asks == e.kind = "review_requested" /\ e.of = Me
<1>1. /\ Words(F) = Words(E) /\ Own(F) = Own(E)
      /\ asks => Asking(F) = Asking(E) \union {e}
      /\ ~asks => Asking(F) = Asking(E)
  BY DEF Words, Asking, Own
<1>2. /\ \A f \in Asking(E) : f.at \in Nat /\ f.at > 0
      /\ e.at \in Nat /\ e.at > 0
  BY DEF Asking, IsEvent
<1>3. s \in SeenType /\ AskTold(s, E) /\ LastTold(s, E) /\ MineTold(s, E) /\ PeopleTold(s, E)
  BY DEF Told
<1> HIDE DEF F
<1>4. LastTold(r, F) /\ MineTold(r, F) /\ PeopleTold(r, F)
  BY <1>1, <1>3 DEF LastTold, MineTold, PeopleTold
<1>5. AskTold(r, F)
  <2>1. CASE ~asks
    BY <1>1, <1>3, <2>1 DEF AskTold
  <2>2. CASE asks /\ Asking(E) = {}
    <3>1. s.requestedAt = 0
      BY <1>3, <2>2 DEF AskTold
    <3>2. e.at > s.requestedAt
      BY <1>2, <3>1
    <3>3. Asking(F) = {e}
      BY <1>1, <2>2
    <3>4. IsLatest(e, Asking(F))
      BY <1>2, <3>3 DEF IsLatest
    <3> QED
      BY <2>2, <3>2, <3>3, <3>4 DEF AskTold
  <2>3. CASE asks /\ Asking(E) # {}
    <3>1. PICK f : /\ IsLatest(f, Asking(E))
                   /\ s.requestedAt = f.at /\ s.requestedBy = f.who
      BY <1>3, <2>3 DEF AskTold
    <3>2. f.at \in Nat
      BY <1>2, <3>1 DEF IsLatest
    <3>3. IF e.at > f.at THEN IsLatest(e, Asking(F)) ELSE IsLatest(f, Asking(F))
      <4> DEFINE S == Asking(E)
      <4>1. IsLatest(f, S) /\ \A g \in S : g.at \in Nat
        BY <3>1, <1>2
      <4>2. Asking(F) = S \union {e} /\ e.at \in Nat
        BY <1>1, <1>2, <2>3
      <4> HIDE DEF S
      <4>3. IF e.at > f.at THEN IsLatest(e, S \union {e}) ELSE IsLatest(f, S \union {e})
        BY <3>2, <4>1, <4>2, LatestOfMore
      <4> QED
        BY <4>2, <4>3
    <3>4. Asking(F) # {}
      BY <1>1, <2>3
    <3> QED
      BY <2>3, <3>1, <3>3, <3>4 DEF AskTold
  <2> QED
    BY <2>1, <2>2, <2>3
<1> QED
  BY <1>4, <1>5 DEF Told, F

\* The body of the loop keeps up with the events, in whatever order they come.
LEMMA SeenTold ==
  ASSUME NEW s, NEW E, NEW e, IsEvent(e), \A f \in E : IsEvent(f), Told(s, E)
  PROVE  Told(Seen(s, e), E \union {e})
<1>1. s \in SeenType /\ e.who \in People /\ e.at \in Nat
  BY DEF Told, IsEvent
<1>2. CASE e.kind = "commented" /\ e.who # Nobody
  <2>1. Seen(s, e) = Spoke(s, e)
    BY <1>2 DEF Seen
  <2> QED
    BY <1>1, <1>2, <2>1, SpokeFields, WordTold
<1>3. CASE e.kind = "reviewed" /\ e.who # Nobody
  <2> DEFINE t == Spoke(s, e)
             v == IF e.who = Me THEN t.reviewers ELSE t.reviewers \union {e.who}
  <2>1. Seen(s, e) = [t EXCEPT !.reviewers = v]
    BY <1>3, SpokeFields, <1>1 DEF Seen, SeenType
  <2>2. Told(t, E \union {e}) /\ t \in SeenType
    BY <1>1, <1>3, SpokeFields, WordTold
  <2>3. v \in SUBSET People
    BY <1>1, <2>2 DEF SeenType
  <2> HIDE DEF t, v
  <2>4. LET r == [t EXCEPT !.reviewers = v]
        IN  /\ r \in SeenType /\ r.requestedAt = t.requestedAt
            /\ r.requestedBy = t.requestedBy /\ r.mine = t.mine /\ r.last = t.last
            /\ r.lastActor = t.lastActor /\ r.lastDecisive = t.lastDecisive
            /\ r.participants = t.participants
    BY <2>2, <2>3 DEF SeenType
  <2> QED
    BY <2>1, <2>2, <2>4 DEF Told, AskTold, LastTold, MineTold, PeopleTold
<1>4. CASE e.kind = "cross-referenced"
  <2>1. Seen(s, e) = [s EXCEPT !.inbound = s.inbound + 1]
    BY <1>1, <1>4 DEF Seen, SeenType
  <2>2. LET r == [s EXCEPT !.inbound = s.inbound + 1]
        IN  /\ r \in SeenType /\ r.requestedAt = s.requestedAt
            /\ r.requestedBy = s.requestedBy /\ r.mine = s.mine /\ r.last = s.last
            /\ r.lastActor = s.lastActor /\ r.lastDecisive = s.lastDecisive
            /\ r.participants = s.participants
    BY <1>1 DEF SeenType
  <2> QED
    BY <1>4, <2>1, <2>2, OtherTold
<1>5. CASE e.kind = "review_requested" /\ e.of = Me /\ e.at > s.requestedAt
  <2>1. Seen(s, e) = [s EXCEPT !.requestedAt = e.at, !.requestedBy = e.who]
    BY <1>5 DEF Seen
  <2>2. LET r == [s EXCEPT !.requestedAt = e.at, !.requestedBy = e.who]
        IN  /\ r \in SeenType /\ r.requestedAt = e.at
            /\ r.requestedBy = e.who /\ r.mine = s.mine /\ r.last = s.last
            /\ r.lastActor = s.lastActor /\ r.lastDecisive = s.lastDecisive
            /\ r.participants = s.participants
    BY <1>1 DEF SeenType
  <2> QED
    BY <1>5, <2>1, <2>2, OtherTold
<1>6. CASE /\ ~(e.kind \in {"commented", "reviewed"} /\ e.who # Nobody)
           /\ e.kind # "cross-referenced"
           /\ ~(e.kind = "review_requested" /\ e.of = Me /\ e.at > s.requestedAt)
  <2>1. Seen(s, e) = s
    BY <1>6 DEF Seen
  <2> QED
    BY <1>1, <1>6, <2>1, OtherTold
<1> QED
  BY <1>2, <1>3, <1>4, <1>5, <1>6

\* The requests of the user that are open, and the last word if it ends a turn.
IsLast(e, E) == \A w \in Words(E) : w.at <= e.at

Asks(E) ==
    {e \in Asking(E) : /\ \A f \in Asking(E) : f.at <= e.at
                       /\ \A w \in Words(E) : w.at > e.at =>
                            w.who # Me /\ ~(w.decisive /\ IsLast(w, E))}

Moves(E) == {w \in Words(E) : IsLast(w, E) /\ (w.who = Me \/ w.decisive)}

\* What Activity works with.
AskSince(s) == IF s.requestedAt > s.mine THEN s.requestedAt ELSE 0

MoveSince(s) ==
    CASE s.lastActor = Me /\ s.mine # 0 -> s.mine
      [] s.lastDecisive                 -> s.last
      [] OTHER                          -> 0

\* The others' turn starts with the last word, if that ends the user's.
LEMMA MoveFacts ==
  ASSUME NEW s, NEW E, \A f \in E : IsEvent(f), Told(s, E),
         \A e, f \in E : e.at = f.at => e = f
  PROVE  \/ MoveSince(s) = 0 /\ Moves(E) = {}
         \/ \E w \in Words(E) : IsLast(w, E) /\ Moves(E) = {w} /\ MoveSince(s) = w.at
<1>1. /\ \A w \in Words(E) : w \in E /\ w.at \in Nat /\ w.at > 0 /\ w.decisive \in BOOLEAN
      /\ \A w \in Own(E) : w \in Words(E)
  BY DEF Words, Own, IsEvent
<1>2. LastTold(s, E) /\ MineTold(s, E)
  BY DEF Told
<1>3. CASE Words(E) = {}
  <2>1. s.lastActor # Me /\ s.lastDecisive = FALSE
    BY <1>2, <1>3, GitHubAssumption DEF LastTold
  <2> QED
    BY <1>3, <2>1 DEF MoveSince, Moves
<1>4. CASE Words(E) # {}
  <2>1. PICK w : /\ IsLatest(w, Words(E)) /\ s.last = w.at
                 /\ s.lastActor = w.who /\ s.lastDecisive = w.decisive
    BY <1>2, <1>4 DEF LastTold
  <2>2. w \in Words(E) /\ IsLast(w, E)
    BY <2>1 DEF IsLatest, IsLast
  <2>3. \A v \in Words(E) : IsLast(v, E) => v = w
    <3> SUFFICES ASSUME NEW v \in Words(E), IsLast(v, E)
                 PROVE  v = w
      OBVIOUS
    <3>1. v.at <= w.at /\ w.at <= v.at
      BY <2>2 DEF IsLast
    <3>2. v.at = w.at
      BY <1>1, <2>2, <3>1
    <3> QED
      BY <1>1, <2>2, <3>2
  <2>4. CASE w.who = Me
    <3>1. w \in Own(E)
      BY <2>2, <2>4 DEF Own
    <3>2. PICK v : IsLatest(v, Own(E)) /\ s.mine = v.at
      BY <1>2, <3>1 DEF MineTold
    <3>3. v \in Words(E) /\ v.at <= w.at /\ w.at <= v.at
      BY <1>1, <2>2, <3>1, <3>2 DEF IsLatest, IsLast
    <3>4. s.mine = w.at /\ s.mine # 0
      BY <1>1, <2>2, <3>2, <3>3
    <3>5. MoveSince(s) = w.at
      BY <2>1, <2>4, <3>4 DEF MoveSince
    <3>6. Moves(E) = {w}
      BY <2>2, <2>3, <2>4 DEF Moves
    <3> QED
      BY <2>2, <3>5, <3>6
  <2>5. CASE w.who # Me /\ w.decisive
    <3>1. MoveSince(s) = w.at
      BY <2>1, <2>5 DEF MoveSince
    <3>2. Moves(E) = {w}
      BY <2>2, <2>3, <2>5 DEF Moves
    <3> QED
      BY <2>2, <3>1, <3>2
  <2>6. CASE w.who # Me /\ ~w.decisive
    <3>1. MoveSince(s) = 0
      BY <2>1, <2>6 DEF MoveSince
    <3>2. Moves(E) = {}
      BY <2>3, <2>6 DEF Moves
    <3> QED
      BY <3>1, <3>2
  <2> QED
    BY <2>4, <2>5, <2>6
<1> QED
  BY <1>3, <1>4

\* An open request is the latest one, and exactly if there is one it is the
\* user's turn.
LEMMA AskFacts ==
  ASSUME NEW s, NEW E, \A f \in E : IsEvent(f), Told(s, E),
         \A e, f \in E : e.at = f.at => e = f
  PROVE  IF AskSince(s) > MoveSince(s)
         THEN \E e : Asks(E) = {e} /\ AskSince(s) = e.at /\ s.requestedBy = e.who
         ELSE Asks(E) = {}
<1>1. /\ \A w \in Words(E) : w \in E /\ w.at \in Nat /\ w.at > 0 /\ w.decisive \in BOOLEAN
      /\ \A e \in Asking(E) : e \in E /\ e.at \in Nat /\ e.at > 0
      /\ \A e \in Asking(E) : e \notin Words(E)
  BY DEF Words, Asking, IsEvent
<1>2. AskTold(s, E) /\ MineTold(s, E) /\ s \in SeenType
  BY DEF Told
<1>3. s.mine \in Nat /\ s.requestedAt \in Nat
  BY <1>2 DEF SeenType
<1>4. MoveSince(s) \in Nat
  BY <1>1, MoveFacts
<1>5. CASE Asking(E) = {}
  <2>1. s.requestedAt = 0
    BY <1>2, <1>5 DEF AskTold
  <2>2. AskSince(s) = 0
    BY <1>3, <2>1 DEF AskSince
  <2>3. ~(AskSince(s) > MoveSince(s))
    BY <1>4, <2>2
  <2> QED
    BY <1>5, <2>3 DEF Asks
<1>6. CASE Asking(E) # {}
  <2>1. PICK e : IsLatest(e, Asking(E)) /\ s.requestedAt = e.at /\ s.requestedBy = e.who
    BY <1>2, <1>6 DEF AskTold
  <2>2. e \in Asking(E) /\ e \in E /\ e.at \in Nat /\ e.at > 0 /\ e \notin Words(E)
    BY <1>1, <2>1 DEF IsLatest
  <2>3. \A f \in Asks(E) : f = e
    <3> SUFFICES ASSUME NEW f \in Asks(E)
                 PROVE  f = e
      OBVIOUS
    <3>1. f \in Asking(E) /\ e.at <= f.at /\ f.at <= e.at
      BY <2>1, <2>2 DEF Asks, IsLatest
    <3>2. f.at = e.at
      BY <1>1, <2>2, <3>1
    <3> QED
      BY <1>1, <2>2, <3>1, <3>2
  <2>4. e \in Asks(E) <=> \A w \in Words(E) : w.at > e.at =>
                            w.who # Me /\ ~(w.decisive /\ IsLast(w, E))
    BY <2>1, <2>2 DEF Asks, IsLatest
  <2>5. \A w \in Words(E) : w.at # e.at
    BY <1>1, <2>2
  <2>6. CASE s.mine >= e.at
    <3>1. s.mine # 0
      BY <2>2, <2>6
    <3>2. PICK v : IsLatest(v, Own(E)) /\ s.mine = v.at
      BY <1>2, <3>1 DEF MineTold
    <3>3. v \in Words(E) /\ v.who = Me
      BY <3>2 DEF IsLatest, Own
    <3>4. v.at > e.at
      BY <1>1, <2>2, <2>5, <2>6, <3>2, <3>3
    <3>5. e \notin Asks(E)
      BY <2>4, <3>3, <3>4
    <3>6. AskSince(s) = 0
      BY <1>3, <2>1, <2>6 DEF AskSince
    <3>7. ~(AskSince(s) > MoveSince(s))
      BY <1>4, <3>6
    <3> QED
      BY <2>3, <3>5, <3>7
  <2>7. CASE s.mine < e.at
    <3>1. AskSince(s) = e.at
      BY <1>3, <2>1, <2>2, <2>7 DEF AskSince
    <3>2. \A w \in Words(E) : w.who = Me => w.at <= s.mine
      <4> SUFFICES ASSUME NEW w \in Words(E), w.who = Me
                   PROVE  w.at <= s.mine
        OBVIOUS
      <4>1. w \in Own(E)
        BY DEF Own
      <4> QED
        BY <1>2, <4>1 DEF MineTold, IsLatest
    <3>3. \A w \in Words(E) : w.at > e.at => w.who # Me
      BY <1>1, <1>3, <2>2, <2>7, <3>2
    <3>4. ASSUME MoveSince(s) = 0, Moves(E) = {}
          PROVE  IF AskSince(s) > MoveSince(s)
                 THEN e \in Asks(E) ELSE e \notin Asks(E)
      <4>1. \A w \in Words(E) : ~(w.decisive /\ IsLast(w, E))
        BY <3>4 DEF Moves
      <4>2. e \in Asks(E)
        BY <2>4, <3>3, <4>1
      <4>3. AskSince(s) > MoveSince(s)
        BY <2>2, <3>1, <3>4
      <4> QED
        BY <4>2, <4>3
    <3>5. ASSUME NEW w \in Words(E), IsLast(w, E), Moves(E) = {w}, MoveSince(s) = w.at
          PROVE  IF AskSince(s) > MoveSince(s)
                 THEN e \in Asks(E) ELSE e \notin Asks(E)
      <4>1. CASE w.at > e.at
        <5>1. w.who = Me \/ w.decisive
          BY <3>5 DEF Moves
        <5>2. e \notin Asks(E)
          BY <2>4, <3>5, <4>1, <5>1
        <5>3. ~(AskSince(s) > MoveSince(s))
          BY <1>1, <2>2, <3>1, <3>5, <4>1
        <5> QED
          BY <5>2, <5>3
      <4>2. CASE w.at < e.at
        <5>1. \A v \in Words(E) : ~(v.at > e.at)
          BY <1>1, <2>2, <3>5, <4>2 DEF IsLast
        <5>2. e \in Asks(E)
          BY <2>4, <5>1
        <5>3. AskSince(s) > MoveSince(s)
          BY <1>1, <2>2, <3>1, <3>5, <4>2
        <5> QED
          BY <5>2, <5>3
      <4>3. w.at < e.at \/ w.at > e.at
        BY <1>1, <2>2, <2>5
      <4> QED
        BY <4>1, <4>2, <4>3
    <3>6. IF AskSince(s) > MoveSince(s) THEN e \in Asks(E) ELSE e \notin Asks(E)
      <4>1. \/ MoveSince(s) = 0 /\ Moves(E) = {}
            \/ \E w \in Words(E) : IsLast(w, E) /\ Moves(E) = {w} /\ MoveSince(s) = w.at
        BY MoveFacts
      <4> QED
        BY <3>4, <3>5, <4>1
    <3> QED
      BY <2>1, <2>3, <3>1, <3>6
  <2> QED
    BY <1>3, <2>2, <2>6, <2>7
<1> QED
  BY <1>5, <1>6

\* What is told of a timeline says whose turn it is.
LEMMA CourtFacts ==
  ASSUME NEW s, NEW E, \A f \in E : IsEvent(f), Told(s, E),
         \A e, f \in E : e.at = f.at => e = f
  PROVE  LET a == Activity(s)
         IN  /\ a.awaitingMe = Max({0} \union {e.at : e \in Asks(E)})
             /\ \A e \in Asks(E) : a.requestedBy = e.who
             /\ a.awaitingOthers =
                  IF Asks(E) # {} THEN 0 ELSE Max({0} \union {w.at : w \in Moves(E)})
             /\ a.participants = Cardinality({w.who : w \in Words(E)})
<1> DEFINE mine == AskSince(s) > MoveSince(s)
<1>1. LET a == Activity(s)
      IN  /\ a.awaitingMe = IF mine THEN AskSince(s) ELSE 0
          /\ a.requestedBy = IF mine THEN s.requestedBy ELSE Nobody
          /\ a.awaitingOthers = IF mine THEN 0 ELSE MoveSince(s)
          /\ a.participants = Cardinality({w.who : w \in Words(E)})
  BY DEF Activity, AskSince, MoveSince, Told, PeopleTold
<1>2. IF mine THEN \E e : Asks(E) = {e} /\ AskSince(s) = e.at /\ s.requestedBy = e.who
              ELSE Asks(E) = {}
  BY AskFacts
<1>3. \/ MoveSince(s) = 0 /\ Moves(E) = {}
      \/ \E w \in Words(E) : IsLast(w, E) /\ Moves(E) = {w} /\ MoveSince(s) = w.at
  BY MoveFacts
<1>4. /\ \A e \in Asks(E) : e.at \in Nat
      /\ \A w \in Words(E) : w.at \in Nat
  BY DEF Asks, Asking, Words, IsEvent
<1>5. \A x \in Nat : Max({0} \union {x}) = x
  <2> TAKE x \in Nat
  <2>1. /\ {0} \union {x} \in SUBSET Int /\ x \in {0} \union {x}
        /\ \A y \in {0} \union {x} : x >= y
    OBVIOUS
  <2> QED
    BY <2>1, MaxIs
<1>6. Max({0}) = 0
  <2>1. {0} \union {0} = {0}
    OBVIOUS
  <2> QED
    BY <1>5, <2>1
<1> HIDE DEF mine
<1>7. (IF mine THEN AskSince(s) ELSE 0) = Max({0} \union {e.at : e \in Asks(E)})
  <2>1. CASE mine
    <3>1. PICK e : Asks(E) = {e} /\ AskSince(s) = e.at
      BY <1>2, <2>1
    <3>2. {0} \union {f.at : f \in Asks(E)} = {0} \union {e.at} /\ e.at \in Nat
      BY <1>4, <3>1
    <3> QED
      BY <1>5, <2>1, <3>1, <3>2
  <2>2. CASE ~mine
    <3>1. {0} \union {e.at : e \in Asks(E)} = {0}
      BY <1>2, <2>2
    <3> QED
      BY <1>6, <2>2, <3>1
  <2> QED
    BY <2>1, <2>2
<1>8. MoveSince(s) = Max({0} \union {w.at : w \in Moves(E)})
  <2>1. CASE MoveSince(s) = 0 /\ Moves(E) = {}
    <3>1. {0} \union {w.at : w \in Moves(E)} = {0}
      BY <2>1
    <3> QED
      BY <1>6, <2>1, <3>1
  <2>2. ASSUME NEW w \in Words(E), Moves(E) = {w}, MoveSince(s) = w.at
        PROVE  MoveSince(s) = Max({0} \union {v.at : v \in Moves(E)})
    <3>1. {0} \union {v.at : v \in Moves(E)} = {0} \union {w.at} /\ w.at \in Nat
      BY <1>4, <2>2
    <3> QED
      BY <1>5, <2>2, <3>1
  <2> QED
    BY <1>3, <2>1, <2>2
<1>9. mine <=> Asks(E) # {}
  BY <1>2
<1>10. mine => \A e \in Asks(E) : s.requestedBy = e.who
  BY <1>2
<1> DEFINE a == Activity(s)
<1>11. a.awaitingMe = Max({0} \union {e.at : e \in Asks(E)})
  BY <1>1, <1>7
<1>12. \A e \in Asks(E) : a.requestedBy = e.who
  BY <1>1, <1>9, <1>10
<1>13. a.awaitingOthers
         = IF Asks(E) # {} THEN 0 ELSE Max({0} \union {w.at : w \in Moves(E)})
  BY <1>1, <1>8, <1>9
<1> QED
  BY <1>1, <1>11, <1>12, <1>13

-----------------------------------------------------------------------------
\* The events are read in any order, none twice; what the loop has made of
\* them is what they say as a set.
Events == {timeline[i] : i \in DOMAIN timeline}

TimelineInv ==
    /\ timeline \in Seq(Event(1..MaxEvents))
    /\ \A i, j \in DOMAIN timeline : timeline[i].at = timeline[j].at => i = j
    /\ Told(seen, Events)

LEMMA TimelineStart ==
  ASSUME timeline = <<>>, seen = NothingSeen
  PROVE  TimelineInv
<1>1. Events = {}
  BY DEF Events
<1>2. Told(seen, Events)
  BY <1>1, NothingTold
<1> QED
  BY <1>2 DEF TimelineInv

LEMMA EventRead ==
  ASSUME TimelineInv, NEW e \in Event(1..MaxEvents), ReadEvent(e)
  PROVE  TimelineInv'
<1> DEFINE k == Len(timeline)
           Pool == Event(1..MaxEvents)
<1>1. timeline \in Seq(Pool) /\ e \in Pool
  BY DEF TimelineInv
<1>2. /\ timeline' = Append(timeline, e) /\ seen' = Seen(seen, e)
      /\ \A i \in DOMAIN timeline : timeline[i].at # e.at
  BY DEF ReadEvent
<1> HIDE DEF Pool
<1>3. timeline' \in Seq(Pool) /\ k \in Nat /\ DOMAIN timeline = 1..k
  BY <1>1, <1>2, AppendProperties
<1>4. /\ DOMAIN timeline' = 1..(k + 1) /\ timeline'[k + 1] = e
      /\ \A i \in 1..k : timeline'[i] = timeline[i]
  BY <1>1, <1>2, AppendProperties
<1>5. Events' = Events \union {e}
  <2>1. \A f \in Events' : f \in Events \union {e}
    BY <1>3, <1>4 DEF Events
  <2>2. \A f \in Events : f \in Events'
    BY <1>3, <1>4 DEF Events
  <2>3. e \in Events'
    BY <1>3, <1>4 DEF Events
  <2> QED
    BY <2>1, <2>2, <2>3
<1>6. \A i, j \in DOMAIN timeline' : timeline'[i].at = timeline'[j].at => i = j
  <2>1. \A i, j \in 1..k : timeline[i].at = timeline[j].at => i = j
    BY <1>3 DEF TimelineInv
  <2>2. \A i \in 1..(k + 1) : i \in 1..k \/ i = k + 1
    BY <1>3
  <2> QED
    BY <1>2, <1>3, <1>4, <2>1, <2>2
<1>7. Told(seen', Events')
  <2>1. IsEvent(e)
    BY EventsAre
  <2>2. \A f \in Events : IsEvent(f)
    <3>1. \A i \in DOMAIN timeline : timeline[i] \in Pool
      BY <1>1
    <3>2. \A f \in Events : f \in Pool
      BY <3>1 DEF Events
    <3> QED
      BY <3>2, EventsAre DEF Pool
  <2>3. Told(seen, Events)
    BY DEF TimelineInv
  <2> QED
    BY <1>2, <1>5, <2>1, <2>2, <2>3, SeenTold
<1> QED
  BY <1>3, <1>6, <1>7 DEF TimelineInv, Pool

LEMMA TimelineKept ==
  ASSUME TimelineInv, UNCHANGED <<timeline, seen>>
  PROVE  TimelineInv'
  BY DEF TimelineInv, Events

LEMMA TurnIsRight ==
  ASSUME TimelineInv
  PROVE  CourtIsRight
<1>1. \A f \in Events : IsEvent(f)
  <2>1. \A i \in DOMAIN timeline : timeline[i] \in Event(1..MaxEvents)
    <3> DEFINE Pool == Event(1..MaxEvents)
    <3>1. timeline \in Seq(Pool)
      BY DEF TimelineInv
    <3> HIDE DEF Pool
    <3>2. \A i \in DOMAIN timeline : timeline[i] \in Pool
      BY <3>1
    <3> QED
      BY <3>2 DEF Pool
  <2> QED
    BY <2>1, EventsAre DEF Events
<1>2. \A e, f \in Events : e.at = f.at => e = f
  BY DEF TimelineInv, Events
<1>3. Told(seen, Events)
  BY DEF TimelineInv
<1>4. LET a == Activity(seen)
      IN  /\ a.awaitingMe = Max({0} \union {e.at : e \in Asks(Events)})
          /\ \A e \in Asks(Events) : a.requestedBy = e.who
          /\ a.awaitingOthers = IF Asks(Events) # {} THEN 0
                                ELSE Max({0} \union {w.at : w \in Moves(Events)})
          /\ a.participants = Cardinality({w.who : w \in Words(Events)})
  <2> HIDE DEF Events
  <2> QED
    BY <1>1, <1>2, <1>3, CourtFacts
<1> QED
  BY <1>4 DEF CourtIsRight, Events, Words, Asking, IsLast, Asks, Moves

-----------------------------------------------------------------------------
(***************************************************************************)
(* An item's way                                                           *)
(***************************************************************************)

Signals ==
    [reasons : Seq(DOMAIN ReasonWeight), comments : Nat, reactions : Nat,
     labels : SUBSET DOMAIN LabelImpact, deadline : Nat,
     participants : Nat, inboundRefs : Nat, awaitingMe : Nat,
     proposed : Judgement \union {NoProposal}, research : Judgement \union {NoResearch}]

ItemInv == item \in Signals /\ now \in Nat /\ asked \in 0..4

LEMMA SignalsAre ==
  ASSUME NEW s \in Signals
  PROVE  IsSignals(s)
  BY DEF Signals, IsSignals

LEMMA ItemStart ==
  ASSUME Init
  PROVE  ItemInv
<1>1. NoSignals \in Signals
  <2>1. <<>> \in Seq(DOMAIN ReasonWeight)
    OBVIOUS
  <2> QED
    BY <2>1 DEF NoSignals, Signals
<1>2. \A facts \in Facts : Found(facts) \in Signals
  <2> TAKE facts \in Facts
  <2>1. /\ facts.comments \in Nat /\ facts.reactions \in Nat
        /\ facts.labels \in SUBSET DOMAIN LabelImpact /\ facts.deadline \in Nat
    BY RadarAssumption
  <2> QED
    BY <1>1, <2>1 DEF Found, Signals
<1>3. item \in Signals
  BY <1>1, <1>2 DEF Init
<1> QED
  BY <1>3, RadarAssumption DEF Init, ItemInv

LEMMA SearchItem ==
  ASSUME ItemInv, NEW listed \in BOOLEAN, Search(listed)
  PROVE  ItemInv'
<1> DEFINE r == SearchSignals[asked + 1]
           rs == WithReason(item.reasons, r)
<1>1. Len(SearchSignals) = 4 /\ asked \in 0..3 /\ asked' = asked + 1 /\ now' = now
  BY DEF Search, SearchSignals, ItemInv
<1>2. r \in DOMAIN ReasonWeight
  BY <1>1 DEF SearchSignals, ReasonWeight
<1>3. item \in Signals /\ item.reasons \in Seq(DOMAIN ReasonWeight)
  BY DEF ItemInv, Signals
<1> HIDE DEF r
<1>4. rs \in Seq(DOMAIN ReasonWeight)
  <2> DEFINE R == DOMAIN ReasonWeight
  <2>1. r \in R /\ item.reasons \in Seq(R)
    BY <1>2, <1>3
  <2> HIDE DEF R
  <2>2. rs \in Seq(R)
    BY <2>1, AppendProperties DEF WithReason
  <2> QED
    BY <2>2 DEF R
<1>5. item' = [item EXCEPT !.reasons = rs] \/ item' = item
  BY <1>3 DEF Search, r, Signals
<1> HIDE DEF rs
<1>6. item' \in Signals
  BY <1>3, <1>4, <1>5 DEF Signals
<1> QED
  BY <1>1, <1>6 DEF ItemInv

LEMMA EnrichItem ==
  ASSUME ItemInv, TimelineInv, Enrich
  PROVE  ItemInv'
<1> DEFINE a == Activity(seen)
<1>1. seen \in SeenType /\ IsFiniteSet(seen.participants)
  BY DEF TimelineInv, Told, PeopleTold
<1>2. a.participants = Cardinality(seen.participants) /\ a.inboundRefs = seen.inbound
  BY DEF Activity
<1>3. a.participants \in Nat /\ a.inboundRefs \in Nat
  BY <1>1, <1>2, FS_CardinalityType DEF SeenType
<1>4. a.awaitingMe \in Nat
  <2>1. a.awaitingMe = seen.requestedAt \/ a.awaitingMe = 0
    BY DEF Activity
  <2> QED
    BY <1>1, <2>1 DEF SeenType
<1>5. item' = [item EXCEPT !.participants = a.participants,
                           !.inboundRefs = a.inboundRefs, !.awaitingMe = a.awaitingMe]
  BY DEF Enrich
<1> HIDE DEF a
<1>6. item' \in Signals
  BY <1>3, <1>4, <1>5 DEF ItemInv, Signals
<1> QED
  BY <1>6 DEF ItemInv, Enrich

LEMMA JudgeItem ==
  ASSUME ItemInv, NEW p \in Proposals \union {NoProposal, BaselineAxes(item, now)},
         NEW r \in Researches \union {NoResearch}, Judge(p, r)
  PROVE  ItemInv'
<1>1. item \in Signals /\ IsSignals(item) /\ now \in Nat
  BY SignalsAre DEF ItemInv
<1>2. BaselineAxes(item, now) \in Judgement
  BY <1>1, BaselineFacts
<1>3. p \in Judgement \union {NoProposal} /\ r \in Judgement \union {NoResearch}
  BY <1>2, RadarAssumption DEF Judgement
<1>4. item' = [item EXCEPT !.proposed = p, !.research = r]
  BY DEF Judge
<1>5. item' \in Signals
  BY <1>1, <1>3, <1>4 DEF Signals
<1> QED
  BY <1>5 DEF ItemInv, Judge

LEMMA ItemKept ==
  ASSUME ItemInv, UNCHANGED <<item, asked>>, now' = now \/ now' = now + 1
  PROVE  ItemInv'
  BY DEF ItemInv

-----------------------------------------------------------------------------
\* What the theorems rest on: each part says how one way through the system has
\* got where it is.
IInv == FileInv /\ ListInv /\ TimelineInv /\ ItemInv

LEMMA Start ==
  ASSUME Init
  PROVE  IInv
<1>1. TimelineInv
  BY TimelineStart DEF Init
<1> QED
  BY <1>1, FileStart, ListStart, ItemStart DEF IInv

LEMMA Step ==
  ASSUME IInv, [Next]_vars
  PROVE  IInv'
<1>1. FileInv /\ ListInv /\ TimelineInv /\ ItemInv
  BY DEF IInv
<1>2. CASE \E listed \in BOOLEAN : Search(listed)
  <2>1. PICK listed \in BOOLEAN : Search(listed)
    BY <1>2
  <2>2. UNCHANGED <<text, pages>> /\ UNCHANGED list /\ UNCHANGED <<timeline, seen>>
    BY <2>1 DEF Search
  <2> QED
    BY <1>1, <2>1, <2>2, FileKept, ListKept, TimelineKept, SearchItem DEF IInv
<1>3. CASE StartEnrich
  <2>1. /\ UNCHANGED <<text, pages>> /\ UNCHANGED list /\ UNCHANGED <<timeline, seen>>
        /\ UNCHANGED <<item, asked>> /\ now' = now
    BY <1>3 DEF StartEnrich
  <2> QED
    BY <1>1, <2>1, FileKept, ListKept, TimelineKept, ItemKept DEF IInv
<1>4. CASE \E e \in Event(1..MaxEvents) : ReadEvent(e)
  <2>1. PICK e \in Event(1..MaxEvents) : ReadEvent(e)
    BY <1>4
  <2>2. /\ UNCHANGED <<text, pages>> /\ UNCHANGED list
        /\ UNCHANGED <<item, asked>> /\ now' = now
    BY <2>1 DEF ReadEvent
  <2> QED
    BY <1>1, <2>1, <2>2, FileKept, ListKept, EventRead, ItemKept DEF IInv
<1>5. CASE Enrich
  <2>1. UNCHANGED <<text, pages>> /\ UNCHANGED list
    BY <1>5 DEF Enrich
  <2>2. TimelineInv'
    <3>1. timeline' = <<>> /\ seen' = NothingSeen
      BY <1>5 DEF Enrich
    <3>2. Events' = {}
      BY <3>1 DEF Events
    <3>3. Told(seen', Events')
      BY <3>1, <3>2, NothingTold
    <3>4. timeline' \in Seq(Event(1..MaxEvents)) /\ DOMAIN timeline' = {}
      BY <3>1
    <3> QED
      BY <3>3, <3>4 DEF TimelineInv
  <2> QED
    BY <1>1, <1>5, <2>1, <2>2, FileKept, ListKept, EnrichItem DEF IInv
<1>6. CASE \E p \in Proposals \union {NoProposal, BaselineAxes(item, now)},
              r \in Researches \union {NoResearch} : Judge(p, r)
  <2>1. PICK p \in Proposals \union {NoProposal, BaselineAxes(item, now)},
             r \in Researches \union {NoResearch} : Judge(p, r)
    BY <1>6
  <2>2. UNCHANGED <<text, pages>> /\ UNCHANGED list /\ UNCHANGED <<timeline, seen>>
    BY <2>1 DEF Judge
  <2>3. ItemInv'
    BY <1>1, <2>1, JudgeItem
  <2> QED
    BY <1>1, <2>2, <2>3, FileKept, ListKept, TimelineKept DEF IInv
<1>7. CASE Day
  <2>1. /\ UNCHANGED <<text, pages>> /\ UNCHANGED list /\ UNCHANGED <<timeline, seen>>
        /\ UNCHANGED <<item, asked>> /\ now' = now + 1
    BY <1>7 DEF Day
  <2> QED
    BY <1>1, <2>1, FileKept, ListKept, TimelineKept, ItemKept DEF IInv
<1>8. CASE \E offset \in -1..(MaxText + 1) : ReadFile(offset)
  <2>1. PICK offset \in -1..(MaxText + 1) : ReadFile(offset)
    BY <1>8
  <2>2. offset \in Int
    OBVIOUS
  <2>3. /\ UNCHANGED list /\ UNCHANGED <<timeline, seen>>
        /\ UNCHANGED <<item, asked>> /\ now' = now
    BY <2>1 DEF ReadFile
  <2> QED
    BY <1>1, <2>1, <2>2, <2>3, FirstPage, ListKept, TimelineKept, ItemKept DEF IInv
<1>9. CASE ReadOn
  <2>1. /\ UNCHANGED list /\ UNCHANGED <<timeline, seen>>
        /\ UNCHANGED <<item, asked>> /\ now' = now
    BY <1>9 DEF ReadOn
  <2> QED
    BY <1>1, <1>9, <2>1, NextPage, ListKept, TimelineKept, ItemKept DEF IInv
<1>10. CASE Order
  <2>1. /\ UNCHANGED <<text, pages>> /\ UNCHANGED <<timeline, seen>>
        /\ UNCHANGED <<item, asked>> /\ now' = now
    BY <1>10 DEF Order
  <2> QED
    BY <1>1, <1>10, <2>1, FileKept, ListOrdered, TimelineKept, ItemKept DEF IInv
<1>11. CASE UNCHANGED vars
  <2>1. /\ UNCHANGED <<text, pages>> /\ UNCHANGED list /\ UNCHANGED <<timeline, seen>>
        /\ UNCHANGED <<item, asked>> /\ now' = now
    BY <1>11 DEF vars
  <2> QED
    BY <1>1, <2>1, FileKept, ListKept, TimelineKept, ItemKept DEF IInv
<1> QED
  BY <1>2, <1>3, <1>4, <1>5, <1>6, <1>7, <1>8, <1>9, <1>10, <1>11 DEF Next

-----------------------------------------------------------------------------
(***************************************************************************)
(* The theorems                                                            *)
(***************************************************************************)

\* Each way through the system keeps its part of the invariant.
THEOREM Inductive == Spec => []IInv
<1>1. Init => IInv
  BY Start
<1>2. IInv /\ [Next]_vars => IInv'
  BY Step
<1> QED
  BY <1>1, <1>2, PTL DEF Spec

\* Following the offsets a read reports covers the file and cuts no rune, for
\* every valid text, every first offset and every window that holds a rune
\* (fileWindow).
THEOREM PagesCovered == Spec => []PagesCover
<1>1. IInv => PagesCover
  BY DEF IInv, FileInv
<1> QED
  BY <1>1, Inductive, PTL

\* Whose turn it is follows from the events of a timeline as a set, however many
\* they are, whoever takes part and in whatever order they come (ItemActivity).
THEOREM CourtRight == Spec => []CourtIsRight
<1>1. IInv => CourtIsRight
  BY TurnIsRight DEF IInv
<1> QED
  BY <1>1, Inductive, PTL

\* A list of any length with any ranks is put in the one order (Sort).
THEOREM OrderedOnce == Spec => []OneOrder
<1>1. IInv => OneOrder
  BY InOrder DEF IInv
<1> QED
  BY <1>1, Inductive, PTL

\* Sort moves rows and neither loses nor repeats nor changes one.
Moved ==
    \E f \in Bijection(DOMAIN list.rows, DOMAIN list.rows) :
        list'.rows = [p \in DOMAIN list.rows |-> list.rows[f[p]]]

RowsKept == [][Moved]_list

THEOREM OrderMoves == Spec => RowsKept
<1>1. ASSUME IInv, [Next]_vars
      PROVE  Moved \/ UNCHANGED list
  <2>1. CASE Order
    <3>1. PICK n \in Nat : list \in ListOf(n)
      BY <1>1 DEF IInv, ListInv
    <3>2. /\ list.rows \in [1..n -> AnyRow] /\ list.key \in SortKey /\ list.desc \in BOOLEAN
          /\ \A i, j \in 1..n : list.rows[i].id = list.rows[j].id => i = j
          /\ DOMAIN list.rows = 1..n
      BY <1>1, <3>1 DEF ListOf, IInv, ListInv
    <3>3. list'.rows = Sorted(list.rows, list.key, list.desc)
      BY <2>1, <3>1 DEF Order, ListOf
    <3> DEFINE rows == list.rows
               key == list.key
               desc == list.desc
    <3>4. /\ rows \in [1..n -> AnyRow] /\ key \in SortKey /\ desc \in BOOLEAN
          /\ \A i, j \in 1..n : rows[i].id = rows[j].id => i = j
      BY <3>2
    <3> HIDE DEF rows, key, desc
    <3>5. PICK f \in Bijection(1..n, 1..n) : Sorted(rows, key, desc) = [p \in 1..n |-> rows[f[p]]]
      <4>1. /\ \E f \in Bijection(1..n, 1..n) :
                  Sorted(rows, key, desc) = [p \in 1..n |-> rows[f[p]]]
            /\ \A p, q \in 1..n : p < q =>
                  Before(Sorted(rows, key, desc)[p], Sorted(rows, key, desc)[q], key, desc)
        BY <3>4, SortedOrders
      <4> QED
        BY <4>1
    <3>6. list'.rows = Sorted(rows, key, desc)
      BY <3>3 DEF rows, key, desc
    <3>7. list'.rows = [p \in 1..n |-> rows[f[p]]]
      BY <3>5, <3>6
    <3>8. DOMAIN rows = 1..n
      BY <3>4
    <3>9. list'.rows = [p \in DOMAIN rows |-> rows[f[p]]]
      BY <3>7, <3>8
    <3>10. f \in Bijection(DOMAIN rows, DOMAIN rows)
      BY <3>8
    <3>11. \E g \in Bijection(DOMAIN rows, DOMAIN rows) :
             list'.rows = [p \in DOMAIN rows |-> rows[g[p]]]
      BY <3>9, <3>10
    <3> QED
      BY <3>11 DEF Moved, rows
  <2>2. CASE ~Order
    BY <1>1, <2>2 DEF Next, vars, Search, StartEnrich, ReadEvent, Enrich, Judge, Day,
                      ReadFile, ReadOn
  <2> QED
    BY <2>1, <2>2
<1>2. IInv /\ [Next]_vars => [Moved]_list
  BY <1>1
<1>3. Spec => [][Moved]_list
  BY <1>2, Inductive, PTL DEF Spec
<1> QED
  BY <1>3 DEF RowsKept

\* Days never lower the rank of an item, and no rank leaves the unit interval,
\* whatever a search found, a model proposed and a weighing changed (Score).
THEOREM RankKept == Spec => RankHolds
<1> DEFINE Held == doing' = "listed" =>
                     /\ Judged' \in 0..One
                     /\ doing = "listed" => Judged' >= Judged
<1>1. ASSUME IInv, IInv', [Next]_vars, doing' = "listed"
      PROVE  Held
  <2>1. /\ item \in Signals /\ IsSignals(item) /\ now \in Nat
        /\ item' \in Signals /\ now' \in Nat
    BY <1>1, SignalsAre DEF IInv, ItemInv
  <2>2. IsSignals(item')
    BY <2>1, SignalsAre
  <2> DEFINE s == item'
             t == now'
             f == Axes(s, t)
  <2>3. Judged' = Rank(f)
    BY DEF Judged
  <2>4. IsSignals(s) /\ t \in Nat
    BY <2>1, <2>2
  <2>5. Rank(f) \in Unit
    <3> HIDE DEF s, t
    <3>1. f \in [Axis -> Unit]
      BY <2>4, AxesFacts
    <3>2. \A a \in Axis : f[a] <= f[a]
      BY <3>1 DEF Unit, One
    <3> HIDE DEF f
    <3> QED
      BY <3>1, <3>2, RankFacts
  <2>6. ASSUME doing = "listed"
        PROVE  Judged' >= Judged
    <3>1. item' = item /\ (now' = now \/ now' = now + 1)
      BY <1>1, <2>6 DEF Next, vars, Search, StartEnrich, ReadEvent, Enrich, Judge, Day,
                        ReadFile, ReadOn, Order
    <3> DEFINE g == Axes(item, now)
               h == Axes(item, t)
    <3>2. now <= t
      BY <2>1, <3>1
    <3>3. Judged = Rank(g) /\ f = h
      BY <3>1 DEF Judged
    <3> HIDE DEF s, t, f
    <3>4. g \in [Axis -> Unit] /\ h \in [Axis -> Unit]
      BY <2>1, <2>4, AxesFacts
    <3>5. \A a \in Axis : g[a] <= h[a]
      BY <2>1, <2>4, <3>2, AxesFacts
    <3> HIDE DEF g, h
    <3>6. Rank(g) \in Unit /\ Rank(h) \in Unit /\ Rank(g) <= Rank(h)
      BY <3>4, <3>5, RankFacts
    <3>7. Rank(f) >= Rank(g)
      BY <3>3, <3>6 DEF Unit, One
    <3> QED
      BY <2>3, <3>3, <3>7
  <2> HIDE DEF f
  <2> QED
    BY <2>3, <2>5, <2>6 DEF Unit
<1>2. ASSUME IInv, IInv', [Next]_vars
      PROVE  Held
  <2>1. CASE doing' = "listed"
    BY <1>1, <1>2, <2>1
  <2>2. CASE doing' # "listed"
    BY <2>2
  <2> QED
    BY <2>1, <2>2
<1>3. Spec => [][Held]_vars
  BY <1>2, Inductive, PTL DEF Spec
<1> QED
  BY <1>3 DEF RankHolds
=============================================================================
