------------------------------ MODULE TurnProofs ------------------------------
(***************************************************************************)
(* What a turn and the retry transport under it promise, for every budget, *)
(* every number of rounds and answers of any length.                       *)
(*                                                                         *)
(* Neither promise of the transport is inductive.  That no write is        *)
(* repeated needs that, until a try ends the call, every run of a write    *)
(* was hidden by a busy answer; that the budgets do not eat each other     *)
(* needs that the tries made and the repetitions left of a kind add up to  *)
(* the budget.  That every call is answered is meant for the moments the   *)
(* model is asked; between them it needs that the results so far and the   *)
(* calls still to do make up what the model asked for.                     *)
(*                                                                         *)
(* That a turn ends has a part without fairness: what is left to do is a   *)
(* tuple of numbers that each step lowers (Remaining).                     *)
(***************************************************************************)
EXTENDS Turn, DataLemmas, SequenceTheorems, TLAPS

\* A request is with the server, or will be again.
UnderWay == http.pc \in {"sent", "waiting"}

\* A write that will be, or may be, sent again has run only behind busy answers.
WritesHidden ==
    /\ UnderWay /\ http.op \notin GetRequest => performed = hidden
    /\ AtMostOnce

\* What is left and what was used make up each budget.
BudgetsAddUp ==
    UnderWay =>
        /\ tries.transient + http.left.transient = Repeats(Attempts)
        /\ tries.rateLimit + http.left.rateLimit = Repeats(RLAttempts)

HttpInv == HttpTypeOK /\ WritesHidden /\ BudgetsAddUp /\ BudgetsSeparate

\* A budget of n tries allows a natural number of repetitions.
LEMMA RepeatsNat == \A n \in Nat : Repeats(n) \in Nat
  BY DEF Repeats

\* The transport starts with no request in hand.
LEMMA InitHttpInv == HttpInit => HttpInv
<1> SUFFICES ASSUME HttpInit PROVE HttpInv
  OBVIOUS
<1> USE HttpRetryAssumption DEF HttpInit
<1>1. HttpTypeOK
  BY DEF HttpTypeOK, Outcome, Returned
<1>2. WritesHidden
  BY DEF WritesHidden, UnderWay, AtMostOnce
<1>3. BudgetsAddUp
  BY DEF BudgetsAddUp, UnderWay
<1>4. BudgetsSeparate
  BY RepeatsNat DEF BudgetsSeparate
<1> QED
  BY <1>1, <1>2, <1>3, <1>4 DEF HttpInv

\* A new request starts with both budgets whole.
LEMMA SendKeeps ==
  ASSUME HttpInv, NEW op \in Operation, Send(op)
  PROVE  HttpInv'
<1> USE HttpRetryAssumption, RepeatsNat DEF Send
<1>1. HttpTypeOK'
  BY DEF HttpInv, HttpTypeOK, Outcome, Returned
<1>2. WritesHidden'
  BY DEF WritesHidden, UnderWay, AtMostOnce
<1>3. BudgetsAddUp'
  BY DEF BudgetsAddUp, UnderWay
<1>4. BudgetsSeparate'
  BY DEF BudgetsSeparate
<1> QED
  BY <1>1, <1>2, <1>3, <1>4 DEF HttpInv

\* A try spends its own budget, and ends a write it may have carried out.
LEMMA TryKeeps ==
  ASSUME HttpInv, NEW outcome \in Outcome, NEW ran \in BOOLEAN, Try(outcome, ran)
  PROVE  HttpInv'
<1> USE HttpRetryAssumption, RepeatsNat
<1> DEFINE kind == IF outcome = "busy" THEN "rateLimit" ELSE "transient"
<1>0. BudgetFor(outcome) = kind /\ kind \in {"transient", "rateLimit"}
  BY DEF BudgetFor
<1>1. /\ http.pc = "sent"
      /\ MayHaveRun(outcome, ran)
      /\ performed' = performed + (IF ran THEN 1 ELSE 0)
      /\ hidden' = hidden + (IF ran /\ outcome = "busy" THEN 1 ELSE 0)
      /\ tries' = IF ShouldRetry(http.op, outcome)
                  THEN [tries EXCEPT ![kind] = @ + 1] ELSE tries
      /\ http' = IF Again(outcome)
                 THEN [http EXCEPT !.pc = "waiting", !.left[kind] = @ - 1]
                 ELSE [http EXCEPT !.pc = "returned", !.result = outcome]
  BY <1>0 DEF Try
<1> HIDE DEF kind
<1>2. HttpTypeOK
  BY DEF HttpInv
<1>3. HttpTypeOK'
  <2>1. /\ performed' \in Nat /\ hidden' \in 0..performed'
        /\ tries' \in [{"transient", "rateLimit"} -> Nat]
    BY <1>0, <1>1, <1>2 DEF HttpTypeOK
  <2>2. CASE Again(outcome)
    <3>1. http.left[kind] \in Nat /\ http.left[kind] > 0
      BY <1>0, <1>2, <2>2 DEF Again, HttpTypeOK
    <3>2. http' = [http EXCEPT !.pc = "waiting",
                               !.left = [@ EXCEPT ![kind] = http.left[kind] - 1]]
      BY <1>1, <1>2, <2>2 DEF HttpTypeOK
    <3>3. [http.left EXCEPT ![kind] = http.left[kind] - 1]
             \in [{"transient", "rateLimit"} -> Nat]
      BY <1>0, <1>2, <3>1 DEF HttpTypeOK
    <3> QED
      BY <1>2, <2>1, <3>2, <3>3 DEF HttpTypeOK
  <2>3. CASE ~Again(outcome)
    BY <1>1, <1>2, <2>1, <2>3 DEF HttpTypeOK, Returned
  <2> QED
    BY <2>2, <2>3
<1>4. WritesHidden'
  <2>1. http'.op = http.op
    BY <1>1, <1>2 DEF HttpTypeOK
  <2>2. http.op \notin GetRequest => performed = hidden
    BY <1>1 DEF HttpInv, WritesHidden, UnderWay
  <2>3. http.op \notin GetRequest => performed' <= 1 + hidden'
    BY <1>1, <1>2, <2>2 DEF HttpTypeOK
  <2>4. ASSUME Again(outcome), http.op \notin GetRequest
        PROVE  performed' = hidden'
    BY <1>1, <1>2, <2>2, <2>4 DEF Again, ShouldRetry, MayHaveRun, HttpTypeOK
  <2>5. ~Again(outcome) => http'.pc = "returned"
    BY <1>1, <1>2 DEF HttpTypeOK
  <2> QED
    BY <2>1, <2>3, <2>4, <2>5 DEF WritesHidden, UnderWay, AtMostOnce
<1>5. /\ tries.transient + http.left.transient = Repeats(Attempts)
      /\ tries.rateLimit + http.left.rateLimit = Repeats(RLAttempts)
  BY <1>1 DEF HttpInv, BudgetsAddUp, UnderWay
<1>6. BudgetsAddUp'
  <2>1. CASE Again(outcome)
    BY <1>0, <1>1, <1>2, <1>5, <2>1 DEF BudgetsAddUp, Again, HttpTypeOK
  <2>2. CASE ~Again(outcome)
    BY <1>1, <1>2, <2>2 DEF BudgetsAddUp, UnderWay, HttpTypeOK
  <2> QED
    BY <2>1, <2>2
<1>7. BudgetsSeparate'
  <2>1. CASE Again(outcome)
    BY <1>0, <1>1, <1>2, <1>3, <1>5, <2>1 DEF BudgetsSeparate, Again, HttpTypeOK
  <2>2. CASE ~Again(outcome)
    <3>1. http'.op = http.op /\ http'.result = outcome /\ http'.pc = "returned"
      BY <1>1, <1>2, <2>2 DEF HttpTypeOK
    <3>2. CASE ShouldRetry(http.op, outcome)
      <4>1. http.left[kind] = 0
        BY <1>0, <1>2, <2>2, <3>2 DEF Again, HttpTypeOK
      <4>2. tries' = [tries EXCEPT ![kind] = @ + 1]
        BY <1>1, <3>2
      <4>3. CASE outcome = "busy"
        <5>1. kind = "rateLimit"
          BY <4>3 DEF kind
        <5> QED
          BY <1>2, <1>5, <3>1, <4>1, <4>2, <4>3, <5>1 DEF BudgetsSeparate, HttpTypeOK
      <4>4. CASE outcome # "busy"
        <5>1. kind = "transient"
          BY <4>4 DEF kind
        <5> QED
          BY <1>2, <1>5, <3>1, <4>1, <4>2, <4>4, <5>1 DEF BudgetsSeparate, HttpTypeOK
      <4> QED
        BY <4>3, <4>4
    <3>3. CASE ~ShouldRetry(http.op, outcome)
      <4>1. tries' = tries /\ outcome # "busy"
        BY <1>1, <3>3 DEF ShouldRetry
      <4> QED
        BY <1>2, <1>5, <3>1, <3>3, <4>1 DEF BudgetsSeparate, HttpTypeOK, ShouldRetry
    <3> QED
      BY <3>2, <3>3
  <2> QED
    BY <2>1, <2>2
<1> QED
  BY <1>3, <1>4, <1>6, <1>7 DEF HttpInv

\* The end of a wait and the hand-over of a result touch no count.
LEMMA WaitAndTakeKeep ==
  ASSUME HttpInv, SendAgain \/ WaitCut \/ \E op \in Operation : Take(op)
  PROVE  HttpInv'
<1> USE HttpRetryAssumption, RepeatsNat
<1>1. /\ UNCHANGED <<performed, hidden, tries>>
      /\ http'.op = http.op /\ http'.left = http.left
      /\ HttpTypeOK'
      /\ \/ http.pc = "waiting" /\ http'.pc = "sent"
         \/ http.pc = "waiting" /\ http'.pc = "returned" /\ http'.result = "cut"
         \/ http'.pc = "idle"
  BY DEF HttpInv, HttpTypeOK, SendAgain, WaitCut, Take, Returned
<1>2. WritesHidden'
  BY <1>1 DEF HttpInv, WritesHidden, UnderWay, AtMostOnce
<1>3. BudgetsAddUp'
  BY <1>1 DEF HttpInv, BudgetsAddUp, UnderWay
<1>4. BudgetsSeparate'
  BY <1>1 DEF HttpInv, BudgetsSeparate, Outcome
<1> QED
  BY <1>1, <1>2, <1>3, <1>4 DEF HttpInv

\* Every step of a turn is a step of the transport, or leaves it alone.
LEMMA TurnStepKeeps ==
  ASSUME HttpInv, [Next]_vars
  PROVE  HttpInv'
<1>1. CASE Request
  BY <1>1, SendKeeps DEF Request
<1>2. CASE \E outcome \in Outcome, ran \in BOOLEAN : Answered(outcome, ran)
  BY <1>2, TryKeeps DEF Answered
<1>3. CASE Resent \/ Interrupted
  BY <1>3, WaitAndTakeKeep DEF Resent, Interrupted
<1>4. CASE \E op \in Operation : Take(op)
  BY <1>4, WaitAndTakeKeep
<1>5. CASE UNCHANGED httpVars
  BY <1>5 DEF httpVars, HttpInv, HttpTypeOK, WritesHidden, UnderWay, AtMostOnce,
              BudgetsAddUp, BudgetsSeparate
<1>6. {"item", "vend", "login", "issue", "comments", "head", "reviews", "inline",
       "files", "tool", "chat", "append"} \subseteq Operation
  BY TurnAssumption
<1>7. CASE \/ GotItem \/ Vended \/ GotLogin \/ GotIssue \/ GotPart \/ ChatFails
           \/ ToolAnswered \/ Appended
           \/ \E answer \in Answers : ModelReplies(answer) \/ ModelCalls(answer)
  BY <1>4, <1>6, <1>7 DEF GotItem, Vended, GotLogin, GotIssue, GotPart, ChatFails,
                          ToolAnswered, Appended, ModelReplies, ModelCalls
<1>8. CASE ToolRejected
  BY <1>5, <1>8 DEF ToolRejected
<1>9. CASE UNCHANGED vars
  BY <1>5, <1>9 DEF vars
<1> QED
  BY <1>1, <1>2, <1>3, <1>7, <1>8, <1>9 DEF Next

\* The transport's invariant holds throughout a turn.
THEOREM TransportInvariant == Spec => []HttpInv
<1>1. Init => HttpInv
  BY InitHttpInv DEF Init
<1>2. HttpInv /\ [Next]_vars => HttpInv'
  BY TurnStepKeeps
<1> QED
  BY <1>1, <1>2, PTL DEF Spec

\* No retry of a turn's vend, chat or append repeats what the server may have
\* carried out (shouldRetry).
THEOREM NoWriteRepeated == Spec => []AtMostOnce
<1>1. HttpInv => AtMostOnce
  BY DEF HttpInv, WritesHidden
<1> QED
  BY <1>1, TransportInvariant, PTL

\* Whatever the two budgets are, a turn's requests use each to the full and
\* neither for the other's failures (RoundTrip).
THEOREM BudgetsHold == Spec => []BudgetsSeparate
<1>1. HttpInv => BudgetsSeparate
  BY DEF HttpInv
<1> QED
  BY <1>1, TransportInvariant, PTL

-------------------------------------------------------------------------------
(* The calls of an answer.                                                 *)

\* The loop over the choices, as a function of how many it has seen.
GatheredUpTo(f, n, calling) ==
    f = [m \in 0..n |-> IF m = 0 THEN <<>>
                        ELSE IF m \in calling THEN Append(f[m - 1], m) ELSE f[m - 1]]

\* There is such a function, whatever the number of choices.
LEMMA GatheringExists ==
  ASSUME NEW calling
  PROVE  \A n \in Nat : \E f : GatheredUpTo(f, n, calling)
<1> DEFINE S == {n \in Nat : \E f : GatheredUpTo(f, n, calling)}
<1>1. 0 \in S
  <2> DEFINE f == [m \in 0..0 |-> <<>>]
  <2>1. GatheredUpTo(f, 0, calling)
    BY DEF GatheredUpTo
  <2> QED
    BY <2>1
<1>2. ASSUME NEW n \in S PROVE n + 1 \in S
  <2>1. PICK f : GatheredUpTo(f, n, calling)
    BY <1>2
  <2> DEFINE last == IF n + 1 \in calling THEN Append(f[n], n + 1) ELSE f[n]
             g == [m \in 0..(n + 1) |-> IF m = n + 1 THEN last ELSE f[m]]
  <2>2. n \in Nat /\ \A m \in 0..(n + 1) : m # 0 => m - 1 \in 0..n
    BY <1>2
  <2>3. /\ g = [m \in 0..(n + 1) |-> g[m]]
        /\ g[n + 1] = last
        /\ \A m \in 0..n : g[m] = f[m]
    BY <2>2
  <2>4. \A m \in 0..n : f[m] = IF m = 0 THEN <<>>
                        ELSE IF m \in calling THEN Append(f[m - 1], m) ELSE f[m - 1]
    BY <2>1 DEF GatheredUpTo
  <2> HIDE DEF g
  <2>5. \A m \in 0..(n + 1) : g[m] = IF m = 0 THEN <<>>
                        ELSE IF m \in calling THEN Append(g[m - 1], m) ELSE g[m - 1]
    <3> TAKE m \in 0..(n + 1)
    <3>1. CASE m = n + 1
      BY <2>2, <2>3, <3>1
    <3>2. CASE m # n + 1
      <4>1. m \in 0..n
        BY <2>2, <3>2
      <4>2. m # 0 => m - 1 \in 0..n
        BY <2>2
      <4> QED
        BY <2>3, <2>4, <4>1, <4>2
    <3> QED
      BY <3>1, <3>2
  <2>6. GatheredUpTo(g, n + 1, calling)
    BY <2>3, <2>5 DEF GatheredUpTo
  <2> QED
    BY <2>2, <2>6
<1>3. S = Nat
  <2> HIDE DEF S
  <2>1. S \subseteq Nat
    BY DEF S
  <2> QED
    BY <1>1, <1>2, <2>1, NatSetInduction
<1> QED
  BY <1>3

\* The numbers up to n are the numbers up to n - 1, and n.
LEMMA UpTo == \A n \in Nat : n # 0 => 1..n = (1..(n - 1)) \union {n} /\ n \notin 1..(n - 1)
  OBVIOUS

\* What the loop of chat gathers: the choices that make a call, each once, in
\* the order of the answer.
LEMMA GatheredFacts ==
  ASSUME NEW answer, Len(answer) \in Nat, NEW calling \in SUBSET (1..Len(answer))
  PROVE  LET g == Gathered(answer, calling) IN
         /\ g \in Seq(1..Len(answer))
         /\ Len(g) = Cardinality(calling)
         /\ {g[j] : j \in 1..Len(g)} = calling
         /\ \A j \in 1..(Len(g) - 1) : g[j] < g[j + 1]
<1> DEFINE N == Len(answer)
           upTo == CHOOSE f : GatheredUpTo(f, N, calling)
           In(n) == calling \intersect (1..n)
           Good(n) ==
             /\ upTo[n] \in Seq(1..N)
             /\ Len(upTo[n]) = Cardinality(In(n))
             /\ {upTo[n][j] : j \in 1..Len(upTo[n])} = In(n)
             /\ \A j \in 1..(Len(upTo[n]) - 1) : upTo[n][j] < upTo[n][j + 1]
           S == {n \in Nat : n <= N => Good(n)}
<1>1. Gathered(answer, calling) = upTo[N]
  BY DEF Gathered, GatheredUpTo
<1>2. GatheredUpTo(upTo, N, calling)
  BY GatheringExists
<1> HIDE DEF upTo
<1>3. /\ upTo[0] = <<>>
      /\ \A n \in 1..N : upTo[n] = IF n \in calling THEN Append(upTo[n - 1], n) ELSE upTo[n - 1]
  <2>1. N \in Nat
    OBVIOUS
  <2>2. \A n \in 0..N : upTo[n] = IF n = 0 THEN <<>>
                        ELSE IF n \in calling THEN Append(upTo[n - 1], n) ELSE upTo[n - 1]
    BY <1>2 DEF GatheredUpTo
  <2> HIDE DEF N
  <2>3. 0 \in 0..N /\ \A n \in 1..N : n \in 0..N /\ n # 0
    BY <2>1
  <2> QED
    BY <2>2, <2>3
<1>4. 0 \in S
  <2>1. In(0) = {}
    OBVIOUS
  <2>2. Cardinality({}) = 0
    BY FS_EmptySet
  <2>3. Good(0)
    BY <1>3, <2>1, <2>2
  <2> QED
    BY <2>3
<1>5. ASSUME NEW n \in S PROVE n + 1 \in S
  <2>1. n \in Nat /\ n + 1 \in Nat /\ n + 1 # 0 /\ (n + 1) - 1 = n
    BY <1>5
  <2> SUFFICES ASSUME n + 1 <= N PROVE Good(n + 1)
    BY <2>1
  <2>2. n + 1 \in 1..N
    BY <2>1
  <2>3. Good(n)
    BY <1>5, <2>1
  <2>4. CASE n + 1 \notin calling
    <3>1. upTo[n + 1] = upTo[n]
      BY <1>3, <2>1, <2>2, <2>4
    <3>2. In(n + 1) = In(n)
      BY <2>1, <2>4, UpTo
    <3> QED
      BY <2>3, <3>1, <3>2
  <2>5. CASE n + 1 \in calling
    <3> DEFINE g == upTo[n]
               h == upTo[n + 1]
    <3>1. h = Append(g, n + 1)
      BY <1>3, <2>1, <2>2, <2>5
    <3>2. g \in Seq(1..N) /\ Len(g) \in Nat
      BY <2>3
    <3>3. In(n + 1) = In(n) \union {n + 1} /\ n + 1 \notin In(n)
      BY <2>1, <2>5, UpTo
    <3>4. IsFiniteSet(In(n)) /\ Cardinality(In(n) \union {n + 1}) = Cardinality(In(n)) + 1
      <4>1. IsFiniteSet(1..n)
        BY <2>1, n \in Int, 1 \in Int, FS_Interval
      <4>2. IsFiniteSet(In(n))
        BY <4>1, FS_Subset
      <4> QED
        BY <3>3, <4>2, FS_AddElement
    <3>5. {g[j] : j \in 1..Len(g)} = In(n)
      BY <2>3
    <3> HIDE DEF h
    <3>6. /\ h \in Seq(1..N) /\ Len(h) = Len(g) + 1
          /\ h[Len(h)] = n + 1
          /\ \A j \in 1..Len(g) : h[j] = g[j]
      BY <2>2, <3>1, <3>2
    <3> HIDE DEF g
    <3>7. Len(h) = Cardinality(In(n + 1))
      BY <2>3, <3>3, <3>4, <3>6 DEF g
    <3>8. {h[j] : j \in 1..Len(h)} = In(n + 1)
      <4>1. {h[j] : j \in 1..Len(h)} = {g[j] : j \in 1..Len(g)} \union {n + 1}
        <5>1. \A j \in 1..Len(h) : j \in 1..Len(g) \/ j = Len(h)
          BY <3>2, <3>6
        <5>2. Len(h) \in 1..Len(h) /\ 1..Len(g) \subseteq 1..Len(h)
          BY <3>2, <3>6
        <5>3. \A j \in 1..Len(h) : h[j] \in {g[i] : i \in 1..Len(g)} \union {n + 1}
          BY <3>6, <5>1
        <5>4. \A j \in 1..Len(g) : g[j] \in {h[i] : i \in 1..Len(h)}
          BY <3>6, <5>2
        <5>5. n + 1 \in {h[i] : i \in 1..Len(h)}
          BY <3>6, <5>2
        <5> QED
          BY <5>3, <5>4, <5>5
      <4> HIDE DEF In
      <4> QED
        BY <3>3, <3>5, <4>1
    <3>9. \A j \in 1..(Len(h) - 1) : h[j] < h[j + 1]
      <4> TAKE j \in 1..(Len(h) - 1)
      <4>1. CASE j = Len(g)
        <5>1. g[j] \in In(n)
          BY <2>3, <3>2, <3>6, <4>1 DEF g
        <5>2. g[j] \in 1..n
          BY <5>1
        <5> QED
          BY <2>1, <3>2, <3>6, <4>1, <5>2
      <4>2. CASE j # Len(g)
        <5>1. j \in 1..(Len(g) - 1) /\ j \in 1..Len(g) /\ j + 1 \in 1..Len(g)
          BY <3>2, <3>6, <4>2
        <5>2. g[j] < g[j + 1]
          BY <2>3, <5>1 DEF g
        <5> QED
          BY <3>6, <5>1, <5>2
      <4> QED
        BY <4>1, <4>2
    <3> QED
      BY <3>6, <3>7, <3>8, <3>9 DEF h
  <2> QED
    BY <2>4, <2>5
<1>6. S = Nat
  <2> HIDE DEF S
  <2>1. S \subseteq Nat
    BY DEF S
  <2> QED
    BY <1>4, <1>5, <2>1, NatSetInduction
<1>7. Good(N)
  <2>1. N \in Nat /\ N <= N
    OBVIOUS
  <2> QED
    BY <1>6, <2>1
<1>8. In(N) = calling
  OBVIOUS
<1> QED
  BY <1>1, <1>7, <1>8

\* The answers of the model.
LEMMA AnswerFacts ==
  ASSUME NEW answer \in Answers
  PROVE  /\ Len(answer) \in 0..MaxChoices /\ DOMAIN answer = 1..Len(answer)
         /\ \A i \in 1..Len(answer) : answer[i] \in Choice
<1>1. PICK n \in 0..MaxChoices : answer \in [1..n -> Choice]
  BY DEF Answers
<1>2. answer \in Seq(Choice)
  BY <1>1, TurnAssumption
<1> QED
  BY <1>1, <1>2

\* A sequence of some things is a sequence of more things.
LEMMA WiderSeq ==
  ASSUME NEW A, NEW B, A \subseteq B, NEW s \in Seq(A)
  PROVE  s \in Seq(B)
<1>1. Len(s) \in Nat /\ s \in [1..Len(s) -> B]
  OBVIOUS
<1> QED
  BY <1>1

\* The calls of an answer are the choices that are not text, in order.
LEMMA CallsFacts ==
  ASSUME NEW answer \in Answers
  PROVE  LET made == {i \in DOMAIN answer : answer[i] # "text"} IN
         /\ Calls(answer) \in Seq(1..MaxChoices)
         /\ Len(Calls(answer)) = Cardinality(made)
         /\ {Calls(answer)[j] : j \in 1..Len(Calls(answer))} = made
         /\ \A j \in 1..(Len(Calls(answer)) - 1) : Calls(answer)[j] < Calls(answer)[j + 1]
<1> DEFINE made == {i \in DOMAIN answer : answer[i] # "text"}
<1>1. Len(answer) \in Nat /\ Len(answer) <= MaxChoices /\ made \subseteq 1..Len(answer)
  BY AnswerFacts
<1>2. made = {i \in DOMAIN answer : answer[i] \in {"call", "legacy"}}
  <2>1. \A i \in DOMAIN answer : answer[i] \in {"text", "call", "legacy"}
    BY AnswerFacts DEF Choice
  <2> QED
    BY <2>1
<1>3. Calls(answer) = Gathered(answer, made)
  BY <1>2 DEF Calls
<1> HIDE DEF made
<1>4. /\ Calls(answer) \in Seq(1..Len(answer))
      /\ Len(Calls(answer)) = Cardinality(made)
      /\ {Calls(answer)[j] : j \in 1..Len(Calls(answer))} = made
      /\ \A j \in 1..(Len(Calls(answer)) - 1) : Calls(answer)[j] < Calls(answer)[j + 1]
  <2> DEFINE g == Gathered(answer, made)
  <2>1. /\ g \in Seq(1..Len(answer))
        /\ Len(g) = Cardinality(made)
        /\ {g[j] : j \in 1..Len(g)} = made
        /\ \A j \in 1..(Len(g) - 1) : g[j] < g[j + 1]
    BY <1>1, GatheredFacts
  <2>2. Calls(answer) = g
    BY <1>3
  <2> HIDE DEF g
  <2> QED
    BY <2>1, <2>2
<1>5. 1..Len(answer) \subseteq 1..MaxChoices
  BY <1>1, TurnAssumption
<1>6. Calls(answer) \in Seq(1..MaxChoices)
  BY <1>4, <1>5, WiderSeq
<1> QED
  BY <1>4, <1>6 DEF made

-------------------------------------------------------------------------------
(* The conversation with the model.                                        *)

\* The calls of message k have their results behind it, in order, as far as
\* they are done; the rest is still to do, and nothing comes in between.
Followed(k) ==
    LET made == Calls(msgs[k].answer)
        end  == k + Len(made)
        all  == Len(msgs) + Len(todo)
    IN  /\ end <= all
        /\ \A j \in 1..Len(made) :
             IF k + j <= Len(msgs) THEN msgs[k + j] = [role |-> "tool", id |-> made[j]]
             ELSE todo[k + j - Len(msgs)] = made[j]
        /\ end < all => end < Len(msgs) /\ msgs[end + 1].role = "assistant"

\* The turn waits for the operation it is at; it has calls to do in a round of
\* tools only, and such a round is never the last.
RoundsBounded ==
    /\ http.pc # "idle" => http.op = at
    /\ at = "tool" <=> todo # <<>>
    /\ at = "tool" => round < MaxToolIterations
    /\ round <= MaxToolIterations
    /\ at # "diverged"

CallsFollowed == \A k \in 1..Len(msgs) : msgs[k].role = "assistant" => Followed(k)

TurnInv == TypeOK /\ RoundsBounded /\ CallsFollowed

\* A turn starts with nothing said.
LEMMA InitTurnInv == Init => TurnInv
<1> SUFFICES ASSUME Init PROVE TurnInv
  OBVIOUS
<1>1. HttpTypeOK
  BY InitHttpInv DEF Init, HttpInv
<1>2. TypeOK
  <2>1. <<>> \in Seq(Message) /\ <<>> \in Seq(1..MaxChoices)
    OBVIOUS
  <2>2. "item" \in Operation /\ 0 \in 0..(MaxToolIterations + 1)
    BY TurnAssumption
  <2> QED
    BY <1>1, <2>1, <2>2 DEF Init, TypeOK
<1>3. RoundsBounded
  BY TurnAssumption DEF Init, HttpInit, RoundsBounded
<1>4. CallsFollowed
  BY DEF Init, CallsFollowed
<1> QED
  BY <1>2, <1>3, <1>4 DEF TurnInv

\* A step that says nothing and calls no tool.
LEMMA NothingSaid ==
  ASSUME TurnInv, HttpTypeOK', UNCHANGED <<round, msgs, todo>>,
         tools' \in BOOLEAN, text' \in BOOLEAN,
         http'.pc # "idle" => http'.op = at',
         \/ at' = at
         \/ at # "tool" /\ at' \in (Operation \union Ended) \ {"tool", "diverged"}
  PROVE  TurnInv'
<1>1. TypeOK'
  BY DEF TurnInv, TypeOK
<1>2. RoundsBounded'
  BY DEF TurnInv, RoundsBounded
<1>3. CallsFollowed'
  BY DEF TurnInv, CallsFollowed, Followed
<1> QED
  BY <1>1, <1>2, <1>3 DEF TurnInv

\* The request in hand is the turn's, and taking its result leaves none.
LEMMA Taken ==
  ASSUME TurnInv, NEW op, Take(op)
  PROVE  at = op /\ http'.pc = "idle"
  BY DEF TurnInv, RoundsBounded, TypeOK, HttpTypeOK, Take

\* The requests of a turn, all but those of Reply.
LEMMA RequestKeeps ==
  ASSUME TurnInv, HttpTypeOK',
         \/ Request \/ Resent \/ Interrupted
         \/ \E outcome \in Outcome, ran \in BOOLEAN : Answered(outcome, ran)
         \/ GotItem \/ Vended \/ GotLogin \/ GotIssue \/ GotPart \/ ChatFails \/ Appended
         \/ \E answer \in Answers : ModelReplies(answer)
         \/ UNCHANGED vars
  PROVE  TurnInv'
<1> USE TurnAssumption DEF Ended
<1>1. CASE Request
  <2>1. http'.op = at' /\ at' = at
    BY <1>1 DEF Request, Send
  <2> QED
    BY <1>1, <2>1, NothingSaid DEF Request, TurnInv, TypeOK
<1>2. CASE Resent \/ Interrupted \/ \E outcome \in Outcome, ran \in BOOLEAN : Answered(outcome, ran)
  <2>1. /\ http'.op = http.op /\ http.pc # "idle"
        /\ UNCHANGED <<at, tools, round, msgs, todo, text>>
    BY <1>2 DEF Resent, Interrupted, Answered, SendAgain, WaitCut, Try, TurnInv, TypeOK, HttpTypeOK
  <2> QED
    BY <2>1, NothingSaid DEF TurnInv, RoundsBounded, TypeOK
<1>3. CASE GotItem \/ Vended \/ GotLogin \/ GotIssue \/ GotPart \/ ChatFails \/ Appended
  <2>1. \E op \in Operation \ {"tool"} : Take(op)
    BY <1>3 DEF GotItem, Vended, GotLogin, GotIssue, GotPart, ChatFails, Appended
  <2>2. at # "tool" /\ http'.pc = "idle"
    BY <2>1, Taken
  <2>3. UNCHANGED <<round, msgs, todo>> /\ text' = text /\ tools' \in BOOLEAN
    BY <1>3 DEF GotItem, Vended, GotLogin, GotIssue, GotPart, ChatFails, Appended, TurnInv, TypeOK,
                Succeeded
  <2>4. at' \in (Operation \union Ended) \ {"tool", "diverged"}
    BY <1>3 DEF GotItem, Vended, GotLogin, GotIssue, GotPart, ChatFails, Appended
  <2> QED
    BY <2>2, <2>3, <2>4, NothingSaid DEF TurnInv, TypeOK
<1>4. ASSUME NEW answer \in Answers, ModelReplies(answer) PROVE TurnInv'
  <2>1. at # "tool" /\ http'.pc = "idle"
    BY <1>4, Taken DEF ModelReplies
  <2>2. UNCHANGED <<round, msgs, todo>> /\ text' \in BOOLEAN /\ tools' \in BOOLEAN
    BY <1>4 DEF ModelReplies, TurnInv, TypeOK, HasText
  <2>3. at' = "append"
    BY <1>4 DEF ModelReplies
  <2> QED
    BY <2>1, <2>2, <2>3, NothingSaid
<1>5. CASE UNCHANGED vars
  BY <1>5, NothingSaid DEF vars, httpVars, TurnInv, RoundsBounded, TypeOK
<1> QED
  BY <1>1, <1>2, <1>3, <1>4, <1>5

\* The model calls tools, and all its earlier calls have been answered.
LEMMA ModelCallsKeeps ==
  ASSUME TurnInv, HttpTypeOK', NEW answer \in Answers, ModelCalls(answer)
  PROVE  TurnInv'
<1> DEFINE new == [role |-> "assistant", answer |-> answer]
<1>1. /\ at = "chat" /\ at' = "tool" /\ http'.pc = "idle"
      /\ msgs' = Append(msgs, new) /\ todo' = Calls(answer) /\ todo' # <<>>
      /\ round' = round /\ round < MaxToolIterations
      /\ tools' = tools /\ text' = text
  BY Taken DEF ModelCalls, Offered
<1>2. new \in Message /\ new.role = "assistant" /\ new.answer = answer
  BY DEF Message
<1>3. msgs \in Seq(Message) /\ Len(msgs) \in Nat /\ todo = <<>> /\ Len(todo) = 0
  BY <1>1 DEF TurnInv, TypeOK, RoundsBounded
<1>4. todo' \in Seq(1..MaxChoices) /\ Len(todo') \in Nat
  <2>1. Calls(answer) \in Seq(1..MaxChoices)
    BY CallsFacts
  <2> QED
    BY <1>1, <2>1
<1> HIDE DEF new
<1>5. /\ msgs' \in Seq(Message) /\ Len(msgs') = Len(msgs) + 1
      /\ msgs'[Len(msgs) + 1] = new
      /\ \A i \in 1..Len(msgs) : msgs'[i] = msgs[i]
  BY <1>1, <1>2, <1>3
<1>6. TypeOK'
  BY <1>1, <1>4, <1>5, TurnAssumption DEF TurnInv, TypeOK
<1>7. RoundsBounded'
  BY <1>1 DEF TurnInv, RoundsBounded
<1>8. CallsFollowed'
  <2> SUFFICES ASSUME NEW k \in 1..Len(msgs'), msgs'[k].role = "assistant"
               PROVE  Followed(k)'
    BY DEF CallsFollowed
  <2>1. CASE k = Len(msgs) + 1
    <3>1. Calls(msgs'[k].answer) = todo'
      BY <1>1, <1>2, <1>5, <2>1
    <3> QED
      BY <1>3, <1>4, <1>5, <2>1, <3>1 DEF Followed
  <2>2. CASE k # Len(msgs) + 1
    <3>1. k \in 1..Len(msgs) /\ msgs'[k] = msgs[k]
      BY <1>3, <1>5, <2>2
    <3>2. Followed(k)
      BY <3>1 DEF TurnInv, CallsFollowed
    <3> DEFINE made == Calls(msgs[k].answer)
    <3>3. Len(made) \in Nat
      <4>1. msgs[k] \in Message
        BY <1>3, <3>1
      <4>2. msgs[k].answer \in Answers
        BY <4>1, <3>1 DEF Message
      <4> QED
        BY <4>2, CallsFacts
    <3>4. /\ k + Len(made) <= Len(msgs)
          /\ \A j \in 1..Len(made) : msgs[k + j] = [role |-> "tool", id |-> made[j]]
          /\ k + Len(made) < Len(msgs) => msgs[k + Len(made) + 1].role = "assistant"
      <4> HIDE DEF made
      <4>1. /\ k + Len(made) <= Len(msgs)
            /\ \A j \in 1..Len(made) : k + j <= Len(msgs) => msgs[k + j] = [role |-> "tool", id |-> made[j]]
            /\ k + Len(made) < Len(msgs) => msgs[k + Len(made) + 1].role = "assistant"
        BY <1>3, <3>2, <3>3 DEF Followed, made
      <4>2. \A j \in 1..Len(made) : k + j <= Len(msgs)
        BY <1>3, <3>1, <3>3, <4>1
      <4> QED
        BY <4>1, <4>2
    <3>5. made = Calls(msgs'[k].answer)
      BY <3>1
    <3> HIDE DEF made
    <3>6. \A j \in 1..Len(made) : k + j <= Len(msgs') /\ msgs'[k + j] = [role |-> "tool", id |-> made[j]]
      <4>1. \A j \in 1..Len(made) : k + j \in 1..Len(msgs) /\ k + j <= Len(msgs')
        BY <1>3, <1>5, <3>1, <3>3, <3>4
      <4> QED
        BY <1>5, <3>4, <4>1
    <3>7. /\ k + Len(made) < Len(msgs')
          /\ msgs'[k + Len(made) + 1].role = "assistant"
      <4>1. CASE k + Len(made) = Len(msgs)
        BY <1>2, <1>3, <1>5, <4>1
      <4>2. CASE k + Len(made) # Len(msgs)
        BY <1>3, <1>5, <3>1, <3>3, <3>4, <4>2
      <4> QED
        BY <4>1, <4>2
    <3>8. k + Len(made) <= Len(msgs') + Len(todo')
      BY <1>3, <1>4, <1>5, <3>1, <3>3, <3>7
    <3> QED
      BY <3>5, <3>6, <3>7, <3>8 DEF Followed
  <2> QED
    BY <2>1, <2>2
<1> QED
  BY <1>6, <1>7, <1>8 DEF TurnInv

\* A call is done: its result follows the earlier ones.
LEMMA CallDoneKeeps ==
  ASSUME TurnInv, HttpTypeOK', CallDone, at = "tool", http'.pc = "idle"
  PROVE  TurnInv'
<1> DEFINE new == [role |-> "tool", id |-> Head(todo)]
<1>1. /\ todo \in Seq(1..MaxChoices) /\ todo # <<>>
      /\ round \in 0..(MaxToolIterations + 1) /\ round < MaxToolIterations
      /\ msgs \in Seq(Message) /\ Len(msgs) \in Nat /\ MaxToolIterations \in Nat
  BY TurnAssumption DEF TurnInv, TypeOK, RoundsBounded
<1>2. /\ msgs' = Append(msgs, new) /\ todo' = Tail(todo)
      /\ tools' = tools /\ text' = text
  <2>1. msgs' = msgs \o <<new>> /\ todo' = Tail(todo) /\ tools' = tools /\ text' = text
    BY DEF CallDone, ToolMessage
  <2> HIDE DEF new
  <2>2. msgs \o <<new>> = Append(msgs, new)
    BY <1>1
  <2> QED
    BY <2>1, <2>2
<1>3. /\ todo' \in Seq(1..MaxChoices) /\ Len(todo') = Len(todo) - 1 /\ Len(todo) \in Nat /\ Len(todo) > 0
      /\ Head(todo) = todo[1] /\ todo[1] \in 1..MaxChoices
      /\ \A i \in 1..Len(todo') : todo'[i] = todo[i + 1]
  <2>1. todo \in Seq(1..MaxChoices) /\ todo # <<>> /\ todo' = Tail(todo)
    BY <1>1, <1>2
  <2>2. Len(todo) \in Nat /\ Len(todo) > 0
    BY <2>1, EmptySeq
  <2>3. todo[1] \in 1..MaxChoices /\ Head(todo) = todo[1]
    <3>1. 1 \in 1..Len(todo)
      BY <2>2
    <3>2. todo[1] \in 1..MaxChoices
      BY <2>1, <3>1, ElementOfSeq
    <3>3. Head(todo) = todo[1]
      OBVIOUS
    <3> QED
      BY <3>2, <3>3
  <2>4. todo' \in Seq(1..MaxChoices) /\ Len(todo') = Len(todo) - 1
    BY <2>1, <2>2
  <2>5. \A i \in 1..Len(todo') : todo'[i] = todo[i + 1]
    BY <2>1, <2>2
  <2> QED
    BY <2>2, <2>3, <2>4, <2>5
<1>4. /\ round' = IF todo' = <<>> THEN round + 1 ELSE round
      /\ at' = IF todo' = <<>> THEN "chat" ELSE "tool"
  BY <1>1, <1>2 DEF CallDone
<1>5. new \in Message /\ new.role = "tool"
  BY <1>3 DEF Message
<1>6. new = [role |-> "tool", id |-> todo[1]]
  BY <1>3
<1> HIDE DEF new
<1>7. /\ msgs' \in Seq(Message) /\ Len(msgs') = Len(msgs) + 1
      /\ msgs'[Len(msgs) + 1] = new
      /\ \A i \in 1..Len(msgs) : msgs'[i] = msgs[i]
  BY <1>1, <1>2, <1>5
<1>8. TypeOK'
  <2>1. at' \in Operation
    BY <1>4, TurnAssumption
  <2>2. round' \in 0..(MaxToolIterations + 1)
    BY <1>1, <1>4
  <2> QED
    BY <1>2, <1>3, <1>7, <2>1, <2>2 DEF TurnInv, TypeOK
<1>9. RoundsBounded'
  BY <1>1, <1>4 DEF TurnInv, RoundsBounded
<1>10. CallsFollowed'
  <2> SUFFICES ASSUME NEW k \in 1..Len(msgs'), msgs'[k].role = "assistant"
               PROVE  Followed(k)'
    BY DEF CallsFollowed
  <2> DEFINE made == Calls(msgs[k].answer)
  <2>1. k # Len(msgs) + 1
    BY <1>5, <1>7
  <2>2. k \in 1..Len(msgs) /\ msgs'[k] = msgs[k]
    BY <1>1, <1>7, <2>1
  <2>3. Followed(k)
    BY <2>2 DEF TurnInv, CallsFollowed
  <2>4. Len(made) \in Nat
    <3>1. msgs[k] \in Message
      BY <1>1, <2>2
    <3>2. msgs[k].answer \in Answers
      BY <2>2, <3>1 DEF Message
    <3> QED
      BY <3>2, CallsFacts
  <2>5. /\ k + Len(made) <= Len(msgs) + Len(todo)
        /\ \A j \in 1..Len(made) :
             IF k + j <= Len(msgs) THEN msgs[k + j] = [role |-> "tool", id |-> made[j]]
             ELSE todo[k + j - Len(msgs)] = made[j]
        /\ k + Len(made) < Len(msgs) + Len(todo) =>
             k + Len(made) < Len(msgs) /\ msgs[k + Len(made) + 1].role = "assistant"
    BY <2>3 DEF Followed
  <2>6. made = Calls(msgs'[k].answer)
    BY <2>2
  <2> HIDE DEF made
  <2>7. Len(msgs') + Len(todo') = Len(msgs) + Len(todo)
    BY <1>1, <1>3, <1>7
  <2>8. ASSUME NEW j \in 1..Len(made)
        PROVE  IF k + j <= Len(msgs') THEN msgs'[k + j] = [role |-> "tool", id |-> made[j]]
               ELSE todo'[k + j - Len(msgs')] = made[j]
    <3>1. CASE k + j <= Len(msgs)
      <4>1. k + j \in 1..Len(msgs) /\ k + j <= Len(msgs')
        BY <1>1, <1>7, <2>2, <2>4, <3>1
      <4> QED
        BY <1>7, <2>5, <3>1, <4>1
    <3>2. CASE k + j = Len(msgs) + 1
      <4>1. todo[1] = made[j]
        <5>1. k + j - Len(msgs) = 1 /\ ~(k + j <= Len(msgs))
          BY <1>1, <2>2, <2>4, <3>2
        <5> QED
          BY <2>5, <5>1
      <4>2. k + j <= Len(msgs')
        BY <1>1, <1>7, <3>2
      <4> QED
        BY <1>6, <1>7, <3>2, <4>1, <4>2
    <3>3. CASE k + j > Len(msgs) + 1
      <4>1. /\ ~(k + j <= Len(msgs)) /\ ~(k + j <= Len(msgs'))
            /\ k + j - Len(msgs) = (k + j - Len(msgs')) + 1
            /\ k + j - Len(msgs') \in 1..Len(todo')
        BY <1>1, <1>3, <1>7, <2>2, <2>4, <2>5, <3>3
      <4>2. todo[k + j - Len(msgs)] = made[j]
        BY <2>5, <4>1
      <4> QED
        BY <1>3, <4>1, <4>2
    <3>4. k + j <= Len(msgs) \/ k + j = Len(msgs) + 1 \/ k + j > Len(msgs) + 1
      BY <1>1, <2>2, <2>4
    <3> QED
      BY <3>1, <3>2, <3>3, <3>4
  <2>9. k + Len(made) < Len(msgs) + Len(todo) =>
          k + Len(made) < Len(msgs') /\ msgs'[k + Len(made) + 1].role = "assistant"
    <3> SUFFICES ASSUME k + Len(made) < Len(msgs) + Len(todo)
                 PROVE  k + Len(made) < Len(msgs') /\ msgs'[k + Len(made) + 1].role = "assistant"
      OBVIOUS
    <3>1. k + Len(made) + 1 \in 1..Len(msgs) /\ msgs[k + Len(made) + 1].role = "assistant"
      BY <1>1, <2>2, <2>4, <2>5
    <3> QED
      BY <1>1, <1>7, <2>2, <2>4, <2>5, <3>1
  <2> QED
    BY <2>5, <2>6, <2>7, <2>8, <2>9 DEF Followed
<1> QED
  BY <1>8, <1>9, <1>10 DEF TurnInv

\* The conversation's invariant holds in every state of a turn.
THEOREM TurnInvariant == Spec => []TurnInv
<1>1. Init => TurnInv
  BY InitTurnInv
<1>2. TurnInv /\ HttpInv /\ HttpInv' /\ [Next]_vars => TurnInv'
  <2> SUFFICES ASSUME TurnInv, HttpTypeOK', [Next]_vars PROVE TurnInv'
    BY DEF HttpInv
  <2>1. CASE \E answer \in Answers : ModelCalls(answer)
    BY <2>1, ModelCallsKeeps
  <2>2. CASE ToolAnswered \/ ToolRejected
    <3>1. CallDone /\ at = "tool" /\ http'.pc = "idle"
      BY <2>2, Taken DEF ToolAnswered, ToolRejected, httpVars
    <3> QED
      BY <3>1, CallDoneKeeps
  <2>3. CASE \/ Request \/ Resent \/ Interrupted
             \/ \E outcome \in Outcome, ran \in BOOLEAN : Answered(outcome, ran)
             \/ GotItem \/ Vended \/ GotLogin \/ GotIssue \/ GotPart \/ ChatFails \/ Appended
             \/ \E answer \in Answers : ModelReplies(answer)
             \/ UNCHANGED vars
    BY <2>3, RequestKeeps
  <2> QED
    BY <2>1, <2>2, <2>3 DEF Next
<1> QED
  BY <1>1, <1>2, TransportInvariant, PTL DEF Spec

\* The variables of a turn have their types throughout.
THEOREM TurnTypes == Spec => []TypeOK
<1>1. TurnInv => TypeOK
  BY DEF TurnInv
<1> QED
  BY <1>1, TurnInvariant, PTL

\* The loop of Reply never runs out of rounds with calls still to be made: in
\* the last round no tools are offered ("conversation did not converge").
THEOREM NeverDiverges == Spec => [](at # "diverged")
<1>1. TurnInv => at # "diverged"
  BY DEF TurnInv, RoundsBounded
<1> QED
  BY <1>1, TurnInvariant, PTL

\* Whatever the model calls and however the tools end, each history it is shown
\* has for each of its calls one result, in the order of the calls (Reply, chat).
THEOREM CallsAnswered == Spec => []EveryCallAnswered
<1>1. ASSUME TurnInv PROVE EveryCallAnswered
  <2> SUFFICES ASSUME at = "chat", NEW k \in DOMAIN msgs, msgs[k].role = "assistant"
               PROVE  LET made == {i \in DOMAIN msgs[k].answer : msgs[k].answer[i] # "text"}
                          end  == k + Cardinality(made)
                      IN  /\ end <= Len(msgs)
                          /\ \A j \in (k + 1)..end : msgs[j].role = "tool"
                          /\ {msgs[j].id : j \in (k + 1)..end} = made
                          /\ \A j \in (k + 1)..(end - 1) : msgs[j].id < msgs[j + 1].id
                          /\ end < Len(msgs) => msgs[end + 1].role = "assistant"
    BY DEF EveryCallAnswered
  <2> DEFINE made == {i \in DOMAIN msgs[k].answer : msgs[k].answer[i] # "text"}
             calls == Calls(msgs[k].answer)
             end == k + Len(calls)
  <2>1. msgs \in Seq(Message) /\ todo = <<>> /\ Len(todo) = 0
    BY <1>1 DEF TurnInv, TypeOK, RoundsBounded
  <2>2. k \in 1..Len(msgs) /\ Len(msgs) \in Nat /\ msgs[k] \in Message
    BY <2>1
  <2>3. msgs[k].answer \in Answers
    BY <2>2 DEF Message
  <2>4. /\ calls \in Seq(1..MaxChoices) /\ Len(calls) = Cardinality(made)
        /\ {calls[j] : j \in 1..Len(calls)} = made
        /\ \A j \in 1..(Len(calls) - 1) : calls[j] < calls[j + 1]
    BY <2>3, CallsFacts
  <2> HIDE DEF made
  <2>5. Followed(k)
    BY <1>1, <2>2 DEF TurnInv, CallsFollowed
  <2>6. /\ end <= Len(msgs)
        /\ \A j \in 1..Len(calls) : k + j <= Len(msgs) => msgs[k + j] = [role |-> "tool", id |-> calls[j]]
        /\ end < Len(msgs) => msgs[end + 1].role = "assistant"
    <3>1. /\ k + Len(calls) <= Len(msgs) + Len(todo)
          /\ \A j \in 1..Len(calls) :
               IF k + j <= Len(msgs) THEN msgs[k + j] = [role |-> "tool", id |-> calls[j]]
               ELSE todo[k + j - Len(msgs)] = calls[j]
          /\ k + Len(calls) < Len(msgs) + Len(todo) =>
               k + Len(calls) < Len(msgs) /\ msgs[k + Len(calls) + 1].role = "assistant"
      BY <2>5 DEF Followed
    <3> HIDE DEF calls
    <3>2. Len(msgs) + Len(todo) = Len(msgs)
      BY <2>1, <2>2
    <3> QED
      BY <3>1, <3>2
  <2> HIDE DEF calls
  <2>7. Len(calls) \in Nat
    BY <2>4
  <2>8. \A j \in (k + 1)..end :
          j - k \in 1..Len(calls) /\ msgs[j] = [role |-> "tool", id |-> calls[j - k]]
    <3> TAKE j \in (k + 1)..end
    <3>1. j \in Int /\ k + 1 <= j /\ j <= k + Len(calls)
      BY <2>2, <2>7
    <3>2. j - k \in 1..Len(calls) /\ k + (j - k) = j
      BY <2>2, <2>7, <3>1
    <3>3. end <= Len(msgs) /\ end \in Int /\ j <= end
      BY <2>2, <2>6, <2>7, <3>1
    <3>4. k + (j - k) <= Len(msgs)
      BY <2>2, <3>1, <3>2, <3>3
    <3> QED
      BY <2>6, <3>2, <3>4
  <2>9. \A j \in (k + 1)..end : msgs[j].role = "tool" /\ msgs[j].id = calls[j - k]
    <3> TAKE j \in (k + 1)..end
    <3>1. msgs[j] = [role |-> "tool", id |-> calls[j - k]]
      BY <2>8
    <3> QED
      BY <3>1
  <2>10. {msgs[j].id : j \in (k + 1)..end} = made
    <3>1. \A j \in 1..Len(calls) : k + j \in (k + 1)..end /\ (k + j) - k = j
      BY <2>2, <2>7
    <3>2. {msgs[j].id : j \in (k + 1)..end} = {calls[j] : j \in 1..Len(calls)}
      <4>1. \A j \in (k + 1)..end : msgs[j].id \in {calls[i] : i \in 1..Len(calls)}
        BY <2>8, <2>9
      <4>2. \A i \in 1..Len(calls) : calls[i] = msgs[k + i].id
        BY <2>9, <3>1
      <4> HIDE DEF end
      <4>3. \A i \in 1..Len(calls) : calls[i] \in {msgs[j].id : j \in (k + 1)..end}
        BY <3>1, <4>2
      <4> QED
        BY <4>1, <4>3
    <3> QED
      BY <2>4, <3>2
  <2>11. \A j \in (k + 1)..(end - 1) : msgs[j].id < msgs[j + 1].id
    <3> TAKE j \in (k + 1)..(end - 1)
    <3>1. /\ j \in (k + 1)..end /\ j + 1 \in (k + 1)..end
          /\ j - k \in 1..(Len(calls) - 1) /\ (j + 1) - k = (j - k) + 1
      BY <2>2, <2>7
    <3> QED
      BY <2>4, <2>9, <3>1
  <2> QED
    BY <2>4, <2>6, <2>9, <2>10, <2>11 DEF made
<1> QED
  BY <1>1, TurnInvariant, PTL

-------------------------------------------------------------------------------
(* What is left to do.                                                     *)

\* The operations of a turn still ahead, Reply counting as one.
OperationsLeft ==
    CASE at = "item" -> 11 [] at = "vend" -> 10 [] at = "login" -> 9
      [] at = "issue" -> 8 [] at = "comments" -> 7 [] at = "head" -> 6
      [] at = "reviews" -> 5 [] at = "inline" -> 4 [] at = "files" -> 3
      [] at \in {"chat", "tool"} -> 2 [] at = "append" -> 1
      [] OTHER -> 0

\* The rounds of Reply, the call of the model in this one, the calls it made.
RoundsLeft == MaxToolIterations - round
ToAsk == IF at = "chat" THEN 1 ELSE 0
CallsLeft == Len(todo)

\* A request that is to be made, its repetitions, and the try in hand.
ToSend == IF http.pc = "idle" THEN 1 ELSE 0
RepeatsLeft == http.left.transient + http.left.rateLimit
TryLeft == CASE http.pc = "waiting" -> 2 [] http.pc = "sent" -> 1 [] OTHER -> 0

Remaining ==
    <<OperationsLeft, RoundsLeft, ToAsk, CallsLeft, ToSend, RepeatsLeft, TryLeft>>

\* m comes before n in the lexicographic order of tuples.
Lower(m, n) ==
    \E i \in DOMAIN n : m[i] < n[i] /\ \A j \in 1..(i - 1) : m[j] = n[j]

\* Whatever comes first in Remaining and goes down outweighs what follows.
LEMMA GoesDown ==
  ASSUME \/ OperationsLeft' < OperationsLeft
         \/ /\ OperationsLeft' = OperationsLeft
            /\ \/ RoundsLeft' < RoundsLeft
               \/ /\ RoundsLeft' = RoundsLeft
                  /\ \/ ToAsk' < ToAsk
                     \/ /\ ToAsk' = ToAsk
                        /\ \/ CallsLeft' < CallsLeft
                           \/ /\ CallsLeft' = CallsLeft
                              /\ \/ ToSend' < ToSend
                                 \/ /\ ToSend' = ToSend
                                    /\ \/ RepeatsLeft' < RepeatsLeft
                                       \/ /\ RepeatsLeft' = RepeatsLeft
                                          /\ TryLeft' < TryLeft
  PROVE  Lower(Remaining', Remaining)
<1> DEFINE m == Remaining'
           n == Remaining
<1>1. /\ m[1] = OperationsLeft' /\ n[1] = OperationsLeft
      /\ m[2] = RoundsLeft' /\ n[2] = RoundsLeft
      /\ m[3] = ToAsk' /\ n[3] = ToAsk
      /\ m[4] = CallsLeft' /\ n[4] = CallsLeft
      /\ m[5] = ToSend' /\ n[5] = ToSend
      /\ m[6] = RepeatsLeft' /\ n[6] = RepeatsLeft
      /\ m[7] = TryLeft' /\ n[7] = TryLeft
      /\ DOMAIN n = 1..7
  BY DEF Remaining
<1> HIDE DEF m, n
<1>2. ASSUME NEW i \in 1..7, m[i] < n[i], \A j \in 1..(i - 1) : m[j] = n[j]
      PROVE  Lower(m, n)
  BY <1>1, <1>2 DEF Lower
<1>3. CASE OperationsLeft' < OperationsLeft
  <2>1. 1..(1 - 1) = {}
    OBVIOUS
  <2>2. \A j \in 1..(1 - 1) : m[j] = n[j]
    BY <1>1, <1>3, <2>1
  <2>3. 1 \in 1..7 /\ m[1] < n[1]
    BY <1>1, <1>3
  <2> QED
    BY <1>2, <2>2, <2>3 DEF m, n
<1>4. CASE /\ RoundsLeft' < RoundsLeft
              /\ OperationsLeft' = OperationsLeft
  <2>1. 1..(2 - 1) = {1}
    OBVIOUS
  <2>2. \A j \in 1..(2 - 1) : m[j] = n[j]
    BY <1>1, <1>4, <2>1
  <2>3. 2 \in 1..7 /\ m[2] < n[2]
    BY <1>1, <1>4
  <2> QED
    BY <1>2, <2>2, <2>3 DEF m, n
<1>5. CASE /\ ToAsk' < ToAsk
              /\ OperationsLeft' = OperationsLeft
              /\ RoundsLeft' = RoundsLeft
  <2>1. 1..(3 - 1) = {1, 2}
    OBVIOUS
  <2>2. \A j \in 1..(3 - 1) : m[j] = n[j]
    BY <1>1, <1>5, <2>1
  <2>3. 3 \in 1..7 /\ m[3] < n[3]
    BY <1>1, <1>5
  <2> QED
    BY <1>2, <2>2, <2>3 DEF m, n
<1>6. CASE /\ CallsLeft' < CallsLeft
              /\ OperationsLeft' = OperationsLeft
              /\ RoundsLeft' = RoundsLeft
              /\ ToAsk' = ToAsk
  <2>1. 1..(4 - 1) = {1, 2, 3}
    OBVIOUS
  <2>2. \A j \in 1..(4 - 1) : m[j] = n[j]
    BY <1>1, <1>6, <2>1
  <2>3. 4 \in 1..7 /\ m[4] < n[4]
    BY <1>1, <1>6
  <2> QED
    BY <1>2, <2>2, <2>3 DEF m, n
<1>7. CASE /\ ToSend' < ToSend
              /\ OperationsLeft' = OperationsLeft
              /\ RoundsLeft' = RoundsLeft
              /\ ToAsk' = ToAsk
              /\ CallsLeft' = CallsLeft
  <2>1. 1..(5 - 1) = {1, 2, 3, 4}
    OBVIOUS
  <2>2. \A j \in 1..(5 - 1) : m[j] = n[j]
    BY <1>1, <1>7, <2>1
  <2>3. 5 \in 1..7 /\ m[5] < n[5]
    BY <1>1, <1>7
  <2> QED
    BY <1>2, <2>2, <2>3 DEF m, n
<1>8. CASE /\ RepeatsLeft' < RepeatsLeft
              /\ OperationsLeft' = OperationsLeft
              /\ RoundsLeft' = RoundsLeft
              /\ ToAsk' = ToAsk
              /\ CallsLeft' = CallsLeft
              /\ ToSend' = ToSend
  <2>1. 1..(6 - 1) = {1, 2, 3, 4, 5}
    OBVIOUS
  <2>2. \A j \in 1..(6 - 1) : m[j] = n[j]
    BY <1>1, <1>8, <2>1
  <2>3. 6 \in 1..7 /\ m[6] < n[6]
    BY <1>1, <1>8
  <2> QED
    BY <1>2, <2>2, <2>3 DEF m, n
<1>9. CASE /\ TryLeft' < TryLeft
              /\ OperationsLeft' = OperationsLeft
              /\ RoundsLeft' = RoundsLeft
              /\ ToAsk' = ToAsk
              /\ CallsLeft' = CallsLeft
              /\ ToSend' = ToSend
              /\ RepeatsLeft' = RepeatsLeft
  <2>1. 1..(7 - 1) = {1, 2, 3, 4, 5, 6}
    OBVIOUS
  <2>2. \A j \in 1..(7 - 1) : m[j] = n[j]
    BY <1>1, <1>9, <2>1
  <2>3. 7 \in 1..7 /\ m[7] < n[7]
    BY <1>1, <1>9
  <2> QED
    BY <1>2, <2>2, <2>3 DEF m, n
<1> QED
  BY <1>3, <1>4, <1>5, <1>6, <1>7, <1>8, <1>9

\* A request that goes on, whatever the turn is at.
LEMMA RequestGoesOn ==
  ASSUME TurnInv, UNCHANGED <<at, round, todo>>,
         \/ Request \/ Resent \/ Interrupted
         \/ \E outcome \in Outcome, ran \in BOOLEAN : Answered(outcome, ran)
  PROVE  Lower(Remaining', Remaining)
<1>1. /\ OperationsLeft' = OperationsLeft /\ RoundsLeft' = RoundsLeft
      /\ ToAsk' = ToAsk /\ CallsLeft' = CallsLeft
  BY DEF OperationsLeft, RoundsLeft, ToAsk, CallsLeft
<1>2. HttpTypeOK
  BY DEF TurnInv, TypeOK
<1>3. CASE Request
  <2>1. http.pc = "idle" /\ http'.pc = "sent"
    BY <1>3 DEF Request, Send
  <2> QED
    BY <1>1, <2>1, GoesDown DEF ToSend
<1>4. CASE Resent \/ Interrupted
  <2>1. /\ http.pc = "waiting" /\ http'.pc \in {"sent", "returned"} /\ http'.left = http.left
    BY <1>2, <1>4 DEF Resent, Interrupted, SendAgain, WaitCut, HttpTypeOK
  <2>2. ToSend' = ToSend /\ RepeatsLeft' = RepeatsLeft /\ TryLeft' < TryLeft
    BY <2>1 DEF ToSend, RepeatsLeft, TryLeft
  <2> QED
    BY <1>1, <2>2, GoesDown
<1>5. ASSUME NEW outcome \in Outcome, NEW ran \in BOOLEAN, Answered(outcome, ran)
      PROVE  Lower(Remaining', Remaining)
  <2> DEFINE kind == BudgetFor(outcome)
  <2>1. kind \in {"transient", "rateLimit"}
    BY DEF BudgetFor
  <2>2. /\ http.pc = "sent"
        /\ http' = IF Again(outcome)
                   THEN [http EXCEPT !.pc = "waiting", !.left[kind] = @ - 1]
                   ELSE [http EXCEPT !.pc = "returned", !.result = outcome]
    BY <1>5 DEF Answered, Try
  <2>3. Again(outcome) => http.left[kind] > 0
    BY DEF Again
  <2> HIDE DEF kind
  <2>4. CASE Again(outcome)
    <3>1. http'.pc = "waiting" /\ http'.left = [http.left EXCEPT ![kind] = @ - 1]
      BY <1>2, <2>2, <2>4 DEF HttpTypeOK
    <3>2. http.left \in [{"transient", "rateLimit"} -> Nat]
      BY <1>2 DEF HttpTypeOK
    <3>3. RepeatsLeft' < RepeatsLeft
      BY <2>1, <3>1, <3>2 DEF RepeatsLeft
    <3>4. ToSend' = ToSend
      BY <2>2, <3>1 DEF ToSend
    <3> QED
      BY <1>1, <3>3, <3>4, GoesDown
  <2>5. CASE ~Again(outcome)
    <3>1. http'.pc = "returned" /\ http'.left = http.left
      BY <1>2, <2>2, <2>5 DEF HttpTypeOK
    <3>2. ToSend' = ToSend /\ RepeatsLeft' = RepeatsLeft /\ TryLeft' < TryLeft
      BY <2>2, <3>1 DEF ToSend, RepeatsLeft, TryLeft
    <3> QED
      BY <1>1, <3>2, GoesDown
  <2> QED
    BY <2>4, <2>5
<1> QED
  BY <1>3, <1>4, <1>5

\* A call is done: one less, or one round less.
LEMMA CallDoneGoesOn ==
  ASSUME TurnInv, CallDone, at = "tool"
  PROVE  Lower(Remaining', Remaining)
<1>1. /\ todo \in Seq(1..MaxChoices) /\ todo # <<>> /\ todo' = Tail(todo)
      /\ round \in 0..(MaxToolIterations + 1) /\ round < MaxToolIterations
      /\ MaxToolIterations \in Nat
  BY TurnAssumption DEF TurnInv, TypeOK, RoundsBounded, CallDone
<1>2. CASE todo' = <<>>
  <2>1. at' = "chat" /\ round' = round + 1
    BY <1>1, <1>2 DEF CallDone
  <2>2. OperationsLeft' = OperationsLeft
    BY <2>1 DEF OperationsLeft
  <2>3. RoundsLeft' < RoundsLeft
    BY <1>1, <2>1 DEF RoundsLeft
  <2> QED
    BY <2>2, <2>3, GoesDown
<1>3. CASE todo' # <<>>
  <2>1. at' = "tool" /\ round' = round
    BY <1>1, <1>3 DEF CallDone
  <2>2. OperationsLeft' = OperationsLeft /\ RoundsLeft' = RoundsLeft /\ ToAsk' = ToAsk
    BY <2>1 DEF OperationsLeft, RoundsLeft, ToAsk
  <2>3. CallsLeft' < CallsLeft
    <3>1. Len(todo) \in Nat /\ Len(todo') = Len(todo) - 1
      BY <1>1, EmptySeq
    <3> QED
      BY <3>1 DEF CallsLeft
  <2> QED
    BY <2>2, <2>3, GoesDown
<1> QED
  BY <1>2, <1>3

\* Each step of a turn leaves less to do.
LEMMA StepGoesOn ==
  ASSUME TurnInv, Next
  PROVE  Lower(Remaining', Remaining)
<1>1. CASE \/ Request \/ Resent \/ Interrupted
           \/ \E outcome \in Outcome, ran \in BOOLEAN : Answered(outcome, ran)
  <2>1. UNCHANGED <<at, round, todo>>
    BY <1>1 DEF Request, Resent, Interrupted, Answered
  <2> QED
    BY <1>1, <2>1, RequestGoesOn
<1>2. CASE \/ GotItem \/ Vended \/ GotLogin \/ GotIssue \/ GotPart \/ ChatFails \/ Appended
           \/ \E answer \in Answers : ModelReplies(answer)
  <2>1. \/ at = "item" /\ at' \in {"vend", "nothing", "failed"}
        \/ at = "vend" /\ at' \in {"login", "chat"}
        \/ at = "login" /\ at' = "issue"
        \/ at = "issue" /\ at' \in {"comments", "chat"}
        \/ at = "comments" /\ at' \in {"head", "chat"}
        \/ at = "head" /\ at' = "reviews"
        \/ at = "reviews" /\ at' = "inline"
        \/ at = "inline" /\ at' = "files"
        \/ at = "files" /\ at' = "chat"
        \/ at = "chat" /\ at' \in {"failed", "append"}
        \/ at = "append" /\ at' \in {"replied", "failed"}
    <3>1. \A op : Take(op) => at = op
      BY Taken
    <3> QED
      BY <1>2, <3>1 DEF GotItem, Vended, GotLogin, GotIssue, GotPart, ChatFails, Appended, ModelReplies
  <2>2. OperationsLeft' < OperationsLeft
    BY <2>1 DEF OperationsLeft
  <2> QED
    BY <2>2, GoesDown
<1>3. ASSUME NEW answer \in Answers, ModelCalls(answer)
      PROVE  Lower(Remaining', Remaining)
  <2>1. at = "chat" /\ at' = "tool" /\ round' = round
    BY <1>3, Taken DEF ModelCalls
  <2>2. OperationsLeft' = OperationsLeft /\ RoundsLeft' = RoundsLeft /\ ToAsk' < ToAsk
    BY <2>1 DEF OperationsLeft, RoundsLeft, ToAsk
  <2> QED
    BY <2>2, GoesDown
<1>4. CASE ToolAnswered \/ ToolRejected
  <2>1. CallDone /\ at = "tool"
    BY <1>4, Taken DEF ToolAnswered, ToolRejected
  <2> QED
    BY <2>1, CallDoneGoesOn
<1> QED
  BY <1>1, <1>2, <1>3, <1>4 DEF Next

\* What is left is counted in natural numbers.
LEMMA RemainingIsNat ==
  ASSUME TurnInv
  PROVE  Remaining \in Nat \X Nat \X Nat \X Nat \X Nat \X Nat \X Nat
<1>1. OperationsLeft \in Nat /\ ToAsk \in Nat /\ ToSend \in Nat /\ TryLeft \in Nat
  BY DEF OperationsLeft, ToAsk, ToSend, TryLeft
<1>2. RoundsLeft \in Nat
  BY TurnAssumption DEF TurnInv, TypeOK, RoundsBounded, RoundsLeft
<1>3. CallsLeft \in Nat
  BY DEF TurnInv, TypeOK, CallsLeft
<1>4. RepeatsLeft \in Nat
  BY DEF TurnInv, TypeOK, HttpTypeOK, RepeatsLeft
<1> QED
  BY <1>1, <1>2, <1>3, <1>4 DEF Remaining

\* A turn runs out of steps, whatever the model asks for, the tools do and the
\* network loses: each step lowers a tuple of natural numbers, lexicographically
\* (the loop of Reply, RoundTrip's).
EachStepLessLeft ==
    /\ [](Remaining \in Nat \X Nat \X Nat \X Nat \X Nat \X Nat \X Nat)
    /\ [][Lower(Remaining', Remaining)]_vars

THEOREM TurnRunsOut == Spec => EachStepLessLeft
<1>1. TurnInv => Remaining \in Nat \X Nat \X Nat \X Nat \X Nat \X Nat \X Nat
  BY RemainingIsNat
<1>2. TurnInv /\ [Next]_vars => [Lower(Remaining', Remaining)]_vars
  BY StepGoesOn
<1>3. Spec => [](Remaining \in Nat \X Nat \X Nat \X Nat \X Nat \X Nat \X Nat)
  BY <1>1, TurnInvariant, PTL
<1>4. Spec => [][Lower(Remaining', Remaining)]_vars
  BY <1>2, TurnInvariant, PTL DEF Spec
<1> QED
  BY <1>3, <1>4 DEF EachStepLessLeft
===============================================================================
