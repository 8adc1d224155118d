-------------------------------- MODULE Turn ---------------------------------
(***************************************************************************)
(* One turn of the converse runtime (agent.runConverse), every request of  *)
(* it through the retry transport: read the item and its thread, get the   *)
(* owner's credential and the live context if possible, let the model ask  *)
(* for tools for a bounded number of rounds (Converser.Reply), post the    *)
(* answer.                                                                 *)
(*                                                                         *)
(* Prompts and texts are left out, save for whether an answer has text.    *)
(***************************************************************************)
EXTENDS HttpRetry, Sequences, FiniteSets

CONSTANTS MaxToolIterations, \* rounds in which tools are offered
          MaxChoices         \* bound: the choices in an answer of the model

ASSUME TurnAssumption ==
    /\ GetRequest = {"item", "login", "issue", "comments", "head", "reviews",
                     "inline", "files", "tool"}
    /\ Operation = GetRequest \union {"vend", "chat", "append"}
    /\ MaxToolIterations \in Nat /\ MaxChoices \in Nat

VARIABLES
    at,    \* the operation that comes next or is in hand, or how the turn ended
    tools, \* there is a credential, so a toolbox
    round, \* i
    msgs,  \* the messages after the system prompt, the thread and the question
    todo,  \* the calls of the last message not yet executed
    text   \* the answer to post has text

vars == <<httpVars, at, tools, round, msgs, todo, text>>

Ended == {"nothing", "replied", "failed", "diverged"}

\* A choice of an answer carries text, a tool call, or a call in the legacy
\* form without an id.
Choice == {"text", "call", "legacy"}

Answers == UNION {[1..n -> Choice] : n \in 0..MaxChoices}

\* The loop of chat over the choices, which appends those that make a call.
Gathered(answer, calling) ==
    LET upTo[n \in 0..Len(answer)] ==
            IF n = 0 THEN <<>>
            ELSE IF n \in calling THEN Append(upTo[n - 1], n) ELSE upTo[n - 1]
    IN  upTo[Len(answer)]

\* mutant: the legacy form is read in the first choice only
CallsLegacyFirst(answer) ==
    Gathered(answer, {i \in DOMAIN answer : answer[i] = "call" \/ (answer[i] = "legacy" /\ i = 1)})

\* chat gathers the calls of all choices, in order; a call is known by the
\* choice it stands in, which is what chat names a legacy one after.
Calls(answer) ==
    Gathered(answer, {i \in DOMAIN answer : answer[i] \in {"call", "legacy"}})

HasText(answer) == \E i \in DOMAIN answer : answer[i] = "text"

\* mutant: tools are offered in the last round too
OfferedAlways == tools

Offered == tools /\ round < MaxToolIterations

Init ==
    /\ HttpInit
    /\ at = "item"
    /\ tools = FALSE /\ round = 0 /\ msgs = <<>> /\ todo = <<>> /\ text = FALSE

Request ==
    /\ at \in Operation
    /\ Send(at)
    /\ UNCHANGED <<at, tools, round, msgs, todo, text>>

\* Append turns a blank message away.
Answered(outcome, ran) ==
    /\ at = "append" /\ ~text => outcome # "ok" /\ ~ran
    /\ Try(outcome, ran)
    /\ UNCHANGED <<at, tools, round, msgs, todo, text>>

Resent == SendAgain /\ UNCHANGED <<at, tools, round, msgs, todo, text>>

Interrupted == WaitCut /\ UNCHANGED <<at, tools, round, msgs, todo, text>>

-----------------------------------------------------------------------------
(***************************************************************************)
(* runConverse                                                             *)
(***************************************************************************)

Succeeded == http.result = "ok"

\* GetItem.  The item may be gone, or its last message be an answer already.
GotItem ==
    /\ Take("item")
    /\ at' \in IF Succeeded THEN {"vend", "nothing", "failed"} ELSE {"failed"}
    /\ UNCHANGED <<tools, round, msgs, todo, text>>

\* VendCredential: without a credential (or an empty one) there is no context
\* and there are no tools.
Vended ==
    /\ Take("vend")
    /\ tools' \in {FALSE, Succeeded}
    /\ at' = IF tools' THEN "login" ELSE "chat"
    /\ UNCHANGED <<round, msgs, todo, text>>

\* Login: without it the assistant does not know whom it talks to.
GotLogin ==
    /\ Take("login")
    /\ at' = "issue"
    /\ UNCHANGED <<tools, round, msgs, todo, text>>

\* Discussion gives up if the description cannot be read (or makes no sense), and
\* then there is no context; the rest it does without, and for an issue the
\* comments are all.
GotIssue ==
    /\ Take("issue")
    /\ at' \in IF Succeeded THEN {"comments", "chat"} ELSE {"chat"}
    /\ UNCHANGED <<tools, round, msgs, todo, text>>

GotPart ==
    /\ \/ Take("comments") /\ at' \in {"head", "chat"}
       \/ Take("head")     /\ at' = "reviews"
       \/ Take("reviews")  /\ at' = "inline"
       \/ Take("inline")   /\ at' = "files"
       \/ Take("files")    /\ at' = "chat"
    /\ UNCHANGED <<tools, round, msgs, todo, text>>

\* AppendMessage; the server's verdict is the turn's.
Appended ==
    /\ Take("append")
    /\ at' = IF Succeeded THEN "replied" ELSE "failed"
    /\ UNCHANGED <<tools, round, msgs, todo, text>>

-----------------------------------------------------------------------------
(***************************************************************************)
(* Converser.Reply                                                         *)
(***************************************************************************)

\* chat fails: no answer, one that cannot be read, or one without choices.
ChatFails ==
    /\ Take("chat")
    /\ at' = "failed"
    /\ UNCHANGED <<tools, round, msgs, todo, text>>

\* An answer without calls, or one to which none were offered, is the reply.
ModelReplies(answer) ==
    /\ Take("chat")
    /\ Succeeded /\ answer # <<>>
    /\ ~Offered \/ Calls(answer) = <<>>
    /\ at' = "append"
    /\ text' = HasText(answer)
    /\ UNCHANGED <<tools, round, msgs, todo>>

ModelCalls(answer) ==
    /\ Take("chat")
    /\ Succeeded
    /\ Offered /\ Calls(answer) # <<>>
    /\ at' = "tool"
    /\ msgs' = Append(msgs, [role |-> "assistant", answer |-> answer])
    /\ todo' = Calls(answer)
    /\ UNCHANGED <<tools, round, text>>

\* The result of a tool, or "tool error: ...".
ToolMessage(id) == <<[role |-> "tool", id |-> id]>>

\* The head of todo is done; after the last one comes the next round.
CallDone ==
    LET last == Tail(todo) = <<>>
    IN  /\ msgs' = msgs \o ToolMessage(Head(todo))
        /\ todo' = Tail(todo)
        /\ round' = IF last THEN round + 1 ELSE round
        /\ at' = IF ~last THEN "tool"
                 ELSE IF round < MaxToolIterations THEN "chat" ELSE "diverged"
        /\ UNCHANGED <<tools, text>>

ToolAnswered == Take("tool") /\ CallDone

\* Invoke finds the name unknown or an argument missing: nothing is sent.
ToolRejected ==
    /\ at = "tool" /\ http.pc = "idle"
    /\ CallDone
    /\ UNCHANGED httpVars

-----------------------------------------------------------------------------
Next ==
    \/ Request
    \/ \E outcome \in Outcome, ran \in BOOLEAN : Answered(outcome, ran)
    \/ Resent
    \/ Interrupted
    \/ GotItem
    \/ Vended
    \/ GotLogin
    \/ GotIssue
    \/ GotPart
    \/ ChatFails
    \/ \E answer \in Answers : ModelReplies(answer) \/ ModelCalls(answer)
    \/ ToolAnswered
    \/ ToolRejected
    \/ Appended

\* The runtime is a goroutine, and every wait of it has a timer.
Spec == Init /\ [][Next]_vars /\ WF_vars(Next)

Message ==
    [role : {"assistant"}, answer : Answers]
      \union [role : {"tool"}, id : 1..MaxChoices]

TypeOK ==
    /\ HttpTypeOK
    /\ at \in Operation \union Ended
    /\ tools \in BOOLEAN /\ text \in BOOLEAN
    /\ round \in 0..(MaxToolIterations + 1)
    /\ msgs \in Seq(Message)
    /\ todo \in Seq(1..MaxChoices)

-----------------------------------------------------------------------------
(***************************************************************************)
(* What a turn promises                                                    *)
(***************************************************************************)

\* Whenever the model is asked, each of its earlier messages is followed by one
\* tool message for each call it made, in whichever choice and form, in order,
\* and by no other: the chat protocol refuses a history that is not so (Reply,
\* chat).
EveryCallAnswered ==
    at = "chat" =>
        \A k \in DOMAIN msgs : msgs[k].role = "assistant" =>
            LET made == {i \in DOMAIN msgs[k].answer : msgs[k].answer[i] # "text"}
                end  == k + Cardinality(made)
            IN  /\ end <= Len(msgs)
                /\ \A j \in (k + 1)..end : msgs[j].role = "tool"
                /\ {msgs[j].id : j \in (k + 1)..end} = made
                /\ \A j \in (k + 1)..(end - 1) : msgs[j].id < msgs[j + 1].id
                /\ end < Len(msgs) => msgs[end + 1].role = "assistant"

\* Whatever the model asks for and the network does, the turn ends, and never
\* because the model went on calling tools (Reply withholds them in the last
\* round): "conversation did not converge" is not an outcome.
TurnEnds == <>(at \in Ended \ {"diverged"})
=============================================================================
