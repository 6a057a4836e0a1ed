--------------------------- MODULE RequestChannel ---------------------------
(***************************************************************************)
(* What the remote processor promises the Linux driver, and all that the   *)
(* driver may rely on: answers arrive in the order of the requests, at     *)
(* most one for each, and only for requests that have an answer.           *)
(***************************************************************************)
EXTENDS Naturals, Sequences

CONSTANTS
    Commands,           \* the kinds of request
    AnswersTo(_)        \* the answers a request of a kind may get

VARIABLES
    sent,               \* kinds of the requests so far
    answers             \* the answers so far: request number and content

Answer == [req : Nat, kind : UNION {AnswersTo(c) : c \in Commands}]

Init == sent = <<>> /\ answers = <<>>

\* The driver sends a request.
Post(c) == sent' = Append(sent, c) /\ UNCHANGED answers

\* The driver gets the answer to a request later than the last one answered.
Deliver(n, a) ==
    /\ a \in AnswersTo(sent[n])
    /\ answers # <<>> => answers[Len(answers)].req < n
    /\ answers' = Append(answers, [req |-> n, kind |-> a])
    /\ UNCHANGED sent

Next ==
    \/ \E c \in Commands : Post(c)
    \/ \E n \in 1..Len(sent) : \E a \in AnswersTo(sent[n]) : Deliver(n, a)

Spec == Init /\ [][Next]_<<sent, answers>>

=============================================================================
