---------------------------- MODULE AskedQuestion ----------------------------
(****************************************************************************)
(* What a prompt backend promises (trait Prompt in src/src/prompt.rs): it   *)
(* returns from each question at some time, and with an explicit answer     *)
(* only if that is the user's answer to this very question.                 *)
(****************************************************************************)
EXTENDS Naturals

CONSTANTS MaxQuestions, NoAnswer

VARIABLES
    question,  \* the number of the last question
    asking,
    answers,   \* what the user has answered to each
    outcome    \* how the last question has returned

Decisions == {"Allow", "Deny"}
Explicit(d) == [kind |-> "Explicit", decision |-> d]
Default == [kind |-> "Default", decision |-> NoAnswer]
Failure == [kind |-> "Failure", decision |-> NoAnswer]

Init ==
    /\ question = 0 /\ asking = FALSE
    /\ answers = [q \in 1..MaxQuestions |-> NoAnswer]
    /\ outcome = NoAnswer

Ask ==
    /\ ~asking /\ question < MaxQuestions
    /\ question' = question + 1
    /\ asking' = TRUE /\ outcome' = NoAnswer
    /\ UNCHANGED answers

(* The user may answer long after the question was given up. *)
UserAnswers(q, d) ==
    /\ q \in 1..question /\ answers[q] = NoAnswer
    /\ answers' = [answers EXCEPT ![q] = d]
    /\ UNCHANGED <<question, asking, outcome>>

Returns ==
    /\ asking /\ asking' = FALSE
    /\ \/ outcome' \in {Default, Failure}
       \/ answers[question] # NoAnswer /\ outcome' = Explicit(answers[question])
    /\ UNCHANGED <<question, answers>>

Next ==
    \/ Ask \/ Returns
    \/ \E q \in 1..question, d \in Decisions : UserAnswers(q, d)

Spec == Init /\ [][Next]_<<question, asking, answers, outcome>>
=============================================================================
