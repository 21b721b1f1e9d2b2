---------------------------- MODULE PromptBackends ----------------------------
(****************************************************************************)
(* The two ways to put a question to the user (src/src/prompt.rs): authd    *)
(* over a socket, and a command.  authd and the user take their time, and   *)
(* may answer a question that was given up.                                 *)
(****************************************************************************)
EXTENDS Naturals, SequencesExt

CONSTANTS
    MaxQuestions,  \* bound on the questions
    Backlog,       \* connections authd has not accepted yet that fit
    NoAnswer

ASSUME BackendAssumption ==
    /\ MaxQuestions \in Nat /\ Backlog \in Nat \ {0}
    /\ NoAnswer \notin Nat \cup {"Allow", "Deny", "other", "running"}

VARIABLES
    backend,    \* "authd" or "command"
    question,   \* the number of the last question
    call,       \* where the call for it is
    late,       \* its time is over
    answers,    \* history: what the user has answered to each question
    outcome,    \* what the last call has returned
    backlog,    \* the questions on connections yet to be accepted
    shown,      \* the questions authd is asking the user
    connection, \* the open connection
    replies,    \* what can be read from it
    child       \* the prompt command: NoAnswer, "running" or its status

backendVars == <<backend, question, call, late, answers, outcome,
                 backlog, shown, connection, replies, child>>

Explicit(d) == [kind |-> "Explicit", decision |-> d]
Default == [kind |-> "Default", decision |-> NoAnswer]
Failure == [kind |-> "Failure", decision |-> NoAnswer]

asking == call # "none"

BackendInit ==
    /\ backend \in {"authd", "command"}
    /\ question = 0 /\ call = "none" /\ late = FALSE
    /\ answers = [q \in 1..MaxQuestions |-> NoAnswer] /\ outcome = NoAnswer
    /\ backlog = <<>> /\ shown = {} /\ connection = NoAnswer /\ replies = {}
    /\ child = NoAnswer

-----------------------------------------------------------------------------
Ask ==
    /\ ~asking /\ question < MaxQuestions
    /\ question' = question + 1
    /\ call' = IF backend = "authd" THEN "connect" ELSE "spawn"
    /\ late' = FALSE /\ outcome' = NoAnswer
    /\ UNCHANGED <<backend, answers, backlog, shown, connection, replies, child>>

(* The stream is closed, the child is no longer looked at. *)
Return(o) ==
    /\ outcome' = o
    /\ call' = "none" /\ late' = FALSE
    /\ connection' = NoAnswer /\ replies' = {} /\ child' = NoAnswer
    /\ UNCHANGED <<backend, question, answers, backlog, shown>>

(* Variant: one connection serves all questions. *)
KeptConnection(q) == 1

ConnectionOf(q) == q

(* connect has no timeout: it waits for room in the backlog. *)
Connect ==
    /\ call = "connect" /\ Len(backlog) < Backlog
    /\ backlog' = Append(backlog, question)
    /\ connection' = ConnectionOf(question)
    /\ call' = "write"
    /\ UNCHANGED <<backend, question, late, answers, outcome, shown, replies, child>>

WriteRequest ==
    /\ call = "write"
    /\ call' = "read"
    /\ UNCHANGED <<backend, question, late, answers, outcome, backlog, shown,
                   connection, replies, child>>

ReadReply ==
    /\ call = "read"
    /\ \E r \in replies : Return(r)

(* Variant: the stream has no timeouts. *)
WithoutTimeout == FALSE

TimedOut == late

(* No socket, a connection closed or reset, half a reply, or none in time.  *)
AuthdFails ==
    /\ call \in {"connect", "write", "read"}
    /\ Return(Default)

ReadTimesOut ==
    /\ call = "read" /\ replies = {} /\ TimedOut
    /\ Return(Default)

SpawnCommand ==
    /\ call = "spawn"
    /\ child' = "running" /\ call' = "poll"
    /\ UNCHANGED <<backend, question, late, answers, outcome, backlog, shown,
                   connection, replies>>

(* The command cannot be started, or not be waited for. *)
CommandFails ==
    /\ call \in {"spawn", "poll"}
    /\ Return(Failure)

PollCommand ==
    /\ call = "poll" /\ ~late /\ child \in {"Allow", "Deny", "other"}
    /\ Return(IF child = "other" THEN Default ELSE Explicit(child))

(* A status the command has had since the last poll is not looked at. *)
KillCommand ==
    /\ call = "poll" /\ TimedOut
    /\ Return(Default)

TimePasses ==
    /\ call \in {"read", "poll"} /\ ~late
    /\ late' = TRUE
    /\ UNCHANGED <<backend, question, call, answers, outcome, backlog, shown,
                   connection, replies, child>>

-----------------------------------------------------------------------------
(* authd, the command and the user.                                         *)

AuthdAccepts ==
    /\ backlog # <<>>
    /\ shown' = shown \cup {Head(backlog)}
    /\ backlog' = Tail(backlog)
    /\ UNCHANGED <<backend, question, call, late, answers, outcome, connection,
                   replies, child>>

UserAnswered(q, d) ==
    answers' = IF d \in {"Allow", "Deny"} THEN [answers EXCEPT ![q] = d] ELSE answers

(* Success, Denied or AuthFailed, and anything else. *)
AuthdReplies(q, d) ==
    /\ q \in shown /\ (q = question /\ asking => call = "read")
    /\ UserAnswered(q, d)
    /\ replies' = IF ConnectionOf(q) # connection THEN replies
                  ELSE replies \cup {IF d = "other" THEN Default ELSE Explicit(d)}
    /\ shown' = shown \ {q}
    /\ UNCHANGED <<backend, question, call, late, outcome, backlog, connection, child>>

CommandExits(d) ==
    /\ child = "running"
    /\ child' = d
    /\ UserAnswered(question, d)
    /\ UNCHANGED <<backend, question, call, late, outcome, backlog, shown,
                   connection, replies>>

BackendRuns ==
    \/ Connect \/ WriteRequest \/ ReadReply \/ ReadTimesOut
    \/ SpawnCommand \/ PollCommand \/ KillCommand

BackendFails == AuthdFails \/ CommandFails

UserActs ==
    \/ AuthdAccepts
    \/ \E d \in {"Allow", "Deny", "other"} :
           CommandExits(d) \/ \E q \in shown : AuthdReplies(q, d)
=============================================================================
