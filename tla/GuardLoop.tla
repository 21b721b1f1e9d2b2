------------------------------ MODULE GuardLoop ------------------------------
(****************************************************************************)
(* Guard mode of config-guard: one thread reads fanotify permission events  *)
(* and answers them (src/src/fanotify/guard.rs, run_event_loop); a second,  *)
(* scoped thread puts the questions the policy cannot settle to a prompt    *)
(* backend one at a time (run_prompt_worker).  They are joined by a channel *)
(* of jobs, a channel of completions and a socket pair whose bytes wake the *)
(* first thread out of poll(2).  The kernel's event queue, the death of     *)
(* processes and the prompt backend are the environment.                    *)
(****************************************************************************)
EXTENDS Naturals, SequencesExt

CONSTANTS
    Events,      \* file accesses the kernel may report, each at most once
    PermEvents,  \* those whose opener is blocked until the guard answers
    Procs,       \* process generations: a pid together with its start time
    Keys,        \* PromptDecisionKey values (generation, exe, access, reason)
    Auths,       \* AncestryAuthorization values (helper exe, owner ancestor)
    Pairs,       \* AncestryAuthorizationKey values (helper exe, owner exe)
    NoKey, NoAuth, Overflow,
    OpenerOf,    \* the process that makes an access
    HelperOf,    \* the generation a key names
    OwnerOf,     \* the generation of an authorization's owner ancestor
    PairOf,      \* AncestryAuthorization::key
    Views,       \* what evaluating an event may yield, see View
    Default,     \* Policy::default_decision: "Allow" iff fail_open
    QueueLimit,  \* fanotify's max_queued_events
    BatchLimit,  \* events that fit the read buffer
    Faults       \* the failures the environment may inject

Decisions == {"Allow", "Deny"}
NoDecision == "none"

(* What evaluate_guard_access and read_wayland_env find out about an event: *)
(* the policy's verdict ("Error" when evaluation fails), the cache key, the *)
(* ancestry authorization, and whether the backend could show a dialog.     *)
View == [verdict : Decisions \cup {"Prompt", "Error"},
         key : Keys \cup {NoKey}, auth : Auths \cup {NoAuth},
         session : BOOLEAN]

NoView == [verdict |-> NoDecision, key |-> NoKey, auth |-> NoAuth,
           session |-> FALSE]

ASSUME EventAssumption ==
    /\ PermEvents \subseteq Events
    /\ NoKey \notin Keys /\ NoAuth \notin Auths /\ Overflow \notin Events
    /\ OpenerOf \in [Events -> Procs]

ASSUME IdentityAssumption ==
    /\ HelperOf \in [Keys -> Procs]
    /\ OwnerOf \in [Auths -> Procs]
    /\ PairOf \in [Auths -> Pairs]

(* A key is only made for a Prompt verdict on an identified process, and    *)
(* an authorization only beside a key; identification can always fail.      *)
ASSUME ViewAssumption ==
    /\ Views \in [Events -> SUBSET View]
    /\ \A e \in Events :
        /\ \E v \in Views[e] : v.key = NoKey
        /\ \A v \in Views[e] :
            /\ v.key # NoKey => v.verdict = "Prompt" /\ HelperOf[v.key] = OpenerOf[e]
            /\ v.auth # NoAuth => v.key # NoKey

ASSUME ParameterAssumption ==
    /\ Default \in Decisions
    /\ QueueLimit \in Nat \ {0} /\ BatchLimit \in Nat \ {0}
    /\ Faults \subseteq {"respond", "wake", "panic", "loop", "kill"}

VARIABLES
    queue,           \* the kernel's unread events
    access,          \* the fate of each access
    held,            \* events whose descriptor is open in the guard
    gone,            \* process generations no longer in /proc
    pc,              \* the guard thread
    ready,           \* what poll reported, until the prompts are served
    batch,           \* events read and not yet handled
    pending,         \* PromptCoordinator::pending
    pendingByKey,    \* PromptCoordinator::pending_by_key
    nextId,          \* PromptCoordinator::next_id
    decisions,       \* PromptDecisionCache::decisions
    authorizations,  \* PromptDecisionCache::ancestry_authorizations
    jobs,            \* the job channel
    completions,     \* the completion channel
    wakeBytes,       \* bytes in the wake socket
    worker,          \* the prompt thread
    hand,            \* the job the worker took, at most one
    outcome,         \* its PromptOutcome
    view,            \* history: the view on which an event was decided
    told             \* history: every answer of the backend

kernelVars == <<queue, access, held>>
coordVars == <<pending, pendingByKey, nextId, decisions, authorizations>>
loopVars == <<pc, ready, batch>>
channelVars == <<jobs, completions, wakeBytes>>
workerVars == <<worker, hand, outcome>>
historyVars == <<view, told>>
vars == <<kernelVars, gone, coordVars, loopVars, channelVars, workerVars,
          historyVars>>

(* "waiting": the opener is blocked.  "Allow"/"Deny": the guard answered.   *)
(* "passed": let through by the kernel, without the guard.  "withdrawn":    *)
(* the opener was killed before the guard read the event.                   *)
AccessState == Decisions \cup {"none", "waiting", "noticed", "passed", "withdrawn"}

Job == [id : Nat, key : Keys \cup {NoKey}, auth : Auths \cup {NoAuth},
        event : Events]
Failure == [decision |-> NoDecision, explicit |-> FALSE]
Outcome == [decision : Decisions, explicit : BOOLEAN] \cup {Failure}
Completion == [id : Nat, outcome : Outcome]
Pending == [key : Keys \cup {NoKey}, auth : Auths \cup {NoAuth},
            events : SUBSET Events]

LoopPc == {"poll", "drainWake", "drainChannel", "read", "handle", "drop",
           "join", "exited"}
WorkerPc == {"recv", "check", "ask", "send", "wake", "dropWriter",
             "dropSender", "dropReceiver", "stopped"}

Running == pc \notin {"drop", "join", "exited"}
CoordinatorDropped == pc \in {"join", "exited"}
(* The worker's parameters are dropped last to first: the wake socket, the  *)
(* completion sender, the job receiver.                                     *)
WriterClosed == worker \in {"dropSender", "dropReceiver", "stopped"}
SenderClosed == worker \in {"dropReceiver", "stopped"}
ReceiverClosed == worker = "stopped"

Idle == [fanotify |-> FALSE, closed |-> FALSE]

Init ==
    /\ queue = <<>> /\ access = [e \in Events |-> "none"] /\ held = {}
    /\ gone = {}
    /\ pc = "poll" /\ batch = <<>>
    /\ ready = Idle
    /\ pending = [i \in {} |-> {}] /\ pendingByKey = [k \in Keys |-> {}]
    /\ nextId = 0
    /\ decisions = [k \in Keys |-> NoDecision] /\ authorizations = {}
    /\ jobs = <<>> /\ completions = <<>> /\ wakeBytes = 0
    /\ worker = "recv" /\ hand = <<>> /\ outcome = Failure
    /\ view = [e \in Events |-> NoView] /\ told = {}

-----------------------------------------------------------------------------
(* The environment: the kernel and the processes that open files.           *)

(* An access is reported.  When the queue is full the kernel lets it pass   *)
(* and leaves one overflow marker.                                          *)
Raise(e) ==
    /\ pc # "exited" /\ access[e] = "none" /\ OpenerOf[e] \notin gone
    /\ IF Len(queue) < QueueLimit
       THEN /\ queue' = Append(queue, e)
            /\ access' = [access EXCEPT ![e] =
                   IF e \in PermEvents THEN "waiting" ELSE "noticed"]
       ELSE /\ queue' = IF Overflow \in ToSet(queue) THEN queue
                        ELSE Append(queue, Overflow)
            /\ access' = [access EXCEPT ![e] = "passed"]
    /\ UNCHANGED <<held, gone, coordVars, loopVars, channelVars, workerVars,
                   historyVars>>

(* A blocked opener is killed before its event was read: the kernel takes   *)
(* the event back out of the queue.                                         *)
Withdraw(i) ==
    /\ "kill" \in Faults /\ i \in DOMAIN queue
    /\ queue[i] \in PermEvents
    /\ queue' = RemoveAt(queue, i)
    /\ access' = [access EXCEPT ![queue[i]] = "withdrawn"]
    /\ UNCHANGED <<held, gone, coordVars, loopVars, channelVars, workerVars,
                   historyVars>>

(* A process disappears.  It cannot while one of its threads is blocked on  *)
(* an unread event; once the event was read, killing it is enough.          *)
ProcessGone(p) ==
    /\ p \notin gone
    /\ \A e \in PermEvents : e \in ToSet(queue) => OpenerOf[e] # p
    /\ gone' = gone \cup {p}
    /\ UNCHANGED <<kernelVars, coordVars, loopVars, channelVars, workerVars,
                   historyVars>>

-----------------------------------------------------------------------------
(* The guard thread.                                                        *)

(* respond_and_close_event on each event of es: the permission events are   *)
(* answered with d, except those whose write fails, and every descriptor is *)
(* closed.                                                                  *)
RespondWithoutClose(es, d, failed) ==
    /\ access' = [e \in Events |->
           IF e \in (es \cap PermEvents) \ failed THEN d ELSE access[e]]
    /\ UNCHANGED held

Respond(es, d, failed) ==
    /\ access' = [e \in Events |->
           IF e \in (es \cap PermEvents) \ failed THEN d ELSE access[e]]
    /\ held' = held \ es

(* The responses to es that may fail. *)
WriteFailures(es) ==
    IF "respond" \in Faults THEN SUBSET (es \cap PermEvents) ELSE {{}}

(* Variant: the loop sleeps while a dialog is open. *)
PollAfterPrompt ==
    /\ pc = "poll" /\ queue # <<>> /\ worker # "ask"
    /\ pc' = "read"
    /\ UNCHANGED <<kernelVars, gone, coordVars, ready, batch, channelVars,
                   workerVars, historyVars>>

Poll ==
    /\ pc = "poll"
    /\ queue # <<>> \/ wakeBytes > 0 \/ WriterClosed
    /\ IF wakeBytes > 0 \/ WriterClosed
       THEN /\ ready' = [fanotify |-> queue # <<>>, closed |-> WriterClosed]
            /\ pc' = "drainWake"
       ELSE pc' = "read" /\ UNCHANGED ready
    /\ UNCHANGED <<kernelVars, gone, coordVars, batch, channelVars, workerVars,
                   historyVars>>

DrainWake ==
    /\ pc = "drainWake"
    /\ wakeBytes' = 0
    /\ ready' = [ready EXCEPT !.closed = @ \/ WriterClosed]
    /\ pc' = "drainChannel"
    /\ UNCHANGED <<kernelVars, gone, coordVars, batch, jobs, completions,
                   workerVars, historyVars>>

(* cache_prompt_decision: nothing is cached without a key. *)
CacheDecisionUnkeyed(key, d) ==
    [k \in Keys \cup {key} |-> IF k = key THEN d ELSE decisions[k]]

CacheDecision(key, d) ==
    IF key = NoKey THEN decisions ELSE [decisions EXCEPT ![key] = d]

(* cache_prompt_answer: only an explicit Allow authorizes the pair. *)
CacheAnyAnswer(p, o) ==
    /\ decisions' = CacheDecision(p.key, o.decision)
    /\ authorizations' = IF o.explicit /\ p.auth # NoAuth
           THEN authorizations \cup {PairOf[p.auth]} ELSE authorizations

CacheAnswer(p, o) ==
    /\ decisions' = CacheDecision(p.key, o.decision)
    /\ authorizations' =
           IF o.explicit /\ o.decision = "Allow" /\ p.auth # NoAuth
           THEN authorizations \cup {PairOf[p.auth]} ELSE authorizations

RememberFailure(p, o) ==
    CacheAnswer(p, IF o = Failure THEN [decision |-> Default, explicit |-> FALSE]
                   ELSE o)

Remember(p, o) ==
    IF o = Failure THEN UNCHANGED <<decisions, authorizations>>
    ELSE CacheAnswer(p, o)

(* The request goes, and with it its entry in pending_by_key. *)
ForgetRequestOnly(id) ==
    /\ pending' = [i \in DOMAIN pending \ {id} |-> pending[i]]
    /\ UNCHANGED pendingByKey

Forget(id) ==
    /\ pending' = [i \in DOMAIN pending \ {id} |-> pending[i]]
    /\ pendingByKey' = [k \in Keys |->
           IF k = pending[id].key THEN {} ELSE pendingByKey[k]]

(* Variant: one completion is taken per wake-up. *)
CompleteOnePrompt(failed) ==
    /\ pc = "drainChannel" /\ completions # <<>>
    /\ LET c == Head(completions)
           p == pending[c.id]
           d == IF c.outcome = Failure THEN Default ELSE c.outcome.decision
       IN /\ c.id \in DOMAIN pending
          /\ Forget(c.id)
          /\ Remember(p, c.outcome)
          /\ failed \in WriteFailures(p.events)
          /\ Respond(p.events, d, failed)
    /\ completions' = Tail(completions)
    /\ pc' = IF failed # {} THEN "drop"
              ELSE IF ready.fanotify THEN "read" ELSE "poll"
    /\ UNCHANGED <<queue, gone, nextId, ready, batch, jobs, wakeBytes,
                   workerVars, historyVars>>

(* drain_completion_channel takes one completion; complete_prompt forgets   *)
(* the request, caches an answer and releases every event that waited on    *)
(* it.  Its two internal errors (an unknown id, a key mapped elsewhere) are *)
(* the states IndexAgrees and CompletionsKnown exclude.                     *)
CompletePrompt(failed) ==
    /\ pc = "drainChannel" /\ completions # <<>>
    /\ LET c == Head(completions)
           p == pending[c.id]
           d == IF c.outcome = Failure THEN Default ELSE c.outcome.decision
       IN /\ c.id \in DOMAIN pending
          /\ Forget(c.id)
          /\ Remember(p, c.outcome)
          /\ failed \in WriteFailures(p.events)
          /\ Respond(p.events, d, failed)
    /\ completions' = Tail(completions)
    /\ pc' = IF failed = {} THEN pc ELSE "drop"
    /\ UNCHANGED <<queue, gone, nextId, ready, batch, jobs, wakeBytes,
                   workerVars, historyVars>>

(* Variant: the end of the worker goes unnoticed. *)
ChannelDrainedOnly ==
    /\ pc = "drainChannel" /\ completions = <<>>
    /\ pc' = IF ready.fanotify THEN "read" ELSE "poll"
    /\ ready' = Idle
    /\ UNCHANGED <<kernelVars, gone, coordVars, batch, channelVars, workerVars,
                   historyVars>>

ChannelDrained ==
    /\ pc = "drainChannel" /\ completions = <<>>
    /\ ~(ready.closed \/ SenderClosed)
    /\ pc' = IF ready.fanotify THEN "read" ELSE "poll"
    /\ ready' = Idle
    /\ UNCHANGED <<kernelVars, gone, coordVars, batch, channelVars, workerVars,
                   historyVars>>

(* fail_pending_prompts: the worker stopped, every request gets its default *)
(* and the loop ends.  A failed write ends it earlier: requests after it    *)
(* are dropped unanswered.                                                  *)
FailPending(done, failed) ==
    /\ pc = "drainChannel" /\ completions = <<>>
    /\ ready.closed \/ SenderClosed
    /\ done \subseteq DOMAIN pending
    /\ LET es == UNION {pending[i].events : i \in done}
       IN failed \in WriteFailures(es) /\ Respond(es, Default, failed)
    /\ IF failed = {} THEN done = DOMAIN pending
       ELSE \E i \in done : failed \subseteq pending[i].events
    /\ pending' = [i \in {} |-> {}]
    /\ pendingByKey' = [k \in Keys |-> {}]
    /\ pc' = "drop"
    /\ UNCHANGED <<queue, gone, nextId, decisions, authorizations, ready,
                   batch, channelVars, workerVars, historyVars>>

Smaller(m, n) == IF m < n THEN m ELSE n

(* read_event_batch: the guard's descriptor is blocking, so with nothing    *)
(* queued any more this step waits.                                         *)
ReadBatch ==
    /\ pc = "read" /\ queue # <<>>
    /\ LET n == Smaller(Len(queue), BatchLimit)
       IN /\ batch' = SubSeq(queue, 1, n)
          /\ queue' = SubSeq(queue, n + 1, Len(queue))
    /\ held' = held \cup (ToSet(batch') \ {Overflow})
    /\ pc' = "handle"
    /\ UNCHANGED <<access, gone, coordVars, ready, channelVars, workerVars,
                   historyVars>>

AfterEvent(ok) ==
    /\ batch' = Tail(batch)
    /\ pc' = IF ~ok THEN "drop" ELSE IF Len(batch) = 1 THEN "poll" ELSE "handle"

(* The views of e that can still be had: a process that is gone cannot be   *)
(* identified.                                                              *)
ViewsNow(e) ==
    {v \in Views[e] : /\ v.key # NoKey => HelperOf[v.key] \notin gone
                      /\ v.auth # NoAuth => OwnerOf[v.auth] \notin gone}

Handling(e, v) ==
    /\ pc = "handle" /\ Head(batch) = e /\ e # Overflow
    /\ v \in ViewsNow(e)
    /\ view' = [view EXCEPT ![e] = v]

(* What immediate_prompt_decision knows without asking, in its order: the   *)
(* policy's own verdict, an ancestry authorization, a cached decision.      *)
Settled(v) ==
    IF v.verdict # "Prompt" THEN v.verdict
    ELSE IF v.auth # NoAuth /\ PairOf[v.auth] \in authorizations THEN "Allow"
    ELSE IF v.key # NoKey THEN decisions[v.key]
    ELSE NoDecision

(* The last resort before asking: no dialog can be shown.  Variant: that is *)
(* looked at first. *)
NoSessionFirst(v) == v.verdict = "Prompt" /\ ~v.session
NoSession(v) == Settled(v) = NoDecision /\ ~v.session
MustAsk(v) == Settled(v) = NoDecision /\ v.session

HandleSettled(e, v, failed) ==
    /\ Handling(e, v)
    /\ Settled(v) \in Decisions
    /\ failed \in WriteFailures({e})
    /\ Respond({e}, Settled(v), failed)
    /\ AfterEvent(failed = {})
    /\ UNCHANGED <<queue, gone, coordVars, ready, channelVars, workerVars, told>>

HandleNoSession(e, v, failed) ==
    /\ Handling(e, v)
    /\ NoSession(v)
    /\ decisions' = CacheDecision(v.key, Default)
    /\ failed \in WriteFailures({e})
    /\ Respond({e}, Default, failed)
    /\ AfterEvent(failed = {})
    /\ UNCHANGED <<queue, gone, pending, pendingByKey, nextId, authorizations,
                   ready, channelVars, workerVars, told>>

(* The request already pending for a key, at most one. *)
NoPromptFor(key) == {}

PromptFor(key) == IF key = NoKey THEN {} ELSE pendingByKey[key]

(* append_pending_event: the same question is already out. *)
JoinPrompt(e, v, id) ==
    /\ Handling(e, v)
    /\ MustAsk(v)
    /\ id \in PromptFor(v.key)
    /\ pending' = [pending EXCEPT ![id].events = @ \cup {e}]
    /\ AfterEvent(TRUE)
    /\ UNCHANGED <<kernelVars, gone, pendingByKey, nextId, decisions,
                   authorizations, ready, channelVars, workerVars, told>>

(* allocate_id; its overflow of 64 bits is out of reach. *)
SameId == nextId

IdAfter == nextId + 1

(* start_prompt and send_prompt_job. *)
StartPrompt(e, v) ==
    /\ Handling(e, v)
    /\ MustAsk(v) /\ PromptFor(v.key) = {} /\ ~ReceiverClosed
    /\ nextId' = IdAfter
    /\ jobs' = Append(jobs, [id |-> nextId, key |-> v.key, auth |-> v.auth,
                             event |-> e])
    /\ pending' = [i \in DOMAIN pending \cup {nextId} |->
           IF i = nextId THEN [key |-> v.key, auth |-> v.auth, events |-> {e}]
           ELSE pending[i]]
    /\ pendingByKey' = [k \in Keys |->
           IF k = v.key THEN {nextId} ELSE pendingByKey[k]]
    /\ AfterEvent(TRUE)
    /\ UNCHANGED <<kernelVars, gone, decisions, authorizations, ready,
                   completions, wakeBytes, workerVars, told>>

(* The job cannot be sent: this event gets its default and the loop ends;   *)
(* requests that are pending are left to the kernel.                        *)
SendFails(e, v, failed) ==
    /\ Handling(e, v)
    /\ MustAsk(v) /\ PromptFor(v.key) = {} /\ ReceiverClosed
    /\ nextId' = IdAfter
    /\ failed \in WriteFailures({e})
    /\ Respond({e}, Default, failed)
    /\ AfterEvent(FALSE)
    /\ UNCHANGED <<queue, gone, pending, pendingByKey, decisions,
                   authorizations, ready, channelVars, workerVars, told>>

(* The target or the policy cannot be evaluated: the descriptor is closed   *)
(* without a response and the loop ends.                                    *)
HandleError(e, v) ==
    /\ Handling(e, v)
    /\ v.verdict = "Error"
    /\ held' = held \ {e}
    /\ AfterEvent(FALSE)
    /\ UNCHANGED <<queue, access, gone, coordVars, ready, channelVars,
                   workerVars, told>>

(* ensure_event_descriptor: an overflow marker ends the loop. *)
HandleOverflowIgnored ==
    /\ pc = "handle" /\ Head(batch) = Overflow
    /\ AfterEvent(TRUE)
    /\ UNCHANGED <<kernelVars, gone, coordVars, ready, channelVars, workerVars,
                   historyVars>>

HandleOverflow ==
    /\ pc = "handle" /\ Head(batch) = Overflow
    /\ AfterEvent(FALSE)
    /\ UNCHANGED <<kernelVars, gone, coordVars, ready, channelVars, workerVars,
                   historyVars>>

(* poll, the wake socket or the fanotify descriptor report an error. *)
LoopError ==
    /\ "loop" \in Faults /\ pc \in {"poll", "drainWake", "read"}
    /\ pc' = "drop"
    /\ UNCHANGED <<kernelVars, gone, coordVars, ready, batch, channelVars,
                   workerVars, historyVars>>

(* drop(coordinator): its channel ends and its wake socket close, its       *)
(* requests are forgotten with their descriptors still open.                *)
DropCoordinator ==
    /\ pc = "drop"
    /\ pc' = "join"
    /\ pending' = [i \in {} |-> {}] /\ pendingByKey' = [k \in Keys |-> {}]
    /\ completions' = <<>> /\ wakeBytes' = 0
    /\ UNCHANGED <<kernelVars, gone, nextId, decisions, authorizations, ready,
                   batch, jobs, workerVars, historyVars>>

(* The worker is joined, run returns an error and the process ends; the     *)
(* kernel lets every access pass that was still waiting.                    *)
Exit ==
    /\ pc = "join" /\ worker = "stopped"
    /\ pc' = "exited"
    /\ queue' = <<>> /\ held' = {} /\ batch' = <<>>
    /\ access' = [e \in Events |->
           IF access[e] = "waiting" THEN "passed" ELSE access[e]]
    /\ UNCHANGED <<gone, coordVars, ready, channelVars, workerVars, historyVars>>

-----------------------------------------------------------------------------
(* The prompt thread.                                                       *)

WorkerReceive ==
    /\ worker = "recv" /\ jobs # <<>>
    /\ hand' = <<Head(jobs)>> /\ jobs' = Tail(jobs)
    /\ worker' = "check"
    /\ UNCHANGED <<kernelVars, gone, coordVars, loopVars, completions,
                   wakeBytes, outcome, historyVars>>

(* recv fails only when the sender is gone and the channel is empty. *)
WorkerFinish ==
    /\ worker = "recv" /\ jobs = <<>> /\ CoordinatorDropped
    /\ worker' = "dropWriter"
    /\ UNCHANGED <<kernelVars, gone, coordVars, loopVars, channelVars, hand,
                   outcome, historyVars>>

Stale(job) ==
    \/ job.key # NoKey /\ HelperOf[job.key] \in gone
    \/ job.auth # NoAuth /\ OwnerOf[job.auth] \in gone

WorkerCheckSkips ==
    /\ worker = "check"
    /\ IF Stale(hand[1]) THEN worker' = "recv" /\ hand' = <<>>
       ELSE worker' = "ask" /\ UNCHANGED hand
    /\ UNCHANGED <<kernelVars, gone, coordVars, loopVars, channelVars, outcome,
                   historyVars>>

WorkerCheck ==
    /\ worker = "check"
    /\ IF Stale(hand[1]) THEN worker' = "send" /\ outcome' = Failure
       ELSE worker' = "ask" /\ UNCHANGED outcome
    /\ UNCHANGED <<kernelVars, gone, coordVars, loopVars, channelVars, hand,
                   historyVars>>

(* What a prompt backend returns: a user's answer, the default (timeout,    *)
(* no authd, a strange exit status), or an error.                           *)
BackendOutcomes == {o \in Outcome : o.explicit \/ o.decision \in {Default, NoDecision}}

WorkerAnswer(o) ==
    /\ worker = "ask" /\ o \in BackendOutcomes
    /\ outcome' = o
    /\ worker' = "send"
    /\ told' = IF o = Failure THEN told ELSE told \cup
           {[event |-> hand[1].event, key |-> hand[1].key, auth |-> hand[1].auth,
             outcome |-> o]}
    /\ UNCHANGED <<kernelVars, gone, coordVars, loopVars, channelVars, hand, view>>

WorkerPanic ==
    /\ "panic" \in Faults /\ worker = "ask"
    /\ worker' = "dropWriter" /\ hand' = <<>>
    /\ UNCHANGED <<kernelVars, gone, coordVars, loopVars, channelVars, outcome,
                   historyVars>>

WorkerSend ==
    /\ worker = "send"
    /\ IF CoordinatorDropped
       THEN worker' = "dropWriter" /\ UNCHANGED completions
       ELSE /\ completions' = Append(completions,
                   [id |-> hand[1].id, outcome |-> outcome])
            /\ worker' = "wake"
    /\ hand' = <<>> /\ outcome' = Failure
    /\ UNCHANGED <<kernelVars, gone, coordVars, loopVars, jobs, wakeBytes,
                   historyVars>>

WorkerWake ==
    /\ worker = "wake"
    /\ \/ /\ ~CoordinatorDropped
          /\ wakeBytes' = wakeBytes + 1 /\ worker' = "recv"
       \/ /\ CoordinatorDropped \/ "wake" \in Faults
          /\ worker' = "dropWriter" /\ UNCHANGED wakeBytes
    /\ UNCHANGED <<kernelVars, gone, coordVars, loopVars, jobs, completions,
                   hand, outcome, historyVars>>

WorkerDrop ==
    /\ \/ worker = "dropWriter" /\ worker' = "dropSender" /\ UNCHANGED jobs
       \/ worker = "dropSender" /\ worker' = "dropReceiver" /\ UNCHANGED jobs
       \/ worker = "dropReceiver" /\ worker' = "stopped" /\ jobs' = <<>>
    /\ UNCHANGED <<kernelVars, gone, coordVars, loopVars, completions,
                   wakeBytes, hand, outcome, historyVars>>

-----------------------------------------------------------------------------
Environment ==
    \/ \E e \in Events : Raise(e)
    \/ \E i \in DOMAIN queue : Withdraw(i)
    \/ \E p \in Procs : ProcessGone(p)

HandleEvent ==
    \/ \E e \in Events : \E v \in Views[e] :
        \/ \E failed \in WriteFailures({e}) :
            \/ HandleSettled(e, v, failed)
            \/ HandleNoSession(e, v, failed)
            \/ SendFails(e, v, failed)
        \/ \E id \in DOMAIN pending : JoinPrompt(e, v, id)
        \/ StartPrompt(e, v)
        \/ HandleError(e, v)
    \/ HandleOverflow

(* The guard thread while nothing fails under it. *)
Loop ==
    \/ Poll \/ DrainWake \/ ChannelDrained \/ ReadBatch \/ HandleEvent
    \/ \E failed \in SUBSET PermEvents : CompletePrompt(failed)
    \/ \E done \in SUBSET DOMAIN pending, failed \in SUBSET PermEvents :
           FailPending(done, failed)
    \/ DropCoordinator \/ Exit

(* The worker apart from what the prompt backend decides. *)
Worker ==
    \/ WorkerReceive \/ WorkerFinish \/ WorkerCheck \/ WorkerSend
    \/ WorkerWake \/ WorkerDrop

Backend == \E o \in BackendOutcomes : WorkerAnswer(o)

Next == Environment \/ Loop \/ LoopError \/ Worker \/ Backend \/ WorkerPanic

Spec == Init /\ [][Next]_vars

(* The scheduler runs both threads; a step of the guard thread is only ever *)
(* delayed by poll and by a blocking read, which Loop's guards express.     *)
ServiceSpec == Spec /\ WF_vars(Loop) /\ WF_vars(Worker)

(* Every backend returns in bounded time: authd's socket has read and write *)
(* timeouts, a prompt command is killed at its deadline.                    *)
FairSpec == ServiceSpec /\ WF_vars(Backend)

-----------------------------------------------------------------------------
TypeOK ==
    /\ queue \in Seq(Events \cup {Overflow})
    /\ access \in [Events -> AccessState]
    /\ held \subseteq Events
    /\ gone \subseteq Procs
    /\ pc \in LoopPc
    /\ ready \in [fanotify : BOOLEAN, closed : BOOLEAN]
    /\ batch \in Seq(Events \cup {Overflow})
    /\ pc = "handle" => batch # <<>>
    /\ DOMAIN pending \subseteq Nat /\ pending \in [DOMAIN pending -> Pending]
    /\ pendingByKey \in [Keys -> SUBSET Nat]
    /\ nextId \in Nat
    /\ decisions \in [Keys -> Decisions \cup {NoDecision}]
    /\ authorizations \subseteq Pairs
    /\ jobs \in Seq(Job) /\ completions \in Seq(Completion) /\ wakeBytes \in Nat
    /\ worker \in WorkerPc /\ hand \in Seq(Job) /\ outcome \in Outcome
    /\ Len(hand) = IF worker \in {"check", "ask", "send"} THEN 1 ELSE 0
    /\ view \in [Events -> View \cup {NoView}]
    /\ told \subseteq [event : Events, key : Keys \cup {NoKey},
                      auth : Auths \cup {NoAuth}, outcome : Outcome]

WaitingOn(id) == pending[id].events

(* While the loop runs, every open event descriptor has exactly one owner,  *)
(* a slot of the batch or one pending request, and every blocked opener     *)
(* has its event unread or among those descriptors: no opener is forgotten, *)
(* none is answered twice, no descriptor is closed twice.                   *)
DescriptorsOwned ==
    Running =>
        /\ held = (ToSet(batch) \ {Overflow})
                    \cup UNION {WaitingOn(i) : i \in DOMAIN pending}
        /\ \A i \in DOMAIN pending :
            /\ WaitingOn(i) \cap ToSet(batch) = {}
            /\ \A j \in DOMAIN pending \ {i} : WaitingOn(i) \cap WaitingOn(j) = {}
        /\ \A m, n \in DOMAIN batch : batch[m] = batch[n] => m = n
        /\ \A e \in PermEvents :
            access[e] = "waiting" <=> e \in ToSet(queue) \cup held

(* pending_by_key is the inverse of the keys in pending: no duplicate       *)
(* question per key, append_pending_event never misses its request and      *)
(* remove_pending_key never finds another id.                               *)
IndexAgrees ==
    \A k \in Keys : pendingByKey[k] = {i \in DOMAIN pending : pending[i].key = k}
                     /\ \A i, j \in pendingByKey[k] : i = j

(* The ids in the worker's channels and hand, oldest first. *)
Stages ==
    [n \in DOMAIN completions |-> completions[n].id]
        \o [n \in DOMAIN hand |-> hand[n].id] \o [n \in DOMAIN jobs |-> jobs[n].id]

(* Requests are answered in the order they were made, each is in one stage, *)
(* and every completion finds its request.                                  *)
CompletionsKnown ==
    Running =>
        /\ \A m, n \in DOMAIN Stages : m < n => Stages[m] < Stages[n]
        /\ \A n \in DOMAIN completions : completions[n].id \in DOMAIN pending

(* As long as the worker lives no request it was sent is lost. *)
NoRequestLost ==
    Running /\ ~WriterClosed /\ worker # "dropWriter" =>
        DOMAIN pending = ToSet(Stages)

(* The guard never goes to sleep over an answer: outside the drain of the   *)
(* channel an untaken completion is announced by a byte in the socket, by   *)
(* a worker about to write one, or by a worker about to hang up.            *)
NoLostWakeup ==
    Running /\ pc # "drainChannel" /\ completions # <<>> =>
        wakeBytes > 0 \/ worker \in {"wake", "dropWriter"} \/ WriterClosed

Answered(t, v, e) ==
    \/ t.event = e
    \/ t.key # NoKey /\ t.key = v.key

(* An opener is let through or refused by the guard only for a reason of    *)
(* its own: the verdict of the policy on that very access, the configured   *)
(* default, an answer to a prompt about it or about its key, or, to allow,  *)
(* an explicit Allow for its pair of helper and owner.  Answers are never   *)
(* delivered to another request, whatever the order of the two threads.     *)
AnswerJustified ==
    \A e \in Events : access[e] \in Decisions =>
        \/ view[e].verdict = access[e]
        \/ /\ view[e].verdict = "Prompt"
           /\ \/ access[e] = Default
              \/ \E t \in told :
                    /\ t.outcome.decision = access[e]
                    /\ \/ Answered(t, view[e], e)
                       \/ /\ access[e] = "Allow" /\ t.outcome.explicit
                          /\ t.auth # NoAuth /\ view[e].auth # NoAuth
                          /\ PairOf[t.auth] = PairOf[view[e].auth]

(* Nothing enters the caches but what was decided: a cached decision was    *)
(* the backend's answer for that key or the default of an access that could *)
(* not be asked about; a pair is authorized only by a user's own Allow to a *)
(* prompt that named it.  Failures, stale prompts and lost workers leave no *)
(* trace.                                                                   *)
CacheJustified ==
    /\ \A k \in Keys : decisions[k] # NoDecision =>
        \/ \E t \in told : t.key = k /\ t.outcome.decision = decisions[k]
        \/ /\ decisions[k] = Default
           /\ \E e \in Events : view[e].key = k /\ ~view[e].session
    /\ \A q \in authorizations : \E t \in told :
        /\ t.auth # NoAuth /\ PairOf[t.auth] = q
        /\ t.outcome = [decision |-> "Allow", explicit |-> TRUE]

(* Once the backend has answered for a key, no dialog about it is shown     *)
(* again, not even for an access that arrives before the answer is taken.   *)
AskedOncePerKey ==
    worker = "ask" /\ hand[1].key # NoKey =>
        \A t \in told : t.key # hand[1].key

(* A cached decision stays for the life of the guard unless a dialog about  *)
(* that key is answered after it was cached.                                *)
CacheOnlyAnswered ==
    [][\A k \in Keys : decisions[k] # NoDecision /\ decisions'[k] # decisions[k] =>
          \E t \in told : t.key = k /\ t.outcome.decision = decisions'[k]]_vars

(* Every blocked opener is released in the end. *)
Resolved ==
    \A e \in PermEvents : access[e] = "waiting" ~> access[e] # "waiting"

(* A dialog that is never answered does not hold up the openers the policy  *)
(* can settle: the prompt helper can read watched files.                    *)
ServedWhilePrompting ==
    \A e \in PermEvents :
        (\A v \in Views[e] : v.verdict \in Decisions) =>
            (access[e] = "waiting" ~> access[e] # "waiting")

(* Lost events and a lost worker end the guard instead of leaving it to     *)
(* run without its coverage.                                                *)
OverflowFatal == Overflow \in ToSet(queue) ~> pc = "exited"
WorkerLossFatal == worker = "stopped" ~> pc = "exited"

(* docs/wiki/systems/config-guard.md:9 and :42: an access that was put to  *)
(* the backend is then permitted or denied; killing a blocked process       *)
(* leaves no other waiting behind it.                                       *)
AnswerDelivered ==
    \A e \in PermEvents :
        (\E t \in told : t.event = e) ~> access[e] # "waiting"
=============================================================================
