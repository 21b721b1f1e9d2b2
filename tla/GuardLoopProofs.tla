--------------------------- MODULE GuardLoopProofs ---------------------------
(* What holds of the guard for any number of events, processes, keys and    *)
(* prompts, any queue limit and any set of faults.                          *)
EXTENDS GuardLoop, TLAPS

Message == Events \cup {Overflow}

(* Sequence facts the step proofs cite. *)
LEMMA TailInSeq ==
    ASSUME NEW S, NEW s \in Seq(S), s # <<>>
    PROVE  /\ Head(s) \in S /\ Tail(s) \in Seq(S)
           /\ Len(Tail(s)) = Len(s) - 1
           /\ Len(s) # 1 => Tail(s) # <<>>
<1>1. Len(s) \in Nat /\ Len(s) # 0 /\ Len(Tail(s)) = Len(s) - 1
  OBVIOUS
<1>2. Tail(s) = <<>> => Len(Tail(s)) = 0
  <2>1. Len(<<>>) = 0
    OBVIOUS
  <2> QED
    BY <2>1, Zenon
<1>3. Len(s) # 1 => Tail(s) # <<>>
  BY <1>1, <1>2
<1> QED
  BY <1>1, <1>3

(* Taking an event out of the queue keeps its type. *)
LEMMA RemoveAtInSeq ==
    ASSUME NEW S, NEW s \in Seq(S), NEW i \in DOMAIN s
    PROVE  RemoveAt(s, i) \in Seq(S)
BY DEF RemoveAt

(* A batch and what stays in the queue are both sequences of events. *)
LEMMA SubSeqInSeq ==
    ASSUME NEW S, NEW s \in Seq(S), NEW n \in 0 .. Len(s)
    PROVE  SubSeq(s, 1, n) \in Seq(S) /\ SubSeq(s, n + 1, Len(s)) \in Seq(S)
OBVIOUS

(* Answers keep the fate of every access and the open descriptors typed. *)
LEMMA RespondType ==
    ASSUME TypeOK, NEW es, NEW d \in Decisions, NEW failed, Respond(es, d, failed)
    PROVE  access' \in [Events -> AccessState] /\ held' \subseteq Events
BY DEF TypeOK, Respond, AccessState

(* Caching a decision, or none for want of a key, keeps the cache typed.    *)
LEMMA CacheDecisionType ==
    ASSUME TypeOK, NEW key \in Keys \cup {NoKey},
           NEW d \in Decisions \cup {NoDecision}
    PROVE  CacheDecision(key, d) \in [Keys -> Decisions \cup {NoDecision}]
BY DEF TypeOK, CacheDecision

(* Evaluating the event at the head of the batch yields a typed view.       *)
LEMMA HandlingType ==
    ASSUME TypeOK, NEW e \in Events, NEW v \in Views[e], Handling(e, v)
    PROVE  /\ v \in View
           /\ view' \in [Events -> View \cup {NoView}]
           /\ batch # <<>> /\ Tail(batch) \in Seq(Message)
BY ViewAssumption, TailInSeq DEF TypeOK, Handling, Message

(* The loop goes on with the rest of the batch only if there is one.        *)
LEMMA AfterEventType ==
    ASSUME TypeOK, NEW ok \in BOOLEAN, pc = "handle", AfterEvent(ok)
    PROVE  /\ batch' \in Seq(Message)
           /\ pc' \in LoopPc
           /\ pc' = "handle" => batch' # <<>>
<1>1. batch \in Seq(Message) /\ batch # <<>>
  BY DEF TypeOK, Message
<1>2. Tail(batch) \in Seq(Message) /\ Len(Tail(batch)) = Len(batch) - 1
  BY <1>1, TailInSeq
<1>3. Len(batch) # 1 => Tail(batch) # <<>>
  BY <1>1, TailInSeq
<1> QED
  BY <1>2, <1>3 DEF AfterEvent, LoopPc

(* The worker holds a job from receiving it until its answer is sent. *)
LEMMA InHand ==
    ASSUME TypeOK, worker \in {"check", "ask", "send"}
    PROVE  hand[1] \in Job /\ hand = <<hand[1]>>
<1>1. hand \in Seq(Job) /\ Len(hand) = 1
  BY DEF TypeOK
<1> QED
  BY <1>1

(* Every operation keeps every variable in its type, however the two        *)
(* threads, the kernel and the backend interleave.                          *)
THEOREM TypeCorrect == Spec => []TypeOK
<1>1. Init => TypeOK
  BY DEF Init, TypeOK, AccessState, LoopPc, WorkerPc, Idle, Outcome, Failure
<1>2. TypeOK /\ [Next]_vars => TypeOK'
  <2> SUFFICES ASSUME TypeOK, [Next]_vars PROVE TypeOK'
    OBVIOUS
  <2> USE DEF kernelVars, coordVars, loopVars, channelVars, workerVars, historyVars
  <2>1. ASSUME NEW e \in Events, Raise(e) PROVE TypeOK'
    <3>1. access' \in [Events -> AccessState]
      BY <2>1 DEF TypeOK, Raise, AccessState
    <3>2. queue' \in Seq(Events \cup {Overflow})
      <4>1. Append(queue, e) \in Seq(Events \cup {Overflow})
        BY DEF TypeOK
      <4>2. queue \in Seq(Events \cup {Overflow})
            /\ Append(queue, Overflow) \in Seq(Events \cup {Overflow})
        BY DEF TypeOK
      <4> QED
        BY <2>1, <4>1, <4>2 DEF Raise
    <3> QED
      BY <2>1, <3>1, <3>2 DEF TypeOK, Raise
  <2>2. ASSUME NEW i \in DOMAIN queue, Withdraw(i) PROVE TypeOK'
    <3>1. RemoveAt(queue, i) \in Seq(Message)
      BY RemoveAtInSeq DEF TypeOK, Message
    <3> QED
      BY <2>2, <3>1 DEF TypeOK, Withdraw, AccessState, Message
  <2>3. ASSUME NEW p \in Procs, ProcessGone(p) PROVE TypeOK'
    BY <2>3 DEF TypeOK, ProcessGone
  <2>4. CASE Poll
    <3>1. /\ ready' \in [fanotify : BOOLEAN, closed : BOOLEAN]
          /\ pc' \in {"drainWake", "read"}
      <4>1. ready \in [fanotify : BOOLEAN, closed : BOOLEAN]
        BY DEF TypeOK
      <4>2. [fanotify |-> queue # <<>>, closed |-> WriterClosed]
              \in [fanotify : BOOLEAN, closed : BOOLEAN]
        BY DEF WriterClosed
      <4> QED
        BY <2>4, <4>1, <4>2 DEF Poll
    <3> QED
      BY <2>4, <3>1 DEF TypeOK, Poll, LoopPc
  <2>5. CASE DrainWake
    BY <2>5 DEF TypeOK, DrainWake, LoopPc, WriterClosed
  <2>6. CASE ChannelDrained
    BY <2>6 DEF TypeOK, ChannelDrained, LoopPc, Idle
  <2>7. CASE ReadBatch
    <3> DEFINE n == Smaller(Len(queue), BatchLimit)
    <3>1. queue \in Seq(Message) /\ queue # <<>> /\ n \in 1 .. Len(queue)
      BY <2>7, ParameterAssumption DEF TypeOK, ReadBatch, Smaller, Message
    <3>2. /\ SubSeq(queue, 1, n) \in Seq(Message) /\ SubSeq(queue, 1, n) # <<>>
          /\ SubSeq(queue, n + 1, Len(queue)) \in Seq(Message)
      BY <3>1, SubSeqInSeq
    <3>3. batch' = SubSeq(queue, 1, n) /\ queue' = SubSeq(queue, n + 1, Len(queue))
      BY <2>7 DEF ReadBatch
    <3>4. held' \subseteq Events
      <4>1. \A m \in DOMAIN batch' : batch'[m] \in Message
        BY <3>2, <3>3
      <4> QED
        BY <2>7, <4>1 DEF ReadBatch, TypeOK, ToSet, Message
    <3> QED
      BY <2>7, <3>2, <3>3, <3>4 DEF TypeOK, ReadBatch, LoopPc, Message
  <2>8. ASSUME NEW e \in Events, NEW v \in Views[e], NEW failed,
               HandleSettled(e, v, failed)
        PROVE  TypeOK'
    <3>1. pc = "handle" /\ Handling(e, v)
      BY <2>8 DEF HandleSettled, Handling
    <3>2. access' \in [Events -> AccessState] /\ held' \subseteq Events
      BY <2>8, RespondType DEF HandleSettled
    <3> QED
      BY <2>8, <3>1, <3>2, HandlingType, AfterEventType
      DEF TypeOK, HandleSettled, Message
  <2>9. ASSUME NEW e \in Events, NEW v \in Views[e], NEW failed,
               HandleNoSession(e, v, failed)
        PROVE  TypeOK'
    <3>1. pc = "handle" /\ Handling(e, v)
      BY <2>9 DEF HandleNoSession, Handling
    <3>2. access' \in [Events -> AccessState] /\ held' \subseteq Events
      BY <2>9, RespondType, ParameterAssumption DEF HandleNoSession
    <3>3. decisions' \in [Keys -> Decisions \cup {NoDecision}]
      BY <2>9, <3>1, HandlingType, CacheDecisionType, ParameterAssumption
      DEF HandleNoSession, View
    <3> QED
      BY <2>9, <3>1, <3>2, <3>3, HandlingType, AfterEventType
      DEF TypeOK, HandleNoSession, Message
  <2>10. ASSUME NEW e \in Events, NEW v \in Views[e], NEW failed,
                SendFails(e, v, failed)
         PROVE  TypeOK'
    <3>1. pc = "handle" /\ Handling(e, v)
      BY <2>10 DEF SendFails, Handling
    <3>2. access' \in [Events -> AccessState] /\ held' \subseteq Events
      BY <2>10, RespondType, ParameterAssumption DEF SendFails
    <3>3. nextId' \in Nat
      BY <2>10 DEF SendFails, TypeOK, IdAfter
    <3> QED
      BY <2>10, <3>1, <3>2, <3>3, HandlingType, AfterEventType
      DEF TypeOK, SendFails, Message
  <2>11. ASSUME NEW e \in Events, NEW v \in Views[e], NEW id \in DOMAIN pending,
                JoinPrompt(e, v, id)
         PROVE  TypeOK'
    <3>1. pc = "handle" /\ Handling(e, v)
      BY <2>11 DEF JoinPrompt, Handling
    <3>2. /\ DOMAIN pending' = DOMAIN pending
          /\ pending' \in [DOMAIN pending -> Pending]
      BY <2>11 DEF JoinPrompt, TypeOK, Pending
    <3> QED
      BY <2>11, <3>1, <3>2, HandlingType, AfterEventType
      DEF TypeOK, JoinPrompt, Message
  <2>12. ASSUME NEW e \in Events, NEW v \in Views[e], StartPrompt(e, v)
         PROVE  TypeOK'
    <3>1. pc = "handle" /\ Handling(e, v)
      BY <2>12 DEF StartPrompt, Handling
    <3>2. v \in View
      BY <3>1, HandlingType
    <3>3. /\ DOMAIN pending' = DOMAIN pending \cup {nextId}
          /\ pending' \in [DOMAIN pending' -> Pending]
      BY <2>12, <3>2 DEF StartPrompt, TypeOK, Pending, View
    <3>4. jobs' \in Seq(Job)
      BY <2>12, <3>2 DEF StartPrompt, TypeOK, Job, View
    <3>5. pendingByKey' \in [Keys -> SUBSET Nat] /\ nextId' \in Nat
      BY <2>12 DEF StartPrompt, TypeOK, IdAfter
    <3> QED
      BY <2>12, <3>1, <3>3, <3>4, <3>5, HandlingType, AfterEventType
      DEF TypeOK, StartPrompt, Message
  <2>13. ASSUME NEW e \in Events, NEW v \in Views[e], HandleError(e, v)
         PROVE  TypeOK'
    <3>1. pc = "handle" /\ Handling(e, v)
      BY <2>13 DEF HandleError, Handling
    <3> QED
      BY <2>13, <3>1, HandlingType, AfterEventType DEF TypeOK, HandleError, Message
  <2>14. CASE HandleOverflow
    <3>1. pc = "handle"
      BY <2>14 DEF HandleOverflow
    <3> QED
      BY <2>14, <3>1, AfterEventType DEF TypeOK, HandleOverflow, Message
  <2>15. ASSUME NEW failed, CompletePrompt(failed) PROVE TypeOK'
    <3> DEFINE c == Head(completions)  p == pending[c.id]
    <3>1. /\ c \in Completion /\ Tail(completions) \in Seq(Completion)
          /\ c.id \in DOMAIN pending /\ p \in Pending
      BY <2>15, TailInSeq DEF CompletePrompt, TypeOK
    <3>2. c.outcome # Failure => c.outcome.decision \in Decisions
      BY <3>1 DEF Completion, Outcome
    <3>3. access' \in [Events -> AccessState] /\ held' \subseteq Events
      <4>1. Respond(p.events, IF c.outcome = Failure THEN Default
                              ELSE c.outcome.decision, failed)
        BY <2>15 DEF CompletePrompt
      <4> QED
        BY <4>1, <3>2, RespondType, ParameterAssumption
    <3>4. /\ decisions' \in [Keys -> Decisions \cup {NoDecision}]
          /\ authorizations' \subseteq Pairs
      <4>1. Remember(p, c.outcome)
        BY <2>15 DEF CompletePrompt
      <4>2. CASE c.outcome = Failure
        BY <4>1, <4>2 DEF Remember, TypeOK
      <4>3. CASE c.outcome # Failure
        <5>1. CacheDecision(p.key, c.outcome.decision)
                \in [Keys -> Decisions \cup {NoDecision}]
          BY <3>1, <3>2, <4>3, CacheDecisionType DEF Pending
        <5> QED
          BY <5>1, <3>1, <4>1, <4>3, IdentityAssumption
          DEF Remember, CacheAnswer, TypeOK, Pending
      <4> QED
        BY <4>2, <4>3
    <3>5. /\ DOMAIN pending' \subseteq Nat /\ pending' \in [DOMAIN pending' -> Pending]
          /\ pendingByKey' \in [Keys -> SUBSET Nat]
      BY <2>15 DEF CompletePrompt, Forget, TypeOK
    <3> QED
      BY <2>15, <3>1, <3>3, <3>4, <3>5 DEF CompletePrompt, TypeOK, LoopPc
  <2>16. ASSUME NEW done, NEW failed, FailPending(done, failed) PROVE TypeOK'
    <3>1. access' \in [Events -> AccessState] /\ held' \subseteq Events
      BY <2>16, RespondType, ParameterAssumption DEF FailPending
    <3> QED
      BY <2>16, <3>1 DEF FailPending, TypeOK, LoopPc
  <2>17. CASE DropCoordinator
    BY <2>17 DEF DropCoordinator, TypeOK, LoopPc
  <2>18. CASE Exit
    BY <2>18 DEF Exit, TypeOK, LoopPc, AccessState
  <2>19. CASE LoopError
    BY <2>19 DEF LoopError, TypeOK, LoopPc
  <2>20. CASE WorkerReceive
    <3>1. Head(jobs) \in Job /\ Tail(jobs) \in Seq(Job)
      BY <2>20, TailInSeq DEF WorkerReceive, TypeOK
    <3>2. hand' = <<Head(jobs)>> /\ hand' \in Seq(Job) /\ Len(hand') = 1
      BY <2>20, <3>1 DEF WorkerReceive
    <3> QED
      BY <2>20, <3>1, <3>2 DEF WorkerReceive, TypeOK, WorkerPc
  <2>21. CASE WorkerFinish
    BY <2>21 DEF WorkerFinish, TypeOK, WorkerPc
  <2>22. CASE WorkerCheck
    BY <2>22 DEF WorkerCheck, TypeOK, WorkerPc, Outcome
  <2>23. CASE WorkerSend
    <3>1. hand[1] \in Job
      BY <2>23, InHand DEF WorkerSend
    <3>2. [id |-> hand[1].id, outcome |-> outcome] \in Completion
      BY <3>1 DEF Job, Completion, TypeOK
    <3>3. completions' \in Seq(Completion)
      <4>1. completions \in Seq(Completion)
        BY DEF TypeOK
      <4> QED
        BY <2>23, <3>2, <4>1 DEF WorkerSend
    <3> QED
      BY <2>23, <3>3 DEF WorkerSend, TypeOK, WorkerPc, Outcome
  <2>24. CASE WorkerWake
    BY <2>24 DEF WorkerWake, TypeOK, WorkerPc
  <2>25. CASE WorkerDrop
    BY <2>25 DEF WorkerDrop, TypeOK, WorkerPc
  <2>26. ASSUME NEW o \in BackendOutcomes, WorkerAnswer(o) PROVE TypeOK'
    <3>1. hand[1] \in Job
      BY <2>26, InHand DEF WorkerAnswer
    <3>2. o \in Outcome
      BY DEF BackendOutcomes
    <3> QED
      BY <2>26, <3>1, <3>2 DEF WorkerAnswer, TypeOK, WorkerPc, Job
  <2>27. CASE WorkerPanic
    BY <2>27 DEF WorkerPanic, TypeOK, WorkerPc
  <2>28. CASE UNCHANGED vars
    BY <2>28 DEF vars, TypeOK
  <2> QED
    BY <2>1, <2>2, <2>3, <2>4, <2>5, <2>6, <2>7, <2>8, <2>9, <2>10, <2>11,
       <2>12, <2>13, <2>14, <2>15, <2>16, <2>17, <2>18, <2>19, <2>20, <2>21,
       <2>22, <2>23, <2>24, <2>25, <2>26, <2>27, <2>28
    DEF Next, Environment, Loop, HandleEvent, Worker, Backend
<1> QED
  BY <1>1, <1>2, PTL DEF Spec

(* The guard does not sleep over an answer: a completion it has not taken   *)
(* is announced, because the worker sends it before it writes the byte and  *)
(* the loop takes the bytes before it empties the channel.                  *)
THEOREM WakeupNotLost == Spec => []NoLostWakeup
<1>1. Init => NoLostWakeup
  BY DEF Init, NoLostWakeup
<1>2. TypeOK /\ NoLostWakeup /\ [Next]_vars => NoLostWakeup'
  <2> SUFFICES ASSUME TypeOK, NoLostWakeup, [Next]_vars PROVE NoLostWakeup'
    OBVIOUS
  <2> USE DEF NoLostWakeup, Running, WriterClosed,
              kernelVars, coordVars, loopVars, channelVars, workerVars, historyVars
  <2>1. CASE Environment
    BY <2>1 DEF Environment, Raise, Withdraw, ProcessGone
  <2>2. CASE Poll \/ DrainWake \/ ReadBatch \/ LoopError
    BY <2>2 DEF Poll, DrainWake, ReadBatch, LoopError
  <2>3. CASE HandleEvent
    <3>1. ASSUME NEW e \in Events, NEW v \in Views[e], NEW failed,
                 HandleSettled(e, v, failed) \/ HandleNoSession(e, v, failed)
                    \/ SendFails(e, v, failed)
          PROVE  pc = "handle" /\ UNCHANGED <<completions, wakeBytes, worker>>
      BY <3>1 DEF HandleSettled, HandleNoSession, SendFails, Handling
    <3>2. ASSUME NEW e \in Events, NEW v \in Views[e], NEW id,
                 JoinPrompt(e, v, id) \/ StartPrompt(e, v) \/ HandleError(e, v)
          PROVE  pc = "handle" /\ UNCHANGED <<completions, wakeBytes, worker>>
      BY <3>2 DEF JoinPrompt, StartPrompt, HandleError, Handling
    <3>3. pc = "handle" /\ UNCHANGED <<completions, wakeBytes, worker>>
      BY <2>3, <3>1, <3>2 DEF HandleEvent, HandleOverflow
    <3> QED
      BY <3>3
  <2>4. CASE ChannelDrained
    BY <2>4 DEF ChannelDrained
  <2>5. ASSUME NEW failed, CompletePrompt(failed) PROVE NoLostWakeup'
    BY <2>5 DEF CompletePrompt
  <2>6. ASSUME NEW done, NEW failed, FailPending(done, failed) PROVE NoLostWakeup'
    BY <2>6 DEF FailPending
  <2>7. CASE DropCoordinator \/ Exit
    BY <2>7 DEF DropCoordinator, Exit
  <2>8. CASE WorkerReceive \/ WorkerFinish \/ WorkerCheck \/ Backend \/ WorkerPanic
    BY <2>8 DEF WorkerReceive, WorkerFinish, WorkerCheck, Backend, WorkerAnswer,
                WorkerPanic
  <2>9. CASE WorkerSend
    BY <2>9 DEF WorkerSend, CoordinatorDropped
  <2>10. CASE WorkerWake
    BY <2>10 DEF WorkerWake, TypeOK, CoordinatorDropped
  <2>11. CASE WorkerDrop
    BY <2>11 DEF WorkerDrop
  <2>12. CASE UNCHANGED vars
    BY <2>12 DEF vars
  <2> QED
    BY <2>1, <2>2, <2>3, <2>4, <2>5, <2>6, <2>7, <2>8, <2>9, <2>10, <2>11, <2>12
    DEF Next, Loop, Worker
<1> QED
  BY <1>1, <1>2, TypeCorrect, PTL DEF Spec

(* The index by key is only an inverse of pending because ids are fresh.    *)
IdsUsed == \A i \in DOMAIN pending : i < nextId

IndexInv == IndexAgrees /\ IdsUsed

(* Starting, joining, answering and failing requests keep pending_by_key    *)
(* and the keys in pending inverse to each other, and ids fresh.            *)
LEMMA IndexNext == TypeOK /\ IndexInv /\ [Next]_vars => IndexInv'
<1> SUFFICES ASSUME TypeOK, IndexInv, [Next]_vars PROVE IndexInv'
  OBVIOUS
<1> USE DEF kernelVars, coordVars, loopVars, channelVars, workerVars, historyVars
<1>1. ASSUME NEW e \in Events, NEW v \in Views[e], StartPrompt(e, v)
      PROVE  IndexInv'
  <2>1. v.key \in Keys \cup {NoKey}
    BY ViewAssumption DEF View
  <2>2. /\ DOMAIN pending' = DOMAIN pending \cup {nextId}
        /\ \A i \in DOMAIN pending : pending'[i] = pending[i]
        /\ pending'[nextId].key = v.key
        /\ nextId' = nextId + 1 /\ nextId \in Nat /\ nextId \notin DOMAIN pending
    BY <1>1 DEF StartPrompt, TypeOK, IndexInv, IdsUsed, IdAfter
  <2>3. ASSUME NEW k \in Keys, k = v.key
        PROVE  /\ pendingByKey'[k] = {nextId}
               /\ {i \in DOMAIN pending' : pending'[i].key = k} = {nextId}
    <3>1. pendingByKey[k] = {} /\ pendingByKey'[k] = {nextId}
      BY <1>1, <2>3, EventAssumption DEF StartPrompt, PromptFor
    <3>2. \A i \in DOMAIN pending : pending[i].key # k
      BY <3>1 DEF IndexInv, IndexAgrees
    <3> QED
      BY <2>2, <2>3, <3>1, <3>2
  <2>4. ASSUME NEW k \in Keys, k # v.key
        PROVE  /\ pendingByKey'[k] = pendingByKey[k]
               /\ {i \in DOMAIN pending' : pending'[i].key = k}
                    = {i \in DOMAIN pending : pending[i].key = k}
    <3>1. pendingByKey'[k] = pendingByKey[k]
      BY <1>1, <2>4 DEF StartPrompt
    <3> QED
      BY <2>2, <2>4, <3>1
  <2>5. IndexAgrees'
    BY <2>3, <2>4 DEF IndexInv, IndexAgrees
  <2>6. IdsUsed'
    BY <2>2 DEF IndexInv, IdsUsed, TypeOK
  <2> QED
    BY <2>5, <2>6 DEF IndexInv
<1>2. ASSUME NEW e \in Events, NEW v \in Views[e], NEW id \in DOMAIN pending,
             JoinPrompt(e, v, id)
      PROVE  IndexInv'
  <2>1. /\ DOMAIN pending' = DOMAIN pending
        /\ \A i \in DOMAIN pending : pending'[i].key = pending[i].key
        /\ UNCHANGED <<pendingByKey, nextId>>
    BY <1>2 DEF JoinPrompt, TypeOK, Pending
  <2>2. \A k \in Keys : {i \in DOMAIN pending' : pending'[i].key = k}
                        = {i \in DOMAIN pending : pending[i].key = k}
    BY <2>1
  <2> QED
    BY <2>1, <2>2 DEF IndexInv, IndexAgrees, IdsUsed
<1>3. ASSUME NEW failed, CompletePrompt(failed) PROVE IndexInv'
  <2> DEFINE id == Head(completions).id
  <2>1. id \in DOMAIN pending /\ Forget(id) /\ UNCHANGED nextId
    BY <1>3 DEF CompletePrompt
  <2>2. /\ DOMAIN pending' = DOMAIN pending \ {id}
        /\ \A i \in DOMAIN pending' : pending'[i] = pending[i]
    BY <2>1 DEF Forget
  <2>3. ASSUME NEW k \in Keys, k = pending[id].key
        PROVE  /\ pendingByKey'[k] = {}
               /\ {i \in DOMAIN pending' : pending'[i].key = k} = {}
    <3>1. id \in pendingByKey[k]
      BY <2>1, <2>3 DEF IndexInv, IndexAgrees
    <3>2. \A i \in DOMAIN pending : pending[i].key = k => i = id
      BY <3>1 DEF IndexInv, IndexAgrees
    <3> QED
      BY <2>1, <2>2, <2>3, <3>2 DEF Forget
  <2>4. ASSUME NEW k \in Keys, k # pending[id].key
        PROVE  /\ pendingByKey'[k] = pendingByKey[k]
               /\ {i \in DOMAIN pending' : pending'[i].key = k}
                    = {i \in DOMAIN pending : pending[i].key = k}
    BY <2>1, <2>2, <2>4 DEF Forget
  <2> QED
    BY <2>1, <2>2, <2>3, <2>4 DEF IndexInv, IndexAgrees, IdsUsed
<1>4. CASE pending' = [i \in {} |-> {}] /\ pendingByKey' = [k \in Keys |-> {}]
  BY <1>4 DEF IndexInv, IndexAgrees, IdsUsed
<1>5. ASSUME NEW e \in Events, NEW v \in Views[e], NEW failed, SendFails(e, v, failed)
      PROVE  IndexInv'
  BY <1>5 DEF SendFails, IdAfter, IndexInv, IndexAgrees, IdsUsed, TypeOK
<1>6. CASE UNCHANGED <<pending, pendingByKey, nextId>>
  BY <1>6 DEF IndexInv, IndexAgrees, IdsUsed
<1>7. CASE Environment \/ LoopError \/ Worker \/ Backend \/ WorkerPanic
  BY <1>6, <1>7
  DEF Environment, Raise, Withdraw, ProcessGone, LoopError, Worker, WorkerReceive,
      WorkerFinish, WorkerCheck, WorkerSend, WorkerWake, WorkerDrop, Backend,
      WorkerAnswer, WorkerPanic
<1>8. ASSUME NEW e \in Events, NEW v \in Views[e], NEW failed,
             HandleSettled(e, v, failed) \/ HandleNoSession(e, v, failed)
                \/ HandleError(e, v)
      PROVE  IndexInv'
  BY <1>6, <1>8 DEF HandleSettled, HandleNoSession, HandleError
<1>9. CASE HandleEvent
  BY <1>1, <1>2, <1>5, <1>6, <1>8, <1>9 DEF HandleEvent, HandleOverflow
<1>10. CASE Loop
  <2>1. CASE Poll \/ DrainWake \/ ChannelDrained \/ ReadBatch \/ Exit
    BY <1>6, <2>1 DEF Poll, DrainWake, ChannelDrained, ReadBatch, Exit
  <2>2. ASSUME NEW done, NEW failed, FailPending(done, failed) PROVE IndexInv'
    BY <1>4, <2>2 DEF FailPending
  <2>3. CASE DropCoordinator
    BY <1>4, <2>3 DEF DropCoordinator
  <2> QED
    BY <1>3, <1>9, <1>10, <2>1, <2>2, <2>3 DEF Loop
<1> QED
  BY <1>6, <1>7, <1>10 DEF Next, vars

(* There is at most one outstanding question per key and the index finds    *)
(* exactly it, so append_pending_event and remove_pending_key never meet    *)
(* their internal errors.                                                   *)
THEOREM IndexCorrect == Spec => []IndexAgrees
<1>1. Init => IndexInv
  BY DEF Init, IndexInv, IndexAgrees, IdsUsed
<1>2. IndexInv => IndexAgrees
  BY DEF IndexInv
<1> QED
  BY <1>1, <1>2, IndexNext, TypeCorrect, PTL DEF Spec
=============================================================================
