-------------------------- MODULE GuardAnswersProofs --------------------------
(****************************************************************************)
(* Who gets which answer in guard mode, proved for any number of accesses,  *)
(* processes, keys and prompts, any interleaving of the two threads and any *)
(* set of faults.                                                           *)
(****************************************************************************)
EXTENDS GuardLoopProofs, SequenceTheorems

(* No element is in the sequence twice. *)
Once(s) == \A m, n \in DOMAIN s : s[m] = s[n] => m = n

(* An access is handled once, and has no view before. *)
EventsInv ==
    Running =>
        /\ DescriptorsOwned
        /\ pc # "handle" => batch = <<>>
        /\ Once(queue) /\ ToSet(queue) \cap held = {}
        /\ \A e \in Events :
            /\ e \in ToSet(queue) \cup held => access[e] \in {"waiting", "noticed"}
            /\ access[e] = "none" \/ e \in ToSet(queue) \cup ToSet(batch) => view[e] = NoView

(* A request waits for accesses with its key; without one for a single access. *)
PendingInv ==
    Running =>
        \A i \in DOMAIN pending : \A e \in WaitingOn(i) :
            /\ view[e].verdict = "Prompt" /\ view[e].key = pending[i].key
            /\ pending[i].key = NoKey => WaitingOn(i) = {e}

(* A job is about one of the requests. *)
Matches(j, requests) ==
    /\ j.id \in DOMAIN requests
    /\ j.key = requests[j.id].key /\ j.auth = requests[j.id].auth
    /\ j.event \in requests[j.id].events

Increasing(s) == \A m, n \in DOMAIN s : m < n => s[m].id < s[n].id
Before(s, t) == \A m \in DOMAIN s, n \in DOMAIN t : s[m].id < t[n].id
HasId(s, i) == \E n \in DOMAIN s : s[n].id = i

StagesInv ==
    Running =>
        /\ \A n \in DOMAIN jobs : Matches(jobs[n], pending)
        /\ \A n \in DOMAIN hand : Matches(hand[n], pending)
        /\ \A n \in DOMAIN completions : completions[n].id \in DOMAIN pending
        /\ Increasing(completions) /\ Increasing(jobs)
        /\ Before(completions, hand) /\ Before(completions, jobs) /\ Before(hand, jobs)
        /\ ~WriterClosed /\ worker # "dropWriter" =>
            \A i \in DOMAIN pending :
                HasId(completions, i) \/ HasId(hand, i) \/ HasId(jobs, i)

(* An answer that is on its way was given to the request it goes to.        *)
Told(answers, key, auth, o, es) ==
    \E t \in answers : t.key = key /\ t.auth = auth /\ t.outcome = o /\ t.event \in es

ToldInv ==
    /\ worker = "send" /\ outcome # Failure =>
           Told(told, hand[1].key, hand[1].auth, outcome, {hand[1].event})
    /\ Running =>
        \A n \in DOMAIN completions :
            LET c == completions[n] IN
            c.outcome # Failure =>
                Told(told, pending[c.id].key, pending[c.id].auth, c.outcome, WaitingOn(c.id))

Unasked(j) == j.key # NoKey => \A t \in told : t.key # j.key

(* An answer for the key is cached or will be. *)
Known(key) ==
    \/ decisions[key] # NoDecision
    \/ \E n \in DOMAIN completions :
           pending[completions[n].id].key = key /\ completions[n].outcome # Failure
    \/ worker = "send" /\ outcome # Failure /\ hand[1].key = key

(* A key the backend answered for is not asked about again. *)
AskedInv ==
    /\ \A m, n \in DOMAIN jobs : jobs[m].key = jobs[n].key /\ jobs[m].key # NoKey => m = n
    /\ \A m \in DOMAIN hand, n \in DOMAIN jobs : hand[m].key = jobs[n].key => jobs[n].key = NoKey
    /\ \A n \in DOMAIN jobs : Unasked(jobs[n])
    /\ worker \in {"check", "ask"} => Unasked(hand[1])
    /\ Running => \A t \in told : t.key # NoKey => Known(t.key)

(* All of it together is inductive: each part needs the ones before it.     *)
GuardInv ==
    /\ EventsInv /\ PendingInv /\ StagesInv /\ ToldInv /\ AskedInv
    /\ CacheJustified /\ AnswerJustified

-----------------------------------------------------------------------------
(* Facts about sequences.                                                   *)
LEMMA TailElements ==
    ASSUME NEW S, NEW s \in Seq(S), s # <<>>
    PROVE  /\ Tail(s) \in Seq(S) /\ Len(Tail(s)) = Len(s) - 1
           /\ DOMAIN Tail(s) = 1 .. (Len(s) - 1) /\ DOMAIN s = 1 .. Len(s)
           /\ Len(s) \in Nat \ {0}
           /\ \A n \in DOMAIN Tail(s) : Tail(s)[n] = s[n + 1]
           /\ Head(s) = s[1]
OBVIOUS

LEMMA AppendElements ==
    ASSUME NEW S, NEW s \in Seq(S), NEW x \in S
    PROVE  /\ Append(s, x) \in Seq(S) /\ Len(s) \in Nat
           /\ DOMAIN Append(s, x) = 1 .. (Len(s) + 1) /\ DOMAIN s = 1 .. Len(s)
           /\ \A n \in DOMAIN s : Append(s, x)[n] = s[n]
           /\ Append(s, x)[Len(s) + 1] = x
OBVIOUS

LEMMA TailOnce ==
    ASSUME NEW S, NEW s \in Seq(S), s # <<>>, Once(s)
    PROVE  Once(Tail(s)) /\ ToSet(Tail(s)) = ToSet(s) \ {Head(s)} /\ Head(s) \in ToSet(s)
<1>1. /\ Len(s) \in Nat \ {0} /\ DOMAIN Tail(s) = 1 .. (Len(s) - 1)
      /\ DOMAIN s = 1 .. Len(s) /\ Head(s) = s[1]
      /\ \A n \in DOMAIN Tail(s) : Tail(s)[n] = s[n + 1]
  BY TailElements
<1>2. Once(Tail(s))
  BY <1>1 DEF Once
<1>3. ASSUME NEW x \in ToSet(s), x # Head(s) PROVE x \in ToSet(Tail(s))
  <2>1. PICK n \in DOMAIN s : s[n] = x BY DEF ToSet
  <2>2. n # 1 /\ n - 1 \in DOMAIN Tail(s) BY <1>1, <1>3, <2>1
  <2>3. Tail(s)[n - 1] = x BY <1>1, <2>1, <2>2
  <2> QED BY <2>2, <2>3 DEF ToSet
<1>4. ASSUME NEW x \in ToSet(Tail(s)) PROVE x \in ToSet(s) /\ x # Head(s)
  <2>1. PICK n \in DOMAIN Tail(s) : Tail(s)[n] = x BY DEF ToSet
  <2>2. n + 1 \in DOMAIN s /\ s[n + 1] = x /\ n + 1 # 1 /\ 1 \in DOMAIN s
    BY <1>1, <2>1
  <2> QED BY <1>1, <2>2 DEF ToSet, Once
<1>5. Head(s) \in ToSet(s) BY <1>1 DEF ToSet
<1> QED BY <1>2, <1>3, <1>4, <1>5

LEMMA AppendOnce ==
    ASSUME NEW S, NEW s \in Seq(S), NEW x \in S
    PROVE  /\ ToSet(Append(s, x)) = ToSet(s) \cup {x}
           /\ Once(s) /\ x \notin ToSet(s) => Once(Append(s, x))
<1>1. /\ Len(s) \in Nat
      /\ DOMAIN Append(s, x) = 1 .. (Len(s) + 1) /\ DOMAIN s = 1 .. Len(s)
      /\ \A n \in DOMAIN s : Append(s, x)[n] = s[n]
      /\ Append(s, x)[Len(s) + 1] = x
  BY AppendElements
<1>2. ToSet(Append(s, x)) \subseteq ToSet(s) \cup {x}
  BY <1>1 DEF ToSet
<1>3. ToSet(s) \subseteq ToSet(Append(s, x))
  BY <1>1 DEF ToSet
<1>4. x \in ToSet(Append(s, x))
  BY <1>1 DEF ToSet
<1>5. Once(s) /\ x \notin ToSet(s) => Once(Append(s, x))
  BY <1>1 DEF ToSet, Once
<1> QED BY <1>2, <1>3, <1>4, <1>5

(* A read takes the first events and leaves the others. *)
LEMMA SplitOnce ==
    ASSUME NEW S, NEW s \in Seq(S), NEW n \in 0 .. Len(s), Once(s)
    PROVE  /\ Once(SubSeq(s, 1, n)) /\ Once(SubSeq(s, n + 1, Len(s)))
           /\ ToSet(s) = ToSet(SubSeq(s, 1, n)) \cup ToSet(SubSeq(s, n + 1, Len(s)))
           /\ ToSet(SubSeq(s, 1, n)) \cap ToSet(SubSeq(s, n + 1, Len(s))) = {}
<1> DEFINE a == SubSeq(s, 1, n)  b == SubSeq(s, n + 1, Len(s))
<1>1. /\ Len(s) \in Nat /\ DOMAIN s = 1 .. Len(s)
      /\ DOMAIN a = 1 .. n /\ \A k \in 1 .. n : a[k] = s[k]
  <2>1. \A k \in 1 .. n : s[k] \in S OBVIOUS
  <2>2. /\ a \in Seq(S) /\ Len(a) = IF 1 <= n THEN n - 1 + 1 ELSE 0
        /\ \A k \in 1 .. n - 1 + 1 : a[k] = s[1 + k - 1]
    BY <2>1, SubSeqProperties
  <2> HIDE DEF a
  <2> QED BY <2>2
<1>2. /\ DOMAIN b = 1 .. (Len(s) - n)
      /\ \A k \in 1 .. (Len(s) - n) : b[k] = s[k + n]
  <2>1. \A k \in n + 1 .. Len(s) : s[k] \in S OBVIOUS
  <2>2. /\ b \in Seq(S)
        /\ Len(b) = IF n + 1 <= Len(s) THEN Len(s) - (n + 1) + 1 ELSE 0
        /\ \A k \in 1 .. Len(s) - (n + 1) + 1 : b[k] = s[n + 1 + k - 1]
    BY <2>1, SubSeqProperties
  <2> HIDE DEF b
  <2> QED BY <2>2
<1> HIDE DEF a, b
<1>3. Once(a) /\ Once(b)
  <2>1. ASSUME NEW k \in DOMAIN a, NEW m \in DOMAIN a, a[k] = a[m] PROVE k = m
    <3>1. k \in DOMAIN s /\ m \in DOMAIN s /\ s[k] = s[m] BY <1>1, <2>1
    <3> QED BY <3>1 DEF Once
  <2>2. ASSUME NEW k \in DOMAIN b, NEW m \in DOMAIN b, b[k] = b[m] PROVE k = m
    <3>1. k + n \in DOMAIN s /\ m + n \in DOMAIN s /\ s[k + n] = s[m + n]
      BY <1>1, <1>2, <2>2
    <3>2. k + n = m + n BY <3>1 DEF Once
    <3> QED BY <1>2, <3>2
  <2> QED BY <2>1, <2>2 DEF Once
<1>4. ToSet(a) \subseteq ToSet(s) /\ ToSet(b) \subseteq ToSet(s)
  <2>1. ASSUME NEW k \in DOMAIN a PROVE k \in DOMAIN s /\ a[k] = s[k] BY <1>1
  <2>2. ASSUME NEW k \in DOMAIN b PROVE k + n \in DOMAIN s /\ b[k] = s[k + n]
    BY <1>1, <1>2
  <2> QED BY <2>1, <2>2 DEF ToSet
<1>5. ASSUME NEW x \in ToSet(s) PROVE x \in ToSet(a) \cup ToSet(b)
  <2>1. PICK k \in DOMAIN s : s[k] = x BY DEF ToSet
  <2>2. CASE k <= n BY <1>1, <2>1, <2>2 DEF ToSet
  <2>3. CASE k > n
    <3>1. k - n \in DOMAIN b /\ b[k - n] = x BY <1>1, <1>2, <2>1, <2>3
    <3> QED BY <3>1 DEF ToSet
  <2> QED BY <1>1, <2>1, <2>2, <2>3
<1>6. ASSUME NEW x \in ToSet(a), x \in ToSet(b) PROVE FALSE
  <2>1. PICK k \in DOMAIN a : a[k] = x BY DEF ToSet
  <2>2. PICK m \in DOMAIN b : b[m] = x BY <1>6 DEF ToSet
  <2>3. s[k] = s[m + n] /\ k \in DOMAIN s /\ m + n \in DOMAIN s /\ k # m + n
    BY <1>1, <1>2, <2>1, <2>2
  <2> QED BY <2>3 DEF Once
<1> QED BY <1>3, <1>4, <1>5, <1>6 DEF a, b

(* The kernel takes one event back. *)
LEMMA RemoveOnce ==
    ASSUME NEW S, NEW s \in Seq(S), NEW i \in DOMAIN s, Once(s)
    PROVE  Once(RemoveAt(s, i)) /\ ToSet(RemoveAt(s, i)) = ToSet(s) \ {s[i]}
<1> DEFINE r == RemoveAt(s, i)
<1>1. /\ Len(s) \in Nat /\ DOMAIN s = 1 .. Len(s) /\ i \in 1 .. Len(s)
      /\ DOMAIN r = 1 .. (Len(s) - 1)
      /\ \A k \in 1 .. (Len(s) - 1) : r[k] = IF k < i THEN s[k] ELSE s[k + 1]
  <2> DEFINE a == SubSeq(s, 1, i - 1)  b == SubSeq(s, i + 1, Len(s))
  <2>1. /\ a \in Seq(S) /\ Len(a) = IF 1 <= i - 1 THEN i - 1 - 1 + 1 ELSE 0
        /\ \A k \in 1 .. i - 1 - 1 + 1 : a[k] = s[1 + k - 1]
    <3>1. \A k \in 1 .. i - 1 : s[k] \in S OBVIOUS
    <3> QED BY <3>1, SubSeqProperties
  <2>2. /\ b \in Seq(S)
        /\ Len(b) = IF i + 1 <= Len(s) THEN Len(s) - (i + 1) + 1 ELSE 0
        /\ \A k \in 1 .. Len(s) - (i + 1) + 1 : b[k] = s[i + 1 + k - 1]
    <3>1. \A k \in i + 1 .. Len(s) : s[k] \in S OBVIOUS
    <3> QED BY <3>1, SubSeqProperties
  <2>3. r = a \o b BY DEF RemoveAt
  <2> HIDE DEF a, b, r
  <2>4. /\ r \in Seq(S) /\ Len(r) = Len(a) + Len(b)
        /\ \A k \in 1 .. Len(a) + Len(b) :
               r[k] = IF k <= Len(a) THEN a[k] ELSE b[k - Len(a)]
    BY <2>1, <2>2, <2>3, ConcatProperties
  <2>5. /\ Len(s) \in Nat /\ DOMAIN s = 1 .. Len(s) /\ i \in 1 .. Len(s)
    OBVIOUS
  <2>6. Len(a) = i - 1 /\ Len(b) = Len(s) - i BY <2>1, <2>2, <2>5
  <2>7. DOMAIN r = 1 .. (Len(s) - 1) BY <2>4, <2>5, <2>6
  <2>8. ASSUME NEW k \in 1 .. (Len(s) - 1)
        PROVE  r[k] = IF k < i THEN s[k] ELSE s[k + 1]
    <3>1. r[k] = IF k <= i - 1 THEN a[k] ELSE b[k - (i - 1)] BY <2>4, <2>5, <2>6
    <3>2. CASE k < i BY <2>1, <2>5, <3>1, <3>2
    <3>3. CASE ~(k < i)
      <4>1. k - (i - 1) \in 1 .. Len(s) - (i + 1) + 1 BY <2>5, <3>3
      <4>2. b[k - (i - 1)] = s[i + 1 + (k - (i - 1)) - 1] BY <2>2, <4>1
      <4>3. i + 1 + (k - (i - 1)) - 1 = k + 1 BY <2>5
      <4> QED BY <2>5, <3>1, <3>3, <4>2, <4>3
    <3> QED BY <3>2, <3>3
  <2> QED BY <2>5, <2>7, <2>8
<1> HIDE DEF r
<1>2. Once(r)
  BY <1>1 DEF Once
<1>3. ASSUME NEW x \in ToSet(s), x # s[i] PROVE x \in ToSet(r)
  <2>1. PICK k \in DOMAIN s : s[k] = x BY DEF ToSet
  <2>2. CASE k < i
    <3>1. k \in DOMAIN r /\ r[k] = x BY <1>1, <2>1, <2>2
    <3> QED BY <3>1 DEF ToSet
  <2>3. CASE k > i
    <3>1. k - 1 \in DOMAIN r /\ r[k - 1] = x BY <1>1, <2>1, <2>3
    <3> QED BY <3>1 DEF ToSet
  <2> QED BY <1>1, <1>3, <2>1, <2>2, <2>3
<1>4. ASSUME NEW x \in ToSet(r) PROVE x \in ToSet(s) /\ x # s[i]
  <2>1. PICK k \in DOMAIN r : r[k] = x BY DEF ToSet
  <2>2. PICK m \in DOMAIN s : m # i /\ s[m] = x BY <1>1, <2>1
  <2> QED BY <2>2 DEF ToSet, Once
<1> QED BY <1>2, <1>3, <1>4 DEF r

-----------------------------------------------------------------------------
(* Where the accesses are.                                                  *)

LEMMA EventsStay ==
    ASSUME EventsInv, UNCHANGED <<queue, held, access, batch, pending, view>>,
           Running' => Running /\ (pc' = "handle" <=> pc = "handle")
    PROVE  EventsInv'
BY DEF EventsInv, DescriptorsOwned, Running, Once, WaitingOn

(* What handling an event finds. *)
LEMMA EventInHand ==
    ASSUME TypeOK, EventsInv, NEW e \in Events, NEW v, Handling(e, v)
    PROVE  /\ Running /\ pc = "handle" /\ batch \in Seq(Message) /\ batch # <<>>
           /\ e \in held /\ e \in ToSet(batch) /\ e \notin ToSet(queue)
           /\ access[e] \in {"waiting", "noticed"} /\ view[e] = NoView
           /\ \A i \in DOMAIN pending : e \notin WaitingOn(i)
           /\ Once(Tail(batch)) /\ ToSet(Tail(batch)) = ToSet(batch) \ {e}
           /\ view' = [view EXCEPT ![e] = v] /\ view \in [Events -> View \cup {NoView}]
           /\ view'[e] = v /\ \A f \in Events \ {e} : view'[f] = view[f]
<1>1. /\ Running /\ pc = "handle" /\ Head(batch) = e /\ e # Overflow
      /\ view' = [view EXCEPT ![e] = v]
  BY DEF Handling, Running
<1>2. batch \in Seq(Message) /\ batch # <<>>
  BY <1>1 DEF TypeOK, Message
<1>3. Once(batch)
  BY <1>1 DEF EventsInv, DescriptorsOwned, Once
<1>4. e \in ToSet(batch) /\ Once(Tail(batch)) /\ ToSet(Tail(batch)) = ToSet(batch) \ {e}
  BY <1>1, <1>2, <1>3, TailOnce
<1>5. e \in held /\ \A i \in DOMAIN pending : e \notin WaitingOn(i)
  BY <1>1, <1>4 DEF EventsInv, DescriptorsOwned
<1>6. view \in [Events -> View \cup {NoView}]
  BY DEF TypeOK
<1> QED
  BY <1>1, <1>2, <1>4, <1>5, <1>6 DEF EventsInv

(* The rest of the batch comes next, or poll. *)
LEMMA AfterEventGoesOn ==
    ASSUME TypeOK, NEW ok, pc = "handle", AfterEvent(ok)
    PROVE  /\ batch' = Tail(batch)
           /\ ~ok => ~Running'
           /\ ok => Running' /\ (pc' # "handle" => batch' = <<>>)
<1>1. batch \in Seq(Message) /\ batch # <<>>
  BY DEF TypeOK, Message
<1>2. Len(batch) = 1 => Tail(batch) = <<>>
  <2>1. Tail(batch) \in Seq(Message) /\ Len(Tail(batch)) = Len(batch) - 1
    BY <1>1, TailElements
  <2>2. Tail(batch) # <<>> => Len(Tail(batch)) \in Nat \ {0}
    BY <2>1, EmptySeq
  <2> QED BY <2>1, <2>2
<1> QED BY <1>2 DEF AfterEvent, Running

LEMMA AnsweredEvent ==
    ASSUME TypeOK, EventsInv, NEW e \in Events, NEW v, Handling(e, v),
           AfterEvent(TRUE), UNCHANGED <<queue, pending>>, held' = held \ {e},
           NEW d \in Decisions,
           access' = [f \in Events |-> IF f = e /\ e \in PermEvents THEN d ELSE access[f]]
    PROVE  EventsInv'
<1>1. /\ Running /\ pc = "handle"
      /\ e \in held /\ e \in ToSet(batch) /\ e \notin ToSet(queue)
      /\ access[e] \in {"waiting", "noticed"} /\ view[e] = NoView
      /\ \A i \in DOMAIN pending : e \notin WaitingOn(i)
      /\ Once(Tail(batch)) /\ ToSet(Tail(batch)) = ToSet(batch) \ {e}
      /\ \A f \in Events \ {e} : view'[f] = view[f]
  BY EventInHand
<1>2. /\ batch' = Tail(batch) /\ Running' /\ (pc' # "handle" => batch' = <<>>)
  BY <1>1, AfterEventGoesOn
<1>3. /\ access'[e] \notin {"waiting", "none"} \/ e \notin PermEvents
      /\ access'[e] # "none"
      /\ \A f \in Events \ {e} : access'[f] = access[f]
  BY <1>1 DEF Decisions
<1>4. held' = (ToSet(batch') \ {Overflow}) \cup UNION {WaitingOn(i) : i \in DOMAIN pending}
  BY <1>1, <1>2 DEF EventsInv, DescriptorsOwned
<1>5. ToSet(batch') \subseteq ToSet(batch)
  BY <1>1, <1>2
<1>6. DescriptorsOwned'
  <2>1. \A f \in PermEvents : access'[f] = "waiting" <=> f \in ToSet(queue) \cup held'
    BY <1>1, <1>3, EventAssumption DEF EventsInv, DescriptorsOwned
  <2>2. \A i \in DOMAIN pending :
            /\ WaitingOn(i) \cap ToSet(batch') = {}
            /\ \A j \in DOMAIN pending \ {i} : WaitingOn(i) \cap WaitingOn(j) = {}
    BY <1>1, <1>5 DEF EventsInv, DescriptorsOwned
  <2>3. Once(batch') BY <1>1, <1>2
  <2> QED BY <1>4, <2>1, <2>2, <2>3 DEF DescriptorsOwned, WaitingOn, Once
<1>7. ASSUME NEW f \in Events
      PROVE  /\ f \in ToSet(queue) \cup held' => access'[f] \in {"waiting", "noticed"}
             /\ access'[f] = "none" \/ f \in ToSet(queue) \cup ToSet(batch') => view'[f] = NoView
  BY <1>1, <1>2, <1>3, <1>5 DEF EventsInv
<1>8. Once(queue') /\ ToSet(queue') \cap held' = {}
  BY <1>1 DEF EventsInv
<1> QED BY <1>2, <1>6, <1>7, <1>8 DEF EventsInv

LEMMA PutOffEvent ==
    ASSUME TypeOK, EventsInv, NEW e \in Events, NEW v, Handling(e, v),
           AfterEvent(TRUE), UNCHANGED <<queue, held, access>>, NEW id,
           DOMAIN pending' = DOMAIN pending \cup {id},
           pending'[id].events = {e} \cup (IF id \in DOMAIN pending
                                            THEN pending[id].events ELSE {}),
           \A i \in DOMAIN pending \ {id} : pending'[i].events = pending[i].events
    PROVE  EventsInv'
<1>1. /\ Running /\ pc = "handle"
      /\ e \in held /\ e \in ToSet(batch) /\ e \notin ToSet(queue)
      /\ access[e] \in {"waiting", "noticed"} /\ view[e] = NoView
      /\ \A i \in DOMAIN pending : e \notin WaitingOn(i)
      /\ Once(Tail(batch)) /\ ToSet(Tail(batch)) = ToSet(batch) \ {e}
      /\ \A f \in Events \ {e} : view'[f] = view[f]
  BY EventInHand
<1>2. /\ batch' = Tail(batch) /\ Running' /\ (pc' # "handle" => batch' = <<>>)
  BY <1>1, AfterEventGoesOn
<1>3. e # Overflow BY EventAssumption
<1> DEFINE old == IF id \in DOMAIN pending THEN WaitingOn(id) ELSE {}
<1>4. /\ WaitingOn(id)' = {e} \cup old
      /\ \A i \in DOMAIN pending \ {id} : WaitingOn(i)' = WaitingOn(i)
  BY DEF WaitingOn
<1>5. /\ old \cap ToSet(batch) = {}
      /\ \A i \in DOMAIN pending \ {id} : WaitingOn(i) \cap old = {}
  BY <1>1 DEF EventsInv, DescriptorsOwned
<1>6. UNION {WaitingOn(i)' : i \in DOMAIN pending'}
        = {e} \cup UNION {WaitingOn(i) : i \in DOMAIN pending}
  BY <1>4
<1>7. held' = (ToSet(batch') \ {Overflow}) \cup UNION {WaitingOn(i)' : i \in DOMAIN pending'}
  BY <1>1, <1>2, <1>3, <1>6 DEF EventsInv, DescriptorsOwned
<1>8. ASSUME NEW i \in DOMAIN pending'
      PROVE  /\ WaitingOn(i)' \cap ToSet(batch') = {}
             /\ \A j \in DOMAIN pending' \ {i} : WaitingOn(i)' \cap WaitingOn(j)' = {}
  <2>1. CASE i = id
    BY <1>1, <1>2, <1>4, <1>5, <2>1
  <2>2. CASE i # id
    <3>1. i \in DOMAIN pending /\ WaitingOn(i)' = WaitingOn(i) BY <1>4, <2>2
    <3>2. WaitingOn(i) \cap ToSet(batch) = {} /\ e \notin WaitingOn(i)
      BY <1>1, <3>1 DEF EventsInv, DescriptorsOwned
    <3>3. ASSUME NEW j \in DOMAIN pending' \ {i} PROVE WaitingOn(i)' \cap WaitingOn(j)' = {}
      <4>1. CASE j = id BY <1>4, <1>5, <2>2, <3>1, <3>2, <4>1
      <4>2. CASE j # id
        BY <1>1, <1>4, <3>1, <4>2 DEF EventsInv, DescriptorsOwned
      <4> QED BY <4>1, <4>2
    <3> QED BY <1>1, <1>2, <3>1, <3>2, <3>3
  <2> QED BY <2>1, <2>2
<1>9. DescriptorsOwned'
  <2>1. \A f \in PermEvents : access'[f] = "waiting" <=> f \in ToSet(queue') \cup held'
    BY <1>1 DEF EventsInv, DescriptorsOwned
  <2>2. Once(batch') BY <1>1, <1>2
  <2>3. held' = ((ToSet(batch) \ {Overflow}) \cup UNION {WaitingOn(i) : i \in DOMAIN pending})'
    BY <1>7
  <2> QED BY <1>8, <2>1, <2>2, <2>3 DEF DescriptorsOwned, Once
<1>10. ASSUME NEW f \in Events
       PROVE  /\ f \in ToSet(queue') \cup held' => access'[f] \in {"waiting", "noticed"}
              /\ access'[f] = "none" \/ f \in ToSet(queue') \cup ToSet(batch') => view'[f] = NoView
  BY <1>1, <1>2 DEF EventsInv
<1>11. Once(queue') /\ ToSet(queue') \cap held' = {}
  BY <1>1 DEF EventsInv
<1> QED BY <1>2, <1>9, <1>10, <1>11 DEF EventsInv

LEMMA EventsEnvironment ==
    ASSUME TypeOK, EventsInv, Environment
    PROVE  EventsInv'
<1> USE DEF kernelVars, coordVars, loopVars, channelVars, workerVars, historyVars
<1>1. ASSUME NEW e \in Events, Raise(e), Running PROVE EventsInv'
  <2>1. /\ access[e] = "none" /\ Running'
        /\ UNCHANGED <<pc, held, batch, pending, view>>
    BY <1>1 DEF Raise, Running
  <2>2. e \notin ToSet(queue) \cup held /\ view[e] = NoView
    BY <1>1, <2>1 DEF EventsInv
  <2>3. PICK x \in {"waiting", "noticed", "passed"} :
            /\ access' = [access EXCEPT ![e] = x]
            /\ e \in PermEvents => (x = "waiting" <=> e \in ToSet(queue'))
            /\ e \in ToSet(queue') => x \in {"waiting", "noticed"}
            /\ ToSet(queue) \subseteq ToSet(queue')
            /\ ToSet(queue') \subseteq ToSet(queue) \cup {e, Overflow}
            /\ Once(queue')
    <3>1. queue \in Seq(Message) /\ e \in Message /\ Overflow \in Message /\ Once(queue)
      BY <1>1 DEF TypeOK, Message, EventsInv
    <3>2. CASE Len(queue) < QueueLimit
      <4>1. ToSet(Append(queue, e)) = ToSet(queue) \cup {e} /\ Once(Append(queue, e))
        BY <2>2, <3>1, AppendOnce
      <4>2. queue' = Append(queue, e) /\ access' = [access EXCEPT ![e] =
                IF e \in PermEvents THEN "waiting" ELSE "noticed"]
        BY <1>1, <3>2 DEF Raise
      <4> QED BY <4>1, <4>2
    <3>3. CASE ~(Len(queue) < QueueLimit)
      <4>1. /\ queue' = IF Overflow \in ToSet(queue) THEN queue ELSE Append(queue, Overflow)
            /\ access' = [access EXCEPT ![e] = "passed"]
        BY <1>1, <3>3 DEF Raise
      <4>2. Overflow \notin ToSet(queue) =>
                /\ ToSet(Append(queue, Overflow)) = ToSet(queue) \cup {Overflow}
                /\ Once(Append(queue, Overflow))
        BY <3>1, AppendOnce
      <4>3. e # Overflow BY EventAssumption
      <4> QED BY <2>2, <3>1, <4>1, <4>2, <4>3
    <3> QED BY <3>2, <3>3
  <2>4. /\ access'[e] = x /\ \A f \in Events \ {e} : access'[f] = access[f]
    BY <2>3 DEF TypeOK
  <2>5. \A f \in Events \ {e} : f \in ToSet(queue') <=> f \in ToSet(queue)
    BY <2>3, EventAssumption
  <2>6. Overflow \notin held /\ ToSet(queue') \cap held = {}
    BY <1>1, <2>2, <2>3, EventAssumption DEF TypeOK, EventsInv
  <2>7. \A f \in PermEvents : access'[f] = "waiting" <=> f \in ToSet(queue') \cup held
    BY <1>1, <2>2, <2>3, <2>4, <2>5, EventAssumption DEF EventsInv, DescriptorsOwned
  <2>8. DescriptorsOwned'
    BY <1>1, <2>1, <2>7 DEF EventsInv, DescriptorsOwned, WaitingOn
  <2>9. e \notin ToSet(batch)
    BY <1>1, <2>2, EventAssumption DEF EventsInv, DescriptorsOwned
  <2>10. ASSUME NEW f \in Events
         PROVE  /\ f \in ToSet(queue') \cup held => access'[f] \in {"waiting", "noticed"}
                /\ access'[f] = "none" \/ f \in ToSet(queue') \cup ToSet(batch) => view[f] = NoView
    <3>1. CASE f = e BY <2>2, <2>3, <2>4, <3>1
    <3>2. CASE f # e BY <1>1, <2>4, <2>5, <3>2 DEF EventsInv
    <3> QED BY <3>1, <3>2
  <2> QED BY <1>1, <2>1, <2>3, <2>6, <2>8, <2>10 DEF EventsInv
<1>2. ASSUME NEW i \in DOMAIN queue, Withdraw(i), Running PROVE EventsInv'
  <2> DEFINE e == queue[i]
  <2>1. /\ e \in PermEvents /\ e \in Events /\ e # Overflow
        /\ queue' = RemoveAt(queue, i) /\ access' = [access EXCEPT ![e] = "withdrawn"]
        /\ UNCHANGED <<pc, held, batch, pending, view>> /\ Running'
    BY <1>2, EventAssumption DEF Withdraw, Running
  <2>2. Once(queue') /\ ToSet(queue') = ToSet(queue) \ {e} /\ e \in ToSet(queue)
    <3>1. queue \in Seq(Message) /\ Once(queue)
      BY <1>2 DEF TypeOK, Message, EventsInv
    <3>2. Once(RemoveAt(queue, i)) /\ ToSet(RemoveAt(queue, i)) = ToSet(queue) \ {queue[i]}
      BY <3>1, RemoveOnce
    <3>3. e \in ToSet(queue) BY DEF ToSet
    <3> QED BY <2>1, <3>2, <3>3
  <2>3. access'[e] = "withdrawn" /\ \A f \in Events \ {e} : access'[f] = access[f]
    BY <2>1 DEF TypeOK
  <2>4. e \notin held
    BY <1>2, <2>2 DEF EventsInv
  <2>5. \A f \in PermEvents : access'[f] = "waiting" <=> f \in ToSet(queue') \cup held
    BY <1>2, <2>2, <2>3, <2>4, EventAssumption DEF EventsInv, DescriptorsOwned
  <2>6. DescriptorsOwned'
    BY <1>2, <2>1, <2>5 DEF EventsInv, DescriptorsOwned, WaitingOn
  <2>7. e \notin ToSet(batch)
    BY <1>2, <2>1, <2>4 DEF EventsInv, DescriptorsOwned
  <2>8. ASSUME NEW f \in Events
        PROVE  /\ f \in ToSet(queue') \cup held => access'[f] \in {"waiting", "noticed"}
               /\ access'[f] = "none" \/ f \in ToSet(queue') \cup ToSet(batch) => view[f] = NoView
    BY <1>2, <2>2, <2>3, <2>4, <2>7 DEF EventsInv
  <2> QED BY <1>2, <2>1, <2>2, <2>6, <2>8 DEF EventsInv
<1>3. ASSUME NEW q \in Procs, ProcessGone(q) PROVE EventsInv'
  BY <1>3, EventsStay DEF ProcessGone, Running
<1>4. CASE ~Running
  <2>1. ~Running' BY <1>4 DEF Environment, Raise, Withdraw, ProcessGone, Running
  <2> QED BY <2>1 DEF EventsInv
<1> QED BY <1>1, <1>2, <1>3, <1>4 DEF Environment

LEMMA EventsRead == ASSUME TypeOK, EventsInv, ReadBatch PROVE EventsInv'
<1> USE DEF kernelVars, coordVars, loopVars, channelVars, workerVars, historyVars
<1> DEFINE n == Smaller(Len(queue), BatchLimit)
<1>1. /\ pc = "read" /\ queue # <<>> /\ pc' = "handle" /\ Running /\ Running'
      /\ batch' = SubSeq(queue, 1, n) /\ queue' = SubSeq(queue, n + 1, Len(queue))
      /\ held' = held \cup (ToSet(batch') \ {Overflow})
      /\ UNCHANGED <<access, pending, view>>
  BY DEF ReadBatch, Running
<1>2. queue \in Seq(Message) /\ Once(queue) /\ n \in 0 .. Len(queue)
  BY <1>1, ParameterAssumption DEF TypeOK, Message, EventsInv, Smaller
<1>3. /\ Once(batch') /\ Once(queue')
      /\ ToSet(queue) = ToSet(batch') \cup ToSet(queue') /\ ToSet(batch') \cap ToSet(queue') = {}
  BY <1>1, <1>2, SplitOnce
<1>4. batch = <<>> /\ ToSet(batch) = {}
  BY <1>1 DEF EventsInv, ToSet
<1>5. ToSet(queue) \cap held = {} /\ Overflow \notin held
  BY <1>1, EventAssumption DEF EventsInv, TypeOK
<1>6. held = UNION {WaitingOn(i) : i \in DOMAIN pending}
  BY <1>1, <1>4 DEF EventsInv, DescriptorsOwned
<1>7. DescriptorsOwned'
  <2>1. held' = (ToSet(batch') \ {Overflow}) \cup UNION {WaitingOn(i) : i \in DOMAIN pending}
    BY <1>1, <1>6
  <2>2. ASSUME NEW i \in DOMAIN pending
        PROVE  /\ WaitingOn(i) \cap ToSet(batch') = {}
               /\ \A j \in DOMAIN pending \ {i} : WaitingOn(i) \cap WaitingOn(j) = {}
    <3>1. WaitingOn(i) \subseteq held BY <1>6
    <3> QED BY <1>1, <1>3, <1>5, <3>1 DEF EventsInv, DescriptorsOwned
  <2>3. \A f \in PermEvents : access[f] = "waiting" <=> f \in ToSet(queue') \cup held'
    BY <1>1, <1>3, EventAssumption DEF EventsInv, DescriptorsOwned
  <2>4. held' = ((ToSet(batch) \ {Overflow}) \cup UNION {WaitingOn(i) : i \in DOMAIN pending})'
    BY <1>1, <2>1 DEF WaitingOn
  <2>5. Once(batch') BY <1>3
  <2> QED BY <1>1, <2>2, <2>3, <2>4, <2>5 DEF DescriptorsOwned, WaitingOn, Once
<1>8. ASSUME NEW f \in Events
      PROVE  /\ f \in ToSet(queue') \cup held' => access[f] \in {"waiting", "noticed"}
             /\ access[f] = "none" \/ f \in ToSet(queue') \cup ToSet(batch') => view[f] = NoView
  BY <1>1, <1>3 DEF EventsInv
<1>9. Overflow \notin held' \cap Events
  BY EventAssumption
<1>10. ToSet(queue') \cap held' = {}
  BY <1>1, <1>3, <1>5
<1> QED BY <1>1, <1>3, <1>7, <1>8, <1>10 DEF EventsInv

LEMMA EventsHandled ==
    ASSUME TypeOK, IndexInv, EventsInv, HandleEvent
    PROVE  EventsInv'
<1> USE DEF kernelVars, coordVars, loopVars, channelVars, workerVars, historyVars
<1>1. ASSUME NEW e \in Events, NEW v \in Views[e], NEW failed, NEW d \in Decisions,
             Handling(e, v), failed \in WriteFailures({e}), Respond({e}, d, failed),
             AfterEvent(failed = {}), UNCHANGED <<queue, pending>>
      PROVE  EventsInv'
  <2>1. CASE failed = {}
    <3>1. /\ held' = held \ {e}
          /\ access' = [f \in Events |-> IF f = e /\ e \in PermEvents THEN d ELSE access[f]]
      BY <1>1, <2>1 DEF Respond
    <3>2. AfterEvent(TRUE) BY <1>1, <2>1
    <3> QED BY <1>1, <3>1, <3>2, AnsweredEvent
  <2>2. CASE failed # {}
    <3>1. ~Running' BY <1>1, <2>2, EventInHand DEF AfterEvent, Running
    <3> QED BY <3>1 DEF EventsInv
  <2> QED BY <2>1, <2>2
<1>2. ASSUME NEW e \in Events, NEW v \in Views[e], NEW failed,
             HandleSettled(e, v, failed) \/ HandleNoSession(e, v, failed)
      PROVE  EventsInv'
  BY <1>1, <1>2, ParameterAssumption DEF HandleSettled, HandleNoSession
<1>3. ASSUME NEW e \in Events, NEW v \in Views[e], NEW failed,
             SendFails(e, v, failed) \/ HandleError(e, v)
      PROVE  EventsInv'
  <2>1. ~Running' BY <1>3, AfterEventGoesOn DEF SendFails, HandleError, Handling
  <2> QED BY <2>1 DEF EventsInv
<1>4. ASSUME NEW e \in Events, NEW v \in Views[e], NEW id \in DOMAIN pending,
             JoinPrompt(e, v, id)
      PROVE  EventsInv'
  <2>1. /\ Handling(e, v) /\ AfterEvent(TRUE) /\ UNCHANGED <<queue, held, access>>
        /\ pending' = [pending EXCEPT ![id].events = @ \cup {e}]
    BY <1>4 DEF JoinPrompt
  <2>2. /\ DOMAIN pending' = DOMAIN pending \cup {id}
        /\ pending'[id].events = {e} \cup (IF id \in DOMAIN pending
                                            THEN pending[id].events ELSE {})
        /\ \A i \in DOMAIN pending \ {id} : pending'[i].events = pending[i].events
    BY <2>1 DEF TypeOK, Pending
  <2> QED BY <2>1, <2>2, PutOffEvent
<1>5. ASSUME NEW e \in Events, NEW v \in Views[e], StartPrompt(e, v) PROVE EventsInv'
  <2>1. /\ Handling(e, v) /\ AfterEvent(TRUE) /\ UNCHANGED <<queue, held, access>>
        /\ pending' = [i \in DOMAIN pending \cup {nextId} |->
               IF i = nextId THEN [key |-> v.key, auth |-> v.auth, events |-> {e}]
               ELSE pending[i]]
    BY <1>5 DEF StartPrompt
  <2>2. nextId \notin DOMAIN pending
    BY DEF IndexInv, IdsUsed, TypeOK
  <2>3. /\ DOMAIN pending' = DOMAIN pending \cup {nextId}
        /\ pending'[nextId].events = {e}
        /\ \A i \in DOMAIN pending \ {nextId} : pending'[i].events = pending[i].events
    BY <2>1
  <2> QED BY <2>1, <2>2, <2>3, PutOffEvent
<1>6. CASE HandleOverflow
  <2>1. ~Running' BY <1>6, AfterEventGoesOn DEF HandleOverflow
  <2> QED BY <2>1 DEF EventsInv
<1> QED BY <1>2, <1>3, <1>4, <1>5, <1>6 DEF HandleEvent

LEMMA EventsCompleted ==
    ASSUME TypeOK, EventsInv, NEW failed, CompletePrompt(failed)
    PROVE  EventsInv'
<1> USE DEF kernelVars, coordVars, loopVars, channelVars, workerVars, historyVars
<1> DEFINE c == Head(completions)  es == pending[c.id].events
           d == IF c.outcome = Failure THEN Default ELSE c.outcome.decision
<1>1. /\ pc = "drainChannel" /\ completions # <<>> /\ c.id \in DOMAIN pending
      /\ Forget(c.id) /\ Respond(es, d, failed) /\ UNCHANGED <<queue, batch, view>>
      /\ pc' = IF failed = {} THEN pc ELSE "drop"
  BY DEF CompletePrompt
<1>2. CASE failed # {}
  BY <1>1, <1>2 DEF EventsInv, Running
<1>3. CASE failed = {}
  <2>1. d \in Decisions
    <3>1. c \in Completion BY <1>1, TailInSeq DEF TypeOK
    <3> QED BY <3>1, ParameterAssumption DEF Completion, Outcome
  <2>2. Running /\ Running' /\ pc' = pc /\ pc # "handle"
    BY <1>1, <1>3 DEF Running
  <2>3. /\ held' = held \ es
        /\ \A f \in Events : access'[f] = IF f \in es \cap PermEvents THEN d ELSE access[f]
    BY <1>1, <1>3 DEF Respond
  <2>4. /\ DOMAIN pending' = DOMAIN pending \ {c.id}
        /\ \A i \in DOMAIN pending' : WaitingOn(i)' = WaitingOn(i)
    BY <1>1 DEF Forget, WaitingOn
  <2>5. /\ es = WaitingOn(c.id) /\ es \subseteq held /\ es \cap ToSet(batch) = {}
        /\ \A i \in DOMAIN pending \ {c.id} : WaitingOn(i) \cap es = {}
        /\ es \cap ToSet(queue) = {}
    <3>1. es = WaitingOn(c.id) BY DEF WaitingOn
    <3>2. WaitingOn(c.id) \subseteq held
      BY <1>1, <2>2 DEF EventsInv, DescriptorsOwned
    <3> QED BY <1>1, <2>2, <3>1, <3>2 DEF EventsInv, DescriptorsOwned
  <2>6. held' = (ToSet(batch) \ {Overflow}) \cup UNION {WaitingOn(i)' : i \in DOMAIN pending'}
    <3>1. UNION {WaitingOn(i) : i \in DOMAIN pending}
            = es \cup UNION {WaitingOn(i) : i \in DOMAIN pending'}
      BY <1>1, <2>4, <2>5
    <3>2. (UNION {WaitingOn(i) : i \in DOMAIN pending'}) \cap es = {}
      BY <2>4, <2>5
    <3>3. held = (ToSet(batch) \ {Overflow}) \cup UNION {WaitingOn(i) : i \in DOMAIN pending}
      BY <2>2 DEF EventsInv, DescriptorsOwned
    <3>4. UNION {WaitingOn(i) : i \in DOMAIN pending'}
             = UNION {WaitingOn(i)' : i \in DOMAIN pending'}
      BY <2>4
    <3> QED BY <2>3, <2>5, <3>1, <3>2, <3>3, <3>4
  <2>7. DescriptorsOwned'
    <3>1. held' = ((ToSet(batch) \ {Overflow}) \cup UNION {WaitingOn(i) : i \in DOMAIN pending})'
      BY <1>1, <2>6
    <3>2. ASSUME NEW i \in DOMAIN pending'
          PROVE  /\ WaitingOn(i)' \cap ToSet(batch') = {}
                 /\ \A j \in DOMAIN pending' \ {i} : WaitingOn(i)' \cap WaitingOn(j)' = {}
      BY <1>1, <2>2, <2>4 DEF EventsInv, DescriptorsOwned
    <3>3. ASSUME NEW f \in PermEvents
          PROVE  access'[f] = "waiting" <=> f \in ToSet(queue') \cup held'
      <4>1. f \in Events /\ d # "waiting" BY <2>1, EventAssumption DEF Decisions
      <4>2. access[f] = "waiting" <=> f \in ToSet(queue) \cup held
        BY <2>2 DEF EventsInv, DescriptorsOwned
      <4> QED BY <1>1, <2>3, <2>5, <4>1, <4>2
    <3>4. Once(batch') BY <1>1, <2>2 DEF EventsInv, DescriptorsOwned, Once
    <3> QED BY <3>1, <3>2, <3>3, <3>4 DEF DescriptorsOwned, Once
  <2>8. ASSUME NEW f \in Events
        PROVE  /\ f \in ToSet(queue') \cup held' => access'[f] \in {"waiting", "noticed"}
               /\ access'[f] = "none" \/ f \in ToSet(queue') \cup ToSet(batch')
                     => view'[f] = NoView
    <3>1. d # "none" BY <2>1 DEF Decisions
    <3>2. f \in es => f \notin ToSet(queue) \cup ToSet(batch) \cup held' BY <2>3, <2>5
    <3>3. f \in ToSet(queue) \cup held => access[f] \in {"waiting", "noticed"}
      BY <2>2 DEF EventsInv
    <3>4. access[f] = "none" \/ f \in ToSet(queue) \cup ToSet(batch) => view[f] = NoView
      BY <2>2 DEF EventsInv
    <3> QED BY <1>1, <2>3, <3>1, <3>2, <3>3, <3>4
  <2>9. Once(queue') /\ ToSet(queue') \cap held' = {} /\ batch' = <<>>
    BY <1>1, <2>2, <2>3 DEF EventsInv
  <2> QED BY <2>7, <2>8, <2>9 DEF EventsInv
<1> QED BY <1>2, <1>3

LEMMA EventsNext ==
    ASSUME TypeOK, IndexInv, EventsInv, [Next]_vars
    PROVE  EventsInv'
<1> USE DEF kernelVars, coordVars, loopVars, channelVars, workerVars, historyVars
<1>1. CASE Environment BY <1>1, EventsEnvironment
<1>2. CASE Poll \/ DrainWake \/ ChannelDrained
  BY <1>2, EventsStay DEF Poll, DrainWake, ChannelDrained, Running
<1>3. CASE LoopError \/ DropCoordinator \/ Exit
  BY <1>3 DEF LoopError, DropCoordinator, Exit, EventsInv, Running
<1>4. ASSUME NEW done, NEW failed, FailPending(done, failed) PROVE EventsInv'
  BY <1>4 DEF FailPending, EventsInv, Running
<1>5. CASE Worker \/ Backend \/ WorkerPanic
  BY <1>5, EventsStay
  DEF Worker, WorkerReceive, WorkerFinish, WorkerCheck, WorkerSend, WorkerWake, WorkerDrop,
      Backend, WorkerAnswer, WorkerPanic, Running
<1>6. CASE UNCHANGED vars
  BY <1>6, EventsStay DEF vars, Running
<1> QED
  BY <1>1, <1>2, <1>3, <1>4, <1>5, <1>6, EventsRead, EventsHandled, EventsCompleted
  DEF Next, Loop

-----------------------------------------------------------------------------
(* What pending requests wait for.                                          *)

(* Only a prompt leads to a question. *)
LEMMA AskedIsPrompt ==
    ASSUME NEW e \in Events, NEW v \in Views[e], Settled(v) = NoDecision
    PROVE  v \in View /\ v.verdict = "Prompt"
BY ViewAssumption DEF View, Settled, NoDecision, Decisions

LEMMA PendingHandled ==
    ASSUME TypeOK, IndexInv, EventsInv, PendingInv, HandleEvent
    PROVE  PendingInv'
<1> USE DEF kernelVars, coordVars, loopVars, channelVars, workerVars, historyVars
<1>1. ASSUME NEW e \in Events, NEW v \in Views[e], Handling(e, v), UNCHANGED pending
      PROVE  PendingInv'
  <2>1. /\ Running /\ \A i \in DOMAIN pending : e \notin WaitingOn(i)
        /\ \A f \in Events \ {e} : view'[f] = view[f]
    BY <1>1, EventInHand
  <2>2. ASSUME NEW i \in DOMAIN pending, NEW f \in WaitingOn(i)
        PROVE  f # e /\ view'[f] = view[f]
    <3>1. f \in Events BY DEF TypeOK, WaitingOn, Pending
    <3> QED BY <2>1, <3>1
  <2> QED BY <1>1, <2>1, <2>2 DEF PendingInv, WaitingOn
<1>2. ASSUME NEW e \in Events, NEW v \in Views[e], NEW failed,
             \/ HandleSettled(e, v, failed) \/ HandleNoSession(e, v, failed)
             \/ SendFails(e, v, failed) \/ HandleError(e, v)
      PROVE  PendingInv'
  BY <1>1, <1>2 DEF HandleSettled, HandleNoSession, SendFails, HandleError
<1>3. ASSUME NEW e \in Events, NEW v \in Views[e], Handling(e, v), NEW id,
             v.verdict = "Prompt", DOMAIN pending' = DOMAIN pending \cup {id},
             pending'[id].key = v.key,
             id \in DOMAIN pending => pending[id].key = v.key /\ v.key # NoKey,
             pending'[id].events = {e} \cup (IF id \in DOMAIN pending
                                              THEN pending[id].events ELSE {}),
             \A i \in DOMAIN pending \ {id} : pending'[i] = pending[i]
      PROVE  PendingInv'
  <2>1. /\ Running /\ \A i \in DOMAIN pending : e \notin WaitingOn(i)
        /\ view'[e] = v /\ \A f \in Events \ {e} : view'[f] = view[f]
    BY <1>3, EventInHand
  <2>2. ASSUME NEW i \in DOMAIN pending, NEW f \in WaitingOn(i)
        PROVE  f # e /\ view'[f] = view[f] /\ view[f].verdict = "Prompt"
               /\ view[f].key = pending[i].key
               /\ (pending[i].key = NoKey => WaitingOn(i) = {f})
    <3>1. f \in Events BY DEF TypeOK, WaitingOn, Pending
    <3> QED BY <2>1, <3>1 DEF PendingInv
  <2>4. ASSUME NEW i \in DOMAIN pending', NEW f \in WaitingOn(i)'
        PROVE  /\ view'[f].verdict = "Prompt" /\ view'[f].key = pending'[i].key
               /\ pending'[i].key = NoKey => WaitingOn(i)' = {f}
    <3>1. CASE i # id
      <4>1. WaitingOn(i)' = WaitingOn(i) /\ pending'[i] = pending[i] /\ i \in DOMAIN pending
        BY <1>3, <3>1 DEF WaitingOn
      <4> QED BY <2>2, <2>4, <4>1
    <3>2. CASE i = id
      <4>1. WaitingOn(i)' = {e} \cup (IF id \in DOMAIN pending THEN WaitingOn(id) ELSE {})
        BY <1>3, <3>2 DEF WaitingOn
      <4>2. f = e \/ (id \in DOMAIN pending /\ f \in WaitingOn(id))
        BY <2>4, <4>1
      <4> QED BY <1>3, <2>1, <2>2, <3>2, <4>1, <4>2
    <3> QED BY <3>1, <3>2
  <2> QED BY <2>4 DEF PendingInv
<1>4. ASSUME NEW e \in Events, NEW v \in Views[e], NEW id \in DOMAIN pending,
             JoinPrompt(e, v, id)
      PROVE  PendingInv'
  <2>1. /\ Handling(e, v) /\ Settled(v) = NoDecision /\ id \in PromptFor(v.key)
        /\ pending' = [pending EXCEPT ![id].events = @ \cup {e}]
    BY <1>4 DEF JoinPrompt, MustAsk
  <2>2. v \in View /\ v.verdict = "Prompt"
    BY <2>1, AskedIsPrompt
  <2>3. v.key # NoKey /\ id \in pendingByKey[v.key] /\ v.key \in Keys
    BY <2>1, <2>2 DEF PromptFor, View
  <2>4. pending[id].key = v.key
    BY <2>3 DEF IndexInv, IndexAgrees
  <2>5. /\ DOMAIN pending' = DOMAIN pending \cup {id}
        /\ pending'[id].key = v.key
        /\ pending'[id].events = {e} \cup (IF id \in DOMAIN pending
                                            THEN pending[id].events ELSE {})
        /\ \A i \in DOMAIN pending \ {id} : pending'[i] = pending[i]
    BY <2>1, <2>4 DEF TypeOK, Pending
  <2> QED BY <1>3, <2>1, <2>2, <2>3, <2>4, <2>5
<1>5. ASSUME NEW e \in Events, NEW v \in Views[e], StartPrompt(e, v) PROVE PendingInv'
  <2>1. /\ Handling(e, v) /\ Settled(v) = NoDecision
        /\ pending' = [i \in DOMAIN pending \cup {nextId} |->
               IF i = nextId THEN [key |-> v.key, auth |-> v.auth, events |-> {e}]
               ELSE pending[i]]
    BY <1>5 DEF StartPrompt, MustAsk
  <2>2. nextId \notin DOMAIN pending
    BY DEF IndexInv, IdsUsed, TypeOK
  <2>3. v.verdict = "Prompt" BY <2>1, AskedIsPrompt
  <2>4. /\ DOMAIN pending' = DOMAIN pending \cup {nextId}
        /\ pending'[nextId].key = v.key
        /\ pending'[nextId].events = {e} \cup (IF nextId \in DOMAIN pending
                                                THEN pending[nextId].events ELSE {})
        /\ \A i \in DOMAIN pending \ {nextId} : pending'[i] = pending[i]
    BY <2>1, <2>2
  <2> QED BY <1>3, <2>1, <2>2, <2>3, <2>4
<1>6. CASE HandleOverflow
  <2>1. ~Running' BY <1>6, AfterEventGoesOn DEF HandleOverflow
  <2> QED BY <2>1 DEF PendingInv
<1> QED BY <1>2, <1>4, <1>5, <1>6 DEF HandleEvent

LEMMA PendingNext ==
    ASSUME TypeOK, IndexInv, EventsInv, PendingInv, [Next]_vars
    PROVE  PendingInv'
<1> USE DEF kernelVars, coordVars, loopVars, channelVars, workerVars, historyVars
<1>1. CASE UNCHANGED <<pending, view>> /\ (Running' => Running)
  BY <1>1 DEF PendingInv, WaitingOn
<1>2. CASE Environment
  BY <1>1, <1>2 DEF Environment, Raise, Withdraw, ProcessGone, Running
<1>3. CASE Poll \/ DrainWake \/ ChannelDrained \/ ReadBatch
  BY <1>1, <1>3 DEF Poll, DrainWake, ChannelDrained, ReadBatch, Running
<1>4. CASE LoopError \/ DropCoordinator \/ Exit
  BY <1>4 DEF LoopError, DropCoordinator, Exit, PendingInv, Running
<1>5. ASSUME NEW done, NEW failed, FailPending(done, failed) PROVE PendingInv'
  BY <1>5 DEF FailPending, PendingInv, Running
<1>6. CASE Worker \/ Backend \/ WorkerPanic
  BY <1>1, <1>6
  DEF Worker, WorkerReceive, WorkerFinish, WorkerCheck, WorkerSend, WorkerWake, WorkerDrop,
      Backend, WorkerAnswer, WorkerPanic, Running
<1>7. CASE UNCHANGED vars
  BY <1>1, <1>7 DEF vars, Running
<1>8. ASSUME NEW failed, CompletePrompt(failed) PROVE PendingInv'
  <2>1. /\ Running /\ UNCHANGED view
        /\ DOMAIN pending' \subseteq DOMAIN pending
        /\ \A i \in DOMAIN pending' : pending'[i] = pending[i]
    BY <1>8 DEF CompletePrompt, Forget, Running
  <2> QED BY <2>1 DEF PendingInv, WaitingOn
<1> QED
  BY <1>2, <1>3, <1>4, <1>5, <1>6, <1>7, <1>8, PendingHandled DEF Next, Loop

-----------------------------------------------------------------------------
(* Where the requests are between the two threads.                          *)

(* The job queue shrinks from its front. *)
LEMMA TailStages ==
    ASSUME NEW S, NEW s \in Seq(S), s # <<>>, Increasing(s)
    PROVE  /\ Increasing(Tail(s))
           /\ \A n \in DOMAIN Tail(s) : Head(s).id < Tail(s)[n].id
           /\ \A i : HasId(s, i) => i = Head(s).id \/ HasId(Tail(s), i)
<1>1. /\ Len(s) \in Nat \ {0} /\ DOMAIN Tail(s) = 1 .. (Len(s) - 1)
      /\ DOMAIN s = 1 .. Len(s) /\ Head(s) = s[1]
      /\ \A n \in DOMAIN Tail(s) : Tail(s)[n] = s[n + 1]
  BY TailElements
<1>2. Increasing(Tail(s)) /\ \A n \in DOMAIN Tail(s) : Head(s).id < Tail(s)[n].id
  <2>1. \A n \in DOMAIN Tail(s) : n + 1 \in DOMAIN s /\ 1 \in DOMAIN s /\ 1 < n + 1
    BY <1>1
  <2>2. \A m, n \in DOMAIN Tail(s) : m < n => m + 1 < n + 1
    BY <1>1
  <2> QED BY <1>1, <2>1, <2>2 DEF Increasing
<1>3. ASSUME NEW i, NEW n \in DOMAIN s, s[n].id = i, i # Head(s).id
      PROVE  HasId(Tail(s), i)
  <2>1. n - 1 \in DOMAIN Tail(s) /\ n - 1 + 1 = n BY <1>1, <1>3
  <2>2. Tail(s)[n - 1].id = i BY <1>1, <1>3, <2>1
  <2> QED BY <2>1, <2>2 DEF HasId
<1> QED BY <1>2, <1>3 DEF HasId

(* It grows at its end. *)
LEMMA AppendStages ==
    ASSUME NEW S, NEW s \in Seq(S), NEW x \in S, Increasing(s),
           \A n \in DOMAIN s : s[n].id < x.id
    PROVE  /\ Increasing(Append(s, x))
           /\ HasId(Append(s, x), x.id)
           /\ \A i : HasId(s, i) => HasId(Append(s, x), i)
           /\ \A n \in DOMAIN Append(s, x) :
                 Append(s, x)[n] = x \/ (n \in DOMAIN s /\ Append(s, x)[n] = s[n])
<1>1. /\ Len(s) \in Nat
      /\ DOMAIN Append(s, x) = 1 .. (Len(s) + 1) /\ DOMAIN s = 1 .. Len(s)
      /\ \A n \in DOMAIN s : Append(s, x)[n] = s[n]
      /\ Append(s, x)[Len(s) + 1] = x
  BY AppendElements
<1>2. \A n \in DOMAIN Append(s, x) : n \in DOMAIN s \/ n = Len(s) + 1
  BY <1>1
<1>3. \A m, n \in DOMAIN Append(s, x) : m < n => m \in DOMAIN s
  BY <1>1
<1>4. Increasing(Append(s, x))
  BY <1>1, <1>2, <1>3 DEF Increasing
<1>5. Len(s) + 1 \in DOMAIN Append(s, x) /\ DOMAIN s \subseteq DOMAIN Append(s, x)
  BY <1>1
<1> QED BY <1>1, <1>2, <1>4, <1>5 DEF HasId

LEMMA StagesStay ==
    ASSUME StagesInv, UNCHANGED <<pending, jobs, hand, completions>>,
           Running' => Running,
           ~WriterClosed' /\ worker' # "dropWriter" =>
               ~WriterClosed /\ worker # "dropWriter"
    PROVE  StagesInv'
BY DEF StagesInv

(* Handling an event starts one request at most. *)
LEMMA StagesHandled ==
    ASSUME TypeOK, IndexInv, StagesInv, HandleEvent
    PROVE  StagesInv'
<1> USE DEF kernelVars, coordVars, loopVars, channelVars, workerVars, historyVars
<1>1. ASSUME NEW e \in Events, NEW v \in Views[e], NEW failed,
             \/ HandleSettled(e, v, failed) \/ HandleNoSession(e, v, failed)
             \/ SendFails(e, v, failed) \/ HandleError(e, v)
      PROVE  StagesInv'
  <2>1. Running BY <1>1
    DEF HandleSettled, HandleNoSession, SendFails, HandleError, Handling, Running
  <2> QED BY <1>1, <2>1, StagesStay
    DEF HandleSettled, HandleNoSession, SendFails, HandleError, WriterClosed
<1>2. ASSUME NEW e \in Events, NEW v \in Views[e], NEW id \in DOMAIN pending,
             JoinPrompt(e, v, id)
      PROVE  StagesInv'
  <2>1. /\ Running /\ UNCHANGED <<jobs, hand, completions, worker>>
        /\ pending' = [pending EXCEPT ![id].events = @ \cup {e}]
    BY <1>2 DEF JoinPrompt, Handling, Running
  <2>2. /\ DOMAIN pending' = DOMAIN pending
        /\ \A i \in DOMAIN pending :
               /\ pending'[i].key = pending[i].key /\ pending'[i].auth = pending[i].auth
               /\ pending[i].events \subseteq pending'[i].events
    BY <2>1 DEF TypeOK, Pending
  <2>3. \A j : Matches(j, pending) => Matches(j, pending')
    BY <2>2 DEF Matches
  <2> QED BY <2>1, <2>2, <2>3 DEF StagesInv, WriterClosed
<1>3. ASSUME NEW e \in Events, NEW v \in Views[e], StartPrompt(e, v) PROVE StagesInv'
  <2> DEFINE x == [id |-> nextId, key |-> v.key, auth |-> v.auth, event |-> e]
  <2>1. /\ Running /\ UNCHANGED <<hand, completions, worker>> /\ jobs' = Append(jobs, x)
        /\ pending' = [i \in DOMAIN pending \cup {nextId} |->
               IF i = nextId THEN [key |-> v.key, auth |-> v.auth, events |-> {e}]
               ELSE pending[i]]
    BY <1>3 DEF StartPrompt, Handling, Running
  <2>2. x \in Job /\ jobs \in Seq(Job) /\ x.id = nextId
    BY ViewAssumption DEF TypeOK, Job, View
  <2>3. \A i \in DOMAIN pending : i < nextId /\ i # nextId
    BY DEF IndexInv, IdsUsed, TypeOK
  <2>4. \A j : Matches(j, pending) => Matches(j, pending') /\ j.id < nextId
    BY <2>1, <2>3 DEF Matches
  <2>5. Matches(x, pending')
    BY <2>1 DEF Matches
  <2>6. \A n \in DOMAIN jobs : jobs[n].id < x.id
    BY <2>1, <2>2, <2>4 DEF StagesInv
  <2> HIDE DEF x
  <2>7. /\ Increasing(jobs') /\ HasId(jobs', nextId)
        /\ \A i : HasId(jobs, i) => HasId(jobs', i)
        /\ \A n \in DOMAIN jobs' :
               jobs'[n] = x \/ (n \in DOMAIN jobs /\ jobs'[n] = jobs[n])
    BY <2>1, <2>2, <2>6, AppendStages DEF StagesInv
  <2>8. \A n \in DOMAIN jobs' : Matches(jobs'[n], pending')
    BY <2>1, <2>4, <2>5, <2>7 DEF StagesInv
  <2>9. /\ \A n \in DOMAIN hand : Matches(hand[n], pending') /\ hand[n].id < nextId
        /\ \A n \in DOMAIN completions : completions[n].id \in DOMAIN pending'
                                         /\ completions[n].id < nextId
    BY <2>1, <2>3, <2>4 DEF StagesInv
  <2>10. Before(completions, jobs') /\ Before(hand, jobs')
    BY <2>1, <2>2, <2>7, <2>9 DEF StagesInv, Before
  <2>11. DOMAIN pending' = DOMAIN pending \cup {nextId} BY <2>1
  <2> QED BY <2>1, <2>7, <2>8, <2>9, <2>10, <2>11 DEF StagesInv, WriterClosed
<1>4. CASE HandleOverflow
  <2>1. ~Running' BY <1>4, AfterEventGoesOn DEF HandleOverflow
  <2> QED BY <2>1 DEF StagesInv
<1> QED BY <1>1, <1>2, <1>3, <1>4 DEF HandleEvent

(* Taking a completion takes the oldest request. *)
LEMMA StagesCompleted ==
    ASSUME TypeOK, StagesInv, NEW failed, CompletePrompt(failed)
    PROVE  StagesInv'
<1> USE DEF kernelVars, coordVars, loopVars, channelVars, workerVars, historyVars
<1> DEFINE c == Head(completions)
<1>1. /\ Running /\ completions # <<>> /\ completions' = Tail(completions)
      /\ c.id \in DOMAIN pending /\ Forget(c.id)
      /\ UNCHANGED <<jobs, hand, worker>>
  BY DEF CompletePrompt, Running
<1>2. /\ DOMAIN pending' = DOMAIN pending \ {c.id}
      /\ \A i \in DOMAIN pending' : pending'[i] = pending[i]
  BY <1>1 DEF Forget
<1>3. completions \in Seq(Completion) /\ c.id \in Nat
  BY <1>1 DEF TypeOK
<1>4. /\ Increasing(completions')
      /\ \A n \in DOMAIN completions' : c.id < completions'[n].id
      /\ \A i : HasId(completions, i) => i = c.id \/ HasId(completions', i)
  BY <1>1, <1>3, TailStages DEF StagesInv
<1>5. /\ \A n \in DOMAIN completions' :
             n + 1 \in DOMAIN completions /\ completions'[n] = completions[n + 1]
      /\ 1 \in DOMAIN completions /\ c = completions[1]
  BY <1>1, <1>3, TailElements
<1>6. /\ \A n \in DOMAIN hand : c.id < hand[n].id
      /\ \A n \in DOMAIN jobs : c.id < jobs[n].id
  BY <1>1, <1>5 DEF StagesInv, Before
<1> HIDE DEF c
<1>7. \A j : Matches(j, pending) /\ c.id < j.id => Matches(j, pending')
  BY <1>2, <1>3 DEF Matches
<1>8. \A n \in DOMAIN completions' : completions'[n].id \in DOMAIN pending'
  BY <1>1, <1>2, <1>3, <1>4, <1>5 DEF StagesInv
<1>9. Before(completions', hand) /\ Before(completions', jobs)
  BY <1>1, <1>5 DEF StagesInv, Before
<1>10. /\ \A n \in DOMAIN jobs : Matches(jobs[n], pending')
       /\ \A n \in DOMAIN hand : Matches(hand[n], pending')
  BY <1>1, <1>6, <1>7 DEF StagesInv
<1>11. ~WriterClosed /\ worker # "dropWriter" =>
          \A i \in DOMAIN pending' :
              HasId(completions', i) \/ HasId(hand, i) \/ HasId(jobs, i)
  BY <1>1, <1>2, <1>4 DEF StagesInv
<1> QED BY <1>1, <1>4, <1>8, <1>9, <1>10, <1>11 DEF StagesInv, WriterClosed

(* The worker takes the oldest job and passes it on after all before it. *)
LEMMA StagesWorker ==
    ASSUME TypeOK, StagesInv, Worker \/ Backend \/ WorkerPanic
    PROVE  StagesInv'
<1> USE DEF kernelVars, coordVars, loopVars, channelVars, workerVars, historyVars
<1>1. CASE WorkerFinish \/ WorkerCheck \/ WorkerWake \/ Backend
  BY <1>1, StagesStay
  DEF WorkerFinish, WorkerCheck, WorkerWake, Backend, WorkerAnswer, WriterClosed, Running
<1>2. CASE WorkerPanic
  BY <1>2 DEF WorkerPanic, StagesInv, Running, Before, Increasing
<1>3. CASE WorkerDrop
  BY <1>3 DEF WorkerDrop, StagesInv, Running, WriterClosed, Before, Increasing
<1>4. CASE WorkerReceive
  <2>1. /\ worker = "recv" /\ worker' = "check" /\ jobs # <<>> /\ jobs' = Tail(jobs)
        /\ hand' = <<Head(jobs)>> /\ UNCHANGED <<pending, completions, pc>>
    BY <1>4 DEF WorkerReceive
  <2>2. jobs \in Seq(Job) BY DEF TypeOK
  <2>3. /\ \A n \in DOMAIN jobs' : n + 1 \in DOMAIN jobs /\ jobs'[n] = jobs[n + 1]
        /\ 1 \in DOMAIN jobs /\ Head(jobs) = jobs[1]
    BY <2>1, <2>2, TailElements
  <2>4. hand = <<>> /\ DOMAIN hand = {}
    <3>1. hand \in Seq(Job) /\ Len(hand) = 0 BY <2>1 DEF TypeOK
    <3> QED BY <3>1
  <2>5. DOMAIN hand' = {1} /\ hand'[1] = Head(jobs) BY <2>1
  <2> SUFFICES ASSUME Running PROVE StagesInv'
    BY <2>1 DEF StagesInv, Running
  <2>6. /\ Increasing(jobs')
        /\ \A n \in DOMAIN jobs' : Head(jobs).id < jobs'[n].id
        /\ \A i : HasId(jobs, i) => i = Head(jobs).id \/ HasId(jobs', i)
    BY <2>1, <2>2, TailStages DEF StagesInv
  <2>7. /\ \A n \in DOMAIN jobs' : Matches(jobs'[n], pending)
        /\ \A n \in DOMAIN hand' : Matches(hand'[n], pending)
    BY <2>3, <2>5 DEF StagesInv
  <2>8. Before(completions, hand') /\ Before(completions, jobs') /\ Before(hand', jobs')
    BY <2>3, <2>5, <2>6 DEF StagesInv, Before
  <2>9. ~WriterClosed /\ worker # "dropWriter" =>
          \A i \in DOMAIN pending :
              HasId(completions, i) \/ HasId(hand', i) \/ HasId(jobs', i)
    BY <2>4, <2>5, <2>6 DEF StagesInv, HasId
  <2>10. ~WriterClosed /\ worker # "dropWriter" BY <2>1 DEF WriterClosed
  <2> QED BY <2>1, <2>6, <2>7, <2>8, <2>9, <2>10 DEF StagesInv
<1>5. CASE WorkerSend
  <2> SUFFICES ASSUME Running PROVE StagesInv'
    BY <1>5 DEF WorkerSend, StagesInv, Running
  <2> DEFINE x == [id |-> hand[1].id, outcome |-> outcome]
  <2>1. /\ worker = "send" /\ completions' = Append(completions, x) /\ worker' = "wake"
        /\ hand' = <<>> /\ UNCHANGED <<pending, jobs, pc>>
    BY <1>5 DEF WorkerSend, CoordinatorDropped, Running
  <2>2. hand[1] \in Job /\ hand = <<hand[1]>> BY <2>1, InHand
  <2>3. DOMAIN hand = {1} /\ DOMAIN hand' = {} BY <2>1, <2>2
  <2>4. completions \in Seq(Completion) /\ x \in Completion /\ x.id = hand[1].id
    BY <2>2 DEF TypeOK, Completion, Job
  <2>5. \A n \in DOMAIN completions : completions[n].id < x.id
    BY <2>3 DEF StagesInv, Before
  <2> HIDE DEF x
  <2>6. /\ Increasing(completions') /\ HasId(completions', hand[1].id)
        /\ \A i : HasId(completions, i) => HasId(completions', i)
        /\ \A n \in DOMAIN completions' : completions'[n] = x
               \/ (n \in DOMAIN completions /\ completions'[n] = completions[n])
    BY <2>1, <2>4, <2>5, AppendStages DEF StagesInv
  <2>7. Matches(hand[1], pending) BY <2>3 DEF StagesInv
  <2>8. \A n \in DOMAIN completions' : completions'[n].id \in DOMAIN pending
    BY <2>4, <2>6, <2>7 DEF StagesInv, Matches
  <2>9. Before(completions', jobs)
    BY <2>3, <2>4, <2>6 DEF StagesInv, Before
  <2>10. \A i \in DOMAIN pending : HasId(completions', i) \/ HasId(jobs, i)
    <3>1. ~WriterClosed /\ worker # "dropWriter" BY <2>1 DEF WriterClosed
    <3>2. \A i : HasId(hand, i) => i = hand[1].id BY <2>3 DEF HasId
    <3> QED BY <2>6, <3>1, <3>2 DEF StagesInv
  <2>11. Before(completions', hand') /\ Before(hand', jobs) BY <2>3 DEF Before
  <2> QED BY <2>1, <2>3, <2>6, <2>8, <2>9, <2>10, <2>11 DEF StagesInv
<1> QED BY <1>1, <1>2, <1>3, <1>4, <1>5 DEF Worker

LEMMA StagesNext ==
    ASSUME TypeOK, IndexInv, StagesInv, [Next]_vars
    PROVE  StagesInv'
<1> USE DEF kernelVars, coordVars, loopVars, channelVars, workerVars, historyVars
<1>1. CASE Environment
  BY <1>1, StagesStay DEF Environment, Raise, Withdraw, ProcessGone, Running, WriterClosed
<1>2. CASE Poll \/ DrainWake \/ ChannelDrained \/ ReadBatch
  BY <1>2, StagesStay DEF Poll, DrainWake, ChannelDrained, ReadBatch, Running, WriterClosed
<1>3. CASE LoopError \/ DropCoordinator \/ Exit
  BY <1>3 DEF LoopError, DropCoordinator, Exit, StagesInv, Running
<1>4. ASSUME NEW done, NEW failed, FailPending(done, failed) PROVE StagesInv'
  BY <1>4 DEF FailPending, StagesInv, Running
<1>5. CASE UNCHANGED vars
  BY <1>5, StagesStay DEF vars, Running, WriterClosed
<1> QED
  BY <1>1, <1>2, <1>3, <1>4, <1>5, StagesHandled, StagesCompleted, StagesWorker
  DEF Next, Loop


-----------------------------------------------------------------------------
(* Whose answers are on their way.                                          *)

LEMMA ToldStay ==
    ASSUME ToldInv, UNCHANGED <<completions, pending, told>>, Running' => Running,
           worker' = "send" /\ outcome' # Failure =>
               worker = "send" /\ UNCHANGED <<hand, outcome>>
    PROVE  ToldInv'
BY DEF ToldInv, WaitingOn

(* No request changes but by gaining accesses. *)
LEMMA ToldRequests ==
    ASSUME ToldInv, StagesInv, UNCHANGED <<worker, hand, outcome, completions, told>>,
           Running' => Running,
           \A i \in DOMAIN pending :
               /\ pending'[i].key = pending[i].key /\ pending'[i].auth = pending[i].auth
               /\ pending[i].events \subseteq pending'[i].events
    PROVE  ToldInv'
<1>1. ASSUME NEW n \in DOMAIN completions, Running, completions[n].outcome # Failure
      PROVE  LET c == completions[n] IN
             Told(told, pending'[c.id].key, pending'[c.id].auth, c.outcome, pending'[c.id].events)
  <2>1. completions[n].id \in DOMAIN pending BY <1>1 DEF StagesInv
  <2>2. LET c == completions[n] IN
        Told(told, pending[c.id].key, pending[c.id].auth, c.outcome, WaitingOn(c.id))
    BY <1>1 DEF ToldInv
  <2> QED BY <2>1, <2>2 DEF Told, WaitingOn
<1> QED BY <1>1 DEF ToldInv, WaitingOn

LEMMA ToldHandled ==
    ASSUME TypeOK, IndexInv, StagesInv, ToldInv, HandleEvent
    PROVE  ToldInv'
<1> USE DEF kernelVars, coordVars, loopVars, channelVars, workerVars, historyVars
<1>1. ASSUME NEW e \in Events, NEW v \in Views[e], NEW failed,
             \/ HandleSettled(e, v, failed) \/ HandleNoSession(e, v, failed)
             \/ SendFails(e, v, failed) \/ HandleError(e, v)
      PROVE  ToldInv'
  <2>1. Running BY <1>1
    DEF HandleSettled, HandleNoSession, SendFails, HandleError, Handling, Running
  <2> QED BY <1>1, <2>1, ToldStay
    DEF HandleSettled, HandleNoSession, SendFails, HandleError
<1>2. ASSUME NEW e \in Events, NEW v \in Views[e], NEW id \in DOMAIN pending,
             JoinPrompt(e, v, id)
      PROVE  ToldInv'
  <2>1. /\ Running /\ UNCHANGED <<hand, completions, worker, outcome, told>>
        /\ pending' = [pending EXCEPT ![id].events = @ \cup {e}]
    BY <1>2 DEF JoinPrompt, Handling, Running
  <2>2. \A i \in DOMAIN pending :
            /\ pending'[i].key = pending[i].key /\ pending'[i].auth = pending[i].auth
            /\ pending[i].events \subseteq pending'[i].events
    BY <2>1 DEF TypeOK, Pending
  <2> QED BY <2>1, <2>2, ToldRequests
<1>3. ASSUME NEW e \in Events, NEW v \in Views[e], StartPrompt(e, v) PROVE ToldInv'
  <2>1. /\ Running /\ UNCHANGED <<hand, completions, worker, outcome, told>>
        /\ pending' = [i \in DOMAIN pending \cup {nextId} |->
               IF i = nextId THEN [key |-> v.key, auth |-> v.auth, events |-> {e}]
               ELSE pending[i]]
    BY <1>3 DEF StartPrompt, Handling, Running
  <2>2. \A i \in DOMAIN pending : pending'[i] = pending[i]
    BY <2>1 DEF IndexInv, IdsUsed, TypeOK
  <2> QED BY <2>1, <2>2, ToldRequests
<1>4. CASE HandleOverflow
  BY <1>4, ToldStay DEF HandleOverflow, Running
<1> QED BY <1>1, <1>2, <1>3, <1>4 DEF HandleEvent

LEMMA ToldCompleted ==
    ASSUME TypeOK, StagesInv, ToldInv, NEW failed, CompletePrompt(failed)
    PROVE  ToldInv'
<1> USE DEF kernelVars, coordVars, loopVars, channelVars, workerVars, historyVars
<1> DEFINE c == Head(completions)
<1>1. /\ Running /\ completions # <<>> /\ completions' = Tail(completions)
      /\ c.id \in DOMAIN pending /\ Forget(c.id)
      /\ UNCHANGED <<hand, worker, outcome, told>>
  BY DEF CompletePrompt, Running
<1>2. \A i \in DOMAIN pending \ {c.id} : pending'[i] = pending[i]
  BY <1>1 DEF Forget
<1>3. completions \in Seq(Completion)
  BY DEF TypeOK
<1>4. /\ \A n \in DOMAIN completions' :
             n + 1 \in DOMAIN completions /\ completions'[n] = completions[n + 1]
  BY <1>1, <1>3, TailElements
<1>5. \A n \in DOMAIN completions' : c.id < completions'[n].id
  BY <1>1, <1>3, TailStages DEF StagesInv
<1>6. c.id \in Nat BY <1>1 DEF TypeOK
<1> HIDE DEF c
<1>7. ASSUME NEW n \in DOMAIN completions', completions'[n].outcome # Failure
      PROVE  LET d == completions'[n] IN
             Told(told, pending'[d.id].key, pending'[d.id].auth, d.outcome, pending'[d.id].events)
  <2> DEFINE d == completions'[n]
  <2>1. d = completions[n + 1] /\ n + 1 \in DOMAIN completions BY <1>4
  <2>2. Told(told, pending[d.id].key, pending[d.id].auth, d.outcome, WaitingOn(d.id))
    BY <1>1, <1>7, <2>1 DEF ToldInv
  <2>3. d.id \in DOMAIN pending \ {c.id}
    <3>1. d.id \in DOMAIN pending BY <1>1, <2>1 DEF StagesInv
    <3>2. d.id \in Nat BY <3>1 DEF TypeOK
    <3> QED BY <1>5, <1>6, <3>1, <3>2
  <2> QED BY <1>2, <2>2, <2>3 DEF WaitingOn
<1> QED BY <1>1, <1>7 DEF ToldInv, WaitingOn

LEMMA ToldWorker ==
    ASSUME TypeOK, StagesInv, ToldInv, Worker \/ Backend \/ WorkerPanic
    PROVE  ToldInv'
<1> USE DEF kernelVars, coordVars, loopVars, channelVars, workerVars, historyVars
<1>1. CASE \/ WorkerReceive \/ WorkerFinish \/ WorkerCheck \/ WorkerWake \/ WorkerDrop
           \/ WorkerPanic
  BY <1>1, ToldStay
  DEF WorkerReceive, WorkerFinish, WorkerCheck, WorkerWake, WorkerDrop, WorkerPanic, Running
<1>2. ASSUME NEW o \in BackendOutcomes, WorkerAnswer(o) PROVE ToldInv'
  <2>1. /\ told \subseteq told' /\ outcome' = o
        /\ UNCHANGED <<pending, completions, hand, pc>>
    BY <1>2 DEF WorkerAnswer
  <2>2. o # Failure => Told(told', hand[1].key, hand[1].auth, o, {hand[1].event})
    <3> DEFINE t == [event |-> hand[1].event, key |-> hand[1].key,
                     auth |-> hand[1].auth, outcome |-> o]
    <3>1. o # Failure => t \in told' BY <1>2 DEF WorkerAnswer
    <3> QED BY <3>1 DEF Told
  <2>3. \A key, auth, x, es : Told(told, key, auth, x, es) => Told(told', key, auth, x, es)
    BY <2>1 DEF Told
  <2>4. ASSUME Running, NEW n \in DOMAIN completions, completions[n].outcome # Failure
        PROVE  LET c == completions[n] IN
               Told(told', pending[c.id].key, pending[c.id].auth, c.outcome, WaitingOn(c.id))
    BY <2>3, <2>4 DEF ToldInv
  <2> QED BY <2>1, <2>2, <2>4 DEF ToldInv, Running, WaitingOn
<1>3. CASE WorkerSend
  <2>1. worker' # "send" BY <1>3 DEF WorkerSend
  <2> SUFFICES ASSUME Running PROVE ToldInv'
    BY <1>3, <2>1 DEF WorkerSend, ToldInv, Running
  <2> DEFINE x == [id |-> hand[1].id, outcome |-> outcome]
  <2>2. /\ worker = "send" /\ completions' = Append(completions, x)
        /\ UNCHANGED <<pending, told, pc>>
    BY <1>3 DEF WorkerSend, CoordinatorDropped, Running
  <2>3. hand[1] \in Job /\ hand = <<hand[1]>> BY <2>2, InHand
  <2>4. completions \in Seq(Completion) /\ x \in Completion
    BY <2>3 DEF TypeOK, Completion, Job
  <2>5. \A n \in DOMAIN completions' :
            completions'[n] = x \/ (n \in DOMAIN completions /\ completions'[n] = completions[n])
    BY <2>2, <2>4, AppendElements
  <2>6. Matches(hand[1], pending)
    <3>1. 1 \in DOMAIN hand BY <2>3
    <3> QED BY <3>1 DEF StagesInv
  <2>7. outcome # Failure =>
            Told(told, pending[x.id].key, pending[x.id].auth, x.outcome, WaitingOn(x.id))
    <3>1. outcome # Failure =>
              Told(told, hand[1].key, hand[1].auth, outcome, {hand[1].event})
      BY <2>2 DEF ToldInv
    <3> QED BY <2>6, <3>1 DEF Told, Matches, WaitingOn
  <2>8. x.outcome = outcome OBVIOUS
  <2> HIDE DEF x
  <2>9. ASSUME NEW n \in DOMAIN completions', completions'[n].outcome # Failure
        PROVE  LET c == completions'[n] IN
               Told(told, pending[c.id].key, pending[c.id].auth, c.outcome, WaitingOn(c.id))
    <3>1. CASE completions'[n] = x BY <2>7, <2>8, <2>9, <3>1
    <3>2. CASE n \in DOMAIN completions /\ completions'[n] = completions[n]
      BY <2>9, <3>2 DEF ToldInv
    <3> QED BY <2>5, <3>1, <3>2
  <2> QED BY <2>1, <2>2, <2>9 DEF ToldInv, WaitingOn
<1> QED BY <1>1, <1>2, <1>3 DEF Worker, Backend

LEMMA ToldNext ==
    ASSUME TypeOK, IndexInv, StagesInv, ToldInv, [Next]_vars
    PROVE  ToldInv'
<1> USE DEF kernelVars, coordVars, loopVars, channelVars, workerVars, historyVars
<1>1. CASE Environment
  BY <1>1, ToldStay DEF Environment, Raise, Withdraw, ProcessGone, Running
<1>2. CASE Poll \/ DrainWake \/ ChannelDrained \/ ReadBatch \/ LoopError
  BY <1>2, ToldStay DEF Poll, DrainWake, ChannelDrained, ReadBatch, LoopError, Running
<1>3. CASE DropCoordinator \/ Exit
  BY <1>3 DEF DropCoordinator, Exit, ToldInv, Running
<1>4. ASSUME NEW done, NEW failed, FailPending(done, failed) PROVE ToldInv'
  BY <1>4 DEF FailPending, ToldInv, Running
<1>5. CASE UNCHANGED vars
  BY <1>5, ToldStay DEF vars, Running
<1> QED
  BY <1>1, <1>2, <1>3, <1>4, <1>5, ToldHandled, ToldCompleted, ToldWorker
  DEF Next, Loop


-----------------------------------------------------------------------------
(* What has been asked.                                                     *)

LEMMA AskedStay ==
    ASSUME TypeOK, AskedInv, UNCHANGED <<jobs, hand, told>>, Running' => Running,
           worker' \in {"check", "ask"} => worker \in {"check", "ask"},
           Running' => \A key \in Keys : Known(key) => Known(key)'
    PROVE  AskedInv'
<1>1. \A t \in told : t.key # NoKey => t.key \in Keys
  BY DEF TypeOK
<1>2. Running' => \A t \in told : t.key # NoKey => Known(t.key)'
  <2>1. ASSUME NEW t \in told, t.key # NoKey, Running' PROVE Known(t.key)'
    <3>1. t.key \in Keys /\ Known(t.key) BY <1>1, <2>1 DEF AskedInv
    <3>2. \A key \in Keys : Known(key) => Known(key)' BY <2>1
    <3> QED BY <3>1, <3>2
  <2> QED BY <2>1
<1> QED BY <1>2 DEF AskedInv, Unasked

(* A key that is asked about has no answer and no question of its own yet. *)
LEMMA NewKeyUnasked ==
    ASSUME TypeOK, IndexInv, StagesInv, AskedInv, NEW e \in Events, NEW v \in Views[e],
           Running, Settled(v) = NoDecision, PromptFor(v.key) = {}, v.key # NoKey
    PROVE  /\ \A t \in told : t.key # v.key
           /\ \A n \in DOMAIN jobs : jobs[n].key # v.key
           /\ \A n \in DOMAIN hand : hand[n].key # v.key
<1>1. v \in View /\ v.verdict = "Prompt" /\ v.key \in Keys
  <2>1. v \in View /\ v.verdict = "Prompt" BY AskedIsPrompt
  <2> QED BY <2>1 DEF View
<1>2. decisions[v.key] = NoDecision
  BY <1>1 DEF Settled, NoDecision
<1>3. \A i \in DOMAIN pending : pending[i].key # v.key
  BY <1>1 DEF PromptFor, IndexInv, IndexAgrees
<1>4. /\ \A n \in DOMAIN jobs : jobs[n].key # v.key
      /\ \A n \in DOMAIN hand : hand[n].key # v.key
  BY <1>3 DEF StagesInv, Matches
<1>5. \A n \in DOMAIN completions : pending[completions[n].id].key # v.key
  BY <1>3 DEF StagesInv
<1>6. ~(worker = "send" /\ hand[1].key = v.key)
  <2>1. worker = "send" => 1 \in DOMAIN hand
    BY InHand DEF TypeOK
  <2> QED BY <1>4, <2>1
<1>7. ~Known(v.key)
  BY <1>2, <1>5, <1>6 DEF Known
<1> QED BY <1>4, <1>7 DEF AskedInv

LEMMA AskedHandled ==
    ASSUME TypeOK, IndexInv, StagesInv, AskedInv, HandleEvent
    PROVE  AskedInv'
<1> USE DEF kernelVars, coordVars, loopVars, channelVars, workerVars, historyVars
<1>1. ASSUME NEW e \in Events, NEW v \in Views[e], NEW failed,
             HandleSettled(e, v, failed) \/ SendFails(e, v, failed) \/ HandleError(e, v)
      PROVE  AskedInv'
  <2>1. Running BY <1>1 DEF HandleSettled, SendFails, HandleError, Handling, Running
  <2>2. UNCHANGED <<jobs, hand, told, worker, decisions, completions, pending, outcome>>
    BY <1>1 DEF HandleSettled, SendFails, HandleError
  <2> QED BY <2>1, <2>2, AskedStay DEF Known
<1>2. ASSUME NEW e \in Events, NEW v \in Views[e], NEW failed,
             HandleNoSession(e, v, failed)
      PROVE  AskedInv'
  <2>1. /\ Running /\ decisions' = CacheDecision(v.key, Default)
        /\ UNCHANGED <<jobs, hand, told, worker, completions, pending, outcome>>
    BY <1>2 DEF HandleNoSession, Handling, Running
  <2>2. \A key \in Keys : decisions[key] # NoDecision => decisions'[key] # NoDecision
    BY <2>1, ParameterAssumption DEF CacheDecision, TypeOK, Decisions, NoDecision
  <2>3. \A key \in Keys : Known(key) => Known(key)' BY <2>1, <2>2 DEF Known
  <2> QED BY <2>1, <2>3, AskedStay
<1>3. ASSUME NEW e \in Events, NEW v \in Views[e], NEW id \in DOMAIN pending,
             JoinPrompt(e, v, id)
      PROVE  AskedInv'
  <2>1. /\ Running /\ UNCHANGED <<jobs, hand, told, worker, decisions, completions, outcome>>
        /\ pending' = [pending EXCEPT ![id].events = @ \cup {e}]
    BY <1>3 DEF JoinPrompt, Handling, Running
  <2>2. \A i \in DOMAIN pending : pending'[i].key = pending[i].key
    BY <2>1 DEF TypeOK, Pending
  <2>3. \A key \in Keys : Known(key) => Known(key)'
    BY <2>1, <2>2 DEF Known, StagesInv
  <2> QED BY <2>1, <2>3, AskedStay
<1>4. ASSUME NEW e \in Events, NEW v \in Views[e], StartPrompt(e, v) PROVE AskedInv'
  <2> DEFINE x == [id |-> nextId, key |-> v.key, auth |-> v.auth, event |-> e]
  <2>1. /\ Running /\ UNCHANGED <<hand, completions, worker, outcome, told, decisions>>
        /\ jobs' = Append(jobs, x)
        /\ pending' = [i \in DOMAIN pending \cup {nextId} |->
               IF i = nextId THEN [key |-> v.key, auth |-> v.auth, events |-> {e}]
               ELSE pending[i]]
        /\ Settled(v) = NoDecision /\ PromptFor(v.key) = {}
    BY <1>4 DEF StartPrompt, Handling, Running, MustAsk
  <2>2. v.key # NoKey =>
            /\ \A t \in told : t.key # v.key
            /\ \A n \in DOMAIN jobs : jobs[n].key # v.key
            /\ \A n \in DOMAIN hand : hand[n].key # v.key
    BY <2>1, NewKeyUnasked
  <2>3. x \in Job /\ jobs \in Seq(Job) /\ x.key = v.key
    BY ViewAssumption DEF TypeOK, Job, View
  <2>4. nextId \notin DOMAIN pending
    BY DEF IndexInv, IdsUsed, TypeOK
  <2>5. \A key \in Keys : Known(key) => Known(key)'
    <3>1. \A n \in DOMAIN completions :
              pending'[completions[n].id] = pending[completions[n].id]
      BY <2>1, <2>4 DEF StagesInv
    <3> QED BY <2>1, <3>1 DEF Known
  <2> HIDE DEF x
  <2>6. \A n \in DOMAIN jobs' : \/ n \in DOMAIN jobs /\ jobs'[n] = jobs[n]
                                \/ n = Len(jobs) + 1 /\ jobs'[n] = x
    BY <2>1, <2>3, AppendElements
  <2>7. ASSUME NEW m \in DOMAIN jobs', NEW n \in DOMAIN jobs',
               jobs'[m].key = jobs'[n].key, jobs'[m].key # NoKey
        PROVE  m = n
    BY <2>2, <2>3, <2>6, <2>7 DEF AskedInv
  <2>8. \A m \in DOMAIN hand, n \in DOMAIN jobs' :
            hand[m].key = jobs'[n].key => jobs'[n].key = NoKey
    BY <2>2, <2>3, <2>6 DEF AskedInv
  <2>9. /\ \A n \in DOMAIN jobs' : Unasked(jobs'[n])
        /\ worker \in {"check", "ask"} => Unasked(hand[1])
    BY <2>2, <2>3, <2>6 DEF AskedInv, Unasked
  <2>10. \A t \in told : t.key # NoKey => Known(t.key)'
    <3>1. ASSUME NEW t \in told, t.key # NoKey PROVE Known(t.key)'
      <4>1. t.key \in Keys BY <3>1 DEF TypeOK
      <4>2. Known(t.key) BY <2>1, <3>1 DEF AskedInv
      <4> QED BY <2>5, <4>1, <4>2
    <3> QED BY <3>1
  <2> QED BY <2>1, <2>7, <2>8, <2>9, <2>10 DEF AskedInv, Unasked
<1>5. CASE HandleOverflow
  <2>1. UNCHANGED <<jobs, hand, told, worker, decisions, completions, pending, outcome>>
    BY <1>5 DEF HandleOverflow
  <2> QED BY <1>5, <2>1, AskedStay DEF HandleOverflow, Running, Known
<1> QED BY <1>1, <1>2, <1>3, <1>4, <1>5 DEF HandleEvent

LEMMA AskedCompleted ==
    ASSUME TypeOK, StagesInv, AskedInv, NEW failed, CompletePrompt(failed)
    PROVE  AskedInv'
<1> USE DEF kernelVars, coordVars, loopVars, channelVars, workerVars, historyVars
<1> DEFINE c == Head(completions)
<1>1. /\ Running /\ completions # <<>> /\ completions' = Tail(completions)
      /\ c.id \in DOMAIN pending /\ Forget(c.id) /\ Remember(pending[c.id], c.outcome)
      /\ UNCHANGED <<jobs, hand, worker, outcome, told>>
  BY DEF CompletePrompt, Running
<1>2. \A i \in DOMAIN pending \ {c.id} : pending'[i] = pending[i]
  BY <1>1 DEF Forget
<1>3. completions \in Seq(Completion) /\ c \in Completion /\ c.id \in Nat
  <2>1. completions \in Seq(Completion) BY DEF TypeOK
  <2>2. c \in Completion BY <1>1, <2>1, TailInSeq
  <2> QED BY <2>1, <2>2 DEF Completion
<1>4. /\ Len(completions) \in Nat \ {0} /\ DOMAIN completions' = 1 .. (Len(completions) - 1)
      /\ DOMAIN completions = 1 .. Len(completions) /\ c = completions[1]
      /\ \A n \in DOMAIN completions' : completions'[n] = completions[n + 1]
  BY <1>1, <1>3, TailElements
<1>5. \A n \in DOMAIN completions' : c.id < completions'[n].id
  BY <1>1, <1>3, TailStages DEF StagesInv
<1> HIDE DEF c
<1>6. ASSUME NEW key \in Keys
      PROVE  /\ decisions[key] # NoDecision => decisions'[key] # NoDecision
             /\ pending[c.id].key = key /\ c.outcome # Failure => decisions'[key] # NoDecision
  <2>1. CASE c.outcome = Failure BY <1>1, <2>1 DEF Remember
  <2>2. CASE c.outcome # Failure
    <3>1. c.outcome.decision \in Decisions
      BY <1>3, <2>2 DEF Completion, Outcome
    <3>2. decisions' = CacheDecision(pending[c.id].key, c.outcome.decision)
      BY <1>1, <2>2 DEF Remember, CacheAnswer
    <3> QED BY <3>1, <3>2, EventAssumption DEF CacheDecision, TypeOK, Decisions, NoDecision
  <2> QED BY <2>1, <2>2
<1>7. ASSUME NEW key \in Keys, NEW n \in DOMAIN completions,
             pending[completions[n].id].key = key, completions[n].outcome # Failure
      PROVE  Known(key)'
  <2>1. CASE n = 1 BY <1>4, <1>6, <1>7, <2>1 DEF Known
  <2>2. CASE n # 1
    <3>1. n - 1 \in DOMAIN completions' /\ completions'[n - 1] = completions[n]
      BY <1>4, <2>2
    <3>2. completions[n].id \in DOMAIN pending BY <1>1 DEF StagesInv
    <3>3. completions[n].id \in Nat BY <3>2 DEF TypeOK
    <3>4. completions[n].id # c.id BY <1>3, <1>5, <3>1, <3>3
    <3> QED BY <1>2, <1>7, <3>1, <3>2, <3>4 DEF Known
  <2> QED BY <2>1, <2>2
<1>8. \A key \in Keys : Known(key) => Known(key)'
  BY <1>1, <1>6, <1>7 DEF Known
<1> QED BY <1>1, <1>8, AskedStay

LEMMA AskedWorker ==
    ASSUME TypeOK, StagesInv, AskedInv, Worker \/ Backend \/ WorkerPanic
    PROVE  AskedInv'
<1> USE DEF kernelVars, coordVars, loopVars, channelVars, workerVars, historyVars
<1>1. CASE WorkerFinish \/ WorkerWake
  BY <1>1, AskedStay DEF WorkerFinish, WorkerWake, Running, Known
<1>2. CASE WorkerCheck
  BY <1>2, AskedStay DEF WorkerCheck, Running, Known
<1>3. CASE WorkerPanic
  BY <1>3 DEF WorkerPanic, AskedInv, Running, Known, Unasked
<1>4. CASE WorkerDrop
  BY <1>4 DEF WorkerDrop, AskedInv, Running, Known, Unasked
<1>5. CASE WorkerReceive
  <2>1. /\ worker = "recv" /\ worker' = "check" /\ jobs # <<>> /\ jobs' = Tail(jobs)
        /\ hand' = <<Head(jobs)>> /\ UNCHANGED <<pending, completions, pc, told, decisions>>
    BY <1>5 DEF WorkerReceive
  <2>2. jobs \in Seq(Job) BY DEF TypeOK
  <2>3. /\ Len(jobs) \in Nat \ {0} /\ DOMAIN jobs' = 1 .. (Len(jobs) - 1)
        /\ DOMAIN jobs = 1 .. Len(jobs) /\ Head(jobs) = jobs[1]
        /\ \A n \in DOMAIN jobs' : jobs'[n] = jobs[n + 1]
    BY <2>1, <2>2, TailElements
  <2>4. DOMAIN hand' = {1} /\ hand'[1] = jobs[1] BY <2>1, <2>3
  <2>5. \A n \in DOMAIN jobs' : n + 1 \in DOMAIN jobs /\ n + 1 # 1 BY <2>3
  <2>6. \A m, n \in DOMAIN jobs' : jobs'[m].key = jobs'[n].key /\ jobs'[m].key # NoKey => m = n
    <3>1. ASSUME NEW m \in DOMAIN jobs', NEW n \in DOMAIN jobs',
                 jobs'[m].key = jobs'[n].key, jobs'[m].key # NoKey
          PROVE  m = n
      <4>1. m + 1 = n + 1 BY <2>3, <2>5, <3>1 DEF AskedInv
      <4> QED BY <2>3, <4>1
    <3> QED BY <3>1
  <2>7. \A m \in DOMAIN hand', n \in DOMAIN jobs' :
            hand'[m].key = jobs'[n].key => jobs'[n].key = NoKey
    <3>1. 1 \in DOMAIN jobs BY <2>3
    <3> QED BY <2>3, <2>4, <2>5, <3>1 DEF AskedInv
  <2>8. /\ \A n \in DOMAIN jobs' : Unasked(jobs'[n])
        /\ Unasked(hand'[1])
    BY <2>3, <2>4, <2>5 DEF AskedInv
  <2>9. Running' => \A t \in told : t.key # NoKey => Known(t.key)'
    BY <2>1 DEF AskedInv, Known, Running
  <2> QED BY <2>1, <2>6, <2>7, <2>8, <2>9 DEF AskedInv, Unasked
<1>6. ASSUME NEW o \in BackendOutcomes, WorkerAnswer(o) PROVE AskedInv'
  <2>1. /\ worker = "ask" /\ worker' = "send" /\ outcome' = o
        /\ UNCHANGED <<pending, completions, pc, decisions, jobs, hand>>
        /\ \A t \in told' : t \in told \/ (o # Failure /\ t.key = hand[1].key)
    BY <1>6 DEF WorkerAnswer
  <2>2. hand[1] \in Job /\ 1 \in DOMAIN hand
    <3>1. hand[1] \in Job /\ hand = <<hand[1]>> BY <2>1, InHand
    <3> QED BY <3>1
  <2>3. \A n \in DOMAIN jobs : Unasked(jobs[n])'
    BY <2>1, <2>2 DEF AskedInv, Unasked
  <2>4. Running' => \A t \in told' : t.key # NoKey => Known(t.key)'
    BY <2>1 DEF AskedInv, Known, Running
  <2> QED BY <2>1, <2>3, <2>4 DEF AskedInv, Unasked
<1>7. CASE WorkerSend
  <2>1. /\ worker = "send" /\ worker' \in {"dropWriter", "wake"}
        /\ hand' = <<>> /\ UNCHANGED <<pending, jobs, pc, told, decisions>>
    BY <1>7 DEF WorkerSend
  <2>2. ASSUME Running', NEW key \in Keys, Known(key) PROVE Known(key)'
    <3> DEFINE x == [id |-> hand[1].id, outcome |-> outcome]
    <3>1. Running /\ completions' = Append(completions, x)
      BY <1>7, <2>2 DEF WorkerSend, CoordinatorDropped, Running
    <3>2. hand[1] \in Job /\ hand = <<hand[1]>> BY <2>1, InHand
    <3>3. completions \in Seq(Completion) /\ x \in Completion
      BY <3>2 DEF TypeOK, Completion, Job
    <3>4. x.id = hand[1].id /\ x.outcome = outcome OBVIOUS
    <3> HIDE DEF x
    <3>5. /\ Len(completions) \in Nat
          /\ DOMAIN completions' = 1 .. (Len(completions) + 1)
          /\ DOMAIN completions = 1 .. Len(completions)
          /\ \A n \in DOMAIN completions : completions'[n] = completions[n]
          /\ completions'[Len(completions) + 1] = x
      BY <3>1, <3>3, AppendElements
    <3>6. Len(completions) + 1 \in DOMAIN completions'
          /\ DOMAIN completions \subseteq DOMAIN completions'
      BY <3>5
    <3>7. pending[hand[1].id].key = hand[1].key
      <4>1. 1 \in DOMAIN hand BY <3>2
      <4> QED BY <3>1, <4>1 DEF StagesInv, Matches
    <3>8. CASE decisions[key] # NoDecision BY <2>1, <3>8 DEF Known
    <3>9. ASSUME NEW n \in DOMAIN completions,
                 pending[completions[n].id].key = key, completions[n].outcome # Failure
          PROVE  Known(key)'
      BY <2>1, <3>5, <3>6, <3>9 DEF Known
    <3>10. CASE outcome # Failure /\ hand[1].key = key
      <4>1. /\ pending[completions'[Len(completions) + 1].id].key = key
            /\ completions'[Len(completions) + 1].outcome # Failure
        BY <3>4, <3>5, <3>7, <3>10
      <4> QED BY <2>1, <3>6, <4>1 DEF Known
    <3> QED BY <2>2, <3>8, <3>9, <3>10 DEF Known
  <2>3. Running' => \A t \in told : t.key # NoKey => Known(t.key)'
    <3>1. ASSUME Running', NEW t \in told, t.key # NoKey PROVE Known(t.key)'
      <4>1. t.key \in Keys BY <3>1 DEF TypeOK
      <4>2. Known(t.key) BY <2>1, <3>1 DEF AskedInv, Running
      <4> QED BY <2>2, <3>1, <4>1, <4>2
    <3> QED BY <3>1
  <2>4. DOMAIN hand' = {} BY <2>1
  <2> QED BY <2>1, <2>3, <2>4 DEF AskedInv, Unasked
<1> QED BY <1>1, <1>2, <1>3, <1>4, <1>5, <1>6, <1>7 DEF Worker, Backend

LEMMA AskedNext ==
    ASSUME TypeOK, IndexInv, StagesInv, AskedInv, [Next]_vars
    PROVE  AskedInv'
<1> USE DEF kernelVars, coordVars, loopVars, channelVars, workerVars, historyVars
<1>1. CASE /\ UNCHANGED <<jobs, hand, told, worker, decisions, completions, pending, outcome>>
           /\ Running' => Running
  BY <1>1, AskedStay DEF Known
<1>2. CASE Environment
  BY <1>1, <1>2 DEF Environment, Raise, Withdraw, ProcessGone, Running
<1>3. CASE Poll \/ DrainWake \/ ChannelDrained \/ ReadBatch \/ LoopError
  BY <1>1, <1>3 DEF Poll, DrainWake, ChannelDrained, ReadBatch, LoopError, Running
<1>4. CASE UNCHANGED <<jobs, hand, told, worker>> /\ ~Running'
  BY <1>4 DEF AskedInv, Unasked
<1>5. CASE DropCoordinator \/ Exit
  BY <1>4, <1>5 DEF DropCoordinator, Exit, Running
<1>6. ASSUME NEW done, NEW failed, FailPending(done, failed) PROVE AskedInv'
  BY <1>4, <1>6 DEF FailPending, Running
<1>7. CASE UNCHANGED vars
  BY <1>1, <1>7 DEF vars, Running
<1> QED
  BY <1>2, <1>3, <1>5, <1>6, <1>7, AskedHandled, AskedCompleted, AskedWorker
  DEF Next, Loop


-----------------------------------------------------------------------------
(* What is cached and answered.                                             *)

(* The witnesses of a cached decision stay. *)
LEMMA CacheStay ==
    ASSUME CacheJustified, UNCHANGED <<decisions, authorizations>>, told \subseteq told',
           \A e \in Events : view'[e] = view[e] \/ view[e] = NoView
    PROVE  CacheJustified'
<1>1. ASSUME NEW k \in Keys, NEW e \in Events, view[e].key = k
      PROVE  view'[e] = view[e]
  BY <1>1, EventAssumption DEF NoView
<1> QED BY <1>1 DEF CacheJustified

(* What the oldest completion answers, and for whom. *)
LEMMA CompletionTold ==
    ASSUME TypeOK, ToldInv, NEW failed, CompletePrompt(failed)
    PROVE  LET c == Head(completions)
               p == pending[c.id]
           IN /\ c \in Completion /\ p \in Pending
              /\ c.outcome # Failure =>
                     /\ c.outcome.decision \in Decisions
                     /\ \E t \in told : /\ t.key = p.key /\ t.auth = p.auth
                                        /\ t.outcome = c.outcome /\ t.event \in p.events
<1> DEFINE c == Head(completions)
<1>1. /\ Running /\ completions # <<>> /\ c.id \in DOMAIN pending
  BY DEF CompletePrompt, Running
<1>2. completions \in Seq(Completion)
  BY DEF TypeOK
<1>3. c \in Completion BY <1>1, <1>2, TailInSeq
<1>4. 1 \in DOMAIN completions /\ c = completions[1]
  BY <1>1, <1>2, TailElements
<1>5. pending[c.id] \in Pending BY <1>1 DEF TypeOK
<1>6. c.outcome # Failure => c.outcome.decision \in Decisions
  BY <1>3 DEF Completion, Outcome
<1>7. c.outcome # Failure =>
          Told(told, pending[c.id].key, pending[c.id].auth, c.outcome, WaitingOn(c.id))
  BY <1>1, <1>4 DEF ToldInv
<1> QED BY <1>3, <1>5, <1>6, <1>7 DEF Told, WaitingOn

LEMMA CacheNext ==
    ASSUME TypeOK, EventsInv, ToldInv, CacheJustified, [Next]_vars
    PROVE  CacheJustified'
<1> USE DEF kernelVars, coordVars, loopVars, channelVars, workerVars, historyVars
<1>1. ASSUME NEW e \in Events, NEW v \in Views[e], Handling(e, v),
             UNCHANGED <<decisions, authorizations, told>>
      PROVE  CacheJustified'
  <2>1. view[e] = NoView /\ \A f \in Events \ {e} : view'[f] = view[f]
    BY <1>1, EventInHand
  <2> QED BY <1>1, <2>1, CacheStay
<1>2. ASSUME NEW e \in Events, NEW v \in Views[e], NEW failed,
             \/ HandleSettled(e, v, failed) \/ SendFails(e, v, failed)
             \/ HandleError(e, v) \/ StartPrompt(e, v)
             \/ \E id \in DOMAIN pending : JoinPrompt(e, v, id)
      PROVE  CacheJustified'
  BY <1>1, <1>2 DEF HandleSettled, SendFails, HandleError, StartPrompt, JoinPrompt
<1>3. ASSUME NEW e \in Events, NEW v \in Views[e], NEW failed,
             HandleNoSession(e, v, failed)
      PROVE  CacheJustified'
  <2>1. /\ Handling(e, v) /\ decisions' = CacheDecision(v.key, Default) /\ ~v.session
        /\ UNCHANGED <<authorizations, told>>
    BY <1>3 DEF HandleNoSession, NoSession
  <2>2. /\ view[e] = NoView /\ view'[e] = v
        /\ \A f \in Events \ {e} : view'[f] = view[f]
    BY <2>1, EventInHand
  <2>3. ASSUME NEW k \in Keys, decisions'[k] # NoDecision
        PROVE  \/ \E t \in told : t.key = k /\ t.outcome.decision = decisions'[k]
               \/ /\ decisions'[k] = Default
                  /\ \E f \in Events : view'[f].key = k /\ ~view'[f].session
    <3>1. CASE k = v.key
      <4>1. decisions'[k] = Default
        BY <2>1, <3>1, EventAssumption DEF CacheDecision, TypeOK
      <4> QED BY <2>1, <2>2, <3>1, <4>1
    <3>2. CASE k # v.key
      <4>1. decisions'[k] = decisions[k] BY <2>1, <3>2 DEF CacheDecision
      <4>2. \A f \in Events : view[f].key = k => view'[f] = view[f]
        BY <2>2, EventAssumption DEF NoView
      <4> QED BY <2>3, <4>1, <4>2 DEF CacheJustified
    <3> QED BY <3>1, <3>2
  <2> QED BY <2>1, <2>3 DEF CacheJustified
<1>4. ASSUME NEW failed, CompletePrompt(failed) PROVE CacheJustified'
  <2> DEFINE c == Head(completions)  p == pending[c.id]
  <2>1. Remember(p, c.outcome) /\ UNCHANGED <<told, view>>
    BY <1>4 DEF CompletePrompt
  <2>2. /\ c \in Completion /\ p \in Pending
        /\ c.outcome # Failure =>
               /\ c.outcome.decision \in Decisions
               /\ \E t \in told : t.key = p.key /\ t.auth = p.auth /\ t.outcome = c.outcome
    BY <1>4, CompletionTold
  <2> HIDE DEF c, p
  <2>3. CASE c.outcome = Failure
    BY <2>1, <2>3 DEF Remember, CacheJustified
  <2>4. CASE c.outcome # Failure
    <3>1. PICK t \in told : t.key = p.key /\ t.auth = p.auth /\ t.outcome = c.outcome
      BY <2>2, <2>4
    <3>2. /\ decisions' = CacheDecision(p.key, c.outcome.decision)
          /\ authorizations' =
                 IF c.outcome.explicit /\ c.outcome.decision = "Allow" /\ p.auth # NoAuth
                 THEN authorizations \cup {PairOf[p.auth]} ELSE authorizations
      BY <2>1, <2>4 DEF Remember, CacheAnswer
    <3>3. ASSUME NEW k \in Keys, decisions'[k] # NoDecision
          PROVE  \/ \E u \in told : u.key = k /\ u.outcome.decision = decisions'[k]
                 \/ /\ decisions'[k] = Default
                    /\ \E f \in Events : view[f].key = k /\ ~view[f].session
      <4>1. CASE k = p.key
        <5>1. decisions'[k] = c.outcome.decision
          BY <3>2, <4>1, EventAssumption DEF CacheDecision, TypeOK
        <5> QED BY <3>1, <4>1, <5>1
      <4>2. CASE k # p.key
        <5>1. decisions'[k] = decisions[k] BY <3>2, <4>2 DEF CacheDecision
        <5> QED BY <3>3, <5>1 DEF CacheJustified
      <4> QED BY <4>1, <4>2
    <3>4. ASSUME NEW q \in authorizations'
          PROVE  \E u \in told : /\ u.auth # NoAuth /\ PairOf[u.auth] = q
                                 /\ u.outcome = [decision |-> "Allow", explicit |-> TRUE]
      <4>1. CASE q \in authorizations BY <4>1 DEF CacheJustified
      <4>2. CASE q \notin authorizations
        <5>1. /\ c.outcome.explicit /\ c.outcome.decision = "Allow" /\ p.auth # NoAuth
              /\ q = PairOf[p.auth]
          BY <3>2, <3>4, <4>2
        <5>2. c.outcome = [decision |-> "Allow", explicit |-> TRUE]
          <6>1. c.outcome \in [decision : Decisions, explicit : BOOLEAN]
            BY <2>2, <2>4 DEF Completion, Outcome
          <6> QED BY <5>1, <6>1
        <5> QED BY <3>1, <5>1, <5>2
      <4> QED BY <4>1, <4>2
    <3> QED BY <2>1, <3>3, <3>4 DEF CacheJustified
  <2> QED BY <2>3, <2>4
<1>5. CASE Environment
  BY <1>5, CacheStay DEF Environment, Raise, Withdraw, ProcessGone
<1>6. CASE \/ Poll \/ DrainWake \/ ChannelDrained \/ ReadBatch \/ HandleOverflow
           \/ DropCoordinator \/ Exit \/ LoopError
  BY <1>6, CacheStay
  DEF Poll, DrainWake, ChannelDrained, ReadBatch, HandleOverflow, DropCoordinator, Exit,
      LoopError
<1>7. ASSUME NEW done, NEW failed, FailPending(done, failed) PROVE CacheJustified'
  BY <1>7, CacheStay DEF FailPending
<1>8. CASE Worker \/ WorkerPanic
  BY <1>8, CacheStay
  DEF Worker, WorkerReceive, WorkerFinish, WorkerCheck, WorkerSend, WorkerWake, WorkerDrop,
      WorkerPanic
<1>9. ASSUME NEW o \in BackendOutcomes, WorkerAnswer(o) PROVE CacheJustified'
  BY <1>9, CacheStay DEF WorkerAnswer
<1>10. CASE UNCHANGED vars
  BY <1>10, CacheStay DEF vars
<1> QED
  BY <1>2, <1>3, <1>4, <1>5, <1>6, <1>7, <1>8, <1>9, <1>10
  DEF Next, Loop, HandleEvent, Backend

(* The reason an access has its answer. *)
Reason(e) ==
    \/ view[e].verdict = access[e]
    \/ /\ view[e].verdict = "Prompt"
       /\ \/ access[e] = Default
          \/ \E t \in told :
                /\ t.outcome.decision = access[e]
                /\ \/ Answered(t, view[e], e)
                   \/ /\ access[e] = "Allow" /\ t.outcome.explicit
                      /\ t.auth # NoAuth /\ view[e].auth # NoAuth
                      /\ PairOf[t.auth] = PairOf[view[e].auth]

(* Reasons stay where the answer does. *)
LEMMA ReasonStays ==
    ASSUME AnswerJustified, told \subseteq told', NEW e \in Events,
           access'[e] \in Decisions => access'[e] = access[e] /\ view'[e] = view[e]
    PROVE  access'[e] \in Decisions => Reason(e)'
<1> SUFFICES ASSUME access'[e] \in Decisions PROVE Reason(e)'
  OBVIOUS
<1>1. Reason(e) BY DEF AnswerJustified, Reason
<1> QED BY <1>1 DEF Reason, Answered

LEMMA ReasonsStay ==
    ASSUME AnswerJustified, told \subseteq told',
           \A e \in Events :
               access'[e] \in Decisions => access'[e] = access[e] /\ view'[e] = view[e]
    PROVE  AnswerJustified'
<1>1. \A e \in Events : access'[e] \in Decisions => Reason(e)'
  BY ReasonStays
<1> QED BY <1>1 DEF AnswerJustified, Reason

LEMMA JustifiedHandled ==
    ASSUME TypeOK, EventsInv, CacheJustified, AnswerJustified, HandleEvent
    PROVE  AnswerJustified'
<1> USE DEF kernelVars, coordVars, loopVars, channelVars, workerVars, historyVars
<1>1. ASSUME NEW e \in Events, NEW v \in Views[e], NEW failed, NEW d,
             Handling(e, v), Respond({e}, d, failed), UNCHANGED told,
             \/ v.verdict = d
             \/ /\ v.verdict = "Prompt"
                /\ \/ d = Default
                   \/ \E t \in told :
                         /\ t.outcome.decision = d
                         /\ \/ Answered(t, v, e)
                            \/ /\ d = "Allow" /\ t.outcome.explicit
                               /\ t.auth # NoAuth /\ v.auth # NoAuth
                               /\ PairOf[t.auth] = PairOf[v.auth]
      PROVE  AnswerJustified'
  <2>1. /\ access[e] \notin Decisions /\ view'[e] = v
        /\ \A f \in Events \ {e} : view'[f] = view[f]
    <3>1. access[e] \in {"waiting", "noticed"} /\ view'[e] = v
          /\ \A f \in Events \ {e} : view'[f] = view[f]
      BY <1>1, EventInHand
    <3> QED BY <3>1 DEF Decisions
  <2>2. /\ access'[e] \in {d, access[e]}
        /\ \A f \in Events \ {e} : access'[f] = access[f]
    BY <1>1 DEF Respond
  <2>3. access'[e] \in Decisions => Reason(e)'
    BY <1>1, <2>1, <2>2 DEF Reason, Answered
  <2>4. ASSUME NEW f \in Events \ {e} PROVE access'[f] \in Decisions => Reason(f)'
    BY <1>1, <2>1, <2>2, ReasonStays
  <2> QED BY <2>3, <2>4 DEF AnswerJustified, Reason
<1>2. ASSUME NEW e \in Events, NEW v \in Views[e], NEW failed,
             HandleSettled(e, v, failed)
      PROVE  AnswerJustified'
  <2>1. /\ Handling(e, v) /\ Settled(v) \in Decisions /\ Respond({e}, Settled(v), failed)
        /\ UNCHANGED told
    BY <1>2 DEF HandleSettled
  <2>2. v \in View BY ViewAssumption
  <2>3. CASE v.verdict # "Prompt" BY <1>1, <2>1, <2>3 DEF Settled
  <2>4. CASE v.verdict = "Prompt" /\ v.auth # NoAuth /\ PairOf[v.auth] \in authorizations
    <3>1. Settled(v) = "Allow" BY <2>4 DEF Settled
    <3>2. PICK t \in told : /\ t.auth # NoAuth /\ PairOf[t.auth] = PairOf[v.auth]
                            /\ t.outcome = [decision |-> "Allow", explicit |-> TRUE]
      BY <2>4 DEF CacheJustified
    <3>3. t.outcome.decision = "Allow" /\ t.outcome.explicit BY <3>2
    <3> QED BY <1>1, <2>1, <2>4, <3>1, <3>2, <3>3
  <2>5. CASE /\ v.verdict = "Prompt"
             /\ ~(v.auth # NoAuth /\ PairOf[v.auth] \in authorizations)
    <3>1. v.key # NoKey /\ Settled(v) = decisions[v.key]
      BY <2>1, <2>5 DEF Settled, Decisions, NoDecision
    <3>2. v.key \in Keys /\ decisions[v.key] # NoDecision
      BY <2>1, <2>2, <3>1 DEF View, Decisions, NoDecision
    <3>3. \/ \E t \in told : t.key = v.key /\ t.outcome.decision = Settled(v)
          \/ Settled(v) = Default
      BY <3>1, <3>2 DEF CacheJustified
    <3> QED BY <1>1, <2>1, <2>5, <3>1, <3>3 DEF Answered
  <2> QED BY <2>3, <2>4, <2>5
<1>3. ASSUME NEW e \in Events, NEW v \in Views[e], NEW failed,
             HandleNoSession(e, v, failed) \/ SendFails(e, v, failed)
      PROVE  AnswerJustified'
  <2>1. /\ Handling(e, v) /\ Settled(v) = NoDecision /\ Respond({e}, Default, failed)
        /\ UNCHANGED told
    BY <1>3 DEF HandleNoSession, SendFails, NoSession, MustAsk
  <2>2. v.verdict = "Prompt" BY <2>1, AskedIsPrompt
  <2> QED BY <1>1, <2>1, <2>2
<1>4. ASSUME NEW e \in Events, NEW v \in Views[e],
             \/ HandleError(e, v) \/ StartPrompt(e, v)
             \/ \E id \in DOMAIN pending : JoinPrompt(e, v, id)
      PROVE  AnswerJustified'
  <2>1. Handling(e, v) /\ UNCHANGED <<access, told>>
    BY <1>4 DEF HandleError, StartPrompt, JoinPrompt
  <2>2. /\ access[e] \in {"waiting", "noticed"}
        /\ \A f \in Events \ {e} : view'[f] = view[f]
    BY <2>1, EventInHand
  <2> QED BY <2>1, <2>2, ReasonsStay DEF Decisions
<1>5. CASE HandleOverflow
  BY <1>5, ReasonsStay DEF HandleOverflow
<1> QED BY <1>2, <1>3, <1>4, <1>5 DEF HandleEvent

LEMMA JustifiedNext ==
    ASSUME TypeOK, EventsInv, PendingInv, ToldInv, CacheJustified, AnswerJustified,
           [Next]_vars
    PROVE  AnswerJustified'
<1> USE DEF kernelVars, coordVars, loopVars, channelVars, workerVars, historyVars
<1>1. CASE Environment
  BY <1>1, ReasonsStay
  DEF Environment, Raise, Withdraw, ProcessGone, TypeOK, Decisions
<1>2. CASE \/ Poll \/ DrainWake \/ ChannelDrained \/ ReadBatch \/ DropCoordinator
           \/ LoopError \/ Worker \/ WorkerPanic
  BY <1>2, ReasonsStay
  DEF Poll, DrainWake, ChannelDrained, ReadBatch, DropCoordinator, LoopError, Worker,
      WorkerReceive, WorkerFinish, WorkerCheck, WorkerSend, WorkerWake, WorkerDrop,
      WorkerPanic
<1>3. CASE Exit
  BY <1>3, ReasonsStay DEF Exit, Decisions
<1>4. ASSUME NEW o \in BackendOutcomes, WorkerAnswer(o) PROVE AnswerJustified'
  BY <1>4, ReasonsStay DEF WorkerAnswer
<1>5. CASE UNCHANGED vars
  BY <1>5, ReasonsStay DEF vars
<1>6. ASSUME NEW failed, CompletePrompt(failed) PROVE AnswerJustified'
  <2> DEFINE c == Head(completions)  p == pending[c.id]
             d == IF c.outcome = Failure THEN Default ELSE c.outcome.decision
  <2>1. /\ Running /\ c.id \in DOMAIN pending /\ Respond(p.events, d, failed)
        /\ UNCHANGED <<told, view>>
    BY <1>6 DEF CompletePrompt, Running
  <2>2. c.outcome # Failure =>
            \E t \in told : t.key = p.key /\ t.outcome = c.outcome /\ t.event \in p.events
    BY <1>6, CompletionTold
  <2>3. \A e \in p.events : /\ view[e].verdict = "Prompt" /\ view[e].key = p.key
                            /\ p.key = NoKey => p.events = {e}
    BY <2>1 DEF PendingInv, WaitingOn
  <2> HIDE DEF c, p
  <2>4. ASSUME NEW e \in Events PROVE access'[e] \in Decisions => Reason(e)'
    <3>1. CASE access'[e] = access[e] BY <2>1, <3>1, ReasonStays
    <3>2. CASE access'[e] # access[e]
      <4>1. e \in p.events /\ access'[e] = d BY <2>1, <3>2 DEF Respond
      <4>2. CASE c.outcome = Failure
        BY <2>1, <2>3, <4>1, <4>2 DEF Reason
      <4>3. CASE c.outcome # Failure
        <5>1. PICK t \in told : t.key = p.key /\ t.outcome = c.outcome /\ t.event \in p.events
          BY <2>2, <4>3
        <5>2. Answered(t, view[e], e)
          BY <2>3, <4>1, <5>1 DEF Answered
        <5>3. t.outcome.decision = access'[e] BY <4>1, <4>3, <5>1
        <5> QED BY <2>1, <2>3, <4>1, <5>2, <5>3 DEF Reason, Answered
      <4> QED BY <4>2, <4>3
    <3> QED BY <3>1, <3>2
  <2> QED BY <2>4 DEF AnswerJustified, Reason
<1>7. ASSUME NEW done \in SUBSET DOMAIN pending, NEW failed, FailPending(done, failed)
      PROVE  AnswerJustified'
  <2> DEFINE es == UNION {pending[i].events : i \in done}
  <2>1. Running /\ Respond(es, Default, failed) /\ UNCHANGED <<told, view>>
    BY <1>7 DEF FailPending, Running
  <2>2. \A e \in es : view[e].verdict = "Prompt"
    BY <2>1 DEF PendingInv, WaitingOn
  <2> HIDE DEF es
  <2>3. ASSUME NEW e \in Events PROVE access'[e] \in Decisions => Reason(e)'
    <3>1. CASE access'[e] = access[e] BY <2>1, <3>1, ReasonStays
    <3>2. CASE access'[e] # access[e]
      BY <2>1, <2>2, <3>2 DEF Respond, Reason
    <3> QED BY <3>1, <3>2
  <2> QED BY <2>3 DEF AnswerJustified, Reason
<1> QED
  BY <1>1, <1>2, <1>3, <1>4, <1>5, <1>6, <1>7, JustifiedHandled DEF Next, Loop, Backend


-----------------------------------------------------------------------------
(* The invariant and what follows from it.                                  *)

LEMMA GuardInit == Init => GuardInv
<1> SUFFICES ASSUME Init PROVE GuardInv
  OBVIOUS
<1>1. EventsInv
  <2>1. ToSet(queue) = {} /\ ToSet(batch) = {} /\ held = {} /\ DOMAIN pending = {}
    BY DEF Init, ToSet
  <2>2. Once(queue) /\ \A m, n \in DOMAIN batch : batch[m] = batch[n] => m = n
    BY DEF Init, Once
  <2> QED BY <2>1, <2>2, EventAssumption DEF Init, EventsInv, DescriptorsOwned
<1>2. PendingInv /\ StagesInv
  BY DEF Init, PendingInv, StagesInv, Increasing, Before
<1>3. ToldInv /\ AskedInv
  BY DEF Init, ToldInv, AskedInv, Unasked
<1>4. CacheJustified /\ AnswerJustified
  BY DEF Init, CacheJustified, AnswerJustified, Decisions
<1> QED BY <1>1, <1>2, <1>3, <1>4 DEF GuardInv

LEMMA GuardStep == TypeOK /\ IndexInv /\ GuardInv /\ [Next]_vars => GuardInv'
BY EventsNext, PendingNext, StagesNext, ToldNext, AskedNext, CacheNext, JustifiedNext
DEF GuardInv

LEMMA GuardInvariant == Spec => [](TypeOK /\ GuardInv)
<1>1. Init => IndexInv
  BY DEF Init, IndexInv, IndexAgrees, IdsUsed
<1> QED BY <1>1, GuardInit, GuardStep, IndexNext, TypeCorrect, PTL DEF Spec

(* Two ordered sequences, one before the other, are ordered together. *)
LEMMA OrderedTogether ==
    ASSUME NEW s \in Seq(Nat), NEW t \in Seq(Nat),
           \A m, n \in DOMAIN s : m < n => s[m] < s[n],
           \A m, n \in DOMAIN t : m < n => t[m] < t[n],
           \A m \in DOMAIN s, n \in DOMAIN t : s[m] < t[n]
    PROVE  /\ s \o t \in Seq(Nat)
           /\ \A m, n \in DOMAIN (s \o t) : m < n => (s \o t)[m] < (s \o t)[n]
           /\ ToSet(s \o t) = ToSet(s) \cup ToSet(t)
<1> DEFINE r == s \o t
<1>1. /\ r \in Seq(Nat) /\ Len(r) = Len(s) + Len(t)
      /\ \A k \in 1 .. Len(s) + Len(t) :
             r[k] = IF k <= Len(s) THEN s[k] ELSE t[k - Len(s)]
  BY ConcatProperties
<1>2. /\ Len(s) \in Nat /\ Len(t) \in Nat
      /\ DOMAIN s = 1 .. Len(s) /\ DOMAIN t = 1 .. Len(t)
  OBVIOUS
<1> HIDE DEF r
<1>3. DOMAIN r = 1 .. Len(s) + Len(t) BY <1>1, <1>2
<1>4. \A k \in DOMAIN r : \/ k \in DOMAIN s /\ r[k] = s[k]
                          \/ k > Len(s) /\ k - Len(s) \in DOMAIN t /\ r[k] = t[k - Len(s)]
  BY <1>1, <1>2, <1>3
<1>5. /\ \A k \in DOMAIN s : k \in DOMAIN r /\ r[k] = s[k]
      /\ \A k \in DOMAIN t : k + Len(s) \in DOMAIN r /\ r[k + Len(s)] = t[k]
  <2>1. ASSUME NEW k \in DOMAIN s PROVE k \in DOMAIN r /\ r[k] = s[k]
    BY <1>1, <1>2, <1>3
  <2>2. ASSUME NEW k \in DOMAIN t PROVE k + Len(s) \in DOMAIN r /\ r[k + Len(s)] = t[k]
    <3>1. k \in Nat /\ k + Len(s) > Len(s) /\ k + Len(s) \in 1 .. Len(s) + Len(t)
      BY <1>2
    <3>2. k + Len(s) - Len(s) = k BY <1>2, <3>1
    <3>3. r[k + Len(s)] = t[k + Len(s) - Len(s)] BY <1>1, <1>2, <3>1
    <3> QED BY <1>3, <3>1, <3>2, <3>3
  <2> QED BY <2>1, <2>2
<1>6. ASSUME NEW m \in DOMAIN r, NEW n \in DOMAIN r, m < n PROVE r[m] < r[n]
  <2>1. m \in Nat /\ n \in Nat BY <1>2, <1>3
  <2>2. CASE n \in DOMAIN s /\ r[n] = s[n]
    <3>1. m \in DOMAIN s /\ r[m] = s[m] BY <1>2, <1>4, <1>6, <2>1, <2>2
    <3> QED BY <1>6, <2>2, <3>1
  <2>3. CASE n > Len(s) /\ n - Len(s) \in DOMAIN t /\ r[n] = t[n - Len(s)]
    <3>1. CASE m \in DOMAIN s /\ r[m] = s[m] BY <2>3, <3>1
    <3>2. CASE m > Len(s) /\ m - Len(s) \in DOMAIN t /\ r[m] = t[m - Len(s)]
      <4>1. m - Len(s) < n - Len(s) BY <1>2, <1>6, <2>1
      <4> QED BY <2>3, <3>2, <4>1
    <3> QED BY <1>4, <3>1, <3>2
  <2> QED BY <1>4, <2>2, <2>3
<1>7. ToSet(r) = ToSet(s) \cup ToSet(t)
  <2>1. ToSet(r) \subseteq ToSet(s) \cup ToSet(t) BY <1>4 DEF ToSet
  <2>2. ToSet(s) \subseteq ToSet(r) BY <1>5 DEF ToSet
  <2>3. ToSet(t) \subseteq ToSet(r) BY <1>5 DEF ToSet
  <2> QED BY <2>1, <2>2, <2>3
<1> QED BY <1>1, <1>6, <1>7 DEF r

LEMMA IdsInSeq ==
    ASSUME NEW S, NEW s \in Seq(S), \A x \in S : x.id \in Nat
    PROVE  [n \in DOMAIN s |-> s[n].id] \in Seq(Nat)
<1> DEFINE f == [n \in DOMAIN s |-> s[n].id]
<1>1. Len(s) \in Nat /\ DOMAIN s = 1 .. Len(s) /\ \A n \in DOMAIN s : s[n] \in S
  OBVIOUS
<1>2. f \in [1 .. Len(s) -> Nat]
  BY <1>1
<1> HIDE DEF f
<1>3. \A k \in Nat : \A g \in [1 .. k -> Nat] : g \in Seq(Nat)
  BY SeqDef
<1> QED BY <1>1, <1>2, <1>3 DEF f

(* The stages of the requests, as their definition joins them. *)
LEMMA StagesOrdered ==
    ASSUME TypeOK, StagesInv, Running
    PROVE  /\ \A m, n \in DOMAIN Stages : m < n => Stages[m] < Stages[n]
           /\ \A i : i \in ToSet(Stages) <=>
                  HasId(completions, i) \/ HasId(hand, i) \/ HasId(jobs, i)
<1> DEFINE a == [n \in DOMAIN completions |-> completions[n].id]
           b == [n \in DOMAIN hand |-> hand[n].id]
           c == [n \in DOMAIN jobs |-> jobs[n].id]
<1>1. completions \in Seq(Completion) /\ hand \in Seq(Job) /\ jobs \in Seq(Job)
  BY DEF TypeOK
<1>2. a \in Seq(Nat) /\ b \in Seq(Nat) /\ c \in Seq(Nat)
  <2>1. (\A x \in Completion : x.id \in Nat) /\ (\A x \in Job : x.id \in Nat)
    BY DEF Completion, Job
  <2> QED BY <1>1, <2>1, IdsInSeq
<1>3. /\ \A m, n \in DOMAIN a : m < n => a[m] < a[n]
      /\ \A m, n \in DOMAIN c : m < n => c[m] < c[n]
      /\ \A m \in DOMAIN a, n \in DOMAIN b : a[m] < b[n]
      /\ \A m \in DOMAIN a, n \in DOMAIN c : a[m] < c[n]
      /\ \A m \in DOMAIN b, n \in DOMAIN c : b[m] < c[n]
  BY DEF StagesInv, Increasing, Before
<1>4. \A m, n \in DOMAIN b : m < n => b[m] < b[n]
  <2>1. Len(hand) \in {0, 1} BY DEF TypeOK
  <2>2. DOMAIN b = 1 .. Len(hand) BY <1>1
  <2> QED BY <2>1, <2>2
<1>5. /\ ToSet(a) = {completions[n].id : n \in DOMAIN completions}
      /\ ToSet(b) = {hand[n].id : n \in DOMAIN hand}
      /\ ToSet(c) = {jobs[n].id : n \in DOMAIN jobs}
  BY DEF ToSet
<1>6. Stages = (a \o b) \o c
  BY DEF Stages
<1> HIDE DEF a, b, c
<1>7. /\ a \o b \in Seq(Nat)
      /\ \A m, n \in DOMAIN (a \o b) : m < n => (a \o b)[m] < (a \o b)[n]
      /\ ToSet(a \o b) = ToSet(a) \cup ToSet(b)
  BY <1>2, <1>3, <1>4, OrderedTogether
<1>8. \A m \in DOMAIN (a \o b), n \in DOMAIN c : (a \o b)[m] < c[n]
  <2>1. ASSUME NEW m \in DOMAIN (a \o b), NEW n \in DOMAIN c PROVE (a \o b)[m] < c[n]
    <3>1. (a \o b)[m] \in ToSet(a) \cup ToSet(b) BY <1>7 DEF ToSet
    <3> QED BY <1>3, <3>1 DEF ToSet
  <2> QED BY <2>1
<1>9. /\ \A m, n \in DOMAIN Stages : m < n => Stages[m] < Stages[n]
      /\ ToSet(Stages) = ToSet(a) \cup ToSet(b) \cup ToSet(c)
  BY <1>2, <1>3, <1>6, <1>7, <1>8, OrderedTogether
<1> QED BY <1>5, <1>9 DEF HasId

(* No opener is forgotten, none is answered twice and no descriptor is      *)
(* closed twice: while the loop runs every descriptor has one owner.        *)
THEOREM Ownership == Spec => []DescriptorsOwned
<1>1. GuardInv => DescriptorsOwned
  BY DEF GuardInv, EventsInv, DescriptorsOwned
<1> QED BY <1>1, GuardInvariant, PTL

(* complete_prompt never meets an unknown id, and requests are answered in  *)
(* the order they were made.                                                *)
THEOREM Completions == Spec => []CompletionsKnown
<1>1. TypeOK /\ GuardInv => CompletionsKnown
  BY StagesOrdered DEF GuardInv, StagesInv, CompletionsKnown
<1> QED BY <1>1, GuardInvariant, PTL

(* A living worker loses no request. *)
THEOREM Requests == Spec => []NoRequestLost
<1>1. TypeOK /\ GuardInv => NoRequestLost
  <2> SUFFICES ASSUME TypeOK, GuardInv, Running, ~WriterClosed, worker # "dropWriter"
               PROVE  DOMAIN pending = ToSet(Stages)
    BY DEF NoRequestLost
  <2>1. StagesInv BY DEF GuardInv
  <2>2. \A i : i \in ToSet(Stages) <=>
            HasId(completions, i) \/ HasId(hand, i) \/ HasId(jobs, i)
    BY <2>1, StagesOrdered
  <2>3. \A i \in DOMAIN pending :
            HasId(completions, i) \/ HasId(hand, i) \/ HasId(jobs, i)
    BY <2>1 DEF StagesInv
  <2>4. \A i : HasId(completions, i) \/ HasId(hand, i) \/ HasId(jobs, i)
                  => i \in DOMAIN pending
    BY <2>1 DEF StagesInv, HasId, Matches
  <2> QED BY <2>2, <2>3, <2>4
<1> QED BY <1>1, GuardInvariant, PTL

(* Every answer of the guard has a reason that is that access's own. *)
THEOREM Answers == Spec => []AnswerJustified
<1>1. GuardInv => AnswerJustified
  BY DEF GuardInv
<1> QED BY <1>1, GuardInvariant, PTL

(* The caches hold only what was decided. *)
THEOREM Caches == Spec => []CacheJustified
<1>1. GuardInv => CacheJustified
  BY DEF GuardInv
<1> QED BY <1>1, GuardInvariant, PTL

(* No second dialog is shown about a key that was answered. *)
THEOREM OneDialog == Spec => []AskedOncePerKey
<1>1. GuardInv => AskedOncePerKey
  BY DEF GuardInv, AskedInv, AskedOncePerKey, Unasked
<1> QED BY <1>1, GuardInvariant, PTL

(* A cached decision only ever changes to one the backend gave. *)
THEOREM CacheChanges == Spec => CacheOnlyAnswered
<1> USE DEF kernelVars, coordVars, loopVars, channelVars, workerVars, historyVars
<1>1. TypeOK /\ GuardInv /\ [Next]_vars =>
        [\A k \in Keys : decisions[k] # NoDecision /\ decisions'[k] # decisions[k] =>
            \E t \in told : t.key = k /\ t.outcome.decision = decisions'[k]]_vars
  <2> SUFFICES ASSUME TypeOK, GuardInv, [Next]_vars,
                      NEW k \in Keys, decisions[k] # NoDecision, decisions'[k] # decisions[k]
               PROVE  \E t \in told : t.key = k /\ t.outcome.decision = decisions'[k]
    BY DEF vars
  <2>1. ASSUME NEW failed, CompletePrompt(failed)
        PROVE  \E t \in told : t.key = k /\ t.outcome.decision = decisions'[k]
    <3> DEFINE c == Head(completions)  p == pending[c.id]
    <3>1. Remember(p, c.outcome) BY <2>1 DEF CompletePrompt
    <3>2. c.outcome # Failure => \E t \in told : t.key = p.key /\ t.outcome = c.outcome
      BY <2>1, CompletionTold DEF GuardInv
    <3> HIDE DEF c, p
    <3>3. c.outcome # Failure /\ decisions' = CacheDecision(p.key, c.outcome.decision)
      BY <3>1 DEF Remember, CacheAnswer
    <3>4. k = p.key /\ decisions'[k] = c.outcome.decision
      BY <3>3, EventAssumption DEF CacheDecision, TypeOK
    <3> QED BY <3>2, <3>3, <3>4
  <2>2. ASSUME NEW e \in Events, NEW v \in Views[e], NEW failed,
               HandleNoSession(e, v, failed)
        PROVE  FALSE
    <3>1. decisions' = CacheDecision(v.key, Default) /\ Settled(v) = NoDecision
      BY <2>2 DEF HandleNoSession, NoSession
    <3>2. v.verdict = "Prompt" BY <3>1, AskedIsPrompt
    <3>3. k = v.key /\ v.key # NoKey
      BY <3>1 DEF CacheDecision, TypeOK
    <3> QED BY <3>1, <3>2, <3>3 DEF Settled, NoDecision
  <2>3. ASSUME UNCHANGED decisions PROVE FALSE
    BY <2>3
  <2>4. CASE Environment
    BY <2>3, <2>4 DEF Environment, Raise, Withdraw, ProcessGone
  <2>5. CASE \/ Poll \/ DrainWake \/ ChannelDrained \/ ReadBatch \/ DropCoordinator \/ Exit
             \/ LoopError \/ Worker \/ WorkerPanic \/ Backend
    BY <2>3, <2>5
    DEF Poll, DrainWake, ChannelDrained, ReadBatch, DropCoordinator, Exit, LoopError,
        Worker, WorkerReceive, WorkerFinish, WorkerCheck, WorkerSend, WorkerWake,
        WorkerDrop, WorkerPanic, Backend, WorkerAnswer
  <2>6. ASSUME NEW done, NEW failed, FailPending(done, failed) PROVE FALSE
    BY <2>3, <2>6 DEF FailPending
  <2>7. CASE HandleEvent
    BY <2>2, <2>3, <2>7
    DEF HandleEvent, HandleSettled, SendFails, JoinPrompt, StartPrompt, HandleError,
        HandleOverflow
  <2>8. CASE UNCHANGED vars BY <2>3, <2>8 DEF vars
  <2> QED BY <2>1, <2>4, <2>5, <2>6, <2>7, <2>8 DEF Next, Loop
<1> QED BY <1>1, GuardInvariant, PTL DEF Spec, CacheOnlyAnswered

==============================================================================
