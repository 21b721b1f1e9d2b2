--------------------------- MODULE AccessGateProofs ---------------------------
(****************************************************************************)
(* Strict ownership, the finality, the reasons and the reach of answers,    *)
(* the authorized pairs of AccessGate and the order of its rules, for       *)
(* every configuration, process, target and history of answers.             *)
(****************************************************************************)
EXTENDS AccessGate, SequenceFacts

(* What a strictly owned path denies, by the policy alone. *)
StrictlyDenied(c, s, target) ==
    LET owner == OwnerFor(c, target)
    IN /\ owner # None /\ owner.denyNonOwner
       /\ FileName(target) # Gitignore
       /\ ~OwnerAllows(owner, s)

(* The last access is on record with the policy's decision for it, and what *)
(* the policy settles is what it got.                                       *)
LastEvaluated ==
    last # None =>
        /\ last.evaluation.policyDecision =
               DecisionOn(last.evaluation.process, last.evaluation.target,
                          last.evaluation.access)
        /\ last.evaluation.policyDecision.verdict # "Prompt" =>
               last.decision = last.evaluation.policyDecision.verdict

(* Policy::decide returns its strict denial before it looks at shared and   *)
(* sensitive paths.                                                         *)
LEMMA StrictDecision ==
    ASSUME NEW c, NEW s, NEW target, NEW access, StrictlyDenied(c, s, target)
    PROVE  Decide(c, s, target, access) = Settled("Deny")
BY DEF StrictlyDenied, Decide

(* The verdicts of Policy::decide are the three of the Decision type.       *)
LEMMA VerdictOfDecide ==
    ASSUME NEW c, NEW s, NEW target, NEW access
    PROVE  Decide(c, s, target, access).verdict \in {"Allow", "Deny", "Prompt"}
<1>1. \/ Decide(c, s, target, access) \in {Settled("Allow"), Settled("Deny")}
      \/ \E kind \in {"CrossOwner", "Sensitive"} :
             Decide(c, s, target, access) = Prompted(kind, access)
  BY DEF Decide
<1> QED
  BY <1>1 DEF Settled, Prompted

(* A prompted decision is the only one the user or a cache can touch.       *)
LEMMA EvaluatedByPolicy ==
    ASSUME NEW p, NEW target, NEW access, NEW v, v = Evaluation(p, target, access),
           Settle(v) \/ ApplyDefault(v) \/ Ask(v) \/ AskFails(v)
    PROVE  LastEvaluated'
<1> DEFINE decision == DecisionOn(p, target, access)
<1>1. /\ v.process = p /\ v.target = target /\ v.access = access
      /\ v.policyDecision = decision
  BY DEF Evaluation
<1>2. ASSUME NEW d, Reply(v, d), v.policyDecision.verdict # "Prompt" =>
                                     d = v.policyDecision.verdict
      PROVE  LastEvaluated'
  <2>1. last'.evaluation = v /\ last'.decision = d /\ configured' = configured
    BY <1>2 DEF Reply
  <2>2. DecisionOn(p, target, access)' = decision
    BY <2>1 DEF DecisionOn, config
  <2> QED
    BY <1>1, <1>2, <2>1, <2>2 DEF LastEvaluated
<1>3. CASE Settle(v)
  <2>1. Reply(v, Immediate(v)) BY <1>3 DEF Settle
  <2>2. v.policyDecision.verdict # "Prompt" => Immediate(v) = v.policyDecision.verdict
    BY DEF Immediate
  <2> QED BY <1>2, <2>1, <2>2
<1>4. CASE ~Settle(v)
  <2>1. Immediate(v) = None
    BY <1>4 DEF ApplyDefault, Ask, AskFails
  <2>2. v.policyDecision.verdict = "Prompt"
    BY <1>1, <2>1, VerdictOfDecide, GateAssumption DEF Immediate, DecisionOn
  <2>3. PICK d : Reply(v, d)
    BY <1>4 DEF ApplyDefault, Ask, AskFails
  <2> QED BY <1>2, <2>2, <2>3
<1> QED
  BY <1>3, <1>4

(* No access has been decided at the start. *)
LEMMA InitEvaluated == Init => LastEvaluated
BY DEF Init, LastEvaluated

(* Every step keeps the record: an access writes it, nothing else changes   *)
(* it, and the configuration stays.                                         *)
LEMMA NextEvaluated == LastEvaluated /\ [Next]_vars => LastEvaluated'
<1> SUFFICES ASSUME LastEvaluated, [Next]_vars PROVE LastEvaluated'
  OBVIOUS
<1>1. CASE Decides
  BY <1>1, EvaluatedByPolicy DEF Decides
<1>3. CASE NextEvent
  BY <1>3 DEF NextEvent, LastEvaluated
<1>2. CASE UNCHANGED vars
  <2>1. last' = last /\ configured' = configured
    BY <1>2 DEF vars
  <2>2. ASSUME NEW p, NEW target, NEW access
        PROVE  DecisionOn(p, target, access)' = DecisionOn(p, target, access)
    BY <2>1 DEF DecisionOn, config
  <2> QED
    BY <2>1, <2>2 DEF LastEvaluated
<1> QED
  BY <1>1, <1>2, <1>3 DEF Next

(* Where the policy denies strictly, what is on record is that denial.      *)
LEMMA EvaluatedStrictly == LastEvaluated => StrictOwnershipHolds
<1> SUFFICES ASSUME LastEvaluated, last # None,
                    StrictlyDenied(config, Subject(IdentityOf[last.evaluation.process]),
                                   LogicalPath(last.evaluation.target))
             PROVE  last.decision = "Deny"
  BY DEF StrictOwnershipHolds, StrictlyDenied
<1>1. last.evaluation.policyDecision = Settled("Deny")
  BY StrictDecision DEF LastEvaluated, DecisionOn
<1> QED
  BY <1>1 DEF LastEvaluated, Settled

(* A subject that a strictly owned path denies is denied in every reachable *)
(* state: no sharing, development tool, fail-open default, cached answer or *)
(* authorization comes before Policy::decide's Deny.                        *)
THEOREM StrictOwnership == Spec => []StrictOwnershipHolds
<1>1. Spec => []LastEvaluated
  BY InitEvaluated, NextEvaluated, PTL DEF Spec
<1> QED
  BY <1>1, EvaluatedStrictly, PTL

-----------------------------------------------------------------------------
(* Only decisions are cached, never the absence of one: PromptDecisionCache *)
(* keeps an answer or a default.                                            *)
Decided == \A k \in DOMAIN decisions : decisions[k] \in {"Allow", "Deny"}

KeptAndExtended ==
    /\ Decided'
    /\ \A k \in DOMAIN decisions : k \in DOMAIN decisions' /\ decisions'[k] = decisions[k]

(* insert_decision on a key that is not in the map keeps every other entry. *)
LEMMA CachingExtends ==
    ASSUME Decided, NEW key, NEW d \in {"Allow", "Deny"},
           key \notin DOMAIN decisions, CacheDecision(key, d)
    PROVE  KeptAndExtended
BY DEF CacheDecision, Decided, KeptAndExtended

(* A step caches only under a key that immediate_prompt_decision did not    *)
(* find, and only a decision.                                               *)
LEMMA StepKeepsAnswers == Decided /\ [Next]_vars => KeptAndExtended
<1> SUFFICES ASSUME Decided, [Next]_vars PROVE KeptAndExtended
  OBVIOUS
<1>1. ASSUME NEW v, Settle(v) \/ AskFails(v) PROVE KeptAndExtended
  BY <1>1 DEF Settle, AskFails, KeptAndExtended, Decided
<1>2. ASSUME NEW v, ApplyDefault(v) \/ Ask(v), v.policyDecision.verdict = "Prompt"
      PROVE  KeptAndExtended
  <2>1. Immediate(v) = None
    BY <1>2 DEF ApplyDefault, Ask
  <2>2. v.key \notin DOMAIN decisions
    BY <1>2, <2>1, GateAssumption DEF Immediate, Decided
  <2>3. PICK d \in {"Allow", "Deny"} : CacheDecision(v.key, d)
    BY <1>2 DEF ApplyDefault, Ask, CacheAnswer, DefaultDecision
  <2> QED BY <2>2, <2>3, CachingExtends
<1>3. ASSUME NEW p, NEW target, NEW access, NEW v, v = Evaluation(p, target, access),
             ApplyDefault(v) \/ Ask(v)
      PROVE  v.policyDecision.verdict = "Prompt"
  <2>1. Immediate(v) = None
    BY <1>3 DEF ApplyDefault, Ask
  <2> QED
    BY <1>3, <2>1, VerdictOfDecide, GateAssumption DEF Immediate, Evaluation, DecisionOn
<1>4. CASE Decides
  BY <1>1, <1>2, <1>3, <1>4 DEF Decides
<1>5. CASE NextEvent \/ UNCHANGED vars
  BY <1>5 DEF NextEvent, vars, KeptAndExtended, Decided
<1> QED
  BY <1>4, <1>5 DEF Next

(* What has been decided for a process generation and a reason stays        *)
(* decided, for any number of processes, accesses and answers.              *)
THEOREM FinalAnswers == Spec => AnswersFinal
<1>1. Init => Decided
  BY DEF Init, Decided
<1>2. Decided /\ [Next]_vars => Decided'
  BY StepKeepsAnswers DEF KeptAndExtended
<1>3. Decided /\ [Next]_vars =>
          [\A k \in DOMAIN decisions :
              k \in DOMAIN decisions' /\ decisions'[k] = decisions[k]]_vars
  BY StepKeepsAnswers DEF KeptAndExtended
<1> QED
  BY <1>1, <1>2, <1>3, PTL DEF Spec, AnswersFinal

-----------------------------------------------------------------------------
(* What a user has answered explicitly.                                     *)
Answered(d, decision) == d \in dialogs /\ d.explicit = TRUE /\ d.decision = decision

(* Each dialog was about a process and what it asked for then.              *)
DialogsEvaluated ==
    \A d \in dialogs : \E target, access :
        LET decision == DecisionOn(d.process, target, access)
        IN /\ d.process \in Processes
           /\ decision.verdict = "Prompt" /\ d.reason = decision.reason
           /\ d.authorization = Authorization(IdentityOf[d.process], decision)

KeyOf(d) ==
    [pid |-> IdentityOf[d.process].pid, start |-> IdentityOf[d.process].start,
     executable |-> IdentityOf[d.process].executable, reason |-> d.reason]

(* What is cached beside the default is an answer to a dialog with that key. *)
DecisionsAnswered ==
    \A k \in DOMAIN decisions :
        /\ k # None
        /\ decisions[k] # DefaultDecision(config) =>
               \E d \in dialogs : Answered(d, decisions[k]) /\ KeyOf(d) = k

AuthorizationsAnswered ==
    \A pair \in authorizations :
        /\ pair # None
        /\ \E d \in dialogs : Answered(d, "Allow") /\ d.authorization = pair

GateInv ==
    DialogsEvaluated /\ DecisionsAnswered /\ AuthorizationsAnswered /\ AnswerJustified

(* An authorization comes with a cross-owner prompt only.                   *)
LEMMA AuthorizationIsCrossOwner ==
    ASSUME NEW p, NEW decision, Authorization(p, decision) # None
    PROVE  decision.reason[1] = "CrossOwner"
BY DEF Authorization

LEMMA ConfigurationStays ==
    ASSUME UNCHANGED <<configured, mode>>, NEW p, NEW target, NEW access, NEW identity, NEW decision
    PROVE  /\ DecisionOn(p, target, access)' = DecisionOn(p, target, access)
           /\ Authorization(identity, decision)' = Authorization(identity, decision)
           /\ DefaultDecision(config)' = DefaultDecision(config)
<1>1. config' = config BY DEF config
<1>2. DecisionOn(p, target, access)' = DecisionOn(p, target, access)
  BY <1>1 DEF DecisionOn
<1>3. Authorization(identity, decision)' = Authorization(identity, decision)
  BY <1>1 DEF Authorization
<1>4. DefaultDecision(config)' = DefaultDecision(config) BY <1>1
<1> QED BY <1>2, <1>3, <1>4

(* Dialogs are never forgotten, so what they justify stays justified.       *)
LEMMA JustifiedStays ==
    ASSUME GateInv, UNCHANGED <<configured, mode>>, dialogs \subseteq dialogs'
    PROVE  /\ UNCHANGED dialogs => DialogsEvaluated'
           /\ UNCHANGED decisions => DecisionsAnswered'
           /\ UNCHANGED authorizations => AuthorizationsAnswered'
<1>1. ASSUME UNCHANGED dialogs PROVE DialogsEvaluated'
  <2> SUFFICES ASSUME NEW d \in dialogs
               PROVE  \E target, access :
                        /\ d.process \in Processes
                        /\ DecisionOn(d.process, target, access)'.verdict = "Prompt"
                        /\ d.reason = DecisionOn(d.process, target, access)'.reason
                        /\ d.authorization =
                              Authorization(IdentityOf[d.process],
                                            DecisionOn(d.process, target, access))'
    BY <1>1 DEF DialogsEvaluated
  <2>1. PICK target, access :
            /\ d.process \in Processes
            /\ DecisionOn(d.process, target, access).verdict = "Prompt"
            /\ d.reason = DecisionOn(d.process, target, access).reason
            /\ d.authorization = Authorization(IdentityOf[d.process],
                                               DecisionOn(d.process, target, access))
    BY DEF GateInv, DialogsEvaluated
  <2>2. DecisionOn(d.process, target, access)' = DecisionOn(d.process, target, access)
    BY ConfigurationStays
  <2>3. \A identity, decision :
            Authorization(identity, decision)' = Authorization(identity, decision)
    BY ConfigurationStays
  <2> QED BY <2>1, <2>2, <2>3 DEF Authorization, config
<1>2. ASSUME UNCHANGED decisions PROVE DecisionsAnswered'
  BY <1>2, ConfigurationStays DEF GateInv, DecisionsAnswered, Answered, KeyOf
<1>3. ASSUME UNCHANGED authorizations PROVE AuthorizationsAnswered'
  BY <1>3 DEF GateInv, AuthorizationsAnswered, Answered
<1> QED BY <1>1, <1>2, <1>3

(* What justifies a decision on the access v.                               *)
Justified(v, decision, answers) ==
    \E d \in answers :
        /\ d.explicit /\ d.decision = decision
        /\ \/ d.process = v.process /\ d.reason = v.policyDecision.reason
           \/ /\ d.decision = "Allow"
              /\ "CrossOwner" = d.reason[1] /\ "CrossOwner" = v.policyDecision.reason[1]
              /\ v.authorization # None
              /\ v.authorization = d.authorization

LEMMA ReplyJustified ==
    ASSUME NEW v, NEW decision, Reply(v, decision),
           v.policyDecision.verdict = "Prompt" /\ decision # DefaultDecision(config) =>
               Justified(v, decision, dialogs')
    PROVE  AnswerJustified'
<1>1. /\ last'.evaluation = v /\ last'.decision = decision
      /\ UNCHANGED <<configured, mode>>
  BY DEF Reply
<1>2. DefaultDecision(config)' = DefaultDecision(config)
  BY <1>1, ConfigurationStays
<1> QED BY <1>1, <1>2 DEF AnswerJustified, Justified

(* What is found in a cache was an answer to a dialog about this process    *)
(* and reason, or one that authorized the pair.                             *)
LEMMA CachedJustified ==
    ASSUME GateInv, NEW p \in Processes, NEW target, NEW access, NEW v,
           v = Evaluation(p, target, access), v.policyDecision.verdict = "Prompt",
           Immediate(v) # None, Immediate(v) # DefaultDecision(config)
    PROVE  Justified(v, Immediate(v), dialogs)
<1> DEFINE decision == DecisionOn(p, target, access)
<1>1. /\ v.process = p /\ v.policyDecision = decision
      /\ v.key = PromptKey(IdentityOf[p], decision)
      /\ v.authorization = Authorization(IdentityOf[p], decision)
  BY DEF Evaluation
<1>2. CASE v.authorization \in authorizations
  <2>1. Immediate(v) = "Allow" BY <1>2 DEF Immediate
  <2>2. PICK d \in dialogs : Answered(d, "Allow") /\ d.authorization = v.authorization
    BY <1>2 DEF GateInv, AuthorizationsAnswered
  <2>3. v.authorization # None BY <1>2 DEF GateInv, AuthorizationsAnswered
  <2>4. "CrossOwner" = v.policyDecision.reason[1]
    BY <1>1, <2>3, AuthorizationIsCrossOwner
  <2>5. "CrossOwner" = d.reason[1]
    BY <2>2, <2>3, AuthorizationIsCrossOwner DEF GateInv, DialogsEvaluated
  <2> QED BY <2>1, <2>2, <2>3, <2>4, <2>5 DEF Justified, Answered
<1>3. CASE v.authorization \notin authorizations
  <2>1. v.key \in DOMAIN decisions /\ Immediate(v) = decisions[v.key]
    BY <1>3 DEF Immediate
  <2>2. PICK d \in dialogs : Answered(d, decisions[v.key]) /\ KeyOf(d) = v.key
    BY <2>1 DEF GateInv, DecisionsAnswered
  <2>3. v.key # None BY <2>1 DEF GateInv, DecisionsAnswered
  <2>4. /\ v.key = [pid |-> IdentityOf[p].pid, start |-> IdentityOf[p].start,
                    executable |-> IdentityOf[p].executable, reason |-> decision.reason]
        /\ IdentityOf[p].start # None
    BY <1>1, <2>3 DEF PromptKey
  <2>5. /\ IdentityOf[d.process].pid = IdentityOf[p].pid
        /\ IdentityOf[d.process].start = IdentityOf[p].start
        /\ IdentityOf[d.process].executable = IdentityOf[p].executable
        /\ d.reason = decision.reason
    BY <2>2, <2>4 DEF KeyOf
  <2>6. d.process \in Processes BY DEF GateInv, DialogsEvaluated
  <2>7. d.process = p BY <2>4, <2>5, <2>6, GenerationAssumption
  <2> QED BY <1>1, <2>1, <2>2, <2>5, <2>7 DEF Justified, Answered
<1> QED BY <1>2, <1>3

(* An answer is recorded with its dialog, and cached as that answer.        *)
LEMMA AskKeeps ==
    ASSUME GateInv, NEW p \in Processes, NEW target, NEW access, NEW v,
           v = Evaluation(p, target, access), v.policyDecision.verdict = "Prompt", Ask(v)
    PROVE  GateInv'
<1> DEFINE decision == DecisionOn(p, target, access)
<1>1. /\ v.process = p /\ v.policyDecision = decision
      /\ v.key = PromptKey(IdentityOf[p], decision)
      /\ v.authorization = Authorization(IdentityOf[p], decision)
  BY DEF Evaluation
<1>2. PICK answer, explicit :
          /\ explicit = TRUE \/ (explicit = FALSE /\ answer = DefaultDecision(config))
          /\ CacheAnswer(v.key, v.authorization, answer, explicit)
          /\ Reply(v, answer)
          /\ dialogs' = dialogs \cup
                 {[process |-> v.process, reason |-> v.policyDecision.reason,
                   authorization |-> v.authorization,
                   decision |-> answer, explicit |-> explicit]}
  BY DEF Ask
<1>3. PICK asked :
          /\ dialogs' = dialogs \cup {asked}
          /\ asked.process = p /\ asked.reason = decision.reason
          /\ asked.authorization = v.authorization
          /\ asked.decision = answer /\ asked.explicit = explicit
  <2> DEFINE a == [process |-> v.process, reason |-> v.policyDecision.reason,
                   authorization |-> v.authorization,
                   decision |-> answer, explicit |-> explicit]
  <2>1. /\ a.process = p /\ a.reason = decision.reason
        /\ a.authorization = v.authorization
        /\ a.decision = answer /\ a.explicit = explicit
    BY <1>1
  <2>2. dialogs' = dialogs \cup {a} BY <1>2
  <2> HIDE DEF a
  <2> QED BY <2>1, <2>2
<1>4. UNCHANGED <<configured, mode>> BY <1>2 DEF Reply
<1>5. DialogsEvaluated'
  <2> SUFFICES ASSUME NEW d \in dialogs'
               PROVE  \E t, a :
                        /\ d.process \in Processes
                        /\ DecisionOn(d.process, t, a)'.verdict = "Prompt"
                        /\ d.reason = DecisionOn(d.process, t, a)'.reason
                        /\ d.authorization = Authorization(IdentityOf[d.process],
                                                           DecisionOn(d.process, t, a))'
    BY DEF DialogsEvaluated
  <2>1. PICK t, a : /\ d.process \in Processes
                    /\ DecisionOn(d.process, t, a).verdict = "Prompt"
                    /\ d.reason = DecisionOn(d.process, t, a).reason
                    /\ d.authorization = Authorization(IdentityOf[d.process],
                                                       DecisionOn(d.process, t, a))
    <3>1. CASE d = asked BY <1>1, <1>3, <3>1
    <3>2. CASE d # asked BY <1>3, <3>2 DEF GateInv, DialogsEvaluated
    <3> QED BY <3>1, <3>2
  <2>2. DecisionOn(d.process, t, a)' = DecisionOn(d.process, t, a)
    BY <1>4, ConfigurationStays
  <2>3. config' = config /\ mode' = mode BY <1>4 DEF config
  <2> QED BY <2>1, <2>2, <2>3 DEF Authorization
<1>6. DecisionsAnswered'
  <2>1. DefaultDecision(config)' = DefaultDecision(config)
    BY <1>4, ConfigurationStays
  <2>2. CASE v.key = None
    BY <1>2, <1>3, <2>1, <2>2 DEF CacheAnswer, CacheDecision, GateInv, DecisionsAnswered,
                                  Answered, KeyOf
  <2>3. CASE v.key # None
    <3>1. decisions' = [k \in DOMAIN decisions \cup {v.key} |->
                            IF k = v.key THEN answer ELSE decisions[k]]
      BY <1>2, <2>3 DEF CacheAnswer, CacheDecision
    <3>2. KeyOf(asked) = v.key
      BY <1>1, <1>3, <2>3 DEF PromptKey, KeyOf
    <3>3. answer # DefaultDecision(config) => Answered(asked, answer)'
      BY <1>2, <1>3 DEF Answered
    <3>4. ASSUME NEW k \in DOMAIN decisions'
          PROVE  /\ k # None
                 /\ decisions'[k] # DefaultDecision(config) =>
                        \E d \in dialogs' : Answered(d, decisions[k])' /\ KeyOf(d) = k
      <4>1. CASE k = v.key
        BY <1>3, <2>3, <3>1, <3>2, <3>3, <4>1 DEF Answered
      <4>2. CASE k # v.key
        <5>1. k \in DOMAIN decisions /\ decisions'[k] = decisions[k]
          BY <3>1, <4>2
        <5> QED BY <1>3, <5>1 DEF GateInv, DecisionsAnswered, Answered
      <4> QED BY <4>1, <4>2
    <3> QED BY <2>1, <3>4 DEF DecisionsAnswered, KeyOf
  <2> QED BY <2>2, <2>3
<1>7. AuthorizationsAnswered'
  <2>1. authorizations' = authorizations \cup
            (IF explicit /\ answer = "Allow" THEN {v.authorization} \ {None} ELSE {})
    BY <1>2 DEF CacheAnswer
  <2>2. explicit /\ answer = "Allow" => Answered(asked, "Allow")'
    BY <1>2, <1>3 DEF Answered
  <2> QED BY <1>3, <2>1, <2>2 DEF GateInv, AuthorizationsAnswered, Answered
<1>8. AnswerJustified'
  <2>1. answer # DefaultDecision(config) => Justified(v, answer, dialogs')
    BY <1>1, <1>2, <1>3 DEF Justified
  <2> QED BY <1>2, <2>1, ReplyJustified
<1> QED BY <1>5, <1>6, <1>7, <1>8 DEF GateInv

(* A default fills the caches with nothing that an answer would be due for. *)
LEMMA DefaultKeeps ==
    ASSUME GateInv, NEW v, v.policyDecision.verdict = "Prompt",
           ApplyDefault(v) \/ AskFails(v)
    PROVE  GateInv'
<1>1. /\ UNCHANGED <<configured, mode, authorizations, dialogs>>
      /\ Reply(v, DefaultDecision(config))
  BY DEF ApplyDefault, AskFails, Reply
<1>2. DialogsEvaluated' /\ AuthorizationsAnswered'
  BY <1>1, JustifiedStays
<1>3. AnswerJustified'
  BY <1>1, ReplyJustified
<1>4. DecisionsAnswered'
  <2>1. CASE UNCHANGED decisions BY <1>1, <2>1, JustifiedStays
  <2>2. CASE ~UNCHANGED decisions
    <3>1. ApplyDefault(v) /\ v.key # None
      BY <2>2 DEF ApplyDefault, AskFails, CacheDecision
    <3>2. decisions' = [k \in DOMAIN decisions \cup {v.key} |->
                            IF k = v.key THEN DefaultDecision(config) ELSE decisions[k]]
      BY <3>1 DEF ApplyDefault, CacheDecision
    <3>3. DefaultDecision(config)' = DefaultDecision(config)
      BY <1>1, ConfigurationStays
    <3> QED BY <1>1, <3>1, <3>2, <3>3 DEF GateInv, DecisionsAnswered, Answered, KeyOf
  <2> QED BY <2>1, <2>2
<1> QED BY <1>2, <1>3, <1>4 DEF GateInv

(* An access that the policy or a cache settles changes neither cache.      *)
LEMMA SettleKeeps ==
    ASSUME GateInv, NEW p \in Processes, NEW target, NEW access, NEW v,
           v = Evaluation(p, target, access), Settle(v)
    PROVE  GateInv'
<1>1. /\ UNCHANGED <<configured, mode, decisions, authorizations, dialogs>>
      /\ Reply(v, Immediate(v)) /\ Immediate(v) # None
  BY DEF Settle, Reply
<1>2. DialogsEvaluated' /\ DecisionsAnswered' /\ AuthorizationsAnswered'
  BY <1>1, JustifiedStays
<1>3. AnswerJustified'
  BY <1>1, CachedJustified, ReplyJustified
<1> QED BY <1>2, <1>3 DEF GateInv

LEMMA InitGate == Init => GateInv
BY DEF Init, GateInv, DialogsEvaluated, DecisionsAnswered, AuthorizationsAnswered,
       AnswerJustified

LEMMA NextGate == GateInv /\ [Next]_vars => GateInv'
<1> SUFFICES ASSUME GateInv, [Next]_vars PROVE GateInv'
  OBVIOUS
<1>1. ASSUME NEW p \in Processes, NEW target, NEW access, NEW v,
             v = Evaluation(p, target, access),
             Settle(v) \/ ApplyDefault(v) \/ Ask(v) \/ AskFails(v)
      PROVE  GateInv'
  <2>1. CASE Settle(v) BY <1>1, <2>1, SettleKeeps
  <2>2. CASE ~Settle(v)
    <3>1. v.policyDecision.verdict = "Prompt"
      <4>1. Immediate(v) = None BY <1>1, <2>2 DEF ApplyDefault, Ask, AskFails
      <4> QED BY <1>1, <4>1, VerdictOfDecide, GateAssumption
              DEF Immediate, Evaluation, DecisionOn
    <3> QED BY <1>1, <2>2, <3>1, DefaultKeeps, AskKeeps
  <2> QED BY <2>1, <2>2
<1>2. CASE Decides BY <1>1, <1>2 DEF Decides
<1>3. CASE NextEvent \/ UNCHANGED vars
  <2>1. /\ UNCHANGED <<configured, mode, decisions, authorizations, dialogs>>
        /\ last' \in {last, None}
    BY <1>3 DEF NextEvent, vars
  <2>2. DialogsEvaluated' /\ DecisionsAnswered' /\ AuthorizationsAnswered'
    BY <2>1, JustifiedStays
  <2>3. DefaultDecision(config)' = DefaultDecision(config)
    BY <2>1, ConfigurationStays
  <2> QED BY <2>1, <2>2, <2>3 DEF GateInv, AnswerJustified
<1> QED BY <1>2, <1>3 DEF Next

(* Whatever the caches hold after any number of accesses, a decision that   *)
(* is not the default goes back to an explicit answer about the same        *)
(* generation and reason, or about the same authorized pair.                *)
THEOREM Justification == Spec => []AnswerJustified
<1>1. Spec => []GateInv
  BY InitGate, NextGate, PTL DEF Spec
<1>2. GateInv => AnswerJustified
  BY DEF GateInv
<1> QED
  BY <1>1, <1>2, PTL

-----------------------------------------------------------------------------
(* What was allowed for a pair is authorized, and an access that is on      *)
(* record has been answered accordingly.                                    *)
PairsAuthorized ==
    \A d \in dialogs :
        d.explicit /\ d.decision = "Allow" /\ d.authorization # None =>
            d.authorization \in authorizations

CoversInv == PairsAuthorized /\ AllowCoversPair

(* An access that its pair has been allowed is settled at once, and as an   *)
(* Allow: immediate_prompt_decision looks at the pairs first.               *)
LEMMA PairSettles ==
    ASSUME NEW p, NEW target, NEW access, NEW v, v = Evaluation(p, target, access),
           v.authorization # None, v.authorization \in authorizations
    PROVE  Immediate(v) = "Allow"
<1>1. v.policyDecision.verdict = "Prompt" BY DEF Evaluation, Authorization
<1> QED BY <1>1 DEF Immediate

LEMMA DecidesCovered ==
    ASSUME CoversInv, NEW p, NEW target, NEW access, NEW v, v = Evaluation(p, target, access),
           Settle(v) \/ ApplyDefault(v) \/ Ask(v) \/ AskFails(v)
    PROVE  CoversInv'
<1>1. CASE Settle(v) \/ ApplyDefault(v) \/ AskFails(v)
  <2>1. /\ UNCHANGED <<authorizations, dialogs>>
        /\ last'.evaluation = v
        /\ last'.decision = Immediate(v) \/ Immediate(v) = None
    BY <1>1 DEF Settle, ApplyDefault, AskFails, Reply
  <2>2. PairsAuthorized' BY <2>1 DEF CoversInv, PairsAuthorized
  <2>3. v.authorization # None /\ v.authorization \in authorizations =>
            last'.decision = "Allow"
    BY <2>1, PairSettles, GateAssumption
  <2> QED BY <2>1, <2>2, <2>3 DEF CoversInv, PairsAuthorized, AllowCoversPair
<1>2. CASE Ask(v)
  <2>1. PICK answer, explicit :
            /\ CacheAnswer(v.key, v.authorization, answer, explicit)
            /\ Reply(v, answer)
            /\ dialogs' = dialogs \cup
                   {[process |-> v.process, reason |-> v.policyDecision.reason,
                     authorization |-> v.authorization,
                     decision |-> answer, explicit |-> explicit]}
    BY <1>2 DEF Ask
  <2>2. PICK asked :
            /\ dialogs' = dialogs \cup {asked}
            /\ asked.authorization = v.authorization
            /\ asked.decision = answer /\ asked.explicit = explicit
    <3> DEFINE a == [process |-> v.process, reason |-> v.policyDecision.reason,
                     authorization |-> v.authorization,
                     decision |-> answer, explicit |-> explicit]
    <3>1. /\ a.authorization = v.authorization
          /\ a.decision = answer /\ a.explicit = explicit
      OBVIOUS
    <3>2. dialogs' = dialogs \cup {a} BY <2>1
    <3> HIDE DEF a
    <3> QED BY <3>1, <3>2
  <2>3. authorizations' = authorizations \cup
            (IF explicit /\ answer = "Allow" THEN {v.authorization} \ {None} ELSE {})
    BY <2>1 DEF CacheAnswer
  <2>4. PairsAuthorized' BY <2>2, <2>3 DEF CoversInv, PairsAuthorized
  <2>5. last'.evaluation = v /\ last'.decision = answer BY <2>1 DEF Reply
  <2>6. v.authorization = None \/ v.authorization \notin authorizations
    <3>1. Immediate(v) = None BY <1>2 DEF Ask
    <3> QED BY <3>1, PairSettles, GateAssumption
  <2>7. AllowCoversPair'
    BY <2>2, <2>5, <2>6 DEF CoversInv, PairsAuthorized, AllowCoversPair
  <2> QED BY <2>4, <2>7 DEF CoversInv
<1> QED BY <1>1, <1>2

(* An Allow for a helper below an owner executable settles all its          *)
(* cross-owner accesses from then on, whatever was cached before.           *)
THEOREM AllowCovers == Spec => []AllowCoversPair
<1>1. Init => CoversInv BY DEF Init, CoversInv, PairsAuthorized, AllowCoversPair
<1>2. CoversInv /\ [Next]_vars => CoversInv'
  <2> SUFFICES ASSUME CoversInv, [Next]_vars PROVE CoversInv' OBVIOUS
  <2>1. CASE Decides BY <2>1, DecidesCovered DEF Decides
  <2>2. CASE NextEvent \/ UNCHANGED vars
    BY <2>2 DEF NextEvent, vars, CoversInv, PairsAuthorized, AllowCoversPair
  <2> QED BY <2>1, <2>2 DEF Next
<1>3. CoversInv => AllowCoversPair BY DEF CoversInv
<1> QED BY <1>1, <1>2, <1>3, PTL DEF Spec

-----------------------------------------------------------------------------
(* owner_chain_root: between the process and the root it returns every      *)
(* ancestor with the owner's name has a known start.                        *)
LEMMA ChainVerified ==
    ASSUME NEW p, NEW length \in Nat, DOMAIN p.ancestors = 1..length,
           NEW owner, OwnerChainRoot(p, owner) # None
    PROVE  \E n \in DOMAIN p.ancestors :
               /\ p.ancestors[n].executable = OwnerChainRoot(p, owner)
               /\ FileName(OwnerChainRoot(p, owner)) = owner
               /\ \A m \in 1..n : FileName(p.ancestors[m].executable) = owner
                                  => p.ancestors[m].start # None
<1> DEFINE run == OwnerRun(p, owner)
           outermost == {n \in run : n + 1 \notin run}
<1>1. /\ outermost # {} /\ \A n \in run : p.ancestors[n].start # None
      /\ OwnerChainRoot(p, owner) =
             p.ancestors[CHOOSE n \in outermost : TRUE].executable
  BY DEF OwnerChainRoot
<1>2. PICK n \in outermost : OwnerChainRoot(p, owner) = p.ancestors[n].executable
  BY <1>1
<1>3. n \in run /\ n \in DOMAIN p.ancestors /\ n \in Nat
  BY <1>2 DEF OwnerRun
<1>4. PICK first \in 1..n :
          /\ \A m \in first..n : FileName(p.ancestors[m].executable) = owner
          /\ \A m \in 1..(first - 1) : FileName(p.ancestors[m].executable) # owner
  BY <1>3 DEF OwnerRun
<1>5. FileName(p.ancestors[n].executable) = owner
  BY <1>3, <1>4
<1>6. ASSUME NEW m \in 1..n, FileName(p.ancestors[m].executable) = owner
      PROVE  p.ancestors[m].start # None
  <2>1. m \in first..n BY <1>3, <1>4, <1>6
  <2>2. m \in DOMAIN p.ancestors BY <1>3
  <2>3. /\ first \in 1..m
        /\ \A k \in first..m : FileName(p.ancestors[k].executable) = owner
        /\ \A k \in 1..(first - 1) : FileName(p.ancestors[k].executable) # owner
    BY <1>3, <1>4, <2>1
  <2>4. m \in run
    BY <2>2, <2>3 DEF OwnerRun
  <2> QED BY <1>1, <2>4
<1> QED BY <1>2, <1>3, <1>5, <1>6

(* The state invariant that AuthorizationVerified follows from does not     *)
(* need the decisions.                                                      *)
LEMMA VerifiedByDialog == GateInv => AuthorizationVerified
<1> SUFFICES ASSUME GateInv, NEW pair \in authorizations
             PROVE  \E d \in dialogs :
                      /\ d.explicit /\ d.decision = "Allow"
                      /\ IdentityOf[d.process].executable = pair[1]
                      /\ \E n \in DOMAIN IdentityOf[d.process].ancestors :
                            /\ IdentityOf[d.process].ancestors[n].executable = pair[2]
                            /\ \A m \in 1..n :
                                  FileName(IdentityOf[d.process].ancestors[m].executable)
                                      = FileName(pair[2])
                                  => IdentityOf[d.process].ancestors[m].start # None
  BY DEF AuthorizationVerified
<1>1. PICK d \in dialogs : Answered(d, "Allow") /\ d.authorization = pair /\ pair # None
  BY DEF GateInv, AuthorizationsAnswered
<1> DEFINE p == IdentityOf[d.process]
<1>2. PICK decision : d.process \in Processes /\ pair = Authorization(p, decision)
  BY <1>1 DEF GateInv, DialogsEvaluated
<1> DEFINE owner == AuthorizationOwner(config, Subject(p))
           root == OwnerChainRoot(p, owner)
<1>3. pair = <<p.executable, root>> /\ root # None
  BY <1>1, <1>2 DEF Authorization
<1>4. PICK length \in Nat : DOMAIN p.ancestors = 1..length
  BY <1>2, AncestryAssumption
<1>5. \E n \in DOMAIN p.ancestors :
          /\ p.ancestors[n].executable = root /\ FileName(root) = owner
          /\ \A m \in 1..n : FileName(p.ancestors[m].executable) = owner
                             => p.ancestors[m].start # None
  BY <1>3, <1>4, ChainVerified
<1>6. pair[1] = p.executable /\ pair[2] = root
  BY <1>3
<1> QED BY <1>1, <1>5, <1>6 DEF Answered

(* Every authorized pair goes back to an explicit Allow for that helper     *)
(* below that owner executable, with the chain between them verified.       *)
THEOREM Authorized == Spec => []AuthorizationVerified
BY InitGate, NextGate, VerifiedByDialog, PTL DEF Spec

-----------------------------------------------------------------------------
(* The rules whose path is the target's or a parent's, by their places.     *)
Matching(c, target) == {n \in DOMAIN c.owned : StartsWith(target, c.owned[n].path)}

(* A configuration's owned rules are a sequence, and so is each one's path. *)
RulesTyped(c) ==
    /\ c.owned \in Seq(ToSet(c.owned))
    /\ \A o \in ToSet(c.owned) : o.path \in Seq(ToSet(o.path))

PathsDiffer(c) ==
    \A o, r \in ToSet(c.owned) : o.path = r.path => o = r

(* The owner is one of the longest matching rules, *)
OwnsLongest(c, target, o) ==
    /\ o \in ToSet(c.owned) /\ StartsWith(target, o.path)
    /\ \A r \in ToSet(c.owned) :
           StartsWith(target, r.path) => Len(r.path) <= Len(o.path)

LEMMA OwnerIsLongest ==
    ASSUME NEW c, RulesTyped(c), NEW target, Matching(c, target) # {}
    PROVE  OwnsLongest(c, target, OwnerFor(c, target))
<1> DEFINE owned == c.owned
           L == Len(owned)
           T == Matching(c, target)
           g == [n \in 1..L |-> Len(owned[n].path)]
           Before(m, n) == \/ Len(owned[m].path) < Len(owned[n].path)
                           \/ Len(owned[m].path) = Len(owned[n].path) /\ m <= n
           Best(n) == n \in T /\ \A m \in T : Before(m, n)
           best == CHOOSE n \in T : \A m \in T : Before(m, n)
<1>1. L \in Nat /\ DOMAIN owned = 1..L
  BY LenProperties DEF RulesTyped
<1>2. ASSUME NEW n \in 1..L
      PROVE  owned[n] \in ToSet(owned) /\ Len(owned[n].path) \in Nat
  <2>1. owned[n] \in ToSet(owned) BY <1>1 DEF ToSet
  <2> QED BY <2>1, LenProperties DEF RulesTyped
<1>3. g \in [1..L -> Nat] BY <1>2
<1>4. T \in SUBSET (1..L) BY <1>1 DEF Matching
<1>5. PICK n \in T : \A m \in T : Outranks(g, n, m)
  <2> HIDE DEF g, L, T
  <2> QED BY <1>1, <1>3, <1>4, LastGreatest DEF T
<1>6. \A m \in T : Before(m, n)
  BY <1>4, <1>5 DEF Outranks
<1>7. best \in T /\ \A m \in T : Before(m, best)
  <2> HIDE DEF T, Before
  <2> QED BY <1>6
<1>8. OwnerFor(c, target) = owned[best]
  BY DEF OwnerFor, Matching
<1> HIDE DEF best
<1>9. owned[best] \in ToSet(owned) /\ StartsWith(target, owned[best].path)
  BY <1>2, <1>4, <1>7 DEF Matching
<1>10. ASSUME NEW r \in ToSet(owned), StartsWith(target, r.path)
       PROVE  Len(r.path) <= Len(owned[best].path)
  <2>1. PICK m \in 1..L : r = owned[m] BY <1>1 DEF ToSet
  <2>2. m \in T BY <1>1, <1>10, <2>1 DEF Matching
  <2>3. Before(m, best) BY <1>7, <2>2
  <2>4. Len(owned[m].path) \in Nat /\ Len(owned[best].path) \in Nat
    BY <1>2, <1>4, <1>7
  <2> QED BY <2>1, <2>3, <2>4
<1> QED BY <1>8, <1>9, <1>10 DEF OwnsLongest

(* Of two matching paths of the same length one is the other. *)
LEMMA SameLengthSamePath ==
    ASSUME NEW target, NEW s, NEW t, s \in Seq(ToSet(s)), t \in Seq(ToSet(t)),
           StartsWith(target, s), StartsWith(target, t), Len(s) = Len(t)
    PROVE  s = t
<1>1. s = SubSeq(s, 1, Len(s)) /\ t = SubSeq(t, 1, Len(t))
  BY PrefixSteps
<1> QED BY <1>1 DEF StartsWith, IsPrefix

(* Policy::owner_for is a function of the set of the rules when no path is  *)
(* configured twice.                                                        *)
LEMMA OwnerByRules ==
    ASSUME NEW c, NEW d, RulesTyped(c), RulesTyped(d), PathsDiffer(c),
           ToSet(c.owned) = ToSet(d.owned), NEW target
    PROVE  OwnerFor(c, target) = OwnerFor(d, target)
<1>1. ASSUME NEW e, NEW f, ToSet(e.owned) = ToSet(f.owned), Matching(e, target) = {}
      PROVE  Matching(f, target) = {}
  <2> SUFFICES ASSUME NEW n \in Matching(f, target) PROVE FALSE OBVIOUS
  <2>1. f.owned[n] \in ToSet(e.owned) /\ StartsWith(target, f.owned[n].path)
    BY <1>1 DEF Matching, ToSet
  <2>2. PICK m \in DOMAIN e.owned : e.owned[m] = f.owned[n] BY <2>1 DEF ToSet
  <2>3. m \in Matching(e, target) BY <2>1, <2>2 DEF Matching
  <2> QED BY <1>1, <2>3
<1>2. CASE Matching(c, target) = {}
  <2>1. Matching(d, target) = {} BY <1>1, <1>2
  <2> QED BY <1>2, <2>1 DEF OwnerFor, Matching
<1>3. CASE Matching(c, target) # {}
  <2>1. Matching(d, target) # {} BY <1>1, <1>3
  <2> DEFINE o == OwnerFor(c, target)
             r == OwnerFor(d, target)
  <2>2. OwnsLongest(c, target, o) /\ OwnsLongest(d, target, r)
    BY <1>3, <2>1, OwnerIsLongest
  <2> HIDE DEF o, r
  <2>3. /\ o \in ToSet(c.owned) /\ r \in ToSet(c.owned)
        /\ StartsWith(target, o.path) /\ StartsWith(target, r.path)
        /\ Len(o.path) <= Len(r.path) /\ Len(r.path) <= Len(o.path)
    BY <2>2 DEF OwnsLongest
  <2>4. o.path \in Seq(ToSet(o.path)) /\ r.path \in Seq(ToSet(r.path))
    BY <2>3 DEF RulesTyped
  <2>5. Len(o.path) \in Nat /\ Len(r.path) \in Nat BY <2>4, LenProperties
  <2>6. Len(o.path) = Len(r.path) BY <2>3, <2>5
  <2>7. o.path = r.path BY <2>3, <2>4, <2>6, SameLengthSamePath
  <2>8. o = r BY <2>3, <2>7 DEF PathsDiffer
  <2> QED BY <2>8 DEF o, r
<1> QED BY <1>2, <1>3

(* Every configuration is one of those given. *)
Configured == configured \in Configs

LEMMA ConfigurationGiven == Spec => []Configured
<1>1. Init => Configured BY DEF Init, Configured
<1>2. Configured /\ [Next]_vars => Configured'
  BY DEF Configured, Next, Decides, NextEvent, vars, Settle, ApplyDefault, Ask, AskFails, Reply
<1> QED BY <1>1, <1>2, PTL DEF Spec

(* The same decision, whichever order the rules are read in: Policy::decide *)
(* asks for nothing else that depends on it.                                *)
LEMMA DecidedByRules ==
    ASSUME NEW c, NEW d, NEW s, NEW target, NEW access,
           OwnerFor(c, target) = OwnerFor(d, target),
           c.shared = d.shared, c.devTools = d.devTools, c.sensitive = d.sensitive
    PROVE  Decide(c, s, target, access) = Decide(d, s, target, access)
<1>1. SharedPathAllows(c, s, target, access) <=> SharedPathAllows(d, s, target, access)
  BY DEF SharedPathAllows
<1>2. SensitiveDevToolAccess(c, s, target) <=> SensitiveDevToolAccess(d, s, target)
  BY DEF SensitiveDevToolAccess
<1> QED BY <1>1, <1>2 DEF Decide

(* For every set of configurations without a path listed twice, reversing   *)
(* the rules changes no decision.                                           *)
THEOREM OrderOfRules == Spec => []OrderOfRulesIrrelevant
<1>1. Configured /\ LastEvaluated => OrderOfRulesIrrelevant
  <2> SUFFICES ASSUME Configured, LastEvaluated, last # None,
                      IsInjective([n \in DOMAIN config.owned |-> config.owned[n].path]),
                      NEW s, NEW target,
                      s = Subject(IdentityOf[last.evaluation.process]),
                      target = LogicalPath(last.evaluation.target)
               PROVE  Decide([config EXCEPT !.owned = Reverse(@)], s, target,
                             last.evaluation.access)
                          = last.evaluation.policyDecision
    BY DEF OrderOfRulesIrrelevant
  <2> DEFINE d == [config EXCEPT !.owned = Reverse(@)]
  <2>1. RulesTyped(config) /\ {"owned", "shared", "devTools", "sensitive"} \subseteq DOMAIN config
    BY ConfigAssumption DEF Configured, RulesTyped, config
  <2>2. /\ d.owned = Reverse(config.owned) /\ d.shared = config.shared
        /\ d.devTools = config.devTools /\ d.sensitive = config.sensitive
    BY <2>1
  <2> HIDE DEF d
  <2>3. ToSet(d.owned) = ToSet(config.owned) /\ d.owned \in Seq(ToSet(config.owned))
    BY <2>1, <2>2, ReversedIs DEF RulesTyped
  <2>4. RulesTyped(d) BY <2>1, <2>3 DEF RulesTyped
  <2>5. PathsDiffer(config)
    <3> SUFFICES ASSUME NEW o \in ToSet(config.owned), NEW r \in ToSet(config.owned),
                        o.path = r.path
                 PROVE  o = r
      BY DEF PathsDiffer
    <3>1. PICK m \in DOMAIN config.owned : o = config.owned[m] BY DEF ToSet
    <3>2. PICK n \in DOMAIN config.owned : r = config.owned[n] BY DEF ToSet
    <3>3. m = n BY <3>1, <3>2 DEF IsInjective
    <3> QED BY <3>1, <3>2, <3>3
  <2>6. OwnerFor(config, target) = OwnerFor(d, target)
    BY <2>1, <2>3, <2>4, <2>5, OwnerByRules
  <2>7. Decide(config, s, target, last.evaluation.access)
            = Decide(d, s, target, last.evaluation.access)
    BY <2>2, <2>6, DecidedByRules
  <2> QED BY <2>7 DEF d, LastEvaluated, DecisionOn
<1>2. Spec => []LastEvaluated
  BY InitEvaluated, NextEvaluated, PTL DEF Spec
<1> QED BY <1>1, <1>2, ConfigurationGiven, PTL
==============================================================================
