# Config Guard: TLA+ models and proofs

config-guard watches configuration files with Linux' fanotify. In *guard* mode it
blocks an open until its policy, a cached answer or the user decides it; in *audit*
and *audit-prompt* mode it reports afterwards who used which file. This directory
models the program (the code under `src/src/`), model-checks small instances with
TLC and proves theorems about every instance with TLAPS.

- [The system and its parts](#the-system-and-its-parts)
- [Modules](#modules)
- [Runs](#runs)
- [Bounds](#bounds)
- [Fairness](#fairness)
- [Proofs](#proofs)
- [Disagreements between code and documents](#disagreements-between-code-and-documents)
- [What is not modelled](#what-is-not-modelled)
- [Plan](#plan)

To check a run: `tlc -workers 2 -config <cfg> <MC module>`; to check proofs: `tlapm M.tla`
for `GuardLoopProofs`, `GuardAnswersProofs`, `AccessGateProofs`, `QuestionProofs`,
`ConfigHomeProofs`, `AuditIdentityProofs`, `AuditAttributionProofs` and `SequenceFacts`. `PROJECT.json` lists the runs, maps every
definition to the lines it models and every property to a hazard of the code and to a
plausible bug ("mutant") it catches. Operators marked *Variant* in the modules are those
bugs; nothing else uses them.

## The system and its parts

| Part | Source | State | Operations | Hard because |
|---|---|---|---|---|
| Guard event loop | `fanotify/guard.rs` | pending requests and their index by key, next id, two decision caches, a batch of events with open descriptors | poll, drain wake bytes, take completions, read a batch, handle an event, fail the pending, exit | two threads, three channels, kernel queue, killed openers, dying worker |
| Prompt worker | `fanotify/guard.rs` (`run_prompt_worker`) | one job in hand | receive, check the generations, ask, send, wake | blocks for as long as a user thinks; may panic |
| Prompt resolution | `fanotify/prompt_resolution.rs` | cached decisions, authorized pairs | settle at once, ask, cache the answer | answers are reused under conditions |
| Policy | `policy.rs`, aliases in `main.rs` | the configuration | `decide`, `authorization_owner_subject` | order of rules, nested paths |
| Prompt backends | `prompt.rs` | a connection to authd or a child process | connect, write, read; spawn, poll, kill | timeouts, a full backlog, answers that come late |
| Process inspection | `process.rs` | – | read exe, command, start time, environment, ancestors; check a generation | many reads, no snapshot: exec, exit and reused pids in between |
| Audit attribution | `fanotify/audit.rs` | – (uses both caches) | record exec, record open, judge closes | events arrive after the fact, merged, with pids that may be reused |
| Identity cache | `fanotify/audit_identity.rs` | map of queues, counter, eviction order | insert, take, invalidate | three structures that must agree |
| Process cache | `fanotify/audit_process.rs` | map with times, eviction order | insert exec, get | time to live, eviction and the loader rule meet |
| Learning | `learning.rs` | observed subjects and roots, the learned file | observe, rewrite the file | restarts forget, links, failed rewrites |
| fanotify I/O | `fanotify.rs`, `fanotify/event.rs` | the group's descriptor | open, mark, read, parse, respond, close | blocking read, overflow, partial failure |
| Watch installation | `fanotify/watch.rs`, scope in `main.rs` | marks, stack of directories | resolve the scope and the links, walk and mark | races with directories that come and go |
| Service readiness | `systemd_notify.rs`, `main.rs`, `config/*.service` | readiness, the marker `/run/config-guard/enforcing` | notify, touch the marker, restart | deaths between any two steps |
| Deployment | `deploy.sh` | installed policy and unit | stop, install, reload, restart, verify, restore | a failure or a kill between any two commands |
| Reconciliation | `reconcile.rs` | the policy text, the archive | list, keep, associate, archive | several files, no transaction, a tree in use |

They interact as follows. The service resolves its roots and the links in `~/.config`,
loads the policy, installs the marks and tells systemd it is ready; systemd restarts it
when it dies; `deploy.sh` stops it around an installation, and `reconcile` rewrites the
same policy file and moves directories the service watches. In guard mode the kernel
queues a permission event; the loop reads it, inspects the process, asks the policy,
consults the caches and either responds or sends a job to the worker; the worker checks
that the process found is still there and asks the backend; its completion comes back
over a channel and a socket byte that wakes `poll`. In the audit modes one thread reads
events, records identities at opens and execs and, at a close, pairs it with an identity,
asks the policy, logs, lets the learner observe, and in audit-prompt mode asks the user
with the same `prompt_resolution.rs` that guard mode uses.

What makes each part correct is stated under [Runs](#runs); what is hard to test is
listed line by line in `PROJECT.json` ("hazards").

## Modules

| Module | Models | Notes |
|---|---|---|
| `GuardLoop` | guard mode: loop, worker, channels, kernel queue, faults | one action per step of either thread |
| `MCGuardLoop` | instances of it | five configurations |
| `GuardLoopProofs` | – | three theorems |
| `GuardAnswersProofs` | – | seven theorems; EXTENDS `GuardLoopProofs` |
| `Policy` | `policy.rs` | operators only: `Decide`, `AuthorizationOwner` |
| `AccessGate` | policy, caches, authorizations and answers, one access at a time | EXTENDS `Policy` |
| `MCAccessGate` | instances of it | two configurations |
| `AccessGateProofs` | – | six theorems |
| `ProcessInspection` | `process.rs` among processes that fork, execute, exit and are reaped | one action per read of `/proc` |
| `PromptBackends` | `prompt.rs`: authd and the command, the user's answers | one action per call that can block or fail |
| `AskedQuestion` | what either backend promises | abstract |
| `Question` | an access from inspection to the backend's answer | composes the two; implements `AskedQuestion` |
| `MCQuestion` | an instance | |
| `QuestionProofs` | – | two theorems, one of them the refinement |
| `Sieve` | `retain` of the standard library | one operator, a fold |
| `AuditOpenLog` | what the identity cache promises | a bounded log of opens |
| `AuditIdentityCache` | `audit_identity.rs` | operators on a cache record |
| `AuditIdentityCalls` | the same under any sequence of calls | implements `AuditOpenLog` |
| `AuditProcessCache` | `audit_process.rs` | operators on a cache record |
| `AuditAttribution` | `audit.rs` in the event loop, with processes, pids and the kernel's queue | composes both caches by INSTANCE |
| `MCAuditIdentityCalls`, `MCAuditAttribution` | instances | |
| `AuditIdentityProofs` | – | three theorems, one of them the refinement |
| `AuditAttributionProofs` | – | four theorems; uses those lemmas by INSTANCE |
| `SequenceFacts` | – | lemmas about folds, counts, prefixes, what a sequence contains, and sequences without repetition |
| `ConfigTree` | directories, links and the policy file, changed by others | shared by the next four |
| `Service` | the process from start to readiness (`main.rs`, `watch.rs`) and systemd's part | marks, marker, restarts |
| `Deployment` | `deploy.sh` | EXTENDS `Service` |
| `Learning` | `learning.rs` | EXTENDS `Service` |
| `Reconcile` | `reconcile.rs` with `--apply` | |
| `ConfigHome` | all of these around one home directory | the composition |
| `MCConfigHome`, `ConfigHomeProofs` | an instance; eight theorems | |

**GuardLoop.** `pc` is where the guard thread is in `run_event_loop`: `Poll` waits for
the fanotify descriptor or the wake socket; `DrainWake`, `CompletePrompt`,
`ChannelDrained` and `FailPending` are the parts of `process_completions` in their
order; `ReadBatch` is the blocking `read`; `HandleSettled`, `HandleNoSession`,
`JoinPrompt`, `StartPrompt`, `SendFails`, `HandleError` and `HandleOverflow` are the ways
`handle_event` ends; `DropCoordinator` and `Exit` are the end of `run`, where the job
sender is dropped and the worker joined. `worker` is where the worker is in
`run_prompt_worker`; `WorkerDrop` drops its parameters in Rust's reverse order, so
that there are moments when the wake socket is closed and the channel is not. What
evaluating an event yields (verdict, cache key, authorization, session) is chosen
from `Views`: `AccessGate` says how they come about. `view` and `told` are
history variables. The faults are: a response write fails (`respond`), the wake write
fails (`wake`), the backend panics (`panic`), `poll` or `read` fails (`loop`), an opener
is killed (`kill`).

**Policy** and **AccessGate.** A path is the sequence of its components; the relation
`Begins` gives byte prefixes of names, which only `path_prefix` needs. Rule strings
are records by their prefix. A decision's scope is left out: it is only logged.
`AccessGate` puts `StaticPolicy::decide` (with the path aliases), `PromptDecisionKey::new`,
`AncestryAuthorization::new` and `prompt_for_policy_decision_with_authorization` together;
in audit-prompt mode there is no authorization. Both modes have reads and writes: guard
mode marks `FAN_CLOSE_WRITE` beside `FAN_OPEN_PERM` (fanotify.rs:592), and a write is evaluated, keyed,
authorized and asked about like a read, though by then no opener is held up. So
an Allow for a write may settle a read and the reverse. `NextEvent` separates an access from
the next one. The mode and the configuration are chosen at the start and never
change, as in the program.

**The audit modules.** Both caches are records with operators, so that one step of
the auditor can use them several times as the code does (the loader rule looks an
entry up, which may remove it, and then inserts). `AuditAttribution` adds the world:
processes start, fork into a `FirstImage`, exec (the program and its loader are opened
before the image changes, or the exec fails), open, close descriptors they may have
inherited, exit; a pid can be taken by a later process. The kernel merges an event
with an unread one of the same process and object. The auditor reads the queue
(`ReadEvents`), and for each event does `RecordExec`, `RecordOpen` and `Judge`, each
reading `/proc` as it is by then; `Fails` is the end of the program on any error.
The policy evaluation after `Judge` is a function of what `Judge` charged, and
is `AccessGate`'s subject.

**Question.** `ProcessInspection` is `inspect_process` read by read: `ReadExe`, `ReadCommand`,
`ReadStart`, then the chain of parents (`ReadStat`, `ReadParent`), of each of which the
start time is read before the executable. Between any two reads processes fork, execute,
exit and are reaped, and freed pids are given out again. `QueuePrompt` makes the job from
what was found (key, authorization, environment), `CheckHelper`, `CheckOwner` and
`DropPrompt` are the worker's `is_process_generation_current` checks, and `Backend` is the
call: over authd's socket (`Connect`, `WriteRequest`, `ReadReply`, `ReadTimesOut`, the backlog
of connections authd has yet to accept) or by a command (`SpawnCommand`, `PollCommand`,
`KillCommand`). The user and authd may answer a question that has been given up. `ran`
and `answers` are history variables. The queue in front of the worker is `GuardLoop`'s
subject; here questions come one at a time.

**ConfigHome.** In `Service`, `pc` is how far the process has come: `ResolveScope`
(`canonicalize_scope_paths`, for the roots and for the excluded path), `ReadAliases` (the links, and the scope they add),
`ReadLearnerAliases` (audit mode reads the links again), `LoadPolicy`, then in audit mode
`MarkMount` per root, in guard mode `MarkDirectory` and `ReadChildren` with the code's
stack, `NotifyReady`, and `serve`. `StartFails` are its error exits, `Dies` any other death.
systemd's part is `ReadyReceived`, `TouchMarker` (the `ExecStartPost` of guard mode),
`DeathNoticed` and `Restart`. `Deployment` has one action per command of `deploy.sh` that changes or
checks something; installing the policy is `OpenConfig` and `CopyConfig`, since `install`
writes the target in place: a copy that fails leaves it `"cut"`, and `RestoreService` starts the service
on that. An installation of the unit file that fails may leave it cut as well; it is one step
otherwise, because nobody reads it before `ReloadUnit`. `DeployFails` and `RestoreService` are the ERR trap; `Interrupted` is a
kill, after which no trap runs. `Reconcile` lists the entries once and then keeps,
associates (`AssociateEntry` truncates the policy, `WritePolicy` fills it) or archives
(`MakeArchive`, `ArchiveEntry`, which goes through a link if the archive is one) each; `ReconcileFails` may happen between any two steps and in the
middle of a write. `Learning` is `Observe`, which rewrites the learned file, `WriteFails` and
`LearnerFollows` (a new process starts from nothing). `ConfigHome` lets other programs change the
tree at any moment and an administrator run one tool at a time. `moved`, `uses` and
`began` are history variables.

## Runs

| Run | Kind | Shows |
|---|---|---|
| `guard_safety` | pass, 946 000 states | every descriptor has one owner and no opener is forgotten (`DescriptorsOwned`); index and table agree (`IndexAgrees`); completions come in order and are known (`CompletionsKnown`, `NoRequestLost`); no answer is slept over (`NoLostWakeup`); answers and cache entries have a reason (`AnswerJustified`, `CacheJustified`, `CacheOnlyAnswered`); no key is asked about again once the backend has answered for it (`AskedOncePerKey`) |
| `guard_liveness` | pass, 99 500 states | with a backend that returns, every opener is released (`Resolved`); an overflow and a lost worker end the guard (`OverflowFatal`, `WorkerLossFatal`) |
| `guard_serves_while_prompting` | pass, 194 000 states | with a dialog that may stay open forever, accesses the policy settles are answered, openers being killed at any moment (`ServedWhilePrompting`) |
| `access_gate` | pass, 1.78 million states | strict ownership (`StrictOwnershipHolds`), justified reuse of answers (`AnswerJustified`), reuse of an Allow wherever it is promised (`AllowCoversPair`), verified authorizations (`AuthorizationVerified`), order of rules (`OrderOfRulesIrrelevant`), finality of cached answers (`AnswersFinal`) |
| `question` | pass, 281 000 states | what is asked about has been verified (`VerifiedWhenAsked`); an explicit answer is the user's answer to that very question (`IsAskedQuestion`); every question returns (`AskReturns`) |
| `config_home` | pass, 295 000 states | the right directories are watched (`MarkedExactly`), also after restarts; the marker means an enforcing guard (`MarkerMeansEnforcing`); no process loads the policy while `deploy.sh` copies it (`WholePolicyInstalled`); a deployment that reports success serves what it installed (`DeployedServes`); reconcile leaves nothing to do (`ReconcileSettles`) and archives nothing the policy covers (`ConfiguredKept`); the learner names only a sole user as owner (`LearnedOwnersAlone`); the service comes up again (`Recovers`) |
| `audit_identity_cache` | pass, 1 481 states | map, counter and order agree (`CacheConsistent`); one generation per key (`CacheOneGeneration`); the cache implements `AuditOpenLog` (`IsOpenLog`) |
| `audit_attribution` | pass, 2.05 million states | closes are charged to programs their process ran (`ChargedToOwnProgram`), the loader hides none (`LoaderNotCharged`), no close is lost (`NoCloseLost`), the process cache stays consistent (`ProcessesAgree`) |
| `killed_opener_blocks_answer` | violation | a blocking read holds up an answer |
| `error_holds_openers` | violation | an error with an open dialog stops all service |
| `nearest_owner` | violation | the outermost of a run of owners is authorized |
| `audit_pid_reuse` | violation | an access is charged to a pid's next process |

Some properties deserve a word.

*NoLostWakeup* needs the order on both sides: the worker sends before it writes the
byte, and the loop drains bytes before it drains the channel to its end. The variant
that takes one completion per wake-up loses an answer, and *Resolved* with it.

*AnswerJustified* (in both modules) says which earlier answer may settle an access. In
`GuardLoop` it is about concurrency: answers come back by id while requests are
joined and fail. In `AccessGate` it is about identity: keys of two generations of a
pid, processes without a start time, pairs of executables.

*AllowCoversPair* is the other direction: once the user has allowed a pair, nothing that was cached
earlier, a Deny or a default for the same access included, settles an access of that
pair against it. The variant that looks the key up first is refuted. For both, guard mode's
writes matter: a Deny of a read, then an Allow of a write, then the read again.

*AnswersFinal* is a claim about accesses one at a time. In guard mode a default can be cached for
want of a session while a question about the same key is open; *CacheOnlyAnswered* of
`GuardLoop` says that only the answer to that question then replaces it.

*WholePolicyInstalled* ends with the copy: no process loads the policy between the first byte
`install` writes and its end, because the service is stopped before. After a copy that
failed, the ERR trap starts the service on the cut file it left, as the code does; the documents
ask there for availability (docs/specs/config-guard.md:123), not for the old policy.

*IsOpenLog* replaces three invariants on the identity cache by one statement: the
n-th entry of a key in the order is the n-th identity in its queue, so eviction
and `take` always remove corresponding entries.

*ChargedToOwnProgram* allows any program the process has set out to execute, not just
the one running at the open: merged closes leave an identity behind that a later
close takes, which the documents do not exclude. It holds while pids are not reused.

*LearnedOwnersAlone* is under the condition that the two readings of the links (the policy's
and the learner's) found the same. A link that changes between them is a hazard of
the code the property leaves out; links that change later are within it.

*VerifiedWhenAsked* is about a chain of reads none of which is atomic with the next: a
process that forks, executes, dies and whose pid is taken over between two of them
must not lend its program or its session to another. For ancestors it is the order
of reads that helps, start time first: a generation that is still current when the
worker checks it was current at every read between. The variant that reads the
executable first is refuted.

*MarkedExactly* speaks of directories that have not moved since the process started, as
long as no link has: roots, excluded path and links are resolved once. For those that have
moved, guard mode promises nothing (the walk reads each directory once), while
audit mode watches mounts and covers later directories too.

*Recovers* says that once the policy stays readable, the roots exist and no deployment was
killed half-way, the service is up in the end. It needs `Restart=always`, the ERR trap and
the order of `deploy.sh` together.

Deadlock is checked by `AccessGate` and `AuditIdentityCalls` only: the environments of the other
models have a bounded number of events, changes or questions, after which nothing needs
to happen, and the guard may exit.

## Bounds

- `guard_safety`: three accesses, two of one process with one key, one of the same
  process with another key; every access may also be unidentified. Three
  accesses are needed for a request that is joined while another is in the
  worker's hands; a queue of two lets the third overflow it. `nextId` grows
  with requests, so each access can be asked about once. The proofs
  remove these bounds for all invariants of this run and for `CacheOnlyAnswered`.
- `guard_liveness`: two accesses, queue and buffer of one, so that an overflow, a
  second batch and a failing loop all occur. `guard_serves_while_prompting`: one access
  that is asked about, one that is merely reported and one the policy allows.
- `access_gate`: seven processes (two generations of one pid, a chain whose nearest
  owner is unverified, two unidentified ones of one pid, a development tool, an
  unreadable one), two configurations (fail closed and open, in different order of
  rules), four targets, one of them through an alias. `MaxDialogs` bounds the
  different answers to two: one to grant or refuse, one for another process to profit
  from or contradict it.
  `MaxDefaults` lets defaults be cached while at most that many decisions are.
- `question`: three pids, a helper below two processes with the owner's name and different
  programs, so that the run of owners can be cut, lengthened or taken over.
  `MaxWorld` three steps of processes suffice for exit, reaping and a fork into the freed pid;
  `MaxDepth` two ancestors is where the code's limit of 32 bites; two accesses and two
  questions, so that a reply to the first can come during the second; a backlog of one.
  Start times are unique, which the kernel's are per pid in all but contrived cases
  (a pid would have to come round within a clock tick).
- `config_home`: eight directories and two links, one of them inside a configured directory,
  which must not be followed; a directory that can change trees, and an archive, an
  unconfigured directory and a link that come and go. `MaxDisturbances` two bounds
  changes, deaths and tools together (`MaxChanges`, `MaxDeaths`, `MaxTools` each): two are what it
  takes for a tool to meet a change or a death, or a second tool what the first left.
  Every top-level directory is a mount of its own, every directory has something in
  it (a rename replaces none), links lead out of `~/.config` (`HomeAssumption`), an unchanged directory is
  listed in one order, and `reconcile` takes its entries in one fixed order.
- `audit_identity_cache`: three keys, four identities (an old generation with two
  images, a new one, one without a start time), capacity three, all sequences of
  calls: the state space is finite without a bound.
- `audit_attribution`: two processes, `MaxEvents` four opens, closes or execs, one file, a
  program and the loader, identity capacity two, process capacity one, time to
  live zero with one tick (`MaxTime`). So both caches overflow, entries expire,
  events merge. The two processes are interchangeable (own pids): symmetry is sound,
  there is no temporal property in the run. `audit_pid_reuse` gives both one pid.
- A read returns the whole queue in `AuditAttribution`: four events fit the buffer.

## Fairness

`ServiceSpec` asks weak fairness of the guard thread's and of the worker's steps: both
are plain threads the scheduler runs; whatever may block them (`poll`, a
blocking `read`, `recv`, `join`) is a guard of the action, not a matter of fairness.
Faults and the death of processes are never fair. `FairSpec` adds that the backend
returns: `prompt.rs` gives authd's socket read and write timeouts and kills a prompt
command at its deadline (how, is `Question`'s subject). `guard_serves_while_prompting` shows
what does not depend on the backend at all.

In `Question`, `FairSpec` asks that the backend's code runs on and that time passes; that authd
or the user ever does anything is not asked. Connecting to authd has no timeout in the
code, so `AskReturns` holds under the condition that there is room in the backlog again and
again; the case it leaves out is the fifth of the disagreements below. In `ConfigHome`, `FairSpec` asks that the process, systemd and, unless killed,
`deploy.sh` run on; deaths, failures, changes, reconcile and the learner are never fair.

## Proofs

`GuardLoopProofs`, for any events, processes, keys, queue limit and faults:

- `TypeCorrect`: `Spec => []TypeOK`. `TypeOK` is inductive because it contains that
  the worker's hand holds exactly one job from receive to send and that a batch
  being handled is not empty: without them `Head` and `hand[1]` would be
  undefined in the steps that use them.
- `WakeupNotLost`: `Spec => []NoLostWakeup`, inductive beside `TypeOK`: the conjunct that the
  worker is about to write a byte covers the moment between send and write.
- `IndexCorrect`: `Spec => []IndexAgrees`. Not inductive by itself: a fresh request could
  reuse an id. `IndexInv` adds `IdsUsed`, every id in the table is below the next one.

`GuardAnswersProofs`, for the same: `Ownership`, `Completions`, `Requests`, `Answers`, `Caches`,
`OneDialog` and `CacheChanges` are the other six invariants of `guard_safety` and its action
property, all from one inductive invariant, `GuardInv`, beside `TypeOK` and `IndexInv`.
Its parts need one another in this order:

- `EventsInv`: an event is in the kernel's queue or held by the loop, once, and an access
  that has not been evaluated has no view on record;
- `PendingInv`: every access that waits with a request was evaluated to a prompt with the
  request's key, and a request without a key has one access only;
- `StagesInv`: job queue, worker's hand and completion queue carry requests of the table, in
  increasing ids across the three; while the worker lives they carry all of them;
- `ToldInv`: an outcome on its way is what the backend said about the request it is going to.
  This takes an answer from the worker to the accesses that are given it;
- `AskedInv`: a key with an answer is cached or has its completion on the way, and no job for
  it is queued: what `OneDialog` needs, since the cache learns of an answer later;
- `CacheJustified` and `AnswerJustified` are then inductive.

`AccessGateProofs`, for any configurations, aliases, processes, targets and bounds:

- `StrictOwnership`: `Spec => []StrictOwnershipHolds`. The inductive invariant
  `LastEvaluated` says that the access on record carries the decision of the
  policy and, unless that is a prompt, was answered with it. `StrictDecision` is the
  fact about `Decide`, `VerdictOfDecide` excludes that a verdict is confused with
  "nothing is settled".
- `FinalAnswers`: `Spec => AnswersFinal`, an action property, from `Decided` (the cache holds
  decisions only): a step caches only where the lookup found nothing.
- `Justification`: `Spec => []AnswerJustified`, and `Authorized`: `Spec => []AuthorizationVerified`.
  `GateInv` goes from each structure to the dialog behind it: `DialogsEvaluated` (a
  dialog on record was a prompt of the policy), `DecisionsAnswered` and
  `AuthorizationsAnswered`. They assume what `ProcessInspection` establishes, that pid,
  start time and executable identify a process image (`GenerationAssumption`), and that a
  list of ancestors is one (`AncestryAssumption`).
- `AllowCovers`: `Spec => []AllowCoversPair`. The invariant adds that the pair of every explicit
  Allow is in the authorizations (`PairsAuthorized`), which nothing removes; `PairSettles` is the
  fact about `Immediate` that a pair in there comes before the cache.
- `OrderOfRules`: `Spec => []OrderOfRulesIrrelevant`. Two owned paths above one target that
  have the same length are the same path (`SameLengthSamePath`), so that without a path listed
  twice the longest one is found wherever it stands (`OwnerIsLongest`, `OwnerByRules`). Its
  assumption on the configurations, `ConfigAssumption`, says they are records whose
  rules and paths are sequences, as the parser makes them.

`QuestionProofs`, for any pids, programs, first processes, depth and bounds: `Verification`
is `Spec => []VerifiedWhenAsked`. Its idea is that start times only grow. `Observed`: a start time that
was read is the pid's present one or older than it; `Outdated`: it can never be current
again; `Verified`: what was found of an ancestor is something its generation has run, or
that generation is gone, so that `IsCurrent` at the worker's check leaves only the first.
`ReadingInv` carries this through the half-read parent, `JobInv` through the two checks.

Its second theorem, `Refinement`, is `Spec => IsAskedQuestion`, for any number of questions and any
backlog, the mapping being `asking == call # "none"`. Every step of the composition is a step of
`AskedQuestion` or a stutter; the invariant says that a question given up earlier, on a
connection of its own, cannot reach the present one (`WithAuthd`, `Current`).

`ConfigHomeProofs`, for any tree, roots, policy and number of disturbances: `Marker`
(`MarkerMeansEnforcing`), `WholePolicy` (`WholePolicyInstalled`) and `Installation` (`DeployedServes`). The
invariant relates what systemd believes to where the process is (`ServiceInv`), what
`deploy.sh` has done by each of its steps to the files and the service (`DeployInv`: from its
stop to its restart nothing runs), and excludes that two tools work at once (`ToolInv`).
Three theorems are about `reconcile` and the learner:

- `Kept`: `Spec => ConfiguredKept`. A run decides by the rules it loaded at its start, the
  property is about the file as it is now. `RunInv` bridges them: nobody else writes the
  policy during a run, and what the run has added are rules of entries it has dealt
  with (`Grown`); entries are listed once each, and none is below another.
- `Settles`: `LinksElsewhere => (Spec => []ReconcileSettles)`, by `SettledInv`: what is in `~/.config`
  is the archive, covered, or among the entries to come.
- `LearnedAlone`: `LinksElsewhere => (Spec => []LearnedOwnersAlone)`. `LearnerInv`: since the process
  serves, every use is among the observations, and the learned file is what they yield.

`LinksElsewhere` says that no link leads to `~/.config`, above it or into it. Without it `Settles`
is false: a link in `~/.config` that leads to where a directory is about to be archived is
passed over as broken and becomes a directory afterwards. For the learner, such a link gives
one directory of `~/.config` two roots, its own and the link's. `MCConfigHome` assumes it too, so
that TLC evaluates it for the run. `Kept` does without. `ReconcileSettles` itself excludes a run
whose archive is a link, for the same reason: what is put where that link leads can bring
another link to life.

Two are about the tree and the walk through it, and need none of this:

- `Trees`: `Spec => []TreeInv`. Each file has a place of its own, in a directory, through `Change`,
  `MakeArchive` and `ArchiveEntry`: a rename takes along all that is below, and its
  target is free and not below itself. From it come `DirAbove` (above a file there
  are directories only) and `NothingBelowLinks`, so that the path of a directory is canonical and
  `DirAt` is the directory itself.
- `Marks`: `Spec => []MarkedExactly`, by `WalkInv`, which speaks as long as no link has moved.
  `ScopeInv`: the scope is the roots and what the watched links lead to, and no link leads
  through any of it (`ExpandScopeIs` follows the code's loop over the links). `GuardInv`: a directory
  that has stayed and is to be watched is marked, or below a path on the stack or a
  root to come, or strictly below the directory whose children are about to be read; and
  whatever is on the stack is within the scope and not excluded, so that nothing else gets
  a mark. The third case is what carries a directory from its parent's mark to its
  place on the stack. `AuditInv`: each root of the scope is to come or has its mount marked.

`AuditIdentityProofs`, for any keys, identities and capacity: `Consistency` (`CacheConsistent`),
`Generations` (`CacheOneGeneration`) and `PairsInOrder` (`Spec => IsOpenLog`). `CacheOf` is the
inductive invariant: the queue of a key is as long as the key has entries in the order, the
counter is the order's length, and each queue is of one generation; it takes, per key, the
set of identities allowed there, which the auditor's proofs use. Each operation has a
lemma that it leads from such caches to such caches (`InsertKeeps`, `TakeKeeps`,
`InvalidateKeeps`, `EvictKeeps`, and `EvictIs`: one turn of the eviction loop always makes the room).
For the refinement, `LogOf` is characterised by `IsLog`, which has one solution (`OneLog`),
and each operation is followed on it: taking the oldest identity of a key removes
the key's first open (`LeavesLog`), eviction the first of all (`EvictedLog`), `retain` on
the order is `retain` on the log (`SievedLog`), and the generation that is dropped is all that is
left of an older one (`NewGenerationLog`, which needs one generation per queue).

`AuditAttributionProofs`, for any processes, programs, files, capacities, time to live and
number of events:

- `ClosesKept` (`NoCloseLost`) and `ProcessCacheConsistent` (`ProcessesAgree`), from `BaseInv`, for any
  assignment of pids;
- `OwnProgramCharged`: `OwnPids => (Spec => []ChargedToOwnProgram)`. `ChargeInv` says that what
  either cache holds for a process names a program the process has set out to execute
  (`RightfulFor`, `RightfulOf`);
- `LoaderSpared`: `OwnPids /\ Loader \notin Files => (Spec => []LoaderNotCharged)`. `LoaderInv`: in the
  kernel's queue the exec of a program is before that of its loader, however events
  merge (`LoadersFollow`), so that in a batch the program has been recorded, and not
  forgotten, when the loader's turn comes (`BatchFollows`).

`OwnPids`, that no pid is used twice, is what these two need and no more: `audit_pid_reuse`
shows that the first is false without it. `Loader \notin Files` says that the loader is executed, not
opened as a file by programs: a process whose first event is an open of the loader
as a file would be known by nothing but it.

`SequenceFacts` has the lemmas the others share. The folds of the community modules are
recursive definitions over sets of indices; `Induction`, `FoldDefined` and `FoldSteps` turn one into
a sequence of steps, by the well-foundedness of the natural numbers, so that the eviction
loop, `retain` and `Reverse` can be proved about. `SelectSeq` of the standard module has no
definition the provers can use, which is why `retain` is `Sieve!Without`.

The assumptions are the named ASSUMEs of the modules, checked by TLC for the instances.

Only model-checked: liveness (`Resolved`, `OverflowFatal`, `WorkerLossFatal`, `ServedWhilePrompting`,
`AskReturns`, `Recovers`), since fairness is out of the prover's reach here. Every invariant
and action property that a passing run checks has a theorem.

## Disagreements between code and documents

The first four have a run that ends in a counterexample, and an entry under "findings".

1. `killed_opener_blocks_answer`: the fanotify descriptor of guard mode blocks; an opener
   killed between `poll` and `read` leaves the loop in `read`, and an answer stays
   undelivered until another access is reported.
2. `error_holds_openers`: after an error the loop is gone but the process waits for
   the dialog in progress; meanwhile nothing is answered.
3. `nearest_owner`: the documents promise an authorization for the nearest ancestor with an
   owner's name, the code takes the outermost of an unbroken run of that name.
4. `audit_pid_reuse`: the documents exclude stale attribution by pid reuse; an open is
   inspected by pid when it is read, without regard to the generation it carries.
5. docs/specs/config-guard.md:36 has the guard wait up to 35 seconds for authd and then apply the
   default. The read and the write have that timeout, the connect before them has none
   (prompt.rs:219): with a full backlog the question, and every question queued behind it,
   waits until authd accepts again. It has no run of its own: `AskReturns` assumes room in
   the backlog, and is violated when that condition is dropped.

The documents also disagree with themselves, so that no run can hold the code to them:
docs/specs/config-guard.md:27 has an explicit deny apply to the current event only, line 40
has one Deny answer reused for the process generation, as the code does.

What the code lets happen without a document that says otherwise, met while modelling:

- Of the process itself the executable is read before the start time (process.rs:100), so
  a pid that changes hands in between yields a key of the old program and the new
  generation, which the later check accepts. An unrelated process that takes the pid of
  a parent that has exited counts as an ancestor.
- A prompt command that is
  killed at the deadline is not waited for, and an answer it gives after the last poll
  is lost.
- The walk reads a directory's entries and then marks each by its path: a link that has
  been put in a directory's place by then is followed (watch.rs:65).
- `deploy.sh` restores the service in its ERR trap; killed, it leaves it stopped.
- `reconcile` writes the policy in place: an interruption there leaves it truncated, and
  the guard does not start again with what is left if it does not parse.
  `WholePolicyInstalled` is about `deploy.sh`, `Recovers` excludes a policy that stays unreadable, and
  `ConfiguredKept` and `ReconcileSettles` speak of a whole one.

## What is not modelled

- Byte layouts (event records and the information about pidfds in them, `/proc` files,
  the authd protocol), log wording, command line and TOML parsing: pure conversions
  with unit tests.
- The flags and masks of marks.
- The time a dialog takes, and which of several ready sources `poll` names first:
  all outcomes are possible in the models.
- In `AuditAttribution`, events of one batch keep the queue's order, objects
  are never deleted and their inodes reused, threads of a process are one, and the policy
  evaluation, the learner and the prompt after `Judge` are left to `AccessGate` and `Learning`.
- Two spellings of one path (a trailing slash) in the configuration: `OwnerFor` counts
  components where the code counts bytes, which only differ then.
- In `ConfigHome`: links from one directory of `~/.config` to another (the learner then files
  an access under the target, not the link); writers of the policy other than the two
  tools, and both at once; links made above `~/.config` while `reconcile` runs; names that need escaping in a TOML string
  (reconcile.rs:283 splices them in as they are); two archived entries of one name
  within a second; a `systemctl stop` that fails.
- A dry run of `reconcile` and the report it prints: they change nothing.

## Plan

What would add most, in this order:

1. The audit loop after `Judge`: the policy's evaluation, the learner and the prompt in
   audit-prompt mode, composed from `AuditAttribution`, `AccessGate` and `Learning`.
2. An abstract `AccessDesk`: every access is decided once and for a reason, which
   `GuardLoop` implements (refinement mapping from `access`, `view`, `told`); `GuardInv` has the
   facts its proof needs.
3. `GuardLoop`'s views taken from `Question`: several inspections, with jobs that wait while
   their processes end.
4. Liveness from the proofs' side: the safety facts behind `Resolved` and `Recovers`, that a step of
   the loop or of `deploy.sh` is possible wherever one is needed, stated as invariants.
