---------------------------- MODULE QuestionProofs ----------------------------
(****************************************************************************)
(* What guard mode has verified by the time it asks a question, and that    *)
(* both backends keep a prompt's promise, proved for any number of pids,    *)
(* programs, ancestors and questions.                                       *)
(****************************************************************************)
EXTENDS Question, TLAPS

(* Every process has executed what it runs, in its present generation.      *)
WorldKnown ==
    /\ procs \in [Pids -> Processes \cup {Free}]
    /\ starts \in Nat
    /\ \A p \in Pids : procs[p] # Free =>
           /\ procs[p].start <= starts
           /\ <<p, procs[p].start, procs[p].exe>> \in ran

(* t was read as p's start time, or is older than what was.                 *)
Observed(p, t) ==
    /\ t \in Nat /\ t <= starts
    /\ Present(p) => t <= procs[p].start

(* p's generation of start time t is gone for good. *)
Outdated(p, t) ==
    /\ t \in Nat /\ t <= starts
    /\ Present(p) => t < procs[p].start

(* What was found of an ancestor was read of one generation, unless that is *)
(* gone: its start time is read first.                                      *)
Verified(a) ==
    a.start # None =>
        <<a.pid, a.start, a.exe>> \in ran \/ Outdated(a.pid, a.start)

FoundInv ==
    /\ found.start # None => Observed(Helper, found.start)
    /\ \A n \in 1..Len(found.ancestors) : Verified(found.ancestors[n])

Parents == Pids \cup {Root}
Stats == [start : Nat, parent : Parents]
Ancestors == [pid : Parents, exe : Programs, start : Nat \cup {None}]

Findings ==
    [exe : Programs \cup {None}, start : Nat \cup {None}, ancestors : Seq(Ancestors)]

ReadingInv ==
    /\ found \in Findings
    /\ reading \in {"parent", "parentNext"} => stat \in Stats
    /\ reading = "parentNext" =>
           /\ held \in Stats \cup {None}
           /\ held # None => Observed(stat.parent, held.start)

(* What the check of the helper's generation establishes. *)
EnvironmentVerified == job.key # None => job.env \in {None, job.key.start}

(* What the check of the owner's does. *)
OwnerVerified ==
    job.authorization # None =>
        <<job.authorization.pid, job.authorization.start, job.authorization.exe>> \in ran

JobInv ==
    /\ stage \in {"helper", "owner", "ask"} =>
           /\ job.key # None => /\ job.key.pid = Helper
                                /\ EnvironmentVerified \/ Outdated(Helper, job.key.start)
           /\ job.authorization # None =>
                  OwnerVerified \/ Outdated(job.authorization.pid, job.authorization.start)
    /\ stage \in {"owner", "ask"} => EnvironmentVerified
    /\ stage = "ask" => OwnerVerified

Inv == WorldKnown /\ FoundInv /\ ReadingInv /\ JobInv

-----------------------------------------------------------------------------
(* Start times only grow: a pid's next process starts later than all that   *)
(* have been.                                                               *)
LEMMA WorldStep ==
    ASSUME WorldKnown, WorldActs
    PROVE  /\ WorldKnown'
           /\ starts <= starts' /\ ran \subseteq ran'
           /\ \A p \in Pids : procs'[p] # Free =>
                  \/ procs[p] # Free /\ procs'[p].start = procs[p].start
                  \/ starts < procs'[p].start
<1>0. Root \notin Pids /\ RootProgram \in Programs /\ Free \notin Processes
  BY InspectionAssumption
<1>1. PICK p \in Pids : \/ \E q \in Pids \cup {Root} : Forks(q, p)
                        \/ \E e \in Programs : Executes(p, e)
                        \/ Exits(p)
                        \/ IsReaped(p)
  BY DEF WorldActs
<1>2. CASE \E q \in Pids \cup {Root} : Forks(q, p)
  <2>1. PICK q \in Pids \cup {Root} : Forks(q, p) BY <1>2
  <2>2. Program(q) \in Programs
    BY <1>0, <2>1 DEF Program, Forks, Running, Present, WorldKnown, Processes
  <2>3. Process(starts + 1, Program(q), q) \in Processes
    BY <2>2 DEF Process, Processes, WorldKnown
  <2>4. procs' = [procs EXCEPT ![p] = Process(starts + 1, Program(q), q)]
        /\ starts' = starts + 1 /\ ran' = ran \cup {<<p, starts + 1, Program(q)>>}
    BY <2>1 DEF Forks
  <2>5. Process(starts + 1, Program(q), q).start = starts + 1
        /\ Process(starts + 1, Program(q), q).exe = Program(q)
    BY DEF Process
  <2>6. procs' \in [Pids -> Processes \cup {Free}] /\ starts' \in Nat
    BY <2>3, <2>4 DEF WorldKnown
  <2>7. \A r \in Pids : procs'[r] # Free =>
           /\ procs'[r].start <= starts'
           /\ <<r, procs'[r].start, procs'[r].exe>> \in ran'
    <3> SUFFICES ASSUME NEW r \in Pids, procs'[r] # Free
                 PROVE  /\ procs'[r].start <= starts'
                        /\ <<r, procs'[r].start, procs'[r].exe>> \in ran'
      OBVIOUS
    <3>1. CASE r = p BY <2>4, <2>5, <3>1 DEF WorldKnown
    <3>2. CASE r # p
      <4>1. procs'[r] = procs[r] BY <2>4, <3>2 DEF WorldKnown
      <4>2. procs[r].start \in Nat BY <4>1 DEF WorldKnown, Processes
      <4> QED BY <2>4, <4>1, <4>2 DEF WorldKnown
    <3> QED BY <3>1, <3>2
  <2>8. WorldKnown' BY <2>6, <2>7 DEF WorldKnown
  <2> QED BY <2>4, <2>5, <2>8 DEF WorldKnown
<1>3. CASE \/ \E e \in Programs : Executes(p, e)
           \/ Exits(p)
           \/ IsReaped(p)
  <2>1. starts' = starts /\ ran \subseteq ran'
    BY <1>3 DEF Executes, Exits, IsReaped
  <2>2. procs[p] \in Processes
    BY <1>0, <1>3 DEF WorldKnown, Executes, Exits, IsReaped, Running, Present
  <2>3. procs' \in [Pids -> Processes \cup {Free}]
        /\ \A r \in Pids : procs'[r] # Free =>
           /\ procs[r] # Free /\ procs'[r].start = procs[r].start
           /\ <<r, procs'[r].start, procs'[r].exe>> \in ran'
    <3>1. CASE \E e \in Programs : Executes(p, e)
      <4>1. PICK e \in Programs : Executes(p, e) BY <3>1
      <4>2. [procs[p] EXCEPT !.exe = e] \in Processes
            /\ [procs[p] EXCEPT !.exe = e].start = procs[p].start
            /\ [procs[p] EXCEPT !.exe = e].exe = e
        BY <2>2 DEF Processes
      <4>3. procs' = [procs EXCEPT ![p] = [procs[p] EXCEPT !.exe = e]]
            /\ ran' = ran \cup {<<p, procs[p].start, e>>}
        BY <4>1 DEF Executes
      <4> QED BY <1>0, <2>2, <4>2, <4>3 DEF WorldKnown
    <3>2. CASE Exits(p)
      <4>1. ASSUME NEW r \in Pids, NEW new,
                   new \in {[procs[r] EXCEPT !.zombie = TRUE],
                            [procs[r] EXCEPT !.parent = Root]},
                   procs[r] \in Processes
            PROVE  new \in Processes /\ new.start = procs[r].start /\ new.exe = procs[r].exe
        BY <4>1 DEF Processes
      <4>2. ran' = ran BY <3>2 DEF Exits
      <4>3. ASSUME NEW r \in Pids
            PROVE  \/ procs'[r] = procs[r]
                   \/ /\ procs[r] # Free
                      /\ procs'[r] \in {[procs[r] EXCEPT !.zombie = TRUE],
                                       [procs[r] EXCEPT !.parent = Root]}
        BY <1>0, <2>2, <3>2 DEF Exits
      <4>4. procs' = [r \in Pids |-> procs'[r]]
        BY <3>2 DEF Exits
      <4>5. ASSUME NEW r \in Pids
            PROVE  /\ procs'[r] \in Processes \cup {Free}
                   /\ procs'[r] # Free =>
                         /\ procs[r] # Free /\ procs'[r].start = procs[r].start
                         /\ <<r, procs'[r].start, procs'[r].exe>> \in ran'
        <5>1. procs[r] \in Processes \cup {Free} BY DEF WorldKnown
        <5> QED BY <4>1, <4>2, <4>3, <5>1 DEF WorldKnown
      <4>6. procs' \in [Pids -> Processes \cup {Free}]
        <5> DEFINE new == procs'
        <5>1. new = [r \in Pids |-> new[r]] BY <4>4
        <5>2. \A r \in Pids : new[r] \in Processes \cup {Free} BY <4>5
        <5> HIDE DEF new
        <5>3. new \in [Pids -> Processes \cup {Free}] BY <5>1, <5>2
        <5> QED BY <5>3 DEF new
      <4> QED BY <4>5, <4>6
    <3>3. CASE IsReaped(p)
      BY <1>0, <3>3 DEF WorldKnown, IsReaped
    <3> QED BY <1>3, <3>1, <3>2, <3>3
  <2>4. WorldKnown' /\ starts <= starts'
    <3>1. starts' = starts /\ starts \in Nat BY <2>1 DEF WorldKnown
    <3>2. \A r \in Pids : procs'[r] # Free =>
              /\ procs'[r].start <= starts'
              /\ <<r, procs'[r].start, procs'[r].exe>> \in ran'
      BY <2>3, <3>1 DEF WorldKnown
    <3> QED BY <2>3, <3>1, <3>2 DEF WorldKnown
  <2> QED BY <2>1, <2>3, <2>4
<1> QED BY <1>1, <1>2, <1>3

(* So what has been observed, is outdated or verified stays so.             *)
LEMMA WorldKeeps ==
    ASSUME WorldKnown, WorldActs, NEW p, NEW t, NEW a
    PROVE  /\ Observed(p, t) => Observed(p, t)'
           /\ Outdated(p, t) => Outdated(p, t)'
           /\ Verified(a) => Verified(a)'
<1>0. Free \notin Processes BY InspectionAssumption
<1>1. ASSUME NEW q, NEW u, u \in Nat, u <= starts
      PROVE  /\ u <= starts'
             /\ (Present(q) => u <= procs[q].start) => (Present(q)' => u <= procs'[q].start)
             /\ (Present(q) => u < procs[q].start) => (Present(q)' => u < procs'[q].start)
  <2>1. starts \in Nat /\ starts' \in Nat /\ starts <= starts'
    BY WorldStep DEF WorldKnown
  <2>2. Present(q) => procs[q].start \in Nat
    BY DEF Present, WorldKnown, Processes
  <2>3. Present(q)' => procs'[q].start \in Nat
    BY WorldStep DEF Present, WorldKnown, Processes
  <2>4. Present(q)' => \/ Present(q) /\ procs'[q].start = procs[q].start
                       \/ starts < procs'[q].start
    BY WorldStep DEF Present
  <2> QED BY <1>1, <2>1, <2>2, <2>3, <2>4
<1>2. ran \subseteq ran' BY WorldStep
<1> QED BY <1>1, <1>2 DEF Observed, Outdated, Verified
-----------------------------------------------------------------------------
LEMMA InitInv == Init => Inv
<1> SUFFICES ASSUME Init PROVE Inv OBVIOUS
<1>1. WorldKnown
  <2>1. Free \notin Processes /\ FirstProcess \in [Pids -> Processes \cup {Free}]
        /\ \A p \in Pids : FirstProcess[p] # Free => FirstProcess[p].start = 0
    BY InspectionAssumption
  <2>2. procs = FirstProcess /\ starts = 0
        /\ ran = {<<p, FirstProcess[p].start, FirstProcess[p].exe>> :
                    p \in {q \in Pids : FirstProcess[q] # Free}}
    BY DEF Init, WorldInit
  <2> QED BY <2>1, <2>2 DEF WorldKnown
<1>2. /\ found = Unknown /\ reading = "none" /\ stage = "idle"
  BY DEF Init, InspectionInit
<1>3. <<>> \in Seq(Ancestors) /\ Len(<<>>) = 0 OBVIOUS
<1>4. FoundInv BY <1>2, <1>3 DEF FoundInv, Unknown
<1>5. ReadingInv BY <1>2, <1>3 DEF ReadingInv, Findings, Unknown
<1>6. JobInv BY <1>2 DEF JobInv
<1> QED BY <1>1, <1>4, <1>5, <1>6 DEF Inv

(* What the reads return is of the present, or nothing.                     *)
LEMMA ReadsObserve ==
    ASSUME WorldKnown, NEW p \in Parents
    PROVE  /\ ExeOf(p) \in Programs \cup {None}
           /\ StatOf(p) \in Stats \cup {None}
           /\ StatOf(p) # None => Observed(p, StatOf(p).start)
           /\ Present(p) => procs[p].start \in Nat /\ Observed(p, procs[p].start)
<1>1. Root \notin Pids /\ RootProgram \in Programs /\ Free \notin Processes
  BY InspectionAssumption
<1>2. Present(p) => /\ procs[p] \in Processes
                    /\ procs[p].start <= starts
  BY DEF Present, WorldKnown
<1>3. Present(p) => procs[p].start \in Nat /\ Observed(p, procs[p].start)
  BY <1>2 DEF Observed, Processes
<1>4. ExeOf(p) \in Programs \cup {None}
  BY <1>1, <1>2 DEF ExeOf, Running, Program, Processes
<1>5. CASE Present(p)
  <2>1. StatOf(p) = [start |-> procs[p].start, parent |-> procs[p].parent]
    BY <1>5 DEF StatOf
  <2> QED BY <1>2, <1>3, <1>4, <1>5, <2>1 DEF Stats, Processes, Parents
<1>6. CASE ~Present(p)
  BY <1>4, <1>6 DEF StatOf
<1> QED BY <1>5, <1>6

(* An ancestor's executable is read after its start time, so it belongs to  *)
(* that start time's generation if that is still there.                     *)
LEMMA AncestorVerified ==
    ASSUME WorldKnown, NEW p \in Parents, NEW s \in Stats \cup {None},
           s # None => Observed(p, s.start), ExeOf(p) # None
    PROVE  /\ Ancestor(p, ExeOf(p), s) \in Ancestors
           /\ Verified(Ancestor(p, ExeOf(p), s))
<1> DEFINE a == Ancestor(p, ExeOf(p), s)
<1>1. a.pid = p /\ a.exe = ExeOf(p) /\ a.start = IF s = None THEN None ELSE s.start
  BY DEF Ancestor
<1>2. a \in Ancestors
  BY <1>1, ReadsObserve DEF Ancestor, Ancestors, Stats
<1>3. ASSUME a.start # None PROVE Verified(a)
  <2>1. s # None /\ a.start = s.start /\ Observed(p, s.start)
    BY <1>1, <1>3
  <2>2. CASE Present(p)
    <3>1. ExeOf(p) = procs[p].exe
      BY <2>2, InspectionAssumption DEF ExeOf, Program, Present
    <3>2. procs[p].start \in Nat /\ s.start \in Nat /\ s.start <= procs[p].start
          /\ s.start <= starts
      BY <2>1, <2>2, ReadsObserve DEF Observed
    <3>3. <<p, procs[p].start, procs[p].exe>> \in ran
      BY <2>2 DEF Present, WorldKnown
    <3>4. s.start = procs[p].start => <<a.pid, a.start, a.exe>> \in ran
      BY <1>1, <2>1, <3>1, <3>3
    <3>5. s.start # procs[p].start => Outdated(a.pid, a.start)
      BY <1>1, <2>1, <2>2, <3>2 DEF Outdated
    <3> QED BY <3>4, <3>5 DEF Verified
  <2>3. CASE ~Present(p)
    BY <1>1, <2>1, <2>3 DEF Outdated, Observed, Verified
  <2> QED BY <2>2, <2>3
<1>4. a.start = None => Verified(a) BY DEF Verified
<1> QED BY <1>2, <1>3, <1>4
LEMMA NextAncestorGoesOn ==
    ASSUME NEW p, NEW s \in Stats \cup {None}, NEW n, NextAncestor(p, s, n)
    PROVE  reading' = "read" \/ (reading' = "parent" /\ stat' \in Stats)
BY DEF NextAncestor, EndInspection

LEMMA InspectionKeeps ==
    ASSUME Inv, Inspection
    PROVE  Inv'
<1>0. /\ Inspects(Helper) /\ UNCHANGED <<worldVars, stage, job>>
      /\ WorldKnown /\ FoundInv /\ ReadingInv /\ JobInv
      /\ Helper \in Parents
  BY QuestionAssumption DEF Inspection, Inv, Parents
<1>1. WorldKnown' BY <1>0 DEF worldVars, WorldKnown
<1>2. JobInv'
  BY <1>0 DEF worldVars, JobInv, EnvironmentVerified, OwnerVerified, Outdated, Present
<1>3. ASSUME NEW p, NEW t, NEW a
      PROVE  /\ Observed(p, t)' <=> Observed(p, t)
             /\ Verified(a)' <=> Verified(a)
  BY <1>0 DEF worldVars, Observed, Verified, Outdated, Present
<1>4. Unknown \in Findings /\ Unknown.start = None /\ Len(Unknown.ancestors) = 0
  BY DEF Unknown, Findings
<1>5. CASE ReadExe(Helper)
  <2>1. found' = [found EXCEPT !.exe = ExeOf(Helper)] /\ reading' = "command"
    BY <1>5 DEF ReadExe
  <2>2. found' \in Findings /\ found'.start = found.start /\ found'.ancestors = found.ancestors
    BY <1>0, <2>1, ReadsObserve DEF ReadingInv, Findings
  <2>3. ReadingInv' BY <2>1, <2>2 DEF ReadingInv
  <2>4. FoundInv' BY <1>0, <1>3, <2>2 DEF FoundInv
  <2> QED BY <1>1, <1>2, <2>3, <2>4 DEF Inv
<1>6. CASE ReadCommand(Helper)
  <2>1. \/ found' = found /\ reading' = "start"
        \/ found' = Unknown /\ reading' = "read"
    BY <1>6 DEF ReadCommand, EndInspection
  <2>2. ReadingInv' BY <1>0, <1>4, <2>1 DEF ReadingInv
  <2>3. FoundInv' BY <1>0, <1>3, <1>4, <2>1 DEF FoundInv
  <2> QED BY <1>1, <1>2, <2>2, <2>3 DEF Inv
<1>7. CASE ReadStart(Helper)
  <2>1. CASE Present(Helper)
    <3>1. found' = [found EXCEPT !.start = procs[Helper].start] /\ reading' = "stat"
      BY <1>7, <2>1 DEF ReadStart
    <3>2. procs[Helper].start \in Nat /\ Observed(Helper, procs[Helper].start)
      BY <1>0, <2>1, ReadsObserve
    <3>3. found' \in Findings /\ found'.start = procs[Helper].start
          /\ found'.ancestors = found.ancestors
      BY <1>0, <3>1, <3>2 DEF ReadingInv, Findings
    <3>4. ReadingInv' BY <3>1, <3>3 DEF ReadingInv
    <3>5. FoundInv' BY <1>0, <1>3, <3>2, <3>3 DEF FoundInv
    <3> QED BY <1>1, <1>2, <3>4, <3>5 DEF Inv
  <2>2. CASE ~Present(Helper)
    <3>1. found' = Unknown /\ reading' = "read"
      BY <1>7, <2>2 DEF ReadStart, EndInspection
    <3>2. ReadingInv' BY <1>4, <3>1 DEF ReadingInv
    <3>3. FoundInv' BY <1>4, <3>1 DEF FoundInv
    <3> QED BY <1>1, <1>2, <3>2, <3>3 DEF Inv
  <2> QED BY <2>1, <2>2
<1>8. CASE ReadStat(Helper)
  <2>1. found' = found /\ NextAncestor(Helper, StatOf(Helper), 0)
    BY <1>8 DEF ReadStat
  <2>2. reading' = "read" \/ (reading' = "parent" /\ stat' \in Stats)
    BY <1>0, <2>1, ReadsObserve, NextAncestorGoesOn
  <2>3. ReadingInv' BY <1>0, <2>1, <2>2 DEF ReadingInv
  <2>4. FoundInv' BY <1>0, <1>3, <2>1 DEF FoundInv
  <2> QED BY <1>1, <1>2, <2>3, <2>4 DEF Inv
<1>9. CASE FirstReadOf(stat.parent, StatOf(stat.parent))
  <2>1. /\ reading = "parent" /\ reading' = "parentNext" /\ held' = StatOf(stat.parent)
        /\ found' = found /\ stat' = stat
    BY <1>9 DEF FirstReadOf
  <2>2. stat \in Stats /\ stat.parent \in Parents
    BY <1>0, <2>1 DEF ReadingInv, Stats
  <2>3. held' \in Stats \cup {None} /\ (held' # None => Observed(stat.parent, held'.start))
    BY <1>0, <2>1, <2>2, ReadsObserve
  <2>4. held' # None => Observed(stat.parent, held.start)'
    BY <1>0, <2>1, <2>3 DEF Observed, Present, worldVars
  <2>5. ReadingInv' BY <1>0, <2>1, <2>2, <2>3, <2>4 DEF ReadingInv
  <2>6. FoundInv' BY <1>0, <1>3, <2>1 DEF FoundInv
  <2> QED BY <1>1, <1>2, <2>5, <2>6 DEF Inv
<1>10. CASE reading = "parentNext" /\ Found(stat.parent, ExeOf(stat.parent), held)
  <2> DEFINE exe == ExeOf(stat.parent)
             a == Ancestor(stat.parent, exe, held)
  <2>1. /\ stat \in Stats /\ stat.parent \in Parents
        /\ held \in Stats \cup {None}
        /\ held # None => Observed(stat.parent, held.start)
    BY <1>0, <1>10 DEF ReadingInv, Stats
  <2>2. reading' = "read" \/ (reading' = "parent" /\ stat' \in Stats)
    BY <1>10, <2>1, NextAncestorGoesOn DEF Found
  <2>3. found' = IF exe = None THEN found
                 ELSE [found EXCEPT !.ancestors = Append(found.ancestors, a)]
    BY <1>10 DEF Found
  <2>4. exe # None => a \in Ancestors /\ Verified(a)
    BY <1>0, <2>1, AncestorVerified
  <2>5. found' \in Findings /\ found'.start = found.start
    <3>1. found \in Findings /\ found.ancestors \in Seq(Ancestors)
      BY <1>0 DEF ReadingInv, Findings
    <3>2. exe # None => Append(found.ancestors, a) \in Seq(Ancestors)
      BY <2>4, <3>1
    <3> HIDE DEF exe, a
    <3> QED BY <2>3, <3>1, <3>2 DEF Findings
  <2>6. \A n \in 1..Len(found'.ancestors) : Verified(found'.ancestors[n])
    <3>1. CASE exe = None BY <1>0, <2>3, <3>1 DEF FoundInv
    <3>2. CASE exe # None
      <4> DEFINE s == found.ancestors
      <4>1. s \in Seq(Ancestors) BY <1>0 DEF ReadingInv, Findings
      <4>2. found'.ancestors = Append(s, a)
        BY <1>0, <2>3, <3>2 DEF ReadingInv, Findings
      <4>3. \A n \in 1..Len(s) : Verified(s[n]) BY <1>0 DEF FoundInv
      <4>4. a \in Ancestors /\ Verified(a) BY <2>4, <3>2
      <4>5. Len(Append(s, a)) = Len(s) + 1 /\ Append(s, a)[Len(s) + 1] = a
            /\ \A n \in 1..Len(s) : Append(s, a)[n] = s[n]
        BY <4>1, <4>4
      <4>6. Len(s) \in Nat BY <4>1
      <4> HIDE DEF s, a
      <4>7. ASSUME NEW n \in 1..(Len(s) + 1) PROVE Verified(Append(s, a)[n])
        <5>1. CASE n = Len(s) + 1 BY <4>4, <4>5, <5>1
        <5>2. CASE n \in 1..Len(s) BY <4>3, <4>5, <5>2
        <5> QED BY <4>6, <4>7, <5>1, <5>2
      <4> QED BY <4>2, <4>5, <4>7
    <3> QED BY <3>1, <3>2
  <2>7. ReadingInv' BY <2>2, <2>5 DEF ReadingInv
  <2>8. FoundInv' BY <1>0, <1>3, <2>5, <2>6 DEF FoundInv
  <2> QED BY <1>1, <1>2, <2>7, <2>8 DEF Inv
<1> QED
  BY <1>0, <1>5, <1>6, <1>7, <1>8, <1>9, <1>10 DEF Inspects, ReadParent
-----------------------------------------------------------------------------
(* An owner whose start time is unknown is never authorized.                *)
LEMMA AuthorizedIsAncestor ==
    ASSUME NEW ancestors, OwnerChainRoot(ancestors) # None
    PROVE  \E n \in DOMAIN ancestors :
               /\ OwnerChainRoot(ancestors) = ancestors[n]
               /\ ancestors[n].start # None
<1> DEFINE run == OwnerRun(ancestors)
           outermost == {n \in run : n + 1 \notin run}
           n == CHOOSE m \in outermost : TRUE
<1>1. /\ outermost # {} /\ \A m \in run : ancestors[m].start # None
      /\ OwnerChainRoot(ancestors) = ancestors[n]
  BY DEF OwnerChainRoot
<1>2. n \in outermost
  BY <1>1
<1>3. n \in DOMAIN ancestors /\ n \in run
  BY <1>2 DEF OwnerRun
<1> QED BY <1>1, <1>3

(* The job is made of what was found, and of the environment read last.     *)
LEMMA QueueKeeps ==
    ASSUME Inv, QueuePrompt
    PROVE  Inv'
<1>0. /\ WorldKnown /\ FoundInv /\ ReadingInv /\ JobInv
      /\ UNCHANGED worldVars
      /\ reading' = "none" /\ found' = Unknown /\ stage = "inspect"
  BY DEF Inv, QueuePrompt
<1>1. WorldKnown' BY <1>0 DEF worldVars, WorldKnown
<1>2. Unknown \in Findings /\ Unknown.start = None /\ Len(Unknown.ancestors) = 0
  BY DEF Unknown, Findings
<1>3. FoundInv' /\ ReadingInv'
  BY <1>0, <1>2 DEF FoundInv, ReadingInv
<1>4. JobInv'
  <2>1. CASE stage' = "idle" BY <2>1 DEF JobInv
  <2>2. CASE stage' # "idle"
    <3>1. PICK env \in {EnvironOf(Helper), None} :
              /\ stage' = "helper"
              /\ job' = [key |-> PromptKey, authorization |-> Authorization, env |-> env]
      BY <2>2 DEF QueuePrompt
    <3>2. job'.key = PromptKey /\ job'.authorization = Authorization /\ job'.env = env
      BY <3>1
    <3>3. ASSUME PromptKey # None
          PROVE  /\ PromptKey.pid = Helper
                 /\ env \in {None, PromptKey.start} \/ Outdated(Helper, PromptKey.start)
      <4>1. PromptKey.pid = Helper /\ PromptKey.start = found.start /\ found.start # None
        BY <3>3 DEF PromptKey
      <4>2. Observed(Helper, found.start)
        BY <1>0, <4>1 DEF FoundInv
      <4>3. env # None => Present(Helper) /\ env = procs[Helper].start
        BY QuestionAssumption, InspectionAssumption DEF EnvironOf, Running
      <4>4. Present(Helper) => procs[Helper].start \in Nat
        BY <1>0, ReadsObserve, QuestionAssumption DEF Parents
      <4>5. env \in {None, found.start} \/ Outdated(Helper, found.start)
        BY <4>2, <4>3, <4>4 DEF Observed, Outdated
      <4> QED BY <4>1, <4>5
    <3>4. ASSUME Authorization # None
          PROVE  \/ <<Authorization.pid, Authorization.start, Authorization.exe>> \in ran
                 \/ Outdated(Authorization.pid, Authorization.start)
      <4>1. Authorization = OwnerChainRoot(found.ancestors)
        BY <3>4 DEF Authorization
      <4>2. PICK n \in DOMAIN found.ancestors :
                /\ Authorization = found.ancestors[n]
                /\ found.ancestors[n].start # None
        BY <3>4, <4>1, AuthorizedIsAncestor
      <4>3. n \in 1..Len(found.ancestors)
        BY <1>0 DEF ReadingInv, Findings
      <4>4. Verified(found.ancestors[n]) BY <1>0, <4>3 DEF FoundInv
      <4> QED BY <4>2, <4>4 DEF Verified
    <3>5. ran' = ran /\ \A p, t : Outdated(p, t) => Outdated(p, t)'
      BY <1>0 DEF worldVars, Outdated, Present
    <3>6. job'.key # None =>
              /\ job'.key.pid = Helper
              /\ EnvironmentVerified' \/ Outdated(Helper, job.key.start)'
      <4>1. ASSUME PromptKey # None, Outdated(Helper, PromptKey.start)
            PROVE  Outdated(Helper, job.key.start)'
        BY <3>2, <3>5, <4>1 DEF Outdated, Present
      <4> QED BY <3>2, <3>3, <4>1 DEF EnvironmentVerified
    <3>7. job'.authorization # None =>
              OwnerVerified' \/ Outdated(job.authorization.pid, job.authorization.start)'
      <4>1. ASSUME Authorization # None, Outdated(Authorization.pid, Authorization.start)
            PROVE  Outdated(job.authorization.pid, job.authorization.start)'
        BY <3>2, <3>5, <4>1 DEF Outdated, Present
      <4> QED BY <3>2, <3>4, <3>5, <4>1 DEF OwnerVerified
    <3> QED BY <3>1, <3>6, <3>7 DEF JobInv
  <2> QED BY <2>1, <2>2
<1> QED BY <1>1, <1>3, <1>4 DEF Inv

(* A generation that is current is not outdated: each check turns what was  *)
(* found into a fact, and no later step takes it back.                      *)
LEMMA ChecksKeep ==
    ASSUME Inv, DropPrompt \/ CheckHelper \/ CheckOwner
    PROVE  Inv'
<1>0. /\ WorldKnown /\ FoundInv /\ ReadingInv /\ JobInv
      /\ UNCHANGED <<worldVars, inspectionVars>>
  BY DEF Inv, DropPrompt, CheckHelper, CheckOwner
<1>1. WorldKnown' /\ FoundInv' /\ ReadingInv'
  BY <1>0 DEF worldVars, inspectionVars, WorldKnown, FoundInv, ReadingInv,
              Observed, Verified, Outdated, Present
<1>2. CASE DropPrompt
  BY <1>1, <1>2 DEF DropPrompt, JobInv, Inv
<1>3. CASE CheckHelper
  <2>1. stage = "helper" /\ stage' = "owner" /\ job' = job /\ StillCurrent(job.key)
    BY <1>3 DEF CheckHelper
  <2>2. EnvironmentVerified
    BY <1>0, <2>1 DEF JobInv, EnvironmentVerified, StillCurrent, IsCurrent, Outdated
  <2> QED
    BY <1>0, <1>1, <2>1, <2>2 DEF JobInv, Inv, EnvironmentVerified, OwnerVerified,
                                  Outdated, Present, worldVars
<1>4. CASE CheckOwner
  <2>1. stage = "owner" /\ stage' = "ask" /\ job' = job
        /\ StillCurrent(job.authorization)
    BY <1>4 DEF CheckOwner
  <2>2. OwnerVerified
    BY <1>0, <2>1 DEF JobInv, OwnerVerified, StillCurrent, IsCurrent, Outdated
  <2> QED
    BY <1>0, <1>1, <2>1, <2>2 DEF JobInv, Inv, EnvironmentVerified, OwnerVerified,
                                  Outdated, Present, worldVars
<1> QED BY <1>2, <1>3, <1>4

LEMMA StepKeepsInv == Inv /\ [Next]_vars => Inv'
<1> SUFFICES ASSUME Inv, [Next]_vars PROVE Inv' OBVIOUS
<1>0. WorldKnown /\ FoundInv /\ ReadingInv /\ JobInv BY DEF Inv
<1>1. ASSUME UNCHANGED <<worldVars, inspectionVars>>, UNCHANGED <<stage, job>> \/ stage' = "idle"
      PROVE  Inv'
  BY <1>0, <1>1 DEF worldVars, inspectionVars, Inv, WorldKnown, FoundInv, ReadingInv, JobInv,
              EnvironmentVerified, OwnerVerified, Observed, Verified, Outdated, Present
<1>2. CASE Access
  <2>1. /\ stage' = "inspect" /\ found' = Unknown /\ reading' = "exe"
        /\ UNCHANGED worldVars
    BY <1>2 DEF Access, BeginInspection
  <2>2. Unknown \in Findings /\ Unknown.start = None /\ Len(Unknown.ancestors) = 0
    BY DEF Unknown, Findings
  <2>3. WorldKnown' BY <1>0, <2>1 DEF worldVars, WorldKnown
  <2> QED BY <2>1, <2>2, <2>3 DEF Inv, FoundInv, ReadingInv, JobInv
<1>3. CASE Inspection BY <1>3, InspectionKeeps
<1>4. CASE QueuePrompt BY <1>4, QueueKeeps
<1>5. CASE DropPrompt \/ CheckHelper \/ CheckOwner BY <1>5, ChecksKeep
<1>6. CASE Backend BY <1>1, <1>6 DEF Backend
<1>7. CASE World
  <2>1. WorldActs /\ UNCHANGED <<reading, found, stat, held, stage, job>>
    BY <1>7 DEF World, inspectionVars
  <2>2. WorldKnown' /\ ran \subseteq ran' BY <1>0, <2>1, WorldStep
  <2>3. ASSUME NEW p, NEW t, NEW a
        PROVE  /\ Observed(p, t) => Observed(p, t)'
               /\ Outdated(p, t) => Outdated(p, t)'
               /\ Verified(a) => Verified(a)'
    BY <1>0, <2>1, WorldKeeps
  <2>4. FoundInv'
    <3>1. found.start # None => Observed(Helper, found.start)'
      BY <1>0, <2>1, <2>3 DEF FoundInv
    <3>2. \A n \in 1..Len(found.ancestors) : Verified(found.ancestors[n])'
      BY <1>0, <2>1, <2>3 DEF FoundInv
    <3> QED BY <2>1, <3>1, <3>2 DEF FoundInv
  <2>5. ReadingInv'
    <3>1. Observed(stat.parent, held.start) => Observed(stat.parent, held.start)'
      BY <1>0, <2>1, WorldKeeps
    <3> QED BY <1>0, <2>1, <3>1 DEF ReadingInv
  <2>6. JobInv'
    <3>1. Outdated(Helper, job.key.start) => Outdated(Helper, job.key.start)'
      BY <1>0, <2>1, WorldKeeps
    <3>2. Outdated(job.authorization.pid, job.authorization.start)
              => Outdated(job.authorization.pid, job.authorization.start)'
      BY <1>0, <2>1, WorldKeeps
    <3> QED BY <1>0, <2>1, <2>2, <3>1, <3>2 DEF JobInv, EnvironmentVerified, OwnerVerified
  <2> QED BY <2>2, <2>4, <2>5, <2>6 DEF Inv
<1>8. CASE Outside BY <1>1, <1>8 DEF Outside
<1>9. CASE UNCHANGED vars BY <1>1, <1>9 DEF vars
<1> QED BY <1>2, <1>3, <1>4, <1>5, <1>6, <1>7, <1>8, <1>9 DEF Next

(* Whatever processes exit, execute, fork and take over pids between any    *)
(* two of the guard's reads: when it asks, the session is from the          *)
(* generation in question, and an owner it would authorize has run what it  *)
(* is authorized by (inspect_process, is_process_generation_current).       *)
THEOREM Verification == Spec => []VerifiedWhenAsked
<1>1. Init => Inv BY InitInv
<1>2. Inv /\ [Next]_vars => Inv' BY StepKeepsInv
<1>3. Inv => VerifiedWhenAsked
  BY DEF Inv, JobInv, EnvironmentVerified, OwnerVerified, VerifiedWhenAsked
<1> QED BY <1>1, <1>2, <1>3, PTL DEF Spec

-----------------------------------------------------------------------------
(* The backends.                                                            *)
Calls == {"none", "connect", "write", "read", "spawn", "poll"}
Answers == {"Allow", "Deny"}
Statuses == Answers \cup {"other"}

BackendTypes ==
    /\ question \in 0..MaxQuestions
    /\ call \in Calls
    /\ answers \in [1..MaxQuestions -> Answers \cup {NoAnswer}]
    /\ backlog \in Seq(1..MaxQuestions)
    /\ shown \subseteq 1..MaxQuestions
    /\ child \in Statuses \cup {"running", NoAnswer}

Waiting(q) == \E n \in 1..Len(backlog) : backlog[n] = q

(* A question with authd is an earlier one or the present one, is there     *)
(* only once and has no answer.                                             *)
WithAuthd ==
    /\ \A q \in shown : q <= question /\ answers[q] = NoAnswer /\ ~Waiting(q)
    /\ \A n \in 1..Len(backlog) :
           /\ backlog[n] <= question /\ answers[backlog[n]] = NoAnswer
           /\ \A m \in 1..Len(backlog) : backlog[m] = backlog[n] => m = n

(* Nobody has seen the present question yet. *)
Fresh == answers[question] = NoAnswer /\ question \notin shown /\ ~Waiting(question)

(* What can be read belongs to the present question. *)
Current ==
    /\ call # "none" => question # 0
    /\ \A q \in 1..MaxQuestions : question < q => answers[q] = NoAnswer
    /\ call \in {"connect", "spawn"} \/ child = "running" => Fresh
    /\ child # NoAnswer => call = "poll"
    /\ child \in Answers => answers[question] = child
    /\ connection = IF call \in {"write", "read"} THEN question ELSE NoAnswer
    /\ replies \subseteq {Default} \cup
           {Explicit(d) : d \in {e \in Answers : call # "none" /\ answers[question] = e}}

BackendInv == BackendTypes /\ WithAuthd /\ Current

-----------------------------------------------------------------------------
(* The elements of a sequence over a set. *)
LEMMA ElementOf ==
    ASSUME NEW S, NEW s \in Seq(S), NEW n \in 1..Len(s)
    PROVE  s[n] \in S
OBVIOUS

LEMMA BackendInitially == Init => BackendInv
<1> SUFFICES ASSUME Init PROVE BackendInv OBVIOUS
<1>1. NoAnswer \notin Nat \cup {"Allow", "Deny", "other", "running"} /\ MaxQuestions \in Nat
  BY BackendAssumption
<1>2. BackendInit BY DEF Init
<1>3. BackendTypes BY <1>1, <1>2 DEF BackendInit, BackendTypes, Calls, Statuses, Answers
<1>4. WithAuthd BY <1>2 DEF BackendInit, WithAuthd
<1>5. Current
  <2>1. call = "none" /\ child = NoAnswer /\ connection = NoAnswer /\ replies = {}
        /\ \A q \in 1..MaxQuestions : answers[q] = NoAnswer
    BY <1>2 DEF BackendInit
  <2>2. child # "running" /\ child \notin Answers BY <1>1, <2>1 DEF Answers
  <2> QED BY <2>1, <2>2 DEF Current
<1> QED BY <1>3, <1>4, <1>5 DEF BackendInv

LEMMA AskKeeps == ASSUME BackendInv, Ask PROVE BackendInv'
<1>1. NoAnswer \notin Nat \cup {"Allow", "Deny", "other", "running"} /\ MaxQuestions \in Nat
  BY BackendAssumption
<1>2. /\ question' = question + 1 /\ question' \in 1..MaxQuestions
      /\ call = "none" /\ call' \in {"connect", "spawn"}
      /\ UNCHANGED <<answers, backlog, shown, connection, replies, child>>
  BY <1>1 DEF Ask, asking, BackendInv, BackendTypes
<1>3. BackendTypes' BY <1>1, <1>2 DEF BackendInv, BackendTypes, Calls
<1>4. WithAuthd'
  <2>1. \A n \in 1..Len(backlog) : backlog[n] \in Nat BY <1>1 DEF BackendInv, BackendTypes
  <2>2. \A q \in Nat : q <= question => q <= question' BY <1>2 DEF BackendInv, BackendTypes
  <2>3. \A q \in shown : q \in Nat BY <1>1 DEF BackendInv, BackendTypes
  <2> QED BY <1>2, <2>1, <2>2, <2>3 DEF BackendInv, WithAuthd, Waiting
<1>5. Fresh'
  <2>1. answers[question'] = NoAnswer BY <1>2 DEF BackendInv, Current, BackendTypes
  <2>2. question' \notin shown BY <1>2 DEF BackendInv, WithAuthd, BackendTypes
  <2>3. ~Waiting(question') BY <1>2 DEF BackendInv, WithAuthd, BackendTypes, Waiting
  <2>4. ~Waiting(question)' BY <1>2, <2>3 DEF Waiting
  <2> QED BY <1>2, <2>1, <2>2, <2>4 DEF Fresh
<1>6. Current'
  <2>1. child = NoAnswer /\ connection = NoAnswer /\ replies \subseteq {Default}
    BY <1>2 DEF BackendInv, Current
  <2>2. \A q \in 1..MaxQuestions : question' < q => answers[q] = NoAnswer
    BY <1>2 DEF BackendInv, Current, BackendTypes
  <2> QED BY <1>1, <1>2, <1>5, <2>1, <2>2 DEF Current, Answers
<1> QED BY <1>3, <1>4, <1>6 DEF BackendInv

LEMMA ReturnKeeps == ASSUME BackendInv, NEW o, Return(o) PROVE BackendInv'
<1>1. NoAnswer \notin Nat \cup {"Allow", "Deny", "other", "running"} /\ MaxQuestions \in Nat
  BY BackendAssumption
<1>2. /\ call' = "none" /\ connection' = NoAnswer /\ replies' = {} /\ child' = NoAnswer
      /\ UNCHANGED <<question, answers, backlog, shown>>
  BY DEF Return
<1>3. BackendTypes' BY <1>2 DEF BackendInv, BackendTypes, Calls
<1>4. WithAuthd' BY <1>2 DEF BackendInv, WithAuthd, Waiting
<1>5. Current' BY <1>1, <1>2 DEF BackendInv, Current, Answers
<1> QED BY <1>3, <1>4, <1>5 DEF BackendInv

(* The calls of the code up to the next return.                             *)
LEMMA CallKeeps ==
    ASSUME BackendInv, Connect \/ WriteRequest \/ SpawnCommand \/ TimePasses
    PROVE  BackendInv'
<1>1. NoAnswer \notin Nat \cup {"Allow", "Deny", "other", "running"} /\ MaxQuestions \in Nat
  BY BackendAssumption
<1>2. CASE Connect
  <2>1. /\ call = "connect" /\ call' = "write" /\ connection' = question
        /\ backlog' = Append(backlog, question)
        /\ UNCHANGED <<question, answers, shown, replies, child>>
    BY <1>2 DEF Connect, ConnectionOf
  <2>2. question \in 1..MaxQuestions /\ Fresh
    BY <1>1, <2>1 DEF BackendInv, BackendTypes, Current
  <2>3. BackendTypes' BY <2>1, <2>2 DEF BackendInv, BackendTypes, Calls
  <2>4. backlog \in Seq(1..MaxQuestions) BY DEF BackendInv, BackendTypes
  <2>5. /\ Len(backlog') = Len(backlog) + 1 /\ backlog'[Len(backlog) + 1] = question
        /\ \A n \in 1..Len(backlog) : backlog'[n] = backlog[n]
        /\ Len(backlog) \in Nat
    BY <2>1, <2>2, <2>4
  <2>6. WithAuthd'
    <3>1. \A q \in shown : q <= question /\ answers[q] = NoAnswer
      BY DEF BackendInv, WithAuthd
    <3>2. \A q \in shown : ~Waiting(q)'
      BY <2>2, <2>5 DEF BackendInv, WithAuthd, Waiting, Fresh
    <3>3. \A n \in 1..Len(backlog') : backlog'[n] <= question /\ answers[backlog'[n]] = NoAnswer
      BY <2>2, <2>5 DEF BackendInv, WithAuthd, Fresh
    <3>4. \A n, m \in 1..Len(backlog') : backlog'[m] = backlog'[n] => m = n
      BY <2>2, <2>5 DEF BackendInv, WithAuthd, Waiting, Fresh
    <3> QED BY <2>1, <3>1, <3>2, <3>3, <3>4 DEF WithAuthd
  <2>7. Current' BY <1>1, <2>1, <2>2 DEF BackendInv, Current
  <2> QED BY <2>3, <2>6, <2>7 DEF BackendInv
<1>3. CASE WriteRequest
  <2>1. /\ call = "write" /\ call' = "read"
        /\ UNCHANGED <<question, answers, shown, replies, child, backlog, connection>>
    BY <1>3 DEF WriteRequest
  <2> QED BY <1>1, <2>1 DEF BackendInv, BackendTypes, Calls, WithAuthd, Waiting, Current, Fresh
<1>4. CASE SpawnCommand
  <2>1. /\ call = "spawn" /\ call' = "poll" /\ child' = "running"
        /\ UNCHANGED <<question, answers, shown, replies, backlog, connection>>
    BY <1>4 DEF SpawnCommand
  <2> QED BY <1>1, <2>1 DEF BackendInv, BackendTypes, Calls, WithAuthd, Waiting, Current, Fresh, Answers
<1>5. CASE TimePasses
  <2>1. UNCHANGED <<question, call, answers, shown, replies, child, backlog, connection>>
    BY <1>5 DEF TimePasses
  <2> QED BY <2>1 DEF BackendInv, BackendTypes, WithAuthd, Waiting, Current, Fresh
<1> QED BY <1>2, <1>3, <1>4, <1>5

(* authd, the command and the user.                                         *)
LEMMA UserKeeps == ASSUME BackendInv, UserActs PROVE BackendInv'
<1>1. NoAnswer \notin Nat \cup {"Allow", "Deny", "other", "running"} /\ MaxQuestions \in Nat
  BY BackendAssumption
<1>2. CASE AuthdAccepts
  <2>0. PICK q : q = Head(backlog) OBVIOUS
  <2>1. /\ backlog # <<>> /\ backlog' = Tail(backlog) /\ shown' = shown \cup {q}
        /\ UNCHANGED <<question, call, answers, connection, replies, child>>
    BY <1>2, <2>0 DEF AuthdAccepts
  <2>2. backlog \in Seq(1..MaxQuestions) BY DEF BackendInv, BackendTypes
  <2>3. /\ backlog' \in Seq(1..MaxQuestions) /\ Len(backlog') = Len(backlog) - 1
        /\ Len(backlog) \in Nat \ {0} /\ q = backlog[1] /\ q \in 1..MaxQuestions
        /\ \A n \in 1..Len(backlog') : backlog'[n] = backlog[n + 1]
    <3>1. Len(backlog) \in Nat \ {0} /\ q = backlog[1] BY <2>0, <2>1, <2>2
    <3>2. q \in 1..MaxQuestions
      <4>1. 1 \in 1..Len(backlog) BY <3>1
      <4>2. \A n \in 1..Len(backlog) : backlog[n] \in 1..MaxQuestions
        BY <2>2, ElementOf
      <4> QED BY <3>1, <4>1, <4>2
    <3>3. backlog' \in Seq(1..MaxQuestions) /\ Len(backlog') = Len(backlog) - 1
      BY <2>1, <2>2, <3>1
    <3>4. \A n \in 1..Len(backlog') : backlog'[n] = backlog[n + 1]
      BY <2>1, <2>2, <3>1, <3>3
    <3> QED BY <3>1, <3>2, <3>3, <3>4
  <2>4. BackendTypes' BY <2>1, <2>3 DEF BackendInv, BackendTypes
  <2>5. q <= question /\ answers[q] = NoAnswer /\ ~Waiting(q)'
    <3>1. \A n \in 1..Len(backlog') : backlog'[n] # q
      <4> SUFFICES ASSUME NEW n \in 1..Len(backlog'), backlog[n + 1] = backlog[1] PROVE FALSE
        BY <2>3
      <4>1. n + 1 \in 1..Len(backlog) /\ 1 \in 1..Len(backlog) /\ n + 1 # 1 BY <2>3
      <4>2. \A i, j \in 1..Len(backlog) : backlog[i] = backlog[j] => i = j
        BY DEF BackendInv, WithAuthd
      <4> QED BY <4>1, <4>2
    <3> QED BY <2>3, <3>1 DEF BackendInv, WithAuthd, Waiting
  <2>6. \A r : Waiting(r)' => Waiting(r) BY <2>3 DEF Waiting
  <2>7. WithAuthd'
    <3>1. \A r \in shown' : r <= question /\ answers[r] = NoAnswer /\ ~Waiting(r)'
      BY <2>1, <2>5, <2>6 DEF BackendInv, WithAuthd
    <3>2. \A n \in 1..Len(backlog') :
             /\ backlog'[n] <= question /\ answers[backlog'[n]] = NoAnswer
             /\ \A m \in 1..Len(backlog') : backlog'[m] = backlog'[n] => m = n
      <4>1. ASSUME NEW n \in 1..Len(backlog')
            PROVE  n \in Nat /\ n + 1 \in 1..Len(backlog) /\ backlog'[n] = backlog[n + 1]
        BY <2>3
      <4>2. ASSUME NEW n \in 1..Len(backlog')
            PROVE  backlog'[n] <= question /\ answers[backlog'[n]] = NoAnswer
        BY <4>1 DEF BackendInv, WithAuthd
      <4>3. ASSUME NEW n \in 1..Len(backlog'), NEW m \in 1..Len(backlog'),
                   backlog'[m] = backlog'[n]
            PROVE  m = n
        <5>1. backlog[m + 1] = backlog[n + 1] BY <4>1, <4>3
        <5>2. m + 1 = n + 1 BY <4>1, <5>1 DEF BackendInv, WithAuthd
        <5> QED BY <4>1, <5>2
      <4> QED BY <4>2, <4>3
    <3> QED BY <2>1, <3>1, <3>2 DEF WithAuthd
  <2>8. Fresh => Fresh'
    <3>1. Waiting(q) BY <2>3 DEF Waiting
    <3> QED BY <2>1, <2>6, <3>1 DEF Fresh, Waiting
  <2>9. Current' BY <2>1, <2>8 DEF BackendInv, Current
  <2> QED BY <2>4, <2>7, <2>9 DEF BackendInv
<1>3. ASSUME NEW d \in Statuses, CommandExits(d) PROVE BackendInv'
  <2>1. /\ child = "running" /\ child' = d /\ UserAnswered(question, d)
        /\ UNCHANGED <<question, call, backlog, shown, connection, replies>>
    BY <1>3 DEF CommandExits
  <2>2. Fresh /\ call = "poll" /\ question \in 1..MaxQuestions
    BY <1>1, <2>1 DEF BackendInv, Current, BackendTypes
  <2>3. answers' = IF d \in Answers THEN [answers EXCEPT ![question] = d] ELSE answers
    BY <2>1 DEF UserAnswered, Answers
  <2>4. BackendTypes' BY <2>1, <2>2, <2>3 DEF BackendInv, BackendTypes
  <2>5. \A q : q # question => answers'[q] = answers[q]
    BY <2>2, <2>3 DEF BackendInv, BackendTypes
  <2>6. WithAuthd'
    BY <2>1, <2>2, <2>5 DEF BackendInv, WithAuthd, Waiting, Fresh
  <2>7. Current'
    <3>1. child' # "running" /\ child' # NoAnswer /\ call' = "poll"
      BY <1>1, <2>1, <2>2 DEF Statuses, Answers
    <3>2. child' \in Answers => answers'[question] = child'
      BY <2>1, <2>2, <2>3 DEF BackendInv, BackendTypes
    <3>3. \A q \in 1..MaxQuestions : question < q => answers'[q] = NoAnswer
      BY <2>2, <2>5 DEF BackendInv, Current
    <3>4. replies \subseteq {Default}
      BY <1>1, <2>2 DEF BackendInv, Current, Fresh, Answers
    <3> QED BY <1>1, <2>1, <2>2, <3>1, <3>2, <3>3, <3>4 DEF BackendInv, Current
  <2> QED BY <2>4, <2>6, <2>7 DEF BackendInv
<1>4. ASSUME NEW d \in Statuses, NEW q \in shown, AuthdReplies(q, d) PROVE BackendInv'
  <2>1. /\ q = question /\ call # "none" => call = "read"
        /\ UserAnswered(q, d) /\ shown' = shown \ {q}
        /\ UNCHANGED <<question, call, backlog, connection, child>>
    BY <1>4 DEF AuthdReplies, asking
  <2>2. answers' = IF d \in Answers THEN [answers EXCEPT ![q] = d] ELSE answers
    BY <2>1 DEF UserAnswered, Answers
  <2>3. q \in 1..MaxQuestions /\ q <= question /\ answers[q] = NoAnswer /\ ~Waiting(q)
    BY DEF BackendInv, BackendTypes, WithAuthd
  <2>4. BackendTypes' BY <2>1, <2>2, <2>3 DEF BackendInv, BackendTypes
  <2>5. \A r : r # q => answers'[r] = answers[r]
    BY <2>2, <2>3 DEF BackendInv, BackendTypes
  <2>6. WithAuthd'
    BY <2>1, <2>3, <2>5 DEF BackendInv, WithAuthd, Waiting
  <2>7. Current'
    <3>1. \A r \in 1..MaxQuestions : question < r => answers'[r] = NoAnswer
      BY <2>3, <2>4, <2>5 DEF BackendInv, Current, BackendTypes
    <3>2. call \in {"connect", "spawn"} \/ child = "running" => Fresh'
      <4> SUFFICES ASSUME call \in {"connect", "spawn"} \/ child = "running" PROVE Fresh'
        OBVIOUS
      <4>1. Fresh BY DEF BackendInv, Current
      <4>2. q # question BY <4>1 DEF Fresh
      <4> QED BY <2>1, <2>5, <4>1, <4>2 DEF Fresh, Waiting
    <3>3. child \in Answers => answers'[question] = child
      BY <1>1, <2>3, <2>5 DEF BackendInv, Current, Answers
    <3>4. CASE q = connection
      <4>1. q = question /\ call # "none"
        BY <1>1, <2>3, <3>4 DEF BackendInv, Current
      <4>2. replies' = replies \cup {IF d = "other" THEN Default ELSE Explicit(d)}
        BY <1>4, <3>4 DEF AuthdReplies, ConnectionOf
      <4>3. replies \subseteq {Default}
        BY <1>1, <2>3, <4>1 DEF BackendInv, Current, Answers
      <4>4. d # "other" => d \in Answers /\ answers'[question] = d
        BY <2>2, <2>3, <4>1 DEF Statuses, BackendInv, BackendTypes
      <4> QED BY <2>1, <3>1, <3>2, <3>3, <4>1, <4>2, <4>3, <4>4 DEF BackendInv, Current
    <3>5. CASE q # connection
      <4>1. replies' = replies
        BY <1>4, <3>5 DEF AuthdReplies, ConnectionOf
      <4>2. ASSUME NEW e \in Answers, call # "none", answers[question] = e
            PROVE  answers'[question] = e
        BY <1>1, <2>3, <2>5, <4>2 DEF Answers
      <4>3. replies' \subseteq {Default} \cup
               {Explicit(e) : e \in {f \in Answers : call' # "none" /\ answers'[question] = f}}
        BY <2>1, <4>1, <4>2 DEF BackendInv, Current
      <4> QED BY <2>1, <3>1, <3>2, <3>3, <4>3 DEF BackendInv, Current
    <3> QED BY <3>4, <3>5
  <2> QED BY <2>4, <2>6, <2>7 DEF BackendInv
<1> QED BY <1>2, <1>3, <1>4 DEF UserActs, Statuses, Answers

LEMMA StepKeepsBackend == BackendInv /\ [Next]_vars => BackendInv'
<1> SUFFICES ASSUME BackendInv, [Next]_vars PROVE BackendInv' OBVIOUS
<1>1. ASSUME UNCHANGED backendVars PROVE BackendInv'
  BY <1>1 DEF backendVars, BackendInv, BackendTypes, WithAuthd, Waiting, Current, Fresh
<1>2. CASE Access \/ Inspection \/ QueuePrompt \/ DropPrompt \/ CheckHelper \/ World
  BY <1>1, <1>2 DEF Access, Inspection, QueuePrompt, DropPrompt, CheckHelper, World
<1>3. CASE CheckOwner BY <1>3, AskKeeps DEF CheckOwner
<1>4. CASE Backend
  <2>1. \/ Connect \/ WriteRequest \/ SpawnCommand
        \/ \E o : Return(o)
    BY <1>4 DEF Backend, BackendRuns, BackendFails, ReadReply, ReadTimesOut, PollCommand,
                KillCommand, AuthdFails, CommandFails
  <2> QED BY <2>1, CallKeeps, ReturnKeeps
<1>5. CASE Outside BY <1>5, CallKeeps, UserKeeps DEF Outside
<1>6. CASE UNCHANGED vars BY <1>1, <1>6 DEF vars
<1> QED BY <1>2, <1>3, <1>4, <1>5, <1>6 DEF Next

-----------------------------------------------------------------------------
LEMMA InitRefines == Init => Asked!Init
BY DEF Init, BackendInit, Asked!Init, asking

(* A call returns an explicit answer only if it is the user's to this very  *)
(* question.                                                                *)
LEMMA ReturnRefines ==
    ASSUME BackendInv, BackendRuns \/ BackendFails, ~(Connect \/ WriteRequest \/ SpawnCommand)
    PROVE  Asked!Returns
<1>1. NoAnswer \notin Nat \cup {"Allow", "Deny", "other", "running"}
  BY BackendAssumption
<1>2. PICK o : /\ Return(o) /\ call # "none"
               /\ \/ o \in {Default, Failure}
                  \/ o \in replies
                  \/ child \in Answers /\ o = Explicit(child)
  BY DEF BackendRuns, BackendFails, ReadReply, ReadTimesOut, PollCommand, KillCommand,
         AuthdFails, CommandFails, BackendInv, Current, Answers
<1>3. asking /\ ~asking' /\ outcome' = o /\ UNCHANGED <<question, answers>>
  BY <1>2 DEF Return, asking
<1>4. \/ o \in {Default, Failure}
      \/ answers[question] # NoAnswer /\ o = Explicit(answers[question])
  BY <1>1, <1>2 DEF BackendInv, Current, Answers
<1> QED BY <1>3, <1>4 DEF Asked!Returns, Asked!Default, Asked!Failure, Asked!Explicit,
                          Default, Failure, Explicit

LEMMA UserRefines ==
    ASSUME BackendInv, UserActs
    PROVE  \/ \E q \in 1..question, d \in Asked!Decisions : Asked!UserAnswers(q, d)
           \/ UNCHANGED <<question, asking, answers, outcome>>
<1>1. UNCHANGED <<question, asking, outcome>>
  BY DEF UserActs, AuthdAccepts, CommandExits, AuthdReplies, asking
<1>2. ASSUME NEW q \in 1..question, NEW d \in Statuses, UserAnswered(q, d),
             answers[q] = NoAnswer
      PROVE  \/ d \in Asked!Decisions /\ Asked!UserAnswers(q, d)
             \/ UNCHANGED answers
  BY <1>1, <1>2 DEF UserAnswered, Asked!UserAnswers, Asked!Decisions, Statuses, Answers
<1>3. ASSUME NEW d \in Statuses, NEW q \in shown, AuthdReplies(q, d)
      PROVE  q \in 1..question /\ UserAnswered(q, d) /\ answers[q] = NoAnswer
  <2>1. q \in 1..MaxQuestions /\ q <= question /\ answers[q] = NoAnswer
    BY DEF BackendInv, BackendTypes, WithAuthd
  <2> QED BY <1>3, <2>1 DEF AuthdReplies, BackendInv, BackendTypes
<1>4. ASSUME NEW d \in Statuses, CommandExits(d)
      PROVE  question \in 1..question /\ UserAnswered(question, d)
             /\ answers[question] = NoAnswer
  BY <1>4, BackendAssumption DEF CommandExits, BackendInv, Current, Fresh, BackendTypes
<1>5. CASE AuthdAccepts BY <1>1, <1>5 DEF AuthdAccepts
<1> QED BY <1>1, <1>2, <1>3, <1>4, <1>5 DEF UserActs, Statuses, Answers

LEMMA StepRefines ==
    BackendInv /\ [Next]_vars => [Asked!Next]_<<question, asking, answers, outcome>>
<1> SUFFICES ASSUME BackendInv, [Next]_vars
             PROVE  [Asked!Next]_<<question, asking, answers, outcome>>
  OBVIOUS
<1>1. CASE Access \/ Inspection \/ QueuePrompt \/ DropPrompt \/ CheckHelper \/ World
           \/ UNCHANGED vars
  BY <1>1 DEF Access, Inspection, QueuePrompt, DropPrompt, CheckHelper, World, vars,
              backendVars, asking
<1>2. CASE CheckOwner
  BY <1>2 DEF CheckOwner, Ask, Asked!Next, Asked!Ask, asking
<1>3. CASE Backend
  <2>1. CASE Connect \/ WriteRequest \/ SpawnCommand
    BY <2>1 DEF Connect, WriteRequest, SpawnCommand, asking
  <2>2. CASE ~(Connect \/ WriteRequest \/ SpawnCommand)
    BY <1>3, <2>2, ReturnRefines DEF Backend, Asked!Next
  <2> QED BY <2>1, <2>2
<1>4. CASE Outside
  <2>1. CASE TimePasses BY <2>1 DEF TimePasses, asking
  <2>2. CASE UserActs BY <2>2, UserRefines DEF Asked!Next
  <2> QED BY <1>4, <2>1, <2>2 DEF Outside
<1> QED BY <1>1, <1>2, <1>3, <1>4 DEF Next

(* authd and the prompt command both implement AskedQuestion: however late  *)
(* replies come, and whatever is given up meanwhile, an explicit answer is  *)
(* the user's answer to the very question that is being asked.              *)
THEOREM Refinement == Spec => IsAskedQuestion
<1>1. Init => BackendInv BY BackendInitially
<1>2. BackendInv /\ [Next]_vars => BackendInv' BY StepKeepsBackend
<1>3. Init => Asked!Init BY InitRefines
<1>4. BackendInv /\ [Next]_vars => [Asked!Next]_<<question, asking, answers, outcome>>
  BY StepRefines
<1> QED BY <1>1, <1>2, <1>3, <1>4, PTL DEF Spec, IsAskedQuestion, Asked!Spec
=============================================================================
