------------------------------ MODULE Reconcile ------------------------------
(****************************************************************************)
(* config-guard reconcile --apply (src/src/reconcile.rs, run_reconcile in   *)
(* main.rs): every directory in ~/.config that no rule of the policy covers *)
(* gets a rule, when a program of its name is installed, and is moved to    *)
(* the archive otherwise.                                                   *)
(****************************************************************************)
EXTENDS ConfigTree

CONSTANTS
    OwnerNames,   \* the program names an entry's name suggests, in order
    Installed,    \* the programs in PATH
    Stamped       \* an entry's name with the second of the run

ASSUME ReconcileAssumption == Stamped \in [Names -> Names]

VARIABLES
    run,      \* where the run is
    known,    \* the rules it has loaded, and whether there was a file
    entries,  \* the entries it has listed and not yet dealt with
    content,  \* the policy text about to be written
    began     \* history: the tree's changes when the entries were listed

reconcileVars == <<run, known, entries, content, began>>

ReconcileInit ==
    /\ run = "idle"
    /\ known = [rules |-> {}, path |-> FALSE]
    /\ entries = <<>> /\ content = policy /\ began = 0

ReconcileEnds(how) == run' = how /\ entries' = <<>> /\ content' = PolicyFile("missing", {})

(* Without a policy file everything is unconfigured; one that cannot be     *)
(* read ends the run.                                                       *)
BeginReconcile ==
    /\ policy.state # "broken"
    /\ known' = [rules |-> policy.rules, path |-> policy.state # "missing"]
    /\ run' = "list"
    /\ UNCHANGED <<treeVars, entries, content, began>>

ListEntries ==
    /\ run = "list"
    /\ entries' = SetToSeq({at[n] : n \in {m \in Nodes : Exists(m) /\ InDir(at[m], ConfigDir)}})
    /\ run' = "plan"
    /\ began' = changes
    /\ UNCHANGED <<treeVars, known, content>>

entry == Head(entries)
NameOf(p) == Last(p)

(* Variant: a rule for something below the entry does not count. *)
CoversWhole(rules, p) == \E r \in rules : Below(p, r)

Covers(rules, p) == \E r \in rules : Below(p, r) \/ Below(r, p)

AssociatedBinary(p) == \E o \in ToSet(OwnerNames[NameOf(p)]) : o \in Installed

Skipped == entry = Archive \/ ~IsDir(entry) \/ Covers(known.rules, entry)

KeepEntry ==
    /\ run = "plan" /\ entries # <<>> /\ Skipped
    /\ entries' = Tail(entries)
    /\ UNCHANGED <<treeVars, run, known, content, began>>

(* Variant: the rules the run has loaded are written back. *)
RulesLoaded == PolicyFile(policy.state, known.rules)

RulesRead == policy

(* append_owned_path reads the file and writes all of it again, in place.   *)
AssociateEntry ==
    /\ run = "plan" /\ entries # <<>> /\ ~Skipped /\ AssociatedBinary(entry)
    /\ known.path /\ policy.state # "missing"
    /\ content' = PolicyFile(RulesRead.state, RulesRead.rules \cup {entry})
    /\ policy' = PolicyFile("cut", {})
    /\ run' = "write"
    /\ UNCHANGED <<at, changes, known, entries, began>>

WritePolicy ==
    /\ run = "write"
    /\ policy' = content
    /\ entries' = Tail(entries)
    /\ content' = PolicyFile("missing", {})
    /\ run' = "plan"
    /\ UNCHANGED <<at, changes, known, began>>

ArchiveTarget(p) ==
    LET target == Append(Archive, NameOf(p))
    IN IF IsDir(target) THEN Append(Archive, Stamped[NameOf(p)]) ELSE target

(* The target's place, if the archive itself is a link. *)
Archived(p) == Append(Canonical(Archive), Last(ArchiveTarget(p)))

(* move_to_archive makes the archive if need be.  Nothing that is in the    *)
(* way is replaced, as no directory is empty here.  An entry is moved from  *)
(* its own place: links made above ~/.config during a run are left out.     *)
ArchiveEntry ==
    /\ run = "plan" /\ entries # <<>> /\ ~Skipped /\ ~AssociatedBinary(entry)
    /\ IsDir(Archive)
    /\ ~Occupied(Archived(entry)) /\ ~Below(Archived(entry), entry)
    /\ \E n \in Nodes : at[n] = entry /\ at' = Renamed(n, Archived(entry))
    /\ entries' = Tail(entries)
    /\ UNCHANGED <<changes, policy, run, known, content, began>>

MakeArchive ==
    /\ run = "plan" /\ entries # <<>> /\ ~Skipped /\ ~AssociatedBinary(entry)
    /\ Occupied(entry) /\ ~Occupied(Archive)
    /\ \E d \in Dirs : ~Exists(d) /\ at' = [at EXCEPT ![d] = Archive]
    /\ UNCHANGED <<changes, policy, reconcileVars>>

ReconcileDone ==
    /\ run = "plan" /\ entries = <<>>
    /\ ReconcileEnds("done")
    /\ UNCHANGED <<treeVars, known, began>>

(* A missing file, a target in the way, a write that fails, an interrupt:   *)
(* the rest of the run is given up, and a write may have ended early.       *)
ReconcileFails ==
    /\ run \in {"list", "plan", "write"}
    /\ IF run = "write" THEN policy' \in CutShort("cut", content.rules)
                        ELSE UNCHANGED policy
    /\ ReconcileEnds("failed")
    /\ UNCHANGED <<at, changes, known, began>>

ReconcileSteps ==
    \/ ListEntries \/ KeepEntry \/ AssociateEntry \/ WritePolicy \/ MakeArchive
    \/ ArchiveEntry \/ ReconcileDone \/ ReconcileFails
=============================================================================
