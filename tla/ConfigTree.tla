------------------------------ MODULE ConfigTree ------------------------------
(****************************************************************************)
(* What the parts of config-guard share on disk: the directories under the  *)
(* watched roots with the symbolic links among them, which other programs   *)
(* change at any time, and the policy file.  A path is the sequence of its  *)
(* names.                                                                   *)
(****************************************************************************)
EXTENDS Naturals, FiniteSets, SequencesExt

CONSTANTS
    Names,            \* of files
    Dirs, Links,      \* directories, and symbolic links to directories
    Target,           \* the path each link names
    FirstAt,          \* where each is at first, Gone if it is yet to be made
    Spots,            \* where other programs may put each, Gone for removal
    ConfigDir,        \* ~/.config
    Archive,          \* ~/.config/archive
    Deployed,         \* the paths of the rules in the repository's policy
    Gone,
    MaxChanges        \* bound on what other programs do

Nodes == Dirs \cup Links
Paths == Seq(Names)
FilePaths == Paths \ {<<>>}

Below(p, q) == IsPrefix(q, p)
InDir(p, q) == Below(p, q) /\ Len(p) = Len(q) + 1

(* Every file has a place of its own, in a directory. *)
IsTree(places) ==
    \A n \in Nodes : places[n] # Gone =>
        /\ Len(places[n]) = 1 \/ \E d \in Dirs : places[d] = Front(places[n])
        /\ \A m \in Nodes : places[m] = places[n] => m = n

ASSUME TreeAssumption ==
    /\ IsFiniteSet(Nodes) /\ Dirs \cap Links = {}
    /\ Gone \notin Paths
    /\ Target \in [Links -> FilePaths]
    /\ FirstAt \in [Nodes -> {Gone} \cup FilePaths] /\ IsTree(FirstAt)
    /\ Spots \in [Nodes -> SUBSET ({Gone} \cup FilePaths)]
    /\ {ConfigDir, Archive} \cup Deployed \subseteq Paths
    /\ InDir(Archive, ConfigDir)
    /\ MaxChanges \in Nat

(* No link leads to ~/.config, above it or into it: some of the proofs are  *)
(* about such homes only.                                                   *)
LinksElsewhere ==
    \A l \in Links : ~Below(Target[l], ConfigDir) /\ ~Below(ConfigDir, Target[l])

VARIABLES
    at,       \* the path of each directory and link
    changes,  \* how often other programs have changed the tree
    policy    \* the policy file, by the paths of its rules

treeVars == <<at, changes, policy>>

(* A file cut short reads as a policy with fewer rules, down to none for an *)
(* empty file, or not at all ("broken").                                    *)
FileStates == {"whole", "cut", "installing", "broken", "missing"}
PolicyFile(state, rules) == [state |-> state, rules |-> rules]
Readable(f) == f.state \notin {"broken", "missing"}

(* What a write of these rules that ends early may leave behind. *)
CutShort(state, rules) ==
    {PolicyFile(state, r) : r \in SUBSET rules} \cup {PolicyFile("broken", {})}

TreeInit ==
    /\ at = FirstAt
    /\ changes = 0
    /\ policy = PolicyFile("whole", Deployed)

-----------------------------------------------------------------------------
Exists(n) == at[n] # Gone

Occupied(p) == \E n \in Nodes : at[n] = p

(* The path without symbolic links: links lead to directories, not links.   *)
Canonical(p) ==
    LET through == {l \in Links : Exists(l) /\ Below(p, at[l])}
    IN IF through = {} THEN p ELSE
       LET l == CHOOSE l \in through : TRUE
       IN Target[l] \o SubSeq(p, Len(at[l]) + 1, Len(p))

IsDir(p) == \E d \in Dirs : at[d] = Canonical(p)
DirAt(p) == CHOOSE d \in Dirs : at[d] = Canonical(p)

(* The tree after n, with all that is below it, was renamed to p. *)
Renamed(n, p) ==
    [m \in Nodes |-> IF Exists(m) /\ Below(at[m], at[n])
                     THEN p \o SubSeq(at[m], Len(at[n]) + 1, Len(at[m]))
                     ELSE at[m]]

(* Another program makes, renames or removes a directory or a link. *)
Change(n, p) ==
    /\ changes < MaxChanges
    /\ p \in Spots[n] /\ p # at[n]
    /\ IF p = Gone
       THEN \A m \in Nodes \ {n} : Exists(m) => ~Below(at[m], at[n])
       ELSE /\ ~Occupied(p)
            /\ Len(p) = 1 \/ \E d \in Dirs : at[d] = Front(p)
            /\ Exists(n) => ~Below(p, at[n])
    /\ at' = IF Exists(n) /\ p # Gone THEN Renamed(n, p) ELSE [at EXCEPT ![n] = p]
    /\ changes' = changes + 1
    /\ UNCHANGED policy
=============================================================================
