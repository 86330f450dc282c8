-------------------------------- MODULE Usage -------------------------------
(***************************************************************************)
(* usage.rs: measure_usage, run by another process (main.rs:128) on the    *)
(* workspaces of a metadata file, one root after the other. A root is      *)
(* walked one system call at a time, a directory given entry by entry,     *)
(* while sessions and purges change what is there.                         *)
(***************************************************************************)
EXTENDS Naturals

CONSTANTS
  Workspaces, \* how many the metadata has that was loaded
  Paths,      \* the root that is walked, and what there can be below it
  Root,
  In,         \* of every path but Root, the path of the directory it is in
  Above,      \* of every path, In of it, In of that, and so on
  Unreadable, \* what is at these, or below, the walker may be refused
  Probes      \* which of "path" and "btrfs" are used

Upto(p) == Above[p] \cup {p}
Inside(p) == {n \in Paths \ {Root} : In[n] = p}

ASSUME UsageAssumption ==
  /\ Workspaces \in Nat \ {0}
  /\ Root \in Paths
  /\ In \in [Paths \ {Root} -> Paths]
  /\ Above \in [Paths -> SUBSET Paths]
  /\ Above[Root] = {}
  /\ \A n \in Paths \ {Root} : Above[n] = Upto(In[n]) /\ n \notin Above[n]
  /\ \A S \in SUBSET Paths : \* every path is somewhere below the root
       Root \in S /\ (\A p \in S : Inside(p) \subseteq S) => S = Paths
  /\ Unreadable \subseteq Paths
  /\ Probes \subseteq {"path", "btrfs"}

\* A "file" is all that is neither a directory nor a link.
Kinds == {"absent", "dir", "file", "link"}

\* What exists is in a directory. Storage makes a root a subvolume.
Trees ==
  {t \in [Paths -> Kinds] :
     /\ t[Root] \in {"absent", "dir"}
     /\ \A n \in Paths \ {Root} : t[n] # "absent" => t[In[n]] = "dir"}

VARIABLES
  probe,   \* the UsageProbe measure_usage is called with
  phase,   \* "walking"; "reported"; "failed"
  rows,    \* how many workspaces have their WorkspaceUsage
  tree,    \* what is at the paths of the present root
  life,    \* history: what became of each of them during its walk
  here,    \* the path of the innermost directory_size
  call,    \* its next system call; "done" when the outermost has returned
  at,      \* of a path whose ReadDir is open, what that lists
  kept,    \* entries to be given by them: there since the directory was opened
  gone,    \* ... removed since: given or not
  made,    \* ... made since: given or not
  counted, \* the paths whose len() was added
  again    \* ... more than once

walk == <<here, call, at, kept, gone, made, counted, again>>
vars == <<probe, phase, rows, tree, life, walk>>

Lives == {"never", "stayed", "came", "went", "changed"}

\* Which directory a ReadDir lists: the one at its path, one that was there, or
\* one that a link leads to.
Places == {"closed", "here", "away", "elsewhere"}

\* The directories on the way to the call.
Opened ==
  CASE call = "done" -> {}
    [] call = "next" -> Upto(here)
    [] OTHER         -> Above[here]

Init ==
  /\ probe \in Probes
  /\ phase = "walking"
  /\ rows = 0
  /\ tree \in Trees
  /\ life = [n \in Paths |-> IF tree[n] = "absent" THEN "never" ELSE "stayed"]
  /\ here = Root /\ call = "stat"
  /\ at = [p \in Paths |-> "closed"]
  /\ kept = {} /\ gone = {} /\ made = {}
  /\ counted = {} /\ again = {}

-----------------------------------------------------------------------------
(* The walk.                                                               *)

Calls(c) ==
  /\ phase = "walking"
  /\ call = c
  /\ UNCHANGED <<probe, rows, tree, life>>

Anything == Kinds \cup {"error"}

\* What a system call finds at p. A link on the way to it leads anywhere, a file
\* on the way is an error (ENOTDIR).
Look(p) ==
  IF \E q \in Above[p] : tree[q] = "link" THEN Anything
  ELSE IF \E q \in Above[p] : tree[q] = "file" THEN {"error"}
  ELSE {tree[p]} \cup {e \in {"error"} :
                         \E q \in Upto(p) \cap Unreadable : tree[q] # "absent"}

\* read_dir follows a link that is at p itself, symlink_metadata does not.
Follow(p) == IF tree[p] = "link" THEN Anything ELSE Look(p)

\* Mutated: the directories on the way stay open.
NotFoundLeavingOpen ==
  /\ call' = "done" /\ here' = Root
  /\ counted' = {} /\ again' = {}
  /\ UNCHANGED <<phase, at, kept, gone, made>>

\* The error goes up through the recursion, which closes what it had opened;
\* measure_usage makes a zero of it.
NotFound ==
  /\ call' = "done" /\ here' = Root
  /\ at' = [p \in Paths |-> "closed"]
  /\ kept' = {} /\ gone' = {} /\ made' = {}
  /\ counted' = {} /\ again' = {}
  /\ UNCHANGED phase

\* Any other error is the report's.
Failed == phase' = "failed" /\ UNCHANGED walk

Add ==
  /\ counted' = counted \cup {here}
  /\ again' = again \cup (counted \cap {here})

\* directory_size(here) returns to the loop of the directory it is in.
Return ==
  \/ here = Root /\ call' = "done" /\ UNCHANGED here
  \/ here # Root /\ call' = "next" /\ here' = In[here]

\* Mutated: a link is asked for what it leads to.
IsDirFollowing(found) == found \in {"dir", "link"}

IsDir(found) == found = "dir"

\* symlink_metadata(path)
Stat ==
  /\ Calls("stat")
  /\ \E found \in Look(here) :
       \/ found = "absent" /\ NotFound
       \/ found = "error" /\ Failed
       \/ /\ found \notin {"absent", "error"}
          /\ Add
          /\ \/ IsDir(found) /\ call' = "open" /\ UNCHANGED here
             \/ ~IsDir(found) /\ Return
          /\ UNCHANGED <<phase, at, kept, gone, made>>

Open ==
  /\ call' = "next"
  /\ \/ /\ \E p \in Upto(here) : tree[p] = "link"
        /\ at' = [at EXCEPT ![here] = "elsewhere"]
        /\ made' = made \cup Inside(here)
        /\ UNCHANGED kept
     \/ /\ \A p \in Upto(here) : tree[p] # "link"
        /\ at' = [at EXCEPT ![here] = "here"]
        /\ kept' = kept \cup {n \in Inside(here) : tree[n] # "absent"}
        /\ UNCHANGED made
  /\ UNCHANGED <<phase, here, gone, counted, again>>

\* read_dir(path)
ReadDir ==
  /\ Calls("open")
  /\ \E found \in Follow(here) :
       \/ found = "dir" /\ Open
       \/ found = "absent" /\ NotFound
       \/ found \notin {"dir", "absent"} /\ Failed

\* Mutated: the directory is read from its beginning for every entry.
TakeAgain(n) == n \in kept \cup gone \cup made /\ UNCHANGED <<kept, gone, made>>

\* One of the entries of path n is given.
Take(n) ==
  \/ n \in kept /\ kept' = kept \ {n} /\ UNCHANGED <<gone, made>>
  \/ n \in gone /\ gone' = gone \ {n} /\ UNCHANGED <<kept, made>>
  \/ n \in made /\ made' = made \ {n} /\ UNCHANGED <<kept, gone>>

\* The end of a directory: no entry that was always there is passed over.
Close ==
  /\ kept \cap Inside(here) = {}
  /\ Return
  /\ at' = [at EXCEPT ![here] = "closed"]
  /\ gone' = gone \ Inside(here) /\ made' = made \ Inside(here)
  /\ UNCHANGED <<phase, kept, counted, again>>

\* entry?, of which directory_size is called
NextEntry ==
  /\ Calls("next")
  /\ \/ /\ \E n \in Inside(here) : Take(n) /\ here' = n
        /\ call' = "stat"
        /\ UNCHANGED <<phase, at, counted, again>>
     \/ Close
     \/ (here \in Unreadable \/ at[here] = "elsewhere") /\ Failed

\* Mutated: a root that is gone fails either probe.
RetainedKnownStrictly == tree[Root] # "absent"

\* probe.retained_bytes(root_path): PathUsageProbe has none to give, whereas
\* `btrfs qgroup show' fails for a path that is not there.
RetainedKnown == probe = "path" \/ tree[Root] # "absent"

\* The row of a workspace, and the beginning of the next.
Row ==
  /\ phase = "walking" /\ call = "done"
  /\ RetainedKnown
  /\ rows' = rows + 1
  /\ \/ rows' = Workspaces /\ phase' = "reported" /\ UNCHANGED <<tree, life, call>>
     \/ /\ rows' # Workspaces
        /\ tree' \in Trees
        /\ life' = [n \in Paths |-> IF tree'[n] = "absent" THEN "never" ELSE "stayed"]
        /\ call' = "stat"
        /\ UNCHANGED phase
  /\ counted' = {} /\ again' = {}
  /\ UNCHANGED <<probe, here, at, kept, gone, made>>

Fail ==
  /\ Calls("done")
  /\ ~RetainedKnown
  /\ Failed

Walker == Stat \/ ReadDir \/ NextEntry \/ Row \/ Fail

-----------------------------------------------------------------------------
(* Sessions and the control plane, in other processes.                     *)

\* The history of a path with a life of l, when something replaces what is there.
After(l, before, after) ==
  CASE before = "absent" /\ after = "absent" -> l
    [] before = "absent" /\ after # "absent" /\ l = "never" -> "came"
    [] before # "absent" /\ after = "absent" /\ l = "stayed" -> "went"
    [] OTHER -> "changed"

\* Something takes the place of what is at n and below: a file or a link is
\* made, removed or replaced, a directory is made, renamed, exchanged or, when
\* it is a root, purged.
Change(n) ==
  LET Below(m)  == n \in Upto(m)
      Listed(m) == m # Root /\ at[In[m]] = "here"
      lost      == {m \in kept \cup made : Below(m) /\ Listed(m)}
  IN  /\ phase = "walking"
      /\ n # Root => tree[In[n]] = "dir"
      /\ \E t \in Trees :
           /\ tree[n] # "absent" \/ t[n] # "absent"
           /\ \A m \in Paths : ~Below(m) => t[m] = tree[m]
           /\ tree' = t
           /\ life' = [m \in Paths |-> IF Below(m) THEN After(life[m], tree[m], t[m])
                                                   ELSE life[m]]
           /\ made' = (made \ lost) \cup {m \in {n} : Listed(m) /\ t[m] # "absent"}
      /\ kept' = kept \ lost
      /\ gone' = gone \cup lost
      /\ at' = [p \in Paths |-> IF Below(p) /\ at[p] = "here" THEN "away" ELSE at[p]]
      /\ UNCHANGED <<probe, phase, rows, here, call, counted, again>>

\* A directory that is read, and is not or no longer below the root, is written.
Elsewhere ==
  /\ phase = "walking"
  /\ \E n \in Paths \ {Root} :
       /\ at[In[n]] \in {"away", "elsewhere"}
       /\ made' = made \cup {n}
  /\ UNCHANGED <<probe, phase, rows, tree, life, here, call, at, kept, gone, counted, again>>

Others == (\E n \in Paths : Change(n)) \/ Elsewhere

\* The process exits.
Ended == phase # "walking" /\ UNCHANGED vars

Next == Walker \/ Others \/ Ended

Spec == Init /\ [][Next]_vars

\* The process that walks is scheduled and its system calls return.
FairSpec == Spec /\ WF_vars(Walker)

-----------------------------------------------------------------------------
(* Properties.                                                             *)

\* The entries to be given are of directories that are open, which are those on
\* the way to the call.
TypeOK ==
  /\ probe \in Probes
  /\ phase \in {"walking", "reported", "failed"}
  /\ rows \in 0..Workspaces
  /\ rows = Workspaces <=> phase = "reported"
  /\ tree \in Trees
  /\ life \in [Paths -> Lives]
  /\ here \in Paths
  /\ call \in {"stat", "open", "next", "done"}
  /\ call = "done" => here = Root
  /\ at \in [Paths -> Places]
  /\ {p \in Paths : at[p] # "closed"} = Opened
  /\ kept \cup gone \cup made \subseteq UNION {Inside(p) : p \in Opened}
  /\ counted \subseteq Paths
  /\ again \subseteq counted

Steady(n) == \A p \in Upto(n) : life[p] = "stayed"
Clear(n) == \A p \in Upto(n) : life[p] # "changed"
Vanished == life[Root] # "stayed" \/ \E n \in Paths : life[n] \in {"went", "changed"}

\* A root is charged once for each path that stayed, whatever is done to the
\* others between two calls; and not for one that was never there, nor twice for
\* one that came or went, unless it, or a directory above it, was replaced or
\* made again. Only a walk that met a path that vanished may charge nothing, and
\* it charges nothing at all (usage.rs:58).
ChargedForWhatIsThere ==
  phase = "walking" /\ call = "done" =>
    \/ counted = {} /\ Vanished
    \/ \A n \in Paths :
         /\ Steady(n) => n \in counted
         /\ Clear(n) => n \notin again /\ (n \in counted => life[n] # "never")

\* A report fails (usage.rs:59, 61) only for what was replaced under the walk,
\* for what the walker is refused or, with btrfs, for a root that is not there.
\* Paths that come and go, and roots that are purged, do not fail the report of
\* the command line (main.rs:141).
FailsForAReason ==
  phase = "failed" =>
    \/ probe = "btrfs" /\ tree[Root] = "absent"
    \/ \E n \in Paths : life[n] = "changed"
    \/ \E n \in Unreadable : life[n] # "never"

\* The report comes to an end, unless the roots are changed for ever: a directory
\* that is fed can keep a walk from ending.
ReportsAreMade == []<><<Others>>_vars \/ <>(phase # "walking")
=============================================================================
