----------------------------- MODULE UsageProofs -----------------------------
(***************************************************************************)
(* Theorems about the walks of measure_usage, for any number of workspaces, *)
(* any tree of paths, and any order of the calls, the entries that are      *)
(* given and the changes.                                                  *)
(***************************************************************************)
EXTENDS Usage, TLAPS

-----------------------------------------------------------------------------
(* The inductive invariant.                                                *)

\* What is at a path fits its history.
LifeFits ==
  \A n \in Paths :
    /\ life[n] \in {"never", "went"} => tree[n] = "absent"
    /\ life[n] \in {"stayed", "came"} => tree[n] # "absent"

\* The directories that symlink_metadata was called for, and that are not read
\* to their end.
Visited == Opened \cup {p \in {here} : call = "open"}

\* They were directories when they were counted.
VisitedOnce ==
  \A p \in Visited :
    /\ p \in counted
    /\ Clear(p) => life[p] # "never" /\ tree[p] \in {"absent", "dir"}

\* What a ReadDir lists is the directory at its path, unless that was changed.
StreamsFit ==
  \A p \in Paths :
    /\ at[p] = "here" => tree[p] = "dir"
    /\ at[p] = "away" => (Clear(p) => life[p] = "went")
    /\ at[p] = "elsewhere" => ~Clear(p)

\* The directory n is in was moved away or removed.
Cut(n) == n # Root /\ life[In[n]] = "went"

\* The entries fit what became of their paths.
EntriesFit ==
  \A n \in Paths :
    /\ n \in kept => at[In[n]] = "here"
    /\ Clear(n) =>
         /\ n \in kept => life[n] \in {"stayed", "came"}
         /\ n \in gone => life[n] = "went" \/ Cut(n)
         /\ n \in made => life[n] = "came" \/ Cut(n)

AtStat(n) == call = "stat" /\ here = n

\* A path that exists and was not replaced is given, looked at and counted once.
OnceOnly ==
  \A n \in Paths : Clear(n) =>
    /\ n \notin again
    /\ n \in counted => life[n] # "never"
    /\ AtStat(n) /\ life[n] = "never" => n = Root \/ Cut(n)
    /\ tree[n] # "absent" => /\ ~(n \in counted /\ AtStat(n))
                             /\ n \in kept \cup made => n \notin counted /\ ~AtStat(n)
                             /\ ~(n \in kept /\ n \in made)

Opening(p) == call = "open" /\ here = p

\* Its directory was counted, and opened, before it was.
InOrder ==
  \A n \in Paths \ {Root} :
    Clear(n) /\ n \in counted => In[n] \in counted /\ ~Opening(In[n])

Abandoned == call = "done" /\ counted = {}

\* A path that stayed is counted, or it still will be.
NonePassedOver ==
  Abandoned \/
  \A n \in Paths : Steady(n) =>
    \/ n \in counted
    \/ AtStat(n)
    \/ n # Root /\ (n \in kept \/ In[n] \notin counted \/ Opening(In[n]))

AbandonedForAReason == Abandoned => Vanished

Walking ==
  /\ LifeFits
  /\ VisitedOnce
  /\ StreamsFit
  /\ EntriesFit
  /\ OnceOnly
  /\ InOrder
  /\ NonePassedOver
  /\ AbandonedForAReason

Inv == TypeOK /\ FailsForAReason /\ (phase = "walking" => Walking)

-----------------------------------------------------------------------------
(* Paths.                                                                  *)

(* What holds of the root, and of a path when it holds of the directory it *)
(* is in, holds of every path.                                             *)
LEMMA TreeInduction ==
  ASSUME NEW S \in SUBSET Paths, Root \in S,
         \A n \in Paths \ {Root} : In[n] \in S => n \in S
  PROVE  S = Paths
PROOF
  <1>1. \A p \in S : Inside(p) \subseteq S
    BY DEF Inside
  <1> QED
    BY <1>1, UsageAssumption

(* A path, what is above it, and what is above that.                       *)
LEMMA UptoFacts ==
  /\ Root \in Paths /\ Upto(Root) = {Root}
  /\ \A p \in Paths : p \in Upto(p) /\ Above[p] \subseteq Upto(p) /\ Upto(p) \subseteq Paths
  /\ \A n \in Paths \ {Root} :
       /\ In[n] \in Paths
       /\ Above[n] = Upto(In[n])
       /\ Upto(n) = Upto(In[n]) \cup {n}
       /\ n \notin Upto(In[n])
  /\ \A p \in Paths : \A q \in Upto(p) : Upto(q) \subseteq Upto(p)
PROOF
  <1>1. Root \in Paths /\ Upto(Root) = {Root}
    BY UsageAssumption DEF Upto
  <1>2. \A p \in Paths : p \in Upto(p) /\ Above[p] \subseteq Upto(p) /\ Upto(p) \subseteq Paths
    BY UsageAssumption DEF Upto
  <1>3. \A n \in Paths \ {Root} :
          /\ In[n] \in Paths
          /\ Above[n] = Upto(In[n])
          /\ Upto(n) = Upto(In[n]) \cup {n}
          /\ n \notin Upto(In[n])
    <2>1. \A n \in Paths \ {Root} :
            /\ In[n] \in Paths
            /\ Above[n] = Upto(In[n])
            /\ n \notin Above[n]
      BY UsageAssumption
    <2>2. \A n \in Paths : Upto(n) = Above[n] \cup {n}
      BY DEF Upto
    <2> QED
      BY <2>1, <2>2
  <1>4. \A p \in Paths : \A q \in Upto(p) : Upto(q) \subseteq Upto(p)
    <2> DEFINE S == {p \in Paths : \A q \in Upto(p) : Upto(q) \subseteq Upto(p)}
    <2>1. Root \in S
      BY <1>1
    <2>2. ASSUME NEW n \in Paths \ {Root}, In[n] \in S
          PROVE  n \in S
      BY <1>3, <2>2
    <2>3. S \in SUBSET Paths
      OBVIOUS
    <2> HIDE DEF S
    <2>4. S = Paths
      BY <2>1, <2>2, <2>3, TreeInduction
    <2> QED
      BY <2>4 DEF S
  <1> QED
    BY <1>1, <1>2, <1>3, <1>4

(* What is below n, but for n itself, is in a directory that is below n.   *)
LEMMA BelowFacts ==
  ASSUME NEW n \in Paths
  PROVE  /\ \A m \in Paths \ {Root} : n \in Upto(m) /\ m # n => n \in Upto(In[m])
         /\ \A m \in Paths \ {Root} : n \in Upto(In[m]) => n \in Upto(m)
         /\ n # Root => n \notin Upto(In[n])
PROOF
  BY UptoFacts

(* A path is clear when nothing on the way to it, and itself, was replaced. *)
LEMMA ClearFacts ==
  /\ \A n \in Paths : Clear(n) => \A q \in Upto(n) : Clear(q) /\ life[q] # "changed"
  /\ \A n \in Paths : Clear(n) => life[n] # "changed"
  /\ \A n \in Paths \ {Root} : Clear(n) => Clear(In[n])
  /\ \A n \in Paths : Steady(n) => Clear(n) /\ life[n] = "stayed"
  /\ \A n \in Paths \ {Root} : Steady(n) => Steady(In[n])
  /\ \A n \in Paths : ~Clear(n) => \E q \in Upto(n) : life[q] = "changed"
PROOF
  BY UptoFacts DEF Clear, Steady

(* The trees, and the paths that are nowhere in them.                      *)
LEMMA TreeFacts ==
  ASSUME NEW t \in Trees
  PROVE  /\ \A n \in Paths : t[n] \in Kinds
         /\ t[Root] \in {"absent", "dir"}
         /\ \A n \in Paths \ {Root} : t[n] # "absent" => t[In[n]] = "dir"
PROOF
  BY DEF Trees

(* What is open is on the way to the call.                                 *)
LEMMA OpenedFacts ==
  ASSUME TypeOK
  PROVE  /\ Opened \subseteq Paths
         /\ call = "done" => Opened = {}
         /\ call = "next" => Opened = Upto(here)
         /\ call \in {"stat", "open"} => Opened = Above[here]
         /\ \A p \in Paths : p \in Opened <=> at[p] # "closed"
         /\ \A n \in kept \cup gone \cup made : n \in Paths \ {Root} /\ In[n] \in Opened
PROOF
  <1>1. here \in Paths /\ call \in {"stat", "open", "next", "done"}
    BY DEF TypeOK
  <1>2. Opened \subseteq Paths
    BY <1>1, UptoFacts DEF Opened
  <1>3. /\ call = "done" => Opened = {}
        /\ call = "next" => Opened = Upto(here)
        /\ call \in {"stat", "open"} => Opened = Above[here]
    BY DEF Opened
  <1>4. \A p \in Paths : p \in Opened <=> at[p] # "closed"
    BY <1>2 DEF TypeOK
  <1>5. \A n \in kept \cup gone \cup made : n \in Paths \ {Root} /\ In[n] \in Opened
    BY DEF TypeOK, Inside
  <1> QED
    BY <1>2, <1>3, <1>4, <1>5

(* What was visited is on the way to the call.                             *)
LEMMA VisitedFacts ==
  ASSUME TypeOK
  PROVE  /\ Visited \subseteq Paths
         /\ call = "stat" => Visited = Above[here]
         /\ call = "open" => Visited = Upto(here) /\ here \notin Opened
         /\ call = "next" => Visited = Upto(here)
         /\ call = "done" => Visited = {}
PROOF
  <1>1. Upto(here) = Above[here] \cup {here}
    BY DEF Upto
  <1>2. here \notin Above[here]
    BY UptoFacts, UsageAssumption DEF TypeOK
  <1> QED
    BY <1>1, <1>2, OpenedFacts, UptoFacts DEF Visited, TypeOK

-----------------------------------------------------------------------------
(* What the system calls find.                                             *)

\* What can fail the walk of a root.
Reason ==
  \/ \E n \in Paths : life[n] = "changed"
  \/ \E n \in Unreadable : life[n] # "never"

(* What was changed is a reason to fail, and vanished.                     *)
LEMMA ChangedFacts ==
  ASSUME NEW p \in Paths, ~Clear(p)
  PROVE  Reason /\ Vanished
PROOF
  BY ClearFacts, UptoFacts DEF Reason, Vanished

(* A link or a file on the way was changed: it was a directory.            *)
LEMMA ReplacedFacts ==
  ASSUME TypeOK, VisitedOnce, NEW q \in Visited, tree[q] \in {"link", "file"}
  PROVE  q \in Paths /\ ~Clear(q)
PROOF
  BY VisitedFacts DEF VisitedOnce

(* A path that is refused was there.                                       *)
LEMMA RefusedFacts ==
  ASSUME TypeOK, LifeFits, NEW q \in Unreadable, tree[q] # "absent"
  PROVE  Reason
PROOF
  BY UsageAssumption DEF Reason, LifeFits

(* symlink_metadata finds what is there, unless the way to it was changed; *)
(* what it does not find vanished, and it fails for a reason.              *)
LEMMA StatFinds ==
  ASSUME TypeOK, Walking, call = "stat", NEW found \in Look(here)
  PROVE  /\ found \in Anything
         /\ found = "absent" => Vanished
         /\ found = "error" => Reason
         /\ Clear(here) /\ found # "error" => found = tree[here]
PROOF
  <1>1. here \in Paths /\ Visited = Above[here] /\ tree \in Trees
    BY VisitedFacts DEF TypeOK
  <1>2. CASE \E q \in Above[here] : tree[q] \in {"link", "file"}
    <2>1. PICK q \in Above[here] : tree[q] \in {"link", "file"}
      BY <1>2
    <2>2. q \in Paths /\ ~Clear(q)
      BY <1>1, <2>1, ReplacedFacts DEF Walking
    <2>3. ~Clear(here)
      BY <1>1, <2>1, <2>2, ClearFacts, UptoFacts
    <2>4. found \in Anything
      BY <1>2 DEF Look, Anything
    <2> QED
      BY <1>1, <2>2, <2>3, <2>4, ChangedFacts
  <1>3. CASE \A q \in Above[here] : tree[q] \notin {"link", "file"}
    <2>1. \/ found = tree[here]
          \/ found = "error" /\ \E q \in Upto(here) \cap Unreadable : tree[q] # "absent"
      BY <1>3 DEF Look
    <2>2. tree[here] \in Kinds
      BY <1>1, TreeFacts
    <2>3. found = "error" => Reason
      BY <2>1, <2>2, RefusedFacts DEF Walking, Kinds
    <2>4. tree[here] = "absent" => Vanished
      <3> SUFFICES ASSUME tree[here] = "absent" PROVE Vanished
        OBVIOUS
      <3>1. CASE ~Clear(here)
        BY <1>1, <3>1, ChangedFacts
      <3>2. CASE Clear(here)
        <4>1. life[here] \in {"never", "went"}
          BY <1>1, <3>2, ClearFacts DEF Walking, LifeFits, TypeOK, Lives
        <4>2. life[here] = "never" => here = Root \/ (here # Root /\ life[In[here]] = "went")
          BY <1>1, <3>2 DEF Walking, OnceOnly, AtStat, Cut
        <4> QED
          BY <1>1, <4>1, <4>2, UptoFacts DEF Vanished
      <3> QED
        BY <3>1, <3>2
    <2> QED
      BY <2>1, <2>2, <2>3, <2>4 DEF Anything
  <1> QED
    BY <1>2, <1>3

(* read_dir opens the directory that is there, unless the way to it was    *)
(* changed; what it does not find vanished, and it fails for a reason.     *)
LEMMA ReadDirFinds ==
  ASSUME TypeOK, Walking, call = "open", NEW found \in Follow(here)
  PROVE  /\ found = "absent" => Vanished
         /\ found \notin {"dir", "absent"} => Reason
         /\ (\E q \in Upto(here) : tree[q] = "link") => ~Clear(here)
         /\ found = "dir" /\ (\A q \in Upto(here) : tree[q] # "link") => tree[here] = "dir"
PROOF
  <1>1. here \in Paths /\ Visited = Upto(here) /\ tree \in Trees
    BY VisitedFacts DEF TypeOK
  <1>2. Upto(here) = Above[here] \cup {here}
    BY DEF Upto
  <1>3. (\E q \in Upto(here) : tree[q] \in {"link", "file"}) => ~Clear(here)
    BY <1>1, ReplacedFacts, ClearFacts DEF Walking
  <1>4. CASE \E q \in Upto(here) : tree[q] \in {"link", "file"}
    <2>1. Reason /\ Vanished /\ ~Clear(here)
      BY <1>1, <1>3, <1>4, ChangedFacts
    <2>2. ASSUME found = "dir", \A q \in Upto(here) : tree[q] # "link"
          PROVE  tree[here] = "dir"
      BY <1>2, <2>2 DEF Look, Follow
    <2> QED
      BY <2>1, <2>2
  <1>5. CASE \A q \in Upto(here) : tree[q] \notin {"link", "file"}
    <2>1. \/ found = tree[here]
          \/ found = "error" /\ \E q \in Upto(here) \cap Unreadable : tree[q] # "absent"
      BY <1>2, <1>5 DEF Look, Follow
    <2>2. tree[here] \in {"absent", "dir"}
      BY <1>1, <1>2, <1>5, TreeFacts DEF Kinds
    <2>3. found = "error" => Reason
      BY <2>1, <2>2, RefusedFacts DEF Walking
    <2>4. found = "absent" => Vanished
      <3> SUFFICES ASSUME tree[here] = "absent" PROVE Vanished
        BY <2>1
      <3>1. CASE ~Clear(here)
        BY <1>1, <3>1, ChangedFacts
      <3>2. CASE Clear(here)
        <4>1. life[here] = "went"
          BY <1>1, <1>2, <3>2, ClearFacts DEF Walking, LifeFits, VisitedOnce, TypeOK, Lives
        <4> QED
          BY <1>1, <4>1 DEF Vanished
      <3> QED
        BY <3>1, <3>2
    <2> QED
      BY <1>5, <2>1, <2>2, <2>3, <2>4
  <1> QED
    BY <1>4, <1>5

-----------------------------------------------------------------------------
(* The steps of the walk.                                                  *)

(* What was visited fits its history, and less of it, too.                 *)
LEMMA FewerVisited ==
  ASSUME TypeOK, VisitedOnce, UNCHANGED <<tree, life, counted>>, Visited' \subseteq Visited
  PROVE  VisitedOnce'
PROOF
  <1> SUFFICES ASSUME NEW p \in Visited'
               PROVE  /\ p \in counted'
                      /\ Clear(p)' => life'[p] # "never" /\ tree'[p] \in {"absent", "dir"}
    BY DEF VisitedOnce
  <1>1. p \in Visited
    OBVIOUS
  <1>2. Clear(p)' <=> Clear(p)
    BY DEF Clear
  <1> QED
    BY <1>1, <1>2 DEF VisitedOnce

(* The walk changes nothing of what it looks at.                           *)
LEMMA Unchanged ==
  ASSUME UNCHANGED <<tree, life>>
  PROVE  /\ \A n \in Paths : Clear(n)' <=> Clear(n)
         /\ \A n \in Paths : Steady(n)' <=> Steady(n)
         /\ \A n \in Paths : Cut(n)' <=> Cut(n)
         /\ LifeFits' <=> LifeFits
         /\ Vanished' <=> Vanished
PROOF
  BY DEF Clear, Steady, Cut, LifeFits, Vanished

(* When a path vanished, the walk is at its end and nothing is counted.    *)
LEMMA NotFoundStep ==
  ASSUME TypeOK, Walking, phase = "walking", UNCHANGED <<probe, rows, tree, life>>,
         NotFound, Vanished
  PROVE  TypeOK' /\ Walking'
PROOF
  <1>1. /\ call' = "done" /\ here' = Root /\ phase' = phase
        /\ at' = [p \in Paths |-> "closed"]
        /\ kept' = {} /\ gone' = {} /\ made' = {}
        /\ counted' = {} /\ again' = {}
    BY DEF NotFound
  <1>2. Opened' = {} /\ Visited' = {}
    BY <1>1 DEF Opened, Visited
  <1>3. TypeOK'
    BY <1>1, <1>2, UsageAssumption DEF TypeOK, Places
  <1>4. Vanished' /\ LifeFits'
    BY Unchanged DEF Walking
  <1>5. Abandoned'
    BY <1>1 DEF Abandoned
  <1>6. VisitedOnce' /\ StreamsFit' /\ EntriesFit' /\ InOrder'
    BY <1>1, <1>2 DEF VisitedOnce, StreamsFit, EntriesFit, InOrder
  <1>7. OnceOnly'
    BY <1>1 DEF OnceOnly, AtStat
  <1> QED
    BY <1>3, <1>4, <1>5, <1>6, <1>7 DEF Walking, NonePassedOver, AbandonedForAReason

(* Where the walk is when the size of a path, or of a directory, is known.  *)
LEMMA ReturnFacts ==
  ASSUME TypeOK, Return
  PROVE  /\ here' \in Paths
         /\ call' \in {"next", "done"}
         /\ call' = "done" => here' = Root
         /\ Opened' = Above[here]
         /\ Visited' = Above[here]
         /\ \A p \in Paths : ~Opening(p)' /\ ~AtStat(p)'
PROOF
  <1>1. CASE here = Root /\ call' = "done" /\ UNCHANGED here
    <2>1. Above[Root] = {}
      BY UsageAssumption
    <2> QED
      BY <1>1, <2>1, UptoFacts DEF Opened, Visited, Opening, AtStat, TypeOK
  <1>2. CASE here # Root /\ call' = "next" /\ here' = In[here]
    <2>1. In[here] \in Paths /\ Above[here] = Upto(In[here])
      BY <1>2, UptoFacts DEF TypeOK
    <2>2. Upto(here)' = Upto(In[here])
      BY <1>2 DEF Upto
    <2> QED
      BY <1>2, <2>1, <2>2 DEF Opened, Visited, Opening, AtStat
  <1> QED
    BY <1>1, <1>2 DEF Return

(* What symlink_metadata finds is added; a directory is opened next.       *)
LEMMA AddStep ==
  ASSUME TypeOK, Walking, phase = "walking", call = "stat", Add,
         UNCHANGED <<probe, rows, tree, life, phase, at, kept, gone, made>>,
         NEW found \in Look(here), found \notin {"absent", "error"},
         \/ IsDir(found) /\ call' = "open" /\ UNCHANGED here
         \/ ~IsDir(found) /\ Return
  PROVE  TypeOK' /\ Walking'
PROOF
  <1>1. /\ here \in Paths /\ Opened = Above[here] /\ Visited = Above[here]
        /\ Above[here] \subseteq Paths
    BY OpenedFacts, VisitedFacts DEF TypeOK
  <1>2. \/ /\ call' = "open" /\ here' = here /\ found = "dir"
        \/ Return /\ found # "dir"
    BY DEF IsDir
  <1>3. /\ here' \in Paths
        /\ call' \in {"open", "next", "done"}
        /\ call' = "done" => here' = Root
        /\ Opened' = Opened
        /\ Visited' \subseteq Upto(here)
        /\ here \in Visited' => found = "dir"
        /\ \A p \in Paths : ~AtStat(p)'
        /\ \A p \in Paths : Opening(p)' <=> (p = here /\ found = "dir")
    <2>1. Upto(here) = Above[here] \cup {here} /\ here \notin Above[here]
      BY <1>1, UptoFacts, UsageAssumption DEF Upto
    <2>2. CASE call' = "open" /\ here' = here /\ found = "dir"
      <3>1. Opened' = Above[here]
        BY <2>2 DEF Opened
      <3>2. Visited' = Opened' \cup {here}
        BY <2>2 DEF Visited
      <3> QED
        BY <1>1, <2>1, <2>2, <3>1, <3>2 DEF AtStat, Opening
    <2>3. CASE Return /\ found # "dir"
      BY <1>1, <2>1, <2>3, ReturnFacts
    <2> QED
      BY <1>2, <2>2, <2>3
  <1>4. counted' = counted \cup {here} /\ again' = again \cup (counted \cap {here})
    BY DEF Add
  <1>5. TypeOK'
    BY <1>1, <1>3, <1>4 DEF TypeOK
  <1>6. Clear(here) => /\ found = tree[here] /\ tree[here] # "absent"
                       /\ life[here] # "never" /\ here \notin counted
                       /\ here \notin kept \cup made
    <2>1. Clear(here) => found = tree[here] /\ tree[here] # "absent"
      BY StatFinds
    <2>2. AtStat(here)
      BY DEF AtStat
    <2> QED
      BY <1>1, <2>1, <2>2 DEF Walking, OnceOnly, LifeFits
  <1>7. VisitedOnce'
    <2> SUFFICES ASSUME NEW p \in Visited'
                 PROVE  /\ p \in counted'
                        /\ Clear(p)' => life'[p] # "never" /\ tree'[p] \in {"absent", "dir"}
      BY DEF VisitedOnce
    <2>1. CASE p = here
      BY <1>1, <1>3, <1>4, <1>6, <2>1, Unchanged
    <2>2. CASE p \in Visited
      BY <1>1, <1>4, <2>2, Unchanged DEF Walking, VisitedOnce
    <2>3. p = here \/ p \in Visited
      BY <1>1, <1>3 DEF Upto
    <2> QED
      BY <2>1, <2>2, <2>3
  <1>8. StreamsFit' /\ EntriesFit'
    BY Unchanged DEF Walking, StreamsFit, EntriesFit
  <1>9. OnceOnly'
    <2> SUFFICES ASSUME NEW n \in Paths, Clear(n)
                 PROVE  /\ n \notin again'
                        /\ n \in counted' => life[n] # "never"
                        /\ tree[n] # "absent" =>
                             /\ n \in kept \cup made => n \notin counted'
                             /\ ~(n \in kept /\ n \in made)
      BY <1>3, Unchanged DEF OnceOnly
    <2>1. /\ n \notin again
          /\ n \in counted => life[n] # "never"
          /\ tree[n] # "absent" => /\ n \in kept \cup made => n \notin counted
                                   /\ ~(n \in kept /\ n \in made)
      BY DEF Walking, OnceOnly
    <2> QED
      BY <1>4, <1>6, <2>1
  <1>10. InOrder'
    <2> SUFFICES ASSUME NEW n \in Paths \ {Root}, Clear(n), n \in counted'
                 PROVE  In[n] \in counted' /\ ~Opening(In[n])'
      BY Unchanged DEF InOrder
    <2>1. In[n] \in Paths /\ Clear(In[n])
      BY UptoFacts, ClearFacts
    <2>2. CASE n = here
      <3>1. In[n] \in Above[n] /\ In[n] # n
        BY UptoFacts
      <3> QED
        BY <1>1, <1>3, <1>4, <2>1, <2>2, <3>1 DEF Walking, VisitedOnce
    <2>3. CASE n # here
      <3>1. In[n] \in counted
        BY <1>4, <2>3 DEF Walking, InOrder
      <3> QED
        BY <1>3, <1>4, <1>6, <2>1, <3>1
    <2> QED
      BY <2>2, <2>3
  <1>11. ASSUME NEW n \in Paths, Steady(n)
         PROVE  \/ n \in counted'
                \/ n # Root /\ (n \in kept \/ In[n] \notin counted' \/ Opening(In[n])')
    <2>1. ~Abandoned /\ ~Opening(In[n])
      BY DEF Abandoned, Opening
    <2>2. \/ n \in counted
          \/ n = here
          \/ n # Root /\ (n \in kept \/ In[n] \notin counted)
      BY <1>11, <2>1 DEF Walking, NonePassedOver, AtStat
    <2>3. CASE n # Root /\ In[n] = here
      <3>1. Clear(here) /\ life[n] = "stayed"
        BY <1>11, <2>3, ClearFacts
      <3>2. tree[n] # "absent" /\ tree \in Trees
        BY <3>1 DEF Walking, LifeFits, TypeOK
      <3>3. found = "dir"
        BY <1>6, <2>3, <3>1, <3>2, TreeFacts
      <3> QED
        BY <1>1, <1>3, <2>3, <3>3
    <2>4. CASE n = Root \/ In[n] # here
      BY <1>4, <2>2, <2>4
    <2> QED
      BY <2>3, <2>4
  <1>12. NonePassedOver'
    BY <1>11, Unchanged DEF NonePassedOver
  <1>13. AbandonedForAReason'
    BY <1>4 DEF AbandonedForAReason, Abandoned
  <1>14. LifeFits'
    BY Unchanged DEF Walking
  <1> QED
    BY <1>5, <1>7, <1>8, <1>9, <1>10, <1>12, <1>13, <1>14 DEF Walking

(* A directory is opened: all that is in it is to be given.                *)
LEMMA OpenStep ==
  ASSUME TypeOK, Walking, phase = "walking", call = "open", "dir" \in Follow(here), Open,
         UNCHANGED <<probe, rows, tree, life>>
  PROVE  TypeOK' /\ Walking'
PROOF
  <1>1. /\ here \in Paths /\ Opened = Above[here] /\ Visited = Upto(here)
        /\ here \notin Opened /\ Upto(here) = Above[here] \cup {here}
    BY OpenedFacts, VisitedFacts DEF TypeOK, Upto
  <1>2. /\ call' = "next"
        /\ UNCHANGED <<phase, here, gone, counted, again>>
    BY DEF Open
  <1>3. \/ /\ ~Clear(here)
           /\ at' = [at EXCEPT ![here] = "elsewhere"]
           /\ made' = made \cup Inside(here)
           /\ kept' = kept
        \/ /\ tree[here] = "dir"
           /\ at' = [at EXCEPT ![here] = "here"]
           /\ kept' = kept \cup {n \in Inside(here) : tree[n] # "absent"}
           /\ made' = made
    BY ReadDirFinds DEF Open
  <1>4. Opened' = Upto(here) /\ Visited' = Upto(here)
    BY <1>2 DEF Opened, Visited
  <1>5. at \in [Paths -> Places]
    BY DEF TypeOK
  <1>6. /\ at' \in [Paths -> Places]
        /\ \A p \in Paths : p # here => at'[p] = at[p]
        /\ at'[here] # "closed"
    BY <1>1, <1>3, <1>5 DEF Places
  <1>7. TypeOK'
    <2>1. {p \in Paths : at'[p] # "closed"} = Opened'
      BY <1>1, <1>4, <1>6, OpenedFacts
    <2>2. kept' \cup gone' \cup made' \subseteq kept \cup gone \cup made \cup Inside(here)
      BY <1>2, <1>3
    <2>3. kept' \cup gone' \cup made' \subseteq UNION {Inside(p) : p \in Opened'}
      BY <1>1, <1>4, <2>2 DEF TypeOK
    <2> QED
      BY <1>2, <1>6, <2>1, <2>3 DEF TypeOK
  <1>8. VisitedOnce'
    BY <1>1, <1>2, <1>4, FewerVisited DEF Walking
  <1>9. StreamsFit'
    BY <1>1, <1>3, <1>5, Unchanged DEF Walking, StreamsFit
  <1>10. \A n \in Inside(here) : /\ n \in Paths \ {Root} /\ In[n] = here
                                 /\ n \notin kept \cup gone \cup made
                                 /\ Clear(n) => Clear(here) /\ n \notin counted
    BY <1>1, OpenedFacts, ClearFacts DEF Inside, Walking, InOrder, Opening
  <1>11. EntriesFit'
    <2>1. ASSUME NEW n \in Paths, n \in kept'
          PROVE  at'[In[n]] = "here"
      <3>1. CASE n \in kept
        <4>1. at[In[n]] = "here" /\ In[n] \in Paths /\ In[n] \in Opened
          BY <3>1, OpenedFacts, UptoFacts DEF Walking, EntriesFit
        <4> QED
          BY <1>1, <1>6, <4>1
      <3>2. CASE n \notin kept
        BY <1>1, <1>3, <1>5, <1>10, <2>1, <3>2
      <3> QED
        BY <3>1, <3>2
    <2>2. ASSUME NEW n \in Paths, Clear(n)
          PROVE  /\ n \in kept' => life[n] \in {"stayed", "came"}
                 /\ n \in gone' => life[n] = "went" \/ Cut(n)
                 /\ n \in made' => life[n] = "came" \/ Cut(n)
      <3>1. n \in made' => n \in made
        BY <1>3, <1>10, <2>2
      <3>2. n \in kept' => n \in kept \/ tree[n] # "absent"
        BY <1>3
      <3>3. tree[n] # "absent" => life[n] \in {"stayed", "came"}
        BY <2>2, ClearFacts DEF Walking, LifeFits, TypeOK, Lives
      <3> QED
        BY <1>2, <2>2, <3>1, <3>2, <3>3 DEF Walking, EntriesFit
    <2> QED
      BY <2>1, <2>2, Unchanged DEF EntriesFit
  <1>12. OnceOnly'
    <2> SUFFICES ASSUME NEW n \in Paths, Clear(n)
                 PROVE  /\ n \notin again
                        /\ n \in counted => life[n] # "never"
                        /\ tree[n] # "absent" =>
                             /\ n \in kept' \cup made' => n \notin counted
                             /\ ~(n \in kept' /\ n \in made')
      BY <1>2, Unchanged DEF OnceOnly, AtStat
    <2>1. /\ n \notin again
          /\ n \in counted => life[n] # "never"
          /\ tree[n] # "absent" => /\ n \in kept \cup made => n \notin counted
                                   /\ ~(n \in kept /\ n \in made)
      BY DEF Walking, OnceOnly
    <2>2. CASE n \in Inside(here)
      BY <1>3, <1>10, <2>1, <2>2
    <2>3. CASE n \notin Inside(here)
      BY <1>3, <2>1, <2>3
    <2> QED
      BY <2>2, <2>3
  <1>13. InOrder'
    <2>1. \A p \in Paths : ~Opening(p)'
      BY <1>2 DEF Opening
    <2> QED
      BY <1>2, <2>1, UptoFacts, Unchanged DEF Walking, InOrder
  <1>14. ASSUME NEW n \in Paths, Steady(n)
         PROVE  n \in counted \/ (n # Root /\ (n \in kept' \/ In[n] \notin counted))
    <2>1. \/ n \in counted
          \/ n # Root /\ (n \in kept \/ In[n] \notin counted \/ In[n] = here)
      BY <1>14 DEF Walking, NonePassedOver, Abandoned, AtStat, Opening
    <2>2. CASE n # Root /\ In[n] = here
      <3>1. Clear(here) /\ life[n] = "stayed"
        BY <1>14, <2>2, ClearFacts
      <3>2. tree[n] # "absent"
        BY <3>1 DEF Walking, LifeFits
      <3> QED
        BY <1>3, <2>2, <3>1, <3>2 DEF Inside
    <2> QED
      BY <1>3, <2>1, <2>2
  <1>15. NonePassedOver'
    BY <1>2, <1>14, Unchanged DEF NonePassedOver
  <1>16. AbandonedForAReason' /\ LifeFits'
    BY <1>2, Unchanged DEF AbandonedForAReason, Abandoned, Walking
  <1> QED
    BY <1>7, <1>8, <1>9, <1>11, <1>12, <1>13, <1>15, <1>16 DEF Walking

(* An entry is given, and looked at next.                                  *)
LEMMA TakeStep ==
  ASSUME TypeOK, Walking, phase = "walking", call = "next",
         NEW n \in Inside(here), Take(n), here' = n, call' = "stat",
         UNCHANGED <<probe, rows, tree, life, phase, at, counted, again>>
  PROVE  TypeOK' /\ Walking'
PROOF
  <1>1. /\ here \in Paths /\ n \in Paths /\ n # Root /\ In[n] = here
        /\ Opened = Upto(here) /\ Visited = Upto(here) /\ Above[n] = Upto(here)
    BY OpenedFacts, VisitedFacts, UptoFacts DEF TypeOK, Inside
  <1>2. Opened' = Upto(here) /\ Visited' = Upto(here)
    BY <1>1 DEF Opened, Visited
  <1>3. /\ kept' \subseteq kept /\ gone' \subseteq gone /\ made' \subseteq made
        /\ \A m \in kept : m # n => m \in kept'
        /\ \/ n \in kept /\ n \notin kept' /\ made' = made
           \/ n \in gone /\ kept' = kept /\ made' = made
           \/ n \in made /\ n \notin made' /\ kept' = kept
    BY DEF Take
  <1>4. TypeOK'
    BY <1>1, <1>2, <1>3 DEF TypeOK
  <1>5. VisitedOnce' /\ StreamsFit' /\ LifeFits'
    BY <1>1, <1>2, FewerVisited, Unchanged DEF Walking, StreamsFit
  <1>6. EntriesFit'
    BY <1>3, Unchanged DEF Walking, EntriesFit
  <1>7. Clear(n) => /\ n \in kept => life[n] \in {"stayed", "came"}
                    /\ n \in gone => life[n] = "went" \/ Cut(n)
                    /\ n \in made => life[n] = "came" \/ Cut(n)
    BY <1>1 DEF Walking, EntriesFit
  <1>8. Clear(n) /\ tree[n] # "absent" => n \notin gone /\ life[n] # "never" /\ life[n] # "went"
    <2>1. Cut(n) => tree[here] = "absent"
      BY <1>1 DEF Cut, Walking, LifeFits
    <2>2. tree[n] # "absent" => tree[here] = "dir"
      BY <1>1, TreeFacts DEF TypeOK
    <2> QED
      BY <1>1, <1>7, <2>1, <2>2 DEF Walking, LifeFits
  <1>9. OnceOnly'
    <2> SUFFICES ASSUME NEW m \in Paths, Clear(m)
                 PROVE  /\ m \notin again
                        /\ m \in counted => life[m] # "never"
                        /\ m = n /\ life[m] = "never" => Cut(m)
                        /\ tree[m] # "absent" =>
                             /\ ~(m \in counted /\ m = n)
                             /\ m \in kept' \cup made' => m \notin counted /\ m # n
                             /\ ~(m \in kept' /\ m \in made')
      BY Unchanged DEF OnceOnly, AtStat
    <2>1. /\ m \notin again
          /\ m \in counted => life[m] # "never"
          /\ tree[m] # "absent" => /\ m \in kept \cup made => m \notin counted
                                   /\ ~(m \in kept /\ m \in made)
      BY DEF Walking, OnceOnly
    <2>2. CASE m = n
      BY <1>3, <1>7, <1>8, <2>1, <2>2
    <2>3. CASE m # n
      BY <1>3, <2>1, <2>3
    <2> QED
      BY <2>2, <2>3
  <1>10. InOrder'
    <2>1. \A p \in Paths : ~Opening(p)'
      BY DEF Opening
    <2> QED
      BY <2>1, UptoFacts, Unchanged DEF Walking, InOrder
  <1>11. NonePassedOver'
    <2> SUFFICES ASSUME NEW m \in Paths, Steady(m)
                 PROVE  \/ m \in counted
                        \/ m = n
                        \/ m # Root /\ (m \in kept' \/ In[m] \notin counted)
      BY Unchanged DEF NonePassedOver, AtStat
    <2>1. m \in counted \/ (m # Root /\ (m \in kept \/ In[m] \notin counted))
      BY DEF Walking, NonePassedOver, Abandoned, AtStat, Opening
    <2> QED
      BY <1>3, <2>1
  <1>12. AbandonedForAReason'
    BY DEF AbandonedForAReason, Abandoned
  <1> QED
    BY <1>4, <1>5, <1>6, <1>9, <1>10, <1>11, <1>12 DEF Walking

(* A directory is read to its end, when all that stayed in it was given.   *)
LEMMA CloseStep ==
  ASSUME TypeOK, Walking, phase = "walking", call = "next", Close,
         UNCHANGED <<probe, rows, tree, life>>
  PROVE  TypeOK' /\ Walking'
PROOF
  <1>1. /\ here \in Paths /\ Opened = Upto(here) /\ Visited = Upto(here)
        /\ Upto(here) = Above[here] \cup {here} /\ here \notin Above[here]
    BY OpenedFacts, VisitedFacts, UptoFacts, UsageAssumption DEF TypeOK, Upto
  <1>2. /\ kept \cap Inside(here) = {}
        /\ at' = [at EXCEPT ![here] = "closed"]
        /\ gone' = gone \ Inside(here) /\ made' = made \ Inside(here)
        /\ UNCHANGED <<phase, kept, counted, again>>
    BY DEF Close
  <1>3. /\ here' \in Paths
        /\ call' \in {"next", "done"}
        /\ call' = "done" => here' = Root
        /\ Opened' = Above[here]
        /\ Visited' = Above[here]
        /\ \A p \in Paths : ~Opening(p)' /\ ~AtStat(p)'
    BY ReturnFacts DEF Close
  <1>4. at \in [Paths -> Places]
    BY DEF TypeOK
  <1>5. TypeOK'
    <2>1. at' \in [Paths -> Places]
      BY <1>2, <1>4 DEF Places
    <2>2. {p \in Paths : at'[p] # "closed"} = Opened'
      BY <1>1, <1>2, <1>3, <1>4, OpenedFacts
    <2>3. kept' \cup gone' \cup made' \subseteq (kept \cup gone \cup made) \ Inside(here)
      BY <1>2
    <2>4. kept' \cup gone' \cup made' \subseteq UNION {Inside(p) : p \in Opened'}
      BY <1>1, <1>3, <2>3 DEF TypeOK
    <2> QED
      BY <1>2, <1>3, <2>1, <2>2, <2>4 DEF TypeOK
  <1>6. VisitedOnce' /\ LifeFits'
    BY <1>1, <1>2, <1>3, FewerVisited, Unchanged DEF Walking
  <1>7. StreamsFit'
    BY <1>1, <1>2, <1>4, Unchanged DEF Walking, StreamsFit
  <1>8. EntriesFit'
    <2>1. ASSUME NEW n \in Paths, n \in kept
          PROVE  at'[In[n]] = "here"
      <3>1. n \in Paths \ {Root} /\ In[n] # here /\ In[n] \in Paths /\ at[In[n]] = "here"
        BY <1>2, <2>1, OpenedFacts, UptoFacts DEF Inside, Walking, EntriesFit
      <3> QED
        BY <1>2, <1>4, <3>1
    <2> QED
      BY <1>2, <2>1, Unchanged DEF Walking, EntriesFit
  <1>9. OnceOnly'
    BY <1>2, <1>3, Unchanged DEF Walking, OnceOnly
  <1>10. InOrder'
    BY <1>2, <1>3, UptoFacts, Unchanged DEF Walking, InOrder
  <1>11. NonePassedOver'
    <2> SUFFICES ASSUME NEW n \in Paths, Steady(n)
                 PROVE  n \in counted \/ (n # Root /\ (n \in kept \/ In[n] \notin counted))
      BY <1>2, Unchanged DEF NonePassedOver
    <2> QED
      BY DEF Walking, NonePassedOver, Abandoned, AtStat, Opening
  <1>12. AbandonedForAReason'
    BY <1>1, <1>2 DEF AbandonedForAReason, Abandoned, Walking, VisitedOnce
  <1> QED
    BY <1>5, <1>6, <1>7, <1>8, <1>9, <1>10, <1>11, <1>12 DEF Walking

(* The walk of a root begins with nothing opened, and nothing counted.     *)
Starts ==
  /\ tree \in Trees
  /\ life = [n \in Paths |-> IF tree[n] = "absent" THEN "never" ELSE "stayed"]
  /\ here = Root /\ call = "stat"
  /\ at = [p \in Paths |-> "closed"]
  /\ kept = {} /\ gone = {} /\ made = {}
  /\ counted = {} /\ again = {}

LEMMA Started == Starts => Walking
PROOF
  <1> SUFFICES ASSUME Starts PROVE Walking
    OBVIOUS
  <1>1. \A n \in Paths : life[n] = IF tree[n] = "absent" THEN "never" ELSE "stayed"
    BY DEF Starts
  <1>2. LifeFits
    BY <1>1 DEF LifeFits
  <1>3. Opened = {} /\ Visited = {}
    BY UsageAssumption DEF Starts, Opened, Visited
  <1>4. VisitedOnce /\ StreamsFit /\ EntriesFit /\ InOrder
    BY <1>3 DEF Starts, VisitedOnce, StreamsFit, EntriesFit, InOrder
  <1>5. OnceOnly
    BY DEF Starts, OnceOnly, AtStat
  <1>6. NonePassedOver
    BY UptoFacts DEF Starts, NonePassedOver, AtStat
  <1>7. AbandonedForAReason
    BY DEF Starts, AbandonedForAReason, Abandoned
  <1> QED
    BY <1>2, <1>4, <1>5, <1>6, <1>7 DEF Walking

(* Then all of it has the right types.                                     *)
LEMMA StartTypes ==
  Starts => /\ life \in [Paths -> Lives]
            /\ here \in Paths
            /\ call \in {"stat", "open", "next", "done"}
            /\ call = "done" => here = Root
            /\ at \in [Paths -> Places]
            /\ {p \in Paths : at[p] # "closed"} = Opened
            /\ kept \cup gone \cup made \subseteq UNION {Inside(p) : p \in Opened}
            /\ counted \subseteq Paths
            /\ again \subseteq counted
PROOF
  <1> SUFFICES ASSUME Starts
               PROVE  /\ life \in [Paths -> Lives]
                      /\ at \in [Paths -> Places]
                      /\ {p \in Paths : at[p] # "closed"} = Opened
    BY UsageAssumption DEF Starts
  <1>1. life \in [Paths -> Lives]
    BY DEF Starts, Lives
  <1>2. at \in [Paths -> Places]
    BY DEF Starts, Places
  <1>3. Opened = {}
    BY UsageAssumption DEF Starts, Opened
  <1> QED
    BY <1>1, <1>2, <1>3 DEF Starts

(* The row of a root, and the beginning of the next.                       *)
LEMMA RowStep ==
  ASSUME TypeOK, Row
  PROVE  TypeOK' /\ (phase' = "walking" => Walking')
PROOF
  <1>1. rows \in 0..Workspaces /\ rows # Workspaces /\ Workspaces \in Nat
    BY UsageAssumption DEF Row, TypeOK
  <1>2. rows' \in 0..Workspaces /\ rows' = rows + 1
    BY <1>1 DEF Row
  <1>3. /\ here = Root /\ Opened = {}
        /\ kept = {} /\ gone = {} /\ made = {}
        /\ UNCHANGED <<probe, here, at, kept, gone, made>>
        /\ counted' = {} /\ again' = {} /\ phase = "walking" /\ call = "done"
    BY OpenedFacts DEF Row, TypeOK
  <1>4. at = [p \in Paths |-> "closed"]
    BY <1>3, OpenedFacts DEF TypeOK
  <1>5. CASE rows' = Workspaces /\ phase' = "reported" /\ UNCHANGED <<tree, life, call>>
    <2>1. Opened' = {}
      BY <1>3, <1>5 DEF Opened
    <2> QED
      BY <1>2, <1>3, <1>4, <1>5, <2>1 DEF TypeOK
  <1>6. CASE /\ rows' # Workspaces
             /\ tree' \in Trees
             /\ life' = [n \in Paths |-> IF tree'[n] = "absent" THEN "never" ELSE "stayed"]
             /\ call' = "stat"
             /\ UNCHANGED phase
    <2>1. Starts'
      BY <1>3, <1>4, <1>6 DEF Starts
    <2>2. Walking'
      BY <2>1, Started, PTL
    <2>3. (/\ life \in [Paths -> Lives]
           /\ here \in Paths
           /\ call \in {"stat", "open", "next", "done"}
           /\ call = "done" => here = Root
           /\ at \in [Paths -> Places]
           /\ {p \in Paths : at[p] # "closed"} = Opened
           /\ kept \cup gone \cup made \subseteq UNION {Inside(p) : p \in Opened}
           /\ counted \subseteq Paths
           /\ again \subseteq counted)'
      BY <2>1, StartTypes, PTL
    <2>4. TypeOK'
      BY <1>2, <1>3, <1>6, <2>3 DEF TypeOK
    <2> QED
      BY <2>2, <2>4
  <1> QED
    BY <1>5, <1>6 DEF Row

(* A walk fails for a reason.                                              *)
LEMMA FailedStep ==
  ASSUME TypeOK, phase = "walking", Failed, UNCHANGED <<probe, rows, tree, life>>,
         Reason \/ (probe = "btrfs" /\ tree[Root] = "absent")
  PROVE  TypeOK' /\ FailsForAReason'
PROOF
  <1>1. rows # Workspaces
    BY DEF TypeOK
  <1>2. Opened' = Opened
    BY DEF Failed, walk, Opened, Upto
  <1>3. TypeOK'
    BY <1>1, <1>2 DEF Failed, walk, TypeOK
  <1>4. FailsForAReason'
    BY DEF FailsForAReason, Reason
  <1> QED
    BY <1>3, <1>4

(* Every step of the walk keeps the invariant.                             *)
LEMMA WalkerStep ==
  ASSUME Inv, Walker
  PROVE  Inv'
PROOF
  <1>1. TypeOK /\ phase = "walking" /\ Walking
    BY DEF Inv, Walker, Stat, ReadDir, NextEntry, Row, Fail, Calls
  <1>2. ASSUME TypeOK' /\ Walking', UNCHANGED phase
        PROVE  Inv'
    BY <1>1, <1>2 DEF Inv, FailsForAReason
  <1>3. ASSUME TypeOK' /\ FailsForAReason', Failed
        PROVE  Inv'
    BY <1>3 DEF Inv, Failed
  <1>4. CASE Stat
    <2>1. call = "stat" /\ UNCHANGED <<probe, rows, tree, life>>
      BY <1>4 DEF Stat, Calls
    <2>2. PICK found \in Look(here) :
            \/ found = "absent" /\ NotFound
            \/ found = "error" /\ Failed
            \/ /\ found \notin {"absent", "error"}
               /\ Add
               /\ \/ IsDir(found) /\ call' = "open" /\ UNCHANGED here
                  \/ ~IsDir(found) /\ Return
               /\ UNCHANGED <<phase, at, kept, gone, made>>
      BY <1>4 DEF Stat
    <2>3. CASE found = "absent" /\ NotFound
      BY <1>1, <1>2, <2>1, <2>3, StatFinds, NotFoundStep DEF NotFound
    <2>4. CASE found = "error" /\ Failed
      BY <1>1, <1>3, <2>1, <2>4, StatFinds, FailedStep
    <2>5. CASE /\ found \notin {"absent", "error"}
               /\ Add
               /\ \/ IsDir(found) /\ call' = "open" /\ UNCHANGED here
                  \/ ~IsDir(found) /\ Return
               /\ UNCHANGED <<phase, at, kept, gone, made>>
      BY <1>1, <1>2, <2>1, <2>5, AddStep
    <2> QED
      BY <2>2, <2>3, <2>4, <2>5
  <1>5. CASE ReadDir
    <2>1. call = "open" /\ UNCHANGED <<probe, rows, tree, life>>
      BY <1>5 DEF ReadDir, Calls
    <2>2. PICK found \in Follow(here) :
            \/ found = "dir" /\ Open
            \/ found = "absent" /\ NotFound
            \/ found \notin {"dir", "absent"} /\ Failed
      BY <1>5 DEF ReadDir
    <2>3. CASE found = "dir" /\ Open
      BY <1>1, <1>2, <2>1, <2>2, <2>3, OpenStep DEF Open
    <2>4. CASE found = "absent" /\ NotFound
      BY <1>1, <1>2, <2>1, <2>4, ReadDirFinds, NotFoundStep DEF NotFound
    <2>5. CASE found \notin {"dir", "absent"} /\ Failed
      BY <1>1, <1>3, <2>1, <2>5, ReadDirFinds, FailedStep
    <2> QED
      BY <2>2, <2>3, <2>4, <2>5
  <1>6. CASE NextEntry
    <2>1. call = "next" /\ UNCHANGED <<probe, rows, tree, life>>
      BY <1>6 DEF NextEntry, Calls
    <2>2. CASE /\ \E n \in Inside(here) : Take(n) /\ here' = n
               /\ call' = "stat"
               /\ UNCHANGED <<phase, at, counted, again>>
      BY <1>1, <1>2, <2>1, <2>2, TakeStep
    <2>3. CASE Close
      BY <1>1, <1>2, <2>1, <2>3, CloseStep DEF Close
    <2>4. CASE (here \in Unreadable \/ at[here] = "elsewhere") /\ Failed
      <3>1. here \in Visited /\ here \in Paths
        BY <1>1, <2>1, VisitedFacts, UptoFacts DEF TypeOK
      <3>2. at[here] = "elsewhere" => ~Clear(here)
        BY <1>1, <3>1 DEF Walking, StreamsFit
      <3>3. Clear(here) => life[here] # "never"
        BY <1>1, <3>1 DEF Walking, VisitedOnce
      <3>4. Reason
        BY <2>4, <3>1, <3>2, <3>3, ChangedFacts DEF Reason
      <3> QED
        BY <1>1, <1>3, <2>1, <2>4, <3>4, FailedStep
    <2> QED
      BY <1>6, <2>2, <2>3, <2>4 DEF NextEntry
  <1>7. CASE Row
    <2>1. TypeOK' /\ (phase' = "walking" => Walking')
      BY <1>1, <1>7, RowStep
    <2>2. phase' # "failed"
      BY <1>1, <1>7 DEF Row
    <2> QED
      BY <2>1, <2>2 DEF Inv, FailsForAReason
  <1>8. CASE Fail
    <2>1. UNCHANGED <<probe, rows, tree, life>> /\ Failed
      BY <1>8 DEF Fail, Calls
    <2>2. probe = "btrfs" /\ tree[Root] = "absent"
      BY <1>1, <1>8, UsageAssumption DEF Fail, RetainedKnown, TypeOK
    <2> QED
      BY <1>1, <1>3, <2>1, <2>2, FailedStep
  <1> QED
    BY <1>4, <1>5, <1>6, <1>7, <1>8 DEF Walker

-----------------------------------------------------------------------------
(* The steps of the others.                                                *)

(* What becomes of a path that something may have replaced.                *)
LEMMA AfterFacts ==
  ASSUME NEW l \in Lives, NEW before \in Kinds, NEW after \in Kinds,
         l \in {"never", "went"} => before = "absent",
         l \in {"stayed", "came"} => before # "absent"
  PROVE  \/ After(l, before, after) = "changed"
         \/ before = "absent" /\ after = "absent" /\ After(l, before, after) = l
         \/ /\ before = "absent" /\ after # "absent"
            /\ l = "never" /\ After(l, before, after) = "came"
         \/ /\ before # "absent" /\ after = "absent"
            /\ l = "stayed" /\ After(l, before, after) = "went"
PROOF
  <1>1. CASE before = "absent" /\ after = "absent"
    BY <1>1 DEF After
  <1>2. CASE before = "absent" /\ after # "absent" /\ l = "never"
    BY <1>2 DEF After
  <1>3. CASE before # "absent" /\ after = "absent" /\ l = "stayed"
    BY <1>3 DEF After
  <1>4. CASE /\ ~(before = "absent" /\ after = "absent")
             /\ ~(before = "absent" /\ after # "absent" /\ l = "never")
             /\ ~(before # "absent" /\ after = "absent" /\ l = "stayed")
    BY <1>4 DEF After
  <1> QED
    BY <1>1, <1>2, <1>3, <1>4

(* What was changed stays so.                                              *)
LEMMA AfterwardsFacts ==
  ASSUME NEW l, NEW before, NEW after
  PROVE  l = "changed" => After(l, before, after) = "changed"
PROOF
  <1>1. CASE before = "absent" /\ after = "absent"
    BY <1>1 DEF After
  <1>2. CASE ~(before = "absent" /\ after = "absent")
    BY <1>2 DEF After
  <1> QED
    BY <1>1, <1>2

\* Of a path m below the change: what it may be, when it was not replaced.
Same(m) == tree[m] = "absent" /\ tree'[m] = "absent" /\ life'[m] = life[m]
Comes(m) == /\ tree[m] = "absent" /\ tree'[m] # "absent"
            /\ life[m] = "never" /\ life'[m] = "came"
Goes(m) == /\ tree[m] # "absent" /\ tree'[m] = "absent"
           /\ life[m] = "stayed" /\ life'[m] = "went"

(* A change, path by path.                                                 *)
LEMMA ChangeFacts ==
  ASSUME TypeOK, LifeFits, NEW n \in Paths, Change(n)
  PROVE  /\ phase = "walking"
         /\ UNCHANGED <<probe, phase, rows, here, call, counted, again>>
         /\ tree' \in Trees /\ life' \in [Paths -> Lives]
         /\ \A m \in Paths : n \notin Upto(m) => tree'[m] = tree[m] /\ life'[m] = life[m]
         /\ \A m \in Paths : n \in Upto(m) =>
              life'[m] = "changed" \/ Same(m) \/ Comes(m) \/ Goes(m)
         /\ \A m \in Paths : life[m] = "changed" => life'[m] = "changed"
PROOF
  <1>1. PICK t \in Trees :
          /\ \A m \in Paths : n \notin Upto(m) => t[m] = tree[m]
          /\ tree' = t
          /\ life' = [m \in Paths |-> IF n \in Upto(m) THEN After(life[m], tree[m], t[m])
                                                       ELSE life[m]]
    BY DEF Change
  <1>2. /\ phase = "walking"
        /\ UNCHANGED <<probe, phase, rows, here, call, counted, again>>
    BY DEF Change
  <1>3. tree \in Trees /\ life \in [Paths -> Lives]
    BY DEF TypeOK
  <1>4. \A m \in Paths : life'[m] = IF n \in Upto(m) THEN After(life[m], tree[m], tree'[m])
                                                     ELSE life[m]
    BY <1>1
  <1>5. ASSUME NEW m \in Paths, n \in Upto(m)
        PROVE  life'[m] = "changed" \/ Same(m) \/ Comes(m) \/ Goes(m)
    <2>1. tree[m] \in Kinds /\ tree'[m] \in Kinds /\ life[m] \in Lives
      BY <1>1, <1>3, TreeFacts
    <2>2. /\ life[m] \in {"never", "went"} => tree[m] = "absent"
          /\ life[m] \in {"stayed", "came"} => tree[m] # "absent"
      BY DEF LifeFits
    <2>3. life'[m] = After(life[m], tree[m], tree'[m])
      BY <1>4, <1>5
    <2> QED
      BY <2>1, <2>2, <2>3, AfterFacts DEF Same, Comes, Goes
  <1>6. \A m \in Paths : life'[m] \in Lives
    BY <1>3, <1>4, <1>5 DEF Same, Comes, Goes, Lives
  <1>7. life' \in [Paths -> Lives]
    <2>1. life' = [m \in Paths |-> life'[m]]
      BY <1>1
    <2> QED
      BY <1>6, <2>1
  <1>8. \A m \in Paths : life[m] = "changed" => life'[m] = "changed"
    BY <1>4, AfterwardsFacts
  <1> QED
    BY <1>1, <1>2, <1>4, <1>5, <1>7, <1>8

\* The entries of n are of a directory that is at its path.
Listed(m) == m # Root /\ at[In[m]] = "here"

(* A change, entry by entry: those of a directory that is still at its path *)
(* follow what is done in it, those of one that was moved follow no more.  *)
LEMMA EntriesChange ==
  ASSUME TypeOK, NEW n \in Paths, Change(n)
  PROVE  /\ at' \in [Paths -> Places]
         /\ \A p \in Paths : at'[p] = IF n \in Upto(p) /\ at[p] = "here" THEN "away" ELSE at[p]
         /\ \A m \in Paths :
              /\ m \in kept' <=> m \in kept /\ ~(n \in Upto(m) /\ Listed(m))
              /\ m \in gone' <=> \/ m \in gone
                                 \/ m \in kept \cup made /\ n \in Upto(m) /\ Listed(m)
              /\ m \in made' <=> \/ m \in made /\ ~(n \in Upto(m) /\ Listed(m))
                                 \/ m = n /\ Listed(n) /\ tree'[n] # "absent"
         /\ \A m \in kept' \cup gone' \cup made' :
              m \in kept \cup gone \cup made \/ (m = n /\ Listed(n))
PROOF
  <1> DEFINE lost == {m \in kept \cup made : n \in Upto(m) /\ (m # Root /\ at[In[m]] = "here")}
  <1>1. /\ kept' = kept \ lost
        /\ gone' = gone \cup lost
        /\ at' = [p \in Paths |-> IF n \in Upto(p) /\ at[p] = "here" THEN "away" ELSE at[p]]
    BY DEF Change
  <1>2. made' = (made \ lost)
                  \cup {m \in {n} : (m # Root /\ at[In[m]] = "here") /\ tree'[m] # "absent"}
    BY DEF Change
  <1>3. \A m : m \in lost <=> m \in kept \cup made /\ n \in Upto(m) /\ Listed(m)
    BY DEF Listed
  <1>4. \A m : m \in made' <=> \/ m \in made /\ m \notin lost
                               \/ m = n /\ Listed(n) /\ tree'[n] # "absent"
    BY <1>2 DEF Listed
  <1> HIDE DEF lost
  <1>5. at' \in [Paths -> Places]
    BY <1>1 DEF TypeOK, Places
  <1>6. \A p \in Paths : at'[p] = IF n \in Upto(p) /\ at[p] = "here" THEN "away" ELSE at[p]
    BY <1>1
  <1>7. \A m \in Paths :
          /\ m \in kept' <=> m \in kept /\ ~(n \in Upto(m) /\ Listed(m))
          /\ m \in gone' <=> \/ m \in gone
                             \/ m \in kept \cup made /\ n \in Upto(m) /\ Listed(m)
          /\ m \in made' <=> \/ m \in made /\ ~(n \in Upto(m) /\ Listed(m))
                             \/ m = n /\ Listed(n) /\ tree'[n] # "absent"
    BY <1>1, <1>3, <1>4
  <1>8. \A m \in kept' \cup gone' \cup made' :
          m \in kept \cup gone \cup made \/ (m = n /\ Listed(n))
    BY <1>1, <1>3, <1>4
  <1> QED
    BY <1>5, <1>6, <1>7, <1>8

(* Something takes the place of what is at a path and below.               *)
LEMMA ChangeStep ==
  ASSUME TypeOK, Walking, NEW n \in Paths, Change(n)
  PROVE  TypeOK' /\ Walking'
PROOF
  <1>1. /\ phase = "walking"
        /\ UNCHANGED <<probe, phase, rows, here, call, counted, again>>
        /\ tree' \in Trees /\ life' \in [Paths -> Lives]
        /\ \A m \in Paths : n \notin Upto(m) => tree'[m] = tree[m] /\ life'[m] = life[m]
        /\ \A m \in Paths : n \in Upto(m) =>
             life'[m] = "changed" \/ Same(m) \/ Comes(m) \/ Goes(m)
        /\ \A m \in Paths : life[m] = "changed" => life'[m] = "changed"
    BY ChangeFacts DEF Walking
  <1>2. /\ at' \in [Paths -> Places]
        /\ \A p \in Paths : at'[p] = IF n \in Upto(p) /\ at[p] = "here" THEN "away" ELSE at[p]
        /\ \A m \in Paths :
             /\ m \in kept' <=> m \in kept /\ ~(n \in Upto(m) /\ Listed(m))
             /\ m \in gone' <=> \/ m \in gone
                                \/ m \in kept \cup made /\ n \in Upto(m) /\ Listed(m)
             /\ m \in made' <=> \/ m \in made /\ ~(n \in Upto(m) /\ Listed(m))
                                \/ m = n /\ Listed(n) /\ tree'[n] # "absent"
        /\ \A m \in kept' \cup gone' \cup made' :
             m \in kept \cup gone \cup made \/ (m = n /\ Listed(n))
    BY EntriesChange
  <1>3. Opened' = Opened /\ Visited' = Visited
    BY <1>1 DEF Opened, Visited, Upto
  <1>4. TypeOK'
    <2>1. {p \in Paths : at'[p] # "closed"} = {p \in Paths : at[p] # "closed"}
      BY <1>2
    <2>2. Listed(n) => n \in Inside(In[n]) /\ In[n] \in Opened
      BY UptoFacts, OpenedFacts DEF Listed, Inside
    <2>3. kept' \cup gone' \cup made' \subseteq UNION {Inside(p) : p \in Opened}
      BY <1>2, <2>2 DEF TypeOK
    <2> QED
      BY <1>1, <1>2, <1>3, <2>1, <2>3 DEF TypeOK
  <1>5. /\ \A m \in Paths : Clear(m)' => Clear(m) /\ life'[m] # "changed"
        /\ \A m \in Paths \ {Root} : Clear(m)' => Clear(In[m])'
    <2>1. \A m \in Paths : \A q \in Upto(m) : q \in Paths
      BY UptoFacts
    <2>2. \A m \in Paths : Clear(m)' => Clear(m)
      BY <1>1, <2>1 DEF Clear
    <2>3. \A m \in Paths : Clear(m)' => life'[m] # "changed"
      BY UptoFacts DEF Clear
    <2>4. \A m \in Paths \ {Root} : Clear(m)' => Clear(In[m])'
      BY UptoFacts DEF Clear
    <2> QED
      BY <2>2, <2>3, <2>4
  <1>6. \A m \in Paths : Clear(m)' =>
          \/ n \notin Upto(m) /\ tree'[m] = tree[m] /\ life'[m] = life[m]
          \/ n \in Upto(m) /\ (Same(m) \/ Comes(m) \/ Goes(m))
    BY <1>1, <1>5
  <1>7. LifeFits'
    BY <1>1 DEF Walking, LifeFits, Same, Comes, Goes
  <1>8. \A m \in Paths : Steady(m)' => Steady(m) /\ n \notin Upto(m)
    <2>1. \A q \in Paths : life'[q] = "stayed" => life[q] = "stayed" /\ n \notin Upto(q)
      BY <1>1 DEF Same, Comes, Goes, Walking, LifeFits
    <2> QED
      BY <2>1, UptoFacts DEF Steady
  <1>9. VisitedOnce'
    <2> SUFFICES ASSUME NEW p \in Visited
                 PROVE  /\ p \in counted
                        /\ Clear(p)' => life'[p] # "never" /\ tree'[p] \in {"absent", "dir"}
      BY <1>1, <1>3 DEF VisitedOnce
    <2>1. /\ p \in Paths /\ p \in counted
          /\ Clear(p) => life[p] # "never" /\ tree[p] \in {"absent", "dir"}
      BY VisitedFacts DEF Walking, VisitedOnce
    <2> QED
      BY <1>5, <1>6, <2>1 DEF Same, Comes, Goes
  <1>10. StreamsFit'
    <2> SUFFICES ASSUME NEW p \in Paths
                 PROVE  /\ at'[p] = "here" => tree'[p] = "dir"
                        /\ at'[p] = "away" => (Clear(p)' => life'[p] = "went")
                        /\ at'[p] = "elsewhere" => ~Clear(p)'
      BY DEF StreamsFit
    <2>1. /\ at[p] = "here" => tree[p] = "dir"
          /\ at[p] = "away" => (Clear(p) => life[p] = "went")
          /\ at[p] = "elsewhere" => ~Clear(p)
      BY DEF Walking, StreamsFit
    <2>2. at'[p] = "here" => tree'[p] = "dir"
      BY <1>1, <1>2, <2>1
    <2>3. at'[p] = "elsewhere" => ~Clear(p)'
      BY <1>2, <1>5, <2>1
    <2>4. ASSUME at'[p] = "away", Clear(p)'
          PROVE  life'[p] = "went"
      <3>1. \/ at[p] = "away"
            \/ n \in Upto(p) /\ at[p] = "here"
        BY <1>2, <2>4
      <3> QED
        BY <1>5, <1>6, <2>1, <2>4, <3>1 DEF Same, Comes, Goes
    <2> QED
      BY <2>2, <2>3, <2>4
  <1>11. \A m \in Paths : Cut(m) /\ Clear(m)' => Cut(m)'
    <2> SUFFICES ASSUME NEW m \in Paths, m # Root, life[In[m]] = "went", Clear(m)'
                 PROVE  life'[In[m]] = "went"
      BY DEF Cut
    <2>1. In[m] \in Paths /\ Clear(In[m])'
      BY <1>5, UptoFacts
    <2> QED
      BY <1>6, <2>1 DEF Same, Comes, Goes
  <1>12. \A m \in Paths : Cut(m) => ~Listed(m)
    BY UptoFacts DEF Cut, Listed, Walking, StreamsFit, LifeFits
  <1>13. \A m \in Paths : Cut(m)' => tree'[m] = "absent"
    <2>1. \A m \in Paths : Cut(m)' => m # Root /\ tree'[In[m]] = "absent"
      BY <1>7, UptoFacts DEF Cut, LifeFits
    <2> QED
      BY <1>1, <2>1, TreeFacts
  <1>14. \A m \in Paths : m \in kept => Listed(m)
    BY OpenedFacts DEF Listed, Walking, EntriesFit
  <1>15. EntriesFit'
    <2>1. ASSUME NEW m \in Paths, m \in kept'
          PROVE  at'[In[m]] = "here"
      <3>1. m # Root /\ In[m] \in Paths /\ at[In[m]] = "here" /\ n \notin Upto(m)
        BY <1>2, <1>14, <2>1, UptoFacts DEF Listed
      <3>2. n \notin Upto(In[m])
        BY <3>1, BelowFacts
      <3> QED
        BY <1>2, <3>1, <3>2
    <2>2. ASSUME NEW m \in Paths, Clear(m)'
          PROVE  /\ m \in kept' => life'[m] \in {"stayed", "came"}
                 /\ m \in gone' => life'[m] = "went" \/ Cut(m)'
                 /\ m \in made' => life'[m] = "came" \/ Cut(m)'
      <3>1. /\ m \in kept => life[m] \in {"stayed", "came"}
            /\ m \in gone => life[m] = "went" \/ Cut(m)
            /\ m \in made => life[m] = "came" \/ Cut(m)
        BY <1>5, <2>2 DEF Walking, EntriesFit
      <3>2. life[m] \in {"stayed", "came"} => tree[m] # "absent"
        BY DEF Walking, LifeFits
      <3>3. life[m] = "went" => life'[m] = "went"
        BY <1>6, <2>2 DEF Same, Comes, Goes
      <3>4. life[m] = "came" => n \notin Upto(m) /\ life'[m] = "came"
        BY <1>6, <2>2, <3>2 DEF Same, Comes, Goes
      <3>5. m \in kept' => life'[m] \in {"stayed", "came"}
        BY <1>1, <1>2, <1>14, <3>1
      <3>6. n \in Upto(m) /\ Listed(m) /\ m \in kept \cup made => life'[m] = "went"
        <4> SUFFICES ASSUME n \in Upto(m), Listed(m), m \in kept \cup made
                     PROVE  life'[m] = "went"
          OBVIOUS
        <4>1. life[m] \in {"stayed", "came"}
          BY <1>12, <3>1
        <4> QED
          BY <1>6, <2>2, <3>2, <3>4, <4>1 DEF Same, Comes, Goes
      <3>7. m \in gone' => life'[m] = "went" \/ Cut(m)'
        BY <1>2, <1>11, <2>2, <3>1, <3>3, <3>6
      <3>8. m = n /\ tree'[n] # "absent" => life'[m] = "came"
        BY <1>6, <2>2, UptoFacts DEF Same, Comes, Goes
      <3>9. m \in made' => life'[m] = "came" \/ Cut(m)'
        BY <1>2, <1>11, <2>2, <3>1, <3>4, <3>8
      <3> QED
        BY <3>5, <3>7, <3>9
    <2> QED
      BY <2>1, <2>2 DEF EntriesFit
  <1>16. OnceOnly'
    <2> SUFFICES ASSUME NEW m \in Paths, Clear(m)'
                 PROVE  /\ m \notin again
                        /\ m \in counted => life'[m] # "never"
                        /\ AtStat(m) /\ life'[m] = "never" => m = Root \/ Cut(m)'
                        /\ tree'[m] # "absent" =>
                             /\ ~(m \in counted /\ AtStat(m))
                             /\ m \in kept' \cup made' => m \notin counted /\ ~AtStat(m)
                             /\ ~(m \in kept' /\ m \in made')
      BY <1>1 DEF OnceOnly, AtStat
    <2>1. /\ m \notin again
          /\ m \in counted => life[m] # "never"
          /\ AtStat(m) /\ life[m] = "never" => m = Root \/ Cut(m)
          /\ tree[m] # "absent" => /\ ~(m \in counted /\ AtStat(m))
                                   /\ m \in kept \cup made => m \notin counted /\ ~AtStat(m)
                                   /\ ~(m \in kept /\ m \in made)
      BY <1>5 DEF Walking, OnceOnly
    <2>2. life'[m] = "never" => life[m] = "never"
      BY <1>6 DEF Same, Comes, Goes
    <2>3. CASE n \notin Upto(m)
      <3>1. m # n
        BY <2>3, UptoFacts
      <3>2. (m \in kept' => m \in kept) /\ (m \in made' => m \in made)
        BY <1>2, <3>1
      <3> QED
        BY <1>1, <1>11, <2>1, <2>2, <2>3, <3>2
    <2>4. CASE n \in Upto(m)
      <3> SUFFICES ASSUME tree'[m] # "absent"
                   PROVE  /\ m \notin counted
                          /\ m \notin kept'
                          /\ m \in made' => ~AtStat(m)
        BY <1>11, <2>1, <2>2
      <3>1. life[m] = "never" /\ ~Cut(m)' /\ ~Cut(m)
        BY <1>6, <1>11, <1>13, <2>4 DEF Same, Comes, Goes
      <3>2. m \notin counted /\ (AtStat(m) => m = Root)
        BY <2>1, <3>1
      <3>3. m \notin kept'
        BY <1>2, <1>14, <2>4
      <3>4. m \in made' => m # Root
        <4>1. m \in made => m # Root
          BY OpenedFacts
        <4>2. m \in made' => m \in made \/ (m = n /\ Listed(n))
          BY <1>2
        <4> QED
          BY <4>1, <4>2 DEF Listed
      <3> QED
        BY <3>2, <3>3, <3>4
    <2> QED
      BY <2>3, <2>4
  <1>17. InOrder'
    BY <1>1, <1>5 DEF Walking, InOrder, Opening
  <1>18. NonePassedOver'
    <2>1. ASSUME NEW m \in Paths, Steady(m)', ~Abandoned
          PROVE  \/ m \in counted
                 \/ AtStat(m)
                 \/ m # Root /\ (m \in kept' \/ In[m] \notin counted \/ Opening(In[m]))
      <3>1. Steady(m) /\ n \notin Upto(m)
        BY <1>8, <2>1
      <3>2. m \in kept => m \in kept'
        BY <1>2, <3>1
      <3> QED
        BY <2>1, <3>1, <3>2 DEF Walking, NonePassedOver
    <2> QED
      BY <1>1, <2>1 DEF NonePassedOver, Abandoned, AtStat, Opening
  <1>19. AbandonedForAReason'
    <2>1. \A m \in Paths : life[m] \in {"went", "changed"} => life'[m] \in {"went", "changed"}
      BY <1>1 DEF Same, Comes, Goes
    <2>2. life[Root] # "stayed" => life'[Root] # "stayed"
      BY <1>1, UptoFacts DEF Same, Comes, Goes
    <2>3. Vanished => Vanished'
      BY <2>1, <2>2 DEF Vanished
    <2> QED
      BY <1>1, <2>3 DEF Walking, AbandonedForAReason, Abandoned
  <1> QED
    BY <1>4, <1>7, <1>9, <1>10, <1>15, <1>16, <1>17, <1>18, <1>19 DEF Walking

(* A directory that is read and was moved away, or that a link leads to, is *)
(* written: of its entries none is of a path that stayed.                  *)
LEMMA ElsewhereStep ==
  ASSUME TypeOK, Walking, Elsewhere
  PROVE  TypeOK' /\ Walking'
PROOF
  <1>1. PICK n \in Paths \ {Root} :
          at[In[n]] \in {"away", "elsewhere"} /\ made' = made \cup {n}
    BY DEF Elsewhere
  <1>2. UNCHANGED <<probe, phase, rows, tree, life, here, call, at, kept, gone, counted, again>>
    BY DEF Elsewhere
  <1>3. Opened' = Opened /\ Visited' = Visited
    BY <1>2 DEF Opened, Visited, Upto
  <1>4. In[n] \in Paths /\ In[n] \in Opened /\ n \in Inside(In[n])
    BY <1>1, UptoFacts, OpenedFacts DEF Inside
  <1>5. TypeOK'
    <2>1. kept' \cup gone' \cup made' \subseteq UNION {Inside(p) : p \in Opened'}
      BY <1>1, <1>2, <1>3, <1>4 DEF TypeOK
    <2> QED
      BY <1>2, <1>3, <2>1 DEF TypeOK
  <1>6. Clear(n) => Cut(n) /\ tree[n] = "absent"
    <2>1. Clear(n) => Cut(n)
      BY <1>1, <1>4, ClearFacts DEF Walking, StreamsFit, Cut
    <2>2. Cut(n) => tree[In[n]] = "absent"
      BY <1>4 DEF Cut, Walking, LifeFits
    <2> QED
      BY <1>1, <2>1, <2>2, TreeFacts DEF TypeOK
  <1>7. VisitedOnce' /\ StreamsFit' /\ LifeFits'
    BY <1>2, <1>3, FewerVisited, Unchanged DEF Walking, StreamsFit
  <1>8. EntriesFit'
    <2>1. \A m \in Paths : Clear(m) =>
            /\ m \in kept => life[m] \in {"stayed", "came"}
            /\ m \in gone => life[m] = "went" \/ Cut(m)
            /\ m \in made' => life[m] = "came" \/ Cut(m)
      BY <1>1, <1>6 DEF Walking, EntriesFit
    <2> QED
      BY <1>2, <2>1, Unchanged DEF Walking, EntriesFit
  <1>9. OnceOnly'
    <2>1. \A m \in Paths : Clear(m) /\ tree[m] # "absent" => (m \in made' <=> m \in made)
      BY <1>1, <1>6
    <2> QED
      BY <1>2, <2>1, Unchanged DEF Walking, OnceOnly, AtStat
  <1>10. InOrder'
    BY <1>2, UptoFacts, Unchanged DEF Walking, InOrder, Opening
  <1>11. NonePassedOver'
    BY <1>2, Unchanged DEF Walking, NonePassedOver, Abandoned, AtStat, Opening
  <1>12. AbandonedForAReason'
    BY <1>2, Unchanged DEF Walking, AbandonedForAReason, Abandoned
  <1> QED
    BY <1>5, <1>7, <1>8, <1>9, <1>10, <1>11, <1>12 DEF Walking

-----------------------------------------------------------------------------
(* The theorems.                                                           *)

LEMMA InitInv == Init => Inv
PROOF
  <1> SUFFICES ASSUME Init PROVE Inv
    OBVIOUS
  <1>1. Starts
    BY DEF Init, Starts
  <1>2. Walking
    BY <1>1, Started
  <1>3. rows \in 0..Workspaces /\ rows # Workspaces
    BY UsageAssumption DEF Init
  <1>4. TypeOK
    <2>1. /\ life \in [Paths -> Lives]
          /\ here \in Paths
          /\ call \in {"stat", "open", "next", "done"}
          /\ call = "done" => here = Root
          /\ at \in [Paths -> Places]
          /\ {p \in Paths : at[p] # "closed"} = Opened
          /\ kept \cup gone \cup made \subseteq UNION {Inside(p) : p \in Opened}
          /\ counted \subseteq Paths
          /\ again \subseteq counted
      BY <1>1, StartTypes
    <2> QED
      BY <1>3, <2>1 DEF Init, TypeOK
  <1> QED
    BY <1>2, <1>4 DEF Inv, Init, FailsForAReason

LEMMA NextInv == Inv /\ [Next]_vars => Inv'
PROOF
  <1> SUFFICES ASSUME Inv, [Next]_vars PROVE Inv'
    OBVIOUS
  <1>1. CASE UNCHANGED vars
    <2>1. UNCHANGED <<probe, phase, rows, tree, life, here, call, at, kept, gone, made,
                      counted, again>>
      BY <1>1 DEF vars, walk
    <2>2. Opened' = Opened /\ Visited' = Visited
      BY <2>1 DEF Opened, Visited, Upto
    <2>3. TypeOK' /\ FailsForAReason'
      BY <2>1, <2>2 DEF Inv, TypeOK, FailsForAReason
    <2>4. ASSUME TypeOK, Walking
          PROVE  Walking'
      <3>1. LifeFits' /\ StreamsFit' /\ VisitedOnce'
        BY <2>1, <2>2, <2>4, FewerVisited, Unchanged DEF Walking, StreamsFit
      <3>2. EntriesFit' /\ OnceOnly'
        BY <2>1, <2>4, Unchanged DEF Walking, EntriesFit, OnceOnly, AtStat
      <3>3. InOrder' /\ NonePassedOver' /\ AbandonedForAReason'
        BY <2>1, <2>4, Unchanged DEF Walking, InOrder, NonePassedOver, AbandonedForAReason,
           Abandoned, AtStat, Opening
      <3> QED
        BY <3>1, <3>2, <3>3 DEF Walking
    <2> QED
      BY <2>1, <2>3, <2>4 DEF Inv
  <1>2. CASE Walker
    BY <1>2, WalkerStep
  <1>3. ASSUME TypeOK' /\ Walking', phase' = "walking"
        PROVE  Inv'
    BY <1>3 DEF Inv, FailsForAReason
  <1>4. CASE \E n \in Paths : Change(n)
    BY <1>3, <1>4, ChangeStep DEF Change, Inv
  <1>5. CASE Elsewhere
    BY <1>3, <1>5, ElsewhereStep DEF Elsewhere, Inv
  <1>6. CASE Ended
    BY <1>1, <1>6 DEF Ended
  <1> QED
    BY <1>1, <1>2, <1>4, <1>5, <1>6 DEF Next, Others

(* When the walk of a root is done, what stayed was counted, each path     *)
(* because the directory it is in was.                                     *)
LEMMA WalkedIsCharged ==
  ASSUME TypeOK, Walking, call = "done"
  PROVE  \/ counted = {} /\ Vanished
         \/ \A n \in Paths :
              /\ Steady(n) => n \in counted
              /\ Clear(n) => n \notin again /\ (n \in counted => life[n] # "never")
PROOF
  <1>1. CASE Abandoned
    BY <1>1 DEF Walking, AbandonedForAReason, Abandoned
  <1>2. CASE ~Abandoned
    <2> DEFINE S == {n \in Paths : Steady(n) => n \in counted}
    <2>1. \A n \in Paths : Steady(n) => n \in counted \/ (n # Root /\ In[n] \notin counted)
      <3>1. kept = {}
        BY OpenedFacts
      <3> QED
        BY <1>2, <3>1 DEF Walking, NonePassedOver, AtStat, Opening
    <2>2. Root \in S
      BY <2>1, UptoFacts
    <2>3. ASSUME NEW n \in Paths \ {Root}, In[n] \in S
          PROVE  n \in S
      BY <2>1, <2>3, ClearFacts
    <2>4. S \in SUBSET Paths
      OBVIOUS
    <2> HIDE DEF S
    <2>5. S = Paths
      BY <2>2, <2>3, <2>4, TreeInduction
    <2>6. \A n \in Paths : Steady(n) => n \in counted
      BY <2>5 DEF S
    <2> QED
      BY <2>6 DEF Walking, OnceOnly
  <1> QED
    BY <1>1, <1>2

(* The directories that are open are those on the way to the next call of  *)
(* directory_size (usage.rs:105), and only they have entries to be given.  *)
THEOREM UsageTypeCorrect == Spec => []TypeOK
PROOF
  <1>1. Inv => TypeOK
    BY DEF Inv
  <1> QED
    BY InitInv, NextInv, <1>1, PTL DEF Spec

(* A root is charged once for each path that stayed, however large the     *)
(* tree, and whatever sessions and purges do between any two calls of      *)
(* directory_size (usage.rs:105); for none that was never there, and for   *)
(* none twice, unless it was replaced or made again, or what is above it;  *)
(* or for nothing, when a path vanished.                                   *)
THEOREM AlwaysChargedForWhatIsThere == Spec => []ChargedForWhatIsThere
PROOF
  <1>1. Inv => ChargedForWhatIsThere
    BY WalkedIsCharged DEF Inv, ChargedForWhatIsThere
  <1> QED
    BY InitInv, NextInv, <1>1, PTL DEF Spec

(* A report fails (usage.rs:59, 61) only when something was replaced or    *)
(* made again under the walk, when the walker is refused or, with btrfs,   *)
(* when a root is not there: never because something came or went.         *)
THEOREM AlwaysFailsForAReason == Spec => []FailsForAReason
PROOF
  <1>1. Inv => FailsForAReason
    BY DEF Inv
  <1> QED
    BY InitInv, NextInv, <1>1, PTL DEF Spec
=============================================================================
