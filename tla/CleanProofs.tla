----------------------------- MODULE CleanProofs -----------------------------
(***************************************************************************)
(* What holds as long as no command fails, the process does not restart,   *)
(* the host has what the links of a root point to and no session leaves a  *)
(* link that dangles: then no call of the control plane fails half-way.    *)
(***************************************************************************)
EXTENDS ControlPlaneProofs, InMemoryStorage

Undisturbed ==
  /\ ~Faults
  /\ ~Restarts
  /\ HostResolves = Entries
  /\ "dangling" \notin GuestLeaves

\* No member of a layout is a link without a target.
Sound(layout) == \A e \in Entries : layout[e] # "dangling"

\* The inductive invariant: nothing leaks because create and branch succeed,
\* and these succeed because no layout is in their way.
Clean ==
  /\ NothingLeaks
  /\ \A w \in DOMAIN disk.roots : Sound(disk.roots[w].layout)
  /\ \A s \in DOMAIN disk.snaps : Sound(disk.snaps[s].layout)

\* The disk e is the disk d with a root of w, whose files are c, that can be
\* completed and deleted.
Added(d, e, w, c) ==
  /\ Grown(d, e, w)
  /\ w \in DOMAIN e.roots
  /\ e.roots[w].data = c
  /\ e.roots[w].nested = {}
  /\ Sound(e.roots[w].layout)

-----------------------------------------------------------------------------
(* Storage calls on a sound disk have one outcome.                         *)

(* The layout of a sound root is completed (layout.rs:9).                  *)
LEMMA InitializeCompletes ==
  ASSUME Undisturbed, NEW d, IsDisk(d), NEW w \in DOMAIN d.roots,
         Sound(d.roots[w].layout)
  PROVE  \E l \in [Entries -> EntryStates] :
           /\ Sound(l)
           /\ InitializeWorkspaceRoot(d, w) = {Ok([d EXCEPT !.roots[w].layout = l])}
PROOF
  <1> DEFINE layout == d.roots[w].layout
             l      == LayoutAfter(layout, Len(Layout))
  <1>1. layout \in [Entries -> EntryStates]
    BY DEF IsDisk, IsMap, Root
  <1>2. l \in [Entries -> EntryStates]
    BY <1>1, LayoutAfterType
  <1>3. Sound(l)
    BY DEF Undisturbed, Sound, LayoutAfter, Created
  <1>4. {n \in 1..Len(Layout) : layout[Layout[n]] = "dangling"} = {}
    BY StorageAssumption DEF Sound, Entries
  <1> HIDE DEF layout, l
  <1>5. InitializeRoot(layout) = {[ok |-> TRUE, layout |-> l]}
    <2>1. {n \in (IF Faults THEN 1..Len(Layout)
                  ELSE {n \in 1..Len(Layout) : layout[Layout[n]] = "dangling"}) :
             \A m \in {k \in 1..Len(Layout) : layout[Layout[k]] = "dangling"} : n <= m}
            = {}
      BY <1>4 DEF Undisturbed
    <2> QED
      BY <1>4, <2>1 DEF InitializeRoot, l
  <1>6. InitializeWorkspaceRoot(d, w) = {Ok([d EXCEPT !.roots[w].layout = l])}
    <2> DEFINE Result(r) == [ok |-> r.ok, disk |-> [d EXCEPT !.roots[w].layout = r.layout]]
    <2>1. InitializeWorkspaceRoot(d, w) = {Result(r) : r \in InitializeRoot(layout)}
      BY DEF InitializeWorkspaceRoot, layout
    <2>2. Result([ok |-> TRUE, layout |-> l]) = Ok([d EXCEPT !.roots[w].layout = l])
      BY DEF Ok
    <2> HIDE DEF Result
    <2> QED
      BY <1>5, <2>1, <2>2
  <1> WITNESS l \in [Entries -> EntryStates]
  <1> QED
    BY <1>3, <1>6

(* A new root of a sound layout is put on the disk and completed.          *)
LEMMA NewRootCompletes ==
  ASSUME Undisturbed, NEW d, IsDisk(d), NEW w \in WorkspaceIds,
         w \notin DOMAIN d.roots, NEW r \in Root, Sound(r.layout), r.nested = {},
         NEW first, first = {Ok([d EXCEPT !.roots = Put(d.roots, w, r)])}
  PROVE  \E e : Then(first, LAMBDA x : InitializeWorkspaceRoot(x, w)) = {Ok(e)} /\ Added(d, e, w, r.data)
PROOF
  <1> DEFINE n == [d EXCEPT !.roots = Put(d.roots, w, r)]
  <1>1. Grown(d, n, w) /\ n.roots[w] = r /\ w \in DOMAIN n.roots
    BY PutRootGrows
  <1> HIDE DEF n
  <1>2. IsDisk(n)
    BY <1>1 DEF Grown
  <1>3. PICK l \in [Entries -> EntryStates] :
          /\ Sound(l)
          /\ InitializeWorkspaceRoot(n, w) = {Ok([n EXCEPT !.roots[w].layout = l])}
    BY <1>1, <1>2, InitializeCompletes
  <1> DEFINE e == [n EXCEPT !.roots[w].layout = l]
  <1>4. Then(first, LAMBDA x : InitializeWorkspaceRoot(x, w))
          = InitializeWorkspaceRoot(n, w)
    BY DEF Then, Ok, n
  <1>5. Ok(e) \in InitializeWorkspaceRoot(n, w)
    BY <1>3
  <1>6. /\ IsDisk(e)
        /\ e.snaps = n.snaps
        /\ DOMAIN e.roots = DOMAIN n.roots
        /\ \A v \in DOMAIN n.roots : v # w => e.roots[v] = n.roots[v]
        /\ e.roots[w].data = n.roots[w].data
    <2> HIDE DEF e
    <2>1. PICK o \in InitializeWorkspaceRoot(n, w) : o = Ok(e)
      BY <1>5
    <2>2. w \in DOMAIN n.roots
      BY <1>1
    <2>3. o.disk = e
      BY <2>1 DEF Ok
    <2> QED
      BY <1>2, <2>2, <2>3, InitializeFacts
  <1>7. e.roots[w].layout = l /\ e.roots[w].nested = {}
    BY <1>1, <1>2 DEF IsDisk, Root
  <1>8. Grown(d, e, w)
    BY <1>1, <1>6 DEF Grown
  <1> HIDE DEF e
  <1>9. /\ Then(first, LAMBDA x : InitializeWorkspaceRoot(x, w)) = {Ok(e)}
        /\ Added(d, e, w, r.data)
    BY <1>1, <1>3, <1>4, <1>6, <1>7, <1>8 DEF e, Added
  <1> QED
    BY <1>9

(* btrfs create of an id that has no root.                                 *)
LEMMA CreateCompletes ==
  ASSUME Undisturbed, NEW d, IsDisk(d), NEW w \in WorkspaceIds, w \notin DOMAIN d.roots
  PROVE  \E e : BtrfsCreate(d, w) = {Ok(e)} /\ Added(d, e, w, Pristine)
PROOF
  <1> DEFINE r == [data |-> Pristine, layout |-> [e \in Entries |-> "absent"],
                   quota |-> NoQuota, nested |-> {}]
  <1>1. r \in Root
    BY EmptyRootType
  <1>2. Sound(r.layout) /\ r.nested = {} /\ r.data = Pristine
    BY DEF Sound
  <1>3. SubvolumeCreate(d, w) = {Ok([d EXCEPT !.roots = Put(d.roots, w, r)])}
    BY DEF SubvolumeCreate, Command, Undisturbed
  <1> HIDE DEF r
  <1> QED
    BY <1>1, <1>2, <1>3, NewRootCompletes DEF BtrfsCreate

(* btrfs clone of a sound image to an id that has no root.                 *)
LEMMA CloneCompletes ==
  ASSUME Undisturbed, NEW d, IsDisk(d), NEW w \in WorkspaceIds, w \notin DOMAIN d.roots,
         NEW s \in DOMAIN d.snaps, Sound(d.snaps[s].layout)
  PROVE  \E e : BtrfsClone(d, s, w) = {Ok(e)} /\ Added(d, e, w, d.snaps[s].data)
PROOF
  <1> DEFINE r == [data |-> d.snaps[s].data, layout |-> d.snaps[s].layout,
                   quota |-> NoQuota, nested |-> {}]
  <1>1. r \in Root
    BY DEF IsDisk, IsMap, Image, Root
  <1>2. Sound(r.layout) /\ r.nested = {} /\ r.data = d.snaps[s].data
    OBVIOUS
  <1>3. SubvolumeClone(d, s, w) = {Ok([d EXCEPT !.roots = Put(d.roots, w, r)])}
    BY DEF SubvolumeClone, Command, Undisturbed
  <1> HIDE DEF r
  <1> QED
    BY <1>1, <1>2, <1>3, NewRootCompletes DEF BtrfsClone

(* A quota that is set changes nothing else.                               *)
LEMMA QuotaCompletes ==
  ASSUME Undisturbed, NEW d, IsDisk(d), NEW w \in DOMAIN d.roots, NEW limits \in Limits
  PROVE  \E e :
           /\ BtrfsSetQuota(d, w, limits) = {Ok(e)}
           /\ Grown(d, e, w)
           /\ DOMAIN e.roots = DOMAIN d.roots
           /\ e.roots[w].nested = d.roots[w].nested
           /\ e.roots[w].layout = d.roots[w].layout
PROOF
  <1> DEFINE e == [d EXCEPT !.roots[w].quota = limits]
  <1>1. BtrfsSetQuota(d, w, limits) = {Ok(e)}
    BY DEF BtrfsSetQuota, Command, Undisturbed
  <1>2. w \in WorkspaceIds /\ d.roots[w] \in Root
    BY DEF IsDisk, IsMap
  <1>3. Grown(d, e, w) /\ DOMAIN e.roots = DOMAIN d.roots
    <2> HIDE DEF e
    <2>1. Ok(e) \in BtrfsSetQuota(d, w, limits) /\ Ok(e).disk = e
      BY <1>1 DEF Ok
    <2>2. Grown(d, Ok(e).disk, w) /\ DOMAIN Ok(e).disk.roots = DOMAIN d.roots
      BY <1>2, <2>1, QuotaFacts
    <2> QED
      BY <2>1, <2>2
  <1>4. e.roots[w] = [d.roots[w] EXCEPT !.quota = limits]
    BY DEF IsDisk
  <1>5. e.roots[w].nested = d.roots[w].nested /\ e.roots[w].layout = d.roots[w].layout
    BY <1>2, <1>4 DEF Root
  <1> HIDE DEF e
  <1> QED
    BY <1>1, <1>3, <1>5

(* Storage and quota of a new workspace.                                   *)
LEMMA AdmissionCompletes ==
  ASSUME Undisturbed, NEW d, NEW w \in WorkspaceIds, NEW e, NEW c,
         Added(d, e, w, c)
  PROVE  \E f : BtrfsSetQuota(e, w, DefaultLimits) = {Ok(f)} /\ Added(d, f, w, c)
PROOF
  <1>1. IsDisk(e) /\ w \in DOMAIN e.roots
    BY DEF Added, Grown
  <1>2. PICK f : /\ BtrfsSetQuota(e, w, DefaultLimits) = {Ok(f)}
                 /\ Grown(e, f, w)
                 /\ DOMAIN f.roots = DOMAIN e.roots
                 /\ f.roots[w].nested = e.roots[w].nested
                 /\ f.roots[w].layout = e.roots[w].layout
    BY <1>1, QuotaCompletes, ControlPlaneAssumption
  <1>3. Added(d, f, w, c)
    BY <1>1, <1>2 DEF Added, Grown
  <1> QED
    BY <1>2, <1>3

-----------------------------------------------------------------------------
(* The operations keep the disk clean.                                     *)

(* create and branch record the root they made.                            *)
LEMMA AdmitClean ==
  ASSUME Undisturbed, Clean, NEW w \in WorkspaceIds,
         w \notin DOMAIN workspaces, NEW parent, NEW c, NEW storage,
         \E e : storage = {Ok(e)} /\ Added(disk, e, w, c),
         Admit(w, parent, storage), UNCHANGED snapshots
  PROVE  /\ Clean'
         /\ workspaces' = Put(workspaces, w, NewWorkspace(parent))
         /\ disk'.roots[w].data = c
PROOF
  <1>1. w \notin DOMAIN disk.roots
    BY DEF Clean, NothingLeaks
  <1>2. PICK e : storage = {Ok(e)} /\ Added(disk, e, w, c)
    OBVIOUS
  <1>3. PICK f : BtrfsSetQuota(e, w, DefaultLimits) = {Ok(f)} /\ Added(disk, f, w, c)
    BY <1>2, AdmissionCompletes
  <1>4. disk' = f /\ workspaces' = Put(workspaces, w, NewWorkspace(parent))
    BY <1>2, <1>3 DEF Admit, Then, Ok
  <1>5. DOMAIN workspaces' = DOMAIN workspaces \cup {w}
    BY <1>4 DEF Put
  <1>6. /\ disk'.snaps = disk.snaps
        /\ DOMAIN disk'.roots = DOMAIN disk.roots \cup {w}
        /\ \A v \in DOMAIN disk.roots : disk'.roots[v] = disk.roots[v]
        /\ disk'.roots[w].nested = {}
        /\ Sound(disk'.roots[w].layout)
        /\ disk'.roots[w].data = c
    BY <1>1, <1>3, <1>4 DEF Added, Grown
  <1> QED
    BY <1>4, <1>5, <1>6 DEF Clean, NothingLeaks

(* A purge takes the record and the subvolume, or neither.                 *)
LEMMA PurgeClean ==
  ASSUME TypeOK, Clean, NEW action, NEW ok \in BOOLEAN, Purge(action, ok)
  PROVE  Clean'
PROOF
  <1>1. CASE UNCHANGED <<workspaces, snapshots, disk>>
    BY <1>1 DEF Clean, NothingLeaks, Sound
  <1>2. ASSUME NEW w, NEW o \in BtrfsDeleteWorkspace(disk, w),
               disk' = o.disk,
               workspaces' = IF o.ok THEN Drop(workspaces, w) ELSE workspaces,
               UNCHANGED snapshots
        PROVE  Clean'
    <2>1. /\ o.ok \in BOOLEAN
          /\ o.disk.snaps = disk.snaps
          /\ ~o.ok => o.disk = disk
          /\ o.ok => /\ DOMAIN o.disk.roots = DOMAIN disk.roots \ {w}
                     /\ \A v \in DOMAIN disk.roots \ {w} : o.disk.roots[v] = disk.roots[v]
      BY DeleteWorkspaceFacts DEF TypeOK
    <2>2. o.ok => DOMAIN workspaces' = DOMAIN workspaces \ {w}
      BY <1>2, DropFacts
    <2> QED
      BY <1>2, <2>1, <2>2 DEF Clean, NothingLeaks
  <1>3. ASSUME NEW s, NEW o \in BtrfsDeleteSnapshot(disk, s),
               disk' = o.disk,
               snapshots' = IF o.ok THEN Drop(snapshots, s) ELSE snapshots,
               UNCHANGED workspaces
        PROVE  Clean'
    <2>1. /\ o.ok \in BOOLEAN
          /\ o.disk.roots = disk.roots
          /\ ~o.ok => o.disk = disk
          /\ o.ok => /\ DOMAIN o.disk.snaps = DOMAIN disk.snaps \ {s}
                     /\ \A v \in DOMAIN disk.snaps \ {s} : o.disk.snaps[v] = disk.snaps[v]
      BY DeleteSnapshotFacts DEF TypeOK
    <2>2. o.ok => DOMAIN snapshots' = DOMAIN snapshots \ {s}
      BY <1>3, DropFacts
    <2> QED
      BY <1>3, <2>1, <2>2 DEF Clean, NothingLeaks
  <1> QED
    BY <1>1, <1>2, <1>3 DEF Purge, PurgeWorkspace, PurgeSnapshot

(* A session leaves neither a subvolume nor a dangling link.               *)
LEMMA SessionClean ==
  ASSUME Undisturbed, TypeOK, Clean, NEW w \in WorkspaceIds, OpenSession(w)
  PROVE  Clean'
PROOF
  <1>1. /\ DOMAIN workspaces' = DOMAIN workspaces
        /\ UNCHANGED snapshots
        /\ RunSession(w)
    BY DEF OpenSession
  <1>2. CASE UNCHANGED disk
    BY <1>1, <1>2 DEF Clean, NothingLeaks
  <1>3. ASSUME w \in DOMAIN disk.roots,
               NEW c \in Contents, NEW l \in [Entries -> GuestLeaves],
               NEW n \in SUBSET disk.roots[w].nested,
               disk' = [disk EXCEPT !.roots[w].data = c, !.roots[w].layout = l,
                                    !.roots[w].nested = n]
        PROVE  Clean'
    <2>1. IsDisk(disk) /\ disk.roots[w] \in Root
      BY <1>3 DEF TypeOK, IsDisk, IsMap
    <2>2. /\ disk'.snaps = disk.snaps
          /\ DOMAIN disk'.roots = DOMAIN disk.roots
          /\ \A v \in DOMAIN disk.roots : v # w => disk'.roots[v] = disk.roots[v]
          /\ disk'.roots[w].layout = l
          /\ disk'.roots[w].nested = n
      BY <1>3, <2>1 DEF IsDisk, Root
    <2>3. n = {}
      BY <1>3 DEF Clean, NothingLeaks
    <2>4. Sound(l)
      BY DEF Sound, Undisturbed
    <2> QED
      BY <1>1, <2>2, <2>3, <2>4 DEF Clean, NothingLeaks
  <1> QED
    BY <1>1, <1>2, <1>3 DEF RunSession

(* Every operation keeps the disk clean.                                   *)
LEMMA NextClean ==
  ASSUME Undisturbed
  PROVE  TypeOK /\ Clean /\ [Next]_vars => Clean'
PROOF
  <1> SUFFICES ASSUME TypeOK, Clean, [Next]_vars PROVE Clean'
    OBVIOUS
  <1>0. IsDisk(disk)
    BY DEF TypeOK
  <1>a. ASSUME UNCHANGED <<snapshots, disk>>, DOMAIN workspaces' = DOMAIN workspaces
        PROVE  Clean'
    BY <1>a DEF Clean, NothingLeaks
  <1>1. ASSUME NEW w \in WorkspaceIds, CreateWorkspace(w) PROVE Clean'
    <2>1. w \notin DOMAIN workspaces /\ w \notin DOMAIN disk.roots
      BY <1>1 DEF CreateWorkspace, Clean, NothingLeaks
    <2> QED
      BY <1>0, <1>1, <2>1, CreateCompletes, AdmitClean DEF CreateWorkspace
  <1>2. ASSUME NEW w \in WorkspaceIds, NEW s \in SnapshotIds, BranchWorkspace(s, w)
        PROVE  Clean'
    <2>1. /\ w \notin DOMAIN workspaces /\ w \notin DOMAIN disk.roots
          /\ s \in DOMAIN disk.snaps /\ Sound(disk.snaps[s].layout)
      BY <1>2 DEF BranchWorkspace, Clean, NothingLeaks
    <2> QED
      BY <1>0, <1>2, <2>1, CloneCompletes, AdmitClean DEF BranchWorkspace
  <1>3. ASSUME NEW w \in WorkspaceIds, NEW s \in SnapshotIds, SnapshotWorkspace(w, s)
        PROVE  Clean'
    <2> DEFINE image == [data |-> disk.roots[w].data, layout |-> disk.roots[w].layout]
               e     == [disk EXCEPT !.snaps = Put(disk.snaps, s, image)]
    <2>1. w \in DOMAIN disk.roots /\ s \notin DOMAIN disk.snaps /\ s \notin DOMAIN snapshots
      BY <1>3 DEF SnapshotWorkspace, Ready, Clean, NothingLeaks
    <2>2. BtrfsSnapshot(disk, w, s) = {Ok(e)}
      BY <2>1 DEF BtrfsSnapshot, SubvolumeSnapshot, Command, Undisturbed
    <2>3. /\ disk' = e
          /\ DOMAIN snapshots' = DOMAIN snapshots \cup {s}
          /\ UNCHANGED workspaces
      BY <1>3, <2>2 DEF SnapshotWorkspace, Ok, Put
    <2>4. e.roots = disk.roots /\ e.snaps = Put(disk.snaps, s, image)
      BY <1>0 DEF IsDisk
    <2> HIDE DEF e
    <2>5. Sound(image.layout)
      BY <2>1 DEF Clean
    <2> HIDE DEF image
    <2>6. /\ DOMAIN e.snaps = DOMAIN disk.snaps \cup {s}
          /\ e.snaps[s] = image
          /\ \A v \in DOMAIN disk.snaps : e.snaps[v] = disk.snaps[v]
      BY <2>1, <2>4 DEF Put
    <2> QED
      BY <2>3, <2>4, <2>5, <2>6 DEF Clean, NothingLeaks
  <1>4. ASSUME NEW action \in GcAction, PurgeOne(action) PROVE Clean'
    BY <1>4, PurgeClean DEF PurgeOne
  <1>5. CASE GcStep
    BY <1>5, PurgeClean DEF GcStep
  <1>6. ASSUME NEW w \in WorkspaceIds, NEW limits \in Limits, SetLimits(w, limits)
        PROVE  Clean'
    <2>1. w \in DOMAIN disk.roots
      BY <1>6 DEF SetLimits, Ready, Clean, NothingLeaks
    <2>2. PICK e : /\ BtrfsSetQuota(disk, w, limits) = {Ok(e)}
                   /\ Grown(disk, e, w)
                   /\ DOMAIN e.roots = DOMAIN disk.roots
                   /\ e.roots[w].nested = disk.roots[w].nested
                   /\ e.roots[w].layout = disk.roots[w].layout
      BY <1>0, <2>1, QuotaCompletes
    <2>3. disk' = e /\ DOMAIN workspaces' = DOMAIN workspaces /\ UNCHANGED snapshots
      BY <1>6, <2>2 DEF SetLimits, Ok
    <2> QED
      BY <2>2, <2>3 DEF Clean, NothingLeaks, Grown
  <1>7. ASSUME NEW w \in WorkspaceIds, OpenSession(w) PROVE Clean'
    BY <1>7, SessionClean
  <1>8. CASE \/ \E w \in WorkspaceIds : DeleteWorkspace(w)
             \/ \E w \in WorkspaceIds, p \in PolicyIds, kind \in PolicyKinds :
                  SetNetworkPolicy(w, p, kind)
             \/ \E actions \in GcLists : ExecuteGcActions(actions)
             \/ Tick
             \/ UNCHANGED vars
    BY <1>8, <1>a DEF DeleteWorkspace, SetNetworkPolicy, ExecuteGcActions, Tick, vars
  <1>9. CASE Restart
    BY <1>9 DEF Restart, Undisturbed
  <1> QED
    BY <1>1, <1>2, <1>3, <1>4, <1>5, <1>6, <1>7, <1>8, <1>9 DEF Next, Operation

(* An empty disk is clean.                                                 *)
LEMMA InitClean == Init => Clean
BY DEF Init, Clean, NothingLeaks, EmptyMap

(* The inductive invariant holds of every behaviour.                       *)
LEMMA AlwaysClean ==
  ASSUME Undisturbed
  PROVE  Spec => []Clean
PROOF
  <1>1. TypeOK /\ Clean /\ [Next]_vars => Clean'
    BY NextClean
  <1> QED
    BY <1>1, InitClean, TypeCorrect, PTL DEF Spec

(* As long as nothing fails, storage holds the subvolumes of the metadata  *)
(* and no other, however long the sequence of calls (control.rs:219).      *)
THEOREM NothingEverLeaks ==
  ASSUME Undisturbed
  PROVE  Spec => []NothingLeaks
PROOF
  <1>1. Clean => NothingLeaks
    BY DEF Clean
  <1> QED
    BY <1>1, AlwaysClean, PTL

-----------------------------------------------------------------------------
(* A branch starts as its snapshot.                                        *)

Copied ==
  \A w \in DOMAIN workspaces' \ DOMAIN workspaces :
    workspaces'[w].parent # NoSnapshot =>
      disk'.roots[w].data = disk.snaps[workspaces'[w].parent].data

(* The only way into the metadata with a parent is branch_from_snapshot,   *)
(* and the id it is given has no root that could be in the way.            *)
LEMMA NextCopied ==
  ASSUME Undisturbed
  PROVE  TypeOK /\ Clean /\ [Next]_vars => Copied
PROOF
  <1> SUFFICES ASSUME TypeOK, Clean, [Next]_vars PROVE Copied
    OBVIOUS
  <1>a. ASSUME DOMAIN workspaces' \subseteq DOMAIN workspaces PROVE Copied
    BY <1>a DEF Copied
  <1>1. ASSUME NEW w \in WorkspaceIds, CreateWorkspace(w) PROVE Copied
    <2>1. \/ workspaces' = workspaces
          \/ workspaces' = Put(workspaces, w, NewWorkspace(NoSnapshot))
      BY <1>1, CreateAdmits
    <2>2. CASE workspaces' = Put(workspaces, w, NewWorkspace(NoSnapshot))
      <3>1. /\ DOMAIN workspaces' = DOMAIN workspaces \cup {w}
            /\ workspaces'[w].parent = NoSnapshot
        BY <2>2 DEF Put, NewWorkspace
      <3> QED
        BY <3>1 DEF Copied
    <2> QED
      BY <1>a, <2>1, <2>2
  <1>2. ASSUME NEW w \in WorkspaceIds, NEW s \in SnapshotIds, BranchWorkspace(s, w)
        PROVE  Copied
    <2>1. /\ w \notin DOMAIN workspaces /\ w \notin DOMAIN disk.roots
          /\ s \in DOMAIN disk.snaps /\ Sound(disk.snaps[s].layout)
          /\ UNCHANGED snapshots
          /\ Admit(w, s, BtrfsClone(disk, s, w))
      BY <1>2 DEF BranchWorkspace, Clean, NothingLeaks
    <2>2. \E e : /\ BtrfsClone(disk, s, w) = {Ok(e)}
                 /\ Added(disk, e, w, disk.snaps[s].data)
      BY <2>1, CloneCompletes DEF TypeOK
    <2>3. /\ workspaces' = Put(workspaces, w, NewWorkspace(s))
          /\ disk'.roots[w].data = disk.snaps[s].data
      BY <2>1, <2>2, AdmitClean
    <2>4. /\ DOMAIN workspaces' = DOMAIN workspaces \cup {w}
          /\ workspaces'[w].parent = s
      BY <2>3 DEF Put, NewWorkspace
    <2> QED
      BY <2>3, <2>4 DEF Copied
  <1>3. ASSUME NEW action \in GcAction, NEW ok \in BOOLEAN, Purge(action, ok) PROVE Copied
    BY <1>3, <1>a, PurgeFacts
  <1>4. ASSUME NEW action \in GcAction, PurgeOne(action) PROVE Copied
    BY <1>3, <1>4 DEF PurgeOne
  <1>5. CASE GcStep
    <2>1. Head(queue) \in GcAction
      BY <1>5 DEF GcStep, Idle, TypeOK
    <2> QED
      BY <1>3, <1>5, <2>1 DEF GcStep
  <1>6. CASE \E w \in WorkspaceIds :
               \/ DeleteWorkspace(w)
               \/ OpenSession(w)
               \/ \E limits \in Limits : SetLimits(w, limits)
               \/ \E p \in PolicyIds, kind \in PolicyKinds : SetNetworkPolicy(w, p, kind)
    BY <1>6, <1>a DEF DeleteWorkspace, OpenSession, SetLimits, SetNetworkPolicy
  <1>7. CASE \/ \E w \in WorkspaceIds, s \in SnapshotIds : SnapshotWorkspace(w, s)
             \/ \E actions \in GcLists : ExecuteGcActions(actions)
             \/ Tick
             \/ UNCHANGED vars
    BY <1>7, <1>a DEF SnapshotWorkspace, ExecuteGcActions, Tick, vars
  <1>8. CASE Restart
    BY <1>8, <1>a DEF Restart, EmptyMap
  <1> QED
    BY <1>1, <1>2, <1>4, <1>5, <1>6, <1>7, <1>8 DEF Next, Operation

(* As long as nothing fails, a branch has the files of its snapshot and    *)
(* not those of a root that was left in its place (storage.rs:194).        *)
THEOREM BranchesAreCopies ==
  ASSUME Undisturbed
  PROVE  Spec => BranchesCopyTheirSnapshot
PROOF
  <1>1. TypeOK /\ Clean /\ [Next]_vars => [Copied]_vars
    BY NextCopied
  <1> QED
    BY <1>1, TypeCorrect, AlwaysClean, PTL DEF Spec, BranchesCopyTheirSnapshot, Copied

-----------------------------------------------------------------------------
(* On a clean disk the two backends answer alike.                          *)

(* A call with one outcome agrees with one whose outcome has the same ids. *)
LEMMA OneOutcome ==
  ASSUME NEW e, NEW m, m = Ids(e), NEW btrfs, btrfs = {Ok(e)}
  PROVE  Agree(btrfs, {Ok(m)})
PROOF
  <1> DEFINE Result(o) == [ok |-> o.ok, disk |-> Ids(o.disk)]
  <1>1. Agree(btrfs, {Ok(m)}) <=> {Result(o) : o \in btrfs} = {Ok(m)}
    BY DEF Agree
  <1>2. Result(Ok(e)) = Ok(m)
    BY DEF Ok
  <1> HIDE DEF Result
  <1> QED
    BY <1>1, <1>2

(* create and clone, with the quota that follows.                          *)
LEMMA AdmissionsAgree ==
  ASSUME Undisturbed, NEW w \in WorkspaceIds, w \notin DOMAIN disk.roots, NEW c,
         NEW storage, \E e : storage = {Ok(e)} /\ Added(disk, e, w, c)
  PROVE  Agree(Then(storage, LAMBDA d : BtrfsSetQuota(d, w, DefaultLimits)),
               Then(MemoryCreate(Ids(disk), w), LAMBDA n : MemorySetQuota(n, w)))
PROOF
  <1> DEFINE m == [Ids(disk) EXCEPT !.workspaces = @ \cup {w}]
  <1>1. PICK e : storage = {Ok(e)} /\ Added(disk, e, w, c)
    OBVIOUS
  <1>2. PICK f : BtrfsSetQuota(e, w, DefaultLimits) = {Ok(f)} /\ Added(disk, f, w, c)
    BY <1>1, AdmissionCompletes
  <1>3. Then(storage, LAMBDA d : BtrfsSetQuota(d, w, DefaultLimits)) = {Ok(f)}
    BY <1>1, <1>2 DEF Then, Ok
  <1>4. MemoryCreate(Ids(disk), w) = {Ok(m)} /\ w \in m.workspaces
    BY DEF MemoryCreate, Ids
  <1>5. m = Ids(f)
    <2>1. f.snaps = disk.snaps /\ DOMAIN f.roots = DOMAIN disk.roots \cup {w}
      BY <1>2 DEF Added, Grown
    <2> QED
      BY <2>1 DEF Ids
  <1> HIDE DEF m
  <1>6. Then(MemoryCreate(Ids(disk), w), LAMBDA n : MemorySetQuota(n, w)) = {Ok(m)}
    BY <1>4 DEF Then, Ok, MemorySetQuota
  <1>7. \A btrfs, memory : btrfs = {Ok(f)} /\ memory = {Ok(m)} => Agree(btrfs, memory)
    BY <1>5, OneOutcome
  <1> QED
    BY <1>3, <1>6, <1>7

LEMMA CleanAgrees ==
  ASSUME Undisturbed
  PROVE  TypeOK /\ Clean => BackendsAgree
PROOF
  <1> SUFFICES ASSUME TypeOK, Clean PROVE BackendsAgree
    OBVIOUS
  <1> DEFINE m == Ids(disk)
  <1>0. IsDisk(disk)
    BY DEF TypeOK
  <1>1. ASSUME NEW w \in WorkspaceIds \ DOMAIN workspaces
        PROVE  Agree(Then(BtrfsCreate(disk, w),
                          LAMBDA d : BtrfsSetQuota(d, w, DefaultLimits)),
                     Then(MemoryCreate(m, w), LAMBDA n : MemorySetQuota(n, w)))
    <2>1. w \notin DOMAIN disk.roots
      BY DEF Clean, NothingLeaks
    <2> QED
      BY <1>0, <2>1, CreateCompletes, AdmissionsAgree
  <1>2. ASSUME NEW w \in WorkspaceIds \ DOMAIN workspaces, NEW s \in DOMAIN snapshots
        PROVE  Agree(Then(BtrfsClone(disk, s, w),
                          LAMBDA d : BtrfsSetQuota(d, w, DefaultLimits)),
                     Then(MemoryClone(m, s, w), LAMBDA n : MemorySetQuota(n, w)))
    <2>1. /\ w \notin DOMAIN disk.roots
          /\ s \in DOMAIN disk.snaps
          /\ Sound(disk.snaps[s].layout)
      BY DEF Clean, NothingLeaks
    <2>2. MemoryClone(m, s, w) = MemoryCreate(m, w)
      BY <2>1 DEF MemoryClone, Ids
    <2> QED
      BY <1>0, <2>1, <2>2, CloneCompletes, AdmissionsAgree
  <1>3. ASSUME NEW w \in DOMAIN workspaces, NEW s \in SnapshotIds \ DOMAIN snapshots
        PROVE  Agree(BtrfsSnapshot(disk, w, s), MemorySnapshot(m, w, s))
    <2> DEFINE image == [data |-> disk.roots[w].data, layout |-> disk.roots[w].layout]
               e     == [disk EXCEPT !.snaps = Put(disk.snaps, s, image)]
    <2>1. w \in DOMAIN disk.roots /\ s \notin DOMAIN disk.snaps
      BY DEF Clean, NothingLeaks
    <2>2. BtrfsSnapshot(disk, w, s) = {Ok(e)}
      BY <2>1 DEF BtrfsSnapshot, SubvolumeSnapshot, Command, Undisturbed
    <2>3. e.roots = disk.roots /\ DOMAIN e.snaps = DOMAIN disk.snaps \cup {s}
      BY <1>0 DEF IsDisk, Put
    <2> HIDE DEF e
    <2>4. MemorySnapshot(m, w, s) = {Ok(Ids(e))}
      BY <2>1, <2>3 DEF MemorySnapshot, Ids
    <2> QED
      BY <2>2, <2>4, OneOutcome
  <1>4. ASSUME NEW w \in DOMAIN workspaces, NEW limits \in Limits
        PROVE  Agree(BtrfsSetQuota(disk, w, limits), MemorySetQuota(m, w))
    <2>1. w \in DOMAIN disk.roots
      BY DEF Clean, NothingLeaks
    <2>2. PICK e : /\ BtrfsSetQuota(disk, w, limits) = {Ok(e)}
                   /\ Grown(disk, e, w)
                   /\ DOMAIN e.roots = DOMAIN disk.roots
      BY <1>0, <2>1, QuotaCompletes
    <2>3. MemorySetQuota(m, w) = {Ok(Ids(e))}
      BY <2>1, <2>2 DEF MemorySetQuota, Ids, Grown
    <2> QED
      BY <2>2, <2>3, OneOutcome
  <1>5. ASSUME NEW w \in DOMAIN workspaces
        PROVE  Agree(BtrfsDeleteWorkspace(disk, w), MemoryDeleteWorkspace(m, w))
    <2> DEFINE e == [disk EXCEPT !.roots = Drop(disk.roots, w)]
    <2>1. w \in DOMAIN disk.roots /\ disk.roots[w].nested = {}
      BY DEF Clean, NothingLeaks
    <2>2. BtrfsDeleteWorkspace(disk, w) = {Ok(e)}
      BY <2>1 DEF BtrfsDeleteWorkspace, Command, Undisturbed
    <2>3. e.snaps = disk.snaps /\ DOMAIN e.roots = DOMAIN disk.roots \ {w}
      BY <1>0, DropFacts DEF IsDisk
    <2> HIDE DEF e
    <2>4. MemoryDeleteWorkspace(m, w) = {Ok(Ids(e))}
      BY <2>1, <2>3 DEF MemoryDeleteWorkspace, Ids
    <2> QED
      BY <2>2, <2>4, OneOutcome
  <1>6. ASSUME NEW s \in DOMAIN snapshots
        PROVE  Agree(BtrfsDeleteSnapshot(disk, s), MemoryDeleteSnapshot(m, s))
    <2> DEFINE e == [disk EXCEPT !.snaps = Drop(disk.snaps, s)]
    <2>1. s \in DOMAIN disk.snaps
      BY DEF Clean, NothingLeaks
    <2>2. BtrfsDeleteSnapshot(disk, s) = {Ok(e)}
      BY <2>1 DEF BtrfsDeleteSnapshot, Command, Undisturbed
    <2>3. e.roots = disk.roots /\ DOMAIN e.snaps = DOMAIN disk.snaps \ {s}
      BY <1>0, DropFacts DEF IsDisk
    <2> HIDE DEF e
    <2>4. MemoryDeleteSnapshot(m, s) = {Ok(Ids(e))}
      BY <2>1, <2>3 DEF MemoryDeleteSnapshot, Ids
    <2> QED
      BY <2>2, <2>4, OneOutcome
  <1> QED
    BY <1>1, <1>2, <1>3, <1>4, <1>5, <1>6 DEF BackendsAgree

(* As long as nothing fails, what the control plane asks of storage turns  *)
(* out on btrfs as on the backend of the tests (storage.rs:45).            *)
THEOREM BackendsAlwaysAgree ==
  ASSUME Undisturbed
  PROVE  Spec => []BackendsAgree
PROOF
  <1>1. TypeOK /\ Clean => BackendsAgree
    BY CleanAgrees
  <1> QED
    BY <1>1, TypeCorrect, AlwaysClean, PTL
=============================================================================
