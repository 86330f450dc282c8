------------------------- MODULE ControlPlaneProofs -------------------------
(***************************************************************************)
(* Theorems about the control plane, for any number of workspaces,         *)
(* snapshots, policies and limits, with faults and restarts.               *)
(***************************************************************************)
EXTENDS ControlPlane, FiniteSetTheorems, TLAPS

-----------------------------------------------------------------------------
(* What the operations of Maps and Storage return, for every disk: facts   *)
(* the proofs about the control plane cite instead of the definitions.     *)


(* BTreeMap::insert keeps every other key, and the map well-typed.         *)
LEMMA PutFacts ==
  ASSUME NEW f, NEW k, NEW v
  PROVE  /\ DOMAIN Put(f, k, v) = DOMAIN f \cup {k}
         /\ Put(f, k, v)[k] = v
         /\ \A x \in DOMAIN f : x # k => Put(f, k, v)[x] = f[x]
         /\ \A K, V : IsMap(f, K, V) /\ k \in K /\ v \in V => IsMap(Put(f, k, v), K, V)
BY DEF Put, IsMap

(* BTreeMap::remove drops its key alone.                                   *)
LEMMA DropFacts ==
  ASSUME NEW f, NEW k
  PROVE  /\ DOMAIN Drop(f, k) = DOMAIN f \ {k}
         /\ \A x \in DOMAIN f \ {k} : Drop(f, k)[x] = f[x]
         /\ \A K, V : IsMap(f, K, V) => IsMap(Drop(f, k), K, V)
BY DEF Drop, Restrict, IsMap

(* A command either does all of its work, legally, or nothing.             *)
LEMMA CommandFacts ==
  ASSUME NEW legal, NEW d, NEW after, NEW o \in Command(legal, d, after)
  PROVE  \/ legal /\ o = Ok(after)
         \/ o = Err(d)
BY DEF Command

(* `?' runs the second call only on the disk of a first one that succeeded. *)
LEMMA ThenFacts ==
  ASSUME NEW first, NEW Rest(_), NEW o \in Then(first, Rest)
  PROVE  \E x \in first : \/ x.ok /\ o \in Rest(x.disk)
                          \/ ~x.ok /\ o = x
BY DEF Then

-----------------------------------------------------------------------------

(* The layout of a root has an entry of the right kind for each member,    *)
(* however far its creation came.                                          *)
LEMMA LayoutAfterType ==
  ASSUME NEW layout \in [Entries -> EntryStates], NEW n
  PROVE  LayoutAfter(layout, n) \in [Entries -> EntryStates]
BY DEF LayoutAfter, Created, EntryStates

(* However far it came, an entry that was there is as it was.              *)
LEMMA LayoutAfterCompletes ==
  ASSUME NEW layout, NEW n
  PROVE  Completed(layout, LayoutAfter(layout, n))
BY DEF LayoutAfter, Completed

(* Initializing a root touches nothing but the layout of that root.        *)
LEMMA InitializeFacts ==
  ASSUME NEW d, IsDisk(d), NEW w \in DOMAIN d.roots,
         NEW o \in InitializeWorkspaceRoot(d, w)
  PROVE  /\ o.ok \in BOOLEAN
         /\ IsDisk(o.disk)
         /\ o.disk.snaps = d.snaps
         /\ DOMAIN o.disk.roots = DOMAIN d.roots
         /\ \A v \in DOMAIN d.roots : v # w => o.disk.roots[v] = d.roots[v]
         /\ o.disk.roots[w].data = d.roots[w].data
         /\ o.disk.roots[w].nested = d.roots[w].nested
         /\ Completed(d.roots[w].layout, o.disk.roots[w].layout)
PROOF
  <1>1. PICK r \in InitializeRoot(d.roots[w].layout) :
          o = [ok |-> r.ok, disk |-> [d EXCEPT !.roots[w].layout = r.layout]]
    BY DEF InitializeWorkspaceRoot
  <1>2. d.roots[w] \in Root
    BY DEF IsDisk, IsMap
  <1>3. d.roots[w].layout \in [Entries -> EntryStates]
    BY <1>2 DEF Root
  <1>4. /\ r.ok \in BOOLEAN
        /\ r.layout \in [Entries -> EntryStates]
        /\ Completed(d.roots[w].layout, r.layout)
    <2>1. PICK ok \in BOOLEAN :
            \E n : r = [ok |-> ok, layout |-> LayoutAfter(d.roots[w].layout, n)]
      BY DEF InitializeRoot
    <2> QED
      BY <2>1, <1>3, LayoutAfterType, LayoutAfterCompletes
  <1>5. [d.roots[w] EXCEPT !.layout = r.layout] \in Root
    BY <1>2, <1>4 DEF Root
  <1> DEFINE e == [d EXCEPT !.roots[w].layout = r.layout]
  <1>6. /\ e.snaps = d.snaps
        /\ e.roots = [d.roots EXCEPT ![w] = [d.roots[w] EXCEPT !.layout = r.layout]]
        /\ e = [roots |-> e.roots, snaps |-> e.snaps]
    BY DEF IsDisk
  <1>7. IsDisk(e)
    BY <1>5, <1>6 DEF IsDisk, IsMap
  <1>8. /\ e.roots[w].data = d.roots[w].data
        /\ e.roots[w].nested = d.roots[w].nested
        /\ e.roots[w].layout = r.layout
    BY <1>2, <1>6 DEF Root
  <1> HIDE DEF e
  <1>9. o.ok = r.ok /\ o.disk = e
    BY <1>1 DEF e
  <1> QED
    BY <1>4, <1>6, <1>7, <1>8, <1>9

-----------------------------------------------------------------------------

(* What create and clone have in common: they add at most the root of w,   *)
(* change no other, and never the files of one that was there.             *)
Grown(d, e, w) ==
  /\ IsDisk(e)
  /\ e.snaps = d.snaps
  /\ DOMAIN d.roots \subseteq DOMAIN e.roots
  /\ DOMAIN e.roots \subseteq DOMAIN d.roots \cup {w}
  /\ \A v \in DOMAIN d.roots : /\ v # w => e.roots[v] = d.roots[v]
                              /\ e.roots[v].data = d.roots[v].data

(* What subvolume create makes is a root.                                  *)
LEMMA EmptyRootType ==
  [data |-> Pristine, layout |-> [e \in Entries |-> "absent"],
   quota |-> NoQuota, nested |-> {}] \in Root
BY StorageAssumption DEF Root, EntryStates

(* A new root is put on the disk.                                          *)
LEMMA PutRootGrows ==
  ASSUME NEW d, IsDisk(d), NEW w \in WorkspaceIds, w \notin DOMAIN d.roots,
         NEW r \in Root
  PROVE  /\ Grown(d, [d EXCEPT !.roots = Put(d.roots, w, r)], w)
         /\ [d EXCEPT !.roots = Put(d.roots, w, r)].roots[w] = r
         /\ w \in DOMAIN [d EXCEPT !.roots = Put(d.roots, w, r)].roots
PROOF
  <1> DEFINE e == [d EXCEPT !.roots = Put(d.roots, w, r)]
  <1>1. /\ e.snaps = d.snaps
        /\ e.roots = Put(d.roots, w, r)
        /\ e = [roots |-> e.roots, snaps |-> e.snaps]
    BY DEF IsDisk
  <1>2. IsDisk(e)
    BY <1>1, PutFacts DEF IsDisk
  <1> HIDE DEF e
  <1>3. Grown(d, e, w) /\ e.roots[w] = r /\ w \in DOMAIN e.roots
    BY <1>1, <1>2 DEF Grown, Put
  <1> QED
    BY <1>3 DEF e

(* btrfs create never reuses a root: an id that has one cannot be created. *)
LEMMA CreateFacts ==
  ASSUME NEW d, IsDisk(d), NEW w \in WorkspaceIds, NEW o \in BtrfsCreate(d, w)
  PROVE  /\ o.ok \in BOOLEAN
         /\ Grown(d, o.disk, w)
         /\ o.ok => /\ w \in DOMAIN o.disk.roots \ DOMAIN d.roots
                    /\ o.disk.roots[w].data = Pristine
         /\ \A v \in DOMAIN d.roots : o.disk.roots[v] = d.roots[v]
PROOF
  <1> DEFINE empty == [data |-> Pristine, layout |-> [e \in Entries |-> "absent"],
                       quota |-> NoQuota, nested |-> {}]
             new   == [d EXCEPT !.roots = Put(d.roots, w, empty)]
  <1>1. PICK x \in SubvolumeCreate(d, w) :
          \/ x.ok /\ o \in InitializeWorkspaceRoot(x.disk, w)
          \/ ~x.ok /\ o = x
    BY DEF BtrfsCreate, Then
  <1>2. \/ w \notin DOMAIN d.roots /\ x = Ok(new)
        \/ x = Err(d)
    BY <1>1 DEF SubvolumeCreate, Command
  <1>3. CASE x = Err(d)
    <2>1. o = Err(d)
      BY <1>1, <1>3 DEF Err
    <2> QED
      BY <2>1 DEF Err, Grown
  <1>4. CASE w \notin DOMAIN d.roots /\ x = Ok(new)
    <2>1. Grown(d, new, w) /\ new.roots[w] = empty /\ w \in DOMAIN new.roots
      BY <1>4, EmptyRootType, PutRootGrows
    <2>2. o \in InitializeWorkspaceRoot(new, w)
      BY <1>1, <1>4 DEF Ok
    <2>3. new.roots[w].data = Pristine
      BY <2>1
    <2> HIDE DEF new
    <2> QED
      BY <1>4, <2>1, <2>2, <2>3, InitializeFacts DEF Grown
  <1> QED
    BY <1>2, <1>3, <1>4

(* btrfs snapshot to a new path copies the image; to the path of a root it *)
(* keeps the files of that root and still succeeds.                        *)
LEMMA CloneFacts ==
  ASSUME NEW d, IsDisk(d), NEW w \in WorkspaceIds, NEW s \in SnapshotIds,
         NEW o \in BtrfsClone(d, s, w)
  PROVE  /\ o.ok \in BOOLEAN
         /\ Grown(d, o.disk, w)
         /\ o.ok => w \in DOMAIN o.disk.roots
         /\ o.ok /\ w \notin DOMAIN d.roots =>
              o.disk.roots[w].data = d.snaps[s].data
         /\ w \in DOMAIN d.roots =>
              \/ SameFiles(d.roots[w], o.disk.roots[w])
              \/ ClonedInto(d.roots[w], o.disk.roots[w], s)
PROOF
  <1> DEFINE copy   == [data |-> d.snaps[s].data, layout |-> d.snaps[s].layout,
                        quota |-> NoQuota, nested |-> {}]
             new    == [d EXCEPT !.roots = Put(d.roots, w, copy)]
             nested == [d EXCEPT !.roots[w].nested = @ \cup {s}]
  <1>1. PICK x \in SubvolumeClone(d, s, w) :
          \/ x.ok /\ o \in InitializeWorkspaceRoot(x.disk, w)
          \/ ~x.ok /\ o = x
    BY DEF BtrfsClone, Then
  <1>2. \/ s \in DOMAIN d.snaps /\ w \notin DOMAIN d.roots /\ x = Ok(new)
        \/ w \in DOMAIN d.roots /\ x = Ok(nested)
        \/ x = Err(d)
    BY <1>1 DEF SubvolumeClone, Command
  <1>3. CASE x = Err(d)
    <2>1. o = Err(d)
      BY <1>1, <1>3 DEF Err
    <2> QED
      BY <2>1 DEF Err, Grown, SameFiles
  <1>4. CASE s \in DOMAIN d.snaps /\ w \notin DOMAIN d.roots /\ x = Ok(new)
    <2>1. copy \in Root
      BY <1>4 DEF IsDisk, IsMap, Image, Root
    <2>2. Grown(d, new, w) /\ new.roots[w] = copy /\ w \in DOMAIN new.roots
      BY <1>4, <2>1, PutRootGrows
    <2>3. o \in InitializeWorkspaceRoot(new, w)
      BY <1>1, <1>4 DEF Ok
    <2>4. new.roots[w].data = d.snaps[s].data
      BY <2>2
    <2> HIDE DEF new
    <2> QED
      BY <1>4, <2>2, <2>3, <2>4, InitializeFacts DEF Grown
  <1>5. CASE w \in DOMAIN d.roots /\ x = Ok(nested)
    <2>1. d.roots[w] \in Root
      BY <1>5 DEF IsDisk, IsMap
    <2> DEFINE r == [d.roots[w] EXCEPT !.nested = @ \cup {s}]
    <2>2. /\ r \in Root
          /\ r.data = d.roots[w].data
          /\ r.layout = d.roots[w].layout
          /\ r.nested = d.roots[w].nested \cup {s}
      BY <2>1 DEF Root
    <2>3. /\ nested.snaps = d.snaps
          /\ nested.roots = [d.roots EXCEPT ![w] = r]
          /\ nested = [roots |-> nested.roots, snaps |-> nested.snaps]
      BY DEF IsDisk
    <2>4. o \in InitializeWorkspaceRoot(nested, w)
      BY <1>1, <1>5 DEF Ok
    <2> HIDE DEF nested, r
    <2>5. Grown(d, nested, w)
      BY <2>2, <2>3 DEF Grown, IsDisk, IsMap
    <2>6. ClonedInto(d.roots[w], o.disk.roots[w], s)
      <3>1. IsDisk(nested) /\ w \in DOMAIN nested.roots /\ nested.roots[w] = r
        BY <1>5, <2>3, <2>5 DEF Grown
      <3>2. /\ o.disk.roots[w].data = r.data
            /\ o.disk.roots[w].nested = r.nested
            /\ Completed(r.layout, o.disk.roots[w].layout)
        BY <2>4, <3>1, InitializeFacts
      <3> QED
        BY <2>2, <3>2 DEF ClonedInto
    <2> QED
      BY <1>5, <2>4, <2>5, <2>6, InitializeFacts DEF Grown
  <1> QED
    BY <1>2, <1>3, <1>4, <1>5

(* Setting a quota changes nothing but the quota of that root.             *)
LEMMA QuotaFacts ==
  ASSUME NEW d, IsDisk(d), NEW w \in WorkspaceIds, NEW limits \in Limits,
         NEW o \in BtrfsSetQuota(d, w, limits)
  PROVE  /\ o.ok \in BOOLEAN
         /\ Grown(d, o.disk, w)
         /\ DOMAIN o.disk.roots = DOMAIN d.roots
         /\ ~o.ok => o.disk = d
         /\ o.ok => w \in DOMAIN d.roots /\ o.disk.roots[w].quota = limits
         /\ \A v \in DOMAIN d.roots : SameFiles(d.roots[v], o.disk.roots[v])
PROOF
  <1> DEFINE e == [d EXCEPT !.roots[w].quota = limits]
             r == [d.roots[w] EXCEPT !.quota = limits]
  <1>1. \/ w \in DOMAIN d.roots /\ o = Ok(e)
        \/ o = Err(d)
    BY DEF BtrfsSetQuota, Command
  <1>2. CASE o = Err(d)
    BY <1>2 DEF Err, Grown, SameFiles
  <1>3. CASE w \in DOMAIN d.roots /\ o = Ok(e)
    <2>1. d.roots[w] \in Root
      BY <1>3 DEF IsDisk, IsMap
    <2>2. r \in Root /\ SameFiles(d.roots[w], r) /\ r.quota = limits
      BY <2>1 DEF Root, SameFiles
    <2>3. /\ e.snaps = d.snaps
          /\ e.roots = [d.roots EXCEPT ![w] = r]
          /\ e = [roots |-> e.roots, snaps |-> e.snaps]
      BY DEF IsDisk
    <2> HIDE DEF e, r
    <2>4. Grown(d, e, w)
      BY <2>2, <2>3 DEF Grown, IsDisk, IsMap, SameFiles
    <2>5. \A v \in DOMAIN d.roots : SameFiles(d.roots[v], e.roots[v])
      BY <2>2, <2>3 DEF SameFiles
    <2> QED
      BY <1>3, <2>2, <2>3, <2>4, <2>5 DEF Ok
  <1> QED
    BY <1>1, <1>2, <1>3

-----------------------------------------------------------------------------

(* Taking an image changes nothing but the image, which was not there.     *)
LEMMA SnapshotFacts ==
  ASSUME NEW d, IsDisk(d), NEW w \in WorkspaceIds, NEW s \in SnapshotIds,
         NEW o \in BtrfsSnapshot(d, w, s)
  PROVE  /\ o.ok \in BOOLEAN
         /\ IsDisk(o.disk)
         /\ o.disk.roots = d.roots
         /\ ~o.ok => o.disk = d
         /\ o.ok => /\ s \notin DOMAIN d.snaps
                    /\ DOMAIN o.disk.snaps = DOMAIN d.snaps \cup {s}
                    /\ \A t \in DOMAIN d.snaps : o.disk.snaps[t] = d.snaps[t]
PROOF
  <1> DEFINE image == [data |-> d.roots[w].data, layout |-> d.roots[w].layout]
             e     == [d EXCEPT !.snaps = Put(d.snaps, s, image)]
  <1>1. \/ w \in DOMAIN d.roots /\ s \notin DOMAIN d.snaps /\ o = Ok(e)
        \/ o = Err(d)
    BY DEF BtrfsSnapshot, SubvolumeSnapshot, Command
  <1>2. CASE o = Err(d)
    BY <1>2 DEF Err
  <1>3. CASE w \in DOMAIN d.roots /\ s \notin DOMAIN d.snaps /\ o = Ok(e)
    <2>1. image \in Image
      BY <1>3 DEF IsDisk, IsMap, Root, Image
    <2>2. IsMap(Put(d.snaps, s, image), SnapshotIds, Image)
      BY <2>1, PutFacts DEF IsDisk
    <2>3. /\ e.roots = d.roots
          /\ e.snaps = Put(d.snaps, s, image)
          /\ e = [roots |-> e.roots, snaps |-> e.snaps]
      BY DEF IsDisk
    <2> HIDE DEF e, image
    <2>4. IsDisk(e)
      BY <2>2, <2>3 DEF IsDisk
    <2> QED
      BY <1>3, <2>3, <2>4 DEF Ok, Put
  <1> QED
    BY <1>1, <1>2, <1>3

(* Deleting a subvolume leaves every other one alone.                      *)
LEMMA DeleteWorkspaceFacts ==
  ASSUME NEW d, IsDisk(d), NEW w, NEW o \in BtrfsDeleteWorkspace(d, w)
  PROVE  /\ o.ok \in BOOLEAN
         /\ IsDisk(o.disk)
         /\ o.disk.snaps = d.snaps
         /\ ~o.ok => o.disk = d
         /\ o.ok => /\ DOMAIN o.disk.roots = DOMAIN d.roots \ {w}
                    /\ \A v \in DOMAIN d.roots \ {w} : o.disk.roots[v] = d.roots[v]
PROOF
  <1> DEFINE e == [d EXCEPT !.roots = Drop(d.roots, w)]
  <1>1. o = Ok(e) \/ o = Err(d)
    BY DEF BtrfsDeleteWorkspace, Command
  <1>2. /\ e.snaps = d.snaps
        /\ e.roots = Drop(d.roots, w)
        /\ e = [roots |-> e.roots, snaps |-> e.snaps]
    BY DEF IsDisk
  <1>3. IsMap(Drop(d.roots, w), WorkspaceIds, Root)
    BY DropFacts DEF IsDisk
  <1> HIDE DEF e
  <1>4. IsDisk(e)
    BY <1>2, <1>3 DEF IsDisk
  <1>5. /\ DOMAIN e.roots = DOMAIN d.roots \ {w}
        /\ \A v \in DOMAIN d.roots \ {w} : e.roots[v] = d.roots[v]
    BY <1>2 DEF Drop, Restrict
  <1>6. CASE o = Ok(e)
    BY <1>2, <1>4, <1>5, <1>6 DEF Ok
  <1>7. CASE o = Err(d)
    BY <1>7 DEF Err
  <1> QED
    BY <1>1, <1>6, <1>7

(* Deleting an image leaves every root and every other image alone.        *)
LEMMA DeleteSnapshotFacts ==
  ASSUME NEW d, IsDisk(d), NEW s, NEW o \in BtrfsDeleteSnapshot(d, s)
  PROVE  /\ o.ok \in BOOLEAN
         /\ IsDisk(o.disk)
         /\ o.disk.roots = d.roots
         /\ ~o.ok => o.disk = d
         /\ o.ok => /\ DOMAIN o.disk.snaps = DOMAIN d.snaps \ {s}
                    /\ \A t \in DOMAIN d.snaps \ {s} : o.disk.snaps[t] = d.snaps[t]
PROOF
  <1> DEFINE e == [d EXCEPT !.snaps = Drop(d.snaps, s)]
  <1>1. o = Ok(e) \/ o = Err(d)
    BY DEF BtrfsDeleteSnapshot, Command
  <1>2. /\ e.roots = d.roots
        /\ e.snaps = Drop(d.snaps, s)
        /\ e = [roots |-> e.roots, snaps |-> e.snaps]
    BY DEF IsDisk
  <1>3. IsMap(Drop(d.snaps, s), SnapshotIds, Image)
    BY DropFacts DEF IsDisk
  <1> HIDE DEF e
  <1>4. IsDisk(e)
    BY <1>2, <1>3 DEF IsDisk
  <1>5. /\ DOMAIN e.snaps = DOMAIN d.snaps \ {s}
        /\ \A t \in DOMAIN d.snaps \ {s} : e.snaps[t] = d.snaps[t]
    BY <1>2 DEF Drop, Restrict
  <1>6. CASE o = Ok(e)
    BY <1>2, <1>4, <1>5, <1>6 DEF Ok
  <1>7. CASE o = Err(d)
    BY <1>7 DEF Err
  <1> QED
    BY <1>1, <1>6, <1>7

-----------------------------------------------------------------------------
(* Workspaces, snapshots and policies.                                     *)

(* The two ways a workspace enters the metadata: Admit, after a storage    *)
(* call that can only have grown the disk by the root of w.                *)
LEMMA AdmitFacts ==
  ASSUME TypeOK, NEW w \in WorkspaceIds,
         NEW parent \in SnapshotIds \cup {NoSnapshot}, NEW storage,
         \A o \in storage : /\ o.ok \in BOOLEAN
                            /\ Grown(disk, o.disk, w)
                            /\ o.ok => w \in DOMAIN o.disk.roots,
         Admit(w, parent, storage)
  PROVE  /\ IsMap(workspaces', WorkspaceIds, Workspace)
         /\ Grown(disk, disk', w)
         /\ \/ workspaces' = workspaces
            \/ /\ workspaces' = Put(workspaces, w, NewWorkspace(parent))
               /\ w \in DOMAIN disk'.roots
               /\ disk'.roots[w].quota = DefaultLimits
PROOF
  <1>1. PICK o \in Then(storage, LAMBDA d : BtrfsSetQuota(d, w, DefaultLimits)) :
          /\ disk' = o.disk
          /\ workspaces' = IF o.ok THEN Put(workspaces, w, NewWorkspace(parent))
                                   ELSE workspaces
    BY DEF Admit
  <1>2. PICK x \in storage : \/ x.ok /\ o \in BtrfsSetQuota(x.disk, w, DefaultLimits)
                             \/ ~x.ok /\ o = x
    BY <1>1 DEF Then
  <1>3. NewWorkspace(parent) \in Workspace
    BY ControlPlaneAssumption DEF NewWorkspace, Workspace, TypeOK
  <1>4. /\ IsMap(workspaces, WorkspaceIds, Workspace)
        /\ IsMap(Put(workspaces, w, NewWorkspace(parent)), WorkspaceIds, Workspace)
    BY <1>3, PutFacts DEF TypeOK
  <1>5. Grown(disk, x.disk, w)
    OBVIOUS
  <1>6. CASE ~x.ok /\ o = x
    BY <1>1, <1>4, <1>5, <1>6
  <1>7. CASE x.ok /\ o \in BtrfsSetQuota(x.disk, w, DefaultLimits)
    <2>1. IsDisk(x.disk)
      BY <1>5 DEF Grown
    <2>2. /\ o.ok \in BOOLEAN
          /\ Grown(x.disk, o.disk, w)
          /\ DOMAIN o.disk.roots = DOMAIN x.disk.roots
          /\ o.ok => w \in DOMAIN x.disk.roots /\ o.disk.roots[w].quota = DefaultLimits
      BY <1>7, <2>1, QuotaFacts, ControlPlaneAssumption
    <2>3. Grown(disk, o.disk, w)
      BY <1>5, <2>2 DEF Grown
    <2> QED
      BY <1>1, <1>4, <2>2, <2>3
  <1> QED
    BY <1>2, <1>6, <1>7

(* Both change nothing in a root after the storage call but its quota.      *)
LEMMA AdmitKeeps ==
  ASSUME NEW w \in WorkspaceIds, NEW parent, NEW storage,
         \A o \in storage : IsDisk(o.disk),
         Admit(w, parent, storage)
  PROVE  \E x \in storage :
           \A v \in DOMAIN x.disk.roots : SameFiles(x.disk.roots[v], disk'.roots[v])
PROOF
  <1>1. PICK o \in Then(storage, LAMBDA d : BtrfsSetQuota(d, w, DefaultLimits)) :
          disk' = o.disk
    BY DEF Admit
  <1>2. PICK x \in storage : \/ x.ok /\ o \in BtrfsSetQuota(x.disk, w, DefaultLimits)
                             \/ ~x.ok /\ o = x
    BY <1>1 DEF Then
  <1>3. CASE o = x
    BY <1>1, <1>3 DEF SameFiles
  <1>4. CASE o \in BtrfsSetQuota(x.disk, w, DefaultLimits)
    BY <1>1, <1>4, QuotaFacts, ControlPlaneAssumption
  <1> QED
    BY <1>2, <1>3, <1>4

(* create_workspace is an admission over a disk grown by an empty root.    *)
LEMMA CreateAdmits ==
  ASSUME TypeOK, NEW w \in WorkspaceIds, CreateWorkspace(w)
  PROVE  /\ IsMap(workspaces', WorkspaceIds, Workspace)
         /\ Grown(disk, disk', w)
         /\ \/ workspaces' = workspaces
            \/ /\ workspaces' = Put(workspaces, w, NewWorkspace(NoSnapshot))
               /\ w \in DOMAIN disk'.roots
               /\ disk'.roots[w].quota = DefaultLimits
PROOF
  <1>1. \A o \in BtrfsCreate(disk, w) : /\ o.ok \in BOOLEAN
                                        /\ Grown(disk, o.disk, w)
                                        /\ o.ok => w \in DOMAIN o.disk.roots
    BY CreateFacts DEF TypeOK
  <1> QED
    BY <1>1, AdmitFacts DEF CreateWorkspace

(* branch_workspace is one too, with a parent that is in the metadata.     *)
LEMMA BranchAdmits ==
  ASSUME TypeOK, NEW w \in WorkspaceIds, NEW s \in SnapshotIds, BranchWorkspace(s, w)
  PROVE  /\ IsMap(workspaces', WorkspaceIds, Workspace)
         /\ Grown(disk, disk', w)
         /\ \/ workspaces' = workspaces
            \/ /\ workspaces' = Put(workspaces, w, NewWorkspace(s))
               /\ w \in DOMAIN disk'.roots
               /\ disk'.roots[w].quota = DefaultLimits
PROOF
  <1>1. \A o \in BtrfsClone(disk, s, w) : /\ o.ok \in BOOLEAN
                                          /\ Grown(disk, o.disk, w)
                                          /\ o.ok => w \in DOMAIN o.disk.roots
    BY CloneFacts DEF TypeOK
  <1> QED
    BY <1>1, AdmitFacts DEF BranchWorkspace

(* A purge, by hand or from a list, removes at most one record, and that   *)
(* only together with the subvolume.                                       *)
LEMMA PurgeFacts ==
  ASSUME TypeOK, NEW action \in GcAction, NEW ok \in BOOLEAN, Purge(action, ok)
  PROVE  /\ IsMap(workspaces', WorkspaceIds, Workspace)
         /\ IsMap(snapshots', SnapshotIds, Snapshot)
         /\ IsDisk(disk')
         /\ \A v \in DOMAIN workspaces' :
              v \in DOMAIN workspaces /\ workspaces'[v] = workspaces[v]
         /\ \A w \in DOMAIN workspaces \ DOMAIN workspaces' : Deleted(w)
         /\ DOMAIN snapshots' \subseteq DOMAIN snapshots
         /\ \A s \in DOMAIN snapshots \ DOMAIN snapshots' : ~UsedByBranch(s)
         /\ \A w \in DOMAIN disk.roots \ DOMAIN disk'.roots :
              Deleted(w) /\ w \notin DOMAIN workspaces'
         /\ \A s \in DOMAIN disk.snaps \ DOMAIN disk'.snaps :
              SnapshotPurgeable(s) /\ s \notin DOMAIN snapshots'
         /\ \A v \in DOMAIN disk'.roots :
              v \in DOMAIN disk.roots /\ disk'.roots[v] = disk.roots[v]
         /\ \A s \in DOMAIN disk'.snaps :
              s \in DOMAIN disk.snaps /\ disk'.snaps[s] = disk.snaps[s]
PROOF
  <1>1. CASE UNCHANGED <<workspaces, snapshots, disk>>
    BY <1>1 DEF TypeOK
  <1>2. CASE \E w : /\ Deleted(w)
                    /\ \E o \in BtrfsDeleteWorkspace(disk, w) :
                         /\ disk' = o.disk
                         /\ workspaces' = IF o.ok THEN Drop(workspaces, w)
                                                  ELSE workspaces
                    /\ UNCHANGED snapshots
    <2>0. PICK w : /\ Deleted(w)
                   /\ \E o \in BtrfsDeleteWorkspace(disk, w) :
                        /\ disk' = o.disk
                        /\ workspaces' = IF o.ok THEN Drop(workspaces, w)
                                                 ELSE workspaces
                   /\ UNCHANGED snapshots
      BY <1>2
    <2>1. PICK o \in BtrfsDeleteWorkspace(disk, w) :
            /\ disk' = o.disk
            /\ workspaces' = IF o.ok THEN Drop(workspaces, w) ELSE workspaces
      BY <2>0
    <2>2. /\ o.ok \in BOOLEAN
          /\ IsDisk(o.disk)
          /\ o.disk.snaps = disk.snaps
          /\ ~o.ok => o.disk = disk
          /\ o.ok => /\ DOMAIN o.disk.roots = DOMAIN disk.roots \ {w}
                     /\ \A v \in DOMAIN disk.roots \ {w} : o.disk.roots[v] = disk.roots[v]
      BY DeleteWorkspaceFacts DEF TypeOK
    <2>3. /\ IsMap(workspaces', WorkspaceIds, Workspace)
          /\ \A v \in DOMAIN workspaces' :
               v \in DOMAIN workspaces /\ workspaces'[v] = workspaces[v]
      <3>1. IsMap(workspaces, WorkspaceIds, Workspace)
        BY DEF TypeOK
      <3>2. CASE workspaces' = workspaces
        BY <3>1, <3>2
      <3>3. CASE workspaces' = Drop(workspaces, w)
        BY <3>1, <3>3 DEF Drop, Restrict, IsMap
      <3> QED
        BY <2>1, <3>2, <3>3
    <2>4. o.ok => DOMAIN workspaces' = DOMAIN workspaces \ {w}
      BY <2>1, DropFacts
    <2>5. IsMap(snapshots', SnapshotIds, Snapshot) /\ IsDisk(disk')
      BY <2>0, <2>1, <2>2 DEF TypeOK
    <2>6. CASE o.ok
      BY <2>0, <2>1, <2>2, <2>3, <2>4, <2>5, <2>6
    <2>7. CASE ~o.ok
      BY <2>0, <2>1, <2>2, <2>3, <2>5, <2>7
    <2> QED
      BY <2>6, <2>7
  <1>3. CASE \E s : /\ SnapshotPurgeable(s)
                    /\ \E o \in BtrfsDeleteSnapshot(disk, s) :
                         /\ disk' = o.disk
                         /\ snapshots' = IF o.ok THEN Drop(snapshots, s)
                                                 ELSE snapshots
                    /\ UNCHANGED workspaces
    <2>0. PICK s : /\ SnapshotPurgeable(s)
                   /\ \E o \in BtrfsDeleteSnapshot(disk, s) :
                        /\ disk' = o.disk
                        /\ snapshots' = IF o.ok THEN Drop(snapshots, s)
                                                ELSE snapshots
                   /\ UNCHANGED workspaces
      BY <1>3
    <2>1. PICK o \in BtrfsDeleteSnapshot(disk, s) :
            /\ disk' = o.disk
            /\ snapshots' = IF o.ok THEN Drop(snapshots, s) ELSE snapshots
      BY <2>0
    <2>2. /\ o.ok \in BOOLEAN
          /\ IsDisk(o.disk)
          /\ o.disk.roots = disk.roots
          /\ ~o.ok => o.disk = disk
          /\ o.ok => /\ DOMAIN o.disk.snaps = DOMAIN disk.snaps \ {s}
                     /\ \A t \in DOMAIN disk.snaps \ {s} : o.disk.snaps[t] = disk.snaps[t]
      BY DeleteSnapshotFacts DEF TypeOK
    <2>3. IsMap(snapshots', SnapshotIds, Snapshot)
      BY <2>1, <2>2, DropFacts DEF TypeOK
    <2>4. /\ o.ok => DOMAIN snapshots' = DOMAIN snapshots \ {s}
          /\ ~o.ok => snapshots' = snapshots
      BY <2>1, DropFacts
    <2> QED
      BY <2>0, <2>1, <2>2, <2>3, <2>4 DEF TypeOK, SnapshotPurgeable
  <1>4. \/ PurgeWorkspace(action.id, ok)
        \/ PurgeSnapshot(action.id, ok)
    BY DEF Purge
  <1> QED
    BY <1>1, <1>2, <1>3, <1>4 DEF PurgeWorkspace, PurgeSnapshot

(* A session changes nothing on the disk but the root it runs on.          *)
LEMMA SessionFacts ==
  ASSUME TypeOK, NEW w, RunSession(w)
  PROVE  /\ IsDisk(disk')
         /\ disk'.snaps = disk.snaps
         /\ DOMAIN disk'.roots = DOMAIN disk.roots
         /\ \A v \in DOMAIN disk.roots :
              /\ v # w => disk'.roots[v] = disk.roots[v]
              /\ disk'.roots[v].quota = disk.roots[v].quota
PROOF
  <1>0. IsDisk(disk)
    BY DEF TypeOK
  <1>1. CASE UNCHANGED disk
    BY <1>0, <1>1
  <1>2. CASE /\ w \in DOMAIN disk.roots
             /\ \E c \in Contents, l \in [Entries -> GuestLeaves],
                   n \in SUBSET disk.roots[w].nested :
                  disk' = [disk EXCEPT !.roots[w].data = c, !.roots[w].layout = l,
                                       !.roots[w].nested = n]
    <2>1. PICK c \in Contents, l \in [Entries -> GuestLeaves],
               n \in SUBSET disk.roots[w].nested :
             disk' = [disk EXCEPT !.roots[w].data = c, !.roots[w].layout = l,
                                  !.roots[w].nested = n]
      BY <1>2
    <2>2. disk.roots[w] \in Root
      BY <1>0, <1>2 DEF IsDisk, IsMap
    <2> DEFINE r == [disk.roots[w] EXCEPT !.data = c, !.layout = l, !.nested = n]
    <2>3. l \in [Entries -> EntryStates]
      BY StorageAssumption
    <2>4. r \in Root /\ r.quota = disk.roots[w].quota
      BY <2>2, <2>3 DEF Root
    <2>5. /\ disk'.snaps = disk.snaps
          /\ disk' = [roots |-> disk'.roots, snaps |-> disk'.snaps]
          /\ DOMAIN disk'.roots = DOMAIN disk.roots
          /\ \A v \in DOMAIN disk.roots : v # w => disk'.roots[v] = disk.roots[v]
      BY <1>0, <2>1 DEF IsDisk
    <2>6. disk'.roots[w] = r
      BY <1>0, <1>2, <2>1, <2>2 DEF Root, IsDisk
    <2> HIDE DEF r
    <2>7. IsDisk(disk')
      BY <1>0, <2>4, <2>5, <2>6 DEF IsDisk, IsMap
    <2> QED
      BY <2>4, <2>5, <2>6, <2>7
  <1> QED
    BY <1>1, <1>2 DEF RunSession

-----------------------------------------------------------------------------

(* An empty state root and new metadata are well-typed.                    *)
LEMMA InitType == Init => TypeOK
PROOF
  <1> SUFFICES ASSUME Init PROVE TypeOK
    OBVIOUS
  <1>1. IsMap(policies, PolicyIds, PolicyKinds)
    BY ControlPlaneAssumption DEF Init, NewPolicies, EmptyMap, Put, IsMap, PolicyKinds
  <1>2. IsDisk(disk)
    BY DEF Init, EmptyMap, IsDisk, IsMap
  <1> QED
    BY <1>1, <1>2, ControlPlaneAssumption DEF Init, TypeOK, EmptyMap, IsMap, Times

(* Every operation, failing or not, keeps the types.                       *)
LEMMA NextType == TypeOK /\ [Next]_vars => TypeOK'
PROOF
  <1> SUFFICES ASSUME TypeOK, [Next]_vars PROVE TypeOK'
    OBVIOUS
  <1>0. clock \in Times
    BY DEF TypeOK
  <1>1. ASSUME NEW w \in WorkspaceIds, CreateWorkspace(w) PROVE TypeOK'
    BY <1>1, CreateAdmits DEF CreateWorkspace, TypeOK, Grown
  <1>2. ASSUME NEW w \in WorkspaceIds, NEW s \in SnapshotIds, BranchWorkspace(s, w)
        PROVE TypeOK'
    BY <1>2, BranchAdmits DEF BranchWorkspace, TypeOK, Grown
  <1>3. ASSUME NEW w \in WorkspaceIds, NEW s \in SnapshotIds, SnapshotWorkspace(w, s)
        PROVE TypeOK'
    <2>1. PICK o \in BtrfsSnapshot(disk, w, s) :
            /\ disk' = o.disk
            /\ snapshots' = IF o.ok
                            THEN Put(snapshots, s, [workspace |-> w, created |-> clock])
                            ELSE snapshots
      BY <1>3 DEF SnapshotWorkspace
    <2>2. IsDisk(disk')
      BY <2>1, SnapshotFacts DEF TypeOK
    <2>3. [workspace |-> w, created |-> clock] \in Snapshot
      BY <1>0 DEF Snapshot
    <2>4. IsMap(snapshots', SnapshotIds, Snapshot)
      BY <2>1, <2>3, PutFacts DEF TypeOK
    <2> QED
      BY <1>3, <2>2, <2>4 DEF SnapshotWorkspace, TypeOK
  <1>4. ASSUME NEW w \in WorkspaceIds, DeleteWorkspace(w) PROVE TypeOK'
    <2>1. IsMap(workspaces', WorkspaceIds, Workspace)
      BY <1>4 DEF DeleteWorkspace, TypeOK, IsMap, Workspace
    <2> QED
      BY <1>4, <2>1 DEF DeleteWorkspace, TypeOK
  <1>5. ASSUME NEW action \in GcAction, PurgeOne(action) PROVE TypeOK'
    BY <1>5, PurgeFacts DEF PurgeOne, TypeOK
  <1>6. ASSUME NEW actions \in GcLists, ExecuteGcActions(actions) PROVE TypeOK'
    BY <1>6, ControlPlaneAssumption DEF ExecuteGcActions, TypeOK
  <1>7. CASE GcStep
    <2>1. Head(queue) \in GcAction /\ Tail(queue) \in Seq(GcAction)
      BY <1>7 DEF GcStep, Idle, TypeOK
    <2> QED
      BY <1>7, <2>1, PurgeFacts DEF GcStep, TypeOK
  <1>8. ASSUME NEW w \in WorkspaceIds, NEW limits \in Limits, SetLimits(w, limits)
        PROVE TypeOK'
    <2>1. PICK o \in BtrfsSetQuota(disk, w, limits) :
            /\ disk' = o.disk
            /\ workspaces' = IF o.ok THEN [workspaces EXCEPT ![w].limits = limits]
                                     ELSE workspaces
      BY <1>8 DEF SetLimits
    <2>2. IsDisk(disk')
      BY <2>1, QuotaFacts DEF TypeOK, Grown
    <2>3. IsMap(workspaces', WorkspaceIds, Workspace)
      BY <2>1 DEF TypeOK, IsMap, Workspace
    <2> QED
      BY <1>8, <2>2, <2>3 DEF SetLimits, TypeOK
  <1>9. ASSUME NEW w \in WorkspaceIds, NEW p \in PolicyIds, NEW kind \in PolicyKinds,
               SetNetworkPolicy(w, p, kind)
        PROVE TypeOK'
    <2>1. IsMap(workspaces', WorkspaceIds, Workspace)
      BY <1>9 DEF SetNetworkPolicy, TypeOK, IsMap, Workspace
    <2>2. IsMap(policies', PolicyIds, PolicyKinds)
      BY <1>9, PutFacts DEF SetNetworkPolicy, TypeOK
    <2> QED
      BY <1>9, <2>1, <2>2 DEF SetNetworkPolicy, TypeOK
  <1>10. ASSUME NEW w \in WorkspaceIds, OpenSession(w) PROVE TypeOK'
    <2>1. IsDisk(disk')
      BY <1>10, SessionFacts DEF OpenSession, TypeOK
    <2>2. IsMap(workspaces', WorkspaceIds, Workspace)
      BY <1>0, <1>10 DEF OpenSession, TypeOK, IsMap, Workspace
    <2> QED
      BY <1>10, <2>1, <2>2 DEF OpenSession, TypeOK
  <1>11. CASE Tick
    BY <1>11 DEF Tick, TypeOK
  <1>12. CASE Restart
    <2>1. IsMap(policies', PolicyIds, PolicyKinds)
      BY <1>12, ControlPlaneAssumption
         DEF Restart, NewPolicies, EmptyMap, Put, IsMap, PolicyKinds
    <2> QED
      BY <1>12, <2>1 DEF Restart, TypeOK, EmptyMap, IsMap
  <1>13. CASE UNCHANGED vars
    BY <1>13 DEF vars, TypeOK
  <1> QED
    BY <1>1, <1>2, <1>3, <1>4, <1>5, <1>6, <1>7, <1>8, <1>9, <1>10, <1>11, <1>12,
       <1>13 DEF Next, Operation

(* The variables keep the types of control.rs:13 and of the disk, through  *)
(* failures at any point and restarts.                                     *)
THEOREM TypeCorrect == Spec => []TypeOK
PROOF
  <1> QED
    BY InitType, NextType, PTL DEF Spec

-----------------------------------------------------------------------------
(* The inductive invariant, in two parts. What the records say of each     *)
(* other depends on no subvolume; PoliciesResolve needs the default policy, *)
(* which every new workspace gets, to be among the policies. What they say  *)
(* of the disk is inductive as it stands, given the types.                  *)

PoliciesKept == DefaultPolicy \in DOMAIN policies /\ PoliciesResolve

Resolved == ParentsLive /\ PoliciesKept
Backed   == MetadataBacked /\ QuotaAgrees

Consistent == Resolved /\ Backed

(* Empty metadata is consistent with any empty disk.                       *)
LEMMA InitConsistent == Init => Consistent
BY DEF Init, Consistent, Resolved, Backed, ParentsLive, PoliciesKept, PoliciesResolve,
       MetadataBacked, QuotaAgrees, EmptyMap, NewPolicies, Put

(* What a workspace needs to stay resolved: its parent, its policy.        *)
LEMMA StaysResolved ==
  ASSUME Resolved,
         DOMAIN policies \subseteq DOMAIN policies',
         \A w \in DOMAIN workspaces' :
           /\ \/ workspaces'[w].parent \in {NoSnapshot} \cup DOMAIN snapshots'
              \/ /\ w \in DOMAIN workspaces
                 /\ workspaces'[w].parent = workspaces[w].parent
                 /\ workspaces[w].parent \in DOMAIN snapshots =>
                      workspaces[w].parent \in DOMAIN snapshots'
           /\ \/ workspaces'[w].policy \in DOMAIN policies'
              \/ w \in DOMAIN workspaces /\ workspaces'[w].policy = workspaces[w].policy
  PROVE  Resolved'
BY DEF Resolved, ParentsLive, PoliciesKept, PoliciesResolve

(* A purge takes no snapshot in use, and no policy.                        *)
LEMMA PurgedResolved ==
  ASSUME TypeOK, Resolved, NEW action \in GcAction, NEW ok \in BOOLEAN,
         Purge(action, ok), UNCHANGED policies
  PROVE  Resolved'
PROOF
  <1>1. /\ \A v \in DOMAIN workspaces' :
             v \in DOMAIN workspaces /\ workspaces'[v] = workspaces[v]
        /\ \A s \in DOMAIN snapshots \ DOMAIN snapshots' : ~UsedByBranch(s)
    BY PurgeFacts
  <1> QED
    BY <1>1, StaysResolved DEF UsedByBranch

(* Every operation keeps the records resolved, whatever the disk is like.  *)
LEMMA NextResolved == TypeOK /\ Resolved /\ [Next]_vars => Resolved'
PROOF
  <1> SUFFICES ASSUME TypeOK, Resolved, [Next]_vars PROVE Resolved'
    OBVIOUS
  <1>0. IsDisk(disk) /\ IsMap(workspaces, WorkspaceIds, Workspace)
    BY DEF TypeOK
  <1>1. ASSUME NEW w, NEW parent \in {NoSnapshot} \cup DOMAIN snapshots,
               workspaces' = workspaces
                 \/ workspaces' = Put(workspaces, w, NewWorkspace(parent)),
               UNCHANGED <<snapshots, policies>>
        PROVE  Resolved'
    <2>1. DefaultPolicy \in DOMAIN policies'
      BY <1>1 DEF Resolved, PoliciesKept
    <2> QED
      BY <1>1, <2>1, StaysResolved DEF Put, NewWorkspace
  <1>2. ASSUME NEW w \in WorkspaceIds, CreateWorkspace(w) PROVE Resolved'
    BY <1>1, <1>2, CreateAdmits DEF CreateWorkspace
  <1>3. ASSUME NEW w \in WorkspaceIds, NEW s \in SnapshotIds, BranchWorkspace(s, w)
        PROVE Resolved'
    BY <1>1, <1>3, BranchAdmits DEF BranchWorkspace
  <1>4. ASSUME DOMAIN workspaces' = DOMAIN workspaces,
               \A v \in DOMAIN workspaces :
                 /\ workspaces'[v].parent = workspaces[v].parent
                 /\ workspaces'[v].policy = workspaces[v].policy,
               UNCHANGED <<snapshots, policies>>
        PROVE  Resolved'
    BY <1>4, StaysResolved
  <1>5. ASSUME NEW w \in WorkspaceIds, DeleteWorkspace(w) PROVE Resolved'
    BY <1>0, <1>4, <1>5 DEF DeleteWorkspace, IsMap, Workspace
  <1>6. ASSUME NEW w \in WorkspaceIds, OpenSession(w) PROVE Resolved'
    BY <1>0, <1>4, <1>6 DEF OpenSession, IsMap, Workspace
  <1>7. ASSUME NEW w \in WorkspaceIds, NEW limits \in Limits, SetLimits(w, limits)
        PROVE Resolved'
    <2>1. /\ \/ workspaces' = [workspaces EXCEPT ![w].limits = limits]
             \/ workspaces' = workspaces
          /\ UNCHANGED <<snapshots, policies>>
      BY <1>7 DEF SetLimits
    <2> QED
      BY <1>0, <1>4, <2>1 DEF IsMap, Workspace
  <1>8. ASSUME NEW w \in WorkspaceIds, NEW p \in PolicyIds, NEW kind \in PolicyKinds,
               SetNetworkPolicy(w, p, kind)
        PROVE Resolved'
    <2>1. /\ DOMAIN workspaces' = DOMAIN workspaces
          /\ \A v \in DOMAIN workspaces :
               /\ workspaces'[v].parent = workspaces[v].parent
               /\ workspaces'[v].policy \in {p, workspaces[v].policy}
      BY <1>0, <1>8 DEF SetNetworkPolicy, IsMap, Workspace
    <2>2. DOMAIN policies' = DOMAIN policies \cup {p} /\ UNCHANGED snapshots
      BY <1>8 DEF SetNetworkPolicy, Put
    <2> QED
      BY <2>1, <2>2, StaysResolved
  <1>9. ASSUME NEW w \in WorkspaceIds, NEW s \in SnapshotIds, SnapshotWorkspace(w, s)
        PROVE Resolved'
    <2>1. DOMAIN snapshots \subseteq DOMAIN snapshots' /\ UNCHANGED <<workspaces, policies>>
      BY <1>9 DEF SnapshotWorkspace, Put
    <2> QED
      BY <2>1, StaysResolved
  <1>10. ASSUME NEW action \in GcAction, PurgeOne(action) PROVE Resolved'
    BY <1>10, PurgedResolved DEF PurgeOne
  <1>11. CASE GcStep
    <2>1. Head(queue) \in GcAction
      BY <1>11 DEF GcStep, Idle, TypeOK
    <2> QED
      BY <1>11, <2>1, PurgedResolved DEF GcStep
  <1>12. CASE UNCHANGED <<workspaces, snapshots, policies>>
    BY <1>12, StaysResolved
  <1>13. CASE Restart
    BY <1>13 DEF Restart, EmptyMap, NewPolicies, Put, Resolved, ParentsLive, PoliciesKept,
                 PoliciesResolve
  <1> QED
    BY <1>2, <1>3, <1>5, <1>6, <1>7, <1>8, <1>9, <1>10, <1>11, <1>12, <1>13
       DEF Next, Operation, ExecuteGcActions, Tick, vars

(* A workspace admitted to the metadata has its root, with its quota.      *)
LEMMA AdmittedBacked ==
  ASSUME TypeOK, Backed, NEW w \in WorkspaceIds, w \notin DOMAIN workspaces,
         NEW parent, UNCHANGED snapshots,
         Grown(disk, disk', w),
         \/ workspaces' = workspaces
         \/ /\ workspaces' = Put(workspaces, w, NewWorkspace(parent))
            /\ w \in DOMAIN disk'.roots
            /\ disk'.roots[w].quota = DefaultLimits
  PROVE  Backed'
PROOF
  <1>1. CASE workspaces' = workspaces
    BY <1>1 DEF Backed, MetadataBacked, QuotaAgrees, Grown
  <1>2. CASE /\ workspaces' = Put(workspaces, w, NewWorkspace(parent))
             /\ w \in DOMAIN disk'.roots
             /\ disk'.roots[w].quota = DefaultLimits
    <2>1. /\ DOMAIN workspaces' = DOMAIN workspaces \cup {w}
          /\ workspaces'[w] = NewWorkspace(parent)
          /\ \A v \in DOMAIN workspaces : workspaces'[v] = workspaces[v]
      BY <1>2 DEF Put
    <2>2. MetadataBacked'
      BY <1>2, <2>1 DEF Backed, MetadataBacked, Grown
    <2>3. QuotaAgrees'
      <3>1. \A v \in DOMAIN workspaces : v \in DOMAIN disk.roots /\ v # w
        BY DEF Backed, MetadataBacked
      <3>2. \A v \in DOMAIN workspaces : disk'.roots[v] = disk.roots[v]
        BY <3>1 DEF Grown
      <3> QED
        BY <1>2, <2>1, <3>1, <3>2 DEF Backed, QuotaAgrees, NewWorkspace
    <2> QED
      BY <2>2, <2>3 DEF Backed
  <1> QED
    BY <1>1, <1>2

(* A purge takes record and subvolume together.                            *)
LEMMA PurgedBacked ==
  ASSUME TypeOK, Backed, NEW action \in GcAction, NEW ok \in BOOLEAN, Purge(action, ok)
  PROVE  Backed'
PROOF
  <1>1. /\ \A v \in DOMAIN workspaces' :
             v \in DOMAIN workspaces /\ workspaces'[v] = workspaces[v]
        /\ DOMAIN snapshots' \subseteq DOMAIN snapshots
        /\ \A w \in DOMAIN disk.roots \ DOMAIN disk'.roots : w \notin DOMAIN workspaces'
        /\ \A s \in DOMAIN disk.snaps \ DOMAIN disk'.snaps : s \notin DOMAIN snapshots'
        /\ \A v \in DOMAIN disk'.roots :
             v \in DOMAIN disk.roots /\ disk'.roots[v] = disk.roots[v]
    BY PurgeFacts
  <1>2. MetadataBacked'
    BY <1>1 DEF Backed, MetadataBacked
  <1>3. QuotaAgrees'
    BY <1>1 DEF Backed, QuotaAgrees
  <1> QED
    BY <1>2, <1>3 DEF Backed

(* Every operation, failing or not, keeps records and subvolumes together. *)
LEMMA NextBacked == TypeOK /\ Backed /\ [Next]_vars => Backed'
PROOF
  <1> SUFFICES ASSUME TypeOK, Backed, [Next]_vars PROVE Backed'
    OBVIOUS
  <1>0. IsDisk(disk) /\ IsMap(workspaces, WorkspaceIds, Workspace)
    BY DEF TypeOK
  <1>1. ASSUME NEW w \in WorkspaceIds, CreateWorkspace(w) PROVE Backed'
    BY <1>1, CreateAdmits, AdmittedBacked DEF CreateWorkspace
  <1>2. ASSUME NEW w \in WorkspaceIds, NEW s \in SnapshotIds, BranchWorkspace(s, w)
        PROVE Backed'
    BY <1>2, BranchAdmits, AdmittedBacked DEF BranchWorkspace
  <1>3. ASSUME NEW w \in WorkspaceIds, NEW s \in SnapshotIds, SnapshotWorkspace(w, s)
        PROVE Backed'
    <2>1. PICK o \in BtrfsSnapshot(disk, w, s) :
            /\ disk' = o.disk
            /\ snapshots' = IF o.ok
                            THEN Put(snapshots, s, [workspace |-> w, created |-> clock])
                            ELSE snapshots
            /\ UNCHANGED workspaces
      BY <1>3 DEF SnapshotWorkspace
    <2>2. /\ disk'.roots = disk.roots
          /\ DOMAIN disk.snaps \subseteq DOMAIN disk'.snaps
          /\ o.ok => s \in DOMAIN disk'.snaps
      BY <1>0, <2>1, SnapshotFacts
    <2>3. /\ o.ok => DOMAIN snapshots' = DOMAIN snapshots \cup {s}
          /\ ~o.ok => snapshots' = snapshots
      BY <2>1 DEF Put
    <2> QED
      BY <2>1, <2>2, <2>3 DEF Backed, MetadataBacked, QuotaAgrees
  <1>4. ASSUME NEW w \in WorkspaceIds, DeleteWorkspace(w) PROVE Backed'
    <2>1. /\ DOMAIN workspaces' = DOMAIN workspaces
          /\ \A v \in DOMAIN workspaces : workspaces'[v].limits = workspaces[v].limits
      BY <1>0, <1>4 DEF DeleteWorkspace, IsMap, Workspace
    <2> QED
      BY <1>4, <2>1 DEF DeleteWorkspace, Backed, MetadataBacked, QuotaAgrees
  <1>5. ASSUME NEW action \in GcAction, PurgeOne(action) PROVE Backed'
    BY <1>5, PurgedBacked DEF PurgeOne
  <1>6. CASE GcStep
    <2>1. Head(queue) \in GcAction
      BY <1>6 DEF GcStep, Idle, TypeOK
    <2> QED
      BY <1>6, <2>1, PurgedBacked DEF GcStep
  <1>7. ASSUME NEW w \in WorkspaceIds, NEW limits \in Limits, SetLimits(w, limits)
        PROVE Backed'
    <2>1. PICK o \in BtrfsSetQuota(disk, w, limits) :
            /\ disk' = o.disk
            /\ workspaces' = IF o.ok THEN [workspaces EXCEPT ![w].limits = limits]
                                     ELSE workspaces
            /\ UNCHANGED snapshots
      BY <1>7 DEF SetLimits
    <2>2. /\ Grown(disk, disk', w)
          /\ DOMAIN disk'.roots = DOMAIN disk.roots
          /\ ~o.ok => disk' = disk
          /\ o.ok => disk'.roots[w].quota = limits
      BY <1>0, <2>1, QuotaFacts
    <2>3. /\ DOMAIN workspaces' = DOMAIN workspaces
          /\ \A v \in DOMAIN workspaces :
               /\ v # w => workspaces'[v].limits = workspaces[v].limits
               /\ o.ok /\ v = w => workspaces'[v].limits = limits
      BY <1>0, <2>1 DEF IsMap, Workspace
    <2>4. CASE o.ok
      BY <2>1, <2>2, <2>3, <2>4 DEF Grown, Backed, MetadataBacked, QuotaAgrees
    <2>5. CASE ~o.ok
      BY <2>1, <2>2, <2>5 DEF Backed, MetadataBacked, QuotaAgrees
    <2> QED
      BY <2>4, <2>5
  <1>8. ASSUME NEW w \in WorkspaceIds, NEW p \in PolicyIds, NEW kind \in PolicyKinds,
               SetNetworkPolicy(w, p, kind)
        PROVE Backed'
    <2>1. /\ DOMAIN workspaces' = DOMAIN workspaces
          /\ \A v \in DOMAIN workspaces : workspaces'[v].limits = workspaces[v].limits
      BY <1>0, <1>8 DEF SetNetworkPolicy, IsMap, Workspace
    <2> QED
      BY <1>8, <2>1 DEF SetNetworkPolicy, Backed, MetadataBacked, QuotaAgrees
  <1>9. ASSUME NEW w \in WorkspaceIds, OpenSession(w) PROVE Backed'
    <2>1. /\ DOMAIN workspaces' = DOMAIN workspaces
          /\ \A v \in DOMAIN workspaces : workspaces'[v].limits = workspaces[v].limits
      BY <1>0, <1>9 DEF OpenSession, IsMap, Workspace
    <2>2. /\ disk'.snaps = disk.snaps
          /\ DOMAIN disk'.roots = DOMAIN disk.roots
          /\ \A v \in DOMAIN disk.roots : disk'.roots[v].quota = disk.roots[v].quota
      BY <1>9, SessionFacts DEF OpenSession
    <2> QED
      BY <1>9, <2>1, <2>2 DEF OpenSession, Backed, MetadataBacked, QuotaAgrees
  <1>10. CASE Restart
    BY <1>10 DEF Restart, EmptyMap, Backed, MetadataBacked, QuotaAgrees
  <1>11. CASE UNCHANGED <<workspaces, snapshots, disk>>
    BY <1>11 DEF Backed, MetadataBacked, QuotaAgrees
  <1> QED
    BY <1>1, <1>2, <1>3, <1>4, <1>5, <1>6, <1>7, <1>8, <1>9, <1>10, <1>11
       DEF Next, Operation, ExecuteGcActions, Tick, vars

(* The inductive invariant holds of every behaviour.                       *)
LEMMA AlwaysConsistent == Spec => []Consistent
PROOF
  <1> QED
    BY TypeCorrect, InitConsistent, NextResolved, NextBacked, PTL DEF Spec, Consistent

(* The snapshot a branch was made from outlives it (control.rs:225).       *)
THEOREM ParentsStayLive == Spec => []ParentsLive
PROOF
  <1>1. Consistent => ParentsLive
    BY DEF Consistent, Resolved
  <1> QED
    BY <1>1, AlwaysConsistent, PTL

(* open_session never meets a missing policy (control.rs:296).             *)
THEOREM PoliciesAlwaysResolve == Spec => []PoliciesResolve
PROOF
  <1>1. Consistent => PoliciesResolve
    BY DEF Consistent, Resolved, PoliciesKept
  <1> QED
    BY <1>1, AlwaysConsistent, PTL

(* No failure or restart leaves a record without its subvolume.            *)
THEOREM RecordsAlwaysBacked == Spec => []MetadataBacked
PROOF
  <1>1. Consistent => MetadataBacked
    BY DEF Consistent, Backed
  <1> QED
    BY <1>1, AlwaysConsistent, PTL

(* The disk limit in the metadata is the one in force, failures included.  *)
THEOREM QuotasAlwaysAgree == Spec => []QuotaAgrees
PROOF
  <1>1. Consistent => QuotaAgrees
    BY DEF Consistent, Backed
  <1> QED
    BY <1>1, AlwaysConsistent, PTL

-----------------------------------------------------------------------------
(* What a step may never do to the disk.                                   *)

Released ==
  /\ \A w \in DOMAIN disk.roots \ DOMAIN disk'.roots : Deleted(w)
  /\ \A s \in DOMAIN disk.snaps \ DOMAIN disk'.snaps : SnapshotPurgeable(s)

Frozen ==
  \A s \in DOMAIN disk.snaps \cap DOMAIN disk'.snaps : disk'.snaps[s] = disk.snaps[s]

LeftAlone ==
  \A w \in DOMAIN disk.roots \cap DOMAIN disk'.roots :
    \/ SameFiles(disk.roots[w], disk'.roots[w])
    \/ OpenSession(w)
    \/ \E s \in DOMAIN snapshots :
         /\ BranchWorkspace(s, w)
         /\ ClonedInto(disk.roots[w], disk'.roots[w], s)

(* What one step of any operation may do to the disk: the action properties   *)
(* about images and about what is destroyed, of a step.                    *)
LEMMA DiskSteps == TypeOK /\ [Next]_vars => Released /\ Frozen
PROOF
  <1> SUFFICES ASSUME TypeOK, [Next]_vars PROVE Released /\ Frozen
    OBVIOUS
  <1>0. IsDisk(disk)
    BY DEF TypeOK
  <1>a. ASSUME UNCHANGED disk PROVE Released /\ Frozen
    BY <1>a DEF Released, Frozen
  <1>b. ASSUME NEW w, Grown(disk, disk', w) PROVE Released /\ Frozen
    BY <1>b DEF Grown, Released, Frozen
  <1>c. ASSUME NEW action \in GcAction, NEW ok \in BOOLEAN, Purge(action, ok)
        PROVE Released /\ Frozen
    <2>1. /\ \A w \in DOMAIN disk.roots \ DOMAIN disk'.roots :
               Deleted(w) /\ w \notin DOMAIN workspaces'
          /\ \A s \in DOMAIN disk.snaps \ DOMAIN disk'.snaps :
               SnapshotPurgeable(s) /\ s \notin DOMAIN snapshots'
          /\ \A v \in DOMAIN disk'.roots :
               v \in DOMAIN disk.roots /\ disk'.roots[v] = disk.roots[v]
          /\ \A s \in DOMAIN disk'.snaps :
               s \in DOMAIN disk.snaps /\ disk'.snaps[s] = disk.snaps[s]
      BY <1>c, PurgeFacts
    <2> QED
      BY <2>1 DEF Released, Frozen
  <1>1. ASSUME NEW w \in WorkspaceIds, CreateWorkspace(w)
        PROVE Released /\ Frozen
    BY <1>1, <1>b, CreateAdmits
  <1>2. ASSUME NEW w \in WorkspaceIds, NEW s \in SnapshotIds, BranchWorkspace(s, w)
        PROVE Released /\ Frozen
    BY <1>2, <1>b, BranchAdmits
  <1>3. ASSUME NEW w \in WorkspaceIds, NEW s \in SnapshotIds, SnapshotWorkspace(w, s)
        PROVE Released /\ Frozen
    <2>1. PICK o \in BtrfsSnapshot(disk, w, s) : disk' = o.disk
      BY <1>3 DEF SnapshotWorkspace
    <2>2. /\ o.ok \in BOOLEAN
          /\ o.disk.roots = disk.roots
          /\ ~o.ok => o.disk = disk
          /\ o.ok => /\ DOMAIN o.disk.snaps = DOMAIN disk.snaps \cup {s}
                     /\ \A t \in DOMAIN disk.snaps : o.disk.snaps[t] = disk.snaps[t]
      BY <1>0, <2>1, SnapshotFacts
    <2> QED
      BY <2>1, <2>2 DEF Released, Frozen
  <1>4. ASSUME NEW action \in GcAction, PurgeOne(action)
        PROVE Released /\ Frozen
    BY <1>4, <1>c DEF PurgeOne
  <1>5. CASE GcStep
    <2>1. Head(queue) \in GcAction
      BY <1>5 DEF GcStep, Idle, TypeOK
    <2> QED
      BY <1>5, <2>1, <1>c DEF GcStep
  <1>6. ASSUME NEW w \in WorkspaceIds, NEW limits \in Limits, SetLimits(w, limits)
        PROVE Released /\ Frozen
    <2>1. PICK o \in BtrfsSetQuota(disk, w, limits) : disk' = o.disk
      BY <1>6 DEF SetLimits
    <2> QED
      BY <1>0, <1>b, <2>1, QuotaFacts
  <1>7. ASSUME NEW w \in WorkspaceIds, OpenSession(w)
        PROVE Released /\ Frozen
    <2>1. /\ disk'.snaps = disk.snaps
          /\ DOMAIN disk'.roots = DOMAIN disk.roots
          /\ \A v \in DOMAIN disk.roots : v # w => disk'.roots[v] = disk.roots[v]
      BY <1>7, SessionFacts DEF OpenSession
    <2>2. Ready(w)
      BY <1>7 DEF OpenSession
    <2> QED
      BY <2>1, <2>2 DEF Released, Frozen
  <1>8. CASE \/ \E w \in WorkspaceIds : DeleteWorkspace(w)
             \/ \E w \in WorkspaceIds, p \in PolicyIds, kind \in PolicyKinds :
                  SetNetworkPolicy(w, p, kind)
             \/ \E actions \in GcLists : ExecuteGcActions(actions)
             \/ Tick
             \/ Restart
             \/ UNCHANGED vars
    BY <1>8, <1>a DEF DeleteWorkspace, SetNetworkPolicy, ExecuteGcActions, Tick,
                      Restart, vars
  <1> QED
    BY <1>1, <1>2, <1>3, <1>4, <1>5, <1>6, <1>7, <1>8 DEF Next, Operation

(* ... and to what is in the roots that stay.                               *)
LEMMA AloneSteps == TypeOK /\ [Next]_vars => LeftAlone
PROOF
  <1> SUFFICES ASSUME TypeOK, [Next]_vars PROVE LeftAlone
    OBVIOUS
  <1>0. IsDisk(disk)
    BY DEF TypeOK
  <1>a. ASSUME \A w \in DOMAIN disk.roots \cap DOMAIN disk'.roots :
                 SameFiles(disk.roots[w], disk'.roots[w])
        PROVE LeftAlone
    BY <1>a DEF LeftAlone
  <1>b. ASSUME disk'.roots = disk.roots PROVE LeftAlone
    BY <1>a, <1>b DEF SameFiles
  <1>c. ASSUME NEW action \in GcAction, NEW ok \in BOOLEAN, Purge(action, ok)
        PROVE LeftAlone
    BY <1>a, <1>c, PurgeFacts DEF SameFiles
  <1>1. ASSUME NEW w \in WorkspaceIds, CreateWorkspace(w) PROVE LeftAlone
    <2>1. \A o \in BtrfsCreate(disk, w) :
            /\ IsDisk(o.disk)
            /\ \A v \in DOMAIN disk.roots :
                 v \in DOMAIN o.disk.roots /\ o.disk.roots[v] = disk.roots[v]
      BY <1>0, CreateFacts DEF Grown
    <2>2. PICK x \in BtrfsCreate(disk, w) :
            \A v \in DOMAIN x.disk.roots : SameFiles(x.disk.roots[v], disk'.roots[v])
      BY <1>1, <2>1, AdmitKeeps DEF CreateWorkspace
    <2> QED
      BY <1>a, <2>1, <2>2
  <1>2. ASSUME NEW w \in WorkspaceIds, NEW s \in SnapshotIds, BranchWorkspace(s, w)
        PROVE LeftAlone
    <2>1. \A o \in BtrfsClone(disk, s, w) :
            /\ IsDisk(o.disk)
            /\ \A v \in DOMAIN disk.roots :
                 /\ v \in DOMAIN o.disk.roots
                 /\ \/ SameFiles(disk.roots[v], o.disk.roots[v])
                    \/ v = w /\ ClonedInto(disk.roots[v], o.disk.roots[v], s)
      BY <1>0, CloneFacts DEF Grown, SameFiles
    <2>2. PICK x \in BtrfsClone(disk, s, w) :
            \A v \in DOMAIN x.disk.roots : SameFiles(x.disk.roots[v], disk'.roots[v])
      BY <1>2, <2>1, AdmitKeeps DEF BranchWorkspace
    <2>3. \A v \in DOMAIN disk.roots :
            \/ SameFiles(disk.roots[v], disk'.roots[v])
            \/ v = w /\ ClonedInto(disk.roots[v], disk'.roots[v], s)
      BY <2>1, <2>2 DEF SameFiles, ClonedInto
    <2>4. s \in DOMAIN snapshots
      BY <1>2 DEF BranchWorkspace
    <2> QED
      BY <1>2, <2>3, <2>4 DEF LeftAlone
  <1>3. ASSUME NEW w \in WorkspaceIds, NEW s \in SnapshotIds, SnapshotWorkspace(w, s)
        PROVE LeftAlone
    BY <1>0, <1>b, <1>3, SnapshotFacts DEF SnapshotWorkspace
  <1>4. ASSUME NEW action \in GcAction, PurgeOne(action) PROVE LeftAlone
    BY <1>4, <1>c DEF PurgeOne
  <1>5. CASE GcStep
    <2>1. Head(queue) \in GcAction
      BY <1>5 DEF GcStep, Idle, TypeOK
    <2> QED
      BY <1>5, <2>1, <1>c DEF GcStep
  <1>6. ASSUME NEW w \in WorkspaceIds, NEW limits \in Limits, SetLimits(w, limits)
        PROVE LeftAlone
    <2>1. PICK o \in BtrfsSetQuota(disk, w, limits) : disk' = o.disk
      BY <1>6 DEF SetLimits
    <2> QED
      BY <1>0, <1>a, <2>1, QuotaFacts
  <1>7. ASSUME NEW w \in WorkspaceIds, OpenSession(w) PROVE LeftAlone
    <2>1. \A v \in DOMAIN disk.roots : v # w => disk'.roots[v] = disk.roots[v]
      BY <1>7, SessionFacts DEF OpenSession
    <2> QED
      BY <1>7, <2>1 DEF LeftAlone, SameFiles
  <1>8. CASE \/ \E w \in WorkspaceIds : DeleteWorkspace(w)
             \/ \E w \in WorkspaceIds, p \in PolicyIds, kind \in PolicyKinds :
                  SetNetworkPolicy(w, p, kind)
             \/ \E actions \in GcLists : ExecuteGcActions(actions)
             \/ Tick
             \/ Restart
             \/ UNCHANGED vars
    BY <1>8, <1>b DEF DeleteWorkspace, SetNetworkPolicy, ExecuteGcActions, Tick,
                      Restart, vars
  <1> QED
    BY <1>1, <1>2, <1>3, <1>4, <1>5, <1>6, <1>7, <1>8 DEF Next, Operation

(* Storage destroys a root only after its workspace was soft-deleted and a *)
(* snapshot only when no workspace is a branch of it (control.rs:213,225). *)
THEOREM OnlyReleasedIsDestroyed == Spec => DestroyedOnlyWhenReleased
PROOF
  <1>1. TypeOK /\ [Next]_vars => [Released]_vars
    BY DiskSteps
  <1> QED
    BY <1>1, TypeCorrect, PTL DEF Spec, DestroyedOnlyWhenReleased, Released

(* An image never changes, whatever is retried, forgotten or taken again.  *)
THEOREM ImagesStayFrozen == Spec => ImagesAreFrozen
PROOF
  <1>1. TypeOK /\ [Next]_vars => [Frozen]_vars
    BY DiskSteps
  <1> QED
    BY <1>1, TypeCorrect, PTL DEF Spec, ImagesAreFrozen, Frozen

(* The files, the layout and what is nested in a root that stays change in *)
(* a session on it, or in a branch onto it while no workspace has its id.  *)
THEOREM RootsStayLeftAlone == Spec => RootsAreLeftAlone
PROOF
  <1>1. TypeOK /\ [Next]_vars => [LeftAlone]_vars
    BY AloneSteps
  <1> QED
    BY <1>1, TypeCorrect, PTL DEF Spec, RootsAreLeftAlone, LeftAlone

-----------------------------------------------------------------------------
(* What a step may do to the workspaces that are made and to the policies. *)

Empty ==
  \A w \in DOMAIN workspaces' \ DOMAIN workspaces :
    workspaces'[w].parent = NoSnapshot => disk'.roots[w].data = Pristine

Explicit ==
  \A w \in DOMAIN workspaces \cap DOMAIN workspaces' :
    Kind(w)' # Kind(w) =>
      \E v \in DOMAIN workspaces :
        /\ Ready(v)
        /\ workspaces'[v].policy = workspaces'[w].policy
        /\ policies' = Put(policies, workspaces'[v].policy, Kind(w)')

(* create_workspace records w only if its root is a new one.               *)
LEMMA CreatedEmpty ==
  ASSUME TypeOK, NEW w \in WorkspaceIds, CreateWorkspace(w), w \in DOMAIN workspaces'
  PROVE  disk'.roots[w].data = Pristine
PROOF
  <1>1. PICK o \in Then(BtrfsCreate(disk, w),
                        LAMBDA d : BtrfsSetQuota(d, w, DefaultLimits)) :
          /\ disk' = o.disk
          /\ workspaces' = IF o.ok THEN Put(workspaces, w, NewWorkspace(NoSnapshot))
                                   ELSE workspaces
    BY DEF CreateWorkspace, Admit
  <1>2. o.ok
    BY <1>1 DEF CreateWorkspace
  <1>3. PICK x \in BtrfsCreate(disk, w) :
          x.ok /\ o \in BtrfsSetQuota(x.disk, w, DefaultLimits)
    BY <1>1, <1>2 DEF Then
  <1>4. /\ IsDisk(x.disk)
        /\ w \in DOMAIN x.disk.roots
        /\ x.disk.roots[w].data = Pristine
    BY <1>3, CreateFacts DEF TypeOK, Grown
  <1>5. Grown(x.disk, o.disk, w)
    BY <1>3, <1>4, QuotaFacts, ControlPlaneAssumption
  <1> QED
    BY <1>1, <1>4, <1>5 DEF Grown

(* The only way into the metadata without a parent is create_workspace.    *)
LEMMA NextEmpty == TypeOK /\ [Next]_vars => Empty
PROOF
  <1> SUFFICES ASSUME TypeOK, [Next]_vars PROVE Empty
    OBVIOUS
  <1>a. ASSUME DOMAIN workspaces' \subseteq DOMAIN workspaces PROVE Empty
    BY <1>a DEF Empty
  <1>1. ASSUME NEW w \in WorkspaceIds, CreateWorkspace(w) PROVE Empty
    <2>1. DOMAIN workspaces' \subseteq DOMAIN workspaces \cup {w}
      BY <1>1, CreateAdmits DEF Put
    <2> QED
      BY <1>1, <2>1, CreatedEmpty DEF Empty
  <1>2. ASSUME NEW w \in WorkspaceIds, NEW s \in SnapshotIds, BranchWorkspace(s, w)
        PROVE Empty
    <2>1. \/ workspaces' = workspaces
          \/ workspaces' = Put(workspaces, w, NewWorkspace(s))
      BY <1>2, BranchAdmits
    <2>2. CASE workspaces' = Put(workspaces, w, NewWorkspace(s))
      <3>1. /\ DOMAIN workspaces' = DOMAIN workspaces \cup {w}
            /\ workspaces'[w].parent # NoSnapshot
        BY <2>2, ControlPlaneAssumption DEF Put, NewWorkspace
      <3> QED
        BY <3>1 DEF Empty
    <2> QED
      BY <1>a, <2>1, <2>2
  <1>3. ASSUME NEW action \in GcAction, NEW ok \in BOOLEAN, Purge(action, ok) PROVE Empty
    BY <1>3, <1>a, PurgeFacts
  <1>4. ASSUME NEW action \in GcAction, PurgeOne(action) PROVE Empty
    BY <1>3, <1>4 DEF PurgeOne
  <1>5. CASE GcStep
    <2>1. Head(queue) \in GcAction
      BY <1>5 DEF GcStep, Idle, TypeOK
    <2> QED
      BY <1>3, <1>5, <2>1 DEF GcStep
  <1>6. CASE \E w \in WorkspaceIds :
               \/ DeleteWorkspace(w)
               \/ OpenSession(w)
               \/ \E limits \in Limits : SetLimits(w, limits)
               \/ \E p \in PolicyIds, kind \in PolicyKinds : SetNetworkPolicy(w, p, kind)
    BY <1>6, <1>a DEF DeleteWorkspace, OpenSession, SetLimits, SetNetworkPolicy
  <1>7. CASE \/ \E w \in WorkspaceIds, s \in SnapshotIds : SnapshotWorkspace(w, s)
             \/ \E actions \in GcLists : ExecuteGcActions(actions)
             \/ Tick
             \/ UNCHANGED vars
    BY <1>7, <1>a DEF SnapshotWorkspace, ExecuteGcActions, Tick, vars
  <1>8. CASE Restart
    BY <1>8, <1>a DEF Restart, EmptyMap
  <1> QED
    BY <1>1, <1>2, <1>4, <1>5, <1>6, <1>7, <1>8 DEF Next, Operation

(* Whatever an id was used for before, create_workspace hands out an empty  *)
(* root for it (storage.rs:185).                                            *)
THEOREM CreatedRootsStartEmpty == Spec => CreatedRootsAreEmpty
PROOF
  <1>1. TypeOK /\ [Next]_vars => [Empty]_vars
    BY NextEmpty
  <1> QED
    BY <1>1, TypeCorrect, PTL DEF Spec, CreatedRootsAreEmpty, Empty

(* Only set_network_policy changes the policy of a workspace that stays, and *)
(* then of every workspace whose id it names.                               *)
LEMMA NextExplicit == TypeOK /\ Consistent /\ [Next]_vars => Explicit
PROOF
  <1> SUFFICES ASSUME TypeOK, Consistent, [Next]_vars PROVE Explicit
    OBVIOUS
  <1>0. IsMap(workspaces, WorkspaceIds, Workspace)
    BY DEF TypeOK
  <1>a. ASSUME UNCHANGED policies,
               \A w \in DOMAIN workspaces \cap DOMAIN workspaces' :
                 workspaces'[w].policy = workspaces[w].policy
        PROVE Explicit
    BY <1>a DEF Explicit, Kind
  <1>b. ASSUME UNCHANGED policies,
               \A w \in DOMAIN workspaces \cap DOMAIN workspaces' :
                 workspaces'[w] = workspaces[w]
        PROVE Explicit
    BY <1>a, <1>b
  <1>1. ASSUME NEW w \in WorkspaceIds, CreateWorkspace(w) PROVE Explicit
    BY <1>1, <1>b, CreateAdmits DEF CreateWorkspace, Put
  <1>2. ASSUME NEW w \in WorkspaceIds, NEW s \in SnapshotIds, BranchWorkspace(s, w)
        PROVE Explicit
    BY <1>2, <1>b, BranchAdmits DEF BranchWorkspace, Put
  <1>3. ASSUME NEW action \in GcAction, NEW ok \in BOOLEAN, Purge(action, ok),
               UNCHANGED policies
        PROVE Explicit
    BY <1>3, <1>b, PurgeFacts
  <1>4. ASSUME NEW action \in GcAction, PurgeOne(action) PROVE Explicit
    BY <1>3, <1>4 DEF PurgeOne
  <1>5. CASE GcStep
    <2>1. Head(queue) \in GcAction
      BY <1>5 DEF GcStep, Idle, TypeOK
    <2> QED
      BY <1>3, <1>5, <2>1 DEF GcStep
  <1>6. ASSUME NEW w \in WorkspaceIds, NEW p \in PolicyIds, NEW kind \in PolicyKinds,
               SetNetworkPolicy(w, p, kind)
        PROVE Explicit
    <2>1. /\ Ready(w)
          /\ w \in DOMAIN workspaces
          /\ policies' = Put(policies, p, kind)
          /\ DOMAIN workspaces' = DOMAIN workspaces
          /\ workspaces'[w].policy = p
          /\ \A v \in DOMAIN workspaces : v # w => workspaces'[v] = workspaces[v]
      BY <1>0, <1>6 DEF SetNetworkPolicy, Ready, IsMap, Workspace
    <2>2. /\ policies'[p] = kind
          /\ \A q \in DOMAIN policies : q # p => policies'[q] = policies[q]
      BY <2>1 DEF Put
    <2>3. ASSUME NEW v \in DOMAIN workspaces, Kind(v)' # Kind(v)
          PROVE  workspaces'[v].policy = p
      <3>1. workspaces[v].policy \in DOMAIN policies
        BY DEF Consistent, Resolved, PoliciesKept, PoliciesResolve
      <3> QED
        BY <2>1, <2>2, <2>3, <3>1 DEF Kind
    <2>4. ASSUME NEW v \in DOMAIN workspaces, Kind(v)' # Kind(v)
          PROVE  /\ workspaces'[w].policy = workspaces'[v].policy
                 /\ policies' = Put(policies, workspaces'[w].policy, Kind(v)')
      BY <2>1, <2>2, <2>3, <2>4 DEF Kind
    <2> QED
      BY <2>1, <2>4 DEF Explicit
  <1>7. CASE \E w \in WorkspaceIds :
               \/ DeleteWorkspace(w)
               \/ OpenSession(w)
               \/ \E limits \in Limits : SetLimits(w, limits)
    BY <1>0, <1>7, <1>a DEF DeleteWorkspace, OpenSession, SetLimits, IsMap, Workspace
  <1>8. CASE \/ \E w \in WorkspaceIds, s \in SnapshotIds : SnapshotWorkspace(w, s)
             \/ \E actions \in GcLists : ExecuteGcActions(actions)
             \/ Tick
             \/ UNCHANGED vars
    BY <1>8, <1>b DEF SnapshotWorkspace, ExecuteGcActions, Tick, vars
  <1>9. CASE Restart
    BY <1>9 DEF Restart, EmptyMap, Explicit
  <1> QED
    BY <1>1, <1>2, <1>4, <1>5, <1>6, <1>7, <1>8, <1>9 DEF Next, Operation

(* A policy changes for a workspace only by a call that names its policy id *)
(* (control.rs:276).                                                        *)
THEOREM PoliciesChangeExplicitly == Spec => PolicyChangesAreExplicit
PROOF
  <1>1. TypeOK /\ Consistent /\ [Next]_vars => [Explicit]_vars
    BY NextExplicit
  <1> QED
    BY <1>1, TypeCorrect, AlwaysConsistent, PTL DEF Spec, PolicyChangesAreExplicit, Explicit

-----------------------------------------------------------------------------
(* The control plane implements the abstract lifecycle: with workspaces    *)
(* seen as a state and a parent each, and snapshots as the set of the live *)
(* ones, every step is a step of Lifecycle or leaves all of that alone.    *)

\* The refinement mapping, by name.
MappedState  == [w \in WorkspaceIds |-> StateOf(w)]
MappedParent == [w \in WorkspaceIds |-> ParentOf(w)]

(* New metadata is the initial state of the lifecycle.                     *)
LEMMA InitRefines == Init => Abstract!Init
BY DEF Init, EmptyMap, Abstract!Init, StateOf, ParentOf

(* Nothing the abstraction sees has changed.                               *)
LEMMA Stutters ==
  ASSUME DOMAIN workspaces' = DOMAIN workspaces,
         \A w \in DOMAIN workspaces : /\ workspaces'[w].state = workspaces[w].state
                                      /\ workspaces'[w].parent = workspaces[w].parent,
         DOMAIN snapshots' = DOMAIN snapshots
  PROVE  UNCHANGED Abstract!vars
PROOF
  <1>1. \A w \in WorkspaceIds : StateOf(w)' = StateOf(w) /\ ParentOf(w)' = ParentOf(w)
    BY DEF StateOf, ParentOf
  <1> QED
    BY <1>1 DEF Abstract!vars

(* The insertion of a new workspace is Create or Branch.                   *)
LEMMA AdmitRefines ==
  ASSUME NEW w \in WorkspaceIds, w \notin DOMAIN workspaces,
         NEW p \in SnapshotIds \cup {NoSnapshot},
         p # NoSnapshot => p \in DOMAIN snapshots,
         UNCHANGED snapshots,
         workspaces' = Put(workspaces, w, NewWorkspace(p))
  PROVE  Abstract!Next
PROOF
  <1>1. /\ DOMAIN workspaces' = DOMAIN workspaces \cup {w}
        /\ workspaces'[w] = NewWorkspace(p)
        /\ \A v \in DOMAIN workspaces : workspaces'[v] = workspaces[v]
    BY DEF Put
  <1>2. /\ StateOf(w) = "Absent" /\ StateOf(w)' = "Ready"
        /\ ParentOf(w) = NoSnapshot /\ ParentOf(w)' = p
    BY <1>1 DEF StateOf, ParentOf, NewWorkspace
  <1>3. \A v \in WorkspaceIds \ {w} : StateOf(v)' = StateOf(v) /\ ParentOf(v)' = ParentOf(v)
    BY <1>1 DEF StateOf, ParentOf
  <1>4. CASE p = NoSnapshot
    <2>1. Abstract!Create(w)
      BY <1>2, <1>3, <1>4 DEF Abstract!Create
    <2> QED
      BY <2>1 DEF Abstract!Next
  <1>5. CASE p # NoSnapshot
    <2>1. MappedState' = [MappedState EXCEPT ![w] = "Ready"]
      BY <1>2, <1>3 DEF MappedState
    <2>2. MappedParent' = [MappedParent EXCEPT ![w] = p]
      BY <1>2, <1>3 DEF MappedParent
    <2>3. Abstract!Branch(p, w)
      BY <1>2, <1>5, <2>1, <2>2 DEF Abstract!Branch, MappedState, MappedParent
    <2> QED
      BY <1>5, <2>3 DEF Abstract!Next
  <1> QED
    BY <1>4, <1>5

(* A purge that succeeds is Purge or Release; one that fails, a stutter.   *)
LEMMA PurgeRefines ==
  ASSUME TypeOK, NEW action \in GcAction, NEW ok \in BOOLEAN, Purge(action, ok)
  PROVE  Abstract!Next \/ UNCHANGED Abstract!vars
PROOF
  <1>1. CASE UNCHANGED <<workspaces, snapshots>>
    BY <1>1, Stutters
  <1>2. ASSUME NEW w, Deleted(w), workspaces' = Drop(workspaces, w), UNCHANGED snapshots
        PROVE  Abstract!Next
    <2>1. /\ DOMAIN workspaces' = DOMAIN workspaces \ {w}
          /\ \A v \in DOMAIN workspaces' : workspaces'[v] = workspaces[v]
      BY <1>2 DEF Drop, Restrict
    <2>2. w \in WorkspaceIds
      BY <1>2 DEF TypeOK, IsMap, Deleted
    <2>3. StateOf(w) = "Deleted" /\ StateOf(w)' = "Absent" /\ ParentOf(w)' = NoSnapshot
      BY <1>2, <2>1 DEF StateOf, ParentOf, Deleted
    <2>4. \A v \in WorkspaceIds \ {w} :
            StateOf(v)' = StateOf(v) /\ ParentOf(v)' = ParentOf(v)
      BY <2>1 DEF StateOf, ParentOf
    <2>5. MappedState' = [MappedState EXCEPT ![w] = "Absent"]
      BY <2>3, <2>4 DEF MappedState
    <2>6. MappedParent' = [MappedParent EXCEPT ![w] = NoSnapshot]
      BY <2>3, <2>4 DEF MappedParent
    <2>7. Abstract!Purge(w)
      BY <1>2, <2>2, <2>3, <2>5, <2>6 DEF Abstract!Purge, MappedState, MappedParent
    <2> QED
      BY <2>2, <2>7 DEF Abstract!Next
  <1>3. ASSUME NEW s, SnapshotPurgeable(s), snapshots' = Drop(snapshots, s),
               UNCHANGED workspaces
        PROVE  Abstract!Next
    <2>1. DOMAIN snapshots' = DOMAIN snapshots \ {s}
      BY <1>3 DEF Drop, Restrict
    <2>2. s \in SnapshotIds /\ s \in DOMAIN snapshots
      BY <1>3 DEF TypeOK, IsMap, SnapshotPurgeable
    <2>3. \A w \in WorkspaceIds : ParentOf(w) # s
      BY <1>3, <2>2, ControlPlaneAssumption DEF ParentOf, SnapshotPurgeable, UsedByBranch
    <2>4. MappedState' = MappedState /\ MappedParent' = MappedParent
      BY <1>3 DEF MappedState, MappedParent, StateOf, ParentOf
    <2>5. Abstract!Release(s)
      BY <2>1, <2>2, <2>3, <2>4 DEF Abstract!Release, MappedState, MappedParent
    <2> QED
      BY <2>2, <2>5 DEF Abstract!Next
  <1> QED
    BY <1>1, <1>2, <1>3 DEF Purge, PurgeWorkspace, PurgeSnapshot

(* Every step of the control plane is a step of the lifecycle, or a        *)
(* stutter.                                                                *)
LEMMA NextRefines ==
  TypeOK /\ [Next]_vars => [Abstract!Next]_(Abstract!vars)
PROOF
  <1> SUFFICES ASSUME TypeOK, [Next]_vars
               PROVE  Abstract!Next \/ UNCHANGED Abstract!vars
    OBVIOUS
  <1>0. IsMap(workspaces, WorkspaceIds, Workspace)
    BY DEF TypeOK
  <1>1. ASSUME NEW w \in WorkspaceIds, CreateWorkspace(w)
        PROVE  Abstract!Next \/ UNCHANGED Abstract!vars
    <2>1. \/ workspaces' = workspaces
          \/ workspaces' = Put(workspaces, w, NewWorkspace(NoSnapshot))
      BY <1>1, CreateAdmits
    <2>2. CASE workspaces' = workspaces
      BY <1>1, <2>2, Stutters DEF CreateWorkspace
    <2>3. CASE workspaces' = Put(workspaces, w, NewWorkspace(NoSnapshot))
      BY <1>1, <2>3, AdmitRefines DEF CreateWorkspace
    <2> QED
      BY <2>1, <2>2, <2>3
  <1>2. ASSUME NEW w \in WorkspaceIds, NEW s \in SnapshotIds, BranchWorkspace(s, w)
        PROVE  Abstract!Next \/ UNCHANGED Abstract!vars
    <2>1. \/ workspaces' = workspaces
          \/ workspaces' = Put(workspaces, w, NewWorkspace(s))
      BY <1>2, BranchAdmits
    <2>2. CASE workspaces' = workspaces
      BY <1>2, <2>2, Stutters DEF BranchWorkspace
    <2>3. CASE workspaces' = Put(workspaces, w, NewWorkspace(s))
      BY <1>2, <2>3, AdmitRefines DEF BranchWorkspace
    <2> QED
      BY <2>1, <2>2, <2>3
  <1>3. ASSUME NEW w \in WorkspaceIds, NEW s \in SnapshotIds, SnapshotWorkspace(w, s)
        PROVE  Abstract!Next \/ UNCHANGED Abstract!vars
    <2>1. /\ Ready(w) /\ s \notin DOMAIN snapshots /\ UNCHANGED workspaces
          /\ \/ snapshots' = Put(snapshots, s, [workspace |-> w, created |-> clock])
             \/ UNCHANGED snapshots
      BY <1>3 DEF SnapshotWorkspace
    <2>2. CASE UNCHANGED snapshots
      BY <2>1, <2>2, Stutters
    <2>3. CASE snapshots' = Put(snapshots, s, [workspace |-> w, created |-> clock])
      <3>1. DOMAIN snapshots' = DOMAIN snapshots \cup {s}
        BY <2>3 DEF Put
      <3>2. MappedState' = MappedState /\ MappedParent' = MappedParent /\ StateOf(w) = "Ready"
        BY <2>1 DEF MappedState, MappedParent, StateOf, ParentOf, Ready
      <3>3. Abstract!Take(w, s)
        BY <2>1, <3>1, <3>2 DEF Abstract!Take, MappedState, MappedParent
      <3> QED
        BY <3>3 DEF Abstract!Next
    <2> QED
      BY <2>1, <2>2, <2>3
  <1>4. ASSUME NEW w \in WorkspaceIds, DeleteWorkspace(w)
        PROVE  Abstract!Next \/ UNCHANGED Abstract!vars
    <2>1. /\ DOMAIN workspaces' = DOMAIN workspaces
          /\ w \in DOMAIN workspaces
          /\ workspaces[w].state = "Ready" /\ workspaces'[w].state = "Deleted"
          /\ \A v \in DOMAIN workspaces \ {w} : workspaces'[v] = workspaces[v]
          /\ workspaces'[w].parent = workspaces[w].parent
      BY <1>0, <1>4 DEF DeleteWorkspace, Ready, IsMap, Workspace
    <2>2. MappedState' = [MappedState EXCEPT ![w] = "Deleted"] /\ StateOf(w) = "Ready"
      BY <2>1 DEF MappedState, StateOf
    <2>3. MappedParent' = MappedParent
      BY <2>1 DEF MappedParent, ParentOf
    <2>4. Abstract!SoftDelete(w)
      BY <1>4, <2>2, <2>3 DEF Abstract!SoftDelete, MappedState, MappedParent, DeleteWorkspace
    <2> QED
      BY <2>4 DEF Abstract!Next
  <1>5. ASSUME NEW action \in GcAction, PurgeOne(action)
        PROVE  Abstract!Next \/ UNCHANGED Abstract!vars
    BY <1>5, PurgeRefines DEF PurgeOne
  <1>6. CASE GcStep
    <2>1. Head(queue) \in GcAction
      BY <1>6 DEF GcStep, Idle, TypeOK
    <2> QED
      BY <1>6, <2>1, PurgeRefines DEF GcStep
  <1>7. ASSUME NEW w \in WorkspaceIds,
               \/ \E limits \in Limits : SetLimits(w, limits)
               \/ \E p \in PolicyIds, kind \in PolicyKinds : SetNetworkPolicy(w, p, kind)
               \/ OpenSession(w)
        PROVE  UNCHANGED Abstract!vars
    <2>1. /\ UNCHANGED snapshots
          /\ \/ workspaces' = workspaces
             \/ \E limits : workspaces' = [workspaces EXCEPT ![w].limits = limits]
             \/ \E p : workspaces' = [workspaces EXCEPT ![w].policy = p]
             \/ workspaces' = [workspaces EXCEPT ![w].accessed = clock]
      BY <1>7 DEF SetLimits, SetNetworkPolicy, OpenSession
    <2>2. /\ DOMAIN workspaces' = DOMAIN workspaces
          /\ \A v \in DOMAIN workspaces : /\ workspaces'[v].state = workspaces[v].state
                                         /\ workspaces'[v].parent = workspaces[v].parent
      BY <1>0, <2>1 DEF IsMap, Workspace
    <2> QED
      BY <2>1, <2>2, Stutters
  <1>8. CASE \/ \E actions \in GcLists : ExecuteGcActions(actions)
             \/ Tick
             \/ UNCHANGED vars
    <2>1. UNCHANGED <<workspaces, snapshots>>
      BY <1>8 DEF ExecuteGcActions, Tick, vars
    <2> QED
      BY <2>1, Stutters
  <1>9. CASE Restart
    <2>1. workspaces' = EmptyMap /\ snapshots' = EmptyMap
      BY <1>9 DEF Restart
    <2>2. Abstract!Forget
      BY <2>1 DEF Abstract!Forget, StateOf, ParentOf, EmptyMap
    <2> QED
      BY <2>2 DEF Abstract!Next
  <1> QED
    BY <1>1, <1>2, <1>3, <1>4, <1>5, <1>6, <1>7, <1>8, <1>9 DEF Next, Operation

(* Whatever fails, is retried or is forgotten, the control plane keeps the *)
(* order of a lifecycle: no purge without a soft delete, no release of a   *)
(* snapshot with a branch, no branch of one that is gone.                  *)
THEOREM LifecycleImplemented == Spec => ImplementsLifecycle
PROOF
  <1> QED
    BY TypeCorrect, InitRefines, NextRefines, PTL
       DEF Spec, ImplementsLifecycle, Abstract!Spec

-----------------------------------------------------------------------------
(* What the callers of the control plane rely on.                          *)

(* An operation leaves a soft-deleted workspace as it is or purges it, and *)
(* adds at most one record of each kind.                                   *)
LEMMA OperationFacts ==
  ASSUME TypeOK, Operation
  PROVE  /\ \A w \in DOMAIN workspaces' : Deleted(w) => workspaces'[w] = workspaces[w]
         /\ \E w : DOMAIN workspaces' \subseteq DOMAIN workspaces \cup {w}
         /\ \E s : DOMAIN snapshots' \subseteq DOMAIN snapshots \cup {s}
         /\ \E p : DOMAIN policies' \subseteq DOMAIN policies \cup {p}
PROOF
  <1> DEFINE Goal ==
        /\ \A w \in DOMAIN workspaces' : Deleted(w) => workspaces'[w] = workspaces[w]
        /\ \E w : DOMAIN workspaces' \subseteq DOMAIN workspaces \cup {w}
        /\ \E s : DOMAIN snapshots' \subseteq DOMAIN snapshots \cup {s}
        /\ \E p : DOMAIN policies' \subseteq DOMAIN policies \cup {p}
  <1>1. ASSUME NEW w \in WorkspaceIds, NEW parent, w \notin DOMAIN workspaces,
               \/ workspaces' = workspaces
               \/ workspaces' = Put(workspaces, w, NewWorkspace(parent)),
               UNCHANGED <<snapshots, policies>>
        PROVE  Goal
    BY <1>1 DEF Put, Deleted
  <1>2. ASSUME NEW w \in WorkspaceIds, CreateWorkspace(w) PROVE Goal
    <2>1. w \notin DOMAIN workspaces /\ UNCHANGED <<snapshots, policies>>
      BY <1>2 DEF CreateWorkspace
    <2> QED
      BY <1>1, <1>2, <2>1, CreateAdmits
  <1>3. ASSUME NEW w \in WorkspaceIds, NEW s \in SnapshotIds, BranchWorkspace(s, w)
        PROVE  Goal
    <2>1. w \notin DOMAIN workspaces /\ UNCHANGED <<snapshots, policies>>
      BY <1>3 DEF BranchWorkspace
    <2> QED
      BY <1>1, <1>3, <2>1, BranchAdmits
  <1>4. ASSUME NEW w \in WorkspaceIds, NEW p, Ready(w), UNCHANGED snapshots,
               DOMAIN policies' \subseteq DOMAIN policies \cup {p},
               DOMAIN workspaces' = DOMAIN workspaces,
               \A v \in DOMAIN workspaces : v # w => workspaces'[v] = workspaces[v]
        PROVE  Goal
    BY <1>4 DEF Ready, Deleted
  <1>5. ASSUME NEW w \in WorkspaceIds, DeleteWorkspace(w) PROVE Goal
    BY <1>4, <1>5 DEF DeleteWorkspace
  <1>6. ASSUME NEW w \in WorkspaceIds, OpenSession(w) PROVE Goal
    BY <1>4, <1>6 DEF OpenSession
  <1>7. ASSUME NEW w \in WorkspaceIds, NEW limits \in Limits, SetLimits(w, limits)
        PROVE  Goal
    <2>1. DOMAIN workspaces' = DOMAIN workspaces
      BY <1>7 DEF SetLimits
    <2>2. \A v \in DOMAIN workspaces : v # w => workspaces'[v] = workspaces[v]
      BY <1>7 DEF SetLimits
    <2> QED
      BY <1>4, <1>7, <2>1, <2>2 DEF SetLimits
  <1>8. ASSUME NEW w \in WorkspaceIds, NEW p \in PolicyIds, NEW kind \in PolicyKinds,
               SetNetworkPolicy(w, p, kind)
        PROVE  Goal
    BY <1>4, <1>8 DEF SetNetworkPolicy, Put
  <1>9. ASSUME NEW w \in WorkspaceIds, NEW s \in SnapshotIds, SnapshotWorkspace(w, s)
        PROVE  Goal
    <2>1. UNCHANGED <<workspaces, policies>> /\ DOMAIN snapshots' \subseteq DOMAIN snapshots \cup {s}
      BY <1>9 DEF SnapshotWorkspace, Put
    <2> QED
      BY <2>1
  <1>10. ASSUME NEW action \in GcAction, PurgeOne(action) PROVE Goal
    <2>1. PICK ok \in BOOLEAN : Purge(action, ok)
      BY <1>10 DEF PurgeOne
    <2>2. /\ \A v \in DOMAIN workspaces' :
               v \in DOMAIN workspaces /\ workspaces'[v] = workspaces[v]
          /\ DOMAIN snapshots' \subseteq DOMAIN snapshots
      BY <2>1, PurgeFacts
    <2> QED
      BY <1>10, <2>2 DEF PurgeOne
  <1> QED
    BY <1>2, <1>3, <1>5, <1>6, <1>7, <1>8, <1>9, <1>10 DEF Operation

\* The maps of the metadata are finite, so that they can be put in order.
Finite ==
  /\ IsFiniteSet(DOMAIN workspaces)
  /\ IsFiniteSet(DOMAIN snapshots)
  /\ IsFiniteSet(DOMAIN policies)

LEMMA InitFinite == Init => Finite
PROOF
  <1> SUFFICES ASSUME Init PROVE Finite
    OBVIOUS
  <1>1. DOMAIN workspaces = {} /\ DOMAIN snapshots = {} /\ DOMAIN policies = {DefaultPolicy}
    BY DEF Init, EmptyMap, NewPolicies, Put
  <1>2. IsFiniteSet({}) /\ IsFiniteSet({DefaultPolicy})
    BY FS_EmptySet, FS_Singleton
  <1> QED
    BY <1>1, <1>2 DEF Finite

(* An operation adds one record, a purge none.                             *)
LEMMA StepFinite ==
  ASSUME TypeOK, Finite, Operation \/ GcStep \/ Tick \/ Restart
  PROVE  Finite'
PROOF
  <1>1. ASSUME NEW w, NEW s, NEW p,
               DOMAIN workspaces' \subseteq DOMAIN workspaces \cup {w},
               DOMAIN snapshots' \subseteq DOMAIN snapshots \cup {s},
               DOMAIN policies' \subseteq DOMAIN policies \cup {p}
        PROVE  Finite'
    <2>1. /\ IsFiniteSet(DOMAIN workspaces \cup {w})
          /\ IsFiniteSet(DOMAIN snapshots \cup {s})
          /\ IsFiniteSet(DOMAIN policies \cup {p})
      BY FS_AddElement DEF Finite
    <2> QED
      BY <1>1, <2>1, FS_Subset DEF Finite
  <1>2. CASE Operation
    BY <1>1, <1>2, OperationFacts
  <1>3. CASE GcStep
    <2>1. Head(queue) \in GcAction
      BY <1>3 DEF GcStep, Idle, TypeOK
    <2>2. PICK ok \in BOOLEAN : Purge(Head(queue), ok)
      BY <1>3 DEF GcStep
    <2>3. /\ DOMAIN workspaces' \subseteq DOMAIN workspaces
          /\ DOMAIN snapshots' \subseteq DOMAIN snapshots
          /\ policies' = policies
      BY <1>3, <2>1, <2>2, PurgeFacts DEF GcStep
    <2> QED
      BY <1>1, <2>3
  <1>4. CASE Tick
    BY <1>4 DEF Tick, Finite
  <1>5. CASE Restart
    <2>1. DOMAIN workspaces' = {} /\ DOMAIN snapshots' = {} /\ DOMAIN policies' = {DefaultPolicy}
      BY <1>5 DEF Restart, EmptyMap, NewPolicies, Put
    <2>2. IsFiniteSet({}) /\ IsFiniteSet({DefaultPolicy})
      BY FS_EmptySet, FS_Singleton
    <2> QED
      BY <2>1, <2>2 DEF Finite
  <1> QED
    BY <1>2, <1>3, <1>4, <1>5
=============================================================================
