------------------------------ MODULE Storage -------------------------------
(***************************************************************************)
(* The btrfs storage backend of storage.rs, with the guest root layout of  *)
(* layout.rs it applies to every new workspace root.                       *)
(*                                                                         *)
(* A call takes the disk it finds and yields the set of its outcomes: a    *)
(* result (`ok') and the disk it leaves, which an error does not undo.     *)
(* Paths are a function of the id (storage.rs:120,124), so a subvolume is  *)
(* named by its id; the files of a workspace are one opaque value.         *)
(***************************************************************************)
EXTENDS Maps, Naturals, Sequences

CONSTANTS
  WorkspaceIds, SnapshotIds,
  Limits,        \* the values of ResourceLimits; storage uses disk_max_bytes
  NoQuota,       \* no qgroup limit has been set on a subvolume
  Contents,      \* what the files of a workspace can be
  Pristine,      \* ... the files of an empty root
  Layout,        \* what a root must have (directories, links), in creation order
  HostResolves,  \* the members of Layout that exist on the host once created
  GuestLeaves,   \* the states a session may leave a member of Layout in
  Faults         \* whether a command or a file operation may fail at will

Entries     == {Layout[i] : i \in DOMAIN Layout}
\* Path::exists() follows symlinks: a link whose target the host lacks is
\* there, and in the way, without existing.
EntryStates == {"absent", "present", "dangling"}

ASSUME StorageAssumption ==
  /\ Pristine \in Contents
  /\ NoQuota \notin Limits
  /\ Layout \in Seq(STRING)
  /\ HostResolves \subseteq Entries
  /\ GuestLeaves \subseteq EntryStates
  /\ Faults \in BOOLEAN

\* `nested' holds the snapshots that were cloned into the root instead of
\* becoming it.
Root == [data   : Contents,
         layout : [Entries -> EntryStates],
         quota  : Limits \cup {NoQuota},
         nested : SUBSET SnapshotIds]
Image == [data : Contents, layout : [Entries -> EntryStates]]

IsDisk(d) ==
  /\ d = [roots |-> d.roots, snaps |-> d.snaps]
  /\ IsMap(d.roots, WorkspaceIds, Root)
  /\ IsMap(d.snaps, SnapshotIds, Image)

-----------------------------------------------------------------------------
(* Results: Result<()> and the `?' operator.                               *)

Ok(d)  == [ok |-> TRUE,  disk |-> d]
Err(d) == [ok |-> FALSE, disk |-> d]

\* first()?; rest(): an error of the first call is returned with what it did.
Then(first, Rest(_)) == UNION {IF o.ok THEN Rest(o.disk) ELSE {o} : o \in first}

\* A btrfs command that succeeds on d when `legal', leaving `after', and
\* changes nothing when it fails.
Command(legal, d, after) ==
  {IF legal THEN Ok(after) ELSE Err(d)} \cup (IF Faults THEN {Err(d)} ELSE {})

-----------------------------------------------------------------------------
(* The btrfs tool.                                                         *)

\* btrfs subvolume create: refuses a path that exists.
SubvolumeCreate(d, w) ==
  Command(w \notin DOMAIN d.roots, d,
          [d EXCEPT !.roots = Put(d.roots, w,
             [data |-> Pristine, layout |-> [e \in Entries |-> "absent"],
              quota |-> NoQuota, nested |-> {}])])

\* btrfs subvolume snapshot -r: a read-only copy of a workspace. The path of an
\* existing image is a read-only directory, in which nothing can be created.
SubvolumeSnapshot(d, w, s) ==
  Command(w \in DOMAIN d.roots /\ s \notin DOMAIN d.snaps, d,
          [d EXCEPT !.snaps = Put(d.snaps, s,
             [data |-> d.roots[w].data, layout |-> d.roots[w].layout])])

\* btrfs subvolume snapshot, writable: a copy of an image. When the destination
\* is a directory the copy is created inside it, under the image's own name.
SubvolumeClone(d, s, w) ==
  IF s \notin DOMAIN d.snaps THEN {Err(d)}
  ELSE IF w \notin DOMAIN d.roots
  THEN Command(TRUE, d,
         [d EXCEPT !.roots = Put(d.roots, w,
            [data |-> d.snaps[s].data, layout |-> d.snaps[s].layout,
             quota |-> NoQuota, nested |-> {}])])
  ELSE Command(s \notin d.roots[w].nested, d,
         [d EXCEPT !.roots[w].nested = @ \cup {s}])

-----------------------------------------------------------------------------
(* layout.rs: initialize_workspace_root.                                   *)

\* What create_dir_all or symlink makes of an entry.
Created(e) == IF e \in HostResolves THEN "present" ELSE "dangling"

\* The root after the first n entries were seen to: one that exists is kept.
LayoutAfter(layout, n) ==
  [e \in Entries |->
     IF layout[e] = "absent" /\ \E i \in 1..n : Layout[i] = e
     THEN Created(e) ELSE layout[e]]

\* One entry after the other, up to the first error; symlink() over a link that
\* dangles is EEXIST.
InitializeRoot(layout) ==
  LET last    == Len(Layout)
      stuck   == {n \in 1..last : layout[Layout[n]] = "dangling"}
      failing == {n \in (IF Faults THEN 1..last ELSE stuck) : \A m \in stuck : n <= m}
  IN  {[ok |-> FALSE, layout |-> LayoutAfter(layout, n - 1)] : n \in failing}
        \cup (IF stuck = {} THEN {[ok |-> TRUE, layout |-> LayoutAfter(layout, last)]}
                            ELSE {})

InitializeWorkspaceRoot(d, w) ==
  {[ok |-> r.ok, disk |-> [d EXCEPT !.roots[w].layout = r.layout]]
     : r \in InitializeRoot(d.roots[w].layout)}

-----------------------------------------------------------------------------
(* impl StorageBackend for BtrfsStorage.                                   *)

\* Mutated: a root that is in the way is deleted first.
BtrfsCreateReplacing(d, w) ==
  Then(SubvolumeCreate([d EXCEPT !.roots = Drop(d.roots, w)], w),
       LAMBDA e : InitializeWorkspaceRoot(e, w))

\* Mutated: a root that is in the way is taken over as it is.
BtrfsCreateAdopting(d, w) ==
  IF w \in DOMAIN d.roots THEN {Ok(d)}
  ELSE Then(SubvolumeCreate(d, w), LAMBDA e : InitializeWorkspaceRoot(e, w))

BtrfsCreate(d, w) ==
  Then(SubvolumeCreate(d, w), LAMBDA e : InitializeWorkspaceRoot(e, w))

\* Mutated: an error is cleaned up after by deleting the root.
BtrfsCloneCleaningUp(d, s, w) ==
  {IF o.ok THEN o ELSE Err([o.disk EXCEPT !.roots = Drop(o.disk.roots, w)])
     : o \in Then(SubvolumeClone(d, s, w), LAMBDA e : InitializeWorkspaceRoot(e, w))}

\* Mutated: what InMemoryStorage does, create_workspace.
BtrfsCloneAsCreate(d, s, w) == BtrfsCreate(d, w)

BtrfsClone(d, s, w) ==
  Then(SubvolumeClone(d, s, w), LAMBDA e : InitializeWorkspaceRoot(e, w))

\* Mutated: an image that is in the way is deleted first.
BtrfsSnapshotReplacing(d, w, s) ==
  SubvolumeSnapshot([d EXCEPT !.snaps = Drop(d.snaps, s)], w, s)

\* Mutated: the exit status of the command is not looked at.
BtrfsSnapshotUnchecked(d, w, s) == {Ok(o.disk) : o \in SubvolumeSnapshot(d, w, s)}

BtrfsSnapshot(d, w, s) == SubvolumeSnapshot(d, w, s)

\* Mutated: the deletion is put off, for ever.
BtrfsDeleteWorkspaceLater(d, w) == Command(w \in DOMAIN d.roots, d, d)

\* btrfs subvolume delete: refuses a subvolume with another one inside.
BtrfsDeleteWorkspace(d, w) ==
  Command(w \in DOMAIN d.roots /\ d.roots[w].nested = {}, d,
          [d EXCEPT !.roots = Drop(d.roots, w)])

BtrfsDeleteSnapshot(d, s) ==
  Command(s \in DOMAIN d.snaps, d, [d EXCEPT !.snaps = Drop(d.snaps, s)])

\* Mutated: best effort, a failure is not reported.
BtrfsSetQuotaIfPossible(d, w, limits) ==
  {Ok(o.disk) : o \in Command(w \in DOMAIN d.roots, d,
                              [d EXCEPT !.roots[w].quota = limits])}

BtrfsSetQuota(d, w, limits) ==
  Command(w \in DOMAIN d.roots, d, [d EXCEPT !.roots[w].quota = limits])
=============================================================================
