--------------------------- MODULE MetadataStore ----------------------------
(***************************************************************************)
(* metadata.rs: the metadata as the lines of a file, one record a line,    *)
(* and the metadata that is read back from whatever the file then has.     *)
(* fs::write truncates the file and writes it in place, so that a crash, a *)
(* full disk or a reader in another process (gc-plan, usage) may meet any  *)
(* prefix of it.                                                           *)
(***************************************************************************)
EXTENDS ControlPlane, Gc, SequencesExt

CONSTANTS
  Dash,          \* the field "-"; a SnapshotId may be spelled that way
  TicksPerSecond,
  Radix          \* of the numbers in the file

ASSUME StoreAssumption ==
  /\ WorkspaceIds \subseteq Nat /\ SnapshotIds \subseteq Nat
  /\ Dash # NoSnapshot
  /\ TicksPerSecond \in Nat \ {0}
  /\ Radix \in Nat \ {0, 1}

-----------------------------------------------------------------------------
(* Encoding.                                                               *)

Header  == [kind |-> "header"]
Garbage == [kind |-> "garbage"] \* a line no record can be made of

EncodeParent(parent) == IF parent = NoSnapshot THEN Dash ELSE parent

\* Mutated: a second that has begun counts as a whole one.
EncodeTimeUp(time) == (time + TicksPerSecond - 1) \div TicksPerSecond

EncodeTime(time) == time \div TicksPerSecond

EncodePolicy(m, p) == [kind |-> "policy", id |-> p, value |-> m.policies[p]]

\* Mutated: everything is saved as ready.
EncodeWorkspaceReady(m, w) ==
  [kind |-> "workspace", id |-> w,
   value |-> [m.workspaces[w] EXCEPT !.parent = EncodeParent(@), !.state = "Ready",
                                     !.accessed = EncodeTime(@)]]

EncodeWorkspace(m, w) ==
  [kind |-> "workspace", id |-> w,
   value |-> [m.workspaces[w] EXCEPT !.parent = EncodeParent(@),
                                     !.accessed = EncodeTime(@)]]

EncodeSnapshot(m, s) ==
  [kind |-> "snapshot", id |-> s,
   value |-> [m.snapshots[s] EXCEPT !.created = EncodeTime(@)]]

\* One line for each id, in the order of the BTreeMap.
Lines(ids, Line(_)) ==
  LET order == SetToSeq(ids) IN [i \in DOMAIN order |-> Line(order[i])]

PolicyLines(m)    == Lines(DOMAIN m.policies, LAMBDA p : EncodePolicy(m, p))
WorkspaceLines(m) == Lines(DOMAIN m.workspaces, LAMBDA w : EncodeWorkspace(m, w))
SnapshotLines(m)  == Lines(DOMAIN m.snapshots, LAMBDA s : EncodeSnapshot(m, s))

\* Mutated: the policies last.
EncodePoliciesLast(m) ==
  <<Header>> \o WorkspaceLines(m) \o SnapshotLines(m) \o PolicyLines(m)

\* Mutated: the snapshots before the workspaces.
EncodeSnapshotsFirst(m) ==
  <<Header>> \o PolicyLines(m) \o SnapshotLines(m) \o WorkspaceLines(m)

\* What save() makes of the metadata.
Encode(m) == <<Header>> \o PolicyLines(m) \o WorkspaceLines(m) \o SnapshotLines(m)

-----------------------------------------------------------------------------
(* Interrupted writes.                                                     *)

\* The numbers a number becomes when its last digits are missing.
Shortened(n) == {m \in 1..n : \E k \in 1..n : m = n \div Radix ^ k}

\* What is left of a line cut somewhere inside. The last field of a workspace
\* or snapshot is a time, and a shorter number is a number; a line cut before
\* has too few fields. An allow policy cut inside its cidrs keeps its kind.
Cut(line) ==
  {Garbage} \cup
    CASE line.kind = "workspace" ->
           {[line EXCEPT !.value.accessed = t] : t \in Shortened(line.value.accessed)}
      [] line.kind = "snapshot" ->
           {[line EXCEPT !.value.created = t] : t \in Shortened(line.value.created)}
      [] OTHER -> {}

\* A file whose writing was interrupted: between two lines, or inside one.
Torn(file) ==
  {SubSeq(file, 1, n) : n \in 0..(Len(file) - 1)}
    \cup UNION {{Append(SubSeq(file, 1, n - 1), part) : part \in Cut(file[n])}
                  : n \in DOMAIN file}

-----------------------------------------------------------------------------
(* Decoding.                                                               *)

DecodeParent(field) == IF field = Dash THEN NoSnapshot ELSE field

DecodeTime(seconds) == seconds * TicksPerSecond

DecodeWorkspace(value) ==
  [value EXCEPT !.parent = DecodeParent(@), !.accessed = DecodeTime(@)]

DecodeSnapshot(value) == [value EXCEPT !.created = DecodeTime(@)]

\* The map of the records of a kind; an id has one line, as Encode writes it.
Records(file, kind, Decode(_)) ==
  LET lines == {line \in Range(file) : line.kind = kind}
  IN  [id \in {line.id : line \in lines} |->
         Decode((CHOOSE line \in lines : line.id = id).value)]

\* Result<InMemoryMetadata>: the first line must be the header, and one line
\* that is not a record fails the whole.
Readable(file) == file # <<>> /\ file[1] = Header /\ Garbage \notin Range(file)

DecodeMetadata(file) ==
  [workspaces |-> Records(file, "workspace", DecodeWorkspace),
   snapshots  |-> Records(file, "snapshot", DecodeSnapshot),
   policies   |-> Records(file, "policy", LAMBDA kind : kind)]

-----------------------------------------------------------------------------
(* Properties of the metadata the control plane has, if it were saved now. *)

\* The metadata with the times of the file, to the second.
Floor(time) == time - (time % TicksPerSecond)
ToTheSecond(m) ==
  [m EXCEPT
     !.workspaces = [w \in DOMAIN m.workspaces |->
                       [m.workspaces[w] EXCEPT !.accessed = Floor(@)]],
     !.snapshots  = [s \in DOMAIN m.snapshots |->
                       [m.snapshots[s] EXCEPT !.created = Floor(@)]]]

\* What is saved is what is loaded, but for the fractions of a second: every
\* record, with its state, its limits and its parent (metadata.rs:25,47).
SavedIsLoaded ==
  /\ Readable(Encode(Metadata))
  /\ DecodeMetadata(Encode(Metadata)) = ToTheSecond(Metadata)

\* Wherever a write was interrupted, a file that still loads has the network
\* policy of every workspace it has: the policies are written before the
\* workspaces (metadata.rs:32). open_session never finds one missing.
TornPoliciesResolve ==
  \A file \in Torn(Encode(Metadata)) : Readable(file) =>
    LET m == DecodeMetadata(file)
    IN  \A w \in DOMAIN m.workspaces : m.workspaces[w].policy \in DOMAIN m.policies

PlannedFor(m) == Range(PlanGc(m, clock))
IsFor(action, line) ==
  /\ action.id = line.id
  /\ action.kind = IF line.kind = "workspace" THEN "DeleteWorkspace" ELSE "DeleteSnapshot"

\* gc-plan run beside a save that is under way, or after one that failed, asks
\* for nothing the whole file does not ask for, but for the one record at the
\* cut: every workspace, and so every protection, comes before the snapshots.
TornPlansAreDue ==
  \A file \in Torn(Encode(Metadata)) : Readable(file) =>
    \A action \in PlannedFor(DecodeMetadata(file)) \ PlannedFor(ToTheSecond(Metadata)) :
      IsFor(action, file[Len(file)])

\* Losing the fractions of a second changes a plan only as far as it must: a
\* snapshot is collected in the place of an older one of the same workspace
\* and second, a workspace less than a second early.
ReloadedPlansAreClose ==
  \A action \in PlannedFor(DecodeMetadata(Encode(Metadata))) \ PlannedFor(Metadata) :
    IF action.kind = "DeleteSnapshot"
    THEN \E s \in DOMAIN snapshots :
           /\ snapshots[s].workspace = snapshots[action.id].workspace
           /\ snapshots[s].created < snapshots[action.id].created
           /\ Floor(snapshots[s].created) = Floor(snapshots[action.id].created)
    ELSE /\ Deleted(action.id)
         /\ clock - workspaces[action.id].accessed > DeleteAfter - TicksPerSecond
=============================================================================
