------------------------------- MODULE Daemon -------------------------------
(***************************************************************************)
(* A process that keeps the metadata of its control plane in a file: it    *)
(* calls FileMetadataStore::save between operations and, after a restart,  *)
(* load and ControlPlane::replace_metadata. When it saves is its own       *)
(* affair; `WriteThrough' is the discipline of saving after every call.    *)
(***************************************************************************)
EXTENDS MetadataStore

CONSTANTS
  NoFile,       \* the metadata file does not exist
  SaveFaults,   \* whether a save may fail or be cut short
  WriteThrough  \* whether no call is made before the last one was saved

ASSUME DaemonAssumption == SaveFaults \in BOOLEAN /\ WriteThrough \in BOOLEAN

VARIABLES
  file,      \* the lines of the metadata file, or NoFile
  released,  \* history: the roots on the disk whose workspace was soft-deleted
  sound,     \* history: the metadata does not come from a torn file
  fileSound  \* history: the file was written whole, from such metadata

history == <<released, sound, fileSound>>

daemonVars == <<workspaces, snapshots, policies, disk, clock, queue, file, history>>

Saved == file = Encode(Metadata)

DaemonInit ==
  /\ Init
  /\ file = NoFile
  /\ released = {}
  /\ sound = TRUE
  /\ fileSound = FALSE

\* fs::write, in place: whole, cut anywhere, or not begun.
SaveOutcomes ==
  {Encode(Metadata)} \cup (IF SaveFaults THEN Torn(Encode(Metadata)) \cup {file} ELSE {})

\* FileMetadataStore::save, or the crash of the process in the middle of it
\* when a Restart follows.
Save ==
  /\ Idle
  /\ file' \in SaveOutcomes
  /\ fileSound' = IF file' = Encode(Metadata) THEN sound ELSE fileSound /\ file' = file
  /\ UNCHANGED <<workspaces, snapshots, policies, disk, clock, queue,
                 released, sound>>

\* Mutated: the policies stay, the default one among them.
LoadKeepingPolicies ==
  /\ Idle
  /\ file # NoFile
  /\ Readable(file)
  /\ workspaces' = DecodeMetadata(file).workspaces
  /\ snapshots' = DecodeMetadata(file).snapshots
  /\ sound' = fileSound
  /\ UNCHANGED <<policies, disk, clock, queue, file, released, fileSound>>

\* replace_metadata(load()?): nothing happens when the file cannot be read.
Load ==
  /\ Idle
  /\ file # NoFile
  /\ Readable(file)
  /\ workspaces' = DecodeMetadata(file).workspaces
  /\ snapshots' = DecodeMetadata(file).snapshots
  /\ policies' = DecodeMetadata(file).policies
  /\ sound' = fileSound
  /\ UNCHANGED <<disk, clock, queue, file, released, fileSound>>

\* The call of an operation, or one step of execute_gc_actions.
Call ==
  /\ \/ /\ WriteThrough => Saved
        /\ \/ Operation
           \/ \E actions \in GcLists : ExecuteGcActions(actions)
     \/ GcStep
  /\ released' = {w \in DOMAIN disk'.roots :
                    /\ w \in DOMAIN disk.roots
                    /\ w \in released \/ (Ready(w) /\ Deleted(w)')}
  /\ UNCHANGED <<file, sound, fileSound>>

\* Time passes, or the process starts again, with metadata of its own.
Environment ==
  /\ \/ Tick /\ UNCHANGED sound
     \/ Restart /\ sound' = TRUE
  /\ UNCHANGED <<file, released, fileSound>>

DaemonNext == Save \/ Load \/ Call \/ Environment

DaemonSpec == DaemonInit /\ [][DaemonNext]_daemonVars

-----------------------------------------------------------------------------
(* Properties.                                                             *)

DaemonTypeOK ==
  /\ TypeOK
  /\ released \subseteq DOMAIN disk.roots
  /\ sound \in BOOLEAN /\ fileSound \in BOOLEAN

\* A daemon that saves after every call never destroys the files of a
\* workspace that was not soft-deleted, whatever crashes, lost saves and torn
\* files it comes back from: the metadata it reloads is at most one call old,
\* too little to mistake a workspace for an earlier one of the same id.
NothingInUseIsPurged ==
  [][DOMAIN disk.roots \ DOMAIN disk'.roots \subseteq released]_daemonVars

\* However old the file and whatever became of the disk, reloading metadata
\* that was saved whole leaves nothing that does not resolve: branches have
\* their snapshot and workspaces their policy (control.rs:96).
ReloadsAreConsistent == sound => ParentsLive /\ PoliciesResolve
=============================================================================
