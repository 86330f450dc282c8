# Flarenv in TLA+

A verification development for Flarenv, the manager of agent workspaces in
`src/` (Rust). It holds TLA+ specifications of the control plane, its btrfs
storage and the in-memory one of its tests, the garbage collector, the metadata
file, the ssh server, the session runtime and the usage report, TLC configurations
that check them on small instances, and proofs, checked by TLAPS, that every
safety property they check holds for any number of workspaces, snapshots, policies,
connections and sessions, any file and any tree of paths.

Paths like `control.rs:219` are `src/src/control.rs`, line 219.

## 1. The system

| component | source | state it keeps | operations | talks to |
|---|---|---|---|---|
| control plane | `control.rs`, `model.rs`, `network.rs` | three `BTreeMap`s: workspaces, snapshots, network policies; the default policy | create, branch, snapshot, soft-delete, purge, run a list of purges, set limits, set policy, open a session, `replace_metadata` | calls storage and the executor, synchronously |
| btrfs storage | `storage.rs`, `layout.rs` | the subvolumes under the state root, their qgroup limits and the links in them | create, clone, snapshot, delete, set quota; each is one `btrfs` command, create and clone also lay out the root | `btrfs`, the host file system |
| in-memory storage | `storage.rs` | two maps, of workspace and snapshot ids to paths | the same trait, for tests; quotas are checked and not kept | nothing |
| garbage collector | `gc.rs` | none | `plan_gc`: metadata and time to a list of purges | reads metadata; its list is run by `execute_gc_actions` |
| metadata store | `metadata.rs` | one file of tab-separated lines | `save`, `load` | whoever owns the control plane; `gc-plan` and `usage` read the file from other processes |
| ssh server | `ssh_wire.rs`, `main.rs` (`serve-ssh`) | the control plane behind a tokio mutex, a session counter, per connection the authenticated principal | authentication, shell and exec requests | `ControlPlane::open_session` under the mutex |
| session router | `frontend.rs` | grants of principals | authorise, then open a session | control plane |
| session runtime | `runtime.rs` | active sessions, counters | a loop over an mpsc channel of events, with ticks and a shutdown | senders of events |
| usage report | `usage.rs` | none | walk every root, sum sizes, quotas and limits | the file system, `btrfs qgroup show` |
| executor | `executor.rs` | none | run `systemd-nspawn` on a root | the host |
| preflight, config, ids, profile, main | the other files | none | checks, parsing, printing | |

What is hard about it:

- **Partial failure.** Every operation is storage first, record second, with no
  undo. A create that fails in its quota or its layout leaves a subvolume nobody
  has a record of; the next call with that id meets it.
- **Restarts.** `ControlPlane::new` starts with empty metadata over whatever the
  state root holds. Ids are taken again while their roots are still there.
- **Sequences.** Soft-deleted workspaces still count as branches; plans are made
  from one state of the metadata and run on another; policies are shared by id.
- **A file written in place.** A crash, a full disk or a reader in another
  process meets a prefix of it, which often still loads.
- **Concurrency** is between processes (the file), between connections (one
  mutex around the control plane), and between sessions and the usage walk, which
  reads directories while they are written. The control plane itself takes `&mut self` everywhere.

What makes each component correct, in a line each: the *control plane* never
destroys what was not released and never records what storage does not have;
*storage* never touches a subvolume other than the one it was asked for; a *plan*
can be carried out, keeps the newest snapshots and takes nothing early; the
*store* gives back what it was given, and a torn file gives nothing that was not
there; the *ssh server* opens a session only for an authenticated principal and
eventually serves every connection; the *runtime* counts each session once; the
*usage report* counts what is there. `PROJECT.json` lists the hazards line by
line with the property that watches each.

## 2. The modules

```
Maps ─ Storage ─ ControlPlane ─┬─ InMemoryStorage    Lifecycle (abstract)
                               ├─ Collector              ▲ refinement, proved in
                     Gc ───────┴─ MetadataStore ─ Daemon │ ControlPlaneProofs

ControlPlane ─ ControlPlaneProofs ─┬─ CleanProofs ─┬─ CollectorProofs
                   InMemoryStorage ┘    Collector ─┤
                                Gc ─ GcProofs ─────┴─ StoreProofs ─ Daemon

SshServer ─┬─ ServeSsh           Runtime ─ RuntimeProofs    Usage ─ UsageProofs
           └─ SshServerProofs
```

**Maps** — `BTreeMap` insert and remove on functions.

**Storage** — `BtrfsStorage` and the guest layout. Each call is an operator from
the disk it finds to the *set of its outcomes*, a result and the disk it leaves:
one outcome when commands only fail for a reason, two when they may fail at will
(`Faults`). `Then` is the `?` operator: an error keeps what was done before it.
`SubvolumeCreate`, `SubvolumeClone` and so on are the `btrfs` tool, as far as the
code depends on it: create refuses a path that exists, a read-only snapshot can
not be made inside a read-only one, a writable snapshot of an existing directory
is made *inside* it, and a subvolume with another one inside can not be deleted.
A root is its files (one opaque value), the state of each member of its layout, its
quota, and the snapshots cloned into it. A member of the layout is `absent`,
`present` or `dangling` (a symlink without a target on the host): `exists()`
follows links, `symlink()` does not.

**InMemoryStorage** — the backend the control plane's own tests run on, in the
same form: outcomes on a disk that is two sets of ids. `BackendsAgree` says that
every call the control plane lets through has the same result on both and leaves
the same ids.

**ControlPlane** — one action per operation of `ControlPlane<S, E>`, with the
guard from its early returns, the storage call, and the metadata update made only
when storage succeeded. An error that changes nothing is a stuttering step and has
no action. `execute_gc_actions` is a loop, so it is a step per iteration
(`GcStep`) with a `queue` that shuts every other operation out until it returns,
and a crash may fall between two iterations. `Restart` is a process that starts
again with `ControlPlane::new`; a crash inside an operation is that operation with
a failing command, followed by `Restart`. `RunSession` is what a container may do
to the root it runs on. `Tick` is the wall clock, which may be set back.

**Lifecycle** — the promise: a workspace is absent, ready or soft-deleted, only
soft-deleted ones are purged, a snapshot lives while any workspace is a branch of
it. `ControlPlane!ImplementsLifecycle` is the refinement.

**Gc** — `plan_gc` as a function of the metadata and the time, order included.
**Collector** — a caller that plans at one time and runs the plan at another, with
everything else in between, and history variables for what the properties need:
whether the plan is fresh, how many plans in a row were completed, and which
workspaces are gone since the plan was made.

**MetadataStore** — `save` and `load` as functions between metadata and lines
(`Encode`, `DecodeMetadata`, `Readable`), and `Torn`: what an interrupted write can
leave, between two lines or inside one. A line is a record; characters are only
looked at where a shorter text is still a record, which is a time with its last
digits missing. The properties are invariants over whatever metadata the control
plane has: *if it were saved now*.

**Daemon** — the control plane with the file beside it. The repository leaves it to
the embedding program when to call `save` and `load`; so they may be called
between any two operations, and `WriteThrough` restricts the caller to save after
every call. Three history variables: `released`, the roots whose workspace was
soft-deleted; `sound`, whether the metadata in memory goes back to files that were
written whole; `fileSound`, whether the file does.

**SshServer** — connections as processes around one mutex. A handler draws a session
id (`ShellOrExec`), queues for the mutex (`Lock`), gets the control plane in its turn
(`OpenSession`, or `RefuseSession` when that fails), and gives it back when the
session ends (`SessionExits`). These are the points at which handlers of different
connections interleave: `fetch_add`, and `lock().await`. The control plane behind
the mutex is only whether it serves: `Serves` is `ready_workspace` for the one
configured workspace, which nothing changes once the server owns it, and
`ExecFaults` lets the executor fail. That the mutex admits one handler at a time is
`MutexIsSound`, which is proved (`OneInsideTheControlPlane`), and it is why
`ControlPlane` may take its operations as atomic. A client authenticates, sends requests ahead of their answers up to `MaxPipelined`,
and may leave at any time; russh reads nothing of a connection while its handler
runs, so a client that left (`link` = "gone") is noticed only in between. An
unauthenticated client gets no channel, so `Request` has `authed` as its guard.
The counter wraps at `LastId`. `since` is a history variable: how many ids were
drawn since a handler drew its own, which is what decides whether an id can have
come round.

**ServeSsh** — `flarenvd serve-ssh`: the ssh server (`INSTANCE SshServer`) with
the grants and the control plane `main` builds for it. A key in OpenSSH's text
form is a key and a comment; `grant` and `can_open` compare the whole of it. The
keys a connection offered and the answers are history.

**Runtime** — `SessionRuntime`: a channel, its senders, and the loop that receives,
times out or finds itself alone. `RunBlocking` is a call of `run_blocking`, which
may be called again after it returned; what is in the channel stays there. The
senders are whoever clones the `Sender`: each session's start and exit is sent
once, in either order, since nothing in the code says that one thread sends both.
`overtaken` remembers for which the exit went first. `ticks` wraps at `LastTick`.

**Usage** — `measure_usage` of one process over roots that sessions and purges of
others change meanwhile. `directory_size` is followed call by call: `Stat` is
`symlink_metadata`, `ReadDir` opens a directory, `NextEntry` takes one entry of it
and goes into the recursion with it, or ends the loop (`Close`). The stack of the
recursion is the way from the root to the path `here`, with an open `ReadDir` for
each directory on it. `Change` puts anything at a path and below it, in one step,
between any two calls: a file or a link is made, removed, or takes the place of a
directory; a directory is renamed or exchanged; a root is purged.

What a `ReadDir` gives then is what POSIX says of it. An entry that was there when
the directory was opened and still is (`kept`) is given once before the end. One
that was removed since (`gone`) or made since (`made`) is given or not; a path that
is made again can so be given again. A directory that was renamed or removed is
still read (`at` = "away"), and its entries are looked up at the path it had;
one that a link led to ("elsewhere") can hold anything. `Look` is what a system call
finds at a path: what is there, ENOTDIR if a file is on the way, anything at all if
a link is, and, for the paths in `Unreadable`, a refusal. `NotFound` anywhere ends
the root with a zero; every other error ends the report (`Failed`), for either probe.
`life` is history: what became of each path while its root was walked, and
`counted` and `again` are the paths whose length was added, and added again.

Definitions whose comment starts with "Mutated:" are wrong on purpose: each is a
plausible bug of the definition that follows it, kept to show that the properties
would notice.

### What is abstracted

Files are one value per root. `agent_id`, `created_at` and `root_path` of a
workspace, and the cpu, memory and pid limits, are carried through the code without
a decision; they are left out. Policies are their kind, without the cidrs. An id
names its path (`storage.rs:120`). Two operations never overlap, which `&mut self`
guarantees. Guests do not create subvolumes of their own. In **Usage** a path is
charged or not: how many bytes it has, and that a file grows while it is walked, is
left out, for the sum is one addition per path; `btrfs qgroup show` fails for a root
that is not there, and not for other reasons.

## 3. The runs

| run | instance | shows |
|---|---|---|
| `lifecycle` | 2 workspaces, 1 snapshot, two limits, two policies, failing commands, restarts | types, references, records backed by subvolumes, quota in force and limit recorded agree whatever fails, nothing destroyed or rewritten that was not to be, new workspaces start empty, what is in a root that stays is left alone but by sessions and by the branch of finding 1, policies change only by a call that names them, refinement of `Lifecycle` |
| `clean` | 2 workspaces, 2 snapshots, lists of purges, no faults | storage and metadata agree exactly, nothing leaks, branches are copies, and the in-memory backend answers as btrfs does |
| `plans` | 2 workspaces, 2 snapshots, retain 1, plans of any age, the clock may go back, no faults | a plan run at once never aborts, keeps the newest, and two passes reach a fixed point; a workspace that an old plan purges was due when the plan was made, or is another one of its id |
| `files` | all metadata of 2 workspaces and 2 snapshots, two ticks to a second, every cut | saving and loading loses only fractions of a second, and a plan moves by no more than that; what loads of a torn file has its policies and asks for no collection the whole file does not ask for, but for the record at the cut |
| `write_through` | faults, torn saves, restarts at any point, reloads, lists of purges | a daemon that saves after every call never destroys a workspace in use, and what it reloads of a file that was written whole resolves |
| `ssh` | 3 connections, any number of sessions, the counter wraps at 1 | sessions in progress have distinct ids until the counter came round, every request read is answered, every client that left is noticed |
| `runtime` | 2 sessions, 2 senders, 4 events in the channel, ticks wrap at 1 | a session is active from its start to its exit unless the exit overtook, exits are counted once however often the loop is shut down and run again; it stops when asked or alone and ticks when quiet |
| `usage` | 2 roots, each a directory with a file in it, that may be refused; both probes | a path that stayed is charged once, one that was never there is not, unless something above was replaced, or nothing is charged after a path vanished; a report fails only for a reason; it ends when the changes do |
| `retried_branch`, `plain_host`, `dash_snapshot`, `serve_ssh` | | the findings of section 5 |

Two workspaces are a branch and the workspace its snapshot was taken of; two
snapshots are needed to compare ages and to retain one of them, and every property
relates at most two of either. One restart can follow another, so that an id can be
taken, forgotten and taken again. Times run to the smallest value at which a
deadline passes while another is pending; in `files`, to two seconds of two ticks;
where no property looks at the time (`lifecycle`, `clean`, `write_through`)
`MaxTime` is 0 and the clock stands. In `lifecycle` the workspaces are symmetric:
they are model values, no definition orders them, and there is nothing temporal in
its properties but steps. `Retain` is 1 instead of 3 so that two snapshots can be
too many; the radix of the numbers in the file is 2 instead of 10 so that times of
two digits are small. `GcLists` holds lists in which the second purge depends on
the first; the plans of `Collector` are whatever `PlanGc` returns.

`plans` has no failing commands and no restarts: either may abort a fresh plan, and
the metadata a plan is made from does not depend on them. In `write_through` a file
may be torn and still load, without its default policy say: the next
`create_workspace` then records a workspace whose policy is not there. No document
promises anything of such metadata, hence `sound` in `ReloadsAreConsistent`;
`TornPoliciesResolve` says what does hold.

The `clean` run assumes that sessions leave no dangling link in the members of the
layout (`GuestLeaves`), and a host on which the targets exist; without the second,
see the finding `plain_host`. In `lifecycle` sessions leave nothing but dangling
links, so that the layout of a root that was used is in the way of every branch of
it.

Three connections are one inside the mutex and two that wait, the least at which an
order among the waiters matters. `LastId` stands for 2^64 - 1; it is 1, so that
three handlers are enough for the counter to come round to an id in use, and
`DistinctSessions` is tested right at its limit. `MaxPipelined` is 1: a request is
sent while the one before it is handled.

Two sessions are the least of which one's report can be between the two of another;
four events are all there can be to say about them, and shutdowns and ticks take
their place. `MaxQueued` bounds the channel, which has no bound in the code, and
`MaxSenders` the clones. In `usage` there is a directory with a file in it below the
root, the least in which a directory that is being read, or one above it, is
replaced. Any two system calls may have any number of changes between them. A
directory with several entries at a time is left to the theorems of **UsageProofs**,
which are for any tree: with a path beside the directory the run has too many states.

**Fairness and liveness.** `ssh` assumes weak fairness of `Server(c)`, the
steps of one connection's handler and loop, for each connection: tokio polls every
task that is ready, its mutex hands itself to its waiters in order (that order is
part of the model, `Wait`), and a session that runs ends some time. The last is an
assumption on the container and its user and not on the code, which sets no limit
to a session: without it one open shell blocks every other connection, the hazard
at `ssh_wire.rs:117`. While a session runs it also keeps a worker thread from tokio;
one at most, by `MutexIsSound`. Nothing is assumed of clients, which may never
authenticate, ask or leave. `runtime` assumes weak fairness of `Loop`, one thread
that is scheduled and whose `recv_timeout` returns; senders may never send, nor
drop, and nobody has to call `run_blocking` again. Which of `Receive`, `Timeout` and
`Disconnected` it is depends on the channel, never on a choice, so one fairness
condition is all there is: `TicksWhenQuiet` needs the channel to stay empty, because
a loop that is fed does not tick (`runtime.rs:76`). `usage` assumes weak fairness of
`Walker`: system calls return. That is not enough for the walk to end: a directory
that is fed gives entries for ever (`usage.rs:113`), so `ReportsAreMade` says that
the report ends or the others never stop. The other modules assume no fairness and
have no liveness properties: nothing in the code schedules a collection or a save,
and every operation of the control plane returns. Deadlock is checked in every run.

`NothingInUseIsPurged` does need the discipline of `write_through`: a daemon that
saves less often can save a soft-deleted workspace, purge it, make it again, crash,
reload the old record and purge the new files. TLC finds that trace when
`WriteThrough` is `FALSE`. It is not listed as a finding, as no document says how
often a caller may save.

## 4. The proofs

For all values of the constants, from the assumptions named in the modules:

| theorem | says |
|---|---|
| `TypeCorrect` | `Spec => []TypeOK` |
| `ParentsStayLive` | a branch's snapshot is in the metadata |
| `PoliciesAlwaysResolve` | a workspace's policy is in the metadata |
| `RecordsAlwaysBacked` | a record has its subvolume |
| `QuotasAlwaysAgree` | the limit recorded is the limit in force |
| `OnlyReleasedIsDestroyed` | a root is destroyed only when soft-deleted, an image only without a branch |
| `ImagesStayFrozen` | an image never changes |
| `RootsStayLeftAlone` | what is in a root that stays (files, layout, what is nested) changes only in a session on it, or in a branch onto a root left behind, which keeps its files |
| `CreatedRootsStartEmpty` | `create_workspace` hands out an empty root, whatever the id was used for before |
| `PoliciesChangeExplicitly` | the policy of a workspace changes only by a call that names its policy id |
| `LifecycleImplemented` | `Spec => ImplementsLifecycle`, the refinement |
| `NothingEverLeaks` | undisturbed: storage holds the subvolumes of the metadata and no other |
| `BranchesAreCopies` | undisturbed: a branch starts with the files of its snapshot |
| `BackendsAlwaysAgree` | undisturbed: the in-memory backend answers as btrfs does |
| `SshTypeCorrect` | the ssh server's `Spec => []TypeOK`; only connections that authenticated have requests |
| `OneInsideTheControlPlane` | at most one handler holds the mutex; the queue is those that wait, once each |
| `SessionsStayDistinct` | sessions in progress have distinct ids until the counter came round |
| `RuntimeTypeCorrect` | the runtime's `Spec => []TypeOK`; only sessions that started are active |
| `ActiveSessionsAreRight` | a session is active from its start to its exit, or for ever if the exit overtook |
| `ExitsCountOnce` | an exit that was sent is counted once or still in the channel |
| `PlanFacts` | `plan_gc` returns what is due and what is surplus, each once, and nothing else |
| `RetainedAreKept` | of the snapshots newer than a surplus one, `Retain` are not surplus |
| `CollectorTypeCorrect` | `CollectorSpec => []CollectorTypeOK` |
| `CollectedAlwaysDue` | a plan of any age purges only workspaces that were due when it was made, or another one of the id |
| `NewestAlwaysKept` | during a fresh plan, every snapshot still to go leaves `Retain` others that are not older |
| `FreshPlansComplete` | undisturbed: a plan run at once never aborts |
| `TwoPassesAlwaysSettle` | undisturbed: after two plans in a row a third has nothing to do |
| `SavedAlwaysLoads` | no snapshot is `-`: what is saved is loaded, to the second |
| `ReloadedPlansAlwaysClose` | no snapshot is `-`: a save and a load move a plan by fractions of seconds only |
| `TornPoliciesAlwaysResolve` | what loads of a torn file has its policies |
| `TornPlansAlwaysDue` | no snapshot is `-`: a torn file asks for no collection the whole one does not, but for the record at the cut |
| `DaemonTypeCorrect` | `DaemonSpec => []DaemonTypeOK`, whatever file is loaded |
| `ReloadsAlwaysConsistent` | what goes back to whole files has its snapshots and policies |
| `NothingInUseEverPurged` | `WriteThrough`: no root of a workspace in use is destroyed, through crashes and torn files |
| `UsageTypeCorrect` | the usage report's `Spec => []TypeOK`; entries are given only of the directories on the way to the call |
| `AlwaysChargedForWhatIsThere` | a path that stayed is charged once; one that never was is not, and none twice, unless it or what is above it was replaced; or nothing is charged after a path vanished |
| `AlwaysFailsForAReason` | a report fails only for a path that was replaced, a refusal or, with btrfs, a root that is gone |

**ControlPlaneProofs** states first what each storage call may do to a disk, with
failures: create, clone and quota only ever *grow* the disk by the root they name
(`Grown`), and a delete removes the one subvolume it names or nothing. It then
proves types, and the inductive invariant

    Consistent == Resolved /\ Backed
    Resolved   == ParentsLive /\ PoliciesKept
    Backed     == MetadataBacked /\ QuotaAgrees

`Resolved` is about the metadata alone, and inductive alone, which the daemon needs.
`PoliciesKept` strengthens `PoliciesResolve` by "the default policy is there",
without which `create_workspace` would not preserve it; and `QuotaAgrees` needs
`MetadataBacked`, since an id whose record had no root could get a root with another
quota. The two ways a workspace enters the metadata share the lemma `AdmitFacts`,
the three ways a purge is called share `PurgeFacts`. The action properties follow
from the types and `DiskSteps`, one step at a time, and for `RootsAreLeftAlone` from
`AloneSteps`, which says what create and clone leave of a root that was there; `PoliciesChangeExplicitly` needs
`Consistent` too, for a policy id that is made does not change one that was there.
Last, it maps every action to a step of `Lifecycle` or a stutter.

**CleanProofs** is about a control plane that nothing disturbs:

    Undisturbed == ~Faults /\ ~Restarts /\ HostResolves = Entries
                   /\ "dangling" \notin GuestLeaves

The theorems assume it. Each of its parts is needed for `NothingLeaks` and
`BackendsAgree`: drop one from the constants of `clean` and TLC finds a violation
(for the third that is the finding `plain_host`). `BranchesCopyTheirSnapshot` needs
the first two, see `retried_branch`; in the instance of `clean` TLC finds no
violation without the others, but they are what makes the proof short. `NothingLeaks` is not inductive: it
needs that no storage call fails half-way, which it does when a member of a layout
dangles. The invariant is therefore

    Clean == NothingLeaks /\ no root and no image has a member that dangles

The lemmas `CreateCompletes`, `CloneCompletes` and `QuotaCompletes` say that on such
a disk a call has exactly one outcome, success, with the root it adds (`Added`):
what `NothingLeaks` says of the id, that there is no root in its place, is what
keeps the clone from going inside another root. From the same three lemmas come
`BranchesAreCopies`, one step at a time, and `BackendsAlwaysAgree`, state by state.

**SshServerProofs** needs no strengthening for `MutexIsSound`, which is inductive: a
handler joins the queue when it is in none and leaves it from the head when nobody
is inside. `DistinctSessions` is not: it needs that the id of a handler is as far
behind the counter, modulo `LastId + 1`, as ids were drawn since
(`IdsBehindCounter`), and that two handlers drew at different times.

**RuntimeProofs** proves `OnlyOvertakenStay` from what the channel may hold: no
report twice, only reports that were sent, and an exit before its start only for a
session in `overtaken`. `ExitsAreCountedOnce` then follows a session at a time: an
exit received adds one session to the set that is counted.

**GcProofs** is about `plan_gc` as a function. The plan is a CHOOSE of a sorted
sequence; that there is one follows from the rank of an element, the number of those
before it (`Ranks`). `PlanIsAsked` says that the plan is exactly `Expired` and
`Surplus`, each action once, and `SurplusCarries` that a snapshot that is surplus in
one metadata is surplus in another that has at least its newer ones.

**CollectorProofs** needs an invariant for each property. For `CollectedWereDue` it
is `Due`: a workspace of the plan that is not in `gone` is still the soft-deleted
one the plan was made for. For `NewestAreKept` it is `Running`: before a fresh plan
runs it is what would be planned again, and during the run each of its actions is
done or still in the queue, once, with nothing in its way. With `Clean` of
CleanProofs, which makes every purge that is allowed succeed, `Running` gives
`FreshPlanCompletes`. For `TwoPassesSettle` it is `Passes`: after one completed pass
no workspace is due, so the second plan is of snapshots alone, and purging those
cannot make another one surplus. `CollectedWereDue` measures the age as `plan_gc`
does, `Age(plan.at, ...)`, so that a clock that was set back since changes nothing.

**StoreProofs** needs no induction over the lines of a file. A file that was saved
is a header and three listings in order (`FileOf`); whatever loads of it after a cut
is its first lines, of which the last may have a shorter time (`PrefixOf`,
`TornFacts`). Every record that is read comes from its line (`LoadedRecords`), every
line before another one in the prefix is there too (`EarlierLines`), and policies
come before workspaces and those before snapshots (`LoadedInOrder`). Hence
`TornPoliciesResolve` for any ids. The others assume `Dash \notin SnapshotIds`,
without which `RoundTrip` is false: that is the finding `dash_snapshot`.
For the daemon, `DaemonKept` adds to the types that a file that loads holds typed
metadata. `ReloadsAreConsistent` is not inductive, nor is `NothingInUseIsPurged`;
they follow from

    SoundResolves       == sound metadata, and that of a sound file, has its
                           snapshots, its policies and the default policy
    DeletedWereReleased == what is soft-deleted in memory, or in a file that loads,
                           and has a root, was soft-deleted since that root was made

The second is where `WriteThrough` is needed, see the end of section 3. A torn file
keeps it: the cut takes records away, and changes no state of those it leaves.

**UsageProofs** is about two kinds of paths: `Steady`, which stayed with all that is
above them, and `Clear`, which may have come or gone but were not replaced, nor was
anything above. The invariant `Walking` says of them, besides what the types do not:

    StreamsFit      == what a ReadDir lists is at its path, or was there and went,
                       if the path is Clear
    EntriesFit      == an entry to be given fits what became of its path
    OnceOnly        == a Clear path that exists is counted, looked at, or has one
                       entry to be given: one of the three at the most
    InOrder         == and is counted only after its directory was, and was opened
    NonePassedOver  == a Steady path is counted, looked at or to be given, or its
                       directory is not opened yet

None of these is inductive without the others: that a directory is opened once needs
`OnceOnly` for the directory, and that its entries are new needs `InOrder` for them.
What a link leads to needs no bound, for a link on the way to the call has taken the
place of a directory that was counted (`VisitedOnce`), so nothing below is `Clear`.
When the walk is done nothing is to be given, and `NonePassedOver` goes from each
directory to what is in it, beginning with the root: it is here that the paths must
be a tree (`UsageAssumption`, `TreeInduction`). The same facts give each error its
reason (`StatFinds`, `ReadDirFinds`). A path is in `counted` or `again`, so that no
sum has to be taken.

Only model-checked: the liveness properties of `ssh`, `runtime` and `usage`, for
liveness and `ENABLED` are out of the prover's reach; that each finding's run
violates its property; and the mutants. `ServeSsh` has one property, which the code
violates, and `SshServer`'s theorems speak of the server it instantiates.

## 5. What the code does that its documents and tests do not say

1. **A retried branch succeeds with the wrong files** (`retried_branch`,
   `storage.rs:201`). `clone_workspace` does not look whether the destination is
   there. After a branch or create that failed half-way, or a restart, it is, and
   `btrfs subvolume snapshot` puts the copy inside it. `branch_workspace` then
   records a workspace with the files of the old root, which can not be purged
   either. The in-memory backend refuses the same call.
2. **On a host without `/run/current-system/sw` no branch succeeds** (`plain_host`,
   `layout.rs:26`). The links a snapshot brings along dangle there, `exists()` says
   no, and `symlink()` fails with `EEXIST`, after the subvolume was made. Each such
   call leaks a root.
3. **A snapshot named `-` loses its branches in a reload** (`dash_snapshot`,
   `metadata.rs:164`). `-` stands for "no parent" in the file and is a valid id.

4. **The key of the README's example does not open its server** (`serve_ssh`,
   `main.rs:84`). The example's key line ends with a comment, `agent@example`. The
   workspace is granted to the whole line, and asked for with the text of the key
   the client proved, which has no comment. Its owner is rejected. Without the
   comment the same run finds no error (`WithoutComment` in **MCServeSsh**). That
   the sessions of a client that is let in are refused, because `serve-ssh` starts
   with empty metadata (`Metadata` in **ServeSsh**), is not listed: the program
   prints that this frontend is not wired yet (`main.rs:45`).

Not findings, but worth a look: `execute_gc_actions` stops at its first error
(`control.rs:248`), so a root that can never be deleted, such as one left by
finding 1, starves every purge planned after it; `open_session` records the access
before the executor runs (`control.rs:304`), so a session that never started puts
off the collection of its workspace; and an exit that overtakes its start leaves a
session active for ever (`runtime.rs:50`), which is why `OnlyOvertakenStay` has its
exception. In the usage report, a directory that becomes a file between
`symlink_metadata` and `read_dir` fails the report of every workspace, also with the
probe of the command line (`usage.rs:59`), and one that becomes a link there is
followed out of the root (`usage.rs:113`).

## 6. What is left

Everything with a state of its own is modelled, and each safety property that a run
checks is proved, unless the code violates it. What could follow: a theorem that
`ServeSsh` lets in the key it should when the key line has no comment; a reader in
another process whose read of the metadata file overlaps two writes of it; and an
executor that outlives its daemon, when the code comes to look for containers it
finds running.

### Not modelled, and why

- **Host preflight** (`preflight.rs`): reads of `PATH` and of the file system that
  become a printed report and an exit status, without a state.
- **Configuration, ids, profile** (`config.rs`, `ids.rs`, `nix_profile.rs`):
  environment variables, path checks and the alphabet of ids, pure functions. What
  `build_host_control_plane` starts with is `Init` of **ControlPlane** and
  `Metadata` of **ServeSsh**; that ids admit `-` is in **MetadataStore**.
- **The `systemd-nspawn` command line** (`executor.rs`) and **the parser of
  `btrfs qgroup show`** (`usage.rs`): text. A session's effect on its root is
  `RunSession`; that it may fail to start is `ExecFaults`. A machine name that
  comes again after a crash (`executor.rs:61`, with the counter of `ssh_wire.rs:70`)
  is refused by systemd-nspawn, which
  the client is told as the exit status.
- **The totals of a usage report** (`usage.rs:83`): sums, which overflow past
  2^64 - 1 bytes; no document says to what.
- **`SshSessionRouter::open_session`** (`frontend.rs`): `CanOpen` followed by
  `OpenSession`, without a state; only users of the library call it.
- **Argument parsing and printing** (`main.rs`).
- **russh, tokio and std's mpsc**: libraries, modelled by what the code relies on.
