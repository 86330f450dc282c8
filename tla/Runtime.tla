------------------------------- MODULE Runtime ------------------------------
(***************************************************************************)
(* runtime.rs: SessionRuntime, a loop on one thread that receives the      *)
(* events other threads send over an mpsc channel, and makes a tick of its *)
(* own whenever none came for a while. Each session is reported twice, by  *)
(* whoever starts it and by whoever sees it exit; these may be different   *)
(* threads, and the second report may be sent first.                       *)
(***************************************************************************)
EXTENDS Naturals, Sequences, FiniteSets, Functions

CONSTANTS
  Sessions,    \* the pairs of a workspace and a session id
  NoSession,   \* in the events that are not about a session
  MaxSenders,  \* bound of the clones of the Sender there are at a time
  MaxQueued,   \* bound of the events that are sent and not yet received
  LastTick     \* where ticks wraps: 2^64 - 1 in the code

ASSUME RuntimeAssumption ==
  /\ NoSession \notin Sessions
  /\ MaxSenders \in Nat \ {0}
  /\ MaxQueued \in Nat \ {0}
  /\ LastTick \in Nat \ {0}

\* enum ControlEvent
Event == [kind    : {"SessionStarted", "SessionExited", "Tick", "Shutdown"},
          session : Sessions \cup {NoSession}]

Started(s) == [kind |-> "SessionStarted", session |-> s]
Exited(s)  == [kind |-> "SessionExited", session |-> s]
TickEvent  == [kind |-> "Tick", session |-> NoSession]
Shutdown   == [kind |-> "Shutdown", session |-> NoSession]

VARIABLES
  channel,   \* what was sent and not received, oldest first
  senders,   \* the clones of the Sender that were not dropped
  active,    \* active_sessions
  exited,    \* exited_sessions
  ticks,     \* ticks
  loop,      \* "in" run_blocking, or "out": not called, or returned
  started,   \* history: the sessions whose start was sent
  ended,     \* history: the sessions whose exit was sent
  overtaken  \* history: the sessions whose exit was sent before their start

stats == <<active, exited, ticks>>
history == <<started, ended, overtaken>>
vars == <<channel, senders, stats, loop, history>>

Init ==
  /\ channel = <<>>
  /\ senders = 1
  /\ active = {}
  /\ exited = 0
  /\ ticks = 0
  /\ loop = "out"
  /\ started = {}
  /\ ended = {}
  /\ overtaken = {}

-----------------------------------------------------------------------------
(* The senders. An event is in the channel when send() returns.            *)

Send(event) ==
  /\ senders > 0
  /\ Len(channel) < MaxQueued
  /\ channel' = Append(channel, event)
  /\ UNCHANGED <<senders, stats, loop>>

SendStarted(s) ==
  /\ s \notin started
  /\ Send(Started(s))
  /\ started' = started \cup {s}
  /\ overtaken' = IF s \in ended THEN overtaken \cup {s} ELSE overtaken
  /\ UNCHANGED ended

SendExited(s) ==
  /\ s \notin ended
  /\ Send(Exited(s))
  /\ ended' = ended \cup {s}
  /\ UNCHANGED <<started, overtaken>>

SendTick == Send(TickEvent) /\ UNCHANGED history

SendShutdown == Send(Shutdown) /\ UNCHANGED history

CloneSender ==
  /\ senders \in 1..(MaxSenders - 1)
  /\ senders' = senders + 1
  /\ UNCHANGED <<channel, stats, loop, history>>

DropSender ==
  /\ senders > 0
  /\ senders' = senders - 1
  /\ UNCHANGED <<channel, stats, loop, history>>

-----------------------------------------------------------------------------
(* The loop.                                                               *)

\* run_blocking is called, or called again after it returned: the receiver and
\* the statistics are those of the call before.
RunBlocking ==
  /\ loop = "out"
  /\ loop' = "in"
  /\ UNCHANGED <<channel, senders, stats, history>>

\* BTreeSet::insert
Start(s) == active' = active \cup {s}

\* Mutated: only the exits of active sessions count.
ExitIfActive(s) ==
  /\ active' = active \ {s}
  /\ exited' = IF s \in active THEN exited + 1 ELSE exited

\* Mutated: a session that exits with a code other than zero stays.
ExitUnlessFailed(s) ==
  /\ active' \in {active, active \ {s}}
  /\ exited' = exited + 1

\* Mutated: the session is inserted, as a start would.
ExitInserting(s) ==
  /\ active' = active \cup {s}
  /\ exited' = exited + 1

\* The exit of a session that is not active counts as well.
Exit(s) ==
  /\ active' = active \ {s}
  /\ exited' = exited + 1

\* The addition of a release build, which wraps.
CountTick == ticks' = IF ticks = LastTick THEN 0 ELSE ticks + 1

\* Mutated: the shutdown is ignored while there are sessions.
StopIfIdle == loop' = IF active = {} THEN "out" ELSE loop

\* apply() returns false and run_blocking its statistics.
Stop == loop' = "out"

\* fn apply
Apply(event) ==
  \/ /\ event.kind = "SessionStarted"
     /\ Start(event.session)
     /\ UNCHANGED <<exited, ticks, loop>>
  \/ /\ event.kind = "SessionExited"
     /\ Exit(event.session)
     /\ UNCHANGED <<ticks, loop>>
  \/ /\ event.kind = "Tick"
     /\ CountTick
     /\ UNCHANGED <<active, exited, loop>>
  \/ /\ event.kind = "Shutdown"
     /\ Stop
     /\ UNCHANGED stats

\* recv_timeout returns the oldest event.
Receive ==
  /\ loop = "in"
  /\ channel # <<>>
  /\ Apply(Head(channel))
  /\ channel' = Tail(channel)
  /\ UNCHANGED <<senders, history>>

\* Mutated: no ticks without sessions.
NobodyCameWhileActive == channel = <<>> /\ senders > 0 /\ active # {}

\* tick_interval passed, and nothing was sent.
NobodyCame == channel = <<>> /\ senders > 0

\* ... or came to an end: the loop makes a tick of its own.
Timeout ==
  /\ loop = "in"
  /\ NobodyCame
  /\ Apply(TickEvent)
  /\ UNCHANGED <<channel, senders, history>>

\* What recv_timeout calls Disconnected: nothing was sent and nobody is there
\* to send.
NobodyIsLeft == channel = <<>> /\ senders = 0

\* Mutated: every error of recv_timeout is a tick.
DisconnectedTicks ==
  /\ loop = "in"
  /\ NobodyIsLeft
  /\ Apply(TickEvent)
  /\ UNCHANGED <<channel, senders, history>>

Disconnected ==
  /\ loop = "in"
  /\ NobodyIsLeft
  /\ Stop
  /\ UNCHANGED <<channel, senders, stats, history>>

Loop == Receive \/ Timeout \/ Disconnected

Next ==
  \/ \E s \in Sessions : SendStarted(s) \/ SendExited(s)
  \/ SendTick
  \/ SendShutdown
  \/ CloneSender
  \/ DropSender
  \/ RunBlocking
  \/ Loop

Spec == Init /\ [][Next]_vars

\* The thread of the loop is scheduled and recv_timeout returns. Nothing is
\* asked of the senders, nor of whoever calls run_blocking.
FairSpec == Spec /\ WF_vars(Loop)

-----------------------------------------------------------------------------
(* Properties.                                                             *)

\* The fields of SessionRuntime (runtime.rs:28): no session is active that was
\* not started.
TypeOK ==
  /\ channel \in Seq(Event)
  /\ senders \in 0..MaxSenders
  /\ active \subseteq started
  /\ exited \in Nat
  /\ ticks \in 0..LastTick
  /\ loop \in {"in", "out"}
  /\ started \subseteq Sessions
  /\ ended \subseteq Sessions
  /\ overtaken \subseteq started \cap ended

Queued == Range(channel)

StartReceived(s) == s \in started /\ Started(s) \notin Queued
ExitReceived(s)  == s \in ended /\ Exited(s) \notin Queued

\* A session is active from its start to its exit, however the reports of
\* several sessions and threads interleave and whatever ran in between; the
\* only ones that are active without end are those whose exit overtook their
\* start (runtime.rs:50,58).
OnlyOvertakenStay ==
  \A s \in Sessions :
    s \in active <=> StartReceived(s) /\ (ExitReceived(s) => s \in overtaken)

\* Every exit that was sent is counted once or still in the channel, also when
\* the loop was shut down in between and run again (runtime.rs:59,79).
ExitsAreCountedOnce == exited = Cardinality({s \in Sessions : ExitReceived(s)})

\* A shutdown stops the loop however many events are sent before and after it,
\* with sessions active or not.
StopsWhenAsked == loop = "in" /\ Shutdown \in Queued ~> loop = "out"

\* The loop does not survive its last sender.
StopsWhenAlone == loop = "in" /\ senders = 0 ~> loop = "out"

\* As long as nothing is sent the loop ticks again and again.
Quiet == loop = "in" /\ channel = <<>> /\ senders > 0
TicksWhenQuiet == <>[]Quiet => []<><<CountTick>>_ticks
=============================================================================
