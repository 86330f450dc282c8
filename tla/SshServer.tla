----------------------------- MODULE SshServer ------------------------------
(***************************************************************************)
(* ssh_wire.rs: connections that share one control plane behind a tokio    *)
(* mutex. russh runs the handler of a connection inside the loop that      *)
(* reads it: requests of a connection are handled one after the other, and *)
(* nobody notices that a client left, or is idle for too long, before the  *)
(* request at hand is answered.                                            *)
(*                                                                         *)
(* The server owns its control plane, so the one workspace it serves is    *)
(* ready for as long as it runs, or never.                                 *)
(***************************************************************************)
EXTENDS Naturals, Sequences

CONSTANTS
  Conns,        \* connections there can be at a time
  MaxPipelined, \* requests a client may send ahead of the answers
  LastId,       \* where session_counter wraps: 2^64 - 1 in the code
  Serves,       \* ready_workspace() finds the configured workspace
  ExecFaults    \* the executor may fail to start a session

ASSUME SshAssumption ==
  /\ MaxPipelined \in Nat \ {0}
  /\ LastId \in Nat \ {0}
  /\ Serves \in BOOLEAN /\ ExecFaults \in BOOLEAN

VARIABLES
  link,    \* "none"; "up"; "gone": the client left, the handler does not know
  authed,  \* authenticated_principal.is_some()
  inbox,   \* shell and exec requests sent and not yet read
  handler, \* where open_flarenv_session is, see States
  id,      \* the session id the handler drew
  waiters, \* the queue of the mutex, first come first served
  counter, \* session_counter
  since    \* history: ids drawn since the handler drew its own, up to LastId + 1

vars == <<link, authed, inbox, handler, id, waiters, counter, since>>

\* "drawn": has its id and is about to call lock(); "queued": waits for the
\* mutex; "running": holds it, and the session runs.
States == {"idle", "drawn", "queued", "running"}

Init ==
  /\ link = [c \in Conns |-> "none"]
  /\ authed = [c \in Conns |-> FALSE]
  /\ inbox = [c \in Conns |-> 0]
  /\ handler = [c \in Conns |-> "idle"]
  /\ id = [c \in Conns |-> 0]
  /\ waiters = <<>>
  /\ counter = 1
  /\ since = [c \in Conns |-> 0]

-----------------------------------------------------------------------------
(* The client, and what russh does by itself.                              *)

\* new_client: a clone of the server, without a principal.
NewClient(c) ==
  /\ link[c] = "none"
  /\ link' = [link EXCEPT ![c] = "up"]
  /\ authed' = [authed EXCEPT ![c] = FALSE]
  /\ UNCHANGED <<inbox, handler, id, waiters, counter, since>>

\* Mutated: the principal is kept in what the clones of the server share.
AuthPublickeyOfAll(c) ==
  /\ link[c] = "up"
  /\ handler[c] = "idle"
  /\ ~authed[c]
  /\ authed' = [d \in Conns |-> TRUE]
  /\ UNCHANGED <<link, inbox, handler, id, waiters, counter, since>>

\* auth_publickey with a key that can_open() the workspace; any other key is
\* rejected and changes nothing.
AuthPublickey(c) ==
  /\ link[c] = "up"
  /\ handler[c] = "idle"
  /\ ~authed[c]
  /\ authed' = [authed EXCEPT ![c] = TRUE]
  /\ UNCHANGED <<link, inbox, handler, id, waiters, counter, since>>

\* channel_open_session, and a request on the new channel.
Request(c) ==
  /\ link[c] = "up"
  /\ authed[c]
  /\ inbox[c] < MaxPipelined
  /\ inbox' = [inbox EXCEPT ![c] = @ + 1]
  /\ UNCHANGED <<link, authed, handler, id, waiters, counter, since>>

Leave(c) ==
  /\ link[c] = "up"
  /\ link' = [link EXCEPT ![c] = "gone"]
  /\ UNCHANGED <<authed, inbox, handler, id, waiters, counter, since>>

\* The handler is dropped, with the requests that were not read.
Disconnect(c) ==
  /\ handler[c] = "idle"
  /\ link' = [link EXCEPT ![c] = "none"]
  /\ authed' = [authed EXCEPT ![c] = FALSE]
  /\ inbox' = [inbox EXCEPT ![c] = 0]
  /\ UNCHANGED <<handler, id, waiters, counter, since>>

\* The connection loop sees that the client is gone.
HangUp(c) == link[c] = "gone" /\ Disconnect(c)

\* inactivity_timeout.
TimeOut(c) == link[c] = "up" /\ Disconnect(c)

-----------------------------------------------------------------------------
(* open_flarenv_session.                                                   *)

Busy(c) == handler[c] # "idle"

\* Mutated: the counter is read, and counted up only when the session runs.
NextSessionIdLater == counter' = counter

\* fetch_add, which wraps.
NextSessionId == counter' = IF counter = LastId THEN 0 ELSE counter + 1

\* shell_request or exec_request: the next request is read. A request without
\* a principal is refused, which cannot happen: no channel was opened.
ShellOrExec(c) ==
  /\ link[c] # "none"
  /\ handler[c] = "idle"
  /\ inbox[c] > 0
  /\ authed[c]
  /\ inbox' = [inbox EXCEPT ![c] = @ - 1]
  /\ handler' = [handler EXCEPT ![c] = "drawn"]
  /\ id' = [id EXCEPT ![c] = counter]
  /\ since' = [d \in Conns |->
                IF d = c \/ ~Busy(d) THEN 0
                ELSE IF since[d] > LastId THEN since[d] ELSE since[d] + 1]
  /\ NextSessionId
  /\ UNCHANGED <<link, authed, waiters>>

\* Mutated: the last to come is the first to be served.
WaitFirst(c) == waiters' = <<c>> \o waiters

\* The semaphore inside tokio's mutex serves its waiters in order.
Wait(c) == waiters' = Append(waiters, c)

\* lock()
Lock(c) ==
  /\ handler[c] = "drawn"
  /\ handler' = [handler EXCEPT ![c] = "queued"]
  /\ Wait(c)
  /\ UNCHANGED <<link, authed, inbox, id, counter, since>>

\* No guard of the mutex is alive.
Unlocked == \A d \in Conns : handler[d] # "running"

MyTurn(c) == Unlocked /\ waiters # <<>> /\ Head(waiters) = c

\* The request is answered: the handler is done with it.
Answer(c) ==
  /\ handler' = [handler EXCEPT ![c] = "idle"]
  /\ id' = [id EXCEPT ![c] = 0]
  /\ since' = [since EXCEPT ![c] = 0]

\* lock().await returns and control_plane.open_session starts the executor.
OpenSession(c) ==
  /\ MyTurn(c)
  /\ Serves
  /\ waiters' = Tail(waiters)
  /\ handler' = [handler EXCEPT ![c] = "running"]
  /\ UNCHANGED <<link, authed, inbox, id, counter, since>>

\* ... or fails at once: channel_failure.
RefuseSession(c) ==
  /\ MyTurn(c)
  /\ ~Serves \/ ExecFaults
  /\ waiters' = Tail(waiters)
  /\ Answer(c)
  /\ UNCHANGED <<link, authed, inbox, counter>>

\* Mutated: a client that is gone is waited for.
SessionExitsToClient(c) ==
  /\ handler[c] = "running"
  /\ link[c] = "up"
  /\ Answer(c)
  /\ UNCHANGED <<link, authed, inbox, waiters, counter>>

\* The session ends, the mutex is released and the request answered, be the
\* client there or not.
SessionExits(c) ==
  /\ handler[c] = "running"
  /\ Answer(c)
  /\ UNCHANGED <<link, authed, inbox, waiters, counter>>

-----------------------------------------------------------------------------
Client(c) == NewClient(c) \/ AuthPublickey(c) \/ Request(c) \/ Leave(c) \/ TimeOut(c)

Server(c) ==
  \/ ShellOrExec(c)
  \/ Lock(c)
  \/ OpenSession(c)
  \/ RefuseSession(c)
  \/ SessionExits(c)
  \/ HangUp(c)

Next == \E c \in Conns : Client(c) \/ Server(c)

\* tokio polls every task that is ready, a session ends some time, and nothing
\* is asked of clients.
Fairness == \A c \in Conns : WF_vars(Server(c))

Spec == Init /\ [][Next]_vars

FairSpec == Spec /\ Fairness

-----------------------------------------------------------------------------
(* Properties.                                                             *)

\* The fields of FlarenvSshServer (ssh_wire.rs:37): a principal belongs to one
\* connection, and only a connection that has one has requests.
TypeOK ==
  /\ link \in [Conns -> {"none", "up", "gone"}]
  /\ authed \in [Conns -> BOOLEAN]
  /\ inbox \in [Conns -> 0..MaxPipelined]
  /\ handler \in [Conns -> States]
  /\ id \in [Conns -> 0..LastId]
  /\ waiters \in Seq(Conns)
  /\ counter \in 0..LastId
  /\ since \in [Conns -> 0..(LastId + 1)]
  /\ \A c \in Conns : /\ inbox[c] > 0 => authed[c]
                      /\ authed[c] => link[c] # "none"

\* Sessions in progress have distinct ids however the clones of the server
\* interleave, for as long as a session is not outlived by 2^64 others: the
\* machine of a session is named after its id (executor.rs:61).
DistinctSessions ==
  \A c, d \in Conns :
    /\ Busy(c) /\ Busy(d)
    /\ since[c] <= LastId /\ since[d] <= LastId
    /\ id[c] = id[d]
    => c = d

\* The handlers, the queue and the mutex agree: whoever waits is queued once,
\* nobody else is, and at most one handler is inside the control plane, which
\* is why its operations may be taken as atomic (ssh_wire.rs:116-119).
MutexIsSound ==
  /\ \A c \in Conns : handler[c] = "queued" <=> \E i \in DOMAIN waiters : waiters[i] = c
  /\ \A i, j \in DOMAIN waiters : waiters[i] = waiters[j] => i = j
  /\ \A c, d \in Conns : handler[c] = "running" /\ handler[d] = "running" => c = d

\* Every request that was read is answered, however busy the other connections
\* keep the control plane, provided that sessions end.
EveryRequestIsAnswered == \A c \in Conns : Busy(c) ~> ~Busy(c)

\* A client that left is noticed some time, also when its request was waiting
\* for the mutex: its connection does not stay for ever.
GoneClientsAreForgotten == \A c \in Conns : link[c] = "gone" ~> link[c] = "none"
=============================================================================
