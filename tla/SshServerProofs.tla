--------------------------- MODULE SshServerProofs --------------------------
(***************************************************************************)
(* Theorems about the ssh server, for any number of connections, requests  *)
(* and sessions.                                                           *)
(***************************************************************************)
EXTENDS SshServer, TLAPS

(* A server that has just started is well-typed.                           *)
LEMMA InitType == Init => TypeOK
  BY SshAssumption DEF Init, TypeOK, States

(* Every step of a client, of russh or of a handler keeps the types.       *)
LEMMA NextType == TypeOK /\ [Next]_vars => TypeOK'
PROOF
  <1> SUFFICES ASSUME TypeOK, [Next]_vars PROVE TypeOK'
    OBVIOUS
  <1> USE SshAssumption DEF TypeOK, States
  <1>1. CASE UNCHANGED vars
    BY <1>1 DEF vars
  <1>2. ASSUME NEW c \in Conns, Client(c) PROVE TypeOK'
    <2>1. CASE NewClient(c)
      BY <2>1 DEF NewClient
    <2>2. CASE AuthPublickey(c)
      BY <2>2 DEF AuthPublickey
    <2>3. CASE Request(c)
      BY <2>3 DEF Request
    <2>4. CASE Leave(c)
      BY <2>4 DEF Leave
    <2>5. CASE TimeOut(c)
      BY <2>5 DEF TimeOut, Disconnect
    <2> QED
      BY <1>2, <2>1, <2>2, <2>3, <2>4, <2>5 DEF Client
  <1>3. ASSUME NEW c \in Conns, Server(c) PROVE TypeOK'
    <2>1. CASE ShellOrExec(c)
      <3>1. /\ inbox' = [inbox EXCEPT ![c] = inbox[c] - 1] /\ inbox[c] > 0
            /\ UNCHANGED <<link, authed, waiters>>
        BY <2>1 DEF ShellOrExec
      <3>2. /\ inbox' \in [Conns -> 0..MaxPipelined]
            /\ \A d \in Conns : inbox'[d] > 0 => inbox[d] > 0
        BY <3>1
      <3>3. /\ handler' \in [Conns -> States]
            /\ id' \in [Conns -> 0..LastId]
            /\ counter' \in 0..LastId
        BY <2>1 DEF ShellOrExec, NextSessionId
      <3>4. since' \in [Conns -> 0..(LastId + 1)]
        BY <2>1 DEF ShellOrExec, Busy
      <3> QED
        BY <3>1, <3>2, <3>3, <3>4
    <2>2. CASE Lock(c)
      BY <2>2 DEF Lock, Wait
    <2>3. CASE OpenSession(c)
      BY <2>3 DEF OpenSession, MyTurn
    <2>4. CASE RefuseSession(c)
      BY <2>4 DEF RefuseSession, Answer, MyTurn
    <2>5. CASE SessionExits(c)
      BY <2>5 DEF SessionExits, Answer
    <2>6. CASE HangUp(c)
      BY <2>6 DEF HangUp, Disconnect
    <2> QED
      BY <1>3, <2>1, <2>2, <2>3, <2>4, <2>5, <2>6 DEF Server
  <1> QED
    BY <1>1, <1>2, <1>3 DEF Next

(* The variables of the ssh server have their types (ssh_wire.rs:37).      *)
THEOREM SshTypeCorrect == Spec => []TypeOK
  BY InitType, NextType, PTL DEF Spec

-----------------------------------------------------------------------------

(* Nobody waits for, or holds, the mutex of a server that has just started. *)
LEMMA InitMutex == Init => MutexIsSound
  BY DEF Init, MutexIsSound

(* MutexIsSound is inductive: a handler joins the queue only when it is not *)
(* in it, and leaves it, from the head, only when nobody is inside.        *)
LEMMA NextMutex == TypeOK /\ MutexIsSound /\ [Next]_vars => MutexIsSound'
PROOF
  <1> SUFFICES ASSUME TypeOK, MutexIsSound, [Next]_vars PROVE MutexIsSound'
    OBVIOUS
  <1>1. ASSUME UNCHANGED <<handler, waiters>> PROVE MutexIsSound'
    BY <1>1 DEF MutexIsSound
  <1>2. CASE UNCHANGED vars
    BY <1>1, <1>2 DEF vars
  <1>3. ASSUME NEW c \in Conns, Client(c) PROVE MutexIsSound'
    BY <1>1, <1>3
       DEF Client, NewClient, AuthPublickey, Request, Leave, TimeOut, Disconnect
  <1>4. ASSUME NEW c \in Conns, HangUp(c) PROVE MutexIsSound'
    BY <1>1, <1>4 DEF HangUp, Disconnect
  <1>5. ASSUME NEW c \in Conns, ShellOrExec(c) PROVE MutexIsSound'
    BY <1>5 DEF ShellOrExec, MutexIsSound, TypeOK
  <1>6. ASSUME NEW c \in Conns, Lock(c) PROVE MutexIsSound'
    <2>1. /\ waiters \in Seq(Conns)
          /\ waiters' = Append(waiters, c)
          /\ handler' = [handler EXCEPT ![c] = "queued"]
          /\ handler[c] = "drawn"
      BY <1>6 DEF Lock, Wait, TypeOK
    <2>2. \A i \in DOMAIN waiters : waiters[i] # c
      BY <2>1 DEF MutexIsSound
    <2>3. /\ DOMAIN waiters = 1..Len(waiters) /\ Len(waiters) \in Nat
          /\ DOMAIN waiters' = 1..(Len(waiters) + 1)
          /\ waiters'[Len(waiters) + 1] = c
          /\ \A i \in DOMAIN waiters : i \in DOMAIN waiters' /\ waiters'[i] = waiters[i]
      BY <2>1
    <2>4. \A i \in DOMAIN waiters' : i \in DOMAIN waiters \/ i = Len(waiters) + 1
      BY <2>3
    <2>5. \A i, j \in DOMAIN waiters' : waiters'[i] = waiters'[j] => i = j
      BY <2>2, <2>3, <2>4 DEF MutexIsSound
    <2>6. \A d \in Conns : d # c => handler'[d] = handler[d]
      BY <2>1 DEF TypeOK
    <2>7. handler'[c] = "queued"
      BY <2>1 DEF TypeOK
    <2>8. \A d \in Conns : d # c =>
            ((\E i \in DOMAIN waiters' : waiters'[i] = d) <=> \E i \in DOMAIN waiters : waiters[i] = d)
      BY <2>3, <2>4
    <2>9. \E i \in DOMAIN waiters' : waiters'[i] = c
      BY <2>3
    <2>10. \A d \in Conns : handler'[d] = "queued" <=> \E i \in DOMAIN waiters' : waiters'[i] = d
      BY <2>6, <2>7, <2>8, <2>9 DEF MutexIsSound
    <2>11. \A d, e \in Conns : handler'[d] = "running" /\ handler'[e] = "running" => d = e
      BY <2>6, <2>7 DEF MutexIsSound
    <2> QED
      BY <2>5, <2>10, <2>11 DEF MutexIsSound
  <1>7. ASSUME NEW c \in Conns, MyTurn(c), waiters' = Tail(waiters),
               NEW next \in {"idle", "running"},
               handler' = [handler EXCEPT ![c] = next]
        PROVE  MutexIsSound'
    <2>1. waiters \in Seq(Conns) /\ waiters # <<>> /\ waiters' = Tail(waiters)
      BY <1>7 DEF MyTurn, TypeOK
    <2>2. /\ Len(waiters) \in Nat \ {0}
          /\ DOMAIN waiters = 1..Len(waiters)
          /\ DOMAIN waiters' = 1..(Len(waiters) - 1)
          /\ \A i \in 1..(Len(waiters) - 1) : waiters'[i] = waiters[i + 1]
      BY <2>1
    <2>3. \A i \in DOMAIN waiters : i # 1 => i - 1 \in 1..(Len(waiters) - 1) /\ (i - 1) + 1 = i
      BY <2>2
    <2>4. \A i \in DOMAIN waiters : i # 1 => waiters'[i - 1] = waiters[i]
      BY <2>2, <2>3
    <2>5. /\ waiters[1] = c
          /\ \A d \in Conns : handler[d] # "running"
          /\ \A i \in DOMAIN waiters' : i + 1 \in DOMAIN waiters /\ waiters'[i] = waiters[i + 1]
          /\ \A i \in DOMAIN waiters : i # 1 => i - 1 \in DOMAIN waiters'
                                                /\ waiters'[i - 1] = waiters[i]
      <3>1. waiters[1] = c
        BY <1>7, <2>1 DEF MyTurn
      <3>2. \A d \in Conns : handler[d] # "running"
        BY <1>7 DEF MyTurn, Unlocked
      <3>3. \A i \in DOMAIN waiters' : i + 1 \in DOMAIN waiters /\ waiters'[i] = waiters[i + 1]
        BY <2>2
      <3> QED
        BY <2>2, <2>3, <2>4, <3>1, <3>2, <3>3
    <2>6. 1 \in DOMAIN waiters /\ \A i \in DOMAIN waiters' : i \in Nat \ {0} /\ i + 1 # 1
      BY <2>2
    <2>7. \A i \in DOMAIN waiters' : waiters'[i] # c
      BY <2>5, <2>6 DEF MutexIsSound
    <2>8. \A d \in Conns : d # c =>
            ((\E i \in DOMAIN waiters' : waiters'[i] = d) <=> \E i \in DOMAIN waiters : waiters[i] = d)
      BY <2>5, <2>6
    <2>9. \A i, j \in DOMAIN waiters' : waiters'[i] = waiters'[j] => i = j
      BY <2>5, <2>6 DEF MutexIsSound
    <2>10. \A d \in Conns : handler'[d] = "queued" <=> \E i \in DOMAIN waiters' : waiters'[i] = d
      BY <1>7, <2>7, <2>8 DEF MutexIsSound, TypeOK
    <2>11. \A d, e \in Conns : handler'[d] = "running" /\ handler'[e] = "running" => d = e
      BY <1>7, <2>5 DEF TypeOK
    <2> QED
      BY <2>9, <2>10, <2>11 DEF MutexIsSound
  <1>8. ASSUME NEW c \in Conns, OpenSession(c) \/ RefuseSession(c) PROVE MutexIsSound'
    BY <1>7, <1>8 DEF OpenSession, RefuseSession, Answer
  <1>9. ASSUME NEW c \in Conns, SessionExits(c) PROVE MutexIsSound'
    BY <1>9 DEF SessionExits, Answer, MutexIsSound, TypeOK
  <1> QED
    BY <1>2, <1>3, <1>4, <1>5, <1>6, <1>8, <1>9 DEF Next, Server

(* At most one handler is ever inside the control plane, and the queue of  *)
(* its mutex holds exactly those who wait, once each (ssh_wire.rs:116).    *)
THEOREM OneInsideTheControlPlane == Spec => []MutexIsSound
PROOF
  <1>1. TypeOK /\ MutexIsSound /\ [Next]_vars => MutexIsSound'
    BY NextMutex
  <1> QED
    BY <1>1, InitMutex, SshTypeCorrect, PTL DEF Spec

-----------------------------------------------------------------------------

(* How far the counter is ahead of an id in use that it has not come round *)
(* to again: by the number of ids drawn since. Those numbers differ, as    *)
(* the ids were drawn one after the other.                                 *)
IdsBehindCounter ==
  /\ \A c \in Conns : Busy(c) /\ since[c] <= LastId =>
       \/ id[c] + since[c] + 1 = counter
       \/ id[c] + since[c] + 1 = counter + LastId + 1
  /\ \A c, d \in Conns :
       Busy(c) /\ Busy(d) /\ since[c] <= LastId /\ since[c] = since[d] => c = d

(* Two ids in use were drawn less than a whole round apart.                *)
LEMMA IdsDiffer == TypeOK /\ IdsBehindCounter => DistinctSessions
PROOF
  <1> SUFFICES ASSUME TypeOK, IdsBehindCounter,
                      NEW c \in Conns, NEW d \in Conns,
                      Busy(c), Busy(d), since[c] <= LastId, since[d] <= LastId,
                      id[c] = id[d]
               PROVE  c = d
    BY DEF DistinctSessions
  <1>1. /\ id[c] \in Nat /\ since[c] \in 0..LastId /\ since[d] \in 0..LastId
        /\ counter \in Nat /\ LastId \in Nat
    BY SshAssumption DEF TypeOK
  <1>2. \/ id[c] + since[c] + 1 = counter
        \/ id[c] + since[c] + 1 = counter + LastId + 1
    BY DEF IdsBehindCounter
  <1>3. \/ id[c] + since[d] + 1 = counter
        \/ id[c] + since[d] + 1 = counter + LastId + 1
    BY DEF IdsBehindCounter
  <1>4. since[c] = since[d]
    BY <1>1, <1>2, <1>3
  <1> QED
    BY <1>4 DEF IdsBehindCounter

(* Drawing an id moves the counter one further from all those in use.      *)
LEMMA NextIds ==
  ASSUME TypeOK, MutexIsSound, IdsBehindCounter, [Next]_vars
  PROVE  IdsBehindCounter'
PROOF
  <1> USE DEF IdsBehindCounter, Busy
  <1>1. ASSUME UNCHANGED <<id, counter, since>>,
               \A c \in Conns : handler'[c] # "idle" => handler[c] # "idle"
        PROVE  IdsBehindCounter'
    BY <1>1
  <1>2. CASE UNCHANGED vars
    BY <1>1, <1>2 DEF vars
  <1>3. ASSUME NEW c \in Conns, Client(c) \/ HangUp(c) PROVE IdsBehindCounter'
    BY <1>1, <1>3
       DEF Client, NewClient, AuthPublickey, Request, Leave, TimeOut, HangUp, Disconnect
  <1>4. ASSUME NEW c \in Conns, ShellOrExec(c) PROVE IdsBehindCounter'
    <2>1. /\ counter \in 0..LastId /\ LastId \in Nat
          /\ \/ counter = LastId /\ counter' = 0
             \/ counter # LastId /\ counter' = counter + 1
          /\ id' = [id EXCEPT ![c] = counter]
          /\ handler' = [handler EXCEPT ![c] = "drawn"]
          /\ handler[c] = "idle"
      BY <1>4, SshAssumption DEF ShellOrExec, NextSessionId, TypeOK
    <2>2. \A d \in Conns : d # c => id'[d] = id[d] /\ handler'[d] = handler[d]
      BY <2>1 DEF TypeOK
    <2>3. /\ id'[c] = counter
          /\ since'[c] = 0
      BY <1>4, <2>1 DEF ShellOrExec, TypeOK
    <2>4. \A d \in Conns : /\ id[d] \in 0..LastId /\ since[d] \in 0..(LastId + 1)
                           /\ d # c /\ handler[d] # "idle" =>
                                since'[d] = IF since[d] > LastId THEN since[d]
                                                                 ELSE since[d] + 1
      BY <1>4 DEF ShellOrExec, TypeOK
    <2>5. ASSUME NEW d \in Conns, handler'[d] # "idle", since'[d] <= LastId
          PROVE  \/ id'[d] + since'[d] + 1 = counter'
                 \/ id'[d] + since'[d] + 1 = counter' + LastId + 1
      <3>1. CASE d = c
        BY <2>1, <2>3, <3>1
      <3>2. CASE d # c
        <4>1. handler[d] # "idle" /\ id'[d] = id[d]
          BY <2>2, <2>5, <3>2
        <4>2. since[d] < LastId /\ since'[d] = since[d] + 1
          BY <2>1, <2>4, <2>5, <3>2, <4>1
        <4>3. \/ id[d] + since[d] + 1 = counter
              \/ id[d] + since[d] + 1 = counter + LastId + 1
          BY <2>1, <2>4, <4>1, <4>2
        <4> QED
          BY <2>1, <2>4, <4>1, <4>2, <4>3
      <3> QED
        BY <3>1, <3>2
    <2>6. ASSUME NEW d \in Conns, NEW e \in Conns, handler'[d] # "idle",
                 handler'[e] # "idle", since'[d] <= LastId, since'[d] = since'[e]
          PROVE  d = e
      <3>1. \A f \in Conns : f # c /\ handler'[f] # "idle" =>
              /\ handler[f] # "idle"
              /\ since'[f] # 0
              /\ since'[f] <= LastId => since[f] <= LastId /\ since'[f] = since[f] + 1
        BY <2>1, <2>2, <2>4
      <3>2. d = c <=> e = c
        BY <2>3, <2>6, <3>1
      <3>3. CASE d # c
        <4>1. since[d] = since[e] /\ since[d] <= LastId
          BY <2>4, <2>6, <3>1, <3>2, <3>3
        <4> QED
          BY <2>6, <3>1, <3>2, <3>3, <4>1
      <3> QED
        BY <3>2, <3>3
    <2> QED
      BY <2>5, <2>6
  <1>5. ASSUME NEW c \in Conns, Lock(c) \/ OpenSession(c) PROVE IdsBehindCounter'
    <2>1. handler[c] # "idle"
      <3>1. CASE Lock(c)
        BY <3>1 DEF Lock
      <3>2. CASE OpenSession(c)
        <4>1. waiters \in Seq(Conns) /\ waiters # <<>> /\ Head(waiters) = c
          BY <3>2 DEF OpenSession, MyTurn, TypeOK
        <4>2. 1 \in DOMAIN waiters /\ waiters[1] = c
          BY <4>1
        <4> QED
          BY <4>2 DEF MutexIsSound
      <3> QED
        BY <1>5, <3>1, <3>2
    <2> QED
      BY <1>1, <1>5, <2>1 DEF Lock, OpenSession, TypeOK
  <1>6. ASSUME NEW c \in Conns, RefuseSession(c) \/ SessionExits(c)
        PROVE  IdsBehindCounter'
    <2>1. /\ handler' = [handler EXCEPT ![c] = "idle"]
          /\ id' = [id EXCEPT ![c] = 0]
          /\ since' = [since EXCEPT ![c] = 0]
          /\ counter' = counter
      BY <1>6 DEF RefuseSession, SessionExits, Answer
    <2>2. \A d \in Conns : handler'[d] # "idle" =>
            d # c /\ handler[d] # "idle" /\ id'[d] = id[d] /\ since'[d] = since[d]
      BY <2>1 DEF TypeOK
    <2> QED
      BY <2>1, <2>2
  <1> QED
    BY <1>2, <1>3, <1>4, <1>5, <1>6 DEF Next, Server

(* Sessions in progress share an id only when 2^64 others were opened      *)
(* beside one of them (ssh_wire.rs:91), however many connections there are. *)
THEOREM SessionsStayDistinct == Spec => []DistinctSessions
PROOF
  <1>1. Init => IdsBehindCounter
    BY DEF Init, IdsBehindCounter, Busy
  <1>2. TypeOK /\ MutexIsSound /\ IdsBehindCounter /\ [Next]_vars => IdsBehindCounter'
    BY NextIds
  <1>3. TypeOK /\ IdsBehindCounter => DistinctSessions
    BY IdsDiffer
  <1> QED
    BY <1>1, <1>2, <1>3, SshTypeCorrect, OneInsideTheControlPlane, PTL DEF Spec
=============================================================================
