---------------------------- MODULE RuntimeProofs ---------------------------
(***************************************************************************)
(* Theorems about the session runtime, for any number of sessions, senders *)
(* and events.                                                             *)
(***************************************************************************)
EXTENDS Runtime, FiniteSetTheorems, TLAPS

(* A report is not another one, and names its session.                     *)
LEMMA EventFacts ==
  ASSUME NEW s, NEW t
  PROVE  /\ Started(s) = Started(t) <=> s = t
         /\ Exited(s) = Exited(t) <=> s = t
         /\ Started(s) # Exited(t)
         /\ Started(s) # TickEvent /\ Started(s) # Shutdown
         /\ Exited(s) # TickEvent /\ Exited(s) # Shutdown
  BY DEF Started, Exited, TickEvent, Shutdown

(* What sending adds to the channel.                                       *)
LEMMA SendFacts ==
  ASSUME channel \in Seq(Event), NEW event \in Event, Send(event)
  PROVE  /\ channel' \in Seq(Event)
         /\ DOMAIN channel = 1..Len(channel) /\ Len(channel) \in Nat
         /\ DOMAIN channel' = 1..(Len(channel) + 1)
         /\ channel'[Len(channel) + 1] = event
         /\ \A i \in DOMAIN channel : channel'[i] = channel[i]
         /\ Queued' = Queued \cup {event}
PROOF
  <1>1. channel' = Append(channel, event)
    BY DEF Send
  <1>2. /\ channel' \in Seq(Event)
        /\ DOMAIN channel = 1..Len(channel) /\ Len(channel) \in Nat
        /\ DOMAIN channel' = 1..(Len(channel) + 1)
        /\ channel'[Len(channel) + 1] = event
        /\ \A i \in DOMAIN channel : channel'[i] = channel[i]
    BY <1>1
  <1>3. \A i \in DOMAIN channel' : i \in DOMAIN channel \/ i = Len(channel) + 1
    BY <1>2
  <1>4. \A i \in DOMAIN channel : i \in DOMAIN channel'
    BY <1>2
  <1>5. Len(channel) + 1 \in DOMAIN channel'
    BY <1>2
  <1>6. Queued' = Queued \cup {event}
    <2>1. \A e : e \in Queued' <=> \E i \in DOMAIN channel' : channel'[i] = e
      BY DEF Queued, Range
    <2>2. \A e : e \in Queued <=> \E i \in DOMAIN channel : channel[i] = e
      BY DEF Queued, Range
    <2>3. \A e : e \in Queued' <=> e \in Queued \/ e = event
      BY <1>2, <1>3, <1>4, <1>5, <2>1, <2>2
    <2> QED
      BY <2>3
  <1> QED
    BY <1>2, <1>6

(* What receiving takes from it.                                           *)
LEMMA TailFacts ==
  ASSUME channel \in Seq(Event), channel # <<>>, channel' = Tail(channel)
  PROVE  /\ channel' \in Seq(Event)
         /\ Head(channel) = channel[1] /\ Head(channel) \in Event
         /\ 1 \in DOMAIN channel
         /\ \A i \in DOMAIN channel : i \in Nat \ {0}
         /\ \A i \in DOMAIN channel' : i + 1 \in DOMAIN channel /\ channel'[i] = channel[i + 1]
         /\ \A i \in DOMAIN channel : i # 1 => i - 1 \in DOMAIN channel' /\ channel'[i - 1] = channel[i]
         /\ \A e : e \in Queued <=> e = Head(channel) \/ e \in Queued'
PROOF
  <1>1. /\ Len(channel) \in Nat \ {0}
        /\ DOMAIN channel = 1..Len(channel)
        /\ channel' \in Seq(Event)
        /\ DOMAIN channel' = 1..(Len(channel) - 1)
        /\ \A i \in 1..(Len(channel) - 1) : channel'[i] = channel[i + 1]
    OBVIOUS
  <1>2. Head(channel) = channel[1] /\ 1 \in DOMAIN channel
    BY <1>1
  <1>3. Head(channel) \in Event
    BY <1>2
  <1>4. \A i \in DOMAIN channel' : i + 1 \in DOMAIN channel /\ channel'[i] = channel[i + 1]
    BY <1>1
  <1>5. \A i \in DOMAIN channel : i # 1 => i - 1 \in 1..(Len(channel) - 1) /\ (i - 1) + 1 = i
    BY <1>1
  <1>6. \A i \in DOMAIN channel : i # 1 => i - 1 \in DOMAIN channel' /\ channel'[i - 1] = channel[i]
    BY <1>1, <1>5
  <1>7. \A e : e \in Queued <=> e = Head(channel) \/ e \in Queued'
    <2>1. \A e : e \in Queued' <=> \E i \in DOMAIN channel' : channel'[i] = e
      BY DEF Queued, Range
    <2>2. \A e : e \in Queued <=> \E i \in DOMAIN channel : channel[i] = e
      BY DEF Queued, Range
    <2> TAKE e
    <2>3. ASSUME e \in Queued PROVE e = Head(channel) \/ e \in Queued'
      <3>1. PICK i \in DOMAIN channel : channel[i] = e
        BY <2>2, <2>3
      <3>2. CASE i = 1
        BY <1>2, <3>1, <3>2
      <3>3. CASE i # 1
        BY <1>6, <2>1, <3>1, <3>3
      <3> QED
        BY <3>2, <3>3
    <2>4. ASSUME e = Head(channel) PROVE e \in Queued
      BY <1>2, <2>2, <2>4
    <2>5. ASSUME e \in Queued' PROVE e \in Queued
      <3>1. PICK i \in DOMAIN channel' : channel'[i] = e
        BY <2>1, <2>5
      <3> QED
        BY <1>4, <2>2, <3>1
    <2> QED
      BY <2>3, <2>4, <2>5
  <1>8. \A i \in DOMAIN channel : i \in Nat \ {0}
    BY <1>1
  <1> QED
    BY <1>1, <1>2, <1>3, <1>4, <1>6, <1>7, <1>8

-----------------------------------------------------------------------------

(* Only what the loop does to the statistics matters to their types.       *)
LEMMA ApplyType ==
  ASSUME TypeOK, NEW event \in Event, Apply(event),
         event.kind = "SessionStarted" => event.session \in started
  PROVE  active' \subseteq started /\ exited' \in Nat /\ ticks' \in 0..LastTick /\ loop' \in {"in", "out"}
  BY RuntimeAssumption DEF Apply, TypeOK, Start, Exit, CountTick, Stop, stats

(* The reports in the channel are about sessions, and were sent: no more   *)
(* than once each.                                                         *)
Reports ==
  /\ \A i \in DOMAIN channel :
       /\ channel[i].kind = "SessionStarted" =>
            channel[i].session \in started /\ channel[i] = Started(channel[i].session)
       /\ channel[i].kind = "SessionExited" =>
            channel[i].session \in ended /\ channel[i] = Exited(channel[i].session)
  /\ \A s \in Sessions, i, j \in DOMAIN channel :
       /\ channel[i] = Started(s) /\ channel[j] = Started(s) => i = j
       /\ channel[i] = Exited(s) /\ channel[j] = Exited(s) => i = j

(* The reports of a session are in the channel in the order they were sent. *)
InOrder ==
  \A s \in Sessions, i \in DOMAIN channel :
    /\ channel[i] = Started(s) /\ s \in ended /\ s \notin overtaken =>
         \E j \in DOMAIN channel : j > i /\ channel[j] = Exited(s)
    /\ channel[i] = Exited(s) /\ s \in overtaken =>
         \E j \in DOMAIN channel : j > i /\ channel[j] = Started(s)

Inv == TypeOK /\ Reports /\ InOrder /\ OnlyOvertakenStay

(* Nothing was sent to a runtime that was just made.                       *)
LEMMA InitInv == Init => Inv
  BY RuntimeAssumption DEF Init, Inv, TypeOK, Reports, InOrder, OnlyOvertakenStay, StartReceived

(* An event of the channel is an event.                                    *)
LEMMA EventTypes ==
  ASSUME NEW s \in Sessions
  PROVE  Started(s) \in Event /\ Exited(s) \in Event
  BY DEF Event, Started, Exited

(* ... and so are those about no session.                                  *)
LEMMA OtherEventTypes == TickEvent \in Event /\ Shutdown \in Event
  BY DEF Event, TickEvent, Shutdown

(* Announcing a session keeps the invariant.                               *)
LEMMA SendStartedInv ==
  ASSUME Inv, NEW s \in Sessions, SendStarted(s)
  PROVE  Inv'
PROOF
  <1> DEFINE event == Started(s)
             n == Len(channel) + 1
  <1>1. channel \in Seq(Event) /\ event \in Event /\ Send(event)
    BY EventTypes DEF Inv, TypeOK, SendStarted
  <1>2. /\ channel' \in Seq(Event)
        /\ DOMAIN channel = 1..Len(channel) /\ Len(channel) \in Nat
        /\ DOMAIN channel' = 1..n
        /\ channel'[n] = event
        /\ \A i \in DOMAIN channel : channel'[i] = channel[i]
        /\ Queued' = Queued \cup {event}
    BY <1>1, SendFacts
  <1>3. /\ started' = started \cup {s} /\ ended' = ended
        /\ UNCHANGED <<senders, stats, loop>>
        /\ s \notin started
        /\ overtaken' = IF s \in ended THEN overtaken \cup {s} ELSE overtaken
    BY DEF SendStarted, Send
  <1>4. TypeOK'
    BY <1>2, <1>3 DEF Inv, TypeOK, stats
  <1>5. /\ \A i \in DOMAIN channel' : i \in DOMAIN channel \/ i = n
        /\ \A i \in DOMAIN channel : i \in DOMAIN channel' /\ n > i
        /\ n \in DOMAIN channel'
    BY <1>2
  <1>6. \A i \in DOMAIN channel : channel[i] # event
    BY <1>3 DEF Inv, Reports, Started
  <1>7. \A t \in Sessions : Exited(t) # event /\ (Started(t) = event <=> t = s)
    BY EventFacts
  <1>8. Reports'
    <2>1. event.kind = "SessionStarted" /\ event.session = s /\ event = Started(event.session)
      BY DEF Started
    <2>2. \A i \in DOMAIN channel' :
            /\ channel'[i].kind = "SessionStarted" =>
                 channel'[i].session \in started' /\ channel'[i] = Started(channel'[i].session)
            /\ channel'[i].kind = "SessionExited" =>
                 channel'[i].session \in ended' /\ channel'[i] = Exited(channel'[i].session)
      BY <1>2, <1>3, <1>5, <2>1 DEF Inv, Reports
    <2>3. \A t \in Sessions, i, j \in DOMAIN channel' :
            /\ channel'[i] = Started(t) /\ channel'[j] = Started(t) => i = j
            /\ channel'[i] = Exited(t) /\ channel'[j] = Exited(t) => i = j
      BY <1>2, <1>5, <1>6, <1>7 DEF Inv, Reports
    <2> QED
      BY <2>2, <2>3 DEF Reports
  <1>9. InOrder'
    <2>1. ASSUME NEW t \in Sessions, NEW i \in DOMAIN channel',
                 channel'[i] = Started(t), t \in ended', t \notin overtaken'
          PROVE  \E j \in DOMAIN channel' : j > i /\ channel'[j] = Exited(t)
      <3>1. t # s
        BY <1>3, <2>1
      <3>2. i \in DOMAIN channel /\ channel[i] = Started(t) /\ t \in ended /\ t \notin overtaken
        BY <1>2, <1>3, <1>5, <1>7, <2>1, <3>1
      <3> QED
        BY <1>2, <1>5, <3>2 DEF Inv, InOrder
    <2>2. ASSUME NEW t \in Sessions, NEW i \in DOMAIN channel',
                 channel'[i] = Exited(t), t \in overtaken'
          PROVE  \E j \in DOMAIN channel' : j > i /\ channel'[j] = Started(t)
      <3>1. i \in DOMAIN channel /\ channel[i] = Exited(t)
        BY <1>2, <1>5, <1>7, <2>2
      <3>2. CASE t = s
        BY <1>2, <1>5, <3>1, <3>2
      <3>3. CASE t # s
        <4>1. t \in overtaken
          BY <1>3, <2>2, <3>3
        <4> QED
          BY <1>2, <1>5, <3>1, <4>1 DEF Inv, InOrder
      <3> QED
        BY <3>2, <3>3
    <2> QED
      BY <2>1, <2>2 DEF InOrder
  <1>10. OnlyOvertakenStay'
    <2>1. \A t \in Sessions : StartReceived(t)' <=> StartReceived(t)
      BY <1>2, <1>3, <1>7 DEF StartReceived
    <2>2. \A t \in Sessions : ExitReceived(t)' <=> ExitReceived(t)
      BY <1>2, <1>3, <1>7 DEF ExitReceived
    <2>3. ~StartReceived(s)
      BY <1>3 DEF StartReceived
    <2>4. \A t \in Sessions : t # s => (t \in overtaken' <=> t \in overtaken)
      BY <1>3
    <2>5. active' = active
      BY <1>3 DEF stats
    <2> QED
      BY <2>1, <2>2, <2>3, <2>4, <2>5 DEF Inv, OnlyOvertakenStay
  <1> QED
    BY <1>4, <1>8, <1>9, <1>10 DEF Inv

(* Reporting its exit keeps the invariant.                                 *)
LEMMA SendExitedInv ==
  ASSUME Inv, NEW s \in Sessions, SendExited(s)
  PROVE  Inv'
PROOF
  <1> DEFINE event == Exited(s)
             n == Len(channel) + 1
  <1>1. channel \in Seq(Event) /\ event \in Event /\ Send(event)
    BY EventTypes DEF Inv, TypeOK, SendExited
  <1>2. /\ channel' \in Seq(Event)
        /\ DOMAIN channel = 1..Len(channel) /\ Len(channel) \in Nat
        /\ DOMAIN channel' = 1..n
        /\ channel'[n] = event
        /\ \A i \in DOMAIN channel : channel'[i] = channel[i]
        /\ Queued' = Queued \cup {event}
    BY <1>1, SendFacts
  <1>3. /\ started' = started /\ ended' = ended \cup {s} /\ overtaken' = overtaken
        /\ UNCHANGED <<senders, stats, loop>>
        /\ s \notin ended /\ s \notin overtaken
    BY DEF SendExited, Send, Inv, TypeOK
  <1>4. TypeOK'
    BY <1>2, <1>3 DEF Inv, TypeOK, stats
  <1>5. /\ \A i \in DOMAIN channel' : i \in DOMAIN channel \/ i = n
        /\ \A i \in DOMAIN channel : i \in DOMAIN channel' /\ n > i
        /\ n \in DOMAIN channel'
    BY <1>2
  <1>6. \A i \in DOMAIN channel : channel[i] # event
    BY <1>3 DEF Inv, Reports, Exited
  <1>7. \A t \in Sessions : Started(t) # event /\ (Exited(t) = event <=> t = s)
    BY EventFacts
  <1>8. Reports'
    <2>1. event.kind = "SessionExited" /\ event.session = s /\ event = Exited(event.session)
      BY DEF Exited
    <2>2. \A i \in DOMAIN channel' :
            /\ channel'[i].kind = "SessionStarted" =>
                 channel'[i].session \in started' /\ channel'[i] = Started(channel'[i].session)
            /\ channel'[i].kind = "SessionExited" =>
                 channel'[i].session \in ended' /\ channel'[i] = Exited(channel'[i].session)
      BY <1>2, <1>3, <1>5, <2>1 DEF Inv, Reports
    <2>3. \A t \in Sessions, i, j \in DOMAIN channel' :
            /\ channel'[i] = Started(t) /\ channel'[j] = Started(t) => i = j
            /\ channel'[i] = Exited(t) /\ channel'[j] = Exited(t) => i = j
      BY <1>2, <1>5, <1>6, <1>7 DEF Inv, Reports
    <2> QED
      BY <2>2, <2>3 DEF Reports
  <1>9. InOrder'
    <2>1. ASSUME NEW t \in Sessions, NEW i \in DOMAIN channel',
                 channel'[i] = Started(t), t \in ended', t \notin overtaken'
          PROVE  \E j \in DOMAIN channel' : j > i /\ channel'[j] = Exited(t)
      <3>1. i \in DOMAIN channel /\ channel[i] = Started(t)
        BY <1>2, <1>5, <1>7, <2>1
      <3>2. CASE t = s
        BY <1>2, <1>5, <3>1, <3>2
      <3>3. CASE t # s
        <4>1. t \in ended /\ t \notin overtaken
          BY <1>3, <2>1, <3>3
        <4> QED
          BY <1>2, <1>5, <3>1, <4>1 DEF Inv, InOrder
      <3> QED
        BY <3>2, <3>3
    <2>2. ASSUME NEW t \in Sessions, NEW i \in DOMAIN channel',
                 channel'[i] = Exited(t), t \in overtaken'
          PROVE  \E j \in DOMAIN channel' : j > i /\ channel'[j] = Started(t)
      <3>1. t # s /\ t \in overtaken
        BY <1>3, <2>2
      <3>2. i \in DOMAIN channel /\ channel[i] = Exited(t)
        BY <1>2, <1>5, <1>7, <2>2, <3>1
      <3> QED
        BY <1>2, <1>5, <3>1, <3>2 DEF Inv, InOrder
    <2> QED
      BY <2>1, <2>2 DEF InOrder
  <1>10. OnlyOvertakenStay'
    <2>1. \A t \in Sessions : StartReceived(t)' <=> StartReceived(t)
      BY <1>2, <1>3, <1>7 DEF StartReceived
    <2>2. \A t \in Sessions : ExitReceived(t)' <=> ExitReceived(t)
      BY <1>2, <1>3, <1>7 DEF ExitReceived
    <2>3. active' = active
      BY <1>3 DEF stats
    <2> QED
      BY <1>3, <2>1, <2>2, <2>3 DEF Inv, OnlyOvertakenStay
  <1> QED
    BY <1>4, <1>8, <1>9, <1>10 DEF Inv

(* Sending an event that is no report keeps it.                            *)
LEMMA SendOtherInv ==
  ASSUME Inv, SendTick \/ SendShutdown
  PROVE  Inv'
PROOF
  <1>1. PICK event \in {TickEvent, Shutdown} : Send(event)
    BY DEF SendTick, SendShutdown
  <1>2. /\ channel \in Seq(Event) /\ event \in Event
        /\ UNCHANGED <<senders, stats, loop, history>>
    BY <1>1, OtherEventTypes DEF Inv, TypeOK, Send, SendTick, SendShutdown
  <1> DEFINE n == Len(channel) + 1
  <1>3. /\ channel' \in Seq(Event)
        /\ DOMAIN channel = 1..Len(channel) /\ Len(channel) \in Nat
        /\ DOMAIN channel' = 1..n
        /\ channel'[n] = event
        /\ \A i \in DOMAIN channel : channel'[i] = channel[i]
        /\ Queued' = Queued \cup {event}
    BY <1>1, <1>2, SendFacts
  <1>4. /\ \A i \in DOMAIN channel' : i \in DOMAIN channel \/ i = n
        /\ \A i \in DOMAIN channel : i \in DOMAIN channel'
    BY <1>3
  <1>5. \A t : Started(t) # event /\ Exited(t) # event
    BY <1>1, EventFacts
  <1>6. event.kind # "SessionStarted" /\ event.kind # "SessionExited"
    BY <1>1 DEF TickEvent, Shutdown
  <1>7. TypeOK'
    BY <1>2, <1>3 DEF Inv, TypeOK, stats, history
  <1>8. Reports'
    BY <1>2, <1>3, <1>4, <1>5, <1>6 DEF Inv, Reports, history
  <1>9. InOrder'
    BY <1>2, <1>3, <1>4, <1>5 DEF Inv, InOrder, history
  <1>10. OnlyOvertakenStay'
    BY <1>2, <1>3, <1>5
       DEF Inv, OnlyOvertakenStay, StartReceived, ExitReceived, stats, history
  <1> QED
    BY <1>7, <1>8, <1>9, <1>10 DEF Inv

(* What the loop does to the statistics when it receives an event.         *)
LEMMA ApplyFacts ==
  ASSUME NEW event, Apply(event), NEW s
  PROVE  /\ event = Started(s) => active' = active \cup {s} /\ exited' = exited
         /\ event = Exited(s) => active' = active \ {s} /\ exited' = exited + 1
         /\ event.kind \notin {"SessionStarted", "SessionExited"} =>
              active' = active /\ exited' = exited
  BY DEF Apply, Started, Exited, Start, Exit, CountTick, Stop, stats

(* Receiving an event is what makes a report received, for the first time. *)
LEMMA ReceivedFacts ==
  ASSUME Inv, Receive, NEW s \in Sessions
  PROVE  /\ StartReceived(s)' <=> StartReceived(s) \/ Head(channel) = Started(s)
         /\ ExitReceived(s)' <=> ExitReceived(s) \/ Head(channel) = Exited(s)
         /\ Head(channel) = Exited(s) => ~ExitReceived(s)
PROOF
  <1> DEFINE event == Head(channel)
  <1>1. /\ channel \in Seq(Event) /\ channel # <<>> /\ channel' = Tail(channel)
        /\ UNCHANGED <<started, ended>>
    BY DEF Receive, Inv, TypeOK, history
  <1>2. /\ event = channel[1] /\ 1 \in DOMAIN channel
        /\ channel' \in Seq(Event)
        /\ \A i \in DOMAIN channel' : i + 1 \in DOMAIN channel /\ channel'[i] = channel[i + 1]
        /\ \A e : e \in Queued <=> e = event \/ e \in Queued'
    BY <1>1, TailFacts
  <1>3. \A i \in DOMAIN channel' : i + 1 # 1
    <2> TAKE i \in DOMAIN channel'
    <2>1. DOMAIN channel' = 1..Len(channel')
      BY <1>2
    <2> QED
      BY <2>1
  <1>4. event = Started(s) \/ event = Exited(s) => event \notin Queued'
    <2>1. \A e : e \in Queued' <=> \E i \in DOMAIN channel' : channel'[i] = e
      BY DEF Queued, Range
    <2> QED
      BY <1>2, <1>3, <2>1 DEF Inv, Reports
  <1>5. event = Started(s) => s \in started
    BY <1>2 DEF Inv, Reports, Started
  <1>6. event = Exited(s) => s \in ended
    BY <1>2 DEF Inv, Reports, Exited
  <1> QED
    BY <1>1, <1>2, <1>4, <1>5, <1>6 DEF StartReceived, ExitReceived

(* Receiving keeps the invariant: the order of the reports decides whether *)
(* a start finds the exit of its session behind it.                        *)
LEMMA ReceiveInv ==
  ASSUME Inv, Receive
  PROVE  Inv'
PROOF
  <1> DEFINE event == Head(channel)
  <1>1. /\ channel \in Seq(Event) /\ channel # <<>> /\ channel' = Tail(channel)
        /\ Apply(event)
        /\ UNCHANGED <<senders, started, ended, overtaken>>
    BY DEF Receive, Inv, TypeOK, history
  <1>2. /\ channel' \in Seq(Event)
        /\ event = channel[1] /\ event \in Event
        /\ 1 \in DOMAIN channel
        /\ \A i \in DOMAIN channel : i \in Nat \ {0}
        /\ \A i \in DOMAIN channel' : i + 1 \in DOMAIN channel /\ channel'[i] = channel[i + 1]
        /\ \A i \in DOMAIN channel : i # 1 => i - 1 \in DOMAIN channel' /\ channel'[i - 1] = channel[i]
        /\ \A e : e \in Queued <=> e = event \/ e \in Queued'
    BY <1>1, TailFacts
  <1>3. \A i \in DOMAIN channel' : i \in Nat \ {0} /\ i + 1 # 1
    <2> TAKE i \in DOMAIN channel'
    <2>1. DOMAIN channel' = 1..Len(channel')
      BY <1>2
    <2> QED
      BY <2>1
  <1>4. \A i, j \in DOMAIN channel' :
          i + 1 = j + 1 => i = j
    BY <1>3
  <1>5. Reports'
    <2>1. \A i \in DOMAIN channel' :
            /\ channel'[i].kind = "SessionStarted" =>
                 channel'[i].session \in started' /\ channel'[i] = Started(channel'[i].session)
            /\ channel'[i].kind = "SessionExited" =>
                 channel'[i].session \in ended' /\ channel'[i] = Exited(channel'[i].session)
      BY <1>1, <1>2 DEF Inv, Reports
    <2>2. \A s \in Sessions, i, j \in DOMAIN channel' :
            /\ channel'[i] = Started(s) /\ channel'[j] = Started(s) => i = j
            /\ channel'[i] = Exited(s) /\ channel'[j] = Exited(s) => i = j
      BY <1>2, <1>4 DEF Inv, Reports
    <2> QED
      BY <2>1, <2>2 DEF Reports
  <1>6. InOrder'
    <2>1. \A i \in DOMAIN channel', j \in DOMAIN channel : j > i + 1 =>
            j # 1 /\ j - 1 \in DOMAIN channel' /\ j - 1 > i /\ channel'[j - 1] = channel[j]
      <3> TAKE i \in DOMAIN channel', j \in DOMAIN channel
      <3> HAVE j > i + 1
      <3>1. j # 1 /\ j - 1 > i
        BY <1>2, <1>3
      <3> QED
        BY <1>2, <3>1
    <2>2. ASSUME NEW s \in Sessions, NEW i \in DOMAIN channel',
                 channel'[i] = Started(s), s \in ended', s \notin overtaken'
          PROVE  \E j \in DOMAIN channel' : j > i /\ channel'[j] = Exited(s)
      <3>1. PICK j \in DOMAIN channel : j > i + 1 /\ channel[j] = Exited(s)
        BY <1>1, <1>2, <2>2 DEF Inv, InOrder
      <3> QED
        BY <2>1, <3>1
    <2>3. ASSUME NEW s \in Sessions, NEW i \in DOMAIN channel',
                 channel'[i] = Exited(s), s \in overtaken'
          PROVE  \E j \in DOMAIN channel' : j > i /\ channel'[j] = Started(s)
      <3>1. PICK j \in DOMAIN channel : j > i + 1 /\ channel[j] = Started(s)
        BY <1>1, <1>2, <2>3 DEF Inv, InOrder
      <3> QED
        BY <2>1, <3>1
    <2> QED
      BY <2>2, <2>3 DEF InOrder
  <1>7. \A j \in DOMAIN channel : j > 1 => channel[j] \in Queued'
    <2>1. \A e : e \in Queued' <=> \E i \in DOMAIN channel' : channel'[i] = e
      BY DEF Queued, Range
    <2>2. \A j \in DOMAIN channel : j > 1 => j # 1
      BY <1>2
    <2> QED
      BY <1>2, <2>1, <2>2
  <1>8. \A s \in Sessions :
          /\ StartReceived(s)' <=> StartReceived(s) \/ event = Started(s)
          /\ ExitReceived(s)' <=> ExitReceived(s) \/ event = Exited(s)
    BY ReceivedFacts
  <1>9. OnlyOvertakenStay'
    <2> SUFFICES ASSUME NEW s \in Sessions
                 PROVE  s \in active' <=>
                          StartReceived(s)' /\ (ExitReceived(s)' => s \in overtaken)
      BY <1>1 DEF OnlyOvertakenStay
    <2>1. s \in active <=> StartReceived(s) /\ (ExitReceived(s) => s \in overtaken)
      BY DEF Inv, OnlyOvertakenStay
    <2>2. CASE event = Started(s)
      <3>1. s \in active'
        BY <1>1, <2>2, ApplyFacts
      <3>2. event # Exited(s)
        BY <2>2, EventFacts
      <3>3. ASSUME ExitReceived(s), s \notin overtaken PROVE FALSE
        <4>1. PICK j \in DOMAIN channel : j > 1 /\ channel[j] = Exited(s)
          BY <1>2, <2>2, <3>3 DEF Inv, InOrder, ExitReceived
        <4> QED
          BY <1>2, <1>7, <3>3, <4>1 DEF ExitReceived
      <3> QED
        BY <1>8, <2>2, <3>1, <3>2, <3>3
    <2>3. CASE event = Exited(s)
      <3>1. s \notin active'
        BY <1>1, <2>3, ApplyFacts
      <3>2. event # Started(s)
        BY <2>3, EventFacts
      <3>3. ASSUME StartReceived(s), s \in overtaken PROVE FALSE
        <4>1. PICK j \in DOMAIN channel : j > 1 /\ channel[j] = Started(s)
          BY <1>2, <2>3, <3>3 DEF Inv, InOrder
        <4> QED
          BY <1>2, <1>7, <3>3, <4>1 DEF StartReceived
      <3> QED
        BY <1>8, <2>3, <3>1, <3>2, <3>3
    <2>4. CASE event # Started(s) /\ event # Exited(s)
      <3>1. s \in active' <=> s \in active
        <4>1. CASE event.kind \notin {"SessionStarted", "SessionExited"}
          BY <1>1, <4>1, ApplyFacts
        <4>2. CASE event.kind \in {"SessionStarted", "SessionExited"}
          <5>1. event = Started(event.session) \/ event = Exited(event.session)
            BY <1>2, <4>2 DEF Inv, Reports
          <5>2. event.session # s
            BY <2>4, <5>1
          <5>3. active' \in {active \cup {event.session}, active \ {event.session}}
            BY <1>1, <5>1, ApplyFacts
          <5> QED
            BY <5>2, <5>3
        <4> QED
          BY <4>1, <4>2
      <3> QED
        BY <1>8, <2>1, <2>4, <3>1
    <2> QED
      BY <2>2, <2>3, <2>4
  <1>10. TypeOK'
    <2>1. event.kind = "SessionStarted" => event.session \in started
      BY <1>2 DEF Inv, Reports
    <2>2. active' \subseteq started /\ exited' \in Nat /\ ticks' \in 0..LastTick /\ loop' \in {"in", "out"}
      BY <1>1, <1>2, <2>1, ApplyType DEF Inv
    <2> QED
      BY <1>1, <1>2, <2>2 DEF Inv, TypeOK
  <1> QED
    BY <1>5, <1>6, <1>9, <1>10 DEF Inv

(* Every step keeps the invariant.                                         *)
LEMMA NextInv == Inv /\ [Next]_vars => Inv'
PROOF
  <1> SUFFICES ASSUME Inv, [Next]_vars PROVE Inv'
    OBVIOUS
  <1>1. ASSUME UNCHANGED <<channel, active, exited, started, ended, overtaken>>,
               senders' \in 0..MaxSenders, ticks' \in 0..LastTick, loop' \in {"in", "out"}
        PROVE  Inv'
    <2>1. TypeOK'
      BY <1>1 DEF Inv, TypeOK
    <2>2. Reports' /\ InOrder'
      BY <1>1 DEF Inv, Reports, InOrder
    <2>3. OnlyOvertakenStay'
      BY <1>1 DEF Inv, OnlyOvertakenStay, StartReceived, ExitReceived, Queued
    <2> QED
      BY <2>1, <2>2, <2>3 DEF Inv
  <1>2. senders \in 0..MaxSenders /\ ticks \in 0..LastTick /\ loop \in {"in", "out"}
    BY DEF Inv, TypeOK
  <1>3. CASE UNCHANGED vars
    BY <1>1, <1>2, <1>3 DEF vars, stats, history
  <1>4. ASSUME NEW s \in Sessions, SendStarted(s) \/ SendExited(s) PROVE Inv'
    BY <1>4, SendStartedInv, SendExitedInv
  <1>5. CASE SendTick \/ SendShutdown
    BY <1>5, SendOtherInv
  <1>6. CASE CloneSender
    BY <1>1, <1>2, <1>6, RuntimeAssumption DEF CloneSender, stats, history
  <1>7. CASE DropSender
    BY <1>1, <1>2, <1>7, RuntimeAssumption DEF DropSender, stats, history
  <1>8. CASE RunBlocking
    BY <1>1, <1>2, <1>8 DEF RunBlocking, stats, history
  <1>9. CASE Receive
    BY <1>9, ReceiveInv
  <1>10. CASE Timeout
    <2>1. UNCHANGED <<channel, senders, history>> /\ Apply(TickEvent)
      BY <1>10 DEF Timeout
    <2>2. UNCHANGED <<active, exited, loop>> /\ CountTick
      BY <2>1 DEF Apply, TickEvent
    <2> QED
      BY <1>1, <1>2, <2>1, <2>2, RuntimeAssumption DEF CountTick, history
  <1>11. CASE Disconnected
    BY <1>1, <1>2, <1>11 DEF Disconnected, Stop, stats, history
  <1> QED
    BY <1>3, <1>4, <1>5, <1>6, <1>7, <1>8, <1>9, <1>10, <1>11 DEF Next, Loop

(* The statistics and the channel keep their types (runtime.rs:29).        *)
THEOREM RuntimeTypeCorrect == Spec => []TypeOK
PROOF
  <1>1. Inv => TypeOK
    BY DEF Inv
  <1> QED
    BY <1>1, InitInv, NextInv, PTL DEF Spec

(* Sessions are active from their start to their exit; those that stay     *)
(* active for ever are those whose exit was sent first (runtime.rs:58).    *)
THEOREM ActiveSessionsAreRight == Spec => []OnlyOvertakenStay
PROOF
  <1>1. Inv => OnlyOvertakenStay
    BY DEF Inv
  <1> QED
    BY <1>1, InitInv, NextInv, PTL DEF Spec

-----------------------------------------------------------------------------

Counted == {s \in Sessions : ExitReceived(s)}

(* Counting goes on as long as finitely many exits were sent.              *)
CountInv == IsFiniteSet(ended) /\ ExitsAreCountedOnce

(* An exit that is received is one more that was, and one more counted.    *)
LEMMA NextCount == Inv /\ CountInv /\ [Next]_vars => CountInv'
PROOF
  <1> SUFFICES ASSUME Inv, CountInv, [Next]_vars PROVE CountInv'
    OBVIOUS
  <1> USE DEF CountInv
  <1>1. exited = Cardinality(Counted) /\ exited \in Nat
    BY DEF ExitsAreCountedOnce, Counted, Inv, TypeOK
  <1>2. ASSUME IsFiniteSet(ended'), exited' = exited,
               \A s \in Sessions : ExitReceived(s)' <=> ExitReceived(s)
        PROVE  CountInv'
    <2>1. {s \in Sessions : ExitReceived(s)'} = {s \in Sessions : ExitReceived(s)}
      BY <1>2
    <2> QED
      BY <1>2, <2>1 DEF ExitsAreCountedOnce
  <1>3. ASSUME UNCHANGED <<channel, exited, ended>> PROVE CountInv'
    BY <1>2, <1>3 DEF ExitReceived, Queued
  <1>4. ASSUME NEW event \in Event, Send(event), exited' = exited,
               ended' = ended, \A s \in Sessions : event # Exited(s)
        PROVE  CountInv'
    <2>1. Queued' = Queued \cup {event}
      BY <1>4, SendFacts DEF Inv, TypeOK
    <2>2. \A s \in Sessions : ExitReceived(s)' <=> ExitReceived(s)
      BY <1>4, <2>1 DEF ExitReceived
    <2> QED
      BY <1>2, <1>4, <2>2
  <1>5. ASSUME NEW s \in Sessions, SendStarted(s) PROVE CountInv'
    <2>1. Send(Started(s)) /\ exited' = exited /\ ended' = ended
      BY <1>5 DEF SendStarted, Send, stats
    <2>2. Started(s) \in Event /\ \A t \in Sessions : Started(s) # Exited(t)
      BY EventTypes, EventFacts
    <2> QED
      BY <1>4, <2>1, <2>2
  <1>6. ASSUME NEW s \in Sessions, SendExited(s) PROVE CountInv'
    <2>1. Send(Exited(s)) /\ exited' = exited /\ ended' = ended \cup {s} /\ s \notin ended
      BY <1>6 DEF SendExited, Send, stats
    <2>2. Queued' = Queued \cup {Exited(s)}
      BY <2>1, SendFacts, EventTypes DEF Inv, TypeOK
    <2>3. \A t \in Sessions : Exited(t) = Exited(s) <=> t = s
      BY EventFacts
    <2>4. \A t \in Sessions : ExitReceived(t)' <=> ExitReceived(t)
      BY <2>1, <2>2, <2>3 DEF ExitReceived
    <2>5. IsFiniteSet(ended')
      BY <2>1, FS_AddElement
    <2> QED
      BY <1>2, <2>1, <2>4, <2>5
  <1>7. CASE SendTick \/ SendShutdown
    <2>1. PICK event \in {TickEvent, Shutdown} : Send(event)
      BY <1>7 DEF SendTick, SendShutdown
    <2>2. exited' = exited /\ ended' = ended
      BY <1>7 DEF SendTick, SendShutdown, Send, stats, history
    <2>3. event \in Event /\ \A s \in Sessions : event # Exited(s)
      BY <2>1, EventFacts, OtherEventTypes
    <2> QED
      BY <1>4, <2>1, <2>2, <2>3
  <1>8. CASE Receive
    <2> DEFINE event == Head(channel)
    <2>1. Apply(event) /\ ended' = ended /\ event \in Event
      BY <1>8, TailFacts DEF Receive, Inv, TypeOK, history
    <2>2. CASE \E s \in Sessions : event = Exited(s)
      <3>1. PICK s \in Sessions : event = Exited(s)
        BY <2>2
      <3>2. exited' = exited + 1
        BY <2>1, <3>1, ApplyFacts
      <3>3. \A t \in Sessions : event = Exited(t) <=> t = s
        BY <3>1, EventFacts
      <3>4. s \notin Counted /\ Counted' = Counted \cup {s}
        BY <1>8, <3>1, <3>3, ReceivedFacts DEF Counted
      <3>5. IsFiniteSet(Counted)
        BY FS_Subset DEF Counted, ExitReceived
      <3>6. Cardinality(Counted') = Cardinality(Counted) + 1
        BY <3>4, <3>5, FS_AddElement
      <3>7. exited' = Cardinality(Counted')
        BY <1>1, <3>2, <3>6
      <3> QED
        BY <2>1, <3>7 DEF ExitsAreCountedOnce, Counted
    <2>3. CASE \A s \in Sessions : event # Exited(s)
      <3>1. \A s \in Sessions : ExitReceived(s)' <=> ExitReceived(s)
        BY <1>8, <2>3, ReceivedFacts
      <3>2. exited' = exited
        <4>1. CASE event.kind \notin {"SessionStarted", "SessionExited"}
          BY <2>1, <4>1, ApplyFacts
        <4>2. CASE event.kind = "SessionStarted"
          BY <2>1, <4>2 DEF Apply
        <4>3. CASE event.kind = "SessionExited"
          <5>1. event = channel[1] /\ 1 \in DOMAIN channel
            BY <1>8, TailFacts DEF Receive, Inv, TypeOK
          <5>2. event = Exited(event.session) /\ event.session \in Sessions
            BY <4>3, <5>1 DEF Inv, Reports, TypeOK
          <5> QED
            BY <2>3, <5>2
        <4> QED
          BY <4>1, <4>2, <4>3
      <3> QED
        BY <1>2, <2>1, <3>1, <3>2
    <2> QED
      BY <2>2, <2>3
  <1>9. CASE Timeout
    <2>1. UNCHANGED <<channel, exited, ended>>
      BY <1>9 DEF Timeout, Apply, TickEvent, history
    <2> QED
      BY <1>3, <2>1
  <1>10. CASE CloneSender \/ DropSender \/ RunBlocking \/ Disconnected \/ UNCHANGED vars
    BY <1>3, <1>10
       DEF CloneSender, DropSender, RunBlocking, Disconnected, vars, stats, history
  <1> QED
    BY <1>5, <1>6, <1>7, <1>8, <1>9, <1>10 DEF Next, Loop

(* exited_sessions is the number of exits that were sent, but for those    *)
(* still in the channel, over all calls of run_blocking (runtime.rs:59).   *)
THEOREM ExitsCountOnce == Spec => []ExitsAreCountedOnce
PROOF
  <1>1. Init => CountInv
    <2> SUFFICES ASSUME Init PROVE CountInv
      OBVIOUS
    <2>1. {s \in Sessions : ExitReceived(s)} = {}
      BY DEF Init, ExitReceived
    <2> QED
      BY <2>1, FS_EmptySet DEF Init, CountInv, ExitsAreCountedOnce
  <1>2. CountInv => ExitsAreCountedOnce
    BY DEF CountInv
  <1> QED
    BY <1>1, <1>2, InitInv, NextInv, NextCount, PTL DEF Spec
=============================================================================
