----------------------------- MODULE EventBus -----------------------------
(***************************************************************************)
(* sidecar/dashboard_events.py: the detections shown on the dashboard.     *)
(* emit is synchronous: it appends to a ring buffer and to the queue of    *)
(* every subscriber, dropping the event for one whose queue is full.  A    *)
(* subscriber (GET /events) first replays a copy of the buffer, one yield  *)
(* at a time, while its queue already collects what happens meanwhile.     *)
(*                                                                         *)
(* Events are numbered in the order of emission; what one says is left out.*)
(* The code under the lock has no await, so it is one step.                *)
(***************************************************************************)
EXTENDS Integers, Sequences

CONSTANTS
    Subscribers,  \* connections of GET /events
    MaxBuffer,    \* _MAX_BUFFER
    MaxQueue,     \* maxsize of a subscriber's queue
    MaxSessions   \* bound: subscriptions, over all connections

ASSUME BusAssumption ==
    /\ MaxBuffer \in Nat
    /\ MaxQueue \in Nat \ {0}
    /\ MaxSessions \in Nat

VARIABLES
    emitted,   \* number of events so far
    buffer,    \* the ring: numbers of the last events
    stage,     \* stage[s]: where the generator of s is
    replay,    \* what s has still to replay
    queue,     \* what s has still to receive live
    seen,      \* number of the last event s was sent
    dropped,   \* history: events s lost to a full queue
    sessions   \* subscriptions so far

streams == <<stage, replay, queue, seen, dropped>>
busVars == <<emitted, buffer, streams, sessions>>

Registered == {"replaying", "live", "closing"}
Stages == Registered \cup {"away"}

BusInit ==
    /\ emitted = 0
    /\ buffer = <<>>
    /\ stage = [s \in Subscribers |-> "away"]
    /\ replay = [s \in Subscribers |-> <<>>]
    /\ queue = [s \in Subscribers |-> <<>>]
    /\ seen = [s \in Subscribers |-> 0]
    /\ dropped = [s \in Subscribers |-> {}]
    /\ sessions = 0

\* deque(maxlen = MaxBuffer): the oldest event gives way.
Pushed(b, e) ==
    LET longer == Append(b, e)
    IN IF Len(longer) > MaxBuffer THEN Tail(longer) ELSE longer

\* Mutant: one event too many fits.
MutHasRoom(s) == Len(queue[s]) <= MaxQueue
HasRoom(s) == Len(queue[s]) < MaxQueue

\* Mutant: a subscriber that is still replaying is passed over.
MutEmit ==
    /\ emitted' = emitted + 1
    /\ buffer' = Pushed(buffer, emitted')
    /\ queue' = [s \in Subscribers |->
                   IF stage[s] \in Registered \ {"replaying"} /\ HasRoom(s)
                   THEN Append(queue[s], emitted') ELSE queue[s]]
    /\ dropped' = [s \in Subscribers |->
                     IF stage[s] \in Registered /\ ~HasRoom(s)
                     THEN dropped[s] \cup {emitted'} ELSE dropped[s]]
    /\ UNCHANGED <<stage, replay, seen, sessions>>

Emit ==
    /\ emitted' = emitted + 1
    /\ buffer' = Pushed(buffer, emitted')
    /\ queue' = [s \in Subscribers |->
                   IF stage[s] \in Registered /\ HasRoom(s)
                   THEN Append(queue[s], emitted') ELSE queue[s]]
    /\ dropped' = [s \in Subscribers |->
                     IF stage[s] \in Registered /\ ~HasRoom(s)
                     THEN dropped[s] \cup {emitted'} ELSE dropped[s]]
    /\ UNCHANGED <<stage, replay, seen, sessions>>

\* The queue is registered and the buffer copied under the lock.
Subscribe(s) ==
    /\ stage[s] = "away"
    /\ sessions < MaxSessions
    /\ sessions' = sessions + 1
    /\ stage' = [stage EXCEPT ![s] = "replaying"]
    /\ replay' = [replay EXCEPT ![s] = buffer]
    /\ seen' = [seen EXCEPT ![s] = emitted - Len(buffer)]
    /\ UNCHANGED <<emitted, buffer, queue, dropped>>

Replay(s) ==
    /\ stage[s] = "replaying"
    /\ replay[s] # <<>>
    /\ seen' = [seen EXCEPT ![s] = Head(replay[s])]
    /\ replay' = [replay EXCEPT ![s] = Tail(@)]
    /\ UNCHANGED <<emitted, buffer, stage, queue, dropped, sessions>>

\* Mutant: the buffer is copied again when the replay ends.
MutGoLive(s) ==
    /\ stage[s] = "replaying"
    /\ replay[s] = <<>>
    /\ stage' = [stage EXCEPT ![s] = "live"]
    /\ queue' = [queue EXCEPT ![s] = buffer]
    /\ UNCHANGED <<emitted, buffer, replay, seen, dropped, sessions>>

GoLive(s) ==
    /\ stage[s] = "replaying"
    /\ replay[s] = <<>>
    /\ stage' = [stage EXCEPT ![s] = "live"]
    /\ UNCHANGED <<emitted, buffer, replay, queue, seen, dropped, sessions>>

Live(s) ==
    /\ stage[s] = "live"
    /\ queue[s] # <<>>
    /\ seen' = [seen EXCEPT ![s] = Head(queue[s])]
    /\ queue' = [queue EXCEPT ![s] = Tail(@)]
    /\ UNCHANGED <<emitted, buffer, stage, replay, dropped, sessions>>

\* The client goes away.  The generator ends where it is suspended; its
\* finally runs when the event loop closes it, and until then its queue
\* is still in the list.
Disconnect(s) ==
    /\ stage[s] \in {"replaying", "live"}
    /\ stage' = [stage EXCEPT ![s] = "closing"]
    /\ UNCHANGED <<emitted, buffer, replay, queue, seen, dropped, sessions>>


\* The finally of subscribe, under the lock; the generator's locals go.
Unregister(s) ==
    /\ stage[s] = "closing"
    /\ stage' = [stage EXCEPT ![s] = "away"]
    /\ replay' = [replay EXCEPT ![s] = <<>>]
    /\ queue' = [queue EXCEPT ![s] = <<>>]
    /\ seen' = [seen EXCEPT ![s] = 0]
    /\ dropped' = [dropped EXCEPT ![s] = {}]
    /\ UNCHANGED <<emitted, buffer, sessions>>

Delivery(s) == Replay(s) \/ GoLive(s) \/ Live(s) \/ Unregister(s)
BusStep(s) == Subscribe(s) \/ Delivery(s) \/ Disconnect(s)

BusNext == Emit \/ \E s \in Subscribers : BusStep(s)

BusSpec == BusInit /\ [][BusNext]_busVars

---------------------------------------------------------------------------
\* What s has still to be sent, in the order it will be.
Due(s) == replay[s] \o queue[s]

Increasing(q) == \A i \in 1..Len(q) : \A j \in 1..(i - 1) : q[j] < q[i]

\* Types, and the limits of the ring and of the queues
\* (dashboard_events.py:32, 77).
BusTypeOK ==
    /\ emitted \in Nat
    /\ buffer \in Seq(1..emitted) /\ Len(buffer) <= MaxBuffer
    /\ stage \in [Subscribers -> Stages]
    /\ replay \in [Subscribers -> Seq(1..emitted)]
    /\ queue \in [Subscribers -> Seq(1..emitted)]
    /\ \A s \in Subscribers : Len(queue[s]) <= MaxQueue
    /\ seen \in [Subscribers -> 0..emitted]
    /\ dropped \in [Subscribers -> SUBSET (1..emitted)]
    /\ sessions \in 0..MaxSessions

\* A subscriber is sent events in the order they were emitted and none of
\* them twice: what it is still due is increasing and later than what it
\* has seen, although it replays a copy of the buffer while its queue
\* fills (subscribe, dashboard_events.py:77-85).
InOrder ==
    \A s \in Subscribers :
        /\ Increasing(Due(s))
        /\ \A i \in 1..Len(Due(s)) : Due(s)[i] > seen[s]

\* Nothing falls between the replay and the live events: since its
\* subscription a client has been sent, is due or has lost to a full queue
\* every event from the oldest of the replayed copy on
\* (dashboard_events.py:66-70, 78-80).
NoSilentGap ==
    \A s \in Subscribers : stage[s] \in Registered =>
        \A e \in (seen[s] + 1)..emitted :
            \/ e \in dropped[s]
            \/ \E i \in 1..Len(Due(s)) : Due(s)[i] = e
===========================================================================
