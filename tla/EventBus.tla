------------------------------- MODULE EventBus -------------------------------
(***************************************************************************)
(* The fan-out of backend events to the dashboards that listen on          *)
(* GET /api/refresh/events (backend/events.py, backend/routers/refresh.py).*)
(*                                                                         *)
(* A broadcast serves the subscribers one after another under _sse_lock.   *)
(* Each has a bounded queue; the client's stream takes from it without     *)
(* that lock, so it may empty the queue in the middle of the overflow      *)
(* handling, whose three queue operations are three steps here.            *)
(* Events are numbered in the order they are broadcast; the notice that    *)
(* events were dropped (EVENTS_DROPPED) is 0.                              *)
(***************************************************************************)
EXTENDS Naturals, Sequences, SequencesExt, FiniteSets

CONSTANTS
    Client,
    Capacity,   \* maxsize of a queue (100 in the code)
    MaxEvents   \* bound: events broadcast

ASSUME BusAssumption == Capacity \in Nat \ {0} /\ MaxEvents \in Nat

VARIABLES
    stream,  \* what a client's stream is: never opened, open, closed
    queue,   \* the subscriber's queue
    sent,    \* events whose broadcast began; the last one is the current one
    todo,    \* subscribers the current broadcast has not dealt with
    stage,   \* what it does next to the subscriber it is dealing with
    at,      \* that subscriber (any, before the broadcast picks one)
    got,     \* what the client received, in order
    since    \* history: events sent before the client subscribed

bus  == <<sent, todo, stage, at>>
vars == <<stream, queue, bus, got, since>>

Dropped == 0
Item == 0..MaxEvents

TypeOK ==
    /\ stream \in [Client -> {"none", "open", "closed"}]
    /\ queue \in [Client -> Seq(Item)]
    /\ \A c \in Client : Len(queue[c]) <= Capacity
    /\ sent \in 0..MaxEvents
    /\ todo \subseteq Client
    /\ stage \in {"put", "evict", "announce"}
    /\ at \in Client
    /\ got \in [Client -> Seq(Item)]
    /\ since \in [Client -> 0..MaxEvents]

Init ==
    /\ stream = [c \in Client |-> "none"]
    /\ queue = [c \in Client |-> <<>>]
    /\ sent = 0 /\ todo = {} /\ stage = "put"
    /\ at \in Client
    /\ got = [c \in Client |-> <<>>]
    /\ since = [c \in Client |-> 0]

Subscriber == { c \in Client : stream[c] = "open" }

\* Nobody is inside _sse_lock.
LockFree == todo = {}

-------------------------------------------------------------------------------
(* The stream of a client.                                                 *)

\* subscribe
Subscribe(c) ==
    /\ stream[c] = "none" /\ LockFree
    /\ stream' = [stream EXCEPT ![c] = "open"]
    /\ since' = [since EXCEPT ![c] = sent]
    /\ UNCHANGED <<queue, bus, got>>

\* The generator takes the next item and yields it.
Receive(c) ==
    /\ stream[c] = "open" /\ queue[c] # <<>>
    /\ got' = [got EXCEPT ![c] = Append(@, Head(queue[c]))]
    /\ queue' = [queue EXCEPT ![c] = Tail(@)]
    /\ UNCHANGED <<stream, bus, since>>

\* The client went away: unsubscribe, in the generator's finally clause.
Unsubscribe(c) ==
    /\ stream[c] = "open" /\ LockFree
    /\ stream' = [stream EXCEPT ![c] = "closed"]
    /\ UNCHANGED <<queue, bus, got, since>>

-------------------------------------------------------------------------------
(* broadcast_event.                                                        *)

Broadcast ==
    /\ LockFree /\ sent < MaxEvents
    /\ sent' = sent + 1
    /\ todo' = Subscriber
    /\ stage' = "put"
    /\ UNCHANGED <<stream, queue, at, got, since>>

\* A queue that is a stack.
Enqueue_InFront(c, item) == queue' = [queue EXCEPT ![c] = <<item>> \o @]

Enqueue(c, item) == queue' = [queue EXCEPT ![c] = Append(@, item)]

\* A queue with one place too many.
HasRoom_OffByOne(c) == Len(queue[c]) <= Capacity

HasRoom(c) == Len(queue[c]) < Capacity

Served(c) == todo' = todo \ {c} /\ stage' = "put"

\* put_nowait succeeded.
Put(c) ==
    /\ c \in todo /\ stage = "put" /\ HasRoom(c)
    /\ Enqueue(c, sent)
    /\ Served(c)
    /\ UNCHANGED <<stream, sent, at, got, since>>

\* put_nowait raised Full: this event is lost to the subscriber.
PutFull(c) ==
    /\ c \in todo /\ stage = "put" /\ ~HasRoom(c)
    /\ stage' = "evict" /\ at' = c
    /\ UNCHANGED <<stream, queue, sent, todo, got, since>>

\* A handler that makes no room for the notice.
MakeRoom_Not(q) == q

MakeRoom(q) == IF q = <<>> THEN q ELSE Tail(q)

\* get_nowait: the oldest item goes too, unless the client took them all.
Evict ==
    /\ todo # {} /\ stage = "evict"
    /\ queue' = [queue EXCEPT ![at] = MakeRoom(@)]
    /\ stage' = "announce"
    /\ UNCHANGED <<stream, sent, todo, at, got, since>>

\* A handler that only logs the loss.
Notice_LogOnly(c) == UNCHANGED queue

Notice(c) == IF HasRoom(c) THEN Enqueue(c, Dropped) ELSE UNCHANGED queue

\* put_nowait of the notice, given up if the queue is full.
Announce ==
    /\ todo # {} /\ stage = "announce"
    /\ Notice(at)
    /\ Served(at)
    /\ UNCHANGED <<stream, sent, at, got, since>>

\* Every event was broadcast and every client is gone.
Quiet ==
    /\ LockFree /\ sent = MaxEvents
    /\ \A c \in Client : stream[c] = "closed"
    /\ UNCHANGED vars

BroadcastStep == (\E c \in Client : Put(c) \/ PutFull(c)) \/ Evict \/ Announce

Next ==
    \/ \E c \in Client : Subscribe(c) \/ Receive(c) \/ Unsubscribe(c)
    \/ Broadcast \/ BroadcastStep \/ Quiet

Spec == Init /\ [][Next]_vars

\* A broadcast never blocks, and a client that stays reads on.
FairSpec ==
    /\ Spec
    /\ WF_vars(BroadcastStep)
    /\ \A c \in Client : WF_vars(Receive(c))

-------------------------------------------------------------------------------
(* Properties.                                                             *)

\* What a client has received or will find in its queue, in order.
Course(c) == got[c] \o queue[c]

\* A sequence of items accounts for event n: it has it, or a notice stands
\* behind everything up to n.
Accounts(items, n) ==
    \/ Contains(items, n)
    \/ \E k \in DOMAIN items :
          /\ items[k] = Dropped
          /\ \A j \in DOMAIN items : j > k => items[j] = Dropped \/ items[j] > n

\* The broadcast has still to deal with the client, or is in the middle of it.
Underway(c) == c \in todo

\* A client that missed an event is told so after the place of the gap: every
\* event of its time that is not on its course is followed by a notice, so the
\* dashboard knows to poll /api/refresh/status.  Notices may be evicted like
\* anything else, but never the last one.
GapsAreAnnounced ==
    \A c \in Subscriber : \A n \in since[c]+1 .. sent :
        \/ Accounts(Course(c), n)
        \/ n = sent /\ Underway(c)
        \/ at = c /\ Underway(c) /\ stage = "announce"

\* Events arrive in the order of their broadcast, none of them twice, and
\* none from before the client subscribed.
EventsInOrder ==
    \A c \in Client : \A k \in DOMAIN Course(c) :
        Course(c)[k] # Dropped =>
            /\ since[c] < Course(c)[k]
            /\ \A j \in 1..k-1 : Course(c)[j] < Course(c)[k]

\* A client that stays learns of every event of its time, or, behind it, that
\* it missed some.
ClientsCatchUp ==
    \A c \in Client : \A n \in 1..MaxEvents :
        (c \in Subscriber /\ since[c] < n /\ n = sent)
            ~> (stream[c] = "closed" \/ Accounts(got[c], n))

===============================================================================
