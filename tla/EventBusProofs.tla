---------------------------- MODULE EventBusProofs ----------------------------
(***************************************************************************)
(* Theorems about EventBus, for any clients and any size of their queues.  *)
(* The argument is about a client's course, what it has received followed  *)
(* by what is in its queue: receiving does not change it, a broadcast      *)
(* appends to it, and an eviction takes one item out of it.                *)
(***************************************************************************)
EXTENDS EventBus, SequenceTheorems, TLAPS

(* Only open streams are served, and the queue handling is under way for   *)
(* one of them.  Nothing was ever put into a stream that was not opened.   *)
Serving ==
    /\ \A c \in todo : stream[c] = "open"
    /\ stage # "put" => at \in todo
    /\ \A c \in Client :
          stream[c] = "none" => got[c] = <<>> /\ queue[c] = <<>>

(* Every item of s is a number of at most n.                               *)
UpTo(s, n) == \A k \in 1..Len(s) : s[k] \in Nat /\ s[k] <= n

(* The event under way is newer than the course of whoever waits for it.   *)
Fresh ==
    \A c \in Client :
        /\ since[c] <= sent /\ UpTo(Course(c), sent)
        /\ c \in todo => since[c] < sent /\ UpTo(Course(c), sent - 1)

(* The notice finds room: the client only takes from its queue.            *)
RoomForNotice == stage = "announce" => HasRoom(at)

IInv == TypeOK /\ Serving /\ RoomForNotice /\ Fresh /\ EventsInOrder

-------------------------------------------------------------------------------
(* Courses.                                                                *)

LEMMA CourseTypes ==
    ASSUME TypeOK, NEW c \in Client
    PROVE  /\ Course(c) \in Seq(Item)
           /\ DOMAIN Course(c) = 1..Len(Course(c))
           /\ Len(Course(c)) \in Nat
           /\ \A k \in DOMAIN Course(c) : Course(c)[k] \in Item
<1>1. got[c] \in Seq(Item) /\ queue[c] \in Seq(Item)
  BY DEF TypeOK
<1>2. Course(c) \in Seq(Item)
  BY <1>1, ConcatProperties DEF Course
<1> QED
  BY <1>2, LenProperties, ElementOfSeq

(* What a stream takes from the queue stays in its place on the course.    *)
LEMMA ReceiveKeepsCourse ==
    ASSUME NEW s \in Seq(Item), NEW q \in Seq(Item), q # <<>>
    PROVE  Append(s, Head(q)) \o Tail(q) = s \o q
<1> DEFINE l == Append(s, Head(q)) \o Tail(q)
           r == s \o q
<1>1. /\ Head(q) \in Item /\ Tail(q) \in Seq(Item)
      /\ Len(Tail(q)) = Len(q) - 1
      /\ \A i \in 1..Len(Tail(q)) : Tail(q)[i] = q[i+1]
      /\ Len(q) \in Nat \ {0} /\ Len(s) \in Nat
      /\ Head(q) = q[1]
  BY HeadTailProperties, LenProperties, EmptySeq
<1>2. /\ Append(s, Head(q)) \in Seq(Item)
      /\ Len(Append(s, Head(q))) = Len(s) + 1
      /\ \A i \in 1..Len(s) : Append(s, Head(q))[i] = s[i]
      /\ Append(s, Head(q))[Len(s) + 1] = Head(q)
  BY <1>1
<1>3. /\ l \in Seq(Item) /\ Len(l) = Len(s) + 1 + (Len(q) - 1)
      /\ \A i \in 1..Len(s) + 1 + (Len(q) - 1) :
            l[i] = IF i <= Len(s) + 1 THEN Append(s, Head(q))[i]
                   ELSE Tail(q)[i - (Len(s) + 1)]
  <2> HIDE DEF l
  <2>1. /\ l \in Seq(Item) /\ Len(l) = Len(Append(s, Head(q))) + Len(Tail(q))
        /\ \A i \in 1..Len(Append(s, Head(q))) + Len(Tail(q)) :
              l[i] = IF i <= Len(Append(s, Head(q))) THEN Append(s, Head(q))[i]
                     ELSE Tail(q)[i - Len(Append(s, Head(q)))]
    BY <1>1, <1>2, ConcatProperties DEF l
  <2> QED
    BY <2>1, <1>1, <1>2
<1>4. /\ r \in Seq(Item) /\ Len(r) = Len(s) + Len(q)
      /\ \A i \in 1..Len(s) + Len(q) :
            r[i] = IF i <= Len(s) THEN s[i] ELSE q[i - Len(s)]
  BY ConcatProperties
<1>5. ASSUME NEW i \in 1..Len(l) PROVE l[i] = r[i]
  <2> HIDE DEF l, r
  <2>1. CASE i <= Len(s)
    <3>1. /\ i \in 1..Len(s) + 1 + (Len(q) - 1) /\ i \in 1..Len(s) + Len(q)
          /\ i <= Len(s) + 1 /\ i \in 1..Len(s)
      BY <2>1, <1>1, <1>3
    <3>2. l[i] = Append(s, Head(q))[i]
      BY <3>1, <1>3
    <3>3. r[i] = s[i]
      BY <3>1, <2>1, <1>4
    <3> QED
      BY <3>1, <3>2, <3>3, <1>2
  <2>2. CASE i = Len(s) + 1
    BY <2>2, <1>1, <1>2, <1>3, <1>4, <1>5
  <2>3. CASE i > Len(s) + 1
    <3>1. /\ i \in 1..Len(s) + 1 + (Len(q) - 1) /\ i \in 1..Len(s) + Len(q)
          /\ ~(i <= Len(s) + 1) /\ ~(i <= Len(s))
          /\ i - (Len(s) + 1) \in 1..Len(Tail(q))
          /\ (i - (Len(s) + 1)) + 1 = i - Len(s)
      BY <2>3, <1>1, <1>3
    <3>2. l[i] = Tail(q)[i - (Len(s) + 1)]
      BY <3>1, <1>3
    <3>3. r[i] = q[i - Len(s)]
      BY <3>1, <1>4
    <3> QED
      BY <3>1, <3>2, <3>3, <1>1
  <2> QED
    BY <2>1, <2>2, <2>3, <1>1, <1>3, <1>5
<1> HIDE DEF l, r
<1>6. l \in Seq(Item) /\ r \in Seq(Item)
  BY <1>3, <1>4
<1>7. Len(l) = Len(r)
  BY <1>1, <1>3, <1>4
<1>8. \A i \in 1..Len(l) : l[i] = r[i]
  BY <1>5
<1>9. l = r
  BY <1>6, <1>7, <1>8, SeqEqual, Zenon
<1> QED
  BY <1>9 DEF l, r

(* l is r with e at its end; l is r without one item.                     *)
Extends(l, r, e) ==
    /\ Len(r) \in Nat /\ Len(l) = Len(r) + 1
    /\ \A k \in 1..Len(r) : l[k] = r[k]
    /\ l[Len(r) + 1] = e

Thins(l, r) ==
    /\ Len(l) \in Nat
    /\ \E n \in Nat : \A k \in 1..Len(l) :
          /\ k \in 1..Len(r) /\ k + 1 \in 1..Len(r)
          /\ l[k] = r[IF k <= n THEN k ELSE k + 1]

(* An item that is put into the queue comes last.                          *)
LEMMA AppendedComesLast ==
    ASSUME NEW s \in Seq(Item), NEW q \in Seq(Item), NEW e \in Item
    PROVE  Extends(s \o Append(q, e), s \o q, e)
<1> DEFINE t == Append(q, e)
           l == s \o t
           r == s \o q
<1>1. /\ t \in Seq(Item) /\ Len(t) = Len(q) + 1
      /\ Len(q) \in Nat /\ Len(s) \in Nat
      /\ \A i \in 1..Len(q) : t[i] = q[i]
      /\ t[Len(q) + 1] = e
  OBVIOUS
<1> HIDE DEF t, l, r
<1>2. /\ l \in Seq(Item) /\ Len(l) = Len(s) + Len(t)
      /\ \A i \in 1..Len(s) + Len(t) :
            l[i] = IF i <= Len(s) THEN s[i] ELSE t[i - Len(s)]
  BY <1>1, ConcatProperties DEF l
<1>3. /\ r \in Seq(Item) /\ Len(r) = Len(s) + Len(q)
      /\ \A i \in 1..Len(s) + Len(q) :
            r[i] = IF i <= Len(s) THEN s[i] ELSE q[i - Len(s)]
  BY ConcatProperties DEF r
<1>4. ASSUME NEW k \in 1..Len(r) PROVE l[k] = r[k]
  <2>1. CASE k <= Len(s)
    BY <2>1, <1>1, <1>2, <1>3
  <2>2. CASE ~(k <= Len(s))
    <3>1. k - Len(s) \in 1..Len(q) /\ k \in 1..Len(s) + Len(q) /\ k \in 1..Len(s) + Len(t)
      BY <2>2, <1>1, <1>3
    <3>2. l[k] = t[k - Len(s)] /\ r[k] = q[k - Len(s)]
      BY <3>1, <2>2, <1>2, <1>3
    <3> QED
      BY <3>1, <3>2, <1>1
  <2> QED
    BY <2>1, <2>2
<1>5. l[Len(r) + 1] = e
  <2>1. Len(r) + 1 \in 1..Len(s) + Len(t) /\ ~(Len(r) + 1 <= Len(s))
        /\ (Len(r) + 1) - Len(s) = Len(q) + 1
    BY <1>1, <1>3
  <2> QED
    BY <2>1, <1>1, <1>2
<1>6. Extends(l, r, e)
  BY <1>1, <1>2, <1>3, <1>4, <1>5 DEF Extends
<1> QED
  BY <1>6 DEF l, r, t

(* When the first item of the queue is gone, those behind it move up.      *)
LEMMA RestMovesUp ==
    ASSUME NEW s \in Seq(Item), NEW q \in Seq(Item), q # <<>>
    PROVE  Thins(s \o Tail(q), s \o q)
<1> DEFINE t == Tail(q)
           l == s \o t
           r == s \o q
<1>1. /\ t \in Seq(Item) /\ Len(t) = Len(q) - 1
      /\ Len(q) \in Nat \ {0} /\ Len(s) \in Nat
      /\ \A i \in 1..Len(t) : t[i] = q[i+1]
  BY HeadTailProperties, EmptySeq, LenProperties
<1> HIDE DEF t, l, r
<1>2. /\ l \in Seq(Item) /\ Len(l) = Len(s) + Len(t)
      /\ \A i \in 1..Len(s) + Len(t) :
            l[i] = IF i <= Len(s) THEN s[i] ELSE t[i - Len(s)]
  BY <1>1, ConcatProperties DEF l
<1>3. /\ r \in Seq(Item) /\ Len(r) = Len(s) + Len(q)
      /\ \A i \in 1..Len(s) + Len(q) :
            r[i] = IF i <= Len(s) THEN s[i] ELSE q[i - Len(s)]
  BY ConcatProperties DEF r
<1>4. ASSUME NEW k \in 1..Len(l)
      PROVE  /\ k \in 1..Len(r) /\ k + 1 \in 1..Len(r)
             /\ l[k] = r[IF k <= Len(s) THEN k ELSE k + 1]
  <2>1. k \in 1..Len(r) /\ k + 1 \in 1..Len(r)
    BY <1>1, <1>2, <1>3
  <2>2. CASE k <= Len(s)
    <3>1. l[k] = s[k] /\ r[k] = s[k]
      BY <2>1, <2>2, <1>1, <1>2, <1>3
    <3> QED
      BY <2>1, <2>2, <3>1
  <2>3. CASE ~(k <= Len(s))
    <3>1. k - Len(s) \in 1..Len(t) /\ k \in 1..Len(s) + Len(t)
          /\ k + 1 \in 1..Len(s) + Len(q) /\ ~(k + 1 <= Len(s))
          /\ (k + 1) - Len(s) = (k - Len(s)) + 1
      BY <2>3, <1>1, <1>2, <1>3
    <3>2. l[k] = t[k - Len(s)]
      BY <3>1, <2>3, <1>2
    <3>3. r[k + 1] = q[(k - Len(s)) + 1]
      BY <3>1, <1>3
    <3> QED
      BY <2>1, <2>3, <3>1, <3>2, <3>3, <1>1
  <2> QED
    BY <2>2, <2>3
<1>5. Len(l) \in Nat /\ Len(s) \in Nat
  BY <1>1, <1>2
<1>6. \A k \in 1..Len(l) :
         /\ k \in 1..Len(r) /\ k + 1 \in 1..Len(r)
         /\ l[k] = r[IF k <= Len(s) THEN k ELSE k + 1]
  BY <1>4
<1>7. \E n \in Nat : \A k \in 1..Len(l) :
         /\ k \in 1..Len(r) /\ k + 1 \in 1..Len(r)
         /\ l[k] = r[IF k <= n THEN k ELSE k + 1]
  <2> WITNESS Len(s) \in Nat
  <2> QED
    BY <1>6
<1>8. Thins(l, r)
  BY <1>5, <1>7 DEF Thins
<1> QED
  BY <1>8 DEF l, r, t

-------------------------------------------------------------------------------
(* Every step keeps the types and who is served.                           *)

LEMMA InitIInv == Init => IInv
<1> SUFFICES ASSUME Init PROVE IInv
  OBVIOUS
<1>1. TypeOK
  BY BusAssumption DEF Init, TypeOK, Item
<1>2. \A c \in Client : Course(c) = <<>> /\ DOMAIN Course(c) = {}
  BY DEF Init, Course
<1> QED
  BY <1>1, <1>2 DEF Init, IInv, Serving, Fresh, UpTo, RoomForNotice, EventsInOrder, TypeOK

LEMMA EnqueueTypes ==
    ASSUME TypeOK, NEW c \in Client, HasRoom(c), NEW e \in Item, Enqueue(c, e)
    PROVE  /\ queue' \in [Client -> Seq(Item)]
           /\ \A d \in Client : Len(queue'[d]) <= Capacity
<1>1. queue[c] \in Seq(Item) /\ Len(queue[c]) < Capacity /\ Capacity \in Nat
  BY BusAssumption DEF TypeOK, HasRoom
<1>2. Append(queue[c], e) \in Seq(Item) /\ Len(Append(queue[c], e)) = Len(queue[c]) + 1
      /\ Len(queue[c]) \in Nat
  BY <1>1
<1>3. queue' = [queue EXCEPT ![c] = Append(queue[c], e)]
  BY DEF Enqueue
<1> QED
  BY <1>1, <1>2, <1>3 DEF TypeOK

LEMMA TailTypes ==
    ASSUME TypeOK, NEW c \in Client, queue[c] # <<>>,
           queue' = [queue EXCEPT ![c] = Tail(@)]
    PROVE  /\ queue' \in [Client -> Seq(Item)]
           /\ \A d \in Client : Len(queue'[d]) <= Capacity
           /\ Len(queue'[c]) < Capacity
           /\ \A d \in Client \ {c} : queue'[d] = queue[d]
           /\ queue'[c] = Tail(queue[c])
<1>1. queue[c] \in Seq(Item) /\ Len(queue[c]) <= Capacity /\ Capacity \in Nat
  BY BusAssumption DEF TypeOK
<1>2. Tail(queue[c]) \in Seq(Item) /\ Len(Tail(queue[c])) = Len(queue[c]) - 1
      /\ Len(queue[c]) \in Nat
  BY <1>1, HeadTailProperties, LenProperties
<1> QED
  BY <1>1, <1>2 DEF TypeOK

LEMMA StepTypes ==
    ASSUME TypeOK, Serving, RoomForNotice, [Next]_vars
    PROVE  TypeOK' /\ Serving' /\ RoomForNotice'
<1> USE DEF TypeOK, Serving, RoomForNotice
<1> USE BusAssumption
<1>1. ASSUME NEW c \in Client, Subscribe(c)
      PROVE  TypeOK' /\ Serving' /\ RoomForNotice'
  BY <1>1 DEF Subscribe, LockFree, bus, HasRoom
<1>2. ASSUME NEW c \in Client, Receive(c)
      PROVE  TypeOK' /\ Serving' /\ RoomForNotice'
  <2>1. /\ queue' \in [Client -> Seq(Item)]
        /\ \A d \in Client : Len(queue'[d]) <= Capacity
        /\ Len(queue'[c]) < Capacity
        /\ \A d \in Client \ {c} : queue'[d] = queue[d]
        /\ queue'[c] = Tail(queue[c])
    BY <1>2, TailTypes DEF Receive
  <2>2. Append(got[c], Head(queue[c])) \in Seq(Item)
    <3>1. queue[c] \in Seq(Item) /\ queue[c] # <<>> /\ got[c] \in Seq(Item)
      BY <1>2 DEF Receive
    <3>2. Head(queue[c]) \in Item
      BY <3>1, HeadTailProperties
    <3> QED
      BY <3>1, <3>2
  <2>3. got' \in [Client -> Seq(Item)] /\ \A d \in Client \ {c} : got'[d] = got[d]
    BY <1>2, <2>2 DEF Receive
  <2>4. TypeOK'
    BY <1>2, <2>1, <2>3 DEF Receive, bus
  <2>5. Serving'
    BY <1>2, <2>1, <2>3 DEF Receive, bus
  <2>6. RoomForNotice'
    BY <1>2, <2>1 DEF Receive, bus, HasRoom
  <2> QED
    BY <2>4, <2>5, <2>6
<1>3. ASSUME NEW c \in Client, Unsubscribe(c)
      PROVE  TypeOK' /\ Serving' /\ RoomForNotice'
  BY <1>3 DEF Unsubscribe, LockFree, bus, HasRoom
<1>4. CASE Broadcast
  BY <1>4 DEF Broadcast, LockFree, Subscriber, HasRoom
<1>5. ASSUME NEW c \in Client, Put(c)
      PROVE  TypeOK' /\ Serving' /\ RoomForNotice'
  <2>1. sent \in Item /\ HasRoom(c) /\ Enqueue(c, sent)
    BY <1>5 DEF Put, Item
  <2>2. /\ queue' \in [Client -> Seq(Item)]
        /\ \A d \in Client : Len(queue'[d]) <= Capacity
    BY <2>1, EnqueueTypes
  <2>3. \A d \in Client \ {c} : queue'[d] = queue[d]
    BY <2>1 DEF Enqueue
  <2> QED
    BY <1>5, <2>2, <2>3 DEF Put, Served
<1>6. ASSUME NEW c \in Client, PutFull(c)
      PROVE  TypeOK' /\ Serving' /\ RoomForNotice'
  BY <1>6 DEF PutFull
<1>7. CASE Evict
  <2>1. CASE queue[at] = <<>>
    <3>1. queue' = queue /\ Len(queue[at]) = 0
      BY <2>1, <1>7 DEF Evict, MakeRoom
    <3> QED
      BY <3>1, <1>7 DEF Evict, HasRoom
  <2>2. CASE queue[at] # <<>>
    <3>1. queue' = [queue EXCEPT ![at] = Tail(@)]
      BY <2>2, <1>7 DEF Evict, MakeRoom
    <3>2. /\ queue' \in [Client -> Seq(Item)]
          /\ \A d \in Client : Len(queue'[d]) <= Capacity
          /\ Len(queue'[at]) < Capacity
          /\ \A d \in Client \ {at} : queue'[d] = queue[d]
      BY <2>2, <3>1, TailTypes
    <3> QED
      BY <3>2, <1>7 DEF Evict, HasRoom
  <2> QED
    BY <2>1, <2>2
<1>8. CASE Announce
  <2>1. Dropped \in Item /\ HasRoom(at) /\ Enqueue(at, Dropped)
    BY <1>8 DEF Announce, Notice, Item, Dropped
  <2>2. /\ queue' \in [Client -> Seq(Item)]
        /\ \A d \in Client : Len(queue'[d]) <= Capacity
    BY <2>1, EnqueueTypes
  <2>3. \A d \in Client \ {at} : queue'[d] = queue[d]
    BY <2>1 DEF Enqueue
  <2> QED
    BY <1>8, <2>2, <2>3 DEF Announce, Served
<1>9. CASE UNCHANGED vars
  BY <1>9 DEF vars, bus, HasRoom
<1> QED
  BY <1>1, <1>2, <1>3, <1>4, <1>5, <1>6, <1>7, <1>8, <1>9
     DEF Next, BroadcastStep, Quiet

-------------------------------------------------------------------------------
(* What a step does to the courses.                                        *)

(* Clients come, read and go without a change of any course.               *)
LEMMA StreamKeepsCourse ==
    ASSUME TypeOK, NEW d \in Client,
           Subscribe(d) \/ Receive(d) \/ Unsubscribe(d) \/ PutFull(d)
    PROVE  \A c \in Client : Course(c)' = Course(c)
<1>1. CASE Receive(d)
  <2>1. /\ queue[d] \in Seq(Item) /\ got[d] \in Seq(Item) /\ queue[d] # <<>>
        /\ queue'[d] = Tail(queue[d]) /\ got'[d] = Append(got[d], Head(queue[d]))
        /\ \A c \in Client \ {d} : queue'[c] = queue[c] /\ got'[c] = got[c]
    BY <1>1 DEF Receive, TypeOK
  <2>2. Append(got[d], Head(queue[d])) \o Tail(queue[d]) = got[d] \o queue[d]
    BY <2>1, ReceiveKeepsCourse
  <2>3. Course(d)' = Course(d)
    BY <2>1, <2>2 DEF Course
  <2> QED
    BY <2>1, <2>3 DEF Course
<1>2. CASE Subscribe(d) \/ Unsubscribe(d) \/ PutFull(d)
  BY <1>2 DEF Subscribe, Unsubscribe, PutFull, Course
<1> QED
  BY <1>1, <1>2

LEMMA EnqueueExtends ==
    ASSUME TypeOK, NEW c \in Client, NEW e \in Item, Enqueue(c, e),
           UNCHANGED got
    PROVE  /\ Extends(Course(c)', Course(c), e)
           /\ \A d \in Client \ {c} : Course(d)' = Course(d)
<1>1. /\ got[c] \in Seq(Item) /\ queue[c] \in Seq(Item) /\ got'[c] = got[c]
      /\ queue'[c] = Append(queue[c], e)
      /\ \A d \in Client \ {c} : queue'[d] = queue[d] /\ got'[d] = got[d]
  BY DEF Enqueue, TypeOK
<1>2. Extends(got[c] \o Append(queue[c], e), got[c] \o queue[c], e)
  BY <1>1, AppendedComesLast
<1> QED
  BY <1>1, <1>2 DEF Course

LEMMA EvictThins ==
    ASSUME TypeOK, Evict, NEW c \in Client
    PROVE  \/ Course(c)' = Course(c)
           \/ c = at /\ Thins(Course(c)', Course(c))
<1>1. /\ got[c] \in Seq(Item) /\ queue[c] \in Seq(Item)
      /\ got'[c] = got[c]
      /\ queue'[c] = IF c = at THEN MakeRoom(queue[c]) ELSE queue[c]
  BY DEF Evict, TypeOK
<1>2. CASE c # at \/ queue[c] = <<>>
  BY <1>1, <1>2 DEF Course, MakeRoom
<1>3. CASE c = at /\ queue[c] # <<>>
  <2>1. Thins(got[c] \o Tail(queue[c]), got[c] \o queue[c])
    BY <1>1, <1>3, RestMovesUp
  <2> QED
    BY <1>1, <1>3, <2>1 DEF Course, MakeRoom
<1> QED
  BY <1>2, <1>3

(* One step, for the course of one client.                                 *)
LEMMA CourseMoves ==
    ASSUME TypeOK, Serving, RoomForNotice, [Next]_vars, NEW c \in Client
    PROVE  \/ Course(c)' = Course(c)
           \/ Put(c) /\ Extends(Course(c)', Course(c), sent)
           \/ Evict /\ c = at /\ Thins(Course(c)', Course(c))
           \/ Announce /\ c = at /\ Extends(Course(c)', Course(c), Dropped)
<1>1. ASSUME NEW d \in Client,
             Subscribe(d) \/ Receive(d) \/ Unsubscribe(d) \/ PutFull(d)
      PROVE  Course(c)' = Course(c)
  BY <1>1, StreamKeepsCourse
<1>2. ASSUME NEW d \in Client, Put(d)
      PROVE  \/ Course(c)' = Course(c)
             \/ c = d /\ Extends(Course(c)', Course(c), sent)
  <2>1. sent \in Item /\ Enqueue(d, sent) /\ UNCHANGED got
    BY <1>2 DEF Put, Item, TypeOK
  <2>2. Extends(Course(d)', Course(d), sent) /\ \A b \in Client \ {d} : Course(b)' = Course(b)
    BY <2>1, EnqueueExtends
  <2>3. CASE c = d
    BY <2>2, <2>3
  <2>4. CASE c # d
    BY <2>2, <2>4
  <2> QED
    BY <2>3, <2>4
<1>3. ASSUME Evict
      PROVE  \/ Course(c)' = Course(c)
             \/ c = at /\ Thins(Course(c)', Course(c))
  BY <1>3, EvictThins
<1>4. ASSUME Announce
      PROVE  \/ Course(c)' = Course(c)
             \/ c = at /\ Extends(Course(c)', Course(c), Dropped)
  <2>1. Dropped \in Item /\ Enqueue(at, Dropped) /\ UNCHANGED got
    BY <1>4, BusAssumption DEF Announce, Notice, Item, Dropped, RoomForNotice
  <2>2. CASE c = at
    <3>1. Enqueue(c, Dropped)
      BY <2>1, <2>2 DEF Enqueue
    <3> QED
      BY <2>1, <2>2, <3>1, EnqueueExtends
  <2>3. CASE c # at
    BY <2>1, <2>3 DEF Enqueue, Course, TypeOK
  <2> QED
    BY <2>2, <2>3
<1>5. CASE Broadcast \/ UNCHANGED vars
  BY <1>5 DEF Broadcast, vars, Course
<1> QED
  BY <1>1, <1>2, <1>3, <1>4, <1>5 DEF Next, BroadcastStep, Quiet

-------------------------------------------------------------------------------
(* Order.                                                                  *)

(* What is not a notice is newer than lo and than all before it.           *)
Ordered(s, lo) ==
    \A k \in 1..Len(s) :
        s[k] # Dropped => lo < s[k] /\ \A j \in 1..k-1 : s[j] < s[k]

LEMMA ExtendsOrdered ==
    ASSUME NEW l, NEW r, NEW lo \in Nat, NEW n \in Nat, UpTo(r, n), Ordered(r, lo),
           \/ Extends(l, r, Dropped)
           \/ n > 0 /\ UpTo(r, n - 1) /\ lo < n /\ Extends(l, r, n)
    PROVE  UpTo(l, n) /\ Ordered(l, lo)
<1> USE DEF UpTo, Ordered, Extends, Dropped
<1>1. CASE Extends(l, r, Dropped)
  BY <1>1
<1>2. CASE n > 0 /\ UpTo(r, n - 1) /\ lo < n /\ Extends(l, r, n)
  BY <1>2
<1> QED
  BY <1>1, <1>2

LEMMA ThinsOrdered ==
    ASSUME NEW l, NEW r, NEW lo \in Nat, NEW n \in Nat, UpTo(r, n), Ordered(r, lo),
           Thins(l, r)
    PROVE  UpTo(l, n) /\ Ordered(l, lo)
<1>1. PICK p \in Nat : \A k \in 1..Len(l) :
          /\ k \in 1..Len(r) /\ k + 1 \in 1..Len(r)
          /\ l[k] = r[IF k <= p THEN k ELSE k + 1]
  BY DEF Thins
<1> DEFINE f(k) == IF k <= p THEN k ELSE k + 1
<1>2. ASSUME NEW k \in 1..Len(l)
      PROVE  /\ f(k) \in 1..Len(r) /\ l[k] = r[f(k)]
             /\ \A j \in 1..k-1 : j \in 1..Len(l) /\ f(j) \in 1..f(k)-1 /\ l[j] = r[f(j)]
  <2>1. Len(l) \in Nat
    BY DEF Thins
  <2>2. f(k) \in 1..Len(r) /\ l[k] = r[f(k)]
    BY <1>1, <1>2
  <2>3. ASSUME NEW j \in 1..k-1
        PROVE  j \in 1..Len(l) /\ f(j) \in 1..f(k)-1 /\ l[j] = r[f(j)]
    <3>1. j \in 1..Len(l)
      BY <2>1, <1>2, <2>3
    <3> QED
      BY <3>1, <1>1, <1>2, <2>3
  <2> QED
    BY <2>2, <2>3
<1> HIDE DEF f
<1> QED
  BY <1>2 DEF UpTo, Ordered

LEMMA InOrder ==
    TypeOK => (EventsInOrder <=> \A c \in Client : Ordered(Course(c), since[c]))
<1> SUFFICES ASSUME TypeOK
    PROVE  EventsInOrder <=> \A c \in Client : Ordered(Course(c), since[c])
  OBVIOUS
<1>1. \A c \in Client : DOMAIN Course(c) = 1..Len(Course(c))
  BY CourseTypes
<1> QED
  BY <1>1 DEF EventsInOrder, Ordered

LEMMA StepOrder ==
    ASSUME IInv, [Next]_vars, TypeOK', Serving', NEW c \in Client
    PROVE  /\ since'[c] <= sent' /\ UpTo(Course(c)', sent')
           /\ c \in todo' => since'[c] < sent' /\ UpTo(Course(c)', sent' - 1)
           /\ Ordered(Course(c)', since'[c])
<1> DEFINE l == Course(c)'
           r == Course(c)
           Goal == /\ since'[c] <= sent' /\ UpTo(l, sent')
                   /\ c \in todo' => since'[c] < sent' /\ UpTo(l, sent' - 1)
                   /\ Ordered(l, since'[c])
<1>1. /\ since[c] \in Nat /\ sent \in Nat /\ sent' \in Nat /\ since'[c] \in Nat
      /\ since[c] <= sent /\ UpTo(r, sent)
      /\ c \in todo => since[c] < sent /\ UpTo(r, sent - 1)
      /\ Ordered(r, since[c])
  <2>1. TypeOK /\ EventsInOrder
    BY DEF IInv
  <2>2. Ordered(r, since[c])
    BY <2>1, InOrder
  <2> QED
    BY <2>2, BusAssumption DEF IInv, Fresh, TypeOK
<1>2. \/ l = r
      \/ Put(c) /\ Extends(l, r, sent)
      \/ Evict /\ c = at /\ Thins(l, r)
      \/ Announce /\ c = at /\ Extends(l, r, Dropped)
  <2>1. TypeOK /\ Serving /\ RoomForNotice
    BY DEF IInv
  <2> QED
    BY <2>1, CourseMoves
<1>3. CASE Put(c) /\ Extends(l, r, sent)
  <2>1. c \in todo /\ sent' = sent /\ since' = since /\ c \notin todo'
    BY <1>3 DEF Put, Served
  <2> HIDE DEF l, r
  <2>2. UpTo(l, sent) /\ Ordered(l, since[c])
    <3>1. sent > 0 /\ UpTo(r, sent - 1) /\ since[c] < sent
      BY <1>1, <2>1
    <3> QED
      BY <1>1, <1>3, <3>1, ExtendsOrdered
  <2> QED
    BY <1>1, <2>1, <2>2 DEF l
<1>4. CASE Evict /\ c = at /\ Thins(l, r)
  <2>1. c \in todo /\ sent' = sent /\ since' = since
    BY <1>4 DEF Evict, IInv, Serving
  <2> HIDE DEF l, r
  <2>2. UpTo(l, sent) /\ Ordered(l, since[c]) /\ UpTo(l, sent - 1)
    BY <1>1, <1>4, <2>1, ThinsOrdered
  <2> QED
    BY <1>1, <2>1, <2>2 DEF l
<1>5. CASE Announce /\ c = at /\ Extends(l, r, Dropped)
  <2>1. c \notin todo' /\ sent' = sent /\ since' = since
    BY <1>5 DEF Announce, Served
  <2> HIDE DEF l, r
  <2>2. UpTo(l, sent) /\ Ordered(l, since[c])
    BY <1>1, <1>5, <2>1, ExtendsOrdered
  <2> QED
    BY <1>1, <2>1, <2>2 DEF l
<1>6. CASE l = r
  <2>1. CASE Subscribe(c)
    <3>1. got'[c] = <<>> /\ queue'[c] = <<>> /\ sent' = sent /\ since'[c] = sent
          /\ todo' = {}
      BY <2>1 DEF Subscribe, IInv, Serving, bus, LockFree, TypeOK
    <3>2. Len(l) = 0
      BY <3>1 DEF Course
    <3> HIDE DEF l
    <3>3. 1..Len(l) = {}
      BY <3>2
    <3> QED
      BY <1>1, <3>1, <3>3 DEF UpTo, Ordered, l
  <2>2. CASE ~Subscribe(c)
    <3>1. since'[c] = since[c]
      BY <2>2 DEF Next, BroadcastStep, Quiet, vars, Subscribe, Receive,
                  Unsubscribe, Broadcast, Put, PutFull, Evict, Announce, IInv, TypeOK
    <3>2. (sent' = sent /\ todo' \subseteq todo) \/ (sent' = sent + 1 /\ todo = {})
      BY DEF Next, BroadcastStep, Quiet, vars, Subscribe, Receive, bus,
             Unsubscribe, Broadcast, Put, PutFull, Evict, Announce, Served, LockFree
    <3> HIDE DEF l, r
    <3> QED
      BY <1>1, <1>6, <3>1, <3>2 DEF UpTo, l
  <2> QED
    BY <2>1, <2>2
<1> QED
  BY <1>2, <1>3, <1>4, <1>5, <1>6

LEMMA NextIInv == IInv /\ [Next]_vars => IInv'
<1> SUFFICES ASSUME IInv, [Next]_vars PROVE IInv'
  OBVIOUS
<1>1. TypeOK' /\ Serving' /\ RoomForNotice'
  BY StepTypes DEF IInv
<1>2. Fresh'
  BY <1>1, StepOrder DEF Fresh
<1>3. \A c \in Client : Ordered(Course(c)', since'[c])
  BY <1>1, StepOrder
<1>4. EventsInOrder'
  <2>1. ASSUME NEW c \in Client PROVE DOMAIN Course(c)' = 1..Len(Course(c)')
    <3>1. got'[c] \in Seq(Item) /\ queue'[c] \in Seq(Item)
      BY <1>1 DEF TypeOK
    <3>2. got'[c] \o queue'[c] \in Seq(Item)
      BY <3>1, ConcatProperties
    <3> QED
      BY <3>2, LenProperties DEF Course
  <2> QED
    BY <1>3, <2>1 DEF EventsInOrder, Ordered
<1> QED
  BY <1>1, <1>2, <1>4 DEF IInv

LEMMA AlwaysIInv == Spec => []IInv
BY InitIInv, NextIInv, PTL DEF Spec

(* Queues, streams and the broadcast under way keep their types.           *)
THEOREM SpecTypeOK == Spec => []TypeOK
<1>1. IInv => TypeOK
  BY DEF IInv
<1> QED
  BY <1>1, AlwaysIInv, PTL

(* Events reach every client in the order of their broadcast, none twice   *)
(* and none from before its subscription, whatever is evicted between.     *)
THEOREM SpecEventsInOrder == Spec => []EventsInOrder
<1>1. IInv => EventsInOrder
  BY DEF IInv
<1> QED
  BY <1>1, AlwaysIInv, PTL

-------------------------------------------------------------------------------
(* Gaps.                                                                   *)

LEMMA ExtendsAccounts ==
    ASSUME NEW l, NEW r, NEW n \in Nat, NEW e \in Nat, Extends(l, r, e),
           DOMAIN l = 1..Len(l), DOMAIN r = 1..Len(r),
           \/ e = Dropped
           \/ e = n
           \/ e > n /\ Accounts(r, n)
    PROVE  Accounts(l, n)
<1> USE DEF Extends, Accounts, Contains, Dropped
<1>1. CASE e = Dropped
  <2>1. Len(r) + 1 \in DOMAIN l /\ l[Len(r) + 1] = Dropped
        /\ \A j \in DOMAIN l : ~(j > Len(r) + 1)
    BY <1>1
  <2> QED
    BY <2>1
<1>2. CASE e = n
  BY <1>2
<1>3. CASE e > n /\ Contains(r, n)
  BY <1>3
<1>4. CASE e > n /\ ~Contains(r, n) /\ Accounts(r, n)
  <2>1. PICK k \in DOMAIN r :
            /\ r[k] = Dropped
            /\ \A j \in DOMAIN r : j > k => r[j] = Dropped \/ r[j] > n
    BY <1>4
  <2>2. k \in DOMAIN l /\ l[k] = Dropped
    BY <2>1
  <2>3. ASSUME NEW j \in DOMAIN l, j > k PROVE l[j] = Dropped \/ l[j] > n
    <3>1. CASE j \in DOMAIN r
      BY <2>1, <2>3, <3>1
    <3>2. CASE j = Len(r) + 1
      BY <3>2, <1>4
    <3> QED
      BY <3>1, <3>2, <2>3
  <2> QED
    BY <2>2, <2>3
<1> QED
  BY <1>1, <1>2, <1>3, <1>4

LEMMA ServedExtends ==
    ASSUME TypeOK, RoomForNotice, NEW c \in Client
    PROVE  /\ Put(c) => Extends(Course(c)', Course(c), sent)
           /\ Announce /\ c = at => Extends(Course(c)', Course(c), Dropped)
<1>1. ASSUME Put(c) PROVE Extends(Course(c)', Course(c), sent)
  <2>1. sent \in Item /\ Enqueue(c, sent) /\ UNCHANGED got
    BY <1>1 DEF Put, Item, TypeOK
  <2> QED
    BY <2>1, EnqueueExtends
<1>2. ASSUME Announce, c = at PROVE Extends(Course(c)', Course(c), Dropped)
  <2>1. Dropped \in Item /\ UNCHANGED got /\ Enqueue(c, Dropped)
    BY <1>2, BusAssumption DEF Announce, Notice, Enqueue, Item, Dropped, RoomForNotice
  <2> QED
    BY <2>1, EnqueueExtends
<1> QED
  BY <1>1, <1>2

LEMMA StepGaps ==
    ASSUME IInv, GapsAreAnnounced, [Next]_vars, TypeOK',
           NEW c \in Client, stream'[c] = "open",
           NEW n \in since'[c] + 1 .. sent'
    PROVE  \/ Accounts(Course(c)', n)
           \/ n = sent' /\ c \in todo'
           \/ at' = c /\ c \in todo' /\ stage' = "announce"
<1> DEFINE l == Course(c)'
           r == Course(c)
<1>1. /\ TypeOK /\ Serving /\ RoomForNotice
      /\ sent \in Nat /\ sent' \in Nat /\ since'[c] \in Nat /\ n \in Nat /\ n > 0
  <2>1. TypeOK /\ Serving /\ RoomForNotice
    BY DEF IInv
  <2>2. sent \in Nat /\ sent' \in Nat /\ since'[c] \in Nat
    BY <2>1, BusAssumption DEF TypeOK
  <2> QED
    BY <2>1, <2>2
<1>2. DOMAIN l = 1..Len(l) /\ DOMAIN r = 1..Len(r)
  <2>1. got'[c] \in Seq(Item) /\ queue'[c] \in Seq(Item)
    BY DEF TypeOK
  <2>2. got'[c] \o queue'[c] \in Seq(Item)
    BY <2>1, ConcatProperties
  <2>3. DOMAIN l = 1..Len(l)
    BY <2>2, LenProperties DEF Course
  <2> QED
    BY <2>3, <1>1, CourseTypes
<1>3. CASE Put(c) \/ (Announce /\ c = at)
  <2>1. c \in Subscriber /\ n \in since[c] + 1 .. sent
        /\ (~Accounts(r, n) => (n = sent \/ Announce))
    BY <1>1, <1>3 DEF Put, Announce, GapsAreAnnounced, Subscriber, Underway
  <2>2. Put(c) => Extends(l, r, sent)
    BY <1>1, ServedExtends
  <2>3. Announce /\ c = at => Extends(l, r, Dropped)
    BY <1>1, ServedExtends
  <2> HIDE DEF l, r
  <2>4. Accounts(l, n)
    <3>1. CASE Announce /\ c = at
      BY <3>1, <2>3, <1>1, <1>2, ExtendsAccounts DEF Dropped
    <3>2. CASE Put(c) /\ ~Announce
      <4>1. n = sent \/ (sent > n /\ Accounts(r, n))
        BY <2>1, <3>2, <1>1
      <4>2. /\ n \in Nat /\ sent \in Nat /\ Extends(l, r, sent)
            /\ DOMAIN l = 1..Len(l) /\ DOMAIN r = 1..Len(r)
        BY <3>2, <2>2, <1>1, <1>2
      <4>3. CASE n = sent
        BY <4>2, <4>3, ExtendsAccounts
      <4>4. CASE sent > n /\ Accounts(r, n)
        BY <4>2, <4>4, ExtendsAccounts
      <4> QED
        BY <4>1, <4>3, <4>4
    <3>3. ~(Put(c) /\ Announce)
      BY DEF Put, Announce
    <3> QED
      BY <1>3, <3>1, <3>2, <3>3
  <2> QED
    BY <2>4 DEF l
<1>4. CASE Evict /\ c = at
  BY <1>1, <1>4 DEF Evict, Serving
<1>5. CASE ~Put(c) /\ ~(Announce /\ c = at) /\ ~(Evict /\ c = at)
  <2>1. l = r
    BY <1>1, <1>5, CourseMoves
  <2>2. CASE c \notin Subscriber
    <3>1. Subscribe(c)
      BY <1>1, <2>2 DEF Next, BroadcastStep, Quiet, vars, Subscriber, Receive,
           Unsubscribe, Broadcast, Put, PutFull, Evict, Announce, Subscribe, TypeOK
    <3> QED
      BY <1>1, <3>1 DEF Subscribe, bus, TypeOK
  <2>3. CASE c \in Subscriber /\ Broadcast
    <3>1. c \in todo' /\ todo = {} /\ since' = since /\ sent' = sent + 1
      BY <2>3 DEF Broadcast, LockFree
    <3>2. n = sent' \/ Accounts(r, n)
      <4>1. since[c] \in Nat
        BY <1>1 DEF TypeOK
      <4>2. n = sent' \/ n \in since[c] + 1 .. sent
        BY <1>1, <3>1, <4>1
      <4> QED
        BY <2>3, <3>1, <4>2 DEF GapsAreAnnounced, Underway
    <3> QED
      BY <2>1, <3>1, <3>2
  <2>4. CASE c \in Subscriber /\ ~Broadcast
    <3>1. /\ sent' = sent /\ since'[c] = since[c]
          /\ c \in todo => c \in todo'
          /\ at = c /\ c \in todo /\ stage = "announce" => at' = c /\ stage' = "announce"
      BY <1>1, <1>5, <2>4 DEF Next, BroadcastStep, Quiet, vars, bus, Subscriber,
           Subscribe, Receive, Unsubscribe, Put, PutFull, Evict, Announce,
           Served, LockFree, TypeOK
    <3>2. \/ Accounts(r, n)
          \/ n = sent /\ c \in todo
          \/ at = c /\ c \in todo /\ stage = "announce"
      BY <2>4, <3>1 DEF GapsAreAnnounced, Underway
    <3> QED
      BY <2>1, <3>1, <3>2
  <2> QED
    BY <2>2, <2>3, <2>4
<1> QED
  BY <1>3, <1>4, <1>5

(* A client that missed an event finds a notice behind everything up to    *)
(* it, however the client reads while the overflow is handled.             *)
THEOREM SpecGapsAreAnnounced == Spec => []GapsAreAnnounced
<1>1. Init => GapsAreAnnounced
  BY DEF Init, GapsAreAnnounced, Subscriber
<1>2. IInv /\ GapsAreAnnounced /\ [Next]_vars => GapsAreAnnounced'
  <2> SUFFICES ASSUME IInv, GapsAreAnnounced, [Next]_vars PROVE GapsAreAnnounced'
    OBVIOUS
  <2>1. TypeOK'
    BY StepTypes DEF IInv
  <2> QED
    BY <2>1, StepGaps DEF GapsAreAnnounced, Subscriber, Underway
<1> QED
  BY <1>1, <1>2, AlwaysIInv, PTL DEF Spec

===============================================================================
