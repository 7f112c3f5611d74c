---------------------------- MODULE NtyCoProofs ----------------------------
(***************************************************************************)
(* Proofs about NtyCo, for any number of coroutines and descriptors, any   *)
(* sleep times and any length of run, of programs that yield after a       *)
(* positive sleep and share no descriptor.                                 *)
(***************************************************************************)
EXTENDS NtyCo, SequenceTheorems, FiniteSetTheorems, WellFoundedInduction, TLAPS

-----------------------------------------------------------------------------
(* Keys of the sleep tree *)

\* A non-empty set of naturals has a least element.
LEMMA LeastNat ==
    ASSUME NEW T, T \subseteq Nat, T # {}
    PROVE  \E x \in T : \A y \in T : x <= y
<1> DEFINE R == OpToRel(<, Nat)
<1>1. IsWellFoundedOn(R, Nat)
  BY NatLessThanWellFounded
<1>2. \E x \in T : \A y \in T : ~ (<<y, x>> \in R)
  <2> HIDE DEF R
  <2> QED BY <1>1, WFMin
<1>3. \A x, y \in Nat : <<y, x>> \in R <=> y < x
  BY DEF OpToRel
<1> HIDE DEF R
<1>4. \A x, y \in Nat : ~ (y < x) => x <= y
  OBVIOUS
<1> QED BY <1>2, <1>3, <1>4

\* RB_INSERT is tried with one key after the other until it succeeds: a key that
\* nobody in S has, not before k.
LEMMA FreeKeyIsFree ==
    ASSUME NEW S \in SUBSET Co, NEW k \in Nat, sleep_usecs \in [Co -> Nat],
           IsFiniteSet(Co)
    PROVE  /\ FreeKey(k, S) \in Nat /\ FreeKey(k, S) >= k
           /\ \A d \in S : sleep_usecs[d] # FreeKey(k, S)
<1> DEFINE taken == {sleep_usecs[d] : d \in S}
           n == Cardinality(S)
           free == {j \in k .. k + n : j \notin taken}
<1>1. IsFiniteSet(S) /\ n \in Nat
  BY FS_Subset, FS_CardinalityType
<1>2. IsFiniteSet(taken) /\ Cardinality(taken) <= n
  <2> DEFINE g == [d \in S |-> sleep_usecs[d]]
  <2>1. g \in Surjection(S, taken)
    BY DEF Surjection
  <2> QED BY <2>1, <1>1, FS_Surjection
<1>3. free # {}
  <2> SUFFICES ASSUME free = {} PROVE FALSE
    OBVIOUS
  <2>1. k .. k + n \in SUBSET taken
    OBVIOUS
  <2>2. Cardinality(k .. k + n) = n + 1
    BY <1>1, FS_Interval
  <2>3. Cardinality(k .. k + n) <= Cardinality(taken)
    BY <2>1, <1>2, FS_Subset
  <2>4. Cardinality(taken) \in Nat
    BY <1>2, FS_CardinalityType
  <2> HIDE DEF taken, n
  <2> QED BY <2>2, <2>3, <2>4, <1>1, <1>2
<1>4. PICK j \in free : \A i \in free : j <= i
  <2>1. free \subseteq Nat
    BY <1>1
  <2> HIDE DEF free
  <2> QED BY <2>1, <1>3, LeastNat
<1>5. \A i \in k .. j - 1 : i \in taken
  BY <1>4, <1>1
<1>6. \E i \in k .. k + n : i \notin taken /\ \A h \in k .. i - 1 : h \in taken
  BY <1>4, <1>5
<1>7. /\ FreeKey(k, S) \in k .. k + n /\ FreeKey(k, S) \notin taken
  BY <1>6 DEF FreeKey
<1> QED BY <1>7, <1>1
-----------------------------------------------------------------------------
(* The ready queue *)

\* TAILQ_INSERT_TAIL adds one coroutine.
LEMMA AppendReady ==
    ASSUME NEW c \in Co, ready \in Seq(Co), ready' = Append(ready, c)
    PROVE  /\ ready' \in Seq(Co)
           /\ InReady' = InReady \cup {c}
           /\ ReadyOnce /\ c \notin InReady => ReadyOnce'
<1>1. /\ ready' \in Seq(Co) /\ DOMAIN ready' = 1 .. Len(ready) + 1
      /\ DOMAIN ready = 1 .. Len(ready) /\ Len(ready) \in Nat
      /\ \A i \in 1 .. Len(ready) : ready'[i] = ready[i]
      /\ ready'[Len(ready) + 1] = c
  OBVIOUS
<1>2. InReady' = InReady \cup {c}
  BY <1>1 DEF InReady
<1>3. ReadyOnce /\ c \notin InReady => ReadyOnce'
  BY <1>1 DEF ReadyOnce, InReady
<1> QED BY <1>1, <1>2, <1>3

\* TAILQ_REMOVE of the first takes out one coroutine.
LEMMA TailReady ==
    ASSUME ready \in Seq(Co), ready # <<>>, ready' = Tail(ready), ReadyOnce
    PROVE  /\ ready' \in Seq(Co)
           /\ Head(ready) \in InReady
           /\ InReady' = InReady \ {Head(ready)}
           /\ ReadyOnce'
<1>1. /\ ready' \in Seq(Co) /\ DOMAIN ready' = 1 .. Len(ready) - 1
      /\ DOMAIN ready = 1 .. Len(ready) /\ Len(ready) \in Nat \ {0}
      /\ \A i \in 1 .. Len(ready) - 1 : ready'[i] = ready[i + 1]
      /\ Head(ready) = ready[1]
  OBVIOUS
<1>2. Head(ready) \in InReady
  BY <1>1 DEF InReady
<1>3. InReady' = InReady \ {Head(ready)}
  <2>1. ASSUME NEW x \in InReady' PROVE x \in InReady \ {Head(ready)}
    BY <1>1 DEF InReady, ReadyOnce
  <2>2. ASSUME NEW x \in InReady \ {Head(ready)} PROVE x \in InReady'
    <3>1. PICK i \in 1 .. Len(ready) : x = ready[i] /\ i # 1
      BY <1>1 DEF InReady
    <3>2. i - 1 \in 1 .. Len(ready) - 1 /\ ready'[i - 1] = x
      BY <1>1, <3>1
    <3> QED BY <1>1, <3>2 DEF InReady
  <2> QED BY <2>1, <2>2
<1>4. ReadyOnce'
  <2> SUFFICES ASSUME NEW i \in DOMAIN ready', NEW j \in DOMAIN ready',
                      ready'[i] = ready'[j]
               PROVE  i = j
    BY DEF ReadyOnce
  <2>1. ready[i + 1] = ready[j + 1] /\ i + 1 \in DOMAIN ready /\ j + 1 \in DOMAIN ready
    BY <1>1
  <2>2. i + 1 = j + 1
    BY <2>1 DEF ReadyOnce
  <2> QED BY <1>1, <2>2
<1> QED BY <1>1, <1>2, <1>3, <1>4
-----------------------------------------------------------------------------
(* The invariant is preserved *)

LEMMA InitSchedulerInv == Init => SchedulerInv
<1> SUFFICES ASSUME Init PROVE SchedulerInv
  OBVIOUS
<1> USE NtyCoAssumption DEF Init
<1>1. Cardinality(live) = 0 /\ Cardinality(Co) \in Nat
  BY FS_EmptySet, FS_CardinalityType
<1>2. TypeOK
  BY <1>1 DEF TypeOK, Places, Events
<1>3. InReady = {}
  BY DEF InReady
<1>4. NoAbort /\ ReadyOnce /\ WaitingPolled /\ OnePlace /\ InControl
  BY <1>3 DEF NoAbort, ReadyOnce, WaitingPolled, OnePlace, InControl
<1>5. EventsAwaited /\ StatusClear /\ Keys
  BY DEF EventsAwaited, StatusClear, Keys
<1> QED BY <1>1, <1>2, <1>4, <1>5 DEF SchedulerInv

\* A step that moves control within the scheduler or lets time pass.
LEMMA QuietStep ==
    ASSUME SchedulerInv,
           UNCHANGED <<queues, fields, curr_thread, ret, eventlist, event>>,
           pc' \in Places \ {"abort"}, pc' = "co" <=> pc = "co",
           pc' = "stopped" => live = {},
           last_co_ready' \in Co \cup {None}, until' \in Nat,
           now' \in Nat, now <= now'
    PROVE  SchedulerInv'
<1> USE DEF SchedulerInv, queues, fields
<1>1. TypeOK'
  BY DEF TypeOK
<1>2. NoAbort' /\ ReadyOnce' /\ WaitingPolled' /\ OnePlace' /\ InControl'
  BY DEF NoAbort, ReadyOnce, WaitingPolled, OnePlace, InControl, InReady
<1>3. EventsAwaited' /\ StatusClear'
  BY DEF EventsAwaited, StatusClear
<1>4. Keys'
  BY DEF Keys, TypeOK
<1> QED BY <1>1, <1>2, <1>3, <1>4

\* RB_MIN
LEMMA EarliestIsFirst ==
    ASSUME NEW S \in SUBSET Co, S # {}, sleep_usecs \in [Co -> Nat]
    PROVE  Earliest(S) \in S /\ \A d \in S : sleep_usecs[Earliest(S)] <= sleep_usecs[d]
<1> DEFINE K == {sleep_usecs[c] : c \in S}
<1>1. K \subseteq Nat /\ K # {}
  OBVIOUS
<1>2. PICK k \in K : \A j \in K : k <= j
  <2> HIDE DEF K
  <2> QED BY <1>1, LeastNat
<1>3. \E c \in S : \A d \in S : sleep_usecs[c] <= sleep_usecs[d]
  BY <1>2
<1> QED BY <1>3 DEF Earliest

\* What nty_schedule_epoll waits for is a whole number of milliseconds, and never
\* longer than what is left until the first sleeper is due.
LEMMA EpollInTime ==
    ASSUME NEW u \in Nat
    PROVE  EpollMs(u) \in Nat /\ EpollMs(u) * UsecPerMs <= u
<1> DEFINE U == UsecPerMs
           M == MsPerSec
           q == u \div (U * M)
           p == u \div U
<1>1. U \in Nat \ {0} /\ M \in Nat \ {0} /\ U * M \in Nat \ {0}
  BY NtyCoAssumption
<1>2. /\ q \in Int /\ u % (U * M) \in 0 .. (U * M) - 1
      /\ u = (U * M) * q + (u % (U * M))
  BY <1>1, u \in Int
<1>3. p \in Int /\ u % U \in 0 .. U - 1 /\ u = U * p + (u % U)
  BY <1>1, u \in Int
<1> HIDE DEF U, M, q, p
<1>4. q >= 0 /\ (U * M) * q <= u
  <2>1. SUFFICES ASSUME q <= -1 PROVE FALSE
    BY <1>1, <1>2
  <2>2. (U * M) * q <= (U * M) * (-1)
    BY <1>1, <1>2, <2>1
  <2> QED BY <1>1, <1>2, <2>2
<1>5. p >= 0 /\ U * p <= u
  <2>1. SUFFICES ASSUME p <= -1 PROVE FALSE
    BY <1>1, <1>3
  <2>2. U * p <= U * (-1)
    BY <1>1, <1>3, <2>1
  <2> QED BY <1>1, <1>3, <2>2
<1>6. (q * M) * U = (U * M) * q /\ q * M \in Nat
  BY <1>1, <1>2, <1>4
<1>7. EpollMs(u) = IF q # 0 THEN q * M ELSE p
  BY DEF EpollMs, q, p, U, M
<1>8. EpollMs(u) \in Nat /\ EpollMs(u) * U <= u
  BY <1>1, <1>3, <1>4, <1>5, <1>6, <1>7
<1> QED BY <1>8 DEF U

LEMMA MinTimeoutType == ASSUME TypeOK PROVE min_timeout \in Nat
<1>1. CASE sleeping = {}
  BY <1>1, NtyCoAssumption DEF min_timeout
<1>2. CASE sleeping # {}
  <2>1. sleep_usecs[Earliest(sleeping)] \in Nat
    BY <1>2, EarliestIsFirst DEF TypeOK
  <2> QED BY <1>2, <2>1 DEF min_timeout, TypeOK
<1> QED BY <1>1, <1>2

\* The steps of the scheduler that resume nobody.
LEMMA ControlStep ==
    ASSUME SchedulerInv,
           Loop \/ NoneExpired \/ ReadyEmpty \/ EpollSkip \/ EpollWait
             \/ EpollTimeout \/ EventsDone \/ Run \/ Tick
    PROVE  SchedulerInv'
<1> USE DEF Places, kernel
<1>0. /\ now \in Nat /\ until \in Nat /\ last_co_ready \in Co \cup {None}
      /\ pc \in Places \ {"abort"} /\ (pc = "stopped" => live = {})
  BY DEF SchedulerInv, TypeOK, NoAbort
<1>1. CASE Loop
  <2>1. ASSUME isdone PROVE live = {}
    <3>1. InReady = {} /\ sleeping = {} /\ InWaiting = {}
      BY <2>1 DEF isdone, InReady
    <3>2. curr_thread = None
      BY <1>1 DEF Loop, SchedulerInv, InControl
    <3>3. \A c \in Co : polled[c] = None
      <4> SUFFICES ASSUME NEW c \in Co, polled[c] # None PROVE FALSE
        OBVIOUS
      <4>1. polled[c] \in Fd /\ waiting[polled[c]] = c /\ c # None
        BY NtyCoAssumption DEF SchedulerInv, WaitingPolled, TypeOK
      <4> QED BY <3>1, <4>1 DEF InWaiting
    <3> QED BY <3>1, <3>2, <3>3, NtyCoAssumption DEF SchedulerInv, OnePlace, TypeOK
  <2> QED BY <1>0, <1>1, <2>1, QuietStep DEF Loop
<1>2. CASE NoneExpired
  <2>1. last_co_ready' \in Co \cup {None}
    BY <1>2 DEF NoneExpired, SchedulerInv, TypeOK
  <2> QED BY <1>0, <1>2, <2>1, QuietStep DEF NoneExpired
<1>3. CASE ReadyEmpty
  BY <1>0, <1>3, QuietStep DEF ReadyEmpty
<1>4. CASE EpollSkip
  BY <1>0, <1>4, QuietStep DEF EpollSkip
<1>5. CASE EpollWait
  <2>1. EpollMs(min_timeout) \in Nat
    BY MinTimeoutType, EpollInTime DEF SchedulerInv
  <2>2. until' \in Nat
    BY <1>0, <1>5, <2>1, NtyCoAssumption DEF EpollWait
  <2> QED BY <1>0, <1>5, <2>2, QuietStep DEF EpollWait
<1>6. CASE EpollTimeout
  BY <1>0, <1>6, QuietStep DEF EpollTimeout
<1>7. CASE EventsDone
  BY <1>0, <1>7, QuietStep DEF EventsDone
<1>8. CASE Run
  BY <1>0, <1>8, QuietStep DEF Run
<1>9. CASE Tick
  BY <1>0, <1>9, QuietStep DEF Tick, control
<1> QED BY <1>1, <1>2, <1>3, <1>4, <1>5, <1>6, <1>7, <1>8, <1>9

\* No coroutine has the address NULL.
LEMMA LiveIsSomebody == ASSUME TypeOK PROVE \A d \in live : d # None
BY NtyCoAssumption DEF TypeOK

\* The coroutine of an event that is left is inside nty_poll_inner.
LEMMA WaitersAreElsewhere ==
    ASSUME SchedulerInv, NEW c, polled[c] = None
    PROVE  \A i \in DOMAIN eventlist : waiting[eventlist[i]] # c
<1> SUFFICES ASSUME NEW i \in DOMAIN eventlist PROVE waiting[eventlist[i]] # c
  OBVIOUS
<1>1. eventlist[i] \in Fd /\ eventlist[i] # None
  BY NtyCoAssumption DEF SchedulerInv, TypeOK
<1>2. polled[waiting[eventlist[i]]] = eventlist[i]
  BY <1>1 DEF SchedulerInv, EventsAwaited, WaitingPolled
<1> QED BY <1>1, <1>2

\* nty_schedule_expired and the resume that follows.
LEMMA ResumeExpiredStep == ASSUME SchedulerInv, ResumeExpired PROVE SchedulerInv'
<1> DEFINE c == Earliest(Due)
<1>1. c \in sleeping /\ sleep_usecs[c] <= now
  <2>1. Due \in SUBSET Co /\ Due # {} /\ sleep_usecs \in [Co -> Nat]
    BY DEF Due, ResumeExpired, SchedulerInv, TypeOK
  <2> QED BY <2>1, EarliestIsFirst DEF Due
<1>2. /\ c \in Co /\ c \in live /\ polled[c] = None /\ c \notin InReady /\ c # None
      /\ curr_thread = None
  BY <1>1, NtyCoAssumption DEF SchedulerInv, TypeOK, OnePlace, InControl, ResumeExpired
<1>3. /\ sleeping' = sleeping \ {c} /\ curr_thread' = c /\ pc' = "co"
      /\ ret' = "expired"
      /\ status' = [status EXCEPT ![c] = IF "NEW" \in status[c] THEN {} ELSE status[c]]
      /\ UNCHANGED <<ready, waiting, spawned_coroutines, live, sleep_usecs, ops,
                     polled, last_co_ready, eventlist, until, now, event>>
  BY DEF ResumeExpired, Resume, kernel
<1> HIDE DEF c
<1>4. TypeOK'
  BY <1>2, <1>3 DEF SchedulerInv, TypeOK, Places
<1>5. NoAbort' /\ ReadyOnce' /\ WaitingPolled' /\ InControl'
  BY <1>2, <1>3 DEF SchedulerInv, NoAbort, ReadyOnce, WaitingPolled, InControl
<1>6. OnePlace'
  BY <1>2, <1>3, LiveIsSomebody DEF SchedulerInv, OnePlace, InReady
<1>7. EventsAwaited'
  BY <1>2, <1>3, WaitersAreElsewhere DEF SchedulerInv, EventsAwaited
<1>8. StatusClear'
  BY <1>2, <1>3 DEF SchedulerInv, StatusClear, TypeOK
<1>9. Keys'
  BY <1>1, <1>3 DEF SchedulerInv, Keys
<1> QED BY <1>3, <1>4, <1>5, <1>6, <1>7, <1>8, <1>9 DEF SchedulerInv

\* The first coroutine of the ready queue is resumed; it is never freed there, as
\* the bit FDEOF is gone by the time a coroutine is in the ready queue.
LEMMA RunReadyStep == ASSUME SchedulerInv, RunReady PROVE SchedulerInv'
<1> DEFINE c == Head(ready)
<1>1. /\ c \in InReady /\ ready' \in Seq(Co) /\ InReady' = InReady \ {c} /\ ReadyOnce'
  BY TailReady DEF SchedulerInv, TypeOK, RunReady
<1>2. /\ c \in Co /\ c \in live /\ polled[c] = None /\ c \notin sleeping /\ c # None
      /\ curr_thread = None
  BY <1>1, NtyCoAssumption DEF SchedulerInv, TypeOK, OnePlace, InControl, RunReady
<1>3. "FDEOF" \notin status[c]
  BY <1>2 DEF SchedulerInv, StatusClear
<1>4. /\ curr_thread' = c /\ pc' = "co" /\ ret' = "ready"
      /\ status' = [status EXCEPT ![c] = IF "NEW" \in status[c] THEN {} ELSE status[c]]
      /\ UNCHANGED <<waiting, sleeping, spawned_coroutines, live, sleep_usecs, ops,
                     polled, last_co_ready, eventlist, until, now, event>>
  BY <1>3 DEF RunReady, Resume, kernel
<1> HIDE DEF c
<1>5. TypeOK'
  BY <1>1, <1>2, <1>4 DEF SchedulerInv, TypeOK, Places
<1>6. NoAbort' /\ WaitingPolled' /\ InControl'
  BY <1>2, <1>4 DEF SchedulerInv, NoAbort, WaitingPolled, InControl
<1>7. OnePlace'
  BY <1>1, <1>2, <1>4, LiveIsSomebody DEF SchedulerInv, OnePlace
<1>8. EventsAwaited'
  BY <1>2, <1>4, WaitersAreElsewhere DEF SchedulerInv, EventsAwaited
<1>9. StatusClear'
  BY <1>2, <1>4 DEF SchedulerInv, StatusClear, TypeOK
<1>10. Keys'
  BY <1>4 DEF SchedulerInv, Keys
<1> QED BY <1>1, <1>4, <1>5, <1>6, <1>7, <1>8, <1>9, <1>10 DEF SchedulerInv

\* epoll_wait reports descriptors of coroutines that wait.
LEMMA EpollEventsStep == ASSUME SchedulerInv, EpollEvents PROVE SchedulerInv'
<1>1. /\ curr_thread = None /\ pc' = "events" /\ until' = 0
      /\ UNCHANGED <<queues, fields, curr_thread, ret, last_co_ready, kernel>>
  BY DEF EpollEvents, SchedulerInv, InControl
<1>2. /\ eventlist' \in [1 .. Cardinality(Reported) -> Reported]
      /\ \A i, j \in DOMAIN eventlist' : eventlist'[i] = eventlist'[j] => i = j
  BY DEF EpollEvents
<1>3. Cardinality(Reported) \in Nat /\ Reported \subseteq Fd
  BY FS_Subset, FS_CardinalityType, NtyCoAssumption DEF Reported
<1>4. eventlist' \in Seq(Fd)
  BY <1>2, <1>3
<1>5. TypeOK'
  BY <1>1, <1>4 DEF SchedulerInv, TypeOK, Places, queues, fields, kernel
<1>6. NoAbort' /\ ReadyOnce' /\ WaitingPolled' /\ InControl' /\ OnePlace'
  BY <1>1 DEF SchedulerInv, NoAbort, ReadyOnce, WaitingPolled, InControl, OnePlace,
              InReady, queues, fields, kernel
<1>7. EventsAwaited'
  <2>1. \A i \in DOMAIN eventlist' : waiting[eventlist'[i]] # None
    BY <1>2, <1>3 DEF Reported, SchedulerInv, EventsAwaited
  <2> QED BY <1>1, <1>2, <2>1 DEF SchedulerInv, EventsAwaited, queues, kernel
<1>8. StatusClear' /\ Keys'
  BY <1>1 DEF SchedulerInv, StatusClear, Keys, queues, fields, kernel
<1> QED BY <1>1, <1>5, <1>6, <1>7, <1>8 DEF SchedulerInv, queues

\* nty_schedule_search_wait finds the coroutine of the event, which is resumed.
LEMMA DispatchStep == ASSUME SchedulerInv, Dispatch PROVE SchedulerInv'
<1> DEFINE n == Len(eventlist)
           f == eventlist[n]
           c == waiting[f]
<1>1. /\ eventlist \in Seq(Fd) /\ n \in Nat \ {0} /\ f \in Fd /\ n \in DOMAIN eventlist
      /\ curr_thread = None
  BY DEF Dispatch, SchedulerInv, TypeOK, InControl
<1>2. c \in Co /\ c # None /\ polled[c] = f /\ c \in live
  BY <1>1, NtyCoAssumption
     DEF SchedulerInv, TypeOK, EventsAwaited, WaitingPolled, OnePlace
<1>3. /\ eventlist' = SubSeq(eventlist, 1, n - 1)
      /\ curr_thread' = c /\ pc' = "co" /\ ret' = "events"
      /\ status' = [status EXCEPT ![c] = IF event[f] = "hup" THEN {"FDEOF"} ELSE {}]
      /\ UNCHANGED <<queues, sleep_usecs, ops, polled, last_co_ready, until, now, event>>
  BY <1>2 DEF Dispatch, Resume, kernel
<1>4. /\ eventlist' \in Seq(Fd) /\ DOMAIN eventlist' = 1 .. n - 1
      /\ DOMAIN eventlist = 1 .. n
      /\ \A i \in 1 .. n - 1 : eventlist'[i] = eventlist[i]
  BY <1>1, <1>3
<1> HIDE DEF n, c
<1>5. TypeOK'
  BY <1>2, <1>3, <1>4 DEF SchedulerInv, TypeOK, Places, Bits, queues
<1>6. NoAbort' /\ ReadyOnce' /\ WaitingPolled' /\ InControl'
  BY <1>2, <1>3 DEF SchedulerInv, NoAbort, ReadyOnce, WaitingPolled, InControl, queues
<1>7. OnePlace'
  <2>1. polled[c] # None
    BY <1>1, <1>2, NtyCoAssumption
  <2> QED BY <1>1, <1>2, <1>3, <2>1, LiveIsSomebody
         DEF SchedulerInv, OnePlace, InReady, queues
<1>8. EventsAwaited'
  <2>1. \A i \in 1 .. n - 1 : eventlist[i] \in Fd /\ eventlist[i] # f
    BY <1>1, <1>4 DEF SchedulerInv, EventsAwaited
  <2>2. \A i \in 1 .. n - 1 : waiting[eventlist[i]] # c
    BY <1>1, <1>2, <1>4, <2>1 DEF SchedulerInv, EventsAwaited, WaitingPolled
  <2>3. waiting' = waiting /\ event' = event
    BY <1>3 DEF queues
  <2> QED BY <1>1, <1>3, <1>4, <2>2, <2>3 DEF SchedulerInv, EventsAwaited
<1>9. StatusClear'
  <2>1. polled[c] # None
    BY <1>1, <1>2, NtyCoAssumption
  <2> QED BY <1>2, <1>3, <2>1 DEF SchedulerInv, StatusClear, TypeOK
<1>10. Keys'
  BY <1>3 DEF SchedulerInv, Keys, queues
<1> QED BY <1>3, <1>5, <1>6, <1>7, <1>8, <1>9, <1>10 DEF SchedulerInv, queues
-----------------------------------------------------------------------------
(* The steps of coroutines and of the kernel *)

\* spawned_coroutines is in range when it is the number of live coroutines.
LEMMA CountInRange ==
    ASSUME NEW S \in SUBSET Co
    PROVE  IsFiniteSet(S) /\ Cardinality(S) \in 0 .. Cardinality(Co)
BY FS_Subset, FS_CardinalityType, NtyCoAssumption

\* The coroutine that calls into the runtime is nowhere else.
LEMMA Actor ==
    ASSUME SchedulerInv, YieldAfterSleep \/ sleeping = {}, NEW c \in Co, Acts(c)
    PROVE  /\ c \in live /\ c \notin sleeping /\ polled[c] = None /\ c \notin InReady
           /\ c # None /\ curr_thread = c /\ pc = "co"
BY NtyCoAssumption DEF Acts, Running, SchedulerInv, OnePlace, InControl

\* The scheduler goes on in its loop.
LEMMA BackPlace ==
    ASSUME SchedulerInv, NEW c
    PROVE  Back(c) \in {"expired", "ready", "events", "epoll"}
BY DEF Back, SchedulerInv, TypeOK

\* nty_coroutine_create
LEMMA CreateStep ==
    ASSUME SchedulerInv, NEW n \in Co, Create(n)
    PROVE  SchedulerInv'
<1>1. /\ n \notin live /\ live' = live \cup {n}
      /\ spawned_coroutines' = spawned_coroutines + 1
      /\ ready' = Append(ready, n) /\ status' = [status EXCEPT ![n] = {"NEW"}]
      /\ UNCHANGED <<waiting, sleeping, sleep_usecs, ops, polled, curr_thread, pc, ret,
                     last_co_ready, eventlist, until, now, event>>
  BY DEF Create, control, kernel
<1>2. /\ n \notin InReady /\ n \notin sleeping /\ polled[n] = None /\ n # curr_thread
      /\ pc # "stopped"
  <2>1. n # None
    BY NtyCoAssumption
  <2> QED BY <1>1, <2>1 DEF SchedulerInv, OnePlace, Create, Acts, Running
<1>3. ready' \in Seq(Co) /\ InReady' = InReady \cup {n} /\ ReadyOnce'
  BY <1>1, <1>2, AppendReady DEF SchedulerInv, TypeOK
<1>4. spawned_coroutines' = Cardinality(live') /\ spawned_coroutines' \in 0 .. Cardinality(Co)
  <2>1. live \in SUBSET Co /\ live' \in SUBSET Co
    BY <1>1 DEF SchedulerInv, TypeOK
  <2>2. Cardinality(live') = Cardinality(live) + 1
    BY <1>1, <2>1, CountInRange, FS_AddElement
  <2> QED BY <1>1, <2>1, <2>2, CountInRange DEF SchedulerInv
<1>5. TypeOK'
  BY <1>1, <1>3, <1>4 DEF SchedulerInv, TypeOK, Bits
<1>6. NoAbort' /\ WaitingPolled' /\ InControl'
  BY <1>1 DEF SchedulerInv, NoAbort, WaitingPolled, InControl
<1>7. OnePlace'
  BY <1>1, <1>2, <1>3 DEF SchedulerInv, OnePlace
<1>8. EventsAwaited'
  BY <1>1 DEF SchedulerInv, EventsAwaited
<1>9. StatusClear' /\ Keys'
  BY <1>1 DEF SchedulerInv, StatusClear, Keys, TypeOK
<1> QED BY <1>1, <1>2, <1>3, <1>4, <1>5, <1>6, <1>7, <1>8, <1>9 DEF SchedulerInv

\* Back in the ready queue: nty_coroutine_sleep(0), and the renice that yields.
LEMMA RequeueStep ==
    ASSUME SchedulerInv, YieldAfterSleep, NEW c \in Co, Acts(c),
           ready' = Append(ready, c), Switch(c),
           UNCHANGED <<waiting, sleeping, spawned_coroutines, live, status,
                       sleep_usecs, polled, kernel>>
    PROVE  SchedulerInv'
<1>1. /\ c \in live /\ c \notin sleeping /\ polled[c] = None /\ c \notin InReady
      /\ c # None /\ curr_thread = c
  BY Actor
<1>2. ready' \in Seq(Co) /\ InReady' = InReady \cup {c} /\ ReadyOnce'
  BY <1>1, AppendReady DEF SchedulerInv, TypeOK
<1>3. /\ curr_thread' = None /\ pc' \in {"expired", "ready", "events", "epoll"}
      /\ ops' = [ops EXCEPT ![c] = 0]
      /\ UNCHANGED <<ret, last_co_ready, eventlist, until, now, event>>
  BY BackPlace DEF Switch, kernel
<1>4. TypeOK'
  BY <1>2, <1>3 DEF SchedulerInv, TypeOK, Places
<1>5. NoAbort' /\ WaitingPolled' /\ InControl'
  BY <1>3 DEF SchedulerInv, NoAbort, WaitingPolled, InControl
<1>6. OnePlace'
  BY <1>1, <1>2, <1>3, LiveIsSomebody DEF SchedulerInv, OnePlace
<1>7. EventsAwaited'
  BY <1>3 DEF SchedulerInv, EventsAwaited
<1>8. StatusClear' /\ Keys'
  BY <1>3 DEF SchedulerInv, StatusClear, Keys
<1> QED BY <1>2, <1>3, <1>4, <1>5, <1>6, <1>7, <1>8 DEF SchedulerInv

\* nty_coroutine_renice
LEMMA ReniceStep ==
    ASSUME SchedulerInv, YieldAfterSleep, NEW c \in Co, Renice(c)
    PROVE  SchedulerInv'
<1>1. CASE ops[c] + 1 < ReniceOps
  <2>1. /\ ops' = [ops EXCEPT ![c] = @ + 1]
        /\ UNCHANGED <<queues, control, status, sleep_usecs, polled, kernel>>
    BY <1>1 DEF Renice, queues
  <2> USE DEF queues, control, kernel
  <2>2. TypeOK'
    BY <2>1 DEF SchedulerInv, TypeOK
  <2>3. NoAbort' /\ ReadyOnce' /\ WaitingPolled' /\ OnePlace' /\ InControl'
    BY <2>1 DEF SchedulerInv, NoAbort, ReadyOnce, WaitingPolled, OnePlace, InControl,
                InReady
  <2>4. EventsAwaited' /\ StatusClear' /\ Keys'
    BY <2>1 DEF SchedulerInv, EventsAwaited, StatusClear, Keys
  <2> QED BY <2>1, <2>2, <2>3, <2>4 DEF SchedulerInv
<1>2. CASE ~ (ops[c] + 1 < ReniceOps)
  BY <1>2, RequeueStep DEF Renice
<1> QED BY <1>1, <1>2

\* nty_coroutine_sleep of a positive time: the key of the caller, which has passed,
\* is nobody's in the sleep tree, so that nobody is taken out.
LEMMA SleepStep ==
    ASSUME SchedulerInv, YieldAfterSleep, NEW c \in Co, NEW m \in Msecs, Sleep(c, m)
    PROVE  SchedulerInv' /\ sleeping \subseteq sleeping'
<1> DEFINE key == FreeKey(now + m * UsecPerMs, sleeping)
<1>1. /\ c \in live /\ c \notin sleeping /\ polled[c] = None /\ c \notin InReady
      /\ c # None /\ curr_thread = c /\ pc = "co"
  BY Actor DEF Sleep
<1>2. SameKey(c) = {}
  BY <1>1 DEF SameKey, SchedulerInv, Keys
<1>3. now \in Nat /\ now + m * UsecPerMs \in Nat /\ now + m * UsecPerMs > now
  <2>1. m \in Nat \ {0} /\ UsecPerMs \in Nat \ {0} /\ now \in Nat
    BY NtyCoAssumption DEF SchedulerInv, TypeOK
  <2>2. m * UsecPerMs \in Nat \ {0}
    BY <2>1
  <2> QED BY <2>1, <2>2
<1>4. /\ key \in Nat /\ key > now /\ \A d \in sleeping : sleep_usecs[d] # key
  <2>1. sleeping \in SUBSET Co /\ sleep_usecs \in [Co -> Nat] /\ IsFiniteSet(Co)
    BY NtyCoAssumption DEF SchedulerInv, TypeOK
  <2>2. /\ key \in Nat /\ key >= now + m * UsecPerMs
        /\ \A d \in sleeping : sleep_usecs[d] # key
    BY <1>3, <2>1, FreeKeyIsFree
  <2> HIDE DEF key
  <2> QED BY <1>3, <2>2
<1>5. /\ sleeping' = sleeping \cup {c}
      /\ sleep_usecs' = [sleep_usecs EXCEPT ![c] = key]
      /\ status' = [status EXCEPT ![c] = @ \cup {"SLEEPING"}]
      /\ UNCHANGED <<ready, waiting, spawned_coroutines, live, ops, polled, curr_thread,
                     pc, ret, last_co_ready, eventlist, until, now, event>>
  <2>1. sleeping \ SameKey(c) = sleeping
    BY <1>2
  <2> QED BY <2>1 DEF Sleep, sched_sleepdown, control, kernel
<1> HIDE DEF key
<1>6. TypeOK'
  BY <1>4, <1>5 DEF SchedulerInv, TypeOK, Bits
<1>7. NoAbort' /\ ReadyOnce' /\ WaitingPolled' /\ InControl' /\ EventsAwaited'
  BY <1>5 DEF SchedulerInv, NoAbort, ReadyOnce, WaitingPolled, InControl, EventsAwaited
<1>8. OnePlace'
  BY <1>1, <1>5 DEF SchedulerInv, OnePlace, InReady
<1>9. StatusClear'
  BY <1>1, <1>5 DEF SchedulerInv, StatusClear, TypeOK
<1>10. Keys'
  <2>1. \A d \in Co : /\ sleep_usecs[d] \in Nat
                       /\ sleep_usecs'[d] = IF d = c THEN key ELSE sleep_usecs[d]
    BY <1>5 DEF SchedulerInv, TypeOK
  <2>2. \A d \in Co \ sleeping : sleep_usecs[d] <= now /\ sleep_usecs[d] # key
    BY <1>3, <1>4, <2>1 DEF SchedulerInv, Keys
  <2>3. sleeping \subseteq Co
    BY DEF SchedulerInv, TypeOK
  <2> QED BY <1>1, <1>3, <1>4, <1>5, <2>1, <2>2, <2>3 DEF SchedulerInv, Keys
<1> QED BY <1>1, <1>5, <1>6, <1>7, <1>8, <1>9, <1>10 DEF SchedulerInv

\* The yield after nty_coroutine_sleep.
LEMMA YieldStep ==
    ASSUME SchedulerInv, NEW c \in Co, Yield(c)
    PROVE  SchedulerInv'
<1>1. /\ c \in sleeping /\ curr_thread = c
      /\ curr_thread' = None /\ pc' \in {"expired", "ready", "events", "epoll"}
      /\ ops' = [ops EXCEPT ![c] = 0]
      /\ UNCHANGED <<queues, status, sleep_usecs, polled, ret, last_co_ready, eventlist,
                     until, now, event>>
  BY BackPlace DEF Yield, Running, Switch, kernel
<1> USE DEF queues
<1>2. TypeOK'
  BY <1>1 DEF SchedulerInv, TypeOK, Places
<1>3. NoAbort' /\ ReadyOnce' /\ WaitingPolled' /\ InControl'
  BY <1>1 DEF SchedulerInv, NoAbort, ReadyOnce, WaitingPolled, InControl
<1>4. OnePlace'
  BY <1>1, LiveIsSomebody DEF SchedulerInv, OnePlace, InReady
<1>5. EventsAwaited'
  BY <1>1 DEF SchedulerInv, EventsAwaited
<1>6. StatusClear' /\ Keys'
  BY <1>1 DEF SchedulerInv, StatusClear, Keys
<1> QED BY <1>1, <1>2, <1>3, <1>4, <1>5, <1>6 DEF SchedulerInv

\* nty_poll_inner up to its yield: no assertion fails.
LEMMA PollWaitStep ==
    ASSUME SchedulerInv, YieldAfterSleep \/ sleeping = {}, NEW c \in Co, NEW f \in Fd, NEW w \in BOOLEAN,
           waiting[f] = None, PollWait(c, f, w)
    PROVE  SchedulerInv'
<1>1. /\ c \in live /\ c \notin sleeping /\ polled[c] = None /\ c \notin InReady
      /\ c # None /\ curr_thread = c /\ f # None
  BY Actor, NtyCoAssumption DEF PollWait
<1>2. ~ wait_refused(c, f)
  BY <1>1 DEF wait_refused, SchedulerInv, StatusClear
<1>3. /\ waiting' = [waiting EXCEPT ![f] = c]
      /\ status' = [status EXCEPT ![c] = @ \cup IF w THEN {"WAIT_READ"} ELSE {}]
      /\ polled' = [polled EXCEPT ![c] = f]
      /\ curr_thread' = None /\ pc' \in {"expired", "ready", "events", "epoll"}
      /\ ops' = [ops EXCEPT ![c] = 0]
      /\ UNCHANGED <<ready, sleeping, spawned_coroutines, live, sleep_usecs, ret,
                     last_co_ready, eventlist, until, now, event>>
  BY <1>2, BackPlace DEF PollWait, sched_wait, Switch, kernel
<1>4. TypeOK'
  BY <1>3 DEF SchedulerInv, TypeOK, Places, Bits
<1>5. NoAbort' /\ ReadyOnce' /\ InControl'
  BY <1>3 DEF SchedulerInv, NoAbort, ReadyOnce, InControl
<1>6. WaitingPolled'
  <2>1. /\ \A g \in Fd : waiting[g] # c
        /\ \A d \in Co : polled[d] # None => polled[d] \in Fd \ {f}
    BY <1>1, NtyCoAssumption DEF SchedulerInv, WaitingPolled, TypeOK
  <2> QED BY <1>1, <1>3, <2>1 DEF SchedulerInv, WaitingPolled, TypeOK
<1>7. OnePlace'
  BY <1>1, <1>3, LiveIsSomebody, SMTT(30)
     DEF SchedulerInv, OnePlace, InReady, TypeOK
<1>8. EventsAwaited'
  BY <1>1, <1>3, NtyCoAssumption DEF SchedulerInv, EventsAwaited, TypeOK
<1>9. StatusClear'
  BY <1>1, <1>3 DEF SchedulerInv, StatusClear, TypeOK
<1>10. Keys'
  BY <1>3 DEF SchedulerInv, Keys
<1> QED BY <1>3, <1>4, <1>5, <1>6, <1>7, <1>8, <1>9, <1>10 DEF SchedulerInv

\* nty_poll_inner after its yield.
LEMMA PollReturnStep ==
    ASSUME SchedulerInv, NEW c \in Co, PollReturn(c)
    PROVE  SchedulerInv'
<1> DEFINE f == polled[c]
<1>1. /\ f \in Fd /\ f # None /\ waiting[f] = c /\ c \in live /\ c \notin InReady
      /\ c \notin sleeping /\ c # None /\ curr_thread = c /\ pc = "co"
  BY NtyCoAssumption DEF PollReturn, SchedulerInv, TypeOK, WaitingPolled, OnePlace
<1>2. /\ waiting' = [waiting EXCEPT ![f] = None]
      /\ status' = [status EXCEPT ![c] = {}] /\ event' = [event EXCEPT ![f] = "none"]
      /\ polled' = [polled EXCEPT ![c] = None]
      /\ UNCHANGED <<ready, sleeping, spawned_coroutines, live, sleep_usecs, ops,
                     curr_thread, pc, ret, last_co_ready, eventlist, until, now>>
  BY DEF PollReturn, desched_wait, control
<1>3. TypeOK'
  BY <1>2 DEF SchedulerInv, TypeOK, Events
<1>4. NoAbort' /\ ReadyOnce' /\ InControl'
  BY <1>2 DEF SchedulerInv, NoAbort, ReadyOnce, InControl
<1>5. WaitingPolled'
  BY <1>1, <1>2 DEF SchedulerInv, WaitingPolled, TypeOK
<1>6. OnePlace'
  BY <1>1, <1>2 DEF SchedulerInv, OnePlace, InReady, TypeOK
<1>7. EventsAwaited'
  <2>1. \A i \in DOMAIN eventlist : eventlist[i] \in Fd /\ eventlist[i] # f
    BY <1>1 DEF SchedulerInv, EventsAwaited, TypeOK
  <2> QED BY <1>1, <1>2, <2>1 DEF SchedulerInv, EventsAwaited, TypeOK
<1>8. StatusClear'
  BY <1>1, <1>2 DEF SchedulerInv, StatusClear, TypeOK
<1>9. Keys'
  BY <1>2 DEF SchedulerInv, Keys
<1> QED BY <1>1, <1>2, <1>3, <1>4, <1>5, <1>6, <1>7, <1>8, <1>9 DEF SchedulerInv

\* A coroutine's function returns and the coroutine is freed.
LEMMA ExitStep ==
    ASSUME SchedulerInv, YieldAfterSleep \/ sleeping = {}, NEW c \in Co, Exit(c)
    PROVE  SchedulerInv'
<1>1. /\ c \in live /\ c \notin sleeping /\ polled[c] = None /\ c \notin InReady
      /\ c # None /\ curr_thread = c
  BY Actor DEF Exit
<1>2. /\ live' = live \ {c} /\ spawned_coroutines' = spawned_coroutines - 1
      /\ curr_thread' = None /\ pc' \in {"expired", "ready", "events", "epoll"}
      /\ status' = [status EXCEPT ![c] = {}]
      /\ sleep_usecs' = [sleep_usecs EXCEPT ![c] = 0]
      /\ ops' = [ops EXCEPT ![c] = 0]
      /\ UNCHANGED <<ready, waiting, sleeping, polled, ret, last_co_ready, eventlist,
                     until, now, event>>
  BY BackPlace DEF Exit, Free, kernel
<1>3. spawned_coroutines' = Cardinality(live') /\ spawned_coroutines' \in 0 .. Cardinality(Co)
  <2>1. live \in SUBSET Co /\ live' \in SUBSET Co
    BY <1>2 DEF SchedulerInv, TypeOK
  <2>2. Cardinality(live') = Cardinality(live) - 1
    BY <1>1, <1>2, <2>1, CountInRange, FS_RemoveElement
  <2> QED BY <1>2, <2>1, <2>2, CountInRange DEF SchedulerInv
<1>4. TypeOK'
  BY <1>2, <1>3 DEF SchedulerInv, TypeOK, Places
<1>5. NoAbort' /\ ReadyOnce' /\ WaitingPolled' /\ InControl'
  BY <1>2 DEF SchedulerInv, NoAbort, ReadyOnce, WaitingPolled, InControl
<1>6. OnePlace'
  BY <1>1, <1>2, LiveIsSomebody DEF SchedulerInv, OnePlace, InReady
<1>7. EventsAwaited'
  BY <1>2 DEF SchedulerInv, EventsAwaited
<1>8. StatusClear'
  BY <1>2 DEF SchedulerInv, StatusClear, TypeOK
<1>9. Keys'
  <2>1. now \in Nat /\ \A d \in Co : /\ sleep_usecs[d] \in Nat
                                     /\ sleep_usecs'[d] = IF d = c THEN 0 ELSE sleep_usecs[d]
    BY <1>2 DEF SchedulerInv, TypeOK
  <2>2. sleeping \subseteq Co
    BY DEF SchedulerInv, TypeOK
  <2> QED BY <1>1, <1>2, <2>1, <2>2 DEF SchedulerInv, Keys
<1> QED BY <1>2, <1>3, <1>4, <1>5, <1>6, <1>7, <1>8, <1>9 DEF SchedulerInv

\* An event of a descriptor in the epoll set.
LEMMA ArriveStep ==
    ASSUME SchedulerInv, NEW f \in Fd, NEW e \in {"in", "hup"}, Arrive(f, e)
    PROVE  SchedulerInv'
<1>1. /\ waiting[f] # None /\ event' = [event EXCEPT ![f] = e]
      /\ UNCHANGED <<queues, fields, control, now>>
  BY DEF Arrive
<1> USE DEF queues, fields, control
<1>2. TypeOK'
  BY <1>1 DEF SchedulerInv, TypeOK, Events
<1>3. NoAbort' /\ ReadyOnce' /\ WaitingPolled' /\ OnePlace' /\ InControl'
  BY <1>1 DEF SchedulerInv, NoAbort, ReadyOnce, WaitingPolled, OnePlace, InControl, InReady
<1>4. EventsAwaited'
  BY <1>1 DEF SchedulerInv, EventsAwaited, TypeOK
<1>5. StatusClear' /\ Keys'
  BY <1>1 DEF SchedulerInv, StatusClear, Keys
<1> QED BY <1>1, <1>2, <1>3, <1>4, <1>5 DEF SchedulerInv
-----------------------------------------------------------------------------
(* Theorems *)

\* One step of the program keeps the invariant.
LEMMA NextSchedulerInv ==
    ASSUME SchedulerInv, YieldAfterSleep, [Next]_vars
    PROVE  SchedulerInv'
<1>1. CASE Scheduler \/ Run \/ Tick
  BY <1>1, ControlStep, ResumeExpiredStep, RunReadyStep, EpollEventsStep, DispatchStep
     DEF Scheduler
<1>2. ASSUME NEW c \in Co, Create(c) PROVE SchedulerInv'
  BY <1>2, CreateStep
<1>3. ASSUME NEW c \in Co, CoStep(c) PROVE SchedulerInv'
  <2>1. CASE SleepZero(c)
    BY <2>1, RequeueStep DEF SleepZero
  <2>2. CASE \E f \in Fd, w \in BOOLEAN : waiting[f] = None /\ PollWait(c, f, w)
    BY <2>2, PollWaitStep
  <2>3. CASE \E m \in Msecs : Sleep(c, m)
    BY <2>3, SleepStep
  <2> QED BY <1>3, <2>1, <2>2, <2>3, YieldStep, ExitStep, PollReturnStep, ReniceStep
          DEF CoStep, GivesUp
<1>4. ASSUME NEW f \in Fd, NEW e \in {"in", "hup"}, Arrive(f, e) PROVE SchedulerInv'
  BY <1>4, ArriveStep
<1>5. CASE UNCHANGED vars
  <2> USE <1>5 DEF vars, queues, fields, control, kernel
  <2>1. TypeOK' /\ NoAbort' /\ ReadyOnce' /\ WaitingPolled' /\ InControl'
    BY DEF SchedulerInv, TypeOK, NoAbort, ReadyOnce, WaitingPolled, InControl
  <2>2. OnePlace' /\ EventsAwaited' /\ StatusClear' /\ Keys'
    BY DEF SchedulerInv, OnePlace, InReady, EventsAwaited, StatusClear, Keys
  <2> QED BY <2>1, <2>2 DEF SchedulerInv
<1> QED BY <1>1, <1>2, <1>3, <1>4, <1>5 DEF Next, Stopped

\* The invariant of the scheduler: in any program that yields after a sleep, the ready
\* queue, the wait tree, the sleep tree, the status bits, the keys of the sleep tree
\* and the events not handled yet agree with each other after every step of
\* nty_schedule_run, of the coroutines and of the kernel.
THEOREM Invariant == YieldAfterSleep => (Spec => []SchedulerInv)
<1> SUFFICES ASSUME YieldAfterSleep PROVE Spec => []SchedulerInv
  OBVIOUS
<1>1. SchedulerInv /\ [Next]_vars => SchedulerInv'
  BY NextSchedulerInv
<1> QED BY <1>1, InitSchedulerInv, PTL DEF Spec

\* The containers and fields of the scheduler keep their types, and the count of
\* coroutines stays between 0 and the number that exist.
THEOREM TypeCorrect == YieldAfterSleep => (Spec => []TypeOK)
<1>1. SchedulerInv => TypeOK
  BY DEF SchedulerInv
<1> QED BY <1>1, Invariant, PTL

\* No assertion of nty_schedule_sched_wait fails and no event comes for a descriptor
\* that nobody waits on.
THEOREM NeverAborts == YieldAfterSleep => (Spec => []NoAbort)
<1>1. SchedulerInv => NoAbort
  BY DEF SchedulerInv
<1> QED BY <1>1, Invariant, PTL

\* nty_schedule_run returns only when every coroutine has returned and is freed.
THEOREM StopsLast == YieldAfterSleep => (Spec => []StopsWhenAllExited)
<1>1. SchedulerInv => StopsWhenAllExited
  BY FS_EmptySet DEF SchedulerInv, StopsWhenAllExited
<1> QED BY <1>1, Invariant, PTL

\* How many places of the ready queue a coroutine has.
LEMMA HeldReady ==
    ASSUME SchedulerInv, NEW c
    PROVE  Cardinality({i \in DOMAIN ready : ready[i] = c}) = IF c \in InReady THEN 1 ELSE 0
<1> DEFINE P == {i \in DOMAIN ready : ready[i] = c}
<1>1. CASE c \in InReady
  <2>1. PICK i \in DOMAIN ready : ready[i] = c
    BY <1>1 DEF InReady
  <2>2. P = {i}
    BY <2>1 DEF SchedulerInv, ReadyOnce
  <2> QED BY <1>1, <2>2, FS_Singleton
<1>2. CASE c \notin InReady
  <2>1. P = {}
    BY <1>2 DEF InReady
  <2> QED BY <1>2, <2>1, FS_EmptySet
<1> QED BY <1>1, <1>2

\* How many nodes of the wait tree a coroutine has.
LEMMA HeldWaiting ==
    ASSUME SchedulerInv, NEW c \in Co
    PROVE  Cardinality({f \in Fd : waiting[f] = c}) = IF polled[c] # None THEN 1 ELSE 0
<1> DEFINE P == {f \in Fd : waiting[f] = c}
<1>0. c # None /\ polled[c] \in Fd \cup {None}
  BY NtyCoAssumption DEF SchedulerInv, TypeOK
<1>1. CASE polled[c] # None
  <2>1. P = {polled[c]}
    BY <1>0, <1>1 DEF SchedulerInv, WaitingPolled
  <2> QED BY <1>1, <2>1, FS_Singleton
<1>2. CASE polled[c] = None
  <2>1. P = {}
    BY <1>0, <1>2, NtyCoAssumption DEF SchedulerInv, WaitingPolled
  <2> QED BY <1>2, <2>1, FS_EmptySet
<1> QED BY <1>1, <1>2

\* No coroutine is lost, queued twice, or freed while the ready queue, the wait tree
\* or the sleep tree holds it.
THEOREM AllAccounted == YieldAfterSleep => (Spec => []Accounted)
<1>1. SchedulerInv => Accounted
  <2> SUFFICES ASSUME SchedulerInv, NEW c \in Co
               PROVE  /\ c \in live \ {curr_thread} => Held(c) = 1
                      /\ c \in live /\ c = curr_thread =>
                           Held(c) = IF polled[c] # None \/ c \in sleeping THEN 1 ELSE 0
                      /\ c \notin live => Held(c) = 0 /\ c # curr_thread
    BY DEF Accounted
  <2>1. Held(c) = (IF c \in InReady THEN 1 ELSE 0) + (IF polled[c] # None THEN 1 ELSE 0)
                  + (IF c \in sleeping THEN 1 ELSE 0)
    BY HeldReady, HeldWaiting DEF Held
  <2>2. /\ c \in InReady => /\ c \in live /\ c # curr_thread
                            /\ c \notin sleeping /\ polled[c] = None
        /\ c \in sleeping => c \in live /\ polled[c] = None
        /\ polled[c] # None => c \in live
        /\ c \in live => \/ c = curr_thread \/ c \in InReady
                         \/ c \in sleeping \/ polled[c] # None
        /\ c = curr_thread => c \in live
    BY NtyCoAssumption DEF SchedulerInv, OnePlace
  <2> QED BY <2>1, <2>2
<1> QED BY <1>1, Invariant, PTL

\* A sleeper leaves the sleep tree only when nty_schedule_expired resumes it, not before
\* its time.
THEOREM SleepersOnTime == YieldAfterSleep => (Spec => SleepersLeaveOnTime)
<1> DEFINE OnTime == \A c \in sleeping : c \notin sleeping' =>
                        sleep_usecs[c] <= now /\ curr_thread' = c
<1> SUFFICES ASSUME YieldAfterSleep PROVE Spec => SleepersLeaveOnTime
  OBVIOUS
<1>1. ASSUME SchedulerInv, [Next]_vars PROVE OnTime
  <2>1. CASE ResumeExpired
    <3>1. Due \in SUBSET Co /\ Due # {} /\ sleep_usecs \in [Co -> Nat]
      BY <1>1, <2>1 DEF Due, ResumeExpired, SchedulerInv, TypeOK
    <3>2. Earliest(Due) \in Due
      BY <3>1, EarliestIsFirst
    <3> QED BY <2>1, <3>2 DEF ResumeExpired, Resume, Due
  <2>2. ASSUME NEW c \in Co, NEW m \in Msecs, Sleep(c, m) PROVE OnTime
    BY <1>1, <2>2, SleepStep
  <2>3. CASE (Scheduler /\ ~ ResumeExpired) \/ Run \/ Tick \/ Stopped \/ UNCHANGED vars
    <3>1. sleeping' = sleeping
      BY <2>3 DEF Scheduler, Loop, NoneExpired, RunReady, ReadyEmpty, EpollSkip, EpollWait,
                  EpollEvents, EpollTimeout, Dispatch, EventsDone, Run, Tick, Stopped, vars,
                  queues
    <3> QED BY <3>1
  <2>4. ASSUME NEW c \in Co, Create(c) \/ GivesUp(c) \/ Renice(c) PROVE OnTime
    <3>1. sleeping' = sleeping
      BY <2>4 DEF Create, GivesUp, SleepZero, Yield, Exit, PollReturn, desched_wait, PollWait,
                  Renice, queues
    <3> QED BY <3>1
  <2>5. ASSUME NEW f \in Fd, NEW e \in {"in", "hup"}, Arrive(f, e) PROVE OnTime
    <3>1. sleeping' = sleeping
      BY <2>5 DEF Arrive, queues
    <3> QED BY <3>1
  <2> HIDE DEF OnTime
  <2> QED BY <1>1, <2>1, <2>2, <2>3, <2>4, <2>5 DEF Next, CoStep
<1>2. Spec => []SchedulerInv
  BY Invariant
<1>3. SchedulerInv /\ [Next]_vars => [OnTime]_vars
  BY <1>1
<1> QED BY <1>2, <1>3, PTL DEF Spec, SleepersLeaveOnTime
=============================================================================
