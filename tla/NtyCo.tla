-------------------------------- MODULE NtyCo --------------------------------
(***************************************************************************)
(* The NtyCo coroutine runtime (jiagoushi/chap2.7/NtyCo/core): the         *)
(* scheduler loop of nty_schedule.c, the coroutine operations of           *)
(* nty_coroutine.c and the wait that every socket call of nty_socket.c     *)
(* makes.  One thread runs everything: control is either in the scheduler  *)
(* (pc names the place in nty_schedule_run) or in the coroutine            *)
(* curr_thread (pc = "co"), which runs until it switches back.             *)
(*                                                                         *)
(* The kernel is external: a clock, and for each descriptor in the epoll   *)
(* set whether epoll_wait would report it.                                 *)
(***************************************************************************)
EXTENDS Integers, Sequences, FiniteSets

CONSTANTS Co,               \* addresses of nty_coroutine objects
          Fd,               \* descriptors coroutines wait on
          None,             \* NULL, and no descriptor
          Msecs,            \* arguments of nty_coroutine_sleep other than 0
          MaxTime,          \* bound: the clock stops there
          UsecPerMs, MsPerSec, DefaultTimeout,
          ReniceOps,        \* calls of nty_coroutine_renice until it yields
          YieldAfterSleep   \* callers yield themselves after a sleep of >0 ms

ASSUME NtyCoAssumption ==
    /\ None \notin Co /\ None \notin Fd /\ IsFiniteSet(Co) /\ IsFiniteSet(Fd)
    /\ Msecs \subseteq Nat \ {0} /\ MaxTime \in Nat
    /\ UsecPerMs \in Nat \ {0} /\ MsPerSec \in Nat \ {0}
    /\ DefaultTimeout \in Nat /\ ReniceOps \in Nat
    /\ YieldAfterSleep \in BOOLEAN

VARIABLES
    \* nty_schedule
    ready,                  \* queue of coroutines
    waiting,                \* tree of waiting coroutines, by descriptor
    sleeping,               \* tree of sleeping coroutines, by sleep_usecs
    curr_thread, spawned_coroutines,
    eventlist,              \* the events epoll_wait reported, not handled yet
    \* nty_coroutine
    live,                   \* allocated and not freed
    status,                 \* bits; READY is never read, and EXITED and DETACH
                            \* only where _exec has just set both
    sleep_usecs, ops,
    polled,                 \* the descriptor of the nty_poll_inner it is inside
    \* nty_schedule_run
    pc, ret, last_co_ready,
    until,                  \* when the epoll_wait in progress times out
    \* the kernel
    now,
    event                   \* what epoll_wait would report of a descriptor

queues == <<ready, waiting, sleeping, spawned_coroutines, live>>
fields == <<status, sleep_usecs, ops, polled>>
control == <<curr_thread, pc, ret, last_co_ready, eventlist, until>>
kernel == <<now, event>>
vars == <<queues, fields, control, kernel>>

Events == {"none", "in", "hup"}
-----------------------------------------------------------------------------
(* Helpers of nty_schedule.c *)

InReady == {ready[i] : i \in DOMAIN ready}
InWaiting == {waiting[f] : f \in Fd} \ {None}

Earliest(S) == CHOOSE c \in S : \A d \in S : sleep_usecs[c] <= sleep_usecs[d]

\* Mutant of isdone: the sleep tree is not looked at.
isdone_NoSleepers == InWaiting = {} /\ ready = <<>>

\* nty_schedule_isdone
isdone == InWaiting = {} /\ sleeping = {} /\ ready = <<>>

\* nty_schedule_min_timeout
min_timeout ==
    IF sleeping = {} THEN DefaultTimeout
    ELSE LET m == sleep_usecs[Earliest(sleeping)]
         IN  IF m > now THEN m - now ELSE 0

\* The milliseconds nty_schedule_epoll hands to epoll_wait: from one second on,
\* what the timespec holds below a second is less than a millisecond.
EpollMs(usecs) ==
    LET sec == usecs \div (UsecPerMs * MsPerSec)
    IN  IF sec # 0 THEN sec * MsPerSec ELSE usecs \div UsecPerMs
-----------------------------------------------------------------------------
(* nty_coroutine_resume and nty_coroutine_yield *)

\* The scheduler, at place r, switches to c, whose status is s by then.
Resume(c, r, s) ==
    /\ curr_thread' = c
    /\ pc' = "co"
    /\ ret' = r
    /\ status' = [status EXCEPT ![c] = IF "NEW" \in s THEN {} ELSE s]

\* Mutant of Back: the ready queue is run until it is empty.
Back_NoLast(c) == ret

\* Where nty_schedule_run goes on after resuming c.
Back(c) == IF ret = "ready" /\ c = last_co_ready THEN "epoll" ELSE ret

\* nty_coroutine_yield: c switches to the scheduler.
Switch(c) ==
    /\ curr_thread' = None
    /\ pc' = Back(c)
    /\ ops' = [ops EXCEPT ![c] = 0]
    /\ UNCHANGED <<ret, last_co_ready, eventlist, until>>

\* Mutant of Free: the count of coroutines is not decreased.
Free_Uncounted(c) == live' = live \ {c} /\ UNCHANGED spawned_coroutines

\* nty_coroutine_free
Free(c) ==
    /\ live' = live \ {c}
    /\ spawned_coroutines' = spawned_coroutines - 1

\* assert(0), or a NULL pointer dereferenced.
Abort == pc' = "abort" /\ UNCHANGED <<curr_thread, ret, last_co_ready, eventlist, until>>
-----------------------------------------------------------------------------
(* nty_schedule_run *)

Loop ==
    /\ pc = "loop"
    /\ pc' = IF isdone THEN "stopped" ELSE "expired"
    /\ UNCHANGED <<queues, fields, curr_thread, ret, last_co_ready, eventlist,
                   until, kernel>>

Due == {c \in sleeping : sleep_usecs[c] <= now}

\* nty_schedule_expired finds a coroutine and it is resumed ...
ResumeExpired ==
    /\ pc = "expired" /\ Due # {}
    /\ LET c == Earliest(Due)
       IN  /\ sleeping' = sleeping \ {c}
           /\ Resume(c, "expired", status[c])
    /\ UNCHANGED <<ready, waiting, spawned_coroutines, live, sleep_usecs, ops,
                   polled, last_co_ready, eventlist, until, kernel>>

\* ... or finds none; the end of the ready queue is remembered.
NoneExpired ==
    /\ pc = "expired" /\ Due = {}
    /\ pc' = "ready"
    /\ last_co_ready' = IF ready = <<>> THEN None ELSE ready[Len(ready)]
    /\ UNCHANGED <<queues, fields, curr_thread, ret, eventlist, until, kernel>>

RunReady ==
    /\ pc = "ready" /\ ready # <<>>
    /\ ready' = Tail(ready)
    /\ LET c == Head(ready)
       IN  IF "FDEOF" \in status[c]
           THEN /\ Free(c)
                /\ pc' = "epoll"
                /\ UNCHANGED <<curr_thread, ret, status>>
           ELSE /\ Resume(c, "ready", status[c])
                /\ UNCHANGED <<live, spawned_coroutines>>
    /\ UNCHANGED <<waiting, sleeping, sleep_usecs, ops, polled, last_co_ready,
                   eventlist, until, kernel>>

ReadyEmpty ==
    /\ pc = "ready" /\ ready = <<>>
    /\ pc' = "epoll"
    /\ UNCHANGED <<queues, fields, curr_thread, ret, last_co_ready, eventlist,
                   until, kernel>>

\* nty_schedule_epoll returns at once while a coroutine is ready or due ...
EpollSkip ==
    /\ pc = "epoll" /\ (min_timeout = 0 \/ ready # <<>>)
    /\ pc' = "loop"
    /\ UNCHANGED <<queues, fields, curr_thread, ret, last_co_ready, eventlist,
                   until, kernel>>

\* ... and otherwise calls epoll_wait.
EpollWait ==
    /\ pc = "epoll" /\ min_timeout # 0 /\ ready = <<>>
    /\ pc' = "block"
    /\ until' = now + EpollMs(min_timeout) * UsecPerMs
    /\ UNCHANGED <<queues, fields, curr_thread, ret, last_co_ready, eventlist, kernel>>

\* The descriptors that were added to the epoll set, and have an event.
Reported == {f \in Fd : event[f] # "none"}

EpollEvents ==
    /\ pc = "block" /\ Reported # {}
    /\ eventlist' \in {s \in [1..Cardinality(Reported) -> Reported] :
                         \A i, j \in DOMAIN s : s[i] = s[j] => i = j}
    /\ pc' = "events"
    /\ until' = 0
    /\ UNCHANGED <<queues, fields, curr_thread, ret, last_co_ready, kernel>>

EpollTimeout ==
    /\ pc = "block" /\ Reported = {}
    /\ until <= now \/ now = MaxTime      \* bound: the clock runs no further
    /\ pc' = "events"
    /\ until' = 0
    /\ UNCHANGED <<queues, fields, curr_thread, ret, last_co_ready, eventlist, kernel>>

\* Mutant of Dispatch: the coroutine of a closed connection is not resumed.
Dispatch_SkipsEof ==
    /\ pc = "events" /\ eventlist # <<>>
    /\ LET f == eventlist[Len(eventlist)]
       IN  /\ eventlist' = SubSeq(eventlist, 1, Len(eventlist) - 1)
           /\ IF event[f] = "hup"
              THEN UNCHANGED <<status, curr_thread, pc, ret>>
              ELSE Resume(waiting[f], "events", {})
    /\ UNCHANGED <<queues, sleep_usecs, ops, polled, last_co_ready, until, kernel>>

\* Mutant of Dispatch: one event is handled, the others are dropped.
Dispatch_OnlyOne ==
    /\ pc = "events" /\ eventlist # <<>>
    /\ LET f == eventlist[Len(eventlist)]
       IN  Resume(waiting[f], "events", IF event[f] = "hup" THEN {"FDEOF"} ELSE {})
    /\ eventlist' = <<>>
    /\ UNCHANGED <<queues, sleep_usecs, ops, polled, last_co_ready, until, kernel>>

\* The last event that is left: nty_schedule_search_wait, which clears the status of
\* what it found before looking whether it found something, and resume.
Dispatch ==
    /\ pc = "events" /\ eventlist # <<>>
    /\ LET f == eventlist[Len(eventlist)]
       IN  IF waiting[f] = None
           THEN Abort /\ UNCHANGED status
           ELSE /\ eventlist' = SubSeq(eventlist, 1, Len(eventlist) - 1)
                /\ Resume(waiting[f], "events",
                          IF event[f] = "hup" THEN {"FDEOF"} ELSE {})
                /\ UNCHANGED <<last_co_ready, until>>
    /\ UNCHANGED <<queues, sleep_usecs, ops, polled, kernel>>

EventsDone ==
    /\ pc = "events" /\ eventlist = <<>>
    /\ pc' = "loop"
    /\ UNCHANGED <<queues, fields, curr_thread, ret, last_co_ready, eventlist,
                   until, kernel>>

Scheduler == \/ Loop \/ ResumeExpired \/ NoneExpired \/ RunReady \/ ReadyEmpty
             \/ EpollSkip \/ EpollWait \/ EpollEvents \/ EpollTimeout
             \/ Dispatch \/ EventsDone
-----------------------------------------------------------------------------
(* What a coroutine does until it gives up control *)

Running(c) == pc = "co" /\ curr_thread = c /\ polled[c] = None

\* A program yields itself after a sleep: nty_coroutine_sleep does not.
Acts(c) == Running(c) /\ (YieldAfterSleep => c \notin sleeping)

\* nty_coroutine_create, called by main before nty_schedule_run or by a coroutine.
Create(n) ==
    /\ pc = "main" \/ \E c \in Co : Acts(c)
    /\ n \notin live
    /\ live' = live \cup {n}
    /\ spawned_coroutines' = spawned_coroutines + 1
    /\ ready' = Append(ready, n)
    /\ status' = [status EXCEPT ![n] = {"NEW"}]
    /\ UNCHANGED <<waiting, sleeping, sleep_usecs, ops, polled, control, kernel>>

\* main calls nty_schedule_run.
Run ==
    /\ pc = "main"
    /\ pc' = "loop"
    /\ UNCHANGED <<queues, fields, curr_thread, ret, last_co_ready, eventlist,
                   until, kernel>>

\* Mutant of SleepZero: put at the head of the ready queue.
SleepZero_Head(c) ==
    /\ Acts(c)
    /\ ready' = <<c>> \o ready
    /\ Switch(c)
    /\ UNCHANGED <<waiting, sleeping, spawned_coroutines, live, status,
                   sleep_usecs, polled, kernel>>

\* nty_coroutine_sleep(0)
SleepZero(c) ==
    /\ Acts(c)
    /\ ready' = Append(ready, c)
    /\ Switch(c)
    /\ UNCHANGED <<waiting, sleeping, spawned_coroutines, live, status,
                   sleep_usecs, polled, kernel>>

\* The coroutines RB_FIND compares equal to c.
SameKey(c) == {d \in sleeping : sleep_usecs[d] = sleep_usecs[c]}

\* Mutant of FreeKey: two sleepers may have the same key.
FreeKey_Taken(k, S) == k

\* The first key from k on that RB_INSERT accepts beside the coroutines in S.
FreeKey(k, S) ==
    LET taken == {sleep_usecs[d] : d \in S}
    IN  CHOOSE j \in k .. k + Cardinality(S) :
          j \notin taken /\ \A i \in k .. j - 1 : i \in taken

\* nty_schedule_sched_sleepdown, which ends without the yield it announces.
sched_sleepdown(c, m) ==
    LET others == sleeping \ SameKey(c)
    IN  /\ sleeping' = others \cup {c}
        /\ sleep_usecs' = [sleep_usecs EXCEPT ![c] =
                             FreeKey(now + m * UsecPerMs, others)]
        /\ status' = [status EXCEPT ![c] = @ \cup {"SLEEPING"}]

\* nty_coroutine_sleep(m) for m > 0: the coroutine runs on.
Sleep(c, m) ==
    /\ Acts(c)
    /\ now + m * UsecPerMs + Cardinality(sleeping) <= MaxTime   \* bound
    /\ sched_sleepdown(c, m)
    /\ UNCHANGED <<ready, waiting, spawned_coroutines, live, ops, polled,
                   control, kernel>>

\* The caller's own nty_coroutine_yield that follows.
Yield(c) ==
    /\ Running(c) /\ c \in sleeping
    /\ Switch(c)
    /\ UNCHANGED <<queues, status, sleep_usecs, polled, kernel>>

\* nty_coroutine_renice
Renice(c) ==
    /\ Acts(c)
    /\ IF ops[c] + 1 < ReniceOps
       THEN /\ ops' = [ops EXCEPT ![c] = @ + 1]
            /\ UNCHANGED <<ready, control>>
       ELSE ready' = Append(ready, c) /\ Switch(c)
    /\ UNCHANGED <<waiting, sleeping, spawned_coroutines, live, status,
                   sleep_usecs, polled, kernel>>

\* The assertions of nty_schedule_sched_wait.
wait_refused(c, f) == \/ status[c] \cap {"WAIT_READ", "WAIT_WRITE"} # {}
                      \/ waiting[f] # None

\* nty_schedule_sched_wait with the timeout 1 all its callers pass: no timer is set.
\* The constants or-ed into the status are bit numbers, not bits: 0 to read, and 1,
\* which is the bit WAIT_READ, to write.
sched_wait(c, f, write) ==
    /\ waiting' = [waiting EXCEPT ![f] = c]
    /\ status' = [status EXCEPT ![c] = @ \cup IF write THEN {"WAIT_READ"} ELSE {}]

\* nty_poll_inner up to its yield.
PollWait(c, f, write) ==
    /\ Acts(c)
    /\ IF wait_refused(c, f)
       THEN Abort /\ UNCHANGED <<waiting, status, ops, polled>>
       ELSE /\ sched_wait(c, f, write)
            /\ polled' = [polled EXCEPT ![c] = f]
            /\ Switch(c)
    /\ UNCHANGED <<ready, sleeping, spawned_coroutines, live, sleep_usecs, kernel>>

\* nty_schedule_desched_wait: the status is 0 when nty_schedule_desched_sleepdown
\* looks for the sleeping bit, so it does nothing.
desched_wait(c, f) ==
    /\ waiting' = [waiting EXCEPT ![f] = None]
    /\ status' = [status EXCEPT ![c] = {}]
    /\ UNCHANGED sleeping

\* Mutant of PollReturn: the coroutine stays in the wait tree.
PollReturn_StillWaiting(c) ==
    /\ pc = "co" /\ curr_thread = c /\ polled[c] # None
    /\ event' = [event EXCEPT ![polled[c]] = "none"]
    /\ status' = [status EXCEPT ![c] = {}]
    /\ polled' = [polled EXCEPT ![c] = None]
    /\ UNCHANGED <<queues, sleep_usecs, ops, control, now>>

\* Mutant of PollReturn: the descriptor stays in the epoll set.
PollReturn_NoDel(c) ==
    /\ pc = "co" /\ curr_thread = c /\ polled[c] # None
    /\ waiting' = [waiting EXCEPT ![polled[c]] = None]
    /\ status' = [status EXCEPT ![c] = {}]
    /\ polled' = [polled EXCEPT ![c] = None]
    /\ UNCHANGED <<ready, sleeping, spawned_coroutines, live, sleep_usecs, ops,
                   control, kernel>>

\* nty_poll_inner after its yield; EPOLL_CTL_DEL takes the descriptor out of the
\* epoll set.
PollReturn(c) ==
    /\ pc = "co" /\ curr_thread = c /\ polled[c] # None
    /\ desched_wait(c, polled[c])
    /\ event' = [event EXCEPT ![polled[c]] = "none"]
    /\ polled' = [polled EXCEPT ![c] = None]
    /\ UNCHANGED <<ready, spawned_coroutines, live, sleep_usecs, ops, control, now>>

\* The coroutine's function returns: _exec sets the bits, yields, and
\* nty_coroutine_resume frees it.  What it held is not state any more.
Exit(c) ==
    /\ Acts(c)
    /\ Free(c)
    /\ curr_thread' = None
    /\ pc' = Back(c)
    /\ status' = [status EXCEPT ![c] = {}]
    /\ sleep_usecs' = [sleep_usecs EXCEPT ![c] = 0]
    /\ ops' = [ops EXCEPT ![c] = 0]
    /\ UNCHANGED <<ready, waiting, sleeping, polled, ret, last_co_ready,
                   eventlist, until, kernel>>
-----------------------------------------------------------------------------
(* The kernel *)

Tick ==
    /\ pc \notin {"stopped", "abort"} /\ now < MaxTime
    /\ now' = now + 1
    /\ UNCHANGED <<queues, fields, control, event>>

\* Something happens to a descriptor in the epoll set; what happened earlier is
\* reported as if it happened when the descriptor was added, and what happens between
\* epoll_wait and the handling of its report is reported the next time: until then
\* event[f] is what epoll_wait stored in eventlist.
Arrive(f, e) ==
    /\ pc # "abort" /\ waiting[f] # None
    /\ \A i \in DOMAIN eventlist : eventlist[i] # f
    /\ event[f] # "hup" /\ event[f] # e
    /\ event' = [event EXCEPT ![f] = e]
    /\ UNCHANGED <<queues, fields, control, now>>

\* nty_schedule_run has returned.
Stopped == pc = "stopped" /\ UNCHANGED vars
-----------------------------------------------------------------------------
(* A program of coroutines that do anything, but share no descriptor *)

Init ==
    /\ ready = <<>> /\ waiting = [f \in Fd |-> None] /\ sleeping = {}
    /\ curr_thread = None /\ spawned_coroutines = 0 /\ eventlist = <<>>
    /\ live = {}
    /\ status = [c \in Co |-> {}]
    /\ sleep_usecs = [c \in Co |-> 0] /\ ops = [c \in Co |-> 0]
    /\ polled = [c \in Co |-> None]
    /\ pc = "main" /\ ret = "expired" /\ last_co_ready = None /\ until = 0
    /\ now = 0 /\ event = [f \in Fd |-> "none"]

\* The steps in which coroutine c gives up control, or is about to.
GivesUp(c) ==
    \/ SleepZero(c) \/ Yield(c) \/ Exit(c) \/ PollReturn(c)
    \/ \E f \in Fd, w \in BOOLEAN : waiting[f] = None /\ PollWait(c, f, w)

CoStep(c) ==
    \/ GivesUp(c) \/ Renice(c)
    \/ \E m \in Msecs : Sleep(c, m)

Next ==
    \/ Scheduler \/ Run \/ Tick \/ Stopped
    \/ \E c \in Co : Create(c) \/ CoStep(c)
    \/ \E f \in Fd, e \in {"in", "hup"} : Arrive(f, e)

\* The scheduler runs on, time passes, and a coroutine gives up control some time.
Fairness ==
    /\ WF_vars(Scheduler \/ Run) /\ WF_vars(Tick)
    /\ WF_vars(\E c \in Co : GivesUp(c))

Spec == Init /\ [][Next]_vars /\ Fairness
-----------------------------------------------------------------------------
(* Properties *)

Bits == {"NEW", "SLEEPING", "WAIT_READ", "FDEOF"}
Places == {"main", "loop", "expired", "ready", "epoll", "block", "events",
           "co", "stopped", "abort"}

\* The containers hold coroutines; as many are counted as can exist; keys, counts
\* and times are natural numbers.
TypeOK ==
    /\ ready \in Seq(Co) /\ waiting \in [Fd -> Co \cup {None}] /\ sleeping \subseteq Co
    /\ curr_thread \in Co \cup {None} /\ spawned_coroutines \in 0 .. Cardinality(Co)
    /\ eventlist \in Seq(Fd) /\ live \subseteq Co
    /\ status \in [Co -> SUBSET Bits] /\ sleep_usecs \in [Co -> Nat]
    /\ ops \in [Co -> Nat] /\ polled \in [Co -> Fd \cup {None}]
    /\ pc \in Places /\ ret \in {"expired", "ready", "events"}
    /\ last_co_ready \in Co \cup {None} /\ until \in Nat
    /\ now \in Nat /\ event \in [Fd -> Events]

\* How often the scheduler's containers hold coroutine c.
Held(c) == Cardinality({i \in DOMAIN ready : ready[i] = c})
           + Cardinality({f \in Fd : waiting[f] = c})
           + (IF c \in sleeping THEN 1 ELSE 0)

\* No coroutine is lost, queued twice or freed while queued: one that is suspended
\* is in exactly one of the ready queue, the wait tree and the sleep tree, once;
\* the running one is in none of them, but for the wait or sleep it just left or
\* is entering; a freed one is in none.
Accounted ==
    \A c \in Co :
        /\ c \in live \ {curr_thread} => Held(c) = 1
        /\ c \in live /\ c = curr_thread =>
             Held(c) = IF polled[c] # None \/ c \in sleeping THEN 1 ELSE 0
        /\ c \notin live => Held(c) = 0 /\ c # curr_thread

\* No assertion of nty_schedule_sched_wait fails, and nty_schedule_search_wait
\* finds a coroutine for every event it is asked about.
NoAbort == pc # "abort"

\* nty_schedule_run returns only when every coroutine has returned.
StopsWhenAllExited == pc = "stopped" => live = {} /\ spawned_coroutines = 0

\* A coroutine leaves the sleep tree only by being resumed, when its time has come:
\* the search by a key of long ago in nty_schedule_sched_sleepdown never removes
\* somebody else.
SleepersLeaveOnTime ==
    [][\A c \in sleeping : c \notin sleeping' =>
          sleep_usecs[c] <= now /\ curr_thread' = c]_vars

\* A coroutine in the ready queue is run, whatever else is ready, waits or is created,
\* provided that the loop over expired sleepers ends again and again.  It need not:
\* when sleeps are over before the loop looks again, it resumes sleepers for ever.
ReadyRuns ==
    []<>(pc \in {"ready", "stopped"}) =>
        \A c \in Co : (c \in InReady) ~> (curr_thread = c)

\* A sleeper is resumed, also when the ready queue never empties.
SleepersWake == \A c \in Co : (c \in sleeping) ~> (c \notin sleeping)

\* A coroutine whose descriptor has an event is resumed, provided that the ready
\* queue drains again and again: epoll_wait is not called while it holds somebody.
IoServed ==
    []<>(pc = "block") =>
        \A f \in Fd, c \in Co :
            (waiting[f] = c /\ event[f] # "none") ~> (curr_thread = c)

\* A coroutine that is put to sleep has yielded.
SleeperSuspended == curr_thread \notin sleeping
-----------------------------------------------------------------------------
(* The inductive invariant behind these properties *)

\* No coroutine is in the ready queue twice.
ReadyOnce == \A i, j \in DOMAIN ready : ready[i] = ready[j] => i = j

\* The wait tree holds the coroutines inside nty_poll_inner, by their descriptor.
WaitingPolled ==
    /\ \A f \in Fd : waiting[f] # None => polled[waiting[f]] = f
    /\ \A c \in Co : polled[c] # None => waiting[polled[c]] = c

\* Where coroutines are, one by one.
OnePlace ==
    /\ \A c \in InReady : /\ c \in live /\ c # curr_thread
                          /\ c \notin sleeping /\ polled[c] = None
    /\ \A c \in sleeping : c \in live /\ polled[c] = None
    /\ \A c \in Co : polled[c] # None => c \in live
    /\ \A c \in live : \/ c = curr_thread \/ c \in InReady
                       \/ c \in sleeping \/ polled[c] # None
    /\ curr_thread # None => curr_thread \in live

\* Control is in a coroutine, or in the scheduler.
InControl == (curr_thread # None) <=> (pc = "co")

\* An event not handled yet has its coroutine, which is not the running one.
EventsAwaited ==
    /\ \A f \in Fd : event[f] # "none" => waiting[f] # None
    /\ \A i \in DOMAIN eventlist : /\ waiting[eventlist[i]] # None
                                   /\ waiting[eventlist[i]] # curr_thread
    /\ \A i, j \in DOMAIN eventlist : eventlist[i] = eventlist[j] => i = j

\* Outside nty_poll_inner no bit of a wait is set.
StatusClear ==
    \A c \in Co : polled[c] = None =>
        status[c] \cap {"WAIT_READ", "WAIT_WRITE", "FDEOF"} = {}

\* The keys of sleepers are their own, and the keys of the others have passed.
Keys ==
    /\ \A c \in Co \ sleeping : sleep_usecs[c] <= now
    /\ \A d \in sleeping : sleep_usecs[d] > 0
    /\ \A c \in Co, d \in sleeping : c # d => sleep_usecs[c] # sleep_usecs[d]

\* Every condition of the invariant, on which all the properties above rest: each
\* of them alone is lost by some step that the others exclude.
SchedulerInv ==
    /\ TypeOK /\ NoAbort /\ ReadyOnce /\ WaitingPolled /\ OnePlace /\ InControl
    /\ EventsAwaited /\ StatusClear /\ Keys
    /\ spawned_coroutines = Cardinality(live)
    /\ pc = "stopped" => live = {}
=============================================================================
