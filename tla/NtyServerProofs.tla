-------------------------- MODULE NtyServerProofs --------------------------
(***************************************************************************)
(* Proofs about NtyServer, for any number of coroutines and descriptors,   *)
(* and however often accept fails: the invariant holds until the process   *)
(* ends at the assertion against a second coroutine that waits for -1.     *)
(***************************************************************************)
EXTENDS NtyServer, NtyCoProofs

-----------------------------------------------------------------------------
(* What the invariant says of one moment *)

LEMMA ServerFacts ==
    /\ Server \in Co /\ Listen \in Fd /\ BadFd \in Fd /\ Listen # BadFd
    /\ None \notin Co /\ None \notin Fd /\ MaxFailures \in Nat
    /\ Clients \subseteq Fd /\ Listen \notin Clients /\ BadFd \notin Clients
    /\ None \notin Clients /\ None # BadFd /\ None # Listen /\ None # Server
BY ServerAssumption, NtyCoAssumption DEF Clients

\* A reader that has not started is in the ready queue, or has just been resumed.
LEMMA NewReaderIsReady ==
    ASSUME ServerInv, NEW c \in Readers, step[c] = "start"
    PROVE  c \in InReady \/ c = curr_thread
<1>1. c \in Co /\ c # Server /\ c \in live
  BY DEF ServerInv, SchedulerInv, TypeOK, Readers
<1>2. polled[c] = None
  BY <1>1 DEF ServerInv, PollsOwn
<1>. QED  BY <1>1, <1>2 DEF ServerInv, SchedulerInv, OnePlace

\* Nobody but the server waits on the listening descriptor.
LEMMA OnlyServerListens ==
    ASSUME ServerInv
    PROVE  waiting[Listen] \in {None, Server}
<1>. SUFFICES ASSUME waiting[Listen] # None, waiting[Listen] # Server PROVE FALSE
  OBVIOUS
<1>. DEFINE c == waiting[Listen]
<1>1. c \in Co /\ c # Server /\ c # None /\ polled[c] = Listen
  BY ServerFacts DEF ServerInv, SchedulerInv, TypeOK, WaitingPolled
<1>2. step[c] \in {"received", "resend"} /\ fd[c] = Listen
  BY <1>1, ServerFacts DEF ServerInv, PollsOwn
<1>3. c \in Readers /\ Serves(c) = Listen
  BY <1>1, <1>2 DEF ServerInv, PollsOwn, Readers, Serves
<1>4. Serves(c) \in open \cup {BadFd}
  BY <1>3 DEF ServerInv, OwnDescriptor
<1>. QED  BY <1>3, <1>4, ServerFacts DEF ServerInv, LocalsTyped

\* While the server is not inside nty_poll_inner, nobody waits on its descriptor and no
\* event of it is left.
LEMMA ServerElsewhere ==
    ASSUME ServerInv, polled[Server] = None
    PROVE  /\ waiting[Listen] = None
           /\ \A i \in DOMAIN eventlist : eventlist[i] # Listen
<1>1. waiting[Listen] = None
  BY OnlyServerListens, ServerFacts DEF ServerInv, SchedulerInv, WaitingPolled
<1>. QED  BY <1>1 DEF ServerInv, SchedulerInv, EventsAwaited

\* A reader that runs is alone with its descriptor, and the wait it enters is not
\* refused, unless it is a second reader of -1.
LEMMA ReaderElsewhere ==
    ASSUME ServerInv, NEW c \in Readers, step[c] # "start", polled[c] = None
    PROVE  /\ fd[c] \in Fd /\ fd[c] # None
           /\ waiting[fd[c]] # None =>
                /\ fd[c] = BadFd /\ failures >= 2
                /\ \E d \in Readers : d # c /\ waiting[BadFd] = d /\ fd[d] = BadFd
<1>1. c \in Co /\ c # Server /\ c \in live
  BY DEF ServerInv, SchedulerInv, TypeOK, Readers
<1>2. Serves(c) = fd[c] /\ fd[c] \in open \cup {BadFd}
  BY DEF Serves, ServerInv, OwnDescriptor
<1>3. fd[c] \in Fd /\ fd[c] # None /\ fd[c] # Listen
  BY <1>2, ServerFacts DEF ServerInv, LocalsTyped
<1>4. ASSUME waiting[fd[c]] # None
      PROVE  /\ fd[c] = BadFd /\ failures >= 2
             /\ \E d \in Readers : d # c /\ waiting[BadFd] = d /\ fd[d] = BadFd
  <2>. DEFINE d == waiting[fd[c]]
  <2>1. d \in Co /\ polled[d] = fd[c]
    BY <1>3, <1>4 DEF ServerInv, SchedulerInv, TypeOK, WaitingPolled
  <2>6. d = waiting[fd[c]]
    OBVIOUS
  <2>. HIDE DEF d
  <2>2. d # Server /\ d # c
    BY <1>3, <2>1, ServerFacts DEF ServerInv, PollsOwn
  <2>3. polled[d] = fd[d] /\ step[d] \in {"received", "resend"} /\ d \in live
    BY <1>3, <2>1, <2>2 DEF ServerInv, PollsOwn
  <2>4. d \in Readers /\ Serves(d) = Serves(c)
    BY <1>2, <2>1, <2>2, <2>3 DEF Readers, Serves
  <2>5. Serves(c) = BadFd /\ failures >= 2
    BY <2>2, <2>4 DEF ServerInv, OwnDescriptor
  <2>. QED  BY <1>2, <2>1, <2>2, <2>3, <2>4, <2>5, <2>6
<1>. QED  BY <1>3, <1>4
-----------------------------------------------------------------------------
(* Steps of the runtime and of the kernel *)

\* What changes nothing of the runtime.
LEMMA NoSchedulerStep == ASSUME SchedulerInv, UNCHANGED vars PROVE SchedulerInv'
<1>1. /\ now \in Nat /\ until \in Nat /\ last_co_ready \in Co \cup {None}
      /\ pc \in Places \ {"abort"} /\ (pc = "stopped" => live = {})
  BY DEF SchedulerInv, TypeOK, NoAbort
<1>2. UNCHANGED <<queues, fields, curr_thread, ret, eventlist, event, pc, last_co_ready,
                  until, now>>
  BY DEF vars, control, kernel
<1>. QED  BY <1>1, <1>2, QuietStep

\* They leave the variables of the functions alone.
LEMMA LocalsKept ==
    ASSUME ServerInv, SchedulerInv', UNCHANGED <<locals, open, failures, live, sleeping>>,
           backlog' \in Nat, \A c \in Co : polled'[c] \in {polled[c], None},
           NewReaderFirst'
    PROVE  ServerInv'
<1>. USE DEF locals
<1>1. LocalsTyped'
  BY DEF ServerInv, LocalsTyped
<1>2. PollsOwn'
  BY ServerFacts DEF ServerInv, PollsOwn
<1>3. Readers' = Readers /\ \A c : Serves(c)' = Serves(c)
  BY DEF Readers, Serves
<1>4. OwnDescriptor' /\ AllServed'
  BY <1>3 DEF ServerInv, OwnDescriptor, AllServed
<1>. QED  BY <1>1, <1>2, <1>4 DEF ServerInv

\* No reader is new while the scheduler is in epoll_wait, and none when it goes there.
LEMMA NoNewReader ==
    ASSUME ServerInv, pc = "block" \/ (ready = <<>> /\ pc # "co")
    PROVE  \A c \in Readers : step[c] # "start"
<1>. SUFFICES ASSUME NEW c \in Readers, step[c] = "start" PROVE FALSE
  OBVIOUS
<1>1. pc # "block"
  BY DEF ServerInv, NewReaderFirst
<1>2. ready = <<>> /\ curr_thread = None /\ InReady = {}
  BY <1>1 DEF ServerInv, SchedulerInv, InControl, InReady
<1>3. c # None
  BY LiveIsSomebody DEF Readers, ServerInv, SchedulerInv
<1>. QED  BY <1>2, <1>3, NewReaderIsReady

\* The scheduler's steps that resume nobody, and those of the kernel.
LEMMA QuietServerStep ==
    ASSUME ServerInv, SchedulerInv',
           UNCHANGED <<locals, open, failures, live, sleeping, polled, curr_thread, eventlist>>,
           backlog' \in Nat, pc' = "block" => pc = "block" \/ (ready = <<>> /\ pc # "co")
    PROVE  ServerInv'
<1>1. NewReaderFirst'
  <2>. SUFFICES ASSUME NEW c \in Readers, step[c] = "start"
                PROVE  /\ pc' # "block"
                       /\ \A i \in DOMAIN eventlist : eventlist[i] # Listen
                       /\ step[Server] = "accept" =>
                            polled[Server] # None /\ curr_thread # Server
    BY DEF NewReaderFirst, Readers, locals
  <2>. QED  BY NoNewReader DEF ServerInv, NewReaderFirst
<1>. QED  BY <1>1, LocalsKept

\* nty_schedule_run resumes the head of the ready queue.
LEMMA RunReadyServer ==
    ASSUME ServerInv, RunReady, UNCHANGED <<locals, sockets>>
    PROVE  ServerInv'
<1>. DEFINE h == Head(ready)
<1>1. SchedulerInv'
  BY RunReadyStep DEF ServerInv
<1>2. h \in InReady
  BY TailReady DEF RunReady, ServerInv, SchedulerInv, TypeOK
<1>3. h \in Co /\ polled[h] = None /\ "FDEOF" \notin status[h]
  BY <1>2 DEF ServerInv, SchedulerInv, TypeOK, OnePlace, StatusClear
<1>4. /\ curr_thread' = h /\ pc' = "co"
      /\ UNCHANGED <<live, sleeping, polled, eventlist>>
  BY <1>3 DEF RunReady, Resume
<1>. HIDE DEF h
<1>5. NewReaderFirst'
  <2>. SUFFICES ASSUME NEW c \in Readers, step[c] = "start"
                PROVE  /\ \A i \in DOMAIN eventlist : eventlist[i] # Listen
                       /\ step[Server] = "accept" =>
                            polled[Server] # None /\ h # Server
    BY <1>4 DEF NewReaderFirst, Readers, locals
  <2>. QED  BY <1>3 DEF ServerInv, NewReaderFirst
<1>. QED  BY <1>1, <1>4, <1>5, LocalsKept DEF sockets, ServerInv, LocalsTyped

\* nty_schedule_run resumes the coroutine of an event.
LEMMA DispatchServer ==
    ASSUME ServerInv, Dispatch, UNCHANGED <<locals, sockets>>
    PROVE  ServerInv'
<1>. DEFINE n == Len(eventlist)
            f == eventlist[n]
            w == waiting[f]
<1>1. SchedulerInv'
  BY DispatchStep DEF ServerInv
<1>2. eventlist \in Seq(Fd) /\ n \in Nat \ {0} /\ f \in Fd /\ n \in DOMAIN eventlist
  BY DEF Dispatch, ServerInv, SchedulerInv, TypeOK
<1>3. w \in Co /\ w # None /\ polled[w] = f
  BY <1>2, NtyCoAssumption
     DEF ServerInv, SchedulerInv, TypeOK, EventsAwaited, WaitingPolled
<1>4. /\ eventlist' = SubSeq(eventlist, 1, n - 1) /\ curr_thread' = w /\ pc' = "co"
      /\ UNCHANGED <<live, sleeping, polled>>
  BY <1>3 DEF Dispatch, Resume, queues
<1>. HIDE DEF n, f, w
<1>5. \A i \in DOMAIN eventlist' : i \in DOMAIN eventlist /\ eventlist'[i] = eventlist[i]
  <2>1. DOMAIN eventlist = 1 .. n
    BY <1>2 DEF n
  <2>2. /\ DOMAIN SubSeq(eventlist, 1, n - 1) = 1 .. n - 1
        /\ \A i \in 1 .. n - 1 : SubSeq(eventlist, 1, n - 1)[i] = eventlist[i]
    BY <1>2 DEF n
  <2>. QED  BY <1>2, <1>4, <2>1, <2>2
<1>6. NewReaderFirst'
  <2>. SUFFICES ASSUME NEW c \in Readers, step[c] = "start"
                PROVE  /\ \A i \in DOMAIN eventlist' : eventlist'[i] # Listen
                       /\ step[Server] = "accept" =>
                            polled[Server] # None /\ w # Server
    BY <1>4 DEF NewReaderFirst, Readers, locals
  <2>1. \A i \in DOMAIN eventlist : eventlist[i] # Listen
    BY DEF ServerInv, NewReaderFirst
  <2>2. f # Listen
    BY <1>2, <2>1 DEF f
  <2>3. w # Server
    BY <1>2, <1>3, <2>2, ServerFacts DEF ServerInv, PollsOwn
  <2>. QED  BY <1>5, <2>1, <2>3 DEF ServerInv, NewReaderFirst
<1>. QED  BY <1>1, <1>4, <1>6, LocalsKept DEF sockets, ServerInv, LocalsTyped

\* nty_poll_inner returns.
LEMMA PollReturnServer ==
    ASSUME ServerInv, NEW c \in Co, PollReturn(c), UNCHANGED <<locals, sockets>>
    PROVE  ServerInv'
<1>1. SchedulerInv'
  BY PollReturnStep DEF ServerInv
<1>2. /\ curr_thread = c /\ polled[c] # None /\ pc = "co"
      /\ polled' = [polled EXCEPT ![c] = None]
      /\ UNCHANGED <<live, sleeping, eventlist, curr_thread, pc>>
  BY DEF PollReturn, desched_wait, control
<1>3. polled \in [Co -> Fd \cup {None}]
  BY DEF ServerInv, SchedulerInv, TypeOK
<1>4. NewReaderFirst'
  <2>. SUFFICES ASSUME NEW d \in Readers, step[d] = "start"
                PROVE  /\ \A i \in DOMAIN eventlist : eventlist[i] # Listen
                       /\ step[Server] = "accept" =>
                            polled'[Server] # None /\ curr_thread # Server
    BY <1>2 DEF NewReaderFirst, Readers, locals
  <2>1. ASSUME step[Server] = "accept" PROVE c # Server /\ polled[Server] # None
    BY <1>2, <2>1 DEF ServerInv, NewReaderFirst
  <2>. QED  BY <1>2, <1>3, <2>1, ServerFacts DEF ServerInv, NewReaderFirst
<1>. QED  BY <1>1, <1>2, <1>3, <1>4, LocalsKept DEF sockets, ServerInv, LocalsTyped

\* The scheduler, and the part of nty_poll_inner after its yield.
LEMMA RuntimeStep ==
    ASSUME ServerInv, Runtime
    PROVE  ServerInv'
<1>. USE DEF queues, fields, control, kernel
<1>1. UNCHANGED <<locals, sockets>> /\ backlog' \in Nat
  BY DEF Runtime, sockets, ServerInv, LocalsTyped
<1>2. CASE Loop \/ NoneExpired \/ ReadyEmpty \/ EpollSkip \/ EpollTimeout \/ EventsDone
  <2>1. SchedulerInv'
    BY <1>2, ControlStep DEF ServerInv
  <2>2. UNCHANGED <<live, sleeping, polled, curr_thread, eventlist>> /\ pc' # "block"
    BY <1>2 DEF Loop, NoneExpired, ReadyEmpty, EpollSkip, EpollTimeout, EventsDone
  <2>. QED  BY <1>1, <2>1, <2>2, QuietServerStep DEF sockets
<1>3. CASE EpollWait
  <2>1. SchedulerInv'
    BY <1>3, ControlStep DEF ServerInv
  <2>2. UNCHANGED <<live, sleeping, polled, curr_thread, eventlist>> /\ ready = <<>> /\ pc # "co"
    BY <1>3 DEF EpollWait
  <2>. QED  BY <1>1, <2>1, <2>2, QuietServerStep DEF sockets
<1>4. CASE EpollEvents
  <2>1. SchedulerInv'
    BY <1>4, EpollEventsStep DEF ServerInv
  <2>2. UNCHANGED <<live, sleeping, polled>> /\ pc = "block"
    BY <1>4 DEF EpollEvents
  <2>3. NewReaderFirst'
    BY <1>1, <2>2, NoNewReader DEF NewReaderFirst, Readers, locals
  <2>. QED  BY <1>1, <2>1, <2>2, <2>3, LocalsKept DEF sockets
<1>5. ~ResumeExpired
  BY DEF ResumeExpired, Due, ServerInv
<1>6. CASE RunReady
  BY <1>1, <1>6, RunReadyServer
<1>7. CASE Dispatch
  BY <1>1, <1>7, DispatchServer
<1>8. CASE \E c \in Co : PollReturn(c)
  BY <1>1, <1>8, PollReturnServer
<1>. QED  BY <1>2, <1>3, <1>4, <1>5, <1>6, <1>7, <1>8 DEF Runtime, Scheduler

\* A connection comes in, or a descriptor in the epoll set has something to report.
LEMMA KernelStep ==
    ASSUME ServerInv,
           Connect \/ Readable \/ \E f \in Clients, e \in {"in", "hup"} : ClientEvent(f, e)
    PROVE  ServerInv'
<1>. USE DEF queues, fields, control, kernel
<1>1. CASE Connect
  <2>1. UNCHANGED vars /\ UNCHANGED <<locals, open, failures>> /\ backlog' \in Nat
    BY <1>1 DEF Connect, ServerInv, LocalsTyped
  <2>2. SchedulerInv'
    BY <2>1, NoSchedulerStep DEF ServerInv
  <2>. QED  BY <2>1, <2>2, QuietServerStep DEF vars
<1>2. ASSUME NEW f \in Fd, NEW e \in {"in", "hup"}, Arrive(f, e), UNCHANGED <<locals, sockets>>
      PROVE  ServerInv'
  <2>1. SchedulerInv'
    BY <1>2, ArriveStep DEF ServerInv
  <2>2. UNCHANGED <<live, sleeping, polled, curr_thread, eventlist, pc>> /\ backlog' \in Nat
    BY <1>2 DEF Arrive, sockets, ServerInv, LocalsTyped
  <2>. QED  BY <1>2, <2>1, <2>2, QuietServerStep DEF sockets
<1>. QED  BY <1>1, <1>2, ServerFacts DEF Readable, ClientEvent

-----------------------------------------------------------------------------
(* Steps of server() and of server_reader() *)

\* The function that runs is the server, or a reader.
LEMMA Caller ==
    ASSUME ServerInv, NEW c \in Co, Acts(c)
    PROVE  /\ c \in live /\ polled[c] = None /\ curr_thread = c /\ pc = "co"
           /\ c # Server => c \in Readers
BY Actor DEF ServerInv, Readers

\* nty_accept waits for a connection.
LEMMA ServerPolls ==
    ASSUME ServerInv, PollWait(Server, Listen, FALSE),
           step' = [step EXCEPT ![Server] = "accept"], UNCHANGED <<cli_fd, fd, sockets>>
    PROVE  ServerInv'
<1>1. polled[Server] = None /\ Server \in Co /\ Server \in live /\ curr_thread = Server
  BY Caller, ServerFacts DEF PollWait
<1>2. waiting[Listen] = None /\ \A i \in DOMAIN eventlist : eventlist[i] # Listen
  BY <1>1, ServerElsewhere
<1>3. SchedulerInv'
  BY <1>2, PollWaitStep, ServerFacts DEF ServerInv
<1>4. ~wait_refused(Server, Listen)
  BY <1>1, <1>2 DEF wait_refused, ServerInv, SchedulerInv, StatusClear
<1>5. /\ polled' = [polled EXCEPT ![Server] = Listen] /\ curr_thread' = None
      /\ UNCHANGED <<eventlist, live, sleeping>>
  BY <1>4 DEF PollWait, Switch
<1>6. pc' # "block"
  BY <1>4, BackPlace DEF PollWait, Switch, ServerInv
<1>7. /\ step \in [Co -> {"start", "accept", "recv", "received", "send", "resend"}]
      /\ polled \in [Co -> Fd \cup {None}]
  BY DEF ServerInv, LocalsTyped, SchedulerInv, TypeOK
<1>8. /\ \A c \in Co \ {Server} : step'[c] = step[c] /\ polled'[c] = polled[c]
      /\ step'[Server] = "accept" /\ polled'[Server] = Listen
  BY <1>1, <1>5, <1>7
<1>9. LocalsTyped'
  BY <1>7 DEF ServerInv, LocalsTyped, sockets
<1>10. PollsOwn'
  BY <1>5, <1>8 DEF ServerInv, PollsOwn
<1>11. Readers' = Readers /\ \A c \in Readers : c \in Co \ {Server} /\ Serves(c)' = Serves(c)
  BY <1>5, <1>8 DEF Readers, Serves, ServerInv, SchedulerInv, TypeOK
<1>12. OwnDescriptor' /\ AllServed'
  BY <1>11 DEF ServerInv, OwnDescriptor, AllServed, sockets
<1>13. NewReaderFirst'
  BY <1>2, <1>5, <1>6, <1>8, ServerFacts DEF NewReaderFirst
<1>. QED  BY <1>3, <1>5, <1>9, <1>10, <1>12, <1>13 DEF ServerInv

\* nty_accept has returned: the server creates a reader of f, which nobody serves
\* yet, or of -1.
LEMMA ReaderCreated ==
    ASSUME ServerInv, Acts(Server), step[Server] = "accept", NEW n \in Co, Create(n),
           NEW f \in Clients \cup {BadFd}, cli_fd' = f,
           open' = (open \cup {f}) \ {BadFd},
           \A c \in Readers : Serves(c) = f => f = BadFd /\ failures' >= 2,
           step' = [step EXCEPT ![Server] = "start"], UNCHANGED fd,
           backlog' \in Nat, failures' \in 0 .. MaxFailures,
           f = BadFd => failures' # 0, failures' >= failures
    PROVE  ServerInv'
<1>1. polled[Server] = None /\ Server \in Co /\ Server \in live /\ curr_thread = Server /\ pc = "co"
  BY Caller, ServerFacts
<1>2. \A i \in DOMAIN eventlist : eventlist[i] # Listen
  BY <1>1, ServerElsewhere
<1>3. SchedulerInv'
  BY CreateStep DEF ServerInv
<1>4. /\ live' = live \cup {n} /\ n \notin live /\ n # Server
      /\ UNCHANGED <<sleeping, polled, eventlist, curr_thread, pc>>
  BY <1>1 DEF Create, control
<1>5. /\ step \in [Co -> {"start", "accept", "recv", "received", "send", "resend"}]
      /\ live \subseteq Co /\ open \subseteq Clients
  BY DEF ServerInv, LocalsTyped, SchedulerInv, TypeOK
<1>6. step'[Server] = "start" /\ \A c \in Co \ {Server} : step'[c] = step[c]
  BY <1>1, <1>5
<1>7. \A c \in Readers : c \in Co \ {Server} /\ step[c] # "start"
  BY <1>1, <1>5 DEF ServerInv, NewReaderFirst, Readers
<1>8. step[n] = "start"
  BY <1>4 DEF ServerInv, PollsOwn
<1>9. Readers' = Readers \cup {n} /\ n \notin Readers
  BY <1>4 DEF Readers
<1>10. Serves(n)' = f /\ \A c \in Readers : Serves(c)' = Serves(c)
  BY <1>4, <1>6, <1>7, <1>8 DEF Serves
<1>11. LocalsTyped'
  BY <1>5 DEF ServerInv, LocalsTyped
<1>12. PollsOwn'
  BY <1>1, <1>4, <1>6 DEF ServerInv, PollsOwn
<1>13. /\ open \subseteq open' /\ f \in open' \cup {BadFd} /\ open' \subseteq open \cup {f}
  BY <1>5, ServerFacts
<1>14. OwnDescriptor'
  <2>0. failures \in Nat /\ failures' \in Nat
    BY ServerFacts DEF ServerInv, LocalsTyped
  <2>1. ASSUME NEW c \in Readers', NEW d \in Readers', Serves(c)' = Serves(d)'
        PROVE  c = d \/ (Serves(c)' = BadFd /\ failures' >= 2)
    <3>1. CASE c = n \/ d = n
      BY <1>9, <1>10, <2>1, <3>1
    <3>2. CASE c # n /\ d # n
      BY <1>9, <1>10, <2>0, <2>1, <3>2 DEF ServerInv, OwnDescriptor
    <3>. QED  BY <3>1, <3>2
  <2>2. ASSUME NEW c \in Readers' PROVE Serves(c)' \in open' \cup {BadFd}
    BY <1>9, <1>10, <1>13 DEF ServerInv, OwnDescriptor
  <2>3. ASSUME failures' = 0, NEW c \in Readers' PROVE Serves(c)' # BadFd
    <3>1. failures = 0
      BY <2>0, <2>3
    <3>. QED  BY <1>9, <1>10, <2>3, <3>1 DEF ServerInv, OwnDescriptor
  <2>. QED  BY <2>1, <2>2, <2>3 DEF OwnDescriptor
<1>15. AllServed'
  BY <1>9, <1>10, <1>13 DEF ServerInv, AllServed
<1>16. NewReaderFirst'
  BY <1>1, <1>2, <1>4, <1>6 DEF NewReaderFirst
<1>. QED  BY <1>3, <1>4, <1>11, <1>12, <1>14, <1>15, <1>16 DEF ServerInv

\* The steps of server().
LEMMA ServerLoopStep ==
    ASSUME ServerInv, ServerLoop
    PROVE  ServerInv'
<1>1. /\ step \in [Co -> {"start", "accept", "recv", "received", "send", "resend"}]
      /\ open \subseteq Clients /\ backlog \in Nat /\ failures \in 0 .. MaxFailures
  BY DEF ServerInv, LocalsTyped
<1>2. CASE AcceptPoll
  BY <1>2, ServerPolls DEF AcceptPoll, Goes
<1>3. CASE AcceptAgain
  <2>1. step' = [step EXCEPT ![Server] = "accept"]
    BY <1>1, <1>3 DEF AcceptAgain, locals
  <2>. QED  BY <1>3, <2>1, ServerPolls DEF AcceptAgain, locals
<1>4. ASSUME NEW n \in Co, NEW f \in Clients, Accept(n, f) PROVE ServerInv'
  <2>1. /\ Acts(Server) /\ step[Server] = "accept" /\ backlog > 0 /\ f \notin open /\ Create(n)
        /\ backlog' = backlog - 1 /\ open' = open \cup {f} /\ cli_fd' = f
        /\ step' = [step EXCEPT ![Server] = "start"] /\ UNCHANGED <<fd, failures>>
    BY <1>4 DEF Accept, Goes
  <2>2. /\ open' = (open \cup {f}) \ {BadFd} /\ f # BadFd /\ backlog' \in Nat
        /\ failures' \in 0 .. MaxFailures /\ failures' >= failures
    BY <1>1, <2>1, ServerFacts
  <2>3. \A c \in Readers : Serves(c) # f
    BY <2>1, <2>2 DEF ServerInv, OwnDescriptor
  <2>. QED  BY <1>1, <2>1, <2>2, <2>3, ReaderCreated
<1>5. ASSUME NEW n \in Co, AcceptFails(n) PROVE ServerInv'
  <2>1. /\ Acts(Server) /\ step[Server] = "accept" /\ backlog > 0 /\ Create(n)
        /\ backlog' \in {backlog - 1, backlog} /\ cli_fd' = BadFd
        /\ failures < MaxFailures /\ failures' = failures + 1
        /\ step' = [step EXCEPT ![Server] = "start"] /\ UNCHANGED <<fd, open>>
    BY <1>5 DEF AcceptFails, Goes
  <2>2. /\ open' = (open \cup {BadFd}) \ {BadFd} /\ backlog' \in Nat
        /\ failures' \in 0 .. MaxFailures /\ failures' # 0 /\ failures' >= failures
    BY <1>1, <2>1, ServerFacts
  <2>3. ASSUME NEW c \in Readers, Serves(c) = BadFd PROVE failures' >= 2
    <3>1. failures # 0
      BY <2>3 DEF ServerInv, OwnDescriptor
    <3>. QED  BY <1>1, <2>1, <3>1, ServerFacts
  <2>. QED  BY <2>1, <2>2, <2>3, ReaderCreated
<1>. QED  BY <1>2, <1>3, <1>4, <1>5 DEF ServerLoop

\* A reader goes on, and serves what it served.
LEMMA ReaderMoves ==
    ASSUME ServerInv, SchedulerInv', NEW c \in Readers, polled[c] = None,
           NEW s \in {"recv", "received", "send", "resend"},
           step' = [step EXCEPT ![c] = s], UNCHANGED <<cli_fd, sockets, live, sleeping, eventlist>>,
           fd' = [fd EXCEPT ![c] = Serves(c)],
           \/ UNCHANGED polled
           \/ s \in {"received", "resend"} /\ polled' = [polled EXCEPT ![c] = Serves(c)],
           pc' # "block", curr_thread' \in {curr_thread, None}
    PROVE  ServerInv'
<1>1. c \in Co /\ c # Server /\ c \in live
  BY DEF Readers, ServerInv, SchedulerInv, TypeOK
<1>2. /\ step \in [Co -> {"start", "accept", "recv", "received", "send", "resend"}]
      /\ fd \in [Co -> Clients \cup {BadFd, None}] /\ polled \in [Co -> Fd \cup {None}]
      /\ open \subseteq Clients
  BY DEF ServerInv, LocalsTyped, SchedulerInv, TypeOK
<1>3. Serves(c) \in Clients \cup {BadFd}
  BY <1>2 DEF ServerInv, OwnDescriptor
<1>4. /\ step'[c] = s /\ fd'[c] = Serves(c)
      /\ \A d \in Co \ {c} : step'[d] = step[d] /\ fd'[d] = fd[d] /\ polled'[d] = polled[d]
  BY <1>1, <1>2
<1>5. polled'[c] # None => polled'[c] = Serves(c) /\ s \in {"received", "resend"}
  BY <1>1, <1>2
<1>6. LocalsTyped'
  BY <1>2, <1>3 DEF ServerInv, LocalsTyped, sockets
<1>7. PollsOwn'
  BY <1>1, <1>4, <1>5, ServerFacts DEF ServerInv, PollsOwn
<1>8. Readers' = Readers /\ \A d \in Readers : Serves(d)' = Serves(d)
  BY <1>1, <1>4 DEF Readers, Serves, ServerInv, SchedulerInv, TypeOK
<1>9. OwnDescriptor' /\ AllServed'
  BY <1>8 DEF ServerInv, OwnDescriptor, AllServed, sockets
<1>10. NewReaderFirst'
  <2>. SUFFICES ASSUME NEW d \in Readers, step'[d] = "start"
                PROVE  /\ \A i \in DOMAIN eventlist : eventlist[i] # Listen
                       /\ step'[Server] = "accept" =>
                            polled'[Server] # None /\ curr_thread' # Server
    BY <1>8 DEF NewReaderFirst
  <2>1. step[d] = "start"
    BY <1>4 DEF Readers, ServerInv, SchedulerInv, TypeOK
  <2>. QED  BY <1>1, <1>4, <2>1, ServerFacts DEF ServerInv, NewReaderFirst
<1>. QED  BY <1>6, <1>7, <1>9, <1>10 DEF ServerInv

\* A reader waits for its descriptor, or the process ends there.
LEMMA ReaderPolls ==
    ASSUME ServerInv, NEW c \in Co, c # Server, step[c] # "start", NEW w \in BOOLEAN,
           PollWait(c, fd[c], w), NEW s \in {"received", "resend"},
           step' = [step EXCEPT ![c] = s], UNCHANGED <<cli_fd, fd, sockets>>
    PROVE  ServerInv' \/ AfterAbort'
<1>1. polled[c] = None /\ c \in Readers /\ curr_thread = c
  BY Caller DEF PollWait
<1>2. /\ fd[c] \in Fd /\ Serves(c) = fd[c]
      /\ waiting[fd[c]] # None =>
           /\ fd[c] = BadFd /\ failures >= 2
           /\ \E d \in Readers : d # c /\ waiting[BadFd] = d /\ fd[d] = BadFd
  BY <1>1, ReaderElsewhere DEF Serves
<1>3. CASE waiting[fd[c]] = None
  <2>3. SchedulerInv'
    BY <1>2, <1>3, PollWaitStep DEF ServerInv
  <2>4. ~wait_refused(c, fd[c])
    BY <1>1, <1>3 DEF wait_refused, ServerInv, SchedulerInv, StatusClear
  <2>5. /\ polled' = [polled EXCEPT ![c] = Serves(c)] /\ curr_thread' = None
        /\ UNCHANGED <<eventlist, live, sleeping>>
    BY <1>2, <2>4 DEF PollWait, Switch
  <2>6. pc' # "block"
    BY <2>4, BackPlace DEF PollWait, Switch, ServerInv
  <2>7. fd' = [fd EXCEPT ![c] = Serves(c)]
    BY <1>2 DEF ServerInv, LocalsTyped
  <2>. QED  BY <1>1, <2>3, <2>5, <2>6, <2>7, ReaderMoves
<1>4. CASE waiting[fd[c]] # None
  <2>1. pc' = "abort" /\ UNCHANGED <<curr_thread, waiting, live>>
    BY <1>4 DEF PollWait, wait_refused, Abort
  <2>2. OnlyBadFdAborts'
    BY <1>1, <1>2, <1>4, <2>1 DEF OnlyBadFdAborts, Readers, sockets
  <2>3. Readers' = Readers /\ \A d \in Readers : Serves(d)' = Serves(d)
    BY <1>1, <2>1 DEF Readers, Serves, ServerInv, LocalsTyped, SchedulerInv, TypeOK
  <2>4. OwnDescriptor' /\ AllServed'
    BY <2>3 DEF ServerInv, OwnDescriptor, AllServed, sockets
  <2>5. BadFd \notin open'
    BY ServerFacts DEF ServerInv, LocalsTyped, sockets
  <2>. QED  BY <2>1, <2>2, <2>4, <2>5 DEF AfterAbort
<1>. QED  BY <1>3, <1>4

\* A reader goes on without a wait.
LEMMA ReaderGoes ==
    ASSUME ServerInv, NEW c \in Co, c # Server, Acts(c), UNCHANGED <<vars, cli_fd, sockets>>,
           NEW s \in {"recv", "send"}, step' = [step EXCEPT ![c] = s],
           fd' = [fd EXCEPT ![c] = Serves(c)]
    PROVE  ServerInv'
<1>1. polled[c] = None /\ c \in Readers /\ pc = "co"
  BY Caller
<1>2. SchedulerInv'
  BY NoSchedulerStep DEF ServerInv
<1>3. UNCHANGED <<live, sleeping, eventlist, polled, pc, curr_thread>>
  BY DEF vars, queues, fields, control
<1>. QED  BY <1>1, <1>2, <1>3, ReaderMoves

\* A reader closes its connection and returns.
LEMMA ReaderCloses ==
    ASSUME ServerInv, NEW c \in Co, c # Server, step[c] # "start", CloseAndExit(c)
    PROVE  ServerInv'
<1>1. polled[c] = None /\ c \in Readers
  BY Caller DEF CloseAndExit, Exit
<1>2. SchedulerInv'
  BY ExitStep DEF ServerInv, CloseAndExit
<1>3. /\ live' = live \ {c} /\ curr_thread' = None
      /\ UNCHANGED <<sleeping, polled, eventlist, cli_fd, backlog, failures>>
      /\ open' = open \ {fd[c]} /\ step' = [step EXCEPT ![c] = "start"]
      /\ fd' = [fd EXCEPT ![c] = None]
  BY DEF CloseAndExit, Exit, Free, Goes
<1>4. pc' # "block"
  BY BackPlace DEF CloseAndExit, Exit, ServerInv
<1>5. /\ step \in [Co -> {"start", "accept", "recv", "received", "send", "resend"}]
      /\ fd \in [Co -> Clients \cup {BadFd, None}] /\ live \subseteq Co
  BY DEF ServerInv, LocalsTyped, SchedulerInv, TypeOK
<1>6. /\ step'[c] = "start"
      /\ \A d \in Co \ {c} : step'[d] = step[d] /\ fd'[d] = fd[d]
  BY <1>3, <1>5
<1>7. LocalsTyped'
  BY <1>3, <1>5 DEF ServerInv, LocalsTyped
<1>8. PollsOwn'
  BY <1>1, <1>3, <1>6, ServerFacts DEF ServerInv, PollsOwn
<1>9. Readers' = Readers \ {c}
  BY <1>3 DEF Readers
<1>10. /\ Serves(c) = fd[c]
       /\ \A d \in Readers' : Serves(d)' = Serves(d) /\ (Serves(d) = fd[c] => fd[c] = BadFd)
  <2>1. Serves(c) = fd[c]
    BY DEF Serves
  <2>2. ASSUME NEW d \in Readers' PROVE Serves(d)' = Serves(d) /\ (Serves(d) = fd[c] => fd[c] = BadFd)
    <3>1. d \in Readers /\ d # c /\ d \in Co
      BY <1>5, <1>9 DEF Readers
    <3>. QED  BY <1>1, <1>3, <1>6, <2>1, <3>1 DEF Serves, ServerInv, OwnDescriptor
  <2>. QED  BY <2>1, <2>2
<1>11. OwnDescriptor'
  BY <1>3, <1>9, <1>10 DEF ServerInv, OwnDescriptor
<1>12. AllServed'
  BY <1>3, <1>9, <1>10 DEF ServerInv, AllServed
<1>13. NewReaderFirst'
  <2>. SUFFICES ASSUME NEW d \in Readers', step'[d] = "start"
                PROVE  /\ \A i \in DOMAIN eventlist : eventlist[i] # Listen
                       /\ step'[Server] = "accept" => polled[Server] # None
    BY <1>3, <1>4, ServerFacts DEF NewReaderFirst
  <2>1. d \in Readers /\ step[d] = "start" /\ step'[Server] = step[Server]
    BY <1>5, <1>6, <1>9, ServerFacts DEF Readers
  <2>. QED  BY <2>1 DEF ServerInv, NewReaderFirst
<1>. QED  BY <1>2, <1>3, <1>7, <1>8, <1>11, <1>12, <1>13 DEF ServerInv

\* The steps of server_reader().
LEMMA ReaderStep ==
    ASSUME ServerInv, NEW c \in Co, Reader(c)
    PROVE  ServerInv' \/ AfterAbort'
<1>1. step[Server] \in {"start", "accept"} /\ fd \in [Co -> Clients \cup {BadFd, None}]
  BY DEF ServerInv, PollsOwn, LocalsTyped
<1>2. CASE ReaderStart(c)
  BY <1>2, ReaderGoes DEF ReaderStart, Goes, Serves
<1>3. CASE RecvPoll(c)
  BY <1>1, <1>3, ReaderPolls DEF RecvPoll, Goes
<1>4. CASE SendPoll(c)
  BY <1>1, <1>4, ReaderPolls DEF SendPoll, Goes
<1>5. CASE RecvReturns(c) \/ SendReturns(c)
  <2>1. /\ Acts(c) /\ step[c] \in {"received", "send", "resend"} /\ c # Server
        /\ UNCHANGED <<vars, cli_fd, fd, sockets>>
        /\ \E s \in {"recv", "send"} : step' = [step EXCEPT ![c] = s]
    BY <1>1, <1>5 DEF RecvReturns, SendReturns, Goes
  <2>2. fd' = [fd EXCEPT ![c] = Serves(c)]
    BY <1>1, <2>1 DEF Serves
  <2>. QED  BY <2>1, <2>2, ReaderGoes
<1>6. CASE RecvEof(c) \/ SendFails(c)
  BY <1>1, <1>6, ReaderCloses DEF RecvEof, SendFails
<1>. QED  BY <1>2, <1>3, <1>4, <1>5, <1>6 DEF Reader

\* main creates the server's coroutine and runs the scheduler.
LEMMA MainStep ==
    ASSUME ServerInv, MainCreate \/ MainRun
    PROVE  ServerInv'
<1>1. CASE MainCreate
  <2>1. SchedulerInv'
    BY <1>1, CreateStep, ServerFacts DEF MainCreate, ServerInv
  <2>2. /\ live = {} /\ live' = {Server} /\ UNCHANGED <<locals, sockets, sleeping, polled>>
    BY <1>1 DEF MainCreate, Create
  <2>3. Readers = {} /\ Readers' = {}
    BY <2>2 DEF Readers
  <2>4. LocalsTyped' /\ OwnDescriptor' /\ NewReaderFirst'
    BY <2>2, <2>3 DEF ServerInv, LocalsTyped, OwnDescriptor, NewReaderFirst, locals, sockets
  <2>5. PollsOwn'
    BY <2>2 DEF ServerInv, PollsOwn, locals
  <2>6. AllServed'
    BY <2>2, <2>3 DEF ServerInv, AllServed, sockets
  <2>. QED  BY <2>1, <2>2, <2>4, <2>5, <2>6 DEF ServerInv
<1>2. CASE MainRun
  <2>1. SchedulerInv'
    BY <1>2, ControlStep DEF MainRun, ServerInv
  <2>2. /\ UNCHANGED <<locals, open, failures, live, sleeping, polled, curr_thread, eventlist>>
        /\ pc' # "block" /\ backlog' \in Nat
    BY <1>2 DEF MainRun, Run, queues, fields, sockets, ServerInv, LocalsTyped
  <2>. QED  BY <2>1, <2>2, QuietServerStep
<1>. QED  BY <1>1, <1>2
-----------------------------------------------------------------------------
(* Theorems *)

LEMMA InitServerInv == ServerInit => ServerInv
<1>. SUFFICES ASSUME ServerInit PROVE ServerInv
  OBVIOUS
<1>1. SchedulerInv
  BY InitSchedulerInv DEF ServerInit
<1>2. live = {} /\ sleeping = {} /\ polled = [c \in Co |-> None] /\ Readers = {}
  BY DEF ServerInit, Init, Readers
<1>3. LocalsTyped /\ PollsOwn
  BY <1>2, ServerFacts DEF ServerInit, LocalsTyped, PollsOwn
<1>4. OwnDescriptor /\ AllServed /\ NewReaderFirst
  BY <1>2 DEF ServerInit, OwnDescriptor, AllServed, NewReaderFirst
<1>. QED  BY <1>1, <1>2, <1>3, <1>4 DEF ServerInv

\* Nothing happens after the end of the process.
LEMMA NothingAfterAbort ==
    ASSUME AfterAbort, [ServerNext]_svars
    PROVE  AfterAbort'
<1>1. pc = "abort"
  BY DEF AfterAbort
<1>2. UNCHANGED svars
  <2>1. ~Runtime
    BY <1>1 DEF Runtime, Scheduler, Loop, ResumeExpired, NoneExpired, RunReady, ReadyEmpty,
           EpollSkip, EpollWait, EpollEvents, EpollTimeout, Dispatch, EventsDone, PollReturn
  <2>2. ~MainCreate /\ ~MainRun /\ ~ServerLoop
    BY <1>1 DEF MainCreate, MainRun, Run, ServerLoop, AcceptPoll, AcceptAgain, Accept, AcceptFails,
           PollWait, Acts, Running
  <2>3. \A c \in Co : ~Reader(c)
    BY <1>1 DEF Reader, ReaderStart, RecvPoll, RecvReturns, RecvEof, SendReturns, SendPoll,
           SendFails, CloseAndExit, Exit, PollWait, Acts, Running
  <2>4. ~Connect /\ ~Readable /\ \A f \in Clients, e \in {"in", "hup"} : ~ClientEvent(f, e)
    BY <1>1 DEF Connect, Readable, ClientEvent, Arrive
  <2>. QED  BY <2>1, <2>2, <2>3, <2>4 DEF ServerNext, Program, Aborted
<1>. QED  BY <1>2 DEF svars, vars, queues, control, locals, sockets, AfterAbort, OnlyBadFdAborts,
               OwnDescriptor, AllServed, Readers, Serves

\* The echo server on the runtime keeps the runtime's invariant, and its readers have
\* their descriptors each for itself, until the process ends at its second reader of -1.
THEOREM ServerInvariant == ServerSpec => [](ServerInv \/ AfterAbort)
<1>1. ASSUME ServerInv, [ServerNext]_svars PROVE ServerInv' \/ AfterAbort'
  <2>1. CASE UNCHANGED svars
    <3>1. SchedulerInv' /\ UNCHANGED vars /\ UNCHANGED <<locals, sockets>>
      BY <1>1, <2>1, NoSchedulerStep DEF svars, ServerInv
    <3>2. /\ UNCHANGED <<locals, open, failures, live, sleeping, polled, curr_thread, eventlist, pc>>
          /\ backlog' \in Nat
      BY <1>1, <3>1 DEF vars, queues, fields, control, sockets, ServerInv, LocalsTyped
    <3>. QED  BY <1>1, <3>1, <3>2, QuietServerStep
  <2>. QED  BY <1>1, <2>1, RuntimeStep, KernelStep, ServerLoopStep, ReaderStep, MainStep
            DEF ServerNext, Program, Aborted
<1>2. (ServerInv \/ AfterAbort) /\ [ServerNext]_svars => (ServerInv \/ AfterAbort)'
  BY <1>1, NothingAfterAbort
<1>. QED  BY <1>2, InitServerInv, PTL DEF ServerSpec

\* No assertion of nty_schedule_sched_wait fails and every event finds its coroutine, but
\* for the wait of a second reader of -1, which takes two failed calls of accept.
THEOREM AbortsOnlyOnBadFd == ServerSpec => []OnlyBadFdAborts
<1>1. ServerInv \/ AfterAbort => OnlyBadFdAborts
  BY DEF ServerInv, SchedulerInv, NoAbort, AfterAbort, OnlyBadFdAborts
<1>. QED  BY <1>1, ServerInvariant, PTL

\* Each connection has its reader and no other, although every reader is handed the address
\* of the one variable that the next accept overwrites.
THEOREM EachConnectionServed == ServerSpec => []OneReaderPerConnection
<1>1. ServerInv \/ AfterAbort => OneReaderPerConnection
  <2>. SUFFICES ASSUME OwnDescriptor, AllServed, NEW f \in open, f # BadFd
                PROVE  Cardinality({c \in live \ {Server} : Serves(c) = f}) = 1
    BY ServerFacts DEF OneReaderPerConnection, ServerInv, AfterAbort, LocalsTyped
  <2>1. PICK c \in Readers : Serves(c) = f
    BY DEF AllServed
  <2>2. {d \in live \ {Server} : Serves(d) = f} = {c}
    BY <2>1 DEF OwnDescriptor, Readers
  <2>. QED  BY <2>2, FS_Singleton
<1>. QED  BY <1>1, ServerInvariant, PTL
=============================================================================
