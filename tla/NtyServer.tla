----------------------------- MODULE NtyServer -----------------------------
(***************************************************************************)
(* The echo server of jiagoushi/chap2.7/NtyCo/sample/nty_server.c on the   *)
(* NtyCo runtime, with the socket calls of nty_socket.c it makes: the      *)
(* coroutine of one listening port accepts connections and creates a       *)
(* reader for each, to which it passes the address of its local cli_fd.    *)
(*                                                                         *)
(* No coroutine of it sleeps, so the clock of NtyCo stands still.          *)
(***************************************************************************)
EXTENDS NtyCo

CONSTANTS Server,           \* the coroutine that runs server()
          Listen,           \* its listening descriptor
          BadFd,            \* -1
          MaxFailures       \* bound: how often accept fails

ASSUME ServerAssumption ==
    /\ Server \in Co /\ {Listen, BadFd} \subseteq Fd /\ Listen # BadFd
    /\ MaxFailures \in Nat

VARIABLES
    backlog,                \* connections that wait to be accepted
    open,                   \* connected descriptors
    cli_fd,                 \* the local variable of server()
    fd,                     \* the local variable of each server_reader()
    step,                   \* how far each function has come
    failures                \* how often accept has failed

locals == <<cli_fd, fd, step>>
sockets == <<backlog, open, failures>>
svars == <<vars, locals, sockets>>

Clients == Fd \ {Listen, BadFd}
Goes(c, s) == step' = [step EXCEPT ![c] = s]

\* The reader of a connection closes it and returns.
CloseAndExit(c) ==
    /\ Exit(c)
    /\ open' = open \ {fd[c]}
    /\ Goes(c, "start")
    /\ fd' = [fd EXCEPT ![c] = None]
    /\ UNCHANGED <<cli_fd, backlog, failures>>
-----------------------------------------------------------------------------
(* main and server() *)

MainCreate ==
    /\ pc = "main" /\ live = {}
    /\ Create(Server)
    /\ UNCHANGED <<locals, sockets>>

MainRun == live # {} /\ Run /\ UNCHANGED <<locals, sockets>>

\* Mutant of AcceptPoll: accept is tried before anything is waited for.
AcceptPoll_TryFirst ==
    /\ Acts(Server) /\ step[Server] = "start"
    /\ Goes(Server, "accept")
    /\ UNCHANGED <<vars, cli_fd, fd, sockets>>

\* nty_accept polls the listening socket; server() has opened it before.
AcceptPoll ==
    /\ step[Server] = "start"
    /\ PollWait(Server, Listen, FALSE)
    /\ Goes(Server, "accept")
    /\ UNCHANGED <<cli_fd, fd, sockets>>

\* accept says EAGAIN.
AcceptAgain ==
    /\ step[Server] = "accept" /\ backlog = 0
    /\ PollWait(Server, Listen, FALSE)
    /\ UNCHANGED <<locals, sockets>>

\* nty_accept returns the new connection f, and server() creates a reader for it.
Accept(n, f) ==
    /\ Acts(Server) /\ step[Server] = "accept"
    /\ backlog > 0 /\ f \in Clients \ open
    /\ Create(n)
    /\ backlog' = backlog - 1
    /\ open' = open \cup {f}
    /\ cli_fd' = f
    /\ Goes(Server, "start")
    /\ UNCHANGED <<fd, failures>>

\* nty_accept returns -1, for ECONNABORTED (the connection is gone), or for EMFILE
\* or ENFILE (it waits on): server() creates a reader all the same, of -1.  Two such
\* readers are one more than the runtime can bear, whatever the bound.
AcceptFails(n) ==
    /\ Acts(Server) /\ step[Server] = "accept"
    /\ backlog > 0 /\ failures < MaxFailures
    /\ Create(n)
    /\ backlog' \in {backlog - 1, backlog}
    /\ failures' = failures + 1
    /\ cli_fd' = BadFd
    /\ Goes(Server, "start")
    /\ UNCHANGED <<fd, open>>
-----------------------------------------------------------------------------
(* server_reader() *)

\* It reads the descriptor through the address it got.
ReaderStart(c) ==
    /\ Acts(c) /\ c # Server /\ step[c] = "start"
    /\ fd' = [fd EXCEPT ![c] = cli_fd]
    /\ Goes(c, "recv")
    /\ UNCHANGED <<vars, cli_fd, sockets>>

RecvPoll(c) ==
    /\ step[c] = "recv"
    /\ PollWait(c, fd[c], FALSE)
    /\ Goes(c, "received")
    /\ UNCHANGED <<cli_fd, fd, sockets>>

\* recv returned data to echo, or failed, which the loop does not look at.
RecvReturns(c) ==
    /\ Acts(c) /\ step[c] = "received"
    /\ \/ Goes(c, "send")
       \/ Goes(c, "recv")
    /\ UNCHANGED <<vars, cli_fd, fd, sockets>>

\* Mutant of RecvEof: the loop goes on after the close.
RecvEof_NoBreak(c) ==
    /\ Acts(c) /\ step[c] = "received"
    /\ open' = open \ {fd[c]}
    /\ Goes(c, "recv")
    /\ UNCHANGED <<vars, cli_fd, fd, backlog, failures>>

\* recv returned 0.
RecvEof(c) ==
    /\ step[c] = "received"
    /\ CloseAndExit(c)

\* nty_send has sent all, or a part of it before send failed.
SendReturns(c) ==
    /\ Acts(c) /\ step[c] \in {"send", "resend"}
    /\ Goes(c, "recv")
    /\ UNCHANGED <<vars, cli_fd, fd, sockets>>

\* nty_send has something left to send.
SendPoll(c) ==
    /\ step[c] \in {"send", "resend"}
    /\ PollWait(c, fd[c], TRUE)
    /\ Goes(c, "resend")
    /\ UNCHANGED <<cli_fd, fd, sockets>>

\* send failed after the poll and nothing was sent: nty_send returns -1.
SendFails(c) ==
    /\ step[c] = "resend"
    /\ CloseAndExit(c)
-----------------------------------------------------------------------------
(* The kernel *)

Connect ==
    /\ pc # "abort"
    /\ backlog + Cardinality(open) < Cardinality(Clients)   \* bound
    /\ backlog' = backlog + 1
    /\ UNCHANGED <<vars, locals, open, failures>>

Readable == Arrive(Listen, "in") /\ UNCHANGED <<locals, sockets>>

ClientEvent(f, e) ==
    /\ f \in open
    /\ Arrive(f, e)
    /\ UNCHANGED <<locals, sockets>>
-----------------------------------------------------------------------------
\* The process has ended at an assertion.
Aborted == pc = "abort" /\ UNCHANGED svars

ServerInit ==
    /\ Init
    /\ backlog = 0 /\ open = {} /\ failures = 0
    /\ cli_fd = BadFd
    /\ fd = [c \in Co |-> None]
    /\ step = [c \in Co |-> "start"]

Runtime == (Scheduler \/ \E c \in Co : PollReturn(c)) /\ UNCHANGED <<locals, sockets>>

ServerLoop ==
    \/ AcceptPoll \/ AcceptAgain
    \/ \E n \in Co : AcceptFails(n) \/ \E f \in Clients : Accept(n, f)

Reader(c) ==
    \/ ReaderStart(c) \/ RecvPoll(c) \/ RecvReturns(c) \/ RecvEof(c)
    \/ SendReturns(c) \/ SendPoll(c) \/ SendFails(c)

Program == MainCreate \/ MainRun \/ ServerLoop \/ \E c \in Co : Reader(c)

ServerNext ==
    \/ Runtime \/ Program \/ Connect \/ Readable \/ Aborted
    \/ \E f \in Clients, e \in {"in", "hup"} : ClientEvent(f, e)

\* The program and the scheduler run on, and a connection that waits is reported.
ServerFairness ==
    /\ WF_svars(Runtime) /\ WF_svars(Program)
    /\ WF_svars(backlog > 0 /\ Readable)

ServerSpec == ServerInit /\ [][ServerNext]_svars /\ ServerFairness
-----------------------------------------------------------------------------
(* Properties *)

\* The descriptor a reader works on, or will read through the address it got.
Serves(c) == IF step[c] = "start" THEN cli_fd ELSE fd[c]

\* Every connection has exactly one reader, though all the readers get the address
\* of the same variable and the next accept overwrites it.
OneReaderPerConnection ==
    \A f \in open : Cardinality({c \in live \ {Server} : Serves(c) = f}) = 1

Readers == live \ {Server}

\* No assertion of the runtime fails but one: the reader that the second failed accept
\* leads to waits for -1, where the reader of the first waits for ever.
OnlyBadFdAborts ==
    pc = "abort" =>
        /\ failures >= 2
        /\ \E c, d \in Readers : /\ c # d /\ curr_thread = c /\ waiting[BadFd] = d
                                 /\ fd[c] = BadFd /\ fd[d] = BadFd

\* While connections wait, the server comes to its accept again and again, whatever
\* the readers do, unless the process ends at that assertion.
ConnectionsAccepted ==
    (backlog > 0) ~> ((curr_thread = Server /\ step[Server] = "accept") \/ pc = "abort")

\* A reader whose connection has something to read, or is gone, is resumed, with the
\* same proviso.
ReadersServed ==
    \A f \in Clients : (f \in open /\ event[f] # "none") ~> (event[f] = "none" \/ pc = "abort")

-----------------------------------------------------------------------------
(* The inductive invariant behind OneReaderPerConnection and OnlyBadFdAborts *)

LocalsTyped ==
    /\ backlog \in Nat /\ open \subseteq Clients /\ failures \in 0 .. MaxFailures
    /\ cli_fd \in Clients \cup {BadFd}
    /\ fd \in [Co -> Clients \cup {BadFd, None}]
    /\ step \in [Co -> {"start", "accept", "recv", "received", "send", "resend"}]

\* Which descriptor a function polls, and how far it has come by then.
PollsOwn ==
    /\ step[Server] \in {"start", "accept"}
    /\ polled[Server] # None => polled[Server] = Listen /\ step[Server] = "accept"
    /\ \A c \in Co \ {Server} :
          /\ step[c] # "accept"
          /\ step[c] # "start" => c \in live
          /\ polled[c] # None => polled[c] = fd[c] /\ step[c] \in {"received", "resend"}

\* Readers share no descriptor but -1, which takes two failures, and serve what is open.
OwnDescriptor ==
    /\ \A c, d \in Readers : Serves(c) = Serves(d) => c = d \/ (Serves(c) = BadFd /\ failures >= 2)
    /\ \A c \in Readers : Serves(c) \in open \cup {BadFd}
    /\ failures = 0 => \A c \in Readers : Serves(c) # BadFd

AllServed == \A f \in open : \E c \in Readers : Serves(c) = f

\* While a reader has not read cli_fd yet, the server is on its way back to its wait or
\* waits, and is not resumed before the scheduler has run the ready queue.
NewReaderFirst ==
    \A c \in Readers : step[c] = "start" =>
        /\ pc # "block"
        /\ \A i \in DOMAIN eventlist : eventlist[i] # Listen
        /\ step[Server] = "accept" => polled[Server] # None /\ curr_thread # Server

\* What holds while the process runs ...
ServerInv ==
    /\ SchedulerInv /\ sleeping = {} /\ LocalsTyped /\ PollsOwn /\ OwnDescriptor
    /\ AllServed /\ NewReaderFirst

\* ... and when it has ended.
AfterAbort == /\ pc = "abort" /\ OnlyBadFdAborts
              /\ OwnDescriptor /\ AllServed /\ BadFd \notin open
=============================================================================
