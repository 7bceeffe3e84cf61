---------------------------- MODULE BridgeServer ----------------------------
(***************************************************************************)
(* The local-network bridge server (src/src/net/src/server.cpp).           *)
(*                                                                         *)
(* Three kinds of thread touch one Impl: the OWNER, which calls start(),   *)
(* stop() and the destructor; the ACCEPT thread; and one detached HANDLER  *)
(* thread per connection.  What ties them together is a table of file      *)
(* descriptor NUMBERS: a number that is closed goes back to the process,   *)
(* and the next open() anywhere in the host application may get it.        *)
(*                                                                         *)
(* Abstracted: the contents of frames (a frame is a hello or some other    *)
(* request), the session a request is dispatched to (module BridgeSession) *)
(* and the port number (boundPort is TRUE iff port() is not 0).            *)
(***************************************************************************)
EXTENDS Integers, FiniteSets

CONSTANTS
    Handler,     \* identities of connection threads
    Fd,          \* file descriptor numbers of the process
    NoThread,    \* connMutex is not held across steps
    MaxConn,     \* kMaxConnections
    MaxOther,    \* bound on descriptors the rest of the application has open
    MaxBacklog   \* bound on completed connections not accepted yet

ASSUME ServerAssumption ==
    /\ MaxConn \in Nat \ {0}
    /\ MaxOther \in Nat /\ MaxBacklog \in Nat
    /\ Fd \subseteq Nat
    /\ NoThread \notin Handler

VARIABLES
    running, listenFd, wakeReadFd, wakeWriteFd, boundPort,
    activeHandlers, connFds, connMutex,
    ownerPc, newFd,               \* the owner, and start()'s local fd
    acceptPc, acceptedFd,         \* the accept thread and its local fd
    handlerPc, handlerFd,         \* per connection thread
    fdUse, shut, inbox, backlog   \* the kernel: shut is what shutdown() was called on

serverVars == <<running, listenFd, wakeReadFd, wakeWriteFd, boundPort>>
slotVars == <<activeHandlers, connFds, connMutex>>
ownerVars == <<ownerPc, newFd>>
acceptVars == <<acceptPc, acceptedFd>>
handlerVars == <<handlerPc, handlerFd>>
kernelVars == <<fdUse, shut, inbox, backlog>>
vars == <<serverVars, slotVars, ownerVars, acceptVars, handlerVars, kernelVars>>

\* Who opened a descriptor.  "other" is the rest of the host application.
Use == {"free", "listen", "wakeRead", "wakeWrite", "conn", "other"}
\* What recv() on a connection returns next: nothing yet, a hello frame, any
\* other frame, or the end of the stream (also an undecodable one).
Input == {"empty", "hello", "request", "eof"}

OwnerPcs == {"idle", "pipe", "launch", "shutListen", "join", "closeFds",
             "shutConns", "wait", "awake", "clear", "gone"}
AcceptPcs == {"none", "loop", "poll", "check", "accept", "reserve", "spawn",
              "giveBack", "drop", "done"}
HandlerPcs == {"free", "greet", "welcome", "refuse", "loop", "recv", "work",
               "reply", "erase", "close", "leave"}

NoFd == -1

\* The kernel hands out the lowest number that is free.
FreeFds == {f \in Fd : fdUse[f] = "free"}
LowestOf(fds) == {f \in fds : \A g \in fds : f <= g}
LockFree == connMutex = NoThread
Live == {t \in Handler : handlerPc[t] # "free"}

(* open() and close() at the kernel: close() frees whatever the number names *)
Opened(f, use) == /\ fdUse' = [fdUse EXCEPT ![f] = use]
                  /\ shut' = shut \ {f}
                  /\ inbox' = [inbox EXCEPT ![f] = "empty"]
Closed(fds) ==
    /\ fdUse' = [f \in Fd |-> IF f \in fds THEN "free" ELSE fdUse[f]]
    /\ shut' = shut \ fds
    /\ inbox' = [f \in Fd |-> IF f \in fds THEN "empty" ELSE inbox[f]]

(* allHandlersDone.notify_all(): wakes the owner only if it is waiting *)
NotifyAll == ownerPc' = IF ownerPc = "wait" THEN "awake" ELSE ownerPc

Init ==
    /\ running = FALSE
    /\ listenFd = NoFd /\ wakeReadFd = NoFd /\ wakeWriteFd = NoFd
    /\ boundPort = FALSE
    /\ activeHandlers = 0 /\ connFds = {} /\ connMutex = NoThread
    /\ ownerPc = "idle" /\ newFd = NoFd
    /\ acceptPc = "none" /\ acceptedFd = NoFd
    /\ handlerPc = [t \in Handler |-> "free"]
    /\ handlerFd = [t \in Handler |-> NoFd]
    /\ fdUse = [f \in Fd |-> "free"]
    /\ shut = {}
    /\ inbox = [f \in Fd |-> "empty"]
    /\ backlog = 0

-----------------------------------------------------------------------------
(* The owner: start(), then stop(), which the destructor calls too *)

Owner(from, to) == /\ ownerPc = from /\ ownerPc' = to
                   /\ UNCHANGED <<acceptedFd, handlerVars>>

StartSocket ==
    /\ Owner("idle", "pipe") /\ ~running
    /\ \E f \in LowestOf(FreeFds) : newFd' = f /\ Opened(f, "listen")
    /\ UNCHANGED <<serverVars, slotVars, acceptPc, backlog>>

\* bind(), listen() or pipe() failed: the new socket is closed again.
StartFails ==
    /\ Owner("pipe", "idle")
    /\ Closed({newFd}) /\ newFd' = NoFd
    /\ UNCHANGED <<serverVars, slotVars, acceptPc, backlog>>

\* pipe() succeeded, and getsockname() on a bound socket has no reason to fail.
StartPipe ==
    /\ Owner("pipe", "launch")
    /\ \E r \in LowestOf(FreeFds) : \E w \in LowestOf(FreeFds \ {r}) :
         /\ wakeReadFd' = r /\ wakeWriteFd' = w
         /\ fdUse' = [fdUse EXCEPT ![r] = "wakeRead", ![w] = "wakeWrite"]
    /\ listenFd' = newFd /\ newFd' = NoFd
    /\ running' = TRUE /\ boundPort' = TRUE
    /\ UNCHANGED <<slotVars, acceptPc, shut, inbox, backlog>>

StartThread ==
    /\ Owner("launch", "idle") /\ acceptPc' = "loop"
    /\ UNCHANGED <<serverVars, slotVars, newFd, kernelVars>>

CloseDescriptors ==
    /\ Closed({listenFd, wakeReadFd, wakeWriteFd})
    /\ listenFd' = NoFd /\ wakeReadFd' = NoFd /\ wakeWriteFd' = NoFd
    /\ backlog' = 0
    /\ UNCHANGED <<slotVars, newFd, acceptPc>>

\* std::thread threw: nobody would serve, so start() undoes everything.
StartThreadFails ==
    /\ Owner("launch", "idle")
    /\ running' = FALSE /\ boundPort' = FALSE
    /\ CloseDescriptors

StopBegin ==
    /\ Owner("idle", "shutListen") /\ running /\ running' = FALSE
    /\ UNCHANGED <<listenFd, wakeReadFd, wakeWriteFd, boundPort, slotVars,
                   newFd, acceptPc, kernelVars>>

\* Mutant: stop() closes the descriptors the accept thread still names.
StopShutdownByClosing ==
    /\ Owner("shutListen", "join")
    /\ CloseDescriptors /\ UNCHANGED <<running, boundPort>>

\* A listening socket that is shut down refuses: accept() returns at once and
\* the connections still queued are reset.  The byte then written to the
\* self-pipe (the write may fail) only shortens the accept thread's poll, which
\* times out by itself: it has no state here.
StopShutdownListen ==
    /\ Owner("shutListen", "join")
    /\ shut' = shut \cup {listenFd} /\ backlog' = 0
    /\ UNCHANGED <<serverVars, slotVars, newFd, acceptPc, fdUse, inbox>>

StopJoin ==
    /\ Owner("join", "closeFds")
    /\ acceptPc = "done" /\ acceptPc' = "none"
    /\ UNCHANGED <<serverVars, slotVars, newFd, kernelVars>>

StopClose ==
    /\ Owner("closeFds", "shutConns")
    /\ CloseDescriptors /\ UNCHANGED <<running, boundPort>>

\* Under connMutex: shut every registered connection down, then the first
\* evaluation of the wait's predicate.  Waiting releases the mutex.
StopShutdownConns ==
    /\ LockFree
    /\ Owner("shutConns", IF activeHandlers = 0 THEN "clear" ELSE "wait")
    /\ shut' = shut \cup connFds
    /\ UNCHANGED <<serverVars, slotVars, newFd, acceptPc, fdUse, inbox, backlog>>

\* Mutant: allHandlersDone.wait(lock) without its predicate.
StopAwakeUnchecked ==
    /\ LockFree /\ Owner("awake", "clear")
    /\ UNCHANGED <<serverVars, slotVars, newFd, acceptPc, kernelVars>>

StopAwake ==
    /\ LockFree
    /\ Owner("awake", IF activeHandlers = 0 THEN "clear" ELSE "wait")
    /\ UNCHANGED <<serverVars, slotVars, newFd, acceptPc, kernelVars>>

\* A condition variable may wake without a notification; nothing forces it to.
SpuriousWakeup ==
    /\ Owner("wait", "awake")
    /\ UNCHANGED <<serverVars, slotVars, newFd, acceptPc, kernelVars>>

StopClear ==
    /\ Owner("clear", "idle")
    /\ connFds' = {} /\ boundPort' = FALSE
    /\ UNCHANGED <<running, listenFd, wakeReadFd, wakeWriteFd, activeHandlers,
                   connMutex, newFd, acceptPc, kernelVars>>

\* ~BridgeServer after its stop(): the Impl, and its mutex, are freed.
Destroy ==
    /\ Owner("idle", "gone") /\ ~running
    /\ UNCHANGED <<serverVars, slotVars, newFd, acceptPc, kernelVars>>

-----------------------------------------------------------------------------
(* The accept thread: acceptLoop(), acceptOnce(), spawnHandler() *)

Acceptor(from, to) == /\ acceptPc = from /\ acceptPc' = to
                      /\ UNCHANGED <<serverVars, newFd>>
AcceptOnly == UNCHANGED <<slotVars, ownerPc, acceptedFd, handlerVars, kernelVars>>

AcceptLoop == Acceptor("loop", IF running THEN "poll" ELSE "done") /\ AcceptOnly

\* Timeout, wake byte or error: back to the loop's test of running.
PollNothing == Acceptor("poll", "loop") /\ AcceptOnly

ListenReadable == backlog > 0 \/ listenFd \in shut
PollReadable == Acceptor("poll", "check") /\ ListenReadable /\ AcceptOnly

AcceptCheck == Acceptor("check", IF running THEN "accept" ELSE "loop") /\ AcceptOnly

\* accept() blocks when the connection poll() saw is gone by now.
AcceptConn ==
    /\ Acceptor("accept", "reserve") /\ backlog > 0
    /\ \E f \in LowestOf(FreeFds) : acceptedFd' = f /\ Opened(f, "conn")
    /\ backlog' = backlog - 1
    /\ UNCHANGED <<slotVars, ownerPc, handlerVars>>

\* Descriptor limit, or a listening socket stop() has shut down.
AcceptFails == Acceptor("accept", "loop") /\ ListenReadable /\ AcceptOnly

\* Mutant: the slot is counted and not registered.
ReserveSlotUnregistered ==
    /\ Acceptor("reserve", "spawn") /\ LockFree /\ activeHandlers < MaxConn
    /\ activeHandlers' = activeHandlers + 1 /\ UNCHANGED connFds
    /\ UNCHANGED <<connMutex, ownerPc, acceptedFd, handlerVars, kernelVars>>

ReserveSlot ==
    /\ Acceptor("reserve", "spawn") /\ LockFree
    /\ activeHandlers < MaxConn
    /\ connFds' = connFds \cup {acceptedFd}
    /\ activeHandlers' = activeHandlers + 1
    /\ UNCHANGED <<connMutex, ownerPc, acceptedFd, handlerVars, kernelVars>>

\* Over the cap, or connFds.insert threw: nothing is reserved.
ReserveRefused == Acceptor("reserve", "drop") /\ LockFree /\ AcceptOnly

SpawnHandler ==
    /\ Acceptor("spawn", "loop") /\ acceptedFd' = NoFd
    /\ \E t \in Handler :
         /\ handlerPc[t] = "free"
         /\ handlerPc' = [handlerPc EXCEPT ![t] = "greet"]
         /\ handlerFd' = [handlerFd EXCEPT ![t] = acceptedFd]
    /\ UNCHANGED <<slotVars, ownerPc, kernelVars>>

\* Mutant: the slot of a connection that got no thread is not given back.
SpawnFailsKeepsSlot == Acceptor("spawn", "drop") /\ AcceptOnly

SpawnFails == Acceptor("spawn", "giveBack") /\ AcceptOnly

GiveSlotBack ==
    /\ Acceptor("giveBack", "drop") /\ LockFree
    /\ connFds' = connFds \ {acceptedFd}
    /\ activeHandlers' = activeHandlers - 1
    /\ NotifyAll
    /\ UNCHANGED <<connMutex, acceptedFd, handlerVars, kernelVars>>

DropConn ==
    /\ Acceptor("drop", "loop")
    /\ Closed({acceptedFd}) /\ acceptedFd' = NoFd
    /\ UNCHANGED <<slotVars, ownerPc, handlerVars, backlog>>

-----------------------------------------------------------------------------
(* A connection thread: serve(), handle() *)

Goto(t, pc) == /\ handlerPc' = [handlerPc EXCEPT ![t] = pc]
               /\ UNCHANGED <<serverVars, acceptVars, newFd, backlog>>
Serving == UNCHANGED <<slotVars, ownerPc, handlerFd, fdUse, shut>>

\* recvFrame(): blocks until a frame, the end of the stream or a shutdown.
Receives(t, frame) ==
    /\ inbox[handlerFd[t]] = frame
    /\ inbox' = [inbox EXCEPT ![handlerFd[t]] = "empty"]
RecvFails(t) ==
    /\ \/ inbox[handlerFd[t]] = "eof"
       \/ inbox[handlerFd[t]] = "empty" /\ handlerFd[t] \in shut
    /\ UNCHANGED inbox
\* sendFrame() may block while the peer does not read, and fails only when the
\* peer is gone or the socket was shut down.
SendMayFail(t) == inbox[handlerFd[t]] = "eof" \/ handlerFd[t] \in shut

\* A hello is answered by a welcome, or by a refusal when its version is wrong.
Greet(t) ==
    /\ handlerPc[t] = "greet"
    /\ \/ Receives(t, "hello") /\ \E pc \in {"welcome", "refuse"} : Goto(t, pc)
       \/ Receives(t, "request") /\ Goto(t, "refuse")
       \/ RecvFails(t) /\ Goto(t, "erase")
    /\ Serving

\* The handshake's answer is sent; whether that worked is not looked at.
Welcome(t) == handlerPc[t] = "welcome" /\ Goto(t, "loop") /\ Serving /\ UNCHANGED inbox
Refuse(t) == handlerPc[t] = "refuse" /\ Goto(t, "erase") /\ Serving /\ UNCHANGED inbox

ServeLoop(t) ==
    /\ handlerPc[t] = "loop"
    /\ Goto(t, IF running THEN "recv" ELSE "erase") /\ Serving /\ UNCHANGED inbox

\* Mutant: a connection whose stream ended is read again.
RecvRetries(t) ==
    /\ handlerPc[t] = "recv"
    /\ \/ (Receives(t, "hello") \/ Receives(t, "request")) /\ Goto(t, "work")
       \/ RecvFails(t) /\ Goto(t, "loop")
    /\ Serving

Recv(t) ==
    /\ handlerPc[t] = "recv"
    /\ \/ (Receives(t, "hello") \/ Receives(t, "request")) /\ Goto(t, "work")
       \/ RecvFails(t) /\ Goto(t, "erase")
    /\ Serving

\* processRequest() on the shared session, outside connMutex.
ProcessRequest(t) ==
    handlerPc[t] = "work" /\ Goto(t, "reply") /\ Serving /\ UNCHANGED inbox

Reply(t) ==
    /\ handlerPc[t] = "reply"
    /\ Goto(t, "loop") \/ (SendMayFail(t) /\ Goto(t, "erase"))
    /\ Serving /\ UNCHANGED inbox

\* catch (...) at the top of the thread: whatever escapes ends the connection.
Throws(t) ==
    /\ handlerPc[t] \in {"greet", "welcome", "refuse", "recv", "work", "reply"}
    /\ Goto(t, "erase") /\ Serving /\ UNCHANGED inbox

\* Mutant: the exit closes its descriptor and leaves its number registered.
EraseConnForgets(t) ==
    /\ handlerPc[t] = "erase" /\ LockFree /\ connMutex' = t /\ Goto(t, "close")
    /\ UNCHANGED <<ownerPc, connFds, activeHandlers, handlerFd, fdUse, shut, inbox>>

\* The exit, under connMutex from here to Leave.
EraseConn(t) ==
    /\ handlerPc[t] = "erase" /\ LockFree /\ connMutex' = t
    /\ connFds' = connFds \ {handlerFd[t]}
    /\ Goto(t, "close")
    /\ UNCHANGED <<ownerPc, activeHandlers, handlerFd, fdUse, shut, inbox>>

CloseConn(t) ==
    /\ handlerPc[t] = "close"
    /\ Closed({handlerFd[t]})
    /\ handlerFd' = [handlerFd EXCEPT ![t] = NoFd]
    /\ Goto(t, "leave") /\ UNCHANGED <<slotVars, ownerPc>>

\* Mutant: the exit does not signal allHandlersDone.
LeaveSilently(t) ==
    /\ handlerPc[t] = "leave"
    /\ activeHandlers' = activeHandlers - 1 /\ connMutex' = NoThread
    /\ Goto(t, "free") /\ UNCHANGED <<ownerPc, connFds, handlerFd, fdUse, shut, inbox>>

\* --activeHandlers, notify_all() and the unlock, the thread's last access.
Leave(t) ==
    /\ handlerPc[t] = "leave"
    /\ activeHandlers' = activeHandlers - 1
    /\ NotifyAll
    /\ connMutex' = NoThread
    /\ Goto(t, "free") /\ UNCHANGED <<connFds, handlerFd, fdUse, shut, inbox>>

-----------------------------------------------------------------------------
(* The peers, and the rest of the host application *)

ThreadsIdle == UNCHANGED <<serverVars, slotVars, ownerVars, acceptVars, handlerVars>>

PeerConnects ==
    /\ listenFd # NoFd /\ listenFd \notin shut
    /\ backlog < MaxBacklog /\ backlog' = backlog + 1
    /\ ThreadsIdle /\ UNCHANGED <<fdUse, shut, inbox>>

\* A queued connection is aborted before it is accepted.
PeerAborts ==
    /\ backlog > 0 /\ backlog' = backlog - 1
    /\ ThreadsIdle /\ UNCHANGED <<fdUse, shut, inbox>>

PeerSends(f) ==
    /\ fdUse[f] = "conn" /\ f \notin shut /\ inbox[f] = "empty"
    /\ \E m \in Input \ {"empty"} : inbox' = [inbox EXCEPT ![f] = m]
    /\ ThreadsIdle /\ UNCHANGED <<fdUse, shut, backlog>>

OtherOpens(f) ==
    /\ f \in LowestOf(FreeFds)
    /\ Cardinality({g \in Fd : fdUse[g] = "other"}) < MaxOther
    /\ Opened(f, "other") /\ ThreadsIdle /\ UNCHANGED backlog

OtherCloses(f) ==
    /\ fdUse[f] = "other"
    /\ Closed({f}) /\ ThreadsIdle /\ UNCHANGED backlog

-----------------------------------------------------------------------------
OwnerNext ==
    \/ StartSocket \/ StartFails \/ StartPipe \/ StartThread \/ StartThreadFails
    \/ StopBegin \/ StopShutdownListen \/ StopJoin \/ StopClose
    \/ StopShutdownConns \/ StopAwake \/ StopClear \/ Destroy

AcceptNext ==
    \/ AcceptLoop \/ PollNothing \/ PollReadable \/ AcceptCheck
    \/ AcceptConn \/ AcceptFails \/ ReserveSlot \/ ReserveRefused
    \/ SpawnHandler \/ SpawnFails \/ GiveSlotBack \/ DropConn

HandlerNext(t) ==
    \/ Greet(t) \/ Welcome(t) \/ Refuse(t) \/ ServeLoop(t) \/ Recv(t)
    \/ ProcessRequest(t) \/ Reply(t) \/ Throws(t)
    \/ EraseConn(t) \/ CloseConn(t) \/ Leave(t)

Environment ==
    \/ SpuriousWakeup \/ PeerConnects \/ PeerAborts
    \/ \E f \in Fd : PeerSends(f) \/ OtherOpens(f) \/ OtherCloses(f)

Next == OwnerNext \/ AcceptNext \/ (\E t \in Handler : HandlerNext(t)) \/ Environment

Spec == Init /\ [][Next]_vars

-----------------------------------------------------------------------------
(* Properties *)

TypeOK ==
    /\ running \in BOOLEAN /\ boundPort \in BOOLEAN
    /\ listenFd \in Fd \cup {NoFd} /\ newFd \in Fd \cup {NoFd}
    /\ wakeReadFd \in Fd \cup {NoFd} /\ wakeWriteFd \in Fd \cup {NoFd}
    /\ acceptedFd \in Fd \cup {NoFd}
    /\ activeHandlers \in Nat
    /\ connFds \subseteq Fd
    /\ connMutex \in Handler \cup {NoThread}
    /\ ownerPc \in OwnerPcs /\ acceptPc \in AcceptPcs
    /\ handlerPc \in [Handler -> HandlerPcs]
    /\ handlerFd \in [Handler -> Fd \cup {NoFd}]
    /\ fdUse \in [Fd -> Use]
    /\ shut \subseteq Fd
    /\ inbox \in [Fd -> Input]
    /\ backlog \in 0 .. MaxBacklog

\* Between its calls a stopped (or never started) server owns nothing: no
\* thread of it exists, no descriptor it opened is left, no slot is taken and
\* port() is 0 -- what stop() promises, and what ~BridgeServer relies on when
\* it frees the mutex the handlers lock.
StoppedOwnsNothing ==
    ownerPc = "gone" \/ (ownerPc = "idle" /\ ~running) =>
        /\ acceptPc = "none" /\ Live = {}
        /\ connFds = {} /\ activeHandlers = 0 /\ ~boundPort
        /\ \A f \in Fd : fdUse[f] \in {"free", "other"}

\* The cap counts threads: however slots are taken, given back after a failed
\* spawn and released at exit, no more than kMaxConnections handlers exist.
ConnectionCap == Cardinality(Live) <= MaxConn

\* The slot count is exact: one per live connection thread, plus the one the
\* accept thread holds between reserveSlot() and the spawn (or its undoing).
SlotsMatchThreads ==
    activeHandlers = Cardinality(Live)
                     + IF acceptPc \in {"spawn", "giveBack"} THEN 1 ELSE 0

\* No descriptor number is used after it went back to the process: what a
\* thread is about to poll, accept on, read, write, shut down or close is open
\* and is the very socket or pipe end the thread took it for.
NoStaleDescriptor ==
    /\ \A f \in connFds : fdUse[f] = "conn"
    /\ \A t \in Live : handlerPc[t] # "leave" => fdUse[handlerFd[t]] = "conn"
    /\ acceptedFd # NoFd => fdUse[acceptedFd] = "conn"
    /\ acceptPc \notin {"none", "done"} =>
           listenFd # NoFd /\ wakeReadFd # NoFd
    /\ listenFd # NoFd => fdUse[listenFd] = "listen"
    /\ wakeReadFd # NoFd => fdUse[wakeReadFd] = "wakeRead"
    /\ wakeWriteFd # NoFd => fdUse[wakeWriteFd] = "wakeWrite"

\* One connection thread per descriptor: two threads never read the same one.
OneThreadPerConn ==
    \A t, u \in Live : t # u /\ handlerFd[t] # NoFd => handlerFd[t] # handlerFd[u]

\* The server never closes or shuts down a descriptor of the host application,
\* even one that got the number of a socket the server closed before.
ForeignUntouched ==
    [][\A f \in Fd : fdUse[f] = "other" /\ ~OtherCloses(f) =>
           fdUse'[f] = "other" /\ (f \in shut' <=> f \in shut)]_vars

\* While stop() waits for the count to reach zero, no connection thread can be
\* parked in recv() or send() any more: each has its socket shut down, or is on
\* its way out.  A connection accepted or registered too late would hang stop().
NobodyLeftParked ==
    ownerPc \in {"wait", "awake"} =>
        \A t \in Handler : handlerPc[t] \notin {"free", "close", "leave"} =>
            handlerFd[t] \in shut

(* The inductive invariant: where each thread can be (PhaseInv), who holds
   connMutex (LockInv), which descriptor belongs to whom (OwnerInv) and what
   the bookkeeping under connMutex records (SlotInv). *)
Stopped == ownerPc \in {"pipe", "gone"} \/ (ownerPc = "idle" /\ ~running)
Accepting == (ownerPc = "idle" /\ running) \/ ownerPc \in {"shutListen", "join"}
HasDescriptors == running \/ ownerPc \in {"shutListen", "join", "closeFds"}
Registered == {t \in Handler : handlerPc[t] \notin {"free", "close", "leave"}}
SlotHeld == acceptPc \in {"spawn", "giveBack"}

PhaseInv ==
    /\ running => ownerPc \in {"idle", "launch"}
    /\ ownerPc = "launch" => running
    /\ acceptPc # "none" <=> Accepting
    /\ Stopped => ~boundPort
    /\ Stopped \/ ownerPc \in {"launch", "clear"} => activeHandlers = 0

LockInv ==
    \A t \in Handler : handlerPc[t] \in {"close", "leave"} <=> connMutex = t

OwnerInv ==
    /\ newFd # NoFd <=> ownerPc = "pipe"
    /\ listenFd # NoFd <=> HasDescriptors
    /\ wakeReadFd # NoFd <=> HasDescriptors
    /\ wakeWriteFd # NoFd <=> HasDescriptors
    /\ acceptedFd # NoFd <=> acceptPc \in {"reserve", "spawn", "giveBack", "drop"}
    /\ \A t \in Handler : handlerFd[t] # NoFd <=> handlerPc[t] \notin {"free", "leave"}
    /\ \A f \in Fd :
         /\ fdUse[f] = "listen" <=> f \in {newFd, listenFd}
         /\ fdUse[f] = "wakeRead" <=> f = wakeReadFd
         /\ fdUse[f] = "wakeWrite" <=> f = wakeWriteFd
         /\ fdUse[f] = "conn" <=> f = acceptedFd \/ \E t \in Handler : f = handlerFd[t]
    /\ \A t \in Handler : handlerFd[t] # NoFd => handlerFd[t] # acceptedFd
    /\ \A t, u \in Handler : t # u /\ handlerFd[t] # NoFd => handlerFd[t] # handlerFd[u]

SlotInv ==
    /\ connFds = {handlerFd[t] : t \in Registered}
                   \cup IF SlotHeld THEN {acceptedFd} ELSE {}
    /\ IsFiniteSet(Live)
    /\ SlotsMatchThreads
    /\ activeHandlers <= MaxConn

IndInv == TypeOK /\ PhaseInv /\ LockInv /\ OwnerInv /\ SlotInv

(* Fairness.  stop() keeps running once called; poll() times out; a thread not
   blocked on its peer is scheduled; a mutex under contention is eventually
   obtained (every critical section here is finite).  Peers and the rest of the
   host are not fair: a peer may stay silent, or stop reading, for ever. *)
StopNext == \/ StopShutdownListen \/ StopJoin \/ StopClose \/ StopShutdownConns
            \/ StopAwake \/ StopClear
Unblocked(t) ==
    \/ Greet(t) \/ ServeLoop(t) \/ Recv(t) \/ ProcessRequest(t)
    \/ (Welcome(t) \/ Refuse(t) \/ Reply(t)) /\ SendMayFail(t)
    \/ EraseConn(t) \/ CloseConn(t) \/ Leave(t)
Fairness == /\ WF_vars(StopNext) /\ WF_vars(AcceptNext)
            /\ \A t \in Handler : WF_vars(Unblocked(t)) /\ SF_vars(EraseConn(t))
LiveSpec == Spec /\ Fairness

\* stop() returns, whatever the peers do and however the notifications fall.
StopTerminates == (ownerPc = "shutListen") ~> (ownerPc = "idle")

\* A connection whose peer hung up is reaped: its thread ends and its slot is
\* freed while the server goes on listening.
HungUpIsReaped ==
    \A t \in Handler :
        (handlerPc[t] # "free" /\ handlerFd[t] # NoFd /\ inbox[handlerFd[t]] = "eof")
            ~> (handlerPc[t] = "free")
=============================================================================
