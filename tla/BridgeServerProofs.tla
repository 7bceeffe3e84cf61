------------------------- MODULE BridgeServerProofs -------------------------
(***************************************************************************)
(* Proofs about BridgeServer, for any number of connection threads, any    *)
(* set of descriptor numbers and any cap.                                  *)
(*                                                                         *)
(* IndInv is inductive: one lemma per conjunct (TypeStep, PhaseStep,       *)
(* LockStep, OwnerStep, SlotStep), each with one step per action.  At the  *)
(* end, what BridgeSessionProofs says of markers and presses is carried to *)
(* the server and the session side by side (Bridge).                       *)
(***************************************************************************)
EXTENDS Bridge, FiniteSetTheorems, TLAPS

\* No thread at all is live when no slot is taken, and no connection is
\* registered: what stop() concludes from activeHandlers == 0.
LEMMA NoSlotNoThread ==
  ASSUME IndInv, activeHandlers = 0
  PROVE  Live = {} /\ ~SlotHeld /\ connFds = {}
<1>1. Cardinality(Live) \in Nat
  BY FS_CardinalityType DEF IndInv, SlotInv
<1>2. Cardinality(Live) = 0 /\ ~SlotHeld
  BY <1>1 DEF IndInv, SlotInv, SlotsMatchThreads, SlotHeld
<1>3. Live = {}
  BY <1>2, FS_EmptySet DEF IndInv, SlotInv
<1> QED
  BY <1>2, <1>3 DEF IndInv, SlotInv, Live, Registered

\* Whatever is closed, the kernel's tables keep their types.
LEMMA ClosedType ==
  ASSUME TypeOK, NEW fds, Closed(fds)
  PROVE  /\ fdUse' \in [Fd -> Use]
         /\ shut' \subseteq Fd
         /\ inbox' \in [Fd -> Input]
  BY DEF TypeOK, Closed, Use, Input

\* A slot that is given back was counted.
LEMMA CountPositive ==
  ASSUME IndInv, SlotHeld \/ Live # {}
  PROVE  activeHandlers \in Nat /\ activeHandlers > 0
  BY NoSlotNoThread DEF IndInv, TypeOK

\* Every step keeps the types.
LEMMA TypeStep ==
  ASSUME IndInv, [Next]_vars
  PROVE  TypeOK'
<1> USE ServerAssumption DEF IndInv, TypeOK, Use, Input, OwnerPcs, AcceptPcs, HandlerPcs, NoFd,
        serverVars, slotVars, ownerVars, acceptVars, handlerVars, kernelVars
<1>1. CASE StartSocket
  BY <1>1 DEF StartSocket, Opened, LowestOf, FreeFds, Owner
<1>2. CASE StartFails
  BY <1>2 DEF StartFails, Closed, Owner
<1>3. CASE StartPipe
  BY <1>3 DEF StartPipe, LowestOf, FreeFds, Owner
<1>4. CASE StartThread
  BY <1>4 DEF StartThread, Owner
<1>5. CASE StartThreadFails
  <2>1. CloseDescriptors /\ Closed({listenFd, wakeReadFd, wakeWriteFd})
    BY <1>5 DEF StartThreadFails, Owner, CloseDescriptors
  <2>2. fdUse' \in [Fd -> Use] /\ shut' \subseteq Fd /\ inbox' \in [Fd -> Input]
    BY <2>1, ClosedType
  <2> QED
    <3>1. UNCHANGED <<slotVars, newFd, acceptVars, handlerVars>>
      BY <1>5 DEF StartThreadFails, Owner, CloseDescriptors
    <3>2. /\ running' = FALSE /\ boundPort' = FALSE /\ ownerPc' = "idle" /\ backlog' = 0
          /\ listenFd' = NoFd /\ wakeReadFd' = NoFd /\ wakeWriteFd' = NoFd
      BY <1>5 DEF StartThreadFails, Owner, CloseDescriptors
    <3>3. running' \in BOOLEAN /\ boundPort' \in BOOLEAN
      BY <3>2, Zenon
    <3>4. backlog' \in 0 .. MaxBacklog
      BY <3>2
    <3> QED
      BY <2>2, <3>1, <3>2, <3>3, <3>4
<1>6. CASE StopBegin
  BY <1>6, ZenonT(60) DEF StopBegin, Owner
<1>7. CASE StopShutdownListen
  BY <1>7 DEF StopShutdownListen, Owner, OwnerInv, HasDescriptors
<1>8. CASE StopJoin
  BY <1>8 DEF StopJoin, Owner
<1>9. CASE StopClose
  BY <1>9 DEF StopClose, CloseDescriptors, Closed, Owner
<1>10. CASE StopShutdownConns
  BY <1>10 DEF StopShutdownConns, Owner, LockFree
<1>11. CASE StopAwake
  BY <1>11 DEF StopAwake, Owner, LockFree
<1>12. CASE StopClear
  BY <1>12, ZenonT(60) DEF StopClear, Owner
<1>13. CASE Destroy
  BY <1>13 DEF Destroy, Owner
<1>14. CASE AcceptLoop
  BY <1>14 DEF AcceptLoop, Acceptor, AcceptOnly
<1>15. CASE PollNothing
  BY <1>15 DEF PollNothing, Acceptor, AcceptOnly
<1>16. CASE PollReadable
  BY <1>16 DEF PollReadable, Acceptor, AcceptOnly, ListenReadable
<1>17. CASE AcceptCheck
  BY <1>17 DEF AcceptCheck, Acceptor, AcceptOnly
<1>18. CASE AcceptConn
  BY <1>18 DEF AcceptConn, Opened, LowestOf, FreeFds, Acceptor
<1>19. CASE AcceptFails
  BY <1>19 DEF AcceptFails, Acceptor, AcceptOnly, ListenReadable
<1>20. CASE ReserveSlot
  BY <1>20 DEF ReserveSlot, Acceptor, LockFree, OwnerInv
<1>21. CASE ReserveRefused
  BY <1>21 DEF ReserveRefused, Acceptor, AcceptOnly, LockFree
<1>22. CASE SpawnHandler
  BY <1>22 DEF SpawnHandler, Acceptor
<1>23. CASE SpawnFails
  BY <1>23 DEF SpawnFails, Acceptor, AcceptOnly
<1>24. CASE GiveSlotBack
  BY <1>24, CountPositive DEF GiveSlotBack, Acceptor, NotifyAll, LockFree, SlotHeld
<1>25. CASE DropConn
  BY <1>25 DEF DropConn, Closed, Acceptor
<1>26. CASE SpuriousWakeup
  BY <1>26 DEF SpuriousWakeup, Owner
<1>27. CASE PeerConnects
  BY <1>27 DEF PeerConnects, ThreadsIdle
<1>28. CASE PeerAborts
  BY <1>28 DEF PeerAborts, ThreadsIdle
<1>29. ASSUME NEW t \in Handler, HandlerNext(t)
     PROVE  TypeOK'
  <2>1. CASE Greet(t)
    BY <2>1 DEF Greet, Goto, Serving, Receives, RecvFails
  <2>2. CASE Welcome(t)
    BY <2>2 DEF Welcome, Goto, Serving
  <2>3. CASE Refuse(t)
    BY <2>3 DEF Refuse, Goto, Serving
  <2>4. CASE ServeLoop(t)
    BY <2>4 DEF ServeLoop, Goto, Serving
  <2>5. CASE Recv(t)
    BY <2>5 DEF Recv, Goto, Serving, Receives, RecvFails
  <2>6. CASE ProcessRequest(t)
    BY <2>6 DEF ProcessRequest, Goto, Serving
  <2>7. CASE Reply(t)
    BY <2>7 DEF Reply, Goto, Serving
  <2>8. CASE Throws(t)
    BY <2>8 DEF Throws, Goto, Serving
  <2>9. CASE EraseConn(t)
    BY <2>9, ZenonT(60) DEF EraseConn, Goto, LockFree, OwnerInv
  <2>10. CASE CloseConn(t)
    <3>1. Closed({handlerFd[t]}) /\ UNCHANGED <<serverVars, slotVars, ownerVars, acceptVars, backlog>>
      BY <2>10 DEF CloseConn, Goto
    <3>2. fdUse' \in [Fd -> Use] /\ shut' \subseteq Fd /\ inbox' \in [Fd -> Input]
      BY <3>1, ClosedType
    <3>3. handlerPc' \in [Handler -> HandlerPcs] /\ handlerFd' \in [Handler -> Fd \cup {NoFd}]
      BY <2>10 DEF CloseConn, Goto
    <3> QED
      BY <3>1, <3>2, <3>3
  <2>11. CASE Leave(t)
    BY <2>11, CountPositive DEF Leave, NotifyAll, Goto, Live
  <2> QED BY <1>29, <2>1, <2>2, <2>3, <2>4, <2>5, <2>6, <2>7, <2>8, <2>9, <2>10, <2>11 DEF HandlerNext
<1>30. ASSUME NEW f \in Fd, PeerSends(f) \/ OtherOpens(f) \/ OtherCloses(f)
     PROVE  TypeOK'
  <2>1. CASE PeerSends(f)
    BY <2>1 DEF PeerSends, ThreadsIdle
  <2>2. CASE OtherOpens(f)
    BY <2>2 DEF OtherOpens, Opened, LowestOf, FreeFds, ThreadsIdle
  <2>3. CASE OtherCloses(f)
    BY <2>3 DEF OtherCloses, Closed, ThreadsIdle
  <2> QED BY <1>30, <2>1, <2>2, <2>3
<1>31. CASE UNCHANGED vars
  BY <1>31 DEF vars
<1> QED
  BY <1>1, <1>2, <1>3, <1>4, <1>5, <1>6, <1>7, <1>8, <1>9, <1>10, <1>11, <1>12, <1>13, <1>14, <1>15, <1>16, <1>17, <1>18, <1>19, <1>20, <1>21, <1>22, <1>23, <1>24, <1>25, <1>26, <1>27, <1>28, <1>29, <1>30, <1>31
  DEF Next, OwnerNext, AcceptNext, Environment

\* Every step keeps the threads' phases in step with each other.
LEMMA PhaseStep ==
  ASSUME IndInv, [Next]_vars
  PROVE  PhaseInv'
<1> USE ServerAssumption DEF IndInv, TypeOK, PhaseInv, Stopped, Accepting, NoFd,
        serverVars, slotVars, ownerVars, acceptVars, handlerVars, kernelVars
<1>1. CASE StartSocket
  BY <1>1 DEF StartSocket, Opened, LowestOf, FreeFds, Owner
<1>2. CASE StartFails
  BY <1>2 DEF StartFails, Closed, Owner
<1>3. CASE StartPipe
  BY <1>3 DEF StartPipe, LowestOf, FreeFds, Owner
<1>4. CASE StartThread
  BY <1>4 DEF StartThread, Owner
<1>5. CASE StartThreadFails
  BY <1>5 DEF StartThreadFails, CloseDescriptors, Closed, Owner
<1>6. CASE StopBegin
  BY <1>6 DEF StopBegin, Owner
<1>7. CASE StopShutdownListen
  BY <1>7 DEF StopShutdownListen, Owner
<1>8. CASE StopJoin
  BY <1>8 DEF StopJoin, Owner
<1>9. CASE StopClose
  BY <1>9 DEF StopClose, CloseDescriptors, Closed, Owner
<1>10. CASE StopShutdownConns
  BY <1>10 DEF StopShutdownConns, Owner, LockFree
<1>11. CASE StopAwake
  BY <1>11 DEF StopAwake, Owner, LockFree
<1>12. CASE StopClear
  BY <1>12 DEF StopClear, Owner
<1>13. CASE Destroy
  BY <1>13 DEF Destroy, Owner
<1>14. CASE AcceptLoop
  BY <1>14 DEF AcceptLoop, Acceptor, AcceptOnly
<1>15. CASE PollNothing
  BY <1>15 DEF PollNothing, Acceptor, AcceptOnly
<1>16. CASE PollReadable
  BY <1>16 DEF PollReadable, Acceptor, AcceptOnly, ListenReadable
<1>17. CASE AcceptCheck
  BY <1>17 DEF AcceptCheck, Acceptor, AcceptOnly
<1>18. CASE AcceptConn
  BY <1>18 DEF AcceptConn, Opened, LowestOf, FreeFds, Acceptor
<1>19. CASE AcceptFails
  BY <1>19 DEF AcceptFails, Acceptor, AcceptOnly, ListenReadable
<1>20. CASE ReserveSlot
  BY <1>20 DEF ReserveSlot, Acceptor, LockFree
<1>21. CASE ReserveRefused
  BY <1>21 DEF ReserveRefused, Acceptor, AcceptOnly, LockFree
<1>22. CASE SpawnHandler
  BY <1>22 DEF SpawnHandler, Acceptor
<1>23. CASE SpawnFails
  BY <1>23 DEF SpawnFails, Acceptor, AcceptOnly
<1>24. CASE GiveSlotBack
  BY <1>24 DEF GiveSlotBack, Acceptor, NotifyAll, LockFree
<1>25. CASE DropConn
  BY <1>25 DEF DropConn, Closed, Acceptor
<1>26. CASE SpuriousWakeup
  BY <1>26 DEF SpuriousWakeup, Owner
<1>27. CASE PeerConnects
  BY <1>27 DEF PeerConnects, ThreadsIdle
<1>28. CASE PeerAborts
  BY <1>28 DEF PeerAborts, ThreadsIdle
<1>29. ASSUME NEW t \in Handler, HandlerNext(t)
     PROVE  PhaseInv'
  <2>1. CASE Greet(t)
    BY <2>1 DEF Greet, Goto, Serving, Receives, RecvFails
  <2>2. CASE Welcome(t)
    BY <2>2 DEF Welcome, Goto, Serving
  <2>3. CASE Refuse(t)
    BY <2>3 DEF Refuse, Goto, Serving
  <2>4. CASE ServeLoop(t)
    BY <2>4 DEF ServeLoop, Goto, Serving
  <2>5. CASE Recv(t)
    BY <2>5 DEF Recv, Goto, Serving, Receives, RecvFails
  <2>6. CASE ProcessRequest(t)
    BY <2>6 DEF ProcessRequest, Goto, Serving
  <2>7. CASE Reply(t)
    BY <2>7 DEF Reply, Goto, Serving
  <2>8. CASE Throws(t)
    BY <2>8 DEF Throws, Goto, Serving
  <2>9. CASE EraseConn(t)
    BY <2>9 DEF EraseConn, Goto, LockFree
  <2>10. CASE CloseConn(t)
    BY <2>10 DEF CloseConn, Closed, Goto
  <2>11. CASE Leave(t)
    BY <2>11, CountPositive DEF Leave, NotifyAll, Goto, Live
  <2> QED BY <1>29, <2>1, <2>2, <2>3, <2>4, <2>5, <2>6, <2>7, <2>8, <2>9, <2>10, <2>11 DEF HandlerNext
<1>30. ASSUME NEW f \in Fd, PeerSends(f) \/ OtherOpens(f) \/ OtherCloses(f)
     PROVE  PhaseInv'
  <2>1. CASE PeerSends(f)
    BY <2>1 DEF PeerSends, ThreadsIdle
  <2>2. CASE OtherOpens(f)
    BY <2>2 DEF OtherOpens, Opened, LowestOf, FreeFds, ThreadsIdle
  <2>3. CASE OtherCloses(f)
    BY <2>3 DEF OtherCloses, Closed, ThreadsIdle
  <2> QED BY <1>30, <2>1, <2>2, <2>3
<1>31. CASE UNCHANGED vars
  BY <1>31 DEF vars
<1> QED
  BY <1>1, <1>2, <1>3, <1>4, <1>5, <1>6, <1>7, <1>8, <1>9, <1>10, <1>11, <1>12, <1>13, <1>14, <1>15, <1>16, <1>17, <1>18, <1>19, <1>20, <1>21, <1>22, <1>23, <1>24, <1>25, <1>26, <1>27, <1>28, <1>29, <1>30, <1>31
  DEF Next, OwnerNext, AcceptNext, Environment

\* connMutex is held across steps by exactly the thread between EraseConn and Leave.
LEMMA LockStep ==
  ASSUME IndInv, [Next]_vars
  PROVE  LockInv'
<1> USE ServerAssumption DEF IndInv, TypeOK, LockInv, NoFd,
        serverVars, slotVars, ownerVars, acceptVars, handlerVars, kernelVars
<1>1. CASE StartSocket
  BY <1>1 DEF StartSocket, Opened, LowestOf, FreeFds, Owner
<1>2. CASE StartFails
  BY <1>2 DEF StartFails, Closed, Owner
<1>3. CASE StartPipe
  BY <1>3 DEF StartPipe, LowestOf, FreeFds, Owner
<1>4. CASE StartThread
  BY <1>4 DEF StartThread, Owner
<1>5. CASE StartThreadFails
  BY <1>5 DEF StartThreadFails, CloseDescriptors, Closed, Owner
<1>6. CASE StopBegin
  BY <1>6 DEF StopBegin, Owner
<1>7. CASE StopShutdownListen
  BY <1>7 DEF StopShutdownListen, Owner
<1>8. CASE StopJoin
  BY <1>8 DEF StopJoin, Owner
<1>9. CASE StopClose
  BY <1>9 DEF StopClose, CloseDescriptors, Closed, Owner
<1>10. CASE StopShutdownConns
  BY <1>10 DEF StopShutdownConns, Owner, LockFree
<1>11. CASE StopAwake
  BY <1>11 DEF StopAwake, Owner, LockFree
<1>12. CASE StopClear
  BY <1>12 DEF StopClear, Owner
<1>13. CASE Destroy
  BY <1>13 DEF Destroy, Owner
<1>14. CASE AcceptLoop
  BY <1>14 DEF AcceptLoop, Acceptor, AcceptOnly
<1>15. CASE PollNothing
  BY <1>15 DEF PollNothing, Acceptor, AcceptOnly
<1>16. CASE PollReadable
  BY <1>16 DEF PollReadable, Acceptor, AcceptOnly, ListenReadable
<1>17. CASE AcceptCheck
  BY <1>17 DEF AcceptCheck, Acceptor, AcceptOnly
<1>18. CASE AcceptConn
  BY <1>18 DEF AcceptConn, Opened, LowestOf, FreeFds, Acceptor
<1>19. CASE AcceptFails
  BY <1>19 DEF AcceptFails, Acceptor, AcceptOnly, ListenReadable
<1>20. CASE ReserveSlot
  BY <1>20 DEF ReserveSlot, Acceptor, LockFree
<1>21. CASE ReserveRefused
  BY <1>21 DEF ReserveRefused, Acceptor, AcceptOnly, LockFree
<1>22. CASE SpawnHandler
  BY <1>22 DEF SpawnHandler, Acceptor
<1>23. CASE SpawnFails
  BY <1>23 DEF SpawnFails, Acceptor, AcceptOnly
<1>24. CASE GiveSlotBack
  BY <1>24 DEF GiveSlotBack, Acceptor, NotifyAll, LockFree
<1>25. CASE DropConn
  BY <1>25 DEF DropConn, Closed, Acceptor
<1>26. CASE SpuriousWakeup
  BY <1>26 DEF SpuriousWakeup, Owner
<1>27. CASE PeerConnects
  BY <1>27 DEF PeerConnects, ThreadsIdle
<1>28. CASE PeerAborts
  BY <1>28 DEF PeerAborts, ThreadsIdle
<1>29. ASSUME NEW t \in Handler, HandlerNext(t)
     PROVE  LockInv'
  <2>1. CASE Greet(t)
    BY <2>1 DEF Greet, Goto, Serving, Receives, RecvFails
  <2>2. CASE Welcome(t)
    BY <2>2 DEF Welcome, Goto, Serving
  <2>3. CASE Refuse(t)
    BY <2>3 DEF Refuse, Goto, Serving
  <2>4. CASE ServeLoop(t)
    BY <2>4 DEF ServeLoop, Goto, Serving
  <2>5. CASE Recv(t)
    BY <2>5 DEF Recv, Goto, Serving, Receives, RecvFails
  <2>6. CASE ProcessRequest(t)
    BY <2>6 DEF ProcessRequest, Goto, Serving
  <2>7. CASE Reply(t)
    BY <2>7 DEF Reply, Goto, Serving
  <2>8. CASE Throws(t)
    BY <2>8 DEF Throws, Goto, Serving
  <2>9. CASE EraseConn(t)
    BY <2>9 DEF EraseConn, Goto, LockFree
  <2>10. CASE CloseConn(t)
    BY <2>10 DEF CloseConn, Closed, Goto
  <2>11. CASE Leave(t)
    BY <2>11 DEF Leave, NotifyAll, Goto
  <2> QED BY <1>29, <2>1, <2>2, <2>3, <2>4, <2>5, <2>6, <2>7, <2>8, <2>9, <2>10, <2>11 DEF HandlerNext
<1>30. ASSUME NEW f \in Fd, PeerSends(f) \/ OtherOpens(f) \/ OtherCloses(f)
     PROVE  LockInv'
  <2>1. CASE PeerSends(f)
    BY <2>1 DEF PeerSends, ThreadsIdle
  <2>2. CASE OtherOpens(f)
    BY <2>2 DEF OtherOpens, Opened, LowestOf, FreeFds, ThreadsIdle
  <2>3. CASE OtherCloses(f)
    BY <2>3 DEF OtherCloses, Closed, ThreadsIdle
  <2> QED BY <1>30, <2>1, <2>2, <2>3
<1>31. CASE UNCHANGED vars
  BY <1>31 DEF vars
<1> QED
  BY <1>1, <1>2, <1>3, <1>4, <1>5, <1>6, <1>7, <1>8, <1>9, <1>10, <1>11, <1>12, <1>13, <1>14, <1>15, <1>16, <1>17, <1>18, <1>19, <1>20, <1>21, <1>22, <1>23, <1>24, <1>25, <1>26, <1>27, <1>28, <1>29, <1>30, <1>31
  DEF Next, OwnerNext, AcceptNext, Environment

\* Every step keeps the descriptor table and the threads' own records in agreement.
LEMMA OwnerStep ==
  ASSUME IndInv, [Next]_vars
  PROVE  OwnerInv'
<1> USE ServerAssumption DEF IndInv, TypeOK, OwnerInv, HasDescriptors, NoFd,
        serverVars, slotVars, ownerVars, acceptVars, handlerVars, kernelVars
<1>1. CASE StartSocket
  BY <1>1 DEF StartSocket, Opened, LowestOf, FreeFds, Owner
<1>2. CASE StartFails
  BY <1>2 DEF StartFails, Closed, Owner, PhaseInv, Accepting
<1>3. CASE StartPipe
  BY <1>3 DEF StartPipe, LowestOf, FreeFds, Owner, PhaseInv, Accepting
<1>4. CASE StartThread
  BY <1>4 DEF StartThread, Owner, PhaseInv, Accepting
<1>5. CASE StartThreadFails
  BY <1>5 DEF StartThreadFails, CloseDescriptors, Closed, Owner
<1>6. CASE StopBegin
  BY <1>6 DEF StopBegin, Owner
<1>7. CASE StopShutdownListen
  BY <1>7 DEF StopShutdownListen, Owner
<1>8. CASE StopJoin
  BY <1>8 DEF StopJoin, Owner
<1>9. CASE StopClose
  BY <1>9 DEF StopClose, CloseDescriptors, Closed, Owner, PhaseInv, Accepting
<1>10. CASE StopShutdownConns
  BY <1>10 DEF StopShutdownConns, Owner, LockFree
<1>11. CASE StopAwake
  BY <1>11 DEF StopAwake, Owner, LockFree
<1>12. CASE StopClear
  BY <1>12 DEF StopClear, Owner
<1>13. CASE Destroy
  BY <1>13 DEF Destroy, Owner
<1>14. CASE AcceptLoop
  BY <1>14 DEF AcceptLoop, Acceptor, AcceptOnly
<1>15. CASE PollNothing
  BY <1>15 DEF PollNothing, Acceptor, AcceptOnly
<1>16. CASE PollReadable
  BY <1>16 DEF PollReadable, Acceptor, AcceptOnly, ListenReadable
<1>17. CASE AcceptCheck
  BY <1>17 DEF AcceptCheck, Acceptor, AcceptOnly
<1>18. CASE AcceptConn
  BY <1>18 DEF AcceptConn, Opened, LowestOf, FreeFds, Acceptor
<1>19. CASE AcceptFails
  BY <1>19 DEF AcceptFails, Acceptor, AcceptOnly, ListenReadable
<1>20. CASE ReserveSlot
  BY <1>20 DEF ReserveSlot, Acceptor, LockFree
<1>21. CASE ReserveRefused
  BY <1>21 DEF ReserveRefused, Acceptor, AcceptOnly, LockFree
<1>22. CASE SpawnHandler
  BY <1>22 DEF SpawnHandler, Acceptor
<1>23. CASE SpawnFails
  BY <1>23 DEF SpawnFails, Acceptor, AcceptOnly
<1>24. CASE GiveSlotBack
  BY <1>24 DEF GiveSlotBack, Acceptor, NotifyAll, LockFree
<1>25. CASE DropConn
  BY <1>25 DEF DropConn, Closed, Acceptor
<1>26. CASE SpuriousWakeup
  BY <1>26 DEF SpuriousWakeup, Owner
<1>27. CASE PeerConnects
  BY <1>27 DEF PeerConnects, ThreadsIdle
<1>28. CASE PeerAborts
  BY <1>28 DEF PeerAborts, ThreadsIdle
<1>29. ASSUME NEW t \in Handler, HandlerNext(t)
     PROVE  OwnerInv'
  <2>1. CASE Greet(t)
    BY <2>1 DEF Greet, Goto, Serving, Receives, RecvFails
  <2>2. CASE Welcome(t)
    BY <2>2 DEF Welcome, Goto, Serving
  <2>3. CASE Refuse(t)
    BY <2>3 DEF Refuse, Goto, Serving
  <2>4. CASE ServeLoop(t)
    BY <2>4 DEF ServeLoop, Goto, Serving
  <2>5. CASE Recv(t)
    BY <2>5 DEF Recv, Goto, Serving, Receives, RecvFails
  <2>6. CASE ProcessRequest(t)
    BY <2>6 DEF ProcessRequest, Goto, Serving
  <2>7. CASE Reply(t)
    BY <2>7 DEF Reply, Goto, Serving
  <2>8. CASE Throws(t)
    BY <2>8 DEF Throws, Goto, Serving
  <2>9. CASE EraseConn(t)
    BY <2>9 DEF EraseConn, Goto, LockFree
  <2>10. CASE CloseConn(t)
    BY <2>10 DEF CloseConn, Closed, Goto
  <2>11. CASE Leave(t)
    BY <2>11 DEF Leave, NotifyAll, Goto
  <2> QED BY <1>29, <2>1, <2>2, <2>3, <2>4, <2>5, <2>6, <2>7, <2>8, <2>9, <2>10, <2>11 DEF HandlerNext
<1>30. ASSUME NEW f \in Fd, PeerSends(f) \/ OtherOpens(f) \/ OtherCloses(f)
     PROVE  OwnerInv'
  <2>1. CASE PeerSends(f)
    BY <2>1 DEF PeerSends, ThreadsIdle
  <2>2. CASE OtherOpens(f)
    BY <2>2 DEF OtherOpens, Opened, LowestOf, FreeFds, ThreadsIdle
  <2>3. CASE OtherCloses(f)
    BY <2>3 DEF OtherCloses, Closed, ThreadsIdle
  <2> QED BY <1>30, <2>1, <2>2, <2>3
<1>31. CASE UNCHANGED vars
  BY <1>31 DEF vars
<1> QED
  BY <1>1, <1>2, <1>3, <1>4, <1>5, <1>6, <1>7, <1>8, <1>9, <1>10, <1>11, <1>12, <1>13, <1>14, <1>15, <1>16, <1>17, <1>18, <1>19, <1>20, <1>21, <1>22, <1>23, <1>24, <1>25, <1>26, <1>27, <1>28, <1>29, <1>30, <1>31
  DEF Next, OwnerNext, AcceptNext, Environment

\* A step of one thread that leaves it registered changes no bookkeeping.
LEMMA SlotFrame ==
  ASSUME IndInv, NEW t \in Registered, NEW pc \in HandlerPcs \ {"free", "close", "leave"},
         Goto(t, pc), UNCHANGED <<activeHandlers, connFds, handlerFd>>
  PROVE  SlotInv'
<1>1. Registered' = Registered /\ Live' = Live /\ SlotHeld' = SlotHeld
  BY DEF IndInv, TypeOK, Registered, Live, SlotHeld, Goto, acceptVars
<1> QED
  BY <1>1 DEF IndInv, SlotInv, SlotsMatchThreads, SlotHeld, acceptVars, Goto

\* Every step keeps connFds and activeHandlers equal to what the threads hold.
LEMMA SlotStep ==
  ASSUME IndInv, [Next]_vars
  PROVE  SlotInv'
<1> USE ServerAssumption DEF IndInv, TypeOK, SlotInv, SlotsMatchThreads, SlotHeld, Registered, NoFd,
        serverVars, slotVars, ownerVars, acceptVars, handlerVars, kernelVars
<1>1. CASE StartSocket
  BY <1>1 DEF StartSocket, Opened, LowestOf, FreeFds, Owner, Live
<1>2. CASE StartFails
  BY <1>2 DEF StartFails, Closed, Owner, Live
<1>3. CASE StartPipe
  BY <1>3 DEF StartPipe, LowestOf, FreeFds, Owner, Live
<1>4. CASE StartThread
  BY <1>4 DEF StartThread, Owner, Live, PhaseInv, Accepting
<1>5. CASE StartThreadFails
  BY <1>5 DEF StartThreadFails, CloseDescriptors, Closed, Owner, Live
<1>6. CASE StopBegin
  BY <1>6 DEF StopBegin, Owner, Live
<1>7. CASE StopShutdownListen
  BY <1>7 DEF StopShutdownListen, Owner, Live
<1>8. CASE StopJoin
  BY <1>8 DEF StopJoin, Owner, Live
<1>9. CASE StopClose
  BY <1>9 DEF StopClose, CloseDescriptors, Closed, Owner, Live
<1>10. CASE StopShutdownConns
  BY <1>10 DEF StopShutdownConns, Owner, LockFree, Live
<1>11. CASE StopAwake
  BY <1>11 DEF StopAwake, Owner, LockFree, Live
<1>12. CASE StopClear
  <2>1. connFds = {} /\ Live = {} /\ ~SlotHeld
    BY <1>12, NoSlotNoThread DEF StopClear, Owner, PhaseInv
  <2> QED
    BY <1>12, <2>1 DEF StopClear, Owner, Live
<1>13. CASE Destroy
  BY <1>13 DEF Destroy, Owner, Live
<1>14. CASE AcceptLoop
  BY <1>14 DEF AcceptLoop, Acceptor, AcceptOnly, Live
<1>15. CASE PollNothing
  BY <1>15 DEF PollNothing, Acceptor, AcceptOnly, Live
<1>16. CASE PollReadable
  BY <1>16 DEF PollReadable, Acceptor, AcceptOnly, ListenReadable, Live
<1>17. CASE AcceptCheck
  BY <1>17 DEF AcceptCheck, Acceptor, AcceptOnly, Live
<1>18. CASE AcceptConn
  BY <1>18 DEF AcceptConn, Opened, LowestOf, FreeFds, Acceptor, Live
<1>19. CASE AcceptFails
  BY <1>19 DEF AcceptFails, Acceptor, AcceptOnly, ListenReadable, Live
<1>20. CASE ReserveSlot
  <2>1. Cardinality(Live) \in Nat
    BY FS_CardinalityType
  <2>2. Live' = Live /\ Registered' = Registered
    BY <1>20 DEF ReserveSlot, Acceptor, Live
  <2>3. connFds' = {handlerFd[t] : t \in Registered}' \cup {acceptedFd'}
    BY <1>20, <2>2 DEF ReserveSlot, Acceptor
  <2>4. activeHandlers' = Cardinality(Live) + 1 /\ activeHandlers' <= MaxConn
    BY <1>20, <2>1 DEF ReserveSlot, Acceptor
  <2> QED
    BY <1>20, <2>2, <2>3, <2>4 DEF ReserveSlot, Acceptor
<1>21. CASE ReserveRefused
  BY <1>21 DEF ReserveRefused, Acceptor, AcceptOnly, LockFree, Live
<1>22. CASE SpawnHandler
  <2>1. PICK t \in Handler : /\ handlerPc[t] = "free"
                             /\ handlerPc' = [handlerPc EXCEPT ![t] = "greet"]
                             /\ handlerFd' = [handlerFd EXCEPT ![t] = acceptedFd]
    BY <1>22 DEF SpawnHandler, Acceptor
  <2>2. Live' = Live \cup {t} /\ Registered' = Registered \cup {t} /\ t \notin Live
    BY <2>1 DEF Live
  <2>3. IsFiniteSet(Live') /\ Cardinality(Live') = Cardinality(Live) + 1
    BY <2>2, FS_AddElement
  <2>4. {handlerFd[u] : u \in Registered}' = {handlerFd[u] : u \in Registered} \cup {acceptedFd}
    BY <2>1, <2>2
  <2>5. Cardinality(Live) \in Nat
    BY FS_CardinalityType
  <2>6. activeHandlers' = Cardinality(Live') /\ activeHandlers' <= MaxConn
    BY <1>22, <2>3, <2>5 DEF SpawnHandler, Acceptor
  <2> QED
    BY <1>22, <2>3, <2>4, <2>6 DEF SpawnHandler, Acceptor
<1>23. CASE SpawnFails
  BY <1>23 DEF SpawnFails, Acceptor, AcceptOnly, Live
<1>24. CASE GiveSlotBack
  <2>1. Cardinality(Live) \in Nat
    BY FS_CardinalityType
  <2>2. Live' = Live /\ Registered' = Registered
    BY <1>24 DEF GiveSlotBack, Acceptor, Live
  <2>3. acceptedFd \notin {handlerFd[t] : t \in Registered}
    BY <1>24 DEF GiveSlotBack, Acceptor, OwnerInv
  <2>4. connFds' = {handlerFd[t] : t \in Registered}'
    BY <1>24, <2>2, <2>3 DEF GiveSlotBack, Acceptor
  <2>5. activeHandlers' = Cardinality(Live') /\ activeHandlers' <= MaxConn
    BY <1>24, <2>1, <2>2 DEF GiveSlotBack, Acceptor
  <2>6. acceptPc' = "drop"
    BY <1>24 DEF GiveSlotBack, Acceptor
  <2> QED
    <3>1. ~SlotHeld'
      BY <2>6
    <3>2. connFds' = {handlerFd[t] : t \in Registered}' \cup IF SlotHeld' THEN {acceptedFd'} ELSE {}
      BY <2>4, <3>1
    <3>3. IsFiniteSet(Live')
      BY <2>2
    <3>4. SlotsMatchThreads' /\ activeHandlers' <= MaxConn
      BY <2>1, <2>2, <2>5, <2>6
    <3> HIDE DEF SlotHeld, Registered, SlotsMatchThreads
    <3> QED
      BY <3>2, <3>3, <3>4
<1>25. CASE DropConn
  BY <1>25 DEF DropConn, Closed, Acceptor, Live
<1>26. CASE SpuriousWakeup
  BY <1>26 DEF SpuriousWakeup, Owner, Live
<1>27. CASE PeerConnects
  BY <1>27 DEF PeerConnects, ThreadsIdle, Live
<1>28. CASE PeerAborts
  BY <1>28 DEF PeerAborts, ThreadsIdle, Live
<1>29. ASSUME NEW t \in Handler, HandlerNext(t)
     PROVE  SlotInv'
  <2>1. CASE Greet(t)
    BY <2>1, SlotFrame DEF Greet, Goto, Serving, Receives, RecvFails, Registered, HandlerPcs
  <2>2. CASE Welcome(t)
    BY <2>2, SlotFrame DEF Welcome, Goto, Serving, Receives, RecvFails, Registered, HandlerPcs
  <2>3. CASE Refuse(t)
    BY <2>3, SlotFrame DEF Refuse, Goto, Serving, Receives, RecvFails, Registered, HandlerPcs
  <2>4. CASE ServeLoop(t)
    BY <2>4, SlotFrame DEF ServeLoop, Goto, Serving, Receives, RecvFails, Registered, HandlerPcs
  <2>5. CASE Recv(t)
    BY <2>5, SlotFrame DEF Recv, Goto, Serving, Receives, RecvFails, Registered, HandlerPcs
  <2>6. CASE ProcessRequest(t)
    BY <2>6, SlotFrame DEF ProcessRequest, Goto, Serving, Receives, RecvFails, Registered, HandlerPcs
  <2>7. CASE Reply(t)
    BY <2>7, SlotFrame DEF Reply, Goto, Serving, Receives, RecvFails, Registered, HandlerPcs
  <2>8. CASE Throws(t)
    BY <2>8, SlotFrame DEF Throws, Goto, Serving, Receives, RecvFails, Registered, HandlerPcs
  <2>9. CASE EraseConn(t)
    <3>1. Live' = Live /\ Registered' = Registered \ {t}
      BY <2>9 DEF EraseConn, Goto, Live
    <3>2. \A u \in Registered' : handlerFd[u] # handlerFd[t]
      BY <2>9, <3>1 DEF EraseConn, Goto, OwnerInv
    <3>3. handlerFd[t] # acceptedFd
      BY <2>9 DEF EraseConn, Goto, OwnerInv
    <3>4. {handlerFd[u] : u \in Registered}' = {handlerFd[u] : u \in Registered} \ {handlerFd[t]}
      BY <2>9, <3>1, <3>2 DEF EraseConn, Goto
    <3> QED
      BY <2>9, <3>1, <3>3, <3>4 DEF EraseConn, Goto
  <2>10. CASE CloseConn(t)
    <3>1. Live' = Live /\ Registered' = Registered /\ t \notin Registered
      BY <2>10 DEF CloseConn, Goto, Live
    <3>2. \A u \in Registered : handlerFd'[u] = handlerFd[u]
      BY <2>10, <3>1 DEF CloseConn, Goto
    <3>3. {handlerFd[u] : u \in Registered}' = {handlerFd[u] : u \in Registered}
      BY <3>1, <3>2
    <3> QED
      BY <2>10, <3>1, <3>3 DEF CloseConn, Goto
  <2>11. CASE Leave(t)
    <3>1. Live' = Live \ {t} /\ Registered' = Registered /\ t \in Live
      BY <2>11 DEF Leave, Goto, Live
    <3>2. IsFiniteSet(Live') /\ Cardinality(Live') = Cardinality(Live) - 1
      BY <3>1, FS_RemoveElement
    <3>3. Cardinality(Live) \in Nat
      BY FS_CardinalityType
    <3>4. activeHandlers' = activeHandlers - 1
      BY <2>11 DEF Leave, Goto
    <3>5. SlotsMatchThreads' /\ activeHandlers' <= MaxConn
      BY <2>11, <3>2, <3>3, <3>4 DEF Leave, Goto
    <3> QED
      BY <2>11, <3>1, <3>2, <3>5 DEF Leave, Goto
  <2> QED BY <1>29, <2>1, <2>2, <2>3, <2>4, <2>5, <2>6, <2>7, <2>8, <2>9, <2>10, <2>11 DEF HandlerNext
<1>30. ASSUME NEW f \in Fd, PeerSends(f) \/ OtherOpens(f) \/ OtherCloses(f)
     PROVE  SlotInv'
  <2>1. CASE PeerSends(f)
    BY <2>1 DEF PeerSends, ThreadsIdle, Live
  <2>2. CASE OtherOpens(f)
    BY <2>2 DEF OtherOpens, Opened, LowestOf, FreeFds, ThreadsIdle, Live
  <2>3. CASE OtherCloses(f)
    BY <2>3 DEF OtherCloses, Closed, ThreadsIdle, Live
  <2> QED BY <1>30, <2>1, <2>2, <2>3
<1>31. CASE UNCHANGED vars
  BY <1>31 DEF vars, Live
<1> QED
  BY <1>1, <1>2, <1>3, <1>4, <1>5, <1>6, <1>7, <1>8, <1>9, <1>10, <1>11, <1>12, <1>13, <1>14, <1>15, <1>16, <1>17, <1>18, <1>19, <1>20, <1>21, <1>22, <1>23, <1>24, <1>25, <1>26, <1>27, <1>28, <1>29, <1>30, <1>31
  DEF Next, OwnerNext, AcceptNext, Environment

\* The initial state satisfies the inductive invariant.
LEMMA InitIndInv == Init => IndInv
<1> SUFFICES ASSUME Init PROVE IndInv
  OBVIOUS
<1> USE ServerAssumption DEF Init, NoFd
<1>1. TypeOK
  <2>1. /\ handlerPc \in [Handler -> HandlerPcs] /\ handlerFd \in [Handler -> Fd \cup {NoFd}]
        /\ fdUse \in [Fd -> Use] /\ inbox \in [Fd -> Input]
    BY DEF HandlerPcs, Use, Input
  <2>2. /\ shut \subseteq Fd /\ connFds \subseteq Fd
        /\ backlog \in 0 .. MaxBacklog /\ activeHandlers \in Nat
    OBVIOUS
  <2>4. running \in BOOLEAN /\ boundPort \in BOOLEAN
    BY Zenon
  <2>3. /\ listenFd \in Fd \cup {NoFd} /\ newFd \in Fd \cup {NoFd}
        /\ wakeReadFd \in Fd \cup {NoFd} /\ wakeWriteFd \in Fd \cup {NoFd}
        /\ acceptedFd \in Fd \cup {NoFd} /\ connMutex \in Handler \cup {NoThread}
        /\ ownerPc \in OwnerPcs /\ acceptPc \in AcceptPcs
    BY DEF OwnerPcs, AcceptPcs
  <2> QED
    BY <2>1, <2>2, <2>3, <2>4 DEF TypeOK
<1>2. PhaseInv /\ LockInv
  BY DEF PhaseInv, LockInv, Stopped, Accepting
<1>3. OwnerInv
  BY DEF OwnerInv, HasDescriptors
<1>4. Live = {} /\ Registered = {} /\ ~SlotHeld
  BY DEF Live, Registered, SlotHeld
<1>5. SlotInv
  BY <1>4, FS_EmptySet DEF SlotInv, SlotsMatchThreads, SlotHeld
<1> QED
  BY <1>1, <1>2, <1>3, <1>5 DEF IndInv

\* Every behaviour of the server satisfies the inductive invariant.
THEOREM Invariance == Spec => []IndInv
<1>1. IndInv /\ [Next]_vars => IndInv'
  BY TypeStep, PhaseStep, LockStep, OwnerStep, SlotStep DEF IndInv
<1> QED
  BY InitIndInv, <1>1, PTL DEF Spec

\* Type correctness.
THEOREM Typing == Spec => []TypeOK
<1>1. IndInv => TypeOK
  BY DEF IndInv
<1> QED
  BY Invariance, <1>1, PTL

\* Between its calls a stopped server owns no thread, slot or descriptor:
\* stop() returns only once everything it promises is gone.
THEOREM StopReleasesEverything == Spec => []StoppedOwnsNothing
<1>1. IndInv => StoppedOwnsNothing
  <2> SUFFICES ASSUME IndInv, ownerPc = "gone" \/ (ownerPc = "idle" /\ ~running)
               PROVE  /\ acceptPc = "none" /\ Live = {}
                      /\ connFds = {} /\ activeHandlers = 0 /\ ~boundPort
                      /\ \A f \in Fd : fdUse[f] \in {"free", "other"}
    BY DEF StoppedOwnsNothing
  <2>1. acceptPc = "none" /\ activeHandlers = 0 /\ ~boundPort /\ ~running
    BY DEF IndInv, PhaseInv, Stopped, Accepting
  <2>2. Live = {} /\ connFds = {}
    BY <2>1, NoSlotNoThread
  <2>3. \A t \in Handler : handlerFd[t] = NoFd
    BY <2>2 DEF IndInv, OwnerInv, Live
  <2>4. newFd = NoFd /\ listenFd = NoFd /\ wakeReadFd = NoFd /\ wakeWriteFd = NoFd
    BY <2>1 DEF IndInv, OwnerInv, HasDescriptors
  <2>5. acceptedFd = NoFd
    BY <2>1 DEF IndInv, OwnerInv
  <2>6. NoFd \notin Fd
    BY ServerAssumption DEF NoFd
  <2>7. \A f \in Fd : fdUse[f] \in {"free", "other"}
    BY <2>3, <2>4, <2>5, <2>6 DEF IndInv, OwnerInv, TypeOK, Use
  <2> QED
    BY <2>1, <2>2, <2>7
<1> QED
  BY Invariance, <1>1, PTL

\* kMaxConnections bounds the threads that exist, not only the counter.
THEOREM CapHolds == Spec => []ConnectionCap
<1>1. IndInv => ConnectionCap
  <2> SUFFICES ASSUME IndInv PROVE ConnectionCap
    OBVIOUS
  <2>1. Cardinality(Live) \in Nat
    BY FS_CardinalityType DEF IndInv, SlotInv
  <2> QED
    BY <2>1, ServerAssumption DEF IndInv, SlotInv, SlotsMatchThreads, TypeOK, ConnectionCap
<1> QED
  BY Invariance, <1>1, PTL

\* Every descriptor a thread is about to use is open and still the one it took.
THEOREM DescriptorsAreFresh == Spec => []NoStaleDescriptor
<1>1. IndInv => NoStaleDescriptor
  <2> SUFFICES ASSUME IndInv PROVE NoStaleDescriptor
    OBVIOUS
  <2> USE ServerAssumption DEF IndInv, TypeOK, OwnerInv, NoFd
  <2>1. \A t \in Live : handlerPc[t] # "leave" => fdUse[handlerFd[t]] = "conn"
    <3> SUFFICES ASSUME NEW t \in Live, handlerPc[t] # "leave"
                 PROVE  fdUse[handlerFd[t]] = "conn"
      OBVIOUS
    <3>1. t \in Handler /\ handlerFd[t] # NoFd /\ handlerFd[t] \in Fd
      BY DEF Live
    <3> QED
      BY <3>1
  <2>2. acceptedFd # NoFd => fdUse[acceptedFd] = "conn"
    OBVIOUS
  <2>3. \A f \in connFds : fdUse[f] = "conn"
    BY <2>2 DEF SlotInv, Registered, SlotHeld
  <2>4. acceptPc \notin {"none", "done"} => listenFd # NoFd /\ wakeReadFd # NoFd
    BY DEF PhaseInv, Accepting, HasDescriptors
  <2>5. /\ listenFd # NoFd => fdUse[listenFd] = "listen"
        /\ wakeReadFd # NoFd => fdUse[wakeReadFd] = "wakeRead"
        /\ wakeWriteFd # NoFd => fdUse[wakeWriteFd] = "wakeWrite"
    OBVIOUS
  <2> QED
    BY <2>1, <2>2, <2>3, <2>4, <2>5 DEF NoStaleDescriptor
<1> QED
  BY Invariance, <1>1, PTL

\* No step of the server touches a descriptor of the host application.
LEMMA ForeignStep ==
  ASSUME IndInv, [Next]_vars
  PROVE  \A f \in Fd : fdUse[f] = "other" /\ ~OtherCloses(f) =>
              fdUse'[f] = "other" /\ (f \in shut' <=> f \in shut)
<1> USE ServerAssumption DEF IndInv, TypeOK, OwnerInv, NoFd,
        serverVars, slotVars, ownerVars, acceptVars, handlerVars, kernelVars
<1>1. CASE StartSocket
  BY <1>1 DEF StartSocket, Opened, LowestOf, FreeFds, Owner
<1>2. CASE StartFails
  BY <1>2 DEF StartFails, Closed, Owner
<1>3. CASE StartPipe
  BY <1>3 DEF StartPipe, LowestOf, FreeFds, Owner
<1>4. CASE StartThread
  BY <1>4 DEF StartThread, Owner
<1>5. CASE StartThreadFails
  BY <1>5 DEF StartThreadFails, CloseDescriptors, Closed, Owner
<1>6. CASE StopBegin
  BY <1>6 DEF StopBegin, Owner
<1>7. CASE StopShutdownListen
  BY <1>7 DEF StopShutdownListen, Owner
<1>8. CASE StopJoin
  BY <1>8 DEF StopJoin, Owner
<1>9. CASE StopClose
  BY <1>9 DEF StopClose, CloseDescriptors, Closed, Owner
<1>10. CASE StopShutdownConns
  <2>1. \A f \in connFds : fdUse[f] = "conn"
    BY DEF SlotInv, Registered, SlotHeld
  <2> QED
    BY <1>10, <2>1 DEF StopShutdownConns, Owner
<1>11. CASE StopAwake
  BY <1>11 DEF StopAwake, Owner, LockFree
<1>12. CASE StopClear
  BY <1>12 DEF StopClear, Owner
<1>13. CASE Destroy
  BY <1>13 DEF Destroy, Owner
<1>14. CASE AcceptLoop
  BY <1>14 DEF AcceptLoop, Acceptor, AcceptOnly
<1>15. CASE PollNothing
  BY <1>15 DEF PollNothing, Acceptor, AcceptOnly
<1>16. CASE PollReadable
  BY <1>16 DEF PollReadable, Acceptor, AcceptOnly, ListenReadable
<1>17. CASE AcceptCheck
  BY <1>17 DEF AcceptCheck, Acceptor, AcceptOnly
<1>18. CASE AcceptConn
  BY <1>18 DEF AcceptConn, Opened, LowestOf, FreeFds, Acceptor
<1>19. CASE AcceptFails
  BY <1>19 DEF AcceptFails, Acceptor, AcceptOnly, ListenReadable
<1>20. CASE ReserveSlot
  BY <1>20 DEF ReserveSlot, Acceptor, LockFree
<1>21. CASE ReserveRefused
  BY <1>21 DEF ReserveRefused, Acceptor, AcceptOnly, LockFree
<1>22. CASE SpawnHandler
  BY <1>22 DEF SpawnHandler, Acceptor
<1>23. CASE SpawnFails
  BY <1>23 DEF SpawnFails, Acceptor, AcceptOnly
<1>24. CASE GiveSlotBack
  BY <1>24 DEF GiveSlotBack, Acceptor, NotifyAll, LockFree
<1>25. CASE DropConn
  BY <1>25 DEF DropConn, Closed, Acceptor
<1>26. CASE SpuriousWakeup
  BY <1>26 DEF SpuriousWakeup, Owner
<1>27. CASE PeerConnects
  BY <1>27 DEF PeerConnects, ThreadsIdle
<1>28. CASE PeerAborts
  BY <1>28 DEF PeerAborts, ThreadsIdle
<1>29. ASSUME NEW t \in Handler, HandlerNext(t)
     PROVE  \A f \in Fd : fdUse[f] = "other" /\ ~OtherCloses(f) =>
              fdUse'[f] = "other" /\ (f \in shut' <=> f \in shut)
  <2>1. CASE Greet(t)
    BY <2>1 DEF Greet, Goto, Serving, Receives, RecvFails
  <2>2. CASE Welcome(t)
    BY <2>2 DEF Welcome, Goto, Serving
  <2>3. CASE Refuse(t)
    BY <2>3 DEF Refuse, Goto, Serving
  <2>4. CASE ServeLoop(t)
    BY <2>4 DEF ServeLoop, Goto, Serving
  <2>5. CASE Recv(t)
    BY <2>5 DEF Recv, Goto, Serving, Receives, RecvFails
  <2>6. CASE ProcessRequest(t)
    BY <2>6 DEF ProcessRequest, Goto, Serving
  <2>7. CASE Reply(t)
    BY <2>7 DEF Reply, Goto, Serving
  <2>8. CASE Throws(t)
    BY <2>8 DEF Throws, Goto, Serving
  <2>9. CASE EraseConn(t)
    BY <2>9 DEF EraseConn, Goto, LockFree
  <2>10. CASE CloseConn(t)
    BY <2>10 DEF CloseConn, Closed, Goto
  <2>11. CASE Leave(t)
    BY <2>11 DEF Leave, NotifyAll, Goto
  <2> QED BY <1>29, <2>1, <2>2, <2>3, <2>4, <2>5, <2>6, <2>7, <2>8, <2>9, <2>10, <2>11 DEF HandlerNext
<1>30. ASSUME NEW f \in Fd, PeerSends(f) \/ OtherOpens(f) \/ OtherCloses(f)
     PROVE  \A g \in Fd : fdUse[g] = "other" /\ ~OtherCloses(g) =>
              fdUse'[g] = "other" /\ (g \in shut' <=> g \in shut)
  <2>1. CASE PeerSends(f)
    BY <2>1 DEF PeerSends, ThreadsIdle
  <2>2. CASE OtherOpens(f)
    <3>1. fdUse[f] = "free" /\ Opened(f, "other")
      BY <2>2 DEF OtherOpens, LowestOf, FreeFds
    <3> QED
      BY <3>1 DEF Opened
  <2>3. CASE OtherCloses(f)
    BY <2>3 DEF OtherCloses, Closed, ThreadsIdle
  <2> QED BY <1>30, <2>1, <2>2, <2>3
<1>31. CASE UNCHANGED vars
  BY <1>31 DEF vars
<1> QED
  BY <1>1, <1>2, <1>3, <1>4, <1>5, <1>6, <1>7, <1>8, <1>9, <1>10, <1>11, <1>12, <1>13, <1>14, <1>15, <1>16, <1>17, <1>18, <1>19, <1>20, <1>21, <1>22, <1>23, <1>24, <1>25, <1>26, <1>27, <1>28, <1>29, <1>30, <1>31
  DEF Next, OwnerNext, AcceptNext, Environment

\* The server never closes or shuts down a descriptor of the host application.
THEOREM ForeignSafe == Spec => ForeignUntouched
<1>1. IndInv /\ [Next]_vars =>
        [\A f \in Fd : fdUse[f] = "other" /\ ~OtherCloses(f) =>
             fdUse'[f] = "other" /\ (f \in shut' <=> f \in shut)]_vars
  BY ForeignStep
<1> QED
  BY Invariance, <1>1, PTL DEF Spec, ForeignUntouched

\* Waiting for the handlers, stop() has shut every one of their sockets down.
LEMMA ParkedStep ==
  ASSUME IndInv, NobodyLeftParked, [Next]_vars
  PROVE  NobodyLeftParked'
<1> SUFFICES ASSUME ownerPc' \in {"wait", "awake"}, NEW t \in Handler,
                    handlerPc'[t] \notin {"free", "close", "leave"}
             PROVE  handlerFd'[t] \in shut'
  BY DEF NobodyLeftParked
<1> USE ServerAssumption DEF IndInv, TypeOK, OwnerInv, NoFd,
        serverVars, slotVars, ownerVars, acceptVars, handlerVars, kernelVars
<1>1. CASE OwnerNext
  <2>1. StopShutdownConns \/ StopAwake
    BY <1>1 DEF OwnerNext, StartSocket, StartFails, StartPipe, StartThread, StartThreadFails,
                StopBegin, StopShutdownListen, StopJoin, StopClose, StopClear, Destroy, Owner
  <2>2. CASE StopShutdownConns
    <3>1. t \in Registered /\ handlerFd[t] \in connFds
      BY <2>2 DEF StopShutdownConns, Owner, Registered, SlotInv
    <3> QED
      BY <2>2, <3>1 DEF StopShutdownConns, Owner
  <2>3. CASE StopAwake
    BY <2>3 DEF StopAwake, Owner, NobodyLeftParked
  <2> QED
    BY <2>1, <2>2, <2>3
<1>2. CASE AcceptNext
  <2>1. acceptPc # "none"
    BY <1>2 DEF AcceptNext, Acceptor, AcceptLoop, PollNothing, PollReadable, AcceptCheck,
                AcceptConn, AcceptFails, ReserveSlot, ReserveRefused, SpawnHandler, SpawnFails,
                GiveSlotBack, DropConn
  <2>2. ownerPc \notin {"wait", "awake"}
    BY <2>1 DEF PhaseInv, Accepting
  <2>3. ownerPc' = ownerPc
    BY <1>2, <2>2 DEF AcceptNext, Acceptor, AcceptOnly, AcceptLoop, PollNothing, PollReadable,
                AcceptCheck, AcceptConn, AcceptFails, ReserveSlot, ReserveRefused, SpawnHandler,
                SpawnFails, GiveSlotBack, NotifyAll, DropConn
  <2> QED
    BY <2>2, <2>3
<1>3. CASE \E u \in Handler : HandlerNext(u)
  <2> PICK u \in Handler : HandlerNext(u)
    BY <1>3
  <2>1. ownerPc \in {"wait", "awake"}
    BY DEF HandlerNext, Greet, Welcome, Refuse, ServeLoop, Recv, ProcessRequest, Reply, Throws,
           EraseConn, CloseConn, Leave, Goto, Serving, NotifyAll
  <2>2. handlerPc[t] \notin {"free", "close", "leave"}
    BY DEF HandlerNext, Greet, Welcome, Refuse, ServeLoop, Recv, ProcessRequest, Reply, Throws,
           EraseConn, CloseConn, Leave, Goto
  <2>3. handlerFd[t] \in shut /\ handlerFd[t] # NoFd
    BY <2>1, <2>2 DEF NobodyLeftParked
  <2>4. CASE CloseConn(u)
    <3>1. u # t
      BY <2>2, <2>4 DEF CloseConn
    <3>2. handlerFd'[t] = handlerFd[t] /\ shut' = shut \ {handlerFd[u]}
      BY <2>4, <3>1 DEF CloseConn, Closed
    <3>3. handlerFd[t] # handlerFd[u]
      BY <2>3, <3>1
    <3> QED
      BY <2>3, <3>2, <3>3
  <2>5. CASE ~CloseConn(u)
    <3>1. handlerFd' = handlerFd /\ shut' = shut
      BY <2>5 DEF HandlerNext, Greet, Welcome, Refuse, ServeLoop, Recv, ProcessRequest, Reply,
                  Throws, EraseConn, Leave, Goto, Serving
    <3> QED
      BY <2>3, <3>1
  <2> QED
    BY <2>4, <2>5
<1>4. CASE Environment
  <2>1. ownerPc \in {"wait", "awake"} /\ handlerPc' = handlerPc /\ handlerFd' = handlerFd
    BY <1>4 DEF Environment, SpuriousWakeup, Owner, PeerConnects, PeerAborts, PeerSends,
                OtherOpens, OtherCloses, ThreadsIdle
  <2>2. handlerFd[t] \in shut /\ handlerFd[t] # NoFd
    BY <2>1 DEF NobodyLeftParked
  <2>3. fdUse[handlerFd[t]] = "conn"
    BY <2>2
  <2>4. CASE \E f \in Fd : OtherOpens(f) \/ OtherCloses(f)
    BY <2>1, <2>2, <2>3, <2>4 DEF OtherOpens, OtherCloses, Opened, Closed, LowestOf, FreeFds
  <2>5. CASE ~(\E f \in Fd : OtherOpens(f) \/ OtherCloses(f))
    <3>1. shut' = shut
      BY <1>4, <2>5 DEF Environment, SpuriousWakeup, PeerConnects, PeerAborts, PeerSends
    <3> QED
      BY <2>1, <2>2, <3>1
  <2> QED
    BY <2>4, <2>5
<1>5. CASE UNCHANGED vars
  BY <1>5 DEF vars, NobodyLeftParked
<1> QED
  BY <1>1, <1>2, <1>3, <1>4, <1>5 DEF Next

\* The slot count is the number of connection threads, plus one while a slot
\* waits for its thread, however many spawns fail.
THEOREM SlotsExact == Spec => []SlotsMatchThreads
<1>1. IndInv => SlotsMatchThreads
  BY DEF IndInv, SlotInv
<1> QED
  BY Invariance, <1>1, PTL

\* No two connection threads ever serve the same descriptor.
THEOREM DescriptorsNotShared == Spec => []OneThreadPerConn
<1>1. IndInv => OneThreadPerConn
  BY DEF IndInv, OwnerInv, OneThreadPerConn, Live
<1> QED
  BY Invariance, <1>1, PTL

\* stop() never waits for a thread that nothing can wake.
THEOREM StopLeavesNobodyParked == Spec => []NobodyLeftParked
<1>1. Init => NobodyLeftParked
  BY DEF Init, NobodyLeftParked
<1>2. IndInv /\ NobodyLeftParked /\ [Next]_vars => NobodyLeftParked'
  BY ParkedStep, SMTT(40)
<1> QED
  BY Invariance, <1>1, <1>2, PTL DEF Spec

-----------------------------------------------------------------------------
(* The session behind the server *)

\* The theorems of BridgeSessionProofs, about the scene and the buttons of Bridge.
Marking == INSTANCE BridgeSessionProofs WITH
    MaxRevision <- 3, MaxPress <- 0, MaxTimeout <- 0,
    Ops <- {"push_editmesh", "pull_editmesh", "query_changed", "clear_scene"}

Pressing == INSTANCE BridgeSessionProofs WITH
    MaxRevision <- 1, MaxPress <- 2, MaxTimeout <- 1,
    Ops <- {"add_action", "remove_action", "press_action", "poll_presses", "close_document"}

\* Two instances of BridgeSession are the same module, definition by definition.
LEMMA MarkingStep == Scene!Next => Marking!Next
BY ZenonT(60) DEF
   Scene!sessionVars, Marking!sessionVars, Scene!wireVars, Marking!wireVars, Scene!viewVars,
   Marking!viewVars, Scene!clientVars, Marking!clientVars, Scene!Maybe, Marking!Maybe,
   Scene!Nothing, Marking!Nothing, Scene!Request, Marking!Request, Scene!Bumping, Marking!Bumping,
   Scene!Underway, Marking!Underway, Scene!RoomForRevision, Marking!RoomForRevision,
   Scene!RoomForPress, Marking!RoomForPress, Scene!Answer, Marking!Answer, Scene!SetTarget,
   Marking!SetTarget, Scene!SetEditMesh, Marking!SetEditMesh, Scene!SetGuides, Marking!SetGuides,
   Scene!SetDensity, Marking!SetDensity, Scene!DropScene, Marking!DropScene, Scene!ClearScene,
   Marking!ClearScene, Scene!CloseDocument, Marking!CloseDocument, Scene!AddAction,
   Marking!AddAction, Scene!RemoveAction, Marking!RemoveAction, Scene!PressAction,
   Marking!PressAction, Scene!TakePresses, Marking!TakePresses, Scene!Req, Marking!Req,
   Scene!Taken, Marking!Taken, Scene!ServerOnly, Marking!ServerOnly, Scene!OneLock,
   Marking!OneLock, Scene!Command, Marking!Command, Scene!RemotePress, Marking!RemotePress,
   Scene!PollPresses, Marking!PollPresses, Scene!PullEditMesh, Marking!PullEditMesh,
   Scene!QueryChanged, Marking!QueryChanged, Scene!FirstLock, Marking!FirstLock, Scene!SecondLock,
   Marking!SecondLock, Scene!BadRequest, Marking!BadRequest, Scene!Refuse, Marking!Refuse,
   Scene!ReplyThrows, Marking!ReplyThrows, Scene!SecondThrows, Marking!SecondThrows, Scene!Serve,
   Marking!Serve, Scene!UserPress, Marking!UserPress, Scene!Send, Marking!Send, Scene!Learn,
   Marking!Learn, Scene!Receive, Marking!Receive, Scene!TimesOut, Marking!TimesOut,
   Scene!ClientNext, Marking!ClientNext, Scene!Next, Marking!Next, Scene!Cardinality,
   Marking!Cardinality

LEMMA PressingStep == Buttons!Next => Pressing!Next
BY ZenonT(60) DEF
   Buttons!sessionVars, Pressing!sessionVars, Buttons!wireVars, Pressing!wireVars,
   Buttons!viewVars, Pressing!viewVars, Buttons!clientVars, Pressing!clientVars, Buttons!Maybe,
   Pressing!Maybe, Buttons!Nothing, Pressing!Nothing, Buttons!Request, Pressing!Request,
   Buttons!Bumping, Pressing!Bumping, Buttons!Underway, Pressing!Underway,
   Buttons!RoomForRevision, Pressing!RoomForRevision, Buttons!RoomForPress, Pressing!RoomForPress,
   Buttons!Answer, Pressing!Answer, Buttons!SetTarget, Pressing!SetTarget, Buttons!SetEditMesh,
   Pressing!SetEditMesh, Buttons!SetGuides, Pressing!SetGuides, Buttons!SetDensity,
   Pressing!SetDensity, Buttons!DropScene, Pressing!DropScene, Buttons!ClearScene,
   Pressing!ClearScene, Buttons!CloseDocument, Pressing!CloseDocument, Buttons!AddAction,
   Pressing!AddAction, Buttons!RemoveAction, Pressing!RemoveAction, Buttons!PressAction,
   Pressing!PressAction, Buttons!TakePresses, Pressing!TakePresses, Buttons!Req, Pressing!Req,
   Buttons!Taken, Pressing!Taken, Buttons!ServerOnly, Pressing!ServerOnly, Buttons!OneLock,
   Pressing!OneLock, Buttons!Command, Pressing!Command, Buttons!RemotePress, Pressing!RemotePress,
   Buttons!PollPresses, Pressing!PollPresses, Buttons!PullEditMesh, Pressing!PullEditMesh,
   Buttons!QueryChanged, Pressing!QueryChanged, Buttons!FirstLock, Pressing!FirstLock,
   Buttons!SecondLock, Pressing!SecondLock, Buttons!BadRequest, Pressing!BadRequest,
   Buttons!Refuse, Pressing!Refuse, Buttons!ReplyThrows, Pressing!ReplyThrows,
   Buttons!SecondThrows, Pressing!SecondThrows, Buttons!Serve, Pressing!Serve, Buttons!UserPress,
   Pressing!UserPress, Buttons!Send, Pressing!Send, Buttons!Learn, Pressing!Learn,
   Buttons!Receive, Pressing!Receive, Buttons!TimesOut, Pressing!TimesOut, Buttons!ClientNext,
   Pressing!ClientNext, Buttons!Next, Pressing!Next, Buttons!Cardinality, Pressing!Cardinality

LEMMA SessionAssumptions == Marking!SessionAssumption /\ Pressing!SessionAssumption
BY SessionsAssumption DEF Scene!SessionAssumption, Buttons!SessionAssumption,
   Marking!SessionAssumption, Pressing!SessionAssumption

\* What the session does in a behaviour where scene moves.
LEMMA MarkingRuns == BridgeSafeSpec /\ part = "scene" => Marking!Spec /\ [](part = "scene")
<1>1. BridgeSafeInit => Marking!Init
  BY DEF BridgeSafeInit, BridgeInit, Calls!Init, Marking!Init, Calls!Nothing, Marking!Nothing
<1>2. part = "scene" /\ [ServerMoves \/ SceneMoves \/ ButtonsMove]_<<part, vars, sessionVars>>
        => (part = "scene")'
  BY DEF ServerMoves, SceneMoves, ButtonsMove
<1>3. part = "scene" /\ [ServerMoves \/ SceneMoves \/ ButtonsMove]_<<part, vars, sessionVars>>
        => [Marking!Next]_(Marking!vars)
  BY MarkingStep DEF ServerMoves, SceneMoves, ButtonsMove, sessionVars, Marking!vars,
     Marking!sessionVars, Marking!wireVars, Marking!clientVars, Marking!viewVars
<1> QED BY <1>1, <1>2, <1>3, PTL DEF BridgeSafeSpec, Marking!Spec

LEMMA NotMarking == BridgeSafeSpec /\ ~(part = "scene") => [](~(part = "scene"))
<1>1. ~(part = "scene") /\ [ServerMoves \/ SceneMoves \/ ButtonsMove]_<<part, vars, sessionVars>>
        => (~(part = "scene"))'
  BY DEF ServerMoves, SceneMoves, ButtonsMove
<1> QED BY <1>1, PTL DEF BridgeSafeSpec

\* What the session does in a behaviour where buttons moves.
LEMMA PressingRuns == BridgeSafeSpec /\ part = "buttons" => Pressing!Spec /\ [](part = "buttons")
<1>1. BridgeSafeInit => Pressing!Init
  BY DEF BridgeSafeInit, BridgeInit, Calls!Init, Pressing!Init, Calls!Nothing, Pressing!Nothing
<1>2. part = "buttons" /\ [ServerMoves \/ SceneMoves \/ ButtonsMove]_<<part, vars, sessionVars>>
        => (part = "buttons")'
  BY DEF ServerMoves, SceneMoves, ButtonsMove
<1>3. part = "buttons" /\ [ServerMoves \/ SceneMoves \/ ButtonsMove]_<<part, vars, sessionVars>>
        => [Pressing!Next]_(Pressing!vars)
  BY PressingStep DEF ServerMoves, SceneMoves, ButtonsMove, sessionVars, Pressing!vars,
     Pressing!sessionVars, Pressing!wireVars, Pressing!clientVars, Pressing!viewVars
<1> QED BY <1>1, <1>2, <1>3, PTL DEF BridgeSafeSpec, Pressing!Spec

LEMMA NotPressing == BridgeSafeSpec /\ ~(part = "buttons") => [](~(part = "buttons"))
<1>1. ~(part = "buttons") /\ [ServerMoves \/ SceneMoves \/ ButtonsMove]_<<part, vars, sessionVars>>
        => (~(part = "buttons"))'
  BY DEF ServerMoves, SceneMoves, ButtonsMove
<1> QED BY <1>1, PTL DEF BridgeSafeSpec

\* In every behaviour of the bridge, whatever is thrown: a client that pulled under
\* the current revision, so that query_changed answers "unchanged", has the mesh.
THEOREM MarkersTell == BridgeSafeSpec => []PulledMarkerSound
<1>1. Marking!PulledMarkerSound => PulledMarkerSound
  BY DEF PulledMarkerSound, Scene!PulledMarkerSound, Marking!PulledMarkerSound
<1>2. ~(part = "scene") => PulledMarkerSound
  BY DEF PulledMarkerSound
<1>3. Marking!Spec => []Marking!PulledMarkerSound
  BY SessionAssumptions, Marking!PulledMarkersTell
<1> QED BY <1>1, <1>2, <1>3, MarkingRuns, NotMarking, PTL

\* ... and no push is answered with a revision older than itself.
THEOREM PushesNotOutdated == BridgeSafeSpec => []PushAnsweredAfterItself
<1>1. Marking!PushAnsweredAfterItself => PushAnsweredAfterItself
  BY DEF PushAnsweredAfterItself, Scene!PushAnsweredAfterItself, Marking!PushAnsweredAfterItself
<1>2. ~(part = "scene") => PushAnsweredAfterItself
  BY DEF PushAnsweredAfterItself
<1>3. Marking!Spec => []Marking!PushAnsweredAfterItself
  BY SessionAssumptions, Marking!PushNotOutdated
<1> QED BY <1>1, <1>2, <1>3, MarkingRuns, NotMarking, PTL

\* A tap on a remote button is with one client at most, and in order.
THEOREM PressesReachOne == BridgeSafeSpec => []PressDeliveredOnce
<1>1. Pressing!PressDeliveredOnce => PressDeliveredOnce
  BY DEF PressDeliveredOnce, Buttons!PressDeliveredOnce, Pressing!PressDeliveredOnce,
     Buttons!InReplies, Pressing!InReplies, Buttons!Got, Pressing!Got, Buttons!Queued, Pressing!Queued
<1>2. ~(part = "buttons") => PressDeliveredOnce
  BY DEF PressDeliveredOnce
<1>3. Pressing!Spec => []Pressing!PressDeliveredOnce
  BY SessionAssumptions, Pressing!PressesOnce
<1> QED BY <1>1, <1>2, <1>3, PressingRuns, NotPressing, PTL
=============================================================================
