-------------------------- MODULE BridgeSessionProofs --------------------------
(***************************************************************************)
(* For any number of clients, commands, presses and timeouts, and whatever *)
(* is thrown: a client that waits has one frame under way, a push is       *)
(* answered with a revision not older than its own, and no tap is          *)
(* delivered twice or out of order.  For clients that wait for every       *)
(* reply: the marker of a client that pulled tells it the truth.           *)
(***************************************************************************)
EXTENDS BridgeSession, TLAPS

-----------------------------------------------------------------------------
(* The frames *)

PushReply == {r \in [op : {"push_editmesh"}, mine : Nat, revision : Nat] : r.mine <= r.revision}

OpNames ==
    {"push_target", "push_editmesh", "push_guides", "push_density", "pull_editmesh",
     "pull_target", "clear_guides", "clear_scene", "close_document", "poll_presses",
     "add_action", "remove_action", "press_action", "query_changed", "malformed"}

Reply ==
    PushReply
    \cup [op : {"push_target", "push_guides", "clear_guides", "clear_scene", "close_document",
               "add_action", "remove_action", "press_action"}]
    \cup [op : {"poll_presses"}, ids : Seq(Nat)]
    \cup [op : {"pull_editmesh"}, mesh : Maybe(Mesh)]
    \cup [op : {"query_changed"}, changed : BOOLEAN, revision : Nat]
    \cup [op : {"push_density"}, size : Maybe(Mesh)]
    \cup [op : {"pull_target"}, present : BOOLEAN, mesh : Maybe(Mesh)]
    \cup [op : {"error"}, to : OpNames]

Held ==
    {Nothing} \cup [op : {"push_editmesh"}, mine : Nat] \cup [op : {"push_density"}]
    \cup [op : {"pull_target"}, present : BOOLEAN]

LEMMA PushRepliesAre == ASSUME NEW r \in Reply, r.op = "push_editmesh" PROVE r \in PushReply
BY DEF Reply, PushReply

LEMMA HeldPushes == ASSUME NEW h \in Held, h.op = "push_editmesh" PROVE h.mine \in Nat
BY DEF Held, Nothing

LEMMA HeldPulls == ASSUME NEW h \in Held, h.op = "pull_target" PROVE h.present \in BOOLEAN
BY DEF Held, Nothing

LEMMA ErrorReplies ==
    ASSUME NEW op \in OpNames PROVE BadRequest(op) \in Reply /\ BadRequest(op).op = "error"
BY DEF Reply, BadRequest

LEMMA RequestNames == ASSUME NEW r \in Request PROVE r.op \in OpNames
BY DEF Request, OpNames

LEMMA HeldNames == ASSUME NEW h \in Held, h # Nothing PROVE h.op \in OpNames
BY DEF Held, OpNames

\* A push that is between its two locks has its revision behind it.
HandlingInv == \A c \in Client : handling[c].op = "push_editmesh" => handling[c].mine <= editRevision

FrameInv ==
    /\ {target, editMesh, guides, density} \subseteq Maybe(Mesh)
    /\ editRevision \in Nat
    /\ requests \in [Client -> Seq(Request)] /\ replies \in [Client -> Seq(Reply)]
    /\ handling \in [Client -> Held] /\ awaiting \in [Client -> Request \cup {Nothing}]
    /\ presses \in Seq(Nat) /\ pressed \in Seq(Action)
    /\ HandlingInv

-----------------------------------------------------------------------------
\* What a command does to the session: the revision rises with every change of
\* the EditMesh.
SameScene == UNCHANGED <<editMesh, editRevision>>
NewScene == editRevision' = editRevision + 1

OneLockDoes(c) ==
    /\ SameScene \/ NewScene
    /\ {target', editMesh', guides', density'} \subseteq Maybe(Mesh)
    /\ presses' = presses \/ presses' = <<>>
    /\ requests[c] # <<>> /\ requests' = [requests EXCEPT ![c] = Tail(@)]
    /\ handling[c] = Nothing
    /\ [op |-> Req(c).op] \in Reply
    /\ Req(c).op \notin {"push_editmesh", "query_changed", "poll_presses", "pull_editmesh"}

LEMMA OneLockEffect == ASSUME FrameInv, NEW c \in Client, OneLock(c) PROVE OneLockDoes(c)
<1> USE DEF OneLockDoes
<1>1. requests[c] # <<>> => Req(c) \in Request
  BY DEF FrameInv, Req
<1>2. CASE Taken(c, "push_target") /\ SetTarget(Req(c).arg)
  BY <1>1, <1>2 DEF Taken, SetTarget, SameScene, FrameInv, Reply, Request, Maybe
<1>3. CASE Taken(c, "push_guides") /\ SetGuides(target)
  BY <1>1, <1>3 DEF Taken, SetGuides, SameScene, FrameInv, Reply
<1>4. CASE Taken(c, "clear_guides") /\ SetGuides(NoMesh)
  BY <1>1, <1>4 DEF Taken, SetGuides, SameScene, FrameInv, Reply, Maybe
<1>5. CASE Taken(c, "clear_scene") /\ ClearScene
  BY <1>1, <1>5 DEF Taken, ClearScene, DropScene, NewScene, FrameInv, Reply, Maybe
<1>6. CASE Taken(c, "close_document") /\ CloseDocument
  BY <1>1, <1>6 DEF Taken, CloseDocument, DropScene, NewScene, FrameInv, Reply, Maybe
<1>7. CASE Taken(c, "add_action") /\ AddAction(Req(c).arg)
  BY <1>1, <1>7 DEF Taken, AddAction, SameScene, FrameInv, Reply
<1>8. CASE Taken(c, "remove_action") /\ RemoveAction(Req(c).arg)
  BY <1>1, <1>8 DEF Taken, RemoveAction, SameScene, FrameInv, Reply
<1> QED BY <1>2, <1>3, <1>4, <1>5, <1>6, <1>7, <1>8 DEF OneLock

\* A tap of a registered button is queued, under the next number.
LEMMA PressEffect ==
    ASSUME FrameInv, NEW a \in Action, PressAction(a)
    PROVE  /\ SameScene /\ UNCHANGED <<target, guides, density, actions>>
           /\ \/ presses' = Append(presses, Len(pressed) + 1) /\ pressed' = Append(pressed, a)
              \/ UNCHANGED <<presses, pressed>>
           /\ presses' \in Seq(Nat) /\ pressed' \in Seq(Action)
<1>1. SameScene /\ UNCHANGED <<target, guides, density, actions>>
  BY DEF PressAction, SameScene
<1>2. CASE a \in actions
  <2>1. presses' = Append(presses, Len(pressed) + 1) /\ pressed' = Append(pressed, a)
    BY <1>2 DEF PressAction
  <2>2. presses \in Seq(Nat) /\ pressed \in Seq(Action) /\ Len(pressed) + 1 \in Nat
    BY DEF FrameInv
  <2>3. presses' \in Seq(Nat) /\ pressed' \in Seq(Action)
    BY <2>1, <2>2
  <2> QED BY <1>1, <2>1, <2>3
<1>3. CASE a \notin actions
  BY <1>1, <1>3 DEF PressAction, FrameInv
<1> QED BY <1>2, <1>3

\* The second method's result goes into the reply: none brings presses.
LEMMA SecondLockAnswers ==
    ASSUME FrameInv, NEW c \in Client, SecondLock(c)
    PROVE  \E r \in Reply : r.op # "poll_presses" /\ Answer(c, r)
<1> USE DEF FrameInv
<1>1. handling[c].op = "push_editmesh" =>
        [op |-> "push_editmesh", mine |-> handling[c].mine, revision |-> editRevision] \in Reply
  <2>1. SUFFICES ASSUME handling[c].op = "push_editmesh"
                 PROVE  [op |-> "push_editmesh", mine |-> handling[c].mine,
                         revision |-> editRevision] \in PushReply
    BY DEF Reply
  <2>2. handling[c].mine \in Nat /\ handling[c].mine <= editRevision
    BY <2>1, HeldPushes DEF HandlingInv
  <2> QED BY <2>2 DEF PushReply
<1>2. [op |-> "push_density", size |-> density] \in Reply
  BY DEF Reply
<1>3. handling[c].op = "pull_target" =>
        [op |-> "pull_target", present |-> handling[c].present, mesh |-> target] \in Reply
  <2>1. handling[c].op = "pull_target" => handling[c].present \in BOOLEAN
    BY HeldPulls
  <2> QED BY <2>1 DEF Reply
<1> QED BY <1>1, <1>2, <1>3 DEF SecondLock

\* What a command that throws does: a method of the session or none, and an error
\* for a reply, to a request that was read or to one between its two locks.
Throws(c) == Refuse(c) \/ ReplyThrows(c) \/ SecondThrows(c)

Presses ==
    \/ UNCHANGED <<presses, pressed>>
    \/ presses' = <<>> /\ UNCHANGED pressed
    \/ \E a \in Action : /\ presses' = Append(presses, Len(pressed) + 1)
                         /\ pressed' = Append(pressed, a)

ThrowsDoes(c) ==
    /\ SameScene \/ NewScene
    /\ {target', editMesh', guides', density'} \subseteq Maybe(Mesh)
    /\ Presses /\ presses' \in Seq(Nat) /\ pressed' \in Seq(Action)
    /\ \E r \in Reply : r.op = "error" /\ Answer(c, r)
    /\ UNCHANGED <<awaiting, copy, marker, via, received, timeouts>>
    /\ \/ /\ requests[c] # <<>> /\ requests' = [requests EXCEPT ![c] = Tail(@)]
          /\ handling[c] = Nothing /\ UNCHANGED handling
       \/ /\ handling[c] # Nothing /\ handling' = [handling EXCEPT ![c] = Nothing]
          /\ UNCHANGED requests

LEMMA ThrowsEffect == ASSUME FrameInv, NEW c \in Client, Throws(c) PROVE ThrowsDoes(c)
<1>1. /\ {target, editMesh, guides, density} \subseteq Maybe(Mesh)
      /\ presses \in Seq(Nat) /\ pressed \in Seq(Action) /\ handling[c] \in Held
  BY DEF FrameInv
<1>2. requests[c] # <<>> => Req(c) \in Request
  BY DEF FrameInv, Req
<1>3. ASSUME NEW op \in OpNames, Answer(c, BadRequest(op))
      PROVE  \E r \in Reply : r.op = "error" /\ Answer(c, r)
  BY <1>3, ErrorReplies
<1>4. CASE Refuse(c)
  <2>1. Req(c).op \in OpNames /\ Answer(c, BadRequest(Req(c).op))
    BY <1>2, <1>4, RequestNames DEF Refuse, Taken
  <2>2. \E r \in Reply : r.op = "error" /\ Answer(c, r)
    BY <1>3, <2>1
  <2> QED BY <1>1, <1>4, <2>2
      DEF ThrowsDoes, Refuse, Taken, Presses, SameScene, sessionVars, ServerOnly, clientVars, viewVars
<1>5. CASE ReplyThrows(c)
  <2>1. requests[c] # <<>> /\ requests' = [requests EXCEPT ![c] = Tail(@)] /\ handling[c] = Nothing
    BY <1>5, OneLockEffect DEF ReplyThrows, Taken, OneLockDoes
  <2>2. \E r \in Reply : r.op = "error" /\ Answer(c, r)
    <3>1. Req(c).op \in OpNames /\ Answer(c, BadRequest(Req(c).op))
      BY <1>2, <1>5, <2>1, RequestNames DEF ReplyThrows
    <3> QED BY <1>3, <3>1
  <2>3. UNCHANGED <<awaiting, copy, marker, via, received, timeouts>> /\ UNCHANGED handling
    BY <1>5 DEF ReplyThrows, ServerOnly, clientVars, viewVars
  <2>4. CASE OneLock(c) /\ UNCHANGED pressed
    <3>1. OneLockDoes(c)
      BY <2>4, OneLockEffect
    <3>2. presses' = presses \/ presses' = <<>>
      BY <3>1 DEF OneLockDoes
    <3>3. <<>> \in Seq(Nat)
      OBVIOUS
    <3>4. Presses /\ presses' \in Seq(Nat) /\ pressed' \in Seq(Action)
      BY <1>1, <2>4, <3>2, <3>3 DEF Presses
    <3> QED BY <2>1, <2>2, <2>3, <3>1, <3>4 DEF ThrowsDoes, OneLockDoes
  <2>5. CASE Taken(c, "press_action") /\ PressAction(Req(c).arg)
    <3>1. Req(c).arg \in Action
      BY <1>2, <2>5 DEF Taken, Request
    <3>2. SameScene /\ UNCHANGED <<target, guides, density>>
          /\ presses' \in Seq(Nat) /\ pressed' \in Seq(Action)
      BY <2>5, <3>1, PressEffect
    <3>3. Presses
      BY <2>5, <3>1, PressEffect DEF Presses
    <3> QED BY <1>1, <2>1, <2>2, <2>3, <3>2, <3>3 DEF ThrowsDoes, SameScene
  <2>6. CASE Taken(c, "poll_presses") /\ TakePresses /\ UNCHANGED pressed
    <3>1. <<>> \in Seq(Nat)
      OBVIOUS
    <3> QED BY <1>1, <2>1, <2>2, <2>3, <2>6, <3>1 DEF ThrowsDoes, SameScene, TakePresses, Presses
  <2> QED BY <1>5, <2>4, <2>5, <2>6 DEF ReplyThrows
<1>6. CASE SecondThrows(c)
  <2>1. handling[c].op \in OpNames /\ Answer(c, BadRequest(handling[c].op))
    BY <1>1, <1>6, HeldNames DEF SecondThrows
  <2>2. \E r \in Reply : r.op = "error" /\ Answer(c, r)
    BY <1>3, <2>1
  <2> QED BY <1>1, <1>6, <2>2
      DEF ThrowsDoes, SecondThrows, Presses, SameScene, sessionVars, ServerOnly, clientVars, viewVars
<1> QED BY <1>4, <1>5, <1>6 DEF Throws

LEMMA InitFrames == ASSUME SessionAssumption, Init PROVE FrameInv
<1>1. Nothing \in Held /\ Nothing.op # "push_editmesh"
  BY DEF Held, Nothing
<1> QED BY <1>1 DEF Init, FrameInv, HandlingInv, Maybe

LEMMA NextFrames == ASSUME FrameInv, [Next]_vars PROVE FrameInv'
<1>0. \A c \in Client : OneLock(c) => OneLockDoes(c)
  BY OneLockEffect
<1>press. ASSUME NEW a \in Action, PressAction(a)
          PROVE  /\ SameScene /\ UNCHANGED <<target, guides, density>>
                 /\ presses' \in Seq(Nat) /\ pressed' \in Seq(Action)
  BY <1>press, PressEffect
<1>second. \A c \in Client : SecondLock(c) => \E r \in Reply : r.op # "poll_presses" /\ Answer(c, r)
  BY SecondLockAnswers
<1> USE DEF FrameInv
<1>1. ASSUME NEW c \in Client, Command(c) PROVE FrameInv'
  <2>1. OneLock(c) /\ Answer(c, [op |-> Req(c).op]) /\ UNCHANGED <<awaiting, handling, pressed>>
    BY <1>1 DEF Command, ServerOnly, clientVars
  <2>a. OneLockDoes(c)
    BY <1>0, <2>1
  <2>2. editRevision' \in Nat /\ editRevision <= editRevision' /\ presses' \in Seq(Nat)
    <3>1. SameScene \/ NewScene
      BY <2>a DEF OneLockDoes
    <3>2. editRevision' \in Nat /\ editRevision <= editRevision'
      BY <3>1 DEF SameScene, NewScene
    <3>3. presses' = presses \/ presses' = <<>>
      BY <2>a DEF OneLockDoes
    <3>4. presses \in Seq(Nat) /\ <<>> \in Seq(Nat)
      OBVIOUS
    <3>5. presses' \in Seq(Nat)
      BY ONLY <3>3, <3>4
    <3> QED BY <3>2, <3>5
  <2>3. requests' \in [Client -> Seq(Request)] /\ replies' \in [Client -> Seq(Reply)]
    BY <2>1, <2>a DEF OneLockDoes, Answer
  <2>4. HandlingInv'
    BY <2>1, <2>2, HeldPushes DEF HandlingInv
  <2> QED BY <2>1, <2>2, <2>3, <2>4, <2>a DEF OneLockDoes
<1>2. ASSUME NEW c \in Client, RemotePress(c) PROVE FrameInv'
  <2>1. requests[c] # <<>> /\ Req(c).op = "press_action" /\ Req(c) \in Request
    BY <1>2 DEF RemotePress, Taken, Req
  <2>2. Req(c).arg \in Action
    BY <2>1 DEF Request
  <2>3. requests' \in [Client -> Seq(Request)]
    BY <1>2, <2>1 DEF RemotePress, Taken
  <2>4. [op |-> "press_action"] \in Reply
    BY DEF Reply
  <2>5. replies' \in [Client -> Seq(Reply)]
    BY <1>2, <2>4 DEF RemotePress, Answer
  <2>6. SameScene /\ UNCHANGED <<target, guides, density>>
        /\ presses' \in Seq(Nat) /\ pressed' \in Seq(Action)
    BY <1>2, <2>2, <1>press DEF RemotePress
  <2> QED BY <1>2, <2>3, <2>5, <2>6 DEF RemotePress, SameScene, ServerOnly, clientVars, HandlingInv
<1>3. ASSUME NEW c \in Client, PollPresses(c) PROVE FrameInv'
  <2>1. [op |-> "poll_presses", ids |-> presses] \in Reply
    BY DEF Reply
  <2>2. requests' \in [Client -> Seq(Request)] /\ replies' \in [Client -> Seq(Reply)]
    BY <1>3, <2>1 DEF PollPresses, Taken, Answer
  <2> QED BY <1>3, <2>2 DEF PollPresses, TakePresses, ServerOnly, clientVars, HandlingInv
<1>4. ASSUME NEW c \in Client, PullEditMesh(c) PROVE FrameInv'
  <2>1. [op |-> "pull_editmesh", mesh |-> editMesh] \in Reply
    BY DEF Reply
  <2>2. requests' \in [Client -> Seq(Request)] /\ replies' \in [Client -> Seq(Reply)]
    BY <1>4, <2>1 DEF PullEditMesh, Taken, Answer
  <2> QED BY <1>4, <2>2 DEF PullEditMesh, sessionVars, ServerOnly, clientVars, HandlingInv
<1>5. ASSUME NEW c \in Client, QueryChanged(c) PROVE FrameInv'
  <2>1. [op |-> "query_changed", changed |-> editRevision # Req(c).arg,
         revision |-> editRevision] \in Reply
    BY DEF Reply
  <2>2. requests' \in [Client -> Seq(Request)] /\ replies' \in [Client -> Seq(Reply)]
    BY <1>5, <2>1 DEF QueryChanged, Taken, Answer
  <2> QED BY <1>5, <2>2 DEF QueryChanged, sessionVars, ServerOnly, clientVars, HandlingInv
<1>6. ASSUME NEW c \in Client, FirstLock(c) PROVE FrameInv'
  <2>1. requests[c] # <<>> /\ Req(c) \in Request /\ requests' = [requests EXCEPT ![c] = Tail(@)]
    BY <1>6 DEF FirstLock, Taken, Req
  <2>2. requests' \in [Client -> Seq(Request)] /\ UNCHANGED <<replies, awaiting, pressed>>
    BY <1>6, <2>1 DEF FirstLock, ServerOnly, clientVars
  <2>3. CASE Taken(c, "push_editmesh") /\ SetEditMesh(Req(c).arg)
             /\ handling' = [handling EXCEPT ![c] = [op |-> "push_editmesh", mine |-> editRevision + 1]]
    <3>1. Req(c).arg \in Mesh
      BY <2>1, <2>3 DEF Taken, Request
    <3>2. [op |-> "push_editmesh", mine |-> editRevision + 1] \in Held
      BY DEF Held
    <3>3. HandlingInv'
      <4> SUFFICES ASSUME NEW d \in Client, handling'[d].op = "push_editmesh"
                   PROVE  handling'[d].mine <= editRevision'
        BY DEF HandlingInv
      <4>1. editRevision' = editRevision + 1
        BY <2>3 DEF SetEditMesh
      <4>2. CASE d = c
        BY <2>3, <4>1, <4>2
      <4>3. CASE d # c
        <5>1. handling'[d] = handling[d]
          BY <2>3, <4>3
        <5>2. handling[d].mine \in Nat /\ handling[d].mine <= editRevision
          BY <5>1, HeldPushes DEF HandlingInv
        <5> QED BY <4>1, <5>1, <5>2
      <4> QED BY <4>2, <4>3
    <3> QED BY <2>2, <2>3, <3>1, <3>2, <3>3 DEF SetEditMesh, Maybe
  <2>4. CASE SetDensity(target) /\ handling' = [handling EXCEPT ![c] = [op |-> "push_density"]]
    <3>1. [op |-> "push_density"] \in Held
      BY DEF Held
    <3> QED BY <2>2, <2>4, <3>1 DEF SetDensity, HandlingInv
  <2>5. CASE UNCHANGED sessionVars
             /\ handling' = [handling EXCEPT ![c] = [op |-> "pull_target", present |-> target # NoMesh]]
    <3>1. [op |-> "pull_target", present |-> target # NoMesh] \in Held
      BY DEF Held
    <3> QED BY <2>2, <2>5, <3>1 DEF sessionVars, HandlingInv
  <2> QED BY <1>6, <2>3, <2>4, <2>5 DEF FirstLock
<1>7. ASSUME NEW c \in Client, SecondLock(c) PROVE FrameInv'
  <2>4. replies' \in [Client -> Seq(Reply)]
    <3>1. \E r \in Reply : Answer(c, r)
      BY <1>7, <1>second
    <3> QED BY <3>1 DEF Answer
  <2>5. Nothing \in Held /\ Nothing.op # "push_editmesh"
    BY DEF Held, Nothing
  <2> QED BY <1>7, <2>4, <2>5 DEF SecondLock, sessionVars, ServerOnly, clientVars, HandlingInv
<1>throws. ASSUME NEW c \in Client, Throws(c) PROVE FrameInv'
  <2>1. ThrowsDoes(c)
    BY <1>throws, ThrowsEffect
  <2>2. editRevision' \in Nat /\ editRevision <= editRevision'
    BY <2>1 DEF ThrowsDoes, SameScene, NewScene
  <2>3. replies' \in [Client -> Seq(Reply)]
    <3>1. PICK r \in Reply : Answer(c, r)
      BY <2>1 DEF ThrowsDoes
    <3> QED BY <3>1 DEF Answer
  <2>4. Nothing \in Held /\ Nothing.op # "push_editmesh"
    BY DEF Held, Nothing
  <2>5. requests' \in [Client -> Seq(Request)]
    <3>1. CASE requests' = requests
      BY <3>1
    <3>2. CASE requests[c] # <<>> /\ requests' = [requests EXCEPT ![c] = Tail(@)]
      BY <3>2
    <3> QED BY <2>1, <3>1, <3>2 DEF ThrowsDoes
  <2>8. handling' = handling \/ handling' = [handling EXCEPT ![c] = Nothing]
    BY <2>1 DEF ThrowsDoes
  <2>9. handling' \in [Client -> Held]
    BY <2>4, <2>8
  <2>6. \A d \in Client : handling'[d] = handling[d] \/ handling'[d] = Nothing
    BY <2>8
  <2>7. HandlingInv'
    <3> SUFFICES ASSUME NEW d \in Client, handling'[d].op = "push_editmesh"
                 PROVE  handling'[d].mine <= editRevision'
      BY DEF HandlingInv
    <3>1. handling'[d] = handling[d]
      BY <2>4, <2>6
    <3>2. handling[d].mine \in Nat /\ handling[d].mine <= editRevision
      BY <3>1, HeldPushes DEF HandlingInv
    <3> QED BY <2>2, <3>1, <3>2
  <2> QED BY <2>1, <2>2, <2>3, <2>5, <2>9, <2>7 DEF ThrowsDoes
<1>8. ASSUME NEW c \in Client, NEW r \in Request, Send(c, r) PROVE FrameInv'
  BY <1>8 DEF Send, sessionVars, HandlingInv
<1>9. ASSUME NEW c \in Client, Receive(c) PROVE FrameInv'
  BY <1>9 DEF Receive, sessionVars, HandlingInv
<1>10. ASSUME NEW c \in Client, TimesOut(c) PROVE FrameInv'
  BY <1>10 DEF TimesOut, sessionVars, wireVars, HandlingInv
<1>11. ASSUME NEW a \in Action, UserPress(a) PROVE FrameInv'
  BY <1>11, <1>press DEF UserPress, SameScene, wireVars, clientVars, HandlingInv
<1>12. CASE UNCHANGED vars
  BY <1>12 DEF vars, sessionVars, wireVars, clientVars, HandlingInv
<1> QED
  BY <1>1, <1>2, <1>3, <1>4, <1>5, <1>6, <1>7, <1>throws, <1>8, <1>9, <1>10, <1>11, <1>12
  DEF Next, Serve, Throws, ClientNext

\* The frames are what the two ends take them for: session.cpp and message.cpp
\* under any number of clients.
THEOREM Frames == ASSUME SessionAssumption PROVE Spec => []FrameInv
BY InitFrames, NextFrames, PTL DEF Spec

\* push_editmesh never answers with a revision older than the push.
THEOREM PushNotOutdated == ASSUME SessionAssumption PROVE Spec => []PushAnsweredAfterItself
<1>1. FrameInv => PushAnsweredAfterItself
  <2> SUFFICES ASSUME FrameInv, NEW c \in Client, NEW i \in DOMAIN replies[c],
                      replies[c][i].op = "push_editmesh"
               PROVE  replies[c][i].revision >= replies[c][i].mine
    BY DEF PushAnsweredAfterItself
  <2>1. replies[c][i] \in Reply
    BY DEF FrameInv
  <2>2. replies[c][i] \in PushReply
    BY <2>1, PushRepliesAre
  <2> QED BY <2>2 DEF PushReply
<1> QED BY Frames, <1>1, PTL

-----------------------------------------------------------------------------
(* One frame for each request *)

\* What a step does to the frames of client c: none is added and none lost.
SameFrames(c) ==
    InFlight(c)' = InFlight(c) /\ UNCHANGED <<awaiting[c], timeouts>>

LEMMA TailLength ==
    ASSUME NEW S, NEW s \in Seq(S), s # <<>>
    PROVE  Len(Tail(s)) = Len(s) - 1 /\ Len(s) \in Nat
OBVIOUS

LEMMA AppendLength ==
    ASSUME NEW S, NEW s \in Seq(S), NEW x \in S
    PROVE  Len(Append(s, x)) = Len(s) + 1 /\ Len(s) \in Nat
OBVIOUS

LEMMA FramesAre ==
    ASSUME FrameInv, NEW c \in Client
    PROVE  InFlight(c) \in Nat /\ Expected(c) \in {0, 1}
<1>1. requests[c] \in Seq(Request) /\ replies[c] \in Seq(Reply)
  BY DEF FrameInv
<1>2. Len(requests[c]) \in Nat /\ Len(replies[c]) \in Nat
  BY <1>1
<1>3. \A m, n \in Nat : m + n \in Nat /\ m + n + 1 \in Nat
  OBVIOUS
<1>4. InFlight(c) \in Nat
  BY <1>2, <1>3 DEF InFlight
<1>5. Expected(c) \in {0, 1}
  BY DEF Expected
<1> QED BY <1>4, <1>5

\* Nobody takes a time-out back.
LEMMA TimeoutsGrow == ASSUME [Next]_vars PROVE timeouts' = timeouts \/ timeouts' = timeouts + 1
BY DEF Next, vars, clientVars, Serve, Command, RemotePress, PollPresses, PullEditMesh, QueryChanged,
       FirstLock, SecondLock, Refuse, ReplyThrows, SecondThrows, ServerOnly, ClientNext, Send,
       Receive, TimesOut, UserPress

\* A request that was read, or one between its two locks, and its reply.
LEMMA AnswerKeepsFrames ==
    ASSUME FrameInv, NEW c \in Client, NEW r, Answer(c, r), UNCHANGED <<awaiting, timeouts>>,
           \/ /\ requests[c] # <<>> /\ requests' = [requests EXCEPT ![c] = Tail(@)]
              /\ handling[c] = Nothing /\ UNCHANGED handling
           \/ handling[c] # Nothing /\ handling' = [handling EXCEPT ![c] = Nothing] /\ UNCHANGED requests
    PROVE  \A d \in Client : SameFrames(d)
<1>1. /\ requests \in [Client -> Seq(Request)] /\ replies \in [Client -> Seq(Reply)]
      /\ handling \in [Client -> Held]
  BY DEF FrameInv
<1>2. replies' = [replies EXCEPT ![c] = Append(@, r)]
  BY DEF Answer
<1>3. Len(replies'[c]) = Len(replies[c]) + 1 /\ Len(replies[c]) \in Nat /\ Len(requests[c]) \in Nat
  <2>1. replies'[c] = Append(replies[c], r) /\ replies[c] \in Seq(Reply) /\ requests[c] \in Seq(Request)
    BY <1>1, <1>2
  <2> QED BY <2>1
<1>4. InFlight(c)' = InFlight(c)
  <2>1. CASE /\ requests[c] # <<>> /\ requests' = [requests EXCEPT ![c] = Tail(@)]
             /\ handling[c] = Nothing /\ UNCHANGED handling
    <3>1. Len(requests'[c]) = Len(requests[c]) - 1
      <4>1. requests'[c] = Tail(requests[c]) /\ requests[c] \in Seq(Request) /\ requests[c] # <<>>
        BY <1>1, <2>1
      <4> QED BY <4>1, TailLength
    <3>2. handling'[c] = Nothing /\ handling[c] = Nothing
      BY <2>1
    <3>3. InFlight(c) = Len(requests[c]) + Len(replies[c])
      BY <3>2 DEF InFlight
    <3>4. InFlight(c)' = Len(requests'[c]) + Len(replies'[c])
      BY <3>2 DEF InFlight
    <3>5. \A m, n \in Nat : m + n = (m - 1) + (n + 1)
      OBVIOUS
    <3> QED BY <1>3, <3>1, <3>3, <3>4, <3>5
  <2>2. CASE handling[c] # Nothing /\ handling' = [handling EXCEPT ![c] = Nothing] /\ UNCHANGED requests
    BY <1>1, <1>3, <2>2 DEF InFlight
  <2> QED BY <2>1, <2>2
<1>5. ASSUME NEW d \in Client, d # c PROVE InFlight(d)' = InFlight(d)
  BY <1>1, <1>2, <1>5 DEF InFlight
<1> QED BY <1>4, <1>5 DEF SameFrames

LEMMA SameFramesMatch ==
    ASSUME FramesMatch, \A d \in Client : SameFrames(d) PROVE FramesMatch'
BY DEF FramesMatch, SameFrames, Expected

LEMMA NextFramesMatch ==
    ASSUME FrameInv, FramesMatch, timeouts \in Nat, [Next]_vars PROVE FramesMatch'
<1>1. /\ requests \in [Client -> Seq(Request)] /\ replies \in [Client -> Seq(Reply)]
      /\ handling \in [Client -> Held] /\ awaiting \in [Client -> Request \cup {Nothing}]
  BY DEF FrameInv
<1>2. ASSUME NEW c \in Client, NEW r, Answer(c, r), UNCHANGED <<awaiting, timeouts>>,
             \/ /\ requests[c] # <<>> /\ requests' = [requests EXCEPT ![c] = Tail(@)]
                /\ handling[c] = Nothing /\ UNCHANGED handling
             \/ handling[c] # Nothing /\ handling' = [handling EXCEPT ![c] = Nothing] /\ UNCHANGED requests
      PROVE  FramesMatch'
  BY <1>2, AnswerKeepsFrames, SameFramesMatch
<1>3. ASSUME NEW c \in Client, Command(c) PROVE FramesMatch'
  <2>1. OneLockDoes(c)
    BY <1>3, OneLockEffect DEF Command
  <2>2. UNCHANGED <<awaiting, timeouts>> /\ UNCHANGED handling
    BY <1>3 DEF Command, ServerOnly, clientVars
  <2>3. PICK r : Answer(c, r)
    BY <1>3 DEF Command
  <2> QED BY <1>2, <2>1, <2>2, <2>3 DEF OneLockDoes
<1>4. ASSUME NEW c \in Client, RemotePress(c) PROVE FramesMatch'
  BY <1>2, <1>4 DEF RemotePress, Taken, ServerOnly, clientVars
<1>5. ASSUME NEW c \in Client, PollPresses(c) PROVE FramesMatch'
  BY <1>2, <1>5 DEF PollPresses, Taken, ServerOnly, clientVars
<1>6. ASSUME NEW c \in Client, PullEditMesh(c) PROVE FramesMatch'
  BY <1>2, <1>6 DEF PullEditMesh, Taken, ServerOnly, clientVars
<1>7. ASSUME NEW c \in Client, QueryChanged(c) PROVE FramesMatch'
  BY <1>2, <1>7 DEF QueryChanged, Taken, ServerOnly, clientVars
<1>8. ASSUME NEW c \in Client, FirstLock(c) PROVE FramesMatch'
  <2>1. /\ requests[c] # <<>> /\ requests' = [requests EXCEPT ![c] = Tail(@)]
        /\ handling[c] = Nothing /\ UNCHANGED <<replies, awaiting, timeouts>>
    BY <1>8 DEF FirstLock, Taken, ServerOnly, clientVars
  <2>2. handling'[c] # Nothing /\ \A d \in Client : d # c => handling'[d] = handling[d]
    <3>1. PICK h : h.op # "none" /\ handling' = [handling EXCEPT ![c] = h]
      BY <1>8 DEF FirstLock
    <3> QED BY <1>1, <3>1 DEF Nothing
  <2>3. requests[c] \in Seq(Request) /\ Len(replies[c]) \in Nat
    BY <1>1
  <2>4. Len(requests'[c]) = Len(requests[c]) - 1 /\ Len(requests[c]) \in Nat
    <3>1. requests'[c] = Tail(requests[c])
      BY <1>1, <2>1
    <3> QED BY <2>1, <2>3, <3>1, TailLength
  <2>5. InFlight(c)' = InFlight(c)
    <3>1. handling[c] = Nothing /\ handling'[c] # Nothing /\ replies'[c] = replies[c]
      BY <2>1, <2>2
    <3> QED BY <2>3, <2>4, <3>1 DEF InFlight
  <2>6. ASSUME NEW d \in Client, d # c PROVE InFlight(d)' = InFlight(d)
    BY <1>1, <2>1, <2>2, <2>6 DEF InFlight
  <2> QED BY <2>1, <2>5, <2>6, SameFramesMatch DEF SameFrames
<1>9. ASSUME NEW c \in Client, SecondLock(c) PROVE FramesMatch'
  <2>1. handling[c] # Nothing
    BY <1>9 DEF SecondLock, Nothing
  <2>2. PICK r : Answer(c, r)
    BY <1>9 DEF SecondLock
  <2> QED BY <1>2, <1>9, <2>1, <2>2 DEF SecondLock, ServerOnly, clientVars
<1>10. ASSUME NEW c \in Client, Throws(c) PROVE FramesMatch'
  <2>1. ThrowsDoes(c)
    BY <1>10, ThrowsEffect
  <2>2. PICK r : Answer(c, r)
    BY <2>1 DEF ThrowsDoes
  <2> QED BY <1>2, <2>1, <2>2 DEF ThrowsDoes
<1>11. ASSUME NEW c \in Client, NEW q \in Request, Send(c, q) PROVE FramesMatch'
  <2>1. /\ awaiting[c] = Nothing /\ awaiting' = [awaiting EXCEPT ![c] = q]
        /\ requests' = [requests EXCEPT ![c] = Append(@, q)]
        /\ UNCHANGED <<replies, handling, timeouts>>
    BY <1>11 DEF Send
  <2>2. q # Nothing
    BY DEF Request, Nothing
  <2>3. Len(requests'[c]) = Len(requests[c]) + 1 /\ Len(requests[c]) \in Nat /\ Len(replies[c]) \in Nat
    <3>1. requests'[c] = Append(requests[c], q) /\ requests[c] \in Seq(Request) /\ replies[c] \in Seq(Reply)
      BY <1>1, <2>1
    <3> QED BY <3>1, AppendLength
  <2>4. InFlight(c)' = InFlight(c) + 1 /\ InFlight(c) \in Nat
    <3>1. handling'[c] = handling[c] /\ replies'[c] = replies[c]
      BY <2>1
    <3>2. \A m, n \in Nat : m + n + 1 = (m + 1) + n /\ m + n + 1 + 1 = (m + 1) + n + 1
      OBVIOUS
    <3>3. CASE handling[c] = Nothing
      <4>1. InFlight(c) = Len(requests[c]) + Len(replies[c])
        BY <3>3 DEF InFlight
      <4>2. InFlight(c)' = Len(requests'[c]) + Len(replies'[c])
        BY <3>1, <3>3 DEF InFlight
      <4> QED BY <2>3, <3>1, <3>2, <4>1, <4>2, FramesAre, ZenonT(60)
    <3>4. CASE handling[c] # Nothing
      <4>1. InFlight(c) = Len(requests[c]) + Len(replies[c]) + 1
        BY <3>4 DEF InFlight
      <4>2. InFlight(c)' = Len(requests'[c]) + Len(replies'[c]) + 1
        BY <3>1, <3>4 DEF InFlight
      <4> QED BY <2>3, <3>1, <3>2, <4>1, <4>2, FramesAre, ZenonT(60)
    <3> QED BY <3>3, <3>4
  <2>5. Expected(c) = 0 /\ Expected(c)' = 1
    BY <1>1, <2>1, <2>2 DEF Expected
  <2>6. ASSUME NEW d \in Client, d # c PROVE InFlight(d)' = InFlight(d) /\ Expected(d)' = Expected(d)
    BY <1>1, <2>1, <2>6 DEF InFlight, Expected
  <2> QED BY <2>1, <2>4, <2>5, <2>6 DEF FramesMatch
<1>12. ASSUME NEW c \in Client, Receive(c) PROVE FramesMatch'
  <2>1. /\ awaiting[c] # Nothing /\ awaiting' = [awaiting EXCEPT ![c] = Nothing]
        /\ replies[c] # <<>> /\ replies' = [replies EXCEPT ![c] = Tail(@)]
        /\ UNCHANGED <<requests, handling, timeouts>>
    BY <1>12 DEF Receive
  <2>2. Len(replies'[c]) = Len(replies[c]) - 1 /\ Len(requests[c]) \in Nat /\ Len(replies[c]) \in Nat
    <3>1. replies'[c] = Tail(replies[c]) /\ requests[c] \in Seq(Request) /\ replies[c] \in Seq(Reply)
      BY <1>1, <2>1
    <3>2. Len(requests[c]) \in Nat
      BY <3>1
    <3> QED BY <2>1, <3>1, <3>2, TailLength
  <2>3. InFlight(c)' = InFlight(c) - 1 /\ InFlight(c) \in Nat
    <3>1. handling'[c] = handling[c] /\ requests'[c] = requests[c]
      BY <2>1
    <3>2. \A m, n \in Nat : (m + n) - 1 = m + (n - 1) /\ (m + n + 1) - 1 = m + (n - 1) + 1
      OBVIOUS
    <3>3. CASE handling[c] = Nothing
      <4>1. InFlight(c) = Len(requests[c]) + Len(replies[c])
        BY <3>3 DEF InFlight
      <4>2. InFlight(c)' = Len(requests'[c]) + Len(replies'[c])
        BY <3>1, <3>3 DEF InFlight
      <4> QED BY <2>2, <3>1, <3>2, <4>1, <4>2, FramesAre
    <3>4. CASE handling[c] # Nothing
      <4>1. InFlight(c) = Len(requests[c]) + Len(replies[c]) + 1
        BY <3>4 DEF InFlight
      <4>2. InFlight(c)' = Len(requests'[c]) + Len(replies'[c]) + 1
        BY <3>1, <3>4 DEF InFlight
      <4> QED BY <2>2, <3>1, <3>2, <4>1, <4>2, FramesAre
    <3> QED BY <3>3, <3>4
  <2>4. Expected(c) = 1 /\ Expected(c)' = 0
    BY <1>1, <2>1 DEF Expected
  <2>5. ASSUME NEW d \in Client, d # c PROVE InFlight(d)' = InFlight(d) /\ Expected(d)' = Expected(d)
    BY <1>1, <2>1, <2>5 DEF InFlight, Expected
  <2> QED BY <2>1, <2>3, <2>4, <2>5 DEF FramesMatch
<1>13. ASSUME NEW c \in Client, TimesOut(c) PROVE FramesMatch'
  <2>1. /\ awaiting' = [awaiting EXCEPT ![c] = Nothing] /\ timeouts' = timeouts + 1
        /\ UNCHANGED <<requests, replies, handling>>
    BY <1>13 DEF TimesOut, wireVars
  <2>3. ASSUME NEW d \in Client PROVE InFlight(d)' = InFlight(d) /\ Expected(d)' <= Expected(d)
    BY <1>1, <2>1 DEF InFlight, Expected
  <2>4. ASSUME NEW d \in Client PROVE InFlight(d) \in Nat /\ Expected(d)' \in {0, 1} /\ Expected(d) \in {0, 1}
    BY FramesAre DEF Expected
  <2> QED BY <2>1, <2>3, <2>4, FramesAre DEF FramesMatch
<1>14. ASSUME NEW a \in Action, UserPress(a) PROVE FramesMatch'
  BY <1>14 DEF UserPress, wireVars, clientVars, FramesMatch, InFlight, Expected
<1>15. CASE UNCHANGED vars
  BY <1>15 DEF vars, wireVars, clientVars, FramesMatch, InFlight, Expected
<1> QED
  BY <1>3, <1>4, <1>5, <1>6, <1>7, <1>8, <1>9, <1>10, <1>11, <1>12, <1>13, <1>14, <1>15
  DEF Next, Serve, Throws, ClientNext

\* Whatever is thrown while a request is served, and whoever gives up: a client
\* that waits has a frame under way, one only while nobody gave up.
THEOREM OneFrameEach == ASSUME SessionAssumption PROVE Spec => []FramesMatch
<1>1. Init => FramesMatch /\ timeouts \in Nat
  BY DEF Init, FramesMatch, InFlight, Expected
<1>2. FrameInv /\ (FramesMatch /\ timeouts \in Nat) /\ [Next]_vars => (FramesMatch /\ timeouts \in Nat)'
  BY NextFramesMatch, TimeoutsGrow
<1> QED BY Frames, <1>1, <1>2, PTL DEF Spec

-----------------------------------------------------------------------------
(* Presses *)

Increasing(s) == \A i, j \in DOMAIN s : i < j => s[i] < s[j]
Before(s, t) == \A i \in DOMAIN s, j \in DOMAIN t : s[i] < t[j]
Apart(s, t) == \A i \in DOMAIN s, j \in DOMAIN t : s[i] # t[j]

\* What a client got, and then what its replies bring, in order.
Batches(c) == 0 .. Len(replies[c])
Batch(c, i) ==
    IF i = 0 THEN received[c]
    ELSE IF replies[c][i].op = "poll_presses" THEN replies[c][i].ids ELSE <<>>

\* Each client's presses are in order, before those still queued, and its own.
OrderInv ==
    /\ Increasing(presses) /\ \A k \in DOMAIN presses : presses[k] <= Len(pressed)
    /\ \A c \in Client : \A i \in Batches(c) :
          /\ Increasing(Batch(c, i)) /\ Before(Batch(c, i), presses)
          /\ \A k \in DOMAIN Batch(c, i) : Batch(c, i)[k] <= Len(pressed)
    /\ \A c \in Client : \A i, j \in Batches(c) : i < j => Before(Batch(c, i), Batch(c, j))
    /\ \A c, d \in Client : c # d =>
          \A i \in Batches(c), j \in Batches(d) : Apart(Batch(c, i), Batch(d, j))

PressInv == FrameInv /\ received \in [Client -> Seq(Nat)] /\ OrderInv

LEMMA PollRepliesAre ==
    ASSUME NEW r \in Reply, r.op = "poll_presses" PROVE r.ids \in Seq(Nat)
BY DEF Reply, PushReply

LEMMA BatchType ==
    ASSUME PressInv, NEW c \in Client
    PROVE  /\ Len(replies[c]) \in Nat
           /\ \A i \in Batches(c) : Batch(c, i) \in Seq(Nat)
<1>1. replies[c] \in Seq(Reply) /\ received[c] \in Seq(Nat)
  BY DEF PressInv, FrameInv
<1>2. ASSUME NEW i \in Batches(c) PROVE Batch(c, i) \in Seq(Nat)
  <2>1. CASE i = 0
    BY <1>1, <2>1 DEF Batch
  <2>2. CASE i # 0
    <3>1. replies[c][i] \in Reply
      BY <1>1, <1>2, <2>2 DEF Batches
    <3>2. CASE replies[c][i].op = "poll_presses"
      BY <2>2, <3>1, <3>2, PollRepliesAre DEF Batch
    <3>3. CASE replies[c][i].op # "poll_presses"
      BY <2>2, <3>3 DEF Batch
    <3> QED BY <3>2, <3>3
  <2> QED BY <2>1, <2>2
<1> QED BY <1>1, <1>2

\* What a command that drains nothing may do: its reply brings no presses, and a
\* tap is queued or the queue dropped.
Quiet ==
    /\ \A c \in Client : \/ replies'[c] = replies[c]
                         \/ \E r \in Reply : r.op # "poll_presses" /\ replies'[c] = Append(replies[c], r)
    /\ UNCHANGED received
    /\ Presses

LEMMA QuietBatches ==
    ASSUME PressInv, NEW c \in Client, UNCHANGED received,
           \/ replies'[c] = replies[c]
           \/ \E r \in Reply : r.op # "poll_presses" /\ replies'[c] = Append(replies[c], r)
    PROVE  \A i \in Batches(c)' : Batch(c, i)' = <<>> \/ (i \in Batches(c) /\ Batch(c, i)' = Batch(c, i))
<1>1. CASE replies'[c] = replies[c]
  BY <1>1 DEF Batches, Batch
<1>2. CASE \E r \in Reply : r.op # "poll_presses" /\ replies'[c] = Append(replies[c], r)
  <2>1. PICK r \in Reply : r.op # "poll_presses" /\ replies'[c] = Append(replies[c], r)
    BY <1>2
  <2>2. replies[c] \in Seq(Reply)
    BY DEF PressInv, FrameInv
  <2> SUFFICES ASSUME NEW i \in Batches(c)'
               PROVE  Batch(c, i)' = <<>> \/ (i \in Batches(c) /\ Batch(c, i)' = Batch(c, i))
    OBVIOUS
  <2>3. i \in 0 .. Len(replies[c]) + 1 /\ Len(replies[c]) \in Nat
    BY <2>1, <2>2 DEF Batches
  <2>4. CASE i = Len(replies[c]) + 1
    BY <2>1, <2>2, <2>3, <2>4 DEF Batch
  <2>5. CASE i = 0
    BY <2>3, <2>5 DEF Batch, Batches
  <2>6. CASE i \in 1 .. Len(replies[c])
    BY <2>1, <2>2, <2>6 DEF Batch, Batches
  <2> QED BY <2>3, <2>4, <2>5, <2>6
<1> QED BY <1>1, <1>2

LEMMA QuietKeeps == ASSUME PressInv, Quiet PROVE OrderInv'
<1>1. \A c \in Client : \A i \in Batches(c)' :
          Batch(c, i)' = <<>> \/ (i \in Batches(c) /\ Batch(c, i)' = Batch(c, i))
  BY QuietBatches DEF Quiet
<1>2. /\ Len(pressed) \in Nat /\ Len(pressed') \in Nat /\ Len(pressed) <= Len(pressed')
      /\ presses \in Seq(Nat)
  BY DEF PressInv, FrameInv, Quiet, Presses
<1>3. \A k \in DOMAIN presses' : \/ k \in DOMAIN presses /\ presses'[k] = presses[k]
                                 \/ k = Len(presses) + 1 /\ presses'[k] = Len(pressed) + 1
                                    /\ Len(pressed') = Len(pressed) + 1
  <2>1. CASE UNCHANGED <<presses, pressed>> \/ presses' = <<>>
    BY <2>1
  <2>2. CASE \E a \in Action : presses' = Append(presses, Len(pressed) + 1) /\ pressed' = Append(pressed, a)
    BY <2>2, <1>2 DEF PressInv, FrameInv
  <2> QED BY <2>1, <2>2 DEF Quiet, Presses
<1>4. \A c \in Client : \A i \in Batches(c) : Batch(c, i) \in Seq(Nat)
  BY BatchType
<1>5. Increasing(presses') /\ \A k \in DOMAIN presses' : presses'[k] <= Len(pressed')
  BY <1>2, <1>3 DEF PressInv, OrderInv, Increasing
<1>6. ASSUME NEW c \in Client, NEW i \in Batches(c)'
      PROVE  /\ Increasing(Batch(c, i)') /\ Before(Batch(c, i)', presses')
             /\ \A k \in DOMAIN Batch(c, i)' : Batch(c, i)'[k] <= Len(pressed')
  <2>1. CASE Batch(c, i)' = <<>>
    BY <2>1 DEF Increasing, Before
  <2>2. CASE i \in Batches(c) /\ Batch(c, i)' = Batch(c, i)
    <3>1. /\ Increasing(Batch(c, i)) /\ Before(Batch(c, i), presses)
          /\ \A k \in DOMAIN Batch(c, i) : Batch(c, i)[k] <= Len(pressed)
      BY <2>2 DEF PressInv, OrderInv
    <3>2. \A k \in DOMAIN Batch(c, i) : Batch(c, i)[k] \in Nat
      BY <2>2, <1>4
    <3>3. Before(Batch(c, i), presses')
      BY <3>1, <3>2, <1>2, <1>3 DEF Before
    <3> QED BY <2>2, <3>1, <3>2, <3>3, <1>2
  <2> QED BY <1>1, <2>1, <2>2
<1>7. ASSUME NEW c \in Client, NEW i \in Batches(c)', NEW j \in Batches(c)', i < j
      PROVE  Before(Batch(c, i)', Batch(c, j)')
  BY <1>1, <1>7 DEF PressInv, OrderInv, Before
<1>8. ASSUME NEW c \in Client, NEW d \in Client, c # d,
             NEW i \in Batches(c)', NEW j \in Batches(d)'
      PROVE  Apart(Batch(c, i)', Batch(d, j)')
  BY <1>1, <1>8 DEF PressInv, OrderInv, Apart
<1> QED BY <1>5, <1>6, <1>7, <1>8 DEF OrderInv

\* poll_presses: what was queued is the last batch of one client.
LEMMA PollKeeps == ASSUME PressInv, NEW c \in Client, PollPresses(c) PROVE OrderInv'
<1>0. PICK n \in Int : n = Len(replies[c]) + 1
  BY DEF PressInv, FrameInv
<1>1. /\ replies' = [replies EXCEPT ![c] = Append(@, [op |-> "poll_presses", ids |-> presses])]
      /\ presses' = <<>> /\ UNCHANGED <<received, pressed>>
  BY DEF PollPresses, TakePresses, Answer, ServerOnly, clientVars, viewVars
<1>2. replies \in [Client -> Seq(Reply)] /\ presses \in Seq(Nat)
  BY DEF PressInv, FrameInv
<1>3. \A d \in Client : d # c => Batches(d)' = Batches(d) /\ \A i \in Batches(d) : Batch(d, i)' = Batch(d, i)
  BY <1>1, <1>2 DEF Batches, Batch
<1>4. Len(replies[c]) \in Nat /\ Batches(c)' = 0 .. n
  BY <1>0, <1>1, <1>2 DEF Batches
<1>5. Batch(c, n)' = presses
  <2>1. replies'[c][n] = [op |-> "poll_presses", ids |-> presses]
    <3>1. replies'[c] = Append(replies[c], [op |-> "poll_presses", ids |-> presses])
      BY <1>1, <1>2
    <3>2. replies[c] \in Seq(Reply)
      BY <1>2
    <3> QED BY <1>0, <3>1, <3>2
  <2>2. n # 0
    BY <1>0, <1>4
  <2> QED BY <2>1, <2>2 DEF Batch
<1>6. \A i \in Batches(c) : i < n /\ Batch(c, i)' = Batch(c, i)
  <2> SUFFICES ASSUME NEW i \in Batches(c) PROVE i < n /\ Batch(c, i)' = Batch(c, i)
    OBVIOUS
  <2>1. CASE i = 0
    BY <1>0, <1>1, <1>4, <2>1 DEF Batch
  <2>2. CASE i \in 1 .. Len(replies[c])
    BY <1>0, <1>1, <1>2, <1>4, <2>2 DEF Batch
  <2> QED BY <1>4, <2>1, <2>2 DEF Batches
<1>7. \A i \in Batches(c)' : i = n \/ i \in Batches(c)
  BY <1>0, <1>4 DEF Batches
<1>8. \A d \in Client : \A i \in Batches(d)' :
          \/ d = c /\ i = n /\ Batch(d, i)' = presses
          \/ i \in Batches(d) /\ Batch(d, i)' = Batch(d, i) /\ (d = c => i < n)
  <2> SUFFICES ASSUME NEW d \in Client, NEW i \in Batches(d)'
               PROVE  \/ d = c /\ i = n /\ Batch(d, i)' = presses
                      \/ i \in Batches(d) /\ Batch(d, i)' = Batch(d, i) /\ (d = c => i < n)
    OBVIOUS
  <2>1. CASE d = c /\ i = n
    BY <1>5, <2>1
  <2>2. CASE d = c /\ i # n
    <3>1. i \in Batches(c)
      BY <1>7, <2>2
    <3> QED BY <1>6, <2>2, <3>1
  <2>3. CASE d # c
    BY <1>3, <2>3
  <2> QED BY <2>1, <2>2, <2>3
<1>9. Increasing(presses') /\ \A k \in DOMAIN presses' : presses'[k] <= Len(pressed')
  BY <1>1 DEF Increasing
<1>10. ASSUME NEW d \in Client, NEW i \in Batches(d)'
       PROVE  /\ Increasing(Batch(d, i)') /\ Before(Batch(d, i)', presses')
              /\ \A k \in DOMAIN Batch(d, i)' : Batch(d, i)'[k] <= Len(pressed')
  <2>1. Before(Batch(d, i)', presses')
    BY <1>1 DEF Before
  <2> QED BY <1>1, <1>8, <2>1 DEF PressInv, OrderInv
<1>11. ASSUME NEW d \in Client, NEW i \in Batches(d)', NEW j \in Batches(d)', i < j
       PROVE  Before(Batch(d, i)', Batch(d, j)')
  <2>1. i \in Int /\ j \in Int /\ n \in Int
    BY <1>0, <1>4, <1>11 DEF Batches, PressInv, FrameInv
  <2> QED BY <1>8, <1>11, <2>1 DEF PressInv, OrderInv
<1>12. ASSUME NEW d \in Client, NEW e \in Client, d # e,
              NEW i \in Batches(d)', NEW j \in Batches(e)'
       PROVE  Apart(Batch(d, i)', Batch(e, j)')
  <2>1. \A f \in Client : \A k \in Batches(f) : Apart(Batch(f, k), presses) /\ Apart(presses, Batch(f, k))
    <3> SUFFICES ASSUME NEW f \in Client, NEW k \in Batches(f)
                 PROVE  Apart(Batch(f, k), presses) /\ Apart(presses, Batch(f, k))
      OBVIOUS
    <3>1. Batch(f, k) \in Seq(Nat)
      BY BatchType
    <3>2. Before(Batch(f, k), presses)
      BY DEF PressInv, OrderInv
    <3> QED BY <1>2, <3>1, <3>2 DEF Before, Apart
  <2> QED BY <1>8, <1>12, <2>1 DEF PressInv, OrderInv
<1> QED BY <1>9, <1>10, <1>11, <1>12 DEF OrderInv

LEMMA ConcatParts ==
    ASSUME NEW s \in Seq(Nat), NEW t \in Seq(Nat), NEW k \in DOMAIN (s \o t)
    PROVE  \/ k \in DOMAIN s /\ (s \o t)[k] = s[k]
           \/ k - Len(s) \in DOMAIN t /\ (s \o t)[k] = t[k - Len(s)]
OBVIOUS

LEMMA ConcatIncreases ==
    ASSUME NEW s \in Seq(Nat), NEW t \in Seq(Nat), Increasing(s), Increasing(t), Before(s, t)
    PROVE  Increasing(s \o t)
<1> SUFFICES ASSUME NEW i \in DOMAIN (s \o t), NEW j \in DOMAIN (s \o t), i < j
             PROVE  (s \o t)[i] < (s \o t)[j]
  BY DEF Increasing
<1>1. i \in Nat /\ j \in Nat /\ Len(s) \in Nat
  OBVIOUS
<1>2. CASE j \in DOMAIN s
  BY <1>1, <1>2 DEF Increasing
<1>3. CASE i \in DOMAIN s /\ j \notin DOMAIN s
  BY <1>1, <1>3, ConcatParts DEF Before
<1>4. CASE i \notin DOMAIN s
  BY <1>1, <1>4 DEF Increasing
<1> QED BY <1>2, <1>3, <1>4

\* A reply is taken off its connection: its presses join those the client got, or
\* are lost with it.
LEMMA ReceiveKeeps == ASSUME PressInv, NEW c \in Client, Receive(c)
                      PROVE  OrderInv' /\ received' \in [Client -> Seq(Nat)]
<1>1. /\ replies[c] # <<>> /\ replies' = [replies EXCEPT ![c] = Tail(@)]
      /\ UNCHANGED <<presses, pressed>>
  BY DEF Receive, sessionVars
<1>2. replies \in [Client -> Seq(Reply)] /\ received \in [Client -> Seq(Nat)] /\ presses \in Seq(Nat)
  BY DEF PressInv, FrameInv
<1>3. /\ Len(replies[c]) \in Nat \ {0} /\ Len(replies'[c]) = Len(replies[c]) - 1
      /\ \A i \in 1 .. Len(replies'[c]) : replies'[c][i] = replies[c][i + 1]
  BY <1>1, <1>2
<1>4. \/ received' = received
      \/ /\ Head(replies[c]).op = "poll_presses"
         /\ received' = [received EXCEPT ![c] = @ \o Head(replies[c]).ids]
  BY DEF Receive, Learn
<1>5. Head(replies[c]) = replies[c][1] /\ 0 \in Batches(c) /\ 1 \in Batches(c)
  BY <1>1, <1>2, <1>3 DEF Batches
<1>6. /\ Batch(c, 0) \in Seq(Nat) /\ Batch(c, 1) \in Seq(Nat)
      /\ Batch(c, 0) = received[c]
  BY <1>5, BatchType DEF Batch
<1>7. \/ received' = received
      \/ received' = [received EXCEPT ![c] = Batch(c, 0) \o Batch(c, 1)]
  <2>1. CASE received' = received
    BY <2>1
  <2>2. CASE /\ Head(replies[c]).op = "poll_presses"
             /\ received' = [received EXCEPT ![c] = @ \o Head(replies[c]).ids]
    <3>1. Batch(c, 1) = Head(replies[c]).ids
      BY <1>5, <2>2 DEF Batch
    <3> QED BY <1>6, <2>2, <3>1
  <2> QED BY <1>4, <2>1, <2>2
<1>8. received' \in [Client -> Seq(Nat)]
  <2>1. Batch(c, 0) \o Batch(c, 1) \in Seq(Nat)
    BY <1>6
  <2> QED BY <1>2, <1>7, <2>1
<1>9. \A d \in Client : d # c => Batches(d)' = Batches(d) /\ \A i \in Batches(d) : Batch(d, i)' = Batch(d, i)
  BY <1>1, <1>2, <1>7 DEF Batches, Batch
<1>10. \A i \in Batches(c)' : i # 0 => i + 1 \in Batches(c) /\ Batch(c, i)' = Batch(c, i + 1)
  BY <1>3 DEF Batches, Batch
<1>11. Batch(c, 0)' = Batch(c, 0) \/ Batch(c, 0)' = Batch(c, 0) \o Batch(c, 1)
  BY <1>2, <1>6, <1>7 DEF Batch
<1>12. \A k \in DOMAIN Batch(c, 0)' :
          \/ k \in DOMAIN Batch(c, 0) /\ Batch(c, 0)'[k] = Batch(c, 0)[k]
          \/ /\ k - Len(Batch(c, 0)) \in DOMAIN Batch(c, 1)
             /\ Batch(c, 0)'[k] = Batch(c, 1)[k - Len(Batch(c, 0))]
  <2>1. CASE Batch(c, 0)' = Batch(c, 0)
    BY <2>1
  <2>2. CASE Batch(c, 0)' = Batch(c, 0) \o Batch(c, 1)
    <3> SUFFICES ASSUME NEW k \in DOMAIN (Batch(c, 0) \o Batch(c, 1))
                 PROVE  LET s == Batch(c, 0) \o Batch(c, 1)
                        IN  \/ k \in DOMAIN Batch(c, 0) /\ s[k] = Batch(c, 0)[k]
                            \/ /\ k - Len(Batch(c, 0)) \in DOMAIN Batch(c, 1)
                               /\ s[k] = Batch(c, 1)[k - Len(Batch(c, 0))]
      BY <2>2
    <3> HIDE DEF Batch
    <3> QED BY <1>6, ConcatParts
  <2> QED BY <1>11, <2>1, <2>2
\* What a batch of c consists of is in batches of c before, in that order.
<1>13. Before(Batch(c, 0), Batch(c, 1)) /\ Increasing(Batch(c, 0)) /\ Increasing(Batch(c, 1))
  BY <1>5 DEF PressInv, OrderInv
<1>14. Increasing(Batch(c, 0)')
  <2>1. CASE Batch(c, 0)' = Batch(c, 0)
    BY <1>13, <2>1
  <2>2. CASE Batch(c, 0)' = Batch(c, 0) \o Batch(c, 1)
    BY <1>6, <1>13, <2>2, ConcatIncreases
  <2> QED BY <1>11, <2>1, <2>2
<1>15. Increasing(presses') /\ \A k \in DOMAIN presses' : presses'[k] <= Len(pressed')
  BY <1>1 DEF PressInv, OrderInv
<1>16. ASSUME NEW d \in Client, NEW i \in Batches(d)'
       PROVE  /\ Increasing(Batch(d, i)') /\ Before(Batch(d, i)', presses')
              /\ \A k \in DOMAIN Batch(d, i)' : Batch(d, i)'[k] <= Len(pressed')
  <2>1. CASE d = c /\ i = 0
    <3>1. /\ Before(Batch(c, 0), presses) /\ Before(Batch(c, 1), presses)
          /\ \A k \in DOMAIN Batch(c, 0) : Batch(c, 0)[k] <= Len(pressed)
          /\ \A k \in DOMAIN Batch(c, 1) : Batch(c, 1)[k] <= Len(pressed)
      BY <1>5 DEF PressInv, OrderInv
    <3>2. Before(Batch(c, 0)', presses)
      BY <1>12, <3>1 DEF Before
    <3>3. \A k \in DOMAIN Batch(c, 0)' : Batch(c, 0)'[k] <= Len(pressed)
      BY <1>12, <3>1
    <3> QED BY <1>1, <1>14, <2>1, <3>2, <3>3
  <2>2. CASE d = c /\ i # 0
    BY <1>1, <1>10, <2>2 DEF PressInv, OrderInv
  <2>3. CASE d # c
    BY <1>1, <1>9, <2>3 DEF PressInv, OrderInv
  <2> QED BY <2>1, <2>2, <2>3
<1>17. ASSUME NEW d \in Client, NEW i \in Batches(d)', NEW j \in Batches(d)', i < j
       PROVE  Before(Batch(d, i)', Batch(d, j)')
  <2>1. CASE d = c /\ i = 0
    <3>1. j # 0 /\ j + 1 \in Batches(c) /\ Batch(c, j)' = Batch(c, j + 1) /\ 0 < j + 1 /\ 1 < j + 1
      BY <1>10, <1>17, <2>1 DEF Batches
    <3>2. Before(Batch(c, 0), Batch(c, j + 1)) /\ Before(Batch(c, 1), Batch(c, j + 1))
      BY <1>5, <3>1 DEF PressInv, OrderInv
    <3>3. Before(Batch(c, 0)', Batch(c, j + 1))
      BY <1>12, <3>2 DEF Before
    <3> QED BY <2>1, <3>1, <3>3
  <2>2. CASE d = c /\ i # 0
    <3>1. i \in Nat /\ j \in Nat
      BY <1>3, <1>17, <2>2 DEF Batches
    <3>2. i + 1 \in Batches(c) /\ j + 1 \in Batches(c) /\ i + 1 < j + 1
          /\ Batch(c, i)' = Batch(c, i + 1) /\ Batch(c, j)' = Batch(c, j + 1)
      BY <1>10, <1>17, <2>2, <3>1
    <3> QED BY <2>2, <3>2 DEF PressInv, OrderInv
  <2>3. CASE d # c
    BY <1>9, <1>17, <2>3 DEF PressInv, OrderInv
  <2> QED BY <2>1, <2>2, <2>3
<1>18. ASSUME NEW d \in Client, d # c, NEW i \in Batches(c)', NEW j \in Batches(d)'
       PROVE  Apart(Batch(c, i)', Batch(d, j)') /\ Apart(Batch(d, j)', Batch(c, i)')
  <2>1. j \in Batches(d) /\ Batch(d, j)' = Batch(d, j)
    BY <1>9, <1>18
  <2>2. \A k \in Batches(c) : Apart(Batch(c, k), Batch(d, j)) /\ Apart(Batch(d, j), Batch(c, k))
    BY <1>18, <2>1 DEF PressInv, OrderInv
  <2>3. CASE i = 0
    BY <1>5, <1>12, <2>1, <2>2, <2>3 DEF Apart
  <2>4. CASE i # 0
    BY <1>10, <2>1, <2>2, <2>4
  <2> QED BY <2>3, <2>4
<1>19. ASSUME NEW d \in Client, NEW e \in Client, d # e,
              NEW i \in Batches(d)', NEW j \in Batches(e)'
       PROVE  Apart(Batch(d, i)', Batch(e, j)')
  <2>1. CASE d = c \/ e = c
    BY <1>18, <1>19, <2>1
  <2>2. CASE d # c /\ e # c
    BY <1>9, <1>19, <2>2 DEF PressInv, OrderInv
  <2> QED BY <2>1, <2>2
<1> QED BY <1>8, <1>15, <1>16, <1>17, <1>19 DEF OrderInv

LEMMA InitPresses == ASSUME SessionAssumption, Init PROVE PressInv
<1>1. FrameInv
  BY InitFrames
<1>2. \A c \in Client : Batches(c) = {0} /\ Batch(c, 0) = <<>>
  BY DEF Init, Batches, Batch
<1>3. OrderInv
  BY <1>2 DEF Init, OrderInv, Increasing, Before, Apart
<1> QED BY <1>1, <1>3 DEF Init, PressInv

LEMMA NextPresses == ASSUME PressInv, [Next]_vars PROVE PressInv'
<1>1. FrameInv'
  BY NextFrames DEF PressInv
<1>2. FrameInv /\ replies \in [Client -> Seq(Reply)] /\ received \in [Client -> Seq(Nat)]
  BY DEF PressInv, FrameInv
<1>3. ASSUME Quiet PROVE PressInv'
  BY <1>1, <1>2, <1>3, QuietKeeps DEF Quiet, PressInv
<1>4. ASSUME NEW c \in Client, NEW r \in Reply, r.op # "poll_presses", Answer(c, r)
      PROVE  \A d \in Client : \/ replies'[d] = replies[d]
                               \/ \E q \in Reply : q.op # "poll_presses" /\ replies'[d] = Append(replies[d], q)
  BY <1>2, <1>4 DEF Answer
<1>5. ASSUME NEW c \in Client, Command(c) PROVE PressInv'
  <2>1. OneLockDoes(c)
    BY <1>2, <1>5, OneLockEffect DEF Command
  <2>2. Quiet
    BY <1>4, <1>5, <2>1 DEF Quiet, Presses, Command, OneLockDoes, ServerOnly, clientVars, viewVars
  <2> QED BY <1>3, <2>2
<1>6. ASSUME NEW c \in Client, RemotePress(c) PROVE PressInv'
  <2>1. requests[c] # <<>> /\ Req(c).op = "press_action" /\ Req(c) \in Request
    BY <1>2, <1>6 DEF RemotePress, Taken, Req, FrameInv
  <2>2. Req(c).arg \in Action
    BY <2>1 DEF Request
  <2>3. [op |-> "press_action"] \in Reply
    BY DEF Reply
  <2>4. Quiet
    BY <1>2, <1>4, <1>6, <2>2, <2>3, PressEffect
    DEF Quiet, Presses, RemotePress, ServerOnly, clientVars, viewVars
  <2> QED BY <1>3, <2>4
<1>7. ASSUME NEW c \in Client, PollPresses(c) PROVE PressInv'
  BY <1>1, <1>2, <1>7, PollKeeps DEF PressInv, PollPresses, ServerOnly, clientVars, viewVars
<1>8. ASSUME NEW c \in Client, PullEditMesh(c) PROVE PressInv'
  <2>1. [op |-> "pull_editmesh", mesh |-> editMesh] \in Reply
    BY <1>2 DEF FrameInv, Reply
  <2>2. Quiet
    BY <1>4, <1>8, <2>1 DEF Quiet, Presses, PullEditMesh, sessionVars, ServerOnly, clientVars, viewVars
  <2> QED BY <1>3, <2>2
<1>9. ASSUME NEW c \in Client, QueryChanged(c) PROVE PressInv'
  <2>1. [op |-> "query_changed", changed |-> editRevision # Req(c).arg,
         revision |-> editRevision] \in Reply
    BY <1>2 DEF FrameInv, Reply
  <2>2. Quiet
    BY <1>4, <1>9, <2>1 DEF Quiet, Presses, QueryChanged, sessionVars, ServerOnly, clientVars, viewVars
  <2> QED BY <1>3, <2>2
<1>10. ASSUME NEW c \in Client, FirstLock(c) PROVE PressInv'
  <2>1. UNCHANGED <<presses, pressed, replies, received>>
    BY <1>10 DEF FirstLock, SetEditMesh, SetDensity, sessionVars, ServerOnly, clientVars, viewVars
  <2>2. Quiet
    BY <2>1 DEF Quiet, Presses
  <2> QED BY <1>3, <2>2
<1>11. ASSUME NEW c \in Client, SecondLock(c) PROVE PressInv'
  <2>1. \E r \in Reply : r.op # "poll_presses" /\ Answer(c, r)
    BY <1>2, <1>11, SecondLockAnswers
  <2>2. Quiet
    BY <1>4, <1>11, <2>1 DEF Quiet, Presses, SecondLock, sessionVars, ServerOnly, clientVars, viewVars
  <2> QED BY <1>3, <2>2
<1>throws. ASSUME NEW c \in Client, Throws(c) PROVE PressInv'
  <2>1. ThrowsDoes(c)
    BY <1>2, <1>throws, ThrowsEffect
  <2>2. PICK r \in Reply : r.op = "error" /\ Answer(c, r)
    BY <2>1 DEF ThrowsDoes
  <2>3. Quiet
    BY <1>4, <2>1, <2>2 DEF Quiet, ThrowsDoes
  <2> QED BY <1>3, <2>3
<1>12. ASSUME NEW c \in Client, NEW r \in Request, Send(c, r) PROVE PressInv'
  BY <1>3, <1>12 DEF Quiet, Presses, Send, sessionVars, viewVars
<1>13. ASSUME NEW c \in Client, Receive(c) PROVE PressInv'
  BY <1>1, <1>13, ReceiveKeeps DEF PressInv
<1>14. ASSUME NEW c \in Client, TimesOut(c) PROVE PressInv'
  BY <1>3, <1>14 DEF Quiet, Presses, TimesOut, sessionVars, wireVars, viewVars
<1>15. ASSUME NEW a \in Action, UserPress(a) PROVE PressInv'
  <2>1. Quiet
    BY <1>2, <1>15, PressEffect DEF Quiet, Presses, UserPress, wireVars, clientVars, viewVars
  <2> QED BY <1>3, <2>1
<1>16. CASE UNCHANGED vars
  BY <1>3, <1>16 DEF Quiet, Presses, vars, sessionVars, wireVars, clientVars, viewVars
<1> QED
  BY <1>5, <1>6, <1>7, <1>8, <1>9, <1>10, <1>11, <1>throws, <1>12, <1>13, <1>14, <1>15, <1>16
  DEF Next, Serve, Throws, ClientNext

\* No tap of a remote button is delivered twice, to one client or to two, and each
\* client gets its taps in the order they were made, whoever times out.
THEOREM PressesOnce == ASSUME SessionAssumption PROVE Spec => []PressDeliveredOnce
<1>1. ASSUME PressInv PROVE PressDeliveredOnce
  <2>1. \A c \in Client : 0 \in Batches(c) /\ Batch(c, 0) = received[c]
    BY BatchType, <1>1 DEF Batches, Batch
  <2>2. ASSUME NEW c \in Client, NEW n \in InReplies(c)
        PROVE  \E i \in Batches(c) : 0 < i /\ \E k \in DOMAIN Batch(c, i) : n = Batch(c, i)[k]
    <3>1. PICK i \in DOMAIN replies[c] : replies[c][i].op = "poll_presses"
              /\ \E k \in DOMAIN replies[c][i].ids : replies[c][i].ids[k] = n
      BY <2>2 DEF InReplies
    <3>2. i \in Batches(c) /\ 0 < i
      BY <1>1 DEF PressInv, FrameInv, Batches
    <3> QED BY <3>1, <3>2 DEF Batch
  <2>3. \A c \in Client : \A n \in InReplies(c) \cup Got(c) :
            \E i \in Batches(c) : \E k \in DOMAIN Batch(c, i) : n = Batch(c, i)[k]
    BY <2>1, <2>2 DEF Got
  <2>4. \A c \in Client : \A i \in Batches(c) : Batch(c, i) \in Seq(Nat)
    BY <1>1, BatchType
  <2>5. ASSUME NEW c \in Client, NEW n \in InReplies(c) \cup Got(c) PROVE n \notin Queued
    <3>1. PICK i \in Batches(c) : \E k \in DOMAIN Batch(c, i) : n = Batch(c, i)[k]
      BY <2>3, <2>5
    <3>2. Before(Batch(c, i), presses) /\ n \in Nat
      BY <1>1, <2>4, <3>1 DEF PressInv, OrderInv
    <3> QED BY <3>1, <3>2 DEF Before, Queued
  <2>6. ASSUME NEW c \in Client, NEW n \in InReplies(c) PROVE n \notin Got(c)
    <3>1. PICK i \in Batches(c) : 0 < i /\ \E k \in DOMAIN Batch(c, i) : n = Batch(c, i)[k]
      BY <2>2, <2>6
    <3>2. Before(received[c], Batch(c, i))
      BY <1>1, <2>1, <3>1 DEF PressInv, OrderInv
    <3>3. n \in Nat
      BY <2>4, <3>1
    <3> QED BY <3>1, <3>2, <3>3 DEF Before, Got
  <2>7. ASSUME NEW c \in Client, NEW d \in Client, c # d, NEW n \in InReplies(c) \cup Got(c)
        PROVE  n \notin InReplies(d) \cup Got(d)
    BY <1>1, <2>3, <2>7 DEF PressInv, OrderInv, Apart
  <2>8. \A c \in Client : Increasing(received[c])
    BY <1>1, <2>1 DEF PressInv, OrderInv
  <2> QED BY <2>5, <2>6, <2>7, <2>8 DEF PressDeliveredOnce, Increasing
<1> QED BY InitPresses, NextPresses, <1>1, PTL DEF Spec

-----------------------------------------------------------------------------
(* Markers, when every client waits for its replies *)

\* One frame at a time is under way.
OneAtATime(c) ==
    /\ Len(requests[c]) + Len(replies[c]) <= 1
    /\ handling[c] # Nothing => requests[c] = <<>> /\ replies[c] = <<>>
    /\ awaiting[c] = Nothing => requests[c] = <<>> /\ replies[c] = <<>> /\ handling[c] = Nothing

\* What a client holds, and what a reply will make of it.
ViewSound(c) ==
    marker[c] <= editRevision /\ (via[c] = "query" /\ marker[c] = editRevision => copy[c] = editMesh)
ReplySound(c, r) ==
    /\ r.op \in {"push_editmesh", "query_changed"} => r.revision <= editRevision
    /\ r.op = "pull_editmesh" /\ marker[c] = editRevision => r.mesh = editMesh
RepliesSound(c) == \A i \in DOMAIN replies[c] : ReplySound(c, replies[c][i])

MarkerInv ==
    /\ timeouts = 0
    /\ marker \in [Client -> Nat] /\ copy \in [Client -> Maybe(Mesh)]
    /\ via \in [Client -> {"query", "push", "stale"}]
    /\ \A c \in Client : OneAtATime(c) /\ ViewSound(c) /\ RepliesSound(c)

\* Of two sequences with one element between them, which has it.
LEMMA OneBetween ==
    ASSUME NEW S, NEW T, NEW s \in Seq(S), NEW t \in Seq(T), Len(s) + Len(t) <= 1
    PROVE  /\ s # <<>> => Tail(s) = <<>> /\ t = <<>>
           /\ t # <<>> => Tail(t) = <<>> /\ s = <<>>
<1>1. Len(s) \in Nat /\ Len(t) \in Nat /\ (s # <<>> => Len(s) # 0) /\ (t # <<>> => Len(t) # 0)
  OBVIOUS
<1>2. ASSUME NEW a \in Nat, NEW b \in Nat, a + b <= 1
      PROVE  (a # 0 => a = 1 /\ b = 0) /\ (b # 0 => b = 1 /\ a = 0)
  BY <1>2
<1>3. (s # <<>> => Len(s) = 1 /\ Len(t) = 0) /\ (t # <<>> => Len(t) = 1 /\ Len(s) = 0)
  BY <1>1, <1>2
<1>4. Len(s) = 1 => Len(Tail(s)) = 0 /\ Tail(s) \in Seq(S)
  OBVIOUS
<1>5. Len(t) = 1 => Len(Tail(t)) = 0 /\ Tail(t) \in Seq(T)
  OBVIOUS
<1> QED BY <1>3, <1>4, <1>5

LEMMA RevisionReplies ==
    ASSUME NEW r \in Reply, r.op \in {"push_editmesh", "query_changed"} PROVE r.revision \in Nat
BY DEF Reply, PushReply

LEMMA PullReplies ==
    ASSUME NEW r \in Reply, r.op = "pull_editmesh" PROVE r.mesh \in Maybe(Mesh)
BY DEF Reply, PushReply

\* A command of one client leaves the views of all as sound as they were: a new
\* revision makes every marker an old one.
LEMMA ServeKeepsMarkers ==
    ASSUME FrameInv, MarkerInv, NEW c \in Client, SameScene \/ NewScene,
           UNCHANGED <<awaiting, copy, marker, via, timeouts>>,
           \A d \in Client : d # c => /\ requests'[d] = requests[d] /\ replies'[d] = replies[d]
                                      /\ handling'[d] = handling[d],
           OneAtATime(c)', RepliesSound(c)'
    PROVE  MarkerInv'
<1>1. editRevision \in Nat /\ marker \in [Client -> Nat] /\ replies \in [Client -> Seq(Reply)]
  BY DEF FrameInv, MarkerInv
<1>2. /\ timeouts' = 0 /\ marker' \in [Client -> Nat] /\ copy' \in [Client -> Maybe(Mesh)]
      /\ via' \in [Client -> {"query", "push", "stale"}]
  BY DEF MarkerInv
<1>3. ASSUME NEW d \in Client PROVE ViewSound(d)'
  BY <1>1 DEF MarkerInv, ViewSound, SameScene, NewScene
<1>4. ASSUME NEW d \in Client, d # c PROVE OneAtATime(d)' /\ RepliesSound(d)'
  <2>1. OneAtATime(d)'
    BY <1>4 DEF MarkerInv, OneAtATime
  <2>2. ASSUME NEW i \in DOMAIN replies[d] PROVE ReplySound(d, replies[d][i])'
    <3>1. replies[d][i] \in Reply /\ ReplySound(d, replies[d][i]) /\ marker[d] <= editRevision
      BY <1>1, <2>2 DEF MarkerInv, RepliesSound, ViewSound
    <3>2. replies'[d][i] = replies[d][i] /\ marker'[d] = marker[d] /\ marker[d] \in Nat
      BY <1>1, <1>4
    <3>3. replies[d][i].op \in {"push_editmesh", "query_changed"} => replies[d][i].revision \in Nat
      BY <3>1, RevisionReplies
    <3>4. CASE SameScene
      BY <3>1, <3>2, <3>4 DEF ReplySound, SameScene
    <3>5. CASE NewScene
      BY <1>1, <3>1, <3>2, <3>3, <3>5 DEF ReplySound, NewScene
    <3> QED BY <3>4, <3>5
  <2>3. RepliesSound(d)'
    BY <1>4, <2>2 DEF RepliesSound
  <2> QED BY <2>1, <2>3
<1> QED BY <1>2, <1>3, <1>4 DEF MarkerInv

\* The reply to a request is the only frame on its connection.
LEMMA OnlyReply ==
    ASSUME FrameInv, MarkerInv, NEW c \in Client, NEW r \in Reply, Answer(c, r),
           \/ requests[c] # <<>> /\ requests' = [requests EXCEPT ![c] = Tail(@)] /\ handling'[c] = Nothing
           \/ handling[c] # Nothing /\ UNCHANGED requests /\ handling'[c] = Nothing,
           awaiting' = awaiting
    PROVE  /\ replies'[c] = <<r>> /\ OneAtATime(c)'
           /\ \A d \in Client : d # c => requests'[d] = requests[d] /\ replies'[d] = replies[d]
<1>1. requests \in [Client -> Seq(Request)] /\ replies \in [Client -> Seq(Reply)] /\ OneAtATime(c)
  BY DEF FrameInv, MarkerInv
<1>2. replies[c] = <<>> /\ requests'[c] = <<>> /\ awaiting[c] # Nothing
  <2>1. CASE requests[c] # <<>> /\ requests' = [requests EXCEPT ![c] = Tail(@)]
    <3>1. Tail(requests[c]) = <<>> /\ replies[c] = <<>>
      <4>1. requests[c] \in Seq(Request) /\ replies[c] \in Seq(Reply)
        BY <1>1
      <4>2. Len(requests[c]) + Len(replies[c]) <= 1
        BY <1>1 DEF OneAtATime
      <4> QED BY <2>1, <4>1, <4>2, OneBetween
    <3> QED BY <1>1, <2>1, <3>1 DEF OneAtATime
  <2>2. CASE handling[c] # Nothing /\ UNCHANGED requests
    BY <1>1, <2>2 DEF OneAtATime
  <2> QED BY <2>1, <2>2
<1>3. replies'[c] = <<r>>
  BY <1>1, <1>2 DEF Answer
<1>4. OneAtATime(c)'
  BY <1>2, <1>3 DEF OneAtATime
<1> QED BY <1>1, <1>3, <1>4 DEF Answer

LEMMA InitMarkers == ASSUME SessionAssumption, Init PROVE MarkerInv
BY DEF Init, MarkerInv, OneAtATime, ViewSound, RepliesSound, Maybe

LEMMA RequestsAre ==
    ASSUME NEW r \in Request
    PROVE  r # Nothing /\ (r.op = "push_editmesh" => r.arg \in Mesh)
<1>1. r.op # "none"
  BY DEF Request
<1>2. r.op = "push_editmesh" => r.arg \in Mesh
  BY DEF Request
<1> QED BY <1>1, <1>2 DEF Nothing

LEMMA ReceiveKeepsMarkers ==
    ASSUME FrameInv, MarkerInv, NEW c \in Client, Receive(c) PROVE MarkerInv'
<1> DEFINE r == Head(replies[c])
<1>1. /\ replies[c] # <<>> /\ replies' = [replies EXCEPT ![c] = Tail(@)]
      /\ awaiting' = [awaiting EXCEPT ![c] = Nothing] /\ awaiting[c] # Nothing
      /\ UNCHANGED <<requests, handling, timeouts, editMesh, editRevision>>
  BY DEF Receive, sessionVars
<1>2. /\ requests \in [Client -> Seq(Request)] /\ replies \in [Client -> Seq(Reply)]
      /\ awaiting \in [Client -> Request \cup {Nothing}]
      /\ marker \in [Client -> Nat] /\ copy \in [Client -> Maybe(Mesh)]
      /\ via \in [Client -> {"query", "push", "stale"}]
      /\ OneAtATime(c) /\ ViewSound(c) /\ RepliesSound(c)
  BY DEF FrameInv, MarkerInv
<1>3. /\ 1 \in DOMAIN replies[c] /\ r = replies[c][1] /\ r \in Reply
  BY <1>1, <1>2
<1>4. requests[c] = <<>> /\ Tail(replies[c]) = <<>> /\ handling[c] = Nothing
  <2>1. requests[c] \in Seq(Request) /\ replies[c] \in Seq(Reply)
    BY <1>2
  <2>2. Len(requests[c]) + Len(replies[c]) <= 1
    BY <1>2 DEF OneAtATime
  <2>3. handling[c] = Nothing
    BY <1>1, <1>2 DEF OneAtATime
  <2> QED BY <1>1, <2>1, <2>2, <2>3, OneBetween
<1>5. ReplySound(c, r)
  BY <1>2, <1>3 DEF RepliesSound
<1> HIDE DEF r
<1>6. OneAtATime(c)' /\ RepliesSound(c)'
  <2>1. replies'[c] = <<>> /\ requests'[c] = <<>> /\ handling'[c] = Nothing
    BY <1>1, <1>2, <1>4
  <2> QED BY <2>1 DEF OneAtATime, RepliesSound
\* Every way the reply is taken leaves the client's view sound.
<1>7. /\ marker' \in [Client -> Nat] /\ copy' \in [Client -> Maybe(Mesh)]
      /\ via' \in [Client -> {"query", "push", "stale"}]
      /\ ViewSound(c)'
      /\ \A d \in Client : d # c => marker'[d] = marker[d] /\ copy'[d] = copy[d] /\ via'[d] = via[d]
  <2>1. CASE UNCHANGED <<copy, marker, via>>
    BY <1>1, <1>2, <2>1 DEF ViewSound
  <2>2. CASE /\ r.op = "push_editmesh" /\ r.op = awaiting[c].op
             /\ copy' = [copy EXCEPT ![c] = awaiting[c].arg]
             /\ marker' = [marker EXCEPT ![c] = r.revision]
             /\ via' = [via EXCEPT ![c] = "push"]
    <3>1. r.revision \in Nat /\ r.revision <= editRevision
      BY <1>3, <1>5, <2>2, RevisionReplies DEF ReplySound
    <3>2. awaiting[c].arg \in Maybe(Mesh)
      BY <1>1, <1>2, <2>2, RequestsAre DEF Maybe
    <3> QED BY <1>1, <1>2, <2>2, <3>1, <3>2 DEF ViewSound
  <2>3. CASE /\ r.op = "query_changed" /\ marker' = [marker EXCEPT ![c] = r.revision]
             /\ via' = [via EXCEPT ![c] = "stale"] /\ copy' = copy
    <3>1. r.revision \in Nat /\ r.revision <= editRevision
      BY <1>3, <1>5, <2>3, RevisionReplies DEF ReplySound
    <3> QED BY <1>1, <1>2, <2>3, <3>1 DEF ViewSound
  <2>4. CASE /\ r.op = "pull_editmesh" /\ copy' = [copy EXCEPT ![c] = r.mesh]
             /\ via' = [via EXCEPT ![c] = "query"] /\ marker' = marker
    <3>1. r.mesh \in Maybe(Mesh)
      BY <1>3, <2>4, PullReplies
    <3>2. marker[c] = editRevision => r.mesh = editMesh
      BY <1>5, <2>4 DEF ReplySound
    <3> QED BY <1>1, <1>2, <2>4, <3>1, <3>2 DEF ViewSound
  <2> QED
    <3>1. CASE r.op = awaiting[c].op
      <4>1. Learn(c, r)
        BY <3>1 DEF Receive, r
      <4> QED BY <2>1, <2>2, <2>3, <2>4, <3>1, <4>1 DEF Learn
    <3>2. CASE r.op # awaiting[c].op
      BY <2>1, <3>2 DEF Receive, r
    <3> QED BY <3>1, <3>2
<1>8. ASSUME NEW d \in Client, d # c PROVE OneAtATime(d)' /\ ViewSound(d)' /\ RepliesSound(d)'
  <2>1. /\ OneAtATime(d) /\ ViewSound(d) /\ RepliesSound(d)
    BY DEF MarkerInv
  <2>2. /\ replies'[d] = replies[d] /\ awaiting'[d] = awaiting[d]
        /\ marker'[d] = marker[d] /\ copy'[d] = copy[d] /\ via'[d] = via[d]
    BY <1>1, <1>2, <1>7, <1>8
  <2> QED BY <1>1, <2>1, <2>2 DEF OneAtATime, ViewSound, RepliesSound, ReplySound
<1> QED BY <1>1, <1>6, <1>7, <1>8 DEF MarkerInv

LEMMA SendKeepsMarkers ==
    ASSUME FrameInv, MarkerInv, NEW c \in Client, NEW q \in Request, Send(c, q) PROVE MarkerInv'
<1>1. /\ awaiting[c] = Nothing /\ awaiting' = [awaiting EXCEPT ![c] = q]
      /\ requests' = [requests EXCEPT ![c] = Append(@, q)]
      /\ UNCHANGED <<replies, handling, copy, marker, via, timeouts, editMesh, editRevision>>
  BY DEF Send, sessionVars, viewVars
<1>2. requests \in [Client -> Seq(Request)] /\ awaiting \in [Client -> Request \cup {Nothing}]
  BY DEF FrameInv
<1>3. OneAtATime(c)'
  <2>1. requests[c] = <<>> /\ replies[c] = <<>> /\ handling[c] = Nothing
    BY <1>1 DEF MarkerInv, OneAtATime
  <2>2. requests'[c] = <<q>> /\ awaiting'[c] = q /\ q # Nothing
    BY <1>1, <1>2, <2>1, RequestsAre
  <2> QED BY <1>1, <2>1, <2>2 DEF OneAtATime
<1>4. ASSUME NEW d \in Client, d # c PROVE OneAtATime(d)'
  BY <1>1, <1>2, <1>4 DEF MarkerInv, OneAtATime
<1>5. ASSUME NEW d \in Client PROVE ViewSound(d)' /\ RepliesSound(d)'
  BY <1>1 DEF MarkerInv, ViewSound, RepliesSound, ReplySound
<1> QED BY <1>1, <1>3, <1>4, <1>5 DEF MarkerInv

LEMMA NextMarkers ==
    ASSUME MaxTimeout = 0, FrameInv, MarkerInv, [Next]_vars PROVE MarkerInv'
<1>1. /\ requests \in [Client -> Seq(Request)] /\ replies \in [Client -> Seq(Reply)]
      /\ handling \in [Client -> Held] /\ editRevision \in Nat
      /\ marker \in [Client -> Nat]
  BY DEF FrameInv, MarkerInv
\* A reply that is the only one on its connection has to be sound.
<1>2. ASSUME NEW c \in Client, NEW r \in Reply, replies'[c] = <<r>>, ReplySound(c, r)'
      PROVE  RepliesSound(c)'
  BY <1>2 DEF RepliesSound
<1>3. ASSUME NEW c \in Client, NEW r \in Reply, Answer(c, r), SameScene \/ NewScene,
             UNCHANGED <<awaiting, copy, marker, via, timeouts>>, UNCHANGED handling,
             requests[c] # <<>>, requests' = [requests EXCEPT ![c] = Tail(@)],
             handling[c] = Nothing, ReplySound(c, r)'
      PROVE  MarkerInv'
  <2>1. /\ replies'[c] = <<r>> /\ OneAtATime(c)'
        /\ \A d \in Client : d # c => requests'[d] = requests[d] /\ replies'[d] = replies[d]
    BY <1>3, OnlyReply
  <2>2. RepliesSound(c)'
    BY <1>2, <1>3, <2>1
  <2> QED BY <1>3, <2>1, <2>2, ServeKeepsMarkers
<1>4. ASSUME NEW c \in Client, Command(c) PROVE MarkerInv'
  <2>1. OneLockDoes(c)
    BY <1>4, OneLockEffect DEF Command
  <2>2. PICK r \in Reply : r = [op |-> Req(c).op]
    BY <2>1 DEF OneLockDoes
  <2>3. Answer(c, r) /\ r.op \notin {"push_editmesh", "query_changed", "pull_editmesh"}
    BY <1>4, <2>1, <2>2 DEF Command, OneLockDoes
  <2>4. ReplySound(c, r)'
    BY <2>3 DEF ReplySound
  <2>5. UNCHANGED <<awaiting, copy, marker, via, timeouts>> /\ UNCHANGED handling
    BY <1>4 DEF Command, ServerOnly, clientVars, viewVars
  <2>6. /\ SameScene \/ NewScene
        /\ requests[c] # <<>> /\ requests' = [requests EXCEPT ![c] = Tail(@)]
        /\ handling[c] = Nothing
    BY <2>1 DEF OneLockDoes
  <2> QED BY <1>3, <2>3, <2>4, <2>5, <2>6
<1>5. ASSUME NEW c \in Client, RemotePress(c) PROVE MarkerInv'
  <2>1. requests[c] # <<>> /\ Req(c).op = "press_action" /\ Req(c) \in Request
    BY <1>1, <1>5 DEF RemotePress, Taken, Req
  <2>2. Req(c).arg \in Action
    BY <2>1 DEF Request
  <2>3. [op |-> "press_action"] \in Reply /\ ReplySound(c, [op |-> "press_action"])'
    BY DEF Reply, ReplySound
  <2>4. SameScene
    BY <1>5, <2>2, PressEffect DEF RemotePress
  <2> QED BY <1>3, <1>5, <2>1, <2>3, <2>4
       DEF RemotePress, Taken, ServerOnly, clientVars, viewVars
<1>6. ASSUME NEW c \in Client, PollPresses(c) PROVE MarkerInv'
  <2>1. [op |-> "poll_presses", ids |-> presses] \in Reply
    BY <1>1 DEF Reply, FrameInv
  <2>2. PICK r \in Reply : r = [op |-> "poll_presses", ids |-> presses]
    BY <2>1
  <2>3. SameScene /\ UNCHANGED <<awaiting, copy, marker, via, timeouts>> /\ UNCHANGED handling
    BY <1>6 DEF PollPresses, TakePresses, SameScene, sessionVars, ServerOnly, clientVars, viewVars
  <2>4. /\ Answer(c, r) /\ requests[c] # <<>> /\ requests' = [requests EXCEPT ![c] = Tail(@)]
        /\ handling[c] = Nothing
    BY <1>6, <2>2 DEF PollPresses, Taken
  <2>5. ReplySound(c, r)'
    BY <2>2 DEF ReplySound
  <2> QED BY <1>3, <2>3, <2>4, <2>5
<1>7. ASSUME NEW c \in Client, PullEditMesh(c) PROVE MarkerInv'
  <2>1. [op |-> "pull_editmesh", mesh |-> editMesh] \in Reply
    BY <1>1 DEF Reply, FrameInv
  <2>2. PICK r \in Reply : r = [op |-> "pull_editmesh", mesh |-> editMesh]
    BY <2>1
  <2>3. SameScene /\ UNCHANGED <<awaiting, copy, marker, via, timeouts>> /\ UNCHANGED handling
    BY <1>7 DEF PullEditMesh, SameScene, sessionVars, ServerOnly, clientVars, viewVars
  <2>4. /\ Answer(c, r) /\ requests[c] # <<>> /\ requests' = [requests EXCEPT ![c] = Tail(@)]
        /\ handling[c] = Nothing
    BY <1>7, <2>2 DEF PullEditMesh, Taken
  <2>5. ReplySound(c, r)'
    BY <2>2, <2>3 DEF ReplySound, SameScene
  <2> QED BY <1>3, <2>3, <2>4, <2>5
<1>8. ASSUME NEW c \in Client, QueryChanged(c) PROVE MarkerInv'
  <2>1. [op |-> "query_changed", changed |-> editRevision # Req(c).arg,
         revision |-> editRevision] \in Reply
    BY <1>1 DEF Reply, FrameInv
  <2>2. PICK r \in Reply : r = [op |-> "query_changed", changed |-> editRevision # Req(c).arg,
         revision |-> editRevision]
    BY <2>1
  <2>3. SameScene /\ UNCHANGED <<awaiting, copy, marker, via, timeouts>> /\ UNCHANGED handling
    BY <1>8 DEF QueryChanged, SameScene, sessionVars, ServerOnly, clientVars, viewVars
  <2>4. /\ Answer(c, r) /\ requests[c] # <<>> /\ requests' = [requests EXCEPT ![c] = Tail(@)]
        /\ handling[c] = Nothing
    BY <1>8, <2>2 DEF QueryChanged, Taken
  <2>5. ReplySound(c, r)'
    BY <1>1, <2>2, <2>3 DEF ReplySound, SameScene
  <2> QED BY <1>3, <2>3, <2>4, <2>5
<1>9. ASSUME NEW c \in Client, FirstLock(c) PROVE MarkerInv'
  <2>1. /\ requests[c] # <<>> /\ requests' = [requests EXCEPT ![c] = Tail(@)]
        /\ UNCHANGED <<replies, awaiting, copy, marker, via, timeouts>>
        /\ \A d \in Client : d # c => handling'[d] = handling[d]
    BY <1>1, <1>9 DEF FirstLock, Taken, ServerOnly, clientVars, viewVars
  <2>2. SameScene \/ NewScene
    BY <1>9 DEF FirstLock, SetEditMesh, SetDensity, sessionVars, SameScene, NewScene
  <2>3. requests'[c] = <<>> /\ replies[c] = <<>> /\ awaiting[c] # Nothing
    <3>1. requests[c] \in Seq(Request) /\ replies[c] \in Seq(Reply)
      BY <1>1
    <3>2. Len(requests[c]) + Len(replies[c]) <= 1 /\ awaiting[c] # Nothing
      BY <2>1 DEF MarkerInv, OneAtATime
    <3> QED BY <1>1, <2>1, <3>1, <3>2, OneBetween
  <2>4. OneAtATime(c)'
    <3>1. requests'[c] = <<>> /\ replies'[c] = <<>> /\ awaiting'[c] # Nothing
      BY <2>1, <2>3
    <3>2. Len(requests'[c]) = 0 /\ Len(replies'[c]) = 0
      BY <3>1
    <3> QED BY <3>1, <3>2 DEF OneAtATime
  <2>5. RepliesSound(c)'
    <3>1. replies'[c] = <<>>
      BY <2>1, <2>3
    <3> QED BY <3>1 DEF RepliesSound
  <2> QED BY <1>1, <2>1, <2>2, <2>4, <2>5, ServeKeepsMarkers
<1>10. ASSUME NEW c \in Client, SecondLock(c) PROVE MarkerInv'
  <2>1. /\ UNCHANGED <<requests, awaiting, copy, marker, via, timeouts>> /\ SameScene
        /\ handling' = [handling EXCEPT ![c] = Nothing]
    BY <1>10 DEF SecondLock, sessionVars, SameScene, ServerOnly, clientVars, viewVars
  <2>2. handling[c].op # "none" /\ handling[c] # Nothing
    BY <1>10 DEF SecondLock, Nothing
  <2>3. PICK r \in Reply : Answer(c, r) /\ r.op # "pull_editmesh" /\ r.op # "query_changed"
                           /\ (r.op = "push_editmesh" => r.revision = editRevision)
    <3>1. PICK r \in Reply : Answer(c, r)
      BY <1>10, SecondLockAnswers
    <3>2. CASE /\ handling[c].op = "push_editmesh"
               /\ Answer(c, [op |-> "push_editmesh", mine |-> handling[c].mine,
                             revision |-> editRevision])
      <4>1. [op |-> "push_editmesh", mine |-> handling[c].mine, revision |-> editRevision] \in Reply
        <5>1. handling[c].mine \in Nat /\ handling[c].mine <= editRevision
          BY <1>1, <3>2, HeldPushes DEF FrameInv, HandlingInv
        <5> QED BY <1>1, <5>1 DEF Reply, PushReply
      <4> QED BY <3>2, <4>1
    <3>3. CASE Answer(c, [op |-> "push_density", size |-> density])
      <4>1. [op |-> "push_density", size |-> density] \in Reply
        BY DEF Reply, FrameInv
      <4> QED BY <3>3, <4>1
    <3>4. CASE /\ handling[c].op = "pull_target"
               /\ Answer(c, [op |-> "pull_target", present |-> handling[c].present,
                             mesh |-> target])
      <4>1. [op |-> "pull_target", present |-> handling[c].present, mesh |-> target] \in Reply
        <5>1. handling[c].present \in BOOLEAN
          BY <1>1, <3>4, HeldPulls
        <5> QED BY <5>1 DEF Reply, FrameInv
      <4> QED BY <3>4, <4>1
    <3> QED BY <1>10, <3>2, <3>3, <3>4 DEF SecondLock
  <2>4. /\ replies'[c] = <<r>> /\ OneAtATime(c)'
        /\ \A d \in Client : d # c => replies'[d] = replies[d]
    BY <1>1, <2>1, <2>2, <2>3, OnlyReply
  <2>5. ReplySound(c, r)'
    BY <1>1, <2>1, <2>3 DEF ReplySound, SameScene
  <2>6. RepliesSound(c)'
    BY <1>2, <2>4, <2>5
  <2> QED BY <1>1, <2>1, <2>4, <2>6, ServeKeepsMarkers
<1>throws. ASSUME NEW c \in Client, Throws(c) PROVE MarkerInv'
  <2>1. ThrowsDoes(c)
    BY <1>throws, ThrowsEffect
  <2>2. PICK r \in Reply : r.op = "error" /\ Answer(c, r)
    BY <2>1 DEF ThrowsDoes
  <2>3. ReplySound(c, r)'
    BY <2>2 DEF ReplySound
  <2>4. /\ SameScene \/ NewScene
        /\ UNCHANGED <<awaiting, copy, marker, via, timeouts>>
        /\ handling'[c] = Nothing /\ \A d \in Client : d # c => handling'[d] = handling[d]
        /\ \/ requests[c] # <<>> /\ requests' = [requests EXCEPT ![c] = Tail(@)]
           \/ handling[c] # Nothing /\ UNCHANGED requests
    BY <1>1, <2>1 DEF ThrowsDoes
  <2>5. /\ replies'[c] = <<r>> /\ OneAtATime(c)'
        /\ \A d \in Client : d # c => requests'[d] = requests[d] /\ replies'[d] = replies[d]
    BY <2>2, <2>4, OnlyReply
  <2>6. RepliesSound(c)'
    BY <1>2, <2>3, <2>5
  <2> QED BY <2>4, <2>5, <2>6, ServeKeepsMarkers
<1>11. ASSUME NEW c \in Client, NEW q \in Request, Send(c, q) PROVE MarkerInv'
  BY <1>11, SendKeepsMarkers
<1>12. ASSUME NEW c \in Client, Receive(c) PROVE MarkerInv'
  BY <1>12, ReceiveKeepsMarkers
<1>13. ASSUME NEW c \in Client, TimesOut(c) PROVE MarkerInv'
  <2>1. timeouts < MaxTimeout /\ timeouts = 0
    BY <1>13 DEF TimesOut, MarkerInv
  <2> QED BY <2>1
<1>14. ASSUME NEW a \in Action, UserPress(a) PROVE MarkerInv'
  <2>1. SameScene
    BY <1>14, PressEffect DEF UserPress
  <2>2. UNCHANGED <<requests, replies, handling, awaiting, copy, marker, via, timeouts>>
    BY <1>14 DEF UserPress, wireVars, clientVars, viewVars
  <2> QED BY <2>1, <2>2
       DEF SameScene, MarkerInv, OneAtATime, ViewSound, RepliesSound, ReplySound
<1>15. CASE UNCHANGED vars
  BY <1>15 DEF vars, sessionVars, wireVars, clientVars, viewVars, MarkerInv, OneAtATime,
               ViewSound, RepliesSound, ReplySound
<1> QED
  BY <1>4, <1>5, <1>6, <1>7, <1>8, <1>9, <1>10, <1>throws, <1>11, <1>12, <1>13, <1>14, <1>15
  DEF Next, Serve, Throws, ClientNext

\* With clients that wait, as client.cpp's do: whoever pulled under the current
\* revision, so that query_changed would answer "unchanged", has the session's mesh.
THEOREM PulledMarkersTell ==
    ASSUME SessionAssumption, MaxTimeout = 0 PROVE Spec => []PulledMarkerSound
<1>1. FrameInv /\ MarkerInv => PulledMarkerSound
  BY DEF MarkerInv, ViewSound, PulledMarkerSound
<1>2. Init => MarkerInv
  BY InitMarkers
<1>3. FrameInv /\ MarkerInv /\ [Next]_vars => MarkerInv'
  BY NextMarkers
<1> QED BY Frames, <1>1, <1>2, <1>3, PTL DEF Spec
=============================================================================
