---------------------------- MODULE BridgeSession ----------------------------
(***************************************************************************)
(* The session behind the bridge (src/src/net/src/session.cpp), the        *)
(* dispatch of requests to it (message.cpp) and the clients that send them *)
(* (client.cpp and python/cyberbridge/client.py).                          *)
(*                                                                         *)
(* Every session method locks the session's mutex, so a method is one      *)
(* step.  A COMMAND is not: push_editmesh, pull_target and push_density    *)
(* call two methods, and another connection's command may run between.     *)
(*                                                                         *)
(* Abstracted: meshes and action ids are model values; guidance is the     *)
(* Target it was authored against; symmetry, camera and the message are    *)
(* independent registers and are left out, and so are commands that only   *)
(* read one register.                                                      *)
(***************************************************************************)
EXTENDS Integers, Sequences, FiniteSets

CONSTANTS
    Client,       \* the clients, each with its own connection
    Mesh,         \* the meshes clients push
    Action,       \* ids of remote action buttons
    Ops,          \* the commands the clients use
    NoMesh,       \* the empty WireMesh, and "no Target"
    MaxRevision,  \* bound on the EditMesh revisions explored
    MaxPress,     \* bound on button presses
    MaxTimeout    \* bound on client timeouts: 0 for client.cpp, which has none

SessionAssumption ==
    /\ NoMesh \notin Mesh
    /\ MaxRevision \in Nat /\ MaxPress \in Nat /\ MaxTimeout \in Nat

VARIABLES
    target, editMesh, editRevision, guides, density, actions, presses,
    requests, replies,   \* per client: frames under way to and from the server
    handling,            \* per connection thread: the command between two locks
    awaiting,            \* per client: the request whose reply it waits for
    copy, marker, via,   \* per client: the EditMesh it holds and its marker
    pressed, received,   \* history: presses so far, and those each client got
    timeouts             \* client timeouts so far

sessionVars == <<target, editMesh, editRevision, guides, density, actions, presses>>
wireVars == <<requests, replies, handling>>
viewVars == <<copy, marker, via, received>>
clientVars == <<awaiting, viewVars, timeouts>>
vars == <<sessionVars, wireVars, clientVars, pressed>>

Maybe(S) == S \cup {NoMesh}
Nothing == [op |-> "none"]

Request ==
    [op : {"push_target", "push_editmesh", "push_guides", "push_density"}, arg : Mesh]
    \cup [op : {"pull_editmesh", "pull_target", "clear_guides", "clear_scene",
               "close_document", "poll_presses"}]
    \cup [op : {"add_action", "remove_action", "press_action"}, arg : Action]
    \cup [op : {"query_changed"}, arg : 0 .. MaxRevision]
    \cup [op : {"malformed"}]   \* no JSON, a field missing, a command unknown

Init ==
    /\ target = NoMesh /\ editMesh = NoMesh /\ editRevision = 0
    /\ guides = NoMesh /\ density = NoMesh
    /\ actions = {} /\ presses = <<>>
    /\ requests = [c \in Client |-> <<>>] /\ replies = [c \in Client |-> <<>>]
    /\ handling = [c \in Client |-> Nothing] /\ awaiting = [c \in Client |-> Nothing]
    /\ copy = [c \in Client |-> NoMesh] /\ marker = [c \in Client |-> 0]
    /\ via = [c \in Client |-> "query"]
    /\ pressed = <<>> /\ received = [c \in Client |-> <<>>]
    /\ timeouts = 0

\* The bounds: a request that bumps the revision or presses a button is sent
\* only while those already sent leave room for it.
Bumping == {"push_editmesh", "clear_scene", "close_document"}
Underway(ops) == Cardinality({p \in Client \X (1 .. MaxTimeout + 1) :
    p[2] \in DOMAIN requests[p[1]] /\ requests[p[1]][p[2]].op \in ops})
RoomForRevision == editRevision + Underway(Bumping) < MaxRevision
RoomForPress == Len(pressed) + Underway({"press_action"}) < MaxPress

-----------------------------------------------------------------------------
(* Session methods, each under the session's mutex *)

Answer(c, reply) == replies' = [replies EXCEPT ![c] = Append(@, reply)]

SetTarget(m) == target' = m /\ UNCHANGED <<editMesh, editRevision, guides, density, actions, presses>>

SetEditMesh(m) ==
    /\ editMesh' = m /\ editRevision' = editRevision + 1
    /\ UNCHANGED <<target, guides, density, actions, presses>>

SetGuides(g) == guides' = g /\ UNCHANGED <<target, editMesh, editRevision, density, actions, presses>>
SetDensity(d) == density' = d /\ UNCHANGED <<target, editMesh, editRevision, guides, actions, presses>>

\* Mutants: the scene is dropped without a new revision; the revisions start
\* again at zero.
DropSceneTo(revision) ==
    /\ target' = NoMesh /\ editMesh' = NoMesh /\ editRevision' = revision
    /\ guides' = NoMesh /\ density' = NoMesh
DropSceneQuietly == DropSceneTo(editRevision)
DropSceneRestarts == DropSceneTo(0)

DropScene ==
    /\ target' = NoMesh /\ editMesh' = NoMesh /\ editRevision' = editRevision + 1
    /\ guides' = NoMesh /\ density' = NoMesh

ClearScene == DropScene /\ UNCHANGED <<actions, presses>>
CloseDocument == DropScene /\ actions' = {} /\ presses' = <<>>

AddAction(a) ==
    /\ actions' = actions \cup {a}
    /\ UNCHANGED <<target, editMesh, editRevision, guides, density, presses>>

\* Presses of the button that are already queued stay queued.
RemoveAction(a) ==
    /\ actions' = actions \ {a}
    /\ UNCHANGED <<target, editMesh, editRevision, guides, density, presses>>

\* A press of a button nobody registered is ignored.  A press is numbered so
\* that the properties can follow it.
PressAction(a) ==
    /\ IF a \in actions
       THEN /\ presses' = Append(presses, Len(pressed) + 1)
            /\ pressed' = Append(pressed, a)
       ELSE UNCHANGED <<presses, pressed>>
    /\ UNCHANGED <<target, editMesh, editRevision, guides, density, actions>>

\* Mutant: the presses are copied out and not drained.
TakePressesCopies == UNCHANGED sessionVars

TakePresses ==
    /\ presses' = <<>>
    /\ UNCHANGED <<target, editMesh, editRevision, guides, density, actions>>

-----------------------------------------------------------------------------
(* The connection thread of client c: recvFrame, processRequest, sendFrame *)

Req(c) == Head(requests[c])
Taken(c, op) ==
    /\ handling[c] = Nothing /\ requests[c] # <<>>
    /\ Req(c).op = op
    /\ requests' = [requests EXCEPT ![c] = Tail(@)]
ServerOnly == UNCHANGED <<clientVars>>

\* The commands that call one method of the session.
OneLock(c) ==
    \/ Taken(c, "push_target") /\ SetTarget(Req(c).arg)
    \/ Taken(c, "push_guides") /\ SetGuides(target)
    \/ Taken(c, "clear_guides") /\ SetGuides(NoMesh)
    \/ Taken(c, "clear_scene") /\ ClearScene
    \/ Taken(c, "close_document") /\ CloseDocument
    \/ Taken(c, "add_action") /\ AddAction(Req(c).arg)
    \/ Taken(c, "remove_action") /\ RemoveAction(Req(c).arg)

Command(c) ==
    /\ OneLock(c)
    /\ Answer(c, [op |-> Req(c).op])
    /\ ServerOnly /\ UNCHANGED <<handling, pressed>>

RemotePress(c) ==
    /\ Taken(c, "press_action")
    /\ PressAction(Req(c).arg)
    /\ Answer(c, [op |-> "press_action"])
    /\ ServerOnly /\ UNCHANGED <<handling>>

PollPresses(c) ==
    /\ Taken(c, "poll_presses") /\ TakePresses
    /\ Answer(c, [op |-> "poll_presses", ids |-> presses])
    /\ ServerOnly /\ UNCHANGED <<handling, pressed>>

PullEditMesh(c) ==
    /\ Taken(c, "pull_editmesh")
    /\ Answer(c, [op |-> "pull_editmesh", mesh |-> editMesh])
    /\ ServerOnly /\ UNCHANGED <<sessionVars, handling, pressed>>

QueryChanged(c) ==
    /\ Taken(c, "query_changed")
    /\ Answer(c, [op |-> "query_changed", changed |-> editRevision # Req(c).arg,
                  revision |-> editRevision])
    /\ ServerOnly /\ UNCHANGED <<sessionVars, handling, pressed>>

\* The commands that call a second method: here is the first one ...
FirstLock(c) ==
    /\ \/ /\ Taken(c, "push_editmesh") /\ SetEditMesh(Req(c).arg)
          /\ handling' = [handling EXCEPT ![c] =
                            [op |-> "push_editmesh", mine |-> editRevision + 1]]
       \/ /\ Taken(c, "push_density") /\ SetDensity(target)
          /\ handling' = [handling EXCEPT ![c] = [op |-> "push_density"]]
       \/ /\ Taken(c, "pull_target") /\ UNCHANGED sessionVars
          /\ handling' = [handling EXCEPT ![c] =
                            [op |-> "pull_target", present |-> target # NoMesh]]
    /\ ServerOnly /\ UNCHANGED <<replies, pressed>>

\* ... and here the second, whose result goes into the reply.
SecondLock(c) ==
    /\ \/ /\ handling[c].op = "push_editmesh"
          /\ Answer(c, [op |-> "push_editmesh", mine |-> handling[c].mine,
                        revision |-> editRevision])
       \/ /\ handling[c].op = "push_density"
          /\ Answer(c, [op |-> "push_density", size |-> density])
       \/ /\ handling[c].op = "pull_target"
          /\ Answer(c, [op |-> "pull_target", present |-> handling[c].present,
                        mesh |-> target])
    /\ handling' = [handling EXCEPT ![c] = Nothing]
    /\ ServerOnly /\ UNCHANGED <<sessionVars, requests, pressed>>

\* The catch of processRequest: whatever handle() throws is answered, and what
\* the session had done by then stays done.
BadRequest(op) == [op |-> "error", to |-> op]

\* Mutant: no catch, and the exception takes the reply with it.
RefuseSilent(c) ==
    /\ Taken(c, Req(c).op)
    /\ ServerOnly /\ UNCHANGED <<sessionVars, replies, handling, pressed>>

\* Thrown before the session was changed: by the parser, by a field that is not
\* there or not of its type, by memory that cannot be had.
Refuse(c) ==
    /\ Taken(c, Req(c).op)
    /\ Answer(c, BadRequest(Req(c).op))
    /\ ServerOnly /\ UNCHANGED <<sessionVars, handling, pressed>>

\* Thrown while the reply was built: presses that were drained for it are lost.
ReplyThrows(c) ==
    /\ \/ OneLock(c) /\ UNCHANGED pressed
       \/ Taken(c, "press_action") /\ PressAction(Req(c).arg)
       \/ Taken(c, "poll_presses") /\ TakePresses /\ UNCHANGED pressed
    /\ Answer(c, BadRequest(Req(c).op))
    /\ ServerOnly /\ UNCHANGED handling

\* Thrown after the first of two methods.
SecondThrows(c) ==
    /\ handling[c] # Nothing
    /\ Answer(c, BadRequest(handling[c].op))
    /\ handling' = [handling EXCEPT ![c] = Nothing]
    /\ ServerOnly /\ UNCHANGED <<sessionVars, requests, pressed>>

Serve(c) ==
    \/ Command(c) \/ RemotePress(c) \/ PollPresses(c)
    \/ PullEditMesh(c) \/ QueryChanged(c) \/ FirstLock(c) \/ SecondLock(c)
    \/ Refuse(c) \/ ReplyThrows(c) \/ SecondThrows(c)

\* The user taps a button in the host's interface.
UserPress(a) ==
    /\ RoomForPress
    /\ PressAction(a)
    /\ UNCHANGED <<wireVars, clientVars>>

-----------------------------------------------------------------------------
(* A client: one request at a time, unless it gives up waiting *)

Send(c, r) ==
    /\ r.op \in Ops
    /\ awaiting[c] = Nothing
    /\ r.op \in Bumping => RoomForRevision
    /\ r.op = "press_action" => RoomForPress
    /\ r.op = "query_changed" => r.arg = marker[c]
    /\ awaiting' = [awaiting EXCEPT ![c] = r]
    /\ requests' = [requests EXCEPT ![c] = Append(@, r)]
    /\ UNCHANGED <<sessionVars, replies, handling, viewVars, timeouts, pressed>>

\* How a client keeps a copy of the EditMesh: what it pushed, under the revision
\* it was told; or what it pulled after a query, under the query's revision.  An
\* error tells it nothing.
Learn(c, reply) ==
    CASE reply.op = "push_editmesh" ->
           /\ copy' = [copy EXCEPT ![c] = awaiting[c].arg]
           /\ marker' = [marker EXCEPT ![c] = reply.revision]
           /\ via' = [via EXCEPT ![c] = "push"]
           /\ UNCHANGED received
      [] reply.op = "query_changed" /\ reply.changed ->
           /\ marker' = [marker EXCEPT ![c] = reply.revision]
           /\ via' = [via EXCEPT ![c] = "stale"]
           /\ UNCHANGED <<copy, received>>
      [] reply.op = "pull_editmesh" ->
           /\ copy' = [copy EXCEPT ![c] = reply.mesh]
           /\ via' = [via EXCEPT ![c] = "query"]
           /\ UNCHANGED <<marker, received>>
      [] reply.op = "poll_presses" ->
           /\ received' = [received EXCEPT ![c] = @ \o reply.ids]
           /\ UNCHANGED <<copy, marker, via>>
      [] OTHER -> UNCHANGED <<copy, marker, via, received>>

\* exchange(): the next frame on the connection is taken for the reply.
Receive(c) ==
    /\ awaiting[c] # Nothing /\ replies[c] # <<>>
    /\ replies' = [replies EXCEPT ![c] = Tail(@)]
    /\ awaiting' = [awaiting EXCEPT ![c] = Nothing]
    /\ IF Head(replies[c]).op = awaiting[c].op
       THEN Learn(c, Head(replies[c])) ELSE UNCHANGED <<copy, marker, via, received>>
    /\ UNCHANGED <<sessionVars, requests, handling, timeouts, pressed>>

\* client.py: the socket's timeout raises out of _exchange and leaves the
\* connection open, so a caller that goes on shares it with the late reply.
TimesOut(c) ==
    /\ awaiting[c] # Nothing /\ replies[c] = <<>>
    /\ timeouts < MaxTimeout /\ timeouts' = timeouts + 1
    /\ awaiting' = [awaiting EXCEPT ![c] = Nothing]
    /\ UNCHANGED <<sessionVars, wireVars, viewVars, pressed>>

ClientNext(c) == (\E r \in Request : Send(c, r)) \/ Receive(c) \/ TimesOut(c)

Next ==
    \/ \E c \in Client : Serve(c) \/ ClientNext(c)
    \/ \E a \in Action : UserPress(a)

Spec == Init /\ [][Next]_vars

\* Connection threads and clients are scheduled; which request a client sends,
\* when the user taps and when a client gives up is their own affair.
Fairness == \A c \in Client : WF_vars(Serve(c)) /\ WF_vars(Receive(c))
LiveSpec == Spec /\ Fairness

-----------------------------------------------------------------------------
(* Properties *)

TypeOK ==
    /\ {target, editMesh, guides, density} \subseteq Maybe(Mesh)
    /\ editRevision \in 0 .. MaxRevision
    /\ actions \subseteq Action
    /\ presses \in Seq(1 .. MaxPress)
    /\ \A c \in Client :
         /\ requests[c] \in Seq(Request) /\ awaiting[c] \in Request \cup {Nothing}
         /\ handling[c].op \in {"none", "push_editmesh", "push_density", "pull_target"}
         /\ copy[c] \in Maybe(Mesh) /\ marker[c] \in 0 .. MaxRevision
         /\ via[c] \in {"query", "push", "stale"}
         /\ received[c] \in Seq(1 .. MaxPress)
    /\ pressed \in Seq(Action)
    /\ timeouts \in 0 .. MaxTimeout

\* A client that pulled the EditMesh after query_changed told it to, and whose
\* marker is still the current revision -- so that query_changed would answer
\* "unchanged" -- holds the very mesh the session holds.
PulledMarkerSound ==
    \A c \in Client : via[c] = "query" /\ marker[c] = editRevision => copy[c] = editMesh

\* The same of a client that holds what it pushed itself, under the revision
\* the push was answered with (client.py's push_editmesh returns it).
PushedMarkerSound ==
    \A c \in Client : via[c] = "push" /\ marker[c] = editRevision => copy[c] = editMesh

\* The marker a push is answered with is never older than the push.
PushAnsweredAfterItself ==
    \A c \in Client : \A i \in DOMAIN replies[c] :
        replies[c][i].op = "push_editmesh" => replies[c][i].revision >= replies[c][i].mine

\* Presses under way: still queued, drained into a reply, or received.
InReplies(c) == {n \in 1 .. Len(pressed) :
    \E i \in DOMAIN replies[c] : replies[c][i].op = "poll_presses"
                                  /\ \E j \in DOMAIN replies[c][i].ids : replies[c][i].ids[j] = n}
Got(c) == {received[c][i] : i \in DOMAIN received[c]}
Queued == {presses[i] : i \in DOMAIN presses}

\* No tap is delivered twice: it is queued, or in one reply, or with one client,
\* and each client receives its taps in the order they were made.
PressDeliveredOnce ==
    /\ \A c \in Client : Queued \cap (InReplies(c) \cup Got(c)) = {} /\ InReplies(c) \cap Got(c) = {}
    /\ \A c, d \in Client : c # d => (InReplies(c) \cup Got(c)) \cap (InReplies(d) \cup Got(d)) = {}
    /\ \A c \in Client : \A i, j \in DOMAIN received[c] : i < j => received[c][i] < received[c][j]

Answers(reply, r) == reply.op = r.op \/ (reply.op = "error" /\ reply.to = r.op)

\* "Synchronous request/response client": the frame a waiting client is about to
\* take for its reply answers the request it is waiting on.
ReplyAnswersRequest ==
    \A c \in Client : awaiting[c] # Nothing /\ replies[c] # <<>> =>
        Answers(Head(replies[c]), awaiting[c])

\* The frames of client c under way: to the server, in its hands, and back.
InFlight(c) ==
    LET frames == Len(requests[c]) + Len(replies[c])
    IN  IF handling[c] = Nothing THEN frames ELSE frames + 1
Expected(c) == IF awaiting[c] = Nothing THEN 0 ELSE 1

\* A client that waits has a frame under way, and as long as nobody gave up there
\* is one for each that waits and none for another.
FramesMatch ==
    \A c \in Client : InFlight(c) >= Expected(c) /\ (timeouts = 0 => InFlight(c) = Expected(c))

\* Every request is answered, or given up on, whatever was thrown while it was
\* served.
WaitsEnd == \A c \in Client : awaiting[c] # Nothing ~> awaiting[c] = Nothing
=============================================================================
