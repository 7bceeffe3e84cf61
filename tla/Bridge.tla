-------------------------------- MODULE Bridge --------------------------------
(***************************************************************************)
(* The bridge: the server's threads, and the session behind them.  A       *)
(* request that was read is dispatched whole, so the two share no state:   *)
(* part tells which of them moves in a behaviour, and the other stays as   *)
(* it begins, where no step that the fairness speaks of is enabled.        *)
(*                                                                         *)
(* The session is explored three times, each time with commands that have  *)
(* to do with one another.                                                 *)
(***************************************************************************)
EXTENDS BridgeServer, Sequences

\* The clients of the session, what they push and what they press.
CONSTANTS Client, Mesh, Action, NoMesh

VARIABLES
    part,
    \* BridgeSession
    target, editMesh, editRevision, guides, density, actions, presses, requests, replies,
    handling, awaiting, copy, marker, via, pressed, received, timeouts

sessionVars ==
    <<target, editMesh, editRevision, guides, density, actions, presses, requests, replies,
      handling, awaiting, copy, marker, via, pressed, received, timeouts>>

\* The markers of clients that wait for their answers.
Scene == INSTANCE BridgeSession WITH
    MaxRevision <- 3, MaxPress <- 0, MaxTimeout <- 0,
    Ops <- {"push_editmesh", "pull_editmesh", "query_changed", "clear_scene"}

\* The remote buttons, beside a client that gives up.
Buttons == INSTANCE BridgeSession WITH
    MaxRevision <- 1, MaxPress <- 2, MaxTimeout <- 1,
    Ops <- {"add_action", "remove_action", "press_action", "poll_presses", "close_document"}

\* Commands of one lock and of two, requests that are refused, and a client that gives up.
Calls == INSTANCE BridgeSession WITH
    MaxRevision <- 1, MaxPress <- 0, MaxTimeout <- 1,
    Ops <- {"push_target", "pull_target", "push_guides", "clear_guides", "push_density",
            "malformed"}

ASSUME SessionsAssumption ==
    Scene!SessionAssumption /\ Buttons!SessionAssumption /\ Calls!SessionAssumption

-----------------------------------------------------------------------------
BridgeInit == Init /\ Calls!Init
BridgeSafeInit == part \in {"server", "scene", "buttons"} /\ BridgeInit
BridgeLiveInit == part \in {"server", "calls"} /\ BridgeInit

ServerMoves == part = "server" /\ Next /\ UNCHANGED <<part, sessionVars>>
SceneMoves == part = "scene" /\ Scene!Next /\ UNCHANGED <<part, vars>>
ButtonsMove == part = "buttons" /\ Buttons!Next /\ UNCHANGED <<part, vars>>
CallsMove == part = "calls" /\ Calls!Next /\ UNCHANGED <<part, vars>>

\* What must not happen: in the server, in the scene and at the buttons.
BridgeSafeSpec ==
    /\ BridgeSafeInit
    /\ [][ServerMoves \/ SceneMoves \/ ButtonsMove]_<<part, vars, sessionVars>>

\* What must: in the server, and for whoever calls it, with the fairness of the
\* two modules, each where its part moves.
ServerRuns(action) == part = "server" /\ action
CallsRun(action) == part = "calls" /\ action
BridgeFairness ==
    /\ WF_vars(ServerRuns(StopNext)) /\ WF_vars(ServerRuns(AcceptNext))
    /\ \A t \in Handler :
          WF_vars(ServerRuns(Unblocked(t))) /\ SF_vars(ServerRuns(EraseConn(t)))
    /\ \A c \in Client :
          /\ WF_sessionVars(CallsRun(Calls!Serve(c)))
          /\ WF_sessionVars(CallsRun(Calls!Receive(c)))

BridgeLiveSpec ==
    /\ BridgeLiveInit
    /\ [][ServerMoves \/ CallsMove]_<<part, vars, sessionVars>>
    /\ BridgeFairness

-----------------------------------------------------------------------------
\* Clients that wait for their answers: one that pulled under the current
\* revision holds the mesh of the session.
PulledMarkerSound == part = "scene" => Scene!PulledMarkerSound

\* A push is not answered with a revision that is older than the push.
PushAnsweredAfterItself == part = "scene" => Scene!PushAnsweredAfterItself

\* A press is handed to one client, once, and in the order of the presses.
PressDeliveredOnce == part = "buttons" => Buttons!PressDeliveredOnce

\* Whoever waits for a reply gets one, and one only, or gives up.
RequestsAnswered == [](part = "calls" => Calls!FramesMatch) /\ Calls!WaitsEnd
=============================================================================
