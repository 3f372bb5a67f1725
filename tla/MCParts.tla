------------------------------- MODULE MCParts -------------------------------
(***************************************************************************)
(* Eight components that share no state with each other and are each too   *)
(* small for a run of their own: the egress ledger, the artifacts sync,    *)
(* the classifier's client, the tunnel with two requests in flight, the    *)
(* rebuild of the browser context, the iOS daemon's way to the app, the    *)
(* boards of a design daemon, and the commands that start design daemons.  *)
(* A behaviour is one of one of them.  The properties are in the modules   *)
(* of the components.                                                      *)
(***************************************************************************)
EXTENDS EgressReceipt, BrainSync, SecuritySidecar, Tunnel, ContextRebuild,
        IosDaemon, DesignBoards, DesignClient

VARIABLE part   \* the component whose behaviour this is

Init ==
    /\ part \in {"egress", "brain", "sidecar", "tunnel", "rebuild", "ios", "boards", "design"}
    /\ EgressInit /\ BrainInit /\ SidecarInit /\ TunnelInit
    /\ RebuildInit /\ IosInit /\ BoardsInit /\ ClientInit
    \* One of their initial states is enough where these two stand still.
    /\ part # "ios" => ~app.up
    /\ part # "design" => \A u \in User : user[u].version = CHOOSE v \in Version : TRUE

Next ==
    /\ UNCHANGED part
    /\ \/ /\ part = "egress" /\ EgressNext
          /\ UNCHANGED <<brainVars, sidecarVars, tunnelVars, rebuildVars, iosVars,
                       boardsVars, clientVars>>
       \/ /\ part = "brain" /\ BrainNext
          /\ UNCHANGED <<egressVars, sidecarVars, tunnelVars, rebuildVars, iosVars,
                       boardsVars, clientVars>>
       \/ /\ part = "sidecar" /\ SidecarNext
          /\ UNCHANGED <<egressVars, brainVars, tunnelVars, rebuildVars, iosVars,
                       boardsVars, clientVars>>
       \/ /\ part = "tunnel" /\ TunnelNext
          /\ UNCHANGED <<egressVars, brainVars, sidecarVars, rebuildVars, iosVars,
                       boardsVars, clientVars>>
       \/ /\ part = "rebuild" /\ RebuildNext
          /\ UNCHANGED <<egressVars, brainVars, sidecarVars, tunnelVars, iosVars,
                       boardsVars, clientVars>>
       \/ /\ part = "ios" /\ IosNext
          /\ UNCHANGED <<egressVars, brainVars, sidecarVars, tunnelVars, rebuildVars,
                       boardsVars, clientVars>>
       \/ /\ part = "boards" /\ BoardsNext
          /\ UNCHANGED <<egressVars, brainVars, sidecarVars, tunnelVars, rebuildVars,
                       iosVars, clientVars>>
       \/ /\ part = "design" /\ ClientNext
          /\ UNCHANGED <<egressVars, brainVars, sidecarVars, tunnelVars, rebuildVars,
                       iosVars, boardsVars>>

vars == <<part, egressVars, brainVars, sidecarVars, tunnelVars, rebuildVars, iosVars,
          boardsVars, clientVars>>

Spec == Init /\ [][Next]_vars
=============================================================================
