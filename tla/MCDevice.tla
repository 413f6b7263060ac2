----------------------------- MODULE MCDevice -----------------------------
(***************************************************************************)
(* What runs on the phone: the core with its Node, the app's session and    *)
(* the system tunnel.  Each module keeps what it needs of the others, so    *)
(* they are checked side by side: `part` says which of them moves in a      *)
(* behaviour; the others stay as they begin.                                *)
(***************************************************************************)
EXTENDS MCMobileCore, AppSession, VpnTunnel

VARIABLE part

\* The configuration gives the session four user and AppState events: an open, a close
\* or disconnect, a background event and a second open can overlap.  It gives the tunnel
\* two starts and two stops: a late message of the first service instance meets the
\* second one.  Or there is one stop, and a revocation by the system.
Revoked == INSTANCE VpnTunnel WITH MaxRevokes <- 1

deviceVars == <<part, vars, sessionVars, tunnelVars>>

DeviceInit ==
    /\ part \in {"core", "session", "tunnel", "revoked"}
    /\ Init /\ SessionInit /\ TunnelInit
    /\ part # "session" => build = [platform |-> "ios", mayFail |-> FALSE]

\* The app and the tunnel may come to rest when the bounds on their events are reached;
\* the core always has a call to take.
DeviceNext ==
    /\ UNCHANGED part
    /\ \/ /\ part = "core" /\ Next
          /\ UNCHANGED <<sessionVars, tunnelVars>>
       \/ /\ part = "session" /\ SessionNext
          /\ UNCHANGED <<vars, tunnelVars>>
       \/ /\ \/ part = "tunnel" /\ TunnelNext
             \/ part = "revoked" /\ Revoked!TunnelNext /\ module'.stops[2] = "unused"
          /\ UNCHANGED <<vars, sessionVars>>
       \/ part # "core" /\ UNCHANGED deviceVars

DeviceSpec == DeviceInit /\ [][DeviceNext]_deviceVars

---------------------------------------------------------------------------
\* Every variable of the three components stays in its domain.
DeviceTypeOK == TypeOK /\ SessionTypeOK /\ TunnelTypeOK
=============================================================================
