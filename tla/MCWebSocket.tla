----------------------------- MODULE MCWebSocket -----------------------------
(***************************************************************************)
(* The WebSocket from both of its ends, which share no state, in one run:  *)
(* in each behaviour either the server's sessions (MCSession) or the       *)
(* TypeScript client (MCTsClient) runs.                                    *)
(***************************************************************************)
EXTENDS MCSession, MCTsClient

VARIABLE end

socketVars == <<end, connectionVars, vars>>

\* Without a connection the server's state stays as it is, and so does that
\* of an application which never connects.
SocketInit ==
    \/ end = "server" /\ SessionInit /\ Init /\ state = "DISCONNECTED"
    \/ end = "browser" /\ SessionInit /\ Init

ServeSocket == end = "server" /\ SessionNext /\ UNCHANGED <<end, vars>>
Browse == end = "browser" /\ Next /\ UNCHANGED <<end, connectionVars>>

SocketNext == ServeSocket \/ Browse

SocketSpec == SocketInit /\ [][SocketNext]_socketVars
                         /\ SessionFairness /\ Fairness
=============================================================================
