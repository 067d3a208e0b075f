------------------------------ MODULE SshTunnel ------------------------------
(***************************************************************************)
(* SSHTunnelProxy of src/api/ssh_tunnel_proxy.ts: a local server whose     *)
(* connections are forwarded through an SSH connection.  It listens before *)
(* that is ready, and knows of the connections that came after; close()    *)
(* destroys those, and waits until the server has no connection left.      *)
(***************************************************************************)
EXTENDS FiniteSets

CONSTANT Sockets  \* connections to the local port

VARIABLES
  tunnel,      \* of create() and close()
  listening,   \* the server accepts connections
  ssh,         \* the SSH client
  sock,        \* each connection
  connections  \* those the proxy keeps track of

tunnelVars == <<tunnel, listening, ssh, sock, connections>>

TunnelTypeOK ==
  /\ tunnel \in {"none", "connecting", "failed", "open", "closing", "closed"}
  /\ listening \in BOOLEAN
  /\ ssh \in {"off", "connecting", "ready", "error", "destroyed"}
  /\ sock \in [Sockets -> {"none", "accepted", "piped", "closed"}]
  /\ connections \subseteq Sockets

TunnelInit ==
  /\ tunnel = "none" /\ listening = FALSE /\ ssh = "off"
  /\ sock = [s \in Sockets |-> "none"]
  /\ connections = {}
-----------------------------------------------------------------------------
Create ==
  /\ tunnel = "none"
  /\ tunnel' = "connecting" /\ listening' = TRUE /\ ssh' = "connecting"
  /\ UNCHANGED <<sock, connections>>

(* "ready", or "error" in its place or at any later time: only the first   *)
(* settles create(), and a failed one leaves the server as it is.          *)
Ready ==
  /\ ssh = "connecting"
  /\ ssh' = "ready" /\ tunnel' = "open"
  /\ UNCHANGED <<listening, sock, connections>>

SshErrors ==
  /\ ssh \in {"connecting", "ready"}
  /\ ssh' = "error"
  /\ tunnel' = IF tunnel = "connecting" THEN "failed" ELSE tunnel
  /\ UNCHANGED <<listening, sock, connections>>

(* A connection is accepted, and tracked by the listener of the            *)
(* constructor.                                                            *)
Accept(s) ==
  /\ listening /\ sock[s] = "none"
  /\ sock' = [sock EXCEPT ![s] = "accepted"]
  /\ connections' = IF tunnel = "open" THEN connections \cup {s} ELSE connections
  /\ UNCHANGED <<tunnel, listening, ssh>>

(* forwardOut() gives a stream, or an error which destroys the socket.     *)
Forward(s) ==
  /\ sock[s] = "accepted" /\ ssh = "ready"
  /\ sock' = [sock EXCEPT ![s] = "piped"]
  /\ UNCHANGED <<tunnel, listening, ssh, connections>>

SocketCloses(s) ==
  /\ sock[s] \in {"accepted", "piped"}
  /\ sock' = [sock EXCEPT ![s] = "closed"]
  /\ connections' = connections \ {s}
  /\ UNCHANGED <<tunnel, listening, ssh>>

Destroyed == connections

CloseTunnel ==
  /\ tunnel = "open"
  /\ tunnel' = "closing" /\ ssh' = "destroyed" /\ listening' = FALSE
  /\ sock' = [s \in Sockets |-> IF s \in Destroyed THEN "closed" ELSE sock[s]]
  /\ connections' = connections \ Destroyed

ServerCloses ==
  /\ tunnel = "closing"
  /\ \A s \in Sockets : sock[s] \in {"none", "closed"}
  /\ tunnel' = "closed"
  /\ UNCHANGED <<listening, ssh, sock, connections>>

TunnelNext ==
  \/ Create \/ Ready \/ SshErrors \/ CloseTunnel \/ ServerCloses
  \/ \E s \in Sockets : Accept(s) \/ Forward(s) \/ SocketCloses(s)
-----------------------------------------------------------------------------
(* Connections that came before the tunnel was ready.                      *)
Untracked == {s \in Sockets : sock[s] \in {"accepted", "piped"}} \ connections
=============================================================================
