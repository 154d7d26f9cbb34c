-------------------------- MODULE TcpConnections --------------------------
(***************************************************************************)
(* The connections between the executable (the host) and the backend, as   *)
(* the sockets' users see them.  What is sent arrives in order, and one    *)
(* receive returns any part of what has arrived: the pieces in transit are *)
(* the header and the body of a POST, and the line "HTTP/1.1 200 OK".  A   *)
(* header or a body on its own is received in one piece.                   *)
(***************************************************************************)
EXTENDS Naturals, Sequences, FiniteSets

CONSTANTS MaxConnections,  \* how many connections can be made in a run
          WebRequest,      \* visitors that post the form of the backend's home page
          None             \* nobody, no connection

ASSUME MaxConnectionsAssumption == MaxConnections \in Nat

\* The connections, in the order in which they are made.
Connection == 1 .. MaxConnections

ASSUME NoneAssumption == None \notin Connection \cup WebRequest

ASSUME WebRequestAssumption == IsFiniteSet(WebRequest)

\* A piece in transit; of is the visitor a POST to the host is about.
Piece == [part : {"header", "body", "ok"}, of : WebRequest \cup {None}]
Header(w) == [part |-> "header", of |-> w]
Body(w) == [part |-> "body", of |-> w]
Ok == [part |-> "ok", of |-> None]

VARIABLE connection  \* each connection: its two directions, its two ends, and
                     \* whether the network has dropped it

Unused == [toHost |-> <<>>, toBackend |-> <<>>,
           host |-> "none", backend |-> "none", broken |-> FALSE]

ConnectionTypeOK ==
    connection \in [Connection ->
        [toHost : Seq(Piece), toBackend : Seq(Piece),
         host : {"none", "open", "closed"}, backend : {"none", "open", "closed"},
         broken : BOOLEAN]]

-----------------------------------------------------------------------------
(* The host's end *)

HostLost(k) == connection[k].broken \/ connection[k].backend = "closed"

\* send() succeeds; what is sent on a connection that is lost vanishes.
HostSends(k, piece) ==
    connection' = IF HostLost(k) THEN connection
                  ELSE [connection EXCEPT ![k].toBackend = Append(@, piece)]

\* recv() returns the first n pieces.
HostReceives(k, n) ==
    /\ n \in 1 .. Len(connection[k].toHost)
    /\ connection' = [connection EXCEPT ![k].toHost = SubSeq(@, n + 1, Len(@))]

\* recv() returns 0 or an error.
HostReceivesNothing(k) == connection[k].toHost = <<>> /\ HostLost(k)

-----------------------------------------------------------------------------
(* The backend's end *)

Disposed(k) == connection[k].backend = "closed"

BackendLost(k) == connection[k].broken \/ connection[k].host = "closed"

BackendSends(k, pieces) ==
    /\ ~Disposed(k)
    /\ connection' = IF BackendLost(k) THEN connection
                     ELSE [connection EXCEPT ![k].toHost = @ \o pieces]

\* Send throws: certainly on a disposed socket, possibly on a lost connection.
BackendSendThrows(k) == Disposed(k) \/ BackendLost(k)

BackendReceives(k, n) ==
    /\ ~Disposed(k)
    /\ n \in 1 .. Len(connection[k].toBackend)
    /\ connection' = [connection EXCEPT ![k].toBackend = SubSeq(@, n + 1, Len(@))]

\* Receive returns 0 bytes ...
BackendReceivesNothing(k) ==
    ~Disposed(k) /\ connection[k].toBackend = <<>> /\ BackendLost(k)

\* ... or throws.
BackendReceiveThrows(k) == Disposed(k) \/ BackendReceivesNothing(k)

-----------------------------------------------------------------------------
(* The network *)

\* The connection drops; pieces that have not arrived are lost.
Break(k) ==
    /\ connection[k].host = "open"
    /\ ~connection[k].broken
    /\ \E m \in 0 .. Len(connection[k].toHost), n \in 0 .. Len(connection[k].toBackend) :
          connection' = [connection EXCEPT
              ![k].broken = TRUE,
              ![k].toHost = SubSeq(@, 1, m),
              ![k].toBackend = SubSeq(@, 1, n)]

=============================================================================
