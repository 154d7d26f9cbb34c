--------------------------- MODULE HostConnection ---------------------------
(***************************************************************************)
(* The executable: the loop of wWinMain, which connects to the backend     *)
(* again and again, and ClientServerConnection::Create, which registers    *)
(* the host, listens, and puts the visitors the backend names on the       *)
(* listener's whitelist.                                                   *)
(***************************************************************************)
EXTENDS TcpConnections

VARIABLES
    host,         \* the main thread's step, its connection and the visitor it was told of
    whitelist,    \* m_IpWhitelist of the listener; empty without a listener
    acknowledged  \* history: the visitors whitelisted over each connection

hostVars == <<host, whitelist, acknowledged>>

HostInit ==
    /\ host = [pc |-> "connect", k |-> None, client |-> None]
    /\ whitelist = {}
    /\ acknowledged = [k \in Connection |-> {}]

HostTypeOK ==
    /\ host \in [pc : {"connect", "postHeader", "postBody", "response", "receive",
                       "body", "whitelist", "reply", "close", "spin"},
                 k : Connection \cup {None},
                 client : WebRequest \cup {None}]
    /\ whitelist \subseteq WebRequest
    /\ acknowledged \in [Connection -> SUBSET WebRequest]

\* The host is at a step of its connection k.
HostAt(pc, k) == host.pc = pc /\ host.k = k

HostGoto(pc) == host' = [host EXCEPT !.pc = pc]

\* Client::Connect; an attempt that fails is one more turn of the loop.
ConnectToBackend(k) ==
    /\ host.pc = "connect"
    /\ connection[k] = Unused
    /\ \A j \in 1 .. k - 1 : connection[j] # Unused
    /\ connection' = [connection EXCEPT ![k].host = "open"]
    /\ host' = [pc |-> "postHeader", k |-> k, client |-> None]
    /\ UNCHANGED <<whitelist, acknowledged>>

\* SendPostRequest sends the header; if that fails the body is not sent.  Nobody
\* is told.
PostHeader(k) ==
    /\ HostAt("postHeader", k)
    /\ \/ HostSends(k, Header(None)) /\ HostGoto("postBody")
       \/ HostLost(k) /\ HostGoto("response") /\ UNCHANGED connection
    /\ UNCHANGED <<whitelist, acknowledged>>

PostBody(k) ==
    /\ HostAt("postBody", k)
    /\ \/ HostSends(k, Body(None))
       \/ HostLost(k) /\ UNCHANGED connection
    /\ HostGoto("response")
    /\ UNCHANGED <<whitelist, acknowledged>>

\* ReceiveResponse looks at the beginning of what it receives and drops the rest.
\* The listener starts with an empty whitelist.
ReceiveResponse(k) ==
    /\ HostAt("response", k)
    /\ \/ \E n \in 1 .. Len(connection[k].toHost) :
             /\ HostReceives(k, n)
             /\ HostGoto(IF connection[k].toHost[1] = Ok THEN "receive" ELSE "close")
       \/ HostReceivesNothing(k) /\ HostGoto("close") /\ UNCHANGED connection
    /\ UNCHANGED <<whitelist, acknowledged>>

\* Mutant: a header is taken for the whole request.
ReceiveHeaderOnly(k) ==
    /\ HostAt("receive", k)
    /\ \/ \E n \in 1 .. Len(connection[k].toHost) :
             HostReceives(k, n) /\ HostGoto("whitelist")
       \/ HostReceivesNothing(k) /\ HostGoto("close") /\ UNCHANGED connection
    /\ UNCHANGED <<whitelist, acknowledged>>

\* Mutant: a receive that fails is tried again.
ReceivePostAgain(k) ==
    /\ HostAt("receive", k)
    /\ \E n \in 2 .. Len(connection[k].toHost) :
          /\ HostReceives(k, n)
          /\ host' = [host EXCEPT !.pc = "whitelist", !.client = connection[k].toHost[2].of]
    /\ UNCHANGED <<whitelist, acknowledged>>

\* RequestParser::Parse: what does not begin with a header is refused, a body that
\* came with it is taken, and what came after the body is dropped.
ReceivePost(k) ==
    /\ HostAt("receive", k)
    /\ LET arrived == connection[k].toHost IN
       \/ \E n \in 1 .. Len(arrived) :
             /\ HostReceives(k, n)
             /\ host' = CASE arrived[1].part # "header" -> [host EXCEPT !.pc = "close"]
                          [] arrived[1].part = "header" /\ n = 1 ->
                                [host EXCEPT !.pc = "body"]
                          [] OTHER ->
                                [host EXCEPT !.pc = "whitelist", !.client = arrived[2].of]
       \/ HostReceivesNothing(k) /\ HostGoto("close") /\ UNCHANGED connection
    /\ UNCHANGED <<whitelist, acknowledged>>

\* ParseBody asks for what is missing until nothing is: a receive that returns 0
\* or an error brings it no nearer to the end, and nothing will.
ReceiveBody(k) ==
    /\ HostAt("body", k)
    /\ \/ /\ HostReceives(k, 1)
          /\ host' = [host EXCEPT !.pc = "whitelist", !.client = connection[k].toHost[1].of]
       \/ HostReceivesNothing(k) /\ HostGoto("spin") /\ UNCHANGED connection
    /\ UNCHANGED <<whitelist, acknowledged>>

\* Mutant: a visitor takes the place of the others.
ReplaceWhitelist(k) ==
    /\ HostAt("whitelist", k)
    /\ whitelist' = {host.client}
    /\ acknowledged' = [acknowledged EXCEPT ![k] = @ \cup {host.client}]
    /\ HostGoto("reply")
    /\ UNCHANGED connection

\* The address, which came from the web server and is valid, is whitelisted.
WhitelistIP(k) ==
    /\ HostAt("whitelist", k)
    /\ whitelist' = whitelist \cup {host.client}
    /\ acknowledged' = [acknowledged EXCEPT ![k] = @ \cup {host.client}]
    /\ HostGoto("reply")
    /\ UNCHANGED connection

\* Mutant: nothing is answered.
SendNoResponse(k) ==
    /\ HostAt("reply", k)
    /\ HostGoto("receive")
    /\ UNCHANGED <<connection, whitelist, acknowledged>>

\* SendResponse does not look at what send() returns.
SendResponse(k) ==
    /\ HostAt("reply", k)
    /\ HostSends(k, Ok) \/ (HostLost(k) /\ UNCHANGED connection)
    /\ HostGoto("receive")
    /\ UNCHANGED <<whitelist, acknowledged>>

\* Create returns: the listener is stopped, then Connect closes the socket.
CloseConnection(k) ==
    /\ HostAt("close", k)
    /\ connection' = [connection EXCEPT ![k].host = "closed"]
    /\ host' = [pc |-> "connect", k |-> None, client |-> None]
    /\ whitelist' = {}
    /\ UNCHANGED acknowledged

HostStep(k) ==
    \/ ConnectToBackend(k)
    \/ PostHeader(k)
    \/ PostBody(k)
    \/ ReceiveResponse(k)
    \/ ReceivePost(k)
    \/ ReceiveBody(k)
    \/ WhitelistIP(k)
    \/ SendResponse(k)
    \/ CloseConnection(k)

=============================================================================
