------------------------------ MODULE Backend ------------------------------
(***************************************************************************)
(* The backend server: RegisterConnectionController, which accepts the     *)
(* connections of hosts on pool threads and keeps the dictionary of hosts, *)
(* and HomeController, whose requests run on threads of the web server and *)
(* pass the visitor's address to the host over the host's connection.      *)
(*                                                                         *)
(* One host id is modelled: dictionary entries do not affect each other.   *)
(***************************************************************************)
EXTENDS TcpConnections

VARIABLES
    hostIdentities,  \* the socket the host's id is mapped to, or None
    registered,      \* history: the connections that were registered, in order
    acceptor,        \* the pool thread of each connection
    web              \* each visitor's request: its step, the host's socket it
                     \* read, and (history) whether another request shared it

backendVars == <<hostIdentities, registered, acceptor, web>>

BackendInit ==
    /\ hostIdentities = None
    /\ registered = <<>>
    /\ acceptor = [k \in Connection |-> "none"]
    /\ web = [w \in WebRequest |-> [pc |-> "idle", k |-> None, alone |-> TRUE]]

WebAtWork == {"check", "send", "receive", "redirect", "drop"}

BackendTypeOK ==
    /\ hostIdentities \in Connection \cup {None}
    /\ registered \in Seq(Connection)
    /\ acceptor \in [Connection -> {"none", "receive", "body", "register", "respond",
                                    "drop", "refuse", "spin", "done"}]
    /\ web \in [WebRequest ->
          [pc : WebAtWork \cup {"idle", "redirected", "failed", "served", "rejected"},
           k : Connection \cup {None},
           alone : BOOLEAN]]

\* Mutant: the entry is not removed.
DisposeConnection ==
    /\ connection' = IF hostIdentities = None THEN connection
                     ELSE [connection EXCEPT ![hostIdentities].backend = "closed"]
    /\ UNCHANGED <<hostIdentities, registered>>

\* Mutant: the socket is not disposed.
RemoveConnection == hostIdentities' = None /\ UNCHANGED <<connection, registered>>

\* DropConnection: whatever socket is mapped to the id is disposed.
DropConnection ==
    /\ hostIdentities' = None
    /\ connection' = IF hostIdentities = None THEN connection
                     ELSE [connection EXCEPT ![hostIdentities].backend = "closed"]
    /\ UNCHANGED registered

-----------------------------------------------------------------------------
(* The threads that accept hosts *)

SetAcceptor(k, step) == acceptor' = [acceptor EXCEPT ![k] = step]

RegistryUnchanged == UNCHANGED <<hostIdentities, registered>>

\* Listen: a connection is accepted and given to the pool.
AcceptSocket(k) ==
    /\ acceptor[k] = "none"
    /\ connection[k].host # "none"
    /\ connection' = [connection EXCEPT ![k].backend = "open"]
    /\ SetAcceptor(k, "receive")
    /\ RegistryUnchanged /\ UNCHANGED web

\* IncomingConnection receives the registration: the header, perhaps with its body.
ReceiveHeader(k) ==
    /\ acceptor[k] = "receive"
    /\ \/ \E n \in 1 .. Len(connection[k].toBackend) :
             BackendReceives(k, n) /\ SetAcceptor(k, IF n = 1 THEN "body" ELSE "register")
       \/ BackendReceiveThrows(k) /\ SetAcceptor(k, "refuse") /\ UNCHANGED connection
    /\ RegistryUnchanged /\ UNCHANGED web

\* The loop that completes the body leaves on an exception, but not on 0 bytes.
ReceiveRegistrationBody(k) ==
    /\ acceptor[k] = "body"
    /\ \/ BackendReceives(k, 1) /\ SetAcceptor(k, "register")
       \/ BackendReceiveThrows(k) /\ SetAcceptor(k, "refuse") /\ UNCHANGED connection
       \/ BackendReceivesNothing(k) /\ SetAcceptor(k, "spin") /\ UNCHANGED connection
    /\ RegistryUnchanged /\ UNCHANGED web

\* The host is entered, in place of an older entry, whose socket stays open.
Register(k) ==
    /\ acceptor[k] = "register"
    /\ hostIdentities' = k
    /\ registered' = Append(registered, k)
    /\ SetAcceptor(k, "respond")
    /\ UNCHANGED <<connection, web>>

Respond(k) ==
    /\ acceptor[k] = "respond"
    /\ \/ BackendSends(k, <<Ok>>) /\ SetAcceptor(k, "done")
       \/ BackendSendThrows(k) /\ SetAcceptor(k, "drop") /\ UNCHANGED connection
    /\ RegistryUnchanged /\ UNCHANGED web

DropFailedRegistration(k) ==
    /\ acceptor[k] = "drop"
    /\ DropConnection
    /\ SetAcceptor(k, "done")
    /\ UNCHANGED web

\* RefuseConnection: the answer 400, which nothing waits for, and Dispose.
RefuseConnection(k) ==
    /\ acceptor[k] = "refuse"
    /\ connection' = [connection EXCEPT ![k].backend = "closed"]
    /\ SetAcceptor(k, "done")
    /\ RegistryUnchanged /\ UNCHANGED web

AcceptorStep(k) ==
    \/ AcceptSocket(k)
    \/ ReceiveHeader(k)
    \/ ReceiveRegistrationBody(k)
    \/ Register(k)
    \/ Respond(k)
    \/ DropFailedRegistration(k)
    \/ RefuseConnection(k)

-----------------------------------------------------------------------------
(* The web server's threads *)

SetWeb(w, pc) == web' = [web EXCEPT ![w].pc = pc]

\* The visitors' requests that use connection k now.
Using(k) == {w \in WebRequest : web[w].k = k /\ web[w].pc \in WebAtWork}

\* Index looks the host up and calls SendClientIP with its model.
FindHost(w) ==
    /\ web[w].pc = "idle"
    /\ web' = IF hostIdentities = None
              THEN [web EXCEPT ![w].pc = "failed"]
              ELSE LET users == Using(hostIdentities) \cup {w} IN
                   [v \in WebRequest |->
                       IF v \notin users THEN web[v]
                       ELSE [pc |-> IF v = w THEN "check" ELSE web[v].pc,
                             k |-> hostIdentities,
                             alone |-> web[v].alone /\ Cardinality(users) = 1]]
    /\ RegistryUnchanged /\ UNCHANGED <<connection, acceptor>>

\* Socket.Connected tells of the last operation: a connection that is lost may
\* still count as connected.
CheckConnected(w) ==
    /\ web[w].pc = "check"
    /\ \/ ~Disposed(web[w].k) /\ SetWeb(w, "send")
       \/ BackendSendThrows(web[w].k) /\ SetWeb(w, "drop")
    /\ RegistryUnchanged /\ UNCHANGED <<connection, acceptor>>

SendClientIP(w) ==
    /\ web[w].pc = "send"
    /\ \/ BackendSends(web[w].k, <<Header(w), Body(w)>>) /\ SetWeb(w, "receive")
       \/ BackendSendThrows(web[w].k) /\ SetWeb(w, "drop") /\ UNCHANGED connection
    /\ RegistryUnchanged /\ UNCHANGED acceptor

\* Mutant: any return of Receive is an answer.
ReceiveAnything(w) ==
    /\ web[w].pc = "receive"
    /\ \/ \E n \in 1 .. Len(connection[web[w].k].toBackend) :
             BackendReceives(web[w].k, n) /\ SetWeb(w, "redirect")
       \/ BackendReceivesNothing(web[w].k) /\ SetWeb(w, "redirect") /\ UNCHANGED connection
    /\ RegistryUnchanged /\ UNCHANGED acceptor

\* Whoever receives first takes all that has arrived.  0 bytes are not an answer,
\* but not an exception either.
ReceiveAnswer(w) ==
    /\ web[w].pc = "receive"
    /\ \/ \E n \in 1 .. Len(connection[web[w].k].toBackend) :
             /\ BackendReceives(web[w].k, n)
             /\ SetWeb(w, IF connection[web[w].k].toBackend[1] = Ok
                          THEN "redirect" ELSE "failed")
       \/ BackendReceivesNothing(web[w].k) /\ SetWeb(w, "failed") /\ UNCHANGED connection
       \/ BackendReceiveThrows(web[w].k) /\ SetWeb(w, "drop") /\ UNCHANGED connection
    /\ RegistryUnchanged /\ UNCHANGED acceptor

\* The redirection names the socket's remote end; a disposed socket has none.
RedirectVisitor(w) ==
    /\ web[w].pc = "redirect"
    /\ SetWeb(w, IF Disposed(web[w].k) THEN "failed" ELSE "redirected")
    /\ RegistryUnchanged /\ UNCHANGED <<connection, acceptor>>

DropHost(w) ==
    /\ web[w].pc = "drop"
    /\ DropConnection
    /\ SetWeb(w, "failed")
    /\ UNCHANGED acceptor

WebStep(w) ==
    \/ CheckConnected(w)
    \/ SendClientIP(w)
    \/ ReceiveAnswer(w)
    \/ RedirectVisitor(w)
    \/ DropHost(w)

=============================================================================
