------------------------- MODULE RegistrationProofs -------------------------
(***************************************************************************)
(* The safety properties of Registration for any number of connections,    *)
(* visitors and breaks: every action keeps the inductive invariant, which  *)
(* implies them.                                                           *)
(***************************************************************************)
EXTENDS RegistrationInvariant, FiniteSetTheorems, TLAPS

-----------------------------------------------------------------------------
(* Sequences of pieces *)

\* What is left of a sequence when its first n pieces were received.
LEMMA Rest ==
    ASSUME NEW s \in Seq(Piece), NEW n \in 1 .. Len(s)
    PROVE  /\ SubSeq(s, n + 1, Len(s)) \in Seq(Piece)
           /\ Len(SubSeq(s, n + 1, Len(s))) = Len(s) - n
           /\ \A i \in 1 .. Len(s) - n : SubSeq(s, n + 1, Len(s))[i] = s[i + n]
OBVIOUS

\* What has arrived of a sequence when the connection breaks.
LEMMA Beginning ==
    ASSUME NEW s \in Seq(Piece), NEW n \in 0 .. Len(s)
    PROVE  /\ SubSeq(s, 1, n) \in Seq(Piece)
           /\ Len(SubSeq(s, 1, n)) = n
           /\ \A i \in 1 .. n : SubSeq(s, 1, n)[i] = s[i]
OBVIOUS

\* What one more piece makes of a sequence.
LEMMA Grown ==
    ASSUME NEW s \in Seq(Piece), NEW piece \in Piece
    PROVE  Append(s, piece) \in Seq(Piece) /\ Len(Append(s, piece)) = Len(s) + 1
OBVIOUS

\* Everything that is sent is a piece.
LEMMA Pieces ==
    Ok \in Piece /\ \A w \in WebRequest \cup {None} : Header(w) \in Piece /\ Body(w) \in Piece
BY DEF Ok, Header, Body, Piece

-----------------------------------------------------------------------------
(* What the operations on connections and threads change *)

\* The ends of every connection and the network between them stay as they are.
EndsUnchanged ==
    \A j \in Connection :
        UNCHANGED <<connection[j].host, connection[j].backend, connection[j].broken>>

ConnectionState ==
    [toHost : Seq(Piece), toBackend : Seq(Piece),
     host : {"none", "open", "closed"}, backend : {"none", "open", "closed"},
     broken : BOOLEAN]

\* A connection gets a new state of the right type.
LEMMA StateUpdate ==
    ASSUME ConnectionTypeOK, NEW k \in Connection, NEW c \in ConnectionState,
           connection' = [j \in Connection |-> connection'[j]],
           connection'[k] = c,
           \A j \in Connection \ {k} : connection'[j] = connection[j]
    PROVE  ConnectionTypeOK'
<1>1. \A j \in Connection : connection'[j] \in ConnectionState
  BY DEF ConnectionTypeOK, ConnectionState
<1> QED BY <1>1 DEF ConnectionTypeOK, ConnectionState

\* The pieces in one or the other direction of connection k change.
LEMMA PiecesUpdate ==
    ASSUME ConnectionTypeOK, NEW k \in Connection,
           NEW toHost \in Seq(Piece), NEW toBackend \in Seq(Piece),
           connection' = [j \in Connection |-> connection'[j]],
           connection'[k] = [toHost |-> toHost, toBackend |-> toBackend,
                             host |-> connection[k].host, backend |-> connection[k].backend,
                             broken |-> connection[k].broken],
           \A j \in Connection \ {k} : connection'[j] = connection[j]
    PROVE  /\ ConnectionTypeOK' /\ EndsUnchanged
           /\ \A j \in Connection :
                 /\ connection'[j].toHost = IF j = k THEN toHost ELSE connection[j].toHost
                 /\ connection'[j].toBackend = IF j = k THEN toBackend ELSE connection[j].toBackend
<1>1. connection'[k] \in ConnectionState
  BY DEF ConnectionTypeOK, ConnectionState
<1> QED BY <1>1, StateUpdate DEF EndsUnchanged

\* The host sent one piece, which vanishes if the connection is lost.
LEMMA HostSendsEffect ==
    ASSUME ConnectionTypeOK, NEW k \in Connection, NEW piece \in Piece, HostSends(k, piece)
    PROVE  /\ ConnectionTypeOK' /\ EndsUnchanged
           /\ \A j \in Connection :
                 /\ connection'[j].toHost = connection[j].toHost
                 /\ connection'[j].toBackend =
                       IF j = k /\ ~HostLost(k) THEN Append(connection[j].toBackend, piece)
                       ELSE connection[j].toBackend
<1>1. CASE HostLost(k)
  BY <1>1 DEF ConnectionTypeOK, HostSends, EndsUnchanged
<1>2. CASE ~HostLost(k)
  <2> DEFINE pieces == Append(connection[k].toBackend, piece)
  <2>1. connection[k].toHost \in Seq(Piece) /\ pieces \in Seq(Piece)
    BY DEF ConnectionTypeOK
  <2>2. connection' = [connection EXCEPT ![k].toBackend = pieces]
    BY <1>2 DEF HostSends
  <2> HIDE DEF pieces
  <2>3. /\ connection' = [j \in Connection |-> connection'[j]]
        /\ \A j \in Connection \ {k} : connection'[j] = connection[j]
    BY <2>2 DEF ConnectionTypeOK
  <2>4. connection'[k] = [toHost |-> connection[k].toHost, toBackend |-> pieces,
                          host |-> connection[k].host, backend |-> connection[k].backend,
                          broken |-> connection[k].broken]
    BY <2>2 DEF ConnectionTypeOK
  <2>5. /\ ConnectionTypeOK' /\ EndsUnchanged
        /\ \A j \in Connection :
              /\ connection'[j].toHost = connection[j].toHost
              /\ connection'[j].toBackend = IF j = k THEN pieces ELSE connection[j].toBackend
    BY <2>1, <2>3, <2>4, PiecesUpdate
  <2> QED BY <1>2, <2>5 DEF pieces
<1> QED BY <1>1, <1>2

\* The same when a send that fails is passed over.
LEMMA HostSendsOrNot ==
    ASSUME ConnectionTypeOK, NEW k \in Connection, NEW piece \in Piece,
           HostSends(k, piece) \/ (HostLost(k) /\ UNCHANGED connection)
    PROVE  /\ ConnectionTypeOK' /\ EndsUnchanged
           /\ \A j \in Connection :
                 /\ connection'[j].toHost = connection[j].toHost
                 /\ connection'[j].toBackend =
                       IF j = k /\ ~HostLost(k) THEN Append(connection[j].toBackend, piece)
                       ELSE connection[j].toBackend
<1>1. CASE HostLost(k) /\ UNCHANGED connection
  BY <1>1 DEF ConnectionTypeOK, EndsUnchanged
<1> QED BY <1>1, HostSendsEffect

\* The host received the first n pieces of connection k.
Received(k, n) ==
    /\ ConnectionTypeOK' /\ EndsUnchanged
    /\ \A j \in Connection :
          /\ UNCHANGED connection[j].toBackend
          /\ j # k => UNCHANGED connection[j].toHost
    /\ n \in 1 .. Len(connection[k].toHost)
    /\ Len(connection'[k].toHost) = Len(connection[k].toHost) - n
    /\ \A i \in DOMAIN connection'[k].toHost :
          i + n \in DOMAIN connection[k].toHost
          /\ connection'[k].toHost[i] = connection[k].toHost[i + n]

\* recv() of the host, as Received says.
LEMMA HostReceivesEffect ==
    ASSUME ConnectionTypeOK, NEW k \in Connection, NEW n, HostReceives(k, n)
    PROVE  Received(k, n)
<1> DEFINE pieces == SubSeq(connection[k].toHost, n + 1, Len(connection[k].toHost))
<1>1. n \in 1 .. Len(connection[k].toHost) /\ connection' = [connection EXCEPT ![k].toHost = pieces]
  BY DEF HostReceives
<1>2. connection[k].toHost \in Seq(Piece) /\ connection[k].toBackend \in Seq(Piece)
  BY DEF ConnectionTypeOK
<1>3. /\ pieces \in Seq(Piece)
      /\ Len(pieces) = Len(connection[k].toHost) - n
      /\ \A i \in 1 .. Len(connection[k].toHost) - n : pieces[i] = connection[k].toHost[i + n]
  BY <1>1, <1>2, Rest
<1> HIDE DEF pieces
<1>4. /\ connection' = [j \in Connection |-> connection'[j]]
      /\ \A j \in Connection \ {k} : connection'[j] = connection[j]
  BY <1>1 DEF ConnectionTypeOK
<1>5. connection'[k] = [toHost |-> pieces, toBackend |-> connection[k].toBackend,
                        host |-> connection[k].host, backend |-> connection[k].backend,
                        broken |-> connection[k].broken]
  BY <1>1 DEF ConnectionTypeOK
<1>6. /\ ConnectionTypeOK' /\ EndsUnchanged
      /\ \A j \in Connection :
            /\ connection'[j].toBackend = connection[j].toBackend
            /\ connection'[j].toHost = IF j = k THEN pieces ELSE connection[j].toHost
  BY <1>2, <1>3, <1>4, <1>5, PiecesUpdate
<1>7. connection'[k].toHost = pieces
  BY <1>6
<1>8. Len(connection'[k].toHost) = Len(connection[k].toHost) - n
  BY <1>3, <1>7
<1>9. ASSUME NEW i \in DOMAIN connection'[k].toHost
      PROVE  i + n \in DOMAIN connection[k].toHost
             /\ connection'[k].toHost[i] = connection[k].toHost[i + n]
  <2>1. i \in 1 .. Len(connection[k].toHost) - n
    BY <1>3, <1>7
  <2> QED BY <2>1, <1>1, <1>2, <1>3, <1>7
<1> QED BY <1>1, <1>6, <1>8, <1>9 DEF Received

\* The backend sent some pieces, which vanish if the connection is lost.
LEMMA BackendSendsEffect ==
    ASSUME ConnectionTypeOK, NEW k \in Connection, NEW sent \in Seq(Piece),
           BackendSends(k, sent)
    PROVE  /\ ConnectionTypeOK' /\ EndsUnchanged
           /\ \A j \in Connection :
                 /\ connection'[j].toBackend = connection[j].toBackend
                 /\ connection'[j].toHost =
                       IF j = k /\ ~BackendLost(k) THEN connection[j].toHost \o sent
                       ELSE connection[j].toHost
<1>1. CASE BackendLost(k)
  BY <1>1 DEF ConnectionTypeOK, BackendSends, EndsUnchanged
<1>2. CASE ~BackendLost(k)
  <2> DEFINE pieces == connection[k].toHost \o sent
  <2>1. connection[k].toBackend \in Seq(Piece) /\ pieces \in Seq(Piece)
    BY DEF ConnectionTypeOK
  <2>2. connection' = [connection EXCEPT ![k].toHost = pieces]
    BY <1>2 DEF BackendSends
  <2> HIDE DEF pieces
  <2>3. /\ connection' = [j \in Connection |-> connection'[j]]
        /\ \A j \in Connection \ {k} : connection'[j] = connection[j]
    BY <2>2 DEF ConnectionTypeOK
  <2>4. connection'[k] = [toHost |-> pieces, toBackend |-> connection[k].toBackend,
                          host |-> connection[k].host, backend |-> connection[k].backend,
                          broken |-> connection[k].broken]
    BY <2>2 DEF ConnectionTypeOK
  <2>5. /\ ConnectionTypeOK' /\ EndsUnchanged
        /\ \A j \in Connection :
              /\ connection'[j].toBackend = connection[j].toBackend
              /\ connection'[j].toHost = IF j = k THEN pieces ELSE connection[j].toHost
    BY <2>1, <2>3, <2>4, PiecesUpdate
  <2> QED BY <1>2, <2>5 DEF pieces
<1> QED BY <1>1, <1>2

\* The backend received the first n pieces.
LEMMA BackendReceivesEffect ==
    ASSUME ConnectionTypeOK, NEW k \in Connection, NEW n, BackendReceives(k, n)
    PROVE  /\ ConnectionTypeOK' /\ EndsUnchanged
           /\ \A j \in Connection :
                 /\ connection'[j].toHost = connection[j].toHost
                 /\ j # k => connection'[j].toBackend = connection[j].toBackend
           /\ Len(connection'[k].toBackend) = Len(connection[k].toBackend) - n
<1> DEFINE pieces == SubSeq(connection[k].toBackend, n + 1, Len(connection[k].toBackend))
<1>1. n \in 1 .. Len(connection[k].toBackend) /\ connection' = [connection EXCEPT ![k].toBackend = pieces]
  BY DEF BackendReceives
<1>2. connection[k].toHost \in Seq(Piece) /\ connection[k].toBackend \in Seq(Piece)
  BY DEF ConnectionTypeOK
<1>3. pieces \in Seq(Piece) /\ Len(pieces) = Len(connection[k].toBackend) - n
  BY <1>1, <1>2, Rest
<1> HIDE DEF pieces
<1>4. /\ connection' = [j \in Connection |-> connection'[j]]
      /\ \A j \in Connection \ {k} : connection'[j] = connection[j]
  BY <1>1 DEF ConnectionTypeOK
<1>5. connection'[k] = [toHost |-> connection[k].toHost, toBackend |-> pieces,
                        host |-> connection[k].host, backend |-> connection[k].backend,
                        broken |-> connection[k].broken]
  BY <1>1 DEF ConnectionTypeOK
<1>6. /\ ConnectionTypeOK' /\ EndsUnchanged
      /\ \A j \in Connection :
            /\ connection'[j].toHost = connection[j].toHost
            /\ connection'[j].toBackend = IF j = k THEN pieces ELSE connection[j].toBackend
  BY <1>2, <1>3, <1>4, <1>5, PiecesUpdate
<1> QED BY <1>3, <1>6

\* What a connection that breaks keeps: a beginning of what was on its way.
LEMMA BreakEffect ==
    ASSUME ConnectionTypeOK, NEW k \in Connection, Break(k)
    PROVE  /\ ConnectionTypeOK'
           /\ \A j \in Connection :
                 /\ UNCHANGED <<connection[j].host, connection[j].backend>>
                 /\ connection'[j].broken = (connection[j].broken \/ j = k)
                 /\ j # k => UNCHANGED <<connection[j].toHost, connection[j].toBackend>>
                 /\ Len(connection'[j].toBackend) <= Len(connection[j].toBackend)
                 /\ Len(connection'[j].toHost) <= Len(connection[j].toHost)
                 /\ \A i \in DOMAIN connection'[j].toHost :
                       connection'[j].toHost[i] = connection[j].toHost[i]
<1>1. PICK m \in 0 .. Len(connection[k].toHost), n \in 0 .. Len(connection[k].toBackend) :
          connection' = [connection EXCEPT
              ![k].broken = TRUE,
              ![k].toHost = SubSeq(@, 1, m),
              ![k].toBackend = SubSeq(@, 1, n)]
  BY DEF Break
<1>2. connection'[k] = [toHost |-> SubSeq(connection[k].toHost, 1, m),
                        toBackend |-> SubSeq(connection[k].toBackend, 1, n),
                        host |-> connection[k].host, backend |-> connection[k].backend,
                        broken |-> TRUE]
  BY <1>1 DEF ConnectionTypeOK
<1>3. \A j \in Connection \ {k} : connection'[j] = connection[j]
  BY <1>1 DEF ConnectionTypeOK
<1>4. /\ SubSeq(connection[k].toHost, 1, m) \in Seq(Piece)
      /\ Len(SubSeq(connection[k].toHost, 1, m)) = m
      /\ \A i \in 1 .. m : SubSeq(connection[k].toHost, 1, m)[i] = connection[k].toHost[i]
  BY Beginning DEF ConnectionTypeOK
<1>5. /\ SubSeq(connection[k].toBackend, 1, n) \in Seq(Piece)
      /\ Len(SubSeq(connection[k].toBackend, 1, n)) = n
  BY Beginning DEF ConnectionTypeOK
<1>6. ConnectionTypeOK'
  <2>1. connection'[k] \in ConnectionState
    BY <1>2, <1>4, <1>5 DEF ConnectionTypeOK, ConnectionState
  <2>2. \A j \in Connection : connection'[j] \in ConnectionState
    BY <1>3, <2>1 DEF ConnectionTypeOK, ConnectionState
  <2>3. connection' = [j \in Connection |-> connection'[j]]
    BY <1>1 DEF ConnectionTypeOK
  <2> QED BY <2>2, <2>3 DEF ConnectionTypeOK, ConnectionState
<1>7. ASSUME NEW j \in Connection
      PROVE  /\ UNCHANGED <<connection[j].host, connection[j].backend>>
             /\ connection'[j].broken = (connection[j].broken \/ j = k)
             /\ j # k => UNCHANGED <<connection[j].toHost, connection[j].toBackend>>
             /\ Len(connection'[j].toBackend) <= Len(connection[j].toBackend)
             /\ Len(connection'[j].toHost) <= Len(connection[j].toHost)
             /\ \A i \in DOMAIN connection'[j].toHost :
                   connection'[j].toHost[i] = connection[j].toHost[i]
  <2>1. CASE j = k
    <3>1. Len(connection[k].toHost) \in Nat /\ Len(connection[k].toBackend) \in Nat
      BY DEF ConnectionTypeOK
    <3>2. /\ UNCHANGED <<connection[k].host, connection[k].backend>>
          /\ connection'[k].broken = TRUE
          /\ connection'[k].toHost = SubSeq(connection[k].toHost, 1, m)
          /\ connection'[k].toBackend = SubSeq(connection[k].toBackend, 1, n)
      BY <1>2
    <3>3. connection'[j].broken = (connection[j].broken \/ j = k)
      BY <2>1, <3>2
    <3> QED BY <2>1, <3>1, <3>2, <3>3, <1>4, <1>5
  <2>2. CASE j # k
    <3>1. connection'[j] = connection[j]
      BY <1>3, <2>2
    <3>2. Len(connection[j].toHost) \in Nat /\ Len(connection[j].toBackend) \in Nat
          /\ connection[j].broken \in BOOLEAN
      BY DEF ConnectionTypeOK
    <3> QED BY <2>2, <3>1, <3>2
  <2> QED BY <2>1, <2>2
<1> QED BY <1>6, <1>7

\* One end of a connection is opened or closed.
LEMMA EndEffect ==
    ASSUME ConnectionTypeOK, NEW k \in Connection,
           NEW state \in {"none", "open", "closed"},
           \/ connection' = [connection EXCEPT ![k].host = state]
           \/ connection' = [connection EXCEPT ![k].backend = state]
    PROVE  /\ ConnectionTypeOK'
           /\ \A j \in Connection :
                 UNCHANGED <<connection[j].toHost, connection[j].toBackend, connection[j].broken>>
<1>1. /\ connection' = [j \in Connection |-> connection'[j]]
      /\ \A j \in Connection \ {k} : connection'[j] = connection[j]
  BY DEF ConnectionTypeOK
<1>2. connection[k] \in ConnectionState
  BY DEF ConnectionTypeOK, ConnectionState
<1>3. /\ connection'[k] \in ConnectionState
      /\ UNCHANGED <<connection[k].toHost, connection[k].toBackend, connection[k].broken>>
  <2>1. CASE connection' = [connection EXCEPT ![k].host = state]
    <3>1. connection'[k] = [toHost |-> connection[k].toHost, toBackend |-> connection[k].toBackend,
                            host |-> state, backend |-> connection[k].backend,
                            broken |-> connection[k].broken]
      BY <2>1 DEF ConnectionTypeOK
    <3> QED BY <1>2, <3>1 DEF ConnectionState
  <2>2. CASE connection' = [connection EXCEPT ![k].backend = state]
    <3>1. connection'[k] = [toHost |-> connection[k].toHost, toBackend |-> connection[k].toBackend,
                            host |-> connection[k].host, backend |-> state,
                            broken |-> connection[k].broken]
      BY <2>2 DEF ConnectionTypeOK
    <3> QED BY <1>2, <3>1 DEF ConnectionState
  <2> QED BY <2>1, <2>2
<1>4. ConnectionTypeOK'
  BY <1>1, <1>3, StateUpdate
<1> QED BY <1>1, <1>3, <1>4

\* DropConnection closes the backend's end of the registered connection alone.
LEMMA DropEffect ==
    ASSUME ConnectionTypeOK, hostIdentities \in Connection \cup {None}, DropConnection
    PROVE  /\ ConnectionTypeOK' /\ hostIdentities' = None
           /\ \A j \in Connection :
                 /\ UNCHANGED <<connection[j].toHost, connection[j].toBackend,
                                connection[j].host, connection[j].broken>>
                 /\ connection'[j].backend =
                       IF j = hostIdentities THEN "closed" ELSE connection[j].backend
BY NoneAssumption DEF ConnectionTypeOK, DropConnection

\* The three parts of host after a step that moves its thread only.
LEMMA HostGotoEffect ==
    ASSUME HostTypeOK, NEW pc, HostGoto(pc)
    PROVE  host' = [pc |-> pc, k |-> host.k, client |-> host.client]
BY DEF HostTypeOK, HostGoto

\* Only the thread of connection k goes on.
LEMMA AcceptorEffect ==
    ASSUME BackendTypeOK, NEW k \in Connection, NEW step, SetAcceptor(k, step)
    PROVE  \A j \in Connection : acceptor'[j] = IF j = k THEN step ELSE acceptor[j]
BY DEF BackendTypeOK, SetAcceptor

\* Only visitor w's request goes on.
LEMMA WebEffect ==
    ASSUME BackendTypeOK, NEW w \in WebRequest, NEW pc, SetWeb(w, pc)
    PROVE  \A v \in WebRequest :
               web'[v] = [pc |-> IF v = w THEN pc ELSE web[v].pc,
                          k |-> web[v].k, alone |-> web[v].alone]
BY DEF BackendTypeOK, SetWeb

-----------------------------------------------------------------------------
(* What a step keeps when it leaves most of the state alone *)

\* The types, element by element.
LEMMA Typed ==
    ASSUME TypeOK
    PROVE  /\ host = [pc |-> host.pc, k |-> host.k, client |-> host.client]
           /\ host.k \in Connection \cup {None}
           /\ \A k \in Connection :
                 /\ connection[k].toHost \in Seq(Piece)
                 /\ connection[k].toBackend \in Seq(Piece)
                 /\ Len(connection[k].toBackend) \in Nat
                 /\ connection[k].broken \in BOOLEAN
                 /\ acknowledged[k] \subseteq WebRequest
           /\ \A w \in WebRequest :
                 /\ web[w] = [pc |-> web[w].pc, k |-> web[w].k, alone |-> web[w].alone]
                 /\ web[w].k \in Connection \cup {None}
                 /\ web[w].alone \in BOOLEAN
           /\ hostIdentities \in Connection \cup {None}
           /\ registered \in Seq(Connection)
           /\ \A k : Entered(k) => registered # <<>> /\ k \in Connection
           /\ registered # <<>> =>
                 /\ registered[Len(registered)] \in Connection
                 /\ Entered(registered[Len(registered)])
BY DEF TypeOK, HostTypeOK, BackendTypeOK, ConnectionTypeOK, Entered

\* Both directions of a connection are sequences of pieces ...
LEMMA Sequenced ==
    ASSUME ConnectionTypeOK, NEW k \in Connection
    PROVE  /\ connection[k].toHost \in Seq(Piece) /\ connection[k].toBackend \in Seq(Piece)
           /\ Len(connection[k].toHost) \in Nat /\ Len(connection[k].toBackend) \in Nat
           /\ DOMAIN connection[k].toHost = 1 .. Len(connection[k].toHost)
<1>1. connection[k].toHost \in Seq(Piece) /\ connection[k].toBackend \in Seq(Piece)
  BY DEF ConnectionTypeOK
<1> QED BY <1>1

\* ... also after a step.
LEMMA SequencedNext ==
    ASSUME ConnectionTypeOK', NEW k \in Connection
    PROVE  /\ connection'[k].toHost \in Seq(Piece) /\ connection'[k].toBackend \in Seq(Piece)
           /\ Len(connection'[k].toHost) \in Nat /\ Len(connection'[k].toBackend) \in Nat
           /\ DOMAIN connection'[k].toHost = 1 .. Len(connection'[k].toHost)
<1>1. connection'[k].toHost \in Seq(Piece) /\ connection'[k].toBackend \in Seq(Piece)
  BY DEF ConnectionTypeOK
<1> QED BY <1>1

\* A step in which the host neither connects nor closes nor whitelists.
LEMMA OwnsQuiet ==
    ASSUME IInv, UNCHANGED <<whitelist, acknowledged>>,
           host'.k = host.k, host'.pc = "connect" <=> host.pc = "connect",
           \A j \in Connection : UNCHANGED connection[j].host
    PROVE  HostOwns'
BY DEF IInv, HostOwns

\* A step in which the backend neither enters nor drops nor closes anything.
LEMMA RegistryQuiet ==
    ASSUME IInv, UNCHANGED <<hostIdentities, registered, acceptor>>,
           \A j \in Connection : UNCHANGED connection[j].backend
    PROVE  Registry'
BY Typed, NoneAssumption DEF IInv, Registry, Entered, Disposed

\* A step of the thread of connection k that leaves the dictionary alone.
LEMMA RegistryStep ==
    ASSUME IInv, NEW k \in Connection, UNCHANGED <<hostIdentities, registered>>,
           \A j \in Connection \ {k} : UNCHANGED <<acceptor[j], connection[j].backend>>,
           acceptor'[k] # "none" /\ connection'[k].backend # "none",
           acceptor'[k] \in {"receive", "body", "register"} => connection'[k].backend = "open",
           acceptor'[k] \in {"receive", "body", "register", "refuse", "spin"} => ~Entered(k),
           acceptor'[k] \in {"respond", "drop"} => Entered(k),
           Entered(k) => UNCHANGED connection[k].backend
    PROVE  Registry'
<1>1. \A j : Entered(j)' <=> Entered(j)
  BY DEF Entered
<1>2. ASSUME NEW j \in Connection
      PROVE  /\ acceptor'[j] = "none" <=> connection'[j].backend = "none"
             /\ acceptor'[j] \in {"receive", "body", "register"} => connection'[j].backend = "open"
             /\ acceptor'[j] \in {"none", "receive", "body", "register", "refuse", "spin"} => ~Entered(j)
             /\ acceptor'[j] \in {"respond", "drop"} => Entered(j)
  <2>1. CASE j = k
    BY <2>1
  <2>2. CASE j # k
    BY <2>2 DEF IInv, Registry
  <2> QED BY <2>1, <2>2
<1>3. ASSUME hostIdentities # None
      PROVE  /\ registered # <<>> /\ hostIdentities = registered[Len(registered)]
             /\ connection'[hostIdentities].backend = "open"
  <2>1. /\ registered # <<>> /\ hostIdentities = registered[Len(registered)]
        /\ connection[hostIdentities].backend = "open"
    BY <1>3 DEF IInv, Registry
  <2>2. hostIdentities \in Connection /\ Entered(hostIdentities)
    BY <1>3, <2>1, Typed DEF IInv
  <2>3. CASE hostIdentities = k
    BY <2>1, <2>2, <2>3
  <2>4. CASE hostIdentities # k
    BY <2>1, <2>2, <2>4
  <2> QED BY <2>1, <2>3, <2>4
<1>4. ASSUME hostIdentities = None, registered # <<>>
      PROVE  Disposed(registered[Len(registered)])'
  <2> DEFINE j == registered[Len(registered)]
  <2>1. j \in Connection /\ Entered(j)
    BY <1>4, Typed DEF IInv
  <2>2. connection[j].backend = "closed"
    BY <1>4 DEF IInv, Registry, Disposed
  <2>3. connection'[j].backend = "closed"
    <3> HIDE DEF j
    <3> QED BY <2>1, <2>2
  <2> QED BY <2>3 DEF Disposed
<1> QED BY <1>1, <1>2, <1>3, <1>4 DEF Registry

\* A step that drops the host that is registered.
LEMMA RegistryDropped ==
    ASSUME IInv, UNCHANGED registered, hostIdentities' = None,
           \A j \in Connection :
               /\ UNCHANGED acceptor[j] \/ (acceptor[j] = "drop" /\ acceptor'[j] = "done")
               /\ connection'[j].backend =
                     IF j = hostIdentities THEN "closed" ELSE connection[j].backend
    PROVE  Registry'
<1>1. \A j : Entered(j)' <=> Entered(j)
  BY DEF Entered
<1>2. hostIdentities # None =>
          /\ hostIdentities \in Connection /\ Entered(hostIdentities)
          /\ registered # <<>> /\ hostIdentities = registered[Len(registered)]
          /\ connection[hostIdentities].backend = "open"
  BY Typed DEF IInv, Registry
<1>3. ASSUME NEW j \in Connection
      PROVE  /\ acceptor'[j] = "none" <=> connection'[j].backend = "none"
             /\ acceptor'[j] \in {"receive", "body", "register"} => connection'[j].backend = "open"
             /\ acceptor'[j] \in {"none", "receive", "body", "register", "refuse", "spin"} => ~Entered(j)
             /\ acceptor'[j] \in {"respond", "drop"} => Entered(j)
  <2>1. /\ acceptor[j] = "none" <=> connection[j].backend = "none"
        /\ acceptor[j] \in {"receive", "body", "register"} => connection[j].backend = "open"
        /\ acceptor[j] \in {"none", "receive", "body", "register", "refuse", "spin"} => ~Entered(j)
        /\ acceptor[j] \in {"respond", "drop"} => Entered(j)
    BY DEF IInv, Registry
  <2>2. CASE j = hostIdentities
    <3>1. Entered(j) /\ connection'[j].backend = "closed" /\ connection[j].backend = "open"
      BY <1>2, <2>2, NoneAssumption
    <3> QED BY <2>1, <3>1
  <2>3. CASE j # hostIdentities
    BY <2>1, <2>3
  <2> QED BY <2>2, <2>3
<1>4. ASSUME registered # <<>>
      PROVE  Disposed(registered[Len(registered)])'
  <2> DEFINE j == registered[Len(registered)]
  <2>1. j \in Connection
    BY <1>4, Typed DEF IInv
  <2>2. hostIdentities = None => connection[j].backend = "closed"
    BY <1>4 DEF IInv, Registry, Disposed
  <2>3. hostIdentities # None => hostIdentities = j
    BY <1>2
  <2>4. connection'[j].backend = "closed"
    <3> HIDE DEF j
    <3> QED BY <2>1, <2>2, <2>3
  <2> QED BY <2>4 DEF Disposed
<1> QED BY <1>1, <1>3, <1>4 DEF Registry

\* A step that adds nothing to a registration in transit, or comes after it.
LEMMA ArrivesQuiet ==
    ASSUME IInv, NEW k \in Connection, UNCHANGED registered,
           HostAt("postHeader", k)' => HostAt("postHeader", k),
           HostAt("postBody", k)' => HostAt("postBody", k),
           \/ acceptor'[k] \in {"refuse", "spin", "respond", "drop", "done"}
           \/ UNCHANGED acceptor[k] /\ Entered(k)
           \/ /\ UNCHANGED acceptor[k]
              /\ HostAt("postHeader", k)' <=> HostAt("postHeader", k)
              /\ HostAt("postBody", k)' <=> HostAt("postBody", k)
              /\ Len(connection'[k].toBackend) = Len(connection[k].toBackend)
              /\ HostLost(k) => HostLost(k)'
    PROVE  Arrives(k)'
<1>1. Arrives(k) /\ Registry
  BY DEF IInv, RegistrationArrives
<1>2. Entered(k)' <=> Entered(k)
  BY DEF Entered
<1>3. acceptor'[k] = "register" \/ Entered(k)' => acceptor[k] = "register" \/ Entered(k)
  BY <1>2
<1>4. Entered(k) => acceptor[k] \notin {"none", "receive", "body", "register"}
  BY <1>1 DEF Registry
<1> QED BY <1>1, <1>2, <1>3, <1>4 DEF Arrives

\* The host's thread neither begins nor goes on with a body.
LEMMA WholeQuiet ==
    ASSUME IInv, NEW k \in Connection,
           UNCHANGED connection[k].toHost, connection[k].broken => connection'[k].broken,
           HostAt("body", k)' => HostAt("body", k)
    PROVE  Whole(k)'
BY DEF IInv, PostsAreWhole, Whole

\* The host received the first n pieces.
LEMMA WholeReceived ==
    ASSUME IInv, TypeOK', NEW k \in Connection, NEW n \in Nat \ {0},
           UNCHANGED connection[k].broken,
           Len(connection'[k].toHost) = Len(connection[k].toHost) - n,
           \A i \in DOMAIN connection'[k].toHost :
               i + n \in DOMAIN connection[k].toHost
               /\ connection'[k].toHost[i] = connection[k].toHost[i + n],
           HostAt("body", k)' => n = 1 /\ connection[k].toHost[1].part = "header"
    PROVE  Whole(k)'
<1> DEFINE old == connection[k].toHost
           new == connection'[k].toHost
<1>1. /\ old \in Seq(Piece) /\ new \in Seq(Piece)
      /\ DOMAIN new = 1 .. Len(new) /\ DOMAIN old = 1 .. Len(old)
      /\ Len(new) \in Nat /\ Len(old) \in Nat
  BY Sequenced, SequencedNext DEF IInv, TypeOK
<1>2. /\ Len(new) = Len(old) - n
      /\ \A i \in DOMAIN new : i + n \in DOMAIN old /\ new[i] = old[i + n]
  OBVIOUS
<1>3. \A i \in DOMAIN old :
          /\ old[i].part \in {"header", "body"} => old[i].of \in WebRequest
          /\ old[i].part = "header" =>
                IF i = Len(old) THEN connection[k].broken ELSE old[i + 1] = Body(old[i].of)
  BY DEF IInv, PostsAreWhole, Whole
<1> HIDE DEF old, new
<1>4. ASSUME NEW i \in DOMAIN new
      PROVE  /\ new[i].part \in {"header", "body"} => new[i].of \in WebRequest
             /\ new[i].part = "header" =>
                   IF i = Len(new) THEN connection[k].broken ELSE new[i + 1] = Body(new[i].of)
  <2>1. i \in 1 .. Len(new) /\ i + n \in DOMAIN old /\ new[i] = old[i + n]
    BY <1>1, <1>2
  <2>2. CASE i = Len(new)
    BY <2>1, <2>2, <1>1, <1>2, <1>3
  <2>3. CASE i # Len(new)
    <3>1. i + 1 \in DOMAIN new
      BY <2>1, <2>3, <1>1
    <3>2. new[i + 1] = old[(i + n) + 1] /\ i + n # Len(old)
      BY <3>1, <2>1, <2>3, <1>1, <1>2
    <3> QED BY <2>1, <2>3, <3>2, <1>3
  <2> QED BY <2>2, <2>3
<1>5. ASSUME HostAt("body", k)'
      PROVE  IF new = <<>> THEN connection[k].broken ELSE new[1].part = "body"
  <2>1. n = 1 /\ old[1].part = "header"
    BY <1>5 DEF old
  <2>2. 1 \in DOMAIN old
    BY <2>1, <1>1, <1>2
  <2>3. CASE Len(old) = 1
    BY <2>1, <2>2, <2>3, <1>1, <1>2, <1>3
  <2>4. CASE Len(old) # 1
    <3>1. 1 \in DOMAIN new /\ new # <<>>
      BY <2>1, <2>2, <2>4, <1>1, <1>2
    <3>2. new[1] = old[1 + 1]
      BY <3>1, <2>1, <1>2
    <3>3. old[1 + 1] = Body(old[1].of)
      BY <2>1, <2>2, <2>4, <1>3
    <3> QED BY <3>1, <3>2, <3>3 DEF Body
  <2> QED BY <2>3, <2>4
<1> QED BY <1>4, <1>5 DEF Whole, new

\* A step that neither sends nor receives visitor w's address over connection k.
LEMMA OnceQuiet ==
    ASSUME IInv, NEW w \in WebRequest, NEW k \in Connection,
           UNCHANGED <<connection[k].toHost, acknowledged[k]>>,
           Told(w, k)' => Told(w, k),
           web'[w].pc \in {"idle", "check", "send"} => web[w].pc \in {"idle", "check", "send"}
    PROVE  Once(w, k)'
BY DEF IInv, WhitelistedOnce, Once, InTransit

\* The host received the first n pieces, among them perhaps the address it is told.
LEMMA OnceReceived ==
    ASSUME IInv, TypeOK', NEW w \in WebRequest, NEW k \in Connection, NEW n \in Nat \ {0},
           UNCHANGED <<acknowledged, web>>,
           Len(connection'[k].toHost) = Len(connection[k].toHost) - n,
           \A i \in DOMAIN connection'[k].toHost :
               i + n \in DOMAIN connection[k].toHost
               /\ connection'[k].toHost[i] = connection[k].toHost[i + n],
           Told(w, k)' =>
               \E i \in 1 .. n : i \in DOMAIN connection[k].toHost /\ connection[k].toHost[i] = Body(w)
    PROVE  Once(w, k)' /\ (InTransit(w, k)' => InTransit(w, k)) /\ (Told(w, k)' => ~InTransit(w, k)')
<1> DEFINE old == connection[k].toHost
           new == connection'[k].toHost
<1>1. /\ DOMAIN new = 1 .. Len(new) /\ DOMAIN old = 1 .. Len(old)
      /\ Len(new) \in Nat /\ Len(old) \in Nat
  BY Sequenced, SequencedNext DEF IInv, TypeOK
<1>2. /\ \A i \in DOMAIN new : i + n \in DOMAIN old /\ new[i] = old[i + n]
      /\ Told(w, k)' => \E i \in 1 .. n : i \in DOMAIN old /\ old[i] = Body(w)
  OBVIOUS
<1>3. Once(w, k)
  BY DEF IInv, WhitelistedOnce
<1>4. \A i, j \in DOMAIN old : old[i] = Body(w) /\ old[j] = Body(w) => i = j
  BY <1>3 DEF Once
<1>5. /\ InTransit(w, k) <=> \E i \in DOMAIN old : old[i] = Body(w)
      /\ InTransit(w, k)' <=> \E i \in DOMAIN new : new[i] = Body(w)
  BY DEF InTransit
<1> HIDE DEF old, new
<1>6. InTransit(w, k)' => InTransit(w, k)
  BY <1>2, <1>5
<1>7. ASSUME NEW i \in DOMAIN new, NEW j \in DOMAIN new, new[i] = Body(w), new[j] = Body(w)
      PROVE  i = j
  <2>1. i + n = j + n
    BY <1>7, <1>2, <1>4
  <2> QED BY <2>1, <1>1
<1>8. ASSUME Told(w, k)', NEW i \in DOMAIN new, new[i] = Body(w)
      PROVE  FALSE
  <2>1. PICK j \in 1 .. n : j \in DOMAIN old /\ old[j] = Body(w)
    BY <1>8, <1>2
  <2>2. i + n = j
    BY <1>8, <2>1, <1>2, <1>4
  <2> QED BY <2>1, <2>2, <1>1
<1>9. Told(w, k)' => InTransit(w, k) /\ ~InTransit(w, k)'
  BY <1>2, <1>5, <1>8
<1>10. \A i, j \in DOMAIN connection'[k].toHost :
          connection'[k].toHost[i] = Body(w) /\ connection'[k].toHost[j] = Body(w) => i = j
  BY <1>7 DEF new
<1>11. Once(w, k)'
  BY <1>3, <1>6, <1>9, <1>10 DEF Once
<1> QED BY <1>6, <1>9, <1>11

\* The sets of visitors that are counted are finite.
LEMMA Counts ==
    /\ \A k \in Connection :
          /\ IsFiniteSet(Redirected(k)) /\ Cardinality(Redirected(k)) \in Nat
          /\ IsFiniteSet(Waiting(k)) /\ Cardinality(Waiting(k)) \in Nat
          /\ IsFiniteSet({w \in WebRequest : InTransit(w, k)})
          /\ Cardinality({w \in WebRequest : InTransit(w, k)}) \in Nat
    /\ \A S \in SUBSET WebRequest :
          /\ IsFiniteSet(S) /\ Cardinality(S) \in Nat
          /\ \A R \in SUBSET S : Cardinality(R) \in Nat /\ Cardinality(R) <= Cardinality(S)
<1>1. \A S \in SUBSET WebRequest :
          /\ IsFiniteSet(S) /\ Cardinality(S) \in Nat
          /\ \A R \in SUBSET S : Cardinality(R) \in Nat /\ Cardinality(R) <= Cardinality(S)
  BY WebRequestAssumption, FS_Subset, FS_CardinalityType
<1>2. \A k \in Connection :
          /\ Redirected(k) \in SUBSET WebRequest
          /\ Waiting(k) \in SUBSET WebRequest
          /\ {w \in WebRequest : InTransit(w, k)} \in SUBSET WebRequest
  BY DEF Redirected, Waiting
<1> QED BY <1>1, <1>2

\* Nobody new is redirected, and an answer at most goes from the host into transit.
LEMMA AcknowledgedQuiet ==
    ASSUME IInv, NEW k \in Connection, Entered(k), TypeOK',
           Redirected(k)' \subseteq Redirected(k),
           Len(connection'[k].toBackend) + One(HostAt("reply", k)')
               <= Len(connection[k].toBackend) + One(HostAt("reply", k)),
           UNCHANGED acknowledged[k]
    PROVE  Acknowledged(k)'
<1> DEFINE redirected == Cardinality(Redirected(k))
           redirectedNext == Cardinality(Redirected(k)')
           arrived == Len(connection[k].toBackend)
           arrivedNext == Len(connection'[k].toBackend)
           reply == One(HostAt("reply", k))
           replyNext == One(HostAt("reply", k)')
           all == Cardinality(acknowledged[k])
<1>1. redirected \in Nat /\ redirectedNext \in Nat /\ redirectedNext <= redirected
  BY Counts DEF Redirected
<1>2. all \in Nat
  BY Counts, Typed DEF IInv
<1>3. arrived \in Nat /\ arrivedNext \in Nat
  BY Sequenced, SequencedNext DEF IInv, TypeOK
<1>4. reply \in Nat /\ replyNext \in Nat
  BY DEF One
<1>5. redirected + arrived + reply <= all
  BY DEF IInv, AnswersAreAcknowledged, Acknowledged
<1>6. arrivedNext + replyNext <= arrived + reply
  OBVIOUS
<1>7. Acknowledged(k)' <=> redirectedNext + arrivedNext + replyNext <= all
  BY DEF Acknowledged
<1> HIDE DEF redirected, redirectedNext, arrived, arrivedNext, reply, replyNext, all
<1> QED BY <1>1, <1>2, <1>3, <1>4, <1>5, <1>6, <1>7

\* Nobody stops waiting, and no address or answer is added.
LEMMA AwaitedQuiet ==
    ASSUME IInv, NEW k \in Connection, Entered(k), CanAnswer(k), TypeOK',
           \A w \in WebRequest : InTransit(w, k)' => InTransit(w, k),
           One(HostAt("whitelist", k)') + One(HostAt("reply", k)') + Len(connection'[k].toBackend)
               <= One(HostAt("whitelist", k)) + One(HostAt("reply", k)) + Len(connection[k].toBackend),
           Waiting(k) \subseteq Waiting(k)'
    PROVE  Awaited(k)'
<1> DEFINE T == {w \in WebRequest : InTransit(w, k)}
           U == {w \in WebRequest : InTransit(w, k)'}
           addresses == Cardinality(T)
           addressesNext == Cardinality(U)
           waiting == Cardinality(Waiting(k))
           waitingNext == Cardinality(Waiting(k)')
           told == One(HostAt("whitelist", k))
           toldNext == One(HostAt("whitelist", k)')
           reply == One(HostAt("reply", k))
           replyNext == One(HostAt("reply", k)')
           arrived == Len(connection[k].toBackend)
           arrivedNext == Len(connection'[k].toBackend)
<1>1. addressesNext \in Nat /\ addresses \in Nat /\ addressesNext <= addresses
  <2>1. T \in SUBSET WebRequest /\ U \in SUBSET T
    OBVIOUS
  <2> HIDE DEF T, U
  <2> QED BY <2>1, Counts
<1>2. waiting \in Nat /\ waitingNext \in Nat /\ waiting <= waitingNext
  <2>1. Waiting(k)' \in SUBSET WebRequest /\ Waiting(k) \in SUBSET (Waiting(k)')
    BY DEF Waiting
  <2> QED BY <2>1, Counts
<1>3. arrived \in Nat /\ arrivedNext \in Nat
  BY Sequenced, SequencedNext DEF IInv, TypeOK
<1>4. addresses + told + reply + arrived <= waiting
  BY DEF IInv, AnswersAreAwaited, Awaited
<1>5. Awaited(k)' <=> addressesNext + toldNext + replyNext + arrivedNext <= waitingNext
  BY DEF Awaited
<1>6. told \in Nat /\ toldNext \in Nat /\ reply \in Nat /\ replyNext \in Nat
  BY DEF One
<1>7. toldNext + replyNext + arrivedNext <= told + reply + arrived
  OBVIOUS
<1> HIDE DEF T, U, addresses, addressesNext, waiting, waitingNext, told, toldNext,
             reply, replyNext, arrived, arrivedNext
<1> QED BY <1>1, <1>2, <1>3, <1>4, <1>5, <1>6, <1>7

\* The same for all connections, which may have been shown otherwise.
LEMMA AcknowledgedFrame ==
    ASSUME IInv, TypeOK', UNCHANGED registered,
           \A k \in Connection :
               \/ ~Entered(k)
               \/ Acknowledged(k)'
               \/ /\ Redirected(k)' \subseteq Redirected(k)
                  /\ UNCHANGED acknowledged[k]
                  /\ Len(connection'[k].toBackend) <= Len(connection[k].toBackend)
                  /\ HostAt("reply", k)' => HostAt("reply", k)
    PROVE  AnswersAreAcknowledged'
<1> SUFFICES ASSUME NEW k \in Connection, Entered(k)
             PROVE  Acknowledged(k)'
  BY DEF AnswersAreAcknowledged, Entered
<1> SUFFICES ASSUME Redirected(k)' \subseteq Redirected(k),
                    UNCHANGED acknowledged[k],
                    Len(connection'[k].toBackend) <= Len(connection[k].toBackend),
                    HostAt("reply", k)' => HostAt("reply", k)
             PROVE  Acknowledged(k)'
  OBVIOUS
<1> DEFINE arrived == Len(connection[k].toBackend)
           arrivedNext == Len(connection'[k].toBackend)
           reply == One(HostAt("reply", k))
           replyNext == One(HostAt("reply", k)')
<1>1. arrived \in Nat /\ arrivedNext \in Nat /\ arrivedNext <= arrived
  BY Sequenced, SequencedNext DEF IInv, TypeOK
<1>2. reply \in Nat /\ replyNext \in Nat /\ replyNext <= reply
  BY DEF One
<1> HIDE DEF arrived, arrivedNext, reply, replyNext
<1>3. arrivedNext + replyNext <= arrived + reply
  BY <1>1, <1>2
<1> QED BY <1>3, AcknowledgedQuiet DEF arrived, arrivedNext, reply, replyNext

\* The same for all connections, which may have been shown otherwise or cannot answer.
LEMMA AwaitedFrame ==
    ASSUME IInv, TypeOK', UNCHANGED registered,
           \A k \in Connection :
               \/ ~Entered(k)
               \/ ~CanAnswer(k)'
               \/ Awaited(k)'
               \/ /\ CanAnswer(k)
                  /\ \A w \in WebRequest : InTransit(w, k)' => InTransit(w, k)
                  /\ Waiting(k) \subseteq Waiting(k)'
                  /\ Len(connection'[k].toBackend) <= Len(connection[k].toBackend)
                  /\ HostAt("whitelist", k)' => HostAt("whitelist", k)
                  /\ HostAt("reply", k)' => HostAt("reply", k)
    PROVE  AnswersAreAwaited'
<1> SUFFICES ASSUME NEW k \in Connection, Entered(k), CanAnswer(k)'
             PROVE  Awaited(k)'
  BY DEF AnswersAreAwaited, Entered
<1> SUFFICES ASSUME CanAnswer(k),
                    \A w \in WebRequest : InTransit(w, k)' => InTransit(w, k),
                    Waiting(k) \subseteq Waiting(k)',
                    Len(connection'[k].toBackend) <= Len(connection[k].toBackend),
                    HostAt("whitelist", k)' => HostAt("whitelist", k),
                    HostAt("reply", k)' => HostAt("reply", k)
             PROVE  Awaited(k)'
  OBVIOUS
<1> DEFINE arrived == Len(connection[k].toBackend)
           arrivedNext == Len(connection'[k].toBackend)
           told == One(HostAt("whitelist", k))
           toldNext == One(HostAt("whitelist", k)')
           reply == One(HostAt("reply", k))
           replyNext == One(HostAt("reply", k)')
<1>1. arrived \in Nat /\ arrivedNext \in Nat /\ arrivedNext <= arrived
  BY Sequenced, SequencedNext DEF IInv, TypeOK
<1>2. /\ told \in Nat /\ toldNext \in Nat /\ toldNext <= told
      /\ reply \in Nat /\ replyNext \in Nat /\ replyNext <= reply
  BY DEF One
<1> HIDE DEF arrived, arrivedNext, told, toldNext, reply, replyNext
<1>3. toldNext + replyNext + arrivedNext <= told + reply + arrived
  BY <1>1, <1>2
<1> QED BY <1>3, AwaitedQuiet DEF arrived, arrivedNext, told, toldNext, reply, replyNext

\* A lone request stays one through the steps of others.
LEMMA LoneQuiet ==
    ASSUME IInv, NEW w \in WebRequest, UNCHANGED web[w], web[w].alone,
           web[w].pc \in WebAtWork => Using(web[w].k)' \subseteq Using(web[w].k),
           \A j \in Connection : acknowledged[j] \subseteq acknowledged'[j],
           web[w].pc = "receive" /\ CanAnswer(web[w].k)' =>
               /\ CanAnswer(web[w].k)
               /\ \A v \in WebRequest : InTransit(v, web[w].k)' => InTransit(v, web[w].k)
               /\ HostAt("whitelist", web[w].k)' =>
                     \/ HostAt("whitelist", web[w].k) /\ UNCHANGED host.client
                     \/ host'.client \in WebRequest /\ InTransit(host'.client, web[w].k)
               /\ HostAt("reply", web[w].k)' =>
                     \/ HostAt("reply", web[w].k)
                     \/ HostAt("whitelist", web[w].k) /\ host.client \in acknowledged'[web[w].k]
               /\ connection'[web[w].k].toBackend # <<>> =>
                     connection[web[w].k].toBackend # <<>> \/ HostAt("reply", web[w].k)
    PROVE  Lone(w)'
<1> DEFINE k == web[w].k
<1>1. Lone(w) /\ k \in Connection \cup {None}
  BY Typed DEF IInv, LoneRequests
<1>2. web[w].pc \in WebAtWork \cup {"redirected"} => k \in Connection
  BY <1>1 DEF IInv, UsesEntered
<1>3. web[w].pc \in WebAtWork => Using(k)' = {w}
  BY <1>1 DEF Lone, Using
<1>4. ASSUME web[w].pc = "receive", CanAnswer(k)'
      PROVE  /\ \A v \in WebRequest : InTransit(v, k)' => v = w
             /\ HostAt("whitelist", k)' => host'.client = w
             /\ HostAt("reply", k)' \/ connection'[k].toBackend # <<>> => w \in acknowledged'[k]
  <2>1. k \in Connection
    BY <1>2, <1>4 DEF WebAtWork
  <2> QED BY <1>1, <1>4, <2>1 DEF Lone
<1>5. web[w].pc \in {"redirect", "redirected"} => w \in acknowledged'[k]
  BY <1>1, <1>2 DEF Lone, WebAtWork
<1> QED BY <1>1, <1>3, <1>4, <1>5 DEF Lone

\* What holds of connection j in most steps: no answer becomes possible, no address
\* and no answer is added.
Subsides(j) ==
    /\ CanAnswer(j)' => CanAnswer(j)
    /\ \A v \in WebRequest : InTransit(v, j)' => InTransit(v, j)
    /\ HostAt("whitelist", j)' => HostAt("whitelist", j) /\ UNCHANGED host.client
    /\ HostAt("reply", j)' => HostAt("reply", j)
    /\ Len(connection'[j].toBackend) <= Len(connection[j].toBackend)

\* A step that subsides everywhere keeps what is known of answers.
LEMMA SubsidingStep ==
    ASSUME IInv, TypeOK', UNCHANGED <<registered, web, acknowledged>>,
           \A j \in Connection : Entered(j) => Subsides(j)
    PROVE  AnswersAreAcknowledged' /\ AnswersAreAwaited' /\ LoneRequests'
<1>1. AnswersAreAcknowledged'
  <2>1. \A j \in Connection : Redirected(j)' = Redirected(j)
    BY DEF Redirected
  <2> QED BY <2>1, AcknowledgedFrame DEF Subsides
<1>2. AnswersAreAwaited'
  <2>1. \A j \in Connection : Waiting(j)' = Waiting(j)
    BY DEF Waiting
  <2> QED BY <2>1, AwaitedFrame DEF Subsides
<1>3. LoneRequests'
  <2> SUFFICES ASSUME NEW v \in WebRequest, web[v].alone
               PROVE  Lone(v)'
    BY DEF LoneRequests
  <2>1. Using(web[v].k)' \subseteq Using(web[v].k)
    BY DEF Using
  <2>2. web[v].pc = "receive" => web[v].k \in Connection /\ Subsides(web[v].k)
    <3>1. web[v].pc = "receive" => web[v].k # None
      BY DEF IInv, UsesEntered, WebAtWork
    <3>2. web[v].k # None => web[v].k \in Connection /\ Entered(web[v].k)
      BY Typed DEF IInv, UsesEntered
    <3> QED BY <3>1, <3>2
  <2>3. \A j \in Connection : connection'[j].toBackend # <<>>
            /\ Len(connection'[j].toBackend) <= Len(connection[j].toBackend)
            => connection[j].toBackend # <<>>
    BY Sequenced, SequencedNext DEF IInv, TypeOK
  <2> QED BY <2>1, <2>2, <2>3, LoneQuiet DEF Subsides
<1> QED BY <1>1, <1>2, <1>3

-----------------------------------------------------------------------------
(* What the three receives of the host have in common *)

\* A receive after which the host goes on to pc keeps the invariant.
LEMMA ReceivedStep ==
    ASSUME IInv, TypeOK', NEW k \in Connection, NEW n, Received(k, n),
           UNCHANGED <<whitelist, acknowledged, backendVars>>,
           host.pc \in {"response", "receive", "body"}, host.k = k, host'.k = k,
           host'.pc \in {"receive", "body", "whitelist", "close"},
           host'.pc = "body" => n = 1 /\ connection[k].toHost[1].part = "header",
           host'.pc = "whitelist" =>
               /\ host'.client \in WebRequest
               /\ \E i \in 1 .. n : i \in DOMAIN connection[k].toHost
                                  /\ connection[k].toHost[i] = Body(host'.client)
    PROVE  IInv'
<1>1. n \in Nat \ {0} /\ connection[k].toHost # <<>>
  BY Sequenced DEF IInv, TypeOK, Received
<1>2. Entered(k)
  BY <1>1 DEF IInv, UsesEntered
<1>3. HostOwns'
  BY OwnsQuiet DEF Received, EndsUnchanged
<1>4. Registry'
  BY RegistryQuiet DEF Received, EndsUnchanged, backendVars
<1>5. UsesEntered'
  <2>1. \A j \in Connection : Entered(j)' <=> Entered(j)
    BY DEF Entered, backendVars
  <2>2. \A j \in Connection : connection'[j].toHost # <<>> => Entered(j)
    BY <1>2 DEF IInv, UsesEntered, Received
  <2>3. \A w \in WebRequest : web[w].k # None => web[w].k \in Connection
    BY Typed DEF IInv
  <2> QED BY <1>2, <2>1, <2>2, <2>3 DEF IInv, UsesEntered, backendVars
<1>6. RegistrationArrives'
  <2> SUFFICES ASSUME NEW j \in Connection
               PROVE  Arrives(j)'
    BY DEF RegistrationArrives
  <2> QED BY ArrivesQuiet DEF Received, EndsUnchanged, HostAt, HostLost, backendVars
<1>7. PostsAreWhole'
  <2>1. ASSUME NEW j \in Connection
        PROVE  Whole(j)'
    <3>1. CASE j = k
      BY <1>1, <3>1, WholeReceived DEF Received, EndsUnchanged, HostAt
    <3>2. CASE j # k
      BY <3>2, WholeQuiet DEF Received, EndsUnchanged, HostAt
    <3> QED BY <3>1, <3>2
  <2> QED BY <2>1 DEF PostsAreWhole
<1>8. ASSUME NEW w \in WebRequest, NEW j \in Connection
      PROVE  /\ Once(w, j)'
             /\ InTransit(w, j)' => InTransit(w, j)
             /\ Told(w, j)' => j = k /\ InTransit(w, j) /\ ~InTransit(w, j)'
  <2>1. CASE j = k
    <3>1. Told(w, k)' =>
              \E i \in 1 .. n : i \in DOMAIN connection[k].toHost /\ connection[k].toHost[i] = Body(w)
      BY DEF Told, HostAt
    <3>2. Told(w, k)' => InTransit(w, k)
      BY <3>1 DEF InTransit
    <3> QED BY <1>1, <2>1, <3>1, <3>2, OnceReceived DEF Received, backendVars
  <2>2. CASE j # k
    <3>1. ~Told(w, j)'
      BY <2>2 DEF Told, HostAt
    <3> QED BY <2>2, <3>1, OnceQuiet DEF Received, InTransit, backendVars
  <2> QED BY <2>1, <2>2
<1>9. WhitelistedOnce'
  BY <1>8 DEF WhitelistedOnce
<1>10. AnswersAreAcknowledged'
  <2>1. \A j \in Connection :
            /\ Redirected(j)' = Redirected(j)
            /\ UNCHANGED acknowledged[j]
            /\ Len(connection'[j].toBackend) <= Len(connection[j].toBackend)
            /\ ~HostAt("reply", j)'
    BY Sequenced DEF IInv, TypeOK, Received, Redirected, HostAt, backendVars
  <2> QED BY <2>1, AcknowledgedFrame DEF backendVars
<1>11. AnswersAreAwaited'
  <2> SUFFICES ASSUME NEW j \in Connection, Entered(j), CanAnswer(j)'
               PROVE  Awaited(j)'
    BY DEF AnswersAreAwaited, Entered, backendVars
  <2>1. /\ CanAnswer(j) /\ Waiting(j)' = Waiting(j)
        /\ UNCHANGED connection[j].toBackend
        /\ ~HostAt("reply", j)' /\ ~HostAt("reply", j) /\ ~HostAt("whitelist", j)
    BY DEF Received, EndsUnchanged, CanAnswer, BackendLost, Disposed, Waiting, HostAt, backendVars
  <2>2. CASE ~HostAt("whitelist", j)'
    <3>1. One(HostAt("whitelist", j)') + One(HostAt("reply", j)') + Len(connection'[j].toBackend)
              <= One(HostAt("whitelist", j)) + One(HostAt("reply", j)) + Len(connection[j].toBackend)
      BY <2>1, <2>2, Sequenced DEF IInv, TypeOK, One
    <3>2. \A w \in WebRequest : InTransit(w, j)' => InTransit(w, j)
      BY <1>8
    <3> QED BY <2>1, <3>1, <3>2, AwaitedQuiet
  <2>3. CASE HostAt("whitelist", j)'
    <3> DEFINE T == {w \in WebRequest : InTransit(w, j)}
               U == {w \in WebRequest : InTransit(w, j)'}
               arrived == Len(connection[j].toBackend)
               waiting == Cardinality(Waiting(j))
    <3>1. PICK c \in WebRequest : Told(c, j)'
      BY <2>3 DEF Told, HostAt
    <3>2. U \in SUBSET (T \ {c}) /\ c \in T
      BY <3>1, <1>8
    <3>3. T \in SUBSET WebRequest /\ T \ {c} \in SUBSET WebRequest
      OBVIOUS
    <3> HIDE DEF T, U
    <3>4. /\ Cardinality(U) \in Nat /\ Cardinality(T) \in Nat
          /\ Cardinality(U) <= Cardinality(T \ {c})
          /\ Cardinality(T \ {c}) \in Nat
      BY <3>2, <3>3, Counts
    <3>5. Cardinality(T \ {c}) = Cardinality(T) - 1
      BY <3>2, <3>3, Counts, FS_RemoveElement
    <3>6. Cardinality(T) + 0 + 0 + arrived <= waiting
      BY <2>1 DEF IInv, AnswersAreAwaited, Awaited, One, T
    <3>7. Awaited(j)' <=> Cardinality(U) + 1 + 0 + arrived <= waiting
      BY <2>1, <2>3 DEF Awaited, One, U
    <3>8. arrived \in Nat /\ waiting \in Nat
      BY Sequenced, Counts DEF IInv, TypeOK
    <3> HIDE DEF arrived, waiting
    <3> QED BY <3>4, <3>5, <3>6, <3>7, <3>8
  <2> QED BY <2>2, <2>3
<1>12. LoneRequests'
  <2> SUFFICES ASSUME NEW v \in WebRequest, web[v].alone
               PROVE  Lone(v)'
    BY DEF LoneRequests, backendVars
  <2>1. Using(web[v].k)' \subseteq Using(web[v].k)
    BY DEF Using, backendVars
  <2>2. web[v].pc = "receive" => web[v].k \in Connection
    BY Typed DEF IInv, UsesEntered, WebAtWork
  <2>3. \A j \in Connection :
            /\ CanAnswer(j)' => CanAnswer(j)
            /\ UNCHANGED connection[j].toBackend
            /\ ~HostAt("reply", j)'
            /\ HostAt("whitelist", j)' => host'.client \in WebRequest /\ InTransit(host'.client, j)
    <3>1. ASSUME NEW j \in Connection, HostAt("whitelist", j)'
          PROVE  host'.client \in WebRequest /\ InTransit(host'.client, j)
      <4>1. PICK c \in WebRequest : c = host'.client /\ Told(c, j)'
        BY <3>1 DEF Told, HostAt
      <4> QED BY <4>1, <1>8
    <3> QED BY <3>1 DEF Received, EndsUnchanged, CanAnswer, BackendLost, Disposed, HostAt
  <2>4. \A j \in Connection, u \in WebRequest : InTransit(u, j)' => InTransit(u, j)
    BY <1>8
  <2> QED BY <2>1, <2>2, <2>3, <2>4, LoneQuiet DEF backendVars
<1> QED BY <1>3, <1>4, <1>5, <1>6, <1>7, <1>9, <1>10, <1>11, <1>12 DEF IInv

\* A receive that fails.
LEMMA ReceiveFails ==
    ASSUME IInv, NEW k \in Connection, NEW pc \in {"close", "spin"},
           UNCHANGED <<connection, whitelist, acknowledged, backendVars>>,
           host.pc \in {"response", "receive", "body"}, HostGoto(pc)
    PROVE  IInv'
<1>1. host' = [pc |-> pc, k |-> host.k, client |-> host.client]
  BY HostGotoEffect DEF IInv, TypeOK
<1>2. TypeOK'
  BY <1>1 DEF IInv, TypeOK, ConnectionTypeOK, HostTypeOK, BackendTypeOK, WebAtWork, backendVars
<1>3. HostOwns'
  BY <1>1, OwnsQuiet
<1>4. Registry'
  BY RegistryQuiet DEF backendVars
<1>5. UsesEntered'
  BY <1>1 DEF IInv, UsesEntered, Entered, backendVars
<1>6. RegistrationArrives'
  <2> SUFFICES ASSUME NEW j \in Connection
               PROVE  Arrives(j)'
    BY DEF RegistrationArrives
  <2> QED BY <1>1, ArrivesQuiet DEF HostAt, HostLost, backendVars
<1>7. PostsAreWhole'
  <2>1. ASSUME NEW j \in Connection
        PROVE  Whole(j)'
    BY <1>1, WholeQuiet DEF HostAt
  <2> QED BY <1>1, <2>1 DEF PostsAreWhole
<1>8. WhitelistedOnce'
  <2> SUFFICES ASSUME NEW v \in WebRequest, NEW j \in Connection
               PROVE  Once(v, j)'
    BY DEF WhitelistedOnce
  <2> QED BY <1>1, OnceQuiet DEF Told, HostAt, backendVars
<1>9. AnswersAreAcknowledged' /\ AnswersAreAwaited' /\ LoneRequests'
  <2>1. \A j \in Connection : Entered(j) => Subsides(j)
    BY <1>1, Sequenced DEF IInv, TypeOK, Subsides, CanAnswer, BackendLost, Disposed, InTransit, HostAt
  <2> QED BY <1>2, <2>1, SubsidingStep DEF backendVars
<1> QED BY <1>2, <1>3, <1>4, <1>5, <1>6, <1>7, <1>8, <1>9 DEF IInv

-----------------------------------------------------------------------------
(* The steps of the web server's threads *)

\* Visitor w's request goes on to pc.
Goes(w, pc) ==
    /\ web'[w].pc = pc
    /\ UNCHANGED <<web[w].k, web[w].alone>>
    /\ \A v \in WebRequest \ {w} : UNCHANGED web[v]

\* SetWeb moves one request and keeps the types.
LEMMA SetWebEffect ==
    ASSUME BackendTypeOK, NEW w \in WebRequest,
           NEW pc \in WebAtWork \cup {"idle", "redirected", "failed", "served", "rejected"},
           SetWeb(w, pc), UNCHANGED <<registered, acceptor>>,
           hostIdentities' \in Connection \cup {None}
    PROVE  BackendTypeOK' /\ Goes(w, pc)
<1>1. Goes(w, pc)
  BY WebEffect DEF BackendTypeOK, SetWeb, Goes
<1>2. web' \in [WebRequest ->
          [pc : WebAtWork \cup {"idle", "redirected", "failed", "served", "rejected"},
           k : Connection \cup {None},
           alone : BOOLEAN]]
  BY DEF BackendTypeOK, SetWeb
<1> QED BY <1>1, <1>2 DEF BackendTypeOK, WebAtWork

\* A request that has found its host goes on.
LEMMA UsesQuiet ==
    ASSUME IInv, UNCHANGED <<host, registered>>, NEW w \in WebRequest, NEW pc, Goes(w, pc),
           web[w].k # None,
           \A j \in Connection : connection'[j].toHost # <<>> => Entered(j)
    PROVE  UsesEntered'
<1>1. \A j : Entered(j)' <=> Entered(j)
  BY DEF Entered
<1>2. ASSUME NEW v \in WebRequest
      PROVE  /\ web'[v].k # None => Entered(web'[v].k)
             /\ web'[v].pc \in WebAtWork \cup {"redirected"} => web'[v].k # None
  BY DEF IInv, UsesEntered, Goes
<1> QED BY <1>1, <1>2 DEF IInv, UsesEntered, WebAtWork

\* A request is neither sent nor answered.
LEMMA WebQuiet ==
    ASSUME IInv, TypeOK', NEW w \in WebRequest, NEW pc, Goes(w, pc),
           UNCHANGED <<hostVars, registered>>,
           \A j \in Connection : Entered(j) => Subsides(j),
           web[w].pc # "receive", pc # "receive",
           pc \in {"redirect", "redirected", "served", "rejected"} =>
               web[w].pc \in {"redirect", "redirected"},
           pc \in WebAtWork => web[w].pc \in WebAtWork,
           web[w].alone => pc # "rejected"
    PROVE  AnswersAreAcknowledged' /\ AnswersAreAwaited' /\ LoneRequests'
<1>1. AnswersAreAcknowledged'
  <2>1. \A j \in Connection : Redirected(j)' \subseteq Redirected(j)
    BY DEF Redirected, Goes
  <2> QED BY <2>1, AcknowledgedFrame DEF Subsides, hostVars
<1>2. AnswersAreAwaited'
  <2>1. \A j \in Connection : Waiting(j) \subseteq Waiting(j)'
    BY DEF Waiting, Goes
  <2> QED BY <2>1, AwaitedFrame DEF Subsides
<1>3. LoneRequests'
  <2> SUFFICES ASSUME NEW v \in WebRequest, web'[v].alone
               PROVE  Lone(v)'
    BY DEF LoneRequests
  <2>1. web[v].alone
    BY DEF Goes
  <2>2. \A j : Using(j)' \subseteq Using(j)
    BY DEF Using, Goes
  <2>3. CASE v = w
    <3>1. Lone(w)
      BY <2>1, <2>3 DEF IInv, LoneRequests
    <3>2. pc \in WebAtWork => Using(web[w].k)' = {w}
      BY <2>2, <3>1 DEF Lone, Using, Goes
    <3> QED BY <2>1, <2>3, <3>1, <3>2 DEF Lone, Goes, hostVars, WebAtWork
  <2>4. CASE v # w
    <3>1. web[v].pc = "receive" => web[v].k \in Connection /\ Subsides(web[v].k)
      <4>1. web[v].pc = "receive" => web[v].k # None
        BY DEF IInv, UsesEntered, WebAtWork
      <4>2. web[v].k # None => web[v].k \in Connection /\ Entered(web[v].k)
        BY Typed DEF IInv, UsesEntered
      <4> QED BY <4>1, <4>2
    <3>2. \A j \in Connection : connection'[j].toBackend # <<>>
              /\ Len(connection'[j].toBackend) <= Len(connection[j].toBackend)
              => connection[j].toBackend # <<>>
      BY Sequenced, SequencedNext DEF IInv, TypeOK
    <3> QED BY <2>1, <2>2, <2>4, <3>1, <3>2, LoneQuiet DEF Subsides, Goes, hostVars
  <2> QED BY <2>3, <2>4
<1> QED BY <1>1, <1>2, <1>3

\* What was sent comes after what was on its way.
LEMMA Joined ==
    ASSUME NEW s \in Seq(Piece), NEW t \in Seq(Piece)
    PROVE  /\ s \o t \in Seq(Piece) /\ Len(s \o t) = Len(s) + Len(t)
           /\ \A i \in 1 .. Len(s) : (s \o t)[i] = s[i]
           /\ \A i \in 1 .. Len(t) : (s \o t)[Len(s) + i] = t[i]
OBVIOUS

\* A POST comes after what was on its way.
LEMMA JoinedPair ==
    ASSUME NEW s \in Seq(Piece), NEW a \in Piece, NEW b \in Piece
    PROVE  /\ Len(s \o <<a, b>>) = Len(s) + 2
           /\ \A i \in 1 .. Len(s) : (s \o <<a, b>>)[i] = s[i]
           /\ (s \o <<a, b>>)[Len(s) + 1] = a
           /\ (s \o <<a, b>>)[Len(s) + 2] = b
OBVIOUS

\* m pieces were sent to the host, a header only before its body.
LEMMA WholeSent ==
    ASSUME IInv, TypeOK', NEW k \in Connection, NEW m \in Nat,
           ~connection[k].broken,
           Len(connection'[k].toHost) = Len(connection[k].toHost) + m,
           \A i \in 1 .. Len(connection[k].toHost) : connection'[k].toHost[i] = connection[k].toHost[i],
           \A i \in 1 .. m :
               LET p == connection'[k].toHost[Len(connection[k].toHost) + i] IN
               /\ p.part \in {"header", "body"} => p.of \in WebRequest
               /\ p.part = "header" =>
                     i # m /\ connection'[k].toHost[(Len(connection[k].toHost) + i) + 1] = Body(p.of),
           HostAt("body", k)' => HostAt("body", k)
    PROVE  Whole(k)'
<1> DEFINE old == connection[k].toHost
           new == connection'[k].toHost
<1>1. /\ DOMAIN new = 1 .. Len(new) /\ DOMAIN old = 1 .. Len(old)
      /\ Len(new) \in Nat /\ Len(old) \in Nat
      /\ old \in Seq(Piece) /\ new \in Seq(Piece)
  BY Sequenced, SequencedNext DEF IInv, TypeOK
<1>2. /\ Len(new) = Len(old) + m
      /\ \A i \in 1 .. Len(old) : new[i] = old[i]
      /\ \A i \in 1 .. m :
            /\ new[Len(old) + i].part \in {"header", "body"} => new[Len(old) + i].of \in WebRequest
            /\ new[Len(old) + i].part = "header" =>
                  i # m /\ new[(Len(old) + i) + 1] = Body(new[Len(old) + i].of)
  OBVIOUS
<1>3. \A i \in DOMAIN old :
          /\ old[i].part \in {"header", "body"} => old[i].of \in WebRequest
          /\ old[i].part = "header" => i # Len(old) /\ old[i + 1] = Body(old[i].of)
  BY DEF IInv, PostsAreWhole, Whole
<1>4. HostAt("body", k)' => old # <<>> /\ old[1].part = "body"
  BY DEF IInv, PostsAreWhole, Whole
<1> HIDE DEF old, new
<1>5. ASSUME NEW i \in DOMAIN new
      PROVE  /\ new[i].part \in {"header", "body"} => new[i].of \in WebRequest
             /\ new[i].part = "header" => i # Len(new) /\ new[i + 1] = Body(new[i].of)
  <2>1. CASE i \in 1 .. Len(old)
    <3>1. new[i] = old[i] /\ i \in DOMAIN old
      BY <2>1, <1>1, <1>2
    <3>2. i # Len(old) => i + 1 \in 1 .. Len(old) /\ i # Len(new)
      BY <2>1, <1>1, <1>2
    <3> QED BY <3>1, <3>2, <1>2, <1>3
  <2>2. CASE i \notin 1 .. Len(old)
    <3>1. PICK p \in 1 .. m : i = Len(old) + p
      <4>1. i - Len(old) \in 1 .. m /\ i = Len(old) + (i - Len(old))
        BY <2>2, <1>1, <1>2
      <4> QED BY <4>1
    <3>2. /\ new[i].part \in {"header", "body"} => new[i].of \in WebRequest
          /\ new[i].part = "header" => p # m /\ new[i + 1] = Body(new[i].of)
      BY <3>1, <1>2
    <3>3. p # m => i # Len(new)
      BY <3>1, <1>1, <1>2
    <3> QED BY <3>2, <3>3
  <2> QED BY <2>1, <2>2
<1>6. HostAt("body", k)' => new # <<>> /\ new[1].part = "body"
  BY <1>1, <1>2, <1>4
<1> QED BY <1>5, <1>6 DEF Whole, new

\* Visitor w's request took what has arrived, or learned that nothing will.
LEMMA AnswerReceived ==
    ASSUME IInv, TypeOK', NEW w \in WebRequest, NEW k \in Connection,
           NEW pc \in {"redirect", "failed", "drop"}, Goes(w, pc),
           UNCHANGED <<hostVars, registered>>, EndsUnchanged,
           web[w].pc = "receive", web[w].k = k, Entered(k),
           \A j \in Connection :
               /\ UNCHANGED connection[j].toHost
               /\ j # k => UNCHANGED connection[j].toBackend,
           \/ UNCHANGED connection[k].toBackend /\ ~CanAnswer(k) /\ pc # "redirect"
           \/ /\ CanAnswer(k) /\ connection[k].toBackend # <<>>
              /\ Len(connection'[k].toBackend) <= Len(connection[k].toBackend) - 1
    PROVE  AnswersAreAcknowledged' /\ AnswersAreAwaited' /\ LoneRequests'
<1> DEFINE arrived == Len(connection[k].toBackend)
           arrivedNext == Len(connection'[k].toBackend)
<1>1. /\ arrived \in Nat /\ arrivedNext \in Nat /\ arrivedNext <= arrived
      /\ CanAnswer(k) => arrivedNext <= arrived - 1
  <2>1. arrived \in Nat /\ arrivedNext \in Nat
    BY Sequenced, SequencedNext DEF IInv, TypeOK
  <2>2. \/ arrivedNext = arrived /\ ~CanAnswer(k)
        \/ arrivedNext <= arrived - 1
    OBVIOUS
  <2> HIDE DEF arrived, arrivedNext
  <2> QED BY <2>1, <2>2
<1>2. /\ \A j \in Connection : HostAt("whitelist", j)' <=> HostAt("whitelist", j)
      /\ \A j \in Connection : HostAt("reply", j)' <=> HostAt("reply", j)
      /\ UNCHANGED acknowledged
      /\ \A j \in Connection, v \in WebRequest : InTransit(v, j)' <=> InTransit(v, j)
      /\ \A j \in Connection \ {k} : CanAnswer(j)' <=> CanAnswer(j)
  BY DEF HostAt, hostVars, InTransit, CanAnswer, Disposed, BackendLost, EndsUnchanged
<1>3. \A j \in Connection \ {k} :
          /\ Redirected(j)' = Redirected(j) /\ Waiting(j)' = Waiting(j)
          /\ Len(connection'[j].toBackend) <= Len(connection[j].toBackend)
  BY Sequenced DEF IInv, TypeOK, Redirected, Waiting, Goes
<1>4. ~CanAnswer(k) => ~CanAnswer(k)' /\ Redirected(k)' \subseteq Redirected(k)
  BY DEF CanAnswer, Disposed, BackendLost, EndsUnchanged, Redirected, Goes
<1>5. AnswersAreAcknowledged'
  <2>1. CASE ~CanAnswer(k)
    <3>1. \A j \in Connection : Redirected(j)' \subseteq Redirected(j)
      BY <2>1, <1>3, <1>4
    <3> QED BY <1>1, <1>2, <1>3, <3>1, AcknowledgedFrame
  <2>2. CASE CanAnswer(k)
    <3> DEFINE redirected == Cardinality(Redirected(k))
               redirectedNext == Cardinality(Redirected(k)')
               reply == One(HostAt("reply", k))
               all == Cardinality(acknowledged[k])
    <3>1. redirectedNext \in Nat /\ redirectedNext <= redirected + 1
      <4>1. Redirected(k)' \in SUBSET (Redirected(k) \cup {w})
        BY DEF Redirected, Goes
      <4>2. Redirected(k) \cup {w} \in SUBSET WebRequest /\ w \notin Redirected(k)
        BY DEF Redirected
      <4>3. Cardinality(Redirected(k) \cup {w}) = redirected + 1
        BY <4>2, Counts, FS_AddElement
      <4> QED BY <4>1, <4>2, <4>3, Counts
    <3>2. redirected \in Nat /\ reply \in Nat /\ all \in Nat
      BY Counts, Typed DEF IInv, One
    <3>3. redirected + arrived + reply <= all
      BY DEF IInv, AnswersAreAcknowledged, Acknowledged
    <3>4. Acknowledged(k)' <=> redirectedNext + arrivedNext + reply <= all
      BY <1>2 DEF Acknowledged, One
    <3>5. Acknowledged(k)'
      <4> HIDE DEF redirected, redirectedNext, arrived, arrivedNext, reply, all
      <4> QED BY <1>1, <2>2, <3>1, <3>2, <3>3, <3>4
    <3>6. \A j \in Connection \ {k} : Redirected(j)' \subseteq Redirected(j)
      BY <1>3
    <3> QED BY <1>2, <1>3, <3>5, <3>6, AcknowledgedFrame
  <2> QED BY <2>1, <2>2
<1>6. AnswersAreAwaited'
  <2>1. ~CanAnswer(k)' \/ Awaited(k)'
    <3> SUFFICES ASSUME CanAnswer(k)
                 PROVE  Awaited(k)'
      BY <1>4
    <3> DEFINE addresses == Cardinality({v \in WebRequest : InTransit(v, k)})
               told == One(HostAt("whitelist", k))
               reply == One(HostAt("reply", k))
               waiting == Cardinality(Waiting(k))
               waitingNext == Cardinality(Waiting(k)')
    <3>1. waitingNext = waiting - 1
      <4>1. Waiting(k)' = Waiting(k) \ {w} /\ w \in Waiting(k)
        BY DEF Waiting, Goes
      <4> QED BY <4>1, Counts, FS_RemoveElement
    <3>2. addresses \in Nat /\ told \in Nat /\ reply \in Nat /\ waiting \in Nat
      BY Counts DEF One
    <3>3. addresses + told + reply + arrived <= waiting
      BY DEF IInv, AnswersAreAwaited, Awaited
    <3>4. Awaited(k)' <=> addresses + told + reply + arrivedNext <= waitingNext
      <4>1. {v \in WebRequest : InTransit(v, k)'} = {v \in WebRequest : InTransit(v, k)}
        BY <1>2
      <4> QED BY <1>2, <4>1 DEF Awaited, One
    <3> HIDE DEF addresses, told, reply, waiting, waitingNext, arrived, arrivedNext
    <3> QED BY <1>1, <3>1, <3>2, <3>3, <3>4
  <2>2. \A j \in Connection \ {k} : Waiting(j) \subseteq Waiting(j)'
    BY <1>3
  <2> QED BY <1>2, <1>3, <2>1, <2>2, AwaitedFrame
<1>7. LoneRequests'
  <2> SUFFICES ASSUME NEW v \in WebRequest, web'[v].alone
               PROVE  Lone(v)'
    BY DEF LoneRequests
  <2>1. web[v].alone /\ Lone(v)
    BY DEF Goes, IInv, LoneRequests
  <2>2. \A j : Using(j)' \subseteq Using(j)
    BY DEF Using, Goes, WebAtWork
  <2>3. CASE v = w
    <3>1. pc \in WebAtWork => Using(k)' = {w}
      BY <2>1, <2>2, <2>3 DEF Lone, Using, Goes, WebAtWork
    <3>2. pc = "redirect" => w \in acknowledged[k]
      BY <2>1, <2>3 DEF Lone
    <3> QED BY <2>3, <3>1, <3>2, <1>2 DEF Lone, Goes
  <2>4. CASE v # w
    <3>1. web[v].pc = "receive" => web[v].k \in Connection \ {k}
      <4>1. web[v].pc = "receive" => web[v].k \in Connection
        BY Typed DEF IInv, UsesEntered, WebAtWork
      <4>2. web[v].pc = "receive" /\ web[v].k = k => FALSE
        BY <2>1, <2>4 DEF Lone, Using, WebAtWork
      <4> QED BY <4>1, <4>2
    <3>2. UNCHANGED web[v] /\ UNCHANGED host
      BY <2>4 DEF Goes, hostVars
    <3> QED BY <2>1, <2>2, <3>1, <3>2, <1>2, LoneQuiet
  <2> QED BY <2>3, <2>4
<1> QED BY <1>5, <1>6, <1>7

\* Visitor w's address was sent to the host, or vanished.
LEMMA AddressSent ==
    ASSUME IInv, TypeOK', NEW w \in WebRequest, NEW k \in Connection, Goes(w, "receive"),
           UNCHANGED <<hostVars, registered>>, EndsUnchanged,
           web[w].pc = "send", web[w].k = k, Entered(k),
           \A j \in Connection :
               /\ UNCHANGED connection[j].toBackend
               /\ j # k => UNCHANGED connection[j].toHost,
           \A v \in WebRequest : InTransit(v, k)' => InTransit(v, k) \/ v = w
    PROVE  AnswersAreAcknowledged' /\ AnswersAreAwaited' /\ LoneRequests'
<1>1. /\ \A j \in Connection : HostAt("whitelist", j)' <=> HostAt("whitelist", j)
      /\ \A j \in Connection : HostAt("reply", j)' <=> HostAt("reply", j)
      /\ UNCHANGED <<acknowledged, host>>
      /\ \A j \in Connection : CanAnswer(j)' <=> CanAnswer(j)
  BY DEF HostAt, hostVars, CanAnswer, Disposed, BackendLost, EndsUnchanged
<1>2. \A j \in Connection \ {k}, v \in WebRequest : InTransit(v, j)' <=> InTransit(v, j)
  BY DEF InTransit
<1>3. \A j \in Connection : Len(connection'[j].toBackend) <= Len(connection[j].toBackend)
  BY Sequenced DEF IInv, TypeOK
<1>4. AnswersAreAcknowledged'
  <2>1. \A j \in Connection : Redirected(j)' = Redirected(j)
    BY DEF Redirected, Goes
  <2> QED BY <1>1, <1>3, <2>1, AcknowledgedFrame
<1>5. AnswersAreAwaited'
  <2>1. ~CanAnswer(k)' \/ Awaited(k)'
    <3> SUFFICES ASSUME CanAnswer(k)
                 PROVE  Awaited(k)'
      BY <1>1
    <3> DEFINE T == {v \in WebRequest : InTransit(v, k)}
               U == {v \in WebRequest : InTransit(v, k)'}
               addresses == Cardinality(T)
               addressesNext == Cardinality(U)
               told == One(HostAt("whitelist", k))
               reply == One(HostAt("reply", k))
               arrived == Len(connection[k].toBackend)
               waiting == Cardinality(Waiting(k))
               waitingNext == Cardinality(Waiting(k)')
    <3>1. waitingNext = waiting + 1
      <4>1. Waiting(k)' = Waiting(k) \cup {w} /\ w \notin Waiting(k)
        BY DEF Waiting, Goes
      <4> QED BY <4>1, Counts, FS_AddElement
    <3>2. addressesNext \in Nat /\ addressesNext <= addresses + 1
      <4>1. U \in SUBSET (T \cup {w}) /\ T \in SUBSET WebRequest /\ T \cup {w} \in SUBSET WebRequest
        OBVIOUS
      <4>2. w \notin T
        BY DEF IInv, WhitelistedOnce, Once
      <4> HIDE DEF T, U
      <4>3. Cardinality(T \cup {w}) = addresses + 1
        BY <4>1, <4>2, Counts, FS_AddElement
      <4> QED BY <4>1, <4>3, Counts
    <3>3. addresses \in Nat /\ told \in Nat /\ reply \in Nat /\ arrived \in Nat /\ waiting \in Nat
      BY Counts, Sequenced DEF One, IInv, TypeOK
    <3>4. addresses + told + reply + arrived <= waiting
      BY DEF IInv, AnswersAreAwaited, Awaited
    <3>5. Awaited(k)' <=> addressesNext + told + reply + arrived <= waitingNext
      BY <1>1 DEF Awaited, One
    <3> HIDE DEF T, U, addresses, addressesNext, told, reply, arrived, waiting, waitingNext
    <3> QED BY <3>1, <3>2, <3>3, <3>4, <3>5
  <2>2. \A j \in Connection : Waiting(j) \subseteq Waiting(j)'
    BY DEF Waiting, Goes
  <2> QED BY <1>1, <1>2, <1>3, <2>1, <2>2, AwaitedFrame
<1>6. LoneRequests'
  <2> SUFFICES ASSUME NEW v \in WebRequest, web'[v].alone
               PROVE  Lone(v)'
    BY DEF LoneRequests
  <2>1. web[v].alone /\ Lone(v)
    BY DEF Goes, IInv, LoneRequests
  <2>2. \A j : Using(j)' \subseteq Using(j)
    BY DEF Using, Goes, WebAtWork
  <2>3. CASE v = w
    <3>1. Using(k) = {w} /\ Using(k)' = {w}
      BY <2>1, <2>2, <2>3 DEF Lone, Using, Goes, WebAtWork
    <3>2. ASSUME CanAnswer(k)
          PROVE  /\ \A u \in WebRequest : ~InTransit(u, k)
                 /\ ~HostAt("whitelist", k) /\ ~HostAt("reply", k)
                 /\ connection[k].toBackend = <<>>
      <4> DEFINE T == {u \in WebRequest : InTransit(u, k)}
                 addresses == Cardinality(T)
                 told == One(HostAt("whitelist", k))
                 reply == One(HostAt("reply", k))
                 arrived == Len(connection[k].toBackend)
                 waiting == Cardinality(Waiting(k))
      <4>1. waiting = 0
        <5>1. Waiting(k) \subseteq Using(k) /\ w \notin Waiting(k)
          BY DEF Waiting, Using, WebAtWork
        <5>2. Waiting(k) = {}
          BY <3>1, <5>1
        <5> QED BY <5>2, FS_EmptySet
      <4>2. addresses + told + reply + arrived <= waiting
        BY <3>2 DEF IInv, AnswersAreAwaited, Awaited
      <4>3. addresses \in Nat /\ told \in Nat /\ reply \in Nat /\ arrived \in Nat
        BY Counts, Sequenced DEF One, IInv, TypeOK
      <4>4. addresses = 0 /\ told = 0 /\ reply = 0 /\ arrived = 0
        <5> HIDE DEF addresses, told, reply, arrived, waiting
        <5> QED BY <4>1, <4>2, <4>3
      <4>5. T = {}
        BY <4>4, Counts, FS_EmptySet
      <4> QED BY <4>4, <4>5, Sequenced DEF One, IInv, TypeOK
    <3> QED BY <2>3, <3>1, <3>2, <1>1 DEF Lone, Goes
  <2>4. CASE v # w
    <3>1. web[v].pc = "receive" => web[v].k \in Connection \ {k}
      <4>1. web[v].pc = "receive" => web[v].k \in Connection
        BY Typed DEF IInv, UsesEntered, WebAtWork
      <4>2. web[v].pc = "receive" /\ web[v].k = k => FALSE
        BY <2>1, <2>4 DEF Lone, Using, WebAtWork
      <4> QED BY <4>1, <4>2
    <3>2. UNCHANGED web[v]
      BY <2>4 DEF Goes
    <3> QED BY <2>1, <2>2, <3>1, <3>2, <1>1, <1>2, LoneQuiet
  <2> QED BY <2>3, <2>4
<1> QED BY <1>4, <1>5, <1>6

-----------------------------------------------------------------------------
(* The steps of the host *)

LEMMA ConnectToBackendInv ==
    ASSUME IInv, NEW k \in Connection, ConnectToBackend(k), UNCHANGED backendVars
    PROVE  IInv'
<1>1. host.k = None /\ host' = [pc |-> "postHeader", k |-> k, client |-> None]
  BY DEF IInv, HostOwns, ConnectToBackend
<1>2. UNCHANGED <<whitelist, acknowledged, backendVars>>
  BY DEF ConnectToBackend
<1>3. /\ ConnectionTypeOK'
      /\ \A j \in Connection :
            UNCHANGED <<connection[j].toHost, connection[j].toBackend, connection[j].broken>>
  BY EndEffect DEF IInv, TypeOK, ConnectToBackend
<1>4. \A j \in Connection :
          /\ connection'[j].backend = connection[j].backend
          /\ connection'[j].host = IF j = k THEN "open" ELSE connection[j].host
  BY DEF IInv, TypeOK, ConnectionTypeOK, ConnectToBackend
<1>5. /\ connection[k].host = "none" /\ connection[k].backend = "none"
      /\ connection[k].toBackend = <<>>
  BY DEF ConnectToBackend, Unused
<1>6. acceptor[k] = "none" /\ ~Entered(k)
  BY <1>5 DEF IInv, Registry
<1>7. TypeOK'
  BY <1>1, <1>2, <1>3 DEF IInv, TypeOK, HostTypeOK, BackendTypeOK, backendVars
<1>8. HostOwns'
  BY <1>1, <1>2, <1>4, <1>5, NoneAssumption DEF IInv, HostOwns
<1>9. Registry'
  BY <1>4, RegistryQuiet DEF backendVars, EndsUnchanged
<1>10. UsesEntered'
  BY <1>1, <1>3 DEF IInv, UsesEntered, Entered, backendVars
<1>11. RegistrationArrives'
  <2> SUFFICES ASSUME NEW j \in Connection
               PROVE  Arrives(j)'
    BY DEF RegistrationArrives
  <2>1. CASE j = k
    BY <1>1, <1>3, <1>5, <1>6, <2>1 DEF Arrives, HostAt, Entered, backendVars
  <2>2. CASE j # k
    BY <1>1, <1>3, <1>4, <2>2, NoneAssumption, ArrivesQuiet DEF HostAt, HostLost, backendVars
  <2> QED BY <2>1, <2>2
<1>12. PostsAreWhole'
  <2>1. ASSUME NEW j \in Connection
        PROVE  Whole(j)'
    BY <1>1, <1>3, WholeQuiet DEF HostAt, hostVars, EndsUnchanged
  <2>2. host'.pc = "whitelist" => host'.client \in WebRequest
    BY <1>1 DEF IInv, PostsAreWhole, hostVars
  <2> QED BY <2>1, <2>2 DEF PostsAreWhole
<1>13. WhitelistedOnce'
  <2> SUFFICES ASSUME NEW v \in WebRequest, NEW j \in Connection
               PROVE  Once(v, j)'
    BY DEF WhitelistedOnce
  <2> QED BY <1>1, <1>2, <1>3, OnceQuiet DEF Told, HostAt, backendVars
<1>14. AnswersAreAcknowledged' /\ AnswersAreAwaited' /\ LoneRequests'
  <2>1. \A j \in Connection : Entered(j) => Subsides(j)
    BY <1>1, <1>3, <1>4, <1>6 DEF Subsides, CanAnswer, BackendLost, Disposed, InTransit, HostAt
  <2> QED BY <1>2, <1>7, <2>1, SubsidingStep DEF hostVars, backendVars
<1> QED BY <1>7, <1>8, <1>9, <1>10, <1>11, <1>12, <1>13, <1>14 DEF IInv

LEMMA PostHeaderInv ==
    ASSUME IInv, NEW k \in Connection, PostHeader(k), UNCHANGED backendVars
    PROVE  IInv'
<1>1. HostAt("postHeader", k) /\ UNCHANGED <<whitelist, acknowledged, backendVars>>
  BY DEF PostHeader
<1>2. \E pc \in {"postBody", "response"} :
          /\ host' = [pc |-> pc, k |-> host.k, client |-> host.client]
          /\ pc = "response" => HostLost(k) /\ UNCHANGED connection
  BY HostGotoEffect DEF IInv, TypeOK, PostHeader
<1>3. /\ ConnectionTypeOK' /\ EndsUnchanged
      /\ \A j \in Connection :
            /\ connection'[j].toHost = connection[j].toHost
            /\ connection'[j].toBackend =
                  IF j = k /\ ~HostLost(k) THEN Append(connection[j].toBackend, Header(None))
                  ELSE connection[j].toBackend
  BY HostSendsOrNot, Pieces DEF IInv, TypeOK, PostHeader
<1>4. ~Entered(k) /\ acceptor[k] # "register"
  BY <1>1 DEF IInv, RegistrationArrives, Arrives
<1>5. TypeOK'
  BY <1>1, <1>2, <1>3 DEF IInv, TypeOK, HostTypeOK, BackendTypeOK, backendVars
<1>6. HostOwns'
  BY <1>1, <1>2, <1>3, OwnsQuiet DEF HostAt, hostVars, EndsUnchanged
<1>7. Registry'
  BY <1>3, RegistryQuiet DEF backendVars, EndsUnchanged
<1>8. UsesEntered'
  BY <1>2, <1>3 DEF IInv, UsesEntered, Entered, backendVars
<1>9. RegistrationArrives'
  <2> SUFFICES ASSUME NEW j \in Connection
               PROVE  Arrives(j)'
    BY DEF RegistrationArrives
  <2>1. CASE j = k
    <3> DEFINE length == Len(connection[k].toBackend)
               lengthNext == Len(connection'[k].toBackend)
    <3>1. lengthNext = IF HostLost(k) THEN length ELSE length + 1
      BY <1>3, Sequenced, Pieces, Grown DEF IInv, TypeOK
    <3>2. /\ HostLost(k)' <=> HostLost(k)
          /\ Entered(k)' <=> Entered(k)
          /\ UNCHANGED acceptor
      BY <1>3 DEF HostLost, EndsUnchanged, Entered, backendVars
    <3>3. length \in Nat
      BY Sequenced DEF IInv, TypeOK
    <3>4. ~HostAt("postHeader", k)' /\ (HostAt("postBody", k)' \/ HostLost(k)) /\ HostAt("postHeader", k)
      BY <1>1, <1>2 DEF HostAt
    <3>5. Arrives(k)
      BY DEF IInv, RegistrationArrives
    <3>6. /\ acceptor[k] \in {"none", "receive"} => length = 0
          /\ acceptor[k] # "body"
      BY <3>4, <3>5 DEF Arrives
    <3> HIDE DEF length, lengthNext
    <3>7. /\ acceptor[k] \in {"none", "receive"} =>
                lengthNext <= 2 /\ (lengthNext = 1 \/ (lengthNext = 0 /\ HostLost(k)))
          /\ acceptor[k] # "body"
      BY <3>1, <3>2, <3>3, <3>4, <3>6
    <3> QED BY <1>4, <2>1, <3>2, <3>4, <3>7 DEF Arrives, lengthNext
  <2>2. CASE j # k
    BY <1>1, <1>2, <1>3, <2>2, ArrivesQuiet DEF HostAt, HostLost, backendVars, EndsUnchanged
  <2> QED BY <2>1, <2>2
<1>10. PostsAreWhole'
  <2>1. ASSUME NEW j \in Connection
        PROVE  Whole(j)'
    BY <1>2, <1>3, WholeQuiet DEF HostAt, hostVars, EndsUnchanged
  <2>2. host'.pc = "whitelist" => host'.client \in WebRequest
    BY <1>2 DEF IInv, PostsAreWhole, hostVars
  <2> QED BY <2>1, <2>2 DEF PostsAreWhole
<1>11. WhitelistedOnce'
  <2> SUFFICES ASSUME NEW v \in WebRequest, NEW j \in Connection
               PROVE  Once(v, j)'
    BY DEF WhitelistedOnce
  <2> QED BY <1>1, <1>2, <1>3, OnceQuiet DEF Told, HostAt, backendVars
<1>12. AnswersAreAcknowledged' /\ AnswersAreAwaited' /\ LoneRequests'
  <2>1. \A j \in Connection : Entered(j) => Subsides(j)
    BY <1>2, <1>3, <1>4 DEF Subsides, CanAnswer, BackendLost, Disposed, InTransit, HostAt,
       EndsUnchanged
  <2> QED BY <1>1, <1>5, <2>1, SubsidingStep DEF hostVars, backendVars
<1> QED BY <1>5, <1>6, <1>7, <1>8, <1>9, <1>10, <1>11, <1>12 DEF IInv

LEMMA PostBodyInv ==
    ASSUME IInv, NEW k \in Connection, PostBody(k), UNCHANGED backendVars
    PROVE  IInv'
<1>1. HostAt("postBody", k) /\ UNCHANGED <<whitelist, acknowledged, backendVars>>
  BY DEF PostBody
<1>2. host' = [pc |-> "response", k |-> host.k, client |-> host.client]
  BY HostGotoEffect DEF IInv, TypeOK, PostBody
<1>3. /\ ConnectionTypeOK' /\ EndsUnchanged
      /\ \A j \in Connection :
            /\ connection'[j].toHost = connection[j].toHost
            /\ connection'[j].toBackend =
                  IF j = k /\ ~HostLost(k) THEN Append(connection[j].toBackend, Body(None))
                  ELSE connection[j].toBackend
  BY HostSendsOrNot, Pieces DEF IInv, TypeOK, PostBody
<1>4. ~Entered(k) /\ acceptor[k] # "register"
  BY <1>1 DEF IInv, RegistrationArrives, Arrives
<1>5. TypeOK'
  BY <1>1, <1>2, <1>3 DEF IInv, TypeOK, HostTypeOK, BackendTypeOK, backendVars
<1>6. HostOwns'
  BY <1>1, <1>2, <1>3, OwnsQuiet DEF HostAt, hostVars, EndsUnchanged
<1>7. Registry'
  BY <1>3, RegistryQuiet DEF backendVars, EndsUnchanged
<1>8. UsesEntered'
  BY <1>2, <1>3 DEF IInv, UsesEntered, Entered, backendVars
<1>9. RegistrationArrives'
  <2> SUFFICES ASSUME NEW j \in Connection
               PROVE  Arrives(j)'
    BY DEF RegistrationArrives
  <2>1. CASE j = k
    <3> DEFINE length == Len(connection[k].toBackend)
               lengthNext == Len(connection'[k].toBackend)
    <3>1. lengthNext = IF HostLost(k) THEN length ELSE length + 1
      BY <1>1, <1>2, <1>3, <1>4, Sequenced, Pieces, Grown DEF IInv, TypeOK
    <3>2. /\ HostLost(k)' <=> HostLost(k)
          /\ Entered(k)' <=> Entered(k)
          /\ UNCHANGED acceptor
      BY <1>3 DEF HostLost, EndsUnchanged, Entered, backendVars
    <3>3. length \in Nat
      BY Sequenced DEF IInv, TypeOK
    <3>4. ~HostAt("postHeader", k)' /\ ~HostAt("postBody", k)' /\ HostAt("postBody", k) /\ ~HostAt("postHeader", k)
      BY <1>1, <1>2 DEF HostAt
    <3>5. Arrives(k)
      BY DEF IInv, RegistrationArrives
    <3>6. /\ acceptor[k] \in {"none", "receive"} => length \in {0, 1}
          /\ acceptor[k] = "body" => length = 0
      BY <3>4, <3>5 DEF Arrives
    <3> HIDE DEF length, lengthNext
    <3>7. /\ acceptor[k] \in {"none", "receive"} => lengthNext <= 2
          /\ acceptor[k] = "body" => lengthNext <= 1
      BY <3>1, <3>2, <3>3, <3>4, <3>6
    <3> QED BY <1>4, <2>1, <3>2, <3>4, <3>7 DEF Arrives, lengthNext
  <2>2. CASE j # k
    BY <1>1, <1>2, <1>3, <2>2, ArrivesQuiet DEF HostAt, HostLost, backendVars, EndsUnchanged
  <2> QED BY <2>1, <2>2
<1>10. PostsAreWhole'
  <2>1. ASSUME NEW j \in Connection
        PROVE  Whole(j)'
    BY <1>2, <1>3, WholeQuiet DEF HostAt, hostVars, EndsUnchanged
  <2>2. host'.pc = "whitelist" => host'.client \in WebRequest
    BY <1>2 DEF IInv, PostsAreWhole, hostVars
  <2> QED BY <2>1, <2>2 DEF PostsAreWhole
<1>11. WhitelistedOnce'
  <2> SUFFICES ASSUME NEW v \in WebRequest, NEW j \in Connection
               PROVE  Once(v, j)'
    BY DEF WhitelistedOnce
  <2> QED BY <1>1, <1>2, <1>3, OnceQuiet DEF Told, HostAt, backendVars
<1>12. AnswersAreAcknowledged' /\ AnswersAreAwaited' /\ LoneRequests'
  <2>1. \A j \in Connection : Entered(j) => Subsides(j)
    BY <1>2, <1>3, <1>4 DEF Subsides, CanAnswer, BackendLost, Disposed, InTransit, HostAt,
       EndsUnchanged
  <2> QED BY <1>1, <1>5, <2>1, SubsidingStep DEF hostVars, backendVars
<1> QED BY <1>5, <1>6, <1>7, <1>8, <1>9, <1>10, <1>11, <1>12 DEF IInv

LEMMA ReceiveResponseInv ==
    ASSUME IInv, NEW k \in Connection, ReceiveResponse(k), UNCHANGED backendVars
    PROVE  IInv'
<1>1. CASE \E n \in 1 .. Len(connection[k].toHost) :
              /\ HostReceives(k, n)
              /\ HostGoto(IF connection[k].toHost[1] = Ok THEN "receive" ELSE "close")
  <2>1. PICK n \in 1 .. Len(connection[k].toHost), pc \in {"receive", "close"} :
            HostReceives(k, n) /\ HostGoto(pc)
    BY <1>1
  <2>2. Received(k, n)
    BY <2>1, HostReceivesEffect DEF IInv, TypeOK
  <2>3. host' = [pc |-> pc, k |-> host.k, client |-> host.client]
    BY <2>1, HostGotoEffect DEF IInv, TypeOK
  <2>4. TypeOK' /\ UNCHANGED <<whitelist, acknowledged>>
    BY <2>2, <2>3 DEF IInv, TypeOK, HostTypeOK, BackendTypeOK, Received, backendVars,
       ReceiveResponse
  <2> QED BY <2>2, <2>3, <2>4, ReceivedStep DEF ReceiveResponse, HostAt
<1>2. CASE HostGoto("close") /\ UNCHANGED connection
  BY <1>2, ReceiveFails DEF ReceiveResponse, HostAt
<1> QED BY <1>1, <1>2 DEF ReceiveResponse

LEMMA ReceivePostInv ==
    ASSUME IInv, NEW k \in Connection, ReceivePost(k), UNCHANGED backendVars
    PROVE  IInv'
<1> DEFINE arrived == connection[k].toHost
<1>1. UNCHANGED <<whitelist, acknowledged>> /\ HostAt("receive", k)
  BY DEF ReceivePost
<1>2. ASSUME NEW n \in 1 .. Len(arrived), HostReceives(k, n),
             host' = CASE arrived[1].part # "header" -> [host EXCEPT !.pc = "close"]
                       [] arrived[1].part = "header" /\ n = 1 ->
                             [host EXCEPT !.pc = "body"]
                       [] OTHER ->
                             [host EXCEPT !.pc = "whitelist", !.client = arrived[2].of]
      PROVE  IInv'
  <2>1. Received(k, n)
    BY <1>2, HostReceivesEffect DEF IInv, TypeOK
  <2>2. DOMAIN arrived = 1 .. Len(arrived) /\ Len(arrived) \in Nat
    BY Sequenced DEF IInv, TypeOK
  <2>3. arrived[1].part = "header" /\ n # 1 =>
            arrived[1].of \in WebRequest /\ arrived[2] = Body(arrived[1].of)
    <3>1. Whole(k) /\ 1 \in DOMAIN arrived
      BY <1>2, <2>2 DEF IInv, PostsAreWhole
    <3>2. n # 1 => 1 # Len(arrived)
      <4> HIDE DEF arrived
      <4> QED BY <2>2
    <3>3. arrived[1].part = "header" /\ 1 # Len(arrived) =>
              arrived[1].of \in WebRequest /\ arrived[1 + 1] = Body(arrived[1].of)
      BY <3>1 DEF Whole
    <3> QED BY <3>2, <3>3
  <2>4. CASE arrived[1].part # "header"
    <3>1. host' = [pc |-> "close", k |-> host.k, client |-> host.client]
      BY <1>2, <2>4 DEF IInv, TypeOK, HostTypeOK
    <3>2. TypeOK'
      BY <1>1, <2>1, <3>1 DEF IInv, TypeOK, HostTypeOK, BackendTypeOK, Received, backendVars
    <3> QED BY <1>1, <2>1, <3>1, <3>2, ReceivedStep DEF HostAt
  <2>5. CASE arrived[1].part = "header" /\ n = 1
    <3>1. host' = [pc |-> "body", k |-> host.k, client |-> host.client]
      BY <1>2, <2>5 DEF IInv, TypeOK, HostTypeOK
    <3>2. TypeOK'
      BY <1>1, <2>1, <3>1 DEF IInv, TypeOK, HostTypeOK, BackendTypeOK, Received, backendVars
    <3> QED BY <1>1, <2>1, <2>5, <3>1, <3>2, ReceivedStep DEF HostAt
  <2>6. CASE arrived[1].part = "header" /\ n # 1
    <3> DEFINE w == arrived[1].of
    <3>1. w \in WebRequest /\ arrived[2] = Body(w) /\ arrived[2].of = w
      BY <2>3, <2>6 DEF Body
    <3>2. host' = [pc |-> "whitelist", k |-> host.k, client |-> w]
      BY <1>2, <2>6, <3>1 DEF IInv, TypeOK, HostTypeOK
    <3>3. TypeOK'
      BY <1>1, <2>1, <3>1, <3>2 DEF IInv, TypeOK, HostTypeOK, BackendTypeOK, Received, backendVars
    <3>4. 2 \in 1 .. n /\ 2 \in DOMAIN arrived
      BY <1>2, <2>2, <2>6
    <3> QED BY <1>1, <2>1, <3>1, <3>2, <3>3, <3>4, ReceivedStep DEF HostAt
  <2> QED BY <2>4, <2>5, <2>6
<1>3. CASE HostGoto("close") /\ UNCHANGED connection
  BY <1>1, <1>3, ReceiveFails DEF HostAt
<1> QED BY <1>2, <1>3 DEF ReceivePost

LEMMA ReceiveBodyInv ==
    ASSUME IInv, NEW k \in Connection, ReceiveBody(k), UNCHANGED backendVars
    PROVE  IInv'
<1> DEFINE arrived == connection[k].toHost
           w == arrived[1].of
<1>1. UNCHANGED <<whitelist, acknowledged>> /\ HostAt("body", k)
  BY DEF ReceiveBody
<1>2. ASSUME HostReceives(k, 1), host' = [host EXCEPT !.pc = "whitelist", !.client = w]
      PROVE  IInv'
  <2>1. Received(k, 1)
    BY <1>2, HostReceivesEffect DEF IInv, TypeOK
  <2>2. arrived \in Seq(Piece) /\ arrived # <<>> /\ 1 \in DOMAIN arrived
    BY <1>2, Sequenced DEF IInv, TypeOK, HostReceives
  <2>3. arrived[1].part = "body" /\ w \in WebRequest
    BY <1>1, <2>2 DEF IInv, PostsAreWhole, Whole
  <2>4. arrived[1] = Body(w)
    <3>1. arrived[1] \in Piece
      BY <2>2
    <3>2. arrived[1] = [part |-> arrived[1].part, of |-> arrived[1].of]
      BY <3>1 DEF Piece
    <3> QED BY <2>3, <3>2 DEF Body
  <2>5. host' = [pc |-> "whitelist", k |-> host.k, client |-> w]
    BY <1>2 DEF IInv, TypeOK, HostTypeOK
  <2>6. TypeOK'
    BY <1>1, <2>1, <2>3, <2>5 DEF IInv, TypeOK, HostTypeOK, BackendTypeOK, Received, backendVars
  <2> QED BY <1>1, <2>1, <2>2, <2>3, <2>4, <2>5, <2>6, ReceivedStep DEF HostAt
<1>3. CASE HostGoto("spin") /\ UNCHANGED connection
  BY <1>1, <1>3, ReceiveFails DEF HostAt
<1> QED BY <1>2, <1>3 DEF ReceiveBody

\* The address that the host was told is new on its whitelist.
LEMMA WhitelistIPInv ==
    ASSUME IInv, NEW k \in Connection, WhitelistIP(k), UNCHANGED backendVars
    PROVE  IInv'
<1>1. HostAt("whitelist", k) /\ UNCHANGED <<connection, backendVars>>
  BY DEF WhitelistIP
<1>2. host' = [pc |-> "reply", k |-> host.k, client |-> host.client]
  BY HostGotoEffect DEF IInv, TypeOK, WhitelistIP
<1>3. /\ whitelist' = whitelist \cup {host.client}
      /\ \A j \in Connection :
            acknowledged'[j] = IF j = k THEN acknowledged[k] \cup {host.client} ELSE acknowledged[j]
      /\ acknowledged' = [j \in Connection |-> acknowledged'[j]]
  BY DEF IInv, TypeOK, HostTypeOK, WhitelistIP
<1>4. host.client \in WebRequest /\ Told(host.client, k) /\ Entered(k)
  BY <1>1 DEF IInv, PostsAreWhole, UsesEntered, Told, HostAt
<1>5. host.client \notin acknowledged[k]
  BY <1>4 DEF IInv, WhitelistedOnce, Once
<1>6. TypeOK'
  <2>1. whitelist' \subseteq WebRequest /\ acknowledged' \in [Connection -> SUBSET WebRequest]
    BY <1>3, <1>4 DEF IInv, TypeOK, HostTypeOK
  <2> QED BY <1>1, <1>2, <2>1 DEF IInv, TypeOK, ConnectionTypeOK, HostTypeOK, BackendTypeOK,
         backendVars
<1>7. HostOwns'
  BY <1>1, <1>2, <1>3 DEF IInv, HostOwns, HostAt
<1>8. Registry'
  BY <1>1, RegistryQuiet DEF backendVars, EndsUnchanged
<1>9. UsesEntered'
  BY <1>1, <1>2 DEF IInv, UsesEntered, Entered, HostAt, backendVars
<1>10. RegistrationArrives'
  <2> SUFFICES ASSUME NEW j \in Connection
               PROVE  Arrives(j)'
    BY DEF RegistrationArrives
  <2> QED BY <1>1, <1>2, ArrivesQuiet DEF HostAt, HostLost, backendVars
<1>11. PostsAreWhole'
  <2>1. ASSUME NEW j \in Connection
        PROVE  Whole(j)'
    BY <1>1, <1>2, WholeQuiet DEF HostAt, hostVars, EndsUnchanged
  <2>2. host'.pc = "whitelist" => host'.client \in WebRequest
    BY <1>2 DEF IInv, PostsAreWhole, hostVars
  <2> QED BY <2>1, <2>2 DEF PostsAreWhole
<1>12. WhitelistedOnce'
  <2> SUFFICES ASSUME NEW v \in WebRequest, NEW j \in Connection
               PROVE  Once(v, j)'
    BY DEF WhitelistedOnce
  <2>1. Once(v, j) /\ ~Told(v, j)'
    BY <1>2 DEF IInv, WhitelistedOnce, Told, HostAt
  <2>2. CASE v = host.client /\ j = k
    BY <1>1, <1>4, <2>1, <2>2 DEF Once, InTransit, backendVars
  <2>3. CASE ~(v = host.client /\ j = k)
    <3>1. v \in acknowledged'[j] <=> v \in acknowledged[j]
      BY <1>3, <2>3
    <3> QED BY <1>1, <2>1, <3>1 DEF Once, InTransit, backendVars
  <2> QED BY <2>2, <2>3
<1>13. AnswersAreAcknowledged' /\ AnswersAreAwaited' /\ LoneRequests'
  <2>1. AnswersAreAcknowledged'
    <3>1. Acknowledged(k)'
      <4> DEFINE redirected == Cardinality(Redirected(k))
                 arrived == Len(connection[k].toBackend)
                 all == Cardinality(acknowledged[k])
      <4>1. redirected \in Nat /\ all \in Nat /\ arrived \in Nat
        BY Counts, Typed DEF IInv
      <4>2. redirected + arrived + 0 <= all
        BY <1>1, <1>4 DEF IInv, AnswersAreAcknowledged, Acknowledged, One, HostAt
      <4>3. Cardinality(acknowledged'[k]) = all + 1
        <5>1. acknowledged'[k] = acknowledged[k] \cup {host.client} /\ IsFiniteSet(acknowledged[k])
          BY <1>3, Counts, Typed DEF IInv
        <5> QED BY <1>5, <5>1, FS_AddElement
      <4>4. Acknowledged(k)' <=> redirected + arrived + 1 <= Cardinality(acknowledged'[k])
        <5>1. Redirected(k)' = Redirected(k) /\ HostAt("reply", k)'
          BY <1>1, <1>2 DEF Redirected, HostAt, backendVars
        <5> QED BY <1>1, <5>1 DEF Acknowledged, One
      <4> HIDE DEF redirected, arrived, all
      <4> QED BY <4>1, <4>2, <4>3, <4>4
    <3>2. \A j \in Connection \ {k} :
              /\ Redirected(j)' = Redirected(j)
              /\ UNCHANGED acknowledged[j]
              /\ Len(connection'[j].toBackend) <= Len(connection[j].toBackend)
              /\ HostAt("reply", j)' => HostAt("reply", j)
      BY <1>1, <1>2, <1>3 DEF Redirected, HostAt, backendVars
    <3> QED BY <1>6, <3>1, <3>2, AcknowledgedFrame DEF backendVars
  <2>2. AnswersAreAwaited'
    <3> SUFFICES ASSUME NEW j \in Connection, Entered(j), CanAnswer(j)
                 PROVE  Awaited(j)'
      BY <1>1 DEF AnswersAreAwaited, Entered, CanAnswer, Disposed, BackendLost, backendVars
    <3> DEFINE arrived == Len(connection[j].toBackend)
    <3>1. arrived \in Nat
      BY Sequenced DEF IInv, TypeOK
    <3>2. One(HostAt("whitelist", j)') + One(HostAt("reply", j)') + arrived
              <= One(HostAt("whitelist", j)) + One(HostAt("reply", j)) + arrived
      <4> HIDE DEF arrived
      <4>1. CASE j = k
        BY <1>1, <3>1, <4>1 DEF One, HostAt
      <4>2. CASE j # k
        BY <1>1, <1>2, <3>1, <4>2 DEF One, HostAt
      <4> QED BY <4>1, <4>2
    <3>3. /\ \A w \in WebRequest : InTransit(w, j)' => InTransit(w, j)
          /\ Waiting(j) \subseteq Waiting(j)'
      BY <1>1 DEF InTransit, Waiting, backendVars
    <3> QED BY <1>1, <1>6, <3>2, <3>3, AwaitedQuiet
  <2>3. LoneRequests'
    <3> SUFFICES ASSUME NEW v \in WebRequest, web[v].alone
                 PROVE  Lone(v)'
      BY DEF LoneRequests, backendVars
    <3>1. Using(web[v].k)' \subseteq Using(web[v].k)
      BY DEF Using, backendVars
    <3>2. \A j \in Connection : acknowledged[j] \subseteq acknowledged'[j]
      BY <1>3
    <3>3. /\ ~HostAt("whitelist", web[v].k)'
          /\ HostAt("reply", web[v].k)' =>
                HostAt("whitelist", web[v].k) /\ host.client \in acknowledged'[web[v].k]
      BY <1>1, <1>2, <1>3 DEF HostAt, backendVars
    <3> QED BY <1>1, <3>1, <3>2, <3>3, LoneQuiet DEF CanAnswer, Disposed, BackendLost, InTransit,
           backendVars
  <2> QED BY <2>1, <2>2, <2>3
<1> QED BY <1>6, <1>7, <1>8, <1>9, <1>10, <1>11, <1>12, <1>13 DEF IInv

\* The host owes no answer any more; it is in transit, or vanished.
LEMMA SendResponseInv ==
    ASSUME IInv, NEW k \in Connection, SendResponse(k), UNCHANGED backendVars
    PROVE  IInv'
<1>1. HostAt("reply", k) /\ UNCHANGED <<whitelist, acknowledged, backendVars>>
  BY DEF SendResponse
<1>2. host' = [pc |-> "receive", k |-> host.k, client |-> host.client]
  BY HostGotoEffect DEF IInv, TypeOK, SendResponse
<1>3. /\ ConnectionTypeOK' /\ EndsUnchanged
      /\ \A j \in Connection :
            /\ connection'[j].toHost = connection[j].toHost
            /\ connection'[j].toBackend =
                  IF j = k /\ ~HostLost(k) THEN Append(connection[j].toBackend, Ok)
                  ELSE connection[j].toBackend
  BY HostSendsOrNot, Pieces DEF IInv, TypeOK, SendResponse
<1>4. Entered(k)
  BY <1>1 DEF IInv, UsesEntered, HostAt
<1>5. Len(connection'[k].toBackend) =
          IF HostLost(k) THEN Len(connection[k].toBackend) ELSE Len(connection[k].toBackend) + 1
  BY <1>3, Sequenced, Pieces, Grown DEF IInv, TypeOK
<1>6. TypeOK'
  BY <1>1, <1>2, <1>3 DEF IInv, TypeOK, HostTypeOK, BackendTypeOK, backendVars
<1>7. HostOwns'
  BY <1>1, <1>2, <1>3, OwnsQuiet DEF HostAt, hostVars, EndsUnchanged
<1>8. Registry'
  BY <1>3, RegistryQuiet DEF backendVars, EndsUnchanged
<1>9. UsesEntered'
  BY <1>1, <1>2, <1>3 DEF IInv, UsesEntered, Entered, HostAt, backendVars
<1>10. RegistrationArrives'
  <2> SUFFICES ASSUME NEW j \in Connection
               PROVE  Arrives(j)'
    BY DEF RegistrationArrives
  <2> QED BY <1>1, <1>2, <1>3, <1>4, ArrivesQuiet DEF HostAt, HostLost, backendVars, EndsUnchanged
<1>11. PostsAreWhole'
  <2>1. ASSUME NEW j \in Connection
        PROVE  Whole(j)'
    BY <1>2, <1>3, WholeQuiet DEF HostAt, hostVars, EndsUnchanged
  <2>2. host'.pc = "whitelist" => host'.client \in WebRequest
    BY <1>2 DEF IInv, PostsAreWhole, hostVars
  <2> QED BY <2>1, <2>2 DEF PostsAreWhole
<1>12. WhitelistedOnce'
  <2> SUFFICES ASSUME NEW v \in WebRequest, NEW j \in Connection
               PROVE  Once(v, j)'
    BY DEF WhitelistedOnce
  <2> QED BY <1>1, <1>2, <1>3, OnceQuiet DEF Told, HostAt, backendVars
<1>13. AnswersAreAcknowledged' /\ AnswersAreAwaited' /\ LoneRequests'
  <2> DEFINE arrived == Len(connection[k].toBackend)
             arrivedNext == Len(connection'[k].toBackend)
  <2>1. arrived \in Nat /\ arrivedNext \in {arrived, arrived + 1}
    BY <1>5 DEF IInv, TypeOK
  <2>2. /\ One(HostAt("reply", k)) = 1 /\ One(HostAt("reply", k)') = 0
        /\ One(HostAt("whitelist", k)) = 0 /\ One(HostAt("whitelist", k)') = 0
    BY <1>1, <1>2 DEF HostAt, One
  <2>3. AnswersAreAcknowledged'
    <3>1. arrivedNext + One(HostAt("reply", k)') <= arrived + One(HostAt("reply", k))
      <4> HIDE DEF arrived, arrivedNext
      <4> QED BY <2>1, <2>2
    <3>2. Redirected(k)' \subseteq Redirected(k)
      BY DEF Redirected, backendVars
    <3>3. Acknowledged(k)'
      BY <1>1, <1>4, <1>6, <3>1, <3>2, AcknowledgedQuiet
    <3>4. \A j \in Connection \ {k} :
              /\ Redirected(j)' = Redirected(j)
              /\ UNCHANGED acknowledged[j]
              /\ Len(connection'[j].toBackend) <= Len(connection[j].toBackend)
              /\ HostAt("reply", j)' => HostAt("reply", j)
      BY <1>1, <1>2, <1>3 DEF Redirected, HostAt, backendVars
    <3> QED BY <1>6, <3>3, <3>4, AcknowledgedFrame DEF backendVars
  <2>4. AnswersAreAwaited'
    <3> SUFFICES ASSUME NEW j \in Connection, Entered(j), CanAnswer(j)'
                 PROVE  Awaited(j)'
      BY DEF AnswersAreAwaited, Entered, backendVars
    <3>1. CASE j = k
      <4>1. CanAnswer(k)
        BY <1>1, <1>3, <3>1 DEF HostLost, CanAnswer, Disposed, BackendLost, EndsUnchanged, HostAt,
           IInv, HostOwns
      <4>2. One(HostAt("whitelist", k)') + One(HostAt("reply", k)') + arrivedNext
                <= One(HostAt("whitelist", k)) + One(HostAt("reply", k)) + arrived
        <5> HIDE DEF arrived, arrivedNext
        <5> QED BY <2>1, <2>2
      <4>3. /\ \A w \in WebRequest : InTransit(w, k)' => InTransit(w, k)
            /\ Waiting(k) \subseteq Waiting(k)'
        BY <1>3 DEF InTransit, Waiting, backendVars
      <4> QED BY <1>6, <3>1, <4>1, <4>2, <4>3, AwaitedQuiet
    <3>2. CASE j # k
      <4>1. Subsides(j)
        BY <1>2, <1>3, <3>2 DEF Subsides, CanAnswer, BackendLost, Disposed, InTransit, HostAt,
           EndsUnchanged
      <4>2. One(HostAt("whitelist", j)') + One(HostAt("reply", j)') + Len(connection'[j].toBackend)
                <= One(HostAt("whitelist", j)) + One(HostAt("reply", j)) + Len(connection[j].toBackend)
        <5>1. ~HostAt("whitelist", j)' /\ ~HostAt("reply", j)' /\ ~HostAt("whitelist", j) /\ ~HostAt("reply", j)
          BY <1>1, <1>2, <3>2 DEF HostAt
        <5>2. UNCHANGED connection[j].toBackend
          BY <1>3, <3>2
        <5> QED BY <5>1, <5>2, Sequenced DEF IInv, TypeOK, One
      <4>3. Waiting(j) \subseteq Waiting(j)'
        BY DEF Waiting, backendVars
      <4> QED BY <1>6, <4>1, <4>2, <4>3, AwaitedQuiet DEF Subsides
    <3> QED BY <3>1, <3>2
  <2>5. LoneRequests'
    <3> SUFFICES ASSUME NEW v \in WebRequest, web[v].alone
                 PROVE  Lone(v)'
      BY DEF LoneRequests, backendVars
    <3>1. Using(web[v].k)' \subseteq Using(web[v].k)
      BY DEF Using, backendVars
    <3>2. web[v].pc = "receive" => web[v].k \in Connection
      BY Typed DEF IInv, UsesEntered, WebAtWork
    <3>3. \A j \in Connection :
              /\ CanAnswer(j)' => CanAnswer(j)
              /\ ~HostAt("whitelist", j)' /\ ~HostAt("reply", j)'
              /\ connection'[j].toBackend # <<>> => connection[j].toBackend # <<>> \/ HostAt("reply", j)
              /\ UNCHANGED connection[j].toHost
      BY <1>1, <1>2, <1>3 DEF HostLost, CanAnswer, Disposed, BackendLost, EndsUnchanged, HostAt,
         IInv, HostOwns
    <3>4. \A j \in Connection : acknowledged[j] \subseteq acknowledged'[j]
      BY <1>1
    <3> QED BY <3>1, <3>2, <3>3, <3>4, LoneQuiet DEF InTransit, backendVars
  <2> QED BY <2>3, <2>4, <2>5
<1> QED BY <1>6, <1>7, <1>8, <1>9, <1>10, <1>11, <1>12, <1>13 DEF IInv

LEMMA CloseConnectionInv ==
    ASSUME IInv, NEW k \in Connection, CloseConnection(k), UNCHANGED backendVars
    PROVE  IInv'
<1>1. HostAt("close", k) /\ UNCHANGED <<acknowledged, backendVars>>
  BY DEF CloseConnection
<1>2. host' = [pc |-> "connect", k |-> None, client |-> None] /\ whitelist' = {}
  BY DEF CloseConnection
<1>3. /\ ConnectionTypeOK'
      /\ \A j \in Connection :
            UNCHANGED <<connection[j].toHost, connection[j].toBackend, connection[j].broken>>
  BY EndEffect DEF IInv, TypeOK, CloseConnection
<1>4. \A j \in Connection :
          /\ connection'[j].backend = connection[j].backend
          /\ connection'[j].host = IF j = k THEN "closed" ELSE connection[j].host
  BY DEF IInv, TypeOK, ConnectionTypeOK, CloseConnection
<1>5. TypeOK'
  BY <1>1, <1>2, <1>3 DEF IInv, TypeOK, HostTypeOK, BackendTypeOK, backendVars
<1>6. HostOwns'
  BY <1>1, <1>2, <1>4, NoneAssumption DEF IInv, HostOwns, HostAt
<1>7. Registry'
  BY <1>4, RegistryQuiet DEF backendVars, EndsUnchanged
<1>8. UsesEntered'
  BY <1>2, <1>3 DEF IInv, UsesEntered, Entered, backendVars
<1>9. RegistrationArrives'
  <2> SUFFICES ASSUME NEW j \in Connection
               PROVE  Arrives(j)'
    BY DEF RegistrationArrives
  <2> QED BY <1>1, <1>2, <1>3, <1>4, ArrivesQuiet DEF HostAt, HostLost, backendVars
<1>10. PostsAreWhole'
  <2>1. ASSUME NEW j \in Connection
        PROVE  Whole(j)'
    BY <1>2, <1>3, WholeQuiet DEF HostAt, hostVars, EndsUnchanged
  <2>2. host'.pc = "whitelist" => host'.client \in WebRequest
    BY <1>2 DEF IInv, PostsAreWhole, hostVars
  <2> QED BY <2>1, <2>2 DEF PostsAreWhole
<1>11. WhitelistedOnce'
  <2> SUFFICES ASSUME NEW v \in WebRequest, NEW j \in Connection
               PROVE  Once(v, j)'
    BY DEF WhitelistedOnce
  <2> QED BY <1>1, <1>2, <1>3, OnceQuiet DEF Told, HostAt, backendVars
<1>12. AnswersAreAcknowledged' /\ AnswersAreAwaited' /\ LoneRequests'
  <2>1. \A j \in Connection : Entered(j) => Subsides(j)
    BY <1>2, <1>3, <1>4 DEF Subsides, CanAnswer, BackendLost, Disposed, InTransit, HostAt
  <2> QED BY <1>1, <1>5, <2>1, SubsidingStep DEF hostVars, backendVars
<1> QED BY <1>5, <1>6, <1>7, <1>8, <1>9, <1>10, <1>11, <1>12 DEF IInv

-----------------------------------------------------------------------------
(* The steps of the threads that accept hosts *)

LEMMA AcceptSocketInv ==
    ASSUME IInv, NEW k \in Connection, AcceptSocket(k), UNCHANGED hostVars
    PROVE  IInv'
<1>1. /\ ConnectionTypeOK'
      /\ \A j \in Connection :
            UNCHANGED <<connection[j].toHost, connection[j].toBackend, connection[j].broken>>
  BY EndEffect DEF IInv, TypeOK, AcceptSocket
<1>2. \A j \in Connection :
          /\ connection'[j].host = connection[j].host
          /\ connection'[j].backend = IF j = k THEN "open" ELSE connection[j].backend
  BY DEF IInv, TypeOK, ConnectionTypeOK, AcceptSocket
<1>3. /\ UNCHANGED <<hostIdentities, registered, web>>
      /\ acceptor[k] = "none" /\ connection[k].backend = "none" /\ ~Entered(k)
  BY DEF AcceptSocket, RegistryUnchanged, IInv, Registry
<1>4. \A j \in Connection : acceptor'[j] = IF j = k THEN "receive" ELSE acceptor[j]
  BY AcceptorEffect DEF IInv, TypeOK, AcceptSocket
<1>5. TypeOK'
  <2>1. acceptor' \in [Connection -> {"none", "receive", "body", "register", "respond",
                                     "drop", "refuse", "spin", "done"}]
    BY DEF IInv, TypeOK, BackendTypeOK, SetAcceptor, AcceptSocket
  <2> QED BY <1>1, <1>3, <2>1 DEF IInv, TypeOK, HostTypeOK, BackendTypeOK, hostVars
<1>6. HostOwns'
  BY <1>2, OwnsQuiet DEF HostAt, hostVars, EndsUnchanged
<1>7. Registry'
  <2>1. hostIdentities # None => hostIdentities \in Connection \ {k}
    BY <1>3, Typed DEF IInv, Registry
  <2> QED BY <1>1, <1>2, <1>3, <1>4, <2>1, Typed DEF IInv, Registry, Entered, Disposed
<1>8. UsesEntered'
  BY <1>1, <1>3 DEF IInv, UsesEntered, Entered, hostVars
<1>9. RegistrationArrives'
  <2> SUFFICES ASSUME NEW j \in Connection
               PROVE  Arrives(j)'
    BY DEF RegistrationArrives
  <2>1. CASE j = k
    <3>1. Arrives(k)
      BY DEF IInv, RegistrationArrives
    <3>2. /\ HostLost(k)' <=> HostLost(k)
          /\ \A pc : HostAt(pc, k)' <=> HostAt(pc, k)
          /\ Entered(k)' <=> Entered(k)
      BY <1>1, <1>2, <1>3 DEF HostLost, HostAt, Entered, hostVars
    <3> QED BY <1>1, <1>3, <1>4, <2>1, <3>1, <3>2 DEF Arrives
  <2>2. CASE j # k
    BY <1>1, <1>2, <1>3, <1>4, <2>2, ArrivesQuiet DEF HostAt, HostLost, hostVars
  <2> QED BY <2>1, <2>2
<1>10. PostsAreWhole'
  <2>1. ASSUME NEW j \in Connection
        PROVE  Whole(j)'
    BY <1>1, WholeQuiet DEF HostAt, hostVars, EndsUnchanged
  <2>2. host'.pc = "whitelist" => host'.client \in WebRequest
    BY DEF IInv, PostsAreWhole, hostVars
  <2> QED BY <2>1, <2>2 DEF PostsAreWhole
<1>11. WhitelistedOnce'
  <2> SUFFICES ASSUME NEW v \in WebRequest, NEW j \in Connection
               PROVE  Once(v, j)'
    BY DEF WhitelistedOnce
  <2> QED BY <1>1, <1>3, OnceQuiet DEF Told, HostAt, hostVars
<1>12. AnswersAreAcknowledged' /\ AnswersAreAwaited' /\ LoneRequests'
  <2>1. \A j \in Connection : Entered(j) => Subsides(j)
    BY <1>1, <1>2, <1>3 DEF Subsides, CanAnswer, BackendLost, Disposed, InTransit, HostAt,
       hostVars
  <2> QED BY <1>3, <1>5, <2>1, SubsidingStep DEF hostVars, backendVars
<1> QED BY <1>5, <1>6, <1>7, <1>8, <1>9, <1>10, <1>11, <1>12 DEF IInv

LEMMA ReceiveHeaderInv ==
    ASSUME IInv, NEW k \in Connection, ReceiveHeader(k), UNCHANGED hostVars
    PROVE  IInv'
<1>1. /\ UNCHANGED <<hostIdentities, registered, web>>
      /\ acceptor[k] = "receive" /\ ~Entered(k)
  BY DEF ReceiveHeader, RegistryUnchanged, IInv, Registry
<1>2. connection[k].backend = "open"
  BY <1>1 DEF IInv, Registry
<1>3. /\ ConnectionTypeOK' /\ EndsUnchanged
      /\ \A j \in Connection :
            /\ UNCHANGED connection[j].toHost
            /\ j # k => UNCHANGED connection[j].toBackend
  <2>1. CASE UNCHANGED connection
    BY <2>1 DEF IInv, TypeOK, ConnectionTypeOK, EndsUnchanged
  <2>2. CASE \E n : BackendReceives(k, n)
    BY <2>2, BackendReceivesEffect DEF IInv, TypeOK
  <2> QED BY <2>1, <2>2 DEF ReceiveHeader
<1>4. \A j \in Connection \ {k} : UNCHANGED acceptor[j]
  BY AcceptorEffect DEF IInv, TypeOK, ReceiveHeader
<1>5. \/ acceptor'[k] = "refuse"
      \/ \E n \in 1 .. Len(connection[k].toBackend) :
            /\ acceptor'[k] = IF n = 1 THEN "body" ELSE "register"
            /\ Len(connection'[k].toBackend) = Len(connection[k].toBackend) - n
  BY AcceptorEffect, BackendReceivesEffect DEF IInv, TypeOK, ReceiveHeader
<1>6. TypeOK'
  <2>1. acceptor' \in [Connection -> {"none", "receive", "body", "register", "respond",
                                     "drop", "refuse", "spin", "done"}]
    BY DEF IInv, TypeOK, BackendTypeOK, SetAcceptor, ReceiveHeader
  <2> QED BY <1>1, <1>3, <2>1 DEF IInv, TypeOK, HostTypeOK, BackendTypeOK, hostVars
<1>7. HostOwns'
  BY <1>3, OwnsQuiet DEF HostAt, hostVars, EndsUnchanged
<1>8. Registry'
  BY <1>1, <1>2, <1>3, <1>4, <1>5, RegistryStep DEF EndsUnchanged
<1>9. UsesEntered'
  BY <1>1, <1>3 DEF IInv, UsesEntered, Entered, hostVars
<1>10. RegistrationArrives'
  <2> SUFFICES ASSUME NEW j \in Connection
               PROVE  Arrives(j)'
    BY DEF RegistrationArrives
  <2>1. CASE j = k
    <3> DEFINE length == Len(connection[k].toBackend)
               lengthNext == Len(connection'[k].toBackend)
    <3>1. /\ HostLost(k)' <=> HostLost(k)
          /\ \A pc : HostAt(pc, k)' <=> HostAt(pc, k)
          /\ ~Entered(k)'
      BY <1>1, <1>3 DEF HostLost, HostAt, Entered, EndsUnchanged, hostVars
    <3>2. Arrives(k) /\ length \in Nat
      BY Sequenced DEF IInv, TypeOK, RegistrationArrives
    <3>3. IF HostAt("postHeader", k) THEN length = 0
          ELSE IF HostAt("postBody", k) THEN length \in {0, 1} ELSE length <= 2
      BY <1>1, <3>2 DEF Arrives
    <3>4. \/ acceptor'[k] = "refuse"
          \/ /\ acceptor'[k] = "body"
             /\ ~HostAt("postHeader", k)
             /\ IF HostAt("postBody", k) THEN lengthNext = 0 ELSE lengthNext <= 1
          \/ /\ acceptor'[k] = "register" /\ lengthNext = 0
             /\ ~HostAt("postHeader", k) /\ ~HostAt("postBody", k)
      <4>1. ASSUME NEW n \in 1 .. length, lengthNext = length - n
            PROVE  /\ ~HostAt("postHeader", k)
                   /\ n = 1 => IF HostAt("postBody", k) THEN lengthNext = 0 ELSE lengthNext <= 1
                   /\ n # 1 => lengthNext = 0 /\ ~HostAt("postBody", k)
        <5> HIDE DEF length, lengthNext
        <5> QED BY <3>2, <3>3, <4>1
      <4>2. CASE acceptor'[k] = "refuse"
        BY <4>2
      <4>3. ASSUME NEW n \in 1 .. length, lengthNext = length - n,
                   acceptor'[k] = IF n = 1 THEN "body" ELSE "register"
            PROVE  \/ /\ acceptor'[k] = "body"
                      /\ ~HostAt("postHeader", k)
                      /\ IF HostAt("postBody", k) THEN lengthNext = 0 ELSE lengthNext <= 1
                   \/ /\ acceptor'[k] = "register" /\ lengthNext = 0
                      /\ ~HostAt("postHeader", k) /\ ~HostAt("postBody", k)
        <5> HIDE DEF length, lengthNext
        <5> QED BY <4>1, <4>3
      <4> QED BY <1>5, <4>2, <4>3
    <3> HIDE DEF length
    <3> QED BY <2>1, <3>1, <3>4 DEF Arrives
  <2>2. CASE j # k
    BY <1>1, <1>3, <1>4, <2>2, ArrivesQuiet DEF HostAt, HostLost, EndsUnchanged, hostVars
  <2> QED BY <2>1, <2>2
<1>11. PostsAreWhole'
  <2>1. ASSUME NEW j \in Connection
        PROVE  Whole(j)'
    BY <1>3, WholeQuiet DEF HostAt, hostVars, EndsUnchanged
  <2>2. host'.pc = "whitelist" => host'.client \in WebRequest
    BY DEF IInv, PostsAreWhole, hostVars
  <2> QED BY <2>1, <2>2 DEF PostsAreWhole
<1>12. WhitelistedOnce'
  <2> SUFFICES ASSUME NEW v \in WebRequest, NEW j \in Connection
               PROVE  Once(v, j)'
    BY DEF WhitelistedOnce
  <2> QED BY <1>1, <1>3, OnceQuiet DEF Told, HostAt, hostVars
<1>13. AnswersAreAcknowledged' /\ AnswersAreAwaited' /\ LoneRequests'
  <2>1. \A j \in Connection : Entered(j) => Subsides(j)
    BY <1>1, <1>3 DEF Subsides, CanAnswer, BackendLost, Disposed, InTransit, HostAt, hostVars,
       EndsUnchanged
  <2> QED BY <1>1, <1>6, <2>1, SubsidingStep DEF hostVars, backendVars
<1> QED BY <1>6, <1>7, <1>8, <1>9, <1>10, <1>11, <1>12, <1>13 DEF IInv

LEMMA ReceiveRegistrationBodyInv ==
    ASSUME IInv, NEW k \in Connection, ReceiveRegistrationBody(k), UNCHANGED hostVars
    PROVE  IInv'
<1>1. /\ UNCHANGED <<hostIdentities, registered, web>>
      /\ acceptor[k] = "body" /\ ~Entered(k)
  BY DEF ReceiveRegistrationBody, RegistryUnchanged, IInv, Registry
<1>2. connection[k].backend = "open"
  BY <1>1 DEF IInv, Registry
<1>3. /\ ConnectionTypeOK' /\ EndsUnchanged
      /\ \A j \in Connection :
            /\ UNCHANGED connection[j].toHost
            /\ j # k => UNCHANGED connection[j].toBackend
  <2>1. CASE UNCHANGED connection
    BY <2>1 DEF IInv, TypeOK, ConnectionTypeOK, EndsUnchanged
  <2>2. CASE \E n : BackendReceives(k, n)
    BY <2>2, BackendReceivesEffect DEF IInv, TypeOK
  <2> QED BY <2>1, <2>2 DEF ReceiveRegistrationBody
<1>4. \A j \in Connection \ {k} : UNCHANGED acceptor[j]
  BY AcceptorEffect DEF IInv, TypeOK, ReceiveRegistrationBody
<1>5. \/ acceptor'[k] \in {"refuse", "spin"}
      \/ /\ acceptor'[k] = "register"
         /\ 1 \in 1 .. Len(connection[k].toBackend)
         /\ Len(connection'[k].toBackend) = Len(connection[k].toBackend) - 1
  <2>1. CASE BackendReceives(k, 1) /\ SetAcceptor(k, "register")
    BY <2>1, AcceptorEffect, BackendReceivesEffect DEF IInv, TypeOK, BackendReceives
  <2> QED BY <2>1, AcceptorEffect DEF IInv, TypeOK, ReceiveRegistrationBody
<1>6. TypeOK'
  <2>1. acceptor' \in [Connection -> {"none", "receive", "body", "register", "respond",
                                     "drop", "refuse", "spin", "done"}]
    BY DEF IInv, TypeOK, BackendTypeOK, SetAcceptor, ReceiveRegistrationBody
  <2> QED BY <1>1, <1>3, <2>1 DEF IInv, TypeOK, HostTypeOK, BackendTypeOK, hostVars
<1>7. HostOwns'
  BY <1>3, OwnsQuiet DEF HostAt, hostVars, EndsUnchanged
<1>8. Registry'
  BY <1>1, <1>2, <1>3, <1>4, <1>5, RegistryStep DEF EndsUnchanged
<1>9. UsesEntered'
  BY <1>1, <1>3 DEF IInv, UsesEntered, Entered, hostVars
<1>10. RegistrationArrives'
  <2> SUFFICES ASSUME NEW j \in Connection
               PROVE  Arrives(j)'
    BY DEF RegistrationArrives
  <2>1. CASE j = k
    <3> DEFINE length == Len(connection[k].toBackend)
               lengthNext == Len(connection'[k].toBackend)
    <3>1. /\ HostLost(k)' <=> HostLost(k)
          /\ \A pc : HostAt(pc, k)' <=> HostAt(pc, k)
          /\ ~Entered(k)'
      BY <1>1, <1>3 DEF HostLost, HostAt, Entered, EndsUnchanged, hostVars
    <3>2. Arrives(k) /\ length \in Nat
      BY Sequenced DEF IInv, TypeOK, RegistrationArrives
    <3>3. ~HostAt("postHeader", k) /\ (IF HostAt("postBody", k) THEN length = 0 ELSE length <= 1)
      BY <1>1, <3>2 DEF Arrives
    <3>4. \/ acceptor'[k] \in {"refuse", "spin"}
          \/ /\ acceptor'[k] = "register" /\ lengthNext = 0
             /\ ~HostAt("postHeader", k) /\ ~HostAt("postBody", k)
      <4> HIDE DEF length, lengthNext
      <4> QED BY <1>5, <3>2, <3>3 DEF length, lengthNext
    <3> HIDE DEF length
    <3> QED BY <2>1, <3>1, <3>4 DEF Arrives
  <2>2. CASE j # k
    BY <1>1, <1>3, <1>4, <2>2, ArrivesQuiet DEF HostAt, HostLost, EndsUnchanged, hostVars
  <2> QED BY <2>1, <2>2
<1>11. PostsAreWhole'
  <2>1. ASSUME NEW j \in Connection
        PROVE  Whole(j)'
    BY <1>3, WholeQuiet DEF HostAt, hostVars, EndsUnchanged
  <2>2. host'.pc = "whitelist" => host'.client \in WebRequest
    BY DEF IInv, PostsAreWhole, hostVars
  <2> QED BY <2>1, <2>2 DEF PostsAreWhole
<1>12. WhitelistedOnce'
  <2> SUFFICES ASSUME NEW v \in WebRequest, NEW j \in Connection
               PROVE  Once(v, j)'
    BY DEF WhitelistedOnce
  <2> QED BY <1>1, <1>3, OnceQuiet DEF Told, HostAt, hostVars
<1>13. AnswersAreAcknowledged' /\ AnswersAreAwaited' /\ LoneRequests'
  <2>1. \A j \in Connection : Entered(j) => Subsides(j)
    BY <1>1, <1>3 DEF Subsides, CanAnswer, BackendLost, Disposed, InTransit, HostAt, hostVars,
       EndsUnchanged
  <2> QED BY <1>1, <1>6, <2>1, SubsidingStep DEF hostVars, backendVars
<1> QED BY <1>6, <1>7, <1>8, <1>9, <1>10, <1>11, <1>12, <1>13 DEF IInv

\* A connection is entered before anything but its registration went over it.
LEMMA RegisterInv ==
    ASSUME IInv, NEW k \in Connection, Register(k), UNCHANGED hostVars
    PROVE  IInv'
<1>1. /\ UNCHANGED <<connection, web>> /\ hostIdentities' = k
      /\ registered' = Append(registered, k) /\ acceptor[k] = "register"
  BY DEF Register
<1>2. \A j \in Connection : acceptor'[j] = IF j = k THEN "respond" ELSE acceptor[j]
  BY AcceptorEffect DEF IInv, TypeOK, Register
<1>3. connection[k].backend = "open" /\ ~Entered(k)
  BY <1>1, <1>2 DEF IInv, Registry
<1>4. /\ registered' \in Seq(Connection) /\ registered' # <<>>
      /\ registered'[Len(registered')] = k
      /\ \A j : Entered(j)' <=> Entered(j) \/ j = k
  <2>1. registered \in Seq(Connection)
    BY Typed DEF IInv
  <2>2. /\ Append(registered, k) \in Seq(Connection) /\ Append(registered, k) # <<>>
        /\ Append(registered, k)[Len(Append(registered, k))] = k
        /\ DOMAIN Append(registered, k) = 1 .. Len(registered) + 1
        /\ DOMAIN registered = 1 .. Len(registered) /\ Len(registered) \in Nat
        /\ \A i \in DOMAIN registered : Append(registered, k)[i] = registered[i]
        /\ Append(registered, k)[Len(registered) + 1] = k
    BY <2>1
  <2>3. ASSUME NEW j
        PROVE  (\E i \in DOMAIN Append(registered, k) : Append(registered, k)[i] = j)
                   <=> (\E i \in DOMAIN registered : registered[i] = j) \/ j = k
    <3>1. ASSUME NEW i \in DOMAIN registered, registered[i] = j
          PROVE  \E m \in DOMAIN Append(registered, k) : Append(registered, k)[m] = j
      BY <2>2, <3>1
    <3>2. ASSUME NEW i \in DOMAIN Append(registered, k), Append(registered, k)[i] = j, j # k
          PROVE  \E m \in DOMAIN registered : registered[m] = j
      BY <2>2, <3>2
    <3> QED BY <2>2, <3>1, <3>2
  <2> QED BY <1>1, <2>2, <2>3 DEF Entered
<1>5. /\ connection[k].toBackend = <<>> /\ Len(connection[k].toBackend) = 0
      /\ ~HostAt("postHeader", k) /\ ~HostAt("postBody", k)
  <2>1. Len(connection[k].toBackend) = 0 /\ ~HostAt("postHeader", k) /\ ~HostAt("postBody", k)
    BY <1>1 DEF IInv, RegistrationArrives, Arrives
  <2> QED BY <2>1, Sequenced DEF IInv, TypeOK
<1>6. TypeOK'
  <2>1. acceptor' \in [Connection -> {"none", "receive", "body", "register", "respond",
                                     "drop", "refuse", "spin", "done"}]
    BY DEF IInv, TypeOK, BackendTypeOK, SetAcceptor, Register
  <2> QED BY <1>1, <2>1 DEF IInv, TypeOK, ConnectionTypeOK, HostTypeOK, BackendTypeOK, hostVars
<1>7. HostOwns'
  BY <1>1, OwnsQuiet DEF HostAt, hostVars, EndsUnchanged
<1>8. Registry'
  <2>1. ASSUME NEW j \in Connection
        PROVE  /\ acceptor'[j] = "none" <=> connection[j].backend = "none"
               /\ acceptor'[j] \in {"receive", "body", "register"} => connection[j].backend = "open"
               /\ acceptor'[j] \in {"none", "receive", "body", "register", "refuse", "spin"} =>
                     ~Entered(j) /\ j # k
               /\ acceptor'[j] \in {"respond", "drop"} => Entered(j) \/ j = k
    <3>1. CASE j = k
      BY <1>2, <1>3, <3>1
    <3>2. CASE j # k
      BY <1>2, <3>2 DEF IInv, Registry
    <3> QED BY <3>1, <3>2
  <2> QED BY <1>1, <1>3, <1>4, <2>1, NoneAssumption DEF Registry
<1>9. UsesEntered'
  BY <1>1, <1>4 DEF IInv, UsesEntered, hostVars
<1>10. RegistrationArrives'
  <2> SUFFICES ASSUME NEW j \in Connection
               PROVE  Arrives(j)'
    BY DEF RegistrationArrives
  <2>1. Arrives(j)
    BY DEF IInv, RegistrationArrives
  <2>2. /\ HostLost(j)' <=> HostLost(j)
        /\ \A pc : HostAt(pc, j)' <=> HostAt(pc, j)
    BY <1>1 DEF HostLost, HostAt, hostVars
  <2>3. CASE j = k
    BY <1>2, <1>5, <2>2, <2>3 DEF Arrives
  <2>4. CASE j # k
    BY <1>1, <1>2, <1>4, <2>1, <2>2, <2>4 DEF Arrives
  <2> QED BY <2>3, <2>4
<1>11. PostsAreWhole'
  <2>1. ASSUME NEW j \in Connection
        PROVE  Whole(j)'
    BY <1>1, WholeQuiet DEF HostAt, hostVars, EndsUnchanged
  <2>2. host'.pc = "whitelist" => host'.client \in WebRequest
    BY DEF IInv, PostsAreWhole, hostVars
  <2> QED BY <2>1, <2>2 DEF PostsAreWhole
<1>12. WhitelistedOnce'
  <2> SUFFICES ASSUME NEW v \in WebRequest, NEW j \in Connection
               PROVE  Once(v, j)'
    BY DEF WhitelistedOnce
  <2> QED BY <1>1, OnceQuiet DEF Told, HostAt, hostVars
<1>13. AnswersAreAcknowledged' /\ AnswersAreAwaited' /\ LoneRequests'
  <2>1. /\ Redirected(k) = {}
        /\ {v \in WebRequest : InTransit(v, k)} = {}
        /\ ~HostAt("reply", k) /\ ~HostAt("whitelist", k)
    <3>1. connection[k].toHost = <<>>
      BY <1>3 DEF IInv, UsesEntered
    <3>2. \A v \in WebRequest : ~InTransit(v, k)
      BY <3>1 DEF InTransit
    <3>3. k # None
      BY NoneAssumption
    <3>4. Redirected(k) = {}
      BY <1>3, <3>3 DEF IInv, UsesEntered, Redirected
    <3>5. ~HostAt("reply", k) /\ ~HostAt("whitelist", k)
      BY <1>3 DEF IInv, UsesEntered, HostAt
    <3> QED BY <3>2, <3>4, <3>5
  <2>2. AnswersAreAcknowledged'
    <3> SUFFICES ASSUME NEW j \in Connection, Entered(j) \/ j = k
                 PROVE  Acknowledged(j)'
      BY <1>4 DEF AnswersAreAcknowledged
    <3>1. Acknowledged(j)' <=> Acknowledged(j)
      BY <1>1 DEF Acknowledged, Redirected, HostAt, hostVars
    <3>2. Acknowledged(k)
      <4>1. Cardinality(acknowledged[k]) \in Nat /\ Cardinality({}) = 0
        BY Counts, Typed, FS_EmptySet DEF IInv
      <4> QED BY <1>5, <2>1, <4>1 DEF Acknowledged, One
    <3> QED BY <3>1, <3>2 DEF IInv, AnswersAreAcknowledged
  <2>3. AnswersAreAwaited'
    <3> SUFFICES ASSUME NEW j \in Connection, Entered(j) \/ j = k, CanAnswer(j)
                 PROVE  Awaited(j)'
      BY <1>1, <1>4 DEF AnswersAreAwaited, CanAnswer, Disposed, BackendLost
    <3>1. Awaited(j)' <=> Awaited(j)
      BY <1>1 DEF Awaited, InTransit, Waiting, HostAt, hostVars
    <3>2. Awaited(k)
      <4>1. Cardinality(Waiting(k)) \in Nat /\ Cardinality({}) = 0
        BY Counts, FS_EmptySet
      <4>2. One(HostAt("whitelist", k)) = 0 /\ One(HostAt("reply", k)) = 0
        BY <2>1 DEF One
      <4>3. Cardinality({v \in WebRequest : InTransit(v, k)}) = 0
        BY <2>1, <4>1
      <4> QED BY <1>5, <4>1, <4>2, <4>3 DEF Awaited
    <3> QED BY <3>1, <3>2 DEF IInv, AnswersAreAwaited
  <2>4. LoneRequests'
    <3> SUFFICES ASSUME NEW v \in WebRequest, web[v].alone
                 PROVE  Lone(v)'
      BY <1>1 DEF LoneRequests
    <3>1. Using(web[v].k)' \subseteq Using(web[v].k)
      BY <1>1 DEF Using
    <3> QED BY <1>1, <3>1, LoneQuiet DEF CanAnswer, Disposed, BackendLost, InTransit, HostAt,
           hostVars
  <2> QED BY <2>2, <2>3, <2>4
<1> QED BY <1>6, <1>7, <1>8, <1>9, <1>10, <1>11, <1>12, <1>13 DEF IInv

LEMMA RespondInv ==
    ASSUME IInv, NEW k \in Connection, Respond(k), UNCHANGED hostVars
    PROVE  IInv'
<1>1. /\ UNCHANGED <<hostIdentities, registered, web>>
      /\ acceptor[k] = "respond" /\ Entered(k)
  BY DEF Respond, RegistryUnchanged, IInv, Registry
<1>2. /\ ConnectionTypeOK' /\ EndsUnchanged
      /\ \A j \in Connection :
            /\ UNCHANGED connection[j].toBackend
            /\ j # k => UNCHANGED connection[j].toHost
      /\ \/ UNCHANGED connection[k].toHost
         \/ ~connection[k].broken /\ connection'[k].toHost = connection[k].toHost \o <<Ok>>
  <2>1. CASE UNCHANGED connection
    BY <2>1 DEF IInv, TypeOK, ConnectionTypeOK, EndsUnchanged
  <2>2. CASE BackendSends(k, <<Ok>>)
    <3>1. <<Ok>> \in Seq(Piece)
      BY Pieces
    <3> QED BY <2>2, <3>1, BackendSendsEffect DEF IInv, TypeOK, BackendLost
  <2> QED BY <2>1, <2>2 DEF Respond
<1>3. /\ acceptor'[k] \in {"done", "drop"}
      /\ \A j \in Connection \ {k} : UNCHANGED acceptor[j]
  BY AcceptorEffect DEF IInv, TypeOK, Respond
<1>4. \/ UNCHANGED connection[k].toHost
      \/ /\ ~connection[k].broken
         /\ Len(connection'[k].toHost) = Len(connection[k].toHost) + 1
         /\ \A i \in 1 .. Len(connection[k].toHost) :
               connection'[k].toHost[i] = connection[k].toHost[i]
         /\ connection'[k].toHost[Len(connection[k].toHost) + 1] = Ok
  <2>1. connection[k].toHost \in Seq(Piece) /\ <<Ok>> \in Seq(Piece) /\ Len(<<Ok>>) = 1 /\ <<Ok>>[1] = Ok
    BY Sequenced, Pieces DEF IInv, TypeOK
  <2> QED BY <1>2, <2>1, Joined
<1>5. \A v \in WebRequest, j \in Connection :
          /\ InTransit(v, j)' => InTransit(v, j)
          /\ \A i, m \in DOMAIN connection'[j].toHost :
                connection'[j].toHost[i] = Body(v) /\ connection'[j].toHost[m] = Body(v) =>
                    i \in DOMAIN connection[j].toHost /\ connection[j].toHost[i] = Body(v)
                    /\ m \in DOMAIN connection[j].toHost /\ connection[j].toHost[m] = Body(v)
  <2> SUFFICES ASSUME NEW v \in WebRequest, NEW j \in Connection, NEW i \in DOMAIN connection'[j].toHost,
                       connection'[j].toHost[i] = Body(v)
               PROVE  i \in DOMAIN connection[j].toHost /\ connection[j].toHost[i] = Body(v)
    BY DEF InTransit
  <2>1. CASE UNCHANGED connection[j].toHost
    BY <2>1
  <2>2. CASE ~UNCHANGED connection[j].toHost
    <3>1. j = k
      BY <1>2, <2>2
    <3>2. Body(v) # Ok
      BY DEF Body, Ok
    <3>3. i \in 1 .. Len(connection[k].toHost) + 1 /\ DOMAIN connection[k].toHost = 1 .. Len(connection[k].toHost)
          /\ Len(connection[k].toHost) \in Nat
      BY <1>4, <2>2, <3>1 DEF IInv, TypeOK
    <3>4. i # Len(connection[k].toHost) + 1
      BY <1>4, <2>2, <3>1, <3>2
    <3>5. i \in 1 .. Len(connection[k].toHost)
      BY <3>3, <3>4
    <3> QED BY <1>4, <2>2, <3>1, <3>3, <3>5
  <2> QED BY <2>1, <2>2
<1>6. TypeOK'
  <2>1. acceptor' \in [Connection -> {"none", "receive", "body", "register", "respond",
                                     "drop", "refuse", "spin", "done"}]
    BY <1>1, <1>2, <1>3, <1>4, <1>5 DEF IInv, TypeOK, BackendTypeOK, SetAcceptor, Respond
  <2> QED BY <1>1, <1>2, <2>1 DEF IInv, TypeOK, HostTypeOK, BackendTypeOK, hostVars
<1>7. HostOwns'
  BY <1>2, OwnsQuiet DEF HostAt, hostVars, EndsUnchanged
<1>8. Registry'
  BY <1>1, <1>2, <1>3, RegistryStep DEF EndsUnchanged, IInv, Registry
<1>9. UsesEntered'
  <2>1. \A j \in Connection : connection'[j].toHost # <<>> => Entered(j)
    BY <1>1, <1>2 DEF IInv, UsesEntered
  <2> QED BY <1>1, <2>1 DEF IInv, UsesEntered, Entered, hostVars
<1>10. RegistrationArrives'
  <2> SUFFICES ASSUME NEW j \in Connection
               PROVE  Arrives(j)'
    BY DEF RegistrationArrives
  <2> QED BY <1>1, <1>2, <1>3, ArrivesQuiet DEF HostAt, HostLost, hostVars, EndsUnchanged
<1>11. PostsAreWhole'
  <2>1. ASSUME NEW j \in Connection
        PROVE  Whole(j)'
    <3>1. CASE UNCHANGED connection[j].toHost
      BY <1>2, <3>1, WholeQuiet DEF HostAt, hostVars, EndsUnchanged
    <3>2. CASE ~UNCHANGED connection[j].toHost
      <4>1. j = k /\ Ok.part = "ok"
        BY <1>2, <3>2 DEF Ok
      <4>2. \A i \in 1 .. 1 : connection'[k].toHost[Len(connection[k].toHost) + i].part = "ok"
        BY <1>4, <3>2, <4>1
      <4> QED BY <1>4, <1>6, <3>2, <4>1, <4>2, WholeSent DEF HostAt, hostVars
    <3> QED BY <3>1, <3>2
  <2> QED BY <2>1 DEF PostsAreWhole, IInv, hostVars
<1>12. WhitelistedOnce'
  <2> SUFFICES ASSUME NEW v \in WebRequest, NEW j \in Connection
               PROVE  Once(v, j)'
    BY DEF WhitelistedOnce
  <2>1. Once(v, j)
    BY DEF IInv, WhitelistedOnce
  <2>2. Told(v, j)' <=> Told(v, j)
    BY DEF Told, HostAt, hostVars
  <2>3. \A i, m \in DOMAIN connection'[j].toHost :
            connection'[j].toHost[i] = Body(v) /\ connection'[j].toHost[m] = Body(v) => i = m
    BY <1>5, <2>1 DEF Once
  <2> QED BY <1>1, <1>5, <2>1, <2>2, <2>3 DEF Once, hostVars
<1>13. AnswersAreAcknowledged' /\ AnswersAreAwaited' /\ LoneRequests'
  <2>1. \A j \in Connection : Entered(j) => Subsides(j)
    BY <1>1, <1>2, <1>3, <1>4, <1>5, Sequenced DEF IInv, TypeOK, Subsides, CanAnswer, BackendLost,
       Disposed, HostAt, hostVars, EndsUnchanged
  <2> QED BY <1>1, <1>6, <2>1, SubsidingStep DEF hostVars
<1> QED BY <1>6, <1>7, <1>8, <1>9, <1>10, <1>11, <1>12, <1>13 DEF IInv

LEMMA DropFailedRegistrationInv ==
    ASSUME IInv, NEW k \in Connection, DropFailedRegistration(k), UNCHANGED hostVars
    PROVE  IInv'
<1>1. /\ ConnectionTypeOK' /\ hostIdentities' = None
      /\ \A j \in Connection :
            /\ UNCHANGED <<connection[j].toHost, connection[j].toBackend,
                           connection[j].host, connection[j].broken>>
            /\ connection'[j].backend =
                  IF j = hostIdentities THEN "closed" ELSE connection[j].backend
  BY DropEffect DEF IInv, TypeOK, BackendTypeOK, DropFailedRegistration
<1>2. UNCHANGED <<registered, web>> /\ acceptor[k] = "drop"
  BY DEF DropFailedRegistration, DropConnection
<1>3. \A j \in Connection : acceptor'[j] = IF j = k THEN "done" ELSE acceptor[j]
  BY AcceptorEffect DEF IInv, TypeOK, DropFailedRegistration
<1>4. TypeOK'
  <2>1. acceptor' \in [Connection -> {"none", "receive", "body", "register", "respond",
                                     "drop", "refuse", "spin", "done"}]
    BY DEF IInv, TypeOK, BackendTypeOK, SetAcceptor, DropFailedRegistration
  <2> QED BY <1>1, <1>2, <2>1 DEF IInv, TypeOK, HostTypeOK, BackendTypeOK, hostVars
<1>5. HostOwns'
  BY <1>1, OwnsQuiet DEF HostAt, hostVars, EndsUnchanged
<1>6. Registry'
  BY <1>1, <1>2, <1>3, RegistryDropped
<1>7. UsesEntered'
  BY <1>1, <1>2 DEF IInv, UsesEntered, Entered, hostVars
<1>8. RegistrationArrives'
  <2> SUFFICES ASSUME NEW j \in Connection
               PROVE  Arrives(j)'
    BY DEF RegistrationArrives
  <2> QED BY <1>1, <1>2, <1>3, ArrivesQuiet DEF HostAt, HostLost, hostVars
<1>9. PostsAreWhole'
  <2>1. ASSUME NEW j \in Connection
        PROVE  Whole(j)'
    BY <1>1, WholeQuiet DEF HostAt, hostVars, EndsUnchanged
  <2>2. host'.pc = "whitelist" => host'.client \in WebRequest
    BY DEF IInv, PostsAreWhole, hostVars
  <2> QED BY <2>1, <2>2 DEF PostsAreWhole
<1>10. WhitelistedOnce'
  <2> SUFFICES ASSUME NEW v \in WebRequest, NEW j \in Connection
               PROVE  Once(v, j)'
    BY DEF WhitelistedOnce
  <2> QED BY <1>1, <1>2, OnceQuiet DEF Told, HostAt, hostVars
<1>11. AnswersAreAcknowledged' /\ AnswersAreAwaited' /\ LoneRequests'
  <2>1. \A j \in Connection : Entered(j) => Subsides(j)
    BY <1>1 DEF Subsides, CanAnswer, BackendLost, Disposed, InTransit, HostAt, hostVars
  <2> QED BY <1>2, <1>4, <2>1, SubsidingStep DEF hostVars, backendVars
<1> QED BY <1>4, <1>5, <1>6, <1>7, <1>8, <1>9, <1>10, <1>11 DEF IInv

LEMMA RefuseConnectionInv ==
    ASSUME IInv, NEW k \in Connection, RefuseConnection(k), UNCHANGED hostVars
    PROVE  IInv'
<1>1. /\ ConnectionTypeOK'
      /\ \A j \in Connection :
            UNCHANGED <<connection[j].toHost, connection[j].toBackend, connection[j].broken>>
  BY EndEffect DEF IInv, TypeOK, RefuseConnection
<1>2. \A j \in Connection :
          /\ connection'[j].host = connection[j].host
          /\ connection'[j].backend = IF j = k THEN "closed" ELSE connection[j].backend
  BY DEF IInv, TypeOK, ConnectionTypeOK, RefuseConnection
<1>3. /\ UNCHANGED <<hostIdentities, registered, web>>
      /\ acceptor[k] = "refuse" /\ ~Entered(k)
  BY DEF RefuseConnection, RegistryUnchanged, IInv, Registry
<1>4. \A j \in Connection : acceptor'[j] = IF j = k THEN "done" ELSE acceptor[j]
  BY AcceptorEffect DEF IInv, TypeOK, RefuseConnection
<1>5. TypeOK'
  <2>1. acceptor' \in [Connection -> {"none", "receive", "body", "register", "respond",
                                     "drop", "refuse", "spin", "done"}]
    BY DEF IInv, TypeOK, BackendTypeOK, SetAcceptor, RefuseConnection
  <2> QED BY <1>1, <1>3, <2>1 DEF IInv, TypeOK, HostTypeOK, BackendTypeOK, hostVars
<1>6. HostOwns'
  BY <1>2, OwnsQuiet DEF HostAt, hostVars, EndsUnchanged
<1>7. Registry'
  BY <1>2, <1>3, <1>4, RegistryStep
<1>8. UsesEntered'
  BY <1>1, <1>3 DEF IInv, UsesEntered, Entered, hostVars
<1>9. RegistrationArrives'
  <2> SUFFICES ASSUME NEW j \in Connection
               PROVE  Arrives(j)'
    BY DEF RegistrationArrives
  <2> QED BY <1>1, <1>2, <1>3, <1>4, ArrivesQuiet DEF HostAt, HostLost, hostVars
<1>10. PostsAreWhole'
  <2>1. ASSUME NEW j \in Connection
        PROVE  Whole(j)'
    BY <1>1, WholeQuiet DEF HostAt, hostVars, EndsUnchanged
  <2>2. host'.pc = "whitelist" => host'.client \in WebRequest
    BY DEF IInv, PostsAreWhole, hostVars
  <2> QED BY <2>1, <2>2 DEF PostsAreWhole
<1>11. WhitelistedOnce'
  <2> SUFFICES ASSUME NEW v \in WebRequest, NEW j \in Connection
               PROVE  Once(v, j)'
    BY DEF WhitelistedOnce
  <2> QED BY <1>1, <1>3, OnceQuiet DEF Told, HostAt, hostVars
<1>12. AnswersAreAcknowledged' /\ AnswersAreAwaited' /\ LoneRequests'
  <2>1. \A j \in Connection : Entered(j) => Subsides(j)
    BY <1>1, <1>2 DEF Subsides, CanAnswer, BackendLost, Disposed, InTransit, HostAt, hostVars
  <2> QED BY <1>3, <1>5, <2>1, SubsidingStep DEF hostVars, backendVars
<1> QED BY <1>5, <1>6, <1>7, <1>8, <1>9, <1>10, <1>11, <1>12 DEF IInv

-----------------------------------------------------------------------------
(* The steps of the web server's threads *)

\* A request that finds others on its connection makes them all not alone.
LEMMA FindHostInv ==
    ASSUME IInv, NEW w \in WebRequest, FindHost(w), UNCHANGED hostVars
    PROVE  IInv'
<1>1. /\ UNCHANGED <<connection, hostVars, hostIdentities, registered, acceptor>>
      /\ web[w].pc = "idle"
  BY DEF FindHost, RegistryUnchanged
<1> DEFINE k == hostIdentities
           users == Using(k) \cup {w}
<1>2. /\ web' \in [WebRequest ->
          [pc : WebAtWork \cup {"idle", "redirected", "failed", "served", "rejected"},
           k : Connection \cup {None}, alone : BOOLEAN]]
      /\ \/ Goes(w, "failed")
         \/ /\ k \in Connection /\ Entered(k)
            /\ web'[w].pc = "check" /\ web'[w].k = k
            /\ web'[w].alone => Cardinality(users) = 1
            /\ \A v \in WebRequest \ {w} :
                  /\ web'[v].pc = web[v].pc /\ web'[v].k = web[v].k
                  /\ web'[v].alone => web[v].alone /\ (v \in users => Cardinality(users) = 1)
  <2>1. CASE k = None
    <3>1. SetWeb(w, "failed")
      BY <2>1 DEF FindHost, SetWeb
    <3> QED BY <1>1, <3>1, SetWebEffect, Typed DEF IInv, TypeOK, BackendTypeOK, WebAtWork
  <2>2. CASE k # None
    <3>1. k \in Connection /\ Entered(k)
      BY <2>2, Typed DEF IInv, Registry
    <3>2. web' = [v \in WebRequest |->
                     IF v \notin users THEN web[v]
                     ELSE [pc |-> IF v = w THEN "check" ELSE web[v].pc,
                           k |-> k,
                           alone |-> web[v].alone /\ Cardinality(users) = 1]]
      BY <2>2 DEF FindHost
    <3> HIDE DEF users, k
    <3>3. \A v \in users \ {w} : web[v].k = k
      BY DEF users, Using
    <3>4. w \in users
      BY DEF users
    <3>5. \A v \in WebRequest :
              /\ web[v] \in [pc : WebAtWork \cup {"idle", "redirected", "failed", "served", "rejected"},
                             k : Connection \cup {None}, alone : BOOLEAN]
              /\ web[v].pc \in WebAtWork \cup {"idle", "redirected", "failed", "served", "rejected"}
              /\ web[v].alone \in BOOLEAN
      BY DEF IInv, TypeOK, BackendTypeOK
    <3>6. ASSUME NEW v \in WebRequest
          PROVE  web'[v] \in [pc : WebAtWork \cup {"idle", "redirected", "failed", "served", "rejected"},
                              k : Connection \cup {None}, alone : BOOLEAN]
      <4>1. CASE v \notin users
        BY <3>2, <3>5, <4>1
      <4>2. CASE v \in users
        <5>1. web'[v] = [pc |-> IF v = w THEN "check" ELSE web[v].pc, k |-> k,
                         alone |-> web[v].alone /\ Cardinality(users) = 1]
          BY <3>2, <4>2
        <5>2. (IF v = w THEN "check" ELSE web[v].pc)
                  \in WebAtWork \cup {"idle", "redirected", "failed", "served", "rejected"}
          BY <3>5 DEF WebAtWork
        <5> QED BY <3>1, <5>1, <5>2
      <4> QED BY <4>1, <4>2
    <3>7. web'[w].pc = "check" /\ web'[w].k = k /\ (web'[w].alone => Cardinality(users) = 1)
      BY <3>2, <3>4
    <3>8. ASSUME NEW v \in WebRequest \ {w}
          PROVE  /\ web'[v].pc = web[v].pc /\ web'[v].k = web[v].k
                 /\ web'[v].alone => web[v].alone /\ (v \in users => Cardinality(users) = 1)
      <4>1. CASE v \notin users
        BY <3>2, <4>1
      <4>2. CASE v \in users
        BY <3>2, <3>3, <4>2
      <4> QED BY <4>1, <4>2
    <3>9. web' = [v \in WebRequest |-> web'[v]]
      BY <3>2
    <3> QED BY <3>1, <3>6, <3>7, <3>8, <3>9
  <2> QED BY <2>1, <2>2
<1>3. TypeOK'
  BY <1>1, <1>2 DEF IInv, TypeOK, ConnectionTypeOK, HostTypeOK, BackendTypeOK, hostVars
<1>4. HostOwns'
  BY <1>1, OwnsQuiet DEF hostVars
<1>5. Registry'
  BY <1>1, RegistryQuiet
<1>6. UsesEntered'
  <2>1. ASSUME NEW v \in WebRequest
        PROVE  /\ web'[v].k # None => Entered(web'[v].k)
               /\ web'[v].pc \in WebAtWork \cup {"redirected"} => web'[v].k # None
    <3>1. /\ web[v].k # None => Entered(web[v].k)
          /\ web[v].pc \in WebAtWork \cup {"redirected"} => web[v].k # None
      BY DEF IInv, UsesEntered
    <3>2. CASE Goes(w, "failed")
      BY <3>1, <3>2 DEF Goes, WebAtWork
    <3>3. CASE ~Goes(w, "failed")
      <4>1. k # None
        BY <1>2, <3>3, NoneAssumption
      <4> QED BY <1>2, <3>1, <3>3, <4>1
    <3> QED BY <3>2, <3>3
  <2> QED BY <1>1, <2>1 DEF IInv, UsesEntered, Entered, hostVars
<1>7. RegistrationArrives'
  <2> SUFFICES ASSUME NEW j \in Connection
               PROVE  Arrives(j)'
    BY DEF RegistrationArrives
  <2> QED BY <1>1, ArrivesQuiet DEF HostAt, HostLost, hostVars
<1>8. PostsAreWhole'
  <2>1. ASSUME NEW j \in Connection
        PROVE  Whole(j)'
    BY <1>1, WholeQuiet DEF HostAt, hostVars
  <2> QED BY <1>1, <2>1 DEF PostsAreWhole, IInv, hostVars
<1>9. \A v \in WebRequest :
          web'[v].pc = web[v].pc \/ (v = w /\ web'[w].pc \in {"check", "failed"})
  BY <1>2 DEF Goes
<1>10. WhitelistedOnce'
  <2> SUFFICES ASSUME NEW v \in WebRequest, NEW j \in Connection
               PROVE  Once(v, j)'
    BY DEF WhitelistedOnce
  <2>1. web'[v].pc \in {"idle", "check", "send"} => web[v].pc \in {"idle", "check", "send"}
    BY <1>1, <1>9
  <2> QED BY <1>1, <2>1, OnceQuiet DEF Told, HostAt, hostVars
<1>11. \A j \in Connection : Redirected(j)' = Redirected(j) /\ Waiting(j)' = Waiting(j)
  <2> SUFFICES ASSUME NEW j \in Connection, NEW v \in WebRequest
               PROVE  /\ v \in Redirected(j)' <=> v \in Redirected(j)
                      /\ v \in Waiting(j)' <=> v \in Waiting(j)
    BY DEF Redirected, Waiting
  <2>1. CASE v = w
    BY <1>1, <1>2, <2>1 DEF Redirected, Waiting, Goes
  <2>2. CASE v # w
    <3>1. web'[v].pc = web[v].pc /\ web'[v].k = web[v].k
      BY <1>2, <2>2 DEF Goes
    <3> QED BY <3>1 DEF Redirected, Waiting
  <2> QED BY <2>1, <2>2
<1>12. AnswersAreAcknowledged' /\ AnswersAreAwaited'
  <2>1. \A j \in Connection : Subsides(j)
    BY <1>1, Sequenced DEF Subsides, CanAnswer, BackendLost, Disposed, InTransit, HostAt, hostVars
  <2>2. UNCHANGED <<registered, acknowledged>> /\ \A j \in Connection : CanAnswer(j)' => CanAnswer(j)
    BY <1>1 DEF CanAnswer, BackendLost, Disposed, hostVars
  <2> QED BY <1>3, <1>11, <2>1, <2>2, AcknowledgedFrame, AwaitedFrame DEF Subsides
<1>13. LoneRequests'
  <2> SUFFICES ASSUME NEW v \in WebRequest, web'[v].alone
               PROVE  Lone(v)'
    BY DEF LoneRequests
  <2>1. CASE v = w
    <3>1. CASE Goes(w, "failed")
      BY <2>1, <3>1 DEF Lone, Goes, WebAtWork
    <3>2. CASE ~Goes(w, "failed")
      <4>1. users = {w}
        <5>1. Cardinality(users) = 1 /\ users \in SUBSET WebRequest /\ w \in users
          BY <1>2, <2>1, <3>2 DEF Using
        <5> HIDE DEF users
        <5>2. Cardinality(users \ {w}) = 0 /\ IsFiniteSet(users \ {w})
          BY <5>1, Counts, FS_RemoveElement, FS_Subset
        <5>3. users \ {w} = {}
          BY <5>2, FS_EmptySet
        <5> QED BY <5>1, <5>3
      <4>2. Using(k)' = {w}
        <5>1. \A u \in WebRequest \ {w} : web'[u].k = k /\ web'[u].pc \in WebAtWork => u \in users
          BY <1>2, <3>2 DEF Using
        <5>2. \A u \in WebRequest \ {w} : ~(web'[u].k = k /\ web'[u].pc \in WebAtWork)
          BY <4>1, <5>1
        <5>3. web'[w].k = k /\ web'[w].pc \in WebAtWork /\ UNCHANGED hostIdentities
          BY <1>1, <1>2, <3>2 DEF WebAtWork
        <5> QED BY <5>2, <5>3 DEF Using
      <4> QED BY <1>1, <1>2, <2>1, <3>2, <4>2 DEF Lone
    <3> QED BY <3>1, <3>2
  <2>2. CASE v # w
    <3>1. /\ web[v].alone /\ web'[v].pc = web[v].pc /\ web'[v].k = web[v].k
          /\ Lone(v)
      BY <1>2, <2>2 DEF Goes, IInv, LoneRequests
    <3>2. UNCHANGED web[v]
      <4>1. web[v] = [pc |-> web[v].pc, k |-> web[v].k, alone |-> web[v].alone]
            /\ web[v].alone \in BOOLEAN
        BY Typed DEF IInv
      <4>2. web'[v] = [pc |-> web'[v].pc, k |-> web'[v].k, alone |-> web'[v].alone]
            /\ web'[v].alone \in BOOLEAN
        BY <1>3 DEF TypeOK, BackendTypeOK
      <4>3. web'[v].alone = web[v].alone
        BY <3>1, <4>1, <4>2
      <4> QED BY <3>1, <4>1, <4>2, <4>3
    <3>3. ASSUME web[v].pc \in WebAtWork
          PROVE  Using(web[v].k)' \subseteq Using(web[v].k)
      <4> SUFFICES ASSUME NEW u \in WebRequest, web'[u].k = web[v].k, web'[u].pc \in WebAtWork
                   PROVE  u \in Using(web[v].k)
        BY <3>1 DEF Using
      <4>1. CASE Goes(w, "failed")
        BY <4>1 DEF Using, Goes, WebAtWork
      <4>2. CASE ~Goes(w, "failed")
        <5>1. u # w
          <6> SUFFICES ASSUME u = w
                       PROVE  FALSE
            OBVIOUS
          <6>1. web[v].k = k
            BY <1>2, <4>2
          <6>2. v \in users /\ w \in users /\ users \in SUBSET WebRequest
            BY <3>3, <6>1 DEF Using
          <6>3. Cardinality(users) = 1
            BY <1>2, <2>2, <4>2, <6>2
          <6> HIDE DEF users
          <6>4. Cardinality(users \ {w}) = 0 /\ IsFiniteSet(users \ {w})
            BY <6>2, <6>3, Counts, FS_RemoveElement, FS_Subset
          <6>5. users \ {w} = {}
            BY <6>4, FS_EmptySet
          <6> QED BY <2>2, <6>2, <6>5
        <5> QED BY <1>2, <4>2, <5>1 DEF Using
      <4> QED BY <4>1, <4>2
    <3> QED BY <1>1, <3>1, <3>2, <3>3, LoneQuiet DEF CanAnswer, BackendLost, Disposed, InTransit,
           HostAt, hostVars
  <2> QED BY <2>1, <2>2
<1> QED BY <1>3, <1>4, <1>5, <1>6, <1>7, <1>8, <1>10, <1>12, <1>13 DEF IInv

LEMMA CheckConnectedInv ==
    ASSUME IInv, NEW w \in WebRequest, CheckConnected(w), UNCHANGED hostVars
    PROVE  IInv'
<1>1. /\ UNCHANGED <<connection, hostIdentities, hostVars, registered, acceptor>>
      /\ web[w].pc = "check" /\ web[w].k # None /\ web[w].k \in Connection /\ Entered(web[w].k)
  <2>1. UNCHANGED <<connection, hostIdentities, hostVars, registered, acceptor>> /\ web[w].pc = "check"
    BY DEF CheckConnected, RegistryUnchanged, DropConnection
  <2>2. web[w].k # None
    BY <2>1 DEF IInv, UsesEntered, WebAtWork
  <2> QED BY <2>1, <2>2, Typed DEF IInv, UsesEntered
<1>2. \E pc \in {"send", "drop"} : Goes(w, pc) /\ BackendTypeOK'
  <2>1. hostIdentities' \in Connection \cup {None}
    BY <1>1, Typed DEF IInv
  <2> QED BY <1>1, <2>1, SetWebEffect DEF CheckConnected, IInv, TypeOK, WebAtWork
<1>3. TypeOK'
  BY <1>1, <1>2 DEF IInv, TypeOK, HostTypeOK, ConnectionTypeOK, hostVars
<1>4. HostOwns'
  BY <1>1, <1>2, OwnsQuiet DEF HostAt, hostVars, EndsUnchanged
<1>5. Registry'
  BY <1>1, <1>2, RegistryQuiet
<1>6. UsesEntered'
  <2>1. \A j \in Connection : connection'[j].toHost # <<>> => Entered(j)
    BY <1>1, <1>2 DEF IInv, UsesEntered
  <2> QED BY <1>1, <1>2, <2>1, UsesQuiet DEF hostVars
<1>7. RegistrationArrives'
  <2> SUFFICES ASSUME NEW j \in Connection
               PROVE  Arrives(j)'
    BY DEF RegistrationArrives
  <2> QED BY <1>1, <1>2, ArrivesQuiet DEF HostAt, HostLost, hostVars
<1>8. PostsAreWhole'
  <2>1. ASSUME NEW j \in Connection
        PROVE  Whole(j)'
    BY <1>1, <1>2, WholeQuiet DEF HostAt, hostVars, EndsUnchanged
  <2>2. host'.pc = "whitelist" => host'.client \in WebRequest
    BY <1>1, <1>2 DEF IInv, PostsAreWhole, hostVars
  <2> QED BY <2>1, <2>2 DEF PostsAreWhole
<1>9. WhitelistedOnce'
  <2> SUFFICES ASSUME NEW v \in WebRequest, NEW j \in Connection
               PROVE  Once(v, j)'
    BY DEF WhitelistedOnce
  <2>1. web'[v].pc \in {"idle", "check", "send"} => web[v].pc \in {"idle", "check", "send"}
    BY <1>1, <1>2 DEF Goes
  <2> QED BY <1>1, <1>2, <2>1, OnceQuiet DEF Told, HostAt, hostVars
<1>10. AnswersAreAcknowledged' /\ AnswersAreAwaited' /\ LoneRequests'
  <2>1. \A j \in Connection : Entered(j) => Subsides(j)
    BY <1>1, <1>2, Sequenced DEF Subsides, CanAnswer, BackendLost, Disposed, InTransit, HostAt,
       hostVars
  <2> QED BY <1>1, <1>2, <1>3, <2>1, WebQuiet DEF WebAtWork
<1> QED BY <1>3, <1>4, <1>5, <1>6, <1>7, <1>8, <1>9, <1>10 DEF IInv

\* One more visitor waits, for one more address in transit.
LEMMA SendClientIPInv ==
    ASSUME IInv, NEW w \in WebRequest, SendClientIP(w), UNCHANGED hostVars
    PROVE  IInv'
<1>1. PICK k \in Connection :
            /\ k = web[w].k /\ k # None /\ Entered(k)
            /\ UNCHANGED <<hostIdentities, hostVars, registered, acceptor>>
            /\ web[w].pc = "send"
  <2>1. UNCHANGED <<hostIdentities, hostVars, registered, acceptor>> /\ web[w].pc = "send"
    BY DEF SendClientIP, RegistryUnchanged
  <2>2. web[w].k # None
    BY <2>1 DEF IInv, UsesEntered, WebAtWork
  <2>3. web[w].k \in Connection /\ Entered(web[w].k)
    BY <2>2, Typed DEF IInv, UsesEntered
  <2> QED BY <2>1, <2>2, <2>3
<1>2. /\ ConnectionTypeOK' /\ EndsUnchanged
      /\ \A j \in Connection :
            /\ UNCHANGED connection[j].toBackend
            /\ j # k => UNCHANGED connection[j].toHost
      /\ \/ UNCHANGED connection[k].toHost
         \/ ~connection[k].broken /\ connection'[k].toHost = connection[k].toHost \o <<Header(w), Body(w)>>
  <2>1. CASE UNCHANGED connection
    BY <2>1 DEF IInv, TypeOK, ConnectionTypeOK, EndsUnchanged
  <2>2. CASE BackendSends(k, <<Header(w), Body(w)>>)
    <3>1. <<Header(w), Body(w)>> \in Seq(Piece)
      BY Pieces
    <3> QED BY <1>1, <2>2, <3>1, BackendSendsEffect DEF IInv, TypeOK, BackendLost
  <2> QED BY <1>1, <2>1, <2>2 DEF SendClientIP
<1>3. \E pc \in {"receive", "drop"} :
          Goes(w, pc) /\ BackendTypeOK' /\ (pc = "drop" => UNCHANGED connection)
  <2>1. hostIdentities' \in Connection \cup {None}
    BY <1>1, <1>2, Typed DEF IInv
  <2> QED BY <1>1, <1>2, <2>1, SetWebEffect DEF SendClientIP, IInv, TypeOK, WebAtWork
<1>4. \/ UNCHANGED connection[k].toHost
      \/ /\ ~connection[k].broken
         /\ Len(connection'[k].toHost) = Len(connection[k].toHost) + 2
         /\ \A i \in 1 .. Len(connection[k].toHost) :
               connection'[k].toHost[i] = connection[k].toHost[i]
         /\ connection'[k].toHost[Len(connection[k].toHost) + 1] = Header(w)
         /\ connection'[k].toHost[Len(connection[k].toHost) + 2] = Body(w)
  <2>1. connection[k].toHost \in Seq(Piece) /\ Header(w) \in Piece /\ Body(w) \in Piece
    BY Sequenced, Pieces DEF IInv, TypeOK
  <2> DEFINE toHostNext == connection[k].toHost \o <<Header(w), Body(w)>>
  <2>2. /\ Len(toHostNext) = Len(connection[k].toHost) + 2
        /\ \A i \in 1 .. Len(connection[k].toHost) : toHostNext[i] = connection[k].toHost[i]
        /\ toHostNext[Len(connection[k].toHost) + 1] = Header(w)
        /\ toHostNext[Len(connection[k].toHost) + 2] = Body(w)
    BY <2>1, JoinedPair
  <2>3. \/ UNCHANGED connection[k].toHost
        \/ ~connection[k].broken /\ connection'[k].toHost = toHostNext
    BY <1>2
  <2> HIDE DEF toHostNext
  <2> QED BY <2>2, <2>3
<1>5. \A v \in WebRequest, j \in Connection : \A i \in DOMAIN connection'[j].toHost :
          connection'[j].toHost[i] = Body(v) =>
              \/ i \in DOMAIN connection[j].toHost /\ connection[j].toHost[i] = Body(v)
              \/ /\ j = k /\ v = w /\ ~UNCHANGED connection[j].toHost
                 /\ i = Len(connection[j].toHost) + 2
  <2> SUFFICES ASSUME NEW v \in WebRequest, NEW j \in Connection, NEW i \in DOMAIN connection'[j].toHost,
                       connection'[j].toHost[i] = Body(v)
               PROVE  \/ i \in DOMAIN connection[j].toHost /\ connection[j].toHost[i] = Body(v)
                      \/ /\ j = k /\ v = w /\ ~UNCHANGED connection[j].toHost
                         /\ i = Len(connection[j].toHost) + 2
    OBVIOUS
  <2>1. CASE UNCHANGED connection[j].toHost
    BY <2>1
  <2>2. CASE ~UNCHANGED connection[j].toHost
    <3>1. j = k
      BY <1>2, <2>2
    <3>2. Body(v) # Header(w) /\ (Body(v) = Body(w) => v = w)
      <4>1. Body(v).part = "body" /\ Header(w).part = "header" /\ Body(v).of = v /\ Body(w).of = w
        BY DEF Body, Header
      <4> QED BY <4>1
    <3> DEFINE length == Len(connection[j].toHost)
    <3>3. length \in Nat /\ i \in 1 .. length + 2 /\ DOMAIN connection[j].toHost = 1 .. length
      BY <1>4, <2>2, <3>1 DEF IInv, TypeOK
    <3>4. i \in 1 .. length \/ i = length + 1 \/ i = length + 2
      <4> HIDE DEF length
      <4> QED BY <3>3
    <3>5. i # length + 1
      BY <1>4, <2>2, <3>1, <3>2
    <3>6. i = length + 2 => v = w
      BY <1>4, <2>2, <3>1, <3>2
    <3>7. i \in 1 .. length => connection[j].toHost[i] = Body(v)
      BY <1>4, <2>2, <3>1
    <3> QED BY <2>2, <3>1, <3>3, <3>4, <3>5, <3>6, <3>7
  <2> QED BY <2>1, <2>2
<1>6. \A v \in WebRequest, j \in Connection :
          InTransit(v, j)' => InTransit(v, j) \/ (v = w /\ j = k)
  BY <1>5 DEF InTransit
<1>7. TypeOK'
  BY <1>2, <1>3 DEF IInv, TypeOK, HostTypeOK, hostVars
<1>8. HostOwns'
  BY <1>2, OwnsQuiet DEF HostAt, hostVars, EndsUnchanged
<1>9. Registry'
  BY <1>1, <1>2, RegistryQuiet DEF EndsUnchanged
<1>10. UsesEntered'
  <2>1. \A j \in Connection : connection'[j].toHost # <<>> => Entered(j)
    BY <1>1, <1>2 DEF IInv, UsesEntered
  <2> QED BY <1>1, <1>3, <2>1, UsesQuiet DEF hostVars
<1>11. RegistrationArrives'
  <2> SUFFICES ASSUME NEW j \in Connection
               PROVE  Arrives(j)'
    BY DEF RegistrationArrives
  <2>1. CASE j = k
    BY <1>1, <2>1, ArrivesQuiet DEF HostAt, hostVars, EndsUnchanged
  <2>2. CASE j # k
    BY <1>1, <1>2, <2>2, ArrivesQuiet DEF HostAt, HostLost, hostVars, EndsUnchanged
  <2> QED BY <2>1, <2>2
<1>12. PostsAreWhole'
  <2>1. ASSUME NEW j \in Connection
        PROVE  Whole(j)'
    <3>1. CASE UNCHANGED connection[j].toHost
      BY <1>2, <3>1, WholeQuiet DEF HostAt, hostVars, EndsUnchanged
    <3>2. CASE ~UNCHANGED connection[j].toHost
      <4>1. j = k
        BY <1>2, <3>2
      <4> DEFINE length == Len(connection[j].toHost)
                 toHostNext == connection'[j].toHost
      <4>2. /\ length \in Nat /\ Len(toHostNext) = length + 2
            /\ toHostNext[length + 1] = Header(w) /\ toHostNext[length + 2] = Body(w)
        BY <1>4, <3>2, <4>1 DEF IInv, TypeOK
      <4>3. \A i \in 1 .. 2 :
                /\ toHostNext[length + i].part \in {"header", "body"} => toHostNext[length + i].of \in WebRequest
                /\ toHostNext[length + i].part = "header" =>
                      i # 2 /\ toHostNext[(length + i) + 1] = Body(toHostNext[length + i].of)
        <5> HIDE DEF length, toHostNext
        <5>1. (length + 1) + 1 = length + 2
          BY <4>2
        <5> QED BY <4>2, <5>1 DEF Header, Body
      <4>4. ~connection[k].broken /\ \A i \in 1 .. length : toHostNext[i] = connection[j].toHost[i]
        BY <1>4, <3>2, <4>1
      <4>5. HostAt("body", j)' => HostAt("body", j)
        BY DEF HostAt, hostVars
      <4> QED BY <1>7, <4>1, <4>2, <4>3, <4>4, <4>5, WholeSent
    <3> QED BY <3>1, <3>2
  <2> QED BY <2>1 DEF PostsAreWhole, IInv, hostVars
<1>13. WhitelistedOnce'
  <2> SUFFICES ASSUME NEW v \in WebRequest, NEW j \in Connection
               PROVE  Once(v, j)'
    BY DEF WhitelistedOnce
  <2>1. /\ Once(v, j) /\ (Told(v, j)' <=> Told(v, j)) /\ UNCHANGED acknowledged
        /\ web'[v].pc \in {"idle", "check", "send"} => web[v].pc \in {"idle", "check", "send"}
    BY <1>3 DEF IInv, WhitelistedOnce, Told, HostAt, hostVars, Goes
  <2>2. CASE v = w /\ j = k /\ ~UNCHANGED connection[j].toHost
    <3>1. ~InTransit(v, j) /\ ~Told(v, j) /\ v \notin acknowledged[j]
      BY <1>1, <2>1, <2>2 DEF Once
    <3>2. \A i \in DOMAIN connection'[j].toHost :
              connection'[j].toHost[i] = Body(v) => i = Len(connection[j].toHost) + 2
      BY <1>5, <3>1 DEF InTransit
    <3>3. web'[v].pc \notin {"idle", "check", "send"}
      BY <1>3, <2>2 DEF Goes
    <3> QED BY <2>1, <3>1, <3>2, <3>3 DEF Once
  <2>3. CASE ~(v = w /\ j = k /\ ~UNCHANGED connection[j].toHost)
    <3>1. \A i \in DOMAIN connection'[j].toHost : connection'[j].toHost[i] = Body(v) =>
              i \in DOMAIN connection[j].toHost /\ connection[j].toHost[i] = Body(v)
      BY <1>5, <2>3
    <3>2. InTransit(v, j)' => InTransit(v, j)
      BY <3>1 DEF InTransit
    <3>3. web'[v].pc \in {"idle", "check", "send"} => web[v].pc \in {"idle", "check", "send"}
      BY <2>1
    <3> QED BY <2>1, <3>1, <3>2, <3>3 DEF Once
  <2> QED BY <2>2, <2>3
<1>14. AnswersAreAcknowledged' /\ AnswersAreAwaited' /\ LoneRequests'
  <2>1. CASE Goes(w, "receive")
    BY <1>1, <1>2, <1>3, <1>6, <1>7, <2>1, AddressSent
  <2>2. CASE Goes(w, "drop") /\ UNCHANGED connection
    <3>1. \A j \in Connection : Entered(j) => Subsides(j)
      BY <2>2 DEF Subsides, CanAnswer, BackendLost, Disposed, InTransit, HostAt, hostVars
    <3> QED BY <1>1, <1>7, <2>2, <3>1, WebQuiet DEF WebAtWork
  <2> QED BY <1>3, <2>1, <2>2
<1> QED BY <1>7, <1>8, <1>9, <1>10, <1>11, <1>12, <1>13, <1>14 DEF IInv

\* Whoever receives takes one or more answers, and no longer waits.
LEMMA ReceiveAnswerInv ==
    ASSUME IInv, NEW w \in WebRequest, ReceiveAnswer(w), UNCHANGED hostVars
    PROVE  IInv'
<1>1. PICK k \in Connection :
            /\ k = web[w].k /\ k # None /\ Entered(k)
            /\ UNCHANGED <<hostIdentities, hostVars, registered, acceptor>>
            /\ web[w].pc = "receive"
  <2>1. UNCHANGED <<hostIdentities, hostVars, registered, acceptor>> /\ web[w].pc = "receive"
    BY DEF ReceiveAnswer, RegistryUnchanged
  <2>2. web[w].k # None
    BY <2>1 DEF IInv, UsesEntered, WebAtWork
  <2>3. web[w].k \in Connection /\ Entered(web[w].k)
    BY <2>2, Typed DEF IInv, UsesEntered
  <2> QED BY <2>1, <2>2, <2>3
<1>2. /\ ConnectionTypeOK' /\ EndsUnchanged
      /\ \A j \in Connection :
            /\ UNCHANGED connection[j].toHost
            /\ j # k => UNCHANGED connection[j].toBackend
  <2>1. CASE UNCHANGED connection
    BY <2>1 DEF IInv, TypeOK, ConnectionTypeOK, EndsUnchanged
  <2>2. CASE \E n : BackendReceives(k, n)
    BY <1>1, <2>2, BackendReceivesEffect DEF IInv, TypeOK
  <2> QED BY <1>1, <2>1, <2>2 DEF ReceiveAnswer
<1>3. \E pc \in {"redirect", "failed", "drop"} :
          /\ Goes(w, pc) /\ BackendTypeOK'
          /\ \/ UNCHANGED connection[k].toBackend /\ ~CanAnswer(k) /\ pc # "redirect"
             \/ /\ CanAnswer(k) /\ connection[k].toBackend # <<>>
                /\ Len(connection'[k].toBackend) <= Len(connection[k].toBackend) - 1
  <2>1. hostIdentities' \in Connection \cup {None}
    BY <1>1, <1>2, Typed DEF IInv
  <2>2. ASSUME NEW pc \in {"redirect", "failed", "drop"}, SetWeb(w, pc)
        PROVE  Goes(w, pc) /\ BackendTypeOK'
    BY <1>1, <1>2, <2>1, <2>2, SetWebEffect DEF IInv, TypeOK, WebAtWork
  <2>3. ASSUME NEW n \in 1 .. Len(connection[k].toBackend), BackendReceives(k, n)
        PROVE  /\ CanAnswer(k) /\ connection[k].toBackend # <<>>
               /\ Len(connection'[k].toBackend) <= Len(connection[k].toBackend) - 1
    <3> DEFINE arrived == Len(connection[k].toBackend)
               arrivedNext == Len(connection'[k].toBackend)
    <3>1. arrivedNext = arrived - n /\ arrived \in Nat /\ n \in 1 .. arrived
      BY <1>1, <1>2, <2>3, BackendReceivesEffect, Sequenced DEF IInv, TypeOK
    <3>2. connection[k].toBackend # <<>>
      BY <3>1
    <3>3. arrivedNext <= arrived - 1
      <4> HIDE DEF arrived, arrivedNext
      <4> QED BY <3>1
    <3> QED BY <2>3, <3>2, <3>3 DEF CanAnswer, BackendReceives
  <2>4. CASE \E n \in 1 .. Len(connection[k].toBackend) :
                /\ BackendReceives(k, n)
                /\ SetWeb(w, IF connection[k].toBackend[1] = Ok THEN "redirect" ELSE "failed")
    BY <2>2, <2>3, <2>4
  <2>5. CASE UNCHANGED connection /\ ~CanAnswer(k) /\ \E pc \in {"failed", "drop"} : SetWeb(w, pc)
    BY <2>2, <2>5
  <2>6. CASE BackendReceivesNothing(k) /\ SetWeb(w, "failed") /\ UNCHANGED connection
    BY <2>5, <2>6 DEF BackendReceivesNothing, CanAnswer
  <2>7. CASE BackendReceiveThrows(k) /\ SetWeb(w, "drop") /\ UNCHANGED connection
    BY <2>5, <2>7 DEF BackendReceivesNothing, BackendReceiveThrows, CanAnswer
  <2> QED BY <1>1, <1>2, <2>4, <2>6, <2>7 DEF ReceiveAnswer
<1>4. TypeOK'
  BY <1>2, <1>3 DEF IInv, TypeOK, HostTypeOK, hostVars
<1>5. HostOwns'
  BY <1>2, OwnsQuiet DEF HostAt, hostVars, EndsUnchanged
<1>6. Registry'
  BY <1>1, <1>2, RegistryQuiet DEF EndsUnchanged
<1>7. UsesEntered'
  <2>1. \A j \in Connection : connection'[j].toHost # <<>> => Entered(j)
    BY <1>2 DEF IInv, UsesEntered
  <2> QED BY <1>1, <1>3, <2>1, UsesQuiet DEF hostVars
<1>8. RegistrationArrives'
  <2> SUFFICES ASSUME NEW j \in Connection
               PROVE  Arrives(j)'
    BY DEF RegistrationArrives
  <2>1. CASE j = k
    BY <1>1, <2>1, ArrivesQuiet DEF HostAt, hostVars, EndsUnchanged
  <2>2. CASE j # k
    BY <1>1, <1>2, <2>2, ArrivesQuiet DEF HostAt, HostLost, hostVars, EndsUnchanged
  <2> QED BY <2>1, <2>2
<1>9. PostsAreWhole'
  <2>1. ASSUME NEW j \in Connection
        PROVE  Whole(j)'
    BY <1>2, WholeQuiet DEF HostAt, hostVars, EndsUnchanged
  <2> QED BY <2>1 DEF PostsAreWhole, IInv, hostVars
<1>10. WhitelistedOnce'
  <2> SUFFICES ASSUME NEW v \in WebRequest, NEW j \in Connection
               PROVE  Once(v, j)'
    BY DEF WhitelistedOnce
  <2>1. web'[v].pc \in {"idle", "check", "send"} => web[v].pc \in {"idle", "check", "send"}
    BY <1>3 DEF Goes
  <2> QED BY <1>2, <2>1, OnceQuiet DEF Told, HostAt, hostVars
<1>11. AnswersAreAcknowledged' /\ AnswersAreAwaited' /\ LoneRequests'
  BY <1>1, <1>2, <1>3, <1>4, AnswerReceived
<1> QED BY <1>4, <1>5, <1>6, <1>7, <1>8, <1>9, <1>10, <1>11 DEF IInv

LEMMA RedirectVisitorInv ==
    ASSUME IInv, NEW w \in WebRequest, RedirectVisitor(w), UNCHANGED hostVars
    PROVE  IInv'
<1>1. /\ UNCHANGED <<connection, hostIdentities, hostVars, registered, acceptor>>
      /\ web[w].pc = "redirect" /\ web[w].k # None /\ web[w].k \in Connection /\ Entered(web[w].k)
  <2>1. UNCHANGED <<connection, hostIdentities, hostVars, registered, acceptor>> /\ web[w].pc = "redirect"
    BY DEF RedirectVisitor, RegistryUnchanged, DropConnection
  <2>2. web[w].k # None
    BY <2>1 DEF IInv, UsesEntered, WebAtWork
  <2> QED BY <2>1, <2>2, Typed DEF IInv, UsesEntered
<1>2. \E pc \in {"failed", "redirected"} : Goes(w, pc) /\ BackendTypeOK'
  <2>1. hostIdentities' \in Connection \cup {None}
    BY <1>1, Typed DEF IInv
  <2> QED BY <1>1, <2>1, SetWebEffect DEF RedirectVisitor, IInv, TypeOK, WebAtWork
<1>3. TypeOK'
  BY <1>1, <1>2 DEF IInv, TypeOK, HostTypeOK, ConnectionTypeOK, hostVars
<1>4. HostOwns'
  BY <1>1, <1>2, OwnsQuiet DEF HostAt, hostVars, EndsUnchanged
<1>5. Registry'
  BY <1>1, <1>2, RegistryQuiet
<1>6. UsesEntered'
  <2>1. \A j \in Connection : connection'[j].toHost # <<>> => Entered(j)
    BY <1>1, <1>2 DEF IInv, UsesEntered
  <2> QED BY <1>1, <1>2, <2>1, UsesQuiet DEF hostVars
<1>7. RegistrationArrives'
  <2> SUFFICES ASSUME NEW j \in Connection
               PROVE  Arrives(j)'
    BY DEF RegistrationArrives
  <2> QED BY <1>1, <1>2, ArrivesQuiet DEF HostAt, HostLost, hostVars
<1>8. PostsAreWhole'
  <2>1. ASSUME NEW j \in Connection
        PROVE  Whole(j)'
    BY <1>1, <1>2, WholeQuiet DEF HostAt, hostVars, EndsUnchanged
  <2>2. host'.pc = "whitelist" => host'.client \in WebRequest
    BY <1>1, <1>2 DEF IInv, PostsAreWhole, hostVars
  <2> QED BY <2>1, <2>2 DEF PostsAreWhole
<1>9. WhitelistedOnce'
  <2> SUFFICES ASSUME NEW v \in WebRequest, NEW j \in Connection
               PROVE  Once(v, j)'
    BY DEF WhitelistedOnce
  <2>1. web'[v].pc \in {"idle", "check", "send"} => web[v].pc \in {"idle", "check", "send"}
    BY <1>1, <1>2 DEF Goes
  <2> QED BY <1>1, <1>2, <2>1, OnceQuiet DEF Told, HostAt, hostVars
<1>10. AnswersAreAcknowledged' /\ AnswersAreAwaited' /\ LoneRequests'
  <2>1. \A j \in Connection : Entered(j) => Subsides(j)
    BY <1>1, <1>2, Sequenced DEF Subsides, CanAnswer, BackendLost, Disposed, InTransit, HostAt,
       hostVars
  <2> QED BY <1>1, <1>2, <1>3, <2>1, WebQuiet DEF WebAtWork
<1> QED BY <1>3, <1>4, <1>5, <1>6, <1>7, <1>8, <1>9, <1>10 DEF IInv

LEMMA DropHostInv ==
    ASSUME IInv, NEW w \in WebRequest, DropHost(w), UNCHANGED hostVars
    PROVE  IInv'
<1>1. /\ UNCHANGED <<hostVars, registered, acceptor>>
      /\ web[w].pc = "drop" /\ web[w].k # None /\ web[w].k \in Connection /\ Entered(web[w].k)
  <2>1. UNCHANGED <<hostVars, registered, acceptor>> /\ web[w].pc = "drop"
    BY DEF DropHost, RegistryUnchanged, DropConnection
  <2>2. web[w].k # None
    BY <2>1 DEF IInv, UsesEntered, WebAtWork
  <2> QED BY <2>1, <2>2, Typed DEF IInv, UsesEntered
<1>2. /\ ConnectionTypeOK' /\ hostIdentities' = None
      /\ \A j \in Connection :
            /\ UNCHANGED <<connection[j].toHost, connection[j].toBackend,
                           connection[j].host, connection[j].broken>>
            /\ connection'[j].backend =
                  IF j = hostIdentities THEN "closed" ELSE connection[j].backend
  BY DropEffect DEF IInv, TypeOK, BackendTypeOK, DropHost
<1>3. \E pc \in {"failed"} : Goes(w, pc) /\ BackendTypeOK'
  <2>1. hostIdentities' \in Connection \cup {None}
    BY <1>1, <1>2, Typed DEF IInv
  <2> QED BY <1>1, <1>2, <2>1, SetWebEffect DEF DropHost, IInv, TypeOK, WebAtWork
<1>4. TypeOK'
  BY <1>2, <1>3 DEF IInv, TypeOK, HostTypeOK, hostVars
<1>5. HostOwns'
  BY <1>2, OwnsQuiet DEF hostVars
<1>6. Registry'
  BY <1>1, <1>2, RegistryDropped
<1>7. UsesEntered'
  <2>1. \A j \in Connection : connection'[j].toHost # <<>> => Entered(j)
    BY <1>2 DEF IInv, UsesEntered
  <2> QED BY <1>1, <1>3, <2>1, UsesQuiet DEF hostVars
<1>8. RegistrationArrives'
  <2> SUFFICES ASSUME NEW j \in Connection
               PROVE  Arrives(j)'
    BY DEF RegistrationArrives
  <2> QED BY <1>1, <1>2, ArrivesQuiet DEF HostAt, HostLost, hostVars
<1>9. PostsAreWhole'
  <2>1. ASSUME NEW j \in Connection
        PROVE  Whole(j)'
    BY <1>2, WholeQuiet DEF HostAt, hostVars
  <2> QED BY <2>1 DEF PostsAreWhole, IInv, hostVars
<1>10. WhitelistedOnce'
  <2> SUFFICES ASSUME NEW v \in WebRequest, NEW j \in Connection
               PROVE  Once(v, j)'
    BY DEF WhitelistedOnce
  <2>1. web'[v].pc \in {"idle", "check", "send"} => web[v].pc \in {"idle", "check", "send"}
    BY <1>3 DEF Goes
  <2> QED BY <1>2, <2>1, OnceQuiet DEF Told, HostAt, hostVars
<1>11. AnswersAreAcknowledged' /\ AnswersAreAwaited' /\ LoneRequests'
  <2>1. \A j \in Connection : Entered(j) => Subsides(j)
    BY <1>2 DEF Subsides, CanAnswer, BackendLost, Disposed, InTransit, HostAt, hostVars
  <2> QED BY <1>1, <1>3, <1>4, <2>1, WebQuiet DEF WebAtWork
<1> QED BY <1>4, <1>5, <1>6, <1>7, <1>8, <1>9, <1>10, <1>11 DEF IInv

-----------------------------------------------------------------------------
(* The network drops a connection, a visitor follows a redirection *)

LEMMA BreakConnectionInv ==
    ASSUME IInv, NEW k \in Connection, BreakConnection(k)
    PROVE  IInv'
<1>1. UNCHANGED <<hostVars, backendVars>>
  BY DEF BreakConnection
<1>2. /\ ConnectionTypeOK'
      /\ \A j \in Connection :
            /\ UNCHANGED <<connection[j].host, connection[j].backend>>
            /\ connection'[j].broken = (connection[j].broken \/ j = k)
            /\ j # k => UNCHANGED <<connection[j].toHost, connection[j].toBackend>>
            /\ Len(connection'[j].toBackend) <= Len(connection[j].toBackend)
            /\ Len(connection'[j].toHost) <= Len(connection[j].toHost)
            /\ \A i \in DOMAIN connection'[j].toHost :
                  connection'[j].toHost[i] = connection[j].toHost[i]
  BY BreakEffect DEF BreakConnection, IInv, TypeOK
<1>3. \A j \in Connection :
          /\ DOMAIN connection'[j].toHost = 1 .. Len(connection'[j].toHost)
          /\ DOMAIN connection[j].toHost = 1 .. Len(connection[j].toHost)
          /\ DOMAIN connection'[j].toHost \subseteq DOMAIN connection[j].toHost
          /\ Len(connection[j].toHost) \in Nat /\ Len(connection'[j].toHost) \in Nat
          /\ Len(connection[j].toBackend) \in Nat /\ Len(connection'[j].toBackend) \in Nat
  <2> SUFFICES ASSUME NEW j \in Connection
               PROVE  /\ DOMAIN connection'[j].toHost = 1 .. Len(connection'[j].toHost)
                      /\ DOMAIN connection[j].toHost = 1 .. Len(connection[j].toHost)
                      /\ DOMAIN connection'[j].toHost \subseteq DOMAIN connection[j].toHost
                      /\ Len(connection[j].toHost) \in Nat /\ Len(connection'[j].toHost) \in Nat
                      /\ Len(connection[j].toBackend) \in Nat /\ Len(connection'[j].toBackend) \in Nat
    OBVIOUS
  <2>1. /\ DOMAIN connection'[j].toHost = 1 .. Len(connection'[j].toHost)
        /\ DOMAIN connection[j].toHost = 1 .. Len(connection[j].toHost)
        /\ Len(connection[j].toHost) \in Nat /\ Len(connection'[j].toHost) \in Nat
        /\ Len(connection[j].toBackend) \in Nat /\ Len(connection'[j].toBackend) \in Nat
        /\ Len(connection'[j].toHost) <= Len(connection[j].toHost)
    BY <1>1, <1>2, Sequenced, SequencedNext DEF IInv, TypeOK
  <2> QED BY <2>1
<1>4. \A j \in Connection :
          /\ connection'[j].toHost # <<>> => connection[j].toHost # <<>>
          /\ connection'[j].toBackend # <<>> => connection[j].toBackend # <<>>
          /\ \A v \in WebRequest : InTransit(v, j)' => InTransit(v, j)
  <2> SUFFICES ASSUME NEW j \in Connection
               PROVE  /\ connection'[j].toHost # <<>> => connection[j].toHost # <<>>
                      /\ connection'[j].toBackend # <<>> => connection[j].toBackend # <<>>
                      /\ \A v \in WebRequest : InTransit(v, j)' => InTransit(v, j)
    OBVIOUS
  <2>1. /\ connection'[j].toHost \in Seq(Piece) /\ connection'[j].toBackend \in Seq(Piece)
        /\ connection[j].toHost \in Seq(Piece) /\ connection[j].toBackend \in Seq(Piece)
    BY <1>2, Sequenced, SequencedNext DEF IInv, TypeOK
  <2>2. /\ Len(connection'[j].toHost) <= Len(connection[j].toHost)
        /\ Len(connection'[j].toBackend) <= Len(connection[j].toBackend)
    BY <1>2
  <2>3. \A s \in Seq(Piece), t \in Seq(Piece) : Len(t) <= Len(s) /\ t # <<>> => s # <<>>
    OBVIOUS
  <2>4. \A v \in WebRequest : InTransit(v, j)' => InTransit(v, j)
    BY <1>2 DEF InTransit
  <2> QED BY <2>1, <2>2, <2>3, <2>4
<1>5. TypeOK'
  BY <1>1, <1>2 DEF IInv, TypeOK, HostTypeOK, BackendTypeOK, hostVars, backendVars
<1>6. HostOwns'
  BY <1>1, <1>2, OwnsQuiet DEF HostAt, hostVars, EndsUnchanged
<1>7. Registry'
  BY <1>1, <1>2, RegistryQuiet DEF backendVars, EndsUnchanged
<1>8. UsesEntered'
  BY <1>1, <1>4 DEF IInv, UsesEntered, Entered, hostVars, backendVars
<1>9. RegistrationArrives'
  <2> SUFFICES ASSUME NEW j \in Connection
               PROVE  Arrives(j)'
    BY DEF RegistrationArrives
  <2>1. CASE j = k
    <3> DEFINE length == Len(connection[k].toBackend)
               lengthNext == Len(connection'[k].toBackend)
    <3>1. lengthNext \in Nat /\ length \in Nat /\ lengthNext <= length
      BY <1>2
    <3>2. /\ HostLost(k)' /\ UNCHANGED acceptor
          /\ \A pc : HostAt(pc, k)' <=> HostAt(pc, k)
          /\ Entered(k)' <=> Entered(k)
      BY <1>1, <1>2 DEF HostLost, HostAt, Entered, hostVars, backendVars
    <3>3. Arrives(k)
      BY DEF IInv, RegistrationArrives
    <3>4. /\ length = 0 => lengthNext = 0
          /\ length <= 1 => lengthNext = 0 \/ lengthNext = 1
          /\ length <= 2 => lengthNext <= 2
      <4> HIDE DEF length, lengthNext
      <4> QED BY <3>1
    <3>5. /\ length = 0 => length <= 1
          /\ length = 1 => length <= 1
          /\ lengthNext = 0 \/ lengthNext = 1 => lengthNext <= 1
      <4> HIDE DEF length, lengthNext
      <4> QED BY <3>1
    <3> QED BY <2>1, <3>2, <3>3, <3>4, <3>5 DEF Arrives
  <2>2. CASE j # k
    BY <1>1, <1>2, <2>2, ArrivesQuiet DEF HostAt, HostLost, hostVars, backendVars
  <2> QED BY <2>1, <2>2
<1>10. PostsAreWhole'
  <2>1. ASSUME NEW j \in Connection
        PROVE  Whole(j)'
    <3>1. CASE j = k
      <4>1. Whole(k) /\ connection'[k].broken
        BY <1>2 DEF IInv, PostsAreWhole
      <4>2. ASSUME NEW i \in DOMAIN connection'[k].toHost
            PROVE  /\ connection'[k].toHost[i].part \in {"header", "body"} =>
                         connection'[k].toHost[i].of \in WebRequest
                   /\ connection'[k].toHost[i].part = "header" /\ i # Len(connection'[k].toHost) =>
                         connection'[k].toHost[i + 1] = Body(connection'[k].toHost[i].of)
        <5>1. i \in DOMAIN connection[k].toHost /\ connection'[k].toHost[i] = connection[k].toHost[i]
          BY <1>2
        <5>2. i # Len(connection'[k].toHost) =>
                  i # Len(connection[k].toHost) /\ i + 1 \in DOMAIN connection'[k].toHost
          BY <1>2
        <5>3. i # Len(connection'[k].toHost) =>
                  connection'[k].toHost[i + 1] = connection[k].toHost[i + 1]
          BY <1>2, <5>2
        <5> QED BY <4>1, <5>1, <5>2, <5>3 DEF Whole
      <4>3. HostAt("body", k)' /\ connection'[k].toHost # <<>> => connection'[k].toHost[1].part = "body"
        <5>1. connection'[k].toHost # <<>> => 1 \in DOMAIN connection'[k].toHost
          BY <1>5, SequencedNext DEF TypeOK
        <5> QED BY <1>1, <1>2, <4>1, <5>1 DEF Whole, HostAt, hostVars
      <4> QED BY <3>1, <4>1, <4>2, <4>3 DEF Whole
    <3>2. CASE j # k
      BY <1>1, <1>2, <3>2, WholeQuiet DEF HostAt, hostVars
    <3> QED BY <3>1, <3>2
  <2> QED BY <1>1, <2>1 DEF PostsAreWhole, IInv, hostVars
<1>11. WhitelistedOnce'
  <2> SUFFICES ASSUME NEW v \in WebRequest, NEW j \in Connection
               PROVE  Once(v, j)'
    BY DEF WhitelistedOnce
  <2>1. Once(v, j)
    BY DEF IInv, WhitelistedOnce
  <2>2. Told(v, j)' <=> Told(v, j)
    BY <1>1 DEF Told, HostAt, hostVars
  <2>3. \A i, m \in DOMAIN connection'[j].toHost :
            connection'[j].toHost[i] = Body(v) /\ connection'[j].toHost[m] = Body(v) => i = m
    BY <1>2, <2>1 DEF Once
  <2> QED BY <1>1, <1>4, <2>1, <2>2, <2>3 DEF Once, hostVars, backendVars
<1>12. AnswersAreAcknowledged' /\ AnswersAreAwaited' /\ LoneRequests'
  <2>1. \A j \in Connection : Entered(j) => Subsides(j)
    BY <1>1, <1>2, <1>4 DEF Subsides, CanAnswer, BackendLost, Disposed, HostAt, hostVars
  <2> QED BY <1>1, <1>5, <2>1, SubsidingStep DEF hostVars, backendVars
<1> QED BY <1>5, <1>6, <1>7, <1>8, <1>9, <1>10, <1>11, <1>12 DEF IInv

\* A lone visitor who follows its redirection is on the whitelist.
LEMMA VisitHostInv ==
    ASSUME IInv, NEW w \in WebRequest, VisitHost(w)
    PROVE  IInv'
<1>1. /\ UNCHANGED <<connection, hostVars, hostIdentities, registered, acceptor>>
      /\ web[w].pc = "redirected" /\ host.k = web[w].k
  BY DEF VisitHost
<1>2. web[w].k # None /\ web[w].k \in Connection /\ Entered(web[w].k)
  <2>1. web[w].k # None
    BY <1>1 DEF IInv, UsesEntered
  <2> QED BY <2>1, Typed DEF IInv, UsesEntered
<1>3. \E pc \in {"served", "rejected"} :
          Goes(w, pc) /\ BackendTypeOK' /\ (w \in whitelist => pc = "served")
  BY <1>1, <1>2, Typed, SetWebEffect DEF VisitHost, IInv, TypeOK, WebAtWork
<1>4. web[w].alone => w \in whitelist
  <2>1. web[w].alone => w \in acknowledged[web[w].k]
    BY <1>1 DEF IInv, LoneRequests, Lone
  <2> QED BY <1>1, <1>2, <2>1 DEF IInv, HostOwns
<1>5. TypeOK'
  BY <1>1, <1>3 DEF IInv, TypeOK, HostTypeOK, ConnectionTypeOK, hostVars
<1>6. HostOwns'
  BY <1>1, OwnsQuiet DEF HostAt, hostVars, EndsUnchanged
<1>7. Registry'
  BY <1>1, RegistryQuiet
<1>8. UsesEntered'
  <2>1. \A j \in Connection : connection'[j].toHost # <<>> => Entered(j)
    BY <1>1 DEF IInv, UsesEntered
  <2> QED BY <1>1, <1>2, <1>3, <2>1, UsesQuiet DEF hostVars
<1>9. RegistrationArrives'
  <2> SUFFICES ASSUME NEW j \in Connection
               PROVE  Arrives(j)'
    BY DEF RegistrationArrives
  <2> QED BY <1>1, ArrivesQuiet DEF HostAt, HostLost, hostVars
<1>10. PostsAreWhole'
  <2>1. ASSUME NEW j \in Connection
        PROVE  Whole(j)'
    BY <1>1, WholeQuiet DEF HostAt, hostVars, EndsUnchanged
  <2>2. host'.pc = "whitelist" => host'.client \in WebRequest
    BY <1>1 DEF IInv, PostsAreWhole, hostVars
  <2> QED BY <2>1, <2>2 DEF PostsAreWhole
<1>11. WhitelistedOnce'
  <2> SUFFICES ASSUME NEW v \in WebRequest, NEW j \in Connection
               PROVE  Once(v, j)'
    BY DEF WhitelistedOnce
  <2>1. web'[v].pc \in {"idle", "check", "send"} => web[v].pc \in {"idle", "check", "send"}
    BY <1>3 DEF Goes
  <2> QED BY <1>1, <2>1, OnceQuiet DEF Told, HostAt, hostVars
<1>12. AnswersAreAcknowledged' /\ AnswersAreAwaited' /\ LoneRequests'
  <2>1. \A j \in Connection : Entered(j) => Subsides(j)
    BY <1>1 DEF Subsides, CanAnswer, BackendLost, Disposed, InTransit, HostAt, hostVars
  <2> QED BY <1>1, <1>3, <1>4, <1>5, <2>1, WebQuiet DEF WebAtWork
<1> QED BY <1>5, <1>6, <1>7, <1>8, <1>9, <1>10, <1>11, <1>12 DEF IInv

-----------------------------------------------------------------------------
(* The invariant *)

\* Nothing is registered, sent or waited for at first.
LEMMA InitInv ==
    ASSUME Init
    PROVE  IInv
<1> USE DEF Init, HostInit, BackendInit
<1>1. /\ \A k \in Connection : connection[k] = Unused /\ acknowledged[k] = {} /\ acceptor[k] = "none"
      /\ \A k : ~Entered(k)
      /\ \A w \in WebRequest : web[w].pc = "idle" /\ web[w].k = None
  BY DEF Entered
<1>2. TypeOK
  BY DEF TypeOK, ConnectionTypeOK, HostTypeOK, BackendTypeOK, Unused
<1>3. HostOwns
  BY <1>1, NoneAssumption DEF HostOwns, Unused
<1>4. Registry
  BY <1>1 DEF Registry, Unused
<1>5. UsesEntered
  BY <1>1 DEF UsesEntered, Unused, WebAtWork
<1>6. RegistrationArrives
  BY <1>1 DEF RegistrationArrives, Arrives, Unused, HostAt
<1>7. PostsAreWhole
  BY <1>1 DEF PostsAreWhole, Whole, Unused, HostAt
<1>8. WhitelistedOnce
  BY <1>1 DEF WhitelistedOnce, Once, InTransit, Told, Unused, HostAt
<1>9. AnswersAreAcknowledged /\ AnswersAreAwaited
  BY <1>1 DEF AnswersAreAcknowledged, AnswersAreAwaited
<1>10. LoneRequests
  BY <1>1 DEF LoneRequests, Lone, WebAtWork
<1> QED BY <1>2, <1>3, <1>4, <1>5, <1>6, <1>7, <1>8, <1>9, <1>10 DEF IInv

\* A step that changes nothing.
LEMMA StutteringInv ==
    ASSUME IInv, UNCHANGED vars
    PROVE  IInv'
<1>1. UNCHANGED <<connection, host, whitelist, acknowledged, hostIdentities, registered, acceptor, web>>
  BY DEF vars, hostVars, backendVars
<1>2. TypeOK' /\ HostOwns' /\ Registry' /\ UsesEntered'
  BY <1>1 DEF IInv, TypeOK, ConnectionTypeOK, HostTypeOK, BackendTypeOK, HostOwns, Registry,
     UsesEntered, Entered, Disposed
<1>3. RegistrationArrives' /\ PostsAreWhole' /\ WhitelistedOnce'
  BY <1>1 DEF IInv, RegistrationArrives, Arrives, Entered, HostAt, HostLost, PostsAreWhole, Whole,
     WhitelistedOnce, Once, Told, InTransit
<1>4. AnswersAreAcknowledged' /\ AnswersAreAwaited' /\ LoneRequests'
  <2>1. \A j \in Connection : Subsides(j)
    BY <1>1, Sequenced DEF Subsides, CanAnswer, BackendLost, Disposed, InTransit, HostAt
  <2> QED BY <1>1, <1>2, <2>1, SubsidingStep
<1> QED BY <1>2, <1>3, <1>4 DEF IInv

\* Every step keeps the invariant.
LEMMA NextInv ==
    ASSUME IInv, [Next]_vars
    PROVE  IInv'
<1>1. ASSUME NEW k \in Connection, HostStep(k), UNCHANGED backendVars
      PROVE  IInv'
  BY <1>1, ConnectToBackendInv, PostHeaderInv, PostBodyInv, ReceiveResponseInv, ReceivePostInv,
     ReceiveBodyInv, WhitelistIPInv, SendResponseInv, CloseConnectionInv DEF HostStep
<1>2. ASSUME NEW k \in Connection, AcceptorStep(k), UNCHANGED hostVars
      PROVE  IInv'
  BY <1>2, AcceptSocketInv, ReceiveHeaderInv, ReceiveRegistrationBodyInv, RegisterInv, RespondInv,
     DropFailedRegistrationInv, RefuseConnectionInv DEF AcceptorStep
<1>3. ASSUME NEW w \in WebRequest, FindHost(w) \/ WebStep(w), UNCHANGED hostVars
      PROVE  IInv'
  BY <1>3, FindHostInv, CheckConnectedInv, SendClientIPInv, ReceiveAnswerInv, RedirectVisitorInv,
     DropHostInv DEF WebStep
<1> QED BY <1>1, <1>2, <1>3, BreakConnectionInv, VisitHostInv, StutteringInv DEF Next

\* What is on its way over each connection, and what became of it, is as IInv says
\* after every step of the host, the backend and the network.
THEOREM Invariance == Spec => []IInv
<1>1. Init => IInv
  BY InitInv
<1>2. IInv /\ [Next]_vars => IInv'
  BY NextInv
<1> QED BY <1>1, <1>2, PTL DEF Spec

-----------------------------------------------------------------------------
(* The properties *)

\* Every variable of the executable, the backend and the connections keeps its type.
THEOREM TypeCorrect == Spec => []TypeOK
<1>1. IInv => TypeOK
  BY DEF IInv
<1> QED BY <1>1, Invariance, PTL

\* The socket that is mapped to the host's id was not disposed, although any request
\* may drop any entry.
THEOREM RegisteredStaysOpen == Spec => []RegisteredIsOpen
<1>1. IInv => RegisteredIsOpen
  BY DEF IInv, Registry, RegisteredIsOpen, Disposed
<1> QED BY <1>1, Invariance, PTL

\* A host that was told its registration succeeded is the one in the dictionary as
\* long as the backend keeps its connection, unless another was entered after it.
THEOREM ToldHostIsRegistered == Spec => []HostIsRegistered
<1>1. IInv => HostIsRegistered
  <2> SUFFICES ASSUME IInv, host.pc \in {"receive", "body", "whitelist", "reply"},
                      ~Disposed(host.k), registered[Len(registered)] = host.k
               PROVE  hostIdentities = host.k
    BY DEF HostIsRegistered
  <2>1. registered # <<>>
    BY Typed DEF IInv, UsesEntered
  <2> QED BY <2>1 DEF IInv, Registry
<1> QED BY <1>1, Invariance, PTL

\* Whoever takes whose answer, no more visitors are redirected over a connection than
\* the host whitelisted over it.
THEOREM RedirectionsAreAcknowledged == Spec => []RedirectsAreAcknowledged
<1>1. IInv => RedirectsAreAcknowledged
  <2> SUFFICES ASSUME IInv, NEW k \in Connection
               PROVE  Cardinality(Redirected(k)) <= Cardinality(acknowledged[k])
    BY DEF RedirectsAreAcknowledged, Redirected
  <2> DEFINE redirected == Cardinality(Redirected(k))
             arrived == Len(connection[k].toBackend)
             reply == One(HostAt("reply", k))
             all == Cardinality(acknowledged[k])
  <2>1. redirected \in Nat /\ arrived \in Nat /\ reply \in Nat /\ all \in Nat
    BY Counts, Typed DEF IInv, One
  <2>2. CASE Entered(k)
    <3>1. redirected + arrived + reply <= all
      BY <2>2 DEF IInv, AnswersAreAcknowledged, Acknowledged
    <3> HIDE DEF redirected, arrived, reply, all
    <3>2. redirected <= all
      BY <2>1, <3>1
    <3> QED BY <3>2 DEF redirected, all
  <2>3. CASE ~Entered(k)
    <3>1. Redirected(k) = {}
      BY <2>3, NoneAssumption DEF IInv, UsesEntered, Redirected
    <3>2. redirected = 0
      BY <3>1, FS_EmptySet
    <3> HIDE DEF redirected, all
    <3>3. redirected <= all
      BY <2>1, <3>2
    <3> QED BY <3>3 DEF redirected, all
  <2> QED BY <2>2, <2>3
<1> QED BY <1>1, Invariance, PTL

\* A visitor whose request shared the host's connection with no other is on the
\* whitelist of the host it was redirected to.
THEOREM LoneVisitorsAreServed == Spec => []LoneVisitorIsServed
<1>1. IInv => LoneVisitorIsServed
  BY DEF IInv, LoneRequests, Lone, LoneVisitorIsServed
<1> QED BY <1>1, Invariance, PTL

=============================================================================
