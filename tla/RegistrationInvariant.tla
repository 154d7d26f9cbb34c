----------------------- MODULE RegistrationInvariant -----------------------
(***************************************************************************)
(* The inductive invariant of Registration: what is on its way over each   *)
(* connection, and what became of it.                                      *)
(***************************************************************************)
EXTENDS Registration

\* Connection k was entered in the dictionary.
Entered(k) == \E i \in DOMAIN registered : registered[i] = k

\* The address of visitor w is on its way to the host.
InTransit(w, k) ==
    \E i \in DOMAIN connection[k].toHost : connection[k].toHost[i] = Body(w)

\* The visitors that an answer over connection k was taken for.
Redirected(k) ==
    {w \in WebRequest :
        web[w].k = k /\ web[w].pc \in {"redirect", "redirected", "served", "rejected"}}

\* The visitors' requests that wait for an answer over connection k.
Waiting(k) == {w \in WebRequest : web[w].k = k /\ web[w].pc = "receive"}

\* An answer can still be received over connection k.
CanAnswer(k) ==
    ~Disposed(k) /\ ~(BackendLost(k) /\ connection[k].toBackend = <<>>)

One(condition) == IF condition THEN 1 ELSE 0

-----------------------------------------------------------------------------
\* The host's end of a connection is open while it is the host's connection, and the
\* whitelist holds the visitors whitelisted over it.
HostOwns ==
    /\ host.pc = "connect" <=> host.k = None
    /\ host.k = None => whitelist = {}
    /\ \A k \in Connection :
          /\ connection[k].host = "open" <=> host.k = k
          /\ connection[k].host = "none" => acknowledged[k] = {}
          /\ host.k = k => whitelist = acknowledged[k]

\* A thread of the backend works on an open socket until it is entered, and the
\* dictionary holds the socket entered last, or nothing once that was disposed.
Registry ==
    /\ \A k \in Connection :
          /\ acceptor[k] = "none" <=> connection[k].backend = "none"
          /\ acceptor[k] \in {"receive", "body", "register"} => connection[k].backend = "open"
          /\ acceptor[k] \in {"none", "receive", "body", "register", "refuse", "spin"} => ~Entered(k)
          /\ acceptor[k] \in {"respond", "drop"} => Entered(k)
    /\ hostIdentities # None =>
          /\ registered # <<>> /\ hostIdentities = registered[Len(registered)]
          /\ connection[hostIdentities].backend = "open"
    /\ hostIdentities = None /\ registered # <<>> => Disposed(registered[Len(registered)])

\* Only connections that were entered are used for visitors.
UsesEntered ==
    /\ \A k \in Connection : connection[k].toHost # <<>> => Entered(k)
    /\ \A w \in WebRequest :
          /\ web[w].k # None => Entered(web[w].k)
          /\ web[w].pc \in WebAtWork \cup {"redirected"} => web[w].k # None
    /\ host.pc \in {"receive", "body", "whitelist", "reply"} => Entered(host.k)

\* The registration's header and body, and nothing else, are what the backend
\* receives before it enters the host.
Arrives(k) ==
    LET length == Len(connection[k].toBackend) IN
    /\ acceptor[k] \in {"none", "receive"} =>
          IF HostAt("postHeader", k) THEN length = 0
          ELSE IF HostAt("postBody", k) THEN length = 1 \/ (length = 0 /\ HostLost(k))
          ELSE length <= 2
    /\ acceptor[k] = "body" =>
          /\ ~HostAt("postHeader", k)
          /\ IF HostAt("postBody", k) THEN length = 0 ELSE length <= 1
    /\ acceptor[k] = "register" => length = 0
    /\ acceptor[k] = "register" \/ Entered(k) =>
          ~HostAt("postHeader", k) /\ ~HostAt("postBody", k)

RegistrationArrives == \A k \in Connection : Arrives(k)

\* A visitor's body follows its header, unless the connection broke in between.
Whole(k) ==
    LET toHost == connection[k].toHost IN
    /\ \A i \in DOMAIN toHost :
          /\ toHost[i].part \in {"header", "body"} => toHost[i].of \in WebRequest
          /\ toHost[i].part = "header" =>
                IF i = Len(toHost) THEN connection[k].broken
                ELSE toHost[i + 1] = Body(toHost[i].of)
    /\ HostAt("body", k) =>
          IF toHost = <<>> THEN connection[k].broken ELSE toHost[1].part = "body"

PostsAreWhole ==
    /\ \A k \in Connection : Whole(k)
    /\ host.pc = "whitelist" => host.client \in WebRequest

\* A visitor is whitelisted once, over one connection.
Told(w, k) == HostAt("whitelist", k) /\ host.client = w

Once(w, k) ==
    LET toHost == connection[k].toHost IN
    /\ web[w].pc \in {"idle", "check", "send"} =>
          ~InTransit(w, k) /\ ~Told(w, k) /\ w \notin acknowledged[k]
    /\ \A i, j \in DOMAIN toHost : toHost[i] = Body(w) /\ toHost[j] = Body(w) => i = j
    /\ InTransit(w, k) => ~Told(w, k) /\ w \notin acknowledged[k]
    /\ Told(w, k) => w \notin acknowledged[k]

WhitelistedOnce == \A w \in WebRequest, k \in Connection : Once(w, k)

\* Each answer, on its way or taken, stands for a visitor that was whitelisted.
Acknowledged(k) ==
    Cardinality(Redirected(k)) + Len(connection[k].toBackend) + One(HostAt("reply", k))
        <= Cardinality(acknowledged[k])

AnswersAreAcknowledged == \A k \in Connection : Entered(k) => Acknowledged(k)

\* As long as answers can come, somebody waits for each address on its way and
\* each answer.
Awaited(k) ==
    Cardinality({w \in WebRequest : InTransit(w, k)})
            + One(HostAt("whitelist", k)) + One(HostAt("reply", k))
            + Len(connection[k].toBackend)
        <= Cardinality(Waiting(k))

AnswersAreAwaited == \A k \in Connection : Entered(k) /\ CanAnswer(k) => Awaited(k)

\* A request that is alone on its connection gets its own answer.
Lone(w) ==
    LET k == web[w].k IN
    /\ web[w].pc \in WebAtWork => Using(k) = {w}
    /\ web[w].pc = "receive" /\ CanAnswer(k) =>
          /\ \A v \in WebRequest : InTransit(v, k) => v = w
          /\ HostAt("whitelist", k) => host.client = w
          /\ HostAt("reply", k) \/ connection[k].toBackend # <<>> => w \in acknowledged[k]
    /\ web[w].pc \in {"redirect", "redirected"} => w \in acknowledged[k]
    /\ web[w].pc # "rejected"

LoneRequests == \A w \in WebRequest : web[w].alone => Lone(w)

IInv ==
    /\ TypeOK
    /\ HostOwns
    /\ Registry
    /\ UsesEntered
    /\ RegistrationArrives
    /\ PostsAreWhole
    /\ WhitelistedOnce
    /\ AnswersAreAcknowledged
    /\ AnswersAreAwaited
    /\ LoneRequests

=============================================================================
