---------------------------- MODULE Registration ----------------------------
(***************************************************************************)
(* The executable and the backend together: a host registers, visitors ask *)
(* the backend for it, the backend has them whitelisted and redirects them *)
(* to the host, while connections drop and are made anew.                  *)
(***************************************************************************)
EXTENDS HostConnection, Backend

CONSTANT MaxBreaks  \* how many connections the network drops in a run

ASSUME MaxBreaksAssumption == MaxBreaks \in Nat

vars == <<connection, hostVars, backendVars>>

Init ==
    /\ connection = [k \in Connection |-> Unused]
    /\ HostInit
    /\ BackendInit

BreakConnection(k) ==
    /\ Cardinality({j \in Connection : connection[j].broken}) < MaxBreaks
    /\ Break(k)
    /\ UNCHANGED <<hostVars, backendVars>>

\* The visitor follows the redirection while the host still listens there: the
\* listener accepts whoever is whitelisted and closes other connections.
VisitHost(w) ==
    /\ web[w].pc = "redirected"
    /\ host.k = web[w].k
    /\ host.pc \in {"receive", "body", "whitelist", "reply", "spin"}
    /\ SetWeb(w, IF w \in whitelist THEN "served" ELSE "rejected")
    /\ UNCHANGED <<connection, hostVars, hostIdentities, registered, acceptor>>

Next ==
    \/ \E k \in Connection :
          \/ HostStep(k) /\ UNCHANGED backendVars
          \/ AcceptorStep(k) /\ UNCHANGED hostVars
          \/ BreakConnection(k)
    \/ \E w \in WebRequest :
          \/ (FindHost(w) \/ WebStep(w)) /\ UNCHANGED hostVars
          \/ VisitHost(w)

Spec == Init /\ [][Next]_vars

\* Each thread goes on when it can.  Nobody has to visit, nothing has to break.
FairSpec ==
    /\ Spec
    /\ WF_vars(\E k \in Connection : HostStep(k) /\ UNCHANGED backendVars)
    /\ \A k \in Connection : WF_vars(AcceptorStep(k) /\ UNCHANGED hostVars)
    /\ \A w \in WebRequest : WF_vars(WebStep(w) /\ UNCHANGED hostVars)

-----------------------------------------------------------------------------
(* Properties *)

\* Every variable has a value of its type.
TypeOK == ConnectionTypeOK /\ HostTypeOK /\ BackendTypeOK

\* The dictionary never holds a socket that was disposed, although any request may
\* drop any entry: Dispose and Remove are one step under its lock.
RegisteredIsOpen == hostIdentities # None => ~Disposed(hostIdentities)

\* A host that was told its registration succeeded stays registered as long as the
\* backend keeps its connection, unless an older registration overtook its own.
HostIsRegistered ==
    host.pc \in {"receive", "body", "whitelist", "reply"} /\ ~Disposed(host.k) =>
        \/ hostIdentities = host.k
        \/ registered[Len(registered)] # host.k

\* Requests that use one connection may take each other's answers, but none is
\* redirected without a visitor having been whitelisted for it.
RedirectsAreAcknowledged ==
    \A k \in Connection :
        Cardinality({w \in WebRequest :
            web[w].k = k /\ web[w].pc \in {"redirect", "redirected", "served", "rejected"}})
        <= Cardinality(acknowledged[k])

\* A visitor whose request shared the host's connection with no other is not turned
\* away by the host it was redirected to.
LoneVisitorIsServed ==
    \A w \in WebRequest : web[w].alone => web[w].pc # "rejected"

\* A request that reaches a host waiting for it, and that shares the connection with
\* no other, is answered or fails; without these premises it may wait for ever.
LoneRequestEnds ==
    \A w \in WebRequest :
        LET waits == web[w].pc = "receive" /\ web[w].alone
            reaches == /\ waits
                       /\ host.pc = "receive" /\ host.k = web[w].k
                       /\ connection[host.k].toHost = <<Header(w), Body(w)>>
        IN  reaches ~> ~waits

\* A host whose connection dropped gets to connecting again, unless it was receiving
\* the body of a POST.
DropIsNoticed ==
    \A k \in Connection :
        host.k = k /\ connection[k].broken ~> host.k # k \/ host.pc = "spin"

=============================================================================
