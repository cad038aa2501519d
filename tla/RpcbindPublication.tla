------------------------- MODULE RpcbindPublication -------------------------
(***************************************************************************)
(* onc-rpc-bind: server transports that register their programs with an    *)
(* rpcbind service around accept_once or serve, or on request, and clients *)
(* that look addresses up.  Calls that borrow one transport may overlap.   *)
(* The service is external: a map from (program, netid) to a universal     *)
(* address, which answers a SET of a taken key with FALSE whether it       *)
(* replaces the entry or not.  A call may fail before or after the service *)
(* acted on it, and a request whose call failed may be acted on later.     *)
(***************************************************************************)
EXTENDS Naturals, Sequences

CONSTANTS
    Servers,        \* server transports
    Programs,       \* Programs[s]: what registered_programs() of s lists
    Addr,           \* Addr[s]: local address [family, host, port] of s
    Deployments,    \* what each server may be: records of its kind and its config
    Calls,          \* calls that applications make, each once
    On              \* On[c]: the transport of call c

TransportKinds == {"tcp", "udp"} \X {"sync", "async"}
Settings == {"on", "off", "no rpcbind", "unspecified"}

ASSUME PublicationAssumption ==
    /\ On \in [Calls -> Servers]
    /\ Deployments \subseteq [kind : [Servers -> TransportKinds], config : [Servers -> Settings]]
    /\ \A s \in Servers : Len(Programs[s]) \in Nat /\ DOMAIN Programs[s] = 1..Len(Programs[s])

ASSUME AddressAssumption ==
    \A s \in Servers : Addr[s].port \in Nat /\ Addr[s].family \in {4, 6}

\* Two sockets of one protocol are not bound to the same host and port.
ASSUME BoundApart ==
    \A d \in Deployments : \A s, t \in Servers :
        /\ d.kind[s][1] = d.kind[t][1] /\ Addr[s].family = Addr[t].family
        /\ Addr[s].host = Addr[t].host /\ Addr[s].port = Addr[t].port
        => s = t

VARIABLES
    kind,       \* which transport each server is
    config,     \* its ServerConfig: auto_publish, rpcbind_addr, the address bound
    replaces,   \* the service replaces a taken entry
    registry,   \* the service's entries: a function on the keys registered
    late,       \* requests of failed calls that the service has yet to act on
    call,       \* which method each call is of
    phase,      \* how far it has got: "new", "publish", "serve", "unpublish" or "done"
    next,       \* 0: to connect to rpcbind, i: to send the request for program i
    outcome,    \* what accept_once or serve returned, or would
    result,     \* what the call returned
    published,  \* history: <<key, address>> that a server has asked to register
    last        \* history: the last request of a server that was acted on, by key

settings == <<kind, config, replaces>>
service == <<registry, late, last>>
callVars == <<call, phase, next, outcome, result>>
vars == <<settings, service, callVars, published>>

-----------------------------------------------------------------------------
(* Addresses and keys *)

\* tcp_netid and udp_netid
TcpNetid(family) == IF family = 4 THEN "tcp" ELSE "tcp6"
UdpNetid(family) == IF family = 4 THEN "udp" ELSE "udp6"

\* Mutant: the two bytes of the port change places.
UniversalAddr_swapped(a) == [host |-> a.host, high |-> a.port % 256, low |-> a.port \div 256]

\* universal_addr: the host, then the bytes of the port, high one first.
UniversalAddr(a) == [host |-> a.host, high |-> a.port \div 256, low |-> a.port % 256]

\* parse_universal_addr
ParseUniversalAddr(u) == [host |-> u.host, port |-> 256 * u.high + u.low]

\* The netid and address of Rpcb::for_tcp and for_udp
Netid(s) == IF kind[s][1] = "tcp" THEN TcpNetid(Addr[s].family) ELSE UdpNetid(Addr[s].family)
Key(s, i) == <<Programs[s][i], Netid(s)>>
Keys(s) == {Key(s, i) : i \in DOMAIN Programs[s]}

\* The request for the program call c is at.  The service sees op, key and addr; from
\* is the call that sent it.
Request(c, op) ==
    [op |-> op, key |-> Key(On[c], next[c]), addr |-> UniversalAddr(Addr[On[c]]), from |-> c]

-----------------------------------------------------------------------------
(* The rpcbind service *)

\* The function f with v at k.
Put(f, k, v) == [j \in DOMAIN f \cup {k} |-> IF j = k THEN v ELSE f[j]]

\* SET and UNSET; neither looks at the owner.
Apply(r) ==
    IF r.op = "set"
    THEN IF r.key \in DOMAIN registry /\ ~replaces THEN registry ELSE Put(registry, r.key, r.addr)
    ELSE [k \in DOMAIN registry \ {r.key} |-> registry[k]]

\* The service acts on r.
Act(r) ==
    /\ registry' = Apply(r)
    /\ last' = [last EXCEPT ![On[r.from]] = Put(@, r.key, [op |-> r.op, from |-> r.from])]

\* The service acts on a request whose call has failed already.
ActLate(r) ==
    /\ r \in late
    /\ Act(r)
    /\ late' = late \ {r}
    /\ UNCHANGED <<settings, callVars, published>>

\* What may become of a request that got no answer.
Unanswered(r) ==
    \/ UNCHANGED service
    \/ Act(r) /\ UNCHANGED late
    \/ late' = late \cup {r} /\ UNCHANGED <<registry, last>>

-----------------------------------------------------------------------------
(* The server transports *)

Init ==
    /\ \E d \in Deployments : kind = d.kind /\ config = d.config
    /\ replaces \in BOOLEAN
    /\ registry = << >> /\ late = {} /\ last = [s \in Servers |-> << >>]
    /\ call = [c \in Calls |-> "none"] /\ phase = [c \in Calls |-> "new"]
    /\ next = [c \in Calls |-> 0]
    /\ outcome = [c \in Calls |-> "none"] /\ result = [c \in Calls |-> "none"]
    /\ published = {}

\* The methods borrow the transport and may overlap, except that serve_with_rpcbind
\* takes it: no call is then in progress, and none follows.
Borrowed(c, m) ==
    \A d \in Calls \ {c} : On[d] = On[c] /\ phase[d] # "new" =>
        call[d] # "serve" /\ (m = "serve" => phase[d] = "done")

\* The call c of method m begins in phase p, or returns r at once.
Begin(c, m, p) ==
    /\ phase[c] = "new" /\ Borrowed(c, m)
    /\ call' = [call EXCEPT ![c] = m]
    /\ phase' = [phase EXCEPT ![c] = p]
    /\ UNCHANGED <<settings, service, next, outcome, result, published>>

Refuse(c, m, r) ==
    /\ phase[c] = "new" /\ Borrowed(c, m)
    /\ call' = [call EXCEPT ![c] = m]
    /\ phase' = [phase EXCEPT ![c] = "done"]
    /\ result' = [result EXCEPT ![c] = r]
    /\ UNCHANGED <<settings, service, next, outcome, published>>

\* publication_info: no publication without auto_publish, and an error without an
\* rpcbind address or with an address that names no host.
ServeWithRpcbind(c) ==
    \E m \in {"accept_once", "serve"} :
        \/ config[On[c]] = "on" /\ Begin(c, m, "publish")
        \/ config[On[c]] = "off" /\ Begin(c, m, "serve")
        \/ config[On[c]] = "no rpcbind" /\ Refuse(c, m, "MissingRpcbindAddress")
        \/ config[On[c]] = "unspecified" /\ Refuse(c, m, "UnspecifiedServiceAddress")

\* publish_rpcbind, unpublish_rpcbind and maybe_publish_rpcbind, with the address of
\* the service as an argument.
PublishRpcbind(c) ==
    \E m \in {"publish", "maybe_publish", "unpublish"} :
        CASE m = "maybe_publish" /\ config[On[c]] = "off" -> Refuse(c, m, "false")
          [] config[On[c]] = "unspecified" -> Refuse(c, m, "UnspecifiedServiceAddress")
          [] OTHER -> Begin(c, m, IF m = "unpublish" THEN "unpublish" ELSE "publish")

IsTcpAsync(c) == kind[On[c]] = <<"tcp", "async">>
IsTcpSync(c) == kind[On[c]] = <<"tcp", "sync">>
IsUdpAsync(c) == kind[On[c]] = <<"udp", "async">>
IsUdpSync(c) == kind[On[c]] = <<"udp", "sync">>

TcpAsyncServe(c) == IsTcpAsync(c) /\ ServeWithRpcbind(c)
TcpSyncServe(c) == IsTcpSync(c) /\ ServeWithRpcbind(c)
UdpAsyncServe(c) == IsUdpAsync(c) /\ ServeWithRpcbind(c)
UdpSyncServe(c) == IsUdpSync(c) /\ ServeWithRpcbind(c)

TcpAsyncPublish(c) == IsTcpAsync(c) /\ PublishRpcbind(c)
TcpSyncPublish(c) == IsTcpSync(c) /\ PublishRpcbind(c)
UdpAsyncPublish(c) == IsUdpAsync(c) /\ PublishRpcbind(c)
UdpSyncPublish(c) == IsUdpSync(c) /\ PublishRpcbind(c)

Forget(c) == next' = [next EXCEPT ![c] = 0] /\ outcome' = [outcome EXCEPT ![c] = "none"]

\* The call returns; what accept_once or serve returned goes before what unpublishing
\* returned.
Return(c, r) ==
    /\ phase' = [phase EXCEPT ![c] = "done"]
    /\ result' = [result EXCEPT ![c] = IF outcome[c] = "error" THEN "ServerTransport" ELSE r]
    /\ Forget(c)
    /\ UNCHANGED <<settings, call>>

\* Mutant: the loop ends one program early.
LastProgram_short(c) == next[c] + 1 >= Len(Programs[On[c]])

LastProgram(c) == next[c] >= Len(Programs[On[c]])

\* Every program is done: serve after publishing, and return otherwise.
LoopEnds(c) ==
    IF phase[c] = "publish" /\ call[c] \in {"accept_once", "serve"}
    THEN /\ phase' = [phase EXCEPT ![c] = "serve"]
         /\ UNCHANGED <<settings, call, next, outcome, result>>
    ELSE Return(c, "ok")

Advance(c) ==
    IF LastProgram(c)
    THEN LoopEnds(c)
    ELSE /\ next' = [next EXCEPT ![c] = @ + 1]
         /\ UNCHANGED <<settings, call, phase, outcome, result>>

\* The request that the loop of c sends, and the history of what was asked for.
LoopRequest(c) == Request(c, IF phase[c] = "publish" THEN "set" ELSE "unset")

Asked(r) ==
    published' = IF r.op = "set" THEN published \cup {<<r.key, Addr[On[r.from]]>>} ELSE published

\* One step of the publish or unpublish loop: the client connects, then sends a request
\* for each program, ignoring whether the service says TRUE or FALSE, until one fails.
ProgramsStep(c) ==
    /\ phase[c] \in {"publish", "unpublish"}
    /\ \/ next[c] = 0 /\ Advance(c) /\ UNCHANGED <<service, published>>
       \/ next[c] = 0 /\ Return(c, "Runtime") /\ UNCHANGED <<service, published>>
       \/ /\ next[c] > 0
          /\ Asked(LoopRequest(c))
          /\ \/ Act(LoopRequest(c)) /\ UNCHANGED late /\ Advance(c)
             \/ Unanswered(LoopRequest(c)) /\ Return(c, "Runtime")

TcpAsyncPrograms(c) == IsTcpAsync(c) /\ ProgramsStep(c)
TcpSyncPrograms(c) == IsTcpSync(c) /\ ProgramsStep(c)
UdpAsyncPrograms(c) == IsUdpAsync(c) /\ ProgramsStep(c)
UdpSyncPrograms(c) == IsUdpSync(c) /\ ProgramsStep(c)

\* Mutant: an accept_once that ends well returns at once.
Served_returns(c) ==
    \E o \in {"ok", "error"} :
        /\ phase[c] = "serve"
        /\ o = "ok" => call[c] = "accept_once"
        /\ IF config[On[c]] = "on" /\ o = "error"
           THEN /\ phase' = [phase EXCEPT ![c] = "unpublish"]
                /\ outcome' = [outcome EXCEPT ![c] = o]
                /\ next' = [next EXCEPT ![c] = 0]
                /\ UNCHANGED <<settings, call, result>>
           ELSE Return(c, IF o = "ok" THEN "ok" ELSE "ServerTransport")
        /\ UNCHANGED <<service, published>>

\* accept_once or serve returns; a publication is withdrawn whatever it returned.
Served(c) ==
    \E o \in {"ok", "error"} :
        /\ phase[c] = "serve"
        /\ o = "ok" => call[c] = "accept_once"
        /\ IF config[On[c]] = "on"
           THEN /\ phase' = [phase EXCEPT ![c] = "unpublish"]
                /\ outcome' = [outcome EXCEPT ![c] = o]
                /\ next' = [next EXCEPT ![c] = 0]
                /\ UNCHANGED <<settings, call, result>>
           ELSE Return(c, IF o = "ok" THEN "ok" ELSE "ServerTransport")
        /\ UNCHANGED <<service, published>>

\* The future is dropped, or its process ends, with a request perhaps on its way.
Interrupt(c) ==
    /\ phase[c] \notin {"new", "done"}
    /\ phase' = [phase EXCEPT ![c] = "done"]
    /\ result' = [result EXCEPT ![c] = "dropped"]
    /\ IF phase[c] # "serve" /\ next[c] > 0
       THEN Unanswered(LoopRequest(c)) /\ Asked(LoopRequest(c))
       ELSE UNCHANGED <<service, published>>
    /\ Forget(c)
    /\ UNCHANGED <<settings, call>>

-----------------------------------------------------------------------------
(* Lookups *)

\* The netid a client of an rpcbind service of this family asks for.
LookupNetid(transport, family) ==
    IF transport = "udp" THEN UdpNetid(family) ELSE TcpNetid(family)

\* lookup_addr: the service answers an empty string for a key it does not have, and
\* the lookup NotFound.
LookupAddr(program, netid) ==
    IF <<program, netid>> \in DOMAIN registry
    THEN {ParseUniversalAddr(registry[<<program, netid>>])}
    ELSE {}

\* resolve_client_config and its variants: the remote address of the configuration.
ResolveClientConfig(transport, family, program) ==
    LookupAddr(program, LookupNetid(transport, family))

\* lookup_port and its variants
LookupPort(transport, family, program) ==
    {a.port : a \in LookupAddr(program, LookupNetid(transport, family))}

-----------------------------------------------------------------------------

CallStep(c) ==
    \/ TcpAsyncServe(c) \/ TcpSyncServe(c) \/ UdpAsyncServe(c) \/ UdpSyncServe(c)
    \/ TcpAsyncPublish(c) \/ TcpSyncPublish(c) \/ UdpAsyncPublish(c) \/ UdpSyncPublish(c)
    \/ TcpAsyncPrograms(c) \/ TcpSyncPrograms(c) \/ UdpAsyncPrograms(c) \/ UdpSyncPrograms(c)
    \/ Served(c) \/ Interrupt(c)

Next ==
    \/ \E c \in Calls : CallStep(c)
    \/ \E r \in late : ActLate(r)

Spec == Init /\ [][Next]_vars

-----------------------------------------------------------------------------
(* Properties *)

\* The keys that no other server uses.
OwnKeys(s) == {k \in Keys(s) : \A t \in Servers \ {s} : k \notin Keys(t)}

\* The server's last request for k was this operation of another call.
OtherCall(c, k, op) ==
    LET done == last[On[c]] IN k \in DOMAIN done /\ done[k].op = op /\ done[k].from # c

\* While a call accepts with auto_publish, every key that is its server's own is
\* registered at its address.  Only another call on the same transport can take it
\* away: one that overlaps this one and withdraws first, or an earlier one whose UNSET
\* is acted on late.
PublishedWhileServing ==
    \A c \in Calls :
        phase[c] = "serve" /\ config[On[c]] = "on" =>
            \A k \in OwnKeys(On[c]) :
                \/ k \in DOMAIN registry /\ registry[k] = UniversalAddr(Addr[On[c]])
                \/ OtherCall(c, k, "unset")

\* An accept_once that returns Ok, and an unpublish that does, leave no entry with the
\* server's address behind, whatever failed before and whoever shares the key.  Only
\* the SET of another call on the same transport can put it back.
CleanReturn ==
    \A c \in Calls :
        /\ phase[c] = "done" /\ result[c] = "ok"
        /\ call[c] = "unpublish" \/ (call[c] = "accept_once" /\ config[On[c]] = "on")
        =>  \A k \in Keys(On[c]) \cap DOMAIN registry :
                registry[k] = UniversalAddr(Addr[On[c]]) => OtherCall(c, k, "set")

\* What the lookups of a program may find: what a server published under its key.
FindsPublished(transport, family, program) ==
    LET known == {p \in published : p[1] = <<program, LookupNetid(transport, family)>>}
    IN  /\ ResolveClientConfig(transport, family, program)
              \subseteq {[host |-> p[2].host, port |-> p[2].port] : p \in known}
        /\ LookupPort(transport, family, program) \subseteq {p[2].port : p \in known}

\* A lookup that finds something, at any time, finds the host and the port that some
\* server published for that program and that netid.
LookupAgrees ==
    \A transport \in {"tcp", "udp"}, family \in {4, 6}, s \in Servers :
    \A i \in DOMAIN Programs[s] : FindsPublished(transport, family, Programs[s][i])

=============================================================================
