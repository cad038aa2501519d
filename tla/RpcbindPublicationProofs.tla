---------------------- MODULE RpcbindPublicationProofs ----------------------
(***************************************************************************)
(* Proofs that a server's keys are published while a call serves and       *)
(* withdrawn when it returns, as far as other calls on the transport let   *)
(* them, and that lookups find published addresses.                        *)
(***************************************************************************)
EXTENDS RpcbindPublication, TLAPS

CallNames == {"none", "accept_once", "serve", "publish", "maybe_publish", "unpublish"}
Results == {"none", "ok", "false", "dropped", "Runtime", "ServerTransport",
            "MissingRpcbindAddress", "UnspecifiedServiceAddress"}

\* The type invariant.
TypeOK ==
    /\ \E d \in Deployments : kind = d.kind /\ config = d.config
    /\ replaces \in BOOLEAN
    /\ call \in [Calls -> CallNames]
    /\ phase \in [Calls -> {"new", "publish", "serve", "unpublish", "done"}]
    /\ next \in [Calls -> Nat]
    /\ outcome \in [Calls -> {"none", "ok", "error"}]
    /\ result \in [Calls -> Results]

\* Which method is in which phase, and that a loop starts at its first program.
ControlInv ==
    \A c \in Calls :
        /\ next[c] <= Len(Programs[On[c]])
        /\ phase[c] \in {"new", "done"} => next[c] = 0
        /\ phase[c] = "publish" => call[c] \in {"accept_once", "serve", "publish", "maybe_publish"}
        /\ phase[c] = "serve" => call[c] \in {"accept_once", "serve"}

\* A request that a call sends.
IsRequest(r) ==
    /\ r.from \in Calls /\ r.op \in {"set", "unset"}
    /\ r.key \in Keys(On[r.from]) /\ r.addr = UniversalAddr(Addr[On[r.from]])

\* Every entry, and every SET that is still to be acted on, is one a server asked for.
ServiceInv ==
    /\ DOMAIN last = Servers
    /\ \A k \in DOMAIN registry : \E t \in Servers :
          k \in Keys(t) /\ <<k, Addr[t]>> \in published /\ registry[k] = UniversalAddr(Addr[t])
    /\ \A r \in late : IsRequest(r) /\ (r.op = "set" => <<r.key, Addr[On[r.from]]>> \in published)

\* The call of a request that is still to be acted on is over, and failed.
LateInv == \A r \in late : phase[r.from] = "done" /\ result[r.from] # "ok"

Registered(c, k) ==
    \/ k \in DOMAIN registry /\ registry[k] = UniversalAddr(Addr[On[c]])
    \/ OtherCall(c, k, "unset")

Cleared(c, k) ==
    k \in DOMAIN registry /\ registry[k] = UniversalAddr(Addr[On[c]]) => OtherCall(c, k, "set")

\* What a call has achieved: in a loop up to the program it is at, while it serves and
\* once it has returned for all of them.
Publishing(c) == phase[c] = "publish" =>
    \A i \in 1..next[c] - 1 : Key(On[c], i) \in OwnKeys(On[c]) => Registered(c, Key(On[c], i))
Serving(c) == phase[c] = "serve" /\ config[On[c]] = "on" => \A k \in OwnKeys(On[c]) : Registered(c, k)
Withdrawing(c) == phase[c] = "unpublish" => \A i \in 1..next[c] - 1 : Cleared(c, Key(On[c], i))
Withdrawn(c) ==
    /\ phase[c] = "done" /\ result[c] = "ok"
    /\ call[c] = "unpublish" \/ (call[c] = "accept_once" /\ config[On[c]] = "on")
    => \A k \in Keys(On[c]) : Cleared(c, k)

Achieved(c) == Publishing(c) /\ Serving(c) /\ Withdrawing(c) /\ Withdrawn(c)

Inv == TypeOK /\ ControlInv /\ ServiceInv /\ LateInv /\ \A c \in Calls : Achieved(c)

-----------------------------------------------------------------------------
(* Addresses and keys *)

\* parse_universal_addr undoes universal_addr.
LEMMA ParseInverts ==
    ASSUME NEW a, a.port \in Nat
    PROVE  ParseUniversalAddr(UniversalAddr(a)) = [host |-> a.host, port |-> a.port]
  <1>1. \A n \in Nat : 256 * (n \div 256) + (n % 256) = n
    BY SMT
  <1> QED BY <1>1, SMT DEF ParseUniversalAddr, UniversalAddr

\* A port is a number.
LEMMA PortNat == \A s \in Servers : Addr[s].port \in Nat
  BY AddressAssumption, Zenon

\* A deployment gives every server a kind of transport and a setting.
LEMMA KindType == ASSUME TypeOK PROVE kind \in [Servers -> TransportKinds] /\ config \in [Servers -> Settings]
  BY PublicationAssumption DEF TypeOK

\* Two servers that share a key have different universal addresses.
LEMMA SharedKeyApart ==
    ASSUME TypeOK, NEW s \in Servers, NEW t \in Servers, s # t, NEW k, k \in Keys(s), k \in Keys(t)
    PROVE  UniversalAddr(Addr[s]) # UniversalAddr(Addr[t])
  <1>1. Netid(s) = Netid(t)
    BY DEF Keys, Key
  <1>2. /\ kind[s][1] \in {"tcp", "udp"} /\ kind[t][1] \in {"tcp", "udp"}
        /\ Addr[s].family \in {4, 6} /\ Addr[t].family \in {4, 6}
        /\ Addr[s].port \in Nat /\ Addr[t].port \in Nat
    BY KindType, AddressAssumption DEF TransportKinds
  <1>3. kind[s][1] = kind[t][1] /\ Addr[s].family = Addr[t].family
    BY <1>1, <1>2 DEF Netid, TcpNetid, UdpNetid
  <1>4. Addr[s].host # Addr[t].host \/ Addr[s].port # Addr[t].port
    BY <1>3, BoundApart DEF TypeOK
  <1>5. CASE UniversalAddr(Addr[s]) = UniversalAddr(Addr[t])
    <2>1. ParseUniversalAddr(UniversalAddr(Addr[s])) = ParseUniversalAddr(UniversalAddr(Addr[t]))
      BY <1>5
    <2>2. [host |-> Addr[s].host, port |-> Addr[s].port] = [host |-> Addr[t].host, port |-> Addr[t].port]
      BY <2>1, <1>2, ParseInverts
    <2> QED BY <2>2, <1>4
  <1> QED BY <1>5

\* The keys depend on the settings alone.
LEMMA KeysKept ==
    ASSUME UNCHANGED kind
    PROVE  /\ \A s : Keys(s)' = Keys(s) /\ OwnKeys(s)' = OwnKeys(s)
           /\ \A s, i : Key(s, i)' = Key(s, i)
  BY DEF OwnKeys, Keys, Key, Netid

\* The loops of publish and unpublish go over the server's keys.
LEMMA KeyOfServer == ASSUME NEW s \in Servers, NEW i \in 1..Len(Programs[s]) PROVE Key(s, i) \in Keys(s)
  BY PublicationAssumption DEF Keys

\* Every call is on a server.
LEMMA OnServer == ASSUME NEW c \in Calls PROVE On[c] \in Servers /\ Len(Programs[On[c]]) \in Nat
  BY PublicationAssumption

\* Nothing is published before the first call.
LEMMA InitInv == Init => Inv
  <1> SUFFICES ASSUME Init PROVE Inv
    OBVIOUS
  <1>1. TypeOK
    BY DEF Init, TypeOK, CallNames, Results
  <1>2. ControlInv
    <2> SUFFICES ASSUME NEW c \in Calls
                 PROVE  next[c] <= Len(Programs[On[c]]) /\ phase[c] = "new" /\ next[c] = 0
      BY Zenon DEF ControlInv
    <2> QED BY OnServer DEF Init
  <1>3. ServiceInv /\ LateInv
    BY DEF Init, ServiceInv, LateInv
  <1>4. ASSUME NEW c \in Calls PROVE Achieved(c)
    BY <1>4 DEF Init, Achieved, Publishing, Serving, Withdrawing, Withdrawn
  <1> QED BY <1>1, <1>2, <1>3, <1>4 DEF Inv

-----------------------------------------------------------------------------
(* What the service does to the entries *)

\* What an update with Put does.
LEMMA PutFacts ==
    ASSUME NEW f, NEW k, NEW v
    PROVE  /\ k \in DOMAIN Put(f, k, v) /\ Put(f, k, v)[k] = v
           /\ \A j : j # k => /\ j \in DOMAIN Put(f, k, v) <=> j \in DOMAIN f
                              /\ j \in DOMAIN f => Put(f, k, v)[j] = f[j]
  BY DEF Put

\* What the service remembers of the requests of a server.
LEMMA ActLast ==
    ASSUME ServiceInv, NEW r, IsRequest(r), Act(r)
    PROVE  /\ DOMAIN last' = Servers
           /\ \A s \in Servers : s # On[r.from] => last'[s] = last[s]
           /\ last'[On[r.from]] = Put(last[On[r.from]], r.key, [op |-> r.op, from |-> r.from])
  BY OnServer DEF ServiceInv, IsRequest, Act

\* An operation on r.key leaves what is known of every other key.
LEMMA OtherKey ==
    ASSUME ServiceInv, NEW r, IsRequest(r), Act(r), NEW k, k # r.key
    PROVE  /\ k \in DOMAIN registry' <=> k \in DOMAIN registry
           /\ k \in DOMAIN registry => registry'[k] = registry[k]
           /\ \A c \in Calls : \A op : OtherCall(c, k, op)' <=> OtherCall(c, k, op)
  <1>1. /\ k \in DOMAIN registry' <=> k \in DOMAIN registry
        /\ k \in DOMAIN registry => registry'[k] = registry[k]
    BY DEF Act, Apply, Put
  <1>2. ASSUME NEW c \in Calls, NEW op PROVE OtherCall(c, k, op)' <=> OtherCall(c, k, op)
    <2>1. CASE On[c] # On[r.from]
      BY <2>1, ActLast, OnServer, Zenon DEF OtherCall
    <2>2. CASE On[c] = On[r.from]
      <3> DEFINE v == [op |-> r.op, from |-> r.from]
      <3>1. last'[On[c]] = Put(last[On[c]], r.key, v)
        BY <2>2, ActLast
      <3>2. /\ k \in DOMAIN last'[On[c]] <=> k \in DOMAIN last[On[c]]
            /\ k \in DOMAIN last[On[c]] => last'[On[c]][k] = last[On[c]][k]
        BY <3>1, PutFacts
      <3> QED BY <3>2 DEF OtherCall
    <2> QED BY <2>1, <2>2
  <1> QED BY <1>1, <1>2

\* A request of another call on the same transport is remembered.
LEMMA Remembered ==
    ASSUME ServiceInv, NEW r, IsRequest(r), Act(r), NEW c \in Calls, r.from # c, On[r.from] = On[c]
    PROVE  OtherCall(c, r.key, r.op)'
  <1> DEFINE v == [op |-> r.op, from |-> r.from]
  <1>1. last'[On[c]] = Put(last[On[c]], r.key, v)
    BY ActLast
  <1>2. r.key \in DOMAIN last'[On[c]] /\ last'[On[c]][r.key] = v
    BY <1>1, PutFacts
  <1> QED BY <1>2 DEF OtherCall

\* A SET of a key that is the server's own leaves its address registered, whether the
\* service replaces entries or not.
LEMMA OwnKeySet ==
    ASSUME ServiceInv, NEW r, IsRequest(r), Act(r), r.op = "set", r.key \in OwnKeys(On[r.from])
    PROVE  r.key \in DOMAIN registry' /\ registry'[r.key] = UniversalAddr(Addr[On[r.from]])
  <1>1. r.key \in DOMAIN registry => registry[r.key] = UniversalAddr(Addr[On[r.from]])
    BY Zenon DEF ServiceInv, OwnKeys
  <1> QED BY <1>1 DEF Act, Apply, Put, IsRequest

\* An UNSET clears its key, whoever registered it.
LEMMA KeyUnset == ASSUME NEW r, Act(r), r.op = "unset" PROVE r.key \notin DOMAIN registry'
  BY DEF Act, Apply

\* A request of another server never registers its key at the address of s.
LEMMA OtherServersSet ==
    ASSUME TypeOK, NEW r, IsRequest(r), Act(r), NEW s \in Servers, On[r.from] # s, r.key \in Keys(s),
           r.key \in DOMAIN registry', registry'[r.key] = UniversalAddr(Addr[s])
    PROVE  r.key \in DOMAIN registry /\ registry[r.key] = UniversalAddr(Addr[s])
  <1>1. r.addr # UniversalAddr(Addr[s])
    BY SharedKeyApart, OnServer DEF IsRequest
  <1> QED BY <1>1 DEF Act, Apply, Put

\* A request of another call takes a key of c's own away, or puts its address back, only
\* when it is of the same transport, and is then remembered.
LEMMA OthersRequest ==
    ASSUME TypeOK, ServiceInv, NEW c \in Calls, NEW r, IsRequest(r), r.from # c, Act(r), NEW k \in Keys(On[c])
    PROVE  /\ k \in OwnKeys(On[c]) /\ Registered(c, k) => Registered(c, k)'
           /\ Cleared(c, k) => Cleared(c, k)'
  <1>1. CASE r.key # k
    BY <1>1, OtherKey DEF Registered, Cleared
  <1>2. CASE r.key = k /\ On[r.from] = On[c] /\ r.op = "set"
    <2>1. OtherCall(c, k, "set")'
      BY <1>2, Remembered
    <2>2. k \in OwnKeys(On[c]) => k \in DOMAIN registry' /\ registry'[k] = UniversalAddr(Addr[On[c]])
      BY <1>2, OwnKeySet
    <2> QED BY <2>1, <2>2 DEF Registered, Cleared
  <1>3. CASE r.key = k /\ On[r.from] = On[c] /\ r.op = "unset"
    <2>1. OtherCall(c, k, "unset")'
      BY <1>3, Remembered
    <2>2. k \notin DOMAIN registry'
      BY <1>3, KeyUnset
    <2> QED BY <2>1, <2>2 DEF Registered, Cleared
  <1>4. CASE r.key = k /\ On[r.from] # On[c]
    <2>1. k \notin OwnKeys(On[c])
      BY <1>4, OnServer DEF OwnKeys, IsRequest
    <2>2. last'[On[c]] = last[On[c]]
      BY <1>4, ActLast, OnServer, Zenon
    <2>3. \A op : OtherCall(c, k, op)' <=> OtherCall(c, k, op)
      BY <2>2 DEF OtherCall
    <2>4. k \in DOMAIN registry' /\ registry'[k] = UniversalAddr(Addr[On[c]])
             => k \in DOMAIN registry /\ registry[k] = UniversalAddr(Addr[On[c]])
      BY <1>4, OtherServersSet, OnServer
    <2> QED BY <2>1, <2>3, <2>4 DEF Cleared
  <1> QED BY <1>1, <1>2, <1>3, <1>4 DEF IsRequest

\* What a step may not undo for c.
Keeps(c) ==
    \A k \in Keys(On[c]) :
        /\ k \in OwnKeys(On[c]) /\ Registered(c, k) => Registered(c, k)'
        /\ Cleared(c, k) => Cleared(c, k)'

\* A step on which the service does nothing keeps what c has.
LEMMA KeepsSame == ASSUME NEW c \in Calls, registry' = registry, last' = last PROVE Keeps(c)
  BY DEF Keeps, Registered, Cleared, OtherCall

\* What a call has achieved survives a step that does not move it.
LEMMA AchievedKept ==
    ASSUME Inv, NEW c \in Calls, UNCHANGED settings, Keeps(c),
           phase'[c] = phase[c], next'[c] = next[c], call'[c] = call[c], result'[c] = result[c]
    PROVE  Achieved(c)'
  <1>1. next[c] \in Nat /\ next[c] <= Len(Programs[On[c]]) /\ Len(Programs[On[c]]) \in Nat
    BY PublicationAssumption DEF Inv, TypeOK, ControlInv
  <1>2. \A i \in 1..next[c] - 1 : Key(On[c], i) \in Keys(On[c])
    BY <1>1, KeyOfServer, OnServer
  <1>3. /\ Keys(On[c])' = Keys(On[c]) /\ OwnKeys(On[c])' = OwnKeys(On[c]) /\ config' = config
        /\ \A i : Key(On[c], i)' = Key(On[c], i)
    BY KeysKept DEF settings
  <1>4. OwnKeys(On[c]) \subseteq Keys(On[c])
    BY DEF OwnKeys
  <1>5. Achieved(c)
    BY DEF Inv
  <1>6. Publishing(c)'
    BY <1>2, <1>3, <1>5 DEF Achieved, Publishing, Keeps
  <1>7. Serving(c)'
    BY <1>3, <1>4, <1>5 DEF Achieved, Serving, Keeps
  <1>8. Withdrawing(c)'
    BY <1>2, <1>3, <1>5 DEF Achieved, Withdrawing, Keeps
  <1>9. Withdrawn(c)'
    BY <1>3, <1>5 DEF Achieved, Withdrawn, Keeps
  <1> QED BY <1>6, <1>7, <1>8, <1>9 DEF Achieved

\* The entries stay those that servers asked for, whatever becomes of a request.
LEMMA ServiceKept ==
    ASSUME ServiceInv, UNCHANGED kind, NEW r, IsRequest(r), published \subseteq published',
           r.op = "set" => <<r.key, Addr[On[r.from]]>> \in published',
           (registry' = registry /\ last' = last) \/ Act(r), late' \subseteq late \cup {r}
    PROVE  ServiceInv'
  <1>1. \A t : Keys(t)' = Keys(t)
    BY KeysKept
  <1>2. ASSUME NEW q \in late' PROVE IsRequest(q)' /\ (q.op = "set" => <<q.key, Addr[On[q.from]]>> \in published')
    BY <1>1, <1>2 DEF ServiceInv, IsRequest
  <1>3. ASSUME NEW k \in DOMAIN registry'
        PROVE  \E t \in Servers :
                  k \in Keys(t)' /\ <<k, Addr[t]>> \in published' /\ registry'[k] = UniversalAddr(Addr[t])
    <2>1. CASE k \in DOMAIN registry /\ registry'[k] = registry[k]
      BY <2>1, <1>1 DEF ServiceInv
    <2>2. CASE r.op = "set" /\ k = r.key /\ registry'[k] = r.addr
      BY <2>2, <1>1, OnServer DEF IsRequest
    <2> QED BY <1>3, <2>1, <2>2 DEF Act, Apply, Put
  <1>4. DOMAIN last' = Servers
    BY ActLast, Zenon DEF ServiceInv
  <1> QED BY <1>2, <1>3, <1>4 DEF ServiceInv

\* A step that sends nothing and acts on nothing keeps the origin of the entries.
LEMMA ServiceSame ==
    ASSUME ServiceInv, UNCHANGED <<kind, service, published>>
    PROVE  ServiceInv'
  <1>1. \A t : Keys(t)' = Keys(t)
    BY KeysKept
  <1> QED BY <1>1 DEF ServiceInv, IsRequest, service

\* The SET of c itself registers its key, and keeps the others registered.
LEMMA OwnSet ==
    ASSUME ServiceInv, NEW c \in Calls, NEW r, IsRequest(r), r.from = c, r.op = "set",
           Act(r), NEW k \in OwnKeys(On[c])
    PROVE  /\ r.key = k => Registered(c, k)'
           /\ Registered(c, k) => Registered(c, k)'
  <1>1. CASE r.key = k
    BY <1>1, OwnKeySet DEF Registered
  <1>2. CASE r.key # k
    BY <1>2, OtherKey DEF Registered
  <1> QED BY <1>1, <1>2

\* The UNSET of c itself clears its key, and keeps the others clear.
LEMMA OwnUnset ==
    ASSUME ServiceInv, NEW c \in Calls, NEW r, IsRequest(r), r.from = c, r.op = "unset", Act(r), NEW k
    PROVE  /\ r.key = k => Cleared(c, k)'
           /\ Cleared(c, k) => Cleared(c, k)'
  <1>1. CASE r.key = k
    BY <1>1, KeyUnset DEF Cleared
  <1>2. CASE r.key # k
    BY <1>2, OtherKey DEF Cleared
  <1> QED BY <1>1, <1>2

-----------------------------------------------------------------------------
(* The steps of a call *)

\* The settings never change.
LEMMA SettingsType == ASSUME TypeOK, UNCHANGED settings PROVE (\E d \in Deployments : kind = d.kind /\ config = d.config)'
  BY DEF TypeOK, settings

\* A call that returns ends its loop.
LEMMA ReturnControl ==
    ASSUME TypeOK, ControlInv, NEW c \in Calls, NEW r \in Results, Return(c, r)
    PROVE  TypeOK' /\ ControlInv'
  <1>1. TypeOK'
    BY SettingsType DEF TypeOK, Return, Forget, settings, CallNames, Results
  <1>2. ControlInv'
    <2> SUFFICES ASSUME NEW d \in Calls
                 PROVE  /\ next'[d] <= Len(Programs[On[d]])
                        /\ phase'[d] \in {"new", "done"} => next'[d] = 0
                        /\ phase'[d] = "publish" => call'[d] \in {"accept_once", "serve", "publish", "maybe_publish"}
                        /\ phase'[d] = "serve" => call'[d] \in {"accept_once", "serve"}
      BY Zenon DEF ControlInv
    <2>1. CASE d = c
      BY <2>1, PublicationAssumption DEF TypeOK, Return, Forget
    <2>2. CASE d # c
      BY <2>2 DEF TypeOK, ControlInv, Return, Forget
    <2> QED BY <2>1, <2>2
  <1> QED BY <1>1, <1>2

\* A call that returns with success has withdrawn the keys it had to withdraw.
LEMMA ReturnAchieved ==
    ASSUME TypeOK, NEW c \in Calls, NEW r, Return(c, r),
           r = "ok" /\ (call[c] = "unpublish" \/ (call[c] = "accept_once" /\ config[On[c]] = "on"))
                => \A k \in Keys(On[c]) : Cleared(c, k)'
    PROVE  Achieved(c)'
  <1>1. phase'[c] = "done"
    BY DEF Return, TypeOK
  <1>2. result'[c] = "ok" => r = "ok" /\ call'[c] = call[c]
    BY DEF Return, TypeOK
  <1>3. Keys(On[c])' = Keys(On[c]) /\ config' = config
    BY KeysKept DEF Return, settings
  <1>4. Withdrawn(c)'
    BY <1>1, <1>2, <1>3 DEF Withdrawn
  <1> QED BY <1>1, <1>4 DEF Achieved, Publishing, Serving, Withdrawing

\* A loop that has done the program it is at goes on, or its call does.
LEMMA AdvanceStep ==
    ASSUME Inv, NEW c \in Calls, phase[c] \in {"publish", "unpublish"}, Advance(c),
           phase[c] = "publish" =>
               \A i \in 1..next[c] : Key(On[c], i) \in OwnKeys(On[c]) => Registered(c, Key(On[c], i))',
           phase[c] = "unpublish" => \A i \in 1..next[c] : Cleared(c, Key(On[c], i))'
    PROVE  TypeOK' /\ ControlInv' /\ Achieved(c)' /\ UNCHANGED settings
  <1>0. TypeOK /\ ControlInv
    BY Zenon DEF Inv
  <1>1. /\ next[c] \in Nat /\ next[c] <= Len(Programs[On[c]]) /\ Len(Programs[On[c]]) \in Nat
        /\ DOMAIN Programs[On[c]] = 1..Len(Programs[On[c]])
    BY PublicationAssumption DEF Inv, TypeOK, ControlInv
  <1>2. UNCHANGED settings
    BY DEF Advance, LoopEnds, Return
  <1>3. /\ Keys(On[c])' = Keys(On[c]) /\ OwnKeys(On[c])' = OwnKeys(On[c]) /\ config' = config
        /\ \A i : Key(On[c], i)' = Key(On[c], i)
    BY <1>2, KeysKept DEF settings
  <1>4. CASE LastProgram(c) /\ phase[c] = "publish" /\ call[c] \in {"accept_once", "serve"}
    <2>1. phase' = [phase EXCEPT ![c] = "serve"] /\ UNCHANGED <<settings, call, next, outcome, result>>
      BY <1>4 DEF Advance, LoopEnds
    <2>2. TypeOK'
      BY <2>1, SettingsType DEF Inv, TypeOK, settings
    <2>3. ControlInv'
      BY <2>1, <1>4 DEF Inv, TypeOK, ControlInv
    <2>4. phase'[c] = "serve"
      BY <2>1 DEF Inv, TypeOK
    <2>5. \A k \in OwnKeys(On[c]) : \E i \in 1..next[c] : k = Key(On[c], i)
      BY <1>1, <1>4 DEF OwnKeys, Keys, LastProgram
    <2>6. Serving(c)'
      BY <2>5, <1>3, <1>4 DEF Serving
    <2> QED BY <1>2, <2>2, <2>3, <2>4, <2>6 DEF Achieved, Publishing, Withdrawing, Withdrawn
  <1>5. CASE LastProgram(c) /\ ~(phase[c] = "publish" /\ call[c] \in {"accept_once", "serve"})
    <2>1. Return(c, "ok")
      BY <1>5 DEF Advance, LoopEnds
    <2>2. \A k \in Keys(On[c]) : \E i \in 1..next[c] : k = Key(On[c], i)
      BY <1>1, <1>5 DEF Keys, LastProgram
    <2>3. phase[c] = "publish" => call[c] \notin {"unpublish", "accept_once"}
      BY <1>5 DEF Inv, ControlInv
    <2>4. call[c] = "unpublish" \/ call[c] = "accept_once" => \A k \in Keys(On[c]) : Cleared(c, k)'
      <3> SUFFICES ASSUME call[c] \in {"unpublish", "accept_once"}, NEW k \in Keys(On[c]) PROVE Cleared(c, k)'
        BY Zenon
      <3>1. PICK i \in 1..next[c] : k = Key(On[c], i)
        BY <2>2
      <3>2. Cleared(c, Key(On[c], i))'
        BY <2>3
      <3> QED BY <3>1, <3>2, <1>3 DEF Cleared
    <2>6. Achieved(c)'
      BY <2>1, <2>4, ReturnAchieved DEF Inv
    <2>5. "ok" \in Results
      BY DEF Results
    <2> QED BY <1>2, <2>1, <2>5, <2>6, ReturnControl DEF Inv
  <1>6. CASE ~LastProgram(c)
    <2>1. next' = [next EXCEPT ![c] = @ + 1] /\ UNCHANGED <<settings, call, phase, outcome, result>>
      BY <1>6 DEF Advance
    <2>2. TypeOK'
      BY <2>1, SettingsType DEF Inv, TypeOK, settings
    <2>3. next'[c] = next[c] + 1 /\ next'[c] <= Len(Programs[On[c]])
      BY <2>1, <1>0, <1>1, <1>6 DEF TypeOK, LastProgram
    <2>4. ControlInv'
      <3>1. ASSUME NEW d \in Calls
            PROVE  /\ next'[d] <= Len(Programs[On[d]])
                   /\ phase'[d] \in {"new", "done"} => next'[d] = 0
                   /\ phase'[d] = "publish" => call'[d] \in {"accept_once", "serve", "publish", "maybe_publish"}
                   /\ phase'[d] = "serve" => call'[d] \in {"accept_once", "serve"}
        <4>1. /\ next[d] <= Len(Programs[On[d]])
              /\ phase[d] \in {"new", "done"} => next[d] = 0
              /\ phase[d] = "publish" => call[d] \in {"accept_once", "serve", "publish", "maybe_publish"}
              /\ phase[d] = "serve" => call[d] \in {"accept_once", "serve"}
          BY <1>0, Zenon DEF ControlInv
        <4>2. CASE d = c
          BY <2>1, <2>3, <4>1, <4>2
        <4>3. CASE d # c
          <5>1. next'[d] = next[d]
            BY <1>0, <2>1, <4>3, Zenon DEF TypeOK
          <5> QED BY <2>1, <4>1, <5>1, Zenon
        <4> QED BY <4>2, <4>3
      <3> QED BY <3>1, Zenon DEF ControlInv
    <2>5. next'[c] - 1 = next[c] /\ phase'[c] = phase[c]
      BY <2>1, <2>3, <1>1
    <2>6. Publishing(c)'
      BY <2>5, <1>3, Zenon DEF Publishing
    <2>7. Withdrawing(c)'
      BY <2>5, <1>3, Zenon DEF Withdrawing
    <2> QED BY <1>2, <2>1, <2>2, <2>4, <2>6, <2>7 DEF Achieved, Serving, Withdrawn
  <1> QED BY <1>4, <1>5, <1>6

\* A step of c leaves the other calls where they are.
OnlyCall(c) ==
    \A d \in Calls \ {c} :
        phase'[d] = phase[d] /\ next'[d] = next[d] /\ call'[d] = call[d] /\ result'[d] = result[d]

\* A return moves its own call only,
LEMMA ReturnOnly == ASSUME TypeOK, NEW c \in Calls, NEW r, Return(c, r) PROVE OnlyCall(c)
  BY DEF TypeOK, Return, Forget, OnlyCall

\* and so does the step to the next program.
LEMMA AdvanceOnly == ASSUME TypeOK, NEW c \in Calls, Advance(c) PROVE OnlyCall(c)
  <1>1. CASE Return(c, "ok")
    BY <1>1, ReturnOnly
  <1>2. CASE phase' = [phase EXCEPT ![c] = "serve"] /\ UNCHANGED <<call, next, result>>
    BY <1>2 DEF TypeOK, OnlyCall
  <1>3. CASE next' = [next EXCEPT ![c] = @ + 1] /\ UNCHANGED <<call, phase, result>>
    BY <1>3 DEF TypeOK, OnlyCall
  <1> QED BY <1>1, <1>2, <1>3 DEF Advance, LoopEnds

\* A step of c that keeps the parts and what other calls have keeps the invariant.
LEMMA StepOn ==
    ASSUME Inv, NEW c \in Calls, UNCHANGED settings, OnlyCall(c), phase[c] # "done",
           late' \subseteq late \/ (phase'[c] = "done" /\ result'[c] # "ok" /\ \A r \in late' \ late : r.from = c),
           TypeOK', ControlInv', ServiceInv', Achieved(c)', \A d \in Calls \ {c} : Keeps(d)
    PROVE  Inv'
  <1>1. ASSUME NEW d \in Calls \ {c} PROVE Achieved(d)'
    BY AchievedKept DEF OnlyCall
  <1>2. ASSUME NEW r \in late' PROVE phase'[r.from] = "done" /\ result'[r.from] # "ok"
    <2>1. CASE r \in late
      <3>1. phase[r.from] = "done" /\ result[r.from] # "ok" /\ r.from \in Calls
        BY <2>1, Zenon DEF Inv, LateInv, ServiceInv, IsRequest
      <3> QED BY <3>1 DEF OnlyCall
    <2>2. CASE r \notin late
      BY <2>2
    <2> QED BY <2>1, <2>2
  <1> QED BY <1>1, <1>2 DEF Inv, LateInv

\* A call that starts has achieved nothing yet.
LEMMA BeginStep ==
    ASSUME Inv, NEW c \in Calls, NEW m, NEW p, Begin(c, m, p),
           \/ p = "publish" /\ m \in {"accept_once", "serve", "publish", "maybe_publish"}
           \/ p = "serve" /\ m \in {"accept_once", "serve"} /\ config[On[c]] # "on"
           \/ p = "unpublish" /\ m = "unpublish"
    PROVE  Inv'
  <1> USE DEF Inv
  <1>1. UNCHANGED settings
    BY DEF Begin
  <1>2. TypeOK'
    BY <1>1, SettingsType DEF TypeOK, Begin, settings, CallNames, Results
  <1>3. /\ phase[c] = "new" /\ phase'[c] = p /\ call'[c] = m /\ next' = next /\ next[c] = 0
        /\ OnlyCall(c) /\ late' = late
    BY DEF TypeOK, ControlInv, Begin, OnlyCall, service
  <1>4. ControlInv'
    <2>1. ASSUME NEW d \in Calls, d # c PROVE phase'[d] = phase[d] /\ call'[d] = call[d]
      BY <1>3, <2>1, Zenon DEF OnlyCall
    <2> QED BY <1>3, <2>1 DEF ControlInv
  <1>5. ServiceInv'
    BY ServiceSame DEF Begin, settings
  <1>6. Achieved(c)'
    BY <1>1, <1>3 DEF settings, Achieved, Publishing, Serving, Withdrawing, Withdrawn
  <1>7. \A d \in Calls \ {c} : Keeps(d)
    BY KeepsSame DEF Begin, service
  <1> QED BY <1>1, <1>2, <1>3, <1>4, <1>5, <1>6, <1>7, StepOn

\* A call refused for its settings sends nothing.
LEMMA RefuseStep ==
    ASSUME Inv, NEW c \in Calls, NEW m \in CallNames, NEW r \in Results, r # "ok", Refuse(c, m, r)
    PROVE  Inv'
  <1> USE DEF Inv
  <1>1. UNCHANGED settings
    BY DEF Refuse
  <1>2. TypeOK'
    BY <1>1, SettingsType DEF TypeOK, Refuse, settings, CallNames
  <1>3. /\ phase[c] = "new" /\ phase'[c] = "done" /\ result'[c] = r /\ next' = next /\ next[c] = 0
        /\ OnlyCall(c) /\ late' = late
    BY DEF TypeOK, ControlInv, Refuse, OnlyCall, service
  <1>4. ControlInv'
    <2>1. ASSUME NEW d \in Calls, d # c PROVE phase'[d] = phase[d] /\ call'[d] = call[d]
      BY <1>3, <2>1 DEF OnlyCall
    <2> QED BY <1>3, <2>1 DEF ControlInv
  <1>5. ServiceInv'
    BY ServiceSame DEF Refuse, settings, service
  <1>6. Achieved(c)'
    BY <1>3, Zenon DEF Achieved, Publishing, Serving, Withdrawing, Withdrawn
  <1>7. \A d \in Calls \ {c} : Keeps(d)
    BY KeepsSame, Zenon DEF Refuse, service
  <1> QED BY <1>1, <1>2, <1>3, <1>4, <1>5, <1>6, <1>7, StepOn

\* The request of the program a loop is at, which it may send.
LEMMA RequestOK ==
    ASSUME Inv, NEW c \in Calls, next[c] > 0, NEW op \in {"set", "unset"}
    PROVE  /\ IsRequest(Request(c, op))
           /\ Request(c, op).from = c /\ Request(c, op).op = op /\ Request(c, op).key = Key(On[c], next[c])
  <1>1. next[c] \in 1..Len(Programs[On[c]])
    BY OnServer DEF Inv, TypeOK, ControlInv
  <1> QED BY <1>1, KeyOfServer, OnServer, Zenon DEF Request, IsRequest

\* Whatever becomes of a request of c, the service and the other calls are well.
LEMMA RequestSent ==
    ASSUME Inv, NEW c \in Calls, NEW r, IsRequest(r), r.from = c, UNCHANGED settings, Unanswered(r), Asked(r)
    PROVE  /\ ServiceInv' /\ \A d \in Calls \ {c} : Keeps(d)
           /\ \A q \in late' \ late : q.from = c
  <1> USE DEF Inv
  <1>1. /\ (registry' = registry /\ last' = last) \/ Act(r)
        /\ late' \subseteq late \cup {r}
    BY DEF Unanswered, service
  <1>2. /\ published \subseteq published'
        /\ r.op = "set" => <<r.key, Addr[On[r.from]]>> \in published'
    BY DEF Asked
  <1>3. ServiceInv'
    BY <1>1, <1>2, ServiceKept, Zenon DEF settings
  <1>4. ASSUME NEW d \in Calls \ {c} PROVE Keeps(d)
    <2>1. CASE registry' = registry /\ last' = last
      BY <2>1, KeepsSame
    <2>2. CASE Act(r)
      BY <2>2, OthersRequest DEF Keeps
    <2> QED BY <1>1, <2>1, <2>2
  <1> QED BY <1>1, <1>3, <1>4

\* A call that fails, or that had nothing to withdraw, returns.
LEMMA ReturnStep ==
    ASSUME Inv, NEW c \in Calls, phase[c] # "done", NEW r \in Results, Return(c, r),
           ServiceInv', \A d \in Calls \ {c} : Keeps(d),
           r = "ok" => call[c] # "unpublish" /\ config[On[c]] # "on" /\ late' = late,
           \A q \in late' \ late : q.from = c
    PROVE  Inv'
  <1>1. TypeOK' /\ ControlInv' /\ Achieved(c)' /\ OnlyCall(c)
    BY ReturnControl, ReturnAchieved, ReturnOnly DEF Inv
  <1>2. UNCHANGED settings
    BY DEF Return
  <1>3. phase'[c] = "done" /\ (r # "ok" => result'[c] # "ok")
    BY DEF Return, Inv, TypeOK
  <1> QED BY <1>1, <1>2, <1>3, StepOn

\* A step of publish_rpcbind or unpublish_rpcbind: one SET or UNSET, acted on, lost, or late.
LEMMA ProgramsInv == ASSUME Inv, NEW c \in Calls, ProgramsStep(c) PROVE Inv'
  <1> DEFINE op == IF phase[c] = "publish" THEN "set" ELSE "unset"
             r == LoopRequest(c)
  <1>0. "Runtime" \in Results /\ next[c] \in Nat /\ phase[c] \in {"publish", "unpublish"}
    BY DEF Results, Inv, TypeOK, ProgramsStep
  <1>1. CASE next[c] = 0 /\ Advance(c) /\ UNCHANGED <<service, published>>
    <2>1. TypeOK' /\ ControlInv' /\ Achieved(c)' /\ UNCHANGED settings
      BY <1>0, <1>1, AdvanceStep
    <2>2. OnlyCall(c)
      BY <1>1, AdvanceOnly DEF Inv
    <2>3. ServiceInv' /\ late' = late /\ \A d \in Calls \ {c} : Keeps(d)
      BY <1>1, <2>1, ServiceSame, KeepsSame DEF Inv, service, settings
    <2> QED BY <1>0, <2>1, <2>2, <2>3, StepOn
  <1>2. CASE next[c] = 0 /\ Return(c, "Runtime") /\ UNCHANGED <<service, published>>
    <2>1. ServiceInv' /\ late' = late /\ \A d \in Calls \ {c} : Keeps(d)
      BY <1>2, ServiceSame, KeepsSame DEF Inv, Return, service, settings
    <2> QED BY <1>0, <1>2, <2>1, ReturnStep
  <1>3. CASE /\ next[c] > 0
             /\ Asked(r) /\ Act(r) /\ UNCHANGED late /\ Advance(c)
    <2>1. IsRequest(r) /\ r.from = c /\ r.op = op /\ r.key = Key(On[c], next[c])
      BY <1>3, RequestOK DEF LoopRequest
    <2>2. Unanswered(r)
      BY <1>3 DEF Unanswered
    <2>3. \A i \in 1..next[c] : i = next[c] \/ i \in 1..next[c] - 1
      BY <1>0
    <2>4. UNCHANGED kind
      BY <1>3, Zenon DEF Advance, LoopEnds, Return, settings
    <2>5. Achieved(c) /\ ServiceInv
      BY DEF Inv
    <2>6. ASSUME phase[c] = "publish", NEW i \in 1..next[c], Key(On[c], i) \in OwnKeys(On[c]) PROVE Registered(c, Key(On[c], i))'
      <3>1. r.op = "set"
        BY <2>1, <2>6
      <3>2. i # next[c] => Registered(c, Key(On[c], i))
        BY <2>3, <2>5, <2>6 DEF Achieved, Publishing
      <3>3. \A k \in OwnKeys(On[c]) : (r.key = k \/ Registered(c, k)) => Registered(c, k)'
        BY <1>3, <2>1, <2>5, <3>1, OwnSet, Zenon
      <3>4. Key(On[c], i)' = Key(On[c], i)
        BY <2>4, KeysKept
      <3>5. r.key = Key(On[c], i) \/ Registered(c, Key(On[c], i))
        BY <2>1, <3>2
      <3>6. \A k \in OwnKeys(On[c]) : Registered(c, k)' => (k = Key(On[c], i) => Registered(c, Key(On[c], i))')
        BY <3>4, Zenon DEF Registered
      <3> QED BY <2>6, <3>3, <3>5, <3>6, Zenon
    <2>7. ASSUME phase[c] = "unpublish", NEW i \in 1..next[c] PROVE Cleared(c, Key(On[c], i))'
      <3>1. r.op = "unset"
        BY <2>1, <2>7
      <3>2. i # next[c] => Cleared(c, Key(On[c], i))
        BY <2>3, <2>5, <2>7 DEF Achieved, Withdrawing
      <3>3. \A k : (r.key = k \/ Cleared(c, k)) => Cleared(c, k)'
        BY <1>3, <2>1, <2>5, <3>1, OwnUnset, Zenon
      <3>4. Key(On[c], i)' = Key(On[c], i)
        BY <2>4, KeysKept
      <3>5. r.key = Key(On[c], i) \/ Cleared(c, Key(On[c], i))
        BY <2>1, <3>2
      <3>6. \A k : Cleared(c, k)' => (k = Key(On[c], i) => Cleared(c, Key(On[c], i))')
        BY <3>4, Zenon DEF Cleared
      <3> QED BY <3>3, <3>5, <3>6, Zenon
    <2>8. TypeOK' /\ ControlInv' /\ Achieved(c)' /\ UNCHANGED settings
      BY <1>0, <1>3, <2>6, <2>7, AdvanceStep, Zenon
    <2>9. OnlyCall(c)
      BY <1>3, AdvanceOnly DEF Inv
    <2>10. ServiceInv' /\ \A d \in Calls \ {c} : Keeps(d)
      BY <1>3, <2>1, <2>2, <2>8, RequestSent, Zenon
    <2> QED BY <1>0, <1>3, <2>8, <2>9, <2>10, StepOn
  <1>4. CASE /\ next[c] > 0 /\ Asked(r)
             /\ Unanswered(r) /\ Return(c, "Runtime")
    <2>1. IsRequest(r) /\ r.from = c
      BY <1>4, RequestOK DEF LoopRequest
    <2>2. ServiceInv' /\ (\A d \in Calls \ {c} : Keeps(d)) /\ \A q \in late' \ late : q.from = c
      BY <1>4, <2>1, RequestSent DEF Return
    <2> QED BY <1>0, <1>4, <2>2, ReturnStep
  <1> QED BY <1>1, <1>2, <1>3, <1>4 DEF ProgramsStep

\* The serve call is over and the keys are withdrawn next.
LEMMA ServedInv == ASSUME Inv, NEW c \in Calls, Served(c) PROVE Inv'
  <1>0. TypeOK /\ ControlInv
    BY Zenon DEF Inv
  <1>1. PICK o \in {"ok", "error"} :
          /\ phase[c] = "serve" /\ UNCHANGED <<service, published>>
          /\ o = "ok" => call[c] = "accept_once"
          /\ IF config[On[c]] = "on"
             THEN /\ phase' = [phase EXCEPT ![c] = "unpublish"]
                  /\ outcome' = [outcome EXCEPT ![c] = o]
                  /\ next' = [next EXCEPT ![c] = 0]
                  /\ UNCHANGED <<settings, call, result>>
             ELSE Return(c, IF o = "ok" THEN "ok" ELSE "ServerTransport")
    BY DEF Served
  <1>2. UNCHANGED settings
    BY <1>1 DEF Return
  <1>3. ServiceInv' /\ late' = late /\ \A d \in Calls \ {c} : Keeps(d)
    BY <1>1, <1>2, ServiceSame, KeepsSame, Zenon DEF Inv, service, settings
  <1>4. CASE config[On[c]] = "on"
    <2>0. /\ phase' = [phase EXCEPT ![c] = "unpublish"] /\ outcome' = [outcome EXCEPT ![c] = o]
          /\ next' = [next EXCEPT ![c] = 0] /\ UNCHANGED <<call, result, replaces>>
      BY <1>1, <1>4, Zenon DEF settings
    <2>1. TypeOK' /\ OnlyCall(c)
      <3>1. TypeOK'
        BY <1>0, <1>2, <2>0, SettingsType DEF TypeOK
      <3>2. OnlyCall(c)
        BY <1>0, <2>0, Zenon DEF TypeOK, OnlyCall
      <3> QED BY <3>1, <3>2
    <2>2. phase'[c] = "unpublish" /\ next'[c] = 0
      BY <1>0, <1>1, <1>4, Zenon DEF TypeOK
    <2>3. ControlInv'
      <3>1. Len(Programs[On[c]]) \in Nat
        BY OnServer
      <3>2. ASSUME NEW d \in Calls, d # c PROVE phase'[d] = phase[d] /\ next'[d] = next[d] /\ call'[d] = call[d]
        BY <2>1, <3>2 DEF OnlyCall
      <3>3. ASSUME NEW d \in Calls
            PROVE  /\ next'[d] <= Len(Programs[On[d]])
                   /\ phase'[d] \in {"new", "done"} => next'[d] = 0
                   /\ phase'[d] = "publish" => call'[d] \in {"accept_once", "serve", "publish", "maybe_publish"}
                   /\ phase'[d] = "serve" => call'[d] \in {"accept_once", "serve"}
        <4>1. CASE d = c
          BY <2>2, <3>1, <4>1
        <4>2. CASE d # c
          BY <1>0, <3>2, <4>2 DEF ControlInv
        <4> QED BY <4>1, <4>2
      <3> QED BY <3>3, Zenon DEF ControlInv
    <2>4. Achieved(c)'
      BY <2>2 DEF Achieved, Publishing, Serving, Withdrawing, Withdrawn
    <2>5. phase[c] # "done"
      BY <1>1
    <2> QED BY <1>2, <1>3, <2>1, <2>3, <2>4, <2>5, StepOn, Zenon
  <1>5. CASE config[On[c]] # "on"
    <2>1. {"ok", "ServerTransport"} \subseteq Results /\ (o = "ok" => call[c] # "unpublish")
      BY <1>1 DEF Results
    <2> QED BY <1>1, <1>3, <1>5, <2>1, ReturnStep
  <1> QED BY <1>4, <1>5

\* The future is dropped, or its process ends, with a request perhaps on its way.
LEMMA InterruptInv == ASSUME Inv, NEW c \in Calls, Interrupt(c) PROVE Inv'
  <1> DEFINE r == LoopRequest(c)
  <1>1. UNCHANGED settings
    BY DEF Interrupt
  <1>2. TypeOK' /\ OnlyCall(c)
    BY <1>1, SettingsType DEF Inv, TypeOK, Interrupt, Forget, settings, CallNames, Results, OnlyCall
  <1>3. phase[c] # "done" /\ phase'[c] = "done" /\ next'[c] = 0 /\ result'[c] = "dropped"
    BY DEF Inv, TypeOK, Interrupt, Forget
  <1>4. ControlInv'
    <2>1. Len(Programs[On[c]]) \in Nat
      BY OnServer
    <2>2. ASSUME NEW d \in Calls, d # c PROVE phase'[d] = phase[d] /\ next'[d] = next[d] /\ call'[d] = call[d]
      BY <1>2, <2>2, Zenon DEF OnlyCall
    <2> QED BY <1>3, <2>1, <2>2 DEF Inv, ControlInv
  <1>5. Achieved(c)'
    BY <1>3, Zenon DEF Achieved, Publishing, Serving, Withdrawing, Withdrawn
  <1>6. ServiceInv' /\ (\A d \in Calls \ {c} : Keeps(d)) /\ \A q \in late' \ late : q.from = c
    <2>1. CASE UNCHANGED <<service, published>>
      BY <1>1, <2>1, ServiceSame, KeepsSame DEF Inv, service, settings
    <2>2. CASE next[c] > 0 /\ Unanswered(r) /\ Asked(r)
      <3>1. IsRequest(r) /\ r.from = c
        BY <2>2, RequestOK DEF LoopRequest
      <3> QED BY <1>1, <2>2, <3>1, RequestSent
    <2> QED BY <2>1, <2>2, Zenon DEF Interrupt
  <1> QED BY <1>1, <1>2, <1>3, <1>4, <1>5, <1>6, StepOn

\* The service acts on a request whose caller gave up on it.
LEMMA ActLateInv == ASSUME Inv, NEW r \in late, ActLate(r) PROVE Inv'
  <1>1. IsRequest(r) /\ (r.op = "set" => <<r.key, Addr[On[r.from]]>> \in published)
    BY DEF Inv, ServiceInv
  <1>2. /\ Act(r) /\ late' = late \ {r}
        /\ UNCHANGED <<settings, call, phase, next, outcome, result, published>>
    BY DEF ActLate, callVars
  <1>3. TypeOK' /\ ControlInv' /\ LateInv'
    BY <1>2, SettingsType DEF Inv, TypeOK, ControlInv, LateInv, settings
  <1>4. ServiceInv'
    BY <1>1, <1>2, ServiceKept DEF Inv, settings
  <1>5. ASSUME NEW c \in Calls PROVE Achieved(c)'
    <2>1. CASE r.from # c
      <3>1. Keeps(c)
        BY <1>1, <1>2, <2>1, OthersRequest, Zenon DEF Inv, Keeps
      <3> QED BY <1>2, <3>1, AchievedKept, Zenon
    <2>2. CASE r.from = c
      <3>1. phase'[c] = "done" /\ result'[c] # "ok"
        BY <1>2, <2>2 DEF Inv, LateInv
      <3> QED BY <3>1, Zenon DEF Achieved, Publishing, Serving, Withdrawing, Withdrawn
    <2> QED BY <2>1, <2>2
  <1> QED BY <1>3, <1>4, <1>5 DEF Inv

\* A user starts one of the calls.
LEMMA CallsInv == ASSUME Inv, NEW c \in Calls, ServeWithRpcbind(c) \/ PublishRpcbind(c) PROVE Inv'
  <1>0. /\ {"false", "MissingRpcbindAddress", "UnspecifiedServiceAddress"} \subseteq Results
        /\ {"accept_once", "serve", "publish", "maybe_publish", "unpublish"} \subseteq CallNames
    BY DEF Results, CallNames
  <1>1. CASE ServeWithRpcbind(c)
    BY <1>0, <1>1, BeginStep, RefuseStep, Zenon DEF ServeWithRpcbind
  <1>2. ASSUME NEW m \in {"publish", "maybe_publish", "unpublish"},
               \/ Refuse(c, m, "false") \/ Refuse(c, m, "UnspecifiedServiceAddress")
               \/ Begin(c, m, IF m = "unpublish" THEN "unpublish" ELSE "publish")
        PROVE  Inv'
    BY <1>0, <1>2, BeginStep, RefuseStep
  <1>3. CASE PublishRpcbind(c)
    BY <1>2, <1>3 DEF PublishRpcbind
  <1> QED BY <1>1, <1>3

\* Stuttering keeps the invariant.
LEMMA StutterInv == ASSUME Inv, UNCHANGED vars PROVE Inv'
  <1>1. TypeOK' /\ ControlInv' /\ LateInv'
    BY SettingsType DEF Inv, TypeOK, ControlInv, LateInv, vars, settings, service, callVars
  <1>2. ServiceInv'
    BY ServiceSame DEF Inv, vars, settings
  <1>3. ASSUME NEW c \in Calls PROVE Achieved(c)'
    BY KeepsSame, AchievedKept, Zenon DEF vars, service, callVars
  <1> QED BY <1>1, <1>2, <1>3 DEF Inv

\* Every step keeps the invariant.
LEMMA InvStep == Inv /\ [Next]_vars => Inv'
  <1> SUFFICES ASSUME Inv, [Next]_vars PROVE Inv'
    OBVIOUS
  <1>1. ASSUME NEW c \in Calls, CallStep(c) PROVE Inv'
    BY <1>1, CallsInv, ProgramsInv, ServedInv, InterruptInv, Zenon
       DEF CallStep, TcpAsyncServe, TcpSyncServe, UdpAsyncServe, UdpSyncServe, TcpAsyncPublish, TcpSyncPublish,
           UdpAsyncPublish, UdpSyncPublish, TcpAsyncPrograms, TcpSyncPrograms, UdpAsyncPrograms, UdpSyncPrograms
  <1> QED BY <1>1, ActLateInv, StutterInv DEF Next

-----------------------------------------------------------------------------

\* The inductive invariant holds in every reachable state.
THEOREM Invariance == Spec => []Inv
  BY InitInv, InvStep, PTL DEF Spec

\* A call that accepts with auto_publish has every key that is its server's own registered
\* at its address, for every number of servers, programs and overlapping calls, and whatever
\* earlier calls left unfinished, unless another call on its transport has withdrawn the key.
THEOREM PublishedBeforeServing == Spec => []PublishedWhileServing
  <1>1. ASSUME Inv PROVE PublishedWhileServing
    <2>1. \A c \in Calls : Serving(c)
      BY <1>1, Zenon DEF Inv, Achieved
    <2> QED BY <2>1, Zenon DEF Serving, Registered, PublishedWhileServing
  <1> QED BY <1>1, Invariance, PTL

\* unpublish_rpcbind, and the unpublishing that ends accept_once, leave no entry with the
\* server's address behind when they return Ok, unless another call on the transport has
\* registered it again.
THEOREM ReturnsClean == Spec => []CleanReturn
  <1>1. ASSUME Inv PROVE CleanReturn
    <2>1. \A c \in Calls : Withdrawn(c)
      BY <1>1, Zenon DEF Inv, Achieved
    <2>2. ASSUME NEW c \in Calls, phase[c] = "done", result[c] = "ok",
                 call[c] = "unpublish" \/ (call[c] = "accept_once" /\ config[On[c]] = "on"),
                 NEW k \in Keys(On[c]) \cap DOMAIN registry, registry[k] = UniversalAddr(Addr[On[c]])
          PROVE  OtherCall(c, k, "set")
      <3>1. Cleared(c, k)
        BY <2>1, <2>2, Zenon DEF Withdrawn
      <3> QED BY <2>2, <3>1, Zenon DEF Cleared
    <2> QED BY <2>2, Zenon DEF CleanReturn
  <1> QED BY <1>1, Invariance, PTL

\* lookup_addr, lookup_port and resolve_client_config find only what a server published,
\* with host and port as bound: parse_universal_addr undoes universal_addr.
THEOREM LookupsAgree == Spec => []LookupAgrees
  <1>1. ASSUME Inv PROVE LookupAgrees
    <2>2. ASSUME NEW k \in DOMAIN registry
          PROVE  \E p \in published : p[1] = k /\ ParseUniversalAddr(registry[k]) = [host |-> p[2].host, port |-> p[2].port]
      <3>1. PICK t \in Servers : <<k, Addr[t]>> \in published /\ registry[k] = UniversalAddr(Addr[t])
        BY <1>1, <2>2 DEF Inv, ServiceInv
      <3>2. ParseUniversalAddr(registry[k]) = [host |-> Addr[t].host, port |-> Addr[t].port]
        BY <3>1, PortNat, ParseInverts
      <3> QED BY <3>1, <3>2
    <2>3. ASSUME NEW transport, NEW family, NEW program PROVE FindsPublished(transport, family, program)
      <3> DEFINE k == <<program, LookupNetid(transport, family)>>
                 known == {p \in published : p[1] = k}
                 found == LookupAddr(program, LookupNetid(transport, family))
      <3>1. ASSUME NEW a \in found
            PROVE  \E p \in known : a = [host |-> p[2].host, port |-> p[2].port]
        <4>1. k \in DOMAIN registry /\ a = ParseUniversalAddr(registry[k])
          BY <3>1, Zenon DEF LookupAddr
        <4> QED BY <4>1, <2>2, Zenon
      <3> HIDE DEF known, found
      <3>2. found \subseteq {[host |-> p[2].host, port |-> p[2].port] : p \in known}
        BY <3>1, Zenon
      <3>3. {a.port : a \in found} \subseteq {p[2].port : p \in known}
        BY <3>1
      <3> USE DEF known, found
      <3> QED BY <3>2, <3>3, Zenon DEF FindsPublished, ResolveClientConfig, LookupPort
    <2> QED BY <2>3, Zenon DEF LookupAgrees
  <1> QED BY <1>1, Invariance, PTL

=============================================================================
