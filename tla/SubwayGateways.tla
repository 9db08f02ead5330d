--------------------------- MODULE SubwayGateways ---------------------------
(***************************************************************************)
(* DNS Subway: a query for one of the subway's domains is answered with a  *)
(* local address whose ports an SSH session forwards to the domain's host. *)
(* The resolver keeps the gateways in a pool and the pool's factory keeps  *)
(* the SSH session instances; the resolver is shared by the threads of all *)
(* queries, and only the monitor of a session instance orders them.        *)
(*                                                                         *)
(* A gateway and a session instance are named by the query whose thread    *)
(* made them, at most one each per query.                                  *)
(***************************************************************************)
EXTENDS Naturals, Sequences, FiniteSets

CONSTANTS Queries,
          Names,          \* the subway's domains that are asked for
          Ports,          \* the target ports, in the order they are forwarded
          SpaceSize,      \* usable addresses of the local subnet, host 1 first
          Configs,        \* the configurations: whether SSH sessions are shared,
                          \* and whether the local address is a subnet
          MaxDrops,       \* bound: times an SSH connection is lost
          MaxOthers,      \* bound: sockets other processes take
          None, Other

\* The offset from the lowest address at which the probing begins.
addressIndexStart == 100

\* The host numbers getEnableLocalSocketAddress tries, the lowest being 1.
Candidates == {1 + i : i \in addressIndexStart .. (SpaceSize - 1)}
Sockets    == Candidates \X {Ports[i] : i \in DOMAIN Ports}

ASSUME SpaceAssumption == SpaceSize \in Nat /\ Ports \in Seq(Nat) /\ Ports # <<>>
\* A port configured twice would make every gateway fail at the second.
ASSUME PortsAssumption == \A i, j \in DOMAIN Ports : Ports[i] = Ports[j] => i = j
ASSUME ConfigsAssumption == Configs \subseteq [shared : BOOLEAN, subnet : BOOLEAN]
ASSUME BoundsAssumption == MaxDrops \in Nat /\ MaxOthers \in Nat
ASSUME NoneAssumption == None # Other /\ {None, Other} \cap (Queries \cup Names) = {}

VARIABLES
  config,     \* the configuration of the resolver
  table,      \* gwDescriptorTable: the gateway filed under a name
  list,       \* sshSessionInstanceList
  ssh,        \* ssh[s]: the connection held by session instance s
  holder,     \* holder[s]: the thread in the monitor of session instance s
  owner,      \* owner[k]: the gateway, or other process, that has socket k
  pc,         \* pc[q]: where the thread of query q is
  name,       \* name[q]: the domain asked for
  session,    \* session[q]: the session instance of the gateway being made
  addr,       \* addr[q]: the address probed, then localBindAddress
  opened,     \* opened[q]: how many ports the gateway of q has forwarded
  gateway,    \* gateway[q]: the gateway whose entrance is the answer
  drops       \* how many connections were lost

vars == <<config, table, list, ssh, holder, owner, pc, name, session, addr,
          opened, gateway, drops>>

Settled   == {"answered", "nodata", "failed"}
Pcs       == {"idle", "lookup", "session", "make", "enter", "connect",
              "target", "reenter", "probe", "forward", "register"} \cup Settled

TypeOK ==
  /\ config \in Configs
  /\ table \in [Names -> Queries \cup {None}]
  /\ list \in Seq(Queries)
  /\ ssh \in [Queries -> {"null", "up", "unauthenticated", "closed"}]
  /\ holder \in [Queries -> Queries \cup {None}]
  /\ owner \in [Sockets -> Queries \cup {None, Other}]
  /\ pc \in [Queries -> Pcs]
  /\ name \in [Queries -> Names \cup {None}]
  /\ session \in [Queries -> Queries \cup {None}]
  /\ addr \in [Queries -> Candidates \cup {None}]
  /\ opened \in [Queries -> 0..Len(Ports)]
  /\ gateway \in [Queries -> Queries \cup {None}]
  /\ drops \in 0..MaxDrops

Init ==
  /\ config \in Configs
  /\ table = [n \in Names |-> None]
  /\ list = <<>>
  /\ ssh = [s \in Queries |-> "null"]
  /\ holder = [s \in Queries |-> None]
  /\ owner = [k \in Sockets |-> None]
  /\ pc = [q \in Queries |-> "idle"]
  /\ name = [q \in Queries |-> None]
  /\ session = [q \in Queries |-> None]
  /\ addr = [q \in Queries |-> None]
  /\ opened = [q \in Queries |-> 0]
  /\ gateway = [q \in Queries |-> None]
  /\ drops = 0

Goto(q, to) == pc' = [pc EXCEPT ![q] = to]

(***************************************************************************)
(* The thread of a query.                                                  *)
(***************************************************************************)

\* resolve: any record type but A and ANY is answered without a gateway.
Arrive(q) ==
  /\ pc[q] = "idle"
  /\ \E n \in Names : name' = [name EXCEPT ![q] = n]
  /\ \E place \in {"lookup", "nodata"} : Goto(q, place)
  /\ UNCHANGED <<config, table, list, ssh, holder, owner, session, addr,
                 opened, gateway, drops>>

\* A gateway filed under the name is answered as it is.  Nothing removes one.
Lookup(q) ==
  /\ pc[q] = "lookup"
  /\ \/ /\ table[name[q]] = None
        /\ Goto(q, "session")
        /\ UNCHANGED gateway
     \/ /\ table[name[q]] # None
        /\ gateway' = [gateway EXCEPT ![q] = table[name[q]]]
        /\ Goto(q, "answered")
  /\ UNCHANGED <<config, table, list, ssh, holder, owner, name, session,
                 addr, opened, drops>>

\* Every session instance of the list is one of the same server and user, so
\* the scan returns the first.
FindSession(q) ==
  /\ pc[q] = "session"
  /\ \/ /\ config.shared /\ list # <<>>
        /\ session' = [session EXCEPT ![q] = Head(list)]
        /\ Goto(q, "enter")
     \/ /\ ~config.shared \/ list = <<>>
        /\ Goto(q, "make")
        /\ UNCHANGED session
  /\ UNCHANGED <<config, table, list, ssh, holder, owner, name, addr,
                 opened, gateway, drops>>

\* Another thread adds to the list during the scan: the iterator of the
\* unsynchronized list fails, with an exception nobody on the way catches.
FindSessionRaces(q) ==
  /\ pc[q] = "session"
  /\ config.shared
  /\ \E p \in Queries \ {q} : pc[p] = "make"
  /\ Goto(q, "failed")
  /\ UNCHANGED <<config, table, list, ssh, holder, owner, name, session,
                 addr, opened, gateway, drops>>

\* createSSHSessionInstance adds the new instance, and so does its caller.
MakeSession(q) ==
  /\ pc[q] = "make"
  /\ list' = list \o <<q, q>>
  /\ session' = [session EXCEPT ![q] = q]
  /\ Goto(q, "enter")
  /\ UNCHANGED <<config, table, ssh, holder, owner, name, addr, opened,
                 gateway, drops>>

\* isOpen asks the connection whether it is open, not whether it is usable.
IsOpen(s) == ssh[s] \in {"up", "unauthenticated"}

MayEnter(q) == holder[session[q]] \in {None, q}

Acquire(q) == MayEnter(q) /\ holder' = [holder EXCEPT ![session[q]] = q]

Release(q) == holder' = [holder EXCEPT ![session[q]] = None]

\* A mutant: the session is opened without asking whether it is.
EnterAlwaysOpens(q) ==
  /\ pc[q] = "enter"
  /\ Acquire(q)
  /\ Goto(q, "connect")
  /\ UNCHANGED <<config, table, list, ssh, owner, name, session, addr,
                 opened, gateway, drops>>

\* The first synchronized block of open, as far as the test.
Enter(q) ==
  /\ pc[q] = "enter"
  /\ IF IsOpen(session[q])
     THEN MayEnter(q) /\ UNCHANGED holder /\ Goto(q, "target")
     ELSE Acquire(q) /\ Goto(q, "connect")
  /\ UNCHANGED <<config, table, list, ssh, owner, name, session, addr,
                 opened, gateway, drops>>

\* A mutant: the monitor is kept until the target is resolved and forwarded to.
ConnectKeepsMonitor(q) ==
  /\ pc[q] = "connect"
  /\ ssh' = [ssh EXCEPT ![session[q]] = "up"]
  /\ Goto(q, "target")
  /\ UNCHANGED <<config, table, list, holder, owner, name, session, addr,
                 opened, gateway, drops>>

\* SSHSessionInstance.open: connect, then authenticate, ten seconds each.  The
\* field is assigned in between.
Connect(q) ==
  /\ pc[q] = "connect"
  /\ \/ /\ ssh' = [ssh EXCEPT ![session[q]] = "up"]
        /\ Goto(q, "target")
     \/ /\ ssh' = [ssh EXCEPT ![session[q]] = "unauthenticated"]
        /\ Goto(q, "failed")
     \/ UNCHANGED ssh /\ Goto(q, "failed")
  /\ Release(q)
  /\ UNCHANGED <<config, table, list, owner, name, session, addr, opened,
                 gateway, drops>>

\* The address of the target, outside the monitor (sub-resolver mode "local"):
\* the sub-resolver the pool was made with has a usable answer or not.
ResolveTarget(q) ==
  /\ pc[q] = "target"
  /\ \E place \in {"reenter", "failed"} : Goto(q, place)
  /\ UNCHANGED <<config, table, list, ssh, holder, owner, name, session,
                 addr, opened, gateway, drops>>

AddressFree(a) == \A i \in DOMAIN Ports : owner[<<a, Ports[i]>>] = None

\* A probe binds each port for a moment, where another thread may find it.
ProbedByOther(q, a) ==
  \E p \in Queries \ {q} : pc[p] = "probe" /\ addr[p] = a

\* A mutant: the second block as it was before it became synchronized.
ReenterUnsynchronized(q) ==
  /\ pc[q] = "reenter"
  /\ addr' = [addr EXCEPT ![q] = 1 + addressIndexStart]
  /\ Goto(q, "probe")
  /\ UNCHANGED <<config, table, list, ssh, holder, owner, name, session,
                 opened, gateway, drops>>

\* The second synchronized block, entered.  The test of a single address calls
\* itself until the stack overflows; a subnet may have no address to offer.
Reenter(q) ==
  /\ pc[q] = "reenter"
  /\ IF config.subnet /\ Candidates # {}
     THEN /\ Acquire(q)
          /\ addr' = [addr EXCEPT ![q] = 1 + addressIndexStart]
          /\ Goto(q, "probe")
     ELSE MayEnter(q) /\ UNCHANGED <<holder, addr>> /\ Goto(q, "failed")
  /\ UNCHANGED <<config, table, list, ssh, owner, name, session, opened,
                 gateway, drops>>

\* A mutant: the probing does not end with the address space.
ProbePastEnd(q) ==
  /\ pc[q] = "probe"
  /\ IF addr[q] \in Candidates /\ AddressFree(addr[q])
     THEN Goto(q, "forward") /\ UNCHANGED addr
     ELSE addr' = [addr EXCEPT ![q] = @ + 1] /\ UNCHANGED pc
  /\ UNCHANGED <<config, table, list, ssh, holder, owner, name, session,
                 opened, gateway, drops>>

\* getEnableLocalSocketAddress tries one address.
Probe(q) ==
  /\ pc[q] = "probe"
  /\ \/ /\ AddressFree(addr[q])
        /\ Goto(q, "forward")
        /\ UNCHANGED <<holder, addr>>
     \/ /\ ~AddressFree(addr[q]) \/ ProbedByOther(q, addr[q])
        /\ IF addr[q] + 1 \in Candidates
           THEN addr' = [addr EXCEPT ![q] = @ + 1] /\ UNCHANGED <<holder, pc>>
           ELSE Release(q) /\ Goto(q, "failed") /\ UNCHANGED addr
  /\ UNCHANGED <<config, table, list, ssh, owner, name, session, opened,
                 gateway, drops>>

NextSocket(q) == <<addr[q], Ports[opened[q] + 1]>>

\* A mutant: a socket is bound over the one that has it (SO_REUSEADDR).
ForwardReuses(q) ==
  /\ pc[q] = "forward"
  /\ ssh[session[q]] = "up"
  /\ owner' = [owner EXCEPT ![NextSocket(q)] = q]
  /\ opened' = [opened EXCEPT ![q] = @ + 1]
  /\ IF opened[q] + 1 = Len(Ports)
     THEN Release(q) /\ Goto(q, "register")
     ELSE UNCHANGED <<holder, pc>>
  /\ UNCHANGED <<config, table, list, ssh, name, session, addr, gateway, drops>>

\* startLocalPortForwarding for the next port; after the last one the monitor
\* is left.
Forward(q) ==
  /\ pc[q] = "forward"
  /\ ssh[session[q]] = "up"
  /\ owner[NextSocket(q)] = None
  /\ owner' = [owner EXCEPT ![NextSocket(q)] = q]
  /\ opened' = [opened EXCEPT ![q] = @ + 1]
  /\ IF opened[q] + 1 = Len(Ports)
     THEN Release(q) /\ Goto(q, "register")
     ELSE UNCHANGED <<holder, pc>>
  /\ UNCHANGED <<config, table, list, ssh, name, session, addr, gateway, drops>>

\* A mutant: a port that cannot be forwarded is skipped.
ForwardSkips(q) ==
  /\ pc[q] = "forward"
  /\ owner[NextSocket(q)] # None
  /\ opened' = [opened EXCEPT ![q] = @ + 1]
  /\ IF opened[q] + 1 = Len(Ports)
     THEN Release(q) /\ Goto(q, "register")
     ELSE UNCHANGED <<holder, pc>>
  /\ UNCHANGED <<config, table, list, ssh, owner, name, session, addr,
                 gateway, drops>>

\* The connection is not usable or the socket is in use: the query fails and
\* the ports forwarded before stay with the connection.
ForwardFails(q) ==
  /\ pc[q] = "forward"
  /\ \/ ssh[session[q]] # "up"
     \/ owner[NextSocket(q)] # None
     \/ ProbedByOther(q, addr[q])
  /\ Release(q)
  /\ Goto(q, "failed")
  /\ UNCHANGED <<config, table, list, ssh, owner, name, session, addr,
                 opened, gateway, drops>>

\* createDNSSubwayDescriptor files the gateway, over whatever was there.
Register(q) ==
  /\ pc[q] = "register"
  /\ table' = [table EXCEPT ![name[q]] = q]
  /\ gateway' = [gateway EXCEPT ![q] = q]
  /\ Goto(q, "answered")
  /\ UNCHANGED <<config, list, ssh, holder, owner, name, session, addr,
                 opened, drops>>

(***************************************************************************)
(* The SSH library, the SSH server and the other processes of the host.    *)
(***************************************************************************)

\* Closing a connection closes the forwardings made over it.
OverSession(s) == {k \in Sockets : owner[k] \in Queries /\ session[owner[k]] = s}

Drop(s) ==
  /\ IsOpen(s)
  /\ drops < MaxDrops
  /\ drops' = drops + 1
  /\ ssh' = [ssh EXCEPT ![s] = "closed"]
  /\ owner' = [k \in Sockets |-> IF k \in OverSession(s) THEN None ELSE owner[k]]
  /\ UNCHANGED <<config, table, list, holder, pc, name, session, addr,
                 opened, gateway>>

OtherTakes(k) ==
  /\ owner[k] = None
  /\ Cardinality({j \in Sockets : owner[j] = Other}) < MaxOthers
  /\ owner' = [owner EXCEPT ![k] = Other]
  /\ UNCHANGED <<config, table, list, ssh, holder, pc, name, session, addr,
                 opened, gateway, drops>>

\* What a thread does without waiting for the outside longer than a time limit
\* of the code.
LocalStep(q) ==
  \/ Lookup(q) \/ FindSession(q) \/ FindSessionRaces(q) \/ MakeSession(q)
  \/ Enter(q) \/ Connect(q) \/ Reenter(q) \/ Probe(q)
  \/ Forward(q) \/ ForwardFails(q) \/ Register(q)

Next ==
  \/ \E q \in Queries : Arrive(q) \/ LocalStep(q) \/ ResolveTarget(q)
  \/ \E s \in Queries : Drop(s)
  \/ \E k \in Sockets : OtherTakes(k)

Spec == Init /\ [][Next]_vars

\* The threads run; the sub-resolver, which waits without a limit, may never
\* answer.  A monitor is left by every step that ends a block, so a thread that
\* can enter and never does would be starved by finitely many others.
FairSpec == Spec /\ \A q \in Queries : WF_vars(LocalStep(q))

(***************************************************************************)
(* Properties.                                                             *)
(***************************************************************************)

\* The ports of an entrance lead to the target together: of a gateway in the
\* table or just made, all ports are forwarded, or, its connection lost, none.
\* Half a gateway is never answered, although building one can stop half-way
\* and the connection can be replaced at any time.
EntranceAllOrNothing ==
  \A g \in Queries :
    (\E q \in Queries : gateway[q] = g) =>
      LET mine == {i \in DOMAIN Ports : owner[<<addr[g], Ports[i]>>] = g}
      IN  mine = {} \/ mine = DOMAIN Ports

\* What the second synchronized block is for: the ports a thread has yet to
\* forward on the address it chose are not taken by another gateway of the same
\* session instance, nor is the address chosen twice.
SameSessionNoConflict ==
  \A q \in Queries : pc[q] = "forward" =>
    /\ \A i \in (opened[q] + 1)..Len(Ports) :
         LET o == owner[<<addr[q], Ports[i]>>]
         IN  o \in Queries => session[o] # session[q]
    /\ \A p \in Queries \ {q} :
         pc[p] = "forward" /\ session[p] = session[q] => addr[p] # addr[q]

\* A connection that is in use is not replaced: while a gateway's ports are
\* forwarded, its session instance keeps that connection, so that the code can
\* still reach them to stop them.
ForwardedOverOpenConnection ==
  \A k \in Sockets : owner[k] \in Queries => ssh[session[owner[k]]] = "up"

\* An answered entrance is one made for the domain asked for, and leads there
\* through every port as long as no connection was lost: neither two gateways
\* built at once, nor one that failed half-way, nor the sockets of other
\* processes put another target behind it.
AnswersLeadHome ==
  \A q \in Queries : pc[q] = "answered" =>
    /\ gateway[q] \in Queries /\ name[gateway[q]] = name[q]
    /\ drops = 0 =>
         \A i \in DOMAIN Ports : owner[<<addr[gateway[q]], Ports[i]>>] = gateway[q]

\* A session instance that is waited for is with a thread that connects, probes
\* or forwards for that instance, each of which has its end; never with one
\* that waits for its sub-resolver, has failed, or waits itself.
MonitorIsLeft ==
  \A s \in Queries : holder[s] # None =>
    session[holder[s]] = s /\ pc[holder[s]] \in {"connect", "probe", "forward"}

\* A query that waits on a session instance gets on, whatever sub-resolver
\* other queries wait for: nobody resolves a target inside the monitor.
NobodyWaitsForAnothersTarget ==
  \A q \in Queries :
    pc[q] \notin {"idle", "target"} ~> pc[q] \in Settled \cup {"target"}

(***************************************************************************)
(* What comments of the code say, and the code does not keep to.           *)
(***************************************************************************)

\* The answer is the entrance of the gateway for the domain asked for: its ports
\* do not lead to the target of another domain at the time of the answer.
AnswerLeadsNowhereElse ==
  [][\A q \in Queries : pc[q] # "answered" /\ pc'[q] = "answered" =>
       \A i \in DOMAIN Ports :
         LET o == owner[<<addr[gateway'[q]], Ports[i]>>]
         IN  o \in Queries => name[o] = name[q]]_vars
=============================================================================
