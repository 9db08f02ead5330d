# A TLA+ model of LoulanDNS

LoulanDNS is a DNS proxy server in Java (Spring): endpoints receive DNS queries
over UDP or HTTPS, a service instance answers them from a domain cache or
through a resolver that asks an upstream server, and a Web API configures the
whole through a database. This directory holds TLA+ modules of its concurrent
core, the TLC configurations that check them on small instances, and TLAPS
proofs of the results that matter most. All paths below are relative to
`src/LoulanDNS/src/main/java/org/loxsols/net/service/dns/loulandns/`, and `S/`
stands for its `server/`.

## Inventory

| Component | State | Operations | Hard behaviour | Correct when |
|---|---|---|---|---|
| UDP endpoint (`S/impl/service/endpoint/udp`, `.../base`) | socket, byte counter and packet object of a task; task status shared by all tasks; one thread per query | start, stop, set status; receive loop; worker run | workers share socket and packet objects with the task; any of them may close the socket; start may be called again; exceptions no catch clause covers | a received query is read as sent; its reply goes once to its sender; a task whose socket is closed ends; nobody closes another task's socket |
| Service instance (`S/logical/service/dns/service`) | configuration, cache service, stat log | `serveDNSQuery`, run, stop | concurrent queries share caches and message objects; failures at every step | every query settles once with its own identifier and an answer to its own question; what was cached is not asked for again; what was logged is what was sent |
| Domain cache (`S/logical/service/system/cache`) | map of caches by name, entries with key, message, lifetime | find-or-create, get, put, delete, list | unsynchronized find-or-create; lifetimes; size bound | an entry answers its key with what upstream gave, no longer than its TTL; the size stays bounded |
| Error responses (`S/common/DNSProtocol*Exception`) | RCODE | constructor, set, get | a field hidden in a subclass | the response has a non-zero RCODE |
| Resolver and lookup client (`S/logical/service/dns/resolver`, `client/impl`) | upstream list, EDNS options | init, resolve | waits without timeout | the answer is for the question asked |
| Client transports (`client/impl/simple`) | a channel; for TCP one for all threads | lookup over UDP, TCP, DoH | no timeout, no lock, no check of the identifier, replies in pieces, channel not closed on errors | the reply returned is the whole reply to the query sent; no reply goes to two lookups |
| Registries: endpoint, service instance and resolver factories | maps of instances, database rows | get-or-create, create, register | find-or-create by several threads while the rows change | an instance once registered is the one all share; it is complete |
| DoH endpoint and controller | properties per request | init, serve | dynamic service instances per request | a reply to each request |
| Stat log, loggers | database tables | save, search | failure on the way out of a query | records of what was sent |
| Dynamic service launcher | descriptor and its life-cycle state, thread or process | launch, stop, status | asynchronous life cycle | the state shown is that of the service |
| DNS Subway (`client/subway`, `client/impl`) | table of gateways by name, list of SSH session instances, local sockets forwarded | get or create a gateway: find or make a session, connect, resolve the target, choose an address, forward its ports | unsynchronized find-or-create by the threads of the queries; connections lost while gateways stand in the table; a port that cannot be bound half-way | the address answered is a whole entrance, and to the domain asked for; no query waits for the target of another |
| Lookup command | job status | run, repeat | - | - |
| DB services, logical model service, Web APIs | database tables | CRUD in several transactions a request | reading and writing back apart, half-done work committed, a query that returns the rows of others | keys stay unique; a request does what it says or nothing; a failure loses nothing |
| Codec | none | encode, decode | bounds, compression pointers | decode inverts encode |
| Security, application classes, dashboard, schema | - | - | - | not part of the core logic |

How they interact: an application class starts endpoints through the endpoint
factory. An endpoint calls `serveDNSQuery` of its service instance in a thread
per query. The service instance finds or makes a cache through the cache
factory, looks up, asks its resolver on a miss (which uses a lookup client and
a transport), puts the answer into the cache, writes the stat log and returns.
The Web APIs change the database that the factories read.

## Modules

Abstract specifications:

* `RequestReply` - what an endpoint promises: replies only to requests that were
  made, to the client that made them, at most one each.
* `DnsResolution` - what a service instance promises: each query settles at most
  once, as an answer with its own identifier to its own question that upstream
  gave, as an error, or as silence.

Models of the code:

* `UdpEndpoint` - `UDPServiceEndpointInstanceImpl` and
  `DNSServiceEndpointInstanceImplBase`. `pc[t]` is the place of a task in
  `doUDPEndpointServiceTask`, `sock`, `total` (`totalReceivedSize`) and `buf`
  (`recvPacket`) its locals, `packet` the heap of packet objects, `worker[d]` the
  `UDPServiceThreadTask` of the question read from datagram `d`, `status` the
  shared task status. Actions: `Bind` (L227-242), `Suspend` and `NextPacket`
  (the top of the loop, L250-277), `Receive` (L279-329), `ReceiveClosed` and
  `ReceiveFault` (its IOException), `Question` (L448-468), `Reject` (every
  error path L336-446), `Escape` (exceptions no clause catches), `CloseSocket`
  and `MarkInactive` (the two effects of every exit path), and for the worker
  `Serve`, `Send`, `SendError`, `WorkerClose`, `WorkerMark` (L566-652). The
  clients and the network are `ClientSends` and `NetworkLoses`; a datagram that
  is in flight may be received in any order. What the parser makes of 512 bytes
  is kept in `Classify`: it depends on how many zero bytes precede the datagram.
  The status is a plain field, so a read may return its earlier value.
* `DnsServiceInstance` - `DNSServiceInstanceImplBase.serveDNSQuery` and what it
  calls. `pc[q]` is the place of the thread of query `q`, `stage[q]` whether it
  is at the first use of the cache (look up) or the second (store), `obj` and
  `resp` the response objects and references to them, so that sharing is
  visible; `repo` is the entry of the cache factory's map, `made` and `store`
  the caches and their entries. Actions: `Arrive`, `CacheName` (user and service
  name from the database), `FindCache`, `MakeCache`, `RegisterCache` (the
  unsynchronized find-or-create), `Hit`, `Miss`, `Resolve`, `ResolveFails`,
  `Put`, `LogAndReturn`, and the clock `Tick`.

* `SubwayGateways` - a query for a domain of DNS Subway, from
  `SimpleDNSSubwayResolverImpl.resolve` to the SSH session. `table` is
  `gwDescriptorTable` of the pool, `list` the factory's session instances, `ssh`
  the connection of each and `holder` its monitor, `owner` who has each local
  socket. A query's thread goes through `Arrive`, `Lookup` (the pool), `FindSession`
  and `MakeSession` (the factory), `Enter` and `Connect` (first synchronized block
  of `SSHGatewayImpl.open`), `ResolveTarget` (outside it), `Reenter`, `Probe` and
  `Forward` or `ForwardFails` (second block, one address and one port a step) and
  `Register`. `Drop` (a connection is lost, and its forwardings with it) and `OtherTakes`
  (another process binds a socket) are the world outside. `FindSessionRaces` is the
  failure of an `ArrayList` iterator when another thread adds during the scan.

* `TcpTransport` - `SimpleTCPMessageTransporterImpl.lookup` by several threads over
  the one `socketChannel` of a transporter. A channel has the state the JDK gives it
  (`link`), whether the server still serves it (`peer`), what it owes (`pending`) and
  the bytes that have come (`stream`). A lookup goes through `Start`, `Open`, `Connect`,
  `Write`, then reads: `BeginRead` picks the channel it blocks in (`at`), `ReadFirst` is
  the read before the flip, `ReadRest`, `ReadNothing` and `ReadEnd` the turns of the
  loop after it, whose buffer can grow no more, and `Return` takes the message.
  `Reply` and `PeerCloses` are the server.
* `ResolverStore` - the handlers of `LoulanDNSAdminDNSServiceInstanceWebAPIService` for
  resolver instances and their properties, down to the two tables (`resolver`, `rows`).
  A handler is a sequence of transactions, each one action: `CreateResolver`, `Find`,
  `Load`, `Save`, `DeleteResolver`, `ReadProperty`, `WriteProperty`, `VerifyProperty`,
  `EraseProperty`; `op[p]` is what the request asks and `info[p]` the list it holds
  in memory between them. `Saved`, `NewID`, `AfterSaving` and `WithKeys` say what
  writing a list does to the table, in the order of the list and up to the item that
  throws.
* `ResolverFactory` - extends `ResolverStore` with the callers that ask
  `DNSResolverInstanceFactoryImpl` for an instance, by the id of a resolver (`Call`,
  `LoadModel`, `LookUp`), by its name (`LookUpByName`, `Identify`, then as by id) or a
  temporary one at start-up (`CallTemporary`, `LookUp`), and then
  `createDNSResolverInstance` (which loads the model again) and
  `registDNSResolverInstanceCacheRecord`. The construction of a resolver of type 501, a
  gateway of DNS Subway, asks the same factory for its sub-resolver by name
  (`DNSSubwayResolverImpl` L128), which looks up, makes and registers an instance of
  another name between the making and the registering of the gateway. So the state is
  kept per activation: `<<c, d>>` is the call at depth `d` of caller `c`; it waits in
  stage "construct" for its `Inner` call and `setSubResolverInstance` takes what that
  returns or throws it on. `Making`, and with it what counts as settled, is about the
  activations of every depth. The store and the callers are composed by interleaving
  over the tables.

Instances: `MCUdpEndpoint`, `MCDnsServiceInstance`, `MCSubwayGateways`, `MCTcpTransport`,
`MCResolverStore` and `MCResolverFactory` give the constants their values. Each model
has its theorems in a module of the same name with `_proofs` added.

A definition called a mutant in its comment is a copy of the one that follows it
with a plausible mistake in it. It takes no part in the specification; replacing
the original by it makes TLC report the property the mutant is meant for.

## Runs

| Run | Checks | Result |
|---|---|---|
| `UdpStrict` | two tasks, two queries, errors stop a task: `ReceivedQueryIsRead`, `ReaderKeepsSocket`, `RepliesAreSound` (refinement of `RequestReply`), `ClosedSocketEndsTask` (liveness) | hold |
| `UdpIgnore` | one task that ignores errors, three datagrams, one malformed: `TypeOK`, `ReaderKeepsSocket`, `RepliesAreSound`, `DeafForGood` (temporal) | hold |
| `UdpResidue` | `ReceivedQueryIsRead` with errors ignored | violated |
| `ServicePair` | two queries, a name and the root, two record types, every configuration: `TypeOK`, `CachedIsGiven`, `AnsweredIsLogged`, `RepeatIsHit`, `ResolutionIsSound` (refinement of `DnsResolution`), `SettlesOrWaitsUpstream` (liveness) | hold |
| `ServiceExpiry` | `HitIsFresh` | violated |
| `SubwayPair` | two queries, two domains, every configuration, two ports, two addresses, two connections lost, one socket taken: `TypeOK`, `EntranceAllOrNothing`, `SameSessionNoConflict`, `ForwardedOverOpenConnection`, `AnswersLeadHome`, `MonitorIsLeft`, `NobodyWaitsForAnothersTarget` (liveness) | hold |
| `SubwayStale` | `AnswerLeadsNowhereElse` | violated |
| `Tcp` | two lookups over one transporter, replies in pieces, one connection ended by the server: `TypeOK`, `EachReplyOnce`, `SequentialAnswersAreOwn`, `ShortReplyIsNotReturned`, `LostIsNeverHealed`, `LookupEnds` (liveness) | hold |
| `TcpResidue` | `LengthFieldFirst` | violated |
| `Store` | two requests of any of the seven kinds, two names, two keys: `TypeOK`, `KeysAreUnique`, `AloneRequestIsExact`, `FailureLosesNoKey` | hold |
| `StoreCreate` | `CreateKeepsProperties` | violated |
| `Factory` | two queries, each with a call within its call, or a temporary resolver at start-up, beside one request: `FactoryTypeOK`, `SettledInstanceIsShared`, `GivenInstanceIsComplete` | hold |

The violated ones are disagreements between what a comment of the code says and
what the code does:

* `UdpResidue` - a datagram that is rejected and ignored stays counted in
  `totalReceivedSize`; the next query is copied behind that many zero bytes. After
  12 bytes, the size of a header, every later query is rejected.
* `ServiceExpiry` - the TTL of an entry is never stored and every entry has an
  unlimited lifetime.
* `SubwayStale` - a gateway stays in the table when its SSH connection is lost (the
  library also closes idle ones). The address is free again, the next gateway for
  another domain binds it, and the first domain is still answered with it.
* `TcpResidue` - a lookup that fails after a short read leaves the rest of its reply
  in the connection; the next lookup takes two of those bytes for a length field.
* `StoreCreate` - the query for the properties of a resolver lacks a colon and
  returns those of all resolvers; saving a new resolver, which has none, deletes
  them all.

Three of the properties that hold say what the code does not do. `DeafForGood`: a UDP task
that ignores errors and has a header of left over bytes reads no question again, which is
how `UdpResidue` goes on. `ShortReplyIsNotReturned`:
the loop that is to receive the rest of a reply never leads to an answer, because
the buffer was flipped before it. `LostIsNeverHealed`: when the server has ended the
connection, every later lookup fails or gets another's reply until the process restarts.
`SequentialAnswersAreOwn` and `LookupEnds` state the conditions under which the
transporter does work: one lookup at a time, no failure before, replies in one piece.
`AnswersLeadHome` is the like for `SubwayStale`: an entrance leads to the domain asked for
as long as no connection was lost.
`SettledInstanceIsShared` likewise says that no change of a resolver reaches a query
while the process runs.

Others need no run, being visible in one place of the code:

* `stop` of an endpoint looks for the thread in a field `start` never sets, and always
  throws; the status "running" (101) of an endpoint is never assigned, and that it is
  a plain field matters to no caller.
* An unchecked exception of the UDP loop passes every catch clause: the task is over,
  its socket stays open and a later `start` cannot bind (`Escape`).
* The SERVFAIL exception hides the `rcode` field its getter reads, so error responses
  carry RCODE 0 (lemma `ServfailSaysNoError`).
* The maximum size of a cache is stored in a field that nothing reads.
* Two first queries of a shared SSH session may make one session instance each; the
  monitor then no longer keeps their choice of an address apart
  (`SameSessionNoConflict` is about gateways of one instance for that reason).
* The test of a local address that is not a subnet calls itself for ever
  (`DNSSubwayUtils` L393); the sub-resolver named for DNS Subway is set after the pool
  of gateways was made with another (`DNSSubwayResolverImpl` L145); the probing of
  addresses starts at offset 100, so that a small subnet has none to offer.
* Of two concurrent requests on properties either may undo what the other wrote, as
  reading and writing back are two transactions; nothing promises otherwise, and
  `AloneRequestIsExact` is about a request that runs alone.
* Two first queries for a resolver make an instance each, of which the last to register
  stays; each may have been made of another state of the tables. A gateway may register
  one over another the same way, and a gateway that names itself, or names one that names
  it, overflows the stack (`DNSSubwayResolverImpl` L128).
* Two lookups that open the TCP connection at once may connect one channel twice and lose
  the other (`SimpleTCPMessageTransporterImpl` L90): a lookup fails, which nothing in the
  repository rules out.
* `deleteDNSServiceEndpointInstancePropertyInfo` deletes the resolver property with the
  same id (`LoulanDNSLogicalDBService` L1267).

Bounds. UDP: sizes are units, five to a packet and two to a header, so that a
query, a full packet and a datagram shorter than a header differ, two rejected
datagrams reach the header length and three fill the packet; two tasks are what
it takes to have a worker of an old task beside a new one; four packet objects
are as many as can be live (one per task and one per worker), so `NextPacket` is
never short of one. Service: two queries are enough to race in the factory and
to share a cached object, two types of one name tell keys apart; a third query,
a reader beside two creators, is covered by the proofs, which hold for any number;
the clock runs to 1 (2 where expiry is the question). Subway: two ports are what it
takes to stop half-way; the address space is cut after the second candidate (offsets
100 and 101), so that it can be exhausted; two lost connections let a session be lost,
opened again by another thread and lost again; two queries are enough
for every race, and `SubwayStale` has a third for the answer from the table.
TCP: a message is two bytes behind a length field of two, so that a first read can
end inside the field, after it, inside the message or after it; bytes that are no
length field are read as any length up to three, one more than a message; one
connection may be ended. Store: two requests make every
pair of transactions meet; of two names and two keys one can be taken and one free;
`Init` starts from every content of the tables these allow. Factory: one request
changes the tables between any two steps of a query; two queries, each at most a call
within a call deep (`MaxDepth` is 2), race at one depth or across depths, and the second
or an inner call comes when the others have settled; the temporary resolver has a name
the database may know too. `CallerSymmetry` is sound: callers are model
values that only equality tells apart, and the run checks no liveness.
`CHECK_DEADLOCK FALSE` stands in every configuration but those of the endpoint: each
query, lookup or request is served once and then nothing is left to do. The
endpoint never stops, since `stop` and the status setter can always be called.

Fairness. `ThreadsRun` (endpoint) and `FairSpec` (service, subway, TCP) say that a thread that
can take a step without waiting for anything outside the process takes it:
weak fairness per thread, which the JVM's scheduling gives. The kernel's answer
to `bind`, arrival of datagrams, `serveDNSQuery` as seen from the endpoint, a
send that blocks, the upstream server and the subway's sub-resolver get none; connecting
and authenticating an SSH session is bounded by ten seconds each. Database calls are assumed to
return, well or badly. The TCP model adds that the server answers a query it got over a
connection it still serves: without it no lookup needs to end, as reads have no
timeout. The store and the factory state safety only.

## Proofs

TLAPS proves, for every value of the constants that the assumptions allow:

* `UdpEndpoint_proofs`: `TypeCorrect`, `RepliesSound`, `ReaderKeeps`,
  `DeafTaskStaysDeaf` and, when errors stop the task, `StrictReadsQueries`.
* `DnsServiceInstance_proofs`: `TypeCorrect`, `EntriesAreGiven`, `ResolutionSound`,
  `AnswersAreLogged`, `RepeatsAreHits`.
* `SubwayGateways_proofs`: `TypeCorrect`, `ForwardedOverOpen`, `SameSessionApart`,
  `EntranceIsWhole`, `EntranceLeadsHome`, `MonitorsAreLeft`.
* `TcpTransport_proofs`: `TypeCorrect`, `ShortReplies`, `RepliesOnce`, `LostForGood`,
  `SequentialOwn`.
* `ResolverStore_proofs`: `TypeCorrect`, `UniqueKeys`, `FailuresLoseNoKey`, `AloneExact`.
* `ResolverFactory_proofs`: `FactoryTypeCorrect`, `SettledShared`, `GivenComplete`.

The assumptions are those of the modules: sizes and lengths are natural numbers with a
header no longer than a packet, a query is no shorter than a header, a message over TCP
has a byte at least (a DNS message begins with a header of twelve), TTLs and
the cache's maximum lie within the clock's range, a port is configured once
(`PortsAssumption`; a second forwarding of it would fail every gateway), requests, names
and keys are finite sets, `None` and `Initial` are none of the values they stand beside.

The endpoint's invariant has four parts, each of which fails to be inductive
without the types. `ReplyInv` says that packet objects in use are apart (no task
or worker shares one: this is what a fresh `recvPacket` per iteration buys), that
a worker's packet still holds its own datagram, that a datagram is in flight, in
a task, or in a worker and never in two of these, and that a reply exists only
for a worker that is done. `SocketInv` ties a closed socket to a task that ends or to a
worker of that task that failed, and has no worker close one when errors are ignored; it
rests on `ReplyInv`, which keeps the record of a failed worker from being used again. `CountInv` says that the
counter is at most the packet size and, without the flag, 0 whenever the task
receives. `DeafTaskStaysDeaf` is the opposite: a task that begins an iteration with a header
of left over bytes has its datagram behind as many (`Deaf`), cannot read a question, and so
never comes to the reset.

The service's invariant `ServiceInv` adds to the types which threads have a
response object (`ThreadsOK`), what an object says (`ObjectsOK`: the identifier and
key of the query that made it, and an origin that upstream gave for the same
key), and that an entry refers to an object that answers the key it is filed
under (`EntriesOK`). Objects of other threads are only read, which is what
makes the outcome of a settled query stable; the refinement `ResolutionSound`
rests on it: each action maps to one step of `DnsResolution` or to a stutter.

`AnswersAreLogged` adds that a response object is written once (`ObjectsStay`).
`RepeatsAreHits` needs more (`HitInv`): entries never leave a cache and never expire
(`EntriesEndure`), a query makes at most one cache at each of its two uses (`MakersOK`), and,
while only one cache was made, what a query saw in the cache when it arrived is still filed
there (`SeenOK`). The age of the answer plays no part in it, which is the other side of
`ServiceExpiry`.

The subway's invariant `SubwayInv` says where a thread is in the monitor of a session
instance and that nobody connects one whose connection is open; so a forwarded port
belongs to an open connection. `SameSessionApart` adds `KeptFree`: the ports a thread in
the monitor has still to forward on its address belong to no gateway of the same session.
`EntranceIsWhole` rests on `EntranceInv`: the ports of a gateway are forwarded from the first
on, and one that is filed or answered has them all or, its connection lost, none;
connections opened again bring none back. `EntranceLeadsHome` adds `HomeInv`: the table files
a gateway under the name it was made for, a query is given one of its own name, and until a
connection is lost no port is taken from a gateway that is made. For `MonitorsAreLeft` the
property itself is inductive beside `SubwayInv`.

The loop of the TCP transporter is described by `LoopInv`: the limit of the buffer
is what the first read brought, so as soon as one more turn is needed fewer bytes
than the length field asks for are left, for good. `RepliesOnce` needs `OnceInv`: a byte
of a reply is in one place at most (`OnePlace`: one channel, or the buffer or the answer of
one lookup), a channel holds it once (`NoByteTwice`), a query is sent once and over one
channel (`SentOnce`), and as long as its reply is due no byte of that is anywhere. Each step
moves bytes to one lookup at most (`BytesMove`) but the reply of the upstream server, which
brings new ones. `LostForGood` follows with `GoneInv`, a channel upstream has left stays
connected at this end: it is therefore neither opened nor connected again, and the query of
a lookup that begins then is answered by nobody (`Dead`: no byte of its reply is anywhere
and none is due). `SequentialOwn` is proved under the condition that lookups do not
overlap, before and after each step: as long as none has failed, between two lookups
nothing is in any channel, a lookup that waits finds its own frame there or nothing,
and one that takes a frame in pieces never returns (`Clean`, the heart of `SeqInv`).

For the store, `KnownInv` says that an item of a list a request holds, however
old, has an id that was given out, and, when a row with that id is still there, the key
of that row: ids are not used twice and rows do not change their key. From it
`SavingKeepsKeysUnique` follows: an item updates its own row or is inserted, and is refused
when its key is taken. `FullSaveMatches` shows that the size check at the end of a save
cannot fail once all items are saved; so a save that fails has not reached its
deletions, which is `FailuresLoseNoKey` (`FailInv` covers the other handlers). `AloneExact`
needs to know at every place of a request what it and the tables have in common, as long as
nobody else writes (`AloneInv`): its persistence session shows the rows as they are stored, a
list it has loaded consists of the rows asked for, and one it has prepared is that list with
the one change of the request in it. Saving such a list saves every item
(`SavingTheTable`, `WritingOwnRows`), so that the request does what it says or ends without
having written.

The factory's `FactoryInv` says that a call that is to be given a settled instance still
finds it: only an activation making an instance of the name registers one, at whatever
depth, none was when the call began and none begins while the name is in the table
(`Settled`). `Complete` says that an instance is whole, with its parameters and for a
gateway its sub-resolver given, from the moment it may be registered: an activation makes
one instance, asks for a sub-resolver once and begins its `Inner` call only when that was
idle (`ActivationFacts`: an activation is inner to one other at most). The theorems are
about `FactorySpec`, whose steps include all requests to the store, for any number of
callers and any `MaxDepth`.

Only model-checked: the liveness properties `ClosedSocketEndsTask`,
`SettlesOrWaitsUpstream`, `NobodyWaitsForAnothersTarget` and `LookupEnds`, which with ENABLED
are out of the prover's reach. Every other property that holds in a run is a theorem.
`MonitorsAreLeft` is the part of `NobodyWaitsForAnothersTarget` that needs no fairness: who
is waited for does not wait.

## Not modelled, and abstractions to know of

* A response is an identifier, a key, an origin and a TTL; the upstream server is
  taken to repeat the question and the identifier it was asked with. The client
  does not check it.
* Names are compared as the code compares them, as strings; their case is not
  modelled.
* `delete` and `list` of the cache have no caller. `tryToSuspendForDNSServiceEndpointTask`
  cannot be reached, because `stop` throws before it.
* Renaming a user between two queries, which changes the name of the cache.
* `setDNSEndpointServiceTaskStatus` is public: `SetStatus` is any outside caller.
* Subway: sub-resolver mode "forward", which asks a fixed server over the session with
  the same two outcomes; `destroy` of the pool, which has no caller; the memory effects
  of unsynchronized `HashMap.put`. A session whose authentication failed is open until
  the server closes it; forwarding over it fails.
* TCP: `readSize` stops at 0 where the code, adding the -1 of an ended stream turn after
  turn, goes below; the loop goes on either way. Channels are not garbage-collected; a write after the server ended the connection
  may still succeed or fail; a connection that is refused closes its channel, as the JDK does.
  The DoH transporter makes a client for each lookup and shares nothing between them.
* Store: a transaction is one step. A checked exception does not roll one back (Spring's
  default), and what had been written before it is committed. A request keeps one
  persistence session (open-in-view, Spring Boot's default), so that rows it has read keep
  their first values when a query returns them again. That a name without a colon in
  the query means the attribute follows from Hibernate 6.4, the version of the build.
  `KeyIsTaken` compares ids by value where the code has `!=` on two `Long` objects
  (`LoulanDNSDBService` L873, L1080). The two come to the same as long as a request keeps
  its persistence session: the id of an item is handed on by reference from the entity it
  was read from (`toDNSResolverPropertiesInfo`, `toDNSResolverInstanceProperties`), and a
  query for that row returns the same entity. Ids that are equal but distinct objects
  would make the item throw before it is written. One user is modelled. Renaming a resolver always throws
  (`LoulanDNSDBService` L861-890), changing the key of a property is left out, and
  explanations, memos and dates are not kept. The operations on users, service
  instances and endpoints, which follow the same pattern, are not modelled.
* Factory: the type code of a resolver and the name of its sub-resolver are not kept by
  `ResolverStore`, so that an instance whose parameters allow it may be a gateway or not
  and name any sub-resolver, itself included: every run of the code is a run of the model,
  and some runs of the model have another type or name than the rows. What a gateway
  needs to know of its sub-resolver (mode, name, user) is `GatewayKeys`, every other
  required parameter `RequiredKeys`. A gateway whose sub-resolvers lead back to it calls
  itself until the stack overflows; the model has room for `MaxDepth` calls and refuses
  the next, and what is thrown ends the calls one by one as in the code. A pool of gateways
  that construction also makes is private to the instance. Queries over HTTPS make a
  service instance each, UDP endpoints once, so that the callers are the former; the
  temporary variant has one caller, the application that runs an endpoint on its own,
  before any query. `clearDNSResolverInstanceCacheRecord` has none.
* Client UDP transport, resolver and lookup client: one send and one read on a channel
  of its own each call. Service instance factory: it always creates. Launcher: it hands
  services to threads, processes or Spring Cloud Deployer and keeps a descriptor.
  Codec: sequential code over bytes, of which the models keep the two facts they need.
  Lookup command, loggers, security, application classes, dashboard and schema have
  no behaviour of this kind.

## Plan

Done: the endpoint, the service instance with its cache, DNS Subway, the TCP transporter,
the administration of resolvers and their factory, each with its runs and proofs.

Left, in this order:

1. `EndpointService`: the endpoint's workers over the service instance, both as
   they are, against a specification from the client's query to its reply.
2. The endpoint factory, and the administration of endpoints, service instances and
   users over the operators of `ResolverStore`.
3. Codec operators (names, compression pointers, header flags) against a
   reference definition over bounded inputs.
