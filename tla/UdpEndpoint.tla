---------------------------- MODULE UdpEndpoint ----------------------------
(***************************************************************************)
(* The UDP service endpoint (UDPServiceEndpointInstanceImpl and its base   *)
(* class DNSServiceEndpointInstanceImplBase): the endpoint task that owns  *)
(* the socket and reads datagrams, and the worker thread it spawns for     *)
(* each DNS question.  Each call of startDNSServiceEndpoint runs a task of *)
(* its own over the same endpoint object; the tasks and their workers      *)
(* share the task status and, within a task, the socket.                   *)
(*                                                                         *)
(* A datagram is a record: id, the client it comes from, its size, and     *)
(* whether its bytes are a well-formed DNS query.  Sizes are counted in    *)
(* units; only MaxPacket (512 bytes in the code) and HeaderLen (12) matter.*)
(***************************************************************************)
EXTENDS Naturals, FiniteSets

CONSTANTS Clients, Datagrams, Tasks,
          Buffers,        \* identities of DatagramPacket objects
          MaxPacket,      \* MAX_DNS_UDP_PACKET_SIZE
          HeaderLen,      \* size of the DNS header
          IgnoreError,    \* the optional property ...TASK_IGNORE_ERROR
          None

ASSUME SizesAssumption ==
  /\ MaxPacket \in Nat
  /\ HeaderLen \in 1..MaxPacket

ASSUME FlagAssumption == IgnoreError \in BOOLEAN

ASSUME DatagramsAssumption ==
  /\ Datagrams \subseteq
       [id : Nat, from : Clients, size : 0..MaxPacket, query : BOOLEAN]
  /\ \A d \in Datagrams : d.query => d.size >= HeaderLen

\* What a packet object may hold after a receive.
Contents == [dgram : Datagrams, length : 0..MaxPacket]

ASSUME NoneAssumption ==
  None \notin Buffers /\ None \notin Tasks /\ None \notin Contents

VARIABLES
  pc,       \* pc[t]: where the endpoint task t is
  sock,     \* sock[t]: the DatagramSocket of task t
  total,    \* total[t]: totalReceivedSize
  buf,      \* buf[t]: recvPacket, the packet object of the current iteration
  packet,   \* packet[b]: what the packet object b holds
  worker,   \* worker[d]: the thread serving the question read from datagram d
  status,   \* dnsEndpointServiceTaskStatus, one field for all tasks
  net,      \* datagrams in flight or in the kernel's queue
  asked,    \* datagrams sent so far
  replies,  \* responses sent so far
  stopped   \* result of the last stopDNSServiceEndpoint

taskVars == <<pc, total, buf>>
vars == <<pc, sock, total, buf, packet, worker, status, net, asked, replies, stopped>>

Statuses == {"INACTIVE", "ACTIVE", "WAITING_FOR_SUSPEND"}
TaskPcs  == {"new", "bind", "check", "receive", "parse", "close", "mark", "ended"}
WorkerPcs == {"none", "serve", "send", "close", "mark", "done", "failed"}
IdleWorker == [pc |-> "none", task |-> None, buf |-> None]

TypeOK ==
  /\ pc \in [Tasks -> TaskPcs]
  /\ sock \in [Tasks -> {"none", "open", "closed"}]
  /\ total \in [Tasks -> 0..MaxPacket]
  /\ buf \in [Tasks -> Buffers \cup {None}]
  /\ packet \in [Buffers -> Contents \cup {None}]
  /\ worker \in [Datagrams -> [pc : WorkerPcs, task : Tasks \cup {None},
                               buf : Buffers \cup {None}]]
  /\ status \in Statuses
  /\ net \subseteq Datagrams
  /\ asked \subseteq Datagrams
  /\ replies \subseteq [to : Clients, query : Datagrams]
  /\ stopped \in {"never", "refused"}

Init ==
  /\ pc = [t \in Tasks |-> "new"]
  /\ sock = [t \in Tasks |-> "none"]
  /\ total = [t \in Tasks |-> 0]
  /\ buf = [t \in Tasks |-> None]
  /\ packet = [b \in Buffers |-> None]
  /\ worker = [d \in Datagrams |-> IdleWorker]
  /\ status = "INACTIVE"
  /\ net = {}
  /\ asked = {}
  /\ replies = {}
  /\ stopped = "never"

-----------------------------------------------------------------------------
(* The clients and the network: a datagram may be lost and may overtake.   *)

ClientSends(d) ==
  /\ d \notin asked
  /\ asked' = asked \cup {d}
  /\ net' = net \cup {d}
  /\ UNCHANGED <<taskVars, sock, packet, worker, status, replies, stopped>>

NetworkLoses(d) ==
  /\ d \in net
  /\ net' = net \ {d}
  /\ UNCHANGED <<taskVars, sock, packet, worker, status, asked, replies, stopped>>

-----------------------------------------------------------------------------
(* The methods other threads call.                                         *)

\* startDNSServiceEndpoint: a new thread, kept in a local variable only; the
\* field dnsEndpointServiceTaskThread stays null and the status is not set.
Start(t) ==
  /\ pc[t] = "new"
  /\ pc' = [pc EXCEPT ![t] = "bind"]
  /\ UNCHANGED <<sock, total, buf, packet, worker, status, net, asked, replies, stopped>>

\* stopDNSServiceEndpoint: the thread field is null, so the call throws before
\* it reaches tryToSuspendForDNSServiceEndpointTask.
Stop ==
  /\ stopped' = "refused"
  /\ UNCHANGED <<taskVars, sock, packet, worker, status, net, asked, replies>>

\* setDNSEndpointServiceTaskStatus, public and unsynchronized.
SetStatus(s) ==
  /\ status' = s
  /\ UNCHANGED <<taskVars, sock, packet, worker, net, asked, replies, stopped>>

-----------------------------------------------------------------------------
(* The endpoint task: doUDPEndpointServiceTask.                            *)

\* new DatagramSocket(address): fails while another socket holds the port, or
\* for a reason of the system's; the exception ends the task.
Bind(t) ==
  /\ pc[t] = "bind"
  /\ \/ /\ \A u \in Tasks : sock[u] # "open"
        /\ sock' = [sock EXCEPT ![t] = "open"]
        /\ pc' = [pc EXCEPT ![t] = "check"]
     \/ /\ pc' = [pc EXCEPT ![t] = "ended"]
        /\ UNCHANGED sock
  /\ UNCHANGED <<total, buf, packet, worker, status, net, asked, replies, stopped>>

\* Packet objects still referred to, by a task or by a worker not yet over.
LiveBuffers ==
  {buf[u] : u \in Tasks} \cup
  {worker[d].buf : d \in {e \in Datagrams : worker[e].pc \in {"serve", "send"}}}

\* Mutant: the packet object is made once, before the loop.
NewPacketHoisted(t) ==
  IF buf[t] # None THEN buf[t] ELSE CHOOSE b \in Buffers : b \notin LiveBuffers

\* Every iteration makes its own recvPacket: a worker keeps the one it was given.
NewPacket(t) == CHOOSE b \in Buffers : b \notin LiveBuffers

\* The field is neither volatile nor read under a lock: a read may still
\* return the value it had before it was last written.
StatusRead == {status, "INACTIVE"}

\* The top of the loop: leave when suspension was asked for ...
Suspend(t) ==
  /\ pc[t] = "check"
  /\ "WAITING_FOR_SUSPEND" \in StatusRead
  /\ pc' = [pc EXCEPT ![t] = "close"]
  /\ UNCHANGED <<sock, total, buf, packet, worker, status, net, asked, replies, stopped>>

\* ... else make the packet object of this iteration.
NextPacket(t) ==
  /\ pc[t] = "check"
  /\ \E s \in StatusRead : s # "WAITING_FOR_SUSPEND"
  /\ Buffers \ LiveBuffers # {}
  /\ buf' = [buf EXCEPT ![t] = NewPacket(t)]
  /\ packet' = [packet EXCEPT ![NewPacket(t)] = None]
  /\ pc' = [pc EXCEPT ![t] = "receive"]
  /\ UNCHANGED <<sock, total, worker, status, net, asked, replies, stopped>>

\* Mutant: the length is left at the size of the buffer.
CapacityWhole(t) == MaxPacket

\* recvPacket.setLength: room is left for what earlier iterations counted.
Capacity(t) == MaxPacket - total[t]

\* receive cuts a datagram that is longer than the room given.
Received(t, d) == IF d.size <= Capacity(t) THEN d.size ELSE Capacity(t)

\* sock.receive, the two arraycopys and the addition to totalReceivedSize.
Receive(t) ==
  /\ pc[t] = "receive"
  /\ sock[t] = "open"
  /\ \E d \in net :
       /\ net' = net \ {d}
       /\ packet' = [packet EXCEPT ![buf[t]] =
                       [dgram |-> d, length |-> Received(t, d)]]
       /\ total' = [total EXCEPT ![t] = @ + Received(t, d)]
  /\ pc' = [pc EXCEPT ![t] = "parse"]
  /\ UNCHANGED <<sock, buf, worker, status, asked, replies, stopped>>

\* Mutant: the flag is not looked at on the receive path.
AfterErrorNeverStops == "check"

\* What an error in the loop leads to.
AfterError == IF IgnoreError THEN "check" ELSE "close"

\* receive throws at once on a closed socket (a worker may have closed it) ...
ReceiveClosed(t) ==
  /\ pc[t] = "receive"
  /\ sock[t] = "closed"
  /\ pc' = [pc EXCEPT ![t] = AfterError]
  /\ UNCHANGED <<sock, total, buf, packet, worker, status, net, asked, replies, stopped>>

\* Mutant: the counter is reset on this error path.
ReceiveFaultResets(t) ==
  /\ pc[t] = "receive"
  /\ sock[t] = "open"
  /\ total' = [total EXCEPT ![t] = 0]
  /\ pc' = [pc EXCEPT ![t] = AfterError]
  /\ UNCHANGED <<sock, buf, packet, worker, status, net, asked, replies, stopped>>

\* ... and may fail with an I/O error on an open one.
ReceiveFault(t) ==
  /\ pc[t] = "receive"
  /\ sock[t] = "open"
  /\ pc' = [pc EXCEPT ![t] = AfterError]
  /\ UNCHANGED <<sock, total, buf, packet, worker, status, net, asked, replies, stopped>>

\* What parseDNSPacketBytes, isDNSQuestionMessage and the conversion make of
\* the 512 bytes: offset zero bytes, the datagram, zero bytes.  A header of
\* zeros holds no question.  A header cut by the zeros may be anything.
\* "rejected": a DNSServiceCommonException of the parser, or not a question;
\* "escapes": an unchecked exception, or one of the conversion, which no catch
\* clause of the loop covers.
Classify(offset, d) ==
  IF offset >= HeaderLen THEN {"rejected"}
  ELSE IF offset = 0 /\ d.query THEN {"question"}
  ELSE IF offset = 0 THEN {"rejected", "escapes"}
  ELSE {"question", "rejected", "escapes"}

Offset(t) == total[t] - packet[buf[t]].length

\* Mutant: the counter is not reset at the end of a message.
QuestionNoReset(t) ==
  LET d == packet[buf[t]].dgram IN
  /\ pc[t] = "parse"
  /\ "question" \in Classify(Offset(t), d)
  /\ worker' = [worker EXCEPT ![d] = [pc |-> "serve", task |-> t, buf |-> buf[t]]]
  /\ pc' = [pc EXCEPT ![t] = "check"]
  /\ UNCHANGED <<sock, total, buf, packet, status, net, asked, replies, stopped>>

Question(t) ==
  LET d == packet[buf[t]].dgram IN
  /\ pc[t] = "parse"
  /\ "question" \in Classify(Offset(t), d)
  /\ total' = [total EXCEPT ![t] = 0]
  /\ worker' = [worker EXCEPT ![d] = [pc |-> "serve", task |-> t, buf |-> buf[t]]]
  /\ pc' = [pc EXCEPT ![t] = "check"]
  /\ UNCHANGED <<sock, buf, packet, status, net, asked, replies, stopped>>

Reject(t) ==
  /\ pc[t] = "parse"
  /\ "rejected" \in Classify(Offset(t), packet[buf[t]].dgram)
  /\ pc' = [pc EXCEPT ![t] = AfterError]
  /\ UNCHANGED <<sock, total, buf, packet, worker, status, net, asked, replies, stopped>>

\* run() catches DNSServiceCommonException at most: the thread is over, the
\* socket stays open and the status stays what it was.
Escape(t) ==
  /\ pc[t] = "parse"
  /\ "escapes" \in Classify(Offset(t), packet[buf[t]].dgram)
  /\ pc' = [pc EXCEPT ![t] = "ended"]
  /\ UNCHANGED <<sock, total, buf, packet, worker, status, net, asked, replies, stopped>>

\* disconnect and close, on the suspend path and on every error path ...
CloseSocket(t) ==
  /\ pc[t] = "close"
  /\ sock' = [sock EXCEPT ![t] = "closed"]
  /\ pc' = [pc EXCEPT ![t] = "mark"]
  /\ UNCHANGED <<total, buf, packet, worker, status, net, asked, replies, stopped>>

\* ... then the status, then return or throw.
MarkInactive(t) ==
  /\ pc[t] = "mark"
  /\ status' = "INACTIVE"
  /\ pc' = [pc EXCEPT ![t] = "ended"]
  /\ UNCHANGED <<sock, total, buf, packet, worker, net, asked, replies, stopped>>

-----------------------------------------------------------------------------
(* The worker thread: UDPServiceThreadTask.run.                            *)

SetWorker(d, to) == worker' = [worker EXCEPT ![d].pc = to]

\* serveDNSQuery returns a response, or an exception from which an error
\* response is made ("send"); any other exception only ends the thread.
Serve(d) ==
  /\ worker[d].pc = "serve"
  /\ \E to \in {"send", "failed"} : SetWorker(d, to)
  /\ UNCHANGED <<taskVars, sock, packet, status, net, asked, replies, stopped>>

\* The response goes to the address and port the packet object holds now.
Send(d) ==
  /\ worker[d].pc = "send"
  /\ sock[worker[d].task] = "open"
  /\ packet[worker[d].buf] # None
  /\ replies' = replies \cup
       {[to |-> packet[worker[d].buf].dgram.from, query |-> d]}
  /\ SetWorker(d, "done")
  /\ UNCHANGED <<taskVars, sock, packet, status, net, asked, stopped>>

\* Mutant: a failed send closes the socket whatever the flag says.
SendErrorNoFlag(d) ==
  /\ worker[d].pc = "send"
  /\ SetWorker(d, "close")
  /\ UNCHANGED <<taskVars, sock, packet, status, net, asked, replies, stopped>>

\* send throws on a closed socket, or fails with an I/O error.
SendError(d) ==
  /\ worker[d].pc = "send"
  /\ SetWorker(d, IF IgnoreError THEN "done" ELSE "close")
  /\ UNCHANGED <<taskVars, sock, packet, status, net, asked, replies, stopped>>

\* Mutant: the socket of whichever task holds the port now.
SocketOfEndpoint(d) ==
  IF \E t \in Tasks : sock[t] = "open"
    THEN CHOOSE t \in Tasks : sock[t] = "open" ELSE worker[d].task

\* The socket a worker closes is the one it was constructed with.
SocketOf(d) == worker[d].task

WorkerClose(d) ==
  /\ worker[d].pc = "close"
  /\ sock' = [sock EXCEPT ![SocketOf(d)] = "closed"]
  /\ SetWorker(d, "mark")
  /\ UNCHANGED <<taskVars, packet, status, net, asked, replies, stopped>>

WorkerMark(d) ==
  /\ worker[d].pc = "mark"
  /\ status' = "INACTIVE"
  /\ SetWorker(d, "failed")
  /\ UNCHANGED <<taskVars, sock, packet, net, asked, replies, stopped>>

-----------------------------------------------------------------------------
TaskStep(t) ==
  \/ Bind(t) \/ Suspend(t) \/ NextPacket(t)
  \/ Receive(t) \/ ReceiveClosed(t) \/ ReceiveFault(t)
  \/ Question(t) \/ Reject(t) \/ Escape(t)
  \/ CloseSocket(t) \/ MarkInactive(t)

WorkerStep(d) ==
  Serve(d) \/ Send(d) \/ SendError(d) \/ WorkerClose(d) \/ WorkerMark(d)

Next ==
  \/ \E t \in Tasks : Start(t) \/ TaskStep(t)
  \/ \E d \in Datagrams : WorkerStep(d) \/ ClientSends(d) \/ NetworkLoses(d)
  \/ Stop
  \/ \E s \in Statuses : SetStatus(s)

Spec == Init /\ [][Next]_vars

\* Threads that can run without waiting for a datagram do run.  Nothing is
\* assumed of the clients, of the network, of the service instance, which may
\* never answer, or of a send that blocks.
ThreadsRun ==
  /\ \A t \in Tasks :
       WF_vars(Suspend(t) \/ NextPacket(t) \/ ReceiveClosed(t) \/ Question(t)
               \/ Reject(t) \/ CloseSocket(t) \/ MarkInactive(t))
  /\ \A d \in Datagrams : WF_vars(WorkerClose(d) \/ WorkerMark(d))

FairSpec == Spec /\ ThreadsRun

-----------------------------------------------------------------------------
(* Properties.                                                             *)

\* A well-formed query that the task has received is read as the question it
\* is, whatever was received before it: the accumulation of L322-329 and the
\* reset of L460 leave no residue in front of it.  Holds when errors stop the
\* task; with IgnoreError an ignored datagram stays counted.
ReceivedQueryIsRead ==
  \A t \in Tasks :
    pc[t] = "parse" /\ packet[buf[t]].dgram.query
      => Classify(Offset(t), packet[buf[t]].dgram) = {"question"}

\* A task that has as many bytes left over as a header rejects whatever it
\* receives from then on, for good: the reset needs a question, and a question
\* cannot be read behind so many zeros.
DeafForGood ==
  \A t \in Tasks :
    [](pc[t] = "check" /\ total[t] >= HeaderLen =>
       [](pc[t] = "parse" => Classify(Offset(t), packet[buf[t]].dgram) = {"rejected"}))

\* A socket is closed under a task that goes on reading from it by a failed
\* worker of that same task, and with IgnoreError by nobody: what is left of an
\* earlier task does no harm to a later one, and no failure of a worker makes
\* the loop spin on a dead socket.
ReaderKeepsSocket ==
  \A t \in Tasks : sock[t] = "closed" /\ pc[t] \notin {"mark", "ended"} =>
    /\ ~IgnoreError
    /\ \E d \in Datagrams : worker[d].task = t /\ worker[d].pc \in {"mark", "failed"}

\* Replies are only sent for datagrams that were received, to the client that
\* sent the datagram, once: RequestReply with the datagrams as its requests.
RR == INSTANCE RequestReply WITH Requests <- Datagrams
RepliesAreSound == RR!Spec

\* However its socket came to be closed, by itself or by a worker whose send
\* failed while it was waiting in receive, the task ends.
ClosedSocketEndsTask ==
  \A t \in Tasks : sock[t] = "closed" ~> pc[t] = "ended"
=============================================================================
