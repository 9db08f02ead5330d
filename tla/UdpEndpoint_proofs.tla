------------------------- MODULE UdpEndpoint_proofs -------------------------
(***************************************************************************)
(* Theorems about the UDP endpoint, for any number of clients, datagrams,  *)
(* tasks and packet objects and for both settings of IgnoreError.          *)
(***************************************************************************)
EXTENDS UdpEndpoint, TLAPS

USE SizesAssumption, FlagAssumption, DatagramsAssumption, NoneAssumption

-----------------------------------------------------------------------------
(* Operators of the model.                                                 *)

\* NewPacket picks an object nobody refers to, when there is one.
LEMMA NewPacketIsFresh ==
  ASSUME NEW t \in Tasks, Buffers \ LiveBuffers # {}
  PROVE  NewPacket(t) \in Buffers /\ NewPacket(t) \notin LiveBuffers
BY DEF NewPacket

\* A receive never overruns the 512 bytes, whatever was counted before: the
\* arraycopy of the loop stays in bounds.
LEMMA ReceivedFits ==
  ASSUME TypeOK, NEW t \in Tasks, NEW d \in Datagrams
  PROVE  /\ Received(t, d) \in 0..MaxPacket
         /\ total[t] + Received(t, d) \in 0..MaxPacket
<1>1. d.size \in 0..MaxPacket
  OBVIOUS
<1>2. total[t] \in 0..MaxPacket
  BY DEF TypeOK
<1> QED
  BY <1>1, <1>2 DEF Received, Capacity

-----------------------------------------------------------------------------
(* Type correctness.  TypeOK alone is not inductive: Send reads the packet  *)
(* object of a worker, which must be one.                                  *)

\* A task past the top of its loop, and a worker that is not over, refer to
\* packet objects.
RefsOK ==
  /\ \A t \in Tasks : pc[t] \in {"receive", "parse"} => buf[t] \in Buffers
  /\ \A d \in Datagrams :
       worker[d].pc \in {"serve", "send"} => worker[d].buf \in Buffers

TypeInv == TypeOK /\ RefsOK

LEMMA TypeInit == Init => TypeInv
BY DEF Init, TypeInv, TypeOK, RefsOK, IdleWorker, TaskPcs, WorkerPcs, Statuses

\* A worker that only changes where it is stays of its type.
LEMMA WorkerMoves ==
  ASSUME TypeInv, NEW d \in Datagrams, NEW to \in WorkerPcs, SetWorker(d, to),
         to = "serve" \/ to = "send" => worker[d].pc \in {"serve", "send"}
  PROVE  /\ worker' \in [Datagrams -> [pc : WorkerPcs, task : Tasks \cup {None},
                                       buf : Buffers \cup {None}]]
         /\ \A e \in Datagrams :
              worker'[e].pc \in {"serve", "send"} => worker'[e].buf \in Buffers
<1>1. worker \in [Datagrams -> [pc : WorkerPcs, task : Tasks \cup {None},
                                buf : Buffers \cup {None}]]
  BY DEF TypeInv, TypeOK
<1>2. \A e \in Datagrams :
        worker[e].pc \in {"serve", "send"} => worker[e].buf \in Buffers
  BY DEF TypeInv, RefsOK
<1>3. worker' = [worker EXCEPT ![d].pc = to]
  BY DEF SetWorker
<1>4. [worker[d] EXCEPT !.pc = to] \in
        [pc : WorkerPcs, task : Tasks \cup {None}, buf : Buffers \cup {None}]
  BY <1>1
<1>5. \A e \in Datagrams : worker'[e].buf = worker[e].buf
  BY <1>1, <1>3
<1>6. \A e \in Datagrams : e # d => worker'[e].pc = worker[e].pc
  BY <1>1, <1>3
<1>7. worker'[d].pc = to
  BY <1>1, <1>3
<1>8. worker' \in [Datagrams -> [pc : WorkerPcs, task : Tasks \cup {None},
                                 buf : Buffers \cup {None}]]
  BY <1>1, <1>3, <1>4
<1> QED
  BY <1>2, <1>5, <1>6, <1>7, <1>8

LEMMA TypeNext == TypeInv /\ [Next]_vars => TypeInv'
<1> SUFFICES ASSUME TypeInv, [Next]_vars PROVE TypeInv'
  OBVIOUS
<1> USE DEF TypeInv, TypeOK, RefsOK, TaskPcs, WorkerPcs, Statuses
<1>1. ASSUME NEW t \in Tasks, Start(t) PROVE TypeInv'
  BY <1>1 DEF Start
<1>2. ASSUME NEW t \in Tasks, Bind(t) PROVE TypeInv'
  BY <1>2 DEF Bind
<1>3. ASSUME NEW t \in Tasks, Suspend(t) \/ NextPacket(t) PROVE TypeInv'
  <2>1. CASE Suspend(t)
    BY <2>1 DEF Suspend
  <2>2. CASE NextPacket(t)
    <3>1. NewPacket(t) \in Buffers
      BY <2>2, NewPacketIsFresh DEF NextPacket
    <3> HIDE DEF NewPacket
    <3> QED
      BY <2>2, <3>1 DEF NextPacket
  <2> QED
    BY <1>3, <2>1, <2>2
<1>4. ASSUME NEW t \in Tasks, Receive(t) PROVE TypeInv'
  <2> PICK d \in net :
        /\ net' = net \ {d}
        /\ packet' = [packet EXCEPT ![buf[t]] =
                        [dgram |-> d, length |-> Received(t, d)]]
        /\ total' = [total EXCEPT ![t] = @ + Received(t, d)]
    BY <1>4 DEF Receive
  <2>1. Received(t, d) \in 0..MaxPacket /\ total[t] + Received(t, d) \in 0..MaxPacket
    BY ReceivedFits
  <2>2. [dgram |-> d, length |-> Received(t, d)] \in Contents
    BY <2>1 DEF Contents
  <2> QED
    BY <1>4, <2>1, <2>2 DEF Receive
<1>5. ASSUME NEW t \in Tasks, ReceiveClosed(t) \/ ReceiveFault(t) \/ Reject(t)
      PROVE TypeInv'
  BY <1>5 DEF ReceiveClosed, ReceiveFault, Reject, AfterError
<1>6. ASSUME NEW t \in Tasks, Question(t) PROVE TypeInv'
  <2> DEFINE d == packet[buf[t]].dgram
             w == [pc |-> "serve", task |-> t, buf |-> buf[t]]
  <2>1. w \in [pc : WorkerPcs, task : Tasks \cup {None}, buf : Buffers \cup {None}]
    OBVIOUS
  <2>2. worker' = [worker EXCEPT ![d] = w] /\ buf[t] \in Buffers /\ buf' = buf
    BY <1>6 DEF Question
  <2> HIDE DEF d
  <2>3. worker' \in [Datagrams -> [pc : WorkerPcs, task : Tasks \cup {None},
                                   buf : Buffers \cup {None}]]
    BY <2>1, <2>2
  <2>4. \A e \in Datagrams :
          worker'[e].pc \in {"serve", "send"} => worker'[e].buf \in Buffers
    BY <2>2
  <2> QED
    BY <1>6, <2>3, <2>4 DEF Question
<1>7. ASSUME NEW t \in Tasks, Escape(t) \/ CloseSocket(t) \/ MarkInactive(t)
      PROVE TypeInv'
  BY <1>7 DEF Escape, CloseSocket, MarkInactive
<1>8. ASSUME NEW d \in Datagrams, Serve(d) \/ SendError(d) \/ WorkerMark(d)
      PROVE TypeInv'
  <2>1. CASE Serve(d)
    BY <2>1, WorkerMoves DEF Serve, taskVars
  <2>2. CASE SendError(d)
    BY <2>2, WorkerMoves DEF SendError, taskVars
  <2>3. CASE WorkerMark(d)
    BY <2>3, WorkerMoves DEF WorkerMark, taskVars
  <2> QED
    BY <1>8, <2>1, <2>2, <2>3
<1>9. ASSUME NEW d \in Datagrams, WorkerClose(d) PROVE TypeInv'
  BY <1>9, WorkerMoves DEF WorkerClose, SocketOf, taskVars
<1>10. ASSUME NEW d \in Datagrams, Send(d) PROVE TypeInv'
  <2> DEFINE y == [to |-> packet[worker[d].buf].dgram.from, query |-> d]
  <2>1. packet[worker[d].buf] \in Contents
    BY <1>10 DEF Send
  <2>2. packet[worker[d].buf].dgram.from \in Clients
    BY <2>1 DEF Contents
  <2>3. replies' \subseteq [to : Clients, query : Datagrams]
    BY <1>10, <2>2 DEF Send
  <2> QED
    BY <1>10, <2>3, WorkerMoves DEF Send, taskVars
<1>11. ASSUME NEW d \in Datagrams, ClientSends(d) \/ NetworkLoses(d) PROVE TypeInv'
  BY <1>11 DEF ClientSends, NetworkLoses, taskVars
<1>12. CASE Stop
  BY <1>12 DEF Stop, taskVars
<1>13. ASSUME NEW s \in Statuses, SetStatus(s) PROVE TypeInv'
  BY <1>13 DEF SetStatus, taskVars
<1>14. CASE UNCHANGED vars
  BY <1>14 DEF vars
<1> QED
  BY <1>1, <1>2, <1>3, <1>4, <1>5, <1>6, <1>7, <1>8, <1>9, <1>10, <1>11, <1>12,
     <1>13, <1>14 DEF Next, TaskStep, WorkerStep

\* Every state of the endpoint is of the declared types, for any constants: in
\* particular the counter of received bytes never leaves 0..MaxPacket.
THEOREM TypeCorrect == Spec => []TypeOK
<1>1. TypeInv => TypeOK
  BY DEF TypeInv
<1> QED
  BY <1>1, TypeInit, TypeNext, PTL DEF Spec

-----------------------------------------------------------------------------
(* The endpoint implements RequestReply.  Two things are needed: the packet *)
(* object a worker replies from still holds the datagram its question was   *)
(* read from, for which no other thread may receive into it, and a datagram *)
(* is received, parsed and answered by one thread.                          *)

Reading(t) == pc[t] \in {"receive", "parse"}
Active(d) == worker[d].pc \in {"serve", "send"}

\* No two threads use one packet object.
BuffersApart ==
  /\ \A t, u \in Tasks : t # u /\ buf[t] # None => buf[t] # buf[u]
  /\ \A t \in Tasks, d \in Datagrams :
       Active(d) /\ Reading(t) => worker[d].buf # buf[t]

\* What the packet objects hold while somebody needs it.
PacketsHeld ==
  /\ \A t \in Tasks : pc[t] = "parse" => packet[buf[t]] \in Contents
  /\ \A d \in Datagrams : Active(d) =>
       packet[worker[d].buf] \in Contents /\ packet[worker[d].buf].dgram = d

\* A datagram is in the network, or with one task, or with its worker.
DatagramOnce ==
  /\ net \subseteq asked
  /\ \A d \in Datagrams : worker[d].pc # "none" => d \in asked \ net
  /\ \A t \in Tasks : pc[t] = "parse" =>
       /\ packet[buf[t]].dgram \in asked \ net
       /\ worker[packet[buf[t]].dgram].pc = "none"
  /\ \A t, u \in Tasks : t # u /\ pc[t] = "parse" /\ pc[u] = "parse" =>
       packet[buf[t]].dgram # packet[buf[u]].dgram

\* Who has sent a reply has nothing left to do.
RepliesOnce == \A y \in replies : worker[y.query].pc = "done"

ReplyInv == TypeInv /\ BuffersApart /\ PacketsHeld /\ DatagramOnce /\ RepliesOnce

LEMMA ReplyInit == Init => ReplyInv
<1>1. Init => TypeInv
  BY TypeInit
<1> QED
  BY <1>1 DEF Init, ReplyInv, BuffersApart, PacketsHeld, DatagramOnce, RepliesOnce,
              Reading, Active, IdleWorker

\* The actions that move no datagram and hand no packet object over.
LEMMA ReplyKept ==
  ASSUME ReplyInv, TypeInv',
         UNCHANGED <<buf, packet, net, asked, replies>>,
         \A t \in Tasks : pc'[t] = "parse" => pc[t] = "parse",
         \A t \in Tasks : pc'[t] = "receive" => pc[t] = "receive",
         \A d \in Datagrams :
           /\ worker'[d].buf = worker[d].buf
           /\ worker[d].pc = "none" <=> worker'[d].pc = "none"
           /\ worker'[d].pc \in {"serve", "send"} => worker[d].pc \in {"serve", "send"}
           /\ worker[d].pc = "done" => worker'[d].pc = "done"
  PROVE  ReplyInv'
<1> USE DEF ReplyInv, Reading, Active
<1>1. BuffersApart'
  BY DEF BuffersApart
<1>2. PacketsHeld'
  BY DEF PacketsHeld
<1>3. DatagramOnce'
  <2>1. \A t \in Tasks : pc[t] = "parse" => packet[buf[t]].dgram \in Datagrams
    BY DEF PacketsHeld, Contents
  <2> QED
    BY <2>1 DEF DatagramOnce
<1>4. RepliesOnce'
  BY DEF RepliesOnce, TypeInv, TypeOK
<1> QED
  BY <1>1, <1>2, <1>3, <1>4

\* What SetWorker does, field by field.
LEMMA SetWorkerFields ==
  ASSUME TypeOK, NEW d \in Datagrams, NEW to \in WorkerPcs, SetWorker(d, to)
  PROVE  /\ worker'[d].pc = to
         /\ \A e \in Datagrams : worker'[e].buf = worker[e].buf
         /\ \A e \in Datagrams : worker'[e].task = worker[e].task
         /\ \A e \in Datagrams : e # d => worker'[e].pc = worker[e].pc
BY DEF TypeOK, SetWorker

LEMMA ReplyNext == ReplyInv /\ [Next]_vars => ReplyInv'
<1> SUFFICES ASSUME ReplyInv, [Next]_vars PROVE ReplyInv'
  OBVIOUS
<1>t. TypeInv /\ TypeInv' /\ TypeOK
  BY TypeNext DEF ReplyInv, TypeInv
<1>a. /\ pc \in [Tasks -> TaskPcs]
      /\ \A d \in Datagrams : worker[d].pc \in WorkerPcs
  BY <1>t DEF TypeOK
<1>1. ASSUME NEW t \in Tasks,
             \/ Start(t) \/ Bind(t) \/ ReceiveClosed(t) \/ ReceiveFault(t)
             \/ Reject(t) \/ Escape(t) \/ CloseSocket(t) \/ MarkInactive(t)
      PROVE ReplyInv'
  BY <1>1, <1>t, <1>a, ReplyKept
     DEF Start, Bind, ReceiveClosed, ReceiveFault, Reject, Escape, CloseSocket,
         MarkInactive, AfterError
<1>2. ASSUME NEW d \in Datagrams, Serve(d) PROVE ReplyInv'
  <2> PICK to \in {"send", "failed"} : SetWorker(d, to)
    BY <1>2 DEF Serve
  <2>1. worker[d].pc = "serve" /\ to \in WorkerPcs
    BY <1>2 DEF Serve, WorkerPcs
  <2> QED
    BY <1>2, <1>t, <2>1, SetWorkerFields, ReplyKept DEF Serve, taskVars
<1>3. ASSUME NEW d \in Datagrams, SendError(d) PROVE ReplyInv'
  BY <1>3, <1>t, SetWorkerFields, ReplyKept DEF SendError, WorkerPcs, taskVars
<1>4. ASSUME NEW d \in Datagrams, WorkerClose(d) PROVE ReplyInv'
  BY <1>4, <1>t, SetWorkerFields, ReplyKept DEF WorkerClose, WorkerPcs, taskVars
<1>5. ASSUME NEW d \in Datagrams, WorkerMark(d) PROVE ReplyInv'
  BY <1>5, <1>t, SetWorkerFields, ReplyKept DEF WorkerMark, WorkerPcs, taskVars
<1>6. CASE Stop
  BY <1>6, <1>t, ReplyKept DEF Stop, taskVars
<1>7. ASSUME NEW s \in Statuses, SetStatus(s) PROVE ReplyInv'
  BY <1>7, <1>t, ReplyKept DEF SetStatus, taskVars
<1>8. CASE UNCHANGED vars
  BY <1>8, <1>t, ReplyKept DEF vars
<1>9. ASSUME NEW t \in Tasks, Suspend(t) \/ NextPacket(t) PROVE ReplyInv'
  <2>1. CASE Suspend(t)
    BY <2>1, <1>t, <1>a, ReplyKept DEF Suspend
  <2>2. CASE NextPacket(t)
    <3> DEFINE b == NewPacket(t)
    <3>1. /\ b \in Buffers /\ b \notin LiveBuffers
          /\ buf' = [buf EXCEPT ![t] = b]
          /\ packet' = [packet EXCEPT ![b] = None]
          /\ pc' = [pc EXCEPT ![t] = "receive"]
          /\ UNCHANGED <<total, worker, net, asked, replies>>
      BY <2>2, NewPacketIsFresh DEF NextPacket
    <3> HIDE DEF b
    <3>2. /\ \A u \in Tasks : buf[u] # b
          /\ \A d \in Datagrams : Active(d) => worker[d].buf # b
      BY <3>1 DEF LiveBuffers, Active
    <3>3. /\ \A u \in Tasks : u # t => buf'[u] = buf[u] /\ pc'[u] = pc[u]
          /\ buf'[t] = b /\ pc'[t] = "receive"
          /\ \A c \in Buffers : c # b => packet'[c] = packet[c]
      BY <3>1, <1>t DEF TypeOK
    <3>4. BuffersApart'
      BY <3>1, <3>2, <3>3 DEF BuffersApart, ReplyInv, Reading, Active
    <3>5. \A u \in Tasks : pc'[u] = "parse" =>
            u # t /\ pc[u] = "parse" /\ packet'[buf'[u]] = packet[buf[u]]
      BY <3>2, <3>3, <1>t DEF TypeInv, RefsOK
    <3>6. \A d \in Datagrams : Active(d) =>
            packet'[worker[d].buf] = packet[worker[d].buf]
      BY <3>2, <3>3, <1>t DEF TypeInv, RefsOK, Active
    <3>7. PacketsHeld'
      BY <3>1, <3>5, <3>6 DEF PacketsHeld, ReplyInv, Active
    <3>8. DatagramOnce'
      BY <3>1, <3>5 DEF DatagramOnce, ReplyInv
    <3>9. RepliesOnce'
      BY <3>1 DEF RepliesOnce, ReplyInv
    <3> QED
      BY <1>t, <3>4, <3>7, <3>8, <3>9 DEF ReplyInv
  <2> QED
    BY <1>9, <2>1, <2>2
<1>10. ASSUME NEW t \in Tasks, Receive(t) PROVE ReplyInv'
  <2> PICK d \in net :
        /\ net' = net \ {d}
        /\ packet' = [packet EXCEPT ![buf[t]] =
                        [dgram |-> d, length |-> Received(t, d)]]
    BY <1>10 DEF Receive
  <2>1. /\ pc[t] = "receive" /\ pc' = [pc EXCEPT ![t] = "parse"]
        /\ UNCHANGED <<buf, worker, asked, replies>>
        /\ buf[t] \in Buffers /\ buf[t] # None /\ d \in Datagrams
    BY <1>10, <1>t DEF Receive, TypeInv, RefsOK, TypeOK
  <2>2. [dgram |-> d, length |-> Received(t, d)] \in Contents
    BY <1>t, <2>1, ReceivedFits DEF Contents
  <2>3. /\ packet'[buf[t]] \in Contents /\ packet'[buf[t]].dgram = d
        /\ \A c \in Buffers : c # buf[t] => packet'[c] = packet[c]
        /\ pc'[t] = "parse"
        /\ \A u \in Tasks : u # t => pc'[u] = pc[u]
    BY <1>t, <2>1, <2>2 DEF TypeOK
  <2>4. BuffersApart'
    BY <2>1, <2>3 DEF BuffersApart, ReplyInv, Reading, Active
  <2>5. \A u \in Tasks : u # t /\ pc'[u] = "parse" =>
          pc[u] = "parse" /\ packet'[buf[u]] = packet[buf[u]]
    BY <1>t, <2>1, <2>3 DEF BuffersApart, ReplyInv, TypeInv, RefsOK
  <2>6. \A e \in Datagrams : Active(e) =>
          packet'[worker[e].buf] = packet[worker[e].buf]
    BY <1>t, <2>1, <2>3
       DEF BuffersApart, ReplyInv, TypeInv, RefsOK, Active, Reading
  <2>7. PacketsHeld'
    BY <2>1, <2>3, <2>5, <2>6 DEF PacketsHeld, ReplyInv, Active
  <2>8. d \in asked /\ worker[d].pc = "none"
    BY <2>1 DEF DatagramOnce, ReplyInv
  <2>9. DatagramOnce'
    BY <2>1, <2>3, <2>5, <2>8 DEF DatagramOnce, ReplyInv
  <2>10. RepliesOnce'
    BY <2>1 DEF RepliesOnce, ReplyInv
  <2> QED
    BY <1>t, <2>4, <2>7, <2>9, <2>10 DEF ReplyInv
<1>11. ASSUME NEW t \in Tasks, Question(t) PROVE ReplyInv'
  <2> DEFINE d == packet[buf[t]].dgram
  <2>1. /\ pc[t] = "parse" /\ pc' = [pc EXCEPT ![t] = "check"]
        /\ worker' = [worker EXCEPT ![d] =
                        [pc |-> "serve", task |-> t, buf |-> buf[t]]]
        /\ UNCHANGED <<buf, packet, net, asked, replies>>
        /\ packet[buf[t]] \in Contents /\ d \in Datagrams
        /\ buf[t] \in Buffers /\ buf[t] # None
    BY <1>11, <1>t DEF Question, TypeInv, RefsOK, ReplyInv, PacketsHeld, Contents
  <2>2. worker[d].pc = "none" /\ d \in asked \ net
    BY <2>1 DEF ReplyInv, DatagramOnce
  <2>3. \A u \in Tasks : pc'[u] \in {"receive", "parse"} =>
          u # t /\ pc[u] = pc'[u] /\ buf[u] # buf[t]
    BY <1>t, <2>1 DEF TypeOK, ReplyInv, BuffersApart
  <2>4. \A u \in Tasks : pc'[u] = "parse" => packet[buf[u]].dgram # d
    BY <2>1, <2>3 DEF ReplyInv, DatagramOnce
  <2>4a. packet[buf[t]].dgram = d
    OBVIOUS
  <2> HIDE DEF d
  <2>5. /\ worker'[d].pc = "serve" /\ worker'[d].buf = buf[t]
        /\ \A e \in Datagrams : e # d => worker'[e] = worker[e]
    BY <1>t, <2>1 DEF TypeOK
  <2>6. BuffersApart'
    BY <2>1, <2>3, <2>5 DEF BuffersApart, ReplyInv, Reading, Active
  <2>7. PacketsHeld'
    BY <2>1, <2>3, <2>4a, <2>5 DEF PacketsHeld, ReplyInv, Active
  <2>8. \A u \in Tasks : pc'[u] = "parse" => packet[buf[u]].dgram \in Datagrams
    BY <2>3 DEF PacketsHeld, ReplyInv, Contents
  <2>9. DatagramOnce'
    BY <2>1, <2>2, <2>3, <2>4, <2>5, <2>8 DEF DatagramOnce, ReplyInv
  <2>10. RepliesOnce'
    BY <1>t, <2>1, <2>2, <2>5 DEF RepliesOnce, ReplyInv, TypeOK
  <2> QED
    BY <1>t, <2>6, <2>7, <2>9, <2>10 DEF ReplyInv
<1>12. ASSUME NEW d \in Datagrams, Send(d) PROVE ReplyInv'
  <2>1. /\ worker[d].pc = "send" /\ SetWorker(d, "done") /\ "done" \in WorkerPcs
        /\ UNCHANGED <<pc, buf, packet, net, asked>>
        /\ replies' = replies \cup
             {[to |-> packet[worker[d].buf].dgram.from, query |-> d]}
    BY <1>12 DEF Send, taskVars, WorkerPcs
  <2>2. /\ worker'[d].pc = "done"
        /\ \A e \in Datagrams : worker'[e].buf = worker[e].buf
        /\ \A e \in Datagrams : e # d => worker'[e].pc = worker[e].pc
    BY <1>t, <2>1, SetWorkerFields
  <2>3. \A t \in Tasks : pc[t] = "parse" => packet[buf[t]].dgram \in Datagrams
    BY DEF PacketsHeld, ReplyInv, Contents
  <2>4. BuffersApart' /\ PacketsHeld'
    BY <2>1, <2>2 DEF BuffersApart, PacketsHeld, ReplyInv, Reading, Active
  <2>5. DatagramOnce'
    BY <2>1, <2>2, <2>3 DEF DatagramOnce, ReplyInv
  <2>6. RepliesOnce'
    BY <1>t, <2>1, <2>2 DEF RepliesOnce, ReplyInv, TypeOK
  <2> QED
    BY <1>t, <2>4, <2>5, <2>6 DEF ReplyInv
<1>13. ASSUME NEW d \in Datagrams, ClientSends(d) \/ NetworkLoses(d) PROVE ReplyInv'
  <2>1. /\ UNCHANGED <<pc, buf, packet, worker, replies>>
        /\ asked \subseteq asked' /\ net' \subseteq asked'
        /\ \A e \in asked \ net : e \in asked' \ net'
    BY <1>13 DEF ClientSends, NetworkLoses, taskVars, ReplyInv, DatagramOnce
  <2>2. BuffersApart' /\ PacketsHeld' /\ RepliesOnce'
    BY <2>1 DEF BuffersApart, PacketsHeld, RepliesOnce, ReplyInv, Reading, Active
  <2>3. DatagramOnce'
    BY <2>1 DEF DatagramOnce, ReplyInv
  <2> QED
    BY <1>t, <2>2, <2>3 DEF ReplyInv
<1> QED
  BY <1>1, <1>2, <1>3, <1>4, <1>5, <1>6, <1>7, <1>8, <1>9, <1>10, <1>11, <1>12,
     <1>13 DEF Next, TaskStep, WorkerStep

LEMMA ReplyInvariant == Spec => []ReplyInv
BY ReplyInit, ReplyNext, PTL DEF Spec

\* A step of the endpoint is a step of RequestReply, or leaves it alone.
LEMMA ReplyStep == ReplyInv /\ [Next]_vars => [RR!Next]_(RR!vars)
<1> SUFFICES ASSUME ReplyInv, [Next]_vars PROVE RR!Next \/ UNCHANGED <<asked, replies>>
  BY DEF RR!vars
<1>1. ASSUME NEW d \in Datagrams, Send(d) PROVE RR!Reply(d)
  <2>1. packet[worker[d].buf].dgram = d /\ worker[d].pc = "send"
    BY <1>1 DEF Send, ReplyInv, PacketsHeld, Active
  <2>2. d \in asked
    BY <2>1 DEF ReplyInv, DatagramOnce
  <2>3. \A y \in replies : y.query # d
    BY <2>1 DEF ReplyInv, RepliesOnce
  <2> QED
    BY <1>1, <2>1, <2>2, <2>3 DEF Send, RR!Reply
<1>2. ASSUME NEW d \in Datagrams, ClientSends(d) PROVE RR!Ask(d)
  BY <1>2 DEF ClientSends, RR!Ask
<1>3. ASSUME NEW d \in Datagrams,
             \/ NetworkLoses(d) \/ Serve(d) \/ SendError(d)
             \/ WorkerClose(d) \/ WorkerMark(d)
      PROVE UNCHANGED <<asked, replies>>
  BY <1>3 DEF NetworkLoses, Serve, SendError, WorkerClose, WorkerMark
<1>4. ASSUME NEW t \in Tasks, Start(t) \/ TaskStep(t)
      PROVE UNCHANGED <<asked, replies>>
  BY <1>4 DEF Start, TaskStep, Bind, Suspend, NextPacket, Receive, ReceiveClosed,
              ReceiveFault, Question, Reject, Escape, CloseSocket, MarkInactive
<1>5. CASE Stop \/ (\E s \in Statuses : SetStatus(s)) \/ UNCHANGED vars
  BY <1>5 DEF Stop, SetStatus, vars
<1> QED
  BY <1>1, <1>2, <1>3, <1>4, <1>5 DEF Next, WorkerStep, RR!Next

\* Replies are only sent for datagrams that were received, to the client that
\* sent the datagram, and once: the endpoint implements RequestReply, whatever
\* the number of tasks, workers and clients and the order of their steps.
THEOREM RepliesSound == Spec => RepliesAreSound
<1>1. Init => RR!Init
  BY DEF Init, RR!Init
<1> QED
  BY <1>1, ReplyStep, ReplyInvariant, PTL DEF Spec, RepliesAreSound, RR!Spec

-----------------------------------------------------------------------------
(* Which socket is closed by whom.  A worker that failed is there to be     *)
(* seen for good: its datagram is not received again, for which ReplyInv is *)
(* needed.                                                                  *)

ClosedBy(d, t) == worker[d].task = t /\ worker[d].pc \in {"mark", "failed"}

SocketInv ==
  /\ \A d \in Datagrams : worker[d].pc = "close" => ~IgnoreError
  /\ ReaderKeepsSocket

\* The steps that close no socket and take no failed worker away.
LEMMA SocketKept ==
  ASSUME SocketInv,
         \A t \in Tasks : sock'[t] = "closed" => sock[t] = "closed",
         \A t \in Tasks : pc[t] \in {"mark", "ended"} => pc'[t] \in {"mark", "ended"},
         \A d \in Datagrams : \A t \in Tasks : ClosedBy(d, t) => ClosedBy(d, t)',
         \A d \in Datagrams :
           worker'[d].pc = "close" => worker[d].pc = "close" \/ ~IgnoreError
  PROVE  SocketInv'
BY DEF SocketInv, ReaderKeepsSocket, ClosedBy

LEMMA SocketNext == ReplyInv /\ SocketInv /\ [Next]_vars => SocketInv'
<1> SUFFICES ASSUME ReplyInv, SocketInv, [Next]_vars PROVE SocketInv'
  OBVIOUS
<1>t. /\ pc \in [Tasks -> TaskPcs]
      /\ sock \in [Tasks -> {"none", "open", "closed"}]
      /\ TypeOK
  BY DEF ReplyInv, TypeInv, TypeOK
<1>1. ASSUME NEW t \in Tasks,
             \/ Start(t) \/ Bind(t) \/ Suspend(t) \/ NextPacket(t) \/ Receive(t)
             \/ ReceiveClosed(t) \/ ReceiveFault(t) \/ Reject(t) \/ Escape(t)
             \/ MarkInactive(t)
      PROVE SocketInv'
  BY <1>1, <1>t, SocketKept
     DEF Start, Bind, Suspend, NextPacket, Receive, ReceiveClosed, ReceiveFault,
         Reject, Escape, MarkInactive, AfterError, ClosedBy
<1>2. ASSUME NEW t \in Tasks, Question(t) PROVE SocketInv'
  <2> DEFINE q == packet[buf[t]].dgram
  <2>1. /\ pc[t] = "parse" /\ pc' = [pc EXCEPT ![t] = "check"] /\ sock' = sock
        /\ worker' = [worker EXCEPT ![q] = [pc |-> "serve", task |-> t, buf |-> buf[t]]]
    BY <1>2 DEF Question
  <2>2. worker[q].pc = "none"
    BY <2>1 DEF ReplyInv, DatagramOnce
  <2> HIDE DEF q
  <2>3. \A e \in Datagrams :
          IF e = q THEN worker'[e].pc = "serve" ELSE worker'[e] = worker[e]
    BY <1>t, <2>1 DEF TypeOK
  <2> QED
    BY <1>t, <2>1, <2>2, <2>3, SocketKept DEF ClosedBy
\* The task is on its way out.
<1>3. ASSUME NEW t \in Tasks, CloseSocket(t) PROVE SocketInv'
  <2>1. /\ pc' = [pc EXCEPT ![t] = "mark"] /\ worker' = worker
        /\ sock' = [sock EXCEPT ![t] = "closed"]
    BY <1>3 DEF CloseSocket
  <2>2. ASSUME NEW u \in Tasks, sock'[u] = "closed", pc'[u] \notin {"mark", "ended"}
        PROVE  sock[u] = "closed" /\ pc[u] \notin {"mark", "ended"}
    BY <1>t, <2>1, <2>2
  <2> QED
    BY <2>1, <2>2 DEF SocketInv, ReaderKeepsSocket
\* Every worker keeps its task, ...
<1>4. ASSUME NEW d \in Datagrams, NEW to \in WorkerPcs, SetWorker(d, to),
             worker[d].pc \in {"mark", "failed"} => to = "failed",
             to = "close" => ~IgnoreError, UNCHANGED <<pc, sock>>
      PROVE SocketInv'
  BY <1>4, <1>t, SetWorkerFields, SocketKept DEF ClosedBy
<1>5. ASSUME NEW d \in Datagrams, Serve(d) \/ Send(d) \/ SendError(d) \/ WorkerMark(d)
      PROVE SocketInv'
  BY <1>4, <1>5, FlagAssumption
     DEF Serve, Send, SendError, WorkerMark, WorkerPcs, taskVars
\* ... and the socket it closes is that of its task.
<1>6. ASSUME NEW d \in Datagrams, WorkerClose(d) PROVE SocketInv'
  <2>1. /\ worker[d].pc = "close" /\ SetWorker(d, "mark") /\ "mark" \in WorkerPcs
        /\ sock' = [sock EXCEPT ![worker[d].task] = "closed"] /\ pc' = pc
    BY <1>6 DEF WorkerClose, SocketOf, WorkerPcs, taskVars
  <2>2. ~IgnoreError
    BY <2>1 DEF SocketInv
  <2>3. /\ worker'[d].pc = "mark"
        /\ \A e \in Datagrams : worker'[e].task = worker[e].task
        /\ \A e \in Datagrams : e # d => worker'[e].pc = worker[e].pc
    BY <1>t, <2>1, SetWorkerFields
  <2>4. \A e \in Datagrams, t \in Tasks : ClosedBy(e, t) => ClosedBy(e, t)'
    BY <2>1, <2>3 DEF ClosedBy
  <2>5. ASSUME NEW t \in Tasks, sock'[t] = "closed"
        PROVE  sock[t] = "closed" \/ ClosedBy(d, t)'
    BY <1>t, <2>1, <2>3, <2>5 DEF ClosedBy
  <2> QED
    BY <2>1, <2>2, <2>3, <2>4, <2>5 DEF SocketInv, ReaderKeepsSocket, ClosedBy
<1>7. ASSUME NEW d \in Datagrams, ClientSends(d) \/ NetworkLoses(d) PROVE SocketInv'
  BY <1>7, SocketKept DEF ClientSends, NetworkLoses, taskVars, ClosedBy
<1>8. CASE Stop \/ (\E s \in Statuses : SetStatus(s)) \/ UNCHANGED vars
  BY <1>8, SocketKept DEF Stop, SetStatus, vars, taskVars, ClosedBy
<1> QED
  BY <1>1, <1>2, <1>3, <1>5, <1>6, <1>7, <1>8 DEF Next, TaskStep, WorkerStep

\* A task that goes on reading from a closed socket has lost it to a worker of
\* its own that failed, and with IgnoreError no task does, whatever tasks and
\* workers of the same endpoint object there are beside it.
THEOREM ReaderKeeps == Spec => []ReaderKeepsSocket
<1>1. Init => SocketInv
  BY DEF Init, SocketInv, ReaderKeepsSocket, IdleWorker
<1>2. SocketInv => ReaderKeepsSocket
  BY DEF SocketInv
<1> QED
  BY <1>1, <1>2, ReplyInvariant, SocketNext, PTL DEF Spec

-----------------------------------------------------------------------------
(* Without IgnoreError every error ends the loop, so that the counter is 0 *)
(* whenever the task receives and a datagram is read from its first byte.  *)

CountInv ==
  ~IgnoreError =>
    \A t \in Tasks :
      /\ pc[t] \in {"new", "bind", "check", "receive"} => total[t] = 0
      /\ pc[t] = "parse" => total[t] = packet[buf[t]].length

LEMMA CountNext == ReplyInv /\ CountInv /\ [Next]_vars => CountInv'
<1> SUFFICES ASSUME ReplyInv, CountInv, [Next]_vars, ~IgnoreError PROVE CountInv'
  BY DEF CountInv
<1>t. /\ pc \in [Tasks -> TaskPcs] /\ total \in [Tasks -> 0..MaxPacket]
      /\ buf \in [Tasks -> Buffers \cup {None}]
      /\ packet \in [Buffers -> Contents \cup {None}]
      /\ TypeInv /\ TypeOK
  BY DEF ReplyInv, TypeInv, TypeOK
<1> USE DEF CountInv
<1>1. ASSUME NEW t \in Tasks,
             \/ Start(t) \/ Bind(t) \/ ReceiveClosed(t) \/ ReceiveFault(t)
             \/ Question(t) \/ Reject(t) \/ Escape(t)
             \/ CloseSocket(t) \/ MarkInactive(t)
      PROVE CountInv'
  BY <1>1, <1>t DEF Start, Bind, ReceiveClosed, ReceiveFault, Question, Reject,
                    Escape, CloseSocket, MarkInactive, AfterError
<1>2. ASSUME NEW t \in Tasks, Suspend(t) \/ NextPacket(t) PROVE CountInv'
  <2>1. CASE Suspend(t)
    BY <2>1, <1>t DEF Suspend
  <2>2. CASE NextPacket(t)
    <3> DEFINE b == NewPacket(t)
    <3>1. /\ b \in Buffers /\ b \notin LiveBuffers
          /\ buf' = [buf EXCEPT ![t] = b]
          /\ packet' = [packet EXCEPT ![b] = None]
          /\ pc' = [pc EXCEPT ![t] = "receive"]
          /\ pc[t] = "check" /\ UNCHANGED total
      BY <2>2, NewPacketIsFresh DEF NextPacket
    <3> HIDE DEF b
    <3>2. \A u \in Tasks : pc'[u] = "parse" =>
            /\ u # t /\ pc[u] = "parse" /\ buf'[u] = buf[u]
            /\ packet'[buf[u]] = packet[buf[u]]
      BY <3>1, <1>t DEF LiveBuffers, TypeInv, RefsOK
    <3> QED
      BY <3>1, <3>2, <1>t
  <2> QED
    BY <1>2, <2>1, <2>2
<1>3. ASSUME NEW t \in Tasks, Receive(t) PROVE CountInv'
  <2> PICK d \in net :
        /\ packet' = [packet EXCEPT ![buf[t]] =
                        [dgram |-> d, length |-> Received(t, d)]]
        /\ total' = [total EXCEPT ![t] = @ + Received(t, d)]
    BY <1>3 DEF Receive
  <2>1. /\ pc[t] = "receive" /\ pc' = [pc EXCEPT ![t] = "parse"] /\ buf' = buf
        /\ buf[t] \in Buffers /\ buf[t] # None /\ d \in Datagrams
    BY <1>3, <1>t DEF Receive, TypeInv, RefsOK, TypeOK
  <2>2. total[t] = 0 /\ Received(t, d) \in 0..MaxPacket
    BY <1>t, <2>1, ReceivedFits
  <2>3. packet'[buf[t]].length = Received(t, d) /\ total'[t] = Received(t, d)
    BY <1>t, <2>1, <2>2
  <2>4. \A u \in Tasks : u # t =>
          /\ pc'[u] = pc[u] /\ total'[u] = total[u]
          /\ pc[u] = "parse" => packet'[buf[u]] = packet[buf[u]]
    BY <1>t, <2>1 DEF ReplyInv, BuffersApart
  <2> QED
    BY <1>t, <2>1, <2>3, <2>4
<1>4. ASSUME NEW d \in Datagrams, WorkerStep(d) \/ ClientSends(d) \/ NetworkLoses(d)
      PROVE CountInv'
  BY <1>4 DEF WorkerStep, Serve, Send, SendError, WorkerClose, WorkerMark,
              ClientSends, NetworkLoses, taskVars
<1>5. CASE Stop \/ (\E s \in Statuses : SetStatus(s)) \/ UNCHANGED vars
  BY <1>5 DEF Stop, SetStatus, vars, taskVars
<1> QED
  BY <1>1, <1>2, <1>3, <1>4, <1>5 DEF Next, TaskStep

\* Without IgnoreError a well-formed query that was received is read as the
\* question it is, whatever was received before it and whatever other tasks
\* and workers do meanwhile.
THEOREM StrictReadsQueries ==
  ASSUME ~IgnoreError PROVE Spec => []ReceivedQueryIsRead
<1>1. Init => ReplyInv /\ CountInv
  BY ReplyInit DEF Init, CountInv
<1>2. ReplyInv /\ CountInv /\ [Next]_vars => ReplyInv' /\ CountInv'
  BY ReplyNext, CountNext
<1>3. ReplyInv /\ CountInv => ReceivedQueryIsRead
  <2> SUFFICES ASSUME ReplyInv, CountInv, NEW t \in Tasks, pc[t] = "parse",
                      packet[buf[t]].dgram.query
               PROVE  Classify(Offset(t), packet[buf[t]].dgram) = {"question"}
    BY DEF ReceivedQueryIsRead
  <2>1. total[t] = packet[buf[t]].length /\ total[t] \in 0..MaxPacket
    BY DEF CountInv, ReplyInv, TypeInv, TypeOK
  <2>2. Offset(t) = 0
    BY <2>1 DEF Offset
  <2> QED
    BY <2>2 DEF Classify
<1> QED
  BY <1>1, <1>2, <1>3, PTL DEF Spec

-----------------------------------------------------------------------------
(* Left over bytes.  A task that begins an iteration with as many of them  *)
(* as a header reads every datagram behind them, and they only grow.       *)

Deaf(t) ==
  /\ total[t] >= HeaderLen
  /\ pc[t] = "parse" => Offset(t) >= HeaderLen

LEMMA DeafRejects ==
  ASSUME NEW t \in Tasks, Deaf(t), pc[t] = "parse"
  PROVE  Classify(Offset(t), packet[buf[t]].dgram) = {"rejected"}
BY DEF Deaf, Classify

LEMMA DeafStays ==
  ASSUME ReplyInv, [Next]_vars, NEW t \in Tasks, Deaf(t)
  PROVE  Deaf(t)'
<1>t. /\ pc \in [Tasks -> TaskPcs] /\ total \in [Tasks -> 0..MaxPacket]
      /\ buf \in [Tasks -> Buffers \cup {None}]
      /\ packet \in [Buffers -> Contents \cup {None}]
      /\ TypeInv /\ TypeOK
  BY DEF ReplyInv, TypeInv, TypeOK
<1>1. ASSUME total'[t] = total[t],
             pc'[t] = "parse" =>
               pc[t] = "parse" /\ buf'[t] = buf[t] /\ packet'[buf[t]] = packet[buf[t]]
      PROVE  Deaf(t)'
  BY <1>1 DEF Deaf, Offset
<1>2. ASSUME NEW u \in Tasks,
             \/ Start(u) \/ Bind(u) \/ Suspend(u) \/ ReceiveClosed(u) \/ ReceiveFault(u)
             \/ Reject(u) \/ Escape(u) \/ CloseSocket(u) \/ MarkInactive(u)
      PROVE  Deaf(t)'
  <2>1. UNCHANGED <<total, buf, packet>> /\ (pc'[t] = "parse" => pc[t] = "parse")
    BY <1>2, <1>t DEF Start, Bind, Suspend, ReceiveClosed, ReceiveFault, Reject, Escape,
       CloseSocket, MarkInactive, AfterError
  <2> QED
    BY <1>1, <2>1
<1>3. ASSUME NEW u \in Tasks, Question(u) PROVE Deaf(t)'
  <2>1. u # t
    BY <1>3, DeafRejects DEF Question
  <2>2. UNCHANGED <<buf, packet>> /\ pc'[t] = pc[t] /\ total'[t] = total[t]
    BY <1>3, <1>t, <2>1 DEF Question
  <2> QED
    BY <1>1, <2>2
<1>4. ASSUME NEW u \in Tasks, NextPacket(u) PROVE Deaf(t)'
  <2> DEFINE b == NewPacket(u)
  <2>1. /\ b \in Buffers /\ b \notin LiveBuffers
        /\ buf' = [buf EXCEPT ![u] = b]
        /\ packet' = [packet EXCEPT ![b] = None]
        /\ pc' = [pc EXCEPT ![u] = "receive"] /\ UNCHANGED total
    BY <1>4, NewPacketIsFresh DEF NextPacket
  <2> HIDE DEF b
  <2>2. pc'[t] = "parse" =>
          pc[t] = "parse" /\ buf'[t] = buf[t] /\ packet'[buf[t]] = packet[buf[t]]
    BY <2>1, <1>t DEF LiveBuffers, TypeInv, RefsOK
  <2> QED
    BY <1>1, <2>1, <2>2
<1>5. ASSUME NEW u \in Tasks, Receive(u) PROVE Deaf(t)'
  <2> PICK d \in net :
        /\ packet' = [packet EXCEPT ![buf[u]] =
                        [dgram |-> d, length |-> Received(u, d)]]
        /\ total' = [total EXCEPT ![u] = @ + Received(u, d)]
    BY <1>5 DEF Receive
  <2>1. /\ pc[u] = "receive" /\ pc' = [pc EXCEPT ![u] = "parse"] /\ buf' = buf
        /\ buf[u] \in Buffers /\ buf[u] # None /\ d \in Datagrams
    BY <1>5, <1>t DEF Receive, TypeInv, RefsOK, TypeOK
  <2>2. CASE u = t
    <3>1. Received(t, d) \in 0..MaxPacket /\ total[t] \in 0..MaxPacket
      BY <1>t, <2>1, ReceivedFits
    <3>2. packet'[buf'[t]].length = Received(t, d) /\ total'[t] = total[t] + Received(t, d)
      BY <1>t, <2>1, <2>2
    <3>3. total'[t] - packet'[buf'[t]].length = total[t]
      BY <3>1, <3>2
    <3>4. total[t] >= HeaderLen /\ total'[t] >= HeaderLen
      BY <3>1, <3>2, SizesAssumption DEF Deaf
    <3> QED
      BY <3>3, <3>4 DEF Deaf, Offset
  <2>3. CASE u # t
    <3>1. /\ pc'[t] = pc[t] /\ total'[t] = total[t]
          /\ pc[t] = "parse" => packet'[buf[t]] = packet[buf[t]]
      BY <1>t, <2>1, <2>3 DEF ReplyInv, BuffersApart
    <3> QED
      BY <1>1, <2>1, <3>1
  <2> QED
    BY <2>2, <2>3
<1>6. ASSUME NEW d \in Datagrams, WorkerStep(d) \/ ClientSends(d) \/ NetworkLoses(d)
      PROVE  Deaf(t)'
  <2>1. UNCHANGED <<pc, total, buf, packet>>
    BY <1>6 DEF WorkerStep, Serve, Send, SendError, WorkerClose, WorkerMark,
                ClientSends, NetworkLoses, taskVars
  <2> QED
    BY <1>1, <2>1
<1>7. CASE Stop \/ (\E s \in Statuses : SetStatus(s)) \/ UNCHANGED vars
  <2>1. UNCHANGED <<pc, total, buf, packet>>
    BY <1>7 DEF Stop, SetStatus, vars, taskVars
  <2> QED
    BY <1>1, <2>1
<1> QED
  BY <1>2, <1>3, <1>4, <1>5, <1>6, <1>7 DEF Next, TaskStep

\* A task with a header's worth of left over bytes rejects every datagram it
\* receives from then on, whatever it is sent.
THEOREM DeafTaskStaysDeaf == Spec => DeafForGood
<1>1. ASSUME NEW t \in Tasks
      PROVE  Spec => [](pc[t] = "check" /\ total[t] >= HeaderLen =>
               [](pc[t] = "parse" =>
                    Classify(Offset(t), packet[buf[t]].dgram) = {"rejected"}))
  <2>1. pc[t] = "check" /\ total[t] >= HeaderLen => Deaf(t)
    BY DEF Deaf
  <2>2. ReplyInv /\ Deaf(t) /\ [Next]_vars => Deaf(t)'
    BY DeafStays
  <2>3. Deaf(t) => (pc[t] = "parse" =>
                      Classify(Offset(t), packet[buf[t]].dgram) = {"rejected"})
    BY DeafRejects
  <2> QED
    BY <2>1, <2>2, <2>3, ReplyInvariant, PTL DEF Spec
<1> QED
  BY <1>1 DEF DeafForGood
=============================================================================
