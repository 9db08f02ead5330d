----------------------- MODULE SubwayGateways_proofs -----------------------
(***************************************************************************)
(* Theorems about the gateways of DNS Subway, for any number of queries,   *)
(* domains, ports and addresses, and connections lost at any time.         *)
(***************************************************************************)
EXTENDS SubwayGateways, SequenceTheorems, TLAPS

USE SpaceAssumption, BoundsAssumption, NoneAssumption

-----------------------------------------------------------------------------
(* The inductive invariant.  What orders the threads is the monitor of a   *)
(* session instance: whoever connects it, probes or forwards is in it, and *)
(* nobody connects an instance whose connection is open.                   *)

InMonitor == {"connect", "probe", "forward"}
HasTarget == {"enter", "connect", "target", "reenter", "probe", "forward", "register"}
HasAddr   == {"probe", "forward", "register"}
MayOwn    == {"forward", "register", "answered", "failed"}

LocalOK(q) ==
  /\ pc[q] # "idle" => name[q] \in Names
  /\ pc[q] \in HasTarget => session[q] \in Queries
  /\ pc[q] \in HasAddr => addr[q] \in Candidates
  /\ pc[q] \in InMonitor => holder[session[q]] = q
  /\ pc[q] = "connect" => ~IsOpen(session[q])
  /\ pc[q] \notin MayOwn => opened[q] = 0
  /\ pc[q] = "forward" => opened[q] < Len(Ports)
  /\ pc[q] = "register" => opened[q] = Len(Ports)

\* A forwarded port belongs to a gateway on its address over an open connection.
OwnerOK(k) ==
  owner[k] \in Queries =>
    /\ session[owner[k]] \in Queries /\ ssh[session[owner[k]]] = "up"
    /\ pc[owner[k]] \in MayOwn
    /\ k[1] = addr[owner[k]]

SubwayInv ==
  /\ TypeOK
  /\ \A q \in Queries : LocalOK(q)
  /\ \A k \in Sockets : OwnerOK(k)

LEMMA FirstPort == Len(Ports) \in Nat \ {0} /\ DOMAIN Ports = 1..Len(Ports)
BY EmptySeq, LenProperties

LEMMA SubwayInit == Init => SubwayInv
<1> SUFFICES ASSUME Init PROVE SubwayInv
  OBVIOUS
<1>1. <<>> \in Seq(Queries)
  BY EmptySeq
<1>2. TypeOK
  BY <1>1, FirstPort DEF Init, TypeOK, Pcs
<1> QED
  BY <1>2 DEF Init, SubwayInv, LocalOK, OwnerOK, HasTarget, HasAddr, InMonitor, MayOwn

LEMMA SocketType ==
  ASSUME NEW a \in Candidates, NEW i \in DOMAIN Ports
  PROVE  <<a, Ports[i]>> \in Sockets /\ <<a, Ports[i]>>[1] = a
BY DEF Sockets

LEMMA TypeStep == SubwayInv /\ [Next]_vars => TypeOK'
<1> SUFFICES ASSUME SubwayInv, [Next]_vars PROVE TypeOK'
  OBVIOUS
<1> USE DEF SubwayInv, TypeOK, Goto, Pcs, Settled
<1>1. CASE UNCHANGED vars
  BY <1>1 DEF vars
<1>2. ASSUME NEW q \in Queries, Arrive(q) PROVE TypeOK'
  BY <1>2 DEF Arrive
<1>3. ASSUME NEW q \in Queries, Lookup(q) PROVE TypeOK'
  <2>1. name[q] \in Names
    BY <1>3 DEF Lookup, LocalOK
  <2>2. CASE table[name[q]] = None
    BY <1>3, <2>2 DEF Lookup
  <2>3. CASE table[name[q]] # None
    <3>1. table[name[q]] \in Queries
      BY <2>1, <2>3
    <3> QED
      BY <1>3, <2>3, <3>1 DEF Lookup
  <2> QED
    BY <2>2, <2>3
<1>4. ASSUME NEW q \in Queries, FindSession(q) PROVE TypeOK'
  <2>1. list # <<>> => Head(list) \in Queries
    BY HeadTailProperties
  <2>2. CASE config.shared /\ list # <<>>
    <3>1. session' \in [Queries -> Queries \cup {None}] /\ pc' \in [Queries -> Pcs]
      <4>1. session' = [session EXCEPT ![q] = Head(list)] /\ pc' = [pc EXCEPT ![q] = "enter"]
        BY <1>4, <2>2 DEF FindSession
      <4> QED
        BY <2>1, <2>2, <4>1
    <3> QED
      BY <1>4, <3>1 DEF FindSession
  <2>3. CASE ~(config.shared /\ list # <<>>)
    BY <1>4, <2>3 DEF FindSession
  <2> QED
    BY <2>2, <2>3
<1>5. ASSUME NEW q \in Queries, FindSessionRaces(q) PROVE TypeOK'
  BY <1>5 DEF FindSessionRaces
<1>6. ASSUME NEW q \in Queries, MakeSession(q) PROVE TypeOK'
  BY <1>6, ConcatProperties DEF MakeSession
<1>7. ASSUME NEW q \in Queries, Enter(q) PROVE TypeOK'
  <2>1. CASE IsOpen(session[q])
    BY <1>7, <2>1 DEF Enter
  <2>2. CASE ~IsOpen(session[q])
    <3>1. holder' \in [Queries -> Queries \cup {None}] /\ pc' \in [Queries -> Pcs]
      <4>1. /\ holder' = [holder EXCEPT ![session[q]] = q]
            /\ pc' = [pc EXCEPT ![q] = "connect"]
        BY <1>7, <2>2 DEF Enter, Acquire
      <4> QED
        BY <4>1
    <3> QED
      BY <1>7, <3>1 DEF Enter
  <2> QED
    BY <2>1, <2>2
<1>8. ASSUME NEW q \in Queries, Connect(q) PROVE TypeOK'
  BY <1>8 DEF Connect, Release
<1>9. ASSUME NEW q \in Queries, ResolveTarget(q) PROVE TypeOK'
  BY <1>9 DEF ResolveTarget
<1>10. ASSUME NEW q \in Queries, Reenter(q) PROVE TypeOK'
  <2>1. Candidates # {} => 1 + addressIndexStart \in Candidates
    BY DEF Candidates, addressIndexStart
  <2>2. CASE config.subnet /\ Candidates # {}
    <3>1. /\ holder' = [holder EXCEPT ![session[q]] = q]
          /\ pc' = [pc EXCEPT ![q] = "probe"]
          /\ addr' = [addr EXCEPT ![q] = 1 + addressIndexStart]
      BY <1>10, <2>2 DEF Reenter, Acquire
    <3>2. holder' \in [Queries -> Queries \cup {None}] /\ pc' \in [Queries -> Pcs]
      BY <3>1
    <3>3. addr' \in [Queries -> Candidates \cup {None}]
      BY <2>1, <2>2, <3>1
    <3> QED
      BY <1>10, <3>2, <3>3 DEF Reenter
  <2>3. CASE ~(config.subnet /\ Candidates # {})
    BY <1>10, <2>3 DEF Reenter
  <2> QED
    BY <2>2, <2>3
<1>11. ASSUME NEW q \in Queries, Probe(q) PROVE TypeOK'
  <2>1. \/ Goto(q, "forward") /\ UNCHANGED <<holder, addr>>
        \/ addr[q] + 1 \in Candidates /\ addr' = [addr EXCEPT ![q] = addr[q] + 1]
             /\ UNCHANGED <<holder, pc>>
        \/ Release(q) /\ Goto(q, "failed") /\ UNCHANGED addr
    BY <1>11 DEF Probe
  <2>2. UNCHANGED <<config, table, list, ssh, owner, name, session, opened, gateway, drops>>
    BY <1>11 DEF Probe
  <2>3. pc' \in [Queries -> Pcs]
    BY <2>1
  <2>5. addr' \in [Queries -> Candidates \cup {None}]
    <3>1. CASE addr' = addr
      BY <3>1
    <3>2. ASSUME NEW a \in Candidates, addr' = [addr EXCEPT ![q] = a]
          PROVE  addr' \in [Queries -> Candidates \cup {None}]
      BY <3>2
    <3> QED
      BY <2>1, <3>1, <3>2
  <2>4. holder' \in [Queries -> Queries \cup {None}]
    BY <2>1 DEF Release
  <2> QED
    BY <2>2, <2>3, <2>4, <2>5
<1>12. ASSUME NEW q \in Queries, Forward(q) PROVE TypeOK'
  <2>1. opened[q] + 1 \in 0..Len(Ports)
    BY <1>12, FirstPort DEF Forward, LocalOK
  <2>2. opened' \in [Queries -> 0..Len(Ports)] /\ owner' \in [Sockets -> Queries \cup {None, Other}]
    BY <1>12, <2>1 DEF Forward
  <2>3. \/ Release(q) /\ Goto(q, "register")
        \/ UNCHANGED <<holder, pc>>
    BY <1>12 DEF Forward
  <2>4. pc' \in [Queries -> Pcs] /\ holder' \in [Queries -> Queries \cup {None}]
    BY <2>3 DEF Release
  <2>5. UNCHANGED <<config, table, list, ssh, name, session, addr, gateway, drops>>
    BY <1>12 DEF Forward
  <2> QED
    BY <2>2, <2>4, <2>5
<1>13. ASSUME NEW q \in Queries, ForwardFails(q) PROVE TypeOK'
  BY <1>13 DEF ForwardFails, Release
<1>14. ASSUME NEW q \in Queries, Register(q) PROVE TypeOK'
  BY <1>14 DEF Register, LocalOK
<1>15. ASSUME NEW s \in Queries, Drop(s) PROVE TypeOK'
  BY <1>15 DEF Drop
<1>16. ASSUME NEW k \in Sockets, OtherTakes(k) PROVE TypeOK'
  BY <1>16 DEF OtherTakes
<1> QED
  BY <1>1, <1>2, <1>3, <1>4, <1>5, <1>6, <1>7, <1>8, <1>9, <1>10, <1>11, <1>12, <1>13,
     <1>14, <1>15, <1>16 DEF Next, LocalStep

LEMMA LocalStepOK ==
  ASSUME SubwayInv, [Next]_vars, NEW p \in Queries
  PROVE  LocalOK(p)'
<1> USE DEF SubwayInv, TypeOK, Goto, LocalOK, IsOpen, HasTarget, HasAddr, InMonitor, MayOwn
<1>1. CASE UNCHANGED vars
  BY <1>1 DEF vars
<1>2. ASSUME NEW q \in Queries, Arrive(q) PROVE LocalOK(p)'
  BY <1>2 DEF Arrive
<1>3. ASSUME NEW q \in Queries, Lookup(q) PROVE LocalOK(p)'
  BY <1>3 DEF Lookup
<1>4. ASSUME NEW q \in Queries, FindSession(q) PROVE LocalOK(p)'
  <2>1. list # <<>> => Head(list) \in Queries
    BY HeadTailProperties
  <2>2. CASE config.shared /\ list # <<>>
    <3>1. /\ session' = [session EXCEPT ![q] = Head(list)] /\ pc' = [pc EXCEPT ![q] = "enter"]
          /\ UNCHANGED <<ssh, holder, name, addr, opened>> /\ pc[q] = "session"
      BY <1>4, <2>2 DEF FindSession
    <3> QED
      BY <2>1, <2>2, <3>1
  <2>3. CASE ~(config.shared /\ list # <<>>)
    <3>1. /\ pc' = [pc EXCEPT ![q] = "make"] /\ pc[q] = "session"
          /\ UNCHANGED <<session, ssh, holder, name, addr, opened>>
      BY <1>4, <2>3 DEF FindSession
    <3> QED
      BY <3>1
  <2> QED
    BY <2>2, <2>3
<1>5. ASSUME NEW q \in Queries, FindSessionRaces(q) PROVE LocalOK(p)'
  BY <1>5 DEF FindSessionRaces
<1>6. ASSUME NEW q \in Queries, MakeSession(q) PROVE LocalOK(p)'
  BY <1>6 DEF MakeSession
<1>7. ASSUME NEW q \in Queries, Enter(q) PROVE LocalOK(p)'
  BY <1>7 DEF Enter, Acquire, MayEnter
<1>8. ASSUME NEW q \in Queries, Connect(q) PROVE LocalOK(p)'
  BY <1>8 DEF Connect, Release
<1>9. ASSUME NEW q \in Queries, ResolveTarget(q) PROVE LocalOK(p)'
  BY <1>9 DEF ResolveTarget
<1>10. ASSUME NEW q \in Queries, Reenter(q) PROVE LocalOK(p)'
  <2>1. Candidates # {} => 1 + addressIndexStart \in Candidates
    BY DEF Candidates, addressIndexStart
  <2> QED
    BY <1>10, <2>1 DEF Reenter, Acquire, MayEnter
<1>11. ASSUME NEW q \in Queries, Probe(q) PROVE LocalOK(p)'
  <2>1. /\ UNCHANGED <<ssh, name, session, opened>>
        /\ pc[q] = "probe" /\ session[q] \in Queries /\ opened[q] = 0 /\ addr[q] \in Candidates
        /\ holder[session[q]] = q
        /\ \/ pc' = [pc EXCEPT ![q] = "forward"] /\ UNCHANGED <<holder, addr>>
           \/ /\ addr[q] + 1 \in Candidates /\ addr' = [addr EXCEPT ![q] = addr[q] + 1]
              /\ UNCHANGED <<holder, pc>>
           \/ /\ holder' = [holder EXCEPT ![session[q]] = None]
              /\ pc' = [pc EXCEPT ![q] = "failed"] /\ UNCHANGED addr
    BY <1>11 DEF Probe, Release
  <2>2. CASE pc' = [pc EXCEPT ![q] = "forward"] /\ UNCHANGED <<holder, addr>>
    BY <2>1, <2>2, FirstPort
  <2>3. ASSUME NEW a \in Candidates, addr' = [addr EXCEPT ![q] = a], UNCHANGED <<holder, pc>>
        PROVE  LocalOK(p)'
    BY <2>1, <2>3
  <2>4. CASE /\ holder' = [holder EXCEPT ![session[q]] = None]
             /\ pc' = [pc EXCEPT ![q] = "failed"] /\ UNCHANGED addr
    BY <2>1, <2>4
  <2> QED
    BY <2>1, <2>2, <2>3, <2>4
<1>12. ASSUME NEW q \in Queries, Forward(q) PROVE LocalOK(p)'
  BY <1>12, FirstPort DEF Forward, Release
<1>13. ASSUME NEW q \in Queries, ForwardFails(q) PROVE LocalOK(p)'
  BY <1>13 DEF ForwardFails, Release
<1>14. ASSUME NEW q \in Queries, Register(q) PROVE LocalOK(p)'
  BY <1>14 DEF Register
<1>15. ASSUME NEW s \in Queries, Drop(s) PROVE LocalOK(p)'
  BY <1>15 DEF Drop
<1>16. ASSUME NEW k \in Sockets, OtherTakes(k) PROVE LocalOK(p)'
  BY <1>16 DEF OtherTakes
<1> QED
  BY <1>1, <1>2, <1>3, <1>4, <1>5, <1>6, <1>7, <1>8, <1>9, <1>10, <1>11, <1>12, <1>13,
     <1>14, <1>15, <1>16 DEF Next, LocalStep

LEMMA OwnsNothing ==
  ASSUME SubwayInv, NEW q \in Queries, pc[q] \notin MayOwn, NEW k \in Sockets
  PROVE  owner[k] # q
BY DEF SubwayInv, OwnerOK

LEMMA OwnerStepOK ==
  ASSUME SubwayInv, [Next]_vars, NEW j \in Sockets
  PROVE  OwnerOK(j)'
<1> USE DEF SubwayInv, TypeOK, Goto, OwnerOK, MayOwn
<1>1. CASE UNCHANGED vars
  BY <1>1 DEF vars
<1>2. ASSUME NEW q \in Queries, Arrive(q) PROVE OwnerOK(j)'
  BY <1>2 DEF Arrive
<1>3. ASSUME NEW q \in Queries, Lookup(q) PROVE OwnerOK(j)'
  BY <1>3 DEF Lookup
<1>4. ASSUME NEW q \in Queries, FindSession(q) PROVE OwnerOK(j)'
  <2>1. /\ UNCHANGED <<owner, ssh, addr>>
        /\ \A g \in Queries \ {q} : pc'[g] = pc[g] /\ session'[g] = session[g]
    BY <1>4 DEF FindSession
  <2>2. owner[j] # q
    BY <1>4, OwnsNothing DEF FindSession
  <2> QED
    BY <2>1, <2>2
<1>5. ASSUME NEW q \in Queries, FindSessionRaces(q) PROVE OwnerOK(j)'
  BY <1>5 DEF FindSessionRaces
<1>6. ASSUME NEW q \in Queries, MakeSession(q) PROVE OwnerOK(j)'
  BY <1>6 DEF MakeSession
<1>7. ASSUME NEW q \in Queries, Enter(q) PROVE OwnerOK(j)'
  BY <1>7 DEF Enter
<1>8. ASSUME NEW q \in Queries, Connect(q) PROVE OwnerOK(j)'
  <2>1. /\ UNCHANGED <<owner, session, addr>>
        /\ \A g \in Queries \ {q} : pc'[g] = pc[g]
        /\ \A s \in Queries \ {session[q]} : ssh'[s] = ssh[s]
    BY <1>8 DEF Connect
  <2>2. ssh[session[q]] # "up"
    BY <1>8 DEF Connect, LocalOK, IsOpen
  <2>3. owner[j] # q
    BY <1>8, OwnsNothing DEF Connect
  <2> QED
    BY <2>1, <2>2, <2>3
<1>9. ASSUME NEW q \in Queries, ResolveTarget(q) PROVE OwnerOK(j)'
  BY <1>9 DEF ResolveTarget
<1>10. ASSUME NEW q \in Queries, Reenter(q) PROVE OwnerOK(j)'
  <2>1. /\ UNCHANGED <<owner, session, ssh>>
        /\ \A g \in Queries \ {q} : pc'[g] = pc[g] /\ addr'[g] = addr[g]
    BY <1>10 DEF Reenter
  <2>2. owner[j] # q
    BY <1>10, OwnsNothing DEF Reenter
  <2> QED
    BY <2>1, <2>2
<1>11. ASSUME NEW q \in Queries, Probe(q) PROVE OwnerOK(j)'
  <2>1. /\ UNCHANGED <<owner, session, ssh>>
        /\ \A g \in Queries \ {q} : pc'[g] = pc[g] /\ addr'[g] = addr[g]
    BY <1>11 DEF Probe
  <2>2. owner[j] # q
    BY <1>11, OwnsNothing DEF Probe
  <2> QED
    BY <2>1, <2>2
<1>12. ASSUME NEW q \in Queries, Forward(q) PROVE OwnerOK(j)'
  <2> DEFINE n == NextSocket(q)
  <2>1. /\ UNCHANGED <<session, ssh, addr>> /\ ssh[session[q]] = "up"
        /\ pc[q] = "forward" /\ pc'[q] \in {"forward", "register"}
        /\ \A g \in Queries \ {q} : pc'[g] = pc[g]
        /\ owner' = [owner EXCEPT ![n] = q]
    BY <1>12 DEF Forward
  <2>2. session[q] \in Queries
    BY <2>1 DEF LocalOK, HasTarget
  <2>3. n[1] = addr[q]
    BY DEF NextSocket
  <2> HIDE DEF n
  <2>4. CASE j = n
    BY <2>1, <2>2, <2>3, <2>4
  <2>5. CASE j # n
    BY <2>1, <2>5
  <2> QED
    BY <2>4, <2>5
<1>13. ASSUME NEW q \in Queries, ForwardFails(q) PROVE OwnerOK(j)'
  BY <1>13 DEF ForwardFails
<1>14. ASSUME NEW q \in Queries, Register(q) PROVE OwnerOK(j)'
  BY <1>14 DEF Register
<1>15. ASSUME NEW s \in Queries, Drop(s) PROVE OwnerOK(j)'
  BY <1>15 DEF Drop, OverSession
<1>16. ASSUME NEW k \in Sockets, OtherTakes(k) PROVE OwnerOK(j)'
  BY <1>16 DEF OtherTakes
<1> QED
  BY <1>1, <1>2, <1>3, <1>4, <1>5, <1>6, <1>7, <1>8, <1>9, <1>10, <1>11, <1>12, <1>13,
     <1>14, <1>15, <1>16 DEF Next, LocalStep

LEMMA SubwayNext == SubwayInv /\ [Next]_vars => SubwayInv'
BY TypeStep, LocalStepOK, OwnerStepOK DEF SubwayInv

\* Every reachable state has the declared types; in particular the probing ends
\* with the address space, and no more ports are forwarded than there are.
THEOREM TypeCorrect == Spec => []TypeOK
<1>1. SubwayInv => TypeOK
  BY DEF SubwayInv
<1> QED
  BY <1>1, SubwayInit, SubwayNext, PTL DEF Spec

\* A forwarded port is always one of a connection its session instance still
\* holds: no connection in use is replaced.
THEOREM ForwardedOverOpen == Spec => []ForwardedOverOpenConnection
<1>1. SubwayInv => ForwardedOverOpenConnection
  BY DEF SubwayInv, OwnerOK, ForwardedOverOpenConnection
<1> QED
  BY <1>1, SubwayInit, SubwayNext, PTL DEF Spec

-----------------------------------------------------------------------------
(* Gateways of one session instance.                                       *)

\* What the second synchronized block keeps free for q.
KeptFree(q) ==
  pc[q] = "forward" =>
    \A i \in (opened[q] + 1)..Len(Ports) :
      owner[<<addr[q], Ports[i]>>] \in Queries =>
        session[owner[<<addr[q], Ports[i]>>]] # session[q]

LEMMA OneInMonitor ==
  ASSUME SubwayInv, NEW p \in Queries, NEW q \in Queries, p # q,
         pc[p] \in InMonitor, pc[q] \in InMonitor
  PROVE  session[p] # session[q]
BY DEF SubwayInv, LocalOK

LEMMA KeptFreeStep ==
  ASSUME SubwayInv, [Next]_vars, NEW p \in Queries, KeptFree(p)
  PROVE  KeptFree(p)'
<1> DEFINE S(i) == <<addr[p], Ports[i]>>
<1> SUFFICES ASSUME pc'[p] = "forward",
                    NEW i \in (opened'[p] + 1)..Len(Ports),
                    owner'[<<addr'[p], Ports[i]>>] \in Queries
             PROVE  session'[owner'[<<addr'[p], Ports[i]>>]] # session'[p]
  BY DEF KeptFree
<1> USE DEF Goto
<1>0. /\ pc \in [Queries -> Pcs] /\ owner \in [Sockets -> Queries \cup {None, Other}]
      /\ opened \in [Queries -> 0..Len(Ports)]
      /\ \A q \in Queries : LocalOK(q)
      /\ \A k \in Sockets : OwnerOK(k)
  BY DEF SubwayInv, TypeOK
<1>1. \A q \in Queries : pc[q] \notin MayOwn => \A k \in Sockets : owner[k] # q
  BY OwnsNothing
<1>2. ASSUME UNCHANGED <<owner, session, addr, opened>>, pc[p] = "forward"
      PROVE  session'[owner'[<<addr'[p], Ports[i]>>]] # session'[p]
  BY <1>2 DEF KeptFree
<1>3. CASE UNCHANGED vars
  BY <1>2, <1>3 DEF vars
<1>4. ASSUME NEW q \in Queries, \/ Arrive(q) \/ Lookup(q) \/ FindSessionRaces(q)
                                \/ Enter(q) \/ Connect(q) \/ ResolveTarget(q)
                                \/ ForwardFails(q) \/ Register(q)
      PROVE  session'[owner'[<<addr'[p], Ports[i]>>]] # session'[p]
  <2>1. UNCHANGED <<owner, session, addr, opened>>
    BY <1>4 DEF Arrive, Lookup, FindSessionRaces, Enter, Connect, ResolveTarget, ForwardFails, Register
  <2>2. pc[p] = "forward"
    BY <1>0, <1>4 DEF Arrive, Lookup, FindSessionRaces, Enter, Connect, ResolveTarget,
       ForwardFails, Register
  <2> QED
    BY <1>2, <2>1, <2>2
<1>5. ASSUME NEW q \in Queries, FindSession(q) \/ MakeSession(q)
      PROVE  session'[owner'[<<addr'[p], Ports[i]>>]] # session'[p]
  <2>1. /\ UNCHANGED <<owner, addr, opened>> /\ pc[q] \notin MayOwn /\ pc'[q] # "forward"
        /\ \A g \in Queries \ {q} : pc'[g] = pc[g] /\ session'[g] = session[g]
    BY <1>0, <1>5 DEF FindSession, MakeSession, SubwayInv, TypeOK, MayOwn
  <2>2. p # q /\ pc[p] = "forward"
    BY <2>1
  <2>3. addr[p] \in Candidates /\ i \in DOMAIN Ports
    BY <1>0, <2>1, <2>2, FirstPort DEF LocalOK, HasAddr
  <2>4. owner[S(i)] # q
    BY <2>1, <2>3, OwnsNothing, SocketType
  <2> QED
    BY <2>1, <2>2, <2>4 DEF KeptFree
<1>6. ASSUME NEW q \in Queries, Reenter(q) \/ Probe(q)
      PROVE  session'[owner'[<<addr'[p], Ports[i]>>]] # session'[p]
  <2>1. /\ UNCHANGED <<owner, session, opened>> /\ pc[q] # "forward"
        /\ \A g \in Queries \ {q} : pc'[g] = pc[g] /\ addr'[g] = addr[g]
        /\ pc'[q] = "forward" => UNCHANGED addr /\ AddressFree(addr[q])
    BY <1>0, <1>6 DEF Reenter, Probe, SubwayInv, TypeOK
  <2>2. CASE p = q
    <3>1. i \in DOMAIN Ports
      BY <1>0, <2>1, FirstPort
    <3>2. owner[S(i)] = None
      BY <2>1, <2>2, <3>1 DEF AddressFree
    <3> QED
      BY <2>1, <2>2, <3>2
  <2>3. CASE p # q
    BY <2>1, <2>3 DEF KeptFree
  <2> QED
    BY <2>2, <2>3
<1>7. ASSUME NEW q \in Queries, Forward(q)
      PROVE  session'[owner'[<<addr'[p], Ports[i]>>]] # session'[p]
  <2> DEFINE n == NextSocket(q)
  <2>1. /\ UNCHANGED <<session, addr>> /\ pc[q] = "forward"
        /\ \A g \in Queries \ {q} : pc'[g] = pc[g]
        /\ owner' = [owner EXCEPT ![n] = q]
        /\ opened' = [opened EXCEPT ![q] = opened[q] + 1]
    BY <1>0, <1>7 DEF Forward
  <2>2. pc[p] = "forward"
    BY <2>1
  <2>3. addr[p] \in Candidates /\ i \in DOMAIN Ports /\ opened[p] \in Nat /\ opened[p] + 1 \in DOMAIN Ports
        /\ i \in (opened[p] + 1)..Len(Ports) /\ (p = q => i # opened[p] + 1)
    BY <1>0, <2>1, <2>2, FirstPort DEF LocalOK, HasAddr
  <2>4. S(i) \in Sockets
    BY <2>3, SocketType
  <2>5. CASE p = q
    <3>1. S(i) # n
      BY <2>3, <2>5, PortsAssumption DEF NextSocket
    <3>2. owner'[S(i)] = owner[S(i)]
      BY <1>0, <2>1, <2>4, <3>1
    <3> QED
      BY <2>1, <2>2, <2>3, <3>2 DEF KeptFree
  <2>6. CASE p # q
    <3>1. session[q] # session[p]
      BY <2>1, <2>2, <2>6, OneInMonitor DEF InMonitor
    <3>2. owner'[S(i)] = owner[S(i)] \/ owner'[S(i)] = q
      BY <1>0, <2>1, <2>4
    <3> QED
      BY <2>1, <2>2, <2>3, <3>1, <3>2 DEF KeptFree
  <2> QED
    BY <2>5, <2>6
<1>8. ASSUME \/ \E s \in Queries : Drop(s)
             \/ \E k \in Sockets : OtherTakes(k)
      PROVE  session'[owner'[<<addr'[p], Ports[i]>>]] # session'[p]
  <2>1. UNCHANGED <<session, addr, opened, pc>>
    BY <1>8 DEF Drop, OtherTakes
  <2>2. addr[p] \in Candidates /\ i \in DOMAIN Ports
    BY <1>0, <2>1, FirstPort DEF LocalOK, HasAddr
  <2>3. S(i) \in Sockets
    BY <2>2, SocketType
  <2>4. owner'[S(i)] \in {owner[S(i)], None, Other}
    BY <1>0, <1>8, <2>3 DEF Drop, OtherTakes
  <2> QED
    BY <2>1, <2>4 DEF KeptFree
<1> QED
  BY <1>3, <1>4, <1>5, <1>6, <1>7, <1>8 DEF Next, LocalStep

\* Gateways that are built at once over one session instance never meet: the
\* ports one has yet to forward stay free of the others', and its address is its
\* own, however the probes, failures and losses of connections fall.
THEOREM SameSessionApart == Spec => []SameSessionNoConflict
<1> DEFINE Inv == SubwayInv /\ \A p \in Queries : KeptFree(p)
<1>1. Init => Inv
  BY SubwayInit DEF Init, KeptFree
<1>2. Inv /\ [Next]_vars => Inv'
  BY SubwayNext, KeptFreeStep
<1>3. Inv => SameSessionNoConflict
  BY OneInMonitor DEF KeptFree, SameSessionNoConflict, InMonitor
<1> HIDE DEF Inv
<1> QED
  BY <1>1, <1>2, <1>3, PTL DEF Spec
-----------------------------------------------------------------------------
(* Entrances.  While a gateway is built its thread is in the monitor, so   *)
(* the connection cannot be replaced under it: it has the ports forwarded  *)
(* so far, or, the connection lost, none and gets no further.              *)

Has(g, i) == owner[<<addr[g], Ports[i]>>] = g

\* The gateways that are made: all their ports were forwarded.
Made(g) == pc[g] = "register" \/ (pc[g] = "answered" /\ opened[g] = Len(Ports))
Filed(g) == g \in Queries /\ pc[g] = "answered" /\ opened[g] = Len(Ports)

PortsOK(g) ==
  /\ pc[g] = "forward" =>
       \A i \in DOMAIN Ports : Has(g, i) <=> ssh[session[g]] = "up" /\ i <= opened[g]
  /\ Made(g) =>
       /\ addr[g] \in Candidates
       /\ (\A i \in DOMAIN Ports : Has(g, i)) \/ (\A i \in DOMAIN Ports : ~Has(g, i))

EntranceInv ==
  /\ SubwayInv
  /\ \A g \in Queries : PortsOK(g)
  /\ \A n \in Names : table[n] # None => Filed(table[n])
  /\ \A q \in Queries : gateway[q] # None => Filed(gateway[q])

LEMMA FiledStays ==
  ASSUME SubwayInv, [Next]_vars, NEW g, Filed(g)
  PROVE  Filed(g)'
<1> USE DEF Filed, Goto, SubwayInv, TypeOK
<1>1. CASE UNCHANGED vars
  BY <1>1 DEF vars
<1>2. ASSUME NEW q \in Queries, Arrive(q) \/ LocalStep(q) \/ ResolveTarget(q)
      PROVE  Filed(g)'
  <2>1. pc[q] # "answered"
    BY <1>2 DEF Arrive, LocalStep, ResolveTarget, Lookup, FindSession, FindSessionRaces,
       MakeSession, Enter, Connect, Reenter, Probe, Forward, ForwardFails, Register
  <2>2. pc'[g] = pc[g]
    BY <1>2, <2>1 DEF Arrive, LocalStep, ResolveTarget, Lookup, FindSession, FindSessionRaces,
       MakeSession, Enter, Connect, Reenter, Probe, Forward, ForwardFails, Register
  <2>3. opened'[g] = opened[g]
    BY <1>2, <2>1 DEF Arrive, LocalStep, ResolveTarget, Lookup, FindSession, FindSessionRaces,
       MakeSession, Enter, Connect, Reenter, Probe, Forward, ForwardFails, Register
  <2> QED
    BY <2>2, <2>3
<1>3. ASSUME \/ \E s \in Queries : Drop(s)
             \/ \E k \in Sockets : OtherTakes(k)
      PROVE  Filed(g)'
  BY <1>3 DEF Drop, OtherTakes
<1> QED
  BY <1>1, <1>2, <1>3 DEF Next

LEMMA PortsStep ==
  ASSUME SubwayInv, [Next]_vars, NEW g \in Queries, PortsOK(g)
  PROVE  PortsOK(g)'
<1> DEFINE S(i) == <<addr[g], Ports[i]>>
           Kept == UNCHANGED <<pc[g], session[g], addr[g], opened[g]>>
<1> USE DEF Goto
<1>0. /\ pc \in [Queries -> Pcs] /\ owner \in [Sockets -> Queries \cup {None, Other}]
      /\ opened \in [Queries -> 0..Len(Ports)] /\ addr \in [Queries -> Candidates \cup {None}]
      /\ session \in [Queries -> Queries \cup {None}]
      /\ \A q \in Queries : LocalOK(q)
      /\ \A k \in Sockets : OwnerOK(k)
      /\ Len(Ports) \in Nat \ {0} /\ DOMAIN Ports = 1..Len(Ports)
  BY FirstPort DEF SubwayInv, TypeOK
<1>1. ASSUME pc'[g] # "forward", pc'[g] # "register",
             pc'[g] = "answered" => opened'[g] # Len(Ports)
      PROVE  PortsOK(g)'
  BY <1>1 DEF PortsOK, Made
<1>2. ASSUME Kept, owner' = owner, pc[g] = "forward" => ssh'[session[g]] = ssh[session[g]]
      PROVE  PortsOK(g)'
  BY <1>2 DEF PortsOK, Made, Has
<1>3. CASE UNCHANGED vars
  BY <1>2, <1>3 DEF vars
<1>4. ASSUME NEW q \in Queries, \/ Arrive(q) \/ FindSession(q) \/ FindSessionRaces(q)
                                \/ MakeSession(q) \/ Enter(q) \/ ResolveTarget(q)
                                \/ Reenter(q) \/ ForwardFails(q)
      PROVE  PortsOK(g)'
  <2>1. /\ UNCHANGED <<owner, ssh, opened>>
        /\ pc'[q] \notin {"forward", "register", "answered"}
        /\ \A p \in Queries \ {q} : pc'[p] = pc[p] /\ session'[p] = session[p] /\ addr'[p] = addr[p]
    BY <1>0, <1>4 DEF Arrive, FindSession, FindSessionRaces, MakeSession, Enter, ResolveTarget,
       Reenter, ForwardFails
  <2> QED
    BY <1>1, <1>2, <2>1
<1>5. ASSUME NEW q \in Queries, Lookup(q) PROVE PortsOK(g)'
  <2>1. /\ UNCHANGED <<owner, ssh, opened, session, addr>> /\ opened[q] = 0
        /\ pc'[q] \in {"session", "answered"}
        /\ \A p \in Queries \ {q} : pc'[p] = pc[p]
    BY <1>0, <1>5 DEF Lookup, LocalOK, MayOwn
  <2> QED
    BY <1>0, <1>1, <1>2, <2>1
<1>6. ASSUME NEW q \in Queries, Connect(q) PROVE PortsOK(g)'
  <2>1. /\ UNCHANGED <<owner, opened, session, addr>> /\ pc[q] = "connect"
        /\ pc'[q] \in {"target", "failed"}
        /\ \A p \in Queries \ {q} : pc'[p] = pc[p]
        /\ \A s \in Queries \ {session[q]} : ssh'[s] = ssh[s]
    BY <1>0, <1>6 DEF Connect, SubwayInv, TypeOK
  <2>2. CASE g = q
    BY <1>1, <2>1, <2>2
  <2>3. CASE g # q
    <3>1. pc[g] = "forward" => session[g] \in Queries /\ session[g] # session[q]
      BY <1>0, <2>1, <2>3, OneInMonitor DEF LocalOK, HasTarget, InMonitor
    <3> QED
      BY <1>2, <2>1, <2>3, <3>1
  <2> QED
    BY <2>2, <2>3
<1>7. ASSUME NEW q \in Queries, Probe(q) PROVE PortsOK(g)'
  <2>1. /\ UNCHANGED <<owner, ssh, opened, session>> /\ opened[q] = 0 /\ pc[q] = "probe"
        /\ addr[q] \in Candidates
        /\ \A p \in Queries \ {q} : pc'[p] = pc[p] /\ addr'[p] = addr[p]
        /\ pc'[q] \in {"probe", "forward", "failed"}
        /\ pc'[q] = "forward" => UNCHANGED addr
    <3>1. /\ UNCHANGED <<owner, ssh, opened, session>> /\ pc[q] = "probe"
          /\ \/ pc' = [pc EXCEPT ![q] = "forward"] /\ UNCHANGED addr
             \/ addr' = [addr EXCEPT ![q] = addr[q] + 1] /\ UNCHANGED pc
             \/ pc' = [pc EXCEPT ![q] = "failed"] /\ UNCHANGED addr
      BY <1>7 DEF Probe
    <3>2. opened[q] = 0 /\ addr[q] \in Candidates
      BY <1>0, <3>1 DEF LocalOK, MayOwn, HasAddr
    <3> QED
      BY <1>0, <3>1, <3>2
  <2>2. CASE g = q /\ pc'[q] = "forward"
    <3>1. \A i \in DOMAIN Ports : ~Has(g, i)
      BY <2>1, <2>2, OwnsNothing, SocketType DEF Has, MayOwn
    <3> QED
      BY <1>0, <2>1, <2>2, <3>1 DEF PortsOK, Made, Has
  <2>3. CASE g = q /\ pc'[q] # "forward"
    BY <1>1, <2>1, <2>3
  <2>4. CASE g # q
    BY <1>2, <2>1, <2>4
  <2> QED
    BY <2>2, <2>3, <2>4
<1>8. ASSUME NEW q \in Queries, Forward(q) PROVE PortsOK(g)'
  <2> DEFINE n == NextSocket(q)
  <2>1. /\ UNCHANGED <<session, addr, ssh>> /\ pc[q] = "forward" /\ ssh[session[q]] = "up"
        /\ owner[n] = None
        /\ \A p \in Queries \ {q} : pc'[p] = pc[p] /\ opened'[p] = opened[p]
        /\ owner' = [owner EXCEPT ![n] = q]
        /\ opened'[q] = opened[q] + 1
        /\ \/ opened'[q] = Len(Ports) /\ pc'[q] = "register"
           \/ pc'[q] = "forward"
    BY <1>0, <1>8 DEF Forward
  <2>2. CASE g = q
    <3>1. /\ addr[q] \in Candidates /\ opened[q] + 1 \in DOMAIN Ports
          /\ opened[q] \in Nat
      BY <1>0, <2>1 DEF LocalOK, HasAddr
    <3>2. \A i \in DOMAIN Ports : S(i) \in Sockets /\ (S(i) = n <=> i = opened[q] + 1)
      BY <2>2, <3>1, SocketType, PortsAssumption DEF NextSocket
    <3>3. \A i \in DOMAIN Ports : Has(g, i)' <=> i <= opened[q] + 1
      <4> TAKE i \in DOMAIN Ports
      <4>1. Has(g, i) <=> i <= opened[q]
        BY <2>1, <2>2 DEF PortsOK
      <4>2. Has(g, i)' <=> owner'[S(i)] = q
        BY <2>1, <2>2 DEF Has
      <4>3. CASE i = opened[q] + 1
        BY <1>0, <2>1, <3>1, <3>2, <4>2, <4>3
      <4>4. CASE i # opened[q] + 1
        <5>1. owner'[S(i)] = owner[S(i)]
          BY <2>1, <3>2, <4>4
        <5>2. i <= opened[q] <=> i <= opened[q] + 1
          BY <1>0, <3>1, <4>4
        <5> QED
          BY <2>2, <4>1, <4>2, <5>1, <5>2 DEF Has
      <4> QED
        BY <4>3, <4>4
    <3>4. \A i \in DOMAIN Ports : Has(g, i)' <=> i <= opened'[q]
      BY <2>1, <3>3
    <3>5. CASE pc'[q] = "forward"
      BY <2>1, <2>2, <3>4, <3>5 DEF PortsOK, Made
    <3>6. CASE opened'[q] = Len(Ports) /\ pc'[q] = "register"
      <4>1. \A i \in DOMAIN Ports : Has(g, i)'
        BY <1>0, <3>4, <3>6
      <4> QED
        BY <2>1, <2>2, <3>1, <3>6, <4>1 DEF PortsOK, Made
    <3> QED
      BY <2>1, <3>5, <3>6
  <2>3. CASE g # q
    <3>1. \A i \in DOMAIN Ports : addr[g] \in Candidates => (Has(g, i)' <=> Has(g, i))
      <4> SUFFICES ASSUME NEW i \in DOMAIN Ports, addr[g] \in Candidates
                   PROVE  Has(g, i)' <=> Has(g, i)
        OBVIOUS
      <4>1. S(i) \in Sockets
        BY SocketType
      <4>2. CASE S(i) = n
        BY <1>0, <2>1, <2>3, <4>1, <4>2, NoneAssumption DEF Has
      <4>3. CASE S(i) # n
        BY <1>0, <2>1, <4>1, <4>3 DEF Has
      <4> QED
        BY <4>2, <4>3
    <3>2. pc[g] = "forward" => addr[g] \in Candidates
      BY <1>0 DEF LocalOK, HasAddr
    <3> QED
      BY <2>1, <2>3, <3>1, <3>2 DEF PortsOK, Made
  <2> QED
    BY <2>2, <2>3
<1>9. ASSUME NEW q \in Queries, Register(q) PROVE PortsOK(g)'
  <2>1. /\ UNCHANGED <<session, addr, ssh, owner, opened>> /\ pc[q] = "register"
        /\ pc'[q] = "answered"
        /\ \A p \in Queries \ {q} : pc'[p] = pc[p]
    BY <1>0, <1>9 DEF Register
  <2>2. CASE g = q
    BY <2>1, <2>2 DEF PortsOK, Made, Has
  <2>3. CASE g # q
    BY <1>2, <2>1, <2>3
  <2> QED
    BY <2>2, <2>3
<1>10. ASSUME NEW s \in Queries, Drop(s) PROVE PortsOK(g)'
  <2>1. /\ UNCHANGED <<session, addr, pc, opened>>
        /\ owner' = [k \in Sockets |-> IF k \in OverSession(s) THEN None ELSE owner[k]]
        /\ ssh' = [ssh EXCEPT ![s] = "closed"] /\ ssh \in [Queries -> {"null", "up", "unauthenticated", "closed"}]
    BY <1>10 DEF Drop, SubwayInv, TypeOK
  <2>2. ASSUME addr[g] \in Candidates, NEW i \in DOMAIN Ports
        PROVE  Has(g, i)' <=> Has(g, i) /\ session[g] # s
    <3>1. S(i) \in Sockets
      BY <2>2, SocketType
    <3>2. S(i) \in OverSession(s) <=> owner[S(i)] \in Queries /\ session[owner[S(i)]] = s
      BY <3>1 DEF OverSession
    <3> QED
      BY <1>0, <2>1, <3>1, <3>2, NoneAssumption DEF Has
  <2>3. CASE pc[g] = "forward"
    <3>1. addr[g] \in Candidates /\ session[g] \in Queries
      BY <1>0, <2>3 DEF LocalOK, HasAddr, HasTarget
    <3>2. ssh'[session[g]] = "up" <=> ssh[session[g]] = "up" /\ session[g] # s
      BY <2>1, <3>1
    <3> QED
      BY <2>1, <2>2, <2>3, <3>1, <3>2 DEF PortsOK, Made
  <2>4. CASE pc[g] # "forward"
    BY <2>1, <2>2, <2>4 DEF PortsOK, Made
  <2> QED
    BY <2>3, <2>4
<1>11. ASSUME NEW k \in Sockets, OtherTakes(k) PROVE PortsOK(g)'
  <2>1. /\ UNCHANGED <<session, addr, pc, opened, ssh>>
        /\ owner' = [owner EXCEPT ![k] = Other] /\ owner[k] = None
    BY <1>11 DEF OtherTakes
  <2>2. ASSUME addr[g] \in Candidates, NEW i \in DOMAIN Ports
        PROVE  Has(g, i)' <=> Has(g, i)
    <3>1. S(i) \in Sockets
      BY <2>2, SocketType
    <3> QED
      BY <1>0, <2>1, <3>1, NoneAssumption DEF Has
  <2>3. pc[g] = "forward" => addr[g] \in Candidates
    BY <1>0 DEF LocalOK, HasAddr
  <2> QED
    BY <2>1, <2>2, <2>3 DEF PortsOK, Made
<1> QED
  BY <1>3, <1>4, <1>5, <1>6, <1>7, <1>8, <1>9, <1>10, <1>11 DEF Next, LocalStep

LEMMA EntranceStep == EntranceInv /\ [Next]_vars => EntranceInv'
<1> SUFFICES ASSUME EntranceInv, [Next]_vars PROVE EntranceInv'
  OBVIOUS
<1>0. SubwayInv /\ TypeOK /\ \A q \in Queries : LocalOK(q)
  BY DEF EntranceInv, SubwayInv
<1>1. SubwayInv' /\ \A g \in Queries : PortsOK(g)'
  BY SubwayNext, PortsStep DEF EntranceInv
<1>2. ASSUME UNCHANGED <<table, gateway>> PROVE EntranceInv'
  BY <1>0, <1>1, <1>2, FiledStays DEF EntranceInv
<1>3. ASSUME NEW q \in Queries, Lookup(q) PROVE EntranceInv'
  <2>1. /\ UNCHANGED table /\ name[q] \in Names
        /\ \/ UNCHANGED gateway
           \/ table[name[q]] # None /\ gateway' = [gateway EXCEPT ![q] = table[name[q]]]
    BY <1>0, <1>3 DEF Lookup, LocalOK
  <2>2. \A p \in Queries : gateway'[p] # None => Filed(gateway'[p])
    BY <1>0, <2>1 DEF EntranceInv, TypeOK
  <2> QED
    BY <1>0, <1>1, <2>1, <2>2, FiledStays DEF EntranceInv
<1>4. ASSUME NEW q \in Queries, Register(q) PROVE EntranceInv'
  <2>1. /\ table' = [table EXCEPT ![name[q]] = q]
        /\ gateway' = [gateway EXCEPT ![q] = q]
    BY <1>4 DEF Register
  <2>2. Filed(q)'
    BY <1>0, <1>4 DEF Register, Goto, Filed, LocalOK, TypeOK
  <2>3. \A n \in Names : table'[n] # None => table'[n] = q \/ Filed(table'[n])
    BY <1>0, <2>1 DEF EntranceInv, TypeOK
  <2>4. \A p \in Queries : gateway'[p] # None => gateway'[p] = q \/ Filed(gateway'[p])
    BY <1>0, <2>1 DEF EntranceInv, TypeOK
  <2>5. ASSUME NEW g, Filed(g) PROVE Filed(g)'
    BY <1>0, <2>5, FiledStays
  <2> QED
    BY <1>1, <2>2, <2>3, <2>4, <2>5 DEF EntranceInv
<1>5. CASE UNCHANGED vars
  BY <1>2, <1>5 DEF vars
<1>6. ASSUME NEW q \in Queries, \/ Arrive(q) \/ FindSession(q) \/ FindSessionRaces(q)
                                \/ MakeSession(q) \/ Enter(q) \/ Connect(q) \/ ResolveTarget(q)
                                \/ Reenter(q) \/ Probe(q) \/ Forward(q) \/ ForwardFails(q)
      PROVE  EntranceInv'
  BY <1>2, <1>6 DEF Arrive, FindSession, FindSessionRaces, MakeSession, Enter, Connect,
     ResolveTarget, Reenter, Probe, Forward, ForwardFails
<1>7. ASSUME \/ \E s \in Queries : Drop(s)
             \/ \E k \in Sockets : OtherTakes(k)
      PROVE  EntranceInv'
  BY <1>2, <1>7 DEF Drop, OtherTakes
<1> QED
  BY <1>3, <1>4, <1>5, <1>6, <1>7 DEF Next, LocalStep

\* The ports of an answered entrance are forwarded together or not at all, for
\* any number of ports, although they are forwarded one at a time, any of them
\* may fail, and the connection may be lost and opened again by another thread.
THEOREM EntranceIsWhole == Spec => []EntranceAllOrNothing
<1>1. Init => EntranceInv
  BY SubwayInit DEF Init, EntranceInv, PortsOK, Made
<1>2. EntranceInv => EntranceAllOrNothing
  <2> SUFFICES ASSUME EntranceInv, NEW q \in Queries, NEW g \in Queries, gateway[q] = g
               PROVE  LET mine == {i \in DOMAIN Ports : owner[<<addr[g], Ports[i]>>] = g}
                      IN  mine = {} \/ mine = DOMAIN Ports
    BY DEF EntranceAllOrNothing
  <2>1. PortsOK(g) /\ Made(g)
    BY NoneAssumption DEF EntranceInv, Filed, Made
  <2> QED
    BY <2>1 DEF PortsOK, Has
<1> QED
  BY <1>1, <1>2, EntranceStep, PTL DEF Spec
-----------------------------------------------------------------------------
(* Home.  A gateway is filed under the name it was made for and handed out *)
(* under that name only; a thread's name is settled before it makes one.   *)
(* Until a connection is lost a gateway that is made has all its ports.    *)

Whole(g) == \A i \in DOMAIN Ports : Has(g, i)

HomeInv ==
  /\ EntranceInv
  /\ \A n \in Names : table[n] # None => name[table[n]] = n
  /\ \A q \in Queries : pc[q] = "answered" =>
       gateway[q] \in Queries /\ name[gateway[q]] = name[q]
  /\ drops = 0 => \A g \in Queries : Made(g) => Whole(g)

\* The name of a query changes when it arrives and at no other time.
LEMMA NameStays ==
  ASSUME SubwayInv, [Next]_vars, NEW g \in Queries, pc[g] # "idle"
  PROVE  name'[g] = name[g]
<1>1. ASSUME NEW q \in Queries, Arrive(q) PROVE name'[g] = name[g]
  BY <1>1 DEF Arrive, SubwayInv, TypeOK
<1>2. ASSUME NEW q \in Queries, LocalStep(q) \/ ResolveTarget(q) PROVE name'[g] = name[g]
  BY <1>2 DEF LocalStep, ResolveTarget, Lookup, FindSession, FindSessionRaces, MakeSession,
     Enter, Connect, Reenter, Probe, Forward, ForwardFails, Register
<1>3. ASSUME \/ \E s \in Queries : Drop(s)
             \/ \E k \in Sockets : OtherTakes(k)
      PROVE  name'[g] = name[g]
  BY <1>3 DEF Drop, OtherTakes
<1>4. CASE UNCHANGED vars
  BY <1>4 DEF vars
<1> QED
  BY <1>1, <1>2, <1>3, <1>4 DEF Next

\* A gateway is made by forwarding the last of its ports, while the connection
\* it was built over is up: it has them all.
LEMMA MadeWhole ==
  ASSUME EntranceInv, [Next]_vars, drops' = 0, NEW g \in Queries,
         Made(g) => Whole(g), Made(g)'
  PROVE  Whole(g)'
<1> USE DEF Goto
<1>0. /\ SubwayInv /\ pc \in [Queries -> Pcs] /\ owner \in [Sockets -> Queries \cup {None, Other}]
      /\ opened \in [Queries -> 0..Len(Ports)] /\ addr \in [Queries -> Candidates \cup {None}]
      /\ drops \in Nat
      /\ \A q \in Queries : LocalOK(q) /\ PortsOK(q)
      /\ Len(Ports) \in Nat \ {0} /\ DOMAIN Ports = 1..Len(Ports)
  BY FirstPort DEF EntranceInv, SubwayInv, TypeOK
<1>1. ASSUME Made(g), UNCHANGED <<owner, addr[g]>> PROVE Whole(g)'
  BY <1>1 DEF Whole, Has
<1>2. CASE UNCHANGED vars
  <2>1. Made(g)
    BY <1>2 DEF vars, Made
  <2> QED
    BY <1>1, <1>2, <2>1 DEF vars
<1>3. ASSUME NEW q \in Queries, \/ Arrive(q) \/ FindSession(q) \/ FindSessionRaces(q)
                                \/ MakeSession(q) \/ Enter(q) \/ Connect(q) \/ ResolveTarget(q)
                                \/ Reenter(q) \/ Probe(q) \/ ForwardFails(q)
      PROVE  Whole(g)'
  <2>1. /\ UNCHANGED <<owner, opened>>
        /\ pc'[q] \notin {"register", "answered"}
        /\ \A p \in Queries \ {q} : pc'[p] = pc[p] /\ addr'[p] = addr[p]
    BY <1>0, <1>3 DEF Arrive, FindSession, FindSessionRaces, MakeSession, Enter, Connect,
       ResolveTarget, Reenter, Probe, ForwardFails
  <2> QED
    BY <1>1, <2>1 DEF Made
<1>4. ASSUME NEW q \in Queries, Lookup(q) PROVE Whole(g)'
  <2>1. /\ UNCHANGED <<owner, opened, addr>> /\ opened[q] = 0
        /\ pc'[q] \in {"session", "answered"}
        /\ \A p \in Queries \ {q} : pc'[p] = pc[p]
    BY <1>0, <1>4 DEF Lookup, LocalOK, MayOwn
  <2> QED
    BY <1>0, <1>1, <2>1 DEF Made
<1>5. ASSUME NEW q \in Queries, Register(q) PROVE Whole(g)'
  <2>1. /\ UNCHANGED <<owner, opened, addr>> /\ pc[q] = "register"
        /\ \A p \in Queries \ {q} : pc'[p] = pc[p]
    BY <1>0, <1>5 DEF Register
  <2> QED
    BY <1>1, <2>1 DEF Made
<1>6. ASSUME NEW q \in Queries, Forward(q) PROVE Whole(g)'
  <2> DEFINE n == NextSocket(q)
  <2>1. /\ UNCHANGED <<addr, session, ssh>> /\ pc[q] = "forward" /\ owner[n] = None
        /\ \A p \in Queries \ {q} : pc'[p] = pc[p] /\ opened'[p] = opened[p]
        /\ owner' = [owner EXCEPT ![n] = q]
        /\ opened'[q] = opened[q] + 1
        /\ \/ opened'[q] = Len(Ports)
           \/ pc'[q] = "forward"
    BY <1>0, <1>6 DEF Forward
  <2>2. CASE g = q
    <3>1. addr[q] \in Candidates /\ opened[q] \in Nat /\ opened[q] + 1 = Len(Ports)
      BY <1>0, <2>1, <2>2 DEF LocalOK, HasAddr, Made
    <3>2. Len(Ports) \in DOMAIN Ports
      BY <1>0
    <3>3. n \in Sockets /\ n = <<addr[q], Ports[Len(Ports)]>>
      BY <3>1, <3>2, SocketType DEF NextSocket
    <3>4. Has(q, Len(Ports))'
      BY <1>0, <2>1, <3>3 DEF Has
    <3>5. PortsOK(q)'
      BY <1>0, PortsStep
    <3> QED
      BY <2>2, <3>2, <3>4, <3>5 DEF PortsOK, Whole
  <2>3. CASE g # q
    <3>1. Made(g) /\ addr[g] \in Candidates
      BY <1>0, <2>1, <2>3 DEF Made, PortsOK
    <3>2. \A i \in DOMAIN Ports : Has(g, i)'
      <4> TAKE i \in DOMAIN Ports
      <4>1. <<addr[g], Ports[i]>> \in Sockets /\ owner[<<addr[g], Ports[i]>>] = g
        BY <3>1, SocketType DEF Whole, Has
      <4>2. <<addr[g], Ports[i]>> # n
        BY <2>1, <4>1, NoneAssumption
      <4> QED
        BY <1>0, <2>1, <4>1, <4>2 DEF Has
    <3> QED
      BY <3>2 DEF Whole
  <2> QED
    BY <2>2, <2>3
<1>7. ASSUME NEW s \in Queries, Drop(s) PROVE FALSE
  BY <1>0, <1>7 DEF Drop
<1>8. ASSUME NEW k \in Sockets, OtherTakes(k) PROVE Whole(g)'
  <2>1. /\ UNCHANGED <<addr, pc, opened>>
        /\ owner' = [owner EXCEPT ![k] = Other] /\ owner[k] = None
    BY <1>8 DEF OtherTakes
  <2>2. Made(g) /\ addr[g] \in Candidates
    BY <1>0, <2>1 DEF Made, PortsOK
  <2>3. \A i \in DOMAIN Ports : Has(g, i)'
    <3> TAKE i \in DOMAIN Ports
    <3>1. <<addr[g], Ports[i]>> \in Sockets /\ owner[<<addr[g], Ports[i]>>] = g
      BY <2>2, SocketType DEF Whole, Has
    <3>2. <<addr[g], Ports[i]>> # k
      BY <2>1, <3>1, NoneAssumption
    <3> QED
      BY <1>0, <2>1, <3>1, <3>2 DEF Has
  <2> QED
    BY <2>3 DEF Whole
<1> QED
  BY <1>2, <1>3, <1>4, <1>5, <1>6, <1>7, <1>8 DEF Next, LocalStep

LEMMA HomeStep == HomeInv /\ [Next]_vars => HomeInv'
<1> SUFFICES ASSUME HomeInv, [Next]_vars PROVE HomeInv'
  OBVIOUS
<1> USE DEF Goto
<1>0. /\ EntranceInv /\ EntranceInv' /\ SubwayInv /\ TypeOK /\ drops \in Nat
      /\ \A q \in Queries : LocalOK(q)
  <2>1. EntranceInv /\ EntranceInv'
    BY EntranceStep DEF HomeInv
  <2>2. SubwayInv
    BY <2>1 DEF EntranceInv
  <2>3. TypeOK /\ \A q \in Queries : LocalOK(q)
    BY <2>2 DEF SubwayInv
  <2>4. drops \in Nat
    BY <2>3, BoundsAssumption DEF TypeOK
  <2> QED
    BY <2>1, <2>2, <2>3, <2>4
<1>1. ASSUME NEW g \in Queries, Filed(g) PROVE name'[g] = name[g]
  BY <1>0, <1>1, NameStays DEF Filed
<1>2. drops' = 0 => drops = 0
  <2>1. drops' = drops \/ drops' = drops + 1
    BY DEF Next, vars, Arrive, LocalStep, ResolveTarget, Lookup, FindSession, FindSessionRaces,
       MakeSession, Enter, Connect, Reenter, Probe, Forward, ForwardFails, Register, Drop, OtherTakes
  <2> QED
    BY <1>0, <2>1
<1>3. drops' = 0 => \A g \in Queries : Made(g)' => Whole(g)'
  BY <1>0, <1>2, MadeWhole DEF HomeInv
<1>4. ASSUME UNCHANGED table PROVE \A n \in Names : table'[n] # None => name'[table'[n]] = n
  BY <1>0, <1>1, <1>4 DEF HomeInv, EntranceInv, Filed
<1>5. ASSUME NEW p \in Queries, pc[p] = "answered", gateway'[p] = gateway[p]
      PROVE  gateway'[p] \in Queries /\ name'[gateway'[p]] = name'[p]
  <2>1. gateway[p] \in Queries /\ name[gateway[p]] = name[p] /\ Filed(gateway[p])
    BY <1>0, <1>5, NoneAssumption DEF HomeInv, EntranceInv
  <2>2. name'[p] = name[p]
    BY <1>0, <1>5, NameStays
  <2> QED
    BY <1>1, <1>5, <2>1, <2>2
<1>6. ASSUME UNCHANGED table,
             \A p \in Queries : pc'[p] = "answered" =>
               pc[p] = "answered" /\ gateway'[p] = gateway[p]
      PROVE  HomeInv'
  BY <1>0, <1>3, <1>4, <1>5, <1>6 DEF HomeInv
<1>7. ASSUME NEW q \in Queries, Lookup(q) PROVE HomeInv'
  <2>1. /\ UNCHANGED <<table, name>> /\ name[q] \in Names /\ pc[q] = "lookup"
        /\ \A p \in Queries \ {q} : pc'[p] = pc[p] /\ gateway'[p] = gateway[p]
        /\ pc'[q] = "answered" => table[name[q]] # None /\ gateway'[q] = table[name[q]]
    BY <1>0, <1>7 DEF Lookup, LocalOK, TypeOK
  <2>2. pc'[q] = "answered" => gateway'[q] \in Queries /\ name'[gateway'[q]] = name'[q]
    BY <1>0, <2>1 DEF HomeInv, TypeOK
  <2> QED
    BY <1>0, <1>3, <1>4, <1>5, <2>1, <2>2 DEF HomeInv
<1>8. ASSUME NEW q \in Queries, Register(q) PROVE HomeInv'
  <2>1. /\ UNCHANGED name /\ name[q] \in Names /\ pc[q] = "register"
        /\ table' = [table EXCEPT ![name[q]] = q] /\ gateway'[q] = q
        /\ \A p \in Queries \ {q} : pc'[p] = pc[p] /\ gateway'[p] = gateway[p]
    BY <1>0, <1>8 DEF Register, LocalOK, TypeOK
  <2>2. \A n \in Names : table'[n] # None => name'[table'[n]] = n
    BY <1>0, <2>1 DEF HomeInv, TypeOK
  <2> QED
    BY <1>0, <1>3, <1>5, <2>1, <2>2 DEF HomeInv
<1>9. CASE UNCHANGED vars
  BY <1>6, <1>9 DEF vars
<1>10. ASSUME NEW q \in Queries, \/ Arrive(q) \/ FindSession(q) \/ FindSessionRaces(q)
                                 \/ MakeSession(q) \/ Enter(q) \/ Connect(q) \/ ResolveTarget(q)
                                 \/ Reenter(q) \/ Probe(q) \/ Forward(q) \/ ForwardFails(q)
       PROVE  HomeInv'
  <2>1. /\ UNCHANGED <<table, gateway>> /\ pc'[q] # "answered"
        /\ \A p \in Queries \ {q} : pc'[p] = pc[p]
    BY <1>0, <1>10 DEF TypeOK, Arrive, FindSession, FindSessionRaces, MakeSession, Enter, Connect,
       ResolveTarget, Reenter, Probe, Forward, ForwardFails
  <2> QED
    BY <1>6, <2>1
<1>11. ASSUME \/ \E s \in Queries : Drop(s)
              \/ \E k \in Sockets : OtherTakes(k)
       PROVE  HomeInv'
  BY <1>6, <1>11 DEF Drop, OtherTakes
<1> QED
  BY <1>7, <1>8, <1>9, <1>10, <1>11 DEF Next, LocalStep

\* What an answer leads to: the gateway of an answered query was made for the
\* domain asked for, and until a connection is lost all its ports are its own,
\* for any number of queries, domains, ports and addresses.
THEOREM EntranceLeadsHome == Spec => []AnswersLeadHome
<1>1. Init => EntranceInv
  BY SubwayInit DEF Init, EntranceInv, PortsOK, Made
<1>2. Init => HomeInv
  BY <1>1 DEF Init, HomeInv, Made
<1>3. HomeInv => AnswersLeadHome
  <2> SUFFICES ASSUME HomeInv, NEW q \in Queries, pc[q] = "answered"
               PROVE  /\ gateway[q] \in Queries /\ name[gateway[q]] = name[q]
                      /\ drops = 0 => Whole(gateway[q])
    BY DEF AnswersLeadHome, Whole, Has
  <2>1. gateway[q] \in Queries /\ name[gateway[q]] = name[q]
    BY DEF HomeInv
  <2>2. Made(gateway[q])
    BY <2>1, NoneAssumption DEF HomeInv, EntranceInv, Filed, Made
  <2> QED
    BY <2>1, <2>2 DEF HomeInv
<1> QED
  BY <1>2, <1>3, HomeStep, PTL DEF Spec

-----------------------------------------------------------------------------
(* Monitors.  The blocks of open are left on every path out of them.       *)

MonitorInv == SubwayInv /\ MonitorIsLeft

LEMMA MonitorStep == MonitorInv /\ [Next]_vars => MonitorInv'
<1> SUFFICES ASSUME MonitorInv, [Next]_vars PROVE MonitorIsLeft'
  BY SubwayNext DEF MonitorInv
<1> USE DEF Goto
<1>0. /\ pc \in [Queries -> Pcs] /\ holder \in [Queries -> Queries \cup {None}]
      /\ session \in [Queries -> Queries \cup {None}]
      /\ \A q \in Queries : LocalOK(q)
  BY DEF MonitorInv, SubwayInv, TypeOK
<1>1. ASSUME holder' = holder,
             \A p \in Queries : pc[p] \in InMonitor =>
               pc'[p] \in InMonitor /\ session'[p] = session[p]
      PROVE  MonitorIsLeft'
  BY <1>0, <1>1 DEF MonitorInv, MonitorIsLeft, InMonitor
<1>2. ASSUME NEW q \in Queries, pc[q] \notin InMonitor, session[q] \in Queries,
             session' = session, pc'[q] \in InMonitor,
             holder' = [holder EXCEPT ![session[q]] = q],
             \A p \in Queries \ {q} : pc'[p] = pc[p]
      PROVE  MonitorIsLeft'
  BY <1>0, <1>2 DEF MonitorInv, MonitorIsLeft, InMonitor
<1>3. ASSUME NEW q \in Queries, pc[q] \in InMonitor, session' = session,
             holder' = [holder EXCEPT ![session[q]] = None],
             \A p \in Queries \ {q} : pc'[p] = pc[p]
      PROVE  MonitorIsLeft'
  <2>1. session[q] \in Queries
    BY <1>0, <1>3 DEF LocalOK, InMonitor, HasTarget
  <2>2. \A s \in Queries : holder'[s] # None =>
          s # session[q] /\ holder[s] # q /\ holder'[s] = holder[s]
    BY <1>0, <1>3, <2>1 DEF MonitorInv, MonitorIsLeft
  <2> QED
    BY <1>0, <1>3, <2>2 DEF MonitorInv, MonitorIsLeft
<1>4. CASE UNCHANGED vars
  BY <1>1, <1>4 DEF vars
<1>5. ASSUME NEW q \in Queries, \/ Arrive(q) \/ Lookup(q) \/ FindSession(q)
                                \/ FindSessionRaces(q) \/ MakeSession(q)
                                \/ ResolveTarget(q) \/ Register(q)
      PROVE  MonitorIsLeft'
  <2>1. /\ UNCHANGED holder /\ pc[q] \notin InMonitor
        /\ \A p \in Queries \ {q} : pc'[p] = pc[p] /\ session'[p] = session[p]
    BY <1>0, <1>5 DEF Arrive, Lookup, FindSession, FindSessionRaces, MakeSession,
       ResolveTarget, Register, InMonitor
  <2> QED
    BY <1>0, <1>1, <2>1
<1>6. ASSUME NEW q \in Queries, Enter(q) PROVE MonitorIsLeft'
  <2>1. /\ UNCHANGED session /\ pc[q] \notin InMonitor /\ session[q] \in Queries
        /\ \A p \in Queries \ {q} : pc'[p] = pc[p]
        /\ \/ UNCHANGED holder
           \/ pc'[q] \in InMonitor /\ holder' = [holder EXCEPT ![session[q]] = q]
    BY <1>0, <1>6 DEF Enter, Acquire, InMonitor, LocalOK, HasTarget
  <2> QED
    BY <1>0, <1>1, <1>2, <2>1
<1>7. ASSUME NEW q \in Queries, Reenter(q) PROVE MonitorIsLeft'
  <2>1. /\ UNCHANGED session /\ pc[q] \notin InMonitor /\ session[q] \in Queries
        /\ \A p \in Queries \ {q} : pc'[p] = pc[p]
        /\ \/ UNCHANGED holder
           \/ pc'[q] \in InMonitor /\ holder' = [holder EXCEPT ![session[q]] = q]
    BY <1>0, <1>7 DEF Reenter, Acquire, InMonitor, LocalOK, HasTarget
  <2> QED
    BY <1>0, <1>1, <1>2, <2>1
<1>8. ASSUME NEW q \in Queries, \/ Connect(q) \/ Probe(q) \/ Forward(q) \/ ForwardFails(q)
      PROVE  MonitorIsLeft'
  <2>1. /\ UNCHANGED session /\ pc[q] \in InMonitor
        /\ \A p \in Queries \ {q} : pc'[p] = pc[p]
        /\ \/ UNCHANGED holder /\ pc'[q] \in InMonitor
           \/ holder' = [holder EXCEPT ![session[q]] = None]
    BY <1>0, <1>8 DEF Connect, Probe, Forward, ForwardFails, Release, InMonitor
  <2> QED
    BY <1>0, <1>1, <1>3, <2>1
<1>9. ASSUME \/ \E s \in Queries : Drop(s)
             \/ \E k \in Sockets : OtherTakes(k)
      PROVE  MonitorIsLeft'
  BY <1>1, <1>9 DEF Drop, OtherTakes
<1> QED
  BY <1>4, <1>5, <1>6, <1>7, <1>8, <1>9 DEF Next, LocalStep

\* Nobody waits for a session instance that is with a thread which waits itself:
\* no cycle of waiting threads can form, for any number of them.
THEOREM MonitorsAreLeft == Spec => []MonitorIsLeft
<1>1. Init => MonitorInv
  BY SubwayInit DEF Init, MonitorInv, MonitorIsLeft
<1> QED
  BY <1>1, MonitorStep, PTL DEF Spec, MonitorInv
=============================================================================
