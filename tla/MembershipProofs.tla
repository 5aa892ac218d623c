-------------------------- MODULE MembershipProofs --------------------------
(***************************************************************************)
(* Proofs about the registry's table of peers: MembershipInv is inductive, *)
(* and with it what the freshness rule promises, for any number of peers,  *)
(* any times and any number of lost, late and repeated requests.           *)
(***************************************************************************)
EXTENDS PeerMembership, TLAPS

\* A new life of a peer leaves no request of its own behind it.
LEMMA StartPeerStep ==
  ASSUME MembershipInv, NEW p \in Peers, StartPeer(p)
  PROVE  MembershipInv'
<1> USE TimesAssumption DEF MembershipInv, peerVars, registryVars, observers, Old, Ages
<1> DEFINE n == [peer |-> p, kind |-> "register", live |-> TRUE,
                 stage |-> "sent", sent |-> 0, observed |-> 0]
<1>0. /\ requests' = requests \union {n} /\ n \in Requests
      /\ n.peer = p /\ n.sent = 0 /\ n.observed = 0 /\ n.stage = "sent"
      /\ \A r \in requests : r.live => r.peer # p
  BY DEF TypeOK, Requests, RequestsTracked, StartPeer, Call
<1> HIDE DEF n
<1>1. TypeOK'
  BY <1>0 DEF TypeOK, StartPeer, Call
<1>2. RequestsTracked'
  <2> SUFFICES ASSUME NEW r \in requests'
               PROVE  /\ r.observed <= r.sent /\ deadFor'[r.peer] <= r.sent
                      /\ r.live => /\ alive'[r.peer] /\ loop'[r.peer] = "calling"
                                   /\ r.sent = timer'[r.peer]
                                   /\ \A q \in requests' :
                                        (q.live /\ q.peer = r.peer) => q = r
    BY DEF RequestsTracked
  <2>1. CASE r = n
    BY <1>0, <2>1 DEF TypeOK, RequestsTracked, AgesBounded, StartPeer, Call
  <2>2. CASE r \in requests
    BY <1>0, <2>2 DEF TypeOK, Requests, RequestsTracked, AgesBounded, StartPeer, Call
  <2> QED
    BY <1>0, <2>1, <2>2
<1>3. AgesBounded'
  BY <1>0 DEF TypeOK, AgesBounded, StartPeer, Call
<1>4. RegisteredIsKnown'
  BY DEF TypeOK, RegisteredIsKnown, StartPeer, Call
<1> QED
  BY <1>1, <1>2, <1>3, <1>4

\* A turn of the heartbeat loop.
LEMMA WakeUpStep ==
  ASSUME MembershipInv, NEW p \in Peers, WakeUp(p)
  PROVE  MembershipInv'
<1> USE TimesAssumption DEF MembershipInv, peerVars, registryVars, observers, Old, Ages
<1> DEFINE n == [peer |-> p, kind |-> IF registered[p] THEN "heartbeat" ELSE "register", live |-> TRUE,
                 stage |-> "sent", sent |-> 0, observed |-> 0]
<1>0. /\ requests' = requests \union {n} /\ n \in Requests
      /\ n.peer = p /\ n.sent = 0 /\ n.observed = 0 /\ n.stage = "sent"
      /\ \A r \in requests : r.live => r.peer # p
  BY DEF TypeOK, Requests, RequestsTracked, WakeUp, Call
<1> HIDE DEF n
<1>1. TypeOK'
  BY <1>0 DEF TypeOK, WakeUp, Call
<1>2. RequestsTracked'
  <2> SUFFICES ASSUME NEW r \in requests'
               PROVE  /\ r.observed <= r.sent /\ deadFor'[r.peer] <= r.sent
                      /\ r.live => /\ alive'[r.peer] /\ loop'[r.peer] = "calling"
                                   /\ r.sent = timer'[r.peer]
                                   /\ \A q \in requests' :
                                        (q.live /\ q.peer = r.peer) => q = r
    BY DEF RequestsTracked
  <2>1. CASE r = n
    BY <1>0, <2>1 DEF TypeOK, RequestsTracked, AgesBounded, WakeUp, Call
  <2>2. CASE r \in requests
    BY <1>0, <2>2 DEF TypeOK, Requests, RequestsTracked, AgesBounded, WakeUp, Call
  <2> QED
    BY <1>0, <2>1, <2>2
<1>3. AgesBounded'
  BY <1>0 DEF TypeOK, AgesBounded, WakeUp, Call
<1>4. RegisteredIsKnown'
  BY DEF TypeOK, RegisteredIsKnown, WakeUp, Call
<1> QED
  BY <1>1, <1>2, <1>3, <1>4

\* An acknowledgement comes within Timeout of the request.
LEMMA CallSucceedsStep ==
  ASSUME MembershipInv, NEW p \in Peers, CallSucceeds(p)
  PROVE  MembershipInv'
<1> USE TimesAssumption DEF MembershipInv, peerVars, registryVars, observers, Old, Ages
<1>1. TypeOK'
  BY DEF TypeOK, Requests, CallSucceeds, Sleep
<1>2. RequestsTracked'
  BY DEF TypeOK, Requests, RequestsTracked, AgesBounded, CallSucceeds, Sleep
<1>3. AgesBounded'
  BY DEF TypeOK, Requests, RequestsTracked, AgesBounded, CallSucceeds, Sleep
<1>4. RegisteredIsKnown'
  BY DEF TypeOK, Requests, RequestsTracked, AgesBounded, RegisteredIsKnown, CallSucceeds, Sleep
<1> QED
  BY <1>1, <1>2, <1>3, <1>4

\* A 404 ends the call.
LEMMA CallRejectedStep ==
  ASSUME MembershipInv, NEW p \in Peers, CallRejected(p)
  PROVE  MembershipInv'
<1> USE TimesAssumption DEF MembershipInv, peerVars, registryVars, observers, Old, Ages
<1>1. TypeOK'
  BY DEF TypeOK, Requests, CallRejected, Sleep
<1>2. RequestsTracked'
  BY DEF TypeOK, Requests, RequestsTracked, AgesBounded, CallRejected, Sleep
<1>3. AgesBounded'
  BY DEF TypeOK, Requests, RequestsTracked, AgesBounded, CallRejected, Sleep
<1>4. RegisteredIsKnown'
  BY DEF TypeOK, Requests, RequestsTracked, AgesBounded, RegisteredIsKnown, CallRejected, Sleep
<1> QED
  BY <1>1, <1>2, <1>3, <1>4

\* Giving a call up keeps requests as they are but for the flag live.
LEMMA AbandonFacts ==
  ASSUME TypeOK, NEW p \in Peers, Abandon(p)
  PROVE  \A r \in requests' :
           /\ r \in Requests
           /\ r.live => r.peer # p /\ r \in requests
           /\ \E q \in requests : /\ r.peer = q.peer /\ r.stage = q.stage
                                  /\ r.sent = q.sent /\ r.observed = q.observed
<1> SUFFICES ASSUME NEW r \in requests'
             PROVE  /\ r \in Requests
                    /\ r.live => r.peer # p /\ r \in requests
                    /\ \E q \in requests : /\ r.peer = q.peer /\ r.stage = q.stage
                                           /\ r.sent = q.sent /\ r.observed = q.observed
  OBVIOUS
<1>1. CASE r \in requests /\ ~(r.peer = p /\ r.live)
  BY <1>1 DEF TypeOK
<1>2. CASE \E q \in requests : r = [q EXCEPT !.live = FALSE]
  BY <1>2 DEF TypeOK, Requests
<1> QED
  BY <1>1, <1>2 DEF Abandon

\* A call given up leaves at most a request nobody waits for.
LEMMA CallFailsStep ==
  ASSUME MembershipInv, NEW p \in Peers, CallFails(p)
  PROVE  MembershipInv'
<1> USE TimesAssumption DEF MembershipInv, peerVars, registryVars, observers, Old, Ages
<1>0. \A r \in requests' :
        /\ r \in Requests
        /\ r.live => r.peer # p /\ r \in requests
        /\ \E q \in requests : /\ r.peer = q.peer /\ r.stage = q.stage
                               /\ r.sent = q.sent /\ r.observed = q.observed
  BY AbandonFacts DEF CallFails, Sleep
<1>1. TypeOK'
  BY <1>0 DEF TypeOK, Fault, CallFails, Sleep
<1>2. RequestsTracked'
  BY <1>0 DEF TypeOK, Requests, RequestsTracked, CallFails, Sleep
<1>3. AgesBounded'
  BY <1>0 DEF TypeOK, AgesBounded, CallFails, Sleep
<1>4. RegisteredIsKnown'
  BY DEF TypeOK, RegisteredIsKnown, CallFails, Sleep
<1> QED
  BY <1>1, <1>2, <1>3, <1>4

\* So does a crash.
LEMMA StopPeerStep ==
  ASSUME MembershipInv, NEW p \in Peers, StopPeer(p)
  PROVE  MembershipInv'
<1> USE TimesAssumption DEF MembershipInv, peerVars, registryVars, observers, Old, Ages
<1>0. \A r \in requests' :
        /\ r \in Requests
        /\ r.live => r.peer # p /\ r \in requests
        /\ \E q \in requests : /\ r.peer = q.peer /\ r.stage = q.stage
                               /\ r.sent = q.sent /\ r.observed = q.observed
  BY AbandonFacts DEF StopPeer
<1>1. TypeOK'
  BY <1>0 DEF TypeOK, Fault, StopPeer
<1>2. RequestsTracked'
  BY <1>0 DEF TypeOK, Requests, RequestsTracked, StopPeer
<1>3. AgesBounded'
  BY <1>0 DEF TypeOK, AgesBounded, StopPeer
<1>4. RegisteredIsKnown'
  BY DEF TypeOK, RegisteredIsKnown, StopPeer
<1> QED
  BY <1>1, <1>2, <1>3, <1>4

\* The registry validates a request.
LEMMA ParseStep ==
  ASSUME MembershipInv, NEW r \in requests, Parse(r)
  PROVE  MembershipInv'
<1> USE TimesAssumption DEF MembershipInv, peerVars, registryVars, observers, Old, Ages
<1>1. TypeOK'
  BY DEF TypeOK, Requests, Parse, Advance
<1>2. RequestsTracked'
  BY DEF TypeOK, Requests, RequestsTracked, AgesBounded, Parse, Advance
<1>3. AgesBounded'
  BY DEF TypeOK, Requests, RequestsTracked, AgesBounded, Parse, Advance
<1>4. RegisteredIsKnown'
  BY DEF TypeOK, Requests, RequestsTracked, AgesBounded, RegisteredIsKnown, Parse, Advance
<1> QED
  BY <1>1, <1>2, <1>3, <1>4

\* A registration is fresh.
LEMMA HandleRegisterStep ==
  ASSUME MembershipInv, NEW r \in requests, HandleRegister(r)
  PROVE  MembershipInv'
<1> USE TimesAssumption DEF MembershipInv, peerVars, registryVars, observers, Old, Ages
<1>1. TypeOK'
  BY DEF TypeOK, Requests, HandleRegister, Advance
<1>2. RequestsTracked'
  BY DEF TypeOK, Requests, RequestsTracked, AgesBounded, HandleRegister, Advance
<1>3. AgesBounded'
  BY DEF TypeOK, Requests, RequestsTracked, AgesBounded, HandleRegister, Advance
<1>4. RegisteredIsKnown'
  BY DEF TypeOK, Requests, RequestsTracked, AgesBounded, RegisteredIsKnown, HandleRegister, Advance
<1> QED
  BY <1>1, <1>2, <1>3, <1>4

\* A heartbeat is as old as its parsing.
LEMMA HandleHeartbeatStep ==
  ASSUME MembershipInv, NEW r \in requests, HandleHeartbeat(r)
  PROVE  MembershipInv'
<1> USE TimesAssumption DEF MembershipInv, peerVars, registryVars, observers, Old, Ages
<1>1. TypeOK'
  BY DEF TypeOK, Requests, HandleHeartbeat, Advance
<1>2. RequestsTracked'
  BY DEF TypeOK, Requests, RequestsTracked, AgesBounded, HandleHeartbeat, Advance
<1>3. AgesBounded'
  BY DEF TypeOK, Requests, RequestsTracked, AgesBounded, HandleHeartbeat, Advance
<1>4. RegisteredIsKnown'
  BY DEF TypeOK, Requests, RequestsTracked, AgesBounded, RegisteredIsKnown, HandleHeartbeat, Advance
<1> QED
  BY <1>1, <1>2, <1>3, <1>4

\* The registry stops.
LEMMA StopRegistryStep ==
  ASSUME MembershipInv, StopRegistry
  PROVE  MembershipInv'
<1> USE TimesAssumption DEF MembershipInv, peerVars, registryVars, observers, Old, Ages
<1>0. requests' \subseteq requests
  BY DEF StopRegistry
<1>1. TypeOK'
  <2>1. faults' \in 0..MaxFaults
    BY DEF TypeOK, StopRegistry, Fault
  <2> QED
    BY <1>0, <2>1 DEF TypeOK, StopRegistry
<1>2. RequestsTracked'
  BY <1>0 DEF RequestsTracked, StopRegistry
<1>3. AgesBounded'
  BY <1>0 DEF AgesBounded, StopRegistry
<1>4. RegisteredIsKnown'
  BY DEF RegisteredIsKnown, StopRegistry
<1> QED
  BY <1>1, <1>2, <1>3, <1>4

\* The table is lost.
LEMMA LoseTableStep ==
  ASSUME MembershipInv, LoseTable
  PROVE  MembershipInv'
<1> USE TimesAssumption DEF MembershipInv, peerVars, registryVars, observers, Old, Ages
<1>1. TypeOK'
  BY DEF TypeOK, Requests, LoseTable
<1>2. RequestsTracked'
  BY DEF TypeOK, Requests, RequestsTracked, AgesBounded, LoseTable
<1>3. AgesBounded'
  BY DEF TypeOK, Requests, RequestsTracked, AgesBounded, LoseTable
<1>4. RegisteredIsKnown'
  BY DEF TypeOK, Requests, RequestsTracked, AgesBounded, RegisteredIsKnown, LoseTable
<1> QED
  BY <1>1, <1>2, <1>3, <1>4

\* The registry starts.
LEMMA StartRegistryStep ==
  ASSUME MembershipInv, StartRegistry
  PROVE  MembershipInv'
<1> USE TimesAssumption DEF MembershipInv, peerVars, registryVars, observers, Old, Ages
<1>1. TypeOK'
  BY DEF TypeOK, Requests, StartRegistry
<1>2. RequestsTracked'
  BY DEF TypeOK, Requests, RequestsTracked, AgesBounded, StartRegistry
<1>3. AgesBounded'
  BY DEF TypeOK, Requests, RequestsTracked, AgesBounded, StartRegistry
<1>4. RegisteredIsKnown'
  BY DEF TypeOK, Requests, RequestsTracked, AgesBounded, RegisteredIsKnown, StartRegistry
<1> QED
  BY <1>1, <1>2, <1>3, <1>4

\* Ages count up to Old, and two of them keep their distance.
LEMMA OlderFacts ==
  /\ Old \in Nat
  /\ \A a \in Ages : /\ Older(a) \in Ages /\ a \in Nat
                     /\ a <= Older(a) /\ Older(a) <= a + 1
  /\ \A a, b \in Ages, d \in Nat : a <= b + d => Older(a) <= Older(b) + d
  BY TimesAssumption DEF Older, Ages, Old

\* What a tick does to a request.
LEMMA TickRequests ==
  ASSUME TypeOK, RequestsTracked, Tick, NEW r \in requests'
  PROVE  \E q \in requests :
           /\ r = [q EXCEPT !.sent = @ + 1,
                            !.observed = IF q.stage = "parsed" THEN @ + 1 ELSE @]
           /\ r \in Requests
           /\ r.peer = q.peer /\ r.live = q.live /\ r.stage = q.stage
           /\ r.sent = q.sent + 1 /\ r.observed <= q.observed + 1
<1>1. PICK q \in requests :
        r = [q EXCEPT !.sent = @ + 1,
                      !.observed = IF q.stage = "parsed" THEN @ + 1 ELSE @]
  BY DEF Tick
<1>2. q \in Requests /\ q.sent < MaxDelay /\ q.observed <= q.sent
  BY DEF Tick, TypeOK, RequestsTracked
<1>3. q.sent + 1 \in 0..MaxDelay /\ q.observed \in 0..MaxDelay /\ q.observed + 1 \in 0..MaxDelay
  BY <1>2, TimesAssumption DEF Requests
<1>4. r \in Requests
  BY <1>1, <1>2, <1>3 DEF Requests
<1>5. /\ r.peer = q.peer /\ r.live = q.live /\ r.stage = q.stage
      /\ r.sent = q.sent + 1 /\ (r.observed = q.observed \/ r.observed = q.observed + 1)
  BY <1>1, <1>2 DEF Requests
<1>6. r.observed <= q.observed + 1
  BY <1>3, <1>5
<1> QED
  BY <1>1, <1>4, <1>5, <1>6

\* What a tick does to the clocks of a peer.
LEMMA TickClocks ==
  ASSUME TypeOK, Tick, NEW p \in Peers
  PROVE  /\ timer'[p] = IF ~alive[p] THEN timer[p]
                        ELSE IF loop[p] = "sleeping" THEN timer[p] - 1 ELSE timer[p] + 1
         /\ timer'[p] \in 0..(IF loop[p] = "sleeping" THEN Interval ELSE Timeout)
         /\ age[p] \in Ages /\ age'[p] = Older(age[p])
         /\ sinceAck[p] \in Ages /\ sinceAck'[p] = Older(sinceAck[p])
         /\ deadFor[p] \in Ages
         /\ deadFor'[p] = IF alive[p] THEN 0 ELSE Older(deadFor[p])
<1>1. timer[p] \in 0..(IF loop[p] = "sleeping" THEN Interval ELSE Timeout)
      /\ (alive[p] => IF loop[p] = "sleeping" THEN timer[p] > 0 ELSE timer[p] < Timeout)
      /\ timer'[p] = IF ~alive[p] THEN timer[p]
                     ELSE IF loop[p] = "sleeping" THEN timer[p] - 1 ELSE timer[p] + 1
  BY DEF TypeOK, Tick
<1>2. timer'[p] \in 0..(IF loop[p] = "sleeping" THEN Interval ELSE Timeout)
  BY <1>1, TimesAssumption
<1> QED
  BY <1>1, <1>2 DEF TypeOK, Tick

\* Time passes for everybody at once.
LEMMA TickStep ==
  ASSUME MembershipInv, Tick
  PROVE  MembershipInv'
<1> USE TimesAssumption DEF MembershipInv
<1>1. TypeOK'
  <2>1. requests' \subseteq Requests
    BY TickRequests
  <2>2. timer' \in [Peers -> Nat]
    <3>1. \A p \in Peers : timer'[p] \in Nat
      BY TickClocks
    <3> QED
      BY <3>1 DEF Tick
  <2>3. \A p \in Peers :
          timer'[p] \in 0..(IF loop'[p] = "sleeping" THEN Interval ELSE Timeout)
    BY TickClocks DEF Tick
  <2>4. age' \in [Peers -> Ages] /\ sinceAck' \in [Peers -> Ages]
    BY TickClocks, OlderFacts DEF Tick
  <2>5. deadFor' \in [Peers -> Ages]
    <3>1. 0 \in Ages
      BY OlderFacts DEF Ages
    <3>2. \A p \in Peers : deadFor'[p] \in Ages
      BY <3>1, TickClocks, OlderFacts
    <3> QED
      BY <3>2 DEF Tick
  <2> QED
    BY <2>1, <2>2, <2>3, <2>4, <2>5 DEF TypeOK, Tick
<1>2. RequestsTracked'
  <2> SUFFICES ASSUME NEW r \in requests'
               PROVE  /\ r.observed <= r.sent /\ deadFor'[r.peer] <= r.sent
                      /\ r.live => /\ alive'[r.peer] /\ loop'[r.peer] = "calling"
                                   /\ r.sent = timer'[r.peer]
                                   /\ \A s \in requests' :
                                        (s.live /\ s.peer = r.peer) => s = r
    BY DEF RequestsTracked
  <2>1. PICK q \in requests :
          /\ r = [q EXCEPT !.sent = @ + 1,
                           !.observed = IF q.stage = "parsed" THEN @ + 1 ELSE @]
          /\ r.peer = q.peer /\ r.live = q.live /\ r \in Requests
          /\ r.sent = q.sent + 1 /\ r.observed <= q.observed + 1
    BY TickRequests
  <2>2. /\ q.peer \in Peers /\ q.sent \in Nat /\ q.observed \in Nat /\ r.observed \in Nat
        /\ q.observed <= q.sent /\ deadFor[q.peer] <= q.sent
    BY <2>1 DEF TypeOK, Requests, RequestsTracked
  <2>3. r.observed <= r.sent
    BY <2>1, <2>2
  <2>4. deadFor'[r.peer] <= r.sent
    BY <2>1, <2>2, TickClocks, OlderFacts
  <2>5. ASSUME r.live
        PROVE  alive'[r.peer] /\ loop'[r.peer] = "calling" /\ r.sent = timer'[r.peer]
    BY <2>1, <2>2, <2>5, TickClocks DEF RequestsTracked, Tick
  <2>6. ASSUME r.live, NEW s \in requests', s.live, s.peer = r.peer
        PROVE  s = r
    <3>1. PICK t \in requests :
            /\ s = [t EXCEPT !.sent = @ + 1,
                             !.observed = IF t.stage = "parsed" THEN @ + 1 ELSE @]
            /\ s.peer = t.peer /\ s.live = t.live
      BY TickRequests
    <3>2. t = q
      BY <2>1, <2>6, <3>1 DEF RequestsTracked
    <3> QED
      BY <2>1, <3>1, <3>2
  <2> QED
    BY <2>3, <2>4, <2>5, <2>6
<1>3. AgesBounded'
  <2>1. \A p \in Peers : alive'[p] => deadFor'[p] = 0
    BY TickClocks DEF Tick
  <2>2. ASSUME NEW p \in known'
        PROVE  deadFor'[p] <= age'[p] + MaxDelay
    <3>1. p \in known /\ p \in Peers /\ deadFor[p] <= age[p] + MaxDelay
      BY DEF TypeOK, AgesBounded, Tick
    <3> QED
      BY <3>1, TickClocks, OlderFacts
  <2>3. ASSUME losses' = 0, NEW p \in Peers
        PROVE  /\ age'[p] <= sinceAck'[p] + Timeout + MaxDelay
               /\ sinceAck'[p] < Old => p \in known'
    <3>0. /\ age[p] <= sinceAck[p] + Timeout + MaxDelay
          /\ sinceAck[p] < Old => p \in known'
      BY <2>3 DEF AgesBounded, Tick
    <3>1. age[p] <= sinceAck[p] + (Timeout + MaxDelay) /\ sinceAck[p] \in Nat
      BY <3>0, TickClocks, OlderFacts
    <3>2. age'[p] <= sinceAck'[p] + (Timeout + MaxDelay) /\ sinceAck[p] <= sinceAck'[p]
          /\ sinceAck'[p] \in Nat
      BY <3>1, TickClocks, OlderFacts
    <3> QED
      BY <3>0, <3>1, <3>2, OlderFacts
  <2>4. ASSUME losses' = 0, NEW r \in requests', r.live, r.stage = "ok"
        PROVE  r.peer \in known' /\ age'[r.peer] <= r.sent + MaxDelay
    <3>1. PICK q \in requests : /\ r.peer = q.peer /\ r.live = q.live /\ r.stage = q.stage
                                /\ r.sent = q.sent + 1
      BY TickRequests
    <3>2. q.peer \in Peers /\ q.sent \in Nat
      BY DEF TypeOK, Requests
    <3>3. q.peer \in known' /\ age[q.peer] <= q.sent + MaxDelay
      BY <2>4, <3>1 DEF AgesBounded, Tick
    <3> QED
      BY <3>1, <3>2, <3>3, TickClocks, OlderFacts
  <2> QED
    BY <2>1, <2>2, <2>3, <2>4 DEF AgesBounded
<1>4. RegisteredIsKnown'
  BY DEF RegisteredIsKnown, Tick
<1> QED
  BY <1>1, <1>2, <1>3, <1>4

-----------------------------------------------------------------------------
\* The membership invariant holds in every reachable state: the types, the agreement
\* of ServiceRuntime's _registered with the table, and the bounds in time.
THEOREM MembershipInvariant == Spec => []MembershipInv
<1>1. Init => MembershipInv
  BY TimesAssumption
     DEF Init, MembershipInv, TypeOK, RequestsTracked, AgesBounded, RegisteredIsKnown,
         Old, Ages
<1>2. MembershipInv /\ [Next]_vars => MembershipInv'
  <2> SUFFICES ASSUME MembershipInv, [Next]_vars PROVE MembershipInv'
    OBVIOUS
  <2>1. ASSUME NEW p \in Peers, PeerStep(p) PROVE MembershipInv'
    BY <2>1, StartPeerStep, WakeUpStep, CallSucceedsStep, CallRejectedStep DEF PeerStep
  <2>2. ASSUME NEW p \in Peers, CallFails(p) \/ StopPeer(p) PROVE MembershipInv'
    BY <2>2, CallFailsStep, StopPeerStep
  <2>3. CASE RegistryStep
    BY <2>3, StartRegistryStep, ParseStep, HandleRegisterStep, HandleHeartbeatStep
       DEF RegistryStep
  <2>4. CASE StopRegistry \/ LoseTable \/ Tick
    BY <2>4, StopRegistryStep, LoseTableStep, TickStep
  <2>5. CASE UNCHANGED vars
    BY <2>5 DEF vars, peerVars, registryVars, observers, MembershipInv, TypeOK,
                RequestsTracked, AgesBounded, RegisteredIsKnown
  <2> QED
    BY <2>1, <2>2, <2>3, <2>4, <2>5 DEF Next
<1> QED
  BY <1>1, <1>2, PTL DEF Spec

\* _with_fresh_status says online of every peer that was told of a success less than
\* StaleAfter, minus a timeout and the life of a request, ago; unless the table was
\* lost. Late heartbeats of calls given up do not change that.
THEOREM AckedPeersAreOnline == Spec => []AckedPeerOnline
<1>1. MembershipInv => AckedPeerOnline
  BY TimesAssumption
     DEF MembershipInv, TypeOK, AgesBounded, AckedPeerOnline, WithFreshStatus, Ages, Old
<1> QED
  BY <1>1, MembershipInvariant, PTL

\* A peer whose process died is reported offline OfflineAfter and the life of a
\* request later, whatever it had sent before.
THEOREM DeadPeersExpire == Spec => []DeadPeerExpires
<1>1. MembershipInv => DeadPeerExpires
  BY TimesAssumption
     DEF MembershipInv, TypeOK, AgesBounded, DeadPeerExpires, WithFreshStatus, Ages, Old
<1> QED
  BY <1>1, MembershipInvariant, PTL
=============================================================================
