--------------------------- MODULE PeerMembership ---------------------------
(***************************************************************************)
(* How a peer enters the registry's table, stays in it and leaves it:      *)
(* ServiceRuntime's register-or-heartbeat loop on the peer's side, the two *)
(* handlers and the freshness rule on the registry's side, and between     *)
(* them requests that are slow, lost, or executed after the caller gave up.*)
(*                                                                         *)
(* Time is discrete.  Nothing reads an absolute clock: last_heartbeat is   *)
(* kept as the age of the record, a sleep as the time left of it.          *)
(***************************************************************************)
EXTENDS Naturals, FiniteSets

CONSTANTS
  Peers,          \* node ids
  Interval,       \* heartbeat_interval_seconds
  Timeout,        \* request_timeout_seconds
  StaleAfter,     \* 90 seconds in _with_fresh_status
  OfflineAfter,   \* 180 seconds in _with_fresh_status
  MaxDelay,       \* bound: the life of a request, from send to its last effect
  MaxFaults,      \* bound: failed calls and crashes
  MaxLosses       \* bound: losses of the table

ASSUME TimesAssumption ==
  /\ Interval \in Nat \ {0} /\ Timeout \in Nat \ {0} /\ MaxDelay \in Nat
  /\ StaleAfter \in Nat /\ OfflineAfter \in Nat /\ StaleAfter <= OfflineAfter
  /\ Timeout <= MaxDelay /\ MaxFaults \in Nat /\ MaxLosses \in Nat

VARIABLES
  alive,       \* the peer's process runs
  registered,  \* ServiceRuntime._registered
  loop,        \* the runtime: "sleeping" or "calling"
  timer,       \* time left of the sleep, or age of the call
  requests,    \* requests that can still have an effect
  up,          \* the registry's process runs
  known,       \* node ids in the registry's _peers
  age,         \* age of each last_heartbeat, counted up to Old
  sinceAck,    \* observer: time since the peer was last told of a success
  deadFor,     \* observer: time since the peer's process died
  faults,      \* failed calls and crashes so far
  losses       \* losses of the table so far

peerVars     == <<alive, registered, loop, timer>>
registryVars == <<up, known, age, losses>>
observers    == <<sinceAck, deadFor>>
vars == <<peerVars, requests, registryVars, observers, faults>>

Old    == OfflineAfter + MaxDelay + 1
Ages   == 0..Old
Older(a) == IF a < Old THEN a + 1 ELSE Old

\* A request; live: its caller still waits for it; observed: time since the
\* registry parsed it, which is the age of a heartbeat's observed_at.
Requests ==
  [peer : Peers, kind : {"register", "heartbeat"}, live : BOOLEAN,
   stage : {"sent", "parsed", "ok", "not_found"},
   sent : 0..MaxDelay, observed : 0..MaxDelay]

\* Mutant: the limits are inclusive.
WithFreshStatus_Inclusive(p) ==
  IF age[p] >= OfflineAfter THEN "offline"
  ELSE IF age[p] >= StaleAfter THEN "stale" ELSE "online"

\* Mutant: the stored status is returned as it is.
WithFreshStatus_Stored(p) == "online"

\* _with_fresh_status: computed at every read; the stored status plays no part.
WithFreshStatus(p) ==
  IF age[p] > OfflineAfter THEN "offline"
  ELSE IF age[p] > StaleAfter THEN "stale" ELSE "online"

Fault == faults < MaxFaults /\ faults' = faults + 1

-----------------------------------------------------------------------------
Init ==
  /\ alive = [p \in Peers |-> FALSE]
  /\ registered = [p \in Peers |-> FALSE]
  /\ loop = [p \in Peers |-> "sleeping"]
  /\ timer = [p \in Peers |-> 0]
  /\ requests = {}
  /\ up = TRUE /\ known = {} /\ age = [p \in Peers |-> Old]
  /\ sinceAck = [p \in Peers |-> Old]
  /\ deadFor = [p \in Peers |-> Old]
  /\ faults = 0 /\ losses = 0

-----------------------------------------------------------------------------
(* The peer.                                                               *)

Call(p, kind) ==
  /\ loop' = [loop EXCEPT ![p] = "calling"]
  /\ timer' = [timer EXCEPT ![p] = 0]
  /\ requests' = requests \union
       {[peer |-> p, kind |-> kind, live |-> TRUE, stage |-> "sent",
         sent |-> 0, observed |-> 0]}

\* Mutant: the flag is set before the registry has answered.
StartPeer_FlagFirst(p) ==
  /\ ~alive[p]
  /\ alive' = [alive EXCEPT ![p] = TRUE]
  /\ registered' = [registered EXCEPT ![p] = TRUE]
  /\ deadFor' = [deadFor EXCEPT ![p] = 0]
  /\ Call(p, "register")
  /\ UNCHANGED <<registryVars, sinceAck, faults>>

\* start: the first call, before the loop; nothing of a former life is left.
StartPeer(p) ==
  /\ ~alive[p]
  /\ alive' = [alive EXCEPT ![p] = TRUE]
  /\ registered' = [registered EXCEPT ![p] = FALSE]
  /\ deadFor' = [deadFor EXCEPT ![p] = 0]
  /\ Call(p, "register")
  /\ UNCHANGED <<registryVars, sinceAck, faults>>

\* _heartbeat_loop: the sleep is over.
WakeUp(p) ==
  /\ alive[p] /\ loop[p] = "sleeping" /\ timer[p] = 0
  /\ Call(p, IF registered[p] THEN "heartbeat" ELSE "register")
  /\ UNCHANGED <<alive, registered, registryVars, observers, faults>>

Sleep(p) ==
  /\ loop' = [loop EXCEPT ![p] = "sleeping"]
  /\ timer' = [timer EXCEPT ![p] = Interval]

\* raise_for_status lets a success through.
CallSucceeds(p) ==
  \E r \in requests :
    /\ r.peer = p /\ r.live /\ r.stage = "ok"
    /\ requests' = requests \ {r}
    /\ registered' = [registered EXCEPT ![p] = TRUE]
    /\ sinceAck' = [sinceAck EXCEPT ![p] = 0]
    /\ Sleep(p)
    /\ UNCHANGED <<alive, registryVars, deadFor, faults>>

\* Mutant: only a network error clears the flag.
CallRejected_KeepsFlag(p) ==
  \E r \in requests :
    /\ r.peer = p /\ r.live /\ r.stage = "not_found"
    /\ requests' = requests \ {r}
    /\ Sleep(p)
    /\ UNCHANGED <<alive, registered, registryVars, observers, faults>>

\* raise_for_status raises on 404: register anew at the next turn.
CallRejected(p) ==
  \E r \in requests :
    /\ r.peer = p /\ r.live /\ r.stage = "not_found"
    /\ requests' = requests \ {r}
    /\ registered' = [registered EXCEPT ![p] = FALSE]
    /\ Sleep(p)
    /\ UNCHANGED <<alive, registryVars, observers, faults>>

\* The caller of p's request is gone.  An answered request has no effect left;
\* another is lost on its way or, with the registry running, still executed.
Abandon(p) ==
  LET waited == {r \in requests : r.peer = p /\ r.live}
      orphan == {[r EXCEPT !.live = FALSE] :
                 r \in {q \in waited : q.stage \in {"sent", "parsed"}}}
  IN  \/ requests' = requests \ waited
      \/ up /\ requests' = (requests \ waited) \union orphan

\* The registry is down, or went down with the request: no answer will come.
Unreachable(p) == ~up \/ ~ \E r \in requests : r.peer = p /\ r.live

\* The call times out, or the connection fails before that: the answer is lost,
\* whether or not the registry executes the request.
CallFails(p) ==
  /\ alive[p] /\ loop[p] = "calling"
  /\ IF Unreachable(p) THEN UNCHANGED faults ELSE Fault
  /\ Abandon(p)
  /\ registered' = [registered EXCEPT ![p] = FALSE]
  /\ Sleep(p)
  /\ UNCHANGED <<alive, registryVars, observers>>

StopPeer(p) ==
  /\ alive[p]
  /\ Fault
  /\ alive' = [alive EXCEPT ![p] = FALSE]
  /\ registered' = [registered EXCEPT ![p] = FALSE]
  /\ loop' = [loop EXCEPT ![p] = "sleeping"]
  /\ timer' = [timer EXCEPT ![p] = 0]
  /\ Abandon(p)
  /\ UNCHANGED <<registryVars, observers>>

-----------------------------------------------------------------------------
(* The registry.                                                           *)

\* Advance r to a stage; nobody waits for the answer to an orphan.
Advance(r, stage) ==
  requests' = (requests \ {r}) \union
              (IF r.live \/ stage = "parsed" THEN {[r EXCEPT !.stage = stage]} ELSE {})

\* The body {} is validated: observed_at is the clock at this moment.
Parse(r) ==
  /\ up /\ r.stage = "sent"
  /\ Advance(r, "parsed")
  /\ UNCHANGED <<peerVars, registryVars, observers, faults>>

\* register_peer: last_heartbeat is the clock inside upsert_peer.
HandleRegister(r) ==
  /\ up /\ r.stage = "parsed" /\ r.kind = "register"
  /\ known' = known \union {r.peer}
  /\ age' = [age EXCEPT ![r.peer] = 0]
  /\ Advance(r, "ok")
  /\ UNCHANGED <<peerVars, up, losses, observers, faults>>

\* peer_heartbeat: last_heartbeat becomes observed_at, even an older one.
HandleHeartbeat(r) ==
  /\ up /\ r.stage = "parsed" /\ r.kind = "heartbeat"
  /\ IF r.peer \in known
     THEN age' = [age EXCEPT ![r.peer] = r.observed] /\ Advance(r, "ok")
     ELSE Advance(r, "not_found") /\ UNCHANGED age
  /\ UNCHANGED <<peerVars, up, known, losses, observers, faults>>

\* The process stops: its requests are lost, peers.json stays.
StopRegistry ==
  /\ up
  /\ Fault
  /\ up' = FALSE
  /\ requests' = {r \in requests : r.stage \in {"ok", "not_found"}}
  /\ UNCHANGED <<peerVars, known, age, losses, observers>>

\* The service is redeployed on an empty data directory.
LoseTable ==
  /\ ~up
  /\ losses < MaxLosses
  /\ losses' = losses + 1
  /\ known' = {}
  /\ age' = [p \in Peers |-> Old]
  /\ UNCHANGED <<peerVars, requests, up, observers, faults>>

StartRegistry ==
  /\ ~up
  /\ up' = TRUE
  /\ UNCHANGED <<peerVars, requests, known, age, losses, observers, faults>>

-----------------------------------------------------------------------------
(* Time passes when nobody has something to do at this instant: a sleep     *)
(* that is over wakes up, a call ends after Timeout, a request after        *)
(* MaxDelay.                                                                *)
Tick ==
  /\ \A p \in Peers : alive[p] => IF loop[p] = "sleeping" THEN timer[p] > 0
                                                         ELSE timer[p] < Timeout
  /\ \A r \in requests : r.sent < MaxDelay
  /\ timer' = [p \in Peers |-> IF ~alive[p] THEN timer[p]
                               ELSE IF loop[p] = "sleeping" THEN timer[p] - 1
                               ELSE timer[p] + 1]
  /\ requests' = {[r EXCEPT !.sent = @ + 1,
                            !.observed = IF r.stage = "parsed" THEN @ + 1 ELSE @] :
                  r \in requests}
  /\ age' = [p \in Peers |-> Older(age[p])]
  /\ sinceAck' = [p \in Peers |-> Older(sinceAck[p])]
  /\ deadFor' = [p \in Peers |-> IF alive[p] THEN 0 ELSE Older(deadFor[p])]
  /\ UNCHANGED <<alive, registered, loop, up, known, losses, faults>>

-----------------------------------------------------------------------------
PeerStep(p) ==
  StartPeer(p) \/ WakeUp(p) \/ CallSucceeds(p) \/ CallRejected(p)

RegistryStep ==
  \/ StartRegistry
  \/ \E r \in requests : Parse(r) \/ HandleRegister(r) \/ HandleHeartbeat(r)

Next ==
  \/ \E p \in Peers : PeerStep(p) \/ CallFails(p) \/ StopPeer(p)
  \/ RegistryStep
  \/ StopRegistry \/ LoseTable
  \/ Tick

\* Supervisors restart processes, the event loops run what is ready, the clock
\* goes on, and a call that can only fail does.
Fairness ==
  /\ \A p \in Peers : WF_vars(PeerStep(p)) /\ WF_vars(CallFails(p))
  /\ WF_vars(RegistryStep)
  /\ WF_vars(Tick)

Spec == Init /\ [][Next]_vars

FairSpec == Spec /\ Fairness

-----------------------------------------------------------------------------
(* Properties.                                                             *)

\* Type invariant; in particular a peer waits for at most one answer.
TypeOK ==
  /\ alive \in [Peers -> BOOLEAN] /\ registered \in [Peers -> BOOLEAN]
  /\ loop \in [Peers -> {"sleeping", "calling"}]
  /\ timer \in [Peers -> Nat]
  /\ \A p \in Peers :
       timer[p] \in 0..(IF loop[p] = "sleeping" THEN Interval ELSE Timeout)
  /\ requests \subseteq Requests
  /\ up \in BOOLEAN /\ known \subseteq Peers /\ age \in [Peers -> Ages]
  /\ sinceAck \in [Peers -> Ages] /\ deadFor \in [Peers -> Ages]
  /\ faults \in 0..MaxFaults /\ losses \in 0..MaxLosses

\* As long as the table is not lost, a peer that was told of its success recently
\* enough is online: a heartbeat that executes late sets last_heartbeat back, but
\* never further than the life of a request.
AckedPeerOnline ==
  \A p \in Peers :
    (losses = 0 /\ sinceAck[p] + Timeout + MaxDelay <= StaleAfter) =>
      p \in known /\ WithFreshStatus(p) = "online"

\* A dead peer is offline OfflineAfter after the last request it can have left
\* behind; no late request revives it for longer.
DeadPeerExpires ==
  \A p \in Peers :
    (p \in known /\ deadFor[p] > OfflineAfter + MaxDelay) => WithFreshStatus(p) = "offline"

\* _registered is TRUE only on the registry's word: unless the table is lost,
\* a peer that heartbeats instead of registering is in it.
RegisteredIsKnown ==
  \A p \in Peers : (registered[p] /\ losses = 0) => p \in known

\* Once the faults are over, every running peer gets into the table and stays
\* online, however registration, heartbeats and restarts were interleaved.
PeersReturn == <>[](\A p \in Peers : alive[p] => p \in known /\ WithFreshStatus(p) = "online")

\* A request belongs to the call that its peer is in, or to one given up; what it
\* can still do to the table is no older than it, and it is no older than the
\* death of its peer.
RequestsTracked ==
  \A r \in requests :
    /\ r.observed <= r.sent
    /\ deadFor[r.peer] <= r.sent
    /\ r.live => /\ alive[r.peer] /\ loop[r.peer] = "calling" /\ r.sent = timer[r.peer]
                 /\ \A q \in requests : (q.live /\ q.peer = r.peer) => q = r

\* How far last_heartbeat can be behind: the life of a request behind the death of
\* the peer, and behind a success that the peer is told of or will be.
AgesBounded ==
  /\ \A p \in Peers : alive[p] => deadFor[p] = 0
  /\ \A p \in known : deadFor[p] <= age[p] + MaxDelay
  /\ losses = 0 =>
       /\ \A p \in Peers : /\ age[p] <= sinceAck[p] + Timeout + MaxDelay
                           /\ sinceAck[p] < Old => p \in known
       /\ \A r \in requests : (r.live /\ r.stage = "ok") =>
            r.peer \in known /\ age[r.peer] <= r.sent + MaxDelay

\* The inductive invariant: the types, the agreement of the flag _registered with
\* the table, and how requests and heartbeats are bounded in time.
MembershipInv == TypeOK /\ RequestsTracked /\ AgesBounded /\ RegisteredIsKnown
=============================================================================
