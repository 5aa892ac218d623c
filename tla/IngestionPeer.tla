---------------------------- MODULE IngestionPeer ----------------------------
(***************************************************************************)
(* The AWS ingestion peer: IngestionService, whose lists and state file    *)
(* the threads of the request pool share without a lock, and route_event,  *)
(* which hands each event to the peers that the registry lists for three   *)
(* capabilities, with retries and an audit record of every outcome.        *)
(*                                                                         *)
(* The registry and the other peers appear as what a call to them can do:  *)
(* fail before it has an effect, be given up and have its effect later, or *)
(* succeed.  Backoff only takes time and is left out.                      *)
(***************************************************************************)
EXTENDS Naturals, SequencesExt

CONSTANTS
  Workers,     \* threads of the request pool
  Events,      \* market events, each named after the message it comes from
  Anomaly,     \* the registry's list of peers for detect_anomalies
  Risk,        \* its list for store_market_events and compute_risk
  Retries,     \* DEFAULT_ROUTE_RETRIES
  MaxFaults,   \* bound: failures of calls, lookups, appends and saves, and crashes
  MaxCrashes   \* bound: of these, crashes of the ingestion process

ASSUME RetriesAssumption == Retries \in Nat \ {0}
ASSUME BoundsAssumption  == MaxFaults \in Nat /\ MaxCrashes \in Nat
\* The registry keeps its peers in a dict by node id: no list names one twice.
ASSUME ListsAssumption ==
  \A list \in {Anomaly, Risk} : list \in Seq(ToSet(list)) /\ IsInjective(list)

VARIABLES
  th,        \* each thread: its place in the handler and its local variables
  raw,       \* raw_messages
  events,    \* events
  last,      \* _last_message_by_symbol, of one symbol
  file,      \* state.json
  forwarded_events, routing_failures,
  portfolio, \* the risk peer has a portfolio
  delivered, \* how often each peer executed the call for an event
  late,      \* calls given up by their caller that a peer can still execute
  ledger,    \* the audit blocks the registry recorded
  accepted,  \* observer: events of all requests so far
  answered,  \* observer: events whose request was answered 200
  baseline,  \* observer: the previous message an event's window looked at
  lost,      \* observer: how many calls of a route were given up and executed late
  gaveUp,    \* observer: routes whose every attempt failed
  skipped,   \* observer: routes a failed lookup, a failed save or a crash cut off
  overlapped, \* observer: whether two requests were ever in progress at once
  faults, crashes

lists     == <<raw, events, last>>
counters  == <<forwarded_events, routing_failures>>
calls     == <<delivered, late>>
outside   == <<portfolio, calls, ledger>>
observers == <<accepted, answered, baseline, lost, gaveUp, skipped, overlapped>>
bounds    == <<faults, crashes>>
vars      == <<th, lists, file, counters, outside, observers, bounds>>

Nil == << >>

Stages == {"detect_anomalies", "store_market_events", "compute_risk"}

Providers(s) == IF s = "detect_anomalies" THEN Anomaly ELSE Risk

NextStage(s) == CASE s = "detect_anomalies"    -> "store_market_events"
                  [] s = "store_market_events" -> "compute_risk"
                  [] s = "compute_risk"        -> "done"

\* A route: what one route_with_retries is called for.
Route(s, t, e) == [stage |-> s, target |-> t, event |-> e]
RoutesOf(e) == UNION {{Route(s, t, e) : t \in ToSet(Providers(s))} : s \in Stages}
Routes == UNION {RoutesOf(e) : e \in Events}

Idle == [pc |-> "idle", handler |-> "ingest", event |-> Nil, snapshot |-> Nil,
         stage |-> "done", targets |-> << >>, attempt |-> 1, failures |-> 0]

Empty == [raw |-> << >>, events |-> << >>]

Fault == faults + crashes < MaxFaults /\ faults' = faults + 1

-----------------------------------------------------------------------------
Init ==
  /\ th = [w \in Workers |-> Idle]
  /\ raw = << >> /\ events = << >> /\ last = Nil
  /\ file = Empty
  /\ forwarded_events = 0 /\ routing_failures = 0
  /\ portfolio = FALSE
  /\ delivered = [r \in Routes |-> 0]
  /\ late = [r \in Routes |-> 0] /\ lost = [r \in Routes |-> 0]
  /\ ledger = {} /\ accepted = {} /\ answered = {} /\ gaveUp = {} /\ skipped = {}
  /\ overlapped = FALSE
  /\ baseline = [e \in Events |-> Nil]
  /\ faults = 0 /\ crashes = 0

-----------------------------------------------------------------------------
(* ingest_message and store_normalized_event, up to the save.              *)

At(w, location) == th[w].pc = location

Begin(w, handler, e, location) ==
  /\ At(w, "idle") /\ e \notin accepted
  /\ accepted' = accepted \union {e}
  /\ th' = [th EXCEPT ![w].pc = location, ![w].handler = handler, ![w].event = e]
  /\ overlapped' = (overlapped \/ \E v \in Workers : ~At(v, "idle"))
  /\ UNCHANGED <<lists, file, counters, outside, answered, lost, gaveUp, skipped, bounds>>

\* Mutant: the message is stored as the last one before its window is computed.
IngestMessage_StoresFirst(w) ==
  \E e \in Events :
    /\ Begin(w, "ingest", e, "append_raw")
    /\ baseline' = [baseline EXCEPT ![e] = e]

\* POST /ingestion/messages: the window is computed from the last message.
IngestMessage(w) ==
  \E e \in Events :
    /\ Begin(w, "ingest", e, "append_raw")
    /\ baseline' = [baseline EXCEPT ![e] = last]

\* POST /ingestion/events
StoreEvent(w) ==
  \E e \in Events :
    /\ Begin(w, "store", e, "append_event")
    /\ UNCHANGED baseline

AppendRaw(w) ==
  /\ At(w, "append_raw")
  /\ raw' = Append(raw, th[w].event)
  /\ th' = [th EXCEPT ![w].pc = "append_event"]
  /\ UNCHANGED <<events, last, file, counters, outside, observers, bounds>>

AppendEvent(w) ==
  /\ At(w, "append_event")
  /\ events' = Append(events, th[w].event)
  /\ th' = [th EXCEPT ![w].pc =
              IF th[w].handler = "ingest" THEN "set_last" ELSE "snapshot_raw"]
  /\ UNCHANGED <<raw, last, file, counters, outside, observers, bounds>>

SetLast(w) ==
  /\ At(w, "set_last")
  /\ last' = th[w].event
  /\ th' = [th EXCEPT ![w].pc = "snapshot_raw"]
  /\ UNCHANGED <<raw, events, file, counters, outside, observers, bounds>>

-----------------------------------------------------------------------------
(* _save_state: the two lists are serialised one after the other, then the  *)
(* temporary file replaces state.json.                                      *)

SnapshotRaw(w) ==
  /\ At(w, "snapshot_raw")
  /\ th' = [th EXCEPT ![w].pc = "snapshot_events",
                      ![w].snapshot = [raw |-> raw, events |-> << >>]]
  /\ UNCHANGED <<lists, file, counters, outside, observers, bounds>>

SnapshotEvents(w) ==
  /\ At(w, "snapshot_events")
  /\ th' = [th EXCEPT ![w].pc = "replace", ![w].snapshot.events = events]
  /\ UNCHANGED <<lists, file, counters, outside, observers, bounds>>

ReplaceFile(w) ==
  /\ At(w, "replace")
  /\ file' = th[w].snapshot
  /\ th' = [th EXCEPT ![w].pc = "record", ![w].snapshot = Nil]
  /\ UNCHANGED <<lists, counters, outside, observers, bounds>>

\* Mutant: a failed save is ignored.
SaveFails_Ignored(w) ==
  /\ At(w, "replace")
  /\ Fault
  /\ th' = [th EXCEPT ![w].pc = "record", ![w].snapshot = Nil]
  /\ UNCHANGED <<lists, file, counters, outside, observers, crashes>>

Skip(routes) == skipped' = skipped \union routes

\* The save raises: 500, with the event in the lists and never routed.
SaveFails(w) ==
  /\ At(w, "replace")
  /\ Fault
  /\ th' = [th EXCEPT ![w] = Idle]
  /\ Skip(RoutesOf(th[w].event))
  /\ UNCHANGED <<lists, file, counters, outside, accepted, answered, baseline, lost,
                 gaveUp, overlapped, crashes>>

-----------------------------------------------------------------------------
(* Calls to the registry.  _request_json swallows every exception, so a     *)
(* failed append is not noticed and a failed lookup is an empty answer.     *)

Block(type, e, target) == [event_type |-> type, event |-> e, target |-> target]

AppendLedger(block) ==
  \/ ledger' = ledger \union {block} /\ UNCHANGED faults
  \/ Fault /\ UNCHANGED ledger

\* Thread state t, at the start of stage s of route_event or past the last one.
AtStage(t, s) ==
  [t EXCEPT !.stage = s, !.pc = IF s = "done" THEN "finish" ELSE "lookup"]

\* record_ledger_event, after the save
Record(w) ==
  /\ At(w, "record")
  /\ LET ingest == th[w].handler = "ingest"
     IN  /\ AppendLedger(Block(IF ingest THEN "market_event_ingested"
                                         ELSE "market_event_stored", th[w].event, Nil))
         /\ th' = [th EXCEPT ![w] = AtStage(@, IF ingest THEN "detect_anomalies"
                                                         ELSE "done")]
  /\ UNCHANGED <<lists, file, counters, portfolio, calls, observers, crashes>>

\* Thread state t when the loop over the peers of a capability goes on with rest.
WithTargets(t, rest) ==
  IF rest = << >> THEN AtStage([t EXCEPT !.targets = rest], NextStage(t.stage))
                  ELSE [t EXCEPT !.targets = rest, !.attempt = 1, !.pc = "call"]

\* peers_by_capability: a failed lookup is an empty list.
Lookup(w) ==
  LET s     == th[w].stage
      found == Providers(s)
  IN  /\ At(w, "lookup")
      /\ \/ /\ th' = [th EXCEPT ![w] = WithTargets(@, found)]
            /\ UNCHANGED <<skipped, faults>>
         \/ /\ Fault
            /\ th' = [th EXCEPT ![w] = WithTargets(@, << >>)]
            /\ Skip({Route(s, t, th[w].event) : t \in ToSet(found)})
      /\ UNCHANGED <<lists, file, counters, outside, accepted, answered, baseline,
                     lost, gaveUp, overlapped, crashes>>

-----------------------------------------------------------------------------
(* route_with_retries.                                                     *)

Current(w) == Route(th[w].stage, Head(th[w].targets), th[w].event)

\* /risk/compute answers 400 as long as the risk peer has no portfolio.
Rejects(r) == r.stage = "compute_risk" /\ ~portfolio

Count(table, r) == [table EXCEPT ![r] = @ + 1]

\* The call succeeds; only the first two stages record the routing.
CallSucceeds(w) ==
  /\ At(w, "call") /\ ~Rejects(Current(w))
  /\ delivered' = Count(delivered, Current(w))
  /\ IF th[w].stage = "compute_risk"
     THEN th' = [th EXCEPT ![w] = WithTargets(@, Tail(@.targets))]
     ELSE th' = [th EXCEPT ![w].pc = "record_routed"]
  /\ UNCHANGED <<lists, file, counters, portfolio, late, ledger, observers, bounds>>

\* Mutant: the last attempt is followed by another one.
AttemptFailed_OneMore(t) ==
  IF t.attempt <= Retries THEN [t EXCEPT !.attempt = @ + 1]
                          ELSE [t EXCEPT !.pc = "record_failed"]

\* Mutant: the exception of the last attempt is not returned.
AttemptFailed_Swallowed(t) ==
  IF t.attempt < Retries THEN [t EXCEPT !.attempt = @ + 1]
                         ELSE [t EXCEPT !.pc = "record_routed"]

\* The except branch: try again, or give up after the last attempt.
AttemptFailed(t) ==
  IF t.attempt < Retries THEN [t EXCEPT !.attempt = @ + 1]
                         ELSE [t EXCEPT !.pc = "record_failed"]

\* The call raises: it is rejected, it never reaches the peer, or its caller
\* times out while it is on its way or under way.
CallFails(w) ==
  LET r == Current(w)
  IN  /\ At(w, "call")
      /\ th' = [th EXCEPT ![w] = AttemptFailed(@)]
      /\ \/ Rejects(r) /\ UNCHANGED <<late, lost, faults>>
         \/ Fault /\ UNCHANGED <<late, lost>>
         \/ Fault /\ late' = Count(late, r) /\ lost' = Count(lost, r)
      /\ gaveUp' = IF th'[w].pc = "record_failed" THEN gaveUp \union {r} ELSE gaveUp
      /\ UNCHANGED <<lists, file, counters, portfolio, delivered, ledger, accepted,
                     answered, baseline, skipped, overlapped, crashes>>

\* A peer executes a call that nobody waits for any more.
ExecuteLate(r) ==
  /\ late[r] > 0 /\ ~Rejects(r)
  /\ delivered' = Count(delivered, r)
  /\ late' = [late EXCEPT ![r] = @ - 1]
  /\ UNCHANGED <<th, lists, file, counters, portfolio, ledger, observers, bounds>>

\* event_routed_to_anomaly or event_routed_to_risk
RecordRouted(w) ==
  /\ At(w, "record_routed")
  /\ AppendLedger(Block("event_routed", th[w].event, Current(w)))
  /\ th' = [th EXCEPT ![w] = WithTargets(@, Tail(@.targets))]
  /\ UNCHANGED <<lists, file, counters, portfolio, calls, observers, crashes>>

\* routing_failed
RecordFailed(w) ==
  /\ At(w, "record_failed")
  /\ AppendLedger(Block("routing_failed", th[w].event, Current(w)))
  /\ th' = [th EXCEPT ![w] =
              WithTargets([@ EXCEPT !.failures = th[w].failures + 1], Tail(@.targets))]
  /\ UNCHANGED <<lists, file, counters, portfolio, calls, observers, crashes>>

-----------------------------------------------------------------------------
\* _forward_event counts the outcome and the request is answered.
Finish(w) ==
  /\ At(w, "finish")
  /\ IF th[w].handler = "store" THEN UNCHANGED counters
     ELSE IF th[w].failures = 0
     THEN forwarded_events' = forwarded_events + 1 /\ UNCHANGED routing_failures
     ELSE routing_failures' = routing_failures + 1 /\ UNCHANGED forwarded_events
  /\ answered' = answered \union {th[w].event}
  /\ th' = [th EXCEPT ![w] = Idle]
  /\ UNCHANGED <<lists, file, outside, accepted, baseline, lost, gaveUp, skipped,
                 overlapped, bounds>>

\* POST /risk/portfolio on the risk peer
SetPortfolio ==
  /\ ~portfolio
  /\ portfolio' = TRUE
  /\ UNCHANGED <<th, lists, file, counters, calls, ledger, observers, bounds>>

\* The risk peer restarts from a file without the portfolio.
LosePortfolio ==
  /\ portfolio
  /\ portfolio' = FALSE
  /\ UNCHANGED <<th, lists, file, counters, calls, ledger, observers, bounds>>

\* _load_state: the lists, and the last message of the symbol.
LoadState ==
  /\ raw' = file.raw /\ events' = file.events
  /\ last' = IF file.raw = << >> THEN Nil ELSE Last(file.raw)

\* The process dies and starts again.  A peer may still execute the calls that
\* were under way.
CrashAndRestart ==
  LET busy == {w \in Workers : ~At(w, "idle")}
      open == {Current(w) : w \in {v \in busy : At(v, "call")}}
  IN  /\ crashes < MaxCrashes /\ faults + crashes < MaxFaults
      /\ crashes' = crashes + 1
      /\ th' = [w \in Workers |-> Idle]
      /\ LoadState
      /\ forwarded_events' = 0 /\ routing_failures' = 0
      /\ \E cut \in SUBSET open :
           /\ late' = [r \in Routes |-> late[r] + (IF r \in cut THEN 1 ELSE 0)]
           /\ lost' = [r \in Routes |-> lost[r] + (IF r \in cut THEN 1 ELSE 0)]
      /\ Skip(UNION {RoutesOf(th[w].event) : w \in busy})
      /\ UNCHANGED <<file, portfolio, delivered, ledger, accepted, answered, baseline,
                     gaveUp, overlapped, faults>>

Receive(w) == IngestMessage(w) \/ StoreEvent(w)

\* Every step of a handler but the end of a call.
OwnStep(w) ==
  \/ AppendRaw(w) \/ AppendEvent(w) \/ SetLast(w)
  \/ SnapshotRaw(w) \/ SnapshotEvents(w) \/ ReplaceFile(w) \/ SaveFails(w)
  \/ Record(w) \/ Lookup(w) \/ RecordRouted(w) \/ RecordFailed(w)
  \/ Finish(w)

Next ==
  \/ \E w \in Workers : Receive(w) \/ OwnStep(w) \/ CallSucceeds(w) \/ CallFails(w)
  \/ \E r \in Routes : ExecuteLate(r)
  \/ SetPortfolio
  \/ LosePortfolio
  \/ CrashAndRestart

Spec == Init /\ [][Next]_vars

-----------------------------------------------------------------------------
(* Properties.                                                             *)

Peers == ToSet(Anomaly) \union ToSet(Risk)
State == [raw : Seq(Events), events : Seq(Events)]

Storing == {"append_raw", "append_event", "set_last",
            "snapshot_raw", "snapshot_events", "replace", "record"}
Routing == {"call", "record_routed", "record_failed"}

Thread ==
  [pc : {"idle", "lookup", "finish"} \union Storing \union Routing,
   handler : {"ingest", "store"}, event : Events \union {Nil}, snapshot : State \union {Nil},
   stage : Stages \union {"done"}, targets : Seq(Peers), attempt : 1..Retries, failures : Nat]

\* Type invariant.
TypeOK ==
  /\ th \in [Workers -> Thread]
  /\ raw \in Seq(Events) /\ events \in Seq(Events) /\ file \in State
  /\ last \in Events \union {Nil} /\ baseline \in [Events -> Events \union {Nil}]
  /\ forwarded_events \in Nat /\ routing_failures \in Nat
  /\ delivered \in [Routes -> Nat] /\ late \in [Routes -> Nat] /\ lost \in [Routes -> Nat]
  /\ gaveUp \subseteq Routes /\ skipped \subseteq Routes
  /\ accepted \subseteq Events /\ answered \subseteq accepted /\ IsFiniteSet(answered)
  /\ portfolio \in BOOLEAN /\ overlapped \in BOOLEAN /\ faults \in Nat /\ crashes \in Nat

\* state.json is never torn or reordered: it holds a prefix of each list.
FileIsPrefix == IsPrefix(file.raw, raw) /\ IsPrefix(file.events, events)

\* The window of an event looks back to a message that precedes its own, even
\* when two threads ingest at once or the process restarted in between.
BaselinePrecedes ==
  \A j \in 1..Len(raw) :
    baseline[raw[j]] # Nil => \E i \in 1..(j - 1) : raw[i] = baseline[raw[j]]

\* As long as no two requests overlap, an event whose request was answered is in
\* state.json, whatever saves fail and processes restart.  Two threads may replace
\* the file in the opposite order of their snapshots, and it then lacks one.
AnsweredIsPersisted == ~overlapped => answered \subseteq ToSet(file.events)

\* A peer executes a call more than once only when it was given up before, and
\* never more often than route_with_retries has attempts, late ones included.
BoundedDuplication ==
  \A r \in Routes :
    delivered[r] + late[r] <= Retries /\ delivered[r] <= 1 + lost[r]

\* No message that the service holds goes missing on its way without a cause:
\* each of its routes was executed, was given up after the last attempt, or was
\* cut off by a failed lookup, a failed save or a crash.
RoutesAccounted ==
  \A j \in DOMAIN raw : \A r \in RoutesOf(raw[j]) :
    \/ delivered[r] > 0
    \/ r \in gaveUp \union skipped
    \/ \E w \in Workers : ~At(w, "idle") /\ th[w].event = raw[j]

\* The two counters of /health split the answered messages by what happened: an
\* event counts as a failure exactly when some route of it gave up, so one whose
\* lookups failed counts as forwarded.
CountersMatchOutcomes ==
  crashes = 0 =>
    routing_failures = Cardinality({e \in answered : \E r \in gaveUp : r.event = e})

\* What became of every message, in fact and in the counters.
OutcomesAccounted == RoutesAccounted /\ CountersMatchOutcomes

-----------------------------------------------------------------------------
(* The inductive invariant: what the threads in progress are about to do.  *)

\* A thread's event is its own: accepted, not answered, and with no other thread.
EventsApart ==
  /\ \A w \in Workers : ~At(w, "idle") => th[w].event \in accepted \ answered
  /\ \A v, w \in Workers :
       (~At(v, "idle") /\ ~At(w, "idle") /\ th[v].event = th[w].event) => v = w

\* Where thread t stands in its loops.
Placed(t) ==
  /\ t.pc \in Routing \union {"append_raw", "set_last", "lookup"} => t.handler = "ingest"
  /\ t.pc = "lookup" => t.stage \in Stages
  /\ t.pc \in Routing =>
       /\ t.stage \in Stages /\ t.targets # << >> /\ IsInjective(t.targets)
       /\ ToSet(t.targets) \subseteq ToSet(Providers(t.stage))
  /\ t.pc = "finish" => t.stage = "done"
  /\ (t.pc = "idle" \/ t.handler = "store") => t.failures = 0

\* What thread t has put in the lists, or is going to.
Listed(t) ==
  /\ (t.pc # "idle" /\ t.handler = "store") => t.event \notin ToSet(raw)
  /\ t.pc = "append_raw" => baseline[t.event] \in ToSet(raw) \union {Nil}
  /\ (t.pc \in {"append_event", "set_last"} /\ t.handler = "ingest") => t.event \in ToSet(raw)
  /\ t.pc \in {"snapshot_events", "replace"} =>
       t.snapshot \in State /\ IsPrefix(t.snapshot.raw, raw) /\ IsPrefix(t.snapshot.events, events)

\* As long as no two requests overlap: what thread t is about to save, or has saved.
Saved(t) ==
  /\ t.pc \in {"set_last", "snapshot_raw", "snapshot_events", "replace"} =>
       t.event \in ToSet(events)
  /\ t.pc = "replace" => t.snapshot.events = events
  /\ t.pc \in {"record", "lookup", "finish"} \union Routing => t.event \in ToSet(file.events)

\* state.json, the lists and the windows.
ListsInv ==
  /\ FileIsPrefix /\ BaselinePrecedes
  /\ ToSet(raw) \subseteq accepted /\ last \in ToSet(raw) \union {Nil}
  /\ \A w \in Workers : Listed(th[w])

\* What no overlap adds.
SavesInv ==
  AnsweredIsPersisted /\
  (~overlapped =>
    /\ \A v, w \in Workers : (~At(v, "idle") /\ ~At(w, "idle")) => v = w
    /\ \A w \in Workers : Saved(th[w]))

Later(s) == CASE s = "detect_anomalies"    -> {"store_market_events", "compute_risk"}
              [] s = "store_market_events" -> {"compute_risk"}
              [] OTHER                     -> {}

\* The routes that are left to thread t, the one it is calling included.
Left(t) ==
  {r \in RoutesOf(t.event) :
     \/ t.pc \in Storing
     \/ r.stage \in Later(t.stage)
     \/ t.pc = "lookup" /\ r.stage = t.stage
     \/ t.pc = "call" /\ r.stage = t.stage /\ r.target \in ToSet(t.targets)
     \/ t.pc \in {"record_routed", "record_failed"} /\ r.stage = t.stage
          /\ r.target \in ToSet(Tail(t.targets))}

Untouched(r) == delivered[r] = 0 /\ late[r] = 0 /\ lost[r] = 0

\* The calls of a route, before, during and after its turn.
CallsInv ==
  /\ \A r \in Routes : r.event \notin accepted => Untouched(r)
  /\ \A w \in Workers : ~At(w, "idle") => \A r \in Left(th[w]) :
       Untouched(r) \/ (At(w, "call") /\ r = Current(w))
  /\ \A w \in Workers : At(w, "call") =>
       /\ delivered[Current(w)] + late[Current(w)] <= lost[Current(w)]
       /\ lost[Current(w)] < th[w].attempt
  /\ \A r \in Routes :
       delivered[r] + late[r] <= Retries /\ delivered[r] + late[r] <= 1 + lost[r]

Failed(e) == \E r \in gaveUp : r.event = e

\* The outcome of a route, before and after its turn.
OutcomesInv ==
  /\ OutcomesAccounted
  /\ \A w \in Workers : (~At(w, "idle") /\ th[w].handler = "ingest") =>
       \A r \in RoutesOf(th[w].event) \ Left(th[w]) : delivered[r] > 0 \/ r \in gaveUp \union skipped
  /\ \A r \in gaveUp : r.event \in accepted
  /\ \A w \in Workers : ~At(w, "idle") =>
       (Failed(th[w].event) <=> th[w].failures > 0 \/ At(w, "record_failed"))

\* All of it: the types, that state.json never diverges from the lists in memory,
\* that windows look back, how often a call is executed and what becomes of it.
IngestionInv ==
  /\ TypeOK /\ EventsApart /\ \A w \in Workers : Placed(th[w])
  /\ ListsInv /\ SavesInv /\ CallsInv /\ OutcomesInv
=============================================================================
