---------------------------- MODULE EventPipeline ----------------------------
(***************************************************************************)
(* One symbol's events on their way through three services: the ingestion  *)
(* peer with all its steps, and behind its calls the anomaly peer and the  *)
(* risk peer, whose threads share memory and save it without a lock.  A    *)
(* call may be given up before it arrives or while it is served, and is    *)
(* served to its end all the same; so requests overlap at a peer even when *)
(* the ingestion peer sends one at a time, and a thread may replace what   *)
(* another one saved by an older dump.  Either peer restarts from what it  *)
(* saved last.                                                             *)
(***************************************************************************)
EXTENDS IngestionPeer

CONSTANTS
  PeerThreads,     \* threads of the request pools of the two peers
  history_window,  \* maxlen of the symbol's deque
  MaxPeerCrashes   \* bound: restarts of the anomaly and the risk peer

ASSUME WindowAssumption == history_window \in Nat \ {0} /\ MaxPeerCrashes \in Nat
ASSUME ThreadsAssumption == IsFiniteSet(PeerThreads)
\* The deployment has one anomaly peer and one risk peer.
ASSUME PeersAssumption == Len(Anomaly) = 1 /\ Len(Risk) = 1

VARIABLES
  serving,      \* each thread of the peers: the call it serves and its local variables
  anomaly,      \* the anomaly peer's memory: history of the symbol, alerts
  blob,         \* what its state store holds
  market,       \* the risk peer's events_by_symbol
  riskFile,     \* the events in its state.json, and whether there is a portfolio in it
  analysed,     \* observer: analyses in their order, and whether each saved an alert
  snapshots,    \* observer: for which event a snapshot was computed, and from which
  crossed,      \* observer: calls that saved while another save of the peer was under way
  peerCrashes

anomalyVars == <<anomaly, blob, analysed>>
riskVars    == <<market, riskFile, snapshots>>
peerVars    == <<serving, anomalyVars, riskVars, crossed, peerCrashes>>
allVars     == <<vars, peerVars>>

Free == [pc |-> "free", call |-> Nil, awaited |-> FALSE, baseline |-> Nil, alert |-> FALSE,
         place |-> 0, after |-> "answer", dump |-> Nil]

PipelineInit ==
  /\ Init
  /\ serving = [t \in PeerThreads |-> Free]
  /\ anomaly = [history |-> << >>, alerts |-> << >>] /\ blob = anomaly
  /\ market = << >> /\ riskFile = [events |-> << >>, portfolio |-> FALSE]
  /\ analysed = << >> /\ snapshots = {} /\ crossed = {} /\ peerCrashes = 0

-----------------------------------------------------------------------------
(* Threads and the calls they serve.                                       *)

Is(t, location) == serving[t].pc = location
Busy(t) == ~Is(t, "free")

\* Thread t goes on as job.
Becomes(t, job) == serving' = [serving EXCEPT ![t] = job]

\* The call of set_portfolio, which is not one of the ingestion peer's.
PortfolioCall == Route("set_portfolio", Head(Risk), Nil)

ToAnomaly(t) == serving[t].call.stage = "detect_anomalies"

\* The caller of route r waits for a thread that serves it.
Awaited(r) == \E t \in PeerThreads : Busy(t) /\ serving[t].awaited /\ serving[t].call = r

\* The threads that serve a call of route r which was given up.
Abandoned(r) == {t \in PeerThreads : Busy(t) /\ ~serving[t].awaited /\ serving[t].call = r}

\* The handler of thread t ends: its caller goes on, if it still waits.
Ends(t) ==
  /\ Becomes(t, Free)
  /\ \/ serving[t].awaited
        /\ \E w \in Workers : At(w, "call") /\ Current(w) = serving[t].call /\ CallSucceeds(w)
     \/ ~serving[t].awaited /\ serving[t].call \in Routes /\ ExecuteLate(serving[t].call)
     \/ serving[t].call \notin Routes /\ UNCHANGED vars

\* Another thread of the same peer has begun to serialise its state and has yet to
\* replace the document.
Crosses(t) ==
  \E u \in PeerThreads \ {t} :
    /\ serving[u].pc \in {"dump_history", "dump_portfolio", "replace"}
    /\ ToAnomaly(u) = ToAnomaly(t)

Cross(t) == crossed' = IF Crosses(t) THEN crossed \union {serving[t].call} ELSE crossed

-----------------------------------------------------------------------------
(* The anomaly peer: analyze_event and _save_state.                        *)

\* A deque with maxlen.
AppendMax(deque, x) ==
  IF Len(deque) < history_window THEN Append(deque, x) ELSE Append(Tail(deque), x)

\* The baseline is copied and the event scored against it.
AnalyzeEvent(t, job) ==
  /\ \E alert \in BOOLEAN :
       Becomes(t, [job EXCEPT !.pc = "append", !.baseline = anomaly.history, !.alert = alert])
  /\ UNCHANGED <<anomalyVars, riskVars>>

\* The event joins the history; below the threshold nothing is saved.
AppendFeatures(t) ==
  LET e == serving[t].call.event
  IN  /\ Is(t, "append")
      /\ anomaly' = [anomaly EXCEPT !.history = AppendMax(@, e)]
      /\ analysed' = Append(analysed, [event |-> e, saved |-> FALSE])
      /\ IF serving[t].alert
         THEN /\ Becomes(t, [serving[t] EXCEPT !.pc = "insert", !.place = Len(analysed) + 1])
              /\ UNCHANGED vars
         ELSE Ends(t)
      /\ UNCHANGED <<blob, riskVars, crossed, peerCrashes>>

\* Mutant: the alert is reported with the history its event has joined.
InsertAlert_ReadsAgain(t) ==
  /\ Is(t, "insert")
  /\ anomaly' = [anomaly EXCEPT !.alerts =
                   Append(@, [event |-> serving[t].call.event, baseline |-> anomaly.history])]
  /\ Becomes(t, [serving[t] EXCEPT !.pc = "dump_alerts"])
  /\ UNCHANGED <<vars, blob, analysed, riskVars, crossed, peerCrashes>>

InsertAlert(t) ==
  /\ Is(t, "insert")
  /\ anomaly' = [anomaly EXCEPT !.alerts =
                   Append(@, [event |-> serving[t].call.event, baseline |-> serving[t].baseline])]
  /\ Becomes(t, [serving[t] EXCEPT !.pc = "dump_alerts"])
  /\ UNCHANGED <<vars, blob, analysed, riskVars, crossed, peerCrashes>>

DumpAlerts(t) ==
  /\ Is(t, "dump_alerts")
  /\ Becomes(t, [serving[t] EXCEPT !.pc = "dump_history",
                                   !.dump = [history |-> << >>, alerts |-> anomaly.alerts]])
  /\ UNCHANGED <<vars, anomalyVars, riskVars, crossed, peerCrashes>>

\* Mutant: the state is saved with the history the event was scored against.
DumpHistory_Baseline(t) ==
  /\ Is(t, "dump_history")
  /\ Becomes(t, [serving[t] EXCEPT !.pc = "replace", !.dump.history = serving[t].baseline])
  /\ UNCHANGED <<vars, anomalyVars, riskVars, crossed, peerCrashes>>

DumpHistory(t) ==
  /\ Is(t, "dump_history")
  /\ Becomes(t, [serving[t] EXCEPT !.pc = "replace", !.dump.history = anomaly.history])
  /\ UNCHANGED <<vars, anomalyVars, riskVars, crossed, peerCrashes>>

\* The dump replaces what the store holds, also a newer one.
SaveBlob(t) ==
  /\ Is(t, "replace") /\ ToAnomaly(t)
  /\ blob' = serving[t].dump
  /\ analysed' = [analysed EXCEPT ![serving[t].place].saved = TRUE]
  /\ Cross(t)
  /\ Ends(t)
  /\ UNCHANGED <<anomaly, riskVars, peerCrashes>>

-----------------------------------------------------------------------------
(* The risk peer: ingest_event, compute_risk, set_portfolio, _save_state.  *)

Compute(e) == snapshots' = snapshots \union {[event |-> e, of |-> ToSet(market)]}

\* Mutant: the newest event comes first.
IngestEvent_NewestFirst(t, job) ==
  /\ market' = <<job.call.event>> \o market
  /\ Becomes(t, [job EXCEPT !.pc = "dump_events", !.after = "auto"])
  /\ UNCHANGED <<riskFile, snapshots, anomalyVars>>

\* ingest_event: append and save, and go on at auto_compute.
IngestEvent(t, job) ==
  /\ market' = Append(market, job.call.event)
  /\ Becomes(t, [job EXCEPT !.pc = "dump_events", !.after = "auto"])
  /\ UNCHANGED <<riskFile, snapshots, anomalyVars>>

\* compute_risk: a snapshot, then a save.
ComputeRisk(t, job) ==
  /\ Compute(job.call.event)
  /\ Becomes(t, [job EXCEPT !.pc = "dump_events"])
  /\ UNCHANGED <<market, riskFile, anomalyVars>>

AutoCompute(t) ==
  /\ Is(t, "auto")
  /\ IF portfolio
     THEN /\ Compute(serving[t].call.event)
          /\ Becomes(t, [serving[t] EXCEPT !.pc = "dump_events", !.after = "answer"])
          /\ UNCHANGED vars
     ELSE Ends(t) /\ UNCHANGED snapshots
  /\ UNCHANGED <<anomalyVars, market, riskFile, crossed, peerCrashes>>

\* set_portfolio saves the whole state.
Portfolio(t) ==
  /\ ~Busy(t)
  /\ SetPortfolio
  /\ Becomes(t, [Free EXCEPT !.pc = "dump_events", !.call = PortfolioCall])
  /\ UNCHANGED <<anomalyVars, riskVars, crossed, peerCrashes>>

DumpEvents(t) ==
  /\ Is(t, "dump_events")
  /\ Becomes(t, [serving[t] EXCEPT !.pc = "dump_portfolio",
                                   !.dump = [events |-> market, portfolio |-> FALSE]])
  /\ UNCHANGED <<vars, anomalyVars, riskVars, crossed, peerCrashes>>

DumpPortfolio(t) ==
  /\ Is(t, "dump_portfolio")
  /\ Becomes(t, [serving[t] EXCEPT !.pc = "replace", !.dump.portfolio = portfolio])
  /\ UNCHANGED <<vars, anomalyVars, riskVars, crossed, peerCrashes>>

\* Mutant: a save that finds another one under way is left to that one.
SaveRiskFile_LeftToOther(t) ==
  /\ Is(t, "replace") /\ ~ToAnomaly(t)
  /\ riskFile' = IF Crosses(t) THEN riskFile ELSE serving[t].dump
  /\ UNCHANGED crossed
  /\ IF serving[t].after = "auto"
     THEN Becomes(t, [serving[t] EXCEPT !.pc = "auto"]) /\ UNCHANGED vars
     ELSE Ends(t)
  /\ UNCHANGED <<anomalyVars, market, snapshots, peerCrashes>>

\* The dump replaces the file, also a newer one.
SaveRiskFile(t) ==
  /\ Is(t, "replace") /\ ~ToAnomaly(t)
  /\ riskFile' = serving[t].dump
  /\ Cross(t)
  /\ IF serving[t].after = "auto"
     THEN Becomes(t, [serving[t] EXCEPT !.pc = "auto"]) /\ UNCHANGED vars
     ELSE Ends(t)
  /\ UNCHANGED <<anomalyVars, market, snapshots, peerCrashes>>

-----------------------------------------------------------------------------
(* Calls arrive, are given up, and fail.                                   *)

\* A thread takes the call of route r.
Takes(t, r, awaited) ==
  LET job == [Free EXCEPT !.call = r, !.awaited = awaited]
  IN  /\ ~Busy(t) /\ ~Rejects(r)
      /\ \/ r.stage = "detect_anomalies" /\ AnalyzeEvent(t, job)
         \/ r.stage = "store_market_events" /\ IngestEvent(t, job)
         \/ r.stage = "compute_risk" /\ ComputeRisk(t, job)
      /\ UNCHANGED <<vars, crossed, peerCrashes>>

TakeCall(t) ==
  \E w \in Workers : At(w, "call") /\ ~Awaited(Current(w)) /\ Takes(t, Current(w), TRUE)

\* It was given up on its way.
TakeLate(t) ==
  \E r \in Routes : Cardinality(Abandoned(r)) < late[r] /\ Takes(t, r, FALSE)

\* Nobody waits any more for a thread that serves one of the routes.
Abandon(routes) ==
  serving' = [t \in PeerThreads |->
                IF serving[t].awaited /\ serving[t].call \in routes
                THEN [serving[t] EXCEPT !.awaited = FALSE] ELSE serving[t]]

\* A caller gives up; a call that is being served goes on.
GiveUp(w) ==
  /\ CallFails(w)
  /\ Awaited(Current(w)) => lost' # lost
  /\ Abandon({Current(w)})
  /\ UNCHANGED <<anomalyVars, riskVars, crossed, peerCrashes>>

\* The ingestion process dies; calls that are being served go on.
Crash ==
  /\ CrashAndRestart
  /\ \A r \in Routes : Awaited(r) => lost'[r] # lost[r]
  /\ Abandon(Routes)
  /\ UNCHANGED <<anomalyVars, riskVars, crossed, peerCrashes>>

\* A handler raises, as a failed save does, or its process is about to die.  Its
\* caller, which is answered 500 or loses the connection, has given up.
HandlerFails(t) ==
  /\ Busy(t) /\ ~serving[t].awaited
  /\ Ends(t)
  /\ UNCHANGED <<anomalyVars, riskVars, crossed, peerCrashes>>

PeerCrash == peerCrashes < MaxPeerCrashes /\ peerCrashes' = peerCrashes + 1

\* _load_state of the anomaly peer, once its handlers have failed.
RestartAnomaly ==
  /\ PeerCrash
  /\ \A t \in PeerThreads : Busy(t) => ~ToAnomaly(t)
  /\ anomaly' = blob
  /\ UNCHANGED <<vars, serving, blob, analysed, riskVars, crossed>>

\* _load_state of the risk peer, once its handlers have failed.
RestartRisk ==
  /\ PeerCrash
  /\ \A t \in PeerThreads : Busy(t) => ToAnomaly(t)
  /\ market' = riskFile.events
  /\ \/ riskFile.portfolio = portfolio /\ UNCHANGED vars
     \/ ~riskFile.portfolio /\ LosePortfolio
  /\ UNCHANGED <<serving, riskFile, snapshots, anomalyVars, crossed>>

Handler(t) ==
  \/ AppendFeatures(t) \/ InsertAlert(t) \/ DumpAlerts(t) \/ DumpHistory(t) \/ SaveBlob(t)
  \/ AutoCompute(t) \/ DumpEvents(t) \/ DumpPortfolio(t) \/ SaveRiskFile(t)
  \/ HandlerFails(t)

PipelineNext ==
  \/ \E t \in PeerThreads : TakeCall(t) \/ TakeLate(t) \/ Portfolio(t) \/ Handler(t)
  \/ \E w \in Workers :
       GiveUp(w) \/ ((Receive(w) \/ OwnStep(w)) /\ UNCHANGED peerVars)
  \/ Crash
  \/ RestartAnomaly
  \/ RestartRisk

PipelineSpec == PipelineInit /\ [][PipelineNext]_allVars

-----------------------------------------------------------------------------
(* Properties.                                                             *)

Lost(s, e) == \E r \in RoutesOf(e) : r.stage = s /\ lost[r] > 0

\* The save of the call for event e at stage s crossed another save.
Crossed(s, e) == \E r \in RoutesOf(e) : r.stage = s /\ r \in crossed

\* The retry of an analysis is not recognised: an event is alerted on twice, or
\* scored against a history that already holds it, but only when an earlier
\* attempt was given up and executed all the same.
AlertedOnce ==
  \A j \in DOMAIN anomaly.alerts :
    LET a == anomaly.alerts[j]
    IN  (\/ a.event \in ToSet(a.baseline)
         \/ \E i \in 1..(j - 1) : anomaly.alerts[i].event = a.event) =>
          Lost("detect_anomalies", a.event)

\* A restart of the anomaly peer sets the baseline back by the quiet events since
\* the last saved alert and no further: the event of a saved alert stays in it
\* until newer events push it out.  The exception is an alert whose save crossed
\* another one, which happens only if requests overlapped or a call was given up.
BaselineKept ==
  \A k \in DOMAIN analysed :
    analysed[k].saved =>
      \/ analysed[k].event \in ToSet(anomaly.history)
      \/ Len(analysed) - k >= history_window
      \/ /\ Crossed("detect_anomalies", analysed[k].event)
         /\ overlapped \/ \E e \in Events : Lost("detect_anomalies", e)

Position(e) == CHOOSE i \in DOMAIN raw : raw[i] = e

\* As long as no two requests overlap, the risk peer holds prices in the order in
\* which they were ingested and each once; what is out of order or repeated there
\* is the late execution of a call that was given up.
PricesInOrder ==
  ~overlapped =>
    \A j \in DOMAIN market : \A i \in 1..(j - 1) :
      {market[i], market[j]} \subseteq ToSet(raw) =>
        \/ Position(market[i]) < Position(market[j])
        \/ \E e \in {market[i], market[j]} : Lost("store_market_events", e)

\* The risk computed on behalf of an event takes it into account, also when the
\* risk peer restarted in between and however other requests overlapped, unless the
\* event was never stored there or the save that stored it crossed another one.
ComputedWithEvent ==
  \A s \in snapshots :
    \/ s.event \in s.of
    \/ \E r \in RoutesOf(s.event) :
         r.stage = "store_market_events" /\ r \in gaveUp \union skipped \union crossed

-----------------------------------------------------------------------------
(* The inductive invariant.                                                *)

\* The route of event e at stage s.
The(s, e) == Route(s, Head(Providers(s)), e)

AnomalySteps == {"append", "insert", "dump_alerts", "dump_history", "replace"}
AlertSteps   == {"dump_alerts", "dump_history", "replace"}
RiskSteps    == {"dump_events", "dump_portfolio", "replace", "auto"}

Alert        == [event : Events, baseline : Seq(Events)]
AnomalyState == [history : Seq(Events), alerts : Seq(Alert)]
RiskState    == [events : Seq(Events), portfolio : BOOLEAN]

Job ==
  [pc : {"free"} \union AnomalySteps \union RiskSteps,
   call : Routes \union {PortfolioCall, Nil}, awaited : BOOLEAN, baseline : Seq(Events),
   alert : BOOLEAN, place : Nat, after : {"answer", "auto"},
   dump : AnomalyState \union RiskState \union {Nil}]

\* A thread has brought the call of route r to one of the places, or ended it.
Reached(r, places) ==
  \/ delivered[r] > 0
  \/ \E t \in PeerThreads : serving[t].pc \in places /\ serving[t].call = r

\* Whom a busy thread serves.
ServedInv(t) ==
  LET job == serving[t]
  IN  Busy(t) =>
        /\ job.call # Nil
        /\ job.pc \in IF ToAnomaly(t) THEN AnomalySteps ELSE RiskSteps
        /\ job.awaited => \E w \in Workers : At(w, "call") /\ Current(w) = job.call
        /\ (~job.awaited /\ job.call \in Routes) => lost[job.call] > 0

\* A call is given up before it is repeated.
ThreadsInv ==
  /\ serving \in [PeerThreads -> Job]
  /\ \A t \in PeerThreads : ServedInv(t)
  /\ \A t, u \in PeerThreads :
       (/\ Busy(t) /\ serving[t].awaited
        /\ Busy(u) /\ serving[u].awaited /\ serving[t].call = serving[u].call) => t = u

\* What AlertedOnce says of the alerts a, in memory, in a dump or in the state store.
OnceUnlessLost(a) ==
  \A j \in DOMAIN a :
    (\/ a[j].event \in ToSet(a[j].baseline)
     \/ \E i \in 1..(j - 1) : a[i].event = a[j].event) => lost[The("detect_anomalies", a[j].event)] > 0

AlertsInv(a) ==
  /\ a \in Seq(Alert)
  /\ \A j \in DOMAIN a : Reached(The("detect_anomalies", a[j].event), AlertSteps)
  /\ OnceUnlessLost(a)

\* Analysis k is in history h, unless enough others have come since.
Holds(h, k) ==
  \/ Len(analysed) - k >= history_window
  \/ \E p \in DOMAIN h : h[p] = analysed[k].event /\ Len(h) - p <= Len(analysed) - k

\* Of a history in memory, in a dump or in the state store: a saved alert's event is
\* in it, unless the save crossed another one.
HistoryInv(h) ==
  /\ h \in Seq(Events) /\ Len(h) <= history_window
  /\ \A e \in ToSet(h) : Reached(The("detect_anomalies", e), AnomalySteps)
  /\ \A k \in DOMAIN analysed :
       analysed[k].saved =>
         Holds(h, k) \/ The("detect_anomalies", analysed[k].event) \in crossed

\* A thread of the anomaly peer.
AnalysisInv(t) ==
  LET job == serving[t]
  IN  (Busy(t) /\ ToAnomaly(t)) =>
        /\ job.call.event \in ToSet(job.baseline) => lost[job.call] > 0
        /\ job.pc # "append" =>
             /\ job.place \in DOMAIN analysed /\ analysed[job.place].event = job.call.event
             /\ Holds(anomaly.history, job.place)
        /\ job.pc \in {"dump_history", "replace"} =>
             job.dump \in AnomalyState /\ AlertsInv(job.dump.alerts)
        /\ job.pc = "replace" =>
             HistoryInv(job.dump.history) /\ Holds(job.dump.history, job.place)

\* Saves cross only if requests overlapped or a call was given up.
CrossedInv ==
  (\E r \in crossed : r.stage = "detect_anomalies") =>
    overlapped \/ \E e \in Events : lost[The("detect_anomalies", e)] > 0

AnomalyInv ==
  /\ analysed \in Seq([event : Events, saved : BOOLEAN])
  /\ anomaly \in AnomalyState /\ AlertsInv(anomaly.alerts) /\ HistoryInv(anomaly.history)
  /\ blob \in AnomalyState /\ AlertsInv(blob.alerts) /\ HistoryInv(blob.history)
  /\ \A t \in PeerThreads : AnalysisInv(t)
  /\ CrossedInv

\* A call that can still be executed was given up.
LateIsLost == \A r \in Routes : late[r] <= lost[r]

\* A message is in raw once, and as long as no two requests overlap the one in
\* progress is the newest.
RawInv ==
  /\ IsInjective(raw)
  /\ \A w \in Workers : At(w, "append_raw") => th[w].event \notin ToSet(raw)
  /\ ~overlapped => \A w \in Workers :
       (~At(w, "idle") /\ ~At(w, "append_raw") /\ th[w].handler = "ingest") =>
         raw # << >> /\ Last(raw) = th[w].event

\* A dump of the risk peer's events is on its way to the file.
Dumping(t) == serving[t].pc \in {"dump_portfolio", "replace"} /\ ~ToAnomaly(t)

\* The risk peer keeps event e, whichever dump comes last and whenever it restarts.
Durable(e) ==
  /\ e \in ToSet(riskFile.events)
  /\ \A t \in PeerThreads : Dumping(t) => e \in ToSet(serving[t].dump.events)

\* It does, or perhaps never will.
StoredOrNot(e) ==
  \/ Durable(e)
  \/ The("store_market_events", e) \in gaveUp \union skipped \union crossed

\* So it is for a thread that has passed the store call.
PassedInv ==
  \A w \in Workers : (~At(w, "idle") /\ th[w].handler = "ingest") =>
    \/ The("store_market_events", th[w].event) \in Left(th[w])
    \/ StoredOrNot(th[w].event)

\* A thread of the risk peer.
StoreInv(t) ==
  LET job == serving[t]
      e   == job.call.event
  IN  (Busy(t) /\ ~ToAnomaly(t)) =>
        /\ Dumping(t) => job.dump \in RiskState /\ IsPrefix(job.dump.events, market)
        /\ job.pc = "auto" => job.after = "auto"
        /\ job.after = "auto" => job.call.stage = "store_market_events"
        /\ job.call.stage = "store_market_events" =>
             /\ e \in ToSet(market)
             /\ Dumping(t) => e \in ToSet(job.dump.events)
             /\ (job.pc = "auto" \/ job.after = "answer") => Durable(e) \/ job.call \in crossed

\* The risk peer's events, and what calls find there.
RiskInv ==
  /\ market \in Seq(Events) /\ riskFile \in RiskState /\ IsPrefix(riskFile.events, market)
  /\ \A e \in ToSet(market) : Reached(The("store_market_events", e), RiskSteps)
  /\ \A t \in PeerThreads : StoreInv(t)
  /\ \A e \in Events : late[The("compute_risk", e)] > 0 => StoredOrNot(e)
  /\ snapshots \subseteq [event : Events, of : SUBSET Events]
  /\ PassedInv /\ PricesInOrder /\ ComputedWithEvent

\* All of it.
PipelineInv ==
  /\ crossed \subseteq Routes \union {PortfolioCall}
  /\ ThreadsInv /\ LateIsLost /\ RawInv /\ AnomalyInv /\ RiskInv
=============================================================================
