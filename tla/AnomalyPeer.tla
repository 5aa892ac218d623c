----------------------------- MODULE AnomalyPeer -----------------------------
(***************************************************************************)
(* The Azure anomaly peer: AnomalyService, whose alerts and histories the  *)
(* threads of the request pool share without a lock, and the state store   *)
(* (a file or a blob, replaced as a whole) that _save_state writes.        *)
(*                                                                         *)
(* A dict keeps its insertion order and its iterator raises when the size  *)
(* has changed since it was made, so serialising one is a step per item.   *)
(* Whether an event scores above the threshold is a choice.                *)
(***************************************************************************)
EXTENDS SequencesExt, FiniteSetsExt

CONSTANTS
  Workers,         \* threads of the request pool
  Events,          \* market events
  Symbols,         \* their symbols
  SymbolOf,        \* the symbol of each event
  Reviews,         \* the verdicts of AnomalyAlertReview
  history_window,  \* maxlen of a symbol's deque
  MaxRequests,     \* bound: requests accepted
  MaxFaults,       \* bound: saves and ledger appends that fail
  MaxCrashes       \* bound: crashes

ASSUME WindowAssumption == history_window \in Nat \ {0}
ASSUME SymbolAssumption == SymbolOf \in [Events -> Symbols]
ASSUME ReviewAssumption == "pending_review" \notin Reviews

VARIABLES
  th,        \* each thread: its place in the handler and its local variables
  alerts,    \* alerts, in insertion order
  history,   \* history_by_symbol: the features of the last events of each symbol
  stored,    \* what the state store holds
  ledger,    \* the audit blocks the registry recorded
  created,   \* alert ids drawn so far
  answered,  \* observer: alerts as they were answered, the last answer of each
  saved,     \* observer: ids of alerts that the store has held
  overlapped, \* observer: whether two requests were ever in progress at once
  used       \* how much of each bound is spent

memory    == <<alerts, history>>
observers == <<answered, saved>>
load      == <<used, overlapped>>
vars      == <<th, memory, stored, ledger, created, observers, load>>

Nil == << >>
Bounds == {"requests", "faults", "crashes"}

Spend(bound, limit) ==
  /\ used[bound] < limit
  /\ used' = [used EXCEPT ![bound] = @ + 1]
  /\ UNCHANGED overlapped

Fault == Spend("faults", MaxFaults)

\* The larger of _rule_based_score and _model_score, against alert_threshold.
Scores == {"below", "above"}

Idle == [pc |-> "idle", event |-> Nil, score |-> "below", alert |-> Nil, block |-> Nil,
         size |-> 0, todo |-> {}, dump |-> Nil]

At(w, location) == th[w].pc = location

\* A thread of the pool takes a request.
Accept ==
  /\ used["requests"] < MaxRequests
  /\ used' = [used EXCEPT !["requests"] = @ + 1]
  /\ overlapped' = (overlapped \/ \E w \in Workers : ~At(w, "idle"))

Ids(s) == [i \in DOMAIN s |-> s[i].alert_id]

\* A deque with maxlen.
AppendMax(deque, x) ==
  LET all == Append(deque, x)
  IN  SubSeq(all, Max({1, Len(all) - history_window + 1}), Len(all))

\* dict[x] = v
With(dict, x, v) == [y \in DOMAIN dict \union {x} |-> IF y = x THEN v ELSE dict[y]]

\* Indexing a defaultdict inserts the missing key.
Touch(table, s) == IF s \in DOMAIN table THEN table ELSE With(table, s, << >>)

-----------------------------------------------------------------------------
Init ==
  /\ th = [w \in Workers |-> Idle]
  /\ alerts = << >> /\ history = << >>
  /\ stored = [alerts |-> << >>, history |-> << >>]
  /\ ledger = {} /\ created = 0
  /\ answered = << >> /\ saved = {}
  /\ overlapped = FALSE /\ used = [b \in Bounds |-> 0]

-----------------------------------------------------------------------------
(* POST /anomaly/analyze                                                   *)

\* The baseline is copied, which inserts the symbol, and the event is scored.
Analyze(w) ==
  /\ At(w, "idle")
  /\ Accept
  /\ \E e \in Events, score \in Scores :
       /\ history' = Touch(history, SymbolOf[e])
       /\ th' = [th EXCEPT ![w] = [Idle EXCEPT !.pc = "append", !.event = e,
                                               !.score = score]]
  /\ UNCHANGED <<alerts, stored, ledger, created, observers>>

AppendFeatures(w) ==
  LET e == th[w].event
      s == SymbolOf[e]
  IN  /\ history' = [Touch(history, s) EXCEPT ![s] = AppendMax(@, e)]
      /\ UNCHANGED <<alerts, stored, ledger, observers, load>>

\* The score is below the threshold: nothing is saved.
BelowThreshold(w) ==
  /\ At(w, "append") /\ th[w].score = "below"
  /\ AppendFeatures(w)
  /\ th' = [th EXCEPT ![w] = Idle]
  /\ UNCHANGED created

\* Severity and reason, which _severity and _reason derive, are left out.
NewAlert(id, e) == [alert_id |-> id, event |-> e, status |-> "pending_review"]

\* It is not: an alert with an id of its own.
AboveThreshold(w) ==
  /\ At(w, "append") /\ th[w].score = "above"
  /\ AppendFeatures(w)
  /\ created' = created + 1
  /\ th' = [th EXCEPT ![w].pc = "insert",
                      ![w].alert = NewAlert(created + 1, th[w].event)]

\* Thread state t at the start of _save_state, whose effect block records.
AtSave(t, block) ==
  [t EXCEPT !.pc = "iterate", !.block = block,
            !.dump = [alerts |-> << >>, history |-> << >>]]

InsertAlert(w) ==
  /\ At(w, "insert")
  /\ alerts' = Append(alerts, th[w].alert)
  /\ th' = [th EXCEPT ![w] =
              AtSave(@, <<"anomaly_alert_created", @.alert.alert_id>>)]
  /\ UNCHANGED <<history, stored, ledger, created, observers, load>>

\* POST /anomaly/alerts/{alert_id}/review; an unknown id is a 404 and no step.
ReviewAlert(w) ==
  /\ At(w, "idle")
  /\ Accept
  /\ \E i \in DOMAIN alerts, verdict \in Reviews :
       LET updated == [alerts[i] EXCEPT !.status = verdict]
       IN  /\ alerts' = [alerts EXCEPT ![i] = updated]
           /\ th' = [th EXCEPT ![w] =
                       AtSave([Idle EXCEPT !.alert = updated],
                              <<"anomaly_alert_reviewed", updated.alert_id>>)]
  /\ UNCHANGED <<history, stored, ledger, created, observers>>

-----------------------------------------------------------------------------
(* _save_state: iterate over both dicts, then replace what the store holds. *)

Iterate(w) ==
  /\ At(w, "iterate")
  /\ th' = [th EXCEPT ![w].pc = "dump_alerts", ![w].size = Len(alerts)]
  /\ UNCHANGED <<memory, stored, ledger, created, observers, load>>

\* One turn of the iterator over alerts; after the last one, that over history.
DumpAlert(w) ==
  LET dumped == th[w].dump.alerts
      next == Len(dumped) + 1
  IN  /\ At(w, "dump_alerts") /\ Len(alerts) = th[w].size
      /\ th' = [th EXCEPT ![w] =
                  IF next <= Len(alerts)
                  THEN [@ EXCEPT !.dump.alerts = Append(dumped, alerts[next])]
                  ELSE [@ EXCEPT !.pc = "dump_history", !.todo = DOMAIN history,
                                 !.size = Cardinality(DOMAIN history)]]
      /\ UNCHANGED <<memory, stored, ledger, created, observers, load>>

DumpHistory(w) ==
  /\ At(w, "dump_history") /\ Cardinality(DOMAIN history) = th[w].size
  /\ \/ /\ th[w].todo = {}
        /\ th' = [th EXCEPT ![w].pc = "replace"]
     \/ \E s \in th[w].todo :
          th' = [th EXCEPT ![w].todo = @ \ {s},
                           ![w].dump.history = With(@, s, history[s])]
  /\ UNCHANGED <<memory, stored, ledger, created, observers, load>>

\* Mutant: the error of the iteration is swallowed and the save skipped.
SizeChanged_Swallowed(w) ==
  /\ \/ At(w, "dump_alerts")  /\ Len(alerts) # th[w].size
     \/ At(w, "dump_history") /\ Cardinality(DOMAIN history) # th[w].size
  /\ th' = [th EXCEPT ![w].pc = "record"]
  /\ UNCHANGED <<memory, stored, ledger, created, observers, load>>

\* RuntimeError: dictionary changed size during iteration.  The request fails
\* with its change in memory, neither saved nor recorded.
SizeChanged(w) ==
  /\ \/ At(w, "dump_alerts")  /\ Len(alerts) # th[w].size
     \/ At(w, "dump_history") /\ Cardinality(DOMAIN history) # th[w].size
  /\ th' = [th EXCEPT ![w] = Idle]
  /\ UNCHANGED <<memory, stored, ledger, created, observers, load>>

\* save_json of either store
SaveJson(w) ==
  /\ At(w, "replace")
  /\ stored' = th[w].dump
  /\ saved' = saved \union ToSet(Ids(th[w].dump.alerts))
  /\ th' = [th EXCEPT ![w].pc = "record"]
  /\ UNCHANGED <<memory, ledger, created, answered, load>>

\* Mutant: a failed save is ignored.
SaveFails_Ignored(w) ==
  /\ At(w, "replace")
  /\ Fault
  /\ th' = [th EXCEPT ![w].pc = "record"]
  /\ UNCHANGED <<memory, stored, ledger, created, observers>>

SaveFails(w) ==
  /\ At(w, "replace")
  /\ Fault
  /\ th' = [th EXCEPT ![w] = Idle]
  /\ UNCHANGED <<memory, stored, ledger, created, observers>>

-----------------------------------------------------------------------------
\* record_ledger_event, whose failure append_ledger swallows, and the answer.
Record(w) ==
  /\ At(w, "record")
  /\ \/ ledger' = ledger \union {th[w].block} /\ UNCHANGED load
     \/ Fault /\ UNCHANGED ledger
  /\ answered' = With(answered, th[w].alert.alert_id, th[w].alert)
  /\ th' = [th EXCEPT ![w] = Idle]
  /\ UNCHANGED <<memory, stored, created, saved>>

\* The process dies and starts again: _load_state.
CrashAndRestart ==
  /\ Spend("crashes", MaxCrashes)
  /\ th' = [w \in Workers |-> Idle]
  /\ alerts' = stored.alerts /\ history' = stored.history
  /\ UNCHANGED <<stored, ledger, created, observers>>

Handler(w) ==
  \/ BelowThreshold(w) \/ AboveThreshold(w) \/ InsertAlert(w)
  \/ Iterate(w) \/ DumpAlert(w) \/ DumpHistory(w) \/ SizeChanged(w)
  \/ SaveJson(w) \/ SaveFails(w) \/ Record(w)

Next ==
  \/ \E w \in Workers : Analyze(w) \/ ReviewAlert(w) \/ Handler(w)
  \/ CrashAndRestart

Spec == Init /\ [][Next]_vars

-----------------------------------------------------------------------------
(* Properties.                                                             *)

Status == Reviews \union {"pending_review"}
Alert  == [alert_id : Nat, event : Events, status : Status]
Deque  == BoundedSeq(Events, history_window)
Table  == UNION {[S -> Deque] : S \in {T \in SUBSET Symbols : IsFiniteSet(T)}}
State  == [alerts : Seq(Alert), history : Table]
Block  == {"anomaly_alert_created", "anomaly_alert_reviewed"} \X Nat

Iterating == {"iterate", "dump_alerts", "dump_history", "replace"}

Thread ==
  [pc : {"idle", "append", "insert", "record"} \union Iterating,
   event : Events \union {Nil}, score : Scores, alert : Alert \union {Nil},
   block : Block \union {Nil}, size : Nat, todo : SUBSET Symbols,
   dump : State \union {Nil}]

\* Type invariant; no deque outgrows its maxlen, in memory, in a dump or stored.
TypeOK ==
  /\ th \in [Workers -> Thread]
  /\ alerts \in Seq(Alert) /\ history \in Table /\ stored \in State
  /\ ledger \subseteq Block /\ created \in Nat /\ saved \subseteq Nat
  /\ \A id \in DOMAIN answered : answered[id] \in Alert
  /\ overlapped \in BOOLEAN /\ used \in [Bounds -> Nat]

\* The store is never torn: it holds the alerts of some moment, all of them and
\* in their order, although other threads insert while they are serialised.
StoredIsPrefix == IsPrefix(Ids(stored.alerts), Ids(alerts))

\* The ledger mentions no alert that was never stored: the save comes first.
AuditedWasSaved == \A b \in ledger : b[2] \in saved

\* As long as no two requests overlap, an answered alert stays in the store, and an
\* answered review is never undone there: a later verdict may replace it, a
\* failed one or a restart does not take it back.
AnsweredIsStored ==
  ~overlapped => \A id \in DOMAIN answered : \E i \in DOMAIN stored.alerts :
    /\ stored.alerts[i].alert_id = id
    /\ answered[id].status \in Reviews => stored.alerts[i].status \in Reviews

\* Every alert has an id of its own, also those that threads have yet to insert.
IdsFresh ==
  /\ IsInjective(Ids(alerts)) /\ ToSet(Ids(alerts)) \subseteq 1..created
  /\ \A w \in Workers : At(w, "insert") =>
       /\ th[w].alert \in Alert /\ th[w].alert.alert_id \in (1..created) \ ToSet(Ids(alerts))
       /\ \A v \in Workers : (v # w /\ At(v, "insert")) =>
            th[v].alert.alert_id # th[w].alert.alert_id

\* What a thread t has serialised is the beginning of the alerts, and once it is done
\* with them its own alert is among it.
Faithful(t) ==
  /\ t.pc = "append" => t.event \in Events
  /\ t.pc \in Iterating \union {"record"} =>
       t.alert \in Alert /\ t.block \in Block /\ t.block[2] = t.alert.alert_id
  /\ t.pc \in Iterating =>
       /\ t.dump \in State /\ IsPrefix(Ids(t.dump.alerts), Ids(alerts))
       /\ t.alert.alert_id \in ToSet(Ids(alerts))
  /\ t.pc = "dump_history" => t.todo \subseteq DOMAIN history
  /\ t.pc \in {"dump_history", "replace"} =>
       t.alert.alert_id \in ToSet(Ids(t.dump.alerts))
  /\ t.pc = "record" => t.alert.alert_id \in saved

\* What it has serialised is what memory holds, and so is what it has saved.
Current(t) ==
  /\ t.pc \in Iterating \union {"record"} => t.alert \in ToSet(alerts)
  /\ t.pc \in Iterating => IsPrefix(t.dump.alerts, alerts)
  /\ t.pc \in {"dump_history", "replace"} => t.dump.alerts = alerts
  /\ t.pc = "record" => stored.alerts = alerts

\* Every save of a thread in progress is a save of its own alert.
DumpsFaithful == \A w \in Workers : Faithful(th[w])

\* As long as no two requests overlap, the one in progress saves what memory holds,
\* and a verdict in the store is one in memory.
SavesAreCurrent ==
  ~overlapped =>
    /\ \A v, w \in Workers : (~At(v, "idle") /\ ~At(w, "idle")) => v = w
    /\ \A i \in DOMAIN stored.alerts :
         stored.alerts[i].status \in Reviews => alerts[i].status \in Reviews
    /\ \A w \in Workers : Current(th[w])

\* The inductive invariant: the types, with no deque longer than its maxlen, a store
\* never torn, a ledger that mentions nothing that was not stored, and what the
\* threads in progress are about to do to these.
AnomalyInv ==
  /\ TypeOK /\ StoredIsPrefix /\ AuditedWasSaved
  /\ IdsFresh /\ DumpsFaithful /\ SavesAreCurrent
=============================================================================
