----------------------------- MODULE Dashboard ------------------------------
(***************************************************************************)
(* The web dashboard's list of alerts: the hook usePolling, which fetches  *)
(* the list at every tick of an interval and at every refresh and does not *)
(* wait for the previous fetch, and the panel that posts reviews.          *)
(*                                                                         *)
(* Every await is a point where other callbacks run: a fetch starts, is    *)
(* answered by the peer and arrives, in three steps; a review is posted,   *)
(* served and returns.                                                     *)
(***************************************************************************)
EXTENDS Naturals, FiniteSets, SequencesExt

CONSTANTS
  Alerts,       \* the alerts that the anomaly peer raises
  Null, Awaiting, Failed, Nobody,   \* no data, no answer yet, no answer, no alert
  MaxInFlight,  \* bound: fetches under way
  MaxReviews,   \* bound: reviews under way
  MaxChanges,   \* bound: changes of the interval, and of the tab
  MaxFaults     \* bound: failed requests

ASSUME BoundsAssumption ==
  /\ MaxInFlight \in Nat \ {0} /\ MaxReviews \in Nat
  /\ MaxChanges \in Nat /\ MaxFaults \in Nat

VARIABLES
  status,      \* the anomaly peer's alerts
  data,        \* the hook's data: null, or the list of some earlier moment
  error,       \* whether the hook shows an error
  loading,
  sawNull,     \* whether the closure that the interval calls was made with data null
  runs,        \* the calls of run that await, in the order of their start
  open,        \* whether the tab of the alerts is shown
  busyId,      \* the panel's busyId
  reviews,     \* the calls of review that await, in the order of the clicks
  returned,    \* observer: alerts whose review has been acknowledged
  outdated,    \* observer: whether another run had settled while that of data awaited
  crossed,     \* observer: whether reviews overlapped, or outlived their panel
  changes, faults

hook      == <<data, error, loading, sawNull, runs>>
panel     == <<open, busyId, reviews>>
observers == <<returned, outdated, crossed>>
bounds    == <<changes, faults>>
vars      == <<status, hook, panel, observers, bounds>>

\* An alert's status is never taken back.
Absent   == 0
Pending  == 1
Reviewed == 2
Lists    == [Alerts -> {Absent, Pending, Reviewed}]

ASSUME ValuesAssumption ==
  /\ {Null, Awaiting, Failed} \intersect Lists = {} /\ Awaiting # Failed
  /\ Nobody \notin Alerts

\* answer: what the await will give; passed: another run has settled meanwhile;
\* after: the alerts whose review was acknowledged when it started
Run    == [answer : Lists \union {Awaiting, Failed}, passed : BOOLEAN, after : SUBSET Alerts]
\* here: the panel that posted it is still mounted
Review == [alert : Alerts, served : BOOLEAN, here : BOOLEAN]

NewRun(after) == [answer |-> Awaiting, passed |-> FALSE, after |-> after]

-----------------------------------------------------------------------------
\* The first effect calls run; StrictMode runs it a second time.
Init ==
  /\ status \in [Alerts -> {Absent, Pending}]
  /\ data = Null /\ error = FALSE /\ loading = TRUE /\ sawNull = TRUE
  /\ runs \in {<<NewRun({})>>, <<NewRun({}), NewRun({})>>}
  /\ open = FALSE /\ busyId = Nobody /\ reviews = << >>
  /\ returned = {} /\ outdated = FALSE /\ crossed = FALSE
  /\ changes = 0 /\ faults = 0

-----------------------------------------------------------------------------
(* The hook.                                                               *)

\* run, up to its await; empty: whether its closure has data null
StartRun(empty, after) ==
  /\ Len(runs) < MaxInFlight
  /\ loading' = (empty \/ loading)
  /\ runs' = Append(runs, NewRun(after))

\* Mutant: the effect depends on the data and starts an interval only without it.
Tick_UntilLoaded ==
  /\ data = Null
  /\ StartRun(sawNull, returned)
  /\ UNCHANGED <<status, data, error, sawNull, panel, observers, bounds>>

\* The interval calls the run of the render that its effect belongs to.
Tick ==
  /\ StartRun(sawNull, returned)
  /\ UNCHANGED <<status, data, error, sawNull, panel, observers, bounds>>

\* The header's button calls the run of the last render.
RefreshAll ==
  /\ StartRun(data = Null, returned)
  /\ UNCHANGED <<status, data, error, sawNull, panel, observers, bounds>>

\* Another interval: the cleanup and the next effect, which calls run. What the
\* former effect fetches still finds mountedRef true, for the effect sets it again.
ChangeInterval ==
  /\ changes < MaxChanges
  /\ changes' = changes + 1
  /\ StartRun(data = Null, returned)
  /\ sawNull' = (data = Null)
  /\ UNCHANGED <<status, data, error, panel, observers, faults>>

\* The peer answers a fetch with its list of this moment.
Answer(i) ==
  /\ runs[i].answer = Awaiting
  /\ runs' = [runs EXCEPT ![i].answer = status]
  /\ UNCHANGED <<status, data, error, loading, sawNull, panel, observers, bounds>>

\* A status other than 2xx, or no connection, also after the peer has answered.
Lose(i) ==
  /\ faults < MaxFaults /\ runs[i].answer # Failed
  /\ faults' = faults + 1
  /\ runs' = [runs EXCEPT ![i].answer = Failed]
  /\ UNCHANGED <<status, data, error, loading, sawNull, panel, observers, changes>>

\* Run i leaves; the others have been passed by it.
Settle(i) == runs' = RemoveAt([j \in DOMAIN runs |-> [runs[j] EXCEPT !.passed = TRUE]], i)

\* Mutant: an error clears the data.
Arrive_ErrorClears(i) ==
  /\ runs[i].answer # Awaiting
  /\ Settle(i)
  /\ loading' = FALSE
  /\ IF runs[i].answer = Failed
     THEN error' = TRUE /\ data' = Null /\ UNCHANGED outdated
     ELSE error' = FALSE /\ data' = runs[i].answer /\ outdated' = runs[i].passed
  /\ UNCHANGED <<status, sawNull, panel, returned, crossed, bounds>>

\* run, after its await: an answer becomes the data, even if a later one has
\* arrived before it; an error leaves the data as it is.
Arrive(i) ==
  /\ runs[i].answer # Awaiting
  /\ Settle(i)
  /\ loading' = FALSE
  /\ IF runs[i].answer = Failed
     THEN error' = TRUE /\ UNCHANGED <<data, outdated>>
     ELSE error' = FALSE /\ data' = runs[i].answer /\ outdated' = runs[i].passed
  /\ UNCHANGED <<status, sawNull, panel, returned, crossed, bounds>>

-----------------------------------------------------------------------------
(* The panel of the alerts.                                                *)

\* Leaving the tab unmounts the panel: its state is gone, its reviews go on.
SwitchTab ==
  /\ changes < MaxChanges
  /\ changes' = changes + 1
  /\ open' = ~open
  /\ busyId' = Nobody
  /\ reviews' = [k \in DOMAIN reviews |-> [reviews[k] EXCEPT !.here = FALSE]]
  /\ crossed' = (crossed \/ reviews # << >>)
  /\ UNCHANGED <<status, hook, returned, outdated, faults>>

\* Mutant: the buttons of a busy alert are not disabled.
Offered_Busy(a) == open /\ data # Null /\ data[a] = Pending

\* The list has buttons for the alerts that it shows as pending, and disables
\* those of the one that is busy.
Offered(a) == open /\ data # Null /\ data[a] = Pending /\ busyId # a

\* review, up to its await
Click(a) ==
  /\ Offered(a)
  /\ Len(reviews) < MaxReviews
  /\ busyId' = a
  /\ reviews' = Append(reviews, [alert |-> a, served |-> FALSE, here |-> TRUE])
  /\ crossed' = (crossed \/ \E k \in DOMAIN reviews : reviews[k].alert # a)
  /\ UNCHANGED <<status, hook, open, returned, outdated, changes, faults>>

\* review_alert of the anomaly peer
Serve(k) ==
  /\ ~reviews[k].served
  /\ reviews' = [reviews EXCEPT ![k].served = TRUE]
  /\ status' = [status EXCEPT ![reviews[k].alert] = Reviewed]
  /\ UNCHANGED <<hook, open, busyId, observers, bounds>>

\* The finally block of review, which says nothing to a panel that is gone.
Finish(k) ==
  /\ busyId' = IF reviews[k].here THEN Nobody ELSE busyId
  /\ reviews' = RemoveAt(reviews, k)

\* Mutant: the panel is given no onReviewed.
ReviewReturns_NoRefresh(k) ==
  /\ reviews[k].served
  /\ Finish(k)
  /\ returned' = returned \union {reviews[k].alert}
  /\ UNCHANGED <<status, hook, open, outdated, crossed, bounds>>

\* review, after its await: onReviewed refreshes the list before it is known to
\* show the verdict, and the buttons are enabled again.
ReviewReturns(k) ==
  /\ reviews[k].served
  /\ Finish(k)
  /\ returned' = returned \union {reviews[k].alert}
  /\ StartRun(FALSE, returned')
  /\ UNCHANGED <<status, data, error, sawNull, open, outdated, crossed, bounds>>

\* The request or its answer is lost: the error is shown at the alert.
ReviewFails(k) ==
  /\ faults < MaxFaults
  /\ faults' = faults + 1
  /\ Finish(k)
  /\ UNCHANGED <<status, hook, open, observers, changes>>

-----------------------------------------------------------------------------
\* The peer raises an alert.
Raise(a) ==
  /\ status[a] = Absent
  /\ status' = [status EXCEPT ![a] = Pending]
  /\ UNCHANGED <<hook, panel, observers, bounds>>

Network == \E i \in DOMAIN runs : Answer(i) \/ Arrive(i)

Next ==
  \/ Tick \/ RefreshAll \/ ChangeInterval \/ Network
  \/ \E i \in DOMAIN runs : Lose(i)
  \/ SwitchTab
  \/ \E a \in Alerts : Click(a) \/ Raise(a)
  \/ \E k \in DOMAIN reviews : Serve(k) \/ ReviewReturns(k) \/ ReviewFails(k)

Spec == Init /\ [][Next]_vars

\* The interval goes on ticking, and every fetch is answered or fails.
FairSpec == Spec /\ WF_vars(Tick) /\ WF_vars(Network)

-----------------------------------------------------------------------------
(* Properties.                                                             *)

\* Type invariant.
TypeOK ==
  /\ status \in Lists
  /\ data \in Lists \union {Null} /\ error \in BOOLEAN /\ loading \in BOOLEAN
  /\ runs \in Seq(Run) /\ reviews \in Seq(Review)
  /\ busyId \in Alerts \union {Nobody} /\ returned \subseteq Alerts
  /\ sawNull \in BOOLEAN /\ open \in BOOLEAN /\ outdated \in BOOLEAN /\ crossed \in BOOLEAN

\* Two verdicts on one alert are under way only after reviews of two alerts have
\* overlapped or the tab was left: the one busyId covers one review.
OneReviewInFlight ==
  \A j, k \in DOMAIN reviews : (j # k /\ reviews[j].alert = reviews[k].alert) => crossed

\* The buttons that are disabled wait for something, and so does the spinner.
NobodyStuck ==
  /\ busyId # Nobody => \E k \in DOMAIN reviews : reviews[k].alert = busyId /\ reviews[k].here
  /\ loading => runs # << >>

\* Until reviews cross, the only one under way is that of busyId; the peer knows
\* what it has served.
ReviewsInv ==
  /\ ~crossed => \A k \in DOMAIN reviews : k = 1 /\ reviews[k].alert = busyId
  /\ \A k \in DOMAIN reviews : reviews[k].served => status[reviews[k].alert] = Reviewed

\* Run r answers with a list that the peer had after r started. While no other run
\* has settled, its answer is not behind the data, and of a review that was
\* acknowledged after its start the refresh is under way.
InTime(r) ==
  /\ r.after \subseteq returned
  /\ r.answer \in Lists =>
       \A a \in Alerts : /\ r.answer[a] <= status[a]
                         /\ a \in r.after => r.answer[a] = Reviewed
  /\ ~r.passed =>
       /\ (r.answer \in Lists /\ data # Null) => \A a \in Alerts : data[a] <= r.answer[a]
       /\ \A a \in returned \ r.after : \E j \in DOMAIN runs : a \in runs[j].after

\* What the dashboard has seen of the peer is not ahead of it.
RunsInv ==
  /\ \A a \in returned : status[a] = Reviewed
  /\ data # Null => \A a \in Alerts : data[a] <= status[a]
  /\ \A i \in DOMAIN runs : InTime(runs[i])

\* The types, what the flags of the interface stand for, and what the calls under
\* way will bring.
DashboardInv == TypeOK /\ OneReviewInFlight /\ NobodyStuck /\ ReviewsInv /\ RunsInv

\* After a review has been acknowledged the list shows it, or a fetch that started
\* later is under way, or the last one failed and says so, or an answer that was
\* passed by another one has been put in its place.
ReviewedIsRefreshed ==
  \A a \in returned :
     \/ data # Null /\ data[a] = Reviewed
     \/ \E i \in DOMAIN runs : a \in runs[i].after
     \/ error \/ outdated

\* What the operator sees goes back in time only when an answer arrives that
\* another one has passed: fetches that do not overlap are applied in order.
NeverBackUnlessPassed ==
  [][(data # Null /\ (data' = Null \/ \E a \in Alerts : data'[a] < data[a])) => outdated']_vars

\* Once the alerts are settled the list shows them and no error, for good.
CatchesUp == <>[](data = status /\ ~error)
=============================================================================
