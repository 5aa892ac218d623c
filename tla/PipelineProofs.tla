--------------------------- MODULE PipelineProofs ---------------------------
(***************************************************************************)
(* Proofs about the ingestion peer and the event pipeline.                 *)
(*                                                                         *)
(* First the ingestion peer alone: IngestionInv is inductive for any       *)
(* number of threads, events, peers, retries, failures and crashes, and    *)
(* with it what the lists, state.json, the calls and the counters promise. *)
(* These proofs use no definition and no assumption of EventPipeline.      *)
(*                                                                         *)
(* Then the pipeline: it is an ingestion peer, so that all of that holds   *)
(* of it, and PipelineInv is inductive, which relates what the anomaly and *)
(* the risk peer hold, in memory, in the dumps of their threads and in     *)
(* what they saved, to what the ingestion peer believes to have delivered. *)
(* There is one lemma for every step of a peer's thread, and each shows    *)
(* what the step does to the parts of the invariant.                       *)
(***************************************************************************)
EXTENDS EventPipeline, FiniteSetTheorems, SequenceTheorems, TLAPS

-----------------------------------------------------------------------------
(* Sequences.                                                              *)

\* IsPrefix, element by element.
LEMMA PrefixFacts ==
  ASSUME NEW S, NEW s \in Seq(S), NEW t \in Seq(S)
  PROVE  IsPrefix(s, t) <=> Len(s) <= Len(t) /\ \A i \in 1..Len(s) : s[i] = t[i]
<1>1. Len(s) \in Nat /\ Len(t) \in Nat
  OBVIOUS
<1>2. ASSUME Len(s) <= Len(t)
      PROVE  /\ SubSeq(t, 1, Len(s)) = [i \in 1..Len(s) |-> t[i]]
             /\ SubSeq(s, 1, Len(s)) = [i \in 1..Len(s) |-> s[i]]
  BY <1>1, <1>2
<1> QED
  BY <1>1, <1>2 DEF IsPrefix

\* What a list holds.
LEMMA ToSetFacts ==
  ASSUME NEW S, NEW s \in Seq(S)
  PROVE  /\ ToSet(s) \subseteq S /\ Len(s) \in Nat /\ DOMAIN s = 1..Len(s)
         /\ \A x : x \in ToSet(s) <=> \E i \in 1..Len(s) : s[i] = x
  BY DEF ToSet

\* What a prefix holds.
LEMMA PrefixSet ==
  ASSUME NEW S, NEW s \in Seq(S), NEW t \in Seq(S), IsPrefix(s, t)
  PROVE  ToSet(s) \subseteq ToSet(t)
<1>1. Len(s) <= Len(t) /\ (\A i \in 1..Len(s) : s[i] = t[i]) /\ Len(s) \in Nat /\ Len(t) \in Nat
  BY PrefixFacts
<1> QED
  BY <1>1, ToSetFacts

\* A list t that continues s by x.
LEMMA AppendFacts ==
  ASSUME NEW S, NEW s \in Seq(S), NEW x \in S, NEW t \in Seq(S), Len(t) = Len(s) + 1,
         t[Len(t)] = x, \A i \in 1..Len(s) : t[i] = s[i]
  PROVE  ToSet(t) = ToSet(s) \union {x} /\ IsPrefix(s, t)
<1>1. Len(s) \in Nat
  OBVIOUS
<1>2. \A y : y \in ToSet(t) <=> \E i \in 1..Len(t) : t[i] = y
  BY ToSetFacts
<1>3. \A y : y \in ToSet(s) <=> \E i \in 1..Len(s) : s[i] = y
  BY ToSetFacts
<1>4. \A i \in 1..Len(t) : i = Len(t) \/ i \in 1..Len(s)
  BY <1>1
<1>5. Len(t) \in 1..Len(t) /\ \A i \in 1..Len(s) : i \in 1..Len(t)
  BY <1>1
<1>6. \A y : y \in ToSet(t) <=> y \in ToSet(s) \/ y = x
  BY <1>2, <1>3, <1>4, <1>5
<1>7. IsPrefix(s, t)
  BY <1>1, PrefixFacts
<1> QED
  BY <1>6, <1>7

\* A list that is not empty: its head, and the rest.
LEMMA TailFacts ==
  ASSUME NEW S, NEW s \in Seq(S), s # << >>, IsInjective(s)
  PROVE  /\ Tail(s) \in Seq(S) /\ IsInjective(Tail(s))
         /\ Head(s) \in ToSet(s) /\ Head(s) \notin ToSet(Tail(s))
         /\ ToSet(s) = {Head(s)} \union ToSet(Tail(s))
<1>1. /\ Len(s) \in Nat /\ Len(s) >= 1 /\ Tail(s) \in Seq(S) /\ Len(Tail(s)) = Len(s) - 1
      /\ \A i \in 1..Len(Tail(s)) : Tail(s)[i] = s[i + 1]
      /\ Head(s) = s[1] /\ DOMAIN s = 1..Len(s) /\ DOMAIN Tail(s) = 1..Len(Tail(s))
  OBVIOUS
<1>2. \A i, j \in 1..Len(s) : s[i] = s[j] => i = j
  BY <1>1 DEF IsInjective
<1>3. IsInjective(Tail(s))
  BY <1>1, <1>2 DEF IsInjective
<1>4. \A y : y \in ToSet(s) <=> y = Head(s) \/ y \in ToSet(Tail(s))
  <2>1. \A y : y \in ToSet(s) <=> \E i \in 1..Len(s) : s[i] = y
    BY ToSetFacts
  <2>2. \A y : y \in ToSet(Tail(s)) <=> \E i \in 1..Len(Tail(s)) : Tail(s)[i] = y
    BY <1>1, ToSetFacts
  <2>3. \A i \in 1..Len(s) : i = 1 \/ (i - 1 \in 1..Len(Tail(s)) /\ Tail(s)[i - 1] = s[i])
    BY <1>1
  <2>4. \A i \in 1..Len(Tail(s)) : i + 1 \in 1..Len(s)
    BY <1>1
  <2>5. ASSUME NEW y, y \in ToSet(s) PROVE y = Head(s) \/ y \in ToSet(Tail(s))
    BY <1>1, <2>1, <2>2, <2>3, <2>5
  <2>6. ASSUME NEW y, y = Head(s) \/ y \in ToSet(Tail(s)) PROVE y \in ToSet(s)
    BY <1>1, <2>1, <2>2, <2>4, <2>6
  <2> QED
    BY <2>5, <2>6
<1>5. Head(s) \notin ToSet(Tail(s))
  <2>1. \A i \in 1..Len(Tail(s)) : Tail(s)[i] # Head(s)
    <3> SUFFICES ASSUME NEW i \in 1..Len(Tail(s)) PROVE Tail(s)[i] # Head(s)
      OBVIOUS
    <3>1. i + 1 \in 1..Len(s) /\ 1 \in 1..Len(s) /\ i + 1 # 1
      BY <1>1
    <3>2. s[i + 1] # s[1]
      BY <1>2, <3>1
    <3> QED
      BY <1>1, <3>2
  <2>2. Head(s) \in ToSet(Tail(s)) => \E i \in 1..Len(Tail(s)) : Tail(s)[i] = Head(s)
    <3>1. Tail(s) \in Seq(S)
      BY <1>1
    <3>2. \A y : y \in ToSet(Tail(s)) <=> \E i \in 1..Len(Tail(s)) : Tail(s)[i] = y
      BY <3>1, ToSetFacts
    <3> QED
      BY Zenon, <3>2
  <2> QED
    BY <2>1, <2>2
<1> QED
  BY <1>1, <1>3, <1>4, <1>5

-----------------------------------------------------------------------------
(* Routes.                                                                 *)

\* The routes of an event.
LEMMA RouteFacts ==
  ASSUME NEW e
  PROVE  /\ \A r \in RoutesOf(e) :
              /\ r.event = e /\ r.stage \in Stages /\ r.target \in ToSet(Providers(r.stage))
              /\ r = Route(r.stage, r.target, e)
         /\ \A s \in Stages : \A p \in ToSet(Providers(s)) : Route(s, p, e) \in RoutesOf(e)
  BY DEF RoutesOf, Route

\* All routes.
LEMMA RoutesFacts ==
  /\ \A e \in Events : RoutesOf(e) \subseteq Routes
  /\ \A r \in Routes : r.event \in Events /\ r \in RoutesOf(r.event)
<1>1. \A e \in Events : RoutesOf(e) \subseteq Routes
  BY DEF Routes
<1>2. ASSUME NEW r \in Routes PROVE r.event \in Events /\ r \in RoutesOf(r.event)
  <2>1. PICK e \in Events : r \in RoutesOf(e)
    BY DEF Routes
  <2> QED
    BY <2>1, RouteFacts
<1> QED
  BY <1>1, <1>2

\* The providers of a capability, as the registry lists them.
LEMMA ProviderFacts ==
  ASSUME NEW s \in Stages
  PROVE  Providers(s) \in Seq(Peers) /\ IsInjective(Providers(s))
<1>1. \A list \in {Anomaly, Risk} : list \in Seq(Peers)
  <2>1. \A list \in {Anomaly, Risk} : list \in Seq(ToSet(list)) /\ ToSet(list) \subseteq Peers
    BY ListsAssumption DEF Peers
  <2> QED
    BY <2>1
<1> QED
  BY <1>1, ListsAssumption DEF Providers

\* The stages that follow one.
LEMMA StageFacts ==
  ASSUME NEW s \in Stages
  PROVE  /\ NextStage(s) \in Stages \union {"done"} /\ "done" \notin Stages
         /\ Later("done") = {} /\ s \notin Later(s)
         /\ NextStage(s) = "done" => Later(s) = {}
         /\ NextStage(s) # "done" => Later(s) = {NextStage(s)} \union Later(NextStage(s))
  BY DEF Stages, NextStage, Later

\* The call that a thread state stands for.
CurrentOf(t) == Route(t.stage, Head(t.targets), t.event)

\* The loop over the peers of a capability goes on with the rest of its list, and
\* with the next capability after the last.
LEMMA WithTargetsFacts ==
  ASSUME NEW t \in Thread, t.stage \in Stages, t.handler = "ingest",
         NEW rest \in Seq(Peers), IsInjective(rest),
         ToSet(rest) \subseteq ToSet(Providers(t.stage)),
         NEW u, u = WithTargets(t, rest)
  PROVE  /\ u \in Thread /\ u.event = t.event /\ u.handler = t.handler
         /\ u.failures = t.failures /\ u.pc \in {"call", "lookup", "finish"} /\ Placed(u)
         /\ u.pc = "call" => u.attempt = 1
         /\ Left(u) = {r \in RoutesOf(t.event) :
              r.stage \in Later(t.stage) \/ (r.stage = t.stage /\ r.target \in ToSet(rest))}
<1>1. 1 \in 1..Retries
  BY RetriesAssumption
<1>2. CASE rest = << >>
  <2> DEFINE n == NextStage(t.stage)
  <2>1. n \in Stages \union {"done"}
    BY StageFacts
  <2>2. u = [t EXCEPT !.targets = rest, !.stage = n, !.pc = IF n = "done" THEN "finish" ELSE "lookup"]
    BY <1>2 DEF WithTargets, AtStage, Thread
  <2> HIDE DEF n
  <2>3. /\ u \in Thread /\ u.event = t.event /\ u.handler = t.handler /\ u.failures = t.failures
        /\ u.stage = n /\ u.pc = IF n = "done" THEN "finish" ELSE "lookup"
    BY <2>1, <2>2 DEF Thread
  <2>4. Placed(u)
    BY <2>1, <2>3 DEF Placed, Routing
  <2>5. ToSet(rest) = {}
    BY <1>2 DEF ToSet
  <2>6. Left(u) = {r \in RoutesOf(t.event) : r.stage \in Later(n) \/ (n # "done" /\ r.stage = n)}
    BY <2>3 DEF Left, Storing
  <2> QED
    BY <2>3, <2>4, <2>5, <2>6, StageFacts DEF n
<1>3. CASE rest # << >>
  <2>1. u = [t EXCEPT !.targets = rest, !.attempt = 1, !.pc = "call"]
    BY <1>3 DEF WithTargets
  <2>2. /\ u \in Thread /\ u.event = t.event /\ u.handler = t.handler /\ u.failures = t.failures
        /\ u.stage = t.stage /\ u.pc = "call" /\ u.attempt = 1 /\ u.targets = rest
    BY <1>1, <2>1 DEF Thread, Routing
  <2>3. Placed(u)
    BY <1>3, <2>2 DEF Placed
  <2>4. Left(u) = {r \in RoutesOf(t.event) :
              r.stage \in Later(t.stage) \/ (r.stage = t.stage /\ r.target \in ToSet(rest))}
    BY <2>2 DEF Left, Storing
  <2> QED
    BY <2>2, <2>3, <2>4
<1> QED
  BY <1>2, <1>3

\* The call of a thread is one of the routes left to it, and only while it calls.
LEMMA CurrentFacts ==
  ASSUME NEW t \in Thread, Placed(t), t.pc \in Routing, t.event \in Events
  PROVE  /\ CurrentOf(t) \in RoutesOf(t.event) /\ CurrentOf(t) \in Routes
         /\ CurrentOf(t).event = t.event
         /\ Tail(t.targets) \in Seq(Peers) /\ IsInjective(Tail(t.targets))
         /\ ToSet(Tail(t.targets)) \subseteq ToSet(Providers(t.stage))
         /\ CurrentOf(t) \in Left(t) <=> t.pc = "call"
         /\ t.pc # "call" => Left(t) = {r \in RoutesOf(t.event) :
              r.stage \in Later(t.stage) \/ (r.stage = t.stage /\ r.target \in ToSet(Tail(t.targets)))}
         /\ t.pc = "call" => Left(t) \ {CurrentOf(t)} = {r \in RoutesOf(t.event) :
              r.stage \in Later(t.stage) \/ (r.stage = t.stage /\ r.target \in ToSet(Tail(t.targets)))}
<1>1. /\ t.targets \in Seq(Peers) /\ t.targets # << >> /\ IsInjective(t.targets)
      /\ t.stage \in Stages /\ ToSet(t.targets) \subseteq ToSet(Providers(t.stage))
  BY DEF Placed, Thread
<1>2. /\ Tail(t.targets) \in Seq(Peers) /\ IsInjective(Tail(t.targets))
      /\ Head(t.targets) \in ToSet(t.targets) /\ Head(t.targets) \notin ToSet(Tail(t.targets))
      /\ ToSet(t.targets) = {Head(t.targets)} \union ToSet(Tail(t.targets))
  BY <1>1, TailFacts
<1>3. /\ CurrentOf(t) \in RoutesOf(t.event) /\ CurrentOf(t) \in Routes
      /\ CurrentOf(t).event = t.event /\ CurrentOf(t).stage = t.stage
      /\ CurrentOf(t).target = Head(t.targets)
  BY <1>1, <1>2, RouteFacts, RoutesFacts DEF CurrentOf, Route
<1>4. t.stage \notin Later(t.stage)
  BY <1>1, StageFacts
<1>5. CASE t.pc = "call"
  <2>1. Left(t) = {r \in RoutesOf(t.event) :
              r.stage \in Later(t.stage) \/ (r.stage = t.stage /\ r.target \in ToSet(t.targets))}
    BY <1>5 DEF Left, Storing
  <2>2. \A r \in RoutesOf(t.event) :
          (r.stage = t.stage /\ r.target = Head(t.targets)) => r = CurrentOf(t)
    BY RouteFacts DEF CurrentOf
  <2>3. CurrentOf(t) \in Left(t)
    BY <1>2, <1>3, <2>1
  <2>4. ASSUME NEW r
        PROVE  r \in Left(t) \ {CurrentOf(t)} <=>
                 r \in RoutesOf(t.event) /\ (r.stage \in Later(t.stage) \/
                   (r.stage = t.stage /\ r.target \in ToSet(Tail(t.targets))))
    BY <1>2, <1>3, <1>4, <2>1, <2>2
  <2>5. Left(t) \ {CurrentOf(t)} = {r \in RoutesOf(t.event) :
              r.stage \in Later(t.stage) \/ (r.stage = t.stage /\ r.target \in ToSet(Tail(t.targets)))}
    BY <2>4
  <2> QED
    BY <1>1, <1>2, <1>3, <1>5, <2>3, <2>5
<1>6. CASE t.pc # "call"
  <2>1. Left(t) = {r \in RoutesOf(t.event) :
              r.stage \in Later(t.stage) \/ (r.stage = t.stage /\ r.target \in ToSet(Tail(t.targets)))}
    BY <1>6 DEF Left, Storing, Routing
  <2>2. CurrentOf(t) \notin Left(t)
    BY <1>2, <1>3, <1>4, <2>1
  <2> QED
    BY <1>1, <1>2, <1>3, <1>6, <2>1, <2>2
<1> QED
  BY <1>5, <1>6

-----------------------------------------------------------------------------
(* A thread w that goes on as t: what that leaves as it was.               *)

\* Only thread w moves.
LEMMA Moves ==
  ASSUME TypeOK, NEW w \in Workers, NEW t \in Thread, th' = [th EXCEPT ![w] = t]
  PROVE  th' \in [Workers -> Thread] /\ \A v \in Workers : th'[v] = IF v = w THEN t ELSE th[v]
  BY DEF TypeOK

\* A thread keeps its event until it is done with it.
LEMMA EventsKept ==
  ASSUME IngestionInv, NEW w \in Workers, NEW t \in Thread, th' = [th EXCEPT ![w] = t],
         ~At(w, "idle"), t.pc = "idle" \/ t.event = th[w].event, Placed(t),
         accepted' = accepted,
         answered' = answered \/ (t.pc = "idle" /\ answered' = answered \union {th[w].event})
  PROVE  EventsApart' /\ \A v \in Workers : Placed(th[v])'
<1>1. \A v \in Workers : th'[v] = IF v = w THEN t ELSE th[v]
  BY Moves DEF IngestionInv
<1>2. \A v \in Workers : v # w /\ ~At(v, "idle") => th[v].event # th[w].event
  BY DEF IngestionInv, EventsApart
<1>3. \A v \in Workers : ~At(v, "idle")' => ~At(v, "idle") /\ th'[v].event = th[v].event
  BY <1>1 DEF At
<1>4. EventsApart'
  BY <1>1, <1>2, <1>3 DEF IngestionInv, EventsApart, At
<1>5. \A v \in Workers : Placed(th[v])'
  BY <1>1 DEF IngestionInv, Placed
<1> QED
  BY <1>4, <1>5

\* A step that touches neither the lists nor the file.
LEMMA ListsKept ==
  ASSUME IngestionInv, NEW w \in Workers, NEW t \in Thread, th' = [th EXCEPT ![w] = t],
         UNCHANGED <<lists, file, accepted, baseline>>, Listed(t)'
  PROVE  ListsInv'
<1>1. \A v \in Workers : th'[v] = IF v = w THEN t ELSE th[v]
  BY Moves DEF IngestionInv
<1>2. \A u : Listed(u) => Listed(u)'
  BY DEF Listed, lists
<1>3. \A v \in Workers : Listed(th[v])'
  BY <1>1, <1>2 DEF IngestionInv, ListsInv
<1> QED
  BY <1>3 DEF IngestionInv, ListsInv, FileIsPrefix, BaselinePrecedes, lists

\* A step that touches neither events nor the file.
LEMMA SavesKept ==
  ASSUME IngestionInv, NEW w \in Workers, NEW t \in Thread, th' = [th EXCEPT ![w] = t],
         ~At(w, "idle"), UNCHANGED <<events, file, overlapped>>, ~overlapped => Saved(t)',
         answered' = answered \/ (At(w, "finish") /\ answered' = answered \union {th[w].event})
  PROVE  SavesInv'
<1>1. \A v \in Workers : th'[v] = IF v = w THEN t ELSE th[v]
  BY Moves DEF IngestionInv
<1>2. \A u : Saved(u) => Saved(u)'
  BY DEF Saved
<1>3. ASSUME ~overlapped
      PROVE  /\ \A v, x \in Workers : (~At(v, "idle")' /\ ~At(x, "idle")') => v = x
             /\ \A v \in Workers : Saved(th[v])'
             /\ answered' \subseteq ToSet(file.events)
  <2>1. \A v \in Workers : Saved(th[v])
    BY <1>3 DEF IngestionInv, SavesInv
  <2>2. \A v \in Workers : Saved(th[v])'
    BY <1>1, <1>2, <1>3, <2>1
  <2>3. \A v, x \in Workers : (~At(v, "idle")' /\ ~At(x, "idle")') => v = x
    BY <1>1, <1>3 DEF IngestionInv, SavesInv, At
  <2>4. At(w, "finish") => th[w].event \in ToSet(file.events)
    BY <2>1 DEF Saved, At
  <2> QED
    BY <1>3, <2>2, <2>3, <2>4 DEF IngestionInv, SavesInv, AnsweredIsPersisted
<1> QED
  BY <1>3 DEF SavesInv, AnsweredIsPersisted

\* A step that makes no call, and after which no more routes are left to the thread.
LEMMA CallsKept ==
  ASSUME IngestionInv, NEW w \in Workers, NEW t \in Thread, th' = [th EXCEPT ![w] = t],
         ~At(w, "idle"), ~At(w, "call"), UNCHANGED <<delivered, late, lost, accepted>>,
         \/ t.pc = "idle"
         \/ /\ t.event = th[w].event /\ Left(t) \subseteq Left(th[w]) /\ Placed(t)
            /\ t.pc = "call" => t.attempt = 1
  PROVE  CallsInv'
<1>1. \A v \in Workers : th'[v] = IF v = w THEN t ELSE th[v]
  BY Moves DEF IngestionInv
<1>2. \A v \in Workers : Current(v) = CurrentOf(th[v]) /\ Current(v)' = CurrentOf(th'[v])
  BY DEF Current, CurrentOf
<1>3. \A r : Untouched(r) => Untouched(r)'
  BY DEF Untouched
<1>4. ASSUME t.pc # "idle" PROVE \A r \in Left(t) : Untouched(r)
  BY <1>4 DEF IngestionInv, CallsInv, At
<1>5. \A v \in Workers : ~At(v, "idle")' => \A r \in Left(th'[v]) :
        Untouched(r)' \/ (At(v, "call")' /\ r = Current(v)')
  BY <1>1, <1>2, <1>3, <1>4 DEF IngestionInv, CallsInv, At
<1>6. ASSUME t.pc = "call"
      PROVE  /\ delivered[CurrentOf(t)] + late[CurrentOf(t)] <= lost[CurrentOf(t)]
             /\ lost[CurrentOf(t)] < t.attempt
  <2>1. t.event \in Events
    BY <1>6 DEF IngestionInv, EventsApart, TypeOK
  <2>2. Untouched(CurrentOf(t))
    BY <1>4, <1>6, <2>1, CurrentFacts DEF Routing
  <2> QED
    BY <1>6, <2>2 DEF Untouched
<1>7. \A v \in Workers : At(v, "call")' =>
        /\ delivered'[Current(v)'] + late'[Current(v)'] <= lost'[Current(v)']
        /\ lost'[Current(v)'] < th'[v].attempt
  <2> SUFFICES ASSUME NEW v \in Workers, At(v, "call")'
               PROVE  /\ delivered[CurrentOf(th'[v])] + late[CurrentOf(th'[v])] <= lost[CurrentOf(th'[v])]
                      /\ lost[CurrentOf(th'[v])] < th'[v].attempt
    BY <1>2
  <2>1. CASE v = w
    BY <1>1, <1>6, <2>1 DEF At
  <2>2. CASE v # w
    BY <1>1, <1>2, <2>2 DEF IngestionInv, CallsInv, At
  <2> QED
    BY <2>1, <2>2
<1>8. (\A r \in Routes : r.event \notin accepted => Untouched(r))'
  BY <1>3 DEF IngestionInv, CallsInv
<1>9. (\A r \in Routes :
         delivered[r] + late[r] <= Retries /\ delivered[r] + late[r] <= 1 + lost[r])'
  BY DEF IngestionInv, CallsInv
<1> QED
  BY <1>5, <1>7, <1>8, <1>9 DEF CallsInv

\* A step of a thread that stays with its event: the routes that it has settled
\* have their outcome, and it is the only one to give routes of its event up.
LEMMA OutcomesKept ==
  ASSUME IngestionInv, NEW w \in Workers, NEW t \in Thread, th' = [th EXCEPT ![w] = t],
         ~At(w, "idle"), t.pc # "idle", t.event = th[w].event, t.handler = th[w].handler,
         UNCHANGED <<accepted, answered, routing_failures, crashes>>,
         raw' \in Seq(Events), ToSet(raw') \subseteq ToSet(raw) \union {t.event},
         \A r \in Routes : delivered[r] > 0 => delivered'[r] > 0,
         gaveUp \subseteq gaveUp', skipped \subseteq skipped',
         \A r \in gaveUp' : r \in gaveUp \/ r.event = t.event,
         \A r \in Left(th[w]) \ Left(t) :
           t.handler = "ingest" => delivered'[r] > 0 \/ r \in gaveUp' \union skipped',
         Failed(t.event)' <=> t.failures > 0 \/ t.pc = "record_failed"
  PROVE  OutcomesInv'
<1> DEFINE Settled(r) == delivered[r] > 0 \/ r \in gaveUp \union skipped
<1>1. \A v \in Workers : th'[v] = IF v = w THEN t ELSE th[v]
  BY Moves DEF IngestionInv
<1>2. /\ t.event \in accepted /\ t.event \notin answered /\ t.event \in Events
      /\ \A v \in Workers : v # w /\ ~At(v, "idle") => th[v].event # t.event
      /\ \A v \in Workers : ~At(v, "idle") => th[v].event \in Events
  BY DEF IngestionInv, EventsApart, TypeOK
<1>3. \A r \in Routes : Settled(r) => Settled(r)'
  OBVIOUS
<1>4. \A e : e # t.event => (Failed(e)' <=> Failed(e))
  BY DEF Failed
<1>5. RoutesAccounted'
  <2> SUFFICES ASSUME NEW j \in DOMAIN raw', NEW r \in RoutesOf(raw'[j])
               PROVE  Settled(r)' \/ \E v \in Workers : ~At(v, "idle")' /\ th'[v].event = raw'[j]
    BY DEF RoutesAccounted
  <2>1. raw'[j] \in ToSet(raw')
    BY ToSetFacts
  <2>2. CASE raw'[j] = t.event
    BY <1>1, <2>2 DEF At
  <2>3. CASE raw'[j] # t.event
    <3>1. PICK i \in DOMAIN raw : raw[i] = raw'[j]
      BY <2>1, <2>3, ToSetFacts DEF IngestionInv, TypeOK
    <3>2. r \in Routes
      BY <2>1, RoutesFacts, ToSetFacts
    <3>3. Settled(r) \/ \E v \in Workers : ~At(v, "idle") /\ th[v].event = raw[i]
      BY <3>1 DEF IngestionInv, OutcomesInv, OutcomesAccounted, RoutesAccounted
    <3>4. \A v \in Workers : (~At(v, "idle") /\ th[v].event = raw[i]) =>
            ~At(v, "idle")' /\ th'[v].event = raw'[j]
      BY <1>1, <2>3, <3>1 DEF At
    <3> QED
      BY <1>3, <3>1, <3>2, <3>3, <3>4
  <2> QED
    BY <2>2, <2>3
<1>6. CountersMatchOutcomes'
  <2>1. \A e \in answered : Failed(e)' <=> Failed(e)
    BY <1>2, <1>4
  <2>2. {e \in answered' : Failed(e)'} = {e \in answered : Failed(e)}
    BY <2>1
  <2> QED
    BY <2>2 DEF IngestionInv, OutcomesInv, OutcomesAccounted, CountersMatchOutcomes, Failed
<1>7. ASSUME NEW v \in Workers, ~At(v, "idle")', th'[v].handler = "ingest",
             NEW r \in RoutesOf(th'[v].event) \ Left(th'[v])
      PROVE  Settled(r)'
  <2>1. ~At(v, "idle") /\ th'[v].event = th[v].event /\ th'[v].handler = th[v].handler
    BY <1>1, <1>7 DEF At
  <2>2. r \in Routes
    BY <1>2, <1>7, <2>1, RoutesFacts
  <2>3. CASE r \in Left(th[v])
    <3>1. v = w
      BY <1>1, <1>7, <2>3
    <3> QED
      BY <1>1, <1>7, <2>3, <3>1
  <2>4. CASE r \notin Left(th[v])
    <3>1. Settled(r)
      BY <1>7, <2>1, <2>4 DEF IngestionInv, OutcomesInv
    <3> QED
      BY <1>3, <2>2, <3>1
  <2> QED
    BY <2>3, <2>4
<1>8. \A r \in gaveUp' : r.event \in accepted'
  BY <1>2 DEF IngestionInv, OutcomesInv
<1>9. ASSUME NEW v \in Workers, ~At(v, "idle")'
      PROVE  (Failed(th[v].event) <=> th[v].failures > 0 \/ At(v, "record_failed"))'
  <2>1. PICK e : e = th'[v].event
    OBVIOUS
  <2>2. CASE v = w
    BY <1>1, <2>2 DEF At, Failed
  <2>3. CASE v # w
    <3>1. th'[v] = th[v] /\ ~At(v, "idle") /\ e # t.event /\ e = th[v].event
      BY <1>1, <1>2, <1>9, <2>1, <2>3 DEF At
    <3>2. Failed(e) <=> th[v].failures > 0 \/ At(v, "record_failed")
      BY <3>1 DEF IngestionInv, OutcomesInv
    <3>3. Failed(e)' <=> Failed(e)
      BY <1>4, <3>1
    <3> QED
      BY <2>1, <3>1, <3>2, <3>3 DEF At, Failed
  <2> QED
    BY <2>2, <2>3
<1>10. (\A v \in Workers : (~At(v, "idle") /\ th[v].handler = "ingest") =>
          \A r \in RoutesOf(th[v].event) \ Left(th[v]) :
            delivered[r] > 0 \/ r \in gaveUp \union skipped)'
  BY <1>7
<1>11. (\A v \in Workers : ~At(v, "idle") =>
          (Failed(th[v].event) <=> th[v].failures > 0 \/ At(v, "record_failed")))'
  BY <1>9
<1> QED
  BY <1>5, <1>6, <1>8, <1>10, <1>11 DEF OutcomesInv, OutcomesAccounted

\* What is known of a thread in progress.
LEMMA ThreadFacts ==
  ASSUME IngestionInv, NEW w \in Workers
  PROVE  /\ th[w] \in Thread /\ Placed(th[w]) /\ Listed(th[w]) /\ (~overlapped => Saved(th[w]))
         /\ ~At(w, "idle") => /\ th[w].event \in Events
                              /\ th[w].event \in accepted /\ th[w].event \notin answered
         /\ Current(w) = CurrentOf(th[w])
  BY DEF IngestionInv, TypeOK, ListsInv, SavesInv, EventsApart, Current, CurrentOf

\* A prefix of a prefix.
LEMMA PrefixTrans ==
  ASSUME NEW S, NEW s \in Seq(S), NEW t \in Seq(S), NEW u \in Seq(S),
         IsPrefix(s, t), IsPrefix(t, u)
  PROVE  IsPrefix(s, u)
<1>1. /\ Len(s) \in Nat /\ Len(t) \in Nat /\ Len(u) \in Nat
      /\ Len(s) <= Len(t) /\ \A i \in 1..Len(s) : s[i] = t[i]
  BY PrefixFacts
<1>2. Len(t) <= Len(u) /\ \A i \in 1..Len(t) : t[i] = u[i]
  BY PrefixFacts
<1> QED
  BY <1>1, <1>2, PrefixFacts

\* A list is a prefix of itself, and the empty one of any.
LEMMA PrefixSelf ==
  ASSUME NEW S, NEW s \in Seq(S)
  PROVE  IsPrefix(s, s) /\ IsPrefix(<< >>, s)
<1>1. IsPrefix(s, s) /\ Len(s) \in Nat
  BY PrefixFacts
<1> DEFINE e == << >>
<1>2. e \in Seq(S) /\ Len(e) = 0
  OBVIOUS
<1> HIDE DEF e
<1>3. Len(e) <= Len(s) /\ \A i \in 1..Len(e) : e[i] = s[i]
  BY <1>1, <1>2
<1>4. IsPrefix(e, s)
  BY <1>2, <1>3, PrefixFacts
<1> QED
  BY <1>1, <1>4 DEF e

\* A step of the part that stores the event, and the record that follows it, leave
\* calls and outcomes alone.
LEMMA StoringStep ==
  ASSUME IngestionInv, NEW w \in Workers, NEW t \in Thread, th' = [th EXCEPT ![w] = t],
         th[w].pc \in Storing, t.pc \in Storing, Placed(t), t.event = th[w].event,
         t.handler = th[w].handler, t.failures = th[w].failures,
         UNCHANGED <<delivered, late, lost, accepted, answered, gaveUp, skipped,
                     routing_failures, crashes>>,
         raw' \in Seq(Events), ToSet(raw') \subseteq ToSet(raw) \union {t.event}
  PROVE  EventsApart' /\ (\A v \in Workers : Placed(th[v])') /\ CallsInv' /\ OutcomesInv'
<1>1. ~At(w, "idle") /\ ~At(w, "call") /\ ~At(w, "record_failed")
      /\ t.pc \notin {"idle", "call", "record_failed"}
  BY DEF Storing, At
<1>2. Left(t) = RoutesOf(t.event) /\ Left(th[w]) = RoutesOf(t.event)
  BY DEF Left
<1>3. EventsApart' /\ \A v \in Workers : Placed(th[v])'
  BY <1>1, EventsKept
<1>4. CallsInv'
  BY <1>1, <1>2, CallsKept
<1>5. Failed(t.event)' <=> t.failures > 0 \/ t.pc = "record_failed"
  BY <1>1 DEF IngestionInv, OutcomesInv, Failed
<1>6. OutcomesInv'
  BY <1>1, <1>2, <1>5, OutcomesKept
<1> QED
  BY <1>3, <1>4, <1>6

\* The message joins raw_messages.
LEMMA AppendRawStep ==
  ASSUME IngestionInv, NEW w \in Workers, AppendRaw(w)
  PROVE  IngestionInv'
<1>1. PICK t : t = [th[w] EXCEPT !.pc = "append_event"]
  OBVIOUS
<1>2. PICK e : e = th[w].event
  OBVIOUS
<1>3. /\ th[w].pc = "append_raw" /\ th' = [th EXCEPT ![w] = t]
      /\ UNCHANGED <<events, last, file, counters, outside, observers, bounds>>
      /\ raw' = Append(raw, e)
  BY <1>1, <1>2 DEF AppendRaw, At, IngestionInv, TypeOK
<1>4. /\ th[w] \in Thread /\ e \in Events /\ e \in accepted /\ Placed(th[w]) /\ Listed(th[w])
      /\ th[w].handler = "ingest" /\ raw \in Seq(Events) /\ events \in Seq(Events)
  BY <1>2, <1>3, ThreadFacts DEF At, IngestionInv, TypeOK, Placed
<1>5. /\ t \in Thread /\ t.pc = "append_event" /\ t.event = e /\ t.handler = "ingest"
      /\ t.failures = th[w].failures /\ t.snapshot = th[w].snapshot
  BY <1>1, <1>2, <1>4 DEF Thread, Storing
<1>6. /\ raw' \in Seq(Events) /\ ToSet(raw') = ToSet(raw) \union {e} /\ IsPrefix(raw, raw')
      /\ Len(raw') = Len(raw) + 1 /\ raw'[Len(raw')] = e /\ \A i \in 1..Len(raw) : raw'[i] = raw[i]
  <2>1. raw \in Seq(Events) /\ e \in Events /\ raw' = Append(raw, e)
    BY <1>3, <1>4
  <2>2. /\ raw' \in Seq(Events) /\ Len(raw') = Len(raw) + 1
        /\ raw'[Len(raw')] = e /\ \A i \in 1..Len(raw) : raw'[i] = raw[i]
    BY <2>1
  <2> QED
    BY <1>4, <2>2, AppendFacts
<1>7. \A v \in Workers : th'[v] = IF v = w THEN t ELSE th[v]
  BY <1>3, <1>5, Moves DEF IngestionInv
<1>8. TypeOK'
  BY <1>3, <1>5, <1>6, Moves
     DEF IngestionInv, TypeOK, counters, outside, calls, observers, bounds
<1>9. EventsApart' /\ (\A v \in Workers : Placed(th[v])') /\ CallsInv' /\ OutcomesInv'
  BY <1>2, <1>3, <1>4, <1>5, <1>6, StoringStep
     DEF Storing, Placed, Routing, counters, outside, calls, observers, bounds
<1>10. ListsInv'
  <2>1. FileIsPrefix'
    <3>1. file.raw \in Seq(Events) /\ IsPrefix(file.raw, raw) /\ IsPrefix(file.events, events)
      BY DEF IngestionInv, ListsInv, FileIsPrefix, TypeOK, State
    <3>2. IsPrefix(file.raw, raw')
      BY <1>4, <1>6, <3>1, PrefixTrans
    <3> QED
      BY <1>3, <3>1, <3>2 DEF FileIsPrefix
  <2>2. BaselinePrecedes'
    <3> SUFFICES ASSUME NEW j \in 1..Len(raw'), baseline[raw'[j]] # Nil
                 PROVE  \E i \in 1..(j - 1) : raw'[i] = baseline[raw'[j]]
      BY <1>3 DEF BaselinePrecedes, observers
    <3>1. Len(raw) \in Nat
      BY <1>4
    <3>2. CASE j \in 1..Len(raw)
      <4>1. PICK i \in 1..(j - 1) : raw[i] = baseline[raw[j]]
        BY <1>6, <3>2 DEF IngestionInv, ListsInv, BaselinePrecedes
      <4> QED
        BY <1>6, <3>1, <3>2, <4>1
    <3>3. CASE j = Len(raw')
      <4>1. baseline[e] \in ToSet(raw)
        BY <1>2, <1>3, <1>4, <1>6, <3>3 DEF Listed
      <4>2. PICK i \in 1..Len(raw) : raw[i] = baseline[e]
        BY <1>4, <4>1, ToSetFacts
      <4> QED
        BY <1>6, <3>1, <3>3, <4>2
    <3> QED
      BY <1>6, <3>1, <3>2, <3>3
  <2>3. Listed(t)'
    BY <1>5, <1>6 DEF Listed
  <2>4. ASSUME NEW v \in Workers, v # w PROVE Listed(th[v])'
    <3>1. PICK u : u = th[v]
      OBVIOUS
    <3>2. u \in Thread /\ Listed(u) /\ th'[v] = u /\ (u.pc # "idle" => u.event # e)
      BY <1>2, <1>3, <1>7, <2>4, <3>1, ThreadFacts DEF At, IngestionInv, EventsApart
    <3>3. u.pc \in {"snapshot_events", "replace"} =>
            u.snapshot.raw \in Seq(Events) /\ IsPrefix(u.snapshot.raw, raw')
      BY <1>4, <1>6, <3>2, PrefixTrans DEF Listed, State
    <3>4. Listed(u)'
      BY <1>3, <1>6, <3>2, <3>3 DEF Listed, observers
    <3> QED
      BY <3>2, <3>4
  <2>5. ToSet(raw') \subseteq accepted' /\ last' \in ToSet(raw') \union {Nil}
    BY <1>3, <1>4, <1>6 DEF IngestionInv, ListsInv, observers
  <2> QED
    BY <1>7, <2>1, <2>2, <2>3, <2>4, <2>5 DEF ListsInv
<1>11. SavesInv'
  <2>1. Saved(t)'
    BY <1>5 DEF Saved, Routing
  <2> QED
    BY <1>3, <1>5, <2>1, SavesKept DEF At, observers
<1> QED
  BY <1>8, <1>9, <1>10, <1>11 DEF IngestionInv

\* The event joins events.
LEMMA AppendEventStep ==
  ASSUME IngestionInv, NEW w \in Workers, AppendEvent(w)
  PROVE  IngestionInv'
<1>1. PICK t : t = [th[w] EXCEPT !.pc = IF th[w].handler = "ingest" THEN "set_last" ELSE "snapshot_raw"]
  OBVIOUS
<1>2. PICK e : e = th[w].event
  OBVIOUS
<1>3. /\ th[w].pc = "append_event" /\ th' = [th EXCEPT ![w] = t]
      /\ UNCHANGED <<raw, last, file, counters, outside, observers, bounds>>
      /\ events' = Append(events, e)
  BY <1>1, <1>2 DEF AppendEvent, At, IngestionInv, TypeOK
<1>4. /\ th[w] \in Thread /\ e \in Events /\ Placed(th[w]) /\ Listed(th[w])
      /\ raw \in Seq(Events) /\ events \in Seq(Events)
  BY <1>2, <1>3, ThreadFacts DEF At, IngestionInv, TypeOK
<1>5. /\ t \in Thread /\ t.event = e /\ t.handler = th[w].handler
      /\ t.pc = IF t.handler = "ingest" THEN "set_last" ELSE "snapshot_raw"
      /\ t.failures = th[w].failures
  BY <1>1, <1>2, <1>4 DEF Thread, Storing
<1>6. events' \in Seq(Events) /\ ToSet(events') = ToSet(events) \union {e} /\ IsPrefix(events, events')
  <2>1. events \in Seq(Events) /\ e \in Events /\ events' = Append(events, e)
    BY <1>3, <1>4
  <2>2. /\ events' \in Seq(Events) /\ Len(events') = Len(events) + 1
        /\ events'[Len(events')] = e /\ \A i \in 1..Len(events) : events'[i] = events[i]
    BY <2>1
  <2> QED
    BY <1>4, <2>2, AppendFacts
<1>7. \A v \in Workers : th'[v] = IF v = w THEN t ELSE th[v]
  BY <1>3, <1>5, Moves DEF IngestionInv
<1>8. TypeOK'
  BY <1>3, <1>5, <1>6, Moves
     DEF IngestionInv, TypeOK, counters, outside, calls, observers, bounds
<1>9. EventsApart' /\ (\A v \in Workers : Placed(th[v])') /\ CallsInv' /\ OutcomesInv'
  BY <1>2, <1>3, <1>4, <1>5, StoringStep
     DEF Storing, Placed, Routing, counters, outside, calls, observers, bounds
<1>10. ListsInv'
  <2>1. FileIsPrefix'
    <3>1. file.events \in Seq(Events) /\ IsPrefix(file.raw, raw) /\ IsPrefix(file.events, events)
      BY DEF IngestionInv, ListsInv, FileIsPrefix, TypeOK, State
    <3>2. IsPrefix(file.events, events')
      BY <1>4, <1>6, <3>1, PrefixTrans
    <3> QED
      BY <1>3, <3>1, <3>2 DEF FileIsPrefix
  <2>2. Listed(t)'
    BY <1>2, <1>3, <1>4, <1>5 DEF Listed
  <2>3. ASSUME NEW u \in Thread, Listed(u) PROVE Listed(u)'
    <3>1. u.pc \in {"snapshot_events", "replace"} =>
            u.snapshot.events \in Seq(Events) /\ IsPrefix(u.snapshot.events, events')
      BY <1>4, <1>6, <2>3, PrefixTrans DEF Listed, State
    <3> QED
      BY <1>3, <2>3, <3>1 DEF Listed, observers
  <2>4. \A v \in Workers : Listed(th[v])'
    BY <1>7, <2>2, <2>3 DEF IngestionInv, ListsInv, TypeOK
  <2> QED
    BY <1>3, <2>1, <2>4 DEF IngestionInv, ListsInv, BaselinePrecedes, observers
<1>11. SavesInv'
  <2> SUFFICES ASSUME ~overlapped
               PROVE  /\ answered' \subseteq ToSet(file'.events)
                      /\ \A v, x \in Workers : (~At(v, "idle")' /\ ~At(x, "idle")') => v = x
                      /\ \A v \in Workers : Saved(th[v])'
    BY <1>3 DEF SavesInv, AnsweredIsPersisted, observers
  <2>1. \A v \in Workers : v # w => th'[v].pc = "idle"
    BY <1>3, <1>7 DEF IngestionInv, SavesInv, At
  <2>2. Saved(t)'
    BY <1>5, <1>6 DEF Saved, Routing
  <2>3. ASSUME NEW v \in Workers, v # w PROVE Saved(th[v])'
    BY <2>1, <2>3 DEF Saved, Routing
  <2> QED
    BY <1>3, <1>7, <2>1, <2>2, <2>3 DEF IngestionInv, SavesInv, AnsweredIsPersisted, At, observers
<1> QED
  BY <1>8, <1>9, <1>10, <1>11 DEF IngestionInv

\* The message becomes the last one.
LEMMA SetLastStep ==
  ASSUME IngestionInv, NEW w \in Workers, SetLast(w)
  PROVE  IngestionInv'
<1>1. PICK t : t = [th[w] EXCEPT !.pc = "snapshot_raw"]
  OBVIOUS
<1>2. PICK e : e = th[w].event
  OBVIOUS
<1>3. /\ th[w].pc = "set_last" /\ th' = [th EXCEPT ![w] = t] /\ last' = e
      /\ UNCHANGED <<raw, events, file, counters, outside, observers, bounds>>
  BY <1>1, <1>2 DEF SetLast, At, IngestionInv, TypeOK
<1>4. /\ th[w] \in Thread /\ e \in Events /\ Placed(th[w]) /\ Listed(th[w])
      /\ (~overlapped => Saved(th[w])) /\ raw \in Seq(Events)
  BY <1>2, <1>3, ThreadFacts DEF At, IngestionInv, TypeOK
<1>5. /\ t \in Thread /\ t.event = e /\ t.handler = th[w].handler /\ t.pc = "snapshot_raw"
      /\ t.failures = th[w].failures /\ th[w].handler = "ingest"
  BY <1>1, <1>2, <1>3, <1>4 DEF Thread, Storing, Placed
<1>6. \A v \in Workers : th'[v] = IF v = w THEN t ELSE th[v]
  BY <1>3, <1>5, Moves DEF IngestionInv
<1>7. TypeOK'
  BY <1>3, <1>4, <1>5, Moves
     DEF IngestionInv, TypeOK, counters, outside, calls, observers, bounds
<1>8. EventsApart' /\ (\A v \in Workers : Placed(th[v])') /\ CallsInv' /\ OutcomesInv'
  BY <1>2, <1>3, <1>4, <1>5, StoringStep
     DEF Storing, Placed, Routing, counters, outside, calls, observers, bounds
<1>9. ListsInv'
  <2>1. last' \in ToSet(raw')
    BY <1>2, <1>3, <1>4, <1>5 DEF Listed
  <2>2. Listed(t)'
    BY <1>5 DEF Listed
  <2>3. \A u : Listed(u) => Listed(u)'
    BY <1>3 DEF Listed, observers
  <2>4. \A v \in Workers : Listed(th[v])'
    BY <1>6, <2>2, <2>3 DEF IngestionInv, ListsInv
  <2> QED
    BY <1>3, <2>1, <2>4 DEF IngestionInv, ListsInv, FileIsPrefix, BaselinePrecedes, observers
<1>10. SavesInv'
  <2>1. ~overlapped => Saved(t)'
    BY <1>2, <1>3, <1>4, <1>5 DEF Saved, Routing
  <2> QED
    BY <1>3, <1>5, <2>1, SavesKept DEF At, observers
<1> QED
  BY <1>7, <1>8, <1>9, <1>10 DEF IngestionInv

\* The two lists are serialised one after the other.
LEMMA SnapshotStep ==
  ASSUME IngestionInv, NEW w \in Workers, SnapshotRaw(w) \/ SnapshotEvents(w)
  PROVE  IngestionInv'
<1>1. /\ th[w].pc \in {"snapshot_raw", "snapshot_events"}
      /\ UNCHANGED <<lists, file, counters, outside, observers, bounds>>
      /\ th[w] \in Thread /\ Placed(th[w]) /\ Listed(th[w]) /\ (~overlapped => Saved(th[w]))
      /\ raw \in Seq(Events) /\ events \in Seq(Events)
  BY ThreadFacts DEF SnapshotRaw, SnapshotEvents, At, IngestionInv, TypeOK
<1>2. PICK t : /\ t \in Thread /\ th' = [th EXCEPT ![w] = t]
               /\ t.event = th[w].event /\ t.handler = th[w].handler /\ t.failures = th[w].failures
               /\ t.pc \in {"snapshot_events", "replace"} /\ t.snapshot \in State
               /\ IsPrefix(t.snapshot.raw, raw) /\ IsPrefix(t.snapshot.events, events)
               /\ t.pc = "replace" => t.snapshot.events = events
  <2>1. CASE SnapshotRaw(w)
    <3>1. PICK d : d = [raw |-> raw, events |-> << >>]
      OBVIOUS
    <3>2. PICK t : t = [th[w] EXCEPT !.pc = "snapshot_events", !.snapshot = d]
      OBVIOUS
    <3>3. d \in State /\ d.raw = raw /\ d.events = << >>
      BY <1>1, <3>1 DEF State
    <3>4. /\ t \in Thread /\ t.event = th[w].event /\ t.handler = th[w].handler
          /\ t.failures = th[w].failures /\ t.pc = "snapshot_events" /\ t.snapshot = d
      BY <1>1, <3>2, <3>3 DEF Thread, Storing
    <3>5. IsPrefix(raw, raw) /\ IsPrefix(<< >>, events)
      BY <1>1, PrefixSelf
    <3>6. th' = [th EXCEPT ![w] = t]
      BY <2>1, <3>1, <3>2 DEF SnapshotRaw, IngestionInv, TypeOK
    <3> QED
      BY <3>3, <3>4, <3>5, <3>6
  <2>2. CASE SnapshotEvents(w)
    <3>1. th[w].pc = "snapshot_events" /\ th[w].snapshot \in State
          /\ IsPrefix(th[w].snapshot.raw, raw)
      BY <1>1, <2>2 DEF SnapshotEvents, At, Listed
    <3>2. PICK d : d = [th[w].snapshot EXCEPT !.events = events]
      OBVIOUS
    <3>3. PICK t : t = [th[w] EXCEPT !.pc = "replace", !.snapshot = d]
      OBVIOUS
    <3>4. d \in State /\ d.raw = th[w].snapshot.raw /\ d.events = events
      BY <1>1, <3>1, <3>2 DEF State
    <3>5. /\ t \in Thread /\ t.event = th[w].event /\ t.handler = th[w].handler
          /\ t.failures = th[w].failures /\ t.pc = "replace" /\ t.snapshot = d
      BY <1>1, <3>3, <3>4 DEF Thread, Storing
    <3>6. IsPrefix(events, events)
      BY <1>1, PrefixSelf
    <3>7. th' = [th EXCEPT ![w] = t]
      BY <1>1, <2>2, <3>2, <3>3 DEF SnapshotEvents, IngestionInv, TypeOK, Thread
    <3> QED
      BY <3>1, <3>4, <3>5, <3>6, <3>7
  <2> QED
    BY <2>1, <2>2
<1>3. TypeOK'
  BY <1>1, <1>2, Moves
     DEF IngestionInv, TypeOK, lists, counters, outside, calls, observers, bounds
<1>4. EventsApart' /\ (\A v \in Workers : Placed(th[v])') /\ CallsInv' /\ OutcomesInv'
  BY <1>1, <1>2, StoringStep
     DEF Storing, Placed, Routing, lists, counters, outside, calls, observers, bounds
<1>5. ListsInv'
  <2>1. Listed(t)'
    BY <1>1, <1>2 DEF Listed, lists
  <2> QED
    BY <1>1, <1>2, <2>1, ListsKept DEF observers
<1>6. SavesInv'
  <2>1. ~overlapped => Saved(t)'
    BY <1>1, <1>2 DEF Saved, Routing, lists
  <2> QED
    BY <1>1, <1>2, <2>1, SavesKept DEF At, lists, observers
<1> QED
  BY <1>3, <1>4, <1>5, <1>6 DEF IngestionInv

\* state.json is replaced.
LEMMA ReplaceFileStep ==
  ASSUME IngestionInv, NEW w \in Workers, ReplaceFile(w)
  PROVE  IngestionInv'
<1>1. PICK t : t = [th[w] EXCEPT !.pc = "record", !.snapshot = Nil]
  OBVIOUS
<1>2. /\ th[w].pc = "replace" /\ th' = [th EXCEPT ![w] = t] /\ file' = th[w].snapshot
      /\ UNCHANGED <<lists, counters, outside, observers, bounds>>
      /\ th[w] \in Thread /\ Placed(th[w]) /\ Listed(th[w]) /\ (~overlapped => Saved(th[w]))
      /\ raw \in Seq(Events) /\ events \in Seq(Events)
  BY <1>1, ThreadFacts DEF ReplaceFile, At, IngestionInv, TypeOK
<1>3. /\ t \in Thread /\ t.event = th[w].event /\ t.handler = th[w].handler /\ t.pc = "record"
      /\ t.failures = th[w].failures
  BY <1>1, <1>2 DEF Thread, Storing
<1>4. file' \in State /\ IsPrefix(file'.raw, raw) /\ IsPrefix(file'.events, events)
  BY <1>2 DEF Listed
<1>5. \A v \in Workers : th'[v] = IF v = w THEN t ELSE th[v]
  BY <1>2, <1>3, Moves DEF IngestionInv
<1>6. TypeOK'
  BY <1>2, <1>3, <1>4, Moves
     DEF IngestionInv, TypeOK, lists, counters, outside, calls, observers, bounds
<1>7. EventsApart' /\ (\A v \in Workers : Placed(th[v])') /\ CallsInv' /\ OutcomesInv'
  BY <1>2, <1>3, StoringStep
     DEF Storing, Placed, Routing, lists, counters, outside, calls, observers, bounds
<1>8. ListsInv'
  <2>1. Listed(t)'
    BY <1>2, <1>3 DEF Listed, lists
  <2>2. \A u : Listed(u) => Listed(u)'
    BY <1>2 DEF Listed, lists, observers
  <2>3. \A v \in Workers : Listed(th[v])'
    BY <1>5, <2>1, <2>2 DEF IngestionInv, ListsInv
  <2> QED
    BY <1>2, <1>4, <2>3 DEF IngestionInv, ListsInv, FileIsPrefix, BaselinePrecedes, lists, observers
<1>9. SavesInv'
  <2> SUFFICES ASSUME ~overlapped
               PROVE  /\ answered' \subseteq ToSet(file'.events)
                      /\ \A v, x \in Workers : (~At(v, "idle")' /\ ~At(x, "idle")') => v = x
                      /\ \A v \in Workers : Saved(th[v])'
    BY <1>2 DEF SavesInv, AnsweredIsPersisted, observers
  <2>1. \A v \in Workers : v # w => th'[v].pc = "idle"
    BY <1>2, <1>5 DEF IngestionInv, SavesInv, At
  <2>2. file'.events = events /\ t.event \in ToSet(events)
    BY <1>2, <1>3 DEF Saved
  <2>3. Saved(t)'
    BY <1>3, <2>2 DEF Saved, Routing
  <2>4. ASSUME NEW v \in Workers, v # w PROVE Saved(th[v])'
    BY <2>1, <2>4 DEF Saved, Routing
  <2>5. ToSet(file.events) \subseteq ToSet(events)
    BY <1>2, PrefixSet DEF IngestionInv, ListsInv, FileIsPrefix, TypeOK, State
  <2> QED
    BY <1>2, <1>5, <2>1, <2>2, <2>3, <2>4, <2>5
       DEF IngestionInv, SavesInv, AnsweredIsPersisted, At, observers
<1> QED
  BY <1>6, <1>7, <1>8, <1>9 DEF IngestionInv

\* An idle thread promises nothing.
LEMMA IdleFacts ==
  /\ Idle \in Thread /\ Idle.pc = "idle" /\ Placed(Idle)
  /\ Listed(Idle)' /\ Saved(Idle)'
<1>1. 1 \in 1..Retries
  BY RetriesAssumption
<1> QED
  BY <1>1 DEF Idle, Thread, Placed, Listed, Saved, Storing, Routing, Stages

\* A request that ends, with its event answered or its routes cut off: the outcomes
\* of the routes.
LEMMA EndedOutcomes ==
  ASSUME IngestionInv, NEW w \in Workers, th' = [th EXCEPT ![w] = Idle], ~At(w, "idle"),
         UNCHANGED <<raw, delivered, gaveUp, accepted, crashes>>,
         skipped \subseteq skipped',
         th[w].event \in ToSet(raw) => \A r \in RoutesOf(th[w].event) :
           delivered[r] > 0 \/ r \in gaveUp \union skipped',
         CountersMatchOutcomes'
  PROVE  OutcomesInv'
<1> DEFINE Settled(r) == delivered[r] > 0 \/ r \in gaveUp \union skipped
<1>1. \A v \in Workers : th'[v] = IF v = w THEN Idle ELSE th[v]
  BY IdleFacts, Moves DEF IngestionInv
<1>2. RoutesAccounted'
  <2> SUFFICES ASSUME NEW j \in DOMAIN raw, NEW r \in RoutesOf(raw[j])
               PROVE  Settled(r)' \/ \E v \in Workers : ~At(v, "idle")' /\ th'[v].event = raw[j]
    BY DEF RoutesAccounted
  <2>1. raw[j] \in ToSet(raw)
    BY ToSetFacts DEF IngestionInv, TypeOK
  <2>2. CASE raw[j] = th[w].event
    BY <2>1, <2>2
  <2>3. CASE raw[j] # th[w].event
    BY <1>1, <2>3 DEF IngestionInv, OutcomesInv, OutcomesAccounted, RoutesAccounted, At
  <2> QED
    BY <2>2, <2>3
<1>3. \A v \in Workers : ~At(v, "idle")' => th'[v] = th[v] /\ ~At(v, "idle")
  BY <1>1, IdleFacts DEF At
<1>4. (\A v \in Workers : (~At(v, "idle") /\ th[v].handler = "ingest") =>
          \A r \in RoutesOf(th[v].event) \ Left(th[v]) :
            delivered[r] > 0 \/ r \in gaveUp \union skipped)'
  BY <1>3 DEF IngestionInv, OutcomesInv
<1>5. (\A v \in Workers : ~At(v, "idle") =>
          (Failed(th[v].event) <=> th[v].failures > 0 \/ At(v, "record_failed")))'
  BY <1>3 DEF IngestionInv, OutcomesInv, Failed, At
<1> QED
  BY <1>2, <1>4, <1>5 DEF IngestionInv, OutcomesInv, OutcomesAccounted

\* The save raises.
LEMMA SaveFailsStep ==
  ASSUME IngestionInv, NEW w \in Workers, SaveFails(w)
  PROVE  IngestionInv'
<1>1. /\ th[w].pc = "replace" /\ th' = [th EXCEPT ![w] = Idle]
      /\ skipped' = skipped \union RoutesOf(th[w].event)
      /\ UNCHANGED <<lists, file, counters, outside, accepted, answered, baseline, lost,
                     gaveUp, overlapped, crashes>>
      /\ faults' \in Nat /\ th[w].event \in Events
  BY ThreadFacts DEF SaveFails, Skip, Fault, At, IngestionInv, TypeOK
<1>2. skipped' \subseteq Routes
  BY <1>1, RoutesFacts DEF IngestionInv, TypeOK
<1>3. TypeOK'
  BY <1>1, <1>2, IdleFacts, Moves
     DEF IngestionInv, TypeOK, lists, counters, outside, calls
<1>4. EventsApart' /\ \A v \in Workers : Placed(th[v])'
  BY <1>1, IdleFacts, EventsKept DEF At
<1>5. ListsInv'
  BY <1>1, IdleFacts, ListsKept
<1>6. SavesInv'
  BY <1>1, IdleFacts, SavesKept DEF At, lists
<1>7. CallsInv'
  BY <1>1, IdleFacts, CallsKept DEF At, outside, calls
<1>8. OutcomesInv'
  <2>1. CountersMatchOutcomes'
    BY <1>1 DEF IngestionInv, OutcomesInv, OutcomesAccounted, CountersMatchOutcomes, counters
  <2> QED
    BY <1>1, <2>1, EndedOutcomes DEF At, lists, outside, calls
<1> QED
  BY <1>3, <1>4, <1>5, <1>6, <1>7, <1>8 DEF IngestionInv

\* The request is answered and counted.
LEMMA FinishStep ==
  ASSUME IngestionInv, NEW w \in Workers, Finish(w)
  PROVE  IngestionInv'
<1>1. PICK e : e = th[w].event
  OBVIOUS
<1>2. /\ th[w].pc = "finish" /\ th' = [th EXCEPT ![w] = Idle]
      /\ answered' = answered \union {e}
      /\ UNCHANGED <<lists, file, outside, accepted, baseline, lost, gaveUp, skipped,
                     overlapped, bounds>>
      /\ e \in Events /\ e \in accepted /\ e \notin answered
      /\ th[w] \in Thread /\ Placed(th[w]) /\ Listed(th[w])
      /\ forwarded_events' \in Nat /\ routing_failures' \in Nat
  BY <1>1, ThreadFacts DEF Finish, At, IngestionInv, TypeOK, counters
<1>3. TypeOK'
  <2>1. IsFiniteSet(answered')
    BY <1>2, FS_AddElement DEF IngestionInv, TypeOK
  <2> QED
    BY <1>2, <2>1, IdleFacts, Moves DEF IngestionInv, TypeOK, lists, outside, calls, bounds
<1>4. EventsApart' /\ \A v \in Workers : Placed(th[v])'
  BY <1>1, <1>2, IdleFacts, EventsKept DEF At
<1>5. ListsInv'
  BY <1>2, IdleFacts, ListsKept
<1>6. SavesInv'
  BY <1>1, <1>2, IdleFacts, SavesKept DEF At, lists
<1>7. CallsInv'
  BY <1>2, IdleFacts, CallsKept DEF At, outside, calls
<1>8. th[w].failures \in Nat /\ (Failed(e) <=> th[w].failures > 0)
  BY <1>1, <1>2 DEF IngestionInv, OutcomesInv, Thread, At
<1>9. CountersMatchOutcomes'
  <2> SUFFICES ASSUME crashes = 0
               PROVE  routing_failures' = Cardinality({x \in answered' : Failed(x)})
    BY <1>2 DEF CountersMatchOutcomes, Failed, bounds
  <2> DEFINE F == {x \in answered : Failed(x)}
  <2>1. routing_failures = Cardinality(F)
    BY DEF IngestionInv, OutcomesInv, OutcomesAccounted, CountersMatchOutcomes, Failed
  <2>2. IsFiniteSet(F) /\ e \notin F
    BY <1>2, FS_Subset DEF IngestionInv, TypeOK
  <2>3. CASE Failed(e)
    <3>1. {x \in answered' : Failed(x)} = F \union {e}
      BY <1>2, <2>3
    <3>2. th[w].handler = "ingest" /\ routing_failures' = routing_failures + 1
      <4>1. th[w].failures # 0
        BY <1>8, <2>3
      <4>2. th[w].handler = "ingest"
        BY <1>2, <4>1 DEF Placed, Thread
      <4> QED
        BY <4>1, <4>2 DEF Finish
    <3> QED
      BY <2>1, <2>2, <3>1, <3>2, FS_AddElement
  <2>4. CASE ~Failed(e)
    <3>1. {x \in answered' : Failed(x)} = F
      BY <1>2, <2>4
    <3>2. routing_failures' = routing_failures
      BY <1>8, <2>4 DEF Finish, counters
    <3> QED
      BY <2>1, <3>1, <3>2
  <2> QED
    BY <2>3, <2>4
<1>10. e \in ToSet(raw) => \A r \in RoutesOf(e) : delivered[r] > 0 \/ r \in gaveUp \union skipped
  <2> SUFFICES ASSUME e \in ToSet(raw)
               PROVE  \A r \in RoutesOf(e) : delivered[r] > 0 \/ r \in gaveUp \union skipped
    OBVIOUS
  <2>1. th[w].handler = "ingest" /\ th[w].stage = "done"
    BY <1>1, <1>2 DEF Listed, Placed, Thread
  <2>2. Left(th[w]) = {}
    BY <1>2, <2>1, StageFacts, RouteFacts DEF Left, Storing, Later, Stages
  <2> QED
    BY <1>1, <1>2, <2>1, <2>2 DEF IngestionInv, OutcomesInv, At
<1>11. OutcomesInv'
  BY <1>1, <1>2, <1>9, <1>10, EndedOutcomes DEF At, lists, outside, calls, bounds
<1> QED
  BY <1>3, <1>4, <1>5, <1>6, <1>7, <1>11 DEF IngestionInv

\* A step of the routing that makes no call: the thread goes on with fewer routes
\* left, and those it is done with have their outcome.
LEMMA RoutingStep ==
  ASSUME IngestionInv, NEW w \in Workers, NEW t \in Thread, th' = [th EXCEPT ![w] = t],
         ~At(w, "idle"), ~At(w, "call"), th[w].pc \in {"record", "lookup"} \union Routing,
         t.pc \in {"lookup", "call", "finish"}, Placed(t), t.event = th[w].event,
         t.handler = th[w].handler, t.pc = "call" => t.attempt = 1,
         Left(t) \subseteq Left(th[w]),
         UNCHANGED <<lists, file, counters, portfolio, calls, accepted, answered, baseline,
                     lost, gaveUp, overlapped, crashes>>,
         faults' \in Nat, skipped' \subseteq Routes, skipped \subseteq skipped',
         t.handler = "ingest" => \A r \in Left(th[w]) \ Left(t) : r \in skipped',
         t.failures > 0 <=> (th[w].failures > 0 \/ At(w, "record_failed"))
  PROVE  IngestionInv'
<1>1. TypeOK'
  BY Moves DEF IngestionInv, TypeOK, lists, counters, calls
<1>2. EventsApart' /\ \A v \in Workers : Placed(th[v])'
  BY EventsKept
<1>3. ListsInv'
  <2>1. Listed(t)'
    BY ThreadFacts DEF Listed, lists, At
  <2> QED
    BY <2>1, ListsKept
<1>4. SavesInv'
  <2>1. ~overlapped => Saved(t)'
    BY ThreadFacts DEF Saved, Routing
  <2> QED
    BY <2>1, SavesKept DEF lists
<1>5. CallsInv'
  BY CallsKept DEF calls
<1>6. OutcomesInv'
  <2>1. Failed(t.event)' <=> t.failures > 0 \/ t.pc = "record_failed"
    BY DEF IngestionInv, OutcomesInv, Failed
  <2>2. raw' \in Seq(Events) /\ raw' = raw
    BY DEF IngestionInv, TypeOK, lists
  <2> QED
    BY <2>1, <2>2, OutcomesKept DEF calls, counters
<1> QED
  BY <1>1, <1>2, <1>3, <1>4, <1>5, <1>6 DEF IngestionInv

\* The event is recorded; a message is then routed, a stored event is not.
LEMMA RecordStep ==
  ASSUME IngestionInv, NEW w \in Workers, Record(w)
  PROVE  IngestionInv'
<1>1. /\ th[w].pc = "record" /\ th[w] \in Thread /\ Placed(th[w]) /\ faults' \in Nat
      /\ UNCHANGED <<lists, file, counters, portfolio, calls, observers, crashes>>
  BY ThreadFacts DEF Record, AppendLedger, Fault, At, IngestionInv, TypeOK
<1>2. PICK s : s = IF th[w].handler = "ingest" THEN "detect_anomalies" ELSE "done"
  OBVIOUS
<1>3. PICK t : t = AtStage(th[w], s)
  OBVIOUS
<1>4. /\ t \in Thread /\ t.event = th[w].event /\ t.handler = th[w].handler /\ t.stage = s
      /\ t.failures = th[w].failures /\ t.pc = IF s = "done" THEN "finish" ELSE "lookup"
  BY <1>1, <1>2, <1>3 DEF AtStage, Thread, Stages
<1>5. th' = [th EXCEPT ![w] = t]
  BY <1>2, <1>3 DEF Record, IngestionInv, TypeOK
<1>6. Placed(t)
  BY <1>1, <1>2, <1>4 DEF Placed, Routing, Stages, Thread
<1>7. Left(th[w]) = RoutesOf(t.event)
  BY <1>1, <1>4 DEF Left, Storing
<1>8. Left(t) \subseteq RoutesOf(t.event) /\ (t.handler = "ingest" => Left(t) = RoutesOf(t.event))
  <2>1. ASSUME t.handler = "ingest" PROVE \A r \in RoutesOf(t.event) : r \in Left(t)
    BY <1>2, <1>4, <2>1, RouteFacts DEF Left, Later, Stages
  <2> QED
    BY <2>1 DEF Left
<1>9. skipped' \subseteq Routes /\ skipped' = skipped /\ lost' = lost
  BY <1>1 DEF IngestionInv, TypeOK, observers
<1> QED
  BY <1>1, <1>2, <1>4, <1>5, <1>6, <1>7, <1>8, <1>9, RoutingStep DEF At, observers

\* The peers for a capability are listed, or the lookup fails and cuts them off.
LEMMA LookupStep ==
  ASSUME IngestionInv, NEW w \in Workers, Lookup(w)
  PROVE  IngestionInv'
<1>1. PICK s, e : s = th[w].stage /\ e = th[w].event
  OBVIOUS
<1>2. /\ th[w].pc = "lookup" /\ th[w] \in Thread /\ Placed(th[w]) /\ s \in Stages
      /\ th[w].handler = "ingest" /\ e \in Events
      /\ UNCHANGED <<lists, file, counters, outside, accepted, answered, baseline,
                     lost, gaveUp, overlapped, crashes>>
      /\ Providers(s) \in Seq(Peers) /\ IsInjective(Providers(s))
  BY <1>1, ThreadFacts, ProviderFacts DEF Lookup, At, Placed
<1>3. Left(th[w]) = {r \in RoutesOf(e) : r.stage \in Later(s) \/ r.stage = s}
  BY <1>1, <1>2 DEF Left, Storing
<1>4. CASE th' = [th EXCEPT ![w] = WithTargets(@, Providers(s))] /\ UNCHANGED <<skipped, faults>>
  <2>1. PICK t : t = WithTargets(th[w], Providers(s))
    OBVIOUS
  <2>2. /\ t \in Thread /\ t.event = e /\ t.handler = "ingest"
        /\ t.failures = th[w].failures /\ t.pc \in {"call", "lookup", "finish"} /\ Placed(t)
        /\ t.pc = "call" => t.attempt = 1
        /\ Left(t) = {r \in RoutesOf(e) :
             r.stage \in Later(s) \/ (r.stage = s /\ r.target \in ToSet(Providers(s)))}
    BY <1>1, <1>2, <2>1, WithTargetsFacts
  <2>3. Left(t) = Left(th[w])
    BY <1>3, <2>2, RouteFacts
  <2>4. th' = [th EXCEPT ![w] = t]
    BY <1>4, <2>1 DEF IngestionInv, TypeOK
  <2>5. skipped' \subseteq Routes /\ faults' \in Nat
    BY <1>4 DEF IngestionInv, TypeOK
  <2> QED
    BY <1>1, <1>2, <1>4, <2>2, <2>3, <2>4, <2>5, RoutingStep DEF At, outside
<1>5. CASE /\ Fault
           /\ th' = [th EXCEPT ![w] = WithTargets(@, << >>)]
           /\ Skip({Route(s, p, e) : p \in ToSet(Providers(s))})
  <2> DEFINE rest == << >>
  <2>1. PICK t : t = WithTargets(th[w], rest)
    OBVIOUS
  <2>2. rest \in Seq(Peers) /\ IsInjective(rest) /\ ToSet(rest) = {}
    BY DEF IsInjective, ToSet
  <2> HIDE DEF rest
  <2>3. /\ t \in Thread /\ t.event = e /\ t.handler = "ingest"
        /\ t.failures = th[w].failures /\ t.pc \in {"call", "lookup", "finish"} /\ Placed(t)
        /\ t.pc = "call" => t.attempt = 1
        /\ Left(t) = {r \in RoutesOf(e) : r.stage \in Later(s)}
    <3>1. /\ t \in Thread /\ t.event = e /\ t.handler = "ingest"
          /\ t.failures = th[w].failures /\ t.pc \in {"call", "lookup", "finish"} /\ Placed(t)
          /\ t.pc = "call" => t.attempt = 1
          /\ Left(t) = {r \in RoutesOf(e) :
               r.stage \in Later(s) \/ (r.stage = s /\ r.target \in ToSet(rest))}
      BY <1>1, <1>2, <2>1, <2>2, WithTargetsFacts
    <3> QED
      BY <2>2, <3>1
  <2>4. skipped' = skipped \union {Route(s, p, e) : p \in ToSet(Providers(s))}
    BY <1>5 DEF Skip
  <2>5. \A r \in Left(th[w]) \ Left(t) : r \in skipped'
    BY <1>3, <2>3, <2>4, RouteFacts
  <2>6. th' = [th EXCEPT ![w] = t]
    BY <1>5, <2>1 DEF IngestionInv, TypeOK, rest
  <2>7. skipped' \subseteq Routes /\ faults' \in Nat
    BY <1>2, <1>5, <2>4, RouteFacts, RoutesFacts DEF IngestionInv, TypeOK, Fault
  <2>8. Left(t) \subseteq Left(th[w]) /\ skipped \subseteq skipped'
    BY <1>3, <2>3, <2>4
  <2> QED
    BY <1>1, <1>2, <2>3, <2>5, <2>6, <2>7, <2>8, RoutingStep DEF At, outside
<1> QED
  BY <1>1, <1>4, <1>5 DEF Lookup

\* The outcome of a call is recorded and the loop goes on.
LEMMA RecordOutcomeStep ==
  ASSUME IngestionInv, NEW w \in Workers, RecordRouted(w) \/ RecordFailed(w)
  PROVE  IngestionInv'
<1>1. /\ th[w].pc \in {"record_routed", "record_failed"} /\ th[w] \in Thread /\ Placed(th[w])
      /\ th[w].event \in Events /\ th[w].handler = "ingest" /\ th[w].stage \in Stages
      /\ UNCHANGED <<lists, file, counters, portfolio, calls, observers, crashes>>
      /\ faults' \in Nat
  <2>1. /\ th[w].pc \in {"record_routed", "record_failed"}
        /\ UNCHANGED <<lists, file, counters, portfolio, calls, observers, crashes>>
        /\ faults' = faults \/ faults' = faults + 1
    BY DEF RecordRouted, RecordFailed, AppendLedger, Fault, At
  <2>2. th[w] \in Thread /\ Placed(th[w]) /\ th[w].event \in Events
    BY <2>1, ThreadFacts DEF At
  <2>3. faults \in Nat
    BY DEF IngestionInv, TypeOK
  <2> QED
    BY <2>1, <2>2, <2>3 DEF Placed, Routing
<1>2. PICK b : /\ b \in Thread /\ b.stage = th[w].stage /\ b.event = th[w].event
               /\ b.handler = th[w].handler
               /\ th' = [th EXCEPT ![w] = WithTargets(b, Tail(th[w].targets))]
               /\ b.failures > 0 <=> (th[w].failures > 0 \/ At(w, "record_failed"))
  <2>1. CASE RecordRouted(w)
    <3>1. th' = [th EXCEPT ![w] = WithTargets(th[w], Tail(th[w].targets))] /\ ~At(w, "record_failed")
      BY <2>1 DEF RecordRouted, At, IngestionInv, TypeOK
    <3> QED
      BY <1>1, <3>1
  <2>2. CASE RecordFailed(w)
    <3>1. PICK b : b = [th[w] EXCEPT !.failures = th[w].failures + 1]
      OBVIOUS
    <3>2. th' = [th EXCEPT ![w] = WithTargets(b, Tail(th[w].targets))] /\ At(w, "record_failed")
      BY <2>2, <3>1 DEF RecordFailed, At, IngestionInv, TypeOK
    <3>3. th[w].failures \in Nat
      BY <1>1 DEF Thread
    <3>4. b \in Thread /\ b.stage = th[w].stage /\ b.event = th[w].event
          /\ b.handler = th[w].handler /\ b.failures = th[w].failures + 1
      BY <1>1, <3>1, <3>3 DEF Thread
    <3>5. b.failures > 0
      BY <3>3, <3>4
    <3> QED
      BY <3>2, <3>4, <3>5
  <2> QED
    BY <2>1, <2>2
<1>3. PICK t, rest : rest = Tail(th[w].targets) /\ t = WithTargets(b, rest)
  OBVIOUS
<1>4. /\ rest \in Seq(Peers) /\ IsInjective(rest)
      /\ ToSet(rest) \subseteq ToSet(Providers(th[w].stage))
      /\ Left(th[w]) = {r \in RoutesOf(th[w].event) : r.stage \in Later(th[w].stage)
           \/ (r.stage = th[w].stage /\ r.target \in ToSet(rest))}
  BY <1>1, <1>3, CurrentFacts DEF Routing
<1>5. /\ t \in Thread /\ t.event = b.event /\ t.handler = b.handler
      /\ t.failures = b.failures /\ t.pc \in {"call", "lookup", "finish"} /\ Placed(t)
      /\ t.pc = "call" => t.attempt = 1
      /\ Left(t) = {r \in RoutesOf(b.event) : r.stage \in Later(b.stage)
           \/ (r.stage = b.stage /\ r.target \in ToSet(rest))}
  <2>1. b.stage \in Stages /\ b.handler = "ingest" /\ ToSet(rest) \subseteq ToSet(Providers(b.stage))
    BY <1>1, <1>2, <1>4
  <2>2. b \in Thread /\ t = WithTargets(b, rest) /\ rest \in Seq(Peers) /\ IsInjective(rest)
    BY <1>2, <1>3, <1>4
  <2> QED
    BY <2>1, <2>2, WithTargetsFacts
<1>6. Left(t) = Left(th[w])
  BY <1>2, <1>4, <1>5
<1>7. skipped' = skipped /\ skipped' \subseteq Routes
  BY <1>1 DEF IngestionInv, TypeOK, observers
<1> QED
  BY <1>1, <1>2, <1>3, <1>5, <1>6, <1>7, RoutingStep DEF At, Routing, observers

\* A call of thread w changes the counts of its own route only: the other threads'
\* calls and the routes left to anyone are as they were.
LEMMA CallStep ==
  ASSUME IngestionInv, NEW w \in Workers, NEW t \in Thread, th' = [th EXCEPT ![w] = t],
         At(w, "call"), Placed(t), t.event = th[w].event, t.pc # "idle", accepted' = accepted,
         Left(t) \subseteq Left(th[w]),
         delivered' \in [Routes -> Nat], late' \in [Routes -> Nat], lost' \in [Routes -> Nat],
         \A r \in Routes : r # CurrentOf(th[w]) =>
           delivered'[r] = delivered[r] /\ late'[r] = late[r] /\ lost'[r] = lost[r],
         delivered'[CurrentOf(th[w])] + late'[CurrentOf(th[w])] <= Retries,
         delivered'[CurrentOf(th[w])] + late'[CurrentOf(th[w])] <= 1 + lost'[CurrentOf(th[w])],
         CurrentOf(th[w]) \in Left(t) => t.pc = "call" /\ CurrentOf(t) = CurrentOf(th[w]),
         t.pc = "call" =>
           \/ /\ CurrentOf(t) = CurrentOf(th[w])
              /\ delivered'[CurrentOf(t)] + late'[CurrentOf(t)] <= lost'[CurrentOf(t)]
              /\ lost'[CurrentOf(t)] < t.attempt
           \/ CurrentOf(t) # CurrentOf(th[w]) /\ t.attempt = 1
  PROVE  CallsInv'
<1>1. \A v \in Workers : th'[v] = IF v = w THEN t ELSE th[v]
  BY Moves DEF IngestionInv
<1>2. PICK c : c = CurrentOf(th[w])
  OBVIOUS
<1>3. /\ t.event \in Events /\ t.event \in accepted /\ c \in Routes /\ c.event = t.event
      /\ th[w] \in Thread /\ Placed(th[w]) /\ ~At(w, "idle")
  BY <1>2, ThreadFacts, CurrentFacts DEF At, Routing
<1>4. \A v \in Workers : v # w /\ ~At(v, "idle") =>
        th[v].event # t.event /\ th[v].event \in Events /\ th[v] \in Thread /\ Placed(th[v])
  BY <1>3, ThreadFacts DEF IngestionInv, EventsApart
<1>5. \A r \in Routes : r # c => (Untouched(r) => Untouched(r)')
  BY <1>2 DEF Untouched
<1>6. \A r \in Routes : r.event \notin accepted' => Untouched(r)'
  BY <1>3, <1>5 DEF IngestionInv, CallsInv
<1>7. ASSUME NEW v \in Workers, ~At(v, "idle")', NEW r \in Left(th'[v])
      PROVE  Untouched(r)' \/ (At(v, "call")' /\ r = CurrentOf(th'[v]))
  <2>1. CASE v = w
    <3>1. th'[v] = t /\ r \in Left(t) /\ r \in Left(th[w]) /\ r \in Routes
      BY <1>1, <1>3, <1>7, <2>1, RoutesFacts DEF Left
    <3>2. CASE r = c
      BY <1>2, <3>1, <3>2 DEF At
    <3>3. CASE r # c
      BY <1>2, <1>3, <1>5, <3>1, <3>3, ThreadFacts DEF IngestionInv, CallsInv
    <3> QED
      BY <3>2, <3>3
  <2>2. CASE v # w
    <3>1. th'[v] = th[v] /\ ~At(v, "idle") /\ r \in Routes /\ r.event = th[v].event
      BY <1>1, <1>4, <1>7, <2>2, RouteFacts, RoutesFacts DEF Left, At
    <3>2. r # c
      BY <1>3, <1>4, <2>2, <3>1
    <3>3. Untouched(r) \/ (At(v, "call") /\ r = CurrentOf(th[v]))
      BY <1>7, <3>1, ThreadFacts DEF IngestionInv, CallsInv
    <3> QED
      BY <1>5, <3>1, <3>2, <3>3 DEF At
  <2> QED
    BY <2>1, <2>2
<1>8. ASSUME NEW v \in Workers, At(v, "call")'
      PROVE  /\ delivered'[CurrentOf(th'[v])] + late'[CurrentOf(th'[v])] <= lost'[CurrentOf(th'[v])]
             /\ lost'[CurrentOf(th'[v])] < th'[v].attempt
  <2>1. CASE v = w /\ CurrentOf(t) = c
    BY <1>1, <1>2, <1>8, <2>1 DEF At
  <2>2. CASE v = w /\ CurrentOf(t) # c
    <3>1. th'[v] = t /\ t.pc = "call" /\ t.attempt = 1
      BY <1>1, <1>2, <1>8, <2>2 DEF At
    <3>2. CurrentOf(t) \in Left(t) /\ CurrentOf(t) \in Routes
      BY <1>3, <3>1, CurrentFacts DEF Routing
    <3>3. Untouched(CurrentOf(t))
      BY <1>2, <1>3, <2>2, <3>2, ThreadFacts DEF IngestionInv, CallsInv
    <3> QED
      BY <1>2, <2>2, <3>1, <3>2, <3>3 DEF Untouched
  <2>3. CASE v # w
    <3>1. th'[v] = th[v] /\ At(v, "call") /\ ~At(v, "idle")
      BY <1>1, <1>8, <2>3 DEF At
    <3>2. CurrentOf(th[v]) \in Routes /\ CurrentOf(th[v]) # c
      BY <1>3, <1>4, <2>3, <3>1, CurrentFacts DEF Routing, At
    <3>3. /\ delivered[CurrentOf(th[v])] + late[CurrentOf(th[v])] <= lost[CurrentOf(th[v])]
          /\ lost[CurrentOf(th[v])] < th[v].attempt
      BY <3>1, ThreadFacts DEF IngestionInv, CallsInv
    <3> QED
      BY <1>2, <3>1, <3>2, <3>3
  <2> QED
    BY <2>1, <2>2, <2>3
<1>9. \A r \in Routes : delivered'[r] + late'[r] <= Retries /\ delivered'[r] + late'[r] <= 1 + lost'[r]
  BY <1>2 DEF IngestionInv, CallsInv
<1>10. \A v \in Workers : Current(v)' = CurrentOf(th'[v])
  BY DEF Current, CurrentOf
<1>11. (\A v \in Workers : ~At(v, "idle") => \A r \in Left(th[v]) :
         Untouched(r) \/ (At(v, "call") /\ r = Current(v)))'
  BY <1>7, <1>10
<1>12. (\A v \in Workers : At(v, "call") =>
          /\ delivered[Current(v)] + late[Current(v)] <= lost[Current(v)]
          /\ lost[Current(v)] < th[v].attempt)'
  BY <1>8, <1>10
<1> QED
  BY <1>6, <1>9, <1>11, <1>12 DEF CallsInv

\* What the counts say before a call.
LEMMA CallFacts ==
  ASSUME IngestionInv, NEW w \in Workers, At(w, "call"), NEW c, c = CurrentOf(th[w])
  PROVE  /\ c \in Routes /\ c \in RoutesOf(th[w].event) /\ c.event = th[w].event
         /\ c \in Left(th[w]) /\ Current(w) = c
         /\ delivered[c] \in Nat /\ late[c] \in Nat /\ lost[c] \in Nat
         /\ delivered[c] + late[c] <= lost[c] /\ lost[c] < th[w].attempt
         /\ th[w].attempt \in 1..Retries /\ Retries \in Nat
         /\ th[w] \in Thread /\ Placed(th[w]) /\ th[w].event \in Events /\ ~At(w, "idle")
         /\ th[w].handler = "ingest" /\ th[w].stage \in Stages
<1>1. th[w] \in Thread /\ Placed(th[w]) /\ th[w].event \in Events /\ Current(w) = c /\ ~At(w, "idle")
  BY ThreadFacts DEF At
<1>2. /\ c \in Routes /\ c \in RoutesOf(th[w].event) /\ c.event = th[w].event /\ c \in Left(th[w])
  BY <1>1, CurrentFacts DEF At, Routing
<1>3. delivered[c] \in Nat /\ late[c] \in Nat /\ lost[c] \in Nat
  BY <1>2 DEF IngestionInv, TypeOK
<1>4. delivered[c] + late[c] <= lost[c] /\ lost[c] < th[w].attempt
  BY <1>1 DEF IngestionInv, CallsInv
<1>5. th[w].attempt \in 1..Retries /\ Retries \in Nat
  BY <1>1, RetriesAssumption DEF Thread
<1>6. th[w].handler = "ingest" /\ th[w].stage \in Stages
  BY <1>1 DEF Placed, At, Routing
<1> QED
  BY <1>1, <1>2, <1>3, <1>4, <1>5, <1>6

\* A peer has executed the call.
LEMMA CallSucceedsStep ==
  ASSUME IngestionInv, NEW w \in Workers, CallSucceeds(w)
  PROVE  IngestionInv'
<1>1. PICK c : c = CurrentOf(th[w])
  OBVIOUS
<1>2. /\ At(w, "call") /\ delivered' = [delivered EXCEPT ![c] = @ + 1]
      /\ UNCHANGED <<lists, file, counters, portfolio, late, ledger, observers, bounds>>
  BY <1>1 DEF CallSucceeds, Count, Current, CurrentOf
<1>3. /\ c \in Routes /\ c \in RoutesOf(th[w].event) /\ c.event = th[w].event
      /\ c \in Left(th[w]) /\ Current(w) = c
      /\ delivered[c] \in Nat /\ late[c] \in Nat /\ lost[c] \in Nat
      /\ delivered[c] + late[c] <= lost[c] /\ lost[c] < th[w].attempt
      /\ th[w].attempt \in 1..Retries /\ Retries \in Nat
      /\ th[w] \in Thread /\ Placed(th[w]) /\ th[w].event \in Events /\ ~At(w, "idle")
      /\ th[w].handler = "ingest" /\ th[w].stage \in Stages
  BY <1>1, <1>2, CallFacts
<1>4. PICK rest : rest = Tail(th[w].targets)
  OBVIOUS
<1>5. /\ rest \in Seq(Peers) /\ IsInjective(rest)
      /\ ToSet(rest) \subseteq ToSet(Providers(th[w].stage))
      /\ Left(th[w]) \ {c} = {r \in RoutesOf(th[w].event) : r.stage \in Later(th[w].stage)
           \/ (r.stage = th[w].stage /\ r.target \in ToSet(rest))}
  BY <1>1, <1>2, <1>3, <1>4, CurrentFacts DEF Routing, At
<1>6. PICK t : /\ t \in Thread /\ th' = [th EXCEPT ![w] = t]
               /\ t.event = th[w].event /\ t.handler = th[w].handler
               /\ t.failures = th[w].failures /\ Placed(t)
               /\ t.pc \in {"call", "lookup", "finish", "record_routed"}
               /\ t.pc = "call" => t.attempt = 1
               /\ Left(t) = Left(th[w]) \ {c}
  <2>1. CASE th[w].stage = "compute_risk"
    <3>1. PICK t : t = WithTargets(th[w], rest)
      OBVIOUS
    <3>2. th' = [th EXCEPT ![w] = t]
      BY <1>4, <2>1, <3>1 DEF CallSucceeds, IngestionInv, TypeOK
    <3>3. /\ t \in Thread /\ t.event = th[w].event /\ t.handler = th[w].handler
          /\ t.failures = th[w].failures /\ t.pc \in {"call", "lookup", "finish"} /\ Placed(t)
          /\ t.pc = "call" => t.attempt = 1
          /\ Left(t) = {r \in RoutesOf(th[w].event) : r.stage \in Later(th[w].stage)
               \/ (r.stage = th[w].stage /\ r.target \in ToSet(rest))}
      BY <1>3, <1>5, <3>1, WithTargetsFacts
    <3> QED
      BY <1>5, <3>2, <3>3
  <2>2. CASE th[w].stage # "compute_risk"
    <3>1. PICK t : t = [th[w] EXCEPT !.pc = "record_routed"]
      OBVIOUS
    <3>2. th' = [th EXCEPT ![w] = t]
      BY <2>2, <3>1 DEF CallSucceeds, IngestionInv, TypeOK
    <3>3. /\ t \in Thread /\ t.event = th[w].event /\ t.handler = th[w].handler
          /\ t.failures = th[w].failures /\ t.pc = "record_routed" /\ t.stage = th[w].stage
          /\ t.targets = th[w].targets
      BY <1>3, <3>1 DEF Thread, Routing
    <3>4. Placed(t)
      BY <1>2, <1>3, <3>3 DEF Placed, Routing, At
    <3>5. Left(t) = {r \in RoutesOf(th[w].event) : r.stage \in Later(th[w].stage)
               \/ (r.stage = th[w].stage /\ r.target \in ToSet(rest))}
      BY <1>4, <3>3 DEF Left, Storing
    <3> QED
      BY <1>5, <3>2, <3>3, <3>4, <3>5
  <2> QED
    BY <2>1, <2>2
<1>7. /\ delivered' \in [Routes -> Nat] /\ delivered'[c] = delivered[c] + 1
      /\ \A r \in Routes : r # c => delivered'[r] = delivered[r]
  BY <1>2, <1>3 DEF IngestionInv, TypeOK
<1>8. late' = late /\ late \in [Routes -> Nat] /\ lost' = lost /\ lost \in [Routes -> Nat]
  BY <1>2 DEF IngestionInv, TypeOK, observers
<1>9. TypeOK'
  BY <1>2, <1>6, <1>7, Moves DEF IngestionInv, TypeOK, lists, counters, observers, bounds
<1>10. EventsApart' /\ \A v \in Workers : Placed(th[v])'
  BY <1>2, <1>3, <1>6, EventsKept DEF observers
<1>11. ListsInv'
  <2>1. Listed(t)'
    BY <1>3, <1>6 DEF Listed
  <2> QED
    BY <1>2, <1>6, <2>1, ListsKept DEF observers
<1>12. SavesInv'
  <2>1. ~overlapped => Saved(t)'
    BY <1>2, <1>6, ThreadFacts DEF Saved, Routing, At
  <2> QED
    BY <1>2, <1>3, <1>6, <2>1, SavesKept DEF lists, observers
<1>13. CallsInv'
  <2>1. /\ delivered'[c] + late'[c] <= Retries /\ delivered'[c] + late'[c] <= 1 + lost'[c]
    BY <1>3, <1>7, <1>8
  <2>2. ASSUME t.pc = "call" PROVE CurrentOf(t) # c /\ t.attempt = 1
    BY <1>3, <1>6, <2>2, CurrentFacts DEF Routing
  <2>3. c \notin Left(t)
    BY <1>6
  <2>4. Left(t) \subseteq Left(th[w]) /\ t.pc # "idle"
    BY <1>6
  <2>5. accepted' = accepted
    BY <1>2 DEF observers
  <2> QED
    BY <1>1, <1>2, <1>6, <1>7, <1>8, <2>1, <2>2, <2>3, <2>4, <2>5, CallStep
<1>14. OutcomesInv'
  <2>1. \A r \in Left(th[w]) \ Left(t) : delivered'[r] > 0
    BY <1>3, <1>6, <1>7
  <2>2. Failed(t.event)' <=> t.failures > 0 \/ t.pc = "record_failed"
    BY <1>2, <1>3, <1>6 DEF IngestionInv, OutcomesInv, Failed, At, observers
  <2>3. raw' \in Seq(Events) /\ raw' = raw
    BY <1>2 DEF IngestionInv, TypeOK, lists
  <2>4. \A r \in Routes : delivered[r] > 0 => delivered'[r] > 0
    BY <1>3, <1>7
  <2>5. UNCHANGED <<accepted, answered, routing_failures, crashes, gaveUp, skipped>>
    BY <1>2 DEF counters, observers, bounds
  <2>6. t.pc # "idle"
    BY <1>6
  <2> QED
    BY <1>3, <1>6, <2>1, <2>2, <2>3, <2>4, <2>5, <2>6, OutcomesKept
<1> QED
  BY <1>9, <1>10, <1>11, <1>12, <1>13, <1>14 DEF IngestionInv

\* The call raises: another attempt, or the last one is given up.
LEMMA CallFailsStep ==
  ASSUME IngestionInv, NEW w \in Workers, CallFails(w)
  PROVE  IngestionInv'
<1>1. PICK c, t : c = CurrentOf(th[w]) /\ t = AttemptFailed(th[w])
  OBVIOUS
<1>2. /\ At(w, "call") /\ th' = [th EXCEPT ![w] = t]
      /\ UNCHANGED <<lists, file, counters, portfolio, delivered, ledger, accepted,
                     answered, baseline, skipped, overlapped, crashes>>
  BY <1>1 DEF CallFails, IngestionInv, TypeOK
<1>3. /\ c \in Routes /\ c \in RoutesOf(th[w].event) /\ c.event = th[w].event
      /\ c \in Left(th[w]) /\ Current(w) = c
      /\ delivered[c] \in Nat /\ late[c] \in Nat /\ lost[c] \in Nat
      /\ delivered[c] + late[c] <= lost[c] /\ lost[c] < th[w].attempt
      /\ th[w].attempt \in 1..Retries /\ Retries \in Nat
      /\ th[w] \in Thread /\ Placed(th[w]) /\ th[w].event \in Events /\ ~At(w, "idle")
      /\ th[w].handler = "ingest" /\ th[w].stage \in Stages
  BY <1>1, <1>2, CallFacts
<1>4. /\ t \in Thread /\ t.event = th[w].event /\ t.handler = th[w].handler
      /\ t.stage = th[w].stage /\ t.targets = th[w].targets /\ t.failures = th[w].failures
      /\ CurrentOf(t) = c
      /\ \/ t.pc = "call" /\ t.attempt = th[w].attempt + 1
         \/ t.pc = "record_failed"
  <2>1. CASE th[w].attempt < Retries
    <3>1. t = [th[w] EXCEPT !.attempt = th[w].attempt + 1]
      BY <1>1, <2>1 DEF AttemptFailed
    <3>2. th[w].attempt + 1 \in 1..Retries
      BY <1>3, <2>1
    <3> QED
      BY <1>1, <1>2, <1>3, <3>1, <3>2 DEF Thread, At, CurrentOf
  <2>2. CASE ~(th[w].attempt < Retries)
    <3>1. t = [th[w] EXCEPT !.pc = "record_failed"]
      BY <1>1, <2>2 DEF AttemptFailed
    <3> QED
      BY <1>1, <1>3, <3>1 DEF Thread, CurrentOf, Routing
  <2> QED
    BY <2>1, <2>2
<1>5. Placed(t)
  BY <1>2, <1>3, <1>4 DEF Placed, Routing, At
<1>6. \A v \in Workers : th'[v] = IF v = w THEN t ELSE th[v]
  BY <1>2, <1>4, Moves DEF IngestionInv
<1>7. gaveUp' = IF t.pc = "record_failed" THEN gaveUp \union {c} ELSE gaveUp
  BY <1>3, <1>6 DEF CallFails
<1>8. /\ late' \in [Routes -> Nat] /\ lost' \in [Routes -> Nat] /\ faults' \in Nat
      /\ \A r \in Routes : r # c => late'[r] = late[r] /\ lost'[r] = lost[r]
      /\ \/ late'[c] = late[c] /\ lost'[c] = lost[c]
         \/ late'[c] = late[c] + 1 /\ lost'[c] = lost[c] + 1
  <2>1. /\ \/ late' = late /\ lost' = lost
           \/ late' = [late EXCEPT ![c] = @ + 1] /\ lost' = [lost EXCEPT ![c] = @ + 1]
        /\ faults' = faults \/ faults' = faults + 1
    BY <1>3 DEF CallFails, Count, Fault
  <2>2. late \in [Routes -> Nat] /\ lost \in [Routes -> Nat] /\ faults \in Nat
    BY DEF IngestionInv, TypeOK
  <2>3. CASE late' = late /\ lost' = lost
    BY <2>1, <2>2, <2>3
  <2>4. CASE late' = [late EXCEPT ![c] = @ + 1] /\ lost' = [lost EXCEPT ![c] = @ + 1]
    BY <1>3, <2>1, <2>2, <2>4
  <2> QED
    BY <2>1, <2>3, <2>4
<1>9. TypeOK'
  <2>1. gaveUp' \subseteq Routes
    BY <1>3, <1>7 DEF IngestionInv, TypeOK
  <2> QED
    BY <1>2, <1>4, <1>8, <2>1, Moves DEF IngestionInv, TypeOK, lists, counters
<1>10. EventsApart' /\ \A v \in Workers : Placed(th[v])'
  BY <1>2, <1>3, <1>4, <1>5, EventsKept
<1>11. ListsInv'
  <2>1. Listed(t)'
    BY <1>3, <1>4 DEF Listed
  <2> QED
    BY <1>2, <1>4, <2>1, ListsKept
<1>12. SavesInv'
  <2>1. ~overlapped => Saved(t)'
    BY <1>2, <1>4, ThreadFacts DEF Saved, Routing, At
  <2> QED
    BY <1>2, <1>3, <1>4, <2>1, SavesKept DEF lists
<1>13. Left(t) \subseteq Left(th[w]) /\ Left(th[w]) \ Left(t) \subseteq {c}
       /\ (c \in Left(t) => t.pc = "call")
  <2>1. /\ c \in Left(t) <=> t.pc = "call"
        /\ t.pc = "call" => Left(t) \ {c} = Left(th[w]) \ {c}
        /\ t.pc # "call" => Left(t) = Left(th[w]) \ {c}
    BY <1>1, <1>2, <1>3, <1>4, <1>5, CurrentFacts DEF Routing, At
  <2> QED
    BY <1>3, <2>1
<1>14. CallsInv'
  <2>1. /\ delivered'[c] + late'[c] <= Retries /\ delivered'[c] + late'[c] <= 1 + lost'[c]
        /\ delivered'[c] + late'[c] <= lost'[c]
        /\ t.pc = "call" => lost'[c] < t.attempt
    BY <1>2, <1>3, <1>4, <1>8
  <2>2. delivered' \in [Routes -> Nat] /\ delivered' = delivered
    BY <1>2 DEF IngestionInv, TypeOK
  <2>3. t.pc # "idle"
    BY <1>4
  <2> QED
    BY <1>1, <1>2, <1>4, <1>5, <1>8, <1>13, <2>1, <2>2, <2>3, CallStep
<1>15. OutcomesInv'
  <2>1. \A r \in Left(th[w]) \ Left(t) : r \in gaveUp'
    <3>1. c \in Left(t) \/ t.pc = "record_failed"
      BY <1>3, <1>4, <1>5, CurrentFacts DEF Routing
    <3> QED
      BY <1>7, <1>13, <3>1
  <2>2. Failed(t.event)' <=> t.failures > 0 \/ t.pc = "record_failed"
    <3>1. Failed(t.event) <=> th[w].failures > 0
      BY <1>2, <1>3, <1>4 DEF IngestionInv, OutcomesInv, At
    <3>2. Failed(t.event)' <=> Failed(t.event) \/ t.pc = "record_failed"
      BY <1>3, <1>4, <1>7 DEF Failed
    <3> QED
      BY <1>4, <3>1, <3>2
  <2>3. raw' \in Seq(Events) /\ raw' = raw
    BY <1>2 DEF IngestionInv, TypeOK, lists
  <2>4. routing_failures' = routing_failures
    BY <1>2 DEF counters
  <2>5. gaveUp \subseteq gaveUp' /\ \A r \in gaveUp' : r \in gaveUp \/ r.event = t.event
    BY <1>3, <1>4, <1>7
  <2>6. t.pc # "idle"
    BY <1>4
  <2> QED
    BY <1>2, <1>3, <1>4, <2>1, <2>2, <2>3, <2>4, <2>5, <2>6, OutcomesKept
<1> QED
  BY <1>9, <1>10, <1>11, <1>12, <1>14, <1>15 DEF IngestionInv

\* A peer executes a call that was given up before.
LEMMA ExecuteLateStep ==
  ASSUME IngestionInv, NEW r \in Routes, ExecuteLate(r)
  PROVE  IngestionInv'
<1>1. /\ late[r] > 0 /\ delivered' = [delivered EXCEPT ![r] = @ + 1]
      /\ late' = [late EXCEPT ![r] = @ - 1]
      /\ UNCHANGED <<th, lists, file, counters, portfolio, ledger, observers, bounds>>
  BY DEF ExecuteLate, Count
<1>2. /\ delivered \in [Routes -> Nat] /\ late \in [Routes -> Nat]
      /\ delivered' \in [Routes -> Nat] /\ late' \in [Routes -> Nat]
      /\ \A q \in Routes : /\ delivered'[q] + late'[q] = delivered[q] + late[q]
                           /\ delivered[q] > 0 => delivered'[q] > 0
                           /\ Untouched(q) => q # r
  <2>1. delivered \in [Routes -> Nat] /\ late \in [Routes -> Nat]
    BY DEF IngestionInv, TypeOK
  <2>2. late[r] - 1 \in Nat /\ delivered[r] + 1 \in Nat
    BY <1>1, <2>1
  <2>3. PICK n, m : n = late[r] - 1 /\ m = delivered[r] + 1
    OBVIOUS
  <2>4. delivered' = [delivered EXCEPT ![r] = m] /\ late' = [late EXCEPT ![r] = n]
    BY <1>1, <2>3
  <2>5. delivered' \in [Routes -> Nat] /\ late' \in [Routes -> Nat]
    BY <2>1, <2>2, <2>3, <2>4
  <2>6. ASSUME NEW q \in Routes, q # r
        PROVE  delivered'[q] = delivered[q] /\ late'[q] = late[q]
    BY <2>1, <2>4, <2>6
  <2>7. delivered'[r] = m /\ late'[r] = n
    BY <2>1, <2>4
  <2>8. /\ delivered'[r] + late'[r] = delivered[r] + late[r] /\ delivered'[r] > 0
        /\ late[r] # 0
    <3>1. delivered[r] \in Nat /\ late[r] \in Nat
      BY <2>1
    <3> QED
      BY <1>1, <2>3, <2>7, <3>1
  <2> QED
    BY <2>1, <2>5, <2>6, <2>8 DEF Untouched
<1>3. TypeOK'
  BY <1>1, <1>2 DEF IngestionInv, TypeOK, lists, counters, observers, bounds
<1>4. EventsApart' /\ \A v \in Workers : Placed(th[v])'
  BY <1>1 DEF IngestionInv, EventsApart, At, observers
<1>5. ListsInv' /\ SavesInv'
  BY <1>1 DEF IngestionInv, ListsInv, SavesInv, FileIsPrefix, BaselinePrecedes, Listed, Saved,
              AnsweredIsPersisted, At, lists, observers
<1>6. \A v \in Workers : ~At(v, "idle") =>
        /\ Left(th[v]) \subseteq Routes
        /\ At(v, "call") => Current(v) \in Routes
        /\ RoutesOf(th[v].event) \subseteq Routes
  BY ThreadFacts, RoutesFacts, CurrentFacts DEF Left, At, Routing
<1>7. \A q \in Routes : Untouched(q) => Untouched(q)'
  BY <1>1, <1>2 DEF Untouched, observers
<1>8. CallsInv'
  <2>1. \A q \in Routes : q.event \notin accepted' => Untouched(q)'
    BY <1>1, <1>7 DEF IngestionInv, CallsInv, observers
  <2>2. (\A v \in Workers : ~At(v, "idle") => \A q \in Left(th[v]) :
          Untouched(q) \/ (At(v, "call") /\ q = Current(v)))'
    BY <1>1, <1>6, <1>7 DEF IngestionInv, CallsInv, At, Current
  <2>3. (\A v \in Workers : At(v, "call") =>
          /\ delivered[Current(v)] + late[Current(v)] <= lost[Current(v)]
          /\ lost[Current(v)] < th[v].attempt)'
    BY <1>1, <1>2, <1>6 DEF IngestionInv, CallsInv, At, Current, observers
  <2>4. (\A q \in Routes :
           delivered[q] + late[q] <= Retries /\ delivered[q] + late[q] <= 1 + lost[q])'
    BY <1>1, <1>2 DEF IngestionInv, CallsInv, observers
  <2> QED
    BY <2>1, <2>2, <2>3, <2>4 DEF CallsInv
<1>9. OutcomesInv'
  <2>1. RoutesAccounted'
    <3>1. \A j \in DOMAIN raw : RoutesOf(raw[j]) \subseteq Routes
      BY RoutesFacts DEF IngestionInv, TypeOK
    <3> QED
      BY <1>1, <1>2, <3>1
         DEF IngestionInv, OutcomesInv, OutcomesAccounted, RoutesAccounted, At, lists, observers
  <2>2. CountersMatchOutcomes'
    BY <1>1 DEF IngestionInv, OutcomesInv, OutcomesAccounted, CountersMatchOutcomes,
                counters, observers, bounds
  <2>3. (\A v \in Workers : (~At(v, "idle") /\ th[v].handler = "ingest") =>
          \A q \in RoutesOf(th[v].event) \ Left(th[v]) :
            delivered[q] > 0 \/ q \in gaveUp \union skipped)'
    BY <1>1, <1>2, <1>6 DEF IngestionInv, OutcomesInv, At, observers
  <2>4. (\A v \in Workers : ~At(v, "idle") =>
          (Failed(th[v].event) <=> th[v].failures > 0 \/ At(v, "record_failed")))'
    BY <1>1 DEF IngestionInv, OutcomesInv, Failed, At, observers
  <2>5. \A q \in gaveUp' : q.event \in accepted'
    BY <1>1 DEF IngestionInv, OutcomesInv, observers
  <2> QED
    BY <2>1, <2>2, <2>3, <2>4, <2>5 DEF OutcomesInv, OutcomesAccounted
<1> QED
  BY <1>3, <1>4, <1>5, <1>8, <1>9 DEF IngestionInv

\* A request is accepted: its event is new to the service.
LEMMA ReceiveStep ==
  ASSUME IngestionInv, NEW w \in Workers, Receive(w)
  PROVE  IngestionInv'
<1>1. PICK e \in Events, handler \in {"ingest", "store"}, location \in {"append_raw", "append_event"} :
        /\ Begin(w, handler, e, location)
        /\ \/ /\ handler = "ingest" /\ location = "append_raw"
              /\ baseline' = [baseline EXCEPT ![e] = last]
           \/ /\ handler = "store" /\ location = "append_event" /\ baseline' = baseline
  BY DEF Receive, IngestMessage, StoreEvent
<1>2. PICK t : t = [th[w] EXCEPT !.pc = location, !.handler = handler, !.event = e]
  OBVIOUS
<1>3. /\ At(w, "idle") /\ e \notin accepted /\ accepted' = accepted \union {e}
      /\ th' = [th EXCEPT ![w] = t]
      /\ overlapped' = (overlapped \/ \E v \in Workers : ~At(v, "idle"))
      /\ UNCHANGED <<lists, file, counters, outside, answered, lost, gaveUp, skipped, bounds>>
      /\ th[w] \in Thread /\ Placed(th[w])
  BY <1>1, <1>2, ThreadFacts DEF Begin, IngestionInv, TypeOK
<1>4. /\ t \in Thread /\ t.pc = location /\ t.handler = handler /\ t.event = e
      /\ t.failures = 0
  BY <1>1, <1>2, <1>3 DEF Thread, Storing, Placed, At
<1>5. th' \in [Workers -> Thread] /\ \A v \in Workers : th'[v] = IF v = w THEN t ELSE th[v]
  BY <1>3, <1>4, Moves DEF IngestionInv
<1>6. \A v \in Workers : (v # w /\ ~At(v, "idle")') =>
        /\ th'[v] = th[v] /\ ~At(v, "idle") /\ th[v].event # e
        /\ th[v].event \in accepted /\ th[v].event \notin answered /\ th[v].event \in Events
  BY <1>3, <1>5, ThreadFacts DEF At
<1>7. e \notin ToSet(raw) /\ e \notin answered /\ raw \in Seq(Events)
  BY <1>3 DEF IngestionInv, ListsInv, TypeOK
<1>8. TypeOK'
  <2>1. baseline' \in [Events -> Events \union {Nil}]
    BY <1>1 DEF IngestionInv, TypeOK
  <2>2. overlapped' \in BOOLEAN
    BY <1>3 DEF IngestionInv, TypeOK
  <2> QED
    BY <1>3, <1>5, <2>1, <2>2 DEF IngestionInv, TypeOK, lists, counters, outside, calls, bounds
<1>9. EventsApart'
  <2>1. (\A v \in Workers : ~At(v, "idle") => th[v].event \in accepted \ answered)'
    BY <1>3, <1>4, <1>5, <1>6, <1>7
  <2>2. (\A v, x \in Workers :
          (~At(v, "idle") /\ ~At(x, "idle") /\ th[v].event = th[x].event) => v = x)'
    <3> SUFFICES ASSUME NEW v \in Workers, NEW x \in Workers, ~At(v, "idle")', ~At(x, "idle")',
                        th'[v].event = th'[x].event, v # x
                 PROVE  FALSE
      OBVIOUS
    <3>1. CASE v # w /\ x # w
      BY <1>6, <3>1 DEF IngestionInv, EventsApart
    <3>2. CASE v = w \/ x = w
      BY <1>4, <1>5, <1>6, <3>2
    <3> QED
      BY <3>1, <3>2
  <2> QED
    BY <2>1, <2>2 DEF EventsApart
<1>10. \A v \in Workers : Placed(th[v])'
  <2>1. Placed(t)
    BY <1>1, <1>4 DEF Placed, Routing
  <2> QED
    BY <1>5, <2>1 DEF IngestionInv, Placed
<1>11. ListsInv'
  <2>1. \A x \in Events : x # e => baseline'[x] = baseline[x]
    BY <1>1 DEF IngestionInv, TypeOK
  <2>2. BaselinePrecedes'
    <3>1. \A j \in 1..Len(raw) : raw[j] \in Events /\ raw[j] # e
      BY <1>7, ToSetFacts
    <3> QED
      BY <1>3, <2>1, <3>1 DEF IngestionInv, ListsInv, BaselinePrecedes, lists
  <2>3. Listed(t)'
    <3>1. handler = "ingest" => baseline'[e] = last
      BY <1>1 DEF IngestionInv, TypeOK
    <3> QED
      BY <1>1, <1>3, <1>4, <1>7, <3>1 DEF IngestionInv, ListsInv, Listed, lists
  <2>4. ASSUME NEW v \in Workers, v # w PROVE Listed(th[v])'
    <3>1. PICK u : u = th[v]
      OBVIOUS
    <3>2. /\ u = th'[v] /\ Listed(u)
          /\ u.pc # "idle" => u.event \in Events /\ u.event # e
      BY <1>3, <1>5, <2>4, <3>1, ThreadFacts DEF At
    <3>3. Listed(u)'
      BY <1>3, <2>1, <3>2 DEF Listed, lists
    <3> QED
      BY <3>2, <3>3
  <2> QED
    BY <1>3, <1>5, <2>2, <2>3, <2>4 DEF IngestionInv, ListsInv, FileIsPrefix, lists
<1>12. SavesInv'
  <2> SUFFICES ASSUME ~overlapped'
               PROVE  /\ answered' \subseteq ToSet(file'.events)
                      /\ \A v, x \in Workers : (~At(v, "idle")' /\ ~At(x, "idle")') => v = x
                      /\ \A v \in Workers : Saved(th[v])'
    BY DEF SavesInv, AnsweredIsPersisted
  <2>1. ~overlapped /\ \A v \in Workers : At(v, "idle")
    BY <1>3
  <2>2. \A v \in Workers : v # w => th'[v].pc = "idle"
    BY <1>5, <2>1 DEF At
  <2>3. Saved(t)'
    BY <1>1, <1>4 DEF Saved, Routing
  <2>4. ASSUME NEW v \in Workers, v # w PROVE Saved(th[v])'
    BY <2>2, <2>4 DEF Saved, Routing
  <2> QED
    BY <1>3, <1>5, <2>1, <2>2, <2>3, <2>4 DEF IngestionInv, SavesInv, AnsweredIsPersisted, At
<1>13. CallsInv'
  <2>1. UNCHANGED <<delivered, late, lost>>
    BY <1>3 DEF outside, calls
  <2>2. \A q : Untouched(q) => Untouched(q)'
    BY <2>1 DEF Untouched
  <2>3. \A q \in Routes : q.event \notin accepted' => Untouched(q)'
    BY <1>3, <2>2 DEF IngestionInv, CallsInv
  <2>4. \A q \in Left(t) : Untouched(q)
    BY <1>1, <1>3, <1>4, RouteFacts, RoutesFacts DEF IngestionInv, CallsInv, Left
  <2>5. (\A v \in Workers : ~At(v, "idle") => \A q \in Left(th[v]) :
          Untouched(q) \/ (At(v, "call") /\ q = Current(v)))'
    BY <1>5, <1>6, <2>2, <2>4 DEF IngestionInv, CallsInv, At, Current
  <2>6. (\A v \in Workers : At(v, "call") =>
          /\ delivered[Current(v)] + late[Current(v)] <= lost[Current(v)]
          /\ lost[Current(v)] < th[v].attempt)'
    <3> SUFFICES ASSUME NEW v \in Workers, At(v, "call")'
                 PROVE  (/\ delivered[Current(v)] + late[Current(v)] <= lost[Current(v)]
                         /\ lost[Current(v)] < th[v].attempt)'
      OBVIOUS
    <3>1. th'[v] = th[v] /\ At(v, "call")
      BY <1>1, <1>4, <1>5 DEF At
    <3> QED
      BY <2>1, <3>1 DEF IngestionInv, CallsInv, At, Current
  <2>7. (\A q \in Routes :
           delivered[q] + late[q] <= Retries /\ delivered[q] + late[q] <= 1 + lost[q])'
    BY <2>1 DEF IngestionInv, CallsInv
  <2> QED
    BY <2>3, <2>5, <2>6, <2>7 DEF CallsInv
<1>14. OutcomesInv'
  <2>1. UNCHANGED <<raw, delivered, gaveUp, skipped, answered, routing_failures, crashes>>
    BY <1>3 DEF lists, outside, calls, counters, bounds
  <2>2. \A v \in Workers : ~At(v, "idle") => ~At(v, "idle")' /\ th'[v] = th[v]
    BY <1>3, <1>5 DEF At
  <2>3. RoutesAccounted'
    BY <2>1, <2>2 DEF IngestionInv, OutcomesInv, OutcomesAccounted, RoutesAccounted
  <2>4. CountersMatchOutcomes'
    BY <2>1 DEF IngestionInv, OutcomesInv, OutcomesAccounted, CountersMatchOutcomes
  <2>5. Left(t) = RoutesOf(e)
    BY <1>1, <1>4 DEF Left, Storing
  <2>6. (\A v \in Workers : (~At(v, "idle") /\ th[v].handler = "ingest") =>
          \A q \in RoutesOf(th[v].event) \ Left(th[v]) :
            delivered[q] > 0 \/ q \in gaveUp \union skipped)'
    BY <1>4, <1>5, <1>6, <2>1, <2>5 DEF IngestionInv, OutcomesInv
  <2>7. \A q \in gaveUp' : q.event \in accepted' /\ q.event # e
    BY <1>3, <2>1 DEF IngestionInv, OutcomesInv
  <2>8. ASSUME NEW v \in Workers, ~At(v, "idle")'
        PROVE  (Failed(th[v].event) <=> th[v].failures > 0 \/ At(v, "record_failed"))'
    <3>1. CASE v = w
      BY <1>1, <1>4, <1>5, <2>7, <3>1 DEF At, Failed
    <3>2. CASE v # w
      BY <1>6, <2>1, <2>8, <3>2 DEF IngestionInv, OutcomesInv, At, Failed
    <3> QED
      BY <3>1, <3>2
  <2> QED
    BY <2>3, <2>4, <2>6, <2>7, <2>8 DEF OutcomesInv, OutcomesAccounted
<1> QED
  BY <1>8, <1>9, <1>10, <1>11, <1>12, <1>13, <1>14 DEF IngestionInv

\* The process dies and starts again from state.json: the routes of the requests in
\* progress are cut off, and the calls under way may still be executed.
LEMMA CrashStep ==
  ASSUME IngestionInv, CrashAndRestart
  PROVE  IngestionInv'
<1> DEFINE busy == {w \in Workers : ~At(w, "idle")}
           open == {Current(w) : w \in {v \in busy : At(v, "call")}}
<1>1. PICK cut \in SUBSET open :
        /\ late' = [r \in Routes |-> late[r] + (IF r \in cut THEN 1 ELSE 0)]
        /\ lost' = [r \in Routes |-> lost[r] + (IF r \in cut THEN 1 ELSE 0)]
  BY DEF CrashAndRestart
<1>2. /\ crashes' = crashes + 1 /\ th' = [w \in Workers |-> Idle]
      /\ \A w \in Workers : th'[w] = Idle
      /\ raw' = file.raw /\ events' = file.events
      /\ last' = IF file.raw = << >> THEN Nil ELSE Last(file.raw)
      /\ forwarded_events' = 0 /\ routing_failures' = 0
      /\ skipped' = skipped \union UNION {RoutesOf(th[w].event) : w \in busy}
      /\ UNCHANGED <<file, portfolio, delivered, ledger, accepted, answered, baseline,
                     gaveUp, overlapped, faults>>
  BY DEF CrashAndRestart, LoadState, Skip
<1> HIDE DEF busy, open
<1>3. /\ file.raw \in Seq(Events) /\ file.events \in Seq(Events) /\ raw \in Seq(Events)
      /\ events \in Seq(Events) /\ IsPrefix(file.raw, raw) /\ IsPrefix(file.events, events)
  BY DEF IngestionInv, TypeOK, State, ListsInv, FileIsPrefix
<1>4. /\ Len(file.raw) \in Nat /\ Len(raw) \in Nat /\ Len(file.raw) <= Len(raw)
      /\ \A i \in 1..Len(file.raw) : file.raw[i] = raw[i]
  BY <1>3, PrefixFacts
<1>5. ToSet(file.raw) \subseteq ToSet(raw)
  BY <1>3, PrefixSet
<1>6. last' \in ToSet(file.raw) \union {Nil} /\ last' \in Events \union {Nil}
  <2>1. CASE file.raw = << >>
    BY <1>2, <2>1
  <2>2. CASE file.raw # << >>
    <3>0. Len(file.raw) \in 1..Len(file.raw)
      BY <1>3, <2>2
    <3>1. Last(file.raw) = file.raw[Len(file.raw)] /\ Len(file.raw) \in 1..Len(file.raw)
      BY <3>0 DEF Last
    <3>2. Last(file.raw) \in ToSet(file.raw) /\ Last(file.raw) \in Events
      <4>1. file.raw \in Seq(Events)
        BY <1>3
      <4>2. \A y : y \in ToSet(file.raw) <=> \E i \in 1..Len(file.raw) : file.raw[i] = y
        BY <4>1, ToSetFacts
      <4>3. ToSet(file.raw) \subseteq Events
        BY <4>1, ToSetFacts
      <4> QED
        BY Zenon, <3>1, <4>2, <4>3
    <3> QED
      BY <1>2, <2>2, <3>2
  <2> QED
    BY <2>1, <2>2
<1>7. \A r \in cut : /\ r \in Routes /\ r.event \in accepted
                     /\ delivered[r] + late[r] <= lost[r] /\ lost[r] < Retries
  <2> SUFFICES ASSUME NEW w \in Workers, At(w, "call")
               PROVE  /\ Current(w) \in Routes /\ Current(w).event \in accepted
                      /\ delivered[Current(w)] + late[Current(w)] <= lost[Current(w)]
                      /\ lost[Current(w)] < Retries
    BY DEF open, busy
  <2> QED
    BY CallFacts, ThreadFacts
<1>8. /\ late \in [Routes -> Nat] /\ lost \in [Routes -> Nat] /\ delivered \in [Routes -> Nat]
      /\ \A r \in Routes : /\ delivered[r] \in Nat /\ late[r] \in Nat /\ lost[r] \in Nat
                           /\ late'[r] = IF r \in cut THEN late[r] + 1 ELSE late[r]
                           /\ lost'[r] = IF r \in cut THEN lost[r] + 1 ELSE lost[r]
      /\ late' \in [Routes -> Nat] /\ lost' \in [Routes -> Nat]
  <2>1. late \in [Routes -> Nat] /\ lost \in [Routes -> Nat] /\ delivered \in [Routes -> Nat]
    BY DEF IngestionInv, TypeOK
  <2>2. \A r \in Routes : /\ delivered[r] \in Nat /\ late[r] \in Nat /\ lost[r] \in Nat
                          /\ late'[r] = IF r \in cut THEN late[r] + 1 ELSE late[r]
                          /\ lost'[r] = IF r \in cut THEN lost[r] + 1 ELSE lost[r]
    BY <1>1, <2>1
  <2>3. late' \in [Routes -> Nat] /\ lost' \in [Routes -> Nat]
    BY <1>1, <2>1
  <2> QED
    BY <2>1, <2>2, <2>3
<1>9. \A w \in busy : RoutesOf(th[w].event) \subseteq Routes
  BY ThreadFacts, RoutesFacts DEF busy
<1>10. TypeOK'
  <2>1. skipped' \subseteq Routes
    BY <1>2, <1>9 DEF IngestionInv, TypeOK
  <2>2. th' \in [Workers -> Thread]
    BY <1>2, IdleFacts
  <2>3. crashes' \in Nat
    BY <1>2 DEF IngestionInv, TypeOK
  <2> QED
    BY <1>2, <1>3, <1>6, <1>8, <2>1, <2>2, <2>3 DEF IngestionInv, TypeOK
<1>11. EventsApart' /\ \A v \in Workers : Placed(th[v])'
  BY <1>2, IdleFacts DEF EventsApart, At
<1>12. ListsInv'
  <2>1. FileIsPrefix'
    BY <1>2, <1>3, PrefixSelf DEF FileIsPrefix
  <2>2. BaselinePrecedes'
    <3> SUFFICES ASSUME NEW j \in 1..Len(file.raw), baseline[file.raw[j]] # Nil
                 PROVE  \E i \in 1..(j - 1) : file.raw[i] = baseline[file.raw[j]]
      BY <1>2 DEF BaselinePrecedes
    <3>1. j \in 1..Len(raw) /\ raw[j] = file.raw[j]
      BY <1>4
    <3>2. PICK i \in 1..(j - 1) : raw[i] = baseline[raw[j]]
      BY <3>1 DEF IngestionInv, ListsInv, BaselinePrecedes
    <3>3. file.raw[i] = raw[i]
      BY <1>4, <3>2
    <3> QED
      BY <3>1, <3>2, <3>3
  <2>3. \A v \in Workers : Listed(th[v])'
    BY <1>2, IdleFacts
  <2> QED
    BY <1>2, <1>5, <1>6, <2>1, <2>2, <2>3 DEF IngestionInv, ListsInv
<1>13. SavesInv'
  BY <1>2, IdleFacts DEF IngestionInv, SavesInv, AnsweredIsPersisted, At
<1>14. CallsInv'
  <2>1. \A r \in Routes : r.event \notin accepted' => Untouched(r)'
    BY <1>2, <1>7, <1>8 DEF IngestionInv, CallsInv, Untouched
  <2>2. \A v \in Workers : At(v, "idle")'
    BY <1>2, IdleFacts DEF At
  <2>3. ASSUME NEW r \in Routes
        PROVE  delivered'[r] + late'[r] <= Retries /\ delivered'[r] + late'[r] <= 1 + lost'[r]
    <3>1. delivered[r] + late[r] <= Retries /\ delivered[r] + late[r] <= 1 + lost[r]
          /\ delivered[r] \in Nat /\ late[r] \in Nat /\ lost[r] \in Nat /\ Retries \in Nat
      BY <1>8, RetriesAssumption DEF IngestionInv, CallsInv
    <3>2. CASE r \in cut
      BY <1>2, <1>7, <1>8, <3>1, <3>2
    <3>3. CASE r \notin cut
      BY <1>2, <1>8, <3>1, <3>3
    <3> QED
      BY <3>2, <3>3
  <2> QED
    BY <2>1, <2>2, <2>3 DEF CallsInv, At
<1>15. OutcomesInv'
  <2>1. RoutesAccounted'
    <3> SUFFICES ASSUME NEW j \in DOMAIN file.raw, NEW r \in RoutesOf(file.raw[j])
                 PROVE  delivered[r] > 0 \/ r \in gaveUp \union skipped'
      BY <1>2 DEF RoutesAccounted
    <3>0. DOMAIN file.raw = 1..Len(file.raw) /\ DOMAIN raw = 1..Len(raw)
      BY <1>3
    <3>1. j \in DOMAIN raw /\ raw[j] = file.raw[j]
      BY <1>4, <3>0
    <3>2. \/ delivered[r] > 0 \/ r \in gaveUp \union skipped
          \/ \E w \in Workers : ~At(w, "idle") /\ th[w].event = raw[j]
      BY <3>1 DEF IngestionInv, OutcomesInv, OutcomesAccounted, RoutesAccounted
    <3>3. ASSUME NEW w \in Workers, ~At(w, "idle"), th[w].event = raw[j] PROVE r \in skipped'
      BY <1>2, <3>1, <3>3 DEF busy
    <3> QED
      BY <1>2, <3>2, <3>3
  <2>2. CountersMatchOutcomes'
    <3>1. crashes' # 0
      BY <1>2 DEF IngestionInv, TypeOK
    <3> QED
      BY <3>1 DEF CountersMatchOutcomes
  <2>3. \A v \in Workers : At(v, "idle")'
    BY <1>2, IdleFacts DEF At
  <2> QED
    BY <1>2, <2>1, <2>2, <2>3 DEF IngestionInv, OutcomesInv, OutcomesAccounted
<1> QED
  BY <1>10, <1>11, <1>12, <1>13, <1>14, <1>15 DEF IngestionInv

\* A portfolio is set or lost: only calls to come are affected.
LEMMA SetPortfolioStep ==
  ASSUME IngestionInv, SetPortfolio \/ LosePortfolio \/ UNCHANGED vars
  PROVE  IngestionInv'
<1>1. /\ UNCHANGED <<th, raw, events, last, file, forwarded_events, routing_failures,
                     delivered, late, accepted, answered, baseline, lost, gaveUp, skipped,
                     overlapped, faults, crashes>>
      /\ portfolio' \in BOOLEAN
  BY DEF SetPortfolio, LosePortfolio, vars, lists, counters, outside, calls, observers, bounds,
         IngestionInv, TypeOK
<1>2. TypeOK' /\ EventsApart' /\ \A v \in Workers : Placed(th[v])'
  BY <1>1 DEF IngestionInv, TypeOK, EventsApart, At
<1>3. ListsInv' /\ SavesInv'
  BY <1>1 DEF IngestionInv, ListsInv, SavesInv, FileIsPrefix, BaselinePrecedes, Listed, Saved,
              AnsweredIsPersisted, At
<1>4. CallsInv'
  BY <1>1 DEF IngestionInv, CallsInv, Untouched, At, Current
<1>5. OutcomesInv'
  BY <1>1 DEF IngestionInv, OutcomesInv, OutcomesAccounted, RoutesAccounted,
              CountersMatchOutcomes, Failed, At
<1> QED
  BY <1>2, <1>3, <1>4, <1>5 DEF IngestionInv

-----------------------------------------------------------------------------
(* The theorems.                                                           *)

\* A service with nothing stored and nothing routed.
LEMMA InitInv == Init => IngestionInv
<1> SUFFICES ASSUME Init PROVE IngestionInv
  OBVIOUS
<1>1. Idle \in Thread /\ Idle.pc = "idle" /\ Placed(Idle) /\ Listed(Idle) /\ Saved(Idle)
  <2>1. 1 \in 1..Retries
    BY RetriesAssumption
  <2> QED
    BY <2>1 DEF Idle, Thread, Placed, Listed, Saved, Storing, Routing, Stages
<1>2. \A w \in Workers : th[w] = Idle
  BY DEF Init
<1>3. /\ raw = << >> /\ events = << >> /\ last = Nil /\ file.raw = << >> /\ file.events = << >>
      /\ raw \in Seq(Events) /\ events \in Seq(Events) /\ file \in State
      /\ Len(raw) = 0 /\ DOMAIN raw = {} /\ ToSet(raw) = {}
  BY DEF Init, Empty, State, ToSet
<1>4. /\ \A r \in Routes : delivered[r] = 0 /\ late[r] = 0 /\ lost[r] = 0
      /\ delivered \in [Routes -> Nat] /\ late \in [Routes -> Nat] /\ lost \in [Routes -> Nat]
  BY DEF Init
<1>5. TypeOK
  BY <1>1, <1>3, <1>4, FS_EmptySet DEF Init, TypeOK
<1>6. EventsApart /\ \A v \in Workers : Placed(th[v])
  BY <1>1, <1>2 DEF EventsApart, At
<1>7. ListsInv
  <2>1. FileIsPrefix
    BY <1>3, PrefixSelf DEF FileIsPrefix
  <2>2. BaselinePrecedes
    BY <1>3 DEF BaselinePrecedes
  <2> QED
    BY <1>1, <1>2, <1>3, <2>1, <2>2 DEF ListsInv
<1>8. SavesInv
  BY <1>1, <1>2 DEF Init, SavesInv, AnsweredIsPersisted, At
<1>9. CallsInv
  <2>1. Retries \in Nat /\ 0 <= Retries
    BY RetriesAssumption
  <2> QED
    BY <1>1, <1>2, <1>4, <2>1 DEF CallsInv, Untouched, At
<1>10. OutcomesInv
  <2>1. RoutesAccounted
    BY <1>3 DEF RoutesAccounted
  <2>2. CountersMatchOutcomes
    <3>1. {e \in answered : \E r \in gaveUp : r.event = e} = {}
      BY DEF Init
    <3> QED
      BY <3>1, FS_EmptySet DEF Init, CountersMatchOutcomes
  <2> QED
    BY <1>1, <1>2, <2>1, <2>2 DEF Init, OutcomesInv, OutcomesAccounted, At
<1> QED
  BY <1>5, <1>6, <1>7, <1>8, <1>9, <1>10 DEF IngestionInv

\* Every step keeps the inductive invariant.
LEMMA NextInv == IngestionInv /\ [Next]_vars => IngestionInv'
<1> SUFFICES ASSUME IngestionInv, [Next]_vars PROVE IngestionInv'
  OBVIOUS
<1>1. ASSUME NEW w \in Workers, Receive(w) \/ CallSucceeds(w) \/ CallFails(w) PROVE IngestionInv'
  BY <1>1, ReceiveStep, CallSucceedsStep, CallFailsStep
<1>2. ASSUME NEW w \in Workers, OwnStep(w) PROVE IngestionInv'
  BY <1>2, AppendRawStep, AppendEventStep, SetLastStep, SnapshotStep, ReplaceFileStep,
     SaveFailsStep, RecordStep, LookupStep, RecordOutcomeStep, FinishStep DEF OwnStep
<1>3. ASSUME NEW r \in Routes, ExecuteLate(r) PROVE IngestionInv'
  BY <1>3, ExecuteLateStep
<1>4. CASE SetPortfolio \/ LosePortfolio \/ UNCHANGED vars
  BY <1>4, SetPortfolioStep
<1>5. CASE CrashAndRestart
  BY <1>5, CrashStep
<1> QED
  BY <1>1, <1>2, <1>3, <1>4, <1>5 DEF Next

\* However many threads ingest at once, and whatever saves fail and processes die,
\* state.json is a prefix of the lists that IngestionService holds, a window looks
\* back to an earlier message, and the threads in progress keep what follows true.
THEOREM IngestionInvariant == Spec => []IngestionInv
  BY InitInv, NextInv, PTL DEF Spec

\* As long as no two requests overlap, the event of every answered request is in
\* state.json: ingest_message answers after _save_state and no later save loses it.
THEOREM AnswersArePersisted == Spec => []AnsweredIsPersisted
<1>1. IngestionInv => AnsweredIsPersisted
  BY DEF IngestionInv, SavesInv
<1> QED
  BY <1>1, IngestionInvariant, PTL

\* A peer executes a call at most as often as route_with_retries has attempts, and
\* more than once only after a call that timed out was executed all the same.
THEOREM DuplicationIsBounded == Spec => []BoundedDuplication
<1>1. IngestionInv => BoundedDuplication
  <2> SUFFICES ASSUME IngestionInv, NEW r \in Routes
               PROVE  delivered[r] + late[r] <= Retries /\ delivered[r] <= 1 + lost[r]
    BY DEF BoundedDuplication
  <2>1. delivered[r] \in Nat /\ late[r] \in Nat /\ lost[r] \in Nat
    BY DEF IngestionInv, TypeOK
  <2> QED
    BY <2>1 DEF IngestionInv, CallsInv
<1> QED
  BY <1>1, IngestionInvariant, PTL

\* Every route of every message that the service holds was executed, given up after
\* the last attempt, or cut off by a failed lookup, a failed save or a crash, and
\* routing_failures counts the answered messages with a route given up.
THEOREM OutcomesAreAccounted == Spec => []OutcomesAccounted
<1>1. IngestionInv => OutcomesAccounted
  BY DEF IngestionInv, OutcomesInv
<1> QED
  BY <1>1, IngestionInvariant, PTL

-----------------------------------------------------------------------------
(***************************************************************************)
(* The pipeline, with its two peers and their threads.                     *)
(***************************************************************************)

-----------------------------------------------------------------------------
(* Routes, deques and positions.                                           *)

\* With one peer behind each capability an event has one route at each stage.
LEMMA TheFacts ==
  ASSUME NEW e \in Events
  PROVE  /\ \A s \in Stages : /\ The(s, e) \in RoutesOf(e) /\ The(s, e) \in Routes
                              /\ The(s, e).event = e /\ The(s, e).stage = s
         /\ \A r \in RoutesOf(e) : r = The(r.stage, e)
<1>1. ASSUME NEW s \in Stages PROVE ToSet(Providers(s)) = {Head(Providers(s))}
  <2>1. Providers(s) \in Seq(Peers) /\ Len(Providers(s)) = 1
    BY <1>1, ProviderFacts, PeersAssumption DEF Providers
  <2>2. \A x : x \in ToSet(Providers(s)) <=> \E i \in 1..Len(Providers(s)) : Providers(s)[i] = x
    BY <2>1, ToSetFacts
  <2>3. Head(Providers(s)) = Providers(s)[1]
    BY <2>1
  <2> QED
    BY <2>1, <2>2, <2>3
<1>2. \A s \in Stages : The(s, e) \in RoutesOf(e)
  BY <1>1, RouteFacts DEF The
<1>3. \A r \in RoutesOf(e) : r = The(r.stage, e)
  BY <1>1, RouteFacts DEF The
<1> QED
  BY <1>2, <1>3, RoutesFacts DEF The, Route

\* Some route of e at stage s was given up and executed late.
LEMMA LostFacts ==
  ASSUME NEW e \in Events, NEW s \in Stages
  PROVE  Lost(s, e) <=> lost[The(s, e)] > 0
  BY TheFacts DEF Lost

\* Every route is the one of its event and stage.
LEMMA RouteIsThe ==
  ASSUME NEW r \in Routes
  PROVE  r.event \in Events /\ r = The(r.stage, r.event)
  BY RoutesFacts, TheFacts

\* A deque stays one.
LEMMA AppendMaxSeq ==
  ASSUME NEW S, NEW h \in Seq(S), NEW x \in S
  PROVE  AppendMax(h, x) \in Seq(S)
<1>1. Append(h, x) \in Seq(S)
  OBVIOUS
<1>2. h # << >> => Append(Tail(h), x) \in Seq(S)
  OBVIOUS
<1>3. Len(h) < history_window \/ h # << >>
  <2>1. CASE h = << >>
    BY <2>1, WindowAssumption
  <2> QED
    BY <2>1
<1> QED
  BY <1>1, <1>2, <1>3 DEF AppendMax

\* A deque t that x was appended to, element by element.
LEMMA AppendMaxCases ==
  ASSUME NEW S, NEW h \in Seq(S), Len(h) <= history_window, NEW x \in S,
         NEW t \in Seq(S), t = AppendMax(h, x)
  PROVE  \/ /\ Len(t) = Len(h) + 1 /\ Len(h) < history_window /\ t[Len(t)] = x
            /\ \A i \in 1..Len(h) : t[i] = h[i]
         \/ /\ Len(t) = Len(h) /\ Len(h) = history_window /\ t[Len(t)] = x
            /\ \A i \in 1..(Len(h) - 1) : t[i] = h[i + 1]
<1>1. Len(h) \in Nat /\ history_window \in Nat /\ history_window >= 1
  BY WindowAssumption
<1>2. CASE Len(h) < history_window
  <2>1. t = Append(h, x)
    BY <1>2 DEF AppendMax
  <2> QED
    BY <1>2, <2>1
<1>3. CASE ~(Len(h) < history_window)
  <2>1. t = Append(Tail(h), x) /\ Len(h) = history_window /\ h # << >>
    BY <1>1, <1>3 DEF AppendMax
  <2>2. /\ Tail(h) \in Seq(S) /\ Len(Tail(h)) = Len(h) - 1
        /\ \A i \in 1..Len(Tail(h)) : Tail(h)[i] = h[i + 1]
    BY <2>1
  <2>3. /\ Len(t) = Len(h) /\ t[Len(t)] = x
        /\ \A i \in 1..(Len(h) - 1) : t[i] = h[i + 1]
    BY <1>1, <2>1, <2>2
  <2> QED
    BY <2>1, <2>3
<1> QED
  BY <1>2, <1>3

\* What the deque holds.
LEMMA AppendMaxFacts ==
  ASSUME NEW S, NEW h \in Seq(S), Len(h) <= history_window, NEW x \in S,
         NEW t \in Seq(S), t = AppendMax(h, x)
  PROVE  /\ Len(t) \in 1..history_window /\ Len(t) <= history_window
         /\ t[Len(t)] = x /\ ToSet(t) \subseteq ToSet(h) \union {x}
<1>1. Len(h) \in Nat /\ history_window \in Nat /\ history_window >= 1
  BY WindowAssumption
<1>2. \/ /\ Len(t) = Len(h) + 1 /\ Len(h) < history_window /\ t[Len(t)] = x
         /\ \A i \in 1..Len(h) : t[i] = h[i]
      \/ /\ Len(t) = Len(h) /\ Len(h) = history_window /\ t[Len(t)] = x
         /\ \A i \in 1..(Len(h) - 1) : t[i] = h[i + 1]
  BY AppendMaxCases
<1>3. \A y : y \in ToSet(t) <=> \E i \in 1..Len(t) : t[i] = y
  BY ToSetFacts
<1>4. \A y : y \in ToSet(h) <=> \E i \in 1..Len(h) : h[i] = y
  BY ToSetFacts
<1>5. ASSUME NEW i \in 1..Len(t) PROVE t[i] \in ToSet(h) \union {x}
  <2>1. CASE i = Len(t)
    BY <1>2, <2>1
  <2>2. CASE i # Len(t)
    <3>1. i \in 1..Len(h) /\ i + 1 \in 1..(Len(h) + 1) /\ (Len(t) = Len(h) => i + 1 \in 1..Len(h) /\ i \in 1..(Len(h) - 1))
      BY <1>1, <1>2, <2>2
    <3> QED
      BY <1>2, <1>4, <3>1
  <2> QED
    BY <2>1, <2>2
<1>6. Len(t) \in 1..history_window /\ Len(t) <= history_window
  BY <1>1, <1>2
<1> QED
  BY <1>2, <1>3, <1>5, <1>6

\* An older element is one place further back until it falls out.
LEMMA AppendMaxBack ==
  ASSUME NEW S, NEW h \in Seq(S), Len(h) <= history_window, NEW x \in S,
         NEW t \in Seq(S), t = AppendMax(h, x),
         NEW p \in 1..Len(h), Len(h) - p + 1 < history_window
  PROVE  \E q \in 1..Len(t) : t[q] = h[p] /\ Len(t) - q = Len(h) - p + 1
<1>1. Len(h) \in Nat /\ history_window \in Nat /\ history_window >= 1
  BY WindowAssumption
<1>2. \/ /\ Len(t) = Len(h) + 1 /\ Len(h) < history_window /\ t[Len(t)] = x
         /\ \A i \in 1..Len(h) : t[i] = h[i]
      \/ /\ Len(t) = Len(h) /\ Len(h) = history_window /\ t[Len(t)] = x
         /\ \A i \in 1..(Len(h) - 1) : t[i] = h[i + 1]
  BY AppendMaxCases
<1>3. CASE Len(t) = Len(h) + 1
  <2>1. p \in 1..Len(t) /\ t[p] = h[p] /\ Len(t) - p = Len(h) - p + 1
    BY <1>1, <1>2, <1>3
  <2> QED
    BY <2>1
<1>4. CASE Len(t) = Len(h) /\ Len(h) = history_window
  <2>1. p - 1 \in 1..Len(t) /\ p - 1 \in 1..(Len(h) - 1) /\ (p - 1) + 1 = p
        /\ Len(t) - (p - 1) = Len(h) - p + 1
    BY <1>1, <1>4
  <2>2. t[p - 1] = h[(p - 1) + 1]
    BY <1>1, <1>2, <1>4, <2>1
  <2> QED
    BY <2>1, <2>2
<1> QED
  BY <1>2, <1>3, <1>4

\* Where a message stands in a list that holds it once.
LEMMA PositionFacts ==
  ASSUME raw \in Seq(Events), IsInjective(raw), NEW i \in 1..Len(raw)
  PROVE  Position(raw[i]) = i
<1>1. \A j, k \in DOMAIN raw : raw[j] = raw[k] => j = k
  BY DEF IsInjective
<1>2. DOMAIN raw = 1..Len(raw)
  OBVIOUS
<1> QED
  BY <1>1, <1>2 DEF Position

-----------------------------------------------------------------------------
(* The pipeline is an ingestion peer.                                      *)

\* A step of the pipeline is a step of the ingestion peer or none of it.
LEMMA PipelineStep == [PipelineNext]_allVars => [Next]_vars
<1> SUFFICES ASSUME [PipelineNext]_allVars PROVE Next \/ UNCHANGED vars
  OBVIOUS
<1>1. CASE UNCHANGED allVars
  BY <1>1 DEF allVars
<1>2. ASSUME NEW t \in PeerThreads, Ends(t) PROVE Next \/ UNCHANGED vars
  BY <1>2 DEF Ends, Next
<1>3. ASSUME NEW t \in PeerThreads, TakeCall(t) \/ TakeLate(t) \/ Portfolio(t)
      PROVE  Next \/ UNCHANGED vars
  BY <1>3 DEF TakeCall, TakeLate, Takes, Portfolio, Next
<1>4. ASSUME NEW t \in PeerThreads, Handler(t) PROVE Next \/ UNCHANGED vars
  <2>1. Ends(t) \/ UNCHANGED vars
    BY <1>4 DEF Handler, AppendFeatures, InsertAlert, DumpAlerts, DumpHistory, SaveBlob,
                AutoCompute, DumpEvents, DumpPortfolio, SaveRiskFile, HandlerFails
  <2> QED
    BY <1>2, <2>1
<1>5. ASSUME NEW w \in Workers, GiveUp(w) \/ ((Receive(w) \/ OwnStep(w)) /\ UNCHANGED peerVars)
      PROVE  Next
  BY <1>5 DEF GiveUp, Next
<1>6. CASE Crash \/ RestartAnomaly \/ RestartRisk
  BY <1>6 DEF Crash, RestartAnomaly, RestartRisk, Next
<1> QED
  BY <1>1, <1>3, <1>4, <1>5, <1>6 DEF PipelineNext

\* The pipeline implements the ingestion peer, so what is proved of that one, with
\* its peers left open, holds with the anomaly and the risk peer behind its calls.
THEOREM PipelineImplementsIngestion == PipelineSpec => Spec
<1>1. PipelineInit => Init
  BY DEF PipelineInit
<1> QED
  BY <1>1, PipelineStep, PTL DEF PipelineSpec, Spec

-----------------------------------------------------------------------------
(* What an ingestion step does to the state that the peers' depends on.    *)

\* What has happened once is not undone.
Grows ==
  /\ \A r \in Routes : delivered[r] <= delivered'[r] /\ lost[r] <= lost'[r]
  /\ gaveUp \subseteq gaveUp' /\ skipped \subseteq skipped'
  /\ overlapped => overlapped'

\* Thread w goes on with the event it has, or ends.
GoesOn(w) ==
  /\ ~At(w, "idle") /\ th'[w].pc # "append_raw"
  /\ th'[w].pc = "idle" \/ (th'[w].event = th[w].event /\ th'[w].handler = th[w].handler)
  /\ \A v \in Workers : v # w => th'[v] = th[v]
  /\ UNCHANGED <<accepted, overlapped, portfolio>>

\* A step of a thread that is not about calls.
LEMMA QuietStep ==
  ASSUME TypeOK, NEW w \in Workers,
         \/ AppendRaw(w) \/ AppendEvent(w) \/ SetLast(w)
         \/ SnapshotRaw(w) \/ SnapshotEvents(w) \/ ReplaceFile(w) \/ SaveFails(w) \/ Finish(w)
  PROVE  /\ GoesOn(w) /\ UNCHANGED <<delivered, late, lost, gaveUp>> /\ skipped \subseteq skipped'
         /\ (AppendRaw(w) \/ (raw' = raw /\ ~At(w, "append_raw")))
<1>1. th \in [Workers -> Thread]
  BY DEF TypeOK
<1>2. CASE AppendRaw(w)
  BY <1>1, <1>2 DEF AppendRaw, GoesOn, At, outside, calls, observers
<1>3. CASE AppendEvent(w)
  <2>1. PICK t : t = [th[w] EXCEPT !.pc = IF th[w].handler = "ingest" THEN "set_last" ELSE "snapshot_raw"]
    OBVIOUS
  <2>2. th' = [th EXCEPT ![w] = t] /\ t.event = th[w].event /\ t.handler = th[w].handler
        /\ t.pc # "append_raw"
    BY <1>1, <1>3, <2>1 DEF AppendEvent, Thread
  <2> QED
    BY <1>1, <1>3, <2>2 DEF AppendEvent, GoesOn, At, outside, calls, observers
<1>4. CASE SetLast(w)
  BY <1>1, <1>4 DEF SetLast, GoesOn, At, outside, calls, observers
<1>5. CASE SnapshotRaw(w)
  BY <1>1, <1>5 DEF SnapshotRaw, GoesOn, At, outside, calls, observers, lists
<1>6. CASE SnapshotEvents(w)
  BY <1>1, <1>6 DEF SnapshotEvents, GoesOn, At, outside, calls, observers, lists
<1>7. CASE ReplaceFile(w)
  BY <1>1, <1>7 DEF ReplaceFile, GoesOn, At, outside, calls, observers, lists
<1>8. CASE SaveFails(w) \/ Finish(w)
  BY <1>1, <1>8 DEF SaveFails, Finish, Skip, Idle, GoesOn, At, outside, calls, lists
<1> QED
  BY <1>2, <1>3, <1>4, <1>5, <1>6, <1>7, <1>8

\* The loop over peers keeps the event.
LEMMA WithTargetsShape ==
  ASSUME NEW t \in Thread, NEW rest, NEW u, u = WithTargets(t, rest)
  PROVE  u.event = t.event /\ u.handler = t.handler /\ u.pc \in {"call", "lookup", "finish"}
  BY DEF WithTargets, AtStage, Thread

\* The steps around the calls.
LEMMA AroundCalls ==
  ASSUME IngestionInv, NEW w \in Workers,
         Record(w) \/ Lookup(w) \/ RecordRouted(w) \/ RecordFailed(w)
  PROVE  /\ GoesOn(w) /\ UNCHANGED <<raw, delivered, late, lost, gaveUp>>
         /\ skipped \subseteq skipped' /\ ~At(w, "append_raw") /\ ~At(w, "call")
<1>1. th \in [Workers -> Thread] /\ th[w] \in Thread
  BY DEF IngestionInv, TypeOK
<1>2. /\ UNCHANGED <<raw, delivered, late, lost, gaveUp, accepted, overlapped, portfolio>>
      /\ skipped \subseteq skipped' /\ ~At(w, "append_raw") /\ ~At(w, "call") /\ ~At(w, "idle")
  <2>1. CASE Record(w)
    BY <2>1 DEF Record, At, lists, calls, observers
  <2>2. CASE Lookup(w)
    BY <2>2 DEF Lookup, Skip, At, lists, outside, calls
  <2>3. CASE RecordRouted(w)
    BY <2>3 DEF RecordRouted, At, lists, calls, observers
  <2>4. CASE RecordFailed(w)
    BY <2>4 DEF RecordFailed, At, lists, calls, observers
  <2> QED
    BY <2>1, <2>2, <2>3, <2>4
<1>3. \E t : /\ th' = [th EXCEPT ![w] = t] /\ t.event = th[w].event
             /\ t.handler = th[w].handler /\ t.pc \in {"call", "lookup", "finish"}
  <2>1. CASE Record(w)
    <3>1. PICK s : th' = [th EXCEPT ![w] = AtStage(th[w], s)]
      BY <1>1, <2>1 DEF Record
    <3>2. PICK t : t = AtStage(th[w], s)
      OBVIOUS
    <3>3. t.event = th[w].event /\ t.handler = th[w].handler /\ t.pc \in {"call", "lookup", "finish"}
      BY <1>1, <3>2 DEF AtStage, Thread
    <3> QED
      BY <3>1, <3>2, <3>3
  <2>2. CASE Lookup(w)
    <3>1. PICK rest : th' = [th EXCEPT ![w] = WithTargets(th[w], rest)]
      BY <1>1, <2>2 DEF Lookup
    <3>2. PICK t : t = WithTargets(th[w], rest)
      OBVIOUS
    <3> QED
      BY <1>1, <3>1, <3>2, WithTargetsShape
  <2>3. CASE RecordRouted(w)
    <3>1. PICK rest : th' = [th EXCEPT ![w] = WithTargets(th[w], rest)]
      BY <1>1, <2>3 DEF RecordRouted
    <3>2. PICK t : t = WithTargets(th[w], rest)
      OBVIOUS
    <3> QED
      BY <1>1, <3>1, <3>2, WithTargetsShape
  <2>4. CASE RecordFailed(w)
    <3>1. PICK u : u = [th[w] EXCEPT !.failures = th[w].failures + 1]
      OBVIOUS
    <3>2. u \in Thread /\ u.event = th[w].event /\ u.handler = th[w].handler
      <4>1. PICK n : n = th[w].failures + 1
        OBVIOUS
      <4>2. n \in Nat
        BY <1>1, <4>1 DEF Thread
      <4> QED
        BY <1>1, <3>1, <4>1, <4>2 DEF Thread
    <3>3. PICK rest : th' = [th EXCEPT ![w] = WithTargets(u, rest)]
      BY <1>1, <2>4, <3>1 DEF RecordFailed
    <3>4. PICK t : t = WithTargets(u, rest)
      OBVIOUS
    <3> QED
      BY <3>2, <3>3, <3>4, WithTargetsShape
  <2> QED
    BY <2>1, <2>2, <2>3, <2>4
<1> QED
  BY <1>1, <1>2, <1>3 DEF GoesOn, At

\* A failed attempt: it is tried again, or the route is given up.
LEMMA FailedCall ==
  ASSUME IngestionInv, NEW w \in Workers, CallFails(w), NEW c, c = Current(w)
  PROVE  /\ GoesOn(w) /\ UNCHANGED <<raw, delivered, skipped>> /\ gaveUp \subseteq gaveUp'
         /\ At(w, "call") /\ c \in Routes /\ c.event = th[w].event
         /\ \A r \in Routes : /\ r # c => late'[r] = late[r] /\ lost'[r] = lost[r]
                              /\ late'[r] - late[r] = lost'[r] - lost[r] /\ lost[r] <= lost'[r]
         /\ \/ th'[w].pc = "call" /\ th'[w].stage = th[w].stage
            \/ c \in gaveUp'
<1>1. PICK t : t = AttemptFailed(th[w])
  OBVIOUS
<1>2. th \in [Workers -> Thread] /\ th[w] \in Thread /\ At(w, "call")
  BY DEF IngestionInv, TypeOK, CallFails
<1>3. /\ t.event = th[w].event /\ t.handler = th[w].handler /\ t.pc \in {"call", "record_failed"}
      /\ t.stage = th[w].stage
  BY <1>1, <1>2 DEF AttemptFailed, Thread, At
<1>4. th' = [th EXCEPT ![w] = t]
  BY <1>1, <1>2 DEF CallFails
<1>5. /\ UNCHANGED <<raw, delivered, skipped, accepted, overlapped, portfolio>>
      /\ gaveUp' = IF t.pc = "record_failed" THEN gaveUp \union {c} ELSE gaveUp
  BY <1>2, <1>4 DEF CallFails, lists
<1>6. c \in Routes /\ c.event = th[w].event /\ Current(w) = CurrentOf(th[w])
  <2>1. Current(w) = CurrentOf(th[w])
    BY DEF Current, CurrentOf
  <2> QED
    BY <1>2, <2>1, CallFacts
<1>7. ASSUME NEW r \in Routes
      PROVE  /\ r # c => late'[r] = late[r] /\ lost'[r] = lost[r]
             /\ late'[r] - late[r] = lost'[r] - lost[r] /\ lost[r] <= lost'[r]
  <2>1. late \in [Routes -> Nat] /\ lost \in [Routes -> Nat]
    BY DEF IngestionInv, TypeOK
  <2>2. \/ late' = late /\ lost' = lost
        \/ late' = [late EXCEPT ![c] = late[c] + 1] /\ lost' = [lost EXCEPT ![c] = lost[c] + 1]
    BY <1>6, <2>1 DEF CallFails, Count
  <2>3. late[r] \in Nat /\ lost[r] \in Nat
    BY <2>1
  <2>4. CASE r = c
    <3>1. (late'[r] = late[r] /\ lost'[r] = lost[r])
          \/ (late'[r] = late[r] + 1 /\ lost'[r] = lost[r] + 1)
      BY <1>6, <2>1, <2>2, <2>4
    <3> QED
      BY <2>3, <2>4, <3>1
  <2>5. CASE r # c
    <3>1. late'[r] = late[r] /\ lost'[r] = lost[r]
      BY <2>1, <2>2, <2>5
    <3> QED
      BY <2>3, <3>1
  <2> QED
    BY <2>4, <2>5
<1>8. GoesOn(w)
  BY <1>2, <1>3, <1>4, <1>5 DEF GoesOn, At
<1> QED
  BY <1>2, <1>3, <1>4, <1>5, <1>6, <1>7, <1>8

\* Every step of a handler but the end of a call.
LEMMA OwnStepFacts ==
  ASSUME IngestionInv, NEW w \in Workers, OwnStep(w)
  PROVE  /\ GoesOn(w) /\ Grows /\ UNCHANGED <<delivered, late, lost>>
         /\ AppendRaw(w) \/ (raw' = raw /\ ~At(w, "append_raw"))
         /\ ~At(w, "call")
<1>1. \A r \in Routes : delivered[r] \in Nat /\ late[r] \in Nat /\ lost[r] \in Nat
  BY DEF IngestionInv, TypeOK
<1>2. CASE Record(w) \/ Lookup(w) \/ RecordRouted(w) \/ RecordFailed(w)
  <2>1. /\ GoesOn(w) /\ UNCHANGED <<raw, delivered, late, lost, gaveUp>>
        /\ skipped \subseteq skipped' /\ ~At(w, "append_raw") /\ ~At(w, "call")
    BY <1>2, AroundCalls
  <2> QED
    BY <1>1, <2>1 DEF Grows, GoesOn
<1>3. CASE \/ AppendRaw(w) \/ AppendEvent(w) \/ SetLast(w)
           \/ SnapshotRaw(w) \/ SnapshotEvents(w) \/ ReplaceFile(w) \/ SaveFails(w) \/ Finish(w)
  <2>1. /\ GoesOn(w) /\ UNCHANGED <<delivered, late, lost, gaveUp>> /\ skipped \subseteq skipped'
        /\ (AppendRaw(w) \/ (raw' = raw /\ ~At(w, "append_raw")))
    BY <1>3, QuietStep DEF IngestionInv
  <2>2. ~At(w, "call")
    BY <1>3 DEF At, AppendRaw, AppendEvent, SetLast, SnapshotRaw, SnapshotEvents, ReplaceFile,
                SaveFails, Finish
  <2> QED
    BY <1>1, <2>1, <2>2 DEF Grows, GoesOn
<1> QED
  BY <1>2, <1>3 DEF OwnStep

\* A call fails.
LEMMA CallFailsFacts ==
  ASSUME IngestionInv, NEW w \in Workers, CallFails(w), NEW c, c = Current(w)
  PROVE  /\ GoesOn(w) /\ Grows /\ UNCHANGED <<raw, delivered>> /\ At(w, "call") /\ c \in Routes
         /\ \A r \in Routes : r # c => late'[r] = late[r] /\ lost'[r] = lost[r]
         /\ \A r \in Routes : late[r] <= lost[r] => late'[r] <= lost'[r]
         /\ lost' # lost => lost'[c] > 0
         /\ \/ th'[w].pc = "call" /\ th'[w].stage = th[w].stage
            \/ c \in gaveUp'
<1>1. /\ GoesOn(w) /\ UNCHANGED <<raw, delivered, skipped>> /\ gaveUp \subseteq gaveUp'
      /\ At(w, "call") /\ c \in Routes
      /\ \A r \in Routes : /\ r # c => late'[r] = late[r] /\ lost'[r] = lost[r]
                           /\ late'[r] - late[r] = lost'[r] - lost[r] /\ lost[r] <= lost'[r]
      /\ \/ th'[w].pc = "call" /\ th'[w].stage = th[w].stage
         \/ c \in gaveUp'
  BY FailedCall
<1>2. /\ lost' \in [Routes -> Nat] /\ lost \in [Routes -> Nat]
      /\ \A r \in Routes : late'[r] \in Nat /\ late[r] \in Nat /\ delivered[r] \in Nat
  <2>1. IngestionInv'
    BY CallFailsStep
  <2> QED
    BY <2>1 DEF IngestionInv, TypeOK
<1>3. \A r \in Routes : late[r] <= lost[r] => late'[r] <= lost'[r]
  BY <1>1, <1>2
<1>4. ASSUME lost' # lost PROVE lost'[c] > 0
  <2>1. lost'[c] # lost[c]
    <3> SUFFICES ASSUME lost'[c] = lost[c] PROVE FALSE
      OBVIOUS
    <3>1. \A r \in Routes : lost'[r] = lost[r]
      BY <1>1
    <3> QED
      BY <1>2, <1>4, <3>1
  <2>2. lost'[c] \in Nat /\ lost[c] \in Nat /\ lost[c] <= lost'[c]
    BY <1>1, <1>2
  <2> QED
    BY <2>1, <2>2
<1>5. Grows
  BY <1>1, <1>2 DEF Grows, GoesOn
<1> QED
  BY <1>1, <1>3, <1>4, <1>5

\* The call succeeds.
LEMMA CallFactsOf ==
  ASSUME IngestionInv, NEW w \in Workers, CallSucceeds(w)
  PROVE  /\ GoesOn(w) /\ Grows /\ delivered' = Count(delivered, Current(w))
         /\ UNCHANGED <<raw, late, lost, gaveUp, skipped>> /\ At(w, "call")
<1>1. th \in [Workers -> Thread] /\ th[w] \in Thread /\ At(w, "call")
  BY DEF IngestionInv, TypeOK, CallSucceeds
<1>2. \E t : /\ th' = [th EXCEPT ![w] = t] /\ t.event = th[w].event /\ t.handler = th[w].handler
             /\ t.pc # "append_raw"
  <2>1. CASE th[w].stage = "compute_risk"
    <3>1. PICK rest : th' = [th EXCEPT ![w] = WithTargets(th[w], rest)]
      BY <1>1, <2>1 DEF CallSucceeds
    <3>2. PICK t : t = WithTargets(th[w], rest)
      OBVIOUS
    <3>3. t.event = th[w].event /\ t.handler = th[w].handler /\ t.pc # "append_raw"
      BY <1>1, <3>2, WithTargetsShape
    <3> QED
      BY <3>1, <3>2, <3>3
  <2>2. CASE th[w].stage # "compute_risk"
    <3>1. PICK t : t = [th[w] EXCEPT !.pc = "record_routed"]
      OBVIOUS
    <3>2. th' = [th EXCEPT ![w] = t]
      BY <1>1, <2>2, <3>1 DEF CallSucceeds
    <3>3. t.event = th[w].event /\ t.handler = th[w].handler /\ t.pc # "append_raw"
      BY <1>1, <3>1 DEF Thread
    <3> QED
      BY <3>2, <3>3
  <2> QED
    BY <2>1, <2>2
<1>3. /\ UNCHANGED <<raw, late, lost, gaveUp, skipped, accepted, overlapped, portfolio>>
      /\ delivered' = Count(delivered, Current(w))
  BY DEF CallSucceeds, lists, observers
<1>4. GoesOn(w)
  BY <1>1, <1>2, <1>3 DEF GoesOn, At
<1>5. \A r \in Routes : delivered[r] <= delivered'[r] /\ lost[r] <= lost'[r]
  <2>1. \A r \in Routes : delivered[r] \in Nat /\ lost[r] \in Nat
    BY DEF IngestionInv, TypeOK
  <2>2. \A r \in Routes : delivered'[r] = delivered[r] \/ delivered'[r] = delivered[r] + 1
    BY <1>3 DEF Count, IngestionInv, TypeOK
  <2> QED
    BY <1>3, <2>1, <2>2
<1> QED
  BY <1>1, <1>3, <1>4, <1>5 DEF Grows

\* A request begins.
LEMMA ReceiveFacts ==
  ASSUME IngestionInv, NEW w \in Workers, Receive(w)
  PROVE  /\ Grows /\ UNCHANGED <<raw, delivered, late, lost, gaveUp, skipped, portfolio>>
         /\ At(w, "idle") /\ th'[w].event \in Events /\ th'[w].event \notin accepted
         /\ th'[w].pc \in Storing /\ (th'[w].handler = "ingest" => th'[w].pc = "append_raw")
         /\ \A v \in Workers : v # w => th'[v] = th[v]
         /\ ~overlapped' => \A v \in Workers : v # w => At(v, "idle")
<1>1. PICK handler, e, location :
        /\ Begin(w, handler, e, location) /\ e \in Events
        /\ location \in Storing /\ (handler = "ingest" => location = "append_raw")
  BY DEF Receive, IngestMessage, StoreEvent, Storing
<1>2. /\ UNCHANGED <<raw, delivered, late, lost, gaveUp, skipped, portfolio>>
      /\ At(w, "idle") /\ e \notin accepted
      /\ overlapped' = (overlapped \/ \E v \in Workers : ~At(v, "idle"))
  BY <1>1 DEF Begin, lists, outside, calls
<1>3. th \in [Workers -> Thread] /\ th[w] \in Thread
      /\ \A r \in Routes : delivered[r] \in Nat /\ lost[r] \in Nat
  BY DEF IngestionInv, TypeOK
<1>4. PICK t : t = [th[w] EXCEPT !.pc = location, !.handler = handler, !.event = e]
  OBVIOUS
<1>5. th' = [th EXCEPT ![w] = t]
  BY <1>1, <1>3, <1>4 DEF Begin
<1>6. t.pc = location /\ t.handler = handler /\ t.event = e
  BY <1>3, <1>4 DEF Thread
<1>7. th'[w] = t /\ \A v \in Workers : v # w => th'[v] = th[v]
  BY <1>3, <1>5
<1>8. Grows
  <2>1. overlapped => overlapped'
    BY <1>2, Zenon
  <2> QED
    BY <1>2, <1>3, <2>1 DEF Grows
<1>9. ~overlapped' => \A v \in Workers : At(v, "idle")
  BY <1>2
<1> QED
  BY <1>1, <1>2, <1>6, <1>7, <1>8, <1>9

\* A peer executes a call late.
LEMMA LateFacts ==
  ASSUME IngestionInv, NEW r \in Routes, ExecuteLate(r)
  PROVE  /\ Grows /\ delivered' = Count(delivered, r) /\ late[r] > 0
         /\ \A q \in Routes : late'[q] <= late[q] /\ late'[q] \in Nat
         /\ UNCHANGED <<th, raw, lost, gaveUp, skipped, overlapped, accepted, portfolio>>
<1>1. /\ UNCHANGED <<th, raw, lost, gaveUp, skipped, overlapped, accepted, portfolio>>
      /\ delivered' = Count(delivered, r) /\ late' = [late EXCEPT ![r] = late[r] - 1]
      /\ late[r] > 0
  BY DEF ExecuteLate, lists, observers
<1>2. delivered \in [Routes -> Nat] /\ late \in [Routes -> Nat] /\ lost \in [Routes -> Nat]
  BY DEF IngestionInv, TypeOK
<1>3. \A q \in Routes : late'[q] <= late[q] /\ late'[q] \in Nat
  <2> SUFFICES ASSUME NEW q \in Routes PROVE late'[q] <= late[q] /\ late'[q] \in Nat
    OBVIOUS
  <2>1. late[q] \in Nat /\ late[r] \in Nat
    BY <1>2
  <2>2. CASE q = r
    <3>1. late'[q] = late[q] - 1
      BY <1>1, <1>2, <2>2
    <3> QED
      BY <1>1, <2>1, <2>2, <3>1
  <2>3. CASE q # r
    <3>1. late'[q] = late[q]
      BY <1>1, <1>2, <2>3
    <3> QED
      BY <2>1, <3>1
  <2> QED
    BY <2>2, <2>3
<1>4. \A q \in Routes : delivered[q] <= delivered'[q] /\ lost[q] <= lost'[q]
  <2>1. \A q \in Routes : delivered[q] \in Nat /\ lost[q] \in Nat
    BY <1>2
  <2>2. \A q \in Routes : delivered'[q] = delivered[q] \/ delivered'[q] = delivered[q] + 1
    BY <1>1, <1>2 DEF Count
  <2> QED
    BY <1>1, <2>1, <2>2
<1> QED
  BY <1>1, <1>3, <1>4 DEF Grows

\* The ingestion process dies: what its threads were calling can be executed late,
\* and all the routes of their events are cut off.
LEMMA CrashFacts ==
  ASSUME IngestionInv, CrashAndRestart
  PROVE  /\ Grows /\ raw' = file.raw /\ UNCHANGED <<delivered, gaveUp, overlapped, portfolio>>
         /\ \A w \in Workers : th'[w].pc = "idle"
         /\ \A r \in Routes : late[r] <= lost[r] => late'[r] <= lost'[r]
         /\ \A r \in Routes : lost'[r] # lost[r] => lost'[r] > 0
         /\ \A r \in Routes : late'[r] > 0 => late[r] > 0 \/ RoutesOf(r.event) \subseteq skipped'
<1>1. /\ raw' = file.raw /\ UNCHANGED <<delivered, gaveUp, overlapped, portfolio>>
      /\ \A w \in Workers : th'[w] = Idle
      /\ skipped' = skipped \union UNION {RoutesOf(th[w].event) : w \in {v \in Workers : ~At(v, "idle")}}
  BY DEF CrashAndRestart, LoadState, Skip
<1>2. PICK cut \in SUBSET {Current(w) : w \in {v \in {u \in Workers : ~At(u, "idle")} : At(v, "call")}} :
        /\ late' = [r \in Routes |-> late[r] + (IF r \in cut THEN 1 ELSE 0)]
        /\ lost' = [r \in Routes |-> lost[r] + (IF r \in cut THEN 1 ELSE 0)]
  BY DEF CrashAndRestart
<1>3. delivered \in [Routes -> Nat] /\ late \in [Routes -> Nat] /\ lost \in [Routes -> Nat]
  BY DEF IngestionInv, TypeOK
<1>4. ASSUME NEW r \in Routes
      PROVE  /\ lost[r] <= lost'[r] /\ (late[r] <= lost[r] => late'[r] <= lost'[r])
             /\ lost'[r] # lost[r] => lost'[r] > 0
             /\ late'[r] > 0 => late[r] > 0 \/ RoutesOf(r.event) \subseteq skipped'
  <2>1. late[r] \in Nat /\ lost[r] \in Nat
    BY <1>3
  <2>2. CASE r \in cut
    <3>1. late'[r] = late[r] + 1 /\ lost'[r] = lost[r] + 1
      BY <1>2, <2>2
    <3>2. PICK w \in Workers : At(w, "call") /\ ~At(w, "idle") /\ r = Current(w)
      BY <2>2
    <3>3. r.event = th[w].event
      BY <3>2 DEF Current, Route
    <3>4. RoutesOf(r.event) \subseteq skipped'
      BY <1>1, <3>2, <3>3
    <3> QED
      BY <2>1, <3>1, <3>4
  <2>3. CASE r \notin cut
    <3>1. late'[r] = late[r] /\ lost'[r] = lost[r]
      BY <1>2, <1>3, <2>3
    <3> QED
      BY <2>1, <3>1
  <2> QED
    BY <2>2, <2>3
<1>5. \A r \in Routes : delivered[r] <= delivered'[r]
  <2>1. \A r \in Routes : delivered[r] \in Nat
    BY <1>3
  <2> QED
    BY <1>1, <2>1
<1>6. \A w \in Workers : th'[w].pc = "idle"
  BY <1>1 DEF Idle
<1> QED
  BY <1>1, <1>4, <1>5, <1>6 DEF Grows

\* A step of none of them.
LEMMA NothingGrows ==
  ASSUME IngestionInv, UNCHANGED <<delivered, lost, gaveUp, skipped, overlapped>>
  PROVE  Grows
<1>1. \A r \in Routes : delivered[r] \in Nat /\ lost[r] \in Nat
  BY DEF IngestionInv, TypeOK
<1> QED
  BY <1>1 DEF Grows

\* Every step: what has happened is not undone, and what can still be executed late
\* was given up.
LEMMA EveryStep ==
  ASSUME IngestionInv, LateIsLost, [Next]_vars
  PROVE  IngestionInv' /\ Grows /\ LateIsLost'
<1>0. IngestionInv'
  BY NextInv
<1>1. \A r \in Routes : late[r] \in Nat /\ lost[r] \in Nat
  BY DEF IngestionInv, TypeOK
<1>2. ASSUME NEW w \in Workers, OwnStep(w) PROVE Grows /\ LateIsLost'
  BY <1>2, OwnStepFacts DEF LateIsLost
<1>3. ASSUME NEW w \in Workers, Receive(w) \/ CallFails(w) PROVE Grows /\ LateIsLost'
  BY <1>3, ReceiveFacts, CallFailsFacts DEF LateIsLost
<1>4. ASSUME NEW w \in Workers, CallSucceeds(w) PROVE Grows /\ LateIsLost'
  BY <1>4, CallFactsOf DEF LateIsLost
<1>5. ASSUME NEW r \in Routes, ExecuteLate(r) PROVE Grows /\ LateIsLost'
  <2>1. /\ Grows /\ lost' = lost /\ \A q \in Routes : late'[q] <= late[q] /\ late'[q] \in Nat
    BY <1>5, LateFacts
  <2> QED
    BY <1>1, <2>1 DEF LateIsLost
<1>6. CASE CrashAndRestart
  <2>1. Grows /\ \A r \in Routes : late[r] <= lost[r] => late'[r] <= lost'[r]
    BY <1>6, CrashFacts
  <2> QED
    BY <1>0, <2>1 DEF LateIsLost
<1>7. CASE SetPortfolio \/ LosePortfolio \/ UNCHANGED vars
  <2>1. UNCHANGED <<delivered, late, lost, gaveUp, skipped, overlapped>>
    BY <1>7 DEF SetPortfolio, LosePortfolio, vars, outside, calls, observers
  <2>2. UNCHANGED <<delivered, lost, gaveUp, skipped, overlapped>>
    BY <2>1
  <2>3. Grows
    BY <2>2, NothingGrows
  <2> QED
    BY <1>0, <2>1, <2>3 DEF LateIsLost
<1> QED
  BY <1>0, <1>2, <1>3, <1>4, <1>5, <1>6, <1>7 DEF Next

-----------------------------------------------------------------------------
(* The messages in raw.                                                    *)

\* A step of a thread.
LEMMA RawGoesOn ==
  ASSUME IngestionInv, RawInv, NEW w \in Workers, GoesOn(w),
         AppendRaw(w) \/ (raw' = raw /\ ~At(w, "append_raw"))
  PROVE  RawInv'
<1>1. /\ raw \in Seq(Events) /\ (\A v \in Workers : th[v] \in Thread)
      /\ \A v, x \in Workers :
           (~At(v, "idle") /\ ~At(x, "idle") /\ th[v].event = th[x].event) => v = x
  BY DEF IngestionInv, TypeOK, EventsApart
<1>2. ~overlapped => \A v, x \in Workers : (~At(v, "idle") /\ ~At(x, "idle")) => v = x
  BY DEF IngestionInv, SavesInv
<1>3. CASE raw' = raw /\ ~At(w, "append_raw")
  <2>1. IsInjective(raw)'
    BY <1>3 DEF RawInv
  <2>2. \A v \in Workers : At(v, "append_raw")' => th'[v].event \notin ToSet(raw')
    BY <1>3 DEF RawInv, GoesOn, At
  <2>3. ~overlapped' => \A v \in Workers :
          (~At(v, "idle")' /\ ~At(v, "append_raw")' /\ th'[v].handler = "ingest") =>
            raw' # << >> /\ Last(raw') = th'[v].event
    BY <1>3 DEF RawInv, GoesOn, At
  <2> QED
    BY <2>1, <2>2, <2>3 DEF RawInv
<1>4. CASE AppendRaw(w)
  <2>1. PICK e : e = th[w].event
    OBVIOUS
  <2>2. /\ raw' = Append(raw, e) /\ At(w, "append_raw") /\ e \notin ToSet(raw) /\ e \in Events
        /\ ~At(w, "idle")
    <3>1. raw' = Append(raw, e) /\ At(w, "append_raw") /\ ~At(w, "idle")
      BY <1>4, <2>1 DEF AppendRaw, At
    <3> QED
      BY <2>1, <3>1, ThreadFacts DEF RawInv
  <2>3. PICK t : t = raw'
    OBVIOUS
  <2>4. /\ t \in Seq(Events) /\ Len(t) = Len(raw) + 1 /\ t[Len(t)] = e /\ Len(raw) \in Nat
        /\ \A i \in 1..Len(raw) : t[i] = raw[i]
    BY <1>1, <2>2, <2>3
  <2>5. ToSet(t) = ToSet(raw) \union {e}
    BY <1>1, <2>2, <2>4, AppendFacts
  <2>6. \A x : x \in ToSet(raw) <=> \E i \in 1..Len(raw) : raw[i] = x
    BY <1>1, ToSetFacts
  <2>7. IsInjective(t)
    <3>1. DOMAIN raw = 1..Len(raw) /\ DOMAIN t = 1..Len(t)
      BY <1>1, <2>4
    <3>2. \A i, j \in 1..Len(raw) : raw[i] = raw[j] => i = j
      BY <3>1 DEF RawInv, IsInjective
    <3>3. \A i \in 1..Len(t) : i = Len(t) \/ i \in 1..Len(raw)
      BY <2>4
    <3>4. \A i \in 1..Len(raw) : t[i] # e
      BY <2>2, <2>4, <2>6
    <3>5. \A i, j \in 1..Len(t) : t[i] = t[j] => i = j
      BY <2>4, <3>2, <3>3, <3>4
    <3> QED
      BY <3>1, <3>5 DEF IsInjective
  <2>8. ASSUME NEW v \in Workers, At(v, "append_raw")' PROVE th'[v].event \notin ToSet(t)
    <3>1. v # w /\ th'[v] = th[v] /\ At(v, "append_raw") /\ ~At(v, "idle")
      BY <2>8 DEF GoesOn, At
    <3>2. th[v].event \notin ToSet(raw) /\ th[v].event # e
      BY <1>1, <2>1, <2>2, <3>1 DEF RawInv
    <3> QED
      BY <2>5, <3>1, <3>2
  <2>9. ASSUME ~overlapped', NEW v \in Workers, ~At(v, "idle")'
        PROVE  t # << >> /\ Last(t) = th'[v].event
    <3>1. ~overlapped
      BY <2>9 DEF GoesOn
    <3>2. v = w
      <4>1. ASSUME v # w PROVE FALSE
        <5>1. ~At(v, "idle")
          BY <2>9, <4>1 DEF GoesOn, At
        <5> QED
          BY <1>2, <2>2, <3>1, <4>1, <5>1
      <4> QED
        BY <4>1
    <3>3. th'[v].event = e
      BY <2>1, <2>9, <3>2 DEF GoesOn, At
    <3> QED
      BY <2>4, <3>3 DEF Last
  <2> QED
    BY <2>3, <2>7, <2>8, <2>9 DEF RawInv
<1> QED
  BY <1>3, <1>4

\* A request begins.
LEMMA RawReceives ==
  ASSUME IngestionInv, RawInv, NEW w \in Workers, Receive(w)
  PROVE  RawInv'
<1>1. /\ raw' = raw /\ th'[w].event \notin accepted
      /\ th'[w].handler = "ingest" => th'[w].pc = "append_raw"
      /\ \A v \in Workers : v # w => th'[v] = th[v]
      /\ ~overlapped' => \A v \in Workers : v # w => At(v, "idle")
  BY ReceiveFacts
<1>2. ToSet(raw) \subseteq accepted
  BY DEF IngestionInv, ListsInv
<1>3. IsInjective(raw)'
  BY <1>1 DEF RawInv
<1>4. \A v \in Workers : At(v, "append_raw")' => th'[v].event \notin ToSet(raw')
  BY <1>1, <1>2 DEF RawInv, At
<1>5. ~overlapped' => \A v \in Workers :
        (~At(v, "idle")' /\ ~At(v, "append_raw")' /\ th'[v].handler = "ingest") => FALSE
  BY <1>1 DEF At
<1> QED
  BY <1>3, <1>4, <1>5 DEF RawInv

\* The process dies and loads what it saved.
LEMMA RawRestarts ==
  ASSUME IngestionInv, RawInv, CrashAndRestart
  PROVE  RawInv'
<1>1. raw' = file.raw /\ \A v \in Workers : th'[v].pc = "idle"
  BY CrashFacts
<1>2. PICK t : t = file.raw
  OBVIOUS
<1>3. t \in Seq(Events) /\ raw \in Seq(Events) /\ IsPrefix(t, raw)
  BY <1>2 DEF IngestionInv, TypeOK, State, ListsInv, FileIsPrefix
<1>4. /\ Len(t) <= Len(raw) /\ (\A i \in 1..Len(t) : t[i] = raw[i])
      /\ Len(t) \in Nat /\ Len(raw) \in Nat /\ DOMAIN t = 1..Len(t) /\ DOMAIN raw = 1..Len(raw)
  BY <1>3, PrefixFacts
<1>5. IsInjective(t)
  <2>1. \A i, j \in 1..Len(raw) : raw[i] = raw[j] => i = j
    BY <1>4 DEF RawInv, IsInjective
  <2>2. \A i \in 1..Len(t) : i \in 1..Len(raw)
    BY <1>4
  <2>3. \A i, j \in 1..Len(t) : t[i] = t[j] => i = j
    BY <1>4, <2>1, <2>2
  <2> QED
    BY <1>4, <2>3 DEF IsInjective
<1> QED
  BY <1>1, <1>2, <1>5 DEF RawInv, At

\* Every step.
LEMMA RawStep ==
  ASSUME IngestionInv, RawInv, [Next]_vars
  PROVE  RawInv'
<1>1. ASSUME NEW w \in Workers, OwnStep(w) PROVE RawInv'
  BY <1>1, OwnStepFacts, RawGoesOn
<1>2. ASSUME NEW w \in Workers, CallSucceeds(w) \/ CallFails(w) PROVE RawInv'
  <2>1. GoesOn(w) /\ raw' = raw /\ At(w, "call")
    BY <1>2, CallFactsOf, CallFailsFacts
  <2>2. ~At(w, "append_raw")
    BY <2>1 DEF At
  <2> QED
    BY <2>1, <2>2, RawGoesOn
<1>3. ASSUME NEW w \in Workers, Receive(w) PROVE RawInv'
  BY <1>3, RawReceives
<1>4. CASE CrashAndRestart
  BY <1>4, RawRestarts
<1>5. CASE (\E r \in Routes : ExecuteLate(r)) \/ SetPortfolio \/ LosePortfolio \/ UNCHANGED vars
  <2>1. UNCHANGED <<th, raw, overlapped>>
    BY <1>5 DEF ExecuteLate, SetPortfolio, LosePortfolio, vars, lists, observers
  <2> QED
    BY <2>1 DEF RawInv, At
<1> QED
  BY <1>1, <1>2, <1>3, <1>4, <1>5 DEF Next

-----------------------------------------------------------------------------
(* The peers' threads.                                                     *)

\* A step of the pipeline, with what is known of it as a step of the ingestion peer.
Stepping ==
  /\ IngestionInv /\ IngestionInv' /\ Grows /\ [Next]_vars
  /\ PipelineInv /\ RawInv' /\ LateIsLost'

\* What a call's thread has done is not undone.
ReachedStays ==
  \A r \in Routes :
    \A places \in IF r.stage = "detect_anomalies" THEN {AnomalySteps, AlertSteps} ELSE {RiskSteps} :
      Reached(r, places) => Reached(r, places)'

\* Thread t goes on as job, and the others as they are.
LEMMA BecomesFacts ==
  ASSUME ThreadsInv, NEW t \in PeerThreads, NEW job, Becomes(t, job)
  PROVE  serving'[t] = job /\ \A u \in PeerThreads : u # t => serving'[u] = serving[u]
  BY DEF ThreadsInv, Becomes

\* A thread that serves a call is a job with a route, or with the portfolio.
LEMMA JobFacts ==
  ASSUME ThreadsInv, NEW t \in PeerThreads
  PROVE  /\ serving[t] \in Job /\ Nil \notin Routes /\ PortfolioCall \notin Routes
         /\ Busy(t) =>
              /\ serving[t].call \in Routes \union {PortfolioCall}
              /\ ToAnomaly(t) => serving[t].call \in Routes /\ serving[t].pc \in AnomalySteps
              /\ ~ToAnomaly(t) => serving[t].pc \in RiskSteps
              /\ (~serving[t].awaited /\ serving[t].call \in Routes) => lost[serving[t].call] > 0
              /\ serving[t].awaited =>
                   \E w \in Workers : At(w, "call") /\ Current(w) = serving[t].call
<1>1. serving[t] \in Job /\ ServedInv(t)
  BY DEF ThreadsInv
<1>2. \A r \in Routes : r.stage \in Stages /\ r # Nil
  <2> SUFFICES ASSUME NEW r \in Routes PROVE r.stage \in Stages /\ r # Nil
    OBVIOUS
  <2>1. r.stage \in Stages /\ r = Route(r.stage, r.target, r.event)
    BY RoutesFacts, RouteFacts
  <2>2. DOMAIN r = {"stage", "target", "event"}
    BY <2>1 DEF Route
  <2>3. DOMAIN Nil = {}
    BY DEF Nil
  <2> QED
    BY <2>1, <2>2, <2>3
<1>3. PortfolioCall.stage = "set_portfolio"
  BY DEF PortfolioCall, Route
<1>4. PortfolioCall \notin Routes /\ Nil \notin Routes
  BY <1>2, <1>3 DEF Stages
<1>5. Busy(t) => serving[t].call \in Routes \union {PortfolioCall}
  BY <1>1 DEF ServedInv, Job
<1>6. (Busy(t) /\ ToAnomaly(t)) => serving[t].call \in Routes
  BY <1>3, <1>5 DEF ToAnomaly
<1> QED
  BY <1>1, <1>4, <1>5, <1>6 DEF ServedInv

\* An awaited call is one that a worker makes; no call of its route was executed that
\* was not given up.
LEMMA AwaitedFacts ==
  ASSUME IngestionInv, ThreadsInv, NEW t \in PeerThreads, Busy(t), serving[t].awaited
  PROVE  /\ \E w \in Workers : At(w, "call") /\ Current(w) = serving[t].call /\ ~At(w, "idle")
         /\ serving[t].call \in Routes
         /\ delivered[serving[t].call] > 0 => lost[serving[t].call] > 0
<1>1. PICK w \in Workers : At(w, "call") /\ Current(w) = serving[t].call
  BY JobFacts
<1>2. PICK c : c = CurrentOf(th[w])
  OBVIOUS
<1>3. /\ c \in Routes /\ Current(w) = c /\ delivered[c] \in Nat /\ late[c] \in Nat /\ lost[c] \in Nat
      /\ delivered[c] + late[c] <= lost[c] /\ ~At(w, "idle")
  BY <1>1, <1>2, CallFacts
<1> QED
  BY <1>1, <1>3

\* A handler ends.
LEMMA EndFacts ==
  ASSUME IngestionInv, ThreadsInv, NEW t \in PeerThreads, Busy(t), Ends(t),
         NEW c, c = serving[t].call
  PROVE  /\ Becomes(t, Free) /\ Grows /\ [Next]_vars
         /\ UNCHANGED <<raw, lost, gaveUp, skipped, overlapped, portfolio>>
         /\ \A q \in Routes : late'[q] <= late[q] /\ (q # c => delivered'[q] = delivered[q])
         /\ c \in Routes => delivered'[c] > 0
         /\ \/ th' = th
            \/ \E w \in Workers : /\ GoesOn(w) /\ At(w, "call") /\ Current(w) = c
                                  /\ serving[t].awaited
<1>1. /\ delivered \in [Routes -> Nat]
      /\ \A q \in Routes : delivered[q] \in Nat /\ late[q] \in Nat /\ late[q] <= late[q]
  BY DEF IngestionInv, TypeOK
<1>2. ASSUME c \in Routes, delivered' = Count(delivered, c)
      PROVE  delivered'[c] > 0 /\ \A q \in Routes : q # c => delivered'[q] = delivered[q]
  <2>1. delivered'[c] = delivered[c] + 1
    BY <1>1, <1>2 DEF Count
  <2> QED
    BY <1>1, <1>2, <2>1 DEF Count
<1>3. CASE serving[t].awaited /\ \E w \in Workers : At(w, "call") /\ Current(w) = c /\ CallSucceeds(w)
  <2>1. PICK w \in Workers : At(w, "call") /\ Current(w) = c /\ CallSucceeds(w)
    BY <1>3
  <2>2. /\ GoesOn(w) /\ Grows /\ delivered' = Count(delivered, c)
        /\ UNCHANGED <<raw, late, lost, gaveUp, skipped>>
    BY <2>1, CallFactsOf
  <2>3. c \in Routes
    BY <1>3, AwaitedFacts
  <2>4. UNCHANGED <<overlapped, portfolio>>
    BY <2>2 DEF GoesOn
  <2>5. [Next]_vars /\ Becomes(t, Free)
    BY <2>1 DEF Next, Ends
  <2> QED
    BY <1>1, <1>2, <1>3, <2>1, <2>2, <2>3, <2>4, <2>5
<1>4. CASE c \in Routes /\ ExecuteLate(c)
  <2>1. /\ Grows /\ delivered' = Count(delivered, c) /\ UNCHANGED <<th, raw, lost, gaveUp, skipped, overlapped, portfolio>>
        /\ \A q \in Routes : late'[q] <= late[q]
    BY <1>4, LateFacts
  <2>2. [Next]_vars /\ Becomes(t, Free)
    BY <1>4 DEF Next, Ends
  <2> QED
    BY <1>2, <1>4, <2>1, <2>2
<1>5. CASE c \notin Routes /\ UNCHANGED vars
  <2>1. UNCHANGED <<th, raw, lost, gaveUp, skipped, overlapped, portfolio, delivered, late>>
    BY <1>5 DEF vars, lists, outside, calls, observers
  <2>2. Grows
    BY <2>1, NothingGrows
  <2>3. [Next]_vars /\ Becomes(t, Free)
    BY <1>5 DEF Ends
  <2> QED
    BY <1>1, <1>5, <2>1, <2>2, <2>3
<1> QED
  BY <1>3, <1>4, <1>5 DEF Ends

\* Threads stay as they are while no call ends.
LEMMA ThreadsSame ==
  ASSUME ThreadsInv, IngestionInv, IngestionInv', Grows, serving' = serving,
         \A v \in Workers : At(v, "call") => th'[v] = th[v]
  PROVE  ThreadsInv' /\ ReachedStays
<1>1. \A r \in Routes : lost[r] \in Nat /\ lost'[r] \in Nat /\ delivered[r] \in Nat /\ delivered'[r] \in Nat
  BY DEF IngestionInv, TypeOK
<1>2. \A r \in Routes : (lost[r] > 0 => lost'[r] > 0) /\ (delivered[r] > 0 => delivered'[r] > 0)
  BY <1>1 DEF Grows
<1>3. ASSUME NEW t \in PeerThreads PROVE ServedInv(t)'
  <2>1. ServedInv(t)
    BY DEF ThreadsInv
  <2>2. \A v \in Workers : At(v, "call") => At(v, "call")' /\ Current(v)' = Current(v)
    BY DEF At, Current
  <2> QED
    BY <1>2, <2>1, <2>2 DEF ServedInv, Busy, Is, ToAnomaly
<1>4. ReachedStays
  BY <1>2 DEF ReachedStays, Reached
<1> QED
  BY <1>3, <1>4 DEF ThreadsInv, Busy, Is

\* Thread t goes on as job.
LEMMA ThreadsNext ==
  ASSUME ThreadsInv, IngestionInv, IngestionInv', Grows, NEW t \in PeerThreads,
         NEW job \in Job, Becomes(t, job),
         \A v \in Workers : At(v, "call") =>
           \/ th'[v] = th[v]
           \/ Busy(t) /\ serving[t].awaited /\ Current(v) = serving[t].call /\ job.pc = "free",
         job.pc # "free" =>
           /\ job.call # Nil
           /\ job.pc \in IF job.call.stage = "detect_anomalies" THEN AnomalySteps ELSE RiskSteps
           /\ job.awaited =>
                /\ \E w \in Workers : At(w, "call") /\ Current(w) = job.call
                /\ (Busy(t) /\ serving[t].awaited /\ serving[t].call = job.call) \/ ~Awaited(job.call)
           /\ (~job.awaited /\ job.call \in Routes) => lost[job.call] > 0
  PROVE  ThreadsInv'
<1>1. serving'[t] = job /\ \A u \in PeerThreads : u # t => serving'[u] = serving[u]
  BY BecomesFacts
<1>2. serving' \in [PeerThreads -> Job]
  BY DEF Becomes, ThreadsInv
<1>3. \A r \in Routes : lost[r] > 0 => lost'[r] > 0
  <2>1. \A r \in Routes : lost[r] \in Nat /\ lost'[r] \in Nat
    BY DEF IngestionInv, TypeOK
  <2> QED
    BY <2>1 DEF Grows
<1>4. ASSUME NEW v \in Workers, At(v, "call"), th'[v] = th[v]
      PROVE  At(v, "call")' /\ Current(v)' = Current(v)
  BY <1>4 DEF At, Current
<1>5. ASSUME NEW u \in PeerThreads PROVE ServedInv(u)'
  <2>1. CASE u # t
    <3>1. ServedInv(u) /\ serving'[u] = serving[u]
      BY <1>1, <2>1 DEF ThreadsInv
    <3>2. ASSUME Busy(u), serving[u].awaited
          PROVE  \E w \in Workers : At(w, "call")' /\ Current(w)' = serving[u].call
      <4>1. PICK w \in Workers : At(w, "call") /\ Current(w) = serving[u].call
        BY <3>1, <3>2 DEF ServedInv
      <4>2. ~(Busy(t) /\ serving[t].awaited /\ serving[t].call = serving[u].call)
        BY <2>1, <3>2 DEF ThreadsInv
      <4>3. th'[w] = th[w]
        BY <4>1, <4>2
      <4> QED
        BY <1>4, <4>1, <4>3
    <3> QED
      BY <1>3, <3>1, <3>2 DEF ServedInv, Busy, Is, ToAnomaly
  <2>2. CASE u = t
    <3>1. CASE job.pc = "free"
      BY <1>1, <2>2, <3>1 DEF ServedInv, Busy, Is
    <3>2. CASE job.pc # "free"
      <4>1. job.awaited => \E w \in Workers : At(w, "call")' /\ Current(w)' = job.call
        BY <1>4, <3>2
      <4> QED
        BY <1>1, <1>3, <2>2, <3>2, <4>1 DEF ServedInv, Busy, Is, ToAnomaly
    <3> QED
      BY <3>1, <3>2
  <2> QED
    BY <2>1, <2>2
<1>6. ASSUME NEW u \in PeerThreads, NEW x \in PeerThreads, Busy(u)', serving'[u].awaited,
             Busy(x)', serving'[x].awaited, serving'[u].call = serving'[x].call
      PROVE  u = x
  <2>1. CASE u # t /\ x # t
    BY <1>1, <1>6, <2>1 DEF ThreadsInv, Busy, Is
  <2>2. ASSUME NEW y \in PeerThreads, y # t, Busy(y)', serving'[y].awaited, serving'[y].call = job.call,
               job.pc # "free", job.awaited
        PROVE  FALSE
    <3>1. Busy(y) /\ serving[y].awaited /\ serving[y].call = job.call
      BY <1>1, <2>2 DEF Busy, Is
    <3>2. Awaited(job.call)
      BY <3>1 DEF Awaited
    <3>3. Busy(t) /\ serving[t].awaited /\ serving[t].call = job.call
      BY <2>2, <3>2
    <3> QED
      BY <2>2, <3>1, <3>3 DEF ThreadsInv
  <2>3. CASE u = t /\ x # t
    BY <1>1, <1>6, <2>2, <2>3 DEF Busy, Is
  <2>4. CASE x = t /\ u # t
    BY <1>1, <1>6, <2>2, <2>4 DEF Busy, Is
  <2> QED
    BY <2>1, <2>3, <2>4
<1> QED
  BY <1>2, <1>5, <1>6 DEF ThreadsInv

\* What thread t had reached, it has passed, or ended.
LEMMA ReachedNext ==
  ASSUME ThreadsInv, IngestionInv, IngestionInv', Grows, NEW t \in PeerThreads,
         NEW job, Becomes(t, job),
         Busy(t) =>
           \/ /\ job.call = serving[t].call
              /\ IF ToAnomaly(t)
                 THEN job.pc \in AnomalySteps /\ (serving[t].pc \in AlertSteps => job.pc \in AlertSteps)
                 ELSE job.pc \in RiskSteps
           \/ serving[t].call \in Routes => delivered'[serving[t].call] > 0
  PROVE  ReachedStays
<1>1. serving'[t] = job /\ \A u \in PeerThreads : u # t => serving'[u] = serving[u]
  BY BecomesFacts
<1>2. \A r \in Routes : delivered[r] > 0 => delivered'[r] > 0
  <2>1. \A r \in Routes : delivered[r] \in Nat /\ delivered'[r] \in Nat
    BY DEF IngestionInv, TypeOK
  <2> QED
    BY <2>1 DEF Grows
<1> SUFFICES ASSUME NEW r \in Routes,
                    NEW places \in IF r.stage = "detect_anomalies" THEN {AnomalySteps, AlertSteps} ELSE {RiskSteps},
                    Reached(r, places)
             PROVE  Reached(r, places)'
  BY DEF ReachedStays
<1>3. CASE delivered[r] > 0
  BY <1>2, <1>3 DEF Reached
<1>4. ASSUME NEW u \in PeerThreads, serving[u].pc \in places, serving[u].call = r PROVE Reached(r, places)'
  <2>1. CASE u # t
    <3>1. serving'[u].pc \in places /\ serving'[u].call = r
      BY <1>1, <1>4, <2>1
    <3> QED
      BY <3>1 DEF Reached
  <2>2. CASE u = t
    <3>1. Busy(t)
      BY <1>4, <2>2 DEF Busy, Is, AnomalySteps, AlertSteps, RiskSteps
    <3>2. CASE delivered'[r] > 0
      BY <3>2 DEF Reached
    <3>3. CASE /\ job.call = serving[t].call
               /\ IF ToAnomaly(t)
                  THEN job.pc \in AnomalySteps /\ (serving[t].pc \in AlertSteps => job.pc \in AlertSteps)
                  ELSE job.pc \in RiskSteps
      <4>1. job.pc \in places /\ job.call = r
        BY <1>4, <2>2, <3>3 DEF ToAnomaly
      <4>2. serving'[t].pc \in places /\ serving'[t].call = r
        BY <1>1, <4>1
      <4> QED
        BY <4>2 DEF Reached
    <3> QED
      BY <1>4, <2>2, <3>1, <3>2, <3>3
  <2> QED
    BY <2>1, <2>2
<1> QED
  BY <1>3, <1>4 DEF Reached

-----------------------------------------------------------------------------
(* A thread that moves on, ends, or takes a call.                          *)

\* Thread u has the call and the local variables that it had.
SameWork(u) ==
  /\ serving'[u].pc = serving[u].pc /\ serving'[u].call = serving[u].call
  /\ serving'[u].baseline = serving[u].baseline /\ serving'[u].place = serving[u].place
  /\ serving'[u].after = serving[u].after /\ serving'[u].dump = serving[u].dump

\* What a step of the pipeline starts from.
LEMMA SteppingFacts ==
  ASSUME Stepping
  PROVE  /\ ThreadsInv /\ RawInv /\ AnomalyInv /\ RiskInv /\ LateIsLost
         /\ crossed \subseteq Routes \union {PortfolioCall}
  BY DEF Stepping, PipelineInv

\* Nobody waits any more for the threads that serve some of the routes.
LEMMA ThreadsAbandoned ==
  ASSUME ThreadsInv, IngestionInv, IngestionInv', Grows, NEW routes, Abandon(routes),
         \A v \in Workers : At(v, "call") /\ Current(v) \notin routes => th'[v] = th[v],
         \A r \in Routes : r \in routes /\ Awaited(r) => lost'[r] > 0
  PROVE  ThreadsInv' /\ ReachedStays /\ \A u \in PeerThreads : SameWork(u)
<1>1. ASSUME NEW u \in PeerThreads
      PROVE  /\ serving'[u] \in Job /\ SameWork(u)
             /\ serving'[u].awaited => serving[u].awaited /\ serving[u].call \notin routes
             /\ ~serving'[u].awaited => ~serving[u].awaited \/ serving[u].call \in routes
  <2>1. serving[u] \in Job
    BY JobFacts
  <2>2. serving'[u] = IF serving[u].awaited /\ serving[u].call \in routes
                      THEN [serving[u] EXCEPT !.awaited = FALSE] ELSE serving[u]
    BY DEF Abandon
  <2> QED
    BY <2>1, <2>2 DEF SameWork, Job
<1>2. serving' \in [PeerThreads -> Job]
  BY <1>1 DEF Abandon
<1>3. \A r \in Routes : (lost[r] > 0 => lost'[r] > 0) /\ (delivered[r] > 0 => delivered'[r] > 0)
  <2>1. \A r \in Routes : lost[r] \in Nat /\ lost'[r] \in Nat /\ delivered[r] \in Nat /\ delivered'[r] \in Nat
    BY DEF IngestionInv, TypeOK
  <2> QED
    BY <2>1 DEF Grows
<1>4. ASSUME NEW u \in PeerThreads PROVE ServedInv(u)'
  <2>1. ServedInv(u) /\ SameWork(u)
    BY <1>1 DEF ThreadsInv
  <2>2. ASSUME Busy(u), serving'[u].awaited
        PROVE  \E w \in Workers : At(w, "call")' /\ Current(w)' = serving[u].call
    <3>1. PICK w \in Workers : At(w, "call") /\ Current(w) = serving[u].call
      BY <1>1, <2>1, <2>2 DEF ServedInv
    <3>2. th'[w] = th[w]
      BY <1>1, <2>2, <3>1
    <3> QED
      BY <3>1, <3>2 DEF At, Current
  <2>3. ASSUME Busy(u), ~serving'[u].awaited, serving[u].call \in Routes PROVE lost'[serving[u].call] > 0
    <3>1. CASE ~serving[u].awaited
      BY <1>3, <2>1, <2>3, <3>1 DEF ServedInv
    <3>2. CASE serving[u].awaited
      <4>1. serving[u].call \in routes /\ Awaited(serving[u].call)
        BY <1>1, <2>3, <3>2 DEF Awaited
      <4> QED
        BY <2>3, <4>1
    <3> QED
      BY <3>1, <3>2
  <2> QED
    BY <2>1, <2>2, <2>3 DEF ServedInv, SameWork, Busy, Is, ToAnomaly
<1>5. ASSUME NEW u \in PeerThreads, NEW x \in PeerThreads, Busy(u)', serving'[u].awaited,
             Busy(x)', serving'[x].awaited, serving'[u].call = serving'[x].call
      PROVE  u = x
  BY <1>1, <1>5 DEF ThreadsInv, SameWork, Busy, Is
<1>6. ReachedStays
  <2> SUFFICES ASSUME NEW r \in Routes, NEW places, Reached(r, places) PROVE Reached(r, places)'
    BY DEF ReachedStays
  <2>1. CASE delivered[r] > 0
    BY <1>3, <2>1 DEF Reached
  <2>2. CASE \E u \in PeerThreads : serving[u].pc \in places /\ serving[u].call = r
    BY <1>1, <2>2 DEF Reached, SameWork
  <2> QED
    BY <2>1, <2>2 DEF Reached
<1> QED
  BY <1>1, <1>2, <1>4, <1>5, <1>6 DEF ThreadsInv

\* A thread goes on with its call.
LEMMA ThreadMoves ==
  ASSUME Stepping, NEW t \in PeerThreads, Busy(t), UNCHANGED vars, NEW job \in Job, Becomes(t, job),
         job.call = serving[t].call, job.awaited = serving[t].awaited,
         IF ToAnomaly(t)
         THEN job.pc \in AnomalySteps /\ (serving[t].pc \in AlertSteps => job.pc \in AlertSteps)
         ELSE job.pc \in RiskSteps
  PROVE  ThreadsInv' /\ ReachedStays /\ \A u \in PeerThreads : u # t => SameWork(u)
<1>1. ThreadsInv /\ IngestionInv /\ IngestionInv' /\ Grows
  BY SteppingFacts DEF Stepping
<1>2. serving'[t] = job /\ \A u \in PeerThreads : u # t => serving'[u] = serving[u]
  BY <1>1, BecomesFacts
<1>3. \A v \in Workers : th'[v] = th[v]
  BY DEF vars
<1>4. ThreadsInv'
  <2>1. ServedInv(t)
    BY <1>1 DEF ThreadsInv
  <2>2. job.awaited => \E w \in Workers : At(w, "call") /\ Current(w) = job.call
    BY <2>1 DEF ServedInv
  <2>3. /\ job.call # Nil /\ (~job.awaited /\ job.call \in Routes => lost[job.call] > 0)
        /\ job.pc \in IF job.call.stage = "detect_anomalies" THEN AnomalySteps ELSE RiskSteps
    BY <2>1 DEF ServedInv, ToAnomaly
  <2> QED
    BY <1>1, <1>3, <2>2, <2>3, ThreadsNext
<1>5. ReachedStays
  BY <1>1, ReachedNext
<1> QED
  BY <1>2, <1>4, <1>5 DEF SameWork

\* A thread that serves no call.
LEMMA FreeFacts == Free \in Job /\ Free.pc = "free"
<1>1. Nil \in Seq(Events)
  BY DEF Nil
<1> QED
  BY <1>1 DEF Free, Job

\* A handler ends, and with it the thread's part in what has been reached.
LEMMA ThreadEnds ==
  ASSUME Stepping, NEW t \in PeerThreads, Busy(t), Ends(t)
  PROVE  ThreadsInv' /\ ReachedStays /\ (\A u \in PeerThreads : u # t => SameWork(u)) /\ ~Busy(t)'
<1>1. ThreadsInv /\ IngestionInv /\ IngestionInv' /\ Grows
  BY SteppingFacts DEF Stepping
<1>2. PICK c : c = serving[t].call
  OBVIOUS
<1>3. /\ Becomes(t, Free) /\ (c \in Routes => delivered'[c] > 0)
      /\ \/ th' = th
         \/ \E w \in Workers : /\ GoesOn(w) /\ At(w, "call") /\ Current(w) = c /\ serving[t].awaited
  BY <1>1, <1>2, EndFacts
<1>4. serving'[t] = Free /\ (\A u \in PeerThreads : u # t => serving'[u] = serving[u])
  BY <1>1, <1>3, BecomesFacts
<1>5. Free \in Job /\ Free.pc = "free"
  BY FreeFacts
<1>6. \A v \in Workers : At(v, "call") => th'[v] = th[v] \/ (serving[t].awaited /\ Current(v) = c)
  BY <1>3 DEF GoesOn
<1>7. ThreadsInv'
  BY <1>1, <1>2, <1>3, <1>5, <1>6, ThreadsNext
<1>8. ReachedStays
  BY <1>1, <1>2, <1>3, ReachedNext
<1> QED
  BY <1>4, <1>5, <1>7, <1>8 DEF SameWork, Busy, Is

\* A call of route r waits for a thread: a worker makes it, or it was given up.
Asked(r, awaited) ==
  \/ ~awaited /\ late[r] > 0 /\ lost[r] > 0
  \/ awaited /\ ~Awaited(r) /\ \E w \in Workers : At(w, "call") /\ Current(w) = r

\* A thread takes a call.
LEMMA ThreadTakes ==
  ASSUME Stepping, NEW t \in PeerThreads, ~Busy(t), UNCHANGED vars, NEW job \in Job, Becomes(t, job),
         job.call \in Routes, Asked(job.call, job.awaited),
         job.pc \in IF job.call.stage = "detect_anomalies" THEN AnomalySteps ELSE RiskSteps
  PROVE  ThreadsInv' /\ ReachedStays /\ \A u \in PeerThreads : u # t => SameWork(u)
<1>1. ThreadsInv /\ IngestionInv /\ IngestionInv' /\ Grows
  BY SteppingFacts DEF Stepping
<1>2. serving'[t] = job /\ \A u \in PeerThreads : u # t => serving'[u] = serving[u]
  BY <1>1, BecomesFacts
<1>3. \A v \in Workers : th'[v] = th[v]
  BY DEF vars
<1>4. job.call # Nil
  BY <1>1, JobFacts
<1>5. ThreadsInv'
  BY <1>1, <1>3, <1>4, ThreadsNext DEF Asked
<1>6. ReachedStays
  BY <1>1, ReachedNext
<1> QED
  BY <1>2, <1>5, <1>6 DEF SameWork

\* What has already been done for a route whose call is to be served was done for a
\* call that was given up.
LEMMA TakenAgain ==
  ASSUME IngestionInv, ThreadsInv, NEW r \in Routes, NEW awaited, Asked(r, awaited),
         NEW places, "free" \notin places, Reached(r, places)
  PROVE  lost[r] > 0
<1>1. CASE lost[r] > 0
  BY <1>1
<1>2. CASE ~Awaited(r) /\ \E w \in Workers : At(w, "call") /\ Current(w) = r
  <2>1. PICK w \in Workers : At(w, "call") /\ Current(w) = r
    BY <1>2
  <2>2. PICK c : c = CurrentOf(th[w])
    OBVIOUS
  <2>3. /\ Current(w) = c /\ delivered[c] \in Nat /\ late[c] \in Nat /\ lost[c] \in Nat
        /\ delivered[c] + late[c] <= lost[c]
    BY <2>1, <2>2, CallFacts
  <2>4. CASE delivered[r] > 0
    BY <2>1, <2>3, <2>4
  <2>5. ASSUME NEW u \in PeerThreads, serving[u].pc \in places, serving[u].call = r PROVE lost[r] > 0
    <3>1. Busy(u)
      BY <2>5 DEF Busy, Is
    <3>2. ~serving[u].awaited
      BY <1>2, <2>5, <3>1 DEF Awaited
    <3> QED
      BY <2>5, <3>1, <3>2, JobFacts
  <2> QED
    BY <2>4, <2>5 DEF Reached
<1> QED
  BY <1>1, <1>2 DEF Asked

\* So it was if a thread that serves such a call has yet to do it.
LEMMA DoneAgain ==
  ASSUME IngestionInv, ThreadsInv, NEW t \in PeerThreads, Busy(t), NEW r \in Routes,
         r = serving[t].call, NEW places, "free" \notin places, serving[t].pc \notin places,
         Reached(r, places)
  PROVE  lost[r] > 0
<1>1. CASE ~serving[t].awaited
  BY <1>1, JobFacts
<1>2. CASE serving[t].awaited
  <2>1. CASE delivered[r] > 0
    BY <1>2, <2>1, AwaitedFacts
  <2>2. ASSUME NEW u \in PeerThreads, serving[u].pc \in places, serving[u].call = r PROVE lost[r] > 0
    <3>1. Busy(u) /\ u # t
      BY <2>2 DEF Busy, Is
    <3>2. ~serving[u].awaited
      BY <1>2, <2>2, <3>1 DEF ThreadsInv
    <3> QED
      BY <2>2, <3>1, <3>2, JobFacts
  <2> QED
    BY <2>1, <2>2 DEF Reached
<1> QED
  BY <1>1, <1>2

\* The call that a thread takes.
LEMMA TakeFacts ==
  ASSUME IngestionInv, ThreadsInv, LateIsLost, NEW t \in PeerThreads, TakeCall(t) \/ TakeLate(t)
  PROVE  \E r \in Routes : \E awaited \in BOOLEAN : Takes(t, r, awaited) /\ Asked(r, awaited)
<1>1. ASSUME NEW w \in Workers, At(w, "call"), ~Awaited(Current(w)), Takes(t, Current(w), TRUE)
      PROVE  \E r \in Routes : Takes(t, r, TRUE) /\ Asked(r, TRUE)
  <2>1. PICK c : c = CurrentOf(th[w])
    OBVIOUS
  <2>2. c \in Routes /\ Current(w) = c
    BY <1>1, <2>1, CallFacts
  <2> QED
    BY <1>1, <2>2 DEF Asked
<1>2. ASSUME NEW r \in Routes, Cardinality(Abandoned(r)) < late[r], Takes(t, r, FALSE)
      PROVE  Asked(r, FALSE)
  <2>1. IsFiniteSet(PeerThreads) /\ Abandoned(r) \in SUBSET PeerThreads
    BY ThreadsAssumption DEF Abandoned
  <2>2. IsFiniteSet(Abandoned(r))
    BY <2>1, FS_Subset
  <2>3. Cardinality(Abandoned(r)) \in Nat
    BY <2>2, FS_CardinalityType
  <2>4. late[r] \in Nat /\ lost[r] \in Nat /\ late[r] <= lost[r]
    BY DEF IngestionInv, TypeOK, LateIsLost
  <2> QED
    BY <1>2, <2>3, <2>4 DEF Asked
<1> QED
  BY <1>1, <1>2 DEF TakeCall, TakeLate

-----------------------------------------------------------------------------
(* The anomaly peer.                                                       *)

Analyses == Seq([event : Events, saved : BOOLEAN])

\* What a list is made of.
LEMMA ElementFacts ==
  ASSUME NEW S, NEW s \in Seq(S)
  PROVE  \A i \in DOMAIN s : s[i] \in S
  OBVIOUS

\* What has been given up stays so, and so does what a call has reached.
LEMMA CallsStay ==
  ASSUME IngestionInv, IngestionInv', Grows, ReachedStays
  PROVE  /\ \A r \in Routes : lost[r] > 0 => lost'[r] > 0
         /\ \A e \in Events : \A places \in {AnomalySteps, AlertSteps} :
              Reached(The("detect_anomalies", e), places) => Reached(The("detect_anomalies", e), places)'
         /\ \A e \in Events :
              Reached(The("store_market_events", e), RiskSteps) =>
                Reached(The("store_market_events", e), RiskSteps)'
<1>1. \A r \in Routes : lost[r] \in Nat /\ lost'[r] \in Nat
  BY DEF IngestionInv, TypeOK
<1>2. \A e \in Events : \A s \in Stages : The(s, e) \in Routes /\ The(s, e).stage = s
  BY TheFacts
<1>3. ASSUME NEW e \in Events, NEW places \in {AnomalySteps, AlertSteps},
             Reached(The("detect_anomalies", e), places)
      PROVE  Reached(The("detect_anomalies", e), places)'
  <2>1. PICK r \in Routes : r = The("detect_anomalies", e) /\ r.stage = "detect_anomalies"
    BY <1>2 DEF Stages
  <2>2. Reached(r, places) => Reached(r, places)'
    BY <2>1 DEF ReachedStays
  <2> QED
    BY <1>3, <2>1, <2>2 DEF Reached
<1>4. ASSUME NEW e \in Events, Reached(The("store_market_events", e), RiskSteps)
      PROVE  Reached(The("store_market_events", e), RiskSteps)'
  <2>1. PICK r \in Routes : r = The("store_market_events", e) /\ r.stage = "store_market_events"
    BY <1>2 DEF Stages
  <2>2. Reached(r, RiskSteps) => Reached(r, RiskSteps)'
    BY <2>1 DEF ReachedStays
  <2> QED
    BY <1>4, <2>1, <2>2 DEF Reached
<1> QED
  BY <1>1, <1>3, <1>4 DEF Grows

\* Alerts a stay accounted for.
LEMMA AlertsStay ==
  ASSUME IngestionInv, IngestionInv', Grows, ReachedStays, NEW a, AlertsInv(a)
  PROVE  AlertsInv(a)'
<1>1. a \in Seq(Alert) /\ \A j \in DOMAIN a : a[j] \in Alert /\ a[j].event \in Events
  <2>1. a \in Seq(Alert)
    BY DEF AlertsInv
  <2>2. \A j \in DOMAIN a : a[j] \in Alert
    BY <2>1, ElementFacts
  <2> QED
    BY <2>1, <2>2 DEF Alert
<1>2. \A e \in Events : The("detect_anomalies", e) \in Routes
  BY TheFacts DEF Stages
<1>3. /\ \A r \in Routes : lost[r] > 0 => lost'[r] > 0
      /\ \A e \in Events : Reached(The("detect_anomalies", e), AlertSteps) =>
                             Reached(The("detect_anomalies", e), AlertSteps)'
  BY CallsStay
<1>4. \A j \in DOMAIN a : Reached(The("detect_anomalies", a[j].event), AlertSteps)'
  BY <1>1, <1>3 DEF AlertsInv
<1>5. OnceUnlessLost(a)'
  BY <1>1, <1>2, <1>3 DEF AlertsInv, OnceUnlessLost
<1> QED
  BY <1>1, <1>4, <1>5 DEF AlertsInv

\* Analyses join those that have been made, and those keep their events.
AnalysesGrow ==
  /\ analysed \in Analyses /\ analysed' \in Analyses /\ Len(analysed) <= Len(analysed')
  /\ \A k \in DOMAIN analysed : analysed'[k].event = analysed[k].event

\* History h holds the analyses whose alert is saved in this step, or their save crossed.
NewlySaved(h) ==
  \A k \in DOMAIN analysed' : analysed'[k].saved =>
    \/ k \in DOMAIN analysed /\ analysed[k].saved
    \/ Holds(h, k)'
    \/ The("detect_anomalies", analysed'[k].event) \in crossed'

\* No alert is saved.
LEMMA NothingSaved ==
  ASSUME analysed \in Analyses, analysed' = analysed
  PROVE  AnalysesGrow /\ \A h : NewlySaved(h)
  BY DEF AnalysesGrow, NewlySaved, Analyses

\* A history that is left alone holds what it held.
LEMMA HoldsStays ==
  ASSUME AnalysesGrow, NEW h \in Seq(Events), NEW k \in DOMAIN analysed, Holds(h, k)
  PROVE  Holds(h, k)'
<1>1. /\ Len(analysed) \in Nat /\ Len(analysed') \in Nat /\ Len(analysed) <= Len(analysed')
      /\ DOMAIN analysed = 1..Len(analysed) /\ analysed'[k].event = analysed[k].event
      /\ DOMAIN h = 1..Len(h) /\ Len(h) \in Nat
  BY DEF AnalysesGrow, Analyses
<1>2. history_window \in Nat
  BY WindowAssumption
<1>3. CASE Len(analysed) - k >= history_window
  BY <1>1, <1>2, <1>3 DEF Holds
<1>4. CASE \E p \in 1..Len(h) : h[p] = analysed[k].event /\ Len(h) - p <= Len(analysed) - k
  <2>1. PICK p \in 1..Len(h) : h[p] = analysed[k].event /\ Len(h) - p <= Len(analysed) - k
    BY <1>4
  <2>2. h[p] = analysed'[k].event /\ Len(h) - p <= Len(analysed') - k
    BY <1>1, <2>1
  <2> QED
    BY <1>1, <2>2 DEF Holds
<1> QED
  BY <1>1, <1>3, <1>4 DEF Holds

\* So does history g, which event x has joined.
LEMMA HoldsAppend ==
  ASSUME AnalysesGrow, Len(analysed') = Len(analysed) + 1,
         NEW h \in Seq(Events), Len(h) <= history_window, NEW x \in Events,
         NEW g \in Seq(Events), g = AppendMax(h, x), NEW k \in DOMAIN analysed, Holds(h, k)
  PROVE  Holds(g, k)'
<1>1. /\ Len(analysed) \in Nat /\ k \in 1..Len(analysed) /\ analysed'[k].event = analysed[k].event
      /\ DOMAIN h = 1..Len(h) /\ Len(h) \in Nat /\ DOMAIN g = 1..Len(g) /\ Len(g) \in Nat
  BY DEF AnalysesGrow, Analyses
<1>2. history_window \in Nat
  BY WindowAssumption
<1>3. CASE Len(analysed) - k >= history_window
  BY <1>1, <1>2, <1>3 DEF Holds
<1>4. CASE \E p \in 1..Len(h) : h[p] = analysed[k].event /\ Len(h) - p <= Len(analysed) - k
  <2>1. PICK p \in 1..Len(h) : h[p] = analysed[k].event /\ Len(h) - p <= Len(analysed) - k
    BY <1>4
  <2>2. CASE Len(h) - p + 1 < history_window
    <3>1. PICK q \in 1..Len(g) : g[q] = h[p] /\ Len(g) - q = Len(h) - p + 1
      BY <2>2, AppendMaxBack
    <3>2. g[q] = analysed'[k].event /\ Len(g) - q <= Len(analysed') - k
      BY <1>1, <2>1, <3>1
    <3> QED
      BY <1>1, <3>2 DEF Holds
  <2>3. CASE ~(Len(h) - p + 1 < history_window)
    <3>1. Len(analysed') - k >= history_window
      BY <1>1, <1>2, <2>1, <2>3
    <3> QED
      BY <3>1 DEF Holds
  <2> QED
    BY <2>2, <2>3
<1> QED
  BY <1>1, <1>3, <1>4 DEF Holds

\* A history h that is left alone.
LEMMA HistoryStays ==
  ASSUME IngestionInv, IngestionInv', Grows, ReachedStays, AnalysesGrow, crossed \subseteq crossed',
         NEW h, HistoryInv(h), NewlySaved(h)
  PROVE  HistoryInv(h)'
<1>1. h \in Seq(Events) /\ ToSet(h) \subseteq Events /\ Len(h) <= history_window
  BY ToSetFacts DEF HistoryInv
<1>2. \A e \in ToSet(h) : Reached(The("detect_anomalies", e), AnomalySteps)'
  BY <1>1, CallsStay DEF HistoryInv
<1>3. ASSUME NEW k \in DOMAIN analysed', analysed'[k].saved
      PROVE  Holds(h, k)' \/ The("detect_anomalies", analysed'[k].event) \in crossed'
  <2>1. CASE k \in DOMAIN analysed /\ analysed[k].saved
    <3>1. Holds(h, k) \/ The("detect_anomalies", analysed[k].event) \in crossed
      BY <2>1 DEF HistoryInv
    <3>2. analysed'[k].event = analysed[k].event
      BY <2>1 DEF AnalysesGrow
    <3> QED
      BY <1>1, <2>1, <3>1, <3>2, HoldsStays
  <2> QED
    BY <1>3, <2>1 DEF NewlySaved
<1> QED
  BY <1>1, <1>2, <1>3 DEF HistoryInv, The, Route, Providers

\* Thread u of the anomaly peer, when another one takes a step: history h is in
\* memory before, and g after.
LEMMA AnalysisStays ==
  ASSUME IngestionInv, IngestionInv', Grows, ReachedStays, AnalysesGrow, crossed \subseteq crossed',
         NEW u \in PeerThreads, AnalysisInv(u), SameWork(u),
         NEW h, h = anomaly.history, NEW g, g = anomaly'.history,
         \A k \in DOMAIN analysed : Holds(h, k) => Holds(g, k)',
         (Busy(u) /\ ToAnomaly(u) /\ serving[u].pc = "replace") => NewlySaved(serving[u].dump.history),
         Busy(u) => serving[u].call \in Routes \union {PortfolioCall}
  PROVE  AnalysisInv(u)'
<1> SUFFICES ASSUME Busy(u)', ToAnomaly(u)' PROVE AnalysisInv(u)'
  BY DEF AnalysisInv
<1>1. PICK j : j = serving[u]
  OBVIOUS
<1>2. PICK i : i = serving'[u]
  OBVIOUS
<1>3. /\ i.pc = j.pc /\ i.call = j.call /\ i.baseline = j.baseline /\ i.place = j.place
      /\ i.dump = j.dump /\ Busy(u) /\ ToAnomaly(u) /\ j.call \in Routes
  <2>1. PortfolioCall.stage # "detect_anomalies"
    BY DEF PortfolioCall, Route
  <2> QED
    BY <1>1, <1>2, <2>1 DEF SameWork, Busy, Is, ToAnomaly
<1>4. /\ j.call.event \in ToSet(j.baseline) => lost[j.call] > 0
      /\ j.pc # "append" =>
           /\ j.place \in DOMAIN analysed /\ analysed[j.place].event = j.call.event
           /\ Holds(h, j.place)
      /\ j.pc \in {"dump_history", "replace"} => j.dump \in AnomalyState /\ AlertsInv(j.dump.alerts)
      /\ j.pc = "replace" => HistoryInv(j.dump.history) /\ Holds(j.dump.history, j.place)
  BY <1>1, <1>3 DEF AnalysisInv, Holds
<1>5. \A r \in Routes : lost[r] > 0 => lost'[r] > 0
  BY CallsStay
<1>6. j.pc # "append" =>
        /\ j.place \in DOMAIN analysed' /\ analysed'[j.place].event = j.call.event
        /\ Holds(g, j.place)'
  BY <1>4 DEF AnalysesGrow, Analyses
<1>7. j.pc \in {"dump_history", "replace"} => AlertsInv(j.dump.alerts)'
  <2>1. PICK a : a = j.dump.alerts
    OBVIOUS
  <2>2. AlertsInv(a) => AlertsInv(a)'
    BY AlertsStay
  <2> QED
    BY <1>4, <2>1, <2>2
<1>8. ASSUME j.pc = "replace" PROVE HistoryInv(j.dump.history)' /\ Holds(j.dump.history, j.place)'
  <2>1. PICK d : d = j.dump.history
    OBVIOUS
  <2>2. HistoryInv(d) /\ Holds(d, j.place) /\ NewlySaved(d) /\ d \in Seq(Events)
    BY <1>1, <1>3, <1>4, <1>8, <2>1 DEF HistoryInv
  <2>3. HistoryInv(d)'
    BY <2>2, HistoryStays
  <2>4. Holds(d, j.place)'
    BY <1>4, <1>8, <2>2, HoldsStays
  <2> QED
    BY <2>1, <2>3, <2>4
<1> QED
  BY <1>2, <1>3, <1>4, <1>5, <1>6, <1>7, <1>8 DEF AnalysisInv, Holds

\* The steps that add nothing to what has crossed at the anomaly peer.
LEMMA CrossedStays ==
  ASSUME IngestionInv, IngestionInv', Grows, CrossedInv,
         \A r \in crossed' : r.stage = "detect_anomalies" => r \in crossed
  PROVE  CrossedInv'
<1>1. \A r \in Routes : lost[r] > 0 => lost'[r] > 0
  <2>1. \A r \in Routes : lost[r] \in Nat /\ lost'[r] \in Nat
    BY DEF IngestionInv, TypeOK
  <2> QED
    BY <2>1 DEF Grows
<1>2. \A e \in Events : The("detect_anomalies", e) \in Routes
  BY TheFacts DEF Stages
<1> SUFFICES ASSUME \E r \in crossed' : r.stage = "detect_anomalies"
             PROVE  overlapped' \/ \E e \in Events : lost'[The("detect_anomalies", e)] > 0
  BY DEF CrossedInv, The, Route, Providers
<1>3. overlapped \/ \E e \in Events : lost[The("detect_anomalies", e)] > 0
  BY DEF CrossedInv
<1> QED
  BY <1>1, <1>2, <1>3 DEF Grows

-----------------------------------------------------------------------------
(* The order of prices.                                                    *)

\* What PricesInOrder says of a list m of events.
InOrder(m) ==
  \A j \in 1..Len(m) : \A i \in 1..(j - 1) :
    (m[i] \in ToSet(raw) /\ m[j] \in ToSet(raw)) =>
      \/ Position(m[i]) < Position(m[j])
      \/ lost[The("store_market_events", m[i])] > 0
      \/ lost[The("store_market_events", m[j])] > 0

\* The two say the same.
LEMMA InOrderFacts ==
  ASSUME market \in Seq(Events)
  PROVE  PricesInOrder <=> (~overlapped => InOrder(market))
<1>1. DOMAIN market = 1..Len(market) /\ Len(market) \in Nat
      /\ \A i \in 1..Len(market) : market[i] \in Events
  OBVIOUS
<1>2. \A e \in Events : Lost("store_market_events", e) <=> lost[The("store_market_events", e)] > 0
  BY LostFacts DEF Stages
<1>3. \A j \in 1..Len(market) : \A i \in 1..(j - 1) : i \in 1..Len(market)
  BY <1>1
<1>4. ASSUME NEW j \in 1..Len(market), NEW i \in 1..(j - 1)
      PROVE  (\E e \in {market[i], market[j]} : Lost("store_market_events", e)) <=>
               \/ lost[The("store_market_events", market[i])] > 0
               \/ lost[The("store_market_events", market[j])] > 0
  BY <1>1, <1>2, <1>3
<1> QED
  BY <1>1, <1>4 DEF PricesInOrder, InOrder

\* As long as the messages of m stay where they are in raw.
LEMMA InOrderKept ==
  ASSUME IngestionInv, IngestionInv', Grows, NEW m \in Seq(Events), InOrder(m),
         \A x \in ToSet(m) : x \in ToSet(raw') => x \in ToSet(raw) /\ Position(x)' = Position(x)
  PROVE  InOrder(m)'
<1>1. \A i \in 1..Len(m) : m[i] \in ToSet(m) /\ m[i] \in Events /\ Len(m) \in Nat
  BY ToSetFacts
<1>2. \A e \in Events : lost[The("store_market_events", e)] > 0 => lost'[The("store_market_events", e)] > 0
  <2> SUFFICES ASSUME NEW e \in Events, lost[The("store_market_events", e)] > 0
               PROVE  lost'[The("store_market_events", e)] > 0
    OBVIOUS
  <2>1. PICK r \in Routes : r = The("store_market_events", e)
    BY TheFacts DEF Stages
  <2>2. lost[r] \in Nat /\ lost'[r] \in Nat /\ lost[r] <= lost'[r]
    BY DEF IngestionInv, TypeOK, Grows
  <2> QED
    BY <2>1, <2>2
<1> SUFFICES ASSUME NEW j \in 1..Len(m), NEW i \in 1..(j - 1),
                    m[i] \in ToSet(raw'), m[j] \in ToSet(raw')
             PROVE  \/ Position(m[i])' < Position(m[j])'
                    \/ lost'[The("store_market_events", m[i])] > 0
                    \/ lost'[The("store_market_events", m[j])] > 0
  BY DEF InOrder
<1>3. i \in 1..Len(m)
  BY <1>1
<1>4. /\ m[i] \in ToSet(raw) /\ m[j] \in ToSet(raw)
      /\ Position(m[i])' = Position(m[i]) /\ Position(m[j])' = Position(m[j])
  BY <1>1, <1>3
<1>5. \/ Position(m[i]) < Position(m[j])
      \/ lost[The("store_market_events", m[i])] > 0
      \/ lost[The("store_market_events", m[j])] > 0
  BY <1>4 DEF InOrder
<1> QED
  BY <1>1, <1>2, <1>3, <1>4, <1>5

\* A prefix of an ordered list.
LEMMA InOrderPrefix ==
  ASSUME NEW m \in Seq(Events), NEW n \in Seq(Events), IsPrefix(n, m), InOrder(m)
  PROVE  InOrder(n)
<1>1. Len(n) <= Len(m) /\ (\A i \in 1..Len(n) : n[i] = m[i]) /\ Len(n) \in Nat /\ Len(m) \in Nat
  BY PrefixFacts
<1> SUFFICES ASSUME NEW j \in 1..Len(n), NEW i \in 1..(j - 1),
                    n[i] \in ToSet(raw), n[j] \in ToSet(raw)
             PROVE  \/ Position(n[i]) < Position(n[j])
                    \/ lost[The("store_market_events", n[i])] > 0
                    \/ lost[The("store_market_events", n[j])] > 0
  BY DEF InOrder
<1>2. j \in 1..Len(m) /\ i \in 1..Len(n)
  BY <1>1
<1>3. n[i] = m[i] /\ n[j] = m[j]
  BY <1>1, <1>2
<1> QED
  BY <1>2, <1>3 DEF InOrder

\* An event is appended that is lost, or comes last.
LEMMA InOrderAppend ==
  ASSUME NEW m \in Seq(Events), InOrder(m), NEW e \in Events, NEW n, n = Append(m, e),
         \/ lost[The("store_market_events", e)] > 0
         \/ \A x \in ToSet(m) : x \in ToSet(raw) => Position(x) < Position(e)
  PROVE  InOrder(n)
<1>1. /\ Len(m) \in Nat /\ Len(n) = Len(m) + 1 /\ n[Len(n)] = e
      /\ \A i \in 1..Len(m) : n[i] = m[i]
  OBVIOUS
<1> SUFFICES ASSUME NEW j \in 1..Len(n), NEW i \in 1..(j - 1),
                    n[i] \in ToSet(raw), n[j] \in ToSet(raw)
             PROVE  \/ Position(n[i]) < Position(n[j])
                    \/ lost[The("store_market_events", n[i])] > 0
                    \/ lost[The("store_market_events", n[j])] > 0
  BY DEF InOrder
<1>2. i \in 1..Len(m) /\ n[i] = m[i]
  BY <1>1
<1>3. CASE j = Len(n)
  <2>1. n[j] = e /\ m[i] \in ToSet(m)
    BY <1>1, <1>2, <1>3, ToSetFacts
  <2> QED
    BY <1>2, <2>1
<1>4. CASE j # Len(n)
  <2>1. j \in 1..Len(m) /\ n[j] = m[j]
    BY <1>1, <1>4
  <2> QED
    BY <1>2, <2>1 DEF InOrder
<1> QED
  BY <1>3, <1>4

\* A message keeps its place when raw grows, and when a restart takes it back to
\* one of its prefixes.
LEMMA PositionKept ==
  ASSUME raw \in Seq(Events), IsInjective(raw), (raw \in Seq(Events))', IsInjective(raw)',
         NEW i \in 1..Len(raw), i \in 1..Len(raw'), raw'[i] = raw[i], NEW x, x = raw[i]
  PROVE  Position(x)' = Position(x)
<1>1. Position(x) = i
  BY PositionFacts
<1>2. \A j, k \in DOMAIN raw' : raw'[j] = raw'[k] => j = k
  BY DEF IsInjective
<1>3. DOMAIN raw' = 1..Len(raw')
  OBVIOUS
<1>4. Position(x)' = CHOOSE k \in DOMAIN raw' : raw'[k] = x
  BY DEF Position
<1> QED
  BY <1>1, <1>2, <1>3, <1>4

\* A thread that has yet to put its message in raw has not stored its event.
LEMMA NotReached ==
  ASSUME IngestionInv, ThreadsInv, NEW w \in Workers, At(w, "append_raw"), NEW e, e = th[w].event
  PROVE  ~Reached(The("store_market_events", e), RiskSteps)
<1>1. e \in Events /\ ~At(w, "idle") /\ ~At(w, "call")
  BY ThreadFacts DEF At
<1>2. PICK r \in Routes : r = The("store_market_events", e) /\ r.event = e
  BY <1>1, TheFacts DEF Stages
<1>3. Untouched(r)
  <2>1. r \in Left(th[w])
    BY <1>1, <1>2, TheFacts DEF Left, Storing, At, Stages
  <2> QED
    BY <1>1, <2>1 DEF IngestionInv, CallsInv
<1>4. ASSUME NEW u \in PeerThreads, serving[u].pc \in RiskSteps, serving[u].call = r PROVE FALSE
  <2>1. Busy(u)
    BY <1>4 DEF Busy, Is, RiskSteps
  <2>2. serving[u].awaited
    BY <1>3, <1>4, <2>1, JobFacts DEF Untouched
  <2>3. PICK v \in Workers : At(v, "call") /\ Current(v) = r /\ ~At(v, "idle")
    BY <1>4, <2>1, <2>2, AwaitedFacts
  <2>4. th[v].event = e
    BY <1>2, <2>3 DEF Current, Route
  <2>5. v = w
    BY <1>1, <2>3, <2>4 DEF IngestionInv, EventsApart
  <2> QED
    BY <1>1, <2>3, <2>5
<1> QED
  BY <1>2, <1>3, <1>4 DEF Untouched, Reached

\* A step of the ingestion peer keeps the order of events that were executed.
LEMMA OrderStep ==
  ASSUME IngestionInv, IngestionInv', RawInv, RawInv', Grows, [Next]_vars,
         NEW m \in Seq(Events), InOrder(m),
         ThreadsInv, \A e \in ToSet(m) : Reached(The("store_market_events", e), RiskSteps)
  PROVE  InOrder(m)'
<1>1. /\ raw \in Seq(Events) /\ IsInjective(raw) /\ raw' \in Seq(Events) /\ IsInjective(raw)'
      /\ ToSet(m) \subseteq Events
      /\ \A x : x \in ToSet(raw) <=> \E i \in 1..Len(raw) : raw[i] = x
  BY ToSetFacts DEF IngestionInv, TypeOK, RawInv
<1>2. \A x : x \in ToSet(raw') <=> \E i \in 1..Len(raw') : raw'[i] = x
  BY <1>1, ToSetFacts
<1>3. CASE raw' = raw
  <2>1. \A x \in ToSet(m) : x \in ToSet(raw') => x \in ToSet(raw) /\ Position(x)' = Position(x)
    BY <1>3 DEF Position
  <2> QED
    BY <2>1, InOrderKept
<1>4. ASSUME NEW w \in Workers, AppendRaw(w)
      PROVE  \A x \in ToSet(m) : x \in ToSet(raw') => x \in ToSet(raw) /\ Position(x)' = Position(x)
  <2>1. PICK e : e = th[w].event
    OBVIOUS
  <2>2. raw' = Append(raw, e) /\ At(w, "append_raw") /\ ~At(w, "idle") /\ ~At(w, "call") /\ e \in Events
    <3>1. raw' = Append(raw, e) /\ At(w, "append_raw") /\ ~At(w, "idle") /\ ~At(w, "call")
      BY <1>4, <2>1 DEF AppendRaw, At
    <3> QED
      BY <2>1, <3>1, ThreadFacts
  <2>3. /\ Len(raw') = Len(raw) + 1 /\ raw'[Len(raw')] = e /\ Len(raw) \in Nat
        /\ \A i \in 1..Len(raw) : raw'[i] = raw[i]
    BY <1>1, <2>2
  <2>4. e \notin ToSet(m)
    BY <2>1, <2>2, NotReached
  <2> SUFFICES ASSUME NEW x \in ToSet(m), x \in ToSet(raw')
               PROVE  x \in ToSet(raw) /\ Position(x)' = Position(x)
    OBVIOUS
  <2>5. PICK i \in 1..Len(raw') : raw'[i] = x
    BY <1>2
  <2>6. i \in 1..Len(raw) /\ raw[i] = x
    BY <2>3, <2>4, <2>5
  <2> QED
    BY <1>1, <2>5, <2>6, PositionKept
<1>5. ASSUME CrashAndRestart
      PROVE  \A x \in ToSet(m) : x \in ToSet(raw') => x \in ToSet(raw) /\ Position(x)' = Position(x)
  <2>1. raw' = file.raw /\ IsPrefix(file.raw, raw)
    BY <1>5, CrashFacts DEF IngestionInv, ListsInv, FileIsPrefix
  <2>2. PICK t : t = raw'
    OBVIOUS
  <2>3. t \in Seq(Events) /\ IsPrefix(t, raw)
    BY <1>1, <2>1, <2>2
  <2>4. Len(t) <= Len(raw) /\ (\A i \in 1..Len(t) : t[i] = raw[i]) /\ Len(t) \in Nat /\ Len(raw) \in Nat
    BY <1>1, <2>3, PrefixFacts
  <2> SUFFICES ASSUME NEW x \in ToSet(m), x \in ToSet(raw')
               PROVE  x \in ToSet(raw) /\ Position(x)' = Position(x)
    OBVIOUS
  <2>5. PICK i \in 1..Len(raw') : raw'[i] = x
    BY <1>2
  <2>6. i \in 1..Len(raw) /\ raw[i] = x
    BY <2>2, <2>4, <2>5
  <2> QED
    BY <1>1, <2>5, <2>6, PositionKept
<1>6. raw' = raw \/ (\E w \in Workers : AppendRaw(w)) \/ CrashAndRestart
  <2>1. ASSUME NEW w \in Workers, OwnStep(w) PROVE raw' = raw \/ AppendRaw(w)
    BY <2>1, OwnStepFacts
  <2>2. ASSUME NEW w \in Workers, Receive(w) \/ CallSucceeds(w) \/ CallFails(w) PROVE raw' = raw
    BY <2>2, ReceiveFacts, CallFactsOf, CallFailsFacts
  <2>3. ASSUME (\E r \in Routes : ExecuteLate(r)) \/ SetPortfolio \/ LosePortfolio \/ UNCHANGED vars
        PROVE  raw' = raw
    BY <2>3 DEF ExecuteLate, SetPortfolio, LosePortfolio, vars, lists
  <2> QED
    BY <2>1, <2>2, <2>3 DEF Next
<1> QED
  BY <1>3, <1>4, <1>5, <1>6, InOrderKept

-----------------------------------------------------------------------------
(* The risk peer.                                                          *)

\* What the risk peer keeps whatever happens, it still does after the step.
FileKeeps == \A e \in Events : Durable(e) => Durable(e)'

\* The file is left alone, and no dump is begun but of the events in memory.
LEMMA FileLeft ==
  ASSUME market \in Seq(Events), riskFile \in RiskState, IsPrefix(riskFile.events, market),
         riskFile' = riskFile,
         \A u \in PeerThreads : Dumping(u)' =>
           \/ Dumping(u) /\ serving'[u].dump.events = serving[u].dump.events
           \/ serving'[u].dump.events = market
  PROVE  FileKeeps
<1>1. ToSet(riskFile.events) \subseteq ToSet(market)
  <2>1. riskFile.events \in Seq(Events)
    BY DEF RiskState
  <2> QED
    BY <2>1, PrefixSet
<1> QED
  BY <1>1 DEF FileKeeps, Durable

\* Whether an event is stored stays settled.
LEMMA SettledStays ==
  ASSUME Grows, FileKeeps, crossed \subseteq crossed', NEW e \in Events, StoredOrNot(e)
  PROVE  StoredOrNot(e)'
<1>1. The("store_market_events", e)' = The("store_market_events", e)
  BY DEF The, Route, Providers
<1>2. Durable(e) => Durable(e)'
  BY DEF FileKeeps
<1> QED
  BY <1>1, <1>2 DEF StoredOrNot, Grows

\* A step of thread w, with or without an answer to its call.
LEMMA PassedGoesOn ==
  ASSUME IngestionInv, IngestionInv', PassedInv, Grows, FileKeeps, crossed \subseteq crossed',
         NEW w \in Workers, GoesOn(w),
         \A r \in Routes : delivered'[r] # delivered[r] => At(w, "call") /\ r = Current(w),
         NEW e, e = th[w].event,
         (At(w, "call") /\ Current(w) = The("store_market_events", e)) =>
           \/ th'[w].pc = "call" /\ th'[w].stage = th[w].stage
           \/ StoredOrNot(e)'
  PROVE  PassedInv'
<1> SUFFICES ASSUME NEW v \in Workers, ~At(v, "idle")', th'[v].handler = "ingest"
             PROVE  \/ The("store_market_events", th'[v].event) \in Left(th[v])'
                    \/ \E d : d = th'[v].event /\ StoredOrNot(d)'
  BY DEF PassedInv, StoredOrNot, Durable
<1>1. CASE v # w
  <2>1. th'[v] = th[v] /\ ~At(v, "idle")
    BY <1>1 DEF GoesOn, At
  <2>2. PICK d \in Events : d = th[v].event
    BY <2>1, ThreadFacts
  <2>3. Left(th[v])' = Left(th[v])
    BY <2>1 DEF Left, RoutesOf, Route, Providers, Later, Stages, Storing
  <2>4. The("store_market_events", d) \in Left(th[v]) \/ StoredOrNot(d)
    BY <2>1, <2>2 DEF PassedInv, At
  <2>5. StoredOrNot(d) => StoredOrNot(d)'
    BY SettledStays
  <2> QED
    BY <2>1, <2>2, <2>3, <2>4, <2>5
<1>2. CASE v = w
  <2>1. /\ ~At(w, "idle") /\ th'[w].event = e /\ th'[w].handler = th[w].handler
        /\ th[w].handler = "ingest" /\ e \in Events
    <3>1. ~At(w, "idle") /\ th'[w].event = e /\ th'[w].handler = th[w].handler
      BY <1>2 DEF GoesOn, At
    <3> QED
      BY <1>2, <3>1, ThreadFacts
  <2>2. PICK s : s = The("store_market_events", e)
    OBVIOUS
  <2>3. s \in RoutesOf(e) /\ s \in Routes /\ s.stage = "store_market_events"
    BY <2>1, <2>2, TheFacts DEF Stages
  <2>4. CASE StoredOrNot(e)
    BY <1>2, <2>1, <2>4, SettledStays
  <2>5. CASE s \in Left(th[w]) /\ s \notin Left(th[w])'
    <3>1. delivered'[s] > 0 \/ s \in gaveUp' \union skipped'
      <4>1. s \in RoutesOf(th'[w].event) /\ s \notin Left(th[w])'
        BY <2>1, <2>3, <2>5
      <4>2. (\A x \in Workers : (~At(x, "idle") /\ th[x].handler = "ingest") =>
              \A r \in RoutesOf(th[x].event) \ Left(th[x]) :
                 delivered[r] > 0 \/ r \in gaveUp \union skipped)'
        BY DEF IngestionInv, OutcomesInv
      <4> QED
        BY <1>2, <4>1, <4>2
    <3>2. Untouched(s) \/ (At(w, "call") /\ s = Current(w))
      BY <2>1, <2>5 DEF IngestionInv, CallsInv
    <3>3. CASE s \in gaveUp' \union skipped'
      <4>1. StoredOrNot(e)'
        BY <2>2, <3>3 DEF StoredOrNot
      <4> QED
        BY <1>2, <2>1, <4>1
    <3>4. CASE delivered'[s] > 0
      <4>1. At(w, "call") /\ s = Current(w)
        BY <2>3, <3>2, <3>4 DEF Untouched
      <4>2. CASE th'[w].pc = "call" /\ th'[w].stage = th[w].stage
        <5>1. PICK t : t = th'[w]
          OBVIOUS
        <5>2. t \in Thread /\ Placed(t) /\ t.pc \in Routing /\ t.event \in Events /\ t.pc = "call"
          BY <2>1, <4>2, <5>1 DEF IngestionInv, TypeOK, Routing
        <5>3. CurrentOf(t) \in RoutesOf(t.event) /\ CurrentOf(t) \in Left(t)
          BY <5>2, CurrentFacts
        <5>4. CurrentOf(t).stage = t.stage /\ t.stage = s.stage
          BY <4>1, <4>2, <5>1 DEF CurrentOf, Current, Route
        <5>5. CurrentOf(t) = s
          BY <2>1, <2>2, <2>3, <5>1, <5>3, <5>4, TheFacts
        <5> QED
          BY <1>2, <2>5, <5>1, <5>3, <5>5 DEF Left
      <4>3. CASE StoredOrNot(e)'
        BY <1>2, <2>1, <4>3
      <4> QED
        BY <2>2, <4>1, <4>2, <4>3
    <3> QED
      BY <3>1, <3>3, <3>4
  <2>6. s \in Left(th[w]) \/ StoredOrNot(e)
    BY <2>1, <2>2 DEF PassedInv
  <2> QED
    BY <1>2, <2>1, <2>2, <2>4, <2>5, <2>6
<1> QED
  BY <1>1, <1>2

\* No thread takes a step.
LEMMA PassedKept ==
  ASSUME IngestionInv, PassedInv, Grows, FileKeeps, crossed \subseteq crossed', th' = th
  PROVE  PassedInv'
<1> SUFFICES ASSUME NEW v \in Workers, ~At(v, "idle")', th'[v].handler = "ingest"
             PROVE  \/ The("store_market_events", th'[v].event) \in Left(th[v])'
                    \/ \E d : d = th'[v].event /\ StoredOrNot(d)'
  BY DEF PassedInv, StoredOrNot, Durable
<1>1. PICK d \in Events : d = th[v].event
  BY ThreadFacts DEF At
<1>2. Left(th[v])' = Left(th[v])
  BY DEF Left, RoutesOf, Route, Providers, Later, Stages, Storing
<1>3. The("store_market_events", d) \in Left(th[v]) \/ StoredOrNot(d)
  BY <1>1 DEF PassedInv, At
<1>4. StoredOrNot(d) => StoredOrNot(d)'
  BY SettledStays
<1> QED
  BY <1>1, <1>2, <1>3, <1>4

\* A thread that calls for a computation has passed the store call.
LEMMA ComputeHasPassed ==
  ASSUME IngestionInv, PassedInv, NEW w \in Workers, At(w, "call"), NEW e \in Events,
         Current(w).event = e, Current(w).stage = "compute_risk"
  PROVE  StoredOrNot(e)
<1>1. th[w].event = e /\ th[w].stage = "compute_risk"
  BY DEF Current, Route
<1>2. ~At(w, "idle") /\ th[w].handler = "ingest"
  <2>1. PICK c : c = CurrentOf(th[w])
    OBVIOUS
  <2> QED
    BY <2>1, CallFacts
<1>3. The("store_market_events", e).stage = "store_market_events"
  BY TheFacts DEF Stages
<1>4. The("store_market_events", e) \notin Left(th[w])
  BY <1>1, <1>3 DEF Left, Later, Storing, At
<1> QED
  BY <1>1, <1>2, <1>4 DEF PassedInv

\* A computation sees its event, or there was none to see.
Supported(s) ==
  s.event \in s.of \/ The("store_market_events", s.event) \in gaveUp \union skipped \union crossed

\* ComputedWithEvent says so of every snapshot.
LEMMA SupportedFacts ==
  ASSUME snapshots \subseteq [event : Events, of : SUBSET Events]
  PROVE  ComputedWithEvent <=> \A s \in snapshots : Supported(s)
<1> SUFFICES ASSUME NEW s \in snapshots
             PROVE  (\E r \in RoutesOf(s.event) :
                       r.stage = "store_market_events" /\ r \in gaveUp \union skipped \union crossed) <=>
                    The("store_market_events", s.event) \in gaveUp \union skipped \union crossed
  BY DEF ComputedWithEvent, Supported
<1>1. PICK e \in Events : e = s.event
  OBVIOUS
<1>2. /\ The("store_market_events", e) \in RoutesOf(e)
      /\ The("store_market_events", e).stage = "store_market_events"
      /\ \A r \in RoutesOf(e) : r = The(r.stage, e)
  BY TheFacts DEF Stages
<1> QED
  BY <1>1, <1>2

\* Snapshots that were supported stay so.
LEMMA SupportedKept ==
  ASSUME Grows, crossed \subseteq crossed', NEW s, Supported(s)
  PROVE  Supported(s)'
<1>1. The("store_market_events", s.event)' = The("store_market_events", s.event)
  BY DEF The, Route, Providers
<1> QED
  BY <1>1 DEF Supported, Grows

SnapshotsInv == snapshots \subseteq [event : Events, of : SUBSET Events] /\ ComputedWithEvent

\* A snapshot for event e is added.
LEMMA ComputeStep ==
  ASSUME Grows, crossed \subseteq crossed', SnapshotsInv, NEW e \in Events, market \in Seq(Events),
         Compute(e), e \in ToSet(market) \/ StoredOrNot(e),
         riskFile \in RiskState, IsPrefix(riskFile.events, market)
  PROVE  SnapshotsInv'
<1>1. PICK x : x = [event |-> e, of |-> ToSet(market)]
  OBVIOUS
<1>2. snapshots' = snapshots \union {x}
  BY <1>1 DEF Compute
<1>3. x \in [event : Events, of : SUBSET Events] /\ x.event = e /\ x.of = ToSet(market)
  <2>1. ToSet(market) \subseteq Events
    BY ToSetFacts
  <2> QED
    BY <1>1, <2>1
<1>4. Supported(x)
  <2>1. riskFile.events \in Seq(Events)
    BY DEF RiskState
  <2>2. ToSet(riskFile.events) \subseteq ToSet(market)
    BY <2>1, PrefixSet
  <2> QED
    BY <1>3, <2>2 DEF Supported, StoredOrNot, Durable
<1>5. \A s \in snapshots : Supported(s)
  BY SupportedFacts DEF SnapshotsInv
<1>6. \A s \in snapshots' : Supported(s)'
  BY <1>2, <1>4, <1>5, SupportedKept
<1>7. snapshots' \subseteq [event : Events, of : SUBSET Events]
  BY <1>2, <1>3 DEF SnapshotsInv
<1>8. (\A s \in snapshots : Supported(s))'
  BY <1>6
<1>9. (snapshots \subseteq [event : Events, of : SUBSET Events] =>
        (ComputedWithEvent <=> \A s \in snapshots : Supported(s)))'
  BY SupportedFacts, PTL
<1> QED
  BY <1>7, <1>8, <1>9 DEF SnapshotsInv

\* No snapshot is added.
LEMMA NoCompute ==
  ASSUME Grows, crossed \subseteq crossed', SnapshotsInv, snapshots' = snapshots
  PROVE  SnapshotsInv'
<1>1. \A s \in snapshots : Supported(s)
  BY SupportedFacts DEF SnapshotsInv
<1>2. \A s \in snapshots' : Supported(s)'
  BY <1>1, SupportedKept
<1>3. (\A s \in snapshots : Supported(s))'
  BY <1>2
<1>4. (snapshots \subseteq [event : Events, of : SUBSET Events] =>
        (ComputedWithEvent <=> \A s \in snapshots : Supported(s)))'
  BY SupportedFacts, PTL
<1> QED
  BY <1>3, <1>4 DEF SnapshotsInv

\* The risk peer's events in memory, and the order of their prices.
EventsInv ==
  /\ market \in Seq(Events)
  /\ \A e \in ToSet(market) : Reached(The("store_market_events", e), RiskSteps)
  /\ PricesInOrder

\* The file, which the events in memory continue.
FileInv == riskFile \in RiskState /\ IsPrefix(riskFile.events, market)

\* A call to compute that can still be executed is for an event that is settled.
ComputesInv == \A e \in Events : late[The("compute_risk", e)] > 0 => StoredOrNot(e)

\* The parts of the risk peer's invariant.
LEMMA RiskParts ==
  RiskInv <=> /\ EventsInv /\ FileInv /\ SnapshotsInv /\ PassedInv /\ ComputesInv
              /\ \A t \in PeerThreads : StoreInv(t)
  BY DEF RiskInv, EventsInv, FileInv, SnapshotsInv, ComputesInv

\* The parts after a step.
LEMMA RiskNext ==
  ASSUME EventsInv', FileInv', SnapshotsInv', PassedInv', ComputesInv',
         \A t \in PeerThreads : StoreInv(t)'
  PROVE  RiskInv'
<1>1. (RiskInv <=> /\ EventsInv /\ FileInv /\ SnapshotsInv /\ PassedInv /\ ComputesInv
                   /\ \A t \in PeerThreads : StoreInv(t))'
  BY RiskParts, PTL
<1> QED
  BY <1>1

\* The events in memory are left alone, or a restart takes them back to the file.
LEMMA MarketLeft ==
  ASSUME Stepping, ReachedStays, EventsInv, FileInv, market' = market \/ market' = riskFile.events
  PROVE  EventsInv' /\ market' \in Seq(Events) /\ IsPrefix(market', market)
<1>1. PICK m : m = market'
  OBVIOUS
<1>2. /\ market \in Seq(Events) /\ riskFile.events \in Seq(Events) /\ IsPrefix(riskFile.events, market)
      /\ \A e \in ToSet(market) : Reached(The("store_market_events", e), RiskSteps)
      /\ PricesInOrder
  BY DEF EventsInv, FileInv, RiskState
<1>3. m \in Seq(Events) /\ IsPrefix(m, market)
  BY <1>1, <1>2, PrefixSelf
<1>4. ToSet(m) \subseteq ToSet(market) /\ ToSet(market) \subseteq Events
  BY <1>2, <1>3, PrefixSet, ToSetFacts
<1>5. \A e \in ToSet(m) : Reached(The("store_market_events", e), RiskSteps)
  BY <1>2, <1>4
<1>6. IngestionInv /\ IngestionInv' /\ Grows /\ [Next]_vars /\ RawInv /\ RawInv' /\ ThreadsInv
  BY SteppingFacts DEF Stepping
<1>7. \A e \in ToSet(m) : Reached(The("store_market_events", e), RiskSteps)'
  BY <1>4, <1>5, <1>6, CallsStay
<1>8. ~overlapped' => InOrder(m)'
  <2> SUFFICES ASSUME ~overlapped' PROVE InOrder(m)'
    OBVIOUS
  <2>1. ~overlapped
    BY <1>6 DEF Grows
  <2>2. InOrder(market)
    BY <1>2, <2>1, InOrderFacts
  <2>3. PICK k : k = market
    OBVIOUS
  <2>4. k \in Seq(Events) /\ IsPrefix(m, k) /\ InOrder(k)
    BY <1>2, <1>3, <2>2, <2>3
  <2>5. InOrder(m)
    BY <1>3, <2>4, InOrderPrefix
  <2> QED
    BY <1>3, <1>5, <1>6, <2>5, OrderStep
<1>9. (market \in Seq(Events) => (PricesInOrder <=> (~overlapped => InOrder(market))))'
  BY InOrderFacts, PTL
<1>10. PricesInOrder'
  <2>1. (~overlapped => InOrder(market))'
    BY <1>1, <1>8 DEF InOrder
  <2> QED
    BY <1>1, <1>3, <1>9, <2>1
<1> QED
  BY <1>1, <1>3, <1>7, <1>10 DEF EventsInv

\* The call that stores an event while no two requests overlap: the event is the
\* newest, unless an earlier attempt was lost.
LEMMA StoreOrder ==
  ASSUME IngestionInv, ThreadsInv, RawInv, EventsInv, ~overlapped,
         NEW e \in Events, NEW r \in Routes, r = The("store_market_events", e),
         NEW awaited, Asked(r, awaited)
  PROVE  \/ lost[r] > 0
         \/ \A x \in ToSet(market) : x \in ToSet(raw) => Position(x) < Position(e)
<1> SUFFICES ASSUME ~(lost[r] > 0), NEW x \in ToSet(market), x \in ToSet(raw)
             PROVE  Position(x) < Position(e)
  OBVIOUS
<1>1. PICK w \in Workers : At(w, "call") /\ Current(w) = r
  BY DEF Asked
<1>2. r.event = e
  BY TheFacts DEF Stages
<1>3. th[w].event = e /\ ~At(w, "idle") /\ th[w].handler = "ingest"
  <2>1. PICK c : c = CurrentOf(th[w])
    OBVIOUS
  <2> QED
    BY <1>1, <1>2, <2>1, CallFacts
<1>4. x # e
  <2>1. ~Reached(r, RiskSteps)
    BY TakenAgain DEF RiskSteps
  <2> QED
    BY <2>1 DEF EventsInv
<1>5. raw \in Seq(Events) /\ IsInjective(raw) /\ raw # << >> /\ Last(raw) = e
  BY <1>1, <1>3 DEF IngestionInv, TypeOK, RawInv, At
<1>6. Len(raw) \in 1..Len(raw) /\ raw[Len(raw)] = e /\ Len(raw) \in Nat
  BY <1>5 DEF Last
<1>7. PICK i \in 1..Len(raw) : raw[i] = x
  BY <1>5, ToSetFacts
<1>8. Position(x) = i
  BY <1>5, <1>7, PositionFacts
<1>9. Position(e) = Len(raw)
  BY <1>5, <1>6, PositionFacts
<1>10. i # Len(raw)
  BY <1>4, <1>6, <1>7
<1> QED
  BY <1>6, <1>7, <1>8, <1>9, <1>10

\* Thread u of the risk peer, when another one takes a step.
LEMMA StoreStays ==
  ASSUME FileKeeps, crossed \subseteq crossed', market \in Seq(Events), market' \in Seq(Events),
         IsPrefix(market, market'), NEW u \in PeerThreads, StoreInv(u), SameWork(u),
         Busy(u) => serving[u].call \in Routes \union {PortfolioCall}
  PROVE  StoreInv(u)'
<1> SUFFICES ASSUME Busy(u)', ~ToAnomaly(u)' PROVE StoreInv(u)'
  BY DEF StoreInv
<1>1. PICK j : j = serving[u]
  OBVIOUS
<1>2. PICK e : e = j.call.event
  OBVIOUS
<1>3. /\ Busy(u) /\ ~ToAnomaly(u) /\ (Dumping(u)' <=> Dumping(u))
  BY <1>1 DEF SameWork, Busy, Is, ToAnomaly, Dumping
<1>4. /\ Dumping(u) => j.dump \in RiskState /\ IsPrefix(j.dump.events, market)
      /\ j.pc = "auto" => j.after = "auto"
      /\ j.after = "auto" => j.call.stage = "store_market_events"
      /\ j.call.stage = "store_market_events" =>
           /\ e \in ToSet(market)
           /\ Dumping(u) => e \in ToSet(j.dump.events)
           /\ (j.pc = "auto" \/ j.after = "answer") => Durable(e) \/ j.call \in crossed
  BY <1>1, <1>2, <1>3 DEF StoreInv
<1>5. ToSet(market) \subseteq ToSet(market')
  BY PrefixSet
<1>6. j.call.stage = "store_market_events" => e \in Events
  BY <1>4, ToSetFacts
<1>7. ASSUME Dumping(u) PROVE IsPrefix(j.dump.events, market')
  <2>1. j.dump.events \in Seq(Events) /\ IsPrefix(j.dump.events, market)
    BY <1>4, <1>7 DEF RiskState
  <2> QED
    BY <2>1, PrefixTrans
<1>8. j.call.stage = "store_market_events" => (Durable(e) => Durable(e)')
  BY <1>6 DEF FileKeeps
<1> QED
  BY <1>1, <1>2, <1>3, <1>4, <1>5, <1>7, <1>8 DEF StoreInv, SameWork

\* Calls to compute, as long as none can be executed late that could not be before.
LEMMA ComputesStay ==
  ASSUME Grows, FileKeeps, crossed \subseteq crossed', ComputesInv,
         \A e \in Events : late'[The("compute_risk", e)] > 0 =>
           late[The("compute_risk", e)] > 0 \/ StoredOrNot(e) \/ StoredOrNot(e)'
  PROVE  ComputesInv'
<1>1. ASSUME NEW e \in Events, (late[The("compute_risk", e)] > 0)' PROVE StoredOrNot(e)'
  <2>1. The("compute_risk", e)' = The("compute_risk", e)
    BY DEF The, Route, Providers
  <2>2. late'[The("compute_risk", e)] > 0
    BY <1>1, <2>1
  <2>3. StoredOrNot(e) \/ StoredOrNot(e)'
    BY <2>2 DEF ComputesInv
  <2> QED
    BY <2>3, SettledStays
<1> QED
  BY <1>1 DEF ComputesInv

\* The risk peer is left alone, as far as its threads' dumps go.
LEMMA RiskLeft ==
  ASSUME Stepping, ReachedStays, crossed \subseteq crossed', UNCHANGED <<market, riskFile>>,
         SnapshotsInv', PassedInv', ComputesInv', FileKeeps,
         \A u \in PeerThreads : SameWork(u) \/ StoreInv(u)'
  PROVE  RiskInv'
<1>1. RiskInv /\ ThreadsInv
  BY SteppingFacts
<1>2. EventsInv /\ FileInv /\ \A u \in PeerThreads : StoreInv(u)
  BY <1>1, RiskParts
<1>3. EventsInv'
  BY <1>2, MarketLeft
<1>4. FileInv'
  BY <1>2 DEF FileInv
<1>5. market \in Seq(Events) /\ market' \in Seq(Events) /\ IsPrefix(market, market')
  <2>1. market \in Seq(Events)
    BY <1>2 DEF EventsInv
  <2>2. IsPrefix(market, market)
    BY <2>1, PrefixSelf
  <2> QED
    BY <2>1, <2>2
<1>6. ASSUME NEW u \in PeerThreads PROVE StoreInv(u)'
  <2>1. Busy(u) => serving[u].call \in Routes \union {PortfolioCall}
    BY <1>1, JobFacts
  <2> QED
    BY <1>2, <1>5, <2>1, StoreStays
<1> QED
  BY <1>3, <1>4, <1>6, RiskNext

\* The anomaly peer is left alone, as far as its threads' dumps go, or restarts.
LEMMA AnomalyLeft ==
  ASSUME Stepping, ReachedStays, crossed \subseteq crossed',
         \A r \in crossed' : r.stage = "detect_anomalies" => r \in crossed,
         UNCHANGED <<blob, analysed>>,
         \/ anomaly' = anomaly
         \/ anomaly' = blob /\ \A u \in PeerThreads : Busy(u) => ~ToAnomaly(u),
         \A u \in PeerThreads : SameWork(u) \/ AnalysisInv(u)'
  PROVE  AnomalyInv'
<1>1. IngestionInv /\ IngestionInv' /\ Grows /\ AnomalyInv /\ ThreadsInv
  BY SteppingFacts DEF Stepping
<1>2. analysed \in Analyses
  BY <1>1 DEF AnomalyInv, Analyses
<1>3. AnalysesGrow /\ \A h : NewlySaved(h)
  BY <1>2, NothingSaved
<1>4. ASSUME NEW m, m \in AnomalyState, AlertsInv(m.alerts), HistoryInv(m.history)
      PROVE  AlertsInv(m.alerts)' /\ HistoryInv(m.history)'
  <2>1. PICK a : a = m.alerts
    OBVIOUS
  <2>2. PICK h : h = m.history
    OBVIOUS
  <2>3. AlertsInv(a)' /\ HistoryInv(h)'
    BY <1>1, <1>3, <1>4, <2>1, <2>2, AlertsStay, HistoryStays
  <2> QED
    BY <2>1, <2>2, <2>3
<1>5. (blob \in AnomalyState)' /\ (AlertsInv(blob.alerts) /\ HistoryInv(blob.history))'
  <2>1. PICK m : m = blob
    OBVIOUS
  <2>2. m \in AnomalyState /\ AlertsInv(m.alerts) /\ HistoryInv(m.history)
    BY <1>1, <2>1 DEF AnomalyInv
  <2>3. AlertsInv(m.alerts)' /\ HistoryInv(m.history)'
    BY <1>4, <2>2
  <2>4. AlertsInv(blob.alerts)'
    BY <2>1, <2>3 DEF AlertsInv, OnceUnlessLost
  <2>5. HistoryInv(blob.history)'
    BY <2>1, <2>3 DEF HistoryInv, Holds
  <2> QED
    BY <2>1, <2>2, <2>4, <2>5
<1>6. (anomaly \in AnomalyState)' /\ (AlertsInv(anomaly.alerts) /\ HistoryInv(anomaly.history))'
  <2>1. PICK m : m = anomaly'
    OBVIOUS
  <2>2. m \in AnomalyState /\ AlertsInv(m.alerts) /\ HistoryInv(m.history)
    BY <1>1, <2>1 DEF AnomalyInv
  <2>3. AlertsInv(m.alerts)' /\ HistoryInv(m.history)'
    BY <1>4, <2>2
  <2>4. AlertsInv(anomaly.alerts)'
    BY <2>1, <2>3 DEF AlertsInv, OnceUnlessLost
  <2>5. HistoryInv(anomaly.history)'
    BY <2>1, <2>3 DEF HistoryInv, Holds
  <2> QED
    BY <2>1, <2>2, <2>4, <2>5
<1>7. ASSUME NEW u \in PeerThreads PROVE AnalysisInv(u)'
  <2>1. CASE anomaly' = anomaly /\ SameWork(u)
    <3>1. PICK h : h = anomaly.history
      OBVIOUS
    <3>2. h \in Seq(Events) /\ AnalysisInv(u)
      BY <1>1, <3>1 DEF AnomalyInv, AnomalyState
    <3>3. \A k \in DOMAIN analysed : Holds(h, k) => Holds(h, k)'
      BY <1>3, <3>2, HoldsStays
    <3>4. Busy(u) => serving[u].call \in Routes \union {PortfolioCall}
      BY <1>1, JobFacts
    <3>5. h = anomaly'.history
      BY <2>1, <3>1
    <3> QED
      BY <1>1, <1>3, <2>1, <3>1, <3>2, <3>3, <3>4, <3>5, AnalysisStays
  <2>2. CASE (Busy(u) => ~ToAnomaly(u)) /\ SameWork(u)
    BY <2>2 DEF AnalysisInv, SameWork, Busy, Is, ToAnomaly
  <2>3. CASE AnalysisInv(u)'
    BY <2>3
  <2> QED
    BY <2>1, <2>2, <2>3
<1>8. CrossedInv'
  BY <1>1, CrossedStays DEF AnomalyInv
<1>9. analysed' \in Seq([event : Events, saved : BOOLEAN])
  BY <1>2 DEF Analyses
<1> QED
  BY <1>5, <1>6, <1>7, <1>8, <1>9 DEF AnomalyInv

-----------------------------------------------------------------------------
(* The steps of the pipeline: calls are taken.                             *)

\* The parts of the invariant after a step.
LEMMA PipelineParts ==
  ASSUME Stepping, ThreadsInv', AnomalyInv', RiskInv', crossed' \subseteq Routes \union {PortfolioCall}
  PROVE  PipelineInv'
  BY DEF Stepping, PipelineInv

\* A thread that is free, or serves the other peer, has nothing to keep.
LEMMA NotServing ==
  ASSUME NEW t \in PeerThreads
  PROVE  /\ (Busy(t) => ~ToAnomaly(t))' => AnalysisInv(t)'
         /\ (Busy(t) => ToAnomaly(t))' => StoreInv(t)' /\ ~Dumping(t)'
  BY DEF AnalysisInv, StoreInv, Dumping, Busy, Is

\* The ingestion peer is left alone.
LEMMA CallersLeft ==
  ASSUME Stepping, UNCHANGED <<th, late>>, FileKeeps, crossed \subseteq crossed'
  PROVE  PassedInv' /\ ComputesInv'
<1>1. IngestionInv /\ Grows /\ RiskInv
  BY SteppingFacts DEF Stepping
<1>2. PassedInv /\ ComputesInv
  BY <1>1, RiskParts
<1>3. PassedInv'
  BY <1>1, <1>2, PassedKept
<1>4. \A e \in Events : late'[The("compute_risk", e)] = late[The("compute_risk", e)]
  OBVIOUS
<1>5. ComputesInv'
  BY <1>1, <1>2, <1>4, ComputesStay
<1> QED
  BY <1>3, <1>5

\* A handler ends: the event that a worker has had stored is kept.
LEMMA CallersGoOn ==
  ASSUME Stepping, NEW t \in PeerThreads, Busy(t), Ends(t), FileKeeps, crossed \subseteq crossed',
         NEW e, e = serving[t].call.event,
         serving[t].call.stage = "store_market_events" /\ serving[t].awaited => StoredOrNot(e)'
  PROVE  PassedInv' /\ ComputesInv'
<1>1. IngestionInv /\ IngestionInv' /\ Grows /\ RiskInv /\ ThreadsInv
  BY SteppingFacts DEF Stepping
<1>2. PassedInv /\ ComputesInv
  BY <1>1, RiskParts
<1>3. PICK c : c = serving[t].call
  OBVIOUS
<1>4. /\ \A q \in Routes : late'[q] <= late[q] /\ (q # c => delivered'[q] = delivered[q])
      /\ \/ th' = th
         \/ \E w \in Workers : GoesOn(w) /\ At(w, "call") /\ Current(w) = c /\ serving[t].awaited
  BY <1>1, <1>3, EndFacts
<1>5. PassedInv'
  <2>1. CASE th' = th
    BY <1>1, <1>2, <2>1, PassedKept
  <2>2. ASSUME NEW w \in Workers, GoesOn(w), At(w, "call"), Current(w) = c, serving[t].awaited
        PROVE  PassedInv'
    <3>1. PICK d : d = th[w].event
      OBVIOUS
    <3>2. c.event = d /\ d \in Events
      <4>1. ~At(w, "idle")
        BY <2>2 DEF At
      <4> QED
        BY <1>1, <2>2, <3>1, <4>1, ThreadFacts DEF Current, Route
    <3>3. Current(w) = The("store_market_events", d) => StoredOrNot(d)'
      <4>1. The("store_market_events", d).stage = "store_market_events"
        BY <3>2, TheFacts DEF Stages
      <4> QED
        BY <1>3, <2>2, <3>2, <4>1
    <3> QED
      BY <1>1, <1>2, <1>4, <2>2, <3>1, <3>3, PassedGoesOn
  <2> QED
    BY <1>4, <2>1, <2>2
<1>6. \A d \in Events : late'[The("compute_risk", d)] > 0 => late[The("compute_risk", d)] > 0
  <2> SUFFICES ASSUME NEW d \in Events, late'[The("compute_risk", d)] > 0
               PROVE  late[The("compute_risk", d)] > 0
    OBVIOUS
  <2>1. PICK r \in Routes : r = The("compute_risk", d)
    BY TheFacts DEF Stages
  <2>2. late'[r] <= late[r] /\ late'[r] \in Nat /\ late[r] \in Nat
    BY <1>1, <1>4 DEF IngestionInv, TypeOK
  <2> QED
    BY <2>1, <2>2
<1>7. ComputesInv'
  BY <1>1, <1>2, <1>6, ComputesStay
<1> QED
  BY <1>5, <1>7

\* Thread t takes a step for the anomaly peer, which concerns no event that is stored.
LEMMA RiskApart ==
  ASSUME Stepping, ReachedStays, NEW t \in PeerThreads, (Busy(t) => ToAnomaly(t))',
         \A u \in PeerThreads : u # t => SameWork(u), UNCHANGED riskVars, crossed \subseteq crossed',
         UNCHANGED vars \/ (Busy(t) /\ ToAnomaly(t) /\ Ends(t))
  PROVE  RiskInv'
<1>1. RiskInv /\ Grows
  BY SteppingFacts DEF Stepping
<1>2. EventsInv /\ FileInv /\ SnapshotsInv
  BY <1>1, RiskParts
<1>3. UNCHANGED <<market, riskFile, snapshots>>
  BY DEF riskVars
<1>4. StoreInv(t)' /\ ~Dumping(t)'
  BY NotServing
<1>5. FileKeeps
  <2>1. \A u \in PeerThreads : u # t /\ Dumping(u)' =>
          Dumping(u) /\ serving'[u].dump.events = serving[u].dump.events
    BY DEF SameWork, Dumping, ToAnomaly
  <2> QED
    BY <1>2, <1>3, <1>4, <2>1, FileLeft DEF EventsInv, FileInv
<1>6. SnapshotsInv'
  BY <1>1, <1>2, <1>3, NoCompute
<1>7. PassedInv' /\ ComputesInv'
  <2>1. CASE UNCHANGED vars
    <3>1. UNCHANGED <<th, late>>
      BY <2>1 DEF vars, outside, calls
    <3> QED
      BY <1>5, <3>1, CallersLeft
  <2>2. CASE Busy(t) /\ ToAnomaly(t) /\ Ends(t)
    <3>1. serving[t].call.stage # "store_market_events"
      BY <2>2 DEF ToAnomaly
    <3>2. PICK e : e = serving[t].call.event
      OBVIOUS
    <3> QED
      BY <1>5, <2>2, <3>1, <3>2, CallersGoOn
  <2> QED
    BY <2>1, <2>2
<1> QED
  BY <1>3, <1>4, <1>5, <1>6, <1>7, RiskLeft

\* Thread t takes a step for the risk peer.
LEMMA AnomalyApart ==
  ASSUME Stepping, ReachedStays, NEW t \in PeerThreads, (Busy(t) => ~ToAnomaly(t))',
         \A u \in PeerThreads : u # t => SameWork(u), UNCHANGED anomalyVars,
         crossed \subseteq crossed', \A r \in crossed' : r.stage = "detect_anomalies" => r \in crossed
  PROVE  AnomalyInv'
<1>1. AnalysisInv(t)'
  BY NotServing
<1>2. UNCHANGED <<anomaly, blob, analysed>>
  BY DEF anomalyVars
<1> QED
  BY <1>1, <1>2, AnomalyLeft

\* A thread that takes a call, and its local variables.
JobOf(r, awaited) == [Free EXCEPT !.call = r, !.awaited = awaited]

\* A free thread that takes the call of a route is one of its jobs.
LEMMA TakerFacts ==
  ASSUME NEW r \in Routes, NEW awaited \in BOOLEAN
  PROVE  /\ JobOf(r, awaited) \in Job
         /\ JobOf(r, awaited).call = r /\ JobOf(r, awaited).awaited = awaited
         /\ JobOf(r, awaited).baseline = << >> /\ JobOf(r, awaited).after = "answer"
<1>1. Free \in Job
  BY FreeFacts
<1> QED
  BY <1>1 DEF JobOf, Free, Job, Nil

\* It begins to serve it.
LEMMA JobNext ==
  ASSUME NEW job \in Job
  PROVE  /\ \A pc \in AnomalySteps : \A h \in Seq(Events) : \A alert \in BOOLEAN :
              [job EXCEPT !.pc = pc, !.baseline = h, !.alert = alert] \in Job
         /\ \A pc \in RiskSteps : \A after \in {"answer", "auto"} :
              [job EXCEPT !.pc = pc, !.after = after] \in Job /\ [job EXCEPT !.pc = pc] \in Job
<1>1. ASSUME NEW pc \in AnomalySteps, NEW h \in Seq(Events), NEW alert \in BOOLEAN
      PROVE  [job EXCEPT !.pc = pc, !.baseline = h, !.alert = alert] \in Job
  BY DEF Job
<1>2. ASSUME NEW pc \in RiskSteps, NEW after \in {"answer", "auto"}
      PROVE  [job EXCEPT !.pc = pc, !.after = after] \in Job /\ [job EXCEPT !.pc = pc] \in Job
  BY DEF Job
<1> QED
  BY <1>1, <1>2

\* A thread takes a call of analyze_event.
LEMMA AnalyzeStep ==
  ASSUME Stepping, NEW t \in PeerThreads, ~Busy(t), NEW r \in Routes, r.stage = "detect_anomalies",
         NEW awaited \in BOOLEAN, Asked(r, awaited),
         NEW job, job = JobOf(r, awaited),
         AnalyzeEvent(t, job), UNCHANGED <<vars, crossed>>
  PROVE  PipelineInv'
<1>1. /\ IngestionInv /\ IngestionInv' /\ Grows /\ ThreadsInv /\ AnomalyInv
      /\ crossed \subseteq Routes \union {PortfolioCall}
  BY SteppingFacts DEF Stepping
<1>2. PICK h : h = anomaly.history
  OBVIOUS
<1>3. PICK alert \in BOOLEAN :
        Becomes(t, [job EXCEPT !.pc = "append", !.baseline = h, !.alert = alert])
  BY <1>2 DEF AnalyzeEvent
<1>4. PICK j : j = [job EXCEPT !.pc = "append", !.baseline = h, !.alert = alert]
  OBVIOUS
<1>5. h \in Seq(Events) /\ HistoryInv(h)
  BY <1>1, <1>2 DEF AnomalyInv, AnomalyState
<1>6. /\ j \in Job /\ j.call = r /\ j.awaited = awaited /\ j.pc = "append" /\ j.baseline = h
  <2>1. job \in Job /\ job.call = r /\ job.awaited = awaited
    BY TakerFacts
  <2>2. j \in Job
    BY <1>4, <1>5, <2>1, JobNext DEF AnomalySteps
  <2> QED
    BY <1>4, <2>1, <2>2 DEF Job
<1>7. Becomes(t, j) /\ UNCHANGED vars /\ crossed' = crossed
  BY <1>3, <1>4
<1>8. ThreadsInv' /\ ReachedStays /\ \A u \in PeerThreads : u # t => SameWork(u)
  BY <1>6, <1>7, ThreadTakes DEF AnomalySteps
<1>9. serving'[t] = j
  BY <1>1, <1>7, BecomesFacts
<1>10. AnalysisInv(t)'
  <2>1. ASSUME r.event \in ToSet(h) PROVE lost'[r] > 0
    <3>1. r = The("detect_anomalies", r.event)
      BY RouteIsThe
    <3>2. Reached(r, AnomalySteps)
      BY <1>5, <2>1, <3>1 DEF HistoryInv
    <3>3. lost[r] > 0
      BY <1>1, <3>2, TakenAgain DEF AnomalySteps
    <3> QED
      BY <1>7, <3>3 DEF vars, observers
  <2> QED
    BY <1>6, <1>9, <2>1 DEF AnalysisInv
<1>11. UNCHANGED anomalyVars /\ UNCHANGED riskVars
  BY DEF AnalyzeEvent
<1>12. AnomalyInv'
  <2>1. UNCHANGED <<anomaly, blob, analysed>>
    BY <1>11 DEF anomalyVars
  <2> QED
    BY <1>7, <1>8, <1>10, <2>1, AnomalyLeft
<1>13. (Busy(t) => ToAnomaly(t))'
  BY <1>6, <1>9 DEF ToAnomaly
<1>14. RiskInv'
  BY <1>7, <1>8, <1>11, <1>13, RiskApart
<1> QED
  BY <1>1, <1>7, <1>8, <1>12, <1>14, PipelineParts

\* A thread takes a call of compute_risk: its event is settled, and the snapshot
\* made from what is in memory.
LEMMA ComputeRiskStep ==
  ASSUME Stepping, NEW t \in PeerThreads, ~Busy(t), NEW r \in Routes, r.stage = "compute_risk",
         NEW awaited \in BOOLEAN, Asked(r, awaited),
         NEW job, job = JobOf(r, awaited),
         ComputeRisk(t, job), UNCHANGED <<vars, crossed>>
  PROVE  PipelineInv'
<1>1. /\ IngestionInv /\ IngestionInv' /\ Grows /\ ThreadsInv /\ RiskInv
      /\ crossed \subseteq Routes \union {PortfolioCall}
  BY SteppingFacts DEF Stepping
<1>2. EventsInv /\ FileInv /\ SnapshotsInv /\ PassedInv /\ ComputesInv
  BY <1>1, RiskParts
<1>3. PICK j : j = [job EXCEPT !.pc = "dump_events"]
  OBVIOUS
<1>4. j \in Job /\ j.call = r /\ j.awaited = awaited /\ j.pc = "dump_events" /\ j.after = "answer"
  <2>1. job \in Job /\ job.call = r /\ job.awaited = awaited /\ job.after = "answer"
    BY TakerFacts
  <2>2. j \in Job
    BY <1>3, <2>1, JobNext DEF RiskSteps
  <2> QED
    BY <1>3, <2>1, <2>2 DEF Job
<1>5. /\ Becomes(t, j) /\ UNCHANGED vars /\ UNCHANGED <<crossed, market, riskFile, anomalyVars>>
      /\ Compute(r.event)
  <2>1. job.call.event = r.event
    BY TakerFacts
  <2> QED
    BY <1>3, <2>1 DEF ComputeRisk
<1>6. ThreadsInv' /\ ReachedStays /\ \A u \in PeerThreads : u # t => SameWork(u)
  BY <1>4, <1>5, ThreadTakes DEF RiskSteps
<1>7. serving'[t] = j
  BY <1>1, <1>5, BecomesFacts
<1>8. (Busy(t) => ~ToAnomaly(t))' /\ ~Dumping(t)' /\ StoreInv(t)'
  BY <1>4, <1>7 DEF ToAnomaly, Dumping, StoreInv
<1>9. AnomalyInv'
  BY <1>5, <1>6, <1>8, AnomalyApart
<1>10. PICK e \in Events : e = r.event /\ r = The("compute_risk", e)
  BY RouteIsThe
<1>11. StoredOrNot(e)
  <2>1. CASE late[r] > 0
    BY <1>2, <1>10, <2>1 DEF ComputesInv
  <2>2. ASSUME NEW w \in Workers, At(w, "call"), Current(w) = r PROVE StoredOrNot(e)
    BY <1>1, <1>2, <1>10, <2>2, ComputeHasPassed
  <2> QED
    BY <2>1, <2>2 DEF Asked
<1>12. SnapshotsInv'
  BY <1>1, <1>2, <1>5, <1>10, <1>11, ComputeStep DEF EventsInv, FileInv
<1>13. FileKeeps
  <2>1. \A u \in PeerThreads : u # t /\ Dumping(u)' =>
          Dumping(u) /\ serving'[u].dump.events = serving[u].dump.events
    BY <1>6 DEF SameWork, Dumping, ToAnomaly
  <2> QED
    BY <1>2, <1>5, <1>8, <2>1, FileLeft DEF EventsInv, FileInv
<1>14. PassedInv' /\ ComputesInv'
  <2>1. UNCHANGED <<th, late>>
    BY <1>5 DEF vars, outside, calls
  <2> QED
    BY <1>5, <1>13, <2>1, CallersLeft
<1>15. RiskInv'
  BY <1>5, <1>6, <1>8, <1>12, <1>13, <1>14, RiskLeft
<1> QED
  BY <1>1, <1>5, <1>6, <1>9, <1>15, PipelineParts

\* An event joins those in memory: the call that brings it is served for the first
\* time, or was given up.
LEMMA EventJoins ==
  ASSUME Stepping, EventsInv, ReachedStays, UNCHANGED <<raw, lost, overlapped>>,
         NEW e \in Events, NEW r \in Routes, r = The("store_market_events", e),
         NEW awaited, Asked(r, awaited), market' = Append(market, e), Reached(r, RiskSteps)'
  PROVE  EventsInv' /\ IsPrefix(market, market') /\ ToSet(market') = ToSet(market) \union {e}
<1>1. /\ IngestionInv /\ IngestionInv' /\ Grows /\ RawInv /\ ThreadsInv /\ market \in Seq(Events)
      /\ ToSet(market) \subseteq Events
  BY SteppingFacts, ToSetFacts DEF Stepping, EventsInv
<1>2. PICK n : n = market'
  OBVIOUS
<1>3. /\ n \in Seq(Events) /\ Len(n) = Len(market) + 1 /\ n[Len(n)] = e
      /\ \A i \in 1..Len(market) : n[i] = market[i]
  BY <1>1, <1>2
<1>4. ToSet(n) = ToSet(market) \union {e} /\ IsPrefix(market, n)
  BY <1>1, <1>3, AppendFacts
<1>5. \A x \in ToSet(market) : Reached(The("store_market_events", x), RiskSteps)'
  BY <1>1, CallsStay DEF EventsInv
<1>6. ~overlapped' => InOrder(n)'
  <2> SUFFICES ASSUME ~overlapped PROVE InOrder(n)'
    OBVIOUS
  <2>1. InOrder(market)
    BY <1>1, InOrderFacts DEF EventsInv
  <2>2. \/ lost[The("store_market_events", e)] > 0
        \/ \A x \in ToSet(market) : x \in ToSet(raw) => Position(x) < Position(e)
    BY <1>1, StoreOrder
  <2>3. PICK m : m = market
    OBVIOUS
  <2>4. /\ m \in Seq(Events) /\ InOrder(m) /\ n = Append(m, e)
        /\ \/ lost[The("store_market_events", e)] > 0
           \/ \A x \in ToSet(m) : x \in ToSet(raw) => Position(x) < Position(e)
    BY <1>1, <1>2, <2>1, <2>2, <2>3
  <2>5. InOrder(n)
    BY <2>4, InOrderAppend
  <2> QED
    BY <2>5 DEF InOrder, Position, The, Route, Providers
<1>7. (market \in Seq(Events) => (PricesInOrder <=> (~overlapped => InOrder(market))))'
  BY InOrderFacts, PTL
<1>8. PricesInOrder'
  <2>1. (~overlapped => InOrder(market))'
    BY <1>2, <1>6 DEF InOrder
  <2> QED
    BY <1>2, <1>3, <1>7, <2>1
<1>9. \A x \in ToSet(market') : Reached(The("store_market_events", x), RiskSteps)'
  <2>1. Reached(The("store_market_events", e), RiskSteps)'
    BY DEF Reached
  <2> QED
    BY <1>2, <1>4, <1>5, <2>1
<1> QED
  BY <1>2, <1>3, <1>4, <1>8, <1>9 DEF EventsInv

\* A thread takes a call of ingest_event.
LEMMA IngestEventStep ==
  ASSUME Stepping, NEW t \in PeerThreads, ~Busy(t), NEW r \in Routes, r.stage = "store_market_events",
         NEW awaited \in BOOLEAN, Asked(r, awaited),
         NEW job, job = JobOf(r, awaited),
         IngestEvent(t, job), UNCHANGED <<vars, crossed>>
  PROVE  PipelineInv'
<1>1. /\ IngestionInv /\ IngestionInv' /\ Grows /\ ThreadsInv /\ RiskInv
      /\ crossed \subseteq Routes \union {PortfolioCall}
  BY SteppingFacts DEF Stepping
<1>2. /\ EventsInv /\ FileInv /\ SnapshotsInv /\ market \in Seq(Events)
      /\ \A u \in PeerThreads : StoreInv(u)
  BY <1>1, RiskParts DEF EventsInv
<1>3. PICK j : j = [job EXCEPT !.pc = "dump_events", !.after = "auto"]
  OBVIOUS
<1>4. j \in Job /\ j.call = r /\ j.awaited = awaited /\ j.pc = "dump_events" /\ j.after = "auto"
  <2>1. job \in Job /\ job.call = r /\ job.awaited = awaited
    BY TakerFacts
  <2>2. j \in Job
    BY <1>3, <2>1, JobNext DEF RiskSteps
  <2> QED
    BY <1>3, <2>1, <2>2 DEF Job
<1>5. PICK e \in Events : e = r.event /\ r = The("store_market_events", e)
  BY RouteIsThe
<1>6. /\ Becomes(t, j) /\ UNCHANGED vars /\ UNCHANGED <<crossed, riskFile, snapshots, anomalyVars>>
      /\ market' = Append(market, e)
  <2>1. job.call = r
    BY TakerFacts
  <2> QED
    BY <1>3, <1>5, <2>1 DEF IngestEvent
<1>7. ThreadsInv' /\ ReachedStays /\ \A u \in PeerThreads : u # t => SameWork(u)
  BY <1>4, <1>6, ThreadTakes DEF RiskSteps
<1>8. serving'[t] = j
  BY <1>1, <1>6, BecomesFacts
<1>9. EventsInv' /\ IsPrefix(market, market') /\ ToSet(market') = ToSet(market) \union {e}
  <2>1. Reached(r, RiskSteps)'
    BY <1>4, <1>8 DEF Reached, RiskSteps
  <2>2. UNCHANGED <<raw, lost, overlapped>>
    BY <1>6 DEF vars, lists, observers
  <2> QED
    BY <1>2, <1>5, <1>6, <1>7, <2>1, <2>2, EventJoins
<1>10. (Busy(t) => ~ToAnomaly(t))' /\ ~Dumping(t)' /\ StoreInv(t)'
  <2>1. (Busy(t) => ~ToAnomaly(t))' /\ ~Dumping(t)'
    BY <1>4, <1>8 DEF ToAnomaly, Dumping
  <2> QED
    BY <1>4, <1>5, <1>8, <1>9, <2>1 DEF StoreInv, Dumping
<1>11. AnomalyInv'
  BY <1>6, <1>7, <1>10, AnomalyApart
<1>12. SnapshotsInv'
  BY <1>1, <1>2, <1>6, NoCompute
<1>13. FileKeeps
  <2>1. \A u \in PeerThreads : u # t /\ Dumping(u)' =>
          Dumping(u) /\ serving'[u].dump.events = serving[u].dump.events
    BY <1>7 DEF SameWork, Dumping, ToAnomaly
  <2> QED
    BY <1>2, <1>6, <1>10, <2>1, FileLeft DEF FileInv
<1>14. PassedInv' /\ ComputesInv'
  <2>1. UNCHANGED <<th, late>>
    BY <1>6 DEF vars, outside, calls
  <2> QED
    BY <1>6, <1>13, <2>1, CallersLeft
<1>15. market' \in Seq(Events)
  BY <1>9 DEF EventsInv
<1>16. FileInv'
  <2>1. riskFile.events \in Seq(Events) /\ IsPrefix(riskFile.events, market)
    BY <1>2 DEF FileInv, RiskState
  <2>2. IsPrefix(riskFile.events, market')
    BY <1>2, <1>9, <1>15, <2>1, PrefixTrans
  <2> QED
    BY <1>2, <1>6, <2>2 DEF FileInv
<1>17. ASSUME NEW u \in PeerThreads PROVE StoreInv(u)'
  <2>1. CASE u = t
    BY <1>10, <2>1
  <2>2. CASE u # t
    <3>1. Busy(u) => serving[u].call \in Routes \union {PortfolioCall}
      BY <1>1, JobFacts
    <3>2. SameWork(u) /\ StoreInv(u)
      BY <1>2, <1>7, <2>2
    <3> QED
      BY <1>2, <1>6, <1>9, <1>13, <1>15, <3>1, <3>2, StoreStays
  <2> QED
    BY <2>1, <2>2
<1>18. RiskInv'
  BY <1>9, <1>12, <1>14, <1>16, <1>17, RiskNext
<1> QED
  BY <1>1, <1>6, <1>7, <1>11, <1>18, PipelineParts

\* A thread takes a call.
LEMMA TakeStep ==
  ASSUME Stepping, NEW t \in PeerThreads, TakeCall(t) \/ TakeLate(t)
  PROVE  PipelineInv'
<1>1. IngestionInv /\ ThreadsInv /\ LateIsLost
  BY SteppingFacts DEF Stepping
<1>2. PICK r \in Routes, awaited \in BOOLEAN : Takes(t, r, awaited) /\ Asked(r, awaited)
  BY <1>1, TakeFacts
<1>3. PICK job : job = JobOf(r, awaited)
  OBVIOUS
<1>4. /\ ~Busy(t) /\ UNCHANGED <<vars, crossed>>
      /\ \/ r.stage = "detect_anomalies" /\ AnalyzeEvent(t, job)
         \/ r.stage = "store_market_events" /\ IngestEvent(t, job)
         \/ r.stage = "compute_risk" /\ ComputeRisk(t, job)
  BY <1>2, <1>3 DEF Takes, JobOf
<1>5. CASE r.stage = "detect_anomalies" /\ AnalyzeEvent(t, job)
  BY <1>2, <1>3, <1>4, <1>5, AnalyzeStep
<1>6. CASE r.stage = "store_market_events" /\ IngestEvent(t, job)
  BY <1>2, <1>3, <1>4, <1>6, IngestEventStep
<1>7. CASE r.stage = "compute_risk" /\ ComputeRisk(t, job)
  BY <1>2, <1>3, <1>4, <1>7, ComputeRiskStep
<1> QED
  BY <1>4, <1>5, <1>6, <1>7

-----------------------------------------------------------------------------
(* The steps of the pipeline: the handlers of the risk peer.               *)

\* A thread of the risk peer: its job, and what StoreInv says of it.
LEMMA StoringFacts ==
  ASSUME Stepping, NEW t \in PeerThreads, Busy(t), ~ToAnomaly(t), NEW j, j = serving[t],
         NEW e, e = j.call.event
  PROVE  /\ j \in Job /\ j.pc \in RiskSteps /\ j.call \in Routes \union {PortfolioCall}
         /\ Dumping(t) => j.dump \in RiskState /\ IsPrefix(j.dump.events, market)
         /\ j.pc = "auto" => j.after = "auto"
         /\ j.after = "auto" => j.call.stage = "store_market_events"
         /\ j.call.stage = "store_market_events" =>
              /\ e \in ToSet(market) /\ e \in Events /\ j.call = The("store_market_events", e)
              /\ Dumping(t) => e \in ToSet(j.dump.events)
              /\ (j.pc = "auto" \/ j.after = "answer") => Durable(e) \/ j.call \in crossed
              /\ (j.pc = "auto" \/ j.after = "answer") => StoredOrNot(e)
<1>1. ThreadsInv /\ RiskInv
  BY SteppingFacts
<1>2. StoreInv(t)
  BY <1>1, RiskParts
<1>3. j \in Job /\ j.pc \in RiskSteps /\ j.call \in Routes \union {PortfolioCall}
  BY <1>1, JobFacts
<1>4. j.call.stage = "store_market_events" => e \in Events /\ j.call = The("store_market_events", e)
  <2>1. PortfolioCall.stage # "store_market_events"
    BY DEF PortfolioCall, Route
  <2> QED
    BY <1>3, <2>1, RouteIsThe
<1>5. /\ Dumping(t) => j.dump \in RiskState /\ IsPrefix(j.dump.events, market)
      /\ j.pc = "auto" => j.after = "auto"
      /\ j.after = "auto" => j.call.stage = "store_market_events"
      /\ j.call.stage = "store_market_events" =>
           /\ e \in ToSet(market)
           /\ Dumping(t) => e \in ToSet(j.dump.events)
           /\ (j.pc = "auto" \/ j.after = "answer") => Durable(e) \/ j.call \in crossed
  BY <1>2 DEF StoreInv
<1>6. (j.call.stage = "store_market_events" /\ (Durable(e) \/ j.call \in crossed)) => StoredOrNot(e)
  BY <1>4 DEF StoredOrNot
<1> QED
  BY <1>3, <1>4, <1>5, <1>6

\* Thread t takes a step for the risk peer that saves nothing.
LEMMA RiskMoves ==
  ASSUME Stepping, ThreadsInv', ReachedStays, NEW t \in PeerThreads, (Busy(t) => ~ToAnomaly(t))',
         \A u \in PeerThreads : u # t => SameWork(u),
         UNCHANGED <<anomalyVars, market, riskFile, crossed>>, SnapshotsInv',
         Dumping(t)' => \/ Dumping(t) /\ serving'[t].dump.events = serving[t].dump.events
                        \/ serving'[t].dump.events = market,
         FileKeeps => StoreInv(t)',
         UNCHANGED <<th, late>> \/ (FileKeeps => PassedInv' /\ ComputesInv')
  PROVE  PipelineInv'
<1>1. RiskInv /\ crossed \subseteq Routes \union {PortfolioCall}
  BY SteppingFacts
<1>2. EventsInv /\ FileInv
  BY <1>1, RiskParts
<1>3. FileKeeps
  <2>1. \A u \in PeerThreads : u # t /\ Dumping(u)' =>
          Dumping(u) /\ serving'[u].dump.events = serving[u].dump.events
    BY DEF SameWork, Dumping, ToAnomaly
  <2> QED
    BY <1>2, <2>1, FileLeft DEF EventsInv, FileInv
<1>4. PassedInv' /\ ComputesInv'
  BY <1>3, CallersLeft
<1>5. RiskInv'
  BY <1>3, <1>4, RiskLeft
<1>6. AnomalyInv'
  BY AnomalyApart
<1> QED
  BY <1>1, <1>5, <1>6, PipelineParts

\* set_portfolio begins.
LEMMA PortfolioStep ==
  ASSUME Stepping, NEW t \in PeerThreads, Portfolio(t)
  PROVE  PipelineInv'
<1>1. IngestionInv /\ IngestionInv' /\ Grows /\ ThreadsInv /\ RiskInv
  BY SteppingFacts DEF Stepping
<1>2. PICK job : job = [Free EXCEPT !.pc = "dump_events", !.call = PortfolioCall]
  OBVIOUS
<1>3. job \in Job /\ job.pc = "dump_events" /\ job.call = PortfolioCall /\ ~job.awaited /\ job.after = "answer"
  <2>1. Free \in Job
    BY FreeFacts
  <2> QED
    BY <1>2, <2>1 DEF Free, Job, RiskSteps
<1>4. /\ ~Busy(t) /\ Becomes(t, job) /\ UNCHANGED <<anomalyVars, riskVars, crossed>>
      /\ UNCHANGED <<th, late>>
  BY <1>2 DEF Portfolio, SetPortfolio, calls
<1>5. PortfolioCall \notin Routes /\ PortfolioCall.stage = "set_portfolio" /\ PortfolioCall # Nil
  <2>1. PortfolioCall.stage = "set_portfolio" /\ "stage" \in DOMAIN PortfolioCall
    BY DEF PortfolioCall, Route
  <2>2. DOMAIN Nil = {}
    BY DEF Nil
  <2> QED
    BY <1>1, <2>1, <2>2, JobFacts
<1>6. serving'[t] = job /\ \A u \in PeerThreads : u # t => serving'[u] = serving[u]
  BY <1>1, <1>4, BecomesFacts
<1>7. ThreadsInv'
  BY <1>1, <1>3, <1>4, <1>5, ThreadsNext DEF RiskSteps
<1>8. ReachedStays
  BY <1>1, <1>4, ReachedNext
<1>9. (Busy(t) => ~ToAnomaly(t))' /\ ~Dumping(t)' /\ StoreInv(t)'
  BY <1>3, <1>5, <1>6 DEF ToAnomaly, Dumping, StoreInv
<1>10. \A u \in PeerThreads : u # t => SameWork(u)
  BY <1>6 DEF SameWork
<1>11. SnapshotsInv'
  BY <1>1, <1>4, RiskParts, NoCompute DEF riskVars
<1>12. UNCHANGED <<anomalyVars, market, riskFile, crossed>>
  BY <1>4 DEF riskVars
<1> QED
  BY <1>4, <1>7, <1>8, <1>9, <1>10, <1>11, <1>12, RiskMoves

\* The events in memory are serialised.
LEMMA DumpEventsStep ==
  ASSUME Stepping, NEW t \in PeerThreads, DumpEvents(t)
  PROVE  PipelineInv'
<1>1. IngestionInv /\ Grows /\ ThreadsInv /\ RiskInv
  BY SteppingFacts DEF Stepping
<1>2. PICK j : j = serving[t]
  OBVIOUS
<1>3. PICK e : e = j.call.event
  OBVIOUS
<1>4. PICK job : job = [j EXCEPT !.pc = "dump_portfolio", !.dump = [events |-> market, portfolio |-> FALSE]]
  OBVIOUS
<1>5. /\ Becomes(t, job) /\ UNCHANGED vars /\ UNCHANGED <<anomalyVars, riskVars, crossed>>
      /\ j.pc = "dump_events" /\ Busy(t)
  BY <1>2, <1>4 DEF DumpEvents, Busy, Is
<1>6. ~ToAnomaly(t)
  BY <1>1, <1>2, <1>5, JobFacts DEF AnomalySteps
<1>7. /\ j \in Job
      /\ j.after = "auto" => j.call.stage = "store_market_events"
      /\ j.call.stage = "store_market_events" =>
           /\ e \in ToSet(market) /\ e \in Events
           /\ (j.pc = "auto" \/ j.after = "answer") => Durable(e) \/ j.call \in crossed
  BY <1>2, <1>3, <1>5, <1>6, StoringFacts
<1>8. market \in Seq(Events) /\ IsPrefix(market, market)
  BY <1>1, RiskParts, PrefixSelf DEF EventsInv
<1>9. /\ job \in Job /\ job.pc = "dump_portfolio" /\ job.call = j.call /\ job.awaited = j.awaited
      /\ job.after = j.after /\ job.dump \in RiskState /\ job.dump.events = market
  <2>1. PICK d : d = [events |-> market, portfolio |-> FALSE]
    OBVIOUS
  <2>2. d \in RiskState /\ d.events = market
    BY <1>8, <2>1 DEF RiskState
  <2>3. job = [j EXCEPT !.pc = "dump_portfolio", !.dump = d]
    BY <1>4, <2>1
  <2> QED
    BY <1>7, <2>2, <2>3 DEF Job, RiskSteps
<1>10. ThreadsInv' /\ ReachedStays /\ \A u \in PeerThreads : u # t => SameWork(u)
  BY <1>2, <1>5, <1>6, <1>9, ThreadMoves DEF RiskSteps
<1>11. serving'[t] = job
  BY <1>1, <1>5, BecomesFacts
<1>12. (Busy(t) => ~ToAnomaly(t))'
  BY <1>2, <1>6, <1>9, <1>11 DEF ToAnomaly
<1>13. ASSUME FileKeeps PROVE StoreInv(t)'
  <2>1. j.call.stage = "store_market_events" => (Durable(e) => Durable(e)')
    BY <1>7, <1>13 DEF FileKeeps
  <2>2. UNCHANGED <<market, crossed>>
    BY <1>5 DEF riskVars
  <2>3. j.pc # "auto"
    BY <1>5
  <2> QED
    BY <1>3, <1>7, <1>8, <1>9, <1>11, <2>1, <2>2, <2>3 DEF StoreInv
<1>14. SnapshotsInv'
  BY <1>1, <1>5, RiskParts, NoCompute DEF riskVars
<1>15. UNCHANGED <<anomalyVars, market, riskFile, crossed>> /\ UNCHANGED <<th, late>>
  BY <1>5 DEF riskVars, vars, outside, calls
<1> QED
  BY <1>9, <1>10, <1>11, <1>12, <1>13, <1>14, <1>15, RiskMoves

\* The portfolio is serialised.
LEMMA DumpPortfolioStep ==
  ASSUME Stepping, NEW t \in PeerThreads, DumpPortfolio(t)
  PROVE  PipelineInv'
<1>1. IngestionInv /\ Grows /\ ThreadsInv /\ RiskInv
  BY SteppingFacts DEF Stepping
<1>2. PICK j : j = serving[t]
  OBVIOUS
<1>3. PICK e : e = j.call.event
  OBVIOUS
<1>4. PICK job : job = [j EXCEPT !.pc = "replace", !.dump.portfolio = portfolio]
  OBVIOUS
<1>5. /\ Becomes(t, job) /\ UNCHANGED vars /\ UNCHANGED <<anomalyVars, riskVars, crossed>>
      /\ j.pc = "dump_portfolio" /\ Busy(t)
  BY <1>2, <1>4 DEF DumpPortfolio, Busy, Is
<1>6. ~ToAnomaly(t) /\ Dumping(t)
  BY <1>1, <1>2, <1>5, JobFacts DEF AnomalySteps, Dumping
<1>7. /\ j \in Job /\ j.dump \in RiskState /\ IsPrefix(j.dump.events, market)
      /\ j.after = "auto" => j.call.stage = "store_market_events"
      /\ j.call.stage = "store_market_events" =>
           /\ e \in ToSet(market) /\ e \in Events /\ e \in ToSet(j.dump.events)
           /\ j.after = "answer" => Durable(e) \/ j.call \in crossed
  BY <1>2, <1>3, <1>5, <1>6, StoringFacts
<1>8. /\ job \in Job /\ job.pc = "replace" /\ job.call = j.call /\ job.awaited = j.awaited
      /\ job.after = j.after /\ job.dump \in RiskState /\ job.dump.events = j.dump.events
  <2>1. portfolio \in BOOLEAN
    BY <1>1 DEF IngestionInv, TypeOK
  <2>2. PICK d : d = [j.dump EXCEPT !.portfolio = portfolio]
    OBVIOUS
  <2>3. d \in RiskState /\ d.events = j.dump.events
    BY <1>7, <2>1, <2>2 DEF RiskState
  <2>4. job = [j EXCEPT !.pc = "replace", !.dump = d]
    BY <1>4, <1>7, <2>2 DEF Job
  <2> QED
    BY <1>7, <2>3, <2>4 DEF Job, RiskSteps
<1>9. ThreadsInv' /\ ReachedStays /\ \A u \in PeerThreads : u # t => SameWork(u)
  BY <1>2, <1>5, <1>6, <1>8, ThreadMoves DEF RiskSteps
<1>10. serving'[t] = job
  BY <1>1, <1>5, BecomesFacts
<1>11. (Busy(t) => ~ToAnomaly(t))'
  BY <1>2, <1>6, <1>8, <1>10 DEF ToAnomaly
<1>12. ASSUME FileKeeps PROVE StoreInv(t)'
  <2>1. j.call.stage = "store_market_events" => (Durable(e) => Durable(e)')
    BY <1>7, <1>12 DEF FileKeeps
  <2>2. UNCHANGED <<market, crossed>>
    BY <1>5 DEF riskVars
  <2> QED
    BY <1>3, <1>7, <1>8, <1>10, <2>1, <2>2 DEF StoreInv
<1>13. SnapshotsInv'
  BY <1>1, <1>5, RiskParts, NoCompute DEF riskVars
<1>14. UNCHANGED <<anomalyVars, market, riskFile, crossed>> /\ UNCHANGED <<th, late>>
  BY <1>5 DEF riskVars, vars, outside, calls
<1> QED
  BY <1>2, <1>6, <1>8, <1>9, <1>10, <1>11, <1>12, <1>13, <1>14, RiskMoves

\* A handler ends that leaves both peers alone.
LEMMA EndsAlone ==
  ASSUME Stepping, NEW t \in PeerThreads, Busy(t), Ends(t),
         UNCHANGED <<anomalyVars, riskVars, crossed>>,
         NEW e, e = serving[t].call.event,
         serving[t].call.stage = "store_market_events" /\ serving[t].awaited => StoredOrNot(e) /\ e \in Events
  PROVE  PipelineInv'
<1>1. IngestionInv /\ Grows /\ ThreadsInv /\ RiskInv
  BY SteppingFacts DEF Stepping
<1>2. ThreadsInv' /\ ReachedStays /\ (\A u \in PeerThreads : u # t => SameWork(u)) /\ ~Busy(t)'
  BY ThreadEnds
<1>3. (Busy(t) => ~ToAnomaly(t))' /\ (Busy(t) => ToAnomaly(t))'
  BY <1>2
<1>4. StoreInv(t)' /\ ~Dumping(t)'
  BY <1>3, NotServing
<1>5. UNCHANGED <<anomalyVars, market, riskFile, crossed>> /\ snapshots' = snapshots
  BY DEF riskVars
<1>6. SnapshotsInv'
  BY <1>1, <1>5, RiskParts, NoCompute
<1>7. ASSUME FileKeeps PROVE PassedInv' /\ ComputesInv'
  <2>1. serving[t].call.stage = "store_market_events" /\ serving[t].awaited => StoredOrNot(e)'
    BY <1>1, <1>7, SettledStays
  <2> QED
    BY <1>7, <2>1, CallersGoOn
<1> QED
  BY <1>2, <1>3, <1>4, <1>5, <1>6, <1>7, RiskMoves

\* A handler fails.
LEMMA HandlerFailsStep ==
  ASSUME Stepping, NEW t \in PeerThreads, HandlerFails(t)
  PROVE  PipelineInv'
<1>1. Busy(t) /\ ~serving[t].awaited /\ Ends(t) /\ UNCHANGED <<anomalyVars, riskVars, crossed>>
  BY DEF HandlerFails
<1>2. PICK e : e = serving[t].call.event
  OBVIOUS
<1> QED
  BY <1>1, <1>2, EndsAlone

\* The event is stored and saved, and there may be a snapshot to compute.
LEMMA AutoComputeStep ==
  ASSUME Stepping, NEW t \in PeerThreads, AutoCompute(t)
  PROVE  PipelineInv'
<1>1. IngestionInv /\ Grows /\ ThreadsInv /\ RiskInv
  BY SteppingFacts DEF Stepping
<1>2. PICK j : j = serving[t]
  OBVIOUS
<1>3. PICK e : e = j.call.event
  OBVIOUS
<1>4. j.pc = "auto" /\ Busy(t) /\ UNCHANGED <<anomalyVars, market, riskFile, crossed>>
  BY <1>2 DEF AutoCompute, Busy, Is
<1>5. ~ToAnomaly(t)
  BY <1>1, <1>2, <1>4, JobFacts DEF AnomalySteps
<1>6. /\ j \in Job /\ j.call.stage = "store_market_events" /\ e \in ToSet(market) /\ e \in Events
      /\ Durable(e) \/ j.call \in crossed
      /\ StoredOrNot(e)
  BY <1>2, <1>3, <1>4, <1>5, StoringFacts
<1>7. CASE Ends(t) /\ UNCHANGED snapshots
  <2>1. UNCHANGED <<anomalyVars, riskVars, crossed>>
    BY <1>4, <1>7 DEF riskVars
  <2> QED
    BY <1>2, <1>3, <1>4, <1>6, <1>7, <2>1, EndsAlone
<1>8. CASE /\ Compute(e) /\ UNCHANGED vars
           /\ Becomes(t, [j EXCEPT !.pc = "dump_events", !.after = "answer"])
  <2>1. PICK job : job = [j EXCEPT !.pc = "dump_events", !.after = "answer"]
    OBVIOUS
  <2>2. /\ job \in Job /\ job.pc = "dump_events" /\ job.call = j.call /\ job.awaited = j.awaited
        /\ job.after = "answer"
    BY <1>6, <2>1 DEF Job, RiskSteps
  <2>3. Becomes(t, job)
    BY <1>8, <2>1
  <2>4. ThreadsInv' /\ ReachedStays /\ \A u \in PeerThreads : u # t => SameWork(u)
    BY <1>2, <1>4, <1>5, <1>8, <2>2, <2>3, ThreadMoves DEF RiskSteps
  <2>5. serving'[t] = job
    BY <1>1, <2>3, BecomesFacts
  <2>6. (Busy(t) => ~ToAnomaly(t))' /\ ~Dumping(t)'
    BY <1>2, <1>5, <2>2, <2>5 DEF ToAnomaly, Dumping
  <2>7. ASSUME FileKeeps PROVE StoreInv(t)'
    <3>1. Durable(e) => Durable(e)'
      BY <1>6, <2>7 DEF FileKeeps
    <3>2. UNCHANGED <<market, crossed>>
      BY <1>4
    <3> QED
      BY <1>3, <1>6, <2>2, <2>5, <2>6, <3>1, <3>2 DEF StoreInv, Dumping
  <2>8. EventsInv /\ FileInv /\ SnapshotsInv
    BY <1>1, RiskParts
  <2>9. SnapshotsInv'
    BY <1>1, <1>4, <1>6, <1>8, <2>8, ComputeStep DEF EventsInv, FileInv
  <2>10. UNCHANGED <<th, late>>
    BY <1>8 DEF vars, outside, calls
  <2> QED
    BY <1>4, <2>4, <2>6, <2>7, <2>9, <2>10, RiskMoves
<1> QED
  BY <1>2, <1>3, <1>7, <1>8 DEF AutoCompute

\* The dump replaces the file.  What was durable is in this dump too; so is the call's
\* own event, which is durable from now on unless another dump is on its way.
LEMMA SaveRiskFileStep ==
  ASSUME Stepping, NEW t \in PeerThreads, SaveRiskFile(t)
  PROVE  PipelineInv'
<1>1. /\ IngestionInv /\ Grows /\ ThreadsInv /\ RiskInv /\ crossed \subseteq Routes \union {PortfolioCall}
  BY SteppingFacts DEF Stepping
<1>2. /\ EventsInv /\ FileInv /\ SnapshotsInv /\ market \in Seq(Events)
      /\ \A u \in PeerThreads : StoreInv(u)
  BY <1>1, RiskParts DEF EventsInv
<1>3. PICK j : j = serving[t]
  OBVIOUS
<1>4. PICK e : e = j.call.event
  OBVIOUS
<1>5. /\ j.pc = "replace" /\ Busy(t) /\ ~ToAnomaly(t) /\ riskFile' = j.dump /\ Cross(t)
      /\ UNCHANGED <<anomalyVars, market, snapshots>> /\ Dumping(t)
  BY <1>3 DEF SaveRiskFile, Busy, Is, Dumping
<1>6. /\ j \in Job /\ j.call \in Routes \union {PortfolioCall}
      /\ j.dump \in RiskState /\ IsPrefix(j.dump.events, market)
      /\ j.after = "auto" => j.call.stage = "store_market_events"
      /\ j.call.stage = "store_market_events" =>
           /\ e \in ToSet(market) /\ e \in Events /\ e \in ToSet(j.dump.events)
           /\ j.after = "answer" => StoredOrNot(e)
  BY <1>3, <1>4, <1>5, StoringFacts
<1>7. /\ crossed \subseteq crossed' /\ crossed' \subseteq Routes \union {PortfolioCall}
      /\ \A r \in crossed' : r.stage = "detect_anomalies" => r \in crossed
      /\ j.call \in crossed' \/ ~Crosses(t)
  BY <1>1, <1>3, <1>5, <1>6 DEF Cross, ToAnomaly
<1>8. \/ j.after = "auto" /\ Becomes(t, [j EXCEPT !.pc = "auto"]) /\ UNCHANGED vars
      \/ j.after # "auto" /\ Ends(t)
  BY <1>3 DEF SaveRiskFile
<1>9. PICK job : job = [j EXCEPT !.pc = "auto"]
  OBVIOUS
<1>10. job \in Job /\ job.pc = "auto" /\ job.call = j.call /\ job.awaited = j.awaited /\ job.after = j.after
  BY <1>6, <1>9 DEF Job, RiskSteps
<1>11. /\ ThreadsInv' /\ ReachedStays /\ (\A u \in PeerThreads : u # t => SameWork(u))
       /\ ~Busy(t)' \/ (Becomes(t, job) /\ j.after = "auto")
  <2>1. CASE j.after = "auto" /\ Becomes(t, [j EXCEPT !.pc = "auto"]) /\ UNCHANGED vars
    BY <1>3, <1>5, <1>9, <1>10, <2>1, ThreadMoves DEF RiskSteps
  <2>2. CASE j.after # "auto" /\ Ends(t)
    BY <1>5, <2>2, ThreadEnds
  <2> QED
    BY <1>8, <2>1, <2>2
<1>12. ~Busy(t)' \/ (serving'[t] = job /\ j.after = "auto")
  BY <1>1, <1>11, BecomesFacts
<1>13. (Busy(t) => ~ToAnomaly(t))' /\ ~Dumping(t)'
  BY <1>3, <1>5, <1>10, <1>12 DEF ToAnomaly, Dumping, Busy, Is
<1>14. \A u \in PeerThreads : u # t /\ Dumping(u)' =>
         Dumping(u) /\ serving'[u].dump.events = serving[u].dump.events
  BY <1>11 DEF SameWork, Dumping, ToAnomaly
<1>15. FileKeeps
  <2> SUFFICES ASSUME NEW d \in Events, Durable(d) PROVE Durable(d)'
    BY DEF FileKeeps
  <2>1. d \in ToSet(j.dump.events)
    BY <1>3, <1>5 DEF Durable
  <2>2. \A u \in PeerThreads : Dumping(u)' => d \in ToSet(serving'[u].dump.events)
    BY <1>13, <1>14 DEF Durable
  <2> QED
    BY <1>5, <2>1, <2>2 DEF Durable
<1>16. j.call.stage = "store_market_events" => Durable(e)' \/ j.call \in crossed'
  <2> SUFFICES ASSUME j.call.stage = "store_market_events", ~Crosses(t) PROVE Durable(e)'
    BY <1>7
  <2>1. \A u \in PeerThreads : u # t => ~Dumping(u)
    BY <1>5 DEF Crosses, Dumping, ToAnomaly
  <2> QED
    BY <1>5, <1>6, <1>13, <1>14, <2>1 DEF Durable
<1>17. StoreInv(t)'
  <2>1. CASE ~Busy(t)'
    BY <2>1 DEF StoreInv
  <2>2. CASE serving'[t] = job /\ j.after = "auto"
    BY <1>4, <1>5, <1>6, <1>10, <1>13, <1>16, <2>2 DEF StoreInv
  <2> QED
    BY <1>12, <2>1, <2>2
<1>18. EventsInv'
  BY <1>2, <1>5, <1>11, MarketLeft
<1>19. FileInv'
  BY <1>5, <1>6 DEF FileInv
<1>20. SnapshotsInv'
  BY <1>1, <1>2, <1>5, <1>7, NoCompute
<1>21. ASSUME NEW u \in PeerThreads PROVE StoreInv(u)'
  <2>1. CASE u # t
    <3>1. Busy(u) => serving[u].call \in Routes \union {PortfolioCall}
      BY <1>1, JobFacts
    <3>2. market' \in Seq(Events) /\ IsPrefix(market, market')
      <4>1. IsPrefix(market, market)
        BY <1>2, PrefixSelf
      <4> QED
        BY <1>2, <1>5, <4>1
    <3>3. SameWork(u) /\ StoreInv(u)
      BY <1>2, <1>11, <2>1
    <3> QED
      BY <1>2, <1>7, <1>15, <3>1, <3>2, <3>3, StoreStays
  <2> QED
    BY <1>17, <2>1
<1>22. PassedInv' /\ ComputesInv'
  <2>1. CASE UNCHANGED vars
    <3>1. UNCHANGED <<th, late>>
      BY <2>1 DEF vars, outside, calls
    <3> QED
      BY <1>7, <1>15, <3>1, CallersLeft
  <2>2. CASE j.after # "auto" /\ Ends(t)
    <3>1. j.after = "answer"
      BY <1>6, <2>2 DEF Job
    <3>2. j.call.stage = "store_market_events" => StoredOrNot(e)'
      BY <1>1, <1>6, <1>7, <1>15, <3>1, SettledStays
    <3> QED
      BY <1>3, <1>4, <1>5, <1>7, <1>15, <2>2, <3>2, CallersGoOn
  <2> QED
    BY <1>8, <2>1, <2>2
<1>23. RiskInv'
  BY <1>18, <1>19, <1>20, <1>21, <1>22, RiskNext
<1>24. AnomalyInv'
  BY <1>5, <1>7, <1>11, <1>13, AnomalyApart
<1> QED
  BY <1>7, <1>11, <1>23, <1>24, PipelineParts

-----------------------------------------------------------------------------
(* The steps of the pipeline: the handler of the anomaly peer.             *)

\* A thread of the anomaly peer: its job, and what AnalysisInv says of it.
LEMMA AnalysisFacts ==
  ASSUME Stepping, NEW t \in PeerThreads, Busy(t), ToAnomaly(t), NEW j, j = serving[t],
         NEW e, e = j.call.event
  PROVE  /\ j \in Job /\ j.pc \in AnomalySteps /\ j.call \in Routes /\ e \in Events
         /\ j.call = The("detect_anomalies", e) /\ j.call.stage = "detect_anomalies"
         /\ j.baseline \in Seq(Events)
         /\ e \in ToSet(j.baseline) => lost[j.call] > 0
         /\ j.pc # "append" =>
              /\ j.place \in DOMAIN analysed /\ analysed[j.place].event = e
              /\ Holds(anomaly.history, j.place)
         /\ j.pc \in {"dump_history", "replace"} => j.dump \in AnomalyState /\ AlertsInv(j.dump.alerts)
         /\ j.pc = "replace" => HistoryInv(j.dump.history) /\ Holds(j.dump.history, j.place)
<1>1. ThreadsInv /\ AnalysisInv(t)
  BY SteppingFacts DEF AnomalyInv
<1>2. j \in Job /\ j.pc \in AnomalySteps /\ j.call \in Routes /\ j.call.stage = "detect_anomalies"
  BY <1>1, JobFacts DEF ToAnomaly
<1>3. e \in Events /\ j.call = The("detect_anomalies", e)
  BY <1>2, RouteIsThe
<1>4. j.baseline \in Seq(Events)
  BY <1>2 DEF Job
<1> QED
  BY <1>1, <1>2, <1>3, <1>4 DEF AnalysisInv, Holds

\* Thread t goes on with an analysis, and nothing else changes at either peer.
LEMMA AnalysisMoves ==
  ASSUME Stepping, NEW t \in PeerThreads, Busy(t), ToAnomaly(t),
         UNCHANGED <<vars, anomalyVars, riskVars, crossed>>,
         NEW j, j = serving[t], j.pc # "append",
         NEW job \in Job, Becomes(t, job), job.call = j.call, job.awaited = j.awaited,
         job.baseline = j.baseline, job.place = j.place, job.pc \in AlertSteps,
         NEW a, NEW h,
         job.pc \in {"dump_history", "replace"} =>
           job.dump \in AnomalyState /\ job.dump.alerts = a /\ AlertsInv(a),
         job.pc = "replace" => job.dump.history = h /\ HistoryInv(h) /\ Holds(h, j.place)
  PROVE  PipelineInv'
<1>1. /\ IngestionInv /\ IngestionInv' /\ Grows /\ ThreadsInv /\ AnomalyInv
      /\ crossed \subseteq Routes \union {PortfolioCall}
  BY SteppingFacts DEF Stepping
<1>2. PICK e : e = j.call.event
  OBVIOUS
<1>3. /\ j.pc \in AnomalySteps /\ j.call \in Routes
      /\ e \in ToSet(j.baseline) => lost[j.call] > 0
      /\ j.place \in DOMAIN analysed /\ analysed[j.place].event = e
      /\ Holds(anomaly.history, j.place)
  BY <1>2, AnalysisFacts
<1>4. UNCHANGED <<anomaly, blob, analysed>> /\ crossed' = crossed /\ UNCHANGED vars
  BY DEF anomalyVars
<1>5. ThreadsInv' /\ ReachedStays /\ \A u \in PeerThreads : u # t => SameWork(u)
  BY <1>4, ThreadMoves DEF AlertSteps, AnomalySteps
<1>6. serving'[t] = job
  BY <1>1, BecomesFacts
<1>7. (Busy(t) => ToAnomaly(t))'
  BY <1>6 DEF ToAnomaly
<1>8. AnalysesGrow /\ \A g : NewlySaved(g)
  BY <1>1, <1>4, NothingSaved DEF AnomalyInv, Analyses
<1>9. AlertsInv(a) => AlertsInv(a)'
  BY <1>1, <1>5, AlertsStay
<1>10. HistoryInv(h) => HistoryInv(h)'
  BY <1>1, <1>4, <1>5, <1>8, HistoryStays
<1>11. HistoryInv(h) /\ Holds(h, j.place) => Holds(h, j.place)'
  BY <1>3, <1>8, HoldsStays DEF HistoryInv
<1>12. lost' = lost
  BY <1>4 DEF vars, observers
<1>13. AnalysisInv(t)'
  BY <1>2, <1>3, <1>4, <1>6, <1>9, <1>10, <1>11, <1>12 DEF AnalysisInv, Holds
<1>14. AnomalyInv'
  BY <1>4, <1>5, <1>13, AnomalyLeft
<1>15. RiskInv'
  BY <1>4, <1>5, <1>7, RiskApart
<1> QED
  BY <1>1, <1>4, <1>5, <1>14, <1>15, PipelineParts

\* The alerts in memory are serialised.
LEMMA DumpAlertsStep ==
  ASSUME Stepping, NEW t \in PeerThreads, DumpAlerts(t)
  PROVE  PipelineInv'
<1>1. ThreadsInv /\ AnomalyInv
  BY SteppingFacts
<1>2. PICK j : j = serving[t]
  OBVIOUS
<1>3. PICK a : a = anomaly.alerts
  OBVIOUS
<1>4. PICK d : d = [history |-> << >>, alerts |-> a]
  OBVIOUS
<1>5. PICK job : job = [j EXCEPT !.pc = "dump_history", !.dump = d]
  OBVIOUS
<1>6. /\ Busy(t) /\ j.pc = "dump_alerts" /\ Becomes(t, job)
      /\ UNCHANGED <<vars, anomalyVars, riskVars, crossed>>
  BY <1>2, <1>3, <1>4, <1>5 DEF DumpAlerts, Busy, Is
<1>7. ToAnomaly(t) /\ j \in Job
  BY <1>1, <1>2, <1>6, JobFacts DEF RiskSteps
<1>8. d \in AnomalyState /\ d.alerts = a /\ AlertsInv(a)
  <2>1. a \in Seq(Alert) /\ AlertsInv(a)
    BY <1>1, <1>3 DEF AnomalyInv, AlertsInv
  <2> QED
    BY <1>4, <2>1 DEF AnomalyState
<1>9. /\ job \in Job /\ job.call = j.call /\ job.awaited = j.awaited /\ job.baseline = j.baseline
      /\ job.place = j.place /\ job.pc = "dump_history" /\ job.dump = d
  BY <1>5, <1>7, <1>8 DEF Job, AnomalySteps
<1> QED
  BY <1>2, <1>6, <1>7, <1>8, <1>9, AnalysisMoves DEF AlertSteps

\* The history in memory is serialised, with the call's event in it.
LEMMA DumpHistoryStep ==
  ASSUME Stepping, NEW t \in PeerThreads, DumpHistory(t)
  PROVE  PipelineInv'
<1>1. ThreadsInv /\ AnomalyInv
  BY SteppingFacts
<1>2. PICK j : j = serving[t]
  OBVIOUS
<1>3. PICK h : h = anomaly.history
  OBVIOUS
<1>4. PICK job : job = [j EXCEPT !.pc = "replace", !.dump.history = h]
  OBVIOUS
<1>5. /\ Busy(t) /\ j.pc = "dump_history" /\ Becomes(t, job)
      /\ UNCHANGED <<vars, anomalyVars, riskVars, crossed>>
  BY <1>2, <1>3, <1>4 DEF DumpHistory, Busy, Is
<1>6. ToAnomaly(t) /\ j \in Job
  BY <1>1, <1>2, <1>5, JobFacts DEF RiskSteps
<1>7. PICK e : e = j.call.event
  OBVIOUS
<1>8. j.dump \in AnomalyState /\ AlertsInv(j.dump.alerts) /\ Holds(h, j.place)
  BY <1>2, <1>3, <1>5, <1>6, <1>7, AnalysisFacts DEF Holds
<1>9. h \in Seq(Events) /\ HistoryInv(h)
  BY <1>1, <1>3 DEF AnomalyInv, AnomalyState
<1>10. PICK d : d = [j.dump EXCEPT !.history = h]
  OBVIOUS
<1>11. PICK a : a = j.dump.alerts
  OBVIOUS
<1>12. d \in AnomalyState /\ d.alerts = a /\ d.history = h
  BY <1>8, <1>9, <1>10, <1>11 DEF AnomalyState
<1>13. job = [j EXCEPT !.pc = "replace", !.dump = d]
  BY <1>4, <1>6, <1>10 DEF Job
<1>14. /\ job \in Job /\ job.call = j.call /\ job.awaited = j.awaited /\ job.baseline = j.baseline
       /\ job.place = j.place /\ job.pc = "replace" /\ job.dump = d
  BY <1>6, <1>12, <1>13 DEF Job, AnomalySteps
<1>15. AlertsInv(a)
  BY <1>8, <1>11
<1> QED
  BY <1>2, <1>5, <1>6, <1>8, <1>9, <1>12, <1>14, <1>15, AnalysisMoves DEF AlertSteps

\* An alert joins the alerts a: it may repeat an event, or have it in its baseline,
\* only when a call for it was given up.
LEMMA OnceNew ==
  ASSUME NEW a \in Seq(Alert), OnceUnlessLost(a), lost' = lost,
         NEW x \in Alert, NEW b, b = Append(a, x),
         (\/ x.event \in ToSet(x.baseline)
          \/ \E i \in 1..Len(a) : a[i].event = x.event) => lost[The("detect_anomalies", x.event)] > 0
  PROVE  OnceUnlessLost(b)'
<1>1. /\ Len(a) \in Nat /\ Len(b) = Len(a) + 1 /\ DOMAIN a = 1..Len(a) /\ DOMAIN b = 1..Len(b)
      /\ b[Len(b)] = x /\ \A i \in 1..Len(a) : b[i] = a[i]
  OBVIOUS
<1> SUFFICES ASSUME NEW j \in 1..Len(b),
                    \/ b[j].event \in ToSet(b[j].baseline)
                    \/ \E i \in 1..(j - 1) : b[i].event = b[j].event
             PROVE  lost[The("detect_anomalies", b[j].event)] > 0
  BY <1>1 DEF OnceUnlessLost
<1>2. CASE j = Len(b)
  <2>1. \A i \in 1..(j - 1) : i \in 1..Len(a)
    BY <1>1, <1>2
  <2> QED
    BY <1>1, <1>2, <2>1
<1>3. CASE j # Len(b)
  <2>1. j \in 1..Len(a) /\ \A i \in 1..(j - 1) : i \in 1..Len(a)
    BY <1>1, <1>3
  <2> QED
    BY <1>1, <2>1 DEF OnceUnlessLost
<1> QED
  BY <1>2, <1>3

\* The alert of the thread's call joins those in memory.
LEMMA InsertAlertStep ==
  ASSUME Stepping, NEW t \in PeerThreads, InsertAlert(t)
  PROVE  PipelineInv'
<1>1. /\ IngestionInv /\ IngestionInv' /\ Grows /\ ThreadsInv /\ AnomalyInv
      /\ crossed \subseteq Routes \union {PortfolioCall}
  BY SteppingFacts DEF Stepping
<1>2. PICK j : j = serving[t]
  OBVIOUS
<1>3. PICK e : e = j.call.event
  OBVIOUS
<1>4. PICK a : a = anomaly.alerts
  OBVIOUS
<1>5. PICK x : x = [event |-> e, baseline |-> j.baseline]
  OBVIOUS
<1>6. PICK b : b = Append(a, x)
  OBVIOUS
<1>7. PICK job : job = [j EXCEPT !.pc = "dump_alerts"]
  OBVIOUS
<1>8. PICK h : h = anomaly.history
  OBVIOUS
<1>9. /\ Busy(t) /\ j.pc = "insert" /\ Becomes(t, job) /\ UNCHANGED vars
      /\ UNCHANGED <<blob, analysed, riskVars, crossed>>
      /\ anomaly' = [anomaly EXCEPT !.alerts = b]
  BY <1>2, <1>3, <1>4, <1>5, <1>6, <1>7 DEF InsertAlert, Busy, Is
<1>10. ToAnomaly(t)
  BY <1>1, <1>2, <1>9, JobFacts DEF RiskSteps
<1>11. /\ j \in Job /\ j.call \in Routes /\ e \in Events /\ j.call = The("detect_anomalies", e)
       /\ j.baseline \in Seq(Events) /\ (e \in ToSet(j.baseline) => lost[j.call] > 0)
       /\ j.place \in DOMAIN analysed /\ analysed[j.place].event = e /\ Holds(h, j.place)
  BY <1>2, <1>3, <1>8, <1>9, <1>10, AnalysisFacts DEF Holds
<1>12. /\ job \in Job /\ job.call = j.call /\ job.awaited = j.awaited /\ job.baseline = j.baseline
       /\ job.place = j.place /\ job.pc = "dump_alerts"
  BY <1>7, <1>11 DEF Job, AnomalySteps
<1>13. ThreadsInv' /\ ReachedStays /\ \A u \in PeerThreads : u # t => SameWork(u)
  BY <1>2, <1>9, <1>10, <1>12, ThreadMoves DEF AlertSteps, AnomalySteps
<1>14. serving'[t] = job
  BY <1>1, <1>9, BecomesFacts
<1>15. AnalysesGrow /\ \A g : NewlySaved(g)
  BY <1>1, <1>9, NothingSaved DEF AnomalyInv, Analyses
<1>16. /\ anomaly \in AnomalyState /\ a \in Seq(Alert) /\ AlertsInv(a) /\ h \in Seq(Events) /\ HistoryInv(h)
  BY <1>1, <1>4, <1>8 DEF AnomalyInv, AlertsInv, HistoryInv
<1>17. x \in Alert /\ x.event = e /\ x.baseline = j.baseline
  BY <1>5, <1>11 DEF Alert
<1>18. b \in Seq(Alert) /\ Len(b) = Len(a) + 1 /\ b[Len(b)] = x /\ (\A i \in 1..Len(a) : b[i] = a[i])
       /\ DOMAIN a = 1..Len(a) /\ DOMAIN b = 1..Len(b) /\ Len(a) \in Nat
  BY <1>6, <1>16, <1>17
<1>19. lost' = lost
  BY <1>9 DEF vars, observers
<1>20. AlertsInv(b)'
  <2>1. ASSUME NEW i \in 1..Len(a), a[i].event = e PROVE lost[j.call] > 0
    <3>1. Reached(j.call, AlertSteps)
      BY <1>11, <1>16, <1>18, <2>1 DEF AlertsInv
    <3> QED
      BY <1>1, <1>2, <1>9, <1>11, <3>1, DoneAgain DEF AlertSteps
  <2>2. OnceUnlessLost(a)
    BY <1>16 DEF AlertsInv
  <2>3. OnceUnlessLost(b)'
    BY <1>6, <1>11, <1>16, <1>17, <1>19, <2>1, <2>2, OnceNew
  <2>4. ASSUME NEW i \in 1..Len(b) PROVE Reached(The("detect_anomalies", b[i].event), AlertSteps)'
    <3>1. CASE i = Len(b)
      <4>1. serving'[t].pc \in AlertSteps /\ serving'[t].call = The("detect_anomalies", e)
        BY <1>11, <1>12, <1>14 DEF AlertSteps
      <4>2. b[i].event = e
        BY <1>17, <1>18, <3>1
      <4> QED
        BY <4>1, <4>2 DEF Reached
    <3>2. CASE i # Len(b)
      <4>1. i \in 1..Len(a) /\ b[i] = a[i]
        BY <1>18, <3>2
      <4>2. AlertsInv(a)'
        BY <1>1, <1>13, <1>16, AlertsStay
      <4> QED
        BY <1>18, <4>1, <4>2 DEF AlertsInv
    <3> QED
      BY <3>1, <3>2
  <2> QED
    BY <1>18, <2>3, <2>4 DEF AlertsInv
<1>21. anomaly' \in AnomalyState /\ anomaly'.alerts = b /\ anomaly'.history = h
  BY <1>8, <1>9, <1>16, <1>18 DEF AnomalyState
<1>22. HistoryInv(h)'
  BY <1>1, <1>9, <1>13, <1>15, <1>16, HistoryStays
<1>23. (blob \in AnomalyState)' /\ (AlertsInv(blob.alerts) /\ HistoryInv(blob.history))'
  <2>1. PICK c : c = blob.alerts
    OBVIOUS
  <2>2. PICK g : g = blob.history
    OBVIOUS
  <2>3. AlertsInv(c) /\ HistoryInv(g)
    BY <1>1, <2>1, <2>2 DEF AnomalyInv
  <2>4. AlertsInv(c)' /\ HistoryInv(g)'
    BY <1>1, <1>9, <1>13, <1>15, <2>3, AlertsStay, HistoryStays
  <2>5. blob' = blob /\ blob \in AnomalyState
    BY <1>1, <1>9 DEF AnomalyInv
  <2>6. AlertsInv(blob.alerts)'
    BY <2>1, <2>4, <2>5 DEF AlertsInv, OnceUnlessLost
  <2>7. HistoryInv(blob.history)'
    BY <2>2, <2>4, <2>5 DEF HistoryInv, Holds
  <2> QED
    BY <2>5, <2>6, <2>7
<1>24. \A k \in DOMAIN analysed : Holds(h, k) => Holds(h, k)'
  BY <1>15, <1>16, HoldsStays
<1>25. ASSUME NEW u \in PeerThreads PROVE AnalysisInv(u)'
  <2>1. CASE u # t
    <3>1. Busy(u) => serving[u].call \in Routes \union {PortfolioCall}
      BY <1>1, JobFacts
    <3>2. AnalysisInv(u) /\ SameWork(u)
      BY <1>1, <1>13, <2>1 DEF AnomalyInv
    <3>3. h = anomaly'.history
      BY <1>21
    <3> QED
      BY <1>1, <1>8, <1>9, <1>13, <1>15, <1>24, <3>1, <3>2, <3>3, AnalysisStays
  <2>2. CASE u = t
    <3>1. Holds(h, j.place)'
      BY <1>11, <1>24
    <3> QED
      BY <1>3, <1>9, <1>11, <1>12, <1>14, <1>19, <1>21, <2>2, <3>1 DEF AnalysisInv, Holds
  <2> QED
    BY <2>1, <2>2
<1>26. CrossedInv'
  BY <1>1, <1>9, CrossedStays DEF AnomalyInv
<1>27. AlertsInv(anomaly.alerts)' /\ HistoryInv(anomaly.history)'
  BY <1>20, <1>21, <1>22 DEF AlertsInv, OnceUnlessLost, HistoryInv, Holds
<1>28. AnomalyInv'
  BY <1>15, <1>21, <1>23, <1>25, <1>26, <1>27 DEF AnomalyInv, AnalysesGrow, Analyses
<1>29. (Busy(t) => ToAnomaly(t))'
  BY <1>2, <1>10, <1>12, <1>14 DEF ToAnomaly
<1>30. RiskInv'
  BY <1>9, <1>13, <1>29, RiskApart
<1> QED
  BY <1>1, <1>9, <1>13, <1>28, <1>30, PipelineParts

\* Where the event that was just appended stands.
LEMMA HoldsNewest ==
  ASSUME analysed \in Analyses, NEW e \in Events, NEW y, y = [event |-> e, saved |-> FALSE],
         analysed' = Append(analysed, y), NEW h \in Seq(Events), Len(h) <= history_window,
         NEW g \in Seq(Events), g = AppendMax(h, e), NEW n, n = Len(analysed) + 1
  PROVE  n \in Nat /\ n \in DOMAIN analysed' /\ analysed'[n].event = e /\ Holds(g, n)'
<1>1. /\ Len(analysed) \in Nat /\ y \in [event : Events, saved : BOOLEAN] /\ y.event = e
  BY DEF Analyses
<1>2. /\ Len(analysed') = n /\ n \in Nat /\ n \in 1..n /\ DOMAIN analysed' = 1..n /\ analysed'[n] = y
  BY <1>1 DEF Analyses
<1>3. g[Len(g)] = e /\ Len(g) \in 1..history_window
  BY AppendMaxFacts
<1>4. /\ DOMAIN g = 1..Len(g) /\ Len(g) \in Nat /\ Len(g) \in 1..Len(g) /\ Len(g) - Len(g) <= n - n
  BY <1>2, <1>3
<1>5. Holds(g, n)'
  BY <1>1, <1>2, <1>3, <1>4 DEF Holds
<1> QED
  BY <1>1, <1>2, <1>5

\* The event of the thread's call joins the history.
LEMMA AppendFeaturesStep ==
  ASSUME Stepping, NEW t \in PeerThreads, AppendFeatures(t)
  PROVE  PipelineInv'
<1>1. /\ IngestionInv /\ IngestionInv' /\ Grows /\ ThreadsInv /\ AnomalyInv
      /\ crossed \subseteq Routes \union {PortfolioCall}
  BY SteppingFacts DEF Stepping
<1>2. PICK j : j = serving[t]
  OBVIOUS
<1>3. PICK e : e = j.call.event
  OBVIOUS
<1>4. PICK h : h = anomaly.history
  OBVIOUS
<1>5. PICK g : g = AppendMax(h, e)
  OBVIOUS
<1>6. PICK y : y = [event |-> e, saved |-> FALSE]
  OBVIOUS
<1>7. PICK n : n = Len(analysed) + 1
  OBVIOUS
<1>8. PICK job : job = [j EXCEPT !.pc = "insert", !.place = n]
  OBVIOUS
<1>9. PICK a : a = anomaly.alerts
  OBVIOUS
<1>10. /\ Busy(t) /\ j.pc = "append" /\ anomaly' = [anomaly EXCEPT !.history = g]
       /\ analysed' = Append(analysed, y) /\ UNCHANGED <<blob, riskVars, crossed>>
       /\ (Becomes(t, job) /\ UNCHANGED vars) \/ Ends(t)
  BY <1>2, <1>3, <1>4, <1>5, <1>6, <1>7, <1>8 DEF AppendFeatures, Busy, Is
<1>11. ToAnomaly(t)
  BY <1>1, <1>2, <1>10, JobFacts DEF RiskSteps
<1>12. /\ j \in Job /\ j.call \in Routes /\ e \in Events /\ j.call = The("detect_anomalies", e)
       /\ (e \in ToSet(j.baseline) => lost[j.call] > 0)
  BY <1>2, <1>3, <1>10, <1>11, AnalysisFacts
<1>13. /\ anomaly \in AnomalyState /\ a \in Seq(Alert) /\ AlertsInv(a)
       /\ h \in Seq(Events) /\ Len(h) <= history_window /\ HistoryInv(h) /\ analysed \in Analyses
  BY <1>1, <1>4, <1>9 DEF AnomalyInv, AlertsInv, HistoryInv, Analyses
<1>14. g \in Seq(Events) /\ Len(g) <= history_window /\ ToSet(g) \subseteq ToSet(h) \union {e}
  <2>1. g \in Seq(Events)
    BY <1>5, <1>12, <1>13, AppendMaxSeq
  <2> QED
    BY <1>5, <1>12, <1>13, <2>1, AppendMaxFacts
<1>15. n \in Nat /\ n \in DOMAIN analysed' /\ analysed'[n].event = e /\ Holds(g, n)'
  BY <1>5, <1>6, <1>7, <1>10, <1>12, <1>13, <1>14, HoldsNewest
<1>16. /\ job \in Job /\ job.call = j.call /\ job.awaited = j.awaited /\ job.baseline = j.baseline
       /\ job.place = n /\ job.pc = "insert"
  BY <1>8, <1>12, <1>15 DEF Job, AnomalySteps
<1>17. /\ ThreadsInv' /\ ReachedStays /\ (\A u \in PeerThreads : u # t => SameWork(u))
       /\ ~Busy(t)' \/ serving'[t] = job
  <2>1. CASE Becomes(t, job) /\ UNCHANGED vars
    BY <1>1, <1>2, <1>10, <1>11, <1>16, <2>1, ThreadMoves, BecomesFacts DEF AlertSteps, AnomalySteps
  <2>2. CASE Ends(t)
    BY <1>10, <2>2, ThreadEnds
  <2> QED
    BY <1>10, <2>1, <2>2
<1>18. lost' = lost
  <2>1. CASE UNCHANGED vars
    BY <2>1 DEF vars, observers
  <2>2. CASE Ends(t)
    BY <1>1, <1>2, <1>10, <2>2, EndFacts
  <2> QED
    BY <1>10, <2>1, <2>2
<1>19. /\ Len(analysed) \in Nat /\ Len(analysed') = Len(analysed) + 1 /\ analysed' \in Analyses
       /\ DOMAIN analysed = 1..Len(analysed) /\ DOMAIN analysed' = 1..Len(analysed')
       /\ (\A k \in 1..Len(analysed) : analysed'[k] = analysed[k])
       /\ ~analysed'[Len(analysed')].saved
  <2>1. y \in [event : Events, saved : BOOLEAN] /\ ~y.saved
    BY <1>6, <1>12
  <2> QED
    BY <1>10, <1>13, <2>1 DEF Analyses
<1>20. AnalysesGrow
  BY <1>13, <1>19 DEF AnalysesGrow
<1>21. \A f : NewlySaved(f)
  <2>1. \A k \in DOMAIN analysed' : analysed'[k].saved => k \in DOMAIN analysed /\ analysed[k].saved
    BY <1>19
  <2> QED
    BY <2>1 DEF NewlySaved
<1>22. anomaly' \in AnomalyState /\ anomaly'.alerts = a /\ anomaly'.history = g
  BY <1>9, <1>10, <1>13, <1>14 DEF AnomalyState
<1>23. \A k \in DOMAIN analysed : Holds(h, k) => Holds(g, k)'
  BY <1>5, <1>12, <1>13, <1>14, <1>19, <1>20, HoldsAppend
<1>24. HistoryInv(g)'
  <2>1. ASSUME NEW d \in ToSet(g) PROVE Reached(The("detect_anomalies", d), AnomalySteps)'
    <3>1. d \in Events
      BY <1>14, ToSetFacts
    <3>2. Reached(The("detect_anomalies", d), AnomalySteps)
      <4>1. CASE d = e
        <5>1. serving[t].pc \in AnomalySteps /\ serving[t].call = The("detect_anomalies", d)
          BY <1>2, <1>10, <1>12, <4>1 DEF AnomalySteps
        <5> QED
          BY <5>1 DEF Reached
      <4>2. CASE d \in ToSet(h)
        BY <1>13, <4>2 DEF HistoryInv
      <4> QED
        BY <1>14, <4>1, <4>2
    <3> QED
      BY <1>1, <1>17, <3>1, <3>2, CallsStay
  <2>2. ASSUME NEW k \in DOMAIN analysed', analysed'[k].saved
        PROVE  Holds(g, k)' \/ The("detect_anomalies", analysed'[k].event) \in crossed'
    <3>1. k \in DOMAIN analysed /\ analysed[k].saved /\ analysed'[k].event = analysed[k].event
      BY <1>19, <2>2
    <3>2. Holds(h, k) \/ The("detect_anomalies", analysed[k].event) \in crossed
      BY <1>13, <3>1 DEF HistoryInv
    <3> QED
      BY <1>10, <1>23, <3>1, <3>2
  <2> QED
    BY <1>14, <2>1, <2>2 DEF HistoryInv, The, Route, Providers
<1>25. AlertsInv(a)'
  BY <1>1, <1>13, <1>17, AlertsStay
<1>26. (blob \in AnomalyState)' /\ (AlertsInv(blob.alerts) /\ HistoryInv(blob.history))'
  <2>1. PICK c : c = blob.alerts
    OBVIOUS
  <2>2. PICK f : f = blob.history
    OBVIOUS
  <2>3. AlertsInv(c) /\ HistoryInv(f)
    BY <1>1, <2>1, <2>2 DEF AnomalyInv
  <2>4. AlertsInv(c)' /\ HistoryInv(f)'
    BY <1>1, <1>10, <1>17, <1>20, <1>21, <2>3, AlertsStay, HistoryStays
  <2>5. blob' = blob /\ blob \in AnomalyState
    BY <1>1, <1>10 DEF AnomalyInv
  <2>6. AlertsInv(blob.alerts)'
    BY <2>1, <2>4, <2>5 DEF AlertsInv, OnceUnlessLost
  <2>7. HistoryInv(blob.history)'
    BY <2>2, <2>4, <2>5 DEF HistoryInv, Holds
  <2> QED
    BY <2>5, <2>6, <2>7
<1>27. ASSUME NEW u \in PeerThreads PROVE AnalysisInv(u)'
  <2>1. CASE u # t
    <3>1. Busy(u) => serving[u].call \in Routes \union {PortfolioCall}
      BY <1>1, JobFacts
    <3>2. AnalysisInv(u) /\ SameWork(u)
      BY <1>1, <1>17, <2>1 DEF AnomalyInv
    <3>3. g = anomaly'.history
      BY <1>22
    <3> QED
      BY <1>1, <1>4, <1>10, <1>17, <1>20, <1>21, <1>23, <3>1, <3>2, <3>3, AnalysisStays
  <2>2. CASE u = t /\ serving'[t] = job
    BY <1>3, <1>12, <1>15, <1>16, <1>18, <1>22, <2>2 DEF AnalysisInv, Holds
  <2>3. CASE u = t /\ ~Busy(t)'
    BY <2>3 DEF AnalysisInv
  <2> QED
    BY <1>17, <2>1, <2>2, <2>3
<1>28. CrossedInv'
  BY <1>1, <1>10, CrossedStays DEF AnomalyInv
<1>29. AlertsInv(anomaly.alerts)' /\ HistoryInv(anomaly.history)'
  BY <1>22, <1>24, <1>25 DEF AlertsInv, OnceUnlessLost, HistoryInv, Holds
<1>30. AnomalyInv'
  BY <1>19, <1>22, <1>26, <1>27, <1>28, <1>29 DEF AnomalyInv, Analyses
<1>31. (Busy(t) => ToAnomaly(t))'
  BY <1>2, <1>11, <1>16, <1>17 DEF ToAnomaly
<1>32. RiskInv'
  BY <1>10, <1>11, <1>17, <1>31, RiskApart
<1> QED
  BY <1>1, <1>10, <1>17, <1>30, <1>32, PipelineParts

\* A save crosses another one only if two requests are in progress, or one of the two
\* calls was given up.
LEMMA CrossedBecause ==
  ASSUME IngestionInv, ThreadsInv, NEW t \in PeerThreads, Busy(t), ToAnomaly(t), Crosses(t)
  PROVE  overlapped \/ \E e \in Events : lost[The("detect_anomalies", e)] > 0
<1>1. PICK u \in PeerThreads \ {t} : serving[u].pc \in {"dump_history", "dump_portfolio", "replace"} /\ ToAnomaly(u)
  BY DEF Crosses, ToAnomaly
<1>2. Busy(u)
  BY <1>1 DEF Busy, Is
<1>3. ASSUME NEW x \in PeerThreads, Busy(x), ToAnomaly(x), ~serving[x].awaited
      PROVE  \E e \in Events : lost[The("detect_anomalies", e)] > 0
  <2>1. serving[x].call \in Routes /\ lost[serving[x].call] > 0 /\ serving[x].call.stage = "detect_anomalies"
    BY <1>3, JobFacts DEF ToAnomaly
  <2>2. PICK r \in Routes : r = serving[x].call
    BY <2>1
  <2>3. r.event \in Events /\ r = The("detect_anomalies", r.event)
    BY <2>1, <2>2, RouteIsThe
  <2> QED
    BY <2>1, <2>2, <2>3
<1>4. CASE serving[t].awaited /\ serving[u].awaited
  <2>1. PICK w \in Workers : At(w, "call") /\ Current(w) = serving[t].call /\ ~At(w, "idle")
    BY <1>4, AwaitedFacts
  <2>2. PICK v \in Workers : At(v, "call") /\ Current(v) = serving[u].call /\ ~At(v, "idle")
    BY <1>1, <1>2, <1>4, AwaitedFacts
  <2>3. serving[t].call # serving[u].call
    BY <1>1, <1>2, <1>4 DEF ThreadsInv
  <2>4. v # w
    BY <2>1, <2>2, <2>3
  <2> QED
    BY <2>1, <2>2, <2>4 DEF IngestionInv, SavesInv
<1> QED
  BY <1>1, <1>2, <1>3, <1>4

\* The dump replaces what the store holds.  Every history that a restart may find
\* from now on holds the event of the saved alert, unless the save crossed another.
LEMMA SaveBlobStep ==
  ASSUME Stepping, NEW t \in PeerThreads, SaveBlob(t)
  PROVE  PipelineInv'
<1>1. /\ IngestionInv /\ IngestionInv' /\ Grows /\ ThreadsInv /\ AnomalyInv
      /\ crossed \subseteq Routes \union {PortfolioCall}
  BY SteppingFacts DEF Stepping
<1>2. PICK j : j = serving[t]
  OBVIOUS
<1>3. PICK e : e = j.call.event
  OBVIOUS
<1>4. PICK n : n = j.place
  OBVIOUS
<1>5. PICK h : h = anomaly.history
  OBVIOUS
<1>6. PICK a : a = anomaly.alerts
  OBVIOUS
<1>7. /\ Busy(t) /\ ToAnomaly(t) /\ j.pc = "replace" /\ blob' = j.dump /\ Cross(t) /\ Ends(t)
      /\ analysed' = [analysed EXCEPT ![n].saved = TRUE] /\ anomaly' = anomaly /\ UNCHANGED riskVars
  BY <1>2, <1>4 DEF SaveBlob, Busy, Is
<1>8. PICK f : f = j.dump.history
  OBVIOUS
<1>9. PICK b : b = j.dump.alerts
  OBVIOUS
<1>10. /\ j.call \in Routes /\ e \in Events /\ j.call = The("detect_anomalies", e)
       /\ j.call.stage = "detect_anomalies"
       /\ n \in DOMAIN analysed /\ analysed[n].event = e /\ Holds(h, n)
       /\ j.dump \in AnomalyState /\ AlertsInv(b) /\ HistoryInv(f) /\ Holds(f, n)
  BY <1>2, <1>3, <1>4, <1>5, <1>7, <1>8, <1>9, AnalysisFacts DEF Holds
<1>11. /\ anomaly \in AnomalyState /\ AlertsInv(a) /\ HistoryInv(h) /\ h \in Seq(Events)
       /\ f \in Seq(Events) /\ analysed \in Analyses
  BY <1>1, <1>5, <1>6, <1>10 DEF AnomalyInv, HistoryInv, Analyses
<1>12. /\ ThreadsInv' /\ ReachedStays /\ (\A u \in PeerThreads : u # t => SameWork(u)) /\ ~Busy(t)'
  BY <1>7, ThreadEnds
<1>13. /\ crossed \subseteq crossed' /\ crossed' \subseteq Routes \union {PortfolioCall}
       /\ crossed' = crossed \/ Crosses(t)
       /\ Crosses(t) => j.call \in crossed'
  BY <1>1, <1>2, <1>7, <1>10 DEF Cross
<1>14. /\ analysed' \in Analyses /\ Len(analysed') = Len(analysed) /\ DOMAIN analysed' = DOMAIN analysed
       /\ \A k \in DOMAIN analysed : analysed'[k].event = analysed[k].event
       /\ \A k \in DOMAIN analysed : k # n => analysed'[k] = analysed[k]
  <2>1. \A k \in DOMAIN analysed : analysed[k] \in [event : Events, saved : BOOLEAN]
    BY <1>11, ElementFacts DEF Analyses
  <2>2. /\ DOMAIN analysed = 1..Len(analysed) /\ Len(analysed) \in Nat
        /\ DOMAIN analysed' = DOMAIN analysed
    BY <1>7, <1>11 DEF Analyses
  <2>3. \A k \in DOMAIN analysed :
          analysed'[k] = IF k = n THEN [analysed[n] EXCEPT !.saved = TRUE] ELSE analysed[k]
    BY <1>7, <1>10
  <2>4. \A k \in DOMAIN analysed :
          analysed'[k] \in [event : Events, saved : BOOLEAN] /\ analysed'[k].event = analysed[k].event
    BY <1>10, <2>1, <2>3
  <2>5. PICK x : x = [analysed[n] EXCEPT !.saved = TRUE]
    OBVIOUS
  <2>6. analysed' \in Analyses /\ Len(analysed') = Len(analysed)
    <3>1. x \in [event : Events, saved : BOOLEAN] /\ analysed' = [analysed EXCEPT ![n] = x]
      BY <1>7, <1>10, <2>1, <2>5
    <3> QED
      BY <1>10, <1>11, <2>2, <3>1 DEF Analyses
  <2> QED
    BY <2>2, <2>3, <2>4, <2>6
<1>15. AnalysesGrow
  BY <1>11, <1>14 DEF AnalysesGrow, Analyses
<1>16. ASSUME NEW q, Holds(q, n)' \/ j.call \in crossed' PROVE NewlySaved(q)
  <2>1. The("detect_anomalies", analysed'[n].event) = j.call
    BY <1>10, <1>14
  <2> QED
    BY <1>14, <1>16, <2>1 DEF NewlySaved
<1>17. Holds(h, n)' /\ Holds(f, n)'
  BY <1>10, <1>11, <1>15, HoldsStays
<1>18. HistoryInv(h)' /\ HistoryInv(f)'
  BY <1>1, <1>11, <1>10, <1>12, <1>13, <1>15, <1>16, <1>17, HistoryStays
<1>19. AlertsInv(a)' /\ AlertsInv(b)'
  BY <1>1, <1>10, <1>11, <1>12, AlertsStay
<1>20. (anomaly \in AnomalyState)' /\ (AlertsInv(anomaly.alerts) /\ HistoryInv(anomaly.history))'
  <2>1. anomaly'.alerts = a /\ anomaly'.history = h /\ anomaly' \in AnomalyState
    BY <1>5, <1>6, <1>7, <1>11
  <2> QED
    BY <1>18, <1>19, <2>1 DEF AlertsInv, OnceUnlessLost, HistoryInv, Holds
<1>21. (blob \in AnomalyState)' /\ (AlertsInv(blob.alerts) /\ HistoryInv(blob.history))'
  <2>1. blob'.alerts = b /\ blob'.history = f /\ blob' \in AnomalyState
    BY <1>7, <1>8, <1>9, <1>10
  <2> QED
    BY <1>18, <1>19, <2>1 DEF AlertsInv, OnceUnlessLost, HistoryInv, Holds
<1>22. ASSUME NEW u \in PeerThreads PROVE AnalysisInv(u)'
  <2>1. CASE u # t
    <3>1. Busy(u) => serving[u].call \in Routes \union {PortfolioCall}
      BY <1>1, JobFacts
    <3>2. AnalysisInv(u) /\ SameWork(u)
      BY <1>1, <1>12, <2>1 DEF AnomalyInv
    <3>3. \A k \in DOMAIN analysed : Holds(h, k) => Holds(h, k)'
      BY <1>11, <1>15, HoldsStays
    <3>4. ASSUME ToAnomaly(u), serving[u].pc = "replace" PROVE NewlySaved(serving[u].dump.history)
      <4>1. Crosses(t)
        BY <1>7, <2>1, <3>4 DEF Crosses, ToAnomaly
      <4>2. PICK q : q = serving[u].dump.history
        OBVIOUS
      <4>3. NewlySaved(q)
        BY <1>13, <1>16, <4>1
      <4> QED
        BY <4>2, <4>3
    <3>5. h = anomaly'.history
      BY <1>5, <1>7
    <3> QED
      BY <1>1, <1>5, <1>12, <1>13, <1>15, <3>1, <3>2, <3>3, <3>4, <3>5, AnalysisStays
  <2>2. CASE u = t
    BY <1>12, <2>2 DEF AnalysisInv
  <2> QED
    BY <2>1, <2>2
<1>23. CrossedInv'
  <2>1. CASE crossed' = crossed
    BY <1>1, <2>1, CrossedStays DEF AnomalyInv
  <2>2. CASE Crosses(t)
    <3>1. overlapped \/ \E d \in Events : lost[The("detect_anomalies", d)] > 0
      BY <1>1, <1>7, <2>2, CrossedBecause
    <3>2. UNCHANGED <<lost, overlapped>>
      BY <1>1, <1>2, <1>7, EndFacts
    <3> QED
      BY <3>1, <3>2 DEF CrossedInv, The, Route, Providers
  <2> QED
    BY <1>13, <2>1, <2>2
<1>24. AnomalyInv'
  BY <1>14, <1>20, <1>21, <1>22, <1>23 DEF AnomalyInv, Analyses
<1>25. RiskInv'
  BY <1>7, <1>12, <1>13, RiskApart
<1> QED
  BY <1>12, <1>13, <1>24, <1>25, PipelineParts

-----------------------------------------------------------------------------
(* The steps of the pipeline: the ingestion peer, crashes and restarts.    *)

\* No thread of the peers takes a step, and the risk peer is left alone.
LEMMA PeersLeft ==
  ASSUME Stepping, ThreadsInv', ReachedStays, \A u \in PeerThreads : SameWork(u),
         UNCHANGED <<blob, analysed, riskVars, crossed>>,
         \/ anomaly' = anomaly
         \/ anomaly' = blob /\ \A u \in PeerThreads : Busy(u) => ~ToAnomaly(u),
         FileKeeps => PassedInv' /\ ComputesInv'
  PROVE  PipelineInv'
<1>1. /\ IngestionInv /\ Grows /\ RiskInv /\ crossed \subseteq Routes \union {PortfolioCall}
  BY SteppingFacts DEF Stepping
<1>2. EventsInv /\ FileInv /\ SnapshotsInv
  BY <1>1, RiskParts
<1>3. UNCHANGED <<market, riskFile>> /\ snapshots' = snapshots
  BY DEF riskVars
<1>4. FileKeeps
  <2>1. \A u \in PeerThreads : Dumping(u)' =>
          Dumping(u) /\ serving'[u].dump.events = serving[u].dump.events
    BY DEF SameWork, Dumping, ToAnomaly
  <2> QED
    BY <1>2, <1>3, <2>1, FileLeft DEF EventsInv, FileInv
<1>5. SnapshotsInv'
  BY <1>1, <1>2, <1>3, NoCompute
<1>6. RiskInv'
  BY <1>3, <1>4, <1>5, RiskLeft
<1>7. AnomalyInv'
  BY AnomalyLeft
<1> QED
  BY <1>1, <1>6, <1>7, PipelineParts

\* A caller gives up.
LEMMA GiveUpStep ==
  ASSUME Stepping, NEW w \in Workers, GiveUp(w)
  PROVE  PipelineInv'
<1>1. /\ IngestionInv /\ IngestionInv' /\ Grows /\ ThreadsInv /\ RiskInv
  BY SteppingFacts DEF Stepping
<1>2. PassedInv /\ ComputesInv
  BY <1>1, RiskParts
<1>3. PICK c : c = Current(w)
  OBVIOUS
<1>4. PICK e : e = th[w].event
  OBVIOUS
<1>5. /\ CallFails(w) /\ (Awaited(c) => lost' # lost) /\ Abandon({c})
      /\ UNCHANGED <<anomalyVars, riskVars, crossed>>
  BY <1>3 DEF GiveUp
<1>6. /\ GoesOn(w) /\ delivered' = delivered /\ At(w, "call") /\ c \in Routes
      /\ \A r \in Routes : r # c => late'[r] = late[r]
      /\ lost' # lost => lost'[c] > 0
      /\ \/ th'[w].pc = "call" /\ th'[w].stage = th[w].stage
         \/ c \in gaveUp'
  BY <1>1, <1>3, <1>5, CallFailsFacts
<1>7. c.event = e /\ e \in Events /\ c = The(c.stage, e)
  BY <1>3, <1>4, <1>6, RouteIsThe DEF Current, Route
<1>8. ThreadsInv' /\ ReachedStays /\ \A u \in PeerThreads : SameWork(u)
  <2>1. \A v \in Workers : At(v, "call") /\ Current(v) \notin {c} => th'[v] = th[v]
    BY <1>3, <1>6 DEF GoesOn
  <2>2. \A r \in Routes : r \in {c} /\ Awaited(r) => lost'[r] > 0
    BY <1>5, <1>6
  <2> QED
    BY <1>1, <1>5, <2>1, <2>2, ThreadsAbandoned
<1>9. crossed \subseteq crossed'
  BY <1>5
<1>10. ASSUME FileKeeps PROVE PassedInv' /\ ComputesInv'
  <2>1. (At(w, "call") /\ Current(w) = The("store_market_events", e)) =>
          \/ th'[w].pc = "call" /\ th'[w].stage = th[w].stage
          \/ StoredOrNot(e)'
    BY <1>3, <1>6 DEF StoredOrNot, The, Route, Providers
  <2>2. \A r \in Routes : delivered'[r] # delivered[r] => At(w, "call") /\ r = Current(w)
    BY <1>6
  <2>3. PassedInv'
    BY <1>1, <1>2, <1>4, <1>6, <1>9, <1>10, <2>1, <2>2, PassedGoesOn
  <2>4. ASSUME NEW d \in Events, late'[The("compute_risk", d)] > 0
        PROVE  late[The("compute_risk", d)] > 0 \/ StoredOrNot(d)
    <3>1. PICK r \in Routes : r = The("compute_risk", d) /\ r.stage = "compute_risk" /\ r.event = d
      BY TheFacts DEF Stages
    <3>2. CASE r # c
      BY <1>6, <2>4, <3>1, <3>2
    <3>3. CASE r = c
      BY <1>1, <1>2, <1>3, <1>6, <3>1, <3>3, ComputeHasPassed
    <3> QED
      BY <3>2, <3>3
  <2>5. ComputesInv'
    BY <1>1, <1>2, <1>9, <1>10, <2>4, ComputesStay
  <2> QED
    BY <2>3, <2>5
<1>11. UNCHANGED <<blob, analysed, riskVars, crossed>> /\ anomaly' = anomaly
  BY <1>5 DEF anomalyVars
<1> QED
  BY <1>8, <1>10, <1>11, PeersLeft

\* A step of a handler of the ingestion peer.
LEMMA OwnStepStep ==
  ASSUME Stepping, NEW w \in Workers, OwnStep(w), UNCHANGED peerVars
  PROVE  PipelineInv'
<1>1. /\ IngestionInv /\ IngestionInv' /\ Grows /\ ThreadsInv /\ RiskInv
  BY SteppingFacts DEF Stepping
<1>2. PassedInv /\ ComputesInv
  BY <1>1, RiskParts
<1>3. GoesOn(w) /\ UNCHANGED <<delivered, late>> /\ ~At(w, "call")
  BY <1>1, OwnStepFacts
<1>4. serving' = serving /\ UNCHANGED <<blob, analysed, riskVars, crossed>> /\ anomaly' = anomaly
  BY DEF peerVars, anomalyVars
<1>5. ThreadsInv' /\ ReachedStays
  <2>1. \A v \in Workers : At(v, "call") => th'[v] = th[v]
    BY <1>3 DEF GoesOn
  <2> QED
    BY <1>1, <1>4, <2>1, ThreadsSame
<1>6. \A u \in PeerThreads : SameWork(u)
  BY <1>4 DEF SameWork
<1>7. PICK e : e = th[w].event
  OBVIOUS
<1>8. ASSUME FileKeeps PROVE PassedInv' /\ ComputesInv'
  <2>1. \A r \in Routes : delivered'[r] = delivered[r]
    BY <1>3
  <2>2. PassedInv'
    BY <1>1, <1>2, <1>3, <1>4, <1>7, <1>8, <2>1, PassedGoesOn
  <2>3. ComputesInv'
    BY <1>1, <1>2, <1>3, <1>4, <1>8, ComputesStay
  <2> QED
    BY <2>2, <2>3
<1> QED
  BY <1>4, <1>5, <1>6, <1>8, PeersLeft

\* A request begins.
LEMMA ReceiveAlone ==
  ASSUME Stepping, NEW w \in Workers, Receive(w), UNCHANGED peerVars
  PROVE  PipelineInv'
<1>1. /\ IngestionInv /\ IngestionInv' /\ Grows /\ ThreadsInv /\ RiskInv
  BY SteppingFacts DEF Stepping
<1>2. PassedInv /\ ComputesInv
  BY <1>1, RiskParts
<1>3. /\ late' = late /\ th'[w].event \in Events /\ th'[w].pc \in Storing /\ At(w, "idle")
      /\ \A v \in Workers : v # w => th'[v] = th[v]
  BY <1>1, ReceiveFacts
<1>4. serving' = serving /\ UNCHANGED <<blob, analysed, riskVars, crossed>> /\ anomaly' = anomaly
  BY DEF peerVars, anomalyVars
<1>5. ThreadsInv' /\ ReachedStays
  <2>1. \A v \in Workers : At(v, "call") => th'[v] = th[v]
    BY <1>3 DEF At
  <2> QED
    BY <1>1, <1>4, <2>1, ThreadsSame
<1>6. \A u \in PeerThreads : SameWork(u)
  BY <1>4 DEF SameWork
<1>7. ASSUME FileKeeps PROVE PassedInv'
  <2> SUFFICES ASSUME NEW v \in Workers, ~At(v, "idle")', th'[v].handler = "ingest"
               PROVE  \/ The("store_market_events", th'[v].event) \in Left(th[v])'
                      \/ \E d : d = th'[v].event /\ StoredOrNot(d)'
    BY DEF PassedInv, StoredOrNot, Durable
  <2>1. CASE v = w
    <3>1. The("store_market_events", th'[v].event) \in RoutesOf(th'[v].event)
      BY <1>3, <2>1, TheFacts DEF Stages
    <3> QED
      BY <1>3, <2>1, <3>1 DEF Left
  <2>2. CASE v # w
    <3>1. th'[v] = th[v] /\ ~At(v, "idle")
      BY <1>3, <2>2 DEF At
    <3>2. PICK d \in Events : d = th[v].event
      BY <1>1, <3>1, ThreadFacts
    <3>3. Left(th[v])' = Left(th[v])
      BY <3>1 DEF Left, RoutesOf, Route, Providers, Later, Stages, Storing
    <3>4. The("store_market_events", d) \in Left(th[v]) \/ StoredOrNot(d)
      BY <1>2, <3>1, <3>2 DEF PassedInv
    <3>5. StoredOrNot(d) => StoredOrNot(d)'
      BY <1>1, <1>4, <1>7, SettledStays
    <3> QED
      BY <3>1, <3>2, <3>3, <3>4, <3>5
  <2> QED
    BY <2>1, <2>2
<1>8. ASSUME FileKeeps PROVE ComputesInv'
  BY <1>1, <1>2, <1>3, <1>4, <1>8, ComputesStay
<1> QED
  BY <1>4, <1>5, <1>6, <1>7, <1>8, PeersLeft

\* The ingestion process dies.
LEMMA CrashAlone ==
  ASSUME Stepping, Crash
  PROVE  PipelineInv'
<1>1. /\ IngestionInv /\ IngestionInv' /\ Grows /\ ThreadsInv /\ RiskInv
  BY SteppingFacts DEF Stepping
<1>2. ComputesInv
  BY <1>1, RiskParts
<1>3. /\ CrashAndRestart /\ (\A r \in Routes : Awaited(r) => lost'[r] # lost[r]) /\ Abandon(Routes)
      /\ UNCHANGED <<blob, analysed, riskVars, crossed>> /\ anomaly' = anomaly
  BY DEF Crash, anomalyVars
<1>4. /\ \A w \in Workers : th'[w].pc = "idle"
      /\ \A r \in Routes : lost'[r] # lost[r] => lost'[r] > 0
      /\ \A r \in Routes : late'[r] > 0 => late[r] > 0 \/ RoutesOf(r.event) \subseteq skipped'
  BY <1>1, <1>3, CrashFacts
<1>5. ThreadsInv' /\ ReachedStays /\ \A u \in PeerThreads : SameWork(u)
  <2>1. ASSUME NEW v \in Workers, At(v, "call") PROVE Current(v) \in Routes
    <3>1. PICK c : c = CurrentOf(th[v])
      OBVIOUS
    <3> QED
      BY <1>1, <2>1, <3>1, CallFacts
  <2> QED
    BY <1>1, <1>3, <1>4, <2>1, ThreadsAbandoned
<1>6. PassedInv'
  BY <1>4 DEF PassedInv, At
<1>7. ASSUME FileKeeps PROVE ComputesInv'
  <2>1. ASSUME NEW e \in Events, late'[The("compute_risk", e)] > 0
        PROVE  late[The("compute_risk", e)] > 0 \/ StoredOrNot(e)'
    <3>1. PICK r \in Routes : r = The("compute_risk", e) /\ r.event = e
      BY TheFacts DEF Stages
    <3>2. The("store_market_events", e) \in RoutesOf(e)
      BY TheFacts DEF Stages
    <3> QED
      BY <1>4, <2>1, <3>1, <3>2 DEF StoredOrNot, The, Route, Providers
  <2> QED
    BY <1>1, <1>2, <1>3, <1>7, <2>1, ComputesStay
<1> QED
  BY <1>3, <1>5, <1>6, <1>7, PeersLeft

\* The anomaly peer restarts, or nothing happens.
LEMMA RestartAnomalyStep ==
  ASSUME Stepping, RestartAnomaly \/ UNCHANGED allVars
  PROVE  PipelineInv'
<1>1. /\ IngestionInv /\ IngestionInv' /\ Grows /\ ThreadsInv
  BY SteppingFacts DEF Stepping
<1>2. /\ UNCHANGED vars /\ serving' = serving /\ UNCHANGED <<blob, analysed, riskVars, crossed>>
      /\ \/ anomaly' = anomaly
         \/ anomaly' = blob /\ \A u \in PeerThreads : Busy(u) => ~ToAnomaly(u)
  BY DEF RestartAnomaly, allVars, peerVars, anomalyVars
<1>3. UNCHANGED <<th, late>>
  BY <1>2 DEF vars, outside, calls
<1>4. ThreadsInv' /\ ReachedStays
  BY <1>1, <1>2, <1>3, ThreadsSame
<1>5. \A u \in PeerThreads : SameWork(u)
  BY <1>2 DEF SameWork
<1>6. FileKeeps => PassedInv' /\ ComputesInv'
  BY <1>2, <1>3, CallersLeft
<1> QED
  BY <1>2, <1>4, <1>5, <1>6, PeersLeft

\* The risk peer restarts from its file, when none of its threads is at work.
LEMMA RestartRiskStep ==
  ASSUME Stepping, RestartRisk
  PROVE  PipelineInv'
<1>1. /\ IngestionInv /\ IngestionInv' /\ Grows /\ ThreadsInv /\ RiskInv
      /\ crossed \subseteq Routes \union {PortfolioCall}
  BY SteppingFacts DEF Stepping
<1>2. EventsInv /\ FileInv /\ SnapshotsInv
  BY <1>1, RiskParts
<1>3. /\ serving' = serving /\ riskFile' = riskFile /\ snapshots' = snapshots
      /\ UNCHANGED <<anomaly, blob, analysed>> /\ crossed' = crossed
      /\ market' = riskFile.events /\ \A u \in PeerThreads : Busy(u) => ToAnomaly(u)
  BY DEF RestartRisk, anomalyVars
<1>4. UNCHANGED <<th, late>>
  BY DEF RestartRisk, LosePortfolio, vars, outside, calls
<1>5. ThreadsInv' /\ ReachedStays
  BY <1>1, <1>3, <1>4, ThreadsSame
<1>6. \A u \in PeerThreads : SameWork(u)
  BY <1>3 DEF SameWork
<1>7. \A u \in PeerThreads : StoreInv(u)' /\ ~Dumping(u)'
  <2>1. \A u \in PeerThreads : (Busy(u) => ToAnomaly(u))'
    BY <1>3 DEF Busy, Is, ToAnomaly
  <2> QED
    BY <2>1, NotServing
<1>8. FileKeeps
  BY <1>2, <1>3, <1>7, FileLeft DEF EventsInv, FileInv
<1>9. EventsInv'
  BY <1>2, <1>3, <1>5, MarketLeft
<1>10. FileInv'
  <2>1. riskFile.events \in Seq(Events)
    BY <1>2 DEF FileInv, RiskState
  <2>2. IsPrefix(riskFile.events, riskFile.events)
    BY <2>1, PrefixSelf
  <2> QED
    BY <1>2, <1>3, <2>2 DEF FileInv
<1>11. SnapshotsInv'
  BY <1>1, <1>2, <1>3, NoCompute
<1>12. PassedInv' /\ ComputesInv'
  BY <1>3, <1>4, <1>8, CallersLeft
<1>13. RiskInv'
  BY <1>7, <1>9, <1>10, <1>11, <1>12, RiskNext
<1>14. AnomalyInv'
  BY <1>3, <1>5, <1>6, AnomalyLeft
<1> QED
  BY <1>1, <1>3, <1>5, <1>13, <1>14, PipelineParts

-----------------------------------------------------------------------------
(* The invariant of the pipeline.                                          *)

\* Every step of the pipeline keeps its invariant.
LEMMA PipelineNextInv ==
  IngestionInv /\ PipelineInv /\ [PipelineNext]_allVars => PipelineInv'
<1> SUFFICES ASSUME IngestionInv, PipelineInv, [PipelineNext]_allVars PROVE PipelineInv'
  OBVIOUS
<1>1. Stepping
  <2>1. [Next]_vars
    BY PipelineStep
  <2>2. LateIsLost /\ RawInv
    BY DEF PipelineInv
  <2>3. IngestionInv' /\ Grows /\ LateIsLost'
    BY <2>1, <2>2, EveryStep
  <2>4. RawInv'
    BY <2>1, <2>2, RawStep
  <2> QED
    BY <2>1, <2>3, <2>4 DEF Stepping
<1>2. ASSUME NEW t \in PeerThreads, TakeCall(t) \/ TakeLate(t) PROVE PipelineInv'
  BY <1>1, <1>2, TakeStep
<1>3. ASSUME NEW t \in PeerThreads, Portfolio(t) PROVE PipelineInv'
  BY <1>1, <1>3, PortfolioStep
<1>4. ASSUME NEW t \in PeerThreads, Handler(t) PROVE PipelineInv'
  <2>1. CASE AppendFeatures(t)
    BY <1>1, <2>1, AppendFeaturesStep
  <2>2. CASE InsertAlert(t)
    BY <1>1, <2>2, InsertAlertStep
  <2>3. CASE DumpAlerts(t)
    BY <1>1, <2>3, DumpAlertsStep
  <2>4. CASE DumpHistory(t)
    BY <1>1, <2>4, DumpHistoryStep
  <2>5. CASE SaveBlob(t)
    BY <1>1, <2>5, SaveBlobStep
  <2>6. CASE AutoCompute(t)
    BY <1>1, <2>6, AutoComputeStep
  <2>7. CASE DumpEvents(t)
    BY <1>1, <2>7, DumpEventsStep
  <2>8. CASE DumpPortfolio(t)
    BY <1>1, <2>8, DumpPortfolioStep
  <2>9. CASE SaveRiskFile(t)
    BY <1>1, <2>9, SaveRiskFileStep
  <2>10. CASE HandlerFails(t)
    BY <1>1, <2>10, HandlerFailsStep
  <2> QED
    BY <1>4, <2>1, <2>2, <2>3, <2>4, <2>5, <2>6, <2>7, <2>8, <2>9, <2>10 DEF Handler
<1>5. ASSUME NEW w \in Workers, GiveUp(w) PROVE PipelineInv'
  BY <1>1, <1>5, GiveUpStep
<1>6. ASSUME NEW w \in Workers, Receive(w), UNCHANGED peerVars PROVE PipelineInv'
  BY <1>1, <1>6, ReceiveAlone
<1>7. ASSUME NEW w \in Workers, OwnStep(w), UNCHANGED peerVars PROVE PipelineInv'
  BY <1>1, <1>7, OwnStepStep
<1>8. CASE Crash
  BY <1>1, <1>8, CrashAlone
<1>9. CASE RestartAnomaly \/ UNCHANGED allVars
  BY <1>1, <1>9, RestartAnomalyStep
<1>10. CASE RestartRisk
  BY <1>1, <1>10, RestartRiskStep
<1> QED
  BY <1>2, <1>3, <1>4, <1>5, <1>6, <1>7, <1>8, <1>9, <1>10 DEF PipelineNext

\* Nothing is ingested, served, analysed or stored yet.
LEMMA PipelineInitInv == PipelineInit => PipelineInv
<1> SUFFICES ASSUME PipelineInit PROVE PipelineInv
  OBVIOUS
<1>1. Init /\ \A w \in Workers : th[w].pc = "idle"
  BY DEF PipelineInit, Init, Idle
<1>2. /\ anomaly = [history |-> << >>, alerts |-> << >>] /\ blob = anomaly /\ market = << >>
      /\ riskFile = [events |-> << >>, portfolio |-> FALSE] /\ analysed = << >> /\ snapshots = {}
      /\ raw = << >> /\ crossed = {} /\ serving = [t \in PeerThreads |-> Free]
  BY DEF PipelineInit, Init
<1>3. \A t \in PeerThreads : serving[t] = Free /\ ~Busy(t) /\ ~Dumping(t)
  BY <1>2, FreeFacts DEF Busy, Is, Dumping
<1>4. ThreadsInv
  BY <1>2, <1>3, FreeFacts DEF ThreadsInv, ServedInv
<1>5. LateIsLost
  BY <1>1 DEF Init, LateIsLost
<1>6. RawInv
  BY <1>1, <1>2 DEF RawInv, IsInjective, At
<1>7. AnomalyInv
  <2>1. anomaly \in AnomalyState /\ analysed \in Seq([event : Events, saved : BOOLEAN])
    BY <1>2 DEF AnomalyState
  <2>2. AlertsInv(anomaly.alerts)
    BY <1>2 DEF AlertsInv, OnceUnlessLost
  <2>3. HistoryInv(anomaly.history)
    BY <1>2, WindowAssumption DEF HistoryInv, ToSet
  <2>4. \A t \in PeerThreads : AnalysisInv(t)
    BY <1>3 DEF AnalysisInv
  <2>5. CrossedInv
    BY <1>2 DEF CrossedInv
  <2> QED
    BY <1>2, <2>1, <2>2, <2>3, <2>4, <2>5 DEF AnomalyInv
<1>8. RiskInv
  <2>1. market \in Seq(Events) /\ riskFile \in RiskState /\ IsPrefix(riskFile.events, market)
    <3>1. PICK m : m = market
      OBVIOUS
    <3>2. m \in Seq(Events) /\ riskFile.events = m /\ riskFile \in RiskState
      BY <1>2, <3>1 DEF RiskState
    <3> QED
      BY <3>1, <3>2, PrefixSelf
  <2>2. \A e \in ToSet(market) : Reached(The("store_market_events", e), RiskSteps)
    BY <1>2 DEF ToSet
  <2>3. \A t \in PeerThreads : StoreInv(t)
    BY <1>3 DEF StoreInv
  <2>4. \A e \in Events : late[The("compute_risk", e)] > 0 => StoredOrNot(e)
    <3>1. \A e \in Events : late[The("compute_risk", e)] = 0
      BY <1>1, TheFacts DEF Init, Stages
    <3> QED
      BY <3>1
  <2>5. PassedInv
    BY <1>1 DEF PassedInv, At
  <2>6. PricesInOrder /\ ComputedWithEvent
    BY <1>2 DEF PricesInOrder, ComputedWithEvent
  <2> QED
    BY <1>2, <2>1, <2>2, <2>3, <2>4, <2>5, <2>6 DEF RiskInv
<1> QED
  BY <1>2, <1>4, <1>5, <1>6, <1>7, <1>8 DEF PipelineInv

-----------------------------------------------------------------------------
(* The theorems.                                                           *)

\* Whatever calls are given up and execute late, however the threads of the peers
\* take turns at their memory and their saves, and whichever of the three processes
\* restart, what the anomaly and the risk peer hold agrees with what the ingestion
\* peer delivered, gave up or lost, but for saves that crossed.
THEOREM PipelineInvariant == PipelineSpec => [](IngestionInv /\ PipelineInv)
<1>1. PipelineSpec => []IngestionInv
  BY PipelineImplementsIngestion, IngestionInvariant, PTL
<1> QED
  BY <1>1, PipelineInitInv, PipelineNextInv, PTL DEF PipelineSpec

\* analyze_event alerts on an event twice, or scores it against a history that holds
\* it, only when an earlier attempt of the call was given up; for every number of
\* threads, also after a restart from a dump that replaced a newer one.
THEOREM AlertsAreNotRepeated == PipelineSpec => []AlertedOnce
<1>1. PipelineInv => AlertedOnce
  <2> SUFFICES ASSUME PipelineInv, NEW j \in DOMAIN anomaly.alerts,
                      \/ anomaly.alerts[j].event \in ToSet(anomaly.alerts[j].baseline)
                      \/ \E i \in 1..(j - 1) : anomaly.alerts[i].event = anomaly.alerts[j].event
               PROVE  Lost("detect_anomalies", anomaly.alerts[j].event)
    BY DEF AlertedOnce
  <2>1. anomaly.alerts \in Seq(Alert) /\ OnceUnlessLost(anomaly.alerts)
    BY DEF PipelineInv, AnomalyInv, AlertsInv
  <2>2. anomaly.alerts[j] \in Alert
    BY <2>1, ElementFacts
  <2>3. PICK e \in Events : e = anomaly.alerts[j].event
    BY <2>2 DEF Alert
  <2>4. lost[The("detect_anomalies", e)] > 0
    BY <2>1, <2>3 DEF OnceUnlessLost
  <2> QED
    BY <2>3, <2>4, LostFacts DEF Stages
<1> QED
  BY <1>1, PipelineInvariant, PTL

\* The event of a saved alert stays in the baseline of the anomaly peer, restarts
\* included, until history_window later analyses have pushed it out, unless the save
\* crossed another one; and saves of alerts cross only if requests overlapped or a
\* call to the anomaly peer was given up.
THEOREM BaselinesAreKept == PipelineSpec => []BaselineKept
<1>1. PipelineInv => BaselineKept
  <2> SUFFICES ASSUME PipelineInv, NEW k \in DOMAIN analysed, analysed[k].saved
               PROVE  \/ analysed[k].event \in ToSet(anomaly.history)
                      \/ Len(analysed) - k >= history_window
                      \/ /\ Crossed("detect_anomalies", analysed[k].event)
                         /\ overlapped \/ \E e \in Events : Lost("detect_anomalies", e)
    BY DEF BaselineKept
  <2>1. PICK h : h = anomaly.history
    OBVIOUS
  <2>2. HistoryInv(h) /\ CrossedInv
    BY <2>1 DEF PipelineInv, AnomalyInv
  <2>3. PICK e \in Events : e = analysed[k].event
    <3>1. analysed \in Seq([event : Events, saved : BOOLEAN])
      BY DEF PipelineInv, AnomalyInv
    <3>2. analysed[k] \in [event : Events, saved : BOOLEAN]
      BY <3>1, ElementFacts
    <3> QED
      BY <3>2
  <2>4. Holds(h, k) \/ The("detect_anomalies", e) \in crossed
    BY <2>2, <2>3 DEF HistoryInv
  <2>5. CASE Holds(h, k)
    BY <2>1, <2>5 DEF Holds, ToSet
  <2>6. CASE The("detect_anomalies", e) \in crossed
    <3>1. /\ The("detect_anomalies", e) \in RoutesOf(e)
          /\ The("detect_anomalies", e).stage = "detect_anomalies"
      BY TheFacts DEF Stages
    <3>2. Crossed("detect_anomalies", e)
      BY <2>6, <3>1 DEF Crossed
    <3>3. overlapped \/ \E x \in Events : lost[The("detect_anomalies", x)] > 0
      BY <2>2, <2>6, <3>1 DEF CrossedInv
    <3>4. overlapped \/ \E x \in Events : Lost("detect_anomalies", x)
      BY <3>3, LostFacts DEF Stages
    <3> QED
      BY <2>3, <3>2, <3>4
  <2> QED
    BY <2>4, <2>5, <2>6
<1> QED
  BY <1>1, PipelineInvariant, PTL

\* As long as no two requests overlap, the risk peer holds prices in the order of
\* raw_messages and each once, but for calls that were given up, although these are
\* then served beside the next ones.
THEOREM PricesAreInOrder == PipelineSpec => []PricesInOrder
<1>1. PipelineInv => PricesInOrder
  BY DEF PipelineInv, RiskInv
<1> QED
  BY <1>1, PipelineInvariant, PTL

\* compute_risk takes the event that it is called for into account, also when the
\* risk peer restarted since and whatever dumps replaced each other, unless the event
\* was never stored there or the save that stored it crossed another one.
THEOREM RisksAreComputedWithEvent == PipelineSpec => []ComputedWithEvent
<1>1. PipelineInv => ComputedWithEvent
  BY DEF PipelineInv, RiskInv
<1> QED
  BY <1>1, PipelineInvariant, PTL
=============================================================================
