---------------------------- MODULE AnomalyProofs ----------------------------
(***************************************************************************)
(* Proofs about the anomaly peer: AnomalyInv is inductive for any number   *)
(* of threads, events, symbols, failed saves and crashes, and with it what *)
(* an answer promises.                                                     *)
(***************************************************************************)
EXTENDS AnomalyPeer, FiniteSetTheorems, SequenceTheorems, TLAPS

-----------------------------------------------------------------------------
(* Sequences of alerts.                                                    *)

\* Ids takes a sequence of alerts to the sequence of their ids.
LEMMA IdsFacts ==
  ASSUME NEW s \in Seq(Alert)
  PROVE  /\ Ids(s) \in Seq(Nat) /\ Len(Ids(s)) = Len(s) /\ Len(s) \in Nat
         /\ DOMAIN s = 1..Len(s)
         /\ \A i \in 1..Len(s) : Ids(s)[i] = s[i].alert_id /\ s[i] \in Alert
         /\ \A n : n \in ToSet(Ids(s)) <=> \E i \in 1..Len(s) : s[i].alert_id = n
<1>1. DOMAIN s = 1..Len(s) /\ Len(s) \in Nat /\ \A i \in 1..Len(s) : s[i] \in Alert
  OBVIOUS
<1>2. Ids(s) \in [1..Len(s) -> Nat]
  BY <1>1 DEF Ids, Alert
<1>3. Ids(s) \in Seq(Nat) /\ Len(Ids(s)) = Len(s)
  BY <1>1, <1>2
<1>4. \A i \in 1..Len(s) : Ids(s)[i] = s[i].alert_id
  BY <1>1 DEF Ids
<1>5. ToSet(Ids(s)) = {Ids(s)[i] : i \in 1..Len(s)}
  BY <1>1, <1>2 DEF ToSet
<1> QED
  BY <1>1, <1>3, <1>4, <1>5

\* IsPrefix, element by element.
LEMMA PrefixFacts ==
  ASSUME NEW S, NEW s \in Seq(S), NEW t \in Seq(S)
  PROVE  IsPrefix(s, t) <=> Len(s) <= Len(t) /\ \A i \in 1..Len(s) : s[i] = t[i]
<1>1. Len(s) \in Nat /\ Len(t) \in Nat
  OBVIOUS
<1>2. ASSUME Len(s) <= Len(t)
      PROVE  /\ SubSeq(t, 1, Len(s)) = [i \in 1..Len(s) |-> t[i]]
             /\ SubSeq(s, 1, Len(s)) = [i \in 1..Len(s) |-> s[i]]
  BY <1>1, <1>2
<1> QED
  BY <1>1, <1>2 DEF IsPrefix

\* One sequence of alerts begins with the ids of another.
LEMMA IdPrefixFacts ==
  ASSUME NEW s \in Seq(Alert), NEW t \in Seq(Alert)
  PROVE  IsPrefix(Ids(s), Ids(t)) <=>
           Len(s) <= Len(t) /\ \A i \in 1..Len(s) : s[i].alert_id = t[i].alert_id
<1>1. IsPrefix(Ids(s), Ids(t)) <=>
        Len(Ids(s)) <= Len(Ids(t)) /\ \A i \in 1..Len(Ids(s)) : Ids(s)[i] = Ids(t)[i]
  BY IdsFacts, PrefixFacts
<1> QED
  BY <1>1, IdsFacts

-----------------------------------------------------------------------------
(* Tables of deques.                                                       *)

\* A deque that has reached its maxlen loses its oldest features.
LEMMA AppendMaxType ==
  ASSUME NEW q \in Deque, NEW e \in Events
  PROVE  AppendMax(q, e) \in Deque
<1> USE WindowAssumption
<1>1. \A d : d \in Deque <=> d \in Seq(Events) /\ Len(d) <= history_window
  BY DEF Deque, BoundedSeq, SeqOf
<1> DEFINE all == Append(q, e)
           m == Max({1, Len(all) - history_window + 1})
<1>2. all \in Seq(Events) /\ Len(all) \in Nat /\ Len(all) = Len(q) + 1
      /\ Len(q) <= history_window
  BY <1>1
<1>3. m \in {1, Len(all) - history_window + 1} /\ \A y \in {1, Len(all) - history_window + 1} : m >= y
  <2> DEFINE S == {1, Len(all) - history_window + 1}
  <2>1. \E x \in S : \A y \in S : x >= y
    BY <1>2
  <2> QED
    BY <2>1 DEF Max
<1> HIDE DEF all, m
<1>4. m \in 1..Len(all) /\ Len(all) - m + 1 <= history_window
  BY <1>2, <1>3
<1>5. SubSeq(all, m, Len(all)) \in Seq(Events) /\ Len(SubSeq(all, m, Len(all))) = Len(all) - m + 1
  BY <1>2, <1>4
<1> QED
  BY <1>1, <1>4, <1>5 DEF AppendMax, all, m

\* A table, by its domain and its deques.
LEMMA TableFacts ==
  ASSUME NEW t
  PROVE  t \in Table <=>
           \E S \in SUBSET Symbols : IsFiniteSet(S) /\ t \in [S -> Deque]
  BY DEF Table

\* Setting one deque of a table gives a table.
LEMMA TableWith ==
  ASSUME NEW t \in Table, NEW s \in Symbols, NEW q \in Deque
  PROVE  With(t, s, q) \in Table /\ DOMAIN With(t, s, q) = DOMAIN t \union {s}
<1>1. /\ DOMAIN t \subseteq Symbols /\ IsFiniteSet(DOMAIN t)
      /\ \A x \in DOMAIN t : t[x] \in Deque
  BY TableFacts
<1>2. With(t, s, q) \in [DOMAIN t \union {s} -> Deque]
  BY <1>1 DEF With
<1>3. IsFiniteSet(DOMAIN t \union {s})
  BY <1>1, FS_AddElement
<1> QED
  BY <1>1, <1>2, <1>3, TableFacts

\* Touching a symbol only adds the symbol.
LEMMA TouchType ==
  ASSUME NEW t \in Table, NEW s \in Symbols
  PROVE  Touch(t, s) \in Table /\ DOMAIN Touch(t, s) = DOMAIN t \union {s}
<1>1. << >> \in Deque
  BY WindowAssumption DEF Deque, BoundedSeq, SeqOf
<1> QED
  BY <1>1, TableWith DEF Touch

-----------------------------------------------------------------------------
(* Steps of one thread.                                                    *)

\* The rest of the state machine's bookkeeping has its types.
LEMMA UsedType ==
  ASSUME TypeOK, NEW b \in Bounds
  PROVE  [used EXCEPT ![b] = @ + 1] \in [Bounds -> Nat]
  BY DEF TypeOK

\* A thread w that goes on as t, with the alerts, the store and what was saved left
\* alone, disturbs no other thread.
LEMMA LocalStep ==
  ASSUME AnomalyInv, NEW w \in Workers, NEW t \in Thread,
         th' = [th EXCEPT ![w] = t],
         alerts' = alerts, stored' = stored, saved' = saved,
         DOMAIN history \subseteq DOMAIN history',
         overlapped' \/ (overlapped' = overlapped /\ ~At(w, "idle"))
                     \/ (overlapped' = overlapped /\ \A v \in Workers : At(v, "idle")),
         Faithful(t)', Current(t)' \/ overlapped'
  PROVE  StoredIsPrefix' /\ DumpsFaithful' /\ SavesAreCurrent'
<1>1. \A v \in Workers : th'[v] = IF v = w THEN t ELSE th[v]
  BY DEF AnomalyInv, TypeOK
<1>2. StoredIsPrefix'
  BY DEF AnomalyInv, StoredIsPrefix
<1>3. \A u : Faithful(u) => Faithful(u)'
  BY DEF Faithful
<1>4. DumpsFaithful'
  BY <1>1, <1>3 DEF AnomalyInv, DumpsFaithful
<1>5. \A u : Current(u) => Current(u)'
  BY DEF Current
<1>6. SavesAreCurrent'
  BY <1>1, <1>5 DEF AnomalyInv, SavesAreCurrent, At
<1> QED
  BY <1>2, <1>4, <1>6

\* Nor does it take or spend an id, unless it is about to insert an alert.
LEMMA NoNewIds ==
  ASSUME AnomalyInv, NEW w \in Workers, NEW t \in Thread,
         th' = [th EXCEPT ![w] = t], t.pc # "insert",
         alerts' = alerts, created' = created
  PROVE  IdsFresh'
<1>1. \A v \in Workers : th'[v] = IF v = w THEN t ELSE th[v]
  BY DEF AnomalyInv, TypeOK
<1> QED
  BY <1>1 DEF AnomalyInv, IdsFresh, At

\* A thread that gives its request up, or has answered it, is idle.
LEMMA IdleFacts ==
  /\ Idle \in Thread /\ Idle.pc = "idle" /\ Faithful(Idle)' /\ Current(Idle)'
  BY DEF Idle, Thread, Scores, Faithful, Current, Iterating

\* The baseline is copied and the event scored.
LEMMA AnalyzeStep ==
  ASSUME AnomalyInv, NEW w \in Workers, Analyze(w)
  PROVE  AnomalyInv'
<1>1. PICK e \in Events, score \in Scores :
        /\ history' = Touch(history, SymbolOf[e])
        /\ th' = [th EXCEPT ![w] = [Idle EXCEPT !.pc = "append", !.event = e,
                                                !.score = score]]
  BY DEF Analyze
<1>2. PICK t : t = [Idle EXCEPT !.pc = "append", !.event = e, !.score = score]
  OBVIOUS
<1>3. t \in Thread /\ t.pc = "append" /\ t.event = e
  BY <1>2 DEF Thread, Idle
<1>4. Faithful(t)' /\ Current(t)'
  BY <1>3 DEF Faithful, Current, Iterating
<1>5. history' \in Table /\ DOMAIN history \subseteq DOMAIN history'
  BY <1>1, TouchType, SymbolAssumption DEF AnomalyInv, TypeOK
<1>6. used' \in [Bounds -> Nat] /\ overlapped' \in BOOLEAN
  BY UsedType DEF Analyze, Accept, Bounds, AnomalyInv, TypeOK
<1>7. TypeOK'
  BY <1>1, <1>2, <1>3, <1>5, <1>6 DEF AnomalyInv, TypeOK, Analyze, observers
<1>8. StoredIsPrefix' /\ DumpsFaithful' /\ SavesAreCurrent'
  <2>1. overlapped' \/ (overlapped' = overlapped /\ \A v \in Workers : At(v, "idle"))
    BY DEF Analyze, Accept, AnomalyInv, TypeOK
  <2> QED
    BY <1>1, <1>2, <1>3, <1>4, <1>5, <2>1, LocalStep DEF Analyze, observers
<1>9. IdsFresh'
  BY <1>1, <1>2, <1>3, NoNewIds DEF Analyze
<1>10. AuditedWasSaved'
  BY DEF AnomalyInv, AuditedWasSaved, Analyze, observers
<1> QED
  BY <1>7, <1>8, <1>9, <1>10 DEF AnomalyInv

\* The features of an event join the history of its symbol.
LEMMA AppendFeaturesType ==
  ASSUME AnomalyInv, NEW w \in Workers, At(w, "append"), AppendFeatures(w)
  PROVE  history' \in Table /\ DOMAIN history \subseteq DOMAIN history'
<1> DEFINE e == th[w].event
           s == SymbolOf[e]
           touched == Touch(history, s)
<1>1. e \in Events /\ s \in Symbols
  BY SymbolAssumption DEF AnomalyInv, DumpsFaithful, Faithful, At
<1>2. touched \in Table /\ DOMAIN touched = DOMAIN history \union {s}
  BY <1>1, TouchType DEF AnomalyInv, TypeOK
<1> HIDE DEF touched
<1>3. /\ IsFiniteSet(DOMAIN touched) /\ DOMAIN touched \subseteq Symbols
      /\ touched \in [DOMAIN touched -> Deque] /\ s \in DOMAIN touched
  BY <1>2, TableFacts
<1>4. AppendMax(touched[s], e) \in Deque
  BY <1>1, <1>3, AppendMaxType
<1>5. history' = [touched EXCEPT ![s] = AppendMax(@, e)]
  BY DEF AppendFeatures, touched
<1>6. history' \in [DOMAIN touched -> Deque]
  BY <1>3, <1>4, <1>5
<1> QED
  BY <1>2, <1>3, <1>6, TableFacts

\* The request ends without an alert.
LEMMA BelowThresholdStep ==
  ASSUME AnomalyInv, NEW w \in Workers, BelowThreshold(w)
  PROVE  AnomalyInv'
<1>1. /\ th' = [th EXCEPT ![w] = Idle] /\ At(w, "append")
      /\ UNCHANGED <<alerts, stored, ledger, created, observers, load>>
      /\ history' \in Table /\ DOMAIN history \subseteq DOMAIN history'
  BY AppendFeaturesType DEF BelowThreshold, AppendFeatures
<1>2. TypeOK'
  BY <1>1, IdleFacts DEF AnomalyInv, TypeOK, observers, load
<1>3. StoredIsPrefix' /\ DumpsFaithful' /\ SavesAreCurrent'
  BY <1>1, IdleFacts, LocalStep DEF observers, load, At
<1>4. IdsFresh'
  BY <1>1, IdleFacts, NoNewIds
<1>5. AuditedWasSaved'
  BY <1>1 DEF AnomalyInv, AuditedWasSaved, observers
<1> QED
  BY <1>2, <1>3, <1>4, <1>5 DEF AnomalyInv

\* The request goes on with an alert of a new id.
LEMMA AboveThresholdStep ==
  ASSUME AnomalyInv, NEW w \in Workers, AboveThreshold(w)
  PROVE  AnomalyInv'
<1>1. /\ At(w, "append") /\ created' = created + 1
      /\ UNCHANGED <<alerts, stored, ledger, observers, load>>
      /\ history' \in Table /\ DOMAIN history \subseteq DOMAIN history'
  BY AppendFeaturesType DEF AboveThreshold, AppendFeatures
<1>2. PICK a : a = NewAlert(created + 1, th[w].event)
  OBVIOUS
<1>3. a \in Alert /\ a.alert_id = created + 1
  BY <1>1, <1>2 DEF NewAlert, Alert, Status, AnomalyInv, TypeOK, DumpsFaithful, Faithful, At
<1>4. PICK t : t = [th[w] EXCEPT !.pc = "insert", !.alert = a]
  OBVIOUS
<1>5. th' = [th EXCEPT ![w] = t]
  BY <1>2, <1>4 DEF AboveThreshold, AnomalyInv, TypeOK
<1>6. t \in Thread /\ t.pc = "insert" /\ t.alert = a
  BY <1>3, <1>4 DEF AnomalyInv, TypeOK, Thread
<1>7. TypeOK'
  BY <1>1, <1>5, <1>6 DEF AnomalyInv, TypeOK, observers, load
<1>8. Faithful(t)' /\ Current(t)'
  BY <1>6 DEF Faithful, Current, Iterating
<1>9. StoredIsPrefix' /\ DumpsFaithful' /\ SavesAreCurrent'
  BY <1>1, <1>5, <1>6, <1>8, LocalStep DEF observers, load, At
<1>10. IdsFresh'
  <2>1. \A v \in Workers : th'[v] = IF v = w THEN t ELSE th[v]
    BY <1>5 DEF AnomalyInv, TypeOK
  <2>2. created \in Nat /\ created + 1 \in 1..created' /\ 1..created \subseteq 1..created'
        /\ created + 1 \notin 1..created
    BY <1>1 DEF AnomalyInv, TypeOK
  <2> QED
    BY <1>1, <1>3, <1>6, <2>1, <2>2 DEF AnomalyInv, IdsFresh, At
<1>11. AuditedWasSaved'
  BY <1>1 DEF AnomalyInv, AuditedWasSaved, observers
<1> QED
  BY <1>7, <1>9, <1>10, <1>11 DEF AnomalyInv

\* When the alerts only grow or change in place, no other thread is disturbed.
LEMMA FaithfulGrows ==
  ASSUME NEW u \in Thread, Faithful(u),
         alerts \in Seq(Alert), alerts' \in Seq(Alert),
         IsPrefix(Ids(alerts), Ids(alerts')), history' = history, saved \subseteq saved'
  PROVE  Faithful(u)'
<1>1. Len(alerts) <= Len(alerts')
      /\ \A i \in 1..Len(alerts) : alerts[i].alert_id = alerts'[i].alert_id
  BY IdPrefixFacts
<1>2. ToSet(Ids(alerts)) \subseteq ToSet(Ids(alerts'))
  <2> SUFFICES ASSUME NEW n \in ToSet(Ids(alerts)) PROVE n \in ToSet(Ids(alerts'))
    OBVIOUS
  <2>1. PICK i \in 1..Len(alerts) : alerts[i].alert_id = n
    BY IdsFacts
  <2>2. i \in 1..Len(alerts') /\ alerts'[i].alert_id = n
    BY <1>1, <2>1
  <2> QED
    BY <2>2, IdsFacts
<1>3. ASSUME NEW s \in Seq(Alert), IsPrefix(Ids(s), Ids(alerts))
      PROVE  IsPrefix(Ids(s), Ids(alerts'))
  <2>1. Len(s) <= Len(alerts)
        /\ \A i \in 1..Len(s) : s[i].alert_id = alerts[i].alert_id
    BY <1>3, IdPrefixFacts
  <2>2. Len(s) <= Len(alerts')
        /\ \A i \in 1..Len(s) : s[i].alert_id = alerts'[i].alert_id
    BY <1>1, <2>1
  <2> QED
    BY <2>2, IdPrefixFacts
<1>4. u.pc \in Iterating => u.dump.alerts \in Seq(Alert)
  BY DEF Faithful, State
<1> QED
  BY <1>2, <1>3, <1>4 DEF Faithful

\* The start of _save_state, with the alert a in memory.
LEMMA AtSaveFacts ==
  ASSUME NEW t \in Thread, NEW a \in Alert, t.alert = a,
         NEW type \in {"anomaly_alert_created", "anomaly_alert_reviewed"}
  PROVE  LET u == AtSave(t, <<type, a.alert_id>>)
         IN  /\ u \in Thread /\ u.pc = "iterate" /\ u.alert = a
             /\ u.block \in Block /\ u.block[2] = a.alert_id
             /\ u.dump \in State /\ u.dump.alerts = << >>
<1>1. <<type, a.alert_id>> \in Block /\ <<type, a.alert_id>>[2] = a.alert_id
  BY DEF Block, Alert
<1>2. << >> \in Table
  <2>1. << >> \in [{} -> Deque] /\ IsFiniteSet({})
    BY FS_EmptySet
  <2> QED
    BY <2>1, TableFacts
<1>3. [alerts |-> << >>, history |-> << >>] \in State
  BY <1>2 DEF State
<1> QED
  BY <1>1, <1>3 DEF AtSave, Thread, Iterating

\* Nothing is a prefix of anything.
LEMMA EmptyPrefix ==
  ASSUME NEW s \in Seq(Alert)
  PROVE  IsPrefix(Ids(<< >>), Ids(s)) /\ IsPrefix(<< >>, s)
<1> DEFINE e == << >>
<1>1. e \in Seq(Alert) /\ Len(e) = 0 /\ Len(s) \in Nat
  OBVIOUS
<1> HIDE DEF e
<1>2. Len(e) <= Len(s) /\ \A i \in 1..Len(e) : e[i].alert_id = s[i].alert_id /\ e[i] = s[i]
  BY <1>1
<1>3. IsPrefix(Ids(e), Ids(s))
  BY <1>1, <1>2, IdPrefixFacts
<1>4. IsPrefix(e, s)
  BY <1>1, <1>2, PrefixFacts
<1> QED
  BY <1>3, <1>4 DEF e

\* The new alert is in memory.
LEMMA InsertAlertStep ==
  ASSUME AnomalyInv, NEW w \in Workers, InsertAlert(w)
  PROVE  AnomalyInv'
<1>1. PICK a : a = th[w].alert
  OBVIOUS
<1>2. /\ a \in Alert /\ a.alert_id \in 1..created /\ a.alert_id \notin ToSet(Ids(alerts))
      /\ alerts' = Append(alerts, a) /\ At(w, "insert")
      /\ UNCHANGED <<history, stored, ledger, created, observers, load>>
  BY <1>1 DEF AnomalyInv, IdsFresh, InsertAlert
<1>3. PICK t : t = AtSave(th[w], <<"anomaly_alert_created", a.alert_id>>)
  OBVIOUS
<1>4. /\ t \in Thread /\ t.pc = "iterate" /\ t.alert = a
      /\ t.block \in Block /\ t.block[2] = a.alert_id
      /\ t.dump \in State /\ t.dump.alerts = << >>
  <2>1. th[w] \in Thread /\ th[w].alert = a
    BY <1>1 DEF AnomalyInv, TypeOK
  <2>2. a \in Alert
    BY <1>2
  <2> QED
    BY <1>3, <2>1, <2>2, AtSaveFacts
<1>5. th' = [th EXCEPT ![w] = t] /\ \A v \in Workers : th'[v] = IF v = w THEN t ELSE th[v]
  BY <1>1, <1>3 DEF InsertAlert, AnomalyInv, TypeOK
<1>6. /\ alerts \in Seq(Alert) /\ alerts' \in Seq(Alert)
      /\ Len(alerts) \in Nat /\ Len(alerts') = Len(alerts) + 1
      /\ \A i \in 1..Len(alerts) : alerts'[i] = alerts[i]
      /\ alerts'[Len(alerts) + 1] = a
  BY <1>2 DEF AnomalyInv, TypeOK
<1>7. TypeOK'
  BY <1>2, <1>4, <1>5, <1>6 DEF AnomalyInv, TypeOK, observers, load
<1>8. IsPrefix(Ids(alerts), Ids(alerts')) /\ IsPrefix(alerts, alerts')
  BY <1>6, IdPrefixFacts, PrefixFacts
<1>9. StoredIsPrefix'
  <2>1. stored.alerts \in Seq(Alert) /\ stored' = stored
    BY <1>2 DEF AnomalyInv, TypeOK, State
  <2>2. Len(stored.alerts) <= Len(alerts) /\ Len(stored.alerts) \in Nat
        /\ \A i \in 1..Len(stored.alerts) : stored.alerts[i].alert_id = alerts[i].alert_id
    BY <1>6, <2>1, IdPrefixFacts DEF AnomalyInv, StoredIsPrefix
  <2>3. Len(stored.alerts) <= Len(alerts')
        /\ \A i \in 1..Len(stored.alerts) : stored.alerts[i].alert_id = alerts'[i].alert_id
    BY <1>6, <2>2
  <2> QED
    BY <1>6, <2>1, <2>3, IdPrefixFacts DEF StoredIsPrefix
<1>10. \A n : n \in ToSet(Ids(alerts')) <=> n \in ToSet(Ids(alerts)) \/ n = a.alert_id
  <2>1. \A n : n \in ToSet(Ids(alerts')) <=> \E i \in 1..Len(alerts') : alerts'[i].alert_id = n
    BY <1>6, IdsFacts
  <2>2. \A n : n \in ToSet(Ids(alerts)) <=> \E i \in 1..Len(alerts) : alerts[i].alert_id = n
    BY <1>6, IdsFacts
  <2>3. \A i \in 1..Len(alerts') : i \in 1..Len(alerts) \/ i = Len(alerts) + 1
    BY <1>6
  <2>4. Len(alerts) + 1 \in 1..Len(alerts') /\ \A i \in 1..Len(alerts) : i \in 1..Len(alerts')
    BY <1>6
  <2>5. ASSUME NEW n, n \in ToSet(Ids(alerts'))
        PROVE  n \in ToSet(Ids(alerts)) \/ n = a.alert_id
    <3>1. PICK i \in 1..Len(alerts') : alerts'[i].alert_id = n
      BY <2>1, <2>5
    <3> QED
      BY <1>6, <2>2, <2>3, <3>1
  <2>6. ASSUME NEW n \in ToSet(Ids(alerts)) PROVE n \in ToSet(Ids(alerts'))
    <3>1. PICK i \in 1..Len(alerts) : alerts[i].alert_id = n
      BY <2>2
    <3>2. i \in 1..Len(alerts') /\ alerts'[i].alert_id = n
      BY <1>6, <2>4, <3>1
    <3> QED
      BY <2>1, <3>2
  <2>7. a.alert_id \in ToSet(Ids(alerts'))
    BY <1>6, <2>1, <2>4
  <2> QED
    BY <2>5, <2>6, <2>7
<1>11. IdsFresh'
  <2>1. IsInjective(Ids(alerts'))
    <3>0. /\ DOMAIN Ids(alerts) = 1..Len(alerts)
          /\ \A i \in 1..Len(alerts) : Ids(alerts)[i] = alerts[i].alert_id
      BY <1>6, IdsFacts
    <3>1. \A i, j \in 1..Len(alerts) : alerts[i].alert_id = alerts[j].alert_id => i = j
      BY <3>0 DEF AnomalyInv, IdsFresh, IsInjective
    <3>2. \A i \in 1..Len(alerts) : alerts[i].alert_id # a.alert_id
      BY <1>2, <1>6, IdsFacts
    <3>3. \A i, j \in 1..Len(alerts') : alerts'[i].alert_id = alerts'[j].alert_id => i = j
      BY <1>6, <3>1, <3>2
    <3>4. DOMAIN Ids(alerts') = 1..Len(alerts')
          /\ \A i \in 1..Len(alerts') : Ids(alerts')[i] = alerts'[i].alert_id
      BY <1>6, IdsFacts
    <3> QED
      BY <3>3, <3>4 DEF IsInjective
  <2>2. ToSet(Ids(alerts')) \subseteq 1..created'
    BY <1>2, <1>10 DEF AnomalyInv, IdsFresh
  <2>3. ASSUME NEW v \in Workers, th'[v].pc = "insert"
        PROVE  /\ v # w /\ th'[v] = th[v] /\ At(v, "insert")
               /\ th'[v].alert \in Alert
               /\ th'[v].alert.alert_id \in (1..created') \ ToSet(Ids(alerts'))
    <3>1. v # w /\ th'[v] = th[v] /\ At(v, "insert")
      BY <1>4, <1>5, <2>3 DEF At
    <3>2. th[v].alert \in Alert /\ th[v].alert.alert_id \in (1..created) \ ToSet(Ids(alerts))
          /\ th[v].alert.alert_id # a.alert_id
      BY <1>1, <1>2, <3>1 DEF AnomalyInv, IdsFresh
    <3> QED
      BY <1>2, <1>10, <3>1, <3>2
  <2> QED
    BY <2>1, <2>2, <2>3 DEF AnomalyInv, IdsFresh, At
<1>12. DumpsFaithful'
  <2>1. Faithful(t)'
    BY <1>4, <1>6, <1>10, EmptyPrefix DEF Faithful, Iterating
  <2>2. ASSUME NEW v \in Workers, v # w PROVE Faithful(th[v])'
    <3>1. PICK u : u = th[v]
      OBVIOUS
    <3>2. u \in Thread /\ Faithful(u) /\ th'[v] = u
      BY <1>5, <2>2, <3>1 DEF AnomalyInv, TypeOK, DumpsFaithful
    <3>3. Faithful(u)'
      BY <1>2, <1>6, <1>8, <3>2, FaithfulGrows DEF observers
    <3> QED
      BY <3>2, <3>3
  <2> QED
    BY <1>5, <2>1, <2>2 DEF DumpsFaithful
<1>13. SavesAreCurrent'
  <2> SUFFICES ASSUME ~overlapped'
               PROVE  /\ \A v, x \in Workers : (~At(v, "idle")' /\ ~At(x, "idle")') => v = x
                      /\ \A i \in DOMAIN stored'.alerts :
                           stored'.alerts[i].status \in Reviews => alerts'[i].status \in Reviews
                      /\ \A v \in Workers : Current(th[v])'
    BY DEF SavesAreCurrent
  <2>1. ~overlapped /\ stored' = stored
    BY <1>2 DEF load
  <2>2. \A v \in Workers : v # w => th'[v].pc = "idle"
    BY <1>2, <1>5, <2>1 DEF AnomalyInv, SavesAreCurrent, At
  <2>3. \A i \in DOMAIN stored'.alerts :
          stored'.alerts[i].status \in Reviews => alerts'[i].status \in Reviews
    <3>1. /\ DOMAIN stored.alerts = 1..Len(stored.alerts) /\ Len(stored.alerts) \in Nat
          /\ Len(stored.alerts) <= Len(alerts)
      BY <1>6, IdsFacts, IdPrefixFacts DEF AnomalyInv, TypeOK, State, StoredIsPrefix
    <3> QED
      BY <1>6, <2>1, <3>1 DEF AnomalyInv, SavesAreCurrent
  <2>4. Current(t)'
    <3>1. a \in ToSet(alerts')
      BY <1>6 DEF ToSet
    <3> QED
      BY <1>4, <1>6, <3>1, EmptyPrefix DEF Current, Iterating
  <2>5. ASSUME NEW v \in Workers, v # w PROVE Current(th[v])'
    BY <2>2, <2>5 DEF Current, Iterating
  <2> QED
    BY <1>5, <2>2, <2>3, <2>4, <2>5 DEF At
<1>14. AuditedWasSaved'
  BY <1>2 DEF AnomalyInv, AuditedWasSaved, observers
<1> QED
  BY <1>7, <1>9, <1>11, <1>12, <1>13, <1>14 DEF AnomalyInv

\* A verdict replaces an alert in its place.
LEMMA ReviewAlertStep ==
  ASSUME AnomalyInv, NEW w \in Workers, ReviewAlert(w)
  PROVE  AnomalyInv'
<1>1. PICK i \in DOMAIN alerts, verdict \in Reviews :
        LET updated == [alerts[i] EXCEPT !.status = verdict]
        IN  /\ alerts' = [alerts EXCEPT ![i] = updated]
            /\ th' = [th EXCEPT ![w] =
                        AtSave([Idle EXCEPT !.alert = updated],
                               <<"anomaly_alert_reviewed", updated.alert_id>>)]
  BY DEF ReviewAlert
<1>2. PICK a : a = [alerts[i] EXCEPT !.status = verdict]
  OBVIOUS
<1>3. /\ alerts \in Seq(Alert) /\ i \in 1..Len(alerts) /\ Len(alerts) \in Nat
      /\ a \in Alert /\ a.alert_id = alerts[i].alert_id /\ a.status = verdict
  <2>1. alerts \in Seq(Alert) /\ i \in 1..Len(alerts) /\ alerts[i] \in Alert /\ Len(alerts) \in Nat
    BY DEF AnomalyInv, TypeOK
  <2> QED
    BY <1>2, <2>1 DEF Alert, Status
<1>4. /\ alerts' \in Seq(Alert) /\ Len(alerts') = Len(alerts)
      /\ \A j \in 1..Len(alerts) : alerts'[j] = IF j = i THEN a ELSE alerts[j]
  BY <1>1, <1>2, <1>3
<1>5. Ids(alerts') = Ids(alerts)
  <2>1. \A j \in 1..Len(alerts) : alerts'[j].alert_id = alerts[j].alert_id
    BY <1>3, <1>4
  <2>2. \A j \in 1..Len(alerts) : Ids(alerts)[j] = alerts[j].alert_id
    BY <1>3, IdsFacts
  <2>3. \A j \in 1..Len(alerts) : Ids(alerts')[j] = alerts'[j].alert_id
    BY <1>4, IdsFacts
  <2>4. Ids(alerts') \in Seq(Nat) /\ Len(Ids(alerts')) = Len(alerts)
    BY <1>4, IdsFacts
  <2>5. Ids(alerts) \in Seq(Nat) /\ Len(Ids(alerts)) = Len(alerts)
    BY <1>3, IdsFacts
  <2> QED
    BY <2>1, <2>2, <2>3, <2>4, <2>5, SeqEqual
<1>6. PICK t : t = AtSave([Idle EXCEPT !.alert = a], <<"anomaly_alert_reviewed", a.alert_id>>)
  OBVIOUS
<1>7. /\ t \in Thread /\ t.pc = "iterate" /\ t.alert = a
      /\ t.block \in Block /\ t.block[2] = a.alert_id
      /\ t.dump \in State /\ t.dump.alerts = << >>
  <2>1. [Idle EXCEPT !.alert = a] \in Thread /\ [Idle EXCEPT !.alert = a].alert = a
    BY <1>3 DEF Idle, Thread, Scores
  <2> QED
    BY <1>3, <1>6, <2>1, AtSaveFacts
<1>8. th' = [th EXCEPT ![w] = t] /\ \A v \in Workers : th'[v] = IF v = w THEN t ELSE th[v]
  BY <1>1, <1>2, <1>6 DEF AnomalyInv, TypeOK
<1>9. /\ UNCHANGED <<history, stored, ledger, created, observers>>
      /\ used' \in [Bounds -> Nat] /\ overlapped' \in BOOLEAN
      /\ overlapped' \/ (~overlapped /\ \A v \in Workers : At(v, "idle"))
  BY UsedType DEF ReviewAlert, Accept, Bounds, AnomalyInv, TypeOK
<1>10. TypeOK'
  BY <1>4, <1>7, <1>8, <1>9 DEF AnomalyInv, TypeOK, observers
<1>11. StoredIsPrefix'
  BY <1>5, <1>9 DEF AnomalyInv, StoredIsPrefix
<1>12. IdsFresh'
  BY <1>5, <1>7, <1>8, <1>9 DEF AnomalyInv, IdsFresh, At
<1>13. DumpsFaithful'
  <2>1. a.alert_id \in ToSet(Ids(alerts'))
    BY <1>3, <1>4, <1>5, IdsFacts
  <2>2. Faithful(t)'
    BY <1>4, <1>7, <2>1, EmptyPrefix DEF Faithful, Iterating
  <2>3. \A u : Faithful(u) => Faithful(u)'
    BY <1>5, <1>9 DEF Faithful, observers
  <2> QED
    BY <1>8, <2>2, <2>3 DEF AnomalyInv, DumpsFaithful
<1>14. SavesAreCurrent'
  <2> SUFFICES ASSUME ~overlapped'
               PROVE  /\ \A v, x \in Workers : (~At(v, "idle")' /\ ~At(x, "idle")') => v = x
                      /\ \A j \in DOMAIN stored'.alerts :
                           stored'.alerts[j].status \in Reviews => alerts'[j].status \in Reviews
                      /\ \A v \in Workers : Current(th[v])'
    BY DEF SavesAreCurrent
  <2>1. ~overlapped /\ stored' = stored /\ \A v \in Workers : v # w => th'[v].pc = "idle"
    BY <1>8, <1>9 DEF At
  <2>2. \A j \in DOMAIN stored'.alerts :
          stored'.alerts[j].status \in Reviews => alerts'[j].status \in Reviews
    <3>1. /\ DOMAIN stored.alerts = 1..Len(stored.alerts) /\ Len(stored.alerts) \in Nat
          /\ Len(stored.alerts) <= Len(alerts)
      BY <1>3, IdsFacts, IdPrefixFacts DEF AnomalyInv, TypeOK, State, StoredIsPrefix
    <3> QED
      BY <1>3, <1>4, <2>1, <3>1 DEF AnomalyInv, SavesAreCurrent
  <2>3. Current(t)'
    <3>1. a \in ToSet(alerts')
      BY <1>3, <1>4 DEF ToSet
    <3> QED
      BY <1>4, <1>7, <3>1, EmptyPrefix DEF Current, Iterating
  <2>4. ASSUME NEW v \in Workers, v # w PROVE Current(th[v])'
    BY <2>1, <2>4 DEF Current, Iterating
  <2> QED
    BY <1>8, <2>1, <2>2, <2>3, <2>4 DEF At
<1>15. AuditedWasSaved'
  BY <1>9 DEF AnomalyInv, AuditedWasSaved, observers
<1> QED
  BY <1>10, <1>11, <1>12, <1>13, <1>14, <1>15 DEF AnomalyInv

\* A step of _save_state, or its end, that leaves everything but the thread alone.
LEMMA SavingStep ==
  ASSUME AnomalyInv, NEW w \in Workers, ~At(w, "idle"), NEW t \in Thread,
         th' = [th EXCEPT ![w] = t], t.pc # "insert",
         UNCHANGED <<memory, stored, ledger, created, observers, overlapped>>,
         used' \in [Bounds -> Nat],
         Faithful(t)', ~overlapped => Current(t)'
  PROVE  AnomalyInv'
<1>1. TypeOK'
  BY DEF AnomalyInv, TypeOK, memory, observers
<1>2. StoredIsPrefix' /\ DumpsFaithful' /\ SavesAreCurrent'
  BY LocalStep DEF memory, observers
<1>3. IdsFresh'
  BY NoNewIds DEF memory
<1>4. AuditedWasSaved'
  BY DEF AnomalyInv, AuditedWasSaved, observers
<1> QED
  BY <1>1, <1>2, <1>3, <1>4 DEF AnomalyInv

\* The iterator over the alerts is made.
LEMMA IterateStep ==
  ASSUME AnomalyInv, NEW w \in Workers, Iterate(w)
  PROVE  AnomalyInv'
<1>1. PICK t : t = [th[w] EXCEPT !.pc = "dump_alerts", !.size = Len(alerts)]
  OBVIOUS
<1>2. /\ th[w] \in Thread /\ th[w].pc = "iterate" /\ Faithful(th[w])
      /\ ~overlapped => Current(th[w])
      /\ Len(alerts) \in Nat /\ used \in [Bounds -> Nat]
  BY DEF AnomalyInv, TypeOK, DumpsFaithful, SavesAreCurrent, Iterate, At
<1>3. /\ t \in Thread /\ t.pc = "dump_alerts" /\ t.alert = th[w].alert
      /\ t.block = th[w].block /\ t.dump = th[w].dump
  BY <1>1, <1>2 DEF Thread, Iterating
<1>4. th' = [th EXCEPT ![w] = t]
  BY <1>1 DEF Iterate, AnomalyInv, TypeOK
<1>5. Faithful(t)' /\ (~overlapped => Current(t)')
  BY <1>2, <1>3 DEF Faithful, Current, Iterating, Iterate, memory, observers
<1> QED
  BY <1>2, <1>3, <1>4, <1>5, SavingStep DEF Iterate, At, load

\* One more alert is serialised, or all are and the histories follow.
LEMMA DumpAlertStep ==
  ASSUME AnomalyInv, NEW w \in Workers, DumpAlert(w)
  PROVE  AnomalyInv'
<1>1. /\ th[w] \in Thread /\ th[w].pc = "dump_alerts" /\ Faithful(th[w])
      /\ ~overlapped => Current(th[w])
      /\ alerts \in Seq(Alert) /\ history \in Table /\ used \in [Bounds -> Nat]
      /\ UNCHANGED <<memory, stored, ledger, created, observers, load>>
  BY DEF AnomalyInv, TypeOK, DumpsFaithful, SavesAreCurrent, DumpAlert, At
<1>2. PICK d : d = th[w].dump
  OBVIOUS
<1>3. /\ d \in State /\ d.alerts \in Seq(Alert) /\ Len(d.alerts) \in Nat /\ Len(alerts) \in Nat
      /\ Len(d.alerts) <= Len(alerts)
      /\ \A i \in 1..Len(d.alerts) : d.alerts[i].alert_id = alerts[i].alert_id
  <2>1. d \in State /\ d.alerts \in Seq(Alert) /\ IsPrefix(Ids(d.alerts), Ids(alerts))
    BY <1>1, <1>2 DEF Faithful, Iterating, State
  <2> QED
    BY <1>1, <2>1, IdPrefixFacts
<1>4. CASE Len(d.alerts) + 1 <= Len(alerts)
  <2>1. PICK t : t = [th[w] EXCEPT !.dump.alerts =
                        Append(th[w].dump.alerts, alerts[Len(th[w].dump.alerts) + 1])]
    OBVIOUS
  <2>2. PICK s : s = Append(d.alerts, alerts[Len(d.alerts) + 1])
    OBVIOUS
  <2>3. /\ s \in Seq(Alert) /\ Len(s) = Len(d.alerts) + 1
        /\ s[Len(d.alerts) + 1] = alerts[Len(d.alerts) + 1]
        /\ \A i \in 1..Len(d.alerts) : s[i] = d.alerts[i]
    BY <1>1, <1>3, <1>4, <2>2
  <2>4. [d EXCEPT !.alerts = s] \in State /\ [d EXCEPT !.alerts = s].alerts = s
    BY <1>3, <2>3 DEF State
  <2>5. /\ t \in Thread /\ t.pc = "dump_alerts" /\ t.alert = th[w].alert
        /\ t.block = th[w].block /\ t.dump \in State /\ t.dump.alerts = s
    BY <1>1, <1>2, <2>1, <2>2, <2>4 DEF Thread
  <2>6. th' = [th EXCEPT ![w] = t]
    BY <1>2, <1>4, <2>1 DEF DumpAlert, AnomalyInv, TypeOK
  <2>7. IsPrefix(Ids(s), Ids(alerts))
    <3>0. Len(s) <= Len(alerts)
      BY <1>4, <2>3
    <3>1. ASSUME NEW i \in 1..Len(s) PROVE s[i].alert_id = alerts[i].alert_id
      <4>1. i \in 1..Len(d.alerts) \/ i = Len(d.alerts) + 1
        BY <1>3, <2>3
      <4>2. CASE i \in 1..Len(d.alerts)
        BY <1>3, <2>3, <4>2
      <4>3. CASE i = Len(d.alerts) + 1
        BY <2>3, <4>3
      <4> QED
        BY <4>1, <4>2, <4>3
    <3> QED
      BY <1>1, <2>3, <3>0, <3>1, IdPrefixFacts
  <2>8. ASSUME ~overlapped PROVE IsPrefix(s, alerts)
    <3>1. IsPrefix(d.alerts, alerts)
      BY <1>1, <1>2, <2>8 DEF Current, Iterating
    <3>2. \A i \in 1..Len(d.alerts) : d.alerts[i] = alerts[i]
      BY <1>1, <1>3, <3>1, PrefixFacts
    <3>3. Len(s) <= Len(alerts) /\ \A i \in 1..Len(s) : s[i] = alerts[i]
      BY <1>3, <1>4, <2>3, <3>2
    <3> QED
      BY <1>1, <2>3, <3>3, PrefixFacts
  <2>9. Faithful(t)' /\ (~overlapped => Current(t)')
    BY <1>1, <2>5, <2>7, <2>8 DEF Faithful, Current, Iterating, memory, observers
  <2> QED
    BY <1>1, <2>5, <2>6, <2>9, SavingStep DEF At, load
<1>5. CASE ~(Len(d.alerts) + 1 <= Len(alerts))
  <2>1. PICK t : t = [th[w] EXCEPT !.pc = "dump_history", !.todo = DOMAIN history,
                                   !.size = Cardinality(DOMAIN history)]
    OBVIOUS
  <2>2. DOMAIN history \in SUBSET Symbols /\ Cardinality(DOMAIN history) \in Nat
    BY <1>1, TableFacts, FS_CardinalityType
  <2>3. /\ t \in Thread /\ t.pc = "dump_history" /\ t.alert = th[w].alert
        /\ t.block = th[w].block /\ t.dump = d /\ t.todo = DOMAIN history
    BY <1>1, <1>2, <2>1, <2>2 DEF Thread, Iterating
  <2>4. th' = [th EXCEPT ![w] = t]
    BY <1>2, <1>5, <2>1 DEF DumpAlert, AnomalyInv, TypeOK
  <2>5. Len(d.alerts) = Len(alerts)
    BY <1>3, <1>5
  <2>6. t.alert.alert_id \in ToSet(Ids(d.alerts))
    <3>1. PICK i \in 1..Len(alerts) : alerts[i].alert_id = t.alert.alert_id
      BY <1>1, <2>3, IdsFacts DEF Faithful, Iterating
    <3>2. d.alerts[i].alert_id = t.alert.alert_id /\ i \in 1..Len(d.alerts)
      BY <1>3, <2>5, <3>1
    <3> QED
      BY <1>3, <3>2, IdsFacts
  <2>7. ASSUME ~overlapped PROVE d.alerts = alerts
    <3>1. IsPrefix(d.alerts, alerts)
      BY <1>1, <1>2, <2>7 DEF Current, Iterating
    <3>2. \A i \in 1..Len(d.alerts) : d.alerts[i] = alerts[i]
      BY <1>1, <1>3, <3>1, PrefixFacts
    <3> QED
      BY <1>1, <1>3, <2>5, <3>2, SeqEqual
  <2>8. Faithful(t)' /\ (~overlapped => Current(t)')
    BY <1>1, <1>2, <2>3, <2>6, <2>7 DEF Faithful, Current, Iterating, memory, observers
  <2> QED
    BY <1>1, <2>3, <2>4, <2>8, SavingStep DEF At, load
<1> QED
  BY <1>4, <1>5

\* One more history is serialised, or all are.
LEMMA DumpHistoryStep ==
  ASSUME AnomalyInv, NEW w \in Workers, DumpHistory(w)
  PROVE  AnomalyInv'
<1>1. /\ th[w] \in Thread /\ th[w].pc = "dump_history" /\ Faithful(th[w])
      /\ ~overlapped => Current(th[w])
      /\ history \in Table /\ used \in [Bounds -> Nat]
      /\ UNCHANGED <<memory, stored, ledger, created, observers, load>>
  BY DEF AnomalyInv, TypeOK, DumpsFaithful, SavesAreCurrent, DumpHistory, At
<1>2. CASE th' = [th EXCEPT ![w].pc = "replace"]
  <2>1. PICK t : t = [th[w] EXCEPT !.pc = "replace"]
    OBVIOUS
  <2>2. /\ t \in Thread /\ t.pc = "replace" /\ t.alert = th[w].alert
        /\ t.block = th[w].block /\ t.dump = th[w].dump
    BY <1>1, <2>1 DEF Thread, Iterating
  <2>3. th' = [th EXCEPT ![w] = t]
    BY <1>2, <2>1 DEF AnomalyInv, TypeOK
  <2>4. Faithful(t)' /\ (~overlapped => Current(t)')
    BY <1>1, <2>2 DEF Faithful, Current, Iterating, memory, observers
  <2> QED
    BY <1>1, <2>2, <2>3, <2>4, SavingStep DEF At, load
<1>3. ASSUME NEW s \in th[w].todo,
             th' = [th EXCEPT ![w].todo = @ \ {s},
                              ![w].dump.history = With(@, s, history[s])]
      PROVE  AnomalyInv'
  <2>1. PICK d : d = th[w].dump
    OBVIOUS
  <2>2. PICK table : table = With(d.history, s, history[s])
    OBVIOUS
  <2>3. d \in State /\ th[w].todo \subseteq DOMAIN history
    BY <1>1, <2>1 DEF Faithful, Iterating
  <2>4. s \in Symbols /\ history[s] \in Deque
    BY <1>1, <1>3, <2>3, TableFacts
  <2>5. table \in Table
    BY <2>2, <2>3, <2>4, TableWith DEF State
  <2>6. PICK t : t = [th[w] EXCEPT !.todo = th[w].todo \ {s},
                                   !.dump = [d EXCEPT !.history = table]]
    OBVIOUS
  <2>7. [d EXCEPT !.history = table] \in State /\ [d EXCEPT !.history = table].alerts = d.alerts
    BY <2>3, <2>5 DEF State
  <2>8. /\ t \in Thread /\ t.pc = "dump_history" /\ t.alert = th[w].alert
        /\ t.block = th[w].block /\ t.todo = th[w].todo \ {s}
        /\ t.dump \in State /\ t.dump.alerts = d.alerts
    BY <1>1, <2>6, <2>7 DEF Thread
  <2>9. th' = [th EXCEPT ![w] = t]
    BY <1>3, <2>1, <2>2, <2>6 DEF AnomalyInv, TypeOK, Thread
  <2>10. Faithful(t)' /\ (~overlapped => Current(t)')
    BY <1>1, <2>1, <2>8 DEF Faithful, Current, Iterating, memory, observers
  <2> QED
    BY <1>1, <2>8, <2>9, <2>10, SavingStep DEF At, load
<1> QED
  BY <1>2, <1>3 DEF DumpHistory

\* A request that fails leaves its change in memory, unsaved.
LEMMA FailedSaveStep ==
  ASSUME AnomalyInv, NEW w \in Workers, SizeChanged(w) \/ SaveFails(w)
  PROVE  AnomalyInv'
<1>1. /\ th' = [th EXCEPT ![w] = Idle] /\ ~At(w, "idle")
      /\ UNCHANGED <<memory, stored, ledger, created, observers, overlapped>>
      /\ used' \in [Bounds -> Nat]
  BY UsedType DEF SizeChanged, SaveFails, Fault, Spend, load, At, Bounds, AnomalyInv, TypeOK
<1> QED
  BY <1>1, IdleFacts, SavingStep

\* What was serialised replaces what the store held.
LEMMA SaveJsonStep ==
  ASSUME AnomalyInv, NEW w \in Workers, SaveJson(w)
  PROVE  AnomalyInv'
<1>1. /\ th[w] \in Thread /\ th[w].pc = "replace" /\ Faithful(th[w])
      /\ ~overlapped => Current(th[w]) /\ \A v \in Workers : v # w => At(v, "idle")
      /\ UNCHANGED <<memory, ledger, created, answered, load>>
      /\ alerts \in Seq(Alert)
  BY DEF AnomalyInv, TypeOK, DumpsFaithful, SavesAreCurrent, SaveJson, At
<1>2. PICK d : d = th[w].dump
  OBVIOUS
<1>3. /\ d \in State /\ d.alerts \in Seq(Alert)
      /\ stored' = d /\ saved' = saved \union ToSet(Ids(d.alerts))
      /\ IsPrefix(Ids(d.alerts), Ids(alerts))
      /\ th[w].alert.alert_id \in ToSet(Ids(d.alerts))
      /\ th[w].alert \in Alert
      /\ th[w].block \in Block /\ th[w].block[2] = th[w].alert.alert_id
  BY <1>1, <1>2 DEF Faithful, Iterating, State, SaveJson
<1>4. PICK t : t = [th[w] EXCEPT !.pc = "record"]
  OBVIOUS
<1>5. t \in Thread /\ t.pc = "record" /\ t.alert = th[w].alert /\ t.block = th[w].block
  BY <1>1, <1>4 DEF Thread
<1>6. th' = [th EXCEPT ![w] = t] /\ \A v \in Workers : th'[v] = IF v = w THEN t ELSE th[v]
  BY <1>4 DEF SaveJson, AnomalyInv, TypeOK
<1>7. TypeOK'
  <2>1. ToSet(Ids(d.alerts)) \subseteq Nat
    BY <1>3, IdsFacts DEF Alert
  <2> QED
    BY <1>1, <1>3, <1>5, <1>6, <2>1 DEF AnomalyInv, TypeOK, memory, load
<1>8. StoredIsPrefix'
  BY <1>1, <1>3 DEF StoredIsPrefix, memory
<1>9. IdsFresh'
  BY <1>1, <1>5, <1>6, NoNewIds DEF memory
<1>10. DumpsFaithful'
  <2>1. Faithful(t)'
    BY <1>3, <1>5 DEF Faithful, Iterating
  <2>2. \A u : Faithful(u) => Faithful(u)'
    BY <1>1, <1>3 DEF Faithful, memory
  <2> QED
    BY <1>6, <2>1, <2>2 DEF AnomalyInv, DumpsFaithful
<1>11. SavesAreCurrent'
  <2> SUFFICES ASSUME ~overlapped'
               PROVE  /\ \A v, x \in Workers : (~At(v, "idle")' /\ ~At(x, "idle")') => v = x
                      /\ \A i \in DOMAIN stored'.alerts :
                           stored'.alerts[i].status \in Reviews => alerts'[i].status \in Reviews
                      /\ \A v \in Workers : Current(th[v])'
    BY DEF SavesAreCurrent
  <2>1. ~overlapped /\ stored'.alerts = alerts /\ alerts' = alerts
        /\ th[w].alert \in ToSet(alerts)
    BY <1>1, <1>2, <1>3 DEF load, memory, Current, Iterating
  <2>2. \A v \in Workers : v # w => th'[v].pc = "idle"
    BY <1>1, <1>6, <2>1 DEF At
  <2>3. Current(t)'
    BY <1>5, <2>1 DEF Current, Iterating
  <2>4. ASSUME NEW v \in Workers, v # w PROVE Current(th[v])'
    BY <2>2, <2>4 DEF Current, Iterating
  <2> QED
    BY <1>6, <2>1, <2>2, <2>3, <2>4 DEF At
<1>12. AuditedWasSaved'
  BY <1>1, <1>3 DEF AnomalyInv, AuditedWasSaved
<1> QED
  BY <1>7, <1>8, <1>9, <1>10, <1>11, <1>12 DEF AnomalyInv

\* The saved change is recorded, or the ledger cannot be reached, and answered.
LEMMA RecordStep ==
  ASSUME AnomalyInv, NEW w \in Workers, Record(w)
  PROVE  AnomalyInv'
<1>1. /\ th[w] \in Thread /\ ~At(w, "idle") /\ Faithful(th[w]) /\ th[w].pc = "record"
      /\ th' = [th EXCEPT ![w] = Idle]
      /\ UNCHANGED <<memory, stored, created, saved, overlapped>>
      /\ answered' = With(answered, th[w].alert.alert_id, th[w].alert)
      /\ ledger' = ledger \union {th[w].block} \/ ledger' = ledger
      /\ used' \in [Bounds -> Nat]
  BY UsedType DEF Record, Fault, Spend, load, At, Bounds, AnomalyInv, TypeOK, DumpsFaithful
<1>2. /\ th[w].alert \in Alert /\ th[w].block \in Block
      /\ th[w].block[2] = th[w].alert.alert_id /\ th[w].alert.alert_id \in saved
  BY <1>1 DEF Faithful, Iterating
<1>3. \A id \in DOMAIN answered' : answered'[id] \in Alert
  BY <1>1, <1>2 DEF With, AnomalyInv, TypeOK
<1>4. TypeOK'
  BY <1>1, <1>2, <1>3, IdleFacts DEF AnomalyInv, TypeOK, memory
<1>5. StoredIsPrefix' /\ DumpsFaithful' /\ SavesAreCurrent'
  BY <1>1, IdleFacts, LocalStep DEF memory
<1>6. IdsFresh'
  BY <1>1, IdleFacts, NoNewIds DEF memory
<1>7. AuditedWasSaved'
  BY <1>1, <1>2 DEF AnomalyInv, AuditedWasSaved
<1> QED
  BY <1>4, <1>5, <1>6, <1>7 DEF AnomalyInv

\* Memory is what the store held; the requests in progress are gone.
LEMMA CrashStep ==
  ASSUME AnomalyInv, CrashAndRestart
  PROVE  AnomalyInv'
<1>1. /\ \A v \in Workers : th'[v] = Idle
      /\ th' = [v \in Workers |-> Idle]
      /\ alerts' = stored.alerts /\ history' = stored.history
      /\ UNCHANGED <<stored, ledger, created, observers, overlapped>>
      /\ used' \in [Bounds -> Nat]
  BY UsedType DEF CrashAndRestart, Spend, Bounds, AnomalyInv, TypeOK
<1>2. stored.alerts \in Seq(Alert) /\ stored.history \in Table /\ alerts \in Seq(Alert)
  BY DEF AnomalyInv, TypeOK, State
<1>3. TypeOK'
  BY <1>1, <1>2, IdleFacts DEF AnomalyInv, TypeOK, observers
<1>4. /\ Len(stored.alerts) \in Nat /\ Len(alerts) \in Nat /\ Len(stored.alerts) <= Len(alerts)
      /\ \A i \in 1..Len(stored.alerts) : stored.alerts[i].alert_id = alerts[i].alert_id
  BY <1>2, IdPrefixFacts DEF AnomalyInv, StoredIsPrefix
<1>5. StoredIsPrefix'
  BY <1>1, <1>2, IdPrefixFacts DEF StoredIsPrefix
<1>6. IdsFresh'
  <2>1. IsInjective(Ids(alerts'))
    <3>1. \A i, j \in 1..Len(alerts) : alerts[i].alert_id = alerts[j].alert_id => i = j
      BY <1>2, IdsFacts DEF AnomalyInv, IdsFresh, IsInjective
    <3>2. \A i, j \in 1..Len(stored.alerts) :
            stored.alerts[i].alert_id = stored.alerts[j].alert_id => i = j
      BY <1>4, <3>1
    <3>3. DOMAIN Ids(stored.alerts) = 1..Len(stored.alerts)
          /\ \A i \in 1..Len(stored.alerts) : Ids(stored.alerts)[i] = stored.alerts[i].alert_id
      BY <1>2, IdsFacts
    <3> QED
      BY <1>1, <3>2, <3>3 DEF IsInjective
  <2>2. ToSet(Ids(stored.alerts)) \subseteq ToSet(Ids(alerts))
    <3> SUFFICES ASSUME NEW n \in ToSet(Ids(stored.alerts)) PROVE n \in ToSet(Ids(alerts))
      OBVIOUS
    <3>1. PICK i \in 1..Len(stored.alerts) : stored.alerts[i].alert_id = n
      BY <1>2, IdsFacts
    <3>2. i \in 1..Len(alerts) /\ alerts[i].alert_id = n
      BY <1>4, <3>1
    <3> QED
      BY <1>2, <3>2, IdsFacts
  <2>3. \A v \in Workers : th'[v].pc # "insert"
    BY <1>1, IdleFacts
  <2> QED
    BY <1>1, <2>1, <2>2, <2>3 DEF AnomalyInv, IdsFresh, At
<1>7. DumpsFaithful'
  BY <1>1, IdleFacts DEF DumpsFaithful
<1>8. SavesAreCurrent'
  BY <1>1, IdleFacts DEF SavesAreCurrent, At
<1>9. AuditedWasSaved'
  BY <1>1 DEF AnomalyInv, AuditedWasSaved, observers
<1> QED
  BY <1>3, <1>5, <1>6, <1>7, <1>8, <1>9 DEF AnomalyInv

-----------------------------------------------------------------------------
(* The theorems.                                                           *)

\* A peer that starts with nothing stored.
LEMMA InitInv == Init => AnomalyInv
<1> SUFFICES ASSUME Init PROVE AnomalyInv
  OBVIOUS
<1>1. /\ \A v \in Workers : th[v] = Idle
      /\ th = [v \in Workers |-> Idle]
      /\ alerts = << >> /\ history = << >> /\ stored.alerts = << >>
      /\ stored = [alerts |-> << >>, history |-> << >>]
      /\ ledger = {} /\ created = 0 /\ answered = << >> /\ saved = {}
      /\ overlapped = FALSE /\ used = [b \in Bounds |-> 0]
  BY DEF Init
<1>2. alerts \in Seq(Alert) /\ Len(alerts) = 0
  BY <1>1
<1>3. history \in Table /\ stored \in State
  <2>1. << >> \in [{} -> Deque] /\ IsFiniteSet({})
    BY FS_EmptySet
  <2>2. << >> \in Table
    BY <2>1, TableFacts
  <2> QED
    BY <1>1, <2>2 DEF State
<1>4. Idle \in Thread /\ Faithful(Idle) /\ Current(Idle) /\ Idle.pc = "idle"
  BY DEF Idle, Thread, Scores, Faithful, Current, Iterating
<1>5. TypeOK
  <2>1. DOMAIN answered = {}
    BY <1>1
  <2> QED
    BY <1>1, <1>2, <1>3, <1>4, <2>1 DEF TypeOK
<1>6. StoredIsPrefix
  BY <1>1, <1>2, EmptyPrefix DEF StoredIsPrefix
<1>7. IdsFresh
  <2>1. DOMAIN Ids(alerts) = {} /\ ToSet(Ids(alerts)) = {}
    BY <1>2 DEF Ids, ToSet
  <2> QED
    BY <1>1, <1>4, <2>1 DEF IdsFresh, IsInjective, At
<1>8. SavesAreCurrent
  BY <1>1, <1>2, <1>4 DEF SavesAreCurrent, At
<1> QED
  BY <1>1, <1>4, <1>5, <1>6, <1>7, <1>8 DEF AnomalyInv, DumpsFaithful, AuditedWasSaved

\* Every step keeps the inductive invariant.
LEMMA NextInv == AnomalyInv /\ [Next]_vars => AnomalyInv'
<1> SUFFICES ASSUME AnomalyInv, [Next]_vars PROVE AnomalyInv'
  OBVIOUS
<1>1. ASSUME NEW w \in Workers, Analyze(w) \/ ReviewAlert(w) PROVE AnomalyInv'
  BY <1>1, AnalyzeStep, ReviewAlertStep
<1>2. ASSUME NEW w \in Workers, Handler(w) PROVE AnomalyInv'
  BY <1>2, BelowThresholdStep, AboveThresholdStep, InsertAlertStep, IterateStep,
     DumpAlertStep, DumpHistoryStep, FailedSaveStep, SaveJsonStep, RecordStep
     DEF Handler
<1>3. CASE CrashAndRestart
  BY <1>3, CrashStep
<1>4. CASE UNCHANGED vars
  BY <1>4 DEF vars, memory, observers, load, AnomalyInv, TypeOK, StoredIsPrefix,
              AuditedWasSaved, IdsFresh, DumpsFaithful, SavesAreCurrent, Faithful,
              Current, At
<1> QED
  BY <1>1, <1>2, <1>3, <1>4 DEF Next

\* However many threads analyse, review and save at once, and whatever fails, the
\* state that save_json leaves behind is the alerts of some moment in their order,
\* the ledger mentions none that was not saved before, and no deque outgrows its
\* maxlen (AnomalyService.analyze, review_alert and _save_state).
THEOREM AnomalyInvariant == Spec => []AnomalyInv
  BY InitInv, NextInv, PTL DEF Spec

\* What AnsweredIsStored says of one answered alert.
Kept(id) ==
  \E i \in DOMAIN stored.alerts :
    /\ stored.alerts[i].alert_id = id
    /\ answered[id].status \in Reviews => stored.alerts[i].status \in Reviews

\* A step keeps what the earlier answers promised.
LEMMA AnsweredStep == AnomalyInv /\ AnsweredIsStored /\ [Next]_vars => AnsweredIsStored'
<1> SUFFICES ASSUME AnomalyInv, AnsweredIsStored, [Next]_vars, ~overlapped'
             PROVE  \A id \in DOMAIN answered' : Kept(id)'
  BY DEF AnsweredIsStored, Kept
<1>1. overlapped = FALSE
  BY DEF Next, Analyze, ReviewAlert, Handler, BelowThreshold, AboveThreshold, AppendFeatures,
         InsertAlert, Iterate, DumpAlert, DumpHistory, SizeChanged, SaveJson, SaveFails, Record,
         CrashAndRestart, Accept, Spend, Fault, load, vars, AnomalyInv, TypeOK
<1>2. \A id \in DOMAIN answered : Kept(id)
  BY <1>1 DEF AnsweredIsStored, Kept
<1>3. CASE UNCHANGED <<stored, answered>>
  BY <1>2, <1>3 DEF Kept
<1>4. ASSUME NEW w \in Workers, SaveJson(w) PROVE \A id \in DOMAIN answered' : Kept(id)'
  <2>1. /\ stored' = th[w].dump /\ stored'.alerts = alerts /\ answered' = answered
        /\ alerts \in Seq(Alert) /\ stored.alerts \in Seq(Alert)
    BY <1>1, <1>4 DEF SaveJson, At, Iterating, AnomalyInv, SavesAreCurrent, Current, TypeOK, State
  <2>2. /\ DOMAIN stored.alerts = 1..Len(stored.alerts) /\ Len(stored.alerts) \in Nat
        /\ DOMAIN alerts = 1..Len(alerts) /\ Len(alerts) \in Nat
        /\ Len(stored.alerts) <= Len(alerts)
        /\ \A i \in 1..Len(stored.alerts) : stored.alerts[i].alert_id = alerts[i].alert_id
    BY <2>1, IdsFacts, IdPrefixFacts DEF AnomalyInv, StoredIsPrefix
  <2>3. \A i \in DOMAIN stored.alerts :
          stored.alerts[i].status \in Reviews => alerts[i].status \in Reviews
    BY <1>1 DEF AnomalyInv, SavesAreCurrent
  <2> QED
    BY <1>2, <2>1, <2>2, <2>3 DEF Kept
<1>5. ASSUME NEW w \in Workers, Record(w) PROVE \A id \in DOMAIN answered' : Kept(id)'
  <2>1. PICK a : a = th[w].alert
    OBVIOUS
  <2>2. /\ a \in ToSet(alerts) /\ stored.alerts = alerts /\ stored' = stored
        /\ alerts \in Seq(Alert) /\ answered' = With(answered, a.alert_id, a)
    BY <1>1, <1>5, <2>1 DEF Record, At, Iterating, AnomalyInv, SavesAreCurrent, Current, TypeOK
  <2>3. PICK i \in DOMAIN stored.alerts : stored.alerts[i] = a
    BY <2>2 DEF ToSet
  <2>4. \A id \in DOMAIN answered' :
          answered'[id] = IF id = a.alert_id THEN a ELSE answered[id]
    BY <2>2 DEF With
  <2>5. \A id \in DOMAIN answered' : id = a.alert_id \/ id \in DOMAIN answered
    BY <2>2 DEF With
  <2> QED
    BY <1>2, <2>2, <2>3, <2>4, <2>5 DEF Kept
<1> QED
  BY <1>3, <1>4, <1>5
     DEF Next, Analyze, ReviewAlert, Handler, BelowThreshold, AboveThreshold, AppendFeatures,
         InsertAlert, Iterate, DumpAlert, DumpHistory, SizeChanged, SaveFails,
         CrashAndRestart, observers, vars

\* As long as no two requests overlap, the alert that analyze or review_alert has
\* returned stays in the store, and a verdict that was answered is never undone
\* there, whatever later saves fail and whenever the process dies.
THEOREM AnswersAreStored == Spec => []AnsweredIsStored
<1>1. Init => AnsweredIsStored
  <2>1. Init => DOMAIN answered = {}
    BY DEF Init
  <2> QED
    BY <2>1 DEF AnsweredIsStored
<1> QED
  BY <1>1, AnomalyInvariant, AnsweredStep, PTL DEF Spec
=============================================================================
