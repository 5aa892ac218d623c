----------------------------- MODULE RiskProofs ------------------------------
(***************************************************************************)
(* Proofs about the risk peer: RiskInv is inductive for any number of      *)
(* threads, symbols, portfolios, failures and crashes, and with it what an *)
(* answer promises and what a stored or reported snapshot stands for.      *)
(***************************************************************************)
EXTENDS RiskPeer, FiniteSetTheorems, SequenceTheorems, TLAPS

-----------------------------------------------------------------------------
(* States of the service.                                                  *)

\* IsPrefix, element by element.
LEMMA PrefixFacts ==
  ASSUME NEW S, NEW s \in Seq(S), NEW t \in Seq(S)
  PROVE  IsPrefix(s, t) <=> Len(s) <= Len(t) /\ \A i \in 1..Len(s) : s[i] = t[i]
<1>1. Len(s) \in Nat /\ Len(t) \in Nat
  OBVIOUS
<1>2. ASSUME Len(s) <= Len(t)
      PROVE  /\ SubSeq(t, 1, Len(s)) = [i \in 1..Len(s) |-> t[i]]
             /\ SubSeq(s, 1, Len(s)) = [i \in 1..Len(s) |-> s[i]]
  BY <1>1, <1>2
<1> QED
  BY <1>1, <1>2 DEF IsPrefix

\* The parts of a state.
LEMMA StateFacts ==
  ASSUME NEW m \in State
  PROVE  /\ m.events \in Counts /\ m.portfolio \in Portfolios \union {Nil}
         /\ m.snapshots \in Seq(Snapshot) /\ Len(m.snapshots) \in Nat
         /\ DOMAIN m.snapshots = 1..Len(m.snapshots)
         /\ \A i \in 1..Len(m.snapshots) : m.snapshots[i] \in Snapshot
         /\ \A s \in Symbols : m.events[s] \in Nat
<1>1. m.events \in Counts /\ m.portfolio \in Portfolios \union {Nil} /\ m.snapshots \in Seq(Snapshot)
  BY DEF State
<1> QED
  BY <1>1 DEF Counts

\* Within, element by element.
LEMMA WithinFacts ==
  ASSUME NEW m \in State, NEW n \in State
  PROVE  Within(m, n) <=>
           /\ \A s \in Symbols : m.events[s] <= n.events[s]
           /\ m.portfolio # Nil => n.portfolio # Nil
           /\ Len(m.snapshots) <= Len(n.snapshots)
           /\ \A i \in 1..Len(m.snapshots) : m.snapshots[i] = n.snapshots[i]
<1>1. IsPrefix(m.snapshots, n.snapshots) <=>
        Len(m.snapshots) <= Len(n.snapshots)
        /\ \A i \in 1..Len(m.snapshots) : m.snapshots[i] = n.snapshots[i]
  BY StateFacts, PrefixFacts
<1> QED
  BY <1>1 DEF Within

\* A state is on the way to itself.
LEMMA WithinSelf ==
  ASSUME NEW m \in State
  PROVE  Within(m, m)
  BY StateFacts, WithinFacts

\* What was on the way to a state is on the way to what comes of it.
LEMMA WithinTrans ==
  ASSUME NEW l \in State, NEW m \in State, NEW n \in State, Within(l, m), Within(m, n)
  PROVE  Within(l, n)
<1>1. \A s \in Symbols : l.events[s] \in Nat /\ m.events[s] \in Nat /\ n.events[s] \in Nat
  BY StateFacts
<1>2. Len(l.snapshots) \in Nat /\ Len(m.snapshots) \in Nat /\ Len(n.snapshots) \in Nat
  BY StateFacts
<1>3. /\ \A s \in Symbols : l.events[s] <= m.events[s]
      /\ l.portfolio # Nil => m.portfolio # Nil
      /\ Len(l.snapshots) <= Len(m.snapshots)
      /\ \A i \in 1..Len(l.snapshots) : l.snapshots[i] = m.snapshots[i]
  BY WithinFacts
<1>4. /\ \A s \in Symbols : m.events[s] <= n.events[s]
      /\ m.portfolio # Nil => n.portfolio # Nil
      /\ Len(m.snapshots) <= Len(n.snapshots)
      /\ \A i \in 1..Len(m.snapshots) : m.snapshots[i] = n.snapshots[i]
  BY WithinFacts
<1>5. /\ \A s \in Symbols : l.events[s] <= n.events[s]
      /\ l.portfolio # Nil => n.portfolio # Nil
      /\ Len(l.snapshots) <= Len(n.snapshots)
      /\ \A i \in 1..Len(l.snapshots) : l.snapshots[i] = n.snapshots[i]
  BY <1>1, <1>2, <1>3, <1>4
<1> QED
  BY <1>5, WithinFacts

\* What a request did stays done as the state goes on.
LEMMA HasWithin ==
  ASSUME NEW m \in State, NEW n \in State, Within(m, n),
         NEW a, a.place \in Counts, Has(m, a)
  PROVE  Has(n, a)
<1>1. \A s \in Symbols : a.place[s] <= n.events[s]
  <2>1. \A s \in Symbols : a.place[s] \in Nat /\ m.events[s] \in Nat /\ n.events[s] \in Nat
    BY StateFacts DEF Counts
  <2> QED
    BY <2>1 DEF Within, Has
<1>2. a.request = "portfolio" => n.portfolio # Nil
  BY DEF Within, Has
<1>3. ASSUME a.snapshot # 0 PROVE \E i \in DOMAIN n.snapshots : n.snapshots[i].id = a.snapshot
  <2>1. PICK i \in DOMAIN m.snapshots : m.snapshots[i].id = a.snapshot
    BY <1>3 DEF Has
  <2>2. i \in DOMAIN n.snapshots /\ n.snapshots[i] = m.snapshots[i]
    BY StateFacts, WithinFacts
  <2> QED
    BY <2>1, <2>2
<1> QED
  BY <1>1, <1>2, <1>3 DEF Has

\* Snapshots keep their events as the service takes more.
LEMMA SupportedGrows ==
  ASSUME NEW m \in State, NEW n \in State, Supported(m), n.snapshots = m.snapshots,
         \A s \in Symbols : m.events[s] <= n.events[s]
  PROVE  Supported(n)
<1>1. \A i \in DOMAIN m.snapshots : m.snapshots[i].basis \in Counts
  BY StateFacts DEF Snapshot
<1>2. \A i \in DOMAIN m.snapshots : \A s \in Symbols : m.snapshots[i].basis[s] \in Nat
  BY <1>1 DEF Counts
<1>3. \A s \in Symbols : m.events[s] \in Nat /\ n.events[s] \in Nat
  BY StateFacts
<1> QED
  BY <1>2, <1>3 DEF Supported

\* The empty document, and where every state begins.
LEMMA EmptyFacts ==
  /\ Empty \in State /\ Nothing \in Counts /\ {} \in SUBSET Symbols
  /\ \A m \in State : Within(Empty, m)
<1>1. Nothing \in Counts /\ {} \in SUBSET Symbols
  BY DEF Nothing, Counts
<1>2. Empty \in State
  BY <1>1 DEF Empty, State
<1>3. ASSUME NEW m \in State PROVE Within(Empty, m)
  <2>1. /\ \A s \in Symbols : Empty.events[s] = 0
        /\ Empty.portfolio = Nil /\ Empty.snapshots = << >> /\ Len(Empty.snapshots) = 0
    BY DEF Empty, Nothing
  <2> QED
    BY <1>2, <2>1, StateFacts, WithinFacts
<1> QED
  BY <1>1, <1>2, <1>3

\* A thread of the pool without a request.
LEMMA IdleFacts ==
  /\ Idle \in Thread /\ Idle.pc = "idle" /\ Idle.snapshot = 0 /\ Idle.dump = Empty
  /\ Idle.place = Nothing
<1>1. Idle \in Thread
  BY EmptyFacts DEF Idle, Thread, Request, Saving
<1> QED
  BY <1>1 DEF Idle

LEMMA IdleInvs ==
  ASSUME InMemory \in State
  PROVE  Faithful(Idle) /\ Current(Idle)
<1>1. Faithful(Idle)
  BY IdleFacts, EmptyFacts DEF Faithful
<1>2. Current(Idle)
  BY IdleFacts DEF Current
<1> QED
  BY <1>1, <1>2

-----------------------------------------------------------------------------
(* The snapshots that the ledger has and the file has not.                 *)

Own == {th[w].snapshot : w \in Workers}

\* A set with one more element.
LEMMA OneMore ==
  ASSUME NEW S, IsFiniteSet(S), NEW x
  PROVE  /\ IsFiniteSet(S \union {x}) /\ Cardinality(S \union {x}) \in Nat
         /\ Cardinality(S \union {x}) <= Cardinality(S) + 1
<1>1. IsFiniteSet(S \union {x}) /\ (x \in S \/ Cardinality(S \union {x}) = Cardinality(S) + 1)
  BY FS_AddElement
<1>2. x \in S => Cardinality(S \union {x}) = Cardinality(S)
  BY FS_AddElement
<1>3. Cardinality(S) \in Nat /\ Cardinality(S \union {x}) \in Nat
  BY <1>1, FS_CardinalityType
<1>4. CASE x \in S
  BY <1>1, <1>2, <1>3, <1>4
<1>5. CASE x \notin S
  BY <1>1, <1>3, <1>5
<1> QED
  BY <1>4, <1>5

\* There are finitely many of them.
LEMMA MissingFinite ==
  ASSUME TypeOK
  PROVE  /\ IsFiniteSet(Missing) /\ 0 \notin Missing /\ Missing \subseteq ledger
         /\ used["faults"] \in Nat /\ used["crashes"] \in Nat
<1>1. Missing \subseteq ledger
  BY DEF Missing
<1>2. IsFiniteSet(1..computed) /\ Missing \subseteq 1..computed /\ computed \in Nat
  BY <1>1, FS_Interval DEF TypeOK
<1>3. IsFiniteSet(Missing)
  BY <1>2, FS_Subset
<1>4. 0 \notin Missing
  BY <1>2
<1> QED
  BY <1>1, <1>3, <1>4 DEF TypeOK, Bounds

\* The thread in progress may be one ahead of the failures and crashes.
LEMMA AuditFromMissing ==
  ASSUME TypeOK, DumpsFaithful, SavesInv
  PROVE  AuditAhead
<1> SUFFICES ASSUME ~overlapped
             PROVE  Cardinality(Missing) <= used["faults"] + used["crashes"]
                      + Cardinality({w \in Workers : ~At(w, "idle")})
  BY DEF AuditAhead
<1>1. /\ MissingExplained
      /\ \A v, w \in Workers : (~At(v, "idle") /\ ~At(w, "idle")) => v = w
  BY DEF SavesInv
<1>2. \A w \in Workers : At(w, "idle") => th[w].snapshot = 0
  BY DEF DumpsFaithful, Faithful, At
<1>3. IsFiniteSet(Missing \ Own) /\ Cardinality(Missing \ Own) \in Nat
  BY MissingFinite, FS_Difference, FS_CardinalityType
<1>4. Cardinality(Missing \ Own) <= used["faults"] + used["crashes"]
  BY <1>1 DEF MissingExplained, Own
<1>5. CASE \A w \in Workers : At(w, "idle")
  <2>1. {w \in Workers : ~At(w, "idle")} = {} /\ Missing = Missing \ Own
    BY <1>2, <1>5, MissingFinite DEF Own
  <2>2. Cardinality({w \in Workers : ~At(w, "idle")}) = 0
    BY <2>1, FS_EmptySet
  <2>3. Cardinality(Missing) <= used["faults"] + used["crashes"]
    BY <1>4, <2>1
  <2> QED
    BY <2>2, <2>3, MissingFinite
<1>6. ASSUME NEW w \in Workers, ~At(w, "idle")
      PROVE  Cardinality(Missing) <= used["faults"] + used["crashes"]
                      + Cardinality({v \in Workers : ~At(v, "idle")})
  <2>1. {v \in Workers : ~At(v, "idle")} = {w}
    BY <1>1, <1>6
  <2>2. Cardinality({v \in Workers : ~At(v, "idle")}) = 1
    BY <2>1, FS_Singleton
  <2>3. Missing \subseteq (Missing \ Own) \union {th[w].snapshot}
    BY <1>1, <1>2, <1>6, MissingFinite DEF Own
  <2>4. /\ IsFiniteSet((Missing \ Own) \union {th[w].snapshot})
        /\ Cardinality((Missing \ Own) \union {th[w].snapshot}) <= Cardinality(Missing \ Own) + 1
    BY <1>3, OneMore
  <2>5. Cardinality(Missing) <= Cardinality((Missing \ Own) \union {th[w].snapshot})
    BY <2>3, <2>4, FS_Subset
  <2>6. Cardinality(Missing) \in Nat /\ Cardinality((Missing \ Own) \union {th[w].snapshot}) \in Nat
    BY <2>4, MissingFinite, FS_CardinalityType
  <2> QED
    BY <1>3, <1>4, <2>2, <2>4, <2>5, <2>6, MissingFinite
<1> QED
  BY <1>5, <1>6

\* A step of thread w, to t, that adds no snapshot to the missing ones but its own
\* and that gives one up only to a failure.
LEMMA MissingStep ==
  ASSUME TypeOK, TypeOK', MissingExplained, NEW w \in Workers, NEW t,
         th' = [th EXCEPT ![w] = t], Missing' \subseteq Missing \union {t.snapshot},
         LET spent == used["faults"] + used["crashes"]
         IN  \/ used'["faults"] + used'["crashes"] >= spent + 1
             \/ /\ used'["faults"] + used'["crashes"] >= spent
                /\ t.snapshot = th[w].snapshot \/ th[w].snapshot \notin Missing'
  PROVE  MissingExplained'
<1> DEFINE A == Missing \ Own
           B == Missing' \ Own'
<1>1. \A v \in Workers : th'[v] = IF v = w THEN t ELSE th[v]
  BY DEF TypeOK
<1>2. t.snapshot \in Own' /\ \A x \in Own : x \in Own' \/ x = th[w].snapshot
  BY <1>1 DEF Own
<1>3. B \subseteq A \union {th[w].snapshot}
  BY <1>2
<1>4. IsFiniteSet(A) /\ Cardinality(A) \in Nat /\ Cardinality(A) <= used["faults"] + used["crashes"]
  BY MissingFinite, FS_Difference, FS_CardinalityType DEF MissingExplained, Own
<1>5. IsFiniteSet(B) /\ Cardinality(B) \in Nat
  <2>1. (TypeOK => IsFiniteSet(Missing))'
    BY MissingFinite, PTL
  <2> QED
    BY <2>1, FS_Difference, FS_CardinalityType
<1>6. /\ used["faults"] \in Nat /\ used["crashes"] \in Nat
      /\ used'["faults"] \in Nat /\ used'["crashes"] \in Nat
  BY DEF TypeOK, Bounds
<1>7. CASE t.snapshot = th[w].snapshot \/ th[w].snapshot \notin Missing'
  <2>1. B \subseteq A
    BY <1>2, <1>3, <1>7
  <2>2. Cardinality(B) <= Cardinality(A)
    BY <1>4, <2>1, FS_Subset
  <2> QED
    BY <1>4, <1>5, <1>6, <2>2 DEF MissingExplained, Own
<1>8. CASE used'["faults"] + used'["crashes"] >= used["faults"] + used["crashes"] + 1
  <2>1. IsFiniteSet(A \union {th[w].snapshot})
        /\ Cardinality(A \union {th[w].snapshot}) <= Cardinality(A) + 1
    BY <1>4, OneMore
  <2>2. Cardinality(B) <= Cardinality(A \union {th[w].snapshot})
    BY <1>3, <2>1, FS_Subset
  <2>3. Cardinality(A \union {th[w].snapshot}) \in Nat
    BY <2>1, FS_CardinalityType
  <2> QED
    BY <1>4, <1>5, <1>6, <1>8, <2>1, <2>2, <2>3 DEF MissingExplained, Own
<1> QED
  BY <1>7, <1>8

-----------------------------------------------------------------------------
(* Steps of one thread.                                                    *)

\* A thread w that goes on as t, with memory grown or left alone, disturbs no other.
LEMMA ThreadStep ==
  ASSUME RiskInv, NEW w \in Workers, NEW t \in Thread, th' = [th EXCEPT ![w] = t],
         TypeOK', FileIsPrefix', Within(InMemory, InMemory'), computed <= computed',
         \/ overlapped'
         \/ ~overlapped /\ (~At(w, "idle") \/ \A v \in Workers : At(v, "idle")),
         Faithful(t)',
         ~overlapped' => /\ Current(t)' /\ Supported(InMemory)' /\ Supported(stored)'
                         /\ InOrder' /\ MissingExplained'
  PROVE  RiskInv'
<1>1. \A v \in Workers : th'[v] = IF v = w THEN t ELSE th[v]
  BY DEF RiskInv, TypeOK
<1>2. InMemory \in State /\ InMemory' \in State /\ computed \in Nat /\ computed' \in Nat
  BY DEF RiskInv, TypeOK
<1>3. ASSUME NEW v \in Workers PROVE Faithful(th[v])'
  <2>1. CASE v = w
    BY <1>1, <2>1
  <2>2. CASE v # w
    <3>1. PICK u : u = th[v]
      OBVIOUS
    <3>2. u \in Thread /\ Faithful(u) /\ th'[v] = u /\ u.dump \in State
      BY <1>1, <2>2, <3>1 DEF RiskInv, TypeOK, Thread, DumpsFaithful
    <3>3. Within(u.dump, InMemory')
      BY <1>2, <3>2, WithinTrans DEF Faithful
    <3>4. u.pc = "record" => u.snapshot \in 1..computed'
      BY <1>2, <3>2 DEF Faithful
    <3>5. Faithful(u)'
      BY <3>2, <3>3, <3>4 DEF Faithful
    <3> QED
      BY <3>2, <3>5
  <2> QED
    BY <2>1, <2>2
<1>4. SavesInv'
  <2> SUFFICES ASSUME ~overlapped'
               PROVE  /\ \A u, v \in Workers : (~At(u, "idle")' /\ ~At(v, "idle")') => u = v
                      /\ \A v \in Workers : Current(th[v])'
                      /\ Supported(InMemory)' /\ Supported(stored)' /\ InOrder' /\ MissingExplained'
    BY DEF SavesInv
  <2>1. \A v \in Workers : v # w => th'[v].pc = "idle"
    BY <1>1 DEF RiskInv, SavesInv, At
  <2>2. ASSUME NEW v \in Workers PROVE Current(th[v])'
    <3>1. CASE v = w
      BY <1>1, <3>1
    <3>2. CASE v # w
      BY <2>1, <3>2 DEF Current
    <3> QED
      BY <3>1, <3>2
  <2> QED
    BY <2>1, <2>2 DEF At
<1>5. AuditAhead'
  <2>1. (TypeOK /\ DumpsFaithful /\ SavesInv => AuditAhead)'
    BY AuditFromMissing, PTL
  <2> QED
    BY <1>3, <1>4, <2>1 DEF DumpsFaithful
<1> QED
  BY <1>3, <1>4, <1>5 DEF RiskInv, DumpsFaithful

\* A thread in progress that goes on as t and leaves memory and the file alone: it
\* gives its snapshot up only to a failure, or once the snapshot is stored.
LEMMA QuietStep ==
  ASSUME RiskInv, NEW w \in Workers, ~At(w, "idle"), NEW t \in Thread,
         th' = [th EXCEPT ![w] = t],
         UNCHANGED <<memory, stored, ledger, computed, overlapped>>, answered' \subseteq Promise,
         \/ used' = [used EXCEPT !["faults"] = @ + 1]
         \/ /\ used' = used
            /\ t.snapshot = th[w].snapshot \/ (~overlapped => th[w].snapshot \notin Missing),
         Faithful(t), ~overlapped => Current(t)
  PROVE  RiskInv'
<1>1. /\ InMemory' = InMemory /\ stored' = stored /\ computed' = computed /\ Missing' = Missing
      /\ overlapped' = overlapped /\ InMemory \in State /\ computed \in Nat
      /\ events' = events /\ portfolio' = portfolio /\ snapshots' = snapshots
  BY DEF memory, InMemory, Missing, RiskInv, TypeOK
<1>2. used' \in [Bounds -> Nat]
  BY DEF RiskInv, TypeOK, Bounds
<1>3. TypeOK'
  BY <1>1, <1>2 DEF RiskInv, TypeOK
<1>4. FileIsPrefix' /\ Within(InMemory, InMemory')
  BY <1>1, WithinSelf DEF RiskInv, FileIsPrefix
<1>5. Faithful(t)'
  BY <1>1 DEF Faithful
<1>6. ASSUME ~overlapped'
      PROVE  /\ Current(t)' /\ Supported(InMemory)' /\ Supported(stored)'
             /\ InOrder' /\ MissingExplained'
  <2>1. /\ Current(t) /\ Supported(InMemory) /\ Supported(stored) /\ InOrder /\ MissingExplained
    BY <1>1, <1>6 DEF RiskInv, SavesInv
  <2>2. Current(t)' /\ Supported(InMemory)' /\ Supported(stored)' /\ InOrder'
    BY <1>1, <2>1 DEF Current, InOrder, Tracked
  <2>3. LET spent == used["faults"] + used["crashes"]
        IN  \/ used'["faults"] + used'["crashes"] >= spent + 1
            \/ /\ used'["faults"] + used'["crashes"] >= spent
               /\ t.snapshot = th[w].snapshot \/ th[w].snapshot \notin Missing'
    <3>1. used["faults"] \in Nat /\ used["crashes"] \in Nat
      BY DEF RiskInv, TypeOK, Bounds
    <3>2. CASE used' = [used EXCEPT !["faults"] = @ + 1]
      <4>1. used'["faults"] = used["faults"] + 1 /\ used'["crashes"] = used["crashes"]
        BY <3>2 DEF RiskInv, TypeOK, Bounds
      <4> QED
        BY <3>1, <4>1
    <3>3. CASE used' = used /\ (t.snapshot = th[w].snapshot \/ th[w].snapshot \notin Missing)
      BY <1>1, <3>1, <3>3
    <3> QED
      BY <1>1, <1>6, <3>2, <3>3
  <2>4. MissingExplained'
    BY <1>1, <1>3, <2>1, <2>3, MissingStep DEF RiskInv
  <2> QED
    BY <2>2, <2>4
<1>7. computed <= computed' /\ (overlapped' \/ ~overlapped)
  BY <1>1
<1> QED
  BY <1>3, <1>4, <1>5, <1>6, <1>7, ThreadStep

\* What the invariant says of one thread and of memory.
LEMMA ThreadFacts ==
  ASSUME RiskInv, NEW w \in Workers
  PROVE  /\ th \in [Workers -> Thread] /\ th[w] \in Thread /\ Faithful(th[w])
         /\ ~overlapped => Current(th[w])
         /\ InMemory \in State /\ stored \in State /\ answered \subseteq Promise
         /\ events \in Counts /\ portfolio \in Portfolios \union {Nil}
         /\ snapshots \in Seq(Snapshot)
         /\ InMemory.events = events /\ InMemory.portfolio = portfolio
         /\ InMemory.snapshots = snapshots
<1>1. InMemory \in State /\ InMemory.events = events /\ InMemory.portfolio = portfolio
      /\ InMemory.snapshots = snapshots
  BY DEF RiskInv, TypeOK, InMemory
<1> QED
  BY <1>1, StateFacts DEF RiskInv, TypeOK, DumpsFaithful, SavesInv

\* auto_compute: the request goes on to compute, or is answered.
LEMMA AutoComputeStep ==
  ASSUME RiskInv, NEW w \in Workers, AutoCompute(w)
  PROVE  RiskInv'
<1>1. PICK old : old = th[w]
  OBVIOUS
<1>2. /\ old \in Thread /\ old.pc = "auto" /\ Faithful(old) /\ (~overlapped => Current(old))
      /\ answered \subseteq Promise /\ ~At(w, "idle")
      /\ UNCHANGED <<memory, stored, ledger, computed, overlapped, answered, used>>
      /\ portfolio \in Portfolios \union {Nil}
      /\ events \in Counts
  BY <1>1, ThreadFacts DEF AutoCompute, At, load
<1>3. PICK t : t = IF portfolio = Nil THEN [old EXCEPT !.pc = "answer"]
                   ELSE AtCompute(old, portfolio)
  OBVIOUS
<1>4. th' = [th EXCEPT ![w] = t]
  BY <1>1, <1>3, ThreadFacts DEF AutoCompute
<1>5. CASE portfolio = Nil
  <2>1. /\ t \in Thread /\ t.pc = "answer" /\ t.snapshot = old.snapshot /\ t.dump = old.dump
        /\ t.request = old.request /\ t.place = old.place
    BY <1>2, <1>3, <1>5 DEF Thread
  <2>2. Faithful(t) /\ (~overlapped => Current(t))
    BY <1>2, <2>1 DEF Faithful, Current, Has, Saving
  <2> QED
    BY <1>1, <1>2, <1>4, <2>1, <2>2, QuietStep
<1>6. CASE portfolio # Nil
  <2>1. portfolio \in SUBSET Symbols
    BY <1>2, <1>6, PortfolioAssumption
  <2>2. /\ t \in Thread /\ t.pc = "read" /\ t.snapshot = old.snapshot /\ t.dump = old.dump
        /\ t.request = old.request /\ t.place = old.place
        /\ t.positions = portfolio /\ t.todo = portfolio /\ t.basis = Nothing
    BY <1>2, <1>3, <1>6, <2>1, EmptyFacts DEF Thread, AtCompute
  <2>3. \A s \in Symbols : t.basis[s] = 0 /\ events[s] \in Nat
    BY <1>2, <2>2 DEF Nothing, Counts
  <2>4. Faithful(t) /\ (~overlapped => Current(t))
    BY <1>2, <2>2, <2>3 DEF Faithful, Current, Has
  <2> QED
    BY <1>1, <1>2, <1>4, <2>2, <2>4, QuietStep
<1> QED
  BY <1>5, <1>6

\* The series of one position is read.
LEMMA ReadSeriesStep ==
  ASSUME RiskInv, NEW w \in Workers, ReadSeries(w)
  PROVE  RiskInv'
<1>1. PICK old : old = th[w]
  OBVIOUS
<1>2. /\ old \in Thread /\ old.pc = "read" /\ Faithful(old) /\ (~overlapped => Current(old))
      /\ answered \subseteq Promise /\ ~At(w, "idle") /\ events \in Counts
      /\ UNCHANGED <<memory, stored, ledger, computed, overlapped, answered, used>>
  BY <1>1, ThreadFacts DEF ReadSeries, At, load
<1>3. PICK s \in old.todo :
        th' = [th EXCEPT ![w].todo = @ \ {s}, ![w].basis[s] = events[s]]
  BY <1>1 DEF ReadSeries
<1>4. /\ s \in Symbols /\ old.basis \in Counts /\ old.todo \subseteq Symbols /\ events[s] \in Nat
      /\ events \in [Symbols -> Nat] /\ old.basis \in [Symbols -> Nat]
  BY <1>2 DEF Thread, Counts
<1>5. PICK b : b = [old.basis EXCEPT ![s] = events[s]]
  OBVIOUS
<1>6. b \in Counts /\ \A x \in Symbols : b[x] = IF x = s THEN events[s] ELSE old.basis[x]
  BY <1>4, <1>5 DEF Counts
<1>7. PICK t : t = [old EXCEPT !.todo = old.todo \ {s}, !.basis = b]
  OBVIOUS
<1>8. th' = [th EXCEPT ![w] = t]
  BY <1>1, <1>3, <1>5, <1>7, ThreadFacts DEF Thread
<1>9. /\ t \in Thread /\ t.pc = "read" /\ t.snapshot = old.snapshot /\ t.dump = old.dump
      /\ t.request = old.request /\ t.place = old.place
      /\ t.positions = old.positions /\ t.todo = old.todo \ {s} /\ t.basis = b
  BY <1>2, <1>4, <1>6, <1>7 DEF Thread
<1>10. ASSUME ~overlapped
       PROVE  \A x \in Symbols : /\ t.basis[x] <= events[x]
                                 /\ x \in t.positions \ t.todo => t.basis[x] = events[x]
  <2>1. \A x \in Symbols : /\ old.basis[x] <= events[x] /\ events[x] \in Nat
                           /\ x \in old.positions \ old.todo => old.basis[x] = events[x]
    BY <1>2, <1>4, <1>10 DEF Current
  <2> QED
    BY <1>6, <1>9, <2>1
<1>11. Faithful(t) /\ (~overlapped => Current(t))
  BY <1>2, <1>9, <1>10 DEF Faithful, Current, Has
<1> QED
  BY <1>1, <1>2, <1>8, <1>9, <1>11, QuietStep

\* A request that fails has changed nothing that it will change back.
LEMMA FailedStep ==
  ASSUME RiskInv, NEW w \in Workers, ComputeRaises(w) \/ SaveFails(w)
  PROVE  RiskInv'
<1>1. /\ ~At(w, "idle") /\ th' = [th EXCEPT ![w] = Idle]
      /\ UNCHANGED <<memory, stored, ledger, computed, overlapped>>
      /\ used' = [used EXCEPT !["faults"] = @ + 1] /\ answered' = answered
  BY DEF ComputeRaises, SaveFails, At, Fault, Spend
<1>2. Idle \in Thread /\ Faithful(Idle) /\ Current(Idle) /\ answered' \subseteq Promise
  BY <1>1, ThreadFacts, IdleFacts, IdleInvs
<1> QED
  BY <1>1, <1>2, QuietStep

\* Without an overlap the dict does not grow while it is iterated over.
LEMMA SizeChangedStep ==
  ASSUME RiskInv, NEW w \in Workers, SizeChanged(w)
  PROVE  RiskInv'
<1>1. /\ ~At(w, "idle") /\ th' = [th EXCEPT ![w] = Idle]
      /\ UNCHANGED <<memory, stored, ledger, computed, overlapped>>
      /\ used' = used /\ answered' = answered
      /\ th[w].pc = "dump_events" /\ Tracked # th[w].keys
  BY DEF SizeChanged, At, load
<1>2. Idle \in Thread /\ Faithful(Idle) /\ Current(Idle) /\ answered' \subseteq Promise
  BY <1>1, ThreadFacts, IdleFacts, IdleInvs
<1>3. overlapped = TRUE
  BY <1>1, ThreadFacts DEF Current, RiskInv, TypeOK
<1> QED
  BY <1>1, <1>2, <1>3, QuietStep

\* _save_state begins with an iterator over events_by_symbol.
LEMMA IterateStep ==
  ASSUME RiskInv, NEW w \in Workers, Iterate(w)
  PROVE  RiskInv'
<1>1. PICK old : old = th[w]
  OBVIOUS
<1>2. /\ old \in Thread /\ old.pc = "iterate" /\ Faithful(old) /\ (~overlapped => Current(old))
      /\ answered \subseteq Promise /\ ~At(w, "idle") /\ InMemory \in State
      /\ UNCHANGED <<memory, stored, ledger, computed, overlapped, answered, used>>
  BY <1>1, ThreadFacts DEF Iterate, At, load
<1>3. PICK t : t = [old EXCEPT !.pc = "dump_events", !.todo = Tracked, !.keys = Tracked,
                               !.dump = Empty]
  OBVIOUS
<1>4. th' = [th EXCEPT ![w] = t]
  BY <1>1, <1>3, ThreadFacts DEF Iterate, Thread
<1>5. /\ t \in Thread /\ t.pc = "dump_events" /\ t.snapshot = old.snapshot /\ t.dump = Empty
      /\ t.request = old.request /\ t.place = old.place /\ t.after = old.after
      /\ t.todo = Tracked /\ t.keys = Tracked
  BY <1>2, <1>3, EmptyFacts DEF Thread, Saving, Tracked
<1>6. Within(t.dump, InMemory)
  BY <1>2, <1>5, EmptyFacts
<1>7. Faithful(t) /\ (~overlapped => Current(t))
  BY <1>2, <1>5, <1>6 DEF Faithful, Current, Has, Saving
<1> QED
  BY <1>1, <1>2, <1>4, <1>5, <1>7, QuietStep

\* The events of one more symbol are serialised, or all are.
LEMMA DumpEventsStep ==
  ASSUME RiskInv, NEW w \in Workers, DumpEvents(w)
  PROVE  RiskInv'
<1>1. PICK old : old = th[w]
  OBVIOUS
<1>2. /\ old \in Thread /\ old.pc = "dump_events" /\ Faithful(old) /\ (~overlapped => Current(old))
      /\ answered \subseteq Promise /\ ~At(w, "idle") /\ InMemory \in State
      /\ UNCHANGED <<memory, stored, ledger, computed, overlapped, answered, used>>
      /\ events \in [Symbols -> Nat]
  BY <1>1, ThreadFacts DEF DumpEvents, At, load, Counts
<1>3. PICK d : d = old.dump
  OBVIOUS
<1>4. /\ d \in State /\ d.events \in [Symbols -> Nat] /\ Within(d, InMemory)
      /\ \A x \in Symbols : d.events[x] <= events[x] /\ d.events[x] \in Nat /\ events[x] \in Nat
  <2>1. d \in State /\ Within(d, InMemory) /\ d.events \in [Symbols -> Nat]
    BY <1>2, <1>3, StateFacts DEF Thread, Faithful, Counts
  <2>2. \A x \in Symbols : d.events[x] <= InMemory.events[x] /\ InMemory.events = events
    BY <2>1, ThreadFacts DEF Within
  <2> QED
    BY <1>2, <2>1, <2>2
<1>5. CASE old.todo = {} /\ th' = [th EXCEPT ![w].pc = "dump_portfolio"]
  <2>1. PICK t : t = [old EXCEPT !.pc = "dump_portfolio"]
    OBVIOUS
  <2>2. th' = [th EXCEPT ![w] = t]
    BY <1>1, <1>5, <2>1, ThreadFacts
  <2>3. /\ t \in Thread /\ t.pc = "dump_portfolio" /\ t.snapshot = old.snapshot /\ t.dump = d
        /\ t.request = old.request /\ t.place = old.place /\ t.after = old.after
    BY <1>2, <1>3, <2>1 DEF Thread, Saving
  <2>4. ASSUME ~overlapped PROVE d.events = events
    <3>1. \A x \in Tracked : d.events[x] = events[x]
      BY <1>2, <1>3, <1>5, <2>4 DEF Current
    <3>2. \A x \in Symbols : x \notin Tracked => events[x] = 0
      BY <1>4 DEF Tracked
    <3>3. \A x \in Symbols : d.events[x] = events[x]
      BY <1>4, <3>1, <3>2
    <3> QED
      BY <1>2, <1>4, <3>3
  <2>5. Faithful(t) /\ (~overlapped => Current(t))
    BY <1>2, <1>4, <2>3, <2>4 DEF Faithful, Current, Has, Saving
  <2> QED
    BY <1>1, <1>2, <2>2, <2>3, <2>5, QuietStep
<1>6. ASSUME NEW s \in old.todo,
             th' = [th EXCEPT ![w].todo = @ \ {s}, ![w].dump.events[s] = events[s]]
      PROVE  RiskInv'
  <2>1. PICK c : c = [d.events EXCEPT ![s] = events[s]]
    OBVIOUS
  <2>2. s \in Symbols /\ old.todo \in SUBSET Symbols
    BY <1>2, <1>6 DEF Thread
  <2>3. c \in Counts /\ \A x \in Symbols : c[x] = IF x = s THEN events[s] ELSE d.events[x]
    BY <1>2, <1>4, <2>1, <2>2 DEF Counts
  <2>4. PICK e : e = [d EXCEPT !.events = c]
    OBVIOUS
  <2>5. /\ e \in State /\ e.events = c /\ e.portfolio = d.portfolio /\ e.snapshots = d.snapshots
    BY <1>4, <2>3, <2>4 DEF State
  <2>6. PICK t : t = [old EXCEPT !.todo = old.todo \ {s}, !.dump = e]
    OBVIOUS
  <2>7. th' = [th EXCEPT ![w] = t]
    BY <1>1, <1>3, <1>6, <2>1, <2>4, <2>6, ThreadFacts DEF Thread, State
  <2>8. /\ t \in Thread /\ t.pc = "dump_events" /\ t.snapshot = old.snapshot /\ t.dump = e
        /\ t.request = old.request /\ t.place = old.place /\ t.after = old.after
        /\ t.todo = old.todo \ {s} /\ t.keys = old.keys
    BY <1>2, <2>2, <2>5, <2>6 DEF Thread
  <2>9. Within(e, InMemory)
    <3>0. InMemory.events = events
      BY ThreadFacts
    <3>1. ASSUME NEW x \in Symbols PROVE e.events[x] <= InMemory.events[x]
      <4>1. events[x] \in Nat /\ d.events[x] <= events[x]
        BY <1>4
      <4>2. e.events[x] = events[x] \/ e.events[x] = d.events[x]
        BY <2>3, <2>5
      <4> QED
        BY <3>0, <4>1, <4>2
    <3> QED
      BY <1>4, <2>5, <3>1 DEF Within
  <2>10. ASSUME ~overlapped
         PROVE  t.keys = Tracked /\ \A x \in Tracked \ t.todo : t.dump.events[x] = events[x]
    <3>1. old.keys = Tracked /\ \A x \in Tracked \ old.todo : d.events[x] = events[x]
      BY <1>2, <1>3, <2>10 DEF Current
    <3>2. Tracked \subseteq Symbols
      BY DEF Tracked
    <3> QED
      BY <2>3, <2>5, <2>8, <3>1, <3>2
  <2>11. Faithful(t) /\ (~overlapped => Current(t))
    BY <1>2, <2>8, <2>9, <2>10 DEF Faithful, Current, Has, Saving
  <2> QED
    BY <1>1, <1>2, <2>7, <2>8, <2>11, QuietStep
<1> QED
  BY <1>1, <1>5, <1>6 DEF DumpEvents

\* The portfolio is serialised.
LEMMA DumpPortfolioStep ==
  ASSUME RiskInv, NEW w \in Workers, DumpPortfolio(w)
  PROVE  RiskInv'
<1>1. PICK old : old = th[w]
  OBVIOUS
<1>2. /\ old \in Thread /\ old.pc = "dump_portfolio" /\ Faithful(old)
      /\ ~overlapped => Current(old)
      /\ answered \subseteq Promise /\ ~At(w, "idle") /\ InMemory \in State
      /\ UNCHANGED <<memory, stored, ledger, computed, overlapped, answered, used>>
      /\ portfolio \in Portfolios \union {Nil} /\ InMemory.portfolio = portfolio
  BY <1>1, ThreadFacts DEF DumpPortfolio, At, load
<1>3. PICK e : e = [old.dump EXCEPT !.portfolio = portfolio]
  OBVIOUS
<1>4. /\ old.dump \in State /\ e \in State /\ e.portfolio = portfolio
      /\ e.events = old.dump.events /\ e.snapshots = old.dump.snapshots
  BY <1>2, <1>3 DEF Thread, State
<1>5. PICK t : t = [old EXCEPT !.pc = "dump_snapshots", !.dump = e]
  OBVIOUS
<1>6. th' = [th EXCEPT ![w] = t]
  BY <1>1, <1>3, <1>5, ThreadFacts DEF DumpPortfolio, Thread, State
<1>7. /\ t \in Thread /\ t.pc = "dump_snapshots" /\ t.snapshot = old.snapshot /\ t.dump = e
      /\ t.request = old.request /\ t.place = old.place /\ t.after = old.after
  BY <1>2, <1>4, <1>5 DEF Thread, Saving
<1>8. Within(e, InMemory)
  BY <1>2, <1>4 DEF Faithful, Within
<1>9. Faithful(t) /\ (~overlapped => Current(t))
  BY <1>2, <1>4, <1>7, <1>8 DEF Faithful, Current, Has, Saving
<1> QED
  BY <1>1, <1>2, <1>6, <1>7, <1>9, QuietStep

\* The snapshots are serialised.
LEMMA DumpSnapshotsStep ==
  ASSUME RiskInv, NEW w \in Workers, DumpSnapshots(w)
  PROVE  RiskInv'
<1>1. PICK old : old = th[w]
  OBVIOUS
<1>2. /\ old \in Thread /\ old.pc = "dump_snapshots" /\ Faithful(old)
      /\ ~overlapped => Current(old)
      /\ answered \subseteq Promise /\ ~At(w, "idle") /\ InMemory \in State
      /\ UNCHANGED <<memory, stored, ledger, computed, overlapped, answered, used>>
      /\ snapshots \in Seq(Snapshot) /\ InMemory.snapshots = snapshots
  BY <1>1, ThreadFacts DEF DumpSnapshots, At, load
<1>3. PICK e : e = [old.dump EXCEPT !.snapshots = snapshots]
  OBVIOUS
<1>4. /\ old.dump \in State /\ e \in State /\ e.portfolio = old.dump.portfolio
      /\ e.events = old.dump.events /\ e.snapshots = snapshots
  BY <1>2, <1>3 DEF Thread, State
<1>5. PICK t : t = [old EXCEPT !.pc = "replace", !.dump = e]
  OBVIOUS
<1>6. th' = [th EXCEPT ![w] = t]
  BY <1>1, <1>3, <1>5, ThreadFacts DEF DumpSnapshots, Thread, State
<1>7. /\ t \in Thread /\ t.pc = "replace" /\ t.snapshot = old.snapshot /\ t.dump = e
      /\ t.request = old.request /\ t.place = old.place /\ t.after = old.after
  BY <1>2, <1>4, <1>5 DEF Thread, Saving
<1>8. Within(e, InMemory)
  BY <1>2, <1>4, WithinSelf DEF Faithful, Within
<1>9. Faithful(t) /\ (~overlapped => Current(t))
  BY <1>2, <1>4, <1>7, <1>8 DEF Faithful, Current, Has, Saving
<1> QED
  BY <1>1, <1>2, <1>6, <1>7, <1>9, QuietStep

\* What a request did is stored when it is answered.
LEMMA AnswerStep ==
  ASSUME RiskInv, NEW w \in Workers, Answer(w)
  PROVE  RiskInv'
<1>1. /\ th[w] \in Thread /\ th[w].pc = "answer" /\ ~At(w, "idle")
      /\ th' = [th EXCEPT ![w] = Idle] /\ answered' = answered \union {Answered(th[w])}
      /\ UNCHANGED <<memory, stored, ledger, computed, overlapped>> /\ used' = used
      /\ ~overlapped => Current(th[w])
  BY ThreadFacts DEF Answer, At, load
<1>2. Idle \in Thread /\ Faithful(Idle) /\ Current(Idle)
  BY ThreadFacts, IdleFacts, IdleInvs
<1>3. answered' \subseteq Promise
  <2>1. Answered(th[w]) \in Promise
    BY <1>1 DEF Answered, Promise, Thread
  <2> QED
    BY <1>1, <2>1, ThreadFacts
<1>4. ~overlapped => th[w].snapshot \notin Missing
  <2>1. 0 \notin Missing
    BY MissingFinite DEF RiskInv
  <2> QED
    BY <1>1, <2>1 DEF Current, Has, Missing
<1> QED
  BY <1>1, <1>2, <1>3, <1>4, QuietStep

\* A thread of the pool takes a request and goes on as t; snapshots and file are left
\* alone.
LEMMA AcceptStep ==
  ASSUME RiskInv, NEW w \in Workers, At(w, "idle"), Accept, NEW t \in Thread,
         th' = [th EXCEPT ![w] = t], t.snapshot = 0, t.dump = Empty, t.pc # "record",
         InMemory' \in State, Within(InMemory, InMemory'), snapshots' = snapshots,
         UNCHANGED <<stored, ledger, computed, answered>>, Current(t)'
  PROVE  RiskInv'
<1>1. /\ th \in [Workers -> Thread] /\ InMemory \in State /\ stored \in State
      /\ used \in [Bounds -> Nat] /\ overlapped \in BOOLEAN /\ th[w].snapshot = 0
      /\ InMemory.snapshots = snapshots /\ InMemory'.snapshots = snapshots
      /\ computed \in Nat
  BY ThreadFacts DEF RiskInv, TypeOK, Faithful, At, InMemory
<1>2. /\ used' \in [Bounds -> Nat] /\ overlapped' \in BOOLEAN
      /\ used'["faults"] = used["faults"] /\ used'["crashes"] = used["crashes"]
      /\ used["faults"] \in Nat /\ used["crashes"] \in Nat
      /\ overlapped' \/ (~overlapped /\ \A v \in Workers : At(v, "idle"))
  <2>1. /\ used' \in [Bounds -> Nat] /\ used["faults"] \in Nat /\ used["crashes"] \in Nat
        /\ used'["faults"] = used["faults"] /\ used'["crashes"] = used["crashes"]
    BY <1>1 DEF Accept, Bounds
  <2>2. overlapped' = (overlapped \/ \E v \in Workers : ~At(v, "idle"))
    BY DEF Accept
  <2> QED
    BY <1>1, <2>1, <2>2
<1>3. TypeOK'
  BY <1>1, <1>2 DEF RiskInv, TypeOK
<1>4. FileIsPrefix'
  BY <1>1, WithinTrans DEF RiskInv, FileIsPrefix
<1>5. Faithful(t)'
  BY EmptyFacts DEF Faithful
<1>6. ASSUME ~overlapped'
      PROVE  /\ Current(t)' /\ Supported(InMemory)' /\ Supported(stored)'
             /\ InOrder' /\ MissingExplained'
  <2>1. Supported(InMemory) /\ Supported(stored) /\ InOrder /\ MissingExplained
    BY <1>2, <1>6 DEF RiskInv, SavesInv
  <2>2. \A s \in Symbols : InMemory.events[s] <= InMemory'.events[s]
    BY DEF Within
  <2>3. Supported(InMemory')
    BY <1>1, <2>1, <2>2, SupportedGrows
  <2>4. InOrder' /\ Supported(stored)'
    BY <2>1 DEF InOrder
  <2>5. Missing' = Missing
    BY DEF Missing
  <2>6. LET spent == used["faults"] + used["crashes"]
        IN  \/ used'["faults"] + used'["crashes"] >= spent + 1
            \/ /\ used'["faults"] + used'["crashes"] >= spent
               /\ t.snapshot = th[w].snapshot \/ th[w].snapshot \notin Missing'
    BY <1>1, <1>2
  <2>7. MissingExplained'
    BY <1>3, <2>1, <2>5, <2>6, MissingStep DEF RiskInv
  <2> QED
    BY <2>3, <2>4, <2>7
<1>7. computed <= computed'
  BY <1>1
<1> QED
  BY <1>2, <1>3, <1>4, <1>5, <1>6, <1>7, ThreadStep

\* set_portfolio
LEMMA SetPortfolioStep ==
  ASSUME RiskInv, NEW w \in Workers, SetPortfolio(w)
  PROVE  RiskInv'
<1>1. PICK t : t = AtSave([Idle EXCEPT !.request = "portfolio"], "answer")
  OBVIOUS
<1>2. /\ t \in Thread /\ t.snapshot = 0 /\ t.dump = Empty /\ t.pc = "iterate"
      /\ t.place = Nothing
  BY <1>1, IdleFacts DEF AtSave, Thread, Request, Saving
<1>3. /\ InMemory' \in State /\ Within(InMemory, InMemory')
      /\ events' = events /\ portfolio' # Nil /\ events \in [Symbols -> Nat]
  <2>1. events' = events /\ snapshots' = snapshots /\ portfolio' \in Portfolios /\ portfolio' # Nil
    BY PortfolioAssumption DEF SetPortfolio
  <2>2. /\ InMemory'.events = events /\ InMemory'.snapshots = snapshots
        /\ InMemory'.portfolio = portfolio'
    BY <2>1 DEF InMemory
  <2>3. InMemory' \in State
    BY <2>1, ThreadFacts DEF InMemory, State
  <2>4. Within(InMemory, InMemory')
    BY <2>1, <2>2, ThreadFacts, WithinSelf DEF Within
  <2> QED
    BY <2>1, <2>3, <2>4, ThreadFacts DEF Counts
<1>4. Has(InMemory', t)
  <2>1. \A s \in Symbols : t.place[s] = 0 /\ events[s] \in Nat
    BY <1>2, <1>3 DEF Nothing
  <2> QED
    BY <1>2, <1>3, <2>1 DEF Has, InMemory
<1>5. Current(t)'
  BY <1>2, <1>4 DEF Current
<1> QED
  BY <1>1, <1>2, <1>3, <1>5, AcceptStep DEF SetPortfolio

\* ingest_event, up to the save
LEMMA IngestEventStep ==
  ASSUME RiskInv, NEW w \in Workers, IngestEvent(w)
  PROVE  RiskInv'
<1>1. PICK s \in Symbols :
        /\ events' = [events EXCEPT ![s] = @ + 1]
        /\ th' = [th EXCEPT ![w] =
                    AtSave([Idle EXCEPT !.request = "event",
                                        !.place[s] = events[s] + 1], "auto")]
  BY DEF IngestEvent
<1>2. events \in [Symbols -> Nat]
  BY ThreadFacts DEF Counts
<1>3. events' \in [Symbols -> Nat]
      /\ \A x \in Symbols : events'[x] = IF x = s THEN events[s] + 1 ELSE events[x]
  BY <1>1, <1>2
<1>4. PICK p : p = [Nothing EXCEPT ![s] = events[s] + 1]
  OBVIOUS
<1>5. p \in Counts /\ \A x \in Symbols : p[x] = IF x = s THEN events[s] + 1 ELSE 0
  BY <1>2, <1>4 DEF Nothing, Counts
<1>6. PICK t : t = AtSave([Idle EXCEPT !.request = "event", !.place[s] = events[s] + 1], "auto")
  OBVIOUS
<1>7. t = AtSave([Idle EXCEPT !.request = "event", !.place = p], "auto")
  BY <1>4, <1>6, IdleFacts
<1>8. /\ t \in Thread /\ t.snapshot = 0 /\ t.dump = Empty /\ t.pc = "iterate"
      /\ t.place = p /\ t.request = "event"
  BY <1>5, <1>7, IdleFacts DEF AtSave, Thread, Request, Saving
<1>9. /\ InMemory' \in State /\ InMemory'.events = events' /\ InMemory'.snapshots = snapshots
      /\ InMemory'.portfolio = portfolio
  <2>1. portfolio' = portfolio /\ snapshots' = snapshots /\ events' \in Counts
    BY <1>3 DEF IngestEvent, Counts
  <2> QED
    BY <2>1, ThreadFacts DEF InMemory, State
<1>10. Within(InMemory, InMemory')
  <2>1. \A x \in Symbols : InMemory.events[x] <= InMemory'.events[x]
    BY <1>2, <1>3, <1>9, ThreadFacts
  <2> QED
    BY <1>9, <2>1, ThreadFacts, WithinSelf DEF Within
<1>11. Current(t)'
  <2>1. Has(InMemory', t)
    BY <1>2, <1>3, <1>5, <1>8, <1>9 DEF Has
  <2> QED
    BY <1>8, <2>1 DEF Current
<1> QED
  BY <1>1, <1>6, <1>8, <1>9, <1>10, <1>11, AcceptStep DEF IngestEvent

\* compute_risk, up to the first series
LEMMA ComputeRiskStep ==
  ASSUME RiskInv, NEW w \in Workers, ComputeRisk(w)
  PROVE  RiskInv'
<1>1. PICK given \in Portfolios \union {Nil} :
        LET effective == IF given = Nil THEN portfolio ELSE given
        IN  th' = [th EXCEPT ![w] =
                     IF effective = Nil THEN Idle
                     ELSE AtCompute([Idle EXCEPT !.request = "compute"], effective)]
  BY DEF ComputeRisk
<1>2. PICK p : p = IF given = Nil THEN portfolio ELSE given
  OBVIOUS
<1>3. /\ InMemory' = InMemory /\ events' = events /\ InMemory' \in State
      /\ Within(InMemory, InMemory') /\ events \in [Symbols -> Nat]
      /\ InMemory'.events = events
  BY ThreadFacts, WithinSelf DEF ComputeRisk, memory, InMemory, Counts
<1>4. CASE p = Nil
  <2>1. th' = [th EXCEPT ![w] = Idle]
    BY <1>1, <1>2, <1>4
  <2>2. Current(Idle)'
    BY IdleFacts DEF Current
  <2> QED
    BY <1>3, <2>1, <2>2, IdleFacts, AcceptStep DEF ComputeRisk, memory
<1>5. CASE p # Nil
  <2>1. PICK t : t = AtCompute([Idle EXCEPT !.request = "compute"], p)
    OBVIOUS
  <2>2. th' = [th EXCEPT ![w] = t]
    BY <1>1, <1>2, <1>5, <2>1
  <2>3. p \in SUBSET Symbols
    BY <1>2, <1>5, ThreadFacts, PortfolioAssumption
  <2>4. /\ t \in Thread /\ t.snapshot = 0 /\ t.dump = Empty /\ t.pc = "read"
        /\ t.place = Nothing /\ t.basis = Nothing /\ t.request = "compute"
        /\ t.positions = p /\ t.todo = p
    BY <2>1, <2>3, IdleFacts, EmptyFacts DEF AtCompute, Thread, Request, Saving
  <2>5. \A s \in Symbols : t.place[s] = 0 /\ t.basis[s] = 0 /\ events[s] \in Nat
    BY <1>3, <2>4 DEF Nothing
  <2>6. Has(InMemory', t)
    BY <1>3, <2>4, <2>5 DEF Has
  <2>7. Current(t)'
    BY <1>3, <2>4, <2>5, <2>6 DEF Current
  <2> QED
    BY <1>3, <2>2, <2>4, <2>7, AcceptStep DEF ComputeRisk, memory
<1> QED
  BY <1>4, <1>5

\* The snapshot becomes the latest: without an overlap it has seen all that is there.
LEMMA AppendSnapshotStep ==
  ASSUME RiskInv, NEW w \in Workers, AppendSnapshot(w)
  PROVE  RiskInv'
<1>1. PICK old : old = th[w]
  OBVIOUS
<1>2. /\ old \in Thread /\ old.pc = "read" /\ old.todo = {} /\ Faithful(old)
      /\ ~overlapped => Current(old)
      /\ old.snapshot = 0 /\ ~At(w, "idle")
      /\ UNCHANGED <<events, portfolio, stored, ledger, answered, used, overlapped>>
      /\ computed' = computed + 1 /\ computed \in Nat
  BY <1>1, ThreadFacts DEF AppendSnapshot, At, load, Faithful, RiskInv, TypeOK
<1>3. PICK n : n = [id |-> computed + 1, positions |-> old.positions, basis |-> old.basis]
  OBVIOUS
<1>4. /\ n \in Snapshot /\ n.id = computed + 1 /\ n.positions = old.positions
      /\ n.basis = old.basis /\ n.basis \in [Symbols -> Nat] /\ n.positions \subseteq Symbols
  BY <1>2, <1>3 DEF Snapshot, Thread, Counts
<1>5. PICK t : t = [old EXCEPT !.pc = "record", !.snapshot = computed + 1]
  OBVIOUS
<1>6. th' = [th EXCEPT ![w] = t]
  BY <1>1, <1>5, ThreadFacts DEF AppendSnapshot, Thread
<1>7. /\ t \in Thread /\ t.pc = "record" /\ t.snapshot = computed + 1 /\ t.dump = old.dump
      /\ t.request = old.request /\ t.place = old.place
  <2>1. old \in Thread /\ computed + 1 \in Nat
    BY <1>2
  <2> QED
    BY <1>5, <2>1 DEF Thread
<1>8. /\ snapshots \in Seq(Snapshot) /\ snapshots' \in Seq(Snapshot) /\ Len(snapshots) \in Nat
      /\ Len(snapshots') = Len(snapshots) + 1
      /\ \A i \in 1..Len(snapshots) : snapshots'[i] = snapshots[i]
      /\ snapshots'[Len(snapshots) + 1] = n
  <2>1. snapshots' = Append(snapshots, n) /\ snapshots \in Seq(Snapshot)
    BY <1>1, <1>3, ThreadFacts DEF AppendSnapshot
  <2> QED
    BY <1>4, <2>1
<1>9. /\ InMemory \in State /\ InMemory' \in State
      /\ InMemory'.events = events /\ InMemory'.snapshots = snapshots'
      /\ InMemory'.portfolio = portfolio /\ InMemory.events = events
      /\ InMemory.snapshots = snapshots /\ InMemory.portfolio = portfolio
      /\ events \in [Symbols -> Nat]
  BY <1>2, <1>8, ThreadFacts DEF InMemory, State, Counts
<1>10. Within(InMemory, InMemory')
  <2>1. \A x \in Symbols : events[x] <= events[x]
    BY <1>9
  <2> QED
    BY <1>8, <1>9, <2>1, WithinFacts
<1>11. TypeOK'
  <2>1. ledger' \subseteq 1..computed'
    BY <1>2 DEF RiskInv, TypeOK
  <2> QED
    BY <1>2, <1>6, <1>7, <1>9, <2>1 DEF RiskInv, TypeOK
<1>12. FileIsPrefix'
  BY <1>2, <1>9, <1>10, ThreadFacts, WithinTrans DEF RiskInv, FileIsPrefix
<1>13. Faithful(t)'
  <2>1. Within(t.dump, InMemory')
    BY <1>2, <1>7, <1>9, <1>10, WithinTrans DEF Faithful, Thread
  <2> QED
    BY <1>2, <1>7, <2>1 DEF Faithful, Saving
<1>14. ASSUME ~overlapped'
       PROVE  /\ Current(t)' /\ Supported(InMemory)' /\ Supported(stored)'
              /\ InOrder' /\ MissingExplained'
  <2>1. /\ Current(old) /\ Supported(InMemory) /\ Supported(stored) /\ InOrder /\ MissingExplained
    BY <1>2, <1>14 DEF RiskInv, SavesInv
  <2>2. \A s \in Symbols : /\ n.basis[s] <= events[s] /\ n.basis[s] \in Nat
                           /\ s \in n.positions => n.basis[s] = events[s]
    BY <1>2, <1>4, <2>1 DEF Current
  <2>3. \A i \in 1..Len(snapshots) : \A s \in Symbols : snapshots[i].basis[s] <= events[s]
    BY <1>8, <1>9, <2>1 DEF Supported
  <2>4. Supported(InMemory')
    <3>1. \A i \in 1..Len(snapshots') : \A s \in Symbols : snapshots'[i].basis[s] <= events[s]
      BY <1>8, <2>2, <2>3
    <3> QED
      BY <1>8, <1>9, <3>1 DEF Supported
  <2>5. InOrder'
    <3>1. \A j \in 1..Len(snapshots) : \A i \in 1..j : Covers(snapshots[j], snapshots[i])
      BY <1>8, <2>1 DEF InOrder
    <3>2. \A i \in 1..Len(snapshots) : Covers(n, snapshots[i])
      BY <1>4, <2>2, <2>3 DEF Covers
    <3>3. Covers(n, n)
      BY <1>4, <2>2 DEF Covers
    <3>4. ASSUME NEW j \in 1..Len(snapshots'), NEW i \in 1..j
          PROVE  Covers(snapshots'[j], snapshots'[i])
      <4>1. CASE j \in 1..Len(snapshots)
        BY <1>8, <3>1, <3>4, <4>1
      <4>2. CASE j = Len(snapshots) + 1
        BY <1>8, <3>2, <3>3, <3>4, <4>2
      <4> QED
        BY <1>8, <4>1, <4>2
    <3> QED
      BY <1>8, <3>4 DEF InOrder, Covers
  <2>6. Has(InMemory', t)
    <3>1. Has(InMemory, old)
      BY <1>2, <2>1 DEF Current
    <3>2. Len(snapshots) + 1 \in DOMAIN snapshots' /\ snapshots'[Len(snapshots) + 1].id = t.snapshot
      BY <1>4, <1>7, <1>8
    <3> QED
      BY <1>7, <1>9, <3>1, <3>2 DEF Has
  <2>7. Current(t)'
    BY <1>7, <2>6 DEF Current
  <2>8. Missing' = Missing /\ old.snapshot \notin Missing
    BY <1>2, MissingFinite DEF Missing, RiskInv
  <2>9. used' = used /\ used["faults"] \in Nat /\ used["crashes"] \in Nat
    BY <1>2 DEF RiskInv, TypeOK, Bounds
  <2>10. LET spent == used["faults"] + used["crashes"]
        IN  \/ used'["faults"] + used'["crashes"] >= spent + 1
            \/ /\ used'["faults"] + used'["crashes"] >= spent
               /\ t.snapshot = th[w].snapshot \/ th[w].snapshot \notin Missing'
    BY <1>1, <2>8, <2>9
  <2>11. MissingExplained'
    BY <1>6, <1>11, <2>1, <2>8, <2>10, MissingStep DEF RiskInv
  <2> QED
    BY <1>2, <2>1, <2>4, <2>5, <2>7, <2>11
<1>15. computed <= computed' /\ (overlapped' \/ ~overlapped)
  BY <1>2
<1> QED
  BY <1>2, <1>6, <1>7, <1>10, <1>11, <1>12, <1>13, <1>14, <1>15, ThreadStep

\* record_ledger_event: the ledger is ahead of the file by the snapshot in progress.
LEMMA RecordStep ==
  ASSUME RiskInv, NEW w \in Workers, Record(w)
  PROVE  RiskInv'
<1>1. PICK old : old = th[w]
  OBVIOUS
<1>2. /\ old \in Thread /\ old.pc = "record" /\ Faithful(old) /\ (~overlapped => Current(old))
      /\ ~At(w, "idle") /\ old.snapshot \in 1..computed
      /\ UNCHANGED <<memory, stored, computed, answered, overlapped>>
      /\ \/ ledger' = ledger \union {old.snapshot} /\ used' = used
         \/ used' = [used EXCEPT !["faults"] = @ + 1] /\ ledger' = ledger
  BY <1>1, ThreadFacts DEF Record, At, load, Fault, Spend, Faithful
<1>3. PICK t : t = AtSave(old, "answer")
  OBVIOUS
<1>4. th' = [th EXCEPT ![w] = t]
  BY <1>1, <1>3, ThreadFacts DEF Record
<1>5. /\ t \in Thread /\ t.pc = "iterate" /\ t.snapshot = old.snapshot /\ t.dump = old.dump
      /\ t.request = old.request /\ t.place = old.place /\ t.after = "answer"
  BY <1>2, <1>3 DEF Thread, AtSave, Saving
<1>6. /\ InMemory' = InMemory /\ stored' = stored /\ computed' = computed
      /\ overlapped' = overlapped /\ InMemory \in State /\ computed \in Nat
      /\ events' = events /\ portfolio' = portfolio /\ snapshots' = snapshots
  BY <1>2 DEF memory, InMemory, RiskInv, TypeOK
<1>7. used \in [Bounds -> Nat] /\ used' \in [Bounds -> Nat]
  BY <1>2 DEF RiskInv, TypeOK, Bounds
<1>8. TypeOK'
  BY <1>2, <1>4, <1>5, <1>6, <1>7 DEF RiskInv, TypeOK
<1>9. FileIsPrefix' /\ Within(InMemory, InMemory')
  BY <1>6, WithinSelf DEF RiskInv, FileIsPrefix
<1>10. Faithful(t)'
  BY <1>2, <1>5, <1>6 DEF Faithful
<1>11. ASSUME ~overlapped'
       PROVE  /\ Current(t)' /\ Supported(InMemory)' /\ Supported(stored)'
              /\ InOrder' /\ MissingExplained'
  <2>1. /\ Current(old) /\ Supported(InMemory) /\ Supported(stored) /\ InOrder /\ MissingExplained
    BY <1>2, <1>6, <1>11 DEF RiskInv, SavesInv
  <2>2. Current(t)' /\ Supported(InMemory)' /\ Supported(stored)' /\ InOrder'
    BY <1>2, <1>5, <1>6, <2>1 DEF Current, InOrder, Has
  <2>3. Missing' \subseteq Missing \union {t.snapshot}
    BY <1>2, <1>5, <1>6 DEF Missing
  <2>4. used'["faults"] + used'["crashes"] >= used["faults"] + used["crashes"]
    BY <1>2, <1>7 DEF Bounds
  <2>5. MissingExplained'
    BY <1>1, <1>4, <1>5, <1>8, <2>1, <2>3, <2>4, MissingStep DEF RiskInv
  <2> QED
    BY <2>2, <2>5
<1>12. computed <= computed' /\ (overlapped' \/ ~overlapped)
  BY <1>6
<1> QED
  BY <1>2, <1>4, <1>5, <1>8, <1>9, <1>10, <1>11, <1>12, ThreadStep

\* What a thread in progress has serialised is memory, as long as no two overlap.
LEMMA DumpIsMemory ==
  ASSUME RiskInv, NEW w \in Workers, At(w, "replace"), ~overlapped
  PROVE  th[w].dump = InMemory
<1>1. PICK d : d = th[w].dump
  OBVIOUS
<1>2. d \in State /\ d.events = events /\ d.portfolio = portfolio /\ d.snapshots = snapshots
  BY <1>1, ThreadFacts DEF At, Thread, Current
<1>3. d = [events |-> d.events, portfolio |-> d.portfolio, snapshots |-> d.snapshots]
  BY <1>2 DEF State
<1> QED
  BY <1>1, <1>2, <1>3 DEF InMemory

\* The file is replaced by what was serialised.
LEMMA SaveJsonFileStep ==
  ASSUME RiskInv, NEW w \in Workers, SaveJsonFile(w)
  PROVE  RiskInv'
<1>1. PICK old : old = th[w]
  OBVIOUS
<1>2. /\ old \in Thread /\ old.pc = "replace" /\ Faithful(old) /\ (~overlapped => Current(old))
      /\ ~At(w, "idle") /\ At(w, "replace") /\ stored' = old.dump /\ old.dump \in State
      /\ UNCHANGED <<memory, ledger, computed, answered, used, overlapped>>
  BY <1>1, ThreadFacts DEF SaveJsonFile, At, load, Thread
<1>3. PICK t : t = [old EXCEPT !.pc = old.after]
  OBVIOUS
<1>4. th' = [th EXCEPT ![w] = t]
  BY <1>1, <1>3, ThreadFacts DEF SaveJsonFile
<1>5. /\ t \in Thread /\ t.pc = old.after /\ t.snapshot = old.snapshot /\ t.dump = old.dump
      /\ t.request = old.request /\ t.place = old.place /\ t.pc \in {"auto", "answer"}
  BY <1>2, <1>3 DEF Thread
<1>6. /\ InMemory' = InMemory /\ computed' = computed /\ overlapped' = overlapped
      /\ InMemory \in State /\ computed \in Nat /\ stored \in State
      /\ events' = events /\ portfolio' = portfolio /\ snapshots' = snapshots
  BY <1>2 DEF memory, InMemory, RiskInv, TypeOK
<1>7. TypeOK'
  BY <1>2, <1>4, <1>5, <1>6 DEF RiskInv, TypeOK
<1>8. FileIsPrefix' /\ Within(InMemory, InMemory')
  BY <1>2, <1>6, WithinSelf DEF Faithful, FileIsPrefix
<1>9. Faithful(t)'
  BY <1>2, <1>5, <1>6 DEF Faithful, Saving
<1>10. ASSUME ~overlapped'
       PROVE  /\ Current(t)' /\ Supported(InMemory)' /\ Supported(stored)'
              /\ InOrder' /\ MissingExplained'
  <2>1. /\ Current(old) /\ Supported(InMemory) /\ InOrder /\ MissingExplained
    BY <1>2, <1>6, <1>10 DEF RiskInv, SavesInv
  <2>2. stored' = InMemory
    BY <1>1, <1>2, <1>6, <1>10, DumpIsMemory
  <2>3. Has(InMemory, t)
    BY <1>2, <1>5, <2>1 DEF Current, Has
  <2>4. Current(t)' /\ Supported(InMemory)' /\ Supported(stored)' /\ InOrder'
    BY <1>2, <1>5, <1>6, <2>1, <2>2, <2>3 DEF Current, InOrder
  <2>5. Missing' \subseteq Missing
    <3>1. \A i \in DOMAIN stored.snapshots :
            i \in DOMAIN InMemory.snapshots /\ InMemory.snapshots[i] = stored.snapshots[i]
      BY <1>6, StateFacts, WithinFacts DEF RiskInv, FileIsPrefix
    <3> QED
      BY <1>2, <2>2, <3>1 DEF Missing
  <2>6. used' = used /\ used["faults"] \in Nat /\ used["crashes"] \in Nat
    BY <1>2 DEF RiskInv, TypeOK, Bounds
  <2>7. LET spent == used["faults"] + used["crashes"]
        IN  \/ used'["faults"] + used'["crashes"] >= spent + 1
            \/ /\ used'["faults"] + used'["crashes"] >= spent
               /\ t.snapshot = th[w].snapshot \/ th[w].snapshot \notin Missing'
    BY <1>1, <1>5, <2>6
  <2>8. MissingExplained'
    BY <1>4, <1>7, <2>1, <2>5, <2>7, MissingStep DEF RiskInv
  <2> QED
    BY <2>4, <2>8
<1>11. computed <= computed' /\ (overlapped' \/ ~overlapped)
  BY <1>6
<1> QED
  BY <1>2, <1>4, <1>5, <1>7, <1>8, <1>9, <1>10, <1>11, ThreadStep

\* Memory is what the file held; the requests in progress are gone.
LEMMA CrashStep ==
  ASSUME RiskInv, CrashAndRestart
  PROVE  RiskInv'
<1>1. /\ th' = [v \in Workers |-> Idle] /\ \A v \in Workers : th'[v] = Idle
      /\ events' = stored.events /\ portfolio' = stored.portfolio
      /\ snapshots' = stored.snapshots
      /\ UNCHANGED <<stored, ledger, computed, answered, overlapped>>
      /\ used' = [used EXCEPT !["crashes"] = @ + 1]
  BY DEF CrashAndRestart, Spend
<1>2. /\ InMemory \in State /\ stored \in State /\ used \in [Bounds -> Nat]
      /\ used["faults"] \in Nat /\ used["crashes"] \in Nat /\ overlapped \in BOOLEAN
      /\ InMemory.snapshots = snapshots
  BY DEF RiskInv, TypeOK, Bounds, InMemory
<1>3. /\ used' \in [Bounds -> Nat] /\ used'["faults"] = used["faults"]
      /\ used'["crashes"] = used["crashes"] + 1
  BY <1>1, <1>2 DEF Bounds
<1>4. InMemory' = stored
  <2>1. stored = [events |-> stored.events, portfolio |-> stored.portfolio,
                  snapshots |-> stored.snapshots]
    BY <1>2 DEF State
  <2> QED
    BY <1>1, <2>1 DEF InMemory
<1>5. TypeOK'
  BY <1>1, <1>2, <1>3, <1>4, IdleFacts DEF RiskInv, TypeOK
<1>6. FileIsPrefix'
  BY <1>1, <1>2, <1>4, WithinSelf DEF FileIsPrefix
<1>7. DumpsFaithful'
  <2>1. Faithful(Idle)'
    BY <1>2, <1>4, IdleFacts, EmptyFacts DEF Faithful
  <2> QED
    BY <1>1, <2>1 DEF DumpsFaithful
<1>8. SavesInv'
  <2> SUFFICES ASSUME ~overlapped'
               PROVE  /\ \A u, v \in Workers : (~At(u, "idle")' /\ ~At(v, "idle")') => u = v
                      /\ \A v \in Workers : Current(th[v])'
                      /\ Supported(InMemory)' /\ Supported(stored)' /\ InOrder' /\ MissingExplained'
    BY DEF SavesInv
  <2>1. /\ ~overlapped /\ Supported(stored) /\ InOrder
        /\ \A v, w \in Workers : (~At(v, "idle") /\ ~At(w, "idle")) => v = w
    BY <1>1 DEF RiskInv, SavesInv
  <2>2. \A v \in Workers : th'[v].pc = "idle"
    BY <1>1, IdleFacts
  <2>3. \A v \in Workers : Current(th[v])'
    BY <2>2 DEF Current
  <2>4. Supported(InMemory)' /\ Supported(stored)'
    BY <1>1, <1>4, <2>1
  <2>5. InOrder'
    <3>1. /\ DOMAIN stored.snapshots = 1..Len(stored.snapshots) /\ Len(stored.snapshots) \in Nat
          /\ DOMAIN snapshots = 1..Len(snapshots) /\ Len(snapshots) \in Nat
          /\ Len(stored.snapshots) <= Len(snapshots)
          /\ \A i \in 1..Len(stored.snapshots) : stored.snapshots[i] = snapshots[i]
      BY <1>2, StateFacts, WithinFacts DEF RiskInv, FileIsPrefix
    <3>2. \A j \in 1..Len(stored.snapshots) : \A i \in 1..j :
            Covers(stored.snapshots[j], stored.snapshots[i])
      BY <2>1, <3>1 DEF InOrder
    <3> QED
      BY <1>1, <3>1, <3>2 DEF InOrder, Covers
  <2>6. MissingExplained'
    <3>1. Missing' = Missing
      BY <1>1 DEF Missing
    <3>2. Cardinality({w \in Workers : ~At(w, "idle")}) \in {0, 1}
      <4>1. CASE \A w \in Workers : At(w, "idle")
        <5>1. {w \in Workers : ~At(w, "idle")} = {}
          BY <4>1
        <5> QED
          BY <5>1, FS_EmptySet
      <4>2. ASSUME NEW v \in Workers, ~At(v, "idle")
            PROVE  Cardinality({w \in Workers : ~At(w, "idle")}) = 1
        <5>1. {w \in Workers : ~At(w, "idle")} = {v}
          BY <2>1, <4>2
        <5> QED
          BY <5>1, FS_Singleton
      <4> QED
        BY <4>1, <4>2
    <3>3. Cardinality(Missing) <= used["faults"] + used["crashes"]
            + Cardinality({w \in Workers : ~At(w, "idle")})
      BY <2>1 DEF RiskInv, AuditAhead
    <3>4. IsFiniteSet(Missing) /\ Cardinality(Missing) \in Nat
      BY MissingFinite, FS_CardinalityType DEF RiskInv
    <3>5. /\ Cardinality(Missing \ Own') \in Nat
          /\ Cardinality(Missing \ Own') <= Cardinality(Missing)
      <4>1. Missing \ Own' \subseteq Missing
        OBVIOUS
      <4>2. IsFiniteSet(Missing \ Own') /\ Cardinality(Missing \ Own') <= Cardinality(Missing)
        BY <3>4, <4>1, FS_Subset
      <4> QED
        BY <4>2, FS_CardinalityType
    <3>6. Cardinality(Missing \ Own') <= used'["faults"] + used'["crashes"]
      BY <1>2, <1>3, <3>2, <3>3, <3>4, <3>5
    <3> QED
      BY <3>1, <3>6 DEF MissingExplained, Own
  <2> QED
    BY <2>2, <2>3, <2>4, <2>5, <2>6 DEF At
<1>9. AuditAhead'
  <2>1. (TypeOK /\ DumpsFaithful /\ SavesInv => AuditAhead)'
    BY AuditFromMissing, PTL
  <2> QED
    BY <1>5, <1>7, <1>8, <2>1
<1> QED
  BY <1>5, <1>6, <1>7, <1>8, <1>9 DEF RiskInv

-----------------------------------------------------------------------------
(* The theorems.                                                           *)

\* A peer that starts with nothing stored.
LEMMA InitInv == Init => RiskInv
<1> SUFFICES ASSUME Init PROVE RiskInv
  OBVIOUS
<1>1. /\ th = [v \in Workers |-> Idle] /\ \A v \in Workers : th[v] = Idle
      /\ stored = Empty /\ InMemory = Empty /\ snapshots = << >> /\ stored.snapshots = << >>
      /\ ledger = {} /\ computed = 0 /\ answered = {} /\ overlapped = FALSE
      /\ used = [b \in Bounds |-> 0]
  BY DEF Init, InMemory, Empty
<1>2. TypeOK
  BY <1>1, IdleFacts, EmptyFacts DEF TypeOK
<1>3. FileIsPrefix
  BY <1>1, EmptyFacts DEF FileIsPrefix
<1>4. DumpsFaithful
  BY <1>1, <1>2, IdleInvs DEF DumpsFaithful, TypeOK
<1>5. SavesInv
  <2>1. Supported(InMemory) /\ Supported(stored) /\ InOrder
    <3>1. DOMAIN snapshots = {} /\ DOMAIN stored.snapshots = {} /\ DOMAIN InMemory.snapshots = {}
      BY <1>1 DEF Empty
    <3> QED
      BY <3>1 DEF Supported, InOrder
  <2>2. MissingExplained
    <3>1. Missing \ {th[w].snapshot : w \in Workers} = {}
      BY <1>1 DEF Missing
    <3>2. Cardinality(Missing \ {th[w].snapshot : w \in Workers}) = 0
      BY <3>1, FS_EmptySet
    <3>3. used["faults"] = 0 /\ used["crashes"] = 0
      BY <1>1 DEF Bounds
    <3> QED
      BY <3>2, <3>3 DEF MissingExplained
  <2>3. \A v \in Workers : At(v, "idle") /\ Current(th[v])
    BY <1>1, <1>2, IdleFacts, IdleInvs DEF At, TypeOK
  <2> QED
    BY <2>1, <2>2, <2>3 DEF SavesInv
<1>6. AuditAhead
  BY <1>2, <1>4, <1>5, AuditFromMissing
<1> QED
  BY <1>2, <1>3, <1>4, <1>5, <1>6 DEF RiskInv

\* Every step keeps the inductive invariant.
LEMMA NextInv == RiskInv /\ [Next]_vars => RiskInv'
<1> SUFFICES ASSUME RiskInv, [Next]_vars PROVE RiskInv'
  OBVIOUS
<1>1. ASSUME NEW w \in Workers, Handler(w) PROVE RiskInv'
  BY <1>1, SetPortfolioStep, IngestEventStep, AutoComputeStep, ComputeRiskStep, ReadSeriesStep,
     AppendSnapshotStep, FailedStep, RecordStep, IterateStep, DumpEventsStep, SizeChangedStep,
     DumpPortfolioStep, DumpSnapshotsStep, SaveJsonFileStep, AnswerStep
     DEF Handler
<1>2. CASE CrashAndRestart
  BY <1>2, CrashStep
<1>3. CASE UNCHANGED vars
  BY <1>3 DEF vars, memory, load, RiskInv, TypeOK, FileIsPrefix, AuditAhead, DumpsFaithful,
              SavesInv, Faithful, Current, InMemory, Missing, MissingExplained, InOrder,
              Tracked, At
<1> QED
  BY <1>1, <1>2, <1>3 DEF Next

\* However many threads set portfolios, ingest, compute and save at once, and whatever
\* fails, the state file that _save_state leaves behind has the first events of each
\* symbol and the first snapshots of those in memory; and as long as no two requests
\* overlap, the ledger, which compute_risk writes before the file, is ahead of it by one
\* snapshot for each failure and crash, and one in progress.
THEOREM RiskInvariant == Spec => []RiskInv
  BY InitInv, NextInv, PTL DEF Spec

\* As long as no two requests overlap, a stored snapshot is stored with the events it
\* was computed from, and no snapshot before latest_snapshot has seen an event that
\* the latest has not, whatever saves fail and whenever the process dies.
THEOREM SnapshotsAreInOrder == Spec => []SnapshotsInOrder
<1>1. RiskInv => SnapshotsInOrder
  <2> SUFFICES ASSUME RiskInv, ~overlapped
               PROVE  Supported(stored)
                      /\ \A i \in DOMAIN snapshots : Covers(Last(snapshots), snapshots[i])
    BY DEF SnapshotsInOrder, SnapshotsSupported, LatestIsNewest
  <2>1. Supported(stored) /\ InOrder
    BY DEF RiskInv, SavesInv
  <2>2. DOMAIN snapshots = 1..Len(snapshots) /\ Len(snapshots) \in Nat
    <3>1. InMemory \in State /\ InMemory.snapshots = snapshots
      BY DEF RiskInv, TypeOK, InMemory
    <3> QED
      BY <3>1, StateFacts
  <2>3. ASSUME NEW i \in DOMAIN snapshots PROVE Covers(Last(snapshots), snapshots[i])
    <3>1. Len(snapshots) \in DOMAIN snapshots /\ i \in 1..Len(snapshots)
      BY <2>2
    <3> QED
      BY <2>1, <3>1 DEF InOrder, Last
  <2> QED
    BY <2>1, <2>3
<1> QED
  BY <1>1, RiskInvariant, PTL

\* A step keeps what the earlier answers promised.
LEMMA AnsweredStep == RiskInv /\ AnsweredIsStored /\ [Next]_vars => AnsweredIsStored'
<1> SUFFICES ASSUME RiskInv, AnsweredIsStored, [Next]_vars, ~overlapped'
             PROVE  \A a \in answered' : Has(stored', a)
  BY DEF AnsweredIsStored
<1>1. overlapped = FALSE
  BY DEF Next, Handler, SetPortfolio, IngestEvent, AutoCompute, ComputeRisk, ReadSeries,
         AppendSnapshot, ComputeRaises, Record, Iterate, DumpEvents, SizeChanged, DumpPortfolio,
         DumpSnapshots, SaveJsonFile, SaveFails, Answer, CrashAndRestart, Accept, Spend, Fault,
         load, vars, RiskInv, TypeOK
<1>2. \A a \in answered : Has(stored, a)
  BY <1>1 DEF AnsweredIsStored
<1>3. CASE UNCHANGED <<stored, answered>>
  BY <1>2, <1>3
<1>4. ASSUME NEW w \in Workers, SaveJsonFile(w) PROVE \A a \in answered' : Has(stored', a)
  <2>1. stored' = InMemory /\ answered' = answered
    BY <1>1, <1>4, DumpIsMemory DEF SaveJsonFile
  <2>2. /\ stored \in State /\ InMemory \in State /\ Within(stored, InMemory)
        /\ \A a \in answered : a.place \in Counts
    BY DEF RiskInv, TypeOK, FileIsPrefix, Promise
  <2> QED
    BY <1>2, <2>1, <2>2, HasWithin
<1>5. ASSUME NEW w \in Workers, Answer(w) PROVE \A a \in answered' : Has(stored', a)
  <2>1. /\ answered' = answered \union {Answered(th[w])} /\ stored' = stored
        /\ Has(stored, th[w])
    BY <1>1, <1>5, ThreadFacts DEF Answer, At, Current
  <2>2. Has(stored, Answered(th[w]))
    BY <2>1 DEF Has, Answered
  <2> QED
    BY <1>2, <2>1, <2>2
<1> QED
  BY <1>3, <1>4, <1>5
     DEF Next, Handler, SetPortfolio, IngestEvent, AutoCompute, ComputeRisk, ReadSeries,
         AppendSnapshot, ComputeRaises, Record, Iterate, DumpEvents, SizeChanged, DumpPortfolio,
         DumpSnapshots, SaveFails, CrashAndRestart, vars

\* As long as no two requests overlap, what set_portfolio, ingest_event and compute_risk
\* have answered is in the state file: a portfolio, the event at its place in the list of
\* its symbol, the snapshot, whatever later saves fail and whenever the process dies.
THEOREM AnswersAreStored == Spec => []AnsweredIsStored
<1>1. Init => AnsweredIsStored
  BY DEF Init, AnsweredIsStored
<1> QED
  BY <1>1, RiskInvariant, AnsweredStep, PTL DEF Spec
=============================================================================
