------------------------------ MODULE RiskPeer ------------------------------
(***************************************************************************)
(* The GCP risk peer: RiskService, whose events, portfolio and snapshots   *)
(* the threads of the request pool share without a lock, and the state     *)
(* file that _save_state replaces.  The metrics are in RiskMetrics; here a *)
(* snapshot is what it was computed from, its basis: how many events of    *)
(* each position it saw.  A list of events is its length: 0 for a symbol   *)
(* that events_by_symbol has no key for, as ingest_event makes no key      *)
(* without an event and _returns_for_symbol makes none.                    *)
(***************************************************************************)
EXTENDS SequencesExt

CONSTANTS
  Workers,      \* threads of the request pool
  Symbols,      \* symbols of market events
  Portfolios,   \* portfolios, each the set of symbols it has positions in
  Nil,          \* None: no portfolio
  MaxRequests,  \* bound: requests accepted
  MaxFaults,    \* bound: saves, ledger appends and computations that fail
  MaxCrashes    \* bound: crashes

ASSUME PortfolioAssumption == \A p \in Portfolios : p # Nil /\ p \subseteq Symbols

VARIABLES
  th,         \* each thread: its place in the handler and its local variables
  events,     \* events_by_symbol: how many events each symbol has
  portfolio,  \* the portfolio, Nil before one is set
  snapshots,  \* the snapshots
  stored,     \* the state file
  ledger,     \* ids of the snapshots that the registry recorded
  computed,   \* snapshot ids drawn so far
  answered,   \* observer: the requests that were answered, with what they did
  overlapped, \* observer: whether two requests were ever in progress at once
  used        \* how much of each bound is spent

memory == <<events, portfolio, snapshots>>
load   == <<used, overlapped>>
vars   == <<th, memory, stored, ledger, computed, answered, load>>

Nothing == [s \in Symbols |-> 0]
Bounds  == {"requests", "faults", "crashes"}

Spend(bound, limit) ==
  /\ used[bound] < limit
  /\ used' = [used EXCEPT ![bound] = @ + 1]
  /\ UNCHANGED overlapped

Fault == Spend("faults", MaxFaults)

Empty == [events |-> Nothing, portfolio |-> Nil, snapshots |-> << >>]

Idle == [pc |-> "idle", request |-> "none", place |-> Nothing, snapshot |-> 0,
         after |-> "answer", positions |-> {}, basis |-> Nothing, keys |-> {}, todo |-> {},
         dump |-> Empty]

At(w, location) == th[w].pc = location

\* A thread of the pool takes a request.
Accept ==
  /\ used["requests"] < MaxRequests
  /\ used' = [used EXCEPT !["requests"] = @ + 1]
  /\ overlapped' = (overlapped \/ \E w \in Workers : ~At(w, "idle"))

\* The keys of events_by_symbol.
Tracked == {s \in Symbols : events[s] > 0}

-----------------------------------------------------------------------------
Init ==
  /\ th = [w \in Workers |-> Idle]
  /\ events = Nothing /\ portfolio = Nil /\ snapshots = << >>
  /\ stored = Empty /\ ledger = {} /\ computed = 0
  /\ answered = {} /\ overlapped = FALSE /\ used = [b \in Bounds |-> 0]

\* Thread state t at the start of _save_state, to go on at after.
AtSave(t, after) == [t EXCEPT !.pc = "iterate", !.after = after]

-----------------------------------------------------------------------------
(* The handlers.                                                           *)

\* POST /risk/portfolio
SetPortfolio(w) ==
  /\ At(w, "idle")
  /\ Accept
  /\ portfolio' \in Portfolios
  /\ th' = [th EXCEPT ![w] =
              AtSave([Idle EXCEPT !.request = "portfolio"], "answer")]
  /\ UNCHANGED <<events, snapshots, stored, ledger, computed, answered>>

\* POST /risk/events
IngestEvent(w) ==
  /\ At(w, "idle")
  /\ Accept
  /\ \E s \in Symbols :
       /\ events' = [events EXCEPT ![s] = @ + 1]
       /\ th' = [th EXCEPT ![w] =
                   AtSave([Idle EXCEPT !.request = "event",
                                       !.place[s] = events[s] + 1], "auto")]
  /\ UNCHANGED <<portfolio, snapshots, stored, ledger, computed, answered>>

\* Thread state t at the start of compute_risk with effective portfolio p.
AtCompute(t, p) ==
  [t EXCEPT !.pc = "read", !.positions = p, !.todo = p, !.basis = Nothing]

\* auto_compute
AutoCompute(w) ==
  /\ At(w, "auto")
  /\ th' = [th EXCEPT ![w] =
              IF portfolio = Nil THEN [@ EXCEPT !.pc = "answer"] ELSE AtCompute(@, portfolio)]
  /\ UNCHANGED <<memory, stored, ledger, computed, answered, load>>

\* POST /risk/compute, with a portfolio of its own or not; without any, 400.
ComputeRisk(w) ==
  /\ At(w, "idle")
  /\ Accept
  /\ \E given \in Portfolios \union {Nil} :
       LET effective == IF given = Nil THEN portfolio ELSE given
       IN  th' = [th EXCEPT ![w] =
                    IF effective = Nil THEN Idle
                    ELSE AtCompute([Idle EXCEPT !.request = "compute"], effective)]
  /\ UNCHANGED <<memory, stored, ledger, computed, answered>>

\* _returns_for_symbol, one position at a time
ReadSeries(w) ==
  /\ At(w, "read")
  /\ \E s \in th[w].todo :
       th' = [th EXCEPT ![w].todo = @ \ {s}, ![w].basis[s] = events[s]]
  /\ UNCHANGED <<memory, stored, ledger, computed, answered, load>>

\* The metrics are computed and the snapshot becomes the latest.
AppendSnapshot(w) ==
  /\ At(w, "read") /\ th[w].todo = {}
  /\ computed' = computed + 1
  /\ snapshots' = Append(snapshots, [id |-> computed + 1, positions |-> th[w].positions,
                                     basis |-> th[w].basis])
  /\ th' = [th EXCEPT ![w].pc = "record", ![w].snapshot = computed + 1]
  /\ UNCHANGED <<events, portfolio, stored, ledger, answered, load>>

\* There is a return, and the drawdown of these prices divides by zero: a 500,
\* nothing changed.
ComputeRaises(w) ==
  /\ At(w, "read") /\ th[w].todo = {}
  /\ \E s \in th[w].positions : th[w].basis[s] > 1
  /\ Fault
  /\ th' = [th EXCEPT ![w] = Idle]
  /\ UNCHANGED <<memory, stored, ledger, computed, answered>>

\* Mutant: the snapshot is not saved.
Record_NoSave(w) ==
  /\ At(w, "record")
  /\ \/ ledger' = ledger \union {th[w].snapshot} /\ UNCHANGED load
     \/ Fault /\ UNCHANGED ledger
  /\ th' = [th EXCEPT ![w].pc = "answer"]
  /\ UNCHANGED <<memory, stored, computed, answered>>

\* record_ledger_event, whose failure append_ledger swallows: before the save.
Record(w) ==
  /\ At(w, "record")
  /\ \/ ledger' = ledger \union {th[w].snapshot} /\ UNCHANGED load
     \/ Fault /\ UNCHANGED ledger
  /\ th' = [th EXCEPT ![w] = AtSave(@, "answer")]
  /\ UNCHANGED <<memory, stored, computed, answered>>

-----------------------------------------------------------------------------
(* _save_state: events, portfolio and snapshots are read one after the     *)
(* other, then the file is replaced.                                       *)

Iterate(w) ==
  /\ At(w, "iterate")
  /\ th' = [th EXCEPT ![w].pc = "dump_events", ![w].todo = Tracked, ![w].keys = Tracked,
                      ![w].dump = Empty]
  /\ UNCHANGED <<memory, stored, ledger, computed, answered, load>>

\* A dict that only grows has its size as long as it has its keys.
DumpEvents(w) ==
  /\ At(w, "dump_events") /\ Tracked = th[w].keys
  /\ \/ /\ th[w].todo = {}
        /\ th' = [th EXCEPT ![w].pc = "dump_portfolio"]
     \/ \E s \in th[w].todo :
          th' = [th EXCEPT ![w].todo = @ \ {s}, ![w].dump.events[s] = events[s]]
  /\ UNCHANGED <<memory, stored, ledger, computed, answered, load>>

\* RuntimeError: dictionary changed size during iteration.
SizeChanged(w) ==
  /\ At(w, "dump_events") /\ Tracked # th[w].keys
  /\ th' = [th EXCEPT ![w] = Idle]
  /\ UNCHANGED <<memory, stored, ledger, computed, answered, load>>

DumpPortfolio(w) ==
  /\ At(w, "dump_portfolio")
  /\ th' = [th EXCEPT ![w].pc = "dump_snapshots", ![w].dump.portfolio = portfolio]
  /\ UNCHANGED <<memory, stored, ledger, computed, answered, load>>

DumpSnapshots(w) ==
  /\ At(w, "dump_snapshots")
  /\ th' = [th EXCEPT ![w].pc = "replace", ![w].dump.snapshots = snapshots]
  /\ UNCHANGED <<memory, stored, ledger, computed, answered, load>>

SaveJsonFile(w) ==
  /\ At(w, "replace")
  /\ stored' = th[w].dump
  /\ th' = [th EXCEPT ![w].pc = th[w].after]
  /\ UNCHANGED <<memory, ledger, computed, answered, load>>

\* Mutant: a failed save is ignored.
SaveFails_Ignored(w) ==
  /\ At(w, "replace")
  /\ Fault
  /\ th' = [th EXCEPT ![w].pc = th[w].after]
  /\ UNCHANGED <<memory, stored, ledger, computed, answered>>

SaveFails(w) ==
  /\ At(w, "replace")
  /\ Fault
  /\ th' = [th EXCEPT ![w] = Idle]
  /\ UNCHANGED <<memory, stored, ledger, computed, answered>>

-----------------------------------------------------------------------------
\* What the answer to a request promises: the place of its event in the list of its
\* symbol, and its snapshot.
Answered(t) == [request |-> t.request, place |-> t.place, snapshot |-> t.snapshot]

\* The request is answered.
Answer(w) ==
  /\ At(w, "answer")
  /\ answered' = answered \union {Answered(th[w])}
  /\ th' = [th EXCEPT ![w] = Idle]
  /\ UNCHANGED <<memory, stored, ledger, computed, load>>

\* Mutant: the events are not reloaded.
CrashAndRestart_NoEvents ==
  /\ Spend("crashes", MaxCrashes)
  /\ th' = [w \in Workers |-> Idle]
  /\ events' = Nothing /\ portfolio' = stored.portfolio /\ snapshots' = stored.snapshots
  /\ UNCHANGED <<stored, ledger, computed, answered>>

\* The process dies and starts again: _load_state.
CrashAndRestart ==
  /\ Spend("crashes", MaxCrashes)
  /\ th' = [w \in Workers |-> Idle]
  /\ events' = stored.events /\ portfolio' = stored.portfolio
  /\ snapshots' = stored.snapshots
  /\ UNCHANGED <<stored, ledger, computed, answered>>

Handler(w) ==
  \/ SetPortfolio(w) \/ IngestEvent(w) \/ AutoCompute(w)
  \/ ComputeRisk(w) \/ ReadSeries(w) \/ AppendSnapshot(w) \/ ComputeRaises(w) \/ Record(w)
  \/ Iterate(w) \/ DumpEvents(w) \/ SizeChanged(w) \/ DumpPortfolio(w) \/ DumpSnapshots(w)
  \/ SaveJsonFile(w) \/ SaveFails(w) \/ Answer(w)

Next == (\E w \in Workers : Handler(w)) \/ CrashAndRestart

Spec == Init /\ [][Next]_vars

-----------------------------------------------------------------------------
(* Properties.                                                             *)

Counts   == [Symbols -> Nat]
Snapshot == [id : Nat, positions : SUBSET Symbols, basis : Counts]
State    == [events : Counts, portfolio : Portfolios \union {Nil}, snapshots : Seq(Snapshot)]
Request  == {"none", "portfolio", "event", "compute"}
Promise  == [request : Request, place : Counts, snapshot : Nat]

Saving == {"iterate", "dump_events", "dump_portfolio", "dump_snapshots", "replace"}

Thread ==
  [pc : {"idle", "auto", "read", "record", "answer"} \union Saving, request : Request,
   place : Counts, snapshot : Nat, after : {"auto", "answer"}, positions : SUBSET Symbols,
   basis : Counts, keys : SUBSET Symbols, todo : SUBSET Symbols, dump : State]

InMemory == [events |-> events, portfolio |-> portfolio, snapshots |-> snapshots]

\* Type invariant; what a restart loads is a state of the service.
TypeOK ==
  /\ th \in [Workers -> Thread] /\ InMemory \in State /\ stored \in State
  /\ computed \in Nat /\ ledger \subseteq 1..computed /\ answered \subseteq Promise
  /\ overlapped \in BOOLEAN /\ used \in [Bounds -> Nat]

\* State m is one that the service was in on its way to n: it has the first events
\* of each symbol and the first snapshots, and a portfolio only if n has one.
Within(m, n) ==
  /\ \A s \in Symbols : m.events[s] <= n.events[s]
  /\ m.portfolio # Nil => n.portfolio # Nil
  /\ IsPrefix(m.snapshots, n.snapshots)

\* The file never diverges from memory, although threads replace it in any order.
FileIsPrefix == Within(stored, InMemory)

\* What request a did is in state m.
Has(m, a) ==
  /\ \A s \in Symbols : a.place[s] <= m.events[s]
  /\ a.request = "portfolio" => m.portfolio # Nil
  /\ a.snapshot # 0 => \E i \in DOMAIN m.snapshots : m.snapshots[i].id = a.snapshot

\* As long as no two requests overlap, what was answered is in the file.
AnsweredIsStored == ~overlapped => \A a \in answered : Has(stored, a)

\* State m holds the events that its snapshots were computed from.
Supported(m) ==
  \A i \in DOMAIN m.snapshots : \A s \in Symbols : m.snapshots[i].basis[s] <= m.events[s]

\* As long as no two requests overlap, so does the file.
SnapshotsSupported == ~overlapped => Supported(stored)

\* Snapshots that the ledger has and the file has not.
Missing == {id \in ledger : \A i \in DOMAIN stored.snapshots : stored.snapshots[i].id # id}

\* The ledger runs ahead of the file, for it is written first: as long as no two
\* requests overlap, by one snapshot for each failure and each crash at most, and
\* one in progress.
AuditAhead ==
  ~overlapped => Cardinality(Missing)
    <= used["faults"] + used["crashes"] + Cardinality({w \in Workers : ~At(w, "idle")})

\* Snapshot b has seen every event, of their common positions, that a has.
Covers(b, a) == \A s \in a.positions \intersect b.positions : a.basis[s] <= b.basis[s]

\* GET /risk/latest: as long as no two requests overlap, no earlier snapshot has
\* seen an event that the latest, over the same positions, has not.
LatestIsNewest == ~overlapped => \A i \in DOMAIN snapshots : Covers(Last(snapshots), snapshots[i])

\* What a stored or reported snapshot stands for: it is stored with its events, and
\* none before the latest has seen more.
SnapshotsInOrder == SnapshotsSupported /\ LatestIsNewest

-----------------------------------------------------------------------------
(* The inductive invariant: what the threads in progress are about to do.  *)

\* What thread t has serialised was in memory; whether it has a snapshot.
Faithful(t) ==
  /\ Within(t.dump, InMemory)
  /\ t.pc \in {"idle", "auto", "read"} \/ (t.pc \in Saving /\ t.after = "auto") =>
       t.snapshot = 0
  /\ t.pc = "record" => t.snapshot \in 1..computed

DumpsFaithful == \A w \in Workers : Faithful(th[w])

\* As long as no two requests overlap, what thread t has read or serialised is what
\* memory holds, and what it did is there, and once saved in the file.
Current(t) ==
  /\ t.pc = "read" =>
       \A s \in Symbols : /\ t.basis[s] <= events[s]
                          /\ s \in t.positions \ t.todo => t.basis[s] = events[s]
  /\ t.pc = "dump_events" =>
       t.keys = Tracked /\ \A s \in Tracked \ t.todo : t.dump.events[s] = events[s]
  /\ t.pc \in {"dump_portfolio", "dump_snapshots", "replace"} => t.dump.events = events
  /\ t.pc \in {"dump_snapshots", "replace"} => t.dump.portfolio = portfolio
  /\ t.pc = "replace" => t.dump.snapshots = snapshots
  /\ t.pc # "idle" => Has(InMemory, t)
  /\ t.pc \in {"auto", "answer"} => Has(stored, t)

\* No later snapshot has seen less than an earlier one.
InOrder == \A j \in DOMAIN snapshots : \A i \in 1..j : Covers(snapshots[j], snapshots[i])

\* Without the snapshots in progress, one is missing for each failure and crash.
MissingExplained ==
  Cardinality(Missing \ {th[w].snapshot : w \in Workers}) <= used["faults"] + used["crashes"]

\* What no overlap adds.
SavesInv ==
  ~overlapped =>
    /\ \A v, w \in Workers : (~At(v, "idle") /\ ~At(w, "idle")) => v = w
    /\ \A w \in Workers : Current(th[w])
    /\ Supported(InMemory) /\ Supported(stored) /\ InOrder /\ MissingExplained

\* All of it: the types, that the state file never diverges from memory, how far
\* the ledger is ahead of it, and what the threads in progress do about these.
RiskInv ==
  TypeOK /\ FileIsPrefix /\ AuditAhead /\ DumpsFaithful /\ SavesInv
=============================================================================
