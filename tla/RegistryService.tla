--------------------------- MODULE RegistryService ---------------------------
(***************************************************************************)
(* The registry supernode: the peer table and the hash-chained ledger of   *)
(* InMemoryRegistryStore, the FastAPI handlers that call it, the periodic  *)
(* verifier, and the two JSON files the store rewrites on every change.    *)
(*                                                                         *)
(* Handlers are plain functions, so FastAPI runs each request on a thread  *)
(* of a pool: a request is a process that runs one or two store operations *)
(* with the store's lock released in between.  Inside one operation the    *)
(* store changes memory, replaces peers.json, then replaces ledger.json;   *)
(* the process can die between any two of these, and either save can       *)
(* raise, which releases the lock and answers 500 with memory changed.     *)
(***************************************************************************)
EXTENDS Ledger, SequencesExt

CONSTANTS
  Workers,          \* threads of the request pool
  Verifier,         \* the _periodic_verifier task
  Nobody,           \* the holder of the lock when it is free
  Nodes,            \* node ids
  Contents,         \* what a registration or an appended event says
  Times,            \* readings of the wall clock, which may go back
  MaxRequests,      \* bound: requests accepted
  MaxRuns,          \* bound: verifier runs per process lifetime
  MaxSaveFailures,  \* bound: saves that raise
  MaxCrashes,       \* bound: crashes
  MaxCorruptions    \* bound: blocks of ledger.json damaged while it is at rest

Procs == Workers \union {Verifier}

ASSUME ProcsAssumption ==
  Verifier \notin Workers /\ Nobody \notin Procs

ASSUME BoundsAssumption ==
  /\ MaxRequests \in Nat /\ MaxRuns \in Nat /\ MaxSaveFailures \in Nat
  /\ MaxCrashes \in Nat /\ MaxCorruptions \in Nat

VARIABLES
  up,            \* the registry process runs
  peers,         \* _peers: a function whose domain is the registered node ids
  ledger,        \* _ledger
  lock,          \* holder of _lock
  peersFile,     \* peers.json
  ledgerFile,    \* ledger.json
  pc,            \* where each process stands in its store operation
  op,            \* the store operation it runs
  arg,           \* the argument of that operation
  verification,  \* _verification_state
  used,          \* how much of each bound is spent
  acked,         \* observer: blocks whose request was answered with success
  observed       \* observer: the last answer to GET /ledger/blocks

memory == <<peers, ledger>>
files  == <<peersFile, ledgerFile>>
tasks  == <<pc, op, arg>>
views  == <<acked, observed>>
vars   == <<up, memory, lock, files, tasks, verification, used, views>>

Locations  == {"idle", "enter", "save_peers", "save_ledger"}
Operations == {"upsert", "heartbeat", "append"}
Bounds     == {"requests", "save_failures", "crashes", "corruptions"}

EmptyTable     == << >>
NoVerification == [runs |-> 0, failures |-> 0, last_result |-> None]

\* peers[node_id] = record, on a dict.
SetPeer(table, node, record) ==
  [n \in DOMAIN table \union {node} |-> IF n = node THEN record ELSE table[n]]

PeerRecords == [content : Contents, last_heartbeat : Times]

LedgerAppendRequest(event_type, actor_node, payload) ==
  [event_type |-> event_type, actor_node |-> actor_node, payload |-> payload]

Spend(bound) == used' = [used EXCEPT ![bound] = @ + 1]

-----------------------------------------------------------------------------
Init ==
  /\ up = TRUE
  /\ peers = EmptyTable /\ ledger = << >>
  /\ peersFile = EmptyTable /\ ledgerFile = << >>
  /\ lock = Nobody
  /\ pc = [p \in Procs |-> "idle"]
  /\ op = [p \in Procs |-> "append"]
  /\ arg = [p \in Procs |-> None]
  /\ verification = NoVerification
  /\ used = [b \in Bounds |-> 0]
  /\ acked = {} /\ observed = << >>

-----------------------------------------------------------------------------
(* Requests.                                                               *)

Start(p, operation, argument) ==
  /\ pc[p] = "idle"
  /\ pc' = [pc EXCEPT ![p] = "enter"]
  /\ op' = [op EXCEPT ![p] = operation]
  /\ arg' = [arg EXCEPT ![p] = argument]

Accept(w, operation, argument) ==
  /\ up
  /\ used["requests"] < MaxRequests
  /\ Spend("requests")
  /\ Start(w, operation, argument)
  /\ UNCHANGED <<up, memory, lock, files, verification, views>>

\* Mutant: the handler records the registration before it stores the peer.
RegisterPeer_LedgerFirst(w) ==
  \E n \in Nodes, c \in Contents :
    Accept(w, "append", LedgerAppendRequest("peer_registered", n, c))

\* POST /registry/peers
RegisterPeer(w) ==
  \E n \in Nodes, c \in Contents :
    Accept(w, "upsert", [node_id |-> n, content |-> c])

\* POST /registry/peers/{node_id}/heartbeat.  The body of ServiceRuntime is
\* {}: observed_at is the clock when the request is parsed, before the lock.
PeerHeartbeat(w) ==
  \E n \in Nodes, t \in Times :
    Accept(w, "heartbeat", [node_id |-> n, observed_at |-> t])

\* POST /ledger/blocks
AppendBlock(w) ==
  \E n \in Nodes, c \in Contents :
    Accept(w, "append", LedgerAppendRequest("peer_event", n, c))

-----------------------------------------------------------------------------
(* The critical section of a store operation.                              *)

Enter(p, operation) ==
  /\ pc[p] = "enter" /\ op[p] = operation
  /\ lock = Nobody

Hold(p) ==
  /\ lock' = p
  /\ pc' = [pc EXCEPT ![p] = "save_peers"]

\* upsert_peer; the handler goes on to append what upsert_peer returned.
UpsertPeer(w) ==
  /\ Enter(w, "upsert")
  /\ Hold(w)
  /\ \E t \in Times :
       LET normalized == [content |-> arg[w].content, last_heartbeat |-> t]
       IN  /\ peers' = SetPeer(peers, arg[w].node_id, normalized)
           /\ arg' = [arg EXCEPT ![w] =
                        LedgerAppendRequest("peer_registered", @.node_id, normalized)]
  /\ UNCHANGED <<up, ledger, files, op, verification, used, views>>

\* heartbeat of a registered node.
Heartbeat(w) ==
  /\ Enter(w, "heartbeat")
  /\ arg[w].node_id \in DOMAIN peers
  /\ Hold(w)
  /\ peers' = [peers EXCEPT ![arg[w].node_id].last_heartbeat = arg[w].observed_at]
  /\ arg' = [arg EXCEPT ![w] =
               LedgerAppendRequest("peer_heartbeat", @.node_id, @.observed_at)]
  /\ UNCHANGED <<up, ledger, files, op, verification, used, views>>

\* heartbeat of an unknown node: None, so 404.
HeartbeatUnknown(w) ==
  /\ Enter(w, "heartbeat")
  /\ arg[w].node_id \notin DOMAIN peers
  /\ pc' = [pc EXCEPT ![w] = "idle"]
  /\ UNCHANGED <<up, memory, lock, files, op, arg, verification, used, views>>

\* append_block
AddBlock(p) ==
  /\ Enter(p, "append")
  /\ Hold(p)
  /\ \E t \in Times : ledger' = Append(ledger, NewBlock(ledger, arg[p], t))
  /\ UNCHANGED <<up, peers, files, op, arg, verification, used, views>>

\* _save_state, first half: save_json_file writes a temporary file and renames
\* it over peers.json in one step.
SavePeers(p) ==
  /\ pc[p] = "save_peers"
  /\ peersFile' = peers
  /\ pc' = [pc EXCEPT ![p] = "save_ledger"]
  /\ UNCHANGED <<up, memory, lock, ledgerFile, op, arg, verification, used, views>>

\* _save_state, second half; the lock is released, and the handler either goes
\* on to record the operation or answers with the block it appended.
SaveLedger(p) ==
  /\ pc[p] = "save_ledger"
  /\ ledgerFile' = ledger
  /\ lock' = Nobody
  /\ IF op[p] = "append"
     THEN /\ pc' = [pc EXCEPT ![p] = "idle"]
          /\ acked' = IF p = Verifier THEN acked ELSE acked \union {Last(ledger)}
          /\ UNCHANGED op
     ELSE /\ pc' = [pc EXCEPT ![p] = "enter"]
          /\ op' = [op EXCEPT ![p] = "append"]
          /\ UNCHANGED acked
  /\ UNCHANGED <<up, memory, peersFile, arg, verification, used, observed>>

\* Mutant: the failed save leaves the lock taken (acquire without a with block).
SaveFails_KeepsLock(p) ==
  /\ pc[p] \in {"save_peers", "save_ledger"}
  /\ used["save_failures"] < MaxSaveFailures
  /\ Spend("save_failures")
  /\ pc' = [pc EXCEPT ![p] = "idle"]
  /\ UNCHANGED <<up, memory, lock, files, op, arg, verification, views>>

\* Mutant: the save swallows its exception and the handler answers as usual.
SaveFails_Swallowed(p) ==
  /\ pc[p] = "save_ledger" /\ op[p] = "append" /\ p # Verifier
  /\ used["save_failures"] < MaxSaveFailures
  /\ Spend("save_failures")
  /\ lock' = Nobody
  /\ pc' = [pc EXCEPT ![p] = "idle"]
  /\ acked' = acked \union {Last(ledger)}
  /\ UNCHANGED <<up, memory, files, op, arg, verification, observed>>

\* One of the two saves raises (disk full, permission): the with block releases
\* the lock and the request fails, or the verifier's loop logs and goes on.
\* What the operation changed in memory stays changed.
SaveFails(p) ==
  /\ pc[p] \in {"save_peers", "save_ledger"}
  /\ used["save_failures"] < MaxSaveFailures
  /\ Spend("save_failures")
  /\ lock' = Nobody
  /\ pc' = [pc EXCEPT ![p] = "idle"]
  /\ UNCHANGED <<up, memory, files, op, arg, verification, views>>

-----------------------------------------------------------------------------
(* Reading and verifying.                                                  *)

\* Mutant: the list is read without the lock.
ListBlocks_Unlocked ==
  /\ up
  /\ observed' = ledger
  /\ UNCHANGED <<up, memory, lock, files, tasks, verification, used, acked>>

\* GET /ledger/blocks
ListBlocks ==
  /\ up /\ lock = Nobody
  /\ observed' = ledger
  /\ UNCHANGED <<up, memory, lock, files, tasks, verification, used, acked>>

\* Mutant: a failed verification is counted and not recorded.
Verify_CountsOnly ==
  /\ up /\ lock = Nobody
  /\ pc[Verifier] = "idle"
  /\ verification.runs < MaxRuns
  /\ LET result == VerifyLedger(ledger)
     IN  verification' =
           [runs        |-> verification.runs + 1,
            failures    |-> verification.failures + (IF result.valid THEN 0 ELSE 1),
            last_result |-> result]
  /\ UNCHANGED <<up, memory, lock, files, tasks, used, views>>

\* One turn of _periodic_verifier up to append_block, which takes the lock anew.
Verify ==
  /\ up /\ lock = Nobody
  /\ pc[Verifier] = "idle"
  /\ verification.runs < MaxRuns
  /\ LET result == VerifyLedger(ledger)
     IN  /\ verification' =
              [runs        |-> verification.runs + 1,
               failures    |-> verification.failures + (IF result.valid THEN 0 ELSE 1),
               last_result |-> result]
         /\ IF result.valid
            THEN UNCHANGED tasks
            ELSE Start(Verifier, "append",
                       LedgerAppendRequest("ledger_verification_failed",
                                           "registry_service",
                                           <<result.error, result.block_count>>))
  /\ UNCHANGED <<up, memory, lock, files, used, views>>

-----------------------------------------------------------------------------
(* Crash and restart.  What the process held in memory is gone; a renamed   *)
(* file is either the old one or the new one.                               *)

Crash ==
  /\ up
  /\ used["crashes"] < MaxCrashes
  /\ Spend("crashes")
  /\ up' = FALSE
  /\ peers' = EmptyTable /\ ledger' = << >>
  /\ lock' = Nobody
  /\ pc' = [p \in Procs |-> "idle"]
  /\ verification' = NoVerification
  /\ UNCHANGED <<files, op, arg, views>>

\* _load_state at import
Restart ==
  /\ ~up
  /\ up' = TRUE
  /\ peers' = peersFile /\ ledger' = ledgerFile
  /\ UNCHANGED <<lock, files, tasks, verification, used, views>>

\* A value no hash function returns.
Tampered == <<"tampered">>

\* A field of a stored block changes while the registry is stopped.
CorruptFile ==
  /\ ~up
  /\ used["corruptions"] < MaxCorruptions
  /\ Spend("corruptions")
  /\ \E i \in 1..Len(ledgerFile),
        f \in {"payload_hash", "previous_hash", "block_hash"} :
       ledgerFile' = [ledgerFile EXCEPT ![i] = [@ EXCEPT ![f] = Tampered]]
  /\ UNCHANGED <<up, memory, lock, peersFile, tasks, verification, views>>

corrupted == used["corruptions"] > 0

-----------------------------------------------------------------------------
StoreStep(p) == AddBlock(p) \/ SavePeers(p) \/ SaveLedger(p) \/ SaveFails(p)

WorkerStep(w) ==
  \/ UpsertPeer(w) \/ Heartbeat(w) \/ HeartbeatUnknown(w) \/ StoreStep(w)

Request(w) == RegisterPeer(w) \/ PeerHeartbeat(w) \/ AppendBlock(w)

Next ==
  \/ \E w \in Workers : Request(w) \/ WorkerStep(w)
  \/ StoreStep(Verifier)
  \/ ListBlocks
  \/ Verify
  \/ Crash
  \/ Restart
  \/ CorruptFile

\* A thread that can run runs, the verifier's timer fires and the supervisor
\* restarts a stopped process.  Nothing is assumed of clients or of failures.
Fairness ==
  /\ \A w \in Workers : WF_vars(WorkerStep(w))
  /\ WF_vars(StoreStep(Verifier))
  /\ WF_vars(Verify)
  /\ WF_vars(Restart)

Spec == Init /\ [][Next]_vars

FairSpec == Spec /\ Fairness

-----------------------------------------------------------------------------
(* Properties.                                                             *)

BlockFields == {"block_id", "timestamp", "event_type", "actor_node",
                "payload_hash", "previous_hash", "block_hash"}

IsBlockSeq(s) ==
  /\ s \in Seq(ToSet(s))
  /\ \A i \in 1..Len(s) : DOMAIN s[i] = BlockFields /\ s[i].block_id = i

\* Type invariant: the tables map node ids to peer records, the ledgers are
\* sequences of blocks numbered by their position (block_id = len + 1).
TypeOK ==
  /\ up \in BOOLEAN
  /\ DOMAIN peers \subseteq Nodes /\ peers \in [DOMAIN peers -> PeerRecords]
  /\ DOMAIN peersFile \subseteq Nodes
  /\ peersFile \in [DOMAIN peersFile -> PeerRecords]
  /\ IsBlockSeq(ledger) /\ IsBlockSeq(ledgerFile)
  /\ lock \in Procs \union {Nobody}
  /\ pc \in [Procs -> Locations]
  /\ op \in [Procs -> Operations] /\ DOMAIN arg = Procs
  /\ used \in [Bounds -> Nat] /\ used["corruptions"] <= MaxCorruptions
  /\ verification.runs \in Nat /\ verification.failures \in Nat

\* Mutual exclusion of the store: only the holder of _lock is inside an
\* operation, and a holder always is (no failed save leaks the lock).
LockHeld ==
  \A p \in Procs : lock = p <=> pc[p] \in {"save_peers", "save_ledger"}

\* The file never gets ahead of memory nor diverges from it: what _save_state
\* failed to write is a suffix that a later save completes.
FilePrefix == up => IsPrefix(ledgerFile, ledger)

\* verify_ledger reports a damaged chain and only a damaged one, however many
\* blocks were chained on top of the damage and whatever crashed in between.
VerifyExact ==
  /\ VerifyLedger(ledgerFile).valid <=> ~corrupted
  /\ up => (VerifyLedger(ledger).valid <=> ~corrupted)

\* A block answered to a client survives every crash, at its own block_id.
AckedDurable ==
  ~corrupted =>
    \A b \in acked : b.block_id \in DOMAIN ledgerFile /\ ledgerFile[b.block_id] = b

\* The audit trail names only peers that the peer table on disk knows: the
\* handler saves the peer before it appends the peer_registered block.
AuditedPeersAreDurable ==
  \A i \in 1..Len(ledgerFile) :
    ledgerFile[i].event_type = "peer_registered" =>
      ledgerFile[i].actor_node \in DOMAIN peersFile

\* The ledger on disk is append-only, across crashes and failed saves.
DurableAppendOnly == [][corrupted' \/ IsPrefix(ledgerFile, ledgerFile')]_vars

\* The ledger that readers are served is append-only as long as no save fails.
ObservedAppendOnlyUnlessSaveFails ==
  [][corrupted' \/ used'["save_failures"] > 0 \/ IsPrefix(observed, observed')]_vars

\* Every request is answered: nobody waits for the lock for ever.
RequestsAnswered == \A p \in Procs : pc[p] # "idle" ~> pc[p] = "idle"

Reported ==
  \E i \in 1..Len(ledger) : ledger[i].event_type = "ledger_verification_failed"

\* A damaged ledger that is served gets a ledger_verification_failed block
\* while the process lives, as long as the verifier has a run left.
CorruptionReported ==
  (up /\ corrupted /\ verification.runs < MaxRuns) ~> (Reported \/ ~up)

-----------------------------------------------------------------------------
(* The registry implements the durable log: ledger.json is the log.        *)

Log == INSTANCE DurableLog WITH log <- ledgerFile, damaged <- corrupted

\* Whatever threads, failed saves and crashes do, the ledger on disk behaves as
\* an append-only chained log that holds every acknowledged block; damage to it
\* changes blocks in place and shows in the chain for ever.
ImplementsDurableLog == Log!Spec

-----------------------------------------------------------------------------
(* The inductive invariant behind the proofs, conjunct by conjunct.        *)

Saving == {"save_peers", "save_ledger"}

\* A stopped process runs nothing; its lists are empty until _load_state.
StoppedIdle == ~up => ledger = << >> /\ \A p \in Procs : pc[p] = "idle"

\* What a process brings to the store operation it waits for.
ArgOK ==
  \A p \in Procs :
    /\ (pc[p] = "enter" /\ op[p] = "upsert") =>
         arg[p] \in [node_id : Nodes, content : Contents]
    /\ (pc[p] = "enter" /\ op[p] = "heartbeat") =>
         arg[p] \in [node_id : Nodes, observed_at : Times]

\* The block of an append in progress is in memory and not yet on disk.
AppendInProgress ==
  \A p \in Procs :
    (pc[p] \in Saving /\ op[p] = "append") => Len(ledgerFile) < Len(ledger)

\* The table on disk names no peer that memory does not.
PeersOnDisk == up => DOMAIN peersFile \subseteq DOMAIN peers

\* A registration on its way to its audit record is in the table, and on disk
\* from the moment upsert_peer has saved the peers.
RegistrationInFlight ==
  \A p \in Procs :
    (/\ pc[p] \in Saving \/ (pc[p] = "enter" /\ op[p] = "append")
     /\ arg[p].event_type = "peer_registered") =>
       arg[p].actor_node \in
         DOMAIN (IF pc[p] = "save_peers" /\ op[p] = "upsert" THEN peers ELSE peersFile)

\* The same of the blocks in memory that a failed save kept off the disk.
AuditedInMemory ==
  \A i \in 1..Len(ledger) :
    ledger[i].event_type = "peer_registered" =>
      ledger[i].actor_node \in DOMAIN peersFile

\* A stored hash is a damaged value or the hash of a block that was not.
SealedHashes(s) ==
  \A i \in 1..Len(s) :
    LET h == s[i].block_hash
    IN  h = Tampered \/ (h = hash_json(h[2]) /\ h[2].payload_hash # Tampered)

\* Damage on disk is never out of the walk's sight, and nothing else is broken.
ChainOK ==
  /\ SealedHashes(ledger) /\ SealedHashes(ledgerFile)
  /\ Broken(ledgerFile) = {} <=> ~corrupted
  /\ ~corrupted => Broken(ledger) = {}

\* The inductive invariant: everything above together.
IndInv ==
  /\ TypeOK /\ LockHeld /\ StoppedIdle /\ ArgOK
  /\ AppendInProgress /\ FilePrefix /\ ChainOK /\ AckedDurable
  /\ PeersOnDisk /\ RegistrationInFlight /\ AuditedInMemory /\ AuditedPeersAreDurable

\* What readers were served is on disk, and so is what they can be served next: unless a
\* save failed, memory is ahead of the file only while the lock is held.
ServedFromDisk ==
  /\ observed \in Seq(ToSet(observed))
  /\ ~corrupted /\ used["save_failures"] = 0 =>
       /\ IsPrefix(observed, ledgerFile)
       /\ up /\ lock = Nobody => ledger = ledgerFile

RegistryInv == IndInv /\ ServedFromDisk
=============================================================================
