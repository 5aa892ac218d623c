--------------------------- MODULE RegistryProofs ---------------------------
(***************************************************************************)
(* Proofs about the registry: the inductive invariant IndInv of            *)
(* RegistryService and what follows from it, for any number of threads,    *)
(* nodes, requests, failed saves, crashes and damaged blocks.              *)
(***************************************************************************)
EXTENDS RegistryService, TLAPS

-----------------------------------------------------------------------------
(* Sequences whose elements have no common type.                           *)

\* A sequence is a sequence over its own elements, so a type can be left out.
LEMMA SeqOfOwnElements ==
  ASSUME NEW S, NEW s \in Seq(S)
  PROVE  s \in Seq(ToSet(s))
  BY DEF ToSet

\* What Append returns, for a sequence of whatever elements.
LEMMA AppendFacts ==
  ASSUME NEW s, s \in Seq(ToSet(s)), NEW e
  PROVE  /\ Append(s, e) \in Seq(ToSet(Append(s, e)))
         /\ Len(s) \in Nat
         /\ Len(Append(s, e)) = Len(s) + 1
         /\ \A i \in 1..Len(s) : Append(s, e)[i] = s[i]
         /\ Append(s, e)[Len(s) + 1] = e
<1> DEFINE S == ToSet(s) \union {e}
<1>1. s \in Seq(S)
  OBVIOUS
<1>2. e \in S
  OBVIOUS
<1>3. Append(s, e) \in Seq(S)
  BY <1>1, <1>2
<1>4. Append(s, e) \in Seq(ToSet(Append(s, e)))
  BY <1>3, SeqOfOwnElements
<1> QED
  BY <1>1, <1>2, <1>4

\* IsPrefix, element by element.
LEMMA PrefixFacts ==
  ASSUME NEW s, s \in Seq(ToSet(s)), NEW t, t \in Seq(ToSet(t))
  PROVE  IsPrefix(s, t) <=> /\ Len(s) <= Len(t)
                            /\ \A i \in 1..Len(s) : s[i] = t[i]
<1> DEFINE S == ToSet(s) \union ToSet(t)
<1>1. s \in Seq(S) /\ t \in Seq(S)
  OBVIOUS
<1> HIDE DEF S
<1>2. Len(s) \in Nat /\ Len(t) \in Nat
  BY <1>1
<1>3. ASSUME Len(s) <= Len(t)
      PROVE  /\ SubSeq(t, 1, Len(s)) = [i \in 1..Len(s) |-> t[i]]
             /\ SubSeq(s, 1, Len(s)) = [i \in 1..Len(s) |-> s[i]]
  BY <1>1, <1>2, <1>3
<1> QED
  BY <1>1, <1>2, <1>3 DEF IsPrefix

-----------------------------------------------------------------------------
(* The chain.                                                              *)

\* verify_ledger answers valid exactly when no block is broken.
LEMMA VerifyIsWalk ==
  ASSUME NEW s
  PROVE  VerifyLedger(s).valid <=> Broken(s) = {}
  BY DEF VerifyLedger

\* The block append_block seals: numbered by its position, linked to the last
\* one, hashed over its own fields.
LEMMA NewBlockFacts ==
  ASSUME NEW s, NEW request, NEW now
  PROVE  LET b == NewBlock(s, request, now)
         IN  /\ DOMAIN b = BlockFields
             /\ b.block_id = Len(s) + 1
             /\ b.event_type = request.event_type
             /\ b.actor_node = request.actor_node
             /\ b.previous_hash = PreviousHash(s, Len(s) + 1)
             /\ b.block_hash = ComputeBlockHash(b)
             /\ b.block_hash = hash_json(b.block_hash[2])
             /\ b.block_hash[2].payload_hash = hash_json(request.payload)
<1> DEFINE u == [block_id      |-> Len(s) + 1,
                  timestamp     |-> now,
                  event_type    |-> request.event_type,
                  actor_node    |-> request.actor_node,
                  payload_hash  |-> hash_json(request.payload),
                  previous_hash |-> PreviousHash(s, Len(s) + 1),
                  block_hash    |-> None]
           b == [u EXCEPT !.block_hash = ComputeBlockHash(u)]
<1>1. NewBlock(s, request, now) = b
  BY DEF NewBlock, SealBlock
<1>2. /\ DOMAIN u = BlockFields
      /\ u.block_id = Len(s) + 1
      /\ u.event_type = request.event_type
      /\ u.actor_node = request.actor_node
      /\ u.payload_hash = hash_json(request.payload)
      /\ u.previous_hash = PreviousHash(s, Len(s) + 1)
  BY DEF BlockFields
<1> HIDE DEF u
<1>3. /\ DOMAIN b = BlockFields
      /\ b.block_hash = ComputeBlockHash(u)
      /\ \A g \in BlockFields \ {"block_hash"} : b[g] = u[g]
  BY <1>2 DEF BlockFields
<1> HIDE DEF b
<1>4. /\ b.block_id = u.block_id /\ b.timestamp = u.timestamp
      /\ b.event_type = u.event_type /\ b.actor_node = u.actor_node
      /\ b.payload_hash = u.payload_hash /\ b.previous_hash = u.previous_hash
  BY <1>3 DEF BlockFields
<1>5. ComputeBlockHash(b) = ComputeBlockHash(u)
  BY <1>4 DEF ComputeBlockHash
<1>6. /\ ComputeBlockHash(u) = hash_json(ComputeBlockHash(u)[2])
      /\ ComputeBlockHash(u)[2].payload_hash = u.payload_hash
  BY DEF ComputeBlockHash, hash_json
<1> QED
  BY <1>1, <1>2, <1>3, <1>4, <1>5, <1>6

\* No hash is the damaged value.
LEMMA HashNotTampered ==
  ASSUME NEW v
  PROVE  hash_json(v) # Tampered
  BY DEF hash_json, Tampered

\* Nor is the missing predecessor of the first block.
LEMMA NoneNotTampered == None # Tampered
<1>1. Len(None) = 0 /\ Len(Tampered) = 1
  BY DEF None, Tampered
<1> QED
  BY <1>1

\* Appending breaks no block and mends none.
LEMMA AppendKeepsBroken ==
  ASSUME NEW s, IsBlockSeq(s), NEW request, NEW now
  PROVE  LET t == Append(s, NewBlock(s, request, now))
         IN  /\ IsBlockSeq(t)
             /\ Broken(t) = Broken(s)
             /\ SealedHashes(s) => SealedHashes(t)
<1> DEFINE b == NewBlock(s, request, now)
           t == Append(s, b)
<1>1. /\ DOMAIN b = BlockFields
      /\ b.block_id = Len(s) + 1
      /\ b.previous_hash = PreviousHash(s, Len(s) + 1)
      /\ b.block_hash = ComputeBlockHash(b)
      /\ b.block_hash = hash_json(b.block_hash[2])
      /\ b.block_hash[2].payload_hash # Tampered
  BY NewBlockFacts, HashNotTampered
<1> HIDE DEF b
<1>2. /\ t \in Seq(ToSet(t))
      /\ Len(s) \in Nat
      /\ Len(t) = Len(s) + 1
      /\ \A i \in 1..Len(s) : t[i] = s[i]
      /\ t[Len(s) + 1] = b
  BY AppendFacts DEF IsBlockSeq
<1> HIDE DEF t
<1>3. IsBlockSeq(t)
  BY <1>1, <1>2 DEF IsBlockSeq
<1>4. \A i \in 1..Len(s) : LinkBroken(t, i) <=> LinkBroken(s, i)
  BY <1>2 DEF LinkBroken, PreviousHash
<1>5. \A i \in 1..Len(s) : HashBroken(t, i) <=> HashBroken(s, i)
  BY <1>2 DEF HashBroken
<1>6. ~LinkBroken(t, Len(s) + 1)
  BY <1>1, <1>2 DEF LinkBroken, PreviousHash
<1>7. ~HashBroken(t, Len(s) + 1)
  BY <1>1, <1>2 DEF HashBroken
<1>8. Broken(t) = Broken(s)
  BY <1>2, <1>4, <1>5, <1>6, <1>7 DEF Broken
<1>9. SealedHashes(s) => SealedHashes(t)
  BY <1>1, <1>2 DEF SealedHashes
<1> QED
  BY <1>3, <1>8, <1>9 DEF t, b

\* A prefix of a chain keeps the broken blocks it has.
LEMMA PrefixKeepsBroken ==
  ASSUME NEW s, IsBlockSeq(s), NEW t, IsBlockSeq(t), IsPrefix(s, t), Broken(s) # {}
  PROVE  Broken(t) # {}
<1>1. /\ Len(s) \in Nat /\ Len(t) \in Nat /\ Len(s) <= Len(t)
      /\ \A i \in 1..Len(s) : s[i] = t[i]
  BY PrefixFacts DEF IsBlockSeq
<1>2. PICK i \in 1..Len(s) : LinkBroken(s, i) \/ HashBroken(s, i)
  BY DEF Broken
<1>3. i \in 1..Len(t) /\ (LinkBroken(t, i) \/ HashBroken(t, i))
  BY <1>1, <1>2 DEF LinkBroken, HashBroken, PreviousHash
<1> QED
  BY <1>3 DEF Broken

\* Damaging one field of one block leaves a block that the walk rejects.
LEMMA DamageIsSeen ==
  ASSUME NEW s, IsBlockSeq(s), SealedHashes(s),
         NEW k \in 1..Len(s),
         NEW f \in {"payload_hash", "previous_hash", "block_hash"}
  PROVE  LET t == [s EXCEPT ![k] = [@ EXCEPT ![f] = Tampered]]
         IN  IsBlockSeq(t) /\ SealedHashes(t) /\ Broken(t) # {}
<1> DEFINE b == [s[k] EXCEPT ![f] = Tampered]
           t == [s EXCEPT ![k] = b]
           S == ToSet(s) \union {b}
<1>1. s \in Seq(S) /\ b \in S
  BY DEF IsBlockSeq
<1>2. DOMAIN b = BlockFields /\ b[f] = Tampered /\ b.block_id = k
      /\ \A g \in BlockFields \ {f} : b[g] = s[k][g]
  BY DEF IsBlockSeq, BlockFields
<1> HIDE DEF b, S
<1>3. /\ t \in Seq(S)
      /\ Len(t) = Len(s) /\ Len(s) \in Nat
      /\ t[k] = b
      /\ \A i \in 1..Len(s) : i # k => t[i] = s[i]
  BY <1>1
<1>4. t \in Seq(ToSet(t))
  BY <1>3, SeqOfOwnElements
<1> HIDE DEF t
<1>5. IsBlockSeq(t)
  BY <1>2, <1>3, <1>4 DEF IsBlockSeq
<1>6. CASE f = "block_hash"
  <2>1. b.block_hash = Tampered
    BY <1>2, <1>6
  <2>2. HashBroken(t, k)
    BY <2>1, <1>3, HashNotTampered DEF HashBroken, ComputeBlockHash
  <2>3. SealedHashes(t)
    BY <2>1, <1>3 DEF SealedHashes
  <2> QED
    BY <2>2, <2>3, <1>3, <1>5 DEF Broken, t, b
<1>7. CASE f = "payload_hash"
  <2>1. b.payload_hash = Tampered /\ b.block_hash = s[k].block_hash
    BY <1>2, <1>7 DEF BlockFields
  <2>2. b.block_hash = Tampered
        \/ (b.block_hash = hash_json(b.block_hash[2]) /\ b.block_hash[2].payload_hash # Tampered)
    BY <2>1 DEF SealedHashes
  <2>3. ComputeBlockHash(b) # Tampered /\ ComputeBlockHash(b)[2].payload_hash = Tampered
    BY <2>1, HashNotTampered DEF ComputeBlockHash, hash_json
  <2>4. HashBroken(t, k)
    BY <2>2, <2>3, <1>3 DEF HashBroken
  <2>5. SealedHashes(t)
    BY <2>2, <1>3 DEF SealedHashes
  <2> QED
    BY <2>4, <2>5, <1>3, <1>5 DEF Broken, t, b
<1>8. CASE f = "previous_hash"
  <2>1. b.previous_hash = Tampered /\ b.block_hash = s[k].block_hash
    BY <1>2, <1>8 DEF BlockFields
  <2>2. SealedHashes(t)
    BY <2>1, <1>3 DEF SealedHashes
  <2>3. CASE k = 1
    <3>1. LinkBroken(t, k)
      BY <2>1, <2>3, <1>3, NoneNotTampered DEF LinkBroken, PreviousHash
    <3> QED
      BY <3>1, <2>2, <1>3, <1>5 DEF Broken, t, b
  <2>4. CASE k # 1 /\ t[k - 1].block_hash # Tampered
    <3>1. LinkBroken(t, k)
      BY <2>1, <2>4, <1>3 DEF LinkBroken, PreviousHash
    <3> QED
      BY <3>1, <2>2, <1>3, <1>5 DEF Broken, t, b
  <2>5. CASE k # 1 /\ t[k - 1].block_hash = Tampered
    <3>1. HashBroken(t, k - 1) /\ k - 1 \in 1..Len(t)
      BY <2>5, <1>3, HashNotTampered DEF HashBroken, ComputeBlockHash
    <3> QED
      BY <3>1, <2>2, <1>3, <1>5 DEF Broken, t, b
  <2> QED
    BY <2>3, <2>4, <2>5
<1> QED
  BY <1>6, <1>7, <1>8

-----------------------------------------------------------------------------
(* The invariant holds initially.                                          *)

\* The empty ledger is a chain with nothing broken.
LEMMA EmptyLedger ==
  IsBlockSeq(<< >>) /\ SealedHashes(<< >>) /\ Broken(<< >>) = {}
  BY DEF IsBlockSeq, SealedHashes, Broken, ToSet

\* The state a registry starts from on an empty disk.
LEMMA InitIndInv == Init => IndInv
<1> SUFFICES ASSUME Init PROVE IndInv
  OBVIOUS
<1>1. TypeOK
  BY EmptyLedger, ProcsAssumption, BoundsAssumption
     DEF Init, TypeOK, EmptyTable, NoVerification, Locations, Operations, Bounds
<1>2. LockHeld /\ StoppedIdle /\ ArgOK /\ AppendInProgress
  BY ProcsAssumption DEF Init, LockHeld, StoppedIdle, ArgOK, AppendInProgress, Saving
<1>3. FilePrefix
  BY DEF Init, FilePrefix, IsPrefix
<1>4. ChainOK /\ AckedDurable
  BY EmptyLedger DEF Init, ChainOK, AckedDurable, corrupted, Bounds
<1>5. PeersOnDisk /\ RegistrationInFlight
  BY DEF Init, PeersOnDisk, RegistrationInFlight, Saving
<1>6. AuditedInMemory /\ AuditedPeersAreDurable
  BY DEF Init, AuditedInMemory, AuditedPeersAreDurable
<1> QED
  BY <1>1, <1>2, <1>3, <1>4, <1>5, <1>6 DEF IndInv

-----------------------------------------------------------------------------
(* One lemma per kind of step.                                             *)

LedgersUnchanged == UNCHANGED <<ledger, ledgerFile, acked, up>> /\ corrupted' = corrupted

\* A step that leaves both ledgers alone keeps what is said of them.
LEMMA LedgersKept ==
  ASSUME IndInv, LedgersUnchanged
  PROVE  FilePrefix' /\ ChainOK' /\ AckedDurable'
  BY DEF IndInv, LedgersUnchanged, FilePrefix, ChainOK, AckedDurable

\* Accepting a request starts a process and touches nothing it shares.
LEMMA RequestInv ==
  ASSUME IndInv, NEW w \in Workers, Request(w)
  PROVE  IndInv'
<1> USE DEF IndInv, memory, files, views
<1> DEFINE Brings(operation, argument) ==
             /\ Accept(w, operation, argument)
             /\ operation \in Operations
             /\ operation = "upsert" => argument \in [node_id : Nodes, content : Contents]
             /\ operation = "heartbeat" => argument \in [node_id : Nodes, observed_at : Times]
             /\ operation = "append" => argument.event_type # "peer_registered"
<1>0. \E operation, argument : Brings(operation, argument)
  <2>1. CASE RegisterPeer(w)
    <3>1. PICK n \in Nodes, c \in Contents : Accept(w, "upsert", [node_id |-> n, content |-> c])
      BY <2>1 DEF RegisterPeer
    <3>2. Brings("upsert", [node_id |-> n, content |-> c])
      BY <3>1 DEF Operations
    <3> QED
      BY <3>2
  <2>2. CASE PeerHeartbeat(w)
    <3>1. PICK n \in Nodes, t \in Times : Accept(w, "heartbeat", [node_id |-> n, observed_at |-> t])
      BY <2>2 DEF PeerHeartbeat
    <3>2. Brings("heartbeat", [node_id |-> n, observed_at |-> t])
      BY <3>1 DEF Operations
    <3> QED
      BY <3>2
  <2>3. CASE AppendBlock(w)
    <3>1. PICK n \in Nodes, c \in Contents :
            Accept(w, "append", LedgerAppendRequest("peer_event", n, c))
      BY <2>3 DEF AppendBlock
    <3>2. Brings("append", LedgerAppendRequest("peer_event", n, c))
      BY <3>1 DEF Operations, LedgerAppendRequest
    <3> QED
      BY <3>2
  <2> QED
    BY <2>1, <2>2, <2>3 DEF Request
<1>1. PICK operation, argument : Brings(operation, argument)
  BY <1>0
<1>2. /\ up /\ pc[w] = "idle" /\ w \in Procs
      /\ pc' = [pc EXCEPT ![w] = "enter"]
      /\ op' = [op EXCEPT ![w] = operation]
      /\ arg' = [arg EXCEPT ![w] = argument]
      /\ used' = [used EXCEPT !["requests"] = @ + 1]
      /\ UNCHANGED <<up, peers, ledger, lock, peersFile, ledgerFile, verification, acked>>
  BY <1>1 DEF Accept, Start, Spend, Procs
<1>3. TypeOK'
  BY <1>1, <1>2 DEF TypeOK, Locations, Operations, Bounds
<1>4. LedgersUnchanged
  BY <1>2 DEF LedgersUnchanged, corrupted, TypeOK, Bounds
<1>5. LockHeld' /\ StoppedIdle' /\ AppendInProgress' /\ PeersOnDisk'
  BY <1>2 DEF LockHeld, StoppedIdle, AppendInProgress, PeersOnDisk, TypeOK, Saving, Locations
<1>6. ArgOK'
  BY <1>1, <1>2 DEF ArgOK, TypeOK
<1>7. RegistrationInFlight'
  BY <1>1, <1>2 DEF RegistrationInFlight, TypeOK, Saving, Locations
<1>8. AuditedInMemory' /\ AuditedPeersAreDurable'
  BY <1>2 DEF AuditedInMemory, AuditedPeersAreDurable
<1> QED
  BY <1>3, <1>4, <1>5, <1>6, <1>7, <1>8, LedgersKept

\* upsert_peer takes the free lock and changes the table in memory.
LEMMA UpsertPeerInv ==
  ASSUME IndInv, NEW w \in Workers, UpsertPeer(w)
  PROVE  IndInv'
<1> USE DEF IndInv, memory, files, views
<1>1. PICK t \in Times :
        LET normalized == [content |-> arg[w].content, last_heartbeat |-> t]
        IN  /\ peers' = SetPeer(peers, arg[w].node_id, normalized)
            /\ arg' = [arg EXCEPT ![w] =
                         LedgerAppendRequest("peer_registered", @.node_id, normalized)]
  BY DEF UpsertPeer
<1> DEFINE n == arg[w].node_id
<1>2. /\ w \in Procs /\ lock = Nobody /\ lock' = w
      /\ pc[w] = "enter" /\ op[w] = "upsert"
      /\ pc' = [pc EXCEPT ![w] = "save_peers"]
      /\ UNCHANGED <<up, ledger, peersFile, ledgerFile, op, verification, used, acked>>
  BY DEF UpsertPeer, Enter, Hold, Procs
<1>3. n \in Nodes /\ arg[w].content \in Contents
  BY <1>2 DEF ArgOK
<1>4. /\ DOMAIN peers' = DOMAIN peers \union {n}
      /\ peers' \in [DOMAIN peers' -> PeerRecords]
  BY <1>1, <1>3 DEF SetPeer, TypeOK, PeerRecords
<1>5. /\ DOMAIN arg' = Procs
      /\ arg'[w].event_type = "peer_registered" /\ arg'[w].actor_node = n
      /\ \A p \in Procs \ {w} : arg'[p] = arg[p]
  BY <1>1, <1>2 DEF LedgerAppendRequest, TypeOK
<1>6. TypeOK'
  BY <1>2, <1>3, <1>4, <1>5 DEF TypeOK, Locations
<1>7. LedgersUnchanged
  BY <1>2 DEF LedgersUnchanged, corrupted
<1>8. LockHeld' /\ StoppedIdle'
  BY <1>2, ProcsAssumption DEF LockHeld, StoppedIdle, TypeOK
<1>9. ArgOK' /\ AppendInProgress'
  BY <1>2, <1>5 DEF ArgOK, AppendInProgress, TypeOK, Saving
<1>10. PeersOnDisk'
  BY <1>2, <1>4 DEF PeersOnDisk
<1>11. RegistrationInFlight'
  BY <1>2, <1>4, <1>5 DEF RegistrationInFlight, LockHeld, TypeOK, Saving
<1>12. AuditedInMemory' /\ AuditedPeersAreDurable'
  BY <1>2 DEF AuditedInMemory, AuditedPeersAreDurable
<1> QED
  BY <1>6, <1>7, <1>8, <1>9, <1>10, <1>11, <1>12, LedgersKept

\* heartbeat of a known peer: one field of the table in memory changes.
LEMMA HeartbeatInv ==
  ASSUME IndInv, NEW w \in Workers, Heartbeat(w)
  PROVE  IndInv'
<1> USE DEF IndInv, memory, files, views
<1> DEFINE n == arg[w].node_id
<1>2. /\ w \in Procs /\ lock = Nobody /\ lock' = w
      /\ pc[w] = "enter" /\ op[w] = "heartbeat" /\ n \in DOMAIN peers
      /\ pc' = [pc EXCEPT ![w] = "save_peers"]
      /\ peers' = [peers EXCEPT ![n].last_heartbeat = arg[w].observed_at]
      /\ UNCHANGED <<up, ledger, peersFile, ledgerFile, op, verification, used, acked>>
  BY DEF Heartbeat, Enter, Hold, Procs
<1>3. arg[w].observed_at \in Times
  BY <1>2 DEF ArgOK
<1>4. DOMAIN peers' = DOMAIN peers /\ peers' \in [DOMAIN peers' -> PeerRecords]
  BY <1>2, <1>3 DEF TypeOK, PeerRecords
<1>5. /\ DOMAIN arg' = Procs
      /\ arg'[w].event_type = "peer_heartbeat"
      /\ \A p \in Procs \ {w} : arg'[p] = arg[p]
  BY <1>2 DEF Heartbeat, LedgerAppendRequest, TypeOK
<1>6. TypeOK'
  BY <1>2, <1>4, <1>5 DEF TypeOK, Locations
<1>7. LedgersUnchanged
  BY <1>2 DEF LedgersUnchanged, corrupted
<1>8. LockHeld' /\ StoppedIdle'
  BY <1>2, ProcsAssumption DEF LockHeld, StoppedIdle, TypeOK
<1>9. ArgOK' /\ AppendInProgress'
  BY <1>2, <1>5 DEF ArgOK, AppendInProgress, TypeOK, Saving
<1>10. PeersOnDisk'
  BY <1>2, <1>4 DEF PeersOnDisk
<1>11. RegistrationInFlight'
  BY <1>2, <1>4, <1>5 DEF RegistrationInFlight, LockHeld, TypeOK, Saving
<1>12. AuditedInMemory' /\ AuditedPeersAreDurable'
  BY <1>2 DEF AuditedInMemory, AuditedPeersAreDurable
<1> QED
  BY <1>6, <1>7, <1>8, <1>9, <1>10, <1>11, <1>12, LedgersKept

\* heartbeat of an unknown peer, and a save that raises: the process leaves.
LEMMA LeaveInv ==
  ASSUME IndInv, NEW p \in Procs, HeartbeatUnknown(p) \/ SaveFails(p)
  PROVE  IndInv'
<1> USE DEF IndInv, memory, files, views
<1>1. /\ pc' = [pc EXCEPT ![p] = "idle"]
      /\ UNCHANGED <<up, peers, ledger, peersFile, ledgerFile, op, arg, verification, acked>>
  BY DEF HeartbeatUnknown, SaveFails
<1>2. used' \in [Bounds -> Nat] /\ used'["corruptions"] = used["corruptions"]
  BY DEF HeartbeatUnknown, SaveFails, Spend, TypeOK, Bounds
<1>3. \/ lock' = lock /\ pc[p] = "enter"
      \/ lock' = Nobody /\ pc[p] \in Saving
  BY DEF HeartbeatUnknown, Enter, SaveFails, Saving
<1>4. TypeOK'
  BY <1>1, <1>2, <1>3 DEF TypeOK, Locations
<1>5. LedgersUnchanged
  BY <1>1, <1>2 DEF LedgersUnchanged, corrupted
<1>6. LockHeld'
  BY <1>1, <1>3, ProcsAssumption DEF LockHeld, TypeOK, Saving
<1>7. StoppedIdle' /\ ArgOK' /\ AppendInProgress' /\ PeersOnDisk'
  BY <1>1 DEF StoppedIdle, ArgOK, AppendInProgress, PeersOnDisk, TypeOK, Saving
<1>8. RegistrationInFlight'
  BY <1>1 DEF RegistrationInFlight, TypeOK, Saving
<1>9. AuditedInMemory' /\ AuditedPeersAreDurable'
  BY <1>1 DEF AuditedInMemory, AuditedPeersAreDurable
<1> QED
  BY <1>4, <1>5, <1>6, <1>7, <1>8, <1>9, LedgersKept

\* append_block extends the chain in memory.
LEMMA AddBlockInv ==
  ASSUME IndInv, NEW p \in Procs, AddBlock(p)
  PROVE  IndInv'
<1> USE DEF IndInv, memory, files, views
<1>1. PICK t \in Times : ledger' = Append(ledger, NewBlock(ledger, arg[p], t))
  BY DEF AddBlock
<1> DEFINE b == NewBlock(ledger, arg[p], t)
<1>2. /\ lock = Nobody /\ lock' = p
      /\ pc[p] = "enter" /\ op[p] = "append"
      /\ pc' = [pc EXCEPT ![p] = "save_peers"]
      /\ UNCHANGED <<up, peers, peersFile, ledgerFile, op, arg, verification, used, acked>>
  BY DEF AddBlock, Enter, Hold
<1>3. up
  BY <1>2 DEF StoppedIdle
<1>4. /\ IsBlockSeq(ledger') /\ Broken(ledger') = Broken(ledger)
      /\ SealedHashes(ledger) => SealedHashes(ledger')
  BY <1>1, AppendKeepsBroken DEF TypeOK
<1>5. /\ Len(ledger) \in Nat /\ Len(ledgerFile) \in Nat
      /\ Len(ledger') = Len(ledger) + 1
      /\ \A i \in 1..Len(ledger) : ledger'[i] = ledger[i]
      /\ ledger'[Len(ledger) + 1] = b
      /\ ledger' \in Seq(ToSet(ledger'))
  BY <1>1, AppendFacts DEF TypeOK, IsBlockSeq
<1>6. b.event_type = arg[p].event_type /\ b.actor_node = arg[p].actor_node
  BY NewBlockFacts
<1> HIDE DEF b
<1>7. /\ Len(ledgerFile) <= Len(ledger)
      /\ \A i \in 1..Len(ledgerFile) : ledgerFile[i] = ledger[i]
  BY <1>3, PrefixFacts DEF FilePrefix, TypeOK, IsBlockSeq
<1>8. TypeOK'
  BY <1>2, <1>4 DEF TypeOK, Locations
<1>9. LockHeld' /\ StoppedIdle' /\ ArgOK'
  BY <1>2, <1>3, ProcsAssumption DEF LockHeld, StoppedIdle, ArgOK, TypeOK
<1>10. AppendInProgress'
  BY <1>2, <1>5, <1>7 DEF AppendInProgress, TypeOK, Saving
<1>11. FilePrefix'
  <2>1. ledgerFile \in Seq(ToSet(ledgerFile))
    BY DEF TypeOK, IsBlockSeq
  <2>2. /\ Len(ledgerFile) <= Len(ledger')
        /\ \A i \in 1..Len(ledgerFile) : ledgerFile[i] = ledger'[i]
    BY <1>5, <1>7
  <2>3. IsPrefix(ledgerFile, ledger')
    BY <2>1, <2>2, <1>5, PrefixFacts
  <2> QED
    BY <2>3, <1>2 DEF FilePrefix
<1>12. ChainOK'
  BY <1>2, <1>4 DEF ChainOK, corrupted
<1>13. AckedDurable'
  BY <1>2 DEF AckedDurable, corrupted
<1>14. PeersOnDisk' /\ RegistrationInFlight'
  BY <1>2 DEF PeersOnDisk, RegistrationInFlight, TypeOK, Saving
<1>15. AuditedInMemory'
  <2>1. b.event_type = "peer_registered" => b.actor_node \in DOMAIN peersFile
    BY <1>2, <1>6 DEF RegistrationInFlight
  <2> QED
    BY <2>1, <1>2, <1>5 DEF AuditedInMemory
<1>16. AuditedPeersAreDurable'
  BY <1>2 DEF AuditedPeersAreDurable
<1> QED
  BY <1>8, <1>9, <1>10, <1>11, <1>12, <1>13, <1>14, <1>15, <1>16

\* The first half of _save_state: the table on disk catches up with memory.
LEMMA SavePeersInv ==
  ASSUME IndInv, NEW p \in Procs, SavePeers(p)
  PROVE  IndInv'
<1> USE DEF IndInv, memory, files, views
<1>1. /\ pc[p] = "save_peers" /\ peersFile' = peers
      /\ pc' = [pc EXCEPT ![p] = "save_ledger"]
      /\ UNCHANGED <<up, peers, ledger, lock, ledgerFile, op, arg, verification, used, acked>>
  BY DEF SavePeers
<1>2. up /\ DOMAIN peersFile \subseteq DOMAIN peers
  BY <1>1 DEF StoppedIdle, PeersOnDisk
<1>3. TypeOK'
  BY <1>1 DEF TypeOK, Locations
<1>4. LedgersUnchanged
  BY <1>1 DEF LedgersUnchanged, corrupted
<1>5. LockHeld' /\ StoppedIdle' /\ ArgOK' /\ AppendInProgress'
  BY <1>1 DEF LockHeld, StoppedIdle, ArgOK, AppendInProgress, TypeOK, Saving
<1>6. PeersOnDisk'
  BY <1>1 DEF PeersOnDisk
<1>7. RegistrationInFlight'
  BY <1>1, <1>2 DEF RegistrationInFlight, TypeOK, Saving
<1>8. AuditedInMemory' /\ AuditedPeersAreDurable'
  BY <1>1, <1>2 DEF AuditedInMemory, AuditedPeersAreDurable
<1> QED
  BY <1>3, <1>4, <1>5, <1>6, <1>7, <1>8, LedgersKept

\* The second half: the ledger on disk catches up, the lock is free, and an
\* append is acknowledged.
LEMMA SaveLedgerInv ==
  ASSUME IndInv, NEW p \in Procs, SaveLedger(p)
  PROVE  IndInv'
<1> USE DEF IndInv, memory, files, views
<1>1. /\ pc[p] = "save_ledger" /\ ledgerFile' = ledger /\ lock' = Nobody
      /\ UNCHANGED <<up, peers, ledger, peersFile, arg, verification, used>>
  BY DEF SaveLedger
<1>2. \/ /\ op[p] = "append" /\ op' = op
         /\ pc' = [pc EXCEPT ![p] = "idle"]
         /\ acked' = acked \/ acked' = acked \union {Last(ledger)}
      \/ /\ op[p] # "append" /\ op' = [op EXCEPT ![p] = "append"]
         /\ pc' = [pc EXCEPT ![p] = "enter"]
         /\ acked' = acked
  BY DEF SaveLedger
<1>3. up /\ lock = p
  BY <1>1 DEF StoppedIdle, LockHeld
<1>4. \A q \in Procs : pc'[q] \notin Saving
  BY <1>1, <1>2, <1>3, ProcsAssumption DEF LockHeld, TypeOK, Saving
<1>5. /\ Len(ledger) \in Nat /\ Len(ledgerFile) \in Nat
      /\ Len(ledgerFile) <= Len(ledger)
      /\ \A i \in 1..Len(ledgerFile) : ledgerFile[i] = ledger[i]
      /\ DOMAIN ledger = 1..Len(ledger) /\ DOMAIN ledgerFile = 1..Len(ledgerFile)
  BY <1>3, PrefixFacts DEF FilePrefix, TypeOK, IsBlockSeq
<1>6. TypeOK'
  BY <1>1, <1>2 DEF TypeOK, Locations, Operations
<1>7. LockHeld'
  BY <1>1, <1>4, ProcsAssumption DEF LockHeld, Saving
<1>8. StoppedIdle' /\ AppendInProgress'
  BY <1>1, <1>3, <1>4 DEF StoppedIdle, AppendInProgress
<1>9. ArgOK'
  BY <1>1, <1>2 DEF ArgOK, TypeOK
<1>10. FilePrefix'
  BY <1>1, <1>5, PrefixFacts DEF FilePrefix, TypeOK, IsBlockSeq
<1>11. ChainOK'
  <2>1. corrupted => Broken(ledger) # {}
    BY <1>3, PrefixKeepsBroken DEF ChainOK, FilePrefix, TypeOK
  <2> QED
    BY <2>1, <1>1 DEF ChainOK, corrupted
<1>12. AckedDurable'
  <2> SUFFICES ASSUME ~corrupted, NEW b \in acked'
               PROVE  b.block_id \in DOMAIN ledger /\ ledger[b.block_id] = b
    BY <1>1 DEF AckedDurable, corrupted
  <2>1. CASE b \in acked
    BY <2>1, <1>5 DEF AckedDurable
  <2>2. CASE b \notin acked
    <3>1. b = ledger[Len(ledger)] /\ op[p] = "append"
      BY <2>2, <1>2 DEF Last
    <3>2. Len(ledger) \in 1..Len(ledger)
      BY <3>1, <1>1, <1>5 DEF AppendInProgress, Saving
    <3>3. b.block_id = Len(ledger)
      BY <3>1, <3>2 DEF TypeOK, IsBlockSeq
    <3> QED
      BY <3>1, <3>2, <3>3, <1>5
  <2> QED
    BY <2>1, <2>2
<1>13. PeersOnDisk'
  BY <1>1 DEF PeersOnDisk
<1>14. RegistrationInFlight'
  BY <1>1, <1>2, <1>4 DEF RegistrationInFlight, TypeOK, Saving
<1>15. AuditedInMemory' /\ AuditedPeersAreDurable'
  BY <1>1 DEF AuditedInMemory, AuditedPeersAreDurable
<1> QED
  BY <1>6, <1>7, <1>8, <1>9, <1>10, <1>11, <1>12, <1>13, <1>14, <1>15

\* Reading the ledger changes only the observer.
LEMMA ListBlocksInv ==
  ASSUME IndInv, ListBlocks \/ UNCHANGED vars
  PROVE  IndInv'
<1>1. UNCHANGED <<up, peers, ledger, lock, peersFile, ledgerFile, pc, op, arg,
                  verification, used, acked>>
  BY DEF ListBlocks, vars, memory, files, tasks, views
<1>2. LedgersUnchanged
  BY <1>1 DEF LedgersUnchanged, corrupted
<1>3. TypeOK' /\ LockHeld' /\ StoppedIdle' /\ ArgOK' /\ AppendInProgress'
  BY <1>1 DEF IndInv, TypeOK, LockHeld, StoppedIdle, ArgOK, AppendInProgress
<1>4. PeersOnDisk' /\ RegistrationInFlight' /\ AuditedInMemory' /\ AuditedPeersAreDurable'
  BY <1>1 DEF IndInv, PeersOnDisk, RegistrationInFlight, AuditedInMemory,
              AuditedPeersAreDurable
<1> QED
  BY <1>2, <1>3, <1>4, LedgersKept DEF IndInv

\* A verifier run counts itself and, on a broken chain, starts an append.
LEMMA VerifyInv ==
  ASSUME IndInv, Verify
  PROVE  IndInv'
<1> USE DEF IndInv, memory, files, views
<1> DEFINE v == Verifier
<1>1. /\ up /\ v \in Procs /\ pc[v] = "idle"
      /\ UNCHANGED <<up, peers, ledger, lock, peersFile, ledgerFile, used, acked>>
  BY DEF Verify, Procs
<1>2. verification'.runs \in Nat /\ verification'.failures \in Nat
  BY DEF Verify, TypeOK
<1> DEFINE result  == VerifyLedger(ledger)
           request == LedgerAppendRequest("ledger_verification_failed", "registry_service",
                                          <<result.error, result.block_count>>)
<1>3. UNCHANGED <<pc, op, arg>> \/ Start(v, "append", request)
  BY DEF Verify, tasks
<1>4. LedgersUnchanged
  BY <1>1 DEF LedgersUnchanged, corrupted
<1>5. AuditedInMemory' /\ AuditedPeersAreDurable' /\ PeersOnDisk'
  BY <1>1 DEF AuditedInMemory, AuditedPeersAreDurable, PeersOnDisk
<1>6. CASE UNCHANGED <<pc, op, arg>>
  <2>1. TypeOK' /\ LockHeld' /\ StoppedIdle' /\ ArgOK' /\ AppendInProgress'
    BY <1>1, <1>2, <1>6 DEF TypeOK, LockHeld, StoppedIdle, ArgOK, AppendInProgress
  <2>2. RegistrationInFlight'
    BY <1>1, <1>6 DEF RegistrationInFlight
  <2> QED
    BY <2>1, <2>2, <1>4, <1>5, LedgersKept
<1>7. CASE Start(v, "append", request)
  <2>0. request.event_type = "ledger_verification_failed"
    BY DEF LedgerAppendRequest
  <2> HIDE DEF request
  <2>1. /\ pc' = [pc EXCEPT ![v] = "enter"]
        /\ op' = [op EXCEPT ![v] = "append"]
        /\ arg' = [arg EXCEPT ![v] = request]
    BY <1>7 DEF Start
  <2>2. TypeOK'
    BY <2>1, <1>1, <1>2 DEF TypeOK, Locations, Operations
  <2>3. LockHeld' /\ StoppedIdle' /\ ArgOK' /\ AppendInProgress'
    BY <2>1, <1>1 DEF LockHeld, StoppedIdle, ArgOK, AppendInProgress, TypeOK, Saving
  <2>4. RegistrationInFlight'
    BY <2>0, <2>1, <1>1 DEF RegistrationInFlight, TypeOK, Saving
  <2> QED
    BY <2>2, <2>3, <2>4, <1>4, <1>5, LedgersKept
<1> QED
  BY <1>3, <1>6, <1>7

\* A crash forgets memory and every request; the files stay.
LEMMA CrashInv ==
  ASSUME IndInv, Crash
  PROVE  IndInv'
<1> USE DEF IndInv, memory, files, views
<1>1. /\ up' = FALSE /\ peers' = EmptyTable /\ ledger' = << >> /\ lock' = Nobody
      /\ pc' = [p \in Procs |-> "idle"]
      /\ verification' = NoVerification
      /\ UNCHANGED <<peersFile, ledgerFile, op, arg, acked>>
  BY DEF Crash
<1>2. used' \in [Bounds -> Nat] /\ used'["corruptions"] = used["corruptions"]
  BY DEF Crash, Spend, TypeOK, Bounds
<1>3. TypeOK'
  <2>1. DOMAIN EmptyTable = {} /\ EmptyTable \in [{} -> PeerRecords]
    BY DEF EmptyTable
  <2>2. NoVerification.runs \in Nat /\ NoVerification.failures \in Nat
    BY DEF NoVerification
  <2> QED
    BY <2>1, <2>2, <1>1, <1>2, EmptyLedger DEF TypeOK, Locations
<1>4. LockHeld' /\ StoppedIdle' /\ ArgOK' /\ AppendInProgress'
  BY <1>1, ProcsAssumption DEF LockHeld, StoppedIdle, ArgOK, AppendInProgress, Saving
<1>5. FilePrefix' /\ PeersOnDisk' /\ RegistrationInFlight'
  BY <1>1 DEF FilePrefix, PeersOnDisk, RegistrationInFlight, Saving
<1>6. ChainOK' /\ AckedDurable'
  BY <1>1, <1>2, EmptyLedger DEF ChainOK, AckedDurable, corrupted
<1>7. AuditedInMemory' /\ AuditedPeersAreDurable'
  BY <1>1 DEF AuditedInMemory, AuditedPeersAreDurable
<1> QED
  BY <1>3, <1>4, <1>5, <1>6, <1>7

\* _load_state: memory becomes what the files hold.
LEMMA RestartInv ==
  ASSUME IndInv, Restart
  PROVE  IndInv'
<1> USE DEF IndInv, memory, files, tasks, views
<1>1. /\ ~up /\ up' = TRUE /\ peers' = peersFile /\ ledger' = ledgerFile
      /\ UNCHANGED <<lock, peersFile, ledgerFile, pc, op, arg, verification, used, acked>>
  BY DEF Restart
<1>2. \A p \in Procs : pc[p] = "idle"
  BY <1>1 DEF StoppedIdle
<1>3. TypeOK'
  BY <1>1 DEF TypeOK
<1>4. LockHeld' /\ StoppedIdle' /\ ArgOK' /\ AppendInProgress' /\ RegistrationInFlight'
  BY <1>1, <1>2 DEF LockHeld, StoppedIdle, ArgOK, AppendInProgress, RegistrationInFlight, Saving
<1>5. FilePrefix'
  BY <1>1, PrefixFacts DEF FilePrefix, TypeOK, IsBlockSeq
<1>6. ChainOK' /\ AckedDurable' /\ PeersOnDisk'
  BY <1>1 DEF ChainOK, AckedDurable, PeersOnDisk, corrupted
<1>7. AuditedInMemory' /\ AuditedPeersAreDurable'
  BY <1>1 DEF AuditedInMemory, AuditedPeersAreDurable
<1> QED
  BY <1>3, <1>4, <1>5, <1>6, <1>7

\* Damage to a stored block keeps every other promise.
LEMMA CorruptFileInv ==
  ASSUME IndInv, CorruptFile
  PROVE  IndInv'
<1> USE DEF IndInv, memory, files, tasks, views
<1>1. /\ ~up
      /\ UNCHANGED <<up, peers, ledger, lock, peersFile, pc, op, arg, verification, acked>>
  BY DEF CorruptFile
<1>2. /\ used' \in [Bounds -> Nat]
      /\ used'["corruptions"] > 0 /\ used'["corruptions"] <= MaxCorruptions
  <2>1. /\ used' = [used EXCEPT !["corruptions"] = used["corruptions"] + 1]
        /\ used["corruptions"] < MaxCorruptions
    BY DEF CorruptFile, Spend
  <2>2. used \in [Bounds -> Nat] /\ "corruptions" \in Bounds /\ MaxCorruptions \in Nat
    BY BoundsAssumption DEF TypeOK, Bounds
  <2> HIDE DEF IndInv
  <2> QED
    BY <2>1, <2>2
<1>3. PICK k \in 1..Len(ledgerFile), f \in {"payload_hash", "previous_hash", "block_hash"} :
        ledgerFile' = [ledgerFile EXCEPT ![k] = [@ EXCEPT ![f] = Tampered]]
  BY DEF CorruptFile
<1>4. IsBlockSeq(ledgerFile') /\ SealedHashes(ledgerFile') /\ Broken(ledgerFile') # {}
  BY <1>3, DamageIsSeen DEF TypeOK, ChainOK
<1>5. \A p \in Procs : pc[p] = "idle"
  BY <1>1 DEF StoppedIdle
<1>6. TypeOK'
  BY <1>1, <1>2, <1>4 DEF TypeOK
<1>7. LockHeld' /\ StoppedIdle' /\ ArgOK' /\ AppendInProgress' /\ RegistrationInFlight'
  BY <1>1, <1>5 DEF LockHeld, StoppedIdle, ArgOK, AppendInProgress, RegistrationInFlight, Saving
<1>8. FilePrefix' /\ PeersOnDisk'
  BY <1>1 DEF FilePrefix, PeersOnDisk
<1>9. ChainOK' /\ AckedDurable'
  BY <1>1, <1>2, <1>4 DEF ChainOK, AckedDurable, corrupted
<1>10. AuditedInMemory'
  BY <1>1 DEF AuditedInMemory
<1>11. AuditedPeersAreDurable'
  <2>1. /\ Len(ledgerFile') = Len(ledgerFile)
        /\ \A i \in 1..Len(ledgerFile) :
             /\ ledgerFile'[i].event_type = ledgerFile[i].event_type
             /\ ledgerFile'[i].actor_node = ledgerFile[i].actor_node
    BY <1>3 DEF TypeOK, IsBlockSeq, BlockFields
  <2> QED
    BY <2>1, <1>1 DEF AuditedPeersAreDurable
<1> QED
  BY <1>6, <1>7, <1>8, <1>9, <1>10, <1>11

-----------------------------------------------------------------------------
(* The theorems.                                                           *)

\* Every step of the registry preserves the invariant.
LEMMA NextIndInv == IndInv /\ [Next]_vars => IndInv'
<1> SUFFICES ASSUME IndInv, [Next]_vars PROVE IndInv'
  OBVIOUS
<1>1. ASSUME NEW w \in Workers, Request(w) PROVE IndInv'
  BY <1>1, RequestInv
<1>2. ASSUME NEW p \in Procs, StoreStep(p) PROVE IndInv'
  BY <1>2, AddBlockInv, SavePeersInv, SaveLedgerInv, LeaveInv DEF StoreStep
<1>3. ASSUME NEW w \in Workers, WorkerStep(w) PROVE IndInv'
  BY <1>2, <1>3, UpsertPeerInv, HeartbeatInv, LeaveInv DEF WorkerStep, Procs
<1>4. CASE ListBlocks \/ UNCHANGED vars
  BY <1>4, ListBlocksInv
<1>5. CASE Verify
  BY <1>5, VerifyInv
<1>6. CASE Crash
  BY <1>6, CrashInv
<1>7. CASE Restart
  BY <1>7, RestartInv
<1>8. CASE CorruptFile
  BY <1>8, CorruptFileInv
<1> QED
  BY <1>1, <1>2, <1>3, <1>4, <1>5, <1>6, <1>7, <1>8 DEF Next, Procs

\* The inductive invariant holds in every reachable state of the registry.
THEOREM IndInvInvariant == Spec => []IndInv
  BY InitIndInv, NextIndInv, PTL DEF Spec

\* Type correctness.
THEOREM TypeCorrect == Spec => []TypeOK
<1>1. IndInv => TypeOK
  BY DEF IndInv
<1> QED
  BY <1>1, IndInvInvariant, PTL

\* The ledger on disk is always a prefix of the ledger in memory.
THEOREM FilePrefixInvariant == Spec => []FilePrefix
<1>1. IndInv => FilePrefix
  BY DEF IndInv
<1> QED
  BY <1>1, IndInvInvariant, PTL

\* verify_ledger is exact: it reports damage and nothing but damage.
THEOREM VerifyIsExact == Spec => []VerifyExact
<1>1. IndInv => VerifyExact
  <2> SUFFICES ASSUME IndInv PROVE VerifyExact
    OBVIOUS
  <2>1. VerifyLedger(ledgerFile).valid <=> ~corrupted
    BY VerifyIsWalk DEF IndInv, ChainOK
  <2>2. up /\ corrupted => Broken(ledger) # {}
    BY PrefixKeepsBroken DEF IndInv, ChainOK, FilePrefix, TypeOK
  <2>3. up => (VerifyLedger(ledger).valid <=> ~corrupted)
    BY <2>2, VerifyIsWalk DEF IndInv, ChainOK
  <2> QED
    BY <2>1, <2>3 DEF VerifyExact
<1> QED
  BY <1>1, IndInvInvariant, PTL

\* No crash or failed save loses a block a client was told of.
THEOREM AckedBlocksSurvive == Spec => []AckedDurable
<1>1. IndInv => AckedDurable
  BY DEF IndInv
<1> QED
  BY <1>1, IndInvInvariant, PTL

\* Every peer the audit trail says was registered is in the table on disk.
THEOREM AuditedPeersSurvive == Spec => []AuditedPeersAreDurable
<1>1. IndInv => AuditedPeersAreDurable
  BY DEF IndInv
<1> QED
  BY <1>1, IndInvInvariant, PTL

\* What a step does to the ledger on disk: nothing, damage it in place, or extend
\* it with the blocks in memory, acknowledging at most the last of them.
LEMMA FileStep ==
  ASSUME IndInv, [Next]_vars
  PROVE  \/ UNCHANGED <<ledgerFile, acked, corrupted>>
         \/ corrupted' /\ acked' = acked /\ Len(ledgerFile') = Len(ledgerFile)
         \/ /\ up /\ ledgerFile' = ledger /\ UNCHANGED corrupted
            /\ \/ acked' = acked
               \/ /\ acked' = acked \union {Last(ledger)}
                  /\ Len(ledgerFile) < Len(ledger)
<1> USE DEF memory, files, tasks, views
<1>0. used \in [Bounds -> Nat]
  BY DEF IndInv, TypeOK
<1>1. ASSUME NEW w \in Workers, Request(w) PROVE UNCHANGED <<ledgerFile, acked, corrupted>>
  BY <1>0, <1>1
     DEF Request, RegisterPeer, PeerHeartbeat, AppendBlock, Accept, Spend, Bounds, corrupted
<1>2. ASSUME NEW p \in Procs, SaveLedger(p)
      PROVE  /\ up /\ ledgerFile' = ledger /\ UNCHANGED corrupted
             /\ \/ acked' = acked
                \/ /\ acked' = acked \union {Last(ledger)}
                   /\ Len(ledgerFile) < Len(ledger)
  BY <1>2 DEF SaveLedger, IndInv, StoppedIdle, AppendInProgress, Saving, corrupted
<1>3. ASSUME NEW p \in Procs, AddBlock(p) \/ SavePeers(p) \/ SaveFails(p)
      PROVE  UNCHANGED <<ledgerFile, acked, corrupted>>
  BY <1>0, <1>3 DEF AddBlock, SavePeers, SaveFails, Spend, Bounds, corrupted
<1>4. ASSUME NEW w \in Workers, UpsertPeer(w) \/ Heartbeat(w) \/ HeartbeatUnknown(w)
      PROVE  UNCHANGED <<ledgerFile, acked, corrupted>>
  BY <1>4 DEF UpsertPeer, Heartbeat, HeartbeatUnknown, corrupted
<1>5. CASE ListBlocks \/ Verify \/ Crash \/ Restart \/ UNCHANGED vars
  BY <1>0, <1>5 DEF ListBlocks, Verify, Crash, Restart, vars, Spend, Bounds, corrupted
<1>6. CASE CorruptFile
  BY <1>0, <1>6 DEF CorruptFile, Spend, corrupted, IndInv, TypeOK, IsBlockSeq, Bounds
<1> QED
  BY <1>1, <1>2, <1>3, <1>4, <1>5, <1>6 DEF Next, WorkerStep, StoreStep, Procs

\* The ledger on disk only ever grows, through crashes and failed saves.
THEOREM DiskIsAppendOnly == Spec => DurableAppendOnly
<1>1. IndInv /\ [Next]_vars => [corrupted' \/ IsPrefix(ledgerFile, ledgerFile')]_vars
  <2> SUFFICES ASSUME IndInv, [Next]_vars
               PROVE  corrupted' \/ IsPrefix(ledgerFile, ledgerFile')
    OBVIOUS
  <2>1. IsPrefix(ledgerFile, ledgerFile)
    BY PrefixFacts DEF IndInv, TypeOK, IsBlockSeq
  <2>2. up => IsPrefix(ledgerFile, ledger)
    BY DEF IndInv, FilePrefix
  <2> QED
    BY <2>1, <2>2, FileStep
<1> QED
  BY <1>1, IndInvInvariant, PTL DEF Spec, DurableAppendOnly

\* The registry implements the durable log, damage to the disk included.
THEOREM RegistryImplementsDurableLog == Spec => ImplementsDurableLog
<1>1. Init => Log!Init
  BY DEF Init, Log!Init, corrupted, Bounds
<1>2. IndInv /\ IndInv' /\ [Next]_vars => [Log!Commit \/ Log!Damage]_(Log!logvars)
  <2> SUFFICES ASSUME IndInv, IndInv', [Next]_vars, ~ UNCHANGED <<ledgerFile, acked, corrupted>>
               PROVE  Log!Commit \/ Log!Damage
    BY DEF Log!logvars
  <2>1. Log!Broken(ledgerFile') = Broken(ledgerFile')
    BY DEF Broken, LinkBroken, HashBroken, PreviousHash, ComputeBlockHash, hash_json, None,
           Log!Broken, Log!LinkBroken, Log!HashBroken, Log!PreviousHash,
           Log!ComputeBlockHash, Log!hash_json, Log!None
  <2>2. Log!DamageShows
    BY <2>1 DEF Log!DamageShows, IndInv, ChainOK
  <2>3. CASE corrupted' /\ acked' = acked /\ Len(ledgerFile') = Len(ledgerFile)
    BY <2>2, <2>3 DEF Log!Damage, corrupted
  <2>4. CASE /\ up /\ ledgerFile' = ledger /\ UNCHANGED corrupted
             /\ \/ acked' = acked
                \/ /\ acked' = acked \union {Last(ledger)}
                   /\ Len(ledgerFile) < Len(ledger)
    <3>1. IsPrefix(ledgerFile, ledger) /\ ledgerFile # ledger
      BY <2>4 DEF IndInv, FilePrefix
    <3>2. Log!IsStrictPrefix(ledgerFile, ledger)
      BY <3>1 DEF IsPrefix, Log!IsPrefix, Log!IsStrictPrefix
    <3>3. Log!Last(ledger) = Last(ledger)
      BY DEF Last, Log!Last
    <3> QED
      BY <2>2, <2>4, <3>2, <3>3 DEF Log!Commit
  <2> QED
    BY <2>3, <2>4, FileStep
<1> QED
  BY <1>1, <1>2, IndInvInvariant, PTL DEF Spec, ImplementsDurableLog, Log!Spec

\* A reader's answer comes from a ledger that is on disk as it is: steps inside the lock
\* may leave memory ahead, and those outside find that the last one saved.
LEMMA ServedStep ==
  ASSUME IndInv, IndInv', ServedFromDisk, [Next]_vars
  PROVE  /\ ServedFromDisk'
         /\ ~corrupted' /\ used'["save_failures"] = 0 => IsPrefix(observed, observed')
<1> USE DEF memory, files, tasks, views
<1>1. /\ IsPrefix(observed, observed) /\ observed \in Seq(ToSet(observed))
      /\ ledger \in Seq(ToSet(ledger)) /\ ledgerFile \in Seq(ToSet(ledgerFile))
      /\ used \in [Bounds -> Nat]
      /\ \A p \in Procs : lock = p <=> pc[p] \in Saving
      /\ up => IsPrefix(ledgerFile, ledger)
  BY PrefixFacts DEF ServedFromDisk, IndInv, TypeOK, IsBlockSeq, LockHeld, FilePrefix, Saving
<1>2. CASE UNCHANGED <<observed, ledger, ledgerFile, lock, up>> /\ used' \in [Bounds -> Nat]
           /\ used'["save_failures"] = used["save_failures"]
           /\ used'["corruptions"] = used["corruptions"]
  BY <1>1, <1>2 DEF ServedFromDisk, corrupted
<1>3. ASSUME NEW w \in Workers, Request(w) \/ HeartbeatUnknown(w)
      PROVE  /\ UNCHANGED <<observed, ledger, ledgerFile, lock, up>>
             /\ used' \in [Bounds -> Nat]
             /\ used'["save_failures"] = used["save_failures"]
             /\ used'["corruptions"] = used["corruptions"]
  <2>1. ASSUME NEW operation, NEW argument, Accept(w, operation, argument)
        PROVE  /\ UNCHANGED <<observed, ledger, ledgerFile, lock, up>>
               /\ used' \in [Bounds -> Nat]
               /\ used'["save_failures"] = used["save_failures"]
               /\ used'["corruptions"] = used["corruptions"]
    BY <1>1, <2>1 DEF Accept, Spend, Bounds
  <2>2. CASE HeartbeatUnknown(w)
    BY <1>1, <2>2 DEF HeartbeatUnknown
  <2>3. CASE Request(w)
    BY <2>1, <2>3 DEF Request, RegisterPeer, PeerHeartbeat, AppendBlock
  <2> QED
    BY <1>3, <2>2, <2>3
<1>4. ASSUME NEW p \in Procs, SavePeers(p)
      PROVE  /\ UNCHANGED <<observed, ledger, ledgerFile, lock, up>>
             /\ used' \in [Bounds -> Nat]
             /\ used'["save_failures"] = used["save_failures"]
             /\ used'["corruptions"] = used["corruptions"]
  BY <1>1, <1>4 DEF SavePeers
<1>5. CASE Verify \/ UNCHANGED vars
  <2>1. /\ UNCHANGED <<observed, ledger, ledgerFile, lock, up>>
        /\ used' \in [Bounds -> Nat]
        /\ used'["save_failures"] = used["save_failures"]
        /\ used'["corruptions"] = used["corruptions"]
    BY <1>1, <1>5 DEF Verify, vars
  <2> QED
    BY <1>2, <2>1
<1>6. ASSUME NEW p \in Procs, Hold(p), UNCHANGED <<observed, ledgerFile, up, used>>
      PROVE  /\ ServedFromDisk'
             /\ ~corrupted' /\ used'["save_failures"] = 0 => IsPrefix(observed, observed')
  <2>1. lock' # Nobody
    BY <1>6, ProcsAssumption DEF Hold, Procs
  <2> QED
    BY <1>1, <1>6, <2>1 DEF ServedFromDisk, corrupted
<1>7. ASSUME NEW p \in Procs, AddBlock(p)
      PROVE  Hold(p) /\ UNCHANGED <<observed, ledgerFile, up, used>>
  BY <1>7 DEF AddBlock
<1>8. ASSUME NEW w \in Workers, UpsertPeer(w) \/ Heartbeat(w)
      PROVE  Hold(w) /\ UNCHANGED <<observed, ledgerFile, up, used>>
  BY <1>8 DEF UpsertPeer, Heartbeat
<1>9. ASSUME NEW p \in Procs, SaveLedger(p)
      PROVE  /\ ServedFromDisk'
             /\ ~corrupted' /\ used'["save_failures"] = 0 => IsPrefix(observed, observed')
  <2>1. ledgerFile' = ledger /\ UNCHANGED <<observed, ledger, up, used>>
    BY <1>9 DEF SaveLedger
  <2>2. up
    BY <1>9 DEF SaveLedger, IndInv, StoppedIdle
  <2>3. IsPrefix(observed, ledgerFile) => IsPrefix(observed, ledger)
    <3> SUFFICES ASSUME IsPrefix(observed, ledgerFile)
                 PROVE  IsPrefix(observed, ledger)
      OBVIOUS
    <3>1. Len(observed) <= Len(ledgerFile) /\ \A i \in 1..Len(observed) : observed[i] = ledgerFile[i]
      BY <1>1, PrefixFacts
    <3>2. Len(ledgerFile) <= Len(ledger) /\ \A i \in 1..Len(ledgerFile) : ledgerFile[i] = ledger[i]
      BY <1>1, <2>2, PrefixFacts
    <3>3. Len(observed) \in Nat /\ Len(ledgerFile) \in Nat /\ Len(ledger) \in Nat
      BY <1>1
    <3>4. Len(observed) <= Len(ledger) /\ \A i \in 1..Len(observed) : observed[i] = ledger[i]
      BY <3>1, <3>2, <3>3
    <3> QED
      BY <1>1, <3>4, PrefixFacts
  <2> QED
    BY <1>1, <2>1, <2>3 DEF ServedFromDisk, corrupted
<1>10. ASSUME NEW p \in Procs, SaveFails(p)
       PROVE  /\ ServedFromDisk'
              /\ ~corrupted' /\ used'["save_failures"] = 0 => IsPrefix(observed, observed')
  <2>1. used'["save_failures"] # 0 /\ observed' = observed
    BY <1>1, <1>10 DEF SaveFails, Spend, Bounds
  <2> QED
    BY <1>1, <2>1 DEF ServedFromDisk
<1>11. CASE ListBlocks
  <2>1. /\ up /\ lock = Nobody /\ observed' = ledger
        /\ UNCHANGED <<ledger, ledgerFile, lock, up, used>>
    BY <1>11 DEF ListBlocks
  <2>2. IsPrefix(ledger, ledger)
    BY <1>1, PrefixFacts
  <2> QED
    BY <1>1, <2>1, <2>2 DEF ServedFromDisk, corrupted
<1>12. CASE Crash
  <2>1. /\ up' = FALSE /\ UNCHANGED <<observed, ledgerFile>>
        /\ used'["save_failures"] = used["save_failures"]
        /\ used'["corruptions"] = used["corruptions"]
    BY <1>1, <1>12 DEF Crash, Spend, Bounds
  <2> QED
    BY <1>1, <2>1 DEF ServedFromDisk, corrupted
<1>13. CASE Restart
  <2>1. ledger' = ledgerFile /\ UNCHANGED <<observed, ledgerFile, used>>
    BY <1>13 DEF Restart
  <2> QED
    BY <1>1, <2>1 DEF ServedFromDisk, corrupted
<1>14. CASE CorruptFile
  <2>1. used'["corruptions"] > 0 /\ observed' = observed
    BY <1>1, <1>14 DEF CorruptFile, Spend, Bounds
  <2> QED
    BY <1>1, <2>1 DEF ServedFromDisk, corrupted
<1>15. ASSUME NEW p \in Procs, StoreStep(p)
       PROVE  /\ ServedFromDisk'
              /\ ~corrupted' /\ used'["save_failures"] = 0 => IsPrefix(observed, observed')
  BY <1>2, <1>4, <1>6, <1>7, <1>9, <1>10, <1>15 DEF StoreStep
<1>16. ASSUME NEW w \in Workers, Request(w) \/ WorkerStep(w)
       PROVE  /\ ServedFromDisk'
              /\ ~corrupted' /\ used'["save_failures"] = 0 => IsPrefix(observed, observed')
  <2>1. w \in Procs
    BY DEF Procs
  <2> QED
    BY <1>2, <1>3, <1>6, <1>8, <1>15, <1>16, <2>1 DEF WorkerStep
<1> QED
  BY <1>5, <1>11, <1>12, <1>13, <1>14, <1>15, <1>16 DEF Next, Procs

\* The inductive invariant, and what readers were served with it.
THEOREM RegistryInvariant == Spec => []RegistryInv
<1>1. Init => ServedFromDisk
  <2> SUFFICES ASSUME Init PROVE ServedFromDisk
    OBVIOUS
  <2>1. observed = << >> /\ ledger = << >> /\ ledgerFile = << >>
    BY DEF Init
  <2>2. << >> \in Seq(ToSet(<< >>))
    OBVIOUS
  <2>3. IsPrefix(observed, ledgerFile)
    <3>1. Len(observed) <= Len(ledgerFile) /\ \A i \in 1..Len(observed) : observed[i] = ledgerFile[i]
      BY <2>1
    <3>2. observed \in Seq(ToSet(observed)) /\ ledgerFile \in Seq(ToSet(ledgerFile))
      BY <2>1, <2>2
    <3> QED
      BY <3>1, <3>2, PrefixFacts
  <2> QED
    BY <2>1, <2>2, <2>3 DEF ServedFromDisk
<1>2. IndInv /\ IndInv' /\ ServedFromDisk /\ [Next]_vars => ServedFromDisk'
  BY ServedStep
<1> QED
  BY <1>1, <1>2, IndInvInvariant, PTL DEF Spec, RegistryInv

\* The ledger that GET /ledger/blocks answers with is append-only, across crashes too, as
\* long as no save fails: what a reader has seen is never taken back.
THEOREM ReadersSeeAppendOnly == Spec => ObservedAppendOnlyUnlessSaveFails
<1>1. RegistryInv /\ RegistryInv' /\ [Next]_vars =>
        [corrupted' \/ used'["save_failures"] > 0 \/ IsPrefix(observed, observed')]_vars
  <2> SUFFICES ASSUME RegistryInv, RegistryInv', [Next]_vars
               PROVE  corrupted' \/ used'["save_failures"] > 0 \/ IsPrefix(observed, observed')
    OBVIOUS
  <2>1. used'["save_failures"] \in Nat
    BY DEF RegistryInv, IndInv, TypeOK, Bounds
  <2> QED
    BY <2>1, ServedStep DEF RegistryInv
<1> QED
  BY <1>1, RegistryInvariant, PTL DEF Spec, ObservedAppendOnlyUnlessSaveFails
=============================================================================
