------------------------------- MODULE Ledger -------------------------------
(***************************************************************************)
(* The data of the audit ledger and the pure functions over it: hashing    *)
(* (shared/utils/hashing.py), sealing a new block and walking the chain    *)
(* (registry_service/store.py).                                            *)
(*                                                                         *)
(* SHA-256 is the symbolic hash: a digest is a term that contains what was *)
(* hashed, so two digests are equal exactly when the hashed values are.    *)
(* Python's None is the empty tuple, which no digest equals.               *)
(***************************************************************************)
EXTENDS Naturals, Sequences, FiniteSetsExt

None == << >>

hash_json(value) == <<"sha256", value>>

(***************************************************************************)
(* _compute_block_hash: every field of the block but block_hash itself.    *)
(***************************************************************************)
ComputeBlockHash(block) ==
  hash_json([block_id      |-> block.block_id,
             timestamp     |-> block.timestamp,
             event_type    |-> block.event_type,
             actor_node    |-> block.actor_node,
             payload_hash  |-> block.payload_hash,
             previous_hash |-> block.previous_hash])

\* The hash the block at position i must point back to.
PreviousHash(ledger, i) == IF i = 1 THEN None ELSE ledger[i - 1].block_hash

\* append_block: the block an append seals when it points back to previous.
SealBlock(ledger, request, now, previous) ==
  LET unsealed == [block_id      |-> Len(ledger) + 1,
                   timestamp     |-> now,
                   event_type    |-> request.event_type,
                   actor_node    |-> request.actor_node,
                   payload_hash  |-> hash_json(request.payload),
                   previous_hash |-> previous,
                   block_hash    |-> None]
  IN  [unsealed EXCEPT !.block_hash = ComputeBlockHash(unsealed)]

\* Mutant: the new block is not linked to its predecessor.
NewBlock_Unlinked(ledger, request, now) == SealBlock(ledger, request, now, None)

NewBlock(ledger, request, now) ==
  SealBlock(ledger, request, now, PreviousHash(ledger, Len(ledger) + 1))

LinkBroken(ledger, i) == ledger[i].previous_hash # PreviousHash(ledger, i)

\* Mutant: the walk compares links only.
HashBroken_Never(ledger, i) == FALSE

HashBroken(ledger, i) == ledger[i].block_hash # ComputeBlockHash(ledger[i])

Broken(ledger) ==
  {i \in 1..Len(ledger) : LinkBroken(ledger, i) \/ HashBroken(ledger, i)}

(***************************************************************************)
(* verify_ledger: the walk stops at the first broken block and reports it; *)
(* a broken link is reported before a broken hash.                         *)
(***************************************************************************)
VerifyLedger(ledger) ==
  IF Broken(ledger) = {}
  THEN [valid |-> TRUE, block_count |-> Len(ledger), error |-> None]
  ELSE LET i == Min(Broken(ledger))
       IN  [valid       |-> FALSE,
            block_count |-> Len(ledger),
            error       |-> <<ledger[i].block_id,
                              IF LinkBroken(ledger, i)
                              THEN "invalid previous_hash"
                              ELSE "hash mismatch">>]
=============================================================================
