----------------------------- MODULE DurableLog -----------------------------
(***************************************************************************)
(* What the registry promises of the audit ledger, with no process, lock   *)
(* or file in sight: a hash-chained log that only grows, by one or more    *)
(* blocks at a time, never acknowledges a block that is not in it, and     *)
(* shows damage to its blocks for ever after.                              *)
(***************************************************************************)
EXTENDS Ledger, SequencesExt

VARIABLES
  log,      \* the ledger that survives a crash
  acked,    \* the blocks whose append was answered with success
  damaged   \* whether a block was ever changed at rest

logvars == <<log, acked, damaged>>

Init == log = << >> /\ acked = {} /\ damaged = FALSE

\* The walk over the chain tells damage, whatever is chained on top of it.
DamageShows == (Broken(log') = {}) <=> ~damaged'

\* A save makes the new blocks durable; at most one of them is acknowledged
\* with it, the newest: the others belong to requests whose own save failed.
Commit ==
  /\ IsStrictPrefix(log, log')
  /\ acked' = acked \/ acked' = acked \union {Last(log')}
  /\ UNCHANGED damaged
  /\ DamageShows

\* Something other than the registry changes blocks in place.
Damage ==
  /\ Len(log') = Len(log)
  /\ acked' = acked
  /\ damaged' = TRUE
  /\ DamageShows

Spec == Init /\ [][Commit \/ Damage]_logvars
=============================================================================
