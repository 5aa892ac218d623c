------------------------------ MODULE IotBridge ------------------------------
(***************************************************************************)
(* The IoT bridge: an MQTT subscriber whose callbacks run on the network   *)
(* thread of the client library, one at a time, and that posts every valid *)
(* message to the ingestion peer once, with a timeout; and the simulator   *)
(* that publishes, with QoS 1 and a wait for the acknowledgement.          *)
(*                                                                         *)
(* External: the broker, which keeps no session for a client that asks for *)
(* none and persists nothing; the library, which reconnects by itself once *)
(* a connection has been made and then sends again what the broker has not *)
(* acknowledged; and the ingestion peer's thread pool, which may execute a *)
(* request after the bridge has given up on it.                            *)
(***************************************************************************)
EXTENDS Integers, FiniteSets, SequencesExt

CONSTANTS
  Kind,        \* of the messages, in the order in which they are generated: "valid",
               \* "invalid" (schema) or "unparsable" (JSON)
  MaxFaults,   \* bound: connections refused, waits that time out, posts that fail
  MaxDrops,    \* bound: connections lost, on either side of the broker
  MaxCrashes   \* bound: crashes of the bridge

ASSUME KindAssumption == Kind \in Seq({"valid", "invalid", "unparsable"})

\* A message is its place in that order.
Messages == DOMAIN Kind
Nil      == 0

VARIABLES
  conn,        \* "down", "failed" (start raised), "connecting" or "connected"
  subscribed,  \* whether the broker has the subscription
  inbox,       \* messages the broker has for the bridge
  posting,     \* the message the callback is posting, Nil outside of it
  counters,    \* the counters of the bridge and its subscriber
  late,        \* posts given up that the ingestion peer may still execute, in any order
  ingested,    \* messages the ingestion peer has executed, in order
  pub,         \* the publisher: "idle", "up", "lost" (its connection) or "over"
  outbox,      \* its messages without an acknowledgement; sent: in this connection
  waiting,     \* the message in wait_for_publish, Nil outside of it
  published,   \* how many messages were published
  resent,      \* observer: how often each was sent again
  failed,      \* observer: messages whose post the bridge gave up
  used         \* how much of each bound is spent

bridge    == <<conn, subscribed, posting, counters>>
ingestion == <<late, ingested>>
publisher == <<pub, outbox, waiting, published, resent>>
vars      == <<bridge, inbox, ingestion, publisher, failed, used>>

Bounds == {"faults", "drops", "crashes"}
CounterNames == {"received", "handled", "errors", "forwarded",
                 "forward_failures", "validation_failures"}

Zero == [c \in CounterNames |-> 0]

Spend(bound, limit) ==
  used[bound] < limit /\ used' = [used EXCEPT ![bound] = @ + 1]

Fault == Spend("faults", MaxFaults)

Count(names) == counters' = [c \in CounterNames |->
                               IF c \in names THEN counters[c] + 1 ELSE counters[c]]

-----------------------------------------------------------------------------
Init ==
  /\ conn = "down" /\ subscribed = FALSE /\ inbox = << >> /\ posting = Nil
  /\ counters = Zero /\ late = << >> /\ ingested = << >>
  /\ pub = "idle" /\ outbox = << >> /\ waiting = Nil
  /\ published = 0 /\ resent = [m \in Messages |-> 0] /\ failed = {}
  /\ used = [b \in Bounds |-> 0]

\* lifespan: start raises when the broker cannot be reached, which is logged, and
\* the service goes on without it.
Start ==
  /\ conn = "down"
  /\ \/ conn' = "connecting" /\ UNCHANGED used
     \/ conn' = "failed" /\ Fault
  /\ UNCHANGED <<subscribed, posting, counters, inbox, ingestion, publisher, failed>>

\* Mutant: the subscription is made on the first connection only.
OnConnect_Once ==
  /\ conn = "connecting" /\ posting = Nil
  /\ conn' = "connected"
  /\ subscribed' = (used["drops"] = 0)
  /\ UNCHANGED <<posting, counters, inbox, ingestion, publisher, failed, used>>

\* _on_connect, of every connection; a refused one subscribes to nothing and the
\* library tries again.
OnConnect ==
  /\ conn = "connecting" /\ posting = Nil
  /\ conn' = "connected"
  /\ subscribed' = TRUE
  /\ UNCHANGED <<posting, counters, inbox, ingestion, publisher, failed, used>>

ConnectRefused ==
  /\ conn = "connecting" /\ posting = Nil
  /\ Fault
  /\ UNCHANGED <<bridge, inbox, ingestion, publisher, failed>>

\* External: the connection breaks and the broker forgets the session.
Drop ==
  /\ conn = "connected"
  /\ Spend("drops", MaxDrops)
  /\ conn' = "connecting" /\ subscribed' = FALSE /\ inbox' = << >>
  /\ UNCHANGED <<posting, counters, ingestion, publisher, failed>>

-----------------------------------------------------------------------------
(* The publisher.                                                          *)

\* run: connect raises when the broker cannot be reached, and the run is over.
Connect ==
  /\ pub = "idle"
  /\ \/ pub' = "up" /\ UNCHANGED used
     \/ pub' = "over" /\ Fault
  /\ UNCHANGED <<bridge, inbox, ingestion, outbox, waiting, published, resent, failed>>

\* publish, up to the wait. Without a connection the wait raises at once, and run
\* disconnects with the message in the library's queue.
Publish ==
  /\ pub \in {"up", "lost"} /\ waiting = Nil
  /\ published < Len(Kind)
  /\ published' = published + 1
  /\ IF pub = "up"
     THEN /\ outbox' = Append(outbox, [msg |-> published', sent |-> FALSE])
          /\ waiting' = published'
          /\ UNCHANGED pub
     ELSE pub' = "over" /\ outbox' = << >> /\ UNCHANGED waiting
  /\ UNCHANGED <<bridge, inbox, ingestion, resent, failed, used>>

\* External: the library sends, in order, and the broker hands the message to a
\* subscriber.
Transmit ==
  /\ pub = "up"
  /\ \E i \in DOMAIN outbox :
       /\ ~outbox[i].sent /\ \A j \in 1..(i - 1) : outbox[j].sent
       /\ outbox' = [outbox EXCEPT ![i].sent = TRUE]
       /\ inbox' = IF subscribed THEN Append(inbox, outbox[i].msg) ELSE inbox
  /\ UNCHANGED <<bridge, ingestion, pub, waiting, published, resent, failed, used>>

\* External: the acknowledgement arrives, and ends the wait for its message.
Acknowledge ==
  /\ pub = "up" /\ outbox # << >> /\ Head(outbox).sent
  /\ outbox' = Tail(outbox)
  /\ waiting' = IF waiting = Head(outbox).msg THEN Nil ELSE waiting
  /\ UNCHANGED <<bridge, inbox, ingestion, pub, published, resent, failed, used>>

\* Five seconds without it: wait_for_publish returns as if it had come.
WaitEnds ==
  /\ waiting # Nil
  /\ Fault
  /\ waiting' = Nil
  /\ UNCHANGED <<bridge, inbox, ingestion, pub, outbox, published, resent, failed>>

\* External: the publisher's connection breaks; what it had sent without an
\* acknowledgement goes out again with the next one.
LosePublisher ==
  /\ pub = "up"
  /\ Spend("drops", MaxDrops)
  /\ pub' = "lost"
  /\ outbox' = [i \in DOMAIN outbox |-> [outbox[i] EXCEPT !.sent = FALSE]]
  /\ resent' = [m \in Messages |->
       IF \E i \in DOMAIN outbox : outbox[i].msg = m /\ outbox[i].sent
       THEN resent[m] + 1 ELSE resent[m]]
  /\ UNCHANGED <<bridge, inbox, ingestion, waiting, published, failed>>

Reconnect ==
  /\ pub = "lost"
  /\ pub' = "up"
  /\ UNCHANGED <<bridge, inbox, ingestion, outbox, waiting, published, resent, failed, used>>

\* The cycles are over: disconnect, whatever has not been acknowledged.
Disconnect ==
  /\ pub \in {"up", "lost"} /\ waiting = Nil
  /\ pub' = "over" /\ outbox' = << >>
  /\ UNCHANGED <<bridge, inbox, ingestion, waiting, published, resent, failed, used>>

-----------------------------------------------------------------------------
(* The bridge's messages.                                                  *)

\* _on_message, and _handle_message up to the post
OnMessage ==
  /\ posting = Nil /\ inbox # << >>
  /\ inbox' = Tail(inbox)
  /\ \/ Kind[Head(inbox)] = "unparsable"
        /\ Count({"received", "errors"}) /\ UNCHANGED posting
     \/ Kind[Head(inbox)] = "invalid"
        /\ Count({"received", "handled", "validation_failures"}) /\ UNCHANGED posting
     \/ Kind[Head(inbox)] = "valid" /\ Count({"received"}) /\ posting' = Head(inbox)
  /\ UNCHANGED <<conn, subscribed, ingestion, publisher, failed, used>>

\* _handle_message: the post is answered 2xx.
PostSucceeds ==
  /\ posting # Nil
  /\ ingested' = Append(ingested, posting)
  /\ Count({"forwarded", "handled"})
  /\ posting' = Nil
  /\ UNCHANGED <<conn, subscribed, inbox, late, publisher, failed, used>>

\* Mutant: a failed post is tried again.
PostFails_Retries ==
  /\ posting # Nil
  /\ Fault
  /\ \/ ingested' = Append(ingested, posting) /\ UNCHANGED late
     \/ late' = Append(late, posting) /\ UNCHANGED ingested
     \/ UNCHANGED <<late, ingested>>
  /\ failed' = failed \union {posting}
  /\ UNCHANGED <<bridge, inbox, publisher>>

\* Mutant: the bridge does not wait for the answer.
PostFails_Unnoticed ==
  /\ posting # Nil
  /\ Fault
  /\ late' = Append(late, posting) /\ UNCHANGED ingested
  /\ Count({"forwarded", "handled"})
  /\ posting' = Nil
  /\ UNCHANGED <<conn, subscribed, inbox, publisher, failed>>

\* It is not: the peer may have executed it, may do so later, or never.
PostFails ==
  /\ posting # Nil
  /\ Fault
  /\ \/ ingested' = Append(ingested, posting) /\ UNCHANGED late
     \/ late' = Append(late, posting) /\ UNCHANGED ingested
     \/ UNCHANGED <<late, ingested>>
  /\ failed' = failed \union {posting}
  /\ Count({"forward_failures", "handled"})
  /\ posting' = Nil
  /\ UNCHANGED <<conn, subscribed, inbox, publisher>>

\* External: the ingestion peer gets to a request that nobody waits for.
ExecuteLate ==
  /\ \E i \in DOMAIN late : late' = RemoveAt(late, i) /\ ingested' = Append(ingested, late[i])
  /\ UNCHANGED <<bridge, inbox, publisher, failed, used>>

\* The process ends, with a post under way or not, and is started again.
CrashAndRestart ==
  /\ Spend("crashes", MaxCrashes)
  /\ conn' = "down" /\ subscribed' = FALSE /\ inbox' = << >>
  /\ counters' = Zero /\ posting' = Nil
  /\ \/ posting # Nil /\ late' = Append(late, posting)
     \/ UNCHANGED late
  /\ failed' = IF posting = Nil THEN failed ELSE failed \union {posting}
  /\ UNCHANGED <<ingested, publisher>>

Next ==
  \/ Start \/ OnConnect \/ ConnectRefused \/ Drop
  \/ Connect \/ Publish \/ Transmit \/ Acknowledge \/ WaitEnds
  \/ LosePublisher \/ Reconnect \/ Disconnect
  \/ OnMessage \/ PostSucceeds \/ PostFails
  \/ ExecuteLate \/ CrashAndRestart

Spec == Init /\ [][Next]_vars

\* The event loop runs lifespan; the network thread connects and calls back; the
\* HTTP client ends every post by its timeout.
Fairness ==
  /\ WF_vars(Start) /\ WF_vars(OnConnect) /\ WF_vars(OnMessage)
  /\ WF_vars(PostSucceeds \/ PostFails)

FairSpec == Spec /\ Fairness

-----------------------------------------------------------------------------
(* Properties.                                                             *)

\* Type invariant.
TypeOK ==
  /\ conn \in {"down", "failed", "connecting", "connected"}
  /\ subscribed \in BOOLEAN /\ (subscribed => conn = "connected")
  /\ pub \in {"idle", "up", "lost", "over"} /\ waiting \in Messages \union {Nil}
  /\ outbox \in Seq([msg : Messages, sent : BOOLEAN]) /\ posting \in Messages \union {Nil}
  /\ counters \in [CounterNames -> Nat] /\ resent \in [Messages -> Nat]
  /\ published \in 0..Len(Kind)
  /\ {inbox, late, ingested} \subseteq Seq(Messages)

\* What /health reports adds up: every message received is handled, an error or
\* being posted, and every handled one was forwarded, failed or invalid.
CountersAddUp ==
  /\ counters["received"] = counters["handled"] + counters["errors"]
                            + (IF posting = Nil THEN 0 ELSE 1)
  /\ counters["handled"] = counters["forwarded"] + counters["forward_failures"]
                           + counters["validation_failures"]

\* How often m is in s, and how many copies of it are between broker and peer.
Times(s, m) == Cardinality({i \in DOMAIN s : s[i] = m})

Copies(m) ==
  Times(inbox, m) + Times(late, m) + Times(ingested, m) + (IF posting = m THEN 1 ELSE 0)

\* A message is ingested once for each time it was sent, at most: the bridge never
\* repeats a post, whatever times out or crashes, and only a publisher that lost
\* its connection before the acknowledgement sends a message again.
IngestedOncePerSend == \A m \in Messages : Copies(m) <= 1 + resent[m]

\* The ingestion peer computes price changes between consecutive messages: one
\* that is overtaken is one whose post the bridge has given up or that the
\* publisher has sent twice.
OnlyFailedAreOvertaken ==
  \A i, j \in DOMAIN ingested :
    (i < j /\ ingested[i] > ingested[j])
      => ingested[j] \in failed \/ resent[ingested[j]] > 0

\* If it could start, the bridge is subscribed again after every lost connection,
\* and takes what was published since.
BridgeRecovers ==
  <>[](conn = "failed" \/ (subscribed /\ inbox = << >> /\ posting = Nil))

-----------------------------------------------------------------------------
(* The inductive invariant: what is still to be sent, posted and executed. *)

\* The publisher's queue is in order, and of what it has published.
QueueInOrder ==
  /\ \A i \in DOMAIN outbox : outbox[i].msg <= published
  /\ \A i, j \in DOMAIN outbox : i < j => outbox[i].msg < outbox[j].msg

\* Message m will be sent, or sent again.
Pending(m) == m > published \/ \E i \in DOMAIN outbox : outbox[i].msg = m /\ ~outbox[i].sent

\* Sending it again is paid for already.
SendsPaid == \A m \in Messages : Pending(m) => Copies(m) <= resent[m]

\* What the bridge has taken from the broker.
Taken == ToSet(ingested) \union ToSet(late) \union {posting}

\* Nothing is ahead of an earlier message that was sent once, and what is executed
\* late was given up.
InLine ==
  /\ ToSet(late) \subseteq failed
  /\ (posting # Nil /\ resent[posting] = 0) => \A x \in Taken : x <= posting
  /\ \A k \in DOMAIN inbox : resent[inbox[k]] = 0 =>
       \A x \in Taken \union {inbox[l] : l \in 1..k} : x <= inbox[k]
  /\ \A m \in Messages : (Pending(m) /\ resent[m] = 0) =>
       \A x \in Taken \union ToSet(inbox) : x <= m

LineInv ==
  /\ TypeOK /\ CountersAddUp /\ IngestedOncePerSend
  /\ QueueInOrder /\ SendsPaid /\ InLine

\* What has not been published is nowhere.
NothingBeforePublished ==
  \A m \in Messages : m > published => Copies(m) = 0 /\ resent[m] = 0

\* The types, the counters of /health, no message ingested more often than sent or
\* before it was published, and what the messages under way will do about it.
BridgeInv == LineInv /\ NothingBeforePublished
=============================================================================
