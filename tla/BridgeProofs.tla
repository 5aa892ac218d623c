---------------------------- MODULE BridgeProofs -----------------------------
(***************************************************************************)
(* Proofs about the IoT bridge: BridgeInv is inductive for any messages    *)
(* and any number of faults, lost connections and crashes, and with it how *)
(* often and in which order messages reach the ingestion peer.             *)
(***************************************************************************)
EXTENDS IotBridge, FiniteSetTheorems, FunctionTheorems, SequenceTheorems, TLAPS

-----------------------------------------------------------------------------
(* Sequences, and how often an element is in them.                         *)

\* Where m is in s.
At(s, m) == {i \in DOMAIN s : s[i] = m}

\* The positions of an element are finitely many.
LEMMA AtFinite ==
  ASSUME NEW S, NEW s \in Seq(S), NEW m
  PROVE  IsFiniteSet(At(s, m)) /\ Times(s, m) = Cardinality(At(s, m)) /\ Times(s, m) \in Nat
<1>1. DOMAIN s = 1..Len(s) /\ Len(s) \in Int
  OBVIOUS
<1>2. IsFiniteSet(1..Len(s))
  BY <1>1, FS_Interval
<1>3. At(s, m) \in SUBSET (1..Len(s))
  BY <1>1 DEF At
<1>4. IsFiniteSet(At(s, m))
  BY <1>2, <1>3, FS_Subset
<1>5. Times(s, m) = Cardinality(At(s, m))
  BY DEF Times, At
<1> QED
  BY <1>4, <1>5, FS_CardinalityType

LEMMA TimesEmpty ==
  ASSUME NEW m
  PROVE  Times(<< >>, m) = 0
<1>1. {i \in DOMAIN << >> : << >>[i] = m} = {}
  OBVIOUS
<1> QED
  BY <1>1, FS_EmptySet DEF Times

LEMMA TimesAppend ==
  ASSUME NEW S, NEW s \in Seq(S), NEW e \in S, NEW m
  PROVE  Times(Append(s, e), m) = Times(s, m) + (IF e = m THEN 1 ELSE 0)
<1>1. PICK t : t = Append(s, e)
  OBVIOUS
<1>2. /\ t \in Seq(S) /\ DOMAIN t = 1..(Len(s) + 1) /\ DOMAIN s = 1..Len(s)
      /\ Len(s) \in Nat /\ t[Len(s) + 1] = e /\ \A k \in 1..Len(s) : t[k] = s[k]
  BY <1>1
<1>3. IsFiniteSet(At(s, m)) /\ Times(s, m) = Cardinality(At(s, m)) /\ Times(s, m) \in Nat
  BY AtFinite
<1>4. Times(Append(s, e), m) = Cardinality(At(t, m))
  BY <1>1, <1>2, AtFinite
<1>5. CASE e = m
  <2>1. At(t, m) = At(s, m) \union {Len(s) + 1} /\ Len(s) + 1 \notin At(s, m)
    BY <1>2, <1>5 DEF At
  <2> QED
    <3>1. Cardinality(At(s, m) \union {Len(s) + 1}) = Cardinality(At(s, m)) + 1
      BY <1>3, <2>1, FS_AddElement
    <3> QED
      BY <1>3, <1>4, <1>5, <2>1, <3>1
<1>6. CASE e # m
  <2>1. At(t, m) = At(s, m)
    BY <1>2, <1>6 DEF At
  <2> QED
    BY <1>3, <1>4, <1>6, <2>1
<1> QED
  BY <1>5, <1>6

\* The sequence t is s without its element at i.
Without(t, s, i) ==
  /\ Len(t) = Len(s) - 1
  /\ \A k \in 1..(Len(s) - 1) : t[k] = IF k < i THEN s[k] ELSE s[k + 1]

LEMMA TimesWithout ==
  ASSUME NEW S, NEW s \in Seq(S), NEW t \in Seq(S), NEW i \in 1..Len(s), Without(t, s, i), NEW m
  PROVE  Times(t, m) = Times(s, m) - (IF s[i] = m THEN 1 ELSE 0)
<1>1. /\ DOMAIN t = 1..(Len(s) - 1) /\ DOMAIN s = 1..Len(s) /\ Len(s) \in Nat /\ i \in Nat
      /\ \A k \in 1..(Len(s) - 1) : t[k] = IF k < i THEN s[k] ELSE s[k + 1]
  BY DEF Without
<1>2. PICK T : T = At(t, m)
  OBVIOUS
<1>3. PICK U : U = At(s, m) \ {i}
  OBVIOUS
<1>4. PICK f : f = [k \in T |-> IF k < i THEN k ELSE k + 1]
  OBVIOUS
<1>5. \A k \in T : k \in 1..(Len(s) - 1) /\ t[k] = m
  BY <1>1, <1>2 DEF At
<1>6. \A k \in T : f[k] \in U
  <2>1. ASSUME NEW k \in T PROVE f[k] \in U
    <3>1. k \in 1..(Len(s) - 1) /\ t[k] = m /\ f[k] = IF k < i THEN k ELSE k + 1
      BY <1>4, <1>5
    <3>2. f[k] \in 1..Len(s) /\ f[k] # i /\ s[f[k]] = m
      BY <1>1, <3>1
    <3> QED
      BY <1>1, <1>3, <3>2 DEF At
  <2> QED
    BY <2>1
<1>7. f \in [T -> U]
  BY <1>4, <1>6
<1>8. \A j, k \in T : f[j] = f[k] => j = k
  BY <1>1, <1>4, <1>5
<1>9. \A u \in U : \E k \in T : f[k] = u
  <2>1. ASSUME NEW u \in U PROVE \E k \in T : f[k] = u
    <3>1. u \in 1..Len(s) /\ u # i /\ s[u] = m
      BY <1>1, <1>3 DEF At
    <3>2. CASE u < i
      <4>1. u \in 1..(Len(s) - 1) /\ t[u] = m
        BY <1>1, <3>1, <3>2
      <4>2. u \in T
        BY <1>1, <1>2, <4>1 DEF At
      <4> QED
        BY <1>4, <3>2, <4>2
    <3>3. CASE ~(u < i)
      <4>1. PICK k : k = u - 1
        OBVIOUS
      <4>2. k \in 1..(Len(s) - 1) /\ ~(k < i) /\ k + 1 = u
        BY <1>1, <3>1, <3>3, <4>1
      <4>3. t[k] = m
        BY <1>1, <3>1, <4>2
      <4>4. k \in T
        BY <1>1, <1>2, <4>2, <4>3 DEF At
      <4> QED
        BY <1>4, <4>2, <4>4
    <3> QED
      BY <3>2, <3>3
  <2> QED
    BY <2>1
<1>10. f \in Bijection(T, U)
  BY <1>7, <1>8, <1>9, Fun_IsBij
<1>11. ExistsBijection(T, U)
  BY <1>10, Fun_ExistsBij
<1>12. IsFiniteSet(T) /\ IsFiniteSet(At(s, m))
  BY <1>2, AtFinite
<1>13. Cardinality(U) = Cardinality(T)
  BY <1>11, <1>12, FS_Bijection
<1>14. Cardinality(U) = IF i \in At(s, m) THEN Cardinality(At(s, m)) - 1 ELSE Cardinality(At(s, m))
  BY <1>3, <1>12, FS_RemoveElement
<1>15. i \in At(s, m) <=> s[i] = m
  BY <1>1 DEF At
<1>16. Times(t, m) = Cardinality(T) /\ Times(s, m) = Cardinality(At(s, m)) /\ Times(s, m) \in Nat
  BY <1>2, AtFinite
<1> QED
  <2>1. CASE s[i] = m
    <3>1. Cardinality(U) = Cardinality(At(s, m)) - 1
      BY <1>14, <1>15, <2>1
    <3> QED
      BY <1>13, <1>16, <2>1, <3>1
  <2>2. CASE s[i] # m
    <3>1. Cardinality(U) = Cardinality(At(s, m))
      BY <1>14, <1>15, <2>2
    <3> QED
      BY <1>13, <1>16, <2>2, <3>1
  <2> QED
    BY <2>1, <2>2

\* RemoveAt and Tail.
LEMMA RemoveFacts ==
  ASSUME NEW S, NEW s \in Seq(S), NEW i \in 1..Len(s)
  PROVE  RemoveAt(s, i) \in Seq(S) /\ Without(RemoveAt(s, i), s, i)
<1> DEFINE front == SubSeq(s, 1, i - 1)
           back  == SubSeq(s, i + 1, Len(s))
<1>1. Len(s) \in Nat /\ i \in Nat /\ 1 <= i /\ i <= Len(s) /\ \A k \in 1..Len(s) : s[k] \in S
  OBVIOUS
<1>2. /\ front \in Seq(S) /\ Len(front) = i - 1
      /\ \A k \in 1..(i - 1) : front[k] = s[k]
  <2>1. 1 \in Int /\ i - 1 \in Int /\ \A k \in 1..(i - 1) : s[k] \in S
    BY <1>1
  <2>2. /\ front \in Seq(S) /\ Len(front) = IF 1 <= i - 1 THEN i - 1 - 1 + 1 ELSE 0
        /\ \A k \in 1..(i - 1 - 1 + 1) : front[k] = s[1 + k - 1]
    BY <2>1, SubSeqProperties
  <2> HIDE DEF front
  <2> QED
    BY <1>1, <2>2
<1>3. /\ back \in Seq(S) /\ Len(back) = Len(s) - i
      /\ \A k \in 1..(Len(s) - i) : back[k] = s[k + i]
  <2>1. i + 1 \in Int /\ Len(s) \in Int /\ \A k \in (i + 1)..Len(s) : s[k] \in S
    BY <1>1
  <2>2. /\ back \in Seq(S)
        /\ Len(back) = IF i + 1 <= Len(s) THEN Len(s) - (i + 1) + 1 ELSE 0
        /\ \A k \in 1..(Len(s) - (i + 1) + 1) : back[k] = s[(i + 1) + k - 1]
    BY <2>1, SubSeqProperties
  <2> HIDE DEF back
  <2> QED
    BY <1>1, <2>2
<1>4. RemoveAt(s, i) = front \o back
  BY DEF RemoveAt
<1> HIDE DEF front, back
<1>5. /\ front \o back \in Seq(S) /\ Len(front \o back) = Len(front) + Len(back)
      /\ \A k \in 1..(Len(front) + Len(back)) :
           (front \o back)[k] = IF k <= Len(front) THEN front[k] ELSE back[k - Len(front)]
  BY <1>2, <1>3, ConcatProperties
<1> QED
  BY <1>1, <1>2, <1>3, <1>4, <1>5 DEF Without

LEMMA TailFacts ==
  ASSUME NEW S, NEW s \in Seq(S), s # << >>
  PROVE  /\ Tail(s) \in Seq(S) /\ Without(Tail(s), s, 1) /\ 1 \in 1..Len(s)
         /\ Head(s) = s[1] /\ Head(s) \in S
<1>1. Tail(s) \in Seq(S) /\ Len(Tail(s)) = Len(s) - 1 /\ Len(s) \in Nat /\ Len(s) > 0
  OBVIOUS
<1>2. \A k \in 1..(Len(s) - 1) : Tail(s)[k] = s[k + 1]
  BY <1>1
<1> QED
  BY <1>1, <1>2 DEF Without

\* ToSet of what these operators return.
LEMMA RangeFacts ==
  ASSUME NEW S, NEW s \in Seq(S)
  PROVE  /\ ToSet(s) \subseteq S /\ ToSet(<< >>) = {}
         /\ \A e \in S : ToSet(Append(s, e)) = ToSet(s) \union {e}
         /\ \A t \in Seq(S), i \in 1..Len(s) :
              Without(t, s, i) => ToSet(t) \subseteq ToSet(s) /\ s[i] \in ToSet(s)
<1>1. DOMAIN s = 1..Len(s) /\ Len(s) \in Nat
  OBVIOUS
<1>2. ToSet(s) \subseteq S /\ ToSet(<< >>) = {}
  BY <1>1 DEF ToSet
<1>3. ASSUME NEW e \in S PROVE ToSet(Append(s, e)) = ToSet(s) \union {e}
  <2>1. PICK t : t = Append(s, e)
    OBVIOUS
  <2>2. /\ DOMAIN t = 1..(Len(s) + 1) /\ t[Len(s) + 1] = e
        /\ \A k \in 1..Len(s) : t[k] = s[k]
    BY <2>1
  <2> QED
    BY <1>1, <2>1, <2>2 DEF ToSet
<1>4. ASSUME NEW t \in Seq(S), NEW i \in 1..Len(s), Without(t, s, i)
      PROVE  ToSet(t) \subseteq ToSet(s) /\ s[i] \in ToSet(s)
  <2>1. /\ DOMAIN t = 1..(Len(s) - 1)
        /\ \A k \in 1..(Len(s) - 1) : t[k] = IF k < i THEN s[k] ELSE s[k + 1]
    BY <1>4 DEF Without
  <2>2. \A k \in DOMAIN t : \E j \in DOMAIN s : t[k] = s[j]
    <3>1. ASSUME NEW k \in DOMAIN t PROVE \E j \in DOMAIN s : t[k] = s[j]
      <4>1. k \in DOMAIN s /\ k + 1 \in DOMAIN s /\ t[k] \in {s[k], s[k + 1]}
        BY <1>1, <2>1
      <4> QED
        BY <4>1
    <3> QED
      BY <3>1
  <2> QED
    BY <1>1, <2>2 DEF ToSet
<1> QED
  BY <1>2, <1>3, <1>4

-----------------------------------------------------------------------------
(* The state.                                                              *)

LEMMA ElementFacts ==
  ASSUME NEW S, NEW s \in Seq(S)
  PROVE  /\ Len(s) \in Nat /\ DOMAIN s = 1..Len(s) /\ \A i \in DOMAIN s : s[i] \in S
  OBVIOUS

\* The types, one by one.
LEMMA StateFacts ==
  ASSUME TypeOK
  PROVE  /\ Messages = 1..Len(Kind) /\ Len(Kind) \in Nat
         /\ inbox \in Seq(Messages) /\ late \in Seq(Messages) /\ ingested \in Seq(Messages)
         /\ outbox \in Seq([msg : Messages, sent : BOOLEAN])
         /\ posting \in Messages \union {Nil} /\ resent \in [Messages -> Nat]
         /\ published \in 0..Len(Kind) /\ counters \in [CounterNames -> Nat]
         /\ DOMAIN outbox = 1..Len(outbox) /\ Len(outbox) \in Nat
         /\ \A i \in DOMAIN outbox : /\ outbox[i] \in [msg : Messages, sent : BOOLEAN]
                                     /\ outbox[i].msg \in Messages
         /\ DOMAIN inbox = 1..Len(inbox) /\ Len(inbox) \in Nat
         /\ \A k \in DOMAIN inbox : inbox[k] \in Messages
<1>1. Messages = 1..Len(Kind) /\ Len(Kind) \in Nat
  BY KindAssumption DEF Messages
<1>2. /\ inbox \in Seq(Messages) /\ late \in Seq(Messages) /\ ingested \in Seq(Messages)
      /\ outbox \in Seq([msg : Messages, sent : BOOLEAN])
  BY DEF TypeOK
<1>3. /\ \A i \in DOMAIN outbox : outbox[i] \in [msg : Messages, sent : BOOLEAN]
      /\ Len(outbox) \in Nat /\ DOMAIN outbox = 1..Len(outbox)
  BY <1>2, ElementFacts
<1> QED
  BY <1>1, <1>2, <1>3 DEF TypeOK

\* The numbers of copies are natural numbers.
LEMMA CopiesFacts ==
  TypeOK => \A m \in Messages :
    /\ Times(inbox, m) \in Nat /\ Times(late, m) \in Nat /\ Times(ingested, m) \in Nat
    /\ Copies(m) \in Nat /\ resent[m] \in Nat
<1> SUFFICES ASSUME TypeOK, NEW m \in Messages
             PROVE  /\ Times(inbox, m) \in Nat /\ Times(late, m) \in Nat
                    /\ Times(ingested, m) \in Nat /\ Copies(m) \in Nat /\ resent[m] \in Nat
  OBVIOUS
<1>1. Times(inbox, m) \in Nat /\ Times(late, m) \in Nat /\ Times(ingested, m) \in Nat
  BY StateFacts, AtFinite
<1>2. resent[m] \in Nat
  BY StateFacts
<1> QED
  BY <1>1, <1>2 DEF Copies

\* No copy is new, and nothing more is to be sent.
LEMMA MovedOn ==
  ASSUME LineInv, TypeOK', resent' = resent,
         \A m \in Messages : Copies(m)' <= Copies(m),
         \A m \in Messages : Pending(m)' => Pending(m)
  PROVE  IngestedOncePerSend' /\ SendsPaid'
<1>1. \A m \in Messages : Copies(m) \in Nat /\ resent[m] \in Nat
  BY CopiesFacts DEF LineInv
<1>2. (TypeOK => \A m \in Messages :
          /\ Times(inbox, m) \in Nat /\ Times(late, m) \in Nat /\ Times(ingested, m) \in Nat
          /\ Copies(m) \in Nat /\ resent[m] \in Nat)'
  BY CopiesFacts, PTL
<1>3. \A m \in Messages : Copies(m)' \in Nat
  BY <1>2
<1>4. \A m \in Messages : Copies(m) <= 1 + resent[m] /\ (Pending(m) => Copies(m) <= resent[m])
  BY DEF LineInv, IngestedOncePerSend, SendsPaid
<1>5. \A m \in Messages : Copies(m)' <= 1 + resent'[m] /\ (Pending(m)' => Copies(m)' <= resent'[m])
  BY <1>1, <1>3, <1>4
<1> QED
  BY <1>5 DEF IngestedOncePerSend, SendsPaid

\* What was taken stays behind what comes, or the broker has forgotten it.
LEMMA LineKept ==
  ASSUME LineInv, ToSet(late)' \subseteq failed', Taken' \subseteq Taken \union {Nil},
         posting' \in {posting, Nil}, inbox' \in {inbox, << >>},
         \A m \in Messages : resent'[m] = 0 => resent[m] = 0,
         \A m \in Messages : (Pending(m)' /\ resent'[m] = 0) => Pending(m)
  PROVE  InLine'
<1>1. /\ Messages = 1..Len(Kind) /\ Len(Kind) \in Nat
      /\ posting \in Messages \union {Nil} /\ inbox \in Seq(Messages)
      /\ DOMAIN inbox = 1..Len(inbox) /\ Len(inbox) \in Nat
      /\ \A k \in DOMAIN inbox : inbox[k] \in Messages
  BY StateFacts DEF LineInv
<1>2. /\ (posting # Nil /\ resent[posting] = 0) => \A x \in Taken : x <= posting
      /\ \A k \in DOMAIN inbox : resent[inbox[k]] = 0 =>
           \A x \in Taken \union {inbox[l] : l \in 1..k} : x <= inbox[k]
      /\ \A m \in Messages : (Pending(m) /\ resent[m] = 0) =>
           \A x \in Taken \union ToSet(inbox) : x <= m
  BY DEF LineInv, InLine
<1>3. \A m \in Messages : Nil <= m /\ m # Nil
  BY <1>1 DEF Nil
<1>4. (posting' # Nil /\ resent'[posting'] = 0) => \A x \in Taken' : x <= posting'
  BY <1>1, <1>2, <1>3
<1>5. \A k \in DOMAIN inbox' : resent'[inbox'[k]] = 0 =>
        \A x \in Taken' \union {inbox'[l] : l \in 1..k} : x <= inbox'[k]
  <2>1. CASE inbox' = inbox
    BY <1>1, <1>2, <1>3, <2>1
  <2>2. CASE inbox' = << >>
    BY <2>2
  <2> QED
    BY <2>1, <2>2
<1>6. ToSet(inbox') \subseteq ToSet(inbox)
  BY <1>1, RangeFacts
<1>7. \A m \in Messages : (Pending(m)' /\ resent'[m] = 0) =>
        \A x \in Taken' \union ToSet(inbox') : x <= m
  BY <1>2, <1>3, <1>6
<1> QED
  BY <1>4, <1>5, <1>7 DEF InLine

-----------------------------------------------------------------------------
(* The publisher.                                                          *)

\* The bridge and its messages are left alone, and nothing more is to be sent.
LEMMA QuietStep ==
  ASSUME LineInv, TypeOK', QueueInOrder', resent' = resent,
         UNCHANGED <<posting, counters, inbox, late, ingested, failed>>,
         \A m \in Messages : Pending(m)' => Pending(m)
  PROVE  LineInv'
<1>1. \A m \in Messages : Copies(m)' <= Copies(m)
  <2>1. \A m \in Messages : Copies(m)' = Copies(m)
    BY DEF Copies
  <2>2. \A m \in Messages : Copies(m) \in Nat
    BY CopiesFacts DEF LineInv
  <2> QED
    BY <2>1, <2>2
<1>2. IngestedOncePerSend' /\ SendsPaid'
  BY <1>1, MovedOn
<1>3. Taken' = Taken /\ ToSet(late)' \subseteq failed'
  BY DEF Taken, LineInv, InLine
<1>4. InLine'
  BY <1>3, LineKept
<1>5. CountersAddUp'
  BY DEF LineInv, CountersAddUp
<1> QED
  BY <1>2, <1>4, <1>5 DEF LineInv

\* Connections, and the end of a wait.
LEMMA ConnectionStep ==
  ASSUME LineInv,
         \/ Start \/ OnConnect \/ ConnectRefused \/ Connect \/ WaitEnds \/ Reconnect
  PROVE  LineInv'
<1>1. UNCHANGED <<posting, counters, inbox, late, ingested, failed, outbox, published, resent>>
  BY DEF Start, OnConnect, ConnectRefused, Connect, WaitEnds, Reconnect, bridge, ingestion,
         publisher
<1>2. TypeOK /\ QueueInOrder
  BY DEF LineInv
<1>3. /\ conn' \in {"down", "failed", "connecting", "connected"}
      /\ subscribed' \in BOOLEAN /\ (subscribed' => conn' = "connected")
      /\ pub' \in {"idle", "up", "lost", "over"} /\ waiting' \in Messages \union {Nil}
  <2>1. /\ conn \in {"down", "failed", "connecting", "connected"}
        /\ subscribed \in BOOLEAN /\ (subscribed => conn = "connected")
        /\ pub \in {"idle", "up", "lost", "over"} /\ waiting \in Messages \union {Nil}
    BY <1>2 DEF TypeOK
  <2>2. CASE Start
    <3>1. /\ conn = "down" /\ conn' \in {"connecting", "failed"}
          /\ UNCHANGED <<subscribed, pub, waiting>>
      BY <2>2 DEF Start, publisher
    <3> QED
      BY <2>1, <3>1
  <2>3. CASE OnConnect
    <3>1. conn' = "connected" /\ subscribed' = TRUE /\ UNCHANGED <<pub, waiting>>
      BY <2>3 DEF OnConnect, publisher
    <3> QED
      BY <2>1, <3>1
  <2>4. CASE ConnectRefused \/ Connect \/ WaitEnds \/ Reconnect
    <3>1. /\ UNCHANGED <<conn, subscribed>> /\ pub' \in {pub, "up", "over"}
          /\ waiting' \in {waiting, Nil}
      BY <2>4 DEF ConnectRefused, Connect, WaitEnds, Reconnect, bridge, publisher
    <3> QED
      BY <2>1, <3>1
  <2> QED
    BY <2>2, <2>3, <2>4
<1>4. TypeOK'
  BY <1>1, <1>2, <1>3 DEF TypeOK
<1>5. QueueInOrder'
  BY <1>1, <1>2 DEF QueueInOrder
<1>6. \A m \in Messages : Pending(m)' => Pending(m)
  BY <1>1 DEF Pending
<1> QED
  BY <1>1, <1>4, <1>5, <1>6, QuietStep

\* What TypeOK says of what the publisher leaves alone.
LEMMA PublisherTypes ==
  ASSUME TypeOK, UNCHANGED <<conn, subscribed, posting, counters, inbox, late, ingested>>,
         pub' \in {"idle", "up", "lost", "over"}, waiting' \in Messages \union {Nil},
         outbox' \in Seq([msg : Messages, sent : BOOLEAN]), resent' \in [Messages -> Nat],
         published' \in 0..Len(Kind)
  PROVE  TypeOK'
  BY DEF TypeOK

\* The queue is thrown away.
LEMMA DisconnectStep ==
  ASSUME LineInv, outbox' = << >>, published' \in {published, published + 1},
         published' \in 0..Len(Kind), waiting' = waiting, pub' = "over", resent' = resent,
         UNCHANGED <<conn, subscribed, posting, counters, inbox, late, ingested, failed>>
  PROVE  LineInv'
<1>1. outbox' \in Seq([msg : Messages, sent : BOOLEAN])
  OBVIOUS
<1>2. TypeOK'
  BY <1>1, PublisherTypes DEF LineInv, TypeOK
<1>3. QueueInOrder'
  BY DEF QueueInOrder
<1>4. \A m \in Messages : Pending(m)' => Pending(m)
  <2>1. published \in Nat /\ \A m \in Messages : m \in Nat
    BY StateFacts DEF LineInv
  <2> QED
    BY <2>1 DEF Pending
<1> QED
  BY <1>2, <1>3, <1>4, QuietStep

LEMMA PublishStep ==
  ASSUME LineInv, Publish
  PROVE  LineInv'
<1>1. /\ UNCHANGED <<conn, subscribed, posting, counters, inbox, late, ingested, failed, resent>>
      /\ published' = published + 1 /\ published < Len(Kind)
  BY DEF Publish, bridge, ingestion
<1>2. /\ TypeOK /\ Messages = 1..Len(Kind) /\ Len(Kind) \in Nat /\ published \in 0..Len(Kind)
      /\ outbox \in Seq([msg : Messages, sent : BOOLEAN])
      /\ DOMAIN outbox = 1..Len(outbox) /\ Len(outbox) \in Nat
      /\ \A i \in DOMAIN outbox : outbox[i].msg \in Messages
  BY StateFacts DEF LineInv
<1>3. published' \in 0..Len(Kind) /\ published' \in Messages
  BY <1>1, <1>2
<1>4. CASE pub = "up"
  <2>1. PICK n : n = [msg |-> published + 1, sent |-> FALSE]
    OBVIOUS
  <2>2. n \in [msg : Messages, sent : BOOLEAN] /\ n.msg = published + 1 /\ ~n.sent
    BY <1>1, <1>3, <2>1
  <2>3. outbox' = Append(outbox, n) /\ waiting' = published' /\ pub' = pub
    BY <1>1, <1>4, <2>1 DEF Publish
  <2>4. /\ outbox' \in Seq([msg : Messages, sent : BOOLEAN])
        /\ DOMAIN outbox' = 1..(Len(outbox) + 1) /\ outbox'[Len(outbox) + 1] = n
        /\ \A i \in 1..Len(outbox) : outbox'[i] = outbox[i]
    BY <1>2, <2>2, <2>3
  <2>5. TypeOK'
    BY <1>1, <1>2, <1>3, <2>3, <2>4, PublisherTypes DEF TypeOK
  <2>6. QueueInOrder'
    <3>1. /\ \A i \in 1..Len(outbox) : outbox'[i].msg <= published
          /\ \A i, j \in 1..Len(outbox) : i < j => outbox'[i].msg < outbox'[j].msg
      BY <1>2, <2>4 DEF LineInv, QueueInOrder
    <3>2. \A i \in 1..Len(outbox) : outbox'[i].msg \in Nat
      <4>1. \A i \in 1..Len(outbox) : outbox'[i].msg \in Messages
        BY <1>2, <2>4
      <4>2. Messages \subseteq Nat
        BY <1>2
      <4> QED
        BY <4>1, <4>2
    <3>3. ASSUME NEW i \in DOMAIN outbox' PROVE outbox'[i].msg <= published'
      <4>1. i \in 1..Len(outbox) \/ i = Len(outbox) + 1
        BY <1>2, <2>4
      <4>2. CASE i \in 1..Len(outbox)
        <5>1. outbox'[i].msg <= published /\ outbox'[i].msg \in Nat /\ published \in Nat
          BY <1>2, <3>1, <3>2, <4>2
        <5> QED
          BY <1>1, <5>1
      <4>3. CASE i = Len(outbox) + 1
        <5>1. outbox'[i].msg = published + 1 /\ published \in Nat
          BY <1>2, <2>2, <2>4, <4>3
        <5> QED
          BY <1>1, <5>1
      <4> QED
        BY <4>1, <4>2, <4>3
    <3>4. ASSUME NEW i \in DOMAIN outbox', NEW j \in DOMAIN outbox', i < j
          PROVE  outbox'[i].msg < outbox'[j].msg
      <4>1. i \in 1..Len(outbox)
        BY <1>2, <2>4, <3>4
      <4>2. CASE j \in 1..Len(outbox)
        BY <3>1, <3>4, <4>1, <4>2
      <4>3. CASE j = Len(outbox) + 1
        BY <1>2, <2>2, <2>4, <3>1, <3>2, <4>1, <4>3
      <4> QED
        BY <1>2, <2>4, <4>2, <4>3
    <3> QED
      BY <3>3, <3>4 DEF QueueInOrder
  <2>7. ASSUME NEW m \in Messages, Pending(m)' PROVE Pending(m)
    <3>1. CASE m > published'
      BY <1>1, <1>2, <3>1 DEF Pending
    <3>2. CASE \E i \in DOMAIN outbox' : outbox'[i].msg = m /\ ~outbox'[i].sent
      <4>1. PICK i \in DOMAIN outbox' : outbox'[i].msg = m /\ ~outbox'[i].sent
        BY <3>2
      <4>2. CASE i = Len(outbox) + 1
        BY <1>2, <2>2, <2>4, <4>1, <4>2 DEF Pending
      <4>3. CASE i \in DOMAIN outbox
        BY <1>2, <2>4, <4>1, <4>3 DEF Pending
      <4> QED
        BY <1>2, <2>4, <4>2, <4>3
    <3> QED
      BY <2>7, <3>1, <3>2 DEF Pending
  <2> QED
    BY <1>1, <2>5, <2>6, <2>7, QuietStep
<1>5. CASE pub # "up"
  <2>1. pub' = "over" /\ outbox' = << >> /\ waiting' = waiting
    BY <1>5 DEF Publish
  <2> QED
    BY <1>1, <1>3, <2>1, DisconnectStep
<1> QED
  BY <1>4, <1>5

LEMMA AcknowledgeStep ==
  ASSUME LineInv, Acknowledge
  PROVE  LineInv'
<1>1. /\ UNCHANGED <<conn, subscribed, posting, counters, inbox, late, ingested, failed, resent,
                     published, pub>>
      /\ waiting' \in {waiting, Nil} /\ outbox' = Tail(outbox) /\ outbox # << >>
  BY DEF Acknowledge, bridge, ingestion
<1>2. /\ TypeOK /\ outbox \in Seq([msg : Messages, sent : BOOLEAN])
      /\ DOMAIN outbox = 1..Len(outbox) /\ Len(outbox) \in Nat
  BY StateFacts DEF LineInv
<1>3. /\ outbox' \in Seq([msg : Messages, sent : BOOLEAN]) /\ DOMAIN outbox' = 1..(Len(outbox) - 1)
      /\ \A i \in 1..(Len(outbox) - 1) : i + 1 \in DOMAIN outbox /\ outbox'[i] = outbox[i + 1]
  BY <1>1, <1>2
<1>4. TypeOK'
  BY <1>1, <1>2, <1>3, PublisherTypes DEF TypeOK
<1>5. QueueInOrder'
  <2>1. \A i \in DOMAIN outbox' : outbox'[i].msg <= published'
    BY <1>1, <1>3 DEF LineInv, QueueInOrder
  <2>2. ASSUME NEW i \in DOMAIN outbox', NEW j \in DOMAIN outbox', i < j
        PROVE  outbox'[i].msg < outbox'[j].msg
    <3>1. i + 1 \in DOMAIN outbox /\ j + 1 \in DOMAIN outbox /\ i + 1 < j + 1
      BY <1>2, <1>3, <2>2
    <3> QED
      BY <1>3, <3>1 DEF LineInv, QueueInOrder
  <2> QED
    BY <2>1, <2>2 DEF QueueInOrder
<1>6. \A m \in Messages : Pending(m)' => Pending(m)
  BY <1>1, <1>3 DEF Pending
<1> QED
  BY <1>1, <1>4, <1>5, <1>6, QuietStep

\* A lost connection: what was sent is to be sent again, and counted as such.
LEMMA LosePublisherStep ==
  ASSUME LineInv, LosePublisher
  PROVE  LineInv'
<1>1. /\ UNCHANGED <<conn, subscribed, posting, counters, inbox, late, ingested, failed,
                     published, waiting>>
      /\ pub' = "lost"
      /\ outbox' = [i \in DOMAIN outbox |-> [outbox[i] EXCEPT !.sent = FALSE]]
  BY DEF LosePublisher, bridge, ingestion
<1>2. /\ TypeOK /\ outbox \in Seq([msg : Messages, sent : BOOLEAN])
      /\ DOMAIN outbox = 1..Len(outbox) /\ Len(outbox) \in Nat
      /\ \A i \in DOMAIN outbox : outbox[i] \in [msg : Messages, sent : BOOLEAN]
  BY StateFacts DEF LineInv
<1>3. /\ DOMAIN outbox' = DOMAIN outbox
      /\ \A i \in DOMAIN outbox : /\ outbox'[i] \in [msg : Messages, sent : BOOLEAN]
                                  /\ outbox'[i].msg = outbox[i].msg
  BY <1>1, <1>2
<1>4. outbox' \in Seq([msg : Messages, sent : BOOLEAN])
  BY <1>1, <1>2, <1>3
<1>5. \A m \in Messages : Copies(m) \in Nat /\ resent[m] \in Nat
  BY <1>2, CopiesFacts
<1>6. \A m \in Messages :
        resent'[m] = IF \E i \in DOMAIN outbox : outbox[i].msg = m /\ outbox[i].sent
                     THEN resent[m] + 1 ELSE resent[m]
  BY DEF LosePublisher
<1>7. resent' \in [Messages -> Nat]
  <2>1. \A m \in Messages : resent'[m] \in Nat
    BY <1>5, <1>6
  <2>2. resent' = [m \in Messages |-> resent'[m]]
    BY DEF LosePublisher
  <2> QED
    BY <2>1, <2>2
<1>8. TypeOK'
  BY <1>1, <1>2, <1>4, <1>7, PublisherTypes DEF TypeOK
<1>9. QueueInOrder'
  <2>1. QueueInOrder
    BY DEF LineInv
  <2> QED
    BY <1>1, <1>3, <2>1 DEF QueueInOrder
<1>10. \A m \in Messages : Copies(m)' = Copies(m)
  BY <1>1 DEF Copies
<1>11. \A m \in Messages : (Pending(m)' /\ resent'[m] = resent[m]) => Pending(m)
  <2>1. ASSUME NEW m \in Messages, Pending(m)', resent'[m] = resent[m] PROVE Pending(m)
    <3>1. ~ \E i \in DOMAIN outbox : outbox[i].msg = m /\ outbox[i].sent
      BY <1>5, <1>6, <2>1
    <3>2. CASE m > published
      BY <3>2 DEF Pending
    <3>3. CASE \E i \in DOMAIN outbox' : outbox'[i].msg = m
      BY <1>3, <3>1, <3>3 DEF Pending
    <3> QED
      BY <1>1, <2>1, <3>2, <3>3 DEF Pending
  <2> QED
    BY <2>1
<1>12. \A m \in Messages : resent'[m] \in {resent[m], resent[m] + 1}
  BY <1>6
<1>13. ASSUME NEW m \in Messages
       PROVE  Copies(m)' <= 1 + resent'[m] /\ (Pending(m)' => Copies(m)' <= resent'[m])
  <2>1. Copies(m) <= 1 + resent[m] /\ (Pending(m) => Copies(m) <= resent[m])
    BY DEF LineInv, IngestedOncePerSend, SendsPaid
  <2>2. CASE resent'[m] = resent[m]
    BY <1>10, <1>11, <2>1, <2>2
  <2>3. CASE resent'[m] = resent[m] + 1
    BY <1>5, <1>10, <2>1, <2>3
  <2> QED
    BY <1>12, <2>2, <2>3
<1>14. IngestedOncePerSend' /\ SendsPaid'
  BY <1>13 DEF IngestedOncePerSend, SendsPaid
<1>15. \A m \in Messages : resent'[m] = 0 => resent'[m] = resent[m]
  BY <1>5, <1>12
<1>16. Taken' = Taken /\ ToSet(late)' \subseteq failed'
  BY <1>1 DEF Taken, LineInv, InLine
<1>17. InLine'
  BY <1>1, <1>11, <1>15, <1>16, LineKept
<1>18. CountersAddUp'
  BY <1>1 DEF LineInv, CountersAddUp
<1> QED
  BY <1>8, <1>9, <1>14, <1>17, <1>18 DEF LineInv

\* The first message that has not been sent reaches the broker, and through it the
\* bridge if that is subscribed.
LEMMA TransmitStep ==
  ASSUME LineInv, Transmit
  PROVE  LineInv'
<1>1. PICK i \in DOMAIN outbox :
        /\ ~outbox[i].sent /\ \A j \in 1..(i - 1) : outbox[j].sent
        /\ outbox' = [outbox EXCEPT ![i].sent = TRUE]
        /\ inbox' = IF subscribed THEN Append(inbox, outbox[i].msg) ELSE inbox
  BY DEF Transmit
<1>2. /\ UNCHANGED <<conn, subscribed, posting, counters, late, ingested, failed, pub, waiting,
                     published, resent>>
  BY DEF Transmit, bridge, ingestion
<1>3. /\ TypeOK /\ Messages = 1..Len(Kind) /\ Len(Kind) \in Nat /\ published \in 0..Len(Kind)
      /\ outbox \in Seq([msg : Messages, sent : BOOLEAN])
      /\ DOMAIN outbox = 1..Len(outbox) /\ Len(outbox) \in Nat
      /\ \A k \in DOMAIN outbox : /\ outbox[k] \in [msg : Messages, sent : BOOLEAN]
                                  /\ outbox[k].msg \in Messages
      /\ inbox \in Seq(Messages) /\ DOMAIN inbox = 1..Len(inbox) /\ Len(inbox) \in Nat
      /\ \A k \in DOMAIN inbox : inbox[k] \in Messages
      /\ late \in Seq(Messages) /\ ingested \in Seq(Messages)
  BY StateFacts DEF LineInv
<1>4. PICK x : x = outbox[i].msg
  OBVIOUS
<1>5. x \in Messages /\ x \in Nat
  <2>1. x \in Messages
    BY <1>3, <1>4
  <2> QED
    BY <1>3, <2>1
<1>6. PICK n : n = [outbox[i] EXCEPT !.sent = TRUE]
  OBVIOUS
<1>7. n \in [msg : Messages, sent : BOOLEAN] /\ n.msg = x /\ n.sent = TRUE
  BY <1>3, <1>4, <1>6
<1>8. /\ outbox' \in Seq([msg : Messages, sent : BOOLEAN]) /\ DOMAIN outbox' = DOMAIN outbox
      /\ outbox'[i] = n /\ \A k \in DOMAIN outbox : k # i => outbox'[k] = outbox[k]
  BY <1>1, <1>3, <1>6, <1>7
<1>9. /\ \A k \in DOMAIN outbox : outbox[k].msg <= published
      /\ \A j, k \in DOMAIN outbox : j < k => outbox[j].msg < outbox[k].msg
  BY DEF LineInv, QueueInOrder
<1>10. QueueInOrder'
  <2>1. \A k \in DOMAIN outbox : outbox'[k].msg = outbox[k].msg
    BY <1>4, <1>7, <1>8
  <2> QED
    BY <1>2, <1>8, <1>9, <2>1 DEF QueueInOrder
<1>11. Pending(x)
  BY <1>1, <1>4 DEF Pending
<1>12. ASSUME NEW m \in Messages, Pending(m)' PROVE Pending(m) /\ x < m
  <2>1. CASE m > published
    BY <1>3, <1>4, <1>5, <1>9, <2>1 DEF Pending
  <2>2. CASE \E k \in DOMAIN outbox' : outbox'[k].msg = m /\ ~outbox'[k].sent
    <3>1. PICK k \in DOMAIN outbox' : outbox'[k].msg = m /\ ~outbox'[k].sent
      BY <2>2
    <3>2. k # i /\ outbox[k].msg = m /\ ~outbox[k].sent
      BY <1>7, <1>8, <3>1
    <3>3. i < k
      BY <1>1, <1>3, <1>8, <3>1, <3>2
    <3> QED
      BY <1>4, <1>8, <1>9, <3>1, <3>2, <3>3 DEF Pending
  <2> QED
    BY <1>2, <1>12, <2>1, <2>2 DEF Pending
<1>13. inbox' \in Seq(Messages)
  <2>1. CASE subscribed
    BY <1>1, <1>3, <1>4, <1>5, <2>1
  <2>2. CASE ~subscribed
    BY <1>1, <1>3, <2>2
  <2> QED
    BY <2>1, <2>2
<1>14. TypeOK'
  BY <1>2, <1>3, <1>8, <1>13 DEF TypeOK
<1>15. CountersAddUp'
  BY <1>2 DEF LineInv, CountersAddUp
<1>16. \A m \in Messages : /\ Copies(m) \in Nat /\ resent[m] \in Nat
                           /\ Times(inbox, m) \in Nat /\ Times(late, m) \in Nat
                           /\ Times(ingested, m) \in Nat
  BY <1>3, CopiesFacts
<1>17. Taken' = Taken /\ ToSet(late)' \subseteq failed'
  BY <1>2 DEF Taken, LineInv, InLine
<1>18. CASE subscribed
  <2>1. inbox' = Append(inbox, x)
    BY <1>1, <1>4, <1>18
  <2>2. \A m \in Messages : Times(inbox', m) = Times(inbox, m) + (IF x = m THEN 1 ELSE 0)
    <3>1. inbox \in Seq(Messages) /\ x \in Messages
      BY <1>3, <1>5
    <3>2. \A m \in Messages :
            Times(Append(inbox, x), m) = Times(inbox, m) + (IF x = m THEN 1 ELSE 0)
      BY <3>1, TimesAppend
    <3> QED
      BY <2>1, <3>2
  <2>3. \A m \in Messages : Copies(m)' = Copies(m) + (IF x = m THEN 1 ELSE 0)
    <3>1. ASSUME NEW m \in Messages PROVE Copies(m)' = Copies(m) + (IF x = m THEN 1 ELSE 0)
      <4>1. Copies(m)' = Times(inbox', m) + Times(late, m) + Times(ingested, m)
                           + (IF posting = m THEN 1 ELSE 0)
        BY <1>2 DEF Copies
      <4>2. Copies(m) = Times(inbox, m) + Times(late, m) + Times(ingested, m)
                          + (IF posting = m THEN 1 ELSE 0)
        BY DEF Copies
      <4> QED
        BY <1>16, <2>2, <4>1, <4>2
    <3> QED
      BY <3>1
  <2>4. ASSUME NEW m \in Messages
        PROVE  Copies(m)' <= 1 + resent'[m] /\ (Pending(m)' => Copies(m)' <= resent'[m])
    <3>1. Copies(m) <= 1 + resent[m] /\ (Pending(m) => Copies(m) <= resent[m])
      BY DEF LineInv, IngestedOncePerSend, SendsPaid
    <3>2. CASE x = m
      <4>1. Copies(m)' = Copies(m) + 1 /\ ~Pending(m)'
        BY <1>5, <1>12, <2>3, <3>2
      <4> QED
        BY <1>2, <1>11, <1>16, <3>1, <3>2, <4>1
    <3>3. CASE x # m
      <4>1. Copies(m)' = Copies(m)
        BY <1>16, <2>3, <3>3
      <4> QED
        BY <1>2, <1>12, <3>1, <4>1
    <3> QED
      BY <3>2, <3>3
  <2>5. /\ DOMAIN inbox' = 1..(Len(inbox) + 1) /\ inbox'[Len(inbox) + 1] = x
        /\ \A k \in 1..Len(inbox) : inbox'[k] = inbox[k]
        /\ ToSet(inbox') = ToSet(inbox) \union {x}
    <3>1. inbox \in Seq(Messages) /\ x \in Messages
      BY <1>3, <1>5
    <3>2. ToSet(Append(inbox, x)) = ToSet(inbox) \union {x}
      BY <3>1, RangeFacts
    <3>3. /\ DOMAIN Append(inbox, x) = 1..(Len(inbox) + 1) /\ Append(inbox, x)[Len(inbox) + 1] = x
          /\ \A k \in 1..Len(inbox) : Append(inbox, x)[k] = inbox[k]
      BY <3>1
    <3> QED
      BY <2>1, <3>2, <3>3
  <2>6. /\ (posting # Nil /\ resent[posting] = 0) => \A y \in Taken : y <= posting
        /\ \A k \in DOMAIN inbox : resent[inbox[k]] = 0 =>
             \A y \in Taken \union {inbox[l] : l \in 1..k} : y <= inbox[k]
        /\ \A m \in Messages : (Pending(m) /\ resent[m] = 0) =>
             \A y \in Taken \union ToSet(inbox) : y <= m
    BY DEF LineInv, InLine
  <2>7. ASSUME NEW k \in DOMAIN inbox', resent'[inbox'[k]] = 0,
               NEW y \in Taken' \union {inbox'[l] : l \in 1..k}
        PROVE  y <= inbox'[k]
    <3>1. CASE k \in 1..Len(inbox)
      <4>1. inbox'[k] = inbox[k] /\ y \in Taken \union {inbox[l] : l \in 1..k}
        <5>1. k <= Len(inbox) /\ k \in Nat /\ Len(inbox) \in Nat
          BY <1>3, <3>1
        <5>2. \A l \in 1..k : inbox'[l] = inbox[l]
          BY <2>5, <5>1
        <5>3. k \in 1..k
          BY <3>1
        <5> QED
          BY <1>17, <2>7, <5>2, <5>3
      <4> QED
        BY <1>2, <1>3, <2>6, <2>7, <3>1, <4>1
    <3>2. CASE k = Len(inbox) + 1
      <4>1. inbox'[k] = x /\ resent[x] = 0
        BY <1>2, <2>5, <2>7, <3>2
      <4>2. y \in Taken \union ToSet(inbox) \union {x}
        <5>1. \A l \in 1..k : inbox'[l] \in ToSet(inbox')
          BY <2>5, <3>2 DEF ToSet
        <5> QED
          BY <1>17, <2>5, <2>7, <5>1
      <4> QED
        BY <1>5, <1>11, <2>6, <4>1, <4>2
    <3>3. k \in 1..(Len(inbox) + 1) /\ Len(inbox) \in Nat
      BY <1>3, <2>5
    <3> QED
      BY <3>1, <3>2, <3>3
  <2>8. ASSUME NEW m \in Messages, Pending(m)', resent'[m] = 0,
               NEW y \in Taken' \union ToSet(inbox')
        PROVE  y <= m
    <3>1. Pending(m) /\ x < m /\ resent[m] = 0 /\ m \in Nat
      BY <1>2, <1>3, <1>12, <2>8
    <3>2. y \in Taken \union ToSet(inbox) \/ y = x
      BY <1>17, <2>5, <2>8
    <3> QED
      BY <1>5, <2>6, <3>1, <3>2
  <2>9. (posting' # Nil /\ resent'[posting'] = 0) => \A y \in Taken' : y <= posting'
    BY <1>2, <1>17, <2>6
  <2>10. InLine'
    BY <1>17, <2>7, <2>8, <2>9 DEF InLine
  <2>11. IngestedOncePerSend' /\ SendsPaid'
    BY <2>4 DEF IngestedOncePerSend, SendsPaid
  <2> QED
    BY <1>10, <1>14, <1>15, <2>10, <2>11 DEF LineInv
<1>19. CASE ~subscribed
  <2>1. inbox' = inbox
    BY <1>1, <1>19
  <2> QED
    BY <1>2, <1>10, <1>12, <1>14, <2>1, QuietStep
<1> QED
  BY <1>18, <1>19

-----------------------------------------------------------------------------
(* The bridge.                                                             *)

\* The publisher is left alone, and no copy is new.
LEMMA BridgeSideStep ==
  ASSUME LineInv, TypeOK', CountersAddUp', InLine', UNCHANGED <<outbox, published, resent>>,
         \A m \in Messages : Copies(m)' <= Copies(m)
  PROVE  LineInv'
<1>1. \A m \in Messages : Pending(m)' => Pending(m)
  BY DEF Pending
<1>2. IngestedOncePerSend' /\ SendsPaid'
  BY <1>1, MovedOn
<1>3. QueueInOrder'
  BY DEF LineInv, QueueInOrder
<1> QED
  BY <1>2, <1>3 DEF LineInv

\* What Count does to each counter.
LEMMA CountFacts ==
  ASSUME TypeOK, NEW names, Count(names)
  PROVE  /\ counters' \in [CounterNames -> Nat]
         /\ \A c \in CounterNames : /\ counters[c] \in Nat
              /\ counters'[c] = IF c \in names THEN counters[c] + 1 ELSE counters[c]
<1>1. counters \in [CounterNames -> Nat]
  BY DEF TypeOK
<1> QED
  BY <1>1 DEF Count

\* The counters add up when a message has been received, without a post or with one.
LEMMA ReceivedCounts ==
  ASSUME LineInv, posting = Nil,
         \/ posting' = Nil /\ Count({"received", "errors"})
         \/ posting' = Nil /\ Count({"received", "handled", "validation_failures"})
         \/ posting' # Nil /\ Count({"received"})
  PROVE  counters' \in [CounterNames -> Nat] /\ CountersAddUp'
<1> USE DEF CounterNames
<1>1. TypeOK /\ CountersAddUp
  BY DEF LineInv
<1>2. CASE posting' = Nil /\ Count({"received", "errors"})
  BY <1>1, <1>2, CountFacts DEF CountersAddUp
<1>3. CASE posting' = Nil /\ Count({"received", "handled", "validation_failures"})
  BY <1>1, <1>3, CountFacts DEF CountersAddUp
<1>4. CASE posting' # Nil /\ Count({"received"})
  BY <1>1, <1>4, CountFacts DEF CountersAddUp
<1> QED
  BY <1>2, <1>3, <1>4

\* And when a post has ended.
LEMMA PostedCounts ==
  ASSUME LineInv, posting # Nil, posting' = Nil,
         Count({"forwarded", "handled"}) \/ Count({"forward_failures", "handled"})
  PROVE  counters' \in [CounterNames -> Nat] /\ CountersAddUp'
<1> USE DEF CounterNames
<1>1. TypeOK /\ CountersAddUp
  BY DEF LineInv
<1>2. CASE Count({"forwarded", "handled"})
  BY <1>1, <1>2, CountFacts DEF CountersAddUp
<1>3. CASE Count({"forward_failures", "handled"})
  BY <1>1, <1>3, CountFacts DEF CountersAddUp
<1> QED
  BY <1>2, <1>3

\* The next message is taken from the broker.
LEMMA OnMessageStep ==
  ASSUME LineInv, OnMessage
  PROVE  LineInv'
<1>1. PICK h : h = Head(inbox)
  OBVIOUS
<1>2. /\ UNCHANGED <<conn, subscribed, late, ingested, pub, outbox, waiting, published, resent,
                     failed>>
      /\ posting = Nil /\ inbox # << >> /\ inbox' = Tail(inbox)
      /\ posting' \in {Nil, h}
  BY <1>1 DEF OnMessage, ingestion, publisher
<1>3. /\ TypeOK /\ Messages = 1..Len(Kind) /\ Len(Kind) \in Nat
      /\ inbox \in Seq(Messages) /\ DOMAIN inbox = 1..Len(inbox) /\ Len(inbox) \in Nat
      /\ \A k \in DOMAIN inbox : inbox[k] \in Messages
      /\ late \in Seq(Messages) /\ ingested \in Seq(Messages)
  BY StateFacts DEF LineInv
<1>4. /\ inbox' \in Seq(Messages) /\ Without(inbox', inbox, 1) /\ 1 \in 1..Len(inbox)
      /\ h = inbox[1] /\ h \in Messages
  <2>1. /\ Tail(inbox) \in Seq(Messages) /\ Without(Tail(inbox), inbox, 1) /\ 1 \in 1..Len(inbox)
        /\ Head(inbox) = inbox[1] /\ Head(inbox) \in Messages
    BY <1>2, <1>3, TailFacts
  <2> QED
    BY <1>1, <1>2, <2>1
<1>5. h # Nil /\ h \in Nat /\ \A m \in Messages : m # Nil /\ m \in Nat
  BY <1>3, <1>4 DEF Nil
<1>6. counters' \in [CounterNames -> Nat] /\ CountersAddUp'
  <2>1. \/ posting' = Nil /\ Count({"received", "errors"})
        \/ posting' = Nil /\ Count({"received", "handled", "validation_failures"})
        \/ posting' # Nil /\ Count({"received"})
    BY <1>1, <1>2, <1>5 DEF OnMessage
  <2> QED
    BY <1>2, <2>1, ReceivedCounts
<1>7. TypeOK'
  BY <1>2, <1>3, <1>4, <1>6 DEF TypeOK
<1>8. \A m \in Messages : Times(inbox', m) = Times(inbox, m) - (IF h = m THEN 1 ELSE 0)
  BY <1>3, <1>4, TimesWithout
<1>9. ASSUME NEW m \in Messages PROVE Copies(m)' <= Copies(m)
  <2>1. Copies(m)' = Times(inbox', m) + Times(late, m) + Times(ingested, m)
                       + (IF posting' = m THEN 1 ELSE 0)
    BY <1>2 DEF Copies
  <2>2. Copies(m) = Times(inbox, m) + Times(late, m) + Times(ingested, m)
    <3>1. /\ Times(inbox, m) \in Nat /\ Times(late, m) \in Nat /\ Times(ingested, m) \in Nat
      BY <1>3, CopiesFacts
    <3> QED
      BY <1>2, <1>5, <3>1 DEF Copies
  <2>3. /\ Times(inbox, m) \in Nat /\ Times(late, m) \in Nat /\ Times(ingested, m) \in Nat
    BY <1>3, CopiesFacts
  <2>4. posting' = m => h = m
    BY <1>2, <1>5
  <2> QED
    BY <1>8, <2>1, <2>2, <2>3, <2>4
<1>10. /\ \A k \in DOMAIN inbox : resent[inbox[k]] = 0 =>
            \A x \in Taken \union {inbox[l] : l \in 1..k} : x <= inbox[k]
       /\ \A m \in Messages : (Pending(m) /\ resent[m] = 0) =>
            \A x \in Taken \union ToSet(inbox) : x <= m
       /\ ToSet(late) \subseteq failed
  BY DEF LineInv, InLine
<1>11. Taken' \subseteq Taken \union {h}
  BY <1>2 DEF Taken
<1>12. ToSet(inbox') \subseteq ToSet(inbox) /\ h \in ToSet(inbox)
  BY <1>3, <1>4, RangeFacts
<1>13. (posting' # Nil /\ resent'[posting'] = 0) => \A x \in Taken' : x <= posting'
  <2>1. (posting' # Nil /\ resent'[posting'] = 0) => posting' = h /\ resent[h] = 0
    BY <1>2
  <2>2. resent[h] = 0 => \A x \in Taken : x <= h
    BY <1>3, <1>4, <1>10
  <2> QED
    BY <1>5, <1>11, <2>1, <2>2
<1>14. ASSUME NEW k \in DOMAIN inbox', resent'[inbox'[k]] = 0,
              NEW x \in Taken' \union {inbox'[l] : l \in 1..k}
       PROVE  x <= inbox'[k]
  <2>1. /\ k \in 1..(Len(inbox) - 1) /\ k + 1 \in DOMAIN inbox
        /\ \A l \in 1..k : inbox'[l] = inbox[l + 1] /\ l + 1 \in 1..(k + 1)
        /\ 1 \in 1..(k + 1) /\ k \in 1..k
    <3>1. /\ Len(inbox') = Len(inbox) - 1 /\ DOMAIN inbox' = 1..Len(inbox')
          /\ \A l \in 1..(Len(inbox) - 1) : inbox'[l] = IF l < 1 THEN inbox[l] ELSE inbox[l + 1]
      BY <1>4 DEF Without
    <3>2. k \in 1..(Len(inbox) - 1) /\ k \in Nat /\ k >= 1 /\ k + 1 \in DOMAIN inbox
      BY <1>3, <3>1
    <3>3. \A l \in 1..k : l \in 1..(Len(inbox) - 1) /\ ~(l < 1) /\ l + 1 \in 1..(k + 1)
      BY <1>3, <3>2
    <3>4. \A l \in 1..k : inbox'[l] = inbox[l + 1]
      BY <3>1, <3>3
    <3> QED
      BY <3>2, <3>3, <3>4
  <2>2. x \in Taken \union {inbox[l] : l \in 1..(k + 1)}
    <3>1. CASE x \in Taken'
      BY <1>4, <1>11, <2>1, <3>1
    <3>2. CASE x \in {inbox'[l] : l \in 1..k}
      BY <2>1, <3>2
    <3> QED
      BY <1>14, <3>1, <3>2
  <2>3. inbox'[k] = inbox[k + 1] /\ resent[inbox[k + 1]] = 0
    BY <1>2, <1>14, <2>1
  <2> QED
    BY <1>10, <2>1, <2>2, <2>3
<1>15. ASSUME NEW m \in Messages, Pending(m)', resent'[m] = 0,
              NEW x \in Taken' \union ToSet(inbox')
       PROVE  x <= m
  <2>1. Pending(m) /\ resent[m] = 0
    BY <1>2, <1>15 DEF Pending
  <2> QED
    BY <1>10, <1>11, <1>12, <1>15, <2>1
<1>16. InLine'
  BY <1>2, <1>10, <1>13, <1>14, <1>15 DEF InLine
<1> QED
  BY <1>2, <1>6, <1>7, <1>9, <1>16, BridgeSideStep

\* Nothing is taken from the broker.
LEMMA MessagesMove ==
  ASSUME LineInv, TypeOK', CountersAddUp', UNCHANGED <<outbox, published, resent>>,
         \A m \in Messages : Copies(m)' <= Copies(m),
         ToSet(late)' \subseteq failed', Taken' \subseteq Taken \union {Nil},
         posting' \in {posting, Nil}, inbox' \in {inbox, << >>}
  PROVE  LineInv'
<1>1. \A m \in Messages : (Pending(m)' /\ resent'[m] = 0) => Pending(m)
  BY DEF Pending
<1>2. InLine'
  BY <1>1, LineKept
<1> QED
  BY <1>2, BridgeSideStep

\* The broker may forget what it has for the bridge.
LEMMA InboxCopies ==
  ASSUME TypeOK, inbox' \in {inbox, << >>}
  PROVE  /\ inbox' \in Seq(Messages)
         /\ \A m \in Messages : Times(inbox', m) \in Nat /\ Times(inbox', m) <= Times(inbox, m)
<1>1. inbox \in Seq(Messages) /\ \A m \in Messages : Times(inbox, m) \in Nat
  BY StateFacts, CopiesFacts
<1>2. CASE inbox' = inbox
  BY <1>1, <1>2
<1>3. CASE inbox' = << >>
  <2>1. \A m \in Messages : Times(<< >>, m) = 0
    BY TimesEmpty
  <2> QED
    BY <1>1, <1>3, <2>1
<1> QED
  BY <1>2, <1>3

\* A post ends: the peer has executed it, will, or will not.
LEMMA PostEnds ==
  ASSUME TypeOK, posting # Nil, posting' = Nil, inbox' \in {inbox, << >>},
         \/ ingested' = Append(ingested, posting) /\ late' = late
         \/ late' = Append(late, posting) /\ ingested' = ingested
         \/ late' = late /\ ingested' = ingested
  PROVE  /\ inbox' \in Seq(Messages) /\ late' \in Seq(Messages) /\ ingested' \in Seq(Messages)
         /\ \A m \in Messages : Copies(m)' <= Copies(m)
         /\ Taken' \subseteq Taken \union {Nil} /\ ToSet(late') \subseteq ToSet(late) \union {posting}
<1>1. /\ late \in Seq(Messages) /\ ingested \in Seq(Messages) /\ posting \in Messages
      /\ \A m \in Messages : /\ Times(inbox, m) \in Nat /\ Times(late, m) \in Nat
                             /\ Times(ingested, m) \in Nat
  BY StateFacts, CopiesFacts
<1>2. /\ \A m \in Messages : Times(Append(late, posting), m)
                               = Times(late, m) + (IF posting = m THEN 1 ELSE 0)
      /\ \A m \in Messages : Times(Append(ingested, posting), m)
                               = Times(ingested, m) + (IF posting = m THEN 1 ELSE 0)
  BY <1>1, TimesAppend
<1>3. /\ ToSet(Append(late, posting)) = ToSet(late) \union {posting}
      /\ ToSet(Append(ingested, posting)) = ToSet(ingested) \union {posting}
  BY <1>1, RangeFacts
<1>4. late' \in Seq(Messages) /\ ingested' \in Seq(Messages)
  <2>1. Append(late, posting) \in Seq(Messages) /\ Append(ingested, posting) \in Seq(Messages)
    BY <1>1
  <2> QED
    BY <1>1, <2>1
<1>5. Taken' \subseteq Taken \union {Nil} /\ ToSet(late') \subseteq ToSet(late) \union {posting}
  BY <1>3 DEF Taken
<1>6. \A m \in Messages : m # Nil
  BY StateFacts DEF Nil
<1>7. ASSUME NEW m \in Messages PROVE Copies(m)' <= Copies(m)
  <2>1. Copies(m)' = Times(inbox', m) + Times(late', m) + Times(ingested', m)
                       + (IF posting' = m THEN 1 ELSE 0)
    BY DEF Copies
  <2>2. Copies(m) = Times(inbox, m) + Times(late, m) + Times(ingested, m)
                       + (IF posting = m THEN 1 ELSE 0)
    BY DEF Copies
  <2>3. Times(inbox', m) \in Nat /\ Times(inbox', m) <= Times(inbox, m) /\ posting' # m
    BY <1>6, InboxCopies
  <2>4. /\ Times(late', m) \in Nat /\ Times(ingested', m) \in Nat
        /\ Times(late', m) + Times(ingested', m)
             <= Times(late, m) + Times(ingested, m) + (IF posting = m THEN 1 ELSE 0)
    <3>1. /\ Times(late, m) \in Nat /\ Times(ingested, m) \in Nat
          /\ Times(Append(late, posting), m)
               = Times(late, m) + (IF posting = m THEN 1 ELSE 0)
          /\ Times(Append(ingested, posting), m)
               = Times(ingested, m) + (IF posting = m THEN 1 ELSE 0)
      BY <1>1, <1>2
    <3>2. CASE ingested' = Append(ingested, posting) /\ late' = late
      BY <3>1, <3>2
    <3>3. CASE late' = Append(late, posting) /\ ingested' = ingested
      BY <3>1, <3>3
    <3>4. CASE late' = late /\ ingested' = ingested
      BY <3>1, <3>4
    <3> QED
      BY <3>2, <3>3, <3>4
  <2>5. Times(inbox, m) \in Nat /\ Times(late, m) \in Nat /\ Times(ingested, m) \in Nat
    BY <1>1
  <2>6. Copies(m)' = Times(inbox', m) + Times(late', m) + Times(ingested', m)
    BY <2>1, <2>3, <2>4
  <2> QED
    BY <2>2, <2>3, <2>4, <2>5, <2>6
<1> QED
  BY <1>4, <1>5, <1>7, InboxCopies

LEMMA PostStep ==
  ASSUME LineInv, PostSucceeds \/ PostFails
  PROVE  LineInv'
<1>1. /\ UNCHANGED <<conn, subscribed, inbox, pub, outbox, waiting, published, resent>>
      /\ posting # Nil /\ posting' = Nil
      /\ Count({"forwarded", "handled"}) \/ Count({"forward_failures", "handled"})
      /\ \/ ingested' = Append(ingested, posting) /\ late' = late
         \/ late' = Append(late, posting) /\ ingested' = ingested
         \/ late' = late /\ ingested' = ingested
  BY DEF PostSucceeds, PostFails, publisher
<1>2. failed \subseteq failed' /\ (late' = late \/ posting \in failed')
  BY DEF PostSucceeds, PostFails
<1>3. TypeOK /\ ToSet(late) \subseteq failed
  BY DEF LineInv, InLine
<1>4. /\ inbox' \in Seq(Messages) /\ late' \in Seq(Messages) /\ ingested' \in Seq(Messages)
      /\ \A m \in Messages : Copies(m)' <= Copies(m)
      /\ Taken' \subseteq Taken \union {Nil} /\ ToSet(late') \subseteq ToSet(late) \union {posting}
  BY <1>1, <1>3, PostEnds
<1>5. counters' \in [CounterNames -> Nat] /\ CountersAddUp'
  BY <1>1, PostedCounts
<1>6. TypeOK'
  BY <1>1, <1>3, <1>4, <1>5 DEF TypeOK
<1>7. ToSet(late)' \subseteq failed'
  BY <1>2, <1>3, <1>4
<1> QED
  BY <1>1, <1>4, <1>5, <1>6, <1>7, MessagesMove

LEMMA ExecuteLateStep ==
  ASSUME LineInv, ExecuteLate
  PROVE  LineInv'
<1>1. /\ UNCHANGED <<conn, subscribed, posting, counters, inbox, pub, outbox, waiting, published,
                     resent, failed>>
  BY DEF ExecuteLate, bridge, publisher
<1>2. PICK i \in DOMAIN late :
        late' = RemoveAt(late, i) /\ ingested' = Append(ingested, late[i])
  BY DEF ExecuteLate
<1>3. /\ TypeOK /\ late \in Seq(Messages) /\ ingested \in Seq(Messages) /\ i \in 1..Len(late)
      /\ late[i] \in Messages
      /\ \A m \in Messages : /\ Times(inbox, m) \in Nat /\ Times(late, m) \in Nat
                             /\ Times(ingested, m) \in Nat
  BY StateFacts, CopiesFacts DEF LineInv
<1>4. late' \in Seq(Messages) /\ Without(late', late, i)
  BY <1>2, <1>3, RemoveFacts
<1>5. \A m \in Messages : Times(late', m) = Times(late, m) - (IF late[i] = m THEN 1 ELSE 0)
  <2>1. late \in Seq(Messages) /\ i \in 1..Len(late)
    BY <1>3
  <2> QED
    BY <1>4, <2>1, TimesWithout
<1>6. \A m \in Messages : Times(ingested', m) = Times(ingested, m) + (IF late[i] = m THEN 1 ELSE 0)
  <2>1. ingested \in Seq(Messages) /\ late[i] \in Messages
    BY <1>3
  <2>2. ingested' = Append(ingested, late[i])
    BY <1>2
  <2> QED
    BY <2>1, <2>2, TimesAppend
<1>7. ASSUME NEW m \in Messages PROVE Copies(m)' <= Copies(m)
  <2>1. Copies(m)' = Times(inbox, m) + Times(late', m) + Times(ingested', m)
                       + (IF posting = m THEN 1 ELSE 0)
    BY <1>1 DEF Copies
  <2>2. Copies(m) = Times(inbox, m) + Times(late, m) + Times(ingested, m)
                       + (IF posting = m THEN 1 ELSE 0)
    BY DEF Copies
  <2>3. /\ Times(inbox, m) \in Nat /\ Times(late, m) \in Nat /\ Times(ingested, m) \in Nat
        /\ (IF posting = m THEN 1 ELSE 0) \in Nat
    BY <1>3
  <2> QED
    <3>1. CASE late[i] = m
      <4>1. Times(late', m) = Times(late, m) - 1 /\ Times(ingested', m) = Times(ingested, m) + 1
        BY <1>5, <1>6, <3>1
      <4> QED
        BY <2>1, <2>2, <2>3, <4>1
    <3>2. CASE late[i] # m
      <4>1. Times(late', m) = Times(late, m) /\ Times(ingested', m) = Times(ingested, m)
        <5>1. /\ Times(late', m) = Times(late, m) - 0
              /\ Times(ingested', m) = Times(ingested, m) + 0
          BY <1>5, <1>6, <3>2
        <5> QED
          BY <2>3, <5>1
      <4>2. Copies(m)' = Copies(m)
        BY <2>1, <2>2, <4>1
      <4>3. Copies(m) \in Nat
        BY <2>2, <2>3
      <4> QED
        BY <4>2, <4>3
    <3> QED
      BY <3>1, <3>2
<1>8. ToSet(late') \subseteq ToSet(late) /\ late[i] \in ToSet(late)
  BY <1>3, <1>4, RangeFacts
<1>9. ToSet(ingested') = ToSet(ingested) \union {late[i]}
  BY <1>2, <1>3, RangeFacts
<1>10. Taken' \subseteq Taken \union {Nil}
  BY <1>1, <1>8, <1>9 DEF Taken
<1>11. ToSet(late)' \subseteq failed'
  BY <1>1, <1>8 DEF LineInv, InLine
<1>12. TypeOK'
  <2>1. ingested' \in Seq(Messages)
    BY <1>2, <1>3
  <2> QED
    BY <1>1, <1>3, <1>4, <2>1 DEF TypeOK
<1>13. CountersAddUp'
  BY <1>1 DEF LineInv, CountersAddUp
<1> QED
  BY <1>1, <1>7, <1>10, <1>11, <1>12, <1>13, MessagesMove

\* The broker forgets the session.
LEMMA DropStep ==
  ASSUME LineInv, Drop
  PROVE  LineInv'
<1>1. /\ UNCHANGED <<posting, counters, late, ingested, pub, outbox, waiting, published, resent,
                     failed>>
      /\ conn' = "connecting" /\ subscribed' = FALSE /\ inbox' = << >>
  BY DEF Drop, ingestion, publisher
<1>2. TypeOK /\ ToSet(late) \subseteq failed
  BY DEF LineInv, InLine
<1>3. /\ inbox' \in Seq(Messages)
      /\ \A m \in Messages : Times(inbox', m) \in Nat /\ Times(inbox', m) <= Times(inbox, m)
  BY <1>1, <1>2, InboxCopies
<1>4. TypeOK'
  BY <1>1, <1>2, <1>3 DEF TypeOK
<1>5. ASSUME NEW m \in Messages PROVE Copies(m)' <= Copies(m)
  <2>1. Copies(m)' = Times(inbox', m) + Times(late, m) + Times(ingested, m)
                       + (IF posting = m THEN 1 ELSE 0)
    BY <1>1 DEF Copies
  <2>2. Copies(m) = Times(inbox, m) + Times(late, m) + Times(ingested, m)
                       + (IF posting = m THEN 1 ELSE 0)
    BY DEF Copies
  <2>3. /\ Times(inbox, m) \in Nat /\ Times(late, m) \in Nat /\ Times(ingested, m) \in Nat
    BY <1>2, CopiesFacts
  <2> QED
    BY <1>3, <2>1, <2>2, <2>3
<1>6. Taken' = Taken
  BY <1>1 DEF Taken
<1>7. CountersAddUp'
  BY <1>1 DEF LineInv, CountersAddUp
<1> QED
  BY <1>1, <1>2, <1>4, <1>5, <1>6, <1>7, MessagesMove

LEMMA CrashStep ==
  ASSUME LineInv, CrashAndRestart
  PROVE  LineInv'
<1>1. /\ UNCHANGED <<ingested, pub, outbox, waiting, published, resent>>
      /\ conn' = "down" /\ subscribed' = FALSE /\ inbox' = << >> /\ counters' = Zero
      /\ posting' = Nil
      /\ (posting # Nil /\ late' = Append(late, posting)) \/ late' = late
      /\ failed \subseteq failed' /\ (posting # Nil => posting \in failed')
  BY DEF CrashAndRestart, publisher
<1>2. TypeOK /\ ToSet(late) \subseteq failed
  BY DEF LineInv, InLine
<1>3. counters' \in [CounterNames -> Nat] /\ CountersAddUp'
  BY <1>1 DEF Zero, CountersAddUp, CounterNames
<1>4. /\ inbox' \in Seq(Messages) /\ late' \in Seq(Messages) /\ ingested' \in Seq(Messages)
      /\ \A m \in Messages : Copies(m)' <= Copies(m)
      /\ Taken' \subseteq Taken \union {Nil} /\ ToSet(late') \subseteq failed'
  <2>1. CASE posting # Nil
    <3>1. /\ inbox' \in Seq(Messages) /\ late' \in Seq(Messages) /\ ingested' \in Seq(Messages)
          /\ \A m \in Messages : Copies(m)' <= Copies(m)
          /\ Taken' \subseteq Taken \union {Nil}
          /\ ToSet(late') \subseteq ToSet(late) \union {posting}
      BY <1>1, <1>2, <2>1, PostEnds
    <3> QED
      BY <1>1, <1>2, <2>1, <3>1
  <2>2. CASE posting = Nil
    <3>1. UNCHANGED <<late, ingested, posting>>
      BY <1>1, <2>2
    <3>2. /\ inbox' \in Seq(Messages)
          /\ \A m \in Messages : Times(inbox', m) \in Nat /\ Times(inbox', m) <= Times(inbox, m)
      BY <1>1, <1>2, InboxCopies
    <3>3. ASSUME NEW m \in Messages PROVE Copies(m)' <= Copies(m)
      <4>1. Copies(m)' = Times(inbox', m) + Times(late, m) + Times(ingested, m)
                           + (IF posting = m THEN 1 ELSE 0)
        BY <3>1 DEF Copies
      <4>2. Copies(m) = Times(inbox, m) + Times(late, m) + Times(ingested, m)
                           + (IF posting = m THEN 1 ELSE 0)
        BY DEF Copies
      <4>3. /\ Times(inbox, m) \in Nat /\ Times(late, m) \in Nat /\ Times(ingested, m) \in Nat
        BY <1>2, CopiesFacts
      <4> QED
        BY <3>2, <4>1, <4>2, <4>3
    <3>4. Taken' = Taken
      BY <3>1 DEF Taken
    <3>5. late' \in Seq(Messages) /\ ingested' \in Seq(Messages)
      BY <1>2, <3>1, StateFacts
    <3> QED
      BY <1>1, <1>2, <3>1, <3>2, <3>3, <3>4, <3>5
  <2> QED
    BY <2>1, <2>2
<1>5. TypeOK'
  BY <1>1, <1>2, <1>3, <1>4 DEF TypeOK
<1> QED
  BY <1>1, <1>3, <1>4, <1>5, MessagesMove

-----------------------------------------------------------------------------
(* The invariant.                                                          *)

LEMMA InitialCopies == Init => \A m \in Messages : Copies(m) = 0
<1> SUFFICES ASSUME Init, NEW m \in Messages PROVE Copies(m) = 0
  OBVIOUS
<1>1. inbox = << >> /\ late = << >> /\ ingested = << >> /\ posting = Nil
  BY DEF Init
<1>2. m # Nil
  BY KindAssumption DEF Messages, Nil
<1>3. Times(<< >>, m) = 0
  BY TimesEmpty
<1> QED
  BY <1>1, <1>2, <1>3 DEF Copies

LEMMA Initially == Init => LineInv
<1> SUFFICES ASSUME Init PROVE LineInv
  OBVIOUS
<1>1. Messages = 1..Len(Kind) /\ Len(Kind) \in Nat
  BY KindAssumption DEF Messages
<1>2. /\ conn = "down" /\ subscribed = FALSE /\ inbox = << >> /\ posting = Nil
      /\ counters = Zero /\ late = << >> /\ ingested = << >>
      /\ pub = "idle" /\ outbox = << >> /\ waiting = Nil
      /\ published = 0 /\ resent = [m \in Messages |-> 0] /\ failed = {}
  BY DEF Init
<1>3. \A m \in Messages : m # Nil /\ m \in Nat /\ Nil <= m
  BY <1>1 DEF Nil
<1>4. TypeOK
  <2>1. << >> \in Seq([msg : Messages, sent : BOOLEAN]) /\ << >> \in Seq(Messages)
    OBVIOUS
  <2>2. counters \in [CounterNames -> Nat] /\ resent \in [Messages -> Nat]
    BY <1>2 DEF Zero
  <2>3. {inbox, late, ingested} \subseteq Seq(Messages)
    BY <1>2, <2>1
  <2>4. published \in 0..Len(Kind)
    BY <1>1, <1>2
  <2>5. /\ conn \in {"down", "failed", "connecting", "connected"}
        /\ subscribed \in BOOLEAN /\ (subscribed => conn = "connected")
        /\ pub \in {"idle", "up", "lost", "over"} /\ waiting \in Messages \union {Nil}
        /\ posting \in Messages \union {Nil}
    BY <1>2
  <2> QED
    BY <1>2, <2>1, <2>2, <2>3, <2>4, <2>5 DEF TypeOK
<1>5. CountersAddUp
  BY <1>2 DEF CountersAddUp, Zero, CounterNames
<1>6. \A m \in Messages : Copies(m) = 0 /\ resent[m] = 0
  BY <1>2, InitialCopies
<1>7. IngestedOncePerSend /\ SendsPaid
  BY <1>6 DEF IngestedOncePerSend, SendsPaid
<1>8. QueueInOrder
  BY <1>2 DEF QueueInOrder
<1>9. Taken = {Nil} /\ ToSet(inbox) = {} /\ ToSet(late) = {}
  BY <1>2 DEF Taken, ToSet
<1>10. InLine
  BY <1>2, <1>3, <1>9 DEF InLine
<1> QED
  BY <1>4, <1>5, <1>7, <1>8, <1>10 DEF LineInv

\* Nothing happens to the bridge, the broker and the publisher.
LEMMA Stutter ==
  ASSUME LineInv, UNCHANGED vars
  PROVE  LineInv'
<1>1. UNCHANGED <<conn, subscribed, posting, counters, inbox, late, ingested, pub, outbox,
                  waiting, published, resent, failed>>
  BY DEF vars, bridge, ingestion, publisher
<1>2. TypeOK' /\ QueueInOrder'
  BY <1>1 DEF LineInv, TypeOK, QueueInOrder
<1>3. \A m \in Messages : Pending(m)' => Pending(m)
  BY <1>1 DEF Pending
<1> QED
  BY <1>1, <1>2, <1>3, QuietStep

\* LineInv is inductive.
LEMMA EveryStep == LineInv /\ [Next]_vars => LineInv'
<1> SUFFICES ASSUME LineInv, [Next]_vars PROVE LineInv'
  OBVIOUS
<1>1. CASE \/ Start \/ OnConnect \/ ConnectRefused \/ Connect \/ WaitEnds \/ Reconnect
  BY <1>1, ConnectionStep
<1>2. CASE Publish
  BY <1>2, PublishStep
<1>3. CASE Acknowledge
  BY <1>3, AcknowledgeStep
<1>4. CASE Disconnect
  <2>1. /\ outbox' = << >> /\ published' \in {published, published + 1} /\ published' = published
        /\ waiting' = waiting /\ pub' = "over" /\ resent' = resent
        /\ UNCHANGED <<conn, subscribed, posting, counters, inbox, late, ingested, failed>>
    BY <1>4 DEF Disconnect, bridge, ingestion
  <2>2. published' \in 0..Len(Kind)
    BY <2>1, StateFacts DEF LineInv
  <2> QED
    BY <2>1, <2>2, DisconnectStep
<1>5. CASE LosePublisher
  BY <1>5, LosePublisherStep
<1>6. CASE Transmit
  BY <1>6, TransmitStep
<1>7. CASE OnMessage
  BY <1>7, OnMessageStep
<1>8. CASE PostSucceeds \/ PostFails
  BY <1>8, PostStep
<1>9. CASE ExecuteLate
  BY <1>9, ExecuteLateStep
<1>10. CASE Drop
  BY <1>10, DropStep
<1>11. CASE CrashAndRestart
  BY <1>11, CrashStep
<1>12. CASE UNCHANGED vars
  BY <1>12, Stutter
<1> QED
  BY <1>1, <1>2, <1>3, <1>4, <1>5, <1>6, <1>7, <1>8, <1>9, <1>10, <1>11, <1>12 DEF Next

\* A message is sent again only if it was published.
LEMMA PublishedFirst ==
  LineInv /\ LineInv' /\ NothingBeforePublished /\ [Next]_vars => NothingBeforePublished'
<1>0. (TypeOK => \A m \in Messages :
          /\ Times(inbox, m) \in Nat /\ Times(late, m) \in Nat /\ Times(ingested, m) \in Nat
          /\ Copies(m) \in Nat /\ resent[m] \in Nat)'
  BY CopiesFacts, PTL
<1> SUFFICES ASSUME LineInv, LineInv', NothingBeforePublished, [Next]_vars,
                    NEW n \in Messages, n > published'
             PROVE  Copies(n)' = 0 /\ resent'[n] = 0
  BY DEF NothingBeforePublished
<1>1. /\ published \in Nat /\ n \in Nat
      /\ \A i \in DOMAIN outbox : outbox[i].msg \in Nat /\ outbox[i].msg <= published
  <2>1. TypeOK /\ \A i \in DOMAIN outbox : outbox[i].msg <= published
    BY DEF LineInv, QueueInOrder
  <2>2. Messages = 1..Len(Kind) /\ Len(Kind) \in Nat /\ published \in 0..Len(Kind)
    BY <2>1, StateFacts
  <2>3. \A i \in DOMAIN outbox : outbox[i].msg \in Messages
    BY <2>1, StateFacts
  <2> QED
    BY <2>1, <2>2, <2>3
<1>2. published' \in {published, published + 1}
  BY DEF Next, Start, OnConnect, ConnectRefused, Drop, Connect, Publish, Transmit, Acknowledge,
         WaitEnds, LosePublisher, Reconnect, Disconnect, OnMessage, PostSucceeds, PostFails,
         ExecuteLate, CrashAndRestart, publisher, vars
<1>3. n > published
  BY <1>1, <1>2
<1>4. resent[n] = 0
  BY <1>3 DEF NothingBeforePublished
<1>5. resent'[n] = 0
  <2>1. CASE LosePublisher
    <3>1. ~ \E i \in DOMAIN outbox : outbox[i].msg = n /\ outbox[i].sent
      BY <1>1, <1>3
    <3> QED
      BY <1>4, <2>1, <3>1 DEF LosePublisher
  <2>2. CASE ~LosePublisher
    <3>1. resent' = resent
      BY <2>2 DEF Next, Start, OnConnect, ConnectRefused, Drop, Connect, Publish, Transmit,
         Acknowledge, WaitEnds, Reconnect, Disconnect, OnMessage, PostSucceeds, PostFails,
         ExecuteLate, CrashAndRestart, publisher, vars
    <3> QED
      BY <1>4, <3>1
  <2> QED
    BY <2>1, <2>2
<1>6. Copies(n)' <= resent'[n]
  BY DEF LineInv, SendsPaid, Pending
<1>7. Copies(n)' \in Nat
  BY <1>0 DEF LineInv
<1> QED
  BY <1>5, <1>6, <1>7

\* Whatever times out, is refused, lost, sent again or crashes, in any order: the
\* counters of /health add up, nothing is taken before it is published, and what the
\* broker has for the bridge, the post of _handle_message, the posts it gave up and
\* the ingestion peer hold at most one copy of a message for each time that
\* MqttPublisher.publish sent it.
THEOREM BridgeInvariant == Spec => []BridgeInv
<1>1. Init => BridgeInv
  <2>1. Init => resent = [m \in Messages |-> 0]
    BY DEF Init
  <2>2. Init => \A m \in Messages : Copies(m) = 0
    BY Initially, InitialCopies
  <2> QED
    BY <2>1, <2>2, Initially DEF BridgeInv, NothingBeforePublished
<1>2. BridgeInv /\ [Next]_vars => BridgeInv'
  BY EveryStep, PublishedFirst DEF BridgeInv
<1> QED
  BY <1>1, <1>2, PTL DEF Spec

-----------------------------------------------------------------------------
(* The order in which messages are ingested.                               *)

\* A message x is ingested that was given up, or sent again, or is behind what was
\* taken before.
LEMMA IngestedNext ==
  ASSUME LineInv, LineInv', OnlyFailedAreOvertaken, NEW x \in Messages,
         ingested' = Append(ingested, x), failed \subseteq failed', resent' = resent,
         x \in failed' \/ resent[x] > 0 \/ (\A y \in ToSet(ingested) : y <= x)
  PROVE  OnlyFailedAreOvertaken'
<1>1. /\ Messages = 1..Len(Kind) /\ Len(Kind) \in Nat
      /\ ingested \in Seq(Messages) /\ resent \in [Messages -> Nat]
  BY StateFacts DEF LineInv
<1>2. /\ Len(ingested) \in Nat /\ DOMAIN ingested = 1..Len(ingested)
      /\ \A k \in DOMAIN ingested : ingested[k] \in Messages
  BY <1>1, ElementFacts
<1>3. /\ DOMAIN Append(ingested, x) = 1..(Len(ingested) + 1)
      /\ Append(ingested, x)[Len(ingested) + 1] = x
      /\ \A k \in 1..Len(ingested) : Append(ingested, x)[k] = ingested[k]
  BY <1>1
<1>4. /\ DOMAIN ingested' = 1..(Len(ingested) + 1) /\ ingested'[Len(ingested) + 1] = x
      /\ \A k \in 1..Len(ingested) : ingested'[k] = ingested[k]
  BY <1>3
<1>5. ASSUME NEW i \in DOMAIN ingested', NEW j \in DOMAIN ingested',
             i < j, ingested'[i] > ingested'[j]
      PROVE  ingested'[j] \in failed' \/ resent'[ingested'[j]] > 0
  <2>1. i \in 1..Len(ingested) /\ ingested'[i] = ingested[i] /\ ingested[i] \in Messages
    BY <1>2, <1>4, <1>5
  <2>2. CASE j \in 1..Len(ingested)
    <3>1. ingested'[j] = ingested[j]
      BY <1>4, <2>2
    <3>2. ingested[j] \in failed \/ resent[ingested[j]] > 0
      BY <1>2, <1>5, <2>1, <2>2, <3>1 DEF OnlyFailedAreOvertaken
    <3> QED
      BY <3>1, <3>2
  <2>3. CASE j = Len(ingested) + 1
    <3>1. ingested'[j] = x /\ ingested[i] > x /\ ingested[i] \in ToSet(ingested)
      BY <1>2, <1>4, <1>5, <2>1, <2>3 DEF ToSet
    <3>2. ~(ingested[i] <= x)
      BY <1>1, <2>1, <3>1
    <3> QED
      BY <3>1, <3>2
  <2> QED
    BY <1>2, <1>4, <2>2, <2>3
<1> QED
  BY <1>5 DEF OnlyFailedAreOvertaken

\* Nothing is ingested.
LEMMA NothingIngested ==
  ASSUME LineInv, OnlyFailedAreOvertaken, ingested' = ingested, failed \subseteq failed',
         \A m \in Messages : resent'[m] \in Nat /\ resent'[m] >= resent[m]
  PROVE  OnlyFailedAreOvertaken'
<1>1. ingested \in Seq(Messages) /\ \A m \in Messages : resent[m] \in Nat
  BY StateFacts, CopiesFacts DEF LineInv
<1>2. \A k \in DOMAIN ingested : ingested[k] \in Messages
  BY <1>1, ElementFacts
<1>3. \A m \in Messages : resent[m] > 0 => resent'[m] > 0
  <2>1. ASSUME NEW m \in Messages, resent[m] > 0 PROVE resent'[m] > 0
    BY <1>1, <2>1
  <2> QED
    BY <2>1
<1>4. ASSUME NEW i \in DOMAIN ingested, NEW j \in DOMAIN ingested, i < j, ingested[i] > ingested[j]
      PROVE  ingested[j] \in failed' \/ resent'[ingested[j]] > 0
  <2>1. ingested[j] \in failed \/ resent[ingested[j]] > 0
    BY <1>4 DEF OnlyFailedAreOvertaken
  <2> QED
    BY <1>2, <1>3, <2>1
<1> QED
  BY <1>4 DEF OnlyFailedAreOvertaken

LEMMA OrderStep ==
  ASSUME LineInv, LineInv', OnlyFailedAreOvertaken, [Next]_vars
  PROVE  OnlyFailedAreOvertaken'
<1>1. /\ posting \in Messages \union {Nil} /\ late \in Seq(Messages) /\ ingested \in Seq(Messages)
      /\ \A m \in Messages : resent[m] \in Nat
  BY StateFacts, CopiesFacts DEF LineInv
<1>2. posting # Nil => resent[posting] > 0 \/ \A y \in ToSet(ingested) : y <= posting
  <2>1. posting # Nil => posting \in Messages /\ resent[posting] \in Nat
    BY <1>1
  <2> QED
    BY <2>1 DEF LineInv, InLine, Taken
<1>3. CASE PostSucceeds
  <2>1. /\ posting \in Messages /\ ingested' = Append(ingested, posting)
        /\ failed' = failed /\ resent' = resent /\ posting # Nil
    BY <1>1, <1>3 DEF PostSucceeds, publisher
  <2> QED
    BY <1>2, <2>1, IngestedNext
<1>4. CASE PostFails
  <2>1. /\ posting \in Messages /\ failed' = failed \union {posting} /\ resent' = resent
        /\ ingested' = Append(ingested, posting) \/ ingested' = ingested
    BY <1>1, <1>4 DEF PostFails, publisher
  <2>2. CASE ingested' = Append(ingested, posting)
    BY <2>1, <2>2, IngestedNext
  <2>3. CASE ingested' = ingested
    <3>1. \A m \in Messages : resent'[m] \in Nat /\ resent'[m] >= resent[m]
      BY <1>1, <2>1
    <3> QED
      BY <2>1, <2>3, <3>1, NothingIngested
  <2> QED
    BY <2>1, <2>2, <2>3
<1>5. CASE ExecuteLate
  <2>1. PICK i \in DOMAIN late : ingested' = Append(ingested, late[i])
    BY <1>5 DEF ExecuteLate
  <2>2. late[i] \in Messages /\ late[i] \in ToSet(late)
    BY <1>1, <2>1, ElementFacts DEF ToSet
  <2>3. failed' = failed /\ resent' = resent /\ ToSet(late) \subseteq failed
    BY <1>5 DEF ExecuteLate, publisher, LineInv, InLine
  <2> QED
    BY <2>1, <2>2, <2>3, IngestedNext
<1>6. CASE LosePublisher
  <2>1. ingested' = ingested /\ failed' = failed
    BY <1>6 DEF LosePublisher, ingestion
  <2>2. \A m \in Messages : resent'[m] \in {resent[m], resent[m] + 1}
    BY <1>6 DEF LosePublisher
  <2>3. \A m \in Messages : resent'[m] \in Nat /\ resent'[m] >= resent[m]
    BY <1>1, <2>2
  <2> QED
    BY <2>1, <2>3, NothingIngested
<1>7. CASE \/ Start \/ OnConnect \/ ConnectRefused \/ Drop
           \/ Connect \/ Publish \/ Transmit \/ Acknowledge \/ WaitEnds
           \/ Reconnect \/ Disconnect \/ OnMessage \/ CrashAndRestart \/ UNCHANGED vars
  <2>1. ingested' = ingested /\ failed \subseteq failed' /\ resent' = resent
    BY <1>7 DEF Start, OnConnect, ConnectRefused, Drop, Connect, Publish, Transmit, Acknowledge,
       WaitEnds, Reconnect, Disconnect, OnMessage, CrashAndRestart, ingestion, publisher, vars
  <2>2. \A m \in Messages : resent'[m] \in Nat /\ resent'[m] >= resent[m]
    BY <1>1, <2>1
  <2> QED
    BY <2>1, <2>2, NothingIngested
<1> QED
  BY <1>3, <1>4, <1>5, <1>6, <1>7 DEF Next

\* The order of the messages: _handle_message posts them one at a time, so that one
\* that the ingestion peer executes after a later one is one whose post was given up
\* or that the publisher's library sent again after a lost connection. This is where
\* InLine is needed: the inbox and the publisher's queue say who comes next.
THEOREM MessagesAreInOrder == Spec => []OnlyFailedAreOvertaken
<1>1. Init => OnlyFailedAreOvertaken
  BY DEF Init, OnlyFailedAreOvertaken
<1>2. LineInv /\ LineInv' /\ OnlyFailedAreOvertaken /\ [Next]_vars => OnlyFailedAreOvertaken'
  BY OrderStep
<1>3. Spec => []LineInv
  BY BridgeInvariant, PTL DEF BridgeInv
<1> QED
  BY <1>1, <1>2, <1>3, PTL DEF Spec

=============================================================================
