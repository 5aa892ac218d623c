--------------------------- MODULE DashboardProofs ---------------------------
(***************************************************************************)
(* Proofs about the web dashboard: DashboardInv is inductive for any set   *)
(* of alerts and any bounds, and with it when the list shows a review and  *)
(* when it may go back in time.                                            *)
(***************************************************************************)
EXTENDS Dashboard, SequenceTheorems, TLAPS

-----------------------------------------------------------------------------
(* Sequences that an element leaves, and the types of the state.           *)

\* RemoveAt, element by element.
LEMMA RemoveFacts ==
  ASSUME NEW S, NEW s \in Seq(S), NEW i \in 1..Len(s)
  PROVE  /\ RemoveAt(s, i) \in Seq(S) /\ Len(RemoveAt(s, i)) = Len(s) - 1
         /\ \A k \in 1..(Len(s) - 1) :
              RemoveAt(s, i)[k] = IF k < i THEN s[k] ELSE s[k + 1]
<1> DEFINE front == SubSeq(s, 1, i - 1)
           back  == SubSeq(s, i + 1, Len(s))
<1>1. Len(s) \in Nat /\ i \in Nat /\ 1 <= i /\ i <= Len(s) /\ \A k \in 1..Len(s) : s[k] \in S
  OBVIOUS
<1>2. /\ front \in Seq(S) /\ Len(front) = i - 1
      /\ \A k \in 1..(i - 1) : front[k] = s[k]
  <2>1. 1 \in Int /\ i - 1 \in Int /\ \A k \in 1..(i - 1) : s[k] \in S
    BY <1>1
  <2>2. /\ front \in Seq(S) /\ Len(front) = IF 1 <= i - 1 THEN i - 1 - 1 + 1 ELSE 0
        /\ \A k \in 1..(i - 1 - 1 + 1) : front[k] = s[1 + k - 1]
    BY <2>1, SubSeqProperties
  <2> HIDE DEF front
  <2> QED
    BY <1>1, <2>2
<1>3. /\ back \in Seq(S) /\ Len(back) = Len(s) - i
      /\ \A k \in 1..(Len(s) - i) : back[k] = s[k + i]
  <2>1. i + 1 \in Int /\ Len(s) \in Int /\ \A k \in (i + 1)..Len(s) : s[k] \in S
    BY <1>1
  <2>2. /\ back \in Seq(S)
        /\ Len(back) = IF i + 1 <= Len(s) THEN Len(s) - (i + 1) + 1 ELSE 0
        /\ \A k \in 1..(Len(s) - (i + 1) + 1) : back[k] = s[(i + 1) + k - 1]
    BY <2>1, SubSeqProperties
  <2> HIDE DEF back
  <2> QED
    BY <1>1, <2>2
<1>4. RemoveAt(s, i) = front \o back
  BY DEF RemoveAt
<1> HIDE DEF front, back
<1>5. /\ front \o back \in Seq(S) /\ Len(front \o back) = Len(front) + Len(back)
      /\ \A k \in 1..(Len(front) + Len(back)) :
           (front \o back)[k] = IF k <= Len(front) THEN front[k] ELSE back[k - Len(front)]
  BY <1>2, <1>3, ConcatProperties
<1> QED
  BY <1>1, <1>2, <1>3, <1>4, <1>5

\* What is left is the others.
LEMMA RemainingFacts ==
  ASSUME NEW S, NEW s \in Seq(S), NEW i \in 1..Len(s)
  PROVE  /\ RemoveAt(s, i) \in Seq(S) /\ Len(RemoveAt(s, i)) = Len(s) - 1
         /\ \A k \in 1..Len(RemoveAt(s, i)) :
              \E j \in 1..Len(s) : j # i /\ RemoveAt(s, i)[k] = s[j]
         /\ \A j \in 1..Len(s) :
              j # i => \E k \in 1..Len(RemoveAt(s, i)) : RemoveAt(s, i)[k] = s[j]
<1>0. PICK t : t = RemoveAt(s, i)
  OBVIOUS
<1>1. /\ t \in Seq(S) /\ Len(t) = Len(s) - 1 /\ DOMAIN t = 1..Len(t)
      /\ Len(s) \in Nat /\ i \in Nat
      /\ \A k \in 1..(Len(s) - 1) : t[k] = IF k < i THEN s[k] ELSE s[k + 1]
  <2>1. /\ t \in Seq(S) /\ Len(t) = Len(s) - 1
        /\ \A k \in 1..(Len(s) - 1) : t[k] = IF k < i THEN s[k] ELSE s[k + 1]
    BY <1>0, RemoveFacts
  <2>2. Len(s) \in Nat /\ i \in Nat
    OBVIOUS
  <2>3. DOMAIN t = 1..Len(t)
    BY <2>1
  <2> QED
    BY <2>1, <2>2, <2>3
<1>2. ASSUME NEW k \in 1..Len(t) PROVE \E j \in 1..Len(s) : j # i /\ t[k] = s[j]
  <2>1. CASE k < i
    BY <1>1, <2>1
  <2>2. CASE ~(k < i)
    <3>1. k + 1 \in 1..Len(s) /\ k + 1 # i /\ t[k] = s[k + 1]
      BY <1>1, <2>2
    <3> QED
      BY <3>1
  <2> QED
    BY <2>1, <2>2
<1>3. ASSUME NEW j \in 1..Len(s), j # i PROVE \E k \in 1..Len(t) : t[k] = s[j]
  <2>1. CASE j < i
    BY <1>1, <2>1
  <2>2. CASE ~(j < i)
    <3>1. j - 1 \in 1..Len(t) /\ ~(j - 1 < i) /\ (j - 1) + 1 = j
      BY <1>1, <1>3, <2>2
    <3>2. t[j - 1] = s[(j - 1) + 1]
      BY <1>1, <3>1
    <3> QED
      BY <3>1, <3>2
  <2> QED
    BY <2>1, <2>2
<1> QED
  BY <1>0, <1>1, <1>2, <1>3

\* Append, element by element.
LEMMA AppendFacts ==
  ASSUME NEW S, NEW s \in Seq(S), NEW e \in S, NEW t, t = Append(s, e)
  PROVE  /\ t \in Seq(S) /\ Len(t) = Len(s) + 1 /\ DOMAIN t = 1..(Len(s) + 1)
         /\ t[Len(s) + 1] = e /\ \A k \in 1..Len(s) : t[k] = s[k]
         /\ Len(s) \in Nat /\ DOMAIN s = 1..Len(s) /\ t # << >>
  OBVIOUS

\* The sequences and their elements.
LEMMA StateFacts ==
  ASSUME TypeOK
  PROVE  /\ runs \in Seq(Run) /\ Len(runs) \in Nat /\ DOMAIN runs = 1..Len(runs)
         /\ \A i \in DOMAIN runs : runs[i] \in Run
         /\ reviews \in Seq(Review) /\ Len(reviews) \in Nat
         /\ DOMAIN reviews = 1..Len(reviews)
         /\ \A k \in DOMAIN reviews : reviews[k] \in Review
         /\ status \in Lists /\ \A a \in Alerts : status[a] \in {0, 1, 2}
         /\ data # Null => data \in Lists /\ \A a \in Alerts : data[a] \in {0, 1, 2}
<1>1. /\ runs \in Seq(Run) /\ reviews \in Seq(Review) /\ status \in Lists
      /\ data # Null => data \in Lists
  BY DEF TypeOK
<1> QED
  BY <1>1 DEF Lists, Absent, Pending, Reviewed

-----------------------------------------------------------------------------
(* The hook.                                                               *)

\* A run starts: whatever was acknowledged before is in its after.
LEMMA StartedRun ==
  ASSUME TypeOK, RunsInv, runs' = Append(runs, NewRun(returned')),
         status' = status, data' = data,
         returned \subseteq returned', returned' \subseteq Alerts,
         \A a \in returned' : status[a] = Reviewed
  PROVE  runs' \in Seq(Run) /\ runs' # << >> /\ RunsInv' /\ ReviewedIsRefreshed'
<1>1. PICK n : n = NewRun(returned')
  OBVIOUS
<1>2. n \in Run /\ n.answer = Awaiting /\ n.answer \notin Lists /\ n.after = returned'
  BY <1>1, ValuesAssumption DEF NewRun, Run
<1>3. /\ runs' \in Seq(Run) /\ DOMAIN runs' = 1..(Len(runs) + 1) /\ runs' # << >>
      /\ runs'[Len(runs) + 1] = n /\ \A k \in 1..Len(runs) : runs'[k] = runs[k]
      /\ Len(runs) \in Nat /\ DOMAIN runs = 1..Len(runs)
  <2>1. runs \in Seq(Run) /\ runs' = Append(runs, n)
    BY <1>1 DEF TypeOK
  <2> QED
    BY <1>2, <2>1, AppendFacts
<1>4. Len(runs) + 1 \in DOMAIN runs' /\ runs'[Len(runs) + 1].after = returned'
  BY <1>2, <1>3
<1>5. ASSUME NEW i \in DOMAIN runs' PROVE InTime(runs[i])'
  <2>1. CASE runs'[i] = n
    BY <1>2, <2>1 DEF InTime
  <2>2. CASE i \in DOMAIN runs /\ runs'[i] = runs[i]
    <3>1. InTime(runs[i])
      BY <2>2 DEF RunsInv
    <3> QED
      BY <1>4, <2>2, <3>1 DEF InTime
  <2> QED
    BY <1>3, <2>1, <2>2
<1>6. RunsInv'
  BY <1>5 DEF RunsInv
<1>7. ReviewedIsRefreshed'
  BY <1>4 DEF ReviewedIsRefreshed
<1> QED
  BY <1>3, <1>6, <1>7

\* Only run i has changed, and only its answer.
LEMMA AnsweredRun ==
  ASSUME TypeOK, RunsInv, ReviewedIsRefreshed, NEW i \in DOMAIN runs,
         NEW x \in {status, Failed}, runs' = [runs EXCEPT ![i].answer = x],
         status' = status, data' = data, error' = error,
         returned' = returned, outdated' = outdated
  PROVE  /\ runs' \in Seq(Run) /\ DOMAIN runs' = DOMAIN runs /\ RunsInv'
         /\ ReviewedIsRefreshed'
<1>1. /\ runs \in Seq(Run) /\ DOMAIN runs = 1..Len(runs) /\ runs[i] \in Run
      /\ status \in Lists
  BY StateFacts
<1>2. PICK n : n = [runs[i] EXCEPT !.answer = x]
  OBVIOUS
<1>3. /\ n \in Run /\ n.answer = x /\ n.after = runs[i].after /\ n.passed = runs[i].passed
  BY <1>1, <1>2 DEF Run
<1>4. /\ runs' \in Seq(Run) /\ DOMAIN runs' = DOMAIN runs
      /\ runs'[i] = n /\ \A j \in DOMAIN runs : j # i => runs'[j] = runs[j]
  BY <1>1, <1>2, <1>3
<1>5. \A j \in DOMAIN runs : runs'[j].after = runs[j].after
  BY <1>3, <1>4
<1>6. ASSUME NEW j \in DOMAIN runs' PROVE InTime(runs[j])'
  <2>1. InTime(runs[j])
    BY <1>4 DEF RunsInv
  <2>2. CASE j = i
    <3>1. x = Failed => x \notin Lists
      BY ValuesAssumption
    <3>2. \A a \in returned : status[a] = Reviewed
      BY DEF RunsInv
    <3>3. data # Null => \A a \in Alerts : data[a] <= status[a]
      BY DEF RunsInv
    <3>4. \A a \in Alerts : status[a] <= status[a]
      BY StateFacts
    <3>5. runs'[j] = n
      BY <1>4, <2>2
    <3>6. n.after \subseteq returned
      BY <1>3, <2>1, <2>2 DEF InTime
    <3>7. n.answer \in Lists =>
            \A a \in Alerts : n.answer[a] <= status[a] /\ (a \in n.after => n.answer[a] = Reviewed)
      BY <1>3, <3>1, <3>2, <3>4, <3>6
    <3>8. (n.answer \in Lists /\ data # Null) => \A a \in Alerts : data[a] <= n.answer[a]
      BY <1>3, <3>1, <3>3
    <3>9. ~n.passed => \A a \in returned \ n.after : \E k \in DOMAIN runs' : a \in runs'[k].after
      BY <1>3, <1>4, <1>5, <2>1, <2>2 DEF InTime
    <3> QED
      BY <3>5, <3>6, <3>7, <3>8, <3>9 DEF InTime
  <2>3. CASE j # i
    BY <1>4, <1>5, <2>1, <2>3 DEF InTime
  <2> QED
    BY <2>2, <2>3
<1>7. RunsInv'
  BY <1>6 DEF RunsInv
<1>8. ReviewedIsRefreshed'
  BY <1>4, <1>5 DEF ReviewedIsRefreshed
<1> QED
  BY <1>4, <1>7, <1>8

\* Run i settles: the others are passed.
LEMMA SettledRun ==
  ASSUME TypeOK, NEW i \in DOMAIN runs, Settle(i)
  PROVE  /\ runs' \in Seq(Run)
         /\ \A k \in DOMAIN runs' : \E j \in DOMAIN runs \ {i} :
              /\ runs'[k].answer = runs[j].answer /\ runs'[k].after = runs[j].after
              /\ runs'[k].passed = TRUE
         /\ \A j \in DOMAIN runs \ {i} : \E k \in DOMAIN runs' : runs'[k].after = runs[j].after
<1>1. /\ runs \in Seq(Run) /\ DOMAIN runs = 1..Len(runs) /\ Len(runs) \in Nat
      /\ \A j \in DOMAIN runs : runs[j] \in Run
  BY StateFacts
<1>2. PICK s : s = [j \in DOMAIN runs |-> [runs[j] EXCEPT !.passed = TRUE]]
  OBVIOUS
<1>3. \A j \in DOMAIN runs : /\ s[j] \in Run /\ s[j].answer = runs[j].answer
                             /\ s[j].after = runs[j].after /\ s[j].passed = TRUE
  BY <1>1, <1>2 DEF Run
<1>4. s \in Seq(Run) /\ Len(s) = Len(runs)
  BY <1>1, <1>2, <1>3
<1>5. PICK t : t = RemoveAt(s, i)
  OBVIOUS
<1>6. i \in 1..Len(s) /\ runs' = t
  BY <1>1, <1>2, <1>4, <1>5 DEF Settle
<1>7. /\ t \in Seq(Run) /\ Len(t) = Len(s) - 1
      /\ \A k \in 1..Len(t) : \E j \in 1..Len(s) : j # i /\ t[k] = s[j]
      /\ \A j \in 1..Len(s) : j # i => \E k \in 1..Len(t) : t[k] = s[j]
  <2>1. s \in Seq(Run) /\ i \in 1..Len(s) /\ t = RemoveAt(s, i)
    BY <1>4, <1>5, <1>6
  <2> QED
    BY <2>1, RemainingFacts
<1>8. DOMAIN runs' = 1..Len(t) /\ DOMAIN runs = 1..Len(s)
  BY <1>1, <1>4, <1>6, <1>7
<1>9. ASSUME NEW k \in DOMAIN runs'
      PROVE  \E j \in DOMAIN runs \ {i} :
               /\ runs'[k].answer = runs[j].answer /\ runs'[k].after = runs[j].after
               /\ runs'[k].passed = TRUE
  <2>1. PICK j \in DOMAIN runs \ {i} : runs'[k] = s[j]
    BY <1>6, <1>7, <1>8
  <2> QED
    BY <1>3, <2>1
<1>10. ASSUME NEW j \in DOMAIN runs \ {i}
      PROVE  \E k \in DOMAIN runs' : runs'[k].after = runs[j].after
  <2>1. PICK k \in DOMAIN runs' : runs'[k] = s[j]
    BY <1>6, <1>7, <1>8
  <2> QED
    BY <1>3, <2>1
<1> QED
  BY <1>6, <1>7, <1>9, <1>10

\* The answer of run i is applied, whatever has arrived before it.
LEMMA ArriveStep ==
  ASSUME TypeOK, RunsInv, ReviewedIsRefreshed, NEW i \in DOMAIN runs, Arrive(i)
  PROVE  /\ runs' \in Seq(Run) /\ data' \in Lists \union {Null}
         /\ error' \in BOOLEAN /\ outdated' \in BOOLEAN
         /\ RunsInv' /\ ReviewedIsRefreshed'
<1>1. PICK r : r = runs[i]
  OBVIOUS
<1>2. /\ r \in Run /\ InTime(r) /\ r.answer # Awaiting /\ r.passed \in BOOLEAN
      /\ UNCHANGED <<status, returned>> /\ status \in Lists
      /\ error \in BOOLEAN /\ outdated \in BOOLEAN
  BY <1>1, StateFacts DEF Arrive, RunsInv, TypeOK, Run
<1>3. /\ runs' \in Seq(Run)
      /\ \A k \in DOMAIN runs' : \E j \in DOMAIN runs \ {i} :
           /\ runs'[k].answer = runs[j].answer /\ runs'[k].after = runs[j].after
           /\ runs'[k].passed = TRUE
      /\ \A j \in DOMAIN runs \ {i} : \E k \in DOMAIN runs' : runs'[k].after = runs[j].after
  BY SettledRun DEF Arrive
<1>4. ASSUME NEW k \in DOMAIN runs' PROVE InTime(runs[k])'
  <2>1. PICK j \in DOMAIN runs \ {i} :
           /\ runs'[k].answer = runs[j].answer /\ runs'[k].after = runs[j].after
           /\ runs'[k].passed = TRUE
    BY <1>3
  <2>2. InTime(runs[j])
    BY <2>1 DEF RunsInv
  <2> QED
    BY <1>2, <2>1, <2>2 DEF InTime
<1>5. \A a \in returned' : status'[a] = Reviewed
  BY <1>2 DEF RunsInv
<1>6. CASE r.answer = Failed
  <2>1. error' = TRUE /\ data' = data /\ outdated' = outdated
    BY <1>1, <1>6 DEF Arrive
  <2>2. data' # Null => \A a \in Alerts : data'[a] <= status'[a]
    BY <1>2, <2>1 DEF RunsInv
  <2>3. RunsInv'
    BY <1>4, <1>5, <2>2 DEF RunsInv
  <2>4. ReviewedIsRefreshed'
    BY <2>1 DEF ReviewedIsRefreshed
  <2> QED
    BY <1>2, <1>3, <2>1, <2>3, <2>4 DEF TypeOK
<1>7. CASE r.answer # Failed
  <2>1. error' = FALSE /\ data' = r.answer /\ outdated' = r.passed
    BY <1>1, <1>7 DEF Arrive
  <2>2. r.answer \in Lists /\ data' # Null
    BY <1>2, <1>7, <2>1, ValuesAssumption DEF Run
  <2>3. \A a \in Alerts : data'[a] <= status'[a] /\ (a \in r.after => data'[a] = Reviewed)
    BY <1>2, <2>1, <2>2 DEF InTime
  <2>4. RunsInv'
    BY <1>4, <1>5, <2>3 DEF RunsInv
  <2>5. ASSUME NEW a \in returned, ~r.passed
        PROVE  data'[a] = Reviewed \/ \E k \in DOMAIN runs' : a \in runs'[k].after
    <3>1. CASE a \in r.after
      BY <2>3, <3>1, StateFacts DEF TypeOK
    <3>2. CASE a \notin r.after
      <4>1. PICK j \in DOMAIN runs : a \in runs[j].after
        BY <1>2, <2>5, <3>2 DEF InTime
      <4>2. j # i
        BY <1>1, <3>2, <4>1
      <4> QED
        BY <1>3, <4>1, <4>2
    <3> QED
      BY <3>1, <3>2
  <2>6. ReviewedIsRefreshed'
    BY <1>2, <2>1, <2>2, <2>5 DEF ReviewedIsRefreshed
  <2> QED
    BY <1>2, <1>3, <2>1, <2>2, <2>4, <2>6
<1> QED
  BY <1>6, <1>7

\* The peer's list has moved on, and nothing else that the runs depend on.
LEMMA PeerMovesOn ==
  ASSUME TypeOK, RunsInv, ReviewedIsRefreshed,
         status' \in Lists, \A a \in Alerts : status[a] <= status'[a],
         UNCHANGED <<data, error, runs, returned, outdated>>
  PROVE  RunsInv' /\ ReviewedIsRefreshed'
<1>1. /\ \A a \in Alerts : status[a] \in {0, 1, 2} /\ status'[a] \in {0, 1, 2}
      /\ returned \subseteq Alerts
      /\ data # Null => \A a \in Alerts : data[a] \in {0, 1, 2}
  BY StateFacts DEF Lists, Absent, Pending, Reviewed, TypeOK
<1>2. \A a \in returned' : status'[a] = Reviewed
  <2>1. \A a \in returned : status[a] = 2
    BY DEF RunsInv, Reviewed
  <2> QED
    BY <1>1, <2>1 DEF Reviewed
<1>3. data' # Null => \A a \in Alerts : data'[a] <= status'[a]
  <2>1. data # Null => \A a \in Alerts : data[a] <= status[a]
    BY DEF RunsInv
  <2> QED
    BY <1>1, <2>1
<1>4. ASSUME NEW i \in DOMAIN runs' PROVE InTime(runs[i])'
  <2>1. PICK r : r = runs[i]
    OBVIOUS
  <2>2. InTime(r) /\ runs'[i] = r
    BY <2>1 DEF RunsInv
  <2>3. r.answer \in Lists => \A a \in Alerts : r.answer[a] \in {0, 1, 2}
    BY DEF Lists, Absent, Pending, Reviewed
  <2>4. r.answer \in Lists => \A a \in Alerts : r.answer[a] <= status'[a]
    <3>1. r.answer \in Lists => \A a \in Alerts : r.answer[a] <= status[a]
      BY <2>2 DEF InTime
    <3> QED
      BY <1>1, <2>3, <3>1
  <2> QED
    BY <2>2, <2>4 DEF InTime
<1> QED
  BY <1>2, <1>3, <1>4 DEF RunsInv, ReviewedIsRefreshed

-----------------------------------------------------------------------------
(* The panel of the alerts.                                                *)

\* The one review under way is that of one alert.
LEMMA ReviewsApart ==
  ASSUME ReviewsInv
  PROVE  OneReviewInFlight
  BY DEF ReviewsInv, OneReviewInFlight

\* The first half of NobodyStuck: the disabled buttons wait for a review.
Busy ==
  busyId # Nobody => \E k \in DOMAIN reviews : reviews[k].alert = busyId /\ reviews[k].here

\* A review ends: its alert is the busy one, or the panel is another.
LEMMA FinishStep ==
  ASSUME TypeOK, Busy, ReviewsInv, NEW k \in DOMAIN reviews, Finish(k),
         status' = status, crossed' = crossed
  PROVE  /\ reviews' \in Seq(Review) /\ busyId' \in Alerts \union {Nobody}
         /\ Busy' /\ ReviewsInv'
<1>1. /\ reviews \in Seq(Review) /\ DOMAIN reviews = 1..Len(reviews) /\ Len(reviews) \in Nat
      /\ k \in 1..Len(reviews) /\ reviews[k] \in Review
  BY StateFacts
<1>2. PICK t : t = RemoveAt(reviews, k)
  OBVIOUS
<1>3. reviews' = t
  BY <1>2 DEF Finish
<1>4. /\ t \in Seq(Review) /\ Len(t) = Len(reviews) - 1
      /\ \A j \in 1..Len(t) : \E l \in 1..Len(reviews) : l # k /\ t[j] = reviews[l]
      /\ \A l \in 1..Len(reviews) : l # k => \E j \in 1..Len(t) : t[j] = reviews[l]
  BY <1>1, <1>2, RemainingFacts
<1>5. DOMAIN reviews' = 1..Len(t) /\ Len(t) \in Nat
  BY <1>3, <1>4
<1>6. busyId' \in Alerts \union {Nobody}
  BY DEF Finish, TypeOK
<1>7. Busy'
  <2> SUFFICES ASSUME busyId' # Nobody
               PROVE  \E j \in DOMAIN reviews' : reviews'[j].alert = busyId' /\ reviews'[j].here
    BY DEF Busy
  <2>1. ~reviews[k].here /\ busyId' = busyId
    BY DEF Finish
  <2>2. PICK l \in DOMAIN reviews : reviews[l].alert = busyId /\ reviews[l].here
    BY <2>1 DEF Busy
  <2>3. PICK j \in 1..Len(t) : t[j] = reviews[l]
    BY <1>1, <1>4, <2>1, <2>2
  <2> QED
    BY <1>3, <1>5, <2>1, <2>2, <2>3
<1>8. ASSUME ~crossed' PROVE DOMAIN reviews' = {}
  <2>1. \A l \in DOMAIN reviews : l = 1
    BY <1>8 DEF ReviewsInv
  <2>2. Len(reviews) = 1
    BY <1>1, <2>1
  <2> QED
    BY <1>4, <1>5, <2>2
<1>9. ASSUME NEW j \in DOMAIN reviews', reviews'[j].served
      PROVE  status'[reviews'[j].alert] = Reviewed
  <2>1. PICK l \in DOMAIN reviews : reviews'[j] = reviews[l]
    BY <1>1, <1>3, <1>4, <1>5
  <2> QED
    BY <1>9, <2>1 DEF ReviewsInv
<1>10. ReviewsInv'
  BY <1>8, <1>9 DEF ReviewsInv
<1> QED
  BY <1>3, <1>4, <1>6, <1>7, <1>10

\* A click: no review is under way, or reviews cross.
LEMMA ClickStep ==
  ASSUME TypeOK, Busy, ReviewsInv, NEW a \in Alerts, Click(a)
  PROVE  /\ reviews' \in Seq(Review) /\ busyId' \in Alerts \union {Nobody}
         /\ crossed' \in BOOLEAN /\ Busy' /\ ReviewsInv'
<1>1. PICK n : n = [alert |-> a, served |-> FALSE, here |-> TRUE]
  OBVIOUS
<1>2. n \in Review /\ n.alert = a /\ n.served = FALSE /\ n.here = TRUE
  BY <1>1 DEF Review
<1>3. /\ reviews' \in Seq(Review) /\ DOMAIN reviews' = 1..(Len(reviews) + 1)
      /\ reviews'[Len(reviews) + 1] = n /\ \A k \in 1..Len(reviews) : reviews'[k] = reviews[k]
      /\ Len(reviews) \in Nat /\ DOMAIN reviews = 1..Len(reviews)
  <2>1. reviews \in Seq(Review) /\ reviews' = Append(reviews, n)
    BY <1>1 DEF TypeOK, Click
  <2> QED
    BY <1>2, <2>1, AppendFacts
<1>4. busyId' = a /\ busyId # a /\ status' = status
  BY DEF Click, Offered
<1>5. Len(reviews) + 1 \in DOMAIN reviews'
  BY <1>3
<1>6. Busy'
  BY <1>2, <1>3, <1>4, <1>5 DEF Busy
<1>7. ASSUME ~crossed', NEW k \in DOMAIN reviews' PROVE k = 1 /\ reviews'[k].alert = busyId'
  <2>1. ~crossed /\ \A j \in DOMAIN reviews : reviews[j].alert = a
    BY <1>7 DEF Click
  <2>2. \A j \in DOMAIN reviews : reviews[j].alert = busyId
    BY <2>1 DEF ReviewsInv
  <2>3. Len(reviews) = 0
    BY <1>3, <1>4, <2>1, <2>2
  <2> QED
    BY <1>2, <1>3, <1>4, <2>3
<1>8. ASSUME NEW k \in DOMAIN reviews', reviews'[k].served
      PROVE  status'[reviews'[k].alert] = Reviewed
  <2>1. k \in DOMAIN reviews /\ reviews'[k] = reviews[k]
    BY <1>2, <1>3, <1>8
  <2> QED
    BY <1>4, <1>8, <2>1 DEF ReviewsInv
<1>9. ReviewsInv'
  BY <1>7, <1>8 DEF ReviewsInv
<1>10. busyId' \in Alerts \union {Nobody} /\ crossed' \in BOOLEAN
  <2>1. crossed \in BOOLEAN
    BY DEF TypeOK
  <2>2. crossed' = (crossed \/ \E k \in DOMAIN reviews : reviews[k].alert # a)
    BY DEF Click
  <2> QED
    BY <1>4, <2>1, <2>2
<1> QED
  BY <1>3, <1>6, <1>9, <1>10

\* The tab is left, or shown again: a panel without reviews.
LEMMA SwitchTabStep ==
  ASSUME TypeOK, ReviewsInv, SwitchTab
  PROVE  /\ reviews' \in Seq(Review) /\ busyId' \in Alerts \union {Nobody}
         /\ crossed' \in BOOLEAN /\ open' \in BOOLEAN /\ Busy' /\ ReviewsInv'
<1>1. /\ reviews \in Seq(Review) /\ DOMAIN reviews = 1..Len(reviews) /\ Len(reviews) \in Nat
      /\ \A k \in DOMAIN reviews : reviews[k] \in Review
  BY StateFacts
<1>2. PICK t : t = [k \in DOMAIN reviews |-> [reviews[k] EXCEPT !.here = FALSE]]
  OBVIOUS
<1>3. /\ DOMAIN t = DOMAIN reviews
      /\ \A k \in DOMAIN reviews : /\ t[k] \in Review /\ t[k].alert = reviews[k].alert
                                   /\ t[k].served = reviews[k].served
  BY <1>1, <1>2 DEF Review
<1>4. t \in Seq(Review)
  BY <1>1, <1>2, <1>3
<1>5. reviews' = t /\ busyId' = Nobody /\ status' = status
  BY <1>2 DEF SwitchTab
<1>6. crossed' \in BOOLEAN /\ (~crossed' => DOMAIN reviews' = {})
  <2>1. crossed \in BOOLEAN /\ crossed' = (crossed \/ reviews # << >>)
    BY DEF TypeOK, SwitchTab
  <2>2. reviews = << >> => DOMAIN reviews = {}
    OBVIOUS
  <2> QED
    BY <1>3, <1>5, <2>1, <2>2
<1>7. \A k \in DOMAIN reviews' : reviews'[k].served => status'[reviews'[k].alert] = Reviewed
  BY <1>3, <1>5 DEF ReviewsInv
<1>8. Busy' /\ ReviewsInv'
  BY <1>5, <1>6, <1>7 DEF Busy, ReviewsInv
<1>9. open' \in BOOLEAN
  BY DEF SwitchTab, TypeOK
<1> QED
  BY <1>4, <1>5, <1>6, <1>8, <1>9

\* The peer serves a review: the list moves on.
LEMMA ServeStep ==
  ASSUME TypeOK, Busy, ReviewsInv, NEW k \in DOMAIN reviews, Serve(k)
  PROVE  /\ reviews' \in Seq(Review) /\ status' \in Lists
         /\ \A a \in Alerts : status[a] <= status'[a]
         /\ Busy' /\ ReviewsInv'
<1>1. /\ reviews \in Seq(Review) /\ DOMAIN reviews = 1..Len(reviews) /\ Len(reviews) \in Nat
      /\ reviews[k] \in Review /\ status \in Lists
      /\ \A a \in Alerts : status[a] \in {0, 1, 2}
      /\ \A j \in DOMAIN reviews : reviews[j] \in Review
  BY StateFacts
<1>2. PICK n : n = [reviews[k] EXCEPT !.served = TRUE]
  OBVIOUS
<1>3. n \in Review /\ n.alert = reviews[k].alert /\ n.here = reviews[k].here
  BY <1>1, <1>2 DEF Review
<1>4. /\ reviews' = [reviews EXCEPT ![k] = n] /\ busyId' = busyId /\ crossed' = crossed
      /\ status' = [status EXCEPT ![reviews[k].alert] = 2]
  BY <1>1, <1>2 DEF Serve, observers, Reviewed
<1>5. /\ reviews' \in Seq(Review) /\ DOMAIN reviews' = DOMAIN reviews
      /\ reviews'[k] = n /\ \A j \in DOMAIN reviews : j # k => reviews'[j] = reviews[j]
  BY <1>1, <1>3, <1>4
<1>6. \A j \in DOMAIN reviews : /\ reviews'[j].alert = reviews[j].alert
                                /\ reviews'[j].here = reviews[j].here
  BY <1>3, <1>5
<1>7. reviews[k].alert \in Alerts
  BY <1>1 DEF Review
<1>8. /\ status' \in Lists /\ status'[reviews[k].alert] = 2
      /\ \A a \in Alerts : status[a] <= status'[a] /\ (status[a] = 2 => status'[a] = 2)
  BY <1>1, <1>4, <1>7 DEF Lists, Absent, Pending, Reviewed
<1>9. ASSUME NEW j \in DOMAIN reviews', reviews'[j].served
      PROVE  status'[reviews'[j].alert] = 2
  <2>1. CASE j = k
    BY <1>3, <1>5, <1>8, <2>1
  <2>2. CASE j # k
    <3>1. reviews'[j] = reviews[j] /\ reviews[j].alert \in Alerts
      BY <1>1, <1>5, <2>2 DEF Review
    <3>2. status[reviews[j].alert] = 2
      BY <1>5, <1>9, <3>1 DEF ReviewsInv, Reviewed
    <3> QED
      BY <1>8, <3>1, <3>2
  <2> QED
    BY <2>1, <2>2
<1>10. Busy'
  BY <1>4, <1>5, <1>6 DEF Busy
<1>11. ~crossed' => \A j \in DOMAIN reviews' : j = 1 /\ reviews'[j].alert = busyId'
  BY <1>4, <1>5, <1>6 DEF ReviewsInv
<1>12. ReviewsInv'
  BY <1>9, <1>11 DEF ReviewsInv, Reviewed
<1> QED
  BY <1>5, <1>8, <1>10, <1>12

-----------------------------------------------------------------------------
(* The invariant.                                                          *)

\* What is carried along: the invariant, and that reviews are refreshed.
RefreshInv == DashboardInv /\ ReviewedIsRefreshed

LEMMA Initially == Init => RefreshInv
<1> SUFFICES ASSUME Init PROVE RefreshInv
  OBVIOUS
<1>1. PICK n : n = NewRun({})
  OBVIOUS
<1>2. /\ n \in Run /\ n.answer = Awaiting /\ n.answer \notin Lists /\ n.after = {}
      /\ n.passed = FALSE
  BY <1>1, ValuesAssumption DEF NewRun, Run
<1>3. runs \in {<<n>>, <<n, n>>} /\ data = Null /\ returned = {} /\ reviews = << >>
  BY <1>1 DEF Init
<1>4. runs \in Seq(Run) /\ runs # << >> /\ \A i \in DOMAIN runs : runs[i] = n
  <2>1. CASE runs = <<n>>
    BY <1>2, <2>1
  <2>2. CASE runs = <<n, n>>
    BY <1>2, <2>2
  <2> QED
    BY <1>3, <2>1, <2>2
<1>5. status \in Lists
  BY DEF Init, Lists
<1>6. TypeOK
  <2>1. /\ error \in BOOLEAN /\ loading \in BOOLEAN /\ sawNull \in BOOLEAN /\ open \in BOOLEAN
        /\ outdated \in BOOLEAN /\ crossed \in BOOLEAN
    BY DEF Init
  <2>2. reviews \in Seq(Review) /\ busyId \in Alerts \union {Nobody}
    BY DEF Init
  <2> QED
    BY <1>3, <1>4, <1>5, <2>1, <2>2 DEF TypeOK
<1>7. NobodyStuck /\ ReviewsInv
  BY <1>3, <1>4 DEF Init, NobodyStuck, ReviewsInv
<1>8. RunsInv /\ ReviewedIsRefreshed
  BY <1>2, <1>3, <1>4 DEF RunsInv, InTime, ReviewedIsRefreshed
<1> QED
  BY <1>6, <1>7, <1>8, ReviewsApart DEF RefreshInv, DashboardInv

\* Assembles the invariant after a step.
LEMMA Assembled ==
  ASSUME TypeOK', Busy', (loading => runs # << >>)', ReviewsInv', RunsInv', ReviewedIsRefreshed'
  PROVE  RefreshInv'
<1>1. (ReviewsInv => OneReviewInFlight)'
  BY ReviewsApart, PTL
<1> QED
  BY <1>1 DEF RefreshInv, DashboardInv, NobodyStuck, Busy

\* The parts of the invariant.
LEMMA Parts ==
  ASSUME RefreshInv
  PROVE  /\ TypeOK /\ Busy /\ (loading => runs # << >>) /\ ReviewsInv /\ RunsInv
         /\ ReviewedIsRefreshed
  BY DEF RefreshInv, DashboardInv, NobodyStuck, Busy

\* Tick, RefreshAll and ChangeInterval start a run.
LEMMA StartStep ==
  ASSUME RefreshInv, Tick \/ RefreshAll \/ ChangeInterval
  PROVE  RefreshInv'
<1>1. /\ runs' = Append(runs, NewRun(returned'))
      /\ UNCHANGED <<status, data, error, open, busyId, reviews, returned, outdated, crossed>>
  BY DEF Tick, RefreshAll, ChangeInterval, StartRun, panel, observers
<1>2. loading' \in BOOLEAN /\ sawNull' \in BOOLEAN
  BY Parts DEF Tick, RefreshAll, ChangeInterval, StartRun, TypeOK
<1>3. returned \subseteq Alerts /\ \A a \in returned : status[a] = Reviewed
  BY Parts DEF TypeOK, RunsInv
<1>4. runs' \in Seq(Run) /\ runs' # << >> /\ RunsInv' /\ ReviewedIsRefreshed'
  BY <1>1, <1>3, Parts, StartedRun
<1>5. Busy' /\ ReviewsInv'
  BY <1>1, Parts DEF Busy, ReviewsInv
<1>6. TypeOK'
  BY <1>1, <1>2, <1>4, Parts DEF TypeOK
<1> QED
  BY <1>4, <1>5, <1>6, Assembled

\* Answer, Lose and Arrive.
LEMMA NetworkStep ==
  ASSUME RefreshInv, NEW i \in DOMAIN runs, Answer(i) \/ Lose(i) \/ Arrive(i)
  PROVE  RefreshInv'
<1>1. UNCHANGED <<status, sawNull, open, busyId, reviews, returned, crossed>>
  BY DEF Answer, Lose, Arrive, panel, observers
<1>2. Busy' /\ ReviewsInv'
  BY <1>1, Parts DEF Busy, ReviewsInv
<1>3. CASE Answer(i) \/ Lose(i)
  <2>1. /\ \E x \in {status, Failed} : runs' = [runs EXCEPT ![i].answer = x]
        /\ UNCHANGED <<data, error, loading, outdated>>
    BY <1>3 DEF Answer, Lose, observers
  <2>2. /\ runs' \in Seq(Run) /\ DOMAIN runs' = DOMAIN runs /\ RunsInv'
        /\ ReviewedIsRefreshed'
    BY <1>1, <2>1, Parts, AnsweredRun
  <2>3. runs' # << >>
    BY <2>2
  <2>4. TypeOK'
    BY <1>1, <2>1, <2>2, Parts DEF TypeOK
  <2> QED
    BY <1>2, <2>2, <2>3, <2>4, Assembled
<1>4. CASE Arrive(i)
  <2>1. loading' = FALSE
    BY <1>4 DEF Arrive
  <2>2. /\ runs' \in Seq(Run) /\ data' \in Lists \union {Null}
        /\ error' \in BOOLEAN /\ outdated' \in BOOLEAN
        /\ RunsInv' /\ ReviewedIsRefreshed'
    BY <1>4, Parts, ArriveStep
  <2>3. TypeOK'
    BY <1>1, <2>1, <2>2, Parts DEF TypeOK
  <2> QED
    BY <1>2, <2>1, <2>2, <2>3, Assembled
<1> QED
  BY <1>3, <1>4

\* What leaves the hook and the peer alone.
LEMMA PanelStep ==
  ASSUME RefreshInv, UNCHANGED <<hook, returned, outdated>>,
         status' \in Lists, \A a \in Alerts : status[a] <= status'[a],
         reviews' \in Seq(Review), busyId' \in Alerts \union {Nobody},
         crossed' \in BOOLEAN, open' \in BOOLEAN, Busy', ReviewsInv'
  PROVE  RefreshInv'
<1>1. UNCHANGED <<data, error, loading, sawNull, runs, returned, outdated>>
  BY DEF hook
<1>2. RunsInv' /\ ReviewedIsRefreshed'
  BY <1>1, Parts, PeerMovesOn
<1>3. TypeOK'
  BY <1>1, Parts DEF TypeOK
<1>4. (loading => runs # << >>)'
  BY <1>1, Parts
<1> QED
  BY <1>2, <1>3, <1>4, Assembled

\* A review is acknowledged and the list refreshed.
LEMMA ReviewReturnsStep ==
  ASSUME RefreshInv, NEW k \in DOMAIN reviews, ReviewReturns(k)
  PROVE  RefreshInv'
<1>1. /\ UNCHANGED <<status, data, error, sawNull, open, outdated, crossed>>
      /\ runs' = Append(runs, NewRun(returned')) /\ Finish(k)
      /\ returned' = returned \union {reviews[k].alert}
      /\ reviews[k].served
  BY DEF ReviewReturns, StartRun
<1>2. /\ reviews' \in Seq(Review) /\ busyId' \in Alerts \union {Nobody}
      /\ Busy' /\ ReviewsInv'
  BY <1>1, Parts, FinishStep
<1>3. reviews[k].alert \in Alerts /\ status[reviews[k].alert] = Reviewed
  <2>1. reviews[k] \in Review
    BY Parts, StateFacts
  <2> QED
    BY <1>1, <2>1, Parts DEF Review, ReviewsInv
<1>4. /\ returned \subseteq returned' /\ returned' \subseteq Alerts
      /\ \A a \in returned' : status[a] = Reviewed
  BY <1>1, <1>3, Parts DEF TypeOK, RunsInv
<1>5. runs' \in Seq(Run) /\ runs' # << >> /\ RunsInv' /\ ReviewedIsRefreshed'
  BY <1>1, <1>4, Parts, StartedRun
<1>6. loading' \in BOOLEAN
  BY Parts DEF ReviewReturns, StartRun, TypeOK
<1>7. TypeOK'
  BY <1>1, <1>2, <1>4, <1>5, <1>6, Parts DEF TypeOK
<1> QED
  BY <1>2, <1>5, <1>7, Assembled

LEMMA EveryStep == RefreshInv /\ [Next]_vars => RefreshInv'
<1> SUFFICES ASSUME RefreshInv, [Next]_vars PROVE RefreshInv'
  OBVIOUS
<1>1. \A a \in Alerts : status[a] <= status[a]
  BY Parts, StateFacts
<1>2. ASSUME NEW a \in Alerts, Click(a) PROVE RefreshInv'
  <2>1. UNCHANGED <<hook, returned, outdated, status, open>>
    BY <1>2 DEF Click
  <2> QED
    BY <1>1, <1>2, <2>1, Parts, ClickStep, PanelStep DEF TypeOK
<1>3. ASSUME NEW a \in Alerts, Raise(a) PROVE RefreshInv'
  <2>1. /\ UNCHANGED <<hook, returned, outdated, open, busyId, reviews, crossed>>
        /\ status' = [status EXCEPT ![a] = 1] /\ status[a] = 0
    BY <1>3 DEF Raise, panel, observers, Pending, Absent
  <2>2. status \in Lists /\ \A b \in Alerts : status[b] \in {0, 1, 2}
    BY Parts, StateFacts
  <2>3. /\ status' \in Lists
        /\ \A b \in Alerts : status[b] <= status'[b] /\ (status[b] = 2 => status'[b] = 2)
    BY <2>1, <2>2 DEF Lists, Absent, Pending, Reviewed
  <2>4. \A k \in DOMAIN reviews : reviews[k].alert \in Alerts
    BY Parts, StateFacts DEF Review
  <2>5. Busy' /\ ReviewsInv'
    BY <2>1, <2>3, <2>4, Parts DEF Busy, ReviewsInv, Reviewed
  <2> QED
    BY <2>1, <2>3, <2>5, Parts, PanelStep DEF TypeOK
<1>4. ASSUME NEW k \in DOMAIN reviews, Serve(k) PROVE RefreshInv'
  <2>1. UNCHANGED <<hook, returned, outdated, open, busyId, crossed>>
    BY <1>4 DEF Serve, observers
  <2> QED
    BY <1>4, <2>1, Parts, ServeStep, PanelStep DEF TypeOK
<1>5. ASSUME NEW k \in DOMAIN reviews, ReviewFails(k) PROVE RefreshInv'
  <2>1. UNCHANGED <<hook, returned, outdated, open, crossed, status>> /\ Finish(k)
    BY <1>5 DEF ReviewFails, observers
  <2> QED
    BY <1>1, <2>1, Parts, FinishStep, PanelStep DEF TypeOK
<1>6. CASE SwitchTab
  <2>1. UNCHANGED <<hook, returned, outdated, status>>
    BY <1>6 DEF SwitchTab
  <2> QED
    BY <1>1, <1>6, <2>1, Parts, SwitchTabStep, PanelStep DEF TypeOK
<1>7. CASE UNCHANGED vars
  <2>1. UNCHANGED <<hook, returned, outdated, status, open, busyId, reviews, crossed>>
    BY <1>7 DEF vars, panel, observers
  <2>2. Busy' /\ ReviewsInv'
    BY <2>1, Parts DEF Busy, ReviewsInv
  <2> QED
    BY <1>1, <2>1, <2>2, Parts, PanelStep DEF TypeOK
<1> QED
  BY <1>2, <1>3, <1>4, <1>5, <1>6, <1>7, StartStep, NetworkStep, ReviewReturnsStep
     DEF Next, Network

\* The disabled buttons wait for a review that is under way and the spinner for a
\* fetch, two verdicts on an alert are under way only when reviews crossed, and no
\* answer is ahead of the peer or, unless passed, behind the list: for any alerts and
\* any number of fetches and reviews under way in usePolling and AlertsPanel.
THEOREM DashboardInvariant == Spec => []DashboardInv
<1>1. RefreshInv => DashboardInv
  BY DEF RefreshInv
<1> QED
  BY <1>1, Initially, EveryStep, PTL DEF Spec

\* After onReviewed has refreshed the list, the list shows the review, a fetch that
\* started later is under way, or an error or a passed answer explains why not.
THEOREM ReviewsAreRefreshed == Spec => []ReviewedIsRefreshed
<1>1. RefreshInv => ReviewedIsRefreshed
  BY DEF RefreshInv
<1> QED
  BY <1>1, Initially, EveryStep, PTL DEF Spec

\* setData takes the list back to an earlier state of the peer only with an answer
\* that another run has passed while it awaited.
THEOREM ListGoesForward == Spec => NeverBackUnlessPassed
<1>1. RefreshInv /\ [Next]_vars =>
        [(data # Null /\ (data' = Null \/ \E a \in Alerts : data'[a] < data[a])) => outdated']_vars
  <2> SUFFICES ASSUME RefreshInv, [Next]_vars, data # Null, ~outdated',
                      data' = Null \/ \E a \in Alerts : data'[a] < data[a]
               PROVE  FALSE
    OBVIOUS
  <2>1. \A a \in Alerts : data[a] \in {0, 1, 2}
    BY Parts, StateFacts
  <2>2. data' # data
    BY <2>1
  <2>3. PICK i \in DOMAIN runs : Arrive(i)
    BY <2>2 DEF Next, Network, Tick, RefreshAll, ChangeInterval, Answer, Lose, SwitchTab, Click,
         Raise, Serve, ReviewReturns, ReviewFails, hook, vars
  <2>4. data' = runs[i].answer /\ ~runs[i].passed /\ runs[i].answer \notin {Awaiting, Failed}
    BY <2>2, <2>3 DEF Arrive
  <2>5. runs[i] \in Run /\ InTime(runs[i])
    BY Parts, StateFacts DEF RunsInv
  <2>6. data' \in Lists /\ data' # Null
    BY <2>4, <2>5, ValuesAssumption DEF Run
  <2>7. \A a \in Alerts : data[a] <= data'[a] /\ data'[a] \in {0, 1, 2}
    BY <2>4, <2>5, <2>6 DEF InTime, Lists, Absent, Pending, Reviewed
  <2> QED
    BY <2>1, <2>6, <2>7
<1> QED
  BY <1>1, Initially, EveryStep, PTL DEF Spec, NeverBackUnlessPassed
=============================================================================
