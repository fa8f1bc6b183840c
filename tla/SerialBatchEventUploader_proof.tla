------------------- MODULE SerialBatchEventUploader_proof -------------------
(***************************************************************************)
(* Theorems about SerialBatchEventUploader, for every number of callers,   *)
(* every batch and queue size, and any failures.                           *)
(***************************************************************************)
EXTENDS SerialBatchEventUploader, TLAPS

\* The events of two sequences put together.
LEMMA ConcatItems ==
  ASSUME NEW s \in Seq(Nat), NEW t \in Seq(Nat)
  PROVE  /\ s \o t \in Seq(Nat)
         /\ Items(s \o t) = Items(s) \cup Items(t)
<1>1. s \o t \in Seq(Nat) /\ Len(s \o t) = Len(s) + Len(t)
  OBVIOUS
<1>2. ASSUME NEW x \in Items(s \o t) PROVE x \in Items(s) \cup Items(t)
  <2>1. PICK i \in 1 .. Len(s \o t) : x = (s \o t)[i]
    BY DEF Items
  <2>2. CASE i <= Len(s)
    <3>1. i \in 1 .. Len(s) /\ x = s[i]
      BY <2>1, <2>2, <1>1
    <3>2. QED
      BY <3>1 DEF Items
  <2>3. CASE i > Len(s)
    <3>1. i - Len(s) \in 1 .. Len(t) /\ x = t[i - Len(s)]
      BY <2>1, <2>3, <1>1
    <3>2. QED
      BY <3>1 DEF Items
  <2>4. QED
    BY <2>1, <2>2, <2>3, <1>1
<1>3. ASSUME NEW x \in Items(s) PROVE x \in Items(s \o t)
  <2>1. PICK i \in 1 .. Len(s) : x = s[i]
    BY DEF Items
  <2>2. i \in 1 .. Len(s \o t) /\ (s \o t)[i] = x
    BY <2>1, <1>1
  <2>3. QED
    BY <2>2 DEF Items
<1>4. ASSUME NEW x \in Items(t) PROVE x \in Items(s \o t)
  <2>1. PICK i \in 1 .. Len(t) : x = t[i]
    BY DEF Items
  <2>2. Len(s) + i \in 1 .. Len(s \o t) /\ (s \o t)[Len(s) + i] = x
    BY <2>1, <1>1
  <2>3. QED
    BY <2>2 DEF Items
<1>5. QED
  BY <1>1, <1>2, <1>3, <1>4

\* Two sequences put together are in order when each is and the first one's
\* events precede the second one's.
LEMMA ConcatOrdered ==
  ASSUME NEW s \in Seq(Nat), NEW t \in Seq(Nat),
         Ordered(s), Ordered(t),
         \A x \in Items(s), y \in Items(t) : x < y
  PROVE  Ordered(s \o t)
<1> SUFFICES ASSUME NEW i \in 1 .. Len(s \o t), NEW j \in 1 .. Len(s \o t), i < j
             PROVE  (s \o t)[i] < (s \o t)[j]
  BY DEF Ordered
<1>1. Len(s \o t) = Len(s) + Len(t)
  OBVIOUS
<1>2. CASE j <= Len(s)
  BY <1>1, <1>2 DEF Ordered
<1>3. CASE i > Len(s)
  <2>1. /\ i - Len(s) \in 1 .. Len(t) /\ j - Len(s) \in 1 .. Len(t)
        /\ i - Len(s) < j - Len(s)
    BY <1>1, <1>3
  <2>2. t[i - Len(s)] < t[j - Len(s)]
    BY <2>1 DEF Ordered
  <2>3. QED
    BY <2>2, <1>1, <1>3
<1>4. CASE i <= Len(s) /\ j > Len(s)
  <2>1. i \in 1 .. Len(s) /\ j - Len(s) \in 1 .. Len(t)
    BY <1>1, <1>4
  <2>2. s[i] \in Items(s) /\ t[j - Len(s)] \in Items(t)
    BY <2>1 DEF Items
  <2>3. QED
    BY <2>2, <1>1, <1>4
<1>5. QED
  BY <1>1, <1>2, <1>3, <1>4

\* The converse.
LEMMA OrderedSplit ==
  ASSUME NEW s \in Seq(Nat), NEW t \in Seq(Nat), Ordered(s \o t)
  PROVE  /\ Ordered(s) /\ Ordered(t)
         /\ \A x \in Items(s), y \in Items(t) : x < y
<1>1. Len(s \o t) = Len(s) + Len(t)
  OBVIOUS
<1>2. Ordered(s)
  BY <1>1 DEF Ordered
<1>3. Ordered(t)
  <2> SUFFICES ASSUME NEW i \in 1 .. Len(t), NEW j \in 1 .. Len(t), i < j
               PROVE  t[i] < t[j]
    BY DEF Ordered
  <2>1. /\ Len(s) + i \in 1 .. Len(s \o t) /\ Len(s) + j \in 1 .. Len(s \o t)
        /\ Len(s) + i < Len(s) + j
    BY <1>1
  <2>2. (s \o t)[Len(s) + i] < (s \o t)[Len(s) + j]
    BY <2>1 DEF Ordered
  <2>3. QED
    BY <2>2
<1>4. ASSUME NEW x \in Items(s), NEW y \in Items(t) PROVE x < y
  <2>1. PICK i \in 1 .. Len(s), j \in 1 .. Len(t) : x = s[i] /\ y = t[j]
    BY DEF Items
  <2>2. /\ i \in 1 .. Len(s \o t) /\ Len(s) + j \in 1 .. Len(s \o t)
        /\ i < Len(s) + j
    BY <1>1
  <2>3. (s \o t)[i] < (s \o t)[Len(s) + j]
    BY <2>2 DEF Ordered
  <2>4. QED
    BY <2>1, <2>3
<1>5. QED
  BY <1>2, <1>3, <1>4

\* What the drain loop leaves of an ordered buffer p: a batch of at most
\* MaxBatchSize and a rest that follows it, the unfit events before the rest
\* being discarded; flush waiters are resolved only on an empty buffer.
LEMMA LoopFacts ==
  ASSUME NEW p \in Seq(Nat), Ordered(p), NEW unfit,
         LoopFrom(p, unfit)
  PROVE  /\ pending' \in Seq(Nat) /\ inflight' \in Seq(Nat)
         /\ Ordered(inflight' \o pending')
         /\ Len(inflight') <= MaxBatchSize
         /\ Len(inflight') + Len(pending') <= Len(p)
         /\ drain' \in {"idle", "sending"}
         /\ drain' # "sending" => inflight' = <<>>
         /\ drain' = "idle" /\ ~closed => pending' = <<>>
         /\ \/ flusher' = flusher
            \/ flusher' = Flushed /\ pending' = <<>> /\ inflight' = <<>>
         /\ \E g \in SUBSET Nat :
              /\ discarded' = discarded \cup g
              /\ Items(p) = Items(inflight') \cup Items(pending') \cup g
              /\ g \cap (Items(inflight') \cup Items(pending')) = {}
<1> USE UploaderConstants
<1>1. CASE p # <<>> /\ ~closed
  <2> DEFINE Taken(n, k, at) ==
            /\ k <= MaxBatchSize
            /\ TakesBatch(p, unfit, n, k, at)
            /\ inflight' = [j \in 1 .. k |-> p[at[j]]]
            /\ pending' = Rest(p, n)
            /\ discarded' = discarded \cup {p[m] : m \in {l \in 1 .. n : p[l] \in unfit}}
            /\ drain' = IF k > 0 THEN "sending" ELSE "idle"
            /\ flusher' = IF k > 0 THEN flusher ELSE Flushed
  <2>0. PICK n \in 1 .. Len(p) :
           \E k \in 0 .. n : \E at \in [1 .. k -> 1 .. n] : Taken(n, k, at)
    BY <1>1 DEF LoopFrom
  <2>1. PICK k \in 0 .. n : \E at \in [1 .. k -> 1 .. n] : Taken(n, k, at)
    BY <2>0
  <2>2. PICK at \in [1 .. k -> 1 .. n] : Taken(n, k, at)
    BY <2>1
  <2> DEFINE gone == {p[m] : m \in {l \in 1 .. n : p[l] \in unfit}}
  <2>3. /\ pending' \in Seq(Nat) /\ Len(pending') = Len(p) - n
        /\ \A i \in 1 .. Len(pending') : n + i \in 1 .. Len(p) /\ pending'[i] = p[n + i]
    <3>1. pending' = SubSeq(p, n + 1, Len(p))
      BY <2>2 DEF Rest
    <3>2. pending' \in Seq(Nat)
      BY <3>1
    <3>3. Len(pending') = Len(p) - n
      BY <3>1
    <3>4. ASSUME NEW i \in 1 .. Len(pending')
          PROVE  n + i \in 1 .. Len(p) /\ pending'[i] = p[n + i]
      <4>1. n + i \in 1 .. Len(p)
        BY <3>3
      <4>2. pending'[i] = p[(n + 1) + i - 1]
        BY <3>1, <3>3
      <4>3. QED
        BY <4>1, <4>2
    <3>5. QED
      BY <3>2, <3>3, <3>4
  <2>4. /\ inflight' \in Seq(Nat) /\ Len(inflight') = k
        /\ \A j \in 1 .. k : at[j] \in 1 .. Len(p) /\ inflight'[j] = p[at[j]]
    BY <2>2
  <2>5. Ordered(inflight')
    BY <2>2, <2>4 DEF Ordered, TakesBatch
  <2>6. Ordered(pending')
    <3> SUFFICES ASSUME NEW i \in 1 .. Len(pending'), NEW j \in 1 .. Len(pending'),
                        i < j
                 PROVE  pending'[i] < pending'[j]
      BY DEF Ordered
    <3>1. n + i \in 1 .. Len(p) /\ n + j \in 1 .. Len(p) /\ n + i < n + j
      BY <2>3
    <3>2. p[n + i] < p[n + j]
      BY <3>1 DEF Ordered
    <3>3. QED
      BY <2>3, <3>2
  <2>7. \A x \in Items(inflight') \cup gone, y \in Items(pending') : x < y
    <3> SUFFICES ASSUME NEW x \in Items(inflight') \cup gone, NEW y \in Items(pending')
                 PROVE  x < y
      OBVIOUS
    <3>1. \E a \in 1 .. n : x = p[a]
      <4>1. CASE x \in gone
        BY <4>1
      <4>2. CASE x \in Items(inflight')
        <5>1. PICK j \in 1 .. k : x = inflight'[j]
          BY <4>2, <2>4 DEF Items
        <5>2. at[j] \in 1 .. n /\ inflight'[j] = p[at[j]]
          BY <2>4
        <5>3. QED
          BY <5>1, <5>2
      <4>3. QED
        BY <4>1, <4>2
    <3> PICK a \in 1 .. n : x = p[a]
      BY <3>1
    <3>2. PICK i \in 1 .. Len(pending') : y = p[n + i] /\ n + i \in 1 .. Len(p)
      BY <2>3 DEF Items
    <3>3. a \in 1 .. Len(p) /\ a < n + i
      OBVIOUS
    <3>4. p[a] < p[n + i]
      BY <3>2, <3>3 DEF Ordered
    <3>5. QED
      BY <3>2, <3>4
  <2>8. Ordered(inflight' \o pending')
    BY <2>3, <2>4, <2>5, <2>6, <2>7, ConcatOrdered
  <2>9. /\ drain' \in {"idle", "sending"}
        /\ k = 0 => inflight' = <<>>
        /\ k = 0 => n = Len(p)
    <3>1. k = 0 => inflight' = <<>>
      BY <2>2
    <3>2. k = 0 => n = Len(p)
      BY <2>2 DEF TakesBatch
    <3>3. QED
      BY <2>2, <3>1, <3>2
  <2>10. k = 0 => pending' = <<>>
    BY <2>3, <2>9
  <2>11. gone \in SUBSET Nat
    OBVIOUS
  <2>12. Items(p) = Items(inflight') \cup Items(pending') \cup gone
    <3>1. ASSUME NEW m \in 1 .. Len(p)
          PROVE  p[m] \in Items(inflight') \cup Items(pending') \cup gone
      <4>1. CASE m > n
        <5>1. m - n \in 1 .. Len(pending') /\ n + (m - n) = m
          BY <4>1, <2>3
        <5>2. pending'[m - n] = p[m]
          BY <5>1, <2>3
        <5>3. QED
          BY <5>1, <5>2 DEF Items
      <4>2. CASE m <= n /\ p[m] \in unfit
        BY <4>2
      <4>3. CASE m <= n /\ p[m] \notin unfit
        <5>1. PICK j \in 1 .. k : at[j] = m
          BY <2>2, <4>3 DEF TakesBatch
        <5>2. inflight'[j] = p[m] /\ j \in 1 .. Len(inflight')
          BY <5>1, <2>4
        <5>3. QED
          BY <5>2 DEF Items
      <4>4. QED
        BY <4>1, <4>2, <4>3
    <3>2. Items(inflight') \subseteq Items(p)
      <4> SUFFICES ASSUME NEW x \in Items(inflight') PROVE x \in Items(p)
        OBVIOUS
      <4>1. PICK j \in 1 .. k : x = p[at[j]] /\ at[j] \in 1 .. Len(p)
        BY <2>4 DEF Items
      <4>2. QED
        BY <4>1 DEF Items
    <3>3. Items(pending') \subseteq Items(p)
      BY <2>3 DEF Items
    <3>4. gone \subseteq Items(p)
      BY DEF Items
    <3>5. QED
      BY <3>1, <3>2, <3>3, <3>4 DEF Items
  <2>13. gone \cap Items(inflight') = {}
    <3> SUFFICES ASSUME NEW x \in Items(inflight') PROVE x \notin unfit
      OBVIOUS
    <3>1. PICK j \in 1 .. k : x = p[at[j]]
      BY <2>4 DEF Items
    <3>2. at[j] \in 1 .. n
      OBVIOUS
    <3>3. QED
      BY <3>1, <3>2, <2>2 DEF TakesBatch
  <2>14. gone \cap Items(pending') = {}
    <3> SUFFICES ASSUME NEW x \in gone, x \in Items(pending') PROVE FALSE
      OBVIOUS
    <3>1. x < x /\ x \in Nat
      BY <2>7, <2>11
    <3>2. QED
      BY <3>1
  <2>15. Len(inflight') <= MaxBatchSize /\ Len(inflight') + Len(pending') <= Len(p)
    BY <2>2, <2>3, <2>4
  <2>16. /\ drain' # "sending" => inflight' = <<>>
         /\ drain' = "idle" => pending' = <<>>
         /\ \/ flusher' = flusher
            \/ flusher' = Flushed /\ pending' = <<>> /\ inflight' = <<>>
    BY <2>2, <2>9, <2>10
  <2>17. discarded' = discarded \cup gone
    BY <2>2
  <2> HIDE DEF gone
  <2>18. /\ discarded' = discarded \cup gone
         /\ Items(p) = Items(inflight') \cup Items(pending') \cup gone
         /\ gone \cap (Items(inflight') \cup Items(pending')) = {}
    BY <2>12, <2>13, <2>14, <2>17
  <2>19. QED
    BY <2>3, <2>4, <2>8, <2>9, <2>11, <2>15, <2>16, <2>18
<1>2. CASE ~(p # <<>> /\ ~closed)
  <2>1. /\ inflight' = <<>> /\ pending' = p /\ drain' = "idle"
        /\ flusher' = IF p = <<>> THEN Flushed ELSE flusher
        /\ discarded' = discarded
    BY <1>2 DEF LoopFrom
  <2>2. inflight' \o pending' = p /\ Items(inflight') = {}
    BY <2>1 DEF Items
  <2>3. \E g \in SUBSET Nat :
           /\ discarded' = discarded \cup g
           /\ Items(p) = Items(inflight') \cup Items(pending') \cup g
           /\ g \cap (Items(inflight') \cup Items(pending')) = {}
    <3>1. /\ discarded' = discarded \cup {}
          /\ Items(p) = Items(inflight') \cup Items(pending') \cup {}
          /\ {} \cap (Items(inflight') \cup Items(pending')) = {}
      BY <2>1, <2>2
    <3>2. QED
      BY <3>1
  <2>4. /\ pending' \in Seq(Nat) /\ inflight' \in Seq(Nat)
        /\ Len(inflight') <= MaxBatchSize
        /\ Len(inflight') + Len(pending') <= Len(p)
    BY <2>1
  <2>5. /\ drain' = "idle" /\ ~closed => pending' = <<>>
        /\ \/ flusher' = flusher
           \/ flusher' = Flushed /\ pending' = <<>> /\ inflight' = <<>>
    BY <1>2, <2>1
  <2>6. QED
    BY <2>1, <2>2, <2>3, <2>4, <2>5
<1>3. QED
  BY <1>1, <1>2

-----------------------------------------------------------------------------
\* The events the uploader still holds.
Held == Items(inflight) \cup Items(pending)

\* The inductive invariant.  What close() cleared comes after everything that
\* was in flight then, which is why a batch put back after close() is no gap.
Inv ==
    /\ TypeOK
    /\ BufferInOrder
    /\ NothingLost
    /\ NothingTwice
    /\ IdleMeansEmpty
    /\ ReceivedInOrder
    /\ FlushMeansSent
    /\ drain # "sending" => inflight = <<>>
    /\ acked \subseteq received
    /\ ~closed => cleared = {}
    /\ \A x \in Held, y \in cleared : x < y
    /\ \A f \in Flushers : mark[f] <= accepted

\* Putting the next Size events at the back of an ordered buffer.
LEMMA AppendNew ==
  ASSUME NEW s \in Seq(Nat), NEW a \in Nat, NEW n \in Nat,
         Ordered(s), \A x \in Items(s) : x <= a
  PROVE  /\ s \o EventsAfter(a, n) \in Seq(Nat)
         /\ Ordered(s \o EventsAfter(a, n))
         /\ Items(s \o EventsAfter(a, n)) = Items(s) \cup (a + 1 .. a + n)
         /\ Len(s \o EventsAfter(a, n)) = Len(s) + n
<1> DEFINE new == EventsAfter(a, n)
<1>1. new \in Seq(Nat) /\ Len(new) = n /\ \A i \in 1 .. n : new[i] = a + i
  BY DEF EventsAfter
<1>2. Items(new) = a + 1 .. a + n
  <2>1. ASSUME NEW x \in a + 1 .. a + n PROVE x \in Items(new)
    <3>1. x - a \in 1 .. n /\ a + (x - a) = x
      OBVIOUS
    <3>2. QED
      BY <3>1, <1>1 DEF Items
  <2>2. ASSUME NEW x \in Items(new) PROVE x \in a + 1 .. a + n
    <3>1. PICK i \in 1 .. n : x = a + i
      BY <1>1 DEF Items
    <3>2. QED
      BY <3>1
  <2>3. QED
    BY <2>1, <2>2
<1>3. Ordered(new)
  BY <1>1 DEF Ordered
<1> HIDE DEF new
<1>4. \A x \in Items(s), y \in Items(new) : x < y
  <2> SUFFICES ASSUME NEW x \in Items(s), NEW y \in Items(new) PROVE x < y
    OBVIOUS
  <2>1. x \in Nat /\ x <= a
    BY DEF Items
  <2>2. QED
    BY <2>1, <1>2
<1>5. Ordered(s \o new)
  BY <1>1, <1>3, <1>4, ConcatOrdered
<1>6. /\ s \o new \in Seq(Nat) /\ Items(s \o new) = Items(s) \cup Items(new)
      /\ Len(s \o new) = Len(s) + n
  BY <1>1, ConcatItems
<1>7. QED
  BY <1>1, <1>2, <1>5, <1>6 DEF new

\* What the invariant says of the two sequences as sets.
LEMMA HeldFacts ==
  ASSUME Inv
  PROVE  /\ Ordered(inflight) /\ Ordered(pending)
         /\ \A x \in Items(inflight), y \in Items(pending) : x < y
         /\ Items(inflight) \subseteq Nat /\ Items(pending) \subseteq Nat
         /\ Held \subseteq 1 .. accepted
<1>1. inflight \in Seq(Nat) /\ pending \in Seq(Nat)
  BY DEF Inv, TypeOK
<1>2. QED
  BY <1>1, OrderedSplit DEF Inv, BufferInOrder, NothingLost, Held, Items

\* A batch that reaches the server leaves no gap: every event before one of
\* its events has been received, is in the batch, or was given up.
LEMMA BatchLeavesNoGap ==
  ASSUME Inv, NEW x \in Items(inflight), NEW y \in 1 .. x - 1
  PROVE  y \in received \cup Items(inflight) \cup dropped \cup discarded
<1>1. x \in 1 .. accepted /\ accepted \in Nat
  BY HeldFacts DEF Held, Inv, TypeOK
<1>2. y \in 1 .. accepted
  BY <1>1
<1>3. y \notin Items(pending)
  <2> SUFFICES ASSUME y \in Items(pending) PROVE FALSE
    OBVIOUS
  <2>1. x < y
    BY HeldFacts
  <2>2. QED
    BY <2>1, <1>1
<1>4. y \notin cleared
  <2> SUFFICES ASSUME y \in cleared PROVE FALSE
    OBVIOUS
  <2>1. x < y
    BY DEF Inv, Held
  <2>2. QED
    BY <2>1, <1>1
<1>5. QED
  BY <1>2, <1>3, <1>4 DEF Inv, NothingLost, Settled

\* The drain loop, as sets: of the events of p it holds all but some it
\* discards, and it ends only on an empty buffer or a closed uploader.
LEMMA LoopSets ==
  ASSUME NEW p \in Seq(Nat), Ordered(p), NEW unfit, LoopFrom(p, unfit),
         UNCHANGED closed
  PROVE  /\ pending' \in Seq(Nat) /\ inflight' \in Seq(Nat)
         /\ BufferInOrder'
         /\ drain' \in {"idle", "sending", "sleeping"}
         /\ (drain # "sending" => inflight = <<>>)'
         /\ IdleMeansEmpty'
         /\ flusher' = flusher \/ (flusher' = Flushed /\ Held' = {})
         /\ \E g : /\ discarded' = discarded \cup g
                  /\ Items(p) = Held' \cup g
                  /\ g \cap Held' = {}
<1>1. Items(<<>>) = {}
  BY DEF Items
<1>2. QED
  BY <1>1, LoopFacts DEF BufferInOrder, IdleMeansEmpty, Held

\* A step that runs the drain loop on p keeps the invariant when everything
\* but p's events is accounted for and the server has a gapless set.
LEMMA LoopStep ==
  ASSUME Inv, NEW p \in Seq(Nat), Ordered(p), NEW unfit, LoopFrom(p, unfit),
         UNCHANGED <<closed, cleared, mark>>,
         accepted' \in Nat, accepted <= accepted',
         acked \subseteq acked', dropped \subseteq dropped',
         acked' \subseteq received', received' \subseteq 1 .. accepted',
         bad' \subseteq 1 .. accepted',
         failures' \in Nat,
         caller' \in [Callers -> {"new", "blocked", "woken", "done"}],
         1 .. accepted' = Items(p) \cup (acked' \cup dropped' \cup discarded \cup cleared),
         Items(p) \cap (acked' \cup dropped' \cup discarded \cup cleared) = {},
         \A x \in Items(p), y \in cleared : x < y,
         \A x \in received' : \A y \in 1 .. x - 1 :
             y \in received' \cup dropped' \cup discarded
  PROVE  Inv'
<1>1. /\ pending' \in Seq(Nat) /\ inflight' \in Seq(Nat)
      /\ BufferInOrder'
      /\ drain' \in {"idle", "sending", "sleeping"}
      /\ (drain # "sending" => inflight = <<>>)'
      /\ IdleMeansEmpty'
      /\ flusher' = flusher \/ (flusher' = Flushed /\ Held' = {})
      /\ \E g : /\ discarded' = discarded \cup g
               /\ Items(p) = Held' \cup g
               /\ g \cap Held' = {}
  BY LoopSets
<1>2. PICK g : /\ discarded' = discarded \cup g
               /\ Items(p) = Held' \cup g
               /\ g \cap Held' = {}
  BY <1>1
<1>3. Settled' = (acked' \cup dropped' \cup discarded \cup cleared) \cup g
  BY <1>2 DEF Settled
<1>4. NothingLost'
  BY <1>2, <1>3 DEF NothingLost, Held
<1>5. NothingTwice'
  <2>1. Held' \cap Settled' = {}
    BY <1>2, <1>3
  <2>2. \A x \in Items(inflight'), y \in Items(pending') : x < y
    BY <1>1, OrderedSplit DEF BufferInOrder
  <2>3. Items(inflight') \subseteq Nat
    BY <1>1 DEF Items
  <2>4. Items(pending)' \cap Items(inflight)' = {}
    <3> SUFFICES ASSUME NEW x \in Items(pending'), x \in Items(inflight') PROVE FALSE
      OBVIOUS
    <3>1. x < x /\ x \in Nat
      BY <2>2, <2>3
    <3>2. QED
      BY <3>1
  <2>5. QED
    BY <2>1, <2>4 DEF NothingTwice, Held
<1>6. TypeOK'
  <2>1. flusher' \in [Flushers -> {"new", "waiting", "done"}]
    BY <1>1 DEF Inv, TypeOK, Flushed
  <2>2. closed' \in BOOLEAN /\ mark' \in [Flushers -> Nat]
    BY DEF Inv, TypeOK
  <2>3. /\ acked' \subseteq 1 .. accepted' /\ dropped' \subseteq 1 .. accepted'
        /\ discarded' \subseteq 1 .. accepted' /\ cleared' \subseteq 1 .. accepted'
    BY <1>2
  <2>4. QED
    BY <1>1, <2>1, <2>2, <2>3 DEF TypeOK
<1>7. ReceivedInOrder'
  BY <1>2 DEF ReceivedInOrder
<1>8. \A x \in Held', y \in cleared' : x < y
  BY <1>2
<1>9. \A f \in Flushers : mark'[f] <= accepted'
  BY DEF Inv, TypeOK
<1>10. FlushMeansSent'
  <2> SUFFICES ASSUME NEW f \in Flushers, flusher'[f] = "done", ~closed'
               PROVE  1 .. mark'[f] \subseteq Settled'
    BY DEF FlushMeansSent
  <2>1. CASE flusher'[f] = flusher[f]
    <3>1. 1 .. mark[f] \subseteq Settled
      BY <2>1 DEF Inv, FlushMeansSent
    <3>2. Settled \subseteq Settled'
      BY <1>2 DEF Settled
    <3>3. QED
      BY <3>1, <3>2
  <2>2. CASE Held' = {}
    <3>1. 1 .. accepted' \subseteq Settled'
      BY <1>4, <2>2 DEF NothingLost, Held
    <3>2. mark'[f] \in Nat /\ mark'[f] <= accepted'
      BY <1>9, <1>6 DEF TypeOK
    <3>3. QED
      BY <3>1, <3>2
  <2>3. QED
    BY <1>1, <2>1, <2>2
<1>11. acked' \subseteq received' /\ (~closed' => cleared' = {})
  BY DEF Inv
<1>12. QED
  BY <1>1, <1>4, <1>5, <1>6, <1>7, <1>8, <1>9, <1>10, <1>11 DEF Inv

\* The invariant holds of a new uploader.
LEMMA InitInv == Init => Inv
<1> SUFFICES ASSUME Init PROVE Inv
  OBVIOUS
<1> USE DEF Init
<1>1. Items(<<>>) = {} /\ 1 .. 0 = {}
  BY DEF Items
<1>2. TypeOK
  <2>1. \A s \in {bad, received, acked, dropped, discarded, cleared} : s = {}
    OBVIOUS
  <2>2. <<>> \in Seq(Nat)
    OBVIOUS
  <2>3. caller \in [Callers -> {"new", "blocked", "woken", "done"}]
    OBVIOUS
  <2>4. flusher \in [Flushers -> {"new", "waiting", "done"}] /\ mark \in [Flushers -> Nat]
    OBVIOUS
  <2>5. QED
    BY <2>1, <2>2, <2>3, <2>4 DEF TypeOK
<1>3. BufferInOrder
  BY DEF BufferInOrder, Ordered
<1>4. NothingLost /\ NothingTwice /\ Held = {}
  BY <1>1 DEF NothingLost, NothingTwice, Settled, Held
<1>5. IdleMeansEmpty /\ ReceivedInOrder /\ FlushMeansSent
  BY DEF IdleMeansEmpty, ReceivedInOrder, FlushMeansSent
<1>6. QED
  BY <1>2, <1>3, <1>4, <1>5 DEF Inv

\* The sets and waiters of a resolved send: what the two loop steps share.
LEMMA WokenTyped ==
  ASSUME TypeOK
  PROVE  Woken \in [Callers -> {"new", "blocked", "woken", "done"}]
BY DEF TypeOK, Woken

\* A batch that is acknowledged leaves for good.
LEMMA SendOkKeepsInv ==
  ASSUME Inv, SendOk
  PROVE  Inv'
<1> USE DEF SendOk
<1>1. TypeOK /\ pending \in Seq(Nat) /\ accepted \in Nat
  BY DEF Inv, TypeOK
<1>2. Ordered(pending) /\ Held \subseteq 1 .. accepted
  BY HeldFacts
<1>3. LoopFrom(pending, bad)
  OBVIOUS
<1>4. UNCHANGED <<closed, cleared, mark, accepted, bad, dropped>>
  OBVIOUS
<1>5. acked' = acked \cup Items(inflight) /\ received' = received \cup Items(inflight)
  OBVIOUS
<1>6. acked \subseteq received /\ received \subseteq 1 .. accepted /\ bad \subseteq 1 .. accepted
  BY DEF Inv, TypeOK
<1>7. 1 .. accepted = Items(pending) \cup (acked' \cup dropped \cup discarded \cup cleared)
  BY <1>5 DEF Inv, NothingLost, Settled
<1>8. Items(pending) \cap (acked' \cup dropped \cup discarded \cup cleared) = {}
  BY <1>5 DEF Inv, NothingTwice, Settled
<1>9. \A x \in received' : \A y \in 1 .. x - 1 :
         y \in received' \cup dropped \cup discarded
  BY <1>5, BatchLeavesNoGap DEF Inv, ReceivedInOrder
<1>10. \A x \in Items(pending), y \in cleared : x < y
  BY DEF Inv, Held
<1>11. caller' \in [Callers -> {"new", "blocked", "woken", "done"}] /\ failures' \in Nat
  BY <1>1, WokenTyped
<1>12. acked' \subseteq received' /\ received' \subseteq 1 .. accepted
  BY <1>2, <1>5, <1>6 DEF Held
<1> HIDE DEF SendOk
<1>13. QED
  BY <1>1, <1>2, <1>3, <1>4, <1>5, <1>6, <1>7, <1>8, <1>9, <1>10, <1>11,
     <1>12, LoopStep

\* A batch that is given up leaves for good.
LEMMA SendFailsForGoodKeepsInv ==
  ASSUME Inv, NEW d \in BOOLEAN, SendFailsForGood(d)
  PROVE  Inv'
<1> USE DEF SendFailsForGood
<1>1. TypeOK /\ pending \in Seq(Nat) /\ accepted \in Nat
  BY DEF Inv, TypeOK
<1>2. Ordered(pending) /\ Held \subseteq 1 .. accepted
  BY HeldFacts
<1>3. LoopFrom(pending, bad)
  OBVIOUS
<1>4. UNCHANGED <<closed, cleared, mark, accepted, bad, acked>>
  OBVIOUS
<1>5. /\ dropped' = dropped \cup Items(inflight)
      /\ received' = received \/ received' = received \cup Items(inflight)
  OBVIOUS
<1>6. acked \subseteq received /\ received \subseteq 1 .. accepted /\ bad \subseteq 1 .. accepted
  BY DEF Inv, TypeOK
<1>7. 1 .. accepted = Items(pending) \cup (acked \cup dropped' \cup discarded \cup cleared)
  BY <1>5 DEF Inv, NothingLost, Settled
<1>8. Items(pending) \cap (acked \cup dropped' \cup discarded \cup cleared) = {}
  BY <1>5 DEF Inv, NothingTwice, Settled
<1>9. \A x \in received' : \A y \in 1 .. x - 1 :
         y \in received' \cup dropped' \cup discarded
  BY <1>5, BatchLeavesNoGap DEF Inv, ReceivedInOrder
<1>10. \A x \in Items(pending), y \in cleared : x < y
  BY DEF Inv, Held
<1>11. caller' \in [Callers -> {"new", "blocked", "woken", "done"}] /\ failures' \in Nat
  BY <1>1, WokenTyped
<1>12. acked \subseteq received' /\ received' \subseteq 1 .. accepted
  BY <1>2, <1>5, <1>6 DEF Held
<1> HIDE DEF SendFailsForGood
<1>13. QED
  BY <1>1, <1>2, <1>3, <1>4, <1>5, <1>6, <1>7, <1>8, <1>9, <1>10, <1>11,
     <1>12, LoopStep

\* The loop goes on after a backoff.
LEMMA SleepEndsKeepsInv ==
  ASSUME Inv, SleepEnds
  PROVE  Inv'
<1> USE DEF SleepEnds
<1>1. TypeOK /\ pending \in Seq(Nat) /\ accepted \in Nat
  BY DEF Inv, TypeOK
<1>2. Ordered(pending)
  BY HeldFacts
<1>3. LoopFrom(pending, bad)
  OBVIOUS
<1>4. UNCHANGED <<closed, cleared, mark, accepted, bad, acked, dropped, received,
                  failures, caller>>
  OBVIOUS
<1>5. Items(inflight) = {}
  BY DEF Inv, Items
<1>6. /\ acked \subseteq received /\ received \subseteq 1 .. accepted
      /\ bad \subseteq 1 .. accepted /\ failures \in Nat
      /\ caller \in [Callers -> {"new", "blocked", "woken", "done"}]
  BY DEF Inv, TypeOK
<1>7. 1 .. accepted = Items(pending) \cup (acked \cup dropped \cup discarded \cup cleared)
  BY <1>5 DEF Inv, NothingLost, Settled
<1>8. Items(pending) \cap (acked \cup dropped \cup discarded \cup cleared) = {}
  BY DEF Inv, NothingTwice, Settled
<1>9. \A x \in received : \A y \in 1 .. x - 1 :
         y \in received \cup dropped \cup discarded
  BY DEF Inv, ReceivedInOrder
<1>10. \A x \in Items(pending), y \in cleared : x < y
  BY DEF Inv, Held
<1> HIDE DEF SleepEnds
<1>11. QED
  BY <1>1, <1>2, <1>3, <1>4, <1>6, <1>7, <1>8, <1>9, <1>10, LoopStep

\* New events get the next numbers, behind everything buffered.
LEMMA EnqueueKeepsInv ==
  ASSUME Inv, NEW c \in Callers, EnqueueAccepts(c)
  PROVE  Inv'
<1> DEFINE n == Size[c]
           new == accepted + 1 .. accepted + n
           p == pending \o EventsAfter(accepted, n)
<1>1. PICK b \in SUBSET new :
         /\ bad' = bad \cup b
         /\ IF drain = "idle"
            THEN failures' = 0 /\ LoopFrom(p, bad \cup b)
            ELSE /\ pending' = p
                 /\ UNCHANGED <<inflight, drain, failures, flusher, discarded>>
  BY DEF EnqueueAccepts
<1>2. /\ ~closed /\ accepted' = accepted + n
      /\ caller' = [caller EXCEPT ![c] = "done"]
      /\ UNCHANGED <<closed, received, acked, dropped, cleared, mark>>
  BY DEF EnqueueAccepts
<1>3. n \in Nat /\ accepted \in Nat /\ pending \in Seq(Nat) /\ inflight \in Seq(Nat)
  BY UploaderConstants DEF Inv, TypeOK
<1>4. caller' \in [Callers -> {"new", "blocked", "woken", "done"}]
  BY <1>2 DEF Inv, TypeOK
<1>5. /\ p \in Seq(Nat) /\ Items(p) = Items(pending) \cup new
      /\ Ordered(p) /\ Ordered(inflight \o p)
      /\ Items(inflight \o p) = Items(inflight) \cup Items(p)
  <2>1. /\ Ordered(pending)
        /\ \A x \in Held : x <= accepted
    BY HeldFacts, <1>3
  <2>2. /\ p \in Seq(Nat) /\ Ordered(p) /\ Items(p) = Items(pending) \cup new
    <3>1. \A x \in Items(pending) : x <= accepted
      BY <2>1 DEF Held
    <3>2. /\ pending \o EventsAfter(accepted, n) \in Seq(Nat)
          /\ Ordered(pending \o EventsAfter(accepted, n))
          /\ Items(pending \o EventsAfter(accepted, n))
               = Items(pending) \cup (accepted + 1 .. accepted + n)
          /\ Len(pending \o EventsAfter(accepted, n)) = Len(pending) + n
      <4> HIDE DEF n
      <4>1. QED
        BY <3>1, <2>1, <1>3, AppendNew
    <3>3. QED
      BY <3>2
  <2>3. ASSUME NEW x \in Items(inflight), NEW y \in Items(p) PROVE x < y
    <3>1. x \in Nat /\ x <= accepted
      BY <2>1, HeldFacts DEF Held
    <3>2. CASE y \in new
      BY <3>1, <3>2, <1>3
    <3>3. CASE y \in Items(pending)
      BY <3>3, HeldFacts
    <3>4. QED
      BY <2>2, <3>2, <3>3
  <2>4. Ordered(inflight \o p)
    BY <2>2, <2>3, <1>3, HeldFacts, ConcatOrdered
  <2>5. QED
    BY <2>2, <2>4, <1>3, ConcatItems
<1>6. /\ 1 .. accepted' = (1 .. accepted) \cup new
      /\ (1 .. accepted) \cap new = {}
  BY <1>2, <1>3
<1>7. /\ cleared = {} /\ Held \subseteq 1 .. accepted
      /\ Settled \subseteq 1 .. accepted /\ bad' \subseteq 1 .. accepted'
      /\ received \subseteq 1 .. accepted
  BY <1>1, <1>2, <1>6, HeldFacts DEF Inv, TypeOK, Settled
<1>8. \A x \in received : \A y \in 1 .. x - 1 :
         y \in received \cup dropped \cup discarded
  BY DEF Inv, ReceivedInOrder
<1>9. acked \subseteq received
  BY DEF Inv
<1> HIDE DEF p, new, n
<1>10. CASE drain = "idle"
  <2>1. LoopFrom(p, bad \cup b) /\ failures' = 0
    BY <1>1, <1>10
  <2>2. Items(inflight) = {}
    BY <1>10 DEF Inv, Items
  <2>3. 1 .. accepted' = Items(p) \cup (acked \cup dropped \cup discarded \cup cleared)
    BY <1>5, <1>6, <2>2 DEF Inv, NothingLost, Settled
  <2>4. Items(p) \cap (acked \cup dropped \cup discarded \cup cleared) = {}
    BY <1>5, <1>6, <1>7 DEF Inv, NothingTwice, Settled
  <2>5. accepted' \in Nat /\ accepted <= accepted'
    BY <1>2, <1>3
  <2>6. QED
    BY <1>2, <1>4, <1>5, <1>6, <1>7, <1>8, <1>9, <2>1, <2>3, <2>4, <2>5, LoopStep
<1>11. CASE drain # "idle"
  <2>1. pending' = p /\ UNCHANGED <<inflight, drain, failures, flusher, discarded>>
    BY <1>1, <1>11
  <2>2. BufferInOrder'
    BY <1>5, <2>1 DEF BufferInOrder
  <2>3. Settled' = Settled /\ Held' = Held \cup new
    BY <1>2, <1>5, <2>1 DEF Settled, Held
  <2>4. NothingLost'
    BY <1>6, <2>3 DEF Inv, NothingLost, Held
  <2>5. NothingTwice'
    <3>1. Held' \cap Settled' = {}
      BY <1>6, <1>7, <2>3 DEF Inv, NothingTwice, Held
    <3>2. Items(pending)' \cap Items(inflight)' = {}
      BY <1>5, <1>6, <1>7, <2>1 DEF Inv, NothingTwice, Held
    <3>3. QED
      BY <3>1, <3>2 DEF NothingTwice, Held
  <2>6. TypeOK'
    BY <1>2, <1>3, <1>4, <1>5, <1>6, <1>7, <2>1 DEF Inv, TypeOK, Settled
  <2>7. IdleMeansEmpty' /\ ReceivedInOrder' /\ FlushMeansSent'
    BY <1>2, <1>11, <2>1, <2>3
    DEF Inv, IdleMeansEmpty, ReceivedInOrder, FlushMeansSent
  <2>8. \A f \in Flushers : mark'[f] <= accepted'
    BY <1>2, <1>3 DEF Inv, TypeOK
  <2>9. QED
    BY <1>2, <1>7, <1>9, <2>1, <2>2, <2>4, <2>5, <2>6, <2>7, <2>8 DEF Inv
<1>12. QED
  BY <1>10, <1>11

\* A failed batch goes back in front of what arrived meanwhile.
LEMMA SendFailsKeepsInv ==
  ASSUME Inv, NEW d \in BOOLEAN, SendFails(d)
  PROVE  Inv'
<1>1. /\ pending' = inflight \o pending /\ inflight' = <<>> /\ drain' = "sleeping"
      /\ failures' = OneMoreFailure
      /\ received' = received \/ received' = received \cup Items(inflight)
      /\ UNCHANGED <<closed, caller, flusher, accepted, bad, acked, dropped,
                     discarded, cleared, mark>>
  BY DEF SendFails, Requeued
<1>2. /\ inflight \in Seq(Nat) /\ pending \in Seq(Nat) /\ failures' \in Nat
  BY <1>1, UploaderConstants DEF Inv, TypeOK, OneMoreFailure
<1>3. /\ pending' \in Seq(Nat) /\ Items(pending') = Held
      /\ inflight' \o pending' = inflight \o pending
      /\ Items(inflight') = {}
  <2>1. Items(<<>>) = {}
    BY DEF Items
  <2>2. inflight' \o pending' = inflight \o pending
    BY <1>1, <1>2
  <2>3. QED
    BY <1>1, <1>2, <2>1, <2>2, ConcatItems DEF Held
<1>4. Held' = Held /\ Settled' = Settled
  BY <1>1, <1>3 DEF Held, Settled
<1>5. BufferInOrder' /\ NothingLost' /\ NothingTwice' /\ IdleMeansEmpty'
  BY <1>1, <1>3, <1>4
  DEF Inv, BufferInOrder, NothingLost, NothingTwice, IdleMeansEmpty, Held
<1>6. received' \subseteq 1 .. accepted
  BY <1>1, HeldFacts DEF Inv, TypeOK, Held
<1>7. TypeOK'
  BY <1>1, <1>2, <1>3, <1>6 DEF Inv, TypeOK
<1>8. ReceivedInOrder'
  BY <1>1, BatchLeavesNoGap DEF Inv, ReceivedInOrder
<1>9. FlushMeansSent'
  BY <1>1, <1>4 DEF Inv, FlushMeansSent
<1>10. /\ drain' # "sending" => inflight' = <<>>
       /\ acked' \subseteq received'
       /\ ~closed' => cleared' = {}
       /\ \A x \in Held', y \in cleared' : x < y
       /\ \A f \in Flushers : mark'[f] <= accepted'
  BY <1>1, <1>4 DEF Inv
<1>11. QED
  BY <1>5, <1>7, <1>8, <1>9, <1>10 DEF Inv

\* close() accounts for what it throws away.
LEMMA CloseKeepsInv ==
  ASSUME Inv, Close
  PROVE  Inv'
<1>1. /\ closed' = TRUE /\ ~closed
      /\ cleared' = cleared \cup Items(pending)
      /\ pending' = <<>> /\ caller' = Woken /\ flusher' = Flushed
      /\ UNCHANGED <<inflight, drain, failures, accepted, bad, received, acked,
                     dropped, discarded, mark>>
  BY DEF Close
<1>2. cleared = {} /\ Items(pending') = {}
  BY <1>1 DEF Inv, Items
<1>3. Held' = Items(inflight) /\ Settled' = Settled \cup Items(pending)
  BY <1>1, <1>2 DEF Held, Settled
<1>4. NothingLost' /\ NothingTwice'
  BY <1>1, <1>2, <1>3 DEF Inv, NothingLost, NothingTwice, Held
<1>5. BufferInOrder'
  <2>1. inflight \in Seq(Nat) /\ inflight' \o pending' = inflight
    BY <1>1 DEF Inv, TypeOK
  <2>2. QED
    BY <2>1, HeldFacts DEF BufferInOrder
<1>6. TypeOK'
  <2>1. TypeOK /\ Items(pending) \subseteq 1 .. accepted
    BY HeldFacts DEF Inv, Held
  <2>2. flusher' \in [Flushers -> {"new", "waiting", "done"}]
    BY <2>1, <1>1 DEF TypeOK, Flushed
  <2>3. cleared' \subseteq 1 .. accepted
    BY <2>1, <1>1, <1>2
  <2>4. pending' \in Seq(Nat) /\ closed' \in BOOLEAN
    BY <1>1
  <2>5. QED
    BY <1>1, <2>1, <2>2, <2>3, <2>4, WokenTyped DEF TypeOK
<1>7. IdleMeansEmpty' /\ ReceivedInOrder' /\ FlushMeansSent'
  BY <1>1 DEF Inv, IdleMeansEmpty, ReceivedInOrder, FlushMeansSent
<1>8. \A x \in Held', y \in cleared' : x < y
  BY <1>1, <1>2, <1>3, HeldFacts
<1>9. QED
  BY <1>1, <1>4, <1>5, <1>6, <1>7, <1>8 DEF Inv

\* flush() marks what was accepted and waits unless all of it has left.
LEMMA FlushKeepsInv ==
  ASSUME Inv, NEW f \in Flushers, Flush(f)
  PROVE  Inv'
<1>1. /\ flusher[f] = "new"
      /\ mark' = [mark EXCEPT ![f] = accepted]
      /\ flusher' = [flusher EXCEPT ![f] =
                       IF pending = <<>> /\ drain = "idle" THEN "done" ELSE "waiting"]
      /\ UNCHANGED <<pending, inflight, drain, failures, closed, caller, accepted,
                     bad, received, acked, dropped, discarded, cleared>>
  BY DEF Flush
<1>2. TypeOK' /\ Settled' = Settled /\ Held' = Held
  BY <1>1 DEF Inv, TypeOK, Settled, Held
<1>3. /\ BufferInOrder' /\ NothingLost' /\ NothingTwice' /\ IdleMeansEmpty'
      /\ ReceivedInOrder'
  BY <1>1, <1>2
  DEF Inv, BufferInOrder, NothingLost, NothingTwice, IdleMeansEmpty, ReceivedInOrder
<1>4. FlushMeansSent'
  <2> SUFFICES ASSUME NEW g \in Flushers, flusher'[g] = "done", ~closed'
               PROVE  1 .. mark'[g] \subseteq Settled
    BY <1>2 DEF FlushMeansSent
  <2>1. CASE g # f
    BY <1>1, <2>1 DEF Inv, FlushMeansSent, TypeOK
  <2>2. CASE g = f
    <3>1. pending = <<>> /\ drain = "idle" /\ mark'[f] = accepted
      BY <1>1, <2>2 DEF Inv, TypeOK
    <3>2. Items(pending) = {} /\ Items(inflight) = {}
      BY <3>1 DEF Inv, Items
    <3>3. QED
      BY <2>2, <3>1, <3>2 DEF Inv, NothingLost
  <2>3. QED
    BY <2>1, <2>2
<1>5. /\ drain' # "sending" => inflight' = <<>>
      /\ acked' \subseteq received'
      /\ ~closed' => cleared' = {}
      /\ \A x \in Held', y \in cleared' : x < y
      /\ \A g \in Flushers : mark'[g] <= accepted'
  BY <1>1, <1>2 DEF Inv, TypeOK
<1>6. QED
  BY <1>2, <1>3, <1>4, <1>5 DEF Inv

\* The remaining steps touch neither buffer nor batch.
LEMMA QuietStepKeepsInv ==
  ASSUME Inv,
         UNCHANGED <<pending, inflight, drain, failures, closed, flusher, accepted,
                     bad, received, acked, dropped, discarded, cleared, mark>>,
         caller' \in [Callers -> {"new", "blocked", "woken", "done"}]
  PROVE  Inv'
<1>1. TypeOK' /\ Settled' = Settled /\ Held' = Held
  BY DEF Inv, TypeOK, Settled, Held
<1>2. /\ BufferInOrder' /\ NothingLost' /\ NothingTwice' /\ IdleMeansEmpty'
      /\ ReceivedInOrder' /\ FlushMeansSent'
  BY <1>1 DEF Inv, BufferInOrder, NothingLost, NothingTwice, IdleMeansEmpty,
     ReceivedInOrder, FlushMeansSent
<1>3. QED
  BY <1>1, <1>2 DEF Inv

\* Every step keeps the invariant.
LEMMA StepInv == Inv /\ [Next]_vars => Inv'
<1> SUFFICES ASSUME Inv, [Next]_vars PROVE Inv'
  OBVIOUS
<1>1. ASSUME NEW c \in Callers, EnqueueClosed(c) \/ EnqueueBlocks(c) PROVE Inv'
  BY <1>1, QuietStepKeepsInv DEF EnqueueClosed, EnqueueBlocks, Inv, TypeOK
<1>2. CASE UNCHANGED vars
  BY <1>2, QuietStepKeepsInv DEF vars, Inv, TypeOK
<1>3. QED
  BY <1>1, <1>2, EnqueueKeepsInv, FlushKeepsInv, SendOkKeepsInv, SendFailsKeepsInv,
     SendFailsForGoodKeepsInv, SleepEndsKeepsInv, CloseKeepsInv
  DEF Next, Enqueue, SendSettles

\* The invariant holds in every reachable state.
THEOREM Invariance == Spec => []Inv
BY InitInv, StepInv, PTL DEF Spec

\* Every reachable state of the uploader is well typed.
THEOREM TypeCorrect == Spec => []TypeOK
<1>1. Inv => TypeOK
  BY DEF Inv
<1>2. QED
  BY <1>1, Invariance, PTL

\* No accepted event is lost or accounted for twice, across failures, drops,
\* cuts of a batch and close.
THEOREM NoLossNoDuplicate == Spec => [](NothingLost /\ NothingTwice)
<1>1. Inv => NothingLost /\ NothingTwice
  BY DEF Inv
<1>2. QED
  BY <1>1, Invariance, PTL

\* The server's events have no gap, whatever was retried, cut or dropped.
THEOREM InOrderReceipt == Spec => []ReceivedInOrder
<1>1. Inv => ReceivedInOrder
  BY DEF Inv
<1>2. QED
  BY <1>1, Invariance, PTL

\* A flush() that returned before close() has seen everything before it settled.
THEOREM FlushIsABarrier == Spec => []FlushMeansSent
<1>1. Inv => FlushMeansSent
  BY DEF Inv
<1>2. QED
  BY <1>1, Invariance, PTL

-----------------------------------------------------------------------------
\* A batch that fits, a buffer within its bound: with the bound itself these
\* are inductive.
SizeInv ==
    /\ PendingBounded
    /\ Len(inflight) <= MaxBatchSize
    /\ drain # "sending" => inflight = <<>>

\* Backpressure bounds the memory by the queue size and one batch, whatever
\* fails and is put back.
THEOREM MemoryIsBounded == Spec => []PendingBounded
<1> USE UploaderConstants
<1>1. Init => SizeInv
  BY DEF Init, SizeInv, PendingBounded
<1>2. Inv /\ SizeInv /\ [Next]_vars => SizeInv'
  <2> SUFFICES ASSUME Inv, SizeInv, [Next]_vars PROVE SizeInv'
    OBVIOUS
  <2>1. /\ pending \in Seq(Nat) /\ inflight \in Seq(Nat)
        /\ Ordered(pending) /\ Ordered(inflight) /\ accepted \in Nat
    BY HeldFacts DEF Inv, TypeOK
  <2>2. ASSUME NEW p \in Seq(Nat), Ordered(p), NEW unfit, LoopFrom(p, unfit),
               Len(p) <= MaxQueueSize + MaxBatchSize
        PROVE  SizeInv'
    <3>1. /\ Len(inflight') <= MaxBatchSize
          /\ Len(inflight') + Len(pending') <= Len(p)
          /\ drain' # "sending" => inflight' = <<>>
          /\ pending' \in Seq(Nat) /\ inflight' \in Seq(Nat)
      BY <2>2, LoopFacts
    <3>2. QED
      BY <3>1, <2>2 DEF SizeInv, PendingBounded
  <2>3. ASSUME NEW c \in Callers, EnqueueAccepts(c) PROVE SizeInv'
    <3> DEFINE new == EventsAfter(accepted, Size[c])
    <3>1. Size[c] \in Nat
      OBVIOUS
    <3>2. Len(pending) + Size[c] <= MaxQueueSize
      BY <2>1, <2>3, <3>1 DEF EnqueueAccepts, Full
    <3>3. /\ pending \o new \in Seq(Nat) /\ Ordered(pending \o new)
          /\ Len(pending \o new) = Len(pending) + Size[c]
      <4>1. \A x \in Items(pending) : x <= accepted
        BY HeldFacts, <2>1 DEF Held
      <4>2. QED
        BY <4>1, <2>1, <3>1, AppendNew
    <3>4. CASE drain = "idle"
      <4>1. PICK b : LoopFrom(pending \o new, bad \cup b)
        BY <2>3, <3>4 DEF EnqueueAccepts
      <4>2. Len(pending \o new) <= MaxQueueSize + MaxBatchSize
        BY <3>1, <3>2, <3>3, <2>1
      <4> HIDE DEF new
      <4>3. QED
        BY <4>1, <4>2, <3>3, <2>2
    <3>5. CASE drain # "idle"
      <4>1. pending' = pending \o new /\ UNCHANGED <<inflight, drain>>
        BY <2>3, <3>5 DEF EnqueueAccepts
      <4>2. QED
        BY <4>1, <3>1, <3>2, <3>3, <2>1 DEF SizeInv, PendingBounded
    <3>6. QED
      BY <3>4, <3>5
  <2>4. ASSUME LoopFrom(pending, bad) PROVE SizeInv'
    BY <2>1, <2>2, <2>4 DEF SizeInv, PendingBounded
  <2>5. ASSUME NEW d \in BOOLEAN, SendFails(d) PROVE SizeInv'
    <3>1. pending' = inflight \o pending /\ inflight' = <<>> /\ drain' = "sleeping"
      BY <2>5 DEF SendFails, Requeued
    <3>2. Len(pending') = Len(inflight) + Len(pending)
      BY <3>1, <2>1
    <3>3. QED
      BY <3>1, <3>2, <2>1 DEF SizeInv, PendingBounded
  <2>6. ASSUME Close PROVE SizeInv'
    BY <2>6, <2>1 DEF Close, SizeInv, PendingBounded
  <2>7. CASE UNCHANGED <<pending, inflight, drain>>
    BY <2>7 DEF SizeInv, PendingBounded
  <2>8. QED
    BY <2>3, <2>4, <2>5, <2>6, <2>7
    DEF Next, Enqueue, EnqueueClosed, EnqueueBlocks, Flush, SendSettles, SendOk,
        SendFailsForGood, SleepEnds, vars
<1>3. SizeInv => PendingBounded
  BY DEF SizeInv
<1>4. QED
  BY <1>1, <1>2, <1>3, Invariance, PTL DEF Spec

-----------------------------------------------------------------------------
\* The server learns a batch after everything it already knows.
LEMMA BatchIsNew ==
  ASSUME Inv, NEW x \in Items(inflight), x \notin received, NEW y \in received
  PROVE  y < x
<1>1. x \in Nat /\ y \in Nat /\ x # 0
  BY HeldFacts DEF Inv, TypeOK, Held
<1>2. x \notin dropped \cup discarded
  BY DEF Inv, NothingTwice, Settled
<1>3. x \notin 1 .. y - 1
  BY <1>2 DEF Inv, ReceivedInOrder
<1>4. QED
  BY <1>1, <1>3

\* A step in which the server may learn the batch in flight, and events may be
\* given up, is a step of the channel.
LEMMA DeliverStep ==
  ASSUME Inv, Inv', accepted' = accepted,
         received' = received \/ received' = received \cup Items(inflight),
         dropped \subseteq dropped', discarded \subseteq discarded'
  PROVE  Channel!Deliver
<1>1. /\ received' \subseteq 1 .. accepted
      /\ dropped' \cup discarded' \subseteq 1 .. accepted
  BY DEF Inv, TypeOK
<1>2. ASSUME NEW x \in received' \ received
      PROVE  /\ \A y \in 1 .. x - 1 : y \in received' \cup (dropped' \cup discarded')
             /\ \A y \in received : y < x
  <2>1. x \in Items(inflight) /\ received' = received \cup Items(inflight)
    OBVIOUS
  <2>2. QED
    BY <2>1, BatchLeavesNoGap, BatchIsNew
<1>3. QED
  BY <1>1, <1>2 DEF Channel!Deliver

\* The uploader implements the in-order channel: its events reach the server
\* in the order of acceptance, each one once or given up.
THEOREM UploaderIsAnInOrderChannel == Spec => ImplementsChannel
<1>1. Init => Channel!Init
  BY DEF Init, Channel!Init
<1>2. Inv /\ Inv' /\ [Next]_vars => [Channel!Next]_Channel!cvars
  <2> SUFFICES ASSUME Inv, Inv', [Next]_vars
               PROVE  Channel!Next \/ UNCHANGED Channel!cvars
    OBVIOUS
  <2>1. ASSUME NEW p \in Seq(Nat), Ordered(p), NEW unfit, LoopFrom(p, unfit)
        PROVE  /\ discarded \subseteq discarded'
               /\ discarded' \ discarded \subseteq Items(p)
    BY <2>1, LoopFacts
  <2>2. pending \in Seq(Nat) /\ Ordered(pending) /\ accepted \in Nat
    BY HeldFacts DEF Inv, TypeOK
  <2>3. ASSUME NEW c \in Callers, EnqueueAccepts(c)
        PROVE  Channel!Next \/ UNCHANGED Channel!cvars
    <3> DEFINE new == EventsAfter(accepted, Size[c])
    <3>1. /\ Size[c] \in Nat /\ accepted' = accepted + Size[c]
          /\ ~closed /\ UNCHANGED <<received, dropped>>
      BY <2>3, UploaderConstants DEF EnqueueAccepts
    <3>2. accepted' \in Nat /\ accepted' >= accepted
      BY <3>1, <2>2
    <3>3. CASE drain = "idle"
      <4>1. PICK b : LoopFrom(pending \o new, bad \cup b)
        BY <2>3, <3>3 DEF EnqueueAccepts
      <4>2. Items(pending) = {}
        BY <3>1, <3>3 DEF Inv, IdleMeansEmpty, Items
      <4>3. /\ pending \o new \in Seq(Nat) /\ Ordered(pending \o new)
            /\ Items(pending \o new) = accepted + 1 .. accepted'
        <5>1. \A x \in Items(pending) : x <= accepted
          BY <4>2
        <5> DEFINE n == Size[c]
        <5>2. /\ pending \o EventsAfter(accepted, n) \in Seq(Nat)
              /\ Ordered(pending \o EventsAfter(accepted, n))
              /\ Items(pending \o EventsAfter(accepted, n))
                   = Items(pending) \cup (accepted + 1 .. accepted + n)
              /\ Len(pending \o EventsAfter(accepted, n)) = Len(pending) + n
          <6>1. n \in Nat
            BY <3>1
          <6> HIDE DEF n
          <6>2. QED
            BY <5>1, <6>1, <2>2, AppendNew
        <5>3. QED
          BY <5>2, <4>2, <3>1
      <4>4. /\ discarded \subseteq discarded'
            /\ discarded' \ discarded \subseteq accepted + 1 .. accepted'
        BY <4>1, <4>3, <2>1
      <4>5. QED
        BY <4>4, <3>1, <3>2 DEF Channel!Next, Channel!Accept
    <3>4. CASE drain # "idle"
      <4>1. discarded' = discarded
        BY <2>3, <3>4 DEF EnqueueAccepts
      <4>2. QED
        BY <4>1, <3>1, <3>2 DEF Channel!Next, Channel!Accept
    <3>5. QED
      BY <3>3, <3>4
  <2>4. ASSUME SendOk PROVE Channel!Next
    BY <2>4, <2>1, <2>2, DeliverStep DEF SendOk, Channel!Next
  <2>5. ASSUME NEW d \in BOOLEAN, SendFails(d) PROVE Channel!Next
    BY <2>5, DeliverStep DEF SendFails, Channel!Next
  <2>6. ASSUME NEW d \in BOOLEAN, SendFailsForGood(d) PROVE Channel!Next
    BY <2>6, <2>1, <2>2, DeliverStep DEF SendFailsForGood, Channel!Next
  <2>7. ASSUME SleepEnds PROVE Channel!Next
    BY <2>7, <2>1, <2>2, DeliverStep DEF SleepEnds, Channel!Next
  <2>8. CASE UNCHANGED <<accepted, received, dropped, discarded>>
    BY <2>8 DEF Channel!cvars
  <2>9. QED
    BY <2>3, <2>4, <2>5, <2>6, <2>7, <2>8
    DEF Next, Enqueue, EnqueueClosed, EnqueueBlocks, Flush, SendSettles, Close, vars
<1>3. QED
  BY <1>1, <1>2, Invariance, PTL DEF Spec, ImplementsChannel, Channel!Spec
=============================================================================
