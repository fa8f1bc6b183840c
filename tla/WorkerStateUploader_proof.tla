---------------------- MODULE WorkerStateUploader_proof ----------------------
(***************************************************************************)
(* Theorems about WorkerStateUploader, for any fields, any groups of them  *)
(* and any number of patches.                                              *)
(***************************************************************************)
EXTENDS WorkerStateUploader, TLAPS

\* The server shows the state after some report that was taken, and the PUT
\* under way carries everything from no later than there: it leaves no gap.
InFlight ==
    \E n \in 0 .. taken :
        /\ Register!Writes(server, reports, 0, n)
        /\ stage # "idle" =>
              \E b \in 0 .. n : Register!Writes(current, reports, b, taken)

\* The pending patch carries what no PUT has taken.
Waiting ==
    IF closed THEN pending = NoPatch
              ELSE Register!Writes(pending, reports, taken, Len(reports))

Inv == TypeOK /\ InFlight /\ Waiting /\ RestMeansUpToDate

-----------------------------------------------------------------------------
\* Merging a later patch into an earlier one, with no gap between them, gives
\* the patch of both, which is nowhere older.
LEMMA CoalesceWrites ==
  ASSUME NEW h, NEW i \in Nat, NEW b \in Nat, NEW n \in Nat, NEW j \in Nat,
         i <= b, b <= n, n <= j,
         NEW u \in [Fields -> Nat], NEW v \in [Fields -> Nat],
         Register!Writes(u, h, i, n), Register!Writes(v, h, b, j)
  PROVE  /\ Register!Writes(Coalesce(u, v), h, i, j)
         /\ \A f \in Fields : Coalesce(u, v)[f] >= u[f]
<1> SUFFICES ASSUME NEW f \in Fields
             PROVE  /\ \/ Coalesce(u, v)[f] = 0
                       \/ /\ Coalesce(u, v)[f] \in i + 1 .. j
                          /\ f \in h[Coalesce(u, v)[f]]
                    /\ \A m \in i + 1 .. j : f \in h[m] => m <= Coalesce(u, v)[f]
                    /\ Coalesce(u, v)[f] >= u[f]
  BY DEF Register!Writes
<1>1. /\ u[f] \in Nat /\ v[f] \in Nat
      /\ u[f] = 0 \/ (u[f] \in i + 1 .. n /\ f \in h[u[f]])
      /\ \A m \in i + 1 .. n : f \in h[m] => m <= u[f]
  BY DEF Register!Writes
<1>2. /\ v[f] = 0 \/ (v[f] \in b + 1 .. j /\ f \in h[v[f]])
      /\ \A m \in b + 1 .. j : f \in h[m] => m <= v[f]
  BY DEF Register!Writes
<1>3. CASE v[f] = 0
  <2>1. Coalesce(u, v)[f] = u[f]
    BY <1>3 DEF Coalesce
  <2>2. QED
    BY <1>1, <1>2, <1>3, <2>1
<1>4. CASE v[f] # 0
  <2>1. Coalesce(u, v)[f] = v[f]
    BY <1>4 DEF Coalesce
  <2>2. v[f] >= u[f]
    BY <1>1, <1>2, <1>4
  <2>3. QED
    BY <1>1, <1>2, <1>4, <2>1, <2>2
<1>5. QED
  BY <1>3, <1>4

\* What a patch says of earlier reports does not depend on later ones.
LEMMA AppendWrites ==
  ASSUME NEW S, NEW h \in Seq(S), NEW g \in S, NEW v \in [Fields -> Nat],
         NEW i \in Nat, NEW j \in 0 .. Len(h), Register!Writes(v, h, i, j)
  PROVE  Register!Writes(v, Append(h, g), i, j)
<1>1. \A m \in i + 1 .. j : Append(h, g)[m] = h[m]
  OBVIOUS
<1>2. QED
  BY <1>1 DEF Register!Writes

\* The patch of a new report.
LEMMA NewPatch ==
  ASSUME NEW S, NEW h \in Seq(S), NEW g \in S
  PROVE  Register!Writes([f \in Fields |-> IF f \in g THEN Len(h) + 1 ELSE 0],
                         Append(h, g), Len(h), Len(h) + 1)
<1>1. Append(h, g)[Len(h) + 1] = g /\ Len(h) \in Nat
  OBVIOUS
<1>2. QED
  BY <1>1 DEF Register!Writes

\* Merging keeps patches typed, and merging nothing changes nothing.
LEMMA CoalesceTyped ==
  ASSUME NEW n \in Nat, NEW u \in [Fields -> 0 .. n], NEW v \in [Fields -> 0 .. n]
  PROVE  /\ Coalesce(u, v) \in [Fields -> 0 .. n]
         /\ NoPatch \in [Fields -> 0 .. n]
         /\ Coalesce(u, NoPatch) = u
BY DEF Coalesce, NoPatch

-----------------------------------------------------------------------------
\* A new uploader has nothing to send and the server shows nothing.
LEMMA InitInv == Init => Inv
<1> SUFFICES ASSUME Init PROVE Inv
  OBVIOUS
<1>1. Len(<<>>) = 0 /\ <<>> \in Seq(Groups)
  OBVIOUS
<1>2. NoPatch \in [Fields -> 0 .. 0]
  BY DEF NoPatch
<1>3. TypeOK
  <2>1. Patches = [Fields -> 0 .. 0] /\ taken \in 0 .. Len(reports)
    BY <1>1 DEF Init, Patches
  <2>2. QED
    BY <1>1, <1>2, <2>1 DEF Init, TypeOK
<1>4. Register!Writes(NoPatch, <<>>, 0, 0)
  BY DEF Register!Writes, NoPatch
<1>5. QED
  BY <1>1, <1>3, <1>4 DEF Init, Inv, InFlight, Waiting, RestMeansUpToDate, UpToDate

\* drain() with nothing in flight keeps the invariant: what is pending becomes
\* the next PUT, and if that is nothing the server is up to date.
LEMMA DrainKeepsInv ==
  ASSUME NEW t \in Nat, NEW p \in [Fields -> 0 .. Len(reports')],
         reports' \in Seq(Groups), t <= Len(reports'),
         server' \in [Fields -> 0 .. Len(reports')], closed' = FALSE,
         Register!Writes(server', reports', 0, t),
         Register!Writes(p, reports', t, Len(reports')),
         Drain(p, Len(reports'))
  PROVE  Inv'
<1> DEFINE L == Len(reports')
<1>1. L \in Nat
  OBVIOUS
<1>2. NoPatch \in [Fields -> 0 .. L]
  BY <1>1, CoalesceTyped DEF NoPatch
<1>3. TypeOK'
  <2>1. Patches' = [Fields -> 0 .. L]
    BY DEF Patches
  <2>2. /\ taken' \in 0 .. Len(reports') /\ stage' \in {"idle", "sending", "sleeping"}
        /\ stage' = "idle" <=> p = NoPatch
    BY <1>1 DEF Drain
  <2>3. pending' = NoPatch /\ current' = p
    BY DEF Drain
  <2>4. QED
    BY <1>2, <2>1, <2>2, <2>3 DEF TypeOK
<1>4. InFlight'
  <2>1. t \in 0 .. taken' /\ t \in 0 .. t
    BY <1>1 DEF Drain
  <2>2. QED
    BY <2>1 DEF Drain, InFlight
<1>5. Register!Writes(NoPatch, reports', L, L)
  BY <1>1 DEF Register!Writes, NoPatch
<1>6. Waiting'
  BY <1>5 DEF Drain, Waiting
<1>7. RestMeansUpToDate'
  <2> SUFFICES ASSUME stage' = "idle" PROVE Register!Writes(server', reports', 0, L)
    BY DEF RestMeansUpToDate, UpToDate
  <2>1. p = NoPatch
    BY DEF Drain
  <2>2. server' \in [Fields -> Nat] /\ p \in [Fields -> Nat]
    BY <1>1
  <2>n. 0 \in Nat /\ 0 <= t /\ t <= t
    OBVIOUS
  <2>3. Register!Writes(Coalesce(server', p), reports', 0, L)
    BY <1>1, <2>n, <2>2, CoalesceWrites, Zenon
  <2>4. Coalesce(server', p) = server'
    BY <1>1, <2>1, CoalesceTyped
  <2>5. QED
    BY <2>3, <2>4
<1>8. QED
  BY <1>3, <1>4, <1>6, <1>7 DEF Inv

\* A report is merged into what is pending, or is sent at once.
LEMMA EnqueueKeepsInv ==
  ASSUME Inv, NEW g \in Groups, Enqueue(g)
  PROVE  Inv'
<1> DEFINE L == Len(reports)
           patch == [f \in Fields |-> IF f \in g THEN L + 1 ELSE 0]
           p == Coalesce(pending, patch)
<1>1. /\ reports \in Seq(Groups) /\ L \in Nat /\ taken \in 0 .. L
      /\ server \in [Fields -> 0 .. L] /\ current \in [Fields -> 0 .. L]
      /\ pending \in [Fields -> 0 .. L]
  BY DEF Inv, TypeOK, Patches
<1>2. /\ reports' = Append(reports, g) /\ reports' \in Seq(Groups)
      /\ Len(reports') = L + 1
  BY <1>1 DEF Enqueue
<1>3. ~closed /\ closed' = FALSE /\ server' = server
  BY DEF Enqueue, Inv, TypeOK
<1>4. patch \in [Fields -> 0 .. L + 1] /\ pending \in [Fields -> 0 .. L + 1]
      /\ server \in [Fields -> 0 .. L + 1] /\ current \in [Fields -> 0 .. L + 1]
  BY <1>1
<1>n. L + 1 \in Nat /\ taken \in Nat /\ taken <= L /\ L <= L /\ L <= L + 1
  BY <1>1
<1> HIDE DEF patch
<1>5. p \in [Fields -> 0 .. L + 1]
  BY <1>n, <1>4, CoalesceTyped, Zenon
<1>6. Register!Writes(p, reports', taken, L + 1)
  <2>1. Register!Writes(patch, reports', L, L + 1)
    BY <1>1, <1>2, NewPatch DEF patch
  <2>2. Register!Writes(pending, reports, taken, L)
    BY <1>3 DEF Inv, Waiting
  <2>3. pending \in [Fields -> Nat] /\ patch \in [Fields -> Nat] /\ L \in 0 .. Len(reports)
    BY <1>1, <1>4
  <2>4. Register!Writes(pending, reports', taken, L)
    BY <1>1, <1>n, <1>2, <2>2, <2>3, AppendWrites, Zenon
  <2>5. QED
    BY <1>1, <1>n, <2>1, <2>3, <2>4, CoalesceWrites, Zenon
<1>7. PICK n \in 0 .. taken :
        /\ Register!Writes(server, reports, 0, n)
        /\ stage # "idle" =>
              \E b \in 0 .. n : Register!Writes(current, reports, b, taken)
  BY DEF Inv, InFlight
<1>8. Register!Writes(server, reports', 0, n)
  <2>1. 0 \in Nat /\ n \in 0 .. Len(reports) /\ server \in [Fields -> Nat]
    BY <1>1, <1>7
  <2>2. QED
    BY <1>1, <1>2, <1>7, <2>1, AppendWrites, Zenon
<1> HIDE DEF p
<1>9. CASE stage = "idle"
  <2>1. Drain(p, Len(reports'))
    BY <1>2, <1>9 DEF Enqueue, p, patch
  <2>2. Register!Writes(server, reports, 0, L)
    BY <1>3, <1>9 DEF Inv, RestMeansUpToDate, UpToDate
  <2>3. Register!Writes(server, reports, 0, taken)
    <3> SUFFICES ASSUME NEW f \in Fields
                 PROVE  /\ \/ server[f] = 0
                           \/ server[f] \in 0 + 1 .. taken /\ f \in reports[server[f]]
                        /\ \A m \in 0 + 1 .. taken : f \in reports[m] => m <= server[f]
      BY DEF Register!Writes
    <3>1. server[f] = 0 \/ (server[f] \in 1 .. n /\ f \in reports[server[f]])
      BY <1>7 DEF Register!Writes
    <3>2. \A m \in 1 .. L : f \in reports[m] => m <= server[f]
      BY <2>2 DEF Register!Writes
    <3>3. QED
      BY <1>1, <1>7, <3>1, <3>2
  <2>4. 0 \in Nat /\ taken \in 0 .. Len(reports) /\ server \in [Fields -> Nat]
    BY <1>1
  <2>5. Register!Writes(server, reports', 0, taken)
    BY <1>1, <1>2, <2>3, <2>4, AppendWrites, Zenon
  <2>6. /\ p \in [Fields -> 0 .. Len(reports')] /\ reports' \in Seq(Groups)
        /\ server' \in [Fields -> 0 .. Len(reports')] /\ closed' = FALSE
        /\ taken \in Nat /\ taken <= Len(reports')
    BY <1>1, <1>n, <1>2, <1>3, <1>4, <1>5
  <2>7. /\ Register!Writes(server', reports', 0, taken)
        /\ Register!Writes(p, reports', taken, Len(reports'))
    BY <1>2, <1>3, <1>6, <2>5
  <2>8. QED
    BY <2>1, <2>6, <2>7, DrainKeepsInv, Zenon
<1>10. CASE stage # "idle"
  <2>1. pending' = p /\ UNCHANGED <<current, stage, taken>>
    BY <1>10 DEF Enqueue, p, patch
  <2>2. PICK b \in 0 .. n : Register!Writes(current, reports, b, taken)
    BY <1>7, <1>10
  <2>n. b \in Nat /\ taken \in 0 .. Len(reports) /\ current \in [Fields -> Nat]
    BY <1>1, <1>7, <2>2
  <2>3. Register!Writes(current, reports', b, taken)
    BY <1>1, <1>2, <2>2, <2>n, AppendWrites, Zenon
  <2>4. TypeOK'
    <3>1. Patches' = [Fields -> 0 .. L + 1] /\ taken' \in 0 .. Len(reports')
      BY <1>1, <1>2, <2>1 DEF Patches
    <3>2. /\ pending' \in Patches' /\ current' \in Patches' /\ server' \in Patches'
          /\ stage' \in {"idle", "sending", "sleeping"} /\ closed' \in BOOLEAN
      BY <1>3, <1>4, <1>5, <2>1, <3>1 DEF Inv, TypeOK
    <3>3. stage' = "idle" <=> current' = NoPatch
      BY <2>1 DEF Inv, TypeOK
    <3>4. QED
      BY <1>2, <3>1, <3>2, <3>3 DEF TypeOK
  <2>5. InFlight'
    BY <1>3, <1>8, <2>1, <2>3 DEF InFlight
  <2>6. Waiting'
    BY <1>2, <1>3, <1>6, <2>1 DEF Waiting
  <2>7. RestMeansUpToDate'
    BY <1>10, <2>1 DEF RestMeansUpToDate
  <2>8. QED
    BY <2>4, <2>5, <2>6, <2>7 DEF Inv
<1>11. QED
  BY <1>9, <1>10

\* A PUT that is applied brings the server to the last report taken, and the
\* server shows nothing older than before.
LEMMA AppliedWrites ==
  ASSUME Inv, stage # "idle"
  PROVE  /\ Coalesce(server, current) \in [Fields -> 0 .. Len(reports)]
         /\ Register!Writes(Coalesce(server, current), reports, 0, taken)
         /\ \A f \in Fields : Coalesce(server, current)[f] >= server[f]
<1>1. /\ Len(reports) \in Nat /\ taken \in Nat
      /\ server \in [Fields -> 0 .. Len(reports)]
      /\ current \in [Fields -> 0 .. Len(reports)]
  BY DEF Inv, TypeOK, Patches
<1>n. PICK n \in 0 .. taken :
        /\ Register!Writes(server, reports, 0, n)
        /\ \E b \in 0 .. n : Register!Writes(current, reports, b, taken)
  BY DEF Inv, InFlight
<1>2. PICK b \in 0 .. n :
        /\ Register!Writes(server, reports, 0, n)
        /\ Register!Writes(current, reports, b, taken)
  BY <1>n
<1>3. server \in [Fields -> Nat] /\ current \in [Fields -> Nat]
  BY <1>1
<1>4. 0 \in Nat /\ n \in Nat /\ b \in Nat /\ 0 <= b /\ b <= n /\ n <= taken
  BY <1>1, <1>2
<1>5. Coalesce(server, current) \in [Fields -> 0 .. Len(reports)]
  BY <1>1, CoalesceTyped, Zenon
<1>6. QED
  BY <1>1, <1>2, <1>3, <1>4, <1>5, CoalesceWrites, Zenon

\* The end of a PUT: what is pending is sent next, or the uploader is closed.
LEMMA SettledKeepsInv ==
  ASSUME Inv, Settled, UNCHANGED <<closed, reports>>,
         server' \in [Fields -> 0 .. Len(reports)],
         closed \/ Register!Writes(server', reports, 0, taken),
         \E n \in 0 .. taken : Register!Writes(server', reports, 0, n)
  PROVE  Inv'
<1>1. /\ reports \in Seq(Groups) /\ Len(reports) \in Nat
      /\ taken \in Nat /\ taken <= Len(reports)
      /\ pending \in [Fields -> 0 .. Len(reports)]
  BY DEF Inv, TypeOK, Patches
<1>2. CASE closed
  <2>1. current' = NoPatch /\ stage' = "idle" /\ UNCHANGED <<pending, taken>>
    BY <1>2 DEF Settled
  <2>2. NoPatch \in [Fields -> 0 .. Len(reports)]
    BY <1>1, CoalesceTyped DEF NoPatch
  <2>3. TypeOK'
    BY <1>1, <2>1, <2>2 DEF Inv, TypeOK, Patches
  <2>4. InFlight' /\ Waiting' /\ RestMeansUpToDate'
    BY <1>2, <2>1 DEF Inv, InFlight, Waiting, RestMeansUpToDate, NoPatch
  <2>5. QED
    BY <2>3, <2>4 DEF Inv
<1>3. CASE ~closed
  <2>1. Drain(pending, Len(reports')) /\ closed' = FALSE
    BY <1>3 DEF Settled, Inv, TypeOK
  <2>2. Register!Writes(pending, reports, taken, Len(reports))
    BY <1>3 DEF Inv, Waiting
  <2>3. QED
    BY <1>1, <1>3, <2>1, <2>2, DrainKeepsInv
<1>4. QED
  BY <1>2, <1>3

\* A PUT that succeeds.
LEMMA SendOkKeepsInv ==
  ASSUME Inv, SendOk
  PROVE  Inv'
<1>1. stage # "idle" /\ server' = Coalesce(server, current) /\ Settled
      /\ UNCHANGED <<closed, reports>>
  BY DEF SendOk
<1>2. taken \in 0 .. taken
  BY DEF Inv, TypeOK
<1>3. QED
  BY <1>1, <1>2, AppliedWrites, SettledKeepsInv

\* A PUT that fails, applied or not, will be retried with all it carries.
LEMMA SendFailsKeepsInv ==
  ASSUME Inv, NEW applied \in BOOLEAN, SendFails(applied)
  PROVE  Inv'
<1>1. /\ stage = "sending" /\ stage' = "sleeping"
      /\ UNCHANGED <<pending, current, closed, reports, taken>>
      /\ server' = server \/ server' = Coalesce(server, current)
  BY DEF SendFails
<1>n. PICK n \in 0 .. taken :
        /\ Register!Writes(server, reports, 0, n)
        /\ \E b \in 0 .. n : Register!Writes(current, reports, b, taken)
  BY <1>1 DEF Inv, InFlight
<1>2. PICK b \in 0 .. n :
        /\ Register!Writes(server, reports, 0, n)
        /\ Register!Writes(current, reports, b, taken)
  BY <1>n
<1>3. taken \in Nat /\ taken \in 0 .. taken /\ b \in 0 .. taken
  BY DEF Inv, TypeOK
<1>4. TypeOK'
  BY <1>1, AppliedWrites DEF Inv, TypeOK, Patches
<1>5. InFlight'
  <2>1. CASE server' = server
    BY <1>1, <1>2, <2>1 DEF InFlight
  <2>2. CASE server' = Coalesce(server, current)
    <3>1. Register!Writes(server', reports, 0, taken)
      BY <1>1, <2>2, AppliedWrites
    <3>2. QED
      BY <1>1, <1>2, <1>3, <3>1 DEF InFlight
  <2>3. QED
    BY <1>1, <2>1, <2>2
<1>6. Waiting' /\ RestMeansUpToDate'
  BY <1>1 DEF Inv, Waiting, RestMeansUpToDate, NoPatch
<1>7. QED
  BY <1>4, <1>5, <1>6 DEF Inv

\* A retry carries what failed and what came since.
LEMMA SleepEndsKeepsInv ==
  ASSUME Inv, SleepEnds
  PROVE  Inv'
<1>1. stage = "sleeping" /\ UNCHANGED <<closed, server, reports>>
  BY DEF SleepEnds
<1>n. PICK n \in 0 .. taken :
        /\ Register!Writes(server, reports, 0, n)
        /\ \E b \in 0 .. n : Register!Writes(current, reports, b, taken)
  BY <1>1 DEF Inv, InFlight
<1>2. PICK b \in 0 .. n :
        /\ Register!Writes(server, reports, 0, n)
        /\ Register!Writes(current, reports, b, taken)
  BY <1>n
<1>3. /\ reports \in Seq(Groups) /\ Len(reports) \in Nat
      /\ taken \in Nat /\ taken <= Len(reports)
      /\ server \in [Fields -> 0 .. Len(reports)]
      /\ pending \in [Fields -> 0 .. Len(reports)]
      /\ current \in [Fields -> 0 .. Len(reports)]
  BY DEF Inv, TypeOK, Patches
<1>4. CASE closed
  BY <1>1, <1>2, <1>3, <1>4, SettledKeepsInv DEF SleepEnds
<1>5. CASE ~closed
  <2>1. /\ current' = Coalesce(current, pending) /\ pending' = NoPatch
        /\ taken' = Len(reports) /\ stage' = "sending"
    BY <1>5 DEF SleepEnds, Absorbed
  <2>2. Register!Writes(pending, reports, taken, Len(reports))
    BY <1>5 DEF Inv, Waiting
  <2>3. current \in [Fields -> Nat] /\ pending \in [Fields -> Nat]
    BY <1>3
  <2>n. b \in Nat /\ b <= taken /\ taken <= taken /\ b <= b
    BY <1>2, <1>3
  <2>4. Register!Writes(current', reports, b, Len(reports))
    BY <1>2, <1>3, <2>n, <2>1, <2>2, <2>3, CoalesceWrites, Zenon
  <2>a. current' # NoPatch
    <3>1. PICK f \in Fields : current[f] # 0
      BY <1>1, <1>3 DEF Inv, TypeOK, NoPatch
    <3>2. current'[f] # 0
      BY <2>1, <3>1 DEF Coalesce
    <3>3. QED
      BY <3>2 DEF NoPatch
  <2>5. current' \in [Fields -> 0 .. Len(reports)]
        /\ NoPatch \in [Fields -> 0 .. Len(reports)]
    BY <1>3, <2>1, CoalesceTyped
  <2>b. (stage' = "idle" <=> current' = NoPatch)
        /\ stage' \in {"idle", "sending", "sleeping"} /\ taken' \in 0 .. Len(reports)
    BY <1>3, <2>1, <2>a
  <2>6. TypeOK'
    BY <1>1, <1>3, <2>1, <2>5, <2>b DEF Inv, TypeOK, Patches
  <2>7. InFlight'
    <3>1. n \in 0 .. taken'
      BY <1>3, <2>1
    <3>2. QED
      BY <1>1, <1>2, <2>1, <2>4, <3>1 DEF InFlight
  <2>8. Register!Writes(NoPatch, reports, Len(reports), Len(reports))
    BY <1>3 DEF Register!Writes, NoPatch
  <2>9. Waiting' /\ RestMeansUpToDate'
    BY <1>1, <1>5, <2>1, <2>8 DEF Waiting, RestMeansUpToDate
  <2>10. QED
    BY <2>6, <2>7, <2>9 DEF Inv
<1>6. QED
  BY <1>4, <1>5

\* close() gives up what no PUT has taken.
LEMMA CloseKeepsInv ==
  ASSUME Inv, Close
  PROVE  Inv'
<1>1. NoPatch \in [Fields -> 0 .. Len(reports)] /\ Len(reports) \in Nat
  BY CoalesceTyped DEF Inv, TypeOK, NoPatch
<1>2. QED
  BY <1>1 DEF Close, Inv, TypeOK, Patches, InFlight, Waiting, RestMeansUpToDate, NoPatch

\* Every step keeps the invariant.
LEMMA StepInv == Inv /\ [Next]_vars => Inv'
<1> SUFFICES ASSUME Inv, [Next]_vars PROVE Inv'
  OBVIOUS
<1>1. CASE UNCHANGED vars
  BY <1>1 DEF vars, Inv, TypeOK, Patches, InFlight, Waiting, RestMeansUpToDate,
     UpToDate, NoPatch
<1>2. QED
  BY <1>1, EnqueueKeepsInv, SendOkKeepsInv, SendFailsKeepsInv, SleepEndsKeepsInv,
     CloseKeepsInv DEF Next, SendSettles

\* The invariant holds in every state.
THEOREM Invariance == Spec => []Inv
  BY InitInv, StepInv, PTL DEF Spec

\* The uploader's fields have their types.
THEOREM TypeCorrect == Spec => []TypeOK
  BY Invariance, PTL DEF Inv

\* An open uploader that has nothing in flight has nothing unsent.
THEOREM RestIsUpToDate == Spec => []RestMeansUpToDate
  BY Invariance, PTL DEF Inv

\* The server shows the worker as it was after some of its reports, and never
\* goes back: the uploader implements the lagging register.
THEOREM UploaderIsALaggingRegister == Spec => ImplementsRegister
<1>1. Init => Register!Init
  BY DEF Init, Register!Init, NoPatch
<1>2. ASSUME Inv, [Next]_vars
      PROVE  [Register!Next]_<<reports, server>>
  <2>1. ASSUME NEW g \in Groups, Enqueue(g)
        PROVE  Register!Report
    BY <2>1 DEF Enqueue, Register!Report
  <2>2. ASSUME stage # "idle", server' = Coalesce(server, current), UNCHANGED reports
        PROVE  Register!Publish
    <3>1. Register!Writes(server', reports, 0, taken) /\ taken \in 0 .. Len(reports)
      BY <1>2, <2>2, AppliedWrites DEF Inv, TypeOK
    <3>2. \A f \in Fields : server'[f] >= server[f]
      BY <1>2, <2>2, AppliedWrites
    <3>3. QED
      BY <2>2, <3>1, <3>2 DEF Register!Publish
  <2>3. CASE SendSettles
    BY <2>2, <2>3 DEF SendSettles, SendOk, SendFails, Register!Next
  <2>4. CASE SleepEnds \/ Close \/ UNCHANGED vars
    BY <2>4 DEF SleepEnds, Close, vars
  <2>5. QED
    BY <1>2, <2>1, <2>3, <2>4 DEF Next, Register!Next
<1>3. QED
  BY Invariance, <1>1, <1>2, PTL
     DEF Spec, ImplementsRegister, Register!Spec, Register!rvars
=============================================================================
