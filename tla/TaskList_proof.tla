---------------------------- MODULE TaskList_proof ----------------------------
(***************************************************************************)
(* Proofs about the shared task list, for any number of calls, agents and  *)
(* tasks.                                                                  *)
(***************************************************************************)
EXTENDS TaskList, FiniteSetTheorems, TLAPS

Updaters == {"unassign", "complete", "assign", "start", "update", "release"}
Ops == Updaters \cup {"none", "create", "reset", "delete", "block", "claim"}
Pcs == {"idle", "over", "number", "files", "mark", "open_mark", "write_mark",
        "open_new", "unlink", "clear", "sweep", "list", "lock", "read", "open",
        "write"}
Updates == [id : Ids, patch : Patches]

\* What calls read of a list of tasks.
Lists == UNION {[S -> Task] : S \in SUBSET Ids}

CallRec ==
    [op : Ops, pc : Pcs, agent : Agents \cup {NoOne}, id : 0 .. MaxId,
     other : 0 .. MaxId, read : Task, list : Lists, unread : SUBSET Ids,
     work : Seq(Updates), n : 0 .. MaxId, ghost : BOOLEAN, missed : SUBSET Ids]

\* Where a call of every operation can stand.
Fit(k) ==
    \/ k.op = "none" /\ k.pc \in {"idle", "over"} /\ k.work = <<>>
    \/ /\ k.op = "create" /\ k.pc \in {"number", "files", "mark", "open_new"}
       /\ k.work = <<>>
    \/ k.op = "create" /\ k.pc = "write" /\ k.work = <<>> /\ k.id \in Ids
    \/ /\ k.op = "reset" /\ k.work = <<>>
       /\ k.pc \in {"files", "mark", "open_mark", "write_mark", "clear", "sweep"}
    \/ /\ k.op = "delete" /\ k.work = <<>> /\ k.id \in Ids
       /\ k.pc \in {"mark", "open_mark", "write_mark", "unlink", "list"}
    \/ k.op \in {"unassign", "block"} /\ k.pc = "list" /\ k.work = <<>>
    \/ /\ k.op = "claim" /\ k.pc \in {"lock", "list", "read", "open", "write"}
       /\ k.work # <<>>
    \/ k.op \in Updaters /\ k.pc \in {"lock", "open", "write"} /\ k.work # <<>>

\* k holds the lock of the task it is about.
Holding(k) ==
    \/ k.op = "claim" /\ k.pc \in {"list", "read", "open", "write"}
    \/ k.op \in Updaters /\ k.pc \in {"open", "write"}

Calling(k) == k \in CallRec /\ Fit(k)
CallsOK(cs) == cs \in [Calls -> CallRec] /\ \A c \in Calls : Fit(cs[c])

TypeInv ==
    /\ file \in [Ids -> {"absent", "torn", "whole"}]
    /\ task \in [Ids -> Task]
    /\ mark \in 0 .. MaxId
    /\ lock \in [Ids -> Calls \cup {NoCall}]
    /\ listLock \in Calls \cup {NoCall}
    /\ CallsOK(call)
    /\ claimed \in [Ids -> SUBSET (Agents \cup {NoOne})]
    /\ snatched \in SUBSET Ids /\ reopened \in SUBSET Ids
    /\ issued \in SUBSET Ids /\ reused \in SUBSET Ids
    /\ raced \in BOOLEAN

-----------------------------------------------------------------------------
\* A task is locked by the call that reads or writes it, the list by the call
\* that creates or resets.
TaskLocks ==
    \A i \in Ids, c \in Calls :
        lock[i] = c <=> Holding(call[c]) /\ Target(call[c]) = i
ListLocked(k) == k.op \in {"create", "reset"}
LockInv == TaskLocks /\ \A c \in Calls : listLock = c <=> ListLocked(call[c])

\* The mark says that numbers up to i were given, or is about to.
Covers(i) ==
    i <= mark \/ \E d \in Calls : call[d].pc = "write_mark" /\ i <= call[d].n

\* What a call that handles the mark knows.
Numbered(c) ==
    LET k == call[c] IN
    /\ k.op = "create" /\ k.pc = "files" =>
         \A i \in issued : i <= k.n \/ \E j \in Existing : i <= j
    /\ k.op = "create" /\ k.pc = "mark" => \A i \in issued : i <= k.n \/ i <= mark
    /\ k.op = "create" /\ k.pc = "open_new" => \A i \in issued : i <= k.n
    /\ k.op = "reset" /\ k.pc \in {"mark", "open_mark", "write_mark"} =>
         \A i \in issued : i <= k.n \/ Covers(i)
    /\ k.op = "reset" /\ k.pc \in {"clear", "sweep"} => \A i \in issued : Covers(i)
    /\ k.op = "delete" /\ k.pc \in {"mark", "open_mark", "write_mark"} => k.n = k.id
    /\ k.op = "delete" /\ k.pc = "unlink" => Covers(k.id)
    /\ k.pc \in {"open_mark", "write_mark"} => k.n > mark

\* As long as nothing has raced, every number that was given is below the mark
\* or the number of a file.
Accounted(i) == Covers(i) \/ \E j \in Existing : i <= j
NumberInv ==
    ~raced =>
      /\ reused = {} /\ ~Races
      /\ \A i \in issued : Accounted(i)
      /\ \A c \in Calls : Numbered(c)

\* What the updates of a call do to the owner.
Meant(k, u) ==
    /\ k.op \in {"claim", "assign"} =>
          k.agent \in Agents /\ "owner" \in DOMAIN u.patch /\ u.patch.owner = k.agent
    /\ k.op = "start" =>
          k.agent \in Agents /\ ("owner" \in DOMAIN u.patch => u.patch.owner = k.agent)
    /\ k.op \in {"unassign", "release"} =>
          "owner" \in DOMAIN u.patch /\ u.patch.owner = NoOne
    /\ k.op \in {"update", "complete"} => "owner" \notin DOMAIN u.patch

AllMeant == \A c \in Calls : \A m \in DOMAIN call[c].work :
                Meant(call[c], call[c].work[m])

\* The tasks that a call updates, or has read.
Touched(k) ==
    {k.work[m].id : m \in DOMAIN k.work} \cup DOMAIN k.list

\* c writes the file of a task whose number was not given before.
Fresh(c, i) ==
    call[c].op = "create" /\ call[c].pc = "write" /\ call[c].id = i /\ i \notin reused

\* The numbers that calls know were given; nobody touches a fresh task.
IssuedInv ==
    /\ \A i \in Ids : file[i] # "absent" => i \in issued
    /\ \A c \in Calls : Touched(call[c]) \subseteq issued
    /\ \A c \in Calls : call[c].op = "create" /\ call[c].pc = "write" =>
          call[c].id \in issued
    /\ \A c \in Calls, i \in Ids : Fresh(c, i) =>
         /\ file[i] # "whole" /\ claimed[i] = {}
         /\ \A d \in Calls : i \notin Touched(call[d])

\* Whoever holds a task owns it, and so has the call that writes it found.
Mistaken == snatched \cup reused
Owners == \A i \in Ids \ Mistaken : claimed[i] \subseteq {task[i].owner}
Found(c) ==
    LET k == call[c]
        i == Target(k)
    IN  /\ Holding(k) /\ k.pc \in {"open", "write"} /\ i \notin Mistaken
             => claimed[i] \subseteq {k.read.owner}
        /\ k.op = "claim" /\ k.pc \in {"list", "read"}
             => task[i].owner \in {NoOne, k.agent}
        /\ k.op = "claim" /\ k.pc \in {"open", "write"}
             => k.read.owner \in {NoOne, k.agent}
ClaimInv ==
    claimed \in [Ids -> SUBSET Agents] /\ Owners /\ \A c \in Calls : Found(c)

-----------------------------------------------------------------------------
\* The sequences of a set of tasks are finite and hold its tasks.
LEMMA SetToSeqsType ==
    ASSUME NEW S \in SUBSET Ids, NEW ids \in SetToSeqs(S)
    PROVE  /\ ids \in Seq(S) /\ Len(ids) \in Nat
           /\ \A m \in 1 .. Len(ids) : ids[m] \in S
<1>1. IsFiniteSet(S)
  <2>1. 1 \in Int /\ MaxId \in Int
    BY TaskListConstants DEF TaskListConstants
  <2>2. IsFiniteSet(Ids)
    BY <2>1, FS_Interval DEF Ids
  <2> QED
    BY <2>2, FS_Subset
<1>2. Cardinality(S) \in Nat
  BY <1>1, FS_CardinalityType
<1>3. ids \in [1 .. Cardinality(S) -> S]
  BY DEF SetToSeqs
<1> QED
  BY <1>2, <1>3

\* A patched task is a task, with the owner of the patch if it has one, and
\* its own otherwise.
LEMMA PatchedType ==
    ASSUME NEW t \in Task, NEW p \in Patches
    PROVE  /\ Patched(t, p) \in Task
           /\ "owner" \in DOMAIN p => Patched(t, p).owner = p.owner
           /\ "owner" \notin DOMAIN p => Patched(t, p).owner = t.owner
<1> DEFINE r == Patched(t, p)
<1>1. /\ DOMAIN t = {"owner", "status", "blocks", "blockedBy"}
      /\ t.owner \in Agents \cup {NoOne} /\ t.status \in Status
      /\ t.blocks \in SUBSET Ids /\ t.blockedBy \in SUBSET Ids
  BY DEF Task
<1>2. /\ "owner" \in DOMAIN p => p.owner \in Agents \cup {NoOne}
      /\ "status" \in DOMAIN p => p.status \in Status
      /\ "blocks" \in DOMAIN p => p.blocks \in SUBSET Ids
      /\ "blockedBy" \in DOMAIN p => p.blockedBy \in SUBSET Ids
  BY DEF Patches
<1>3. r = [f \in {"owner", "status", "blocks", "blockedBy"} |->
             IF f \in DOMAIN p THEN p[f] ELSE t[f]]
  BY <1>1 DEF Patched
<1>4. /\ r.owner = IF "owner" \in DOMAIN p THEN p.owner ELSE t.owner
      /\ r.status = IF "status" \in DOMAIN p THEN p.status ELSE t.status
      /\ r.blocks = IF "blocks" \in DOMAIN p THEN p.blocks ELSE t.blocks
      /\ r.blockedBy = IF "blockedBy" \in DOMAIN p THEN p.blockedBy ELSE t.blockedBy
  BY <1>3
<1>5. r = [owner |-> r.owner, status |-> r.status, blocks |-> r.blocks,
           blockedBy |-> r.blockedBy]
  BY <1>3
<1>6. r \in Task
  BY <1>1, <1>2, <1>4, <1>5 DEF Task
<1> QED
  BY <1>4, <1>6

-----------------------------------------------------------------------------
\* The records that calls are made of.
LEMMA IdleType == Idle \in CallRec /\ Calling(Idle) /\ Calling(Over)
<1>1. NewTask \in Task
  BY DEF NewTask, Task, Status
<1>2. <<>> \in Lists
  <2>1. <<>> \in [{} -> Task]
    OBVIOUS
  <2> QED
    BY <2>1 DEF Lists
<1>3. <<>> \in Seq(Updates) /\ 0 \in 0 .. MaxId
  BY TaskListConstants DEF TaskListConstants
<1>4. Idle \in CallRec /\ Over \in CallRec
  BY <1>1, <1>2, <1>3 DEF Idle, Over, CallRec, Ops, Pcs
<1> QED
  BY <1>4 DEF Idle, Over, Calling, Fit

LEMMA BeginsType ==
    ASSUME NEW op \in Ops, NEW a \in Agents \cup {NoOne}, NEW i \in 0 .. MaxId
    PROVE  /\ Begins(op, a, i) \in CallRec
           /\ Begins(op, a, i).op = op /\ Begins(op, a, i).agent = a
           /\ Begins(op, a, i).id = i /\ Begins(op, a, i).work = <<>>
           /\ Begins(op, a, i).list = <<>>
BY IdleType DEF Begins, CallRec, Idle

LEMMA TurningType ==
    ASSUME NEW k \in CallRec, k.op \in Updaters \cup {"claim"}
    PROVE  Calling(Turning(k))
<1>1. CASE k.work = <<>>
  BY <1>1, IdleType DEF Turning
<1>2. CASE k.work # <<>>
  <2>1. Turning(k) = [k EXCEPT !.pc = "lock"]
    BY <1>2 DEF Turning
  <2>2. Turning(k) \in CallRec
    BY <2>1 DEF CallRec, Pcs
  <2> QED
    BY <1>2, <2>1, <2>2 DEF CallRec, Calling, Fit
<1> QED
  BY <1>1, <1>2

LEMMA NextUpdateType ==
    ASSUME NEW k \in CallRec, k.op \in Updaters, k.work # <<>>
    PROVE  Calling(NextUpdate(k))
<1> DEFINE m == [k EXCEPT !.work = Tail(@), !.read = NewTask, !.ghost = FALSE]
<1>1. NewTask \in Task
  BY DEF NewTask, Task, Status
<1>2. Tail(k.work) \in Seq(Updates)
  BY DEF CallRec
<1>3. m \in CallRec /\ m.op = k.op
  BY <1>1, <1>2 DEF CallRec
<1> QED
  BY <1>3, TurningType DEF NextUpdate

LEMMA UpdatingType ==
    ASSUME NEW k \in CallRec, NEW op \in Updaters, NEW work \in Seq(Updates)
    PROVE  Calling(Updating(k, op, work))
<1> DEFINE m == [Idle EXCEPT !.op = op, !.agent = k.agent, !.work = work]
<1>1. m \in CallRec /\ m.op = op
  BY IdleType DEF CallRec, Ops
<1> QED
  BY <1>1, TurningType DEF Updating

LEMMA TargetType ==
    ASSUME NEW k \in CallRec, k.work # <<>>
    PROVE  /\ Head(k.work) \in Updates /\ Target(k) = Head(k.work).id
           /\ Target(k) \in Ids /\ Head(k.work).patch \in Patches
<1>1. k.work \in Seq(Updates)
  BY DEF CallRec
<1>2. Head(k.work) \in Updates
  BY <1>1
<1> QED
  BY <1>2 DEF Updates, Target

LEMMA AfterClaimType ==
    ASSUME NEW k \in CallRec, k.op = "claim", k.work # <<>>,
           NEW after \in AfterClaim(k)
    PROVE  Calling(after)
<1>1. Target(k) \in Ids /\ k.agent \in Agents \cup {NoOne}
  BY TargetType DEF CallRec
<1>2. Update(Target(k), [status |-> "in_progress"]) \in Updates
  BY <1>1 DEF Update, Updates, Patches, Status
<1>3. Update(Target(k), [owner |-> NoOne]) \in Updates
  BY <1>1 DEF Update, Updates, Patches
<1> DEFINE m(op, u) == [Idle EXCEPT !.op = op, !.agent = k.agent, !.work = <<u>>]
<1>4. \A op \in Updaters, u \in Updates :
        m(op, u) \in CallRec /\ m(op, u).op = op
  <2> TAKE op \in Updaters, u \in Updates
  <2>1. <<u>> \in Seq(Updates)
    OBVIOUS
  <2>2. op \in Ops
    BY DEF Ops
  <2> QED
    BY <2>1, <2>2, IdleType, <1>1 DEF CallRec
<1>5. \A op \in Updaters, u \in Updates : Calling(Turning(m(op, u)))
  BY <1>4, TurningType
<1>6. \/ after = Over
      \/ after = Turning(m("update", Update(Target(k), [status |-> "in_progress"])))
      \/ after = Turning(m("release", Update(Target(k), [owner |-> NoOne])))
  BY DEF AfterClaim
<1> QED
  BY <1>2, <1>3, <1>5, <1>6, IdleType DEF Updaters

LEMMA GoesType ==
    ASSUME CallsOK(call), NEW c \in Calls, NEW k, Calling(k), Goes(c, k)
    PROVE  CallsOK(call')
BY DEF CallsOK, Calling, Goes

LEMMA ListType ==
    ASSUME NEW list \in Lists
    PROVE  /\ DOMAIN list \subseteq Ids /\ \A i \in DOMAIN list : list[i] \in Task
           /\ \A i \in Ids, t \in Task :
                 [j \in DOMAIN list \cup {i} |-> IF j = i THEN t ELSE list[j]] \in Lists
<1>1. PICK S \in SUBSET Ids : list \in [S -> Task]
  BY DEF Lists
<1>2. ASSUME NEW i \in Ids, NEW t \in Task
      PROVE  [j \in DOMAIN list \cup {i} |-> IF j = i THEN t ELSE list[j]] \in Lists
  <2>1. DOMAIN list \cup {i} \in SUBSET Ids
    BY <1>1
  <2>2. [j \in DOMAIN list \cup {i} |-> IF j = i THEN t ELSE list[j]]
           \in [DOMAIN list \cup {i} -> Task]
    BY <1>1, <1>2
  <2> QED
    BY <2>1, <2>2 DEF Lists
<1> QED
  BY <1>1, <1>2

-----------------------------------------------------------------------------
\* Type correctness.
LEMMA InitType == Init => TypeInv
<1> SUFFICES ASSUME Init PROVE TypeInv
  OBVIOUS
<1>1. 1 .. 2 \in SUBSET Ids /\ 0 \in 0 .. MaxId /\ 1 \in Ids /\ 2 \in Ids
  BY TaskListConstants DEF TaskListConstants, Ids
<1>2. PICK o \in Agents \cup {NoOne}, st \in Status :
         /\ st = "in_progress" => o # NoOne
         /\ task = [i \in Ids |->
                     CASE i = 1 -> [NewTask EXCEPT !.owner = o, !.status = st,
                                                   !.blocks = {2}]
                       [] i = 2 -> [NewTask EXCEPT !.blockedBy = {1}]
                       [] OTHER -> NewTask]
         /\ claimed = [i \in Ids |-> IF i = 1 /\ st = "in_progress"
                                    THEN {o} ELSE {}]
  BY DEF Init
<1>3. task \in [Ids -> Task]
  <2>1. NewTask \in Task
    BY DEF NewTask, Task, Status
  <2>2. [NewTask EXCEPT !.owner = o, !.status = st, !.blocks = {2}] \in Task
    BY <1>1 DEF NewTask, Task
  <2>3. [NewTask EXCEPT !.blockedBy = {1}] \in Task
    BY <1>1, <2>1 DEF NewTask, Task
  <2> QED
    BY <1>2, <2>1, <2>2, <2>3
<1>4. claimed \in [Ids -> SUBSET (Agents \cup {NoOne})]
  BY <1>2
<1>5. CallsOK(call)
  BY IdleType DEF CallsOK, Calling, Init
<1> QED
  BY <1>1, <1>3, <1>4, <1>5 DEF TypeInv, Init

\* What every step but a call's own move leaves to be shown.
StateOK ==
    /\ file \in [Ids -> {"absent", "torn", "whole"}]
    /\ task \in [Ids -> Task]
    /\ mark \in 0 .. MaxId
    /\ lock \in [Ids -> Calls \cup {NoCall}]
    /\ listLock \in Calls \cup {NoCall}
    /\ claimed \in [Ids -> SUBSET (Agents \cup {NoOne})]
    /\ snatched \in SUBSET Ids /\ reopened \in SUBSET Ids
    /\ issued \in SUBSET Ids /\ reused \in SUBSET Ids

LEMMA BeginType ==
    ASSUME TypeInv, NEW c \in Calls, Begin(c)
    PROVE  StateOK' /\ CallsOK(call')
<1>1. listLock' \in Calls \cup {NoCall}
  BY DEF Begin, BeginCreate, BeginReset, LockList, TypeInv
<1>2. StateOK'
  BY <1>1 DEF Begin, StateOK, TypeInv, files, history
<1> SUFFICES \E k : Goes(c, k) /\ Calling(k)
  BY <1>2, GoesType DEF TypeInv
<1>n. 0 \in 0 .. MaxId /\ \A i \in Ids : i \in 0 .. MaxId
  BY TaskListConstants DEF TaskListConstants, Ids
<1>b. ASSUME NEW op \in {"create", "reset", "delete", "block"},
             NEW i \in 0 .. MaxId
      PROVE  /\ Begins(op, NoOne, i) \in CallRec /\ Begins(op, NoOne, i).op = op
             /\ Begins(op, NoOne, i).work = <<>> /\ Begins(op, NoOne, i).id = i
  <2>1. op \in Ops /\ NoOne \in Agents \cup {NoOne}
    BY DEF Ops
  <2> QED
    BY <2>1, BeginsType
<1>3. CASE BeginCreate(c)
  <2> DEFINE b == Begins("create", NoOne, 0)
             k == [b EXCEPT !.pc = "number"]
  <2>1. b \in CallRec /\ b.op = "create" /\ b.work = <<>>
    BY <1>n, <1>b
  <2>2. k \in CallRec /\ k.op = "create" /\ k.work = <<>> /\ k.pc = "number"
    BY <2>1 DEF CallRec, Pcs
  <2> QED
    BY <1>3, <2>2 DEF BeginCreate, Calling, Fit
<1>4. CASE BeginReset(c)
  <2> DEFINE b == Begins("reset", NoOne, 0)
             k == [b EXCEPT !.pc = "files"]
  <2>1. b \in CallRec /\ b.op = "reset" /\ b.work = <<>>
    BY <1>n, <1>b
  <2>2. k \in CallRec /\ k.op = "reset" /\ k.work = <<>> /\ k.pc = "files"
    BY <2>1 DEF CallRec, Pcs
  <2> QED
    BY <1>4, <2>2 DEF BeginReset, Calling, Fit
<1>5. ASSUME NEW i \in Ids, BeginDelete(c, i)
      PROVE  \E k : Goes(c, k) /\ Calling(k)
  <2> DEFINE b == Begins("delete", NoOne, i)
             k == [b EXCEPT !.pc = "mark", !.n = i]
  <2>1. b \in CallRec /\ b.op = "delete" /\ b.work = <<>> /\ b.id = i
    BY <1>n, <1>b
  <2>2. /\ k \in CallRec /\ k.op = "delete" /\ k.work = <<>> /\ k.pc = "mark"
        /\ k.id = i
    BY <1>n, <2>1 DEF CallRec, Pcs
  <2> QED
    BY <1>5, <2>2 DEF BeginDelete, Calling, Fit
<1>6. ASSUME NEW a \in Agents, BeginUnassign(c, a)
      PROVE  \E k : Goes(c, k) /\ Calling(k)
  <2> DEFINE b == Begins("unassign", a, 0)
             k == [b EXCEPT !.pc = "list", !.unread = Existing]
  <2>1. b \in CallRec /\ b.op = "unassign" /\ b.work = <<>>
    BY <1>n, BeginsType DEF Ops, Updaters
  <2>2. k \in CallRec /\ k.op = "unassign" /\ k.work = <<>> /\ k.pc = "list"
    BY <2>1 DEF CallRec, Pcs, Existing
  <2> QED
    BY <1>6, <2>2 DEF BeginUnassign, Calling, Fit, Listing
<1>7. ASSUME NEW i \in Ids, NEW j \in Ids, BeginBlock(c, i, j)
      PROVE  \E k : Goes(c, k) /\ Calling(k)
  <2> DEFINE b == Begins("block", NoOne, i)
             b2 == [b EXCEPT !.other = j]
             k == [b2 EXCEPT !.pc = "list", !.unread = {i, j}]
  <2>1. b \in CallRec /\ b.op = "block" /\ b.work = <<>>
    BY <1>n, <1>b
  <2>2. b2 \in CallRec /\ b2.op = "block" /\ b2.work = <<>>
    BY <1>n, <2>1 DEF CallRec
  <2>3. k \in CallRec /\ k.op = "block" /\ k.work = <<>> /\ k.pc = "list"
    BY <2>2 DEF CallRec, Pcs
  <2> QED
    BY <1>7, <2>3 DEF BeginBlock, Calling, Fit, Listing
<1>8. ASSUME NEW op \in Updaters \cup {"claim"}, NEW a \in Agents \cup {NoOne},
             NEW u \in Updates
      PROVE  Calling(Turning([Begins(op, a, 0) EXCEPT !.work = <<u>>]))
  <2> DEFINE k == [Begins(op, a, 0) EXCEPT !.work = <<u>>]
  <2>1. <<u>> \in Seq(Updates) /\ op \in Ops
    BY DEF Ops
  <2>2. Begins(op, a, 0) \in CallRec /\ Begins(op, a, 0).op = op
    BY <1>n, <2>1, BeginsType
  <2>3. k \in CallRec /\ k.op = op
    BY <2>1, <2>2 DEF CallRec
  <2> QED
    BY <2>3, TurningType
<1>9. ASSUME NEW i \in Ids, BeginComplete(c, i)
      PROVE  \E k : Goes(c, k) /\ Calling(k)
  <2>1. Update(i, [status |-> "completed"]) \in Updates
    BY DEF Update, Updates, Patches, Status
  <2> QED
    BY <1>8, <1>9, <2>1 DEF BeginComplete, Updaters
<1>10. ASSUME NEW i \in Ids, NEW a \in Agents,
              BeginClaim(c, i, a) \/ BeginAssign(c, i, a)
       PROVE  \E k : Goes(c, k) /\ Calling(k)
  <2>1. Update(i, [owner |-> a]) \in Updates
    BY DEF Update, Updates, Patches
  <2> QED
    BY <1>8, <1>10, <2>1 DEF BeginClaim, BeginAssign, Updaters
<1>11. ASSUME NEW i \in Ids, NEW a \in Agents, BeginStart(c, i, a)
       PROVE  \E k : Goes(c, k) /\ Calling(k)
  <2> DEFINE u == Update(i, IF task[i].owner = NoOne
                            THEN [status |-> "in_progress", owner |-> a]
                            ELSE [status |-> "in_progress"])
  <2>1. u \in Updates
    BY DEF Update, Updates, Patches, Status
  <2> QED
    BY <1>8, <1>11, <2>1 DEF BeginStart, Updaters
<1> QED
  BY <1>3, <1>4, <1>5, <1>6, <1>7, <1>9, <1>10, <1>11 DEF Begin

\* What is known of the record of a call that moves.
LEMMA CallType ==
    ASSUME TypeInv, NEW c \in Calls
    PROVE  call[c] \in CallRec /\ Fit(call[c])
BY DEF TypeInv, CallsOK

LEMMA UnchangedState ==
    ASSUME TypeInv, UNCHANGED <<files, locks, history>>
    PROVE  StateOK'
BY DEF TypeInv, StateOK, files, locks, history

LEMMA ListOneType ==
    ASSUME TypeInv, NEW c \in Calls, NEW i \in Ids, ListOne(c, i)
    PROVE  StateOK' /\ CallsOK(call')
<1> DEFINE k == call[c]
           list == IF ~Readable(i) THEN k.list
                   ELSE [j \in DOMAIN k.list \cup {i} |->
                           IF j = i THEN task[i] ELSE k.list[j]]
           m == [k EXCEPT !.unread = @ \ {i}, !.list = list]
<1>1. k \in CallRec /\ Fit(k)
  BY CallType
<1>2. list \in Lists
  <2>1. k.list \in Lists /\ task[i] \in Task
    BY <1>1 DEF CallRec, TypeInv
  <2> QED
    BY <2>1, ListType
<1>3. /\ m \in CallRec /\ m.op = k.op /\ m.pc = k.pc /\ m.work = k.work
      /\ m.id = k.id
  BY <1>1, <1>2 DEF CallRec
<1>4. Calling(m)
  BY <1>1, <1>3 DEF Calling, Fit
<1>5. Goes(c, m)
  BY DEF ListOne
<1> QED
  BY <1>4, <1>5, GoesType, UnchangedState DEF ListOne, TypeInv

LEMMA ClaimChecksType ==
    ASSUME TypeInv, NEW c \in Calls, ClaimChecks(c)
    PROVE  StateOK' /\ CallsOK(call')
<1> DEFINE k == call[c]
           m == [k EXCEPT !.pc = "read", !.list = Idle.list, !.read = NewTask,
                          !.missed = k.read.blockedBy \ DOMAIN k.list]
<1>1. k \in CallRec /\ Fit(k) /\ k.op = "claim" /\ k.work # <<>>
  BY CallType DEF ClaimChecks, Fit, Updaters
<1>2. Idle.list \in Lists /\ NewTask \in Task
  BY IdleType DEF CallRec, Idle
<1>3. k.read.blockedBy \ DOMAIN k.list \in SUBSET Ids
  BY <1>1 DEF CallRec, Task
<1>4. m \in CallRec /\ m.op = "claim" /\ m.pc = "read" /\ m.work = k.work
  BY <1>1, <1>2, <1>3 DEF CallRec, Pcs
<1>5. Calling(m)
  BY <1>1, <1>4 DEF Calling, Fit
<1>6. CallsOK(call')
  BY <1>5, IdleType, GoesType DEF ClaimChecks, TypeInv
<1>7. lock' \in [Ids -> Calls \cup {NoCall}]
  BY DEF ClaimChecks, Unlocked, TypeInv
<1> QED
  BY <1>6, <1>7 DEF ClaimChecks, TypeInv, StateOK, files, history

LEMMA UnassignListedType ==
    ASSUME TypeInv, NEW c \in Calls, UnassignListed(c)
    PROVE  StateOK' /\ CallsOK(call')
<1> DEFINE k == call[c]
           mine == {i \in Unresolved(k.list) : k.list[i].owner = k.agent}
           p == [owner |-> NoOne, status |-> "pending"]
<1>1. k \in CallRec /\ mine \in SUBSET Ids
  BY CallType, ListType DEF CallRec, Unresolved
<1>2. PICK work \in UpdatesOf(mine, LAMBDA i : Update(i, p)) :
         Goes(c, Updating(k, "unassign", work))
  BY DEF UnassignListed
<1>3. PICK ids \in SetToSeqs(mine) :
         work = [m \in 1 .. Len(ids) |-> Update(ids[m], p)]
  BY <1>2 DEF UpdatesOf
<1>4. Len(ids) \in Nat /\ \A m \in 1 .. Len(ids) : ids[m] \in Ids
  BY <1>1, SetToSeqsType
<1>5. \A i \in Ids : Update(i, p) \in Updates
  BY DEF Update, Updates, Patches, Status
<1>6. work \in Seq(Updates)
  BY <1>3, <1>4, <1>5
<1>7. Calling(Updating(k, "unassign", work))
  BY <1>1, <1>6, UpdatingType DEF Updaters
<1> QED
  BY <1>2, <1>7, GoesType, UnchangedState DEF UnassignListed, TypeInv

LEMMA DeleteListedType ==
    ASSUME TypeInv, NEW c \in Calls, DeleteListed(c)
    PROVE  StateOK' /\ CallsOK(call')
<1> DEFINE k == call[c]
           d == k.id
           linked == {i \in DOMAIN k.list :
                        d \in k.list[i].blocks \cup k.list[i].blockedBy}
           p(i) == [blocks |-> k.list[i].blocks \ {d},
                    blockedBy |-> k.list[i].blockedBy \ {d}]
<1>1. k \in CallRec /\ linked \in SUBSET Ids
  BY CallType, ListType DEF CallRec
<1>2. PICK work \in UpdatesOf(linked, LAMBDA i : Update(i, p(i))) :
         Goes(c, Updating(k, "update", work))
  BY DEF DeleteListed
<1>3. PICK ids \in SetToSeqs(linked) :
         work = [m \in 1 .. Len(ids) |-> Update(ids[m], p(ids[m]))]
  BY <1>2 DEF UpdatesOf
<1>4. Len(ids) \in Nat /\ \A m \in 1 .. Len(ids) : ids[m] \in linked
  BY <1>1, SetToSeqsType
<1>5. ASSUME NEW i \in linked PROVE Update(i, p(i)) \in Updates
  <2>1. i \in Ids /\ k.list[i] \in Task
    BY <1>1, ListType DEF CallRec
  <2>2. p(i) \in [blocks : SUBSET Ids, blockedBy : SUBSET Ids]
    BY <2>1 DEF Task
  <2> QED
    BY <2>1, <2>2 DEF Update, Updates, Patches
<1>6. work \in Seq(Updates)
  BY <1>3, <1>4, <1>5
<1>7. Calling(Updating(k, "update", work))
  BY <1>1, <1>6, UpdatingType DEF Updaters
<1> QED
  BY <1>2, <1>7, GoesType, UnchangedState DEF DeleteListed, TypeInv

LEMMA BlockListedType ==
    ASSUME TypeInv, NEW c \in Calls, BlockListed(c)
    PROVE  StateOK' /\ CallsOK(call')
<1> DEFINE k == call[c]
           i == k.id
           j == k.other
           pi == [blocks |-> k.list[i].blocks \cup {j}]
           pj == [blockedBy |-> k.list[j].blockedBy \cup {i}]
           wi == IF j \in k.list[i].blocks THEN <<>> ELSE <<Update(i, pi)>>
           wj == IF i \in k.list[j].blockedBy THEN <<>> ELSE <<Update(j, pj)>>
           m == IF {i, j} \subseteq DOMAIN k.list
                THEN Updating(k, "update", wi \o wj) ELSE Over
<1>1. k \in CallRec
  BY CallType
<1>2. ASSUME {i, j} \subseteq DOMAIN k.list
      PROVE  wi \o wj \in Seq(Updates)
  <2>1. i \in Ids /\ j \in Ids /\ k.list[i] \in Task /\ k.list[j] \in Task
    BY <1>1, <1>2, ListType DEF CallRec
  <2>2. /\ pi \in [blocks : SUBSET Ids] /\ pj \in [blockedBy : SUBSET Ids]
    BY <2>1 DEF Task
  <2>3. Update(i, pi) \in Updates /\ Update(j, pj) \in Updates
    BY <2>1, <2>2 DEF Update, Updates, Patches
  <2>4. wi \in Seq(Updates) /\ wj \in Seq(Updates)
    BY <2>3
  <2> QED
    BY <2>4
<1>3. Calling(m)
  BY <1>1, <1>2, UpdatingType, IdleType DEF Updaters
<1>4. Goes(c, m)
  BY DEF BlockListed
<1> QED
  BY <1>3, <1>4, GoesType, UnchangedState DEF BlockListed, TypeInv

LEMMA NotFoundType ==
    ASSUME TypeInv, NEW c \in Calls, NotFound(c)
    PROVE  StateOK' /\ CallsOK(call')
<1>1. /\ call[c] \in CallRec /\ Fit(call[c]) /\ call[c].work # <<>>
      /\ call[c].op \in Updaters \cup {"claim"}
  BY CallType DEF NotFound, Fit
<1>2. \E k : Goes(c, k) /\ Calling(k)
  BY <1>1, IdleType, NextUpdateType DEF NotFound
<1> QED
  BY <1>2, GoesType, UnchangedState DEF NotFound, TypeInv

LEMMA LockType ==
    ASSUME TypeInv, NEW c \in Calls, Lock(c)
    PROVE  StateOK' /\ CallsOK(call')
<1> DEFINE k == call[c]
           i == Target(k)
           r == [k EXCEPT !.read = task[i]]
           ml == [r EXCEPT !.pc = "list", !.unread = task[i].blockedBy \cap Existing]
           mo == [k EXCEPT !.pc = "open", !.read = task[i]]
<1>1. /\ k \in CallRec /\ Fit(k) /\ k.work # <<>> /\ i \in Ids
      /\ k.op \in Updaters \cup {"claim"}
  BY CallType, TargetType DEF Lock, Fit
<1>2. task[i] \in Task
  BY <1>1 DEF TypeInv
<1>3. r \in CallRec /\ r.op = k.op /\ r.work = k.work
  BY <1>1, <1>2 DEF CallRec
<1>4. ml \in CallRec /\ ml.op = k.op /\ ml.work = k.work /\ ml.pc = "list"
  BY <1>3 DEF CallRec, Pcs, Existing
<1>5. mo \in CallRec /\ mo.op = k.op /\ mo.work = k.work /\ mo.pc = "open"
  BY <1>1, <1>2 DEF CallRec, Pcs
<1>6. k.op = "claim" => Calling(ml)
  BY <1>1, <1>4 DEF Calling, Fit
<1>7. k.op # "claim" => Calling(mo)
  BY <1>1, <1>5 DEF Calling, Fit
<1>8. Goes(c, Over) \/ (k.op = "claim" /\ Goes(c, ml)) \/ (k.op # "claim" /\ Goes(c, mo))
  BY DEF Lock, Listing
<1>9. lock' \in [Ids -> Calls \cup {NoCall}]
  BY DEF Lock, TypeInv
<1>10. CallsOK(call')
  BY <1>6, <1>7, <1>8, IdleType, GoesType DEF TypeInv
<1> QED
  BY <1>9, <1>10 DEF Lock, TypeInv, StateOK, files, history

LEMMA ContinuesType ==
    ASSUME TypeInv, NEW c \in Calls, call[c].work # <<>>,
           call[c].op \in Updaters \cup {"claim"}, Continues(c, call[c])
    PROVE  CallsOK(call')
<1>1. call[c] \in CallRec
  BY CallType
<1>2. \E k : Goes(c, k) /\ Calling(k)
  BY <1>1, AfterClaimType, NextUpdateType DEF Continues
<1> QED
  BY <1>2, GoesType DEF TypeInv

LEMMA ReadType ==
    ASSUME TypeInv, NEW c \in Calls, Read(c)
    PROVE  StateOK' /\ CallsOK(call')
<1> DEFINE k == call[c]
           i == Target(k)
           m == [k EXCEPT !.pc = "open", !.read = task[i]]
<1>1. k \in CallRec /\ Fit(k) /\ k.op = "claim" /\ k.work # <<>> /\ i \in Ids
  BY CallType, TargetType DEF Read, Fit
<1>2. m \in CallRec /\ m.op = k.op /\ m.work = k.work /\ m.pc = "open"
  BY <1>1 DEF CallRec, Pcs, TypeInv
<1>3. Calling(m)
  BY <1>1, <1>2 DEF Calling, Fit
<1>4. CallsOK(call')
  BY <1>1, <1>3, ContinuesType, GoesType DEF Read, TypeInv
<1>5. lock' \in [Ids -> Calls \cup {NoCall}]
  BY <1>1 DEF Read, Unlocked, TypeInv
<1> QED
  BY <1>4, <1>5 DEF Read, TypeInv, StateOK, files, history

LEMMA OpenType ==
    ASSUME TypeInv, NEW c \in Calls, Open(c)
    PROVE  StateOK' /\ CallsOK(call')
<1> DEFINE k == call[c]
           m == [k EXCEPT !.pc = "write"]
<1>1. k \in CallRec /\ Fit(k) /\ k.work # <<>> /\ k.op \in Updaters \cup {"claim"}
  BY CallType DEF Open, Fit
<1>2. m \in CallRec /\ m.op = k.op /\ m.work = k.work /\ m.pc = "write"
  BY <1>1 DEF CallRec, Pcs
<1>3. Calling(m)
  BY <1>1, <1>2 DEF Calling, Fit
<1>4. CallsOK(call')
  BY <1>3, GoesType DEF Open, TypeInv
<1>5. file' \in [Ids -> {"absent", "torn", "whole"}]
  BY DEF Open, TypeInv
<1> QED
  BY <1>4, <1>5 DEF Open, TypeInv, StateOK, locks, history

LEMMA WriteType ==
    ASSUME TypeInv, NEW c \in Calls, Write(c)
    PROVE  StateOK' /\ CallsOK(call')
<1> DEFINE k == call[c]
           i == Target(k)
           p == Head(k.work).patch
           t == Patched(k.read, p)
<1>1. k \in CallRec /\ Fit(k) /\ k.work # <<>> /\ k.op \in Updaters \cup {"claim"}
  BY CallType DEF Write, Fit
<1>2. i \in Ids /\ p \in Patches /\ k.read \in Task
  BY <1>1, TargetType DEF CallRec
<1>3. t \in Task
  BY <1>2, PatchedType
<1>4. CallsOK(call')
  BY <1>1, ContinuesType DEF Write
<1>5. lock' \in [Ids -> Calls \cup {NoCall}]
  BY DEF Write, Unlocked, TypeInv
<1>6. (k.op = "claim" \/ k.op = "assign" \/ k.op = "start") =>
         k.agent \in Agents \cup {NoOne}
  BY <1>1 DEF CallRec
<1>7. file' \in [Ids -> {"absent", "torn", "whole"}] /\ task' \in [Ids -> Task]
  BY <1>2, <1>3 DEF Write, TypeInv
<1>8. snatched' \in SUBSET Ids /\ reopened' \in SUBSET Ids
  BY <1>2 DEF Write, TypeInv
<1>9. claimed' \in [Ids -> SUBSET (Agents \cup {NoOne})]
  <2>1. Holders(k, i, t) \in SUBSET (Agents \cup {NoOne})
    BY <1>2, <1>6 DEF TypeInv, Holders
  <2> QED
    BY <2>1 DEF Write, TypeInv
<1> QED
  BY <1>4, <1>5, <1>7, <1>8, <1>9 DEF Write, TypeInv, StateOK

LEMMA ReadNumbersType ==
    ASSUME TypeInv, NEW c \in Calls, ReadNumbers(c)
    PROVE  StateOK' /\ CallsOK(call')
<1> DEFINE k == call[c]
<1>1. k \in CallRec /\ Fit(k)
  BY CallType
<1>2. \A n \in 0 .. MaxId, pc \in {"mark", "open_new", "clear", "files"} :
        /\ [k EXCEPT !.n = n, !.pc = pc] \in CallRec
        /\ [k EXCEPT !.n = n, !.pc = pc].op = k.op
        /\ [k EXCEPT !.n = n, !.pc = pc].work = k.work
        /\ [k EXCEPT !.n = n, !.pc = pc].pc = pc
  BY <1>1 DEF CallRec, Pcs
<1>3. /\ k.work = <<>> /\ k.op \in {"create", "reset"}
      /\ k.op = "reset" => k.pc = "files"
  BY <1>1 DEF ReadNumbers, Fit, Updaters
<1>4. ASSUME NEW n \in 0 .. MaxId, NEW pc \in {"mark", "open_new", "clear", "files"},
             pc = "clear" => k.op = "reset", pc = "open_new" => k.op = "create"
      PROVE  Calling([k EXCEPT !.n = n, !.pc = pc])
  BY <1>2, <1>3, <1>4 DEF Calling, Fit
<1>5. \E n \in 0 .. MaxId, pc \in {"mark", "open_new", "clear", "files"} :
        /\ pc = "clear" => k.op = "reset"
        /\ pc = "open_new" => k.op = "create"
        /\ Goes(c, [k EXCEPT !.n = n, !.pc = pc])
  <2>1. CASE k.pc \in {"number", "files"}
    <3>1. CASE /\ k.pc = "number" /\ Goes(c, [k EXCEPT !.n = mark, !.pc = "files"])
      BY <3>1 DEF TypeInv
    <3>2. CASE ~(k.pc = "number" /\ Goes(c, [k EXCEPT !.n = mark, !.pc = "files"]))
      <4> DEFINE pc(h) == IF k.op = "reset"
                          THEN IF h = 0 THEN "clear" ELSE "mark"
                          ELSE IF k.pc = "number" THEN "mark" ELSE "open_new"
      <4>1. PICK h \in 0 .. MaxId : Goes(c, [k EXCEPT !.n = h, !.pc = pc(h)])
        BY <2>1, <3>2 DEF ReadNumbers
      <4>2. pc(h) \in {"mark", "open_new", "clear", "files"}
        OBVIOUS
      <4>3. /\ pc(h) = "clear" => k.op = "reset"
            /\ pc(h) = "open_new" => k.op = "create"
        BY <1>3
      <4> HIDE DEF pc
      <4> QED
        BY <4>1, <4>2, <4>3
    <3> QED
      BY <3>1, <3>2
  <2>2. CASE k.pc = "mark" /\ k.op = "create"
    <3>1. k.n \in 0 .. MaxId /\ mark \in 0 .. MaxId
      BY <1>1 DEF CallRec, TypeInv
    <3>2. Goes(c, [k EXCEPT !.n = IF mark > @ THEN mark ELSE @, !.pc = "open_new"])
      BY <2>2 DEF ReadNumbers
    <3> QED
      BY <2>2, <3>1, <3>2
  <2> QED
    BY <2>1, <2>2 DEF ReadNumbers
<1> QED
  BY <1>4, <1>5, GoesType, UnchangedState DEF ReadNumbers, TypeInv

LEMMA OpenNewType ==
    ASSUME TypeInv, NEW c \in Calls, OpenNew(c)
    PROVE  StateOK' /\ CallsOK(call')
<1> DEFINE k == call[c]
           i == k.n + 1
           m == [k EXCEPT !.pc = "write", !.id = i]
<1>1. k \in CallRec /\ Fit(k) /\ k.op = "create" /\ k.work = <<>> /\ i \in Ids
  BY CallType DEF OpenNew, Fit, Updaters
<1>2. i \in 0 .. MaxId
  BY <1>1, TaskListConstants DEF TaskListConstants, Ids
<1>3. /\ m \in CallRec /\ m.op = "create" /\ m.work = <<>> /\ m.pc = "write"
      /\ m.id \in Ids
  BY <1>1, <1>2 DEF CallRec, Pcs
<1>4. CallsOK(call')
  BY <1>3, GoesType DEF OpenNew, TypeInv, Calling, Fit
<1>5. file' \in [Ids -> {"absent", "torn", "whole"}] /\ claimed' \in [Ids -> SUBSET (Agents \cup {NoOne})]
  BY DEF OpenNew, TypeInv
<1>6. issued' \in SUBSET Ids /\ reused' \in SUBSET Ids
  BY DEF OpenNew, TypeInv
<1> QED
  BY <1>4, <1>5, <1>6 DEF OpenNew, TypeInv, StateOK, locks

LEMMA WriteNewType ==
    ASSUME TypeInv, NEW c \in Calls, WriteNew(c)
    PROVE  StateOK' /\ CallsOK(call')
<1>1. CallsOK(call')
  BY IdleType, GoesType DEF WriteNew, TypeInv
<1>2. NewTask \in Task
  BY DEF NewTask, Task, Status
<1>3. file' \in [Ids -> {"absent", "torn", "whole"}] /\ task' \in [Ids -> Task]
  BY <1>2 DEF WriteNew, TypeInv
<1> QED
  BY <1>1, <1>3 DEF WriteNew, TypeInv, StateOK, history

LEMMA AfterMarkType ==
    ASSUME NEW k \in CallRec, k.op \in {"delete", "reset"}, Fit(k)
    PROVE  Calling(AfterMark(k))
<1>1. k.work = <<>> /\ (k.op = "delete" => k.id \in Ids)
  BY DEF Fit, Updaters
<1>2. 0 \in 0 .. MaxId
  BY TaskListConstants DEF TaskListConstants
<1>3. /\ AfterMark(k) \in CallRec /\ AfterMark(k).op = k.op
      /\ AfterMark(k).work = k.work /\ AfterMark(k).id = k.id
      /\ AfterMark(k).pc = IF k.op = "delete" THEN "unlink" ELSE "clear"
  BY <1>2 DEF AfterMark, CallRec, Pcs
<1> QED
  BY <1>1, <1>3 DEF Calling, Fit

LEMMA ReadMarkType ==
    ASSUME TypeInv, NEW c \in Calls, ReadMark(c)
    PROVE  StateOK' /\ CallsOK(call')
<1> DEFINE k == call[c]
           m == [k EXCEPT !.pc = "open_mark"]
<1>1. k \in CallRec /\ Fit(k) /\ k.op \in {"delete", "reset"} /\ k.work = <<>>
  BY CallType DEF ReadMark, Fit, Updaters
<1>2. /\ m \in CallRec /\ m.op = k.op /\ m.work = k.work /\ m.pc = "open_mark"
      /\ m.id = k.id
  BY <1>1 DEF CallRec, Pcs
<1>3. Calling(m)
  BY <1>1, <1>2 DEF Calling, Fit
<1>4. CallsOK(call')
  BY <1>1, <1>3, AfterMarkType, GoesType DEF ReadMark, TypeInv
<1> QED
  BY <1>4, UnchangedState DEF ReadMark

LEMMA WriteMarkType ==
    ASSUME TypeInv, NEW c \in Calls, WriteMark(c)
    PROVE  StateOK' /\ CallsOK(call')
<1> DEFINE k == call[c]
           m == [k EXCEPT !.pc = "write_mark"]
<1>1. k \in CallRec /\ Fit(k) /\ k.op \in {"delete", "reset"} /\ k.work = <<>>
  BY CallType DEF WriteMark, Fit, Updaters
<1>2. /\ m \in CallRec /\ m.op = k.op /\ m.work = k.work /\ m.pc = "write_mark"
      /\ m.id = k.id
  BY <1>1 DEF CallRec, Pcs
<1>3. Calling(m)
  BY <1>1, <1>2 DEF Calling, Fit
<1>4. CallsOK(call')
  BY <1>1, <1>3, AfterMarkType, GoesType DEF WriteMark, TypeInv
<1>5. mark' \in 0 .. MaxId
  BY <1>1, TaskListConstants DEF WriteMark, CallRec, TaskListConstants
<1> QED
  BY <1>4, <1>5 DEF WriteMark, TypeInv, StateOK, locks, history

LEMMA UnlinkedType ==
    ASSUME NEW cs, CallsOK(cs), NEW i
    PROVE  CallsOK(Unlinked(cs, i))
<1> SUFFICES ASSUME NEW c \in Calls
             PROVE  LET m == Unlinked(cs, i)[c] IN m \in CallRec /\ Fit(m)
  BY DEF CallsOK, Unlinked
<1> DEFINE k == cs[c]
           m == [k EXCEPT !.ghost = TRUE]
<1>1. k \in CallRec /\ Fit(k)
  BY DEF CallsOK
<1>2. /\ m \in CallRec /\ m.op = k.op /\ m.pc = k.pc /\ m.work = k.work
      /\ m.id = k.id
  BY <1>1 DEF CallRec
<1>3. Fit(m)
  BY <1>1, <1>2 DEF Fit
<1> QED
  BY <1>1, <1>2, <1>3 DEF Unlinked

LEMMA UnlinkState ==
    ASSUME TypeInv, NEW i, Unlink(i)
    PROVE  /\ file' \in [Ids -> {"absent", "torn", "whole"}]
           /\ task' \in [Ids -> Task] /\ claimed' \in [Ids -> SUBSET (Agents \cup {NoOne})]
<1>1. NewTask \in Task
  BY DEF NewTask, Task, Status
<1> QED
  BY <1>1 DEF Unlink, TypeInv

LEMMA DeleteUnlinksType ==
    ASSUME TypeInv, NEW c \in Calls, DeleteUnlinks(c)
    PROVE  StateOK' /\ CallsOK(call')
<1> DEFINE k == call[c]
           m == [k EXCEPT !.pc = "list", !.unread = Existing \ {k.id}]
<1>1. k \in CallRec /\ Fit(k) /\ k.op = "delete" /\ k.work = <<>> /\ k.id \in Ids
  BY CallType DEF DeleteUnlinks, Fit
<1>2. /\ m \in CallRec /\ m.op = k.op /\ m.work = k.work /\ m.pc = "list"
      /\ m.id = k.id
  BY <1>1 DEF CallRec, Pcs, Existing
<1>3. CallsOK([call EXCEPT ![c] = m])
  BY <1>1, <1>2 DEF CallsOK, Fit, TypeInv
<1>4. \/ Goes(c, Over)
      \/ call' = Unlinked([call EXCEPT ![c] = m], k.id)
  BY DEF DeleteUnlinks, Listing
<1>5. CallsOK(call')
  BY <1>3, <1>4, UnlinkedType, IdleType, GoesType DEF TypeInv
<1>6. \/ UNCHANGED <<file, task, claimed>> \/ Unlink(k.id)
  BY DEF DeleteUnlinks
<1> QED
  BY <1>5, <1>6, UnlinkState DEF DeleteUnlinks, TypeInv, StateOK, locks

LEMMA ResetType ==
    ASSUME TypeInv, NEW c \in Calls,
           ResetClears(c) \/ ResetEnds(c) \/ \E i \in Ids : ResetUnlinks(c, i)
    PROVE  StateOK' /\ CallsOK(call')
<1> DEFINE k == call[c]
<1>1. k \in CallRec /\ Fit(k)
  BY CallType
<1>2. CASE ResetClears(c)
  <2> DEFINE m == [k EXCEPT !.pc = "sweep", !.unread = Existing]
  <2>1. k.op = "reset" /\ k.work = <<>>
    BY <1>1, <1>2 DEF ResetClears, At, Fit
  <2>2. m \in CallRec /\ m.op = k.op /\ m.work = k.work /\ m.pc = "sweep"
    BY <1>1 DEF CallRec, Pcs, Existing
  <2>3. Calling(m)
    BY <2>1, <2>2 DEF Calling, Fit
  <2> QED
    BY <1>2, <2>3, GoesType, UnchangedState DEF ResetClears, TypeInv
<1>3. CASE ResetEnds(c)
  <2>1. CallsOK(call')
    BY <1>3, IdleType, GoesType DEF ResetEnds, TypeInv
  <2> QED
    BY <1>3, <2>1 DEF ResetEnds, TypeInv, StateOK, files, history
<1>4. ASSUME NEW i \in Ids, ResetUnlinks(c, i)
      PROVE  StateOK' /\ CallsOK(call')
  <2> DEFINE m == [k EXCEPT !.unread = @ \ {i}]
  <2>1. /\ m \in CallRec /\ m.op = k.op /\ m.work = k.work /\ m.pc = k.pc
        /\ m.id = k.id
    BY <1>1 DEF CallRec
  <2>2. Fit(m)
    BY <1>1, <2>1 DEF Fit
  <2>3. CallsOK([call EXCEPT ![c] = m])
    BY <2>1, <2>2 DEF CallsOK, TypeInv
  <2>4. call' = Unlinked([call EXCEPT ![c] = m], i)
    BY <1>4 DEF ResetUnlinks, TypeInv, CallsOK
  <2>5. CallsOK(call')
    BY <2>3, <2>4, UnlinkedType
  <2> QED
    BY <1>4, <2>5, UnlinkState DEF ResetUnlinks, TypeInv, StateOK, locks
<1> QED
  BY <1>2, <1>3, <1>4

LEMMA DiesType ==
    ASSUME TypeInv, NEW c \in Calls, Dies(c)
    PROVE  StateOK' /\ CallsOK(call')
<1>1. CallsOK(call')
  BY IdleType, GoesType DEF Dies, TypeInv
<1>2. lock' \in [Ids -> Calls \cup {NoCall}]
  BY DEF Dies, TypeInv
<1> QED
  BY <1>1, <1>2 DEF Dies, TypeInv, StateOK, files, history

LEMMA TypeStep == TypeInv /\ [Next]_vars => TypeInv'
<1> SUFFICES ASSUME TypeInv, [Next]_vars PROVE TypeInv'
  OBVIOUS
<1>1. CASE UNCHANGED vars
  BY <1>1 DEF TypeInv, CallsOK, vars, files, locks, history
<1>2. ASSUME NEW c \in Calls, Step(c) PROVE StateOK' /\ CallsOK(call')
  <2>1. CASE Begin(c)
    BY <2>1, BeginType
  <2>2. CASE \E i \in Ids : ListOne(c, i)
    BY <2>2, ListOneType
  <2>3. CASE ClaimChecks(c)
    BY <2>3, ClaimChecksType
  <2>4. CASE UnassignListed(c)
    BY <2>4, UnassignListedType
  <2>5. CASE BlockListed(c)
    BY <2>5, BlockListedType
  <2>6. CASE DeleteListed(c)
    BY <2>6, DeleteListedType
  <2>7. CASE NotFound(c)
    BY <2>7, NotFoundType
  <2>8. CASE Lock(c)
    BY <2>8, LockType
  <2>9. CASE Read(c)
    BY <2>9, ReadType
  <2>10. CASE Open(c)
    BY <2>10, OpenType
  <2>11. CASE Write(c)
    BY <2>11, WriteType
  <2>12. CASE ReadNumbers(c)
    BY <2>12, ReadNumbersType
  <2>13. CASE OpenNew(c)
    BY <2>13, OpenNewType
  <2>14. CASE WriteNew(c)
    BY <2>14, WriteNewType
  <2>15. CASE ReadMark(c)
    BY <2>15, ReadMarkType
  <2>16. CASE WriteMark(c)
    BY <2>16, WriteMarkType
  <2>17. CASE DeleteUnlinks(c)
    BY <2>17, DeleteUnlinksType
  <2>18. CASE ResetClears(c) \/ ResetEnds(c) \/ \E i \in Ids : ResetUnlinks(c, i)
    BY <2>18, ResetType
  <2> QED
    BY <1>2, <2>1, <2>2, <2>3, <2>4, <2>5, <2>6, <2>7, <2>8, <2>9, <2>10, <2>11,
       <2>12, <2>13, <2>14, <2>15, <2>16, <2>17, <2>18 DEF Step
<1>3. CASE Next
  <2>1. StateOK' /\ CallsOK(call')
    BY <1>2, <1>3, DiesType DEF Next
  <2>2. raced' \in BOOLEAN
    BY <1>3 DEF Next, TypeInv, Races, At
  <2> QED
    BY <2>1, <2>2 DEF StateOK, TypeInv
<1> QED
  BY <1>1, <1>3

-----------------------------------------------------------------------------
\* What the other calls see of a step of c, and what becomes of c itself.
Same(j, k) ==
    /\ j.op = k.op /\ j.pc = k.pc /\ j.agent = k.agent /\ j.id = k.id
    /\ j.work = k.work /\ j.read = k.read /\ j.list = k.list /\ j.n = k.n
    /\ j.missed = k.missed

OthersStay(c) == \A d \in Calls \ {c} : Same(call'[d], call[d])

\* The record k is over, or about to lock the task of its next update.
Turned(k, S) ==
    /\ k.op \in Updaters \cup {"claim", "none"} /\ k.pc \in {"over", "lock"}
    /\ Touched(k) \subseteq S
    /\ \A m \in DOMAIN k.work : Meant(k, k.work[m])
    /\ k.op = "claim" => k.list = <<>>

Known(c) == Touched(call[c]) \cup {i \in Ids : Readable(i)}

LEMMA GoesTo ==
    ASSUME TypeInv, NEW c \in Calls, NEW k, Goes(c, k)
    PROVE  call'[c] = k /\ OthersStay(c)
BY DEF TypeInv, CallsOK, Goes, OthersStay, Same

LEMMA OverTurned == \A S : Turned(Over, S)
BY DEF Over, Idle, Turned, Touched, Updaters

LEMMA TurningTurned ==
    ASSUME NEW k \in CallRec, k.op \in Updaters \cup {"claim"}, NEW S,
           Touched(k) \subseteq S, k.op = "claim" => k.list = <<>>,
           \A m \in DOMAIN k.work : Meant(k, k.work[m])
    PROVE  Turned(Turning(k), S)
<1>1. CASE k.work = <<>>
  BY <1>1, OverTurned DEF Turning
<1>2. CASE k.work # <<>>
  <2> DEFINE t == [k EXCEPT !.pc = "lock"]
  <2>1. /\ t.op = k.op /\ t.pc = "lock" /\ t.work = k.work /\ t.list = k.list
        /\ t.agent = k.agent
    BY DEF CallRec
  <2>2. Turning(k) = t
    BY <1>2 DEF Turning
  <2> HIDE DEF t
  <2> QED
    BY <2>1, <2>2 DEF Turned, Touched, Meant
<1> QED
  BY <1>1, <1>2

LEMMA NextUpdateTurned ==
    ASSUME NEW k \in CallRec, k.op \in Updaters, k.work # <<>>, NEW S,
           Touched(k) \subseteq S,
           \A m \in DOMAIN k.work : Meant(k, k.work[m])
    PROVE  Turned(NextUpdate(k), S)
<1> DEFINE t == [k EXCEPT !.work = Tail(@), !.read = NewTask, !.ghost = FALSE]
<1>1. NewTask \in Task
  BY DEF NewTask, Task, Status
<1>2. k.work \in Seq(Updates) /\ Tail(k.work) \in Seq(Updates)
  BY DEF CallRec
<1>3. /\ t \in CallRec /\ t.op = k.op /\ t.work = Tail(k.work) /\ t.list = k.list
      /\ t.agent = k.agent
  BY <1>1, <1>2 DEF CallRec
<1>4. \A m \in DOMAIN Tail(k.work) :
         m + 1 \in DOMAIN k.work /\ Tail(k.work)[m] = k.work[m + 1]
  BY <1>2
<1>5. Touched(t) \subseteq S /\ \A m \in DOMAIN t.work : Meant(t, t.work[m])
  <2> HIDE DEF t
  <2> QED
    BY <1>3, <1>4 DEF Touched, Meant
<1> QED
  BY <1>3, <1>5, TurningTurned DEF NextUpdate, Updaters

LEMMA ContinuesTurned ==
    ASSUME TypeInv, AllMeant, NEW c \in Calls, call[c].work # <<>>,
           call[c].op \in Updaters \cup {"claim"}, Continues(c, call[c])
    PROVE  Turned(call'[c], Known(c)) /\ OthersStay(c)
<1> DEFINE k == call[c]
<1>1. /\ k \in CallRec /\ Touched(k) \subseteq Known(c)
      /\ \A m \in DOMAIN k.work : Meant(k, k.work[m])
  BY CallType DEF AllMeant, Known
<1>2. CASE k.op # "claim"
  BY <1>1, <1>2, NextUpdateTurned, GoesTo DEF Continues
<1>3. CASE k.op = "claim"
  <2>1. PICK after \in AfterClaim(k) : Goes(c, after)
    BY <1>3 DEF Continues
  <2>2. Target(k) \in Touched(k) /\ Target(k) \in Ids
    <3>1. 1 \in DOMAIN k.work /\ Head(k.work) = k.work[1]
      BY <1>1 DEF CallRec
    <3> QED
      BY <1>1, <3>1, TargetType DEF Touched
  <2> DEFINE m(op, u) == [Idle EXCEPT !.op = op, !.agent = k.agent, !.work = <<u>>]
             us == Update(Target(k), [status |-> "in_progress"])
             ur == Update(Target(k), [owner |-> NoOne])
  <2>3. us \in Updates /\ ur \in Updates
    BY <2>2 DEF Update, Updates, Patches, Status
  <2>4. \A op \in Updaters, u \in Updates :
          /\ m(op, u) \in CallRec /\ m(op, u).op = op /\ m(op, u).work = <<u>>
          /\ m(op, u).list = <<>>
    <3> TAKE op \in Updaters, u \in Updates
    <3>1. <<u>> \in Seq(Updates) /\ op \in Ops /\ k.agent \in Agents \cup {NoOne}
      BY <1>1 DEF Ops, CallRec
    <3>2. Idle \in CallRec /\ Idle.list = <<>>
      BY IdleType DEF Idle
    <3> QED
      BY <3>1, <3>2 DEF CallRec
  <2>5. /\ Turned(Turning(m("update", us)), Known(c))
        /\ Turned(Turning(m("release", ur)), Known(c))
    <3> HIDE DEF m
    <3>1. \A op \in Updaters, u \in Updates :
            u.id = Target(k) => Touched(m(op, u)) \subseteq Known(c)
      BY <1>1, <2>2, <2>4 DEF Touched
    <3>2. us.id = Target(k) /\ ur.id = Target(k)
      BY DEF Update
    <3>3. \A j \in DOMAIN m("update", us).work :
             Meant(m("update", us), m("update", us).work[j])
      BY <2>3, <2>4 DEF Meant, Update, Updaters
    <3>4. \A j \in DOMAIN m("release", ur).work :
             Meant(m("release", ur), m("release", ur).work[j])
      BY <2>3, <2>4 DEF Meant, Update, Updaters
    <3> HIDE DEF us, ur
    <3>5. "update" \in Updaters /\ "release" \in Updaters
      BY DEF Updaters
    <3> QED
      BY <2>3, <2>4, <3>1, <3>2, <3>3, <3>4, <3>5, TurningTurned
  <2>6. Turned(after, Known(c))
    BY <2>5, OverTurned DEF AfterClaim
  <2> QED
    BY <2>1, <2>6, GoesTo
<1> QED
  BY <1>2, <1>3

LEMMA UpdatingTurned ==
    ASSUME NEW k \in CallRec, NEW op \in {"update", "unassign"},
           NEW work \in Seq(Updates), NEW S,
           \A m \in DOMAIN work :
              /\ work[m].id \in S
              /\ op = "update" => "owner" \notin DOMAIN work[m].patch
              /\ op = "unassign" => /\ "owner" \in DOMAIN work[m].patch
                                    /\ work[m].patch.owner = NoOne
    PROVE  Turned(Updating(k, op, work), S)
<1> DEFINE t == [Idle EXCEPT !.op = op, !.agent = k.agent, !.work = work]
<1>1. Idle \in CallRec /\ Idle.list = <<>>
  BY IdleType DEF Idle
<1>2. op \in Updaters /\ op \in Ops /\ k.agent \in Agents \cup {NoOne}
  BY DEF Updaters, Ops, CallRec
<1>3. t \in CallRec /\ t.op = op /\ t.work = work /\ t.list = <<>>
  BY <1>1, <1>2 DEF CallRec
<1>4. Touched(t) \subseteq S /\ \A m \in DOMAIN t.work : Meant(t, t.work[m])
  <2> HIDE DEF t
  <2> QED
    BY <1>3 DEF Touched, Meant
<1> QED
  BY <1>2, <1>3, <1>4, TurningTurned DEF Updating, Updaters

LEMMA UnassignListedTurned ==
    ASSUME TypeInv, NEW c \in Calls, UnassignListed(c)
    PROVE  Turned(call'[c], Known(c)) /\ OthersStay(c)
<1> DEFINE k == call[c]
           mine == {i \in Unresolved(k.list) : k.list[i].owner = k.agent}
           p == [owner |-> NoOne, status |-> "pending"]
<1>1. k \in CallRec /\ mine \in SUBSET Ids /\ mine \subseteq Known(c)
  BY CallType, ListType DEF CallRec, Unresolved, Known, Touched
<1>2. PICK work \in UpdatesOf(mine, LAMBDA i : Update(i, p)) :
         Goes(c, Updating(k, "unassign", work))
  BY DEF UnassignListed
<1>3. PICK ids \in SetToSeqs(mine) :
         work = [m \in 1 .. Len(ids) |-> Update(ids[m], p)]
  BY <1>2 DEF UpdatesOf
<1>4. Len(ids) \in Nat /\ \A m \in 1 .. Len(ids) : ids[m] \in mine
  BY <1>1, SetToSeqsType
<1>5. \A i \in Ids : /\ Update(i, p) \in Updates /\ Update(i, p).id = i
                     /\ "owner" \in DOMAIN Update(i, p).patch
                     /\ Update(i, p).patch.owner = NoOne
  BY DEF Update, Updates, Patches, Status
<1>6. /\ work \in Seq(Updates)
      /\ \A m \in DOMAIN work : /\ work[m].id \in Known(c)
                                /\ "owner" \in DOMAIN work[m].patch
                                /\ work[m].patch.owner = NoOne
  BY <1>1, <1>3, <1>4, <1>5
<1>7. Turned(Updating(k, "unassign", work), Known(c))
  BY <1>1, <1>6, UpdatingTurned
<1> QED
  BY <1>2, <1>7, GoesTo

LEMMA DeleteListedTurned ==
    ASSUME TypeInv, NEW c \in Calls, DeleteListed(c)
    PROVE  Turned(call'[c], Known(c)) /\ OthersStay(c)
<1> DEFINE k == call[c]
           d == k.id
           linked == {i \in DOMAIN k.list :
                        d \in k.list[i].blocks \cup k.list[i].blockedBy}
           p(i) == [blocks |-> k.list[i].blocks \ {d},
                    blockedBy |-> k.list[i].blockedBy \ {d}]
<1>1. k \in CallRec /\ linked \in SUBSET Ids /\ linked \subseteq Known(c)
  BY CallType, ListType DEF CallRec, Known, Touched
<1>2. PICK work \in UpdatesOf(linked, LAMBDA i : Update(i, p(i))) :
         Goes(c, Updating(k, "update", work))
  BY DEF DeleteListed
<1>3. PICK ids \in SetToSeqs(linked) :
         work = [m \in 1 .. Len(ids) |-> Update(ids[m], p(ids[m]))]
  BY <1>2 DEF UpdatesOf
<1>4. Len(ids) \in Nat /\ \A m \in 1 .. Len(ids) : ids[m] \in linked
  BY <1>1, SetToSeqsType
<1>5. ASSUME NEW i \in linked
      PROVE  /\ Update(i, p(i)) \in Updates /\ Update(i, p(i)).id = i
             /\ "owner" \notin DOMAIN Update(i, p(i)).patch
  <2>1. i \in Ids /\ k.list[i] \in Task
    BY <1>1, ListType DEF CallRec
  <2>2. /\ p(i) \in [blocks : SUBSET Ids, blockedBy : SUBSET Ids]
        /\ "owner" \notin DOMAIN p(i)
    BY <2>1 DEF Task
  <2> QED
    BY <2>1, <2>2 DEF Update, Updates, Patches
<1>6. /\ work \in Seq(Updates)
      /\ \A m \in DOMAIN work : /\ work[m].id \in Known(c)
                                /\ "owner" \notin DOMAIN work[m].patch
  <2> HIDE DEF linked, p
  <2>1. /\ DOMAIN work = 1 .. Len(ids)
        /\ \A m \in 1 .. Len(ids) : work[m] = Update(ids[m], p(ids[m]))
    BY <1>3
  <2>2. \A m \in 1 .. Len(ids) :
          /\ work[m] \in Updates /\ work[m].id \in Known(c)
          /\ "owner" \notin DOMAIN work[m].patch
    BY <1>1, <1>4, <1>5, <2>1
  <2>3. work \in [1 .. Len(ids) -> Updates]
    BY <1>3, <2>2
  <2> QED
    BY <1>4, <2>1, <2>2, <2>3
<1>7. Turned(Updating(k, "update", work), Known(c))
  BY <1>1, <1>6, UpdatingTurned
<1> QED
  BY <1>2, <1>7, GoesTo

LEMMA BlockListedTurned ==
    ASSUME TypeInv, NEW c \in Calls, BlockListed(c)
    PROVE  Turned(call'[c], Known(c)) /\ OthersStay(c)
<1> DEFINE k == call[c]
           i == k.id
           j == k.other
           pi == [blocks |-> k.list[i].blocks \cup {j}]
           pj == [blockedBy |-> k.list[j].blockedBy \cup {i}]
           wi == IF j \in k.list[i].blocks THEN <<>> ELSE <<Update(i, pi)>>
           wj == IF i \in k.list[j].blockedBy THEN <<>> ELSE <<Update(j, pj)>>
           m == IF {i, j} \subseteq DOMAIN k.list
                THEN Updating(k, "update", wi \o wj) ELSE Over
           W == {u \in Updates : u.id \in Known(c) /\ "owner" \notin DOMAIN u.patch}
<1>1. k \in CallRec
  BY CallType
<1>2. ASSUME {i, j} \subseteq DOMAIN k.list
      PROVE  /\ wi \o wj \in Seq(Updates)
             /\ \A h \in DOMAIN (wi \o wj) :
                   /\ (wi \o wj)[h].id \in Known(c)
                   /\ "owner" \notin DOMAIN (wi \o wj)[h].patch
  <2>1. i \in Ids /\ j \in Ids /\ k.list[i] \in Task /\ k.list[j] \in Task
    BY <1>1, <1>2, ListType DEF CallRec
  <2>2. /\ pi \in [blocks : SUBSET Ids] /\ pj \in [blockedBy : SUBSET Ids]
        /\ "owner" \notin DOMAIN pi /\ "owner" \notin DOMAIN pj
    BY <2>1 DEF Task
  <2>3. i \in Known(c) /\ j \in Known(c)
    BY <1>2 DEF Known, Touched
  <2>4. Update(i, pi) \in W /\ Update(j, pj) \in W
    BY <2>1, <2>2, <2>3 DEF Update, Updates, Patches
  <2>5. \A u, v \in W : <<>> \in Seq(W) /\ <<u>> \in Seq(W)
    OBVIOUS
  <2>6. wi \in Seq(W) /\ wj \in Seq(W)
    <3> HIDE DEF W, pi, pj
    <3> QED
      BY <2>4, <2>5
  <2>7. wi \o wj \in Seq(W)
    <3> HIDE DEF W, wi, wj
    <3> QED
      BY <2>6
  <2>8. W \subseteq Updates
    OBVIOUS
  <2> HIDE DEF wi, wj
  <2>9. \A h \in DOMAIN (wi \o wj) : (wi \o wj)[h] \in W
    <3> HIDE DEF W
    <3> QED
      BY <2>7
  <2>10. wi \o wj \in Seq(Updates)
    <3> HIDE DEF W
    <3> QED
      BY <2>7, <2>8
  <2> QED
    BY <2>9, <2>10
<1>3. Turned(m, Known(c))
  BY <1>1, <1>2, UpdatingTurned, OverTurned
<1>4. Goes(c, m)
  BY DEF BlockListed
<1> QED
  BY <1>3, <1>4, GoesTo

LEMMA NotFoundTurned ==
    ASSUME TypeInv, AllMeant, NEW c \in Calls, NotFound(c)
    PROVE  Turned(call'[c], Known(c)) /\ OthersStay(c)
<1>1. /\ call[c] \in CallRec /\ Fit(call[c]) /\ call[c].work # <<>>
      /\ call[c].op \in Updaters \cup {"claim"}
  BY CallType DEF NotFound, Fit
<1>2. CASE Goes(c, Over)
  BY <1>2, OverTurned, GoesTo
<1>3. CASE call[c].op # "claim" /\ Goes(c, NextUpdate(call[c]))
  <2>1. Turned(NextUpdate(call[c]), Known(c))
    BY <1>1, <1>3, NextUpdateTurned DEF Known, AllMeant
  <2> QED
    BY <1>3, <2>1, GoesTo
<1> QED
  BY <1>2, <1>3 DEF NotFound

-----------------------------------------------------------------------------
\* What becomes of the record of a call in the other steps.
Kept(c) ==
    LET k == call[c]
        r == call'[c]
    IN  /\ r.op = k.op /\ r.agent = k.agent /\ r.work = k.work
        /\ Touched(r) \subseteq Known(c)

Begun(r) ==
    /\ r.work = <<>> /\ r.list = <<>>
    /\ \/ r.op = "create" /\ r.pc = "number"
       \/ r.op = "reset" /\ r.pc = "files"
       \/ r.op = "delete" /\ r.pc = "mark" /\ r.n = r.id /\ r.id \in Ids /\ Readable(r.id)
       \/ r.op \in {"unassign", "block"} /\ r.pc = "list"

LEMMA BeginMoves ==
    ASSUME TypeInv, NEW c \in Calls, Begin(c)
    PROVE  /\ OthersStay(c) /\ call[c].op = "none"
           /\ \/ Turned(call'[c], Known(c)) /\ UNCHANGED listLock
              \/ /\ Begun(call'[c])
                 /\ IF call'[c].op \in {"create", "reset"} THEN LockList(c)
                                                           ELSE UNCHANGED listLock
<1>0. call[c].op = "none"
  BY CallType DEF Begin, At, Fit, Updaters
<1>n. 0 \in 0 .. MaxId /\ \A i \in Ids : i \in 0 .. MaxId
  BY TaskListConstants DEF TaskListConstants, Ids
<1>b. ASSUME NEW op \in {"create", "reset", "delete", "block", "unassign"},
             NEW a \in Agents \cup {NoOne}, NEW i \in 0 .. MaxId
      PROVE  /\ Begins(op, a, i) \in CallRec /\ Begins(op, a, i).op = op
             /\ Begins(op, a, i).work = <<>> /\ Begins(op, a, i).id = i
             /\ Begins(op, a, i).list = <<>>
  <2>1. op \in Ops
    BY DEF Ops, Updaters
  <2> QED
    BY <2>1, BeginsType
<1>3. CASE BeginCreate(c) /\ UNCHANGED <<files, lock, history>>
  <2> DEFINE b == Begins("create", NoOne, 0)
             k == [b EXCEPT !.pc = "number"]
  <2>1. /\ b \in CallRec /\ b.op = "create" /\ b.work = <<>> /\ b.list = <<>>
    BY <1>n, <1>b
  <2>2. k.op = "create" /\ k.work = <<>> /\ k.pc = "number" /\ k.list = <<>>
    BY <2>1 DEF CallRec
  <2> QED
    BY <1>0, <1>3, <2>2, GoesTo DEF BeginCreate, Begun
<1>4. CASE BeginReset(c) /\ UNCHANGED <<files, lock, history>>
  <2> DEFINE b == Begins("reset", NoOne, 0)
             k == [b EXCEPT !.pc = "files"]
  <2>1. b \in CallRec /\ b.op = "reset" /\ b.work = <<>> /\ b.list = <<>>
    BY <1>n, <1>b
  <2>2. k.op = "reset" /\ k.work = <<>> /\ k.pc = "files" /\ k.list = <<>>
    BY <2>1 DEF CallRec
  <2> QED
    BY <1>0, <1>4, <2>2, GoesTo DEF BeginReset, Begun
<1>5. ASSUME NEW i \in Ids, BeginDelete(c, i), UNCHANGED file
      PROVE  OthersStay(c) /\ Begun(call'[c]) /\ call'[c].op = "delete"
  <2> DEFINE b == Begins("delete", NoOne, i)
             k == [b EXCEPT !.pc = "mark", !.n = i]
  <2>1. b \in CallRec /\ b.op = "delete" /\ b.work = <<>> /\ b.id = i /\ b.list = <<>>
    BY <1>n, <1>b
  <2>2. /\ k.op = "delete" /\ k.work = <<>> /\ k.pc = "mark" /\ k.list = <<>>
        /\ k.id = i /\ k.n = i
    BY <2>1 DEF CallRec
  <2> QED
    BY <1>5, <2>2, GoesTo DEF BeginDelete, Begun, Readable
<1>6. ASSUME NEW a \in Agents, BeginUnassign(c, a)
      PROVE  OthersStay(c) /\ Begun(call'[c]) /\ call'[c].op = "unassign"
  <2> DEFINE b == Begins("unassign", a, 0)
             k == [b EXCEPT !.pc = "list", !.unread = Existing]
  <2>1. b \in CallRec /\ b.op = "unassign" /\ b.work = <<>> /\ b.list = <<>>
    BY <1>n, <1>b
  <2>2. k.op = "unassign" /\ k.work = <<>> /\ k.pc = "list" /\ k.list = <<>>
    BY <2>1 DEF CallRec
  <2> QED
    BY <1>6, <2>2, GoesTo DEF BeginUnassign, Begun, Listing
<1>7. ASSUME NEW i \in Ids, NEW j \in Ids, BeginBlock(c, i, j)
      PROVE  OthersStay(c) /\ Begun(call'[c]) /\ call'[c].op = "block"
  <2> DEFINE b == Begins("block", NoOne, i)
             b2 == [b EXCEPT !.other = j]
             k == [b2 EXCEPT !.pc = "list", !.unread = {i, j}]
  <2>1. b \in CallRec /\ b.op = "block" /\ b.work = <<>> /\ b.list = <<>>
    BY <1>n, <1>b
  <2>2. b2 \in CallRec /\ b2.op = "block" /\ b2.work = <<>> /\ b2.list = <<>>
    BY <1>n, <2>1 DEF CallRec
  <2>3. k.op = "block" /\ k.work = <<>> /\ k.pc = "list" /\ k.list = <<>>
    BY <2>2 DEF CallRec
  <2> QED
    BY <1>7, <2>3, GoesTo DEF BeginBlock, Begun, Listing
<1>8. ASSUME NEW op \in Updaters \cup {"claim"}, NEW a \in Agents \cup {NoOne},
             NEW u \in Updates, Readable(u.id),
             NEW k, k = [Begins(op, a, 0) EXCEPT !.work = <<u>>], Meant(k, u)
      PROVE  Turned(Turning(k), Known(c))
  <2>1. <<u>> \in Seq(Updates) /\ op \in Ops
    BY DEF Ops
  <2>2. /\ Begins(op, a, 0) \in CallRec /\ Begins(op, a, 0).op = op
        /\ Begins(op, a, 0).list = <<>>
    BY <1>n, <2>1, BeginsType
  <2>3. k \in CallRec /\ k.op = op /\ k.work = <<u>> /\ k.list = <<>>
    BY <1>8, <2>1, <2>2 DEF CallRec
  <2>4. u.id \in Ids
    BY DEF Updates
  <2>5. Touched(k) \subseteq Known(c) /\ \A m \in DOMAIN k.work : Meant(k, k.work[m])
    BY <1>8, <2>3, <2>4 DEF Touched, Known
  <2> QED
    BY <2>3, <2>5, TurningTurned
<1>m. ASSUME NEW op \in Updaters \cup {"claim"}, NEW a \in Agents \cup {NoOne},
             NEW u \in Updates
      PROVE  /\ [Begins(op, a, 0) EXCEPT !.work = <<u>>].op = op
             /\ [Begins(op, a, 0) EXCEPT !.work = <<u>>].agent = a
  <2>1. op \in Ops
    BY DEF Ops
  <2>2. /\ Begins(op, a, 0) \in CallRec /\ Begins(op, a, 0).op = op
        /\ Begins(op, a, 0).agent = a
    BY <1>n, <2>1, BeginsType
  <2> QED
    BY <2>2 DEF CallRec
<1>9. ASSUME NEW i \in Ids, BeginComplete(c, i)
      PROVE  OthersStay(c) /\ Turned(call'[c], Known(c))
  <2> DEFINE u == Update(i, [status |-> "completed"])
             k == [Begins("complete", NoOne, 0) EXCEPT !.work = <<u>>]
  <2>1. u \in Updates /\ u.id = i /\ "owner" \notin DOMAIN u.patch
    BY DEF Update, Updates, Patches, Status
  <2>2. Meant(k, u)
    BY <2>1, <1>m DEF Meant, Updaters
  <2>3. Turned(Turning(k), Known(c))
    BY <1>8, <1>9, <2>1, <2>2 DEF BeginComplete, Updaters
  <2> QED
    BY <1>9, <2>3, GoesTo DEF BeginComplete
<1>10. ASSUME NEW i \in Ids, NEW a \in Agents, NEW op \in {"claim", "assign"},
              Goes(c, Turning([Begins(op, a, 0) EXCEPT
                                 !.work = <<Update(i, [owner |-> a])>>])),
              Readable(i)
       PROVE  OthersStay(c) /\ Turned(call'[c], Known(c))
  <2> DEFINE u == Update(i, [owner |-> a])
             k == [Begins(op, a, 0) EXCEPT !.work = <<u>>]
  <2>1. u \in Updates /\ u.id = i /\ "owner" \in DOMAIN u.patch /\ u.patch.owner = a
    BY DEF Update, Updates, Patches
  <2>2. Meant(k, u)
    BY <2>1, <1>m DEF Meant, Updaters
  <2>3. Turned(Turning(k), Known(c))
    BY <1>8, <1>10, <2>1, <2>2 DEF Updaters
  <2> QED
    BY <1>10, <2>3, GoesTo
<1>11. ASSUME NEW i \in Ids, NEW a \in Agents, BeginStart(c, i, a)
       PROVE  OthersStay(c) /\ Turned(call'[c], Known(c))
  <2> DEFINE u == Update(i, IF task[i].owner = NoOne
                            THEN [status |-> "in_progress", owner |-> a]
                            ELSE [status |-> "in_progress"])
             k == [Begins("start", a, 0) EXCEPT !.work = <<u>>]
  <2>1. /\ u \in Updates /\ u.id = i
        /\ "owner" \in DOMAIN u.patch => u.patch.owner = a
    BY DEF Update, Updates, Patches, Status
  <2>2. Meant(k, u)
    BY <2>1, <1>m DEF Meant, Updaters
  <2>3. Turned(Turning(k), Known(c))
    BY <1>8, <1>11, <2>1, <2>2 DEF BeginStart, Updaters
  <2> QED
    BY <1>11, <2>3, GoesTo DEF BeginStart
<1>12. CASE \/ BeginCreate(c) \/ BeginReset(c)
  BY <1>3, <1>4, <1>12 DEF Begin
<1>13. CASE /\ UNCHANGED listLock
            /\ \/ \E i \in Ids : BeginDelete(c, i) \/ BeginComplete(c, i)
               \/ \E a \in Agents : BeginUnassign(c, a)
               \/ \E i, j \in Ids : BeginBlock(c, i, j)
               \/ \E i \in Ids, a \in Agents :
                   BeginClaim(c, i, a) \/ BeginAssign(c, i, a) \/ BeginStart(c, i, a)
  <2>1. UNCHANGED file
    BY DEF Begin, files
  <2>2. ASSUME NEW i \in Ids, NEW a \in Agents, BeginClaim(c, i, a) \/ BeginAssign(c, i, a)
        PROVE OthersStay(c) /\ Turned(call'[c], Known(c))
    BY <1>10, <2>2 DEF BeginClaim, BeginAssign
  <2> QED
    BY <1>0, <1>5, <1>6, <1>7, <1>9, <1>11, <1>13, <2>1, <2>2
<1> QED
  BY <1>12, <1>13 DEF Begin

LEMMA ListOneMoves ==
    ASSUME TypeInv, NEW c \in Calls, NEW i \in Ids, ListOne(c, i)
    PROVE  /\ OthersStay(c) /\ Kept(c)
           /\ call'[c].pc = "list" /\ call[c].pc = "list"
           /\ call'[c].id = call[c].id /\ call'[c].n = call[c].n
           /\ call'[c].read = call[c].read
           /\ \A j \in DOMAIN call'[c].list :
                 \/ j \in DOMAIN call[c].list /\ call'[c].list[j] = call[c].list[j]
                 \/ j = i /\ Readable(j) /\ call'[c].list[j] = task[j]
<1> DEFINE k == call[c]
           list == IF ~Readable(i) THEN k.list
                   ELSE [j \in DOMAIN k.list \cup {i} |->
                           IF j = i THEN task[i] ELSE k.list[j]]
           m == [k EXCEPT !.unread = @ \ {i}, !.list = list]
<1>1. k \in CallRec
  BY CallType
<1>2. /\ DOMAIN list \subseteq DOMAIN k.list \cup {j \in Ids : Readable(j)}
      /\ \A j \in DOMAIN list :
            \/ j \in DOMAIN k.list /\ list[j] = k.list[j]
            \/ j = i /\ Readable(j) /\ list[j] = task[j]
  OBVIOUS
<1>3. /\ m.op = k.op /\ m.pc = k.pc /\ m.work = k.work /\ m.agent = k.agent
      /\ m.id = k.id /\ m.n = k.n /\ m.read = k.read /\ m.list = list
  BY <1>1 DEF CallRec
<1>4. Goes(c, m)
  BY DEF ListOne
<1>5. call'[c] = m /\ OthersStay(c)
  BY <1>4, GoesTo
<1> HIDE DEF m, list
<1>6. Touched(m) \subseteq Known(c)
  BY <1>2, <1>3 DEF Touched, Known
<1> QED
  BY <1>2, <1>3, <1>5, <1>6 DEF Kept, ListOne

LEMMA ClaimChecksMoves ==
    ASSUME TypeInv, NEW c \in Calls, ClaimChecks(c)
    PROVE  /\ OthersStay(c) /\ Target(call[c]) \in Ids
           /\ call[c].op = "claim" /\ call[c].pc = "list"
           /\ \/ Turned(call'[c], Known(c)) /\ lock' = Unlocked(Target(call[c]))
              \/ /\ Kept(c) /\ call'[c].pc = "read" /\ UNCHANGED lock
                 /\ call'[c].missed = call[c].read.blockedBy \ DOMAIN call[c].list
                 /\ call[c].read.blockedBy \cap Unresolved(call[c].list) = {}
<1> DEFINE k == call[c]
           m == [k EXCEPT !.pc = "read", !.list = Idle.list, !.read = NewTask,
                          !.missed = k.read.blockedBy \ DOMAIN k.list]
<1>1. k \in CallRec /\ Fit(k) /\ k.op = "claim" /\ k.work # <<>> /\ k.pc = "list"
  BY CallType DEF ClaimChecks, Listed, At, Fit, Updaters
<1>2. /\ m.op = k.op /\ m.pc = "read" /\ m.work = k.work /\ m.agent = k.agent
      /\ m.list = <<>> /\ m.missed = k.read.blockedBy \ DOMAIN k.list
  BY <1>1 DEF CallRec, Idle
<1>3. \/ Goes(c, Over) /\ lock' = Unlocked(Target(k))
      \/ /\ Goes(c, m) /\ UNCHANGED lock
         /\ k.read.blockedBy \cap Unresolved(k.list) = {}
  BY DEF ClaimChecks, Blockers
<1> HIDE DEF m
<1>4. Touched(m) \subseteq Known(c)
  BY <1>2 DEF Touched, Known
<1> QED
  BY <1>1, <1>2, <1>3, <1>4, TargetType, OverTurned, GoesTo DEF Kept

LEMMA LockMoves ==
    ASSUME TypeInv, NEW c \in Calls, Lock(c)
    PROVE  LET k == call[c]
               r == call'[c]
               i == Target(k)
           IN  /\ OthersStay(c) /\ i \in Ids /\ k.pc = "lock"
               /\ \/ Turned(r, Known(c)) /\ UNCHANGED lock
                  \/ /\ Kept(c) /\ k.op \in Updaters \cup {"claim"}
                     /\ r.pc = IF k.op = "claim" THEN "list" ELSE "open"
                     /\ r.read = task[i] /\ Readable(i) /\ r.list = k.list
                     /\ k.op = "claim" => task[i].owner \in {NoOne, k.agent}
                     /\ lock[i] = NoCall /\ lock' = [lock EXCEPT ![i] = c]
<1> DEFINE k == call[c]
           i == Target(k)
           ml == [[k EXCEPT !.read = task[i]] EXCEPT
                    !.pc = "list", !.unread = task[i].blockedBy \cap Existing]
           mo == [k EXCEPT !.pc = "open", !.read = task[i]]
<1>1. /\ k \in CallRec /\ k.work # <<>> /\ i \in Ids
      /\ k.op \in Updaters \cup {"claim"} /\ k.pc = "lock"
  BY CallType, TargetType DEF Lock, Fit
<1>2. /\ ml.op = k.op /\ ml.work = k.work /\ ml.pc = "list" /\ ml.agent = k.agent
      /\ ml.list = k.list /\ ml.read = task[i]
  BY <1>1 DEF CallRec
<1>3. /\ mo.op = k.op /\ mo.work = k.work /\ mo.pc = "open" /\ mo.agent = k.agent
      /\ mo.list = k.list /\ mo.read = task[i]
  BY <1>1 DEF CallRec
<1>4. \/ Goes(c, Over) /\ UNCHANGED lock
      \/ /\ IF k.op = "claim" THEN Goes(c, ml) ELSE Goes(c, mo)
         /\ k.op = "claim" => task[i].owner \in {NoOne, k.agent}
         /\ lock[i] = NoCall /\ lock' = [lock EXCEPT ![i] = c] /\ Readable(i)
  BY DEF Lock, Listing, Claimable
<1> HIDE DEF ml, mo
<1>5. Touched(ml) \subseteq Known(c) /\ Touched(mo) \subseteq Known(c)
  BY <1>2, <1>3 DEF Touched, Known
<1> QED
  BY <1>1, <1>2, <1>3, <1>4, <1>5, OverTurned, GoesTo DEF Kept

LEMMA ReadMoves ==
    ASSUME TypeInv, AllMeant, NEW c \in Calls, Read(c)
    PROVE  LET k == call[c]
               i == Target(k)
           IN  /\ OthersStay(c) /\ i \in Ids /\ k.op = "claim" /\ k.pc = "read"
               /\ \/ Turned(call'[c], Known(c)) /\ lock' = Unlocked(i)
                  \/ /\ Kept(c) /\ call'[c].pc = "open" /\ call'[c].read = task[i]
                     /\ UNCHANGED lock /\ Readable(i) /\ call'[c].missed = k.missed
<1> DEFINE k == call[c]
           i == Target(k)
           m == [k EXCEPT !.pc = "open", !.read = task[i]]
<1>1. k \in CallRec /\ k.op = "claim" /\ k.work # <<>> /\ i \in Ids /\ k.pc = "read"
  BY CallType, TargetType DEF Read, Fit
<1>2. /\ m.op = k.op /\ m.work = k.work /\ m.pc = "open" /\ m.agent = k.agent
      /\ m.list = k.list /\ m.read = task[i] /\ m.missed = k.missed
  BY <1>1 DEF CallRec
<1>3. \/ Continues(c, k) /\ lock' = Unlocked(i)
      \/ Goes(c, m) /\ UNCHANGED lock /\ Readable(i)
  BY DEF Read
<1> HIDE DEF m
<1>4. Touched(m) \subseteq Known(c)
  BY <1>2 DEF Touched, Known
<1> QED
  BY <1>1, <1>2, <1>3, <1>4, ContinuesTurned, GoesTo DEF Kept

LEMMA OpenMoves ==
    ASSUME TypeInv, NEW c \in Calls, Open(c)
    PROVE  /\ OthersStay(c) /\ Kept(c) /\ Target(call[c]) \in Ids
           /\ call[c].op \in Updaters \cup {"claim"}
           /\ call[c].pc = "open" /\ call'[c].pc = "write"
           /\ call'[c].read = call[c].read /\ call'[c].missed = call[c].missed
<1> DEFINE k == call[c]
           m == [k EXCEPT !.pc = "write"]
<1>1. /\ k \in CallRec /\ k.work # <<>> /\ k.op \in Updaters \cup {"claim"}
      /\ k.pc = "open"
  BY CallType DEF Open, Fit
<1>2. /\ m.op = k.op /\ m.work = k.work /\ m.pc = "write" /\ m.agent = k.agent
      /\ m.list = k.list /\ m.read = k.read /\ m.missed = k.missed
  BY <1>1 DEF CallRec
<1>3. Goes(c, m)
  BY DEF Open
<1> HIDE DEF m
<1>4. Touched(m) \subseteq Known(c)
  BY <1>2 DEF Touched, Known
<1> QED
  BY <1>1, <1>2, <1>3, <1>4, TargetType, GoesTo DEF Kept

LEMMA WriteMoves ==
    ASSUME TypeInv, AllMeant, NEW c \in Calls, Write(c)
    PROVE  /\ OthersStay(c) /\ Turned(call'[c], Known(c)) /\ Target(call[c]) \in Ids
           /\ call[c].op \in Updaters \cup {"claim"} /\ call[c].pc = "write"
           /\ call[c].work # <<>>
<1>1. /\ call[c] \in CallRec /\ call[c].work # <<>> /\ call[c].pc = "write"
      /\ call[c].op \in Updaters \cup {"claim"}
  BY CallType DEF Write, Fit
<1> QED
  BY <1>1, TargetType, ContinuesTurned DEF Write

LEMMA ReadNumbersMoves ==
    ASSUME TypeInv, NEW c \in Calls, ReadNumbers(c)
    PROVE  LET k == call[c]
               r == call'[c]
           IN  /\ OthersStay(c) /\ Kept(c) /\ k.op \in {"create", "reset"}
               /\ r.n \in 0 .. MaxId /\ k.n \in 0 .. MaxId
               /\ \/ /\ k.pc \in {"number", "files"} /\ IsHighest(r.n, Numbers(k))
                     /\ r.pc = IF k.op = "reset"
                               THEN IF r.n = 0 THEN "clear" ELSE "mark"
                               ELSE IF k.pc = "number" THEN "mark" ELSE "open_new"
                     /\ k.op = "reset" => k.pc = "files"
                  \/ /\ k.op = "create" /\ k.pc = "number" /\ r.n = mark
                     /\ r.pc = "files"
                  \/ /\ k.op = "create" /\ k.pc = "mark" /\ r.pc = "open_new"
                     /\ r.n = IF mark > k.n THEN mark ELSE k.n
<1> DEFINE k == call[c]
           m(n, pc) == [k EXCEPT !.n = n, !.pc = pc]
<1>1. k \in CallRec /\ Fit(k) /\ k.n \in 0 .. MaxId /\ mark \in 0 .. MaxId
  BY CallType DEF CallRec, TypeInv
<1>2. /\ k.op \in {"create", "reset"}
      /\ k.op = "reset" => k.pc # "number"
  BY <1>1 DEF ReadNumbers, Fit, Updaters
<1>3. \A n, pc :
        /\ m(n, pc).op = k.op /\ m(n, pc).work = k.work /\ m(n, pc).agent = k.agent
        /\ m(n, pc).list = k.list /\ m(n, pc).n = n /\ m(n, pc).pc = pc
  BY <1>1 DEF CallRec
<1>4. ASSUME NEW n, NEW pc, Goes(c, m(n, pc))
      PROVE  OthersStay(c) /\ Kept(c) /\ call'[c].n = n /\ call'[c].pc = pc
  <2>1. call'[c] = m(n, pc) /\ OthersStay(c)
    BY <1>4, GoesTo
  <2> HIDE DEF m
  <2>2. Touched(m(n, pc)) \subseteq Known(c)
    BY <1>3 DEF Touched, Known
  <2> QED
    BY <1>3, <2>1, <2>2 DEF Kept
<1> DEFINE pcs(h) == IF k.op = "reset"
                     THEN IF h = 0 THEN "clear" ELSE "mark"
                     ELSE IF k.pc = "number" THEN "mark" ELSE "open_new"
<1>5. \/ /\ k.pc \in {"number", "files"}
         /\ \E h \in 0 .. MaxId : IsHighest(h, Numbers(k)) /\ Goes(c, m(h, pcs(h)))
      \/ k.pc = "number" /\ Goes(c, m(mark, "files"))
      \/ /\ k.pc = "mark" /\ k.op = "create"
         /\ Goes(c, m(IF mark > k.n THEN mark ELSE k.n, "open_new"))
  BY DEF ReadNumbers
<1> HIDE DEF m
<1>6. CASE /\ k.pc \in {"number", "files"}
           /\ \E h \in 0 .. MaxId : IsHighest(h, Numbers(k)) /\ Goes(c, m(h, pcs(h)))
  BY <1>1, <1>2, <1>4, <1>6
<1>7. CASE k.pc = "number" /\ Goes(c, m(mark, "files"))
  BY <1>1, <1>2, <1>4, <1>7
<1>8. CASE /\ k.pc = "mark" /\ k.op = "create"
           /\ Goes(c, m(IF mark > k.n THEN mark ELSE k.n, "open_new"))
  BY <1>1, <1>2, <1>4, <1>8
<1> QED
  BY <1>5, <1>6, <1>7, <1>8

LEMMA OpenNewMoves ==
    ASSUME TypeInv, NEW c \in Calls, OpenNew(c)
    PROVE  /\ OthersStay(c) /\ Kept(c)
           /\ call[c].op = "create" /\ call[c].pc = "open_new"
           /\ call'[c].pc = "write" /\ call'[c].id = call[c].n + 1
           /\ call[c].n + 1 \in Ids
<1> DEFINE k == call[c]
           i == k.n + 1
           m == [k EXCEPT !.pc = "write", !.id = i]
<1>1. k \in CallRec /\ k.op = "create" /\ k.pc = "open_new" /\ i \in Ids
  BY CallType DEF OpenNew, Fit, Updaters
<1>2. /\ m.op = k.op /\ m.work = k.work /\ m.agent = k.agent /\ m.list = k.list
      /\ m.pc = "write" /\ m.id = i
  BY <1>1 DEF CallRec
<1>3. Goes(c, m)
  BY DEF OpenNew
<1> HIDE DEF m
<1>4. Touched(m) \subseteq Known(c)
  BY <1>2 DEF Touched, Known
<1> QED
  BY <1>1, <1>2, <1>3, <1>4, GoesTo DEF Kept

LEMMA WriteNewMoves ==
    ASSUME TypeInv, NEW c \in Calls, WriteNew(c)
    PROVE  /\ OthersStay(c) /\ Turned(call'[c], Known(c))
           /\ call[c].op = "create" /\ call[c].pc = "write" /\ call[c].id \in Ids
<1>1. call[c].id \in Ids
  BY CallType DEF WriteNew, Fit, Updaters
<1> QED
  BY <1>1, OverTurned, GoesTo DEF WriteNew

LEMMA AfterMarkMoves ==
    ASSUME TypeInv, NEW c \in Calls, call[c].op \in {"delete", "reset"},
           Goes(c, AfterMark(call[c]))
    PROVE  /\ OthersStay(c) /\ Kept(c) /\ call'[c].id = call[c].id
           /\ call'[c].pc = IF call[c].op = "delete" THEN "unlink" ELSE "clear"
<1> DEFINE k == call[c]
           m == AfterMark(k)
<1>1. k \in CallRec
  BY CallType
<1>2. /\ m.op = k.op /\ m.work = k.work /\ m.agent = k.agent /\ m.list = k.list
      /\ m.id = k.id /\ m.pc = IF k.op = "delete" THEN "unlink" ELSE "clear"
  BY <1>1 DEF CallRec, AfterMark
<1> HIDE DEF m
<1>3. Touched(m) \subseteq Known(c)
  BY <1>2 DEF Touched, Known
<1>4. call'[c] = m /\ OthersStay(c)
  BY GoesTo DEF m
<1> QED
  BY <1>2, <1>3, <1>4 DEF Kept

LEMMA ReadMarkMoves ==
    ASSUME TypeInv, NEW c \in Calls, ReadMark(c)
    PROVE  LET k == call[c]
               r == call'[c]
           IN  /\ OthersStay(c) /\ Kept(c) /\ k.op \in {"delete", "reset"}
               /\ k.pc = "mark" /\ r.id = k.id
               /\ \/ k.n > mark /\ r.pc = "open_mark" /\ r.n = k.n
                  \/ ~(k.n > mark) /\ r.pc = IF k.op = "delete" THEN "unlink" ELSE "clear"
<1> DEFINE k == call[c]
           m == [k EXCEPT !.pc = "open_mark"]
<1>1. k \in CallRec /\ k.op \in {"delete", "reset"} /\ k.pc = "mark"
  BY CallType DEF ReadMark, Fit, Updaters
<1>2. /\ m.op = k.op /\ m.work = k.work /\ m.agent = k.agent /\ m.list = k.list
      /\ m.pc = "open_mark" /\ m.id = k.id /\ m.n = k.n
  BY <1>1 DEF CallRec
<1>3. \/ k.n > mark /\ Goes(c, m)
      \/ ~(k.n > mark) /\ Goes(c, AfterMark(k))
  BY DEF ReadMark, Raises
<1> HIDE DEF m
<1>4. Touched(m) \subseteq Known(c)
  BY <1>2 DEF Touched, Known
<1>5. CASE k.n > mark /\ Goes(c, m)
  BY <1>1, <1>2, <1>4, <1>5, GoesTo DEF Kept
<1>6. CASE ~(k.n > mark) /\ Goes(c, AfterMark(k))
  BY <1>1, <1>6, AfterMarkMoves
<1> QED
  BY <1>3, <1>5, <1>6

LEMMA WriteMarkMoves ==
    ASSUME TypeInv, NEW c \in Calls, WriteMark(c)
    PROVE  LET k == call[c]
               r == call'[c]
           IN  /\ OthersStay(c) /\ Kept(c) /\ k.op \in {"delete", "reset"} /\ r.id = k.id
               /\ \/ /\ k.pc = "open_mark" /\ mark' = 0
                     /\ r.pc = "write_mark" /\ r.n = k.n
                  \/ /\ k.pc = "write_mark" /\ mark' = k.n
                     /\ r.pc = IF k.op = "delete" THEN "unlink" ELSE "clear"
<1> DEFINE k == call[c]
           m == [k EXCEPT !.pc = "write_mark"]
<1>1. /\ k \in CallRec /\ k.op \in {"delete", "reset"}
  BY CallType DEF WriteMark, Fit, Updaters
<1>2. /\ m.op = k.op /\ m.work = k.work /\ m.agent = k.agent /\ m.list = k.list
      /\ m.pc = "write_mark" /\ m.id = k.id /\ m.n = k.n
  BY <1>1 DEF CallRec
<1>3. \/ k.pc = "open_mark" /\ mark' = 0 /\ Goes(c, m)
      \/ k.pc = "write_mark" /\ mark' = k.n /\ Goes(c, AfterMark(k))
  BY DEF WriteMark
<1> HIDE DEF m
<1>4. Touched(m) \subseteq Known(c)
  BY <1>2 DEF Touched, Known
<1>5. CASE k.pc = "open_mark" /\ mark' = 0 /\ Goes(c, m)
  BY <1>1, <1>2, <1>4, <1>5, GoesTo DEF Kept
<1>6. CASE k.pc = "write_mark" /\ mark' = k.n /\ Goes(c, AfterMark(k))
  BY <1>1, <1>6, AfterMarkMoves
<1> QED
  BY <1>3, <1>5, <1>6

LEMMA UnlinkedStay ==
    ASSUME CallsOK(call), NEW c \in Calls, NEW m \in CallRec, NEW i,
           call' = Unlinked([call EXCEPT ![c] = m], i)
    PROVE  OthersStay(c) /\ Same(call'[c], m)
<1> DEFINE cs == [call EXCEPT ![c] = m]
<1>1. ASSUME NEW d \in Calls PROVE Same(call'[d], cs[d])
  <2>1. cs[d] \in CallRec
    BY DEF CallsOK
  <2>2. \/ call'[d] = cs[d] \/ call'[d] = [cs[d] EXCEPT !.ghost = TRUE]
    BY DEF Unlinked
  <2> HIDE DEF cs
  <2> QED
    BY <2>1, <2>2 DEF Same, CallRec
<1>2. cs[c] = m /\ \A d \in Calls \ {c} : cs[d] = call[d]
  BY DEF CallsOK
<1> HIDE DEF cs
<1> QED
  BY <1>1, <1>2 DEF OthersStay

LEMMA DeleteUnlinksMoves ==
    ASSUME TypeInv, NEW c \in Calls, DeleteUnlinks(c)
    PROVE  /\ OthersStay(c) /\ call[c].op = "delete" /\ call[c].pc = "unlink"
           /\ call[c].id \in Ids
           /\ \/ Turned(call'[c], Known(c)) /\ UNCHANGED <<file, task, claimed>>
              \/ Kept(c) /\ call'[c].pc = "list" /\ Unlink(call[c].id)
<1> DEFINE k == call[c]
           m == [k EXCEPT !.pc = "list", !.unread = Existing \ {k.id}]
<1>1. k \in CallRec /\ k.op = "delete" /\ k.pc = "unlink" /\ k.id \in Ids
  BY CallType DEF DeleteUnlinks, Fit
<1>2. /\ m \in CallRec /\ m.op = k.op /\ m.work = k.work /\ m.pc = "list"
      /\ m.agent = k.agent /\ m.list = k.list
  BY <1>1 DEF CallRec, Pcs, Existing
<1>3. CASE Goes(c, Over) /\ UNCHANGED <<file, task, claimed>>
  BY <1>1, <1>3, OverTurned, GoesTo
<1>4. CASE /\ Unlink(k.id)
           /\ call' = Unlinked([call EXCEPT ![c] = m], k.id)
  <2> HIDE DEF m
  <2>1. OthersStay(c) /\ Same(call'[c], m)
    BY <1>2, <1>4, UnlinkedStay DEF TypeInv
  <2>2. Kept(c) /\ call'[c].pc = "list"
    BY <1>2, <2>1 DEF Kept, Same, Touched, Known
  <2> QED
    BY <1>1, <1>4, <2>1, <2>2
<1> QED
  BY <1>3, <1>4 DEF DeleteUnlinks, Listing

LEMMA ResetMoves ==
    ASSUME TypeInv, NEW c \in Calls
    PROVE  /\ ResetClears(c) => /\ OthersStay(c) /\ Kept(c) /\ call[c].op = "reset"
                                /\ call[c].pc = "clear" /\ call'[c].pc = "sweep"
           /\ \A i \in Ids : ResetUnlinks(c, i) =>
                                /\ OthersStay(c) /\ Kept(c) /\ call[c].op = "reset"
                                /\ call[c].pc = "sweep" /\ call'[c].pc = "sweep"
           /\ ResetEnds(c) => /\ OthersStay(c) /\ Turned(call'[c], Known(c))
                              /\ call[c].op = "reset"
<1> DEFINE k == call[c]
<1>1. k \in CallRec /\ Fit(k)
  BY CallType
<1>2. ASSUME ResetClears(c)
      PROVE  /\ OthersStay(c) /\ Kept(c) /\ call[c].op = "reset"
             /\ call[c].pc = "clear" /\ call'[c].pc = "sweep"
  <2> DEFINE m == [k EXCEPT !.pc = "sweep", !.unread = Existing]
  <2>1. /\ m.op = k.op /\ m.work = k.work /\ m.pc = "sweep" /\ m.agent = k.agent
        /\ m.list = k.list
    BY <1>1 DEF CallRec
  <2>2. k.op = "reset" /\ k.pc = "clear"
    BY <1>1, <1>2 DEF ResetClears, At, Fit
  <2>3. call'[c] = m /\ OthersStay(c)
    BY <1>2, GoesTo DEF ResetClears
  <2> HIDE DEF m
  <2> QED
    BY <2>1, <2>2, <2>3 DEF Kept, Touched, Known
<1>3. ASSUME NEW i \in Ids, ResetUnlinks(c, i)
      PROVE  /\ OthersStay(c) /\ Kept(c) /\ call[c].op = "reset"
             /\ call[c].pc = "sweep" /\ call'[c].pc = "sweep"
  <2> DEFINE m == [k EXCEPT !.unread = @ \ {i}]
  <2>1. /\ m \in CallRec /\ m.op = k.op /\ m.work = k.work /\ m.pc = k.pc
        /\ m.agent = k.agent /\ m.list = k.list
    BY <1>1 DEF CallRec
  <2>2. k.op = "reset" /\ k.pc = "sweep"
    BY <1>1, <1>3 DEF ResetUnlinks, Fit
  <2>3. call' = Unlinked([call EXCEPT ![c] = m], i)
    BY <1>3 DEF ResetUnlinks, TypeInv, CallsOK
  <2> HIDE DEF m
  <2>4. OthersStay(c) /\ Same(call'[c], m)
    BY <2>1, <2>3, UnlinkedStay DEF TypeInv
  <2> QED
    BY <2>1, <2>2, <2>4 DEF Kept, Same, Touched, Known
<1>4. ASSUME ResetEnds(c)
      PROVE  /\ OthersStay(c) /\ Turned(call'[c], Known(c)) /\ call[c].op = "reset"
  <2>1. k.op = "reset"
    BY <1>1, <1>4 DEF ResetEnds, At, Fit
  <2> QED
    BY <1>4, <2>1, OverTurned, GoesTo DEF ResetEnds
<1> QED
  BY <1>2, <1>3, <1>4

-----------------------------------------------------------------------------
\* The locks.
LEMMA Held ==
    ASSUME TypeInv, NEW c \in Calls, Holding(call[c])
    PROVE  Target(call[c]) \in Ids /\ call[c].work # <<>>
BY CallType, TargetType DEF Holding, Fit, Updaters

LEMMA SameHolds ==
    ASSUME NEW j, NEW k, Same(j, k)
    PROVE  (Holding(j) <=> Holding(k)) /\ Target(j) = Target(k)
BY DEF Same, Holding, Target

LEMMA TurnedHoldsNot ==
    ASSUME NEW S, NEW k, Turned(k, S)
    PROVE  ~Holding(k) /\ ~ListLocked(k)
BY DEF Turned, Holding, ListLocked, Updaters

LEMMA KeptTarget ==
    ASSUME NEW c \in Calls, Kept(c), call[c].work # <<>>
    PROVE  Target(call'[c]) = Target(call[c])
BY DEF Kept, Target

LEMMA LocksStay ==
    ASSUME TypeInv, TaskLocks, NEW c \in Calls, OthersStay(c), UNCHANGED lock,
           \/ ~Holding(call[c]) /\ ~Holding(call'[c])
           \/ Kept(c) /\ Holding(call[c]) /\ Holding(call'[c])
    PROVE  TaskLocks'
<1>1. ASSUME NEW i \in Ids, NEW d \in Calls
      PROVE  (lock[i] = d <=> Holding(call'[d]) /\ Target(call'[d]) = i)
  <2>1. CASE d = c
    BY <2>1, Held, KeptTarget DEF TaskLocks
  <2>2. CASE d # c
    BY <2>2, SameHolds DEF TaskLocks, OthersStay
  <2> QED
    BY <2>1, <2>2
<1> QED
  BY <1>1 DEF TaskLocks

LEMMA LockTaken ==
    ASSUME TypeInv, TaskLocks, NEW c \in Calls, OthersStay(c), NEW i \in Ids,
           lock[i] = NoCall, lock' = [lock EXCEPT ![i] = c], ~Holding(call[c]),
           Holding(call'[c]), Target(call'[c]) = i
    PROVE  TaskLocks'
<1>1. ASSUME NEW j \in Ids, NEW d \in Calls
      PROVE  (lock'[j] = d <=> Holding(call'[d]) /\ Target(call'[d]) = j)
  <2>1. CASE d = c
    BY <2>1 DEF TaskLocks, TypeInv
  <2>2. CASE d # c
    <3>1. ~(Holding(call[d]) /\ Target(call[d]) = i)
      BY TaskListConstants DEF TaskListConstants, TaskLocks
    <3> QED
      BY <2>2, <3>1, SameHolds DEF TaskLocks, OthersStay, TypeInv
  <2> QED
    BY <2>1, <2>2
<1> QED
  BY <1>1 DEF TaskLocks

LEMMA LockGiven ==
    ASSUME TypeInv, TaskLocks, NEW c \in Calls, OthersStay(c), Holding(call[c]),
           lock' = Unlocked(Target(call[c])), ~Holding(call'[c])
    PROVE  TaskLocks'
<1> DEFINE i == Target(call[c])
<1>0. i \in Ids /\ lock[i] = c
  BY Held DEF TaskLocks
<1>1. ASSUME NEW j \in Ids, NEW d \in Calls
      PROVE  (lock'[j] = d <=> Holding(call'[d]) /\ Target(call'[d]) = j)
  <2>1. CASE d = c
    <3>1. lock[j] = c => j = i
      BY DEF TaskLocks
    <3> QED
      BY <1>0, <2>1, <3>1, TaskListConstants
         DEF TaskListConstants, TypeInv, Unlocked
  <2>2. CASE d # c
    <3>1. ~(Holding(call[d]) /\ Target(call[d]) = i)
      BY <1>0, <2>2 DEF TaskLocks
    <3> QED
      BY <1>0, <2>2, <3>1, SameHolds, TaskListConstants
         DEF TaskListConstants, TaskLocks, OthersStay, TypeInv, Unlocked
  <2> QED
    BY <2>1, <2>2
<1> QED
  BY <1>1 DEF TaskLocks

LEMMA ListLockStays ==
    ASSUME TypeInv, LockInv, NEW c \in Calls, OthersStay(c), UNCHANGED listLock,
           ListLocked(call'[c]) <=> ListLocked(call[c])
    PROVE  \A d \in Calls : listLock' = d <=> ListLocked(call'[d])
BY DEF LockInv, OthersStay, Same, ListLocked

LEMMA ListLockGiven ==
    ASSUME TypeInv, LockInv, NEW c \in Calls, OthersStay(c), ListLocked(call[c]),
           listLock' = NoCall, ~ListLocked(call'[c])
    PROVE  \A d \in Calls : listLock' = d <=> ListLocked(call'[d])
<1>1. \A d \in Calls \ {c} : ~ListLocked(call[d])
  BY DEF LockInv
<1> QED
  BY <1>1, TaskListConstants DEF TaskListConstants, OthersStay, Same, ListLocked

LEMMA BeginLocks ==
    ASSUME TypeInv, LockInv, NEW c \in Calls, Begin(c)
    PROVE  LockInv'
<1>1. UNCHANGED lock
  BY DEF Begin
<1>2. ~Holding(call[c]) /\ ~ListLocked(call[c])
  BY BeginMoves DEF Holding, ListLocked, Updaters
<1>3. CASE Turned(call'[c], Known(c)) /\ UNCHANGED listLock
  BY <1>1, <1>2, <1>3, BeginMoves, TurnedHoldsNot, LocksStay, ListLockStays DEF LockInv
<1>4. CASE /\ Begun(call'[c])
           /\ IF call'[c].op \in {"create", "reset"} THEN LockList(c)
                                                     ELSE UNCHANGED listLock
  <2>1. ~Holding(call'[c])
    BY <1>4 DEF Begun, Holding, Updaters
  <2>2. TaskLocks'
    BY <1>1, <1>2, <2>1, BeginMoves, LocksStay DEF LockInv
  <2>3. CASE UNCHANGED listLock /\ ~ListLocked(call'[c])
    BY <1>2, <2>2, <2>3, BeginMoves, ListLockStays DEF LockInv
  <2>4. CASE LockList(c) /\ ListLocked(call'[c])
    <3>1. \A d \in Calls \ {c} : ~ListLocked(call[d])
      BY <2>4, TaskListConstants DEF TaskListConstants, LockInv, LockList
    <3>2. \A d \in Calls \ {c} : ~ListLocked(call'[d])
      BY <3>1, BeginMoves DEF OthersStay, Same, ListLocked
    <3> QED
      BY <2>2, <2>4, <3>2 DEF LockInv, LockList
  <2> QED
    BY <1>4, <2>3, <2>4 DEF ListLocked
<1> QED
  BY <1>3, <1>4, BeginMoves

LEMMA LockStep == TypeInv /\ AllMeant /\ LockInv /\ [Next]_vars => LockInv'
<1> SUFFICES ASSUME TypeInv, AllMeant, LockInv, [Next]_vars PROVE LockInv'
  OBVIOUS
<1>1. CASE UNCHANGED vars
  BY <1>1 DEF vars, locks, LockInv, TaskLocks
<1>2. ASSUME NEW c \in Calls, Step(c) PROVE LockInv'
  <2>1. CASE Begin(c)
    BY <2>1, BeginLocks
  <2>2. ASSUME NEW i \in Ids, ListOne(c, i) PROVE LockInv'
    BY <2>2, ListOneMoves, LocksStay, ListLockStays
       DEF LockInv, ListOne, locks, Kept, Holding, ListLocked
  <2>3. CASE ClaimChecks(c)
    <3>1. Holding(call[c]) /\ ~ListLocked(call[c]) /\ UNCHANGED listLock
      BY <2>3, ClaimChecksMoves DEF Holding, ListLocked, ClaimChecks
    <3>2. CASE Turned(call'[c], Known(c)) /\ lock' = Unlocked(Target(call[c]))
      BY <2>3, <3>1, <3>2, ClaimChecksMoves, TurnedHoldsNot, LockGiven, ListLockStays
         DEF LockInv
    <3>3. CASE Kept(c) /\ call'[c].pc = "read" /\ UNCHANGED lock
      <4>1. Holding(call'[c]) /\ ~ListLocked(call'[c])
        BY <2>3, <3>3, ClaimChecksMoves DEF Kept, Holding, ListLocked
      <4> QED
        BY <2>3, <3>1, <3>3, <4>1, ClaimChecksMoves, LocksStay, ListLockStays DEF LockInv
    <3> QED
      BY <2>3, <3>2, <3>3, ClaimChecksMoves
  <2>4. CASE UnassignListed(c) \/ BlockListed(c) \/ DeleteListed(c) \/ NotFound(c)
    <3>1. OthersStay(c) /\ Turned(call'[c], Known(c)) /\ UNCHANGED <<lock, listLock>>
      BY <2>4, UnassignListedTurned, BlockListedTurned, DeleteListedTurned, NotFoundTurned
         DEF UnassignListed, BlockListed, DeleteListed, NotFound, locks
    <3>2. ~Holding(call[c]) /\ ~ListLocked(call[c])
      <4>1. CASE UnassignListed(c) \/ BlockListed(c) \/ DeleteListed(c)
        <5>1. /\ call[c].pc = "list"
              /\ call[c].op \in {"unassign", "block", "delete"}
          BY <4>1 DEF UnassignListed, BlockListed, DeleteListed, Listed, At
        <5> QED
          BY <5>1 DEF Holding, ListLocked
      <4>2. CASE NotFound(c)
        BY <4>2, CallType DEF NotFound, Holding, ListLocked, Updaters, Fit
      <4> QED
        BY <2>4, <4>1, <4>2
    <3> QED
      BY <3>1, <3>2, TurnedHoldsNot, LocksStay, ListLockStays DEF LockInv
  <2>5. CASE Lock(c)
    <3>1. ~Holding(call[c]) /\ ~ListLocked(call[c]) /\ UNCHANGED listLock
      BY <2>5, LockMoves, CallType DEF Holding, ListLocked, Lock, Fit, Updaters
    <3>2. CASE Turned(call'[c], Known(c)) /\ UNCHANGED lock
      BY <2>5, <3>1, <3>2, LockMoves, TurnedHoldsNot, LocksStay, ListLockStays DEF LockInv
    <3>3. CASE /\ Kept(c) /\ call[c].op \in Updaters \cup {"claim"}
               /\ call'[c].pc = IF call[c].op = "claim" THEN "list" ELSE "open"
               /\ lock[Target(call[c])] = NoCall
               /\ lock' = [lock EXCEPT ![Target(call[c])] = c]
      <4>1. Holding(call'[c]) /\ ~ListLocked(call'[c])
        BY <3>3 DEF Kept, Holding, ListLocked, Updaters
      <4>2. Target(call'[c]) = Target(call[c]) /\ Target(call[c]) \in Ids
        <5>1. call[c].work # <<>>
          BY <2>5, CallType DEF Lock, Fit
        <5> QED
          BY <2>5, <3>3, <5>1, KeptTarget, LockMoves
      <4> QED
        BY <2>5, <3>1, <3>3, <4>1, <4>2, LockMoves, LockTaken, ListLockStays DEF LockInv
    <3> QED
      BY <2>5, <3>2, <3>3, LockMoves
  <2>6. CASE Read(c)
    <3>1. Holding(call[c]) /\ ~ListLocked(call[c]) /\ UNCHANGED listLock
      BY <2>6, ReadMoves DEF Holding, ListLocked, Read
    <3>2. CASE Turned(call'[c], Known(c)) /\ lock' = Unlocked(Target(call[c]))
      BY <2>6, <3>1, <3>2, ReadMoves, TurnedHoldsNot, LockGiven, ListLockStays DEF LockInv
    <3>3. CASE Kept(c) /\ call'[c].pc = "open" /\ UNCHANGED lock
      <4>1. Holding(call'[c]) /\ ~ListLocked(call'[c])
        BY <2>6, <3>3, ReadMoves DEF Kept, Holding, ListLocked
      <4> QED
        BY <2>6, <3>1, <3>3, <4>1, ReadMoves, LocksStay, ListLockStays DEF LockInv
    <3> QED
      BY <2>6, <3>2, <3>3, ReadMoves
  <2>7. CASE Open(c)
    <3>1. /\ Holding(call[c]) /\ Holding(call'[c]) /\ ~ListLocked(call[c])
          /\ ~ListLocked(call'[c]) /\ Kept(c) /\ OthersStay(c)
          /\ UNCHANGED <<lock, listLock>>
      BY <2>7, OpenMoves DEF Holding, ListLocked, Open, Kept, Updaters, locks
    <3> QED
      BY <3>1, LocksStay, ListLockStays DEF LockInv
  <2>8. CASE Write(c)
    <3>1. /\ Holding(call[c]) /\ ~ListLocked(call[c]) /\ UNCHANGED listLock
          /\ lock' = Unlocked(Target(call[c]))
      BY <2>8, WriteMoves DEF Holding, ListLocked, Write, Updaters
    <3> QED
      BY <2>8, <3>1, WriteMoves, TurnedHoldsNot, LockGiven, ListLockStays DEF LockInv
  <2>9. CASE ReadNumbers(c) \/ OpenNew(c)
    <3>1. /\ OthersStay(c) /\ Kept(c) /\ ListLocked(call[c]) /\ ListLocked(call'[c])
          /\ ~Holding(call[c]) /\ ~Holding(call'[c]) /\ UNCHANGED <<lock, listLock>>
      BY <2>9, ReadNumbersMoves, OpenNewMoves
         DEF ReadNumbers, OpenNew, Kept, ListLocked, Holding, Updaters, locks
    <3> QED
      BY <3>1, LocksStay, ListLockStays DEF LockInv
  <2>10. CASE WriteNew(c) \/ ResetEnds(c)
    <3>1. /\ OthersStay(c) /\ Turned(call'[c], Known(c)) /\ ListLocked(call[c])
          /\ ~Holding(call[c]) /\ UNCHANGED lock /\ listLock' = NoCall
      BY <2>10, WriteNewMoves, ResetMoves
         DEF WriteNew, ResetEnds, ListLocked, Holding, Updaters
    <3> QED
      BY <3>1, TurnedHoldsNot, LocksStay, ListLockGiven DEF LockInv
  <2>11. CASE \/ ReadMark(c) \/ WriteMark(c) \/ ResetClears(c)
              \/ \E i \in Ids : ResetUnlinks(c, i)
    <3>1. /\ OthersStay(c) /\ Kept(c) /\ call[c].op \in {"delete", "reset"}
          /\ UNCHANGED <<lock, listLock>>
      BY <2>11, ReadMarkMoves, WriteMarkMoves, ResetMoves
         DEF ReadMark, WriteMark, ResetClears, ResetUnlinks, locks
    <3>2. /\ ~Holding(call[c]) /\ ~Holding(call'[c])
          /\ ListLocked(call'[c]) <=> ListLocked(call[c])
      BY <3>1 DEF Kept, Holding, ListLocked, Updaters
    <3> QED
      BY <3>1, <3>2, LocksStay, ListLockStays DEF LockInv
  <2>12. CASE DeleteUnlinks(c)
    <3>1. /\ OthersStay(c) /\ call[c].op = "delete" /\ UNCHANGED <<lock, listLock>>
      BY <2>12, DeleteUnlinksMoves DEF DeleteUnlinks, locks
    <3>2. /\ ~Holding(call[c]) /\ ~ListLocked(call[c])
      BY <3>1 DEF Holding, ListLocked, Updaters
    <3>3. Turned(call'[c], Known(c)) \/ call'[c].op = "delete"
      BY <2>12, DeleteUnlinksMoves DEF Kept
    <3>4. /\ ~Holding(call'[c]) /\ ~ListLocked(call'[c])
      BY <3>3, TurnedHoldsNot DEF Holding, ListLocked, Updaters
    <3> QED
      BY <3>1, <3>2, <3>4, LocksStay, ListLockStays DEF LockInv
  <2> QED
    BY <1>2, <2>1, <2>2, <2>3, <2>4, <2>5, <2>6, <2>7, <2>8, <2>9, <2>10, <2>11,
       <2>12 DEF Step
<1>3. ASSUME NEW c \in Calls, Dies(c) PROVE LockInv'
  <2>1. call'[c] = Over /\ OthersStay(c)
    BY <1>3, GoesTo DEF Dies
  <2>2. ~Holding(Over) /\ ~ListLocked(Over)
    BY DEF Over, Idle, Holding, ListLocked, Updaters
  <2>3. TaskLocks'
    <3>1. ASSUME NEW j \in Ids, NEW d \in Calls
          PROVE  (lock'[j] = d <=> Holding(call'[d]) /\ Target(call'[d]) = j)
      <4>1. lock'[j] = IF lock[j] = c THEN NoCall ELSE lock[j]
        BY <1>3 DEF Dies
      <4> QED
        BY <2>1, <2>2, <4>1, SameHolds, TaskListConstants
           DEF TaskListConstants, LockInv, TaskLocks, OthersStay
    <3> QED
      BY <3>1 DEF TaskLocks
  <2>4. ASSUME NEW d \in Calls PROVE (listLock' = d <=> ListLocked(call'[d]))
    BY <1>3, <2>1, <2>2, TaskListConstants
       DEF TaskListConstants, LockInv, OthersStay, Same, ListLocked, Dies
  <2> QED
    BY <2>3, <2>4 DEF LockInv
<1> QED
  BY <1>1, <1>2, <1>3 DEF Next

-----------------------------------------------------------------------------
\* Steps, for the invariants that follow.
LEMMA StepMoves ==
    ASSUME TypeInv, AllMeant, NEW c \in Calls, Step(c) \/ Dies(c)
    PROVE  /\ OthersStay(c)
           /\ Turned(call'[c], Known(c)) \/ Kept(c) \/ Begun(call'[c])
<1>1. CASE Begin(c)
  BY <1>1, BeginMoves
<1>2. CASE \E i \in Ids : ListOne(c, i)
  BY <1>2, ListOneMoves
<1>3. CASE ClaimChecks(c)
  BY <1>3, ClaimChecksMoves
<1>4. CASE UnassignListed(c) \/ BlockListed(c) \/ DeleteListed(c) \/ NotFound(c)
  BY <1>4, UnassignListedTurned, BlockListedTurned, DeleteListedTurned, NotFoundTurned
<1>5. CASE Lock(c)
  BY <1>5, LockMoves
<1>6. CASE Read(c)
  BY <1>6, ReadMoves
<1>7. CASE Open(c) \/ Write(c)
  BY <1>7, OpenMoves, WriteMoves
<1>8. CASE ReadNumbers(c) \/ OpenNew(c) \/ WriteNew(c)
  BY <1>8, ReadNumbersMoves, OpenNewMoves, WriteNewMoves
<1>9. CASE ReadMark(c) \/ WriteMark(c)
  BY <1>9, ReadMarkMoves, WriteMarkMoves
<1>10. CASE DeleteUnlinks(c)
  BY <1>10, DeleteUnlinksMoves
<1>11. CASE ResetClears(c) \/ ResetEnds(c) \/ \E i \in Ids : ResetUnlinks(c, i)
  BY <1>11, ResetMoves
<1>12. CASE Dies(c)
  BY <1>12, OverTurned, GoesTo DEF Dies
<1> QED
  BY <1>1, <1>2, <1>3, <1>4, <1>5, <1>6, <1>7, <1>8, <1>9, <1>10, <1>11, <1>12
     DEF Step

LEMMA MeantStep == TypeInv /\ AllMeant /\ [Next]_vars => AllMeant'
<1> SUFFICES ASSUME TypeInv, AllMeant, [Next]_vars PROVE AllMeant'
  OBVIOUS
<1>1. CASE UNCHANGED vars
  BY <1>1 DEF vars, AllMeant, Meant
<1>2. ASSUME NEW c \in Calls, Step(c) \/ Dies(c), NEW d \in Calls
      PROVE  \A m \in DOMAIN call'[d].work : Meant(call'[d], call'[d].work[m])
  <2>1. CASE d # c
    <3>1. /\ call'[d].work = call[d].work /\ call'[d].op = call[d].op
          /\ call'[d].agent = call[d].agent
      BY <1>2, <2>1, StepMoves DEF OthersStay, Same
    <3> QED
      BY <3>1 DEF AllMeant, Meant
  <2>2. CASE d = c /\ Turned(call'[c], Known(c))
    BY <2>2 DEF Turned
  <2>3. CASE d = c /\ Kept(c)
    BY <2>3 DEF AllMeant, Kept, Meant
  <2>4. CASE d = c /\ Begun(call'[c])
    BY <2>4 DEF Begun
  <2> QED
    BY <1>2, <2>1, <2>2, <2>3, <2>4, StepMoves
<1> QED
  BY <1>1, <1>2 DEF AllMeant, Next

\* Whose step changes the file of a task, and how.
Unlinks(i) == file'[i] = "absent" /\ task'[i] = NewTask /\ claimed'[i] = {}
Untouched(i) == file'[i] = file[i] /\ task'[i] = task[i] /\ claimed'[i] = claimed[i]
Writing(c, i) ==
    Holding(call[c]) /\ call[c].pc \in {"open", "write"} /\ Target(call[c]) = i

LEMMA FilesChange ==
    ASSUME TypeInv, AllMeant, NEW c \in Calls, Step(c) \/ Dies(c)
    PROVE  /\ \A i \in Ids :
                 \/ Untouched(i) \/ Unlinks(i)
                 \/ (Open(c) \/ Write(c)) /\ Writing(c, i)
                 \/ OpenNew(c) /\ i = call[c].n + 1
                 \/ WriteNew(c) /\ i = call[c].id
           /\ issued \subseteq issued' /\ reused \subseteq reused'
           /\ snatched \subseteq snatched'
<1> DEFINE Changed(i) == \/ Untouched(i) \/ Unlinks(i)
                         \/ (Open(c) \/ Write(c)) /\ Writing(c, i)
                         \/ OpenNew(c) /\ i = call[c].n + 1
                         \/ WriteNew(c) /\ i = call[c].id
           Goal == /\ \A i \in Ids : Changed(i)
                   /\ issued \subseteq issued' /\ reused \subseteq reused'
                   /\ snatched \subseteq snatched'
<1>1. CASE UNCHANGED <<file, task, claimed, issued, reused, snatched>>
  BY <1>1 DEF Untouched
<1>2. CASE Open(c) \/ Write(c)
  <2>1. \A i \in Ids : i = Target(call[c]) => Writing(c, i)
    BY <1>2, OpenMoves, WriteMoves DEF Holding, Writing
  <2>2. \A i \in Ids : i # Target(call[c]) => Untouched(i)
    BY <1>2 DEF Open, Write, Untouched, TypeInv, history
  <2>3. issued \subseteq issued' /\ reused \subseteq reused' /\ snatched \subseteq snatched'
    BY <1>2 DEF Open, Write, history
  <2> QED
    BY <1>2, <2>1, <2>2, <2>3
<1>3. CASE OpenNew(c)
  <2>1. \A i \in Ids : i # call[c].n + 1 => Untouched(i)
    BY <1>3 DEF OpenNew, Untouched, TypeInv
  <2>2. issued \subseteq issued' /\ reused \subseteq reused' /\ snatched \subseteq snatched'
    BY <1>3 DEF OpenNew
  <2> QED
    BY <1>3, <2>1, <2>2
<1>4. CASE WriteNew(c)
  <2>1. \A i \in Ids : i # call[c].id => Untouched(i)
    BY <1>4 DEF WriteNew, Untouched, TypeInv, history
  <2> QED
    BY <1>4, <2>1 DEF WriteNew, history
<1>5. ASSUME NEW j, Unlink(j), UNCHANGED <<issued, reused, snatched>> PROVE Goal
  BY <1>5 DEF Unlink, Untouched, Unlinks, TypeInv
<1>6. CASE DeleteUnlinks(c)
  BY <1>1, <1>5, <1>6 DEF DeleteUnlinks
<1>7. CASE \E i \in Ids : ResetUnlinks(c, i)
  BY <1>5, <1>7 DEF ResetUnlinks
<1>8. CASE Begin(c)
  BY <1>1, <1>8 DEF Begin, files, history
<1>9. CASE \E i \in Ids : ListOne(c, i)
  BY <1>1, <1>9 DEF ListOne, files, history
<1>10. CASE ClaimChecks(c) \/ Lock(c) \/ Read(c)
  BY <1>1, <1>10 DEF ClaimChecks, Lock, Read, files, history
<1>11. CASE UnassignListed(c) \/ BlockListed(c) \/ DeleteListed(c)
  <2>1. UNCHANGED <<files, locks, history>>
    BY <1>11 DEF UnassignListed, BlockListed, DeleteListed
  <2> QED
    BY <1>1, <2>1 DEF files, history
<1>12. CASE NotFound(c) \/ ReadNumbers(c)
  BY <1>1, <1>12 DEF NotFound, ReadNumbers, files, history
<1>13. CASE ReadMark(c) \/ WriteMark(c)
  BY <1>1, <1>13 DEF ReadMark, WriteMark, files, history
<1>14. CASE ResetClears(c) \/ ResetEnds(c) \/ Dies(c)
  BY <1>1, <1>14 DEF ResetClears, ResetEnds, Dies, files, history
<1> QED
  BY <1>2, <1>3, <1>4, <1>6, <1>7, <1>8, <1>9, <1>10, <1>11, <1>12, <1>13, <1>14
     DEF Step

-----------------------------------------------------------------------------
\* A call that writes the file of a new task opened it in this step or before.
LEMMA Creating ==
    ASSUME TypeInv, AllMeant, NEW c \in Calls, Step(c) \/ Dies(c),
           NEW d \in Calls, call'[d].op = "create", call'[d].pc = "write"
    PROVE  \/ d = c /\ OpenNew(c) /\ call'[d].id = call[c].n + 1
           \/ /\ d # c /\ call[d].op = "create" /\ call[d].pc = "write"
              /\ call[d].id = call'[d].id
<1>1. CASE d # c
  BY <1>1, StepMoves DEF OthersStay, Same
<1>2. CASE d = c
  <2>1. ~Turned(call'[c], Known(c)) /\ ~Begun(call'[c])
    BY <1>2 DEF Turned, Begun
  <2>2. CASE Begin(c)
    BY <2>1, <2>2, BeginMoves
  <2>3. CASE \E i \in Ids : ListOne(c, i)
    BY <1>2, <2>3, ListOneMoves
  <2>4. CASE ClaimChecks(c) \/ Lock(c) \/ Read(c) \/ Open(c)
    BY <1>2, <2>1, <2>4, ClaimChecksMoves, LockMoves, ReadMoves, OpenMoves
       DEF Kept, Updaters
  <2>5. CASE \/ UnassignListed(c) \/ BlockListed(c) \/ DeleteListed(c) \/ NotFound(c)
             \/ Write(c) \/ WriteNew(c)
    BY <2>1, <2>5, UnassignListedTurned, BlockListedTurned, DeleteListedTurned,
       NotFoundTurned, WriteMoves, WriteNewMoves
  <2>6. CASE ReadNumbers(c)
    BY <1>2, <2>6, ReadNumbersMoves
  <2>7. CASE OpenNew(c)
    BY <1>2, <2>7, OpenNewMoves
  <2>8. CASE \/ ReadMark(c) \/ WriteMark(c) \/ DeleteUnlinks(c) \/ ResetClears(c)
             \/ ResetEnds(c) \/ \E i \in Ids : ResetUnlinks(c, i)
    BY <1>2, <2>1, <2>8, ReadMarkMoves, WriteMarkMoves, DeleteUnlinksMoves,
       ResetMoves DEF Kept
  <2>9. CASE Dies(c)
    BY <2>1, <2>9, OverTurned, GoesTo DEF Dies
  <2> QED
    BY <2>2, <2>3, <2>4, <2>5, <2>6, <2>7, <2>8, <2>9 DEF Step
<1> QED
  BY <1>1, <1>2

\* The numbers that were given, and the tasks that are being created.
LEMMA IssuedStep ==
    TypeInv /\ AllMeant /\ LockInv /\ IssuedInv /\ [Next]_vars => IssuedInv'
<1> SUFFICES ASSUME TypeInv, AllMeant, LockInv, IssuedInv, [Next]_vars
             PROVE  IssuedInv'
  OBVIOUS
<1>1. CASE UNCHANGED vars
  BY <1>1 DEF vars, files, history, IssuedInv, Touched, Fresh
<1>2. ASSUME NEW c \in Calls, Step(c) \/ Dies(c)
      PROVE  IssuedInv'
  <2>1. Known(c) \subseteq issued /\ issued \subseteq issued'
    BY <1>2, FilesChange DEF Known, IssuedInv, Readable
  <2>2. ASSUME NEW d \in Calls
        PROVE  \/ Touched(call'[d]) \subseteq Touched(call[d])
               \/ d = c /\ Touched(call'[d]) \subseteq Known(c)
    <3>1. CASE d # c
      BY <1>2, <3>1, StepMoves DEF OthersStay, Same, Touched
    <3>2. CASE d = c
      BY <1>2, <3>2, StepMoves DEF Turned, Kept, Begun, Touched
    <3> QED
      BY <3>1, <3>2
  <2>3. \A d \in Calls : Touched(call'[d]) \subseteq issued'
    BY <2>1, <2>2 DEF IssuedInv
  <2>4. ASSUME NEW i \in Ids, Writing(c, i) PROVE i \in Touched(call[c])
    <3>1. call[c].work # <<>> /\ call[c] \in CallRec /\ Target(call[c]) = i
      BY <2>4, Held, CallType DEF Writing
    <3>2. 1 \in DOMAIN call[c].work /\ Head(call[c].work) = call[c].work[1]
      BY <3>1 DEF CallRec
    <3> QED
      BY <3>1, <3>2 DEF Touched, Target
  <2>5. ASSUME NEW i \in Ids, file'[i] # "absent" PROVE i \in issued'
    <3>1. CASE Untouched(i)
      BY <2>1, <2>5, <3>1 DEF Untouched, IssuedInv
    <3>2. CASE Unlinks(i)
      BY <2>5, <3>2 DEF Unlinks
    <3>3. CASE Writing(c, i)
      BY <2>1, <2>4, <3>3 DEF IssuedInv
    <3>4. CASE OpenNew(c) /\ i = call[c].n + 1
      BY <3>4 DEF OpenNew
    <3>5. CASE WriteNew(c) /\ i = call[c].id
      BY <2>1, <3>5 DEF WriteNew, IssuedInv
    <3> QED
      BY <1>2, <3>1, <3>2, <3>3, <3>4, <3>5, FilesChange
  <2>6. ASSUME NEW d \in Calls, call'[d].op = "create", call'[d].pc = "write"
        PROVE  \/ d = c /\ OpenNew(c) /\ call'[d].id = call[c].n + 1
               \/ /\ d # c /\ call[d].op = "create" /\ call[d].pc = "write"
                  /\ call[d].id = call'[d].id
    BY <1>2, <2>6, Creating
  <2>7. ASSUME NEW d \in Calls, call'[d].op = "create", call'[d].pc = "write"
        PROVE  call'[d].id \in issued'
    <3>1. CASE d = c /\ OpenNew(c) /\ call'[d].id = call[c].n + 1
      BY <3>1 DEF OpenNew
    <3>2. CASE /\ call[d].op = "create" /\ call[d].pc = "write"
               /\ call[d].id = call'[d].id
      BY <2>1, <3>2 DEF IssuedInv
    <3> QED
      BY <2>6, <2>7, <3>1, <3>2
  <2>8. ASSUME NEW d \in Calls, NEW i \in Ids, Fresh(d, i)'
        PROVE  /\ file'[i] # "whole" /\ claimed'[i] = {}
               /\ \A e \in Calls : i \notin Touched(call'[e])
    <3>1. CASE d = c /\ OpenNew(c) /\ call'[d].id = call[c].n + 1
      <4>1. i = call[c].n + 1 /\ i \notin issued
        BY <2>8, <3>1 DEF Fresh, OpenNew
      <4>2. file'[i] = "torn" /\ claimed'[i] = {}
        BY <3>1, <4>1 DEF OpenNew, TypeInv
      <4> QED
        BY <2>1, <2>2, <4>1, <4>2 DEF IssuedInv
    <3>2. CASE /\ d # c /\ call[d].op = "create" /\ call[d].pc = "write"
               /\ call[d].id = call'[d].id
      <4>1. Fresh(d, i)
        BY <1>2, <2>8, <3>2, FilesChange DEF Fresh
      <4>2. /\ file[i] # "whole" /\ claimed[i] = {}
            /\ \A e \in Calls : i \notin Touched(call[e])
        BY <4>1 DEF IssuedInv
      <4>3. \A e \in Calls : i \notin Touched(call'[e])
        BY <2>2, <4>2 DEF Known, Readable
      <4>4. ~ListLocked(call[c])
        BY <3>2 DEF LockInv, ListLocked
      <4>5. Untouched(i) \/ Unlinks(i)
        BY <1>2, <2>4, <4>2, <4>4, FilesChange, OpenNewMoves, WriteNewMoves DEF ListLocked
      <4> QED
        BY <4>2, <4>3, <4>5 DEF Untouched, Unlinks
    <3> QED
      BY <2>6, <2>8, <3>1, <3>2 DEF Fresh
  <2> QED
    BY <2>3, <2>5, <2>7, <2>8 DEF IssuedInv
<1> QED
  BY <1>1, <1>2 DEF Next

-----------------------------------------------------------------------------
\* Who holds a task.
LEMMA WriteHolders ==
    ASSUME TypeInv, AllMeant, ClaimInv, NEW c \in Calls, Write(c),
           ~call[c].ghost, Target(call[c]) \notin Mistaken'
    PROVE  LET k == call[c]
               t == Patched(k.read, Head(k.work).patch)
           IN  Holders(k, Target(k), t) \subseteq {t.owner}
<1> DEFINE k == call[c]
           i == Target(k)
           p == Head(k.work).patch
           t == Patched(k.read, p)
<1>1. /\ k \in CallRec /\ k.work # <<>> /\ k.op \in Updaters \cup {"claim"}
      /\ k.pc = "write" /\ i \in Ids /\ p \in Patches /\ k.read \in Task
  BY CallType, WriteMoves, TargetType DEF CallRec
<1>2. /\ "owner" \in DOMAIN p => t.owner = p.owner
      /\ "owner" \notin DOMAIN p => t.owner = k.read.owner
  BY <1>1, PatchedType
<1>3. Meant(k, Head(k.work))
  <2>1. 1 \in DOMAIN k.work /\ Head(k.work) = k.work[1]
    BY <1>1 DEF CallRec
  <2> QED
    BY <2>1 DEF AllMeant
<1>4. i \notin Mistaken /\ ~Snatches(k, t)
  BY <1>1 DEF Write, Mistaken
<1>5. claimed[i] \subseteq {k.read.owner} /\ claimed[i] \subseteq Agents
  BY <1>1, <1>4 DEF ClaimInv, Found, Holding
<1> HIDE DEF t, p
<1>6. NoOne \notin Agents
  BY TaskListConstants DEF TaskListConstants
<1>7. CASE k.op = "claim"
  <2>1. t.owner = k.agent /\ k.read.owner \in {NoOne, k.agent}
    BY <1>1, <1>2, <1>3, <1>7 DEF Meant, p, ClaimInv, Found
  <2> QED
    BY <1>5, <1>6, <1>7, <2>1 DEF Holders, t, p
<1>8. CASE k.op = "assign"
  <2>1. t.owner = k.agent
    BY <1>2, <1>3, <1>8 DEF Meant, p
  <2> QED
    BY <1>8, <2>1 DEF Holders, t, p
<1>9. CASE k.op = "start" /\ t.owner # k.read.owner
  <2>1. t.owner = k.agent
    BY <1>2, <1>3, <1>9 DEF Meant, p
  <2>2. k.read.owner \in {NoOne, k.agent}
    BY <1>4, <1>9 DEF Snatches
  <2> QED
    BY <1>5, <1>6, <1>9, <2>1, <2>2 DEF Holders, t, p
<1>10. CASE k.op = "start" /\ t.owner = k.read.owner
  BY <1>5, <1>10 DEF Holders, t, p
<1>11. CASE k.op \in {"unassign", "release"}
  <2>1. t.owner = NoOne
    BY <1>2, <1>3, <1>11 DEF Meant, p
  <2>2. k.read.owner \in {NoOne, k.agent}
    BY <1>4, <1>11, <2>1 DEF Snatches
  <2> QED
    BY <1>5, <1>6, <1>11, <2>2 DEF Holders, t, p
<1>12. CASE k.op = "complete"
  BY <1>12 DEF Holders, t, p
<1>13. CASE k.op = "update"
  <2>1. t.owner = k.read.owner
    BY <1>2, <1>3, <1>13 DEF Meant, p
  <2> QED
    BY <1>5, <1>13, <2>1 DEF Holders, t, p
<1> QED
  BY <1>1, <1>7, <1>8, <1>9, <1>10, <1>11, <1>12, <1>13 DEF Updaters, t, p

LEMMA FoundStays ==
    ASSUME TypeInv, AllMeant, LockInv, ClaimInv, NEW c \in Calls, Step(c) \/ Dies(c),
           NEW d \in Calls \ {c}
    PROVE  Found(d)'
<1> DEFINE k == call[d]
           i == Target(k)
<1>1. Same(call'[d], k) /\ Target(call'[d]) = i
  BY StepMoves, SameHolds DEF OthersStay
<1>2. Holding(call'[d]) <=> Holding(k)
  BY StepMoves, SameHolds DEF OthersStay
<1>3. Mistaken \subseteq Mistaken'
  BY FilesChange DEF Mistaken
<1>4. CASE ~Holding(k)
  BY <1>1, <1>2, <1>4 DEF Found, Holding, Same
<1>5. CASE Holding(k)
  <2>1. i \in Ids /\ ~Writing(c, i)
    BY <1>5, Held DEF LockInv, TaskLocks, Writing
  <2>2. /\ claimed'[i] \subseteq claimed[i]
        /\ task'[i].owner \in {NoOne, task[i].owner}
    <3>1. CASE Untouched(i)
      BY <3>1 DEF Untouched
    <3>2. CASE Unlinks(i)
      BY <3>2 DEF Unlinks, NewTask
    <3>3. CASE OpenNew(c) /\ i = call[c].n + 1
      BY <2>1, <3>3 DEF OpenNew, TypeInv
    <3>4. CASE WriteNew(c) /\ i = call[c].id
      BY <2>1, <3>4 DEF WriteNew, TypeInv, NewTask, history
    <3> QED
      BY <2>1, <3>1, <3>2, <3>3, <3>4, FilesChange
  <2>3. Found(d)
    BY DEF ClaimInv
  <2> QED
    BY <1>1, <1>2, <1>3, <1>5, <2>2, <2>3 DEF Found, Same
<1> QED
  BY <1>4, <1>5

LEMMA FoundMoves ==
    ASSUME TypeInv, AllMeant, LockInv, ClaimInv, NEW c \in Calls, Step(c) \/ Dies(c)
    PROVE  Found(c)'
<1> DEFINE k == call[c]
           i == Target(k)
<1>1. ASSUME Turned(call'[c], Known(c)) \/ Begun(call'[c])
               \/ call'[c].op \notin Updaters \cup {"claim"}
      PROVE  Found(c)'
  BY <1>1 DEF Turned, Begun, Found, Holding, Updaters
<1>2. ASSUME UNCHANGED <<task, claimed, snatched, reused>>, Kept(c),
             k.op = "claim" /\ k.pc = "list", call'[c].pc \in {"list", "read"}
      PROVE  Found(c)'
  <2>1. Target(call'[c]) = i
    BY <1>2, CallType, KeptTarget DEF Fit, Updaters
  <2> QED
    BY <1>2, <2>1 DEF ClaimInv, Found, Kept, Holding, Updaters
<1>3. CASE Begin(c)
  BY <1>1, <1>3, BeginMoves
<1>4. CASE \E j \in Ids : ListOne(c, j)
  <2>1. CASE k.op = "claim"
    BY <1>2, <1>4, <2>1, ListOneMoves DEF ListOne, files, history
  <2>2. CASE k.op # "claim"
    BY <1>4, <2>2, ListOneMoves, CallType DEF Found, Holding, Kept, Fit, Updaters
  <2> QED
    BY <2>1, <2>2
<1>5. CASE ClaimChecks(c)
  BY <1>1, <1>2, <1>5, ClaimChecksMoves DEF ClaimChecks, files, history
<1>6. CASE \/ UnassignListed(c) \/ BlockListed(c) \/ DeleteListed(c) \/ NotFound(c)
           \/ Write(c) \/ WriteNew(c) \/ ResetEnds(c)
  BY <1>1, <1>6, UnassignListedTurned, BlockListedTurned, DeleteListedTurned,
     NotFoundTurned, WriteMoves, WriteNewMoves, ResetMoves
<1>7. CASE Lock(c)
  <2>1. CASE Turned(call'[c], Known(c))
    BY <1>1, <2>1
  <2>2. CASE ~Turned(call'[c], Known(c))
    <3>1. /\ call'[c].read = task[i] /\ Kept(c) /\ i \in Ids
          /\ k.op = "claim" => task[i].owner \in {NoOne, k.agent}
          /\ call'[c].pc = IF k.op = "claim" THEN "list" ELSE "open"
      BY <1>7, <2>2, LockMoves
    <3>2. UNCHANGED <<task, claimed, snatched, reused>>
      BY <1>7 DEF Lock, files, history
    <3>3. Target(call'[c]) = i
      BY <1>7, <3>1, CallType, KeptTarget DEF Fit, Lock
    <3> QED
      BY <3>1, <3>2, <3>3 DEF ClaimInv, Owners, Mistaken, Found, Kept
  <2> QED
    BY <2>1, <2>2
<1>8. CASE Read(c)
  <2>1. CASE Turned(call'[c], Known(c))
    BY <1>1, <2>1
  <2>2. CASE ~Turned(call'[c], Known(c))
    <3>1. /\ call'[c].read = task[i] /\ Kept(c) /\ i \in Ids
          /\ k.op = "claim" /\ k.pc = "read" /\ call'[c].pc = "open"
      BY <1>8, <2>2, ReadMoves
    <3>2. UNCHANGED <<task, claimed, snatched, reused>>
      BY <1>8 DEF Read, files, history
    <3>3. Target(call'[c]) = i
      BY <3>1, CallType, KeptTarget DEF Fit, Updaters
    <3>4. task[i].owner \in {NoOne, k.agent}
      BY <3>1 DEF ClaimInv, Found
    <3> QED
      BY <3>1, <3>2, <3>3, <3>4 DEF ClaimInv, Owners, Mistaken, Found, Kept
  <2> QED
    BY <2>1, <2>2
<1>9. CASE Open(c)
  <2>1. /\ Kept(c) /\ k.pc = "open" /\ call'[c].pc = "write"
        /\ call'[c].read = k.read /\ k.op \in Updaters \cup {"claim"}
    BY <1>9, OpenMoves
  <2>2. UNCHANGED <<task, claimed, snatched, reused>>
    BY <1>9 DEF Open, history
  <2>3. Target(call'[c]) = i
    BY <2>1, CallType, KeptTarget DEF Fit, Updaters
  <2> QED
    BY <2>1, <2>2, <2>3 DEF ClaimInv, Mistaken, Found, Kept, Holding
<1>10. CASE ReadNumbers(c) \/ OpenNew(c)
  BY <1>1, <1>10, ReadNumbersMoves, OpenNewMoves DEF Kept, Updaters
<1>11. CASE \/ ReadMark(c) \/ WriteMark(c) \/ DeleteUnlinks(c) \/ ResetClears(c)
            \/ \E j \in Ids : ResetUnlinks(c, j)
  BY <1>1, <1>11, ReadMarkMoves, WriteMarkMoves, DeleteUnlinksMoves, ResetMoves
     DEF Kept, Updaters
<1>12. CASE Dies(c)
  BY <1>1, <1>12, OverTurned, GoesTo DEF Dies
<1> QED
  BY <1>3, <1>4, <1>5, <1>6, <1>7, <1>8, <1>9, <1>10, <1>11, <1>12 DEF Step

LEMMA ClaimStep ==
    TypeInv /\ AllMeant /\ LockInv /\ IssuedInv /\ ClaimInv /\ [Next]_vars => ClaimInv'
<1> SUFFICES ASSUME TypeInv, AllMeant, LockInv, IssuedInv, ClaimInv, [Next]_vars
             PROVE  ClaimInv'
  OBVIOUS
<1>1. CASE UNCHANGED vars
  BY <1>1 DEF vars, files, history, ClaimInv, Owners, Mistaken, Found
<1>2. ASSUME NEW c \in Calls, Step(c) \/ Dies(c)
      PROVE  ClaimInv'
  <2>1. \A d \in Calls : Found(d)'
    BY <1>2, FoundStays, FoundMoves
  <2>2. ASSUME NEW i \in Ids
        PROVE  /\ claimed'[i] \subseteq Agents
               /\ i \notin Mistaken' => claimed'[i] \subseteq {task'[i].owner}
    <3> DEFINE Good == /\ claimed'[i] \subseteq Agents
                       /\ i \notin Mistaken' => claimed'[i] \subseteq {task'[i].owner}
    <3>1. /\ claimed[i] \subseteq Agents /\ Mistaken \subseteq Mistaken'
          /\ i \notin Mistaken => claimed[i] \subseteq {task[i].owner}
      BY <1>2, FilesChange DEF ClaimInv, Owners, Mistaken
    <3>2. CASE Untouched(i)
      BY <3>1, <3>2 DEF Untouched
    <3>3. CASE Unlinks(i)
      BY <3>3 DEF Unlinks
    <3>4. CASE OpenNew(c) /\ i = call[c].n + 1
      BY <3>4 DEF OpenNew, TypeInv
    <3>5. CASE WriteNew(c) /\ i = call[c].id
      <4>1. i \notin Mistaken' => Fresh(c, i)
        BY <1>2, <3>5, FilesChange DEF Fresh, WriteNew, Mistaken
      <4>2. Fresh(c, i) => claimed[i] = {}
        BY DEF IssuedInv
      <4>3. claimed' = claimed
        BY <3>5 DEF WriteNew, history
      <4> QED
        BY <3>1, <4>1, <4>2, <4>3
    <3>6. CASE Open(c)
      BY <3>1, <3>6 DEF Open, history
    <3>7. CASE Write(c) /\ Writing(c, i)
      <4> DEFINE k == call[c]
                 t == Patched(k.read, Head(k.work).patch)
      <4>1. CASE k.ghost
        BY <3>1, <3>7, <4>1 DEF Write, TypeInv
      <4>2. CASE ~k.ghost
        <5>1. Target(k) = i
          BY <3>7 DEF Writing
        <5>2. /\ claimed' = [claimed EXCEPT ![Target(k)] = Holders(k, Target(k), t)]
              /\ task' = [task EXCEPT ![Target(k)] = t]
          BY <3>7, <4>2 DEF Write
        <5>3. claimed'[i] = Holders(k, i, t) /\ task'[i] = t
          BY <5>1, <5>2 DEF TypeInv
        <5>4. i \notin Mistaken' => Holders(k, i, t) \subseteq {t.owner}
          BY <3>7, <4>2, <5>1, WriteHolders
        <5>5. Holders(k, i, t) \subseteq Agents
          <6>1. k.work # <<>> /\ k.work \in Seq(Updates)
            BY <3>7, WriteMoves, CallType DEF CallRec
          <6>2. 1 \in DOMAIN k.work
            BY <6>1
          <6>3. k.op \in {"claim", "assign", "start"} => k.agent \in Agents
            BY <6>2 DEF AllMeant, Meant
          <6> HIDE DEF t
          <6> QED
            BY <3>1, <6>3 DEF Holders
        <5> QED
          BY <5>3, <5>4, <5>5
      <4> QED
        BY <4>1, <4>2
    <3> QED
      BY <1>2, <3>2, <3>3, <3>4, <3>5, <3>6, <3>7, FilesChange
  <2>3. claimed' \in [Ids -> SUBSET Agents]
    <3>1. claimed' \in [Ids -> SUBSET (Agents \cup {NoOne})]
      BY TypeStep DEF TypeInv
    <3> QED
      BY <2>2, <3>1
  <2> QED
    BY <2>1, <2>2, <2>3 DEF ClaimInv, Owners
<1> QED
  BY <1>1, <1>2 DEF Next

-----------------------------------------------------------------------------
\* The numbers of tasks.
LEMMA NumberTypes ==
    ASSUME TypeInv
    PROVE  /\ mark \in Nat /\ \A i \in Ids : i \in Nat /\ i > 0
           /\ \A c \in Calls : call[c].n \in Nat /\ call[c].id \in Nat
           /\ \A i \in issued : i \in Ids
           /\ \A i \in Existing : i \in Ids
BY CallType, TaskListConstants
   DEF TypeInv, CallRec, Existing, Ids, TaskListConstants

\* Who numbers a task, deletes one or resets the list.
LEMMA WhoNumbers ==
    ASSUME TypeInv, NEW c \in Calls, Numbering(c)
    PROVE  Deleting(c) \/ ListLocked(call[c])
BY CallType DEF Numbering, Deleting, ListLocked, Fit, Updaters

LEMMA Alone ==
    ASSUME TypeInv, LockInv, ~Races, NEW c \in Calls, NEW d \in Calls, c # d,
           call[c].pc \in {"open_mark", "write_mark"}
    PROVE  ~Numbering(d) /\ ~Deleting(d)
<1>1. Numbering(c)
  BY DEF Numbering
<1>2. CASE Deleting(c)
  BY <1>2 DEF Races
<1>3. CASE ListLocked(call[c])
  <2>1. ~Deleting(d)
    BY <1>1 DEF Races
  <2>2. ~ListLocked(call[d])
    BY <1>3 DEF LockInv
  <2> QED
    BY <2>1, <2>2, WhoNumbers
<1> QED
  BY <1>1, <1>2, <1>3, WhoNumbers

LEMMA MarkMoves ==
    ASSUME TypeInv, AllMeant, NEW c \in Calls, Step(c), ~WriteMark(c)
    PROVE  mark' = mark /\ call[c].pc # "write_mark"
<1>1. CASE Begin(c)
  BY <1>1 DEF Begin, At, files
<1>2. CASE \E i \in Ids : ListOne(c, i)
  BY <1>2 DEF ListOne, files
<1>3. CASE ClaimChecks(c)
  BY <1>3 DEF ClaimChecks, Listed, At, files
<1>4. CASE UnassignListed(c) \/ BlockListed(c) \/ DeleteListed(c)
  <2>1. Listed(c) /\ UNCHANGED <<files, locks, history>>
    BY <1>4 DEF UnassignListed, BlockListed, DeleteListed
  <2> QED
    BY <2>1 DEF Listed, At, files
<1>5. CASE NotFound(c) \/ Lock(c)
  BY <1>5 DEF NotFound, Lock, files
<1>6. CASE Read(c)
  BY <1>6 DEF Read, files
<1>7. CASE Open(c) \/ Write(c)
  BY <1>7 DEF Open, Write
<1>8. CASE ReadNumbers(c)
  BY <1>8 DEF ReadNumbers, files
<1>9. CASE OpenNew(c) \/ WriteNew(c) \/ DeleteUnlinks(c)
  BY <1>9 DEF OpenNew, WriteNew, DeleteUnlinks
<1>10. CASE ReadMark(c)
  BY <1>10 DEF ReadMark, files
<1>11. CASE ResetClears(c) \/ ResetEnds(c) \/ \E i \in Ids : ResetUnlinks(c, i)
  BY <1>11 DEF ResetClears, ResetEnds, ResetUnlinks, At, files
<1> QED
  BY <1>1, <1>2, <1>3, <1>4, <1>5, <1>6, <1>7, <1>8, <1>9, <1>10, <1>11 DEF Step

Ready(c) ==
    /\ TypeInv /\ AllMeant /\ LockInv /\ IssuedInv /\ ~raced /\ NumberInv
    /\ \/ Step(c)
       \/ Dies(c) /\ ~At(c, "write_mark")

LEMMA CoversStays ==
    ASSUME NEW c \in Calls, Ready(c), NEW i \in Nat, Covers(i)
    PROVE  Covers(i)'
<1>1. OthersStay(c) /\ mark \in Nat /\ \A d \in Calls : call[d].n \in Nat
  BY StepMoves, NumberTypes DEF Ready
<1>2. ASSUME NEW d \in Calls, call[d].pc = "write_mark", i <= call[d].n, d # c
      PROVE  Covers(i)'
  BY <1>1, <1>2 DEF OthersStay, Same, Covers
<1>3. CASE WriteMark(c)
  <2>1. call[c].pc \in {"open_mark", "write_mark"}
    BY <1>3 DEF WriteMark
  <2>2. call[c].n > mark
    BY <2>1 DEF Ready, NumberInv, Numbered
  <2>3. CASE call[c].pc = "open_mark" /\ call'[c].pc = "write_mark" /\ call'[c].n = call[c].n
    <3>1. i <= mark => i <= call'[c].n
      BY <1>1, <2>2, <2>3
    <3> QED
      BY <1>2, <2>3, <3>1 DEF Covers
  <2>4. CASE call[c].pc = "write_mark" /\ mark' = call[c].n
    BY <1>1, <1>2, <2>2, <2>4 DEF Covers
  <2> QED
    BY <1>3, <2>3, <2>4, WriteMarkMoves DEF Ready
<1>4. CASE ~WriteMark(c)
  <2>1. mark' = mark /\ call[c].pc # "write_mark"
    <3>1. CASE Step(c)
      BY <1>4, <3>1, MarkMoves DEF Ready
    <3>2. CASE ~Step(c)
      BY <3>2 DEF Ready, Dies, At, files
    <3> QED
      BY <3>1, <3>2
  <2> QED
    BY <1>2, <2>1 DEF Covers
<1> QED
  BY <1>3, <1>4

\* What becomes of the files.
LEMMA ExistingStays ==
    ASSUME NEW c \in Calls, Ready(c)
    PROVE  \/ Existing \subseteq Existing'
           \/ DeleteUnlinks(c) /\ Existing \subseteq Existing' \cup {call[c].id}
           \/ \E i \in Ids : ResetUnlinks(c, i)
<1>1. CASE DeleteUnlinks(c)
  <2>1. UNCHANGED file \/ file' = [file EXCEPT ![call[c].id] = "absent"]
    BY <1>1 DEF DeleteUnlinks, Unlink
  <2> QED
    BY <1>1, <2>1 DEF Existing, Ready, TypeInv
<1>2. CASE ~DeleteUnlinks(c) /\ ~\E i \in Ids : ResetUnlinks(c, i)
  <2>1. \/ UNCHANGED file
        \/ \E i \in Ids, f \in {"torn", "whole"} : file' = [file EXCEPT ![i] = f]
    <3>1. CASE Open(c) \/ Write(c)
      BY <3>1, OpenMoves, WriteMoves DEF Ready, Open, Write
    <3>2. CASE OpenNew(c) \/ WriteNew(c)
      BY <3>2, OpenNewMoves, WriteNewMoves DEF Ready, OpenNew, WriteNew
    <3>3. CASE Begin(c) \/ \E i \in Ids : ListOne(c, i)
      BY <3>3 DEF Begin, ListOne, files
    <3>4. CASE ClaimChecks(c) \/ Lock(c) \/ Read(c)
      BY <3>4 DEF ClaimChecks, Lock, Read, files
    <3>5. CASE UnassignListed(c) \/ BlockListed(c) \/ DeleteListed(c)
      <4>1. UNCHANGED <<files, locks, history>>
        BY <3>5 DEF UnassignListed, BlockListed, DeleteListed
      <4> QED
        BY <4>1 DEF files
    <3>6. CASE NotFound(c) \/ ReadNumbers(c) \/ ReadMark(c) \/ WriteMark(c)
      BY <3>6 DEF NotFound, ReadNumbers, ReadMark, WriteMark, files
    <3>7. CASE ResetClears(c) \/ ResetEnds(c) \/ Dies(c)
      BY <3>7 DEF ResetClears, ResetEnds, Dies, files
    <3> QED
      BY <1>2, <3>1, <3>2, <3>3, <3>4, <3>5, <3>6, <3>7 DEF Ready, Step
  <2> QED
    BY <2>1 DEF Existing, Ready, TypeInv
<1> QED
  BY <1>1, <1>2

LEMMA AccountedStays ==
    ASSUME NEW c \in Calls, Ready(c), NEW i \in issued
    PROVE  Accounted(i)'
<1>0. i \in Nat /\ TypeInv /\ NumberInv /\ ~raced
  BY NumberTypes DEF Ready
<1>1. CASE Covers(i)
  BY <1>0, <1>1, CoversStays DEF Accounted
<1>2. CASE ~Covers(i)
  <2>1. PICK j \in Existing : i <= j
    BY <1>0, <1>2 DEF NumberInv, Accounted
  <2>2. CASE Existing \subseteq Existing'
    BY <2>1, <2>2 DEF Accounted
  <2>3. CASE DeleteUnlinks(c) /\ Existing \subseteq Existing' \cup {call[c].id}
    <3>1. Covers(call[c].id)
      BY <1>0, <2>3, DeleteUnlinksMoves DEF Ready, NumberInv, Numbered
    <3>2. j # call[c].id
      <4>1. /\ call[c].id \in Nat /\ mark \in Nat
            /\ \A d \in Calls : call[d].n \in Nat
        BY <1>0, NumberTypes
      <4> QED
        BY <1>0, <1>2, <2>1, <3>1, <4>1 DEF Covers
    <3> QED
      BY <2>1, <2>3, <3>2 DEF Accounted
  <2>4. CASE \E m \in Ids : ResetUnlinks(c, m)
    BY <1>0, <1>2, <2>4, ResetMoves DEF Ready, NumberInv, Numbered
  <2> QED
    BY <2>2, <2>3, <2>4, ExistingStays
<1> QED
  BY <1>1, <1>2

LEMMA IssuedMoves ==
    ASSUME NEW c \in Calls, Ready(c), ~OpenNew(c)
    PROVE  issued' = issued /\ reused' = reused
<1>1. CASE Begin(c) \/ \E i \in Ids : ListOne(c, i)
  BY <1>1 DEF Begin, ListOne, history
<1>2. CASE ClaimChecks(c) \/ Lock(c) \/ Read(c) \/ Open(c)
  BY <1>2 DEF ClaimChecks, Lock, Read, Open, history
<1>3. CASE UnassignListed(c) \/ BlockListed(c) \/ DeleteListed(c)
  <2>1. UNCHANGED <<files, locks, history>>
    BY <1>3 DEF UnassignListed, BlockListed, DeleteListed
  <2> QED
    BY <2>1 DEF history
<1>4. CASE Write(c) \/ DeleteUnlinks(c) \/ \E i \in Ids : ResetUnlinks(c, i)
  BY <1>4 DEF Write, DeleteUnlinks, ResetUnlinks
<1>5. CASE NotFound(c) \/ ReadNumbers(c) \/ ReadMark(c) \/ WriteMark(c)
  BY <1>5 DEF NotFound, ReadNumbers, ReadMark, WriteMark, history
<1>6. CASE WriteNew(c) \/ ResetClears(c) \/ ResetEnds(c) \/ Dies(c)
  BY <1>6 DEF WriteNew, ResetClears, ResetEnds, Dies, history
<1> QED
  BY <1>1, <1>2, <1>3, <1>4, <1>5, <1>6 DEF Ready, Step

LEMMA NumberedStays ==
    ASSUME NEW c \in Calls, Ready(c), NEW d \in Calls \ {c}
    PROVE  Numbered(d)'
<1> DEFINE k == call[d]
<1>0. /\ TypeInv /\ AllMeant /\ LockInv /\ NumberInv /\ ~raced /\ ~Races
      /\ Numbered(d)
  BY DEF Ready, NumberInv
<1>1. Same(call'[d], k)
  BY <1>0, StepMoves DEF Ready, OthersStay
<1>2. \A i \in issued : Covers(i) => Covers(i)'
  BY <1>0, NumberTypes, CoversStays
<1>3. ListLocked(k) => ~ListLocked(call[c])
  BY <1>0 DEF LockInv
<1>4. ListLocked(k) => issued' = issued
  BY <1>0, <1>3, OpenNewMoves, IssuedMoves DEF ListLocked
<1>5. Numbering(d) => mark' = mark
  <2> SUFFICES ASSUME Numbering(d) PROVE mark' = mark
    OBVIOUS
  <2>1. ~WriteMark(c)
    BY <1>0, Alone DEF WriteMark
  <2>2. CASE Step(c)
    BY <1>0, <2>1, <2>2, MarkMoves
  <2>3. CASE Dies(c)
    BY <2>3 DEF Dies, files
  <2> QED
    BY <2>2, <2>3 DEF Ready
<1>6. k.op = "create" /\ k.pc = "files" => Existing \subseteq Existing'
  <2> SUFFICES ASSUME k.op = "create", k.pc = "files"
               PROVE  Existing \subseteq Existing'
    OBVIOUS
  <2>1. ~DeleteUnlinks(c)
    BY <1>0, DeleteUnlinksMoves DEF Races, Deleting, Numbering
  <2>2. ~\E i \in Ids : ResetUnlinks(c, i)
    BY <1>0, <1>3, ResetMoves DEF ListLocked
  <2> QED
    BY <2>1, <2>2, ExistingStays
<1>7. k.pc \in {"mark", "open_mark", "write_mark"} => mark' = mark
  BY <1>5 DEF Numbering
<1>8. (k.op = "create" /\ k.pc = "files")' =>
         \A i \in issued' : i <= call'[d].n \/ \E j \in Existing' : i <= j
  BY <1>0, <1>1, <1>4, <1>6 DEF Numbered, Same, ListLocked
<1>9. (k.op = "create" /\ k.pc = "mark")' =>
         \A i \in issued' : i <= call'[d].n \/ i <= mark'
  BY <1>0, <1>1, <1>4, <1>7 DEF Numbered, Same, ListLocked
<1>10. (k.op = "create" /\ k.pc = "open_new")' => \A i \in issued' : i <= call'[d].n
  BY <1>0, <1>1, <1>4 DEF Numbered, Same, ListLocked
<1>11. (k.op = "reset" /\ k.pc \in {"mark", "open_mark", "write_mark"})' =>
         \A i \in issued' : i <= call'[d].n \/ Covers(i)'
  BY <1>0, <1>1, <1>2, <1>4 DEF Numbered, Same, ListLocked
<1>12. (k.op = "reset" /\ k.pc \in {"clear", "sweep"})' =>
         \A i \in issued' : Covers(i)'
  BY <1>0, <1>1, <1>2, <1>4 DEF Numbered, Same, ListLocked
<1>13. /\ (k.op = "delete" /\ k.pc \in {"mark", "open_mark", "write_mark"})' =>
            call'[d].n = call'[d].id
       /\ (k.pc \in {"open_mark", "write_mark"})' => call'[d].n > mark'
  BY <1>0, <1>1, <1>7 DEF Numbered, Same
<1>14. (k.op = "delete" /\ k.pc = "unlink")' => Covers(call[d].id)'
  <2> SUFFICES ASSUME (k.op = "delete" /\ k.pc = "unlink")'
               PROVE  Covers(call[d].id)'
    OBVIOUS
  <2>1. Covers(k.id) /\ call'[d].id = k.id /\ k.id \in Nat
    BY <1>0, <1>1, NumberTypes DEF Numbered, Same
  <2>2. PICK i \in Nat : i = k.id
    BY <2>1
  <2>3. Covers(i)'
    <3>1. Covers(i)
      BY <2>1, <2>2
    <3> QED
      BY <3>1, CoversStays
  <2> QED
    BY <2>1, <2>2, <2>3 DEF Covers
<1> QED
  BY <1>8, <1>9, <1>10, <1>11, <1>12, <1>13, <1>14 DEF Numbered

\* A call whose record says nothing of numbers.
LEMMA Numberless ==
    ASSUME NEW c \in Calls,
           call'[c].op = "create" => call'[c].pc \in {"number", "write"},
           call'[c].op = "reset" => call'[c].pc = "files",
           call'[c].op = "delete" => call'[c].pc = "list",
           call'[c].op \notin {"create", "reset", "delete"} =>
              call'[c].pc \notin {"open_mark", "write_mark"}
    PROVE  Numbered(c)'
BY DEF Numbered

LEMMA TurnedNumberless ==
    ASSUME NEW c \in Calls, NEW S, Turned(call'[c], S)
    PROVE  Numbered(c)'
BY DEF Numbered, Turned, Updaters

LEMMA ReadNumbersNumbered ==
    ASSUME NEW c \in Calls, Ready(c), ReadNumbers(c)
    PROVE  Numbered(c)'
<1> DEFINE k == call[c]
           r == call'[c]
<1>0. /\ TypeInv /\ AllMeant /\ LockInv /\ NumberInv /\ ~raced /\ ~Races
      /\ Numbered(c) /\ \A i \in issued : Accounted(i)
  BY DEF Ready, NumberInv
<1>1. /\ r.op = k.op /\ k.op \in {"create", "reset"} /\ OthersStay(c)
      /\ r.n \in Nat /\ k.n \in Nat /\ mark \in Nat
      /\ issued' = issued /\ mark' = mark /\ Existing' = Existing
  <2>1. UNCHANGED <<files, locks, history>>
    BY DEF ReadNumbers
  <2>2. issued' = issued /\ mark' = mark /\ Existing' = Existing
    BY <2>1 DEF history, files, Existing
  <2>3. r.n \in 0 .. MaxId /\ r.op = k.op /\ k.op \in {"create", "reset"} /\ OthersStay(c)
    BY <1>0, ReadNumbersMoves DEF Kept
  <2>4. r.n \in Nat
    BY <2>3, TaskListConstants DEF TaskListConstants
  <2> QED
    BY <1>0, <2>2, <2>3, <2>4, NumberTypes
<1>2. \A i \in issued : i \in Nat /\ (Covers(i) => Covers(i)')
  BY <1>0, NumberTypes, CoversStays
<1>3. ASSUME k.op = "create", Numbering(c), NEW i \in issued
      PROVE  i <= mark \/ \E j \in Existing : i <= j
  <2>1. \A d \in Calls : d # c => call[d].pc # "write_mark"
    BY <1>0, <1>3, Alone
  <2>2. k.pc # "write_mark"
    BY <1>0, <1>3, CallType DEF Fit, Updaters
  <2> QED
    BY <1>0, <2>1, <2>2 DEF Accounted, Covers
<1>4. CASE /\ k.op = "create" /\ k.pc = "number" /\ r.pc = "mark"
           /\ IsHighest(r.n, Numbers(k))
  <2>1. \A i \in issued : i <= r.n \/ i <= mark
    <3> SUFFICES ASSUME NEW i \in issued, ~(i <= mark) PROVE i <= r.n
      OBVIOUS
    <3>1. PICK j \in Existing : i <= j
      BY <1>3, <1>4 DEF Numbering
    <3>2. j <= r.n /\ j \in Nat
      BY <1>0, <1>4, NumberTypes DEF IsHighest, Numbers, Existing, Ids
    <3> QED
      BY <1>1, <1>2, <3>1, <3>2
  <2> QED
    BY <1>1, <1>4, <2>1 DEF Numbered
<1>5. CASE k.op = "create" /\ k.pc = "number" /\ r.n = mark /\ r.pc = "files"
  <2>1. \A i \in issued : i <= r.n \/ \E j \in Existing : i <= j
    BY <1>3, <1>5 DEF Numbering
  <2> QED
    BY <1>1, <1>5, <2>1 DEF Numbered
<1>6. CASE /\ k.op = "create" /\ k.pc = "files" /\ r.pc = "open_new"
           /\ IsHighest(r.n, Numbers(k))
  <2>1. \A i \in issued : i <= r.n
    <3> SUFFICES ASSUME NEW i \in issued PROVE i <= r.n
      OBVIOUS
    <3>1. i <= k.n \/ \E j \in Existing : i <= j
      BY <1>0, <1>6 DEF Numbered
    <3>2. PICK j \in Numbers(k) : i <= j
      BY <3>1 DEF Numbers
    <3>3. j <= r.n /\ j \in Nat
      BY <1>0, <1>1, <1>6, NumberTypes DEF IsHighest, Numbers, Existing, Ids
    <3> QED
      BY <1>1, <1>2, <3>2, <3>3
  <2> QED
    BY <1>1, <1>6, <2>1 DEF Numbered
<1>7. CASE /\ k.op = "create" /\ k.pc = "mark" /\ r.pc = "open_new"
           /\ r.n = IF mark > k.n THEN mark ELSE k.n
  <2>1. \A i \in issued : i <= r.n
    BY <1>0, <1>1, <1>2, <1>7 DEF Numbered
  <2> QED
    BY <1>1, <1>7, <2>1 DEF Numbered
<1>8. CASE /\ k.op = "reset" /\ IsHighest(r.n, Numbers(k))
           /\ r.pc = IF r.n = 0 THEN "clear" ELSE "mark"
  <2>1. \A i \in issued : (r.n > 0 /\ i <= r.n) \/ Covers(i)
    <3> SUFFICES ASSUME NEW i \in issued, ~Covers(i) PROVE r.n > 0 /\ i <= r.n
      OBVIOUS
    <3>1. PICK j \in Existing : i <= j
      BY <1>0 DEF Accounted
    <3>2. j <= r.n /\ j \in Nat /\ j > 0
      BY <1>0, <1>8, NumberTypes DEF IsHighest, Numbers, Existing, Ids
    <3> QED
      BY <1>1, <1>2, <3>1, <3>2
  <2>2. \A i \in issued : i <= r.n \/ Covers(i)'
    BY <1>2, <2>1
  <2>3. r.n = 0 => \A i \in issued : Covers(i)'
    BY <1>1, <1>2, <2>1
  <2> QED
    BY <1>1, <1>8, <2>2, <2>3 DEF Numbered
<1> QED
  BY <1>0, <1>1, <1>4, <1>5, <1>6, <1>7, <1>8, ReadNumbersMoves

LEMMA MarkNumbered ==
    ASSUME NEW c \in Calls, Ready(c), ReadMark(c) \/ WriteMark(c)
    PROVE  Numbered(c)'
<1> DEFINE k == call[c]
           r == call'[c]
<1>0. /\ TypeInv /\ AllMeant /\ LockInv /\ NumberInv /\ ~raced /\ ~Races
      /\ Numbered(c)
  BY DEF Ready, NumberInv
<1>1. /\ r.op = k.op /\ k.op \in {"delete", "reset"} /\ r.id = k.id
      /\ k.n \in Nat /\ k.id \in Nat /\ mark \in Nat /\ issued' = issued
  <2>1. issued' = issued
    BY DEF ReadMark, WriteMark, history
  <2> QED
    BY <1>0, <2>1, ReadMarkMoves, WriteMarkMoves, NumberTypes DEF Kept
<1>2. \A i \in issued : i \in Nat /\ (Covers(i) => Covers(i)')
  BY <1>0, NumberTypes, CoversStays
<1>3. k.pc \in {"mark", "open_mark", "write_mark"}
  BY DEF ReadMark, WriteMark
<1>4. /\ k.op = "delete" => k.n = k.id
      /\ k.op = "reset" => \A i \in issued : i <= k.n \/ Covers(i)'
  BY <1>0, <1>2, <1>3 DEF Numbered
<1>5. CASE k.n > mark /\ r.pc = "open_mark" /\ r.n = k.n /\ mark' = mark
  BY <1>1, <1>4, <1>5 DEF Numbered
<1>6. CASE k.pc = "open_mark" /\ mark' = 0 /\ r.pc = "write_mark" /\ r.n = k.n
  <2>1. k.n > mark
    BY <1>0, <1>6 DEF Numbered
  <2>2. k.n > 0
    BY <1>1, <2>1
  <2> QED
    BY <1>1, <1>4, <1>6, <2>2 DEF Numbered
<1>7. CASE /\ k.n <= mark'
           /\ r.pc = IF k.op = "delete" THEN "unlink" ELSE "clear"
  <2>1. k.op = "delete" => Covers(call[c].id)'
    BY <1>1, <1>4, <1>7 DEF Covers
  <2>2. mark' \in Nat
    BY <1>0, <1>1, ReadMarkMoves, WriteMarkMoves DEF ReadMark, files
  <2>3. k.op = "reset" => \A i \in issued : Covers(i)'
    BY <1>1, <1>2, <1>4, <1>7, <2>2 DEF Covers
  <2> QED
    BY <1>1, <1>7, <2>1, <2>3 DEF Numbered
<1>8. CASE ReadMark(c)
  <2>1. mark' = mark
    BY <1>8 DEF ReadMark, files
  <2> QED
    BY <1>0, <1>1, <1>5, <1>7, <1>8, <2>1, ReadMarkMoves
<1>9. CASE WriteMark(c)
  BY <1>0, <1>1, <1>6, <1>7, <1>9, WriteMarkMoves
<1> QED
  BY <1>8, <1>9

LEMMA NumberedMoves ==
    ASSUME NEW c \in Calls, Ready(c)
    PROVE  Numbered(c)'
<1> DEFINE k == call[c]
           r == call'[c]
<1>0. /\ TypeInv /\ AllMeant /\ LockInv /\ NumberInv /\ ~raced /\ Numbered(c)
  BY DEF Ready, NumberInv
<1>1. CASE Begin(c)
  <2>1. CASE Turned(r, Known(c))
    BY <2>1, TurnedNumberless
  <2>2. CASE Begun(r)
    BY <2>2 DEF Begun, Numbered
  <2> QED
    BY <1>0, <1>1, <2>1, <2>2, BeginMoves
<1>2. CASE \E i \in Ids : ListOne(c, i)
  <2>1. r.pc = "list"
    BY <1>0, <1>2, ListOneMoves
  <2> QED
    BY <2>1 DEF Numbered
<1>3. CASE ClaimChecks(c) \/ Lock(c) \/ Read(c) \/ Open(c)
  <2>1. Turned(r, Known(c)) \/ r.pc \in {"list", "read", "open", "write"}
    BY <1>0, <1>3, ClaimChecksMoves, LockMoves, ReadMoves, OpenMoves
  <2>2. r.pc \in {"list", "read", "open", "write"} => Numbered(c)'
    BY DEF Numbered
  <2> QED
    BY <2>1, <2>2, TurnedNumberless
<1>4. CASE \/ UnassignListed(c) \/ BlockListed(c) \/ DeleteListed(c) \/ NotFound(c)
           \/ Write(c) \/ WriteNew(c) \/ ResetEnds(c) \/ Dies(c)
  <2>1. Dies(c) => Turned(r, Known(c))
    BY <1>0, OverTurned, GoesTo DEF Dies
  <2> QED
    BY <1>0, <1>4, <2>1, TurnedNumberless, UnassignListedTurned, BlockListedTurned,
       DeleteListedTurned, NotFoundTurned, WriteMoves, WriteNewMoves, ResetMoves
<1>5. CASE ReadNumbers(c) \/ ReadMark(c) \/ WriteMark(c)
  BY <1>5, ReadNumbersNumbered, MarkNumbered
<1>6. CASE OpenNew(c)
  <2>1. r.op = "create" /\ r.pc = "write"
    BY <1>0, <1>6, OpenNewMoves DEF Kept
  <2> QED
    BY <2>1 DEF Numbered
<1>7. CASE DeleteUnlinks(c)
  <2>1. CASE Turned(r, Known(c))
    BY <2>1, TurnedNumberless
  <2>2. CASE r.pc = "list"
    BY <2>2 DEF Numbered
  <2> QED
    BY <1>0, <1>7, <2>1, <2>2, DeleteUnlinksMoves
<1>8. CASE ResetClears(c) \/ \E i \in Ids : ResetUnlinks(c, i)
  <2>1. /\ k.op = "reset" /\ k.pc \in {"clear", "sweep"} /\ r.op = "reset"
        /\ r.pc = "sweep"
    BY <1>0, <1>8, ResetMoves DEF Kept
  <2>2. \A i \in issued : Covers(i)'
    BY <1>0, <2>1, NumberTypes, CoversStays DEF Numbered
  <2>3. issued' = issued
    BY <1>8 DEF ResetClears, ResetUnlinks, history
  <2> QED
    BY <2>1, <2>2, <2>3 DEF Numbered
<1> QED
  BY <1>1, <1>2, <1>3, <1>4, <1>5, <1>6, <1>7, <1>8 DEF Ready, Step

LEMMA NumberStep ==
    TypeInv /\ AllMeant /\ LockInv /\ IssuedInv /\ NumberInv /\ [Next]_vars
       => NumberInv'
<1> SUFFICES ASSUME TypeInv, AllMeant, LockInv, IssuedInv, NumberInv, [Next]_vars,
                    ~raced'
             PROVE  /\ reused' = {} /\ ~Races'
                    /\ \A i \in issued' : Accounted(i)'
                    /\ \A c \in Calls : Numbered(c)'
  BY DEF NumberInv
<1>1. CASE UNCHANGED vars
  <2>1. /\ UNCHANGED <<file, mark, call, issued, reused, raced>>
    BY <1>1 DEF vars, files, history
  <2>2. Existing' = Existing
    BY <2>1 DEF Existing
  <2>3. reused = {} /\ ~Races
    BY <2>1 DEF NumberInv
  <2>4. ~Races'
    BY <2>1, <2>3 DEF Races, Deleting, Numbering
  <2>5. \A i \in issued' : Accounted(i)'
    BY <2>1, <2>2 DEF NumberInv, Accounted, Covers
  <2>6. \A c \in Calls : Numbered(c)'
    BY <2>1, <2>2 DEF NumberInv, Numbered, Covers
  <2> QED
    BY <2>1, <2>3, <2>4, <2>5, <2>6
<1>2. ASSUME NEW c \in Calls,
             \/ Step(c) /\ raced' = (raced \/ Races')
             \/ Dies(c) /\ raced' = (raced \/ At(c, "write_mark"))
      PROVE  /\ reused' = {} /\ ~Races'
             /\ \A i \in issued' : Accounted(i)'
             /\ \A d \in Calls : Numbered(d)'
  <2>1. Ready(c)
    BY <1>2 DEF Ready
  <2>2. \A d \in Calls : Numbered(d)'
    BY <2>1, NumberedStays, NumberedMoves
  <2>3. ~Races'
    <3>1. CASE Step(c) /\ raced' = (raced \/ Races')
      BY <3>1
    <3>2. CASE Dies(c)
      <4>1. ~Races
        BY <2>1 DEF Ready, NumberInv
      <4>2. call'[c] = Over /\ OthersStay(c)
        BY <3>2, GoesTo DEF Dies
      <4>3. Over.op = "none" /\ Over.pc = "over"
        BY DEF Over, Idle
      <4>4. \A d \in Calls : /\ Deleting(d)' => Deleting(d)
                             /\ Numbering(d)' => Numbering(d)
        BY <4>2, <4>3 DEF Deleting, Numbering, OthersStay, Same
      <4> QED
        BY <4>1, <4>4 DEF Races
    <3> QED
      BY <1>2, <3>1, <3>2
  <2>4. \A i \in issued : Accounted(i)'
    BY <2>1, AccountedStays
  <2>5. CASE OpenNew(c)
    <3> DEFINE n == call[c].n
    <3>1. call[c].pc = "open_new" /\ call[c].op = "create" /\ n + 1 \in Ids
      BY <2>5, OpenNewMoves
    <3>2. \A i \in issued : i <= n
      BY <2>1, <3>1 DEF Ready, NumberInv, Numbered
    <3>3. n + 1 \notin issued
      BY <3>2, NumberTypes
    <3>4. reused' = {}
      BY <2>1, <2>5, <3>3 DEF OpenNew, Ready, NumberInv
    <3>5. n + 1 \in Existing'
      BY <2>5, <3>1 DEF OpenNew, Existing, TypeInv
    <3>6. n + 1 <= n + 1
      BY NumberTypes
    <3>7. PICK j \in Ids : j = n + 1
      BY <3>1
    <3>8. Accounted(j)'
      BY <3>5, <3>6, <3>7 DEF Accounted
    <3>9. \A i \in issued' : i \in issued \/ i = j
      BY <2>5, <3>7 DEF OpenNew
    <3> QED
      BY <2>2, <2>3, <2>4, <3>4, <3>8, <3>9
  <2>6. CASE ~OpenNew(c)
    <3>1. issued' = issued /\ reused' = reused
      BY <2>1, <2>6, IssuedMoves
    <3> QED
      BY <2>1, <2>2, <2>3, <2>4, <3>1 DEF Ready, NumberInv
  <2> QED
    BY <2>5, <2>6
<1> QED
  BY <1>1, <1>2 DEF Next

-----------------------------------------------------------------------------
\* The invariants together.
Inv == TypeInv /\ AllMeant /\ LockInv /\ IssuedInv /\ ClaimInv /\ NumberInv

LEMMA InitInv == Init => Inv
<1> SUFFICES ASSUME Init PROVE Inv
  OBVIOUS
<1>1. TypeInv
  BY InitType
<1>2. \A c \in Calls : call[c] = Idle
  BY DEF Init
<1>3. /\ Idle.op = "none" /\ Idle.pc = "idle" /\ Idle.work = <<>>
      /\ Touched(Idle) = {} /\ ~Holding(Idle)
  BY DEF Idle, Touched, Holding, Updaters
<1>4. AllMeant
  BY <1>2, <1>3 DEF AllMeant
<1>5. LockInv
  BY <1>2, <1>3, TaskListConstants
     DEF TaskListConstants, Init, LockInv, TaskLocks, ListLocked
<1>6. IssuedInv
  <2>1. \A i \in Ids : file[i] # "absent" => i \in issued
    BY TaskListConstants DEF TaskListConstants, Init, Ids
  <2> QED
    BY <1>2, <1>3, <2>1 DEF IssuedInv, Fresh
<1>7. ClaimInv
  <2>1. \A c \in Calls : Found(c)
    BY <1>2, <1>3 DEF Found
  <2>2. PICK o \in Agents \cup {NoOne}, st \in Status :
          /\ st = "pending" <=> o = NoOne
          /\ task = [i \in Ids |->
                      CASE i = 1 -> [NewTask EXCEPT !.owner = o, !.status = st,
                                                    !.blocks = {2}]
                        [] i = 2 -> [NewTask EXCEPT !.blockedBy = {1}]
                        [] OTHER -> NewTask]
          /\ claimed = [i \in Ids |-> IF i = 1 /\ st = "in_progress"
                                     THEN {o} ELSE {}]
    BY DEF Init
  <2>3. claimed \in [Ids -> SUBSET Agents]
    BY <2>2
  <2>4. \A i \in Ids : i # 1 => claimed[i] = {}
    BY <2>2
  <2>5. 1 \in Ids
    BY TaskListConstants DEF TaskListConstants, Ids
  <2>6. task[1].owner = o /\ claimed[1] \subseteq {o}
    <3> DEFINE t == [NewTask EXCEPT !.owner = o, !.status = st, !.blocks = {2}]
    <3>1. t.owner = o
      BY DEF NewTask
    <3> HIDE DEF t
    <3>2. task[1] = t
      BY <2>2, <2>5 DEF t
    <3>3. claimed[1] \subseteq {o}
      BY <2>2, <2>5
    <3> QED
      BY <3>1, <3>2, <3>3
  <2>7. Owners
    BY <2>4, <2>6 DEF Owners
  <2> QED
    BY <2>1, <2>3, <2>7 DEF ClaimInv
<1>8. NumberInv
  <2>1. reused = {} /\ ~Races
    BY <1>2, <1>3 DEF Init, Races, Deleting
  <2>2. \A i \in issued : i \in Existing
    BY TaskListConstants DEF TaskListConstants, Init, Existing, Ids
  <2>3. \A i \in issued : Accounted(i)
    BY <1>1, <2>2, NumberTypes DEF Accounted
  <2>4. \A c \in Calls : Numbered(c)
    BY <1>2, <1>3 DEF Numbered
  <2> QED
    BY <2>1, <2>3, <2>4 DEF NumberInv
<1> QED
  BY <1>1, <1>4, <1>5, <1>6, <1>7, <1>8 DEF Inv

LEMMA StepInv == Inv /\ [Next]_vars => Inv'
BY TypeStep, MeantStep, LockStep, IssuedStep, ClaimStep, NumberStep DEF Inv

\* Types are correct, and a task file is locked by the call that reads or
\* writes it and by no other, for any number of calls and agents and lists of
\* any length.
THEOREM TypeCorrect == Spec => []TypeOK
<1>1. Inv => TypeOK
  <2> SUFFICES ASSUME Inv PROVE TypeOK
    OBVIOUS
  <2>1. \A c \in Calls : call[c] \in CallRec
    BY CallType DEF Inv
  <2>2. \A c \in Calls : /\ call[c].work \in Seq([id : Ids, patch : Patches])
                         /\ call[c].read \in Task /\ call[c].n \in 0 .. MaxId
    BY <2>1 DEF CallRec, Updates
  <2>3. ASSUME NEW i \in Ids, lock[i] # NoCall
        PROVE  /\ call[lock[i]].pc \in {"list", "read", "open", "write"}
               /\ Target(call[lock[i]]) = i
    <3>1. lock[i] \in Calls
      BY <2>3 DEF Inv, TypeInv
    <3>2. Holding(call[lock[i]]) /\ Target(call[lock[i]]) = i
      BY <3>1 DEF Inv, LockInv, TaskLocks
    <3> QED
      BY <3>2 DEF Holding
  <2>4. claimed \in [Ids -> SUBSET Agents]
    BY DEF Inv, ClaimInv
  <2> QED
    BY <2>2, <2>3, <2>4 DEF TypeOK, Inv, TypeInv
<1> QED
  BY <1>1, InitInv, StepInv, PTL DEF Spec

\* At most one agent holds a task, except when an update has replaced an owner
\* it did not know of or the number of the task has been given twice: claimTask,
\* the assignments, the completions and the teammates that are unassigned
\* (src/src/utils/tasks.ts) exclude each other however many of them run at once.
THEOREM ClaimsExcludeEachOther == Spec => []ClaimsExclude
<1>1. Inv => ClaimsExclude
  <2> SUFFICES ASSUME Inv, NEW i \in Ids, i \notin snatched \cup reused
               PROVE  ~(Cardinality(claimed[i]) > 1)
    BY DEF ClaimsExclude
  <2>1. claimed[i] \subseteq {task[i].owner}
    BY DEF Inv, ClaimInv, Owners, Mistaken
  <2>2. claimed[i] = {} \/ claimed[i] = {task[i].owner}
    BY <2>1
  <2>3. Cardinality({}) = 0
    BY FS_EmptySet
  <2>4. Cardinality({task[i].owner}) = 1
    BY FS_Singleton
  <2>5. Cardinality(claimed[i]) \in {0, 1}
    BY <2>2, <2>3, <2>4
  <2> QED
    BY <2>5
<1> QED
  BY <1>1, InitInv, StepInv, PTL DEF Spec

\* createTask gives no number twice, whatever deleteTask and resetTaskList have
\* removed before (the high water mark of src/src/utils/tasks.ts), as long as no
\* deletion has overlapped with another one, a creation or a reset.
THEOREM NumbersAreGivenOnce == Spec => []IdsUnique
<1>1. Inv => IdsUnique
  BY DEF Inv, NumberInv, IdsUnique
<1> QED
  BY <1>1, InitInv, StepInv, PTL DEF Spec

-----------------------------------------------------------------------------
\* A task is claimed only when its blockers are completed.  What a claim has
\* seen completed stays completed for every reader, although the file may be
\* torn or absent in between, because whoever rewrites it has read it
\* completed: Sound.  The claim checks its blockers with the lock of its own
\* task held, and nobody else can give that task another blocker before the
\* lock is released.

\* Whoever writes a completed task has read it completed.
DoneIsRead(i) ==
    \A d \in Calls : Writing(d, i) => call[d].read.status = "completed"
HeldInv == \A i \in Ids : task[i].status = "completed" => DoneIsRead(i)

\* Task b is completed for whoever reads it, now and later.
Settled(b) ==
    /\ b \in issued
    /\ Readable(b) => task[b].status = "completed"
    /\ \A d \in Calls : ~Fresh(d, b)
    /\ DoneIsRead(b)
Sound(b) == b \in reopened \cup reused \/ Settled(b)

\* What the claim of c knows of the blockers of its task.
Knows(c) ==
    LET k == call[c]
        i == Target(k)
    IN  k.op = "claim" =>
          /\ k.pc = "lock" => k.list = <<>>
          /\ k.pc = "list" =>
               /\ \A j \in DOMAIN k.list : k.list[j].status = "completed" => Sound(j)
               /\ task[i].blockedBy \subseteq k.read.blockedBy
          /\ k.pc \in {"read", "open", "write"} =>
               \A b \in task[i].blockedBy : b \in k.missed \/ Sound(b)

UnblockedInv == HeldInv /\ \A c \in Calls : Knows(c)

-----------------------------------------------------------------------------
\* A task has at most one writer.
LEMMA OneWriter ==
    ASSUME LockInv, NEW i \in Ids, NEW c \in Calls, NEW d \in Calls,
           Writing(c, i), Writing(d, i)
    PROVE  c = d
BY DEF LockInv, TaskLocks, Writing

\* Whoever is about to write a task was so before, or has just read it.
LEMMA WritingMoves ==
    ASSUME TypeInv, AllMeant, NEW c \in Calls, Step(c) \/ Dies(c),
           NEW d \in Calls, NEW i \in Ids, Writing(d, i)'
    PROVE  \/ /\ Writing(d, i) /\ call'[d].read = call[d].read
              /\ d = c => Open(c)
           \/ /\ d = c /\ (Lock(c) \/ Read(c))
              /\ Readable(i) /\ call'[d].read = task[i]
<1>0. Holding(call'[d]) /\ call'[d].pc \in {"open", "write"} /\ Target(call'[d]) = i
  BY DEF Writing
<1>1. CASE d # c
  BY <1>0, <1>1, StepMoves, SameHolds DEF OthersStay, Same, Writing
<1>2. CASE d = c
  <2>1. ~Turned(call'[c], Known(c)) /\ ~Begun(call'[c])
    BY <1>0, <1>2 DEF Turned, Begun, Holding, Updaters
  <2>0. call'[c].op \in Updaters \cup {"claim"}
    BY <1>0, <1>2 DEF Holding
  <2>2. CASE Begin(c)
    BY <2>1, <2>2, BeginMoves
  <2>3. CASE \/ \E j \in Ids : ListOne(c, j)
             \/ ClaimChecks(c)
    BY <1>0, <1>2, <2>1, <2>3, ListOneMoves, ClaimChecksMoves
  <2>4. CASE Lock(c)
    <3>1. /\ Kept(c) /\ call[c].pc = "lock" /\ call'[c].read = task[Target(call[c])]
          /\ Readable(Target(call[c]))
      BY <2>1, <2>4, LockMoves
    <3>2. Target(call'[c]) = Target(call[c])
      BY <2>4, <3>1, CallType, KeptTarget DEF Fit, Lock
    <3> QED
      BY <1>0, <1>2, <2>4, <3>1, <3>2
  <2>5. CASE Read(c)
    <3>1. /\ Kept(c) /\ call[c].op = "claim" /\ call'[c].read = task[Target(call[c])]
          /\ Readable(Target(call[c])) /\ call[c].pc = "read"
      BY <2>1, <2>5, ReadMoves
    <3>2. Target(call'[c]) = Target(call[c])
      BY <3>1, CallType, KeptTarget DEF Fit, Updaters
    <3> QED
      BY <1>0, <1>2, <2>5, <3>1, <3>2
  <2>6. CASE Open(c)
    <3>1. /\ Kept(c) /\ call[c].op \in Updaters \cup {"claim"} /\ call[c].pc = "open"
          /\ call'[c].read = call[c].read
      BY <2>6, OpenMoves
    <3>2. Target(call'[c]) = Target(call[c])
      BY <3>1, CallType, KeptTarget DEF Fit, Updaters
    <3> QED
      BY <1>0, <1>2, <2>6, <3>1, <3>2 DEF Writing, Holding
  <2>7. CASE \/ UnassignListed(c) \/ BlockListed(c) \/ DeleteListed(c) \/ NotFound(c)
             \/ Write(c) \/ WriteNew(c) \/ ResetEnds(c)
    BY <2>1, <2>7, UnassignListedTurned, BlockListedTurned, DeleteListedTurned,
       NotFoundTurned, WriteMoves, WriteNewMoves, ResetMoves
  <2>8. CASE ReadNumbers(c) \/ OpenNew(c)
    BY <2>0, <2>8, ReadNumbersMoves, OpenNewMoves DEF Kept, Updaters
  <2>9. CASE \/ ReadMark(c) \/ WriteMark(c) \/ DeleteUnlinks(c) \/ ResetClears(c)
             \/ \E j \in Ids : ResetUnlinks(c, j)
    BY <2>0, <2>1, <2>9, ReadMarkMoves, WriteMarkMoves, DeleteUnlinksMoves,
       ResetMoves DEF Kept, Updaters
  <2>10. CASE Dies(c)
    BY <2>1, <2>10, OverTurned, GoesTo DEF Dies
  <2> QED
    BY <2>2, <2>3, <2>4, <2>5, <2>6, <2>7, <2>8, <2>9, <2>10 DEF Step
<1> QED
  BY <1>1, <1>2

\* The step of a call that locks or reads a task changes no file.
LEMMA ReadsOnly ==
    ASSUME NEW c \in Calls, Lock(c) \/ Read(c)
    PROVE  UNCHANGED <<file, task, issued, reused, reopened>>
BY DEF Lock, Read, files, history

LEMMA HeldStep ==
    ASSUME TypeInv, AllMeant, LockInv, HeldInv, NEW c \in Calls, Step(c) \/ Dies(c)
    PROVE  HeldInv'
<1> SUFFICES ASSUME NEW i \in Ids, task'[i].status = "completed",
                    NEW d \in Calls, Writing(d, i)'
             PROVE  call'[d].read.status = "completed"
  BY DEF HeldInv, DoneIsRead
<1>1. CASE /\ Lock(c) \/ Read(c)
           /\ call'[d].read = task[i]
  BY <1>1, ReadsOnly
<1>2. CASE Writing(d, i) /\ call'[d].read = call[d].read /\ (d = c => Open(c))
  <2>1. task'[i] = task[i]
    <3>1. ~Write(c) \/ ~Writing(c, i)
      <4>1. Write(c) /\ Writing(c, i) => d = c
        BY <1>2, OneWriter
      <4>2. ~(Write(c) /\ Open(c))
        BY DEF Write, Open
      <4> QED
        BY <1>2, <4>1, <4>2
    <3>2. CASE Untouched(i)
      BY <3>2 DEF Untouched
    <3>3. CASE Unlinks(i)
      BY <3>3 DEF Unlinks, NewTask
    <3>4. CASE Open(c) \/ OpenNew(c)
      BY <3>4 DEF Open, OpenNew
    <3>5. CASE WriteNew(c) /\ i = call[c].id
      BY <3>5 DEF WriteNew, TypeInv, NewTask
    <3> QED
      BY <3>1, <3>2, <3>3, <3>4, <3>5, FilesChange
  <2> QED
    BY <1>2, <2>1 DEF HeldInv, DoneIsRead
<1> QED
  BY <1>1, <1>2, WritingMoves

-----------------------------------------------------------------------------
\* What has been reopened stays so for the record.
LEMMA ReopenedGrows ==
    ASSUME NEW c \in Calls, Step(c) \/ Dies(c)
    PROVE  reopened \subseteq reopened'
<1>1. CASE Write(c)
  BY <1>1 DEF Write
<1>2. CASE UNCHANGED history \/ UNCHANGED reopened
  BY <1>2 DEF history
<1>3. CASE Begin(c) \/ \E i \in Ids : ListOne(c, i)
  BY <1>2, <1>3 DEF Begin, ListOne
<1>4. CASE ClaimChecks(c) \/ Lock(c) \/ Read(c) \/ Open(c)
  BY <1>2, <1>4 DEF ClaimChecks, Lock, Read, Open
<1>5. CASE UnassignListed(c) \/ BlockListed(c) \/ DeleteListed(c)
  <2>1. UNCHANGED history
    BY <1>5 DEF UnassignListed, BlockListed, DeleteListed
  <2> QED
    BY <1>2, <2>1
<1>6. CASE NotFound(c) \/ ReadNumbers(c)
  BY <1>2, <1>6 DEF NotFound, ReadNumbers
<1>7. CASE OpenNew(c) \/ WriteNew(c) \/ ReadMark(c) \/ WriteMark(c)
  BY <1>2, <1>7 DEF OpenNew, WriteNew, ReadMark, WriteMark
<1>8. CASE DeleteUnlinks(c) \/ \E i \in Ids : ResetUnlinks(c, i)
  BY <1>2, <1>8 DEF DeleteUnlinks, ResetUnlinks
<1>9. CASE ResetClears(c) \/ ResetEnds(c) \/ Dies(c)
  BY <1>2, <1>9 DEF ResetClears, ResetEnds, Dies
<1> QED
  BY <1>1, <1>3, <1>4, <1>5, <1>6, <1>7, <1>8, <1>9 DEF Step

\* A task that is settled stays so, or is recorded as reopened or given again.
LEMMA SoundStays ==
    ASSUME TypeInv, AllMeant, LockInv, IssuedInv, NEW c \in Calls, Step(c) \/ Dies(c),
           NEW b \in Ids, Sound(b)
    PROVE  Sound(b)'
<1>0. /\ issued \subseteq issued' /\ reused \subseteq reused'
      /\ reopened \subseteq reopened'
  BY FilesChange, ReopenedGrows
<1> SUFFICES ASSUME Settled(b), b \notin reopened' \cup reused'
             PROVE  Settled(b)'
  BY <1>0 DEF Sound
<1>1. b \in issued'
  BY <1>0 DEF Settled
<1>2. ASSUME NEW d \in Calls PROVE ~Fresh(d, b)'
  <2> SUFFICES ASSUME Fresh(d, b)' PROVE FALSE
    OBVIOUS
  <2>1. call'[d].op = "create" /\ call'[d].pc = "write" /\ call'[d].id = b
    BY DEF Fresh
  <2>2. CASE OpenNew(c) /\ b = call[c].n + 1
    BY <2>2 DEF OpenNew, Settled
  <2>3. CASE call[d].op = "create" /\ call[d].pc = "write" /\ call[d].id = b
    BY <1>0, <2>3 DEF Fresh, Settled
  <2> QED
    BY <2>1, <2>2, <2>3, Creating
<1>3. ASSUME NEW d \in Calls, Writing(d, b)'
      PROVE  call'[d].read.status = "completed"
  <2>1. CASE Readable(b) /\ call'[d].read = task[b]
    BY <2>1 DEF Settled
  <2>2. CASE Writing(d, b) /\ call'[d].read = call[d].read
    BY <2>2 DEF Settled, DoneIsRead
  <2> QED
    BY <1>3, <2>1, <2>2, WritingMoves
<1>4. ASSUME file'[b] = "whole" PROVE task'[b].status = "completed"
  <2>1. CASE Untouched(b)
    BY <1>4, <2>1 DEF Untouched, Settled, Readable
  <2>2. CASE Unlinks(b)
    BY <1>4, <2>2 DEF Unlinks
  <2>3. CASE Open(c) /\ Writing(c, b)
    BY <1>4, <2>3 DEF Open, Writing, TypeInv
  <2>4. CASE OpenNew(c) /\ b = call[c].n + 1
    BY <1>4, <2>4 DEF OpenNew, TypeInv
  <2>5. CASE WriteNew(c) /\ b = call[c].id
    BY <1>0, <2>5 DEF WriteNew, Fresh, Settled
  <2>6. CASE Write(c) /\ Writing(c, b)
    <3> DEFINE t == Patched(call[c].read, Head(call[c].work).patch)
    <3>1. Target(call[c]) = b /\ call[c].read.status = "completed"
      BY <2>6 DEF Writing, Settled, DoneIsRead
    <3>2. CASE call[c].ghost
      BY <1>4, <2>6, <3>2 DEF Write, Settled, Readable
    <3>3. CASE ~call[c].ghost
      <4>1. /\ task' = [task EXCEPT ![b] = t]
            /\ t.status # "completed" => b \in reopened'
        BY <2>6, <3>1, <3>3 DEF Write
      <4> HIDE DEF t
      <4> QED
        BY <4>1 DEF TypeInv
    <3> QED
      BY <3>2, <3>3
  <2> QED
    BY <2>1, <2>2, <2>3, <2>4, <2>5, <2>6, FilesChange
<1> QED
  BY <1>1, <1>2, <1>3, <1>4 DEF Settled, Readable, DoneIsRead

\* A task that is read completed is settled.
LEMMA ReadIsSound ==
    ASSUME IssuedInv, HeldInv, NEW j \in Ids, Readable(j),
           task[j].status = "completed"
    PROVE  Sound(j)
BY DEF IssuedInv, HeldInv, Sound, Settled, Readable

-----------------------------------------------------------------------------
\* The lock of its task held, a claim keeps what it knows.
LEMMA KnowsStays ==
    ASSUME TypeInv, AllMeant, LockInv, IssuedInv, UnblockedInv, NEW c \in Calls,
           Step(c) \/ Dies(c), NEW d \in Calls \ {c}
    PROVE  Knows(d)'
<1> DEFINE k == call[d]
           i == Target(k)
<1> SUFFICES ASSUME k.op = "claim" PROVE Knows(d)'
  BY StepMoves DEF Knows, OthersStay, Same
<1>1. Same(call'[d], k) /\ Target(call'[d]) = i
  BY StepMoves, SameHolds DEF OthersStay
<1>2. \A j \in Ids : Sound(j) => Sound(j)'
  BY SoundStays
<1>3. k \in CallRec /\ Fit(k) /\ Knows(d)
  BY CallType DEF UnblockedInv
<1>4. CASE k.pc = "lock"
  BY <1>1, <1>3, <1>4 DEF Same, Knows
<1>5. CASE Holding(k)
  <2>1. i \in Ids /\ ~Writing(c, i) /\ task[i] \in Task
    BY <1>5, Held DEF LockInv, TaskLocks, Writing, TypeInv
  <2>2. task'[i].blockedBy \subseteq task[i].blockedBy
    <3>1. CASE Untouched(i)
      BY <3>1 DEF Untouched
    <3>2. CASE Unlinks(i)
      BY <3>2 DEF Unlinks, NewTask
    <3>3. CASE OpenNew(c)
      BY <3>3 DEF OpenNew
    <3>4. CASE WriteNew(c) /\ i = call[c].id
      BY <2>1, <3>4 DEF WriteNew, TypeInv, NewTask
    <3> QED
      BY <2>1, <3>1, <3>2, <3>3, <3>4, FilesChange
  <2>3. DOMAIN k.list \subseteq Ids /\ task[i].blockedBy \subseteq Ids
    BY <1>3, <2>1, ListType DEF CallRec, Task
  <2> HIDE DEF k, i
  <2>4. k.pc # "lock"
    BY <1>5 DEF Holding
  <2> QED
    BY <1>1, <1>2, <1>3, <2>2, <2>3, <2>4 DEF Same, Knows, k, i
<1> QED
  BY <1>1, <1>3, <1>4, <1>5 DEF Fit, Holding, Same, Knows, Updaters

LEMMA KnowsMoves ==
    ASSUME TypeInv, AllMeant, LockInv, IssuedInv, UnblockedInv, NEW c \in Calls,
           Step(c) \/ Dies(c)
    PROVE  Knows(c)'
<1> DEFINE k == call[c]
           i == Target(k)
<1>k. k \in CallRec /\ Fit(k) /\ Knows(c)
  BY CallType DEF UnblockedInv
<1>s. \A j \in Ids : Sound(j) => Sound(j)'
  BY SoundStays
<1>1. ASSUME \/ Turned(call'[c], Known(c)) \/ Begun(call'[c])
             \/ call'[c].op \notin Updaters \cup {"claim"}
      PROVE  Knows(c)'
  BY <1>1 DEF Turned, Begun, Knows
<1>2. ASSUME Kept(c), k.op = "claim"
      PROVE  Target(call'[c]) = i /\ i \in Ids /\ call'[c].op = "claim"
  BY <1>2, <1>k, KeptTarget, TargetType DEF Kept, Fit, Updaters
<1>3. \A j \in Ids : task[j].blockedBy \subseteq Ids
  BY DEF TypeInv, Task
<1>4. CASE Begin(c)
  BY <1>1, <1>4, BeginMoves
<1>5. CASE \E j \in Ids : ListOne(c, j)
  <2>1. CASE k.op # "claim"
    BY <1>5, <2>1, ListOneMoves DEF Kept, Knows
  <2>2. CASE k.op = "claim"
    <3>1. PICK j \in Ids : ListOne(c, j)
      BY <1>5
    <3>2. /\ Kept(c) /\ k.pc = "list" /\ call'[c].pc = "list"
          /\ call'[c].read = k.read
          /\ \A l \in DOMAIN call'[c].list :
               \/ l \in DOMAIN k.list /\ call'[c].list[l] = k.list[l]
               \/ l = j /\ Readable(l) /\ call'[c].list[l] = task[l]
      BY <3>1, ListOneMoves
    <3>3. UNCHANGED task
      BY <3>1 DEF ListOne, files
    <3>4. DOMAIN k.list \subseteq Ids
      BY <1>k, ListType DEF CallRec
    <3>5. ASSUME NEW l \in DOMAIN call'[c].list, call'[c].list[l].status = "completed"
          PROVE  Sound(l)'
      <4>1. CASE l \in DOMAIN k.list /\ call'[c].list[l] = k.list[l]
        BY <1>k, <1>s, <2>2, <3>2, <3>4, <3>5, <4>1 DEF Knows
      <4>2. CASE l = j /\ Readable(l) /\ call'[c].list[l] = task[l]
        BY <1>s, <3>5, <4>2, ReadIsSound DEF UnblockedInv
      <4> QED
        BY <3>2, <4>1, <4>2
    <3>6. task'[i].blockedBy \subseteq call'[c].read.blockedBy
      BY <1>k, <2>2, <3>2, <3>3 DEF Knows
    <3> QED
      BY <1>2, <2>2, <3>2, <3>5, <3>6 DEF Knows
  <2> QED
    BY <2>1, <2>2
<1>6. CASE ClaimChecks(c)
  <2>1. CASE Turned(call'[c], Known(c))
    BY <1>1, <2>1
  <2>2. CASE ~Turned(call'[c], Known(c))
    <3>1. /\ k.op = "claim" /\ k.pc = "list" /\ Kept(c) /\ call'[c].pc = "read"
          /\ call'[c].missed = k.read.blockedBy \ DOMAIN k.list
          /\ k.read.blockedBy \cap Unresolved(k.list) = {}
      BY <1>6, <2>2, ClaimChecksMoves
    <3>2. UNCHANGED task
      BY <1>6 DEF ClaimChecks, files
    <3>3. ASSUME NEW b \in task'[i].blockedBy
          PROVE  b \in call'[c].missed \/ Sound(b)'
      <4>1. b \in k.read.blockedBy
        BY <1>k, <3>1, <3>2, <3>3 DEF Knows
      <4>2. b \in Ids
        BY <1>2, <1>3, <3>1, <3>2, <3>3
      <4>3. b \in DOMAIN k.list => k.list[b].status = "completed"
        BY <3>1, <4>1 DEF Unresolved
      <4>4. b \in DOMAIN k.list => Sound(b)
        BY <1>k, <3>1, <4>3 DEF Knows
      <4> QED
        BY <1>s, <3>1, <4>1, <4>2, <4>4
    <3> QED
      BY <1>2, <3>1, <3>3 DEF Knows
  <2> QED
    BY <2>1, <2>2
<1>7. CASE \/ UnassignListed(c) \/ BlockListed(c) \/ DeleteListed(c) \/ NotFound(c)
           \/ Write(c) \/ WriteNew(c) \/ ResetEnds(c)
  BY <1>1, <1>7, UnassignListedTurned, BlockListedTurned, DeleteListedTurned,
     NotFoundTurned, WriteMoves, WriteNewMoves, ResetMoves
<1>8. CASE Lock(c)
  <2>1. CASE Turned(call'[c], Known(c))
    BY <1>1, <2>1
  <2>2. CASE ~Turned(call'[c], Known(c)) /\ k.op = "claim"
    <3>1. /\ Kept(c) /\ k.pc = "lock" /\ call'[c].pc = "list"
          /\ call'[c].read = task[i] /\ call'[c].list = k.list
      BY <1>8, <2>2, LockMoves
    <3>2. UNCHANGED task /\ k.list = <<>>
      BY <1>8, <1>k, <2>2, <3>1, ReadsOnly DEF Knows
    <3> QED
      BY <1>2, <2>2, <3>1, <3>2 DEF Knows
  <2>3. CASE ~Turned(call'[c], Known(c)) /\ k.op # "claim"
    BY <1>8, <2>3, LockMoves DEF Kept, Knows
  <2> QED
    BY <2>1, <2>2, <2>3
<1>9. CASE Read(c) \/ Open(c)
  <2>1. CASE Turned(call'[c], Known(c))
    BY <1>1, <2>1
  <2>2. CASE ~Turned(call'[c], Known(c)) /\ k.op = "claim"
    <3>1. /\ Kept(c) /\ k.pc \in {"read", "open"} /\ call'[c].pc \in {"open", "write"}
          /\ call'[c].missed = k.missed
      BY <1>9, <2>2, ReadMoves, OpenMoves
    <3>2. UNCHANGED task
      BY <1>9, ReadsOnly DEF Open
    <3> QED
      BY <1>2, <1>3, <1>k, <1>s, <2>2, <3>1, <3>2 DEF Knows
  <2>3. CASE ~Turned(call'[c], Known(c)) /\ k.op # "claim"
    BY <1>9, <2>3, ReadMoves, OpenMoves DEF Kept, Knows
  <2> QED
    BY <2>1, <2>2, <2>3
<1>10. CASE ReadNumbers(c) \/ OpenNew(c)
  BY <1>1, <1>10, ReadNumbersMoves, OpenNewMoves DEF Kept, Updaters
<1>11. CASE \/ ReadMark(c) \/ WriteMark(c) \/ DeleteUnlinks(c) \/ ResetClears(c)
            \/ \E j \in Ids : ResetUnlinks(c, j)
  BY <1>1, <1>11, ReadMarkMoves, WriteMarkMoves, DeleteUnlinksMoves, ResetMoves
     DEF Kept, Updaters
<1>12. CASE Dies(c)
  BY <1>1, <1>12, OverTurned, GoesTo DEF Dies
<1> QED
  BY <1>4, <1>5, <1>6, <1>7, <1>8, <1>9, <1>10, <1>11, <1>12 DEF Step

-----------------------------------------------------------------------------
LEMMA InitUnblocked == Init => UnblockedInv
<1> SUFFICES ASSUME Init PROVE UnblockedInv
  OBVIOUS
<1>1. \A c \in Calls : call[c].op = "none" /\ ~Holding(call[c])
  BY DEF Init, Idle, Holding, Updaters
<1> QED
  BY <1>1 DEF UnblockedInv, HeldInv, DoneIsRead, Writing, Knows

LEMMA StepUnblocked == Inv /\ UnblockedInv /\ [Next]_vars => UnblockedInv'
<1> SUFFICES ASSUME Inv, UnblockedInv, [Next]_vars PROVE UnblockedInv'
  OBVIOUS
<1>1. CASE UNCHANGED vars
  BY <1>1 DEF vars, files, history, UnblockedInv, HeldInv, DoneIsRead, Writing,
              Knows, Sound, Settled, Readable, Fresh
<1>2. ASSUME NEW c \in Calls, Step(c) \/ Dies(c)
      PROVE  UnblockedInv'
  <2>1. HeldInv'
    BY <1>2, HeldStep DEF Inv, UnblockedInv
  <2>2. \A d \in Calls : Knows(d)'
    BY <1>2, KnowsStays, KnowsMoves DEF Inv
  <2> QED
    BY <2>1, <2>2 DEF UnblockedInv
<1> QED
  BY <1>1, <1>2 DEF Next

\* claimTask (src/src/utils/tasks.ts) gives no agent a task whose blockers are
\* not completed, however many calls create, complete, block, delete and reset
\* tasks between its listing and its write: except for a blocker that its listing
\* did not find, that a stale update has opened again, or whose number was given
\* to a new task.
THEOREM BlockedTasksAreNotClaimed == Spec => []ClaimedIsUnblocked
<1>1. Inv /\ UnblockedInv => ClaimedIsUnblocked
  <2> SUFFICES ASSUME Inv, UnblockedInv, NEW c \in Calls, Claiming(c),
                      NEW b \in task[Target(call[c])].blockedBy
               PROVE  \/ Readable(b) => task[b].status = "completed"
                      \/ b \in call[c].missed \cup reopened \cup reused
    BY DEF ClaimedIsUnblocked
  <2>1. b \in call[c].missed \/ Sound(b)
    BY DEF UnblockedInv, Knows, Claiming
  <2> QED
    BY <2>1 DEF Sound, Settled
<1> QED
  BY <1>1, InitInv, StepInv, InitUnblocked, StepUnblocked, PTL DEF Spec
=============================================================================
