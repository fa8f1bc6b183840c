-------------------------------- MODULE TaskList --------------------------------
(***************************************************************************)
(* The task list that the agents of a team share                           *)
(* (src/src/utils/tasks.ts), with the code that acts on it:                *)
(* TaskCreateTool, TaskUpdateTool, the in-process teammate, the task list  *)
(* watcher, and the leader that unassigns the tasks of one that is gone.   *)
(*                                                                         *)
(* A task is a file, locked by itself; the list has a lock and a file that *)
(* holds its high water mark.  The callers are processes, or interleave at *)
(* their awaits, and a step is one operation on one file.  writeFile first *)
(* truncates the file: whoever reads it before the content is there finds  *)
(* nothing that parses.                                                    *)
(***************************************************************************)
EXTENDS Naturals, Sequences, FiniteSets, SequencesExt

CONSTANTS
    Calls,   \* calls of the functions that are mapped to an action Begin...
    Agents,  \* names of teammates
    MaxId,   \* bound: the highest task number
    NoCall, NoOne

ASSUME TaskListConstants ==
    MaxId \in Nat \ {0, 1} /\ NoCall \notin Calls /\ NoOne \notin Agents

VARIABLES
    file,     \* whether there is a file of every number, and whether it parses
    task,     \* what it says
    mark,     \* the high water mark, 0 if the file does not parse
    lock,     \* the lock of every task file
    listLock, \* the lock of the list
    call,     \* how far every call has come, and what it knows
    claimed,  \* history: the agents that hold a task and have not lost it
    snatched, \* history: tasks whose owner was replaced by what a call had read
              \* before
    reopened, \* history: tasks that were completed and are not any more
    issued,   \* history: numbers given to a task
    reused,   \* history: numbers given twice
    raced     \* history: a deletion overlapped with a deletion, a creation or
              \* a reset, or a process died while it wrote the mark

files == <<file, task, mark>>
locks == <<lock, listLock>>
history == <<claimed, snatched, reopened, issued, reused>>
vars == <<files, locks, call, history, raced>>

-----------------------------------------------------------------------------
Ids == 1 .. MaxId
Status == {"pending", "in_progress", "completed"}
Task == [owner : Agents \cup {NoOne}, status : Status,
         blocks : SUBSET Ids, blockedBy : SUBSET Ids]

\* What createTask writes, and what stands for no task.
NewTask == [owner |-> NoOne, status |-> "pending", blocks |-> {}, blockedBy |-> {}]

Existing == {i \in Ids : file[i] # "absent"}
Readable(i) == file[i] = "whole"
IsHighest(h, S) == h \in S /\ \A j \in S : j <= h

\* A call of op: the task it is about, the other one of a block, the task it
\* has read, what a listing has read and has still to read, the updates it has
\* still to make, and the highest number it knows.  ghost is set when
\* the file it writes has been unlinked; missed are the tasks it did not find.
Idle == [op |-> "none", pc |-> "idle", agent |-> NoOne, id |-> 0, other |-> 0,
         read |-> NewTask, list |-> <<>>, unread |-> {},
         work |-> <<>>, n |-> 0, ghost |-> FALSE, missed |-> {}]
Over == [Idle EXCEPT !.pc = "over"]

Goes(c, k) == call' = [call EXCEPT ![c] = k]
At(c, pc) == call[c].pc = pc

Update(i, patch) == [id |-> i, patch |-> patch]
Target(k) == IF k.work = <<>> THEN k.id ELSE Head(k.work).id

\* The next updateTask of the call, if any.
Turning(k) == IF k.work = <<>> THEN Over ELSE [k EXCEPT !.pc = "lock"]
NextUpdate(k) == Turning([k EXCEPT !.work = Tail(@), !.read = NewTask,
                                   !.ghost = FALSE])

\* listTasks, or two calls of getTask together: every file is read in a step
\* of its own.
Listing(k, S) == [k EXCEPT !.pc = "list", !.unread = S]

\* What a call writes over the task it has read.
Patched(t, patch) ==
    [f \in DOMAIN t |-> IF f \in DOMAIN patch THEN patch[f] ELSE t[f]]

\* Updates of the tasks of S, in the order in which readdir listed them.
UpdatesOf(S, U(_)) ==
    {[m \in 1 .. Len(ids) |-> U(ids[m])] : ids \in SetToSeqs(S)}

-----------------------------------------------------------------------------
\* A list of two tasks: the first blocks the second, and may be an agent's, or
\* completed.
Init ==
    /\ file = [i \in Ids |-> IF i <= 2 THEN "whole" ELSE "absent"]
    /\ \E o \in Agents \cup {NoOne}, st \in Status :
          /\ st = "pending" <=> o = NoOne
          /\ task = [i \in Ids |->
                       CASE i = 1 -> [NewTask EXCEPT !.owner = o, !.status = st,
                                                     !.blocks = {2}]
                         [] i = 2 -> [NewTask EXCEPT !.blockedBy = {1}]
                         [] OTHER -> NewTask]
          /\ claimed = [i \in Ids |-> IF i = 1 /\ st = "in_progress"
                                      THEN {o} ELSE {}]
    /\ mark = 0
    /\ lock = [i \in Ids |-> NoCall]
    /\ listLock = NoCall
    /\ call = [c \in Calls |-> Idle]
    /\ snatched = {} /\ reopened = {} /\ reused = {}
    /\ issued = 1 .. 2
    /\ raced = FALSE

-----------------------------------------------------------------------------
\* The calls begin.  A call of TaskUpdateTool has read the task.
Begins(op, a, i) == [Idle EXCEPT !.op = op, !.agent = a, !.id = i]

\* createTask and resetTaskList take the lock of the list.
LockList(c) == listLock = NoCall /\ listLock' = c

\* (A hook may refuse the task that was created, and has it deleted: that is a
\* call of BeginDelete.)
BeginCreate(c) ==
    /\ LockList(c)
    /\ Goes(c, [Begins("create", NoOne, 0) EXCEPT !.pc = "number"])

BeginReset(c) ==
    /\ LockList(c)
    /\ Goes(c, [Begins("reset", NoOne, 0) EXCEPT !.pc = "files"])

BeginDelete(c, i) ==
    /\ Readable(i)
    /\ Goes(c, [Begins("delete", NoOne, i) EXCEPT !.pc = "mark", !.n = i])

\* tryClaimNextTask of a teammate, checkForTasks of a watcher: of the tasks
\* that are pending and nobody's when their files are listed, one is picked.
\* Which one is left open, and its blockers with it: claimTask looks at them.
BeginClaim(c, i, a) ==
    /\ Readable(i) /\ task[i].status = "pending" /\ task[i].owner = NoOne
    /\ Goes(c, Turning([Begins("claim", a, 0) EXCEPT
                          !.work = <<Update(i, [owner |-> a])>>]))

BeginUnassign(c, a) == Goes(c, Listing(Begins("unassign", a, 0), Existing))

BeginBlock(c, i, j) ==
    /\ i # j
    /\ Goes(c, Listing([Begins("block", NoOne, i) EXCEPT !.other = j], {i, j}))

BeginComplete(c, i) ==
    /\ Readable(i) /\ task[i].status # "completed"
    /\ Goes(c, Turning([Begins("complete", NoOne, 0) EXCEPT
                          !.work = <<Update(i, [status |-> "completed"])>>]))

\* Somebody gives the task to a.
BeginAssign(c, i, a) ==
    /\ Readable(i) /\ task[i].owner # a
    /\ Goes(c, Turning([Begins("assign", a, 0) EXCEPT
                          !.work = <<Update(i, [owner |-> a])>>]))

\* a marks the task in progress, and becomes its owner if it has none.
BeginStart(c, i, a) ==
    /\ Readable(i) /\ task[i].status # "in_progress"
    /\ Goes(c, Turning([Begins("start", a, 0) EXCEPT
           !.work = <<Update(i, IF task[i].owner = NoOne
                                THEN [status |-> "in_progress", owner |-> a]
                                ELSE [status |-> "in_progress"])>>]))

Begin(c) ==
    /\ At(c, "idle")
    /\ \/ BeginCreate(c) \/ BeginReset(c)
       \/ /\ \/ \E i \in Ids : BeginDelete(c, i) \/ BeginComplete(c, i)
             \/ \E a \in Agents : BeginUnassign(c, a)
             \/ \E i, j \in Ids : BeginBlock(c, i, j)
             \/ \E i \in Ids, a \in Agents :
                   BeginClaim(c, i, a) \/ BeginAssign(c, i, a) \/ BeginStart(c, i, a)
          /\ UNCHANGED listLock
    /\ UNCHANGED <<files, lock, history>>

-----------------------------------------------------------------------------
\* getTask for one file of a listing.
ListOne(c, i) ==
    LET k == call[c] IN
    /\ k.pc = "list" /\ i \in k.unread
    /\ Goes(c, [k EXCEPT !.unread = @ \ {i},
                         !.list = IF ~Readable(i) THEN @
                                  ELSE [j \in DOMAIN @ \cup {i} |->
                                          IF j = i THEN task[i] ELSE @[j]]])
    /\ UNCHANGED <<files, locks, history>>

Listed(c) == At(c, "list") /\ call[c].unread = {}
Unresolved(list) == {i \in DOMAIN list : list[i].status # "completed"}

\* The call goes on to the updates that its listing calls for.
Updating(k, op, work) ==
    Turning([Idle EXCEPT !.op = op, !.agent = k.agent, !.work = work])

\* Mutant: a task that nobody works on does not block.
Blockers_InProgress(list) == {i \in DOMAIN list : list[i].status = "in_progress"}

\* The tasks that block a claim.
Blockers(list) == Unresolved(list)

\* Mutant: the lock is not released when the task is blocked.
Unlocked_Never(i) == lock

Unlocked(i) == [lock EXCEPT ![i] = NoCall]

\* claimTask has listed the blockers, and holds the lock of the task.
ClaimChecks(c) ==
    LET k == call[c]
        free == k.read.blockedBy \cap Blockers(k.list) = {}
    IN  /\ Listed(c) /\ k.op = "claim"
        /\ Goes(c, IF free THEN [k EXCEPT !.pc = "read", !.list = Idle.list,
                               !.read = NewTask,
                               !.missed = k.read.blockedBy \ DOMAIN k.list]
                   ELSE Over)
        /\ lock' = IF free THEN lock ELSE Unlocked(Target(k))
        /\ UNCHANGED <<files, listLock, history>>

\* unassignTeammateTasks.
UnassignListed(c) ==
    LET k == call[c]
        mine == {i \in Unresolved(k.list) : k.list[i].owner = k.agent}
    IN  /\ Listed(c) /\ k.op = "unassign"
        /\ \E work \in UpdatesOf(mine,
                          LAMBDA i : Update(i, [owner |-> NoOne,
                                                status |-> "pending"])) :
              Goes(c, Updating(k, "unassign", work))
        /\ UNCHANGED <<files, locks, history>>

\* blockTask.
BlockListed(c) ==
    LET k == call[c]
        i == k.id
        j == k.other
    IN  /\ Listed(c) /\ k.op = "block"
        /\ Goes(c, IF {i, j} \subseteq DOMAIN k.list
                   THEN Updating(k, "update",
                          (IF j \in k.list[i].blocks THEN <<>>
                           ELSE <<Update(i, [blocks |-> k.list[i].blocks \cup {j}])>>)
                          \o
                          (IF i \in k.list[j].blockedBy THEN <<>>
                           ELSE <<Update(j, [blockedBy |->
                                               k.list[j].blockedBy \cup {i}])>>))
                   ELSE Over)
        /\ UNCHANGED <<files, locks, history>>

\* deleteTask removes the references to the task.
DeleteListed(c) ==
    LET k == call[c]
        d == k.id
        linked == {i \in DOMAIN k.list :
                      d \in k.list[i].blocks \cup k.list[i].blockedBy}
    IN  /\ Listed(c) /\ k.op = "delete"
        /\ \E work \in UpdatesOf(linked,
                          LAMBDA i : Update(i,
                            [blocks |-> k.list[i].blocks \ {d},
                             blockedBy |-> k.list[i].blockedBy \ {d}])) :
              Goes(c, Updating(k, "update", work))
        /\ UNCHANGED <<files, locks, history>>

-----------------------------------------------------------------------------
\* updateTask and claimTask look for the file before they lock it, and keep
\* nothing of what they see: to see it and to get the lock are one step.  When
\* it is not there, or is gone by the time it is locked (lock() throws):
NotFound(c) ==
    LET k == call[c] IN
    /\ k.pc = "lock" /\ ~Readable(Target(k))
    /\ \/ /\ k.op = "claim" \/ file[Target(k)] = "absent"
          /\ Goes(c, Over)
       \/ /\ k.op # "claim"
          /\ Goes(c, NextUpdate(k))
    /\ UNCHANGED <<files, locks, history>>

\* Mutant: the owner is looked at before the lock is taken, and not again.
Claimable_Anyone(k, t) == t.status # "completed"

\* claimTask: nobody else's, and not done.
Claimable(k, t) == t.owner \in {NoOne, k.agent} /\ t.status # "completed"

\* The lock is taken and the task read.  (What becomes of the file between the
\* two could have become of it before.)  claimTask goes on to list the blockers;
\* of the list only they matter.
Lock(c) ==
    LET k == call[c]
        i == Target(k)
        goesOn == k.op = "claim" => Claimable(k, task[i])
    IN  /\ k.pc = "lock" /\ Readable(i) /\ lock[i] = NoCall
        /\ Goes(c, IF ~goesOn THEN Over
                   ELSE IF k.op = "claim"
                        THEN Listing([k EXCEPT !.read = task[i]],
                                     task[i].blockedBy \cap Existing)
                        ELSE [k EXCEPT !.pc = "open", !.read = task[i]])
        /\ lock' = IF goesOn THEN [lock EXCEPT ![i] = c] ELSE lock
        /\ UNCHANGED <<files, listLock, history>>

\* After a successful claim: the teammate marks the task in progress; the
\* watcher submits it, or gives it back.
AfterClaim(k) ==
    LET next(op, patch) ==
            Turning([Idle EXCEPT !.op = op, !.agent = k.agent,
                                 !.work = <<Update(Target(k), patch)>>])
    IN  {Over, next("update", [status |-> "in_progress"]),
         next("release", [owner |-> NoOne])}

Continues(c, k) ==
    IF k.op = "claim" THEN \E after \in AfterClaim(k) : Goes(c, after)
                      ELSE Goes(c, NextUpdate(k))

\* The claim reads the task again; when it is gone nothing is written, and it
\* has succeeded all the same.
Read(c) ==
    LET k == call[c]
        i == Target(k)
    IN  /\ k.pc = "read"
        /\ IF Readable(i) THEN Goes(c, [k EXCEPT !.pc = "open", !.read = task[i]])
                          ELSE Continues(c, k)
        /\ lock' = IF Readable(i) THEN lock ELSE Unlocked(i)
        /\ UNCHANGED <<files, listLock, history>>

\* writeFile opens the file, or makes it anew.
Open(c) ==
    LET k == call[c] IN
    /\ k.pc = "open"
    /\ file' = [file EXCEPT ![Target(k)] = "torn"]
    /\ Goes(c, [k EXCEPT !.pc = "write"])
    /\ UNCHANGED <<task, mark, locks, history>>

\* Who holds task i when k has written t over what it had read.
Holders(k, i, t) ==
    CASE k.op = "claim" -> claimed[i] \cup {k.agent}
      [] k.op = "assign" -> {k.agent}
      [] k.op = "start" /\ t.owner # k.read.owner -> claimed[i] \cup {k.agent}
      [] k.op \in {"unassign", "release"} -> claimed[i] \ {k.agent}
      [] k.op = "complete" -> {}
      [] OTHER -> claimed[i]

\* An owner that the call did not mean is replaced.
Snatches(k, t) ==
    /\ k.op \in {"start", "unassign", "release"}
    /\ k.read.owner \notin {NoOne, k.agent} /\ t.owner # k.read.owner

\* The content is written, and the lock released.
Write(c) ==
    LET k == call[c]
        i == Target(k)
        t == Patched(k.read, Head(k.work).patch)
    IN  /\ k.pc = "write" /\ k.op # "create"
        /\ \/ /\ ~k.ghost
              /\ file' = [file EXCEPT ![i] = "whole"]
              /\ task' = [task EXCEPT ![i] = t]
              /\ claimed' = [claimed EXCEPT ![i] = Holders(k, i, t)]
              /\ snatched' = IF Snatches(k, t) THEN snatched \cup {i} ELSE snatched
              /\ reopened' = IF k.read.status = "completed" /\ t.status # "completed"
                             THEN reopened \cup {i} ELSE reopened
           \/ k.ghost /\ UNCHANGED <<file, task, claimed, snatched, reopened>>
        /\ lock' = Unlocked(i)
        /\ Continues(c, k)
        /\ UNCHANGED <<mark, listLock, issued, reused>>

-----------------------------------------------------------------------------
\* The numbers that createTask or resetTaskList knows of when it has looked at
\* the directory, the high water mark included if that was read before.
Numbers(k) == {k.n} \cup Existing

\* findHighestTaskId reads the directory and the mark in either order;
\* resetTaskList the directory only.
ReadNumbers(c) ==
    LET k == call[c] IN
    /\ \/ /\ k.pc \in {"number", "files"}
          /\ \E h \in 0 .. MaxId :
                /\ IsHighest(h, Numbers(k))
                /\ Goes(c, [k EXCEPT !.n = h,
                              !.pc = IF k.op = "reset"
                                     THEN IF h = 0 THEN "clear" ELSE "mark"
                                     ELSE IF k.pc = "number" THEN "mark"
                                                             ELSE "open_new"])
       \/ /\ k.pc = "number"
          /\ Goes(c, [k EXCEPT !.n = mark, !.pc = "files"])
       \/ /\ k.pc = "mark" /\ k.op = "create"
          /\ Goes(c, [k EXCEPT !.n = IF mark > @ THEN mark ELSE @, !.pc = "open_new"])
    /\ UNCHANGED <<files, locks, history>>

\* createTask opens the file of the new task.
OpenNew(c) ==
    LET k == call[c]
        i == k.n + 1
    IN  /\ k.pc = "open_new" /\ i \in Ids
        /\ file' = [file EXCEPT ![i] = "torn"]
        /\ issued' = issued \cup {i}
        /\ reused' = IF i \in issued THEN reused \cup {i} ELSE reused
        /\ claimed' = [claimed EXCEPT ![i] = {}]
        /\ Goes(c, [k EXCEPT !.pc = "write", !.id = i])
        /\ UNCHANGED <<task, mark, locks, snatched, reopened>>

WriteNew(c) ==
    LET k == call[c] IN
    /\ k.pc = "write" /\ k.op = "create"
    /\ file' = IF k.ghost THEN file ELSE [file EXCEPT ![k.id] = "whole"]
    /\ task' = IF k.ghost THEN task ELSE [task EXCEPT ![k.id] = NewTask]
    /\ listLock' = NoCall
    /\ Goes(c, Over)
    /\ UNCHANGED <<mark, lock, history>>

-----------------------------------------------------------------------------
AfterMark(k) == [k EXCEPT !.pc = IF k.op = "delete" THEN "unlink" ELSE "clear",
                          !.n = 0]

\* Mutant: the comparison is the wrong way round.
Raises_Lower(k) == k.n < mark

\* The mark is only ever raised.
Raises(k) == k.n > mark

\* deleteTask and resetTaskList read the mark, and raise it; it is truncated first.
ReadMark(c) ==
    LET k == call[c] IN
    /\ k.pc = "mark" /\ k.op # "create"
    /\ Goes(c, IF Raises(k) THEN [k EXCEPT !.pc = "open_mark"] ELSE AfterMark(k))
    /\ UNCHANGED <<files, locks, history>>

WriteMark(c) ==
    LET k == call[c] IN
    /\ \/ /\ k.pc = "open_mark" /\ mark' = 0
          /\ Goes(c, [k EXCEPT !.pc = "write_mark"])
       \/ /\ k.pc = "write_mark" /\ mark' = k.n
          /\ Goes(c, AfterMark(k))
    /\ UNCHANGED <<file, task, locks, history>>

\* unlink: what is being written to the file goes nowhere.
Unlink(i) ==
    /\ file' = [file EXCEPT ![i] = "absent"]
    /\ task' = [task EXCEPT ![i] = NewTask]
    /\ claimed' = [claimed EXCEPT ![i] = {}]
Unlinked(cs, i) ==
    [c \in Calls |-> IF cs[c].pc = "write" /\ Target(cs[c]) = i
                     THEN [cs[c] EXCEPT !.ghost = TRUE] ELSE cs[c]]

\* deleteTask unlinks the file, and lists the others.
DeleteUnlinks(c) ==
    LET k == call[c] IN
    /\ k.pc = "unlink"
    /\ \/ /\ file[k.id] = "absent"
          /\ Goes(c, Over)
          /\ UNCHANGED <<file, task, claimed>>
       \/ /\ file[k.id] # "absent"
          /\ Unlink(k.id)
          /\ call' = Unlinked([call EXCEPT ![c] = Listing(k, Existing \ {k.id})], k.id)
    /\ UNCHANGED <<mark, locks, snatched, reopened, issued, reused>>

\* resetTaskList lists the files, unlinks one after the other, and is done.
ResetClears(c) ==
    /\ At(c, "clear")
    /\ Goes(c, [call[c] EXCEPT !.pc = "sweep", !.unread = Existing])
    /\ UNCHANGED <<files, locks, history>>

ResetUnlinks(c, i) ==
    LET k == call[c] IN
    /\ k.pc = "sweep" /\ i \in k.unread
    /\ Unlink(i)
    /\ call' = Unlinked([call EXCEPT ![c].unread = @ \ {i}], i)
    /\ UNCHANGED <<mark, locks, snatched, reopened, issued, reused>>

ResetEnds(c) ==
    /\ At(c, "sweep") /\ call[c].unread = {}
    /\ Goes(c, Over)
    /\ listLock' = NoCall
    /\ UNCHANGED <<files, lock, history>>

\* The process of a call dies with a lock, which is given up after a while.
\* (One that dies without a lock, or has waited for one too long, is a call that
\* takes no further step.)
Dies(c) ==
    /\ listLock = c \/ \E i \in Ids : lock[i] = c
    /\ Goes(c, Over)
    /\ lock' = [i \in Ids |-> IF lock[i] = c THEN NoCall ELSE lock[i]]
    /\ listLock' = IF listLock = c THEN NoCall ELSE listLock
    /\ UNCHANGED <<files, history>>

-----------------------------------------------------------------------------
Deleting(c) ==
    /\ call[c].op = "delete"
    /\ call[c].pc \in {"mark", "open_mark", "write_mark", "unlink"}
Numbering(c) == call[c].pc \in {"number", "files", "mark", "open_mark", "write_mark"}
Races == \E c, d \in Calls : c # d /\ Deleting(c) /\ (Deleting(d) \/ Numbering(d))

Step(c) ==
    \/ Begin(c)
    \/ \E i \in Ids : ListOne(c, i)
    \/ ClaimChecks(c) \/ UnassignListed(c) \/ BlockListed(c)
    \/ DeleteListed(c)
    \/ NotFound(c) \/ Lock(c) \/ Read(c) \/ Open(c) \/ Write(c)
    \/ ReadNumbers(c) \/ OpenNew(c) \/ WriteNew(c)
    \/ ReadMark(c) \/ WriteMark(c) \/ DeleteUnlinks(c)
    \/ ResetClears(c) \/ ResetEnds(c)
    \/ \E i \in Ids : ResetUnlinks(c, i)

Next ==
    \/ \E c \in Calls : Step(c) /\ raced' = (raced \/ Races')
    \/ \E c \in Calls : Dies(c) /\ raced' = (raced \/ At(c, "write_mark"))

Spec == Init /\ [][Next]_vars

-----------------------------------------------------------------------------
Patches ==
    [owner : Agents \cup {NoOne}] \cup [status : Status]
    \cup [owner : Agents \cup {NoOne}, status : Status]
    \cup [blocks : SUBSET Ids] \cup [blockedBy : SUBSET Ids]
    \cup [blocks : SUBSET Ids, blockedBy : SUBSET Ids]

\* Type correctness, with the locks: a task file is locked by the call that is
\* reading or writing it, and by no other.
TypeOK ==
    /\ file \in [Ids -> {"absent", "torn", "whole"}]
    /\ task \in [Ids -> Task]
    /\ mark \in 0 .. MaxId
    /\ lock \in [Ids -> Calls \cup {NoCall}] /\ listLock \in Calls \cup {NoCall}
    /\ \A c \in Calls :
          /\ call[c].work \in Seq([id : Ids, patch : Patches])
          /\ call[c].read \in Task
          /\ call[c].n \in 0 .. MaxId
    /\ \A i \in Ids : lock[i] # NoCall =>
          /\ call[lock[i]].pc \in {"list", "read", "open", "write"}
          /\ Target(call[lock[i]]) = i
    /\ claimed \in [Ids -> SUBSET Agents]
    /\ snatched \cup reopened \cup issued \cup reused \subseteq Ids
    /\ raced \in BOOLEAN

\* No number is given twice, whatever was deleted or reset before: the high
\* water mark outlives the files.  It is read and written without a lock by
\* deleteTask, so that this needs a deletion that overlaps with no other one, no
\* creation and no reset, and a process that does not die as it writes the mark.
IdsUnique == reused # {} => raced

\* At most one agent holds a task: two claims of a task, or a claim and an
\* assignment, exclude each other until the task is given up or is taken over
\* on purpose.  The exception is an update that replaces an owner it does not
\* know of, decided on what it read before it took the lock: a teammate
\* unassigned twice, a TaskUpdate that found no owner; or the number of the task
\* has been given twice, so that createTask writes over it.
ClaimsExclude ==
    \A i \in Ids :
        Cardinality(claimed[i]) > 1 => i \in snatched \cup reused

\* The claim of c has passed its checks and holds the lock of its task.
Claiming(c) == call[c].op = "claim" /\ call[c].pc \in {"read", "open", "write"}

\* A task is claimed only when the tasks that block it are completed, gone or
\* just being rewritten, while others complete, block, delete and create tasks.
\* The exceptions are a blocker that the listing of the claim did not find,
\* gone or with its file being rewritten, one that a stale update has opened
\* again, and one whose number has been given to a new task.
ClaimedIsUnblocked ==
    \A c \in Calls : Claiming(c) /\ ~call[c].ghost =>
        \A b \in task[Target(call[c])].blockedBy :
            \/ Readable(b) => task[b].status = "completed"
            \/ b \in call[c].missed \cup reopened \cup reused
=============================================================================
