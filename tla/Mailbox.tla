-------------------------------- MODULE Mailbox --------------------------------
(***************************************************************************)
(* The mailbox of an agent of a team (src/src/utils/teammateMailbox.ts):   *)
(* a file with a list of messages, and a lock that whoever changes it      *)
(* takes, reads the list again, and writes it back.  Those who only look   *)
(* take no lock.                                                           *)
(*                                                                         *)
(* Three kinds of reader look at a mailbox and mark what they have read:   *)
(* the hook of an interactive session (src/src/hooks/useInboxPoller.ts),   *)
(* the leader of a session without a terminal (src/src/cli/print.ts), and  *)
(* the teammate in the leader's process (utils/swarm/inProcessRunner.ts),  *)
(* which also looks for the answers to its own permission requests.        *)
(*                                                                         *)
(* Senders and readers are processes, or interleave at their awaits, and a *)
(* step is one operation on the file.  writeFile first truncates the file. *)
(***************************************************************************)
EXTENDS Naturals, Sequences

Kinds == {"shutdown", "lead", "peer", "response"}
ReaderKinds == {"hook", "headless", "loop"}

CONSTANTS
    Messages,  \* bound: calls of writeToMailbox, each with its own message
    Reads,     \* bound: looks at the mailbox that are under way together
    Mailings,  \* what kinds the messages may have
    NoOne

ASSUME MailboxConstants ==
    /\ Messages \cap Reads = {} /\ NoOne \notin Messages \cup Reads
    /\ Mailings \subseteq [Messages -> Kinds]

VARIABLES
    reader,    \* the kind of the reader
    kind,      \* the kind of every message
    file,      \* whether the file is there, and whether it parses
    list,      \* what it says, nothing when it does not parse
    lock,      \* who holds the lock
    call,      \* how far the senders and the looks have come
    busy,      \* a turn of the recipient runs
    queued,    \* the messages of AppState.inbox, that wait for its end
    delivered, \* the messages that the recipient's model or callbacks have got
    confirmed, \* history: messages whose reader has returned from marking them
    blind,     \* history: messages marked by a call that had not read them
    wiped      \* history: messages in a file that was destroyed

disk == <<file, list>>
session == <<busy, queued, delivered>>
history == <<confirmed, blind, wiped>>
vars == <<reader, kind, disk, lock, call, session, history>>

-----------------------------------------------------------------------------
Callers == Messages \cup Reads
Entry == [id : Messages, read : BOOLEAN]

Ids(l) == {l[i].id : i \in DOMAIN l}
UnreadAt(l) == {i \in DOMAIN l : ~l[i].read}
Unread(l) == {l[i].id : i \in UnreadAt(l)}

\* A call: the messages that a look has found, the place of the one that it
\* marks or 0 for all of them, and the list that it writes.
Idle == [op |-> "none", pc |-> "idle", got |-> {}, at |-> 0, list |-> <<>>]

At(c, pc) == call[c].pc = pc
Goes(c, k) == call' = [call EXCEPT ![c] = k]
GoesTo(c, pc) == Goes(c, [call[c] EXCEPT !.pc = pc])

\* Mutant: nobody waits for the lock.
Free_Always == TRUE

Free == lock = NoOne

Init ==
    /\ reader \in ReaderKinds /\ kind \in Mailings
    /\ file = "absent" /\ list = <<>> /\ lock = NoOne
    /\ call = [c \in Callers |-> Idle]
    /\ busy \in BOOLEAN
    /\ queued = {} /\ delivered = {}
    /\ confirmed = {} /\ blind = {} /\ wiped = {}

-----------------------------------------------------------------------------
\* writeToMailbox creates the file if it is not there, and then writes "[]" to
\* what it has opened, whatever others have written to the file meanwhile.
Create(m) ==
    /\ At(m, "idle")
    /\ file' = IF file = "absent" THEN "empty" ELSE file
    /\ GoesTo(m, IF file = "absent" THEN "created" ELSE "lock")
    /\ UNCHANGED <<reader, kind, list, lock, session, history>>

WritesEmptyList(m) ==
    /\ At(m, "created")
    /\ file' = CASE file = "empty" -> "whole"
                 [] list # <<>>    -> "garbled"
                 [] OTHER          -> file
    /\ list' = <<>>
    /\ wiped' = wiped \cup Ids(list)
    /\ GoesTo(m, "lock")
    /\ UNCHANGED <<reader, kind, lock, session, confirmed, blind>>

\* Mutant: the list is not read again.
Appended_Alone(m) == <<[id |-> m, read |-> FALSE]>>

\* The list with the new message: under the lock it has been read again.
Appended(m) == Append(list, [id |-> m, read |-> FALSE])

LockToSend(m) ==
    /\ m \in Messages /\ At(m, "lock") /\ Free
    /\ lock' = m
    /\ Goes(m, [call[m] EXCEPT !.pc = "open", !.list = Appended(m)])
    /\ UNCHANGED <<reader, kind, disk, session, history>>

-----------------------------------------------------------------------------
\* After a mark: the hook has delivered before it; the others now return what
\* they have found.
Marked(k) ==
    IF k.op = "poll" THEN Idle ELSE [k EXCEPT !.pc = "return", !.list = <<>>]

\* Mutant: the place of the message is counted from the next one.
Touched_OffByOne(k) ==
    IF k.at = 0 THEN DOMAIN list ELSE {k.at + 1} \cap UnreadAt(list)

\* The entries that a mark sets to read: all, or the one at its place if that
\* is there and unread.
Touched(k) == IF k.at = 0 THEN DOMAIN list ELSE {k.at} \cap UnreadAt(list)

\* The list with these entries set to read.
Marks(touched) ==
    [i \in DOMAIN list |-> [list[i] EXCEPT !.read = @ \/ i \in touched]]

\* markMessagesAsRead, markMessageAsReadByIndex: nothing is written when there is
\* nothing to mark.
LockToMark(p) ==
    LET k == call[p]
        touched == Touched(k)
        marks == Marks(touched)
    IN  /\ p \in Reads /\ k.pc = "lock" /\ Free
        /\ IF touched = {}
           THEN /\ Goes(p, Marked(k))
                /\ confirmed' = confirmed \cup k.got
                /\ UNCHANGED <<lock, blind>>
           ELSE /\ lock' = p
                /\ Goes(p, [k EXCEPT !.pc = "open", !.list = marks])
                /\ blind' = blind \cup ((Unread(list) \ Unread(marks)) \ k.got)
                /\ UNCHANGED confirmed
        /\ UNCHANGED <<reader, kind, disk, session, wiped>>

\* writeFile of whoever has the lock.
Open(c) ==
    /\ At(c, "open")
    /\ file' = "empty" /\ list' = <<>>
    /\ GoesTo(c, "write")
    /\ UNCHANGED <<reader, kind, lock, session, history>>

Write(c) ==
    LET k == call[c] IN
    /\ k.pc = "write"
    /\ file' = "whole" /\ list' = k.list /\ lock' = NoOne
    /\ IF c \in Messages
       THEN Goes(c, [Idle EXCEPT !.pc = "sent"])
       ELSE Goes(c, Marked(k))
    /\ confirmed' = confirmed \cup k.got
    /\ UNCHANGED <<reader, kind, session, blind, wiped>>

\* The lock is not to be had: the message is dropped, or the mark is, and the
\* error is only logged.
GivesUp(c) ==
    /\ At(c, "lock") /\ ~Free
    /\ IF c \in Messages THEN GoesTo(c, "dropped") ELSE Goes(c, Marked(call[c]))
    /\ UNCHANGED <<reader, kind, disk, lock, session, history>>

\* The process of a sender dies with the lock, which is given up after a while.
Dies(m) ==
    /\ m \in Messages /\ lock = m
    /\ lock' = NoOne
    /\ wiped' = IF At(m, "write") THEN wiped \cup (Ids(call[m].list) \ {m}) ELSE wiped
    /\ Goes(m, [Idle EXCEPT !.pc = "dead"])
    /\ UNCHANGED <<reader, kind, disk, session, confirmed, blind>>

-----------------------------------------------------------------------------
Looks(p, op, pc, got, at) ==
    /\ At(p, "idle")
    /\ Goes(p, [Idle EXCEPT !.op = op, !.pc = pc, !.got = got, !.at = at])
    /\ UNCHANGED <<reader, kind, disk, lock, session, history>>

\* The hook: a poll every second, whether the one before is done or not.
PollReads(p) ==
    /\ reader = "hook" /\ Unread(list) # {}
    /\ Looks(p, "poll", "found", Unread(list), 0)

\* Answers go to the callbacks that wait for them, other messages to the model:
\* at once, or through the queue when a turn runs or the user has typed one, or
\* did when the poll was set up.
PollDelivers(p) ==
    LET k == call[p]
        answers == {m \in k.got : kind[m] = "response"}
        regular == k.got \ answers
    IN  /\ k.pc = "found"
        /\ \/ /\ regular = {} \/ ~busy
              /\ delivered' = delivered \cup k.got
              /\ busy' = (busy \/ regular # {})
              /\ UNCHANGED queued
           \/ /\ regular # {}
              /\ delivered' = delivered \cup answers
              /\ queued' = queued \cup regular
              /\ UNCHANGED busy
        /\ GoesTo(p, "lock")
        /\ UNCHANGED <<reader, kind, disk, lock, history>>

\* The session is idle: the queue is submitted as a turn.
QueueDelivers ==
    /\ reader = "hook" /\ ~busy /\ queued # {}
    /\ delivered' = delivered \cup queued /\ queued' = {} /\ busy' = TRUE
    /\ UNCHANGED <<reader, kind, disk, lock, call, history>>

\* The leader without a terminal marks first, and then goes on to what it read.
\* A prompt of the user's starts a turn beside the poll that runs, so that the end
\* of that turn adds another one.
HeadlessReads(p) ==
    /\ reader = "headless" /\ Unread(list) # {}
    /\ Looks(p, "headless", "lock", Unread(list), 0)

OfKind(k) == {i \in UnreadAt(list) : kind[list[i].id] = k}
First(S) == {i \in S : \A j \in S : i <= j}

\* Shutdown requests first, then the leader's messages, then the others.
NextUp ==
    IF OfKind("shutdown") # {} THEN First(OfKind("shutdown"))
    ELSE IF OfKind("lead") # {} THEN First(OfKind("lead"))
    ELSE First(UnreadAt(list))

\* A teammate waits for its next prompt in one loop.
Waits == reader = "loop" /\ ~busy /\ \A q \in Reads : call[q].op # "wait"

LoopReads(p) ==
    /\ Waits
    /\ \E i \in NextUp : Looks(p, "wait", "lock", {list[i].id}, i)

\* A teammate that waits for the answer to a permission request looks twice a
\* second until it has it, whether the look before is done or not.
AskReads(p) ==
    /\ reader = "loop" /\ busy
    /\ \E i \in OfKind("response") :
          /\ list[i].id \notin delivered
          /\ Looks(p, "ask", "lock", {list[i].id}, i)

Returns(p) ==
    LET k == call[p] IN
    /\ k.pc = "return"
    /\ delivered' = delivered \cup k.got
    /\ busy' = (busy \/ k.op # "ask")
    /\ Goes(p, Idle)
    /\ UNCHANGED <<reader, kind, disk, lock, queued, history>>

\* The ends of turns, and turns that the user starts, or a task.
Turn ==
    /\ busy \/ reader # "loop" \/ Waits
    /\ busy' = ~busy
    /\ UNCHANGED <<reader, kind, disk, lock, call, queued, delivered, history>>

-----------------------------------------------------------------------------
Next ==
    \/ \E m \in Messages :
          Create(m) \/ WritesEmptyList(m) \/ LockToSend(m) \/ Dies(m)
    \/ \E p \in Reads :
          \/ PollReads(p) \/ PollDelivers(p) \/ HeadlessReads(p)
          \/ LoopReads(p) \/ AskReads(p) \/ LockToMark(p) \/ Returns(p)
    \/ \E c \in Callers : Open(c) \/ Write(c) \/ GivesUp(c)
    \/ QueueDelivers \/ Turn

Spec == Init /\ [][Next]_vars

-----------------------------------------------------------------------------
\* Type correctness, with the lock: only its holder writes, and a file that does
\* not parse says nothing.
TypeOK ==
    /\ reader \in ReaderKinds /\ kind \in Mailings
    /\ file \in {"absent", "empty", "whole", "garbled"}
    /\ list \in Seq(Entry) /\ (file # "whole" => list = <<>>)
    /\ lock \in Callers \cup {NoOne}
    /\ \A c \in Callers :
          /\ call[c].got \subseteq Messages /\ call[c].at \in Nat
          /\ call[c].list \in Seq(Entry)
          /\ call[c].pc \in {"open", "write"} <=> lock = c
    /\ busy \in BOOLEAN
    /\ queued \cup delivered \cup confirmed \cup blind \cup wiped \subseteq Messages

\* What the file says, or is about to say again.
Kept == IF lock # NoOne /\ At(lock, "write") THEN call[lock].list ELSE list

\* A message that was sent waits in the file, or with a look, or in the queue, or
\* has been delivered.  It is lost in three ways only: marked by a call that had
\* not read it, destroyed with the file by a creation that went on after others
\* had written, or by a sender that died as it wrote.
NothingElseLost ==
    \A m \in Messages :
        At(m, "sent") =>
            \/ m \in Unread(Kept) \cup queued \cup delivered
            \/ \E p \in Reads : m \in call[p].got
            \/ m \in blind \cup wiped

\* Whoever writes the file never takes a mark back: what a reader has marked is
\* not unread again, so that a message comes twice only when a look overlaps
\* with the mark of another, or a mark was given up.
MarksStay == confirmed \cap Unread(Kept) = {}
=============================================================================
