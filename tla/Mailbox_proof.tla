----------------------------- MODULE Mailbox_proof -----------------------------
(***************************************************************************)
(* Proofs about the mailbox, for any number of messages and looks.         *)
(***************************************************************************)
EXTENDS Mailbox, TLAPS

Ops == {"none", "poll", "headless", "wait", "ask"}
Pcs == {"idle", "created", "found", "lock", "open", "write", "return",
        "sent", "dropped", "dead"}
CallRec == [op : Ops, pc : Pcs, got : SUBSET Messages, at : Nat, list : Seq(Entry)]

TypeInv ==
    /\ reader \in ReaderKinds /\ kind \in Mailings
    /\ file \in {"absent", "empty", "whole", "garbled"}
    /\ list \in Seq(Entry) /\ (file # "whole" => list = <<>>)
    /\ lock \in Callers \cup {NoOne}
    /\ call \in [Callers -> CallRec]
    /\ \A c \in Callers : call[c].pc \in {"open", "write"} <=> lock = c
    /\ \A m \in Messages : call[m].got = {} /\ call[m].op = "none"
    /\ busy \in BOOLEAN
    /\ queued \in SUBSET Messages /\ delivered \in SUBSET Messages
    /\ confirmed \in SUBSET Messages
    /\ blind \in SUBSET Messages /\ wiped \in SUBSET Messages

-----------------------------------------------------------------------------
\* Where a message is that is not unread in the file.
Taken == UNION {call[p].got : p \in Reads}
Rest == queued \cup delivered \cup Taken \cup blind \cup wiped
Sent == {m \in Messages : At(m, "sent")}

\* No message is lost as long as l is the file.
Keeps(l) == Sent \subseteq Unread(l) \cup Rest

\* The holder of the lock is about to fill the file that it has truncated.
Filling == lock # NoOne /\ At(lock, "write")

\* A poll has found nothing, has just found something, or has delivered it.
PollOK(p) ==
    /\ call[p].pc = "idle" => call[p].got = {}
    /\ call[p].op = "poll" /\ call[p].pc # "found" =>
         call[p].got \subseteq delivered \cup queued

\* What the file says keeps the messages, unless it is being filled, and so does
\* what the holder of the lock writes.
LossInv ==
    /\ ~Filling => Keeps(list)
    /\ lock # NoOne => Keeps(call[lock].list)
    /\ \A m \in Messages : lock = m => m \in Unread(call[m].list)
    /\ \A p \in Reads : PollOK(p)

-----------------------------------------------------------------------------
\* A message that a look wants to mark is at no other place than the look knows.
InPlace(k, l) == k.at # 0 => \A i \in DOMAIN l : l[i].id \in k.got => i = k.at

\* A list with each message once, in which looks know their places, and that
\* takes no mark back.
Distinct(l) == \A i, j \in DOMAIN l : l[i].id = l[j].id => i = j
Good(l, cs, marked) ==
    Distinct(l) /\ marked \cap Unread(l) = {} /\ \A p \in Reads : InPlace(cs[p], l)

\* l is list, with more messages or marks.
Extends(l) == \A i \in DOMAIN list : i \in DOMAIN l /\ l[i].id = list[i].id

\* What the holder of the lock writes.
WritesGood ==
    LET l == call[lock].list IN
    /\ Good(l, call, confirmed)
    /\ Ids(l) \subseteq Sent \cup {lock}
    /\ Extends(l)
    /\ call[lock].got \cap Unread(l) = {}

MarkInv ==
    /\ Good(list, call, confirmed)
    /\ Ids(list) \subseteq Sent /\ confirmed \subseteq Sent /\ Taken \subseteq Sent
    /\ lock # NoOne => WritesGood

Inv == TypeInv /\ LossInv /\ MarkInv

-----------------------------------------------------------------------------
\* Lists.
LEMMA EmptyList ==
    /\ <<>> \in Seq(Entry) /\ DOMAIN <<>> = {}
    /\ Ids(<<>>) = {} /\ Unread(<<>>) = {}
  BY DEF Ids, Unread, UnreadAt

LEMMA UnreadAreIds ==
    ASSUME NEW l PROVE Unread(l) \subseteq Ids(l)
  BY DEF Ids, Unread, UnreadAt

LEMMA ListTypes ==
    ASSUME NEW l \in Seq(Entry)
    PROVE  /\ Ids(l) \subseteq Messages /\ Unread(l) \subseteq Messages
           /\ \A i \in DOMAIN l : i \in Nat /\ i # 0 /\ l[i] \in Entry
<1>1. \A i \in DOMAIN l : i \in Nat /\ i # 0 /\ l[i] \in Entry
  OBVIOUS
<1>2. \A i \in DOMAIN l : l[i].id \in Messages
  BY <1>1 DEF Entry
<1> QED
  BY <1>1, <1>2 DEF Ids, Unread, UnreadAt

LEMMA AppendedList ==
    ASSUME list \in Seq(Entry), NEW m \in Messages
    PROVE  /\ Appended(m) \in Seq(Entry)
           /\ DOMAIN Appended(m) = DOMAIN list \cup {Len(list) + 1}
           /\ \A i \in DOMAIN list : Appended(m)[i] = list[i]
           /\ Appended(m)[Len(list) + 1] = [id |-> m, read |-> FALSE]
           /\ Ids(Appended(m)) = Ids(list) \cup {m}
           /\ Unread(Appended(m)) = Unread(list) \cup {m}
<1> DEFINE e == [id |-> m, read |-> FALSE]
           a == Append(list, e)
<1>1. e \in Entry
  BY DEF Entry
<1>2. /\ a \in Seq(Entry) /\ Len(a) = Len(list) + 1
      /\ \A i \in 1 .. Len(list) : a[i] = list[i]
      /\ a[Len(list) + 1] = e
  BY <1>1
<1>3. DOMAIN list = 1 .. Len(list) /\ DOMAIN a = 1 .. Len(list) + 1 /\ Len(list) \in Nat
  BY <1>2
<1> HIDE DEF a
<1>4. DOMAIN a = DOMAIN list \cup {Len(list) + 1} /\ Len(list) + 1 \notin DOMAIN list
  BY <1>3
<1>5. \A i \in DOMAIN list : a[i] = list[i]
  BY <1>2, <1>3
<1>6. Ids(a) = Ids(list) \cup {m}
  BY <1>2, <1>4, <1>5 DEF Ids
<1>7. Unread(a) = Unread(list) \cup {m}
  BY <1>2, <1>4, <1>5 DEF Unread, UnreadAt
<1> QED
  BY <1>2, <1>4, <1>5, <1>6, <1>7 DEF a, Appended

LEMMA MarkedList ==
    ASSUME list \in Seq(Entry), NEW T
    PROVE  /\ Marks(T) \in Seq(Entry)
           /\ DOMAIN Marks(T) = DOMAIN list
           /\ \A i \in DOMAIN list :
                /\ Marks(T)[i].id = list[i].id
                /\ Marks(T)[i].read <=> list[i].read \/ i \in T
           /\ Ids(Marks(T)) = Ids(list)
           /\ Unread(Marks(T)) \subseteq Unread(list)
<1>1. DOMAIN list = 1 .. Len(list) /\ Len(list) \in Nat
  OBVIOUS
<1>2. \A i \in DOMAIN list : list[i] \in Entry
  OBVIOUS
<1>3. \A i \in DOMAIN list :
         /\ Marks(T)[i] \in Entry /\ Marks(T)[i].id = list[i].id
         /\ Marks(T)[i].read <=> list[i].read \/ i \in T
  BY <1>2 DEF Marks, Entry
<1>4. DOMAIN Marks(T) = DOMAIN list
  BY DEF Marks
<1>5. Marks(T) \in Seq(Entry)
  <2>1. Marks(T) \in [1 .. Len(list) -> Entry]
    BY <1>1, <1>2 DEF Marks, Entry
  <2> QED
    BY <1>1, <2>1
<1>6. Ids(Marks(T)) = Ids(list)
  BY <1>3, <1>4 DEF Ids
<1>7. Unread(Marks(T)) \subseteq Unread(list)
  BY <1>3, <1>4 DEF Unread, UnreadAt
<1> QED
  BY <1>3, <1>4, <1>5, <1>6, <1>7

-----------------------------------------------------------------------------
\* Types.
LEMMA IdleCall == Idle \in CallRec
  BY DEF Idle, CallRec, Ops, Pcs

LEMMA InitTypes == Init => TypeInv
<1> SUFFICES ASSUME Init PROVE TypeInv
  OBVIOUS
<1>1. call \in [Callers -> CallRec]
  BY IdleCall DEF Init
<1>2. \A c \in Callers : call[c] = Idle
  BY DEF Init
<1>3. \A c \in Callers : ~(call[c].pc \in {"open", "write"}) /\ lock # c
  BY <1>2, MailboxConstants DEF Init, Idle, Callers
<1>4. \A m \in Messages : call[m].got = {} /\ call[m].op = "none"
  BY <1>2 DEF Idle, Callers
<1> QED
  BY <1>1, <1>3, <1>4 DEF Init, TypeInv

\* A step that puts k in the place of a call, and gives the lock to the calls
\* that write.
LEMMA CallTypes ==
    ASSUME TypeInv, NEW c \in Callers, NEW k \in CallRec, Goes(c, k),
           lock' \in {lock, c, NoOne},
           k.pc \in {"open", "write"} <=> lock' = c,
           lock \in {c, NoOne} \/ lock' = lock,
           c \in Messages => k.got = {} /\ k.op = "none"
    PROVE  /\ call' \in [Callers -> CallRec]
           /\ lock' \in Callers \cup {NoOne}
           /\ \A d \in Callers : call'[d].pc \in {"open", "write"} <=> lock' = d
           /\ \A m \in Messages : call'[m].got = {} /\ call'[m].op = "none"
<1>1. /\ call' = [call EXCEPT ![c] = k] /\ call \in [Callers -> CallRec]
      /\ lock \in Callers \cup {NoOne} /\ NoOne \notin Callers
  BY MailboxConstants DEF Goes, TypeInv, Callers
<1>2. call' \in [Callers -> CallRec] /\ call'[c] = k
  BY <1>1
<1>3. \A d \in Callers \ {c} : call'[d] = call[d]
  BY <1>1
<1>4. \A d \in Callers : call'[d].pc \in {"open", "write"} <=> lock' = d
  <2> SUFFICES ASSUME NEW d \in Callers
               PROVE  call'[d].pc \in {"open", "write"} <=> lock' = d
    OBVIOUS
  <2>1. CASE d = c
    BY <2>1, <1>2
  <2>2. CASE d # c
    <3>1. call'[d].pc \in {"open", "write"} <=> lock = d
      BY <2>2, <1>3 DEF TypeInv
    <3> QED
      BY <3>1, <2>2, <1>1
  <2> QED
    BY <2>1, <2>2
<1>5. \A m \in Messages : call'[m].got = {} /\ call'[m].op = "none"
  BY <1>2, <1>3 DEF TypeInv, Callers
<1> QED
  BY <1>1, <1>2, <1>4, <1>5

LEMMA Fields ==
    ASSUME NEW k \in CallRec
    PROVE  /\ k.op \in Ops /\ k.pc \in Pcs /\ k.got \in SUBSET Messages
           /\ k.at \in Nat /\ k.list \in Seq(Entry)
  BY DEF CallRec

LEMMA LockedCall ==
    ASSUME NEW k \in CallRec, NEW l \in Seq(Entry)
    PROVE  LET kk == [k EXCEPT !.pc = "open", !.list = l] IN
           /\ kk \in CallRec /\ kk.pc = "open" /\ kk.list = l
           /\ kk.got = k.got /\ kk.op = k.op /\ kk.at = k.at
  BY DEF CallRec, Pcs

LEMMA MarkedCall ==
    ASSUME NEW k \in CallRec
    PROVE  /\ Marked(k) \in CallRec /\ Marked(k).pc \in {"idle", "return"}
           /\ Marked(k).got = {} \/ Marked(k).got = k.got
           /\ k.op # "poll" => Marked(k).got = k.got
           /\ Marked(k).op = "poll" => FALSE
           /\ Marked(k).at # 0 => Marked(k).at = k.at
  BY IdleCall, EmptyList DEF Marked, CallRec, Idle, Pcs

LEMMA TypeStep ==
    ASSUME TypeInv, [Next]_vars PROVE TypeInv'
<1> USE DEF session, history, disk, Pcs
<1>0. \A m \in Messages : call[m].got = {} /\ call[m].op = "none"
  BY DEF TypeInv
<1>1. \A c \in Callers : call[c] \in CallRec
  BY DEF TypeInv
<1>2. lock \in Callers \cup {NoOne} /\ NoOne \notin Callers
  BY MailboxConstants DEF TypeInv, Callers
<1>3. \A m \in Messages : m \in Callers /\ m # NoOne /\ m \notin Reads
  BY MailboxConstants DEF Callers
<1>4. \A p \in Reads : p \in Callers /\ p # NoOne /\ p \notin Messages
  BY MailboxConstants DEF Callers
<1>5. CASE UNCHANGED vars
  BY <1>5 DEF vars, TypeInv
<1>6. ASSUME NEW m \in Messages, Create(m) PROVE TypeInv'
  <2> DEFINE k == [call[m] EXCEPT !.pc = IF file = "absent" THEN "created" ELSE "lock"]
  <2>1. k \in CallRec /\ k.pc \in {"created", "lock"} /\ k.got = {} /\ k.op = "none"
    BY <1>0, <1>1, <1>3 DEF CallRec
  <2>2. Goes(m, k) /\ lock' = lock /\ lock # m
    BY <1>6, <1>3 DEF Create, GoesTo, At, TypeInv
  <2> HIDE DEF k
  <2>3. /\ call' \in [Callers -> CallRec]
        /\ \A d \in Callers : call'[d].pc \in {"open", "write"} <=> lock' = d
        /\ \A n \in Messages : call'[n].got = {} /\ call'[n].op = "none"
    BY <1>3, <2>1, <2>2, CallTypes
  <2> QED
    BY <2>3, <1>6 DEF TypeInv, Create
<1>7. ASSUME NEW m \in Messages, WritesEmptyList(m) PROVE TypeInv'
  <2> DEFINE k == [call[m] EXCEPT !.pc = "lock"]
  <2>1. k \in CallRec /\ k.pc = "lock" /\ k.got = {} /\ k.op = "none"
    BY <1>0, <1>1, <1>3 DEF CallRec
  <2>2. Goes(m, k) /\ lock' = lock /\ lock # m
    BY <1>7, <1>3 DEF WritesEmptyList, GoesTo, At, TypeInv
  <2> HIDE DEF k
  <2>3. /\ call' \in [Callers -> CallRec]
        /\ \A d \in Callers : call'[d].pc \in {"open", "write"} <=> lock' = d
        /\ \A n \in Messages : call'[n].got = {} /\ call'[n].op = "none"
    BY <1>3, <2>1, <2>2, CallTypes
  <2>4. Ids(list) \in SUBSET Messages /\ list' \in Seq(Entry) /\ list' = <<>>
    BY <1>7, ListTypes, EmptyList DEF WritesEmptyList, TypeInv
  <2>5. file' \in {"absent", "empty", "whole", "garbled"}
    BY <1>7 DEF WritesEmptyList, TypeInv
  <2> QED
    BY <2>3, <2>4, <2>5, <1>7 DEF TypeInv, WritesEmptyList
<1>8. ASSUME NEW m \in Messages, LockToSend(m) PROVE TypeInv'
  <2> DEFINE l == Appended(m)
             k == [call[m] EXCEPT !.pc = "open", !.list = l]
  <2>0. l \in Seq(Entry)
    BY AppendedList DEF TypeInv
  <2> HIDE DEF l
  <2>1. k \in CallRec /\ k.pc = "open" /\ k.got = {} /\ k.op = "none"
    <3>1. call[m] \in CallRec
      BY <1>1, <1>3
    <3>2. k \in CallRec /\ k.pc = "open" /\ k.got = call[m].got /\ k.op = call[m].op
      BY <2>0, <3>1, LockedCall
    <3> QED
      BY <1>0, <3>2
  <2>2. Goes(m, k) /\ lock' = m /\ lock = NoOne
    BY <1>8 DEF LockToSend, Free, l
  <2> HIDE DEF k
  <2>3. /\ call' \in [Callers -> CallRec]
        /\ \A d \in Callers : call'[d].pc \in {"open", "write"} <=> lock' = d
        /\ \A n \in Messages : call'[n].got = {} /\ call'[n].op = "none"
    BY <1>3, <2>1, <2>2, CallTypes
  <2> QED
    BY <2>2, <2>3, <1>3, <1>8 DEF TypeInv, LockToSend
<1>9. ASSUME NEW m \in Messages, Dies(m) PROVE TypeInv'
  <2> DEFINE k == [Idle EXCEPT !.pc = "dead"]
  <2>1. k \in CallRec /\ k.pc = "dead" /\ k.got = {} /\ k.op = "none"
    BY IdleCall DEF Idle, CallRec
  <2>2. Goes(m, k) /\ lock' = NoOne /\ lock = m
    BY <1>9 DEF Dies
  <2> HIDE DEF k
  <2>3. /\ call' \in [Callers -> CallRec]
        /\ \A d \in Callers : call'[d].pc \in {"open", "write"} <=> lock' = d
        /\ \A n \in Messages : call'[n].got = {} /\ call'[n].op = "none"
    BY <1>3, <2>1, <2>2, CallTypes
  <2>4. Ids(call[m].list) \in SUBSET Messages
    BY <1>1, <1>3, Fields, ListTypes
  <2> QED
    BY <2>2, <2>3, <2>4, <1>9 DEF TypeInv, Dies
<1>10. ASSUME NEW p \in Reads, NEW op \in Ops, NEW pc \in {"found", "lock"},
              NEW got \in SUBSET Messages, NEW at \in Nat, Looks(p, op, pc, got, at)
       PROVE  TypeInv'
  <2> DEFINE k == [Idle EXCEPT !.op = op, !.pc = pc, !.got = got, !.at = at]
  <2>1. k \in CallRec /\ k.pc \notin {"open", "write"}
    BY IdleCall DEF Idle, CallRec
  <2>2. Goes(p, k) /\ lock' = lock /\ lock # p
    BY <1>10, <1>4 DEF Looks, At, TypeInv
  <2> HIDE DEF k
  <2>3. /\ call' \in [Callers -> CallRec]
        /\ \A d \in Callers : call'[d].pc \in {"open", "write"} <=> lock' = d
        /\ \A n \in Messages : call'[n].got = {} /\ call'[n].op = "none"
    BY <1>4, <2>1, <2>2, CallTypes
  <2> QED
    BY <2>3, <1>10 DEF TypeInv, Looks
<1>11. /\ Unread(list) \in SUBSET Messages
       /\ \A i \in DOMAIN list : i \in Nat /\ {list[i].id} \in SUBSET Messages
  BY ListTypes DEF TypeInv, Entry
<1>12. ASSUME NEW p \in Reads, PollReads(p) PROVE TypeInv'
  BY <1>10, <1>11, <1>12 DEF PollReads, Ops
<1>13. ASSUME NEW p \in Reads, HeadlessReads(p) PROVE TypeInv'
  BY <1>10, <1>11, <1>13 DEF HeadlessReads, Ops
<1>14. ASSUME NEW p \in Reads, LoopReads(p) PROVE TypeInv'
  BY <1>10, <1>11, <1>14 DEF LoopReads, NextUp, First, OfKind, UnreadAt, Ops
<1>15. ASSUME NEW p \in Reads, AskReads(p) PROVE TypeInv'
  BY <1>10, <1>11, <1>15 DEF AskReads, OfKind, UnreadAt, Ops
<1>16. ASSUME NEW p \in Reads, PollDelivers(p) PROVE TypeInv'
  <2> DEFINE k == [call[p] EXCEPT !.pc = "lock"]
  <2>1. k \in CallRec /\ k.pc = "lock"
    BY <1>1, <1>4 DEF CallRec
  <2>2. Goes(p, k) /\ lock' = lock /\ lock # p
    BY <1>16, <1>4 DEF PollDelivers, GoesTo, TypeInv
  <2> HIDE DEF k
  <2>3. /\ call' \in [Callers -> CallRec]
        /\ \A d \in Callers : call'[d].pc \in {"open", "write"} <=> lock' = d
        /\ \A n \in Messages : call'[n].got = {} /\ call'[n].op = "none"
    BY <1>4, <2>1, <2>2, CallTypes
  <2>4. call[p].got \in SUBSET Messages
    BY <1>1, <1>4, Fields
  <2>5. busy' \in BOOLEAN /\ queued' \in SUBSET Messages /\ delivered' \in SUBSET Messages
    BY <2>4, <1>16 DEF TypeInv, PollDelivers
  <2> QED
    BY <2>3, <2>5, <1>16 DEF TypeInv, PollDelivers
<1>17. ASSUME NEW p \in Reads, LockToMark(p), Touched(call[p]) = {} PROVE TypeInv'
  <2> DEFINE k == Marked(call[p])
  <2>1. k \in CallRec /\ k.pc \notin {"open", "write"}
    BY <1>1, <1>4, MarkedCall
  <2>2. Goes(p, k) /\ lock' = lock /\ lock # p
    BY <1>17, <1>4 DEF LockToMark, Free
  <2> HIDE DEF k
  <2>3. /\ call' \in [Callers -> CallRec]
        /\ \A d \in Callers : call'[d].pc \in {"open", "write"} <=> lock' = d
        /\ \A n \in Messages : call'[n].got = {} /\ call'[n].op = "none"
    BY <1>4, <2>1, <2>2, CallTypes
  <2>4. call[p].got \in SUBSET Messages
    BY <1>1, <1>4, Fields
  <2> QED
    BY <2>3, <2>4, <1>17 DEF TypeInv, LockToMark
<1>18. ASSUME NEW p \in Reads, LockToMark(p), Touched(call[p]) # {} PROVE TypeInv'
  <2> DEFINE l == Marks(Touched(call[p]))
             k == [call[p] EXCEPT !.pc = "open", !.list = l]
  <2>1. l \in Seq(Entry)
    BY MarkedList DEF TypeInv
  <2> HIDE DEF l
  <2>2. k \in CallRec /\ k.pc = "open"
    BY <2>1, <1>1, <1>4, LockedCall
  <2>3. Goes(p, k) /\ lock' = p /\ lock = NoOne
    BY <1>18 DEF LockToMark, Free, l
  <2> HIDE DEF k
  <2>4. /\ call' \in [Callers -> CallRec]
        /\ \A d \in Callers : call'[d].pc \in {"open", "write"} <=> lock' = d
        /\ \A n \in Messages : call'[n].got = {} /\ call'[n].op = "none"
    BY <1>4, <2>2, <2>3, CallTypes
  <2> QED
    BY <2>3, <2>4, <1>4, <1>11, <1>18 DEF TypeInv, LockToMark
<1>19. ASSUME NEW p \in Reads, Returns(p) PROVE TypeInv'
  <2>1. Goes(p, Idle) /\ lock' = lock /\ lock # p /\ Idle.pc = "idle"
    BY <1>19, <1>4 DEF Returns, TypeInv, Idle
  <2>2. /\ call' \in [Callers -> CallRec]
        /\ \A d \in Callers : call'[d].pc \in {"open", "write"} <=> lock' = d
        /\ \A n \in Messages : call'[n].got = {} /\ call'[n].op = "none"
    BY <1>4, <2>1, IdleCall, CallTypes
  <2>3. call[p].got \in SUBSET Messages
    BY <1>1, <1>4, Fields
  <2> QED
    BY <2>2, <2>3, <1>19 DEF TypeInv, Returns
<1>20. ASSUME NEW c \in Callers, Open(c) PROVE TypeInv'
  <2> DEFINE k == [call[c] EXCEPT !.pc = "write"]
  <2>1. /\ k \in CallRec /\ k.pc = "write"
        /\ c \in Messages => k.got = {} /\ k.op = "none"
    BY <1>1 DEF TypeInv, CallRec
  <2>2. Goes(c, k) /\ lock' = lock /\ lock = c
    BY <1>20 DEF Open, GoesTo, At, TypeInv
  <2> HIDE DEF k
  <2>3. /\ call' \in [Callers -> CallRec]
        /\ \A d \in Callers : call'[d].pc \in {"open", "write"} <=> lock' = d
        /\ \A n \in Messages : call'[n].got = {} /\ call'[n].op = "none"
    BY <2>1, <2>2, CallTypes
  <2> QED
    BY <2>3, <1>20, EmptyList DEF TypeInv, Open
<1>21. ASSUME NEW c \in Callers, Write(c) PROVE TypeInv'
  <2> DEFINE k == IF c \in Messages THEN [Idle EXCEPT !.pc = "sent"] ELSE Marked(call[c])
  <2>1. /\ k \in CallRec /\ k.pc \notin {"open", "write"}
        /\ c \in Messages => k.got = {} /\ k.op = "none"
    <3>1. CASE c \in Messages
      BY <3>1, IdleCall DEF Idle, CallRec
    <3>2. CASE c \notin Messages
      BY <3>2, <1>1, MarkedCall
    <3> QED
      BY <3>1, <3>2
  <2>2. Goes(c, k) /\ lock' = NoOne /\ lock = c
    BY <1>21 DEF Write, TypeInv
  <2> HIDE DEF k
  <2>3. /\ call' \in [Callers -> CallRec]
        /\ \A d \in Callers : call'[d].pc \in {"open", "write"} <=> lock' = d
        /\ \A n \in Messages : call'[n].got = {} /\ call'[n].op = "none"
    BY <1>2, <2>1, <2>2, CallTypes
  <2>4. call[c].list \in Seq(Entry) /\ call[c].got \in SUBSET Messages
    BY <1>1, Fields
  <2> QED
    BY <2>2, <2>3, <2>4, <1>21 DEF TypeInv, Write
<1>22. ASSUME NEW c \in Callers, GivesUp(c) PROVE TypeInv'
  <2> DEFINE k == IF c \in Messages THEN [call[c] EXCEPT !.pc = "dropped"] ELSE Marked(call[c])
  <2>1. /\ k \in CallRec /\ k.pc \notin {"open", "write"}
        /\ c \in Messages => k.got = {} /\ k.op = "none"
    <3>1. CASE c \in Messages
      BY <3>1, <1>1 DEF TypeInv, CallRec
    <3>2. CASE c \notin Messages
      BY <3>2, <1>1, MarkedCall
    <3> QED
      BY <3>1, <3>2
  <2>2. Goes(c, k) /\ lock' = lock /\ lock # c
    BY <1>22 DEF GivesUp, GoesTo, At, TypeInv
  <2> HIDE DEF k
  <2>3. /\ call' \in [Callers -> CallRec]
        /\ \A d \in Callers : call'[d].pc \in {"open", "write"} <=> lock' = d
        /\ \A n \in Messages : call'[n].got = {} /\ call'[n].op = "none"
    BY <1>2, <2>1, <2>2, CallTypes
  <2> QED
    BY <2>3, <1>22 DEF TypeInv, GivesUp
<1>23. CASE QueueDelivers
  BY <1>23 DEF TypeInv, QueueDelivers
<1>24. CASE Turn
  BY <1>24 DEF TypeInv, Turn
<1> QED
  BY <1>5, <1>6, <1>7, <1>8, <1>9, <1>12, <1>13, <1>14, <1>15, <1>16, <1>17, <1>18,
     <1>19, <1>20, <1>21, <1>22, <1>23, <1>24 DEF Next

-----------------------------------------------------------------------------
\* No message is lost but for the two exceptions.
LEMMA CallAfter ==
    ASSUME TypeInv, NEW c \in Callers, NEW k, Goes(c, k)
    PROVE  call'[c] = k /\ \A d \in Callers \ {c} : call'[d] = call[d]
  BY DEF TypeInv, Goes

LEMMA Sorts ==
    /\ NoOne \notin Callers
    /\ \A m \in Messages : m \in Callers /\ m # NoOne /\ m \notin Reads
    /\ \A p \in Reads : p \in Callers /\ p # NoOne /\ p \notin Messages
    /\ \A c \in Callers : c \notin Messages => c \in Reads
  BY MailboxConstants DEF Callers

\* What the step of a call adds to what is sent, and leaves of what is taken.
LEMMA SentAfter ==
    ASSUME TypeInv, NEW c \in Callers, NEW k, Goes(c, k), k.pc # "sent"
    PROVE  Sent' \subseteq Sent
<1>1. \A m \in Messages : m \in Callers
  BY Sorts
<1> QED
  BY <1>1, CallAfter DEF Sent, At

LEMMA RestAfter ==
    ASSUME TypeInv, NEW c \in Callers, NEW k, Goes(c, k),
           call[c].got \subseteq k.got \cup delivered' \cup queued',
           delivered \cup queued \subseteq delivered' \cup queued',
           blind \subseteq blind', wiped \subseteq wiped'
    PROVE  Rest \subseteq Rest'
<1>1. ASSUME NEW m \in Taken PROVE m \in Taken' \cup delivered' \cup queued'
  <2>1. PICK p \in Reads : m \in call[p].got
    BY DEF Taken
  <2>2. CASE p = c
    BY <2>1, <2>2, CallAfter DEF Taken
  <2>3. CASE p # c
    <3>1. call'[p] = call[p]
      BY <2>3, Sorts, CallAfter
    <3> QED
      BY <2>1, <3>1 DEF Taken
  <2> QED
    BY <2>2, <2>3
<1> QED
  BY <1>1 DEF Rest

LEMMA PollsAfter ==
    ASSUME TypeInv, LossInv, NEW c \in Callers, NEW k, Goes(c, k),
           delivered \cup queued \subseteq delivered' \cup queued',
           k.pc = "idle" => k.got = {},
           k.op = "poll" /\ k.pc # "found" => k.got \subseteq delivered' \cup queued'
    PROVE  \A p \in Reads : PollOK(p)'
<1> SUFFICES ASSUME NEW p \in Reads PROVE PollOK(p)'
  OBVIOUS
<1>1. p \in Callers
  BY Sorts
<1>2. CASE p = c
  BY <1>2, CallAfter DEF PollOK
<1>3. CASE p # c
  BY <1>1, <1>3, CallAfter DEF LossInv, PollOK
<1> QED
  BY <1>2, <1>3

\* The step of a call that has not got the lock.
LEMMA AwayFromLock ==
    ASSUME TypeInv, LossInv, NEW c \in Callers, NEW k, Goes(c, k),
           lock' = lock, lock # c, k.pc # "sent", Rest \subseteq Rest',
           ~Filling => Sent \subseteq Unread(list') \cup Rest',
           delivered \cup queued \subseteq delivered' \cup queued',
           k.pc = "idle" => k.got = {},
           k.op = "poll" /\ k.pc # "found" => k.got \subseteq delivered' \cup queued'
    PROVE  LossInv'
<1>1. Sent' \subseteq Sent
  BY SentAfter
<1>2. lock # NoOne => lock \in Callers /\ call'[lock] = call[lock]
  BY CallAfter DEF TypeInv
<1>3. Filling' <=> Filling
  BY <1>2 DEF Filling, At
<1>4. ~Filling' => Keeps(list)'
  BY <1>1, <1>3 DEF Keeps
<1>5. lock' # NoOne => Keeps(call[lock].list)'
  BY <1>1, <1>2 DEF Keeps, LossInv
<1>6. \A m \in Messages : lock' = m => m \in Unread(call'[m].list)
  BY <1>2, Sorts DEF LossInv
<1>7. \A p \in Reads : PollOK(p)'
  BY PollsAfter
<1> QED
  BY <1>4, <1>5, <1>6, <1>7 DEF LossInv

\* The look of a mark that is over has delivered what it found, or still has it.
LEMMA MarkedRest ==
    ASSUME TypeInv, LossInv, NEW p \in Reads, call[p].pc # "found"
    PROVE  LET k == Marked(call[p]) IN
           /\ k \in CallRec /\ k.pc # "sent" /\ k.op # "poll"
           /\ k.pc = "idle" => k.got = {}
           /\ call[p].got \subseteq k.got \cup delivered \cup queued
<1>1. call[p] \in CallRec
  BY Sorts DEF TypeInv
<1>2. CASE call[p].op = "poll"
  BY <1>1, <1>2, MarkedCall DEF LossInv, PollOK, Marked, Idle
<1>3. CASE call[p].op # "poll"
  <2>1. Marked(call[p]).pc = "return" /\ Marked(call[p]).got = call[p].got
    BY <1>1, <1>3 DEF Marked, CallRec
  <2> QED
    BY <1>1, <2>1, MarkedCall
<1> QED
  BY <1>2, <1>3

\* How a look that begins changes the rest.
LEMMA LooksKeep ==
    ASSUME TypeInv, LossInv, NEW p \in Reads, NEW op, NEW pc \in {"found", "lock"},
           NEW got, NEW at, Looks(p, op, pc, got, at),
           op = "poll" => pc = "found"
    PROVE  LossInv'
<1> DEFINE k == [Idle EXCEPT !.op = op, !.pc = pc, !.got = got, !.at = at]
<1> USE DEF session, history, disk
<1>1. k.op = op /\ k.pc = pc /\ k.got = got
  BY DEF Idle
<1>2. Goes(p, k) /\ lock' = lock /\ call[p].pc = "idle" /\ p \in Callers
  BY Sorts DEF Looks, At
<1> HIDE DEF k
<1>3. lock # p /\ call[p].got = {}
  BY <1>2 DEF TypeInv, LossInv, PollOK
<1>4. /\ list' = list /\ delivered' = delivered /\ queued' = queued
      /\ blind' = blind /\ wiped' = wiped
  BY DEF Looks
<1>5. Rest \subseteq Rest'
  BY <1>2, <1>3, <1>4, RestAfter
<1>6. ~Filling => Sent \subseteq Unread(list') \cup Rest'
  BY <1>4, <1>5 DEF LossInv, Keeps
<1> QED
  BY <1>1, <1>2, <1>3, <1>4, <1>5, <1>6, AwayFromLock

LEMMA LossStep ==
    ASSUME TypeInv, LossInv, [Next]_vars PROVE LossInv'
<1> USE DEF session, history, disk
<1>1. \A c \in Callers : call[c] \in CallRec
  BY DEF TypeInv
<1>2. ASSUME Rest \subseteq Rest', list' = list PROVE ~Filling => Sent \subseteq Unread(list') \cup Rest'
  BY <1>2 DEF LossInv, Keeps
<1>3. CASE UNCHANGED <<list, lock, call>> /\ delivered \cup queued \subseteq delivered' \cup queued'
           /\ UNCHANGED <<blind, wiped>>
  <2>1. Rest \subseteq Rest' /\ Sent' = Sent /\ (Filling' <=> Filling)
    BY <1>3 DEF Rest, Taken, Sent, Filling, At
  <2> QED
    BY <1>3, <2>1 DEF LossInv, Keeps, PollOK
<1>4. CASE UNCHANGED vars
  BY <1>3, <1>4 DEF vars
<1>5. CASE QueueDelivers
  BY <1>3, <1>5 DEF QueueDelivers
<1>6. CASE Turn
  BY <1>3, <1>6 DEF Turn
<1>7. ASSUME NEW m \in Messages, Create(m) PROVE LossInv'
  <2> DEFINE k == [call[m] EXCEPT !.pc = IF file = "absent" THEN "created" ELSE "lock"]
  <2>1. /\ Goes(m, k) /\ m \in Callers /\ lock' = lock /\ list' = list /\ lock # m
        /\ UNCHANGED <<delivered, queued, blind, wiped>>
    BY <1>7, Sorts DEF Create, GoesTo, At, TypeInv
  <2>2. call[m].got = {} /\ call[m].op = "none" /\ call[m] \in CallRec
    BY <1>1, <2>1 DEF TypeInv
  <2>3. k.pc \in {"created", "lock"} /\ k.got = {} /\ k.op = "none"
    BY <2>2 DEF CallRec
  <2> HIDE DEF k
  <2>4. Rest \subseteq Rest'
    BY <2>1, <2>2, <2>3, RestAfter
  <2> QED
    BY <1>2, <2>1, <2>3, <2>4, AwayFromLock
<1>8. ASSUME NEW m \in Messages, WritesEmptyList(m) PROVE LossInv'
  <2> DEFINE k == [call[m] EXCEPT !.pc = "lock"]
  <2>1. /\ Goes(m, k) /\ m \in Callers /\ lock' = lock /\ lock # m
        /\ UNCHANGED <<delivered, queued, blind>> /\ wiped' = wiped \cup Ids(list)
    BY <1>8, Sorts DEF WritesEmptyList, GoesTo, At, TypeInv
  <2>2. call[m].got = {} /\ call[m].op = "none" /\ call[m] \in CallRec
    BY <1>1, <2>1 DEF TypeInv
  <2>3. k.pc = "lock" /\ k.got = {} /\ k.op = "none"
    BY <2>2 DEF CallRec
  <2> HIDE DEF k
  <2>4. Rest \subseteq Rest'
    BY <2>1, <2>2, <2>3, RestAfter
  <2>5. Unread(list) \subseteq Rest'
    BY <2>1, UnreadAreIds DEF Rest
  <2>6. ~Filling => Sent \subseteq Unread(list') \cup Rest'
    BY <2>4, <2>5 DEF LossInv, Keeps
  <2> QED
    BY <2>1, <2>3, <2>4, <2>6, AwayFromLock
<1>9. ASSUME NEW p \in Reads, PollReads(p) PROVE LossInv'
  BY <1>9, LooksKeep DEF PollReads
<1>10. ASSUME NEW p \in Reads, HeadlessReads(p) PROVE LossInv'
  BY <1>10, LooksKeep DEF HeadlessReads
<1>11. ASSUME NEW p \in Reads, LoopReads(p) PROVE LossInv'
  BY <1>11, LooksKeep DEF LoopReads
<1>12. ASSUME NEW p \in Reads, AskReads(p) PROVE LossInv'
  BY <1>12, LooksKeep DEF AskReads
<1>13. ASSUME NEW p \in Reads, PollDelivers(p) PROVE LossInv'
  <2> DEFINE k == [call[p] EXCEPT !.pc = "lock"]
  <2>1. /\ Goes(p, k) /\ p \in Callers /\ lock' = lock /\ list' = list /\ lock # p
        /\ UNCHANGED <<blind, wiped>>
    BY <1>13, Sorts DEF PollDelivers, GoesTo, TypeInv
  <2>2. call[p] \in CallRec
    BY <1>1, <2>1
  <2>3. k.pc = "lock" /\ k.got = call[p].got
    BY <2>2 DEF CallRec
  <2>4. delivered' \cup queued' = delivered \cup queued \cup call[p].got
    BY <1>13 DEF PollDelivers
  <2> HIDE DEF k
  <2>5. Rest \subseteq Rest'
    BY <2>1, <2>3, <2>4, RestAfter
  <2> QED
    BY <1>2, <2>1, <2>3, <2>4, <2>5, AwayFromLock
<1>14. ASSUME NEW p \in Reads, LockToMark(p), Touched(call[p]) = {} PROVE LossInv'
  <2> DEFINE k == Marked(call[p])
  <2>1. /\ Goes(p, k) /\ p \in Callers /\ lock' = lock /\ list' = list /\ lock # p
        /\ UNCHANGED <<delivered, queued, blind, wiped>> /\ call[p].pc = "lock"
    BY <1>14, Sorts DEF LockToMark, Free
  <2>2. /\ k.pc # "sent" /\ k.op # "poll" /\ (k.pc = "idle" => k.got = {})
        /\ call[p].got \subseteq k.got \cup delivered \cup queued
    BY <2>1, MarkedRest
  <2> HIDE DEF k
  <2>3. Rest \subseteq Rest'
    BY <2>1, <2>2, RestAfter
  <2> QED
    BY <1>2, <2>1, <2>2, <2>3, AwayFromLock
<1>15. ASSUME NEW p \in Reads, Returns(p) PROVE LossInv'
  <2>1. /\ Goes(p, Idle) /\ p \in Callers /\ lock' = lock /\ list' = list /\ lock # p
        /\ UNCHANGED <<queued, blind, wiped>> /\ delivered' = delivered \cup call[p].got
    BY <1>15, Sorts DEF Returns, TypeInv
  <2>2. Idle.pc = "idle" /\ Idle.op = "none" /\ Idle.got = {}
    BY DEF Idle
  <2>3. Rest \subseteq Rest'
    BY <2>1, <2>2, RestAfter
  <2> QED
    BY <1>2, <2>1, <2>2, <2>3, AwayFromLock
<1>16. ASSUME NEW c \in Callers, GivesUp(c) PROVE LossInv'
  <2>1. lock # c /\ call[c].pc = "lock"
    BY <1>16 DEF GivesUp, At, TypeInv
  <2>2. /\ lock' = lock /\ list' = list
        /\ UNCHANGED <<delivered, queued, blind, wiped>>
    BY <1>16 DEF GivesUp
  <2>3. CASE c \in Messages
    <3> DEFINE k == [call[c] EXCEPT !.pc = "dropped"]
    <3>1. Goes(c, k) /\ call[c].got = {} /\ call[c].op = "none" /\ call[c] \in CallRec
      BY <1>1, <1>16, <2>3 DEF GivesUp, GoesTo, TypeInv
    <3>2. k.pc = "dropped" /\ k.got = {} /\ k.op = "none"
      BY <3>1 DEF CallRec
    <3> HIDE DEF k
    <3>3. Rest \subseteq Rest'
      BY <2>2, <3>1, <3>2, RestAfter
    <3> QED
      BY <1>2, <2>1, <2>2, <3>1, <3>2, <3>3, AwayFromLock
  <2>4. CASE c \notin Messages
    <3> DEFINE k == Marked(call[c])
    <3>1. Goes(c, k) /\ c \in Reads
      BY <1>16, <2>4, Sorts DEF GivesUp
    <3>2. /\ k.pc # "sent" /\ k.op # "poll" /\ (k.pc = "idle" => k.got = {})
          /\ call[c].got \subseteq k.got \cup delivered \cup queued
      BY <2>1, <3>1, MarkedRest
    <3> HIDE DEF k
    <3>3. Rest \subseteq Rest'
      BY <2>2, <3>1, <3>2, RestAfter
    <3> QED
      BY <1>2, <2>1, <2>2, <3>1, <3>2, <3>3, AwayFromLock
  <2> QED
    BY <2>3, <2>4
<1>17. ASSUME NEW m \in Messages, LockToSend(m) PROVE LossInv'
  <2> DEFINE l == Appended(m)
             k == [call[m] EXCEPT !.pc = "open", !.list = l]
  <2>1. /\ Goes(m, k) /\ m \in Callers /\ lock = NoOne /\ lock' = m /\ list' = list
        /\ UNCHANGED <<delivered, queued, blind, wiped>>
    BY <1>17, Sorts DEF LockToSend, Free
  <2>2. l \in Seq(Entry) /\ Unread(l) = Unread(list) \cup {m}
    BY AppendedList DEF TypeInv
  <2> HIDE DEF l
  <2>3. call[m].got = {} /\ call[m].op = "none" /\ call[m] \in CallRec
    BY <1>1, <2>1 DEF TypeInv
  <2>4. k.pc = "open" /\ k.list = l /\ k.got = call[m].got /\ k.op = call[m].op
    BY <2>2, <2>3, LockedCall
  <2> HIDE DEF k
  <2>5. call'[m] = k /\ \A n \in Messages : call'[n].list = k.list \/ n # m
    BY <2>1, CallAfter
  <2>6. Rest \subseteq Rest' /\ Sent' \subseteq Sent
    BY <2>1, <2>3, <2>4, RestAfter, SentAfter
  <2>7. Sent \subseteq Unread(list) \cup Rest
    BY <2>1 DEF LossInv, Filling, Keeps
  <2>8. Keeps(list)' /\ Keeps(call[lock].list)'
    BY <2>1, <2>2, <2>4, <2>5, <2>6, <2>7 DEF Keeps
  <2>9. \A n \in Messages : lock' = n => n \in Unread(call'[n].list)
    BY <2>1, <2>2, <2>4, <2>5
  <2>10. \A p \in Reads : PollOK(p)'
    BY <2>1, <2>3, <2>4, PollsAfter
  <2> QED
    BY <2>8, <2>9, <2>10 DEF LossInv
<1>18. ASSUME NEW p \in Reads, LockToMark(p), Touched(call[p]) # {} PROVE LossInv'
  <2> DEFINE l == Marks(Touched(call[p]))
             k == [call[p] EXCEPT !.pc = "open", !.list = l]
  <2>1. /\ Goes(p, k) /\ p \in Callers /\ lock = NoOne /\ lock' = p /\ list' = list
        /\ UNCHANGED <<delivered, queued, wiped>> /\ call[p].pc = "lock"
        /\ blind' = blind \cup ((Unread(list) \ Unread(l)) \ call[p].got)
    BY <1>18, Sorts DEF LockToMark, Free
  <2>2. l \in Seq(Entry)
    BY MarkedList DEF TypeInv
  <2> HIDE DEF l
  <2>3. call[p] \in CallRec
    BY <1>1, <2>1
  <2>4. k.pc = "open" /\ k.list = l /\ k.got = call[p].got /\ k.op = call[p].op
    BY <2>2, <2>3, LockedCall
  <2> HIDE DEF k
  <2>5. call'[p] = k
    BY <2>1, CallAfter
  <2>6. Rest \subseteq Rest' /\ Sent' \subseteq Sent
    BY <2>1, <2>4, RestAfter, SentAfter
  <2>7. Sent \subseteq Unread(list) \cup Rest
    BY <2>1 DEF LossInv, Filling, Keeps
  <2>8. Unread(list) \subseteq Unread(l) \cup Rest'
    BY <2>1, <2>4, <2>5 DEF Rest, Taken
  <2>9. Keeps(list)' /\ Keeps(call[lock].list)'
    BY <2>1, <2>4, <2>5, <2>6, <2>7, <2>8 DEF Keeps
  <2>10. \A n \in Messages : lock' # n
    BY <2>1, Sorts
  <2>11. \A q \in Reads : PollOK(q)'
    <3>1. k.op = "poll" => k.got \subseteq delivered \cup queued
      BY <2>1, <2>4 DEF LossInv, PollOK
    <3> QED
      BY <2>1, <2>4, <3>1, PollsAfter
  <2> QED
    BY <2>9, <2>10, <2>11 DEF LossInv
<1>19. ASSUME NEW c \in Callers, Open(c) PROVE LossInv'
  <2> DEFINE k == [call[c] EXCEPT !.pc = "write"]
  <2>1. /\ Goes(c, k) /\ lock = c /\ lock' = c /\ c # NoOne /\ call[c].pc = "open"
        /\ UNCHANGED <<delivered, queued, blind, wiped>>
    BY <1>19, Sorts DEF Open, GoesTo, At, TypeInv
  <2>2. call[c] \in CallRec
    BY <1>1
  <2>3. k.pc = "write" /\ k.list = call[c].list /\ k.got = call[c].got /\ k.op = call[c].op
    BY <2>2 DEF CallRec
  <2> HIDE DEF k
  <2>4. call'[c] = k
    BY <2>1, CallAfter
  <2>5. Rest \subseteq Rest' /\ Sent' \subseteq Sent
    BY <2>1, <2>3, RestAfter, SentAfter
  <2>6. Filling'
    BY <2>1, <2>3, <2>4 DEF Filling, At
  <2>7. Keeps(call[lock].list)'
    BY <2>1, <2>3, <2>4, <2>5 DEF LossInv, Keeps
  <2>8. \A m \in Messages : lock' = m => m \in Unread(call'[m].list)
    BY <2>1, <2>3, <2>4 DEF LossInv
  <2>9. \A p \in Reads : PollOK(p)'
    <3>1. c \in Reads /\ k.op = "poll" => k.got \subseteq delivered \cup queued
      BY <2>1, <2>3 DEF LossInv, PollOK
    <3>2. c \notin Reads => k.op = "none"
      BY <2>3 DEF TypeInv, Callers
    <3> QED
      BY <2>1, <2>3, <3>1, <3>2, PollsAfter
  <2> QED
    BY <2>6, <2>7, <2>8, <2>9 DEF LossInv
<1>20. ASSUME NEW c \in Callers, Write(c) PROVE LossInv'
  <2> DEFINE k == IF c \in Messages THEN [Idle EXCEPT !.pc = "sent"] ELSE Marked(call[c])
  <2>1. /\ Goes(c, k) /\ lock = c /\ lock' = NoOne /\ c # NoOne /\ list' = call[c].list
        /\ UNCHANGED <<delivered, queued, blind, wiped>> /\ call[c].pc = "write"
    BY <1>20, Sorts DEF Write, TypeInv
  <2>2. /\ k.op # "poll" /\ (k.pc = "idle" => k.got = {})
        /\ call[c].got \subseteq k.got \cup delivered \cup queued
    <3>1. CASE c \in Messages
      BY <3>1 DEF Idle, TypeInv
    <3>2. CASE c \notin Messages
      <4>1. c \in Reads
        BY <3>2, Sorts
      <4> QED
        BY <2>1, <3>2, <4>1, MarkedRest
    <3> QED
      BY <3>1, <3>2
  <2>3. c \notin Messages => k.pc # "sent"
    BY <2>1, Sorts, MarkedRest
  <2> HIDE DEF k
  <2>4. Rest \subseteq Rest'
    BY <2>1, <2>2, RestAfter
  <2>5. Sent' \subseteq Sent \cup ({c} \cap Messages)
    <3>1. call'[c] = k /\ \A d \in Callers \ {c} : call'[d] = call[d]
      BY <2>1, CallAfter
    <3> QED
      BY <2>3, <3>1, Sorts DEF Sent, At
  <2>6. Sent \subseteq Unread(call[c].list) \cup Rest
    BY <2>1 DEF LossInv, Keeps
  <2>7. c \in Messages => c \in Unread(call[c].list)
    BY <2>1 DEF LossInv
  <2>8. Keeps(list)'
    BY <2>1, <2>4, <2>5, <2>6, <2>7 DEF Keeps
  <2>9. \A p \in Reads : PollOK(p)'
    BY <2>1, <2>2, PollsAfter
  <2> QED
    BY <2>1, <2>8, <2>9, Sorts DEF LossInv
<1>21. ASSUME NEW m \in Messages, Dies(m) PROVE LossInv'
  <2> DEFINE k == [Idle EXCEPT !.pc = "dead"]
  <2>1. /\ Goes(m, k) /\ m \in Callers /\ lock = m /\ lock' = NoOne /\ m # NoOne
        /\ list' = list /\ UNCHANGED <<delivered, queued, blind>>
        /\ wiped' = IF At(m, "write") THEN wiped \cup (Ids(call[m].list) \ {m}) ELSE wiped
    BY <1>21, Sorts DEF Dies
  <2>2. k.pc = "dead" /\ k.op = "none" /\ k.got = {} /\ call[m].got = {}
    BY DEF Idle, TypeInv
  <2>3. m \notin Sent
    BY <2>1 DEF Sent, At, TypeInv
  <2> HIDE DEF k
  <2>4. Rest \subseteq Rest' /\ Sent' \subseteq Sent
    BY <2>1, <2>2, RestAfter, SentAfter
  <2>5. Sent \subseteq Unread(list) \cup Rest'
    <3>1. CASE At(m, "write")
      <4>1. Sent \subseteq Unread(call[m].list) \cup Rest
        BY <2>1 DEF LossInv, Keeps
      <4>2. Unread(call[m].list) \ {m} \subseteq wiped'
        BY <2>1, <3>1, UnreadAreIds
      <4> QED
        BY <2>3, <2>4, <4>1, <4>2 DEF Rest
    <3>2. CASE ~At(m, "write")
      BY <2>1, <2>4, <3>2 DEF LossInv, Keeps, Filling
    <3> QED
      BY <3>1, <3>2
  <2>6. Keeps(list)'
    BY <2>1, <2>4, <2>5 DEF Keeps
  <2>7. \A p \in Reads : PollOK(p)'
    BY <2>1, <2>2, PollsAfter
  <2> QED
    BY <2>1, <2>6, <2>7, Sorts DEF LossInv
<1> QED
  BY <1>4, <1>5, <1>6, <1>7, <1>8, <1>9, <1>10, <1>11, <1>12, <1>13, <1>14, <1>15, <1>16,
     <1>17, <1>18, <1>19, <1>20, <1>21 DEF Next

LEMMA InitLoss == Init => LossInv
<1> SUFFICES ASSUME Init PROVE LossInv
  OBVIOUS
<1>1. \A c \in Callers : call[c] = Idle
  BY DEF Init
<1>2. Sent = {}
  BY <1>1 DEF Sent, At, Idle, Callers
<1>3. \A p \in Reads : PollOK(p)
  BY <1>1 DEF PollOK, Idle, Callers
<1>4. lock = NoOne
  BY DEF Init
<1> QED
  BY <1>2, <1>3, <1>4, Sorts DEF LossInv, Keeps

-----------------------------------------------------------------------------
\* No mark is taken back.
LEMMA SentStays ==
    ASSUME TypeInv, NEW c \in Callers, NEW k, Goes(c, k), call[c].pc # "sent"
    PROVE  Sent \subseteq Sent'
<1>1. \A m \in Messages : m \in Callers
  BY Sorts
<1> QED
  BY <1>1, CallAfter DEF Sent, At

LEMMA TakenAfter ==
    ASSUME TypeInv, NEW c \in Callers, NEW k, Goes(c, k)
    PROVE  Taken' \subseteq Taken \cup k.got
<1>1. ASSUME NEW m \in Taken' PROVE m \in Taken \cup k.got
  <2>1. PICK p \in Reads : m \in call'[p].got
    BY DEF Taken
  <2>2. CASE p = c
    BY <2>1, <2>2, CallAfter
  <2>3. CASE p # c
    <3>1. call'[p] = call[p]
      BY <2>3, Sorts, CallAfter
    <3> QED
      BY <2>1, <3>1 DEF Taken
  <2> QED
    BY <2>2, <2>3
<1> QED
  BY <1>1

LEMMA GoodAfter ==
    ASSUME TypeInv, NEW c \in Callers, NEW k, NEW l, NEW marked, Goes(c, k),
           Good(l, call, confirmed), marked \cap Unread(l) = {},
           c \in Reads => InPlace(k, l)
    PROVE  Good(l, call', marked)
<1>1. ASSUME NEW p \in Reads PROVE InPlace(call'[p], l)
  <2>1. CASE p = c
    BY <2>1, CallAfter
  <2>2. CASE p # c
    <3>1. call'[p] = call[p]
      BY <2>2, Sorts, CallAfter
    <3> QED
      BY <3>1 DEF Good
  <2> QED
    BY <2>1, <2>2
<1> QED
  BY <1>1 DEF Good

LEMMA EmptyIsGood ==
    ASSUME NEW cs, NEW marked PROVE Good(<<>>, cs, marked)
  BY EmptyList DEF Good, Distinct, InPlace

\* The step of a call that has not got the lock.
LEMMA AwayMarks ==
    ASSUME TypeInv, MarkInv, NEW c \in Callers, NEW k, Goes(c, k),
           lock' = lock, lock # c, call[c].pc # "sent", k.got \subseteq Sent,
           list' = list \/ list' = <<>>,
           c \in Reads => InPlace(k, list) /\ (lock # NoOne => InPlace(k, call[lock].list)),
           confirmed' \subseteq Sent, confirmed' \cap Unread(list) = {},
           lock # NoOne => confirmed' = confirmed
    PROVE  MarkInv'
<1>1. Sent \subseteq Sent' /\ Taken' \subseteq Sent
  BY SentStays, TakenAfter DEF MarkInv
<1>2. Good(list, call', confirmed')
  BY GoodAfter DEF MarkInv
<1>3. Good(list', call', confirmed') /\ Ids(list') \subseteq Sent
  BY <1>2, EmptyIsGood, EmptyList DEF MarkInv
<1>4. ASSUME lock # NoOne PROVE WritesGood'
  <2> DEFINE l == call[lock].list
  <2>1. call'[lock] = call[lock]
    BY <1>4, CallAfter DEF TypeInv
  <2>2. /\ Good(l, call, confirmed) /\ Ids(l) \subseteq Sent \cup {lock}
        /\ Extends(l) /\ call[lock].got \cap Unread(l) = {} /\ confirmed' = confirmed
    BY <1>4 DEF MarkInv, WritesGood
  <2>3. c \in Reads => InPlace(k, l)
    BY <1>4
  <2>4. \A i \in DOMAIN list' : i \in DOMAIN l /\ l[i].id = list'[i].id
    BY <2>2, EmptyList DEF Extends
  <2>5. l = call'[lock'].list /\ call'[lock'].got = call[lock].got
    BY <2>1
  <2> HIDE DEF l
  <2>6. Good(l, call', confirmed')
    BY <2>2, <2>3, GoodAfter DEF Good
  <2> QED
    BY <1>1, <2>2, <2>4, <2>5, <2>6 DEF WritesGood, Extends
<1> QED
  BY <1>1, <1>3, <1>4 DEF MarkInv

\* A look that begins with what it has read.
LEMMA LooksMark ==
    ASSUME TypeInv, MarkInv, NEW p \in Reads, NEW op, NEW pc, NEW got, NEW at,
           Looks(p, op, pc, got, at), got \subseteq Ids(list),
           at # 0 => at \in DOMAIN list /\ got = {list[at].id}
    PROVE  MarkInv'
<1> DEFINE k == [Idle EXCEPT !.op = op, !.pc = pc, !.got = got, !.at = at]
<1> USE DEF session, history, disk
<1>1. k.got = got /\ k.at = at
  BY DEF Idle
<1>2. /\ Goes(p, k) /\ lock' = lock /\ list' = list /\ confirmed' = confirmed
      /\ call[p].pc = "idle" /\ p \in Callers
  BY Sorts DEF Looks, At
<1> HIDE DEF k
<1>3. lock # p
  BY <1>2 DEF TypeInv
<1>4. got \subseteq Sent /\ confirmed' \subseteq Sent /\ confirmed' \cap Unread(list) = {}
  BY <1>2 DEF MarkInv, Good
<1>5. InPlace(k, list)
  BY <1>1 DEF MarkInv, Good, Distinct, InPlace
<1>6. lock # NoOne => InPlace(k, call[lock].list)
  <2> SUFFICES ASSUME lock # NoOne, at # 0, NEW i \in DOMAIN call[lock].list,
                      call[lock].list[i].id \in got
               PROVE  i = at
    BY <1>1 DEF InPlace
  <2> DEFINE l == call[lock].list
  <2>1. at \in DOMAIN l /\ l[at].id = list[at].id /\ Distinct(l)
    BY DEF MarkInv, WritesGood, Extends, Good
  <2> QED
    BY <2>1 DEF Distinct
<1> QED
  BY <1>1, <1>2, <1>3, <1>4, <1>5, <1>6, AwayMarks

\* The step of a call without the lock that still knows its place or gives it up.
LEMMA SamePlace ==
    ASSUME TypeInv, MarkInv, NEW c \in Callers, NEW k, Goes(c, k),
           lock' = lock, lock # c, call[c].pc # "sent", k.got \subseteq call[c].got,
           list' = list \/ list' = <<>>, k.at \in {0, call[c].at},
           confirmed' \subseteq Sent, confirmed' \cap Unread(list) = {},
           lock # NoOne => confirmed' = confirmed
    PROVE  MarkInv'
<1>1. k.got \subseteq Sent
  <2>1. call[c].got \subseteq Taken
    BY Sorts DEF TypeInv, Taken
  <2> QED
    BY <2>1 DEF MarkInv
<1>2. ASSUME NEW l, InPlace(call[c], l) PROVE InPlace(k, l)
  BY <1>2 DEF InPlace
<1>3. c \in Reads => InPlace(k, list) /\ (lock # NoOne => InPlace(k, call[lock].list))
  BY <1>2 DEF MarkInv, WritesGood, Good
<1> QED
  BY <1>1, <1>3, AwayMarks

LEMMA MarkedPlace ==
    ASSUME NEW k \in CallRec
    PROVE  Marked(k).got \subseteq k.got /\ Marked(k).at \in {0, k.at}
<1>1. CASE k.op = "poll"
  BY <1>1 DEF Marked, Idle
<1>2. CASE k.op # "poll"
  <2>1. Marked(k).got = k.got /\ Marked(k).at = k.at
    BY <1>2 DEF Marked, CallRec
  <2> QED
    BY <2>1
<1> QED
  BY <1>1, <1>2

LEMMA MarkStep ==
    ASSUME TypeInv, MarkInv, [Next]_vars PROVE MarkInv'
<1> USE DEF session, history, disk
<1>1. \A c \in Callers : call[c] \in CallRec
  BY DEF TypeInv
<1>2. confirmed \subseteq Sent /\ confirmed \cap Unread(list) = {}
  BY DEF MarkInv, Good
<1>3. CASE UNCHANGED <<list, lock, call, confirmed>>
  BY <1>3 DEF MarkInv, Taken, Sent, At, WritesGood, Extends
<1>4. CASE UNCHANGED vars
  BY <1>3, <1>4 DEF vars
<1>5. CASE QueueDelivers
  BY <1>3, <1>5 DEF QueueDelivers
<1>6. CASE Turn
  BY <1>3, <1>6 DEF Turn
<1>7. ASSUME NEW m \in Messages, Create(m) PROVE MarkInv'
  <2> DEFINE k == [call[m] EXCEPT !.pc = IF file = "absent" THEN "created" ELSE "lock"]
  <2>1. /\ Goes(m, k) /\ m \in Callers /\ lock' = lock /\ list' = list /\ lock # m
        /\ confirmed' = confirmed /\ call[m].pc = "idle"
    BY <1>7, Sorts DEF Create, GoesTo, At, TypeInv
  <2>2. k.got = call[m].got /\ k.at = call[m].at
    BY <1>1, <2>1 DEF CallRec
  <2> HIDE DEF k
  <2> QED
    BY <1>2, <2>1, <2>2, SamePlace
<1>8. ASSUME NEW m \in Messages, WritesEmptyList(m) PROVE MarkInv'
  <2> DEFINE k == [call[m] EXCEPT !.pc = "lock"]
  <2>1. /\ Goes(m, k) /\ m \in Callers /\ lock' = lock /\ list' = <<>> /\ lock # m
        /\ confirmed' = confirmed /\ call[m].pc = "created"
    BY <1>8, Sorts DEF WritesEmptyList, GoesTo, At, TypeInv
  <2>2. k.got = call[m].got /\ k.at = call[m].at
    BY <1>1, <2>1 DEF CallRec
  <2> HIDE DEF k
  <2> QED
    BY <1>2, <2>1, <2>2, SamePlace
<1>9. /\ Unread(list) \subseteq Ids(list)
      /\ \A i \in DOMAIN list : i # 0 /\ {list[i].id} \subseteq Ids(list)
  BY UnreadAreIds, ListTypes DEF TypeInv, Ids
<1>10. ASSUME NEW p \in Reads, PollReads(p) PROVE MarkInv'
  BY <1>9, <1>10, LooksMark DEF PollReads
<1>11. ASSUME NEW p \in Reads, HeadlessReads(p) PROVE MarkInv'
  BY <1>9, <1>11, LooksMark DEF HeadlessReads
<1>12. ASSUME NEW p \in Reads, LoopReads(p) PROVE MarkInv'
  BY <1>9, <1>12, LooksMark DEF LoopReads, NextUp, First, OfKind, UnreadAt
<1>13. ASSUME NEW p \in Reads, AskReads(p) PROVE MarkInv'
  BY <1>9, <1>13, LooksMark DEF AskReads, OfKind, UnreadAt
<1>14. ASSUME NEW p \in Reads, PollDelivers(p) PROVE MarkInv'
  <2> DEFINE k == [call[p] EXCEPT !.pc = "lock"]
  <2>1. /\ Goes(p, k) /\ p \in Callers /\ lock' = lock /\ list' = list /\ lock # p
        /\ confirmed' = confirmed /\ call[p].pc = "found"
    BY <1>14, Sorts DEF PollDelivers, GoesTo, TypeInv
  <2>2. k.got = call[p].got /\ k.at = call[p].at
    BY <1>1, <2>1 DEF CallRec
  <2> HIDE DEF k
  <2> QED
    BY <1>2, <2>1, <2>2, SamePlace
<1>15. ASSUME NEW p \in Reads, Returns(p) PROVE MarkInv'
  <2>1. /\ Goes(p, Idle) /\ p \in Callers /\ lock' = lock /\ list' = list /\ lock # p
        /\ confirmed' = confirmed /\ call[p].pc = "return"
    BY <1>15, Sorts DEF Returns, TypeInv
  <2>2. Idle.got = {} /\ Idle.at = 0
    BY DEF Idle
  <2> QED
    BY <1>2, <2>1, <2>2, SamePlace
<1>16. ASSUME NEW c \in Callers, GivesUp(c) PROVE MarkInv'
  <2>1. /\ lock' = lock /\ list' = list /\ lock # c /\ confirmed' = confirmed
        /\ call[c].pc = "lock"
    BY <1>16 DEF GivesUp, At, TypeInv
  <2>2. CASE c \in Messages
    <3> DEFINE k == [call[c] EXCEPT !.pc = "dropped"]
    <3>1. Goes(c, k) /\ k.got = call[c].got /\ k.at = call[c].at
      BY <1>1, <1>16, <2>2 DEF GivesUp, GoesTo, CallRec
    <3> HIDE DEF k
    <3> QED
      BY <1>2, <2>1, <3>1, SamePlace
  <2>3. CASE c \notin Messages
    <3>1. Goes(c, Marked(call[c]))
      BY <1>16, <2>3 DEF GivesUp
    <3> QED
      BY <1>1, <1>2, <2>1, <3>1, MarkedPlace, SamePlace
  <2> QED
    BY <2>2, <2>3
<1>17. ASSUME NEW p \in Reads, LockToMark(p), Touched(call[p]) = {} PROVE MarkInv'
  <2>1. /\ Goes(p, Marked(call[p])) /\ p \in Callers /\ lock' = lock /\ lock = NoOne
        /\ list' = list /\ confirmed' = confirmed \cup call[p].got
        /\ call[p].pc = "lock" /\ lock # p
    BY <1>17, Sorts DEF LockToMark, Free
  <2>2. call[p].got \cap Unread(list) = {}
    <3> SUFFICES ASSUME NEW i \in DOMAIN list, ~list[i].read, list[i].id \in call[p].got
                 PROVE  FALSE
      BY DEF Unread, UnreadAt
    <3>1. CASE call[p].at = 0
      BY <1>17, <3>1 DEF Touched
    <3>2. CASE call[p].at # 0
      BY <1>17, <3>2 DEF Touched, UnreadAt, MarkInv, Good, InPlace
    <3> QED
      BY <3>1, <3>2
  <2>3. call[p].got \subseteq Sent
    BY DEF MarkInv, Taken
  <2> QED
    BY <1>1, <1>2, <2>1, <2>2, <2>3, MarkedPlace, SamePlace
<1>18. ASSUME NEW m \in Messages, LockToSend(m) PROVE MarkInv'
  <2> DEFINE l == Appended(m)
             k == [call[m] EXCEPT !.pc = "open", !.list = l]
  <2>1. /\ Goes(m, k) /\ m \in Callers /\ lock' = m /\ list' = list
        /\ confirmed' = confirmed /\ call[m].pc = "lock" /\ m \notin Reads
    BY <1>18, Sorts DEF LockToSend, At
  <2>2. /\ l \in Seq(Entry) /\ Unread(l) = Unread(list) \cup {m} /\ Ids(l) = Ids(list) \cup {m}
        /\ DOMAIN l = DOMAIN list \cup {Len(list) + 1}
        /\ l[Len(list) + 1].id = m /\ \A i \in DOMAIN list : l[i] = list[i]
    <3>1. list \in Seq(Entry)
      BY DEF TypeInv
    <3>2. /\ l \in Seq(Entry) /\ Unread(l) = Unread(list) \cup {m}
          /\ Ids(l) = Ids(list) \cup {m} /\ DOMAIN l = DOMAIN list \cup {Len(list) + 1}
          /\ l[Len(list) + 1] = [id |-> m, read |-> FALSE]
          /\ \A i \in DOMAIN list : l[i] = list[i]
      BY <3>1, AppendedList
    <3> HIDE DEF l
    <3> QED
      BY <3>2
  <2> HIDE DEF l
  <2>3. call[m] \in CallRec /\ call[m].got = {}
    BY <1>1, <2>1 DEF TypeInv
  <2>4. k.list = l /\ k.got = {}
    BY <2>2, <2>3, LockedCall
  <2> HIDE DEF k
  <2>5. m \notin Sent
    BY <2>1 DEF Sent, At
  <2>6. \A i \in DOMAIN list : list[i].id \in Sent
    BY DEF MarkInv, Ids
  <2>7. Good(l, call, confirmed)
    <3>1. Distinct(l)
      BY <2>2, <2>5, <2>6 DEF MarkInv, Good, Distinct
    <3>2. ASSUME NEW p \in Reads PROVE InPlace(call[p], l)
      <4>1. m \notin call[p].got
        BY <2>5 DEF MarkInv, Taken
      <4> QED
        BY <2>2, <4>1 DEF MarkInv, Good, InPlace
    <3>3. confirmed \cap Unread(l) = {}
      BY <1>2, <2>2, <2>5
    <3> QED
      BY <3>1, <3>2, <3>3 DEF Good
  <2>8. Sent \subseteq Sent' /\ Taken' \subseteq Sent
    BY <2>1, <2>4, SentStays, TakenAfter DEF MarkInv
  <2>9. Good(list', call', confirmed') /\ Good(l, call', confirmed')
    BY <1>2, <2>1, <2>7, GoodAfter DEF MarkInv, Good
  <2>10. call'[lock'].list = l /\ call'[lock'].got = {}
    BY <2>1, <2>4, CallAfter
  <2>11. Ids(l) \subseteq Sent' \cup {lock'}
    BY <2>1, <2>2, <2>8 DEF MarkInv
  <2>12. WritesGood'
    BY <2>1, <2>2, <2>9, <2>10, <2>11 DEF WritesGood, Extends
  <2> QED
    BY <1>2, <2>1, <2>8, <2>9, <2>12 DEF MarkInv
<1>19. ASSUME NEW p \in Reads, LockToMark(p), Touched(call[p]) # {} PROVE MarkInv'
  <2> DEFINE T == Touched(call[p])
             l == Marks(T)
             k == [call[p] EXCEPT !.pc = "open", !.list = l]
  <2>1. /\ Goes(p, k) /\ p \in Callers /\ lock' = p /\ list' = list
        /\ confirmed' = confirmed /\ call[p].pc = "lock"
    BY <1>19, Sorts DEF LockToMark
  <2>2. /\ l \in Seq(Entry) /\ Unread(l) \subseteq Unread(list) /\ Ids(l) = Ids(list)
        /\ DOMAIN l = DOMAIN list
        /\ \A i \in DOMAIN list : l[i].id = list[i].id /\ (l[i].read <=> list[i].read \/ i \in T)
    BY MarkedList DEF TypeInv
  <2> HIDE DEF l
  <2>3. call[p] \in CallRec
    BY <1>1, <2>1
  <2>4. k.list = l /\ k.got = call[p].got /\ k.at = call[p].at
    BY <2>2, <2>3, LockedCall
  <2> HIDE DEF k
  <2>5. k.got \cap Unread(l) = {}
    <3> SUFFICES ASSUME NEW i \in DOMAIN l, ~l[i].read, l[i].id \in call[p].got
                 PROVE  FALSE
      BY <2>4 DEF Unread, UnreadAt
    <3>1. i \in DOMAIN list /\ ~list[i].read /\ i \notin T /\ list[i].id \in call[p].got
      BY <2>2
    <3>2. CASE call[p].at = 0
      BY <3>1, <3>2 DEF Touched
    <3>3. CASE call[p].at # 0
      BY <3>1, <3>3 DEF Touched, UnreadAt, MarkInv, Good, InPlace
    <3> QED
      BY <3>2, <3>3
  <2>6. Good(l, call, confirmed)
    BY <2>2 DEF MarkInv, Good, Distinct, InPlace
  <2>7. k.got \subseteq Sent
    BY <2>4 DEF MarkInv, Taken
  <2>8. Sent \subseteq Sent' /\ Taken' \subseteq Sent
    BY <2>1, <2>7, SentStays, TakenAfter DEF MarkInv
  <2>9. InPlace(k, l) /\ InPlace(k, list)
    BY <2>4, <2>6 DEF MarkInv, Good, InPlace
  <2>10. Good(list', call', confirmed') /\ Good(l, call', confirmed')
    BY <1>2, <2>1, <2>6, <2>9, GoodAfter DEF MarkInv, Good
  <2>11. call'[lock'].list = l /\ call'[lock'].got = k.got
    BY <2>1, <2>4, CallAfter
  <2>12. Ids(l) \subseteq Sent'
    BY <2>2, <2>8 DEF MarkInv
  <2>13. WritesGood'
    BY <2>1, <2>2, <2>5, <2>10, <2>11, <2>12 DEF WritesGood, Extends
  <2> QED
    BY <1>2, <2>1, <2>8, <2>10, <2>12, <2>13, <2>2 DEF MarkInv
<1>20. ASSUME NEW c \in Callers, Open(c) PROVE MarkInv'
  <2> DEFINE k == [call[c] EXCEPT !.pc = "write"]
             l == call[c].list
  <2>1. /\ Goes(c, k) /\ lock = c /\ lock' = c /\ c # NoOne /\ call[c].pc = "open"
        /\ list' = <<>> /\ confirmed' = confirmed
    BY <1>20, Sorts DEF Open, GoesTo, At, TypeInv
  <2>2. k.list = l /\ k.got = call[c].got /\ k.at = call[c].at
    BY <1>1 DEF CallRec
  <2> HIDE DEF k
  <2>3. /\ Good(l, call, confirmed) /\ Ids(l) \subseteq Sent \cup {c}
        /\ call[c].got \cap Unread(l) = {}
    BY <2>1 DEF MarkInv, WritesGood
  <2> HIDE DEF l
  <2>4. k.got \subseteq Sent
    BY <2>2, Sorts DEF MarkInv, Taken, TypeInv
  <2>5. Sent \subseteq Sent' /\ Taken' \subseteq Sent
    BY <2>1, <2>4, SentStays, TakenAfter DEF MarkInv
  <2>6. c \in Reads => InPlace(k, l)
    BY <2>2, <2>3 DEF Good, InPlace
  <2>7. Good(l, call', confirmed')
    BY <2>1, <2>3, <2>6, GoodAfter DEF Good
  <2>8. Good(list', call', confirmed') /\ Ids(list') = {} /\ DOMAIN list' = {}
    BY <2>1, EmptyIsGood, EmptyList
  <2>9. call'[lock'].list = l /\ call'[lock'].got = k.got
    BY <2>1, <2>2, CallAfter
  <2>10. WritesGood'
    BY <2>1, <2>2, <2>3, <2>5, <2>7, <2>8, <2>9 DEF WritesGood, Extends
  <2> QED
    BY <1>2, <2>1, <2>5, <2>8, <2>10 DEF MarkInv
<1>21. ASSUME NEW c \in Callers, Write(c) PROVE MarkInv'
  <2> DEFINE k == IF c \in Messages THEN [Idle EXCEPT !.pc = "sent"] ELSE Marked(call[c])
             l == call[c].list
  <2>1. /\ Goes(c, k) /\ lock = c /\ lock' = NoOne /\ c # NoOne /\ list' = l
        /\ confirmed' = confirmed \cup call[c].got /\ call[c].pc = "write"
    BY <1>21, Sorts DEF Write, TypeInv
  <2>2. k.got \subseteq call[c].got /\ k.at \in {0, call[c].at}
    BY <1>1, MarkedPlace DEF Idle
  <2>3. c \in Messages => k.pc = "sent"
    BY DEF Idle
  <2> HIDE DEF k
  <2>4. /\ Good(l, call, confirmed) /\ Ids(l) \subseteq Sent \cup {c}
        /\ call[c].got \cap Unread(l) = {}
    BY <2>1 DEF MarkInv, WritesGood
  <2>5. Ids(l) \subseteq Messages
    BY <1>1, ListTypes, Fields
  <2> HIDE DEF l
  <2>6. call[c].got \subseteq Sent
    BY Sorts DEF MarkInv, Taken, TypeInv
  <2>7. Sent \subseteq Sent' /\ Taken' \subseteq Sent
    BY <2>1, <2>2, <2>6, SentStays, TakenAfter DEF MarkInv
  <2>8. c \in Messages => c \in Sent'
    BY <2>1, <2>3, CallAfter DEF Sent, At
  <2>9. c \in Reads => InPlace(k, l)
    BY <2>2, <2>4 DEF Good, InPlace
  <2>10. confirmed' \cap Unread(l) = {}
    BY <2>1, <2>4 DEF Good
  <2>11. Good(list', call', confirmed')
    BY <2>1, <2>4, <2>9, <2>10, GoodAfter
  <2>12. Ids(list') \subseteq Sent'
    BY <2>1, <2>4, <2>5, <2>7, <2>8
  <2> QED
    BY <1>2, <2>1, <2>6, <2>7, <2>11, <2>12 DEF MarkInv
<1>22. ASSUME NEW m \in Messages, Dies(m) PROVE MarkInv'
  <2> DEFINE k == [Idle EXCEPT !.pc = "dead"]
  <2>1. /\ Goes(m, k) /\ m \in Callers /\ m \notin Reads /\ lock = m /\ lock' = NoOne
        /\ list' = list /\ confirmed' = confirmed
    BY <1>22, Sorts DEF Dies
  <2>2. k.got = {} /\ call[m].pc # "sent"
    BY <2>1 DEF Idle, TypeInv
  <2> HIDE DEF k
  <2>3. Sent \subseteq Sent' /\ Taken' \subseteq Sent
    BY <2>1, <2>2, SentStays, TakenAfter DEF MarkInv
  <2>4. Good(list', call', confirmed')
    BY <1>2, <2>1, GoodAfter DEF MarkInv
  <2> QED
    BY <1>2, <2>1, <2>3, <2>4 DEF MarkInv
<1> QED
  BY <1>4, <1>5, <1>6, <1>7, <1>8, <1>10, <1>11, <1>12, <1>13, <1>14, <1>15, <1>16,
     <1>17, <1>18, <1>19, <1>20, <1>21, <1>22 DEF Next

LEMMA InitMarks == Init => MarkInv
<1> SUFFICES ASSUME Init PROVE MarkInv
  OBVIOUS
<1>1. \A p \in Reads : call[p] = Idle
  BY DEF Init, Callers
<1>2. Taken = {}
  BY <1>1 DEF Taken, Idle
<1>3. Good(list, call, confirmed) /\ Ids(list) = {}
  BY EmptyIsGood, EmptyList DEF Init
<1> QED
  BY <1>2, <1>3 DEF Init, MarkInv

-----------------------------------------------------------------------------
LEMMA Invariance == Spec => []Inv
<1>1. Init => Inv
  BY InitTypes, InitLoss, InitMarks DEF Inv
<1>2. Inv /\ [Next]_vars => Inv'
  BY TypeStep, LossStep, MarkStep DEF Inv
<1> QED
  BY <1>1, <1>2, PTL DEF Spec

\* The lock belongs to the call that reads the mailbox again and writes it, and
\* to no other (src/src/utils/teammateMailbox.ts), whoever dies or gives up.
THEOREM TypeCorrect == Spec => []TypeOK
<1>1. Inv => TypeOK
  <2> SUFFICES ASSUME Inv PROVE TypeOK
    OBVIOUS
  <2>1. \A c \in Callers : call[c] \in CallRec
    BY DEF Inv, TypeInv
  <2>2. \A c \in Callers : /\ call[c].got \subseteq Messages /\ call[c].at \in Nat
                            /\ call[c].list \in Seq(Entry)
    BY <2>1, Fields
  <2> QED
    BY <2>2 DEF Inv, TypeInv, TypeOK
<1> QED
  BY <1>1, Invariance, PTL

\* For any number of senders, looks and messages: what writeToMailbox has sent is
\* in the file, or with its reader, or was lost in one of two ways, marked by a
\* call that had not read it or destroyed with the file.
THEOREM LossesAreNamed == Spec => []NothingElseLost
<1>1. Inv => NothingElseLost
  <2> SUFFICES ASSUME Inv, NEW m \in Messages, At(m, "sent")
               PROVE  \/ m \in Unread(Kept) \cup queued \cup delivered
                      \/ \E p \in Reads : m \in call[p].got
                      \/ m \in blind \cup wiped
    BY DEF NothingElseLost
  <2>1. Keeps(Kept)
    <3>1. CASE Filling
      BY <3>1 DEF Filling, Kept, Inv, LossInv
    <3>2. CASE ~Filling
      BY <3>2 DEF Filling, Kept, Inv, LossInv
    <3> QED
      BY <3>1, <3>2
  <2>2. m \in Unread(Kept) \cup Rest
    BY <2>1 DEF Keeps, Sent
  <2> QED
    BY <2>2 DEF Rest, Taken
<1> QED
  BY <1>1, Invariance, PTL

\* No writer of the mailbox takes back a mark whose reader has returned from it:
\* writers read the file again under the lock, and a place counted without it
\* still is the place of its message, or of none.
THEOREM MarksAreKept == Spec => []MarksStay
<1>1. Inv => MarksStay
  <2> SUFFICES ASSUME Inv PROVE confirmed \cap Unread(Kept) = {}
    BY DEF MarksStay
  <2>1. CASE Filling
    BY <2>1 DEF Filling, Kept, Inv, MarkInv, WritesGood, Good
  <2>2. CASE ~Filling
    BY <2>2 DEF Filling, Kept, Inv, MarkInv, Good
  <2> QED
    BY <2>1, <2>2
<1> QED
  BY <1>1, Invariance, PTL
=============================================================================
