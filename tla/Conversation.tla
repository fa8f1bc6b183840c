----------------------------- MODULE Conversation -----------------------------
(***************************************************************************)
(* What a chat session promises whoever uses it, without statuses, events  *)
(* and drafts: one turn at a time, whose message is answered directly      *)
(* behind it; tool calls that ask the user, who decides each of them once; *)
(* and no answer of a turn before all of its calls that asked are decided. *)
(* A turn whose answer is an error may let another one in before it is     *)
(* over.  The turns that then overlap are promised less, until all of them *)
(* are over.                                                               *)
(***************************************************************************)
EXTENDS Naturals, Sequences

CONSTANTS
    Turns, Calls, \* a call is a pair of its turn and a number
    NoCall

VARIABLES
    served,  \* turns that are not answered
    closing, \* turns that are answered, and not over
    over,    \* turns that are over, those refused included
    mode,    \* "one" turn at a time; "failed": its answer is an error; "mixed"
    log,     \* the transcript, as the sequence of its entries
    asked,   \* calls that asked and are not decided
    waiting, \* the call whose approval the user can answer, or NoCall
    decided  \* calls that the user has decided

cvars == <<served, closing, over, mode, log, asked, waiting, decided>>

Init ==
    /\ served = {} /\ closing = {} /\ over = {} /\ mode = "one"
    /\ log = <<>>
    /\ asked = {} /\ waiting = NoCall /\ decided = {}

New(t) == t \notin served \cup closing \cup over

\* A message is taken when no turn is served, or one that has failed is not
\* over.  It is put behind the transcript of the tab that posts it, up to date
\* or older.
Begin(t) ==
    /\ New(t)
    /\ \/ served \cup closing = {} /\ mode = "one" /\ UNCHANGED mode
       \/ mode \in {"failed", "mixed"} /\ mode' = "mixed"
    /\ served' = served \cup {t}
    /\ \E n \in 0 .. Len(log) :
          log' = Append(SubSeq(log, 1, n), <<"prompt", t>>)
    /\ UNCHANGED <<closing, over, asked, waiting, decided>>

\* A message is refused only while another turn is not over, and has not failed.
Refuse(t) ==
    /\ New(t) /\ served \cup closing # {} /\ mode # "failed"
    /\ over' = over \cup {t}
    /\ UNCHANGED <<served, closing, mode, log, asked, waiting, decided>>

\* The message of t is the last entry, unless turns overlap.
Unanswered(t) ==
    mode # "mixed" => log # <<>> /\ log[Len(log)] = <<"prompt", t>>

\* A call asks, and the user is shown its approval.
Ask(c) ==
    /\ c[1] \in served /\ Unanswered(c[1])
    /\ c \notin asked \cup decided
    /\ asked' = asked \cup {c} /\ waiting' = c
    /\ UNCHANGED <<served, closing, over, mode, log, decided>>

\* The user decides the approval that is shown.
Decide(c) ==
    /\ waiting = c /\ c \in asked
    /\ asked' = asked \ {c} /\ waiting' = NoCall
    /\ decided' = decided \cup {c}
    /\ UNCHANGED <<served, closing, over, mode, log>>

\* The next mode, when turns go on being served, or none does.
Goes(modes) == IF served' \cup closing' = {} THEN mode' = "one"
               ELSE IF mode = "mixed" THEN UNCHANGED mode ELSE mode' \in modes

\* A turn is answered, or has failed.  Where turns overlap it may be over
\* without an answer, while another one's approval is shown.
Reply(t) ==
    /\ t \in served /\ Unanswered(t) /\ \A c \in asked : c[1] # t
    /\ served' = served \ {t}
    /\ \/ /\ \E kind \in {"reply", "system_error"} :
                log' = Append(log, <<kind, t>>)
          /\ \/ closing' = closing \cup {t} /\ UNCHANGED over
             \/ over' = over \cup {t} /\ UNCHANGED closing
       \/ /\ mode = "mixed" /\ waiting # NoCall
          /\ over' = over \cup {t} /\ UNCHANGED <<log, closing>>
    /\ Goes({"one", "failed"})
    /\ UNCHANGED <<asked, waiting, decided>>

\* A turn is over.
End(t) ==
    /\ t \in closing
    /\ closing' = closing \ {t} /\ over' = over \cup {t}
    /\ UNCHANGED served /\ Goes({"one"})
    /\ UNCHANGED <<log, asked, waiting, decided>>

Next ==
    \/ \E t \in Turns : Begin(t) \/ Refuse(t) \/ Reply(t) \/ End(t)
    \/ \E c \in Calls : Ask(c) \/ Decide(c)

Spec == Init /\ [][Next]_cvars
=============================================================================
