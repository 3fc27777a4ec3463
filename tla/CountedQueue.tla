---------------------------- MODULE CountedQueue ----------------------------
(***************************************************************************)
(* What the publisher promises its callers (package comment of             *)
(* internal/publish/publish.go, ADR 0020): a first-in first-out queue that *)
(* loses an event only in ways it counts, and that is settled some time    *)
(* after it was closed.  Publisher is shown to implement it.               *)
(***************************************************************************)
EXTENDS Naturals, Sequences

CONSTANT None   \* no event is being published

VARIABLES
  open,       \* whether events are accepted
  accepted,   \* how many were; an event is its number
  waiting,    \* accepted events nobody has looked at yet, oldest first
  held,       \* the event being published, or None
  published,  \* how many the broker acknowledged
  lost        \* how many were counted as lost

vars == <<open, accepted, waiting, held, published, lost>>

Init ==
  /\ open = TRUE /\ accepted = 0 /\ waiting = << >> /\ held = None
  /\ published = 0 /\ lost = 0

Accept ==
  /\ open
  /\ accepted' = accepted + 1
  /\ waiting' = Append(waiting, accepted + 1)
  /\ UNCHANGED <<open, held, published, lost>>

\* No room: the oldest event that nobody holds makes way, and is counted.
AcceptEvicting ==
  /\ open
  /\ waiting # << >>
  /\ accepted' = accepted + 1
  /\ waiting' = Append(Tail(waiting), accepted + 1)
  /\ lost' = lost + 1
  /\ UNCHANGED <<open, held, published>>

Hold ==
  /\ held = None
  /\ waiting # << >>
  /\ held' = Head(waiting)
  /\ waiting' = Tail(waiting)
  /\ UNCHANGED <<open, accepted, published, lost>>

Publish ==
  /\ held # None
  /\ held' = None
  /\ published' = published + 1
  /\ UNCHANGED <<open, accepted, waiting, lost>>

Lose ==
  /\ held # None
  /\ held' = None
  /\ lost' = lost + 1
  /\ UNCHANGED <<open, accepted, waiting, published>>

Close ==
  /\ open
  /\ open' = FALSE
  /\ UNCHANGED <<accepted, waiting, held, published, lost>>

\* Only a closed queue may give up what it has not looked at, once it holds
\* nothing any more.
Abandon ==
  /\ ~open
  /\ held = None
  /\ waiting # << >>
  /\ lost' = lost + Len(waiting)
  /\ waiting' = << >>
  /\ UNCHANGED <<open, accepted, held, published>>

Settle == Hold \/ Publish \/ Lose \/ Abandon

Next == Accept \/ AcceptEvicting \/ Settle \/ Close

\* A closed queue settles; an open one may wait for its broker for ever.
Spec == Init /\ [][Next]_vars /\ WF_vars(~open /\ Settle)
=============================================================================
