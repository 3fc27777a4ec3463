-------------------------------- MODULE LogShip --------------------------------
(***************************************************************************)
(* The collector's own log records, on their way to becoming events        *)
(* (internal/logship/logship.go): at most Limit a window, then a channel.  *)
(* Any goroutine may log at any time; admitting a record is under the      *)
(* mutex, sending it is not.  Sub compares monotonic times, the heartbeat's*)
(* now.                                                                    *)
(***************************************************************************)
EXTENDS Heartbeat, Sequences, FiniteSets

CONSTANTS
  Window,      \* the heartbeat interval
  Limit,       \* records admitted in a window
  Backlog,     \* the channel holds so many times the limit; 4 in the code
  NoWindow     \* no record was seen yet

ASSUME LogShipAssumption == Window \in Nat /\ Limit \in Nat /\ Backlog \in Nat

VARIABLES
  windowStart, sentInWindow,
  inHand,        \* records admitted that are not sent yet
  channel,       \* records in the channel
  suppressed,    \* logs_suppressed
  shipped,       \* records taken out of the channel to be published
  logged,        \* history: records at or above the floor
  admissions     \* history: when records were admitted

lvars == <<windowStart, sentInWindow, inHand, channel, suppressed, shipped, logged,
           admissions>>

LogShipInit ==
  /\ windowStart = NoWindow /\ sentInWindow = 0
  /\ inHand = 0 /\ channel = 0 /\ suppressed = 0 /\ shipped = 0
  /\ logged = 0 /\ admissions = <<>>

\* Fault: a window ends later than its length.
WindowOverLate == windowStart = NoWindow \/ now - windowStart > Window

WindowOver == windowStart = NoWindow \/ now - windowStart >= Window

\* A record at or above the floor.  Those below it have no part in this.
LogRecord ==
  LET sent == IF WindowOver THEN 0 ELSE sentInWindow
  IN  /\ logged' = logged + 1
      /\ windowStart' = IF WindowOver THEN now ELSE windowStart
      /\ IF sent >= Limit
           THEN /\ suppressed' = suppressed + 1 /\ sentInWindow' = sent
                /\ UNCHANGED <<inHand, admissions>>
           ELSE /\ inHand' = inHand + 1 /\ sentInWindow' = sent + 1
                /\ admissions' = Append(admissions, now)
                /\ UNCHANGED suppressed
      /\ UNCHANGED <<channel, shipped>>

\* Fault: a record that the channel has no room for is not counted.
OverflowUncounted == suppressed

Overflow == suppressed + 1

\* A logger never waits for the channel.
PutRecord ==
  /\ inHand > 0
  /\ inHand' = inHand - 1
  /\ IF channel < Backlog * Limit
       THEN channel' = channel + 1 /\ UNCHANGED suppressed
       ELSE suppressed' = Overflow /\ UNCHANGED channel
  /\ UNCHANGED <<windowStart, sentInWindow, shipped, logged, admissions>>

ShipRecord ==
  /\ channel > 0
  /\ channel' = channel - 1 /\ shipped' = shipped + 1
  /\ UNCHANGED <<windowStart, sentInWindow, inHand, suppressed, logged, admissions>>

-----------------------------------------------------------------------------
Recent == {k \in DOMAIN admissions : admissions[k] > now - Window}

\* A record is suppressed only if as many as the limit were admitted within a
\* window's time before it, or if the channel is full: a flood does not
\* silence what comes after it (logship.go:138-151).
SuppressedForCause ==
  [][suppressed' # suppressed =>
       \/ logged' # logged /\ Cardinality(Recent) >= Limit
       \/ channel = Backlog * Limit]_<<now, lvars>>
=============================================================================
