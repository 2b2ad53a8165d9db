------------------------------ MODULE Timeline ------------------------------
(***************************************************************************)
(* The mission timeline and its event stream                               *)
(* (services/runtime/src/mission_timeline.ts), read by the dashboard's     *)
(* EventSource.                                                            *)
(*                                                                         *)
(* An event is its timeline_id, its place in the log, which event_id names *)
(* one to one.  On the wire an event is its id, event and data lines with  *)
(* no blank line after them; comments (the opening one and the heartbeats) *)
(* end in a blank line, and a blank line is what makes an EventSource hand *)
(* what it has gathered to the page, as one message.                       *)
(***************************************************************************)
EXTENDS Naturals, Sequences, SequencesExt

CONSTANTS
  Missions,         \* missions with a row in the database
  Readers,          \* pages with a stream open or reconnecting
  MissionOf,        \* the mission a page streams
  HeartbeatTicks,   \* polls without an event before a heartbeat (15 s of 1 s polls)
  MaxEvents,        \* bound: events recorded
  MaxDrops,         \* bound: connections lost, of all pages
  MaxWire           \* bound: a poll finds fewer items than this unread

ASSUME TimelineAssumption ==
  /\ MissionOf \in [Readers -> Missions]
  /\ HeartbeatTicks \in Nat \ {0}
  /\ MaxEvents \in Nat /\ MaxDrops \in Nat /\ MaxWire \in Nat \ {0}

VARIABLES
  log,      \* mission_timeline_events: the mission of each row, by timeline_id
  open,     \* pages with a connection
  cursor,   \* lastEventId of the server's side of a connection, None before any
  quiet,    \* polls since the last event or heartbeat was written
  wire,     \* written and not yet read: events and blank lines
  gathered, \* events read by the page's EventSource since the last blank line
  lastId,   \* the last event ID its EventSource reconnects with
  read,     \* events dispatched to the page, in order (history)
  shown,    \* events whose message the page could parse (history)
  drops     \* connections lost so far (bound)

server == <<open, cursor, quiet>>
reader == <<gathered, lastId, read, shown>>
vars == <<log, server, wire, reader, drops>>

None == 0
Blank == 0   \* the blank line a comment ends in

TypeOK ==
  /\ log \in Seq(Missions)
  /\ open \subseteq Readers
  /\ cursor \in [Readers -> 0..Len(log)] /\ lastId \in [Readers -> 0..Len(log)]
  /\ quiet \in [Readers -> 0 .. HeartbeatTicks - 1]
  /\ wire \in [Readers -> Seq(0..Len(log))]
  /\ gathered \in [Readers -> Seq(1..Len(log))]
  /\ read \in [Readers -> Seq(1..Len(log))]
  /\ shown \in [Readers -> SUBSET (1..Len(log))]
  /\ drops \in 0..MaxDrops

Init ==
  /\ log = <<>> /\ open = {} /\ drops = 0
  /\ cursor = [p \in Readers |-> None] /\ lastId = [p \in Readers |-> None]
  /\ quiet = [p \in Readers |-> 0]
  /\ wire = [p \in Readers |-> <<>>] /\ gathered = [p \in Readers |-> <<>>]
  /\ read = [p \in Readers |-> <<>>] /\ shown = [p \in Readers |-> {}]

-----------------------------------------------------------------------------
(* recordMissionTimelineEvent: one insert, AUTOINCREMENT names the row. *)
Record(m) ==
  /\ Len(log) < MaxEvents
  /\ log' = Append(log, m)
  /\ UNCHANGED <<server, wire, reader, drops>>

(* resolveMissionTimelineCursor: an id that is no event of this mission is *)
(* as good as none.                                                        *)
Resolve(m, id) == IF id # None /\ log[id] = m THEN id ELSE None

(* The members of a finite set of numbers, in their order. *)
Ascending(S) ==
  CHOOSE s \in [1..Cardinality(S) -> S] : \A i, j \in DOMAIN s : i < j => s[i] < s[j]

(* readMissionTimelineEvents without a limit: the mission's rows after the *)
(* cursor, by timeline_id.                                                 *)
EventsAfter(m, id) ==
  Ascending({k \in 1..Len(log) : log[k] = m /\ k > Resolve(m, id)})

(* deliverEvents from the given cursor, after what is on the wire already. *)
Deliver(p, from, before) ==
  LET events == EventsAfter(MissionOf[p], from)
  IN  /\ wire' = [wire EXCEPT ![p] = before \o events]
      /\ cursor' = [cursor EXCEPT ![p] = IF events = <<>> THEN from ELSE Last(events)]

(* startMissionTimelineStream: the opening comment, then what the log has  *)
(* after Last-Event-ID.  The faulty form forgets that header.              *)
Connect_FromStart(p) ==
  /\ p \notin open
  /\ open' = open \cup {p}
  /\ Deliver(p, None, <<Blank>>)
  /\ quiet' = [quiet EXCEPT ![p] = 0]
  /\ UNCHANGED <<log, reader, drops>>
Connect(p) ==
  /\ p \notin open
  /\ open' = open \cup {p}
  /\ Deliver(p, lastId[p], <<Blank>>)
  /\ quiet' = [quiet EXCEPT ![p] = 0]
  /\ UNCHANGED <<log, reader, drops>>

(* tick: new events, or else a heartbeat when one is due.  The faulty      *)
(* forms send the heartbeat one poll late, or never.                       *)
Tick_Late(p) ==
  /\ p \in open /\ Len(wire[p]) < MaxWire
  /\ IF EventsAfter(MissionOf[p], cursor[p]) # <<>>
     THEN Deliver(p, cursor[p], wire[p]) /\ quiet' = [quiet EXCEPT ![p] = 0]
     ELSE /\ UNCHANGED cursor
          /\ IF quiet[p] + 1 > HeartbeatTicks
             THEN /\ wire' = [wire EXCEPT ![p] = Append(@, Blank)]
                  /\ quiet' = [quiet EXCEPT ![p] = 0]
             ELSE UNCHANGED wire /\ quiet' = [quiet EXCEPT ![p] = @ + 1]
  /\ UNCHANGED <<log, open, reader, drops>>
Tick_NoHeartbeat(p) ==
  /\ p \in open /\ Len(wire[p]) < MaxWire
  /\ EventsAfter(MissionOf[p], cursor[p]) # <<>>
  /\ Deliver(p, cursor[p], wire[p]) /\ quiet' = [quiet EXCEPT ![p] = 0]
  /\ UNCHANGED <<log, open, reader, drops>>
Tick(p) ==
  /\ p \in open /\ Len(wire[p]) < MaxWire
  /\ IF EventsAfter(MissionOf[p], cursor[p]) # <<>>
     THEN Deliver(p, cursor[p], wire[p]) /\ quiet' = [quiet EXCEPT ![p] = 0]
     ELSE /\ UNCHANGED cursor
          /\ IF quiet[p] + 1 >= HeartbeatTicks
             THEN /\ wire' = [wire EXCEPT ![p] = Append(@, Blank)]
                  /\ quiet' = [quiet EXCEPT ![p] = 0]
             ELSE UNCHANGED wire /\ quiet' = [quiet EXCEPT ![p] = @ + 1]
  /\ UNCHANGED <<log, open, reader, drops>>

(* The page's EventSource reads an event: its lines add to the message it  *)
(* is gathering.                                                           *)
ReadEvent(p) ==
  /\ wire[p] # <<>> /\ Head(wire[p]) # Blank
  /\ wire' = [wire EXCEPT ![p] = Tail(@)]
  /\ gathered' = [gathered EXCEPT ![p] = Append(@, Head(wire[p]))]
  /\ UNCHANGED <<log, server, lastId, read, shown, drops>>

(* It reads a blank line: what it gathered becomes one message with the    *)
(* last id of it.  The page parses the data as one JSON value; the data    *)
(* lines of several events are not one, and the error is dropped.          *)
ReadBlank(p) ==
  /\ wire[p] # <<>> /\ Head(wire[p]) = Blank
  /\ wire' = [wire EXCEPT ![p] = Tail(@)]
  /\ gathered' = [gathered EXCEPT ![p] = <<>>]
  /\ lastId' = [lastId EXCEPT ![p] = IF gathered[p] = <<>> THEN @ ELSE Last(gathered[p])]
  /\ read' = [read EXCEPT ![p] = @ \o gathered[p]]
  /\ shown' = [shown EXCEPT ![p] = IF Len(gathered[p]) = 1 THEN @ \cup {gathered[p][1]} ELSE @]
  /\ UNCHANGED <<log, server, drops>>

(* The connection is lost, at either end: what was on the wire and what    *)
(* was gathered of a message are gone.                                     *)
Drop(p) ==
  /\ p \in open /\ drops < MaxDrops
  /\ open' = open \ {p}
  /\ wire' = [wire EXCEPT ![p] = <<>>]
  /\ gathered' = [gathered EXCEPT ![p] = <<>>]
  /\ drops' = drops + 1
  /\ UNCHANGED <<log, cursor, quiet, lastId, read, shown>>

Next ==
  \/ \E m \in Missions : Record(m)
  \/ \E p \in Readers :
       Connect(p) \/ Tick(p) \/ ReadEvent(p) \/ ReadBlank(p) \/ Drop(p)

(* The interval timer fires while the connection is open, the browser      *)
(* reads what arrives and reconnects by itself.                            *)
Fairness ==
  \A p \in Readers :
    WF_vars(Connect(p)) /\ WF_vars(Tick(p)) /\ WF_vars(ReadEvent(p)) /\ WF_vars(ReadBlank(p))

Spec == Init /\ [][Next]_vars /\ Fairness

-----------------------------------------------------------------------------
(* Properties                                                              *)

(* Over every reconnection, what the page is sent is its mission's history *)
(* from the start: nothing missing, repeated, out of order or from another *)
(* mission.                                                                *)
ReadInOrder ==
  \A p \in Readers : IsPrefix(read[p], EventsAfter(MissionOf[p], None))

(* Every recorded event is dispatched to every page of its mission, as     *)
(* connections are not lost for ever: the heartbeats flush the last ones.  *)
EventuallyRead ==
  \A p \in Readers : \A k \in 1..MaxEvents :
    k <= Len(log) /\ log[k] = MissionOf[p] ~> \E i \in DOMAIN read[p] : read[p][i] = k

(* "mission timeline replays existing events on first SSE connection": no  *)
(* event of the mission is behind the id a page reconnects with without    *)
(* having reached the page as a message it can parse.                      *)
NothingSkipped ==
  \A p \in Readers : \A k \in 1..lastId[p] : log[k] = MissionOf[p] => k \in shown[p]
=============================================================================
