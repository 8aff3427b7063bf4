------------------------------ MODULE Timeline ------------------------------
(***************************************************************************)
(* The timeline of a conversation.  Writers all over the program add       *)
(* events; an event may carry a dedupe key, which a unique index allows    *)
(* once.  A reader pages from the newest to the oldest with a cursor, the  *)
(* time and the id of the last event it was given, while events are added. *)
(*                                                                         *)
(* Ids are random: events of the same millisecond are in any order.        *)
(***************************************************************************)
EXTENDS Integers, FiniteSets

CONSTANTS Writers,
          Ids,          \* event ids; their order is that of the numbers
          Keys,         \* dedupe keys
          None,         \* no key, no cursor, an event that was not written
          PageSize,
          MaxTime,      \* bound: milliseconds
          MaxFaults     \* bound: failing database calls

TimelineAssumption ==
    /\ Ids \subseteq Nat /\ PageSize \in Nat \ {0} /\ MaxTime \in Nat /\ MaxFaults \in Nat
    /\ None \notin Keys \cup Ids

VARIABLES
    events,   \* the rows: id, time and key
    writer,   \* the calls of createTimelineEvent that are about to insert, with their key
    reader,   \* the reader: the cursor, the ids it was given, those there were at its start
    time,
    faults    \* how many calls have failed

vars == <<events, writer, reader, time, faults>>

NoCall == [pc |-> "idle", key |-> None]

NoReader == [cursor |-> None, more |-> FALSE, seen |-> {}, repeated |-> {}, initial |-> {}]

Init ==
    /\ events = {}
    /\ writer = [w \in Writers |-> NoCall]
    /\ reader = NoReader
    /\ time = 0
    /\ faults = 0

Fault == faults < MaxFaults /\ faults' = faults + 1

\* The unique index allows a row with the key.
Insertable(key) == key = None \/ \A e \in events : e.key # key

-----------------------------------------------------------------------------
(* createTimelineEvent.                                                    *)

\* Without a key nothing is looked for; with one, an event that exists ends the call.
\* An error of the query is passed over.
Call(w) ==
    /\ writer[w].pc = "idle"
    /\ \E key \in Keys \cup {None} :
          /\ \/ Insertable(key) /\ UNCHANGED faults
             \/ key # None /\ Fault
          /\ writer' = [writer EXCEPT ![w] = [pc |-> "create", key |-> key]]
    /\ UNCHANGED <<events, reader, time>>

Create(w) ==
    /\ writer[w].pc = "create" /\ Insertable(writer[w].key)
    /\ \E id \in Ids \ {e.id : e \in events} :
          events' = events \cup {[id |-> id, at |-> time, key |-> writer[w].key]}
    /\ writer' = [writer EXCEPT ![w] = NoCall]
    /\ UNCHANGED <<reader, time, faults>>

\* Another call was faster, and its event is returned; or another error is logged, and
\* the caller gets an event without an id and goes on.
CreateFails(w) ==
    /\ writer[w].pc = "create"
    /\ \/ ~ Insertable(writer[w].key) /\ UNCHANGED faults
       \/ Fault
    /\ writer' = [writer EXCEPT ![w] = NoCall]
    /\ UNCHANGED <<events, reader, time>>

-----------------------------------------------------------------------------
(* getConversationTimeline.                                                *)

Older(e, f) == e.at < f.at \/ (e.at = f.at /\ e.id < f.id)

\* The cursor as the time alone.
BuggyAfterCursor(cursor) == {e \in events : cursor = None \/ e.at < cursor.at}

AfterCursor(cursor) == {e \in events : cursor = None \/ Older(e, cursor)}

\* The newest of them, a page at most.
Page(from) == {e \in from : Cardinality({f \in from : Older(e, f)}) < PageSize}

Oldest(page) == CHOOSE e \in page : \A f \in page \ {e} : Older(e, f)

\* The reader opens the timeline, or follows the cursor while there is one.
Turn(cursor, old) ==
    LET from == AfterCursor(cursor)
        page == Page(from)
        ids  == {e.id : e \in page}
        more == Cardinality(from) > PageSize
    IN  [cursor   |-> IF more THEN Oldest(page) ELSE None,
         more     |-> more,
         seen     |-> old.seen \cup ids,
         repeated |-> old.repeated \cup (old.seen \cap ids),
         initial  |-> old.initial]

OpenTimeline ==
    /\ reader' = Turn(None, [NoReader EXCEPT !.initial = {e.id : e \in events}])
    /\ UNCHANGED <<events, writer, time, faults>>

NextPage ==
    /\ reader.more
    /\ reader' = Turn(reader.cursor, reader)
    /\ UNCHANGED <<events, writer, time, faults>>

Tick ==
    /\ time < MaxTime
    /\ time' = time + 1
    /\ UNCHANGED <<events, writer, reader, faults>>

Next ==
    \/ \E w \in Writers : Call(w) \/ Create(w) \/ CreateFails(w)
    \/ OpenTimeline \/ NextPage \/ Tick

Spec == Init /\ [][Next]_vars

-----------------------------------------------------------------------------
(* Properties.                                                             *)

Events == [id : Ids, at : 0..MaxTime, key : Keys \cup {None}]

TypeOK ==
    /\ events \subseteq Events
    /\ writer \in [Writers -> [pc : {"idle", "create"}, key : Keys \cup {None}]]
    /\ reader \in [cursor : Events \cup {None}, more : BOOLEAN, seen : SUBSET Ids,
                   repeated : SUBSET Ids, initial : SUBSET Ids]
    /\ time \in 0..MaxTime /\ faults \in 0..MaxFaults

\* A reader who has come to the end was given every event there was when it began, and
\* none twice, although events were added between its pages and some share their time.
ReaderSeesAll ==
    /\ reader.repeated = {}
    /\ ~ reader.more => reader.initial \subseteq reader.seen
=============================================================================
