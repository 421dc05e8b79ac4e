------------------------- MODULE PayloadEventQueue -------------------------
(***************************************************************************)
(* tlm_utils::peq_with_get, the queue through which the parts of the       *)
(* platform hand payloads to each other: a payload can be taken out once   *)
(* its delay has passed, and one event tells the reader so.  The library   *)
(* is not in the repository; this is how its users see it.                 *)
(*                                                                         *)
(* A queue is a record: due, the payloads with the time left to each,      *)
(* soonest first, and event, the time left to the notification of the      *)
(* event (an sc_event has at most one, the earliest asked for).            *)
(***************************************************************************)
EXTENDS Naturals, FiniteSets, SequencesExt

NoEvent == {}    \* nothing is notified; otherwise event is a singleton

EmptyQueue == [due |-> <<>>, event |-> NoEvent]

Payloads(q) == {q.due[i].trans : i \in DOMAIN q.due}

\* sc_event::notify(d): a later notification gives way to an earlier one.
NotifyEvent(event, d) == IF \E e \in event : e <= d THEN event ELSE {d}

\* notify(trans, d)
Notify(q, t, d) ==
  LET sooner == Cardinality({i \in DOMAIN q.due : q.due[i].left <= d})
  IN  [due |-> InsertAt(q.due, sooner + 1, [trans |-> t, left |-> d]),
       event |-> NotifyEvent(q.event, d)]

\* get_next_transaction() finds a payload, and leaves this queue ...
HasNext(q) == q.due # <<>> /\ Head(q.due).left = 0
NextTransaction(q) == Head(q.due).trans
Taken(q) == [q EXCEPT !.due = Tail(@)]

\* ... or finds none, and asks for the event again.
NothingTaken(q) ==
  IF q.due = <<>> THEN q
  ELSE [q EXCEPT !.event = NotifyEvent(@, Head(q.due).left)]

\* The event happens now.
Fires(q) == 0 \in q.event
Fired(q) == [q EXCEPT !.event = NoEvent]

\* One unit of time passes; what has come due stays due.
Sooner(n) == IF n = 0 THEN 0 ELSE n - 1
Elapsed(q) ==
  [due |-> [i \in DOMAIN q.due |-> [q.due[i] EXCEPT !.left = Sooner(@)]],
   event |-> {Sooner(e) : e \in q.event}]

\* A reader that sleeps until the event will wake up for the first payload.
WakesInTime(q) ==
  q.due # <<>> => \E e \in q.event : e <= Head(q.due).left
=============================================================================
