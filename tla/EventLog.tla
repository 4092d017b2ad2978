------------------------------ MODULE EventLog ------------------------------
(***************************************************************************)
(* EventEntry of class determ (EVENT_VIEWER): the log of a thread index.   *)
(* An event is begun and ended in the slot at event_counter; only its end  *)
(* moves the counter, so an event begun inside another takes its slot.     *)
(* The next thread with the same index goes on in the same log.            *)
(***************************************************************************)
EXTENDS Naturals

CONSTANTS
  MaxEvents,   \* MAX_EVENTS
  Types,       \* of debug_event_type; "transaction" is 0
  MaxTime      \* bounds the model

VARIABLES
  events, event_counter,
  time, clock    \* now, in microseconds and in ticks

ThreadTime == <<time, clock>>
vars == <<events, event_counter, ThreadTime>>

(* struct debugging_events, as mmap gives it; dirty_pages for its four     *)
(* page counts, coarsening_counter for its coarsening and counter values   *)
Empty ==
  [begin_time |-> 0, end_time |-> 0, event_type |-> "transaction", begin_clock |-> 0, end_clock |-> 0,
   dirty_pages |-> 0, coarsening_counter |-> 0]

HasRoom == event_counter < MaxEvents
Write(e) == events' = [events EXCEPT ![event_counter] = e]
Slot == events[event_counter]

(* start_event                                                             *)
StartEvent(type) ==
  /\ IF HasRoom
     THEN Write([Slot EXCEPT !.event_type = type, !.begin_time = time, !.begin_clock = clock])
     ELSE UNCHANGED events
  /\ UNCHANGED <<event_counter, ThreadTime>>

(* Mutant: an event without a beginning begins at the start of the program.*)
BegunNever(type) == Slot

(* end_event: "if we don't have a begin event, just use the end of the     *)
(* last event"                                                             *)
Begun(type) ==
  IF Slot.begin_time = 0 /\ Slot.begin_clock = 0 /\ event_counter > 0
  THEN LET last == events[event_counter - 1]
       IN [Slot EXCEPT !.event_type = type, !.begin_time = last.end_time, !.begin_clock = last.end_clock]
  ELSE Slot

EndEvent(type, coarsened) ==
  /\ IF HasRoom
     THEN /\ Write([Begun(type) EXCEPT !.end_time = time, !.end_clock = clock, !.coarsening_counter = coarsened])
          /\ event_counter' = event_counter + 1
     ELSE UNCHANGED <<events, event_counter>>
  /\ UNCHANGED ThreadTime

(* add_atomic_event                                                        *)
AddAtomicEvent(type) ==
  /\ IF HasRoom
     THEN /\ Write([Slot EXCEPT !.event_type = type, !.begin_time = time, !.end_time = time,
                                !.begin_clock = clock, !.end_clock = clock])
          /\ event_counter' = event_counter + 1
     ELSE UNCHANGED <<events, event_counter>>
  /\ UNCHANGED ThreadTime

(* add_event_commit_stats: only into a commit that has begun               *)
AddEventCommitStats(pages) ==
  /\ HasRoom /\ Slot.event_type = "commit"
  /\ Write([Slot EXCEPT !.dirty_pages = pages])
  /\ UNCHANGED <<event_counter, ThreadTime>>

(* determ::add_coarsening_stats: begin, fill in and end; the counter it    *)
(* fills in is overwritten at the end.                                     *)
AddCoarseningStats(coarsened) ==
  /\ IF HasRoom
     THEN /\ Write([Slot EXCEPT !.event_type = "coarse", !.begin_time = time, !.begin_clock = clock,
                                !.end_time = time, !.end_clock = clock, !.coarsening_counter = coarsened])
          /\ event_counter' = event_counter + 1
     ELSE UNCHANGED <<events, event_counter>>
  /\ UNCHANGED ThreadTime

(* finalThreadExit, finalize and __error: print_all_events                 *)
PrintAllEvents == [i \in 0 .. event_counter - 1 |-> events[i]]

(* Time passes; a new thread of this index begins with its own clock.      *)
TimePasses ==
  /\ time < MaxTime /\ time' = time + 1
  /\ clock' \in {0, clock + 1}
  /\ UNCHANGED <<events, event_counter>>

Init ==
  /\ events = [i \in 0 .. MaxEvents - 1 |-> Empty] /\ event_counter = 0
  /\ time = 1 /\ clock = 0

Next ==
  \/ \E t \in Types : StartEvent(t) \/ EndEvent(t, 1) \/ AddAtomicEvent(t)
  \/ AddEventCommitStats(1) \/ AddCoarseningStats(2) \/ TimePasses

Spec == Init /\ [][Next]_vars

-----------------------------------------------------------------------------
(* However events nest, are left open or end without a beginning, and      *)
(* whoever uses the index next, the log that is printed is a sequence of   *)
(* intervals of time, one after the other; it ends when it is full.        *)
EventsInOrder ==
  LET log == PrintAllEvents
  IN \A i \in DOMAIN log :
       /\ log[i].begin_time <= log[i].end_time
       /\ i > 0 => log[i - 1].end_time <= log[i].begin_time
=============================================================================
