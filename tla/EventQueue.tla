----------------------------- MODULE EventQueue -----------------------------
(***************************************************************************)
(* The event list of sim65816.c: a linked list of at most MAX_EVENTS        *)
(* entries ordered by the cycle at which each is due (g_event_start),       *)
(* refilled from a free list (g_event_free).  The list is a sequence; the   *)
(* entries not on it are the free list.  All operators are pure: a          *)
(* component that owns the list says what becomes of it.                    *)
(***************************************************************************)
EXTENDS Integers, Sequences, FiniteSets, SequencesExt

CONSTANTS
  MaxEvents,    \* MAX_EVENTS: entries in g_event_list
  TooFar,       \* an event due later than this from now is pulled in
  Retry         \* ... to this many cycles from now

ASSUME QueueAssumption ==
  /\ MaxEvents \in Nat \ {0}
  /\ TooFar \in Nat
  /\ Retry \in Nat

(* The types of events (EV_60HZ ... EV_MOCKINGBOARD).  Events of the three  *)
(* device types are told apart by their argument only.                      *)
EvTypes == {"60HZ", "STOP", "SCAN_INT", "VBL_INT", "VID_UPD", "DEVICE"}

Event == [at : Nat, type : EvTypes, arg : Nat]

Sorted(q) == \A i, j \in 1..Len(q) : i < j => q[i].at <= q[j].at

(* The positions at which entries of a type (and argument) are queued.      *)
OfType(q, type) == {i \in 1..Len(q) : q[i].type = type}

OfTypeArg(q, type, arg) == {i \in OfType(q, type) : q[i].arg = arg}

(* check_for_one_event_type, at the end of add_event_entry: it masks the    *)
(* type it looks for but not the types it compares with, so that it sees    *)
(* only entries whose argument is 0.  The code halts when there are two.    *)
MoreThanOne(q, type) == Cardinality(OfTypeArg(q, type, 0)) > 1

(* add_event_entry: where the walk down the list stops, before the first    *)
(* entry that is not due earlier.                                           *)
InsertPosEarlier(q, at) ==               \* mutant: stops before the first entry that is earlier
  CHOOSE i \in 1..(Len(q) + 1) :
    /\ \A j \in 1..(i - 1) : q[j].at >= at
    /\ i <= Len(q) => q[i].at < at

InsertPos(q, at) ==
  CHOOSE i \in 1..(Len(q) + 1) :
    /\ \A j \in 1..(i - 1) : q[j].at < at
    /\ i <= Len(q) => q[i].at >= at

(* add_event_entry: a time in the past, or absurdly far, becomes soon.      *)
DueTime(at, now) ==
  IF at > now + TooFar \/ at < now THEN now + Retry ELSE at

(* add_event_entry: with the free list empty the event is dropped (the code  *)
(* also halts; Scheduler!PoolSuffices says that it does not come to that).  *)
AddEvent(q, now, at, type, arg) ==
  LET due == DueTime(at, now)
  IN  IF Len(q) >= MaxEvents
      THEN q
      ELSE InsertAt(q, InsertPos(q, due), [at |-> due, type |-> type, arg |-> arg])

(* add_event_entry: a new first event makes the engine's deadline stale.    *)
NewHeadNever(q, now, at) == FALSE        \* mutant: no engine_recalc_events

NewHead(q, now, at) ==
  /\ Len(q) < MaxEvents
  /\ q # <<>>
  /\ DueTime(at, now) < q[1].at

(* remove_event_entry: the first match leaves the list; none, none does.    *)
RemoveFirstAt(q, positions) ==
  IF positions = {}
  THEN q
  ELSE RemoveAt(q, Min(positions))

=============================================================================
