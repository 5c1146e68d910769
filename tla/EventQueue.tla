----------------------------- MODULE EventQueue -----------------------------
(***************************************************************************)
(* The queue of events of a difference storage (module/event_queue.c): a   *)
(* list under a spin lock.  A waiter looks at the list without the lock    *)
(* and, when it is not empty, takes the first event under it.  There is    *)
(* one waiter, the library's thread; a second one could find the list      *)
(* emptied between its look and its lock.                                  *)
(***************************************************************************)
EXTENDS Integers, Sequences

VARIABLES
  list,      \* the events in the queue
  generated, \* their number so far; an event is its number
  received   \* what the waiters got, in the order it was taken

queueVars == <<list, generated, received>>

event_gen ==
  /\ generated' = generated + 1
  /\ list' = Append(list, generated + 1)
  /\ UNCHANGED received

(* Mutant: an event is seen only when there is another one.                *)
ReadyTooLate == Len(list) > 1

(* The condition of wait_event_interruptible_timeout().                    *)
EventReady == list # << >>

(* list_first_entry() and list_del() under the lock.                       *)
TakeEvent ==
  /\ list # << >>
  /\ list' = Tail(list)
  /\ received' = Append(received, Head(list))
  /\ UNCHANGED generated
=============================================================================
