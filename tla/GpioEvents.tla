----------------------------- MODULE GpioEvents -----------------------------
(***************************************************************************)
(* Edge detection of RPi.GPIO: the gpio list, the callback lists and the   *)
(* poll thread of event_gpio.c, with the Python calls of py_gpio.c that    *)
(* use them.  Channels are set up as inputs and calls have valid           *)
(* arguments.  wait_for_edge () is in GpioWait.                            *)
(*                                                                         *)
(* A Python call holds the global lock, so calls are single steps.  The    *)
(* poll thread takes that lock around each Python callback only: its steps *)
(* fall between any two calls, with what it has already read.              *)
(***************************************************************************)
EXTENDS Integers, FiniteSets

CONSTANTS
  Gpios, Edges,
  Bounces,      (* whether programs give bounce times: a set of BOOLEAN      *)
  Callbacks,    (* Python callbacks; each is added to a channel once         *)
  Fds,          (* descriptors of value files                                *)
  Threads,      (* poll threads there can be at a time                       *)
  None

(* An entry of gpio_list: struct gpios, with lastcall as whether the gpio   *)
(* was called within the bounce time.                                       *)
Entry == [edge : Edges, bounce : Bounces, fd : Fds, initial_thread : BOOLEAN,
          thread_added : BOOLEAN, called : BOOLEAN]

ASSUME EventAssumption ==
  /\ None \notin Gpios \cup Fds \cup Callbacks \cup Entry
  /\ Bounces \subseteq BOOLEAN

VARIABLES
  list,            (* gpio_list: an entry or None for each gpio              *)
  callbacks,       (* how many entries of the C list are for each gpio       *)
  py_callbacks,    (* the Python callbacks listed for each gpio              *)
  event_occurred,  (* the gpios whose flag is set                            *)
  thread_running,
  epoll,           (* epfd_thread is open                                    *)
  ready,           (* descriptors the epoll set has a trigger for            *)
  at,              (* where each poll thread is; "orphan" waits on an epoll  *)
                   (* set that was closed                                    *)
  fd,              (* events.data.fd of each poll thread                     *)
  on,              (* the gpio of the entry it works on                      *)
  freed,           (* that entry was freed meanwhile                         *)
  pending,         (* calls its run_callbacks () has left                    *)
  crashed,
  edged,           (* gpios with an edge since their entry was made          *)
  raced            (* a removal hit a poll thread at work, or a signal woke  *)
                   (* an orphan                                              *)

lists == <<list, callbacks, py_callbacks>>
local == <<at, fd, on, freed, pending>>
vars == <<lists, event_occurred, thread_running, epoll, ready, local,
          crashed, edged, raced>>

Init ==
  /\ list = [g \in Gpios |-> None]
  /\ callbacks = [g \in Gpios |-> 0]
  /\ py_callbacks = [g \in Gpios |-> {}]
  /\ event_occurred = {}
  /\ thread_running = FALSE /\ epoll = FALSE /\ ready = {}
  /\ at = [t \in Threads |-> "none"]
  /\ fd = [t \in Threads |-> None]
  /\ on = [t \in Threads |-> None]
  /\ freed = [t \in Threads |-> FALSE]
  /\ pending = [t \in Threads |-> {}]
  /\ crashed = FALSE /\ edged = {} /\ raced = FALSE

-----------------------------------------------------------------------------
Listed == {g \in Gpios : list[g] # None}
OpenFds == {list[g].fd : g \in Listed}
AtWork == {t \in Threads : at[t] \notin {"none", "wait", "orphan"}}

(* Mutant: the time of the last call is not set.                            *)
NewEntry_NoLastcall(e, b, f) ==
  [edge |-> e, bounce |-> b, fd |-> f, initial_thread |-> TRUE,
   thread_added |-> FALSE, called |-> None]

(* new_gpio () and what add_edge_detect () stores in the new entry.         *)
NewEntry(e, b, f) == [edge |-> e, bounce |-> b, fd |-> f, initial_thread |-> TRUE,
                      thread_added |-> FALSE, called |-> FALSE]

(* gpio_event_added (): no entry yet, or one that is not watched, with the  *)
(* same edge and no other bounce time.                                      *)
MayAdd(g, e, b) ==
  \/ list[g] = None
  \/ /\ list[g] # None /\ list[g].edge = e
     /\ b => list[g].bounce
     /\ ~list[g].thread_added

(* The entry that is watched: the one in the list, or a new one with a      *)
(* descriptor that is free.                                                 *)
EntriesFor(g, e, b) ==
  IF list[g] # None THEN {list[g]} ELSE {NewEntry(e, b, f) : f \in Fds \ OpenFds}

(* Mutant: the descriptor is not taken out of the epoll set.                *)
RemoveEdgeDetect_KeepsTrigger(S) ==
  /\ list' = [g \in Gpios |-> IF g \in S THEN None ELSE list[g]]
  /\ callbacks' = [g \in Gpios |-> IF g \in S \cap Listed THEN 0 ELSE callbacks[g]]
  /\ event_occurred' = event_occurred \ (S \cap Listed)
  /\ ready' = ready
  /\ freed' = [t \in Threads |-> freed[t] \/ (at[t] = "latch" /\ on[t] \in S \cap Listed)]
  /\ edged' = edged \ S

(* remove_edge_detect () of a set of gpios, for the lists and the flags.    *)
(* Threads that hold an entry of one of them hold freed memory from now on. *)
RemoveEdgeDetect(S) ==
  /\ list' = [g \in Gpios |-> IF g \in S THEN None ELSE list[g]]
  /\ callbacks' = [g \in Gpios |-> IF g \in S \cap Listed THEN 0 ELSE callbacks[g]]
  /\ event_occurred' = event_occurred \ (S \cap Listed)
  /\ ready' = ready \ {list[g].fd : g \in S \cap Listed}
  /\ freed' = [t \in Threads |-> freed[t] \/ (at[t] = "latch" /\ on[t] \in S \cap Listed)]
  /\ edged' = edged \ S

-----------------------------------------------------------------------------
(* Calls.                                                                   *)

(* add_event_detect () with or without a callback (None): success.  A poll  *)
(* thread that runs before the callback is added sees the call without one, *)
(* followed by add_event_callback ().                                       *)
AddEventDetect(g, e, b, c) ==
  /\ MayAdd(g, e, b)
  /\ \E entry \in EntriesFor(g, e, b) :
       /\ list' = [list EXCEPT ![g] = [entry EXCEPT !.thread_added = TRUE]]
       /\ ready' = ready \cup {entry.fd}
  /\ epoll' = TRUE
  /\ IF thread_running THEN UNCHANGED at
     ELSE \E t \in Threads : at[t] = "none" /\ at' = [at EXCEPT ![t] = "start"]
  /\ IF c = None THEN UNCHANGED <<callbacks, py_callbacks>>
     ELSE /\ c \notin py_callbacks[g]
          /\ callbacks' = [callbacks EXCEPT ![g] = @ + 1]
          /\ py_callbacks' = [py_callbacks EXCEPT ![g] = @ \cup {c}]
  /\ UNCHANGED <<event_occurred, thread_running, fd, on, freed, pending, crashed,
                 edged, raced>>

(* epoll_create () fails: the entry stays, and nobody watches it.           *)
AddWithoutEpoll(g, e, b) ==
  /\ MayAdd(g, e, b) /\ ~epoll
  /\ \E entry \in EntriesFor(g, e, b) : list' = [list EXCEPT ![g] = entry]
  /\ UNCHANGED <<callbacks, py_callbacks, event_occurred, thread_running, epoll,
                 ready, local, crashed, edged, raced>>

(* epoll_ctl () or pthread_create () fails: the entry is removed again.     *)
AddFails(g, e, b) ==
  /\ MayAdd(g, e, b) /\ EntriesFor(g, e, b) # {}
  /\ RemoveEdgeDetect({g})
  /\ epoll' = TRUE
  /\ raced' = (raced \/ AtWork # {})
  /\ UNCHANGED <<py_callbacks, thread_running, at, fd, on, pending, crashed>>

AddEventCallback(g, c) ==
  /\ list[g] # None /\ c \notin py_callbacks[g]
  /\ callbacks' = [callbacks EXCEPT ![g] = @ + 1]
  /\ py_callbacks' = [py_callbacks EXCEPT ![g] = @ \cup {c}]
  /\ UNCHANGED <<list, event_occurred, thread_running, epoll, ready, local,
                 crashed, edged, raced>>

(* The Python callbacks go first, whether the gpio is listed or not.        *)
RemoveEventDetect(g) ==
  /\ RemoveEdgeDetect({g})
  /\ py_callbacks' = [py_callbacks EXCEPT ![g] = {}]
  /\ raced' = (raced \/ AtWork # {})
  /\ UNCHANGED <<thread_running, epoll, at, fd, on, pending, crashed>>

(* Mutant: the flag is left set when the list is empty.                     *)
Cleanup_KeepsFlag(S) ==
  /\ RemoveEdgeDetect(S)
  /\ IF Listed \subseteq S
     THEN /\ epoll' = FALSE /\ UNCHANGED thread_running
          /\ at' = [t \in Threads |-> IF at[t] = "wait" THEN "orphan" ELSE at[t]]
     ELSE UNCHANGED <<epoll, thread_running, at>>
  /\ raced' = (raced \/ AtWork # {})
  /\ UNCHANGED <<py_callbacks, fd, on, pending, crashed>>

(* event_cleanup (): of one gpio or of all.  With the last entry the epoll  *)
(* set goes; a thread that waits on it is never woken by an edge again.     *)
Cleanup(S) ==
  /\ RemoveEdgeDetect(S)
  /\ IF Listed \subseteq S
     THEN /\ epoll' = FALSE /\ thread_running' = FALSE
          /\ at' = [t \in Threads |-> IF at[t] = "wait" THEN "orphan" ELSE at[t]]
     ELSE UNCHANGED <<epoll, thread_running, at>>
  /\ raced' = (raced \/ AtWork # {})
  /\ UNCHANGED <<py_callbacks, fd, on, pending, crashed>>

EventDetected(g) ==
  /\ g \in event_occurred
  /\ event_occurred' = event_occurred \ {g}
  /\ UNCHANGED <<lists, thread_running, epoll, ready, local, crashed, edged, raced>>

-----------------------------------------------------------------------------
(* The kernel: an edge triggers the descriptor of a watched gpio, and a     *)
(* signal ends a wait with EINTR.                                           *)

Edge(g) ==
  /\ list[g] # None
  /\ ready' = IF list[g].thread_added THEN ready \cup {list[g].fd} ELSE ready
  /\ edged' = edged \cup {g}
  /\ UNCHANGED <<lists, event_occurred, thread_running, epoll, local, crashed, raced>>

shared == <<lists, event_occurred, epoll, edged>>

Move(t, from, to) == at[t] = from /\ at' = [at EXCEPT ![t] = to]

(* Mutant: every error of epoll_wait () ends the thread.                    *)
Interrupt_Ends(t) ==
  /\ Move(t, "wait", "none") /\ UNCHANGED raced
  /\ UNCHANGED <<shared, thread_running, ready, fd, on, freed, pending, crashed>>

Interrupt(t) ==
  /\ \/ Move(t, "wait", "loop") /\ UNCHANGED raced
     \/ Move(t, "orphan", "loop") /\ raced' = TRUE
  /\ UNCHANGED <<shared, thread_running, ready, fd, on, freed, pending, crashed>>

-----------------------------------------------------------------------------
(* poll_thread ().                                                          *)

Start(t) ==
  /\ Move(t, "start", "loop")
  /\ thread_running' = TRUE
  /\ UNCHANGED <<shared, ready, fd, on, freed, pending, crashed, raced>>

(* while (thread_running) epoll_wait (): it fails on a closed epoll set.    *)
Loop(t) ==
  /\ \/ thread_running /\ epoll /\ Move(t, "loop", "wait") /\ UNCHANGED thread_running
     \/ thread_running /\ ~epoll /\ Move(t, "loop", "none") /\ thread_running' = FALSE
     \/ ~thread_running /\ Move(t, "loop", "exit") /\ UNCHANGED thread_running
  /\ UNCHANGED <<shared, ready, fd, on, freed, pending, crashed, raced>>

Exit(t) ==
  /\ Move(t, "exit", "none")
  /\ thread_running' = FALSE
  /\ UNCHANGED <<shared, ready, fd, on, freed, pending, crashed, raced>>

Trigger(t, f) ==
  /\ Move(t, "wait", "read")
  /\ f \in ready /\ ready' = ready \ {f}
  /\ fd' = [fd EXCEPT ![t] = f]
  /\ UNCHANGED <<shared, thread_running, on, freed, pending, crashed, raced>>

(* The read fails on a closed descriptor, and the thread ends.              *)
ReadValue(t) ==
  /\ IF fd[t] \in OpenFds THEN Move(t, "read", "find") /\ UNCHANGED thread_running
                          ELSE Move(t, "read", "none") /\ thread_running' = FALSE
  /\ UNCHANGED <<shared, ready, fd, on, freed, pending, crashed, raced>>

(* Mutant: the first trigger is an event.                                   *)
Find_NoInitial(t) ==
  IF fd[t] \notin OpenFds
  THEN /\ at[t] = "find" /\ crashed' = TRUE
       /\ UNCHANGED <<shared, thread_running, ready, local, raced>>
  ELSE \E g \in Listed :
         /\ list[g].fd = fd[t]
         /\ \/ /\ list[g].bounce /\ list[g].called
               /\ Move(t, "find", "loop") /\ UNCHANGED <<list, on, freed>>
            \/ /\ Move(t, "find", "latch")
               /\ list' = [list EXCEPT ![g].called = TRUE]
               /\ on' = [on EXCEPT ![t] = g] /\ freed' = [freed EXCEPT ![t] = FALSE]
         /\ fd' = [fd EXCEPT ![t] = None]
         /\ UNCHANGED <<callbacks, py_callbacks, event_occurred, epoll, edged,
                        thread_running, ready, pending, crashed, raced>>

(* get_gpio_from_value_fd (), and a null pointer when there is none; the    *)
(* first trigger only shows the current state, and an edge within the       *)
(* bounce time of the last one is dropped.                                  *)
Find(t) ==
  IF fd[t] \notin OpenFds
  THEN /\ at[t] = "find" /\ crashed' = TRUE
       /\ UNCHANGED <<shared, thread_running, ready, local, raced>>
  ELSE \E g \in Listed :
         /\ list[g].fd = fd[t]
         /\ \/ /\ list[g].initial_thread
               /\ Move(t, "find", "loop")
               /\ list' = [list EXCEPT ![g].initial_thread = FALSE]
               /\ UNCHANGED <<on, freed>>
            \/ /\ ~list[g].initial_thread /\ list[g].bounce /\ list[g].called
               /\ Move(t, "find", "loop") /\ UNCHANGED <<list, on, freed>>
            \/ /\ ~list[g].initial_thread
               /\ Move(t, "find", "latch")
               /\ list' = [list EXCEPT ![g].called = TRUE]
               /\ on' = [on EXCEPT ![t] = g] /\ freed' = [freed EXCEPT ![t] = FALSE]
         /\ fd' = [fd EXCEPT ![t] = None]
         /\ UNCHANGED <<callbacks, py_callbacks, event_occurred, epoll, edged,
                        thread_running, ready, pending, crashed, raced>>

(* event_occurred[g->gpio] = 1 and run_callbacks (g->gpio): each C callback *)
(* runs all Python callbacks of the gpio.  A freed entry may name any gpio  *)
(* by now.                                                                  *)
Latch(t) ==
  /\ Move(t, "latch", "run")
  /\ \E g \in IF freed[t] THEN Gpios ELSE {on[t]} :
       /\ event_occurred' = event_occurred \cup {g}
       /\ on' = [on EXCEPT ![t] = g]
       /\ pending' = [pending EXCEPT ![t] = (1..callbacks[g]) \X py_callbacks[g]]
  /\ freed' = [freed EXCEPT ![t] = FALSE]
  /\ UNCHANGED <<lists, epoll, edged, thread_running, ready, fd, crashed, raced>>

(* The record of the callback was read before the lock was taken: when the  *)
(* callback was removed meanwhile, it is freed memory that is called.       *)
Call(t) ==
  /\ at[t] = "run"
  /\ \E call \in pending[t] :
       /\ pending' = [pending EXCEPT ![t] = @ \ {call}]
       /\ crashed' \in IF call[2] \in py_callbacks[on[t]] THEN {FALSE} ELSE BOOLEAN
  /\ UNCHANGED <<shared, thread_running, ready, at, fd, on, freed, raced>>

CallsDone(t) ==
  /\ pending[t] = {} /\ Move(t, "run", "loop")
  /\ on' = [on EXCEPT ![t] = None]
  /\ freed' = [freed EXCEPT ![t] = FALSE]
  /\ UNCHANGED <<shared, thread_running, ready, fd, pending, crashed, raced>>

PollThread(t) ==
  ~crashed /\ (\/ Start(t) \/ Loop(t) \/ Exit(t) \/ (\E f \in Fds : Trigger(t, f))
               \/ ReadValue(t) \/ Find(t) \/ Latch(t) \/ Call(t) \/ CallsDone(t))

-----------------------------------------------------------------------------
EventCalls ==
  \/ \E g \in Gpios, e \in Edges, b \in Bounces :
       \/ \E c \in Callbacks \cup {None} : AddEventDetect(g, e, b, c)
       \/ AddWithoutEpoll(g, e, b) \/ AddFails(g, e, b)
  \/ \E g \in Gpios : \/ \E c \in Callbacks : AddEventCallback(g, c)
                      \/ RemoveEventDetect(g) \/ EventDetected(g)

CleanupSets == {{g} : g \in Gpios} \cup {Gpios}

Calls == EventCalls \/ \E S \in CleanupSets : Cleanup(S)

Environment == \E g \in Gpios : Edge(g)

Next ==
  \/ ~crashed /\ (Calls \/ Environment \/ \E t \in Threads : Interrupt(t))
  \/ \E t \in Threads : PollThread(t)

(* The scheduler runs the poll threads, Python callbacks return, and epoll  *)
(* serves its triggers in the order they came: none is passed over for ever.*)
Spec ==
  /\ Init /\ [][Next]_vars
  /\ \A t \in Threads : WF_vars(PollThread(t))
  /\ \A f \in Fds :
       SF_vars(~crashed /\ \E t \in Threads : Trigger(t, f))

-----------------------------------------------------------------------------
Places == {"none", "start", "loop", "wait", "orphan", "read", "find", "latch",
           "run", "exit"}

TypeOK ==
  /\ list \in [Gpios -> Entry \cup {None}]
  /\ callbacks \in [Gpios -> Nat]
  /\ py_callbacks \in [Gpios -> SUBSET Callbacks]
  /\ event_occurred \subseteq Gpios /\ edged \subseteq Gpios
  /\ thread_running \in BOOLEAN /\ epoll \in BOOLEAN
  /\ ready \subseteq Fds
  /\ at \in [Threads -> Places]
  /\ fd \in [Threads -> Fds \cup {None}]
  /\ on \in [Threads -> Gpios \cup {None}]
  /\ freed \in [Threads -> BOOLEAN]
  /\ pending \in [Threads -> SUBSET (Nat \X Callbacks)]
  /\ crashed \in BOOLEAN /\ raced \in BOOLEAN

(* The three lists agree: two gpios never share a descriptor, whatever was  *)
(* closed and opened in between; a trigger belongs to a watched gpio; and   *)
(* without an epoll set nothing is watched.                                 *)
WatchedIsRegistered ==
  /\ \A g, h \in Listed : list[g].fd = list[h].fd => g = h
  /\ \A f \in ready : \E g \in Listed : list[g].fd = f /\ list[g].thread_added
  /\ ~epoll => \A g \in Listed : ~list[g].thread_added

(* The C list never calls for a gpio that is not listed, and never more     *)
(* often than there are Python callbacks for it: failing and repeated calls *)
(* leave no C callback behind.                                              *)
CallbackHasEntry ==
  \A g \in Gpios : /\ callbacks[g] > 0 => list[g] # None
                   /\ callbacks[g] <= Cardinality(py_callbacks[g])

(* What the calls keep: the gpio list, the epoll set and the callback lists *)
(* agree, whichever calls fail, are repeated or reuse a descriptor.         *)
ListsAgree == WatchedIsRegistered /\ CallbackHasEntry

(* Until a removal meets a poll thread at work, or a signal wakes a thread  *)
(* that a cleanup left waiting, nothing that was freed is used, and a       *)
(* watched gpio is served: some poll thread waits on the epoll set or comes *)
(* back to it.                                                              *)
ServedUnlessRaced ==
  ~raced =>
    /\ ~crashed
    /\ (\E g \in Listed : list[g].thread_added) =>
          \E t \in Threads : at[t] \notin {"none", "orphan", "exit"}

(* Until then an event that event_detected () reports had an edge, and not  *)
(* just the trigger by which epoll shows the state at the start.            *)
EventHadEdge == ~raced => event_occurred \subseteq edged

(* A trigger of a watched gpio, after the first one and without a bounce    *)
(* time, becomes an event.                                                  *)
TriggerIsLatched ==
  \A g \in Gpios :
    (list[g] # None /\ list[g].fd \in ready /\ ~list[g].initial_thread /\ ~list[g].bounce)
      ~> (g \in event_occurred \/ list[g] = None \/ raced \/ crashed)

=============================================================================
