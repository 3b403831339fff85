-------------------------- MODULE GpioEvents_proofs --------------------------
(***************************************************************************)
(* Proofs about edge detection: the types, that the gpio list and the epoll *)
(* set agree, that the C callback list agrees with the Python one, and that *)
(* watched gpios are served, and events had edges, as long as no removal    *)
(* meets a poll thread at work.                                             *)
(***************************************************************************)
EXTENDS GpioEvents, FiniteSetTheorems, TLAPS

USE EventAssumption

LEMMA EntryAdded ==
  ASSUME NEW e \in Entry
  PROVE  LET d == [e EXCEPT !.thread_added = TRUE]
         IN  /\ d \in Entry /\ d # None
             /\ d.fd = e.fd /\ d.thread_added
             /\ d.initial_thread = e.initial_thread
             /\ d.bounce = e.bounce
  BY DEF Entry

LEMMA EntryStarted ==
  ASSUME NEW e \in Entry
  PROVE  LET d == [e EXCEPT !.initial_thread = FALSE]
         IN  /\ d \in Entry /\ d # None
             /\ d.fd = e.fd /\ ~d.initial_thread
             /\ d.thread_added = e.thread_added
             /\ d.bounce = e.bounce
  BY DEF Entry

LEMMA EntryCalled ==
  ASSUME NEW e \in Entry
  PROVE  LET d == [e EXCEPT !.called = TRUE]
         IN  /\ d \in Entry /\ d # None
             /\ d.fd = e.fd
             /\ d.thread_added = e.thread_added
             /\ d.initial_thread = e.initial_thread
             /\ d.bounce = e.bounce
  BY DEF Entry

LEMMA EntryNew ==
  ASSUME NEW e \in Edges, NEW b \in Bounces, NEW f \in Fds
  PROVE  LET d == NewEntry(e, b, f)
         IN  /\ d \in Entry /\ d # None
             /\ d.fd = f /\ ~d.thread_added /\ d.initial_thread
  <1>1. NewEntry(e, b, f) \in Entry
    BY DEF Entry, NewEntry
  <1>2. /\ NewEntry(e, b, f).fd = f
        /\ ~NewEntry(e, b, f).thread_added
        /\ NewEntry(e, b, f).initial_thread
    BY DEF NewEntry
  <1>. QED
    BY <1>1, <1>2

LEMMA EntryForGpio ==
  ASSUME TypeOK, NEW g \in Gpios, NEW e \in Edges, NEW b \in Bounces,
         NEW d \in EntriesFor(g, e, b)
  PROVE  /\ d \in Entry /\ d # None /\ d.fd \in Fds
         /\ list[g] # None => d = list[g]
         /\ list[g] = None => d.fd \notin OpenFds /\ d.initial_thread /\ ~d.thread_added
  <1>1. CASE list[g] # None
    BY <1>1 DEF EntriesFor, TypeOK, Entry
  <1>2. CASE list[g] = None
    <2>1. PICK f \in Fds \ OpenFds : d = NewEntry(e, b, f)
      BY <1>2 DEF EntriesFor
    <2>. QED
      BY <1>2, <2>1, EntryNew
  <1>. QED
    BY <1>1, <1>2

LEMMA InitTypeOK == Init => TypeOK
  <1> SUFFICES ASSUME Init PROVE TypeOK
    OBVIOUS
  <1>1. /\ list \in [Gpios -> Entry \cup {None}]
        /\ callbacks \in [Gpios -> Nat]
        /\ py_callbacks \in [Gpios -> SUBSET Callbacks]
        /\ event_occurred \subseteq Gpios /\ edged \subseteq Gpios
    BY DEF Init
  <1>2. thread_running \in BOOLEAN /\ epoll \in BOOLEAN
    BY DEF Init
  <1>3. /\ ready \subseteq Fds
        /\ at \in [Threads -> Places]
        /\ fd \in [Threads -> Fds \cup {None}]
        /\ on \in [Threads -> Gpios \cup {None}]
    BY DEF Init, Places
  <1>4. /\ freed \in [Threads -> BOOLEAN]
        /\ pending \in [Threads -> SUBSET (Nat \X Callbacks)]
    BY DEF Init
  <1>5. crashed \in BOOLEAN /\ raced \in BOOLEAN
    BY DEF Init
  <1>. QED
    BY <1>1, <1>2, <1>3, <1>4, <1>5 DEF TypeOK

LEMMA AddEventDetectTypeOK ==
  ASSUME TypeOK, NEW g \in Gpios, NEW e \in Edges, NEW b \in Bounces,
         NEW c \in Callbacks \cup {None}, AddEventDetect(g, e, b, c)
  PROVE  TypeOK'
  <1>1. PICK entry \in EntriesFor(g, e, b) :
           /\ list' = [list EXCEPT ![g] = [entry EXCEPT !.thread_added = TRUE]]
           /\ ready' = ready \cup {entry.fd}
    BY DEF AddEventDetect
  <1>2. entry \in Entry /\ entry.fd \in Fds
    BY EntryForGpio
  <1>3. [entry EXCEPT !.thread_added = TRUE] \in Entry
    BY <1>2, EntryAdded
  <1>4. list' \in [Gpios -> Entry \cup {None}] /\ ready' \subseteq Fds
    BY <1>1, <1>2, <1>3 DEF TypeOK
  <1>5. at' \in [Threads -> Places]
    BY DEF AddEventDetect, TypeOK, Places
  <1>6. callbacks' \in [Gpios -> Nat] /\ py_callbacks' \in [Gpios -> SUBSET Callbacks]
    BY DEF AddEventDetect, TypeOK
  <1>7. epoll' \in BOOLEAN
    BY DEF AddEventDetect
  <1>. QED
    BY <1>4, <1>5, <1>6, <1>7 DEF AddEventDetect, TypeOK

LEMMA AddWithoutEpollTypeOK ==
  ASSUME TypeOK, NEW g \in Gpios, NEW e \in Edges, NEW b \in Bounces,
         AddWithoutEpoll(g, e, b)
  PROVE  TypeOK'
  <1>1. PICK entry \in EntriesFor(g, e, b) : list' = [list EXCEPT ![g] = entry]
    BY DEF AddWithoutEpoll
  <1>2. list' \in [Gpios -> Entry \cup {None}]
    BY <1>1, EntryForGpio DEF TypeOK
  <1>. QED
    BY <1>2 DEF AddWithoutEpoll, local, TypeOK

LEMMA AddFailsTypeOK ==
  ASSUME TypeOK, NEW g \in Gpios, NEW e \in Edges, NEW b \in Bounces, AddFails(g, e, b)
  PROVE  TypeOK'
  BY DEF AddFails, RemoveEdgeDetect, TypeOK, Places

LEMMA AddEventCallbackTypeOK ==
  ASSUME TypeOK, NEW g \in Gpios, NEW c \in Callbacks, AddEventCallback(g, c)
  PROVE  TypeOK'
  BY DEF AddEventCallback, local, TypeOK, Places

LEMMA RemoveEventDetectTypeOK ==
  ASSUME TypeOK, NEW g \in Gpios, RemoveEventDetect(g)
  PROVE  TypeOK'
  BY DEF RemoveEventDetect, RemoveEdgeDetect, TypeOK, Places

LEMMA EventDetectedTypeOK ==
  ASSUME TypeOK, NEW g \in Gpios, EventDetected(g)
  PROVE  TypeOK'
  BY DEF EventDetected, lists, local, TypeOK, Places

LEMMA CleanupTypeOK ==
  ASSUME TypeOK, NEW S \in SUBSET Gpios, Cleanup(S)
  PROVE  TypeOK'
  BY DEF Cleanup, RemoveEdgeDetect, TypeOK, Places

LEMMA EdgeTypeOK ==
  ASSUME TypeOK, NEW g \in Gpios, Edge(g)
  PROVE  TypeOK'
  <1>1. list[g] \in Entry
    BY DEF Edge, TypeOK
  <1>2. list[g].fd \in Fds
    BY <1>1 DEF Entry
  <1>3. ready' \subseteq Fds
    BY <1>2 DEF Edge, TypeOK
  <1>. QED
    BY <1>3 DEF Edge, lists, local, TypeOK

LEMMA InterruptTypeOK ==
  ASSUME TypeOK, NEW t \in Threads, Interrupt(t)
  PROVE  TypeOK'
  BY DEF Interrupt, Move, shared, lists, TypeOK, Places

LEMMA StartTypeOK ==
  ASSUME TypeOK, NEW t \in Threads, Start(t)
  PROVE  TypeOK'
  BY DEF Start, Move, shared, lists, TypeOK, Places

LEMMA LoopTypeOK ==
  ASSUME TypeOK, NEW t \in Threads, Loop(t)
  PROVE  TypeOK'
  BY DEF Loop, Move, shared, lists, TypeOK, Places

LEMMA ExitTypeOK ==
  ASSUME TypeOK, NEW t \in Threads, Exit(t)
  PROVE  TypeOK'
  BY DEF Exit, Move, shared, lists, TypeOK, Places

LEMMA TriggerTypeOK ==
  ASSUME TypeOK, NEW t \in Threads, NEW f \in Fds, Trigger(t, f)
  PROVE  TypeOK'
  BY DEF Trigger, Move, shared, lists, TypeOK, Places

LEMMA ReadValueTypeOK ==
  ASSUME TypeOK, NEW t \in Threads, ReadValue(t)
  PROVE  TypeOK'
  BY DEF ReadValue, Move, shared, lists, TypeOK, Places

(* What Find does when the descriptor is that of a listed entry.             *)
FindsEntry(t, g) ==
  /\ list[g].fd = fd[t]
  /\ \/ /\ list[g].initial_thread
        /\ Move(t, "find", "loop")
        /\ list' = [list EXCEPT ![g] = [list[g] EXCEPT !.initial_thread = FALSE]]
        /\ UNCHANGED <<on, freed>>
     \/ /\ ~list[g].initial_thread
        /\ Move(t, "find", "loop") /\ UNCHANGED <<list, on, freed>>
     \/ /\ ~list[g].initial_thread
        /\ Move(t, "find", "latch")
        /\ list' = [list EXCEPT ![g] = [list[g] EXCEPT !.called = TRUE]]
        /\ on' = [on EXCEPT ![t] = g] /\ freed' = [freed EXCEPT ![t] = FALSE]
  /\ fd' = [fd EXCEPT ![t] = None]
  /\ UNCHANGED <<callbacks, py_callbacks, event_occurred, epoll, edged,
                 thread_running, ready, pending, crashed, raced>>

LEMMA FindFinds ==
  ASSUME NEW t \in Threads, Find(t), fd[t] \in OpenFds
  PROVE  \E g \in Listed : FindsEntry(t, g)
  BY DEF Find, FindsEntry

(* The entry it finds stays, with its descriptor and its trigger.            *)
LEMMA FindKeepsEntries ==
  ASSUME TypeOK, NEW t \in Threads, NEW g \in Listed, FindsEntry(t, g)
  PROVE  /\ list' \in [Gpios -> Entry \cup {None}]
         /\ Listed' = Listed
         /\ \A h \in Listed : /\ list'[h].fd = list[h].fd
                              /\ list'[h].thread_added = list[h].thread_added
                              /\ list'[h].bounce = list[h].bounce
  <1>1. g \in Gpios /\ list[g] \in Entry
    BY DEF Listed, TypeOK
  <1>2. CASE UNCHANGED list
    BY <1>2 DEF Listed, TypeOK
  <1>3. CASE list' = [list EXCEPT ![g] = [list[g] EXCEPT !.initial_thread = FALSE]]
    BY <1>1, <1>3, EntryStarted DEF Listed, TypeOK
  <1>4. CASE list' = [list EXCEPT ![g] = [list[g] EXCEPT !.called = TRUE]]
    BY <1>1, <1>4, EntryCalled DEF Listed, TypeOK
  <1>. QED
    BY <1>2, <1>3, <1>4 DEF FindsEntry

LEMMA FindTypeOK ==
  ASSUME TypeOK, NEW t \in Threads, Find(t)
  PROVE  TypeOK'
  <1>1. CASE fd[t] \notin OpenFds
    <2>1. crashed' = TRUE /\ UNCHANGED <<shared, thread_running, ready, local, raced>>
      BY <1>1 DEF Find
    <2>2. crashed' \in BOOLEAN
      BY <2>1
    <2>. QED
      BY <2>1, <2>2 DEF shared, lists, local, TypeOK
  <1>2. CASE fd[t] \in OpenFds
    <2>1. PICK g \in Listed : FindsEntry(t, g)
      BY <1>2, FindFinds
    <2>2. list' \in [Gpios -> Entry \cup {None}]
      BY <2>1, FindKeepsEntries
    <2>3. at' \in [Threads -> Places] /\ fd' \in [Threads -> Fds \cup {None}]
      BY <2>1 DEF FindsEntry, Move, TypeOK, Places
    <2>4. on' \in [Threads -> Gpios \cup {None}]
      BY <2>1 DEF FindsEntry, Listed, TypeOK
    <2>5. freed' \in [Threads -> BOOLEAN]
      BY <2>1 DEF FindsEntry, TypeOK
    <2>. QED
      BY <2>1, <2>2, <2>3, <2>4, <2>5 DEF FindsEntry, TypeOK
  <1>. QED
    BY <1>1, <1>2

LEMMA LatchTypeOK ==
  ASSUME TypeOK, NEW t \in Threads, Latch(t), on[t] \in Gpios
  PROVE  TypeOK'
  <1>1. PICK g \in Gpios :
           /\ event_occurred' = event_occurred \cup {g}
           /\ on' = [on EXCEPT ![t] = g]
           /\ pending' = [pending EXCEPT ![t] = (1..callbacks[g]) \X py_callbacks[g]]
    BY DEF Latch
  <1>2. (1..callbacks[g]) \X py_callbacks[g] \subseteq Nat \X Callbacks
    BY DEF TypeOK
  <1>3. pending' \in [Threads -> SUBSET (Nat \X Callbacks)]
    BY <1>1, <1>2 DEF TypeOK
  <1>4. at' \in [Threads -> Places]
    BY DEF Latch, Move, TypeOK, Places
  <1>5. freed' \in [Threads -> BOOLEAN]
    BY DEF Latch, TypeOK
  <1>. QED
    BY <1>1, <1>3, <1>4, <1>5 DEF Latch, lists, TypeOK

LEMMA CallTypeOK ==
  ASSUME TypeOK, NEW t \in Threads, Call(t)
  PROVE  TypeOK'
  <1>1. pending' \in [Threads -> SUBSET (Nat \X Callbacks)]
    BY DEF Call, TypeOK
  <1>2. crashed' \in BOOLEAN
    BY DEF Call
  <1>. QED
    BY <1>1, <1>2 DEF Call, shared, lists, TypeOK

LEMMA CallsDoneTypeOK ==
  ASSUME TypeOK, NEW t \in Threads, CallsDone(t)
  PROVE  TypeOK'
  BY DEF CallsDone, Move, shared, lists, TypeOK, Places

-----------------------------------------------------------------------------
(* A thread that works on an entry has the gpio of one: Find stored it.      *)
HoldsGpio == \A t \in Threads : at[t] \in {"latch", "run"} => on[t] \in Gpios

(* The Python callbacks of a gpio can be counted.                            *)
CallbacksFinite == \A g \in Gpios : IsFiniteSet(py_callbacks[g])

IInv == TypeOK /\ HoldsGpio /\ WatchedIsRegistered /\ CallbacksFinite /\ CallbackHasEntry

-----------------------------------------------------------------------------
LEMMA CallsTypeOK ==
  ASSUME TypeOK, Calls
  PROVE  TypeOK'
  <1>1. ASSUME NEW g \in Gpios, NEW e \in Edges, NEW b \in Bounces,
               \/ \E c \in Callbacks \cup {None} : AddEventDetect(g, e, b, c)
               \/ AddWithoutEpoll(g, e, b)
               \/ AddFails(g, e, b)
        PROVE  TypeOK'
    BY <1>1, AddEventDetectTypeOK, AddWithoutEpollTypeOK, AddFailsTypeOK
  <1>2. ASSUME NEW g \in Gpios, \/ \E c \in Callbacks : AddEventCallback(g, c)
                                \/ RemoveEventDetect(g)
                                \/ EventDetected(g)
        PROVE  TypeOK'
    BY <1>2, AddEventCallbackTypeOK, RemoveEventDetectTypeOK, EventDetectedTypeOK
  <1>3. ASSUME NEW S \in {{g} : g \in Gpios} \cup {Gpios}, Cleanup(S)
        PROVE  TypeOK'
    <2>1. S \in SUBSET Gpios
      OBVIOUS
    <2>. QED
      BY <1>3, <2>1, CleanupTypeOK
  <1>. QED
    BY <1>1, <1>2, <1>3 DEF Calls, EventCalls, CleanupSets

LEMMA PollThreadTypeOK ==
  ASSUME TypeOK, HoldsGpio, NEW t \in Threads, PollThread(t)
  PROVE  TypeOK'
  <1>1. CASE Latch(t)
    <2>1. on[t] \in Gpios
      BY <1>1 DEF Latch, Move, HoldsGpio
    <2>. QED
      BY <1>1, <2>1, LatchTypeOK
  <1>2. CASE \E f \in Fds : Trigger(t, f)
    BY <1>2, TriggerTypeOK
  <1>3. CASE Start(t) \/ Loop(t) \/ Exit(t)
    BY <1>3, StartTypeOK, LoopTypeOK, ExitTypeOK
  <1>4. CASE ReadValue(t) \/ Find(t) \/ Call(t) \/ CallsDone(t)
    BY <1>4, ReadValueTypeOK, FindTypeOK, CallTypeOK, CallsDoneTypeOK
  <1>. QED
    BY <1>1, <1>2, <1>3, <1>4 DEF PollThread

LEMMA NextTypeOK ==
  ASSUME TypeOK, HoldsGpio, [Next]_vars
  PROVE  TypeOK'
  <1>1. CASE Calls
    BY <1>1, CallsTypeOK
  <1>2. CASE Environment
    BY <1>2, EdgeTypeOK DEF Environment
  <1>3. CASE \E t \in Threads : Interrupt(t)
    BY <1>3, InterruptTypeOK
  <1>4. CASE \E t \in Threads : PollThread(t)
    BY <1>4, PollThreadTypeOK
  <1>5. CASE UNCHANGED vars
    BY <1>5 DEF vars, lists, local, TypeOK
  <1>. QED
    BY <1>1, <1>2, <1>3, <1>4, <1>5 DEF Next

LEMMA NextHoldsGpio ==
  ASSUME TypeOK, HoldsGpio, [Next]_vars
  PROVE  HoldsGpio'
  <1>1. ASSUME NEW g \in Gpios, NEW e \in Edges, NEW b \in Bounces,
               \/ \E c \in Callbacks \cup {None} : AddEventDetect(g, e, b, c)
               \/ AddWithoutEpoll(g, e, b)
               \/ AddFails(g, e, b)
        PROVE  HoldsGpio'
    <2>1. CASE \E c \in Callbacks \cup {None} : AddEventDetect(g, e, b, c)
      BY <2>1 DEF AddEventDetect, HoldsGpio, TypeOK
    <2>2. CASE AddWithoutEpoll(g, e, b) \/ AddFails(g, e, b)
      BY <2>2 DEF AddWithoutEpoll, AddFails, local, HoldsGpio
    <2>. QED
      BY <1>1, <2>1, <2>2
  <1>2. ASSUME NEW g \in Gpios, \/ \E c \in Callbacks : AddEventCallback(g, c)
                                \/ RemoveEventDetect(g)
                                \/ EventDetected(g)
        PROVE  HoldsGpio'
    BY <1>2 DEF AddEventCallback, RemoveEventDetect, EventDetected, local, HoldsGpio
  <1>3. ASSUME NEW S \in {{g} : g \in Gpios} \cup {Gpios}, Cleanup(S)
        PROVE  HoldsGpio'
    BY <1>3 DEF Cleanup, HoldsGpio, TypeOK
  <1>4. CASE Environment
    BY <1>4 DEF Environment, Edge, local, HoldsGpio
  <1>5. ASSUME NEW t \in Threads, Interrupt(t)
        PROVE  HoldsGpio'
    BY <1>5 DEF Interrupt, Move, HoldsGpio, TypeOK
  <1>6. ASSUME NEW t \in Threads, PollThread(t)
        PROVE  HoldsGpio'
    <2>1. CASE Start(t) \/ Loop(t) \/ Exit(t)
      BY <2>1 DEF Start, Loop, Exit, Move, HoldsGpio, TypeOK
    <2>2. CASE (\E f \in Fds : Trigger(t, f)) \/ ReadValue(t)
      BY <2>2 DEF Trigger, ReadValue, Move, HoldsGpio, TypeOK
    <2>3. CASE Find(t) /\ fd[t] \in OpenFds
      <3>1. PICK g \in Listed : FindsEntry(t, g)
        BY <2>3, FindFinds
      <3>. QED
        BY <3>1 DEF FindsEntry, Listed, Move, HoldsGpio, TypeOK
    <2>4. CASE Find(t) /\ fd[t] \notin OpenFds
      BY <2>4 DEF Find, local, HoldsGpio
    <2>5. CASE Latch(t)
      <3>1. on[t] \in Gpios
        BY <2>5 DEF Latch, Move, HoldsGpio
      <3>. QED
        BY <2>5, <3>1 DEF Latch, Move, HoldsGpio, TypeOK
    <2>6. CASE Call(t) \/ CallsDone(t)
      BY <2>6 DEF Call, CallsDone, Move, HoldsGpio, TypeOK
    <2>. QED
      BY <1>6, <2>1, <2>2, <2>3, <2>4, <2>5, <2>6 DEF PollThread
  <1>7. CASE UNCHANGED vars
    BY <1>7 DEF vars, local, HoldsGpio
  <1>. QED
    BY <1>1, <1>2, <1>3, <1>4, <1>5, <1>6, <1>7 DEF Next, Calls, EventCalls, CleanupSets

-----------------------------------------------------------------------------
(* Steps that leave the list and the epoll set, or only use triggers up,     *)
(* keep the two in agreement.                                                *)
Unwatched == UNCHANGED <<list, epoll>> /\ ready' \subseteq ready

LEMMA UnwatchedKeepsRegistered ==
  ASSUME WatchedIsRegistered, Unwatched
  PROVE  WatchedIsRegistered'
  BY DEF Unwatched, WatchedIsRegistered, Listed

LEMMA AddEventDetectRegistered ==
  ASSUME TypeOK, TypeOK', WatchedIsRegistered, NEW g \in Gpios, NEW e \in Edges,
         NEW b \in Bounces, NEW c \in Callbacks \cup {None}, AddEventDetect(g, e, b, c)
  PROVE  WatchedIsRegistered'
  <1>1. PICK entry \in EntriesFor(g, e, b) :
           /\ list' = [list EXCEPT ![g] = [entry EXCEPT !.thread_added = TRUE]]
           /\ ready' = ready \cup {entry.fd}
    BY DEF AddEventDetect
  <1> DEFINE d == [entry EXCEPT !.thread_added = TRUE]
  <1>2. /\ entry \in Entry /\ entry.fd \in Fds
        /\ list[g] # None => entry = list[g]
        /\ list[g] = None => entry.fd \notin OpenFds
    BY EntryForGpio
  <1>3. d \in Entry /\ d # None /\ d.fd = entry.fd /\ d.thread_added
    BY <1>2, EntryAdded
  <1> HIDE DEF d
  <1>4. list' = [list EXCEPT ![g] = d]
    BY <1>1 DEF d
  <1>5. Listed' = Listed \cup {g}
    BY <1>3, <1>4 DEF Listed, TypeOK
  <1>6. \A h \in Listed : h # g => list[h].fd # entry.fd
    BY <1>2 DEF WatchedIsRegistered, Listed, OpenFds
  <1>7. \A h, i \in Listed' : list'[h].fd = list'[i].fd => h = i
    BY <1>3, <1>4, <1>5, <1>6 DEF WatchedIsRegistered, Listed, TypeOK
  <1>8. \A f \in ready' : \E h \in Listed' : list'[h].fd = f /\ list'[h].thread_added
    BY <1>1, <1>2, <1>3, <1>4, <1>5 DEF WatchedIsRegistered, Listed, TypeOK
  <1>9. epoll'
    BY DEF AddEventDetect
  <1>. QED
    BY <1>7, <1>8, <1>9 DEF WatchedIsRegistered

LEMMA AddWithoutEpollRegistered ==
  ASSUME TypeOK, WatchedIsRegistered, NEW g \in Gpios, NEW e \in Edges,
         NEW b \in Bounces, AddWithoutEpoll(g, e, b)
  PROVE  WatchedIsRegistered'
  <1>1. PICK entry \in EntriesFor(g, e, b) : list' = [list EXCEPT ![g] = entry]
    BY DEF AddWithoutEpoll
  <1>2. /\ entry \in Entry /\ entry # None
        /\ list[g] # None => entry = list[g]
        /\ list[g] = None => entry.fd \notin OpenFds /\ ~entry.thread_added
    BY EntryForGpio
  <1>3. Listed' = Listed \cup {g}
    BY <1>1, <1>2 DEF Listed, TypeOK
  <1>4. CASE list[g] # None
    <2>1. list' = list
      BY <1>1, <1>2, <1>4 DEF TypeOK
    <2>. QED
      BY <2>1, UnwatchedKeepsRegistered DEF AddWithoutEpoll, Unwatched
  <1>5. CASE list[g] = None
    <2>1. \A h \in Listed : h # g /\ list[h].fd # entry.fd
      BY <1>2, <1>5 DEF OpenFds, Listed
    <2>2. \A h, i \in Listed' : list'[h].fd = list'[i].fd => h = i
      BY <1>1, <1>3, <2>1 DEF WatchedIsRegistered, Listed, TypeOK
    <2>3. \A h \in Listed : list'[h] = list[h]
      BY <1>1, <2>1 DEF Listed, TypeOK
    <2>4. \A f \in ready' : \E h \in Listed' : list'[h].fd = f /\ list'[h].thread_added
      BY <1>3, <2>3 DEF AddWithoutEpoll, WatchedIsRegistered
    <2>5. ~epoll' => \A h \in Listed' : ~list'[h].thread_added
      BY <1>1, <1>2, <1>3, <1>5, <2>3 DEF AddWithoutEpoll, WatchedIsRegistered, TypeOK
    <2>. QED
      BY <2>2, <2>4, <2>5 DEF WatchedIsRegistered
  <1>. QED
    BY <1>4, <1>5

(* A removal takes the entry and its trigger together.                       *)
LEMMA RemovalRegistered ==
  ASSUME TypeOK, WatchedIsRegistered, NEW S \in SUBSET Gpios, RemoveEdgeDetect(S),
         epoll' \in BOOLEAN, ~epoll' => ~epoll \/ Listed \subseteq S
  PROVE  WatchedIsRegistered'
  <1>1. Listed' = Listed \ S /\ \A h \in Listed' : list'[h] = list[h]
    BY DEF RemoveEdgeDetect, Listed, TypeOK
  <1>2. \A h, i \in Listed' : list'[h].fd = list'[i].fd => h = i
    BY <1>1 DEF WatchedIsRegistered
  <1>3. ASSUME NEW f \in ready'
        PROVE  \E h \in Listed' : list'[h].fd = f /\ list'[h].thread_added
    <2>1. f \in ready /\ f \notin {list[h].fd : h \in S \cap Listed}
      BY <1>3 DEF RemoveEdgeDetect
    <2>2. PICK h \in Listed : list[h].fd = f /\ list[h].thread_added
      BY <2>1 DEF WatchedIsRegistered
    <2>3. h \in Listed'
      BY <1>1, <2>1, <2>2
    <2>. QED
      BY <1>1, <2>2, <2>3
  <1>4. ~epoll' => \A h \in Listed' : ~list'[h].thread_added
    BY <1>1 DEF WatchedIsRegistered
  <1>. QED
    BY <1>2, <1>3, <1>4 DEF WatchedIsRegistered

LEMMA EdgeRegistered ==
  ASSUME WatchedIsRegistered, NEW g \in Gpios, Edge(g)
  PROVE  WatchedIsRegistered'
  <1>1. UNCHANGED <<list, epoll>> /\ Listed' = Listed /\ g \in Listed
    BY DEF Edge, lists, Listed
  <1>2. \A f \in ready' : \E h \in Listed : list[h].fd = f /\ list[h].thread_added
    BY <1>1 DEF Edge, WatchedIsRegistered
  <1>. QED
    BY <1>1, <1>2 DEF WatchedIsRegistered

LEMMA CallsRegistered ==
  ASSUME TypeOK, TypeOK', WatchedIsRegistered, Calls
  PROVE  WatchedIsRegistered'
  <1>1. ASSUME NEW g \in Gpios, NEW e \in Edges, NEW b \in Bounces,
               \/ \E c \in Callbacks \cup {None} : AddEventDetect(g, e, b, c)
               \/ AddWithoutEpoll(g, e, b)
               \/ AddFails(g, e, b)
        PROVE  WatchedIsRegistered'
    <2>1. CASE AddFails(g, e, b)
      <3>1. RemoveEdgeDetect({g}) /\ epoll'
        BY <2>1 DEF AddFails
      <3>2. epoll' \in BOOLEAN /\ {g} \in SUBSET Gpios
        BY DEF TypeOK
      <3>. QED
        BY <3>1, <3>2, RemovalRegistered
    <2>. QED
      BY <1>1, <2>1, AddEventDetectRegistered, AddWithoutEpollRegistered
  <1>2. ASSUME NEW g \in Gpios, \/ \E c \in Callbacks : AddEventCallback(g, c)
                                \/ RemoveEventDetect(g)
                                \/ EventDetected(g)
        PROVE  WatchedIsRegistered'
    <2>1. CASE RemoveEventDetect(g)
      <3>1. RemoveEdgeDetect({g}) /\ epoll' = epoll
        BY <2>1 DEF RemoveEventDetect
      <3>2. epoll' \in BOOLEAN /\ {g} \in SUBSET Gpios
        BY DEF TypeOK
      <3>. QED
        BY <3>1, <3>2, RemovalRegistered
    <2>2. CASE (\E c \in Callbacks : AddEventCallback(g, c)) \/ EventDetected(g)
      <3>1. Unwatched
        BY <2>2 DEF AddEventCallback, EventDetected, lists, local, Unwatched
      <3>. QED
        BY <3>1, UnwatchedKeepsRegistered
    <2>. QED
      BY <1>2, <2>1, <2>2
  <1>3. ASSUME NEW S \in {{g} : g \in Gpios} \cup {Gpios}, Cleanup(S)
        PROVE  WatchedIsRegistered'
    <2>1. S \in SUBSET Gpios /\ epoll' \in BOOLEAN
      BY DEF TypeOK
    <2>2. RemoveEdgeDetect(S) /\ (~epoll' => ~epoll \/ Listed \subseteq S)
      BY <1>3 DEF Cleanup
    <2>. QED
      BY <2>1, <2>2, RemovalRegistered
  <1>. QED
    BY <1>1, <1>2, <1>3 DEF Calls, EventCalls, CleanupSets

LEMMA PollThreadRegistered ==
  ASSUME TypeOK, WatchedIsRegistered, NEW t \in Threads, PollThread(t)
  PROVE  WatchedIsRegistered'
  <1>1. CASE Find(t) /\ fd[t] \in OpenFds
    <2>1. PICK g \in Listed : FindsEntry(t, g)
      BY <1>1, FindFinds
    <2>2. /\ Listed' = Listed
          /\ \A h \in Listed : /\ list'[h].fd = list[h].fd
                               /\ list'[h].thread_added = list[h].thread_added
      BY <2>1, FindKeepsEntries
    <2>3. UNCHANGED <<ready, epoll>>
      BY <2>1 DEF FindsEntry
    <2>. QED
      BY <2>2, <2>3 DEF WatchedIsRegistered
  <1>2. CASE Find(t) /\ fd[t] \notin OpenFds
    <2>1. Unwatched
      BY <1>2 DEF Find, shared, lists, Unwatched
    <2>. QED
      BY <2>1, UnwatchedKeepsRegistered
  <1>3. CASE \/ Start(t) \/ Loop(t) \/ Exit(t) \/ (\E f \in Fds : Trigger(t, f))
             \/ ReadValue(t) \/ Latch(t) \/ Call(t) \/ CallsDone(t)
    <2>1. Unwatched
      BY <1>3 DEF Start, Loop, Exit, Trigger, ReadValue, Latch, Call, CallsDone,
                  shared, lists, Unwatched
    <2>. QED
      BY <2>1, UnwatchedKeepsRegistered
  <1>. QED
    BY <1>1, <1>2, <1>3 DEF PollThread

LEMMA NextRegistered ==
  ASSUME TypeOK, TypeOK', WatchedIsRegistered, [Next]_vars
  PROVE  WatchedIsRegistered'
  <1>1. CASE (\E t \in Threads : Interrupt(t)) \/ UNCHANGED vars
    <2>1. Unwatched
      BY <1>1 DEF Interrupt, shared, vars, lists, Unwatched
    <2>. QED
      BY <2>1, UnwatchedKeepsRegistered
  <1>2. CASE Environment
    BY <1>2, EdgeRegistered DEF Environment
  <1>. QED
    BY <1>1, <1>2, CallsRegistered, PollThreadRegistered DEF Next

-----------------------------------------------------------------------------
(* The two callback lists.  One more Python callback is one more to count.   *)
LEMMA CallbackAdded ==
  ASSUME TypeOK, CallbacksFinite, CallbackHasEntry, NEW g \in Gpios, NEW c,
         c \notin py_callbacks[g],
         callbacks' = [callbacks EXCEPT ![g] = @ + 1],
         py_callbacks' = [py_callbacks EXCEPT ![g] = @ \cup {c}],
         list'[g] # None, \A h \in Listed : list'[h] # None
  PROVE  CallbacksFinite' /\ CallbackHasEntry'
  <1>1. /\ IsFiniteSet(py_callbacks[g]) /\ Cardinality(py_callbacks[g]) \in Nat
        /\ callbacks[g] \in Nat /\ callbacks[g] <= Cardinality(py_callbacks[g])
    BY FS_CardinalityType DEF CallbacksFinite, CallbackHasEntry, TypeOK
  <1>2. /\ IsFiniteSet(py_callbacks[g] \cup {c})
        /\ Cardinality(py_callbacks[g] \cup {c}) = Cardinality(py_callbacks[g]) + 1
    BY <1>1, FS_AddElement
  <1>3. py_callbacks'[g] = py_callbacks[g] \cup {c} /\ callbacks'[g] = callbacks[g] + 1
    BY DEF TypeOK
  <1>4. \A h \in Gpios \ {g} : /\ py_callbacks'[h] = py_callbacks[h]
                               /\ callbacks'[h] = callbacks[h]
    BY DEF TypeOK
  <1>5. CallbacksFinite'
    BY <1>2, <1>3, <1>4 DEF CallbacksFinite
  <1>6. ASSUME NEW h \in Gpios
        PROVE  /\ callbacks'[h] > 0 => list'[h] # None
               /\ callbacks'[h] <= Cardinality(py_callbacks'[h])
    <2>1. CASE h = g
      <3>1. callbacks'[g] <= Cardinality(py_callbacks'[g])
        <4> DEFINE n == Cardinality(py_callbacks[g])
        <4>1. callbacks[g] + 1 <= n + 1
          BY <1>1
        <4>2. Cardinality(py_callbacks'[g]) = n + 1
          BY <1>2, <1>3
        <4>. QED
          BY <1>3, <4>1, <4>2
      <3>. QED
        BY <2>1, <3>1
    <2>2. CASE h # g
      BY <1>4, <2>2 DEF CallbackHasEntry, Listed
    <2>. QED
      BY <2>1, <2>2
  <1>. QED
    BY <1>5, <1>6 DEF CallbackHasEntry

(* A removal leaves no C callback of its gpios: one that is not listed has   *)
(* none to begin with.                                                       *)
LEMMA RemovalCallbacks ==
  ASSUME TypeOK, CallbacksFinite, CallbackHasEntry, NEW S \in SUBSET Gpios,
         RemoveEdgeDetect(S), NEW P \in SUBSET S,
         py_callbacks' = [g \in Gpios |-> IF g \in P THEN {} ELSE py_callbacks[g]]
  PROVE  CallbacksFinite' /\ CallbackHasEntry'
  <1>1. ASSUME NEW g \in Gpios
        PROVE  IsFiniteSet(py_callbacks'[g])
    BY FS_EmptySet DEF CallbacksFinite
  <1>2. ASSUME NEW g \in Gpios
        PROVE  /\ callbacks'[g] > 0 => list'[g] # None
               /\ callbacks'[g] <= Cardinality(py_callbacks'[g])
    <2>1. callbacks[g] \in Nat /\ Cardinality(py_callbacks'[g]) \in Nat
      BY <1>1, FS_CardinalityType DEF TypeOK
    <2>2. CASE g \in S
      <3>1. callbacks'[g] = 0
        BY <2>1, <2>2 DEF RemoveEdgeDetect, CallbackHasEntry, Listed
      <3>. QED
        BY <2>1, <3>1
    <2>3. CASE g \notin S
      <3>1. /\ callbacks'[g] = callbacks[g] /\ list'[g] = list[g]
            /\ py_callbacks'[g] = py_callbacks[g]
        BY <2>3 DEF RemoveEdgeDetect
      <3>. QED
        BY <3>1 DEF CallbackHasEntry
    <2>. QED
      BY <2>2, <2>3
  <1>. QED
    BY <1>1, <1>2 DEF CallbacksFinite, CallbackHasEntry

(* Steps that change neither callback list and unlist nothing.               *)
LEMMA SameCallbacks ==
  ASSUME CallbacksFinite, CallbackHasEntry, UNCHANGED <<callbacks, py_callbacks>>,
         \A h \in Listed : list'[h] # None
  PROVE  CallbacksFinite' /\ CallbackHasEntry'
  BY DEF CallbacksFinite, CallbackHasEntry, Listed

LEMMA CallsCallbacks ==
  ASSUME TypeOK, CallbacksFinite, CallbackHasEntry, Calls
  PROVE  CallbacksFinite' /\ CallbackHasEntry'
  <1>1. ASSUME NEW g \in Gpios, NEW e \in Edges, NEW b \in Bounces,
               NEW c \in Callbacks \cup {None}, AddEventDetect(g, e, b, c)
        PROVE  CallbacksFinite' /\ CallbackHasEntry'
    <2>1. PICK entry \in EntriesFor(g, e, b) :
             list' = [list EXCEPT ![g] = [entry EXCEPT !.thread_added = TRUE]]
      BY <1>1 DEF AddEventDetect
    <2> DEFINE d == [entry EXCEPT !.thread_added = TRUE]
    <2>2. d # None
      BY EntryForGpio, EntryAdded
    <2> HIDE DEF d
    <2>3. list' = [list EXCEPT ![g] = d]
      BY <2>1 DEF d
    <2>4. list'[g] # None /\ \A h \in Listed : list'[h] # None
      BY <2>2, <2>3 DEF Listed, TypeOK
    <2>5. CASE c = None
      BY <1>1, <2>4, <2>5, SameCallbacks DEF AddEventDetect
    <2>6. CASE c # None
      <3>1. /\ c \notin py_callbacks[g]
            /\ callbacks' = [callbacks EXCEPT ![g] = @ + 1]
            /\ py_callbacks' = [py_callbacks EXCEPT ![g] = @ \cup {c}]
        BY <1>1, <2>6 DEF AddEventDetect
      <3>. QED
        BY <2>4, <3>1, CallbackAdded
    <2>. QED
      BY <2>5, <2>6
  <1>2. ASSUME NEW g \in Gpios, NEW e \in Edges, NEW b \in Bounces,
               AddWithoutEpoll(g, e, b)
        PROVE  CallbacksFinite' /\ CallbackHasEntry'
    <2>1. PICK entry \in EntriesFor(g, e, b) : list' = [list EXCEPT ![g] = entry]
      BY <1>2 DEF AddWithoutEpoll
    <2>2. \A h \in Listed : list'[h] # None
      BY <2>1, EntryForGpio DEF Listed, TypeOK
    <2>. QED
      BY <1>2, <2>2, SameCallbacks DEF AddWithoutEpoll
  <1>3. ASSUME NEW g \in Gpios, NEW e \in Edges, NEW b \in Bounces, AddFails(g, e, b)
        PROVE  CallbacksFinite' /\ CallbackHasEntry'
    <2>1. RemoveEdgeDetect({g}) /\ {} \in SUBSET {g}
      BY <1>3 DEF AddFails
    <2>2. py_callbacks' = [h \in Gpios |-> IF h \in {} THEN {} ELSE py_callbacks[h]]
      BY <1>3 DEF AddFails, TypeOK
    <2>. QED
      BY <2>1, <2>2, RemovalCallbacks
  <1>4. ASSUME NEW g \in Gpios, NEW c \in Callbacks, AddEventCallback(g, c)
        PROVE  CallbacksFinite' /\ CallbackHasEntry'
    <2>1. list'[g] # None /\ \A h \in Listed : list'[h] # None
      BY <1>4 DEF AddEventCallback, Listed
    <2>. QED
      BY <1>4, <2>1, CallbackAdded DEF AddEventCallback
  <1>5. ASSUME NEW g \in Gpios, RemoveEventDetect(g)
        PROVE  CallbacksFinite' /\ CallbackHasEntry'
    <2>1. RemoveEdgeDetect({g}) /\ {g} \in SUBSET {g} /\ {g} \in SUBSET Gpios
      BY <1>5 DEF RemoveEventDetect
    <2>2. py_callbacks' = [h \in Gpios |-> IF h \in {g} THEN {} ELSE py_callbacks[h]]
      BY <1>5 DEF RemoveEventDetect, TypeOK
    <2>. QED
      BY <2>1, <2>2, RemovalCallbacks
  <1>6. ASSUME NEW g \in Gpios, EventDetected(g)
        PROVE  CallbacksFinite' /\ CallbackHasEntry'
    BY <1>6, SameCallbacks DEF EventDetected, lists, Listed
  <1>7. ASSUME NEW S \in {{g} : g \in Gpios} \cup {Gpios}, Cleanup(S)
        PROVE  CallbacksFinite' /\ CallbackHasEntry'
    <2>1. RemoveEdgeDetect(S) /\ {} \in SUBSET S /\ S \in SUBSET Gpios
      BY <1>7 DEF Cleanup
    <2>2. py_callbacks' = [h \in Gpios |-> IF h \in {} THEN {} ELSE py_callbacks[h]]
      BY <1>7 DEF Cleanup, TypeOK
    <2>. QED
      BY <2>1, <2>2, RemovalCallbacks
  <1>. QED
    BY <1>1, <1>2, <1>3, <1>4, <1>5, <1>6, <1>7 DEF Calls, EventCalls, CleanupSets

LEMMA NextCallbacks ==
  ASSUME TypeOK, CallbacksFinite, CallbackHasEntry, [Next]_vars
  PROVE  CallbacksFinite' /\ CallbackHasEntry'
  <1>1. CASE Environment \/ (\E t \in Threads : Interrupt(t)) \/ UNCHANGED vars
    <2>1. UNCHANGED lists
      BY <1>1 DEF Environment, Edge, Interrupt, shared, vars
    <2>. QED
      BY <2>1, SameCallbacks DEF lists, Listed
  <1>2. ASSUME NEW t \in Threads, PollThread(t)
        PROVE  CallbacksFinite' /\ CallbackHasEntry'
    <2>1. CASE Find(t) /\ fd[t] \in OpenFds
      <3>1. PICK g \in Listed : FindsEntry(t, g)
        BY <2>1, FindFinds
      <3>2. \A h \in Listed : list'[h] # None
        BY <3>1, FindKeepsEntries DEF Listed
      <3>. QED
        BY <3>1, <3>2, SameCallbacks DEF FindsEntry
    <2>2. CASE \/ Start(t) \/ Loop(t) \/ Exit(t) \/ (\E f \in Fds : Trigger(t, f))
               \/ ReadValue(t) \/ (Find(t) /\ fd[t] \notin OpenFds)
               \/ Latch(t) \/ Call(t) \/ CallsDone(t)
      <3>1. UNCHANGED lists
        BY <2>2 DEF Start, Loop, Exit, Trigger, ReadValue, Find, Latch, Call, CallsDone,
                    shared
      <3>. QED
        BY <3>1, SameCallbacks DEF lists, Listed
    <2>. QED
      BY <1>2, <2>1, <2>2 DEF PollThread
  <1>. QED
    BY <1>1, <1>2, CallsCallbacks DEF Next

-----------------------------------------------------------------------------
LEMMA InitIInv == Init => IInv
  <1> SUFFICES ASSUME Init PROVE IInv
    OBVIOUS
  <1>1. Listed = {}
    BY DEF Init, Listed
  <1>2. HoldsGpio
    BY DEF Init, HoldsGpio
  <1>3. WatchedIsRegistered
    BY <1>1 DEF Init, WatchedIsRegistered
  <1>4. CallbacksFinite /\ CallbackHasEntry
    BY FS_EmptySet DEF Init, CallbacksFinite, CallbackHasEntry
  <1>. QED
    BY InitTypeOK, <1>2, <1>3, <1>4 DEF IInv

LEMMA NextIInv == IInv /\ [Next]_vars => IInv'
  <1> SUFFICES ASSUME IInv, [Next]_vars PROVE IInv'
    OBVIOUS
  <1>1. TypeOK'
    BY NextTypeOK DEF IInv
  <1>2. HoldsGpio'
    BY NextHoldsGpio DEF IInv
  <1>3. WatchedIsRegistered'
    BY <1>1, NextRegistered DEF IInv
  <1>4. CallbacksFinite' /\ CallbackHasEntry'
    BY NextCallbacks DEF IInv
  <1>. QED
    BY <1>1, <1>2, <1>3, <1>4 DEF IInv

(* In every state the variables have their types.                            *)
THEOREM TypeOKAlways == Spec => []TypeOK
  <1>1. IInv => TypeOK
    BY DEF IInv
  <1>. QED
    BY <1>1, InitIInv, NextIInv, PTL DEF Spec

(* The gpio list and the epoll set agree: two gpios never share a            *)
(* descriptor, a trigger is that of a watched gpio, and nothing is watched   *)
(* without an epoll set.                                                     *)
THEOREM WatchedIsRegisteredAlways == Spec => []WatchedIsRegistered
  <1>1. IInv => WatchedIsRegistered
    BY DEF IInv
  <1>. QED
    BY <1>1, InitIInv, NextIInv, PTL DEF Spec

(* A gpio with a C callback is listed, and it has no more of them than       *)
(* Python callbacks.                                                         *)
THEOREM CallbackHasEntryAlways == Spec => []CallbackHasEntry
  <1>1. IInv => CallbackHasEntry
    BY DEF IInv
  <1>. QED
    BY <1>1, InitIInv, NextIInv, PTL DEF Spec

(* The epoll set and the callback lists agree with the gpio list.            *)
THEOREM ListsAgreeAlways == Spec => []ListsAgree
  <1>1. IInv => ListsAgree
    BY DEF IInv, ListsAgree
  <1>. QED
    BY <1>1, InitIInv, NextIInv, PTL DEF Spec

-----------------------------------------------------------------------------
(* What holds until a removal meets a poll thread at work.  A watched gpio  *)
(* is served because thread_running tells the truth (ThreadsServe), what a  *)
(* thread has in hand is valid because only removals free it (HoldsValid),  *)
(* and a gpio without an edge so far has its first trigger ahead of it, or  *)
(* one thread on its way to take it for the initial state (FirstTrigger).   *)

InLoop == {"loop", "wait", "read", "find", "latch", "run"}
Serving == {"start"} \cup InLoop

ThreadsServe ==
  /\ ~crashed
  /\ \A t \in Threads : at[t] # "exit"
  /\ \A t \in Threads : at[t] \in InLoop => thread_running
  /\ thread_running => \E t \in Threads : at[t] \in InLoop
  /\ \A t \in Threads : at[t] \in Serving => epoll
  /\ (\E g \in Listed : list[g].thread_added) => \E t \in Threads : at[t] \in Serving

HoldsValid(t) ==
  /\ at[t] \in {"read", "find"} =>
       \E g \in Listed : list[g].fd = fd[t] /\ list[g].thread_added
  /\ at[t] = "latch" => ~freed[t] /\ on[t] \in Listed \cap edged
  /\ at[t] = "run" => \A call \in pending[t] : call[2] \in py_callbacks[on[t]]

Reads(t, f) == at[t] \in {"read", "find"} /\ fd[t] = f

FirstTrigger(g) ==
  /\ ~list[g].thread_added => list[g].initial_thread
  /\ list[g].fd \in ready =>
       list[g].initial_thread /\ \A t \in Threads : ~Reads(t, list[g].fd)
  /\ \A t \in Threads : Reads(t, list[g].fd) =>
       list[g].initial_thread /\ \A u \in Threads : Reads(u, list[g].fd) => u = t

Calm ==
  /\ ThreadsServe
  /\ \A t \in Threads : HoldsValid(t)
  /\ \A g \in Listed \ edged : FirstTrigger(g)
  /\ event_occurred \subseteq edged \cap Listed

(* The entries keep what the poll threads use of them, and new ones are not *)
(* watched.                                                                 *)
EntriesKept ==
  /\ \A g \in Listed : /\ g \in Listed' /\ list'[g].fd = list[g].fd
                       /\ list'[g].thread_added = list[g].thread_added
                       /\ list'[g].initial_thread = list[g].initial_thread
  /\ \A g \in Listed' \ Listed : /\ list'[g].fd \notin OpenFds
                                 /\ ~list'[g].thread_added /\ list'[g].initial_thread

LEMMA ReadsWatched ==
  ASSUME Calm, WatchedIsRegistered, NEW t \in Threads, NEW g \in Listed,
         Reads(t, list[g].fd)
  PROVE  list[g].thread_added
  BY DEF Calm, HoldsValid, WatchedIsRegistered, Reads

LEMMA EntriesKeptCalm ==
  ASSUME HoldsGpio, WatchedIsRegistered, Calm, EntriesKept,
         UNCHANGED <<thread_running, epoll, ready, at, fd, on, freed, pending, crashed, edged>>,
         \A g \in Gpios : py_callbacks[g] \subseteq py_callbacks'[g],
         event_occurred' \subseteq event_occurred
  PROVE  Calm'
  <1>1. ThreadsServe'
    BY DEF Calm, ThreadsServe, EntriesKept
  <1>2. ASSUME NEW t \in Threads
        PROVE  HoldsValid(t)'
    BY DEF Calm, HoldsValid, EntriesKept, HoldsGpio
  <1>3. ASSUME NEW g \in Listed' \ edged'
        PROVE  FirstTrigger(g)'
    <2>1. CASE g \in Listed
      BY <2>1, <1>3 DEF Calm, FirstTrigger, EntriesKept, Reads
    <2>2. CASE g \notin Listed
      <3>1. list'[g].fd \notin OpenFds /\ ~list'[g].thread_added /\ list'[g].initial_thread
        BY <1>3, <2>2 DEF EntriesKept
      <3>2. list'[g].fd \notin ready
        BY <3>1 DEF WatchedIsRegistered, OpenFds
      <3>3. \A t \in Threads : ~Reads(t, list'[g].fd)
        BY <3>1 DEF Calm, HoldsValid, Reads, OpenFds
      <3>. QED
        BY <3>1, <3>2, <3>3 DEF FirstTrigger, Reads
    <2>. QED
      BY <2>1, <2>2
  <1>4. event_occurred' \subseteq edged' \cap Listed'
    BY DEF Calm, EntriesKept
  <1>. QED
    BY <1>1, <1>2, <1>3, <1>4 DEF Calm

LEMMA AddEventDetectCalm ==
  ASSUME IInv, Calm, NEW g \in Gpios, NEW e \in Edges,
         NEW b \in Bounces, NEW c \in Callbacks \cup {None}, AddEventDetect(g, e, b, c)
  PROVE  Calm'
  <1> USE DEF IInv
  <1>1. PICK entry \in EntriesFor(g, e, b) :
           /\ list' = [list EXCEPT ![g] = [entry EXCEPT !.thread_added = TRUE]]
           /\ ready' = ready \cup {entry.fd}
    BY DEF AddEventDetect
  <1> DEFINE d == [entry EXCEPT !.thread_added = TRUE]
  <1>2. /\ list[g] # None => entry = list[g]
        /\ list[g] = None => entry.fd \notin OpenFds /\ entry.initial_thread
        /\ d # None /\ d.fd = entry.fd /\ d.thread_added
        /\ d.initial_thread = entry.initial_thread
    BY EntryForGpio, EntryAdded
  <1> HIDE DEF d
  <1>3. list' = [list EXCEPT ![g] = d]
    BY <1>1 DEF d
  <1>4. /\ Listed' = Listed \cup {g} /\ list'[g] = d
        /\ \A h \in Listed \ {g} : list'[h] = list[h]
    BY <1>2, <1>3 DEF Listed, TypeOK
  <1>5. list[g] # None => g \in Listed /\ ~list[g].thread_added
    BY DEF AddEventDetect, MayAdd, Listed
  <1>6. /\ UNCHANGED <<event_occurred, thread_running, fd, on, freed, pending, crashed, edged>>
        /\ epoll'
        /\ \A h \in Gpios : py_callbacks[h] \subseteq py_callbacks'[h]
    BY DEF AddEventDetect, TypeOK
  <1>7. \/ thread_running /\ at' = at
        \/ \E t \in Threads : at[t] = "none" /\ at' = [at EXCEPT ![t] = "start"]
    BY DEF AddEventDetect
  <1>8. ThreadsServe'
    <2>1. CASE thread_running /\ at' = at
      BY <1>6, <2>1 DEF Calm, ThreadsServe, Serving
    <2>2. ASSUME NEW t \in Threads, at[t] = "none", at' = [at EXCEPT ![t] = "start"]
          PROVE  ThreadsServe'
      <3>1. \A u \in Threads : at'[u] = IF u = t THEN "start" ELSE at[u]
        BY <2>2 DEF TypeOK
      <3>. QED
        BY <1>6, <2>2, <3>1 DEF Calm, ThreadsServe, Serving, InLoop
    <2>. QED
      BY <1>7, <2>1, <2>2
  <1>9. \A t \in Threads : at'[t] = at[t] \/ at'[t] = "start"
    BY <1>7 DEF TypeOK
  <1>10. ASSUME NEW t \in Threads
         PROVE  HoldsValid(t)'
    <2>1. CASE at'[t] = at[t]
      <3>1. \A h \in Listed : list'[h].fd = list[h].fd /\ (list[h].thread_added => list'[h].thread_added)
        BY <1>2, <1>4, <1>5 DEF Listed
      <3>2. HoldsValid(t) /\ (at[t] = "run" => on[t] \in Gpios)
        BY DEF Calm, HoldsGpio
      <3>. QED
        BY <1>4, <1>6, <2>1, <3>1, <3>2 DEF HoldsValid
    <2>2. CASE at'[t] = "start"
      BY <2>2 DEF HoldsValid
    <2>. QED
      BY <1>9, <2>1, <2>2
  <1>11. \A t \in Threads, f \in Fds : Reads(t, f)' => Reads(t, f)
    BY <1>6, <1>9 DEF Reads
  <1>12. \A t \in Threads : ~Reads(t, entry.fd)
    <2>1. CASE list[g] = None
      BY <1>2, <2>1 DEF Calm, HoldsValid, Reads, OpenFds
    <2>2. CASE list[g] # None
      BY <1>2, <1>5, <2>2, ReadsWatched
    <2>. QED
      BY <2>1, <2>2
  <1>13. \A h \in Listed \ {g} : list[h].fd # entry.fd
    BY <1>2, <1>5 DEF WatchedIsRegistered, OpenFds
  <1>14. ASSUME NEW h \in Listed' \ edged'
         PROVE  FirstTrigger(h)'
    <2>1. CASE h = g
      <3>1. d.initial_thread
        BY <1>2, <1>5, <1>6, <1>14, <2>1 DEF Calm, FirstTrigger
      <3>2. \A t \in Threads : ~Reads(t, d.fd)'
        BY <1>2, <1>6, <1>9, <1>12 DEF Reads
      <3>. QED
        BY <1>4, <2>1, <3>1, <3>2 DEF FirstTrigger, Reads
    <2>2. CASE h # g
      <3>1. h \in Listed \ edged /\ list'[h] = list[h] /\ FirstTrigger(h)
        BY <1>4, <1>6, <1>14, <2>2 DEF Calm
      <3>2. list[h].fd \in ready' => list[h].fd \in ready
        BY <1>1, <1>13, <2>2, <3>1
      <3>3. \A t \in Threads : Reads(t, list[h].fd)' => Reads(t, list[h].fd)
        BY <1>6, <1>9, <3>1 DEF Reads
      <3>. QED
        BY <3>1, <3>2, <3>3 DEF FirstTrigger, Reads
    <2>. QED
      BY <2>1, <2>2
  <1>15. event_occurred' \subseteq edged' \cap Listed'
    BY <1>4, <1>6 DEF Calm
  <1>. QED
    BY <1>8, <1>10, <1>14, <1>15 DEF Calm

(* A removal while every thread waits: nobody has anything in hand.         *)
LEMMA RemovalCalm ==
  ASSUME TypeOK, Calm, NEW S \in SUBSET Gpios, RemoveEdgeDetect(S), AtWork = {},
         UNCHANGED <<crashed, fd>>,
         \A t \in Threads : at'[t] = at[t] \/ at'[t] \notin Serving \cup {"exit"},
         ThreadsServe'
  PROVE  Calm'
  <1>1. Listed' = Listed \ S /\ \A g \in Listed' : list'[g] = list[g]
    BY DEF RemoveEdgeDetect, Listed, TypeOK
  <1>2. \A t \in Threads : at'[t] \notin {"read", "find", "latch", "run"}
    BY DEF AtWork, Serving, InLoop
  <1>3. \A t \in Threads : HoldsValid(t)'
    BY <1>2 DEF HoldsValid
  <1>4. ASSUME NEW g \in Listed' \ edged'
        PROVE  FirstTrigger(g)'
    <2>1. g \in Listed \ edged /\ list'[g] = list[g]
      BY <1>1, <1>4 DEF RemoveEdgeDetect
    <2>2. ready' \subseteq ready
      BY DEF RemoveEdgeDetect
    <2>. QED
      BY <1>2, <2>1, <2>2 DEF Calm, FirstTrigger, Reads
  <1>5. event_occurred' \subseteq edged' \cap Listed'
    BY <1>1 DEF Calm, RemoveEdgeDetect
  <1>. QED
    BY <1>3, <1>4, <1>5 DEF Calm

LEMMA RemovalServes ==
  ASSUME TypeOK, Calm, NEW S \in SUBSET Gpios, RemoveEdgeDetect(S),
         UNCHANGED <<crashed, thread_running, at>>, epoll => epoll'
  PROVE  ThreadsServe'
  <1>1. \A g \in Listed' : g \in Listed /\ list'[g] = list[g]
    BY DEF RemoveEdgeDetect, Listed, TypeOK
  <1>. QED
    BY <1>1 DEF Calm, ThreadsServe

LEMMA CleanupServes ==
  ASSUME TypeOK, Calm, AtWork = {}, NEW S \in SUBSET Gpios, Cleanup(S)
  PROVE  ThreadsServe'
  <1>1. RemoveEdgeDetect(S)
    BY DEF Cleanup
  <1>2. CASE Listed \subseteq S
    <2>1. Listed' = {}
      BY <1>1, <1>2 DEF RemoveEdgeDetect, Listed
    <2>2. \A t \in Threads : at'[t] \in {"none", "orphan"}
      BY <1>2 DEF Cleanup, AtWork
    <2>. QED
      BY <1>2, <2>1, <2>2 DEF Cleanup, Calm, ThreadsServe, Serving, InLoop
  <1>3. CASE ~(Listed \subseteq S)
    BY <1>1, <1>3, RemovalServes DEF Cleanup
  <1>. QED
    BY <1>2, <1>3

(* Calm holds until a removal meets a poll thread at work.                  *)
RaceInv == ~raced => Calm

(* A call that keeps an entry keeps its descriptor and its bounce time.     *)
LEMMA CallsKeepEntries ==
  ASSUME TypeOK, Calls, NEW h \in Listed, list'[h] # None
  PROVE  list'[h].fd = list[h].fd /\ list'[h].bounce = list[h].bounce
  <1>1. ASSUME NEW g \in Gpios, NEW e \in Edges, NEW b \in Bounces,
               NEW c \in Callbacks \cup {None}, AddEventDetect(g, e, b, c)
        PROVE  list'[h].fd = list[h].fd /\ list'[h].bounce = list[h].bounce
    <2>1. PICK entry \in EntriesFor(g, e, b) :
             list' = [list EXCEPT ![g] = [entry EXCEPT !.thread_added = TRUE]]
      BY <1>1 DEF AddEventDetect
    <2> DEFINE d == [entry EXCEPT !.thread_added = TRUE]
    <2>2. /\ d.fd = entry.fd /\ d.bounce = entry.bounce
          /\ list[g] # None => entry = list[g]
      BY EntryForGpio, EntryAdded
    <2> HIDE DEF d
    <2>3. list' = [list EXCEPT ![g] = d]
      BY <2>1 DEF d
    <2>. QED
      BY <2>2, <2>3 DEF Listed, TypeOK
  <1>2. ASSUME NEW g \in Gpios, NEW e \in Edges, NEW b \in Bounces,
               AddWithoutEpoll(g, e, b)
        PROVE  list'[h] = list[h]
    <2>1. PICK entry \in EntriesFor(g, e, b) : list' = [list EXCEPT ![g] = entry]
      BY <1>2 DEF AddWithoutEpoll
    <2>. QED
      BY <2>1, EntryForGpio DEF Listed, TypeOK
  <1>3. ASSUME NEW S, RemoveEdgeDetect(S)
        PROVE  list'[h] = list[h]
    BY <1>3 DEF RemoveEdgeDetect, Listed
  <1>4. ASSUME NEW g \in Gpios, \/ \E c \in Callbacks : AddEventCallback(g, c)
                                \/ EventDetected(g)
        PROVE  list'[h] = list[h]
    BY <1>4 DEF AddEventCallback, EventDetected, lists
  <1>. QED
    BY <1>1, <1>2, <1>3, <1>4
       DEF Calls, EventCalls, AddFails, RemoveEventDetect, Cleanup

(* Nothing else takes an entry off the list.                                *)
LEMMA PollThreadKeepsEntries ==
  ASSUME TypeOK, NEW t \in Threads, PollThread(t), NEW h \in Listed
  PROVE  /\ list'[h] # None
         /\ list'[h].fd = list[h].fd /\ list'[h].bounce = list[h].bounce
  <1>1. CASE Find(t) /\ fd[t] \in OpenFds
    <2>1. PICK g \in Listed : FindsEntry(t, g)
      BY <1>1, FindFinds
    <2>. QED
      BY <2>1, FindKeepsEntries DEF Listed
  <1>2. CASE Find(t) /\ fd[t] \notin OpenFds
    BY <1>2 DEF Find, shared, lists, Listed
  <1>3. CASE \/ Start(t) \/ Loop(t) \/ Exit(t) \/ (\E f \in Fds : Trigger(t, f))
             \/ ReadValue(t) \/ Latch(t) \/ Call(t) \/ CallsDone(t)
    BY <1>3 DEF Start, Loop, Exit, Trigger, ReadValue, Latch, Call, CallsDone,
                shared, lists, Listed
  <1>. QED
    BY <1>1, <1>2, <1>3 DEF PollThread

LEMMA CallsRace ==
  ASSUME IInv, RaceInv, Calls
  PROVE  RaceInv'
  <1> SUFFICES ASSUME ~raced'
               PROVE  Calm'
    BY DEF RaceInv
  <1> USE DEF IInv
  <1>1. Calm
    BY DEF RaceInv, Calls, EventCalls, AddEventDetect, AddWithoutEpoll, AddFails,
           AddEventCallback, RemoveEventDetect, EventDetected, Cleanup
  <1>2. ASSUME NEW g \in Gpios, NEW e \in Edges, NEW b \in Bounces,
               NEW c \in Callbacks \cup {None}, AddEventDetect(g, e, b, c)
        PROVE  Calm'
    BY <1>1, <1>2, AddEventDetectCalm
  <1>3. ASSUME NEW g \in Gpios, NEW e \in Edges, NEW b \in Bounces,
               AddWithoutEpoll(g, e, b)
        PROVE  Calm'
    <2>1. PICK entry \in EntriesFor(g, e, b) : list' = [list EXCEPT ![g] = entry]
      BY <1>3 DEF AddWithoutEpoll
    <2>2. EntriesKept
      BY <2>1, EntryForGpio DEF EntriesKept, Listed, TypeOK
    <2>. QED
      BY <1>1, <1>3, <2>2, EntriesKeptCalm DEF AddWithoutEpoll, local
  <1>4. ASSUME NEW g \in Gpios, RemoveEdgeDetect({g}), AtWork = {}, epoll => epoll',
               UNCHANGED <<crashed, thread_running, at, fd>>
        PROVE  Calm'
    <2>1. {g} \in SUBSET Gpios
      OBVIOUS
    <2>2. ThreadsServe'
      BY <1>1, <1>4, <2>1, RemovalServes
    <2>. QED
      BY <1>1, <1>4, <2>1, <2>2, RemovalCalm
  <1>5. ASSUME NEW g \in Gpios, NEW e \in Edges, NEW b \in Bounces, AddFails(g, e, b)
        PROVE  Calm'
    BY <1>4, <1>5 DEF AddFails
  <1>6. ASSUME NEW g \in Gpios, RemoveEventDetect(g)
        PROVE  Calm'
    BY <1>4, <1>6 DEF RemoveEventDetect
  <1>7. ASSUME NEW g \in Gpios, NEW c \in Callbacks, AddEventCallback(g, c)
        PROVE  Calm'
    <2>1. EntriesKept
      BY <1>7 DEF AddEventCallback, EntriesKept, Listed
    <2>2. \A h \in Gpios : py_callbacks[h] \subseteq py_callbacks'[h]
      BY <1>7 DEF AddEventCallback, TypeOK
    <2>. QED
      BY <1>1, <1>7, <2>1, <2>2, EntriesKeptCalm DEF AddEventCallback, local
  <1>8. ASSUME NEW g \in Gpios, EventDetected(g)
        PROVE  Calm'
    <2>1. EntriesKept
      BY <1>8 DEF EventDetected, lists, EntriesKept, Listed
    <2>. QED
      BY <1>1, <1>8, <2>1, EntriesKeptCalm DEF EventDetected, lists, local
  <1>9. ASSUME NEW S \in SUBSET Gpios, Cleanup(S)
        PROVE  Calm'
    <2>1. RemoveEdgeDetect(S) /\ AtWork = {} /\ UNCHANGED <<crashed, fd>>
      BY <1>9 DEF Cleanup
    <2>2. \A t \in Threads : at'[t] = at[t] \/ at'[t] \notin Serving \cup {"exit"}
      BY <1>9 DEF Cleanup, Serving, InLoop, TypeOK
    <2>. QED
      BY <1>1, <1>9, <2>1, <2>2, CleanupServes, RemovalCalm
  <1>10. ASSUME NEW S \in CleanupSets
         PROVE  S \in SUBSET Gpios
    BY DEF CleanupSets
  <1>. QED
    BY <1>2, <1>3, <1>5, <1>6, <1>7, <1>8, <1>9, <1>10 DEF Calls, EventCalls

(* An edge adds a trigger of its gpio, which has an edge from then on.      *)
LEMMA EdgeRace ==
  ASSUME IInv, RaceInv, NEW g \in Gpios, Edge(g)
  PROVE  RaceInv'
  <1> SUFFICES ASSUME ~raced, Calm
               PROVE  Calm'
    BY DEF Edge, RaceInv
  <1> USE DEF IInv
  <1>1. /\ UNCHANGED <<list, py_callbacks, event_occurred, thread_running, epoll, at, fd, on,
                       freed, pending, crashed>>
        /\ edged' = edged \cup {g} /\ Listed' = Listed /\ g \in Listed
        /\ ready' \subseteq ready \cup {list[g].fd}
    BY DEF Edge, lists, local, Listed
  <1>2. ThreadsServe'
    BY <1>1 DEF Calm, ThreadsServe
  <1>3. \A t \in Threads : HoldsValid(t)'
    BY <1>1 DEF Calm, HoldsValid
  <1>4. ASSUME NEW h \in Listed' \ edged'
        PROVE  FirstTrigger(h)'
    <2>1. FirstTrigger(h) /\ list[h].fd # list[g].fd
      BY <1>1, <1>4 DEF Calm, WatchedIsRegistered
    <2>. QED
      BY <1>1, <2>1 DEF FirstTrigger, Reads
  <1>. QED
    BY <1>1, <1>2, <1>3, <1>4 DEF Calm

-----------------------------------------------------------------------------
(* The steps of a poll thread.                                              *)

(* A thread that serves and goes on in its loop.                            *)
LEMMA MoveServes ==
  ASSUME TypeOK, Calm, NEW t \in Threads, at[t] \in Serving,
         NEW to \in InLoop, at' = [at EXCEPT ![t] = to], thread_running',
         UNCHANGED <<crashed, epoll>>,
         \A g \in Listed' : g \in Listed /\ list'[g].thread_added = list[g].thread_added
  PROVE  ThreadsServe'
  <1>1. \A u \in Threads : at'[u] = IF u = t THEN to ELSE at[u]
    BY DEF TypeOK
  <1>. QED
    BY <1>1 DEF Calm, ThreadsServe, Serving, InLoop

(* A thread that does not get hold of a descriptor.                         *)
LEMMA MoveCalm ==
  ASSUME IInv, Calm, NEW t \in Threads, at[t] \in Serving,
         NEW to \in InLoop, at' = [at EXCEPT ![t] = to], thread_running',
         UNCHANGED <<crashed, epoll, list, py_callbacks, edged, ready, fd>>,
         \A u \in Threads \ {t} :
           freed'[u] = freed[u] /\ on'[u] = on[u] /\ pending'[u] = pending[u],
         HoldsValid(t)', to \in {"read", "find"} => at[t] \in {"read", "find"},
         event_occurred' \subseteq edged \cap Listed
  PROVE  Calm'
  <1>1. Listed' = Listed
    BY DEF Listed
  <1>2. ThreadsServe'
    BY <1>1, MoveServes DEF IInv
  <1>3. \A u \in Threads : at'[u] = IF u = t THEN to ELSE at[u]
    BY DEF IInv, TypeOK
  <1>4. ASSUME NEW u \in Threads
        PROVE  HoldsValid(u)'
    BY <1>1, <1>3 DEF Calm, HoldsValid
  <1>5. ASSUME NEW g \in Listed' \ edged'
        PROVE  FirstTrigger(g)'
    <2>1. FirstTrigger(g)
      BY <1>1, <1>5 DEF Calm
    <2>. QED
      BY <1>3, <2>1 DEF FirstTrigger, Reads
  <1>. QED
    BY <1>1, <1>2, <1>4, <1>5 DEF Calm

LEMMA TriggerCalm ==
  ASSUME IInv, Calm, NEW t \in Threads, NEW f \in Fds, Trigger(t, f)
  PROVE  Calm'
  <1> USE DEF IInv
  <1>1. /\ at[t] = "wait" /\ at' = [at EXCEPT ![t] = "read"]
        /\ f \in ready /\ ready' = ready \ {f} /\ fd' = [fd EXCEPT ![t] = f]
        /\ UNCHANGED <<list, py_callbacks, event_occurred, epoll, edged, thread_running, on,
                       freed, pending, crashed>>
        /\ Listed' = Listed
    BY DEF Trigger, Move, shared, lists, Listed
  <1>2. \A u \in Threads : /\ at'[u] = IF u = t THEN "read" ELSE at[u]
                           /\ fd'[u] = IF u = t THEN f ELSE fd[u]
    BY <1>1 DEF TypeOK
  <1>3. ThreadsServe'
    <2>1. at[t] \in Serving /\ "read" \in InLoop /\ thread_running'
      BY <1>1 DEF Calm, ThreadsServe, Serving, InLoop
    <2>. QED
      BY <1>1, <2>1, MoveServes
  <1>4. PICK g \in Listed : list[g].fd = f /\ list[g].thread_added
    BY <1>1 DEF WatchedIsRegistered
  <1>5. ASSUME NEW u \in Threads
        PROVE  HoldsValid(u)'
    BY <1>1, <1>2, <1>4 DEF Calm, HoldsValid
  <1>6. ASSUME NEW h \in Listed' \ edged'
        PROVE  FirstTrigger(h)'
    <2>1. FirstTrigger(h)
      BY <1>1, <1>6 DEF Calm
    <2>2. CASE list[h].fd = f
      BY <1>1, <1>2, <2>1, <2>2 DEF FirstTrigger, Reads
    <2>3. CASE list[h].fd # f
      BY <1>1, <1>2, <2>1, <2>3 DEF FirstTrigger, Reads
    <2>. QED
      BY <2>2, <2>3
  <1>. QED
    BY <1>1, <1>3, <1>5, <1>6 DEF Calm

LEMMA FindCalm ==
  ASSUME IInv, Calm, NEW t \in Threads, Find(t)
  PROVE  Calm'
  <1> USE DEF IInv
  <1>1. fd[t] \in OpenFds /\ at[t] = "find"
    BY DEF Find, Move, Calm, HoldsValid, OpenFds
  <1>2. PICK g \in Listed : FindsEntry(t, g)
    BY <1>1, FindFinds
  <1>3. /\ Listed' = Listed
        /\ \A h \in Listed : /\ list'[h].fd = list[h].fd
                             /\ list'[h].thread_added = list[h].thread_added
    BY <1>2, FindKeepsEntries
  <1>4. /\ UNCHANGED <<py_callbacks, event_occurred, epoll, edged, thread_running, ready,
                       pending, crashed>>
        /\ fd' = [fd EXCEPT ![t] = None] /\ list[g].fd = fd[t]
    BY <1>2 DEF FindsEntry
  <1>5. list[g].thread_added
    BY <1>1, <1>4, ReadsWatched DEF Reads
  <1>6. PICK to \in {"loop", "latch"} :
          /\ at' = [at EXCEPT ![t] = to]
          /\ to = "latch" => ~list[g].initial_thread
    BY <1>2 DEF FindsEntry, Move
  <1>7. \A u \in Threads : /\ at'[u] = IF u = t THEN to ELSE at[u]
                           /\ u # t => fd'[u] = fd[u]
    BY <1>4, <1>6 DEF TypeOK
  <1>8. ThreadsServe'
    <2>1. at[t] \in Serving /\ to \in InLoop /\ thread_running'
      BY <1>1, <1>4 DEF Calm, ThreadsServe, Serving, InLoop
    <2>. QED
      BY <1>3, <1>4, <1>6, <2>1, MoveServes
  <1>9. g \notin edged => list[g].initial_thread
    BY <1>1, <1>4 DEF Calm, FirstTrigger, Reads
  <1>10. ASSUME NEW u \in Threads
         PROVE  HoldsValid(u)'
    <2>1. CASE u = t
      <3>1. to = "latch" => ~freed'[t] /\ on'[t] = g
        BY <1>2, <1>7 DEF FindsEntry, Move, TypeOK
      <3>. QED
        BY <1>3, <1>4, <1>6, <1>7, <1>9, <2>1, <3>1 DEF HoldsValid
    <2>2. CASE u # t
      <3>1. freed'[u] = freed[u] /\ on'[u] = on[u]
        BY <1>2, <2>2 DEF FindsEntry, TypeOK
      <3>. QED
        BY <1>3, <1>4, <1>7, <2>2, <3>1 DEF Calm, HoldsValid
    <2>. QED
      BY <2>1, <2>2
  <1>11. ASSUME NEW h \in Listed' \ edged'
         PROVE  FirstTrigger(h)'
    <2>1. FirstTrigger(h) /\ h \in Listed
      BY <1>3, <1>4, <1>11 DEF Calm
    <2>2. CASE h = g
      <3>1. Reads(t, list[g].fd)
        BY <1>1, <1>4 DEF Reads
      <3>2. list[g].fd \notin ready /\ \A u \in Threads : Reads(u, list[g].fd) => u = t
        BY <2>1, <2>2, <3>1 DEF FirstTrigger
      <3>3. \A u \in Threads : ~Reads(u, list[g].fd)'
        BY <1>3, <1>4, <1>7, <3>2 DEF Reads
      <3>. QED
        BY <1>3, <1>4, <1>5, <2>2, <3>2, <3>3 DEF FirstTrigger, Reads
    <2>3. CASE h # g
      <3>1. list'[h] = list[h]
        BY <1>2, <2>1, <2>3 DEF FindsEntry, Listed, TypeOK
      <3>. QED
        BY <1>4, <1>7, <2>1, <3>1 DEF FirstTrigger, Reads
    <2>. QED
      BY <2>2, <2>3
  <1>. QED
    BY <1>3, <1>4, <1>8, <1>10, <1>11 DEF Calm

LEMMA PollThreadRace ==
  ASSUME IInv, RaceInv, NEW t \in Threads, PollThread(t)
  PROVE  RaceInv'
  <1>0. raced' = raced
    <2>1. CASE Find(t)
      BY <2>1 DEF Find
    <2>2. CASE Latch(t) \/ Call(t) \/ CallsDone(t) \/ ReadValue(t)
      BY <2>2 DEF Latch, Call, CallsDone, ReadValue
    <2>3. CASE Start(t) \/ Loop(t) \/ Exit(t) \/ \E f \in Fds : Trigger(t, f)
      BY <2>3 DEF Start, Loop, Exit, Trigger
    <2>. QED
      BY <2>1, <2>2, <2>3 DEF PollThread
  <1> SUFFICES ASSUME ~raced, Calm
               PROVE  Calm'
    BY <1>0 DEF RaceInv
  <1> USE DEF IInv
  <1>1. ~crashed /\ at[t] # "exit" /\ (at[t] \in InLoop => thread_running)
        /\ (at[t] \in Serving => epoll) /\ HoldsValid(t)
        /\ event_occurred \subseteq edged \cap Listed
    BY DEF Calm, ThreadsServe
  <1>2. CASE Start(t) \/ Loop(t)
    <2>1. PICK to \in {"loop", "wait"} : at' = [at EXCEPT ![t] = to] /\ at'[t] = to
      BY <1>1, <1>2 DEF Start, Loop, Move, InLoop, Serving, TypeOK
    <2>2. at[t] \in Serving /\ to \in InLoop /\ thread_running'
      BY <1>1, <1>2 DEF Start, Loop, Move, InLoop, Serving
    <2>3. HoldsValid(t)'
      BY <2>1 DEF HoldsValid
    <2>4. UNCHANGED <<crashed, epoll, list, py_callbacks, edged, ready, fd, freed, on, pending,
                      event_occurred>>
      BY <1>2 DEF Start, Loop, shared, lists
    <2>. QED
      BY <1>1, <2>1, <2>2, <2>3, <2>4, MoveCalm
  <1>3. CASE Exit(t)
    BY <1>1, <1>3 DEF Exit, Move
  <1>4. CASE \E f \in Fds : Trigger(t, f)
    BY <1>4, TriggerCalm
  <1>5. CASE ReadValue(t)
    <2>1. at[t] = "read" /\ at' = [at EXCEPT ![t] = "find"] /\ thread_running' = thread_running
      BY <1>1, <1>5 DEF ReadValue, Move, HoldsValid, OpenFds
    <2>2. UNCHANGED <<crashed, epoll, list, py_callbacks, edged, ready, fd, freed, on, pending,
                      event_occurred>>
      BY <1>5 DEF ReadValue, shared, lists
    <2>3. HoldsValid(t)'
      <3>1. at'[t] = "find" /\ Listed' = Listed
        BY <2>1, <2>2 DEF Listed, TypeOK
      <3>. QED
        BY <1>1, <2>1, <2>2, <3>1 DEF HoldsValid
    <2>4. at[t] \in Serving /\ "find" \in InLoop /\ thread_running'
      BY <1>1, <2>1 DEF Serving, InLoop
    <2>. QED
      BY <1>1, <2>1, <2>2, <2>3, <2>4, MoveCalm
  <1>6. CASE Find(t)
    BY <1>6, FindCalm
  <1>7. CASE Latch(t)
    <2>1. at[t] = "latch" /\ at' = [at EXCEPT ![t] = "run"] /\ ~freed[t]
          /\ on[t] \in Listed \cap edged /\ on[t] \in Gpios
      BY <1>1, <1>7 DEF Latch, Move, HoldsValid, HoldsGpio
    <2>2. /\ event_occurred' = event_occurred \cup {on[t]}
          /\ on' = [on EXCEPT ![t] = on[t]]
          /\ pending' = [pending EXCEPT ![t] = (1..callbacks[on[t]]) \X py_callbacks[on[t]]]
          /\ freed' = [freed EXCEPT ![t] = FALSE]
          /\ UNCHANGED <<crashed, epoll, list, py_callbacks, edged, ready, fd, thread_running>>
      BY <1>7, <2>1 DEF Latch, lists
    <2>3. on' = on /\ \A call \in pending'[t] : call[2] \in py_callbacks[on[t]]
      BY <2>2 DEF TypeOK
    <2>4. HoldsValid(t)'
      BY <2>1, <2>2, <2>3 DEF HoldsValid, TypeOK
    <2>5. at[t] \in Serving /\ "run" \in InLoop /\ thread_running'
      BY <1>1, <2>1, <2>2 DEF Serving, InLoop
    <2>6. \A u \in Threads \ {t} :
            freed'[u] = freed[u] /\ on'[u] = on[u] /\ pending'[u] = pending[u]
      BY <2>2 DEF TypeOK
    <2>. QED
      BY <1>1, <2>1, <2>2, <2>4, <2>5, <2>6, MoveCalm
  <1>8. CASE Call(t)
    <2>1. at[t] = "run" /\ UNCHANGED <<epoll, list, py_callbacks, edged, ready, fd, freed, on,
                                       event_occurred, at, thread_running>>
      BY <1>8 DEF Call, shared, lists
    <2>2. PICK call \in pending[t] :
            /\ pending' = [pending EXCEPT ![t] = @ \ {call}]
            /\ crashed' \in IF call[2] \in py_callbacks[on[t]] THEN {FALSE} ELSE BOOLEAN
      BY <1>8 DEF Call
    <2>3. crashed' = crashed
      <3>1. call[2] \in py_callbacks[on[t]]
        BY <1>1, <2>1 DEF HoldsValid
      <3>2. crashed = FALSE /\ crashed' = FALSE
        BY <1>1, <2>2, <3>1 DEF TypeOK
      <3>. QED
        BY <3>2
    <2>4. at' = [at EXCEPT ![t] = "run"] /\ "run" \in InLoop /\ at[t] \in Serving
          /\ thread_running'
      BY <1>1, <2>1 DEF TypeOK, InLoop, Serving
    <2>5. /\ pending'[t] \subseteq pending[t]
          /\ \A u \in Threads \ {t} : pending'[u] = pending[u]
      BY <2>2 DEF TypeOK
    <2>6. HoldsValid(t)'
      BY <1>1, <2>1, <2>5 DEF HoldsValid
    <2>. QED
      BY <1>1, <2>1, <2>3, <2>4, <2>5, <2>6, MoveCalm
  <1>9. CASE CallsDone(t)
    <2>1. /\ at[t] = "run" /\ at' = [at EXCEPT ![t] = "loop"]
          /\ on' = [on EXCEPT ![t] = None] /\ freed' = [freed EXCEPT ![t] = FALSE]
          /\ UNCHANGED <<crashed, epoll, list, py_callbacks, edged, ready, fd, pending,
                         event_occurred, thread_running>>
      BY <1>9 DEF CallsDone, Move, shared, lists
    <2>2. HoldsValid(t)'
      BY <2>1 DEF HoldsValid, TypeOK
    <2>3. at[t] \in Serving /\ "loop" \in InLoop /\ thread_running'
      BY <1>1, <2>1 DEF Serving, InLoop
    <2>4. \A u \in Threads \ {t} :
            freed'[u] = freed[u] /\ on'[u] = on[u] /\ pending'[u] = pending[u]
      BY <2>1 DEF TypeOK
    <2>. QED
      BY <1>1, <2>1, <2>2, <2>3, <2>4, MoveCalm
  <1>. QED
    BY <1>2, <1>3, <1>4, <1>5, <1>6, <1>7, <1>8, <1>9 DEF PollThread

LEMMA InterruptRace ==
  ASSUME IInv, RaceInv, NEW t \in Threads, Interrupt(t)
  PROVE  RaceInv'
  <1> SUFFICES ASSUME ~raced, ~raced', Calm
               PROVE  Calm'
    BY DEF Interrupt, RaceInv
  <1>1. /\ at[t] = "wait" /\ at' = [at EXCEPT ![t] = "loop"]
        /\ UNCHANGED <<crashed, epoll, list, py_callbacks, edged, ready, fd, freed, on, pending,
                       event_occurred, thread_running>>
    BY DEF Interrupt, Move, shared, lists
  <1>2. at[t] \in Serving /\ "loop" \in InLoop /\ thread_running'
    BY <1>1 DEF Calm, ThreadsServe, Serving, InLoop
  <1>3. HoldsValid(t)'
    BY <1>1 DEF HoldsValid, IInv, TypeOK
  <1>4. event_occurred' \subseteq edged \cap Listed
    BY <1>1 DEF Calm
  <1>. QED
    BY <1>1, <1>2, <1>3, <1>4, MoveCalm

LEMMA NextRace == IInv /\ RaceInv /\ [Next]_vars => RaceInv'
  <1> SUFFICES ASSUME IInv, RaceInv, [Next]_vars
               PROVE  RaceInv'
    OBVIOUS
  <1>1. CASE UNCHANGED vars
    <2>1. Calm => EntriesKept
      BY <1>1 DEF vars, lists, EntriesKept, Listed
    <2>. QED
      BY <1>1, <2>1, EntriesKeptCalm DEF vars, lists, local, RaceInv, IInv
  <1>. QED
    BY <1>1, CallsRace, EdgeRace, PollThreadRace, InterruptRace DEF Next, Environment

LEMMA InitRace == Init => RaceInv
  BY DEF Init, RaceInv, Calm, ThreadsServe, HoldsValid, FirstTrigger, Listed, InLoop, Serving

LEMMA RaceInvAlways == Spec => [](IInv /\ RaceInv)
  BY InitIInv, InitRace, NextIInv, NextRace, PTL DEF Spec

(* However many gpios, threads and callbacks there are: as long as no       *)
(* removal meets a poll thread at work, and no signal wakes one that a      *)
(* cleanup left waiting, nothing that was freed is used, and a watched gpio *)
(* has a poll thread that waits on the epoll set or comes back to it.       *)
THEOREM ServedUnlessRacedAlways == Spec => []ServedUnlessRaced
  <1>1. IInv /\ RaceInv => ServedUnlessRaced
    BY DEF RaceInv, Calm, ThreadsServe, Serving, InLoop, ServedUnlessRaced
  <1>. QED
    BY <1>1, RaceInvAlways, PTL

(* As long, an event that event_detected () reports had an edge.            *)
THEOREM EventHadEdgeAlways == Spec => []EventHadEdge
  <1>1. IInv /\ RaceInv => EventHadEdge
    BY DEF RaceInv, Calm, EventHadEdge
  <1>. QED
    BY <1>1, RaceInvAlways, PTL

=============================================================================
