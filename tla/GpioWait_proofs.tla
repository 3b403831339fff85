--------------------------- MODULE GpioWait_proofs ---------------------------
(***************************************************************************)
(* Proofs about wait_for_edge () beside the event calls and the poll       *)
(* threads, for any gpios, descriptors and threads.                        *)
(*                                                                         *)
(* The steps of calls and poll threads are those of GpioEvents, so what    *)
(* they keep is proved there; a waiter only adds an entry that is not      *)
(* watched, or changes its edge, its bounce time or the time of its last   *)
(* call, which the poll threads' invariants do not use.  What a wait       *)
(* returns rests on the epoll set of the waits holding the descriptor of   *)
(* the one wait and nothing else (Sole).                                   *)
(***************************************************************************)
EXTENDS GpioWait, GpioEvents_proofs

Waits == {"loop", "wait", "test"}
Stations == {"create", "join", "loop", "wait", "orphan", "test"} \cup Returned

(* The entry that a wait holds is on the list until it is freed under it.   *)
HeldListed == \A w \in Holding : ~call[w].gone => Held(w) # None

(* What waiter w waits for is the trigger of its own descriptor.            *)
Awaits(w) ==
  /\ blocking /\ bset = {Held(w).fd}
  /\ call[w].first => wat[w] # "test" /\ bready = bset /\ ~call[w].late
  /\ ~call[w].first /\ bready # {} => w \in saw
  /\ wat[w] = "test" => /\ call[w].got \in {None, Held(w).fd}
                        /\ call[w].got # None => w \in saw
  /\ call[w].late /\ wat[w] # "test" => Held(w).bounce

Sole ==
  /\ \A v, w \in Busy : v = w
  /\ \A w \in Busy : ~call[w].gone /\ wat[w] # "orphan"
  /\ \A w \in Busy : wat[w] \in {"create", "join"} => call[w].first /\ ~call[w].late
  /\ \A w \in Waiters : (wat[w] = "edge" => w \in saw) /\ wat[w] # "error"
  /\ (\A w \in Waiters : wat[w] \notin Waits) => bset = {}
  /\ \A w \in Waiters : wat[w] \in Waits => Awaits(w)

SoleInv == alone => Sole
ServedInv == alone => RaceInv

WInv == IInv /\ WTypeOK /\ HeldListed /\ ServedInv /\ SoleInv

-----------------------------------------------------------------------------
(* What a step of a waiter does to the state of GpioEvents.                 *)

LEMMA WaiterKeepsLists ==
  ASSUME IInv, EntriesKept, list' \in [Gpios -> Entry \cup {None}],
         NEW g, Listed' \subseteq Listed \cup {g},
         UNCHANGED restOfEvents, crashed' \in BOOLEAN
  PROVE  IInv'
  <1> USE DEF IInv, restOfEvents, local
  <1>1. TypeOK'
    BY DEF TypeOK
  <1>2. HoldsGpio'
    BY DEF HoldsGpio
  <1>3. WatchedIsRegistered'
    <2>1. \A h, i \in Listed' : list'[h].fd = list'[i].fd => h = i
      <3>1. \A h \in Listed' \ Listed, i \in Listed : list'[h].fd # list[i].fd
        BY DEF EntriesKept, OpenFds
      <3>. QED
        BY <3>1 DEF EntriesKept, WatchedIsRegistered
    <2>2. \A f \in ready' : \E h \in Listed' : list'[h].fd = f /\ list'[h].thread_added
      BY DEF EntriesKept, WatchedIsRegistered
    <2>3. ~epoll' => \A h \in Listed' : ~list'[h].thread_added
      BY DEF EntriesKept, WatchedIsRegistered
    <2>. QED
      BY <2>1, <2>2, <2>3 DEF WatchedIsRegistered
  <1>4. CallbacksFinite' /\ CallbackHasEntry'
    BY DEF CallbacksFinite, CallbackHasEntry, EntriesKept, Listed
  <1>. QED
    BY <1>1, <1>2, <1>3, <1>4

LEMMA WaiterKeepsRace ==
  ASSUME IInv, RaceInv, EntriesKept, UNCHANGED restOfEvents, crashed' = crashed
  PROVE  RaceInv'
  BY EntriesKeptCalm DEF IInv, RaceInv, restOfEvents, local

LEMMA SameEntries ==
  ASSUME UNCHANGED list
  PROVE  EntriesKept /\ Listed' = Listed
  BY DEF EntriesKept, Listed

(* An entry whose edge, bounce time or last call changes.                   *)
LEMMA EntryChanges ==
  ASSUME TypeOK, NEW g \in Listed, NEW d \in Entry, list' = [list EXCEPT ![g] = d],
         d.fd = list[g].fd, d.thread_added = list[g].thread_added,
         d.initial_thread = list[g].initial_thread
  PROVE  /\ list' \in [Gpios -> Entry \cup {None}]
         /\ EntriesKept /\ Listed' = Listed
         /\ list'[g] = d /\ \A h \in Gpios \ {g} : list'[h] = list[h]
  <1>1. g \in Gpios /\ d # None /\ list[g] # None
    BY EventAssumption DEF Listed
  <1>2. list'[g] = d /\ \A h \in Gpios \ {g} : list'[h] = list[h]
    BY <1>1 DEF TypeOK
  <1>3. Listed' = Listed
    BY <1>1, <1>2 DEF Listed
  <1>4. EntriesKept
    BY <1>1, <1>2, <1>3 DEF EntriesKept, Listed
  <1>. QED
    BY <1>2, <1>3, <1>4 DEF TypeOK

LEMMA EntryCreated ==
  ASSUME TypeOK, NEW g \in Gpios, list[g] = None, NEW e \in Edges, NEW b \in Bounces,
         NEW f \in Fds \ OpenFds, list' = [list EXCEPT ![g] = NewEntry(e, b, f)]
  PROVE  /\ list' \in [Gpios -> Entry \cup {None}]
         /\ EntriesKept /\ Listed' \subseteq Listed \cup {g} /\ list'[g] # None
  BY EntryNew DEF EntriesKept, Listed, TypeOK

-----------------------------------------------------------------------------
(* What it does to the waiters.                                             *)

LEMMA WaiterTypes ==
  ASSUME WTypeOK, TypeOK', NEW w \in Waiters, NEW x \in Stations,
         NEW c \in Call_ \cup {None}, c = None <=> x \in Returned,
         wat' = [wat EXCEPT ![w] = x], call' = [call EXCEPT ![w] = c],
         saw' \subseteq Waiters, blocking' \in BOOLEAN, bset' \subseteq Fds,
         bready' \subseteq bset', doubled' \in BOOLEAN, alone' \in BOOLEAN
  PROVE  WTypeOK'
  <1>1. \A v \in Waiters : /\ wat'[v] = IF v = w THEN x ELSE wat[v]
                           /\ call'[v] = IF v = w THEN c ELSE call[v]
    BY DEF WTypeOK
  <1>2. \A v \in Waiters : call'[v] = None <=> v \notin Busy'
    BY <1>1 DEF WTypeOK, Busy
  <1>. QED
    BY <1>2 DEF WTypeOK, Stations

LEMMA WaiterHolds ==
  ASSUME WTypeOK, HeldListed, EntriesKept, NEW w \in Waiters, NEW x, NEW c,
         wat' = [wat EXCEPT ![w] = x], call' = [call EXCEPT ![w] = c],
         x \notin Returned \cup {"create"} /\ ~c.gone => list'[c.gpio] # None
  PROVE  HeldListed'
  <1>1. \A v \in Waiters : /\ wat'[v] = IF v = w THEN x ELSE wat[v]
                           /\ call'[v] = IF v = w THEN c ELSE call[v]
    BY DEF WTypeOK
  <1>2. \A v \in Holding : ~call[v].gone => list'[call[v].gpio] # None
    <2>1. \A v \in Holding : call[v].gpio \in Gpios
      BY DEF WTypeOK, Holding, Busy, Call_
    <2>. QED
      BY <2>1 DEF HeldListed, Held, EntriesKept, Listed
  <1>. QED
    BY <1>1, <1>2 DEF HeldListed, Holding, Busy, Held

LEMMA WaiterSole ==
  ASSUME WTypeOK, Sole, NEW w \in Waiters, Busy \subseteq {w}, NEW x, NEW c,
         wat' = [wat EXCEPT ![w] = x], call' = [call EXCEPT ![w] = c],
         x \notin Returned => ~c.gone /\ x # "orphan",
         x \in {"create", "join"} => c.first /\ ~c.late,
         x = "edge" => w \in saw', x # "error",
         saw \ {w} \subseteq saw',
         x \notin Waits => bset' = {},
         x \in Waits => Awaits(w)'
  PROVE  Sole'
  <1>1. \A v \in Waiters : /\ wat'[v] = IF v = w THEN x ELSE wat[v]
                           /\ call'[v] = IF v = w THEN c ELSE call[v]
    BY DEF WTypeOK
  <1>2. \A v \in Waiters \ {w} : v \notin Busy
    OBVIOUS
  <1>3. \A v \in Waiters : wat'[v] \in Waits => v = w
    BY <1>1, <1>2 DEF Busy, Returned, Waits
  <1>4. Busy' \subseteq {w}
    BY <1>1, <1>2 DEF Busy
  <1>5. (\A v \in Waiters : wat'[v] \notin Waits) => bset' = {}
    BY <1>1
  <1>6. \A v \in Waiters : wat'[v] \in Waits => Awaits(v)'
    BY <1>1, <1>3
  <1>7. \A v \in Waiters : (wat'[v] = "edge" => v \in saw') /\ wat'[v] # "error"
    BY <1>1 DEF Sole
  <1>. QED
    BY <1>1, <1>4, <1>5, <1>6, <1>7 DEF Sole, Busy

-----------------------------------------------------------------------------
(* The steps of a waiter.                                                   *)

LEMMA BeginWInv ==
  ASSUME WInv, NEW w \in Waiters, NEW g \in Gpios, NEW e \in Edges, NEW b \in Bounces,
         Begin(w, g, e, b)
  PROVE  WInv'
  <1> USE DEF WInv
  <1> DEFINE x == IF list[g] = None THEN "create" ELSE "join"
             c == [gpio |-> g, edge |-> e, bounce |-> b, first |-> TRUE,
                   got |-> None, gone |-> FALSE, late |-> FALSE]
  <1>1. /\ wat' = [wat EXCEPT ![w] = x] /\ call' = [call EXCEPT ![w] = c]
        /\ saw' = saw \ {w} /\ alone' = (alone /\ Busy = {})
        /\ UNCHANGED <<restOfEvents, crashed, blockingSet, doubled>>
    BY DEF Begin
  <1>2. c \in Call_ /\ c # None
    <2>1. c \in Call_
      BY DEF Call_
    <2>. QED
      BY <2>1, WaitAssumption
  <1>3. x \in Stations \ Returned /\ x \in {"create", "join"}
    BY DEF Stations, Returned
  <1>4. /\ list' \in [Gpios -> Entry \cup {None}] /\ EntriesKept /\ Listed' = Listed
        /\ list[g] # None => list'[g] # None
    <2>1. CASE list[g] # None /\ list[g].edge # e
      <3>1. g \in Listed /\ list[g] \in Entry
        BY <2>1 DEF Listed, IInv, TypeOK
      <3> DEFINE d == [list[g] EXCEPT !.edge = e, !.bounce = b]
      <3>2. /\ d \in Entry /\ d.fd = list[g].fd /\ d.thread_added = list[g].thread_added
            /\ d.initial_thread = list[g].initial_thread
        BY <3>1 DEF Entry
      <3>3. list' = [list EXCEPT ![g] = d]
        BY <2>1 DEF Begin
      <3> HIDE DEF d
      <3>. QED
        BY <3>1, <3>2, <3>3, EntryChanges, EventAssumption DEF IInv
    <2>2. CASE ~(list[g] # None /\ list[g].edge # e)
      <3>1. list' = list
        BY <2>2 DEF Begin
      <3>. QED
        BY <3>1, SameEntries DEF IInv, TypeOK
    <2>. QED
      BY <2>1, <2>2
  <1>5. IInv'
    BY <1>1, <1>4, WaiterKeepsLists DEF IInv, TypeOK
  <1>6. WTypeOK'
    BY <1>1, <1>2, <1>3, <1>5, WaiterTypes DEF IInv, WTypeOK, blockingSet
  <1>7. HeldListed'
    BY <1>1, <1>3, <1>4, WaiterHolds
  <1>8. ServedInv'
    BY <1>1, <1>4, WaiterKeepsRace DEF ServedInv
  <1>9. ASSUME alone'
        PROVE  Sole'
    <2>1. Sole /\ Busy = {}
      BY <1>1, <1>9 DEF SoleInv
    <2>2. bset' = {}
      BY <1>1, <2>1 DEF Sole, Busy, Waits, Returned, blockingSet
    <2>3. x \notin Waits /\ x # "edge" /\ x # "error" /\ x # "orphan"
      BY DEF Waits
    <2>4. ~c.gone /\ c.first /\ ~c.late
      OBVIOUS
    <2> HIDE DEF x, c
    <2>. QED
      BY <1>1, <2>1, <2>2, <2>3, <2>4, WaiterSole
  <1>. QED
    BY <1>5, <1>6, <1>7, <1>8, <1>9 DEF SoleInv

(* The other steps of a waiter, in which it goes to x with its call as c.   *)
LEMMA WaiterWInv ==
  ASSUME WInv, NEW w \in Busy, NEW x \in Stations, NEW c \in Call_ \cup {None},
         c = None <=> x \in Returned,
         wat' = [wat EXCEPT ![w] = x], call' = [call EXCEPT ![w] = c],
         list' \in [Gpios -> Entry \cup {None}], EntriesKept,
         NEW g, Listed' \subseteq Listed \cup {g},
         UNCHANGED restOfEvents, crashed' \in BOOLEAN, doubled' \in BOOLEAN,
         saw' = saw \/ (saw' = saw \ {w} /\ x # "edge"),
         blocking' \in BOOLEAN, bset' \subseteq Fds, bready' \subseteq bset', alone' = alone,
         x \notin Returned \cup {"create"} /\ ~c.gone => list'[c.gpio] # None,
         alone => /\ crashed' = crashed
                  /\ x \notin Returned => ~c.gone /\ x # "orphan"
                  /\ x \in {"create", "join"} => c.first /\ ~c.late
                  /\ x = "edge" => w \in saw
                  /\ x # "error"
                  /\ x \notin Waits => bset' = {}
                  /\ x \in Waits => Awaits(w)'
  PROVE  WInv'
  <1> USE DEF WInv
  <1>1. w \in Waiters
    BY DEF Busy
  <1>2. IInv'
    BY WaiterKeepsLists
  <1>3. WTypeOK'
    <2>1. saw' \subseteq Waiters
      BY DEF WTypeOK
    <2>. QED
      BY <1>1, <1>2, <2>1, WaiterTypes DEF IInv, WTypeOK
  <1>4. HeldListed'
    BY <1>1, WaiterHolds
  <1>5. ServedInv'
    BY WaiterKeepsRace DEF ServedInv
  <1>6. ASSUME alone'
        PROVE  Sole'
    <2>1. Sole /\ Busy \subseteq {w}
      BY <1>6 DEF SoleInv, Sole
    <2>. QED
      BY <1>1, <1>6, <2>1, WaiterSole
  <1>. QED
    BY <1>2, <1>3, <1>4, <1>5, <1>6 DEF SoleInv

(* Of a busy waiter.                                                        *)
LEMMA BusyFacts ==
  ASSUME WInv, NEW w \in Busy
  PROVE  /\ w \in Waiters /\ call[w] \in Call_ /\ call[w] # None
         /\ call[w].gpio \in Gpios /\ call[w].edge \in Edges /\ call[w].bounce \in Bounces
         /\ call[w].first \in BOOLEAN /\ call[w].late \in BOOLEAN /\ call[w].gone \in BOOLEAN
         /\ call = [call EXCEPT ![w] = call[w]]
         /\ wat[w] # "create" /\ ~call[w].gone =>
              Held(w) # None /\ Held(w) \in Entry /\ Held(w).fd \in Fds
         /\ list \in [Gpios -> Entry \cup {None}] /\ crashed \in BOOLEAN
         /\ bset \subseteq Fds /\ bready \subseteq bset /\ saw \subseteq Waiters
         /\ blocking \in BOOLEAN /\ doubled \in BOOLEAN
  <1>1. w \in Waiters /\ call[w] \in Call_ /\ call[w] # None
    BY DEF WInv, WTypeOK, Busy
  <1>2. /\ call[w].gpio \in Gpios /\ call[w].edge \in Edges /\ call[w].bounce \in Bounces
        /\ call[w].first \in BOOLEAN /\ call[w].late \in BOOLEAN /\ call[w].gone \in BOOLEAN
    BY <1>1 DEF Call_
  <1>3. call = [call EXCEPT ![w] = call[w]]
    BY <1>1 DEF WInv, WTypeOK
  <1>4. ASSUME wat[w] # "create", ~call[w].gone
        PROVE  Held(w) # None /\ Held(w) \in Entry /\ Held(w).fd \in Fds
    <2>1. Held(w) # None
      BY <1>1, <1>4 DEF WInv, HeldListed, Holding
    <2>2. Held(w) \in Entry
      BY <1>2, <2>1 DEF WInv, IInv, TypeOK, Held
    <2>. QED
      BY <2>1, <2>2 DEF Entry
  <1>5. /\ list \in [Gpios -> Entry \cup {None}] /\ crashed \in BOOLEAN
        /\ bset \subseteq Fds /\ bready \subseteq bset /\ saw \subseteq Waiters
        /\ blocking \in BOOLEAN /\ doubled \in BOOLEAN
    BY DEF WInv, IInv, TypeOK, WTypeOK
  <1>. QED
    BY <1>1, <1>2, <1>3, <1>4, <1>5

(* When its wait is the only one so far.                                    *)
LEMMA AloneFacts ==
  ASSUME WInv, alone, NEW w \in Busy
  PROVE  /\ ~call[w].gone /\ wat[w] # "orphan"
         /\ wat[w] \in {"create", "join"} => call[w].first /\ ~call[w].late /\ bset = {}
         /\ wat[w] \in Waits => Awaits(w)
  <1>1. Sole /\ w \in Waiters
    BY DEF WInv, SoleInv, Busy
  <1>2. \A v \in Waiters : v # w => wat[v] \notin Waits
    BY <1>1 DEF Sole, Busy, Waits, Returned
  <1>. QED
    BY <1>1, <1>2 DEF Sole, Waits

LEMMA CreateWInv ==
  ASSUME WInv, NEW w \in Waiters, Create(w)
  PROVE  WInv'
  <1>1. /\ wat[w] = "create" /\ wat' = [wat EXCEPT ![w] = "join"] /\ call' = call
        /\ UNCHANGED <<restOfEvents, crashed, saw, blocking, bset, bready, alone>>
    BY DEF Create, MoveWaiter, blockingSet
  <1>2. w \in Busy
    BY <1>1 DEF Busy, Returned
  <1> DEFINE g == call[w].gpio
  <1>3. /\ list' \in [Gpios -> Entry \cup {None}] /\ EntriesKept
        /\ Listed' \subseteq Listed \cup {g} /\ list'[g] # None
    <2>1. CASE Held(w) = None
      <3>1. PICK f \in Fds \ OpenFds : list' = [list EXCEPT ![g] = NewEntry(call[w].edge, call[w].bounce, f)]
        BY <2>1 DEF Create
      <3>2. TypeOK /\ list[g] = None
        BY <2>1 DEF WInv, IInv, Held
      <3>3. g \in Gpios /\ call[w].edge \in Edges /\ call[w].bounce \in Bounces
        BY <1>2, BusyFacts
      <3> HIDE DEF g
      <3>. QED
        BY <3>1, <3>2, <3>3, EntryCreated
    <2>2. CASE Held(w) # None
      <3>1. list' = list
        BY <2>2 DEF Create
      <3>2. list' \in [Gpios -> Entry \cup {None}]
        BY <1>2, <3>1, BusyFacts
      <3>. QED
        BY <2>2, <3>1, <3>2, SameEntries DEF Held
    <2>. QED
      BY <2>1, <2>2
  <1>4. doubled' \in BOOLEAN
    BY <1>2, BusyFacts DEF Create
  <1>5. "join" \in Stations /\ "join" \notin Returned /\ "join" \notin Waits
    BY DEF Stations, Returned, Waits
  <1>6. list'[call[w].gpio] # None /\ Listed' \subseteq Listed \cup {call[w].gpio}
    BY <1>3
  <1> HIDE DEF g
  <1>7. call' = [call EXCEPT ![w] = call[w]] /\ call[w] \in Call_ /\ call[w] # None
        /\ crashed \in BOOLEAN /\ blocking' \in BOOLEAN /\ bset' \subseteq Fds /\ bready' \subseteq bset'
    BY <1>1, <1>2, BusyFacts
  <1>8. alone => ~call[w].gone /\ call[w].first /\ ~call[w].late /\ bset' = {}
    BY <1>1, <1>2, AloneFacts
  <1>. QED
    <2> DEFINE x == "join"
               c == call[w]
               h == call[w].gpio
    <2>1. /\ x \in Stations /\ x \notin Returned /\ x \notin Waits
          /\ x # "edge" /\ x # "error" /\ x # "orphan" /\ wat' = [wat EXCEPT ![w] = x]
      BY <1>1, <1>5
    <2>2. /\ c \in Call_ /\ c # None /\ call' = [call EXCEPT ![w] = c]
          /\ list'[c.gpio] # None /\ Listed' \subseteq Listed \cup {h}
      BY <1>6, <1>7
    <2>3. alone => /\ crashed' = crashed /\ ~c.gone /\ c.first /\ ~c.late /\ bset' = {}
      BY <1>1, <1>8
    <2>4. /\ crashed' \in BOOLEAN /\ blocking' \in BOOLEAN /\ bset' \subseteq Fds
          /\ bready' \subseteq bset'
          /\ saw' = saw /\ UNCHANGED restOfEvents /\ alone' = alone
          /\ list' \in [Gpios -> Entry \cup {None}] /\ EntriesKept
      BY <1>1, <1>3, <1>7
    <2> HIDE DEF x, c, h
    <2>. QED
      BY <1>2, <1>4, <2>1, <2>2, <2>3, <2>4, WaiterWInv

(* Steps that leave the list.                                               *)
LEMMA UnlistedWInv ==
  ASSUME WInv, NEW w \in Busy, NEW x \in Stations, NEW c \in Call_ \cup {None},
         c = None <=> x \in Returned,
         wat' = [wat EXCEPT ![w] = x], call' = [call EXCEPT ![w] = c],
         UNCHANGED <<list, restOfEvents, alone, doubled>>, crashed' \in BOOLEAN,
         saw' = saw \/ (saw' = saw \ {w} /\ x # "edge"),
         blocking' \in BOOLEAN, bset' \subseteq Fds, bready' \subseteq bset',
         x \notin Returned => /\ wat[w] # "create" /\ x # "create"
                              /\ c.gpio = call[w].gpio /\ (c.gone <=> call[w].gone),
         alone => /\ crashed' = crashed
                  /\ x # "orphan" /\ x # "error" /\ x # "join"
                  /\ x = "edge" => w \in saw
                  /\ x \notin Waits => bset' = {}
                  /\ x \in Waits => Awaits(w)'
  PROVE  WInv'
  <1>1. EntriesKept /\ Listed' \subseteq Listed \cup {None}
    BY SameEntries
  <1>2. list' \in [Gpios -> Entry \cup {None}] /\ doubled' \in BOOLEAN
    BY BusyFacts
  <1>3. x \notin Returned \cup {"create"} /\ ~c.gone => list'[c.gpio] # None
    BY BusyFacts DEF Held
  <1>4. alone => (x \notin Returned => ~c.gone) /\ x # "create"
    BY AloneFacts DEF Returned
  <1>. QED
    BY <1>1, <1>2, <1>3, <1>4, WaiterWInv

LEMMA RefuseWInv ==
  ASSUME WInv, NEW w \in Waiters, Refuse(w)
  PROVE  WInv'
  <1>1. /\ wat[w] \in {"create", "join"} /\ wat' = [wat EXCEPT ![w] = "rest"]
        /\ call' = [call EXCEPT ![w] = None] /\ saw' = saw \ {w}
        /\ UNCHANGED <<list, restOfEvents, crashed, bset, bready, doubled, alone>>
        /\ blocking' \in {blocking, blocking \/ wat[w] = "join"}
    BY DEF Refuse, Return, MoveWaiter
  <1>2. w \in Busy
    BY <1>1 DEF Busy, Returned
  <1>3. "rest" \in Stations /\ "rest" \in Returned /\ "rest" \notin Waits
    BY DEF Stations, Returned, Waits
  <1>4. blocking' \in BOOLEAN
    BY <1>1, <1>2, BusyFacts
  <1>. QED
    BY <1>1, <1>2, <1>3, <1>4, BusyFacts, AloneFacts, UnlistedWInv

LEMMA JoinWInv ==
  ASSUME WInv, NEW w \in Waiters, Join(w)
  PROVE  WInv'
  <1>1. /\ wat[w] = "join" /\ blocking' = TRUE
        /\ UNCHANGED <<list, restOfEvents, crashed, doubled, alone>>
    BY DEF Join
  <1>2. w \in Busy
    BY <1>1 DEF Busy, Returned
  <1>3. PICK f \in IF call[w].gone THEN OpenFds ELSE {Held(w).fd} :
          IF f \in bset THEN Return(w, "join", "rest") /\ UNCHANGED <<bset, bready>>
          ELSE /\ MoveWaiter(w, "join", "loop") /\ UNCHANGED <<call, saw>>
               /\ bset' = bset \cup {f} /\ bready' = bready \cup {f}
    BY DEF Join
  <1>4. f \in Fds
    <2>1. CASE call[w].gone
      BY <1>3, <2>1 DEF OpenFds, Listed, Entry, WInv, IInv, TypeOK
    <2>2. CASE ~call[w].gone
      BY <1>1, <1>2, <1>3, <2>2, BusyFacts
    <2>. QED
      BY <2>1, <2>2
  <1>5. CASE f \in bset
    <2>1. /\ wat' = [wat EXCEPT ![w] = "rest"] /\ call' = [call EXCEPT ![w] = None]
          /\ saw' = saw \ {w} /\ UNCHANGED <<bset, bready>>
      BY <1>3, <1>5 DEF Return, MoveWaiter
    <2>2. "rest" \in Stations /\ "rest" \in Returned /\ "rest" \notin Waits
      BY DEF Stations, Returned, Waits
    <2>. QED
      BY <1>1, <1>2, <2>1, <2>2, BusyFacts, AloneFacts, UnlistedWInv
  <1>6. CASE f \notin bset
    <2>1. /\ wat' = [wat EXCEPT ![w] = "loop"] /\ call' = call /\ saw' = saw
          /\ bset' = bset \cup {f} /\ bready' = bready \cup {f}
      BY <1>3, <1>6 DEF MoveWaiter
    <2>2. "loop" \in Stations /\ "loop" \notin Returned /\ "loop" \in Waits
      BY DEF Stations, Returned, Waits
    <2>3. bset' \subseteq Fds /\ bready' \subseteq bset'
      BY <1>2, <1>4, <2>1, BusyFacts
    <2>4. ASSUME alone
          PROVE  Awaits(w)'
      <3>1. call[w].first /\ ~call[w].late /\ bset = {} /\ bready = {} /\ f = Held(w).fd
        BY <1>1, <1>2, <1>3, <2>4, AloneFacts, BusyFacts
      <3>2. Held(w)' = Held(w) /\ wat'[w] = "loop"
        BY <1>1, <2>1 DEF Held, WInv, WTypeOK
      <3>. QED
        BY <1>1, <2>1, <3>1, <3>2 DEF Awaits
    <2>. QED
      BY <1>1, <1>2, <2>1, <2>2, <2>3, <2>4, BusyFacts, UnlistedWInv
  <1>. QED
    BY <1>5, <1>6

LEMMA WaitAgainWInv ==
  ASSUME WInv, NEW w \in Waiters, WaitAgain(w)
  PROVE  WInv'
  <1>1. /\ wat[w] = "loop"
        /\ UNCHANGED <<list, restOfEvents, crashed, blocking, bset, bready, doubled, alone>>
    BY DEF WaitAgain, MoveWaiter, Return, blockingSet
  <1>2. w \in Busy
    BY <1>1 DEF Busy, Returned
  <1>3. wat[w] \in Waits
    BY <1>1 DEF Waits
  <1>4. CASE blocking
    <2>1. wat' = [wat EXCEPT ![w] = "wait"] /\ call' = call /\ saw' = saw
      BY <1>4 DEF WaitAgain, MoveWaiter
    <2>2. "wait" \in Stations /\ "wait" \notin Returned /\ "wait" \in Waits
      BY DEF Stations, Returned, Waits
    <2>3. ASSUME alone
          PROVE  Awaits(w)'
      <3>1. Held(w)' = Held(w) /\ wat'[w] = "wait" /\ Awaits(w)
        BY <1>1, <1>2, <1>3, <2>1, <2>3, AloneFacts DEF Held, WInv, WTypeOK
      <3>. QED
        BY <1>1, <2>1, <3>1 DEF Awaits
    <2>. QED
      BY <1>1, <1>2, <2>1, <2>2, <2>3, BusyFacts, UnlistedWInv
  <1>5. CASE ~blocking
    <2>1. wat' = [wat EXCEPT ![w] = "error"] /\ call' = [call EXCEPT ![w] = None]
          /\ saw' = saw \ {w}
      BY <1>5 DEF WaitAgain, MoveWaiter, Return
    <2>2. "error" \in Stations /\ "error" \in Returned
      BY DEF Stations, Returned
    <2>3. ~alone
      BY <1>2, <1>3, <1>5, AloneFacts DEF Awaits
    <2>. QED
      BY <1>1, <1>2, <2>1, <2>2, <2>3, BusyFacts, UnlistedWInv
  <1>. QED
    BY <1>4, <1>5

LEMMA WaitInterruptWInv ==
  ASSUME WInv, NEW w \in Waiters, WaitInterrupt(w)
  PROVE  WInv'
  <1>1. /\ wat[w] \in {"wait", "orphan"} /\ wat' = [wat EXCEPT ![w] = "loop"]
        /\ UNCHANGED <<list, restOfEvents, crashed, call, saw, blocking, bset, bready, doubled,
                       alone>>
    BY DEF WaitInterrupt, MoveWaiter, blockingSet
  <1>2. w \in Busy
    BY <1>1 DEF Busy, Returned
  <1>3. "loop" \in Stations /\ "loop" \notin Returned /\ "loop" \in Waits
    BY DEF Stations, Returned, Waits
  <1>4. ASSUME alone
        PROVE  Awaits(w)'
    <2>1. wat[w] = "wait" /\ wat[w] \in Waits
      BY <1>1, <1>2, <1>4, AloneFacts DEF Waits
    <2>2. Held(w)' = Held(w) /\ wat'[w] = "loop" /\ Awaits(w)
      BY <1>1, <1>2, <1>4, <2>1, AloneFacts DEF Held, WInv, WTypeOK
    <2>. QED
      BY <1>1, <2>1, <2>2 DEF Awaits
  <1>. QED
    BY <1>1, <1>2, <1>3, <1>4, BusyFacts, UnlistedWInv

(* epoll_wait () returns: with a trigger, or with none when none is there.  *)
LEMMA WakeWInv ==
  ASSUME WInv, NEW w \in Waiters, NEW from \in {"wait", "orphan"},
         NEW f \in Fds \cup {None}, Wake(w, from, f),
         f = None \/ (f \in bready /\ from = "wait"),
         f = None => from = "orphan" \/ bready = {},
         bready' = bready \ {f},
         UNCHANGED <<list, restOfEvents, crashed, saw, blocking, bset, doubled, alone>>
  PROVE  WInv'
  <1>1. wat[w] = from
    BY DEF Wake, MoveWaiter
  <1>2. w \in Busy
    BY <1>1 DEF Busy, Returned
  <1>3. /\ bready' \subseteq bset' /\ bset' \subseteq Fds
        /\ call[w] \in Call_ /\ call[w].first \in BOOLEAN /\ call[w].late \in BOOLEAN
    BY <1>2, BusyFacts
  <1>4. ASSUME alone
        PROVE  from = "wait" /\ Awaits(w)
    BY <1>1, <1>2, <1>4, AloneFacts DEF Waits
  <1>5. CASE call[w].first
    <2> DEFINE c == [call[w] EXCEPT !.first = FALSE, !.late = @ \/ f = None]
    <2>1. /\ wat' = [wat EXCEPT ![w] = "loop"] /\ call' = [call EXCEPT ![w] = c]
      BY <1>5 DEF Wake, MoveWaiter
    <2>2. /\ c \in Call_ /\ c # None /\ c.gpio = call[w].gpio /\ c.gone = call[w].gone
          /\ ~c.first /\ (c.late <=> call[w].late \/ f = None)
      <3>1. c \in Call_
        BY <1>3 DEF Call_
      <3>. QED
        BY <1>3, <3>1, WaitAssumption DEF Call_
    <2> HIDE DEF c
    <2>3. "loop" \in Stations /\ "loop" \notin Returned /\ "loop" \in Waits
      BY DEF Stations, Returned, Waits
    <2>4. wat'[w] = "loop" /\ call'[w] = c
      BY <2>1 DEF WInv, WTypeOK
    <2>5. ASSUME alone
          PROVE  Awaits(w)'
      <3>1. Held(w)' = Held(w)
        BY <2>2, <2>4 DEF Held
      <3>2. bready = {Held(w).fd} /\ bset = {Held(w).fd} /\ blocking /\ ~call[w].late
        BY <1>4, <1>5, <2>5 DEF Awaits
      <3>3. f = Held(w).fd /\ f # None /\ bready' = {} /\ ~c.late
        <4>1. f \in bready
          BY <1>4, <2>5, <3>2
        <4>2. f # None
          BY <1>3, <4>1, EventAssumption, BusyFacts, <1>2
        <4>. QED
          BY <2>2, <3>2, <4>1, <4>2
      <3>. QED
        BY <2>2, <2>4, <3>1, <3>2, <3>3 DEF Awaits
    <2>6. wat[w] # "create"
      BY <1>1
    <2>. QED
      BY <1>2, <1>3, <2>1, <2>2, <2>3, <2>5, <2>6, BusyFacts, UnlistedWInv
  <1>6. CASE ~call[w].first
    <2> DEFINE c == [call[w] EXCEPT !.got = f, !.late = @ \/ f = None]
    <2>1. /\ wat' = [wat EXCEPT ![w] = "test"] /\ call' = [call EXCEPT ![w] = c]
      BY <1>6 DEF Wake, MoveWaiter
    <2>2. /\ c \in Call_ /\ c # None /\ c.gpio = call[w].gpio /\ c.gone = call[w].gone
          /\ ~c.first /\ c.got = f
      <3>1. c \in Call_
        BY <1>3 DEF Call_
      <3>. QED
        BY <1>3, <1>6, <3>1, WaitAssumption DEF Call_
    <2> HIDE DEF c
    <2>3. "test" \in Stations /\ "test" \notin Returned /\ "test" \in Waits
      BY DEF Stations, Returned, Waits
    <2>4. wat'[w] = "test" /\ call'[w] = c
      BY <2>1 DEF WInv, WTypeOK
    <2>5. ASSUME alone
          PROVE  Awaits(w)'
      <3>1. Held(w)' = Held(w)
        BY <2>2, <2>4 DEF Held
      <3>2. bset = {Held(w).fd} /\ blocking /\ (bready # {} => w \in saw)
        BY <1>4, <1>6, <2>5 DEF Awaits
      <3>3. f = None \/ (f = Held(w).fd /\ w \in saw)
        BY <1>2, <3>2, BusyFacts
      <3>. QED
        BY <2>2, <2>4, <3>1, <3>2, <3>3 DEF Awaits
    <2>6. wat[w] # "create"
      BY <1>1
    <2>. QED
      BY <1>2, <1>3, <2>1, <2>2, <2>3, <2>5, <2>6, BusyFacts, UnlistedWInv
  <1>. QED
    BY <1>5, <1>6

LEMMA BounceWInv ==
  ASSUME WInv, NEW w \in Waiters, Bounce(w)
  PROVE  WInv'
  <1> DEFINE c == [call[w] EXCEPT !.got = None]
  <1>1. /\ wat[w] = "test" /\ ~call[w].gone /\ Held(w).bounce
        /\ wat' = [wat EXCEPT ![w] = "loop"] /\ call' = [call EXCEPT ![w] = c]
        /\ UNCHANGED <<list, restOfEvents, crashed, saw, blocking, bset, bready, doubled, alone>>
    BY DEF Bounce, MoveWaiter, blockingSet
  <1>2. w \in Busy
    BY <1>1 DEF Busy, Returned
  <1>3. /\ c \in Call_ /\ c # None /\ c.gpio = call[w].gpio /\ c.gone = call[w].gone
        /\ c.first = call[w].first
    <2>1. call[w] \in Call_
      BY <1>2, BusyFacts
    <2>2. c \in Call_
      BY <2>1 DEF Call_
    <2>. QED
      BY <2>1, <2>2, WaitAssumption DEF Call_
  <1> HIDE DEF c
  <1>4. "loop" \in Stations /\ "loop" \notin Returned /\ "loop" \in Waits /\ wat[w] \in Waits
    BY <1>1 DEF Stations, Returned, Waits
  <1>5. ASSUME alone
        PROVE  Awaits(w)'
    <2>1. Awaits(w)
      BY <1>2, <1>4, <1>5, AloneFacts
    <2>2. wat'[w] = "loop" /\ call'[w] = c
      BY <1>1 DEF WInv, WTypeOK
    <2>3. Held(w)' = Held(w)
      BY <1>1, <1>3, <2>2 DEF Held
    <2>4. ~c.first
      BY <1>1, <1>3, <2>1 DEF Awaits
    <2>. QED
      BY <1>1, <1>3, <2>1, <2>2, <2>3, <2>4 DEF Awaits
  <1>. QED
    BY <1>1, <1>2, <1>3, <1>4, <1>5, BusyFacts, UnlistedWInv

LEMMA FinishWInv ==
  ASSUME WInv, NEW w \in Waiters, Finish(w)
  PROVE  WInv'
  <1> DEFINE g == call[w].gpio
             x == Result(w)
  <1>1. /\ wat[w] = "test" /\ ~call[w].gone
        /\ wat' = [wat EXCEPT ![w] = x] /\ call' = [call EXCEPT ![w] = None]
        /\ saw' = IF x = "edge" THEN saw ELSE saw \ {w}
        /\ list' = [list EXCEPT ![g] = [list[g] EXCEPT !.called = TRUE]]
        /\ bset' = bset \ {Held(w).fd} /\ bready' = bready \ {Held(w).fd}
        /\ UNCHANGED <<restOfEvents, crashed, blocking, doubled, alone>>
    BY DEF Finish, Return, MoveWaiter
  <1>2. w \in Busy
    BY <1>1 DEF Busy, Returned
  <1>3. g \in Listed /\ list[g] \in Entry
    BY <1>1, <1>2, BusyFacts DEF Held, Listed
  <1>4. list' \in [Gpios -> Entry \cup {None}] /\ EntriesKept /\ Listed' = Listed
    <2> DEFINE d == [list[g] EXCEPT !.called = TRUE]
    <2>1. /\ d \in Entry /\ d.fd = list[g].fd /\ d.thread_added = list[g].thread_added
          /\ d.initial_thread = list[g].initial_thread
      BY <1>3, EntryCalled
    <2> HIDE DEF d
    <2>2. list' = [list EXCEPT ![g] = d]
      BY <1>1 DEF d
    <2>3. TypeOK
      BY DEF WInv, IInv
    <2> HIDE DEF g
    <2>. QED
      BY <1>3, <2>1, <2>2, <2>3, EntryChanges
  <1>5. x \in Returned /\ x \in Stations /\ x \notin Waits
    BY DEF Result, Returned, Stations, Waits
  <1>6. bset' \subseteq Fds /\ bready' \subseteq bset'
    BY <1>1, <1>2, BusyFacts
  <1>7. ASSUME alone
        PROVE  (x = "edge" => w \in saw) /\ x # "error" /\ bset' = {}
    <2>1. Awaits(w)
      BY <1>1, <1>2, <1>7, AloneFacts DEF Waits
    <2>. QED
      BY <1>1, <2>1 DEF Awaits, Result
  <1>8. saw' = saw \/ (saw' = saw \ {w} /\ x # "edge")
    BY <1>1
  <1> HIDE DEF x, g
  <1>9. x \notin {"create", "join", "orphan"}
    BY <1>5 DEF Returned
  <1>. QED
    BY <1>1, <1>2, <1>4, <1>5, <1>6, <1>7, <1>8, <1>9, BusyFacts, WaiterWInv

LEMMA FinishFreedWInv ==
  ASSUME WInv, NEW w \in Waiters, FinishFreed(w)
  PROVE  WInv'
  <1>1. /\ wat[w] = "test" /\ call[w].gone /\ crashed' \in BOOLEAN
        /\ UNCHANGED <<list, restOfEvents, blocking, doubled, alone>>
    BY DEF FinishFreed
  <1>2. w \in Busy
    BY <1>1 DEF Busy, Returned
  <1>3. ~alone
    BY <1>1, <1>2, AloneFacts
  <1>4. bset' \subseteq Fds /\ bready' \subseteq bset'
    BY <1>2, BusyFacts DEF FinishFreed
  <1>5. CASE MoveWaiter(w, "test", "loop") /\ UNCHANGED saw
             /\ call' = [call EXCEPT ![w] = [call[w] EXCEPT !.got = None]]
    <2> DEFINE c == [call[w] EXCEPT !.got = None]
    <2>1. c \in Call_ /\ c # None /\ c.gpio = call[w].gpio /\ c.gone = call[w].gone
      <3>1. call[w] \in Call_
        BY <1>2, BusyFacts
      <3>2. c \in Call_
        BY <3>1 DEF Call_
      <3>. QED
        BY <3>1, <3>2, WaitAssumption DEF Call_
    <2>2. "loop" \in Stations /\ "loop" \notin Returned
      BY DEF Stations, Returned
    <2>3. wat' = [wat EXCEPT ![w] = "loop"] /\ call' = [call EXCEPT ![w] = c] /\ saw' = saw
      BY <1>5 DEF MoveWaiter
    <2> HIDE DEF c
    <2>. QED
      BY <1>1, <1>2, <1>3, <1>4, <2>1, <2>2, <2>3, BusyFacts, UnlistedWInv
  <1>6. ASSUME NEW x \in Returned, Return(w, "test", x)
        PROVE  WInv'
    <2>1. /\ wat' = [wat EXCEPT ![w] = x] /\ call' = [call EXCEPT ![w] = None]
          /\ saw' = IF x = "edge" THEN saw ELSE saw \ {w}
      BY <1>6 DEF Return, MoveWaiter
    <2>2. x \in Stations
      BY DEF Stations
    <2>3. saw' = saw \/ (saw' = saw \ {w} /\ x # "edge")
      BY <2>1
    <2>. QED
      BY <1>1, <1>2, <1>3, <1>4, <2>1, <2>2, <2>3, BusyFacts, UnlistedWInv
  <1>7. {"rest"} \subseteq Returned /\ {"edge", "error"} \subseteq Returned
    BY DEF Returned
  <1>. QED
    BY <1>5, <1>6, <1>7 DEF FinishFreed

LEMMA WaitingWInv ==
  ASSUME WInv, NEW w \in Waiters, Waiting(w)
  PROVE  WInv'
  <1>1. ASSUME NEW f \in Fds, WaitTrigger(w, f)
        PROVE  WInv'
    BY <1>1, EventAssumption, WakeWInv DEF WaitTrigger
  <1>. QED
    BY <1>1, CreateWInv, JoinWInv, WaitAgainWInv, BounceWInv, FinishWInv, FinishFreedWInv
       DEF Waiting

LEMMA WaitStepWInv ==
  ASSUME WInv, NEW w \in Waiters, WaitStep(w)
  PROVE  WInv'
  <1>1. CASE WaitTimeout(w)
    <2>1. bready' = bready \ {None}
      BY <1>1, EventAssumption DEF WaitTimeout, blockingSet, WInv, WTypeOK
    <2>2. UNCHANGED <<list, restOfEvents, crashed, saw, blocking, bset, doubled, alone>>
      BY <1>1 DEF WaitTimeout, blockingSet
    <2>. QED
      BY <1>1, <2>1, <2>2, WakeWInv DEF WaitTimeout
  <1>. QED
    BY <1>1, BeginWInv, RefuseWInv, WaitInterruptWInv DEF WaitStep

-----------------------------------------------------------------------------
(* The steps of GpioEvents.                                                 *)

(* A call frees the entries it takes off the list under the waits.          *)
LEMMA RemovalTypes ==
  ASSUME WInv, TypeOK', FollowRemovals, saw' = saw, doubled' = doubled,
         blocking' \in BOOLEAN,
         \A w \in Waiters : wat'[w] = wat[w] \/ (wat[w] = "wait" /\ wat'[w] = "orphan"),
         wat' \in [Waiters -> Stations]
  PROVE  WTypeOK'
  <1> USE DEF WInv
  <1>1. \A w \in Waiters : call'[w] = None <=> call[w] = None
    <2>1. \A w \in Busy : call[w] \in Call_ /\ [call[w] EXCEPT !.gone = TRUE] \in Call_
      <3>1. \A w \in Busy : call[w] \in Call_
        BY DEF WTypeOK, Busy
      <3>. QED
        BY <3>1 DEF Call_
    <2>. QED
      BY <2>1, WaitAssumption DEF FollowRemovals, Holding
  <1>2. call' \in [Waiters -> Call_ \cup {None}]
    <2>1. \A w \in Holding : [call[w] EXCEPT !.gone = TRUE] \in Call_
      <3>1. \A w \in Holding : call[w] \in Call_
        BY DEF WTypeOK, Busy, Holding
      <3>. QED
        BY <3>1 DEF Call_
    <2>. QED
      BY <2>1 DEF FollowRemovals, WTypeOK
  <1>3. \A w \in Waiters : call'[w] = None <=> w \notin Busy'
    BY <1>1 DEF WTypeOK, Busy, Returned
  <1>4. /\ bset' \subseteq Fds /\ bready' \subseteq bset' /\ alone' \in BOOLEAN
    BY DEF FollowRemovals, WTypeOK
  <1>. QED
    BY <1>2, <1>3, <1>4 DEF WTypeOK, Stations

LEMMA RemovalHolds ==
  ASSUME WInv, FollowRemovals, \A h \in Gpios : list'[h] = None => list[h] = None \/ h \in Listed,
         \A w \in Waiters : wat'[w] = wat[w] \/ (wat[w] = "wait" /\ wat'[w] = "orphan")
  PROVE  HeldListed'
  <1> USE DEF WInv
  <1>1. SUFFICES ASSUME NEW w \in Waiters, w \in Holding', ~call'[w].gone
                 PROVE  list'[call'[w].gpio] # None
    BY DEF HeldListed, Held, Holding, Busy
  <1>2. w \in Holding
    BY <1>1 DEF Holding, Busy, Returned
  <1>3. call[w] \in Call_ /\ call[w].gpio \in Gpios
    <2>1. call[w] \in Call_
      BY <1>2 DEF WTypeOK, Holding, Busy
    <2>. QED
      BY <2>1 DEF Call_
  <1> DEFINE removed == {g \in Listed : list'[g] = None}
  <1>4. call'[w] = IF call[w].gpio \in removed THEN [call[w] EXCEPT !.gone = TRUE] ELSE call[w]
    BY <1>2 DEF FollowRemovals
  <1>5. [call[w] EXCEPT !.gone = TRUE].gone
    BY <1>3 DEF Call_
  <1>6. call[w].gpio \notin removed /\ call'[w] = call[w]
    BY <1>1, <1>4, <1>5
  <1>7. call[w].gpio \in Listed
    BY <1>1, <1>2, <1>3, <1>6 DEF HeldListed, Held, Listed
  <1>. QED
    BY <1>6, <1>7

LEMMA RemovalSole ==
  ASSUME WInv, FollowRemovals, alone', saw' = saw,
         \A h \in Listed : list'[h] # None =>
           list'[h].fd = list[h].fd /\ list'[h].bounce = list[h].bounce,
         (wat' = wat /\ blocking' = blocking) \/ \A h \in Listed : list'[h] = None,
         wat' \in [Waiters -> Stations],
         \A w \in Waiters : wat'[w] = wat[w] \/ (wat[w] = "wait" /\ wat'[w] = "orphan")
  PROVE  Sole'
  <1> USE DEF WInv
  <1> DEFINE removed == {g \in Listed : list'[g] = None}
  <1>1. alone /\ Sole /\ \A w \in Holding : call[w].gpio \notin removed
    BY DEF FollowRemovals, SoleInv
  <1>2. call' = call
    BY <1>1 DEF FollowRemovals, WTypeOK
  <1>3. \A w \in Holding : /\ call[w].gpio \in Listed /\ list'[call[w].gpio] # None
                           /\ Held(w)' = list'[call[w].gpio]
    <2>1. \A w \in Holding : w \in Busy /\ wat[w] # "create"
      BY DEF Holding
    <2>. QED
      BY <1>1, <1>2, <2>1, BusyFacts DEF Held, Listed, Sole
  <1>4. wat' = wat /\ (blocking' = blocking \/ Holding = {})
    <2>1. CASE \A h \in Listed : list'[h] = None
      <3>1. Holding = {}
        BY <1>3, <2>1
      <3>2. \A w \in Waiters : wat[w] # "wait"
        BY <3>1 DEF Holding, Busy, Returned
      <3>3. \A w \in Waiters : wat'[w] = wat[w]
        BY <3>2
      <3>. QED
        BY <3>1, <3>3 DEF WTypeOK
    <2>. QED
      BY <2>1
  <1>5. Busy' = Busy /\ Holding' = Holding
    BY <1>4 DEF Busy, Holding
  <1>6. ASSUME NEW w \in Waiters, wat[w] \in Waits
        PROVE  Awaits(w)' /\ bset' = bset
    <2>1. w \in Holding /\ Awaits(w)
      BY <1>1, <1>6 DEF Sole, Holding, Busy, Waits, Returned
    <2> DEFINE g == call[w].gpio
    <2>2. g \in Listed /\ list'[g] # None /\ Held(w)' = list'[g] /\ Held(w) = list[g]
      BY <1>3, <2>1 DEF Held
    <2>3. Held(w)'.fd = Held(w).fd /\ Held(w)'.bounce = Held(w).bounce
      BY <2>2
    <2>4. \A h \in removed : list[h].fd # list[g].fd
      BY <2>2 DEF IInv, WatchedIsRegistered
    <2>5. bset' = bset /\ bready' = bready
      <3>1. bset = {list[g].fd} /\ bready \subseteq bset
        BY <2>1, <2>2 DEF Awaits, WTypeOK
      <3>2. list[g].fd \notin {list[h].fd : h \in removed}
        BY <2>4
      <3>3. /\ bset' = bset \ {list[h].fd : h \in removed}
            /\ bready' = bready \ {list[h].fd : h \in removed}
        BY DEF FollowRemovals
      <3>. QED
        BY <3>1, <3>2, <3>3
    <2>. QED
      BY <1>2, <1>4, <2>1, <2>3, <2>5 DEF Awaits
  <1>7. (\A w \in Waiters : wat[w] \notin Waits) => bset' = {}
    BY <1>1 DEF Sole, FollowRemovals
  <1>8. \A w \in Busy' : ~call'[w].gone /\ wat'[w] # "orphan"
    BY <1>1, <1>2, <1>4, <1>5 DEF Sole
  <1>9. \A w \in Busy' : wat'[w] \in {"create", "join"} => call'[w].first /\ ~call'[w].late
    BY <1>1, <1>2, <1>4, <1>5 DEF Sole
  <1>10. \A w \in Waiters : (wat'[w] = "edge" => w \in saw') /\ wat'[w] # "error"
    BY <1>1, <1>4 DEF Sole
  <1>11. \A v, w \in Busy' : v = w
    BY <1>1, <1>5 DEF Sole
  <1>. QED
    BY <1>4, <1>6, <1>7, <1>8, <1>9, <1>10, <1>11 DEF Sole

LEMMA CallWInv ==
  ASSUME WInv, ~crashed, Calls, FollowRemovals, saw' = saw, doubled' = doubled,
         blocking' \in BOOLEAN, wat' \in [Waiters -> Stations],
         (wat' = wat /\ blocking' = blocking) \/ \A h \in Listed : list'[h] = None,
         \A w \in Waiters : wat'[w] = wat[w] \/ (wat[w] = "wait" /\ wat'[w] = "orphan")
  PROVE  WInv'
  <1> USE DEF WInv
  <1>1. Next
    BY DEF Next
  <1>2. IInv' /\ (RaceInv => RaceInv')
    BY <1>1, NextIInv, NextRace
  <1>3. WTypeOK'
    BY <1>2, RemovalTypes DEF IInv
  <1>4. HeldListed'
    BY RemovalHolds DEF Listed
  <1>5. alone' => alone
    BY DEF FollowRemovals
  <1>6. ServedInv'
    BY <1>2, <1>5 DEF ServedInv
  <1>7. \A h \in Listed : list'[h] # None =>
           list'[h].fd = list[h].fd /\ list'[h].bounce = list[h].bounce
    BY CallsKeepEntries DEF IInv
  <1>8. SoleInv'
    BY <1>7, RemovalSole DEF SoleInv
  <1>. QED
    BY <1>2, <1>3, <1>4, <1>6, <1>8

LEMMA EventCallWInv ==
  ASSUME WInv, ~crashed, EventCall
  PROVE  WInv'
  <1>1. Calls /\ FollowRemovals /\ UNCHANGED <<wat, saw, blocking, doubled>>
    BY DEF EventCall, Calls
  <1>2. wat' \in [Waiters -> Stations] /\ blocking' \in BOOLEAN
    BY <1>1 DEF WInv, WTypeOK, Stations
  <1>. QED
    BY <1>1, <1>2, CallWInv

LEMMA WaitCleanupWInv ==
  ASSUME WInv, ~crashed, NEW S \in CleanupSets, WaitCleanup(S)
  PROVE  WInv'
  <1>1. Calls /\ FollowRemovals /\ UNCHANGED <<saw, doubled>>
    BY DEF WaitCleanup, Calls
  <1>2. CASE Listed \subseteq S
    <2>1. /\ blocking' = FALSE
          /\ wat' = [w \in Waiters |-> IF wat[w] = "wait" THEN "orphan" ELSE wat[w]]
      BY <1>2 DEF WaitCleanup
    <2>2. wat' \in [Waiters -> Stations]
      BY <2>1 DEF WInv, WTypeOK, Stations
    <2>3. \A h \in Listed : list'[h] = None
      BY <1>2 DEF WaitCleanup, Cleanup, RemoveEdgeDetect, Listed
    <2>. QED
      BY <1>1, <2>1, <2>2, <2>3, CallWInv
  <1>3. CASE ~(Listed \subseteq S)
    <2>1. wat' = wat /\ blocking' = blocking
      BY <1>3 DEF WaitCleanup
    <2>2. wat' \in [Waiters -> Stations] /\ blocking' \in BOOLEAN
      BY <2>1 DEF WInv, WTypeOK, Stations
    <2>. QED
      BY <1>1, <2>1, <2>2, CallWInv
  <1>. QED
    BY <1>2, <1>3

(* The poll threads and signals to them.                                    *)
LEMMA PollStepWInv ==
  ASSUME WInv, [Next]_vars, UNCHANGED waitVars,
         \A h \in Listed : /\ list'[h] # None /\ list'[h].fd = list[h].fd
                           /\ list'[h].bounce = list[h].bounce
  PROVE  WInv'
  <1> USE DEF WInv, waitVars, blockingSet
  <1>1. IInv' /\ (RaceInv => RaceInv')
    BY NextIInv, NextRace
  <1>2. WTypeOK'
    BY <1>1 DEF IInv, WTypeOK, Busy
  <1>3. \A w \in Holding : ~call[w].gone => call[w].gpio \in Listed
    <2>1. \A w \in Holding : w \in Busy /\ wat[w] # "create"
      BY DEF Holding
    <2>. QED
      BY <2>1, BusyFacts DEF Held, Listed
  <1>4. HeldListed'
    BY <1>3 DEF HeldListed, Holding, Busy, Held
  <1>5. ServedInv'
    BY <1>1 DEF ServedInv
  <1>6. ASSUME alone, Sole
        PROVE  Sole'
    <2>1. ASSUME NEW w \in Waiters, wat[w] \in Waits
          PROVE  Awaits(w)'
      <3>1. w \in Holding /\ Awaits(w) /\ ~call[w].gone
        BY <1>6, <2>1 DEF Sole, Holding, Busy, Waits, Returned
      <3>2. Held(w)'.fd = Held(w).fd /\ Held(w)'.bounce = Held(w).bounce
        BY <1>3, <3>1 DEF Held
      <3>. QED
        BY <3>1, <3>2 DEF Awaits
    <2>2. Busy' = Busy
      BY DEF Busy
    <2>. QED
      BY <1>6, <2>1, <2>2 DEF Sole
  <1>. QED
    BY <1>1, <1>2, <1>4, <1>5, <1>6 DEF SoleInv

LEMMA WaitEdgeWInv ==
  ASSUME WInv, ~crashed, NEW g \in Gpios, WaitEdge(g)
  PROVE  WInv'
  <1> USE DEF WInv
  <1>1. /\ Edge(g) /\ bready' = bready \cup (bset \cap {list[g].fd})
        /\ saw' = saw \cup {w \in Holding : call[w].gpio = g}
        /\ UNCHANGED <<wat, call, blocking, bset, doubled, alone>>
    BY DEF WaitEdge
  <1>2. Next
    BY <1>1 DEF Next, Environment
  <1>3. IInv' /\ (RaceInv => RaceInv')
    BY <1>2, NextIInv, NextRace
  <1>4. list' = list /\ Listed' = Listed /\ Busy' = Busy /\ Holding' = Holding
        /\ g \in Listed
    BY <1>1 DEF Edge, lists, Listed, Busy, Holding
  <1>5. WTypeOK'
    BY <1>1, <1>3, <1>4 DEF IInv, WTypeOK, Holding, Busy
  <1>6. HeldListed'
    BY <1>1, <1>4 DEF HeldListed, Held
  <1>7. ServedInv'
    BY <1>1, <1>3 DEF ServedInv
  <1>8. ASSUME alone, Sole
        PROVE  Sole'
    <2>1. ASSUME NEW w \in Waiters, wat[w] \in Waits
          PROVE  Awaits(w)'
      <3>1. w \in Holding /\ Awaits(w) /\ Held(w)' = Held(w) /\ w \in Busy
        BY <1>1, <1>4, <1>8, <2>1 DEF Sole, Holding, Busy, Waits, Returned, Held
      <3>2. call[w].gpio \in Listed
        BY <1>8, <3>1, BusyFacts DEF Sole, Holding, Held, Listed
      <3>3. bready' # bready => w \in saw'
        <4>1. list[g].fd = Held(w).fd => g = call[w].gpio
          BY <1>4, <3>2 DEF IInv, WatchedIsRegistered, Held
        <4>. QED
          BY <1>1, <3>1, <4>1 DEF Awaits
      <3>4. bset = bready => bready' = bready
        BY <1>1
      <3>. QED
        BY <1>1, <3>1, <3>3, <3>4 DEF Awaits
    <2>. QED
      BY <1>1, <1>4, <1>8, <2>1 DEF Sole
  <1>. QED
    BY <1>1, <1>3, <1>5, <1>6, <1>7, <1>8 DEF SoleInv

-----------------------------------------------------------------------------
LEMMA InitWInv == WInit => WInv
  <1> SUFFICES ASSUME WInit PROVE WInv
    OBVIOUS
  <1>1. IInv /\ RaceInv
    BY InitIInv, InitRace DEF WInit
  <1>2. Busy = {}
    BY DEF WInit, Busy, Returned
  <1>3. WTypeOK
    BY <1>1, <1>2 DEF WInit, WTypeOK, IInv, Returned
  <1>4. Sole
    BY <1>2 DEF WInit, Sole, Waits
  <1>. QED
    BY <1>1, <1>2, <1>3, <1>4 DEF WInv, HeldListed, Holding, ServedInv, SoleInv

LEMMA NextWInv == WInv /\ [WNext]_wvars => WInv'
  <1> SUFFICES ASSUME WInv, [WNext]_wvars PROVE WInv'
    OBVIOUS
  <1>1. ASSUME ~crashed, NEW t \in Threads, Interrupt(t), UNCHANGED waitVars
        PROVE  WInv'
    <2>1. Next /\ list' = list
      BY <1>1 DEF Next, Interrupt, shared, lists
    <2>. QED
      BY <1>1, <2>1, PollStepWInv DEF Listed
  <1>2. ASSUME NEW t \in Threads, PollStep(t)
        PROVE  WInv'
    <2>1. Next /\ PollThread(t) /\ UNCHANGED waitVars
      BY <1>2 DEF Next, PollStep
    <2>2. TypeOK
      BY DEF WInv, IInv
    <2>. QED
      BY <2>1, <2>2, PollThreadKeepsEntries, PollStepWInv
  <1>3. CASE UNCHANGED wvars
    <2>1. UNCHANGED vars /\ UNCHANGED waitVars /\ list' = list
      BY <1>3 DEF wvars, vars, lists
    <2>. QED
      BY <2>1, PollStepWInv DEF Listed
  <1>4. CASE ~crashed /\ EventStep
    BY <1>1, <1>4, EventCallWInv, WaitCleanupWInv, WaitEdgeWInv DEF EventStep
  <1>. QED
    BY <1>2, <1>3, <1>4, WaitStepWInv, WaitingWInv DEF WNext

LEMMA WInvAlways == WSpec => []WInv
  BY InitWInv, NextWInv, PTL DEF WSpec

(* In every state the variables have their types.                           *)
THEOREM WTypeOKAlways == WSpec => []WTypeOK
  <1>1. WInv => WTypeOK
    BY DEF WInv
  <1>. QED
    BY <1>1, WInvAlways, PTL

(* For any number of gpios, threads and waiters: as long as waits do not    *)
(* overlap and no entry is removed under one, a wait that reports an edge   *)
(* saw one, and none ends with an error.                                    *)
THEOREM SoleWaitIsTrueAlways == WSpec => []SoleWaitIsTrue
  <1>1. WInv => SoleWaitIsTrue
    BY DEF WInv, SoleInv, Sole, SoleWaitIsTrue
  <1>. QED
    BY <1>1, WInvAlways, PTL

(* Event detection is served beside such waits as it is without them.       *)
THEOREM ServedBesideWaitsAlways == WSpec => []ServedBesideWaits
  <1>1. WInv => ServedBesideWaits
    BY DEF WInv, ServedInv, RaceInv, Calm, ThreadsServe, Serving, InLoop, ServedBesideWaits,
           ServedUnlessRaced
  <1>. QED
    BY <1>1, WInvAlways, PTL

(* Without a bounce time such a wait times out once at most.                *)
THEOREM OneTimeoutAlways == WSpec => []OneTimeout
  <1>1. ASSUME WInv, alone, NEW w \in Holding, call[w].late, wat[w] # "test"
        PROVE  Held(w).bounce
    <2>1. w \in Busy
      BY DEF Holding
    <2>2. wat[w] \in Waits /\ Awaits(w)
      BY <1>1, <2>1, AloneFacts DEF WInv, WTypeOK, Holding, Busy, Returned, Waits
    <2>. QED
      BY <1>1, <2>2 DEF Awaits
  <1>2. WInv => OneTimeout
    BY <1>1 DEF OneTimeout
  <1>. QED
    BY <1>2, WInvAlways, PTL

=============================================================================
