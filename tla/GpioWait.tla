------------------------------ MODULE GpioWait ------------------------------
(***************************************************************************)
(* wait_for_edge () of RPi.GPIO beside the event calls and the poll        *)
(* threads of GpioEvents.  It is the one call that gives up the global     *)
(* lock: other Python threads make their calls while it runs, on the same  *)
(* gpio list, and several waits share one epoll set.                       *)
(*                                                                         *)
(* The walk over the gpio list before the wait is one step; opening the    *)
(* value file of a new entry takes time of its own.                        *)
(***************************************************************************)
EXTENDS GpioEvents

CONSTANT Waiters    (* Python threads that wait for edges                   *)

(* The arguments and locals of a call: got is events.data.fd after the      *)
(* wait, None after a timeout.  gone: the entry it holds was freed; late:   *)
(* it timed out once.                                                       *)
Call_ == [gpio : Gpios, edge : Edges, bounce : Bounces, first : BOOLEAN,
          got : Fds \cup {None}, gone : BOOLEAN, late : BOOLEAN]

ASSUME WaitAssumption == None \notin Call_

VARIABLES
  wat,       (* where each waiter is in its call; "edge" and "error" when   *)
             (* its last call returned so, "rest" when it timed out or was  *)
             (* refused                                                     *)
  call,      (* its call, None when it is in none                           *)
  saw,       (* waiters to whose gpio an edge came in the current or last   *)
             (* call                                                        *)
  blocking,  (* epfd_blocking is open                                       *)
  bset,      (* descriptors in that epoll set                               *)
  bready,    (* those with a trigger                                        *)
  doubled,   (* two entries for one gpio: not followed further              *)
  alone      (* so far no two waits overlapped, and no entry was removed    *)
             (* under a wait                                                *)

Returned == {"rest", "edge", "error"}
Busy == {w \in Waiters : wat[w] \notin Returned}
Holding == {w \in Busy : wat[w] # "create"}
Held(w) == list[call[w].gpio]

blockingSet == <<blocking, bset, bready>>
waitVars == <<wat, call, saw, blockingSet, doubled, alone>>

WInit ==
  /\ Init
  /\ wat = [w \in Waiters |-> "rest"]
  /\ call = [w \in Waiters |-> None]
  /\ saw = {}
  /\ blocking = FALSE /\ bset = {} /\ bready = {}
  /\ doubled = FALSE /\ alone = TRUE

-----------------------------------------------------------------------------
(* What the steps of GpioEvents do to the waits.                            *)

(* Entries that leave the list are freed and their files closed: the kernel *)
(* takes the descriptors out of both epoll sets.                            *)
FollowRemovals ==
  LET removed == {g \in Listed : list'[g] = None}
      hit == {w \in Holding : call[w].gpio \in removed}
  IN /\ call' = [w \in Waiters |-> IF w \in hit THEN [call[w] EXCEPT !.gone = TRUE]
                                                ELSE call[w]]
     /\ alone' = (alone /\ hit = {})
     /\ bset' = bset \ {list[g].fd : g \in removed}
     /\ bready' = bready \ {list[g].fd : g \in removed}

EventCall ==
  /\ EventCalls /\ FollowRemovals
  /\ UNCHANGED <<wat, saw, blocking, doubled>>

(* event_cleanup () closes this epoll set too when it leaves no entry.      *)
WaitCleanup(S) ==
  /\ Cleanup(S) /\ FollowRemovals
  /\ IF Listed \subseteq S
     THEN /\ blocking' = FALSE
          /\ wat' = [w \in Waiters |-> IF wat[w] = "wait" THEN "orphan" ELSE wat[w]]
     ELSE UNCHANGED <<blocking, wat>>
  /\ UNCHANGED <<saw, doubled>>

WaitEdge(g) ==
  /\ Edge(g)
  /\ bready' = bready \cup (bset \cap {list[g].fd})
  /\ saw' = saw \cup {w \in Holding : call[w].gpio = g}
  /\ UNCHANGED <<wat, call, blocking, bset, doubled, alone>>

-----------------------------------------------------------------------------
(* blocking_wait_for_edge ().                                               *)

restOfEvents == <<callbacks, py_callbacks, event_occurred, thread_running, epoll,
                  ready, local, edged, raced>>

MoveWaiter(w, from, to) == wat[w] = from /\ wat' = [wat EXCEPT ![w] = to]

Return(w, from, result) ==
  /\ MoveWaiter(w, from, result)
  /\ call' = [call EXCEPT ![w] = None]
  /\ saw' = IF result = "edge" THEN saw ELSE saw \ {w}

(* callback_exists () and gpio_event_added (): a gpio with a callback or    *)
(* with another bounce time is refused, an entry for another edge is        *)
(* changed under whoever uses it, and one without bounce time is taken as   *)
(* it is.                                                                   *)
Begin(w, g, e, b) ==
  /\ w \notin Busy
  /\ callbacks[g] = 0
  /\ list[g] # None /\ list[g].edge = e /\ list[g].bounce => b
  /\ wat' = [wat EXCEPT ![w] = IF list[g] = None THEN "create" ELSE "join"]
  /\ call' = [call EXCEPT ![w] = [gpio |-> g, edge |-> e, bounce |-> b, first |-> TRUE,
                                  got |-> None, gone |-> FALSE, late |-> FALSE]]
  /\ IF list[g] # None /\ list[g].edge # e
     THEN list' = [list EXCEPT ![g] = [list[g] EXCEPT !.edge = e, !.bounce = b]]
     ELSE UNCHANGED list
  /\ saw' = saw \ {w}
  /\ alone' = (alone /\ Busy = {})
  /\ UNCHANGED <<restOfEvents, crashed, blockingSet, doubled>>

(* new_gpio (): the file is exported and opened while other threads run.    *)
Create(w) ==
  /\ MoveWaiter(w, "create", "join")
  /\ IF Held(w) = None
     THEN /\ \E f \in Fds \ OpenFds :
               list' = [list EXCEPT ![call[w].gpio] = NewEntry(call[w].edge, call[w].bounce, f)]
          /\ UNCHANGED doubled
     ELSE doubled' = TRUE /\ UNCHANGED list
  /\ UNCHANGED <<restOfEvents, crashed, call, saw, blockingSet, alone>>

(* Out of memory, no value file, no epoll set or no place in it: the entry  *)
(* stays if it was made.                                                    *)
Refuse(w) ==
  /\ Return(w, "create", "rest") \/ Return(w, "join", "rest")
  /\ blocking' \in {blocking, blocking \/ wat[w] = "join"}
  /\ UNCHANGED <<list, restOfEvents, crashed, bset, bready, doubled, alone>>

(* The epoll set triggers at once for a descriptor that is added, and       *)
(* refuses one it has.  Of a freed entry the descriptor may be any.         *)
Join(w) ==
  /\ wat[w] = "join" /\ blocking' = TRUE
  /\ \E f \in IF call[w].gone THEN OpenFds ELSE {Held(w).fd} :
       IF f \in bset THEN Return(w, "join", "rest") /\ UNCHANGED <<bset, bready>>
       ELSE /\ MoveWaiter(w, "join", "loop") /\ UNCHANGED <<call, saw>>
            /\ bset' = bset \cup {f} /\ bready' = bready \cup {f}
  /\ UNCHANGED <<list, restOfEvents, crashed, doubled, alone>>

(* epoll_wait () on whatever set is open now, or none.                      *)
WaitAgain(w) ==
  /\ IF blocking THEN MoveWaiter(w, "loop", "wait") /\ UNCHANGED <<call, saw>>
                 ELSE Return(w, "loop", "error")
  /\ UNCHANGED <<list, restOfEvents, crashed, blockingSet, doubled, alone>>

(* A signal ends a wait that has nothing to report.                         *)
WaitInterrupt(w) ==
  /\ \/ bready = {} /\ MoveWaiter(w, "wait", "loop")
     \/ MoveWaiter(w, "orphan", "loop")
  /\ UNCHANGED <<list, restOfEvents, crashed, call, saw, blockingSet, doubled, alone>>

(* Mutant: the thread's place in its call is lost with the first return.    *)
Wake_KeepsPlace(w, from, f) ==
  /\ MoveWaiter(w, from, IF call[w].first THEN "rest" ELSE "test")
  /\ call' = [call EXCEPT ![w].first = FALSE, ![w].got = f]

(* Mutant: the first return counts.                                         *)
Wake_NoInitial(w, from, f) ==
  /\ MoveWaiter(w, from, "test")
  /\ call' = [call EXCEPT ![w].got = f, ![w].late = @ \/ f = None]

(* Mutant: every trigger is taken for the first.                             *)
Wake_AlwaysInitial(w, from, f) ==
  IF call[w].first \/ f # None
  THEN /\ MoveWaiter(w, from, "loop")
       /\ call' = [call EXCEPT ![w].first = FALSE, ![w].late = @ \/ f = None]
  ELSE /\ MoveWaiter(w, from, "test")
       /\ call' = [call EXCEPT ![w].got = f, ![w].late = TRUE]

(* Mutant: a timeout does not end the wait.                                 *)
Wake_IgnoresTimeout(w, from, f) ==
  IF call[w].first \/ f = None
  THEN /\ MoveWaiter(w, from, "loop")
       /\ call' = [call EXCEPT ![w].first = FALSE, ![w].late = @ \/ f = None]
  ELSE /\ MoveWaiter(w, from, "test")
       /\ call' = [call EXCEPT ![w].got = f]

(* epoll_wait () returns with a descriptor or, after a timeout, None: what  *)
(* comes first is taken for the state at the start.                         *)
Wake(w, from, f) ==
  IF call[w].first
  THEN /\ MoveWaiter(w, from, "loop")
       /\ call' = [call EXCEPT ![w].first = FALSE, ![w].late = @ \/ f = None]
  ELSE /\ MoveWaiter(w, from, "test")
       /\ call' = [call EXCEPT ![w].got = f, ![w].late = @ \/ f = None]

(* Any waiter gets the trigger of any descriptor.                           *)
WaitTrigger(w, f) ==
  /\ f \in bready /\ bready' = bready \ {f}
  /\ wat[w] = "wait" /\ Wake(w, "wait", f)
  /\ UNCHANGED <<list, restOfEvents, crashed, saw, blocking, bset, doubled, alone>>

WaitTimeout(w) ==
  /\ \/ wat[w] = "wait" /\ bready = {} /\ Wake(w, "wait", None)
     \/ wat[w] = "orphan" /\ Wake(w, "orphan", None)
  /\ UNCHANGED <<list, restOfEvents, crashed, saw, blockingSet, doubled, alone>>

(* Within the bounce time the wait goes on, after a timeout as well.        *)
Bounce(w) ==
  /\ wat[w] = "test" /\ ~call[w].gone
  /\ Held(w).bounce /\ Held(w).called
  /\ MoveWaiter(w, "test", "loop")
  /\ call' = [call EXCEPT ![w].got = None]
  /\ UNCHANGED <<list, restOfEvents, crashed, saw, blockingSet, doubled, alone>>

Result(w) == IF call[w].got = None THEN "rest"
             ELSE IF call[w].got = Held(w).fd THEN "edge" ELSE "error"

(* Mutant: the entry is taken off the list with the wait.                   *)
Finish_DropsEntry(w) ==
  /\ wat[w] = "test" /\ ~call[w].gone
  /\ Return(w, "test", Result(w))
  /\ list' = [list EXCEPT ![call[w].gpio] = None]
  /\ bset' = bset \ {Held(w).fd} /\ bready' = bready \ {Held(w).fd}
  /\ UNCHANGED <<restOfEvents, crashed, blocking, doubled, alone>>

(* The trigger must be that of the own descriptor; then it leaves the set.  *)
Finish(w) ==
  /\ wat[w] = "test" /\ ~call[w].gone
  /\ Return(w, "test", Result(w))
  /\ list' = [list EXCEPT ![call[w].gpio] = [list[call[w].gpio] EXCEPT !.called = TRUE]]
  /\ bset' = bset \ {Held(w).fd} /\ bready' = bready \ {Held(w).fd}
  /\ UNCHANGED <<restOfEvents, crashed, blocking, doubled, alone>>

(* With the entry freed, all that is read of it is arbitrary, and storing   *)
(* the time in it may break the heap.                                       *)
FinishFreed(w) ==
  /\ wat[w] = "test" /\ call[w].gone
  /\ \/ MoveWaiter(w, "test", "loop") /\ UNCHANGED saw
        /\ call' = [call EXCEPT ![w].got = None]
     \/ \E result \in IF call[w].got = None THEN {"rest"} ELSE {"edge", "error"} :
          Return(w, "test", result)
  /\ \E f \in Fds \cup {None} : bset' = bset \ {f} /\ bready' = bready \ {f}
  /\ crashed' \in BOOLEAN
  /\ UNCHANGED <<list, restOfEvents, blocking, doubled, alone>>

Waiting(w) ==
  ~crashed /\ ~doubled
  /\ (\/ Create(w) \/ Join(w) \/ WaitAgain(w) \/ (\E f \in Fds : WaitTrigger(w, f))
      \/ Bounce(w) \/ Finish(w) \/ FinishFreed(w))

-----------------------------------------------------------------------------
EventStep ==
  \/ EventCall
  \/ \E S \in CleanupSets : WaitCleanup(S)
  \/ \E g \in Gpios : WaitEdge(g)
  \/ (\E t \in Threads : Interrupt(t)) /\ UNCHANGED waitVars

WaitStep(w) ==
  \/ \E g \in Gpios, e \in Edges, b \in Bounces : Begin(w, g, e, b)
  \/ Refuse(w) \/ WaitInterrupt(w) \/ WaitTimeout(w)

PollStep(t) == ~doubled /\ PollThread(t) /\ UNCHANGED waitVars

WNext ==
  \/ ~crashed /\ ~doubled /\ (EventStep \/ \E w \in Waiters : WaitStep(w))
  \/ \E t \in Threads : PollStep(t)
  \/ \E w \in Waiters : Waiting(w)

wvars == <<vars, waitVars>>

(* As in GpioEvents; a waiter is a thread that runs unless it waits, and    *)
(* its epoll set serves its triggers too.                                   *)
WSpec ==
  /\ WInit /\ [][WNext]_wvars
  /\ \A t \in Threads : WF_wvars(PollStep(t))
  /\ \A w \in Waiters : WF_wvars(Waiting(w))
  /\ \A f \in Fds :
       SF_wvars(~doubled /\ ~crashed /\ (\E t \in Threads : Trigger(t, f)) /\ UNCHANGED waitVars)

-----------------------------------------------------------------------------
WTypeOK ==
  /\ TypeOK
  /\ wat \in [Waiters -> {"create", "join", "loop", "wait", "orphan", "test"}
                         \cup Returned]
  /\ call \in [Waiters -> Call_ \cup {None}]
  /\ \A w \in Waiters : call[w] = None <=> w \notin Busy
  /\ saw \subseteq Waiters
  /\ blocking \in BOOLEAN /\ bset \subseteq Fds /\ bready \subseteq bset
  /\ doubled \in BOOLEAN /\ alone \in BOOLEAN

(* As long as waits do not overlap and no entry is removed under one, a     *)
(* wait that reports an edge saw one, and none that got to wait ends with   *)
(* an error.                                                                *)
SoleWaitIsTrue ==
  alone => \A w \in Waiters : /\ wat[w] = "edge" => w \in saw
                              /\ wat[w] # "error"

(* Event detection is served beside such waits as it is without them, and   *)
(* nothing that was freed is used: the two only share the entries.          *)
ServedBesideWaits == alone => ServedUnlessRaced

(* Without a bounce time such a wait times out once at most: the first      *)
(* return of epoll_wait (), which is not taken for a timeout, is the        *)
(* trigger of the descriptor itself.                                        *)
OneTimeout ==
  alone => \A w \in Holding : call[w].late /\ wat[w] # "test" => Held(w).bounce

(* An edge that triggers after the first return ends the wait.              *)
TriggerEndsWait ==
  \A w \in Waiters :
    (w \in Holding /\ ~call[w].first /\ ~call[w].gone /\ Held(w).fd \in bready /\ ~Held(w).bounce)
      ~> (w \notin Busy \/ ~alone \/ crashed \/ doubled)

=============================================================================
