------------------------------- MODULE SoftPwm -------------------------------
(***************************************************************************)
(* Software PWM of RPi.GPIO: the PWM objects of py_pwm.c, the records and  *)
(* threads of soft_pwm.c and the output pins they drive.                   *)
(*                                                                         *)
(* Python's global lock lets one call run at a time, but the PWM threads   *)
(* do not take it: they run between any two stores of a call.  Durations   *)
(* are counted in hundredths of a microsecond, the last place of the       *)
(* floats; slicetime is the length of 1 % of a period.  The order of       *)
(* pwm_list is never used.                                                 *)
(***************************************************************************)
EXTENDS Integers, FiniteSets

CONSTANTS
  Gpios,        (* GPIO numbers programs use; 0 among them                   *)
  Objects,      (* PWM objects a program holds at a time                     *)
  Records,      (* addresses malloc () hands out for struct pwm              *)
  Dutycycles,   (* duty cycles programs ask for                              *)
  Slices,       (* slice times programs ask for, by their frequency          *)
  Roundings,    (* how far the last place of a product of floats may be off *)
  None

ASSUME PwmAssumption ==
  /\ Gpios \subseteq Nat /\ 0 \in Gpios
  /\ Dutycycles \subseteq 0..100
  /\ Slices \subseteq Nat \ {0}
  /\ Roundings \subseteq {-1, 0, 1}
  /\ None \notin Gpios \cup Records

VARIABLES
  object,       (* the gpio of each PWM object, None while there is none     *)
  heap,         (* records allocated and not freed                          *)
  linked,       (* records in pwm_list                                      *)
  pwm,          (* what the records hold                                    *)
  thread,       (* where each record's pwm_thread is, "none" without one    *)
  pin,          (* the level last written to each pin by soft_pwm.c         *)
  current,      (* the record the Python call in progress works on          *)
  todo,         (* the stores and calls it has left, in the order below     *)
  exists,       (* the last call raised "A PWM object already exists ..."   *)
  cycle         (* time slept in this turn of each thread's loop, or        *)
                (* Disturbed when a call changed the record meanwhile       *)

call == <<current, todo>>
vars == <<object, heap, linked, pwm, thread, pin, call, exists, cycle>>

Disturbed == -1
Level == {0, 1}

Microsecond == 100

(* (long long): the whole microseconds of a time.                           *)
Whole(t) == t - (t % Microsecond)

(* The product of two floats is a float: rounded in its last place.         *)
Rounded(s) == {s + e : e \in Roundings}

(* A record that is never on and has no thread yet.                         *)
Idle(g, s) == [gpio |-> g, dutycycle |-> 0, slicetime |-> s,
               req_on |-> 0, req_off |-> Whole(100 * s), running |-> FALSE]

(* add_new_pwm (): 1 kHz.  0.01 ms as a float is a little less.             *)
NewPwm(g) == Idle(g, 10 * Microsecond - 1)

Init ==
  /\ object = [o \in Objects |-> None]
  /\ heap = {} /\ linked = {}
  /\ pwm = [r \in Records |-> NewPwm(0)]
  /\ thread = [r \in Records |-> "none"]
  /\ pin = [g \in Gpios |-> 0]
  /\ current = None /\ todo = {}
  /\ exists = FALSE
  /\ cycle = [r \in Records |-> Disturbed]

-----------------------------------------------------------------------------
(* The list of records.                                                     *)

pwm_exists(g) == \E r \in linked : pwm[r].gpio = g

(* Mutant: the records stay in pwm_list.                                    *)
remove_pwm_KeepsLink(g) ==
  /\ UNCHANGED linked
  /\ pwm' = [r \in Records |->
               IF r \in linked /\ pwm[r].gpio = g
               THEN [pwm[r] EXCEPT !.running = FALSE] ELSE pwm[r]]

(* Mutant: the threads are not told to stop.                                *)
remove_pwm_KeepsRunning(g) ==
  /\ linked' = {r \in linked : pwm[r].gpio # g}
  /\ UNCHANGED pwm

remove_pwm(g) ==
  /\ linked' = {r \in linked : pwm[r].gpio # g}
  /\ pwm' = [r \in Records |->
               IF r \in linked /\ pwm[r].gpio = g
               THEN [pwm[r] EXCEPT !.running = FALSE] ELSE pwm[r]]

(* Mutant: only the head of pwm_list is compared.                           *)
find_pwm_Head(g, r) ==
  \/ r \in linked /\ pwm[r].gpio = g
  \/ r \in Records \ heap

(* find_pwm () returns record r: the one in the list, or a new one.         *)
find_pwm(g, r) ==
  IF pwm_exists(g) THEN r \in linked /\ pwm[r].gpio = g
                   ELSE r \in Records \ heap

Found(g, r) == IF r \in linked THEN pwm[r] ELSE NewPwm(g)

(* The call goes on with record r, which now holds p, and has steps left.   *)
Enter(r, p, steps) ==
  /\ heap' = heap \cup {r}
  /\ linked' = linked \cup {r}
  /\ pwm' = [pwm EXCEPT ![r] = p]
  /\ cycle' = [cycle EXCEPT ![r] = Disturbed]
  /\ current' = r
  /\ todo' = steps
  /\ exists' = FALSE
  /\ UNCHANGED <<object, thread, pin>>

(* The next of the call's steps is taken.                                   *)
Advance(step) ==
  /\ todo' = todo \ {step}
  /\ current' = IF todo = {step} THEN None ELSE current

-----------------------------------------------------------------------------
(* Python calls.                                                            *)

(* PWM (channel, frequency) succeeds.  Nobody else knows the new record, so *)
(* the three stores of pwm_set_frequency () are one step.                   *)
Create(o, g, s) ==
  /\ todo = {} /\ object[o] = None
  /\ ~pwm_exists(g)
  /\ object' = [object EXCEPT ![o] = g]
  /\ \E r \in Records :
       /\ find_pwm(g, r)
       /\ heap' = heap \cup {r} /\ linked' = linked \cup {r}
       /\ pwm' = [pwm EXCEPT ![r] = Idle(g, s)]
       /\ cycle' = [cycle EXCEPT ![r] = Disturbed]
  /\ exists' = FALSE
  /\ UNCHANGED <<thread, pin, call>>

(* PWM_init () raises an error with self->gpio = g: Python deallocates the  *)
(* half-made object, and PWM_dealloc () stops the PWM of g.                 *)
Reject(g, e) ==
  /\ todo = {}
  /\ remove_pwm(g)
  /\ exists' = e
  /\ UNCHANGED <<object, heap, thread, pin, call, cycle>>

(* self->gpio is still 0 when the channel number is refused, and is set     *)
(* before the other checks.                                                 *)
CreateInvalidChannel == Reject(0, FALSE)
CreateDuplicate == \E g \in Gpios : pwm_exists(g) /\ Reject(g, TRUE)
CreateRefused ==     (* not an output, or a frequency of 0 or less *)
  \E g \in Gpios : ~pwm_exists(g) /\ Reject(g, FALSE)

(* start () and ChangeDutyCycle (): the first store, on the record that     *)
(* find_pwm () returns; calculate_times () and pwm_start () follow.         *)
SetDutyCycle(o, d, steps) ==
  /\ todo = {} /\ object[o] # None
  /\ \E r \in Records :
       /\ find_pwm(object[o], r)
       /\ Enter(r, [Found(object[o], r) EXCEPT !.dutycycle = d], steps)

PwmStart(o, d)        == SetDutyCycle(o, d, {"on", "off", "start"})
ChangeDutyCycle(o, d) == SetDutyCycle(o, d, {"on", "off"})

ChangeFrequency(o, s) ==
  /\ todo = {} /\ object[o] # None
  /\ \E r \in Records :
       /\ find_pwm(object[o], r)
       /\ Enter(r, [Found(object[o], r) EXCEPT !.slicetime = s], {"on", "off"})

(* calculate_times (), which a thread may run between.  The pulse is a      *)
(* product of floats, the pause one of doubles; both lose what is less than *)
(* a microsecond.                                                           *)
CalculateOn ==
  /\ "on" \in todo
  /\ \E s \in Rounded(pwm[current].slicetime) :
       pwm' = [pwm EXCEPT ![current].req_on = Whole(pwm[current].dutycycle * s)]
  /\ Advance("on")
  /\ UNCHANGED <<object, heap, linked, thread, pin, exists, cycle>>

(* Mutant: the duty cycle is taken as a fraction.                           *)
CalculateOff_Fraction ==
  /\ "on" \notin todo /\ "off" \in todo
  /\ pwm' = [pwm EXCEPT ![current].req_off =
                   Whole((1 - pwm[current].dutycycle) * pwm[current].slicetime)]
  /\ Advance("off")
  /\ cycle' = [cycle EXCEPT ![current] = Disturbed]
  /\ UNCHANGED <<object, heap, linked, thread, pin, exists>>

(* Mutant: the pause is not recalculated.                                   *)
CalculateOff_Skipped ==
  /\ "on" \notin todo /\ "off" \in todo
  /\ Advance("off")
  /\ UNCHANGED <<object, heap, linked, pwm, thread, pin, exists, cycle>>

CalculateOff ==
  /\ "on" \notin todo /\ "off" \in todo
  /\ pwm' = [pwm EXCEPT ![current].req_off =
                   Whole((100 - pwm[current].dutycycle) * pwm[current].slicetime)]
  /\ Advance("off")
  /\ cycle' = [cycle EXCEPT ![current] = Disturbed]
  /\ UNCHANGED <<object, heap, linked, thread, pin, exists>>

(* pwm_start (): nothing when the PWM runs, else a thread, whose creation   *)
(* may fail.                                                                *)
StartThread ==
  /\ todo = {"start"}
  /\ Advance("start")
  /\ IF pwm[current].running
     THEN UNCHANGED <<pwm, thread>>
     ELSE \/ /\ pwm' = [pwm EXCEPT ![current].running = TRUE]
             /\ thread' = [thread EXCEPT ![current] = "loop"]
          \/ UNCHANGED <<pwm, thread>>
  /\ UNCHANGED <<object, heap, linked, pin, exists, cycle>>

Stop(o) ==
  /\ todo = {} /\ object[o] # None
  /\ remove_pwm(object[o])
  /\ exists' = FALSE
  /\ UNCHANGED <<object, heap, thread, pin, call, cycle>>

Dealloc(o) ==
  /\ todo = {} /\ object[o] # None
  /\ object' = [object EXCEPT ![o] = None]
  /\ remove_pwm(object[o])
  /\ exists' = FALSE
  /\ UNCHANGED <<heap, thread, pin, call, cycle>>

-----------------------------------------------------------------------------
(* pwm_thread () of record r.                                               *)

Goto(r, from, to) == thread[r] = from /\ thread' = [thread EXCEPT ![r] = to]

rest == <<object, linked, pwm, call, exists>>

(* while (p->running); a turn that starts during a call on r is disturbed.  *)
Loop(r) ==
  /\ Goto(r, "loop", IF pwm[r].running THEN "high?" ELSE "clean")
  /\ cycle' = [cycle EXCEPT ![r] = IF current = r THEN Disturbed ELSE 0]
  /\ UNCHANGED <<heap, pin, rest>>

TestHigh(r) ==
  /\ Goto(r, "high?", IF pwm[r].dutycycle > 0 THEN "high" ELSE "low?")
  /\ UNCHANGED <<heap, pin, cycle, rest>>

TestLow(r) ==
  /\ Goto(r, "low?", IF pwm[r].dutycycle < 100 THEN "low" ELSE "loop")
  /\ UNCHANGED <<heap, pin, cycle, rest>>

(* output_gpio () at pc "from", on to "to".                                 *)
Output(r, from, to, level) ==
  /\ Goto(r, from, to)
  /\ pin' = [pin EXCEPT ![pwm[r].gpio] = level]
  /\ UNCHANGED <<heap, cycle, rest>>

(* full_sleep (): it reads the request once and sleeps all of it.           *)
Sleep(r, from, to, req) ==
  /\ Goto(r, from, to)
  /\ cycle' = [cycle EXCEPT ![r] =
                 IF cycle[r] = Disturbed THEN Disturbed ELSE cycle[r] + req]
  /\ UNCHANGED <<heap, pin, rest>>

(* Mutant: the thread starts its next turn without the pause.               *)
SleepOn_NoPause(r) == Sleep(r, "sleep on", "loop", pwm[r].req_on)

High(r)      == Output(r, "high", "sleep on", 1)
SleepOn(r)   == Sleep(r, "sleep on", "low?", pwm[r].req_on)
Low(r)       == Output(r, "low", "sleep off", 0)
SleepOff(r)  == Sleep(r, "sleep off", "loop", pwm[r].req_off)

(* Mutant: the pin is left as it is.                                        *)
CleanUp_NoOutput(r) ==
  /\ Goto(r, "clean", "free")
  /\ UNCHANGED <<heap, pin, cycle, rest>>

(* Mutant: the thread ends without its last output when the pin has another  *)
(* PWM.                                                                     *)
CleanUp_Unless(r) ==
  IF pwm_exists(pwm[r].gpio) THEN CleanUp_NoOutput(r) ELSE Output(r, "clean", "free", 0)

CleanUp(r) == Output(r, "clean", "free", 0)

Free(r) ==
  /\ Goto(r, "free", "none")
  /\ heap' = heap \ {r}
  /\ pwm' = [pwm EXCEPT ![r] = NewPwm(0)]       (* the contents are lost *)
  /\ cycle' = [cycle EXCEPT ![r] = Disturbed]
  /\ UNCHANGED <<object, linked, pin, call, exists>>

PwmThread(r) ==
  \/ Loop(r) \/ TestHigh(r) \/ High(r) \/ SleepOn(r)
  \/ TestLow(r) \/ Low(r) \/ SleepOff(r) \/ CleanUp(r) \/ Free(r)

-----------------------------------------------------------------------------
CallStarts ==
  \/ \E o \in Objects, g \in Gpios, s \in Slices : Create(o, g, s)
  \/ CreateInvalidChannel \/ CreateDuplicate \/ CreateRefused
  \/ \E o \in Objects, d \in Dutycycles : PwmStart(o, d) \/ ChangeDutyCycle(o, d)
  \/ \E o \in Objects, s \in Slices : ChangeFrequency(o, s)
  \/ \E o \in Objects : Stop(o) \/ Dealloc(o)

CallGoesOn == CalculateOn \/ CalculateOff \/ StartThread

Next == CallStarts \/ CallGoesOn \/ \E r \in Records : PwmThread(r)

(* A started call returns, and the scheduler runs every PWM thread.         *)
Spec ==
  /\ Init /\ [][Next]_vars
  /\ WF_vars(CallGoesOn)
  /\ \A r \in Records : WF_vars(PwmThread(r))

-----------------------------------------------------------------------------
Steps == {"on", "off", "start"}
Places == {"none", "loop", "high?", "high", "sleep on", "low?", "low",
           "sleep off", "clean", "free"}

Pwm == [gpio : Gpios, dutycycle : 0..100, slicetime : Nat \ {0},
        req_on : Nat, req_off : Nat, running : BOOLEAN]

TypeOK ==
  /\ object \in [Objects -> Gpios \cup {None}]
  /\ heap \subseteq Records
  /\ linked \subseteq Records
  /\ pwm \in [Records -> Pwm]
  /\ thread \in [Records -> Places]
  /\ pin \in [Gpios -> Level]
  /\ current \in Records \cup {None}
  /\ todo \subseteq Steps
  /\ exists \in BOOLEAN
  /\ cycle \in [Records -> Nat \cup {Disturbed}]

(* Nobody holds a freed record: not pwm_list, not the call in progress, and *)
(* no thread.  pwm_stop () leaves free () to the thread, and the thread     *)
(* runs it with no lock.                                                    *)
NoUseAfterFree ==
  /\ linked \subseteq heap
  /\ todo # {} => current \in linked
  /\ \A r \in Records : thread[r] # "none" => r \in heap

(* A channel has one running PWM at most, however objects are created,      *)
(* stopped and dropped: a second thread on the pin is on its way out.       *)
OneRunningPerPin ==
  \A r, q \in Records :
    pwm[r].running /\ pwm[q].running /\ pwm[r].gpio = pwm[q].gpio => r = q

(* A pin that PWM left high has a thread that will write it again: no       *)
(* order of stops, restarts and exits leaves a pin high for ever.           *)
HighPinHasDriver ==
  \A g \in Gpios : pin[g] = 1 =>
    \E r \in Records : pwm[r].gpio = g /\ thread[r] \notin {"none", "free"}

(* A turn that slept time t is a period of slices of length s: never        *)
(* longer, and shorter by less than the two parts of a microsecond that     *)
(* calculate_times () drops, the rounding of the slice apart.               *)
IsPeriod(t, s) ==
  100 * (s - 1) - 2 * Microsecond < t /\ t <= 100 * (s + 1)

(* A turn of the loop that no call disturbed slept one period.  A call that *)
(* stores a new duty cycle must not leave an old pulse or an old pause      *)
(* behind for the turns after it.                                           *)
UndisturbedTurnIsPeriod ==
  \A r \in Records :
    thread[r] = "loop" /\ cycle[r] # Disturbed => IsPeriod(cycle[r], pwm[r].slicetime)

(* The thread of a stopped PWM frees the record, whatever calls do next.    *)
StoppedIsFreed ==
  \A r \in Records :
    (r \in heap \ linked /\ thread[r] # "none") ~> (r \notin heap)

(* A PWM that is left running at 1 to 99 % raises and lowers its pin again  *)
(* and again.                                                               *)
Pulses ==
  \A r \in Records, g \in Gpios :
    []<>(thread[r] = "none" \/ ~pwm[r].running \/ pwm[r].gpio # g
         \/ pwm[r].dutycycle \in {0, 100})
      \/ ([]<>(pin[g] = 1) /\ []<>(pin[g] = 0))

(* The pins behave as PwmOutput says: a thread drives its pin from its      *)
(* creation until its last output, and is told to leave when its record     *)
(* leaves the list.  However calls are broken up and whichever threads are  *)
(* left over, a pin changes only while somebody drives it, a new driver     *)
(* comes only when nobody but leaving ones is there, and a leaving one      *)
(* goes, with the pin low.                                                  *)
Driving == {r \in Records : thread[r] \notin {"none", "free"}}

DrivenPin == [r \in Records |-> IF r \in Driving THEN pwm[r].gpio ELSE None]
Leaving == Driving \ linked

Pins == INSTANCE PwmOutput WITH
          Drivers <- Records, drives <- DrivenPin, leaving <- Leaving

ImplementsPwmOutput == Pins!Spec

(* The safety part of that.                                                 *)
PinsBehave == Pins!Init /\ [][Pins!Next]_(Pins!vars)

-----------------------------------------------------------------------------
(* What comments and tests say, and the code does not keep.                 *)

(* The rejected second PWM object leaves the first alone.                   *)
DuplicateIsHarmless ==
  [][exists' /\ ~exists => UNCHANGED <<linked, pwm>>]_vars

=============================================================================
