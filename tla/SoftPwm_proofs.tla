--------------------------- MODULE SoftPwm_proofs ---------------------------
(***************************************************************************)
(* Proofs about SoftPwm, for any set of pins, objects, records, duty       *)
(* cycles and frequencies.                                                 *)
(*                                                                         *)
(* The properties are not inductive by themselves.  That a freed record is *)
(* held by nobody rests on when pwm_thread () leaves its loop: the record  *)
(* of a thread is running as long as it is in pwm_list (LinkedRuns), so a  *)
(* thread that found running cleared works on a record that pwm_list has   *)
(* lost and that no call can find again (LeavingIsUnlinked).  That a turn  *)
(* sleeps one period rests on what each place of the loop has slept so far *)
(* (PeriodInv), and on what the truncation of each part can lose.          *)
(***************************************************************************)
EXTENDS SoftPwm, TLAPS

(* pwm_list has one record per channel at most.                             *)
OneLinkedPerPin ==
  \A r, q \in linked : pwm[r].gpio = pwm[q].gpio => r = q

RunningIsLinked == \A r \in Records : pwm[r].running => r \in linked

LinkedRuns ==
  \A r \in linked : thread[r] # "none" => pwm[r].running

LeavingIsUnlinked ==
  \A r \in Records : thread[r] \in {"clean", "free"} => r \notin linked

IInv ==
  /\ TypeOK
  /\ NoUseAfterFree
  /\ OneLinkedPerPin
  /\ RunningIsLinked
  /\ LinkedRuns
  /\ LeavingIsUnlinked
  /\ HighPinHasDriver

(* A time loses less than a microsecond.                                    *)
LEMMA WholeLoses ==
  ASSUME NEW t \in Nat
  PROVE  Whole(t) \in Nat /\ Whole(t) <= t /\ t < Whole(t) + Microsecond
  BY DEF Whole, Microsecond

LEMMA RoundedType ==
  ASSUME NEW s \in Nat \ {0}, NEW q \in Rounded(s)
  PROVE  q \in Nat /\ q \in {s - 1, s, s + 1}
  BY PwmAssumption DEF Rounded

(* Sleep times are natural numbers.                                         *)
LEMMA TimesAreNat ==
  ASSUME NEW d \in 0..100, NEW s \in Nat
  PROVE  /\ d * s \in Nat /\ (100 - d) * s \in Nat
         /\ Whole(d * s) \in Nat /\ Whole((100 - d) * s) \in Nat
<1>1. d * s \in Nat /\ (100 - d) * s \in Nat
  OBVIOUS
<1> QED BY <1>1, WholeLoses

LEMMA IdleType ==
  ASSUME NEW g \in Gpios, NEW s \in Nat \ {0}
  PROVE  /\ Idle(g, s) \in Pwm
         /\ Idle(g, s).gpio = g
         /\ ~Idle(g, s).running
<1>1. Whole(100 * s) \in Nat
  <2>1. 100 * s \in Nat
    OBVIOUS
  <2> QED BY <2>1, WholeLoses
<1> QED BY <1>1 DEF Idle, Pwm

LEMMA NewPwmType ==
  ASSUME NEW g \in Gpios
  PROVE  /\ NewPwm(g) \in Pwm
         /\ NewPwm(g).gpio = g
         /\ ~NewPwm(g).running
<1>1. 10 * Microsecond - 1 \in Nat \ {0}
  BY DEF Microsecond
<1> QED BY <1>1, IdleType DEF NewPwm

(* Initially no record exists.                                              *)
LEMMA InitIInv == Init => IInv
<1> SUFFICES ASSUME Init PROVE IInv
  OBVIOUS
<1>1. \A r \in Records : pwm[r] = NewPwm(0) /\ NewPwm(0) \in Pwm /\ ~NewPwm(0).running
  BY NewPwmType, PwmAssumption DEF Init
<1>2. TypeOK
  BY <1>1 DEF Init, TypeOK, Places, Level, Disturbed
<1>3. NoUseAfterFree /\ OneLinkedPerPin /\ LinkedRuns /\ LeavingIsUnlinked
  BY DEF Init, NoUseAfterFree, OneLinkedPerPin, LinkedRuns, LeavingIsUnlinked
<1>4. RunningIsLinked
  BY <1>1 DEF RunningIsLinked
<1>5. HighPinHasDriver
  BY DEF Init, HighPinHasDriver
<1> QED BY <1>2, <1>3, <1>4, <1>5 DEF IInv

(* A record that is told to leave is still a record of this type.           *)
LEMMA ToldToLeave ==
  ASSUME NEW p \in Pwm
  PROVE  /\ [p EXCEPT !.running = FALSE] \in Pwm
         /\ [p EXCEPT !.running = FALSE].gpio = p.gpio
         /\ [p EXCEPT !.running = FALSE].running = FALSE
  BY DEF Pwm

(* remove_pwm () between two calls keeps the invariant.                     *)
LEMMA RemoveIInv ==
  ASSUME IInv, NEW g \in Gpios, remove_pwm(g), todo = {},
         UNCHANGED <<heap, thread, pin, call, cycle>>,
         object' \in [Objects -> Gpios \cup {None}],
         exists' \in BOOLEAN
  PROVE  IInv'
<1> USE DEF IInv, call
<1>1. /\ linked' \subseteq linked
      /\ \A r \in linked : r \in linked' <=> pwm[r].gpio # g
  BY DEF remove_pwm
<1>2. pwm' \in [Records -> Pwm]
  <2>1. \A r \in Records : pwm[r] \in Pwm
    BY DEF TypeOK
  <2>2. \A r \in Records : [pwm[r] EXCEPT !.running = FALSE] \in Pwm
    BY <2>1, ToldToLeave
  <2> QED BY <2>1, <2>2 DEF remove_pwm
<1>3. \A r \in Records : /\ pwm'[r].gpio = pwm[r].gpio
                         /\ pwm'[r].running <=>
                              pwm[r].running /\ ~(r \in linked /\ pwm[r].gpio = g)
  BY DEF remove_pwm, TypeOK, Pwm
<1>4. linked \subseteq Records
  BY DEF TypeOK
<1>5. TypeOK'
  BY <1>1, <1>2 DEF TypeOK
<1>6. NoUseAfterFree'
  BY <1>1 DEF NoUseAfterFree
<1>7. OneLinkedPerPin'
  BY <1>1, <1>3, <1>4 DEF OneLinkedPerPin
<1>8. RunningIsLinked'
  BY <1>1, <1>3 DEF RunningIsLinked
<1>9. LinkedRuns'
  BY <1>1, <1>3, <1>4 DEF LinkedRuns
<1>10. LeavingIsUnlinked'
  BY <1>1 DEF LeavingIsUnlinked
<1>11. HighPinHasDriver'
  BY <1>3 DEF HighPinHasDriver
<1> QED BY <1>5, <1>6, <1>7, <1>8, <1>9, <1>10, <1>11

(* A record that find_pwm () returned for a channel gets new contents, with *)
(* the running flag it had: the invariant is kept.                          *)
LEMMA UseIInv ==
  ASSUME IInv, NEW g \in Gpios, NEW r \in Records, find_pwm(g, r), todo = {},
         NEW p \in Pwm, p.gpio = g, p.running <=> Found(g, r).running,
         heap' = heap \cup {r}, linked' = linked \cup {r},
         pwm' = [pwm EXCEPT ![r] = p],
         cycle' = [cycle EXCEPT ![r] = Disturbed],
         UNCHANGED <<thread, pin>>,
         object' \in [Objects -> Gpios \cup {None}],
         exists' \in BOOLEAN, todo' \subseteq Steps,
         current' \in Records \cup {None},
         todo' # {} => current' = r
  PROVE  IInv'
<1> USE DEF IInv
<1>1. linked \subseteq heap /\ linked \subseteq Records /\ heap \subseteq Records
  BY DEF NoUseAfterFree, TypeOK
<1>2. \A q \in Records : q # r => pwm'[q] = pwm[q]
  BY DEF TypeOK
<1>3. pwm'[r] = p
  BY DEF TypeOK
<1>4. \/ r \in linked /\ pwm[r].gpio = g /\ (p.running <=> pwm[r].running)
      \/ /\ r \notin heap /\ r \notin linked /\ thread[r] = "none" /\ ~p.running
         /\ \A q \in linked : pwm[q].gpio # g
  <2>1. CASE pwm_exists(g)
    BY <2>1 DEF find_pwm, Found
  <2>2. CASE ~pwm_exists(g)
    BY <2>2, <1>1, NewPwmType DEF find_pwm, pwm_exists, Found, NoUseAfterFree
  <2> QED BY <2>1, <2>2
<1>5. TypeOK'
  <2>1. pwm' \in [Records -> Pwm]
    BY DEF TypeOK
  <2>2. cycle' \in [Records -> Nat \cup {Disturbed}]
    BY DEF TypeOK
  <2> QED BY <1>1, <2>1, <2>2 DEF TypeOK
<1>6. NoUseAfterFree'
  BY <1>1 DEF NoUseAfterFree
<1>7. OneLinkedPerPin'
  BY <1>1, <1>2, <1>3, <1>4 DEF OneLinkedPerPin
<1>8. RunningIsLinked'
  BY <1>2, <1>3, <1>4 DEF RunningIsLinked
<1>9. LinkedRuns'
  BY <1>1, <1>2, <1>3, <1>4 DEF LinkedRuns
<1>10. LeavingIsUnlinked'
  BY <1>4 DEF LeavingIsUnlinked
<1>11. HighPinHasDriver'
  BY <1>2, <1>3, <1>4 DEF HighPinHasDriver
<1> QED BY <1>5, <1>6, <1>7, <1>8, <1>9, <1>10, <1>11

(* Every call of Python keeps the invariant.                                *)
LEMMA CallIInv == IInv /\ (CallStarts \/ CallGoesOn) => IInv'
<1> SUFFICES ASSUME IInv, CallStarts \/ CallGoesOn PROVE IInv'
  OBVIOUS
<1> USE DEF IInv
<1>1. ASSUME NEW o \in Objects, NEW g \in Gpios, NEW s \in Slices, Create(o, g, s)
      PROVE  IInv'
  <2>1. PICK r \in Records :
          /\ find_pwm(g, r)
          /\ heap' = heap \cup {r} /\ linked' = linked \cup {r}
          /\ pwm' = [pwm EXCEPT ![r] = Idle(g, s)]
          /\ cycle' = [cycle EXCEPT ![r] = Disturbed]
    BY <1>1 DEF Create
  <2> DEFINE p == Idle(g, s)
  <2>2. p \in Pwm /\ p.gpio = g /\ ~p.running
    BY IdleType, PwmAssumption
  <2>3. ~Found(g, r).running
    <3>1. r \notin linked
      BY <1>1, <2>1 DEF Create, find_pwm, NoUseAfterFree
    <3> QED BY <3>1, NewPwmType DEF Found
  <2>4. object' \in [Objects -> Gpios \cup {None}] /\ exists' \in BOOLEAN
    BY <1>1 DEF Create, TypeOK
  <2>5. todo = {} /\ todo' = {} /\ current' \in Records \cup {None}
    BY <1>1 DEF Create, call, TypeOK
  <2> QED BY <1>1, <2>1, <2>2, <2>3, <2>4, <2>5, UseIInv DEF Create
<1>2. ASSUME NEW g \in Gpios, NEW e \in BOOLEAN, Reject(g, e) PROVE IInv'
  <2>1. object' \in [Objects -> Gpios \cup {None}] /\ exists' \in BOOLEAN
    BY <1>2 DEF Reject, TypeOK
  <2> QED BY <1>2, <2>1, RemoveIInv DEF Reject
<1>3. ASSUME NEW o \in Objects, NEW d \in Dutycycles, NEW steps \in SUBSET Steps,
             SetDutyCycle(o, d, steps)
      PROVE  IInv'
  <2> DEFINE g == object[o]
  <2>1. PICK r \in Records :
          find_pwm(g, r) /\ Enter(r, [Found(g, r) EXCEPT !.dutycycle = d], steps)
    BY <1>3 DEF SetDutyCycle
  <2>2. g \in Gpios /\ todo = {}
    BY <1>3 DEF SetDutyCycle, TypeOK
  <2>3. Found(g, r) \in Pwm /\ Found(g, r).gpio = g
    BY <2>1, <2>2, NewPwmType DEF Found, find_pwm, pwm_exists, TypeOK, NoUseAfterFree
  <2> DEFINE p == [Found(g, r) EXCEPT !.dutycycle = d]
  <2>4. p \in Pwm /\ p.gpio = g /\ (p.running <=> Found(g, r).running)
    BY <2>3, PwmAssumption DEF Pwm
  <2>5. object' \in [Objects -> Gpios \cup {None}] /\ exists' \in BOOLEAN
    BY <2>1 DEF Enter, TypeOK
  <2> QED BY <2>1, <2>2, <2>4, <2>5, UseIInv DEF Enter
<1>4. ASSUME NEW o \in Objects, NEW s \in Slices, ChangeFrequency(o, s)
      PROVE  IInv'
  <2> DEFINE g == object[o]
  <2>1. PICK r \in Records :
          find_pwm(g, r) /\ Enter(r, [Found(g, r) EXCEPT !.slicetime = s], {"on", "off"})
    BY <1>4 DEF ChangeFrequency
  <2>2. g \in Gpios /\ todo = {}
    BY <1>4 DEF ChangeFrequency, TypeOK
  <2>3. Found(g, r) \in Pwm /\ Found(g, r).gpio = g
    BY <2>1, <2>2, NewPwmType DEF Found, find_pwm, pwm_exists, TypeOK, NoUseAfterFree
  <2> DEFINE p == [Found(g, r) EXCEPT !.slicetime = s]
  <2>4. p \in Pwm /\ p.gpio = g /\ (p.running <=> Found(g, r).running)
    BY <2>3, PwmAssumption DEF Pwm
  <2>5. object' \in [Objects -> Gpios \cup {None}] /\ exists' \in BOOLEAN
    BY <2>1 DEF Enter, TypeOK
  <2>6. {"on", "off"} \subseteq Steps
    BY DEF Steps
  <2> QED BY <2>1, <2>2, <2>4, <2>5, <2>6, UseIInv DEF Enter
<1>5. ASSUME NEW o \in Objects, Stop(o) PROVE IInv'
  <2>1. object[o] \in Gpios /\ object' \in [Objects -> Gpios \cup {None}] /\ exists' \in BOOLEAN
    BY <1>5 DEF Stop, TypeOK
  <2> QED BY <1>5, <2>1, RemoveIInv DEF Stop
<1>6. ASSUME NEW o \in Objects, Dealloc(o) PROVE IInv'
  <2>1. object[o] \in Gpios /\ object' \in [Objects -> Gpios \cup {None}] /\ exists' \in BOOLEAN
    BY <1>6 DEF Dealloc, TypeOK
  <2> QED BY <1>6, <2>1, RemoveIInv DEF Dealloc
<1>7. ASSUME CallStarts PROVE IInv'
  <2>1. CASE CreateInvalidChannel \/ CreateDuplicate \/ CreateRefused
    BY <2>1, <1>2, PwmAssumption DEF CreateInvalidChannel, CreateDuplicate, CreateRefused
  <2>2. \A o \in Objects, d \in Dutycycles :
          PwmStart(o, d) \/ ChangeDutyCycle(o, d) => IInv'
    <3>1. {"on", "off"} \in SUBSET Steps /\ {"on", "off", "start"} \in SUBSET Steps
      BY DEF Steps
    <3> QED BY <3>1, <1>3 DEF PwmStart, ChangeDutyCycle
  <2> QED BY <1>1, <1>4, <1>5, <1>6, <1>7, <2>1, <2>2 DEF CallStarts
<1>8. ASSUME CallGoesOn PROVE IInv'
  <2>1. /\ todo # {} /\ current \in linked /\ current \in Records /\ current \in heap
        /\ todo' \subseteq todo
        /\ current' \in Records \cup {None}
        /\ todo' # {} => current' = current
    BY <1>8 DEF CallGoesOn, CalculateOn, CalculateOff, StartThread, Advance,
                NoUseAfterFree, TypeOK
  <2>2. UNCHANGED <<object, heap, linked, pin, exists>>
    BY <1>8 DEF CallGoesOn, CalculateOn, CalculateOff, StartThread
  <2>3. pwm[current] \in Pwm /\ pwm \in [Records -> Pwm]
    BY <2>1 DEF TypeOK
  <2>4. NoUseAfterFree' /\ (todo' \subseteq Steps)
    <3>1. \A r \in Records : thread'[r] # "none" => thread[r] # "none" \/ r = current
      BY <1>8 DEF CallGoesOn, CalculateOn, CalculateOff, StartThread, TypeOK
    <3> QED BY <2>1, <2>2, <3>1 DEF NoUseAfterFree, TypeOK
  <2>5. CASE CalculateOn \/ CalculateOff
    <3>1. UNCHANGED thread
      BY <2>5 DEF CalculateOn, CalculateOff
    <3>2. PICK p \in Pwm : /\ pwm' = [pwm EXCEPT ![current] = p]
                           /\ p.gpio = pwm[current].gpio
                           /\ p.running = pwm[current].running
      <4> DEFINE d == pwm[current].dutycycle
                 s == pwm[current].slicetime
      <4>1. /\ \A q \in Rounded(s) : Whole(d * q) \in Nat
            /\ Whole((100 - d) * s) \in Nat
        <5>1. d \in 0..100 /\ s \in Nat \ {0}
          BY <2>3 DEF Pwm
        <5> HIDE DEF d, s
        <5> QED BY <5>1, RoundedType, TimesAreNat
      <4>2. CASE CalculateOn
        <5>0. PICK q \in Rounded(s) :
                pwm' = [pwm EXCEPT ![current].req_on = Whole(d * q)]
          BY <4>2 DEF CalculateOn
        <5> DEFINE t == Whole(d * q)
        <5>3. t \in Nat
          BY <4>1
        <5> HIDE DEF t
        <5> DEFINE p == [pwm[current] EXCEPT !.req_on = t]
        <5>1. pwm' = [pwm EXCEPT ![current] = p]
          BY <5>0 DEF t
        <5>2. p \in Pwm /\ p.gpio = pwm[current].gpio /\ p.running = pwm[current].running
          BY <2>3, <5>3 DEF Pwm
        <5> QED BY <5>1, <5>2
      <4> HIDE DEF d, s
      <4>3. CASE CalculateOff
        <5> DEFINE p == [pwm[current] EXCEPT !.req_off = Whole((100 - d) * s)]
        <5>1. pwm' = [pwm EXCEPT ![current] = p]
          BY <4>3 DEF CalculateOff, d, s
        <5>2. p \in Pwm /\ p.gpio = pwm[current].gpio /\ p.running = pwm[current].running
          BY <2>3, <4>1 DEF Pwm
        <5> QED BY <5>1, <5>2
      <4> QED BY <2>5, <4>2, <4>3
    <3>3. pwm' \in [Records -> Pwm]
      BY <2>3, <3>2
    <3>4. cycle' \in [Records -> Nat \cup {Disturbed}]
      BY <2>5 DEF CalculateOn, CalculateOff, TypeOK
    <3>5. TypeOK'
      BY <2>1, <2>2, <2>4, <3>1, <3>3, <3>4 DEF TypeOK
    <3>6. \A r \in Records : pwm'[r].gpio = pwm[r].gpio /\ pwm'[r].running = pwm[r].running
      BY <2>3, <3>2
    <3>7. linked \subseteq Records
      BY DEF TypeOK
    <3>8. OneLinkedPerPin' /\ RunningIsLinked' /\ LinkedRuns' /\ LeavingIsUnlinked'
      BY <2>2, <3>1, <3>6, <3>7
         DEF OneLinkedPerPin, RunningIsLinked, LinkedRuns, LeavingIsUnlinked
    <3>9. HighPinHasDriver'
      BY <2>2, <3>1, <3>6 DEF HighPinHasDriver
    <3> QED BY <2>4, <3>5, <3>8, <3>9
  <2>6. CASE StartThread
    <3>1. CASE UNCHANGED <<pwm, thread>>
      <4>1. TypeOK'
        BY <2>1, <2>2, <2>4, <2>6, <3>1 DEF TypeOK, StartThread
      <4> QED BY <2>2, <2>4, <3>1, <4>1
           DEF OneLinkedPerPin, RunningIsLinked, LinkedRuns, LeavingIsUnlinked,
               HighPinHasDriver
    <3>2. CASE /\ ~pwm[current].running
               /\ pwm' = [pwm EXCEPT ![current].running = TRUE]
               /\ thread' = [thread EXCEPT ![current] = "loop"]
      <4>1. pwm' \in [Records -> Pwm]
        <5>1. [pwm[current] EXCEPT !.running = TRUE] \in Pwm
          BY <2>3 DEF Pwm
        <5>2. pwm' = [pwm EXCEPT ![current] = [pwm[current] EXCEPT !.running = TRUE]]
          BY <3>2
        <5> QED BY <2>3, <5>1, <5>2
      <4>2. \A r \in Records : /\ pwm'[r].gpio = pwm[r].gpio
                               /\ pwm'[r].running => pwm[r].running \/ r = current
                               /\ pwm[r].running \/ r = current => pwm'[r].running
        BY <2>3, <3>2 DEF Pwm
      <4>3. \A r \in Records : thread'[r] = IF r = current THEN "loop" ELSE thread[r]
        BY <2>1, <3>2 DEF TypeOK
      <4>4. thread' \in [Records -> Places]
        BY <3>2 DEF TypeOK, Places
      <4>5. TypeOK'
        BY <2>1, <2>2, <2>4, <2>6, <4>1, <4>4 DEF TypeOK, StartThread
      <4>6. linked \subseteq Records
        BY DEF TypeOK
      <4>7. OneLinkedPerPin'
        BY <2>2, <4>2, <4>6 DEF OneLinkedPerPin
      <4>10. RunningIsLinked'
        BY <2>1, <2>2, <4>2 DEF RunningIsLinked
      <4>8. LinkedRuns' /\ LeavingIsUnlinked'
        BY <2>1, <2>2, <4>2, <4>3, <4>6 DEF LinkedRuns, LeavingIsUnlinked
      <4>9. HighPinHasDriver'
        BY <2>2, <4>2, <4>3 DEF HighPinHasDriver
      <4> QED BY <2>4, <4>5, <4>7, <4>8, <4>9, <4>10
    <3> QED BY <2>6, <3>1, <3>2 DEF StartThread
  <2> QED BY <1>8, <2>5, <2>6 DEF CallGoesOn
<1> QED BY <1>7, <1>8

(* Every step of a PWM thread keeps the invariant.                          *)
LEMMA ThreadIInv ==
  ASSUME IInv, NEW r \in Records, PwmThread(r)
  PROVE  IInv'
<1> USE DEF IInv
<1>1. UNCHANGED <<object, linked, current, todo, exists>>
  BY DEF PwmThread, Loop, TestHigh, High, SleepOn, TestLow, Low, SleepOff, CleanUp,
         Free, Output, Sleep, rest, call
<1>2. thread[r] # "none" /\ r \in heap
  BY DEF PwmThread, Loop, TestHigh, High, SleepOn, TestLow, Low, SleepOff, CleanUp,
         Free, Output, Sleep, Goto, NoUseAfterFree
<1>3. pwm[r] \in Pwm /\ pwm \in [Records -> Pwm] /\ linked \subseteq Records
  BY DEF TypeOK
<1>4. ASSUME UNCHANGED <<heap, pwm>>,
             NEW to \in Places, thread' = [thread EXCEPT ![r] = to],
             to = "none" => FALSE,
             to \in {"clean", "free"} => r \notin linked,
             cycle' \in [Records -> Nat \cup {Disturbed}],
             pin' \in [Gpios -> Level], HighPinHasDriver'
      PROVE  IInv'
  <2>1. TypeOK'
    BY <1>1, <1>4 DEF TypeOK
  <2>2. \A q \in Records : thread'[q] = IF q = r THEN to ELSE thread[q]
    BY <1>4 DEF TypeOK
  <2>3. NoUseAfterFree'
    BY <1>1, <1>2, <1>4, <2>2 DEF NoUseAfterFree
  <2>4. OneLinkedPerPin' /\ RunningIsLinked'
    BY <1>1, <1>4 DEF OneLinkedPerPin, RunningIsLinked
  <2>5. LinkedRuns'
    BY <1>1, <1>2, <1>3, <1>4, <2>2 DEF LinkedRuns
  <2>6. LeavingIsUnlinked'
    BY <1>1, <1>4, <2>2 DEF LeavingIsUnlinked
  <2> QED BY <1>4, <2>1, <2>3, <2>4, <2>5, <2>6
<1>5. ASSUME NEW to \in Places \ {"none", "free"}, thread' = [thread EXCEPT ![r] = to],
             thread[r] # "free", UNCHANGED <<pin, pwm>>
      PROVE  HighPinHasDriver'
  <2>1. \A q \in Records : thread'[q] = IF q = r THEN to ELSE thread[q]
    BY <1>5 DEF TypeOK
  <2> QED BY <1>5, <2>1 DEF HighPinHasDriver
<1>6. ASSUME NEW from, NEW to \in Places, NEW level \in Level, Output(r, from, to, level),
             to \in {"clean", "free"} => r \notin linked,
             to # "none", level = 1 => to # "free"
      PROVE  IInv'
  <2>1. UNCHANGED <<heap, pwm, cycle>> /\ thread' = [thread EXCEPT ![r] = to]
    BY <1>6 DEF Output, Goto, rest
  <2>2. pin' = [pin EXCEPT ![pwm[r].gpio] = level] /\ pwm[r].gpio \in Gpios
    BY <1>6, <1>3 DEF Output, Pwm
  <2>3. pin' \in [Gpios -> Level]
    BY <2>2 DEF TypeOK
  <2>4. \A q \in Records : thread'[q] = IF q = r THEN to ELSE thread[q]
    BY <2>1 DEF TypeOK
  <2>5. \A g \in Gpios : pin'[g] = IF g = pwm[r].gpio THEN level ELSE pin[g]
    BY <2>2 DEF TypeOK
  <2>6. HighPinHasDriver'
    <3> SUFFICES ASSUME NEW g \in Gpios, pin'[g] = 1
                 PROVE  \E q \in Records : pwm'[q].gpio = g /\ thread'[q] \notin {"none", "free"}
      BY DEF HighPinHasDriver
    <3>1. CASE g = pwm[r].gpio
      BY <1>6, <2>1, <2>4, <2>5, <3>1
    <3>2. CASE g # pwm[r].gpio
      BY <2>1, <2>4, <2>5, <3>2 DEF HighPinHasDriver
    <3> QED BY <3>1, <3>2
  <2>7. cycle' \in [Records -> Nat \cup {Disturbed}]
    BY <2>1 DEF TypeOK
  <2> QED BY <1>4, <1>6, <2>1, <2>3, <2>6, <2>7
<1>7. ASSUME NEW from, NEW to \in Places \ {"none", "free", "clean"}, NEW req \in Nat,
             from # "free", Sleep(r, from, to, req)
      PROVE  IInv'
  <2>1. UNCHANGED <<heap, pwm, pin>> /\ thread' = [thread EXCEPT ![r] = to]
    BY <1>7 DEF Sleep, Goto, rest
  <2>2. thread[r] # "free"
    BY <1>7 DEF Sleep, Goto
  <2>3. cycle' \in [Records -> Nat \cup {Disturbed}]
    BY <1>7 DEF Sleep, TypeOK, Disturbed
  <2>4. pin' \in [Gpios -> Level]
    BY <2>1 DEF TypeOK
  <2>5. HighPinHasDriver'
    BY <1>5, <2>1, <2>2, <1>7
  <2> QED BY <1>4, <1>7, <2>1, <2>3, <2>4, <2>5
<1>8. CASE Loop(r)
  <2> DEFINE to == IF pwm[r].running THEN "high?" ELSE "clean"
  <2>1. to \in Places \ {"none", "free"} /\ thread[r] # "free"
    BY <1>8 DEF Places, Loop, Goto
  <2>2. UNCHANGED <<heap, pwm, pin>> /\ thread' = [thread EXCEPT ![r] = to]
    BY <1>8 DEF Loop, Goto, rest
  <2>3. to \in {"clean", "free"} => r \notin linked
    BY <1>2 DEF LinkedRuns
  <2>4. cycle' \in [Records -> Nat \cup {Disturbed}]
    BY <1>8 DEF Loop, TypeOK, Disturbed
  <2> HIDE DEF to
  <2>5. HighPinHasDriver' /\ pin' \in [Gpios -> Level]
    BY <1>5, <2>1, <2>2 DEF TypeOK
  <2> QED BY <1>4, <2>1, <2>2, <2>3, <2>4, <2>5
<1>9. CASE TestHigh(r) \/ TestLow(r)
  <2>1. PICK to \in Places \ {"none", "free", "clean"} :
          thread' = [thread EXCEPT ![r] = to]
    BY <1>9 DEF TestHigh, TestLow, Goto, Places
  <2>2. UNCHANGED <<heap, pwm, pin, cycle>> /\ thread[r] # "free"
    BY <1>9 DEF TestHigh, TestLow, Goto, rest
  <2>3. HighPinHasDriver' /\ pin' \in [Gpios -> Level]
    BY <1>5, <2>1, <2>2 DEF TypeOK
  <2>4. cycle' \in [Records -> Nat \cup {Disturbed}]
    BY <2>2 DEF TypeOK
  <2> QED BY <1>4, <2>1, <2>2, <2>3, <2>4
<1>10. CASE High(r) \/ Low(r)
  BY <1>10, <1>6 DEF High, Low, Places, Level
<1>11. CASE SleepOn(r) \/ SleepOff(r)
  <2>1. pwm[r].req_on \in Nat /\ pwm[r].req_off \in Nat
    BY <1>3 DEF Pwm
  <2> QED BY <1>11, <1>7, <2>1 DEF SleepOn, SleepOff, Places
<1>12. CASE CleanUp(r)
  <2>1. r \notin linked
    BY <1>12 DEF CleanUp, Output, Goto, LeavingIsUnlinked
  <2>2. "free" \in Places /\ 0 \in Level /\ Output(r, "clean", "free", 0)
    BY <1>12 DEF CleanUp, Places, Level
  <2> QED BY <1>6, <2>1, <2>2
<1>13. CASE Free(r)
  <2>1. /\ thread[r] = "free" /\ thread' = [thread EXCEPT ![r] = "none"]
        /\ heap' = heap \ {r} /\ pin' = pin
        /\ pwm' = [pwm EXCEPT ![r] = NewPwm(0)]
        /\ cycle' = [cycle EXCEPT ![r] = Disturbed]
    BY <1>13 DEF Free, Goto
  <2>2. r \notin linked
    BY <2>1 DEF LeavingIsUnlinked
  <2>3. NewPwm(0) \in Pwm /\ ~NewPwm(0).running
    BY NewPwmType, PwmAssumption
  <2>4. \A q \in Records : /\ thread'[q] = IF q = r THEN "none" ELSE thread[q]
                           /\ pwm'[q] = IF q = r THEN NewPwm(0) ELSE pwm[q]
    BY <2>1 DEF TypeOK
  <2>5. TypeOK'
    <3>1. pwm' \in [Records -> Pwm]
      BY <1>3, <2>1, <2>3
    <3>2. thread' \in [Records -> Places]
      BY <2>1 DEF TypeOK, Places
    <3>3. cycle' \in [Records -> Nat \cup {Disturbed}]
      BY <2>1 DEF TypeOK
    <3> QED BY <1>1, <2>1, <3>1, <3>2, <3>3 DEF TypeOK
  <2>6. NoUseAfterFree'
    BY <1>1, <2>1, <2>2, <2>4 DEF NoUseAfterFree
  <2>7. OneLinkedPerPin' /\ LinkedRuns'
    BY <1>1, <1>3, <2>2, <2>4 DEF OneLinkedPerPin, LinkedRuns
  <2>8. RunningIsLinked' /\ LeavingIsUnlinked'
    BY <1>1, <2>2, <2>3, <2>4 DEF RunningIsLinked, LeavingIsUnlinked
  <2>9. HighPinHasDriver'
    BY <2>1, <2>4 DEF HighPinHasDriver
  <2> QED BY <2>5, <2>6, <2>7, <2>8, <2>9
<1> QED BY <1>8, <1>9, <1>10, <1>11, <1>12, <1>13 DEF PwmThread

(* The invariant holds in every state.                                      *)
LEMMA IInvAlways == Spec => []IInv
<1>1. IInv /\ [Next]_vars => IInv'
  <2> SUFFICES ASSUME IInv, [Next]_vars PROVE IInv'
    OBVIOUS
  <2>1. CASE Next
    BY <2>1, CallIInv, ThreadIInv DEF Next
  <2>2. CASE UNCHANGED vars
    BY <2>2 DEF vars, call, IInv, TypeOK, NoUseAfterFree, OneLinkedPerPin,
                RunningIsLinked, LinkedRuns, LeavingIsUnlinked, HighPinHasDriver
  <2> QED BY <2>1, <2>2
<1> QED BY InitIInv, <1>1, PTL DEF Spec

(* soft_pwm.c keeps the types of its records.                               *)
THEOREM TypeOKAlways == Spec => []TypeOK
<1>1. IInv => TypeOK
  BY DEF IInv
<1> QED BY <1>1, IInvAlways, PTL

(* No call and no thread ever works on a record that was freed.             *)
THEOREM NoUseAfterFreeAlways == Spec => []NoUseAfterFree
<1>1. IInv => NoUseAfterFree
  BY DEF IInv
<1> QED BY <1>1, IInvAlways, PTL

(* A channel never has two running PWMs.                                    *)
THEOREM OneRunningPerPinAlways == Spec => []OneRunningPerPin
<1>1. IInv => OneRunningPerPin
  BY DEF IInv, OneRunningPerPin, OneLinkedPerPin, RunningIsLinked
<1> QED BY <1>1, IInvAlways, PTL

(* A pin left high always has a thread that will write it again.            *)
THEOREM HighPinHasDriverAlways == Spec => []HighPinHasDriver
<1>1. IInv => HighPinHasDriver
  BY DEF IInv
<1> QED BY <1>1, IInvAlways, PTL

-----------------------------------------------------------------------------
(* An undisturbed turn lasts one period.  The sleep requests of a record    *)
(* agree with its duty cycle, except for those the call in progress has     *)
(* still to calculate (TimesFit), and every turn of a thread that such a    *)
(* call reaches into is marked (SleptFits).                                 *)

CallHasSteps == current = None <=> todo = {}

(* What calculate_times () stores for duty cycle d and slices of length s.  *)
OnTimes(d, s) == {Whole(d * q) : q \in {s - 1, s, s + 1}}
OffTime(d, s) == Whole((100 - d) * s)

TimesFit ==
  \A r \in Records :
    /\ ~(r = current /\ "on" \in todo)
         => pwm[r].req_on \in OnTimes(pwm[r].dutycycle, pwm[r].slicetime)
    /\ ~(r = current /\ "off" \in todo)
         => pwm[r].req_off = OffTime(pwm[r].dutycycle, pwm[r].slicetime)

(* At pc, a thread whose record holds p has slept c of its turn.            *)
Slept(pc, p, c) ==
  /\ pc \in {"high?", "high", "sleep on"} => c = 0
  /\ pc \in {"low?", "low", "sleep off"} => c = p.req_on
  /\ pc = "loop" => IsPeriod(c, p.slicetime)

SleptFits ==
  \A r \in Records :
    cycle[r] # Disturbed => r # current /\ Slept(thread[r], pwm[r], cycle[r])

PeriodInv == CallHasSteps /\ TimesFit /\ SleptFits

(* Without truncation the two parts of a period add up to it.               *)
LEMMA PartsAddUp ==
  ASSUME NEW d \in 0..100, NEW s \in Nat \ {0}
  PROVE  /\ d * s + (100 - d) * s = 100 * s
         /\ d * (s - 1) = d * s - d /\ d * (s + 1) = d * s + d
         /\ d * s \in Nat /\ (100 - d) * s \in Nat
         /\ d * (s - 1) \in Nat /\ d * (s + 1) \in Nat
  OBVIOUS

(* The two parts of a period add up to it, but for what rounding and       *)
(* truncation lose, whichever of them is empty.                             *)
LEMMA PartsOfPeriod ==
  ASSUME NEW d \in 0..100, NEW s \in Nat \ {0}, NEW t \in OnTimes(d, s)
  PROVE  /\ IsPeriod(t + OffTime(d, s), s)
         /\ ~(d > 0) => t = 0
         /\ ~(d < 100) => IsPeriod(t, s)
<1>1. PICK u \in Nat : t = Whole(u) /\ u \in {d * s - d, d * s, d * s + d}
  <2>1. PICK q \in {s - 1, s, s + 1} : t = Whole(d * q)
    BY DEF OnTimes
  <2>2. d * q \in Nat /\ d * q \in {d * s - d, d * s, d * s + d}
    BY PartsAddUp
  <2> QED BY <2>1, <2>2
<1> DEFINE a == d * s
           b == (100 - d) * s
<1>2. a \in Nat /\ b \in Nat /\ a + b = 100 * s
  BY PartsAddUp
<1>3. t \in Nat /\ t <= u /\ u < t + Microsecond
  BY <1>1, WholeLoses
<1>4. Whole(b) \in Nat /\ Whole(b) <= b /\ b < Whole(b) + Microsecond
  BY <1>2, WholeLoses
<1>5. u \in {a - d, a, a + d}
  BY <1>1
<1>6. ~(d > 0) => a = 0
  OBVIOUS
<1>7. ~(d < 100) => b = 0
  OBVIOUS
<1>8. OffTime(d, s) = Whole(b)
  BY DEF OffTime
<1> HIDE DEF a, b
<1>9. IsPeriod(t + Whole(b), s)
  BY <1>2, <1>3, <1>4, <1>5 DEF IsPeriod, Microsecond
<1>10. ~(d > 0) => t = 0
  BY <1>3, <1>5, <1>6
<1>11. ~(d < 100) => IsPeriod(t, s)
  BY <1>2, <1>3, <1>5, <1>7 DEF IsPeriod, Microsecond
<1> QED BY <1>8, <1>9, <1>10, <1>11

LEMMA IdleTimes ==
  ASSUME NEW g, NEW s \in Nat \ {0}
  PROVE  /\ Idle(g, s).req_on \in OnTimes(Idle(g, s).dutycycle, Idle(g, s).slicetime)
         /\ Idle(g, s).req_off = OffTime(Idle(g, s).dutycycle, Idle(g, s).slicetime)
<1>1. Whole(0 * s) = 0
  BY DEF Whole, Microsecond
<1>2. 0 \in OnTimes(0, s)
  BY <1>1 DEF OnTimes
<1>3. OffTime(0, s) = Whole(100 * s)
  BY DEF OffTime
<1> QED BY <1>2, <1>3 DEF Idle

LEMMA InitPeriod == Init => PeriodInv
<1> SUFFICES ASSUME Init PROVE PeriodInv
  OBVIOUS
<1>1. \A r \in Records : pwm[r] = Idle(0, 999) /\ cycle[r] = Disturbed
  BY DEF Init, NewPwm, Microsecond
<1>2. TimesFit
  BY <1>1, IdleTimes DEF TimesFit
<1> QED BY <1>1, <1>2 DEF Init, PeriodInv, CallHasSteps, SleptFits

(* A step that leaves the threads and the record of nobody but r.           *)
LEMMA UsePeriod ==
  ASSUME PeriodInv, TypeOK, todo = {}, NEW r \in Records, NEW p,
         pwm' = [pwm EXCEPT ![r] = p],
         cycle' = [cycle EXCEPT ![r] = Disturbed], thread' = thread,
         CallHasSteps', current' \in {None, r},
         ~(current' = r /\ "on" \in todo') => p.req_on \in OnTimes(p.dutycycle, p.slicetime),
         ~(current' = r /\ "off" \in todo') => p.req_off = OffTime(p.dutycycle, p.slicetime)
  PROVE  PeriodInv'
<1> USE DEF PeriodInv
<1>1. \A q \in Records : /\ pwm'[q] = IF q = r THEN p ELSE pwm[q]
                         /\ cycle'[q] = IF q = r THEN Disturbed ELSE cycle[q]
  BY DEF TypeOK
<1>2. current = None /\ None \notin Records
  BY PwmAssumption DEF CallHasSteps
<1>3. TimesFit'
  BY <1>1, <1>2 DEF TimesFit
<1>4. SleptFits'
  BY <1>1, <1>2 DEF SleptFits
<1> QED BY <1>3, <1>4

LEMMA RemovePeriod ==
  ASSUME PeriodInv, TypeOK, NEW g, remove_pwm(g), UNCHANGED <<thread, call, cycle>>
  PROVE  PeriodInv'
<1>1. \A r \in Records :
        /\ pwm'[r].dutycycle = pwm[r].dutycycle /\ pwm'[r].slicetime = pwm[r].slicetime
        /\ pwm'[r].req_on = pwm[r].req_on /\ pwm'[r].req_off = pwm[r].req_off
  BY DEF remove_pwm, TypeOK, Pwm
<1>2. TimesFit'
  BY <1>1 DEF PeriodInv, TimesFit, call
<1>3. SleptFits'
  BY <1>1 DEF PeriodInv, SleptFits, Slept, call
<1> QED BY <1>2, <1>3 DEF PeriodInv, CallHasSteps, call

LEMMA CallStartsPeriod == IInv /\ PeriodInv /\ CallStarts => PeriodInv'
<1> SUFFICES ASSUME IInv, PeriodInv, CallStarts PROVE PeriodInv'
  OBVIOUS
<1> USE DEF IInv, call
<1>1. ASSUME NEW o \in Objects, NEW g \in Gpios, NEW s \in Slices, Create(o, g, s)
      PROVE  PeriodInv'
  <2>1. PICK r \in Records : /\ pwm' = [pwm EXCEPT ![r] = Idle(g, s)]
                             /\ cycle' = [cycle EXCEPT ![r] = Disturbed]
    BY <1>1 DEF Create
  <2>2. todo = {} /\ thread' = thread /\ todo' = todo /\ current' = current
    BY <1>1 DEF Create
  <2>3. CallHasSteps' /\ current' = None
    BY <2>2 DEF PeriodInv, CallHasSteps
  <2>4. s \in Nat \ {0}
    BY PwmAssumption
  <2> HIDE DEF IInv
  <2>5. TypeOK
    BY DEF IInv
  <2> QED BY <2>1, <2>2, <2>3, <2>4, <2>5, IdleTimes, UsePeriod
<1>2. ASSUME NEW g, NEW e, Reject(g, e) PROVE PeriodInv'
  BY <1>2, RemovePeriod DEF Reject
<1>3. ASSUME NEW r \in Records, NEW p, NEW steps, {"on", "off"} \subseteq steps,
             todo = {}, Enter(r, p, steps)
      PROVE  PeriodInv'
  <2>1. /\ pwm' = [pwm EXCEPT ![r] = p] /\ cycle' = [cycle EXCEPT ![r] = Disturbed]
        /\ thread' = thread /\ current' = r /\ todo' = steps
    BY <1>3 DEF Enter
  <2>2. CallHasSteps'
    BY <1>3, <2>1, PwmAssumption DEF CallHasSteps
  <2> QED BY <1>3, <2>1, <2>2, UsePeriod
<1>4. \A o \in Objects, d \in Dutycycles :
        PwmStart(o, d) \/ ChangeDutyCycle(o, d) => PeriodInv'
  BY <1>3 DEF PwmStart, ChangeDutyCycle, SetDutyCycle
<1>5. \A o \in Objects, s \in Slices : ChangeFrequency(o, s) => PeriodInv'
  BY <1>3 DEF ChangeFrequency
<1>6. \A o \in Objects : Stop(o) \/ Dealloc(o) => PeriodInv'
  BY RemovePeriod DEF Stop, Dealloc
<1>7. CASE CreateInvalidChannel \/ CreateDuplicate \/ CreateRefused
  BY <1>7, <1>2 DEF CreateInvalidChannel, CreateDuplicate, CreateRefused
<1> QED BY <1>1, <1>4, <1>5, <1>6, <1>7 DEF CallStarts

(* While a call goes on, the thread's turn does not count as undisturbed.   *)
LEMMA CallGoesOnPeriod == IInv /\ PeriodInv /\ CallGoesOn => PeriodInv'
<1> SUFFICES ASSUME IInv, PeriodInv, CallGoesOn PROVE PeriodInv'
  OBVIOUS
<1> USE DEF IInv, PeriodInv
<1>1. current \in Records /\ todo # {} /\ cycle[current] = Disturbed
  BY DEF CallGoesOn, CalculateOn, CalculateOff, StartThread, NoUseAfterFree, TypeOK,
         SleptFits
<1>2. /\ cycle'[current] = Disturbed
      /\ \A r \in Records \ {current} :
           cycle'[r] = cycle[r] /\ thread'[r] = thread[r] /\ pwm'[r] = pwm[r]
  BY <1>1 DEF CallGoesOn, CalculateOn, CalculateOff, StartThread, TypeOK
<1>3. PICK step \in todo : Advance(step)
  BY DEF CallGoesOn, CalculateOn, CalculateOff, StartThread
<1>4. CallHasSteps' /\ None \notin Records /\ current' \in {current, None}
  BY <1>1, <1>3, PwmAssumption DEF Advance, CallHasSteps
<1>5. SleptFits'
  BY <1>1, <1>2, <1>4 DEF SleptFits
<1>6. /\ pwm[current] \in Pwm /\ pwm \in [Records -> Pwm]
  BY <1>1 DEF TypeOK
<1>7. TimesFit'
  <2>1. CASE CalculateOn
    <3> DEFINE d == pwm[current].dutycycle
               s == pwm[current].slicetime
    <3>0. PICK q \in Rounded(s) : pwm' = [pwm EXCEPT ![current].req_on = Whole(d * q)]
      BY <2>1 DEF CalculateOn
    <3>3. Whole(d * q) \in OnTimes(d, s)
      <4>1. d \in 0..100 /\ s \in Nat \ {0}
        BY <1>6 DEF Pwm
      <4> HIDE DEF d, s
      <4>2. q \in {s - 1, s, s + 1}
        BY <4>1, RoundedType
      <4> QED BY <4>2 DEF OnTimes
    <3>1. /\ pwm'[current].req_on \in OnTimes(d, s)
          /\ pwm'[current].req_off = pwm[current].req_off
          /\ pwm'[current].dutycycle = d
          /\ pwm'[current].slicetime = s
      <4> DEFINE t == Whole(d * q)
      <4>1. pwm' = [pwm EXCEPT ![current].req_on = t] /\ t \in OnTimes(d, s)
        BY <3>0, <3>3
      <4> HIDE DEF t
      <4> QED BY <1>1, <1>6, <4>1 DEF Pwm
    <3>2. "on" \in todo /\ todo' = todo \ {"on"}
      BY <2>1 DEF CalculateOn, Advance
    <3> QED BY <1>1, <1>2, <1>4, <3>1, <3>2 DEF TimesFit, CallHasSteps
  <2>2. CASE CalculateOff
    <3>1. /\ pwm'[current].req_off = OffTime(pwm[current].dutycycle, pwm[current].slicetime)
          /\ pwm'[current].req_on = pwm[current].req_on
          /\ pwm'[current].dutycycle = pwm[current].dutycycle
          /\ pwm'[current].slicetime = pwm[current].slicetime
      BY <1>1, <1>6, <2>2 DEF CalculateOff, Pwm, OffTime
    <3>2. "on" \notin todo /\ todo' = todo \ {"off"}
      BY <2>2 DEF CalculateOff, Advance
    <3> QED BY <1>1, <1>2, <1>4, <3>1, <3>2 DEF TimesFit, CallHasSteps
  <2>3. CASE StartThread
    <3>1. todo = {"start"} /\ todo' = {}
      BY <2>3 DEF StartThread, Advance
    <3>2. \A r \in Records :
            /\ pwm'[r].dutycycle = pwm[r].dutycycle /\ pwm'[r].slicetime = pwm[r].slicetime
            /\ pwm'[r].req_on = pwm[r].req_on /\ pwm'[r].req_off = pwm[r].req_off
      BY <1>1, <1>6, <2>3 DEF StartThread, Pwm
    <3> QED BY <3>1, <3>2 DEF TimesFit
  <2> QED BY <2>1, <2>2, <2>3 DEF CallGoesOn
<1> QED BY <1>4, <1>5, <1>7

LEMMA ThreadPeriod ==
  ASSUME IInv, PeriodInv, NEW r \in Records, PwmThread(r)
  PROVE  PeriodInv'
<1> USE DEF IInv, PeriodInv
<1>1. UNCHANGED <<current, todo>>
  BY DEF PwmThread, Loop, TestHigh, High, SleepOn, TestLow, Low, SleepOff, CleanUp,
         Free, Output, Sleep, rest, call
<1>2. CallHasSteps'
  BY <1>1 DEF CallHasSteps
<1>3. ASSUME pwm' = pwm, NEW to, thread' = [thread EXCEPT ![r] = to],
             NEW c, cycle' = [cycle EXCEPT ![r] = c],
             c # Disturbed => r # current /\ Slept(to, pwm[r], c)
      PROVE  PeriodInv'
  <2>1. \A q \in Records : /\ thread'[q] = IF q = r THEN to ELSE thread[q]
                           /\ cycle'[q] = IF q = r THEN c ELSE cycle[q]
    BY <1>3 DEF TypeOK
  <2>2. SleptFits'
    BY <1>1, <1>3, <2>1 DEF SleptFits
  <2>3. TimesFit'
    BY <1>1, <1>3 DEF TimesFit
  <2> QED BY <1>2, <2>2, <2>3
<1>4. cycle = [cycle EXCEPT ![r] = cycle[r]]
  BY DEF TypeOK
<1> DEFINE d == pwm[r].dutycycle
           s == pwm[r].slicetime
<1>5. r # current => /\ IsPeriod(pwm[r].req_on + pwm[r].req_off, s)
                     /\ ~(d > 0) => pwm[r].req_on = 0
                     /\ ~(d < 100) => IsPeriod(pwm[r].req_on, s)
  <2>1. d \in 0..100 /\ s \in Nat \ {0}
    BY DEF TypeOK, Pwm
  <2>2. r # current => pwm[r].req_on \in OnTimes(d, s) /\ pwm[r].req_off = OffTime(d, s)
    BY DEF TimesFit
  <2> HIDE DEF d, s
  <2> QED BY <2>1, <2>2, PartsOfPeriod
<1> HIDE DEF d, s
<1> DEFINE Goes(to, c) ==
      pwm' = pwm /\ thread' = [thread EXCEPT ![r] = to] /\ cycle' = [cycle EXCEPT ![r] = c]
<1>7. CASE Loop(r)
  <2> DEFINE to == IF pwm[r].running THEN "high?" ELSE "clean"
             c == IF current = r THEN Disturbed ELSE 0
  <2>1. Goes(to, c)
    BY <1>7 DEF Loop, Goto, rest
  <2>2. c # Disturbed => r # current /\ Slept(to, pwm[r], c)
    BY DEF Slept
  <2> HIDE DEF to, c
  <2> QED BY <1>3, <2>1, <2>2
<1>8. CASE TestHigh(r)
  <2> DEFINE to == IF pwm[r].dutycycle > 0 THEN "high" ELSE "low?"
  <2>1. Goes(to, cycle[r]) /\ thread[r] = "high?"
    BY <1>4, <1>8 DEF TestHigh, Goto, rest
  <2>2. cycle[r] # Disturbed => r # current /\ cycle[r] = 0
    BY <2>1 DEF SleptFits, Slept
  <2>3. cycle[r] # Disturbed /\ ~(pwm[r].dutycycle > 0) => cycle[r] = pwm[r].req_on
    BY <2>2, <1>5 DEF d
  <2>4. cycle[r] # Disturbed => Slept(to, pwm[r], cycle[r])
    BY <2>2, <2>3 DEF Slept
  <2> HIDE DEF to
  <2> QED BY <1>3, <2>1, <2>2, <2>4
<1>9. CASE TestLow(r)
  <2> DEFINE to == IF pwm[r].dutycycle < 100 THEN "low" ELSE "loop"
  <2>1. Goes(to, cycle[r]) /\ thread[r] = "low?"
    BY <1>4, <1>9 DEF TestLow, Goto, rest
  <2>2. cycle[r] # Disturbed => r # current /\ cycle[r] = pwm[r].req_on
    BY <2>1 DEF SleptFits, Slept
  <2>3. cycle[r] # Disturbed /\ ~(pwm[r].dutycycle < 100) => IsPeriod(cycle[r], pwm[r].slicetime)
    BY <2>2, <1>5 DEF d, s
  <2>4. cycle[r] # Disturbed => Slept(to, pwm[r], cycle[r])
    BY <2>2, <2>3 DEF Slept
  <2> HIDE DEF to
  <2> QED BY <1>3, <2>1, <2>2, <2>4
<1>10. CASE High(r)
  <2>1. Goes("sleep on", cycle[r]) /\ thread[r] = "high"
    BY <1>4, <1>10 DEF High, Output, Goto, rest
  <2>2. cycle[r] # Disturbed => r # current /\ Slept("sleep on", pwm[r], cycle[r])
    BY <2>1 DEF SleptFits, Slept
  <2> QED BY <1>3, <2>1, <2>2
<1>11. CASE Low(r)
  <2>1. Goes("sleep off", cycle[r]) /\ thread[r] = "low"
    BY <1>4, <1>11 DEF Low, Output, Goto, rest
  <2>2. cycle[r] # Disturbed => r # current /\ Slept("sleep off", pwm[r], cycle[r])
    BY <2>1 DEF SleptFits, Slept
  <2> QED BY <1>3, <2>1, <2>2
<1>12. CASE SleepOn(r)
  <2> DEFINE c == IF cycle[r] = Disturbed THEN Disturbed ELSE cycle[r] + pwm[r].req_on
  <2>1. Goes("low?", c) /\ thread[r] = "sleep on"
    BY <1>12 DEF SleepOn, Sleep, Goto, rest
  <2>2. cycle[r] # Disturbed => r # current /\ cycle[r] = 0
    BY <2>1 DEF SleptFits, Slept
  <2>3. pwm[r].req_on \in Nat
    BY DEF TypeOK, Pwm
  <2>4. c # Disturbed => r # current /\ c = pwm[r].req_on
    BY <2>2, <2>3
  <2>5. c # Disturbed => Slept("low?", pwm[r], c)
    BY <2>4 DEF Slept
  <2> HIDE DEF c
  <2> QED BY <1>3, <2>1, <2>4, <2>5
<1>13. CASE SleepOff(r)
  <2> DEFINE c == IF cycle[r] = Disturbed THEN Disturbed ELSE cycle[r] + pwm[r].req_off
  <2>1. Goes("loop", c) /\ thread[r] = "sleep off"
    BY <1>13 DEF SleepOff, Sleep, Goto, rest
  <2>2. cycle[r] # Disturbed => r # current /\ cycle[r] = pwm[r].req_on
    BY <2>1 DEF SleptFits, Slept
  <2>3. c # Disturbed => r # current /\ IsPeriod(c, pwm[r].slicetime)
    BY <2>2, <1>5 DEF s
  <2>4. c # Disturbed => Slept("loop", pwm[r], c)
    BY <2>3 DEF Slept
  <2> HIDE DEF c
  <2> QED BY <1>3, <2>1, <2>3, <2>4
<1>14. CASE CleanUp(r)
  <2>1. Goes("free", cycle[r])
    BY <1>4, <1>14 DEF CleanUp, Output, Goto, rest
  <2>2. cycle[r] # Disturbed => r # current /\ Slept("free", pwm[r], cycle[r])
    BY DEF SleptFits, Slept
  <2> QED BY <1>3, <2>1, <2>2
<1>15. CASE Free(r)
  <2>1. \A q \in Records :
          /\ cycle'[q] = IF q = r THEN Disturbed ELSE cycle[q]
          /\ pwm'[q] = IF q = r THEN NewPwm(0) ELSE pwm[q]
          /\ q # r => thread'[q] = thread[q]
    BY <1>15 DEF Free, Goto, TypeOK
  <2>2. /\ NewPwm(0).req_on \in OnTimes(NewPwm(0).dutycycle, NewPwm(0).slicetime)
        /\ NewPwm(0).req_off = OffTime(NewPwm(0).dutycycle, NewPwm(0).slicetime)
    <3>1. 10 * Microsecond - 1 \in Nat \ {0}
      BY DEF Microsecond
    <3> QED BY <3>1, IdleTimes DEF NewPwm
  <2>3. TimesFit'
    BY <1>1, <2>1, <2>2 DEF TimesFit
  <2>4. SleptFits'
    BY <1>1, <2>1 DEF SleptFits
  <2> QED BY <1>2, <2>3, <2>4
<1> QED BY <1>7, <1>8, <1>9, <1>10, <1>11, <1>12, <1>13, <1>14, <1>15 DEF PwmThread

(* Whatever duty cycles and frequencies a program asks for, and however a   *)
(* thread and the calls interleave, a turn that no call disturbed sleeps one *)
(* period, less what calculate_times () drops: two parts of a microsecond   *)
(* and the rounding of a float.                                             *)
THEOREM UndisturbedTurnIsPeriodAlways == Spec => []UndisturbedTurnIsPeriod
<1>1. IInv /\ PeriodInv /\ [Next]_vars => PeriodInv'
  <2> SUFFICES ASSUME IInv, PeriodInv, [Next]_vars PROVE PeriodInv'
    OBVIOUS
  <2>1. CASE Next
    BY <2>1, CallStartsPeriod, CallGoesOnPeriod, ThreadPeriod DEF Next
  <2>2. CASE UNCHANGED vars
    BY <2>2 DEF vars, call, PeriodInv, CallHasSteps, TimesFit, SleptFits
  <2> QED BY <2>1, <2>2
<1>2. PeriodInv => UndisturbedTurnIsPeriod
  BY DEF PeriodInv, SleptFits, Slept, UndisturbedTurnIsPeriod
<1> QED BY InitPeriod, IInvAlways, <1>1, <1>2, PTL DEF Spec

-----------------------------------------------------------------------------
(* SoftPwm implements PwmOutput: each step is one of its steps, or leaves   *)
(* drivers and pins alone.                                                  *)

LEMMA DrivenPins ==
  ASSUME TypeOK
  PROVE  /\ \A r \in Records : r \in Driving <=> thread[r] \notin {"none", "free"}
         /\ \A r \in Driving : DrivenPin[r] = pwm[r].gpio /\ pwm[r].gpio \in Gpios
         /\ \A r \in Records \ Driving : DrivenPin[r] = None
         /\ Leaving \subseteq Driving /\ Driving \subseteq Records
  BY DEF Driving, DrivenPin, Leaving, TypeOK, Pwm

(* What leaves the drivers and the pins as they are is a stuttering step.   *)
LEMMA PinsStutter ==
  ASSUME UNCHANGED <<pin, thread>>,
         \A r \in Driving : pwm'[r].gpio = pwm[r].gpio,
         \A r \in Driving : r \in linked' <=> r \in linked
  PROVE  UNCHANGED Pins!vars
<1>1. Driving' = Driving
  BY DEF Driving
<1>2. DrivenPin' = DrivenPin
  BY <1>1 DEF DrivenPin
<1>3. Leaving' = Leaving
  BY <1>1 DEF Leaving
<1> QED BY <1>2, <1>3 DEF Pins!vars

(* remove_pwm () tells the owner of the pin to leave, if it has one.        *)
LEMMA PinsRemove ==
  ASSUME IInv, NEW g \in Gpios, remove_pwm(g), UNCHANGED <<thread, pin>>
  PROVE  [Pins!Next]_(Pins!vars)
<1> USE DEF IInv
<1>1. /\ linked \subseteq Records
      /\ \A r \in linked : r \in linked' <=> pwm[r].gpio # g
      /\ linked' \subseteq linked
  BY DEF remove_pwm, TypeOK
<1>2. \A r \in Records : pwm'[r].gpio = pwm[r].gpio
  BY DEF remove_pwm, TypeOK, Pwm
<1>3. CASE \A r \in linked : pwm[r].gpio = g => r \notin Driving
  <2>1. \A r \in Driving : pwm'[r].gpio = pwm[r].gpio /\ (r \in linked' <=> r \in linked)
    BY <1>1, <1>2, <1>3, DrivenPins
  <2> QED BY <2>1, PinsStutter
<1>4. ASSUME NEW r \in linked, pwm[r].gpio = g, r \in Driving
      PROVE  Pins!Stop(r)
  <2>1. \A q \in linked : q \in linked' <=> q # r
    BY <1>1, <1>4 DEF OneLinkedPerPin
  <2>2. Driving' = Driving
    BY DEF Driving
  <2>3. Leaving' = Leaving \cup {r}
    BY <1>1, <1>4, <2>1, <2>2 DEF Leaving
  <2>4. DrivenPin' = DrivenPin
    BY <1>2, <2>2, DrivenPins DEF DrivenPin
  <2>5. DrivenPin[r] # None
    BY <1>4, DrivenPins, PwmAssumption
  <2>6. r \notin Leaving
    BY <1>4 DEF Leaving
  <2> QED BY <2>3, <2>4, <2>5, <2>6 DEF Pins!Stop
<1>5. ASSUME NEW r \in linked, Pins!Stop(r) PROVE Pins!Next
  BY <1>1, <1>5 DEF Pins!Next
<1> QED BY <1>3, <1>4, <1>5

(* A call that uses the record of its channel leaves the drivers alone: the *)
(* record has no thread yet, or keeps its channel and its place in the list.*)
LEMMA PinsUse ==
  ASSUME IInv, NEW g \in Gpios, NEW r \in Records, find_pwm(g, r),
         NEW p, p.gpio = g, pwm' = [pwm EXCEPT ![r] = p],
         linked' = linked \cup {r}, UNCHANGED <<thread, pin>>
  PROVE  UNCHANGED Pins!vars
<1> USE DEF IInv
<1>1. (r \in linked /\ pwm[r].gpio = g) \/ r \notin heap
  BY DEF find_pwm
<1>2. r \notin heap => r \notin Driving
  BY DrivenPins DEF NoUseAfterFree
<1>3. \A q \in Records : pwm'[q] = IF q = r THEN p ELSE pwm[q]
  BY DEF TypeOK
<1>4. \A q \in Driving : pwm'[q].gpio = pwm[q].gpio /\ (q \in linked' <=> q \in linked)
  BY <1>1, <1>2, <1>3, DrivenPins
<1> QED BY <1>4, PinsStutter

LEMMA PinsCallStarts == IInv /\ CallStarts => [Pins!Next]_(Pins!vars)
<1> SUFFICES ASSUME IInv, CallStarts PROVE [Pins!Next]_(Pins!vars)
  OBVIOUS
<1> USE DEF IInv
<1>1. ASSUME NEW o \in Objects, NEW g \in Gpios, NEW s \in Slices, Create(o, g, s)
      PROVE  UNCHANGED Pins!vars
  <2>1. PICK r \in Records :
          /\ find_pwm(g, r) /\ linked' = linked \cup {r}
          /\ pwm' = [pwm EXCEPT ![r] = Idle(g, s)]
    BY <1>1 DEF Create
  <2>2. Idle(g, s).gpio = g /\ UNCHANGED <<thread, pin>>
    BY <1>1 DEF Idle, Create
  <2> HIDE DEF IInv
  <2> QED BY <2>1, <2>2, PinsUse
<1>2. ASSUME NEW g \in Gpios, NEW e, Reject(g, e)
      PROVE  [Pins!Next]_(Pins!vars)
  BY <1>2, PinsRemove DEF Reject
<1>3. ASSUME NEW o \in Objects, NEW d, NEW steps, SetDutyCycle(o, d, steps)
      PROVE  UNCHANGED Pins!vars
  <2> DEFINE g == object[o]
  <2>1. PICK r \in Records :
          find_pwm(g, r) /\ Enter(r, [Found(g, r) EXCEPT !.dutycycle = d], steps)
    BY <1>3 DEF SetDutyCycle
  <2>2. g \in Gpios
    BY <1>3 DEF SetDutyCycle, TypeOK
  <2>3. Found(g, r) \in Pwm /\ Found(g, r).gpio = g
    BY <2>1, <2>2, NewPwmType DEF Found, find_pwm, pwm_exists, TypeOK, NoUseAfterFree
  <2> DEFINE p == [Found(g, r) EXCEPT !.dutycycle = d]
  <2>4. p.gpio = g
    BY <2>3 DEF Pwm
  <2>5. pwm' = [pwm EXCEPT ![r] = p] /\ linked' = linked \cup {r} /\ UNCHANGED <<thread, pin>>
    BY <2>1 DEF Enter
  <2> HIDE DEF p, g, IInv
  <2> QED BY <2>1, <2>2, <2>4, <2>5, PinsUse
<1>4. ASSUME NEW o \in Objects, NEW s \in Slices, ChangeFrequency(o, s)
      PROVE  UNCHANGED Pins!vars
  <2> DEFINE g == object[o]
  <2>1. PICK r \in Records :
          find_pwm(g, r) /\ Enter(r, [Found(g, r) EXCEPT !.slicetime = s], {"on", "off"})
    BY <1>4 DEF ChangeFrequency
  <2>2. g \in Gpios
    BY <1>4 DEF ChangeFrequency, TypeOK
  <2>3. Found(g, r) \in Pwm /\ Found(g, r).gpio = g
    BY <2>1, <2>2, NewPwmType DEF Found, find_pwm, pwm_exists, TypeOK, NoUseAfterFree
  <2> DEFINE p == [Found(g, r) EXCEPT !.slicetime = s]
  <2>4. p.gpio = g
    BY <2>3 DEF Pwm
  <2>5. pwm' = [pwm EXCEPT ![r] = p] /\ linked' = linked \cup {r} /\ UNCHANGED <<thread, pin>>
    BY <2>1 DEF Enter
  <2> HIDE DEF p, g, IInv
  <2> QED BY <2>1, <2>2, <2>4, <2>5, PinsUse
<1>5. ASSUME NEW o \in Objects, Stop(o) \/ Dealloc(o)
      PROVE  [Pins!Next]_(Pins!vars)
  <2>1. object[o] \in Gpios
    BY <1>5 DEF Stop, Dealloc, TypeOK
  <2> QED BY <1>5, <2>1, PinsRemove DEF Stop, Dealloc
<1>6. CASE CreateInvalidChannel \/ CreateDuplicate \/ CreateRefused
  BY <1>6, <1>2, PwmAssumption DEF CreateInvalidChannel, CreateDuplicate, CreateRefused
<1>7. \A o \in Objects, d \in Dutycycles :
        PwmStart(o, d) \/ ChangeDutyCycle(o, d) => UNCHANGED Pins!vars
  BY <1>3 DEF PwmStart, ChangeDutyCycle
<1> QED BY <1>1, <1>4, <1>5, <1>6, <1>7 DEF CallStarts

LEMMA PinsCallGoesOn == IInv /\ CallGoesOn => [Pins!Next]_(Pins!vars)
<1> SUFFICES ASSUME IInv, CallGoesOn PROVE [Pins!Next]_(Pins!vars)
  OBVIOUS
<1> USE DEF IInv
<1>1. /\ current \in linked /\ current \in Records
      /\ UNCHANGED <<linked, pin>>
  BY DEF CallGoesOn, CalculateOn, CalculateOff, StartThread, NoUseAfterFree, TypeOK
<1>2. CASE \A r \in Records : thread' = thread /\ pwm'[r].gpio = pwm[r].gpio
  <2>1. thread' = thread
    BY <1>1, <1>2
  <2> QED BY <1>1, <1>2, <2>1, DrivenPins, PinsStutter
<1>3. CASE CalculateOn \/ CalculateOff
  <2>1. thread' = thread
    BY <1>3 DEF CalculateOn, CalculateOff
  <2>2. \A r \in Records : pwm'[r].gpio = pwm[r].gpio
    BY <1>3, <1>1 DEF CalculateOn, CalculateOff, TypeOK, Pwm
  <2> QED BY <1>2, <2>1, <2>2
<1>4. ASSUME ~pwm[current].running,
             pwm' = [pwm EXCEPT ![current].running = TRUE],
             thread' = [thread EXCEPT ![current] = "loop"]
      PROVE  Pins!Next
  <2> DEFINE g == pwm[current].gpio
  <2>1. g \in Gpios
    BY <1>1 DEF TypeOK, Pwm
  <2>2. thread[current] = "none" /\ current \notin Driving
    BY <1>1, <1>4, DrivenPins DEF LinkedRuns
  <2>3. \A r \in Records : thread'[r] = IF r = current THEN "loop" ELSE thread[r]
    BY <1>1, <1>4 DEF TypeOK
  <2>4. \A r \in Records : pwm'[r].gpio = pwm[r].gpio
    BY <1>1, <1>4 DEF TypeOK, Pwm
  <2>5. Driving' = Driving \cup {current}
    BY <1>1, <2>2, <2>3 DEF Driving
  <2>6. Leaving' = Leaving
    BY <1>1, <2>5 DEF Leaving
  <2>7. DrivenPin' = [DrivenPin EXCEPT ![current] = g]
    BY <1>1, <2>4, <2>5 DEF DrivenPin
  <2>8. DrivenPin[current] = None
    BY <1>1, <2>2, DrivenPins
  <2>9. \A r \in Records \ Leaving : DrivenPin[r] # g
    <3> SUFFICES ASSUME NEW r \in Records \ Leaving, DrivenPin[r] = g PROVE FALSE
      OBVIOUS
    <3>1. r \in Driving /\ pwm[r].gpio = g
      BY <2>1, DrivenPins, PwmAssumption
    <3>2. r \in linked
      BY <3>1 DEF Leaving
    <3>3. r = current
      BY <1>1, <3>1, <3>2 DEF OneLinkedPerPin
    <3> QED BY <2>2, <3>1, <3>3
  <2> HIDE DEF g
  <2>10. Pins!Start(current, g)
    BY <1>1, <2>6, <2>7, <2>8, <2>9 DEF Pins!Start
  <2> QED BY <1>1, <2>1, <2>10 DEF Pins!Next
<1>5. CASE StartThread
  <2>1. CASE UNCHANGED <<pwm, thread>>
    BY <1>2, <2>1
  <2> QED BY <1>4, <1>5, <2>1 DEF StartThread
<1> QED BY <1>3, <1>5 DEF CallGoesOn

LEMMA PinsThread ==
  ASSUME IInv, NEW r \in Records, PwmThread(r)
  PROVE  [Pins!Next]_(Pins!vars)
<1> USE DEF IInv
<1>1. linked' = linked
  BY DEF PwmThread, Loop, TestHigh, High, SleepOn, TestLow, Low, SleepOff, CleanUp,
         Free, Output, Sleep, rest
<1>2. ASSUME NEW to, to \notin {"none", "free"}, thread[r] \notin {"none", "free"},
             thread' = [thread EXCEPT ![r] = to], pwm' = pwm
      PROVE  Driving' = Driving /\ DrivenPin' = DrivenPin /\ Leaving' = Leaving
  <2>1. Driving' = Driving
    BY <1>2 DEF Driving, TypeOK
  <2> QED BY <1>1, <1>2, <2>1 DEF DrivenPin, Leaving
<1>3. CASE Loop(r) \/ TestHigh(r) \/ TestLow(r) \/ SleepOn(r) \/ SleepOff(r)
  <2>1. PICK to \in Places \ {"none", "free"} : thread' = [thread EXCEPT ![r] = to]
    BY <1>3 DEF Loop, TestHigh, TestLow, SleepOn, SleepOff, Sleep, Goto, Places
  <2>2. thread[r] \notin {"none", "free"}
    BY <1>3 DEF Loop, TestHigh, TestLow, SleepOn, SleepOff, Sleep, Goto
  <2>3. pwm' = pwm /\ pin' = pin
    BY <1>3 DEF Loop, TestHigh, TestLow, SleepOn, SleepOff, Sleep, rest
  <2> QED BY <1>2, <2>1, <2>2, <2>3 DEF Pins!vars
<1>4. ASSUME NEW level \in {0, 1}, NEW from, NEW to \in Places,
             to \notin {"none", "free"}, from \notin {"none", "free"},
             Output(r, from, to, level)
      PROVE  Pins!Next
  <2>1. /\ thread[r] = from /\ thread' = [thread EXCEPT ![r] = to] /\ pwm' = pwm
        /\ pin' = [pin EXCEPT ![pwm[r].gpio] = level]
    BY <1>4 DEF Output, Goto, rest
  <2>2. r \in Driving
    BY <1>4, <2>1, DrivenPins
  <2>3. DrivenPin[r] = pwm[r].gpio /\ DrivenPin[r] # None
    BY <2>2, DrivenPins, PwmAssumption
  <2>4. DrivenPin' = DrivenPin /\ Leaving' = Leaving
    BY <1>2, <1>4, <2>1
  <2>5. Pins!Write(r, level)
    BY <2>1, <2>3, <2>4 DEF Pins!Write
  <2> QED BY <1>4, <2>5 DEF Pins!Next
<1>5. CASE High(r) \/ Low(r)
  <2>1. ASSUME High(r) PROVE Pins!Next
    <3>1. Output(r, "high", "sleep on", 1)
      BY <2>1 DEF High
    <3>2. /\ 1 \in {0, 1} /\ "sleep on" \in Places
          /\ "high" \notin {"none", "free"} /\ "sleep on" \notin {"none", "free"}
      BY DEF Places
    <3> HIDE DEF IInv
    <3> QED BY <3>1, <3>2, <1>4
  <2>2. ASSUME Low(r) PROVE Pins!Next
    <3>1. Output(r, "low", "sleep off", 0)
      BY <2>2 DEF Low
    <3>2. /\ 0 \in {0, 1} /\ "sleep off" \in Places
          /\ "low" \notin {"none", "free"} /\ "sleep off" \notin {"none", "free"}
      BY DEF Places
    <3> HIDE DEF IInv
    <3> QED BY <3>1, <3>2, <1>4
  <2> QED BY <1>5, <2>1, <2>2
<1>6. CASE CleanUp(r)
  <2>1. /\ thread[r] = "clean" /\ thread' = [thread EXCEPT ![r] = "free"] /\ pwm' = pwm
        /\ pin' = [pin EXCEPT ![pwm[r].gpio] = 0]
    BY <1>6 DEF CleanUp, Output, Goto, rest
  <2>2. r \in Driving /\ r \in Leaving
    BY <2>1, DrivenPins DEF Leaving, LeavingIsUnlinked
  <2>3. DrivenPin[r] = pwm[r].gpio
    BY <2>2, DrivenPins
  <2>4. Driving' = Driving \ {r}
    BY <2>1 DEF Driving, TypeOK
  <2>5. Leaving' = Leaving \ {r}
    BY <1>1, <2>4 DEF Leaving
  <2>6. DrivenPin' = [DrivenPin EXCEPT ![r] = None]
    BY <2>1, <2>4 DEF DrivenPin
  <2>7. Pins!Leave(r)
    BY <2>1, <2>2, <2>3, <2>5, <2>6 DEF Pins!Leave
  <2> QED BY <2>7 DEF Pins!Next
<1>7. CASE Free(r)
  <2>1. /\ thread[r] = "free" /\ thread' = [thread EXCEPT ![r] = "none"]
        /\ pwm' = [pwm EXCEPT ![r] = NewPwm(0)] /\ pin' = pin
    BY <1>7 DEF Free, Goto
  <2>2. Driving' = Driving /\ r \notin Driving
    BY <2>1 DEF Driving, TypeOK
  <2>3. Leaving' = Leaving
    BY <1>1, <2>2 DEF Leaving
  <2>4. DrivenPin' = DrivenPin
    <3>1. \A q \in Records : q # r => pwm'[q] = pwm[q]
      BY <2>1 DEF TypeOK
    <3> QED BY <2>2, <3>1 DEF DrivenPin
  <2> QED BY <2>1, <2>3, <2>4 DEF Pins!vars
<1> QED BY <1>3, <1>5, <1>6, <1>7 DEF PwmThread

(* For any pins, objects and records, what calls and threads do to the pins *)
(* is what PwmOutput allows (its fairness is checked by TLC only).          *)
THEOREM PinsBehaveAlways == Spec => PinsBehave
<1>1. Init => Pins!Init
  <2> SUFFICES ASSUME Init PROVE Pins!Init
    OBVIOUS
  <2>1. Driving = {}
    BY DEF Init, Driving
  <2> QED BY <2>1 DEF Init, Pins!Init, DrivenPin, Leaving
<1>2. IInv /\ [Next]_vars => [Pins!Next]_(Pins!vars)
  <2> SUFFICES ASSUME IInv, [Next]_vars PROVE [Pins!Next]_(Pins!vars)
    OBVIOUS
  <2>1. CASE Next
    BY <2>1, PinsCallStarts, PinsCallGoesOn, PinsThread DEF Next
  <2>2. CASE UNCHANGED vars
    BY <2>2, PinsStutter DEF vars
  <2> QED BY <2>1, <2>2
<1> QED BY <1>1, <1>2, IInvAlways, PTL DEF Spec, PinsBehave

=============================================================================
