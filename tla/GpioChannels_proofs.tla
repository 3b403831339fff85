------------------------ MODULE GpioChannels_proofs ------------------------
EXTENDS GpioChannels, SequenceTheorems, TLAPS

SetupCalls ==
  [op : {"setup"}, list : Lists, direction : {"in", "out"}, initial : {-1, 0, 1},
   i : Nat, gpio : Gpios \cup {-1}, mode : Modes \cup {"UNKNOWN"},
   stage : {"number", "warned", "apply", "end"}]
OutputCalls ==
  [op : {"output"}, list : Lists, value : {0, 1}, i : Nat, stage : {"number", "end"}]
CleanupCalls == [op : {"cleanup"}, list : Lists, i : Nat, stage : {"number", "end"}]

Good(mode, c) == get_gpio_number(mode, c) # -1

-----------------------------------------------------------------------------
LEMMA CallKinds ==
  ASSUME NEW c \in Calls
  PROVE  /\ c = NoCall \/ c \in SetupCalls \/ c \in OutputCalls \/ c \in CleanupCalls
         /\ c.op = "setup" => c \in SetupCalls
         /\ c.op = "output" => c \in OutputCalls
         /\ c.op = "cleanup" => c \in CleanupCalls
         /\ c.op \notin {"setup", "output", "cleanup"} => c = NoCall
  BY DEF Calls, NoCall, SetupCalls, OutputCalls, CleanupCalls

LEMMA TableRange ==
  ASSUME NEW k \in 1..40
  PROVE  pin_to_gpio_rev3[k] \in -1..53
  BY DEF pin_to_gpio_rev3

LEMMA NumberRange ==
  ASSUME NEW mode, NEW c \in Int
  PROVE  /\ get_gpio_number(mode, c) \in -1..53
         /\ Good(mode, c) => mode \in Modes
  BY TableRange DEF get_gpio_number, Good, Modes

LEMMA FoundIsGpio ==
  ASSUME NEW c \in Calls, NEW mode, c # NoCall, c.i \in 1..Len(c.list),
         Good(mode, c.list[c.i])
  PROVE  get_gpio_number(mode, c.list[c.i]) \in Gpios
  <1>1. c.list \in Lists
    BY DEF Calls, NoCall
  <1>2. c.list \in Seq(Int) /\ c.i \in DOMAIN c.list
    BY <1>1, ListsAssumption
  <1>3. c.list[c.i] \in Int
    BY <1>2
  <1>4. mode \in Modes
    BY <1>3, NumberRange
  <1>5. c.list[c.i] \in UNION {{l[k] : k \in DOMAIN l} : l \in Lists}
    BY <1>1, <1>2
  <1>. QED
    BY <1>4, <1>5 DEF Gpios, Good

LEMMA GpiosRange == Gpios \subseteq 0..53
  <1>. SUFFICES ASSUME NEW g \in Gpios
                PROVE  g \in 0..53
    OBVIOUS
  <1>1. PICK m \in Modes, c \in UNION {{l[k] : k \in DOMAIN l} : l \in Lists} :
          g = get_gpio_number(m, c)
    BY DEF Gpios
  <1>2. c \in Int
    BY ListsAssumption
  <1>. QED
    BY <1>1, <1>2, NumberRange DEF Gpios

-----------------------------------------------------------------------------
(* A call in its loop is at a channel of its list, a set-up past the look-up *)
(* holds a gpio, and only a set-up that warns leaves the lock.               *)
Bounds ==
  \A t \in Threads :
    call[t] # NoCall /\ call[t].stage # "end" => call[t].i \in 1..Len(call[t].list)

Looked ==
  \A t \in Threads :
    call[t].op = "setup" /\ call[t].stage \in {"warned", "apply"} => call[t].gpio \in Gpios

Locked ==
  \A t \in Threads :
    call[t] # NoCall => gil = t \/ (call[t].op = "setup" /\ call[t].stage = "warned")

CInv == TypeOK /\ Bounds /\ Looked /\ Locked

CallOK(c) ==
  /\ c \in Calls
  /\ c # NoCall /\ c.stage # "end" => c.i \in 1..Len(c.list)
  /\ c.op = "setup" /\ c.stage \in {"warned", "apply"} => c.gpio \in Gpios

LEMMA CallsOK ==
  ASSUME CInv, NEW t \in Threads
  PROVE  CallOK(call[t])
  BY DEF CInv, TypeOK, Bounds, Looked, CallOK

(* One call moves on: what is left to show of the calls.                     *)
LEMMA OneCall ==
  ASSUME CInv, NEW t \in Threads, NEW c, CallOK(c),
         call' = [call EXCEPT ![t] = c],
         gil' = t \/ (gil' = "free" /\ (c = NoCall \/ (c.op = "setup" /\ c.stage = "warned"))),
         gil \in {t, "free"}
  PROVE  /\ call' \in [Threads -> Calls] /\ gil' \in Threads \cup {"free"}
         /\ Bounds' /\ Looked' /\ Locked'
  <1>. USE DEF CInv, TypeOK
  <1>1. \A s \in Threads : call'[s] = IF s = t THEN c ELSE call[s]
    OBVIOUS
  <1>2. \A s \in Threads : CallOK(call'[s])
    BY <1>1, CallsOK
  <1>3. call' \in [Threads -> Calls] /\ gil' \in Threads \cup {"free"}
    BY DEF CallOK
  <1>4. Bounds' /\ Looked'
    BY <1>2 DEF CallOK, Bounds, Looked
  <1>5. Locked'
    BY <1>1, FreeAssumption DEF Locked
  <1>. QED
    BY <1>3, <1>4, <1>5

LEMMA FirstOK ==
  ASSUME NEW list \in Lists
  PROVE  First(list) \in {"number", "end"} /\ (First(list) # "end" => 1 \in 1..Len(list))
  BY ListsAssumption DEF First

LEMMA Known ==
  ASSUME NEW c \in SetupCalls \cup OutputCalls \cup CleanupCalls
  PROVE  /\ c \in Calls /\ c # NoCall
         /\ (c.stage # "end" => c.i \in 1..Len(c.list)) /\ c.stage \in {"number", "end"}
              => CallOK(c)
  BY DEF CallOK, SetupCalls, OutputCalls, CleanupCalls, Calls, NoCall

(* The loop goes on to a channel of the list or ends.                        *)
LEMMA AdvanceOK ==
  ASSUME CInv, NEW t \in Threads, call[t] # NoCall, call[t].stage # "end", Advance(t)
  PROVE  \E c : /\ CallOK(c) /\ call' = [call EXCEPT ![t] = c]
                /\ c.op = call[t].op /\ c.list = call[t].list /\ c # NoCall
                /\ c.i = call[t].i + 1
                /\ c.stage = IF call[t].i < Len(call[t].list) THEN "number" ELSE "end"
  <1>. DEFINE s == IF call[t].i < Len(call[t].list) THEN "number" ELSE "end"
              d == [call[t] EXCEPT !.i = call[t].i + 1]
              c == [d EXCEPT !.stage = s]
  <1>1. call[t] \in Calls /\ call[t].i \in 1..Len(call[t].list)
    BY DEF CInv, TypeOK, Bounds
  <1>2. Len(call[t].list) \in Nat
    BY <1>1, ListsAssumption DEF Calls, NoCall
  <1>3. call' = [call EXCEPT ![t] = c]
    BY DEF Advance, CInv, TypeOK
  <1>4. /\ c \in SetupCalls \cup OutputCalls \cup CleanupCalls /\ c.op = call[t].op
        /\ c.i = call[t].i + 1 /\ c.stage = s /\ c.list = call[t].list
    <2>1. CASE call[t] \in SetupCalls
      <3>1. d \in SetupCalls /\ d.i = call[t].i + 1 /\ d.list = call[t].list
        BY <2>1 DEF SetupCalls
      <3>2. c \in SetupCalls /\ c.i = d.i /\ c.stage = s /\ c.list = d.list
        BY <3>1 DEF SetupCalls
      <3>. QED
        BY <2>1, <3>1, <3>2 DEF SetupCalls
    <2>2. CASE call[t] \in OutputCalls
      <3>1. d \in OutputCalls /\ d.i = call[t].i + 1 /\ d.list = call[t].list
        BY <2>2 DEF OutputCalls
      <3>2. c \in OutputCalls /\ c.i = d.i /\ c.stage = s /\ c.list = d.list
        BY <3>1 DEF OutputCalls
      <3>. QED
        BY <2>2, <3>1, <3>2 DEF OutputCalls
    <2>3. CASE call[t] \in CleanupCalls
      <3>1. d \in CleanupCalls /\ d.i = call[t].i + 1 /\ d.list = call[t].list
        BY <2>3 DEF CleanupCalls
      <3>2. c \in CleanupCalls /\ c.i = d.i /\ c.stage = s /\ c.list = d.list
        BY <3>1 DEF CleanupCalls
      <3>. QED
        BY <2>3, <3>1, <3>2 DEF CleanupCalls
    <2>. QED
      BY <1>1, <2>1, <2>2, <2>3, CallKinds
  <1>. HIDE DEF c
  <1>5. (c.stage # "end" => c.i \in 1..Len(c.list)) /\ c.stage \in {"number", "end"}
    BY <1>1, <1>2, <1>4
  <1>6. CallOK(c) /\ c # NoCall
    BY <1>4, <1>5, Known
  <1>. QED
    BY <1>3, <1>4, <1>6

LEMMA FailOK ==
  ASSUME CInv, NEW t \in Threads, call[t] # NoCall, call[t].stage # "end", Fail(t)
  PROVE  \E c : /\ CallOK(c) /\ call' = [call EXCEPT ![t] = c]
                /\ c.op = call[t].op /\ c.list = call[t].list /\ c # NoCall
                /\ c.stage = "end"
  <1>. DEFINE c == [call[t] EXCEPT !.stage = "end"]
  <1>1. call[t] \in Calls
    BY DEF CInv, TypeOK
  <1>2. call' = [call EXCEPT ![t] = c]
    BY DEF Fail, CInv, TypeOK
  <1>3. c \in Calls /\ c.stage = "end" /\ c.op = call[t].op /\ c.list = call[t].list
    BY <1>1 DEF Calls, NoCall
  <1>. QED
    BY <1>1, <1>2, <1>3 DEF CallOK, Calls, NoCall

-----------------------------------------------------------------------------
(* Type correctness.                                                         *)

LEMMA InitCInv == ASSUME Init PROVE CInv
  <1>1. TypeOK
    BY GpiosRange DEF Init, Import, TypeOK, NoUndo, Calls
  <1>2. Bounds /\ Looked /\ Locked
    BY DEF Init, Import, Bounds, Looked, Locked, NoCall
  <1>. QED
    BY <1>1, <1>2 DEF CInv

LEMMA SettingsCInv ==
  ASSUME CInv, (\E mode \in Modes : SetMode(mode)) \/ (\E state \in BOOLEAN : SetWarnings(state))
  PROVE  CInv'
  <1>1. UNCHANGED <<module_setup, gpio_direction, registers, gil, call, history>> /\ undo' = NoUndo
    BY DEF SetMode, SetWarnings
  <1>2. gpio_mode' \in Modes \cup {"UNKNOWN"} /\ gpio_warnings' \in BOOLEAN
    BY DEF SetMode, SetWarnings, CInv, TypeOK
  <1>3. Bounds' /\ Looked' /\ Locked'
    BY <1>1 DEF CInv, Bounds, Looked, Locked
  <1>. QED
    BY <1>1, <1>2, <1>3 DEF CInv, TypeOK, registers, history, NoUndo

LEMMA RestoreType ==
  ASSUME CInv, NEW S, Restore(S)
  PROVE  /\ fsel' \in [Gpios -> {"in", "out", "alt"}]
         /\ gpio_direction' \in [Gpios -> {"none", "in", "out"}]
  BY DEF Restore, CInv, TypeOK

LEMMA CleanupAllCInv ==
  ASSUME CInv, CleanupAll
  PROVE  CInv'
  <1>1. fsel' \in [Gpios -> {"in", "out", "alt"}]
        /\ gpio_direction' \in [Gpios -> {"none", "in", "out"}]
    BY RestoreType DEF CleanupAll, CInv, TypeOK
  <1>. QED
    BY <1>1 DEF CleanupAll, CInv, TypeOK, Bounds, Looked, Locked, NoUndo

LEMMA RestartCInv ==
  ASSUME CInv, Restart
  PROVE  CInv'
  BY DEF Restart, CInv, TypeOK, Bounds, Looked, Locked, NoUndo, NoCall, registers, Calls

LEMMA EnterCInv ==
  ASSUME CInv, NEW t \in Threads, NEW list \in Lists,
         \/ Setup(t, list, "in", -1)
         \/ \E initial \in {-1, 0, 1} : Setup(t, list, "out", initial)
         \/ \E value \in {0, 1} : Output(t, list, value)
         \/ CleanupList(t, list)
  PROVE  CInv'
  <1>1. PICK c : CallOK(c) /\ Enter(t, c) /\ c # NoCall
    <2>1. CASE \E d \in {"in", "out"}, initial \in {-1, 0, 1} : Setup(t, list, d, initial)
      <3>1. PICK d \in {"in", "out"}, initial \in {-1, 0, 1} : Setup(t, list, d, initial)
        BY <2>1
      <3>. DEFINE c == [op |-> "setup", list |-> list, direction |-> d, initial |-> initial,
                        i |-> 1, gpio |-> -1, mode |-> "UNKNOWN", stage |-> First(list)]
      <3>2. c \in SetupCalls
        BY FirstOK DEF SetupCalls
      <3>3. CallOK(c) /\ c # NoCall
        BY <3>2, FirstOK, Known
      <3>. QED
        BY <3>1, <3>3 DEF Setup
    <2>2. CASE \E value \in {0, 1} : Output(t, list, value)
      <3>1. PICK value \in {0, 1} : Output(t, list, value)
        BY <2>2
      <3>. DEFINE c == [op |-> "output", list |-> list, value |-> value, i |-> 1,
                        stage |-> First(list)]
      <3>2. c \in OutputCalls
        BY FirstOK DEF OutputCalls
      <3>3. CallOK(c) /\ c # NoCall
        BY <3>2, FirstOK, Known
      <3>. QED
        BY <3>1, <3>3 DEF Output
    <2>3. CASE CleanupList(t, list)
      <3>. DEFINE c == [op |-> "cleanup", list |-> list, i |-> 1, stage |-> First(list)]
      <3>2. c \in CleanupCalls
        BY FirstOK DEF CleanupCalls
      <3>3. CallOK(c) /\ c # NoCall
        BY <3>2, FirstOK, Known
      <3>. QED
        BY <2>3, <3>3 DEF CleanupList
    <2>. QED
      BY <2>1, <2>2, <2>3
  <1>2. /\ call' \in [Threads -> Calls] /\ gil' \in Threads \cup {"free"}
        /\ Bounds' /\ Looked' /\ Locked'
    BY <1>1, OneCall DEF Enter
  <1>3. /\ UNCHANGED <<gpio_mode, gpio_warnings, gpio_direction, registers, history>>
        /\ module_setup' \in BOOLEAN
    BY DEF Setup, Output, CleanupList, CInv, TypeOK
  <1>4. undo'.list \in Lists \cup {<<>>} /\ undo'.gpios \subseteq Gpios
    BY DEF Setup, Output, CleanupList, CInv, TypeOK, NoUndo
  <1>. QED
    BY <1>2, <1>3, <1>4 DEF CInv, TypeOK, registers, history

LEMMA ReturnCInv ==
  ASSUME CInv, NEW t \in Threads, Return(t)
  PROVE  CInv'
  <1>1. CallOK(NoCall)
    BY DEF CallOK, Calls, NoCall
  <1>2. /\ call' \in [Threads -> Calls] /\ gil' \in Threads \cup {"free"}
        /\ Bounds' /\ Looked' /\ Locked'
    BY <1>1, OneCall DEF Return
  <1>. QED
    BY <1>2 DEF Return, CInv, TypeOK, registers, history, NoUndo

LEMMA AtCall ==
  ASSUME CInv, NEW t \in Threads, NEW op \in {"setup", "output", "cleanup"},
         NEW stage \in {"number", "apply"}, At(t, op, stage)
  PROVE  /\ call[t] # NoCall /\ call[t].stage # "end" /\ gil = t
         /\ call[t].i \in 1..Len(call[t].list)
         /\ (Gpio(t) # -1 => Gpio(t) \in Gpios)
  <1>1. call[t] \in Calls /\ call[t] # NoCall /\ call[t].stage # "end" /\ gil = t
    BY DEF At, NoCall, CInv, TypeOK
  <1>2. call[t].i \in 1..Len(call[t].list)
    BY <1>1 DEF CInv, Bounds
  <1>. QED
    BY <1>1, <1>2, FoundIsGpio DEF Gpio, Channel, Good

(* A step inside the loop that fails or advances keeps what there is to      *)
(* keep of the calls.                                                        *)
LEMMA LoopCalls ==
  ASSUME CInv, NEW t \in Threads, call[t] # NoCall, call[t].stage # "end", gil = t,
         Fail(t) \/ (Advance(t) /\ UNCHANGED gil)
  PROVE  /\ call' \in [Threads -> Calls] /\ gil' \in Threads \cup {"free"}
         /\ Bounds' /\ Looked' /\ Locked'
  <1>1. PICK c : CallOK(c) /\ call' = [call EXCEPT ![t] = c]
    BY AdvanceOK, FailOK
  <1>2. gil' = t
    BY DEF Fail
  <1>. QED
    BY <1>1, <1>2, OneCall

LEMMA SetupNumberCInv ==
  ASSUME CInv, NEW t \in Threads, SetupNumber(t)
  PROVE  CInv'
  <1>1. At(t, "setup", "number") /\ call[t] \in SetupCalls
    BY CallKinds DEF SetupNumber, At, CInv, TypeOK
  <1>2. CASE Fail(t)
    BY <1>1, <1>2, AtCall, LoopCalls
       DEF SetupNumber, Fail, CInv, TypeOK, registers, history
  <1>3. CASE ~Fail(t)
    <2>1. PICK warns \in BOOLEAN :
            /\ Gpio(t) # -1
            /\ call' = [call EXCEPT ![t].gpio = Gpio(t), ![t].mode = gpio_mode,
                          ![t].stage = IF warns THEN "warned" ELSE "apply"]
            /\ gil' = IF warns THEN "free" ELSE t
            /\ UNCHANGED <<gpio_direction, registers, history>>
      BY <1>3 DEF SetupNumber
    <2>. DEFINE c == [call[t] EXCEPT !.gpio = Gpio(t), !.mode = gpio_mode,
                        !.stage = IF warns THEN "warned" ELSE "apply"]
    <2>2. c \in SetupCalls /\ c.gpio \in Gpios /\ c.i = call[t].i /\ c.list = call[t].list
          /\ c.stage = IF warns THEN "warned" ELSE "apply"
      BY <1>1, <2>1, AtCall DEF SetupCalls, CInv, TypeOK
    <2>3. CallOK(c)
      BY <1>1, <2>2, AtCall DEF CallOK, SetupCalls, Calls
    <2>4. call' = [call EXCEPT ![t] = c]
      BY <2>1 DEF CInv, TypeOK
    <2>5. gil' = t \/ (gil' = "free" /\ (c = NoCall \/ (c.op = "setup" /\ c.stage = "warned")))
      BY <2>1, <2>2 DEF SetupCalls
    <2>. HIDE DEF c
    <2>6. /\ call' \in [Threads -> Calls] /\ gil' \in Threads \cup {"free"}
          /\ Bounds' /\ Looked' /\ Locked'
      BY <1>1, <2>3, <2>4, <2>5, AtCall, OneCall
    <2>. QED
      BY <2>1, <2>6 DEF SetupNumber, CInv, TypeOK, registers, history
  <1>. QED
    BY <1>2, <1>3

LEMMA SetupResumeCInv ==
  ASSUME CInv, NEW t \in Threads, SetupResume(t)
  PROVE  CInv'
  <1>1. call[t] \in SetupCalls /\ call[t].stage = "warned" /\ call[t].gpio \in Gpios
        /\ call[t].i \in 1..Len(call[t].list)
    BY CallKinds DEF SetupResume, CInv, TypeOK, Looked, Bounds, NoCall
  <1>. DEFINE c == [call[t] EXCEPT !.stage = "apply"]
  <1>2. c \in SetupCalls /\ c.gpio \in Gpios /\ c.i = call[t].i /\ c.list = call[t].list
    BY <1>1 DEF SetupCalls
  <1>3. CallOK(c)
    BY <1>1, <1>2 DEF CallOK, SetupCalls, Calls
  <1>4. call' = [call EXCEPT ![t] = c]
    BY DEF SetupResume, CInv, TypeOK
  <1>. HIDE DEF c
  <1>5. /\ call' \in [Threads -> Calls] /\ gil' \in Threads \cup {"free"}
        /\ Bounds' /\ Looked' /\ Locked'
    BY <1>3, <1>4, OneCall DEF SetupResume
  <1>. QED
    BY <1>5 DEF SetupResume, CInv, TypeOK, registers, history

LEMMA SetupApplyCInv ==
  ASSUME CInv, NEW t \in Threads, SetupApply(t)
  PROVE  CInv'
  <1>1. At(t, "setup", "apply") /\ call[t] \in SetupCalls /\ call[t].gpio \in Gpios
    BY CallKinds DEF SetupApply, At, CInv, TypeOK, Looked
  <1>2. /\ call' \in [Threads -> Calls] /\ gil' \in Threads \cup {"free"}
        /\ Bounds' /\ Looked' /\ Locked'
    BY <1>1, AtCall, LoopCalls DEF SetupApply
  <1>3. /\ latch' \in [Gpios -> {0, 1}] /\ fsel' \in [Gpios -> {"in", "out", "alt"}]
        /\ gpio_direction' \in [Gpios -> {"none", "in", "out"}]
    BY <1>1 DEF SetupApply, CInv, TypeOK, SetupCalls
  <1>4. asFound' \subseteq Gpios /\ numbering' \in [Gpios -> Modes \cup {"UNKNOWN"}]
    BY <1>1 DEF SetupApply, CInv, TypeOK, SetupCalls
  <1>5. undo'.list \in Lists \cup {<<>>} /\ undo'.gpios \subseteq Gpios
    BY <1>1 DEF SetupApply, CInv, TypeOK
  <1>. QED
    BY <1>2, <1>3, <1>4, <1>5 DEF SetupApply, CInv, TypeOK

LEMMA OutputOneCInv ==
  ASSUME CInv, NEW t \in Threads, OutputOne(t)
  PROVE  CInv'
  <1>1. At(t, "output", "number") /\ call[t] \in OutputCalls
    BY CallKinds DEF OutputOne, At, CInv, TypeOK
  <1>2. /\ call' \in [Threads -> Calls] /\ gil' \in Threads \cup {"free"}
        /\ Bounds' /\ Looked' /\ Locked'
    BY <1>1, AtCall, LoopCalls DEF OutputOne
  <1>3. latch' \in [Gpios -> {0, 1}]
    BY <1>1, AtCall DEF OutputOne, Fail, Writable, CInv, TypeOK, registers, OutputCalls
  <1>. QED
    BY <1>2, <1>3 DEF OutputOne, Fail, CInv, TypeOK, registers, history

LEMMA CleanupOneCInv ==
  ASSUME CInv, NEW t \in Threads, CleanupOne(t)
  PROVE  CInv'
  <1>1. At(t, "cleanup", "number")
    BY DEF CleanupOne
  <1>2. /\ call' \in [Threads -> Calls] /\ gil' \in Threads \cup {"free"}
        /\ Bounds' /\ Looked' /\ Locked'
    BY <1>1, AtCall, LoopCalls DEF CleanupOne
  <1>3. /\ fsel' \in [Gpios -> {"in", "out", "alt"}]
        /\ gpio_direction' \in [Gpios -> {"none", "in", "out"}]
    BY RestoreType DEF CleanupOne, Fail, CInv, TypeOK, registers
  <1>. QED
    BY <1>2, <1>3 DEF CleanupOne, Fail, CInv, TypeOK, registers, history

LEMMA NextCInv ==
  ASSUME CInv, [Next]_vars
  PROVE  CInv'
  <1>1. CASE UNCHANGED vars
    BY <1>1 DEF CInv, TypeOK, Bounds, Looked, Locked, vars
  <1>2. CASE \E t \in Threads : Begin(t)
    BY <1>2, EnterCInv DEF Begin
  <1>. QED
    BY <1>1, <1>2, SettingsCInv, CleanupAllCInv, RestartCInv, ReturnCInv, SetupNumberCInv,
       SetupResumeCInv, SetupApplyCInv, OutputOneCInv, CleanupOneCInv DEF Next

(* For any threads and channel lists the variables keep their types; every   *)
(* index into gpio_direction is below 54.                                    *)
THEOREM TypeOKAlways == Spec => []TypeOK
  <1>1. CInv => TypeOK
    BY DEF CInv
  <1>. QED
    BY <1>1, InitCInv, NextCInv, PTL DEF Spec

-----------------------------------------------------------------------------
(* What is changed is found again.                                           *)

LEMMA RestoreForgets ==
  ASSUME CInv, NothingForgotten, NEW S, Restore(S), UNCHANGED asFound
  PROVE  NothingForgotten'
  BY DEF Restore, CInv, TypeOK, NothingForgotten

LEMMA NextNothingForgotten ==
  ASSUME CInv, NothingForgotten, [Next]_vars
  PROVE  NothingForgotten'
  <1>1. CASE UNCHANGED <<gpio_direction, fsel, asFound>>
    BY <1>1 DEF NothingForgotten
  <1>2. CASE CleanupAll
    BY <1>1, <1>2, RestoreForgets DEF CleanupAll
  <1>3. CASE Restart
    BY <1>3 DEF Restart, NothingForgotten, registers
  <1>4. ASSUME NEW t \in Threads, SetupApply(t)
        PROVE  NothingForgotten'
    <2>1. call[t].gpio \in Gpios /\ call[t].direction \in {"in", "out"}
      BY <1>4, CallKinds DEF SetupApply, At, CInv, TypeOK, Looked, SetupCalls
    <2>. QED
      BY <1>4, <2>1 DEF SetupApply, NothingForgotten, CInv, TypeOK
  <1>5. ASSUME NEW t \in Threads, CleanupOne(t)
        PROVE  NothingForgotten'
    BY <1>1, <1>5, RestoreForgets DEF CleanupOne, Fail, registers, history
  <1>6. CASE \E t \in Threads : \/ Begin(t) \/ Return(t) \/ SetupNumber(t) \/ SetupResume(t)
                                \/ OutputOne(t)
    BY <1>1, <1>6 DEF Begin, Setup, Output, CleanupList, Return, SetupNumber, SetupResume,
       OutputOne, Fail, registers, history
  <1>7. CASE \/ \E mode \in Modes : SetMode(mode)
             \/ \E state \in BOOLEAN : SetWarnings(state)
             \/ UNCHANGED vars
    BY <1>1, <1>7 DEF SetMode, SetWarnings, registers, history, vars
  <1>. QED
    BY <1>2, <1>3, <1>4, <1>5, <1>6, <1>7 DEF Next

(* Whatever lists fail half way, whatever threads run during warnings: what  *)
(* the program has changed and not put back, cleanup () still finds.         *)
THEOREM NothingForgottenAlways == Spec => []NothingForgotten
  <1>1. Init => NothingForgotten
    BY DEF Init, Import, NothingForgotten
  <1>. QED
    BY <1>1, InitCInv, NextCInv, NextNothingForgotten, PTL DEF Spec

-----------------------------------------------------------------------------
(* Numbers keep their meaning: a set-up that has looked up its gpio did so   *)
(* under the mode that still holds, unless it was overtaken.                 *)
LookedUp(t) == call[t].op = "setup" /\ call[t].stage \in {"warned", "apply"}

ModeInv ==
  ~overtaken =>
    /\ \A t \in Threads : LookedUp(t) => call[t].mode = gpio_mode /\ gpio_mode # "UNKNOWN"
    /\ \A g \in Gpios : gpio_direction[g] # "none" =>
                          numbering[g] = gpio_mode /\ gpio_mode # "UNKNOWN"

LEMMA QuietModeInv ==
  ASSUME CInv, ModeInv, NEW t \in Threads, NEW c,
         call' = [call EXCEPT ![t] = c],
         c.op = "setup" /\ c.stage \in {"warned", "apply"} => LookedUp(t) /\ c.mode = call[t].mode,
         UNCHANGED <<gpio_mode, overtaken>>,
         \A g \in Gpios : gpio_direction'[g] # "none" =>
           gpio_direction[g] # "none" /\ numbering'[g] = numbering[g]
  PROVE  ModeInv'
  <1>1. \A s \in Threads : call'[s] = IF s = t THEN c ELSE call[s]
    BY DEF CInv, TypeOK
  <1>. QED
    BY <1>1 DEF ModeInv, LookedUp

LEMMA EnterModeInv ==
  ASSUME CInv, ModeInv, NEW t \in Threads, Begin(t)
  PROVE  ModeInv'
  <1>1. PICK list \in Lists :
          \/ Setup(t, list, "in", -1)
          \/ \E initial \in {-1, 0, 1} : Setup(t, list, "out", initial)
          \/ \E value \in {0, 1} : Output(t, list, value)
          \/ CleanupList(t, list)
    BY DEF Begin
  <1>2. PICK c : Enter(t, c) /\ c.stage = First(list)
    BY <1>1 DEF Setup, Output, CleanupList
  <1>3. c.stage \notin {"warned", "apply"}
    BY <1>2 DEF First
  <1>4. UNCHANGED <<gpio_mode, overtaken, gpio_direction, numbering>>
    BY <1>1 DEF Setup, Output, CleanupList, history
  <1>. QED
    BY <1>2, <1>3, <1>4, QuietModeInv DEF Enter

LEMMA LoopModeInv ==
  ASSUME CInv, ModeInv, NEW t \in Threads, call[t] # NoCall, call[t].stage # "end",
         Fail(t) \/ Advance(t),
         UNCHANGED <<gpio_mode, overtaken>>,
         \A g \in Gpios : gpio_direction'[g] # "none" =>
           gpio_direction[g] # "none" /\ numbering'[g] = numbering[g]
  PROVE  ModeInv'
  <1>1. PICK c : call' = [call EXCEPT ![t] = c] /\ c.stage \in {"number", "end"}
    BY AdvanceOK, FailOK
  <1>. QED
    BY <1>1, QuietModeInv

LEMMA NextModeInv ==
  ASSUME CInv, ModeInv, [Next]_vars
  PROVE  ModeInv'
  <1>1. CASE UNCHANGED <<gpio_mode, call, gpio_direction, overtaken, numbering>>
    BY <1>1 DEF ModeInv, LookedUp
  <1>2. ASSUME NEW mode \in Modes, SetMode(mode)
        PROVE  ModeInv'
    BY <1>2 DEF SetMode, ModeInv, LookedUp, registers, history
  <1>3. CASE CleanupAll
    <2>1. CASE module_setup
      <3>1. \A g \in Gpios : gpio_direction'[g] = "none"
        BY <1>3, <2>1 DEF CleanupAll, Restore, CInv, TypeOK
      <3>2. ~overtaken' => \A t \in Threads : call'[t] = NoCall
        BY <1>3, <2>1 DEF CleanupAll
      <3>. QED
        BY <3>1, <3>2 DEF ModeInv, LookedUp, NoCall
    <2>. QED
      BY <1>1, <1>3, <2>1 DEF CleanupAll
  <1>4. CASE Restart
    BY <1>4 DEF Restart, ModeInv, LookedUp, NoCall
  <1>5. ASSUME NEW t \in Threads, SetupNumber(t)
        PROVE  ModeInv'
    <2>1. At(t, "setup", "number") /\ call[t] # NoCall /\ call[t].stage # "end"
      BY <1>5, AtCall DEF SetupNumber
    <2>2. CASE Fail(t)
      BY <1>5, <2>1, <2>2, LoopModeInv DEF SetupNumber, Fail, history
    <2>3. CASE ~Fail(t)
      <3>1. PICK stage \in {"warned", "apply"} :
              /\ Gpio(t) # -1
              /\ call' = [call EXCEPT ![t].gpio = Gpio(t), ![t].mode = gpio_mode,
                            ![t].stage = stage]
              /\ UNCHANGED <<gpio_direction, registers, history>>
        BY <1>5, <2>3 DEF SetupNumber
      <3>2. gpio_mode # "UNKNOWN"
        BY <3>1 DEF Gpio, get_gpio_number
      <3>3. call[t] \in SetupCalls
        BY <2>1, CallKinds DEF At, CInv, TypeOK
      <3>4. call'[t].mode = gpio_mode /\ \A s \in Threads \ {t} : call'[s] = call[s]
        BY <3>1, <3>3 DEF SetupCalls, CInv, TypeOK
      <3>. QED
        BY <1>5, <3>1, <3>2, <3>4 DEF SetupNumber, ModeInv, LookedUp, history
    <2>. QED
      BY <2>2, <2>3
  <1>6. ASSUME NEW t \in Threads, SetupResume(t)
        PROVE  ModeInv'
    <2>. DEFINE c == [call[t] EXCEPT !.stage = "apply"]
    <2>1. call' = [call EXCEPT ![t] = c]
      BY <1>6 DEF SetupResume, CInv, TypeOK
    <2>2. call[t] \in SetupCalls /\ LookedUp(t)
      BY <1>6, CallKinds DEF SetupResume, LookedUp, CInv, TypeOK
    <2>3. c.mode = call[t].mode
      BY <2>2 DEF SetupCalls
    <2>. HIDE DEF c
    <2>. QED
      BY <1>6, <2>1, <2>2, <2>3, QuietModeInv DEF SetupResume, history
  <1>7. ASSUME NEW t \in Threads, SetupApply(t)
        PROVE  ModeInv'
    <2>1. At(t, "setup", "apply") /\ call[t] # NoCall /\ call[t].stage # "end" /\ LookedUp(t)
          /\ call[t].gpio \in Gpios
      BY <1>7, AtCall DEF SetupApply, At, LookedUp, CInv, Looked
    <2>2. PICK c : call' = [call EXCEPT ![t] = c] /\ c.stage \in {"number", "end"}
      BY <1>7, <2>1, AdvanceOK DEF SetupApply
    <2>3. \A s \in Threads : LookedUp(s)' => LookedUp(s) /\ call'[s] = call[s]
      BY <2>2 DEF LookedUp, CInv, TypeOK
    <2>4. \A g \in Gpios : \/ g = call[t].gpio /\ numbering'[g] = call[t].mode
                           \/ numbering'[g] = numbering[g] /\ gpio_direction'[g] = gpio_direction[g]
      BY <1>7 DEF SetupApply, CInv, TypeOK
    <2>. QED
      BY <1>7, <2>1, <2>3, <2>4 DEF SetupApply, ModeInv
  <1>8. ASSUME NEW t \in Threads, OutputOne(t)
        PROVE  ModeInv'
    <2>1. call[t] # NoCall /\ call[t].stage # "end"
      BY <1>8, AtCall DEF OutputOne
    <2>2. Fail(t) \/ Advance(t)
      BY <1>8 DEF OutputOne
    <2>. QED
      BY <1>8, <2>1, <2>2, LoopModeInv DEF OutputOne, Fail, history
  <1>9. ASSUME NEW t \in Threads, CleanupOne(t)
        PROVE  ModeInv'
    <2>1. call[t] # NoCall /\ call[t].stage # "end"
      BY <1>9, AtCall DEF CleanupOne
    <2>2. (Fail(t) \/ Advance(t)) /\ UNCHANGED <<gpio_mode, overtaken, numbering>>
      BY <1>9 DEF CleanupOne, Fail, history
    <2>3. \A g \in Gpios : gpio_direction'[g] # "none" => gpio_direction[g] # "none"
      BY <1>9 DEF CleanupOne, Fail, Restore, CInv, TypeOK
    <2>. QED
      BY <2>1, <2>2, <2>3, LoopModeInv
  <1>10. ASSUME NEW t \in Threads, Return(t)
         PROVE  ModeInv'
    BY <1>10, QuietModeInv DEF Return, NoCall, history
  <1>11. CASE (\E state \in BOOLEAN : SetWarnings(state)) \/ UNCHANGED vars
    BY <1>1, <1>11 DEF SetWarnings, history, vars
  <1>. QED
    BY <1>2, <1>3, <1>4, <1>5, <1>6, <1>7, <1>8, <1>9, <1>10, <1>11, EnterModeInv DEF Next

(* As long as no full cleanup overtook a set-up, a gpio in use is found      *)
(* under the numbering it was set up with.                                   *)
THEOREM NumbersKeepMeaningAlways == Spec => []NumbersKeepMeaning
  <1>1. Init => ModeInv
    BY DEF Init, Import, ModeInv, LookedUp, NoCall
  <1>2. ModeInv => NumbersKeepMeaning
    BY DEF ModeInv, NumbersKeepMeaning
  <1>. QED
    BY <1>1, <1>2, InitCInv, NextCInv, NextModeInv, PTL DEF Spec

-----------------------------------------------------------------------------
(* Cleaning up the list that was set up: what the set-up did it did on the   *)
(* channels before the first bad one, and a cleanup of that list has put     *)
(* back a gpio or will still come to it.                                     *)
GoodTo(list, k) == \A j \in 1..k : Good(gpio_mode, list[j])
OnList(g, list, from) ==
  \E k \in from..Len(list) : GoodTo(list, k) /\ get_gpio_number(gpio_mode, list[k]) = g

Back(g) == gpio_direction[g] = "none" /\ fsel[g] = "in"

SettingUp(c) ==
  /\ c.list = undo.list
  /\ c.stage # "end" => GoodTo(c.list, c.i - 1)
  /\ c.stage \in {"warned", "apply"} =>
       Good(gpio_mode, c.list[c.i]) /\ c.gpio = get_gpio_number(gpio_mode, c.list[c.i])

CleaningUp(c) ==
  c.list = undo.list =>
    \A g \in undo.gpios : Back(g) \/ (c.stage = "number" /\ OnList(g, c.list, c.i))

UndoInv ==
  /\ undo.gpios \subseteq Gpios \ asFound
  /\ \A g \in undo.gpios : OnList(g, undo.list, 1)
  /\ \A t \in Threads : /\ undo.by = t /\ call[t].op = "setup" => SettingUp(call[t])
                        /\ call[t].op = "cleanup" => CleaningUp(call[t])

LEMMA NoUndoInv ==
  ASSUME undo' = NoUndo
  PROVE  UndoInv'
  BY FreeAssumption DEF NoUndo, UndoInv, CleaningUp

(* A call moves on while what it is about stays.                             *)
LEMMA OneUndoInv ==
  ASSUME CInv, UndoInv, NEW t \in Threads, NEW c, call' = [call EXCEPT ![t] = c],
         UNCHANGED <<gpio_mode, undo, gpio_direction, fsel, asFound>>,
         undo.by = t /\ c.op = "setup" => SettingUp(c),
         c.op = "cleanup" => CleaningUp(c)
  PROVE  UndoInv'
  <1>1. \A s \in Threads : call'[s] = IF s = t THEN c ELSE call[s]
    BY DEF CInv, TypeOK
  <1>2. \A d : (SettingUp(d) => SettingUp(d)') /\ (CleaningUp(d) => CleaningUp(d)')
    BY DEF SettingUp, CleaningUp, GoodTo, OnList, Back
  <1>3. \A g \in undo.gpios : OnList(g, undo.list, 1)'
    BY DEF UndoInv, OnList, GoodTo
  <1>4. \A s \in Threads : /\ undo'.by = s /\ call'[s].op = "setup" => SettingUp(call[s])'
                           /\ call'[s].op = "cleanup" => CleaningUp(call[s])'
    <2>. SUFFICES ASSUME NEW s \in Threads
                  PROVE  /\ undo'.by = s /\ call'[s].op = "setup" => SettingUp(call[s])'
                         /\ call'[s].op = "cleanup" => CleaningUp(call[s])'
      OBVIOUS
    <2>1. CASE s = t
      BY <1>1, <1>2, <2>1
    <2>2. CASE s # t
      BY <1>1, <1>2, <2>2 DEF UndoInv
    <2>. QED
      BY <2>1, <2>2
  <1>. QED
    BY <1>3, <1>4 DEF UndoInv

LEMMA BeginUndoInv ==
  ASSUME CInv, UndoInv, NEW t \in Threads, Begin(t)
  PROVE  UndoInv'
  <1>1. ASSUME NEW list \in Lists, NEW d, NEW initial, Setup(t, list, d, initial)
        PROVE  UndoInv'
    <2>1. call'[t].list = list /\ call'[t].i = 1 /\ call'[t].stage \in {"number", "end"}
      BY <1>1 DEF Setup, Enter, First, CInv, TypeOK
    <2>2. undo'.by = t /\ undo'.list = list /\ undo'.gpios = {}
      BY <1>1 DEF Setup
    <2>3. GoodTo(list, 1 - 1)'
      BY DEF GoodTo
    <2>4. SettingUp(call[t])'
      BY <2>1, <2>2, <2>3 DEF SettingUp
    <2>. QED
      BY <2>2, <2>4 DEF UndoInv, CleaningUp
  <1>2. ASSUME NEW list \in Lists, CleanupList(t, list)
        PROVE  UndoInv'
    <2>. DEFINE c == [op |-> "cleanup", list |-> list, i |-> 1, stage |-> First(list)]
    <2>1. CleaningUp(c)
      <3>. SUFFICES ASSUME list = undo.list, NEW g \in undo.gpios
                    PROVE  First(list) = "number" /\ OnList(g, list, 1)
        BY DEF CleaningUp
      <3>1. OnList(g, list, 1)
        BY DEF UndoInv
      <3>2. list # <<>>
        BY <3>1 DEF OnList
      <3>. QED
        BY <3>1, <3>2 DEF First
    <2>2. c.op = "cleanup" /\ call' = [call EXCEPT ![t] = c]
      BY <1>2 DEF CleanupList, Enter
    <2>. HIDE DEF c
    <2>. QED
      BY <1>2, <2>1, <2>2, OneUndoInv DEF CleanupList, registers, history
  <1>3. ASSUME NEW list, NEW value, Output(t, list, value)
        PROVE  UndoInv'
    BY <1>3, NoUndoInv DEF Output
  <1>. QED
    BY <1>1, <1>2, <1>3 DEF Begin

LEMMA SetupNumberUndoInv ==
  ASSUME CInv, UndoInv, NEW t \in Threads, SetupNumber(t)
  PROVE  UndoInv'
  <1>1. At(t, "setup", "number") /\ call[t] # NoCall /\ call[t].stage # "end"
        /\ call[t] \in SetupCalls
    BY AtCall, CallKinds DEF SetupNumber, At, CInv, TypeOK
  <1>2. UNCHANGED <<gpio_mode, undo, gpio_direction, fsel, asFound>>
    BY DEF SetupNumber, Fail, registers, history
  <1>3. undo.by = t => SettingUp(call[t])
    BY <1>1 DEF UndoInv, At
  <1>4. CASE Fail(t)
    <2>1. PICK c : call' = [call EXCEPT ![t] = c] /\ c.op = "setup" /\ c.list = call[t].list
                   /\ c.stage = "end"
      BY <1>1, <1>4, FailOK DEF At
    <2>2. undo.by = t => SettingUp(c)
      BY <1>3, <2>1 DEF SettingUp
    <2>. QED
      BY <1>2, <2>1, <2>2, OneUndoInv
  <1>5. CASE ~Fail(t)
    <2>1. PICK stage \in {"warned", "apply"} :
            /\ Gpio(t) # -1
            /\ call' = [call EXCEPT ![t].gpio = Gpio(t), ![t].mode = gpio_mode,
                          ![t].stage = stage]
      BY <1>5 DEF SetupNumber
    <2>. DEFINE c == [call[t] EXCEPT !.gpio = Gpio(t), !.mode = gpio_mode, !.stage = stage]
    <2>2. call' = [call EXCEPT ![t] = c]
      BY <2>1 DEF CInv, TypeOK
    <2>3. c.op = "setup" /\ c.list = call[t].list /\ c.i = call[t].i /\ c.gpio = Gpio(t)
      BY <1>1 DEF SetupCalls
    <2>. HIDE DEF c
    <2>4. undo.by = t => SettingUp(c)
      BY <1>1, <1>3, <2>1, <2>3 DEF SettingUp, Gpio, Channel, Good
    <2>. QED
      BY <1>2, <2>2, <2>3, <2>4, OneUndoInv
  <1>. QED
    BY <1>4, <1>5

LEMMA SetupResumeUndoInv ==
  ASSUME CInv, UndoInv, NEW t \in Threads, SetupResume(t)
  PROVE  UndoInv'
  <1>. DEFINE c == [call[t] EXCEPT !.stage = "apply"]
  <1>1. call' = [call EXCEPT ![t] = c]
    BY DEF SetupResume, CInv, TypeOK
  <1>2. call[t] \in SetupCalls /\ call[t].op = "setup" /\ call[t].stage = "warned"
    BY CallKinds DEF SetupResume, CInv, TypeOK
  <1>3. c.op = "setup" /\ c.list = call[t].list /\ c.i = call[t].i /\ c.gpio = call[t].gpio
        /\ c.stage = "apply"
    BY <1>2 DEF SetupCalls
  <1>. HIDE DEF c
  <1>4. undo.by = t => SettingUp(c)
    BY <1>2, <1>3 DEF UndoInv, SettingUp
  <1>. QED
    BY <1>1, <1>3, <1>4, OneUndoInv DEF SetupResume, registers, history

LEMMA SetupApplyUndoInv ==
  ASSUME CInv, UndoInv, NEW t \in Threads, SetupApply(t)
  PROVE  UndoInv'
  <1>1. At(t, "setup", "apply") /\ call[t] # NoCall /\ call[t].stage # "end" /\ gil = t
        /\ call[t].i \in 1..Len(call[t].list) /\ call[t].gpio \in Gpios
    BY AtCall DEF SetupApply, At, CInv, Looked
  <1>2. PICK c : /\ call' = [call EXCEPT ![t] = c] /\ c.list = call[t].list
                 /\ c.op = "setup" /\ c.i = call[t].i + 1 /\ c.stage \in {"number", "end"}
    BY <1>1, AdvanceOK DEF SetupApply, At
  <1>3. /\ \A s \in Threads : call'[s] = IF s = t THEN c ELSE call[s]
        /\ \A s \in Threads : call'[s].op # "cleanup"
    <2>1. \A s \in Threads : call'[s] = IF s = t THEN c ELSE call[s]
      BY <1>2 DEF CInv, TypeOK
    <2>. QED
      BY <1>1, <1>2, <2>1 DEF CInv, Locked, NoCall, At
  <1>4. /\ undo' = IF undo.by = t THEN [undo EXCEPT !.gpios = @ \cup {call[t].gpio}] ELSE undo
        /\ asFound' = asFound \ {call[t].gpio} /\ UNCHANGED gpio_mode
    BY DEF SetupApply
  <1>5. CASE undo.by # t
    <2>1. \A s \in Threads : undo'.by = s /\ call'[s].op = "setup" => SettingUp(call[s])'
      BY <1>3, <1>4, <1>5 DEF UndoInv, SettingUp, GoodTo
    <2>2. \A g \in undo'.gpios : OnList(g, undo.list, 1)'
      BY <1>4, <1>5 DEF UndoInv, OnList, GoodTo
    <2>. QED
      BY <1>3, <1>4, <1>5, <2>1, <2>2 DEF UndoInv
  <1>6. CASE undo.by = t
    <2>. DEFINE list == call[t].list
                i == call[t].i
    <2>1. /\ list = undo.list /\ GoodTo(list, i - 1) /\ Good(gpio_mode, list[i])
          /\ call[t].gpio = get_gpio_number(gpio_mode, list[i])
      BY <1>1, <1>6 DEF UndoInv, SettingUp, At
    <2>2. i \in Nat /\ Len(list) \in Nat
      BY <1>1 DEF CInv, TypeOK, Calls, NoCall
    <2>3. GoodTo(list, i)
      BY <2>1, <2>2 DEF GoodTo
    <2>4. OnList(call[t].gpio, list, 1)
      BY <1>1, <2>1, <2>3 DEF OnList
    <2>5. undo'.list = undo.list /\ undo'.by = t
      BY <1>4, <1>6
    <2>6. undo'.gpios \subseteq undo.gpios \cup {call[t].gpio}
      BY <1>4, <1>6
    <2>7. \A g \in undo'.gpios : OnList(g, undo.list, 1)'
      <3>1. \A g \in undo'.gpios : OnList(g, undo.list, 1)
        BY <2>1, <2>4, <2>6 DEF UndoInv
      <3>. QED
        BY <1>4, <2>5, <3>1 DEF OnList, GoodTo
    <2>8. SettingUp(c)'
      <3>1. c.i - 1 = i
        BY <1>2, <2>2
      <3>2. GoodTo(c.list, c.i - 1)'
        BY <1>2, <1>4, <2>3, <3>1 DEF GoodTo
      <3>. QED
        BY <1>2, <2>1, <2>5, <3>2 DEF SettingUp
    <2>9. undo'.gpios \subseteq Gpios \ asFound'
      BY <1>1, <1>4, <2>6 DEF UndoInv
    <2>. QED
      BY <1>3, <2>5, <2>7, <2>8, <2>9 DEF UndoInv
  <1>. QED
    BY <1>5, <1>6

LEMMA CleanupOneUndoInv ==
  ASSUME CInv, NothingForgotten, UndoInv, NEW t \in Threads, CleanupOne(t)
  PROVE  UndoInv'
  <1>1. At(t, "cleanup", "number") /\ call[t] # NoCall /\ call[t].stage # "end" /\ gil = t
        /\ call[t].i \in 1..Len(call[t].list) /\ call[t].op = "cleanup"
    BY AtCall DEF CleanupOne, At
  <1>2. CleaningUp(call[t])
    BY <1>1 DEF UndoInv
  <1>3. call[t].i \in Nat /\ Len(call[t].list) \in Nat
    BY <1>1, ListsAssumption DEF CInv, TypeOK, Calls, NoCall
  <1>4. CASE Gpio(t) = -1 /\ Fail(t)
    <2>1. PICK c : call' = [call EXCEPT ![t] = c] /\ c.op = "cleanup" /\ c.list = call[t].list
                   /\ c.stage = "end"
      BY <1>1, <1>4, FailOK
    <2>2. \A g : ~OnList(g, call[t].list, call[t].i)
      BY <1>1, <1>3, <1>4 DEF OnList, GoodTo, Good, Gpio, Channel
    <2>3. CleaningUp(c)
      BY <1>2, <2>1, <2>2 DEF CleaningUp
    <2>4. UNCHANGED <<gpio_mode, undo, gpio_direction, fsel, asFound>>
      BY <1>4 DEF CleanupOne, Fail, registers, history
    <2>. QED
      BY <2>1, <2>3, <2>4, OneUndoInv
  <1>5. CASE Gpio(t) # -1 /\ Restore({Gpio(t)}) /\ Advance(t)
    <2>1. PICK c : /\ call' = [call EXCEPT ![t] = c] /\ c.op = "cleanup"
                   /\ c.list = call[t].list /\ c.i = call[t].i + 1
                   /\ c.stage = IF call[t].i < Len(call[t].list) THEN "number" ELSE "end"
      BY <1>1, <1>5, AdvanceOK
    <2>2. UNCHANGED <<gpio_mode, undo, asFound>>
      BY <1>5 DEF CleanupOne, Fail, history
    <2>3. /\ \A s \in Threads : call'[s] = IF s = t THEN c ELSE call[s]
          /\ \A s \in Threads \ {t} : call'[s].op # "cleanup"
      <3>1. \A s \in Threads : call'[s] = IF s = t THEN c ELSE call[s]
        BY <2>1 DEF CInv, TypeOK
      <3>. QED
        BY <1>1, <3>1 DEF CInv, Locked, NoCall
    <2>4. \A g \in Gpios : Back(g) => Back(g)'
      BY <1>5 DEF Back, Restore
    <2>5. \A g \in undo.gpios : g = Gpio(t) => Back(g)'
      BY <1>5 DEF Back, Restore, UndoInv, NothingForgotten
    <2>6. CleaningUp(c)'
      <3>. SUFFICES ASSUME c.list = undo.list, NEW g \in undo.gpios, ~(Back(g)')
                    PROVE  c.stage = "number" /\ OnList(g, c.list, c.i)'
        BY <2>2 DEF CleaningUp
      <3>1. g \in Gpios /\ ~Back(g) /\ g # Gpio(t)
        BY <2>4, <2>5 DEF UndoInv
      <3>2. OnList(g, call[t].list, call[t].i)
        BY <1>2, <2>1, <3>1 DEF CleaningUp
      <3>3. PICK k \in call[t].i..Len(call[t].list) :
              GoodTo(call[t].list, k) /\ get_gpio_number(gpio_mode, call[t].list[k]) = g
        BY <3>2 DEF OnList
      <3>4. k # call[t].i
        BY <3>1, <3>3 DEF Gpio, Channel
      <3>5. k \in c.i..Len(c.list) /\ c.stage = "number"
        BY <1>3, <2>1, <3>3, <3>4
      <3>6. GoodTo(c.list, k)' /\ get_gpio_number(gpio_mode', c.list[k]) = g
        BY <2>1, <2>2, <3>3 DEF GoodTo
      <3>. QED
        BY <3>5, <3>6 DEF OnList
    <2>7. \A s \in Threads : undo'.by = s /\ call'[s].op = "setup" => SettingUp(call[s])'
      BY <2>1, <2>2, <2>3 DEF UndoInv, SettingUp, GoodTo
    <2>8. \A g \in undo'.gpios : OnList(g, undo.list, 1)'
      BY <2>2 DEF UndoInv, OnList, GoodTo
    <2>. QED
      BY <2>2, <2>3, <2>6, <2>7, <2>8 DEF UndoInv
  <1>. QED
    BY <1>4, <1>5 DEF CleanupOne

LEMMA NextUndoInv ==
  ASSUME CInv, NothingForgotten, UndoInv, [Next]_vars
  PROVE  UndoInv'
  <1>1. CASE UNCHANGED vars
    BY <1>1 DEF vars, UndoInv, SettingUp, CleaningUp, GoodTo, OnList, Back
  <1>2. CASE undo' = NoUndo
    BY <1>2, NoUndoInv
  <1>3. ASSUME NEW t \in Threads, Return(t)
        PROVE  UndoInv'
    <2>1. CASE call[t].op = "setup"
      BY <1>3, <2>1, OneUndoInv DEF Return, registers, history, NoCall
    <2>2. CASE call[t].op # "setup"
      BY <1>2, <1>3, <2>2 DEF Return
    <2>. QED
      BY <2>1, <2>2
  <1>4. ASSUME NEW t \in Threads, OutputOne(t)
        PROVE  UndoInv'
    <2>1. call[t] # NoCall /\ call[t].stage # "end" /\ call[t].op = "output"
      BY <1>4, AtCall DEF OutputOne, At
    <2>2. Fail(t) \/ Advance(t)
      BY <1>4 DEF OutputOne
    <2>3. PICK c : call' = [call EXCEPT ![t] = c] /\ c.op = "output"
      BY <2>1, <2>2, AdvanceOK, FailOK
    <2>. QED
      BY <1>4, <2>3, OneUndoInv DEF OutputOne, Fail, registers, history
  <1>5. CASE \/ \E mode \in Modes : SetMode(mode)
             \/ \E state \in BOOLEAN : SetWarnings(state)
             \/ CleanupAll \/ Restart
    BY <1>2, <1>5 DEF SetMode, SetWarnings, CleanupAll, Restart
  <1>. QED
    BY <1>1, <1>3, <1>4, <1>5, BeginUndoInv, SetupNumberUndoInv, SetupResumeUndoInv,
       SetupApplyUndoInv, CleanupOneUndoInv DEF Next

(* Cleaning up the list that was just set up puts back every gpio the        *)
(* set-up reached, for lists of any length with bad channels anywhere.       *)
THEOREM CleanupUndoesSetupAlways == Spec => []CleanupUndoesSetup
  <1>1. Init => NothingForgotten /\ UndoInv
    BY FreeAssumption DEF Init, Import, NothingForgotten, UndoInv, NoUndo, NoCall
  <1>2. UndoInv => CleanupUndoesSetup
    BY DEF UndoInv, CleaningUp, Back, CleanupUndoesSetup
  <1>. QED
    BY <1>1, <1>2, InitCInv, NextCInv, NextNothingForgotten, NextUndoInv, PTL DEF Spec

=============================================================================
