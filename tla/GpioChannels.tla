---------------------------- MODULE GpioChannels ----------------------------
(***************************************************************************)
(* Set-up, output, cleanup, numbering mode and warnings of RPi.GPIO:       *)
(* py_gpio.c, common.c and the register functions of c_gpio.c, as called   *)
(* by the Python threads of one program that ends and starts again on the  *)
(* registers it left.                                                      *)
(*                                                                         *)
(* A call runs under the global lock of Python, except that a warning runs *)
(* Python code, which may let another thread in.  A list of channels is    *)
(* worked off one by one; the first bad channel ends the call and nothing  *)
(* is undone.  Event detection, which cleanup also ends, is in GpioEvents; *)
(* the pull-up registers, arguments that are rejected at once and failures *)
(* of the import are left out.                                             *)
(***************************************************************************)
EXTENDS Integers, Sequences

CONSTANTS
  Threads,
  Lists          (* the channel lists programs pass; <<c>> is also setup (c) *)

ASSUME ListsAssumption == Lists \subseteq Seq(Int)
ASSUME FreeAssumption == {"free", "nobody"} \cap Threads = {}

Modes == {"BCM", "BOARD"}

pin_to_gpio_rev3 ==
  <<-1, -1, 2, -1, 3, -1, 4, 14, -1, 15, 17, 18, 27, -1, 22, 23, -1, 24, 10, -1,
    9, 25, 11, 8, -1, 7, -1, -1, 5, -1, 6, 12, 13, -1, 19, 16, 26, 20, -1, 21>>

(* Mutant: one channel too many.                                            *)
get_gpio_number_54(mode, channel) ==
  IF mode = "BCM" /\ channel \in 0..54 THEN channel
  ELSE IF mode = "BOARD" /\ channel \in 1..40 THEN pin_to_gpio_rev3[channel]
  ELSE -1

(* get_gpio_number (): -1 is an error, as in the table.                     *)
get_gpio_number(mode, channel) ==
  IF mode = "BCM" /\ channel \in 0..53 THEN channel
  ELSE IF mode = "BOARD" /\ channel \in 1..40 THEN pin_to_gpio_rev3[channel]
  ELSE -1

Gpios ==
  {get_gpio_number(m, c) : m \in Modes, c \in UNION {{l[k] : k \in DOMAIN l} : l \in Lists}}
    \ {-1}

VARIABLES
  gpio_mode,        (* "UNKNOWN" or one of Modes                            *)
  module_setup, gpio_warnings,
  gpio_direction,   (* of each gpio: "none", "in" or "out"                  *)
  fsel, latch,      (* registers: function and output level of each gpio    *)
  gil,              (* the thread that is inside a call, or "free"          *)
  call,             (* the call of each thread                              *)
  asFound,          (* gpios whose function the program has not written yet *)
  numbering,        (* the mode under which each gpio was last set up       *)
  overtaken,        (* a full cleanup overtook a set-up that was warning    *)
  undo              (* what the last call did, if it was a set-up           *)

vars == <<gpio_mode, module_setup, gpio_warnings, gpio_direction, fsel, latch,
          gil, call, asFound, numbering, overtaken, undo>>

registers == <<fsel, latch>>
history   == <<asFound, numbering, overtaken>>

NoCall == [op |-> "none"]
NoUndo == [by |-> "nobody", list |-> <<>>, gpios |-> {}]

(* Import of the module.                                                    *)
Import ==
  /\ gpio_mode = "UNKNOWN" /\ module_setup = FALSE /\ gpio_warnings = TRUE
  /\ gpio_direction = [g \in Gpios |-> "none"]
  /\ gil = "free" /\ call = [t \in Threads |-> NoCall]
  /\ asFound = Gpios /\ numbering = [g \in Gpios |-> "UNKNOWN"]
  /\ overtaken = FALSE /\ undo = NoUndo

Init ==
  /\ Import
  /\ fsel \in [Gpios -> {"in", "out", "alt"}]
  /\ latch \in [Gpios -> {0, 1}]

-----------------------------------------------------------------------------
(* Settings.                                                                *)

(* Mutant: the mode can be changed at any time.                             *)
SetMode_Any(mode) ==
  /\ gil = "free"
  /\ gpio_mode' = mode
  /\ undo' = NoUndo
  /\ UNCHANGED <<module_setup, gpio_warnings, gpio_direction, registers, gil, call, history>>

SetMode(mode) ==
  /\ gil = "free"
  /\ gpio_mode \in {"UNKNOWN", mode}
  /\ gpio_mode' = mode
  /\ undo' = NoUndo
  /\ UNCHANGED <<module_setup, gpio_warnings, gpio_direction, registers, gil, call, history>>

SetWarnings(state) ==
  /\ gil = "free"
  /\ gpio_warnings' = state
  /\ undo' = NoUndo
  /\ UNCHANGED <<gpio_mode, module_setup, gpio_direction, registers, gil, call, history>>

-----------------------------------------------------------------------------
(* The loop over a list, common to the three calls.                         *)

Enter(t, c) ==
  /\ gil = "free" /\ call[t] = NoCall
  /\ gil' = t
  /\ call' = [call EXCEPT ![t] = c]

At(t, op, stage) ==
  gil = t /\ call[t].op = op /\ call[t].stage = stage

Channel(t) == call[t].list[call[t].i]
Gpio(t)    == get_gpio_number(gpio_mode, Channel(t))

(* Where a call begins.                                                     *)
First(list) == IF list = <<>> THEN "end" ELSE "number"

(* The next channel, or the end of the call.                                *)
Advance(t) ==
  call' = [call EXCEPT ![t].i = @ + 1,
             ![t].stage = IF call[t].i < Len(call[t].list) THEN "number" ELSE "end"]

Fail(t) ==
  /\ call' = [call EXCEPT ![t].stage = "end"]
  /\ UNCHANGED <<gpio_direction, registers, gil, history>>

Return(t) ==
  /\ gil = t /\ call[t] # NoCall /\ call[t].stage = "end"
  /\ call' = [call EXCEPT ![t] = NoCall]
  /\ gil' = "free"
  /\ undo' = IF call[t].op = "setup" THEN undo ELSE NoUndo
  /\ UNCHANGED <<gpio_mode, module_setup, gpio_warnings, gpio_direction, registers, history>>

-----------------------------------------------------------------------------
(* setup ().                                                                *)

(* mmap_gpio_mem () may fail, which ends the call before it has begun.      *)
Setup(t, list, direction, initial) ==
  /\ Enter(t, [op |-> "setup", list |-> list, direction |-> direction,
               initial |-> initial, i |-> 1, gpio |-> -1, mode |-> "UNKNOWN",
               stage |-> First(list)])
  /\ module_setup' = TRUE
  /\ undo' = [by |-> t, list |-> list, gpios |-> {}]
  /\ UNCHANGED <<gpio_mode, gpio_warnings, gpio_direction, registers, history>>

InUse(g) == fsel[g] = "alt" \/ (gpio_direction[g] = "none" /\ fsel[g] = "out")

(* Whether the caller asked for a pull-up where the board has its own.      *)
Pulled(t) == IF Gpio(t) \in {2, 3} /\ call[t].direction = "in" THEN BOOLEAN ELSE {FALSE}

(* setup_one (), up to the warnings.                                        *)
SetupNumber(t) ==
  /\ At(t, "setup", "number")
  /\ \/ Gpio(t) = -1 /\ Fail(t)
     \/ /\ Gpio(t) # -1
        /\ \E pulled \in Pulled(t) :
             LET warns == gpio_warnings /\ (InUse(Gpio(t)) \/ pulled)
             IN /\ call' = [call EXCEPT ![t].gpio = Gpio(t), ![t].mode = gpio_mode,
                              ![t].stage = IF warns THEN "warned" ELSE "apply"]
                /\ gil' = IF warns THEN "free" ELSE t
        /\ UNCHANGED <<gpio_direction, registers, history>>
  /\ UNCHANGED <<gpio_mode, module_setup, gpio_warnings, undo>>

SetupResume(t) ==
  /\ gil = "free" /\ call[t].op = "setup" /\ call[t].stage = "warned"
  /\ gil' = t
  /\ call' = [call EXCEPT ![t].stage = "apply"]
  /\ UNCHANGED <<gpio_mode, module_setup, gpio_warnings, gpio_direction, registers, history, undo>>

(* Mutant: the direction is stored for the first channel of a list only.    *)
SetupApply_FirstOnly(t) ==
  /\ At(t, "setup", "apply")
  /\ LET g == call[t].gpio
     IN /\ latch' = IF call[t].direction = "out" /\ call[t].initial \in {0, 1}
                    THEN [latch EXCEPT ![g] = call[t].initial] ELSE latch
        /\ fsel' = [fsel EXCEPT ![g] = call[t].direction]
        /\ gpio_direction' = IF call[t].i = 1 THEN [gpio_direction EXCEPT ![g] = call[t].direction]
                             ELSE gpio_direction
        /\ asFound' = asFound \ {g}
        /\ numbering' = [numbering EXCEPT ![g] = call[t].mode]
        /\ undo' = IF undo.by = t THEN [undo EXCEPT !.gpios = @ \cup {g}] ELSE undo
  /\ Advance(t)
  /\ UNCHANGED <<gpio_mode, module_setup, gpio_warnings, gil, overtaken>>

(* setup_one (), after the warning: output_gpio (), setup_gpio () and the   *)
(* direction.                                                               *)
SetupApply(t) ==
  /\ At(t, "setup", "apply")
  /\ LET g == call[t].gpio
     IN /\ latch' = IF call[t].direction = "out" /\ call[t].initial \in {0, 1}
                    THEN [latch EXCEPT ![g] = call[t].initial] ELSE latch
        /\ fsel' = [fsel EXCEPT ![g] = call[t].direction]
        /\ gpio_direction' = [gpio_direction EXCEPT ![g] = call[t].direction]
        /\ asFound' = asFound \ {g}
        /\ numbering' = [numbering EXCEPT ![g] = call[t].mode]
        /\ undo' = IF undo.by = t THEN [undo EXCEPT !.gpios = @ \cup {g}] ELSE undo
  /\ Advance(t)
  /\ UNCHANGED <<gpio_mode, module_setup, gpio_warnings, gil, overtaken>>

-----------------------------------------------------------------------------
(* output ().                                                               *)

Output(t, list, value) ==
  /\ Enter(t, [op |-> "output", list |-> list, value |-> value, i |-> 1,
               stage |-> First(list)])
  /\ undo' = NoUndo
  /\ UNCHANGED <<gpio_mode, module_setup, gpio_warnings, gpio_direction, registers, history>>

Writable(g) == g # -1 /\ module_setup /\ gpio_direction[g] = "out"

OutputOne(t) ==
  /\ At(t, "output", "number")
  /\ IF ~Writable(Gpio(t)) THEN Fail(t)
     ELSE /\ latch' = [latch EXCEPT ![Gpio(t)] = call[t].value]
          /\ Advance(t)
          /\ UNCHANGED <<gpio_direction, fsel, gil, history>>
  /\ UNCHANGED <<gpio_mode, module_setup, gpio_warnings, undo>>

-----------------------------------------------------------------------------
(* cleanup ().                                                              *)

(* Mutant: only outputs are put back.                                       *)
Restore_Outputs(S) ==
  LET used == {g \in S : gpio_direction[g] = "out"}
  IN /\ fsel' = [g \in Gpios |-> IF g \in used THEN "in" ELSE fsel[g]]
     /\ gpio_direction' = [g \in Gpios |-> IF g \in used THEN "none" ELSE gpio_direction[g]]

(* What cleanup does to the gpios of a set, events apart.                   *)
Restore(S) ==
  LET used == {g \in S : gpio_direction[g] # "none"}
  IN /\ fsel' = [g \in Gpios |-> IF g \in used THEN "in" ELSE fsel[g]]
     /\ gpio_direction' = [g \in Gpios |-> IF g \in used THEN "none" ELSE gpio_direction[g]]

CleanupAll ==
  /\ gil = "free"
  /\ IF module_setup
     THEN /\ Restore(Gpios) /\ gpio_mode' = "UNKNOWN"
          /\ overtaken' = \E t \in Threads : call[t] # NoCall
     ELSE UNCHANGED <<fsel, gpio_direction, gpio_mode, overtaken>>
  /\ undo' = NoUndo
  /\ UNCHANGED <<module_setup, gpio_warnings, latch, gil, call, asFound, numbering>>

(* Without a set-up before it, the call does nothing, whatever the list.    *)
CleanupList(t, list) ==
  /\ module_setup
  /\ Enter(t, [op |-> "cleanup", list |-> list, i |-> 1, stage |-> First(list)])
  /\ UNCHANGED <<gpio_mode, module_setup, gpio_warnings, gpio_direction, registers, history, undo>>

(* cleanup_one ().                                                          *)
CleanupOne(t) ==
  /\ At(t, "cleanup", "number")
  /\ \/ Gpio(t) = -1 /\ Fail(t)
     \/ /\ Gpio(t) # -1
        /\ Restore({Gpio(t)})
        /\ Advance(t)
        /\ UNCHANGED <<latch, gil, history>>
  /\ UNCHANGED <<gpio_mode, module_setup, gpio_warnings, undo>>

-----------------------------------------------------------------------------
(* The program ends, in whatever state, and starts again: Py_AtExit unmaps  *)
(* the registers and leaves them as they are.                               *)
Restart ==
  /\ gpio_mode' = "UNKNOWN" /\ module_setup' = FALSE /\ gpio_warnings' = TRUE
  /\ gpio_direction' = [g \in Gpios |-> "none"]
  /\ gil' = "free" /\ call' = [t \in Threads |-> NoCall]
  /\ asFound' = Gpios /\ numbering' = [g \in Gpios |-> "UNKNOWN"]
  /\ overtaken' = FALSE /\ undo' = NoUndo
  /\ UNCHANGED registers

Begin(t) ==
  \E list \in Lists :
    \/ Setup(t, list, "in", -1)
    \/ \E initial \in {-1, 0, 1} : Setup(t, list, "out", initial)
    \/ \E value \in {0, 1} : Output(t, list, value)
    \/ CleanupList(t, list)

Next ==
  \/ \E mode \in Modes : SetMode(mode)
  \/ \E state \in BOOLEAN : SetWarnings(state)
  \/ CleanupAll \/ Restart
  \/ \E t \in Threads : \/ Begin(t) \/ Return(t)
                        \/ SetupNumber(t) \/ SetupResume(t) \/ SetupApply(t)
                        \/ OutputOne(t) \/ CleanupOne(t)

Spec == Init /\ [][Next]_vars

-----------------------------------------------------------------------------
Calls ==
  {NoCall}
    \cup [op : {"setup"}, list : Lists, direction : {"in", "out"}, initial : {-1, 0, 1},
          i : Nat, gpio : Gpios \cup {-1}, mode : Modes \cup {"UNKNOWN"},
          stage : {"number", "warned", "apply", "end"}]
    \cup [op : {"output"}, list : Lists, value : {0, 1}, i : Nat, stage : {"number", "end"}]
    \cup [op : {"cleanup"}, list : Lists, i : Nat, stage : {"number", "end"}]

(* Every index into the 54 entries of gpio_direction is one of them.        *)
TypeOK ==
  /\ gpio_mode \in Modes \cup {"UNKNOWN"}
  /\ module_setup \in BOOLEAN /\ gpio_warnings \in BOOLEAN
  /\ Gpios \subseteq 0..53
  /\ gpio_direction \in [Gpios -> {"none", "in", "out"}]
  /\ fsel \in [Gpios -> {"in", "out", "alt"}] /\ latch \in [Gpios -> {0, 1}]
  /\ gil \in Threads \cup {"free"}
  /\ call \in [Threads -> Calls]
  /\ asFound \subseteq Gpios
  /\ numbering \in [Gpios -> Modes \cup {"UNKNOWN"}]
  /\ overtaken \in BOOLEAN
  /\ undo.list \in Lists \cup {<<>>} /\ undo.gpios \subseteq Gpios

(* What the program has changed and not put back, cleanup () still finds:   *)
(* whatever list failed half way and whatever thread ran during a warning,  *)
(* gpio_direction says what the register does, and a gpio it has forgotten  *)
(* is an input again.                                                       *)
NothingForgotten ==
  \A g \in Gpios :
    /\ gpio_direction[g] # "none" => fsel[g] = gpio_direction[g]
    /\ gpio_direction[g] = "none" /\ g \notin asFound => fsel[g] = "in"

(* A channel number means the gpio it meant when the gpio was set up,       *)
(* unless a cleanup of everything came while another thread's set-up was    *)
(* warning: that set-up goes on and leaves a gpio set up with no mode, so   *)
(* the next setmode () may give its number to another gpio.                 *)
NumbersKeepMeaning ==
  ~overtaken =>
    \A g \in Gpios : gpio_direction[g] # "none" => numbering[g] = gpio_mode

(* cleanup () of the list that was just set up puts every gpio of it back,  *)
(* also when both calls fail: they stop at the same bad channel.            *)
CleanupUndoesSetup ==
  \A t \in Threads :
    call[t].op = "cleanup" /\ call[t].stage = "end" /\ call[t].list = undo.list =>
      \A g \in undo.gpios : gpio_direction[g] = "none" /\ fsel[g] = "in"

=============================================================================
