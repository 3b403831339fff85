# A verification of PiFunk

PiFunk is a radio transmitter for the Raspberry Pi. `src/pifunk.c` is the
program: a command line, dialogues that ask for a channel, and modulators that
key a clock generator through DMA. The repository carries the Python extension
RPi.GPIO with it (`src/RPI.GPIO/source`), which drives pins with software PWM
and watches them for edges, each with threads of its own.

This directory holds TLA+ modules of these parts, TLC configurations that check
them on small instances, and TLAPS proofs for every value of the constants.
Line numbers below are those of the files under `src/`.

## Inventory

| Part | State | Operations | What is hard |
|---|---|---|---|
| Command line: `main`, pifunk.c 3084-3318 | `argc`, `argv`, `optarg`, `options`, the parameters (filename, freq, ...) | a greeting, one `getopt` call, one `getopt_long` call, a loop over a `switch` | order of the two calls and of the reads of `optarg`; fall-through; termination |
| Tuning dialogue: `modetypeselect`, `freqselect`, `channelselect`, `channelmode*`, `subchannelmodepmr`, 1754-2217 | stdin, the globals `freq`, `type`, `channelmode`, the channel numbers | one prompt with `scanf` per function; four channel tables | unread input shared by all prompts; globals of earlier dialogues; gaps in the tables |
| Transmission: `modselect`, `play_fm`, `play_am`, `setupDMA`, `sendStringAsk`, 2293-2893 | the DMA instructions and `bufPtr`, the input file, carrier bit and busy bit | modulators; a signal handler | globals shared by two loops; a buffer index; the hardware outlives the process |
| Software PWM: soft_pwm.c, py_pwm.c | `pwm_list`, a record per PWM, a thread per running PWM, the pins | `PWM ()`, `start`, `stop`, `ChangeDutyCycle`, `ChangeFrequency`, dealloc | records freed by threads without a lock; single stores seen by the thread |
| Edge detection: event_gpio.c, the event calls of py_gpio.c | gpio list, C callback list, Python callback list, event flags, epoll set, poll thread | `add_event_detect`, `add_event_callback`, `remove_event_detect`, `event_detected`, `cleanup` | a thread that uses entries without the lock; descriptors that are reused; several threads |
| Blocking wait: `wait_for_edge`, event_gpio.c 508-605 | a second epoll set, the same gpio list | one call | the only call that drops the global lock; timeouts; several waits share the epoll set |
| GPIO channels: py_gpio.c, common.c, c_gpio.c | `gpio_direction`, `gpio_mode`, `module_setup`, warnings, registers | `setup`, `output`, `setmode`, `setwarnings`, `cleanup`, exit | lists that fail half way; warnings that let other threads in; restarts on the registers as they are |
| Parameter dialogues and menu, pifunk.c 1668-1763, 2102-2150, 2182-2242, 2895-3061 | a global per parameter, the CSV file | one `scanf` each; menu and assistant | the same stdin as above: a text that jams one dialogue is taken in another |
| Real-time clock: rtc/*.c | I2C registers, a time record | read, write, set, initialise | registers read and rewritten one by one while the clock runs |
| Everything else | | | libraries, generated text, scripts, web pages: see `PROJECT.json` |

How the parts interact. `main` fills the globals that dialogues and modulators
use, and its loop would call them; dialogues share stdin and globals, modulators
share the DMA buffer and the file. As the code stands, no call of a dialogue or
of a modulator is reached from `main` (lines such as 3225 and 3311 declare a
function instead of calling it), so the modules of pifunk.c are composed by
nothing but the state they start in: each starts where the program's globals
start, and its functions are called in any order. The PWM objects and the event
calls of RPi.GPIO are used by one Python program and are independent of each
other but for pins and the global lock.

What makes the parts correct:

- command line: every option gives its own argument to its own parameter, the
  process does not crash, and it ends;
- tuning: a frequency lies in the band of its table and names one channel, and
  the type shown is the type tuned;
- transmission: no index leaves the buffer, the file is played, a string is
  sent, and the carrier is off afterwards;
- PWM: no freed record is used, one thread drives a pin, a pin is not left
  high, a period has the length asked for but for what is truncated;
- events: lists, epoll set and callbacks agree, an edge becomes an event, and
  only an edge does;
- waits: a wait that reports an edge saw one, ends when an edge triggers, and
  leaves event detection as it was;
- channels: what a program has set up, `cleanup` finds and puts back, and a
  channel number keeps its meaning;
- settings: what is stored is usable, and a jammed prompt changes nothing that
  was set, unless it can read the text that jams the others;
- clock: a time that was read is not before the read began, initialising loses
  no more than a tick, and leaves a running clock in 24-hour mode.

## The modules

Every module is written from the code, also where the code does not do what its
texts say. Properties state what holds; three disagreements that end in wrong
behaviour of a whole program are runs of their own, the others are listed below
the runs.

**PifunkMain** (`main`). A command line is a sequence of at most `MaxArgs`
elements of the forms that `getopt` tells apart. `Greet` is the line that prints
`*argv [0]` with `%s` (3117): the character is taken for an address, so `main`
dies there whenever the program has a name (`named`). What the other actions say
is about the rest of `main`, which today runs only with an empty name. `GetOpt` and `GetOptLong` are
the two calls before the loop, `While` is the loop's condition,
`CaseParam`, `CaseFlag` and `CaseOther` are the switch with its fall-through.
`options` keeps the letter, since letters are all the loop compares.

**PifunkChannel** (tuning). One action per prompt. `front` is the text in front
of stdin: nothing or a number (`open`), a text that `%f` takes and `%d` does not
(`float`: `.5`, `nan`), a lone sign, which a failing conversion takes away
(`sign`), or a `word` that no conversion takes. `Scan` is one `scanf`: it yields
the variable's new value, or its old one, and what is in front afterwards. The
four tables are functions from channel numbers to hertz. Rounding of `float` is
left out: each table entry is the number written in the source. The end of the
input is left out as well: there every prompt fails, as with a word that is
never taken away.

**PifunkSettings** (parameter dialogues, menu) extends PifunkChannel: the
dialogues share its stdin. `SelectNumber` is a prompt for a number with what the
dialogue makes of it (`Checked`, `Modulation`, `Abs`), read with `%d` but for the
bandwidth (`Conversion`); the prompts for a word (`TakeWord`) take any text away.
The menu's choices are those of its `switch`, not those of the text it prints.
**MCPifunkSettings** gives each prompt the numbers its code tells apart and
bounds the variables a run answers.

**PifunkTransmit** (modulators). Calls arrive in any order; `PlayFm` and its
parts are the loop of `play_fm` with its index into the DMA instructions,
`Ask` the nested loops of the ASK modulator with the variable they share,
`Signal` the handler, which exits and leaves carrier and generator to the next
process. The values of samples and delays are left out, they are only printed.
The macros that look like stores (`SETBIT`, `CLRBIT`) expand to comparisons and
change nothing; `ACCESS` is taken for the register access that its comment
names.

**SoftPwm** (PWM). `heap` and `linked` are the allocated records and those on
`pwm_list`. A Python call runs under the global lock but the threads do not take
it, so a call is one action per store that a thread can see (`CallGoesOn` does
what is left, `todo`), and a thread has one action per output, test and sleep.
Times are in hundredths of a microsecond: `calculate_times` keeps whole
microseconds (`Whole`), and its product of two `float` numbers may be off in the
last place (`Rounded`). `cycle` adds up what one turn of the loop slept.

**PwmOutput** is what SoftPwm promises about pins, without records, lists and
times: a pin has one driver besides those that were told to leave, and one that
leaves lowers the pin last. SoftPwm implements it with the threads for drivers
(`Pins`, `Driving`, `DrivenPin`, `Leaving`); a record that is linked but has no
thread yet drives nothing, and a freed one has left.

**GpioEvents** (edges). A Python call is one action: it holds the global lock
and the poll thread does not read between the stores of one, with one exception:
`add_event_detect` with a callback lists the gpio first and the callback then. A
thread that comes between sees what it sees between `add_event_detect` without a
callback and `add_event_callback`, and both are actions. The poll thread has one action per system call and per piece of code between two of
them, with local variables (`fd`, `on`, `pending`) that outlive a removal.
Descriptors are reused as soon as they are closed. `Edge` and the triggers of
the epoll set are the kernel, written from how the code uses them. `raced` and
`edged` are history variables. **MCGpioEvents** adds the symmetry of gpios,
descriptors and threads.

**GpioWait** (`wait_for_edge`) composes GpioEvents with the waits: it takes every
step of GpioEvents (`EventStep`, `PollStep`) and says what it does to the waits
(`FollowRemovals`), and adds the steps of a wait, which runs without the global
lock: it creates or takes over an entry of the same gpio list, enters the second
epoll set, takes the first return for the state at the start, and uses its entry
after the wait. What it does with an entry that was freed meanwhile is arbitrary
(`FinishFreed`). `alone` is a history variable: no two waits overlapped and no
entry was removed under one.

**GpioChannels** (set-up, output, cleanup). A call on a list of channels enters
under the global lock and goes through the list one channel per step (`First`,
`Advance`, `Fail`, `Return`). A warning runs Python code, so it is a point where
the lock is free (`SetupNumber`, then `SetupResume`). `Restart` is the end of the
program at any point: the registers stay, all else is as after the import.
`asFound`, `numbering`, `overtaken` and `undo` are history variables.
**MCGpioChannels** gives the lists.

**RtcClock** (the clock chip and its drivers). The chip ticks between any two
transactions of a call (`Tick`). `ReadNext` is one transaction of the two
readers, `InitNext` one of `init_uhr`, which reads, clears and rewrites seconds
and hours; `WriteTime` and `SetRegister` are single transactions. The registers
have their flag bits, and the conversions are those of the code.

The modules named **..._proofs** hold the theorems of the module they are
named after; **PifunkDialogs_proofs** holds those of PifunkChannel and of
PifunkSettings, which extends it, and **GpioWait_proofs** builds on
GpioEvents_proofs as GpioWait does on GpioEvents.

## The runs

Properties that hold:

| Run | Instance | What it shows |
|---|---|---|
| `main_options` | every command line of up to 3 elements, 2 texts, with and without a program name | which parameters get which text (`OnlySecondText`) and which command lines the switch dies on (`DiesOnLoneOption`) |
| `dialogs` | all dialogues and the menu in any order and as often as wanted, with at most 4 variables answered at a time | type and tables agree (`AnalogTuningMeansTypeOne`, `TunedInBand`, `CbFrequencyNamesChannel`), settings are usable (`STypeOK`); what a text that is no whole number does to the prompts it meets (`JamTakesNoAnswer`, `JamKeepsSettings`) |
| `transmit` | 2048 instructions, 1024 set up in pages of 128, strings of 0, 1, 9 and 10 bytes | the index stays in the buffer, what is played (nothing but the end of the input), what is set up, how the carrier is left, and that short strings end |
| `pwm_threads` | 1 pin, 1 object, 2 records with a thread each | no use after free, one running PWM per pin, periods; stopped records are freed and running ones pulse; the pins behave as PwmOutput says, fairness included (`ImplementsPwmOutput`) |
| `edge_detection` | 2 gpios, 2 descriptors, 2 poll threads, 1 callback | list, epoll set and callbacks agree (`ListsAgree`), and until a removal meets a thread at work nothing freed is used, a watched gpio is served and events had edges |
| `edge_latched` | 2 gpios, bounce times, 2 edges, 1 poll thread | a trigger becomes an event |
| `gpio_wait` | 1 gpio, 1 descriptor, 1 poll thread, 1 waiter, both edges, bounce times | a wait that reports an edge saw one (`SoleWaitIsTrue`), times out once (`OneTimeout`), ends when an edge triggers (`TriggerEndsWait`), and event detection is served beside it (`ServedBesideWaits`) |
| `gpio_channels` | 2 threads; the empty list, one channel, two, and three with a bad one in the middle; both numberings; gpios found as input, output or other | the directions are those of the registers and nothing set up is lost (`NothingForgotten`), numbers keep their meaning, `cleanup` undoes the `setup` before it |
| `rtc_clock` | minutes of 12 seconds, hours of 11 minutes, days of 13 hours, one tick per call | what a torn read returns (`ReadIsNeverBehind`) and that `init_uhr` keeps the time (`InitKeepsTime`) |

Where the code does something else than a text of the repository says:

| Run | Text | Code |
|---|---|---|
| `main_own_argument` | "[-n <filename (*.wav)>] [-f <freq (26.9650)>] ...", pifunk.c 3146, and README.md 380-402: each option sets its own parameter | `getopt_long` replaces `optarg`, and the switch falls through: parameters hold the text of the second element |
| `main_loop_ends` | "if -1 then all flags were read", pifunk.c 3142 | `(-1 \|\| 0)` is 1; the loop does not end |
| `pwm_duplicate` | "A PWM object already exists for this GPIO channel", py_pwm.c 53 | the rejected object's deallocation stops the first PWM |

Other places where text and code part ways. The models follow the code, and the
definitions named show it:

- "default: sudo ./pifunk -n sound.wav ..." (README.md 412): no such command gets
  past the greeting, which hands `*argv [0]`, a character, to `%s` (`Greet`);
- "path & name of soundfile" (README.md 380), "after getting filename insert then
  open" (pifunk.c 2508), "Reading bytes from fp ..." (2585): the file is to be
  played. `play_fm` opens nothing, reads the standard input, and computes samples
  only when `read` returns `readBytes`, which is always 0: at the end of the
  input, so that nothing of it is ever played (`ReadFollows`,
  `PlayedInputHasEnded`);
- "CH=0", "auf 24h Mode stellen", "OSC ON" (rtc-clock-test.c 105, 108, 110):
  `init_uhr` is to start the clock and put it into 24-hour mode. It clears the
  registers and then writes back what it read before, halt and mode bit included,
  so a halted clock stays halted and a 12-hour one stays in 12-hour mode
  (`InitNext`, `Written`); `InitKeepsTime` is about the time alone;
- an unknown PMR type (pifunk.c 1909) keeps the frequency of an earlier dialogue,
  of whatever band (`AfterPmrType`);
- "Using %d as standard" (pifunk.c 1910) tunes no channel (`AfterPmrType`);
- "You selected 2 for am!" (2883): `strcmp` without `== 0` calls the other
  modulator (`ModSelect`);
- the numbers in the printed menu are not those of its `switch` (`After`);
- "start poll thread if it is not already running" (event_gpio.c 498): the thread
  sets the flag itself, so two calls can start two (`Start`), which both serve the entries;
- several waiters read one epoll set, so one may take another's trigger and
  report an error (`WaitTrigger`, `Result`); hence the condition `alone`;
- after `cleanup` of everything, a set-up that was warning goes on without a
  numbering mode (`overtaken`).

Bounds, and why they are enough:

- `MaxArgs = 3`: `main` calls getopt twice, so the third element is the first
  that nobody reads. The theorem is for every length.
- `Choices` and `Numbers`: the switches compare with constants; the values
  taken are one for each way to leave a table (18, 33, 51, 81), which are channel
  numbers of the other tables, and one beyond all (99). The tables' entries are
  checked by the invariant itself (`CbFrequencyNamesChannel`), and the band of
  each entry is a theorem (`TunedInBandAlways`). `Frequencies` has one that is no
  number. `MCTyped` gives each setting numbers of different outcome, unknown
  ones among them.
- `MaxAnswered = 4`, by the constraint `FewAnswers`: of the thirteen variables
  that hold an answer at most four are set at once. They meet only in stdin and,
  two at a time, in a dialogue and its table; the theorems have no such bound.
- `main_own_argument` has command lines of two elements, enough to see one
  option's text in another's parameter.
- Transmission: the source has 65536 instructions. 2048 keep the two facts the
  index depends on (divisible by four; more instructions than are set up). The
  source's own size has been run once as well, with 1.3 million states. Strings:
  the shared loop variable changes its behaviour at ten bytes.
- PWM: two records are the smallest number with an old thread leaving while a
  new one starts on the same pin. A second object adds nothing to one: its
  rejected constructor and its deallocation are the action `CreateDuplicate`.
  Duty cycles 0, 50 and 100 are the three cases the code tells apart. A slice of
  1001 hundredths of a microsecond makes both parts of a period lose time, and
  with `Roundings = {1}` the default 1 kHz gets the times the program gets: 500
  and 499 microseconds, since 0.01 ms as a `float` is less and only the first
  product rounds it up again. The theorem has every slice and rounding.
- Events: two gpios and two descriptors give reuse of a descriptor by another
  gpio; two threads the race of line 499 and a thread left by `cleanup`. The
  liveness run has one thread and no callbacks, to keep the graph on which
  fairness is checked small; that some thread serves a watched gpio, whatever
  their number, is `ServedUnlessRacedAlways`.
- Waits: one gpio, one descriptor and one waiter already have the entry of event
  detection taken over by a wait, removed under it and given to a new entry with
  the same descriptor. Two waiters break `alone` with their first overlap.
- Channels: two threads, because one call overtakes another only at a warning;
  the lists have a channel that is a gpio under both numberings, one under only
  one, and one under none. A call is entered from every state, so sequences of
  calls are not bounded.
- Clock: each register counts past ten, so that every one has both digits; days
  are short because only carries matter. `MaxTicks`: a call is shorter than a
  second.

Deadlock is checked where the system goes on for ever (PWM, transmission,
channels, clock). `main` and the dialogues end, and edge detection and waits stop
with a crash, so their configurations turn that check off.

Fairness. `FairSpec` of PifunkMain: one thread that never blocks. SoftPwm: the
scheduler runs every thread, and a call that was started returns. PifunkTransmit:
the process is scheduled while it keys the carrier, and the generator's busy bit
follows its enable bit (the code waits for it without a limit). GpioEvents: poll
threads are scheduled and Python callbacks return (weak fairness); epoll serves
ready descriptors in turn, so one of them is not passed over for ever (strong
fairness of `Trigger` for a descriptor). GpioWait: the same, and a waiter is a
thread that runs unless it waits; a timeout is not fair, since a wait may have
none. Users, signals and edges are not fair.

## The proofs

TLAPS proves these for every value of the constants that the named assumptions
allow:

| Module | Theorem | Argument |
|---|---|---|
| PifunkMain_proofs | `TypeOKAlways`, `OnlySecondTextAlways`, `DiesOnLoneOptionAlways` | `IInv`: between the calls `optarg` is that of the first element, after them of the second; parameters hold nothing else. `FInv`: see below |
| PifunkDialogs_proofs, of PifunkChannel | `TypeOKAlways`, `AnalogTuningMeansTypeOneAlways`, `TunedInBandAlways`, `CbFrequencyNamesChannelAlways`, `JamTakesNoAnswerAlways` | types, the tables' ranges, which prompts `type` allows, and the CB table's inverse: see below |
| PifunkDialogs_proofs, of PifunkSettings | `STypeOKAlways`, `JamKeepsSettingsAlways` | `SInv`: see below |
| PifunkTransmit_proofs | `TypeOKAlways`, `SlotInBufferAlways`, `PlayedInputHasEndedAlways`, `ClosedUnplayedAlways`, `InstructionsSetUpOnceAlways`, `FirstAndTenthByteAlways`, `AskLeavesCarrierOffAlways` | `SlotInv`: the index is divisible by four at the top of the loop, so its last increment is the one that reaches the size; `InstrInv`: the counter is 0 or one rounded-up set; `AskInv`: the place in the string is 0 or 9, the bit counter is below 8 until the last write, and the last write turns the carrier off |
| SoftPwm_proofs | `TypeOKAlways`, `NoUseAfterFreeAlways`, `OneRunningPerPinAlways`, `HighPinHasDriverAlways`, `UndisturbedTurnIsPeriodAlways`, `PinsBehaveAlways` | see below |
| GpioEvents_proofs | `TypeOKAlways`, `ListsAgreeAlways`, `WatchedIsRegisteredAlways`, `CallbackHasEntryAlways`, `ServedUnlessRacedAlways`, `EventHadEdgeAlways` | see below |
| GpioWait_proofs | `WTypeOKAlways`, `SoleWaitIsTrueAlways`, `ServedBesideWaitsAlways`, `OneTimeoutAlways` | see below |
| GpioChannels_proofs | `TypeOKAlways`, `NothingForgottenAlways`, `NumbersKeepMeaningAlways`, `CleanupUndoesSetupAlways` | see below |
| RtcClock_proofs | `TypeOKAlways`, `ReadIsNeverBehindAlways`, `InitKeepsTimeAlways` | see below |

PifunkMain. That parameters never hold the middle of a long option's name is not
inductive: `getopt_long` does put one into `optarg`. It does so only where
`getopt` has stopped inside the first word, and then `options` is `?` and the
switch assigns nothing (`LineInv`: an option that is a parameter has taken a
word off `rest`). `DiesOnLoneOption` relates the crash to the command line as it
was at the start: `LineInv` also says that `options` is a parameter exactly when
the first element is a short option (`FirstTaken`), and `OptargInv` that `optarg`
is null, where a case reads it, exactly when the second element has no text
(`NoSecondText`); a run that printed its name is at the start or has crashed.

The dialogues. `CbFrequencyNamesChannel` is a fact about a table of 84 entries
and one about the state. For the table, `Raster` and `ChannelAt` give the raster
point of a channel and the channel of a raster point, run by run of the table,
and the two are inverse to each other; hence no frequency occurs twice and none
is missing but 26.995 MHz. For the state, `CbInv`: a CB tuning is the table's own
for the number asked last, since the one number that leaves `freq` alone leaves
the program. The settings need to know what they were made of (`MadeOf`): the
power and the modulation from the number behind their prompt, a word as callsign
from the answer 1. A `%d` prompt in front of a text then computes again what is
there; only the `%f` prompts, the frequency and the bandwidth, may take the text
as an answer. The theorems are about `SSpec`, all dialogues: a step is one of the
tuning dialogue or leaves its variables alone (`Aside`), moving `front` at most.

SoftPwm. None of the first three properties is inductive by itself. The invariant adds that a
pin has one linked record (`OneLinkedPerPin`), that a running record is linked
(`RunningIsLinked`), that a linked record with a thread runs (`LinkedRuns`), and
that a thread on its way out has been unlinked (`LeavingIsUnlinked`): the thread
frees its record only after the call has taken it off the list. A record can be
freed when a call still holds it only if that call unlinked it, and a call that
unlinks does not store again. `PinsBehaveAlways` is the safety part of the
refinement: with the same invariant every step of SoftPwm is a step of PwmOutput
or leaves its variables alone. That a driver that was told to leave does leave is
checked by TLC. For the period, `PeriodInv` says what a turn has slept so far at
each place of the loop (`Slept`), that the times a thread sleeps are those of
duty cycle and slice unless a call has stores left to do (`TimesFit`), and that
such a call has marked the turn as disturbed; the two parts then add up to a
period but for what rounding and truncation lose, whichever of them is empty
(`PartsOfPeriod`).

GpioEvents. Descriptors are taken from those no entry has, so entries never share
one; a removal drops the trigger with the entry. `CallbackHasEntry` needs the
Python callbacks to be a finite set, and `TypeOK` needs that a thread between
`find` and the end of its callbacks holds a gpio (`HoldsGpio`): `Latch` indexes
the flags with it. `ServedUnlessRaced` and `EventHadEdge` rest on `Calm`, which
holds until `raced` (TLC has checked this invariant on the run's instance):
`thread_running` tells the truth, so some thread serves while an entry is watched
(`ThreadsServe`); what a thread took from the epoll set or looked up belongs to
an entry that is still on the list with the same descriptor (`HoldsValid`); and
a gpio without an edge so far has its first trigger ahead of it, or one thread
on its way to take it for the state at the start (`FirstTrigger`). A removal
keeps all of this or meets a thread at work, which is what `raced` records.

GpioWait. Steps of calls and poll threads are those of GpioEvents, so `WInv`
takes its invariants over and adds that the entry a wait holds is on the list
until it is freed (`HeldListed`), and, while `alone`, `Calm` and `Sole`: the
second epoll set has the descriptor of the one wait and nothing else, its first
return is still to come or has been taken, and whatever triggers after that is
an edge this wait has seen. A wait changes entries in ways `Calm` does not speak
of: it adds one that is not watched, or changes the edge, the bounce time or the
time of the last call of its own (`EntriesKept`). TLC has checked `WInv` on the
run's instance, and to a depth of 14 with two waiters and two gpios.

GpioChannels. `setup_one` reads the number and the mode, may warn, and only then
writes; the invariant says what a call between these two points holds. Everything
that writes a direction writes the register in the same step, and the invariant
for `CleanupUndoesSetup` says that a cleanup of the same list, at its i-th
channel, has put back what the set-up did to the channels before: both stop at
the first channel that is none, and no step that could change a number in
between leaves `undo` standing.

RtcClock. A call finds the registers as they were when it began or one tick later
(`Base`), except for those it has just overwritten; the inductive invariant says
so for each step of the two calls. What a reader has is then a prefix of the old
registers and the rest of the new (`k` in `ReadInv`). The rest is arithmetic:
that the conversions are inverse on digits (`Digits`, `RoundTrip`) and what a
carry makes of the time of day (`TickTime`), for every length of minute and hour
up to 80 and of day up to 40.

Assumptions are on constants only: the size of the DMA buffer is divisible by
four and not zero, the page size is not zero, duty cycles are at most 100, time
slices positive, a rounded slice off by at most one, channel lists hold integers, the clock's registers count no
further than their digits, and the values that stand for "none" or "free" differ
from the others.

Only model-checked: liveness (`ShortStringEnds`, `StoppedIsFreed`, `Pulses`,
`TriggerIsLatched`, `TriggerEndsWait`, the fairness of `ImplementsPwmOutput`),
since the prover has no support for fairness. Every invariant and every action
property that a run checks is a theorem.

## Not modelled

- `setup_io`, `setup_fm` and the memory set-up: no decisions, and `setup_io` is
  not called. The values of samples, delays and everything that is printed, the
  rounding of `float`.
- `sampleselect`: both branches of its first test return, so its reader of
  samples is not reached. LED functions: straight-line calls of a library.
- Pull-up registers and argument checks that are rejected at once in RPi.GPIO;
  board detection (one read of a file before everything else); the date and
  temperature registers of the clock; `rtc.py`, which does not parse.
- Third-party code: the bcm2835 library, libusb, VideoCore and OpenMAX headers,
  libsndfile, the kernel driver of the DS1307. They are most of the lines of the
  repository, so the share of all lines that is modelled stays small, although
  the program's own state changes are covered. They appear only as what the
  program's code expects of them.
- Scripts, web pages, sounds, logs and build files.

`PROJECT.json` lists every part with its status, and every hazard with the
properties about it.

## Plan

Done, in this order: PifunkMain, PifunkChannel, PifunkTransmit, SoftPwm,
GpioEvents, GpioWait, PwmOutput and the refinement, GpioChannels,
PifunkSettings, RtcClock, and the proofs of every safety property.

What is left:

1. An *edge latch* as an abstract specification, set by an edge and cleared by
   `event_detected`, which GpioEvents implements until `raced`: the step-by-step
   form of `EventHadEdge`.
2. What holds with several waiters at once, where `alone` promises nothing: which
   of their results can be wrong, and that event detection is still served.
3. The pins that PWM, `output` and `cleanup` write at the same time: SoftPwm and
   GpioChannels share them only through the registers.
