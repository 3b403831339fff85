--------------------------- MODULE PifunkTransmit ---------------------------
(***************************************************************************)
(* The transmitting functions of pifunk.c: modselect () with what it calls *)
(* (modulationfm, setup_fm, setupDMA, play_fm, modulationam, play_am) and  *)
(* sendStringAsk () with sendByteAsk, carrierhigh and carrierlow, as one   *)
(* process that calls them in any order, is ended by a signal or a fault   *)
(* at any point, and is started again.  The hardware outlives the process. *)
(*                                                                         *)
(* The file descriptor fp is a global that no statement assigns: it is 0,  *)
(* the standard input.  ACCESS (x) reads through allof7e, which is null    *)
(* before setup_fm () has mapped it; as a target of an assignment (the     *)
(* macro does not expand to an lvalue) it is taken for the register that   *)
(* its comment names.  SETBIT and CLRBIT expand to comparisons and change  *)
(* nothing.  The arithmetic on the samples is left out: its results are    *)
(* printed and never used.                                                 *)
(***************************************************************************)
EXTENDS Integers

CONSTANTS
  BufferInstructions,   (* entries of instrs                                *)
  SetUpInstructions,    (* instructions setupDMA () prepares                *)
  PerPage,              (* 4096 / sizeof (struct CB)                        *)
  StringLengths         (* lengths of the strings given to sendStringAsk () *)

ASSUME TransmitAssumption ==
  /\ BufferInstructions \in Nat \ {0} /\ BufferInstructions % 4 = 0
  /\ SetUpInstructions \in Nat
  /\ PerPage \in Nat \ {0}
  /\ StringLengths \subseteq Nat

VARIABLES
  pc,          (* the function, or the part of it, that comes next          *)
  mod,         (* the modulation asked for                                  *)
  modulator,   (* the modulator that modselect () called last               *)
  samplerate,
  input,       (* what the standard input is: a file or a pipe              *)
  rest,        (* whether it still has bytes, or all were read              *)
  fp,          (* whether the descriptor 0 is open                          *)
  data,        (* where play_fm's local pointer data points                 *)
  stack,       (* whether a read () went over the end of that pointer       *)
  allof7e,     (* where it points: to nothing or to the peripherals         *)
  instrCnt, bufPtr,
  length, at,  (* sendStringAsk: length of the string, byte being sent      *)
  j,           (* the loop variable both loops of the ASK modulator share   *)
  phase,       (* sendByteAsk: which call of carrierhigh / carrierlow       *)
  carrier,     (* the ENABLE bit of CM_GP0CTL, as it was last written       *)
  busy         (* the BUSY bit of CM_GP0CTL                                 *)

source == <<samplerate, input>>
stdin == <<rest, fp>>
local == <<data, stack>>
dma == <<allof7e, instrCnt>>
ask == <<length, at, j, phase>>
clock == <<carrier, busy>>
selected == <<mod, modulator>>
vars == <<pc, selected, source, stdin, local, dma, bufPtr, ask, clock>>

readBytes == 0          (* a global that no statement assigns *)

Mods == {"fm", "am", "null"}
Levels == {"low", "high"}
AskPcs == {"ask", "askWait"}
PlayPcs == {"header", "read", "sample", "spin", "close"}

-----------------------------------------------------------------------------
(* A process starts with its globals zero, on any standard input.           *)
Init ==
  /\ pc = "idle" /\ mod = "null" /\ modulator = "none"
  /\ samplerate \in {0, 22050} /\ input \in {"file", "pipe"}
  /\ rest \in {"some", "end"} /\ fp = "open"
  /\ data = "null" /\ stack = "intact"
  /\ allof7e = "null" /\ instrCnt = 0 /\ bufPtr = 0
  /\ length = 0 /\ at = 0 /\ j = 0 /\ phase = "first"
  /\ carrier = "low" /\ busy = "low"

(* The program is started again, on the hardware as it was left.            *)
Run ==
  /\ pc = "ended"
  /\ pc' = "idle" /\ mod' = "null" /\ modulator' = "none"
  /\ samplerate' \in {0, 22050} /\ input' \in {"file", "pipe"}
  /\ rest' \in {"some", "end"} /\ fp' = "open"
  /\ data' = "null" /\ stack' = "intact"
  /\ allof7e' = "null" /\ instrCnt' = 0 /\ bufPtr' = 0
  /\ length' = 0 /\ at' = 0 /\ j' = 0 /\ phase' = "first"
  /\ UNCHANGED clock

(* handSig () calls exit (0), as does the default action before setupDMA () *)
(* has installed it; nothing is undone: terminate () and unsetupDMA () are  *)
(* called by nobody.                                                        *)
Signal ==
  /\ pc # "ended"
  /\ pc' = "ended"
  /\ UNCHANGED <<selected, source, stdin, local, dma, bufPtr, ask, clock>>

-----------------------------------------------------------------------------
(* strcmp () is 0 for equal texts, so the first test sends every modulation *)
(* but "fm" to the fm modulator and the second, which only "fm" reaches,    *)
(* holds.  The last branch is never taken; a null mod faults.               *)
ModSelect ==
  /\ pc = "idle"
  /\ mod' \in Mods
  /\ modulator' = CASE mod' = "null" -> "none"
                    [] mod' = "fm"   -> "am"
                    [] OTHER         -> "fm"
  /\ pc' = CASE modulator' = "none" -> "ended"
             [] modulator' = "fm"   -> "setup_fm"
             [] modulator' = "am"   -> "play_am"
  /\ UNCHANGED <<source, stdin, local, dma, bufPtr, ask, clock>>

(* One sample is written to fp, whether or not that works.                  *)
PlayAm ==
  /\ pc = "play_am"
  /\ pc' = "idle"
  /\ UNCHANGED <<selected, source, stdin, local, dma, bufPtr, ask, clock>>

SetupFm ==
  /\ pc = "setup_fm"
  /\ \/ allof7e' = "mapped" /\ pc' = "setupDMA"
     \/ UNCHANGED allof7e /\ pc' = "ended"            (* mmap () failed *)
  /\ UNCHANGED <<selected, source, stdin, local, instrCnt, bufPtr, ask, clock>>

(* Mutant: every call counts from 0.                                        *)
Pages_Again(from) == (SetUpInstructions + PerPage - 1) \div PerPage

(* How many pages of instructions are still to be set up.                   *)
Pages(from) ==
  IF from < SetUpInstructions
  THEN (SetUpInstructions - from + PerPage - 1) \div PerPage
  ELSE 0

SetupDMA ==
  /\ pc = "setupDMA"
  /\ instrCnt' = instrCnt + PerPage * Pages(instrCnt)
  /\ pc' = "header"
  /\ UNCHANGED <<selected, source, stdin, local, allof7e, bufPtr, ask, clock>>

-----------------------------------------------------------------------------
(* play_fm: lseek () to the end, malloc () of what lseek () returned, and   *)
(* 22 reads into the pointer itself instead of the memory it points to.     *)
Header ==
  /\ pc = "header"
  /\ pc' = "read"
  /\ IF fp = "closed" \/ (input = "pipe" /\ rest = "end")
     THEN data' = "null" /\ UNCHANGED rest
     ELSE IF input = "pipe"
     THEN data' = "clobbered" /\ rest' \in {"some", "end"}
     ELSE data' = "heap" /\ rest' = "end"
  /\ UNCHANGED <<selected, source, fp, stack, dma, bufPtr, ask, clock>>

(* What read () returns: -1, 0 at the end, or a positive count.             *)
Got == IF fp = "closed" THEN -1 ELSE IF rest = "end" THEN 0 ELSE 1

(* Mutant: the test is the assignment that was meant.                       *)
ReadFollows_Assigns(got) == got # 0

(* while (readBytes == read (fp, &data, 1024))                              *)
ReadFollows(got) == got = readBytes

Read ==
  /\ pc = "read"
  /\ pc' = IF ReadFollows(Got) THEN "sample" ELSE "close"
  /\ IF Got > 0
     THEN rest' \in {"some", "end"} /\ stack' = "smashed"
     ELSE UNCHANGED <<rest, stack>>
  /\ UNCHANGED <<selected, source, fp, data, dma, bufPtr, ask, clock>>

(* The sample is computed from *data, with a division by samplerate that    *)
(* some of the ARM targets trap and others give 0.                          *)
Sample ==
  /\ pc = "sample"
  /\ \/ /\ data # "null"
        /\ pc' = "spin"
        /\ bufPtr' = bufPtr + 1
     \/ /\ data # "heap" \/ samplerate = 0
        /\ pc' = "ended"
        /\ UNCHANGED bufPtr
  /\ UNCHANGED <<selected, source, stdin, local, dma, ask, clock>>

(* Mutant: the third increment is commented out with the code around it.    *)
NextSlot_Short(b) == (b + 2) % BufferInstructions

(* Mutant: no wrap.                                                         *)
NextSlot_NoWrap(b) == b + 3

(* Two more increments, and the last one with the wrap.                     *)
NextSlot(b) == (b + 1 + 1 + 1) % BufferInstructions

(* The loop waits until the DMA engine has left instrs [bufPtr].            *)
Spin ==
  /\ pc = "spin"
  /\ \/ pc' = "read" /\ bufPtr' = NextSlot(bufPtr)
     \/ UNCHANGED <<pc, bufPtr>>
  /\ UNCHANGED <<selected, source, stdin, local, dma, ask, clock>>

Close ==
  /\ pc = "close"
  /\ fp' = "closed"
  /\ data' = "null" /\ stack' = "intact"
  /\ pc' \in {"idle"} \cup (IF stack = "smashed" THEN {"ended"} ELSE {})
  /\ UNCHANGED <<selected, source, rest, dma, bufPtr, ask, clock>>

-----------------------------------------------------------------------------
(* sendStringAsk: the test of its loop, with sendByteAsk begun if it holds. *)
NextByte(k, len) ==
  /\ length' = len
  /\ IF k < len
     THEN at' = k /\ j' = 0 /\ phase' = "first" /\ pc' = "ask"
     ELSE at' = 0 /\ j' = k /\ phase' = "first" /\ pc' = "idle"

SendStringAsk ==
  /\ pc = "idle"
  /\ \E len \in StringLengths : NextByte(0, len)
  /\ UNCHANGED <<selected, source, stdin, local, dma, bufPtr, clock>>

(* carrierhigh () and carrierlow () write the register, which faults while  *)
(* it is not mapped: low then high for a 1, high then low for a 0, low at   *)
(* the end of the byte.                                                     *)
WriteCarrier ==
  /\ pc = "ask"
  /\ \/ /\ allof7e = "null"
        /\ pc' = "ended"
        /\ UNCHANGED carrier
     \/ /\ allof7e = "mapped"
        /\ pc' = "askWait"
        /\ \/ phase = "first" /\ carrier' \in Levels
           \/ phase = "second" /\ carrier' \in Levels \ {carrier}
           \/ phase = "last" /\ carrier' = "low"
  /\ UNCHANGED <<selected, source, stdin, local, dma, bufPtr, ask, busy>>

(* Mutant: sendByteAsk leaves 0 in j.                                       *)
AfterByte_Reset(k) == 0 + 1

(* The loop over the bits leaves 8 in j, and the loop over the bytes adds 1 *)
(* to it.                                                                   *)
AfterByte(k) == k + 1

(* Mutant: carrierlow () does not wait.                                     *)
Settled_Low == carrier = "low" \/ busy = "high"

(* while (!(ACCESS (CM_GP0CTL) & 0x80)) and while (ACCESS (CM_GP0CTL) & 0x80) *)
Settled == busy = carrier

(* The busy wait of carrierhigh () or carrierlow () is over.                *)
CarrierSettled ==
  /\ pc = "askWait"
  /\ Settled
  /\ \/ /\ phase = "first"
        /\ phase' = "second" /\ pc' = "ask"
        /\ UNCHANGED <<length, at, j>>
     \/ /\ phase = "second"
        /\ j' = j + 1
        /\ phase' = IF j + 1 < 8 THEN "first" ELSE "last"
        /\ pc' = "ask"
        /\ UNCHANGED <<length, at>>
     \/ phase = "last" /\ NextByte(AfterByte(j), length)
  /\ UNCHANGED <<selected, source, stdin, local, dma, bufPtr, clock>>

(* The clock generator follows its ENABLE bit.                              *)
ClockFollows ==
  /\ busy # carrier
  /\ busy' = carrier
  /\ UNCHANGED <<pc, selected, source, stdin, local, dma, bufPtr, ask, carrier>>

-----------------------------------------------------------------------------
PlayFm == Header \/ Read \/ Sample \/ Spin \/ Close

Ask == SendStringAsk \/ WriteCarrier \/ CarrierSettled

Next ==
  \/ Run \/ Signal
  \/ ModSelect \/ PlayAm \/ SetupFm \/ SetupDMA
  \/ PlayFm
  \/ Ask
  \/ ClockFollows

(* The one thread of the process is scheduled while it is in the ASK        *)
(* modulator, and the generator follows its register.                       *)
Fairness == WF_vars(WriteCarrier \/ CarrierSettled) /\ WF_vars(ClockFollows)

Spec == Init /\ [][Next]_vars /\ Fairness

-----------------------------------------------------------------------------
(* The values the variables take.  at and j stay within the byte and its    *)
(* successor, instrs is never indexed by a value out of 0 .. its size.      *)
TypeOK ==
  /\ pc \in {"idle", "ended", "setup_fm", "setupDMA", "play_am"}
            \cup AskPcs \cup PlayPcs
  /\ mod \in Mods /\ modulator \in {"none", "fm", "am"}
  /\ samplerate \in {0, 22050} /\ input \in {"file", "pipe"}
  /\ rest \in {"some", "end"} /\ fp \in {"open", "closed"}
  /\ data \in {"null", "heap", "clobbered"} /\ stack \in {"intact", "smashed"}
  /\ allof7e \in {"null", "mapped"} /\ instrCnt \in Nat /\ bufPtr \in 0..BufferInstructions
  /\ length \in StringLengths \cup {0} /\ at \in Nat /\ j \in 0..9
  /\ phase \in {"first", "second", "last"}
  /\ carrier \in Levels /\ busy \in Levels

(* The slot play_fm waits for (line 2554) is an entry of instrs, although   *)
(* only the last of its four increments wraps: they stay in step with the   *)
(* size of the buffer over any number of samples.                           *)
SlotInBuffer == pc = "spin" => bufPtr < BufferInstructions

(* Nothing of the input is ever played: the comparison in the loop of       *)
(* play_fm (line 2524) lets a sample be computed only after the input has   *)
(* ended, whatever it held.  (README and messages call it the soundfile     *)
(* that is played; the loop was meant to run while read () returned bytes.) *)
PlayedInputHasEnded == pc \in {"sample", "spin"} => fp = "open" /\ rest = "end"

(* Once a sample was played the loop of play_fm goes on until the process   *)
(* ends: whenever it is about to close the file, and between two calls, no  *)
(* sample has been played since the process started.                        *)
ClosedUnplayed == pc \in {"idle", "close", "ask", "askWait"} => bufPtr = 0

(* play_fm runs on a full set of instructions however often it is called:   *)
(* setupDMA () adds none to those of an earlier call.                       *)
InstructionsSetUpOnce ==
  pc \in PlayPcs =>
    instrCnt \in SetUpInstructions .. SetUpInstructions + PerPage - 1

(* The loop variable that sendStringAsk shares with sendByteAsk: the bytes  *)
(* 1 to 8 of a string and those behind byte 9 are never sent.               *)
FirstAndTenthByte == pc \in AskPcs => at \in {0, 9}

(* When sendStringAsk returns from a string that is not empty the carrier   *)
(* is off and the generator has stopped, also if an earlier process was     *)
(* ended while it was on.                                                   *)
AskLeavesCarrierOff ==
  [][(pc \in AskPcs /\ pc' = "idle") => (carrier' = "low" /\ busy' = "low")]_vars

(* A string of up to nine bytes is done after its first byte: the ASK       *)
(* modulator returns or the process ends.                                   *)
ShortStringEnds == (pc \in AskPcs /\ length <= 9) ~> (pc \in {"idle", "ended"})

=============================================================================
