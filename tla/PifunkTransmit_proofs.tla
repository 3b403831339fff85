----------------------- MODULE PifunkTransmit_proofs -----------------------
(***************************************************************************)
(* The safety properties of PifunkTransmit for buffers, pages and strings  *)
(* of every size.                                                          *)
(***************************************************************************)
EXTENDS PifunkTransmit, TLAPS

(* bufPtr is a multiple of 4 between two samples and one more inside one;   *)
(* after the first sample the process stays in the loop, at the end of its  *)
(* input.                                                                   *)
SlotInv ==
  /\ pc = "spin" => bufPtr \in 1..BufferInstructions - 1 /\ bufPtr % 4 = 1
  /\ pc \in {"read", "sample"} =>
       bufPtr \in 0..BufferInstructions - 1 /\ bufPtr % 4 = 0
  /\ pc \in {"sample", "spin"} => fp = "open" /\ rest = "end"
  /\ pc = "read" => bufPtr = 0 \/ (fp = "open" /\ rest = "end")
  /\ pc \notin {"read", "sample", "spin", "ended"} => bufPtr = 0

(* instrCnt counts no instructions or all of them.                          *)
SetUp == SetUpInstructions .. SetUpInstructions + PerPage - 1

InstrInv ==
  /\ instrCnt \in {0} \cup SetUp
  /\ pc \in PlayPcs => instrCnt \in SetUp

(* The bits of a byte count j up to 8, and the last write is a low.         *)
AskInv ==
  pc \in AskPcs =>
    /\ at \in {0, 9}
    /\ phase = "last" => j = 8
    /\ phase # "last" => j \in 0..7
    /\ phase = "last" /\ pc = "askWait" => carrier = "low"

IInv == TypeOK /\ SlotInv /\ InstrInv /\ AskInv

USE TransmitAssumption

-----------------------------------------------------------------------------
(* The last of the four increments wraps only from the last group of four.  *)
LEMMA NextSlotInBuffer ==
  ASSUME NEW b \in 1..BufferInstructions - 1, b % 4 = 1
  PROVE  NextSlot(b) \in 0..BufferInstructions - 1 /\ NextSlot(b) % 4 = 0
  <1>1. b + 3 <= BufferInstructions /\ (b + 3) % 4 = 0
    OBVIOUS
  <1>2. CASE b + 3 = BufferInstructions
    <2>1. BufferInstructions % BufferInstructions = 0
      OBVIOUS
    <2>. QED
      BY <1>2, <2>1 DEF NextSlot
  <1>3. CASE b + 3 < BufferInstructions
    <2>1. (b + 3) % BufferInstructions = b + 3
      BY <1>3
    <2>. QED
      BY <1>1, <1>3, <2>1 DEF NextSlot
  <1>. QED
    BY <1>1, <1>2, <1>3

(* setupDMA () fills the set of instructions from any count it can find.    *)
LEMMA PagesFill ==
  ASSUME NEW c \in {0} \cup SetUp
  PROVE  c + PerPage * Pages(c) \in SetUp
  <1>1. CASE c >= SetUpInstructions
    <2>1. Pages(c) = 0
      BY <1>1 DEF Pages, SetUp
    <2>2. PerPage * 0 = 0 /\ c \in SetUp
      BY <1>1 DEF SetUp
    <2>. QED
      BY <2>1, <2>2 DEF SetUp
  <1>2. CASE c < SetUpInstructions
    <2>1. c = 0
      BY <1>2 DEF SetUp
    <2> DEFINE a == SetUpInstructions + PerPage - 1
               q == a \div PerPage
    <2>2. a \in Nat /\ q \in Nat /\ PerPage * q <= a /\ a < PerPage * q + PerPage
      OBVIOUS
    <2>3. Pages(c) = q
      BY <1>2, <2>1 DEF Pages
    <2>4. PerPage * q \in Nat
      BY <2>2
    <2> HIDE DEF q
    <2>. QED
      BY <2>1, <2>2, <2>3, <2>4 DEF SetUp
  <1>. QED
    BY <1>1, <1>2 DEF SetUp

-----------------------------------------------------------------------------
LEMMA InitIInv == Init => IInv
  <1> SUFFICES ASSUME Init PROVE IInv
    OBVIOUS
  <1>1. TypeOK
    BY DEF Init, TypeOK, Mods, Levels
  <1>2. SlotInv
    BY DEF Init, SlotInv
  <1>3. InstrInv
    BY DEF Init, InstrInv, PlayPcs
  <1>4. AskInv
    BY DEF Init, AskInv, AskPcs
  <1>. QED
    BY <1>1, <1>2, <1>3, <1>4 DEF IInv

LEMMA NextIInv == IInv /\ [Next]_vars => IInv'
  <1> SUFFICES ASSUME IInv, [Next]_vars PROVE IInv'
    OBVIOUS
  <1> USE DEF IInv, AskPcs, PlayPcs, Mods, Levels
  <1>1. CASE Run
    <2>1. TypeOK'
      BY <1>1 DEF Run, clock, TypeOK
    <2>2. SlotInv'
      BY <1>1 DEF Run, clock, TypeOK, SlotInv
    <2>3. InstrInv'
      BY <1>1 DEF Run, clock, TypeOK, InstrInv
    <2>4. AskInv'
      BY <1>1 DEF Run, clock, TypeOK, AskInv
    <2>. QED
      BY <2>1, <2>2, <2>3, <2>4
  <1>2. CASE Signal
    BY <1>2 DEF Signal, selected, source, stdin, local, dma, ask, clock,
                TypeOK, SlotInv, InstrInv, AskInv
  <1>3. CASE ModSelect
    BY <1>3 DEF ModSelect, source, stdin, local, dma, ask, clock,
                TypeOK, SlotInv, InstrInv, AskInv
  <1>4. CASE PlayAm
    BY <1>4 DEF PlayAm, selected, source, stdin, local, dma, ask, clock,
                TypeOK, SlotInv, InstrInv, AskInv
  <1>5. CASE SetupFm
    <2>1. TypeOK'
      BY <1>5 DEF SetupFm, selected, source, stdin, local, ask, clock, TypeOK
    <2>2. SlotInv'
      BY <1>5 DEF SetupFm, selected, source, stdin, local, ask, clock, TypeOK,
                  SlotInv
    <2>3. InstrInv'
      BY <1>5 DEF SetupFm, selected, source, stdin, local, ask, clock, TypeOK,
                  InstrInv
    <2>4. AskInv'
      BY <1>5 DEF SetupFm, selected, source, stdin, local, ask, clock, TypeOK,
                  AskInv
    <2>. QED
      BY <2>1, <2>2, <2>3, <2>4
  <1>6. CASE SetupDMA
    <2>1. instrCnt' \in SetUp /\ instrCnt' \in Nat
      BY <1>6, PagesFill DEF SetupDMA, InstrInv, SetUp
    <2>. QED
      BY <1>6, <2>1 DEF SetupDMA, selected, source, stdin, local, ask, clock,
                        TypeOK, SlotInv, InstrInv, AskInv
  <1>7. CASE Header
    BY <1>7 DEF Header, selected, source, dma, ask, clock,
                TypeOK, SlotInv, InstrInv, AskInv
  <1>8. CASE Read
    <2>1. TypeOK'
      BY <1>8 DEF Read, Got, ReadFollows, readBytes, selected, source, dma,
                  ask, clock, TypeOK
    <2>2. SlotInv'
      BY <1>8 DEF Read, Got, ReadFollows, readBytes, selected, source, dma,
                  ask, clock, TypeOK, SlotInv
    <2>3. InstrInv'
      BY <1>8 DEF Read, Got, ReadFollows, readBytes, selected, source, dma,
                  ask, clock, TypeOK, InstrInv
    <2>4. AskInv'
      BY <1>8 DEF Read, Got, ReadFollows, readBytes, selected, source, dma,
                  ask, clock, TypeOK, AskInv
    <2>. QED
      BY <2>1, <2>2, <2>3, <2>4
  <1>9. CASE Sample
    BY <1>9 DEF Sample, selected, source, stdin, local, dma, ask, clock,
                TypeOK, SlotInv, InstrInv, AskInv
  <1>10. CASE Spin
    <2>1. CASE pc' = "read" /\ bufPtr' = NextSlot(bufPtr)
      <3>1. bufPtr' \in 0..BufferInstructions - 1 /\ bufPtr' % 4 = 0
        BY <1>10, <2>1, NextSlotInBuffer DEF Spin, SlotInv
      <3>. QED
        BY <1>10, <2>1, <3>1 DEF Spin, selected, source, stdin, local, dma,
             ask, clock, TypeOK, SlotInv, InstrInv, AskInv
    <2>2. CASE UNCHANGED <<pc, bufPtr>>
      BY <1>10, <2>2 DEF Spin, selected, source, stdin, local, dma, ask, clock,
                         TypeOK, SlotInv, InstrInv, AskInv
    <2>. QED
      BY <1>10, <2>1, <2>2 DEF Spin
  <1>11. CASE Close
    <2>1. TypeOK'
      BY <1>11 DEF Close, selected, source, dma, ask, clock, TypeOK
    <2>2. SlotInv'
      BY <1>11 DEF Close, selected, source, dma, ask, clock, TypeOK, SlotInv
    <2>3. InstrInv'
      BY <1>11 DEF Close, selected, source, dma, ask, clock, TypeOK, InstrInv
    <2>4. AskInv'
      BY <1>11 DEF Close, selected, source, dma, ask, clock, TypeOK, AskInv
    <2>. QED
      BY <2>1, <2>2, <2>3, <2>4
  <1>12. CASE SendStringAsk
    BY <1>12 DEF SendStringAsk, NextByte, selected, source, stdin, local, dma,
                 clock, TypeOK, SlotInv, InstrInv, AskInv
  <1>13. CASE WriteCarrier
    <2>1. TypeOK'
      BY <1>13 DEF WriteCarrier, selected, source, stdin, local, dma, ask,
                   TypeOK
    <2>2. SlotInv'
      BY <1>13 DEF WriteCarrier, selected, source, stdin, local, dma, ask,
                   TypeOK, SlotInv
    <2>3. InstrInv'
      BY <1>13 DEF WriteCarrier, selected, source, stdin, local, dma, ask,
                   TypeOK, InstrInv
    <2>4. AskInv'
      BY <1>13 DEF WriteCarrier, selected, source, stdin, local, dma, ask,
                   TypeOK, AskInv
    <2>. QED
      BY <2>1, <2>2, <2>3, <2>4
  <1>14. CASE CarrierSettled
    <2>1. TypeOK'
      BY <1>14 DEF CarrierSettled, NextByte, AfterByte, selected, source,
                   stdin, local, dma, clock, TypeOK, AskInv
    <2>2. SlotInv'
      BY <1>14 DEF CarrierSettled, NextByte, AfterByte, selected, source,
                   stdin, local, dma, clock, TypeOK, SlotInv
    <2>3. InstrInv'
      BY <1>14 DEF CarrierSettled, NextByte, AfterByte, selected, source,
                   stdin, local, dma, clock, TypeOK, InstrInv
    <2>4. AskInv'
      BY <1>14 DEF CarrierSettled, NextByte, AfterByte, selected, source,
                   stdin, local, dma, clock, TypeOK, AskInv
    <2>. QED
      BY <2>1, <2>2, <2>3, <2>4
  <1>15. CASE ClockFollows
    BY <1>15 DEF ClockFollows, selected, source, stdin, local, dma, ask,
                 TypeOK, SlotInv, InstrInv, AskInv
  <1>16. CASE UNCHANGED vars
    BY <1>16 DEF vars, selected, source, stdin, local, dma, ask, clock,
                 TypeOK, SlotInv, InstrInv, AskInv
  <1>. QED
    BY <1>1, <1>2, <1>3, <1>4, <1>5, <1>6, <1>7, <1>8, <1>9, <1>10, <1>11,
       <1>12, <1>13, <1>14, <1>15, <1>16 DEF Next, PlayFm, Ask

LEMMA InvAlways == Spec => []IInv
  BY InitIInv, NextIInv, PTL DEF Spec

-----------------------------------------------------------------------------
(* Every variable keeps to its values, for buffers and strings of any size. *)
THEOREM TypeOKAlways == Spec => []TypeOK
  <1>1. IInv => TypeOK
    BY DEF IInv
  <1>. QED
    BY <1>1, InvAlways, PTL

(* play_fm waits only on entries of instrs, for every size that is a        *)
(* multiple of four.                                                        *)
THEOREM SlotInBufferAlways == Spec => []SlotInBuffer
  <1>1. IInv => SlotInBuffer
    BY DEF IInv, SlotInv, SlotInBuffer
  <1>. QED
    BY <1>1, InvAlways, PTL

(* A sample is computed only at the end of the input (line 2524).           *)
THEOREM PlayedInputHasEndedAlways == Spec => []PlayedInputHasEnded
  <1>1. IInv => PlayedInputHasEnded
    BY DEF IInv, SlotInv, PlayedInputHasEnded
  <1>. QED
    BY <1>1, InvAlways, PTL

(* A process that played a sample never comes to close the file.            *)
THEOREM ClosedUnplayedAlways == Spec => []ClosedUnplayed
  <1>1. IInv => ClosedUnplayed
    BY DEF IInv, SlotInv, ClosedUnplayed
  <1>. QED
    BY <1>1, InvAlways, PTL

(* play_fm finds one full set of instructions, whatever the page size.      *)
THEOREM InstructionsSetUpOnceAlways == Spec => []InstructionsSetUpOnce
  <1>1. IInv => InstructionsSetUpOnce
    BY DEF IInv, InstrInv, InstructionsSetUpOnce, SetUp
  <1>. QED
    BY <1>1, InvAlways, PTL

(* Only the first and the tenth byte of a string are sent, whatever its     *)
(* length.                                                                  *)
THEOREM FirstAndTenthByteAlways == Spec => []FirstAndTenthByte
  <1>1. IInv => FirstAndTenthByte
    BY DEF IInv, AskInv, FirstAndTenthByte
  <1>. QED
    BY <1>1, InvAlways, PTL

(* sendStringAsk returns with the carrier off and settled.                  *)
THEOREM AskLeavesCarrierOffAlways == Spec => AskLeavesCarrierOff
  <1>1. IInv /\ [Next]_vars =>
          [(pc \in AskPcs /\ pc' = "idle") =>
             (carrier' = "low" /\ busy' = "low")]_vars
    <2> SUFFICES ASSUME IInv, Next, pc \in AskPcs, pc' = "idle"
                 PROVE  carrier' = "low" /\ busy' = "low"
      OBVIOUS
    <2>1. CarrierSettled
      BY DEF Next, Run, Signal, ModSelect, PlayAm, SetupFm, SetupDMA, PlayFm,
             Header, Read, Sample, Spin, Close, Ask, SendStringAsk,
             WriteCarrier, ClockFollows, AskPcs
    <2>2. phase = "last" /\ busy = carrier
      BY <2>1 DEF CarrierSettled, Settled, IInv, TypeOK
    <2>. QED
      BY <2>1, <2>2 DEF CarrierSettled, clock, IInv, AskInv, AskPcs
  <1>. QED
    BY <1>1, InvAlways, PTL DEF Spec, AskLeavesCarrierOff

=============================================================================
