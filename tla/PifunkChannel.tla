---------------------------- MODULE PifunkChannel ----------------------------
(***************************************************************************)
(* The tuning dialogue of pifunk.c: modetypeselect () and the functions it *)
(* calls (freqselect, channelselect, channelmodepmr with its analog and    *)
(* digital tables, channelmodecb), and subchannelmodepmr ().               *)
(*                                                                         *)
(* Every answer is read with scanf ("%d"), the frequency with scanf        *)
(* ("%f"), whose result is not tested: a text the conversion does not take *)
(* leaves the variable as it was and stays in front of stdin, where the    *)
(* next prompt finds it.                                                   *)
(*                                                                         *)
(* Frequencies are in Hz, tones in tenths of a Hz.  freq is a C float: its *)
(* rounding, below 31 Hz here, is abstracted.                              *)
(***************************************************************************)
EXTENDS Integers, Sequences, FiniteSets

CONSTANTS
  Choices,      (* numbers users type at a prompt for a mode, band or type  *)
  Numbers,      (* numbers users type at a prompt for a channel             *)
  Frequencies   (* what %f makes of texts users type: frequencies in Hz, or *)
                (* a value that is no number ("nan")                        *)

ASSUME ChannelAssumption ==
  /\ Choices \subseteq Int
  /\ Numbers \subseteq Int

VARIABLES
  pc,           (* "idle" or the prompt that waits for an answer            *)
  front,        (* the text in front of stdin                               *)
  modeselect, channelmode, type,                       (* answers *)
  channelnumberpmr, channelnumbercb, subchannelnumberpmr,
  freq, subfreq,                                       (* what is tuned *)
  tunedBy       (* the table freq was last taken from                       *)

answers == <<modeselect, channelmode, type, channelnumberpmr,
             channelnumbercb, subchannelnumberpmr>>
vars == <<pc, front, answers, freq, subfreq, tunedBy>>

-----------------------------------------------------------------------------
(* The tables.                                                              *)

PmrAnalog ==
  [n \in 0..17 |->
     CASE n = 0       -> 446000000
       [] n \in 1..8  -> 446006250 + 12500 * (n - 1)
       [] n = 9       -> 446103120
       [] n \in 10..17 -> 446106250 + 12500 * (n - 10)]

(* Mutant: the analog channel spacing.                                      *)
PmrDigital_Wide ==
  [n \in 0..32 |-> IF n = 0 THEN 446000000 ELSE 446003125 + 12500 * (n - 1)]

PmrDigital ==
  [n \in 0..32 |-> IF n = 0 THEN 446000000 ELSE 446003125 + 6250 * (n - 1)]

CbNumbers == 0..80 \cup {1111, 1515, 1919}

(* Mutant: one run of 10 kHz steps, without the gaps at 3, 7, 11, 15, 19.   *)
Cb_NoGaps ==
  [n \in CbNumbers |-> 1000 *
     CASE n = 0        -> 27045
       [] n \in 1..22  -> 26965 + 10 * (n - 1)
       [] n \in 23..40 -> 27235 + 10 * (n - 23)
       [] n \in 41..60 -> 27565 + 10 * (n - 41)
       [] n \in 61..80 -> 26765 + 10 * (n - 61)
       [] OTHER        -> 27095]

Cb ==
  [n \in CbNumbers |-> 1000 *
     CASE n = 0        -> 27045
       [] n \in 1..3   -> 26965 + 10 * (n - 1)
       [] n \in 4..7   -> 27005 + 10 * (n - 4)
       [] n \in 8..11  -> 27055 + 10 * (n - 8)
       [] n = 1111     -> 27095
       [] n \in 12..15 -> 27105 + 10 * (n - 12)
       [] n = 1515     -> 27145
       [] n \in 16..19 -> 27155 + 10 * (n - 16)
       [] n = 1919     -> 27195
       [] n \in 20..22 -> 27205 + 10 * (n - 20)
       [] n = 23       -> 27255
       [] n \in 24..25 -> 27235 + 10 * (n - 24)
       [] n \in 26..40 -> 27265 + 10 * (n - 26)
       [] n \in 41..60 -> 27565 + 10 * (n - 41)
       [] n \in 61..80 -> 26765 + 10 * (n - 61)]

Ctss ==
  <<670, 719, 744, 770, 797, 825, 854, 885, 915, 948, 974, 1000, 1035, 1072,
    1109, 1148, 1188, 1230, 1273, 1318, 1365, 1413, 1462, 1514, 1567, 1622,
    1679, 1738, 1799, 1862, 1928, 2035, 2107, 2181, 2257, 2336, 2418, 2503,
    693, 1598, 1655, 1713, 1773, 1835, 1899, 1966, 1995, 2065, 2291, 2541>>

Tone(n) == IF n = 0 THEN 0 ELSE IF n \in 1..50 THEN Ctss[n] ELSE 670

(* switch (channelnumber): the table, and channel 1 for all other numbers.  *)
Tuned(table, n) == IF n \in DOMAIN table THEN table[n] ELSE table[1]

-----------------------------------------------------------------------------
Init ==
  /\ pc = "idle"
  /\ front = "open"
  /\ modeselect = 0 /\ channelmode = 0 /\ type = 0
  /\ channelnumberpmr = 0 /\ channelnumbercb = 0 /\ subchannelnumberpmr = 0
  /\ freq = 0 /\ subfreq = 0
  /\ tunedBy = "nothing"

(* What may stand in front of stdin, white space aside.                     *)
(*   "open"   nothing, or a number: every prompt gets an answer             *)
(*   "float"  %f takes it, or its first characters, and %d none of them     *)
(*            (".5", "nan", "no")                                           *)
(*   "sign"   a sign and no digit: %d takes the sign and fails ("-x")       *)
(*   "word"   neither takes a character ("x")                               *)
Fronts == {"open", "float", "sign", "word"}

Read(v, rest)   == [value |-> v, read |-> TRUE, front |-> rest]
Miss(old, rest) == [value |-> old, read |-> FALSE, front |-> rest]

(* A number is read, or the text fails, and anything may be left behind it: *)
(* ".5" of "12.5" for %d, a second answer, the word that failed.            *)
Free(old, inputs) ==
  {Read(v, rest) : v \in inputs, rest \in Fronts}
    \cup {Miss(old, rest) : rest \in Fronts}

(* Mutant: a prompt clears what an earlier answer left in stdin.            *)
Scan_Flushes(conversion, old, inputs) == Free(old, inputs)

(* What one scanf ("%d") or scanf ("%f") can do.  stdin does not end.       *)
Scan(conversion, old, inputs) ==
  CASE front = "word"                       -> {Miss(old, "word")}
    [] front = "float" /\ conversion = "%d" -> {Miss(old, "float")}
    [] front = "sign" /\ conversion = "%d"  -> {Miss(old, rest) : rest \in Fronts}
    [] OTHER                                -> Free(old, inputs)

(* modetypeselect () and subchannelmodepmr () are called.                   *)
Start ==
  /\ pc = "idle"
  /\ pc' \in {"mode", "sub"}
  /\ UNCHANGED <<front, answers, freq, subfreq, tunedBy>>

ModeTypeSelect ==
  /\ pc = "mode"
  /\ \E in \in Scan("%d", modeselect, Choices) :
       /\ modeselect' = in.value
       /\ front' = in.front
       /\ pc' = IF in.value = 2 THEN "freq" ELSE "band"
  /\ UNCHANGED <<channelmode, type, channelnumberpmr, channelnumbercb,
                 subchannelnumberpmr, freq, subfreq, tunedBy>>

FreqSelect ==
  /\ pc = "freq"
  /\ \E in \in Scan("%f", freq, Frequencies) :
       /\ freq' = in.value
       /\ front' = in.front
       /\ tunedBy' = IF in.read THEN "user" ELSE tunedBy
  /\ pc' = "idle"
  /\ UNCHANGED <<answers, subfreq>>

ChannelSelect ==
  /\ pc = "band"
  /\ \E in \in Scan("%d", channelmode, Choices) :
       /\ channelmode' = in.value
       /\ front' = in.front
       /\ pc' = IF in.value = 2 THEN "cb" ELSE "pmr"
  /\ UNCHANGED <<modeselect, type, channelnumberpmr, channelnumbercb,
                 subchannelnumberpmr, freq, subfreq, tunedBy>>

(* Mutant: the digital table is never asked.                                *)
AfterPmrType_NoDigital(t) == IF t = 1 THEN "analog" ELSE "idle"

(* An unknown type becomes 1 without asking for a channel.                  *)
AfterPmrType(t) == CASE t = 1 -> "analog" [] t = 2 -> "digital" [] OTHER -> "idle"

(* Mutant: the unknown type is kept.                                       *)
ChannelModePmr_KeepsType ==
  /\ pc = "pmr"
  /\ \E in \in Scan("%d", type, Choices) :
       /\ type' = in.value
       /\ front' = in.front
       /\ pc' = AfterPmrType(in.value)
  /\ UNCHANGED <<modeselect, channelmode, channelnumberpmr, channelnumbercb,
                 subchannelnumberpmr, freq, subfreq, tunedBy>>

ChannelModePmr ==
  /\ pc = "pmr"
  /\ \E in \in Scan("%d", type, Choices) :
       /\ type' = IF in.value \in {1, 2} THEN in.value ELSE 1
       /\ front' = in.front
       /\ pc' = AfterPmrType(in.value)
  /\ UNCHANGED <<modeselect, channelmode, channelnumberpmr, channelnumbercb,
                 subchannelnumberpmr, freq, subfreq, tunedBy>>

(* Number 18 (analog) and 33 (digital) leave the program.                   *)
ChannelModePmrTable(prompt, table) ==
  /\ pc = prompt
  /\ \E in \in Scan("%d", channelnumberpmr, Numbers) :
       /\ channelnumberpmr' = in.value
       /\ front' = in.front
       /\ IF in.value = Cardinality(DOMAIN table)
          THEN pc' = "exited" /\ UNCHANGED <<freq, tunedBy>>
          ELSE pc' = "idle" /\ freq' = Tuned(table, in.value) /\ tunedBy' = prompt
  /\ UNCHANGED <<modeselect, channelmode, type, channelnumbercb,
                 subchannelnumberpmr, subfreq>>

ChannelModePmrAnalog  == ChannelModePmrTable("analog", PmrAnalog)
ChannelModePmrDigital == ChannelModePmrTable("digital", PmrDigital)

ChannelModeCb ==
  /\ pc = "cb"
  /\ \E in \in Scan("%d", channelnumbercb, Numbers) :
       /\ channelnumbercb' = in.value
       /\ front' = in.front
       /\ IF in.value = 81
          THEN pc' = "exited" /\ UNCHANGED <<freq, tunedBy>>
          ELSE pc' = "idle" /\ freq' = Tuned(Cb, in.value) /\ tunedBy' = "cb"
  /\ UNCHANGED <<modeselect, channelmode, type, channelnumberpmr,
                 subchannelnumberpmr, subfreq>>

SubchannelModePmr ==
  /\ pc = "sub"
  /\ \E in \in Scan("%d", subchannelnumberpmr, Numbers) :
       /\ subchannelnumberpmr' = in.value
       /\ front' = in.front
       /\ IF in.value = 51 THEN pc' = "exited" /\ UNCHANGED subfreq
                        ELSE pc' = "idle" /\ subfreq' = Tone(in.value)
  /\ UNCHANGED <<modeselect, channelmode, type, channelnumberpmr,
                 channelnumbercb, freq, tunedBy>>

Next ==
  \/ Start \/ ModeTypeSelect \/ FreqSelect \/ ChannelSelect \/ ChannelModePmr
  \/ ChannelModePmrAnalog \/ ChannelModePmrDigital \/ ChannelModeCb
  \/ SubchannelModePmr

Spec == Init /\ [][Next]_vars

-----------------------------------------------------------------------------
Prompts == {"mode", "freq", "band", "pmr", "analog", "digital", "cb", "sub"}

Tones == {0} \cup {Ctss[k] : k \in DOMAIN Ctss}

(* Where a dialogue stands is left to PifunkSettings.                       *)
TypeOK ==
  /\ front \in Fronts
  /\ {modeselect, channelmode} \subseteq Choices \cup {0}
  /\ type \in {0, 1, 2}
  /\ {channelnumberpmr, channelnumbercb, subchannelnumberpmr}
       \subseteq Numbers \cup {0}
  /\ freq \in Int \cup Frequencies
  /\ subfreq \in Tones
  /\ tunedBy \in {"nothing", "user", "analog", "digital", "cb"}

(* Between two dialogues the radio is never on an analog channel while type *)
(* says digital: every path that sets type to 2 goes on to the digital      *)
(* table or out of the program.                                             *)
AnalogTuningMeansTypeOne ==
  pc \notin {"digital", "exited"} /\ tunedBy = "analog" => type = 1

(* A frequency taken from a table lies in that table's band: PMR446 ends at *)
(* 446.2 MHz, the CB bands used are 26.765-27.405 and 27.565-27.755 MHz.    *)
TunedInBand ==
  /\ tunedBy \in {"analog", "digital"} => freq >= 446000000 /\ freq <= 446200000
  /\ tunedBy = "cb" => \/ freq >= 26765000 /\ freq <= 27405000
                       \/ freq >= 27565000 /\ freq <= 27755000

CbRaster ==
  {1000 * (26765 + 10 * k) : k \in (0..64) \ {23}}
    \cup {1000 * (27565 + 10 * k) : k \in 0..19}

CbChannels == {Cb[n] : n \in CbNumbers}

(* A CB frequency names its channel: no other number of the table stands    *)
(* for it, and stepping through the table from there misses no raster point *)
(* of the two bands but 26.995 MHz, whose gap channel is not in the table.  *)
CbFrequencyNamesChannel ==
  tunedBy = "cb" =>
    /\ CbChannels = CbRaster
    /\ channelnumbercb \in CbNumbers =>
         {n \in CbNumbers : Cb[n] = freq} = {channelnumbercb}

(* While a text stands in front of stdin that is no whole number, no %d     *)
(* prompt takes an answer: the user is not asked, and the tables are        *)
(* entered with the numbers of earlier dialogues.  The frequency prompt may *)
(* take the text as an answer to a question it was not typed for, if it is  *)
(* no word.                                                                 *)
JamTakesNoAnswer ==
  [][front # "open" =>
       /\ UNCHANGED <<modeselect, channelmode, channelnumberpmr,
                      channelnumbercb, subchannelnumberpmr>>
       /\ type' # type => type' = 1
       /\ tunedBy' = "user" /\ freq' # freq => pc = "freq" /\ front # "word"
    ]_vars

=============================================================================
