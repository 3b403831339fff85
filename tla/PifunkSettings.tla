--------------------------- MODULE PifunkSettings ---------------------------
(***************************************************************************)
(* The other dialogues of pifunk.c beside those of PifunkChannel: GPIO,    *)
(* DMA channel, bandwidth, modulation, callsign and power, the file and    *)
(* type selection, the menu with its CSV copy and Morse prompt, and the    *)
(* assistant.  All of them read the one standard input, so a text that     *)
(* jams one dialogue waits for the next.  The bandwidth is read with       *)
(* scanf ("%f"); callsign, message and file name are read with             *)
(* scanf ("%s"), which takes any text away.                                *)
(*                                                                         *)
(* Bandwidths are in hundredths of a kHz; one that is no number ("nan") is *)
(* unknown like any other.  What is printed, and the characters of         *)
(* callsign and message, are left out.                                     *)
(***************************************************************************)
EXTENDS PifunkChannel

CONSTANTS Typed    (* numbers users type at each prompt for a setting       *)

Settings ==
  {"gpiopin", "dmachannel", "bandwidth", "powerlevel", "freqmode",
   "callnameselect", "menuoption"}

ASSUME SettingsAssumption == Typed \in [Settings -> SUBSET Int]

VARIABLES
  setting,     (* the variable behind each prompt                           *)
  mod, power, callsign

settingVars == <<setting, mod, power, callsign>>
tuningVars  == <<answers, freq, subfreq, tunedBy>>
allVars     == <<pc, front, tuningVars, settingVars>>

SInit ==
  /\ Init
  /\ setting = [s \in Settings |-> 0]
  /\ mod = "none" /\ power = 0
  /\ callsign = "none"

-----------------------------------------------------------------------------
INT_MIN == -2147483647 - 1
DEVIATION == 1250

(* Mutant: an unknown DMA channel is kept.                                  *)
Checked_KeepsDma(s, v) ==
  IF s = "bandwidth" /\ v \notin {625, 1000, 1250, 2000, 2500} THEN DEVIATION ELSE v

(* What a dialogue makes of the number its variable holds.  gpioselect ()   *)
(* takes any: the condition of its third branch is always true.             *)
Checked(s, v) ==
  CASE s = "dmachannel" /\ v \notin {7, 14, 255} -> 14
    [] s = "bandwidth" /\ v \notin {625, 1000, 1250, 2000, 2500} -> DEVIATION
    [] OTHER -> v

(* abs (), of which the smallest integer is a fixed point.                  *)
Abs(v) == IF v < 0 /\ v # INT_MIN THEN -v ELSE v

(* modulationselect ().                                                     *)
Modulation(v) == IF v = 2 THEN "am" ELSE "fm"

Call(dialogue) ==
  /\ pc = "idle"
  /\ pc' = dialogue
  /\ UNCHANGED <<front, tuningVars, settingVars>>

(* Where a dialogue goes after its number.                                  *)
After(s, v) ==
  CASE s = "callnameselect" /\ v = 1 -> "callsign"
    [] s = "menuoption" /\ v = 1     -> "csvreader"
    [] s = "menuoption" /\ v = 2     -> "cw"
    [] s = "menuoption" /\ v = 4     -> "exited"
    [] s = "freqmode" /\ v = 3       -> "exited"
    [] OTHER                         -> "idle"

Conversion(s) == IF s = "bandwidth" THEN "%f" ELSE "%d"

(* Mutant: the variable is cleared before it is asked for.                  *)
SelectNumber_Clears(s) ==
  /\ pc = s
  /\ \E in \in Scan(Conversion(s), 0, Typed[s]) :
       LET v == Checked(s, in.value)
       IN /\ setting' = [setting EXCEPT ![s] = v]
          /\ front' = in.front
          /\ pc' = After(s, v)
          /\ power' = IF s = "powerlevel" THEN Abs(v) ELSE power
          /\ mod' = IF s = "freqmode" /\ v # 3 THEN Modulation(v) ELSE mod
          /\ callsign' = IF s = "callnameselect" /\ v # 1 THEN "callsign" ELSE callsign
  /\ UNCHANGED tuningVars

(* gpioselect (), dmaselect (), bandwidthselect (), powerselect (),         *)
(* modulationselect (), and the first prompts of callsignselect () and      *)
(* menu ().                                                                 *)
SelectNumber(s) ==
  /\ pc = s
  /\ \E in \in Scan(Conversion(s), setting[s], Typed[s]) :
       LET v == Checked(s, in.value)
       IN /\ setting' = [setting EXCEPT ![s] = v]
          /\ front' = in.front
          /\ pc' = After(s, v)
          /\ power' = IF s = "powerlevel" THEN Abs(v) ELSE power
          /\ mod' = IF s = "freqmode" /\ v # 3 THEN Modulation(v) ELSE mod
          /\ callsign' = IF s = "callnameselect" /\ v # 1 THEN "callsign" ELSE callsign
  /\ UNCHANGED tuningVars

(* scanf ("%s") takes the word that jams stdin, or else a new one; more     *)
(* text may follow it.                                                      *)
TakeWord == front' \in Fronts

(* callsignselect (): the word is stored where the pointer callsign is.     *)
CallsignWord ==
  /\ pc = "callsign"
  /\ TakeWord
  /\ callsign' = "word"
  /\ pc' = "idle"
  /\ UNCHANGED <<tuningVars, setting, mod, power>>

(* cw (): the message is only played.                                       *)
CwWord ==
  /\ pc = "cw"
  /\ TakeWord
  /\ pc' = "idle"
  /\ UNCHANGED <<tuningVars, settingVars>>

(* fileselect (), alone or as the first dialogue of assistant (): the word  *)
(* is stored in the parameter filename, which is then written through.      *)
FileWord ==
  /\ pc = "fileselect"
  /\ TakeWord
  /\ pc' = "crashed"
  /\ UNCHANGED <<tuningVars, settingVars>>

(* typeselect () compares type as a string with the address 1.              *)
TypeSelect ==
  /\ pc = "idle"
  /\ pc' = "crashed"
  /\ UNCHANGED <<front, tuningVars, settingVars>>

(* csvreader () copies ctsspmr.csv if it is there; else feof () gets the    *)
(* null pointer.                                                            *)
CsvReader ==
  /\ pc = "csvreader"
  /\ pc' \in {"idle", "crashed"}
  /\ UNCHANGED <<front, tuningVars, settingVars>>

SNext ==
  \/ Next /\ UNCHANGED settingVars
  \/ \E dialogue \in Settings \cup {"fileselect"} : Call(dialogue)
  \/ \E s \in Settings : SelectNumber(s)
  \/ CallsignWord \/ CwWord \/ FileWord \/ TypeSelect \/ CsvReader

SSpec == SInit /\ [][SNext]_allVars

-----------------------------------------------------------------------------
TextPrompts == {"callsign", "cw", "fileselect"}

(* DMA channel, bandwidth and modulation are always ones that can be used,  *)
(* whatever was typed or jams; the power is never negative, but for the     *)
(* smallest integer.  Nothing of the kind holds of the GPIO.                *)
STypeOK ==
  /\ pc \in Prompts \cup Settings \cup TextPrompts
             \cup {"csvreader", "idle", "exited", "crashed"}
  /\ front \in Fronts
  /\ \A s \in Settings : setting[s] \in Typed[s] \cup {0, 14, DEVIATION}
  /\ setting["dmachannel"] \in {0, 7, 14, 255}
  /\ setting["bandwidth"] \in {0, 625, 1000, 1250, 2000, 2500}
  /\ mod \in {"none", "fm", "am"}
  /\ power >= 0 \/ power = INT_MIN
  /\ callsign \in {"none", "callsign", "word"}

(* A text that is no whole number leaves stdin only where a word is asked   *)
(* for, and then it is the callsign, the Morse message or the file name, in *)
(* whatever dialogue it was typed; a "float" text also at one of the two    *)
(* prompts that read %f, and a "sign" wears off.  Until then dialogues      *)
(* change nothing but what was never set: each works on the answer it had   *)
(* before, except the bandwidth, which may be read from the text.  Only the *)
(* callsign can change, into the text, when the answer before asked for a   *)
(* custom one.                                                              *)
JamKeepsSettings ==
  [][front # "open" =>
       /\ front' # front => \/ pc \in TextPrompts
                            \/ front = "float" /\ pc \in {"freq", "bandwidth"}
                            \/ front = "sign"
       /\ \A s \in Settings :
            setting'[s] # setting[s] =>
              setting[s] = 0 \/ (s = "bandwidth" /\ front # "word")
       /\ mod' # mod => mod = "none"
       /\ power' = power
       /\ callsign' # callsign =>
            callsign = "none" \/ (setting["callnameselect"] = 1 /\ ~(callsign' = "callsign"))
    ]_allVars

=============================================================================
