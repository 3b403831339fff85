-------------------------- MODULE MCPifunkSettings --------------------------
(***************************************************************************)
(* All dialogues on one standard input, for TLC.  The variables behind     *)
(* the prompts are independent of each other but for what is left in       *)
(* stdin, so a run answers only MaxAnswered of them, in every combination  *)
(* and as often as it likes.                                               *)
(***************************************************************************)
EXTENDS PifunkSettings

CONSTANT MaxAnswered   (* bound: the variables that hold an answer          *)

(* For each prompt: numbers of different outcome, unknown ones among them.  *)
MCTyped ==
  [s \in Settings |->
     CASE s = "gpiopin"        -> {99}
       [] s = "dmachannel"     -> {8}
       [] s = "bandwidth"      -> {700}
       [] s = "powerlevel"     -> {INT_MIN}
       [] s = "freqmode"       -> {2, 3}
       [] s = "callnameselect" -> {1, 2}
       [] s = "menuoption"     -> {1, 2, 4}]

One(value) == IF value = 0 THEN 0 ELSE 1

Answered ==
  One(modeselect) + One(channelmode) + One(type) + One(channelnumberpmr)
    + One(channelnumbercb) + One(subchannelnumberpmr)
    + Cardinality({s \in Settings : setting[s] # 0})

FewAnswers == Answered <= MaxAnswered

=============================================================================
