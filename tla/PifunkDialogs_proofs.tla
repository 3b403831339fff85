------------------------ MODULE PifunkDialogs_proofs ------------------------
(***************************************************************************)
(* What the tuning dialogue and the dialogues for the other parameters     *)
(* keep for answers of every kind: any numbers, any order of the           *)
(* dialogues, stdin jammed at any point.                                   *)
(***************************************************************************)
EXTENDS PifunkSettings, TLAPS

(* Where a dialogue stands agrees with the type it was entered with.        *)
TypeInv ==
  /\ pc = "analog" => type = 1
  /\ pc = "digital" => type = 2
  /\ AnalogTuningMeansTypeOne

(* The bands the tables may tune.                                           *)
PmrBand == {f \in Int : f >= 446000000 /\ f <= 446200000}
CbBand == {f \in Int : \/ f >= 26765000 /\ f <= 27405000
                       \/ f >= 27565000 /\ f <= 27755000}

-----------------------------------------------------------------------------
(* The tables and their default stay in the band, whatever number is asked. *)

LEMMA PmrAnalogInBand == \A n : Tuned(PmrAnalog, n) \in PmrBand
  <1>1. DOMAIN PmrAnalog = 0..17
    BY DEF PmrAnalog
  <1>2. ASSUME NEW n \in 0..17 PROVE PmrAnalog[n] \in PmrBand
    BY DEF PmrAnalog, PmrBand
  <1>. QED
    BY <1>1, <1>2 DEF Tuned

LEMMA PmrDigitalInBand == \A n : Tuned(PmrDigital, n) \in PmrBand
  <1>1. DOMAIN PmrDigital = 0..32
    BY DEF PmrDigital
  <1>2. ASSUME NEW n \in 0..32 PROVE PmrDigital[n] \in PmrBand
    BY DEF PmrDigital, PmrBand
  <1>. QED
    BY <1>1, <1>2 DEF Tuned

LEMMA CbInBand == \A n : Tuned(Cb, n) \in CbBand
  <1>1. DOMAIN Cb = CbNumbers
    BY DEF Cb
  <1>2. ASSUME NEW n \in CbNumbers PROVE Cb[n] \in CbBand
    BY DEF Cb, CbBand, CbNumbers
  <1>3. 1 \in CbNumbers
    BY DEF CbNumbers
  <1>. QED
    BY <1>1, <1>2, <1>3 DEF Tuned

(* What a scanf leaves in its variable.                                     *)
LEMMA ScanValue ==
  ASSUME NEW conversion, NEW old, NEW inputs,
         NEW in \in Scan(conversion, old, inputs)
  PROVE  /\ in.value \in inputs \cup {old}
         /\ in.front \in Fronts
         /\ ~in.read => in.value = old
  <1>1. ASSUME NEW rest \in Fronts, in = Miss(old, rest)
        PROVE  in.value = old /\ in.front \in Fronts
    BY <1>1 DEF Miss
  <1>2. ASSUME NEW v \in inputs, NEW rest \in Fronts, in = Read(v, rest)
        PROVE  in.value \in inputs /\ in.front \in Fronts /\ in.read
    BY <1>2 DEF Read
  <1>3. \/ \E rest \in Fronts : in = Miss(old, rest)
        \/ \E v \in inputs, rest \in Fronts : in = Read(v, rest)
    BY DEF Scan, Free, Fronts
  <1>. QED
    BY <1>1, <1>2, <1>3

(* In front of another text %d reads nothing and changes nothing.           *)
LEMMA JammedScan ==
  ASSUME front \in Fronts, front # "open", NEW old, NEW inputs,
         NEW in \in Scan("%d", old, inputs)
  PROVE  in.value = old /\ (front # "sign" => in.front = front)
  BY DEF Scan, Miss, Fronts

(* A word is read by no conversion of a number.                             *)
LEMMA WordScan ==
  ASSUME front = "word", NEW conversion, NEW old, NEW inputs,
         NEW in \in Scan(conversion, old, inputs)
  PROVE  in.value = old /\ in.front = "word"
  BY DEF Scan, Miss

-----------------------------------------------------------------------------
(* A dialogue that is none of the tuning ones leaves what is tuned alone,   *)
(* and does not end at a prompt of those.                                   *)
Aside ==
  /\ UNCHANGED tuningVars
  /\ pc' = pc \/ (pc \notin {"digital", "exited"} /\ pc' \notin Prompts)

LEMMA StepsApart == ASSUME [SNext]_allVars PROVE [Next]_vars \/ Aside
  <1>1. CASE Next
    BY <1>1
  <1>2. ASSUME NEW dialogue \in Settings \cup {"fileselect"}, Call(dialogue)
        PROVE  Aside
    BY <1>2 DEF Call, Aside, Settings, Prompts
  <1>3. ASSUME NEW s \in Settings, SelectNumber(s) PROVE Aside
    <2>1. pc' \in {"callsign", "csvreader", "cw", "exited", "idle"}
      BY <1>3 DEF SelectNumber, After
    <2>. QED
      BY <1>3, <2>1 DEF SelectNumber, Aside, Settings, Prompts
  <1>4. CASE CallsignWord
    BY <1>4 DEF CallsignWord, Aside, Prompts
  <1>5. CASE CwWord
    BY <1>5 DEF CwWord, Aside, Prompts
  <1>6. CASE FileWord
    BY <1>6 DEF FileWord, Aside, Prompts
  <1>7. CASE TypeSelect
    BY <1>7 DEF TypeSelect, Aside, Prompts
  <1>8. CASE CsvReader
    BY <1>8 DEF CsvReader, Aside, Prompts
  <1>9. CASE UNCHANGED allVars
    BY <1>9 DEF allVars, Aside
  <1>. QED
    BY <1>1, <1>2, <1>3, <1>4, <1>5, <1>6, <1>7, <1>8, <1>9 DEF SNext

LEMMA AsideKeeps ==
  ASSUME Aside
  PROVE  UNCHANGED <<modeselect, channelmode, type, channelnumberpmr,
                     channelnumbercb, subchannelnumberpmr, freq, subfreq, tunedBy>>
  BY DEF Aside, tuningVars, answers

-----------------------------------------------------------------------------
LEMMA NextTypeInv == TypeInv /\ [Next]_vars => TypeInv'
  <1> SUFFICES ASSUME TypeInv, [Next]_vars PROVE TypeInv'
    OBVIOUS
  <1> USE DEF TypeInv, AnalogTuningMeansTypeOne
  <1>1. CASE Start
    BY <1>1 DEF Start, answers
  <1>2. CASE ModeTypeSelect
    BY <1>2 DEF ModeTypeSelect
  <1>3. CASE FreqSelect
    BY <1>3 DEF FreqSelect, answers
  <1>4. CASE ChannelSelect
    BY <1>4 DEF ChannelSelect
  <1>5. CASE ChannelModePmr
    BY <1>5 DEF ChannelModePmr, AfterPmrType
  <1>6. CASE ChannelModePmrAnalog
    BY <1>6 DEF ChannelModePmrAnalog, ChannelModePmrTable
  <1>7. CASE ChannelModePmrDigital
    BY <1>7 DEF ChannelModePmrDigital, ChannelModePmrTable
  <1>8. CASE ChannelModeCb
    BY <1>8 DEF ChannelModeCb
  <1>9. CASE SubchannelModePmr
    BY <1>9 DEF SubchannelModePmr
  <1>10. CASE UNCHANGED vars
    BY <1>10 DEF vars, answers
  <1>. QED
    BY <1>1, <1>2, <1>3, <1>4, <1>5, <1>6, <1>7, <1>8, <1>9, <1>10 DEF Next

(* The radio is on an analog channel only while type says so.               *)
THEOREM AnalogTuningMeansTypeOneAlways == SSpec => []AnalogTuningMeansTypeOne
  <1>1. SInit => TypeInv
    BY DEF SInit, Init, TypeInv, AnalogTuningMeansTypeOne
  <1>2. TypeInv => AnalogTuningMeansTypeOne
    BY DEF TypeInv
  <1>3. TypeInv /\ Aside => TypeInv'
    BY AsideKeeps DEF Aside, Prompts, TypeInv, AnalogTuningMeansTypeOne
  <1>4. TypeInv /\ [SNext]_allVars => TypeInv'
    BY <1>3, StepsApart, NextTypeInv
  <1>. QED
    BY <1>1, <1>2, <1>4, PTL DEF SSpec

-----------------------------------------------------------------------------
LEMMA NextTunedInBand == TunedInBand /\ [Next]_vars => TunedInBand'
  <1> SUFFICES ASSUME TunedInBand, [Next]_vars PROVE TunedInBand'
    OBVIOUS
  <1> USE DEF TunedInBand
  <1>1. CASE Start
    BY <1>1 DEF Start
  <1>2. CASE ModeTypeSelect
    BY <1>2 DEF ModeTypeSelect
  <1>3. CASE FreqSelect
    <2>1. PICK in \in Scan("%f", freq, Frequencies) :
            freq' = in.value /\ tunedBy' = IF in.read THEN "user" ELSE tunedBy
      BY <1>3 DEF FreqSelect
    <2>2. CASE in.read
      BY <2>1, <2>2
    <2>3. CASE ~in.read
      <3>1. in.value = freq
        BY <2>3, ScanValue
      <3>. QED
        BY <2>1, <2>3, <3>1
    <2>. QED
      BY <2>2, <2>3
  <1>4. CASE ChannelSelect
    BY <1>4 DEF ChannelSelect
  <1>5. CASE ChannelModePmr
    BY <1>5 DEF ChannelModePmr
  <1>6. CASE ChannelModePmrAnalog
    BY <1>6, PmrAnalogInBand
       DEF ChannelModePmrAnalog, ChannelModePmrTable, PmrBand
  <1>7. CASE ChannelModePmrDigital
    BY <1>7, PmrDigitalInBand
       DEF ChannelModePmrDigital, ChannelModePmrTable, PmrBand
  <1>8. CASE ChannelModeCb
    BY <1>8, CbInBand DEF ChannelModeCb, CbBand
  <1>9. CASE SubchannelModePmr
    BY <1>9 DEF SubchannelModePmr
  <1>10. CASE UNCHANGED vars
    BY <1>10 DEF vars
  <1>. QED
    BY <1>1, <1>2, <1>3, <1>4, <1>5, <1>6, <1>7, <1>8, <1>9, <1>10 DEF Next

(* Whatever numbers are typed, a table never tunes out of its band.         *)
THEOREM TunedInBandAlways == SSpec => []TunedInBand
  <1>1. SInit => TunedInBand
    BY DEF SInit, Init, TunedInBand
  <1>2. TunedInBand /\ Aside => TunedInBand'
    BY AsideKeeps DEF TunedInBand
  <1>3. TunedInBand /\ [SNext]_allVars => TunedInBand'
    BY <1>2, StepsApart, NextTunedInBand
  <1>. QED
    BY <1>1, <1>3, PTL DEF SSpec

-----------------------------------------------------------------------------
(* Types.                                                                   *)

LEMMA ToneListed == \A n : Tone(n) \in Tones
  <1>1. DOMAIN Ctss = 1..50 /\ Ctss[1] = 670
    BY DEF Ctss
  <1>. QED
    BY <1>1 DEF Tone, Tones

LEMMA InitTypeOK == Init => TypeOK
  <1> SUFFICES ASSUME Init PROVE TypeOK
    OBVIOUS
  <1>1. subfreq \in Tones
    BY DEF Init, Tones
  <1>2. freq \in Int /\ type \in {0, 1, 2}
    BY SMT DEF Init
  <1>3. front \in Fronts
    BY DEF Init, Fronts
  <1>4. /\ {modeselect, channelmode} \subseteq Choices \cup {0}
        /\ {channelnumberpmr, channelnumbercb, subchannelnumberpmr}
             \subseteq Numbers \cup {0}
    BY DEF Init
  <1>5. tunedBy \in {"nothing", "user", "analog", "digital", "cb"}
    BY DEF Init
  <1>. QED
    BY <1>1, <1>2, <1>3, <1>4, <1>5, Zenon DEF TypeOK

(* A dialogue that asks for one of the numbers leaves the others as typed.  *)
LEMMA NextTypeOK == TypeOK /\ [Next]_vars => TypeOK'
  <1> SUFFICES ASSUME TypeOK, [Next]_vars PROVE TypeOK'
    OBVIOUS
  <1>1. CASE Start
    BY <1>1 DEF Start, answers, TypeOK, Prompts
  <1>2. CASE ModeTypeSelect
    BY <1>2, ScanValue DEF ModeTypeSelect, TypeOK, Prompts
  <1>3. CASE FreqSelect
    <2>1. PICK in \in Scan("%f", freq, Frequencies) :
            /\ freq' = in.value /\ front' = in.front
            /\ tunedBy' = IF in.read THEN "user" ELSE tunedBy
      BY <1>3 DEF FreqSelect
    <2>2. freq' \in Int \cup Frequencies /\ front' \in Fronts
      <3>1. in.value \in Frequencies \cup {freq} /\ in.front \in Fronts
        BY <2>1, ScanValue
      <3>2. freq \in Int \cup Frequencies
        BY DEF TypeOK
      <3>. QED
        BY <2>1, <3>1, <3>2
    <2>. QED
      BY <1>3, <2>1, <2>2 DEF FreqSelect, answers, TypeOK
  <1>4. CASE ChannelSelect
    BY <1>4, ScanValue DEF ChannelSelect, TypeOK, Prompts
  <1>5. CASE ChannelModePmr
    BY <1>5, ScanValue DEF ChannelModePmr, AfterPmrType, TypeOK, Prompts
  <1>6. CASE ChannelModePmrAnalog
    BY <1>6, ScanValue, PmrAnalogInBand
       DEF ChannelModePmrAnalog, ChannelModePmrTable, PmrBand, TypeOK
  <1>7. CASE ChannelModePmrDigital
    BY <1>7, ScanValue, PmrDigitalInBand
       DEF ChannelModePmrDigital, ChannelModePmrTable, PmrBand, TypeOK
  <1>8. CASE ChannelModeCb
    BY <1>8, ScanValue, CbInBand DEF ChannelModeCb, CbBand, TypeOK
  <1>9. CASE SubchannelModePmr
    BY <1>9, ScanValue, ToneListed DEF SubchannelModePmr, TypeOK
  <1>10. CASE UNCHANGED vars
    BY <1>10 DEF vars, answers, TypeOK
  <1>. QED
    BY <1>1, <1>2, <1>3, <1>4, <1>5, <1>6, <1>7, <1>8, <1>9, <1>10 DEF Next

LEMMA NextFront ==
  ASSUME front \in Fronts, [SNext]_allVars PROVE front' \in Fronts
  <1>1. CASE Next
    <2>1. CASE Start
      BY <2>1 DEF Start
    <2>2. CASE ModeTypeSelect
      BY <2>2, ScanValue DEF ModeTypeSelect
    <2>3. CASE FreqSelect
      BY <2>3, ScanValue DEF FreqSelect
    <2>4. CASE ChannelSelect
      BY <2>4, ScanValue DEF ChannelSelect
    <2>5. CASE ChannelModePmr
      BY <2>5, ScanValue DEF ChannelModePmr
    <2>6. CASE ChannelModePmrAnalog
      BY <2>6, ScanValue DEF ChannelModePmrAnalog, ChannelModePmrTable
    <2>7. CASE ChannelModePmrDigital
      BY <2>7, ScanValue DEF ChannelModePmrDigital, ChannelModePmrTable
    <2>8. CASE ChannelModeCb
      BY <2>8, ScanValue DEF ChannelModeCb
    <2>9. CASE SubchannelModePmr
      BY <2>9, ScanValue DEF SubchannelModePmr
    <2>. QED
      BY <1>1, <2>1, <2>2, <2>3, <2>4, <2>5, <2>6, <2>7, <2>8, <2>9 DEF Next
  <1>2. ASSUME NEW s \in Settings, SelectNumber(s) PROVE front' \in Fronts
    BY <1>2, ScanValue DEF SelectNumber
  <1>3. CASE \/ \E dialogue \in Settings \cup {"fileselect"} : Call(dialogue)
             \/ TypeSelect \/ CsvReader \/ UNCHANGED allVars
    BY <1>3 DEF Call, TypeSelect, CsvReader, allVars
  <1>4. CASE CallsignWord \/ CwWord \/ FileWord
    BY <1>4 DEF CallsignWord, CwWord, FileWord, TakeWord
  <1>. QED
    BY <1>1, <1>2, <1>3, <1>4 DEF SNext

(* The answers are numbers that were typed, the tone one of the table.      *)
THEOREM TypeOKAlways == SSpec => []TypeOK
  <1>1. SInit => TypeOK
    BY InitTypeOK DEF SInit
  <1>2. TypeOK /\ Aside /\ front' \in Fronts => TypeOK'
    BY AsideKeeps DEF TypeOK
  <1>3. TypeOK /\ [SNext]_allVars => TypeOK'
    <2>1. TypeOK => front \in Fronts
      BY DEF TypeOK
    <2>. QED
      BY <1>2, <2>1, StepsApart, NextFront, NextTypeOK
  <1>. QED
    BY <1>1, <1>3, PTL DEF SSpec

-----------------------------------------------------------------------------
(* The CB table on its raster of 10 kHz: the raster point of a channel, and *)
(* the channel of a raster point.                                           *)

RasterPoints == ((0..64) \ {23}) \cup (80..99)

Raster(n) ==
  CASE n = 0       -> 28       [] n \in 1..3   -> n + 19  [] n \in 4..7   -> n + 20
    [] n \in 8..11  -> n + 21   [] n = 1111     -> 33      [] n \in 12..15 -> n + 22
    [] n = 1515    -> 38       [] n \in 16..19 -> n + 23  [] n = 1919     -> 43
    [] n \in 20..22 -> n + 24   [] n = 23       -> 49      [] n \in 24..25 -> n + 23
    [] n \in 26..40 -> n + 24   [] n \in 41..60 -> n + 39  [] n \in 61..80 -> n - 61

ChannelAt(j) ==
  CASE j \in 0..19  -> j + 61   [] j \in 20..22 -> j - 19  [] j \in 24..27 -> j - 20
    [] j = 28      -> 0        [] j \in 29..32 -> j - 21  [] j = 33       -> 1111
    [] j \in 34..37 -> j - 22   [] j = 38       -> 1515    [] j \in 39..42 -> j - 23
    [] j = 43      -> 1919     [] j \in 44..46 -> j - 24  [] j \in 47..48 -> j - 23
    [] j = 49      -> 23       [] j \in 50..64 -> j - 24  [] j \in 80..99 -> j - 39

LEMMA RasterOfChannel ==
  ASSUME NEW n \in CbNumbers
  PROVE  /\ Raster(n) \in RasterPoints
         /\ ChannelAt(Raster(n)) = n
         /\ Cb[n] = 1000 * (26765 + 10 * Raster(n))
  <1>1. Raster(n) \in RasterPoints
    BY DEF Raster, RasterPoints, CbNumbers
  <1>2. ChannelAt(Raster(n)) = n
    <2>1. CASE n = 0
      <3>1. Raster(n) = 28
        BY <2>1 DEF Raster
      <3>2. ChannelAt(28) = n
        BY <2>1 DEF ChannelAt
      <3>. QED
        BY <3>1, <3>2
    <2>2. CASE n \in 1..3
      <3>1. Raster(n) = n + 19
        BY <2>2 DEF Raster
      <3>2. ChannelAt(n + 19) = n
        BY <2>2 DEF ChannelAt
      <3>. QED
        BY <3>1, <3>2
    <2>3. CASE n \in 4..7
      <3>1. Raster(n) = n + 20
        BY <2>3 DEF Raster
      <3>2. ChannelAt(n + 20) = n
        BY <2>3 DEF ChannelAt
      <3>. QED
        BY <3>1, <3>2
    <2>4. CASE n \in 8..11
      <3>1. Raster(n) = n + 21
        BY <2>4 DEF Raster
      <3>2. ChannelAt(n + 21) = n
        BY <2>4 DEF ChannelAt
      <3>. QED
        BY <3>1, <3>2
    <2>5. CASE n = 1111
      <3>1. Raster(n) = 33
        BY <2>5 DEF Raster
      <3>2. ChannelAt(33) = n
        BY <2>5 DEF ChannelAt
      <3>. QED
        BY <3>1, <3>2
    <2>6. CASE n \in 12..15
      <3>1. Raster(n) = n + 22
        BY <2>6 DEF Raster
      <3>2. ChannelAt(n + 22) = n
        BY <2>6 DEF ChannelAt
      <3>. QED
        BY <3>1, <3>2
    <2>7. CASE n = 1515
      <3>1. Raster(n) = 38
        BY <2>7 DEF Raster
      <3>2. ChannelAt(38) = n
        BY <2>7 DEF ChannelAt
      <3>. QED
        BY <3>1, <3>2
    <2>8. CASE n \in 16..19
      <3>1. Raster(n) = n + 23
        BY <2>8 DEF Raster
      <3>2. ChannelAt(n + 23) = n
        BY <2>8 DEF ChannelAt
      <3>. QED
        BY <3>1, <3>2
    <2>9. CASE n = 1919
      <3>1. Raster(n) = 43
        BY <2>9 DEF Raster
      <3>2. ChannelAt(43) = n
        BY <2>9 DEF ChannelAt
      <3>. QED
        BY <3>1, <3>2
    <2>10. CASE n \in 20..22
      <3>1. Raster(n) = n + 24
        BY <2>10 DEF Raster
      <3>2. ChannelAt(n + 24) = n
        BY <2>10 DEF ChannelAt
      <3>. QED
        BY <3>1, <3>2
    <2>11. CASE n = 23
      <3>1. Raster(n) = 49
        BY <2>11 DEF Raster
      <3>2. ChannelAt(49) = n
        BY <2>11 DEF ChannelAt
      <3>. QED
        BY <3>1, <3>2
    <2>12. CASE n \in 24..25
      <3>1. Raster(n) = n + 23
        BY <2>12 DEF Raster
      <3>2. ChannelAt(n + 23) = n
        BY <2>12 DEF ChannelAt
      <3>. QED
        BY <3>1, <3>2
    <2>13. CASE n \in 26..40
      <3>1. Raster(n) = n + 24
        BY <2>13 DEF Raster
      <3>2. ChannelAt(n + 24) = n
        BY <2>13 DEF ChannelAt
      <3>. QED
        BY <3>1, <3>2
    <2>14. CASE n \in 41..60
      <3>1. Raster(n) = n + 39
        BY <2>14 DEF Raster
      <3>2. ChannelAt(n + 39) = n
        BY <2>14 DEF ChannelAt
      <3>. QED
        BY <3>1, <3>2
    <2>15. CASE n \in 61..80
      <3>1. Raster(n) = n - 61
        BY <2>15 DEF Raster
      <3>2. ChannelAt(n - 61) = n
        BY <2>15 DEF ChannelAt
      <3>. QED
        BY <3>1, <3>2
    <2>. QED
      BY <2>1, <2>2, <2>3, <2>4, <2>5, <2>6, <2>7, <2>8, <2>9, <2>10,
         <2>11, <2>12, <2>13, <2>14, <2>15 DEF CbNumbers
  <1>3. Cb[n] = 1000 * (26765 + 10 * Raster(n))
    BY DEF Raster, Cb, CbNumbers
  <1>. QED
    BY <1>1, <1>2, <1>3

LEMMA ChannelOfRaster ==
  ASSUME NEW j \in RasterPoints
  PROVE  ChannelAt(j) \in CbNumbers /\ Raster(ChannelAt(j)) = j
  <1>1. ChannelAt(j) \in CbNumbers
    BY DEF ChannelAt, RasterPoints, CbNumbers
  <1>2. Raster(ChannelAt(j)) = j
    <2>1. CASE j \in 0..19
      <3>1. ChannelAt(j) = j + 61
        BY <2>1 DEF ChannelAt
      <3>2. Raster(j + 61) = j
        BY <2>1 DEF Raster
      <3>. QED
        BY <3>1, <3>2
    <2>2. CASE j \in 20..22
      <3>1. ChannelAt(j) = j - 19
        BY <2>2 DEF ChannelAt
      <3>2. Raster(j - 19) = j
        BY <2>2 DEF Raster
      <3>. QED
        BY <3>1, <3>2
    <2>3. CASE j \in 24..27
      <3>1. ChannelAt(j) = j - 20
        BY <2>3 DEF ChannelAt
      <3>2. Raster(j - 20) = j
        BY <2>3 DEF Raster
      <3>. QED
        BY <3>1, <3>2
    <2>4. CASE j = 28
      <3>1. ChannelAt(j) = 0
        BY <2>4 DEF ChannelAt
      <3>2. Raster(0) = j
        BY <2>4 DEF Raster
      <3>. QED
        BY <3>1, <3>2
    <2>5. CASE j \in 29..32
      <3>1. ChannelAt(j) = j - 21
        BY <2>5 DEF ChannelAt
      <3>2. Raster(j - 21) = j
        BY <2>5 DEF Raster
      <3>. QED
        BY <3>1, <3>2
    <2>6. CASE j = 33
      <3>1. ChannelAt(j) = 1111
        BY <2>6 DEF ChannelAt
      <3>2. Raster(1111) = j
        BY <2>6 DEF Raster
      <3>. QED
        BY <3>1, <3>2
    <2>7. CASE j \in 34..37
      <3>1. ChannelAt(j) = j - 22
        BY <2>7 DEF ChannelAt
      <3>2. Raster(j - 22) = j
        BY <2>7 DEF Raster
      <3>. QED
        BY <3>1, <3>2
    <2>8. CASE j = 38
      <3>1. ChannelAt(j) = 1515
        BY <2>8 DEF ChannelAt
      <3>2. Raster(1515) = j
        BY <2>8 DEF Raster
      <3>. QED
        BY <3>1, <3>2
    <2>9. CASE j \in 39..42
      <3>1. ChannelAt(j) = j - 23
        BY <2>9 DEF ChannelAt
      <3>2. Raster(j - 23) = j
        BY <2>9 DEF Raster
      <3>. QED
        BY <3>1, <3>2
    <2>10. CASE j = 43
      <3>1. ChannelAt(j) = 1919
        BY <2>10 DEF ChannelAt
      <3>2. Raster(1919) = j
        BY <2>10 DEF Raster
      <3>. QED
        BY <3>1, <3>2
    <2>11. CASE j \in 44..46
      <3>1. ChannelAt(j) = j - 24
        BY <2>11 DEF ChannelAt
      <3>2. Raster(j - 24) = j
        BY <2>11 DEF Raster
      <3>. QED
        BY <3>1, <3>2
    <2>12. CASE j \in 47..48
      <3>1. ChannelAt(j) = j - 23
        BY <2>12 DEF ChannelAt
      <3>2. Raster(j - 23) = j
        BY <2>12 DEF Raster
      <3>. QED
        BY <3>1, <3>2
    <2>13. CASE j = 49
      <3>1. ChannelAt(j) = 23
        BY <2>13 DEF ChannelAt
      <3>2. Raster(23) = j
        BY <2>13 DEF Raster
      <3>. QED
        BY <3>1, <3>2
    <2>14. CASE j \in 50..64
      <3>1. ChannelAt(j) = j - 24
        BY <2>14 DEF ChannelAt
      <3>2. Raster(j - 24) = j
        BY <2>14 DEF Raster
      <3>. QED
        BY <3>1, <3>2
    <2>15. CASE j \in 80..99
      <3>1. ChannelAt(j) = j - 39
        BY <2>15 DEF ChannelAt
      <3>2. Raster(j - 39) = j
        BY <2>15 DEF Raster
      <3>. QED
        BY <3>1, <3>2
    <2>. QED
      BY <2>1, <2>2, <2>3, <2>4, <2>5, <2>6, <2>7, <2>8, <2>9, <2>10,
         <2>11, <2>12, <2>13, <2>14, <2>15 DEF RasterPoints
  <1>. QED
    BY <1>1, <1>2

(* No two numbers of the table share a frequency.                           *)
LEMMA CbInjective ==
  ASSUME NEW m \in CbNumbers, NEW n \in CbNumbers, Cb[m] = Cb[n]
  PROVE  m = n
  <1>1. Raster(m) \in Int /\ Raster(n) \in Int
    BY RasterOfChannel DEF RasterPoints
  <1>2. 1000 * (26765 + 10 * Raster(m)) = 1000 * (26765 + 10 * Raster(n))
    BY RasterOfChannel
  <1>3. Raster(m) = Raster(n)
    BY <1>1, <1>2
  <1>. QED
    BY <1>3, RasterOfChannel

(* The table covers the raster of the two bands but for 26.995 MHz.         *)
LEMMA CbCoversRaster ==
  CbChannels = CbRaster
  <1> DEFINE Low  == {1000 * (26765 + 10 * k) : k \in (0..64) \ {23}}
             High == {1000 * (27565 + 10 * k) : k \in 0..19}
  <1>1. ASSUME NEW n \in CbNumbers PROVE Cb[n] \in Low \cup High
    <2>1. PICK j \in RasterPoints : Cb[n] = 1000 * (26765 + 10 * j)
      BY RasterOfChannel
    <2>2. CASE j \in (0..64) \ {23}
      BY <2>1, <2>2
    <2>3. CASE j \in 80..99
      <3>1. j - 80 \in 0..19 /\ Cb[n] = 1000 * (27565 + 10 * (j - 80))
        BY <2>1, <2>3
      <3>. QED
        BY <3>1
    <2>. QED
      BY <2>1, <2>2, <2>3 DEF RasterPoints
  <1>2. ASSUME NEW j \in RasterPoints
        PROVE  1000 * (26765 + 10 * j) \in {Cb[n] : n \in CbNumbers}
    <2>1. ChannelAt(j) \in CbNumbers /\ Raster(ChannelAt(j)) = j
      BY ChannelOfRaster
    <2>2. Cb[ChannelAt(j)] = 1000 * (26765 + 10 * j)
      BY <2>1, RasterOfChannel
    <2>. QED
      BY <2>1, <2>2
  <1>3. ASSUME NEW k \in (0..64) \ {23}
        PROVE  1000 * (26765 + 10 * k) \in {Cb[n] : n \in CbNumbers}
    BY <1>2 DEF RasterPoints
  <1>4. ASSUME NEW k \in 0..19
        PROVE  1000 * (27565 + 10 * k) \in {Cb[n] : n \in CbNumbers}
    <2>1. k + 80 \in RasterPoints
      BY DEF RasterPoints
    <2>2. 1000 * (27565 + 10 * k) = 1000 * (26765 + 10 * (k + 80))
      OBVIOUS
    <2>. QED
      BY <1>2, <2>1, <2>2
  <1>. QED
    BY <1>1, <1>3, <1>4 DEF CbChannels, CbRaster

(* A CB tuning is the table's own for the number asked last; 81, which is   *)
(* in no table, left the program.                                           *)
CbInv ==
  tunedBy = "cb" /\ channelnumbercb \in CbNumbers => freq = Cb[channelnumbercb]

LEMMA NextCbInv == CbInv /\ [Next]_vars => CbInv'
  <1> SUFFICES ASSUME CbInv, [Next]_vars PROVE CbInv'
    OBVIOUS
  <1> USE DEF CbInv
  <1>1. CASE Start
    BY <1>1 DEF Start, answers
  <1>2. CASE ModeTypeSelect
    BY <1>2 DEF ModeTypeSelect
  <1>3. CASE FreqSelect
    <2>1. PICK in \in Scan("%f", freq, Frequencies) :
            freq' = in.value /\ tunedBy' = IF in.read THEN "user" ELSE tunedBy
      BY <1>3 DEF FreqSelect
    <2>2. ~in.read => in.value = freq
      BY ScanValue
    <2>3. tunedBy' = "cb" => tunedBy = "cb" /\ freq' = freq
      BY <2>1, <2>2
    <2>. QED
      BY <1>3, <2>3 DEF FreqSelect, answers
  <1>4. CASE ChannelSelect
    BY <1>4 DEF ChannelSelect
  <1>5. CASE ChannelModePmr
    BY <1>5 DEF ChannelModePmr
  <1>6. CASE ChannelModePmrAnalog
    BY <1>6 DEF ChannelModePmrAnalog, ChannelModePmrTable
  <1>7. CASE ChannelModePmrDigital
    BY <1>7 DEF ChannelModePmrDigital, ChannelModePmrTable
  <1>8. CASE ChannelModeCb
    <2>1. DOMAIN Cb = CbNumbers /\ 81 \notin CbNumbers
      BY DEF Cb, CbNumbers
    <2>. QED
      BY <1>8, <2>1 DEF ChannelModeCb, Tuned
  <1>9. CASE SubchannelModePmr
    BY <1>9 DEF SubchannelModePmr
  <1>10. CASE UNCHANGED vars
    BY <1>10 DEF vars, answers
  <1>. QED
    BY <1>1, <1>2, <1>3, <1>4, <1>5, <1>6, <1>7, <1>8, <1>9, <1>10 DEF Next

(* The frequency of a CB channel is its alone, and the table has no gap but *)
(* one: whatever was typed, a CB frequency names the channel it came from.  *)
THEOREM CbFrequencyNamesChannelAlways == SSpec => []CbFrequencyNamesChannel
  <1>1. SInit => CbInv
    BY DEF SInit, Init, CbInv
  <1>2. CbInv => CbFrequencyNamesChannel
    <2>1. ASSUME CbInv, tunedBy = "cb", channelnumbercb \in CbNumbers
          PROVE  {n \in CbNumbers : Cb[n] = freq} = {channelnumbercb}
      BY <2>1, CbInjective DEF CbInv
    <2>. QED
      BY <2>1, CbCoversRaster DEF CbFrequencyNamesChannel
  <1>3. CbInv /\ Aside => CbInv'
    BY AsideKeeps DEF CbInv
  <1>4. CbInv /\ [SNext]_allVars => CbInv'
    BY <1>3, StepsApart, NextCbInv
  <1>. QED
    BY <1>1, <1>2, <1>4, PTL DEF SSpec

-----------------------------------------------------------------------------
(* The other dialogues.                                                     *)

(* What the settings were made of: the power and the modulation from the    *)
(* number behind their prompt, a word as callsign from the answer 1.        *)
MadeOf ==
  /\ power = Abs(setting["powerlevel"])
  /\ mod # "none" =>
       setting["freqmode"] = 3 \/ mod = Modulation(setting["freqmode"])
  /\ callsign = "word" \/ pc = "callsign" => setting["callnameselect"] = 1

SInv ==
  /\ STypeOK
  /\ setting = [s \in Settings |-> setting[s]]
  /\ MadeOf

LEMMA SettingIsInt ==
  ASSUME STypeOK, NEW s \in Settings
  PROVE  setting[s] \in Int
  BY SettingsAssumption DEF STypeOK, DEVIATION

LEMMA AbsSize ==
  ASSUME NEW v \in Int
  PROVE  Abs(v) >= 0 \/ Abs(v) = INT_MIN
  BY DEF Abs, INT_MIN

(* What a dialogue takes for a number.                                      *)
LEMMA CheckedValue ==
  ASSUME NEW s \in Settings, NEW v
  PROVE  /\ Checked(s, v) \in {v, 14, DEVIATION}
         /\ s = "dmachannel" => Checked(s, v) \in {7, 14, 255}
         /\ s = "bandwidth" => Checked(s, v) \in {625, 1000, 1250, 2000, 2500}
         /\ s \notin {"dmachannel", "bandwidth"} => Checked(s, v) = v
  BY DEF Checked, DEVIATION

(* A number that was taken once is taken again as it is.                    *)
LEMMA CheckedAgain ==
  ASSUME STypeOK, NEW s \in Settings, Checked(s, setting[s]) # setting[s]
  PROVE  setting[s] = 0
  BY DEF STypeOK, Checked

LEMMA InitSInv == SInit => SInv
  <1> SUFFICES ASSUME SInit PROVE SInv
    OBVIOUS
  <1>1. pc = "idle" /\ front \in Fronts
    BY DEF SInit, Init, Fronts
  <1>2. \A s \in Settings : setting[s] = 0
    BY DEF SInit
  <1>3. {"dmachannel", "bandwidth", "powerlevel"} \subseteq Settings
    BY DEF Settings
  <1>4. STypeOK
    <2>3. \A s \in Settings : setting[s] \in Typed[s] \cup {0, 14, DEVIATION}
      BY <1>2
    <2>4. /\ setting["dmachannel"] \in {0, 7, 14, 255}
          /\ setting["bandwidth"] \in {0, 625, 1000, 1250, 2000, 2500}
      BY <1>2, <1>3
    <2>5. /\ power >= 0
          /\ mod \in {"none", "fm", "am"}
          /\ callsign \in {"none", "callsign", "word"}
      BY DEF SInit
    <2>. QED
      BY <1>1, <2>3, <2>4, <2>5 DEF STypeOK
  <1>5. power = Abs(setting["powerlevel"])
    BY <1>2, <1>3 DEF SInit, Abs
  <1>6. MadeOf
    BY <1>1, <1>5 DEF SInit, MadeOf
  <1>. QED
    BY <1>4, <1>6 DEF SInit, SInv

(* The tuning dialogues stay among their own prompts.                       *)
LEMMA TuningPrompts ==
  ASSUME Next
  PROVE  pc' \in Prompts \cup {"idle", "exited"}
  <1>1. CASE Start
    BY <1>1 DEF Start, Prompts
  <1>2. CASE ModeTypeSelect
    BY <1>2, ScanValue DEF ModeTypeSelect, Prompts
  <1>3. CASE FreqSelect
    BY <1>3, ScanValue DEF FreqSelect, Prompts
  <1>4. CASE ChannelSelect
    BY <1>4, ScanValue DEF ChannelSelect, Prompts
  <1>5. CASE ChannelModePmr
    BY <1>5, ScanValue DEF ChannelModePmr, AfterPmrType, Prompts
  <1>6. CASE ChannelModePmrAnalog
    BY <1>6, ScanValue DEF ChannelModePmrAnalog, ChannelModePmrTable
  <1>7. CASE ChannelModePmrDigital
    BY <1>7, ScanValue DEF ChannelModePmrDigital, ChannelModePmrTable
  <1>8. CASE ChannelModeCb
    BY <1>8, ScanValue DEF ChannelModeCb
  <1>9. CASE SubchannelModePmr
    BY <1>9, ScanValue DEF SubchannelModePmr
  <1>. QED
    BY <1>1, <1>2, <1>3, <1>4, <1>5, <1>6, <1>7, <1>8, <1>9 DEF Next

LEMMA SelectNumberSInv ==
  ASSUME SInv, NEW s \in Settings, SelectNumber(s)
  PROVE  SInv'
  <1>1. PICK in \in Scan(Conversion(s), setting[s], Typed[s]) :
          /\ setting' = [setting EXCEPT ![s] = Checked(s, in.value)]
          /\ front' = in.front
          /\ pc' = After(s, Checked(s, in.value))
          /\ power' = IF s = "powerlevel" THEN Abs(Checked(s, in.value)) ELSE power
          /\ mod' = IF s = "freqmode" /\ Checked(s, in.value) # 3
                     THEN Modulation(Checked(s, in.value)) ELSE mod
          /\ callsign' = IF s = "callnameselect" /\ Checked(s, in.value) # 1
                          THEN "callsign" ELSE callsign
    BY DEF SelectNumber
  <1>2. PICK v : v = Checked(s, in.value)
    OBVIOUS
  <1>3. in.value \in Typed[s] \cup {setting[s]} /\ in.front \in Fronts
    BY <1>1, ScanValue
  <1>4. /\ v \in Typed[s] \cup {0, 14, DEVIATION}
        /\ s = "dmachannel" => v \in {7, 14, 255}
        /\ s = "bandwidth" => v \in {625, 1000, 1250, 2000, 2500}
    BY <1>2, <1>3, CheckedValue DEF SInv, STypeOK
  <1>5. /\ setting'[s] = v
        /\ \A t \in Settings : t # s => setting'[t] = setting[t]
        /\ setting' = [t \in Settings |-> setting'[t]]
    BY <1>1, <1>2 DEF SInv
  <1>6. v \in Int
    BY <1>4, SettingsAssumption DEF DEVIATION
  <1>7. pc # "callsign"
    BY DEF SelectNumber, Settings
  <1>8. pc' \in {"callsign", "csvreader", "cw", "exited", "idle"}
    BY <1>1 DEF After
  <1>9. pc' = "callsign" => s = "callnameselect" /\ v = 1
    BY <1>1, <1>2 DEF After
  <1>10. STypeOK'
    <2>1. \A t \in Settings : setting'[t] \in Typed[t] \cup {0, 14, DEVIATION}
      BY <1>4, <1>5 DEF SInv, STypeOK
    <2>2. /\ setting'["dmachannel"] \in {0, 7, 14, 255}
          /\ setting'["bandwidth"] \in {0, 625, 1000, 1250, 2000, 2500}
      BY <1>4, <1>5 DEF SInv, STypeOK, Settings
    <2>3. power' >= 0 \/ power' = INT_MIN
      BY <1>1, <1>2, <1>6, AbsSize DEF SInv, STypeOK
    <2>4. mod' \in {"none", "fm", "am"}
      BY <1>1 DEF SInv, STypeOK, Modulation
    <2>5. callsign' \in {"none", "callsign", "word"}
      BY <1>1 DEF SInv, STypeOK
    <2>6. front' \in Fronts
      BY <1>1, <1>3
    <2>7. pc' \in Prompts \cup Settings \cup TextPrompts
                  \cup {"csvreader", "idle", "exited", "crashed"}
      BY <1>8 DEF TextPrompts
    <2>. QED
      BY <2>1, <2>2, <2>3, <2>4, <2>5, <2>6, <2>7 DEF STypeOK
  <1>11. MadeOf'
    <2>1. power' = Abs(setting'["powerlevel"])
      BY <1>1, <1>2, <1>5 DEF SInv, MadeOf, Settings
    <2>2. mod' # "none" =>
            setting'["freqmode"] = 3 \/ mod' = Modulation(setting'["freqmode"])
      BY <1>1, <1>2, <1>5 DEF SInv, MadeOf, Settings
    <2>3. callsign' = "word" \/ pc' = "callsign" => setting'["callnameselect"] = 1
      BY <1>1, <1>2, <1>5, <1>9 DEF SInv, MadeOf, Settings
    <2>. QED
      BY <2>1, <2>2, <2>3 DEF MadeOf
  <1>. QED
    BY <1>5, <1>10, <1>11 DEF SInv

LEMMA NextSInv == SInv /\ [SNext]_allVars => SInv'
  <1> SUFFICES ASSUME SInv, [SNext]_allVars PROVE SInv'
    OBVIOUS
  <1>1. CASE Next /\ UNCHANGED settingVars
    <2>1. pc' \in Prompts \cup {"idle", "exited"} /\ front' \in Fronts
      <3>1. front \in Fronts
        BY DEF SInv, STypeOK
      <3>. QED
        BY <1>1, <3>1, TuningPrompts, NextFront DEF SNext
    <2>2. pc' # "callsign"
      BY <2>1 DEF Prompts
    <2>. QED
      BY <1>1, <2>1, <2>2 DEF settingVars, SInv, STypeOK, MadeOf
  <1>2. ASSUME NEW dialogue \in Settings \cup {"fileselect"}, Call(dialogue)
        PROVE  SInv'
    <2>1. dialogue # "callsign"
      BY DEF Settings
    <2>. QED
      BY <1>2, <2>1 DEF Call, settingVars, SInv, STypeOK, MadeOf, TextPrompts
  <1>3. ASSUME NEW s \in Settings, SelectNumber(s) PROVE SInv'
    BY <1>3, SelectNumberSInv
  <1>4. CASE CallsignWord
    BY <1>4 DEF CallsignWord, TakeWord, SInv, STypeOK, MadeOf
  <1>5. CASE CwWord
    BY <1>5 DEF CwWord, TakeWord, settingVars, SInv, STypeOK, MadeOf
  <1>6. CASE FileWord
    BY <1>6 DEF FileWord, TakeWord, settingVars, SInv, STypeOK, MadeOf
  <1>7. CASE TypeSelect
    BY <1>7 DEF TypeSelect, settingVars, SInv, STypeOK, MadeOf
  <1>8. CASE CsvReader
    BY <1>8 DEF CsvReader, settingVars, SInv, STypeOK, MadeOf
  <1>9. CASE UNCHANGED allVars
    BY <1>9 DEF allVars, settingVars, SInv, STypeOK, MadeOf
  <1>. QED
    BY <1>1, <1>2, <1>3, <1>4, <1>5, <1>6, <1>7, <1>8, <1>9 DEF SNext

LEMMA SInvAlways == SSpec => []SInv
  BY InitSInv, NextSInv, PTL DEF SSpec

(* DMA channel, bandwidth and modulation are always usable ones, whatever   *)
(* numbers the users type and wherever stdin jams.                          *)
THEOREM STypeOKAlways == SSpec => []STypeOK
  <1>1. SInv => STypeOK
    BY DEF SInv
  <1>. QED
    BY <1>1, SInvAlways, PTL

-----------------------------------------------------------------------------
(* A text in front of stdin.                                                *)

(* After a text that is no whole number no %d prompt takes an answer, and   *)
(* the frequency prompt none after a word.                                  *)
THEOREM JamTakesNoAnswerAlways == SSpec => JamTakesNoAnswer
  <1> DEFINE Kept == /\ UNCHANGED <<modeselect, channelmode, channelnumberpmr,
                                    channelnumbercb, subchannelnumberpmr>>
                     /\ type' # type => type' = 1
                     /\ tunedBy' = "user" /\ freq' # freq =>
                          pc = "freq" /\ front # "word"
  <1>1. ASSUME front \in Fronts, front # "open", Next PROVE Kept
    <2>1. CASE Start
      BY <2>1 DEF Start, answers
    <2>2. CASE ModeTypeSelect
      BY <1>1, <2>2, JammedScan DEF ModeTypeSelect
    <2>3. CASE FreqSelect
      <3>1. PICK in \in Scan("%f", freq, Frequencies) : freq' = in.value
        BY <2>3 DEF FreqSelect
      <3>2. freq' # freq => front # "word"
        BY <3>1, WordScan
      <3>. QED
        BY <2>3, <3>2 DEF FreqSelect, answers
    <2>4. CASE ChannelSelect
      BY <1>1, <2>4, JammedScan DEF ChannelSelect
    <2>5. CASE ChannelModePmr
      <3>1. PICK in \in Scan("%d", type, Choices) :
              type' = IF in.value \in {1, 2} THEN in.value ELSE 1
        BY <2>5 DEF ChannelModePmr
      <3>2. in.value = type
        BY <1>1, <3>1, JammedScan
      <3>3. type' # type => type' = 1
        BY <3>1, <3>2
      <3>. QED
        BY <2>5, <3>3 DEF ChannelModePmr
    <2>6. CASE ChannelModePmrAnalog
      BY <1>1, <2>6, JammedScan DEF ChannelModePmrAnalog, ChannelModePmrTable
    <2>7. CASE ChannelModePmrDigital
      BY <1>1, <2>7, JammedScan DEF ChannelModePmrDigital, ChannelModePmrTable
    <2>8. CASE ChannelModeCb
      BY <1>1, <2>8, JammedScan DEF ChannelModeCb
    <2>9. CASE SubchannelModePmr
      BY <1>1, <2>9, JammedScan DEF SubchannelModePmr
    <2>. QED
      BY <1>1, <2>1, <2>2, <2>3, <2>4, <2>5, <2>6, <2>7, <2>8, <2>9 DEF Next
  <1>2. Aside => Kept
    BY AsideKeeps
  <1>3. ASSUME SInv, [SNext]_allVars PROVE [front # "open" => Kept]_vars
    <2>1. front \in Fronts
      BY <1>3 DEF SInv, STypeOK
    <2>. QED
      BY <1>1, <1>2, <1>3, <2>1, StepsApart
  <1>. QED
    BY <1>3, SInvAlways, PTL DEF SSpec, JamTakesNoAnswer

JamStep ==
  front # "open" =>
    /\ front' # front => \/ pc \in TextPrompts
                         \/ front = "float" /\ pc \in {"freq", "bandwidth"}
                         \/ front = "sign"
    /\ \A s \in Settings :
         setting'[s] # setting[s] =>
           setting[s] = 0 \/ (s = "bandwidth" /\ front # "word")
    /\ mod' # mod => mod = "none"
    /\ power' = power
    /\ callsign' # callsign =>
         callsign = "none" \/ (setting["callnameselect"] = 1 /\ ~(callsign' = "callsign"))

LEMMA TuningKeepsJam ==
  ASSUME Next, front \in Fronts, front # "open", front' # front
  PROVE  front = "sign" \/ (front = "float" /\ pc = "freq")
  <1>1. CASE Start
    BY <1>1 DEF Start
  <1>2. CASE ModeTypeSelect
    BY <1>2, JammedScan DEF ModeTypeSelect
  <1>3. CASE FreqSelect
    <2>1. front # "word"
      BY <1>3, WordScan DEF FreqSelect
    <2>. QED
      BY <1>3, <2>1 DEF FreqSelect, Fronts
  <1>4. CASE ChannelSelect
    BY <1>4, JammedScan DEF ChannelSelect
  <1>5. CASE ChannelModePmr
    BY <1>5, JammedScan DEF ChannelModePmr
  <1>6. CASE ChannelModePmrAnalog
    BY <1>6, JammedScan DEF ChannelModePmrAnalog, ChannelModePmrTable
  <1>7. CASE ChannelModePmrDigital
    BY <1>7, JammedScan DEF ChannelModePmrDigital, ChannelModePmrTable
  <1>8. CASE ChannelModeCb
    BY <1>8, JammedScan DEF ChannelModeCb
  <1>9. CASE SubchannelModePmr
    BY <1>9, JammedScan DEF SubchannelModePmr
  <1>. QED
    BY <1>1, <1>2, <1>3, <1>4, <1>5, <1>6, <1>7, <1>8, <1>9 DEF Next

(* A jammed prompt works on the number it had; the bandwidth may be read    *)
(* from the text.                                                           *)
LEMMA SelectNumberJamStep ==
  ASSUME SInv, front # "open", NEW s \in Settings, SelectNumber(s)
  PROVE  JamStep
  <1>1. PICK in \in Scan(Conversion(s), setting[s], Typed[s]) :
          /\ setting' = [setting EXCEPT ![s] = Checked(s, in.value)]
          /\ front' = in.front
          /\ power' = IF s = "powerlevel" THEN Abs(Checked(s, in.value)) ELSE power
          /\ mod' = IF s = "freqmode" /\ Checked(s, in.value) # 3
                     THEN Modulation(Checked(s, in.value)) ELSE mod
          /\ callsign' = IF s = "callnameselect" /\ Checked(s, in.value) # 1
                          THEN "callsign" ELSE callsign
    BY DEF SelectNumber
  <1>2. front \in Fronts
    BY DEF SInv, STypeOK
  <1>3. \/ s = "bandwidth" /\ front # "word"
        \/ in.value = setting[s] /\ (front # "sign" => front' = front)
    <2>1. CASE s = "bandwidth"
      BY <1>1, <2>1, WordScan
    <2>2. CASE s # "bandwidth"
      <3>1. in \in Scan("%d", setting[s], Typed[s])
        BY <1>1, <2>2 DEF Conversion
      <3>. QED
        BY <1>1, <1>2, <3>1, JammedScan
    <2>. QED
      BY <2>1, <2>2
  <1>4. pc = s
    BY DEF SelectNumber
  <1>5. front' # front => \/ front = "float" /\ pc \in {"freq", "bandwidth"}
                         \/ front = "sign"
    BY <1>2, <1>3, <1>4 DEF Fronts
  <1>6. s \notin {"dmachannel", "bandwidth"} => Checked(s, in.value) = setting[s]
    BY <1>3, CheckedValue
  <1>7. ASSUME NEW t \in Settings, setting'[t] # setting[t]
        PROVE  setting[t] = 0 \/ (t = "bandwidth" /\ front # "word")
    <2>1. t = s /\ setting'[t] = Checked(s, in.value)
      BY <1>1, <1>7 DEF SInv
    <2>. QED
      BY <1>3, <1>7, <2>1, CheckedAgain DEF SInv
  <1>8. power' = power
    BY <1>1, <1>6 DEF SInv, MadeOf
  <1>9. mod' # mod => mod = "none"
    BY <1>1, <1>6 DEF SInv, MadeOf
  <1>10. callsign' # callsign => callsign = "none"
    BY <1>1, <1>6 DEF SInv, MadeOf, STypeOK
  <1>. QED
    BY <1>5, <1>7, <1>8, <1>9, <1>10 DEF JamStep

(* In front of a text dialogues change only what was never set, but for the *)
(* bandwidth; a word goes only where a word is asked for.                   *)
THEOREM JamKeepsSettingsAlways == SSpec => JamKeepsSettings
  <1>1. ASSUME SInv, SNext PROVE JamStep
    <2>1. CASE Next /\ UNCHANGED settingVars
      <3>1. front \in Fronts
        BY <1>1 DEF SInv, STypeOK
      <3>. QED
        BY <2>1, <3>1, TuningKeepsJam DEF settingVars, JamStep
    <2>2. ASSUME NEW dialogue \in Settings \cup {"fileselect"}, Call(dialogue)
          PROVE  JamStep
      BY <2>2 DEF Call, settingVars, JamStep
    <2>3. ASSUME NEW s \in Settings, SelectNumber(s) PROVE JamStep
      BY <1>1, <2>3, SelectNumberJamStep DEF JamStep
    <2>4. CASE CallsignWord
      BY <1>1, <2>4 DEF CallsignWord, JamStep, TextPrompts, SInv, MadeOf
    <2>5. CASE CwWord
      BY <2>5 DEF CwWord, settingVars, JamStep, TextPrompts
    <2>6. CASE FileWord
      BY <2>6 DEF FileWord, settingVars, JamStep, TextPrompts
    <2>7. CASE TypeSelect
      BY <2>7 DEF TypeSelect, settingVars, JamStep
    <2>8. CASE CsvReader
      BY <2>8 DEF CsvReader, settingVars, JamStep
    <2>. QED
      BY <1>1, <2>1, <2>2, <2>3, <2>4, <2>5, <2>6, <2>7, <2>8 DEF SNext
  <1>2. SInv /\ [SNext]_allVars => [JamStep]_allVars
    BY <1>1
  <1>. QED
    BY <1>2, SInvAlways, PTL DEF SSpec, JamKeepsSettings, JamStep

=============================================================================
