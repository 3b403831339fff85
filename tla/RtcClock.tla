------------------------------ MODULE RtcClock ------------------------------
(***************************************************************************)
(* The clock chip (DS1307, DS3231) that runs by itself, and the functions  *)
(* that read, set and initialise it over I2C: rtc-ds3231.c, and            *)
(* rtc-clock-test.c.  One call runs at a time; the chip may tick between   *)
(* any two transactions of a call.                                         *)
(*                                                                         *)
(* Registers 0 to 2 hold seconds, minutes and hours in two decimal digits, *)
(* with CH (the clock is halted) and the 12-hour mode in bits above the    *)
(* digits of the first and the last.  The date registers are left out, and *)
(* how the chip counts hours in 12-hour mode.                              *)
(***************************************************************************)
EXTENDS Integers

CONSTANTS Seconds, Minutes, Hours    (* how far the registers count         *)

ASSUME RtcAssumption ==
  /\ Seconds \in 1..80 /\ Minutes \in 1..80 /\ Hours \in 1..40

Registers(s, m, h) == [i \in 0..2 |-> IF i = 0 THEN s ELSE IF i = 1 THEN m ELSE h]

Limit == Registers(Seconds, Minutes, Hours)
Flag  == Registers(128, 256, 64)
CH == 128

VARIABLES
  reg,       (* the registers of the chip                                   *)
  op,        (* the call in progress: "idle", "read" or "init"              *)
  step,      (* the transactions it has made                                *)
  value,     (* what it read of each register (ds3231_time, system_time)   *)
  start,     (* the registers when it began                                 *)
  ticks      (* ticks since then                                            *)

vars == <<reg, op, step, value, start, ticks>>

(* Mutant: digits in base 8.                                                *)
to_bcd_Octal(d) == (((d \div 8) * 16) % 256) + (d % 8)

(* to_bcd () and rtc_hex_to_bcd (), from_bcd () and rtc_bcd_to_hex (), on   *)
(* unsigned bytes.                                                          *)
to_bcd(d) == (((d \div 10) * 16) % 256) + (d % 10)
from_bcd(b) == ((b \div 16) * 10) + (b % 16)

(* What a register counts, and the time of day of three counts.             *)
Count(r, i) == from_bcd(r[i] % Flag[i])
TimeOf(count) == count[0] + Seconds * (count[1] + Minutes * count[2])
TimeIn(r) == TimeOf([i \in 0..2 |-> Count(r, i)])
Day == Seconds * Minutes * Hours

Init ==
  /\ \E s \in 0..Seconds - 1, m \in 0..Minutes - 1, h \in 0..Hours - 1,
        halted \in {0, 128}, twelve \in {0, 64} :
       reg = Registers(to_bcd(s) + halted, to_bcd(m), to_bcd(h) + twelve)
  /\ op = "idle" /\ step = 0
  /\ value = [i \in 0..2 |-> 0]
  /\ start = [i \in 0..2 |-> 0] /\ ticks = 0

-----------------------------------------------------------------------------
(* The chip.  A tick is the next second of the day; a call is shorter than  *)
(* a second, and writing the seconds starts a second afresh.                *)

MaxTicks == 1

SecondsWritten == op = "init" /\ step > 1

Advance(r, i) == r[i] - (r[i] % Flag[i]) + to_bcd((Count(r, i) + 1) % Limit[i])

Ticked(r) ==
  LET minute == Count(r, 0) + 1 = Seconds
      hour == minute /\ Count(r, 1) + 1 = Minutes
  IN Registers(Advance(r, 0),
               IF minute THEN Advance(r, 1) ELSE r[1],
               IF hour THEN Advance(r, 2) ELSE r[2])

Tick ==
  /\ reg[0] < CH
  /\ ~SecondsWritten /\ ticks < MaxTicks
  /\ reg' = Ticked(reg)
  /\ ticks' = IF op = "idle" THEN 0 ELSE ticks + 1
  /\ UNCHANGED <<op, step, value, start>>

-----------------------------------------------------------------------------
(* Calls.                                                                   *)

Begin(call) ==
  /\ op = "idle"
  /\ op' = call /\ step' = 0
  /\ start' = reg /\ ticks' = 0
  /\ UNCHANGED <<reg, value>>

(* Mutant: the hours come first.                                            *)
ReadNext_HoursFirst ==
  /\ op = "read" /\ step < 3
  /\ value' = [value EXCEPT ![2 - step] = from_bcd(reg[2 - step])]
  /\ step' = step + 1
  /\ UNCHANGED <<reg, op, start, ticks>>

(* read_time_from_ds3231 () and gettime (): one transaction per register.   *)
ReadNext ==
  /\ op = "read" /\ step < 3
  /\ value' = [value EXCEPT ![step] = from_bcd(reg[step])]
  /\ step' = step + 1
  /\ UNCHANGED <<reg, op, start, ticks>>

Return ==
  /\ \/ op = "read" /\ step = 3
     \/ op = "init" /\ step = 6
  /\ op' = "idle" /\ step' = 0
  /\ value' = [i \in 0..2 |-> 0]
  /\ start' = [i \in 0..2 |-> 0] /\ ticks' = 0
  /\ UNCHANGED reg

(* Mutant: the value is written back as it was converted.                   *)
Written_Unconverted(i, k) ==
  IF step = k THEN reg[i]
  ELSE IF step = k + 1 THEN to_bcd(0) ELSE value[i]

(* The step of init_uhr () that reads, clears or restores register i.       *)
Written(i, k) ==
  IF step = k THEN reg[i]
  ELSE IF step = k + 1 THEN to_bcd(0) ELSE to_bcd(value[i])

(* init_uhr (): seconds and hours are read, overwritten with 0 and written  *)
(* back.  Its last write, to the control register, changes no time.         *)
InitNext ==
  /\ op = "init" /\ step < 6
  /\ LET i == IF step < 3 THEN 0 ELSE 2
         k == IF step < 3 THEN 0 ELSE 3
     IN /\ value' = IF step = k THEN [value EXCEPT ![i] = from_bcd(reg[i])] ELSE value
        /\ reg' = [reg EXCEPT ![i] = Written(i, k)]
  /\ step' = step + 1
  /\ UNCHANGED <<op, start, ticks>>

(* write_time_to_ds3231 (): all registers in one transaction.               *)
WriteTime(s, m, h) ==
  /\ op = "idle"
  /\ reg' = Registers(to_bcd(s), to_bcd(m), to_bcd(h))
  /\ UNCHANGED <<op, step, value, start, ticks>>

(* setsecond (), setminute (), sethour ().                                  *)
SetRegister(i, d) ==
  /\ op = "idle"
  /\ reg' = [reg EXCEPT ![i] = to_bcd(d)]
  /\ UNCHANGED <<op, step, value, start, ticks>>

Next ==
  \/ Tick \/ ReadNext \/ InitNext \/ Return
  \/ \E call \in {"read", "init"} : Begin(call)
  \/ \E s \in 0..Seconds - 1, m \in 0..Minutes - 1, h \in 0..Hours - 1 : WriteTime(s, m, h)
  \/ \E i \in 0..2 : \E d \in 0..Limit[i] - 1 : SetRegister(i, d)

Spec == Init /\ [][Next]_vars

-----------------------------------------------------------------------------
(* The registers hold decimal digits within their limits, below the flags:  *)
(* no conversion ever writes anything else into the chip.                   *)
TypeOK ==
  /\ reg \in [0..2 -> 0..255]
  /\ \A i \in 0..2 : reg[i] % 16 < 10 /\ Count(reg, i) < Limit[i]
  /\ op \in {"idle", "read", "init"} /\ step \in 0..6
  /\ value \in [0..2 -> 0..255]
  /\ start \in [0..2 -> 0..255]
  /\ ticks \in 0..MaxTicks

(* A time that was read is the time when the read began, or, when the chip  *)
(* ticked, a second, a minute or an hour later: seconds are read before     *)
(* what they carry into, so a torn time is ahead of the clock and never     *)
(* behind it.                                                               *)
ReadIsNeverBehind ==
  op = "read" /\ step = 3 /\ reg[0] < CH /\ reg[2] < Flag[2] =>
    \E late \in IF ticks = 0 THEN {0} ELSE {0, 1, Seconds, Seconds * Minutes} :
      TimeOf(value) - TimeIn(start) \in {late, late - Day}

(* init_uhr () keeps the time but for one tick: when that comes between the *)
(* read of the seconds and the write, the clock loses a second, or gains a  *)
(* minute less a second when the tick was a carry.  The hours cannot be     *)
(* hit, because the write of the seconds has put off the next tick.  (Its   *)
(* comments also want the clock started and in 24-hour mode.  It is neither *)
(* afterwards if it was not before: the bits come back with the digits.)    *)
InitKeepsTime ==
  op = "init" /\ step = 6 =>
    \E off \in IF ticks = 0 THEN {0} ELSE {0, -1, Seconds - 1} :
      TimeIn(reg) - (TimeIn(start) + ticks) \in {off, off - Day}

=============================================================================
