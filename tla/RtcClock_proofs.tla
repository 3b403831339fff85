--------------------------- MODULE RtcClock_proofs ---------------------------
EXTENDS RtcClock, TLAPS

Byte == 0..255

-----------------------------------------------------------------------------
(* The conversions.                                                          *)

LEMMA RoundTrip ==
  ASSUME NEW b \in Byte, b % 16 < 10
  PROVE  /\ to_bcd(from_bcd(b)) = b
         /\ from_bcd(b) \in 0..159
  BY DEF to_bcd, from_bcd, Byte

LEMMA Digits ==
  ASSUME NEW d \in 0..79
  PROVE  /\ to_bcd(d) \in 0..127
         /\ to_bcd(d) % 16 < 10
         /\ from_bcd(to_bcd(d)) = d
         /\ d < 40 => to_bcd(d) < 64
  BY DEF to_bcd, from_bcd

(* Replacing the digits of a register and keeping the bits above them.       *)
LEMMA Digits128 ==
  ASSUME NEW b \in Byte, NEW x \in 0..127, x % 16 < 10
  PROVE  LET c == b - (b % 128) + x
         IN c \in Byte /\ c % 128 = x /\ c % 16 < 10 /\ c \div 128 = b \div 128
  BY DEF Byte

LEMMA Digits64 ==
  ASSUME NEW b \in Byte, NEW x \in 0..63, x % 16 < 10
  PROVE  LET c == b - (b % 64) + x
         IN c \in Byte /\ c % 64 = x /\ c % 16 < 10 /\ c \div 64 = b \div 64
  BY DEF Byte

LEMMA Digits256 ==
  ASSUME NEW b \in Byte, NEW x \in 0..127, x % 16 < 10
  PROVE  LET c == b - (b % 256) + x
         IN c \in Byte /\ c % 256 = x /\ c % 16 < 10
  BY DEF Byte

-----------------------------------------------------------------------------
(* A tick.                                                                   *)
WellFormed(r) ==
  /\ r \in [0..2 -> Byte]
  /\ \A i \in 0..2 : r[i] % 16 < 10
  /\ Count(r, 0) \in 0..Seconds - 1 /\ Count(r, 1) \in 0..Minutes - 1
  /\ Count(r, 2) \in 0..Hours - 1

LEMMA Constants ==
  /\ Seconds \in 1..80 /\ Minutes \in 1..80 /\ Hours \in 1..40
  /\ Limit[0] = Seconds /\ Limit[1] = Minutes /\ Limit[2] = Hours
  /\ Flag[0] = 128 /\ Flag[1] = 256 /\ Flag[2] = 64
  BY RtcAssumption DEF Limit, Flag, Registers

LEMMA RegistersAt ==
  ASSUME NEW s, NEW m, NEW h
  PROVE  /\ Registers(s, m, h)[0] = s /\ Registers(s, m, h)[1] = m /\ Registers(s, m, h)[2] = h
         /\ DOMAIN Registers(s, m, h) = 0..2
         /\ \A S : s \in S /\ m \in S /\ h \in S => Registers(s, m, h) \in [0..2 -> S]
  BY DEF Registers

LEMMA Wrapped ==
  ASSUME NEW n \in 1..80, NEW c \in 0..n - 1
  PROVE  (c + 1) % n = IF c + 1 = n THEN 0 ELSE c + 1
  BY SMT

(* What a register counts next.                                              *)
Wrap(r, i) == IF Count(r, i) + 1 = Limit[i] THEN 0 ELSE Count(r, i) + 1

LEMMA AdvanceDigits ==
  ASSUME NEW r, WellFormed(r), NEW i \in 0..2
  PROVE  /\ Advance(r, i) \in Byte
         /\ Advance(r, i) % 16 < 10
         /\ from_bcd(Advance(r, i) % Flag[i]) = Wrap(r, i)
         /\ Advance(r, i) \div Flag[i] = r[i] \div Flag[i]
  <1>. DEFINE d == Wrap(r, i)
              x == to_bcd(d)
  <1>1. Limit[i] \in 1..80 /\ (i = 2 => Limit[i] <= 40) /\ Count(r, i) \in 0..Limit[i] - 1
    BY Constants DEF WellFormed
  <1>2. (Count(r, i) + 1) % Limit[i] = d /\ d \in 0..79 /\ (i = 2 => d < 40)
    BY <1>1, Wrapped DEF Wrap
  <1>3. Advance(r, i) = r[i] - (r[i] % Flag[i]) + x
    BY <1>2 DEF Advance
  <1>. HIDE DEF d
  <1>4. x \in 0..127 /\ x % 16 < 10 /\ from_bcd(x) = d /\ (d < 40 => x < 64)
    BY <1>2, Digits
  <1>5. r[i] \in Byte
    BY DEF WellFormed
  <1>. HIDE DEF x
  <1>6. CASE i = 0
    <2>1. LET c == r[i] - (r[i] % 128) + x
          IN c \in Byte /\ c % 128 = x /\ c % 16 < 10 /\ c \div 128 = r[i] \div 128
      BY <1>4, <1>5, Digits128
    <2>. QED
      BY <1>3, <1>4, <1>6, <2>1, Constants DEF d
  <1>7. CASE i = 1
    <2>1. LET c == r[i] - (r[i] % 256) + x
          IN c \in Byte /\ c % 256 = x /\ c % 16 < 10
      BY <1>4, <1>5, Digits256
    <2>2. \A c \in Byte : c \div 256 = 0
      BY DEF Byte
    <2>. QED
      BY <1>3, <1>4, <1>5, <1>7, <2>1, <2>2, Constants DEF d
  <1>8. CASE i = 2
    <2>1. x \in 0..63
      BY <1>2, <1>4, <1>8
    <2>2. LET c == r[i] - (r[i] % 64) + x
          IN c \in Byte /\ c % 64 = x /\ c % 16 < 10 /\ c \div 64 = r[i] \div 64
      BY <1>4, <1>5, <2>1, Digits64
    <2>. QED
      BY <1>3, <1>4, <1>8, <2>2, Constants DEF d
  <1>. QED
    BY <1>6, <1>7, <1>8

Minute(r) == Count(r, 0) + 1 = Seconds
Hour(r)   == Minute(r) /\ Count(r, 1) + 1 = Minutes

LEMMA TickCounts ==
  ASSUME NEW r, WellFormed(r)
  PROVE  /\ WellFormed(Ticked(r))
         /\ Count(Ticked(r), 0) = IF Minute(r) THEN 0 ELSE Count(r, 0) + 1
         /\ Count(Ticked(r), 1) = IF ~Minute(r) THEN Count(r, 1)
                                  ELSE IF Hour(r) THEN 0 ELSE Count(r, 1) + 1
         /\ Count(Ticked(r), 2) = IF ~Hour(r) THEN Count(r, 2)
                                  ELSE IF Count(r, 2) + 1 = Hours THEN 0 ELSE Count(r, 2) + 1
         /\ \A i \in {0, 2} : Ticked(r)[i] \div Flag[i] = r[i] \div Flag[i]
  <1>1. /\ Ticked(r)[0] = Advance(r, 0)
        /\ Ticked(r)[1] = IF Minute(r) THEN Advance(r, 1) ELSE r[1]
        /\ Ticked(r)[2] = IF Hour(r) THEN Advance(r, 2) ELSE r[2]
        /\ Ticked(r) \in [0..2 -> {Ticked(r)[0], Ticked(r)[1], Ticked(r)[2]}]
    BY DEF Ticked, Minute, Hour, Advance, Registers
  <1>2. \A i \in 0..2 : Ticked(r)[i] \in Byte /\ Ticked(r)[i] % 16 < 10
    BY <1>1, AdvanceDigits DEF WellFormed
  <1>3. Ticked(r) \in [0..2 -> Byte]
    BY <1>1, <1>2
  <1>4. Count(Ticked(r), 0) = IF Minute(r) THEN 0 ELSE Count(r, 0) + 1
    BY <1>1, AdvanceDigits, Constants DEF Wrap, Count, Minute
  <1>5. Count(Ticked(r), 1) = IF ~Minute(r) THEN Count(r, 1)
                              ELSE IF Hour(r) THEN 0 ELSE Count(r, 1) + 1
    BY <1>1, AdvanceDigits, Constants DEF Wrap, Count, Hour
  <1>6. Count(Ticked(r), 2) = IF ~Hour(r) THEN Count(r, 2)
                              ELSE IF Count(r, 2) + 1 = Hours THEN 0 ELSE Count(r, 2) + 1
    BY <1>1, AdvanceDigits, Constants DEF Wrap, Count
  <1>7. \A i \in {0, 2} : Ticked(r)[i] \div Flag[i] = r[i] \div Flag[i]
    <2>1. Advance(r, 0) \div Flag[0] = r[0] \div Flag[0]
      BY AdvanceDigits
    <2>2. Advance(r, 2) \div Flag[2] = r[2] \div Flag[2]
      BY AdvanceDigits
    <2>. QED
      BY <1>1, <2>1, <2>2
  <1>8. /\ Count(Ticked(r), 0) \in 0..Seconds - 1 /\ Count(Ticked(r), 1) \in 0..Minutes - 1
        /\ Count(Ticked(r), 2) \in 0..Hours - 1
    BY <1>4, <1>5, <1>6, Constants DEF WellFormed, Minute, Hour
  <1>. QED
    BY <1>2, <1>3, <1>4, <1>5, <1>6, <1>7, <1>8 DEF WellFormed

(* The minutes of the day after a tick, and those a reader puts together     *)
(* from old minutes and new hours.                                           *)
LEMMA MinutesOfDay ==
  ASSUME NEW m \in 0..Minutes - 1, NEW h \in 0..Hours - 1
  PROVE  /\ (m + 1) + Minutes * h = (m + Minutes * h) + 1
         /\ m + 1 = Minutes => 0 + Minutes * (h + 1) = (m + Minutes * h) + 1
         /\ m + 1 = Minutes /\ h + 1 = Hours =>
              0 + Minutes * 0 = (m + Minutes * h) + 1 - Minutes * Hours
         /\ m + Minutes * (h + 1) = (m + Minutes * h) + Minutes
         /\ h + 1 = Hours => m + Minutes * 0 = (m + Minutes * h) + Minutes - Minutes * Hours
         /\ m + Minutes * h \in Nat
  BY Constants

LEMMA SecondsOfDay ==
  ASSUME NEW a \in Int
  PROVE  /\ Seconds * (a + 1) = Seconds * a + Seconds
         /\ Seconds * (a + 1 - Minutes * Hours) = Seconds * a + Seconds - Day
         /\ Seconds * (a + Minutes) = Seconds * a + Seconds * Minutes
         /\ Seconds * (a + Minutes - Minutes * Hours) = Seconds * a + Seconds * Minutes - Day
         /\ Seconds * a \in Int /\ Day \in Int /\ Seconds * Minutes \in Int
  BY Constants DEF Day

(* What of a time is seconds.                                                *)
Time(s, m, h) == s + Seconds * (m + Minutes * h)

LEMMA TickTime ==
  ASSUME NEW r, WellFormed(r)
  PROVE  LET s == Count(r, 0)          s2 == Count(Ticked(r), 0)
             m == Count(r, 1)          m2 == Count(Ticked(r), 1)
             h == Count(r, 2)          h2 == Count(Ticked(r), 2)
         IN /\ Time(s, m, h) \in Int /\ Day \in Int /\ Seconds * Minutes \in Int
            /\ Time(s2, m2, h2) \in {Time(s, m, h) + 1, Time(s, m, h) + 1 - Day}
            /\ Time(s, m2, h2) \in {Time(s, m, h), Time(s, m, h) + Seconds,
                                    Time(s, m, h) + Seconds - Day}
            /\ Time(s, m, h2) \in {Time(s, m, h), Time(s, m, h) + Seconds * Minutes,
                                   Time(s, m, h) + Seconds * Minutes - Day}
  <1>. DEFINE s == Count(r, 0)          s2 == Count(Ticked(r), 0)
              m == Count(r, 1)          m2 == Count(Ticked(r), 1)
              h == Count(r, 2)          h2 == Count(Ticked(r), 2)
              a == m + Minutes * h
              a2 == m2 + Minutes * h2
              a3 == m + Minutes * h2
  <1>1. s \in 0..Seconds - 1 /\ m \in 0..Minutes - 1 /\ h \in 0..Hours - 1
    BY DEF WellFormed
  <1>2. /\ s2 = IF Minute(r) THEN 0 ELSE s + 1
        /\ m2 = IF ~Minute(r) THEN m ELSE IF Hour(r) THEN 0 ELSE m + 1
        /\ h2 = IF ~Hour(r) THEN h ELSE IF h + 1 = Hours THEN 0 ELSE h + 1
    BY TickCounts
  <1>3. (Minute(r) <=> s + 1 = Seconds) /\ (Hour(r) <=> Minute(r) /\ m + 1 = Minutes)
    BY DEF Minute, Hour
  <1>. HIDE DEF s, s2, m, m2, h, h2
  <1>4. a \in Int /\ (~Minute(r) => a2 = a)
        /\ (Minute(r) => a2 \in {a + 1, a + 1 - Minutes * Hours})
    <2>1. a \in Nat
      BY <1>1, MinutesOfDay
    <2>2. CASE ~Minute(r)
      BY <1>2, <1>3, <2>1, <2>2
    <2>3. CASE Minute(r) /\ ~Hour(r)
      BY <1>1, <1>2, <1>3, <2>1, <2>3, MinutesOfDay
    <2>4. CASE Hour(r) /\ h + 1 # Hours
      BY <1>1, <1>2, <1>3, <2>1, <2>4, MinutesOfDay
    <2>5. CASE Hour(r) /\ h + 1 = Hours
      <3>1. a2 = a + 1 - Minutes * Hours
        BY <1>1, <1>2, <1>3, <2>5, MinutesOfDay
      <3>. QED
        BY <2>1, <2>5, <3>1, <1>3
    <2>. QED
      BY <1>3, <2>2, <2>3, <2>4, <2>5
  <1>5. a3 \in {a, a + Minutes, a + Minutes - Minutes * Hours}
    BY <1>1, <1>2, MinutesOfDay
  <1>. HIDE DEF a, a2, a3
  <1>6. /\ Time(s, m, h) = s + Seconds * a
        /\ Time(s2, m2, h2) = s2 + Seconds * a2
        /\ Time(s, m2, h2) = s + Seconds * a2
        /\ Time(s, m, h2) = s + Seconds * a3
    BY DEF Time, a, a2, a3
  <1>7. /\ Seconds * a \in Int /\ Day \in Int /\ Seconds * Minutes \in Int
        /\ Seconds * a2 \in {Seconds * a, Seconds * a + Seconds, Seconds * a + Seconds - Day}
        /\ Minute(r) => Seconds * a2 \in {Seconds * a + Seconds, Seconds * a + Seconds - Day}
        /\ ~Minute(r) => Seconds * a2 = Seconds * a
        /\ Seconds * a3 \in {Seconds * a, Seconds * a + Seconds * Minutes,
                             Seconds * a + Seconds * Minutes - Day}
    BY <1>4, <1>5, SecondsOfDay
  <1>8. Time(s2, m2, h2) \in {Time(s, m, h) + 1, Time(s, m, h) + 1 - Day}
    BY <1>1, <1>2, <1>3, <1>6, <1>7, Constants
  <1>9. /\ Time(s, m2, h2) \in {Time(s, m, h), Time(s, m, h) + Seconds,
                                Time(s, m, h) + Seconds - Day}
        /\ Time(s, m, h2) \in {Time(s, m, h), Time(s, m, h) + Seconds * Minutes,
                               Time(s, m, h) + Seconds * Minutes - Day}
        /\ Time(s, m, h) \in Int
    BY <1>1, <1>6, <1>7, Constants
  <1>. QED
    BY <1>7, <1>8, <1>9 DEF s, s2, m, m2, h, h2

-----------------------------------------------------------------------------
(* The inductive invariant: a call finds the registers as they were when it  *)
(* began, or one tick later, but for those it has just overwritten.          *)
Base == IF ticks = 0 THEN start ELSE Ticked(start)

ReadInv ==
  op = "read" =>
    /\ WellFormed(start) /\ step \in 0..3
    /\ reg = Base
    /\ \E k \in 0..3 : \A j \in 0..2 :
         j < step => value[j] = from_bcd(IF j < k THEN start[j] ELSE Base[j])

InitInv ==
  op = "init" =>
    /\ WellFormed(start) /\ step \in 0..6
    /\ reg[0] \in IF step < 2 THEN {Base[0]} ELSE IF step = 2 THEN {0} ELSE {start[0], Base[0]}
    /\ reg[1] = Base[1]
    /\ reg[2] = IF step = 5 THEN 0 ELSE Base[2]
    /\ step > 0 => value[0] \in {from_bcd(start[0]), from_bcd(Base[0])}
    /\ step > 3 => value[2] = from_bcd(Base[2])

IInv ==
  /\ WellFormed(reg)
  /\ op \in {"idle", "read", "init"} /\ step \in 0..6
  /\ value \in [0..2 -> Byte] /\ start \in [0..2 -> Byte] /\ ticks \in 0..1
  /\ ReadInv /\ InitInv

LEMMA BaseWellFormed ==
  ASSUME WellFormed(start)
  PROVE  WellFormed(Base)
  BY TickCounts DEF Base

LEMMA ZeroIsWellFormed ==
  ASSUME NEW r, NEW q, WellFormed(r), q \in [0..2 -> Byte],
         \A i \in 0..2 : q[i] = r[i] \/ q[i] = 0
  PROVE  WellFormed(q)
  <1>1. \A i \in 0..2 : q[i] = r[i] => Count(q, i) = Count(r, i)
    BY DEF Count
  <1>2. \A i \in 0..2 : q[i] = 0 => Count(q, i) = 0 /\ q[i] % 16 = 0
    <2>1. 0 % 128 = 0 /\ 0 % 256 = 0 /\ 0 % 64 = 0 /\ from_bcd(0) = 0 /\ 0 % 16 = 0
      BY DEF from_bcd
    <2>. QED
      BY <2>1, Constants DEF Count
  <1>. QED
    BY <1>1, <1>2, Constants DEF WellFormed

LEMMA FromBcdByte ==
  ASSUME NEW b \in Byte
  PROVE  from_bcd(b) \in Byte
  BY DEF from_bcd, Byte

(* Digits with a flag above them, and without one.                           *)
LEMMA Flagged128 ==
  ASSUME NEW x \in 0..127, x % 16 < 10, NEW f \in {0, 128}
  PROVE  x + f \in Byte /\ (x + f) % 16 < 10 /\ (x + f) % 128 = x
  BY DEF Byte

LEMMA Flagged64 ==
  ASSUME NEW x \in 0..63, x % 16 < 10, NEW f \in {0, 64}
  PROVE  x + f \in Byte /\ (x + f) % 16 < 10 /\ (x + f) % 64 = x
  BY DEF Byte

LEMMA Flagged256 ==
  ASSUME NEW x \in 0..127
  PROVE  x \in Byte /\ x % 256 = x
  BY DEF Byte

LEMMA WrittenTime ==
  ASSUME NEW s \in 0..Seconds - 1, NEW m \in 0..Minutes - 1, NEW h \in 0..Hours - 1,
         NEW halted \in {0, 128}, NEW twelve \in {0, 64}
  PROVE  WellFormed(Registers(to_bcd(s) + halted, to_bcd(m), to_bcd(h) + twelve))
  <1>. DEFINE a == to_bcd(s) + halted
              b == to_bcd(m)
              c == to_bcd(h) + twelve
              r == Registers(a, b, c)
  <1>1. s \in 0..79 /\ m \in 0..79 /\ h \in 0..39
    BY Constants
  <1>2. a \in Byte /\ a % 16 < 10 /\ from_bcd(a % 128) = s
    <2>1. to_bcd(s) \in 0..127 /\ to_bcd(s) % 16 < 10 /\ from_bcd(to_bcd(s)) = s
      BY <1>1, Digits
    <2>. QED
      BY <2>1, Flagged128
  <1>3. b \in Byte /\ b % 16 < 10 /\ from_bcd(b % 256) = m
    <2>1. to_bcd(m) \in 0..127 /\ to_bcd(m) % 16 < 10 /\ from_bcd(to_bcd(m)) = m
      BY <1>1, Digits
    <2>. QED
      BY <2>1, Flagged256
  <1>4. c \in Byte /\ c % 16 < 10 /\ from_bcd(c % 64) = h
    <2>1. to_bcd(h) \in 0..63 /\ to_bcd(h) % 16 < 10 /\ from_bcd(to_bcd(h)) = h
      <3>1. h \in 0..79 /\ h < 40
        BY <1>1
      <3>2. to_bcd(h) \in 0..127 /\ to_bcd(h) < 64 /\ to_bcd(h) % 16 < 10 /\ from_bcd(to_bcd(h)) = h
        BY <3>1, Digits
      <3>. QED
        BY <3>2
    <2>. QED
      BY <2>1, Flagged64
  <1>. HIDE DEF a, b, c
  <1>5. /\ r[0] = a /\ r[1] = b /\ r[2] = c /\ r \in [0..2 -> Byte]
    BY <1>2, <1>3, <1>4 DEF Registers
  <1>. HIDE DEF r
  <1>6. WellFormed(r)
    BY <1>2, <1>3, <1>4, <1>5, Constants DEF WellFormed, Count
  <1>. QED
    BY <1>6 DEF r, a, b, c

LEMMA InitIInv == ASSUME Init PROVE IInv
  BY WrittenTime DEF Init, IInv, ReadInv, InitInv, Byte

LEMMA TickIInv ==
  ASSUME IInv, Tick
  PROVE  IInv'
  <1>1. WellFormed(reg)' /\ ticks' \in 0..1
    BY TickCounts DEF IInv, Tick, MaxTicks
  <1>2. CASE op = "idle"
    BY <1>1, <1>2 DEF IInv, Tick, ReadInv, InitInv
  <1>3. CASE op \in {"read", "init"}
    <2>1. ticks = 0 /\ ticks' = 1 /\ Base = start /\ reg' = Ticked(reg)
          /\ Base' = Ticked(start) /\ UNCHANGED <<op, step, value, start>>
      BY <1>3 DEF IInv, Tick, MaxTicks, Base
    <2>2. CASE op = "read"
      <3>1. /\ WellFormed(start) /\ step \in 0..3 /\ reg = start
            /\ \A j \in 0..2 : j < step => value[j] = from_bcd(start[j])
        BY <2>1, <2>2 DEF IInv, ReadInv
      <3>2. \A j \in 0..2 : j < step =>
              value[j] = from_bcd(IF j < 3 THEN start[j] ELSE Base'[j])
        BY <3>1
      <3>. QED
        BY <1>1, <2>1, <2>2, <3>1, <3>2 DEF IInv, ReadInv, InitInv
    <2>3. CASE op = "init"
      <3>1. WellFormed(start) /\ step \in 0..1
        BY <2>3 DEF IInv, InitInv, Tick, SecondsWritten
      <3>2. reg[0] = start[0] /\ reg[1] = start[1] /\ reg[2] = start[2]
            /\ (step > 0 => value[0] = from_bcd(start[0]))
        BY <2>1, <2>3, <3>1 DEF IInv, InitInv
      <3>3. reg = start
        BY <3>1, <3>2 DEF IInv, WellFormed
      <3>. QED
        BY <1>1, <2>1, <2>3, <3>1, <3>2, <3>3 DEF IInv, ReadInv, InitInv
    <2>. QED
      BY <1>3, <2>2, <2>3
  <1>. QED
    BY <1>2, <1>3 DEF IInv

LEMMA ReadNextIInv ==
  ASSUME IInv, ReadNext
  PROVE  IInv'
  <1>1. /\ op = "read" /\ step \in 0..2 /\ WellFormed(start) /\ reg = Base /\ step' = step + 1
        /\ value' = [value EXCEPT ![step] = from_bcd(reg[step])]
        /\ UNCHANGED <<reg, op, start, ticks>> /\ Base' = Base
    BY DEF IInv, ReadInv, ReadNext, Base
  <1>2. value' \in [0..2 -> Byte]
    BY <1>1, FromBcdByte DEF IInv, WellFormed
  <1>3. PICK k \in 0..3 : \A j \in 0..2 :
          j < step => value[j] = from_bcd(IF j < k THEN start[j] ELSE Base[j])
    BY <1>1 DEF IInv, ReadInv
  <1>4. CASE k <= step
    <2>1. \A j \in 0..2 :
            j < step + 1 => value'[j] = from_bcd(IF j < k THEN start[j] ELSE Base[j])
      BY <1>1, <1>3, <1>4 DEF IInv
    <2>. QED
      BY <1>1, <1>2, <2>1 DEF IInv, ReadInv, InitInv
  <1>5. CASE k > step
    <2>1. \A j \in 0..2 :
            j < step + 1 => value'[j] = from_bcd(IF j < step THEN start[j] ELSE Base[j])
      BY <1>1, <1>3, <1>5 DEF IInv
    <2>. QED
      BY <1>1, <1>2, <2>1 DEF IInv, ReadInv, InitInv
  <1>. QED
    BY <1>1, <1>4, <1>5

LEMMA InitNextIInv ==
  ASSUME IInv, InitNext
  PROVE  IInv'
  <1>. DEFINE i == IF step < 3 THEN 0 ELSE 2
              k == IF step < 3 THEN 0 ELSE 3
  <1>1. /\ op = "init" /\ step \in 0..5 /\ WellFormed(start) /\ WellFormed(Base) /\ step' = step + 1
        /\ value' = IF step = k THEN [value EXCEPT ![i] = from_bcd(reg[i])] ELSE value
        /\ reg' = [reg EXCEPT ![i] = Written(i, k)]
        /\ UNCHANGED <<op, start, ticks>> /\ Base' = Base
    BY BaseWellFormed DEF IInv, InitInv, InitNext, Base
  <1>2. reg[0] \in Byte /\ reg[2] \in Byte /\ value[0] \in Byte /\ value[2] \in Byte
        /\ reg \in [0..2 -> Byte] /\ value \in [0..2 -> Byte] /\ to_bcd(0) = 0
        /\ start[0] \in Byte /\ Base[0] \in Byte /\ Base[2] \in Byte /\ 0 \in Byte
    BY <1>1 DEF IInv, WellFormed, to_bcd, Byte
  <1>3. /\ to_bcd(from_bcd(start[0])) = start[0] /\ to_bcd(from_bcd(Base[0])) = Base[0]
        /\ to_bcd(from_bcd(Base[2])) = Base[2]
    BY <1>1, RoundTrip DEF WellFormed
  <1>4. value' \in [0..2 -> Byte]
    BY <1>1, <1>2, FromBcdByte
  <1>5. /\ reg'[0] \in IF step' < 2 THEN {Base[0]} ELSE IF step' = 2 THEN {0} ELSE {start[0], Base[0]}
        /\ reg'[1] = Base[1]
        /\ reg'[2] = IF step' = 5 THEN 0 ELSE Base[2]
        /\ step' > 0 => value'[0] \in {from_bcd(start[0]), from_bcd(Base[0])}
        /\ step' > 3 => value'[2] = from_bcd(Base[2])
        /\ DOMAIN reg' = 0..2
    <2>0. /\ reg[0] \in IF step < 2 THEN {Base[0]} ELSE IF step = 2 THEN {0} ELSE {start[0], Base[0]}
          /\ reg[1] = Base[1]
          /\ reg[2] = IF step = 5 THEN 0 ELSE Base[2]
          /\ step > 0 => value[0] \in {from_bcd(start[0]), from_bcd(Base[0])}
          /\ step > 3 => value[2] = from_bcd(Base[2])
      BY <1>1 DEF IInv, InitInv
    <2>1. CASE step = 0
      BY <1>1, <1>2, <2>0, <2>1 DEF Written
    <2>2. CASE step = 1
      BY <1>1, <1>2, <2>0, <2>2 DEF Written
    <2>3. CASE step = 2
      BY <1>1, <1>2, <1>3, <2>0, <2>3 DEF Written
    <2>4. CASE step = 3
      BY <1>1, <1>2, <2>0, <2>4 DEF Written
    <2>5. CASE step = 4
      BY <1>1, <1>2, <2>0, <2>5 DEF Written
    <2>6. CASE step = 5
      BY <1>1, <1>2, <1>3, <2>0, <2>6 DEF Written
    <2>. QED
      BY <1>1, <2>1, <2>2, <2>3, <2>4, <2>5, <2>6
  <1>6. InitInv'
    BY <1>1, <1>5 DEF InitInv
  <1>7. WellFormed(reg')
    <2>1. /\ \A r \in {start, Base} : r \in [0..2 -> Byte]
          /\ \A j \in 0..2 : start[j] % 16 < 10 /\ Base[j] % 16 < 10
      BY <1>1 DEF WellFormed
    <2>. DEFINE q == [Base EXCEPT ![0] = IF reg'[0] = start[0] THEN start[0] ELSE Base[0]]
    <2>2. WellFormed(q)
      <3>1. q \in [0..2 -> Byte] /\ q[0] \in {start[0], Base[0]} /\ q[1] = Base[1] /\ q[2] = Base[2]
        BY <1>2, <2>1
      <3>2. /\ Count(q, 0) \in {Count(start, 0), Count(Base, 0)} /\ Count(q, 1) = Count(Base, 1)
            /\ Count(q, 2) = Count(Base, 2)
        BY <3>1 DEF Count
      <3>. QED
        BY <1>1, <3>1, <3>2 DEF WellFormed
    <2>3. reg' \in [0..2 -> Byte] /\ \A j \in 0..2 : reg'[j] = q[j] \/ reg'[j] = 0
      <3>1. \A j \in 0..2 : reg'[j] \in {q[j], 0}
        BY <1>1, <1>2, <1>5, <2>1
      <3>2. q \in [0..2 -> Byte]
        BY <2>2 DEF WellFormed
      <3>. QED
        BY <1>1, <1>2, <1>5, <3>1, <3>2
    <2>. QED
      BY <2>2, <2>3, ZeroIsWellFormed
  <1>. QED
    BY <1>1, <1>4, <1>6, <1>7 DEF IInv, ReadInv

LEMMA BeginIInv ==
  ASSUME IInv, NEW c \in {"read", "init"}, Begin(c)
  PROVE  IInv'
  <1>1. Base' = reg /\ start' = reg /\ step' = 0 /\ ticks' = 0 /\ UNCHANGED <<reg, value>>
        /\ op' = c
    BY DEF Begin, Base
  <1>. QED
    BY <1>1 DEF IInv, ReadInv, InitInv, WellFormed

LEMMA ReturnIInv ==
  ASSUME IInv, Return
  PROVE  IInv'
  BY DEF IInv, Return, ReadInv, InitInv, Byte

LEMMA SetRegisterIInv ==
  ASSUME IInv, NEW i \in 0..2, NEW d \in 0..Limit[i] - 1, SetRegister(i, d)
  PROVE  IInv'
  <1>1. d \in 0..79 /\ (i = 2 => d < 40) /\ Limit[i] \in 1..80
    BY Constants
  <1>2. /\ to_bcd(d) \in Byte /\ to_bcd(d) % 16 < 10 /\ from_bcd(to_bcd(d) % Flag[i]) = d
    <2>1. /\ to_bcd(d) \in 0..127 /\ to_bcd(d) % 16 < 10 /\ from_bcd(to_bcd(d)) = d
          /\ i = 2 => to_bcd(d) < 64
      BY <1>1, Digits
    <2>2. to_bcd(d) % Flag[i] = to_bcd(d) /\ to_bcd(d) \in Byte
      BY <2>1, Constants DEF Byte
    <2>. QED
      BY <2>1, <2>2
  <1>3. /\ reg' \in [0..2 -> Byte]
        /\ \A j \in 0..2 : reg'[j] = IF j = i THEN to_bcd(d) ELSE reg[j]
    BY <1>2 DEF IInv, WellFormed, SetRegister
  <1>4. \A j \in 0..2 : Count(reg', j) = IF j = i THEN d ELSE Count(reg, j)
    BY <1>2, <1>3 DEF Count
  <1>5. WellFormed(reg')
    BY <1>1, <1>2, <1>3, <1>4, Constants DEF WellFormed, IInv
  <1>. QED
    BY <1>5 DEF IInv, ReadInv, InitInv, SetRegister

LEMMA WriteTimeIInv ==
  ASSUME IInv, NEW s \in 0..Seconds - 1, NEW m \in 0..Minutes - 1, NEW h \in 0..Hours - 1,
         WriteTime(s, m, h)
  PROVE  IInv'
  <1>1. to_bcd(s) + 0 = to_bcd(s) /\ to_bcd(h) + 0 = to_bcd(h)
    <2>1. s \in 0..79 /\ h \in 0..79
      BY Constants
    <2>2. to_bcd(s) \in 0..127 /\ to_bcd(h) \in 0..127
      BY <2>1, Digits
    <2>. QED
      BY <2>2
  <1>2. WellFormed(Registers(to_bcd(s), to_bcd(m), to_bcd(h)))
    BY <1>1, WrittenTime
  <1>. QED
    BY <1>2 DEF WriteTime, IInv, ReadInv, InitInv

LEMMA NextIInv ==
  ASSUME IInv, [Next]_vars
  PROVE  IInv'
  <1>1. CASE UNCHANGED vars
    BY <1>1 DEF vars, IInv, ReadInv, InitInv, Base
  <1>. QED
    BY <1>1, TickIInv, ReadNextIInv, InitNextIInv, BeginIInv, ReturnIInv, SetRegisterIInv,
       WriteTimeIInv DEF Next

-----------------------------------------------------------------------------
(* Theorems.                                                                 *)

(* Whatever functions run and whenever the chip ticks, its registers hold    *)
(* decimal digits in range.                                                  *)
THEOREM TypeOKAlways == Spec => []TypeOK
  <1>1. IInv => TypeOK
    <2>. SUFFICES ASSUME IInv PROVE TypeOK
      OBVIOUS
    <2>1. \A i \in 0..2 : Count(reg, i) < Limit[i]
      BY Constants DEF IInv, WellFormed
    <2>. QED
      BY <2>1 DEF IInv, WellFormed, TypeOK, MaxTicks, Byte
  <1>. QED
    BY <1>1, InitIInv, NextIInv, PTL DEF Spec

LEMMA TimesOf ==
  ASSUME NEW r
  PROVE  TimeIn(r) = Time(Count(r, 0), Count(r, 1), Count(r, 2))
  BY DEF TimeIn, TimeOf, Time

(* For every length of minute, hour and day that the registers can count: a  *)
(* time that was read is late by nothing, a second, a minute or an hour.     *)
THEOREM ReadIsNeverBehindAlways == Spec => []ReadIsNeverBehind
  <1>1. IInv => ReadIsNeverBehind
    <2>. SUFFICES ASSUME IInv, op = "read", step = 3, reg[0] < CH, reg[2] < Flag[2]
                  PROVE  \E late \in IF ticks = 0 THEN {0} ELSE {0, 1, Seconds, Seconds * Minutes} :
                           TimeOf(value) - TimeIn(start) \in {late, late - Day}
      BY DEF ReadIsNeverBehind
    <2>1. PICK k \in 0..3 : \A j \in 0..2 :
            value[j] = from_bcd(IF j < k THEN start[j] ELSE Base[j])
      BY DEF IInv, ReadInv
    <2>2. WellFormed(start) /\ WellFormed(Base) /\ reg = Base
      BY BaseWellFormed DEF IInv, ReadInv
    <2>3. /\ Base[0] < 128 /\ start[0] < 128 /\ Base[2] < 64 /\ start[2] < 64
      <3>1. Base[0] < 128 /\ Base[2] < 64
        BY <2>2, Constants DEF CH
      <3>2. Base[0] \div 128 = start[0] \div 128 /\ Base[2] \div 64 = start[2] \div 64
        BY <2>2, TickCounts, Constants DEF Base
      <3>. QED
        BY <2>2, <3>1, <3>2 DEF WellFormed, Byte
    <2>4. \A j \in 0..2 : from_bcd(start[j]) = Count(start, j) /\ from_bcd(Base[j]) = Count(Base, j)
      <3>1. \A j \in 0..2 : start[j] % Flag[j] = start[j] /\ Base[j] % Flag[j] = Base[j]
        BY <2>2, <2>3, Constants DEF WellFormed, Byte
      <3>. QED
        BY <3>1 DEF Count
    <2>5. TimeOf(value) = Time(value[0], value[1], value[2])
      BY DEF TimeOf, Time
    <2>6. TimeIn(start) = Time(Count(start, 0), Count(start, 1), Count(start, 2))
      BY TimesOf
    <2>7. CASE ticks = 0
      <3>1. TimeOf(value) = TimeIn(start) /\ TimeIn(start) \in Int
        BY <2>1, <2>2, <2>4, <2>5, <2>6, <2>7, TickTime DEF Base
      <3>. QED
        BY <2>7, <3>1
    <2>8. CASE ticks # 0
      <3>1. Base = Ticked(start)
        BY <2>8 DEF Base
      <3>2. \A j \in 0..2 : value[j] = IF j < k THEN Count(start, j) ELSE Count(Ticked(start), j)
        BY <2>1, <2>4, <3>1
      <3>3. /\ TimeIn(start) \in Int /\ Day \in Int /\ Seconds * Minutes \in Int
            /\ TimeOf(value) \in {TimeIn(start) + late : late \in {0, 1, Seconds, Seconds * Minutes}}
                              \cup {TimeIn(start) + late - Day : late \in {1, Seconds, Seconds * Minutes}}
        <4>1. CASE k = 0
          BY <2>2, <2>5, <2>6, <3>2, <4>1, TickTime
        <4>2. CASE k = 1
          BY <2>2, <2>5, <2>6, <3>2, <4>2, TickTime
        <4>3. CASE k = 2
          BY <2>2, <2>5, <2>6, <3>2, <4>3, TickTime
        <4>4. CASE k = 3
          BY <2>2, <2>5, <2>6, <3>2, <4>4, TickTime
        <4>. QED
          BY <4>1, <4>2, <4>3, <4>4
      <3>. QED
        BY <2>8, <3>3, Constants
    <2>. QED
      BY <2>7, <2>8
  <1>. QED
    BY <1>1, InitIInv, NextIInv, PTL DEF Spec

(* init_uhr () loses no more than one tick of any clock.                     *)
THEOREM InitKeepsTimeAlways == Spec => []InitKeepsTime
  <1>1. IInv => InitKeepsTime
    <2>. SUFFICES ASSUME IInv, op = "init", step = 6
                  PROVE  \E off \in IF ticks = 0 THEN {0} ELSE {0, -1, Seconds - 1} :
                           TimeIn(reg) - (TimeIn(start) + ticks) \in {off, off - Day}
      BY DEF InitKeepsTime
    <2>1. /\ reg[0] \in {start[0], Base[0]} /\ reg[1] = Base[1] /\ reg[2] = Base[2]
          /\ WellFormed(start) /\ ticks \in 0..1
      BY DEF IInv, InitInv
    <2>3. /\ Count(reg, 0) \in {Count(start, 0), Count(Base, 0)}
          /\ Count(reg, 1) = Count(Base, 1) /\ Count(reg, 2) = Count(Base, 2)
      BY <2>1 DEF Count
    <2>4. /\ TimeIn(start) = Time(Count(start, 0), Count(start, 1), Count(start, 2))
          /\ TimeIn(reg) = Time(Count(reg, 0), Count(reg, 1), Count(reg, 2))
      BY TimesOf
    <2>5. CASE ticks = 0
      <3>1. TimeIn(reg) = TimeIn(start) /\ TimeIn(start) \in Int
        BY <2>1, <2>3, <2>4, <2>5, TickTime DEF Base
      <3>. QED
        BY <2>5, <3>1
    <2>6. CASE ticks = 1
      <3>1. Base = Ticked(start)
        BY <2>6 DEF Base
      <3>2. /\ TimeIn(start) \in Int /\ Day \in Int
            /\ TimeIn(reg) \in {TimeIn(start) + 1, TimeIn(start) + 1 - Day, TimeIn(start),
                                TimeIn(start) + Seconds, TimeIn(start) + Seconds - Day}
        BY <2>1, <2>3, <2>4, <3>1, TickTime
      <3>3. \E off \in {0, -1, Seconds - 1} :
              TimeIn(reg) - (TimeIn(start) + ticks) \in {off, off - Day}
        BY <2>6, <3>2, Constants
      <3>. QED
        BY <2>6, <3>3
    <2>. QED
      BY <2>1, <2>5, <2>6
  <1>. QED
    BY <1>1, InitIInv, NextIInv, PTL DEF Spec

=============================================================================
