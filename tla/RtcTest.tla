--------------------------------- MODULE RtcTest ---------------------------------
(***************************************************************************)
(* device-test/src/rtc.c (rtc_test) over base-port/base/src/rtc.c          *)
(* (__timer_uptime, __timer_rtc): poll a microsecond uptime until the next *)
(* whole second has passed, read the date one register at a time, print a  *)
(* line.  The uptime register has 32 bits and wraps; the date moves on     *)
(* between two of its six reads.                                           *)
(*                                                                         *)
(* A date is a mixed-radix number: the field second first, of constant     *)
(* radix each (months of different lengths are left out).                  *)
(***************************************************************************)
EXTENDS Integers, Sequences

CONSTANTS
  Second,   (* Microseconds of a second: 1000000.                          *)
  Wrap,     (* Values of the uptime register: 2^32.                        *)
  Radix,    (* Values of each date field but the last: <<60, 60, 24, ...>>. *)
  Boots,    (* Dates, in microseconds, at which the machine may start: the  *)
            (* seconds of the date need not begin with those of the uptime. *)
  MaxLag,   (* Microseconds one turn of the program's loop may take.       *)
  MaxNow    (* Bounds the model: time stops there.                         *)

ASSUME SecondAssumption == Second \in Nat \ {0} /\ Wrap \in Nat \ {0}
ASSUME RadixAssumption  == Radix \in Seq(Nat \ {0})
ASSUME BootsAssumption  == Boots \subseteq Nat /\ MaxNow \in Nat

LastSecond == (Wrap - 1) \div Second

(* One turn is shorter than what is left of the register after the last    *)
(* whole second it can show (967295 us on the real register).              *)
ASSUME LagAssumption ==
  MaxLag \in Nat /\ MaxLag < Second /\ MaxLag < Wrap - LastSecond * Second

VARIABLES
  boot,    (* The date at which the machine started.                       *)
  now,     (* Microseconds since then.                                     *)
  phase,   (* "poll", "rtc" (reading the date) or "print".                 *)
  sec,     (* The local of that name: seconds to wait for.                 *)
  field,   (* The date field to be read next.                              *)
  rtc,     (* The local of that name: the fields read.                     *)
  asked,   (* History: the date when the read of rtc began.                *)
  late     (* History: microseconds since the last poll.                   *)

time == <<boot, now, late>>
rtcVars == <<time, phase, sec, field, rtc, asked>>

Fields == 1..(Len(Radix) + 1)

(* Seconds that one unit of a field stands for.                            *)
Weight[k \in Fields] == IF k = 1 THEN 1 ELSE Weight[k - 1] * Radix[k - 1]

Field(k, date) ==
  IF k <= Len(Radix) THEN (date \div Weight[k]) % Radix[k] ELSE date \div Weight[k]

(* The date that the fields up to k spell.                                 *)
Spelled(d) ==
  LET upto[k \in 0..Len(d)] == IF k = 0 THEN 0 ELSE upto[k - 1] + d[k] * Weight[k]
  IN  upto[Len(d)]

Date == (boot + now) \div Second

RtcTypeOK ==
  /\ boot \in Boots /\ now \in 0..MaxNow
  /\ phase \in {"poll", "rtc", "print"}
  /\ sec \in 1..(LastSecond + 1)
  /\ field \in Fields
  /\ rtc \in [Fields -> Nat]
  /\ asked \in Nat
  /\ late \in 0..MaxLag

RtcInit ==
  /\ boot \in Boots /\ now = 0 /\ late = 0
  /\ phase = "poll" /\ sec = 1 /\ field = 1
  /\ rtc = [k \in Fields |-> 0] /\ asked = 0

-----------------------------------------------------------------------------
Elapse ==
  /\ now < MaxNow
  /\ late < MaxLag
  /\ now' = now + 1 /\ late' = late + 1
  /\ UNCHANGED <<boot, phase, sec, field, rtc, asked>>

(* A mutant: a wider register, whose value does not wrap.                  *)
Uptime64 == now

(* __timer_uptime                                                          *)
Uptime == now % Wrap

(* A mutant: a second is due when it begins.                               *)
EarlyDue == Uptime \div Second >= sec - 1

Due == Uptime \div Second >= sec

Poll ==
  /\ phase = "poll"
  /\ phase' = IF Due THEN "rtc" ELSE "poll"
  /\ late' = 0
  /\ asked' = Date
  /\ UNCHANGED <<boot, now, sec, field, rtc>>

(* A mutant: the most significant register is read first.                  *)
FieldReadFromTheTop(k) == Len(Radix) + 2 - k

(* A mutant: one register offset is used twice.                            *)
FieldReadTwice(k) == IF k = 2 THEN 1 ELSE k

(* __timer_rtc reads the registers in ascending order, the seconds first.  *)
FieldRead(k) == k

ReadField ==
  /\ phase = "rtc"
  /\ LET k == FieldRead(field) IN rtc' = [rtc EXCEPT ![k] = Field(k, Date)]
  /\ \/ field \in 1..Len(Radix) /\ field' = field + 1 /\ UNCHANGED phase
     \/ field = Len(Radix) + 1 /\ field' = 1 /\ phase' = "print"
  /\ UNCHANGED <<time, sec, asked>>

(* A mutant: seconds are skipped.                                          *)
PrintLineSkipping ==
  /\ phase = "print"
  /\ phase' = "poll"
  /\ sec' = sec + 2
  /\ UNCHANGED <<time, field, rtc, asked>>

PrintLine ==
  /\ phase = "print"
  /\ phase' = "poll"
  /\ sec' = sec + 1
  /\ UNCHANGED <<time, field, rtc, asked>>

Program == Poll \/ ReadField \/ PrintLine

RtcNext == Elapse \/ Program

RtcSpec == RtcInit /\ [][RtcNext]_rtcVars

-----------------------------------------------------------------------------
(* The line for second n is printed when second n is over and at most two  *)
(* turns of the loop later; no line is printed from a wrapped register.    *)
LinesOnTime ==
  phase = "print" =>
    sec * Second <= now /\ now < sec * Second + 2 * MaxLag

(* A date read across a rollover may be wrong (10:59:59 can print as       *)
(* 11:00:59), but it is never behind the moment the read began, because    *)
(* the fields are read from the least significant one up.                  *)
DateNeverBehind == phase = "print" => Spelled(rtc) >= asked

(* A date is torn only by a rollover: if no field but the seconds changed  *)
(* while it was read, it is a date between the first and the last read.    *)
TornOnlyByRollover ==
  phase = "print" /\ (\A k \in Fields \ {1} : Field(k, asked) = Field(k, Date))
    => Spelled(rtc) \in asked..Date

(* Every second up to the last one the register can show gets its line.    *)
(* There the program falls silent: RtcTypeOK has sec stop at LastSecond + 1, *)
(* for which it polls for ever (after 4294 seconds on the real register).  *)
EverySecondPrinted ==
  \A n \in 1..LastSecond : <>(phase = "print" /\ sec = n)
=================================================================================
