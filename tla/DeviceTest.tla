------------------------------- MODULE DeviceTest -------------------------------
(***************************************************************************)
(* device-test/src: the machine runs rtc_test (RtcTest) or video_test,     *)
(* which draws a frame and prints a line whenever enough milliseconds have *)
(* passed.  Both rely on the uptime register, which wraps.  Times of       *)
(* video_test are unsigned longs of 32 bits, as wide as the register but   *)
(* in milliseconds: the last of them before the wrap is far below the last *)
(* unsigned long.                                                          *)
(***************************************************************************)
EXTENDS RtcTest

CONSTANTS
  Milli,   (* Microseconds of a millisecond: 1000.                         *)
  Frame    (* Milliseconds between two frames, 1000 / FPS: 33.             *)

(* Milliseconds are shorter than the register by more than a second, and   *)
(* the register does not wrap within a second and a turn of the loop.      *)
ASSUME MilliAssumption ==
  /\ Milli \in Nat \ {0, 1} /\ Second % Milli = 0 /\ Frame \in Nat
  /\ Wrap - (Wrap - 1) \div Milli > Second \div Milli
  /\ Frame < Second \div Milli
  /\ Second + 2 * Milli + MaxLag <= Wrap

VARIABLES
  test,     (* The program, "rtc" or "video".                              *)
  last,     (* The local of that name: when the last frame was drawn,      *)
  fps_last, (* and when the last line was printed (fps, the number in the  *)
            (* line, is left out).                                         *)
  drawn,    (* History: the same two moments in microseconds since the     *)
  told      (* start.                                                      *)

video    == <<last, fps_last, drawn, told>>
testVars == <<rtcVars, test, video>>

TestInit ==
  /\ RtcInit
  /\ test \in {"rtc", "video"}
  /\ last = 0 /\ fps_last = 0 /\ drawn = 0 /\ told = 0

upt == Uptime \div Milli

(* A mutant: the moment it is due is compared, not the time passed.        *)
PassedByDeadline(since, pause) == upt > since + pause

(* A difference of unsigned longs.                                         *)
Passed(since, pause) == (upt - since) % Wrap > pause

(* One turn of the loop of video_test: the register is read once.          *)
VideoTurn ==
  /\ test = "video"
  /\ IF Passed(last, Frame) THEN last' = upt /\ drawn' = now
     ELSE UNCHANGED <<last, drawn>>
  /\ IF Passed(fps_last, Second \div Milli) THEN fps_last' = upt /\ told' = now
     ELSE UNCHANGED <<fps_last, told>>
  /\ late' = 0
  /\ UNCHANGED <<boot, now, phase, sec, field, rtc, asked, test>>

Time     == Elapse /\ UNCHANGED <<test, video>>
RtcTurn  == test = "rtc" /\ Program /\ UNCHANGED <<test, video>>

TestNext == Time \/ RtcTurn \/ VideoTurn

TestSpec == TestInit /\ [][TestNext]_testVars

(* Time passes, and the program that was started runs.                     *)
TestFairSpec == TestSpec /\ WF_testVars(Time) /\ WF_testVars(RtcTurn)

-----------------------------------------------------------------------------
(* rtc_test, of which RtcTest says more.                                   *)
SecondsPrinted == test = "rtc" => EverySecondPrinted

(* A pause of `ms` milliseconds that began at `then` is not overdue by     *)
(* more than one turn of the loop.                                         *)
InTime(then, ms) == now - then <= (ms + 1) * Milli + MaxLag

NotEarly(then, ms) == now - then > ms * Milli \/ now \div Wrap # then \div Wrap

(* Frames and lines of video_test keep their distance, in real time: never *)
(* closer than 33 ms and a second but across a wrap of the register, where *)
(* one comes early; never later than a millisecond and one turn after. It  *)
(* goes on after the wrap, where rtc_test falls silent.                    *)
FramesPaced ==
  /\ [](test = "video" => InTime(drawn, Frame) /\ InTime(told, Second \div Milli))
  /\ [][ /\ drawn' # drawn => NotEarly(drawn, Frame)
         /\ told' # told   => NotEarly(told, Second \div Milli) ]_testVars
=================================================================================
