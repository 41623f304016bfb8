-------------------------------- MODULE RTC --------------------------------
(***************************************************************************)
(* The wakeup alarm of ffi/rtc.lua.  One fact is kept twice: the driver    *)
(* has an alarm time and an interrupt switch, the Lua object has a flag    *)
(* and the time of the last alarm it scheduled.  Each call talks to the    *)
(* driver by open, ioctl and close, and may fail at any of them.           *)
(*                                                                         *)
(* A broken-down time is modelled by the epoch it stands for: gmtime_r and *)
(* timegm are inverse.  Time is the driver's clock; the system's may differ*)
(* from it until HCToSys.  X_... is a variant of X with a plausible bug.   *)
(***************************************************************************)
EXTENDS Integers

CONSTANTS
  MaxTime,    \* bound: the last instant of a behaviour
  Proximity   \* validateWakeupAlarmByProximity's proximity

ASSUME TimeAssumption == MaxTime \in Nat \ {0} /\ Proximity \in Nat

VARIABLES
  rtc,         \* the hardware clock
  ahead,       \* the system clock's lead over it
  alarm,       \* the driver's alarm time; 0 when none was ever set
  aie,         \* whether its alarm interrupt is enabled
  fired,       \* (history) the alarm times at which it fired
  wanted,      \* (history) whether the last request it took asked for the interrupt
  dodgy_rtc,   \* whether reads of the alarm may be bogus
  _wakeup_scheduled,
  _wakeup_scheduled_tm    \* 0 stands for nil

driver == <<rtc, alarm, aie, fired, wanted>>
object == <<_wakeup_scheduled, _wakeup_scheduled_tm>>
alarmVars == <<driver, object, ahead, dodgy_rtc>>

Times  == 1 .. MaxTime
Args   == {"nil", "true", "false"}          \* an optional boolean argument
Results == {"open", "ioctl", "close", "ok"}  \* the call that fails, if any

AlarmTypeOK ==
  /\ rtc \in Times /\ ahead \in {-1, 0, 1}
  /\ alarm \in Times \cup {0} /\ aie \in BOOLEAN /\ fired \subseteq Times
  /\ dodgy_rtc \in BOOLEAN /\ wanted \in BOOLEAN
  /\ _wakeup_scheduled \in BOOLEAN
  /\ _wakeup_scheduled_tm \in Times \cup {0}

AlarmInit ==
  /\ rtc = 1 /\ ahead \in {-1, 0, 1}
  /\ alarm = 0 /\ aie = FALSE /\ fired = {} /\ wanted = FALSE
  /\ dodgy_rtc \in BOOLEAN
  /\ _wakeup_scheduled = FALSE /\ _wakeup_scheduled_tm = 0

-----------------------------------------------------------------------------
(* The driver. An enabled alarm whose time has come fires at once.         *)

Arm(time, enabled) ==
  /\ alarm' = time
  /\ aie' = (enabled /\ time > rtc)
  /\ fired' = IF enabled /\ time # 0 /\ time <= rtc THEN fired \cup {time}
              ELSE fired
  /\ UNCHANGED rtc

Tick ==
  /\ rtc < MaxTime
  /\ rtc' = rtc + 1
  /\ aie' = (aie /\ alarm # rtc + 1)
  /\ fired' = IF aie /\ alarm = rtc + 1 THEN fired \cup {alarm} ELSE fired
  /\ UNCHANGED <<alarm, wanted, object, ahead, dodgy_rtc>>

-----------------------------------------------------------------------------
(* The calls of the object. *)

\* What a caller asks for by its optional argument: true by default.
Asked(arg) == arg # "false"

\* What becomes of it: (enabled ~= nil) and enabled or true.
Enabled(arg) == (arg # "nil" /\ arg = "true") \/ TRUE

\* The enabled field of the request is left 0.
ToDriver_Disabled(time, arg, result) ==
  IF result \in {"close", "ok"}
  THEN Arm(time, FALSE) /\ wanted' = Asked(arg)
  ELSE UNCHANGED driver

\* open, ioctl, close: the driver acts when the first two succeed.
ToDriver(time, arg, result) ==
  IF result \in {"close", "ok"}
  THEN Arm(time, Enabled(arg)) /\ wanted' = Asked(arg)
  ELSE UNCHANGED driver

toggleAlarmInterrupt(arg, result) ==
  /\ ToDriver(alarm, arg, result)
  /\ UNCHANGED <<object, ahead, dodgy_rtc>>

\* The object notes the time before it asks the driver, the flag after.
setWakeupAlarm(epoch, arg, result) ==
  /\ _wakeup_scheduled_tm' = epoch
  /\ ToDriver(epoch, arg, result)
  /\ _wakeup_scheduled' = IF result = "ok" THEN Enabled(arg) ELSE _wakeup_scheduled
  /\ UNCHANGED <<ahead, dodgy_rtc>>

unsetWakeupAlarm(result) ==
  /\ ToDriver(alarm, "false", result)
  /\ _wakeup_scheduled' = FALSE
  /\ _wakeup_scheduled_tm' = 0
  /\ UNCHANGED <<ahead, dodgy_rtc>>

\* The system clock is set by others, or from the hardware clock.
SetSystemClock(lead) ==
  /\ ahead' = lead
  /\ UNCHANGED <<driver, object, dodgy_rtc>>

HCToSys == SetSystemClock(0)

\* The driver's alarm is not looked at.
validateWakeupAlarmByProximity_NoSys(task_alarm, alarm_sys) ==
  LET tm   == _wakeup_scheduled_tm
      diff == rtc + ahead - tm
  IN  /\ tm # 0
      /\ task_alarm # 0 => tm = task_alarm
      /\ diff >= 0 /\ diff < Proximity

(* What it answers when the driver's alarm reads as alarm_sys, for the     *)
(* alarm of a task (0 for nil).  A bogus alarm is taken for the object's.  *)
validateWakeupAlarmByProximity(task_alarm, alarm_sys) ==
  LET tm   == _wakeup_scheduled_tm
      diff == rtc + ahead - tm
  IN  /\ tm # 0
      /\ alarm_sys = tm \/ (dodgy_rtc /\ alarm_sys = 0)
      /\ task_alarm # 0 => tm = task_alarm
      /\ diff >= 0 /\ diff < Proximity

AlarmNext ==
  \/ Tick
  \/ \E result \in Results :
       \/ \E arg \in Args : \/ toggleAlarmInterrupt(arg, result)
                            \/ \E epoch \in Times : setWakeupAlarm(epoch, arg, result)
       \/ unsetWakeupAlarm(result)
  \/ HCToSys
  \/ \E lead \in {-1, 0, 1} : SetSystemClock(lead)

AlarmSpec == AlarmInit /\ [][AlarmNext]_alarmVars

-----------------------------------------------------------------------------
(* Properties *)

(* A wakeup is taken for a task's alarm only when that alarm fired, on a   *)
(* sound RTC and with a system clock that is not ahead of it, whatever     *)
(* calls failed before (validateWakeupAlarmByProximity).                   *)
ValidatedHasFired ==
  \A task_alarm \in Times \cup {0} :
    /\ ~dodgy_rtc /\ ahead <= 0
    /\ validateWakeupAlarmByProximity(task_alarm, alarm)
    => _wakeup_scheduled_tm \in fired

(* getWakeupAlarmEpoch finds a time whenever an alarm is scheduled, after  *)
(* any sequence of calls and failures.                                     *)
ScheduledHasTime == _wakeup_scheduled => _wakeup_scheduled_tm # 0

(* An alarm fires at its time unless the last request that reached the    *)
(* driver asked for the interrupt to be off: no failed or later call       *)
(* leaves a time whose interrupt is wanted to pass silently                *)
(* (setWakeupAlarm, toggleAlarmInterrupt).  Nothing is said of an alarm    *)
(* nobody wants any more: the code leaves that one enabled (Enabled).      *)
AlarmFires == wanted /\ alarm # 0 => (aie /\ alarm > rtc) \/ alarm \in fired

\* As the code is, no request takes the interrupt away, wanted or not.
NeverDisabled == alarm # 0 => (aie /\ alarm > rtc) \/ alarm \in fired

AlarmInv == AlarmTypeOK /\ AlarmFires /\ NeverDisabled /\ ScheduledHasTime
=============================================================================
