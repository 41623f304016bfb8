---------------------------- MODULE DriverProofs ----------------------------
(***************************************************************************)
(* The theorems about the drivers koreader-base talks to by ioctl: the     *)
(* wakeup alarm, for any bounds of time and proximity, and the refreshes   *)
(* of an e-ink screen, for any devices and any number of markers.          *)
(***************************************************************************)
EXTENDS RTC, MxcRefresh, TLAPS

-----------------------------------------------------------------------------
(* The wakeup alarm.                                                       *)

\* Arm keeps the driver's alarm to come, for a time it may be given.
LEMMA ArmFires ==
  ASSUME AlarmInv, NEW time \in Times \cup {0}, NEW arg \in Args,
         Arm(time, Enabled(arg))
  PROVE  /\ alarm' \in Times \cup {0} /\ aie' \in BOOLEAN /\ fired' \subseteq Times
         /\ rtc' = rtc
         /\ NeverDisabled'
<1>1. Enabled(arg) BY DEF Enabled
<1>2. /\ alarm' = time /\ rtc' = rtc
      /\ aie' = (time > rtc)
      /\ fired' = IF time # 0 /\ time <= rtc THEN fired \cup {time} ELSE fired
  BY <1>1 DEF Arm
<1>3. rtc \in Times /\ fired \subseteq Times BY DEF AlarmInv, AlarmTypeOK
<1>4. alarm' # 0 => (aie' /\ alarm' > rtc') \/ alarm' \in fired'
  <2>1. CASE time > rtc BY <2>1, <1>2
  <2>2. CASE time <= rtc BY <2>2, <1>2
  <2>3. time \in Int /\ rtc \in Int BY <1>3, TimeAssumption DEF Times
  <2> QED BY <2>1, <2>2, <2>3
<1>5. fired' \subseteq Times
  <2>1. time # 0 => time \in Times OBVIOUS
  <2> QED BY <1>2, <1>3, <2>1
<1> QED BY <1>2, <1>4, <1>5 DEF NeverDisabled

\* So does a call that may fail on its way to the driver.
LEMMA ToDriverFires ==
  ASSUME AlarmInv, NEW time \in Times \cup {0}, NEW arg \in Args,
         NEW result \in Results, ToDriver(time, arg, result)
  PROVE  /\ alarm' \in Times \cup {0} /\ aie' \in BOOLEAN /\ fired' \subseteq Times
         /\ rtc' = rtc /\ wanted' \in BOOLEAN
         /\ AlarmFires' /\ NeverDisabled'
<1>1. CASE result \in {"close", "ok"}
  <2>1. Arm(time, Enabled(arg)) /\ wanted' = Asked(arg) BY <1>1 DEF ToDriver
  <2>2. wanted' \in BOOLEAN BY <2>1 DEF Asked
  <2>3. NeverDisabled' BY <2>1, ArmFires
  <2>4. AlarmFires' BY <2>3 DEF AlarmFires, NeverDisabled
  <2> QED BY <2>1, <2>2, <2>3, <2>4, ArmFires
<1>2. CASE result \notin {"close", "ok"}
  <2>1. UNCHANGED <<rtc, alarm, aie, fired, wanted>> BY <1>2 DEF ToDriver, driver
  <2> QED BY <2>1 DEF AlarmInv, AlarmTypeOK, AlarmFires, NeverDisabled
<1> QED BY <1>1, <1>2

\* The driver's alarm has fired or will, and a scheduled alarm has a time.
THEOREM AlarmInvariance == AlarmSpec => []AlarmInv
<1>1. AlarmInit => AlarmInv
  <2> SUFFICES ASSUME AlarmInit PROVE AlarmInv OBVIOUS
  <2>1. 1 \in Times BY TimeAssumption DEF Times
  <2>2. AlarmTypeOK BY <2>1 DEF AlarmInit, AlarmTypeOK
  <2>3. AlarmFires /\ NeverDisabled /\ ScheduledHasTime
    BY DEF AlarmInit, AlarmFires, NeverDisabled, ScheduledHasTime
  <2> QED BY <2>2, <2>3 DEF AlarmInv
<1>2. AlarmInv /\ [AlarmNext]_alarmVars => AlarmInv'
  <2> SUFFICES ASSUME AlarmInv, [AlarmNext]_alarmVars PROVE AlarmInv' OBVIOUS
  <2>1. ASSUME NEW result \in Results, NEW arg \in Args, NEW epoch \in Times,
               setWakeupAlarm(epoch, arg, result)
        PROVE  AlarmInv'
    <3>1. Enabled(arg) \in BOOLEAN BY DEF Enabled
    <3>2. 0 \notin Times BY DEF Times
    <3> QED BY <2>1, <3>1, <3>2, ToDriverFires
            DEF setWakeupAlarm, AlarmInv, AlarmTypeOK, ScheduledHasTime
  <2>2. ASSUME NEW result \in Results, NEW arg \in Args,
               toggleAlarmInterrupt(arg, result)
        PROVE  AlarmInv'
    <3>1. alarm \in Times \cup {0} BY DEF AlarmInv, AlarmTypeOK
    <3> QED BY <2>2, <3>1, ToDriverFires
            DEF toggleAlarmInterrupt, object, AlarmInv, AlarmTypeOK, ScheduledHasTime
  <2>3. ASSUME NEW result \in Results, unsetWakeupAlarm(result)
        PROVE  AlarmInv'
    <3>1. alarm \in Times \cup {0} /\ "false" \in Args BY DEF AlarmInv, AlarmTypeOK, Args
    <3> QED BY <2>3, <3>1, ToDriverFires
            DEF unsetWakeupAlarm, AlarmInv, AlarmTypeOK, ScheduledHasTime
  <2>4. CASE Tick
    BY <2>4, TimeAssumption
    DEF Tick, object, AlarmInv, AlarmTypeOK, AlarmFires, NeverDisabled, ScheduledHasTime, Times
  <2>5. ASSUME NEW lead \in {-1, 0, 1}, SetSystemClock(lead)
        PROVE  AlarmInv'
    BY <2>5 DEF SetSystemClock, driver, object, AlarmInv, AlarmTypeOK, AlarmFires,
                NeverDisabled, ScheduledHasTime
  <2>6. CASE HCToSys
    BY <2>5, <2>6 DEF HCToSys
  <2>7. CASE UNCHANGED alarmVars
    BY <2>7 DEF alarmVars, driver, object, AlarmInv, AlarmTypeOK, AlarmFires, NeverDisabled,
                ScheduledHasTime
  <2> QED BY <2>1, <2>2, <2>3, <2>4, <2>5, <2>6, <2>7 DEF AlarmNext
<1> QED BY <1>1, <1>2, PTL DEF AlarmSpec

\* An alarm whose interrupt is wanted fires, whatever calls follow and fail.
THEOREM AlarmsFire == AlarmSpec => []AlarmFires
<1>1. AlarmInv => AlarmFires BY DEF AlarmInv
<1> QED BY <1>1, AlarmInvariance, PTL

\* A wakeup is only ever taken for an alarm that fired.
THEOREM ValidatesOnlyFired == AlarmSpec => []ValidatedHasFired
<1>1. AlarmInv => ValidatedHasFired
  <2> SUFFICES ASSUME AlarmInv, ~dodgy_rtc, ahead <= 0,
                      NEW task_alarm \in Times \cup {0},
                      validateWakeupAlarmByProximity(task_alarm, alarm)
               PROVE  _wakeup_scheduled_tm \in fired
    BY DEF ValidatedHasFired
  <2>1. /\ _wakeup_scheduled_tm = alarm /\ alarm # 0
        /\ rtc + ahead - alarm >= 0
    BY DEF validateWakeupAlarmByProximity
  <2>2. rtc \in Int /\ ahead \in Int /\ alarm \in Int
    BY TimeAssumption DEF AlarmInv, AlarmTypeOK, Times
  <2>3. ~(alarm > rtc) BY <2>1, <2>2
  <2> QED BY <2>1, <2>3 DEF AlarmInv, NeverDisabled
<1> QED BY <1>1, AlarmInvariance, PTL

-----------------------------------------------------------------------------
(* The refreshes of a screen.                                              *)

\* How many updates have been sent.
Sends == IF at \in {"submitBefore", "completeBefore", "send"} THEN updates - 1
                                                              ELSE updates

(* Markers are handed out in order, from the first one or from the last    *)
(* but one, and no marker is handed out again while it is the one not to   *)
(* wait for.                                                               *)
Handed ==
  \/ marker = Sends /\ dont_wait_for_marker \in -1 .. marker
  \/ /\ marker = MaxMarker - 1 + Sends /\ Sends <= 1
     /\ dont_wait_for_marker \in {-1} \cup (MaxMarker - 1) .. marker
  \/ /\ marker = Sends - 1 /\ Sends >= 2
     /\ dont_wait_for_marker \in {-1, MaxMarker - 1, MaxMarker} \cup 1 .. marker

\* A marker counts as waited for only once it is done.
Waited == dont_wait_for_marker \in Markers => Done(dont_wait_for_marker)

\* The completion of the marker at hand is waited for once, before or after.
Counted ==
  /\ \A m \in Markers \cup {0} : waited[m] \in {0, 1}
  /\ waited[marker] = 1 => dont_wait_for_marker = marker \/ at = "send"
  /\ at = "completeAfter" => waited[marker] = 0

\* What the steps before sending have achieved.
Ready ==
  /\ at \in {"completeBefore", "send"} /\ plan.settled /\ marker # 0
       => Done(marker) \/ epdc[marker] = "submitted"
  /\ at = "send" /\ plan.alone /\ marker # 0 => Done(marker)

Fenced ==
  /\ FullsFenced
  /\ at = "completeAfter" /\ marker \in fulls => plan.full

RefreshInv ==
  /\ TypeOK /\ Handed /\ Waited /\ Counted /\ Ready /\ Fenced
  /\ at \in {"submitBefore", "completeBefore", "send"} => updates > 0

-----------------------------------------------------------------------------

\* Whatever is asked for, the plan has the fields of a plan.
LEMMA PlanIsPlan ==
  ASSUME NEW kind, NEW full_screen, NEW dither, NEW night
  PROVE  PlanOf(kind, full_screen, dither, night) \in Plan
BY DEF PlanOf, Plan

\* The next marker is no recent one.
LEMMA NextMarker ==
  ASSUME RefreshInv, at = "send"
  PROVE  /\ _get_next_marker \in Markers
         /\ _get_next_marker # marker
         /\ _get_next_marker # dont_wait_for_marker
<1>1. /\ updates \in 1 .. MaxUpdates /\ marker \in 0 .. MaxMarker
      /\ Sends = updates - 1
  <2>1. updates \in 0 .. MaxUpdates /\ updates > 0 BY DEF RefreshInv, TypeOK
  <2>2. marker \in 0 .. MaxMarker BY MarkerAssumption DEF RefreshInv, TypeOK, Markers
  <2> QED BY <2>1, <2>2, MarkerAssumption DEF Sends
<1>2. /\ MaxMarker \in Nat /\ MaxUpdates \in Nat
      /\ 1 < MaxMarker /\ MaxUpdates < MaxMarker
  BY MarkerAssumption
<1> QED BY <1>1, <1>2 DEF RefreshInv, Handed, _get_next_marker, Markers

\* A wait only adds to what failed, and leaves its marker done when it is for
\* completion.
LEMMA WaitEnds ==
  ASSUME TypeOK, NEW m \in Markers \cup {0}, NEW states, Waits(m, states),
         UNCHANGED epdc
  PROVE  /\ failed' \subseteq Markers \cup {0}
         /\ \A k : Done(k) => Done(k)'
         /\ states = {"complete"} => Done(m)'
         /\ states = {"submitted", "complete"} => Done(m)' \/ epdc[m] = "submitted"
BY DEF TypeOK, Waits, Done

\* The markers handed out, waited for and done agree at every system call.
THEOREM RefreshInvariance == Spec => []RefreshInv
<1>1. Init => RefreshInv
  <2> SUFFICES ASSUME Init PROVE RefreshInv OBVIOUS
  <2>1. /\ marker \in Markers \cup {0} /\ 0 \notin Markers
        /\ MaxMarker \in Nat /\ MaxUpdates \in Nat /\ 1 < MaxMarker
    BY MarkerAssumption DEF Init, Markers
  <2>2. TypeOK BY <2>1 DEF Init, TypeOK, Idle, Plan
  <2>3. Handed BY <2>1 DEF Init, Handed, Sends
  <2>4. Waited /\ Ready BY DEF Init, Waited, Ready, Markers
  <2>5. Counted BY <2>1 DEF Init, Counted
  <2>6. Fenced BY DEF Init, Fenced, FullsFenced
  <2> QED BY <2>2, <2>3, <2>4, <2>5, <2>6 DEF RefreshInv, Init
<1>2. RefreshInv /\ [Next]_vars => RefreshInv'
  <2> SUFFICES ASSUME RefreshInv, [Next]_vars PROVE RefreshInv' OBVIOUS
  <2>a. TypeOK /\ Handed /\ Waited /\ Counted /\ Ready /\ Fenced BY DEF RefreshInv
  <2>b. marker \in Markers \cup {0} BY <2>a DEF TypeOK
  <2>c. 0 \notin Markers BY DEF Markers
  <2>1. ASSUME NEW kind \in Kinds, NEW full_screen \in BOOLEAN,
               NEW dither \in BOOLEAN, NEW night \in BOOLEAN,
               mxc_update(kind, full_screen, dither, night)
        PROVE  RefreshInv'
    <3>1. plan' \in Plan BY <2>1, PlanIsPlan DEF mxc_update
    <3>2. updates' \in 0 .. MaxUpdates /\ updates' = updates + 1 /\ updates' > 0
      BY <2>1, <2>a, MarkerAssumption DEF mxc_update, TypeOK
    <3>3. TypeOK' BY <2>1, <2>a, <3>1, <3>2 DEF mxc_update, TypeOK
    <3>4. Sends' = Sends
      BY <2>1, <2>a, <3>2, MarkerAssumption DEF mxc_update, TypeOK, Sends
    <3>5. Handed' BY <2>1, <2>a, <3>4 DEF mxc_update, Handed
    <3>6. Waited' BY <2>1, <2>a DEF mxc_update, Waited, Done
    <3>7. Counted' BY <2>1, <2>a DEF mxc_update, Counted
    <3>8. Ready' BY <2>1 DEF mxc_update, Ready
    <3>9. Fenced' BY <2>1, <2>a DEF mxc_update, Fenced, FullsFenced, Done
    <3> QED BY <3>2, <3>3, <3>5, <3>6, <3>7, <3>8, <3>9 DEF RefreshInv
  <2>2. CASE SubmitBefore
    <3>1. UNCHANGED <<device, marker, plan, updates, epdc, fulls, waited,
                      dont_wait_for_marker>>
          /\ at = "submitBefore" /\ at' = "completeBefore"
      BY <2>2 DEF SubmitBefore, Skips
    <3>2. /\ failed' \subseteq Markers \cup {0}
          /\ \A k : Done(k) => Done(k)'
          /\ plan.settled /\ Pending => Done(marker)' \/ epdc[marker] = "submitted"
      <4>1. CASE plan.settled /\ Pending
        <5>1. Waits(marker, {"submitted", "complete"}) BY <2>2, <4>1 DEF SubmitBefore
        <5> QED BY <5>1, <3>1, <2>a, <2>b, WaitEnds
      <4>2. CASE ~(plan.settled /\ Pending)
        <5>1. UNCHANGED failed BY <2>2, <4>2 DEF SubmitBefore, Skips
        <5> QED BY <5>1, <4>2, <3>1, <2>a DEF TypeOK, Done
      <4> QED BY <4>1, <4>2
    <3>3. TypeOK' BY <2>a, <3>1, <3>2 DEF TypeOK
    <3>4. Handed' BY <2>a, <3>1 DEF Handed, Sends
    <3>5. Waited' BY <2>a, <3>1, <3>2 DEF Waited
    <3>6. Counted' BY <2>a, <3>1 DEF Counted
    <3>7. Ready' BY <2>a, <2>b, <2>c, <3>1, <3>2 DEF Ready, Pending, Waited
    <3>8. Fenced' BY <2>a, <3>1, <3>2 DEF Fenced, FullsFenced
    <3> QED BY <3>1, <3>3, <3>4, <3>5, <3>6, <3>7, <3>8 DEF RefreshInv
  <2>3. CASE CompleteBefore
    <3>1. UNCHANGED <<device, marker, plan, updates, epdc, fulls, dont_wait_for_marker>>
          /\ at = "completeBefore" /\ at' = "send"
      BY <2>3 DEF CompleteBefore, Skips
    <3>2. /\ failed' \subseteq Markers \cup {0}
          /\ \A k : Done(k) => Done(k)'
          /\ plan.alone /\ Pending => Done(marker)'
      <4>1. CASE plan.alone /\ Pending
        <5>1. Waits(marker, {"complete"}) BY <2>3, <4>1 DEF CompleteBefore
        <5> QED BY <5>1, <3>1, <2>a, <2>b, WaitEnds
      <4>2. CASE ~(plan.alone /\ Pending)
        <5>1. UNCHANGED failed BY <2>3, <4>2 DEF CompleteBefore, Skips
        <5> QED BY <5>1, <4>2, <3>1, <2>a DEF TypeOK, Done
      <4> QED BY <4>1, <4>2
    <3>3. /\ waited' \in [Markers \cup {0} -> Nat]
          /\ \A m \in Markers \cup {0} : waited'[m] \in {0, 1}
      <4>1. CASE plan.alone /\ Pending
        <5>1. waited' = [waited EXCEPT ![marker] = @ + 1]
          BY <2>3, <4>1 DEF CompleteBefore
        <5>2. waited[marker] = 0
          BY <2>a, <2>b, <3>1, <4>1 DEF Counted, Pending
        <5> QED BY <5>1, <5>2, <2>a, <2>b DEF Counted, TypeOK
      <4>2. CASE ~(plan.alone /\ Pending)
        BY <2>3, <4>2, <2>a DEF CompleteBefore, Skips, Counted, TypeOK
      <4> QED BY <4>1, <4>2
    <3>4. TypeOK' BY <2>a, <3>1, <3>2, <3>3 DEF TypeOK
    <3>5. Handed' BY <2>a, <3>1 DEF Handed, Sends
    <3>6. Waited' BY <2>a, <3>1, <3>2 DEF Waited
    <3>7. Counted' BY <3>1, <3>3 DEF Counted
    <3>8. Ready' BY <2>a, <2>b, <2>c, <3>1, <3>2 DEF Ready, Pending, Waited
    <3>9. Fenced' BY <2>a, <3>1, <3>2 DEF Fenced, FullsFenced
    <3> QED BY <2>a, <3>1, <3>4, <3>5, <3>6, <3>7, <3>8, <3>9 DEF RefreshInv
  <2>4. CASE Send
    <3> DEFINE m == _get_next_marker
    <3>1. /\ at = "send" /\ at' = "completeAfter" /\ marker' = m
          /\ UNCHANGED <<device, dont_wait_for_marker, plan, updates>>
          /\ waited' = [waited EXCEPT ![m] = 0]
          /\ fulls' = IF plan.full THEN fulls \cup {m} ELSE fulls \ {m}
      BY <2>4 DEF Send
    <3>2. m \in Markers /\ m # marker /\ m # dont_wait_for_marker BY <3>1, NextMarker
    <3>3. /\ epdc' \in [Markers -> {"none", "sent", "submitted", "complete"}]
          /\ failed' \subseteq Markers \cup {0}
          /\ \A k \in Markers \cup {0} : k # m /\ Done(k) => Done(k)'
      <4>1. CASE epdc' = [epdc EXCEPT ![m] = "sent"] /\ failed' = failed \ {m}
        BY <4>1, <2>a, <3>2 DEF TypeOK, Done
      <4>2. CASE epdc' = [epdc EXCEPT ![m] = "none"] /\ failed' = failed \cup {m}
        BY <4>2, <2>a, <3>2 DEF TypeOK, Done
      <4> QED BY <2>4, <3>1, <4>1, <4>2 DEF Send
    <3>4. Handed'
      <4>1. /\ updates \in 1 .. MaxUpdates /\ marker \in 0 .. MaxMarker
            /\ Sends = updates - 1 /\ Sends' = updates
        <5>1. updates \in 0 .. MaxUpdates /\ updates > 0 BY <3>1 DEF RefreshInv, TypeOK
        <5>2. marker \in 0 .. MaxMarker BY <2>b, MarkerAssumption DEF Markers
        <5>3. Sends = updates - 1 BY <3>1 DEF Sends
        <5>4. Sends' = updates BY <3>1 DEF Sends
        <5> QED BY <5>1, <5>2, <5>3, <5>4, MarkerAssumption
      <4>2. /\ MaxMarker \in Nat /\ MaxUpdates \in Nat
            /\ 1 < MaxMarker /\ MaxUpdates < MaxMarker
        BY MarkerAssumption
      <4>3. CASE marker = Sends /\ dont_wait_for_marker \in -1 .. marker
        BY <3>1, <4>1, <4>2, <4>3 DEF Handed, _get_next_marker
      <4>4. CASE /\ marker = MaxMarker - 1 + Sends /\ Sends <= 1
                 /\ dont_wait_for_marker \in {-1} \cup (MaxMarker - 1) .. marker
        BY <3>1, <4>1, <4>2, <4>4 DEF Handed, _get_next_marker
      <4>5. CASE /\ marker = Sends - 1 /\ Sends >= 2
                 /\ dont_wait_for_marker \in {-1, MaxMarker - 1, MaxMarker} \cup 1 .. marker
        BY <3>1, <4>1, <4>2, <4>5 DEF Handed, _get_next_marker
      <4> QED BY <2>a, <4>3, <4>4, <4>5 DEF Handed
    <3> HIDE DEF m
    <3>5. TypeOK'
      <4>1. waited' \in [Markers \cup {0} -> Nat] BY <2>a, <3>1 DEF TypeOK
      <4>2. fulls' \subseteq Markers BY <2>a, <3>1, <3>2 DEF TypeOK
      <4> QED BY <2>a, <3>1, <3>2, <3>3, <4>1, <4>2 DEF TypeOK
    <3>6. Waited' BY <2>a, <3>1, <3>2, <3>3 DEF Waited
    <3>7. Counted' BY <2>a, <3>1, <3>2 DEF Counted, TypeOK
    <3>8. Ready' BY <3>1 DEF Ready
    <3>9. Fenced'
      <4>1. \A k \in fulls : Done(k) BY <2>a, <3>1 DEF Fenced, FullsFenced
      <4>2. fulls \subseteq Markers BY <2>a DEF TypeOK
      <4>3. FullsFenced' BY <4>1, <4>2, <3>1, <3>3 DEF FullsFenced
      <4>4. marker' \in fulls' => plan'.full BY <3>1
      <4> QED BY <4>3, <4>4 DEF Fenced
    <3> QED BY <3>1, <3>4, <3>5, <3>6, <3>7, <3>8, <3>9 DEF RefreshInv
  <2>5. CASE CompleteAfter
    <3>1. UNCHANGED <<device, marker, plan, updates, epdc, fulls>>
          /\ at = "completeAfter" /\ at' = "submitAfter"
      BY <2>5 DEF CompleteAfter
    <3>2. CASE plan.full
      <4>1. /\ Waits(marker, {"complete"}) /\ dont_wait_for_marker' = marker
            /\ waited' = [waited EXCEPT ![marker] = @ + 1]
        BY <2>5, <3>2 DEF CompleteAfter
      <4>2. /\ failed' \subseteq Markers \cup {0}
            /\ (\A k : Done(k) => Done(k)') /\ Done(marker)'
        BY <2>a, <2>b, <3>1, <4>1, WaitEnds
      <4>3. waited[marker] = 0 BY <2>a, <3>1 DEF Counted
      <4>4. TypeOK' BY <2>a, <2>b, <3>1, <4>1, <4>2 DEF TypeOK
      <4>5. Handed'
        <5>1. Sends' = Sends /\ Sends = updates BY <3>1 DEF Sends
        <5>2. updates \in Nat /\ marker \in Nat /\ MaxMarker \in Nat /\ 1 < MaxMarker
          BY <2>a, <2>b, MarkerAssumption DEF TypeOK, Markers
        <5> QED BY <2>a, <3>1, <4>1, <5>1, <5>2 DEF Handed
      <4>6. Waited' BY <3>1, <4>1, <4>2 DEF Waited
      <4>7. Counted' BY <2>a, <2>b, <3>1, <4>1, <4>3 DEF Counted, TypeOK
      <4>8. Fenced' BY <2>a, <3>1, <4>2 DEF Fenced, FullsFenced
      <4> QED BY <3>1, <4>4, <4>5, <4>6, <4>7, <4>8 DEF RefreshInv, Ready
    <3>3. CASE ~plan.full
      <4>1. UNCHANGED <<failed, waited, dont_wait_for_marker>>
        BY <2>5, <3>3 DEF CompleteAfter, Skips
      <4>2. marker \notin fulls BY <2>a, <3>1, <3>3 DEF Fenced
      <4>3. TypeOK' BY <2>a, <3>1, <4>1 DEF TypeOK
      <4>4. Handed' BY <2>a, <3>1, <4>1 DEF Handed, Sends
      <4>5. Waited' BY <2>a, <3>1, <4>1 DEF Waited, Done
      <4>6. Counted' BY <2>a, <2>b, <3>1, <4>1 DEF Counted
      <4>7. Fenced' BY <2>a, <3>1, <4>1, <4>2 DEF Fenced, FullsFenced, Done
      <4> QED BY <3>1, <4>3, <4>4, <4>5, <4>6, <4>7 DEF RefreshInv, Ready
    <3> QED BY <3>2, <3>3
  <2>6. CASE SubmitAfter
    <3>1. UNCHANGED <<device, marker, updates, epdc, fulls, waited, dont_wait_for_marker>>
          /\ at = "submitAfter" /\ at' = "idle" /\ plan' = Idle
      BY <2>6 DEF SubmitAfter, Skips
    <3>2. failed' \subseteq Markers \cup {0} /\ \A k : Done(k) => Done(k)'
      <4>1. CASE plan.submit /\ Pending
        <5>1. Waits(marker, {"submitted", "complete"}) BY <2>6, <4>1 DEF SubmitAfter
        <5> QED BY <5>1, <3>1, <2>a, <2>b, WaitEnds
      <4>2. CASE ~(plan.submit /\ Pending)
        <5>1. UNCHANGED failed BY <2>6, <4>2 DEF SubmitAfter, Skips
        <5> QED BY <5>1, <3>1, <2>a DEF TypeOK, Done
      <4> QED BY <4>1, <4>2
    <3>3. TypeOK' BY <2>a, <3>1, <3>2 DEF TypeOK, Idle, Plan
    <3>4. Handed' BY <2>a, <3>1 DEF Handed, Sends
    <3>5. Waited' BY <2>a, <3>1, <3>2 DEF Waited
    <3>6. Counted' BY <2>a, <3>1 DEF Counted
    <3>7. Fenced' BY <2>a, <3>1, <3>2 DEF Fenced, FullsFenced
    <3> QED BY <3>1, <3>3, <3>4, <3>5, <3>6, <3>7 DEF RefreshInv, Ready
  <2>7. CASE refreshWaitForLastImp
    <3>1. UNCHANGED <<device, marker, at, plan, updates, epdc, fulls>>
          /\ at = "idle" /\ dont_wait_for_marker # marker
          /\ Waits(marker, {"complete"}) /\ dont_wait_for_marker' = marker
          /\ waited' = [waited EXCEPT ![marker] = @ + 1]
      BY <2>7 DEF refreshWaitForLastImp
    <3>2. /\ failed' \subseteq Markers \cup {0}
          /\ (\A k : Done(k) => Done(k)') /\ Done(marker)'
      BY <2>a, <2>b, <3>1, WaitEnds
    <3>3. waited[marker] = 0 BY <2>a, <2>b, <3>1 DEF Counted
    <3>4. TypeOK' BY <2>a, <2>b, <3>1, <3>2 DEF TypeOK
    <3>5. Handed'
      <4>1. Sends' = Sends /\ Sends = updates BY <3>1 DEF Sends
      <4>2. updates \in Nat /\ marker \in Nat /\ MaxMarker \in Nat /\ 1 < MaxMarker
        BY <2>a, <2>b, MarkerAssumption DEF TypeOK, Markers
      <4> QED BY <2>a, <3>1, <4>1, <4>2 DEF Handed
    <3>6. Waited' BY <3>1, <3>2 DEF Waited
    <3>7. Counted' BY <2>a, <2>b, <3>1, <3>3 DEF Counted, TypeOK
    <3>8. Fenced' BY <2>a, <3>1, <3>2 DEF Fenced, FullsFenced
    <3> QED BY <3>1, <3>4, <3>5, <3>6, <3>7, <3>8 DEF RefreshInv, Ready
  <2>8. ASSUME NEW m \in Markers, DriverStep(m) PROVE RefreshInv'
    <3>1. UNCHANGED <<device, marker, dont_wait_for_marker, at, plan, updates, fulls,
                      failed, waited>>
      BY <2>8 DEF DriverStep
    <3>2. /\ epdc' \in [Markers -> {"none", "sent", "submitted", "complete"}]
          /\ \A k \in Markers :
               /\ Done(k) => Done(k)'
               /\ epdc[k] = "submitted" => epdc'[k] \in {"submitted", "complete"}
      BY <2>8, <2>a DEF DriverStep, TypeOK, Done
    <3>3. TypeOK' BY <2>a, <3>1, <3>2 DEF TypeOK
    <3>4. Handed' BY <2>a, <3>1 DEF Handed, Sends
    <3>5. Waited' BY <2>a, <3>1, <3>2 DEF Waited
    <3>6. Counted' BY <2>a, <3>1 DEF Counted
    <3>7. Ready' BY <2>a, <2>b, <3>1, <3>2 DEF Ready, Done
    <3>8. Fenced'
      <4>1. fulls \subseteq Markers BY <2>a DEF TypeOK
      <4> QED BY <4>1, <2>a, <3>1, <3>2 DEF Fenced, FullsFenced
    <3> QED BY <2>a, <3>1, <3>3, <3>4, <3>5, <3>6, <3>7, <3>8 DEF RefreshInv
  <2>9. CASE UNCHANGED vars
    <3>1. UNCHANGED <<device, marker, dont_wait_for_marker, at, plan, updates, epdc,
                      fulls, failed, waited>>
      BY <2>9 DEF vars
    <3> QED BY <2>a, <3>1 DEF RefreshInv, TypeOK, Handed, Sends, Waited, Counted, Ready,
                              Fenced, FullsFenced, Done
  <2> QED BY <2>1, <2>2, <2>3, <2>4, <2>5, <2>6, <2>7, <2>8, <2>9 DEF Next
<1> QED BY <1>1, <1>2, PTL DEF Spec

\* At most one FULL update is in progress, and only in the call that sent it.
THEOREM FullsAreFenced == Spec => []FullsFenced
<1>1. RefreshInv => FullsFenced BY DEF RefreshInv, Fenced
<1> QED BY <1>1, RefreshInvariance, PTL

\* No rule waits for a marker that another rule has waited for.
THEOREM NoSecondWait == Spec => []WaitedOnce
<1>1. RefreshInv => WaitedOnce BY DEF RefreshInv, TypeOK, Counted, WaitedOnce
<1> QED BY <1>1, RefreshInvariance, PTL

\* An update that needs the previous one done, or submitted, is sent after it.
THEOREM SentInOrder == Spec => SentAfterPrevious
<1> DEFINE Ordered ==
      at = "send" /\ at' = "completeAfter" /\ marker # 0
        => /\ plan.alone => Done(marker)
           /\ plan.settled => Done(marker) \/ epdc[marker] = "submitted"
<1>1. RefreshInv /\ [Next]_vars => [Ordered]_vars BY DEF RefreshInv, Ready
<1> QED BY <1>1, RefreshInvariance, PTL DEF Spec, SentAfterPrevious

=============================================================================
