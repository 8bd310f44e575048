-------------------------- MODULE SonoffAppProofs --------------------------
(***************************************************************************)
(* Proofs about SonoffApp for every length of the long press.              *)
(***************************************************************************)
EXTENDS SonoffApp, TLAPS

(* From the change of an endpoint to the end of the timer callback the     *)
(* followers know it already: they are told before the settings are saved. *)
ToldInTimer ==
    pc \in {"TIME", "WRAPPED", "LATCH", "SAVE", "SECOND"} => reported = Current

IInv == TypeOK /\ SettingsSurvive /\ ToldInTimer

-----------------------------------------------------------------------------
(* What load_settings gives: the defaults, or the settings in the file.    *)
LEMMA LoadedDefault == stored = {} => Loaded = [relay |-> TRUE, toggleRelay |-> TRUE]
PROOF
  BY DEF Loaded, RELAY_DEFAULT_STATE, TOGGLE_RELAY_DEFAULT_STATE

LEMMA LoadedStored == ASSUME NEW s, stored = {s} PROVE Loaded = s
PROOF
<1>1. (CHOOSE t \in {s} : TRUE) = s
  <2>1. \E t \in {s} : TRUE
    OBVIOUS
  <2> QED  BY <2>1
<1>2. stored # {}
  OBVIOUS
<1> QED  BY <1>1, <1>2 DEF Loaded

LEMMA LoadedType == TypeOK => Loaded \in Settings
PROOF
<1> SUFFICES ASSUME TypeOK PROVE Loaded \in Settings
  OBVIOUS
<1>1. CASE stored = {}
  <2>1. [relay |-> TRUE, toggleRelay |-> TRUE] \in Settings
    BY DEF Settings
  <2> QED  BY <1>1, <2>1, LoadedDefault
<1>2. CASE \E s \in Settings : stored = {s}
  BY <1>2, LoadedStored
<1> QED  BY <1>1, <1>2 DEF TypeOK

LEMMA WritingStores ==
    ASSUME TypeOK, write_settings, UNCHANGED app
    PROVE  /\ stored' \in {{}} \cup {{settings} : settings \in Settings}
           /\ failed' \in BOOLEAN
           /\ failed' \/ Loaded' = [relay |-> relay', toggleRelay |-> toggleRelay']
PROOF
<1> DEFINE s == [relay |-> relay, toggleRelay |-> toggleRelay]
<1>1. s \in Settings /\ Written = {s}
  BY DEF TypeOK, Settings, Written
<1>2. relay' = relay /\ toggleRelay' = toggleRelay
  BY DEF app
<1>3. CASE stored' = Written /\ failed' = FALSE
  <2>1. (CHOOSE t \in {s} : TRUE) = s
    <3>1. \E t \in {s} : TRUE
      OBVIOUS
    <3> QED  BY <3>1
  <2>2. stored' = {s} /\ stored' # {}
    BY <1>1, <1>3
  <2>3. Loaded' = s
    BY <2>1, <2>2 DEF Loaded
  <2> QED  BY <1>1, <1>2, <1>3, <2>2, <2>3
<1>4. CASE stored' \in {stored, Written, {}} /\ failed' = TRUE
  BY <1>1, <1>4 DEF TypeOK
<1> QED  BY <1>3, <1>4 DEF write_settings

(* As long as flash is not written, a restart would load the same.         *)
LEMMA LoadedStays == UNCHANGED stored => UNCHANGED Loaded
PROOF
  BY DEF Loaded

USE DEF flash

-----------------------------------------------------------------------------
LEMMA InitIInv == Init => IInv
PROOF
<1> SUFFICES ASSUME Init PROVE IInv
  OBVIOUS
<1> USE LongPressAssumption
<1>1. Loaded = [relay |-> TRUE, toggleRelay |-> TRUE]
  BY LoadedDefault DEF Init
<1>2. TypeOK
  <2>1. relay = TRUE /\ toggleRelay = TRUE /\ button = FALSE /\ toggle = FALSE
    BY DEF Init, RELAY_DEFAULT_STATE, TOGGLE_RELAY_DEFAULT_STATE
  <2>2. reported \in Reports
    BY <2>1 DEF Init, Current, Reports
  <2>3. heldFor \in 0..(LongPress + 1) /\ cnt \in 0..1
    BY DEF Init
  <2>4. pc \in PC /\ stored \in {{}} \cup {{settings} : settings \in Settings}
    BY DEF Init, PC
  <2> QED  BY <2>1, <2>2, <2>3, <2>4 DEF Init, TypeOK
<1> QED  BY <1>1, <1>2 DEF Init, IInv, SettingsSurvive, ToldInTimer

LEMMA LoadKeepsIInv == IInv /\ load_settings => IInv'
PROOF
<1> SUFFICES ASSUME IInv, load_settings PROVE IInv'
  OBVIOUS
<1>1. Loaded \in Settings /\ Loaded' = Loaded
  BY LoadedType, LoadedStays DEF IInv, load_settings
<1>a. relay' \in BOOLEAN /\ toggleRelay' \in BOOLEAN /\ failed' \in BOOLEAN
  BY <1>1 DEF IInv, TypeOK, load_settings, SettingsRead, SettingsUnread, Settings
<1>b. toggle' = relay' /\ UNCHANGED <<gpio, button, press, stored>>
  BY DEF load_settings
<1>2. TypeOK'
  <2>1. reported' \in Reports /\ pc' \in PC
    BY <1>a, <1>b DEF IInv, TypeOK, load_settings, Reports, PC
  <2> QED  BY <1>a, <1>b, <2>1 DEF IInv, TypeOK, gpio, press
<1>3. failed' \/ Loaded' = [relay |-> relay', toggleRelay |-> toggleRelay']
  BY <1>1 DEF load_settings, SettingsRead, SettingsUnread, Settings
<1>4. reported' = Current' /\ pc' = "IDLE"
  BY DEF load_settings, Current
<1> QED  BY <1>2, <1>3, <1>4 DEF IInv, SettingsSurvive, ToldInTimer

LEMMA RestartKeepsIInv == IInv /\ Restart => IInv'
PROOF
<1> SUFFICES ASSUME IInv, Restart PROVE IInv'
  OBVIOUS
<1>1. relay' = TRUE /\ toggleRelay' = TRUE
  BY DEF Restart, RELAY_DEFAULT_STATE, TOGGLE_RELAY_DEFAULT_STATE
<1>2. heldFor' \in 0..(LongPress + 1) /\ cnt' \in 0..1
  BY LongPressAssumption DEF Restart
<1>3. pc' = "BOOT" /\ pc' \in PC
  BY DEF Restart, PC
<1>4. TypeOK'
  BY <1>1, <1>2, <1>3 DEF IInv, TypeOK, Restart
<1> QED  BY <1>3, <1>4 DEF IInv, SettingsSurvive, ToldInTimer

(* The interrupt changes nothing the invariant is about; it may come       *)
(* between the reads of the timer.                                         *)
LEMMA InterruptKeepsIInv ==
    ASSUME IInv, PinChanges \/ IsrReads \/ IsrClears \/ DebounceTimePasses
    PROVE  IInv'
PROOF
<1>1. UNCHANGED <<app, press, flash, reported>>
  BY DEF PinChanges, IsrReads, IsrClears, DebounceTimePasses
<1>2. /\ Loaded' = Loaded /\ Current' = Current
      /\ relay' = relay /\ toggleRelay' = toggleRelay /\ reported' = reported
  BY <1>1, LoadedStays DEF Current, app
<1>3. \/ pc' = pc
      \/ pc = "TIME" /\ pc' = "WRAPPED"
  BY DEF PinChanges, IsrReads, IsrClears, DebounceTimePasses
<1>4. TypeOK'
  <2>1. pc' \in PC
    BY <1>3 DEF IInv, TypeOK, PC
  <2>2. UNCHANGED <<button, toggle, relay, toggleRelay, heldFor, handled, cnt,
                    flash, reported>>
    BY <1>1 DEF app, press
  <2>3. /\ pin' \in BOOLEAN /\ status' \in BOOLEAN /\ isr' \in BOOLEAN
        /\ debounceState' \in BOOLEAN /\ quiet' \in BOOLEAN
    BY DEF IInv, TypeOK, PinChanges, IsrReads, IsrClears, DebounceTimePasses
  <2> QED  BY <2>1, <2>2, <2>3 DEF IInv, TypeOK
<1> QED  BY <1>1, <1>2, <1>3, <1>4 DEF IInv, SettingsSurvive, ToldInTimer

LEMMA TimerKeepsIInv == IInv /\ Timer => IInv'
PROOF
<1> SUFFICES ASSUME IInv, Timer PROVE IInv'
  OBVIOUS
<1> USE DEF IInv
<1>1. CASE TimerBegins
  <2>1. pc = "IDLE" /\ pc' = "TIME" /\ UNCHANGED <<gpio, app, press, flash, reported>>
    BY <1>1 DEF TimerBegins
  <2>2. Loaded' = Loaded /\ Current' = Current
    BY <2>1, LoadedStays DEF Current, app
  <2>3. TypeOK'
    BY <2>1 DEF TypeOK, PC, gpio, app, press
  <2> QED  BY <2>1, <2>2, <2>3 DEF SettingsSurvive, ToldInTimer, app
<1>2. CASE TimerCompares
  <2>1. /\ pc \in {"TIME", "WRAPPED"} /\ pc' \in {"LATCH", "SECOND"}
        /\ UNCHANGED <<gpio, app, press, flash, reported>>
    BY <1>2 DEF TimerCompares
  <2>2. Loaded' = Loaded /\ Current' = Current
    BY <2>1, LoadedStays DEF Current, app
  <2>3. TypeOK'
    BY <2>1 DEF TypeOK, PC, gpio, app, press
  <2> QED  BY <2>1, <2>2, <2>3 DEF SettingsSurvive, ToldInTimer, app
<1>3. CASE TimerLatches
  <2>1. pc = "LATCH" /\ UNCHANGED <<gpio, toggleRelay, handled, cnt, flash>>
    BY <1>3 DEF TimerLatches
  <2>2. /\ button' = debounceState /\ heldFor' = 0
        /\ toggle' \in BOOLEAN /\ relay' \in BOOLEAN
    BY <1>3 DEF TimerLatches, TypeOK
  <2>3. reported' = Current'
    <3>1. reported = Current /\ reported \in Reports
      BY <2>1 DEF ToldInTimer, TypeOK
    <3>2. reported' = [reported EXCEPT !.button = button', !.toggle = toggle',
                                       !.relay = relay']
      BY <1>3 DEF TimerLatches, TellFollowers
    <3>3. reported.toggleRelay = toggleRelay'
      BY <2>1, <3>1 DEF Current
    <3> QED  BY <3>1, <3>2, <3>3 DEF Current, Reports
  <2>4. TypeOK'
    <3>1. Current' \in Reports
      BY <2>1, <2>2 DEF Current, Reports, TypeOK
    <3>2. pc' \in PC
      BY <1>3 DEF TimerLatches, PC
    <3> QED  BY <2>1, <2>2, <2>3, <3>1, <3>2, LongPressAssumption DEF TypeOK, gpio
  <2>5. \/ pc' = "SAVE"
        \/ pc' = "SECOND" /\ relay' = relay
    BY <1>3 DEF TimerLatches
  <2>6. Loaded' = Loaded /\ toggleRelay' = toggleRelay
    BY <2>1, LoadedStays
  <2> QED  BY <2>1, <2>3, <2>4, <2>5, <2>6 DEF SettingsSurvive, ToldInTimer
<1>4. CASE TimerSaves
  <2>1. /\ pc = "SAVE" /\ pc' = "SECOND" /\ write_settings
        /\ UNCHANGED <<gpio, app, press, reported>>
    BY <1>4 DEF TimerSaves
  <2>2. /\ stored' \in {{}} \cup {{settings} : settings \in Settings}
        /\ failed' \in BOOLEAN
        /\ failed' \/ Loaded' = [relay |-> relay', toggleRelay |-> toggleRelay']
    <3>1. UNCHANGED app
      BY <2>1
    <3> QED  BY <2>1, <3>1, WritingStores
  <2>3. TypeOK'
    BY <2>1, <2>2 DEF TypeOK, PC, gpio, app, press
  <2>4. Current' = Current
    BY <2>1 DEF Current, app
  <2> QED  BY <2>1, <2>2, <2>3, <2>4 DEF SettingsSurvive, ToldInTimer
<1> QED  BY <1>1, <1>2, <1>3, <1>4 DEF Timer

LEMMA SecondKeepsIInv == IInv /\ (TimerReturns \/ SecondPasses) => IInv'
PROOF
<1> SUFFICES ASSUME IInv, TimerReturns \/ SecondPasses, ~Restart PROVE IInv'
  BY RestartKeepsIInv
<1>1. /\ pc = "SECOND" /\ pc' = "IDLE"
      /\ UNCHANGED <<gpio, app, flash, reported>>
  BY DEF TimerReturns, SecondPasses
<1>2. Loaded' = Loaded /\ Current' = Current
  BY <1>1, LoadedStays DEF Current, app
<1>3. heldFor' \in 0..(LongPress + 1) /\ handled' \in BOOLEAN /\ cnt' \in 0..1
  <2>1. CASE TimerReturns
    BY <2>1 DEF TimerReturns, press, IInv, TypeOK
  <2>2. CASE SecondPasses
    BY <2>2, LongPressAssumption DEF SecondPasses, IInv, TypeOK, RestartDue, LongPressSeen
  <2> QED  BY <2>1, <2>2
<1>4. TypeOK'
  BY <1>1, <1>3 DEF IInv, TypeOK, PC, gpio, app
<1> QED  BY <1>1, <1>2, <1>4 DEF IInv, SettingsSurvive, ToldInTimer, app

LEMMA WriteKeepsIInv == IInv /\ (hw_write \/ WriteSaves \/ WriteReports) => IInv'
PROOF
<1> SUFFICES ASSUME IInv, hw_write \/ WriteSaves \/ WriteReports PROVE IInv'
  OBVIOUS
<1> USE DEF IInv
<1>1. CASE hw_write
  <2>1. pc' = "WRITE_SAVE" /\ UNCHANGED <<gpio, button, toggle, press, flash, reported>>
    BY <1>1 DEF hw_write
  <2>2. relay' \in BOOLEAN /\ toggleRelay' \in BOOLEAN
    BY <1>1 DEF hw_write, TypeOK
  <2>3. TypeOK'
    BY <2>1, <2>2 DEF TypeOK, PC, gpio, press
  <2> QED  BY <2>1, <2>3 DEF SettingsSurvive, ToldInTimer
<1>2. CASE WriteSaves
  <2>1. pc' = "WRITE_DONE" /\ write_settings /\ UNCHANGED <<gpio, app, press, reported>>
    BY <1>2 DEF WriteSaves
  <2>2. /\ stored' \in {{}} \cup {{settings} : settings \in Settings}
        /\ failed' \in BOOLEAN
        /\ failed' \/ Loaded' = [relay |-> relay', toggleRelay |-> toggleRelay']
    <3>1. UNCHANGED app
      BY <2>1
    <3> QED  BY <2>1, <3>1, WritingStores
  <2>3. TypeOK'
    BY <2>1, <2>2 DEF TypeOK, PC, gpio, app, press
  <2> QED  BY <2>1, <2>2, <2>3 DEF SettingsSurvive, ToldInTimer
<1>3. CASE WriteReports
  <2>1. /\ pc = "WRITE_DONE" /\ pc' = "IDLE" /\ reported' = Current
        /\ UNCHANGED <<gpio, app, press, flash>>
    BY <1>3 DEF WriteReports
  <2>2. Loaded' = Loaded /\ Current' = Current
    BY <2>1, LoadedStays DEF Current, app
  <2>3. TypeOK'
    <3>1. Current \in Reports
      BY DEF Current, Reports, TypeOK
    <3> QED  BY <2>1, <3>1 DEF TypeOK, PC, gpio, app, press
  <2> QED  BY <2>1, <2>2, <2>3 DEF SettingsSurvive, ToldInTimer, app
<1> QED  BY <1>1, <1>2, <1>3

LEMMA StutterKeepsIInv == IInv /\ UNCHANGED vars => IInv'
PROOF
<1> SUFFICES ASSUME IInv, UNCHANGED vars PROVE IInv'
  OBVIOUS
<1>1. Loaded' = Loaded /\ Current' = Current
  BY LoadedStays DEF vars, Current, app
<1> QED
  BY <1>1 DEF IInv, TypeOK, SettingsSurvive, ToldInTimer, vars, gpio, app, press

-----------------------------------------------------------------------------
LEMMA Inductive == Spec => []IInv
PROOF
<1>1. IInv /\ [Next]_vars => IInv'
  BY LoadKeepsIInv, RestartKeepsIInv, InterruptKeepsIInv, TimerKeepsIInv,
     SecondKeepsIInv, WriteKeepsIInv, StutterKeepsIInv
  DEF Next, PowerLoss
<1> QED  BY InitIInv, <1>1, PTL DEF Spec

(* Type correctness: in particular the file of the settings holds at most  *)
(* one value, and the device restarts in the second after the long press.  *)
THEOREM TypeCorrect == Spec => []TypeOK
PROOF
  BY Inductive, PTL DEF IInv

(* However interrupts, the button timer, write requests and losses of      *)
(* power interleave: between two callbacks flash holds what the device     *)
(* does and followers know it, and a loss of power during one costs at     *)
(* most the change that was not saved yet.                                 *)
THEOREM SettingsOutlivePower == Spec => []SettingsSurvive
PROOF
  BY Inductive, PTL DEF IInv
=============================================================================
