----------------------------- MODULE SonoffApp -----------------------------
(***************************************************************************)
(* apps/mist-esp8266-sonoff-app: a mains relay with a push button, both    *)
(* also reachable as Mist endpoints over the network.                      *)
(*                                                                         *)
(* Three actors share the state: the GPIO interrupt, which may come at any *)
(* point of the others; the 10 ms button timer; and the write requests of  *)
(* peers, which arrive in the IPC task and so never during the timer.  The *)
(* callbacks are cut where an interrupt or a loss of power makes a         *)
(* difference.  Settings are in flash and survive a restart.               *)
(*                                                                         *)
(* Outside src/: mist_value_changed reads the endpoint and reports it to   *)
(* the peers that follow it; a call of the file system may fail, and what    *)
(* a failed write leaves is the old byte, the new one or an empty file.    *)
(***************************************************************************)
EXTENDS Naturals

CONSTANT LongPress       \* seconds of a long press: 10

ASSUME LongPressAssumption == LongPress \in Nat \ {0}

VARIABLES
    pin,            \* the button is pressed
    status,         \* GPIO_STATUS: an edge has not been cleared
    isr,            \* gpio_isr is between its read and its clear
    debounceState,  \* button_debounce_state
    quiet,          \* the last interrupt was more than 100 ms ago
    pc,             \* where the timer or the write handler is
    button, toggle, relay, toggleRelay,     \* ..._state, toggle_relay
    heldFor,        \* curr_time - btn_event_time, up to LongPress + 1
    handled,        \* btn_handled
    cnt,            \* seconds since the long press was seen
    stored,         \* flash: the settings in sonoff.bin, {} when empty
    failed,         \* history: the last load or save of the settings failed
    reported        \* what followers of the endpoints were told

app == <<button, toggle, relay, toggleRelay>>
gpio == <<pin, status, isr, debounceState, quiet>>
press == <<heldFor, handled, cnt>>
flash == <<stored, failed>>
vars == <<gpio, pc, app, press, flash, reported>>

Settings == [relay : BOOLEAN, toggleRelay : BOOLEAN]
RELAY_DEFAULT_STATE == TRUE
TOGGLE_RELAY_DEFAULT_STATE == TRUE

(* load_settings: the defaults when the file is empty. *)
Loaded == IF stored = {}
          THEN [relay |-> RELAY_DEFAULT_STATE,
                toggleRelay |-> TOGGLE_RELAY_DEFAULT_STATE]
          ELSE CHOOSE settings \in stored : TRUE

Reports == [button : BOOLEAN, toggle : BOOLEAN, relay : BOOLEAN,
            toggleRelay : BOOLEAN]

(* BOOT: the relay has its default, the settings are not loaded yet.       *)
(* TIME: system_get_time() was called.  WRAPPED: an interrupt came between *)
(* that and the read of the time of the last interrupt, the difference is  *)
(* negative and, unsigned, very large.  LATCH: a change was seen.  SAVE:   *)
(* the settings are to be written.  SECOND: the once-a-second part.        *)
PC == {"BOOT", "IDLE", "TIME", "WRAPPED", "LATCH", "SAVE", "SECOND",
       "WRITE_SAVE", "WRITE_DONE"}

TypeOK ==
    /\ pin \in BOOLEAN /\ status \in BOOLEAN /\ isr \in BOOLEAN
    /\ debounceState \in BOOLEAN /\ quiet \in BOOLEAN
    /\ pc \in PC
    /\ button \in BOOLEAN /\ toggle \in BOOLEAN /\ relay \in BOOLEAN
    /\ toggleRelay \in BOOLEAN
    /\ heldFor \in 0..(LongPress + 1)
    /\ handled \in BOOLEAN /\ cnt \in 0..1
    /\ stored \in {{}} \cup {{settings} : settings \in Settings} /\ failed \in BOOLEAN
    /\ reported \in Reports

Current == [button |-> button, toggle |-> toggle, relay |-> relay,
            toggleRelay |-> toggleRelay]

Init ==
    /\ pin = FALSE /\ status = FALSE /\ isr = FALSE
    /\ debounceState = FALSE /\ quiet = FALSE
    /\ pc = "BOOT"
    /\ button = FALSE /\ toggle = FALSE
    /\ relay = RELAY_DEFAULT_STATE /\ toggleRelay = TOGGLE_RELAY_DEFAULT_STATE
    /\ heldFor = 0 /\ handled = FALSE /\ cnt = 0
    /\ stored = {} /\ failed = FALSE
    /\ reported = Current

-----------------------------------------------------------------------------
(* load_settings: if the file cannot be opened the settings stay what they *)
(* are, if it cannot be read they are both off.                            *)
SettingsRead ==
    relay' = Loaded.relay /\ toggleRelay' = Loaded.toggleRelay /\ failed' = FALSE
SettingsUnread ==
    /\ \/ UNCHANGED <<relay, toggleRelay>>
       \/ relay' = FALSE /\ toggleRelay' = FALSE
    /\ failed' = TRUE

(* mist_esp8266_sonoff_app_init, from load_settings on. *)
load_settings ==
    /\ pc = "BOOT"
    /\ pc' = "IDLE"
    /\ SettingsRead \/ SettingsUnread
    /\ toggle' = relay'
    /\ reported' = [button |-> button, toggle |-> toggle', relay |-> relay',
                    toggleRelay |-> toggleRelay']
    /\ UNCHANGED <<gpio, button, press, stored>>

(* The device restarts: RAM is initialised, flash and the button stay. *)
Restart ==
    /\ pc' = "BOOT"
    /\ button' = FALSE /\ toggle' = FALSE
    /\ relay' = RELAY_DEFAULT_STATE /\ toggleRelay' = TOGGLE_RELAY_DEFAULT_STATE
    /\ debounceState' = FALSE /\ quiet' = FALSE
    /\ status' = FALSE /\ isr' = FALSE
    /\ heldFor' = 0 /\ handled' = FALSE /\ cnt' = 0
    /\ UNCHANGED <<pin, flash, reported>>

PowerLoss == pc # "BOOT" /\ Restart

PinChanges ==
    /\ pin' = ~pin
    /\ status' = TRUE
    /\ UNCHANGED <<isr, debounceState, quiet, pc, app, press, flash, reported>>

(* gpio_isr reads the level, then clears the status: an edge in between is *)
(* cleared with the one it handles, and causes no interrupt.               *)
IsrReads ==
    /\ status /\ ~isr
    /\ isr' = TRUE
    /\ debounceState' = pin
    /\ quiet' = FALSE
    /\ pc' = IF pc = "TIME" THEN "WRAPPED" ELSE pc
    /\ UNCHANGED <<pin, status, app, press, flash, reported>>

IsrClears ==
    /\ isr
    /\ isr' = FALSE /\ status' = FALSE
    /\ UNCHANGED <<pin, debounceState, quiet, pc, app, press, flash, reported>>

(* 100 ms have passed since the last interrupt. *)
DebounceTimePasses ==
    /\ ~quiet /\ ~isr
    /\ quiet' = TRUE
    /\ UNCHANGED <<pin, status, isr, debounceState, pc, app, press, flash, reported>>

-----------------------------------------------------------------------------
(* button_timer_cb, first part: is there a debounced change?  What the     *)
(* interrupt writes is read again and again, and may change meanwhile.     *)
TimerBegins ==
    /\ pc = "IDLE" /\ ~isr
    /\ pc' = "TIME"
    /\ UNCHANGED <<gpio, app, press, flash, reported>>

DebouncedEarly(wrapped) == wrapped \/ ~quiet     \* mutant: < instead of >
Debounced(wrapped) == wrapped \/ quiet

TimerCompares ==
    /\ pc \in {"TIME", "WRAPPED"} /\ ~isr
    /\ pc' = IF Debounced(pc = "WRAPPED") /\ button # debounceState
             THEN "LATCH" ELSE "SECOND"
    /\ UNCHANGED <<gpio, app, press, flash, reported>>

TellFollowers ==
    reported' = [reported EXCEPT !.button = button', !.toggle = toggle',
                                 !.relay = relay']

(* The press toggles; press and release both put the relay in the state of *)
(* the toggle, if it is to follow.                                         *)
TimerLatches ==
    /\ pc = "LATCH" /\ ~isr
    /\ button' = debounceState
    /\ heldFor' = 0
    /\ toggle' = IF button' THEN ~toggle ELSE toggle
    /\ relay' = IF toggleRelay THEN toggle' ELSE relay
    /\ pc' = IF toggleRelay THEN "SAVE" ELSE "SECOND"
    /\ TellFollowers
    /\ UNCHANGED <<gpio, toggleRelay, handled, cnt, flash>>

SaveRelayOnly ==                             \* mutant: the second bit forgotten
    stored' = {[relay |-> relay, toggleRelay |-> FALSE]} /\ failed' = FALSE

Written == {[relay |-> relay, toggleRelay |-> toggleRelay]}
write_settings ==
    \/ stored' = Written /\ failed' = FALSE
    \/ stored' \in {stored, Written, {}} /\ failed' = TRUE

TimerSaves ==
    /\ pc = "SAVE" /\ ~isr
    /\ write_settings
    /\ pc' = "SECOND"
    /\ UNCHANGED <<gpio, app, press, reported>>

(* button_timer_cb, second part, once a second: the long press, then the   *)
(* restart.                                                                *)
LongPressEnds(h) == h > LongPress /\ ~button     \* mutant: inverted level
LongPressSeen(h) == h > LongPress /\ button

RestartDue(c) == c > 0

TimerReturns ==
    /\ pc = "SECOND" /\ ~isr
    /\ pc' = "IDLE"
    /\ UNCHANGED <<gpio, app, press, flash, reported>>

SecondPasses ==
    LET held == IF heldFor > LongPress THEN heldFor ELSE heldFor + 1
        seen == handled \/ LongPressSeen(held)
    IN  /\ pc = "SECOND" /\ ~isr
        /\ \/ /\ seen /\ RestartDue(cnt)
              /\ Restart
           \/ /\ ~(seen /\ RestartDue(cnt))
              /\ pc' = "IDLE"
              /\ heldFor' = held
              /\ handled' = seen
              /\ cnt' = IF seen THEN cnt + 1 ELSE cnt
              /\ UNCHANGED <<gpio, app, flash, reported>>

-----------------------------------------------------------------------------
(* hw_write: a peer writes the relay or whether the button controls it.    *)
(* The settings are saved, the peer gets its response, followers are told. *)
hw_write ==
    /\ pc = "IDLE" /\ ~isr
    /\ \E value \in BOOLEAN :
          \/ relay' = value /\ UNCHANGED toggleRelay
          \/ toggleRelay' = value /\ UNCHANGED relay
    /\ pc' = "WRITE_SAVE"
    /\ UNCHANGED <<gpio, button, toggle, press, flash, reported>>

WriteSaves ==
    /\ pc = "WRITE_SAVE" /\ ~isr
    /\ write_settings
    /\ pc' = "WRITE_DONE"
    /\ UNCHANGED <<gpio, app, press, reported>>

WriteReports ==
    /\ pc = "WRITE_DONE" /\ ~isr
    /\ reported' = Current
    /\ pc' = "IDLE"
    /\ UNCHANGED <<gpio, app, press, flash>>

Timer == TimerBegins \/ TimerCompares \/ TimerLatches \/ TimerSaves

Next ==
    \/ load_settings \/ PowerLoss
    \/ PinChanges \/ IsrReads \/ IsrClears \/ DebounceTimePasses
    \/ Timer \/ TimerReturns \/ SecondPasses
    \/ hw_write \/ WriteSaves \/ WriteReports

Spec == Init /\ [][Next]_vars

(* Interrupts are served, time passes, the timers of the SDK expire.       *)
Fairness ==
    /\ WF_vars(IsrReads) /\ WF_vars(IsrClears) /\ WF_vars(DebounceTimePasses)
    /\ SF_vars(TimerBegins)
    /\ WF_vars(load_settings) /\ WF_vars(Timer) /\ SF_vars(SecondPasses)
    /\ WF_vars(WriteSaves) /\ WF_vars(WriteReports)

FairSpec == Spec /\ Fairness

-----------------------------------------------------------------------------
(* Whenever neither handler is between changing a setting and saving it,   *)
(* flash holds what the device is doing: after a loss of power the relay   *)
(* comes back as it was, or as it was before the unfinished change.  Only  *)
(* a load or save that failed can part the two, and only until the next    *)
(* one.  And between two callbacks followers know the state of every       *)
(* endpoint, whether the button or a peer changed it (lines 54-92,         *)
(* 137-149, 315-333, 405-408).                                             *)
SettingsSurvive ==
    /\ pc \notin {"BOOT", "SAVE", "WRITE_SAVE"} =>
           failed \/ Loaded = [relay |-> relay, toggleRelay |-> toggleRelay]
    /\ pc = "IDLE" => reported = Current

(* When the button comes to rest, the debounced state settles at what the  *)
(* interrupt saw last, however interrupts and timer interleaved before     *)
(* (lines 133-135, 206-208).                                               *)
ButtonSettles ==
    []<><<PinChanges>>_vars \/ <>[](button = debounceState)

(* A button that is pressed is released, or the device restarts, whatever  *)
(* peers write meanwhile, unless the interrupt has missed it: an edge that *)
(* comes after the level was read is cleared with the one before, and the  *)
(* last thing seen is that the button was released (lines 160-186,         *)
(* 204-211).                                                               *)
PressMissed == pin /\ ~debounceState /\ ~status /\ ~isr

LongPressRestarts ==
    pin ~> ~pin \/ pc = "BOOT" \/ PressMissed
=============================================================================
