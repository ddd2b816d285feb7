----------------------------- MODULE CoreButton -----------------------------
(***************************************************************************)
(* The button of core_button_led.cpp: button_task samples the level every  *)
(* PollPeriod, arms the hold feedback and decides on a factory reset when  *)
(* it samples the release.  Other tasks write led_mode whenever they like. *)
(*                                                                         *)
(* Time is counted in ticks, a fraction of the poll period; a person's     *)
(* presses and pauses last as long as they like, pauses longer than a      *)
(* poll period (a shorter one may go unseen).                              *)
(***************************************************************************)
EXTENDS Naturals

CONSTANTS
  PollPeriod,     \* kButtonPollPeriodMs
  HoldFeedback,   \* kButtonHoldFeedbackMs
  FactoryReset    \* kButtonFactoryResetMs

ASSUME ButtonAssumption ==
  /\ {PollPeriod, HoldFeedback, FactoryReset} \subseteq Nat \ {0}
  /\ HoldFeedback + PollPeriod < FactoryReset

MaxAge == FactoryReset + 2 * PollPeriod    \* bound: ages are told apart up to here
Older(age) == IF age < MaxAge THEN age + 1 ELSE age

VARIABLES
  level, level_age,   \* external: the button, pressed or not, and for how long
  press_length,       \* how long the last press lasted
  next_poll,          \* ticks until the task wakes up
  last_pressed, hold_feedback_armed,
  press_age,          \* now - press_started_us
  led_mode,           \* "other": a mode that another task forced
  resetting           \* clear_runtime_credentials and safe_restart were called

external == <<level, level_age, press_length>>
task == <<last_pressed, hold_feedback_armed, press_age, led_mode, resetting>>
button == <<external, next_poll, task>>

ButtonTypeOK ==
  /\ {level, last_pressed, hold_feedback_armed, resetting} \subseteq BOOLEAN
  /\ {level_age, press_length, press_age} \subseteq 0..MaxAge
  /\ next_poll \in 0..PollPeriod
  /\ led_mode \in {"Auto", "ButtonHold", "other"}
  /\ hold_feedback_armed => last_pressed /\ press_age >= HoldFeedback

ButtonInit ==
  /\ level = FALSE /\ level_age = 0 /\ press_length = 0
  /\ next_poll = 0
  /\ last_pressed = FALSE /\ hold_feedback_armed = FALSE /\ press_age = 0
  /\ led_mode = "other"      \* LedMode::Provisioning
  /\ resetting = FALSE

\* A tick passes; the person may press or let go.  The restart follows the decision to
\* reset within 100 ms, in which nobody looks at the button.
ButtonTick ==
  /\ ~resetting
  /\ next_poll > 0 /\ next_poll' = next_poll - 1
  /\ press_age' = IF last_pressed THEN Older(press_age) ELSE 0
  /\ \/ UNCHANGED <<level, press_length>> /\ level_age' = Older(level_age)
     \/ /\ ~level => level_age > PollPeriod
        /\ level' = ~level /\ level_age' = 0
        /\ press_length' = IF level THEN Older(level_age) ELSE press_length
  /\ UNCHANGED <<last_pressed, hold_feedback_armed, led_mode, resetting>>

Poll == next_poll = 0 /\ ~resetting /\ next_poll' = PollPeriod

\* Mutant: the start of the press is not taken anew.
StaleStart == IF last_pressed THEN press_age ELSE MaxAge

HeldSoFar == IF last_pressed THEN press_age ELSE 0

PollPressed ==
  /\ Poll /\ level
  /\ last_pressed' = TRUE
  /\ press_age' = HeldSoFar
  /\ IF HeldSoFar >= HoldFeedback /\ ~hold_feedback_armed
       THEN led_mode' = "ButtonHold" /\ hold_feedback_armed' = TRUE
       ELSE UNCHANGED <<led_mode, hold_feedback_armed>>
  /\ UNCHANGED <<external, resetting>>

PollReleased ==
  /\ Poll /\ ~level /\ last_pressed
  /\ last_pressed' = FALSE /\ hold_feedback_armed' = FALSE /\ press_age' = 0
  /\ led_mode' = "Auto"
  /\ resetting' = (press_age >= FactoryReset)
  /\ UNCHANGED external

PollIdle == Poll /\ ~level /\ ~last_pressed /\ UNCHANGED <<external, task>>

\* Wi-Fi, MQTT, maintenance and BLE code set modes of their own.
OthersSetMode ==
  /\ led_mode' = "other"
  /\ UNCHANGED <<external, next_poll, last_pressed, hold_feedback_armed, press_age, resetting>>

ButtonRestart ==
  /\ resetting
  /\ next_poll' = 0 /\ last_pressed' = FALSE /\ hold_feedback_armed' = FALSE /\ press_age' = 0
  /\ led_mode' = "other" /\ resetting' = FALSE
  /\ press_length' = 0
  /\ UNCHANGED <<level, level_age>>

ButtonNext ==
  \/ ButtonTick \/ PollPressed \/ PollReleased \/ PollIdle \/ OthersSetMode \/ ButtonRestart
ButtonSpec == ButtonInit /\ [][ButtonNext]_button

-----------------------------------------------------------------------------
(* Properties *)

\* Polling measures a press from sample to sample.  A reset needs a press that was no
\* more than one poll period short of the 10 s (docs/field-runbooks.html promises
\* exactly 10 s), and every press of 10 s and a period more resets.
ResetMatchesPress ==
  /\ resetting => press_length + PollPeriod > FactoryReset
  /\ (/\ ~level /\ level_age > PollPeriod /\ next_poll > 0
      /\ press_length >= FactoryReset + PollPeriod) => resetting
=============================================================================
